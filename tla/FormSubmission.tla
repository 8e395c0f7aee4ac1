---------------------------- MODULE FormSubmission ----------------------------
(***************************************************************************)
(* What one run of the form filler promises to the idempotency layer: it   *)
(* presses the submit button at most once, and succeeds only after that.   *)
(* A form with an input of type submit may be sent while it is filled, but *)
(* not after the button was pressed.                                       *)
(***************************************************************************)
EXTENDS Naturals

VARIABLES
  typed,    \* the form has an input of type submit
  strayed,  \* that input was clicked
  pressed,  \* how often the button was pressed
  result    \* how the run ended

vars == <<typed, strayed, pressed, result>>

Init == typed \in BOOLEAN /\ strayed = FALSE /\ pressed = 0 /\ result = "none"

Stray ==
  /\ typed /\ pressed = 0 /\ result = "none"
  /\ strayed' = TRUE
  /\ UNCHANGED <<typed, pressed, result>>

Press ==
  /\ pressed = 0 /\ result = "none"
  /\ pressed' = 1
  /\ UNCHANGED <<typed, strayed, result>>

Succeed ==
  /\ pressed = 1 /\ result = "none"
  /\ result' = "succeeded"
  /\ UNCHANGED <<typed, strayed, pressed>>

\* Before the button is pressed or after: the caller cannot tell.
Fail ==
  /\ result = "none"
  /\ result' = "failed"
  /\ UNCHANGED <<typed, strayed, pressed>>

Next == Stray \/ Press \/ Succeed \/ Fail

Spec == Init /\ [][Next]_vars
=============================================================================
