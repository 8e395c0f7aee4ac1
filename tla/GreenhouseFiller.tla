--------------------------- MODULE GreenhouseFiller ---------------------------
(***************************************************************************)
(* One call of GreenHouseFiller.apply (applier/greenhouse_applier.py) with *)
(* its page tools (agent/filler_tools.py, agent/file_upload.py) and the    *)
(* two agent runs it makes (agent/agent_graph.py, application_agent.py).   *)
(*                                                                         *)
(* The filler inspects the page, fills what is not correct, inspects it    *)
(* again, lets a language model answer what is still missing, and submits. *)
(* It works from the last inspection: `todo` is fixed there, while the     *)
(* page shows, hides and fills in controls as it likes, until the form is  *)
(* sent.                                                                   *)
(* Every error of a single control is swallowed; any other error ends the  *)
(* call.  The browser is closed on every way out and is left out.          *)
(***************************************************************************)
EXTENDS Naturals, Sequences, FiniteSets, FiniteSetsExt

CONSTANTS
  Forms,         \* forms to be met: sequences of controls in document order
  Names,         \* accessible names
  NoName,        \* a control without one
  MaxActions,    \* AGENT_MAX_ACTIONS
  MaxFailures,   \* AGENT_MAX_FAILURES
  MaxToolCalls   \* tool calls of one model message, for model checking only

Strategies == {"fill", "select_combobox", "select_native", "select_radio",
               "upload_file", "click", "inert"}

\* What get_answer has for the control: an answer, nothing, or an unknown key.
Keys == {"answered", "blank", "unknown", "submit_button"}
Control == [strategy : Strategies, key : Keys, name : Names \union {NoName},
            required : BOOLEAN,
            group : Nat,        \* radio group, 0 for none
            wanted : BOOLEAN]   \* a radio option that is the answer

ASSUME NameAssumption == NoName \notin Names
ASSUME LimitsAssumption == {MaxActions, MaxFailures} \subseteq Nat \ {0} /\ MaxToolCalls \in Nat
ASSUME FormsAssumption == Forms \subseteq Seq(Control)
ASSUME GroupsAssumption ==
  \A f \in Forms : \A c \in DOMAIN f : f[c].group # 0 => f[c].strategy = "select_radio"

VARIABLES
  form,       \* the controls of this page
  shown,      \* controls that are in the document
  value,      \* what a control holds: nothing, the answer, something else
  todo,       \* controls the running pass will still touch
  pc,         \* where the call is
  assisted,   \* the language model was asked for answers
  calls,      \* call_count of the agent run
  failures,   \* failure_count of the agent run
  toolCalls,  \* tool calls in the model's last message
  pressed,    \* how often submit() pressed the submit button
  strayed,    \* a pass clicked an input of type submit
  result,     \* how the call ended
  found,      \* controls that the second inspection found (history)
  changed     \* controls that the page filled in since the last inspection (history)

page == <<form, shown, value>>
agent == <<calls, failures, toolCalls>>
history == <<found, changed>>
vars == <<page, todo, pc, assisted, agent, pressed, strayed, result, history>>

Values == {"empty", "answer", "other"}
Phases == {"opening", "filling", "asking", "acting", "using", "evaluating", "stopped",
           "assisting", "finding", "waiting", "over"}
Controls == DOMAIN form
Radio(c) == form[c].strategy = "select_radio"
HasAnswer(c) == form[c].key = "answered"

\* What a control can hold: a radio option is checked ("answer" if it is wanted), or empty.
Holdable(f, c) ==
  IF f[c].strategy = "click" \/ f[c].key = "submit_button" THEN {"empty"}
  ELSE IF f[c].key # "answered" THEN {"empty", "other"}
  ELSE IF f[c].strategy # "select_radio" THEN Values
  ELSE IF f[c].wanted THEN {"empty", "answer"} ELSE {"empty", "other"}
SameGroup(f, c, d) == c # d /\ f[c].group # 0 /\ f[c].group = f[d].group

\* _has_correct_value, on the page as it is.
Correct(c) ==
  \/ form[c].strategy = "click"
  \/ form[c].strategy = "upload_file" /\ ~HasAnswer(c) /\ ~form[c].required
  \/ HasAnswer(c) /\ value[c] = "answer"

\* Broken variant: whatever is filled in counts.
CompleteIfFilled ==
  \A c \in shown : form[c].required => value[c] # "empty" \/ Correct(c)

\* The dict of required controls is keyed by name: the last one of a name stays.
Complete ==
  \A c \in shown :
    form[c].required
      /\ (\A d \in shown : form[d].required /\ form[d].name = form[c].name => d <= c)
    => Correct(c)

\* A locator must match one control: a combobox among comboboxes, others by label.
Locatable(c) ==
  /\ c \in shown /\ form[c].name # NoName
  /\ \A d \in shown \ {c} :
       form[d].name = form[c].name =>
         form[c].strategy = "select_combobox" /\ form[d].strategy # "select_combobox"

\* A text field is emptied before the answer is typed; without one the filler fails there.
TextOutcomes(c, text) == {"empty"} \union IF text THEN Holdable(form, c) ELSE {}

\* A combobox that opens without options is emptied and typed into, and may offer none.
TypedInto(c) == {value[c], "empty"}
\* The one option that matches is taken; what the control then shows may read otherwise.
ComboboxOutcomes(c) == TypedInto(c) \union Holdable(form, c)

\* A native select is read, but has no listbox to wait for: it is never set.
NativeOutcomes(c) == {value[c]}

UploadOutcomes(c) == IF HasAnswer(c) /\ c \in shown THEN {"answer"} ELSE {}

\* What a control may hold after its filler ran, or failed half-way; `text` says that there
\* is an answer to type.
Outcomes(c, text) ==
  {value[c]} \union
  CASE form[c].strategy = "upload_file" -> UploadOutcomes(c)
    [] ~Locatable(c) -> {}
    [] form[c].strategy = "fill" -> TextOutcomes(c, text)
    [] form[c].strategy = "select_combobox" -> ComboboxOutcomes(c)
    [] form[c].strategy = "select_native" -> NativeOutcomes(c)
    [] Radio(c) -> Holdable(form, c) \ {"empty"}
    [] OTHER -> {}

\* An input of type submit passes for a text field, which is clicked before it is filled.
TypedButton(f, c) == f[c].strategy = "fill" /\ f[c].key = "submit_button"
ClicksButton(c) == TypedButton(form, c) /\ Locatable(c)

\* Checking a radio option unchecks the others.
Put(c, v) ==
  [d \in Controls |-> IF d = c THEN v
                      ELSE IF v # value[c] /\ SameGroup(form, c, d) THEN "empty" ELSE value[d]]

Goto(phase) == pc' = phase
End(how) == Goto("over") /\ result' = how

Init ==
  /\ form \in Forms
  /\ shown \in SUBSET DOMAIN form
  /\ value \in [DOMAIN form -> Values]
  /\ \A c \in DOMAIN form :
       /\ value[c] \in Holdable(form, c)
       /\ value[c] # "empty" => \A d \in DOMAIN form : SameGroup(form, c, d) => value[d] = "empty"
  /\ todo = {}
  /\ pc = "opening"
  /\ assisted = FALSE
  /\ calls = 0 /\ failures = 0 /\ toolCalls = 0
  /\ pressed = 0 /\ strayed = FALSE
  /\ result = "none"
  /\ found = {} /\ changed = {}

-----------------------------------------------------------------------------
(* playwright_apply.                                                       *)

\* Broken variant: correct controls are filled again.
InspectEverything ==
  /\ pc = "opening"
  /\ todo' = {c \in shown : form[c].key # "unknown"}
  /\ Goto("filling")
  /\ UNCHANGED <<page, assisted, agent, pressed, strayed, result, history>>

\* The page is open and inspected: unknown keys and correct controls are skipped.
Inspect ==
  /\ pc = "opening"
  /\ todo' = {c \in shown : form[c].key # "unknown" /\ ~Correct(c)}
  /\ Goto("filling")
  /\ UNCHANGED <<page, assisted, agent, pressed, strayed, result, history>>

\* The next control gets its answer, or fails, before its click or after.
FillNext ==
  /\ pc \in {"filling", "assisting"} /\ todo # {}
  /\ LET c == Min(todo)
     IN  /\ \E v \in Outcomes(c, HasAnswer(c) \/ pc = "assisting") : value' = Put(c, v)
         /\ strayed' \in {strayed, strayed \/ ClicksButton(c)}
         /\ todo' = todo \ {c}
  /\ UNCHANGED <<form, shown, pc, assisted, agent, pressed, result, history>>

\* The second inspection finds every required control correct.
FindComplete ==
  /\ pc = "filling" /\ todo = {}
  /\ Complete
  /\ Goto("finding")
  /\ found' = shown /\ changed' = {}
  /\ UNCHANGED <<page, todo, assisted, agent, pressed, strayed, result>>

FindIncomplete ==
  /\ pc = "filling" /\ todo = {}
  /\ ~Complete
  /\ Goto("asking")
  /\ UNCHANGED <<page, todo, assisted, agent, pressed, strayed, result, history>>

-----------------------------------------------------------------------------
(* llm_assist_incomplete_application.                                      *)

\* An agent run has a state of its own, which is gone when it returns.
LeaveAgent == calls' = 0 /\ failures' = 0 /\ toolCalls' = 0

FieldsToFill == {c \in shown : ~Correct(c) /\ form[c].required /\ form[c].name # NoName}

\* The page is inspected once more, for what to ask.
AskForAnswers ==
  /\ pc = "asking"
  /\ todo' = FieldsToFill
  /\ assisted' = TRUE /\ changed' = {}
  /\ Goto("acting")
  /\ UNCHANGED <<page, agent, pressed, strayed, result, found>>

\* The same question was answered within the last seven days.
CachedAnswers(names) ==
  /\ pc = "asking"
  /\ todo' = {c \in FieldsToFill : form[c].name \in names}
  /\ assisted' = TRUE /\ changed' = {}
  /\ Goto("assisting")
  /\ UNCHANGED <<page, agent, pressed, strayed, result, found>>

\* Nobody checks the form again.
AssistanceEnds ==
  /\ pc = "assisting" /\ todo = {}
  /\ Goto("finding")
  /\ UNCHANGED <<page, todo, assisted, agent, pressed, strayed, result, history>>

-----------------------------------------------------------------------------
(* The agent graph.                                                        *)

\* Its tools are those of mode "read".
ToolsOnlyRead == UNCHANGED page

\* Broken variant: one action too many.
ModelAnswersOnceMore(n) ==
  /\ pc = "acting"
  /\ calls' = calls + 1
  /\ toolCalls' = n
  /\ Goto(IF failures >= MaxFailures \/ calls' > MaxActions THEN "stopped"
          ELSE IF n > 0 THEN "using" ELSE "evaluating")
  /\ UNCHANGED <<page, todo, assisted, failures, pressed, strayed, result, history>>

\* Broken variant: the messages of the model are not counted.
ModelAnswersUncounted(n) ==
  /\ pc = "acting"
  /\ toolCalls' = n
  /\ Goto(IF failures >= MaxFailures \/ calls >= MaxActions THEN "stopped"
          ELSE IF n > 0 THEN "using" ELSE "evaluating")
  /\ UNCHANGED <<page, todo, assisted, calls, failures, pressed, strayed, result, history>>

\* act and post_act_router: the last message of the budget is not looked at.
ModelAnswers(n) ==
  /\ pc = "acting"
  /\ calls' = calls + 1
  /\ toolCalls' = n
  /\ Goto(IF failures >= MaxFailures \/ calls' >= MaxActions THEN "stopped"
          ELSE IF n > 0 THEN "using" ELSE "evaluating")
  /\ UNCHANGED <<page, todo, assisted, failures, pressed, strayed, result, history>>

UseTools(failed) ==
  /\ pc = "using"
  /\ failed <= toolCalls
  /\ failures' = failures + failed
  /\ Goto("acting")
  /\ ToolsOnlyRead
  /\ UNCHANGED <<todo, assisted, calls, toolCalls, pressed, strayed, result, history>>

\* The model's text becomes a list of answers by name.
GetAnswers(names) ==
  /\ pc = "evaluating" /\ pressed = 0
  /\ todo' = {c \in todo : form[c].name \in names}
  /\ LeaveAgent
  /\ Goto("assisting")
  /\ UNCHANGED <<page, assisted, pressed, strayed, result, history>>

\* The budget is over: there is no structured output, so no answers and no status.
StopWithoutAnswers ==
  /\ pc = "stopped" /\ pressed = 0
  /\ todo' = {}
  /\ LeaveAgent
  /\ Goto("assisting")
  /\ UNCHANGED <<page, assisted, pressed, strayed, result, history>>

StopWithoutStatus ==
  /\ pc = "stopped" /\ pressed > 0
  /\ LeaveAgent
  /\ End("failed")
  /\ UNCHANGED <<page, todo, assisted, pressed, strayed, history>>

-----------------------------------------------------------------------------
(* submit, and the verdict on it.                                          *)

SubmitButton(c) == form[c].strategy = "click" /\ form[c].key = "submit_button"

\* The button is looked for in an inspection of its own.  The history ends here.
Press ==
  /\ pc = "finding"
  /\ \E c \in shown : SubmitButton(c)
  /\ pressed' = pressed + 1
  /\ Goto("waiting")
  /\ found' = {} /\ changed' = {}
  /\ UNCHANGED <<page, todo, assisted, agent, strayed, result>>

\* A POST that follows the click is answered and accepted, be it the form's or another.
SubmissionAccepted ==
  /\ pc = "waiting"
  /\ Goto("acting")
  /\ UNCHANGED <<page, todo, assisted, agent, pressed, strayed, result, history>>

\* Broken variant: a failed submission counts as an incomplete form and is tried again.
SubmissionRetried ==
  /\ pc = "waiting"
  /\ Goto("assisting")
  /\ UNCHANGED <<page, todo, assisted, agent, pressed, strayed, result, history>>

\* No answer within thirty seconds, one that breaks off, or one that is no success.
SubmissionFails ==
  /\ pc = "waiting"
  /\ End("failed")
  /\ UNCHANGED <<page, todo, assisted, agent, pressed, strayed, history>>

\* The model reads the page; whatever it says but "success" is a failure.
GetStatus(how) ==
  /\ pc = "evaluating" /\ pressed > 0
  /\ LeaveAgent
  /\ End(how)
  /\ UNCHANGED <<page, todo, assisted, pressed, strayed, history>>

\* The browser or the model fails outside the passes over the controls, or the button
\* is missing.
Raise ==
  /\ pc \in Phases \ {"over", "waiting", "using", "stopped"}
  /\ pc \in {"filling", "assisting"} => todo = {}
  /\ LeaveAgent
  /\ End("failed")
  /\ UNCHANGED <<page, todo, assisted, pressed, strayed, history>>

FillerStep ==
  \/ Inspect \/ FillNext \/ FindComplete \/ FindIncomplete
  \/ AskForAnswers \/ AssistanceEnds
  \/ \E names \in SUBSET Names : CachedAnswers(names) \/ GetAnswers(names)
  \/ \E n \in 0..MaxToolCalls : ModelAnswers(n) \/ UseTools(n)
  \/ StopWithoutAnswers \/ StopWithoutStatus
  \/ Press \/ SubmissionAccepted \/ SubmissionFails
  \/ \E how \in {"succeeded", "failed"} : GetStatus(how)
  \/ Raise

-----------------------------------------------------------------------------
(* The page, at any await between the first inspection, before which every *)
(* page is an initial one, and the click, after which no step reads it.    *)

PageLives == pressed = 0 /\ pc \notin {"opening", "over"}

\* A question appears with the answer to another, or is withdrawn, or the page has changed.
PageShows(c) ==
  /\ PageLives
  /\ shown' = IF c \in shown THEN shown \ {c} ELSE shown \union {c}
  /\ UNCHANGED <<form, value, todo, pc, assisted, agent, pressed, strayed, result, history>>

\* A script of the page, which has read the resume, say, fills a control in or clears it.
PageFills(c) ==
  /\ PageLives
  /\ \E v \in Holdable(form, c) \ {value[c]} : value' = Put(c, v)
  /\ changed' = changed \union {d \in Controls : value'[d] # value[d]}
  /\ UNCHANGED <<form, shown, todo, pc, assisted, agent, pressed, strayed, result, found>>

PageStep == \E c \in Controls : PageShows(c) \/ PageFills(c)

Next == FillerStep \/ PageStep

Spec == Init /\ [][Next]_vars

\* At an await that has no timeout: the scripts that inspect a page, the count of a locator,
\* the end of a response.
AtPage ==
  \/ pc \in {"opening", "filling", "asking", "using", "finding", "waiting"}
  \/ pc = "assisting" /\ todo # {}

\* The model's client has a timeout, and what needs no answer goes on.
FairSpec == Spec /\ WF_vars(~AtPage /\ FillerStep)

-----------------------------------------------------------------------------
(* Properties.                                                             *)

\* Every variable keeps its type; an agent run stays within its budget.
TypeOK ==
  /\ form \in Forms
  /\ {shown, todo, found, changed} \subseteq SUBSET Controls
  /\ value \in [Controls -> Values]
  /\ pc \in Phases
  /\ {assisted, strayed} \subseteq BOOLEAN
  /\ calls \in 0..MaxActions
  /\ failures \in 0..(MaxFailures + MaxToolCalls)
  /\ toolCalls \in 0..MaxToolCalls
  /\ pressed \in Nat
  /\ result \in {"none", "succeeded", "failed"}

\* A form that submit() sends without the model's help has every required control right that
\* the second inspection found, also one that appeared while others were filled, unless
\* another one has the same name, or the page has filled it in since.  What appears after
\* that inspection is sent as it is: nobody looks at the form again.
CompleteUnlessAssisted ==
  [][pressed' # pressed /\ ~assisted =>
       \A c \in found \ changed :
         /\ form[c].required
         /\ \A d \in found \ {c} : form[d].required => form[d].name # form[c].name
         => Correct(c)]_vars

\* No pass spoils what is right: a control that holds its answer keeps it through both
\* passes, unless another option of its radio group is checked.  Of a control that the page
\* has filled in since the inspection the pass knows nothing.
AnswersSurvive ==
  [][\A c \in Controls \ changed' :
       value[c] = "answer" =>
         \/ value'[c] = "answer"
         \/ \E d \in Controls : SameGroup(form, c, d) /\ value'[d] # "empty"]_vars

\* submit() presses the button at most once and the call succeeds only after it: no failure
\* after the click leads back to the form.  Only a pass, on a form with an input of type
\* submit, sends a form otherwise, and never after submit() has.
Submission == INSTANCE FormSubmission WITH typed <- \E c \in Controls : TypedButton(form, c)
ImplementsSubmission == Submission!Spec

\* A call ends, unless it stays for ever at one await that has no timeout: neither an agent's
\* conversation nor a failure after the click goes round in circles.
CallEnds ==
  <>(pc = "over") \/ \E p \in Phases : <>[](pc = p /\ AtPage)
=============================================================================
