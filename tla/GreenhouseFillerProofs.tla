------------------------ MODULE GreenhouseFillerProofs ------------------------
(***************************************************************************)
(* Proofs about GreenhouseFiller, for any form and any budget of the       *)
(* agents.                                                                 *)
(***************************************************************************)
EXTENDS GreenhouseFiller, NaturalOrder, TLAPS

(* What the properties rest on: the agents' counters, when the form is     *)
(* still open, what the second inspection found, and that a pass only      *)
(* touches controls that are not right, or not as it found them.           *)

AgentPhases == {"acting", "using", "evaluating", "stopped"}

\* The counters belong to an agent run; a message beyond the budget is not acted on.
BudgetsKept ==
  /\ pc \notin AgentPhases => calls = 0 /\ failures = 0 /\ toolCalls = 0
  /\ pc \in {"acting", "using"} => calls < MaxActions
  /\ pc = "using" => failures < MaxFailures

\* The form is open until the button is pressed.
PressedAtTheEnd ==
  /\ pc \in {"opening", "filling", "asking", "assisting", "finding"} => pressed = 0
  /\ pc = "waiting" => pressed = 1
  /\ pressed \in {0, 1}
  /\ pc \in AgentPhases \union {"assisting"} => assisted \/ pressed = 1
  /\ pc = "over" <=> result # "none"

ValuesHoldable == \A c \in Controls : value[c] \in Holdable(form, c)

\* What a pass still has to touch does not hold its answer, unless the page has given it one.
TodoIsWrong ==
  /\ \A c \in todo \ changed : value[c] # "answer"
  /\ pc = "finding" => todo = {}

\* What the second inspection found complete stays so until the button is pressed, as far
\* as the page leaves it alone.
CheckedIsRight ==
  pc = "finding" /\ ~assisted =>
    \A c \in found \ changed :
      form[c].required
        /\ (\A d \in found : form[d].required /\ form[d].name = form[c].name => d <= c)
      => Correct(c)

FillerInvariant ==
  TypeOK /\ BudgetsKept /\ PressedAtTheEnd /\ ValuesHoldable /\ TodoIsWrong /\ CheckedIsRight

-----------------------------------------------------------------------------
(* The form.                                                               *)

LEMMA ControlsOfForm ==
  ASSUME TypeOK
  PROVE  Controls \subseteq Nat /\ \A c \in Controls : form[c] \in Control
  BY FormsAssumption DEF TypeOK, Controls

LEMMA Holdables ==
  ASSUME NEW f, NEW c
  PROVE  Holdable(f, c) \subseteq Values /\ "empty" \in Holdable(f, c)
  BY DEF Holdable, Values

\* A filler leaves a control with what it can hold; a radio option stays or is checked.
LEMMA OutcomesHoldable ==
  ASSUME ValuesHoldable, NEW c \in Controls, NEW text, NEW v \in Outcomes(c, text)
  PROVE  /\ v \in Holdable(form, c)
         /\ Radio(c) => v = value[c] \/ v # "empty"
<1>1. value[c] \in Holdable(form, c) /\ "empty" \in Holdable(form, c)
  BY Holdables DEF ValuesHoldable
<1>2. CASE v = value[c]
  BY <1>1, <1>2
<1>3. CASE v \in UploadOutcomes(c) /\ form[c].strategy = "upload_file"
  BY <1>3 DEF UploadOutcomes, HasAnswer, Holdable, Values, Radio
<1>4. CASE v \in TextOutcomes(c, text) /\ form[c].strategy = "fill"
  BY <1>1, <1>4 DEF TextOutcomes, Radio
<1>5. CASE v \in ComboboxOutcomes(c) /\ form[c].strategy = "select_combobox"
  BY <1>1, <1>5 DEF ComboboxOutcomes, TypedInto, Radio
<1>6. CASE v \in Holdable(form, c) \ {"empty"}
  BY <1>6
<1> QED
  BY <1>2, <1>3, <1>4, <1>5, <1>6 DEF Outcomes, NativeOutcomes, Radio

-----------------------------------------------------------------------------
(* Steps of one kind.                                                      *)

\* Inspections, agents and the button leave the page; a new pass is for what is not right.
LEMMA ReadingKeepsPage ==
  ASSUME FillerInvariant, UNCHANGED page, todo' \subseteq todo \union shown,
         \A c \in todo' \ changed' : c \in todo \ changed \/ (c \in shown /\ ~Correct(c))
  PROVE  /\ form' \in Forms /\ shown' \subseteq Controls' /\ value' \in [Controls' -> Values]
         /\ todo' \subseteq Controls'
         /\ ValuesHoldable' /\ \A c \in todo' \ changed' : value'[c] # "answer"
<1>1. UNCHANGED <<form, shown, value>>
  BY DEF page
<1>2. ASSUME NEW c \in shown, ~Correct(c) PROVE value[c] # "answer"
  <2>1. value[c] \in Holdable(form, c)
    BY DEF FillerInvariant, TypeOK, ValuesHoldable
  <2>2. value[c] = "answer" => HasAnswer(c)
    BY <2>1 DEF Holdable, HasAnswer
  <2> QED BY <1>2, <2>2 DEF Correct
<1>3. \A c \in todo' \ changed' : value'[c] # "answer"
  BY <1>1, <1>2 DEF FillerInvariant, TodoIsWrong
<1>4. ValuesHoldable'
  BY <1>1 DEF FillerInvariant, ValuesHoldable, Controls, Holdable
<1>5. /\ form' \in Forms /\ shown' \subseteq Controls' /\ value' \in [Controls' -> Values]
      /\ todo' \subseteq Controls'
  BY <1>1 DEF FillerInvariant, TypeOK, Controls
<1> QED BY <1>3, <1>4, <1>5

\* A control changes, by the filler or the page; in its radio group the others are unchecked.
LEMMA PuttingValues ==
  ASSUME FillerInvariant, NEW c \in Controls, NEW v \in Holdable(form, c), value' = Put(c, v),
         form' = form
  PROVE  /\ value' \in [Controls -> Values] /\ value'[c] = v
         /\ \A d \in Controls \ {c} :
              value'[d] = IF v # value[c] /\ SameGroup(form, c, d) THEN "empty" ELSE value[d]
         /\ ValuesHoldable'
<1>1. v \in Values /\ "empty" \in Values /\ value \in [Controls -> Values]
  BY Holdables DEF FillerInvariant, TypeOK, Values
<1>2. value' = [d \in Controls |-> IF d = c THEN v
                                   ELSE IF v # value[c] /\ SameGroup(form, c, d) THEN "empty"
                                   ELSE value[d]]
  BY DEF Put
<1>3. /\ value' \in [Controls -> Values] /\ value'[c] = v
      /\ \A d \in Controls \ {c} :
           value'[d] = IF v # value[c] /\ SameGroup(form, c, d) THEN "empty" ELSE value[d]
  BY <1>1, <1>2
<1>4. ASSUME NEW d \in Controls PROVE value'[d] \in Holdable(form, d)
  BY <1>3, Holdables DEF FillerInvariant, ValuesHoldable
<1>5. ValuesHoldable'
  BY <1>4 DEF ValuesHoldable, Controls, Holdable
<1> QED BY <1>3, <1>5

\* One control is filled.
LEMMA FillingControls ==
  ASSUME FillerInvariant, FillNext
  PROVE  \E c \in todo : \E v \in Holdable(form, c) :
           /\ Radio(c) => v = value[c] \/ v # "empty"
           /\ todo' = todo \ {c}
           /\ value' = Put(c, v)
           /\ strayed' = strayed \/ (strayed' = TRUE /\ TypedButton(form, c))
<1>1. todo \subseteq Controls /\ todo \subseteq Nat /\ todo # {}
  BY ControlsOfForm DEF FillNext, FillerInvariant, TypeOK
<1>2. Min(todo) \in todo
  BY <1>1, MinIsLeast
<1> DEFINE c == Min(todo)
<1>3. PICK v \in Outcomes(c, HasAnswer(c) \/ pc = "assisting") : value' = Put(c, v)
  BY DEF FillNext
<1>4. v \in Holdable(form, c) /\ (Radio(c) => v = value[c] \/ v # "empty")
  BY <1>1, <1>2, <1>3, OutcomesHoldable DEF FillerInvariant
<1>5. todo' = todo \ {c} /\ strayed' \in {strayed, strayed \/ ClicksButton(c)}
  BY DEF FillNext
<1>6. strayed' = strayed \/ (strayed' = TRUE /\ TypedButton(form, c))
  BY <1>5, Zenon DEF ClicksButton, FillerInvariant, TypeOK
<1> QED BY <1>2, <1>3, <1>4, <1>5, <1>6

LEMMA FillingKeepsInvariant ==
  ASSUME FillerInvariant, FillNext
  PROVE  FillerInvariant'
<1>1. PICK c \in todo : \E v \in Holdable(form, c) :
        /\ todo' = todo \ {c}
        /\ value' = Put(c, v)
        /\ strayed' = strayed \/ strayed' = TRUE
  BY FillingControls
<1>2. /\ UNCHANGED <<form, shown, pc, assisted, calls, failures, toolCalls, pressed, result>>
      /\ UNCHANGED <<found, changed>> /\ pc \in {"filling", "assisting"}
  BY DEF FillNext, agent, history
<1>3. c \in Controls
  BY DEF FillerInvariant, TypeOK
<1>4. /\ value' \in [Controls -> Values] /\ ValuesHoldable'
      /\ \A d \in Controls \ {c} : value'[d] \in {"empty", value[d]}
  BY <1>1, <1>2, <1>3, PuttingValues
<1>5. TypeOK' /\ BudgetsKept'
  BY <1>1, <1>2, <1>4 DEF FillerInvariant, TypeOK, BudgetsKept, Controls
<1>6. PressedAtTheEnd' /\ CheckedIsRight'
  BY <1>2 DEF FillerInvariant, PressedAtTheEnd, AgentPhases, CheckedIsRight
<1>7. TodoIsWrong'
  BY <1>1, <1>2, <1>4 DEF FillerInvariant, TodoIsWrong, TypeOK
<1> QED BY <1>4, <1>5, <1>6, <1>7 DEF FillerInvariant

\* The page shows or hides a control, or fills one in, and the history says so.
LEMMA PageKeepsInvariant ==
  ASSUME FillerInvariant, PageStep
  PROVE  FillerInvariant'
<1>1. PICK c \in Controls : PageShows(c) \/ PageFills(c)
  BY DEF PageStep
<1>2. UNCHANGED <<form, todo, pc, assisted, calls, failures, toolCalls, pressed, strayed, result, found>>
  BY <1>1 DEF PageShows, PageFills, agent, history
<1>3. CASE PageShows(c)
  <2>1. UNCHANGED <<value, changed>> /\ shown' \subseteq Controls
    BY <1>3 DEF PageShows, history, FillerInvariant, TypeOK
  <2>2. TypeOK' /\ BudgetsKept'
    BY <1>2, <2>1 DEF FillerInvariant, TypeOK, BudgetsKept, Controls
  <2>3. PressedAtTheEnd'
    BY <1>2 DEF FillerInvariant, PressedAtTheEnd
  <2>4. ValuesHoldable' /\ TodoIsWrong'
    BY <1>2, <2>1 DEF FillerInvariant, ValuesHoldable, TodoIsWrong, Controls, Holdable
  <2>5. CheckedIsRight'
    BY <1>2, <2>1 DEF FillerInvariant, CheckedIsRight, Correct, HasAnswer
  <2> QED BY <2>2, <2>3, <2>4, <2>5 DEF FillerInvariant
<1>4. CASE PageFills(c)
  <2>1. PICK v \in Holdable(form, c) : value' = Put(c, v)
    BY <1>4 DEF PageFills
  <2>2. /\ shown' = shown /\ changed \subseteq changed' /\ changed' \subseteq Controls
        /\ \A d \in Controls : d \notin changed' => value'[d] = value[d]
    BY <1>4 DEF PageFills, FillerInvariant, TypeOK
  <2>3. value' \in [Controls -> Values] /\ ValuesHoldable'
    BY <1>2, <2>1, PuttingValues
  <2>4. TypeOK' /\ BudgetsKept'
    BY <1>2, <2>2, <2>3 DEF FillerInvariant, TypeOK, BudgetsKept, Controls
  <2>5. PressedAtTheEnd'
    BY <1>2 DEF FillerInvariant, PressedAtTheEnd
  <2>6. TodoIsWrong'
    BY <1>2, <2>2 DEF FillerInvariant, TodoIsWrong, TypeOK
  <2>7. CheckedIsRight'
    BY <1>2, <2>2 DEF FillerInvariant, CheckedIsRight, Correct, HasAnswer, TypeOK
  <2> QED BY <2>3, <2>4, <2>5, <2>6, <2>7 DEF FillerInvariant
<1> QED BY <1>1, <1>3, <1>4

\* The passes and the agents, without a touch of the page.
ReadingStep ==
  \/ Inspect \/ FindComplete \/ FindIncomplete \/ AskForAnswers \/ AssistanceEnds
  \/ \E names \in SUBSET Names : CachedAnswers(names) \/ GetAnswers(names)
  \/ \E n \in 0..MaxToolCalls : ModelAnswers(n) \/ UseTools(n)
  \/ StopWithoutAnswers \/ StopWithoutStatus
  \/ Press \/ SubmissionAccepted \/ SubmissionFails
  \/ \E how \in {"succeeded", "failed"} : GetStatus(how)
  \/ Raise

LEMMA ReadingSteps ==
  ASSUME FillerInvariant, ReadingStep
  PROVE  /\ UNCHANGED <<page, strayed>> /\ todo' \subseteq todo \union shown
         /\ \A c \in todo' \ changed' : c \in todo \ changed \/ (c \in shown /\ ~Correct(c))
         /\ pc' = "finding" => todo' = {}
         /\ found' \in {found, shown, {}} /\ changed' \in {changed, {}}
<1> USE DEF history, Goto, End
<1>1. CASE Inspect
  BY <1>1 DEF Inspect
<1>2. CASE FindComplete \/ FindIncomplete \/ AskForAnswers \/ AssistanceEnds
            \/ \E names \in SUBSET Names : CachedAnswers(names) \/ GetAnswers(names)
  BY <1>2 DEF FindComplete, FindIncomplete, AskForAnswers, AssistanceEnds, CachedAnswers,
     GetAnswers, FieldsToFill
<1>3. CASE \E n \in 0..MaxToolCalls : ModelAnswers(n) \/ UseTools(n)
  BY <1>3 DEF ModelAnswers, UseTools, ToolsOnlyRead
<1>4. CASE StopWithoutAnswers \/ StopWithoutStatus \/ SubmissionAccepted
            \/ SubmissionFails \/ Raise
            \/ \E how \in {"succeeded", "failed"} : GetStatus(how)
  BY <1>4 DEF StopWithoutAnswers, StopWithoutStatus, SubmissionAccepted, SubmissionFails,
     Raise, GetStatus
<1>5. CASE Press
  BY <1>5 DEF Press, FillerInvariant, TodoIsWrong
<1> QED BY <1>1, <1>2, <1>3, <1>4, <1>5 DEF ReadingStep

\* Only the second inspection, or the model's help, leads to the button.
LEMMA ReadingKeepsChecked ==
  ASSUME FillerInvariant, ReadingStep
  PROVE  CheckedIsRight'
<1>1. CASE pc' # "finding"
  BY <1>1 DEF CheckedIsRight
<1>2. CASE pc' = "finding"
  <2>1. FindComplete \/ AssistanceEnds
    BY <1>2 DEF ReadingStep, Inspect, FindIncomplete, AskForAnswers, CachedAnswers, GetAnswers,
       ModelAnswers, UseTools, StopWithoutAnswers, StopWithoutStatus, Press, SubmissionAccepted,
       SubmissionFails, GetStatus, Raise, Goto, End
  <2>2. CASE FindComplete
    <3>1. Complete /\ found' = shown /\ UNCHANGED <<form, shown, value>>
      BY <2>2 DEF FindComplete, page
    <3> QED BY <3>1 DEF CheckedIsRight, Complete, Correct, HasAnswer
  <2>3. CASE AssistanceEnds
    BY <2>3 DEF AssistanceEnds, FillerInvariant, PressedAtTheEnd, CheckedIsRight
  <2> QED BY <2>1, <2>2, <2>3
<1> QED BY <1>1, <1>2

\* The counters of the agents and the phase of the call.
Counted ==
  /\ pc \in Phases /\ assisted \in BOOLEAN
  /\ calls \in 0..MaxActions
  /\ failures \in 0..(MaxFailures + MaxToolCalls)
  /\ toolCalls \in 0..MaxToolCalls
  /\ pressed \in Nat
  /\ result \in {"none", "succeeded", "failed"}
  /\ BudgetsKept /\ PressedAtTheEnd

LEMMA ReadingKeepsCounts ==
  ASSUME FillerInvariant, ReadingStep
  PROVE  Counted'
<1> USE LimitsAssumption
    DEF Counted, BudgetsKept, PressedAtTheEnd, AgentPhases, Phases, Goto, End, LeaveAgent, agent
<1>0. Counted
  BY DEF FillerInvariant, TypeOK
<1>1. CASE Inspect \/ FindComplete \/ FindIncomplete \/ AssistanceEnds
  BY <1>0, <1>1 DEF Inspect, FindComplete, FindIncomplete, AssistanceEnds
<1>2. CASE AskForAnswers
  BY <1>0, <1>2 DEF AskForAnswers
<1>3. ASSUME NEW names, CachedAnswers(names) PROVE Counted'
  BY <1>0, <1>3 DEF CachedAnswers
<1>4. ASSUME NEW names, GetAnswers(names) PROVE Counted'
  BY <1>0, <1>4 DEF GetAnswers
<1>5. ASSUME NEW n \in 0..MaxToolCalls, ModelAnswers(n) PROVE Counted'
  BY <1>0, <1>5 DEF ModelAnswers
<1>6. ASSUME NEW n \in 0..MaxToolCalls, UseTools(n) PROVE Counted'
  BY <1>0, <1>6 DEF UseTools
<1>7. CASE StopWithoutAnswers \/ StopWithoutStatus
  BY <1>0, <1>7 DEF StopWithoutAnswers, StopWithoutStatus
<1>8. CASE Press \/ SubmissionAccepted \/ SubmissionFails
  BY <1>0, <1>8 DEF Press, SubmissionAccepted, SubmissionFails
<1>9. CASE (\E how \in {"succeeded", "failed"} : GetStatus(how)) \/ Raise
  BY <1>0, <1>9 DEF GetStatus, Raise
<1> QED BY <1>1, <1>2, <1>3, <1>4, <1>5, <1>6, <1>7, <1>8, <1>9 DEF ReadingStep

-----------------------------------------------------------------------------
(* The theorems.                                                           *)

LEMMA InvariantInitially == Init => FillerInvariant
<1> SUFFICES ASSUME Init PROVE FillerInvariant
  OBVIOUS
<1> USE LimitsAssumption DEF Init
<1>1. TypeOK
  <2>1. /\ form \in Forms /\ {shown, todo, found, changed} \subseteq SUBSET Controls
        /\ value \in [Controls -> Values]
    BY DEF Controls
  <2>2. /\ pc \in Phases /\ {assisted, strayed} \subseteq BOOLEAN /\ pressed \in Nat
        /\ result \in {"none", "succeeded", "failed"}
    BY DEF Phases
  <2>3. /\ calls \in 0..MaxActions /\ failures \in 0..(MaxFailures + MaxToolCalls)
        /\ toolCalls \in 0..MaxToolCalls
    OBVIOUS
  <2> QED BY <2>1, <2>2, <2>3 DEF TypeOK
<1>2. BudgetsKept /\ PressedAtTheEnd
  BY DEF BudgetsKept, PressedAtTheEnd, AgentPhases
<1>3. ValuesHoldable /\ TodoIsWrong /\ CheckedIsRight
  BY DEF ValuesHoldable, TodoIsWrong, CheckedIsRight, Controls
<1> QED BY <1>1, <1>2, <1>3 DEF FillerInvariant

LEMMA StepsKeepInvariant == FillerInvariant /\ [Next]_vars => FillerInvariant'
<1> SUFFICES ASSUME FillerInvariant, [Next]_vars PROVE FillerInvariant'
  OBVIOUS
<1>1. CASE FillNext
  BY <1>1, FillingKeepsInvariant
<1>2. CASE ReadingStep
  <2>1. /\ form' \in Forms /\ shown' \subseteq Controls' /\ value' \in [Controls' -> Values]
        /\ todo' \subseteq Controls'
        /\ ValuesHoldable' /\ \A c \in todo' \ changed' : value'[c] # "answer"
    BY <1>2, ReadingSteps, ReadingKeepsPage
  <2>2. /\ UNCHANGED <<form, strayed>> /\ found' \subseteq Controls' /\ changed' \subseteq Controls'
        /\ TodoIsWrong'
    <3>1. UNCHANGED <<form, shown, strayed>> /\ (pc' = "finding" => todo' = {})
          /\ found' \in {found, shown, {}} /\ changed' \in {changed, {}}
      BY <1>2, ReadingSteps DEF page
    <3>2. found' \subseteq Controls' /\ changed' \subseteq Controls'
      BY <3>1 DEF FillerInvariant, TypeOK, Controls
    <3> QED BY <2>1, <3>1, <3>2 DEF TodoIsWrong
  <2>3. Counted'
    BY <1>2, ReadingKeepsCounts
  <2>4. CheckedIsRight'
    BY <1>2, ReadingKeepsChecked
  <2> QED BY <2>1, <2>2, <2>3, <2>4 DEF FillerInvariant, Counted, TypeOK
<1>3. CASE PageStep
  BY <1>3, PageKeepsInvariant
<1>4. CASE UNCHANGED vars
  <2> USE <1>4 DEF vars, page, agent, history, FillerInvariant
  <2>1. TypeOK' /\ BudgetsKept' /\ PressedAtTheEnd'
    BY DEF TypeOK, BudgetsKept, PressedAtTheEnd, Controls
  <2>2. ValuesHoldable' /\ TodoIsWrong'
    BY DEF ValuesHoldable, TodoIsWrong, Controls, Holdable
  <2>3. CheckedIsRight'
    BY DEF CheckedIsRight, Correct, HasAnswer
  <2> QED BY <2>1, <2>2, <2>3
<1> QED BY <1>1, <1>2, <1>3, <1>4 DEF Next, FillerStep, ReadingStep

\* The inductive invariant holds, for every form and every budget.
THEOREM InvariantHolds == Spec => []FillerInvariant
  BY InvariantInitially, StepsKeepInvariant, PTL DEF Spec

\* The type invariant; the agents stay within their budgets.
THEOREM TypeCorrect == Spec => []TypeOK
<1>1. FillerInvariant => TypeOK
  BY DEF FillerInvariant
<1> QED BY <1>1, InvariantHolds, PTL

\* When submit() presses the button without the model's help, every required control that the
\* second inspection found is right, unless its name is another one's or the page changed it.
THEOREM CompleteUnlessAssistedHolds == Spec => CompleteUnlessAssisted
<1> DEFINE Checked ==
      \A c \in found \ changed :
        /\ form[c].required
        /\ \A d \in found \ {c} : form[d].required => form[d].name # form[c].name
        => Correct(c)
<1>1. FillerInvariant /\ [Next]_vars => [pressed' # pressed /\ ~assisted => Checked]_vars
  <2> SUFFICES ASSUME FillerInvariant, Next, pressed' # pressed, ~assisted PROVE Checked
    OBVIOUS
  <2>1. Press
    BY DEF Next, FillerStep, Inspect, FillNext, FindComplete, FindIncomplete, AskForAnswers,
       CachedAnswers, GetAnswers, ModelAnswers, UseTools, StopWithoutAnswers, StopWithoutStatus,
       AssistanceEnds, SubmissionAccepted, SubmissionFails, GetStatus, Raise, PageStep,
       PageShows, PageFills
  <2>2. CheckedIsRight /\ pc = "finding"
    BY <2>1 DEF FillerInvariant, Press
  <2>3. found \subseteq Nat
    BY ControlsOfForm DEF FillerInvariant, TypeOK
  <2> QED BY <2>2, <2>3 DEF CheckedIsRight
<1> QED BY <1>1, InvariantHolds, PTL DEF Spec, CompleteUnlessAssisted

\* No pass spoils what is right.
THEOREM AnswersSurviveHolds == Spec => AnswersSurvive
<1> DEFINE Survives(c) ==
      \/ value'[c] = "answer"
      \/ \E d \in Controls : SameGroup(form, c, d) /\ value'[d] # "empty"
<1>1. FillerInvariant /\ [Next]_vars =>
        [\A c \in Controls \ changed' : value[c] = "answer" => Survives(c)]_vars
  <2> SUFFICES ASSUME FillerInvariant, Next, NEW c \in Controls, c \notin changed',
                      value[c] = "answer"
               PROVE  Survives(c)
    OBVIOUS
  <2>1. CASE ReadingStep
    BY <2>1, ReadingSteps DEF page
  <2>2. CASE FillNext
    <3>1. PICK d \in todo : \E v \in Holdable(form, d) :
            /\ Radio(d) => v = value[d] \/ v # "empty"
            /\ value' = Put(d, v)
      BY <2>2, FillingControls
    <3>2. d \in Controls /\ form' = form /\ changed' = changed
      BY <2>2 DEF FillerInvariant, TypeOK, FillNext, history
    <3>3. PICK v \in Holdable(form, d) :
            /\ Radio(d) => v = value[d] \/ v # "empty"
            /\ value'[d] = v
            /\ \A e \in Controls \ {d} :
                 value'[e] = IF v # value[d] /\ SameGroup(form, d, e) THEN "empty" ELSE value[e]
      BY <3>1, <3>2, PuttingValues
    <3>4. d # c
      BY <3>2 DEF FillerInvariant, TodoIsWrong
    <3>5. SameGroup(form, d, c) => Radio(d) /\ SameGroup(form, c, d)
      BY <3>2, <3>4, GroupsAssumption DEF SameGroup, Radio, FillerInvariant, TypeOK, Controls
    <3> QED BY <3>2, <3>3, <3>4, <3>5
  <2>3. CASE PageStep
    BY <2>3 DEF PageStep, PageShows, PageFills
  <2> QED BY <2>1, <2>2, <2>3 DEF Next, FillerStep, ReadingStep
<1> QED BY <1>1, InvariantHolds, PTL DEF Spec, AnswersSurvive

\* submit() presses the button at most once, a call succeeds only after it and its end is
\* final; an input of type submit is clicked before that only, and where there is one.
THEOREM ImplementsSubmissionHolds == Spec => ImplementsSubmission
<1> DEFINE HasTyped == \E c \in Controls : TypedButton(form, c)
<1>0. UNCHANGED form => UNCHANGED HasTyped
  BY DEF Controls, TypedButton
<1>1. Init => Submission!Init
  BY DEF Init, Submission!Init
<1>2. FillerInvariant /\ [Next]_vars => [Submission!Next]_(Submission!vars)
  <2> SUFFICES ASSUME FillerInvariant, [Next]_vars PROVE [Submission!Next]_(Submission!vars)
    OBVIOUS
  <2> USE DEF Submission!vars, Submission!Next
  <2>1. PressedAtTheEnd
    BY DEF FillerInvariant
  <2>2. UNCHANGED HasTyped
    <3>1. UNCHANGED form
      BY ReadingSteps DEF Next, FillerStep, ReadingStep, FillNext, PageStep, PageShows, PageFills,
         vars, page
    <3> QED BY <1>0, <3>1
  <2>3. CASE Press
    BY <2>1, <2>2, <2>3 DEF Press, PressedAtTheEnd, Submission!Press
  <2>4. ASSUME NEW how \in {"succeeded", "failed"}, GetStatus(how)
        PROVE  Submission!Succeed \/ Submission!Fail
    BY <2>1, <2>2, <2>4
       DEF GetStatus, End, PressedAtTheEnd, AgentPhases, Submission!Succeed, Submission!Fail
  <2>5. CASE StopWithoutStatus \/ SubmissionFails \/ Raise
    BY <2>1, <2>2, <2>5
       DEF StopWithoutStatus, SubmissionFails, Raise, End, Phases, PressedAtTheEnd, Submission!Fail
  <2>6. CASE FillNext
    <3>1. UNCHANGED <<pressed, result>> /\ pc \in {"filling", "assisting"}
      BY <2>6 DEF FillNext
    <3>2. PICK c \in todo : strayed' = strayed \/ (strayed' = TRUE /\ TypedButton(form, c))
      BY <2>6, FillingControls
    <3>3. strayed' = strayed \/ (strayed' = TRUE /\ HasTyped)
      BY <3>2 DEF FillerInvariant, TypeOK
    <3>4. pressed = 0 /\ result = "none"
      BY <2>1, <3>1 DEF PressedAtTheEnd
    <3> QED BY <2>2, <3>1, <3>3, <3>4 DEF Submission!Stray
  <2>7. CASE Inspect \/ FindComplete \/ FindIncomplete \/ AskForAnswers \/ AssistanceEnds
              \/ StopWithoutAnswers \/ SubmissionAccepted \/ UNCHANGED vars
    BY <2>2, <2>7 DEF Inspect, FindComplete, FindIncomplete, AskForAnswers, AssistanceEnds,
       StopWithoutAnswers, SubmissionAccepted, vars
  <2>8. CASE PageStep \/ (\E names \in SUBSET Names : CachedAnswers(names) \/ GetAnswers(names))
              \/ (\E n \in 0..MaxToolCalls : ModelAnswers(n) \/ UseTools(n))
    BY <2>2, <2>8 DEF PageStep, PageShows, PageFills, CachedAnswers, GetAnswers, ModelAnswers,
       UseTools
  <2> QED BY <2>3, <2>4, <2>5, <2>6, <2>7, <2>8 DEF Next, FillerStep
<1> QED BY <1>1, <1>2, InvariantHolds, PTL DEF Spec, ImplementsSubmission, Submission!Spec

-----------------------------------------------------------------------------
(* The end of a call: the finite part of the argument for CallEnds.        *)

\* The parts of a call that are still to come.
PartsLeft ==
  CASE pc = "opening" -> 8
    [] pc = "filling" -> 7
    [] pc = "asking" -> 6
    [] pc \in AgentPhases /\ pressed = 0 -> 5
    [] pc = "assisting" -> 4
    [] pc = "finding" -> 3
    [] pc = "waiting" -> 2
    [] pc \in AgentPhases /\ pressed # 0 -> 1
    [] OTHER -> 0

\* What is left of this part: controls of a pass, or messages of an agent, two steps each.
WorkLeft ==
  CASE pc \in {"filling", "assisting"} -> Cardinality(todo)
    [] pc = "acting" -> 2 * (MaxActions - calls) + 1
    [] pc = "using" -> 2 * (MaxActions - calls) + 2
    [] OTHER -> 0

CallNearsItsEnd ==
  \/ PartsLeft' < PartsLeft
  \/ PartsLeft' = PartsLeft /\ WorkLeft' < WorkLeft

\* A form has finitely many controls, and so does a pass.
LEMMA TodoIsFinite ==
  ASSUME TypeOK
  PROVE  IsFiniteSet(todo)
<1>1. form \in Seq(Control)
  BY FormsAssumption DEF TypeOK
<1>2. todo \subseteq 1..Len(form) /\ 1 \in Int /\ Len(form) \in Int
  BY <1>1 DEF TypeOK, Controls
<1>3. IsFiniteSet(1..Len(form))
  BY <1>2, FS_Interval
<1> QED BY <1>2, <1>3, FS_Subset

\* A pass over the controls loses one, whatever the page shows meanwhile.
LEMMA FillingNearsEnd ==
  ASSUME FillerInvariant, FillNext
  PROVE  CallNearsItsEnd
<1>1. PICK c \in todo : todo' = todo \ {c}
  BY FillingControls
<1>2. IsFiniteSet(todo)
  BY TodoIsFinite DEF FillerInvariant
<1>3. Cardinality(todo') = Cardinality(todo) - 1 /\ Cardinality(todo) \in Nat
  BY <1>1, <1>2, FS_RemoveElement, FS_CardinalityType
<1>4. pc' = pc /\ pressed' = pressed /\ pc \in {"filling", "assisting"}
  BY DEF FillNext
<1> QED BY <1>3, <1>4 DEF CallNearsItsEnd, PartsLeft, WorkLeft, AgentPhases

\* No step of the filler leads back, and what the page does meanwhile adds nothing to a pass:
\* an agent has so many messages, and no failure after the click opens the form again.  That
\* is why every call ends that does not stay at one await.
THEOREM CallNearsItsEndHolds ==
  Spec => /\ [](PartsLeft \in Nat /\ WorkLeft \in Nat)
          /\ [][IF PageStep THEN UNCHANGED <<PartsLeft, WorkLeft>> ELSE CallNearsItsEnd]_vars
<1>1. FillerInvariant => PartsLeft \in Nat /\ WorkLeft \in Nat
  <2> SUFFICES ASSUME FillerInvariant PROVE PartsLeft \in Nat /\ WorkLeft \in Nat
    OBVIOUS
  <2>1. Cardinality(todo) \in Nat
    BY TodoIsFinite, FS_CardinalityType DEF FillerInvariant
  <2>2. MaxActions \in Nat /\ calls \in 0..MaxActions
    BY LimitsAssumption DEF FillerInvariant, TypeOK
  <2> QED BY <2>1, <2>2 DEF PartsLeft, WorkLeft
<1>2. FillerInvariant /\ PageStep => UNCHANGED <<PartsLeft, WorkLeft>>
  BY DEF PageStep, PageShows, PageFills, agent, PartsLeft, WorkLeft
<1>3. FillerInvariant /\ FillerStep => CallNearsItsEnd
  <2> SUFFICES ASSUME FillerInvariant, FillerStep PROVE CallNearsItsEnd
    OBVIOUS
  <2>0. /\ Counted /\ Counted' /\ FillerInvariant'
    BY StepsKeepInvariant DEF FillerInvariant, TypeOK, Counted, Next
  <2> USE DEF CallNearsItsEnd, PartsLeft, WorkLeft, AgentPhases, Counted, PressedAtTheEnd, Goto, End
  <2>1. CASE FillNext
    BY <2>1, FillingNearsEnd
  <2>2. CASE Inspect \/ FindComplete \/ FindIncomplete \/ AssistanceEnds
    BY <2>0, <2>2 DEF Inspect, FindComplete, FindIncomplete, AssistanceEnds
  <2>3. CASE AskForAnswers \/ \E names \in SUBSET Names : CachedAnswers(names) \/ GetAnswers(names)
    BY <2>0, <2>3 DEF AskForAnswers, CachedAnswers, GetAnswers
  <2>4. ASSUME NEW n \in 0..MaxToolCalls, ModelAnswers(n) PROVE CallNearsItsEnd
    <3>1. MaxActions \in Nat /\ calls \in 0..MaxActions
      BY <2>0, LimitsAssumption
    <3>2. /\ pc = "acting" /\ pressed' = pressed /\ calls' = calls + 1
          /\ pc' \in {"stopped", "using", "evaluating"}
      BY <2>4 DEF ModelAnswers
    <3> QED BY <3>1, <3>2
  <2>5. ASSUME NEW n \in 0..MaxToolCalls, UseTools(n) PROVE CallNearsItsEnd
    <3>1. MaxActions \in Nat /\ calls \in 0..MaxActions
      BY <2>0, LimitsAssumption
    <3> QED BY <2>5, <3>1 DEF UseTools
  <2>6. CASE StopWithoutAnswers \/ StopWithoutStatus
    BY <2>0, <2>6 DEF StopWithoutAnswers, StopWithoutStatus
  <2>7. CASE Press \/ SubmissionAccepted \/ SubmissionFails
    BY <2>0, <2>7 DEF Press, SubmissionAccepted, SubmissionFails
  <2>8. CASE (\E how \in {"succeeded", "failed"} : GetStatus(how)) \/ Raise
    BY <2>0, <2>8 DEF GetStatus, Raise, Phases
  <2> QED BY <2>1, <2>2, <2>3, <2>4, <2>5, <2>6, <2>7, <2>8 DEF FillerStep
<1>4. FillerInvariant /\ [Next]_vars =>
        [IF PageStep THEN UNCHANGED <<PartsLeft, WorkLeft>> ELSE CallNearsItsEnd]_vars
  BY <1>2, <1>3 DEF Next
<1> QED BY <1>1, <1>4, InvariantHolds, PTL DEF Spec
=============================================================================
