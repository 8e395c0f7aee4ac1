------------------------------ MODULE ApplyJobs ------------------------------
(***************************************************************************)
(* apply_jobs of applier/flow.py: a language model finds jobs, and for one *)
(* job after the other an agent applies with the tools of BrowserTabs, in  *)
(* a browser of its own.  The agent is the library's; what it asks for is  *)
(* any tool, one call at a time (parallel_tool_calls=False).  Whether a    *)
(* tool's error is told to the agent or ends its run is the library's      *)
(* choice, and the model allows both.                                      *)
(***************************************************************************)
EXTENDS BrowserTabs

CONSTANTS
  MaxJobs,  \* bound on the jobs a search returns
  MaxCalls  \* the library's limit on the tool calls of one run

ASSUME FlowAssumption == MaxJobs \in Nat /\ MaxCalls \in Nat

VARIABLES
  phase,     \* where apply_jobs is
  count,     \* how many jobs find_jobs returned
  status,    \* the list of statuses, one per job attempted
  error,     \* an exception is on its way out of apply_job
  asked,     \* tool calls of this attempt
  answered   \* jobs whose agent returned an answer (history)

flowVars == <<phase, count, status, error, asked, answered>>
vars == <<tabVars, flowVars>>

Phases == {"finding", "between", "launching", "preparing", "opening", "agent",
           "closing_context", "closing_browser", "leaving", "returned", "raised"}

Job == Len(status) + 1

Goto(p) == phase' = p /\ UNCHANGED <<count, status, error, asked, answered>>
RaiseTo(p) ==
  /\ phase' = p
  /\ error' = TRUE
  /\ UNCHANGED <<count, status, asked, answered>>

Init ==
  /\ TabInit
  /\ phase = "finding"
  /\ count = 0
  /\ status = << >>
  /\ error = FALSE
  /\ asked = 0
  /\ answered = {}

-----------------------------------------------------------------------------
\* An answer of the wrong type, or none, leaves apply_jobs.
FindFails ==
  /\ phase = "finding"
  /\ Goto("raised")
  /\ UNCHANGED tabVars

FindJobs ==
  /\ phase = "finding"
  /\ phase' = "between"
  /\ \E n \in 0..MaxJobs : count' = n
  /\ UNCHANGED <<status, error, asked, answered, tabVars>>

Return ==
  /\ phase = "between" /\ Len(status) = count
  /\ Goto("returned")
  /\ UNCHANGED tabVars

\* A session of its own: a browser that an earlier attempt left behind is out of its reach.
NextJob ==
  /\ phase = "between" /\ Len(status) < count
  /\ phase' = "launching"
  /\ asked' = 0 /\ error' = FALSE
  /\ alive' = FALSE /\ context' = FALSE /\ pages' = << >> /\ born' = 0
  /\ selected' = NoTab /\ call' = Idle
  /\ told' = NoTab /\ lost' = FALSE /\ listing' = << >>
  /\ UNCHANGED <<count, status, answered>>

-----------------------------------------------------------------------------
(* session.start(), before the try: what it raises does not come to stop(). *)

Launch ==
  /\ phase = "launching"
  /\ alive' = TRUE
  /\ Goto("preparing")
  /\ UNCHANGED <<context, pages, born, selected, call, told, lost, listing>>

NewContext ==
  /\ phase = "preparing" /\ alive
  /\ context' = TRUE
  /\ Goto("opening")
  /\ UNCHANGED <<alive, pages, born, selected, call, told, lost, listing>>

FirstTab ==
  /\ phase = "opening"
  /\ NewTab
  /\ selected' = born + 1
  /\ Goto("agent")
  /\ UNCHANGED <<call, told, lost, listing>>

StartFails ==
  /\ phase \in {"launching", "preparing", "opening"}
  /\ RaiseTo("leaving")
  /\ UNCHANGED tabVars

-----------------------------------------------------------------------------
(* The agent.                                                              *)

Ask(tool, index) ==
  /\ phase = "agent" /\ call = Idle
  /\ asked < MaxCalls
  /\ asked' = asked + 1
  /\ call' = [Idle EXCEPT !.tool = tool, !.stage = "asked", !.index = index]
  /\ UNCHANGED <<phase, count, status, error, answered, browserVars, selected, told, lost, listing>>

UseTool ==
  /\ phase = "agent"
  /\ ToolStep
  /\ UNCHANGED flowVars

\* stop() forgets the context and the tab before it closes them.
Stop ==
  /\ context' = FALSE
  /\ selected' = NoTab
  /\ UNCHANGED <<alive, pages, born, call, told, lost, listing>>

AgentAnswers ==
  /\ phase = "agent" /\ call = Idle
  /\ phase' = "closing_context"
  /\ answered' = answered \union {Job}
  /\ Stop
  /\ UNCHANGED <<count, status, error, asked>>

\* The model, the limit on calls, or the error of a tool.
AgentRaises ==
  /\ phase = "agent" /\ call = Idle
  /\ RaiseTo("closing_context")
  /\ Stop

-----------------------------------------------------------------------------
(* The end of an attempt.                                                  *)

CloseContext ==
  /\ phase = "closing_context"
  /\ pages' = << >>
  /\ Goto("closing_browser")
  /\ UNCHANGED <<alive, context, born, selected, call, told, lost, listing>>

CloseBrowser ==
  /\ phase = "closing_browser"
  /\ alive' = FALSE
  /\ Goto("leaving")
  /\ UNCHANGED <<context, pages, born, selected, call, told, lost, listing>>

\* Broken variant: the error of stop() is not the attempt's.
CloseSilently ==
  /\ phase \in {"closing_context", "closing_browser"}
  /\ phase' = "leaving" /\ error' = FALSE
  /\ UNCHANGED <<count, status, asked, answered, tabVars>>

\* It takes the place of the agent's answer or error; the browser is not closed.
CloseFails ==
  /\ phase \in {"closing_context", "closing_browser"}
  /\ RaiseTo("leaving")
  /\ UNCHANGED tabVars

\* Broken variant: no continue after a failed status.
LeaveWithoutContinue ==
  /\ phase = "leaving"
  /\ phase' = "between"
  /\ alive' = FALSE /\ context' = FALSE /\ pages' = << >>
  /\ status' = status \o (IF error THEN <<"failed", "applied">> ELSE <<"applied">>)
  /\ UNCHANGED <<born, selected, call, told, lost, listing, count, error, asked, answered>>

\* The status of the job, once Playwright's driver has ended, and its browsers with it.
Leave ==
  /\ phase = "leaving"
  /\ phase' = "between"
  /\ alive' = FALSE /\ context' = FALSE /\ pages' = << >>
  /\ status' = Append(status, IF error THEN "failed" ELSE "applied")
  /\ UNCHANGED <<born, selected, call, told, lost, listing, count, error, asked, answered>>

\* The end of async_playwright raises, in place of what came before; a browser may be left.
LeaveFails ==
  /\ phase = "leaving"
  /\ phase' = "between"
  /\ status' = Append(status, "failed")
  /\ UNCHANGED <<tabVars, count, error, asked, answered>>

-----------------------------------------------------------------------------
FlowStep ==
  \/ FindFails \/ FindJobs \/ Return \/ NextJob
  \/ Launch \/ NewContext \/ FirstTab \/ StartFails
  \/ \E tool \in Tools \ {"switch"} : Ask(tool, 0)
  \/ \E index \in 1..MaxTabs : Ask("switch", index)
  \/ UseTool \/ AgentAnswers \/ AgentRaises
  \/ CloseContext \/ CloseBrowser \/ CloseFails \/ Leave \/ LeaveFails

SiteStep ==
  /\ SiteOpensTab \/ TabCloses \/ BrowserDies
  /\ UNCHANGED flowVars

Next == FlowStep \/ SiteStep

Spec == Init /\ [][Next]_vars

\* At an await that has no timeout: a page whose script never yields, a browser or a driver
\* that does not answer may keep it for ever.
Hangs ==
  \/ phase = "agent" /\ CallHangs
  \/ phase \in {"preparing", "opening", "closing_context", "closing_browser", "leaving"}

\* One coroutine: where there is a timeout, what it awaits answers, fails or times out.
FairSpec == Spec /\ WF_vars(~Hangs /\ FlowStep)

-----------------------------------------------------------------------------
(* Properties.                                                             *)

\* Of the variables of apply_jobs itself.
FlowTypeOK ==
  /\ phase \in Phases
  /\ count \in 0..MaxJobs
  /\ status \in Seq({"applied", "failed"}) /\ Len(status) <= count
  /\ error \in BOOLEAN
  /\ asked \in 0..MaxCalls
  /\ answered \subseteq 1..count

\* Every variable keeps its type, and neither the open tabs nor the statuses outgrow their
\* bound: a tab is open once, a job has one status.
TypeOK == TabTypeOK /\ FlowTypeOK

\* The agent knows where it is: between calls the session's tab is the one the agent was
\* last told of, as long as that tab is open.  Tabs that sites open by themselves never take
\* the session with them; "If a new tab opened, the click tool selects it automatically"
\* (flow.py:193) and says so.  The one way to lose the agent is a bring_to_front that fails
\* after the session has moved (browser_tools.py:304 and 635): it hears of an error only.
ReportedTabIsCurrent ==
  phase = "agent" /\ call = Idle /\ IsOpen(told) => selected = told \/ lost

\* Switching by an index of browser_list_tabs selects the tab that was listed there, unless
\* a tab listed at or before that index has closed since: new tabs move no index.
SwitchFindsListedTab ==
  [][SwitchPage /\ call.index <= Len(listing) =>
       \/ selected' = listing[call.index]
       \/ \E j \in 1..call.index : ~IsOpen(listing[j])]_vars

\* A job is reported as applied only when its own agent came to an answer, and then its
\* session was closed whole, context and browser: not for the answer of another attempt, nor
\* because closing the session took the agent's error, or its own, away.
AppliedMeansAnswered ==
  /\ \A i \in 1..Len(status) : status[i] = "applied" => i \in answered
  /\ phase = "leaving" /\ ~error =>
       Job \in answered /\ ~alive /\ ~context /\ pages = << >>

\* Whatever sites and browser do, apply_jobs ends, unless it stays for ever at an await that
\* has no timeout: no tab that closes, no error and no agent keeps it otherwise.
BatchEnds == <>(phase \in {"returned", "raised"}) \/ <>[]Hangs
=============================================================================
