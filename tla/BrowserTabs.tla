----------------------------- MODULE BrowserTabs -----------------------------
(***************************************************************************)
(* BrowserSession and the tools of utils/browser_tools.py: which tab of    *)
(* the browser a tool works on, and what it tells the agent about it.  An  *)
(* agent has one tool call at a time; the sites open and close tabs at     *)
(* every await of the call, and between calls.                             *)
(*                                                                         *)
(* Tabs are numbered as they open.  Playwright takes a tab that closes off *)
(* its list in the same step, so that is_closed() of a listed tab is       *)
(* false.  Frames, selectors, the text of a page and of an answer are      *)
(* left out: an element that is missing, ambiguous or of the wrong kind is *)
(* one way in which a call fails.                                          *)
(***************************************************************************)
EXTENDS Naturals, Sequences, SequencesExt

CONSTANT MaxTabs  \* bound on the tabs one browser opens, for model checking only

ASSUME MaxTabsAssumption == MaxTabs \in Nat

VARIABLES
  alive,     \* the browser process runs
  context,   \* the session has a context
  pages,     \* the open tabs, in the order in which they opened
  born,      \* how many tabs have opened
  selected,  \* the session's tab, which may have closed; NoTab before there is one
  call,      \* the tool call under way
  told,      \* the tab the agent was last told it is on
  lost,      \* a call that moved the session elsewhere has failed since (history)
  listing    \* the tabs the agent was last told there are

browserVars == <<alive, context, pages, born>>
tabVars == <<browserVars, selected, call, told, lost, listing>>

NoTab == 0

\* Tools that act on one element, tools that read, and tools that move between tabs.
Acting == {"pick", "fill", "viewport"}
Reading == {"read", "inspect", "controls", "dom", "frames"}
Tools == Acting \union Reading \union {"click", "open", "list", "switch", "upload"}

\* Tools that look for a frame by index in the session's tab.
InFrame == {"pick", "fill", "click", "read", "inspect", "controls", "dom"}
\* Tools that begin with session.page().
OnPage == Acting \union Reading \union {"click", "list"}

Stages == {"asked", "working", "evaluated", "waiting", "creating", "fronting"}
Idle == [tool |-> "none", stage |-> "none", tab |-> NoTab, index |-> 0, seen |-> << >>]

IsOpen(t) == t \in ToSet(pages)

\* Broken variant: the session follows the newest tab.
NewestPage == Last(pages)

\* session.page(): the selected tab while it is open, else the last one.
Page == IF IsOpen(selected) THEN selected ELSE Last(pages)

\* Broken variant: the newest tab is listed first.
NewestFirst == Reverse(pages)
Listed == pages

TabInit ==
  /\ alive = FALSE
  /\ context = FALSE
  /\ pages = << >>
  /\ born = 0
  /\ selected = NoTab
  /\ call = Idle
  /\ told = NoTab
  /\ lost = FALSE
  /\ listing = << >>

Asked(tool) == call.tool = tool /\ call.stage = "asked"
At(tool, stage) == call.tool = tool /\ call.stage = stage

\* The call goes on with the session's tab.
Take(stage) ==
  /\ pages # << >>
  /\ selected' = Page
  /\ call' = [call EXCEPT !.stage = stage, !.tab = Page, !.seen = Listed]
  /\ UNCHANGED <<browserVars, told, lost, listing>>

\* The call ends, and its answer says nothing of tabs: an error, or a text.
Ends ==
  /\ call' = Idle
  /\ UNCHANGED <<browserVars, told, lost, listing>>

\* The call ends, and its answer tells which tab the agent is on.
Tells(t) ==
  /\ call' = Idle
  /\ told' = t /\ lost' = FALSE
  /\ UNCHANGED browserVars

-----------------------------------------------------------------------------
(* Calls on one tab.                                                       *)

NoTabLeft ==
  /\ call.stage = "asked" /\ call.tool \in OnPage
  /\ pages = << >>
  /\ Ends
  /\ UNCHANGED selected

\* An error for a tool that acts; for one that inspects, the frames there are.
FrameGone ==
  /\ call.stage = "asked" /\ call.tool \in InFrame
  /\ pages # << >>
  /\ selected' = Page
  /\ Ends

FindElement ==
  /\ call.stage = "asked" /\ call.tool \in (Acting \union Reading) \ {"frames"}
  /\ Take("working")

Worked(tool) ==
  /\ At(tool, "working")
  /\ IsOpen(call.tab)
  /\ Ends
  /\ UNCHANGED selected

PickOption == Worked("pick")
FillField == Worked("fill")
SetViewport == Worked("viewport")
ReadText == Worked("read")
ReadControls == Worked("controls")
ReadDom == Worked("dom")

\* No element, or several, or the wrong kind; a timeout; the tab has closed; or the value
\* did not stay.
WorkFails ==
  /\ call.stage = "working" /\ call.tool # "click"
  /\ Ends
  /\ UNCHANGED selected

ListFrames ==
  /\ Asked("frames")
  /\ pages # << >>
  /\ selected' = Page
  /\ Ends

EvaluatePage ==
  /\ At("inspect", "working")
  /\ IsOpen(call.tab)
  /\ call' = [call EXCEPT !.stage = "evaluated"]
  /\ UNCHANGED <<browserVars, selected, told, lost, listing>>

\* The address is read after the script has run: of the session's tab, as it is by now.
ReportPage ==
  /\ At("inspect", "evaluated")
  /\ IF pages = << >>
     THEN Ends /\ UNCHANGED selected
     ELSE /\ selected' = Page
          /\ Tells(Page)
          /\ UNCHANGED listing

-----------------------------------------------------------------------------
(* browser_click.                                                          *)

ClickBegins == Asked("click") /\ Take("working")

ClickFails ==
  /\ At("click", "working")
  /\ Ends
  /\ UNCHANGED selected

\* Tabs that were not there before the click: the session takes the last.
FollowNewTab ==
  IF \E t \in ToSet(pages) : t \notin ToSet(call.seen)
  THEN /\ selected' = Last(Listed)
       /\ call' = [call EXCEPT !.stage = "fronting", !.tab = Last(Listed)]
       /\ UNCHANGED <<browserVars, told, lost, listing>>
  ELSE IF pages = << >>
  THEN Ends /\ UNCHANGED selected
  ELSE /\ selected' = Page
       /\ Tells(Page)
       /\ UNCHANGED listing

\* Half a second for tabs to open, unless the click has closed its own.
ClickLands ==
  /\ At("click", "working")
  /\ IF IsOpen(call.tab)
     THEN /\ call' = [call EXCEPT !.stage = "waiting"]
          /\ UNCHANGED <<browserVars, selected, told, lost, listing>>
     ELSE FollowNewTab

ClickWaited ==
  /\ At("click", "waiting")
  /\ IsOpen(call.tab)
  /\ FollowNewTab

\* Broken variant: the wait goes on until the tab is back.
WaitForTab ==
  /\ At("click", "waiting")
  /\ ~IsOpen(call.tab)
  /\ UNCHANGED tabVars

\* The tab has closed during the wait: an error, and what has opened is not looked at.
WaitFails ==
  /\ At("click", "waiting")
  /\ ~IsOpen(call.tab)
  /\ Ends
  /\ UNCHANGED selected

\* bring_to_front and, after a click, the wait for the document; a timeout of it passes.
Fronted ==
  /\ call.stage = "fronting"
  /\ IsOpen(call.tab)
  /\ Tells(call.tab)
  /\ UNCHANGED <<selected, listing>>

\* The session has moved already, and the agent hears an error that says nothing of tabs.
FrontFails ==
  /\ call.stage = "fronting"
  /\ call' = Idle
  /\ lost' = (told # call.tab)
  /\ UNCHANGED <<browserVars, selected, told, listing>>

-----------------------------------------------------------------------------
(* Moving between tabs.                                                    *)

\* ensure_page: a new tab when none is left.
OpenBegins == Asked("open") /\ Take("working")
OpenNeedsTab ==
  /\ Asked("open")
  /\ pages = << >>
  /\ call' = [call EXCEPT !.stage = "creating"]
  /\ UNCHANGED <<browserVars, selected, told, lost, listing>>

NewTab ==
  /\ alive /\ born < MaxTabs
  /\ born' = born + 1
  /\ pages' = Append(pages, born + 1)
  /\ UNCHANGED <<alive, context>>

OpenCreatesTab ==
  /\ At("open", "creating")
  /\ NewTab
  /\ selected' = born + 1
  /\ call' = [call EXCEPT !.stage = "working", !.tab = born + 1]
  /\ UNCHANGED <<told, lost, listing>>
OpenCannotCreateTab ==
  /\ At("open", "creating")
  /\ Ends
  /\ UNCHANGED selected

\* An answer that is no success is an error too: WorkFails.
Navigated ==
  /\ At("open", "working")
  /\ IsOpen(call.tab)
  /\ Tells(call.tab)
  /\ UNCHANGED <<selected, listing>>

\* The list is read once; the titles are asked for one by one.
ListBegins == Asked("list") /\ Take("working")
ListReports ==
  /\ At("list", "working")
  /\ Tells(call.tab)
  /\ listing' = call.seen
  /\ UNCHANGED selected

SwitchPage ==
  /\ Asked("switch")
  /\ call.index <= Len(Listed)
  /\ selected' = Listed[call.index]
  /\ call' = [call EXCEPT !.stage = "fronting", !.tab = Listed[call.index]]
  /\ UNCHANGED <<browserVars, told, lost, listing>>
IndexOutOfRange ==
  /\ Asked("switch")
  /\ call.index > Len(Listed)
  /\ Ends
  /\ UNCHANGED selected

\* The session's state holds a file for the React agent only.
NoFile ==
  /\ Asked("upload")
  /\ Ends
  /\ UNCHANGED selected

ToolStep ==
  \/ NoTabLeft \/ FrameGone \/ FindElement \/ WorkFails
  \/ PickOption \/ FillField \/ SetViewport
  \/ ReadText \/ ReadControls \/ ReadDom \/ ListFrames
  \/ EvaluatePage \/ ReportPage
  \/ ClickBegins \/ ClickFails \/ ClickLands \/ ClickWaited \/ WaitFails
  \/ Fronted \/ FrontFails
  \/ OpenBegins \/ OpenNeedsTab \/ OpenCreatesTab \/ OpenCannotCreateTab \/ Navigated
  \/ ListBegins \/ ListReports
  \/ SwitchPage \/ IndexOutOfRange
  \/ NoFile

\* At an await that has no timeout: the count of a locator, a script, a title or the size
\* of a page, new_page, bring_to_front.  goto and the wait after a click have one.
CallHangs ==
  \/ call.stage = "working" /\ call.tool # "open"
  \/ call.stage \in {"creating", "fronting"}

-----------------------------------------------------------------------------
(* The sites and the browser.                                              *)

SiteOpensTab ==
  /\ context
  /\ NewTab
  /\ UNCHANGED <<selected, call, told, lost, listing>>

TabCloses ==
  /\ \E i \in DOMAIN pages : pages' = RemoveAt(pages, i)
  /\ UNCHANGED <<alive, context, born, selected, call, told, lost, listing>>

\* The process dies, and its tabs with it.
BrowserDies ==
  /\ alive
  /\ alive' = FALSE
  /\ pages' = << >>
  /\ UNCHANGED <<context, born, selected, call, told, lost, listing>>

-----------------------------------------------------------------------------
TabIds == 1..MaxTabs

TabTypeOK ==
  /\ alive \in BOOLEAN /\ context \in BOOLEAN
  /\ pages \in Seq(TabIds) /\ IsInjective(pages)
  /\ born \in 0..MaxTabs
  /\ selected \in TabIds \union {NoTab}
  /\ told \in TabIds \union {NoTab} /\ lost \in BOOLEAN
  /\ listing \in Seq(TabIds)
  /\ \/ call = Idle
     \/ call \in [tool : Tools, stage : Stages, tab : TabIds \union {NoTab},
                  index : 0..MaxTabs, seen : Seq(TabIds)]
=============================================================================
