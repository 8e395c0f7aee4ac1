---------------------------- MODULE ApplyJobsProofs ----------------------------
(***************************************************************************)
(* Proofs about ApplyJobs and the tabs of BrowserTabs, for any number of   *)
(* tabs, jobs and tool calls.                                              *)
(***************************************************************************)
EXTENDS ApplyJobs, NaturalOrder, SequenceTheorems, TLAPS

(* What the properties rest on: tabs and lists of tabs are in the order of *)
(* opening, the session's tab moves only under a call that will tell, and  *)
(* the phase of apply_jobs says what an attempt has come to.               *)

\* A list of tabs, read now or earlier: in the order of opening, and a tab that is open
\* and not on it has opened later than those that are.
Tidy(s) ==
  /\ \A i, j \in DOMAIN s : i < j => s[i] < s[j]
  /\ \A i \in DOMAIN s : s[i] <= born
  /\ \A k \in DOMAIN pages :
       (\E i \in DOMAIN s : s[i] = pages[k]) \/ (\A i \in DOMAIN s : s[i] < pages[k])

TabsInOrder == Tidy(pages) /\ Tidy(call.seen) /\ Tidy(listing)

\* A call under way works on the session's tab.
CallsFollowSession ==
  /\ call = Idle \/ phase = "agent"
  /\ call.stage \in {"working", "evaluated", "waiting", "fronting"} => selected = call.tab
  /\ call.tool = "switch" => call.index > 0
  /\ selected <= born

\* The session leaves the tab the agent was told of when that tab has closed, or under a
\* call that will tell where it went, or fail to.
SessionStaysWhereTold ==
  /\ told <= born
  /\ phase \in {"launching", "preparing", "opening"} => told = NoTab
  /\ call.stage = "creating" => ~IsOpen(told)
  /\ phase = "agent" /\ call.stage # "fronting" /\ IsOpen(told) => selected = told \/ lost

SessionInvariant ==
  TabTypeOK /\ TabsInOrder /\ CallsFollowSession /\ SessionStaysWhereTold

\* An attempt is for a job that has no status, comes to its end with an answer or an error,
\* and closes the context before the browser.
AttemptsFit ==
  /\ phase = "finding" => count = 0
  /\ phase \notin {"finding", "between", "returned", "raised"} => Len(status) < count
  /\ phase \in {"closing_context", "closing_browser", "leaving"} /\ ~error => Job \in answered
  /\ phase \in {"closing_context", "closing_browser"} => ~context
  /\ phase = "closing_browser" => pages = << >>

AttemptInvariant ==
  FlowTypeOK /\ AttemptsFit /\ AppliedMeansAnswered

FlowInvariant == SessionInvariant /\ AttemptInvariant

-----------------------------------------------------------------------------
(* Lists of tabs.                                                          *)

\* As long as the first k tabs of a list are open, they are the first k tabs of the
\* browser: tabs in the order of opening can only disappear from between.
LEMMA ListedTabsKeepTheirIndex ==
  ASSUME NEW s \in Seq(TabIds), pages \in Seq(TabIds), Tidy(s), Tidy(pages),
         NEW k \in DOMAIN s, \A j \in 1..k : IsOpen(s[j])
  PROVE  k \in DOMAIN pages /\ pages[k] = s[k]
<1>1. /\ DOMAIN s = 1..Len(s) /\ Len(s) \in Nat /\ \A i \in DOMAIN s : s[i] \in Int
      /\ DOMAIN pages = 1..Len(pages) /\ Len(pages) \in Nat
      /\ \A i \in DOMAIN pages : pages[i] \in Int
  BY MaxTabsAssumption DEF TabIds
<1> DEFINE Moved == {j \in 1..k : ~(j \in DOMAIN pages /\ pages[j] = s[j])}
<1> SUFFICES ASSUME Moved # {} PROVE FALSE
  <2>1. k \in 1..k
    BY <1>1
  <2> QED BY <2>1
<1>2. PICK j \in Moved : \A m \in Moved : j <= m
  <2>1. Moved \in SUBSET Nat
    OBVIOUS
  <2> QED BY <2>1, LeastElement
<1>3. j \in 1..k /\ j \in DOMAIN s /\ ~(j \in DOMAIN pages /\ pages[j] = s[j])
  BY <1>1
<1>4. ASSUME NEW i \in DOMAIN s, i < j PROVE i \in DOMAIN pages /\ pages[i] = s[i]
  <2>1. i \in 1..k /\ ~(j <= i)
    BY <1>1, <1>3, <1>4
  <2> QED BY <1>2, <2>1
<1> HIDE DEF Moved
<1>5. PICK m \in DOMAIN pages : pages[m] = s[j]
  BY <1>3 DEF IsOpen, ToSet
<1>6. m > j
  <2>1. CASE m < j
    <3>1. m \in DOMAIN s
      BY <1>1, <1>3, <2>1
    <3>2. s[m] = s[j]
      BY <1>4, <1>5, <2>1, <3>1
    <3>3. s[m] < s[j]
      BY <1>3, <2>1, <3>1 DEF Tidy
    <3> QED BY <1>1, <3>1, <3>2, <3>3
  <2>2. CASE m = j
    BY <1>3, <1>5, <2>2
  <2> QED BY <1>1, <1>3, <2>1, <2>2
<1>7. j \in DOMAIN pages
  BY <1>1, <1>3, <1>6
<1>8. pages[j] < s[j]
  BY <1>5, <1>6, <1>7 DEF Tidy
<1>9. PICK n \in DOMAIN s : s[n] = pages[j]
  <2>1. ~(s[j] < pages[j])
    BY <1>1, <1>3, <1>7, <1>8
  <2> QED BY <1>3, <1>7, <2>1 DEF Tidy
<1>10. n < j
  <2>1. CASE j < n
    <3>1. s[j] < s[n]
      BY <1>3, <2>1 DEF Tidy
    <3>2. s[j] \in Int /\ pages[j] \in Int
      BY <1>1, <1>3, <1>7
    <3> QED BY <1>8, <1>9, <3>1, <3>2
  <2>2. CASE j = n
    BY <1>1, <1>3, <1>8, <1>9, <2>2
  <2> QED BY <1>1, <1>3, <2>1, <2>2
<1>11. n \in DOMAIN pages /\ pages[n] = pages[j]
  BY <1>4, <1>9, <1>10
<1>12. pages[n] < pages[j]
  BY <1>7, <1>10, <1>11 DEF Tidy
<1> QED BY <1>1, <1>7, <1>11, <1>12

\* What RemoveAt leaves: the elements after the i-th move up by one.
LEMMA RemoveAtProperties ==
  ASSUME NEW S, NEW s \in Seq(S), NEW i \in DOMAIN s
  PROVE  /\ RemoveAt(s, i) \in Seq(S)
         /\ Len(RemoveAt(s, i)) = Len(s) - 1
         /\ \A k \in 1..(Len(s) - 1) : RemoveAt(s, i)[k] = IF k < i THEN s[k] ELSE s[k + 1]
<1> DEFINE front == SubSeq(s, 1, i - 1)
           back == SubSeq(s, i + 1, Len(s))
<1>1. Len(s) \in Nat /\ i \in 1..Len(s) /\ \A k \in 1..Len(s) : s[k] \in S
  BY LenProperties, ElementOfSeq
<1>2. /\ front \in Seq(S) /\ Len(front) = i - 1
      /\ \A k \in 1..(i - 1) : front[k] = s[k]
  <2>1. \A k \in 1..(i - 1) : s[k] \in S
    BY <1>1
  <2>2. /\ front \in Seq(S)
        /\ Len(front) = IF 1 <= i - 1 THEN (i - 1) - 1 + 1 ELSE 0
        /\ \A k \in 1..((i - 1) - 1 + 1) : front[k] = s[1 + k - 1]
    BY <1>1, <2>1, SubSeqProperties
  <2> QED BY <1>1, <2>2
<1>3. /\ back \in Seq(S) /\ Len(back) = Len(s) - i
      /\ \A k \in 1..(Len(s) - i) : back[k] = s[i + k]
  <2>1. \A k \in (i + 1)..Len(s) : s[k] \in S
    BY <1>1
  <2>2. /\ back \in Seq(S)
        /\ Len(back) = IF i + 1 <= Len(s) THEN Len(s) - (i + 1) + 1 ELSE 0
        /\ \A k \in 1..(Len(s) - (i + 1) + 1) : back[k] = s[(i + 1) + k - 1]
    BY <1>1, <2>1, SubSeqProperties
  <2> QED BY <1>1, <2>2
<1>4. RemoveAt(s, i) = front \o back
  BY DEF RemoveAt
<1> HIDE DEF front, back
<1>5. /\ front \o back \in Seq(S) /\ Len(front \o back) = Len(s) - 1
      /\ \A k \in 1..(Len(s) - 1) : (front \o back)[k] = IF k <= i - 1 THEN front[k] ELSE back[k - (i - 1)]
  BY <1>1, <1>2, <1>3, ConcatProperties
<1>6. ASSUME NEW k \in 1..(Len(s) - 1)
      PROVE  (front \o back)[k] = IF k < i THEN s[k] ELSE s[k + 1]
  <2>1. CASE k < i
    BY <1>1, <1>2, <1>5, <2>1
  <2>2. CASE ~(k < i)
    <3>1. k - (i - 1) \in 1..(Len(s) - i) /\ i + (k - (i - 1)) = k + 1
      BY <1>1, <2>2
    <3>2. back[k - (i - 1)] = s[k + 1]
      BY <1>3, <3>1
    <3>3. ~(k <= i - 1)
      BY <1>1, <2>2
    <3>4. (front \o back)[k] = back[k - (i - 1)]
      BY <1>5, <3>3
    <3> QED BY <2>2, <3>2, <3>4
  <2> QED BY <2>1, <2>2
<1> QED BY <1>4, <1>5, <1>6

\* What is known of a list of tabs: numbers, at positions from 1 on.
LEMMA TabNumbers ==
  ASSUME NEW s \in Seq(TabIds)
  PROVE  DOMAIN s = 1..Len(s) /\ Len(s) \in Nat /\ \A i \in DOMAIN s : s[i] \in Nat
BY MaxTabsAssumption DEF TabIds

\* A tab that opens is the last in the order of every list.
LEMMA NewTabKeepsOrder ==
  ASSUME TabTypeOK, TabsInOrder, NewTab, call'.seen = call.seen, listing' = listing,
         call.seen \in Seq(TabIds)
  PROVE  TabsInOrder' /\ pages' \in Seq(TabIds) /\ IsInjective(pages') /\ born' \in 0..MaxTabs
<1>1. /\ pages \in Seq(TabIds) /\ listing \in Seq(TabIds) /\ born \in Nat
      /\ born' = born + 1 /\ born' \in 0..MaxTabs /\ born' \in TabIds
  BY MaxTabsAssumption DEF TabTypeOK, NewTab, TabIds
<1>2. /\ pages' \in Seq(TabIds)
      /\ Len(pages') = Len(pages) + 1
      /\ \A k \in 1..Len(pages) : pages'[k] = pages[k]
      /\ pages'[Len(pages) + 1] = born + 1
  BY <1>1, AppendProperties DEF NewTab
<1>3. ASSUME NEW k \in DOMAIN pages' PROVE (k \in DOMAIN pages /\ pages'[k] = pages[k]) \/ k = Len(pages) + 1
  <2>1. k \in 1..(Len(pages) + 1) /\ DOMAIN pages = 1..Len(pages) /\ Len(pages) \in Nat
    BY <1>1, <1>2, TabNumbers
  <2> QED BY <1>2, <2>1
<1>4. Tidy(pages)'
  <2>1. ASSUME NEW i \in DOMAIN pages', NEW j \in DOMAIN pages', i < j
        PROVE  pages'[i] < pages'[j]
    <3>1. /\ DOMAIN pages = 1..Len(pages) /\ DOMAIN pages' = 1..(Len(pages) + 1)
          /\ Len(pages) \in Nat /\ \A k \in DOMAIN pages : pages[k] \in Nat
      BY <1>1, <1>2, TabNumbers
    <3>2. i \in DOMAIN pages /\ pages'[i] = pages[i]
      BY <1>3, <2>1, <3>1
    <3>3. pages[i] <= born /\ pages[i] \in Nat
      BY <3>1, <3>2 DEF TabsInOrder, Tidy
    <3>4. CASE j \in DOMAIN pages /\ pages'[j] = pages[j]
      BY <2>1, <3>2, <3>4 DEF TabsInOrder, Tidy
    <3>5. CASE j = Len(pages) + 1
      BY <1>1, <1>2, <3>2, <3>3, <3>5
    <3> QED BY <1>3, <3>4, <3>5
  <2>2. \A i \in DOMAIN pages' : pages'[i] <= born'
    BY <1>1, <1>2, <1>3, TabNumbers DEF TabsInOrder, Tidy
  <2> QED BY <2>1, <2>2 DEF Tidy
<1>5. ASSUME NEW s \in Seq(TabIds), Tidy(s)
      PROVE  /\ \A i \in DOMAIN s : s[i] <= born'
             /\ \A k \in DOMAIN pages' :
                  (\E i \in DOMAIN s : s[i] = pages'[k]) \/ (\A i \in DOMAIN s : s[i] < pages'[k])
  <2>1. \A i \in DOMAIN s : s[i] <= born /\ s[i] \in Nat
    BY <1>5, TabNumbers DEF Tidy
  <2>2. \A i \in DOMAIN s : s[i] < born + 1 /\ s[i] <= born + 1
    BY <1>1, <2>1
  <2>3. ASSUME NEW k \in DOMAIN pages'
        PROVE  (\E i \in DOMAIN s : s[i] = pages'[k]) \/ (\A i \in DOMAIN s : s[i] < pages'[k])
    <3>1. CASE k \in DOMAIN pages /\ pages'[k] = pages[k]
      BY <1>5, <3>1 DEF Tidy
    <3>2. CASE k = Len(pages) + 1
      BY <1>2, <2>2, <3>2
    <3> QED BY <1>3, <3>1, <3>2
  <2> QED BY <1>1, <2>2, <2>3
<1>6. Tidy(listing)' /\ Tidy(call.seen)'
  BY <1>1, <1>5 DEF TabsInOrder, Tidy
<1>7. IsInjective(pages')
  BY <1>2, <1>4, TabNumbers DEF Tidy, IsInjective
<1> QED BY <1>1, <1>2, <1>4, <1>6, <1>7 DEF TabsInOrder

\* A tab that closes leaves the order of the others alone, and so does a browser's end.
LEMMA ClosingKeepsOrder ==
  ASSUME TabTypeOK, TabsInOrder, call'.seen = call.seen, listing' = listing, born' = born,
         (\E i \in DOMAIN pages : pages' = RemoveAt(pages, i)) \/ pages' = << >>,
         call.seen \in Seq(TabIds)
  PROVE  /\ TabsInOrder' /\ pages' \in Seq(TabIds) /\ IsInjective(pages')
         /\ ToSet(pages') \subseteq ToSet(pages)
<1>1. pages \in Seq(TabIds) /\ listing \in Seq(TabIds) /\ born \in Nat
  BY DEF TabTypeOK
\* An order-preserving map of the positions that are left.
<1>2. PICK old \in [DOMAIN pages' -> DOMAIN pages] :
        /\ pages' \in Seq(TabIds)
        /\ \A k \in DOMAIN pages' : pages'[k] = pages[old[k]]
        /\ \A j, k \in DOMAIN pages' : j < k => old[j] < old[k]
  <2>1. CASE pages' = << >>
    <3> DEFINE none == [k \in DOMAIN pages' |-> k]
    <3>1. DOMAIN pages' = {} /\ pages' \in Seq(TabIds)
      BY <2>1
    <3>2. none \in [DOMAIN pages' -> DOMAIN pages]
      BY <3>1
    <3> QED BY <3>1, <3>2
  <2>2. ASSUME NEW i \in DOMAIN pages, pages' = RemoveAt(pages, i)
        PROVE  \E old \in [DOMAIN pages' -> DOMAIN pages] :
                 /\ pages' \in Seq(TabIds)
                 /\ \A k \in DOMAIN pages' : pages'[k] = pages[old[k]]
                 /\ \A j, k \in DOMAIN pages' : j < k => old[j] < old[k]
    <3> DEFINE after == [k \in DOMAIN pages' |-> IF k < i THEN k ELSE k + 1]
    <3>1. /\ pages' \in Seq(TabIds) /\ Len(pages') = Len(pages) - 1
          /\ \A k \in 1..(Len(pages) - 1) : pages'[k] = IF k < i THEN pages[k] ELSE pages[k + 1]
      BY <1>1, <2>2, RemoveAtProperties
    <3>2. DOMAIN pages' = 1..(Len(pages) - 1) /\ DOMAIN pages = 1..Len(pages) /\ Len(pages) \in Nat
      BY <1>1, <3>1, TabNumbers
    <3>3. after \in [DOMAIN pages' -> DOMAIN pages]
      BY <3>2
    <3>4. \A k \in DOMAIN pages' : pages'[k] = pages[after[k]]
      BY <3>1, <3>2
    <3>5. \A j, k \in DOMAIN pages' : j < k => after[j] < after[k]
      BY <3>2
    <3> QED BY <3>1, <3>3, <3>4, <3>5
  <2> QED BY <2>1, <2>2
<1>3. ToSet(pages') \subseteq ToSet(pages)
  BY <1>2 DEF ToSet
<1>4. Tidy(pages)'
  BY <1>2 DEF TabsInOrder, Tidy
<1>5. Tidy(listing)' /\ Tidy(call.seen)'
  BY <1>2 DEF TabsInOrder, Tidy
<1>6. IsInjective(pages')
  BY <1>2, <1>4, TabNumbers DEF Tidy, IsInjective
<1> QED BY <1>2, <1>3, <1>4, <1>5, <1>6 DEF TabsInOrder

-----------------------------------------------------------------------------
(* The tools.                                                              *)

\* The session's tab is an open one, and the same as before if that is still open.
LEMMA PageIsOpen ==
  ASSUME TabTypeOK, TabsInOrder, pages # << >>
  PROVE  /\ Page \in TabIds /\ IsOpen(Page) /\ Page <= born
         /\ IsOpen(selected) => Page = selected
         /\ Last(Listed) \in TabIds /\ IsOpen(Last(Listed)) /\ Last(Listed) <= born
<1>1. pages \in Seq(TabIds) /\ Len(pages) \in DOMAIN pages
  BY DEF TabTypeOK
<1>2. Last(pages) \in TabIds /\ IsOpen(Last(pages)) /\ Last(pages) <= born
  BY <1>1 DEF Last, IsOpen, ToSet, TabsInOrder, Tidy
<1>3. IsOpen(selected) => selected \in TabIds /\ selected <= born
  BY <1>1 DEF IsOpen, ToSet, TabsInOrder, Tidy
<1> QED BY <1>2, <1>3 DEF Page, Listed

\* A list that was tidy stays so while tabs neither open nor close.
LEMMA SameTabsKeepOrder ==
  ASSUME TabsInOrder, UNCHANGED <<pages, born>>,
         call'.seen \in {call.seen, pages, << >>}, listing' \in {listing, call.seen, << >>}
  PROVE  TabsInOrder'
BY DEF TabsInOrder, Tidy

\* The call is over, and told the agent nothing of tabs.
LEMMA EndingKeepsSession ==
  ASSUME SessionInvariant, phase' = phase, Ends, call.stage # "fronting",
         selected' = selected \/ (pages # << >> /\ selected' = Page)
  PROVE  SessionInvariant'
<1> USE DEF SessionInvariant, Ends, browserVars, Idle
<1>1. TabTypeOK'
  BY PageIsOpen DEF TabTypeOK
<1>2. TabsInOrder'
  BY SameTabsKeepOrder
<1>3. CallsFollowSession'
  BY PageIsOpen DEF CallsFollowSession
<1>4. SessionStaysWhereTold'
  BY PageIsOpen DEF SessionStaysWhereTold, IsOpen
<1> QED BY <1>1, <1>2, <1>3, <1>4

\* The call goes on with the session's tab.
LEMMA TakingKeepsSession ==
  ASSUME SessionInvariant, phase' = phase, phase = "agent", Take("working"),
         call.tool \in Tools, call.stage = "asked"
  PROVE  SessionInvariant'
<1> USE DEF SessionInvariant, Take, browserVars
<1>1. TabTypeOK'
  <2>1. call # Idle /\ Page \in TabIds /\ pages \in Seq(TabIds)
    BY PageIsOpen DEF Idle, Tools, TabTypeOK
  <2>2. call' \in [tool : Tools, stage : Stages, tab : TabIds \union {NoTab},
                   index : 0..MaxTabs, seen : Seq(TabIds)]
    BY <2>1 DEF TabTypeOK, Stages, Listed
  <2> QED BY <2>1, <2>2 DEF TabTypeOK
<1>2. TabsInOrder'
  BY SameTabsKeepOrder DEF TabTypeOK, Listed
<1>3. CallsFollowSession'
  BY PageIsOpen DEF CallsFollowSession, TabTypeOK
<1>4. SessionStaysWhereTold'
  BY PageIsOpen DEF SessionStaysWhereTold, IsOpen, TabTypeOK
<1> QED BY <1>1, <1>2, <1>3, <1>4

\* The call is over, and told the agent its tab: the one the session is on, or none.
LEMMA TellingKeepsSession ==
  ASSUME SessionInvariant, phase' = phase,
         NEW t \in TabIds \union {NoTab}, Tells(t), t <= born, IsOpen(t) => selected' = t,
         selected' \in TabIds \union {NoTab}, selected' <= born,
         listing' \in {listing, call.seen}, call # Idle
  PROVE  SessionInvariant'
<1> USE DEF SessionInvariant, Tells, browserVars, Idle
<1>1. TabTypeOK'
  BY DEF TabTypeOK
<1>2. TabsInOrder'
  BY SameTabsKeepOrder
<1>3. CallsFollowSession'
  BY DEF CallsFollowSession
<1>4. SessionStaysWhereTold'
  BY DEF SessionStaysWhereTold, IsOpen, CallsFollowSession
<1> QED BY <1>1, <1>2, <1>3, <1>4

\* The session moves to another open tab, which is then brought to the front.
LEMMA MovingKeepsSession ==
  ASSUME SessionInvariant, phase' = phase, phase = "agent",
         NEW t \in TabIds, t <= born, selected' = t, call # Idle,
         call' = [call EXCEPT !.stage = "fronting", !.tab = t],
         UNCHANGED <<browserVars, told, lost, listing>>
  PROVE  SessionInvariant'
<1> USE DEF SessionInvariant, browserVars
<1>0. /\ call' \in [tool : Tools, stage : Stages, tab : TabIds \union {NoTab},
                    index : 0..MaxTabs, seen : Seq(TabIds)]
      /\ call'.stage = "fronting" /\ call'.tab = t /\ call'.tool = call.tool
      /\ call'.index = call.index /\ call'.seen = call.seen
  BY DEF TabTypeOK, Stages
<1>1. TabTypeOK'
  BY <1>0 DEF TabTypeOK
<1>2. TabsInOrder'
  BY <1>0, SameTabsKeepOrder
<1>3. CallsFollowSession'
  BY <1>0 DEF CallsFollowSession
<1>4. SessionStaysWhereTold'
  BY <1>0 DEF SessionStaysWhereTold
<1> QED BY <1>1, <1>2, <1>3, <1>4

\* The call waits for a script or a new tab: the session stays where it is.
LEMMA WaitingKeepsSession ==
  ASSUME SessionInvariant, phase' = phase, phase = "agent", selected' = selected, call # Idle,
         \/ call.stage = "working" /\ call' = [call EXCEPT !.stage = "evaluated"]
         \/ call.stage = "working" /\ call' = [call EXCEPT !.stage = "waiting"]
         \/ pages = << >> /\ call.stage = "asked" /\ call' = [call EXCEPT !.stage = "creating"],
         UNCHANGED <<browserVars, told, lost, listing>>
  PROVE  SessionInvariant'
<1> USE DEF SessionInvariant, browserVars
<1>0. /\ call' \in [tool : Tools, stage : Stages, tab : TabIds \union {NoTab},
                    index : 0..MaxTabs, seen : Seq(TabIds)]
      /\ \/ call'.stage \in {"evaluated", "waiting"} /\ call.stage = "working"
         \/ call'.stage = "creating" /\ pages = << >> /\ call.stage = "asked"
      /\ call'.tab = call.tab /\ call'.tool = call.tool
      /\ call'.index = call.index /\ call'.seen = call.seen
  BY DEF TabTypeOK, Stages
<1>1. TabTypeOK'
  BY <1>0 DEF TabTypeOK
<1>2. TabsInOrder'
  BY <1>0, SameTabsKeepOrder
<1>3. CallsFollowSession'
  BY <1>0 DEF CallsFollowSession
<1>4. SessionStaysWhereTold'
  BY <1>0 DEF SessionStaysWhereTold, IsOpen, ToSet
<1> QED BY <1>1, <1>2, <1>3, <1>4

\* browser_open with no tab left makes one; the agent was told of none that is open.
LEMMA CreatingKeepsSession ==
  ASSUME SessionInvariant, phase' = phase, phase = "agent", OpenCreatesTab
  PROVE  SessionInvariant'
<1> USE DEF SessionInvariant, OpenCreatesTab, At
<1>0. /\ call' \in [tool : Tools, stage : Stages, tab : TabIds \union {NoTab},
                    index : 0..MaxTabs, seen : Seq(TabIds)]
      /\ call'.stage = "working" /\ call'.tab = born + 1 /\ call'.tool = "open"
      /\ call'.seen = call.seen /\ call.seen \in Seq(TabIds)
  <2>1. born + 1 \in TabIds
    BY MaxTabsAssumption DEF TabTypeOK, NewTab, TabIds
  <2>2. call \in [tool : Tools, stage : Stages, tab : TabIds \union {NoTab},
                  index : 0..MaxTabs, seen : Seq(TabIds)]
    BY DEF TabTypeOK, Idle
  <2>3. call' = [call EXCEPT !.stage = "working", !.tab = born + 1] /\ call.tool = "open"
    OBVIOUS
  <2> QED BY <2>1, <2>2, <2>3 DEF Stages
<1>1. TabsInOrder' /\ pages' \in Seq(TabIds) /\ IsInjective(pages') /\ born' \in 0..MaxTabs
  BY <1>0, NewTabKeepsOrder
<1>2. TabTypeOK'
  BY <1>0, <1>1 DEF TabTypeOK, NewTab
<1>3. CallsFollowSession'
  BY <1>0, <1>1 DEF CallsFollowSession, NewTab
<1>4. ~IsOpen(told)' /\ told' <= born'
  <2>1. told' = told /\ told <= born /\ ~IsOpen(told) /\ told \in Nat
    BY MaxTabsAssumption DEF SessionStaysWhereTold, TabTypeOK, TabIds, NoTab
  <2>2. ToSet(pages') \subseteq ToSet(pages) \union {born + 1} /\ born' = born + 1
    BY AppendProperties DEF NewTab, ToSet, TabTypeOK
  <2> QED BY <2>1, <2>2 DEF IsOpen, TabTypeOK
<1>5. SessionStaysWhereTold'
  BY <1>0, <1>4 DEF SessionStaysWhereTold
<1> QED BY <1>1, <1>2, <1>3, <1>5

\* A click that has landed: on to a new tab, or the agent is told where it is.
LEMMA FollowingKeepsSession ==
  ASSUME SessionInvariant, phase' = phase, phase = "agent", FollowNewTab, call.tool = "click",
         call.stage # "fronting"
  PROVE  SessionInvariant'
<1>1. call # Idle /\ TabTypeOK /\ TabsInOrder /\ born \in Nat
  BY DEF Idle, SessionInvariant, TabTypeOK
<1>2. CASE \E t \in ToSet(pages) : t \notin ToSet(call.seen)
  <2>1. pages # << >>
    BY <1>2 DEF ToSet
  <2> QED BY <1>1, <1>2, <2>1, PageIsOpen, MovingKeepsSession DEF FollowNewTab
<1>3. CASE ~(\E t \in ToSet(pages) : t \notin ToSet(call.seen)) /\ pages = << >>
  BY <1>3, EndingKeepsSession DEF FollowNewTab
<1>4. CASE ~(\E t \in ToSet(pages) : t \notin ToSet(call.seen)) /\ pages # << >>
  BY <1>1, <1>4, PageIsOpen, TellingKeepsSession DEF FollowNewTab
<1> QED BY <1>2, <1>3, <1>4

\* Every tool keeps the session and what the agent knows of it together.
LEMMA ToolsKeepSession ==
  ASSUME SessionInvariant, phase' = phase, phase = "agent", ToolStep
  PROVE  SessionInvariant'
<1>1. TabTypeOK /\ TabsInOrder /\ born \in Nat /\ call.tab \in TabIds \union {NoTab}
      /\ selected \in TabIds \union {NoTab}
  BY DEF SessionInvariant, TabTypeOK, Idle
<1>2. CASE NoTabLeft \/ FrameGone \/ WorkFails \/ PickOption \/ FillField \/ SetViewport \/ ReadText \/ ReadControls
          \/ ReadDom \/ ListFrames \/ ClickFails \/ WaitFails \/ OpenCannotCreateTab \/ IndexOutOfRange \/ NoFile
  <2>1. Ends /\ call.stage # "fronting" /\ (selected' = selected \/ (pages # << >> /\ selected' = Page))
    BY <1>2 DEF NoTabLeft, FrameGone, WorkFails, PickOption, FillField, SetViewport, ReadText, ReadControls, ReadDom, ListFrames, ClickFails, WaitFails, OpenCannotCreateTab, IndexOutOfRange, NoFile, Worked, At, Asked
  <2> QED BY <2>1, EndingKeepsSession
<1>3. CASE FindElement \/ ClickBegins \/ OpenBegins \/ ListBegins
  <2>1. Take("working") /\ call.stage = "asked" /\ call.tool \in Tools
    BY <1>3 DEF FindElement, ClickBegins, OpenBegins, ListBegins, Asked, Tools
  <2> QED BY <2>1, TakingKeepsSession
<1>4. CASE ReportPage
  <2>1. CASE pages = << >>
    BY <1>4, <2>1, EndingKeepsSession DEF ReportPage, At
  <2>2. CASE pages # << >>
    BY <1>1, <1>4, <2>2, PageIsOpen, TellingKeepsSession DEF ReportPage, At, Idle
  <2> QED BY <2>1, <2>2
<1>5. CASE Fronted \/ Navigated \/ ListReports
  <2>1. selected = call.tab /\ selected' = selected /\ Tells(call.tab) /\ call # Idle
        /\ listing' \in {listing, call.seen}
    BY <1>5 DEF Fronted, Navigated, ListReports, At, Idle, SessionInvariant, CallsFollowSession
  <2>2. selected <= born
    BY DEF SessionInvariant, CallsFollowSession
  <2> QED BY <1>1, <2>1, <2>2, TellingKeepsSession
<1>6. CASE FrontFails
  <2> USE <1>6 DEF FrontFails, SessionInvariant, browserVars, Idle
  <2>1. TabTypeOK'
    BY DEF TabTypeOK
  <2>2. TabsInOrder'
    BY SameTabsKeepOrder
  <2>3. CallsFollowSession'
    BY DEF CallsFollowSession
  <2>4. SessionStaysWhereTold'
    BY DEF SessionStaysWhereTold, CallsFollowSession, IsOpen
  <2> QED BY <2>1, <2>2, <2>3, <2>4
<1>7. CASE SwitchPage
  <2>1. /\ call.index > 0 /\ call.index <= Len(pages) /\ call.index \in Nat
        /\ selected' = pages[call.index] /\ call # Idle
    BY <1>1, <1>7 DEF SwitchPage, Asked, Idle, Listed, SessionInvariant, CallsFollowSession, TabTypeOK
  <2>2. pages[call.index] \in TabIds /\ pages[call.index] <= born
    BY <1>1, <2>1 DEF TabTypeOK, TabsInOrder, Tidy
  <2> QED BY <1>7, <2>1, <2>2, MovingKeepsSession DEF SwitchPage, Listed
<1>8. CASE EvaluatePage \/ OpenNeedsTab
  BY <1>8, WaitingKeepsSession DEF EvaluatePage, OpenNeedsTab, At, Asked, Idle
<1>9. CASE OpenCreatesTab
  BY <1>9, CreatingKeepsSession
<1>10. CASE ClickLands
  <2>1. CASE IsOpen(call.tab)
    BY <1>10, <2>1, WaitingKeepsSession DEF ClickLands, At, Idle
  <2>2. CASE ~IsOpen(call.tab)
    BY <1>10, <2>2, FollowingKeepsSession DEF ClickLands, At
  <2> QED BY <2>1, <2>2
<1>11. CASE ClickWaited
  BY <1>11, FollowingKeepsSession DEF ClickWaited, At
<1> QED BY <1>2, <1>3, <1>4, <1>5, <1>6, <1>7, <1>8, <1>9, <1>10, <1>11 DEF ToolStep

-----------------------------------------------------------------------------
(* apply_jobs, the sites and the browser.                                  *)

\* Sites open and close tabs, and browsers die, under any call.
LEMMA SitesKeepSession ==
  ASSUME SessionInvariant, phase' = phase, SiteOpensTab \/ TabCloses \/ BrowserDies
  PROVE  SessionInvariant'
<1> USE DEF SessionInvariant
<1>0. /\ call.seen \in Seq(TabIds) /\ UNCHANGED <<call, selected, told, lost, listing>>
      /\ pages \in Seq(TabIds) /\ born \in Nat /\ told \in Nat
  <2>1. UNCHANGED <<call, selected, told, lost, listing>>
    BY DEF SiteOpensTab, TabCloses, BrowserDies
  <2>2. call.seen \in Seq(TabIds)
    <3>1. Idle.seen = << >> /\ << >> \in Seq(TabIds)
      BY EmptySeq DEF Idle
    <3>2. CASE call = Idle
      BY <3>1, <3>2
    <3>3. CASE call # Idle
      BY <3>3 DEF TabTypeOK
    <3> QED BY <3>2, <3>3
  <2>3. pages \in Seq(TabIds) /\ born \in Nat /\ told \in Nat
    BY MaxTabsAssumption DEF TabTypeOK, TabIds, NoTab
  <2> QED BY <2>1, <2>2, <2>3
<1>1. CASE SiteOpensTab
  <2>1. NewTab /\ born' = born + 1 /\ born + 1 \in TabIds
    BY <1>0, <1>1, MaxTabsAssumption DEF SiteOpensTab, NewTab, TabTypeOK, TabIds
  <2>2. TabsInOrder' /\ pages' \in Seq(TabIds) /\ IsInjective(pages') /\ born' \in 0..MaxTabs
    BY <1>0, <2>1, NewTabKeepsOrder
  <2>3. IsOpen(told)' => IsOpen(told)
    <3>1. ToSet(pages') \subseteq ToSet(pages) \union {born + 1} /\ told # born + 1
      BY <1>0, <2>1, AppendProperties DEF NewTab, ToSet, SessionStaysWhereTold
    <3> QED BY <1>0, <3>1 DEF IsOpen
  <2>4. TabTypeOK'
    BY <1>0, <2>1, <2>2 DEF TabTypeOK, NewTab
  <2>5. CallsFollowSession'
    BY <1>0, <2>1 DEF CallsFollowSession, TabTypeOK, TabIds, NoTab
  <2>6. SessionStaysWhereTold'
    BY <1>0, <2>1, <2>3 DEF SessionStaysWhereTold
  <2> QED BY <2>2, <2>4, <2>5, <2>6
<1>2. CASE TabCloses \/ BrowserDies
  <2>1. /\ born' = born /\ context' = context /\ alive' \in BOOLEAN
        /\ (\E i \in DOMAIN pages : pages' = RemoveAt(pages, i)) \/ pages' = << >>
    BY <1>2 DEF TabCloses, BrowserDies, TabTypeOK
  <2>2. /\ TabsInOrder' /\ pages' \in Seq(TabIds) /\ IsInjective(pages')
        /\ ToSet(pages') \subseteq ToSet(pages)
    BY <1>0, <2>1, ClosingKeepsOrder
  <2>3. TabTypeOK'
    BY <1>0, <2>1, <2>2 DEF TabTypeOK
  <2>4. CallsFollowSession'
    BY <1>0, <2>1 DEF CallsFollowSession
  <2>5. SessionStaysWhereTold'
    BY <1>0, <2>1, <2>2 DEF SessionStaysWhereTold, IsOpen
  <2> QED BY <2>2, <2>3, <2>4, <2>5
<1> QED BY <1>1, <1>2

\* Outside of its tool calls apply_jobs makes sessions, and takes tabs away from them.
LEMMA FlowKeepsSession ==
  ASSUME SessionInvariant, AttemptInvariant, FlowStep, ~UseTool
  PROVE  SessionInvariant'
<1> USE DEF SessionInvariant, browserVars, tabVars, Goto, RaiseTo
<1>a. Idle.tool = "none" /\ Idle.stage = "none" /\ Idle.seen = << >>
  BY DEF Idle
<1>b. pages \in Seq(TabIds) /\ born \in Nat /\ NoTab <= born
  BY DEF TabTypeOK, NoTab
<1>c. phase # "agent" => call = Idle
  BY DEF CallsFollowSession
<1>d. call.seen \in Seq(TabIds)
  BY <1>a, EmptySeq DEF TabTypeOK
<1>0. /\ pages \in Seq(TabIds) /\ born \in Nat /\ NoTab <= born /\ call.seen \in Seq(TabIds)
      /\ Idle.tool = "none" /\ Idle.stage = "none" /\ Idle.seen = << >>
      /\ (phase # "agent" => call = Idle)
  BY <1>a, <1>b, <1>c, <1>d
<1>1. CASE FindFails \/ FindJobs \/ Return \/ StartFails \/ CloseFails \/ LeaveFails
  <2> USE <1>0, <1>1 DEF FindFails, FindJobs, Return, StartFails, CloseFails, LeaveFails
  <2>1. UNCHANGED tabVars /\ phase # "agent"
        /\ phase' \notin {"agent", "launching", "preparing", "opening"}
    OBVIOUS
  <2>2. TabTypeOK'
    BY <2>1 DEF TabTypeOK
  <2>3. TabsInOrder'
    BY <2>1, SameTabsKeepOrder
  <2>4. CallsFollowSession' /\ SessionStaysWhereTold'
    BY <2>1 DEF CallsFollowSession, SessionStaysWhereTold
  <2> QED BY <2>2, <2>3, <2>4
<1>2. CASE NextJob
  <2> USE <1>2 DEF NextJob
  <2>1. TabTypeOK'
    <3>1. pages' \in Seq(TabIds) /\ listing' \in Seq(TabIds) /\ IsInjective(pages')
      BY EmptySeq DEF IsInjective
    <3>2. born' \in 0..MaxTabs
      BY MaxTabsAssumption
    <3> QED BY <3>1, <3>2 DEF TabTypeOK
  <2>2. TabsInOrder'
    BY DEF TabsInOrder, Tidy, Idle
  <2>3. CallsFollowSession' /\ SessionStaysWhereTold'
    BY DEF CallsFollowSession, SessionStaysWhereTold, Idle, NoTab
  <2> QED BY <2>1, <2>2, <2>3
<1>3. CASE Launch \/ NewContext
  <2> USE <1>0, <1>3 DEF Launch, NewContext
  <2>1. TabTypeOK'
    BY DEF TabTypeOK
  <2>2. TabsInOrder'
    BY SameTabsKeepOrder
  <2>3. CallsFollowSession' /\ SessionStaysWhereTold'
    BY DEF CallsFollowSession, SessionStaysWhereTold
  <2> QED BY <2>1, <2>2, <2>3
<1>4. CASE FirstTab
  <2> USE <1>0, <1>4 DEF FirstTab
  <2>1. TabsInOrder' /\ pages' \in Seq(TabIds) /\ IsInjective(pages') /\ born' \in 0..MaxTabs
    BY NewTabKeepsOrder
  <2>2. born' = born + 1 /\ born + 1 \in TabIds /\ call = Idle /\ told = NoTab
    BY MaxTabsAssumption DEF NewTab, TabTypeOK, TabIds, SessionStaysWhereTold
  <2>3. TabTypeOK'
    BY <2>1, <2>2 DEF TabTypeOK, NewTab
  <2>4. ~IsOpen(told)'
    BY <2>1, <2>2, MaxTabsAssumption DEF IsOpen, ToSet, NoTab, TabIds
  <2>5. CallsFollowSession' /\ SessionStaysWhereTold'
    BY <2>2, <2>4 DEF CallsFollowSession, SessionStaysWhereTold, Idle, NoTab
  <2> QED BY <2>1, <2>3, <2>5
<1>5. ASSUME NEW tool \in Tools, NEW index \in 0..MaxTabs, Ask(tool, index),
             tool = "switch" => index > 0
      PROVE  SessionInvariant'
  <2> USE <1>5 DEF Ask
  <2>1. call' = [tool |-> tool, stage |-> "asked", tab |-> NoTab, index |-> index, seen |-> << >>]
    BY DEF Idle
  <2>2. call' \in [tool : Tools, stage : Stages, tab : TabIds \union {NoTab},
                   index : 0..MaxTabs, seen : Seq(TabIds)]
    <3>1. << >> \in Seq(TabIds)
      BY EmptySeq
    <3>2. "asked" \in Stages
      BY DEF Stages
    <3> HIDE DEF Ask
    <3> QED BY <1>5, <2>1, <3>1, <3>2
  <2>3. TabTypeOK'
    BY <2>2 DEF TabTypeOK
  <2>4. TabsInOrder'
    BY <2>1, SameTabsKeepOrder
  <2>5. CallsFollowSession'
    BY <2>1 DEF CallsFollowSession
  <2>6. SessionStaysWhereTold'
    BY <1>0, <2>1 DEF SessionStaysWhereTold, IsOpen
  <2> QED BY <2>3, <2>4, <2>5, <2>6
<1>6. CASE AgentAnswers \/ AgentRaises
  <2> USE <1>6 DEF AgentAnswers, AgentRaises, Stop
  <2>1. TabTypeOK'
    BY DEF TabTypeOK
  <2>2. TabsInOrder'
    BY SameTabsKeepOrder
  <2>3. CallsFollowSession' /\ SessionStaysWhereTold'
    BY <1>0 DEF CallsFollowSession, SessionStaysWhereTold
  <2> QED BY <2>1, <2>2, <2>3
<1>7. CASE CloseContext \/ Leave
  <2> USE <1>0, <1>7 DEF CloseContext, Leave
  <2>1. TabsInOrder' /\ pages' \in Seq(TabIds) /\ IsInjective(pages')
    BY ClosingKeepsOrder
  <2>2. TabTypeOK'
    BY <2>1 DEF TabTypeOK
  <2>3. CallsFollowSession' /\ SessionStaysWhereTold'
    BY DEF CallsFollowSession, SessionStaysWhereTold
  <2> QED BY <2>1, <2>2, <2>3
<1>8. CASE CloseBrowser
  <2> USE <1>0, <1>8 DEF CloseBrowser
  <2>1. TabTypeOK'
    BY DEF TabTypeOK
  <2>2. TabsInOrder'
    BY SameTabsKeepOrder
  <2>3. CallsFollowSession' /\ SessionStaysWhereTold'
    BY DEF CallsFollowSession, SessionStaysWhereTold
  <2> QED BY <2>1, <2>2, <2>3
<1>9. (\E tool \in Tools \ {"switch"} : Ask(tool, 0)) \/ (\E index \in 1..MaxTabs : Ask("switch", index))
      => SessionInvariant'
  <2>1. "switch" \in Tools /\ 0 \in 0..MaxTabs /\ 1..MaxTabs \subseteq 0..MaxTabs
        /\ \A index \in 1..MaxTabs : index > 0
    BY MaxTabsAssumption DEF Tools
  <2> QED BY <1>5, <2>1
<1> HIDE DEF SessionInvariant
<1> QED BY <1>1, <1>2, <1>3, <1>4, <1>6, <1>7, <1>8, <1>9 DEF FlowStep

\* Statuses are appended one at a time, each by the attempt that ends.
LEMMA FlowKeepsAttempts ==
  ASSUME SessionInvariant, AttemptInvariant, FlowStep
  PROVE  AttemptInvariant'
<1> USE DEF AttemptInvariant, Job, Goto, RaiseTo, tabVars, browserVars
<1>0. Len(status) \in Nat /\ count \in Nat
  <2>1. status \in Seq({"applied", "failed"}) /\ count \in Nat
    BY FlowAssumption DEF FlowTypeOK
  <2> QED BY <2>1, LenProperties
<1>1. CASE FindFails \/ FindJobs \/ Return
  <2> USE <1>0, <1>1 DEF FindFails, FindJobs, Return
  <2>1. FlowTypeOK'
    <3> USE FlowAssumption DEF FlowTypeOK, AttemptsFit
    <3>1. phase' \in Phases /\ error' \in BOOLEAN
      BY DEF Phases
    <3>2. count' \in 0..MaxJobs /\ asked' \in 0..MaxCalls
      OBVIOUS
    <3>3. status' = status /\ answered' = answered /\ count <= count' /\ count' \in Nat
      OBVIOUS
    <3>4. status' \in Seq({"applied", "failed"}) /\ Len(status') <= count'
      BY <3>3
    <3>5. answered' \subseteq 1..count'
      BY <3>3
    <3> QED BY <3>1, <3>2, <3>4, <3>5
  <2>2. AttemptsFit'
    BY DEF AttemptsFit
  <2>3. AppliedMeansAnswered'
    BY DEF AppliedMeansAnswered
  <2> QED BY <2>1, <2>2, <2>3
<1>2. CASE NextJob \/ Launch \/ NewContext
  <2> USE <1>0, <1>2 DEF NextJob, Launch, NewContext
  <2>1. FlowTypeOK'
    <3> USE FlowAssumption DEF FlowTypeOK
    <3>1. phase' \in Phases /\ error' \in BOOLEAN
      BY DEF Phases
    <3>2. count' \in 0..MaxJobs /\ asked' \in 0..MaxCalls
      OBVIOUS
    <3>3. status' \in Seq({"applied", "failed"}) /\ Len(status') <= count' /\ answered' \subseteq 1..count'
      OBVIOUS
    <3> QED BY <3>1, <3>2, <3>3
  <2>2. AttemptsFit'
    BY DEF AttemptsFit
  <2>3. AppliedMeansAnswered'
    BY DEF AppliedMeansAnswered
  <2> QED BY <2>1, <2>2, <2>3
<1>3. CASE FirstTab \/ StartFails
  <2> USE <1>0, <1>3 DEF FirstTab, StartFails
  <2>1. FlowTypeOK'
    BY FlowAssumption DEF FlowTypeOK, Phases
  <2>2. AttemptsFit'
    BY DEF AttemptsFit
  <2>3. AppliedMeansAnswered'
    BY DEF AppliedMeansAnswered
  <2> QED BY <2>1, <2>2, <2>3
<1>4. ASSUME NEW tool, NEW index, Ask(tool, index) PROVE AttemptInvariant'
  <2> USE <1>0, <1>4 DEF Ask
  <2>1. FlowTypeOK'
    BY FlowAssumption DEF FlowTypeOK, Phases
  <2>2. AttemptsFit'
    BY DEF AttemptsFit
  <2>3. AppliedMeansAnswered'
    BY DEF AppliedMeansAnswered
  <2> QED BY <2>1, <2>2, <2>3
<1>5. CASE UseTool
  <2> USE <1>0, <1>5 DEF UseTool, flowVars
  <2>1. FlowTypeOK'
    BY FlowAssumption DEF FlowTypeOK, Phases
  <2>2. AttemptsFit'
    BY DEF AttemptsFit
  <2>3. AppliedMeansAnswered'
    BY DEF AppliedMeansAnswered
  <2> QED BY <2>1, <2>2, <2>3
<1>6. CASE AgentAnswers \/ AgentRaises
  <2> USE <1>0, <1>6 DEF AgentAnswers, AgentRaises
  <2>1. FlowTypeOK'
    <3> USE FlowAssumption DEF FlowTypeOK, AttemptsFit
    <3>1. phase' \in Phases /\ error' \in BOOLEAN
      BY DEF Phases
    <3>2. count' \in 0..MaxJobs /\ asked' \in 0..MaxCalls
      OBVIOUS
    <3>3. status' = status /\ count' = count /\ Job \in 1..count /\ answered \subseteq 1..count
      OBVIOUS
    <3>4. answered' = answered \/ answered' = answered \union {Job}
      OBVIOUS
    <3>5. answered' \subseteq 1..count'
      BY <3>3, <3>4
    <3>6. status' \in Seq({"applied", "failed"}) /\ Len(status') <= count'
      BY <3>3
    <3> QED BY <3>1, <3>2, <3>5, <3>6
  <2>2. AttemptsFit'
    BY DEF AttemptsFit, Stop
  <2>3. AppliedMeansAnswered'
    BY DEF AppliedMeansAnswered
  <2> QED BY <2>1, <2>2, <2>3
<1>7. CASE CloseContext \/ CloseBrowser \/ CloseFails
  <2> USE <1>0, <1>7 DEF CloseContext, CloseBrowser, CloseFails
  <2>1. FlowTypeOK'
    BY FlowAssumption DEF FlowTypeOK, Phases
  <2>2. AttemptsFit'
    BY DEF AttemptsFit
  <2>3. AppliedMeansAnswered'
    BY DEF AppliedMeansAnswered, AttemptsFit
  <2> QED BY <2>1, <2>2, <2>3
<1>8. CASE Leave \/ LeaveFails
  <2> USE <1>8 DEF Leave, LeaveFails
  <2>1. /\ Len(status') = Len(status) + 1 /\ status' \in Seq({"applied", "failed"})
        /\ \A i \in 1..Len(status) : status'[i] = status[i]
        /\ status'[Len(status) + 1] = "applied" => ~error
        /\ phase = "leaving" /\ phase' = "between" /\ UNCHANGED <<count, error, asked, answered>>
    BY DEF FlowTypeOK
  <2>2. FlowTypeOK'
    <3>1. Len(status) < count /\ "between" \in Phases
      BY <2>1 DEF AttemptsFit, Phases
    <3> HIDE DEF Leave, LeaveFails
    <3> QED BY <1>0, <2>1, <3>1 DEF FlowTypeOK
  <2>3. AttemptsFit'
    BY DEF AttemptsFit
  <2>4. AppliedMeansAnswered'
    BY <1>0, <2>1 DEF AppliedMeansAnswered, AttemptsFit
  <2> QED BY <2>2, <2>3, <2>4
<1> QED BY <1>1, <1>2, <1>3, <1>4, <1>5, <1>6, <1>7, <1>8 DEF FlowStep

\* Sites act only while a session has a context or a tab, and never on what apply_jobs keeps.
LEMMA SitesKeepAttempts ==
  ASSUME AttemptInvariant, SiteStep
  PROVE  AttemptInvariant'
<1> USE DEF AttemptInvariant, SiteStep, flowVars
<1>1. FlowTypeOK'
  BY DEF FlowTypeOK
<1>2. AttemptsFit' /\ AppliedMeansAnswered'
  BY DEF AttemptsFit, AppliedMeansAnswered, Job, SiteOpensTab, TabCloses, BrowserDies, NewTab
<1> QED BY <1>1, <1>2

\* Nothing has happened before the search for jobs.
LEMMA InvariantInitially == Init => FlowInvariant
<1> SUFFICES ASSUME Init PROVE FlowInvariant
  OBVIOUS
<1> USE MaxTabsAssumption, FlowAssumption DEF Init, TabInit
<1>1. Idle.tool = "none" /\ Idle.stage = "none" /\ Idle.seen = << >>
  BY DEF Idle
<1>2. TabTypeOK
  <2>1. alive \in BOOLEAN /\ context \in BOOLEAN
    OBVIOUS
  <2>2. pages \in Seq(TabIds) /\ listing \in Seq(TabIds)
    BY EmptySeq
  <2>3. IsInjective(pages)
    BY DEF IsInjective
  <2>4. born \in 0..MaxTabs
    OBVIOUS
  <2> QED BY <2>1, <2>2, <2>3, <2>4 DEF TabTypeOK
<1>3. TabsInOrder
  BY <1>1 DEF TabsInOrder, Tidy
<1>4. CallsFollowSession /\ SessionStaysWhereTold
  BY <1>1 DEF CallsFollowSession, SessionStaysWhereTold, NoTab
<1>5. AttemptInvariant
  <2>1. status \in Seq({"applied", "failed"}) /\ Len(status) = 0
    BY EmptySeq
  <2>2. phase \in Phases /\ error \in BOOLEAN
    BY DEF Phases
  <2>3. count \in 0..MaxJobs /\ asked \in 0..MaxCalls /\ answered \subseteq 1..count
    OBVIOUS
  <2>4. FlowTypeOK
    BY <2>1, <2>2, <2>3 DEF FlowTypeOK
  <2>5. AttemptsFit /\ AppliedMeansAnswered
    BY <2>1 DEF AttemptsFit, AppliedMeansAnswered
  <2> QED BY <2>4, <2>5 DEF AttemptInvariant
<1> QED BY <1>2, <1>3, <1>4, <1>5 DEF FlowInvariant, SessionInvariant

\* Every step of apply_jobs, of its agent and of the sites keeps the invariant.
LEMMA StepsKeepInvariant == FlowInvariant /\ [Next]_vars => FlowInvariant'
<1> SUFFICES ASSUME FlowInvariant, [Next]_vars PROVE FlowInvariant'
  OBVIOUS
<1> USE DEF FlowInvariant
<1>1. CASE UseTool
  <2>1. phase = "agent" /\ phase' = phase /\ ToolStep /\ FlowStep
    BY <1>1 DEF UseTool, flowVars, FlowStep
  <2> QED BY <2>1, ToolsKeepSession, FlowKeepsAttempts
<1>2. CASE FlowStep /\ ~UseTool
  BY <1>2, FlowKeepsSession, FlowKeepsAttempts
<1>3. CASE SiteStep
  BY <1>3, SitesKeepSession, SitesKeepAttempts DEF SiteStep, flowVars
<1>4. CASE UNCHANGED vars
  <2> USE <1>4 DEF vars, tabVars, browserVars, flowVars, SessionInvariant, AttemptInvariant
  <2>1. TabTypeOK' /\ FlowTypeOK'
    BY DEF TabTypeOK, FlowTypeOK
  <2>2. TabsInOrder'
    BY DEF TabsInOrder, Tidy
  <2>3. CallsFollowSession' /\ SessionStaysWhereTold'
    BY DEF CallsFollowSession, SessionStaysWhereTold, IsOpen
  <2>4. AttemptsFit' /\ AppliedMeansAnswered'
    BY DEF AttemptsFit, AppliedMeansAnswered, Job
  <2> QED BY <2>1, <2>2, <2>3, <2>4
<1> QED BY <1>1, <1>2, <1>3, <1>4 DEF Next

\* Tabs, calls and attempts fit together in every reachable state.
THEOREM InvariantHolds == Spec => []FlowInvariant
BY InvariantInitially, StepsKeepInvariant, PTL DEF Spec

\* Type correctness: the lists hold tabs, and a tab that is open is on the browser's once.
THEOREM TypeCorrect == Spec => []TypeOK
<1>1. FlowInvariant => TypeOK
  BY DEF FlowInvariant, SessionInvariant, AttemptInvariant, TypeOK
<1> QED BY <1>1, InvariantHolds, PTL

\* Between calls the session is on the tab the agent was last told of, however many tabs
\* sites open meanwhile, unless that tab has closed or bringing another to the front failed.
THEOREM ReportedTabIsCurrentHolds == Spec => []ReportedTabIsCurrent
<1>1. FlowInvariant => ReportedTabIsCurrent
  BY DEF FlowInvariant, SessionInvariant, SessionStaysWhereTold, ReportedTabIsCurrent, Idle
<1> QED BY <1>1, InvariantHolds, PTL

\* An applied job is one whose own agent answered, and whose session then closed.
THEOREM AppliedMeansAnsweredHolds == Spec => []AppliedMeansAnswered
BY InvariantHolds, PTL DEF FlowInvariant, AttemptInvariant

\* browser_switch_page by an index of the last browser_list_tabs finds the tab that was
\* listed there, unless one listed at or before it has closed.
THEOREM SwitchFindsListedTabHolds == Spec => SwitchFindsListedTab
<1>1. FlowInvariant /\ [Next]_vars =>
        [SwitchPage /\ call.index <= Len(listing) =>
           \/ selected' = listing[call.index]
           \/ \E j \in 1..call.index : ~IsOpen(listing[j])]_vars
  <2> SUFFICES ASSUME FlowInvariant, SwitchPage, call.index <= Len(listing),
                      \A j \in 1..call.index : IsOpen(listing[j])
               PROVE  selected' = listing[call.index]
    OBVIOUS
  <2> USE DEF FlowInvariant, SessionInvariant
  <2>1. pages \in Seq(TabIds) /\ listing \in Seq(TabIds) /\ Tidy(listing) /\ Tidy(pages)
    BY DEF TabTypeOK, TabsInOrder
  <2>2. call.index \in Nat /\ call.index > 0
    BY DEF TabTypeOK, Idle, SwitchPage, Asked, CallsFollowSession
  <2>3. call.index \in DOMAIN listing
    BY <2>1, <2>2
  <2>4. pages[call.index] = listing[call.index]
    BY <2>1, <2>3, ListedTabsKeepTheirIndex
  <2> QED BY <2>4 DEF SwitchPage, Listed
<1> QED BY InvariantHolds, <1>1, PTL DEF Spec, SwitchFindsListedTab
=============================================================================
