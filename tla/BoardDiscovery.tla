--------------------------- MODULE BoardDiscovery ---------------------------
(***************************************************************************)
(* One POST /greenhouse/boards/discover: greenhouse/service.py,            *)
(* greenhouse/commoncrawl.py, greenhouse/greenhouse.py and the upsert of   *)
(* greenhouse/repository.py.                                               *)
(*                                                                         *)
(* Candidates come either from Common Crawl, where one asyncio task scans  *)
(* each (crawl, host) query, or from company sites visited one by one.     *)
(* They are then verified against the live API in concurrent batches,      *)
(* enriched, and stored.  A task runs from one await to the next without   *)
(* interruption: all URLs of a page are taken in one step.  URLs that name *)
(* no board are left out.                                                  *)
(***************************************************************************)
EXTENDS Naturals, FiniteSets, Functions, SequencesExt

CONSTANTS
  Queries,            \* the (crawl index, host) pairs of a global discovery
  Companies,          \* the names of a company discovery
  Tokens,             \* casefolded board tokens
  MaxCandidates,      \* config.max_candidates
  MaxPages,           \* config.max_pages_per_query
  CrawlConcurrency,   \* config.crawl_concurrency
  VerifyConcurrency,  \* config.verification_concurrency
  BatchSize,          \* max(3 * verification_concurrency, 50)
  Limit,              \* config.limit
  PageLength          \* URLs of one page, for model checking only

ASSUME LimitsAssumption ==
  {MaxCandidates, MaxPages, CrawlConcurrency, VerifyConcurrency, BatchSize, Limit} \subseteq Nat \ {0}
ASSUME PageLengthAssumption == PageLength \in Nat
ASSUME SourcesAssumption == Queries \intersect Companies = {}

VARIABLES
  phase,       \* where the run is
  scan,        \* where each source's task is: "waiting" ... "done", "failed", "broken"
  page,        \* the page a query reads next
  pageCount,   \* how many pages it will read
  candidates,  \* tokens in the order they were found: the dict's keys
  evidence,    \* token -> the sources its candidate names
  offered,     \* what each source has shown so far (history)
  first,       \* position of the batch being verified
  verdict,     \* token -> the state of its verification
  boards,      \* verified boards, in candidate order
  counts,      \* verified, invalid and empty candidates
  report,      \* the boards of the report, in its order
  stored       \* tokens whose row this run wrote

crawlVars == <<scan, page, pageCount, candidates, evidence, offered>>
verifyVars == <<first, verdict, boards, counts>>
outVars == <<report, stored>>
vars == <<phase, crawlVars, verifyVars, outVars>>

Sources == Queries \union Companies
Phases == {"start", "crawling", "visiting", "verifying", "batch", "enriching",
           "sorting", "reporting", "stored", "fatal", "aborted"}
Over == {"stored", "fatal", "aborted"}
Scans == {"waiting", "counting", "paging", "done", "failed", "broken"}
Verdicts == {"none", "queued", "asked", "valid", "empty", "invalid"}
Pages == BoundedSeq(Tokens, PageLength)

Full(tokens) == Cardinality(tokens) >= MaxCandidates

\* The elements of s at the positions in P, in their order.
Kept(s, P) ==
  LET Upto[n \in 0..Len(s)] ==
        IF n = 0 THEN << >>
        ELSE IF n \in P THEN Append(Upto[n - 1], s[n])
        ELSE Upto[n - 1]
  IN  Upto[Len(s)]

\* Broken variant: the limit is tested after each URL, and not before the first.
TakenUnlessNew(urls) ==
  LET fullAt == {i \in 1..Len(urls) :
                   Full(ToSet(candidates) \union ToSet(SubSeq(urls, 1, i)))}
  IN  IF fullAt = {} THEN urls ELSE SubSeq(urls, 1, Min(fullAt))

\* The URLs a scan uses: it stops before the first one that finds the candidates full.
Taken(urls) ==
  LET fullAt == {i \in 0..Len(urls) :
                   Full(ToSet(candidates) \union ToSet(SubSeq(urls, 1, i)))}
  IN  IF fullAt = {} THEN urls ELSE SubSeq(urls, 1, Min(fullAt))

\* setdefault on the dict, URL by URL: a new token goes to the end, once.
WithTokensOf(urls) ==
  candidates \o Kept(urls, {i \in 1..Len(urls) :
                              /\ ~Contains(candidates, urls[i])
                              /\ \A j \in 1..(i - 1) : urls[j] # urls[i]})

\* Broken variant: a token found again replaces its candidate.
TakeUrlsReplacing(s, urls) ==
  /\ candidates' = WithTokensOf(Taken(urls))
  /\ evidence' = [t \in Tokens |-> IF Contains(Taken(urls), t) THEN {s} ELSE evidence[t]]
  /\ offered' = [offered EXCEPT ![s] = @ \union ToSet(urls)]

\* The scan or visit of source s takes the URLs of one page.
TakeUrls(s, urls) ==
  /\ candidates' = WithTokensOf(Taken(urls))
  /\ evidence' = [t \in Tokens |->
                    IF Contains(Taken(urls), t) THEN evidence[t] \union {s} ELSE evidence[t]]
  /\ offered' = [offered EXCEPT ![s] = @ \union ToSet(urls)]

\* Broken variant: a scan that fails does not release the semaphore.
ScanningOrFailed == {q \in Queries : scan[q] \in {"counting", "paging", "failed"}}

\* asyncio.Semaphore(crawl_concurrency)
Scanning == {q \in Queries : scan[q] \in {"counting", "paging"}}
ScanEnds(s, how) == scan' = [scan EXCEPT ![s] = how]

Init ==
  /\ phase = "start"
  /\ scan = [s \in Sources |-> "waiting"]
  /\ page = [q \in Queries |-> 0]
  /\ pageCount = [q \in Queries |-> 0]
  /\ candidates = <<>>
  /\ evidence = [t \in Tokens |-> {}]
  /\ offered = [s \in Sources |-> {}]
  /\ first = 1
  /\ verdict = [t \in Tokens |-> "none"]
  /\ boards = <<>>
  /\ counts = [verified |-> 0, invalid |-> 0, empty |-> 0]
  /\ report = <<>>
  /\ stored = {}

Become(p) ==
  /\ phase' = p
  /\ UNCHANGED <<crawlVars, verifyVars, outVars>>

-----------------------------------------------------------------------------
(* Where candidates come from.                                             *)

\* latest_indexes answers; the tasks of all queries are gathered.
StartCrawl ==
  /\ phase = "start"
  /\ Become("crawling")

\* The model locates the companies' sites; companies without one are skipped.
StartVisits(skipped) ==
  /\ phase = "start"
  /\ phase' = "visiting"
  /\ scan' = [s \in Sources |-> IF s \in skipped THEN "done" ELSE scan[s]]
  /\ UNCHANGED <<page, pageCount, candidates, evidence, offered, verifyVars, outVars>>

\* The index list or the model is unavailable: a report without boards.
SourceUnavailable ==
  /\ phase = "start"
  /\ Become("fatal")

\* The index list is no list of crawls: the error is no HTTP error and leaves the run.
IndexesMalformed ==
  /\ phase = "start"
  /\ Become("aborted")

StartScan(q) ==
  /\ phase = "crawling" /\ scan[q] = "waiting"
  /\ Cardinality(Scanning) < CrawlConcurrency
  /\ ScanEnds(q, "counting")
  /\ UNCHANGED <<phase, page, pageCount, candidates, evidence, offered, verifyVars, outVars>>

\* _num_pages: at least one page, and no more than the configured number.
CountPages(q, n) ==
  /\ phase = "crawling" /\ scan[q] = "counting"
  /\ pageCount' = [pageCount EXCEPT ![q] = n]
  /\ ScanEnds(q, "paging")
  /\ UNCHANGED <<phase, page, candidates, evidence, offered, verifyVars, outVars>>

\* Broken variant: one page too many.
BehindLastPage(q) == page[q] = pageCount[q]
OnLastPage(q) == page[q] + 1 = pageCount[q]

\* One page answers: the scan returns once the candidates are full or the pages are over.
FetchPage(q, urls) ==
  /\ phase = "crawling" /\ scan[q] = "paging"
  /\ TakeUrls(q, urls)
  /\ page' = [page EXCEPT ![q] = @ + 1]
  /\ ScanEnds(q, IF Full(ToSet(candidates')) \/ OnLastPage(q)
                 THEN "done" ELSE "paging")
  /\ UNCHANGED <<phase, pageCount, verifyVars, outVars>>

\* A page that answers 404 has no captures: the scan is over.
NoCaptures(q) ==
  /\ phase = "crawling" /\ scan[q] = "paging"
  /\ ScanEnds(q, "done")
  /\ UNCHANGED <<phase, page, pageCount, candidates, evidence, offered, verifyVars, outVars>>

\* A request of the query fails for good, with its retries: the error is collected.
ScanFails(q) ==
  /\ phase = "crawling" /\ q \in Scanning
  /\ ScanEnds(q, "failed")
  /\ UNCHANGED <<phase, page, pageCount, candidates, evidence, offered, verifyVars, outVars>>

\* The page count is neither JSON nor a number: int() raises, and gather raises it again.
CountMalformed(q) ==
  /\ phase = "crawling" /\ scan[q] = "counting"
  /\ phase' = "aborted"
  /\ ScanEnds(q, "broken")
  /\ UNCHANGED <<page, pageCount, candidates, evidence, offered, verifyVars, outVars>>

\* A page holds a URL that urlparse refuses: the scan catches HTTP errors only, and gather
\* raises the ValueError again.  What the scan took of the page is lost with the run.
PageMalformed(q) ==
  /\ phase = "crawling" /\ scan[q] = "paging"
  /\ phase' = "aborted"
  /\ ScanEnds(q, "broken")
  /\ UNCHANGED <<page, pageCount, candidates, evidence, offered, verifyVars, outVars>>

CrawlEnds ==
  /\ phase = "crawling"
  /\ \A q \in Queries : scan[q] \in {"done", "failed"}
  /\ Become("verifying")

\* Company sites are read one by one; a full candidate list ends all visits.
VisitSite(c, urls) ==
  /\ phase = "visiting" /\ scan[c] = "waiting"
  /\ TakeUrls(c, urls)
  /\ scan' = [s \in Sources |->
                IF s = c \/ (s \in Companies /\ Full(ToSet(candidates'))) THEN "done" ELSE scan[s]]
  /\ UNCHANGED <<phase, page, pageCount, verifyVars, outVars>>

SiteFails(c) ==
  /\ phase = "visiting" /\ scan[c] = "waiting"
  /\ ScanEnds(c, "failed")
  /\ UNCHANGED <<phase, page, pageCount, candidates, evidence, offered, verifyVars, outVars>>

\* The site's URL, or one on its page, is malformed: InvalidURL and ValueError are no HTTP
\* errors, and leave the run.
SiteMalformed(c) ==
  /\ phase = "visiting" /\ scan[c] = "waiting"
  /\ phase' = "aborted"
  /\ ScanEnds(c, "broken")
  /\ UNCHANGED <<page, pageCount, candidates, evidence, offered, verifyVars, outVars>>

VisitsEnd ==
  /\ phase = "visiting"
  /\ \A c \in Companies : scan[c] \in {"done", "failed"}
  /\ Become("verifying")

-----------------------------------------------------------------------------
(* Verification, batch by batch.                                           *)

\* Broken variant: the slice ends one candidate early.
LastOfShort(start) == IF start + BatchSize - 2 <= Len(candidates) THEN start + BatchSize - 2
                      ELSE Len(candidates)
LastOf(start) == IF start + BatchSize - 1 <= Len(candidates) THEN start + BatchSize - 1
                 ELSE Len(candidates)
Batch == {candidates[i] : i \in first..LastOf(first)}

StartBatch ==
  /\ phase = "verifying"
  /\ first <= Len(candidates) /\ Len(boards) < Limit
  /\ phase' = "batch"
  /\ verdict' = [t \in Tokens |-> IF t \in Batch THEN "queued" ELSE verdict[t]]
  /\ UNCHANGED <<crawlVars, first, boards, counts, outVars>>

Judge(t, v) ==
  /\ verdict' = [verdict EXCEPT ![t] = v]
  /\ UNCHANGED <<phase, crawlVars, first, boards, counts, outVars>>

\* The verifier's own semaphore admits a candidate.
AskBoard(t) ==
  /\ phase = "batch" /\ verdict[t] = "queued"
  /\ Cardinality({u \in Tokens : verdict[u] = "asked"}) < VerifyConcurrency
  /\ Judge(t, "asked")

\* "invalid" covers a failed request, another status, and an answer without a job list.
BoardAnswers(t, v) ==
  /\ phase = "batch" /\ verdict[t] = "asked"
  /\ Judge(t, v)

\* The answer is JSON, but no object: payload.get raises, and gather raises it again.
AnswerMalformed(t) ==
  /\ phase = "batch" /\ verdict[t] = "asked"
  /\ Become("aborted")

ValidOf(start, end) == Kept(candidates, {i \in start..end : verdict[candidates[i]] = "valid"})

\* The outcomes before the one that fills the list of boards, that one included.
Counted ==
  LET before == {i \in first..LastOf(first) : Len(boards) + Len(ValidOf(first, i)) >= Limit}
  IN  IF before = {} THEN first..LastOf(first) ELSE first..Min(before)

\* All outcomes are in, in the order of the candidates.
EndBatch ==
  /\ phase = "batch"
  /\ \A t \in Batch : verdict[t] \in {"valid", "empty", "invalid"}
  /\ boards' = LET all == boards \o ValidOf(first, LastOf(first))
               IN  IF Len(all) <= Limit THEN all ELSE SubSeq(all, 1, Limit)
  /\ counts' = [verified |-> counts.verified + Cardinality(Batch),
                invalid |-> counts.invalid
                              + Cardinality({i \in Counted : verdict[candidates[i]] = "invalid"}),
                empty |-> counts.empty
                              + Cardinality({i \in Counted : verdict[candidates[i]] = "empty"})]
  /\ first' = first + BatchSize
  /\ phase' = "verifying"
  /\ UNCHANGED <<crawlVars, verdict, outVars>>

VerificationEnds ==
  /\ phase = "verifying"
  /\ first > Len(candidates) \/ Len(boards) >= Limit
  /\ Become(IF boards # <<>> THEN "enriching" ELSE "sorting")

\* A page without a usable title leaves the board without a name, and nothing else.
Enrich ==
  /\ phase = "enriching"
  /\ Become("sorting")

Places == 1..Len(boards)

\* The report lists the boards by their number of jobs and their names, known from the
\* answers: any order can come of it.
SortReport ==
  /\ phase = "sorting"
  /\ phase' = "reporting"
  /\ \E p \in Bijection(Places, Places) : report' = [i \in Places |-> boards[p[i]]]
  /\ UNCHANGED <<crawlVars, verifyVars, stored>>

\* upsert_boards and the commit: one transaction.
Store ==
  /\ phase = "reporting"
  /\ phase' = "stored"
  /\ stored' = ToSet(report)
  /\ UNCHANGED <<crawlVars, verifyVars, report>>

\* The database fails in a statement or in the commit: the transaction is rolled back, and
\* the request ends with an error.
StoreFails ==
  /\ phase = "reporting"
  /\ Become("aborted")

-----------------------------------------------------------------------------
Start ==
  \/ StartCrawl
  \/ \E skipped \in SUBSET Companies : StartVisits(skipped)
  \/ SourceUnavailable \/ IndexesMalformed

Crawl(q) ==
  \/ StartScan(q)
  \/ \E n \in 1..MaxPages : CountPages(q, n)
  \/ \E urls \in Pages : FetchPage(q, urls)
  \/ NoCaptures(q) \/ ScanFails(q) \/ CountMalformed(q) \/ PageMalformed(q)

Visit(c) == (\E urls \in Pages : VisitSite(c, urls)) \/ SiteFails(c) \/ SiteMalformed(c)

Verify(t) ==
  \/ AskBoard(t) \/ AnswerMalformed(t)
  \/ \E v \in {"valid", "empty", "invalid"} : BoardAnswers(t, v)

Conclude ==
  \/ CrawlEnds \/ VisitsEnd
  \/ StartBatch \/ EndBatch \/ VerificationEnds
  \/ Enrich \/ SortReport \/ Store \/ StoreFails

Next ==
  \/ Start
  \/ \E q \in Queries : Crawl(q)
  \/ \E c \in Companies : Visit(c)
  \/ \E t \in Tokens : Verify(t)
  \/ Conclude

Spec == Init /\ [][Next]_vars

\* Every request has a timeout, and the event loop starves no task.
Fairness ==
  /\ \A q \in Queries : WF_vars(Crawl(q))
  /\ \A c \in Companies : WF_vars(Visit(c))
  /\ \A t \in Tokens : WF_vars(Verify(t))
  /\ WF_vars(Conclude)
FairSpec == Spec /\ Fairness

-----------------------------------------------------------------------------
(* Properties.                                                             *)

\* Every variable keeps its type.
TypeOK ==
  /\ phase \in Phases
  /\ scan \in [Sources -> Scans]
  /\ page \in [Queries -> 0..MaxPages]
  /\ pageCount \in [Queries -> 0..MaxPages]
  /\ candidates \in Seq(Tokens)
  /\ evidence \in [Tokens -> SUBSET Sources]
  /\ offered \in [Sources -> SUBSET Tokens]
  /\ first \in Nat
  /\ verdict \in [Tokens -> Verdicts]
  /\ boards \in Seq(Tokens)
  /\ counts \in [{"verified", "invalid", "empty"} -> Nat]
  /\ report \in Seq(Tokens)
  /\ stored \in SUBSET Tokens

\* Scans that run side by side, each with a page of its own in flight when another one
\* fills the list, never push the candidates over config.max_candidates, nor repeat one.
CandidatesBounded ==
  /\ Len(candidates) <= MaxCandidates
  /\ IsInjective(candidates)

\* Nothing found is lost: until the list is full, a token that any source has shown is a
\* candidate and names that source, whatever other sources failed; and it names no
\* source that has not shown it.
EvidenceComplete ==
  /\ \A t \in Tokens : \A s \in evidence[t] : t \in offered[s]
  /\ \A t \in Tokens : evidence[t] # {} <=> Contains(candidates, t)
  /\ Len(candidates) < MaxCandidates =>
       \A s \in Sources : \A t \in offered[s] : s \in evidence[t]

\* The first valid candidates, in the order they were found, up to the limit.
FirstValid ==
  LET valid == ValidOf(1, Len(candidates))
  IN  SubSeq(valid, 1, IF Len(valid) <= Limit THEN Len(valid) ELSE Limit)

\* The counters account for every candidate that was asked about, as long as the limit did
\* not cut a batch short.
CountsAddUp ==
  /\ Len(report) + counts.invalid + counts.empty <= counts.verified
  /\ Len(report) < Limit =>
       /\ counts.verified = Len(candidates)
       /\ Len(report) + counts.invalid + counts.empty = counts.verified

\* The report that is stored says what the verification found.  In whatever order the sort
\* lists them, its boards are the valid candidates that were found first, up to the limit,
\* each once: batches and concurrent answers skip none, and none behind the limit takes the
\* place of one before it.  Its counters add up, whatever batch the limit fell into.
ReportMatchesVerdicts ==
  phase = "stored" =>
    /\ stored = ToSet(FirstValid) /\ ToSet(report) = ToSet(FirstValid)
    /\ Len(report) = Len(FirstValid)
    /\ CountsAddUp

\* A discovery ends with a report, stored or fatal, or with an error.
DiscoveryEnds == phase # "start" ~> phase \in Over

\* "Successful boards remain available when an individual crawl query fails, so errors are
\* collected beside results instead of aborting the entire run" (greenhouse/models.py:140).
QueryFailureIsCollected == phase = "aborted" => \A q \in Queries : scan[q] # "broken"
=============================================================================
