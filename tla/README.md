# Verification of job_bot

TLA+ models of job_bot, the TLC configurations that check them, and proofs that TLAPS checks.
Source paths below are relative to `src/job_bot/` of the repository unless they start with `README.md`.

job_bot applies for jobs on behalf of users. It is a FastAPI service with PostgreSQL behind it: it
stores users whose profile a language model extracts from their resume, finds Greenhouse job boards and
their jobs, and drives a browser that fills and submits one application form per request. Several
instances of the service may run at once, each is one asyncio event loop, and everything that must not
happen twice is coordinated through the database.

## 1. Inventory

| Component | State it keeps | Operations | Hard behaviour | What makes it correct |
|---|---|---|---|---|
| Idempotency layer: `transaction/applications.py`, `db/application_models.py`, called by POST `/apply` in `api/job_api.py` | rows of `job_application_attempts`; advisory and row locks; the session's identity map | reserve, take over an expired lease, complete, fail | two transactions around a slow operation; leases that run out under a worker; death at any point; deletion of the account underneath | one active attempt per identity, successes final, numbers in sequence, nobody blocked for ever |
| User accounts: `transaction/users.py`, `api/user_api.py`, `db/user_models.py` | the `users` table | POST (create or replace), PUT, DELETE, GET | lookup and write apart by a model call; unit of work writes changed columns only; deadlocks between PUTs | one account per address, no resurrection, no mixed rows |
| Job synchronisation: `greenhouse/jobs.py`, `db/upsert.py`, `api/api_v1.py`, `job_providers/` | the `jobs` table | sync, load | many rows in several statements of one transaction; row locks in any order | all or nothing, nothing dropped, deadlocks end |
| Board discovery: `greenhouse/service.py`, `commoncrawl.py`, `greenhouse.py`, `repository.py` | candidates, evidence, boards of one run; the boards table | crawl or visit, verify, enrich, store | concurrent scans under a semaphore and a shared limit; batches; single failures | limits kept, nothing found is lost, selection and counts right |
| Form filler: `applier/greenhouse_applier.py`, `agent/filler_tools.py`, `agent/file_upload.py` | the page; no memory of its own | inspect, fill, assist, submit, judge | a snapshot that ages while the page is filled; a page that changes by itself; swallowed errors; a submission whose outcome is unclear | complete before it is sent, sent once, right answers kept |
| Browser agent graph: `agent/agent_graph.py`, `agent/application_agent.py` | messages, call and failure counters; a cache of answers | act, use tools, evaluate | a loop that a model steers | ends within its budget |
| Browser session and the flow over it: `utils/browser_tools.py`, `applier/flow.py` | browser, context, current tab; statuses of a batch of jobs | start, stop, page, switch, click with popups, nineteen tools; find jobs, apply to each | tabs that open and close at every await; a browser that dies; cleaning up that fails | the agent knows on which tab it is, a job that counts as applied was answered and its browser closed, the batch ends |
| React job agent: `agent/react_job_agent.py`, `agent/mixed_job_agent.py` | messages, counters | act, use tool, evaluate, plan | - | cannot start (section 8) |
| Flat-file table: `utils/bucket_db.py` | an object in a bucket, an offset index per client | insert, update, upsert, delete, scan, compact | download, modify, upload without a lock | would be: no lost records (section 8) |
| Caches: `utils/redis_cache.py`, `utils/disk_cache.py`, `utils/caching.py` | keyed results with an expiry; temporary files | wrap, read, write, delete, clear | several processes miss one key; expiry in two steps; stores that fail | a hit is a whole, fresh answer to the same question; a store that fails costs only hits |
| Stage machine: `agent/nodes.py`, `data/adt.py` | the stage of an application | nodes that are never assembled | - | not modelled (section 8) |
| Shell, schemas, model clients, migrations | configuration | - | - | not modelled (section 8) |

How they interact. The handler of POST `/apply` looks the user up, and `run_application_once` reserves an attempt,
calls the filler as an opaque operation outside any transaction, and completes the attempt with what it returned or
raised. The filler calls the agent graph at most twice: for answers it lacks and for the verdict on the page after
the click; the answers go through the response cache, and so do the choice of a dropdown's option, the extraction
of a resume and the search for a company's site. The flow of `applier/flow.py` is a second way to apply, without
the idempotency layer: an agent of the library with the tools of the browser session. Deleting a user cascades to
its attempts. Discovery writes boards that the synchronisation reads. Handlers share nothing but the database and
the event loop.

## 2. Modules

| Module | Models | Runs | Proofs |
|---|---|---|---|
| `ApplicationAttempts` | idempotency layer and its handler | `attempts`, `attempts_history`, `attempts_submitted_once` | `ApplicationAttemptsProofs` |
| `AttemptLedger` | what that layer promises | through `ImplementsLedger` | `ImplementsLedgerHolds` |
| `UserAccounts` | POST, PUT, DELETE of `/user` | `accounts`, `accounts_mixed_row` | `UserAccountsProofs` |
| `JobUpserts` | sync and load of jobs | `job_upserts` | `JobUpsertsProofs` |
| `AtomicUpserts` | what `batched_upsert` promises | through `ImplementsAtomicUpserts` | `ImplementsAtomicUpsertsHolds` |
| `BoardDiscovery` | one discovery run | `discovery_safety`, `discovery_liveness`, `discovery_aborts` | `BoardDiscoveryProofs` |
| `GreenhouseFiller` | one call of the filler, both agent runs in it | `filler` | `GreenhouseFillerProofs` |
| `FormSubmission` | what a call of the filler promises | through `ImplementsSubmission` | `ImplementsSubmissionHolds` |
| `ResponseCache` | a cached function over Redis or a directory | `response_cache` | `ResponseCacheProofs` |
| `Memo` | what a cache promises its callers | through `ImplementsMemo` | `ImplementsMemoHolds` |
| `BrowserTabs` | the browser session and its tools | in `apply_jobs` | `ApplyJobsProofs` |
| `ApplyJobs` | `apply_jobs`, over `BrowserTabs` | `apply_jobs` | `ApplyJobsProofs` |
| `NaturalOrder` | nothing of the code: least elements, induction and smallest sets, as facts | - | cited by the proofs of discovery, filler, tabs and job upserts |

`MC...` modules give symmetries, an order of arrival, initial tables, forms and processes for TLC; a run without
one checks the module itself. `ApplicationAttempts` uses of the filler what `FormSubmission` promises: a call
presses the button at most once, succeeds only after that, and may fail before or after it. Two things it does
not know. A form with an input of type submit may already be sent while it is filled (`Stray`); for the layer
that is a submission that was not reported, like a click before an error. And a call may wait for ever at an
await without a timeout (`CallEnds`); the layer's own liveness assumes that it does not. `CachedAnswers` of
`GreenhouseFiller` is a `Recall` of `Memo`: an answer given before to the same question. `OperationSubmits`
corresponds to `Press`, and `OperationReturns` to `Succeed` and `Fail`.

Each module holds a few operators marked "Broken variant". They are not part of the specification: each is
a plausible mistake in the definition that follows it (a lock not taken, a dropped guard, an off-by-one),
and each property is known to fail when the variant takes the place of that definition.

### ApplicationAttempts

A request inserts at most one row, so a row is named by its request. `identity` is the pair of user and
canonical job; `status`, `number`, `lease` and `error` are the columns; `stamp`, `found`, `loaded` and
`outcome` are what the handler has in memory, and `pc` is where it is. A request without an email, a resume or a
usable URL is refused before any of it (`RejectInvalid`).

| Phase | Code |
|---|---|
| `locking` | `pg_advisory_xact_lock` is asked for; `now` was sampled before (lines 108-118) |
| `selecting` | the lock is held, `_active_attempt` runs `SELECT ... FOR UPDATE` |
| `deciding` | the row found is locked: refuse, take over, or insert; flush and commit |
| `executing` | the operation runs outside any transaction |
| `completing`, `saving` | `complete_application_attempt`: wait for the row lock, then test and write |

A statement that may wait is a step of its own. A flush and its commit are one step, because the locks
taken before keep every conflicting transaction out. Two details carry much of the behaviour. The session
is made with `expire_on_commit=False`, so the guard of the completion tests the status the session *loaded*
(`loaded`), not the one the locked row has. And the timestamp is older than the lock: a lease may be
shorter than configured when the reservation had to wait, never longer.

The deletion of an account takes its locks one at a time, as PostgreSQL does: `StartDelete` has the row of the
user, `EraseAttempt` waits for and takes one row of the cascade, in any order, and `CommitDelete` ends it
(`deletion` is its phase, `erased` the rows it has). Meanwhile an insert waits at the foreign key, a success at
the index entry of an erased row, and a reservation or a completion at a row that is erased. When that closes a
circle (`DeadlockWithDeletion`) PostgreSQL aborts one of the two: the DELETE by `AbortDelete`, the reservation by
`ReserveConflict`, the completion by `SaveRejected`. A DELETE whose process dies between two of its locks is
rolled back by the database and is not modelled. `Crash` stands for the death of
the process, for cancellation, which `except Exception` does not catch, and for a transaction that the
database aborts.

### UserAccounts

A row has three columns: the unique `email`, `profile` for what the model extracted, `resume` for the file's
name and hash; two of them can differ independently, which is what a lost update needs. The unit of work is
modelled as such: `Select` keeps the loaded row, `Changed` is the difference, and a flush writes these
columns over the row's latest version. An update that changes the address holds its row while it waits for
the index entry; `AbortDeadlock` is PostgreSQL's answer to a cycle of such waits. A PUT drops the object of
its first lookup, so the second one reads the row again.

### JobUpserts

A writer gathers its rows, each url once (a board has a job once, and the provider of a load drops what comes
twice, `job_providers/llm_job_provider.py:149`), then takes them one by one in
order, waiting for the lock of each url, in statements of at most `BatchLimit` rows. `TakeRow` counts the
rows of a statement when it is complete. All locks go at the commit, or with the transaction that a failing
statement or a deadlock ends.

### BoardDiscovery

One task per crawl query, admitted by the semaphore, counts its pages and reads them; between two awaits it
runs alone, so all URLs of a page are taken in one step (`TakeUrls`). A company discovery visits sites one
by one instead. Verification goes batch by batch through a second semaphore. `failed` is an error that the
run collects; `broken` is one that leaves it through `asyncio.gather`, or out of the loop over the sites: a page
count that is no number, a URL on a page or a site's own that is malformed, an answer that is no object
(`CountMalformed`, `PageMalformed`, `SiteMalformed`, `AnswerMalformed`). `SortReport` puts the boards of the
report into whatever order their numbers of jobs and names give; what is stored is the report.

### GreenhouseFiller

A form is a sequence of controls, each with the strategy its filler uses, what `get_answer` has for it, its
accessible name, whether it is required, and for a radio button its group. Of one group any number of options may
be the answer: the regulator can map two labels to one answer. `value` says whether it holds nothing, the answer,
or something else. `Inspect` fixes `todo`, and `FillNext` fills the next control or fails. The page lives all the
while: until the form is sent it shows and hides controls (`PageShows`) and changes what they hold (`PageFills`)
between any two steps of the filler. Two histories say what the filler can have known: `found`, the controls of the
second inspection, and `changed`, those the page has filled in since the last one. An input of type submit has the
strategy of a text field, whose filler clicks it before it types (`agent/filler_tools.py:47`): `ClicksButton` sets
`strayed`. After the second inspection the filler looks for what is missing in a third one (`asking`), from which
the agent gets its questions. `Complete` is the second inspection, with the dictionary keyed by names that hides
all but the last control of a name. The agent's steps are `ModelAnswers` (act and its router), `UseTools`, and
`GetAnswers` or `GetStatus` for the evaluation; the run before the click asks for answers, the one after it for a
status. `Raise` is any error outside the loops that swallow errors, which ends the call.

### ResponseCache

A call is `new`, then looks up its key in one step (`Hit`, `Miss`; `FindExpired` on disk, where the reader removes
what it finds in a second step), computes, and stores. Redis stores in one step and swallows its errors; the
directory takes three, open the temporary file, write it, rename it, and any of them may fail and take the result
with it. Files are named by the call that created them, so that a name and what is behind it can differ: two
processes may write one file, and rename whatever is under the name by then. A directory may hold results that were
written before entries had an expiry: they are returned whatever their age (`HitBare`) until a store or a removal
takes their place (`bare`). The calls of one event loop do not interleave inside a lookup or a store (`MayRun`),
those of different processes do. `Live` is what the memo holds: the refinement lets it forget at any time, and
never lets it make an answer up.

### BrowserTabs and ApplyJobs

Tabs have the numbers in which they open. A tool call takes the session's tab when it begins (`Take`), and every
await of it is a step at which sites open and close tabs, or the browser dies. Only some answers say on which tab
the agent is (`told`): a click, a navigation, an inspection, a list, a switch. `selected` may name a closed tab;
the next `page()` repairs it. Two failures leave the session on another tab than the agent was told:
`bring_to_front` raises after the session has moved (`FrontFails`), which is when `lost` is set, until an answer
tells the tab again. `FollowNewTab` is the second half of a click: the last tab becomes the session's when any has
opened meanwhile. A tool that only reads or writes inside the tab is two steps, find and work; it may fail in
either. `ApplyJobs` puts a flow around it: `Launch`, `NewContext` and `FirstTab` are `start()`, outside the `try`;
`Stop`, `CloseContext` and `CloseBrowser` are `stop()`, which may give up half-way; `Leave` is the end of
`async_playwright` and the status of the job; it may fail as well (`LeaveFails`), and a job whose closing failed
may leave a browser behind. The next job has a session of its own (`NextJob`).

## 3. Runs

State counts are those of a complete search.

| Run | Instance | States | What it shows |
|---|---|---|---|
| `attempts` | 3 requests that arrive in order, 1 identity, lease 1, clock to 1 | 93 004 | every safety property, the inductive invariant, the refinement of the ledger; every request is answered, an account being deleted or not; an abandoned attempt is released |
| `accounts` | 2 requests, 2 accounts, 3 addresses, 2 values per other column | 90 110 | one account per address; POSTs do not clash; only a PUT mixes uploads; deletions are final; every request ends, also when two PUTs swap addresses |
| `job_upserts` | 2 writers, 3 urls, up to 3 rows, statements of 2 | 17 300 | atomicity (refinement), exclusive locks, nothing dropped, every writer ends |
| `discovery_safety` | 2 queries or 1 company, 4 tokens, 3 candidates, batches of 2, 2 boards | 100 501 (symmetric) | limits, evidence, and a report of what was verified |
| `discovery_liveness` | the same with 3 tokens and a semaphore of 1 | 69 376 | the run ends whatever scans fail |
| `filler` | 26 forms: two fields of every kind and a submit button, or an input of type submit | 660 992 | complete unless assisted, answers survive, one press, the call ends or stays at one await without a timeout |
| `response_cache` | 3 calls in 2 processes, 2 keys, no, one or endless time to live, clock to 1 | 423 503 | hits on entries are fresh, all are whole, results are lost only for a cause, every call ends, the memo |
| `apply_jobs` | 2 jobs, 3 tabs per browser, 4 tool calls per attempt | 450 707 | the agent's tab, the indexes of a list, honest statuses, the batch ends or stays at an await without a timeout |
| `attempts_history`, `attempts_submitted_once`, `accounts_mixed_row`, `discovery_aborts` | as the runs above | - | counterexamples: section 6 |

`attempts` lets its three requests arrive in one order (an action constraint): they differ in nothing else, and no
fairness makes a request arrive, so no behaviour is lost but those that rename the requests. `attempts_submitted_once`
stops the clock, so that no lease runs out in it.

Deadlock checking is off in all of them: every model describes a fixed number of requests, and the system
stops when all are answered.

### Why these bounds suffice

* Attempts. Three requests give the interesting pattern of an old worker, the one that took over, and a third
  that reserves while both are alive. With lease 1 and a clock to 1 a lease can be live, and end exactly at
  the timestamp of the next request. Identities share only the deletion of their account, so one identity is
  checked; a lease that is long over and any number of requests are the proofs' part. Three rows let a deletion
  wait for one row with another one erased.
* Accounts. Two values per column make a mixture of two uploads visible; a third address is free, so that two
  POSTs can create the same user; two accounts can swap addresses. The initial users differ in every column.
  One request can be the PUT that gives an address away between the other's lookup and its write, or the
  DELETE.
* Upserts. Three rows in statements of two give one full and one partial statement, so the boundary and an
  empty list occur. Two writers are enough for a cycle of waits;
  longer cycles need a third writer and are covered by `AbortDeadlock` in the same way.
* Discovery. A limit one below the number of tokens, pages of up to two URLs and two scans let a scan meet a
  list that became full while its page was in flight, in the middle of a page. Three candidates in batches of
  two leave a partial last batch; two boards cut a batch in its middle.
* Filler. Forms of two fields of every kind, with the names equal or different, cover the pairwise effects
  there are: a control that appears or is filled in by the page between two steps, a radio group, a hidden name, a
  locator that matches both, a submit button that passes for a text field. `MaxActions`
  3, `MaxFailures` 2 and two tool calls per message reach every way out of the agent, one failure beyond its
  limit included.
* Caches. Two calls of one event loop and one of another process: two writers of one file, a reader beside them, and
  a call of the same process that must not come in between. Two keys let a result land under the wrong one. With a
  time to live of one and a clock to one an entry ends exactly at a lookup. A bare result lies under one key.
* Tabs. Three tabs are the session's, one that a click opens, and one that a site opens or closes meanwhile; four
  tool calls are a list, a switch by it and two more in between or behind. Two jobs show what one leaves to the next.

Bounds that are not the program's: `MaxTime`, `MaxRows`, `PageLength`, `MaxToolCalls`, `MaxTabs`, `MaxJobs`;
`MaxCalls` stands for the limit of the agent library. They are named in the modules and say so.

## 4. Fairness

* `ApplicationAttempts`, `UserAccounts` and `JobUpserts`: weak fairness of the steps of each request that
  has arrived: the event loop schedules a ready task, and PostgreSQL wakes a lock waiter and detects deadlocks.
  For `ApplicationAttempts` it also says two things that its own code does not guarantee: a deletion that has begun
  goes on (`Cascade`; this is the database's), and the operation between the two transactions ends, which is an
  assumption. `CallEnds` shows how far the filler keeps it. Requests are not forced to arrive, crashes and deletions
  not forced to happen, the clock not forced to advance.
* `BoardDiscovery`: weak fairness of each source's and candidate's task and of the run's own steps. Every
  HTTP request has a timeout, and an asyncio semaphore wakes its waiters.
* `GreenhouseFiller`: weak fairness of the one sequential call wherever it is not `AtPage`. Playwright's clicks,
  fills, navigations and the `expect` assertions have a timeout, and so has the client of the model; the end of a
  response (`response.finished()`, `applier/greenhouse_applier.py:392`), the scripts that inspect a page
  (`page.evaluate`, `agent/filler_tools.py:449`) and the count of a locator have none. In the phases that await
  these nothing is promised, and the page's own steps are not fair either. So `CallEnds` says that a call ends or
  stays for ever in one such phase; what it rules out is that the agent's conversation, the passes or the failures
  after the click go on without an end.
* `ResponseCache`: weak fairness of the steps of a call behind its lookup: a function answers or times out,
  and an event loop runs a ready task. Calls need not come, processes need not die.
* `ApplyJobs`: weak fairness of the one coroutine where it is not at an await that may hang (`Hangs`): the scripts
  of the inspecting tools (`utils/browser_tools.py:489`, 669), titles (626), `bring_to_front` (304, 635), a new page,
  the closes and the end of Playwright have no timeout, and nothing in the flow bounds them. Clicks, fills and
  navigations have one, the client of the model too, and the library ends a run that goes on too long. Sites and
  browser are not fair.

Under weak fairness a lock handed out in an unfair order could starve a waiter only if others kept coming;
the number of requests is finite in each model, as it is between two quiet moments of the service.

## 5. Proofs

`ApplicationAttemptsProofs` (any requests, users, jobs, any positive lease, any bound of the clock):

* `TypeCorrect`: type correctness, one step per action.
* `InvariantHolds`: `AttemptsInvariant` is inductive relative to the types. The properties alone are not:
  that at most one row is active survives `ReserveFresh` only because `ActiveIndexFree` guards it, but that
  a *refused* insert can only be blamed on a stale completion (`ReservationsSerialised`) needs
  `AdvisoryLockExclusive`; that a takeover fails a row nobody is completing needs `FoundRowIsLocked`; that a deletion
  erases no row somebody is deciding about needs `ErasedRowsAreLocked`; that a
  worker without its row has lost its lease needs `WorkerHasRowOrLostLease`; and that an insert takes a
  fresh number needs `RowsComeFromInserts`. Steps that leave all rows alone are treated together (`Quiet`),
  reservations in `ReservationsKeepInvariant`, with the numbering in `InsertNumbersTheRow`.
* `OneActiveRowHolds`, `AttemptsNumberedInSequenceHolds`, `ReservationsSerialisedHolds`,
  `AppliedIsDurableHolds`: conjuncts of it. `LiveLeaseExclusiveHolds` follows from two of them: of two
  workers of an identity at most one has an active row, and the other's lease is over.
* `SuccessIsFinalHolds`: the action property, by cases on the step: a succeeded row cannot be found by a
  takeover, and no insert passes the index beside it.
* `LedgerViewHolds`, `ImplementsLedgerHolds`: the refinement. Since an identity has at most one active row, the row
  that the mapping chooses is *the* row, and who has a row has held the identity (`held`); then a reservation is a
  `Claim`, a takeover a `Claim` of an identity whose lease is over, a completion a `Release` or a `Win`, a late
  completion of a lost row a stutter or the `Win` of a former holder, a deletion a `Forget`.
* `OnlyLateReportsRewriteHolds`: how far the counterexample `attempts_history` of section 6 goes. A failed row is
  rewritten only by its own worker, whose lease is over; that worker is then answered, so it happens once; the
  number of the attempt stays, and a success is written only where no other attempt of the identity is in progress
  or succeeded. What an operation itself reported as failed is final (`OwnFailureIsAnswered`).

`JobUpsertsProofs` (any writers, urls, lists of rows, any positive statement size):

* `TypeCorrect`, `LocksExclusiveHolds`.
* `InvariantHolds`: `UpsertsInvariant` adds to the exclusive locks what positions mean: rows before `at` are
  staged, `processed` counts complete statements, and a row of the table is what its writer staged unless
  a later commit replaced it. The step that needs care is the commit, in `CommitExtendsTable`.
* `AnsweredRowsStoredHolds`: from the invariant. `ImplementsAtomicUpsertsHolds`: a commit is one `Upsert`,
  every other step leaves the table and the finished writers alone.
* `NoStandstillHolds` and `WritersNearTheirEnds`: the finite part of `EveryWriterEnds`. Only finitely many writers
  have started (`FinitelyManyStart`). If none of a set of writers that wait within the set could go on, a
  smallest such set would be a circle of waits, for which PostgreSQL ends one of them (`CircleIsDeadlock`). And every
  step brings one writer nearer to its end, in phases and then in rows, and leaves the others where they are.

`UserAccountsProofs` (any requests, users at the start, addresses, profiles and files):

* `InvariantHolds`: `AccountsInvariant`. The three statements about the table are not inductive by themselves.
  What they need is what a session has in hand at each point of its handler (`SessionFits`), that an id a POST
  made up is nobody's before its commit (`FreshIdsUnused`), and what the locks keep others from doing: an UPDATE
  that waits for the index has its row alone (`RowLocksExclusive`), and two POSTs between lock and commit have
  different addresses (`AdvisoryLocksExclusive`). Then a POST about to insert found nobody, unless a PUT moved
  somebody there (`InsertsFoundNobody`), and a row it is about to update is as loaded, gone, or written by a PUT
  (`UpdatesFoundTheRow`).
* `OneAccountPerEmailHolds`, `PostsDoNotClashHolds`, `OnlyReplaceMixesHolds`: conjuncts of it.
  `DeletedStaysDeletedHolds`: the action property, by cases on the step.

`BoardDiscoveryProofs` (any queries, companies, tokens and limits):

* Lemmas about `Kept`, the elements of a sequence at given positions: how many, which, without a repetition when
  the positions differ in them (`KeptFacts`), and position by position (`KeptInTwoParts`). `TakenFacts`: a page
  fills the list and no more, and is used to its end while the list is not full.
* `InvariantHolds`: `DiscoveryInvariant`. Its first half is `CandidatesBounded` and `EvidenceComplete`, which are
  inductive with the types: `TakeUrlsKeeps` is the step of a page. Its second half says that verification works
  its way through the candidates: those before `Done` are judged, those behind the batch are not asked about, the
  boards are the first valid ones among the `Done` (`BoardsFit`), and the counters are theirs (`CountsFit`). The
  step that needs care is `EndBatch`, where the limit may fall anywhere into the batch: `ThreeWays` counts the
  batch by verdicts, `EndBatchCounts` compares what is counted up to the limit with it.
* `CandidatesBoundedHolds`, `EvidenceCompleteHolds`, `ReportMatchesVerdictsHolds`: from the invariant; boards
  behind a full list do not change it (`FirstOfFull`). The last one is about which boards are reported, and that
  none comes twice; the report's order is that of `SortReport`, of which nothing is claimed.

`GreenhouseFillerProofs` (any forms, any budgets of the agents):

* `InvariantHolds`: `FillerInvariant`. The types hold only with the budgets (`BudgetsKept`: a message beyond the
  budget is not acted on), and one press only with what the phases behind it mean (`PressedAtTheEnd`: nothing
  touches the form behind it). What the inspections found outlives what the page does since: a form that was
  complete has right answers in `found`, except in `changed` (`CheckedIsRight`).
* `CompleteUnlessAssistedHolds`: of the press, from `CheckedIsRight`. `AnswersSurviveHolds`, because what a pass has
  to touch does not hold its answer unless the page has filled it in since (`TodoIsWrong`), and another control is
  disturbed only through its radio group. `ImplementsSubmissionHolds`: every step of the call is one of
  `FormSubmission` or none; a click on an input of type submit comes before the press.
* `CallNearsItsEndHolds`: the finite part of the argument for `CallEnds`. Every step of the filler leads to a later
  part of the call, or lowers what is left of this one: the controls of a pass, which do not grow while the page
  shows more, or the messages of an agent. A step of the page changes neither.

`ApplyJobsProofs` (any numbers of tabs, jobs and tool calls):

* `InvariantHolds`: `FlowInvariant`. Tabs, and every list of tabs that a call or the agent holds, are in the order
  of opening (`TabsInOrder`), so what is missing from a list has closed and what is behind it is new. A call under
  way works on the session's tab (`CallsFollowSession`), and the session leaves the tab the agent was told of when
  that tab has closed, under a call that will tell, or when such a call could not bring it to the front (`lost`;
  `SessionStaysWhereTold`). `AttemptsFit` says what phases mean for the statuses.
* `ReportedTabIsCurrentHolds`, `AppliedMeansAnsweredHolds`: from the invariant. The second also says that a job ends
  without an error only when its agent answered and its browser is closed.
  `SwitchFindsListedTabHolds`: while the first tabs of a list are open, they are the browser's first tabs.

`ResponseCacheProofs` (any calls, processes, keys and times to live):

* `InvariantHolds`: `CacheInvariant`. Of one loop one call at a time handles files (`LoopsAreHeld`); a file stays
  with its key whoever writes it (`FileFits`); what is in it is the entry of a call of that key that began to
  store (`EntryFits`); an empty file with a name has a writer at it, or one that failed or died there
  (`EmptyFilesHaveWriter`); a writer's temporary file is there unless another process published it
  (`WritersHaveTemp`).
* `TornOnlyWhileWritingHolds`, `LostResultHasCauseHolds`, `HitsAreFreshHolds`: from these. The last one is about
  entries; a bare result has no age to test. `ImplementsMemoHolds`: a hit recalls what the memo holds, a bare
  result included, a store remembers, everything else forgets or leaves the memo alone.

Each of these invariants was evaluated by TLC on the instance of the component's run before it was proved. The
library states induction over the naturals for operators, which the provers do not instantiate; `NaturalOrder`
has it as facts about sets: a set of numbers that is not empty has a least element, `Ascending`, and of some
subsets of a finite set one holds no other (`SmallestSet`). What the recursive
function in `Kept` is, the proofs take from the existence of a function that satisfies its equation
(`KeepsExists`, `KeptIsLast`).

Assumptions: the named ones of the modules, which TLC evaluates in the runs: limits, batch sizes and leases are
positive numbers, bounds are numbers, null values are none of the others, generated ids are not those of the
users at the start, who have different addresses; queries are not companies; a form is a sequence of controls, of
which only radio buttons have a group. Nothing else is assumed. With them every safety property of every run is
a theorem.

Only model-checked: everything about liveness (`EveryRequestAnswered`, `AbandonedAttemptReleased`,
`EveryRequestEnds`, `EveryWriterEnds`, `DiscoveryEnds`, `EveryCallEnds`, `CallEnds` and `BatchEnds`), because the
prover does not handle it under fairness. For `EveryWriterEnds` and `CallEnds` the measures above are proved; that
a fair step is enabled where they say so is TLC's part.

## 6. Where the code and its documentation disagree

* `attempts_history`. A worker whose lease ran out reports late. Its session still holds `in_progress`, so
  the guard at `transaction/applications.py:167` passes and the row that the takeover had failed is
  rewritten: with another error, or as a success when no new active row is in the way. `README.md:65` says that failed
  attempts remain as history. `ReservationsSerialised` and `AppliedIsDurable` show what this does not break.
* `attempts_submitted_once`. An operation that raises after the click is recorded as failed, and the retry submits
  again, with every lease still running, although `run_application_once` (line 188) promises one idempotent
  application.
* `accounts_mixed_row`. Two replacements of one user that load the same row leave some columns of each.
  The docstrings promise a replacement. `OnlyReplaceMixes` shows that POSTs alone cannot do it.
* `discovery_aborts`. A page count that is neither JSON nor a number ends the whole discovery; the
  docstring at `greenhouse/models.py:140` says that errors of single queries are collected.

Seen while modelling and not stated as a run: a native select is never filled (`agent/filler_tools.py:344`);
every option of a radio group that is not the answer is checked in turn, so the last one wins
(`applier/greenhouse_applier.py:209`); a required control hides another one of the same name (line 294); the
form is not inspected again after the model's assistance (line 416); answers cut off by the agent's budget are
cached as "none" for a week (`agent/application_agent.py:128`); the disk cache loses a computed result when
the store fails, where the Redis cache only logs it, and when two processes store one key at a time
(`utils/disk_cache.py:223`; `LostResultHasCause` says exactly when); browser_upload_file finds no file in the
flow of `applier/flow.py`, which never fills `session.state` (`utils/browser_tools.py:836`); a click that
closes its own tab half a second later is reported as an error although it took effect (line 299); when
`bring_to_front` fails the session has moved and the agent hears only an error (lines 303 and 634; `lost`); an input
of type submit is clicked as if it were a text field, so that a form may be sent half filled
(`agent/filler_tools.py:47`); a response that never ends keeps a call of the filler and its lease for ever
(`applier/greenhouse_applier.py:392`); the lease
defaults to 1800 seconds in `config.py:60` and to 3600 in `README.md:67`.

## 7. Plan

Done, in this order: the idempotency layer and its ledger with proofs, user accounts, board discovery, job
upserts with proofs, the form filler with the agent graph, the caches and their memo, the browser session with its
tools and the flow over it.

Then the proofs of the other components, in the order of section 5: each invariant from what the phases of a handler
and its locks or files mean together, then the properties and the refinement.

Then proofs beyond the properties of the runs, where they say something of their own: what a late report cannot
change, that writers do not stand still, and measures that the steps of a writer and of a filler call lower.

Next: the same for the other components.

* Measures for a discovery run, an apply flow and the calls of the caches.
* How far the other counterexamples of section 6 go: which columns of a user two replacements can mix, and when a
  form may be submitted again.

## 8. Not modelled, and why

* `agent/react_job_agent.py`, `agent/mixed_job_agent.py`. `apply_for_job` builds its context (line 252) from
  tools of which eight are plain coroutine functions, where `data/adt.py:95` declares a list of `BaseTool`:
  the validation raises on every call, and nothing in the service calls it. Behind that, `evaluate` (line 104)
  builds an update without its required field `messages`. A model of the graph would show states that the
  program cannot be in.
* `agent/nodes.py`, `data/adt.py`. The nodes of the stage machine are never assembled into a graph.
* `utils/bucket_db.py`. Nothing constructs a table. An append downloads, changes and uploads without a lock; what
  that would break depends on clients that do not exist.
* What a language model, a browser page, Greenhouse or Common Crawl answers: an input, chosen freely by the
  models among the answers the code tells apart.
* The text of prompts, the normalisation of names and urls (`canonical_job_url`, hashing): equality of
  identities stands for it. The dropdown regulator matches by regular expressions alone; which option it
  takes is an input.
* A rename in the disk cache that fails with another error than a missing file (`utils/disk_cache.py:223`): like a
  failing write it leaves the call, and the temporary file stays.
* The pool of connections (listed as a hazard), the number of bind parameters of a statement, which its column
  defaults add to (`db/upsert.py:98`), and the event loop that a synchronous client blocks in a sync
  (`greenhouse/jobs.py:133`): resources, but not state of any model.
* Reads (GET of users, jobs, boards), exports and command-line entry points change no state.
* Start-up, configuration, logging, telemetry, health probes, middleware: no protocol state.
* `utils/decorators.py`: a bounded retry loop around one call.
* Migrations repeat the table definitions that the modules take from `db/*_models.py`.
