# The collections agent in TLA+

This directory is the verification project of the Stripe collections agent. The
agent reads overdue invoices, drafts collection letters and queues them as
*proposals*; a human decides each; an approved letter is sent by a separate
*action gateway* that trusts nobody: it checks a signed token, the shared
database and the letter itself before it sends. What can go wrong lies between
the steps - two tabs, two gateway threads, a page's sweep, a timeout, a killed
process, a start-up beside a container that still serves - and that is what the
modules model.

`tlc -workers 2 -config X.cfg M` runs a configuration, `tlapm M.tla` checks a
module's proofs, `PROJECT.json` lists runs, mutants, findings, hazards, theorems
and the source lines each definition stands for.

## The system

| Part | State it keeps | Operations |
| --- | --- | --- |
| Decision handlers, `app/services/proposals.py`, `app/approval/` | rows of `proposals`, `approvals` | approve, save_edit, reject, the unapproved probe |
| Gateway client, `app/gateway_client.py` | none | one POST with a fresh idempotency key; its answer or a timeout |
| Action gateway, `gateway/` | `token_nonces`, `executions`, the outbox | seven checks, claim, deliver, finish, replay |
| Tables, `shared/models.py` | the SQLite file both containers open | unique constraints, the partial index on pending proposals |
| Sweeps, `app/store/repositories.py` | `proposals`, `runs` | expire, settle, abandon |
| Audit chain, `shared/audit.py`, `shared/db.py` | `audit_events` | append, verify_chain; transactions and the retry of write conflicts |
| Runs, `app/runner.py`, `app/agent/loop.py`, `app/main.py` | `runs`, `run_steps`, a thread pool; the conversation with the model | start, turns, tool calls, the endings; shutdown and start-up |
| Tools, `app/agent/tools/` | the facts a run has read | four reads, one draft |
| Guardrails, `app/agent/guardrails.py` | none | review of a letter against its facts |
| Stripe reads, `app/stripe_client/read.py` | a customer cache per run | list, get, history; retry on a rate limit |
| Event stream, `app/api/v1.py`, `run_detail.html` | a cursor and rows per tab | poll steps, poll status, done; draw, reconnect, reload |
| Pages and queries, `app/web`, `app/api/queries.py` | none | read, and sweep on read; names, payment history and folded rows from `run_steps` |
| Start-up and migration, `shared/schema.py`, `docker-compose.yml` | the schema; who is healthy | create, alter, index; then record it in the chain; then serve |
| Adapters, `gateway/email_adapter/` | files, SMTP, HTTP | send |

The parts meet in three places. The **database file** is shared by both
containers and by all threads of each: SQLite has one write lock, taken at the
first write of a transaction, so what a handler selected before is read without
any lock. The **wire** between the app and the gateway carries a token, a
proposal, a hash and an idempotency key; an answer may come too late. The
**stream** and the pages read what the others commit, and the pages also sweep.

Hard behaviours, all of them in the models: reads that are stale when their
writes commit; requests replayed, lost, or answered after the caller gave up;
threads and processes that die between two commits; unique constraints as the
only arbiter of two racing writers; retries that must not send twice; runs whose
thread is gone.

## Modules

| Module | Models | Correspondence |
| --- | --- | --- |
| `Tables` | the shared rows, tokens, messages | one variable per column or table the properties tell apart; no actions |
| `Decisions` | the app's approval path | per operator a handler: `Submit` (expire_stale_proposals' SELECT), `LoadPending`, `Commit`, `Post`, `HearAnswer` or `Timeout`; `DecideUnderLock` when the sweep wrote and so holds the lock; `SweepRead`/`SweepWrite` for pages |
| `Gateway` | the gateway | per thread one action for each SELECT of verify.py, then `Claim`, `Deliver`, `Finish`, or `AnswerFromTheWinner` |
| `Boundary` | `Decisions` and `Gateway` over `Tables` | adds the replayed request, the lost request, the thread that dies; states the properties |
| `SendContract` | what the boundary promises | grant a letter under a fresh nonce; send a granted letter once |
| `MCBoundary` | instances | `RunOf`, symmetry |
| `BoundaryProofs`, `SerialProofs` | theorems about `Boundary`, and about its serial setting | see below |
| `AuditChain`, `MCAuditChain` | the hash chain and its writers | `AppendHeld` inside a transaction that has the lock, `ReadTail`/`InsertFirst` where the append is the first statement, `Busy` for SQLITE_BUSY, `Retry` for run_in_transaction, `Alter` for a file changed by hand |
| `AuditProofs` | theorems about `AuditChain` | see below |
| `Drafting`, `MCDrafting` | one run's tools, Stripe and the review | a list call is `StartList`, `ReadPage`, `ListClocks`, `ListClockCustomers`, a `ScanCustomer` each and `FinishList`, which filters, sorts, cuts and harvests; `StartGet`/`FinishGet`; `RateLimited` and `StripeError` for every request; `Propose` with the tool's refusals in their order; `Pay`, `ChangeAddress`, `Tomorrow`, `Settle` are what changes meanwhile |
| `DraftingProofs` | theorems about `Drafting` | see below |
| `StartUp`, `MCStartUp` | start-ups over the chain: app, gateway and scripts on one file, while threads of what serves append | `LookForTables`, `Create`, `ReadColumns`, `AddColumn`, `ReadIndexes`, `CreateIndex` are the statements of `ensure_schema`, each its own commit; `DatabaseLocked` is a busy timeout there; `BeginRecord`, `RecordStep` are `init_schema_and_audit`'s unit; `Start` waits as `depends_on` says; `Kill`, `Undo` for a process that dies and its rollback; `ThreadStep`, `ByHand` are `AuditChain`'s actions |
| `StartUpProofs` | theorems about `StartUp` | see below |
| `AgentRuns` | runs, pool, loop, restarts | every `session_scope` of the loop is a step; `Raise` sends a failed one to the except clause that catches it, or to none |
| `RunProofs` | theorems about `AgentRuns` | see below |
| `Transcript`, `MCTranscript` | one run's conversation, its steps, and their readers | `Answer`, `Exceeded`, `PersistCall`, `Execute`, `Fail`, `Close` are `run_agent`; `payment_history_seen_by_the_agent`, `transcript_index`, `step_about` and `fold_results_into_calls` are functions of the steps; `OpenPage`, `Poll`, `ReadStatus`, `Reload`, `Reconnect` are a tab and `stream_run_events`; `Drop` cuts a connection, `Kill` and `Restart` the process |
| `Counting` | no code: the least-number principle, and computations along a sequence | used by `DraftingProofs` and `TranscriptProofs` |
| `TranscriptProofs` | theorems about `Transcript` | see below |

A letter stands for its whole payload and for its SHA-256 hash, for the code
writes the two together. A token is the record of its claims; the model has no
tokens the app did not sign, so checks 1 and 2 show as `ReadNonce`'s guard on
expiry alone. A deadline that passes is a step (`Lapse`, `ExpireToken`). In
`AuditChain` a hash is the record of what it hashes, which is what collision
freedom means. In `StartUp` the schema is the set of tables, columns and indexes
that a file has of those the models declare; its refinement of `AuditChain` is
by shared actions, and proved. In `AgentRuns` a transcript is the sequence of its
steps' types; what a tool answers and what a letter says are choices. `Transcript`
has one run's steps with what the pages look for in them: the tool, whom a call
is about, its id, whether it failed, and the names and the history it returned; a
customer stands for its one invoice too, and a call's ids are unique in a turn
only, which is all the loop relies on. `Drafting` has what tools and letters say
for one run: a text is reduced to what the guardrails look for in it (amounts,
payment links, invoice numbers, bare numbers, missing words, forbidden claims),
in the subject and in the body; a link is reduced to its invoice and the read
that issued it, a date to a day. An invoice has a customer of its own, and all
test-clock customers are on one clock. The list's stable sort and its cut are
stated by places: a reading is shown when fewer than `limit` wanted ones are
ahead of it (`Ahead`: larger, or equal and read earlier), and Stripe's order
likewise. Two invoices of one second have an order too, so `Created` is a number
of its own for each.

## Runs

| Run | Question | Bounds, and why they are enough |
| --- | --- | --- |
| `races` | Do the boundary's promises hold when everything races? `TypeOK`, `SentAsApproved`, `SuccessIsReal`, `SettledMeansDecided`, `ImplementsContract` | two operators, two letters, two threads, two visits of one proposal: two of everything that races for one row. All four kinds of decision and a sweep |
| `serial` | What does a decision at a time add? `OneSendPerNonce`, `SentIsOnRecord`, `OneSendPerProposal`, `TerminalIsFinal`, `DecidedLetterFrozen` | one replay under any of three keys, one fault, two threads: a request, its duplicate and a crash between any two of their steps |
| `live` | Are claims finished, requests answered, waiting runs settled? | one decision and a replay on two threads, no fault, no symmetry |
| `two_approvals`, `stale_view`, `told_nothing_sent` | three sentences of the repository that the code does not keep | the smallest instance that shows each |
| `start_up` | Does a service that serves have the whole schema and its migration on record, wherever start-ups died? `STypeOK`, `ServesFullSchema`, `NobodyMigratesTwice`, `ServedIsRecorded`; and is the chain sound with start-ups among its writers? `ChainIntact`, `AllOrNothing`, `AlterationLocated`, `AppendOnly` | gateway and app, a script, a thread in each service: a writer of each kind, so that one can lose to another and again to a third; three transactions; two tables, of which a file may lack one, or a column, or an index, or a column no ALTER can add; one kill, anywhere; one alteration by hand |
| `audit_conflicts` | `ConflictsRetried` is not kept | two writers |
| `agent_runs` | limits, transcript, queue, ownership, endings: `TypeOK`, `WithinLimits`, `ResultsFollowCalls`, `StatusMatchesQueue`, `Owned`, `EndIsFinal`, `RunsEnd` | two runs on two threads, one invoice and one letter, so that two drafts race for the pending index and for the cap; two turns and two calls, so that each limit is met in the middle of a turn and at its end; two faults and two stops, so that the except clause fails as well as what it catches, and a restart is stopped again |
| `agent_always_ends` | "a run always reaches a terminal status" is not kept | a pool of one, one fault, one stop |
| `transcript` | Do the pages say what happened? `HistoryIsWhatTheAgentSaw`, `EveryCallAnswered`, `NothingLost`, `NamesStayKnown`, `PageEndsAsTheRecord`, `TypeOK` | two customers, of whom a list names one; two turns of up to two calls, three calls in all: parallel calls, the same id in two turns, the budget met in the middle of a turn. Two scenes: an unwatched run that may ask for anything and fail twice; a run watched by a tab, with a text in each turn and one connection or process cut |
| `drafting` | `TypeOK`, `FloorUnlessLookedUp`, `NothingElseLeftOut`, `AddressOnRecord`, `QueuedLettersAreReviewed`, `CallsEnd` | three invoices and a page of one: the largest is the oldest and past the page while a small newer one is open, the third is on a test clock and has no address at first; a threshold below the floor, limits that cut and that leave room, with and without a least amount; two attempts, so that one is retried and one is the last; a cap of one and a decision; one day, one payment or change of address; a letter for each check, and one with what no check looks for |

`CHECK_DEADLOCK FALSE` everywhere but in `drafting`: the bounds on visits,
replays, faults, stops, kills and attempts end every behaviour. The inductive
invariants of the proofs (`IInv`, `SerialInv`, `RunInv`, `DraftInv`, `TranscriptInv`
and those of the chain and of start-ups) were model-checked on these instances before they
were proved; being theorems, they are not in the runs.

### The serial setting

`SerialSpec` lets one handler or sweep at a time be between its read and its
commit (`OneWindow`: the tabs and pages in `OpenWindows` are at most one). The code does not enforce this; it is what its status diagram describes
and what one operator with one tab does. `races` shows what holds without it,
`serial` what holds only with it, `two_approvals` that the difference is real.

### Fairness

`Boundary!Fairness`: a handler, a gateway thread and a page that have started go
on: none of them waits for anything but the database lock, held for one commit.
Nobody must approve, replay or look at a page at any given time, except that
`WaitingRunsHeal` assumes that pages are read (`SweepRead`), because the code
settles there. `live` has no faults: a thread that dies leaves its execution
pending for ever, which `SentIsOnRecord` covers.

`AgentRuns!Fairness`: threads run, because a model's answer is waited for
`RUN_TIMEOUT_SECONDS` at most; the pool takes up work; a process that ends is
started again (`restart: unless-stopped`) and start-up runs to its end. Nothing
forces an operator to decide, so `RunsEnd` ends at `awaiting_approval`.
`Transcript!Spec`: the run ends, as `RunsEnd` shows where no transaction fails; a process that died is
started again; a tab that is open polls, reconnects (EventSource does by itself)
and reloads 900 ms after "done". A reload that meets no server waits for one in
the model; a browser's user would press the key again. `Drafting!Spec`: the
thread of a run goes on with the call it started, and the Stripe client's own
timeout makes every request end in an answer or an error; which of them is open
at every attempt. Weak fairness is enough everywhere: a step once enabled stays so until taken or until the process dies.

## What is proved

For every value of the constants - any number of proposals, letters, operators,
threads, nonces, keys, replays, faults, writers, attempts, scripts, tables, kills.

`BoundaryProofs`: `TypeCorrect`, `SendsAreApproved`, `ApprovalsAreSpentOnce`,
`SendsAreOnRecord`, `SuccessesAreReal`, `ClaimsComeInPairs`,
`SettledRunsAreDecided`, and `BoundaryImplementsContract`, that the app and the
gateway together refine `SendContract`. None of the safety properties is
inductive: that a letter was approved follows from what its thread has in hand
when it sends. The inductive invariant `IInv` adds

* `InFlight`: tokens in requests, handlers and threads are ones the app signed;
* `NoncesUnique`: a nonce is in one token, and each approval's nonce is in one;
* `ApprovedInHand`: past check 6 a thread holds the letter of its token, and the
  approve row stays on record, whatever is edited meanwhile;
* `ClaimHeld`: from the claim to _finish a thread owns its key and its nonce,
  nobody else does, and nothing has been sent under that nonce.

One lemma per action shows that `IInv` is preserved; the refinement maps
`Approve` to the contract's approval, a delivering `Deliver` to its send, and
everything else to a stutter. The proofs rest on the constants' assumptions in
`Tables`, `Decisions` and `Boundary`: `RunOf` is a function, NULL is no value,
the bounds are natural numbers.

`AuditProofs`: `TypeCorrect`, `ChainAlwaysIntact` and `NothingRewritten`, from
an inductive invariant that says who holds the write lock, that the holder's
uncommitted rows continue the committed chain, and that a writer without the
lock has read a tail that may be stale, so that only the constraints keep its
row out. On top of it, `ActsComeWithTheirEvents`, from `EInv`: units under way
have acts of their own, and the rows in hand are their act's events so far. And
`AlterationsAreLocated`, from `Located`: the rows before the alteration stay as
they were, and where a row was deleted (`Gap`) a writer with the old tail in hand
may put another, good by itself, but not the one that the next row hashes, whose
act is committed.

`StartUpProofs`: `StartUpImplementsChain`, that every step of a start-up is a step
of `AuditChain` or leaves the chain alone, hence `ChainIntactThroughStartUps`;
`StartUpTypeCorrect`, `NobodyServesHalfASchema` and `OnlyTheGatewayMigrates`, for
any tables, columns, indexes and old files. What an earlier start-up did before
it died is in the file only, so the inductive invariant `SchemaInv` says, for each
process, what it has seen to by the point where it is (`Progress`: all tables
before this one, this one's columns), that only the gateway ever has anything to
do and none of it is done yet (`Alone`), and that whatever else runs started
when the gateway had been healthy (`Gated`). `MigrationsAreRecorded` adds, in
`RecordInv`, that a reported column was in the file before and is in no other
report, and that a start-up that records has its unit under way, whose commit is
the only way on to serving. All this rests on the assumptions of
`StartUp` and on one process per service, which the compose file gives.

`SerialProofs`, about `SerialSpec`: `SerialSendsOnce`, `SerialStatusesAreFinal`
and `SerialLettersAreFrozen`. A serial step is a step of `Next`, so `IInv` holds
here too. `SerialInv` adds that what the one open tab or page has read is still
so (`ViewsCurrent`), although no UPDATE compares the status it replaces; hence a
proposal has one approve row, which alone moves it towards a send
(`ApprovedOnce`), one nonce, and by `OneSendPerNonce` one letter. A thread with a
claim holds that approval and finds the proposal approved, a finished proposal
has its nonce used up (`ClaimsOpen`): so `_finish`, which compares nothing either,
never replaces a terminal status. From the same assumptions as `BoundaryProofs`.

`RunProofs`: `RunTypesCorrect`, `RunsKeepTheirLimits`, `CallsHaveResults`,
`StatusesMatchTheQueue`, `RunsAreOwned` and `EndsAreFinal`, for any number of
runs, invoices, pool threads, turns, faults and stops. The pages see rows and the
loop works by its local variables, so the inductive invariant `RunInv` says, for
each point a run's thread can be at, what `runs.status`, the transcript and the
letters then look like (`Fits`): the loop's counter is the number of calls in the
transcript, a call without a result is the last step of a thread that awaits it
or has lost its run, a thread about to insert a letter has the room it saw,
whatever is decided meanwhile. `ThreadsOfProcess` adds who may be in the pool's
queue and which threads a stopped process still has, and `OnePending` is the
partial index. All from `LimitsAssumption`.

`DraftingProofs`: `DraftTypesCorrect`, `FloorHolds`, `ListsLeaveOutNothingElse`,
`LettersGoToCustomers` and `QueueIsReviewed`, for any account, floor, page size,
number of attempts, calendar and letters. The inductive invariant `DraftInv` says
where what a run knows comes from: an address was on the customer's record in
this run, facts below the floor were looked up by get_invoice (`Recorded`), a
list reads no invoice twice, because the scan reads only what the first page
cannot show (`ReadOnce`), and at each point of its requests it has read every
invoice that is still open but for those a full page precedes, those still to be
scanned and a scan skipped (`ReadSoFar`). That the page stops at `PageSize` newer
ones and the cut at `limit` larger ones are facts about places in a finite ordered
set: whoever comes later has more before it, and each place up to the number of
elements is taken (`EveryPlace`, by the least-number principle). A queued letter
is right for the facts at its review, which its payload keeps (`ReviewIsExact`).
From `DraftingAssumption` and, for the review, `LettersAssumption`.

`TranscriptProofs`: `TypesHold`, `HistoriesAreAsSeen`, `CallsAreAnswered`,
`StepsAreShown` and `NamesAreKept`, for any number of customers, turns, parallel
calls, failures, tabs and cuts, and for records of any length. The properties
compare what a reader computes from all steps (the names, a payment history, the
rows) with what happened, so each such computation is shown to take one step of
its own for each step of the record (`HistoryAppends`, `TellAppends`,
`GiveAppends`, `LearnAppends`), and folding or drawing one step more to keep what
a page shows. The inductive invariant `TranscriptInv` adds where a turn under way
stands, that its last message asks for the calls that have a result in hand and
then for those still to be made (`InTurn`); that while a payment history is
awaited its reader has read of whom, by adjacency, and under which id (`Awaited`);
and that the row a page would put the next result in is an empty call's
(`OpenCall`), else a step repeated after a reconnection could replace an answer.
From `TranscriptAssumption`.

`Counting` has what stands in for induction. The library's induction theorems
take an operator as a parameter, which the provers cannot instantiate; the
least-number principle, derived from the well-foundedness of the natural numbers,
is first-order. From it follows that a step-by-step computation along a sequence
has a result and only one (`Computed`, `AgreeUpTo`), which opens the recursive
function in `Transcript!Through` to proof. SelectSeq and SortSeq have no
definition the prover could expand, so what is proved about is stated without them.

Only model-checked: liveness (`PageEndsAsTheRecord`, `RunsEnd`, `CallsEnd` and the
three of `live`), for which the prover has neither fairness nor ENABLED.

## Where the repository says otherwise

Each is a run that TLC must find violated; `PROJECT.json` quotes the lines.

* Two approvals of one proposal can both commit and two letters leave
  (`two_approvals`; knowledge-base note 05 says "only once").
* An untouched letter is approved as stored, not as read (`stale_view`).
* "Nothing was sent." after a read timeout (`told_nothing_sent`).
* A start-up that loses the race for the chain's tail is not retried: SQLite
  names the primary key (`audit_conflicts`; shared/models.py:254, db.py:122).
* A transaction that fails in `_execute`'s last resort leaves the run
  unfinished until the next start-up (`agent_always_ends`).

Met while reading and not runs of their own:

* The operator's floor on days overdue is kept by the list tool alone; a draft's
  facts may come from get_invoice, which reads any invoice (read_tools.py:38, 64;
  runner.py:122 says "it cannot go under it"). `FloorUnlessLookedUp` says
  what is left of it.
* A start-up that dies after an ALTER, or loses the race for the chain's tail,
  leaves a change that no event ever lists, though schema.py:11 says what was done
  is appended; a script that calls ensure_schema records nothing.
  `ServedIsRecorded` says what holds.
* schema.py:13-15 announces SchemaDrift for a removed column, a changed type or a
  new constraint; the code warns of removed columns (91-99), and compares neither
  types nor constraints.
* "done" may overtake a run's last steps (v1.py:120-129): the status is read after
  the steps. The page reloads; another consumer of the stream would miss them.
* A reconnecting stream starts over from the page's cursor (run_detail.html:93,
  v1.py:104), so an open page may show steps twice, or a first result under
  another call, until it reloads. `NothingLost` and `PageEndsAsTheRecord` hold.
* A run's own max_proposals reaches the prompt; the tool enforces the service's
  cap (runner.py:64; models.py:71-73 says otherwise).
* run_timeout_seconds bounds a request and not a run (config.py:38).
* A body edited by the operator is approved without the letter's review
  (proposals.py:99).
* Only the first page of overdue invoices, the newest, is read and sorted
  (read.py:364-370): past it an invoice is left out whatever its amount, though
  read.py:389 says "Largest first". `NothingElseLeftOut` has this as one of the
  three reasons for leaving an invoice out; in `drafting` the largest is left out.
* The letter's review announces that "every money amount, URL and invoice number
  in the body must be one this system actually retrieved" (guardrails.py:22-24;
  317 speaks of identifiers). It compares amounts and links (325-375) and no
  invoice number: the letter must have its own (280) and may have others. And the
  subject is searched for forbidden claims only (421-423), so an amount or a link
  in it may be anything. `QueuedLettersAreReviewed` claims neither, and in
  `drafting` a letter with another invoice's number in the body, and its amount
  and link in the subject, is queued.
* A raw minor-unit amount is looked for from four digits on (guardrails.py:363).

## Not modelled

The guardrails' regular expressions; the customer cache and what a payment
history says (they only inform the agent, who may write anything); partly paid
invoices (the letter quotes amount_due); the pages' lists and counters, which are
single SELECTs, with the sweeps that precede them in `Decisions`; prompts,
rendering, amount formatting; settings, the import and credential guards; mail
transports; sending an invoice through Stripe; data scripts: text, pure I/O or
static properties with tests of their own. The columns of the schema are sets of
names: types, defaults and the text of the DDL are not compared, as the code does
not compare them either. The components list in `PROJECT.json` says it part by
part.

## Plan

1. Done: the boundary with its contract, its serial setting and their proofs; the
   audit chain and start-ups with theirs; the runs of the agent and `RunProofs`;
   `Drafting` and `DraftingProofs`; `Transcript`, from the model's words to the
   operator's page, and `TranscriptProofs`. Every safety property that a run
   checks is a theorem.
2. An abstract life of a run (queued, running, ended once) that `AgentRuns`
   refines.
