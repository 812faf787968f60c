----------------------------- MODULE AgentRuns -----------------------------
(***************************************************************************)
(* The life of the agent's runs: app/runner.py's thread pool, the loop of  *)
(* app/agent/loop.py, the rows both leave in runs, run_steps and proposals *)
(* (app/store/repositories.py), and the process that stops, dies and       *)
(* restarts under them (app/main.py).  Transcript has what the steps say   *)
(* and who watches.                                                        *)
(*                                                                         *)
(* Every session_scope is a step of its own, and may raise: "database is   *)
(* locked".  A turn of the model is any number of tool calls; a call is a  *)
(* READ, a DRAFT for some invoice, or one that is refused.  What a letter  *)
(* must look like to be accepted is a choice here.  The model's thoughts   *)
(* and messages are stored as calls are and left out; a turn whose message *)
(* cannot be stored is one the model's client raised in.                   *)
(***************************************************************************)
EXTENDS Naturals, Sequences, FiniteSets

CONSTANTS
    Runs,
    Invoices,
    PoolSize,       \* max_concurrent_runs
    MaxTurns,       \* run_agent's max_turns
    MaxToolCalls,   \* max_tool_calls_per_run
    MaxProposals,   \* max_proposals_per_run
    MaxCalls,       \* bounds the tool calls of one turn
    MaxFaults,      \* bounds the transactions that raise
    MaxStops        \* bounds how often the process ends

ASSUME LimitsAssumption ==
    /\ PoolSize \in Nat \ {0}
    /\ {MaxTurns, MaxToolCalls, MaxProposals, MaxCalls, MaxFaults, MaxStops} \subseteq Nat

VARIABLES
    phase,          \* the app's process
    runStatus,      \* runs.status; "none" without a row
    steps,          \* run_steps of each run, by seq: their types
    proposals,      \* rows of proposals
    queue,          \* the pool's work queue
    thread,         \* what is executing each run
    faults, stops

vars == <<phase, runStatus, steps, proposals, queue, thread, faults, stops>>

Terminal == {"completed", "failed", "awaiting_approval"}
Unfinished == {"queued", "running"}

NoThread == [pc |-> "gone", turns |-> 0, tools |-> 0, left |-> 0, outcome |-> "none"]

Init ==
    /\ phase = "up"
    /\ runStatus = [r \in Runs |-> "none"]
    /\ steps = [r \in Runs |-> <<>>]
    /\ proposals = {}
    /\ queue = <<>>
    /\ thread = [r \in Runs |-> NoThread]
    /\ faults = 0
    /\ stops = 0

tables == <<runStatus, steps, proposals>>
others == <<phase, queue, faults, stops>>

-----------------------------------------------------------------------------
(* The tables *)

ProposalsOf(r) == {p \in proposals : p.run = r}

PendingOf(r) == {p \in ProposalsOf(r) : p.pending}

(* ux_proposals_one_pending_per_invoice.                                   *)
IndexAccepts(i) == \A p \in proposals : p.pending => p.invoice # i

SetStatus(r, st) == runStatus' = [runStatus EXCEPT ![r] = st] /\ UNCHANGED <<steps, proposals>>

AppendStep(r, type) ==
    steps' = [steps EXCEPT ![r] = Append(@, type)] /\ UNCHANGED <<runStatus, proposals>>

CreateProposal(r, i) ==
    /\ proposals' = proposals \cup
           {[run |-> r, n |-> Cardinality(ProposalsOf(r)) + 1, invoice |-> i, pending |-> TRUE]}
    /\ UNCHANGED <<runStatus, steps>>

(* Mutant: a run is settled whatever is pending. *)
SettleAll == [r \in Runs |-> IF runStatus[r] = "awaiting_approval" THEN "completed"
                             ELSE runStatus[r]]

(* settle_run_if_decided, of every run that waits.                         *)
Settled == [r \in Runs |-> IF runStatus[r] = "awaiting_approval" /\ PendingOf(r) = {}
                           THEN "completed" ELSE runStatus[r]]

-----------------------------------------------------------------------------
(* POST /v1/runs and the pool *)

StartRun(r) ==
    /\ phase = "up" /\ runStatus[r] = "none"
    /\ SetStatus(r, "queued")
    /\ thread' = [thread EXCEPT ![r].pc = "created"]
    /\ UNCHANGED others

Submit(r) ==
    /\ thread[r].pc = "created"
    /\ queue' = Append(queue, r)
    /\ thread' = [thread EXCEPT ![r].pc = "submitted"]
    /\ UNCHANGED <<phase, faults, stops, tables>>

Working == {r \in Runs : thread[r].pc \notin {"gone", "created", "submitted"}}

TakeUp ==
    /\ phase = "up" /\ queue # <<>> /\ Cardinality(Working) < PoolSize
    /\ queue' = Tail(queue)
    /\ thread' = [thread EXCEPT ![Head(queue)].pc = "start"]
    /\ UNCHANGED <<phase, faults, stops, tables>>

-----------------------------------------------------------------------------
(* runner._execute and loop.run_agent *)

Goto(r, pc) == thread' = [thread EXCEPT ![r].pc = pc] /\ UNCHANGED others

Ends(r) == thread' = [thread EXCEPT ![r] = NoThread] /\ UNCHANGED others

(* Out of the loop: its counters are not read again. *)
Leave(r, pc) == thread' = [thread EXCEPT ![r] = [NoThread EXCEPT !.pc = pc]] /\ UNCHANGED others

(* Without a key for the model the run fails here; without one for Stripe  *)
(* build_run_context raises.                                               *)
Begin(r) ==
    /\ thread[r].pc = "start"
    /\ \E pc \in {"no model", "crashed", "running"} : Goto(r, pc)
    /\ UNCHANGED tables

NoModel(r) == thread[r].pc = "no model" /\ SetStatus(r, "failed") /\ Ends(r)

SetRunning(r) == thread[r].pc = "running" /\ SetStatus(r, "running") /\ Goto(r, "turn")

(* Mutant: one turn too many. *)
OutOfTurnsLate(r) == thread[r].turns > MaxTurns

OutOfTurns(r) == thread[r].turns >= MaxTurns

(* The model asks for `left` calls, or has finished.                       *)
Turn(r) ==
    /\ thread[r].pc = "turn" /\ ~OutOfTurns(r)
    /\ \E left \in 0..MaxCalls :
         thread' = [thread EXCEPT ![r] = [@ EXCEPT !.pc = IF left = 0 THEN "count" ELSE "call",
                                                   !.turns = thread[r].turns + 1,
                                                   !.left = left]]
    /\ UNCHANGED <<others, tables>>

NoTurnLeft(r) ==
    /\ thread[r].pc = "turn" /\ OutOfTurns(r)
    /\ Leave(r, "guardrail") /\ UNCHANGED tables

(* LLMUnavailable, or anything else raised before the first call.          *)
ModelRaises(r) ==
    /\ thread[r].pc = "turn" /\ ~OutOfTurns(r)
    /\ Leave(r, "fail") /\ UNCHANGED tables

OutOfCalls(r) == thread[r].tools >= MaxToolCalls

NoCallLeft(r) ==
    /\ thread[r].pc = "call" /\ OutOfCalls(r)
    /\ Leave(r, "guardrail") /\ UNCHANGED tables

Call(r) ==
    /\ thread[r].pc = "call" /\ ~OutOfCalls(r)
    /\ AppendStep(r, "tool_call")
    /\ thread' = [thread EXCEPT ![r] = [@ EXCEPT !.pc = "tool", !.tools = thread[r].tools + 1]]
    /\ UNCHANGED others

(* registry.execute: an answer or a ToolFailure, a draft that gets as far  *)
(* as the cap, or an exception nobody foresaw.                             *)
UseTool(r) ==
    /\ thread[r].pc = "tool"
    /\ Leave(r, "fail") \/ \E pc \in {"result", "cap"} : Goto(r, pc)
    /\ UNCHANGED tables

(* Mutant: the letters still pending are counted. *)
CapReachedPending(r) == Cardinality(PendingOf(r)) >= MaxProposals

CapReached(r) == Cardinality(ProposalsOf(r)) >= MaxProposals

(* Past the cap the letter is reviewed, and refused or on its way.         *)
CheckCap(r) ==
    /\ thread[r].pc = "cap"
    /\ \E pc \in IF CapReached(r) THEN {"result"} ELSE {"result", "create"} : Goto(r, pc)
    /\ UNCHANGED tables

Propose(r, i) ==
    /\ thread[r].pc = "create"
    /\ IF IndexAccepts(i) THEN CreateProposal(r, i) ELSE UNCHANGED tables
    /\ Goto(r, "result")

(* Mutant: the result of a call is not persisted. *)
ResultUnrecorded(r) ==
    /\ thread[r].pc = "result"
    /\ thread' = [thread EXCEPT ![r] = [@ EXCEPT !.left = thread[r].left - 1,
                                                 !.pc = IF thread[r].left = 1 THEN "turn"
                                                        ELSE "call"]]
    /\ UNCHANGED <<others, tables>>

Result(r) ==
    /\ thread[r].pc = "result"
    /\ AppendStep(r, "tool_result")
    /\ thread' = [thread EXCEPT ![r] = [@ EXCEPT !.left = thread[r].left - 1,
                                                 !.pc = IF thread[r].left = 1 THEN "turn"
                                                        ELSE "call"]]
    /\ UNCHANGED others

Guardrail(r) == thread[r].pc = "guardrail" /\ AppendStep(r, "message") /\ Goto(r, "fail")

Fail(r) == thread[r].pc = "fail" /\ SetStatus(r, "failed") /\ Goto(r, "fail count")

FailCount(r) == thread[r].pc = "fail count" /\ UNCHANGED tables /\ Ends(r)

(* Mutant: a run that proposed nothing waits, too. *)
OutcomeWaiting(r) == IF r \in Runs THEN "awaiting_approval" ELSE "completed"

Outcome(r) == IF ProposalsOf(r) = {} THEN "completed" ELSE "awaiting_approval"

Count(r) ==
    /\ thread[r].pc = "count"
    /\ thread' = [thread EXCEPT ![r] = [NoThread EXCEPT !.pc = "finish", !.outcome = Outcome(r)]]
    /\ UNCHANGED <<others, tables>>

Finish(r) == thread[r].pc = "finish" /\ SetStatus(r, thread[r].outcome) /\ Ends(r)

(* runner._execute's last resort.                                          *)
MarkCrashed(r) == thread[r].pc = "crashed" /\ SetStatus(r, "failed") /\ Ends(r)

(* Where an exception goes: to run_agent's except clauses, from there and  *)
(* from outside its try to runner._execute's, and from that one nowhere.   *)
InTry == {"call", "cap", "create", "result"}

OutsideTry == {"running", "guardrail", "fail", "fail count", "count", "finish"}

LastResort == {"no model", "crashed"}

Raise(r) ==
    /\ faults < MaxFaults
    /\ faults' = faults + 1
    /\ \/ /\ thread[r].pc \in InTry /\ (thread[r].pc = "call" => ~OutOfCalls(r))
          /\ thread' = [thread EXCEPT ![r] = [NoThread EXCEPT !.pc = "fail"]]
       \/ /\ thread[r].pc \in OutsideTry
          /\ thread' = [thread EXCEPT ![r] = [NoThread EXCEPT !.pc = "crashed"]]
       \/ /\ thread[r].pc \in LastResort
          /\ thread' = [thread EXCEPT ![r] = NoThread]
    /\ UNCHANGED <<phase, queue, stops, tables>>

ThreadStep(r) ==
    \/ Begin(r) \/ NoModel(r) \/ SetRunning(r) \/ Turn(r) \/ NoTurnLeft(r) \/ ModelRaises(r)
    \/ NoCallLeft(r) \/ Call(r) \/ UseTool(r) \/ CheckCap(r) \/ Result(r)
    \/ Guardrail(r) \/ Fail(r) \/ FailCount(r) \/ Count(r) \/ Finish(r) \/ MarkCrashed(r)
    \/ \E i \in Invoices : Propose(r, i)

-----------------------------------------------------------------------------
(* The operator, and the pages *)

(* A letter is rejected, and its run settled with it; or approved, or it   *)
(* lapses, and the next page settles the run.                              *)
Decide(p, settles) ==
    /\ phase = "up" /\ p.pending
    /\ proposals' = (proposals \ {p}) \cup {[p EXCEPT !.pending = FALSE]}
    /\ runStatus' = IF settles /\ runStatus[p.run] = "awaiting_approval"
                               /\ PendingOf(p.run) = {p}
                    THEN [runStatus EXCEPT ![p.run] = "completed"] ELSE runStatus
    /\ UNCHANGED <<steps, thread, others>>

(* Mutant: the page fails every run that is not finished. *)
PageAbandons ==
    /\ phase = "up"
    /\ runStatus' = [r \in Runs |-> IF runStatus[r] \in Unfinished THEN "failed"
                                    ELSE Settled[r]]
    /\ UNCHANGED <<steps, proposals, thread, others>>

(* settle_decided_runs, from a page.                                       *)
Page ==
    /\ phase = "up" /\ Settled # runStatus
    /\ runStatus' = Settled
    /\ UNCHANGED <<steps, proposals, thread, others>>

-----------------------------------------------------------------------------
(* The process *)

(* Requests are finished first.  Then the pool is shut down without        *)
(* waiting, its queue cancelled; the threads at work keep the process      *)
(* alive until they end.                                                   *)
Stop ==
    /\ phase = "up" /\ stops < MaxStops
    /\ \A r \in Runs : thread[r].pc # "created"
    /\ phase' = "stopping"
    /\ queue' = <<>>
    /\ thread' = [r \in Runs |-> IF r \in Working THEN thread[r] ELSE NoThread]
    /\ stops' = stops + 1
    /\ UNCHANGED <<faults, tables>>

Exit ==
    /\ phase = "stopping" /\ Working = {}
    /\ phase' = "down"
    /\ UNCHANGED <<queue, thread, faults, stops, tables>>

(* The process is killed: at any time, or because a stop takes too long.   *)
Crash ==
    /\ phase # "down" /\ (stops < MaxStops \/ phase = "stopping")
    /\ phase' = "down"
    /\ queue' = <<>>
    /\ thread' = [r \in Runs |-> NoThread]
    /\ stops' = IF phase = "stopping" THEN stops ELSE stops + 1
    /\ UNCHANGED <<faults, tables>>

(* Mutant: queued runs are taken for somebody else's. *)
OrphanedRunning == {r \in Runs : runStatus[r] = "running"}

Orphaned == {r \in Runs : runStatus[r] \in Unfinished}

(* Mutant: whatever is not completed is marked as failed. *)
AbandonWaiting ==
    /\ phase = "down"
    /\ phase' = "abandoned"
    /\ runStatus' = [r \in Runs |-> IF r \in Orphaned \/ runStatus[r] = "awaiting_approval"
                                    THEN "failed" ELSE runStatus[r]]
    /\ UNCHANGED <<steps, proposals, queue, thread, faults, stops>>

(* abandon_orphaned_runs, at start-up.                                     *)
Abandon ==
    /\ phase = "down"
    /\ phase' = "abandoned"
    /\ runStatus' = [r \in Runs |-> IF r \in Orphaned THEN "failed" ELSE runStatus[r]]
    /\ UNCHANGED <<steps, proposals, queue, thread, faults, stops>>

(* settle_decided_runs, and the app serves.                                *)
Serve ==
    /\ phase = "abandoned"
    /\ phase' = "up"
    /\ runStatus' = Settled
    /\ UNCHANGED <<steps, proposals, queue, thread, faults, stops>>

-----------------------------------------------------------------------------
Next ==
    \/ \E r \in Runs : StartRun(r) \/ Submit(r) \/ ThreadStep(r) \/ Raise(r)
    \/ TakeUp
    \/ \E p \in proposals, settles \in BOOLEAN : Decide(p, settles)
    \/ Page
    \/ Stop \/ Exit \/ Crash \/ Abandon \/ Serve

Spec == Init /\ [][Next]_vars

(* Threads run, a model's answer is waited for RUN_TIMEOUT_SECONDS at      *)
(* most, and "restart: unless-stopped" starts the process again.           *)
Fairness ==
    /\ \A r \in Runs : WF_vars(Submit(r)) /\ WF_vars(ThreadStep(r))
    /\ WF_vars(TakeUp) /\ WF_vars(Exit) /\ WF_vars(Abandon) /\ WF_vars(Serve)

FairSpec == Spec /\ Fairness

-----------------------------------------------------------------------------
Steps == {"message", "tool_call", "tool_result"}

Pcs == InTry \cup OutsideTry \cup LastResort
          \cup {"gone", "created", "submitted", "start", "turn", "tool"}

Statuses == {"none"} \cup Unfinished \cup Terminal

Proposals == [run : Runs, n : Nat \ {0}, invoice : Invoices, pending : BOOLEAN]

Threads == [pc : Pcs, turns : 0..MaxTurns, tools : 0..MaxToolCalls, left : 0..MaxCalls,
            outcome : {"none", "completed", "awaiting_approval"}]

TypeOK ==
    /\ phase \in {"up", "stopping", "down", "abandoned"}
    /\ runStatus \in [Runs -> Statuses]
    /\ steps \in [Runs -> Seq(Steps)]
    /\ proposals \subseteq Proposals
    /\ queue \in Seq(Runs)
    /\ thread \in [Runs -> Threads]
    /\ faults \in 0..MaxFaults /\ stops \in 0..MaxStops

(* Whatever the model asks for and whatever is decided meanwhile, a run    *)
(* makes no more tool calls and queues no more letters than its limits;    *)
(* and however runs race, an invoice has one letter in the queue at most.  *)
WithinLimits ==
    /\ \A r \in Runs :
          /\ Cardinality({k \in DOMAIN steps[r] : steps[r][k] = "tool_call"}) <= MaxToolCalls
          /\ Cardinality(ProposalsOf(r)) <= MaxProposals
    /\ \A p, q \in proposals : p.pending /\ q.pending /\ p.invoice = q.invoice => p = q

(* In the transcript a call is followed by its result; one that is not is  *)
(* the last thing a run did before it failed or was cut off.               *)
ResultsFollowCalls ==
    \A r \in Runs : \A k \in DOMAIN steps[r] :
        /\ steps[r][k] = "tool_call" =>
              \/ k < Len(steps[r]) /\ steps[r][k + 1] = "tool_result"
              \/ k = Len(steps[r]) /\ runStatus[r] \in {"running", "failed"}
        /\ steps[r][k] = "tool_result" => k > 1 /\ steps[r][k - 1] = "tool_call"

(* A run that waits for the operator has queued a letter, and a run that   *)
(* is completed has none undecided: whoever decided it, and whoever looked *)
(* at a page, while the loop was counting.                                 *)
StatusMatchesQueue ==
    \A r \in Runs : /\ runStatus[r] = "awaiting_approval" => ProposalsOf(r) # {}
                    /\ runStatus[r] = "completed" => PendingOf(r) = {}

(* No page and no decision finishes a run that a thread works on, though   *)
(* runs are settled whenever somebody looks.  (Start-up finds no thread    *)
(* alive: the model has the one process that compose starts.)              *)
Owned ==
    \A r \in Runs :
        /\ thread[r].pc \notin {"gone", "fail count", "crashed"} =>
              runStatus[r] \in Unfinished
        /\ thread[r].pc \in {"fail count", "crashed"} =>
              runStatus[r] \in Unfinished \cup {"failed"}

(* A run that ended stays as it ended; one that waits may be completed.    *)
EndIsFinal ==
    [][\A r \in Runs : runStatus[r] \in Terminal =>
          \/ runStatus'[r] = runStatus[r]
          \/ runStatus[r] = "awaiting_approval" /\ runStatus'[r] = "completed"]_vars

(* Its row says unfinished and nothing will ever finish it.                *)
Dangling(r) == phase = "up" /\ thread[r].pc = "gone" /\ runStatus[r] \in Unfinished

(* Every run ends, in this process or by the next one's start-up, unless a *)
(* transaction that raised left nobody to end it.                          *)
RunsEnd ==
    \A r \in Runs : runStatus[r] \in Unfinished ~>
                       runStatus[r] \in Terminal \/ (Dangling(r) /\ faults > 0)

(* "Never raises: a run always reaches a terminal status" (runner._execute *)
(* and "a run must never leave a dangling status", loop.run_agent).        *)
AlwaysEnds == \A r \in Runs : ~Dangling(r)
-----------------------------------------------------------------------------
(* Why they hold: what the point that a run's thread has reached says of   *)
(* the run's rows.  RunInv is inductive, as RunProofs shows.               *)

Early == {"created", "submitted", "start", "no model", "running"}

AnswerDue == {"tool", "cap", "create", "result"}

InLoop == AnswerDue \cup {"turn", "call"}

Ending == {"guardrail", "fail", "count", "finish"}

CallsOf(s) == {k \in DOMAIN s : s[k] = "tool_call"}

CallOpen(s) == s # <<>> /\ s[Len(s)] = "tool_call"

(* Below, a run's thread t, its status st, transcript s and letters P.     *)
StatusFits(t, st) ==
    /\ t.pc \in Early => st = "queued"
    /\ t.pc \in InLoop \cup Ending => st = "running"
    /\ t.pc = "fail count" => st = "failed"
    /\ t.pc = "crashed" => st \in {"queued", "running", "failed"}
    /\ st = "none" => t.pc = "gone"

(* Before the loop nothing is written and nothing counted.                 *)
NothingYet(t, st, s, P) ==
    /\ st \in {"none", "queued"} => s = <<>> /\ P = {}
    /\ t.pc \in Early \cup {"gone"} => t.tools = 0

(* The loop's counter is what the transcript says.                         *)
CallsFit(t, s) ==
    /\ Cardinality(CallsOf(s)) <= MaxToolCalls
    /\ t.pc \in InLoop => Cardinality(CallsOf(s)) = t.tools
    /\ t.pc \in AnswerDue \cup {"call"} => t.left > 0

(* A call without a result is the last step, and awaits it still or has    *)
(* lost its thread.                                                        *)
AnswersFit(t, st, s) ==
    /\ \A k \in DOMAIN s :
          /\ s[k] = "tool_call" /\ k < Len(s) => s[k + 1] = "tool_result"
          /\ s[k] = "tool_result" => k > 1 /\ s[k - 1] = "tool_call"
    /\ t.pc \in AnswerDue => CallOpen(s)
    /\ CallOpen(s) => /\ st \in {"running", "failed"}
                      /\ t.pc \in AnswerDue \cup {"fail", "fail count", "crashed", "gone"}

(* Nobody else proposes for a run between its check of the cap and the     *)
(* letter; and what is decided stays a letter of the run.                  *)
LettersFit(t, st, P) ==
    /\ IsFiniteSet(P) /\ Cardinality(P) <= MaxProposals
    /\ t.pc = "create" => Cardinality(P) < MaxProposals
    /\ t.pc = "finish" => \/ t.outcome = "completed" /\ P = {}
                          \/ t.outcome = "awaiting_approval" /\ P # {}
    /\ st = "awaiting_approval" => P # {}
    /\ st = "completed" => \A p \in P : ~p.pending

Fits(t, st, s, P) ==
    /\ StatusFits(t, st)
    /\ NothingYet(t, st, s, P)
    /\ CallsFit(t, s)
    /\ AnswersFit(t, st, s)
    /\ LettersFit(t, st, P)

(* Who waits in the queue waits once, and in a process that serves; one    *)
(* that stops has only threads at work; without a process there is none.   *)
ThreadsOfProcess ==
    /\ \A j, k \in DOMAIN queue : queue[j] = queue[k] => j = k
    /\ \A k \in DOMAIN queue : thread[queue[k]].pc = "submitted"
    /\ phase # "up" => queue = <<>>
    /\ \A r \in Runs : /\ thread[r].pc \in {"created", "submitted"} => phase = "up"
                       /\ phase \in {"down", "abandoned"} => thread[r].pc = "gone"

OnePending == \A p, q \in proposals : p.pending /\ q.pending /\ p.invoice = q.invoice => p = q

RunInv ==
    /\ TypeOK
    /\ ThreadsOfProcess
    /\ OnePending
    /\ \A r \in Runs : Fits(thread[r], runStatus[r], steps[r], ProposalsOf(r))
=============================================================================
