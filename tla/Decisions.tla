------------------------------ MODULE Decisions ------------------------------
(***************************************************************************)
(* The app's approval path: app/services/proposals.py, app/approval,       *)
(* app/gateway_client.py and the sweeps of app/store/repositories.py.      *)
(*                                                                         *)
(* Each handler runs in a thread of FastAPI's pool.  pysqlite opens a      *)
(* transaction, and takes SQLite's single write lock, at the first write   *)
(* that is flushed: what a handler SELECTs before that is read without any *)
(* lock, each statement on its own, and what it writes afterwards is one   *)
(* atomic step made of UPDATE ... WHERE id = ? that compare nothing with   *)
(* the values read.  So a handler is: submit (SELECT stale proposals),     *)
(* load (SELECT the proposal), commit.  When the first SELECT found lapsed *)
(* proposals, expiring them takes the lock and the rest is atomic.         *)
(***************************************************************************)
EXTENDS Tables

CONSTANTS
    Kinds,          \* the decisions operators take in this instance
    Sweepers,       \* concurrent readers of the queue and dashboard pages
    MaxVisits       \* bound on the proposal pages opened, each for one request

VARIABLES
    op,             \* each operator's tab and the handler of its request
    sweep,          \* each page reader's sweep
    gaveUp,         \* nonces whose operator was told "Nothing was sent."
    visits          \* pages opened so far

decisionVars == <<op, sweep, gaveUp, visits>>

DecisionKinds == {"approve", "edit", "reject", "probe"}

ASSUME KindsAssumption == Kinds \subseteq DecisionKinds /\ MaxVisits \in Nat

Away == [pc |-> "away", proposal |-> None, viewed |-> None, kind |-> None,
         edit |-> None, stale |-> {}, loaded |-> None, token |-> None, key |-> None]

Handler == [pc: {"away", "viewing", "swept", "loaded", "minted", "calling"},
            proposal: Proposals \cup {None}, viewed: Letters \cup {None},
            kind: Kinds \cup {None}, edit: Letters \cup {None},
            stale: SUBSET Proposals, loaded: Letters \cup {None},
            token: Token \cup {None}, key: Keys \cup {None}]

Sweep == [pc: {"idle", "swept"}, stale: SUBSET Proposals]

DecisionsTypeOK ==
    /\ op \in [Operators -> Handler]
    /\ sweep \in [Sweepers -> Sweep]
    /\ gaveUp \subseteq Nonces
    /\ visits \in Nat

DecisionsInit ==
    /\ op = [o \in Operators |-> Away]
    /\ sweep = [s \in Sweepers |-> [pc |-> "idle", stale |-> {}]]
    /\ gaveUp = {}
    /\ visits = 0

-----------------------------------------------------------------------------
(* Sweeps and guards *)

(* Mutant: every lapsed proposal is stale. *)
StaleAny == {p \in lapsed : status[p] # "expired"}

(* expire_stale_proposals: what its SELECT returns, and the blind UPDATE.  *)
Stale == {p \in lapsed : status[p] = "pending"}

Expire(ps) == [p \in Proposals |-> IF p \in ps THEN "expired" ELSE status[p]]

(* Mutant: the count of pending proposals is not looked at. *)
SettleAlways(r, st) == IF runStatus[r] = "awaiting_approval" THEN "completed" ELSE runStatus[r]

(* Mutant: settled into the status the docstring warns against. *)
SettleAsExecuted(r, st) ==
    IF /\ runStatus[r] = "awaiting_approval"
       /\ \A p \in Proposals : RunOf[p] = r => st[p] # "pending"
    THEN "executed" ELSE runStatus[r]

(* settle_run_if_decided, on the proposal statuses st.                     *)
SettleIfDecided(r, st) ==
    IF /\ runStatus[r] = "awaiting_approval"
       /\ \A p \in Proposals : RunOf[p] = r => st[p] # "pending"
    THEN "completed" ELSE runStatus[r]

(* Mutant: an approved proposal may still be decided or edited. *)
DecidableUntilSent(p, st) == st[p] \in {"pending", "approved"} /\ p \notin lapsed

(* _load_pending: still pending in `st`, and not past its deadline.        *)
Decidable(p, st) == st[p] = "pending" /\ p \notin lapsed

(* payload and payload_hash are UPDATEd only when the text differs from    *)
(* the one this handler loaded.                                            *)
StoredLetter(o, loaded) ==
    IF op[o].edit \in {None, loaded} THEN letter
    ELSE [letter EXCEPT ![op[o].proposal] = op[o].edit]

(* The letter in this handler's memory when it mints.                      *)
ApprovedLetter(o, loaded) == IF op[o].edit = None THEN loaded ELSE op[o].edit

-----------------------------------------------------------------------------
(* The operator's request arrives *)

(* The proposal page shows the letter as stored at that moment.            *)
View(o, p) ==
    /\ op[o].pc = "away"
    /\ visits < MaxVisits
    /\ visits' = visits + 1
    /\ op' = [op EXCEPT ![o] = [Away EXCEPT !.pc = "viewing", !.proposal = p,
                                            !.viewed = letter[p]]]
    /\ UNCHANGED <<tables, wire, outbox, sweep, gaveUp>>

(* approve, save_edit and reject begin with expire_stale_proposals, whose  *)
(* SELECT runs here.  An approval carries an edited body or none; an edit  *)
(* always carries one.                                                     *)
Submit(o, kind, edit) ==
    /\ op[o].pc = "viewing"
    /\ kind \in Kinds \ {"probe"}
    /\ kind = "edit" => edit # None
    /\ kind = "reject" => edit = None
    /\ op' = [op EXCEPT ![o] = [@ EXCEPT !.pc = "swept", !.kind = kind, !.edit = edit,
                                         !.stale = Stale]]
    /\ UNCHANGED <<tables, wire, outbox, sweep, gaveUp, visits>>

-----------------------------------------------------------------------------
(* The three decisions, on the statuses `base` and the letter `loaded`     *)

(* approve: the edit, the approval row with its nonce, the status and the  *)
(* token, minted from the letter in memory, in one transaction.            *)
Approve(o, base, loaded) ==
    LET p == op[o].proposal
        l == ApprovedLetter(o, loaded)
    IN  /\ op[o].kind = "approve"
        /\ \E n \in FreshNonces :
             LET t == [nonce |-> n, proposal |-> p, letter |-> l, approver |-> o]
             IN  /\ approvals' = Append(approvals,
                        [proposal |-> p, decision |-> "approve", actor |-> o, nonce |-> n,
                         read |-> IF op[o].edit = None THEN op[o].viewed ELSE op[o].edit])
                 /\ minted' = minted \cup {t}
                 /\ op' = [op EXCEPT ![o] = [@ EXCEPT !.pc = "minted", !.token = t]]
        /\ status' = [base EXCEPT ![p] = "approved"]
        /\ letter' = StoredLetter(o, loaded)
        /\ UNCHANGED runStatus

(* reject, and the settling of a run whose last open proposal this was.    *)
Reject(o, base, loaded) ==
    LET p == op[o].proposal
        r == RunOf[p]
    IN  /\ op[o].kind = "reject"
        /\ approvals' = Append(approvals,
               [proposal |-> p, decision |-> "reject", actor |-> o, nonce |-> None,
                read |-> op[o].viewed])
        /\ status' = [base EXCEPT ![p] = "rejected"]
        /\ runStatus' = [runStatus EXCEPT ![r] = SettleIfDecided(r, status')]
        /\ op' = [op EXCEPT ![o] = Away]
        /\ UNCHANGED <<letter, minted>>

SaveEdit(o, base, loaded) ==
    /\ op[o].kind = "edit"
    /\ letter' = StoredLetter(o, loaded)
    /\ status' = base
    /\ op' = [op EXCEPT ![o] = Away]
    /\ UNCHANGED <<approvals, runStatus, minted>>

Decide(o, base, loaded) ==
    /\ Approve(o, base, loaded) \/ Reject(o, base, loaded) \/ SaveEdit(o, base, loaded)
    /\ UNCHANGED <<lapsed, consumed, executions, expired, inbox, answers, usedKeys,
                   outbox, sweep, gaveUp, visits>>

(* The handler gives up before its commit: a 404 or 409 from _load_pending *)
(* rolls back everything, the expiry of other proposals included.          *)
RollBack(o) ==
    /\ op' = [op EXCEPT ![o] = Away]
    /\ UNCHANGED <<tables, wire, outbox, sweep, gaveUp, visits>>

(* Nothing had lapsed: _load_pending reads without a lock.                 *)
LoadPending(o) ==
    /\ op[o].pc = "swept" /\ op[o].stale = {}
    /\ IF Decidable(op[o].proposal, status)
       THEN /\ op' = [op EXCEPT ![o] = [@ EXCEPT !.pc = "loaded",
                                                 !.loaded = letter[op[o].proposal]]]
            /\ UNCHANGED <<tables, wire, outbox, sweep, gaveUp, visits>>
       ELSE RollBack(o)

Commit(o) == op[o].pc = "loaded" /\ Decide(o, status, op[o].loaded)

(* Some proposals had lapsed: expiring them takes the write lock, and the  *)
(* proposal is loaded and decided in that transaction.                     *)
DecideUnderLock(o) ==
    LET p    == op[o].proposal
        base == Expire(op[o].stale)
    IN  /\ op[o].pc = "swept" /\ op[o].stale # {}
        /\ IF Decidable(p, base) THEN Decide(o, base, letter[p]) ELSE RollBack(o)

(* attempt_unapproved: a signed token with a nonce no approval carries,    *)
(* for a proposal read as anything but approved.                           *)
Probe(o) ==
    LET p == op[o].proposal
    IN  /\ op[o].pc = "viewing" /\ "probe" \in Kinds
        /\ status[p] # "approved"
        /\ \E n \in FreshNonces :
             LET t == [nonce |-> n, proposal |-> p, letter |-> letter[p], approver |-> o]
             IN  /\ minted' = minted \cup {t}
                 /\ op' = [op EXCEPT ![o] = [@ EXCEPT !.pc = "minted", !.kind = "probe",
                                                      !.token = t]]
        /\ UNCHANGED <<tables, expired, inbox, answers, usedKeys, outbox, sweep, gaveUp, visits>>

-----------------------------------------------------------------------------
(* The call to the gateway *)

(* GatewayClient.execute: one POST with a key of its own, no retry.        *)
Post(o) ==
    /\ op[o].pc = "minted"
    /\ \E k \in FreshKeys :
         /\ inbox' = inbox \cup {[token |-> op[o].token, key |-> k, from |-> o]}
         /\ usedKeys' = usedKeys \cup {k}
         /\ op' = [op EXCEPT ![o] = [@ EXCEPT !.pc = "calling", !.key = k]]
    /\ UNCHANGED <<tables, minted, expired, answers, outbox, sweep, gaveUp, visits>>

HearAnswer(o) ==
    /\ op[o].pc = "calling"
    /\ \E a \in answers : a.to = o /\ a.key = op[o].key
    /\ op' = [op EXCEPT ![o] = Away]
    /\ UNCHANGED <<tables, wire, outbox, sweep, gaveUp, visits>>

(* httpx.HTTPError: refused connection or read timeout, told apart by no   *)
(* one.  The request itself may still be on its way or in progress.        *)
Timeout(o) ==
    /\ op[o].pc = "calling"
    /\ op' = [op EXCEPT ![o] = Away]
    /\ gaveUp' = gaveUp \cup {op[o].token.nonce}
    /\ UNCHANGED <<tables, wire, outbox, sweep, visits>>

(* The process stops, or the database fails the transaction.               *)
HandlerDies(o) ==
    /\ op[o].pc \notin {"away", "viewing"}
    /\ RollBack(o)

-----------------------------------------------------------------------------
(* Pages that sweep before they read, and the run's own last step *)

SweepRead(s) ==
    /\ sweep[s].pc = "idle"
    /\ sweep' = [sweep EXCEPT ![s] = [pc |-> "swept", stale |-> Stale]]
    /\ UNCHANGED <<tables, wire, outbox, op, gaveUp, visits>>

(* Mutant: a sweep expires and settles nothing. *)
SweepExpiresOnly(s) ==
    /\ sweep[s].pc = "swept"
    /\ status' = Expire(sweep[s].stale)
    /\ sweep' = [sweep EXCEPT ![s] = [pc |-> "idle", stale |-> {}]]
    /\ UNCHANGED <<letter, lapsed, runStatus, approvals, consumed, executions, wire, outbox,
                   op, gaveUp, visits>>

(* Expires what was read, then settles every waiting run with nothing left *)
(* pending.  Proposals never return to pending, so reading and settling a  *)
(* run in one step hides no interleaving.                                  *)
SweepWrite(s) ==
    /\ sweep[s].pc = "swept"
    /\ status' = Expire(sweep[s].stale)
    /\ runStatus' = [r \in Runs |-> SettleIfDecided(r, status')]
    /\ sweep' = [sweep EXCEPT ![s] = [pc |-> "idle", stale |-> {}]]
    /\ UNCHANGED <<letter, lapsed, approvals, consumed, executions, wire, outbox, op,
                   gaveUp, visits>>

(* RunStore.set_status("awaiting_approval"), the agent loop's last act.    *)
AwaitApproval(r) ==
    /\ runStatus[r] = "running"
    /\ runStatus' = [runStatus EXCEPT ![r] = "awaiting_approval"]
    /\ UNCHANGED <<status, letter, lapsed, approvals, consumed, executions, wire, outbox,
                   decisionVars>>

(* expires_at passes for p.                                                *)
Lapse(p) ==
    /\ p \notin lapsed
    /\ lapsed' = lapsed \cup {p}
    /\ UNCHANGED <<status, letter, runStatus, approvals, consumed, executions, wire, outbox,
                   decisionVars>>

(* One step of the handler of o's request, once it has arrived.            *)
HandlerStep(o) ==
    LoadPending(o) \/ Commit(o) \/ DecideUnderLock(o) \/ Post(o) \/ HearAnswer(o) \/ Timeout(o)

DecisionsNext ==
    \/ \E o \in Operators :
         \/ \E p \in Proposals : View(o, p)
         \/ \E kind \in Kinds, edit \in Letters \cup {None} : Submit(o, kind, edit)
         \/ Probe(o)
         \/ HandlerStep(o)
    \/ \E s \in Sweepers : SweepRead(s) \/ SweepWrite(s)
    \/ \E r \in Runs : AwaitApproval(r)
    \/ \E p \in Proposals : Lapse(p)
=============================================================================
