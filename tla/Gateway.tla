------------------------------- MODULE Gateway -------------------------------
(***************************************************************************)
(* The action gateway: gateway/verify.py, gateway/executor.py and the      *)
(* execute endpoint of gateway/api.py.                                     *)
(*                                                                         *)
(* The endpoint is synchronous, so several requests run in threads of one  *)
(* process.  Verification is a series of SELECTs with no transaction       *)
(* around them: each sees the tables as last committed, and the app and    *)
(* the other workers may write in between.  The proposal row read for      *)
(* check 4 is kept: its letter is hashed for check 6 and is what is sent.  *)
(*                                                                         *)
(* Every token in the model was signed with the shared secret, so check 1  *)
(* passes.  Proposals are never deleted, so the row of check 4 exists.     *)
(***************************************************************************)
EXTENDS Tables

CONSTANTS
    Workers         \* threads that serve requests

VARIABLES
    worker          \* each thread's request and what it has read for it

gatewayVars == <<worker>>

Idle == [pc |-> "idle", token |-> None, key |-> None, from |-> None, late |-> FALSE,
         seen |-> None, letter |-> None, prior |-> None, ok |-> FALSE]

Steps == {"nonce", "proposal", "own", "approval", "key", "claim", "lost", "send", "finish"}

Worker == [pc: Steps \cup {"idle"}, token: Token \cup {None}, key: Keys \cup {None},
           from: Operators \cup {None},
           late: BOOLEAN,                               \* expires_at <= `at`
           seen: ProposalStatuses \cup {None},          \* proposal.status as read
           letter: Letters \cup {None},                 \* proposal.payload as read
           prior: Execution \cup {None},                \* the execution found by key
           ok: BOOLEAN]                                 \* the delivery succeeded

GatewayTypeOK == worker \in [Workers -> Worker]

GatewayInit == worker = [w \in Workers |-> Idle]

-----------------------------------------------------------------------------
(* The response: a refusal or a result, and the thread is free again.      *)
Answering(w, code) ==
    /\ answers' = answers \cup {[to |-> worker[w].from, key |-> worker[w].key,
                                 nonce |-> worker[w].token.nonce, code |-> code]}
    /\ worker' = [worker EXCEPT ![w] = Idle]

Advance(w, pc) == worker' = [worker EXCEPT ![w] = [@ EXCEPT !.pc = pc]] /\ UNCHANGED answers

ReadOnly == UNCHANGED <<tables, minted, expired, inbox, usedKeys, outbox>>

(* What ApprovalTokenClaims.is_expired compares, at the request's time.    *)
TokenExpired(t) == t.nonce \in expired

(* Check 3 passes: unused, or used by this very request.                   *)
NonceMine(t, k) == consumed[t.nonce] \in {None, k}

(* Check 4 passes on a proposal read as st: approved and inside its        *)
(* deadline, or already executed by this request.                          *)
MayExecute(st, late, own) == own # None \/ (st = "approved" /\ ~late)

(* Mutant: check 5 that compares the approver and forgets the nonce. *)
ApprovalNamesApprover(t) ==
    \E i \in ApproveRows(t.proposal) :
        /\ \A j \in ApproveRows(t.proposal) : j <= i
        /\ approvals[i].actor = t.approver

(* Check 5 passes: the latest approve row is the one this token was minted *)
(* for.                                                                    *)
ApprovalMatches(t) ==
    \E i \in ApproveRows(t.proposal) :
        /\ \A j \in ApproveRows(t.proposal) : j <= i
        /\ approvals[i].actor = t.approver
        /\ approvals[i].nonce = t.nonce

(* Mutant: check 6 dropped. *)
LetterUnchecked(w) == worker[w].pc = "approval"

(* Check 6 passes: the letter read for check 4 is the letter signed.       *)
LetterMatches(w) == worker[w].letter = worker[w].token.letter

-----------------------------------------------------------------------------
(* verify_execution_request, one action per SELECT.                        *)

(* A thread takes a request: `at` is fixed here, for check 2 and for the   *)
(* deadline in check 4.                                                    *)
Accept(w, r) ==
    /\ worker[w].pc = "idle"
    /\ r \in inbox
    /\ inbox' = inbox \ {r}
    /\ IF TokenExpired(r.token)
       THEN /\ answers' = answers \cup {[to |-> r.from, key |-> r.key,
                                         nonce |-> r.token.nonce, code |-> "token_expired"]}
            /\ UNCHANGED worker
       ELSE /\ worker' = [worker EXCEPT ![w] =
                              [Idle EXCEPT !.pc = "nonce", !.token = r.token, !.key = r.key,
                                           !.from = r.from,
                                           !.late = r.token.proposal \in lapsed]]
            /\ UNCHANGED answers
    /\ UNCHANGED <<tables, minted, expired, usedKeys, outbox>>

(* Check 3. *)
ReadNonce(w) ==
    /\ worker[w].pc = "nonce"
    /\ IF NonceMine(worker[w].token, worker[w].key)
       THEN Advance(w, "proposal")
       ELSE Answering(w, "token_replayed")
    /\ ReadOnly

(* Check 4, first SELECT: the proposal. *)
ReadProposal(w) ==
    LET p == worker[w].token.proposal
    IN  /\ worker[w].pc = "proposal"
        /\ worker' = [worker EXCEPT ![w] = [@ EXCEPT !.pc = "own", !.seen = status[p],
                                                     !.letter = letter[p]]]
        /\ UNCHANGED answers
        /\ ReadOnly

(* Check 4, second SELECT: an execution of this proposal under this key.   *)
ReadOwnExecution(w) ==
    LET e   == executions[worker[w].key]
        own == IF e # None /\ e.proposal = worker[w].token.proposal THEN e ELSE None
    IN  /\ worker[w].pc = "own"
        /\ IF MayExecute(worker[w].seen, worker[w].late, own)
           THEN /\ worker' = [worker EXCEPT ![w] = [@ EXCEPT !.pc = "approval", !.prior = own]]
                /\ UNCHANGED answers
           ELSE Answering(w, "not_approved")
        /\ ReadOnly

(* Check 5 reads the approval, check 6 hashes the letter read before.      *)
ReadApproval(w) ==
    /\ worker[w].pc = "approval"
    /\ IF ~ApprovalMatches(worker[w].token) THEN Answering(w, "approval_mismatch")
       ELSE IF ~LetterMatches(w) THEN Answering(w, "payload_modified")
       ELSE Advance(w, "key")
    /\ ReadOnly

(* The answer to a request whose key an execution already carries.         *)
ReplayCode(e) == IF e.status = "failed" THEN "execution_failed" ELSE "already_executed"

(* Mutant: straight to the adapter, the claim left to _finish. *)
ReadKeyUnclaimed(w) ==
    LET e == IF worker[w].prior # None THEN worker[w].prior ELSE executions[worker[w].key]
    IN  /\ worker[w].pc = "key"
        /\ IF e = None THEN Advance(w, "send") ELSE Answering(w, ReplayCode(e))
        /\ ReadOnly

(* Check 7, and executor.execute's answer when the key was used.           *)
ReadKey(w) ==
    LET e == IF worker[w].prior # None THEN worker[w].prior ELSE executions[worker[w].key]
    IN  /\ worker[w].pc = "key"
        /\ IF e = None THEN Advance(w, "claim") ELSE Answering(w, ReplayCode(e))
        /\ ReadOnly

-----------------------------------------------------------------------------
(* executor.execute *)

(* Mutant: token_nonces.nonce is not unique. *)
ClaimFreeByKey(t, k) == executions[k] = None

(* Both unique constraints of _claim's transaction.                        *)
ClaimFree(t, k) == executions[k] = None /\ consumed[t.nonce] = None

(* Mutant: the nonce is not recorded with the claim. *)
ConsumeNothing(t, k) == consumed

(* The token_nonces row: which request used the nonce up.                  *)
Consume(t, k) == [consumed EXCEPT ![t.nonce] = k]

(* Steps 1 and 2: the execution row and the consumed nonce, committed      *)
(* together; or an IntegrityError and nothing.                             *)
Claim(w) ==
    LET t == worker[w].token
        k == worker[w].key
    IN  /\ worker[w].pc = "claim"
        /\ IF ClaimFree(t, k)
           THEN /\ executions' = [executions EXCEPT
                                      ![k] = [proposal |-> t.proposal, status |-> "pending"]]
                /\ consumed' = Consume(t, k)
                /\ Advance(w, "send")
           ELSE Advance(w, "lost") /\ UNCHANGED <<executions, consumed>>
        /\ UNCHANGED <<status, letter, lapsed, runStatus, approvals, minted, expired, inbox,
                       usedKeys, outbox>>

(* Mutant: only the same key is answered. *)
AnswerFromSameKey(w) ==
    /\ worker[w].pc = "lost"
    /\ executions[worker[w].key] # None
    /\ Answering(w, "already_executed")
    /\ ReadOnly

(* _answer_from_the_winner: the row under the same key whatever its        *)
(* status, or else the nonce was the collision.                            *)
AnswerFromTheWinner(w) ==
    /\ worker[w].pc = "lost"
    /\ Answering(w, IF executions[worker[w].key] # None
                    THEN "already_executed" ELSE "token_replayed")
    /\ ReadOnly

(* Mutant: the payload is read again for the send. *)
LetterReread(w) == letter[worker[w].token.proposal]

(* verified.proposal.payload: the row as read for check 4.                 *)
LetterToSend(w) == worker[w].letter

(* Step 3, and step 4 where it is enabled.  The letter goes out and all is *)
(* well; or an error comes back, and then the letter is out (a broken      *)
(* connection after the server took it, a failing Stripe call after the    *)
(* mail) or it is not.                                                     *)
Deliver(w) ==
    LET d == [proposal |-> worker[w].token.proposal, letter |-> LetterToSend(w),
              nonce |-> worker[w].token.nonce, key |-> worker[w].key]
    IN  /\ worker[w].pc = "send"
        /\ \E out, ok \in BOOLEAN :
             /\ ok => out
             /\ outbox' = IF out THEN Append(outbox, d) ELSE outbox
             /\ worker' = [worker EXCEPT ![w] = [@ EXCEPT !.pc = "finish", !.ok = ok]]
        /\ UNCHANGED <<tables, wire>>

(* Mutant: a failed delivery is recorded as a success. *)
AlwaysSucceeded(w) == "succeeded"

(* The execution's final status, and the proposal's.                       *)
ExecutionResult(w) == IF worker[w].ok THEN "succeeded" ELSE "failed"

ProposalResult(w) == IF worker[w].ok THEN "executed" ELSE "failed"

(* Steps 5 and 6: _finish writes both statuses whatever they are now.      *)
Recorded(w) ==
    LET t == worker[w].token
        k == worker[w].key
    IN  /\ executions' = [executions EXCEPT ![k] = [@ EXCEPT !.status = ExecutionResult(w)]]
        /\ status' = [status EXCEPT ![t.proposal] = ProposalResult(w)]
        /\ Answering(w, IF worker[w].ok THEN "executed" ELSE "execution_failed")
        /\ UNCHANGED <<letter, lapsed, runStatus, approvals, consumed, minted, expired, inbox,
                       usedKeys, outbox>>

(* Mutant: a delivery error leaves without _finish. *)
FinishSuccess(w) == worker[w].pc = "finish" /\ worker[w].ok /\ Recorded(w)

Finish(w) == worker[w].pc = "finish" /\ Recorded(w)

(* The gateway stops, or the database fails a transaction: the thread is   *)
(* gone and no result is given.                                            *)
WorkerDies(w) ==
    /\ worker[w].pc # "idle"
    /\ worker' = [worker EXCEPT ![w] = Idle]
    /\ UNCHANGED <<tables, wire, outbox>>

(* exp passes for a token in circulation.                                  *)
ExpireToken(t) ==
    /\ t \in minted /\ t.nonce \notin expired
    /\ expired' = expired \cup {t.nonce}
    /\ UNCHANGED <<tables, minted, inbox, answers, usedKeys, outbox, worker>>

(* One step of the thread serving a request.                               *)
WorkerStep(w) ==
    \/ \E r \in inbox : Accept(w, r)
    \/ ReadNonce(w) \/ ReadProposal(w) \/ ReadOwnExecution(w) \/ ReadApproval(w) \/ ReadKey(w)
    \/ Claim(w) \/ AnswerFromTheWinner(w) \/ Deliver(w) \/ Finish(w)

GatewayNext ==
    \/ \E w \in Workers : WorkerStep(w)
    \/ \E t \in minted : ExpireToken(t)
=============================================================================
