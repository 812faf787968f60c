--------------------------- MODULE BoundaryProofs ---------------------------
(***************************************************************************)
(* The approval boundary for any number of operators, gateway threads,     *)
(* proposals, replayed requests and faults: what leaves is what an operator*)
(* approved, at most once for each approval, and the app and the gateway   *)
(* together implement SendContract.                                        *)
(***************************************************************************)
EXTENDS Boundary, SequenceTheorems, TLAPS

USE DEF Token, Request, Execution, ApprovalRow, Answer, Delivery

(* An element of a sequence is one of the set it is over.                  *)
LEMMA SeqElement ==
  ASSUME NEW S, NEW s \in Seq(S), NEW i \in DOMAIN s
  PROVE  s[i] \in S
  OBVIOUS

(* An operator without a handler has a handler's type.                     *)
LEMMA AwayType == Away \in Handler
  BY DEF Away, Handler

(* A gateway thread with nothing to do has a thread's type.                *)
LEMMA IdleType == Idle \in Worker
  BY DEF Idle, Worker, Steps

(* A thread at its next check is a thread still.                           *)
LEMMA WorkerAdvances ==
  ASSUME NEW x \in Worker, NEW pc \in Steps
  PROVE  [x EXCEPT !.pc = pc] \in Worker
  BY DEF Worker

(* So is one that takes up a request,                                      *)
LEMMA WorkerAccepts ==
  ASSUME NEW r \in Request, NEW late \in BOOLEAN
  PROVE  [Idle EXCEPT !.pc = "nonce", !.token = r.token, !.key = r.key, !.from = r.from,
                      !.late = late] \in Worker
  BY DEF Worker, Idle, Steps

(* one that has read the proposal's own execution,                         *)
LEMMA WorkerReadsPrior ==
  ASSUME NEW x \in Worker, NEW own \in Execution \cup {None}
  PROVE  [x EXCEPT !.pc = "approval", !.prior = own] \in Worker
  BY DEF Worker, Steps

(* and one that has heard from the mail provider.                          *)
LEMMA WorkerDelivers ==
  ASSUME NEW x \in Worker, NEW ok \in BOOLEAN
  PROVE  [x EXCEPT !.pc = "finish", !.ok = ok] \in Worker
  BY DEF Worker, Steps

(* The tables start with their types.                                      *)
LEMMA InitType == Init => TypeOK
  <1> SUFFICES ASSUME Init PROVE TypeOK
    OBVIOUS
  <1>1. TablesTypeOK
    BY DEF Init, TablesInit, TablesTypeOK, ProposalStatuses, RunStatuses
  <1>2. DecisionsTypeOK
    BY AwayType DEF Init, DecisionsInit, DecisionsTypeOK, Sweep
  <1>3. GatewayTypeOK
    BY IdleType DEF Init, GatewayInit, GatewayTypeOK
  <1> QED
    BY <1>1, <1>2, <1>3 DEF Init, TypeOK

(* Settling leaves a run status behind (settle_run_if_decided).            *)
LEMMA SettleType ==
  ASSUME TypeOK, NEW r \in Runs, NEW st
  PROVE  SettleIfDecided(r, st) \in RunStatuses
  BY DEF TypeOK, TablesTypeOK, SettleIfDecided, RunStatuses

(* Expiring leaves a proposal status behind (expire_stale_proposals).      *)
LEMMA ExpireType ==
  ASSUME TypeOK, NEW ps
  PROVE  Expire(ps) \in [Proposals -> ProposalStatuses]
  BY DEF TypeOK, TablesTypeOK, Expire, ProposalStatuses

(* A committed decision keeps the types: proposal, approvals row, token    *)
(* and run.                                                                *)
LEMMA DecideType ==
  ASSUME TypeOK, NEW o \in Operators, NEW base, base \in [Proposals -> ProposalStatuses],
         NEW loaded \in Letters, op[o].proposal \in Proposals,
         Decide(o, base, loaded), UNCHANGED <<gatewayVars, replays, faults>>
  PROVE  TypeOK'
  <1>0. op[o] \in Handler
    BY DEF TypeOK, DecisionsTypeOK
  <1>1. CASE Approve(o, base, loaded)
    <2> USE <1>1
    <2>1. PICK n \in FreshNonces :
             LET p == op[o].proposal
                 t == [nonce |-> n, proposal |-> p, letter |-> ApprovedLetter(o, loaded),
                       approver |-> o]
             IN  /\ approvals' = Append(approvals,
                        [proposal |-> p, decision |-> "approve", actor |-> o, nonce |-> n,
                         read |-> IF op[o].edit = None THEN op[o].viewed ELSE op[o].edit])
                 /\ minted' = minted \cup {t}
                 /\ op' = [op EXCEPT ![o] = [@ EXCEPT !.pc = "minted", !.token = t]]
      BY DEF Approve
    <2>2. n \in Nonces
      BY DEF FreshNonces
    <2>3. ApprovedLetter(o, loaded) \in Letters
      BY <1>0 DEF Handler, ApprovedLetter
    <2>4. approvals' \in Seq(ApprovalRow)
      BY <2>1, <2>2, <1>0 DEF Handler, TypeOK, TablesTypeOK
    <2>5. minted' \subseteq Token
      BY <2>1, <2>2, <2>3 DEF TypeOK, TablesTypeOK
    <2>6. op' \in [Operators -> Handler]
      BY <2>1, <2>2, <2>3, <1>0 DEF Handler, TypeOK, DecisionsTypeOK
    <2>7. status' \in [Proposals -> ProposalStatuses]
      BY DEF Approve, ProposalStatuses
    <2>8. letter' \in [Proposals -> Letters]
      BY <1>0 DEF Approve, StoredLetter, TypeOK, TablesTypeOK, Handler
    <2> QED
      BY <2>4, <2>5, <2>6, <2>7, <2>8
      DEF Approve, Decide, TypeOK, TablesTypeOK, DecisionsTypeOK, GatewayTypeOK, gatewayVars
  <1>2. CASE Reject(o, base, loaded)
    <2> USE <1>2
    <2>1. approvals' \in Seq(ApprovalRow)
      BY <1>0 DEF Reject, Handler, TypeOK, TablesTypeOK
    <2>2. status' \in [Proposals -> ProposalStatuses]
      BY DEF Reject, ProposalStatuses
    <2>3. runStatus' \in [Runs -> RunStatuses]
      BY SettleType, RunOfAssumption DEF Reject, TypeOK, TablesTypeOK
    <2>4. op' \in [Operators -> Handler]
      BY AwayType DEF Reject, TypeOK, DecisionsTypeOK
    <2> QED
      BY <2>1, <2>2, <2>3, <2>4
      DEF Reject, Decide, TypeOK, TablesTypeOK, DecisionsTypeOK, GatewayTypeOK, gatewayVars
  <1>3. CASE SaveEdit(o, base, loaded)
    <2> USE <1>3
    <2>1. letter' \in [Proposals -> Letters]
      BY <1>0 DEF SaveEdit, StoredLetter, TypeOK, TablesTypeOK, Handler
    <2>2. op' \in [Operators -> Handler]
      BY AwayType DEF SaveEdit, TypeOK, DecisionsTypeOK
    <2> QED
      BY <2>1, <2>2
      DEF SaveEdit, Decide, TypeOK, TablesTypeOK, DecisionsTypeOK, GatewayTypeOK, gatewayVars
  <1> QED
    BY <1>1, <1>2, <1>3 DEF Decide

(* A decision that is refused or rolled back keeps the types.              *)
LEMMA RollBackType ==
  ASSUME TypeOK, NEW o \in Operators, RollBack(o), UNCHANGED <<gatewayVars, replays, faults>>
  PROVE  TypeOK'
  BY AwayType DEF RollBack, TypeOK, TablesTypeOK, DecisionsTypeOK, GatewayTypeOK, gatewayVars,
                  tables, wire

(* So does every step of an operator's handler,                            *)
LEMMA HandlerStepType ==
  ASSUME TypeOK, InFlight, NEW o \in Operators, HandlerStep(o),
         UNCHANGED <<gatewayVars, replays, faults>>
  PROVE  TypeOK'
  <1> USE DEF TypeOK, TablesTypeOK, DecisionsTypeOK, GatewayTypeOK, gatewayVars, tables, wire
  <1>0. op[o] \in Handler
    OBVIOUS
  <1>1. CASE LoadPending(o)
    <2>1. op[o].proposal \in Proposals
      BY <1>1 DEF LoadPending, InFlight
    <2>2. CASE RollBack(o)
      BY <2>2, RollBackType
    <2>3. CASE ~RollBack(o)
      <3>0. op' = [op EXCEPT ![o] = [@ EXCEPT !.pc = "loaded",
                                              !.loaded = letter[op[o].proposal]]]
        BY <1>1, <2>3 DEF LoadPending
      <3>1. op' \in [Operators -> Handler]
        BY <1>0, <2>1, <3>0 DEF Handler
      <3>2. UNCHANGED <<tables, wire, outbox, sweep, gaveUp, visits>>
        BY <1>1, <2>3 DEF LoadPending
      <3> QED
        BY <3>1, <3>2
    <2> QED
      BY <2>2, <2>3
  <1>2. CASE Commit(o)
    BY <1>2, DecideType DEF Commit, InFlight
  <1>3. CASE DecideUnderLock(o)
    <2>1. op[o].proposal \in Proposals
      BY <1>3 DEF DecideUnderLock, InFlight
    <2>2. CASE RollBack(o)
      BY <2>2, RollBackType
    <2>3. CASE ~RollBack(o)
      <3>1. Decide(o, Expire(op[o].stale), letter[op[o].proposal])
        BY <1>3, <2>3 DEF DecideUnderLock
      <3>2. letter[op[o].proposal] \in Letters
        BY <2>1
      <3> QED
        BY <2>1, <3>1, <3>2, DecideType, ExpireType
    <2> QED
      BY <2>2, <2>3
  <1>4. CASE Post(o)
    <2>0. op[o].token \in Token
      BY <1>4 DEF Post, InFlight
    <2>1. PICK k \in FreshKeys :
            /\ inbox' = inbox \cup {[token |-> op[o].token, key |-> k, from |-> o]}
            /\ usedKeys' = usedKeys \cup {k}
            /\ op' = [op EXCEPT ![o] = [@ EXCEPT !.pc = "calling", !.key = k]]
      BY <1>4 DEF Post
    <2>2. k \in Keys
      BY DEF FreshKeys
    <2>3. op' \in [Operators -> Handler]
      BY <1>0, <2>1, <2>2 DEF Handler
    <2>4. inbox' \subseteq Request
      BY <2>0, <2>1, <2>2
    <2> QED
      BY <1>4, <2>1, <2>2, <2>3, <2>4 DEF Post
  <1>5. CASE HearAnswer(o)
    BY <1>5, AwayType DEF HearAnswer
  <1>6. CASE Timeout(o)
    <2>1. op[o].token \in Token
      BY <1>6 DEF Timeout, InFlight
    <2> QED
      BY <1>6, <2>1, AwayType DEF Timeout
  <1> QED
    BY <1>1, <1>2, <1>3, <1>4, <1>5, <1>6 DEF HandlerStep

(* every step of the app,                                                  *)
LEMMA DecisionsType ==
  ASSUME TypeOK, InFlight, DecisionsNext, UNCHANGED <<gatewayVars, replays, faults>>
  PROVE  TypeOK'
  <1> USE DEF TypeOK, TablesTypeOK, DecisionsTypeOK, GatewayTypeOK, gatewayVars, tables, wire
  <1>1. ASSUME NEW o \in Operators, NEW p \in Proposals, View(o, p)
        PROVE  TypeOK'
    <2>1. op' \in [Operators -> Handler]
      BY <1>1 DEF View, Away, Handler
    <2> QED
      BY <1>1, <2>1 DEF View
  <1>2. ASSUME NEW o \in Operators, NEW kind \in Kinds, NEW edit \in Letters \cup {None},
               Submit(o, kind, edit)
        PROVE  TypeOK'
    <2>1. op[o] \in Handler /\ Stale \subseteq Proposals
      BY DEF Stale
    <2>2. op' \in [Operators -> Handler]
      BY <1>2, <2>1 DEF Submit, Handler
    <2> QED
      BY <1>2, <2>2 DEF Submit
  <1>3. ASSUME NEW o \in Operators, Probe(o)
        PROVE  TypeOK'
    <2>1. op[o] \in Handler /\ op[o].proposal \in Proposals
      BY <1>3 DEF Probe, InFlight
    <2>2. PICK n \in FreshNonces :
             LET p == op[o].proposal
                 t == [nonce |-> n, proposal |-> p, letter |-> letter[p], approver |-> o]
             IN  /\ minted' = minted \cup {t}
                 /\ op' = [op EXCEPT ![o] = [@ EXCEPT !.pc = "minted", !.kind = "probe",
                                                      !.token = t]]
      BY <1>3 DEF Probe
    <2>3. n \in Nonces /\ letter[op[o].proposal] \in Letters
      BY <2>1 DEF FreshNonces
    <2>4. minted' \subseteq Token
      BY <2>1, <2>2, <2>3
    <2>5. op' \in [Operators -> Handler]
      BY <1>3, <2>1, <2>2, <2>3 DEF Handler, Probe
    <2> QED
      BY <1>3, <2>4, <2>5 DEF Probe
  <1>4. ASSUME NEW s \in Sweepers, SweepRead(s)
        PROVE  TypeOK'
    <2>1. sweep' \in [Sweepers -> Sweep]
      BY <1>4 DEF SweepRead, Sweep, Stale
    <2> QED
      BY <1>4, <2>1 DEF SweepRead
  <1>5. ASSUME NEW s \in Sweepers, SweepWrite(s)
        PROVE  TypeOK'
    <2>1. sweep' \in [Sweepers -> Sweep]
      BY <1>5 DEF SweepWrite, Sweep
    <2>2. status' \in [Proposals -> ProposalStatuses]
      BY <1>5, ExpireType DEF SweepWrite
    <2>3. runStatus' \in [Runs -> RunStatuses]
      BY <1>5, SettleType DEF SweepWrite
    <2> QED
      BY <1>5, <2>1, <2>2, <2>3 DEF SweepWrite
  <1>6. ASSUME NEW r \in Runs, AwaitApproval(r)
        PROVE  TypeOK'
    BY <1>6 DEF AwaitApproval, RunStatuses, decisionVars
  <1>7. ASSUME NEW p \in Proposals, Lapse(p)
        PROVE  TypeOK'
    BY <1>7 DEF Lapse, decisionVars
  <1> QED
    BY <1>1, <1>2, <1>3, <1>4, <1>5, <1>6, <1>7, HandlerStepType DEF DecisionsNext

(* every step of a gateway thread, whose token was minted and whose claim  *)
(* is a row,                                                               *)
LEMMA GatewayType ==
  ASSUME TypeOK, InFlight, ApprovedInHand, ClaimHeld, GatewayNext,
         UNCHANGED <<decisionVars, replays, faults>>
  PROVE  TypeOK'
  <1> USE DEF TypeOK, TablesTypeOK, DecisionsTypeOK, GatewayTypeOK, decisionVars, tables, wire
  <1>a. ASSUME NEW w \in Workers, NEW code \in Codes, worker[w].pc # "idle", Answering(w, code)
        PROVE  worker' \in [Workers -> Worker] /\ answers' \subseteq Answer
    <2>1. worker[w].token \in Token /\ worker[w].key \in Keys /\ worker[w] \in Worker
      BY <1>a DEF InFlight
    <2>2. worker' \in [Workers -> Worker]
      BY <1>a, IdleType DEF Answering
    <2>3. answers' \subseteq Answer
      BY <1>a, <2>1 DEF Answering, Worker
    <2> QED
      BY <2>2, <2>3
  <1>b. ASSUME NEW w \in Workers, NEW pc \in Steps, Advance(w, pc)
        PROVE  worker' \in [Workers -> Worker] /\ answers' \subseteq Answer
    <2>1. [worker[w] EXCEPT !.pc = pc] \in Worker
      BY WorkerAdvances
    <2> QED
      BY <1>b, <2>1 DEF Advance
  <1>1. ASSUME NEW w \in Workers, NEW r \in inbox, Accept(w, r)
        PROVE  TypeOK'
    <2>1. r \in Request
      OBVIOUS
    <2>2. worker' \in [Workers -> Worker]
      <3>1. CASE TokenExpired(r.token)
        BY <1>1, <3>1 DEF Accept
      <3>2. CASE ~TokenExpired(r.token)
        <4>1. worker' = [worker EXCEPT ![w] =
                [Idle EXCEPT !.pc = "nonce", !.token = r.token, !.key = r.key, !.from = r.from,
                             !.late = r.token.proposal \in lapsed]]
          BY <1>1, <3>2 DEF Accept
        <4> DEFINE late == r.token.proposal \in lapsed
        <4>2. late \in BOOLEAN
          OBVIOUS
        <4> HIDE DEF late
        <4>3. [Idle EXCEPT !.pc = "nonce", !.token = r.token, !.key = r.key, !.from = r.from,
                           !.late = late] \in Worker
          BY <2>1, <4>2, WorkerAccepts
        <4> QED
          BY <4>1, <4>3 DEF late
      <3> QED
        BY <3>1, <3>2
    <2>3. answers' \subseteq Answer
      BY <1>1, <2>1 DEF Accept, Codes
    <2> QED
      BY <1>1, <2>2, <2>3 DEF Accept
  <1>2. ASSUME NEW w \in Workers, ReadNonce(w)
        PROVE  TypeOK'
    BY <1>2, <1>a, <1>b DEF ReadNonce, ReadOnly, Steps, Codes
  <1>3. ASSUME NEW w \in Workers, ReadProposal(w)
        PROVE  TypeOK'
    <2>1. worker[w] \in Worker /\ worker[w].token.proposal \in Proposals
      BY <1>3 DEF ReadProposal, InFlight
    <2>2. worker' \in [Workers -> Worker]
      BY <1>3, <2>1 DEF ReadProposal, Worker, Steps
    <2> QED
      BY <1>3, <2>2 DEF ReadProposal, ReadOnly
  <1>4. ASSUME NEW w \in Workers, ReadOwnExecution(w)
        PROVE  TypeOK'
    <2> DEFINE e   == executions[worker[w].key]
               own == IF e # None /\ e.proposal = worker[w].token.proposal THEN e ELSE None
    <2>1. worker[w] \in Worker /\ own \in Execution \cup {None}
      BY <1>4 DEF ReadOwnExecution, InFlight
    <2>2. CASE MayExecute(worker[w].seen, worker[w].late, own)
      <3>1. worker' = [worker EXCEPT ![w] = [@ EXCEPT !.pc = "approval", !.prior = own]]
            /\ UNCHANGED answers
        BY <1>4, <2>2 DEF ReadOwnExecution
      <3> HIDE DEF own
      <3>2. [worker[w] EXCEPT !.pc = "approval", !.prior = own] \in Worker
        BY <2>1, WorkerReadsPrior
      <3> QED
        BY <1>4, <3>1, <3>2 DEF ReadOwnExecution, ReadOnly
    <2>3. CASE ~MayExecute(worker[w].seen, worker[w].late, own)
      BY <1>4, <1>a, <2>3 DEF ReadOwnExecution, ReadOnly, Codes
    <2> QED
      BY <2>2, <2>3
  <1>5. ASSUME NEW w \in Workers, ReadApproval(w)
        PROVE  TypeOK'
    BY <1>5, <1>a, <1>b DEF ReadApproval, ReadOnly, Steps, Codes
  <1>6. ASSUME NEW w \in Workers, ReadKey(w)
        PROVE  TypeOK'
    BY <1>6, <1>a, <1>b DEF ReadKey, ReadOnly, Steps, Codes, ReplayCode
  <1>7. ASSUME NEW w \in Workers, Claim(w)
        PROVE  TypeOK'
    <2>1. worker[w].token \in Token /\ worker[w].key \in Keys
      BY <1>7 DEF Claim, InFlight
    <2>2. worker' \in [Workers -> Worker] /\ answers' \subseteq Answer
      BY <1>7, <1>b DEF Claim, Steps
    <2>3. consumed' \in [Nonces -> Keys \cup {None}]
      BY <1>7, <2>1 DEF Claim, Consume
    <2>4. executions' \in [Keys -> Execution \cup {None}]
      BY <1>7, <2>1 DEF Claim
    <2> QED
      BY <1>7, <2>2, <2>3, <2>4 DEF Claim
  <1>8. ASSUME NEW w \in Workers, AnswerFromTheWinner(w)
        PROVE  TypeOK'
    BY <1>8, <1>a DEF AnswerFromTheWinner, ReadOnly, Codes
  <1>9. ASSUME NEW w \in Workers, Deliver(w)
        PROVE  TypeOK'
    <2>1. worker[w].token \in Token /\ worker[w].key \in Keys /\ worker[w] \in Worker
      BY <1>9 DEF Deliver, InFlight
    <2>2. worker[w].letter \in Letters
      BY <1>9, <2>1 DEF Deliver, ApprovedInHand
    <2>3. worker' \in [Workers -> Worker]
      <3>1. PICK ok \in BOOLEAN :
               worker' = [worker EXCEPT ![w] = [@ EXCEPT !.pc = "finish", !.ok = ok]]
        BY <1>9 DEF Deliver
      <3>2. [worker[w] EXCEPT !.pc = "finish", !.ok = ok] \in Worker
        BY <2>1, WorkerDelivers
      <3> QED
        BY <3>1, <3>2
    <2>4. outbox' \in Seq(Delivery)
      <3> DEFINE d == [proposal |-> worker[w].token.proposal, letter |-> LetterToSend(w),
                       nonce |-> worker[w].token.nonce, key |-> worker[w].key]
      <3>1. d \in Delivery
        BY <2>1, <2>2 DEF LetterToSend
      <3>2. outbox' \in {outbox, Append(outbox, d)}
        BY <1>9 DEF Deliver
      <3> HIDE DEF d
      <3>3. outbox \in Seq(Delivery) /\ Append(outbox, d) \in Seq(Delivery)
        BY <3>1
      <3> QED
        BY <3>2, <3>3
    <2> QED
      BY <1>9, <2>3, <2>4 DEF Deliver
  <1>10. ASSUME NEW w \in Workers, Finish(w)
         PROVE  TypeOK'
    <2>1. worker[w].token \in Token /\ worker[w].key \in Keys
      BY <1>10 DEF Finish, InFlight
    <2>2. executions[worker[w].key] \in Execution
      <3>1. executions[worker[w].key] =
               [proposal |-> worker[w].token.proposal, status |-> "pending"]
        BY <1>10 DEF Finish, ClaimHeld, Holding
      <3> QED
        BY <2>1, <3>1
    <2>3. executions' \in [Keys -> Execution \cup {None}]
      BY <1>10, <2>1, <2>2 DEF Finish, Recorded, ExecutionResult
    <2>4. status' \in [Proposals -> ProposalStatuses]
      BY <1>10, <2>1 DEF Finish, Recorded, ProposalResult, ProposalStatuses
    <2>5. worker' \in [Workers -> Worker] /\ answers' \subseteq Answer
      BY <1>10, <1>a DEF Finish, Recorded, Codes
    <2> QED
      BY <1>10, <2>3, <2>4, <2>5 DEF Finish, Recorded
  <1>11. ASSUME NEW t \in minted, ExpireToken(t)
         PROVE  TypeOK'
    <2>1. t.nonce \in Nonces
      OBVIOUS
    <2> QED
      BY <1>11, <2>1 DEF ExpireToken
  <1> QED
    BY <1>1, <1>2, <1>3, <1>4, <1>5, <1>6, <1>7, <1>8, <1>9, <1>10, <1>11
    DEF GatewayNext, WorkerStep

(* and a replayed or lost request and a fault.                             *)
LEMMA EnvironmentType ==
  ASSUME TypeOK, InFlight, Fault \/ \E t \in minted, k \in Keys : Replay(t, k)
  PROVE  TypeOK'
  <1> USE DEF TypeOK, TablesTypeOK, DecisionsTypeOK, GatewayTypeOK, gatewayVars, decisionVars,
              tables, wire
  <1>1. ASSUME NEW t \in minted, NEW k \in Keys, Replay(t, k)
        PROVE  TypeOK'
    <2>1. [token |-> t, key |-> k, from |-> None] \in Request
      OBVIOUS
    <2> QED
      BY <1>1, <2>1, BoundsAssumption DEF Replay
  <1>2. CASE Fault
    <2>1. faults' \in Nat
      BY <1>2 DEF Fault
    <2>2. ASSUME NEW r \in inbox, Lose(r)
          PROVE  TypeOK'
      BY <1>2, <2>1, <2>2 DEF Lose, Fault
    <2>3. ASSUME NEW o \in Operators, HandlerDies(o), UNCHANGED gatewayVars
          PROVE  TypeOK'
      BY <1>2, <2>1, <2>3, AwayType DEF HandlerDies, RollBack, Fault
    <2>4. ASSUME NEW w \in Workers, WorkerDies(w), UNCHANGED decisionVars
          PROVE  TypeOK'
      BY <1>2, <2>1, <2>4, IdleType DEF WorkerDies, Fault
    <2> QED
      BY <1>2, <2>2, <2>3, <2>4 DEF Fault
  <1> QED
    BY <1>1, <1>2

-----------------------------------------------------------------------------
(* What no step of the app, of a replay or of a lost request can touch. *)
AppFrame ==
    /\ UNCHANGED <<worker, consumed, executions, outbox>>
    /\ minted \subseteq minted'
    /\ \A i \in DOMAIN approvals : i \in DOMAIN approvals' /\ approvals'[i] = approvals[i]
    /\ \A p \in Proposals : status'[p] = "executed" => status[p] = "executed"

(* A decision touches nothing the gateway's safety rests on, and executes  *)
(* nothing.                                                                *)
LEMMA DecideFrame ==
  ASSUME TypeOK, NEW o \in Operators, NEW base,
         \A p \in Proposals : base[p] = "executed" => status[p] = "executed",
         base \in [Proposals -> ProposalStatuses],
         NEW loaded \in Letters, Decide(o, base, loaded), UNCHANGED gatewayVars
  PROVE  AppFrame
  <1> USE DEF AppFrame, Decide, gatewayVars
  <1>0. approvals \in Seq(ApprovalRow)
    BY DEF TypeOK, TablesTypeOK
  <1>1. CASE Approve(o, base, loaded)
    <2>1. minted \subseteq minted'
      BY <1>1 DEF Approve
    <2>2. \A i \in DOMAIN approvals : i \in DOMAIN approvals' /\ approvals'[i] = approvals[i]
      <3>1. PICK row : approvals' = Append(approvals, row)
        BY <1>1 DEF Approve
      <3> QED
        BY <1>0, <3>1
    <2>3. \A p \in Proposals : status'[p] = "executed" => status[p] = "executed"
      BY <1>1 DEF Approve
    <2> QED
      BY <2>1, <2>2, <2>3
  <1>2. CASE Reject(o, base, loaded)
    <2>1. \A i \in DOMAIN approvals : i \in DOMAIN approvals' /\ approvals'[i] = approvals[i]
      BY <1>0, <1>2 DEF Reject
    <2>2. \A p \in Proposals : status'[p] = "executed" => status[p] = "executed"
      BY <1>2 DEF Reject
    <2> QED
      BY <1>2, <2>1, <2>2 DEF Reject
  <1>3. CASE SaveEdit(o, base, loaded)
    BY <1>3 DEF SaveEdit
  <1> QED
    BY <1>1, <1>2, <1>3

(* Expiring makes nothing executed.                                        *)
LEMMA ExpireFrame ==
  ASSUME NEW ps
  PROVE  \A p \in Proposals : Expire(ps)[p] = "executed" => status[p] = "executed"
  BY DEF Expire

(* No step of the app touches what the gateway's safety rests on.          *)
LEMMA DecisionsFrame ==
  ASSUME TypeOK, InFlight, DecisionsNext, UNCHANGED gatewayVars
  PROVE  AppFrame
  <1> USE DEF AppFrame, gatewayVars, tables, wire, decisionVars
  <1>1. ASSUME NEW o \in Operators, NEW p \in Proposals, View(o, p)
        PROVE  AppFrame
    BY <1>1 DEF View
  <1>2. ASSUME NEW o \in Operators, NEW kind \in Kinds, NEW edit \in Letters \cup {None},
               Submit(o, kind, edit)
        PROVE  AppFrame
    BY <1>2 DEF Submit
  <1>3. ASSUME NEW o \in Operators, Probe(o)
        PROVE  AppFrame
    BY <1>3 DEF Probe
  <1>4. ASSUME NEW o \in Operators, HandlerStep(o)
        PROVE  AppFrame
    <2>1. CASE LoadPending(o)
      BY <2>1 DEF LoadPending, RollBack
    <2>2. CASE Commit(o)
      BY <2>2, DecideFrame DEF Commit, InFlight, TypeOK, TablesTypeOK
    <2>3. CASE DecideUnderLock(o)
      <3>1. CASE RollBack(o)
        BY <3>1 DEF RollBack
      <3>2. CASE Decide(o, Expire(op[o].stale), letter[op[o].proposal])
        <4>1. letter[op[o].proposal] \in Letters
          BY <2>3 DEF DecideUnderLock, InFlight, TypeOK, TablesTypeOK
        <4> QED
          BY <3>2, <4>1, DecideFrame, ExpireFrame, ExpireType
      <3> QED
        BY <2>3, <3>1, <3>2 DEF DecideUnderLock
    <2>4. CASE Post(o)
      BY <2>4 DEF Post
    <2>5. CASE HearAnswer(o)
      BY <2>5 DEF HearAnswer
    <2>6. CASE Timeout(o)
      BY <2>6 DEF Timeout
    <2> QED
      BY <1>4, <2>1, <2>2, <2>3, <2>4, <2>5, <2>6 DEF HandlerStep
  <1>5. ASSUME NEW s \in Sweepers, SweepRead(s) \/ SweepWrite(s)
        PROVE  AppFrame
    BY <1>5, ExpireFrame DEF SweepRead, SweepWrite
  <1>6. ASSUME NEW r \in Runs, AwaitApproval(r)
        PROVE  AppFrame
    BY <1>6 DEF AwaitApproval
  <1>7. ASSUME NEW p \in Proposals, Lapse(p)
        PROVE  AppFrame
    BY <1>7 DEF Lapse
  <1> QED
    BY <1>1, <1>2, <1>3, <1>4, <1>5, <1>6, <1>7 DEF DecisionsNext

(* Such a step keeps what threads hold, who claimed what, and the safety   *)
(* properties.                                                             *)
LEMMA FrameKeepsSafe ==
  ASSUME TypeOK, TypeOK', ApprovedInHand, ClaimHeld, Safe, AppFrame
  PROVE  ApprovedInHand' /\ ClaimHeld' /\ Safe'
  <1>0. ASSUME NEW p, NEW j \in ApproveRows(p)
        PROVE  j \in ApproveRows(p)' /\ approvals'[j] = approvals[j]
    BY <1>0 DEF ApproveRows, AppFrame
  <1>1. ApprovedInHand'
    <2> SUFFICES ASSUME NEW w \in Workers, worker[w].pc \in {"key", "claim", "send"}
                 PROVE  /\ worker[w].letter = worker[w].token.letter
                        /\ \E j \in ApproveRows(worker[w].token.proposal)' :
                               approvals'[j].nonce = worker[w].token.nonce
      BY DEF ApprovedInHand, AppFrame
    <2>1. PICK j \in ApproveRows(worker[w].token.proposal) :
             approvals[j].nonce = worker[w].token.nonce
      BY DEF ApprovedInHand
    <2>2. worker[w].letter = worker[w].token.letter
      BY DEF ApprovedInHand
    <2>3. worker' = worker
      BY DEF AppFrame
    <2> QED
      BY <1>0, <2>1, <2>2, <2>3
  <1>2. ClaimHeld'
    BY DEF ClaimHeld, Holding, AppFrame
  <1>3. SentAsApproved'
    <2> SUFFICES ASSUME NEW i \in DOMAIN outbox
                 PROVE  /\ \E j \in ApproveRows(outbox[i].proposal)' :
                               approvals'[j].nonce = outbox[i].nonce
                        /\ \E t \in minted' : /\ t.nonce = outbox[i].nonce
                                              /\ t.proposal = outbox[i].proposal
                                              /\ t.letter = outbox[i].letter
      BY DEF SentAsApproved, AppFrame
    <2>1. PICK j \in ApproveRows(outbox[i].proposal) : approvals[j].nonce = outbox[i].nonce
      BY DEF Safe, SentAsApproved
    <2>2. outbox' = outbox /\ minted \subseteq minted'
      BY DEF AppFrame
    <2>3. \E j1 \in ApproveRows(outbox[i].proposal)' : approvals'[j1].nonce = outbox[i].nonce
      BY <1>0, <2>1, <2>2
    <2> QED
      BY <2>2, <2>3 DEF Safe, SentAsApproved
  <1>4. OneSendPerNonce'
    BY DEF Safe, OneSendPerNonce, AppFrame
  <1>5. SentIsOnRecord'
    BY DEF Safe, SentIsOnRecord, AppFrame
  <1>6. SuccessIsReal'
    BY DEF Safe, SuccessIsReal, AppFrame
  <1>7. ClaimsPairUp'
    BY DEF Safe, ClaimsPairUp, AppFrame
  <1> QED
    BY <1>1, <1>2, <1>3, <1>4, <1>5, <1>6, <1>7 DEF Safe

(* Every request the app posts carries a token that was minted,            *)
LEMMA DecisionsInFlight ==
  ASSUME TypeOK, InFlight, DecisionsNext, UNCHANGED <<gatewayVars, replays, faults>>
  PROVE  InFlight'
  <1> USE DEF InFlight, gatewayVars, tables, wire, decisionVars
  <1>0. op \in [Operators -> Handler] /\ letter \in [Proposals -> Letters]
    BY DEF TypeOK, TablesTypeOK, DecisionsTypeOK
  <1>1. ASSUME NEW o \in Operators, NEW p \in Proposals, View(o, p)
        PROVE  InFlight'
    BY <1>0, <1>1 DEF View, Away
  <1>2. ASSUME NEW o \in Operators, NEW kind \in Kinds, NEW edit \in Letters \cup {None},
               Submit(o, kind, edit)
        PROVE  InFlight'
    BY <1>0, <1>2 DEF Submit, Handler
  <1>3. ASSUME NEW o \in Operators, Probe(o)
        PROVE  InFlight'
    BY <1>0, <1>3 DEF Probe, Handler
  <1>d. ASSUME NEW o \in Operators, NEW base, NEW loaded, Decide(o, base, loaded),
               op[o].pc # "away"
        PROVE  InFlight'
    <2>1. CASE Approve(o, base, loaded)
      <3>1. PICK t : /\ minted' = minted \cup {t}
                     /\ op' = [op EXCEPT ![o] = [@ EXCEPT !.pc = "minted", !.token = t]]
        BY <2>1 DEF Approve
      <3>2. inbox' = inbox /\ worker' = worker
        BY <1>d DEF Decide
      <3> QED
        BY <1>0, <1>d, <3>1, <3>2 DEF Handler
    <2>2. CASE Reject(o, base, loaded)
      BY <1>0, <1>d, <2>2 DEF Decide, Reject, Away
    <2>3. CASE SaveEdit(o, base, loaded)
      BY <1>0, <1>d, <2>3 DEF Decide, SaveEdit, Away
    <2> QED
      BY <1>d, <2>1, <2>2, <2>3 DEF Decide
  <1>r. ASSUME NEW o \in Operators, RollBack(o)
        PROVE  InFlight'
    BY <1>0, <1>r DEF RollBack, Away
  <1>4. ASSUME NEW o \in Operators, HandlerStep(o)
        PROVE  InFlight'
    <2>1. CASE LoadPending(o)
      <3>1. CASE RollBack(o)
        BY <1>r, <3>1
      <3>2. CASE ~RollBack(o)
        <4>1. op' = [op EXCEPT ![o] = [@ EXCEPT !.pc = "loaded",
                                                !.loaded = letter[op[o].proposal]]]
              /\ inbox' = inbox /\ minted' = minted /\ worker' = worker
          BY <2>1, <3>2 DEF LoadPending
        <4>2. op[o].pc = "swept"
          BY <2>1 DEF LoadPending
        <4> QED
          BY <1>0, <4>1, <4>2 DEF Handler
      <3> QED
        BY <3>1, <3>2
    <2>2. CASE Commit(o)
      BY <2>2, <1>d DEF Commit
    <2>3. CASE DecideUnderLock(o)
      BY <2>3, <1>d, <1>r DEF DecideUnderLock
    <2>4. CASE Post(o)
      <3>1. PICK k \in FreshKeys :
              /\ inbox' = inbox \cup {[token |-> op[o].token, key |-> k, from |-> o]}
              /\ op' = [op EXCEPT ![o] = [@ EXCEPT !.pc = "calling", !.key = k]]
        BY <2>4 DEF Post
      <3>2. op[o].token \in minted
        BY <2>4 DEF Post
      <3>3. \A r \in inbox' : r.token \in minted
        BY <3>1, <3>2
      <3>4. \A q \in Operators : /\ op'[q].proposal = op[q].proposal
                                 /\ op'[q].token = op[q].token
                                 /\ op'[q].loaded = op[q].loaded
                                 /\ q # o => op'[q].pc = op[q].pc
        BY <1>0, <3>1 DEF Handler
      <3>5. op[o].pc = "minted" /\ op'[o].pc = "calling"
        BY <1>0, <2>4, <3>1 DEF Post, Handler
      <3>6. minted' = minted /\ worker' = worker
        BY <2>4 DEF Post
      <3> QED
        BY <3>2, <3>3, <3>4, <3>5, <3>6
    <2>5. CASE HearAnswer(o)
      BY <1>0, <2>5 DEF HearAnswer, Away
    <2>6. CASE Timeout(o)
      BY <1>0, <2>6 DEF Timeout, Away
    <2> QED
      BY <1>4, <2>1, <2>2, <2>3, <2>4, <2>5, <2>6 DEF HandlerStep
  <1>5. ASSUME NEW s \in Sweepers, SweepRead(s) \/ SweepWrite(s)
        PROVE  InFlight'
    BY <1>5 DEF SweepRead, SweepWrite
  <1>6. ASSUME NEW r \in Runs, AwaitApproval(r)
        PROVE  InFlight'
    BY <1>6 DEF AwaitApproval
  <1>7. ASSUME NEW p \in Proposals, Lapse(p)
        PROVE  InFlight'
    BY <1>7 DEF Lapse
  <1> QED
    BY <1>1, <1>2, <1>3, <1>4, <1>5, <1>6, <1>7 DEF DecisionsNext

(* the gateway adds none,                                                  *)
LEMMA GatewayInFlight ==
  ASSUME TypeOK, InFlight, GatewayNext, UNCHANGED <<decisionVars, replays, faults>>
  PROVE  InFlight'
  <1> USE DEF decisionVars, tables, wire
  <1>0. worker \in [Workers -> Worker] /\ inbox \subseteq Request
    BY DEF TypeOK, TablesTypeOK, GatewayTypeOK
  <1>1. ASSUME minted' = minted, inbox' \subseteq inbox,
               \A w \in Workers : worker'[w].pc # "idle" =>
                   worker'[w].token \in minted /\ worker'[w].key \in Keys
        PROVE  InFlight'
    BY <1>1 DEF InFlight
  <1>2. ASSUME NEW w \in Workers, NEW r \in inbox, Accept(w, r)
        PROVE  InFlight'
    <2>1. \A v \in Workers : worker'[v].pc # "idle" =>
              worker'[v].token \in minted /\ worker'[v].key \in Keys
      <3>1. r.token \in minted /\ r.key \in Keys
        BY <1>0 DEF InFlight
      <3>2. PICK late : worker' = worker \/ worker' = [worker EXCEPT ![w] =
                 [Idle EXCEPT !.pc = "nonce", !.token = r.token, !.key = r.key,
                              !.from = r.from, !.late = late]]
        BY <1>2 DEF Accept
      <3> QED
        BY <1>0, <3>1, <3>2 DEF InFlight, Idle
    <2> QED
      BY <1>1, <1>2, <2>1 DEF Accept
  <1>3. ASSUME NEW w \in Workers, worker[w].pc # "idle",
               minted' = minted, inbox' = inbox,
               \A v \in Workers : v # w => worker'[v] = worker[v],
               worker'[w] = Idle \/ /\ worker'[w].token = worker[w].token
                                    /\ worker'[w].key = worker[w].key
        PROVE  InFlight'
    BY <1>1, <1>3 DEF InFlight, Idle
  <1>a. ASSUME NEW w \in Workers, NEW code, Answering(w, code), worker[w].pc # "idle",
               minted' = minted, inbox' = inbox
        PROVE  InFlight'
    BY <1>0, <1>3, <1>a DEF Answering
  <1>b. ASSUME NEW w \in Workers, NEW pc, Advance(w, pc), worker[w].pc # "idle",
               minted' = minted, inbox' = inbox
        PROVE  InFlight'
    BY <1>0, <1>3, <1>b DEF Advance, Worker
  <1>4. ASSUME NEW w \in Workers, ReadNonce(w)
        PROVE  InFlight'
    BY <1>4, <1>a, <1>b DEF ReadNonce, ReadOnly
  <1>5. ASSUME NEW w \in Workers, ReadProposal(w)
        PROVE  InFlight'
    BY <1>0, <1>3, <1>5 DEF ReadProposal, ReadOnly, Worker
  <1>6. ASSUME NEW w \in Workers, ReadOwnExecution(w)
        PROVE  InFlight'
    <2>1. CASE Answering(w, "not_approved")
      BY <1>6, <1>a, <2>1 DEF ReadOwnExecution, ReadOnly
    <2>2. CASE ~Answering(w, "not_approved")
      <3>1. PICK own : worker' = [worker EXCEPT ![w] = [@ EXCEPT !.pc = "approval",
                                                                 !.prior = own]]
        BY <1>6, <2>2 DEF ReadOwnExecution
      <3> QED
        BY <1>0, <1>3, <1>6, <3>1 DEF ReadOwnExecution, ReadOnly, Worker
    <2> QED
      BY <2>1, <2>2
  <1>7. ASSUME NEW w \in Workers, ReadApproval(w)
        PROVE  InFlight'
    BY <1>7, <1>a, <1>b DEF ReadApproval, ReadOnly
  <1>8. ASSUME NEW w \in Workers, ReadKey(w)
        PROVE  InFlight'
    BY <1>8, <1>a, <1>b DEF ReadKey, ReadOnly
  <1>9. ASSUME NEW w \in Workers, Claim(w)
        PROVE  InFlight'
    BY <1>9, <1>b DEF Claim
  <1>10. ASSUME NEW w \in Workers, AnswerFromTheWinner(w)
         PROVE  InFlight'
    BY <1>10, <1>a DEF AnswerFromTheWinner, ReadOnly
  <1>11. ASSUME NEW w \in Workers, Deliver(w)
         PROVE  InFlight'
    BY <1>0, <1>3, <1>11 DEF Deliver, Worker
  <1>12. ASSUME NEW w \in Workers, Finish(w)
         PROVE  InFlight'
    BY <1>12, <1>a DEF Finish, Recorded
  <1>13. ASSUME NEW t \in minted, ExpireToken(t)
         PROVE  InFlight'
    BY <1>13 DEF ExpireToken, InFlight
  <1> QED
    BY <1>2, <1>4, <1>5, <1>6, <1>7, <1>8, <1>9, <1>10, <1>11, <1>12, <1>13
    DEF GatewayNext, WorkerStep

(* and a replayed one was minted too.                                      *)
LEMMA EnvironmentInFlight ==
  ASSUME TypeOK, InFlight, Fault \/ \E t \in minted, k \in Keys : Replay(t, k)
  PROVE  InFlight'
  <1> USE DEF InFlight, gatewayVars, decisionVars, tables, wire
  <1>0. op \in [Operators -> Handler] /\ worker \in [Workers -> Worker]
    BY DEF TypeOK, DecisionsTypeOK, GatewayTypeOK
  <1>1. ASSUME NEW t \in minted, NEW k \in Keys, Replay(t, k)
        PROVE  InFlight'
    BY <1>1 DEF Replay
  <1>2. ASSUME NEW r \in inbox, Lose(r)
        PROVE  InFlight'
    BY <1>2 DEF Lose
  <1>3. ASSUME NEW o \in Operators, HandlerDies(o), UNCHANGED gatewayVars
        PROVE  InFlight'
    BY <1>0, <1>3 DEF HandlerDies, RollBack, Away
  <1>4. ASSUME NEW w \in Workers, WorkerDies(w), UNCHANGED decisionVars
        PROVE  InFlight'
    BY <1>0, <1>4 DEF WorkerDies, Idle
  <1> QED
    BY <1>1, <1>2, <1>3, <1>4 DEF Fault

-----------------------------------------------------------------------------
(* A step of the app signs nothing, or one token whose nonce was never used *)
(* and which it alone may have approved.                                   *)
Grants ==
    \/ minted' = minted /\ ApprovedNonces' = ApprovedNonces
    \/ \E t : /\ t.nonce \in FreshNonces
              /\ minted' = minted \cup {t}
              /\ ApprovedNonces' \in {ApprovedNonces, ApprovedNonces \cup {t.nonce}}

(* A new approvals row adds its nonce to the approved ones if it approves. *)
LEMMA ApprovedNoncesGrow ==
  ASSUME NEW row, approvals \in Seq(ApprovalRow), approvals' = Append(approvals, row)
  PROVE  ApprovedNonces' = IF row.decision = "approve" THEN ApprovedNonces \cup {row.nonce}
                           ELSE ApprovedNonces
  <1>1. DOMAIN approvals' = DOMAIN approvals \cup {Len(approvals) + 1}
    OBVIOUS
  <1>2. \A i \in DOMAIN approvals : approvals'[i] = approvals[i]
    OBVIOUS
  <1>3. approvals'[Len(approvals) + 1] = row
    OBVIOUS
  <1> QED
    BY <1>1, <1>2, <1>3 DEF ApprovedNonces

(* A decision grants nothing, or one token under a fresh nonce with its    *)
(* row.                                                                    *)
LEMMA DecideGrants ==
  ASSUME TypeOK, NEW o \in Operators, NEW base, NEW loaded, Decide(o, base, loaded)
  PROVE  Grants
  <1>0. approvals \in Seq(ApprovalRow)
    BY DEF TypeOK, TablesTypeOK
  <1>1. CASE Approve(o, base, loaded)
    <2> DEFINE Row(n, t, row) ==
                 /\ t.nonce = n /\ row.nonce = n /\ row.decision = "approve"
                 /\ minted' = minted \cup {t}
                 /\ approvals' = Append(approvals, row)
    <2>1. \E n \in FreshNonces : \E t, row : Row(n, t, row)
      BY <1>1 DEF Approve
    <2>2. PICK n \in FreshNonces : \E t, row : Row(n, t, row)
      BY <2>1
    <2>3. PICK t, row : Row(n, t, row)
      BY <2>2
    <2> QED
      BY <1>0, <2>3, ApprovedNoncesGrow DEF Grants
  <1>2. CASE Reject(o, base, loaded)
    <2>1. PICK row : row.decision = "reject" /\ approvals' = Append(approvals, row)
      BY <1>2 DEF Reject
    <2>2. minted' = minted
      BY <1>2 DEF Reject
    <2> QED
      BY <1>0, <2>1, <2>2, ApprovedNoncesGrow DEF Grants
  <1>3. CASE SaveEdit(o, base, loaded)
    BY <1>3 DEF SaveEdit, Grants, ApprovedNonces
  <1> QED
    BY <1>1, <1>2, <1>3 DEF Decide

(* So does every step of the app.                                          *)
LEMMA DecisionsGrants ==
  ASSUME TypeOK, DecisionsNext
  PROVE  Grants
  <1> USE DEF tables, wire, decisionVars
  <1>0. ASSUME minted' = minted, approvals' = approvals
        PROVE  Grants
    BY <1>0 DEF Grants, ApprovedNonces
  <1>1. ASSUME NEW o \in Operators, NEW p \in Proposals, View(o, p)
        PROVE  Grants
    BY <1>0, <1>1 DEF View
  <1>2. ASSUME NEW o \in Operators, NEW kind, NEW edit, Submit(o, kind, edit)
        PROVE  Grants
    BY <1>0, <1>2 DEF Submit
  <1>3. ASSUME NEW o \in Operators, Probe(o)
        PROVE  Grants
    <2>1. PICK n, t : n \in FreshNonces /\ t.nonce = n /\ minted' = minted \cup {t}
      BY <1>3 DEF Probe
    <2>2. ApprovedNonces' = ApprovedNonces
      BY <1>3 DEF Probe, ApprovedNonces
    <2> QED
      BY <2>1, <2>2 DEF Grants
  <1>4. ASSUME NEW o \in Operators, HandlerStep(o)
        PROVE  Grants
    <2>1. CASE LoadPending(o)
      BY <1>0, <2>1 DEF LoadPending, RollBack
    <2>2. CASE Commit(o)
      BY <2>2, DecideGrants DEF Commit
    <2>3. CASE DecideUnderLock(o)
      <3>1. CASE RollBack(o)
        BY <1>0, <3>1 DEF RollBack
      <3>2. CASE ~RollBack(o)
        BY <2>3, <3>2, DecideGrants DEF DecideUnderLock
      <3> QED
        BY <3>1, <3>2
    <2>4. CASE Post(o)
      BY <1>0, <2>4 DEF Post
    <2>5. CASE HearAnswer(o) \/ Timeout(o)
      BY <1>0, <2>5 DEF HearAnswer, Timeout
    <2> QED
      BY <1>4, <2>1, <2>2, <2>3, <2>4, <2>5 DEF HandlerStep
  <1>5. ASSUME NEW s \in Sweepers, SweepRead(s) \/ SweepWrite(s)
        PROVE  Grants
    BY <1>0, <1>5 DEF SweepRead, SweepWrite
  <1>6. ASSUME NEW r \in Runs, AwaitApproval(r)
        PROVE  Grants
    BY <1>0, <1>6 DEF AwaitApproval
  <1>7. ASSUME NEW p \in Proposals, Lapse(p)
        PROVE  Grants
    BY <1>0, <1>7 DEF Lapse
  <1> QED
    BY <1>1, <1>2, <1>3, <1>4, <1>5, <1>6, <1>7 DEF DecisionsNext

(* Such a step keeps one token and one row per nonce.                      *)
LEMMA GrantsKeepNoncesUnique ==
  ASSUME NoncesUnique, Grants
  PROVE  NoncesUnique'
  <1>1. CASE minted' = minted /\ ApprovedNonces' = ApprovedNonces
    BY <1>1 DEF NoncesUnique
  <1>2. ASSUME NEW t, t.nonce \in FreshNonces, minted' = minted \cup {t},
               ApprovedNonces' \in {ApprovedNonces, ApprovedNonces \cup {t.nonce}}
        PROVE  NoncesUnique'
    <2>1. \A u \in minted : u.nonce # t.nonce
      BY <1>2 DEF FreshNonces
    <2>2. \A u, v \in minted' : u.nonce = v.nonce => u = v
      BY <1>2, <2>1 DEF NoncesUnique
    <2>3. \A n \in ApprovedNonces' : \E u \in minted' : u.nonce = n
      BY <1>2 DEF NoncesUnique
    <2> QED
      BY <2>2, <2>3 DEF NoncesUnique
  <1> QED
    BY <1>1, <1>2 DEF Grants

(* The gateway, replays and faults grant nothing (the app alone holds the  *)
(* key).                                                                   *)
LEMMA OthersGrantNothing ==
  ASSUME GatewayNext \/ Fault \/ \E t \in minted, k \in Keys : Replay(t, k)
  PROVE  minted' = minted /\ approvals' = approvals
  <1> USE DEF tables, wire
  <1>1. ASSUME NEW w \in Workers, WorkerStep(w)
        PROVE  minted' = minted /\ approvals' = approvals
    BY <1>1 DEF WorkerStep, Accept, ReadNonce, ReadProposal, ReadOwnExecution, ReadApproval,
                ReadKey, Claim, AnswerFromTheWinner, Deliver, Finish, Recorded, ReadOnly
  <1>2. ASSUME NEW t \in minted, ExpireToken(t)
        PROVE  minted' = minted /\ approvals' = approvals
    BY <1>2 DEF ExpireToken
  <1>3. CASE Fault
    BY <1>3 DEF Fault, Lose, HandlerDies, RollBack, WorkerDies
  <1> QED
    BY <1>1, <1>2, <1>3 DEF GatewayNext, Replay

-----------------------------------------------------------------------------
(* What a thread that holds a signed, approved letter knows. *)
InHand(x) == /\ x.letter = x.token.letter
             /\ \E j \in ApproveRows(x.token.proposal) : approvals[j].nonce = x.token.nonce

(* A thread that reads, answers or dies moves nothing anybody relies on. *)
LEMMA ThreadReads ==
  ASSUME NEW w \in Workers, ApprovedInHand, ClaimHeld, Safe,
         UNCHANGED <<minted, approvals, consumed, executions, outbox, status>>,
         \A v \in Workers : v # w => worker'[v] = worker[v],
         worker'[w].pc \notin {"send", "finish"},
         worker'[w].pc \in {"key", "claim"} => InHand(worker'[w])
  PROVE  ApprovedInHand' /\ ClaimHeld' /\ Safe'
  <1>1. ApprovedInHand'
    BY DEF ApprovedInHand, ApproveRows, InHand
  <1>2. ClaimHeld'
    BY DEF ClaimHeld, Holding
  <1>3. Safe'
    BY DEF Safe, SentAsApproved, OneSendPerNonce, SentIsOnRecord, SuccessIsReal, ClaimsPairUp,
           ApproveRows
  <1> QED
    BY <1>1, <1>2, <1>3

(* Taking a request, the seven checks, the loser's answer and a death keep *)
(* the invariant.                                                          *)
LEMMA ReadingSafe ==
  ASSUME TypeOK, InFlight, ApprovedInHand, ClaimHeld, Safe, NEW w \in Workers,
         \/ \E r \in inbox : Accept(w, r)
         \/ ReadNonce(w) \/ ReadProposal(w) \/ ReadOwnExecution(w) \/ ReadApproval(w)
         \/ ReadKey(w) \/ AnswerFromTheWinner(w) \/ WorkerDies(w)
  PROVE  ApprovedInHand' /\ ClaimHeld' /\ Safe'
  <1> USE DEF tables, wire, ReadOnly
  <1>0. worker \in [Workers -> Worker]
    BY DEF TypeOK, GatewayTypeOK
  <1>a. ASSUME NEW code, Answering(w, code),
               UNCHANGED <<minted, approvals, consumed, executions, outbox, status>>
        PROVE  ApprovedInHand' /\ ClaimHeld' /\ Safe'
    BY <1>0, <1>a, ThreadReads DEF Answering, Idle
  <1>b. ASSUME NEW pc, Advance(w, pc), pc \notin {"send", "finish"},
               pc \in {"key", "claim"} => InHand(worker[w]),
               UNCHANGED <<minted, approvals, consumed, executions, outbox, status>>
        PROVE  ApprovedInHand' /\ ClaimHeld' /\ Safe'
    <2>1. /\ worker'[w].pc = pc
          /\ worker'[w].token = worker[w].token
          /\ worker'[w].letter = worker[w].letter
          /\ \A v \in Workers : v # w => worker'[v] = worker[v]
      BY <1>0, <1>b DEF Advance, Worker
    <2> QED
      BY <1>b, <2>1, ThreadReads DEF InHand
  <1>1. ASSUME NEW r \in inbox, Accept(w, r)
        PROVE  ApprovedInHand' /\ ClaimHeld' /\ Safe'
    <2>1. /\ worker'[w].pc \in {"idle", "nonce"}
          /\ \A v \in Workers : v # w => worker'[v] = worker[v]
      <3>1. PICK late : worker' = worker \/ worker' = [worker EXCEPT ![w] =
                 [Idle EXCEPT !.pc = "nonce", !.token = r.token, !.key = r.key,
                              !.from = r.from, !.late = late]]
        BY <1>1 DEF Accept
      <3> QED
        BY <1>0, <1>1, <3>1 DEF Idle, Accept
    <2> QED
      BY <1>1, <2>1, ThreadReads DEF Accept
  <1>2. CASE ReadNonce(w)
    BY <1>2, <1>a, <1>b DEF ReadNonce
  <1>3. CASE ReadProposal(w)
    <2>1. worker'[w].pc = "own" /\ \A v \in Workers : v # w => worker'[v] = worker[v]
      BY <1>0, <1>3 DEF ReadProposal, Worker
    <2> QED
      BY <1>3, <2>1, ThreadReads DEF ReadProposal
  <1>4. CASE ReadOwnExecution(w)
    <2>1. CASE Answering(w, "not_approved")
      BY <1>4, <1>a, <2>1 DEF ReadOwnExecution
    <2>2. CASE ~Answering(w, "not_approved")
      <3>1. PICK own : worker' = [worker EXCEPT ![w] = [@ EXCEPT !.pc = "approval",
                                                                 !.prior = own]]
        BY <1>4, <2>2 DEF ReadOwnExecution
      <3>2. worker'[w].pc = "approval" /\ \A v \in Workers : v # w => worker'[v] = worker[v]
        BY <1>0, <3>1 DEF Worker
      <3> QED
        BY <1>4, <3>2, ThreadReads DEF ReadOwnExecution
    <2> QED
      BY <2>1, <2>2
  <1>5. CASE ReadApproval(w)
    <2>1. CASE ApprovalMatches(worker[w].token) /\ LetterMatches(w)
      <3>1. InHand(worker[w])
        BY <2>1 DEF ApprovalMatches, LetterMatches, InHand
      <3> QED
        BY <1>5, <1>b, <2>1, <3>1 DEF ReadApproval
    <2>2. CASE ~(ApprovalMatches(worker[w].token) /\ LetterMatches(w))
      BY <1>5, <1>a, <2>2 DEF ReadApproval
    <2> QED
      BY <2>1, <2>2
  <1>6. CASE ReadKey(w)
    <2>1. InHand(worker[w])
      BY <1>6 DEF ReadKey, ApprovedInHand, InHand
    <2> QED
      BY <1>6, <1>a, <1>b, <2>1 DEF ReadKey
  <1>7. CASE AnswerFromTheWinner(w)
    BY <1>7, <1>a DEF AnswerFromTheWinner
  <1>8. CASE WorkerDies(w)
    BY <1>0, <1>8, ThreadReads DEF WorkerDies, Idle
  <1> QED
    BY <1>1, <1>2, <1>3, <1>4, <1>5, <1>6, <1>7, <1>8

(* The claim keeps it: the unique constraints make its execution and nonce *)
(* exclusive.                                                              *)
LEMMA ClaimSafe ==
  ASSUME TypeOK, InFlight, ApprovedInHand, ClaimHeld, Safe, NEW w \in Workers, Claim(w)
  PROVE  ApprovedInHand' /\ ClaimHeld' /\ Safe'
  <1> DEFINE t == worker[w].token
             k == worker[w].key
  <1>0. /\ worker \in [Workers -> Worker]
        /\ executions \in [Keys -> Execution \cup {None}]
        /\ consumed \in [Nonces -> Keys \cup {None}]
        /\ outbox \in Seq(Delivery)
    BY DEF TypeOK, GatewayTypeOK, TablesTypeOK
  <1>1. t \in minted /\ t \in Token /\ k \in Keys
    BY DEF Claim, InFlight, TypeOK, TablesTypeOK
  <1>2. InHand(worker[w])
    BY DEF Claim, ApprovedInHand, InHand
  <1>3. UNCHANGED <<minted, approvals, outbox, status>>
    BY DEF Claim
  <1>4. CASE ~ClaimFree(t, k)
    <2>1. worker' = [worker EXCEPT ![w] = [@ EXCEPT !.pc = "lost"]]
          /\ UNCHANGED <<executions, consumed>>
      BY <1>4 DEF Claim, Advance
    <2>2. worker'[w].pc = "lost" /\ \A v \in Workers : v # w => worker'[v] = worker[v]
      BY <1>0, <2>1 DEF Worker
    <2> QED
      BY <1>3, <2>1, <2>2, ThreadReads
  <1>5. CASE ClaimFree(t, k)
    <2>0. None \notin Keys /\ None \notin Execution
      BY NoneAssumption
    <2>1. /\ worker' = [worker EXCEPT ![w] = [@ EXCEPT !.pc = "send"]]
          /\ executions' = [executions EXCEPT
                                ![k] = [proposal |-> t.proposal, status |-> "pending"]]
          /\ consumed' = [consumed EXCEPT ![t.nonce] = k]
      BY <1>5 DEF Claim, Advance, Consume
    <2>2. /\ worker'[w].pc = "send" /\ worker'[w].token = t /\ worker'[w].key = k
          /\ worker'[w].letter = worker[w].letter
          /\ \A v \in Workers : v # w => worker'[v] = worker[v]
      BY <1>0, <2>1 DEF Worker
    <2>3. executions[k] = None /\ consumed[t.nonce] = None
      BY <1>5 DEF ClaimFree
    <2>4. \A v \in Workers : Holding(v) =>
            /\ v # w /\ worker[v].key # k /\ worker[v].token.nonce # t.nonce
            /\ worker[v].key \in Keys /\ worker[v].token \in Token
      <3> SUFFICES ASSUME NEW v \in Workers, Holding(v)
                   PROVE  /\ v # w /\ worker[v].key # k /\ worker[v].token.nonce # t.nonce
                          /\ worker[v].key \in Keys /\ worker[v].token \in Token
        OBVIOUS
      <3>1. v # w
        BY DEF Holding, Claim
      <3>2. worker[v].key \in Keys /\ worker[v].token \in Token
        BY DEF Holding, InFlight, TypeOK, TablesTypeOK
      <3>3. /\ consumed[worker[v].token.nonce] = worker[v].key
            /\ executions[worker[v].key] =
                  [proposal |-> worker[v].token.proposal, status |-> "pending"]
        BY DEF ClaimHeld
      <3>4. executions[worker[v].key] \in Execution
        BY <3>2, <3>3
      <3> QED
        BY <2>0, <2>3, <3>1, <3>2, <3>3, <3>4
    <2>5. \A i \in DOMAIN outbox : /\ outbox[i].nonce # t.nonce /\ outbox[i].key # k
                                   /\ outbox[i].nonce \in Nonces /\ outbox[i].key \in Keys
      <3>1. \A i \in DOMAIN outbox : outbox[i] \in Delivery
        BY <1>0, SeqElement
      <3> QED
        BY <2>0, <2>3, <3>1 DEF Safe, SentIsOnRecord
    <2>6. ApprovedInHand'
      BY <1>2, <1>3, <2>2 DEF ApprovedInHand, ApproveRows, InHand
    <2>7. ClaimHeld'
      <3>1. \A v \in Workers : Holding(v)' =>
              /\ consumed'[worker'[v].token.nonce] = worker'[v].key
              /\ executions'[worker'[v].key] =
                    [proposal |-> worker'[v].token.proposal, status |-> "pending"]
        BY <1>0, <1>1, <2>1, <2>2, <2>4 DEF ClaimHeld, Holding
      <3>2. \A u, v \in Workers : Holding(u)' /\ Holding(v)' /\ worker'[u].key = worker'[v].key
                                     => u = v
        BY <2>2, <2>4 DEF ClaimHeld, Holding
      <3>3. \A v \in Workers : worker'[v].pc = "send" =>
               \A i \in DOMAIN outbox' : outbox'[i].nonce # worker'[v].token.nonce
        BY <1>3, <2>2, <2>5 DEF ClaimHeld
      <3>4. \A v \in Workers : worker'[v].pc = "finish" /\ worker'[v].ok =>
               \E i \in DOMAIN outbox' : /\ outbox'[i].key = worker'[v].key
                                         /\ outbox'[i].proposal = worker'[v].token.proposal
        BY <1>3, <2>2 DEF ClaimHeld
      <3> QED
        BY <3>1, <3>2, <3>3, <3>4 DEF ClaimHeld, Holding
    <2>8. SentAsApproved' /\ OneSendPerNonce'
      BY <1>3 DEF Safe, SentAsApproved, OneSendPerNonce, ApproveRows
    <2>9. SentIsOnRecord'
      BY <1>0, <1>3, <2>1, <2>5 DEF Safe, SentIsOnRecord
    <2>10. SuccessIsReal'
      <3>1. \A l \in Keys : executions'[l] # None /\ executions'[l].status = "succeeded" =>
               executions[l] # None /\ executions[l].status = "succeeded"
        BY <1>0, <1>1, <2>1
      <3> QED
        BY <1>3, <3>1 DEF Safe, SuccessIsReal
    <2>11. ClaimsPairUp'
      <3>1. executions'[k] # None
        BY <1>0, <1>1, <2>0, <2>1
      <3>2. \A n \in Nonces : consumed[n] # k
        BY <1>1, <2>0, <2>3 DEF Safe, ClaimsPairUp
      <3>3. \A n \in Nonces : consumed'[n] # None => executions'[consumed'[n]] # None
        BY <1>0, <1>1, <2>1, <3>1 DEF Safe, ClaimsPairUp
      <3>4. ASSUME NEW l \in Keys, executions'[l] # None
            PROVE  \E n \in Nonces : /\ consumed'[n] = l
                                     /\ \A m \in Nonces : consumed'[m] = l => m = n
        <4>1. CASE l = k
          BY <1>0, <1>1, <2>1, <3>2, <4>1
        <4>2. CASE l # k
          <5>1. executions[l] # None
            BY <1>0, <1>1, <2>1, <3>4, <4>2
          <5>2. PICK n \in Nonces : /\ consumed[n] = l
                                    /\ \A m \in Nonces : consumed[m] = l => m = n
            BY <5>1 DEF Safe, ClaimsPairUp
          <5>3. n # t.nonce
            BY <2>0, <2>3, <5>2
          <5>4. consumed'[n] = l /\ \A m \in Nonces : consumed'[m] = l => m = n
            BY <1>0, <1>1, <2>1, <4>2, <5>2, <5>3
          <5> QED
            BY <5>4
        <4> QED
          BY <4>1, <4>2
      <3> QED
        BY <3>3, <3>4 DEF ClaimsPairUp
    <2> QED
      BY <2>6, <2>7, <2>8, <2>9, <2>10, <2>11 DEF Safe
  <1> QED
    BY <1>4, <1>5

(* The delivery keeps it: the letter is the approved one, under a claim of *)
(* its own.                                                                *)
LEMMA DeliverSafe ==
  ASSUME TypeOK, InFlight, ApprovedInHand, ClaimHeld, Safe, NEW w \in Workers, Deliver(w)
  PROVE  ApprovedInHand' /\ ClaimHeld' /\ Safe'
  <1> DEFINE t == worker[w].token
             k == worker[w].key
             d == [proposal |-> t.proposal, letter |-> worker[w].letter,
                   nonce |-> t.nonce, key |-> k]
  <1>0. worker \in [Workers -> Worker] /\ outbox \in Seq(Delivery)
    BY DEF TypeOK, GatewayTypeOK, TablesTypeOK
  <1>1. t \in minted /\ t \in Token /\ k \in Keys
    BY DEF Deliver, InFlight, TypeOK, TablesTypeOK
  <1>2. InHand(worker[w]) /\ Holding(w)
    BY DEF Deliver, ApprovedInHand, InHand, Holding
  <1>3. UNCHANGED <<minted, approvals, consumed, executions, status>>
    BY DEF Deliver, tables, wire
  <1>4. PICK out, ok \in BOOLEAN :
           /\ ok => out
           /\ outbox' = IF out THEN Append(outbox, d) ELSE outbox
           /\ worker' = [worker EXCEPT ![w] = [@ EXCEPT !.pc = "finish", !.ok = ok]]
    BY DEF Deliver, LetterToSend
  <1>5. /\ worker'[w].pc = "finish" /\ worker'[w].ok = ok
        /\ worker'[w].token = t /\ worker'[w].key = k
        /\ \A v \in Workers : v # w => worker'[v] = worker[v]
    BY <1>0, <1>4 DEF Worker
  <1>6. /\ \A i \in DOMAIN outbox : i \in DOMAIN outbox' /\ outbox'[i] = outbox[i]
        /\ \A i \in DOMAIN outbox' : i \notin DOMAIN outbox => outbox'[i] = d
        /\ \A i, j \in DOMAIN outbox' : i \notin DOMAIN outbox /\ j \notin DOMAIN outbox => i = j
        /\ ok => \E i \in DOMAIN outbox' : outbox'[i] = d
    <2> HIDE DEF d
    <2>1. CASE out
      <3>1. outbox' = Append(outbox, d)
        BY <1>4, <2>1
      <3>2. /\ DOMAIN outbox' = DOMAIN outbox \cup {Len(outbox) + 1}
            /\ \A i \in DOMAIN outbox : outbox'[i] = outbox[i]
            /\ outbox'[Len(outbox) + 1] = d
        BY <1>0, <3>1
      <3> QED
        BY <3>2
    <2>2. CASE ~out
      BY <1>4, <2>2
    <2> QED
      BY <2>1, <2>2
  <1>7. \A v \in Workers : v # w /\ Holding(v) =>
          worker[v].key # k /\ worker[v].token.nonce # t.nonce
    <2> SUFFICES ASSUME NEW v \in Workers, v # w, Holding(v)
                 PROVE  worker[v].key # k /\ worker[v].token.nonce # t.nonce
      OBVIOUS
    <2>1. worker[v].key # k
      BY <1>2 DEF ClaimHeld
    <2>2. consumed[worker[v].token.nonce] = worker[v].key /\ consumed[t.nonce] = k
      BY <1>2 DEF ClaimHeld
    <2> QED
      BY <2>1, <2>2
  <1>8. \A i \in DOMAIN outbox : outbox[i].nonce # t.nonce
    BY DEF ClaimHeld, Deliver
  <1>9. ApprovedInHand'
    BY <1>3, <1>5 DEF ApprovedInHand, ApproveRows
  <1>10. ClaimHeld'
    <2>1. \A v \in Workers : Holding(v)' =>
            /\ consumed'[worker'[v].token.nonce] = worker'[v].key
            /\ executions'[worker'[v].key] =
                  [proposal |-> worker'[v].token.proposal, status |-> "pending"]
      BY <1>2, <1>3, <1>5 DEF ClaimHeld, Holding
    <2>2. \A u, v \in Workers : Holding(u)' /\ Holding(v)' /\ worker'[u].key = worker'[v].key
                                   => u = v
      BY <1>2, <1>5 DEF ClaimHeld, Holding
    <2>3. \A v \in Workers : worker'[v].pc = "send" =>
             \A i \in DOMAIN outbox' : outbox'[i].nonce # worker'[v].token.nonce
      <3> SUFFICES ASSUME NEW v \in Workers, worker'[v].pc = "send",
                          NEW i \in DOMAIN outbox'
                   PROVE  outbox'[i].nonce # worker'[v].token.nonce
        OBVIOUS
      <3>1. v # w /\ worker'[v] = worker[v]
        BY <1>5
      <3>2. CASE i \in DOMAIN outbox
        BY <1>6, <3>1, <3>2 DEF ClaimHeld
      <3>3. CASE i \notin DOMAIN outbox
        BY <1>6, <1>7, <3>1, <3>3 DEF Holding
      <3> QED
        BY <3>2, <3>3
    <2>4. \A v \in Workers : worker'[v].pc = "finish" /\ worker'[v].ok =>
             \E i \in DOMAIN outbox' : /\ outbox'[i].key = worker'[v].key
                                       /\ outbox'[i].proposal = worker'[v].token.proposal
      BY <1>5, <1>6 DEF ClaimHeld
    <2> QED
      BY <2>1, <2>2, <2>3, <2>4 DEF ClaimHeld, Holding
  <1>11. SentAsApproved'
    <2>1. ASSUME NEW i \in DOMAIN outbox
          PROVE  /\ \E j \in ApproveRows(outbox[i].proposal) :
                        approvals[j].nonce = outbox[i].nonce
                 /\ \E u \in minted : /\ u.nonce = outbox[i].nonce
                                      /\ u.proposal = outbox[i].proposal
                                      /\ u.letter = outbox[i].letter
      BY DEF Safe, SentAsApproved
    <2>2. /\ \E j \in ApproveRows(d.proposal) : approvals[j].nonce = d.nonce
          /\ \E u \in minted : /\ u.nonce = d.nonce
                               /\ u.proposal = d.proposal
                               /\ u.letter = d.letter
      BY <1>1, <1>2 DEF InHand
    <2> HIDE DEF d
    <2> QED
      BY <1>3, <1>6, <2>1, <2>2 DEF SentAsApproved, ApproveRows
  <1>12. OneSendPerNonce'
    BY <1>6, <1>8 DEF Safe, OneSendPerNonce
  <1>13. SentIsOnRecord'
    <2>1. /\ executions[d.key] # None /\ executions[d.key].proposal = d.proposal
          /\ consumed[d.nonce] = d.key
      <3>1. [proposal |-> t.proposal, status |-> "pending"] \in Execution
        BY <1>1
      <3>2. executions[k] = [proposal |-> t.proposal, status |-> "pending"]
            /\ consumed[t.nonce] = k
        BY <1>2 DEF ClaimHeld
      <3> QED
        BY <3>1, <3>2, NoneAssumption
    <2> HIDE DEF d
    <2> QED
      BY <1>3, <1>6, <2>1 DEF Safe, SentIsOnRecord
  <1>14. SuccessIsReal'
    BY <1>3, <1>6 DEF Safe, SuccessIsReal
  <1>15. ClaimsPairUp'
    BY <1>3 DEF Safe, ClaimsPairUp
  <1> QED
    BY <1>9, <1>10, <1>11, <1>12, <1>13, <1>14, <1>15 DEF Safe

(* Recording the outcome keeps it: success only with a letter in the       *)
(* outbox.                                                                 *)
LEMMA FinishSafe ==
  ASSUME TypeOK, InFlight, ApprovedInHand, ClaimHeld, Safe, NEW w \in Workers, Finish(w)
  PROVE  ApprovedInHand' /\ ClaimHeld' /\ Safe'
  <1> DEFINE t == worker[w].token
             k == worker[w].key
             e == [proposal |-> t.proposal, status |-> ExecutionResult(w)]
  <1>0. /\ worker \in [Workers -> Worker]
        /\ executions \in [Keys -> Execution \cup {None}]
        /\ status \in [Proposals -> ProposalStatuses]
        /\ outbox \in Seq(Delivery)
    BY DEF TypeOK, GatewayTypeOK, TablesTypeOK
  <1>1. t \in Token /\ k \in Keys
    BY DEF Finish, InFlight, TypeOK, TablesTypeOK
  <1>2. Holding(w)
    BY DEF Finish, Holding
  <1>3. UNCHANGED <<minted, approvals, consumed, outbox>>
    BY DEF Finish, Recorded
  <1>4. executions[k] = [proposal |-> t.proposal, status |-> "pending"]
    BY <1>2 DEF ClaimHeld
  <1>5. /\ executions' = [executions EXCEPT ![k] = [@ EXCEPT !.status = ExecutionResult(w)]]
        /\ status' = [status EXCEPT ![t.proposal] = ProposalResult(w)]
        /\ worker' = [worker EXCEPT ![w] = Idle]
    BY DEF Finish, Recorded, Answering
  <1>6. /\ executions'[k] = e
        /\ \A l \in Keys : l # k => executions'[l] = executions[l]
    BY <1>0, <1>1, <1>4, <1>5
  <1>7. worker'[w].pc = "idle" /\ \A v \in Workers : v # w => worker'[v] = worker[v]
    BY <1>0, <1>5 DEF Idle
  <1>8. e # None
    <2>1. e \in Execution
      BY <1>1 DEF ExecutionResult
    <2> QED
      BY <2>1, NoneAssumption
  <1>9. ApprovedInHand'
    BY <1>3, <1>7 DEF ApprovedInHand, ApproveRows
  <1>10. ClaimHeld'
    <2>1. \A v \in Workers : Holding(v)' =>
             /\ Holding(v) /\ worker'[v] = worker[v] /\ worker[v].key # k
             /\ worker[v].key \in Keys
      BY <1>2, <1>7 DEF ClaimHeld, Holding, InFlight
    <2> QED
      BY <1>3, <1>6, <1>7, <2>1 DEF ClaimHeld, Holding
  <1>11. SentAsApproved' /\ OneSendPerNonce'
    BY <1>3 DEF Safe, SentAsApproved, OneSendPerNonce, ApproveRows
  <1>12. SentIsOnRecord'
    <2>1. \A i \in DOMAIN outbox : outbox[i].key \in Keys
      <3>1. \A i \in DOMAIN outbox : outbox[i] \in Delivery
        BY <1>0, SeqElement
      <3> QED
        BY <3>1
    <2>2. e.proposal = executions[k].proposal
      BY <1>4
    <2> HIDE DEF e
    <2> QED
      BY <1>3, <1>6, <1>8, <2>1, <2>2 DEF Safe, SentIsOnRecord
  <1>13. SuccessIsReal'
    <2>1. worker[w].ok => \E i \in DOMAIN outbox : /\ outbox[i].key = k
                                                   /\ outbox[i].proposal = t.proposal
      BY DEF ClaimHeld, Finish
    <2>2. e.status = "succeeded" => worker[w].ok
      BY DEF ExecutionResult
    <2>3. \A l \in Keys : executions'[l] # None /\ executions'[l].status = "succeeded" =>
             \E i \in DOMAIN outbox : outbox[i].key = l
      <3> HIDE DEF e
      <3> QED
        BY <1>6, <2>1, <2>2 DEF Safe, SuccessIsReal
    <2>4. \A p \in Proposals : status'[p] = "executed" =>
             \E i \in DOMAIN outbox : outbox[i].proposal = p
      BY <1>0, <1>1, <1>5, <2>1 DEF Safe, SuccessIsReal, ProposalResult
    <2> QED
      BY <1>3, <2>3, <2>4 DEF SuccessIsReal
  <1>14. ClaimsPairUp'
    <2>1. \A l \in Keys : (executions'[l] # None) <=> (executions[l] # None)
      <3>1. executions[k] # None
        <4>1. [proposal |-> t.proposal, status |-> "pending"] \in Execution
          BY <1>1
        <4> QED
          BY <1>4, <4>1, NoneAssumption
      <3> HIDE DEF e
      <3> QED
        BY <1>6, <1>8, <3>1
    <2>2. \A n \in Nonces : consumed[n] # None => consumed[n] \in Keys
      BY DEF TypeOK, TablesTypeOK
    <2> QED
      BY <1>3, <2>1, <2>2 DEF Safe, ClaimsPairUp
  <1> QED
    BY <1>9, <1>10, <1>11, <1>12, <1>13, <1>14 DEF Safe

(* Every step of the gateway keeps the invariant.                          *)
LEMMA GatewaySafe ==
  ASSUME TypeOK, InFlight, ApprovedInHand, ClaimHeld, Safe, GatewayNext
  PROVE  ApprovedInHand' /\ ClaimHeld' /\ Safe'
  <1>1. ASSUME NEW w \in Workers, WorkerStep(w)
        PROVE  ApprovedInHand' /\ ClaimHeld' /\ Safe'
    BY <1>1, ReadingSafe, ClaimSafe, DeliverSafe, FinishSafe DEF WorkerStep
  <1>2. ASSUME NEW t \in minted, ExpireToken(t)
        PROVE  ApprovedInHand' /\ ClaimHeld' /\ Safe'
    BY <1>2 DEF ExpireToken, tables, ApprovedInHand, ClaimHeld, Holding, Safe, SentAsApproved,
                OneSendPerNonce, SentIsOnRecord, SuccessIsReal, ClaimsPairUp, ApproveRows
  <1> QED
    BY <1>1, <1>2 DEF GatewayNext

(* Replays and faults keep it.                                             *)
LEMMA EnvironmentSafe ==
  ASSUME TypeOK, TypeOK', InFlight, ApprovedInHand, ClaimHeld, Safe,
         Fault \/ \E t \in minted, k \in Keys : Replay(t, k)
  PROVE  ApprovedInHand' /\ ClaimHeld' /\ Safe'
  <1>1. ASSUME NEW t \in minted, NEW k \in Keys, Replay(t, k)
        PROVE  ApprovedInHand' /\ ClaimHeld' /\ Safe'
    <2>1. AppFrame
      BY <1>1 DEF AppFrame, Replay, tables, gatewayVars
    <2> QED
      BY <2>1, FrameKeepsSafe
  <1>2. ASSUME NEW r \in inbox, Lose(r)
        PROVE  ApprovedInHand' /\ ClaimHeld' /\ Safe'
    <2>1. AppFrame
      BY <1>2 DEF AppFrame, Lose, tables, gatewayVars
    <2> QED
      BY <2>1, FrameKeepsSafe
  <1>3. ASSUME NEW o \in Operators, HandlerDies(o), UNCHANGED gatewayVars
        PROVE  ApprovedInHand' /\ ClaimHeld' /\ Safe'
    <2>1. AppFrame
      BY <1>3 DEF AppFrame, HandlerDies, RollBack, tables, wire, gatewayVars
    <2> QED
      BY <2>1, FrameKeepsSafe
  <1>4. ASSUME NEW w \in Workers, WorkerDies(w)
        PROVE  ApprovedInHand' /\ ClaimHeld' /\ Safe'
    BY <1>4, ReadingSafe
  <1> QED
    BY <1>1, <1>2, <1>3, <1>4 DEF Fault

(* The tables at the start satisfy the invariant.                          *)
LEMMA InitInv == Init => IInv
  <1> SUFFICES ASSUME Init PROVE IInv
    OBVIOUS
  <1> USE DEF Init, TablesInit, DecisionsInit, GatewayInit
  <1>1. TypeOK
    BY InitType
  <1>2. InFlight
    BY DEF InFlight, Away, Idle
  <1>3. NoncesUnique
    BY DEF NoncesUnique, ApprovedNonces
  <1>4. ApprovedInHand /\ ClaimHeld
    BY DEF ApprovedInHand, ClaimHeld, Holding, Idle
  <1>5. Safe
    BY DEF Safe, SentAsApproved, OneSendPerNonce, SentIsOnRecord, SuccessIsReal, ClaimsPairUp
  <1> QED
    BY <1>1, <1>2, <1>3, <1>4, <1>5 DEF IInv

(* Every step of the two containers and of their surroundings keeps it.    *)
LEMMA NextInv == IInv /\ [Next]_vars => IInv'
  <1> SUFFICES ASSUME IInv, [Next]_vars PROVE IInv'
    OBVIOUS
  <1> USE DEF IInv
  <1>1. CASE DecisionsNext /\ UNCHANGED <<gatewayVars, replays, faults>>
    <2>1. TypeOK'
      BY <1>1, DecisionsType
    <2>2. InFlight'
      BY <1>1, DecisionsInFlight
    <2>3. NoncesUnique'
      BY <1>1, DecisionsGrants, GrantsKeepNoncesUnique
    <2>4. ApprovedInHand' /\ ClaimHeld' /\ Safe'
      BY <1>1, <2>1, DecisionsFrame, FrameKeepsSafe
    <2> QED
      BY <2>1, <2>2, <2>3, <2>4
  <1>2. CASE GatewayNext /\ UNCHANGED <<decisionVars, replays, faults>>
    <2>1. TypeOK'
      BY <1>2, GatewayType
    <2>2. InFlight'
      BY <1>2, GatewayInFlight
    <2>3. NoncesUnique'
      BY <1>2, OthersGrantNothing DEF NoncesUnique, ApprovedNonces
    <2>4. ApprovedInHand' /\ ClaimHeld' /\ Safe'
      BY <1>2, GatewaySafe
    <2> QED
      BY <2>1, <2>2, <2>3, <2>4
  <1>3. CASE Fault \/ \E t \in minted, k \in Keys : Replay(t, k)
    <2>1. TypeOK'
      BY <1>3, EnvironmentType
    <2>2. InFlight'
      BY <1>3, EnvironmentInFlight
    <2>3. NoncesUnique'
      BY <1>3, OthersGrantNothing DEF NoncesUnique, ApprovedNonces
    <2>4. ApprovedInHand' /\ ClaimHeld' /\ Safe'
      BY <1>3, <2>1, EnvironmentSafe
    <2> QED
      BY <2>1, <2>2, <2>3, <2>4
  <1>4. CASE UNCHANGED vars
    BY <1>4 DEF vars, tables, wire, decisionVars, gatewayVars, TypeOK, TablesTypeOK,
                DecisionsTypeOK, GatewayTypeOK, InFlight, NoncesUnique, ApprovedNonces,
                ApprovedInHand, ApproveRows, ClaimHeld, Holding, Safe, SentAsApproved,
                OneSendPerNonce, SentIsOnRecord, SuccessIsReal, ClaimsPairUp
  <1> QED
    BY <1>1, <1>2, <1>3, <1>4 DEF Next

-----------------------------------------------------------------------------
(* The main results *)

(* IInv holds in every reachable state, for any number of operators,       *)
(* threads, proposals and requests, and whatever is lost or dies.          *)
THEOREM BoundaryInvariant == Spec => []IInv
  BY InitInv, NextInv, PTL DEF Spec

(* The variables keep their types: no handler or thread acts half filled. *)
THEOREM TypeCorrect == Spec => []TypeOK
  BY BoundaryInvariant, PTL DEF IInv

(* Every letter that left was approved, text included. *)
THEOREM SendsAreApproved == Spec => []SentAsApproved
  BY BoundaryInvariant, PTL DEF IInv, Safe

(* Every approval lets at most one letter out. *)
THEOREM ApprovalsAreSpentOnce == Spec => []OneSendPerNonce
  BY BoundaryInvariant, PTL DEF IInv, Safe

(* Every letter that left is on record under its key and its nonce. *)
THEOREM SendsAreOnRecord == Spec => []SentIsOnRecord
  BY BoundaryInvariant, PTL DEF IInv, Safe

(* Every recorded success is a letter that left. *)
THEOREM SuccessesAreReal == Spec => []SuccessIsReal
  BY BoundaryInvariant, PTL DEF IInv, Safe

(* Keys and nonces are claimed in pairs. *)
THEOREM ClaimsComeInPairs == Spec => []ClaimsPairUp
  BY BoundaryInvariant, PTL DEF IInv, Safe

-----------------------------------------------------------------------------
(* The boundary implements its contract *)

(* What the code has granted is a set of the contract's grants.            *)
LEMMA GrantedType ==
  ASSUME TypeOK
  PROVE  Granted \subseteq Contract!Grant
  BY DEF TypeOK, TablesTypeOK, Granted, Contract!Grant

(* An approval is a grant under a new nonce; nothing else grants.          *)
LEMMA GrantsImplement ==
  ASSUME TypeOK', NoncesUnique, Grants, outbox' = outbox
  PROVE  \/ \E g \in Contract!Grant : Contract!Approve(g)
         \/ UNCHANGED <<Granted, SentLetters>>
  <1>0. SentLetters' = SentLetters
    BY DEF SentLetters
  <1>1. CASE minted' = minted /\ ApprovedNonces' = ApprovedNonces
    BY <1>0, <1>1 DEF Granted
  <1>2. ASSUME NEW t, t.nonce \in FreshNonces, minted' = minted \cup {t},
               ApprovedNonces' = ApprovedNonces
        PROVE  UNCHANGED <<Granted, SentLetters>>
    <2>1. t.nonce \notin ApprovedNonces
      BY <1>2 DEF FreshNonces, NoncesUnique
    <2> QED
      BY <1>0, <1>2, <2>1 DEF Granted
  <1>3. ASSUME NEW t, t.nonce \in FreshNonces, minted' = minted \cup {t},
               ApprovedNonces' = ApprovedNonces \cup {t.nonce}
        PROVE  \E g \in Contract!Grant : Contract!Approve(g)
    <2> DEFINE g == [nonce |-> t.nonce, proposal |-> t.proposal, letter |-> t.letter]
    <2>1. \A u \in minted : u.nonce # t.nonce
      BY <1>3 DEF FreshNonces
    <2>2. t \in Token
      BY <1>3 DEF TypeOK, TablesTypeOK
    <2>3. g \in Contract!Grant
      BY <2>2 DEF Contract!Grant
    <2>4. {u \in minted' : u.nonce \in ApprovedNonces'}
             = {u \in minted : u.nonce \in ApprovedNonces} \cup {t}
      BY <1>3, <2>1
    <2>5. Granted' = Granted \cup {g}
      BY <2>4 DEF Granted
    <2>6. g.nonce \notin {h.nonce : h \in Granted}
      BY <2>1 DEF Granted
    <2> QED
      BY <1>0, <2>3, <2>5, <2>6 DEF Contract!Approve
  <1> QED
    BY <1>1, <1>2, <1>3 DEF Grants

(* Handing a letter to the adapter is a send under an unspent grant.       *)
LEMMA DeliverImplements ==
  ASSUME IInv, IInv', NEW w \in Workers, Deliver(w)
  PROVE  \/ \E g \in Contract!Grant : Contract!Send(g)
         \/ UNCHANGED <<Granted, SentLetters>>
  <1> DEFINE t == worker[w].token
             g == [nonce |-> t.nonce, proposal |-> t.proposal, letter |-> t.letter]
  <1>0. outbox \in Seq(Delivery)
    BY DEF IInv, TypeOK, TablesTypeOK
  <1>1. t \in minted
    BY DEF IInv, InFlight, Deliver
  <1>2. worker[w].letter = t.letter /\ t.nonce \in ApprovedNonces
    BY DEF IInv, ApprovedInHand, Deliver, ApproveRows, ApprovedNonces
  <1>3. g \in Granted /\ g \in Contract!Grant
    BY <1>1, <1>2, GrantedType DEF Granted, IInv
  <1>4. g.nonce \notin Contract!SpentNonces
    BY DEF IInv, ClaimHeld, Deliver, Contract!SpentNonces, SentLetters
  <1>5. Granted' = Granted
    BY DEF Deliver, tables, wire, Granted, ApprovedNonces
  <1>6. \/ outbox' = outbox
        \/ \E d : /\ outbox' = Append(outbox, d)
                  /\ d.nonce = g.nonce /\ d.proposal = g.proposal /\ d.letter = g.letter
    BY <1>2 DEF Deliver, LetterToSend
  <1>7. CASE outbox' = outbox
    BY <1>5, <1>7 DEF SentLetters
  <1>8. ASSUME NEW d, outbox' = Append(outbox, d),
               d.nonce = g.nonce /\ d.proposal = g.proposal /\ d.letter = g.letter
        PROVE  SentLetters' = Append(SentLetters, g)
    <2> DEFINE n == Len(outbox)
    <2>1. n \in Nat /\ DOMAIN outbox = 1 .. n
      BY <1>0
    <2>2. DOMAIN outbox' = 1 .. n + 1 /\ outbox'[n + 1] = d
          /\ \A i \in 1 .. n : outbox'[i] = outbox[i]
      BY <1>0, <1>8
    <2>3. SentLetters = [i \in 1 .. n |-> SentLetters[i]]
      BY <2>1 DEF SentLetters
    <2>4. SentLetters' = [i \in 1 .. n + 1 |-> IF i = n + 1 THEN g ELSE SentLetters[i]]
      BY <1>8, <2>1, <2>2 DEF SentLetters
    <2> HIDE DEF n, g
    <2> QED
      BY <2>1, <2>3, <2>4
  <1> QED
    BY <1>3, <1>4, <1>5, <1>6, <1>7, <1>8 DEF Contract!Send

(* Every step is one of the contract's or changes nothing it speaks of.    *)
LEMMA StepImplements ==
  ASSUME IInv, IInv', [Next]_vars
  PROVE  [Contract!Next]_<<Granted, SentLetters>>
  <1>0. ASSUME minted' = minted, approvals' = approvals, outbox' = outbox
        PROVE  UNCHANGED <<Granted, SentLetters>>
    BY <1>0 DEF Granted, ApprovedNonces, SentLetters
  <1>1. CASE DecisionsNext /\ UNCHANGED <<gatewayVars, replays, faults>>
    <2>1. outbox' = outbox /\ Grants
      BY <1>1, DecisionsFrame, DecisionsGrants DEF AppFrame, IInv
    <2> QED
      BY <2>1, GrantsImplement DEF IInv, Contract!Next
  <1>2. ASSUME NEW w \in Workers, Deliver(w)
        PROVE  [Contract!Next]_<<Granted, SentLetters>>
    BY <1>2, DeliverImplements DEF Contract!Next
  <1>3. ASSUME NEW w \in Workers, WorkerStep(w), ~Deliver(w)
        PROVE  [Contract!Next]_<<Granted, SentLetters>>
    <2>1. minted' = minted /\ approvals' = approvals
      BY <1>3, OthersGrantNothing DEF GatewayNext
    <2>2. outbox' = outbox
      BY <1>3 DEF WorkerStep, Accept, ReadNonce, ReadProposal, ReadOwnExecution, ReadApproval,
                  ReadKey, Claim, AnswerFromTheWinner, Finish, Recorded, ReadOnly
    <2> QED
      BY <1>0, <2>1, <2>2
  <1>4. ASSUME NEW t \in minted, ExpireToken(t)
        PROVE  [Contract!Next]_<<Granted, SentLetters>>
    BY <1>0, <1>4 DEF ExpireToken, tables
  <1>5. CASE Fault \/ \E t \in minted, k \in Keys : Replay(t, k)
    <2>1. minted' = minted /\ approvals' = approvals
      BY <1>5, OthersGrantNothing
    <2>2. outbox' = outbox
      BY <1>5 DEF Fault, Lose, HandlerDies, RollBack, WorkerDies, Replay
    <2> QED
      BY <1>0, <2>1, <2>2
  <1>6. CASE UNCHANGED vars
    BY <1>0, <1>6 DEF vars, tables, wire
  <1> QED
    BY <1>1, <1>2, <1>3, <1>4, <1>5, <1>6 DEF Next, GatewayNext

(* The app and the gateway implement SendContract: each approval is one    *)
(* grant under a nonce of its own, each letter that leaves spends one      *)
(* grant, and is the letter granted.                                       *)
THEOREM BoundaryImplementsContract == Spec => ImplementsContract
  <1>1. Init => Contract!Init
    BY DEF Init, TablesInit, Contract!Init, Granted, SentLetters
  <1>2. IInv /\ IInv' /\ [Next]_vars => [Contract!Next]_<<Granted, SentLetters>>
    BY StepImplements
  <1> QED
    BY <1>1, <1>2, BoundaryInvariant, PTL DEF Spec, ImplementsContract, Contract!Spec

-----------------------------------------------------------------------------
(* Settling *)

(* No proposal becomes pending again, and a run is completed only when     *)
(* nothing of it is pending.                                               *)
Settling ==
    /\ \A p \in Proposals : status'[p] = "pending" => status[p] = "pending"
    /\ \A r \in Runs : runStatus'[r] = "completed" =>
          \/ runStatus[r] = "completed"
          \/ \A p \in Proposals : RunOf[p] = r => status'[p] # "pending"

(* A run that settling completes was completed, or has nothing pending.    *)
LEMMA SettleOrKeep ==
  ASSUME NEW r \in Runs, NEW st, SettleIfDecided(r, st) = "completed"
  PROVE  runStatus[r] = "completed" \/ \A p \in Proposals : RunOf[p] = r => st[p] # "pending"
  BY DEF SettleIfDecided

(* A decision completes a run only when nothing of it is pending.          *)
LEMMA DecideSettling ==
  ASSUME TypeOK, NEW o \in Operators, NEW loaded,
         NEW base \in [Proposals -> ProposalStatuses],
         \A p \in Proposals : base[p] = "pending" => status[p] = "pending",
         Decide(o, base, loaded)
  PROVE  Settling
  <1>1. CASE Approve(o, base, loaded)
    BY <1>1 DEF Approve, Settling
  <1>2. CASE Reject(o, base, loaded)
    <2>1. \A p \in Proposals : status'[p] = "pending" => status[p] = "pending"
      BY <1>2 DEF Reject
    <2>2. \A r \in Runs : runStatus'[r] \in {runStatus[r], SettleIfDecided(r, status')}
      BY <1>2 DEF Reject, TypeOK, TablesTypeOK
    <2> QED
      BY <2>1, <2>2, SettleOrKeep DEF Settling
  <1>3. CASE SaveEdit(o, base, loaded)
    BY <1>3 DEF SaveEdit, Settling
  <1> QED
    BY <1>1, <1>2, <1>3 DEF Decide

(* Expiring makes nothing pending.                                         *)
LEMMA ExpireSettling ==
  ASSUME NEW ps
  PROVE  \A p \in Proposals : Expire(ps)[p] = "pending" => status[p] = "pending"
  BY DEF Expire

(* No step of the app completes a run with a pending proposal, or reopens  *)
(* a proposal.                                                             *)
LEMMA DecisionsSettling ==
  ASSUME TypeOK, InFlight, DecisionsNext
  PROVE  Settling
  <1> USE DEF tables, wire, decisionVars
  <1>0. ASSUME status' = status, runStatus' = runStatus
        PROVE  Settling
    BY <1>0 DEF Settling
  <1>1. ASSUME NEW o \in Operators, NEW p \in Proposals, View(o, p)
        PROVE  Settling
    BY <1>0, <1>1 DEF View
  <1>2. ASSUME NEW o \in Operators, NEW kind, NEW edit, Submit(o, kind, edit) \/ Probe(o)
        PROVE  Settling
    BY <1>0, <1>2 DEF Submit, Probe
  <1>3. ASSUME NEW o \in Operators, HandlerStep(o)
        PROVE  Settling
    <2>1. CASE LoadPending(o)
      BY <1>0, <2>1 DEF LoadPending, RollBack
    <2>2. CASE Commit(o)
      BY <2>2, DecideSettling DEF Commit, InFlight, TypeOK, TablesTypeOK
    <2>3. CASE DecideUnderLock(o)
      <3>1. CASE RollBack(o)
        BY <1>0, <3>1 DEF RollBack
      <3>2. CASE Decide(o, Expire(op[o].stale), letter[op[o].proposal])
        <4>1. letter[op[o].proposal] \in Letters
          BY <2>3 DEF DecideUnderLock, InFlight, TypeOK, TablesTypeOK
        <4> QED
          BY <3>2, <4>1, DecideSettling, ExpireSettling, ExpireType
      <3> QED
        BY <2>3, <3>1, <3>2 DEF DecideUnderLock
    <2>4. CASE Post(o) \/ HearAnswer(o) \/ Timeout(o)
      BY <1>0, <2>4 DEF Post, HearAnswer, Timeout
    <2> QED
      BY <1>3, <2>1, <2>2, <2>3, <2>4 DEF HandlerStep
  <1>4. ASSUME NEW s \in Sweepers, SweepRead(s)
        PROVE  Settling
    BY <1>0, <1>4 DEF SweepRead
  <1>5. ASSUME NEW s \in Sweepers, SweepWrite(s)
        PROVE  Settling
    <2>1. \A p \in Proposals : status'[p] = "pending" => status[p] = "pending"
      BY <1>5, ExpireSettling DEF SweepWrite
    <2>2. \A r \in Runs : runStatus'[r] = SettleIfDecided(r, status')
      BY <1>5 DEF SweepWrite
    <2> QED
      BY <2>1, <2>2, SettleOrKeep DEF Settling
  <1>6. ASSUME NEW r \in Runs, AwaitApproval(r)
        PROVE  Settling
    BY <1>6 DEF AwaitApproval, Settling, TypeOK, TablesTypeOK
  <1>7. ASSUME NEW p \in Proposals, Lapse(p)
        PROVE  Settling
    BY <1>0, <1>7 DEF Lapse
  <1> QED
    BY <1>1, <1>2, <1>3, <1>4, <1>5, <1>6, <1>7 DEF DecisionsNext

(* Neither do the gateway, replays and faults.                             *)
LEMMA OthersSettling ==
  ASSUME TypeOK, GatewayNext \/ Fault \/ \E t \in minted, k \in Keys : Replay(t, k)
  PROVE  Settling
  <1> USE DEF tables, wire
  <1>0. ASSUME status' = status, runStatus' = runStatus
        PROVE  Settling
    BY <1>0 DEF Settling
  <1>1. ASSUME NEW w \in Workers, Finish(w)
        PROVE  Settling
    BY <1>1 DEF Finish, Recorded, ProposalResult, Settling, TypeOK, TablesTypeOK
  <1>2. ASSUME NEW w \in Workers, WorkerStep(w), ~Finish(w)
        PROVE  Settling
    <2>1. status' = status /\ runStatus' = runStatus
      BY <1>2 DEF WorkerStep, Accept, ReadNonce, ReadProposal, ReadOwnExecution, ReadApproval,
                  ReadKey, Claim, AnswerFromTheWinner, Deliver, ReadOnly
    <2> QED
      BY <1>0, <2>1
  <1>3. ASSUME NEW t \in minted, ExpireToken(t)
        PROVE  Settling
    BY <1>0, <1>3 DEF ExpireToken
  <1>4. CASE Fault \/ \E t \in minted, k \in Keys : Replay(t, k)
    BY <1>0, <1>4 DEF Fault, Lose, HandlerDies, RollBack, WorkerDies, Replay
  <1> QED
    BY <1>1, <1>2, <1>3, <1>4 DEF GatewayNext, WorkerStep

(* A completed run has nothing pending, and stays that way. *)
THEOREM SettledRunsAreDecided == Spec => []SettledMeansDecided
  <1>1. Init => SettledMeansDecided
    BY RunOfAssumption DEF Init, TablesInit, SettledMeansDecided
  <1>2. IInv /\ SettledMeansDecided /\ [Next]_vars => SettledMeansDecided'
    <2> SUFFICES ASSUME IInv, SettledMeansDecided, [Next]_vars
                 PROVE  SettledMeansDecided'
      OBVIOUS
    <2>1. CASE Next
      <3>1. Settling
        BY <2>1, DecisionsSettling, OthersSettling DEF Next, IInv
      <3> QED
        BY <3>1, RunOfAssumption DEF Settling, SettledMeansDecided
    <2>2. CASE UNCHANGED vars
      BY <2>2 DEF vars, tables, SettledMeansDecided
    <2> QED
      BY <2>1, <2>2
  <1> QED
    BY <1>1, <1>2, BoundaryInvariant, PTL DEF Spec
=============================================================================
