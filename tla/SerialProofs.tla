---------------------------- MODULE SerialProofs ----------------------------
(***************************************************************************)
(* The approval boundary when decisions are taken one at a time, for any   *)
(* number of operators, pages, gateway threads, proposals and faults: a    *)
(* proposal is sent once, its terminal status is final and its decided     *)
(* letter is never rewritten.                                              *)
(***************************************************************************)
EXTENDS BoundaryProofs

(* One decision at a time is one way for the two containers to run.        *)
LEMMA SerialIsBoundary == [SerialNext]_vars => [Next]_vars
  BY DEF SerialNext, Next

(* An open window is the only one.                                         *)
LEMMA WindowAlone ==
  ASSUME OneWindow
  PROVE  /\ \A o, q \in Operators : TabOpen(o) /\ TabOpen(q) => o = q
         /\ \A o \in Operators, s \in Sweepers : ~(TabOpen(o) /\ PageOpen(s))
         /\ \A r, s \in Sweepers : PageOpen(r) /\ PageOpen(s) => r = s
  <1>1. \A o \in Operators : TabOpen(o) => <<"tab", o>> \in OpenWindows
    BY DEF OpenWindows
  <1>2. \A s \in Sweepers : PageOpen(s) => <<"page", s>> \in OpenWindows
    BY DEF OpenWindows
  <1>3. \A v, w \in OpenWindows : v = w
    BY DEF OneWindow
  <1>4. \A x, y : <<"tab", x>> = <<"tab", y>> => x = y
    OBVIOUS
  <1>5. \A x, y : <<"page", x>> = <<"page", y>> => x = y
    OBVIOUS
  <1>6. \A x, y : <<"tab", x>> # <<"page", y>>
    OBVIOUS
  <1> QED
    BY <1>1, <1>2, <1>3, <1>4, <1>5, <1>6

(* Closing windows, or leaving them alone, keeps at most one open.         *)
LEMMA WindowsClose ==
  ASSUME OneWindow,
         \A o \in Operators : TabOpen(o)' => TabOpen(o),
         \A s \in Sweepers : PageOpen(s)' => PageOpen(s)
  PROVE  OneWindow'
  <1>1. OpenWindows' \subseteq OpenWindows
    BY DEF OpenWindows
  <1> QED
    BY <1>1 DEF OneWindow

-----------------------------------------------------------------------------
(* What the app writes *)

(* A decision, seen from the tables: only pending proposals are decided or *)
(* edited, each gets a status of its own kind of decision, and the one     *)
(* approved gets an approve row.                                           *)
Decides ==
    /\ \A p \in Proposals :
         \/ status'[p] = status[p] /\ ApproveRows(p)' = ApproveRows(p)
         \/ /\ status[p] = "pending" /\ status'[p] \in {"rejected", "expired"}
            /\ ApproveRows(p)' = ApproveRows(p)
         \/ /\ status[p] = "pending" /\ status'[p] = "approved"
            /\ ApproveRows(p)' = ApproveRows(p) \cup {Len(approvals) + 1}
    /\ \A p \in Proposals : status[p] # "pending" => letter'[p] = letter[p]
    /\ \A i \in DOMAIN approvals : i \in DOMAIN approvals' /\ approvals'[i] = approvals[i]

(* A new row is an approve row of its proposal, or of none.                *)
LEMMA RowsGrow ==
  ASSUME NEW row, approvals \in Seq(ApprovalRow), approvals' = Append(approvals, row)
  PROVE  /\ \A i \in DOMAIN approvals : i \in DOMAIN approvals' /\ approvals'[i] = approvals[i]
         /\ \A p : ApproveRows(p)' = IF row.proposal = p /\ row.decision = "approve"
                                     THEN ApproveRows(p) \cup {Len(approvals) + 1}
                                     ELSE ApproveRows(p)
  <1>1. DOMAIN approvals' = DOMAIN approvals \cup {Len(approvals) + 1}
    OBVIOUS
  <1>2. \A i \in DOMAIN approvals : approvals'[i] = approvals[i]
    OBVIOUS
  <1>3. approvals'[Len(approvals) + 1] = row
    OBVIOUS
  <1>4. Len(approvals) + 1 \notin DOMAIN approvals
    OBVIOUS
  <1> QED
    BY <1>1, <1>2, <1>3, <1>4 DEF ApproveRows

(* Steps that write no table decide nothing.                               *)
LEMMA NothingDecided ==
  ASSUME status' = status, letter' = letter, approvals' = approvals
  PROVE  Decides
  BY DEF Decides, ApproveRows

(* An expiry touches pending proposals only, when all it read still are.   *)
LEMMA ExpireDecides ==
  ASSUME NEW ps, \A p \in ps : status[p] = "pending"
  PROVE  \A p \in Proposals : \/ Expire(ps)[p] = status[p]
                              \/ status[p] = "pending" /\ Expire(ps)[p] = "expired"
  BY DEF Expire

(* A commit decides the proposal it found pending, after the expiry.       *)
LEMMA DecideDecides ==
  ASSUME TypeOK, NEW o \in Operators, NEW base \in [Proposals -> ProposalStatuses],
         NEW loaded, Decide(o, base, loaded), op[o].proposal \in Proposals,
         base[op[o].proposal] = "pending", status[op[o].proposal] = "pending",
         \A p \in Proposals : \/ base[p] = status[p]
                              \/ status[p] = "pending" /\ base[p] = "expired"
  PROVE  Decides
  <1>0. approvals \in Seq(ApprovalRow) /\ letter \in [Proposals -> Letters]
    BY DEF TypeOK, TablesTypeOK
  <1>a. ASSUME letter' = StoredLetter(o, loaded)
        PROVE  \A p \in Proposals : status[p] # "pending" => letter'[p] = letter[p]
    BY <1>0, <1>a DEF StoredLetter
  <1>1. CASE Approve(o, base, loaded)
    <2>1. PICK row : /\ row.proposal = op[o].proposal /\ row.decision = "approve"
                     /\ approvals' = Append(approvals, row)
      BY <1>1 DEF Approve
    <2>2. status' = [base EXCEPT ![op[o].proposal] = "approved"]
      BY <1>1 DEF Approve
    <2>3. \A p \in Proposals : status[p] # "pending" => letter'[p] = letter[p]
      BY <1>1, <1>a DEF Approve
    <2> QED
      BY <1>0, <2>1, <2>2, <2>3, RowsGrow DEF Decides
  <1>2. CASE Reject(o, base, loaded)
    <2>1. PICK row : row.decision = "reject" /\ approvals' = Append(approvals, row)
      BY <1>2 DEF Reject
    <2>2. status' = [base EXCEPT ![op[o].proposal] = "rejected"] /\ letter' = letter
      BY <1>2 DEF Reject
    <2> QED
      BY <1>0, <2>1, <2>2, RowsGrow DEF Decides
  <1>3. CASE SaveEdit(o, base, loaded)
    BY <1>3, <1>a DEF SaveEdit, Decides, ApproveRows
  <1> QED
    BY <1>1, <1>2, <1>3 DEF Decide

(* A handler or page whose window is the only one open leaves none open    *)
(* when it commits.                                                        *)
LEMMA TabCommits ==
  ASSUME TypeOK, OneWindow, NEW o \in Operators, TabOpen(o), sweep' = sweep,
         NEW h, op' = [op EXCEPT ![o] = h], h.pc \notin {"swept", "loaded"}
  PROVE  ViewsCurrent'
  <1>1. op \in [Operators -> Handler]
    BY DEF TypeOK, DecisionsTypeOK
  <1>2. \A q \in Operators : ~TabOpen(q)'
    BY <1>1, WindowAlone DEF TabOpen
  <1>3. \A s \in Sweepers : ~PageOpen(s)'
    BY WindowAlone DEF PageOpen
  <1> QED
    BY <1>2, <1>3 DEF ViewsCurrent, TabOpen

(* Each step of the app, while decisions are taken one at a time, decides  *)
(* what is pending, and what the open window has read is still so.         *)
LEMMA AppDecides ==
  ASSUME TypeOK, InFlight, OneWindow, ViewsCurrent, DecisionsNext
  PROVE  Decides /\ ViewsCurrent'
  <1> USE DEF tables, wire, decisionVars
  <1>0. op \in [Operators -> Handler] /\ sweep \in [Sweepers -> Sweep]
    BY DEF TypeOK, DecisionsTypeOK
  <1>a. ASSUME NEW o \in Operators, NEW h, op' = [op EXCEPT ![o] = h], sweep' = sweep,
               status' = status,
               h.pc = "loaded" => status[h.proposal] = "pending",
               h.pc = "swept" => \A p \in h.stale : status[p] = "pending"
        PROVE  ViewsCurrent'
    <2>1. op'[o] = h /\ \A q \in Operators \ {o} : op'[q] = op[q]
      BY <1>0, <1>a
    <2> QED
      BY <1>a, <2>1 DEF ViewsCurrent, PageOpen
  <1>b. ASSUME NEW o \in Operators, RollBack(o)
        PROVE  Decides /\ ViewsCurrent'
    BY <1>a, <1>b, NothingDecided DEF RollBack, Away
  <1>c. ASSUME NEW o \in Operators, NEW base, NEW loaded, Decide(o, base, loaded), TabOpen(o)
        PROVE  ViewsCurrent'
    <2>1. PICK h : op' = [op EXCEPT ![o] = h] /\ h.pc \notin {"swept", "loaded"}
      <3>1. CASE Approve(o, base, loaded)
        <4>1. PICK t : op' = [op EXCEPT ![o] = [@ EXCEPT !.pc = "minted", !.token = t]]
          BY <3>1 DEF Approve
        <4>2. [op[o] EXCEPT !.pc = "minted", !.token = t].pc = "minted"
          BY <1>0 DEF Handler
        <4> QED
          BY <4>1, <4>2
      <3>2. CASE Reject(o, base, loaded) \/ SaveEdit(o, base, loaded)
        <4>1. op' = [op EXCEPT ![o] = Away]
          BY <3>2 DEF Reject, SaveEdit
        <4>2. Away.pc \notin {"swept", "loaded"}
          BY DEF Away
        <4> QED
          BY <4>1, <4>2
      <3> QED
        BY <1>c, <3>1, <3>2 DEF Decide
    <2> QED
      BY <1>c, <2>1, TabCommits DEF Decide
  <1>1. ASSUME NEW o \in Operators, NEW p \in Proposals, View(o, p)
        PROVE  Decides /\ ViewsCurrent'
    BY <1>a, <1>1, NothingDecided DEF View, Away
  <1>2. ASSUME NEW o \in Operators, NEW kind, NEW edit, Submit(o, kind, edit)
        PROVE  Decides /\ ViewsCurrent'
    <2> DEFINE h == [op[o] EXCEPT !.pc = "swept", !.kind = kind, !.edit = edit, !.stale = Stale]
    <2>1. h.pc = "swept" /\ h.stale = Stale
      BY <1>0 DEF Handler
    <2>2. \A p \in Stale : status[p] = "pending"
      BY DEF Stale
    <2>3. op' = [op EXCEPT ![o] = h]
      BY <1>2 DEF Submit
    <2> HIDE DEF h
    <2> QED
      BY <1>a, <1>2, <2>1, <2>2, <2>3, NothingDecided DEF Submit
  <1>3. ASSUME NEW o \in Operators, Probe(o)
        PROVE  Decides /\ ViewsCurrent'
    <2>1. PICK t : op' = [op EXCEPT ![o] = [@ EXCEPT !.pc = "minted", !.kind = "probe",
                                                     !.token = t]]
      BY <1>3 DEF Probe
    <2>2. [op[o] EXCEPT !.pc = "minted", !.kind = "probe", !.token = t].pc = "minted"
      BY <1>0 DEF Handler
    <2> QED
      BY <1>a, <1>3, <2>1, <2>2, NothingDecided DEF Probe
  <1>4. ASSUME NEW o \in Operators, HandlerStep(o)
        PROVE  Decides /\ ViewsCurrent'
    <2>1. CASE LoadPending(o)
      <3>1. CASE RollBack(o)
        BY <1>b, <3>1
      <3>2. CASE ~RollBack(o)
        <4> DEFINE h == [op[o] EXCEPT !.pc = "loaded", !.loaded = letter[op[o].proposal]]
        <4>1. h.pc = "loaded" /\ h.proposal = op[o].proposal
          BY <1>0 DEF Handler
        <4>2. op' = [op EXCEPT ![o] = h] /\ UNCHANGED <<tables, wire, outbox, sweep>>
          BY <2>1, <3>2 DEF LoadPending
        <4>3. status[op[o].proposal] = "pending"
          BY <2>1, <3>2 DEF LoadPending, Decidable
        <4> HIDE DEF h
        <4> QED
          BY <1>a, <4>1, <4>2, <4>3, NothingDecided
      <3> QED
        BY <3>1, <3>2
    <2>2. CASE Commit(o)
      <3>1. Decide(o, status, op[o].loaded) /\ TabOpen(o)
        BY <2>2 DEF Commit, TabOpen
      <3>2. op[o].proposal \in Proposals /\ status[op[o].proposal] = "pending"
        BY <2>2 DEF Commit, InFlight, ViewsCurrent
      <3>3. status \in [Proposals -> ProposalStatuses]
        BY DEF TypeOK, TablesTypeOK
      <3> QED
        BY <1>c, <3>1, <3>2, <3>3, DecideDecides
    <2>3. CASE DecideUnderLock(o)
      <3>1. CASE RollBack(o)
        BY <1>b, <3>1
      <3>2. CASE ~RollBack(o)
        <4> DEFINE base == Expire(op[o].stale)
        <4>1. Decide(o, base, letter[op[o].proposal]) /\ TabOpen(o)
          BY <2>3, <3>2 DEF DecideUnderLock, TabOpen
        <4>2. op[o].proposal \in Proposals /\ base[op[o].proposal] = "pending"
          BY <2>3, <3>2 DEF DecideUnderLock, InFlight, Decidable
        <4>3. \A p \in Proposals : \/ base[p] = status[p]
                                   \/ status[p] = "pending" /\ base[p] = "expired"
          BY <2>3, ExpireDecides DEF DecideUnderLock, ViewsCurrent
        <4>4. base \in [Proposals -> ProposalStatuses]
          BY ExpireType
        <4> HIDE DEF base
        <4>5. status[op[o].proposal] = "pending"
          BY <4>2, <4>3
        <4> QED
          BY <1>c, <4>1, <4>2, <4>3, <4>4, <4>5, DecideDecides
      <3> QED
        BY <3>1, <3>2
    <2>4. CASE Post(o)
      <3>1. PICK k : op' = [op EXCEPT ![o] = [@ EXCEPT !.pc = "calling", !.key = k]]
        BY <2>4 DEF Post
      <3>2. [op[o] EXCEPT !.pc = "calling", !.key = k].pc = "calling"
        BY <1>0 DEF Handler
      <3> QED
        BY <1>a, <2>4, <3>1, <3>2, NothingDecided DEF Post
    <2>5. CASE HearAnswer(o) \/ Timeout(o)
      BY <1>a, <2>5, NothingDecided DEF HearAnswer, Timeout, Away
    <2> QED
      BY <1>4, <2>1, <2>2, <2>3, <2>4, <2>5 DEF HandlerStep
  <1>5. ASSUME NEW s \in Sweepers, SweepRead(s)
        PROVE  Decides /\ ViewsCurrent'
    <2>1. /\ sweep'[s] = [pc |-> "swept", stale |-> Stale]
          /\ \A r \in Sweepers \ {s} : sweep'[r] = sweep[r]
      BY <1>0, <1>5 DEF SweepRead
    <2>2. \A p \in Stale : status[p] = "pending"
      BY DEF Stale
    <2> QED
      BY <1>5, <2>1, <2>2, NothingDecided DEF SweepRead, ViewsCurrent, PageOpen
  <1>6. ASSUME NEW s \in Sweepers, SweepWrite(s)
        PROVE  Decides /\ ViewsCurrent'
    <2>1. PageOpen(s) /\ \A p \in sweep[s].stale : status[p] = "pending"
      BY <1>6 DEF SweepWrite, PageOpen, ViewsCurrent
    <2>2. Decides
      BY <1>6, <2>1, ExpireDecides DEF SweepWrite, Decides, ApproveRows
    <2>3. \A q \in Operators : ~TabOpen(q)'
      BY <1>6, <2>1, WindowAlone DEF SweepWrite, TabOpen
    <2>4. \A r \in Sweepers : ~PageOpen(r)'
      BY <1>0, <1>6, <2>1, WindowAlone DEF SweepWrite, PageOpen
    <2> QED
      BY <2>2, <2>3, <2>4 DEF ViewsCurrent, TabOpen
  <1>7. ASSUME NEW r \in Runs, AwaitApproval(r)
        PROVE  Decides /\ ViewsCurrent'
    BY <1>7, NothingDecided DEF AwaitApproval, ViewsCurrent, PageOpen
  <1>8. ASSUME NEW p \in Proposals, Lapse(p)
        PROVE  Decides /\ ViewsCurrent'
    BY <1>8, NothingDecided DEF Lapse, ViewsCurrent, PageOpen
  <1> QED
    BY <1>1, <1>2, <1>3, <1>4, <1>5, <1>6, <1>7, <1>8 DEF DecisionsNext

(* Deciding what is pending keeps one approval for each proposal and the   *)
(* claims made under it.                                                   *)
LEMMA DecidesKeeps ==
  ASSUME ApprovedOnce, ClaimsOpen, Decides, UNCHANGED <<worker, consumed>>,
         TypeOK
  PROVE  ApprovedOnce' /\ ClaimsOpen'
  <1>1. ApprovedOnce'
    <2> SUFFICES ASSUME NEW p \in Proposals
                 PROVE  /\ \A i, j \in ApproveRows(p)' : i = j
                        /\ ApproveRows(p)' # {} =>
                               status'[p] \in {"approved", "executed", "failed"}
      BY DEF ApprovedOnce
    <2>1. /\ \A i, j \in ApproveRows(p) : i = j
          /\ ApproveRows(p) # {} => status[p] \in {"approved", "executed", "failed"}
      BY DEF ApprovedOnce
    <2>2. \/ status'[p] = status[p] /\ ApproveRows(p)' = ApproveRows(p)
          \/ status[p] = "pending" /\ ApproveRows(p)' = ApproveRows(p)
          \/ /\ status[p] = "pending" /\ status'[p] = "approved"
             /\ ApproveRows(p)' = ApproveRows(p) \cup {Len(approvals) + 1}
      BY DEF Decides
    <2> QED
      BY <2>1, <2>2
  <1>2. ASSUME NEW p \in Proposals, status[p] # "pending"
        PROVE  status'[p] = status[p] /\ ApproveRows(p)' = ApproveRows(p)
    BY <1>2 DEF Decides
  <1>3. ASSUME NEW p \in Proposals, NEW j \in ApproveRows(p)
        PROVE  approvals'[j] = approvals[j]
    BY DEF Decides, ApproveRows
  <1>4. ASSUME NEW w \in Workers, Holding(w)'
        PROVE  /\ status'[worker[w].token.proposal] = "approved"
               /\ \E j \in ApproveRows(worker[w].token.proposal)' :
                      approvals'[j].nonce = worker[w].token.nonce
    <2> DEFINE p == worker[w].token.proposal
    <2>1. Holding(w)
      BY <1>4 DEF Holding
    <2>2. status[p] = "approved"
          /\ \E j \in ApproveRows(p) : approvals[j].nonce = worker[w].token.nonce
      BY <2>1 DEF ClaimsOpen
    <2>3. p \in Proposals
      <3>1. PICK j \in DOMAIN approvals : approvals[j].proposal = p
        BY <2>2 DEF ApproveRows
      <3>2. approvals[j] \in ApprovalRow
        BY SeqElement DEF TypeOK, TablesTypeOK
      <3> QED
        BY <3>1, <3>2 DEF ApprovalRow
    <2>4. status'[p] = status[p] /\ ApproveRows(p)' = ApproveRows(p)
      BY <1>2, <2>2, <2>3
    <2>5. \A j \in ApproveRows(p) : approvals'[j] = approvals[j]
      BY <1>3, <2>3
    <2> QED
      BY <2>2, <2>4, <2>5
  <1>5. ASSUME NEW p \in Proposals, status'[p] \in {"executed", "failed"}
        PROVE  \E j \in ApproveRows(p)' : consumed'[approvals'[j].nonce] # None
    <2>1. status[p] \in {"executed", "failed"}
      BY <1>5 DEF Decides
    <2> QED
      BY <1>2, <1>3, <2>1 DEF ClaimsOpen
  <1> QED
    BY <1>1, <1>4, <1>5 DEF ClaimsOpen

-----------------------------------------------------------------------------
(* What the gateway writes *)

(* The approve row behind a thread's claim, of which its proposal has one. *)
LEMMA OneApproval ==
  ASSUME ApprovedOnce, NEW p \in Proposals, NEW i \in ApproveRows(p), NEW j \in ApproveRows(p)
  PROVE  i = j
  BY DEF ApprovedOnce

(* A thread that takes up nothing to send leaves the claims as they are.   *)
LEMMA ThreadKeeps ==
  ASSUME ClaimsOpen, NEW w \in Workers,
         UNCHANGED <<status, approvals, consumed>>,
         \A v \in Workers : v # w => worker'[v] = worker[v],
         Holding(w)' => Holding(w) /\ worker'[w].token = worker[w].token
  PROVE  ClaimsOpen'
  BY DEF ClaimsOpen, Holding, ApproveRows

(* So do the reads, the answers, the deliveries and the deaths.            *)
LEMMA ReadingKeeps ==
  ASSUME TypeOK, ClaimsOpen, NEW w \in Workers,
         \/ \E r \in inbox : Accept(w, r)
         \/ ReadNonce(w) \/ ReadProposal(w) \/ ReadOwnExecution(w) \/ ReadApproval(w)
         \/ ReadKey(w) \/ AnswerFromTheWinner(w) \/ Deliver(w) \/ WorkerDies(w)
  PROVE  ClaimsOpen'
  <1> USE DEF tables, wire, ReadOnly
  <1>0. worker \in [Workers -> Worker]
    BY DEF TypeOK, GatewayTypeOK
  <1>a. ASSUME NEW code, Answering(w, code), UNCHANGED <<status, approvals, consumed>>
        PROVE  ClaimsOpen'
    BY <1>0, <1>a, ThreadKeeps DEF Answering, Idle, Holding
  <1>b. ASSUME NEW x, worker' = [worker EXCEPT ![w] = x], x.pc \notin {"send", "finish"},
               UNCHANGED <<status, approvals, consumed>>
        PROVE  ClaimsOpen'
    BY <1>0, <1>b, ThreadKeeps DEF Holding
  <1>c. ASSUME NEW pc, Advance(w, pc), pc \notin {"send", "finish"},
               UNCHANGED <<status, approvals, consumed>>
        PROVE  ClaimsOpen'
    <2>1. [worker[w] EXCEPT !.pc = pc].pc = pc
      BY <1>0 DEF Worker
    <2> QED
      BY <1>b, <1>c, <2>1 DEF Advance
  <1>1. ASSUME NEW r \in inbox, Accept(w, r)
        PROVE  ClaimsOpen'
    <2>1. CASE worker' = worker
      BY <1>1, <2>1, ThreadKeeps DEF Accept, Holding
    <2>2. CASE worker' # worker
      <3>1. PICK late : worker' = [worker EXCEPT ![w] =
                 [Idle EXCEPT !.pc = "nonce", !.token = r.token, !.key = r.key,
                              !.from = r.from, !.late = late]]
        BY <1>1, <2>2 DEF Accept
      <3>2. [Idle EXCEPT !.pc = "nonce", !.token = r.token, !.key = r.key,
                         !.from = r.from, !.late = late].pc = "nonce"
        BY DEF Idle
      <3> QED
        BY <1>1, <1>b, <3>1, <3>2 DEF Accept
    <2> QED
      BY <2>1, <2>2
  <1>2. CASE ReadNonce(w)
    BY <1>2, <1>a, <1>c DEF ReadNonce
  <1>3. CASE ReadProposal(w)
    <2>1. worker'[w].pc = "own" /\ \A v \in Workers : v # w => worker'[v] = worker[v]
      BY <1>0, <1>3 DEF ReadProposal, Worker
    <2> QED
      BY <1>3, <2>1, ThreadKeeps DEF ReadProposal, Holding
  <1>4. CASE ReadOwnExecution(w)
    <2>1. CASE Answering(w, "not_approved")
      BY <1>4, <1>a, <2>1 DEF ReadOwnExecution
    <2>2. CASE ~Answering(w, "not_approved")
      <3>1. PICK own : worker' = [worker EXCEPT ![w] = [@ EXCEPT !.pc = "approval",
                                                                 !.prior = own]]
        BY <1>4, <2>2 DEF ReadOwnExecution
      <3>2. [worker[w] EXCEPT !.pc = "approval", !.prior = own].pc = "approval"
        BY <1>0 DEF Worker
      <3> QED
        BY <1>4, <1>b, <3>1, <3>2 DEF ReadOwnExecution
    <2> QED
      BY <2>1, <2>2
  <1>5. CASE ReadApproval(w)
    BY <1>5, <1>a, <1>c DEF ReadApproval
  <1>6. CASE ReadKey(w)
    BY <1>6, <1>a, <1>c DEF ReadKey
  <1>7. CASE AnswerFromTheWinner(w)
    BY <1>7, <1>a DEF AnswerFromTheWinner
  <1>8. CASE Deliver(w)
    <2>1. PICK ok : worker' = [worker EXCEPT ![w] = [@ EXCEPT !.pc = "finish", !.ok = ok]]
      BY <1>8 DEF Deliver
    <2>2. worker'[w].token = worker[w].token /\ \A v \in Workers : v # w => worker'[v] = worker[v]
      BY <1>0, <2>1 DEF Worker
    <2>3. Holding(w)
      BY <1>8 DEF Deliver, Holding
    <2> QED
      BY <1>8, <2>2, <2>3, ThreadKeeps DEF Deliver
  <1>9. CASE WorkerDies(w)
    BY <1>9, <1>b DEF WorkerDies, Idle
  <1> QED
    BY <1>1, <1>2, <1>3, <1>4, <1>5, <1>6, <1>7, <1>8, <1>9

(* A claim goes to a proposal that is approved and whose approval is not   *)
(* spent: were it finished, its one nonce would be used up.                *)
LEMMA ClaimKeeps ==
  ASSUME IInv, ApprovedOnce, ClaimsOpen, NEW w \in Workers, Claim(w)
  PROVE  ClaimsOpen'
  <1> DEFINE t == worker[w].token
             k == worker[w].key
  <1>0. worker \in [Workers -> Worker] /\ consumed \in [Nonces -> Keys \cup {None}]
    BY DEF IInv, TypeOK, TablesTypeOK, GatewayTypeOK
  <1>1. t \in Token /\ k \in Keys
    BY DEF IInv, InFlight, Claim, TypeOK, TablesTypeOK
  <1>2. PICK j \in ApproveRows(t.proposal) : approvals[j].nonce = t.nonce
    BY DEF IInv, ApprovedInHand, Claim
  <1>p. t.proposal \in Proposals
    BY <1>1 DEF Token
  <1>q. \A i \in ApproveRows(t.proposal) : i = j
    BY <1>2, <1>p, OneApproval
  <1>3. /\ worker'[w].pc \in {"send", "lost"} /\ worker'[w].token = t
        /\ \A v \in Workers : v # w => worker'[v] = worker[v]
    BY <1>0 DEF Claim, Advance, Worker
  <1>4. CASE ~ClaimFree(t, k)
    <2>1. worker'[w].pc = "lost" /\ consumed' = consumed
      BY <1>0, <1>4 DEF Claim, Advance, Worker
    <2> QED
      BY <1>3, <2>1, ThreadKeeps DEF Claim, Holding
  <1>5. CASE ClaimFree(t, k)
    <2>1. consumed[t.nonce] = None /\ k # None
      BY <1>1, <1>5, NoneAssumption DEF ClaimFree
    <2>2. consumed' = [consumed EXCEPT ![t.nonce] = k]
          /\ UNCHANGED <<status, approvals>>
      BY <1>5 DEF Claim, Consume
    <2>3. status[t.proposal] = "approved"
      <3>1. status[t.proposal] \in {"approved", "executed", "failed"}
        BY <1>2, <1>p DEF ApprovedOnce
      <3>2. status[t.proposal] \notin {"executed", "failed"}
        BY <1>2, <1>p, <1>q, <2>1 DEF ClaimsOpen
      <3> QED
        BY <3>1, <3>2
    <2>4. \A n : consumed[n] # None => consumed'[n] # None
      BY <1>0, <2>1, <2>2
    <2>5. \A p : ApproveRows(p)' = ApproveRows(p)
      BY <2>2 DEF ApproveRows
    <2>6. ASSUME NEW v \in Workers, Holding(v)'
          PROVE  /\ status'[worker'[v].token.proposal] = "approved"
                 /\ \E i \in ApproveRows(worker[v].token.proposal)' :
                        approvals'[i].nonce = worker'[v].token.nonce
      <3>1. CASE v = w
        BY <1>2, <1>3, <2>2, <2>3, <2>5, <3>1
      <3>2. CASE v # w
        <4>1. worker'[v] = worker[v] /\ Holding(v)
          BY <1>3, <2>6, <3>2 DEF Holding
        <4> QED
          BY <2>2, <2>5, <4>1 DEF ClaimsOpen
      <3> QED
        BY <3>1, <3>2
    <2>7. ASSUME NEW p \in Proposals, status'[p] \in {"executed", "failed"}
          PROVE  \E i \in ApproveRows(p)' : consumed'[approvals'[i].nonce] # None
      BY <2>2, <2>4, <2>5, <2>7 DEF ClaimsOpen
    <2> QED
      BY <2>6, <2>7 DEF ClaimsOpen
  <1> QED
    BY <1>4, <1>5

(* _finish ends an approved proposal, and no other thread holds a claim    *)
(* for it: it would hold the same nonce, and so the same key.              *)
LEMMA FinishKeeps ==
  ASSUME IInv, ApprovedOnce, ClaimsOpen, NEW w \in Workers, Finish(w)
  PROVE  /\ ApprovedOnce' /\ ClaimsOpen'
         /\ \A p \in Proposals : \/ status'[p] = status[p]
                                  \/ /\ status[p] = "approved"
                                     /\ status'[p] \in {"executed", "failed"}
  <1> DEFINE t == worker[w].token
  <1>0. worker \in [Workers -> Worker] /\ status \in [Proposals -> ProposalStatuses]
    BY DEF IInv, TypeOK, TablesTypeOK, GatewayTypeOK
  <1>1. t \in Token /\ worker[w].key \in Keys /\ Holding(w)
    BY DEF IInv, InFlight, Finish, TypeOK, TablesTypeOK, Holding
  <1>2. status[t.proposal] = "approved" /\ consumed[t.nonce] = worker[w].key
    BY <1>1 DEF ClaimsOpen, IInv, ClaimHeld
  <1>3. PICK j \in ApproveRows(t.proposal) : approvals[j].nonce = t.nonce
    BY <1>1 DEF ClaimsOpen
  <1>q. t.proposal \in Proposals /\ \A i \in ApproveRows(t.proposal) : i = j
    BY <1>1, <1>3, OneApproval DEF Token
  <1>4. /\ status' = [status EXCEPT ![t.proposal] = ProposalResult(w)]
        /\ ProposalResult(w) \in {"executed", "failed"}
        /\ UNCHANGED <<approvals, consumed>>
    BY DEF Finish, Recorded, ProposalResult
  <1>5. worker'[w].pc = "idle" /\ \A v \in Workers : v # w => worker'[v] = worker[v]
    BY <1>0 DEF Finish, Recorded, Answering, Idle
  <1>6. \A p : ApproveRows(p)' = ApproveRows(p)
    BY <1>4 DEF ApproveRows
  <1>7. ASSUME NEW v \in Workers, v # w, Holding(v)
        PROVE  worker[v].token.proposal # t.proposal
    <2>1. PICK i \in ApproveRows(worker[v].token.proposal) :
             approvals[i].nonce = worker[v].token.nonce
      BY <1>7 DEF ClaimsOpen
    <2>2. consumed[worker[v].token.nonce] = worker[v].key
      BY <1>7 DEF IInv, ClaimHeld
    <2>3. worker[v].key # worker[w].key
      BY <1>1, <1>7 DEF IInv, ClaimHeld
    <2> QED
      BY <1>2, <1>3, <1>q, <2>1, <2>2, <2>3
  <1>8. ApprovedOnce'
    BY <1>0, <1>2, <1>4, <1>6 DEF ApprovedOnce
  <1>9. ASSUME NEW v \in Workers, Holding(v)'
        PROVE  /\ status'[worker'[v].token.proposal] = "approved"
               /\ \E i \in ApproveRows(worker[v].token.proposal)' :
                      approvals'[i].nonce = worker'[v].token.nonce
    <2>1. v # w
      BY <1>5, <1>9 DEF Holding
    <2>2. worker'[v] = worker[v] /\ Holding(v)
      BY <1>5, <1>9, <2>1 DEF Holding
    <2>3. status'[worker[v].token.proposal] = status[worker[v].token.proposal]
      BY <1>0, <1>4, <1>7, <2>1, <2>2
    <2> QED
      BY <1>4, <1>6, <2>2, <2>3 DEF ClaimsOpen
  <1>10. ASSUME NEW p \in Proposals, status'[p] \in {"executed", "failed"}
         PROVE  \E i \in ApproveRows(p)' : consumed'[approvals'[i].nonce] # None
    <2>1. CASE p = t.proposal
      BY <1>1, <1>2, <1>3, <1>4, <1>6, <2>1, NoneAssumption
    <2>2. CASE p # t.proposal
      BY <1>0, <1>4, <1>6, <1>10, <2>2 DEF ClaimsOpen
    <2> QED
      BY <2>1, <2>2
  <1>11. ClaimsOpen'
    BY <1>9, <1>10 DEF ClaimsOpen
  <1> QED
    BY <1>0, <1>2, <1>4, <1>8, <1>11

(* What a step of the gateway does to a proposal's status: nothing, or it  *)
(* ends an approved one.                                                   *)
Ends == \A p \in Proposals : \/ status'[p] = status[p]
                             \/ status[p] = "approved" /\ status'[p] \in {"executed", "failed"}

(* Each step of the gateway keeps one approval for each proposal and the   *)
(* claims made under it, and ends what is approved.                        *)
LEMMA GatewayKeeps ==
  ASSUME IInv, ApprovedOnce, ClaimsOpen, GatewayNext
  PROVE  ApprovedOnce' /\ ClaimsOpen' /\ Ends /\ letter' = letter
  <1> USE DEF tables, wire
  <1>a. ASSUME status' = status, approvals' = approvals
        PROVE  ApprovedOnce' /\ Ends
    BY <1>a DEF ApprovedOnce, ApproveRows, Ends
  <1>1. ASSUME NEW w \in Workers, Finish(w)
        PROVE  ApprovedOnce' /\ ClaimsOpen' /\ Ends /\ letter' = letter
    BY <1>1, FinishKeeps DEF Ends, Finish, Recorded
  <1>2. ASSUME NEW w \in Workers, WorkerStep(w), ~Finish(w)
        PROVE  ApprovedOnce' /\ ClaimsOpen' /\ Ends /\ letter' = letter
    <2>1. status' = status /\ approvals' = approvals /\ letter' = letter
      BY <1>2 DEF WorkerStep, Accept, ReadNonce, ReadProposal, ReadOwnExecution, ReadApproval,
                  ReadKey, Claim, AnswerFromTheWinner, Deliver, ReadOnly
    <2>2. ClaimsOpen'
      BY <1>2, ReadingKeeps, ClaimKeeps DEF WorkerStep, IInv
    <2> QED
      BY <1>a, <2>1, <2>2
  <1>3. ASSUME NEW t \in minted, ExpireToken(t)
        PROVE  ApprovedOnce' /\ ClaimsOpen' /\ Ends /\ letter' = letter
    BY <1>a, <1>3 DEF ExpireToken, ClaimsOpen, Holding, ApproveRows
  <1> QED
    BY <1>1, <1>2, <1>3 DEF GatewayNext

(* Replays and faults write no table.                                      *)
LEMMA EnvironmentKeeps ==
  ASSUME TypeOK, ApprovedOnce, ClaimsOpen,
         Fault \/ \E t \in minted, k \in Keys : Replay(t, k)
  PROVE  ApprovedOnce' /\ ClaimsOpen' /\ UNCHANGED <<status, letter>>
  <1>1. UNCHANGED <<status, letter, approvals, consumed>>
    BY DEF Fault, Lose, HandlerDies, RollBack, WorkerDies, Replay, tables
  <1>2. ApprovedOnce'
    BY <1>1 DEF ApprovedOnce, ApproveRows
  <1>3. ASSUME worker' = worker
        PROVE  ClaimsOpen'
    BY <1>1, <1>3 DEF ClaimsOpen, Holding, ApproveRows
  <1>4. ASSUME NEW w \in Workers, WorkerDies(w)
        PROVE  ClaimsOpen'
    BY <1>4, ReadingKeeps
  <1> QED
    BY <1>1, <1>2, <1>3, <1>4 DEF Fault, Lose, Replay, gatewayVars

-----------------------------------------------------------------------------
(* Windows outside the app's steps *)

(* The gateway, replays and faults open no window, and what an open window *)
(* has read stays pending: they end approved proposals only.               *)
LEMMA OthersKeepViews ==
  ASSUME TypeOK, InFlight, OneWindow, ViewsCurrent, Ends,
         \/ UNCHANGED <<op, sweep>>
         \/ \E o \in Operators : op' = [op EXCEPT ![o] = Away] /\ sweep' = sweep
  PROVE  OneWindow' /\ ViewsCurrent'
  <1>0. op \in [Operators -> Handler] /\ sweep \in [Sweepers -> Sweep]
    BY DEF TypeOK, DecisionsTypeOK
  <1>1. /\ \A o \in Operators : op'[o] = op[o] \/ op'[o] = Away
        /\ sweep' = sweep
    BY <1>0
  <1>2. \A p \in Proposals : status[p] = "pending" => status'[p] = "pending"
    BY DEF Ends
  <1>3. \A o \in Operators : op[o].stale \subseteq Proposals
    BY <1>0 DEF Handler
  <1>4. \A s \in Sweepers : sweep[s].stale \subseteq Proposals
    BY <1>0 DEF Sweep
  <1>5. \A o \in Operators : TabOpen(o)' => TabOpen(o) /\ op'[o] = op[o]
    BY <1>1 DEF TabOpen, Away
  <1>6. \A s \in Sweepers : PageOpen(s)' => PageOpen(s)
    BY <1>1 DEF PageOpen
  <1>7. OneWindow'
    BY <1>5, <1>6, WindowsClose
  <1>8. \A o \in Operators : op'[o].pc = "loaded" => status'[op'[o].proposal] = "pending"
    BY <1>2, <1>5 DEF TabOpen, ViewsCurrent, InFlight
  <1>9. \A o \in Operators : op'[o].pc = "swept" =>
           \A p \in op'[o].stale : status'[p] = "pending"
    BY <1>2, <1>3, <1>5 DEF TabOpen, ViewsCurrent
  <1>10. \A s \in Sweepers : PageOpen(s)' => \A p \in sweep'[s].stale : status'[p] = "pending"
    BY <1>1, <1>2, <1>4, <1>6 DEF ViewsCurrent
  <1> QED
    BY <1>7, <1>8, <1>9, <1>10 DEF ViewsCurrent

-----------------------------------------------------------------------------
(* The main results *)

(* When the behaviour starts nothing is decided, claimed or being read.    *)
LEMMA InitSerial == Init => SerialInv
  <1> SUFFICES ASSUME Init PROVE SerialInv
    OBVIOUS
  <1> USE DEF Init, TablesInit, DecisionsInit, GatewayInit
  <1>1. IInv
    BY InitInv
  <1>2. OneWindow
    BY DEF OneWindow, OpenWindows, TabOpen, PageOpen, Away
  <1>3. ViewsCurrent
    BY DEF ViewsCurrent, PageOpen, Away
  <1>4. ApprovedOnce
    BY DEF ApprovedOnce, ApproveRows
  <1>5. ClaimsOpen
    BY DEF ClaimsOpen, Holding, Idle
  <1> QED
    BY <1>1, <1>2, <1>3, <1>4, <1>5 DEF SerialInv

(* What a step does to statuses and letters, when decisions are taken one  *)
(* at a time.                                                              *)
StepDecides == Decides \/ (Ends /\ letter' = letter)

(* Every step keeps the invariant and decides or ends what it may.         *)
LEMMA NextSerial ==
  ASSUME SerialInv, [SerialNext]_vars
  PROVE  SerialInv' /\ StepDecides
  <1> USE DEF SerialInv
  <1>0. IInv' /\ TypeOK /\ InFlight
    BY SerialIsBoundary, NextInv DEF IInv
  <1>1. CASE DecisionsNext /\ OneWindow' /\ UNCHANGED <<gatewayVars, replays, faults>>
    <2>1. Decides /\ ViewsCurrent'
      BY <1>0, <1>1, AppDecides
    <2>2. UNCHANGED <<worker, consumed>>
      BY <1>0, <1>1, DecisionsFrame DEF AppFrame
    <2>3. ApprovedOnce' /\ ClaimsOpen'
      BY <1>0, <2>1, <2>2, DecidesKeeps
    <2> QED
      BY <1>0, <1>1, <2>1, <2>3 DEF StepDecides
  <1>2. CASE GatewayNext /\ UNCHANGED <<decisionVars, replays, faults>>
    <2>1. ApprovedOnce' /\ ClaimsOpen' /\ Ends /\ letter' = letter
      BY <1>2, GatewayKeeps
    <2>2. OneWindow' /\ ViewsCurrent'
      BY <1>0, <1>2, <2>1, OthersKeepViews DEF decisionVars
    <2> QED
      BY <1>0, <2>1, <2>2 DEF StepDecides
  <1>3. CASE Fault \/ \E t \in minted, k \in Keys : Replay(t, k)
    <2>1. ApprovedOnce' /\ ClaimsOpen' /\ UNCHANGED <<status, letter>>
      BY <1>0, <1>3, EnvironmentKeeps
    <2>2. Ends
      BY <2>1 DEF Ends
    <2>3. \/ UNCHANGED <<op, sweep>>
          \/ \E o \in Operators : op' = [op EXCEPT ![o] = Away] /\ sweep' = sweep
      BY <1>3 DEF Fault, Lose, HandlerDies, RollBack, Replay, decisionVars
    <2>4. OneWindow' /\ ViewsCurrent'
      BY <1>0, <2>2, <2>3, OthersKeepViews
    <2> QED
      BY <1>0, <2>1, <2>2, <2>4 DEF StepDecides
  <1>4. CASE UNCHANGED vars
    BY <1>0, <1>4 DEF vars, tables, decisionVars, gatewayVars, StepDecides, Ends, OneWindow,
       OpenWindows, TabOpen, PageOpen, ViewsCurrent, ApprovedOnce, ApproveRows, ClaimsOpen, Holding
  <1> QED
    BY <1>1, <1>2, <1>3, <1>4 DEF SerialNext

(* SerialInv holds in every reachable state while decisions are taken one  *)
(* at a time, whatever the gateway, replays and faults do meanwhile.       *)
THEOREM SerialInvariant == SerialSpec => []SerialInv
  <1>1. SerialInv /\ [SerialNext]_vars => SerialInv'
    BY NextSerial
  <1> QED
    BY InitSerial, <1>1, PTL DEF SerialSpec

(* One decision at a time, one letter for each proposal: its one approval  *)
(* has one nonce, and a nonce is behind one letter.                        *)
THEOREM SerialSendsOnce == SerialSpec => []OneSendPerProposal
  <1>1. SerialInv => OneSendPerProposal
    <2> SUFFICES ASSUME SerialInv, NEW i \in DOMAIN outbox, NEW j \in DOMAIN outbox,
                        outbox[i].proposal = outbox[j].proposal
                 PROVE  i = j
      BY DEF OneSendPerProposal
    <2> DEFINE p == outbox[i].proposal
    <2>1. outbox[i] \in Delivery
      BY SeqElement DEF SerialInv, IInv, TypeOK, TablesTypeOK
    <2>2. PICK a \in ApproveRows(p) : approvals[a].nonce = outbox[i].nonce
      BY DEF SerialInv, IInv, Safe, SentAsApproved
    <2>3. PICK b \in ApproveRows(p) : approvals[b].nonce = outbox[j].nonce
      BY DEF SerialInv, IInv, Safe, SentAsApproved
    <2>4. p \in Proposals
      BY <2>1 DEF Delivery
    <2>5. a = b
      BY <2>4, OneApproval DEF SerialInv
    <2> QED
      BY <2>2, <2>3, <2>5 DEF SerialInv, IInv, Safe, OneSendPerNonce
  <1> QED
    BY <1>1, SerialInvariant, PTL

(* One decision at a time, a terminal status is final: commits decide what *)
(* is pending and _finish what is approved, though no UPDATE compares.     *)
THEOREM SerialStatusesAreFinal == SerialSpec => TerminalIsFinal
  <1> DEFINE Final == \A p \in Proposals : status[p] \in TerminalStatuses => status'[p] = status[p]
  <1>1. SerialInv /\ [SerialNext]_vars => [Final]_vars
    <2> SUFFICES ASSUME SerialInv, [SerialNext]_vars PROVE Final
      OBVIOUS
    <2>1. StepDecides
      BY NextSerial
    <2> QED
      BY <2>1 DEF StepDecides, Decides, Ends, TerminalStatuses
  <1> QED
    BY <1>1, SerialInvariant, PTL DEF SerialSpec, TerminalIsFinal

(* One decision at a time, a decided letter is never rewritten.            *)
THEOREM SerialLettersAreFrozen == SerialSpec => DecidedLetterFrozen
  <1> DEFINE Frozen == \A p \in Proposals : status[p] # "pending" => letter'[p] = letter[p]
  <1>1. SerialInv /\ [SerialNext]_vars => [Frozen]_vars
    <2> SUFFICES ASSUME SerialInv, [SerialNext]_vars PROVE Frozen
      OBVIOUS
    <2>1. StepDecides
      BY NextSerial
    <2> QED
      BY <2>1 DEF StepDecides, Decides
  <1> QED
    BY <1>1, SerialInvariant, PTL DEF SerialSpec, DecidedLetterFrozen
=============================================================================
