------------------------------ MODULE Boundary ------------------------------
(***************************************************************************)
(* The approval boundary: the app's decision handlers and the gateway's    *)
(* request threads over the tables they share, with the wire between them. *)
(***************************************************************************)
EXTENDS Decisions, Gateway

CONSTANTS
    MaxReplays,     \* bound on the requests sent by hand
    MaxFaults       \* bound on lost requests and dead threads

ASSUME BoundsAssumption == MaxReplays \in Nat /\ MaxFaults \in Nat

VARIABLES replays, faults

vars == <<tables, wire, outbox, decisionVars, gatewayVars, replays, faults>>

TypeOK ==
    /\ TablesTypeOK
    /\ DecisionsTypeOK
    /\ GatewayTypeOK
    /\ replays \in Nat
    /\ faults \in Nat

Init ==
    /\ TablesInit
    /\ DecisionsInit
    /\ GatewayInit
    /\ replays = 0
    /\ faults = 0

(* A request made by hand with a token already in circulation, under a     *)
(* key of its own or one used before: what scripts/demo_boundary.py does.  *)
Replay(t, k) ==
    /\ replays < MaxReplays
    /\ replays' = replays + 1
    /\ inbox' = inbox \cup {[token |-> t, key |-> k, from |-> None]}
    /\ usedKeys' = usedKeys \cup {k}
    /\ UNCHANGED <<tables, minted, expired, answers, outbox, decisionVars, gatewayVars, faults>>

(* A request that never reaches the gateway. *)
Lose(r) ==
    /\ inbox' = inbox \ {r}
    /\ UNCHANGED <<tables, minted, expired, answers, usedKeys, outbox, decisionVars, gatewayVars>>

Fault ==
    /\ faults < MaxFaults
    /\ faults' = faults + 1
    /\ UNCHANGED replays
    /\ \/ \E r \in inbox : Lose(r)
       \/ \E o \in Operators : HandlerDies(o) /\ UNCHANGED gatewayVars
       \/ \E w \in Workers : WorkerDies(w) /\ UNCHANGED decisionVars

Next ==
    \/ DecisionsNext /\ UNCHANGED <<gatewayVars, replays, faults>>
    \/ GatewayNext /\ UNCHANGED <<decisionVars, replays, faults>>
    \/ \E t \in minted, k \in Keys : Replay(t, k)
    \/ Fault

Spec == Init /\ [][Next]_vars

(* Threads that have work keep running: nothing in a handler or a request  *)
(* waits for anything but the database lock, which is held for one commit. *)
Fairness ==
    /\ \A o \in Operators :
           WF_vars(HandlerStep(o) /\ UNCHANGED <<gatewayVars, replays, faults>>)
    /\ \A w \in Workers :
           WF_vars(WorkerStep(w) /\ UNCHANGED <<decisionVars, replays, faults>>)
    /\ \A s \in Sweepers :
           WF_vars((SweepRead(s) \/ SweepWrite(s)) /\ UNCHANGED <<gatewayVars, replays, faults>>)

FairSpec == Spec /\ Fairness

(* One decision at a time: no request or page reads a proposal while       *)
(* another handler is between its read and its commit.  The code does not  *)
(* enforce this; it is the setting its status diagram describes.           *)
TabOpen(o) == op[o].pc \in {"swept", "loaded"}

PageOpen(s) == sweep[s].pc = "swept"

OpenWindows == {<<"tab", o>> : o \in {q \in Operators : TabOpen(q)}}
               \cup {<<"page", s>> : s \in {q \in Sweepers : PageOpen(q)}}

OneWindow == \A v, w \in OpenWindows : v = w

(* Only the app's steps open a window. *)
SerialNext ==
    \/ DecisionsNext /\ OneWindow' /\ UNCHANGED <<gatewayVars, replays, faults>>
    \/ GatewayNext /\ UNCHANGED <<decisionVars, replays, faults>>
    \/ \E t \in minted, k \in Keys : Replay(t, k)
    \/ Fault

SerialSpec == Init /\ [][SerialNext]_vars

-----------------------------------------------------------------------------
(* Every letter that went out was approved: an approve row carries its     *)
(* nonce, for the same proposal, and the token that row minted names the   *)
(* same text.  However handlers, requests, replays and crashes interleave, *)
(* the letter of one approval is never sent under another, an edit that    *)
(* lands between check 4 and the send changes nothing, and a probe's token *)
(* sends nothing (verify.py checks 4 to 6, executor.py 182-188).           *)
SentAsApproved ==
    \A i \in DOMAIN outbox :
        /\ \E j \in ApproveRows(outbox[i].proposal) : approvals[j].nonce = outbox[i].nonce
        /\ \E t \in minted : /\ t.nonce = outbox[i].nonce
                             /\ t.proposal = outbox[i].proposal
                             /\ t.letter = outbox[i].letter

(* One approval, one send: no nonce is behind two letters, whatever is     *)
(* retried or replayed and whichever thread dies where (check 3, check 7   *)
(* and the unique constraints of executor._claim).                         *)
OneSendPerNonce ==
    \A i, j \in DOMAIN outbox : outbox[i].nonce = outbox[j].nonce => i = j

(* The gateway never acts off the record: a letter that is out has a       *)
(* committed execution row for its proposal and a consumed nonce bound to  *)
(* the same key, even if the thread died right after the send              *)
(* (executor.py 10-13).                                                    *)
SentIsOnRecord ==
    \A i \in DOMAIN outbox :
        LET d == outbox[i]
        IN  /\ executions[d.key] # None
            /\ executions[d.key].proposal = d.proposal
            /\ consumed[d.nonce] = d.key

(* What the record calls a success is one: a succeeded execution has its   *)
(* letter in the outbox, and a proposal is only ever shown as executed     *)
(* when one of its letters is out (executor._finish).                      *)
SuccessIsReal ==
    /\ \A k \in Keys : executions[k] # None /\ executions[k].status = "succeeded" =>
           \E i \in DOMAIN outbox : outbox[i].key = k
    /\ \A p \in Proposals : status[p] = "executed" =>
           \E i \in DOMAIN outbox : outbox[i].proposal = p

(* No key and no nonce is claimed without the other: every execution has   *)
(* exactly one nonce consumed for it (executor._claim, one transaction).   *)
ClaimsPairUp ==
    /\ \A n \in Nonces : consumed[n] # None => executions[consumed[n]] # None
    /\ \A k \in Keys : executions[k] # None =>
           \E n \in Nonces : /\ consumed[n] = k
                             /\ \A m \in Nonces : consumed[m] = k => m = n

(* A run is settled only when nothing of it is pending, and stays settled: *)
(* a decision that lands later finds nothing to settle (settle_run_if_     *)
(* decided, called by reject and by every sweep).                          *)
SettledMeansDecided ==
    \A p \in Proposals : runStatus[RunOf[p]] = "completed" => status[p] # "pending"

(* What the boundary promises, as a specification.                         *)
ApprovedNonces == {approvals[i].nonce : i \in {j \in DOMAIN approvals :
                                                   approvals[j].decision = "approve"}}

Granted == {[nonce |-> t.nonce, proposal |-> t.proposal, letter |-> t.letter] :
               t \in {u \in minted : u.nonce \in ApprovedNonces}}

SentLetters == [i \in DOMAIN outbox |-> [nonce |-> outbox[i].nonce,
                                         proposal |-> outbox[i].proposal,
                                         letter |-> outbox[i].letter]]

Contract == INSTANCE SendContract WITH granted <- Granted, sent <- SentLetters

(* The app and the gateway together implement SendContract.                *)
ImplementsContract == Contract!Spec

-----------------------------------------------------------------------------
(* Why the above holds: what is true of a request in flight *)

(* Whoever carries a token carries one the app signed, and every request   *)
(* names its proposal; nothing is acted on half filled in.                 *)
InFlight ==
    /\ \A r \in inbox : r.token \in minted
    /\ \A o \in Operators :
         /\ op[o].pc # "away" => op[o].proposal \in Proposals
         /\ op[o].pc = "loaded" => op[o].loaded \in Letters
         /\ op[o].pc \in {"minted", "calling"} => op[o].token \in minted
    /\ \A w \in Workers :
         worker[w].pc # "idle" => worker[w].token \in minted /\ worker[w].key \in Keys

(* Past check 6 a thread has in memory the letter its token was signed     *)
(* for, and an approve row with the token's nonce stays on record.         *)
ApprovedInHand ==
    \A w \in Workers : worker[w].pc \in {"key", "claim", "send"} =>
        /\ worker[w].letter = worker[w].token.letter
        /\ \E j \in ApproveRows(worker[w].token.proposal) :
               approvals[j].nonce = worker[w].token.nonce

(* Between the claim and _finish a thread owns its key and its nonce: both *)
(* rows are committed, no other thread holds them, and the letter goes out *)
(* under them once, here.                                                  *)
Holding(w) == worker[w].pc \in {"send", "finish"}

ClaimHeld ==
    /\ \A w \in Workers : Holding(w) =>
         /\ consumed[worker[w].token.nonce] = worker[w].key
         /\ executions[worker[w].key] =
                [proposal |-> worker[w].token.proposal, status |-> "pending"]
    /\ \A v, w \in Workers : Holding(v) /\ Holding(w) /\ worker[v].key = worker[w].key
                                  => v = w
    /\ \A w \in Workers : worker[w].pc = "send" =>
         \A i \in DOMAIN outbox : outbox[i].nonce # worker[w].token.nonce
    /\ \A w \in Workers : worker[w].pc = "finish" /\ worker[w].ok =>
         \E i \in DOMAIN outbox : /\ outbox[i].key = worker[w].key
                                  /\ outbox[i].proposal = worker[w].token.proposal

(* No nonce is drawn twice, and every approval's nonce is in a token.      *)
NoncesUnique ==
    /\ \A t, u \in minted : t.nonce = u.nonce => t = u
    /\ \A n \in ApprovedNonces : \E t \in minted : t.nonce = n

(* The inductive invariant.                                                *)
Safe ==
    /\ SentAsApproved
    /\ OneSendPerNonce
    /\ SentIsOnRecord
    /\ SuccessIsReal
    /\ ClaimsPairUp

IInv == TypeOK /\ InFlight /\ NoncesUnique /\ ApprovedInHand /\ ClaimHeld /\ Safe

-----------------------------------------------------------------------------
(* One decision at a time *)

(* At most one letter per proposal: with one decision at a time a proposal *)
(* is approved once, so one letter goes out however often it is requested. *)
OneSendPerProposal ==
    \A i, j \in DOMAIN outbox : outbox[i].proposal = outbox[j].proposal => i = j

(* With one decision at a time a terminal status is final, though handlers *)
(* and _finish write it without comparing the old one.                     *)
TerminalIsFinal ==
    [][\A p \in Proposals : status[p] \in TerminalStatuses => status'[p] = status[p]]_vars

(* With one decision at a time a decided letter is never rewritten.        *)
DecidedLetterFrozen ==
    [][\A p \in Proposals : status[p] # "pending" => letter'[p] = letter[p]]_vars

(* What a handler read before its commit is still so: nobody else decides  *)
(* the proposal it loaded or a lapsed one it is about to expire.           *)
ViewsCurrent ==
    /\ \A o \in Operators :
         /\ op[o].pc = "loaded" => status[op[o].proposal] = "pending"
         /\ op[o].pc = "swept" => \A p \in op[o].stale : status[p] = "pending"
    /\ \A s \in Sweepers : PageOpen(s) => \A p \in sweep[s].stale : status[p] = "pending"

(* A proposal is approved once, and only that moves it towards a send.     *)
ApprovedOnce ==
    \A p \in Proposals :
        /\ \A i, j \in ApproveRows(p) : i = j
        /\ ApproveRows(p) # {} => status[p] \in {"approved", "executed", "failed"}

(* A thread that holds a claim holds its proposal's one approval, which is *)
(* not finished; a finished one has its nonce used up and no thread left.  *)
ClaimsOpen ==
    /\ \A w \in Workers : Holding(w) =>
         /\ status[worker[w].token.proposal] = "approved"
         /\ \E j \in ApproveRows(worker[w].token.proposal) :
                approvals[j].nonce = worker[w].token.nonce
    /\ \A p \in Proposals : status[p] \in {"executed", "failed"} =>
         \E j \in ApproveRows(p) : consumed[approvals[j].nonce] # None

(* The inductive invariant of SerialSpec.                                  *)
SerialInv == IInv /\ OneWindow /\ ViewsCurrent /\ ApprovedOnce /\ ClaimsOpen

-----------------------------------------------------------------------------
(* With no faults, an execution that was claimed is finished: its thread   *)
(* writes succeeded or failed whatever the delivery does.                  *)
ClaimsFinish ==
    \A k \in Keys :
        (executions[k] # None /\ executions[k].status = "pending")
            ~> (executions[k] # None /\ executions[k].status # "pending")

(* With no faults, an approval that reached the gateway is answered there: *)
(* nothing is accepted and forgotten.                                      *)
RequestsAnswered ==
    \A k \in Keys : (\E r \in inbox : r.key = k) ~> (\E a \in answers : a.key = k)

(* A run that waits on nothing is settled sooner or later, as long as      *)
(* somebody opens a page: approve itself does not settle its run.          *)
WaitingRunsHeal ==
    \A r \in Runs :
        (/\ runStatus[r] = "awaiting_approval"
         /\ \A p \in Proposals : RunOf[p] = r => status[p] # "pending")
            ~> (runStatus[r] = "completed")

-----------------------------------------------------------------------------
(* What the repository says and the code does not do *)

(* "Approving uses exactly the words in this box, so you always approve    *)
(* what you just read" (app/web/templates/proposals.html).                 *)
ApprovedAsRead ==
    \A i \in DOMAIN approvals : approvals[i].decision = "approve" =>
        \E t \in minted : t.nonce = approvals[i].nonce /\ t.letter = approvals[i].read

(* "... could not be reached. Nothing was sent." (app/gateway_client.py).  *)
NothingWasSent ==
    \A i \in DOMAIN outbox : outbox[i].nonce \notin gaveUp
=============================================================================
