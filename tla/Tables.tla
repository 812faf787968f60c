------------------------------- MODULE Tables -------------------------------
(***************************************************************************)
(* What the two containers share: the rows of the SQLite file that the app *)
(* and the action gateway both open, the signed tokens in circulation, the *)
(* HTTP messages between them, and the outside world's mailbox.  The       *)
(* module has no actions; Decisions (the app) and Gateway write these      *)
(* variables, Boundary composes the two.                                   *)
(*                                                                         *)
(* A letter stands for the whole JSON payload and for its SHA-256 hash:    *)
(* two payloads have the same hash only when they are equal, and the code  *)
(* always writes payload and payload_hash together.                        *)
(***************************************************************************)
EXTENDS Naturals, Sequences, FiniteSets

CONSTANTS
    Proposals,      \* proposal ids, created before the behaviour starts
    Runs,           \* agent runs that created them
    RunOf,          \* proposals.run_id
    Letters,        \* letter payloads
    Operators,      \* operator identities, one browser tab each
    Nonces,         \* the UUIDs new_nonce() may return
    Keys,           \* the UUIDs used as idempotency keys
    None            \* SQL NULL / Python None

ASSUME RunOfAssumption == RunOf \in [Proposals -> Runs]

VARIABLES
    status,         \* proposals.status
    letter,         \* proposals.payload and payload_hash
    lapsed,         \* proposals whose expires_at is in the past
    runStatus,      \* runs.status, from "running" on
    approvals,      \* the approvals table in id order
    consumed,       \* token_nonces: the key that consumed each nonce
    executions,     \* executions, by their unique idempotency_key
    minted,         \* tokens signed so far; whoever has one may send it again
    expired,        \* nonces of the tokens whose exp is in the past
    inbox,          \* POST /internal/actions/execute on the wire
    answers,        \* responses the gateway has produced
    usedKeys,       \* idempotency keys some request has carried
    outbox          \* the letters that left the system, in order

tables  == <<status, letter, lapsed, runStatus, approvals, consumed, executions>>
wire    == <<minted, expired, inbox, answers, usedKeys>>

ProposalStatuses == {"pending", "approved", "rejected", "executed", "failed", "expired"}
TerminalStatuses == {"rejected", "executed", "failed", "expired"}
RunStatuses      == {"running", "awaiting_approval", "completed"}

(* The claims of approval_token.ApprovalTokenClaims; iat and exp are       *)
(* `expired`, and action_type has a single value.                          *)
Token == [nonce: Nonces, proposal: Proposals, letter: Letters, approver: Operators]

(* A row of `approvals`.  `read` is no column: it is the text the operator *)
(* had in front of them, kept to say what they approved.                   *)
ApprovalRow == [proposal: Proposals, decision: {"approve", "reject"}, actor: Operators,
                nonce: Nonces \cup {None}, read: Letters \cup {None}]

Execution == [proposal: Proposals, status: {"pending", "succeeded", "failed"}]

Request == [token: Token, key: Keys, from: Operators \cup {None}]

Codes == {"executed", "already_executed", "execution_failed", "token_expired",
          "token_replayed", "not_approved", "approval_mismatch", "payload_modified"}

Answer == [to: Operators \cup {None}, key: Keys, nonce: Nonces, code: Codes]

(* One delivered letter and the request that caused it.                    *)
Delivery == [proposal: Proposals, letter: Letters, nonce: Nonces, key: Keys]

(* NULL is no UUID, letter or row.                                         *)
ASSUME NoneAssumption ==
    None \notin Proposals \cup Letters \cup Operators \cup Nonces \cup Keys
                \cup Token \cup Execution

TablesTypeOK ==
    /\ status     \in [Proposals -> ProposalStatuses]
    /\ letter     \in [Proposals -> Letters]
    /\ lapsed     \subseteq Proposals
    /\ runStatus  \in [Runs -> RunStatuses]
    /\ approvals  \in Seq(ApprovalRow)
    /\ consumed   \in [Nonces -> Keys \cup {None}]
    /\ executions \in [Keys -> Execution \cup {None}]
    /\ minted     \subseteq Token
    /\ expired    \subseteq Nonces
    /\ inbox      \subseteq Request
    /\ answers    \subseteq Answer
    /\ usedKeys   \subseteq Keys
    /\ outbox     \in Seq(Delivery)

(* Proposals wait in the queue; their runs' agents are still working.      *)
TablesInit ==
    /\ status     = [p \in Proposals |-> "pending"]
    /\ letter     \in [Proposals -> Letters]
    /\ lapsed     = {}
    /\ runStatus  = [r \in Runs |-> "running"]
    /\ approvals  = <<>>
    /\ consumed   = [n \in Nonces |-> None]
    /\ executions = [k \in Keys |-> None]
    /\ minted     = {}
    /\ expired    = {}
    /\ inbox      = {}
    /\ answers    = {}
    /\ usedKeys   = {}
    /\ outbox     = <<>>

(* uuid4: never one that was drawn before.                                 *)
FreshNonces == Nonces \ {t.nonce : t \in minted}
FreshKeys   == Keys \ usedKeys

(* Rows of the approvals table for p, most recent last.                    *)
ApproveRows(p) == {i \in DOMAIN approvals :
                      approvals[i].proposal = p /\ approvals[i].decision = "approve"}
=============================================================================
