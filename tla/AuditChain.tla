----------------------------- MODULE AuditChain -----------------------------
(***************************************************************************)
(* The hash-chained audit log: shared/audit.py and the units of work that  *)
(* append to it, in both containers, over one SQLite file.                 *)
(*                                                                         *)
(* A handler writes its act first, so it holds SQLite's write lock when it *)
(* reads the tail.  A refusal (gateway/executor.record_refusal) and a      *)
(* start-up (shared/schema.init_schema_and_audit) write nothing before     *)
(* their first event: they read the tail without a lock, and their INSERT  *)
(* finds out whether the tail has moved.                                   *)
(*                                                                         *)
(* An event's actor, name, subject, detail and time are the pair of its    *)
(* act and its place in it.  HashOf is the tuple of what it hashes: SHA-256*)
(* without collisions.                                                     *)
(***************************************************************************)
EXTENDS Naturals

CONSTANTS
    Writers,        \* threads and processes that append
    Acts,           \* units of work; bounds the length of the log
    MaxEvents,      \* most events one unit appends
    MaxAttempts,    \* run_in_transaction's max_attempts
    Genesis,        \* GENESIS_HASH
    None

ASSUME BoundsAssumption == MaxEvents \in Nat \ {0} /\ MaxAttempts \in Nat \ {0}
ASSUME NoneAssumption == None \notin Writers \cup Acts

VARIABLES
    log,            \* audit_events, committed: a function from ids to rows
    lock,           \* who holds the write lock
    unit,           \* each writer's unit of work
    begun,          \* acts that were begun, ever
    committed,      \* acts whose other tables' changes are committed
    givenUp,        \* start-ups that died, and of what
    altered         \* what was done to the file behind the code's back

vars == <<log, lock, unit, begun, committed, givenUp, altered>>

Kinds == {"handler", "refusal", "startup"}

HashOf(id, act, n, prev) == <<id, act, n, prev>>

Row(id, act, n, prev) ==
    [act |-> act, n |-> n, prev |-> prev, hash |-> HashOf(id, act, n, prev)]

Empty == [id \in {} |-> None]

(* The table l with one row more.                                          *)
Insert(l, id, row) == [i \in {id} \cup DOMAIN l |-> IF i = id THEN row ELSE l[i]]

NoUnit == [pc |-> "idle", kind |-> None, act |-> None, size |-> 0, rows |-> Empty,
           written |-> 0, id |-> 0, prev |-> Genesis, attempts |-> 0]

Init ==
    /\ log = Empty
    /\ lock = None
    /\ unit = [w \in Writers |-> NoUnit]
    /\ begun = {}
    /\ committed = {}
    /\ givenUp = {}
    /\ altered = [kind |-> "none", at |-> 0]

-----------------------------------------------------------------------------
(* tail and append *)

(* The id of the tail; 0 when there is none.                               *)
LastId(l) == IF DOMAIN l = {} THEN 0
             ELSE CHOOSE i \in DOMAIN l : \A j \in DOMAIN l : j <= i

TailHash(l) == IF DOMAIN l = {} THEN Genesis ELSE l[LastId(l)].hash

(* Mutant: no unique constraint on the table. *)
InsertAlways(l, id, row) == id \in Nat

(* The primary key and the two unique constraints of audit_events.         *)
InsertAccepted(l, id, row) ==
    /\ id \notin DOMAIN l
    /\ \A i \in DOMAIN l : l[i].prev # row.prev /\ l[i].hash # row.hash

(* SQLite names the primary key when the id is taken, and only otherwise   *)
(* prev_hash or hash: is_retryable_write_conflict looks for these two.     *)
Retryable(l, id) == id \notin DOMAIN l

(* The table as a unit sees it, its own uncommitted rows included.         *)
Over(rows, l) == [i \in DOMAIN rows \cup DOMAIN l |->
                     IF i \in DOMAIN rows THEN rows[i] ELSE l[i]]

ViewOf(w) == Over(unit[w].rows, log)

-----------------------------------------------------------------------------
(* A handler: its act first, and with it the write lock *)

Begin(w, a, size) ==
    /\ unit[w].pc = "idle" /\ lock = None
    /\ lock' = w
    /\ unit' = [unit EXCEPT ![w] = [NoUnit EXCEPT !.pc = "holding", !.kind = "handler",
                                                  !.act = a, !.size = size]]
    /\ begun' = begun \cup {a}
    /\ UNCHANGED <<log, committed, givenUp, altered>>

AllWritten(w) == unit[w].written = unit[w].size

(* audit.append under the write lock.                                      *)
AppendHeld(w) ==
    LET id  == LastId(ViewOf(w)) + 1
        row == Row(id, unit[w].act, unit[w].written + 1, TailHash(ViewOf(w)))
    IN  /\ unit[w].pc = "holding" /\ ~AllWritten(w)
        /\ InsertAccepted(ViewOf(w), id, row)
        /\ unit' = [unit EXCEPT ![w] = [@ EXCEPT !.rows = Insert(unit[w].rows, id, row),
                                                 !.written = unit[w].written + 1]]
        /\ UNCHANGED <<log, lock, begun, committed, givenUp, altered>>

(* Mutant: the events are committed before the act. *)
CommitEventsFirst(w) ==
    /\ unit[w].pc = "holding" /\ unit[w].written > 0
    /\ log' = ViewOf(w)
    /\ lock' = None
    /\ unit' = [unit EXCEPT ![w] = NoUnit]
    /\ committed' = IF AllWritten(w) THEN committed \cup {unit[w].act} ELSE committed
    /\ UNCHANGED <<begun, givenUp, altered>>

(* session.commit(): the act and its events become visible together.       *)
Commit(w) ==
    /\ unit[w].pc = "holding" /\ AllWritten(w)
    /\ log' = ViewOf(w)
    /\ lock' = None
    /\ unit' = [unit EXCEPT ![w] = NoUnit]
    /\ committed' = committed \cup {unit[w].act}
    /\ UNCHANGED <<begun, givenUp, altered>>

(* An exception in the handler, or the process dies: session_scope, or     *)
(* SQLite, rolls the unit back.                                            *)
RollBack(w) ==
    /\ unit[w].pc # "idle"
    /\ lock' = IF lock = w THEN None ELSE lock
    /\ unit' = [unit EXCEPT ![w] = NoUnit]
    /\ UNCHANGED <<log, begun, committed, givenUp, altered>>

-----------------------------------------------------------------------------
(* Refusals and start-ups: the tail first *)

BeginBare(w, kind, a, size) ==
    /\ unit[w].pc = "idle"
    /\ kind = "refusal" => size = 1
    /\ unit' = [unit EXCEPT ![w] = [NoUnit EXCEPT !.pc = "reading", !.kind = kind,
                                                  !.act = a, !.size = size]]
    /\ begun' = begun \cup {a}
    /\ UNCHANGED <<log, lock, committed, givenUp, altered>>

ReadTail(w) ==
    /\ unit[w].pc = "reading"
    /\ unit' = [unit EXCEPT ![w] = [@ EXCEPT !.pc = "inserting", !.id = LastId(log) + 1,
                                             !.prev = TailHash(log)]]
    /\ UNCHANGED <<log, lock, begun, committed, givenUp, altered>>

(* The unit ends without a trace: record_refusal logs and swallows, a      *)
(* start-up takes its process with it.                                     *)
GiveUp(w, why) ==
    /\ unit' = [unit EXCEPT ![w] = NoUnit]
    /\ givenUp' = IF unit[w].kind = "startup" THEN givenUp \cup {why} ELSE givenUp
    /\ UNCHANGED <<log, lock, begun, committed, altered>>

(* Mutant: one attempt too many. *)
RetryOnceMore(w) ==
    IF unit[w].kind = "startup" /\ unit[w].attempts < MaxAttempts
    THEN /\ unit' = [unit EXCEPT ![w] = [@ EXCEPT !.pc = "reading",
                                                  !.attempts = unit[w].attempts + 1]]
         /\ UNCHANGED <<log, lock, begun, committed, givenUp, altered>>
    ELSE GiveUp(w, "attempts")

(* run_in_transaction: the whole unit once more, while attempts remain.    *)
Retry(w) ==
    IF unit[w].kind = "startup" /\ unit[w].attempts + 1 < MaxAttempts
    THEN /\ unit' = [unit EXCEPT ![w] = [@ EXCEPT !.pc = "reading",
                                                  !.attempts = unit[w].attempts + 1]]
         /\ UNCHANGED <<log, lock, begun, committed, givenUp, altered>>
    ELSE GiveUp(w, "attempts")

(* The INSERT waits for the lock, then the constraints decide.             *)
InsertFirst(w) ==
    LET id  == unit[w].id
        row == Row(id, unit[w].act, 1, unit[w].prev)
    IN  /\ unit[w].pc = "inserting" /\ lock = None
        /\ IF InsertAccepted(log, id, row)
           THEN /\ lock' = w
                /\ unit' = [unit EXCEPT ![w] =
                                [@ EXCEPT !.pc = "holding", !.written = 1,
                                          !.rows = Insert(Empty, id, row)]]
                /\ UNCHANGED <<log, begun, committed, givenUp, altered>>
           ELSE IF Retryable(log, id) THEN Retry(w) ELSE GiveUp(w, "conflict")

(* busy_timeout passes while another unit holds the lock.                  *)
Busy(w) ==
    /\ unit[w].pc = "inserting" /\ lock # None
    /\ Retry(w)

-----------------------------------------------------------------------------
(* The file changed behind the code's back, once: what verify_chain is for *)

Untouched == altered.kind = "none"

EditRow(i, a) ==
    /\ a # log[i].act
    /\ log' = [log EXCEPT ![i].act = a]
    /\ altered' = [kind |-> "edit", at |-> i]

DeleteRow(i) ==
    /\ log' = [j \in DOMAIN log \ {i} |-> log[j]]
    /\ altered' = [kind |-> IF i = LastId(log) THEN "truncate" ELSE "delete", at |-> i]

SwapRows(i, j) ==
    /\ i < j
    /\ log' = [log EXCEPT ![i] = log[j], ![j] = log[i]]
    /\ altered' = [kind |-> "swap", at |-> i]

Alter ==
    /\ Untouched /\ lock = None
    /\ \E i \in DOMAIN log :
         \/ \E a \in Acts : EditRow(i, a)
         \/ DeleteRow(i)
         \/ \E j \in DOMAIN log : SwapRows(i, j)
    /\ UNCHANGED <<lock, unit, begun, committed, givenUp>>

-----------------------------------------------------------------------------
UnitStep(w) ==
    \/ \E a \in Acts \ begun, size \in 1..MaxEvents :
         Begin(w, a, size) \/ \E kind \in {"refusal", "startup"} : BeginBare(w, kind, a, size)
    \/ AppendHeld(w) \/ Commit(w) \/ RollBack(w)
    \/ ReadTail(w) \/ InsertFirst(w) \/ Busy(w)

Next == (\E w \in Writers : UnitStep(w)) \/ Alter

Spec == Init /\ [][Next]_vars

-----------------------------------------------------------------------------
(* verify_chain *)

(* Mutant: the content's hash is not recomputed. *)
GoodLink(l, i) ==
    IF i = 1 THEN l[i].prev = Genesis ELSE i - 1 \in DOMAIN l /\ l[i].prev = l[i - 1].hash

(* The row follows its predecessor without a gap and hashes to its hash.   *)
GoodRow(l, i) ==
    /\ IF i = 1 THEN l[i].prev = Genesis
       ELSE i - 1 \in DOMAIN l /\ l[i].prev = l[i - 1].hash
    /\ l[i].hash = HashOf(i, l[i].act, l[i].n, l[i].prev)

BadRows(l) == {i \in DOMAIN l : ~GoodRow(l, i)}

Intact(l) == BadRows(l) = {}

(* broken_at_id: the walk stops at the first row that does not fit.        *)
BrokenAt(l, i) == i \in BadRows(l) /\ \A j \in BadRows(l) : i <= j

-----------------------------------------------------------------------------
(* The types.  A row's hashes are nested as deep as the log is long, so a  *)
(* row is typed by its event and its shape.                                *)
RowType(r) ==
    /\ r = [f \in {"act", "n", "prev", "hash"} |-> r[f]]
    /\ r.act \in Acts /\ r.n \in 1..MaxEvents

HasTail(l) == LastId(l) \in Nat /\ DOMAIN l \subseteq 1..LastId(l)

UnitType(u) ==
    /\ u = [f \in {"pc", "kind", "act", "size", "rows", "written", "id", "prev",
                   "attempts"} |-> u[f]]
    /\ u.pc \in {"idle", "holding", "reading", "inserting"}
    /\ u.kind \in Kinds \cup {None}
    /\ u.pc # "idle" => u.act \in Acts
    /\ u.size \in 0..MaxEvents /\ u.written \in 0..u.size
    /\ u.pc # "idle" => u.size # 0
    /\ u.pc \in {"reading", "inserting"} => u.written = 0
    /\ u.attempts \in 0..(MaxAttempts - 1)
    /\ u.id \in Nat /\ (u.pc = "inserting" => u.id # 0)
    /\ \A i \in DOMAIN u.rows : RowType(u.rows[i])

TypeOK ==
    /\ log = [i \in DOMAIN log |-> log[i]]
    /\ HasTail(log) /\ \A i \in DOMAIN log : RowType(log[i])
    /\ lock \in Writers \cup {None}
    /\ unit = [w \in Writers |-> unit[w]] /\ \A w \in Writers : UnitType(unit[w])
    /\ begun \subseteq Acts
    /\ committed \subseteq Acts
    /\ givenUp \subseteq {"attempts", "conflict"}

(* However handlers, refusals and start-ups interleave, conflict and roll  *)
(* back, nobody who only goes through the code ever breaks the chain:      *)
(* verify_chain finds it intact (audit.append, the unique constraints).    *)
ChainIntact == Untouched => Intact(log)

(* An act is committed exactly when all its events are, none is recorded   *)
(* of an act that was rolled back, and no event twice (audit.py: "an       *)
(* action can never be committed without its audit event").                *)
AllOrNothing ==
    Untouched =>
        /\ \A i \in DOMAIN log : log[i].act \in committed
        /\ \A a \in committed : \E i \in DOMAIN log : log[i].act = a
        /\ \A i, j \in DOMAIN log : log[i].act = log[j].act /\ log[i].n = log[j].n => i = j
        /\ \A i \in DOMAIN log : log[i].n # 1 =>
               i - 1 \in DOMAIN log /\ log[i - 1].act = log[i].act
                                    /\ log[i - 1].n = log[i].n - 1

(* The code never changes or removes a row that was committed.             *)
AppendOnly ==
    [][altered' = altered =>
          \A i \in DOMAIN log : i \in DOMAIN log' /\ log'[i] = log[i]]_vars

(* An edited row, a row missing from the middle and two swapped rows are   *)
(* each reported at the right place, whatever is appended afterwards       *)
(* (verify_chain's list of what is detected).                              *)
AlterationLocated ==
    ~Untouched =>
        /\ altered.kind \in {"edit", "swap"} => BrokenAt(log, altered.at)
        /\ altered.kind = "delete" => BrokenAt(log, altered.at + 1)

-----------------------------------------------------------------------------
(* Why the chain holds *)

(* Ids 1 to n without a gap, each row good.                                *)
Chain(l) == /\ LastId(l) \in Nat /\ DOMAIN l = 1..LastId(l)
            /\ \A i \in DOMAIN l : GoodRow(l, i)

(* One unit at a time has uncommitted rows, and it is the one with the     *)
(* lock; none of them has the id of a committed row.                       *)
LockHeld ==
    \A w \in Writers : /\ unit[w].pc = "holding" <=> lock = w
                       /\ unit[w].pc # "holding" => unit[w].rows = Empty
                       /\ DOMAIN unit[w].rows \cap DOMAIN log = {}
                       /\ HasTail(ViewOf(w))

(* With its holder's rows the log is a chain already; and a tail that was  *)
(* read without the lock is a tail the log once had.                       *)
ChainsGrow ==
    Untouched =>
        /\ Chain(log)
        /\ \A w \in Writers : Chain(ViewOf(w))
        /\ \A w \in Writers : unit[w].pc = "inserting" =>
              /\ unit[w].id - 1 \in {0} \cup DOMAIN log
              /\ unit[w].prev = IF unit[w].id = 1 THEN Genesis ELSE log[unit[w].id - 1].hash

IInv == TypeOK /\ LockHeld /\ ChainsGrow

(* Units under way have acts of their own, none of them committed.         *)
ActsApart ==
    /\ committed \subseteq begun
    /\ \A w \in Writers : unit[w].pc # "idle" => unit[w].act \in begun \ committed
    /\ \A v, w \in Writers :
          unit[v].pc # "idle" /\ unit[w].pc # "idle" /\ unit[v].act = unit[w].act => v = w

(* The rows of a unit are its act's events so far, in order and next to l. *)
EventsOnto(l, u) ==
    /\ DOMAIN u.rows = (LastId(l) + 1)..(LastId(l) + u.written)
    /\ \A i \in DOMAIN u.rows : u.rows[i].act = u.act /\ u.rows[i].n = i - LastId(l)

EventsInHand ==
    Untouched => \A w \in Writers : unit[w].pc = "holding" => EventsOnto(log, unit[w])

EInv == ActsApart /\ EventsInHand /\ AllOrNothing

(* The first k rows are there, and of these only the last is bad.          *)
FirstBad(l, k) ==
    /\ k \in Nat \ {0} /\ 1..k \subseteq DOMAIN l
    /\ ~GoodRow(l, k) /\ \A j \in 1..(k - 1) : GoodRow(l, j)

Before(l, i) == IF i = 1 THEN Genesis ELSE l[i - 1].hash

(* Row k was deleted.  A unit that read the tail before k was written may  *)
(* still put a row there, good by itself; but the row after k hashes one   *)
(* of an act that is committed, and the unit's is not.                     *)
Gap(k) ==
    /\ k \in Nat \ {0} /\ 1..(k - 1) \subseteq DOMAIN log /\ k + 1 \in DOMAIN log
    /\ \A j \in 1..(k - 1) : GoodRow(log, j)
    /\ log[k + 1].prev[2] \in committed
    /\ k \in DOMAIN log => GoodRow(log, k) /\ log[k].hash # log[k + 1].prev
    /\ \A w \in Writers :
          /\ unit[w].pc = "inserting" /\ unit[w].id = k => unit[w].prev = Before(log, k)
          /\ k \in DOMAIN unit[w].rows =>
                unit[w].rows[k] = Row(k, unit[w].act, 1, Before(log, k))

Located ==
    /\ altered.kind \in {"edit", "swap"} => FirstBad(log, altered.at)
    /\ altered.kind = "delete" => Gap(altered.at)

-----------------------------------------------------------------------------
(* "The second INSERT violates the uniqueness of prev_hash and is retried  *)
(* against the new tail" (models.AuditEvent, audit.py, db.py): no start-up *)
(* dies because somebody else appended first.                              *)
ConflictsRetried == "conflict" \notin givenUp
=============================================================================
