------------------------------ MODULE StartUp ------------------------------
(***************************************************************************)
(* What app, gateway and the scripts do to one database file when they     *)
(* start (shared/schema.ensure_schema and init_schema_and_audit), while    *)
(* the threads of what serves already append to the audit chain.           *)
(*                                                                         *)
(* Every CREATE and ALTER commits by itself, so a process that dies leaves *)
(* the file where it was.  Only then is the change recorded, in one unit   *)
(* of work of AuditChain, whose actions this module uses as they are.      *)
(*                                                                         *)
(* The file lies between an old version's and this one's: `there` is what  *)
(* it has of the tables, columns and indexes that the models declare.      *)
(***************************************************************************)
EXTENDS AuditChain, Sequences, FiniteSets

CONSTANTS
    Services,       \* gateway and app: containers that are restarted
    Scripts,        \* runs of a script by docker compose exec app
    Gateway, App,
    HostOf,         \* the service of each thread
    TableOrder,     \* Base.metadata.sorted_tables
    ColumnsOf,      \* the columns of each table
    IndexesOf,      \* and its indexes
    PrimaryKeys,    \* columns that no ALTER TABLE can add
    OldFiles,       \* what the file may have before the first start
    MaxKills        \* processes killed; a bound of the model

Threads == Writers \ Services
Processes == Services \cup Scripts
Tables == {TableOrder[i] : i \in 1..Len(TableOrder)}
Columns == UNION {ColumnsOf[t] : t \in Tables}
Indexes == UNION {IndexesOf[t] : t \in Tables}
Declared == Tables \cup Columns \cup Indexes
PartsOf(t) == ColumnsOf[t] \cup IndexesOf[t]

(* A file has a column or an index only of a table that it has.            *)
WithItsTable(file) == \A t \in Tables \ file : PartsOf(t) \cap file = {}

ASSUME ProcessesAssumption ==
    /\ Services \subseteq Writers /\ Services \cap Scripts = {}
    /\ Gateway \in Services /\ App \in Services /\ Gateway # App
    /\ HostOf \in [Threads -> Services]
    /\ MaxEvents >= 2 /\ MaxKills \in Nat

ASSUME SchemaAssumption ==
    /\ TableOrder \in Seq(Tables) /\ Len(TableOrder) > 0
    /\ Tables \cap Columns = {} /\ Tables \cap Indexes = {} /\ Columns \cap Indexes = {}
    /\ \A t, u \in Tables : t # u => PartsOf(t) \cap PartsOf(u) = {}
    /\ PrimaryKeys \subseteq Columns
    /\ \A file \in OldFiles : file \subseteq Declared /\ WithItsTable(file)

VARIABLES
    there,          \* what the file has of what is declared
    proc,           \* each process
    served,         \* services that have been ready since `up`
    reported,       \* what the migration event of a start-up's act lists
    died,           \* why start-ups died before they came to recording
    kills

chain == vars
svars == <<vars, there, proc, served, reported, died, kills>>

Process(pc, at, todo, applied) == [pc |-> pc, at |-> at, todo |-> todo, applied |-> applied]

NotRunning == Process("down", 0, {}, {})

(* An app of the old version may be serving while the gateway is updated.  *)
SInit ==
    /\ Init
    /\ there \in OldFiles
    /\ \E pc \in {"down", "old"} :
         proc = [p \in Processes |-> IF p = App THEN Process(pc, 0, {}, {}) ELSE NotRunning]
    /\ served = {}
    /\ reported = [a \in {} |-> {}]
    /\ died = {}
    /\ kills = 0

Serves(s) == proc[s].pc \in {"old", "serving"}

Table(p) == TableOrder[proc[p].at]

Becomes(p, r) == proc' = [proc EXCEPT ![p] = r]

SchemaStep == UNCHANGED <<vars, served, reported, kills>>

-----------------------------------------------------------------------------
(* Starting, and what may stop a process *)

(* Mutant: depends_on without a condition, so that started is enough. *)
StartedIsEnough(p) == p # Gateway => proc[Gateway].pc # "down"

(* depends_on: service_healthy; a script needs the app's container.        *)
MayStart(p) ==
    /\ p # Gateway => Gateway \in served
    /\ p \in Scripts => proc[App].pc \notin {"down", "old"}

(* What a dead process had begun is rolled back before it starts again.    *)
Start(p) ==
    /\ proc[p].pc = "down" /\ MayStart(p)
    /\ p \in Services => /\ unit[p].pc = "idle"
                         /\ \A w \in Threads : HostOf[w] = p => unit[w].pc = "idle"
    /\ Becomes(p, Process("boot", 0, {}, {}))
    /\ UNCHANGED <<vars, there, served, reported, died, kills>>

(* A kill, a reboot, or the old version's end by docker compose up.        *)
Kill(p) ==
    /\ proc[p].pc # "down"
    /\ proc[p].pc # "old" => kills < MaxKills
    /\ kills' = IF proc[p].pc = "old" THEN kills ELSE kills + 1
    /\ Becomes(p, NotRunning)
    /\ UNCHANGED <<vars, there, served, reported, died>>

Die(p, why) ==
    /\ died' = died \cup {why}
    /\ Becomes(p, NotRunning)
    /\ UNCHANGED there

-----------------------------------------------------------------------------
(* ensure_schema *)

(* create_all looks for all tables first, then creates the missing ones.   *)
LookForTables(p) ==
    /\ proc[p].pc = "boot"
    /\ Becomes(p, Process("create", 0, Tables \ there, {}))
    /\ SchemaStep /\ UNCHANGED <<there, died>>

(* One CREATE: a table with its columns, or an index of the last table.    *)
Create(p) ==
    \E x \in proc[p].todo :
      /\ proc[p].pc = "create" /\ lock = None
      /\ x \in Tables => proc[p].todo \subseteq Tables
      /\ IF x \in there
         THEN Die(p, "duplicate")
         ELSE /\ there' = there \cup {x} \cup (IF x \in Tables THEN ColumnsOf[x] ELSE {})
              /\ Becomes(p, Process("create", 0, (proc[p].todo \ {x}) \cup
                                (IF x \in Tables THEN IndexesOf[x] ELSE {}), {}))
              /\ UNCHANGED died
      /\ SchemaStep

(* The next table's columns as they are now.                               *)
ReadColumns(p) ==
    LET next == proc[p].at + 1
    IN  /\ proc[p].pc \in {"create", "indexes"} /\ proc[p].todo = {}
        /\ next <= Len(TableOrder)
        /\ Becomes(p, Process("columns", next, ColumnsOf[TableOrder[next]] \ there,
                              proc[p].applied))
        /\ SchemaStep /\ UNCHANGED <<there, died>>

(* One ALTER TABLE ADD COLUMN.                                             *)
AddColumn(p) ==
    \E c \in proc[p].todo :
      /\ proc[p].pc = "columns" /\ lock = None
      /\ IF c \in PrimaryKeys THEN Die(p, "SchemaDrift")
         ELSE IF c \in there THEN Die(p, "duplicate")
         ELSE /\ there' = there \cup {c}
              /\ Becomes(p, Process("columns", proc[p].at, proc[p].todo \ {c},
                                    proc[p].applied \cup {c}))
              /\ UNCHANGED died
      /\ SchemaStep

(* Mutant: indexes only for tables that have just got a column. *)
ReadIndexesOfChanged(p) ==
    /\ proc[p].pc = "columns" /\ proc[p].todo = {}
    /\ Becomes(p, Process("indexes", proc[p].at,
           IF ColumnsOf[Table(p)] \cap proc[p].applied = {} THEN {}
           ELSE IndexesOf[Table(p)] \ there, proc[p].applied))
    /\ SchemaStep /\ UNCHANGED <<there, died>>

(* _ensure_indexes.                                                        *)
ReadIndexes(p) ==
    /\ proc[p].pc = "columns" /\ proc[p].todo = {}
    /\ Becomes(p, Process("indexes", proc[p].at, IndexesOf[Table(p)] \ there,
                          proc[p].applied))
    /\ SchemaStep /\ UNCHANGED <<there, died>>

(* checkfirst looks again: an index that has come meanwhile is passed      *)
(* over, or, when it came after the look, fails the CREATE.                *)
CreateIndex(p) ==
    \E x \in proc[p].todo :
      /\ proc[p].pc = "indexes" /\ lock = None
      /\ \/ /\ there' = there \cup {x}
            /\ Becomes(p, Process("indexes", proc[p].at, proc[p].todo \ {x},
                                  proc[p].applied))
            /\ UNCHANGED died
         \/ x \in there /\ Die(p, "duplicate")
      /\ SchemaStep

(* A CREATE or ALTER that waits for a writer longer than busy_timeout is   *)
(* not retried.                                                            *)
DatabaseLocked(p) ==
    /\ proc[p].pc \in {"create", "columns", "indexes"} /\ proc[p].todo # {}
    /\ lock # None
    /\ Die(p, "locked")
    /\ SchemaStep

(* The last table is done: a script goes on, a service records.            *)
SchemaDone(p) ==
    /\ proc[p].pc = "indexes" /\ proc[p].todo = {} /\ proc[p].at = Len(TableOrder)
    /\ Becomes(p, IF p \in Services
                  THEN Process("record", proc[p].at, {}, proc[p].applied) ELSE NotRunning)
    /\ SchemaStep /\ UNCHANGED <<there, died>>

-----------------------------------------------------------------------------
(* init_schema_and_audit's unit: system.schema.migrated, system.started *)

BeginRecord(s, a) ==
    /\ proc[s].pc = "record" /\ a \notin begun
    /\ BeginBare(s, "startup", a, IF proc[s].applied = {} THEN 1 ELSE 2)
    /\ reported' = [b \in DOMAIN reported \cup {a} |->
                       IF b = a THEN proc[s].applied ELSE reported[b]]
    /\ Becomes(s, Process("recording", proc[s].at, {}, proc[s].applied))
    /\ UNCHANGED <<there, served, died, kills>>

(* Mutant: a start-up that could not record serves all the same. *)
ServesAnyway(s) == Process("serving", proc[s].at, {}, proc[s].applied)

(* The lifespan goes on when run_in_transaction returned, else it raises   *)
(* and the process ends.                                                   *)
AfterRecord(s) ==
    IF unit[s].act \in committed' THEN Process("serving", proc[s].at, {}, proc[s].applied)
    ELSE NotRunning

RecordStep(s) ==
    /\ proc[s].pc = "recording"
    /\ ReadTail(s) \/ InsertFirst(s) \/ Busy(s) \/ AppendHeld(s) \/ Commit(s)
    /\ IF unit'[s].pc # "idle"
       THEN UNCHANGED <<proc, served>>
       ELSE /\ Becomes(s, AfterRecord(s))
            /\ served' = IF proc'[s].pc = "serving" THEN served \cup {s} ELSE served
    /\ UNCHANGED <<there, reported, died, kills>>

-----------------------------------------------------------------------------
(* The threads of what serves, and the end of dead ones *)

ThreadBegins(w, a) ==
    /\ Serves(HostOf[w]) /\ a \notin begun
    /\ \E size \in 1..MaxEvents : Begin(w, a, size) \/ BeginBare(w, "refusal", a, size)

ThreadGoesOn(w) ==
    /\ Serves(HostOf[w])
    /\ ReadTail(w) \/ InsertFirst(w) \/ Busy(w) \/ AppendHeld(w) \/ Commit(w) \/ RollBack(w)

ThreadStep(w) ==
    /\ (\E a \in Acts : ThreadBegins(w, a)) \/ ThreadGoesOn(w)
    /\ UNCHANGED <<there, proc, served, reported, died, kills>>

(* SQLite undoes what a process that is gone had written.                  *)
Undo(w) ==
    /\ IF w \in Services THEN proc[w].pc = "down" ELSE ~Serves(HostOf[w])
    /\ RollBack(w)
    /\ UNCHANGED <<there, proc, served, reported, died, kills>>

ByHand == Alter /\ UNCHANGED <<there, proc, served, reported, died, kills>>

SchemaSteps(p) ==
    \/ LookForTables(p) \/ Create(p) \/ ReadColumns(p) \/ AddColumn(p)
    \/ ReadIndexes(p) \/ CreateIndex(p) \/ DatabaseLocked(p) \/ SchemaDone(p)

SNext ==
    \/ \E p \in Processes : Start(p) \/ Kill(p) \/ SchemaSteps(p)
    \/ \E s \in Services : (\E a \in Acts : BeginRecord(s, a)) \/ RecordStep(s)
    \/ \E w \in Threads : ThreadStep(w)
    \/ \E w \in Writers : Undo(w)
    \/ ByHand

SSpec == SInit /\ [][SNext]_svars

-----------------------------------------------------------------------------
ProcType(r) ==
    /\ r = Process(r.pc, r.at, r.todo, r.applied)
    /\ r.pc \in {"down", "old", "boot", "create", "columns", "indexes", "record",
                 "recording", "serving"}
    /\ r.at \in 0..Len(TableOrder)
    /\ r.pc = "create" => r.at = 0 /\ r.todo \subseteq Tables \cup Indexes
    /\ r.pc \in {"columns", "indexes"} => r.at # 0
    /\ r.pc = "columns" => r.todo \subseteq Columns
    /\ r.todo \subseteq Declared /\ r.applied \subseteq Columns

(* The types of this module's variables, and of the chain's.               *)
STypeOK ==
    /\ TypeOK
    /\ there \subseteq Declared
    /\ DOMAIN proc = Processes /\ \A p \in Processes : ProcType(proc[p])
    /\ served \subseteq Services
    /\ \A a \in DOMAIN reported : a \in begun /\ reported[a] \subseteq Columns
    /\ died \subseteq {"duplicate", "SchemaDrift", "locked"}
    /\ kills \in 0..MaxKills

(* Whatever the old file lacked, and wherever earlier start-ups were       *)
(* killed, a service that records and serves has every table, column and   *)
(* index: also the index of a column that an earlier start-up added before *)
(* it died ("adding the column without them would leave the schema subtly  *)
(* wrong", ensure_schema).                                                 *)
ServesFullSchema ==
    \A s \in Services : proc[s].pc \in {"record", "recording", "serving"} =>
                            Declared \subseteq there

(* No CREATE or ALTER fails because another process was there first: only  *)
(* the gateway finds anything to do, for app and scripts start when it has *)
(* been healthy (docker-compose.yml's depends_on), whatever dies in        *)
(* between.                                                                *)
NobodyMigratesTwice ==
    /\ "duplicate" \notin died
    /\ \A p \in Processes \ {Gateway} : proc[p].applied = {}

(* An event with these columns is in the chain, before its system.started. *)
Listed(columns) ==
    \E i \in DOMAIN log : /\ log[i].n = 1 /\ log[i].act \in DOMAIN reported
                          /\ reported[log[i].act] = columns
                          /\ i + 1 \in DOMAIN log /\ log[i + 1].act = log[i].act

(* A service that serves has its migration on record: the event that lists *)
(* the columns it added is in the chain, before its system.started; and no *)
(* column is listed by two events (init_schema_and_audit).                 *)
ServedIsRecorded ==
    Untouched =>
      /\ \A s \in Services : proc[s].pc = "serving" /\ proc[s].applied # {} =>
                               Listed(proc[s].applied)
      /\ \A i, j \in DOMAIN log :
             /\ {log[i].act, log[j].act} \subseteq DOMAIN reported
             /\ reported[log[i].act] \cap reported[log[j].act] # {}
             => log[i].act = log[j].act

-----------------------------------------------------------------------------
(* Why the schema is complete and nobody is in anybody's way *)

(* What a process at this point has seen to.                               *)
Progress(r, file) ==
    /\ r.pc = "create" => Tables \subseteq file \cup r.todo
    /\ r.pc \in {"columns", "indexes"} =>
           Tables \subseteq file /\ \A i \in 1..(r.at - 1) : PartsOf(TableOrder[i]) \subseteq file
    /\ r.pc = "columns" => ColumnsOf[TableOrder[r.at]] \subseteq file \cup r.todo
    /\ r.pc = "indexes" => /\ ColumnsOf[TableOrder[r.at]] \subseteq file
                           /\ IndexesOf[TableOrder[r.at]] \subseteq file \cup r.todo
    /\ r.pc \in {"record", "recording", "serving"} => Declared \subseteq file

(* Only the gateway has something to do, and all of it is still to do.     *)
Alone(p, r, file) ==
    /\ p # Gateway => r.todo = {} /\ r.applied = {}
    /\ r.todo \cap file = {}
    /\ r.pc = "create" => \A t \in Tables \ file : IndexesOf[t] \cap r.todo = {}

(* docker-compose.yml's gate, kept as long as the process runs.            *)
Gated(p, r) == p # Gateway /\ r.pc \notin {"down", "old"} => Gateway \in served

SchemaInv ==
    /\ there \subseteq Declared /\ WithItsTable(there)
    /\ DOMAIN proc = Processes
    /\ \A p \in Processes : /\ ProcType(proc[p]) /\ Progress(proc[p], there)
                             /\ Alone(p, proc[p], there) /\ Gated(p, proc[p])
    /\ served \subseteq Services
    /\ served # {} => Declared \subseteq there
    /\ died \subseteq {"SchemaDrift", "locked"}

(* Columns are in the file before they are reported, and reported once.    *)
ReportedOnce ==
    /\ \A a \in DOMAIN reported : reported[a] \subseteq there
    /\ \A a, b \in DOMAIN reported : reported[a] \cap reported[b] # {} => a = b
    /\ \A p \in Processes :
          /\ proc[p].applied \subseteq there
          /\ proc[p].pc \notin {"recording", "serving"} =>
                \A a \in DOMAIN reported : proc[p].applied \cap reported[a] = {}

(* A start-up that records has its unit under way, an event for what it    *)
(* added, if anything, and one for its start.                              *)
RecordInHand ==
    \A s \in Services : proc[s].pc = "recording" =>
        /\ unit[s].pc # "idle" /\ unit[s].act \in DOMAIN reported
        /\ reported[unit[s].act] = proc[s].applied
        /\ unit[s].size = IF proc[s].applied = {} THEN 1 ELSE 2

RecordInv == ReportedOnce /\ RecordInHand /\ ServedIsRecorded
=============================================================================
