--------------------------- MODULE StartUpProofs ---------------------------
(***************************************************************************)
(* What holds of the start-ups for any schema, any old file, any number of *)
(* services, scripts, threads and kills: that the chain stays a chain,     *)
(* that nobody serves on half a schema, and that a migration is on record. *)
(***************************************************************************)
EXTENDS StartUp, AuditProofs

-----------------------------------------------------------------------------
(* The chain *)

(* A step of a start-up is a step of the audit chain, or none.             *)
LEMMA ChainStep == [SNext]_svars => [Next]_vars
  <1> SUFFICES ASSUME [SNext]_svars PROVE [Next]_vars
    OBVIOUS
  <1>1. CASE \E p \in Processes : Start(p) \/ Kill(p) \/ SchemaSteps(p)
    BY <1>1 DEF Start, Kill, SchemaSteps, SchemaStep, LookForTables, Create, ReadColumns,
                AddColumn, ReadIndexes, CreateIndex, DatabaseLocked, SchemaDone
  <1>2. ASSUME NEW s \in Services, NEW a \in Acts, BeginRecord(s, a) PROVE Next
    <2>1. s \in Writers /\ a \in Acts \ begun /\ 1 \in 1..MaxEvents /\ 2 \in 1..MaxEvents
      BY <1>2, ProcessesAssumption, BoundsAssumption DEF BeginRecord
    <2>2. \E size \in 1..MaxEvents : BeginBare(s, "startup", a, size)
      BY <1>2, <2>1 DEF BeginRecord
    <2> QED
      BY <2>1, <2>2 DEF Next, UnitStep
  <1>3. ASSUME NEW s \in Services, RecordStep(s) PROVE Next
    <2>1. s \in Writers
      BY ProcessesAssumption
    <2> QED
      BY <1>3, <2>1 DEF RecordStep, Next, UnitStep
  <1>4. ASSUME NEW w \in Threads, ThreadStep(w) PROVE Next
    <2>1. w \in Writers
      BY DEF Threads
    <2>2. CASE \E a \in Acts : ThreadBegins(w, a)
      BY <2>1, <2>2 DEF ThreadBegins, Next, UnitStep
    <2>3. CASE ThreadGoesOn(w)
      BY <2>1, <2>3 DEF ThreadGoesOn, Next, UnitStep
    <2> QED
      BY <1>4, <2>2, <2>3 DEF ThreadStep
  <1>5. ASSUME NEW w \in Writers, Undo(w) PROVE Next
    BY <1>5 DEF Undo, Next, UnitStep
  <1>6. CASE ByHand
    BY <1>6 DEF ByHand, Next
  <1>7. CASE UNCHANGED svars
    BY <1>7 DEF svars
  <1> QED
    BY <1>1, <1>2, <1>3, <1>4, <1>5, <1>6, <1>7 DEF SNext

(* Everything that starts and serves keeps to the audit chain's            *)
(* specification: its theorems hold here too.                              *)
THEOREM StartUpImplementsChain == SSpec => Spec
  <1>1. SInit => Init
    BY DEF SInit
  <1> QED
    BY <1>1, ChainStep, PTL DEF SSpec, Spec

(* Start-ups that migrate, die, lose the tail's race and start again leave *)
(* the chain intact.                                                       *)
THEOREM ChainIntactThroughStartUps == SSpec => []ChainIntact
  BY StartUpImplementsChain, ChainAlwaysIntact, PTL

-----------------------------------------------------------------------------
(* The schema *)

(* One process moves, and the file only gains: what is left to show is     *)
(* what that process has seen to.                                          *)
LEMMA ProcessMoves ==
  ASSUME SchemaInv, NEW p \in Processes, NEW r, Becomes(p, r),
         there \subseteq there', there' \subseteq Declared, WithItsTable(there'),
         p # Gateway => there' = there, UNCHANGED served,
         died' \subseteq {"SchemaDrift", "locked"},
         ProcType(r), Progress(r, there'), Alone(p, r, there'), Gated(p, r)
  PROVE  SchemaInv'
  <1>1. DOMAIN proc' = Processes /\ proc'[p] = r
    BY DEF SchemaInv, Becomes
  <1>2. ASSUME NEW q \in Processes, q # p
        PROVE  /\ ProcType(proc'[q]) /\ Progress(proc'[q], there')
               /\ Alone(q, proc'[q], there') /\ Gated(q, proc'[q])
    <2>1. /\ proc'[q] = proc[q] /\ ProcType(proc[q]) /\ Progress(proc[q], there)
          /\ Alone(q, proc[q], there) /\ Gated(q, proc[q])
      BY <1>2 DEF SchemaInv, Becomes
    <2>2. Progress(proc[q], there')
      BY <2>1 DEF Progress
    <2>3. Alone(q, proc[q], there')
      <3>1. CASE q # Gateway
        BY <2>1, <3>1 DEF Alone
      <3>2. CASE q = Gateway
        BY <1>2, <2>1, <3>2 DEF Alone
      <3> QED
        BY <3>1, <3>2
    <2> QED
      BY <2>1, <2>2, <2>3
  <1>3. \A q \in Processes : /\ ProcType(proc'[q]) /\ Progress(proc'[q], there')
                             /\ Alone(q, proc'[q], there') /\ Gated(q, proc'[q])
    BY <1>1, <1>2
  <1>4. served' \subseteq Services /\ (served' # {} => Declared \subseteq there')
    BY DEF SchemaInv
  <1> QED
    BY <1>1, <1>3, <1>4 DEF SchemaInv, ProcType, Progress, Alone, Gated

(* A process that is not running has nothing to show for.                  *)
LEMMA NothingToShow ==
  ASSUME NEW p, NEW file
  PROVE  /\ ProcType(NotRunning) /\ Progress(NotRunning, file)
         /\ Alone(p, NotRunning, file) /\ Gated(p, NotRunning)
  <1>1. Len(TableOrder) \in Nat
    BY SchemaAssumption
  <1> QED
    BY <1>1 DEF NotRunning, Process, ProcType, Progress, Alone, Gated

(* To die, or to be killed, leaves the file as it is.                      *)
LEMMA Stops ==
  ASSUME SchemaInv, NEW p \in Processes, Becomes(p, NotRunning),
         UNCHANGED <<there, served>>, died' \subseteq {"SchemaDrift", "locked"}
  PROVE  SchemaInv'
  <1>1. there' \subseteq Declared /\ WithItsTable(there')
    BY DEF SchemaInv
  <1> QED
    BY <1>1, NothingToShow, ProcessMoves

(* An old file and nobody running.                                         *)
LEMMA SchemaInit == SInit => SchemaInv
  <1> SUFFICES ASSUME SInit PROVE SchemaInv
    OBVIOUS
  <1>1. there \subseteq Declared /\ WithItsTable(there)
    BY SchemaAssumption DEF SInit
  <1>2. Len(TableOrder) \in Nat
    BY SchemaAssumption
  <1>3. DOMAIN proc = Processes
    BY DEF SInit
  <1>4. ASSUME NEW p \in Processes
        PROVE  /\ ProcType(proc[p]) /\ Progress(proc[p], there)
               /\ Alone(p, proc[p], there) /\ Gated(p, proc[p])
    <2>1. PICK pc \in {"down", "old"} : proc[p] = Process(pc, 0, {}, {})
      BY DEF SInit, NotRunning
    <2> QED
      BY <1>2, <2>1 DEF Process, ProcType, Progress, Alone, Gated
  <1> QED
    BY <1>1, <1>3, <1>4 DEF SchemaInv, SInit

(* The gateway was healthy, hence the schema complete, before others ran.  *)
LEMMA GateKept ==
  ASSUME SchemaInv, NEW p \in Processes, p # Gateway, proc[p].pc \notin {"down", "old"}
  PROVE  Declared \subseteq there
  BY DEF SchemaInv, Gated

LEMMA StartInv ==
  ASSUME SchemaInv, NEW p \in Processes, Start(p)
  PROVE  SchemaInv'
  <1> DEFINE r == Process("boot", 0, {}, {})
  <1>1. Becomes(p, r) /\ UNCHANGED <<there, served, died>> /\ (p # Gateway => Gateway \in served)
    BY DEF Start, MayStart
  <1>2. ProcType(r) /\ Progress(r, there) /\ Alone(p, r, there) /\ Gated(p, r)
    BY <1>1, SchemaAssumption DEF Process, ProcType, Progress, Alone, Gated
  <1>3. there' \subseteq Declared /\ WithItsTable(there') /\ died' \subseteq {"SchemaDrift", "locked"}
    BY <1>1 DEF SchemaInv
  <1> HIDE DEF r
  <1> QED
    BY <1>1, <1>2, <1>3, ProcessMoves

LEMMA LookForTablesInv ==
  ASSUME SchemaInv, NEW p \in Processes, LookForTables(p)
  PROVE  SchemaInv'
  <1> DEFINE r == Process("create", 0, Tables \ there, {})
  <1>1. Becomes(p, r) /\ UNCHANGED <<there, served, died>> /\ proc[p].pc = "boot"
    BY DEF LookForTables, SchemaStep
  <1>2. p # Gateway => Declared \subseteq there
    BY <1>1, GateKept
  <1>3. Gated(p, r)
    BY <1>1 DEF SchemaInv, Gated, Process
  <1>4. ProcType(r) /\ Progress(r, there)
    BY SchemaAssumption DEF Process, ProcType, Progress, Declared
  <1>5. Alone(p, r, there)
    <2>1. \A t \in Tables : IndexesOf[t] \cap Tables = {}
      BY SchemaAssumption DEF Indexes
    <2> QED
      BY <1>2, <2>1 DEF Process, Alone, Declared
  <1>6. there' \subseteq Declared /\ WithItsTable(there') /\ died' \subseteq {"SchemaDrift", "locked"}
    BY <1>1 DEF SchemaInv
  <1> HIDE DEF r
  <1> QED
    BY <1>1, <1>3, <1>4, <1>5, <1>6, ProcessMoves

(* What belongs to a table is declared, and to no other table.             *)
LEMMA Parts ==
  ASSUME NEW t \in Tables
  PROVE  /\ ColumnsOf[t] \subseteq Columns /\ IndexesOf[t] \subseteq Indexes
         /\ PartsOf(t) \subseteq Declared /\ PartsOf(t) \cap Tables = {}
         /\ ColumnsOf[t] \cap IndexesOf[t] = {}
         /\ \A u \in Tables \ {t} : PartsOf(u) \cap PartsOf(t) = {}
  BY SchemaAssumption DEF Columns, Indexes, Declared, PartsOf

(* The table at a place of the order is one of the tables.                 *)
LEMMA InOrder == \A i \in 1..Len(TableOrder) : TableOrder[i] \in Tables
  BY DEF Tables

(* Only the gateway has something left to do.                              *)
LEMMA OnlyTheGateway ==
  ASSUME SchemaInv, NEW p \in Processes, NEW x \in proc[p].todo
  PROVE  p = Gateway /\ x \notin there
  BY DEF SchemaInv, Alone

(* A process that creates goes on creating.                                *)
LEMMA CreateMoves ==
  ASSUME SchemaInv, NEW p \in Processes, p = Gateway, NEW todo,
         Becomes(p, Process("create", 0, todo, {})), UNCHANGED <<died, served>>,
         there \subseteq there', there' \subseteq Declared, WithItsTable(there'),
         todo \subseteq Tables \cup Indexes, Tables \subseteq there' \cup todo,
         todo \cap there' = {}, \A t \in Tables \ there' : IndexesOf[t] \cap todo = {}
  PROVE  SchemaInv'
  <1> DEFINE r == Process("create", 0, todo, {})
  <1>1. ProcType(r) /\ Progress(r, there')
    BY SchemaAssumption DEF Process, ProcType, Progress, Declared
  <1>2. Alone(p, r, there') /\ Gated(p, r)
    BY DEF Process, Alone, Gated
  <1>3. died' \subseteq {"SchemaDrift", "locked"} /\ Becomes(p, r)
    BY DEF SchemaInv
  <1> HIDE DEF r
  <1> QED
    BY <1>1, <1>2, <1>3, ProcessMoves

LEMMA CreateInv ==
  ASSUME SchemaInv, NEW p \in Processes, Create(p)
  PROVE  SchemaInv'
  <1> DEFINE o == proc[p]
  <1>1. PICK x \in o.todo :
          /\ o.pc = "create" /\ (x \in Tables => o.todo \subseteq Tables)
          /\ there' = there \cup {x} \cup (IF x \in Tables THEN ColumnsOf[x] ELSE {})
          /\ Becomes(p, Process("create", 0, (o.todo \ {x}) \cup
                                (IF x \in Tables THEN IndexesOf[x] ELSE {}), {}))
          /\ UNCHANGED <<died, served>>
    BY OnlyTheGateway DEF Create, SchemaStep
  <1> DEFINE todo == (o.todo \ {x}) \cup (IF x \in Tables THEN IndexesOf[x] ELSE {})
             r == Process("create", 0, todo, {})
  <1>7. Becomes(p, Process("create", 0, todo, {})) /\ UNCHANGED <<died, served>>
    BY <1>1
  <1>2. /\ ProcType(o) /\ Progress(o, there) /\ Alone(p, o, there) /\ Gated(p, o)
        /\ there \subseteq Declared /\ WithItsTable(there) /\ died \subseteq {"SchemaDrift", "locked"}
    BY DEF SchemaInv
  <1>3. p = Gateway /\ x \notin there /\ x \in o.todo
    BY <1>1, OnlyTheGateway
  <1> HIDE DEF o
  <1>4. /\ o.todo \subseteq Tables \cup Indexes /\ o.todo \cap there = {}
        /\ \A t \in Tables \ there : IndexesOf[t] \cap o.todo = {}
        /\ Tables \subseteq there \cup o.todo
    BY <1>1, <1>2 DEF ProcType, Alone, Progress
  <1>5. CASE x \in Tables
    <2>1. there' = there \cup {x} \cup ColumnsOf[x] /\ todo = (o.todo \ {x}) \cup IndexesOf[x]
      BY <1>1, <1>5
    <2> HIDE DEF todo
    <2>2. there' \subseteq Declared /\ todo \subseteq Tables \cup Indexes
          /\ Tables \subseteq there' \cup todo
      BY <1>2, <1>4, <1>5, <2>1, Parts DEF Declared
    <2>3. WithItsTable(there')
      <3>1. SUFFICES ASSUME NEW t \in Tables \ there' PROVE PartsOf(t) \cap there' = {}
        BY DEF WithItsTable
      <3>2. t # x /\ PartsOf(t) \cap there = {} /\ PartsOf(t) \cap Tables = {}
            /\ PartsOf(t) \cap PartsOf(x) = {}
        BY <1>2, <1>5, <2>1, <3>1, Parts DEF WithItsTable
      <3> QED
        BY <1>5, <2>1, <3>2 DEF PartsOf
    <2>4. todo \cap there' = {}
      <3>1. PartsOf(x) \cap there = {} /\ PartsOf(x) \cap Tables = {}
            /\ ColumnsOf[x] \cap IndexesOf[x] = {}
        BY <1>2, <1>3, <1>5, Parts DEF WithItsTable
      <3>2. o.todo \subseteq Tables
        BY <1>1, <1>5
      <3> QED
        BY <1>4, <1>5, <2>1, <3>1, <3>2 DEF PartsOf
    <2>5. \A t \in Tables \ there' : IndexesOf[t] \cap todo = {}
      BY <1>4, <1>5, <2>1, Parts DEF PartsOf
    <2> QED
      BY <1>3, <1>7, <2>1, <2>2, <2>3, <2>4, <2>5, CreateMoves
  <1>6. CASE x \notin Tables
    <2>1. there' = there \cup {x} /\ todo = o.todo \ {x} /\ x \in Indexes
      BY <1>1, <1>3, <1>4, <1>6
    <2> HIDE DEF todo
    <2>2. there' \subseteq Declared /\ todo \subseteq Tables \cup Indexes
          /\ Tables \subseteq there' \cup todo /\ todo \cap there' = {}
          /\ \A t \in Tables \ there' : IndexesOf[t] \cap todo = {}
      BY <1>2, <1>4, <2>1 DEF Declared
    <2>3. PICK u \in Tables : x \in IndexesOf[u]
      BY <2>1 DEF Indexes
    <2>4. WithItsTable(there')
      BY <1>2, <1>3, <1>4, <2>1, <2>3, Parts DEF WithItsTable, PartsOf
    <2> QED
      BY <1>3, <1>7, <2>1, <2>2, <2>4, CreateMoves
  <1> QED
    BY <1>5, <1>6

LEMMA ReadColumnsInv ==
  ASSUME SchemaInv, NEW p \in Processes, ReadColumns(p)
  PROVE  SchemaInv'
  <1> DEFINE o == proc[p]
             next == o.at + 1
             t == TableOrder[next]
             r == Process("columns", next, ColumnsOf[t] \ there, o.applied)
  <1>1. /\ Becomes(p, r) /\ UNCHANGED <<there, served, died>>
        /\ o.pc \in {"create", "indexes"} /\ o.todo = {} /\ next <= Len(TableOrder)
    BY DEF ReadColumns, SchemaStep
  <1>2. /\ ProcType(o) /\ Progress(o, there) /\ Alone(p, o, there) /\ Gated(p, o)
        /\ there \subseteq Declared /\ WithItsTable(there) /\ died \subseteq {"SchemaDrift", "locked"}
    BY DEF SchemaInv
  <1>3. p # Gateway => Declared \subseteq there
    BY <1>1, GateKept
  <1>4. Len(TableOrder) \in Nat /\ o.at \in Nat /\ o.applied \subseteq Columns
    BY <1>2, SchemaAssumption DEF ProcType
  <1> HIDE DEF o
  <1>5. next \in 1..Len(TableOrder) /\ t \in Tables /\ next - 1 = o.at
    BY <1>1, <1>4, InOrder
  <1>6. ColumnsOf[t] \subseteq Columns /\ Columns \subseteq Declared
    BY <1>5, Parts DEF Declared
  <1>7. Tables \subseteq there /\ \A i \in 1..o.at : PartsOf(TableOrder[i]) \subseteq there
    <2>1. CASE o.pc = "create"
      BY <1>1, <1>2, <2>1 DEF ProcType, Progress
    <2>2. CASE o.pc = "indexes"
      <3>1. \A i \in 1..(o.at - 1) : PartsOf(TableOrder[i]) \subseteq there
        BY <1>2, <2>2 DEF Progress
      <3>2. PartsOf(TableOrder[o.at]) \subseteq there
        BY <1>1, <1>2, <2>2 DEF Progress, PartsOf
      <3> QED
        BY <1>2, <1>4, <2>2, <3>1, <3>2 DEF Progress
    <2> QED
      BY <1>1, <2>1, <2>2
  <1> HIDE DEF next, t
  <1>8. ProcType(r)
    BY <1>4, <1>5, <1>6 DEF Process, ProcType
  <1>9. Progress(r, there)
    <2>1. \A i \in 1..(next - 1) : PartsOf(TableOrder[i]) \subseteq there
      BY <1>5, <1>7
    <2>2. r.pc = "columns" /\ r.at = next /\ r.todo = ColumnsOf[TableOrder[next]] \ there
      BY DEF Process, t
    <2> HIDE DEF r
    <2> QED
      BY <1>7, <2>1, <2>2 DEF Progress
  <1>10. Alone(p, r, there)
    BY <1>2, <1>3, <1>6 DEF Process, Alone
  <1>11. Gated(p, r)
    BY <1>1, <1>2 DEF Process, Gated
  <1> HIDE DEF r
  <1> QED
    BY <1>1, <1>2, <1>8, <1>9, <1>10, <1>11, ProcessMoves

LEMMA AddColumnInv ==
  ASSUME SchemaInv, NEW p \in Processes, AddColumn(p)
  PROVE  SchemaInv'
  <1> DEFINE o == proc[p]
  <1>1. /\ ProcType(o) /\ Progress(o, there) /\ Alone(p, o, there) /\ Gated(p, o)
        /\ there \subseteq Declared /\ WithItsTable(there) /\ died \subseteq {"SchemaDrift", "locked"}
    BY DEF SchemaInv
  <1>2. PICK c \in o.todo :
          /\ o.pc = "columns" /\ UNCHANGED served
          /\ \/ Die(p, "SchemaDrift")
             \/ /\ there' = there \cup {c} /\ UNCHANGED died
                /\ c \notin PrimaryKeys
                /\ Becomes(p, Process("columns", o.at, o.todo \ {c}, o.applied \cup {c}))
    BY OnlyTheGateway DEF AddColumn, SchemaStep
  <1>3. p = Gateway /\ c \notin there
    BY <1>2, OnlyTheGateway
  <1>4. CASE Die(p, "SchemaDrift")
    BY <1>1, <1>2, <1>4, Stops DEF Die
  <1>5. CASE ~Die(p, "SchemaDrift")
    <2> DEFINE r == Process("columns", o.at, o.todo \ {c}, o.applied \cup {c})
    <2>1. there' = there \cup {c} /\ UNCHANGED <<died, served>> /\ Becomes(p, r)
      BY <1>2, <1>5
    <2> HIDE DEF o
    <2>2. /\ Tables \subseteq there /\ o.at \in 0..Len(TableOrder) /\ o.at # 0
          /\ o.todo \subseteq Columns /\ o.applied \subseteq Columns /\ o.todo \cap there = {}
          /\ \A i \in 1..(o.at - 1) : PartsOf(TableOrder[i]) \subseteq there
          /\ ColumnsOf[TableOrder[o.at]] \subseteq there \cup o.todo
      BY <1>1, <1>2 DEF ProcType, Progress, Alone
    <2>3. there' \subseteq Declared /\ WithItsTable(there') /\ there \subseteq there'
      BY <1>1, <1>2, <2>1, <2>2 DEF Declared, WithItsTable
    <2>4. ProcType(r)
      BY <1>2, <2>2 DEF Process, ProcType, Declared
    <2>5. Progress(r, there')
      <3>1. r.pc = "columns" /\ r.at = o.at /\ r.todo = o.todo \ {c}
        BY DEF Process
      <3> HIDE DEF r
      <3> QED
        BY <2>1, <2>2, <3>1 DEF Progress
    <2>6. Alone(p, r, there') /\ Gated(p, r)
      BY <1>3, <2>1, <2>2 DEF Process, Alone, Gated
    <2> HIDE DEF r
    <2> QED
      BY <1>1, <1>3, <2>1, <2>3, <2>4, <2>5, <2>6, ProcessMoves
  <1> QED
    BY <1>4, <1>5

LEMMA ReadIndexesInv ==
  ASSUME SchemaInv, NEW p \in Processes, ReadIndexes(p)
  PROVE  SchemaInv'
  <1> DEFINE o == proc[p]
             t == TableOrder[o.at]
             r == Process("indexes", o.at, IndexesOf[t] \ there, o.applied)
  <1>1. /\ Becomes(p, r) /\ UNCHANGED <<there, served, died>>
        /\ o.pc = "columns" /\ o.todo = {}
    BY DEF ReadIndexes, SchemaStep, Table
  <1>2. /\ ProcType(o) /\ Progress(o, there) /\ Alone(p, o, there) /\ Gated(p, o)
        /\ there \subseteq Declared /\ WithItsTable(there) /\ died \subseteq {"SchemaDrift", "locked"}
    BY DEF SchemaInv
  <1>3. p # Gateway => Declared \subseteq there
    BY <1>1, GateKept
  <1> HIDE DEF o
  <1>4. /\ Tables \subseteq there /\ o.at \in 0..Len(TableOrder) /\ o.at # 0
        /\ o.applied \subseteq Columns /\ ColumnsOf[t] \subseteq there
        /\ \A i \in 1..(o.at - 1) : PartsOf(TableOrder[i]) \subseteq there
    BY <1>1, <1>2 DEF ProcType, Progress
  <1>5. t \in Tables
    BY <1>4, SchemaAssumption, InOrder
  <1>6. IndexesOf[t] \subseteq Indexes /\ Indexes \subseteq Declared
    BY <1>5, Parts DEF Declared
  <1>7. ProcType(r)
    BY <1>4, <1>6 DEF Process, ProcType
  <1>8. Progress(r, there)
    <2>1. r.pc = "indexes" /\ r.at = o.at /\ r.todo = IndexesOf[t] \ there
      BY DEF Process
    <2> HIDE DEF r
    <2> QED
      BY <1>4, <2>1 DEF Progress
  <1>9. Alone(p, r, there)
    BY <1>2, <1>3, <1>6 DEF Process, Alone
  <1>10. Gated(p, r)
    BY <1>1, <1>2 DEF Process, Gated
  <1> HIDE DEF r
  <1> QED
    BY <1>1, <1>2, <1>7, <1>8, <1>9, <1>10, ProcessMoves

LEMMA CreateIndexInv ==
  ASSUME SchemaInv, NEW p \in Processes, CreateIndex(p)
  PROVE  SchemaInv'
  <1> DEFINE o == proc[p]
  <1>1. PICK x \in o.todo :
          /\ o.pc = "indexes" /\ there' = there \cup {x} /\ UNCHANGED <<died, served>>
          /\ Becomes(p, Process("indexes", o.at, o.todo \ {x}, o.applied))
    BY OnlyTheGateway DEF CreateIndex, SchemaStep
  <1>2. /\ ProcType(o) /\ Progress(o, there) /\ Alone(p, o, there) /\ Gated(p, o)
        /\ there \subseteq Declared /\ WithItsTable(there) /\ died \subseteq {"SchemaDrift", "locked"}
    BY DEF SchemaInv
  <1>3. p = Gateway /\ x \notin there
    BY <1>1, OnlyTheGateway
  <1> DEFINE r == Process("indexes", o.at, o.todo \ {x}, o.applied)
  <1>4. Becomes(p, r)
    BY <1>1
  <1> HIDE DEF o
  <1>5. /\ Tables \subseteq there /\ o.at \in 0..Len(TableOrder) /\ o.at # 0
        /\ o.todo \subseteq Declared /\ o.applied \subseteq Columns /\ o.todo \cap there = {}
        /\ \A i \in 1..(o.at - 1) : PartsOf(TableOrder[i]) \subseteq there
        /\ ColumnsOf[TableOrder[o.at]] \subseteq there
        /\ IndexesOf[TableOrder[o.at]] \subseteq there \cup o.todo
    BY <1>1, <1>2 DEF ProcType, Progress, Alone
  <1>6. there' \subseteq Declared /\ WithItsTable(there') /\ there \subseteq there'
    BY <1>1, <1>2, <1>5 DEF WithItsTable
  <1>7. ProcType(r)
    BY <1>5 DEF Process, ProcType
  <1>8. Progress(r, there')
    <2>1. r.pc = "indexes" /\ r.at = o.at /\ r.todo = o.todo \ {x}
      BY DEF Process
    <2> HIDE DEF r
    <2> QED
      BY <1>1, <1>5, <2>1 DEF Progress
  <1>9. Alone(p, r, there') /\ Gated(p, r)
    BY <1>1, <1>3, <1>5 DEF Process, Alone, Gated
  <1> HIDE DEF r
  <1> QED
    BY <1>1, <1>2, <1>3, <1>4, <1>6, <1>7, <1>8, <1>9, ProcessMoves

(* After the last table the schema is complete.                            *)
LEMMA SchemaDoneInv ==
  ASSUME SchemaInv, NEW p \in Processes, SchemaDone(p)
  PROVE  SchemaInv'
  <1> DEFINE o == proc[p]
             r == Process("record", o.at, {}, o.applied)
  <1>1. /\ o.pc = "indexes" /\ o.todo = {} /\ o.at = Len(TableOrder)
        /\ UNCHANGED <<there, served, died>>
        /\ Becomes(p, r) \/ Becomes(p, NotRunning)
    BY DEF SchemaDone, SchemaStep
  <1>2. /\ ProcType(o) /\ Progress(o, there) /\ Alone(p, o, there) /\ Gated(p, o)
        /\ there \subseteq Declared /\ WithItsTable(there) /\ died \subseteq {"SchemaDrift", "locked"}
    BY DEF SchemaInv
  <1>3. CASE Becomes(p, NotRunning)
    BY <1>1, <1>2, <1>3, Stops
  <1>4. CASE Becomes(p, r)
    <2> HIDE DEF o
    <2>1. /\ Tables \subseteq there /\ o.at \in 0..Len(TableOrder) /\ o.applied \subseteq Columns
          /\ \A i \in 1..(o.at - 1) : PartsOf(TableOrder[i]) \subseteq there
          /\ PartsOf(TableOrder[o.at]) \subseteq there
      BY <1>1, <1>2 DEF ProcType, Progress, PartsOf
    <2>2. Len(TableOrder) \in Nat
      BY SchemaAssumption
    <2>3. \A i \in 1..Len(TableOrder) : PartsOf(TableOrder[i]) \subseteq there
      BY <1>1, <2>1, <2>2
    <2>4. \A t \in Tables : PartsOf(t) \subseteq there
      BY <2>3 DEF Tables
    <2>5. Declared \subseteq there
      BY <2>1, <2>4 DEF Declared, Columns, Indexes, PartsOf
    <2>6. ProcType(r) /\ Alone(p, r, there) /\ Progress(r, there) /\ Gated(p, r)
      BY <1>1, <1>2, <2>1, <2>5 DEF Process, ProcType, Alone, Progress, Gated
    <2> HIDE DEF r
    <2> QED
      BY <1>1, <1>2, <1>4, <2>6, ProcessMoves
  <1> QED
    BY <1>1, <1>3, <1>4

LEMMA SchemaStutter == SchemaInv /\ UNCHANGED <<there, proc, served, died>> => SchemaInv'
  BY DEF SchemaInv, ProcType, Progress, Alone, Gated

(* Every step keeps the schema's invariant.                                *)
LEMMA SchemaNext == SchemaInv /\ [SNext]_svars => SchemaInv'
  <1> SUFFICES ASSUME SchemaInv, [SNext]_svars PROVE SchemaInv'
    OBVIOUS
  <1>1. ASSUME NEW p \in Processes, Start(p) \/ Kill(p) \/ SchemaSteps(p) PROVE SchemaInv'
    <2>1. CASE Kill(p)
      BY <2>1, Stops DEF Kill, SchemaInv
    <2>2. CASE DatabaseLocked(p)
      BY <2>2, Stops DEF DatabaseLocked, Die, SchemaStep, SchemaInv
    <2> QED
      BY <1>1, <2>1, <2>2, StartInv, LookForTablesInv, CreateInv, ReadColumnsInv,
         AddColumnInv, ReadIndexesInv, CreateIndexInv, SchemaDoneInv DEF SchemaSteps
  <1>2. ASSUME NEW s \in Services, NEW r,
               r = Process("recording", proc[s].at, {}, proc[s].applied)
                 \/ r = Process("serving", proc[s].at, {}, proc[s].applied),
               proc[s].pc \in {"record", "recording"}, Becomes(s, r),
               UNCHANGED <<there, died>>, served' \in {served, served \cup {s}}
        PROVE  SchemaInv'
    <2>1. s \in Processes
      BY DEF Processes
    <2>2. /\ ProcType(proc[s]) /\ Progress(proc[s], there) /\ Alone(s, proc[s], there)
          /\ Gated(s, proc[s]) /\ Declared \subseteq there
      BY <1>2, <2>1 DEF SchemaInv, Progress
    <2>3. PICK pc \in {"recording", "serving"} :
            r = Process(pc, proc[s].at, {}, proc[s].applied)
      BY <1>2
    <2>4. ProcType(r) /\ Progress(r, there) /\ Alone(s, r, there) /\ Gated(s, r)
      <3>1. proc[s].at \in 0..Len(TableOrder) /\ proc[s].applied \subseteq Columns
            /\ (s # Gateway => proc[s].applied = {} /\ Gateway \in served)
        BY <1>2, <2>2 DEF ProcType, Alone, Gated
      <3> QED
        BY <2>2, <2>3, <3>1 DEF Process, ProcType, Progress, Alone, Gated
    <2>5. DOMAIN proc' = Processes /\ \A q \in Processes : proc'[q] = IF q = s THEN r ELSE proc[q]
      BY <1>2, <2>1 DEF SchemaInv, Becomes
    <2>6. ASSUME NEW q \in Processes
          PROVE  /\ ProcType(proc'[q]) /\ Progress(proc'[q], there')
                 /\ Alone(q, proc'[q], there') /\ Gated(q, proc[q])'
      <3>1. /\ ProcType(proc'[q]) /\ Progress(proc'[q], there)
            /\ Alone(q, proc'[q], there) /\ Gated(q, proc'[q])
        BY <2>4, <2>5 DEF SchemaInv
      <3> QED
        BY <1>2, <3>1 DEF Gated
    <2>7. served' \subseteq Services
      BY <1>2 DEF SchemaInv
    <2> QED
      BY <1>2, <2>2, <2>5, <2>6, <2>7 DEF SchemaInv, ProcType, Progress, Alone
  <1>3. ASSUME NEW s \in Services, NEW a \in Acts, BeginRecord(s, a) PROVE SchemaInv'
    BY <1>2, <1>3 DEF BeginRecord
  <1>4. ASSUME NEW s \in Services, RecordStep(s) PROVE SchemaInv'
    <2>1. CASE UNCHANGED <<proc, served>>
      BY <1>4, <2>1, SchemaStutter DEF RecordStep
    <2>2. CASE Becomes(s, NotRunning) /\ UNCHANGED served
      BY <1>4, <2>2, Stops DEF RecordStep, SchemaInv, Processes
    <2>3. CASE /\ Becomes(s, Process("serving", proc[s].at, {}, proc[s].applied))
               /\ served' \in {served, served \cup {s}}
      BY <1>2, <1>4, <2>3 DEF RecordStep
    <2>4. s \in DOMAIN proc
      BY DEF SchemaInv, Processes
    <2>5. Becomes(s, NotRunning) => proc'[s].pc # "serving"
      BY <2>4 DEF Becomes, NotRunning, Process
    <2> QED
      BY <1>4, <2>1, <2>2, <2>3, <2>5 DEF RecordStep, AfterRecord
  <1>5. CASE UNCHANGED <<there, proc, served, died>>
    BY <1>5, SchemaStutter
  <1> QED
    BY <1>1, <1>3, <1>4, <1>5 DEF SNext, ThreadStep, Undo, ByHand, svars

LEMMA SchemaInvariant == SSpec => []SchemaInv
  BY SchemaInit, SchemaNext, PTL DEF SSpec

(* No service records or serves before every declared table, column and    *)
(* index is there, wherever earlier start-ups were killed.                 *)
THEOREM NobodyServesHalfASchema == SSpec => []ServesFullSchema
  <1>1. SchemaInv => ServesFullSchema
    BY DEF SchemaInv, ServesFullSchema, Processes, Progress
  <1> QED
    BY <1>1, SchemaInvariant, PTL

(* With the gate of docker-compose.yml no CREATE or ALTER meets another's, *)
(* and all that app and scripts do is look.                                *)
THEOREM OnlyTheGatewayMigrates == SSpec => []NobodyMigratesTwice
  <1>1. SchemaInv => NobodyMigratesTwice
    BY DEF SchemaInv, NobodyMigratesTwice, Alone
  <1> QED
    BY <1>1, SchemaInvariant, PTL

-----------------------------------------------------------------------------
(* The types *)

(* What has begun stays begun.                                             *)
LEMMA BegunGrows == [Next]_vars => begun \subseteq begun'
  <1> SUFFICES ASSUME [Next]_vars PROVE begun \subseteq begun'
    OBVIOUS
  <1>1. ASSUME NEW w \in Writers, UnitStep(w) PROVE begun \subseteq begun'
    BY <1>1 DEF UnitStep, Begin, BeginBare, AppendHeld, Commit, RollBack, ReadTail,
                InsertFirst, Busy, Retry, GiveUp
  <1>2. CASE Alter
    BY <1>2 DEF Alter
  <1> QED
    BY <1>1, <1>2 DEF Next, vars

(* What is said of a start-up's event, and the count of kills.             *)
Reports == /\ \A a \in DOMAIN reported : a \in begun /\ reported[a] \subseteq Columns
           /\ kills \in 0..MaxKills

LEMMA ReportsNext == SchemaInv /\ Reports /\ [SNext]_svars => Reports'
  <1> SUFFICES ASSUME SchemaInv, Reports, [SNext]_svars PROVE Reports'
    OBVIOUS
  <1>1. begun \subseteq begun'
    BY ChainStep, BegunGrows
  <1>2. ASSUME NEW s \in Services, NEW a \in Acts, BeginRecord(s, a) PROVE Reports'
    <2>1. /\ begun' = begun \cup {a} /\ UNCHANGED kills
          /\ reported' = [b \in DOMAIN reported \cup {a} |->
                             IF b = a THEN proc[s].applied ELSE reported[b]]
      BY <1>2 DEF BeginRecord, BeginBare
    <2>2. proc[s].applied \subseteq Columns
      BY DEF SchemaInv, Processes, ProcType
    <2> QED
      BY <2>1, <2>2 DEF Reports
  <1>3. ASSUME NEW p \in Processes, Kill(p) PROVE Reports'
    BY <1>1, <1>3, ProcessesAssumption DEF Kill, Reports
  <1>4. CASE UNCHANGED <<reported, kills>>
    BY <1>1, <1>4 DEF Reports
  <1>5. ASSUME NEW p \in Processes, Start(p) \/ SchemaSteps(p)
        PROVE  UNCHANGED <<reported, kills>>
    BY <1>5 DEF Start, SchemaSteps, SchemaStep, LookForTables, Create, ReadColumns,
                AddColumn, ReadIndexes, CreateIndex, DatabaseLocked, SchemaDone
  <1> QED
    BY <1>2, <1>3, <1>4, <1>5 DEF SNext, RecordStep, ThreadStep, Undo, ByHand, svars

(* Every variable of the start-ups keeps its type.                         *)
THEOREM StartUpTypeCorrect == SSpec => []STypeOK
  <1>1. SInit => Reports
    BY ProcessesAssumption DEF SInit, Reports
  <1>2. SSpec => []Reports
    BY <1>1, ReportsNext, SchemaInvariant, PTL DEF SSpec
  <1>3. SchemaInv /\ Reports /\ TypeOK => STypeOK
    BY DEF SchemaInv, Reports, STypeOK
  <1> QED
    BY <1>2, <1>3, SchemaInvariant, StartUpImplementsChain, TypeCorrect, PTL

-----------------------------------------------------------------------------
(* The record *)

(* While the file is untouched, and so was before, rows are only added.    *)
LEMMA LogGrows ==
  ASSUME IInv, [Next]_vars, Untouched'
  PROVE  Untouched /\ \A i \in DOMAIN log : i \in DOMAIN log' /\ log'[i] = log[i]
  <1>1. ASSUME NEW w \in Writers, UnitStep(w)
        PROVE  Untouched /\ \A i \in DOMAIN log : i \in DOMAIN log' /\ log'[i] = log[i]
    <2>1. altered' = altered /\ (log' = log \/ Commit(w))
      BY <1>1 DEF UnitStep, Begin, BeginBare, AppendHeld, Commit, RollBack, ReadTail,
                  InsertFirst, Busy, Retry, GiveUp
    <2> QED
      BY <2>1, CommitExtends DEF Untouched
  <1>2. CASE Alter
    BY <1>2 DEF Alter, Untouched, EditRow, DeleteRow, SwapRows
  <1>3. CASE UNCHANGED vars
    BY <1>3 DEF vars, Untouched
  <1> QED
    BY <1>1, <1>2, <1>3 DEF Next

(* What was listed stays listed.                                           *)
LEMMA ListedStays ==
  ASSUME NEW columns, Listed(columns),
         \A i \in DOMAIN log : i \in DOMAIN log' /\ log'[i] = log[i],
         \A a \in DOMAIN reported : a \in DOMAIN reported' /\ reported'[a] = reported[a]
  PROVE  Listed(columns)'
  <1>1. PICK i \in DOMAIN log : /\ log[i].n = 1 /\ log[i].act \in DOMAIN reported
                                /\ reported[log[i].act] = columns
                                /\ i + 1 \in DOMAIN log /\ log[i + 1].act = log[i].act
    BY DEF Listed
  <1> QED
    BY <1>1 DEF Listed

(* Two events list different columns, whatever the log has of them.        *)
LEMMA RecordedOnce ==
  ASSUME ReportedOnce',
         Untouched' => \A s \in Services : proc'[s].pc = "serving" /\ proc'[s].applied # {} =>
                                              Listed(proc[s].applied)'
  PROVE  ServedIsRecorded'
  BY DEF ReportedOnce, ServedIsRecorded, Listed, Untouched

(* A process moves on with what it has added, or stops with nothing.       *)
LEMMA AppliedMoves ==
  ASSUME SchemaInv, RecordInv, NEW p \in Processes, NEW r, Becomes(p, r),
         r.pc \notin {"recording", "serving"}, there \subseteq there',
         UNCHANGED <<vars, reported>>, r.applied \subseteq there',
         \A a \in DOMAIN reported : r.applied \cap reported[a] = {}
  PROVE  RecordInv'
  <1>1. proc'[p] = r /\ \A q \in Processes \ {p} : proc'[q] = proc[q]
    BY DEF SchemaInv, Becomes
  <1>2. UNCHANGED <<log, unit, altered>> /\ ReportedOnce /\ RecordInHand /\ ServedIsRecorded
    BY DEF vars, RecordInv
  <1>3. ReportedOnce'
    <2>1. \A q \in Processes :
            /\ proc'[q].applied \subseteq there'
            /\ proc'[q].pc \notin {"recording", "serving"} =>
                  \A a \in DOMAIN reported : proc'[q].applied \cap reported[a] = {}
      BY <1>1, <1>2 DEF ReportedOnce
    <2> QED
      BY <1>2, <2>1 DEF ReportedOnce
  <1>4. RecordInHand'
    <2>1. ASSUME NEW s \in Services, proc'[s].pc = "recording" PROVE proc'[s] = proc[s]
      BY <1>1, <2>1 DEF Processes
    <2> QED
      BY <1>2, <2>1 DEF RecordInHand
  <1>5. ASSUME Untouched', NEW s \in Services, proc'[s].pc = "serving", proc'[s].applied # {}
        PROVE  Listed(proc[s].applied)'
    <2>1. proc'[s] = proc[s] /\ Untouched
      BY <1>1, <1>2, <1>5 DEF Processes, Untouched
    <2>2. Listed(proc[s].applied)
      BY <1>2, <1>5, <2>1 DEF ServedIsRecorded
    <2> QED
      BY <1>2, <2>1, <2>2 DEF Listed
  <1>6. ServedIsRecorded'
    BY <1>3, <1>5, RecordedOnce
  <1> QED
    BY <1>3, <1>4, <1>6 DEF RecordInv

(* ensure_schema, starting and stopping: an ALTER that succeeds is the     *)
(* first of its column, so no earlier start-up can have reported it.       *)
LEMMA SchemaStepsRecord ==
  ASSUME SchemaInv, RecordInv, NEW p \in Processes, Start(p) \/ Kill(p) \/ SchemaSteps(p)
  PROVE  RecordInv'
  <1> DEFINE o == proc[p]
  <1>1. UNCHANGED <<vars, reported>>
    BY DEF Start, Kill, SchemaSteps, SchemaStep, LookForTables, Create, ReadColumns,
           AddColumn, ReadIndexes, CreateIndex, DatabaseLocked, SchemaDone
  <1>2. /\ \A a \in DOMAIN reported : reported[a] \subseteq there
        /\ o.applied \subseteq there
        /\ o.pc \notin {"recording", "serving"} =>
              \A a \in DOMAIN reported : o.applied \cap reported[a] = {}
    BY DEF RecordInv, ReportedOnce
  <1>3. ASSUME NEW r, Becomes(p, r), r.pc \notin {"recording", "serving"},
               r.applied = {} \/ (r.applied = o.applied /\ o.pc \notin {"recording", "serving"}),
               there \subseteq there'
        PROVE  RecordInv'
    BY <1>1, <1>2, <1>3, AppliedMoves
  <1>4. ASSUME Becomes(p, NotRunning), there' = there PROVE RecordInv'
    <2>1. NotRunning.pc = "down" /\ NotRunning.applied = {}
      BY DEF NotRunning, Process
    <2> QED
      BY <1>3, <1>4, <2>1
  <1>5. CASE Start(p)
    <2>1. Becomes(p, Process("boot", 0, {}, {})) /\ there' = there
      BY <1>5 DEF Start
    <2> QED
      BY <1>3, <2>1 DEF Process
  <1>6. CASE Kill(p) \/ DatabaseLocked(p)
    BY <1>4, <1>6 DEF Kill, DatabaseLocked, Die
  <1>7. CASE LookForTables(p)
    <2>1. Becomes(p, Process("create", 0, Tables \ there, {})) /\ there' = there
      BY <1>7 DEF LookForTables
    <2> QED
      BY <1>3, <2>1 DEF Process
  <1>8. CASE Create(p)
    <2>1. PICK x \in o.todo :
             \/ Becomes(p, NotRunning) /\ there' = there
             \/ /\ there \subseteq there'
                /\ \E todo : Becomes(p, Process("create", 0, todo, {}))
      BY <1>8 DEF Create, Die
    <2> QED
      BY <1>3, <1>4, <2>1 DEF Process
  <1>9. CASE ReadColumns(p)
    <2>1. /\ o.pc \in {"create", "indexes"} /\ there' = there
          /\ \E at, todo : Becomes(p, Process("columns", at, todo, o.applied))
      BY <1>9 DEF ReadColumns
    <2> QED
      BY <1>3, <2>1 DEF Process
  <1>10. CASE AddColumn(p)
    <2>1. PICK c \in o.todo :
             \/ Becomes(p, NotRunning) /\ there' = there
             \/ /\ there' = there \cup {c}
                /\ Becomes(p, Process("columns", o.at, o.todo \ {c}, o.applied \cup {c}))
      BY <1>10 DEF AddColumn, Die
    <2>2. c \notin there /\ o.pc = "columns"
      BY <1>10, OnlyTheGateway DEF AddColumn
    <2>3. CASE /\ there' = there \cup {c}
               /\ Becomes(p, Process("columns", o.at, o.todo \ {c}, o.applied \cup {c}))
      <3> DEFINE r == Process("columns", o.at, o.todo \ {c}, o.applied \cup {c})
      <3>1. r.pc = "columns" /\ r.applied = o.applied \cup {c}
        BY DEF Process
      <3>2. \A a \in DOMAIN reported : r.applied \cap reported[a] = {}
        BY <1>2, <2>2, <3>1
      <3>3. Becomes(p, r) /\ there \subseteq there' /\ r.applied \subseteq there'
        BY <1>2, <2>3, <3>1
      <3> HIDE DEF r
      <3> QED
        BY <1>1, <3>1, <3>2, <3>3, AppliedMoves
    <2> QED
      BY <1>4, <2>1, <2>3
  <1>11. CASE ReadIndexes(p)
    <2>1. /\ o.pc = "columns" /\ there' = there
          /\ \E at, todo : Becomes(p, Process("indexes", at, todo, o.applied))
      BY <1>11 DEF ReadIndexes
    <2> QED
      BY <1>3, <2>1 DEF Process
  <1>12. CASE CreateIndex(p)
    <2>1. \/ Becomes(p, NotRunning) /\ there' = there
          \/ /\ o.pc = "indexes" /\ there \subseteq there'
             /\ \E at, todo : Becomes(p, Process("indexes", at, todo, o.applied))
      BY <1>12 DEF CreateIndex, Die
    <2> QED
      BY <1>3, <1>4, <2>1 DEF Process
  <1>13. CASE SchemaDone(p)
    <2>1. /\ o.pc = "indexes" /\ there' = there
          /\ \/ Becomes(p, NotRunning)
             \/ \E at, todo : Becomes(p, Process("record", at, todo, o.applied))
      BY <1>13 DEF SchemaDone
    <2> QED
      BY <1>3, <1>4, <2>1 DEF Process
  <1> QED
    BY <1>5, <1>6, <1>7, <1>8, <1>9, <1>10, <1>11, <1>12, <1>13 DEF SchemaSteps

(* A unit that goes on keeps its act and its size, and nobody else's moves.*)
LEMMA UnitGoesOn ==
  ASSUME IInv, NEW w \in Writers,
         ReadTail(w) \/ InsertFirst(w) \/ Busy(w) \/ AppendHeld(w) \/ Commit(w)
  PROVE  /\ \A v \in Writers \ {w} : unit'[v] = unit[v]
         /\ unit'[w].pc # "idle" => unit'[w].act = unit[w].act /\ unit'[w].size = unit[w].size
         /\ Commit(w) \/ UNCHANGED <<log, committed, altered>>
  <1> DEFINE x == unit[w]
  <1>1. unit = [v \in Writers |-> unit[v]] /\ UnitType(x)
    BY DEF IInv, TypeOK
  <1>2. x = [f \in {"pc", "kind", "act", "size", "rows", "written", "id", "prev",
                    "attempts"} |-> x[f]]
    BY <1>1 DEF UnitType
  <1>3. ASSUME NEW u, unit' = [unit EXCEPT ![w] = u],
               u.pc # "idle" => u.act = x.act /\ u.size = x.size
        PROVE  /\ \A v \in Writers \ {w} : unit'[v] = unit[v]
               /\ unit'[w].pc # "idle" => unit'[w].act = x.act /\ unit'[w].size = x.size
    BY <1>1, <1>3
  <1>4. ASSUME NEW id, NEW prev
        PROVE  LET u == [x EXCEPT !.pc = "inserting", !.id = id, !.prev = prev]
               IN  u.act = x.act /\ u.size = x.size
    <2> HIDE DEF x
    <2> QED
      BY <1>2
  <1>5. ASSUME NEW n PROVE LET u == [x EXCEPT !.pc = "reading", !.attempts = n]
                           IN  u.act = x.act /\ u.size = x.size
    <2> HIDE DEF x
    <2> QED
      BY <1>2
  <1>6. ASSUME NEW rows PROVE LET u == [x EXCEPT !.pc = "holding", !.written = 1, !.rows = rows]
                              IN  u.act = x.act /\ u.size = x.size
    <2> HIDE DEF x
    <2> QED
      BY <1>2
  <1>7. ASSUME NEW rows, NEW n PROVE LET u == [x EXCEPT !.rows = rows, !.written = n]
                                     IN  u.act = x.act /\ u.size = x.size
    <2> HIDE DEF x
    <2> QED
      BY <1>2
  <1>8. CASE ReadTail(w)
    <2>1. \E id, prev : unit' = [unit EXCEPT ![w] =
                                   [x EXCEPT !.pc = "inserting", !.id = id, !.prev = prev]]
      BY <1>8 DEF ReadTail
    <2>2. UNCHANGED <<log, committed, altered>>
      BY <1>8 DEF ReadTail
    <2> QED
      BY <1>3, <1>4, <2>1, <2>2
  <1>9. CASE Retry(w) \/ \E why : GiveUp(w, why)
    <2>1. \/ unit' = [unit EXCEPT ![w] = NoUnit]
          \/ \E n : unit' = [unit EXCEPT ![w] = [x EXCEPT !.pc = "reading", !.attempts = n]]
      BY <1>9 DEF Retry, GiveUp
    <2>2. UNCHANGED <<log, committed, altered>>
      BY <1>9 DEF Retry, GiveUp
    <2> QED
      BY <1>3, <1>5, <2>1, <2>2, NoUnitType
  <1>10. CASE InsertFirst(w)
    <2>1. \/ Retry(w) \/ \E why : GiveUp(w, why)
          \/ /\ \E rows : unit' = [unit EXCEPT ![w] =
                             [x EXCEPT !.pc = "holding", !.written = 1, !.rows = rows]]
             /\ UNCHANGED <<log, committed, altered>>
      BY <1>10 DEF InsertFirst
    <2> QED
      BY <1>3, <1>6, <1>9, <2>1
  <1>11. CASE AppendHeld(w)
    <2>1. /\ \E rows, n : unit' = [unit EXCEPT ![w] = [x EXCEPT !.rows = rows, !.written = n]]
          /\ UNCHANGED <<log, committed, altered>>
      BY <1>11 DEF AppendHeld
    <2> QED
      BY <1>3, <1>7, <2>1
  <1>12. CASE Commit(w)
    <2>1. unit' = [unit EXCEPT ![w] = NoUnit]
      BY <1>12 DEF Commit
    <2> QED
      BY <1>3, <1>12, <2>1, NoUnitType
  <1> QED
    BY <1>8, <1>9, <1>10, <1>11, <1>12 DEF Busy

(* The record begins: its columns are new to the chain.                    *)
LEMMA BeginRecordRecord ==
  ASSUME IInv, EInv, SchemaInv, Reports, RecordInv, NEW s \in Services, NEW a \in Acts,
         BeginRecord(s, a)
  PROVE  RecordInv'
  <1> DEFINE o == proc[s]
             size == IF o.applied = {} THEN 1 ELSE 2
             u == [NoUnit EXCEPT !.pc = "reading", !.kind = "startup", !.act = a, !.size = size]
  <1>1. s \in Writers /\ s \in Processes
    BY ProcessesAssumption DEF Processes
  <1>2. /\ o.pc = "record" /\ a \notin begun
        /\ Becomes(s, Process("recording", o.at, {}, o.applied))
        /\ UNCHANGED <<there, log, altered>>
        /\ reported' = [b \in DOMAIN reported \cup {a} |-> IF b = a THEN o.applied ELSE reported[b]]
        /\ unit' = [unit EXCEPT ![s] = u]
    BY DEF BeginRecord, BeginBare
  <1>3. a \notin DOMAIN reported
    BY <1>2 DEF Reports
  <1>4. /\ DOMAIN reported' = DOMAIN reported \cup {a} /\ reported'[a] = o.applied
        /\ \A b \in DOMAIN reported : reported'[b] = reported[b]
    BY <1>2, <1>3
  <1>5. /\ proc'[s].pc = "recording" /\ proc'[s].applied = o.applied
        /\ \A p \in Processes \ {s} : proc'[p] = proc[p]
    BY <1>1, <1>2 DEF SchemaInv, Becomes, Process
  <1>6. /\ unit'[s].pc = "reading" /\ unit'[s].act = a /\ unit'[s].size = size
        /\ \A w \in Writers \ {s} : unit'[w] = unit[w]
    <2>1. unit = [v \in Writers |-> unit[v]]
      BY DEF IInv, TypeOK
    <2>2. u.pc = "reading" /\ u.act = a /\ u.size = size
      BY DEF NoUnit
    <2> HIDE DEF u
    <2> QED
      BY <1>1, <1>2, <2>1, <2>2
  <1> HIDE DEF u
  <1>7. ReportedOnce /\ RecordInHand /\ ServedIsRecorded
    BY DEF RecordInv
  <1>8. ReportedOnce'
    <2>1. o.applied \subseteq there /\ \A b \in DOMAIN reported : o.applied \cap reported[b] = {}
      BY <1>1, <1>2, <1>7 DEF ReportedOnce
    <2>2. \A b \in DOMAIN reported' : reported'[b] \subseteq there'
      BY <1>2, <1>4, <1>7, <2>1 DEF ReportedOnce
    <2>3. \A b, c \in DOMAIN reported' : reported'[b] \cap reported'[c] # {} => b = c
      BY <1>4, <1>7, <2>1 DEF ReportedOnce
    <2>4. ASSUME NEW p \in Processes \ {s}
          PROVE  /\ proc'[p].applied \subseteq there'
                 /\ proc'[p].pc \notin {"recording", "serving"} =>
                       \A b \in DOMAIN reported' : proc'[p].applied \cap reported'[b] = {}
      <3>1. proc[p].applied \cap o.applied = {}
        BY <1>1 DEF SchemaInv, Alone
      <3> QED
        BY <1>2, <1>4, <1>5, <1>7, <3>1 DEF ReportedOnce
    <2> QED
      BY <1>2, <1>5, <2>1, <2>2, <2>3, <2>4 DEF ReportedOnce
  <1>9. RecordInHand'
    <2>1. ASSUME NEW v \in Services, v # s, proc'[v].pc = "recording"
          PROVE  /\ unit'[v].pc # "idle" /\ unit'[v].act \in DOMAIN reported'
                 /\ reported'[unit'[v].act] = proc'[v].applied
                 /\ unit'[v].size = IF proc'[v].applied = {} THEN 1 ELSE 2
      <3>1. proc'[v] = proc[v] /\ unit'[v] = unit[v]
        BY <1>5, <1>6, <2>1, ProcessesAssumption DEF Processes
      <3> QED
        BY <1>4, <1>7, <2>1, <3>1 DEF RecordInHand
    <2>2. /\ unit'[s].pc # "idle" /\ unit'[s].act \in DOMAIN reported'
          /\ reported'[unit'[s].act] = proc'[s].applied
          /\ unit'[s].size = IF proc'[s].applied = {} THEN 1 ELSE 2
      BY <1>4, <1>5, <1>6
    <2> QED
      BY <2>1, <2>2 DEF RecordInHand
  <1>10. ASSUME Untouched', NEW v \in Services, proc'[v].pc = "serving", proc'[v].applied # {}
         PROVE  Listed(proc[v].applied)'
    <2>1. proc'[v] = proc[v] /\ Untouched
      BY <1>2, <1>5, <1>10 DEF Processes, Untouched
    <2>2. Listed(proc[v].applied)
      BY <1>7, <1>10, <2>1 DEF ServedIsRecorded
    <2>3. \A columns : Listed(columns) => Listed(columns)'
      BY <1>2, <1>4, ListedStays
    <2> QED
      BY <2>1, <2>2, <2>3 DEF Listed
  <1>11. ServedIsRecorded'
    BY <1>8, <1>10, RecordedOnce
  <1> QED
    BY <1>8, <1>9, <1>11 DEF RecordInv

(* Threads, rollbacks of dead processes and changes by hand are nothing to *)
(* the start-ups' units.                                                   *)
LEMMA OthersRecord ==
  ASSUME IInv, RecordInv, [Next]_vars, UNCHANGED <<there, proc, reported>>,
         \A s \in Services : proc[s].pc = "recording" => unit'[s] = unit[s]
  PROVE  RecordInv'
  <1>1. ReportedOnce /\ RecordInHand /\ ServedIsRecorded
    BY DEF RecordInv
  <1>2. ReportedOnce' /\ RecordInHand'
    BY <1>1 DEF ReportedOnce, RecordInHand
  <1>3. ASSUME Untouched', NEW s \in Services, proc'[s].pc = "serving", proc'[s].applied # {}
        PROVE  Listed(proc[s].applied)'
    <2>1. Untouched /\ \A i \in DOMAIN log : i \in DOMAIN log' /\ log'[i] = log[i]
      BY <1>3, LogGrows
    <2>2. Listed(proc[s].applied)
      BY <1>1, <1>3, <2>1 DEF ServedIsRecorded
    <2>3. \A columns : Listed(columns) => Listed(columns)'
      BY <2>1, ListedStays
    <2> QED
      BY <2>2, <2>3 DEF Listed
  <1>4. ServedIsRecorded'
    BY <1>2, <1>3, RecordedOnce
  <1> QED
    BY <1>2, <1>4 DEF RecordInv

(* A commit of two events lists what the first one reports.                *)
LEMMA CommitLists ==
  ASSUME IInv, EInv, NEW w \in Writers, Commit(w), Untouched, unit[w].size = 2,
         unit[w].act \in DOMAIN reported, UNCHANGED reported,
         NEW columns, columns = reported[unit[w].act]
  PROVE  Listed(columns)'
  <1> DEFINE x == unit[w]
             i == LastId(log) + 1
  <1>1. x.pc = "holding" /\ x.written = 2
    BY DEF Commit, AllWritten
  <1>2. EventsOnto(log, x) /\ LastId(log) \in Nat
    BY <1>1 DEF EInv, EventsInHand, IInv, ChainsGrow, Chain
  <1>3. i \in DOMAIN x.rows /\ i + 1 \in DOMAIN x.rows
    BY <1>1, <1>2 DEF EventsOnto
  <1>4. x.rows[i].act = x.act /\ x.rows[i].n = 1 /\ x.rows[i + 1].act = x.act
    <2>1. i - LastId(log) = 1
      BY <1>2
    <2> QED
      BY <1>2, <1>3, <2>1 DEF EventsOnto
  <1>5. /\ i \in DOMAIN log' /\ i + 1 \in DOMAIN log'
        /\ log'[i] = x.rows[i] /\ log'[i + 1] = x.rows[i + 1]
    BY <1>3, CommitExtends
  <1> HIDE DEF i
  <1> QED
    BY <1>4, <1>5 DEF Listed

(* A start-up appends, commits and serves, or gives up and dies.           *)
LEMMA RecordStepRecord ==
  ASSUME IInv, EInv, SchemaInv, RecordInv, NEW s \in Services, RecordStep(s)
  PROVE  RecordInv'
  <1> DEFINE o == proc[s]
  <1>1. s \in Writers /\ s \in Processes
    BY ProcessesAssumption DEF Processes
  <1>2. /\ o.pc = "recording" /\ UNCHANGED <<there, reported>>
        /\ ReadTail(s) \/ InsertFirst(s) \/ Busy(s) \/ AppendHeld(s) \/ Commit(s)
        /\ unit'[s].pc # "idle" => UNCHANGED proc
        /\ unit'[s].pc = "idle" => Becomes(s, AfterRecord(s))
    BY DEF RecordStep
  <1>3. ReportedOnce /\ RecordInHand /\ ServedIsRecorded
    BY DEF RecordInv
  <1>4. /\ unit[s].pc # "idle" /\ unit[s].act \in DOMAIN reported
        /\ reported[unit[s].act] = o.applied
        /\ unit[s].size = IF o.applied = {} THEN 1 ELSE 2
    BY <1>2, <1>3 DEF RecordInHand
  <1>5. /\ \A v \in Writers \ {s} : unit'[v] = unit[v]
        /\ unit'[s].pc # "idle" => unit'[s].act = unit[s].act /\ unit'[s].size = unit[s].size
        /\ Commit(s) \/ UNCHANGED <<log, committed, altered>>
    BY <1>1, <1>2, UnitGoesOn
  <1>6. [Next]_vars
    BY <1>1, <1>2 DEF Next, UnitStep
  <1>7. /\ \A p \in Processes \ {s} : proc'[p] = proc[p]
        /\ unit'[s].pc = "idle" => proc'[s] = AfterRecord(s)
    BY <1>1, <1>2 DEF SchemaInv, Becomes
  <1>8. unit'[s].pc = "idle" =>
          \/ proc'[s].applied = {} /\ proc'[s].pc = "down"
          \/ /\ proc'[s].pc = "serving" /\ proc'[s].applied = o.applied
             /\ unit[s].act \in committed'
    BY <1>7 DEF AfterRecord, NotRunning, Process
  <1>9. ReportedOnce'
    <2>1. /\ proc'[s].applied \subseteq there'
          /\ proc'[s].pc \notin {"recording", "serving"} =>
                \A a \in DOMAIN reported : proc'[s].applied \cap reported[a] = {}
      BY <1>1, <1>2, <1>3, <1>8 DEF ReportedOnce
    <2>2. \A p \in Processes :
            /\ proc'[p].applied \subseteq there'
            /\ proc'[p].pc \notin {"recording", "serving"} =>
                  \A a \in DOMAIN reported : proc'[p].applied \cap reported[a] = {}
      BY <1>2, <1>3, <1>7, <2>1 DEF ReportedOnce
    <2> QED
      BY <1>2, <1>3, <2>2 DEF ReportedOnce
  <1>10. RecordInHand'
    <2>1. ASSUME NEW v \in Services, v # s, proc'[v].pc = "recording"
          PROVE  proc'[v] = proc[v] /\ unit'[v] = unit[v]
      BY <1>5, <1>7, <2>1, ProcessesAssumption DEF Processes
    <2>2. ASSUME proc'[s].pc = "recording"
          PROVE  /\ proc'[s] = proc[s] /\ unit'[s].pc # "idle"
                 /\ unit'[s].act = unit[s].act /\ unit'[s].size = unit[s].size
      BY <1>2, <1>5, <1>8, <2>2
    <2> QED
      BY <1>2, <1>3, <1>4, <2>1, <2>2 DEF RecordInHand
  <1>11. ASSUME Untouched', NEW v \in Services, proc'[v].pc = "serving", proc'[v].applied # {}
         PROVE  Listed(proc[v].applied)'
    <2>1. Untouched /\ \A i \in DOMAIN log : i \in DOMAIN log' /\ log'[i] = log[i]
      BY <1>6, <1>11, LogGrows
    <2>2. CASE v # s
      <3>1. proc'[v] = proc[v]
        BY <1>7, <2>2 DEF Processes
      <3>2. Listed(proc[v].applied)
        BY <1>3, <1>11, <2>1, <3>1 DEF ServedIsRecorded
      <3>3. \A columns : Listed(columns) => Listed(columns)'
        BY <1>2, <2>1, ListedStays
      <3> QED
        BY <3>1, <3>2, <3>3 DEF Listed
    <2>3. CASE v = s
      <3>1. unit'[s].pc = "idle"
        BY <1>2, <1>11, <2>3
      <3>2. proc'[s].applied = o.applied /\ unit[s].act \in committed'
        BY <1>8, <1>11, <2>3, <3>1
      <3>3. unit[s].act \notin committed
        BY <1>1, <1>4 DEF EInv, ActsApart
      <3>4. Commit(s) /\ unit[s].size = 2
        BY <1>4, <1>5, <1>11, <2>3, <3>2, <3>3
      <3>5. \A columns : columns = o.applied => Listed(columns)'
        BY <1>1, <1>2, <1>4, <2>1, <3>4, CommitLists
      <3> QED
        BY <2>3, <3>2, <3>5 DEF Listed
    <2> QED
      BY <2>2, <2>3
  <1>12. ServedIsRecorded'
    BY <1>9, <1>11, RecordedOnce
  <1> QED
    BY <1>9, <1>10, <1>12 DEF RecordInv

LEMMA RecordNext ==
  IInv /\ EInv /\ SchemaInv /\ Reports /\ RecordInv /\ [SNext]_svars => RecordInv'
  <1> SUFFICES ASSUME IInv, EInv, SchemaInv, Reports, RecordInv, [SNext]_svars
               PROVE  RecordInv'
    OBVIOUS
  <1>1. [Next]_vars
    BY ChainStep
  <1>2. ASSUME NEW w \in Writers, NEW u, unit' = [unit EXCEPT ![w] = u]
        PROVE  \A v \in Writers \ {w} : unit'[v] = unit[v]
    BY <1>2 DEF IInv, TypeOK
  <1>3. ASSUME NEW w \in Threads, ThreadStep(w) PROVE RecordInv'
    <2>1. w \in Writers /\ w \notin Services /\ \A s \in Services : s \in Writers
      BY ProcessesAssumption DEF Threads
    <2>2. CASE \E a \in Acts : ThreadBegins(w, a)
      <3>1. \E u : unit' = [unit EXCEPT ![w] = u]
        BY <2>2 DEF ThreadBegins, Begin, BeginBare
      <3>2. \A s \in Services : unit'[s] = unit[s]
        BY <1>2, <2>1, <3>1
      <3> QED
        BY <1>1, <1>3, <3>2, OthersRecord DEF ThreadStep
    <2>3. CASE ThreadGoesOn(w)
      <3>1. \A s \in Services : unit'[s] = unit[s]
        <4>1. CASE RollBack(w)
          BY <1>2, <2>1, <4>1 DEF RollBack
        <4>2. CASE ReadTail(w) \/ InsertFirst(w) \/ Busy(w) \/ AppendHeld(w) \/ Commit(w)
          BY <2>1, <4>2, UnitGoesOn
        <4> QED
          BY <2>3, <4>1, <4>2 DEF ThreadGoesOn
      <3> QED
        BY <1>1, <1>3, <3>1, OthersRecord DEF ThreadStep
    <2> QED
      BY <1>3, <2>2, <2>3 DEF ThreadStep
  <1>4. ASSUME NEW w \in Writers, Undo(w) PROVE RecordInv'
    <2>1. \A v \in Writers \ {w} : unit'[v] = unit[v]
      BY <1>2, <1>4 DEF Undo, RollBack
    <2>2. \A s \in Services : proc[s].pc = "recording" => unit'[s] = unit[s]
      BY <1>4, <2>1, ProcessesAssumption DEF Undo
    <2> QED
      BY <1>1, <1>4, <2>2, OthersRecord DEF Undo
  <1>5. CASE ByHand
    BY <1>1, <1>5, OthersRecord DEF ByHand, Alter
  <1>6. CASE UNCHANGED svars
    BY <1>1, <1>6, OthersRecord DEF svars, vars
  <1> QED
    BY <1>3, <1>4, <1>5, <1>6, SchemaStepsRecord, BeginRecordRecord, RecordStepRecord DEF SNext

(* A service that serves has its migration in the chain, wherever earlier  *)
(* start-ups died and whoever won the race for the tail; and a column is   *)
(* reported once (init_schema_and_audit, run_in_transaction).              *)
THEOREM MigrationsAreRecorded == SSpec => []ServedIsRecorded
  <1>1. SInit => Reports /\ RecordInv
    <2> SUFFICES ASSUME SInit PROVE Reports /\ RecordInv
      OBVIOUS
    <2>1. /\ DOMAIN reported = {} /\ DOMAIN log = {}
          /\ \A p \in Processes : proc[p].applied = {} /\ proc[p].pc \in {"down", "old"}
      BY EmptyTable DEF SInit, Init, NotRunning, Process
    <2>2. Reports
      BY <2>1, ProcessesAssumption DEF SInit, Reports
    <2>3. ReportedOnce
      BY <2>1 DEF ReportedOnce
    <2>4. RecordInHand
      BY <2>1 DEF RecordInHand, Processes
    <2>5. ServedIsRecorded
      BY <2>1 DEF ServedIsRecorded, Processes
    <2> QED
      BY <2>2, <2>3, <2>4, <2>5 DEF RecordInv
  <1>2. SSpec => []IInv /\ []EInv
    BY StartUpImplementsChain, Invariant, EventsInvariant, PTL
  <1>3. RecordInv => ServedIsRecorded
    BY DEF RecordInv
  <1> QED
    BY <1>1, <1>2, <1>3, ReportsNext, RecordNext, SchemaInvariant, PTL DEF SSpec
=============================================================================
