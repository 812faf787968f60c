---------------------------- MODULE AuditProofs ----------------------------
(***************************************************************************)
(* The audit chain for any number of writers, acts, events and attempts:   *)
(* nobody who only goes through the code breaks it, no committed row ever  *)
(* changes, acts and their events are committed together, and a change by  *)
(* hand is reported where it was made.                                     *)
(***************************************************************************)
EXTENDS AuditChain, WellFoundedInduction, TLAPS

(* A chain's tail is its last id, and a table with ids 1 to n has tail n.  *)
LEMMA LastIdIs ==
  ASSUME NEW l, NEW n \in Nat, DOMAIN l = 1..n
  PROVE  LastId(l) = n
  <1>1. CASE n = 0
    BY <1>1 DEF LastId
  <1>2. CASE n # 0
    <2>1. n \in DOMAIN l /\ DOMAIN l # {} /\ \A j \in DOMAIN l : j <= n
      BY <1>2
    <2>2. \A i \in DOMAIN l : (\A j \in DOMAIN l : j <= i) => i = n
      BY <2>1
    <2> QED
      BY <2>1, <2>2 DEF LastId
  <1> QED
    BY <1>1, <1>2

(* A chain with one row more, linked to its tail, is a chain.              *)
LEMMA ChainExtends ==
  ASSUME NEW l, NEW m, NEW a, NEW n, Chain(l),
         DOMAIN m = DOMAIN l \cup {LastId(l) + 1},
         m[LastId(l) + 1] = Row(LastId(l) + 1, a, n, TailHash(l)),
         \A i \in DOMAIN l : m[i] = l[i]
  PROVE  Chain(m)
  <1> DEFINE k == LastId(l)
  <1>1. k \in Nat /\ DOMAIN l = 1..k /\ \A i \in DOMAIN l : GoodRow(l, i)
    BY DEF Chain
  <1>2. DOMAIN m = 1..(k + 1)
    BY <1>1
  <1>3. LastId(m) = k + 1
    BY <1>1, <1>2, LastIdIs
  <1>4. ASSUME NEW i \in 1..k PROVE GoodRow(m, i)
    <2>1. GoodRow(l, i) /\ m[i] = l[i]
      BY <1>1
    <2>2. CASE i = 1
      BY <2>1, <2>2 DEF GoodRow
    <2>3. CASE i # 1
      <3>1. i - 1 \in 1..k /\ m[i - 1] = l[i - 1]
        BY <1>1, <2>3
      <3> QED
        BY <1>1, <1>2, <2>1, <2>3, <3>1 DEF GoodRow
    <2> QED
      BY <2>2, <2>3
  <1>5. GoodRow(m, k + 1)
    <2>1. m[k + 1] = Row(k + 1, a, n, TailHash(l))
      OBVIOUS
    <2>2. m[k + 1].hash = HashOf(k + 1, m[k + 1].act, m[k + 1].n, m[k + 1].prev)
      BY <2>1 DEF Row
    <2>3. CASE k = 0
      <3>1. m[k + 1].prev = Genesis
        BY <1>1, <2>1, <2>3 DEF Row, TailHash
      <3> QED
        BY <2>2, <2>3, <3>1 DEF GoodRow
    <2>4. CASE k # 0
      <3>1. k \in DOMAIN m /\ m[k] = l[k] /\ k + 1 # 1 /\ (k + 1) - 1 = k /\ DOMAIN l # {}
        BY <1>1, <1>2, <2>4
      <3>2. m[k + 1].prev = m[k].hash
        BY <2>1, <3>1 DEF Row, TailHash
      <3> QED
        BY <2>2, <3>1, <3>2 DEF GoodRow
    <2> QED
      BY <1>1, <2>3, <2>4
  <1> HIDE DEF k
  <1> QED
    BY <1>1, <1>2, <1>3, <1>4, <1>5 DEF Chain

(* A bounded set of ids that is not empty has a last one.                  *)
LEMMA LastExists ==
  ASSUME NEW n \in Nat, NEW S \in SUBSET (1..n), S # {}
  PROVE  \E i \in S : \A j \in S : j <= i
  <1> DEFINE T == {x \in Nat : \E i \in S : x = n - i}
  <1>1. \A i \in S : n - i \in T
    OBVIOUS
  <1>2. T \subseteq Nat /\ T # {}
    BY <1>1
  <1> DEFINE R == OpToRel(<, Nat)
  <1>w. IsWellFoundedOn(R, Nat)
    BY NatLessThanWellFounded
  <1>r. \A x, y \in Nat : y < x => <<y, x>> \in R
    BY DEF OpToRel
  <1>3. PICK x \in T : \A y \in T : x <= y
    <2> HIDE DEF R, T
    <2>1. \E x \in T : \A y \in T : ~(<<y, x>> \in R)
      BY <1>2, <1>w, WFMin
    <2>2. PICK x \in T : \A y \in T : ~(y < x)
      BY <1>2, <1>r, <2>1
    <2> QED
      BY <1>2, <2>2
  <1>4. PICK i \in S : x = n - i
    OBVIOUS
  <1>5. \A j \in S : j <= i
    <2> SUFFICES ASSUME NEW j \in S PROVE j <= i
      OBVIOUS
    <2>1. n - j \in T /\ j \in Nat /\ i \in Nat
      BY <1>1
    <2> HIDE DEF T
    <2> QED
      BY <1>3, <1>4, <2>1
  <1> QED
    BY <1>5

(* The tail of a table, when there is one, is its last row.                *)
LEMMA TailIsLast ==
  ASSUME NEW l, HasTail(l), DOMAIN l # {}
  PROVE  LastId(l) \in DOMAIN l
  <1>1. PICK i \in DOMAIN l : \A j \in DOMAIN l : j <= i
    BY LastExists DEF HasTail
  <1> QED
    BY <1>1 DEF LastId

(* A table whose ids are bounded has a tail: SQLite's integer keys.        *)
LEMMA BoundedHasTail ==
  ASSUME NEW l, NEW n \in Nat, DOMAIN l \subseteq 1..n
  PROVE  HasTail(l)
  <1>1. CASE DOMAIN l = {}
    BY <1>1 DEF HasTail, LastId
  <1>2. CASE DOMAIN l # {}
    <2>1. PICK i \in DOMAIN l : \A j \in DOMAIN l : j <= i
      BY <1>2, LastExists
    <2>2. LastId(l) \in DOMAIN l /\ \A j \in DOMAIN l : j <= LastId(l)
      BY <1>2, <2>1 DEF LastId
    <2> QED
      BY <2>2 DEF HasTail
  <1> QED
    BY <1>1, <1>2

(* The last id depends on the ids alone.                                   *)
LEMMA SameIds ==
  ASSUME NEW l, NEW m, DOMAIN l = DOMAIN m
  PROVE  LastId(l) = LastId(m) /\ (HasTail(l) <=> HasTail(m))
  BY DEF LastId, HasTail

(* The table at the start is a chain of length 0.                          *)
LEMMA EmptyTable == HasTail(Empty) /\ LastId(Empty) = 0 /\ DOMAIN Empty = {} /\ Chain(Empty)
  BY DEF Empty, HasTail, LastId, Chain

(* A unit that has written nothing sees the committed log.                 *)
LEMMA OverNothing ==
  ASSUME NEW l, l = [i \in DOMAIN l |-> l[i]]
  PROVE  Over(Empty, l) = l
  <1>1. DOMAIN Empty = {}
    BY EmptyTable
  <1> QED
    BY <1>1 DEF Over

(* One uncommitted row more is one row more in the unit's view.            *)
LEMMA OverInsert ==
  ASSUME NEW rows, NEW l, NEW id, NEW row
  PROVE  LET m == Over(Insert(rows, id, row), l)
         IN  /\ DOMAIN m = DOMAIN Over(rows, l) \cup {id}
             /\ m[id] = row
             /\ \A i \in DOMAIN Over(rows, l) \ {id} : m[i] = Over(rows, l)[i]
             /\ DOMAIN Insert(rows, id, row) = {id} \cup DOMAIN rows
             /\ \A i \in DOMAIN Insert(rows, id, row) :
                    Insert(rows, id, row)[i] = IF i = id THEN row ELSE rows[i]
  BY DEF Over, Insert

-----------------------------------------------------------------------------
(* Types of the units *)

(* A writer without a unit has a unit's type.                              *)
LEMMA NoUnitType == UnitType(NoUnit) /\ NoUnit.pc = "idle" /\ NoUnit.rows = Empty
  <1>1. \A i \in DOMAIN Empty : RowType(Empty[i])
    BY EmptyTable
  <1> QED
    BY <1>1, BoundsAssumption DEF UnitType, NoUnit

(* One writer's unit changes, the others' do not.                          *)
LEMMA OneUnit ==
  ASSUME TypeOK, NEW w \in Writers, NEW u, UnitType(u), unit' = [unit EXCEPT ![w] = u]
  PROVE  /\ unit' = [v \in Writers |-> unit'[v]]
         /\ unit'[w] = u
         /\ \A v \in Writers \ {w} : unit'[v] = unit[v]
         /\ \A v \in Writers : UnitType(unit'[v])
  <1>1. unit = [v \in Writers |-> unit[v]] /\ \A v \in Writers : UnitType(unit[v])
    BY DEF TypeOK
  <1>2. unit' = [v \in Writers |-> IF v = w THEN u ELSE unit[v]]
    BY <1>1
  <1> QED
    BY <1>1, <1>2

(* The row audit.append writes has a row's type.                           *)
LEMMA RowTyped ==
  ASSUME NEW id, NEW a \in Acts, NEW n \in 1..MaxEvents, NEW prev
  PROVE  RowType(Row(id, a, n, prev))
  BY DEF RowType, Row

-----------------------------------------------------------------------------
(* The steps, by what they do to the lock *)

(* A unit without the lock moves on: nothing but its own record changes.   *)
LEMMA QuietStep ==
  ASSUME IInv, NEW w \in Writers, NEW u, UnitType(u), u.rows = Empty,
         u.pc # "holding", unit[w].pc # "holding", unit' = [unit EXCEPT ![w] = u],
         UNCHANGED <<log, lock, committed, altered>>, begun' \subseteq Acts,
         givenUp' \subseteq {"attempts", "conflict"},
         Untouched /\ u.pc = "inserting" =>
             /\ u.id - 1 \in {0} \cup DOMAIN log
             /\ u.prev = IF u.id = 1 THEN Genesis ELSE log[u.id - 1].hash
  PROVE  IInv'
  <1>1. TypeOK /\ LockHeld /\ ChainsGrow
    BY DEF IInv
  <1>2. /\ unit' = [v \in Writers |-> unit'[v]]
        /\ unit'[w] = u
        /\ \A v \in Writers \ {w} : unit'[v] = unit[v]
        /\ \A v \in Writers : UnitType(unit'[v])
    BY <1>1, OneUnit
  <1>3. TypeOK'
    BY <1>1, <1>2 DEF TypeOK, HasTail, LastId
  <1>4. unit[w].rows = Empty
    BY <1>1 DEF LockHeld
  <1>5. \A v \in Writers : unit'[v].rows = unit[v].rows
    BY <1>2, <1>4
  <1>6. \A v \in Writers : ViewOf(v)' = ViewOf(v)
    BY <1>5 DEF ViewOf
  <1>7. LockHeld'
    <2> SUFFICES ASSUME NEW v \in Writers
                 PROVE  /\ unit'[v].pc = "holding" <=> lock' = v
                        /\ unit'[v].pc # "holding" => unit'[v].rows = Empty
                        /\ DOMAIN unit'[v].rows \cap DOMAIN log' = {}
                        /\ HasTail(ViewOf(v)')
      BY <1>6 DEF LockHeld, HasTail, LastId
    <2>1. /\ unit[v].pc = "holding" <=> lock = v
          /\ unit[v].pc # "holding" => unit[v].rows = Empty
          /\ DOMAIN unit[v].rows \cap DOMAIN log = {}
          /\ HasTail(ViewOf(v))
      BY <1>1 DEF LockHeld
    <2> QED
      BY <1>2, <1>5, <1>6, <2>1
  <1>8. ChainsGrow'
    <2> SUFFICES ASSUME Untouched'
                 PROVE  /\ Chain(log')
                        /\ \A v \in Writers : Chain(ViewOf(v)')
                        /\ \A v \in Writers : unit'[v].pc = "inserting" =>
                             /\ unit'[v].id - 1 \in {0} \cup DOMAIN log'
                             /\ unit'[v].prev = IF unit'[v].id = 1 THEN Genesis
                                               ELSE log'[unit'[v].id - 1].hash
      BY DEF ChainsGrow
    <2>0. Untouched
      BY DEF Untouched
    <2>1. Chain(log) /\ \A v \in Writers : Chain(ViewOf(v))
      BY <1>1, <2>0 DEF ChainsGrow
    <2>2. ASSUME NEW v \in Writers, unit'[v].pc = "inserting"
          PROVE  /\ unit'[v].id - 1 \in {0} \cup DOMAIN log
                 /\ unit'[v].prev = IF unit'[v].id = 1 THEN Genesis
                                   ELSE log[unit'[v].id - 1].hash
      <3>1. CASE v = w
        BY <1>2, <2>0, <2>2, <3>1
      <3>2. CASE v # w
        BY <1>1, <1>2, <2>2, <3>2, <2>0 DEF ChainsGrow
      <3> QED
        BY <3>1, <3>2
    <2> QED
      BY <1>6, <2>1, <2>2
  <1> QED
    BY <1>3, <1>7, <1>8 DEF IInv

(* A unit takes the write lock, or writes more rows under it.              *)
LEMMA HoldStep ==
  ASSUME IInv, NEW w \in Writers, NEW u, UnitType(u), u.pc = "holding",
         lock \in {None, w}, lock' = w, unit' = [unit EXCEPT ![w] = u],
         UNCHANGED <<log, committed, givenUp, altered>>, begun' \subseteq Acts,
         DOMAIN u.rows \cap DOMAIN log = {}, HasTail(Over(u.rows, log)),
         Untouched => Chain(Over(u.rows, log))
  PROVE  IInv'
  <1>1. TypeOK /\ LockHeld /\ ChainsGrow
    BY DEF IInv
  <1>2. /\ unit' = [v \in Writers |-> unit'[v]]
        /\ unit'[w] = u
        /\ \A v \in Writers \ {w} : unit'[v] = unit[v]
        /\ \A v \in Writers : UnitType(unit'[v])
    BY <1>1, OneUnit
  <1>3. TypeOK'
    BY <1>1, <1>2 DEF TypeOK, HasTail, LastId
  <1>4. \A v \in Writers \ {w} : ViewOf(v)' = ViewOf(v)
    BY <1>2 DEF ViewOf
  <1>5. ViewOf(w)' = Over(u.rows, log)
    BY <1>2 DEF ViewOf
  <1>6. LockHeld'
    <2> SUFFICES ASSUME NEW v \in Writers
                 PROVE  /\ unit'[v].pc = "holding" <=> lock' = v
                        /\ unit'[v].pc # "holding" => unit'[v].rows = Empty
                        /\ DOMAIN unit'[v].rows \cap DOMAIN log' = {}
                        /\ HasTail(ViewOf(v)')
      BY DEF LockHeld, HasTail, LastId
    <2>1. CASE v = w
      BY <1>2, <1>5, <2>1
    <2>2. CASE v # w
      <3>1. /\ unit[v].pc = "holding" <=> lock = v
            /\ unit[v].pc # "holding" => unit[v].rows = Empty
            /\ DOMAIN unit[v].rows \cap DOMAIN log = {}
            /\ HasTail(ViewOf(v))
        BY <1>1 DEF LockHeld
      <3>2. lock # v /\ lock' # v
        BY <2>2, NoneAssumption
      <3> QED
        BY <1>2, <1>4, <2>2, <3>1, <3>2
    <2> QED
      BY <2>1, <2>2
  <1>7. ChainsGrow'
    <2> SUFFICES ASSUME Untouched'
                 PROVE  /\ Chain(log')
                        /\ \A v \in Writers : Chain(ViewOf(v)')
                        /\ \A v \in Writers : unit'[v].pc = "inserting" =>
                             /\ unit'[v].id - 1 \in {0} \cup DOMAIN log'
                             /\ unit'[v].prev = IF unit'[v].id = 1 THEN Genesis
                                               ELSE log'[unit'[v].id - 1].hash
      BY DEF ChainsGrow
    <2>0. Untouched
      BY DEF Untouched
    <2>1. Chain(log) /\ \A v \in Writers : Chain(ViewOf(v))
      BY <1>1, <2>0 DEF ChainsGrow
    <2>2. ASSUME NEW v \in Writers, unit'[v].pc = "inserting"
          PROVE  /\ unit'[v].id - 1 \in {0} \cup DOMAIN log
                 /\ unit'[v].prev = IF unit'[v].id = 1 THEN Genesis
                                   ELSE log[unit'[v].id - 1].hash
      <3>1. v # w
        BY <1>2, <2>2
      <3> QED
        BY <1>1, <1>2, <2>2, <3>1, <2>0 DEF ChainsGrow
    <2>3. \A v \in Writers : Chain(ViewOf(v)')
      BY <1>4, <1>5, <2>0, <2>1
    <2> QED
      BY <2>1, <2>2, <2>3
  <1> QED
    BY <1>3, <1>6, <1>7 DEF IInv

(* A unit gives the lock back, with its rows committed or forgotten.       *)
LEMMA ReleaseStep ==
  ASSUME IInv, NEW w \in Writers, unit[w].pc = "holding", lock' = None,
         unit' = [unit EXCEPT ![w] = NoUnit], log' \in {log, ViewOf(w)},
         UNCHANGED <<begun, givenUp, altered>>, committed' \subseteq Acts
  PROVE  IInv'
  <1>1. TypeOK /\ LockHeld /\ ChainsGrow
    BY DEF IInv
  <1>2. /\ unit' = [v \in Writers |-> unit'[v]]
        /\ unit'[w] = NoUnit
        /\ \A v \in Writers \ {w} : unit'[v] = unit[v]
        /\ \A v \in Writers : UnitType(unit'[v])
    BY <1>1, OneUnit, NoUnitType
  <1>3. lock = w /\ DOMAIN unit[w].rows \cap DOMAIN log = {} /\ HasTail(ViewOf(w))
    BY <1>1 DEF LockHeld
  <1>4. /\ DOMAIN log \subseteq DOMAIN log'
        /\ \A i \in DOMAIN log : log'[i] = log[i]
    BY <1>3 DEF ViewOf, Over
  <1>5. log' = [i \in DOMAIN log' |-> log'[i]]
    BY <1>1 DEF ViewOf, Over, TypeOK
  <1>6. HasTail(log') /\ \A i \in DOMAIN log' : RowType(log'[i])
    <2>1. HasTail(log) /\ \A i \in DOMAIN log : RowType(log[i])
      BY <1>1 DEF TypeOK
    <2>2. \A i \in DOMAIN unit[w].rows : RowType(unit[w].rows[i])
      BY <1>1 DEF TypeOK, UnitType
    <2>3. \A i \in DOMAIN ViewOf(w) : RowType(ViewOf(w)[i])
      BY <2>1, <2>2 DEF ViewOf, Over
    <2> QED
      BY <1>3, <2>1, <2>3
  <1>7. TypeOK'
    BY <1>1, <1>2, <1>5, <1>6 DEF TypeOK, HasTail, LastId
  <1>8. \A v \in Writers : unit'[v].pc # "holding" /\ unit'[v].rows = Empty
    <2> SUFFICES ASSUME NEW v \in Writers
                 PROVE  unit'[v].pc # "holding" /\ unit'[v].rows = Empty
      OBVIOUS
    <2>1. CASE v = w
      BY <1>2, <2>1, NoUnitType
    <2>2. CASE v # w
      BY <1>1, <1>2, <1>3, <2>2 DEF LockHeld
    <2> QED
      BY <2>1, <2>2
  <1>9. \A v \in Writers : ViewOf(v)' = log'
    BY <1>5, <1>8, OverNothing DEF ViewOf
  <1>10. LockHeld'
    <2> SUFFICES ASSUME NEW v \in Writers
                 PROVE  /\ unit'[v].pc = "holding" <=> lock' = v
                        /\ unit'[v].pc # "holding" => unit'[v].rows = Empty
                        /\ DOMAIN unit'[v].rows \cap DOMAIN log' = {}
                        /\ HasTail(ViewOf(v)')
      BY DEF LockHeld, HasTail, LastId
    <2>1. lock' # v
      BY NoneAssumption
    <2> QED
      BY <1>6, <1>8, <1>9, <2>1, EmptyTable
  <1>11. ChainsGrow'
    <2> SUFFICES ASSUME Untouched'
                 PROVE  /\ Chain(log')
                        /\ \A v \in Writers : Chain(ViewOf(v)')
                        /\ \A v \in Writers : unit'[v].pc = "inserting" =>
                             /\ unit'[v].id - 1 \in {0} \cup DOMAIN log'
                             /\ unit'[v].prev = IF unit'[v].id = 1 THEN Genesis
                                               ELSE log'[unit'[v].id - 1].hash
      BY DEF ChainsGrow
    <2>0. Untouched
      BY DEF Untouched
    <2>1. Chain(log')
      BY <1>1, <2>0 DEF ChainsGrow
    <2>2. ASSUME NEW v \in Writers, unit'[v].pc = "inserting"
          PROVE  /\ unit'[v].id - 1 \in {0} \cup DOMAIN log'
                 /\ unit'[v].prev = IF unit'[v].id = 1 THEN Genesis
                                   ELSE log'[unit'[v].id - 1].hash
      <3>1. v # w
        BY <1>2, <2>2, NoUnitType
      <3>2. /\ unit'[v].id - 1 \in {0} \cup DOMAIN log
            /\ unit'[v].prev = IF unit'[v].id = 1 THEN Genesis
                              ELSE log[unit'[v].id - 1].hash
        BY <1>1, <1>2, <2>2, <3>1, <2>0 DEF ChainsGrow
      <3>3. unit'[v].id \in Nat
        BY <1>2 DEF UnitType
      <3>4. CASE unit'[v].id = 1
        BY <3>2, <3>4
      <3>5. CASE unit'[v].id # 1
        <4>1. unit'[v].id - 1 \in DOMAIN log
          BY <3>2, <3>3, <3>5
        <4> QED
          BY <1>4, <3>2, <3>5, <4>1
      <3> QED
        BY <3>4, <3>5
    <2> QED
      BY <1>9, <2>1, <2>2
  <1> QED
    BY <1>7, <1>10, <1>11 DEF IInv

(* A row under the next id of a unit's view.                               *)
LEMMA NextRow ==
  ASSUME NEW rows, NEW l, HasTail(Over(rows, l)), NEW a, NEW n,
         NEW id, id = LastId(Over(rows, l)) + 1,
         NEW row, row = Row(id, a, n, TailHash(Over(rows, l)))
  PROVE  /\ id \in Nat /\ id \notin DOMAIN rows \cup DOMAIN l
         /\ HasTail(Over(Insert(rows, id, row), l))
         /\ Chain(Over(rows, l)) => Chain(Over(Insert(rows, id, row), l))
  <1> DEFINE t == Over(rows, l)
             m == Over(Insert(rows, id, row), l)
  <1>1. id \in Nat /\ id \notin DOMAIN t /\ DOMAIN t \subseteq 1..id
    BY DEF HasTail
  <1>2. /\ DOMAIN m = DOMAIN t \cup {id}
        /\ m[id] = row
        /\ \A i \in DOMAIN t \ {id} : m[i] = t[i]
    BY DEF Over, Insert
  <1>3. DOMAIN t = DOMAIN rows \cup DOMAIN l
    BY DEF Over
  <1>4. HasTail(m)
    <2>1. id \in 1..id /\ DOMAIN m \subseteq 1..id
      BY <1>1, <1>2 DEF HasTail
    <2> HIDE DEF m
    <2> QED
      BY <1>1, <2>1, BoundedHasTail
  <1>5. ASSUME Chain(t) PROVE Chain(m)
    <2>1. \A i \in DOMAIN t : m[i] = t[i]
      BY <1>1, <1>2
    <2>2. id = LastId(t) + 1 /\ row = Row(LastId(t) + 1, a, n, TailHash(t))
      OBVIOUS
    <2> HIDE DEF m, t
    <2> QED
      BY <1>2, <1>5, <2>1, <2>2, ChainExtends
  <1> QED
    BY <1>1, <1>3, <1>4, <1>5

(* The empty log satisfies the invariant.                                  *)
LEMMA InitInv == Init => IInv
  <1> SUFFICES ASSUME Init PROVE IInv
    OBVIOUS
  <1>1. \A w \in Writers : unit[w] = NoUnit
    BY DEF Init
  <1>2. log = [i \in DOMAIN log |-> log[i]]
    BY DEF Init, Empty
  <1>3. \A w \in Writers : ViewOf(w) = Empty
    BY <1>1, <1>2, OverNothing, NoUnitType DEF Init, ViewOf
  <1>4. \A i \in DOMAIN Empty : RowType(Empty[i])
    BY EmptyTable
  <1>5. TypeOK
    BY <1>1, <1>2, <1>4, EmptyTable, NoUnitType DEF Init, TypeOK
  <1>6. LockHeld
    BY <1>1, <1>3, EmptyTable, NoUnitType, NoneAssumption DEF Init, LockHeld
  <1>7. ChainsGrow
    BY <1>1, <1>3, EmptyTable, NoUnitType DEF Init, ChainsGrow
  <1> QED
    BY <1>5, <1>6, <1>7 DEF IInv

(* A handler that takes the write lock sees the committed chain.           *)
LEMMA BeginInv ==
  ASSUME IInv, NEW w \in Writers, NEW a \in Acts, NEW size \in 1..MaxEvents, Begin(w, a, size)
  PROVE  IInv'
  <1> DEFINE u == [NoUnit EXCEPT !.pc = "holding", !.kind = "handler", !.act = a,
                                 !.size = size]
  <1>1. TypeOK /\ LockHeld /\ ChainsGrow
    BY DEF IInv
  <1>2. UnitType(u) /\ u.pc = "holding" /\ u.rows = Empty
    <2>1. \A i \in DOMAIN Empty : RowType(Empty[i])
      BY EmptyTable
    <2>2. /\ u = [f \in {"pc", "kind", "act", "size", "rows", "written", "id", "prev",
                          "attempts"} |-> u[f]]
          /\ u.pc = "holding" /\ u.kind = "handler" /\ u.act = a /\ u.size = size
          /\ u.rows = Empty /\ u.written = 0 /\ u.id = 0 /\ u.attempts = 0
      BY DEF NoUnit
    <2> HIDE DEF u
    <2> QED
      BY <2>1, <2>2, BoundsAssumption DEF UnitType, Kinds
  <1>3. Over(u.rows, log) = log /\ DOMAIN u.rows = {}
    BY <1>1, <1>2, OverNothing, EmptyTable DEF TypeOK
  <1>4. HasTail(log) /\ (Untouched => Chain(log)) /\ begun \subseteq Acts
    BY <1>1 DEF TypeOK, ChainsGrow
  <1>5. /\ lock = None /\ lock' = w /\ unit' = [unit EXCEPT ![w] = u]
        /\ begun' \subseteq Acts /\ UNCHANGED <<log, committed, givenUp, altered>>
    BY <1>4 DEF Begin
  <1> HIDE DEF u
  <1> QED
    BY <1>2, <1>3, <1>4, <1>5, HoldStep

(* audit.append under the lock extends the chain its unit sees.            *)
LEMMA AppendHeldInv ==
  ASSUME IInv, NEW w \in Writers, AppendHeld(w)
  PROVE  IInv'
  <1> DEFINE x == unit[w]
             id == LastId(ViewOf(w)) + 1
             row == Row(id, x.act, x.written + 1, TailHash(ViewOf(w)))
             rows == Insert(x.rows, id, row)
             u == [x EXCEPT !.rows = rows, !.written = x.written + 1]
  <1>1. TypeOK /\ LockHeld /\ ChainsGrow
    BY DEF IInv
  <1>2. UnitType(x) /\ x.pc = "holding" /\ x.written # x.size
    BY <1>1 DEF TypeOK, AppendHeld, AllWritten
  <1>3. x.act \in Acts /\ x.written + 1 \in 1..MaxEvents /\ x.written + 1 \in 0..x.size
    BY <1>2, BoundsAssumption DEF UnitType
  <1>4. RowType(row)
    BY <1>3, RowTyped
  <1>5. /\ lock = w /\ HasTail(ViewOf(w)) /\ (Untouched => Chain(ViewOf(w)))
        /\ DOMAIN x.rows \cap DOMAIN log = {}
    BY <1>1, <1>2 DEF LockHeld, ChainsGrow
  <1>6. ViewOf(w) = Over(x.rows, log)
    BY DEF ViewOf
  <1>7. /\ id \notin DOMAIN x.rows \cup DOMAIN log
        /\ HasTail(Over(rows, log))
        /\ Chain(ViewOf(w)) => Chain(Over(rows, log))
    <2>1. HasTail(Over(x.rows, log))
      BY <1>5, <1>6
    <2>2. id = LastId(Over(x.rows, log)) + 1
      BY <1>6
    <2>3. row = Row(id, x.act, x.written + 1, TailHash(Over(x.rows, log)))
      BY <1>6
    <2> HIDE DEF x, id, row
    <2> QED
      BY <1>6, <2>1, <2>2, <2>3, NextRow
  <1>8. DOMAIN rows = {id} \cup DOMAIN x.rows /\ \A i \in DOMAIN rows : RowType(rows[i])
    <2>1. \A i \in DOMAIN x.rows : RowType(x.rows[i])
      BY <1>2 DEF UnitType
    <2> HIDE DEF x, id, row
    <2>2. DOMAIN rows = {id} \cup DOMAIN x.rows
      BY DEF Insert
    <2>3. \A i \in DOMAIN rows : rows[i] = IF i = id THEN row ELSE x.rows[i]
      BY DEF Insert
    <2> QED
      BY <1>4, <2>1, <2>2, <2>3
  <1>9. u.pc = "holding" /\ u.rows = rows /\ UnitType(u)
    <2>1. /\ u = [f \in {"pc", "kind", "act", "size", "rows", "written", "id", "prev",
                          "attempts"} |-> u[f]]
          /\ u.pc = x.pc /\ u.kind = x.kind /\ u.act = x.act /\ u.size = x.size
          /\ u.rows = rows /\ u.written = x.written + 1 /\ u.id = x.id
          /\ u.attempts = x.attempts
      <3> HIDE DEF rows, x
      <3> QED
        BY <1>2 DEF UnitType
    <2>2. x.written + 1 \in 0..x.size /\ \A i \in DOMAIN rows : RowType(rows[i])
      BY <1>3, <1>8
    <2> HIDE DEF u, rows, x
    <2> QED
      BY <1>2, <2>1, <2>2 DEF UnitType
  <1>10. /\ unit' = [unit EXCEPT ![w] = u] /\ lock' = w
         /\ UNCHANGED <<log, begun, committed, givenUp, altered>>
    <2>1. unit' = [unit EXCEPT ![w] = u]
      BY DEF AppendHeld
    <2>2. lock' = w /\ UNCHANGED <<log, begun, committed, givenUp, altered>>
      BY <1>5 DEF AppendHeld
    <2> HIDE DEF u
    <2> QED
      BY <2>1, <2>2
  <1>11. begun' \subseteq Acts /\ DOMAIN u.rows \cap DOMAIN log = {}
    BY <1>1, <1>5, <1>7, <1>8, <1>9, <1>10 DEF TypeOK
  <1> HIDE DEF u, rows
  <1> QED
    BY <1>5, <1>7, <1>9, <1>10, <1>11, HoldStep

(* The commit makes the holder's chain the log.                            *)
LEMMA CommitInv ==
  ASSUME IInv, NEW w \in Writers, Commit(w)
  PROVE  IInv'
  <1>1. TypeOK
    BY DEF IInv
  <1>2. unit[w].act \in Acts
    BY <1>1 DEF TypeOK, UnitType, Commit
  <1>3. committed' \subseteq Acts
    BY <1>1, <1>2 DEF TypeOK, Commit
  <1>4. /\ unit[w].pc = "holding" /\ lock' = None /\ unit' = [unit EXCEPT ![w] = NoUnit]
        /\ log' \in {log, ViewOf(w)} /\ UNCHANGED <<begun, givenUp, altered>>
    BY DEF Commit
  <1> QED
    BY <1>3, <1>4, ReleaseStep

(* A rollback leaves the log the chain it was; a unit that has no row yet  *)
(* has nothing to take back.                                               *)
LEMMA RollBackInv ==
  ASSUME IInv, NEW w \in Writers, RollBack(w)
  PROVE  IInv'
  <1>1. TypeOK /\ LockHeld
    BY DEF IInv
  <1>2. committed' \subseteq Acts
    BY <1>1 DEF TypeOK, RollBack
  <1>3. /\ unit' = [unit EXCEPT ![w] = NoUnit]
        /\ UNCHANGED <<log, begun, committed, givenUp, altered>>
    BY DEF RollBack
  <1>4. CASE unit[w].pc = "holding"
    <2>1. lock' = None
      BY <1>1, <1>4 DEF RollBack, LockHeld
    <2> QED
      BY <1>2, <1>3, <1>4, <2>1, ReleaseStep
  <1>5. CASE unit[w].pc # "holding"
    <2>1. UNCHANGED lock
      BY <1>1, <1>5 DEF RollBack, LockHeld
    <2>2. begun' \subseteq Acts /\ givenUp' \subseteq {"attempts", "conflict"}
      BY <1>1, <1>3 DEF TypeOK
    <2> QED
      BY <1>3, <1>5, <2>1, <2>2, NoUnitType, QuietStep
  <1> QED
    BY <1>4, <1>5

(* A refusal or a start-up begins without a row and without the lock.      *)
LEMMA BeginBareInv ==
  ASSUME IInv, NEW w \in Writers, NEW a \in Acts, NEW size \in 1..MaxEvents,
         NEW kind \in {"refusal", "startup"}, BeginBare(w, kind, a, size)
  PROVE  IInv'
  <1> DEFINE u == [NoUnit EXCEPT !.pc = "reading", !.kind = kind, !.act = a, !.size = size]
  <1>1. /\ u = [f \in {"pc", "kind", "act", "size", "rows", "written", "id", "prev",
                        "attempts"} |-> u[f]]
        /\ u.pc = "reading" /\ u.kind = kind /\ u.act = a /\ u.size = size
        /\ u.rows = Empty /\ u.written = 0 /\ u.id = 0 /\ u.attempts = 0
    BY DEF NoUnit
  <1>2. /\ unit[w].pc = "idle" /\ unit' = [unit EXCEPT ![w] = u] /\ begun' = begun \cup {a}
        /\ UNCHANGED <<log, lock, committed, givenUp, altered>>
    BY DEF BeginBare
  <1> HIDE DEF u
  <1>3. \A i \in DOMAIN Empty : RowType(Empty[i])
    BY EmptyTable
  <1>4. UnitType(u)
    BY <1>1, <1>3, BoundsAssumption DEF UnitType, Kinds
  <1>5. begun' \subseteq Acts /\ givenUp' \subseteq {"attempts", "conflict"}
    BY <1>2 DEF IInv, TypeOK
  <1> QED
    BY <1>1, <1>2, <1>4, <1>5, QuietStep

(* What it reads is the tail of the chain at that moment.                  *)
LEMMA ReadTailInv ==
  ASSUME IInv, NEW w \in Writers, ReadTail(w)
  PROVE  IInv'
  <1> DEFINE x == unit[w]
             u == [x EXCEPT !.pc = "inserting", !.id = LastId(log) + 1, !.prev = TailHash(log)]
  <1>1. TypeOK /\ LockHeld /\ ChainsGrow
    BY DEF IInv
  <1>2. UnitType(x) /\ x.pc = "reading" /\ x.rows = Empty
    BY <1>1 DEF TypeOK, LockHeld, ReadTail
  <1>3. LastId(log) \in Nat
    BY <1>1 DEF TypeOK, HasTail
  <1>4. /\ unit' = [unit EXCEPT ![w] = u]
        /\ UNCHANGED <<log, lock, begun, committed, givenUp, altered>>
    BY DEF ReadTail
  <1>5. /\ u = [f \in {"pc", "kind", "act", "size", "rows", "written", "id", "prev",
                        "attempts"} |-> u[f]]
        /\ u.pc = "inserting" /\ u.kind = x.kind /\ u.act = x.act /\ u.size = x.size
        /\ u.rows = x.rows /\ u.written = x.written /\ u.id = LastId(log) + 1
        /\ u.prev = TailHash(log) /\ u.attempts = x.attempts
    <2> HIDE DEF x
    <2> QED
      BY <1>2 DEF UnitType
  <1> HIDE DEF u
  <1>6. UnitType(u)
    <2> HIDE DEF x
    <2> QED
      BY <1>2, <1>3, <1>5 DEF UnitType
  <1>t. LastId(log) = 0 <=> DOMAIN log = {}
    <2>1. HasTail(log)
      BY <1>1 DEF TypeOK
    <2>2. CASE DOMAIN log = {}
      BY <2>2 DEF LastId
    <2>3. CASE DOMAIN log # {}
      <3>1. LastId(log) \in DOMAIN log /\ DOMAIN log \subseteq 1..LastId(log)
        BY <2>1, <2>3, TailIsLast DEF HasTail
      <3> QED
        BY <1>3, <2>3, <3>1
    <2> QED
      BY <2>2, <2>3
  <1>7. u.id - 1 \in {0} \cup DOMAIN log
    <2>1. HasTail(log) /\ u.id - 1 = LastId(log)
      BY <1>1, <1>3, <1>5 DEF TypeOK
    <2>2. DOMAIN log # {} => LastId(log) \in DOMAIN log
      BY <2>1, TailIsLast
    <2> QED
      BY <1>t, <2>1, <2>2
  <1>8. u.prev = IF u.id = 1 THEN Genesis ELSE log[u.id - 1].hash
    <2>1. u.id - 1 = LastId(log) /\ (u.id = 1 <=> LastId(log) = 0)
      BY <1>3, <1>5
    <2> QED
      BY <1>5, <1>t, <2>1 DEF TailHash
  <1>9. begun' \subseteq Acts /\ givenUp' \subseteq {"attempts", "conflict"}
    BY <1>1, <1>4 DEF TypeOK
  <1>10. u.pc # "holding" /\ unit[w].pc # "holding" /\ u.rows = Empty
    BY <1>2, <1>5
  <1> HIDE DEF x
  <1> QED
    BY <1>4, <1>6, <1>7, <1>8, <1>9, <1>10, QuietStep

(* Giving up leaves nothing behind.                                        *)
LEMMA GiveUpInv ==
  ASSUME IInv, NEW w \in Writers, NEW why \in {"attempts", "conflict"},
         unit[w].pc # "holding", GiveUp(w, why)
  PROVE  IInv'
  <1>1. /\ unit' = [unit EXCEPT ![w] = NoUnit]
        /\ UNCHANGED <<log, lock, begun, committed, altered>>
    BY DEF GiveUp
  <1>2. begun' \subseteq Acts /\ givenUp' \subseteq {"attempts", "conflict"}
    BY DEF IInv, TypeOK, GiveUp
  <1> QED
    BY <1>1, <1>2, NoUnitType, QuietStep

(* Trying again, or giving up, writes nothing.                             *)
LEMMA RetryInv ==
  ASSUME IInv, NEW w \in Writers, unit[w].pc = "inserting", Retry(w)
  PROVE  IInv'
  <1>1. CASE unit[w].kind = "startup" /\ unit[w].attempts + 1 < MaxAttempts
    <2> DEFINE x == unit[w]
               u == [x EXCEPT !.pc = "reading", !.attempts = x.attempts + 1]
    <2>1. TypeOK /\ LockHeld
      BY DEF IInv
    <2>2. UnitType(x) /\ x.rows = Empty
      BY <2>1 DEF TypeOK, LockHeld
    <2>3. /\ unit' = [unit EXCEPT ![w] = u]
          /\ UNCHANGED <<log, lock, begun, committed, givenUp, altered>>
      BY <1>1 DEF Retry
    <2>4. /\ u = [f \in {"pc", "kind", "act", "size", "rows", "written", "id", "prev",
                          "attempts"} |-> u[f]]
          /\ u.pc = "reading" /\ u.kind = x.kind /\ u.act = x.act /\ u.size = x.size
          /\ u.rows = x.rows /\ u.written = x.written /\ u.id = x.id
          /\ u.attempts = x.attempts + 1
      <3> HIDE DEF x
      <3> QED
        BY <2>2 DEF UnitType
    <2>5. x.pc = "inserting" /\ x.attempts + 1 < MaxAttempts
      BY <1>1
    <2> HIDE DEF u, x
    <2>6. UnitType(u)
      BY <2>2, <2>4, <2>5, BoundsAssumption DEF UnitType
    <2>7. begun' \subseteq Acts /\ givenUp' \subseteq {"attempts", "conflict"}
      BY <2>1, <2>3 DEF TypeOK
    <2>8. u.pc # "inserting" /\ u.pc # "holding" /\ u.rows = Empty
      BY <2>2, <2>4
    <2> QED
      BY <2>3, <2>6, <2>7, <2>8, QuietStep
  <1>2. CASE ~(unit[w].kind = "startup" /\ unit[w].attempts + 1 < MaxAttempts)
    BY <1>2, GiveUpInv DEF Retry
  <1> QED
    BY <1>1, <1>2

(* The first row of a unit that read the tail without the lock is under    *)
(* the next id and linked to the tail still: else a constraint refuses it. *)
LEMMA LinkedToTail ==
  ASSUME NEW l, Chain(l), NEW id \in Nat \ {0}, NEW a, NEW prev,
         id - 1 \in {0} \cup DOMAIN l,
         prev = IF id = 1 THEN Genesis ELSE l[id - 1].hash,
         InsertAccepted(l, id, Row(id, a, 1, prev))
  PROVE  id = LastId(l) + 1 /\ prev = TailHash(l)
  <1>1. LastId(l) \in Nat /\ DOMAIN l = 1..LastId(l)
    BY DEF Chain
  <1>2. id \notin DOMAIN l
    BY DEF InsertAccepted
  <1>3. id = LastId(l) + 1
    BY <1>1, <1>2
  <1>4. CASE LastId(l) = 0
    BY <1>1, <1>3, <1>4 DEF TailHash
  <1>5. CASE LastId(l) # 0
    <2>1. id # 1 /\ id - 1 = LastId(l) /\ DOMAIN l # {}
      BY <1>1, <1>3, <1>5
    <2> QED
      BY <1>3, <2>1 DEF TailHash
  <1> QED
    BY <1>3, <1>4, <1>5

(* The first INSERT extends the chain, or the constraints refuse it.       *)
LEMMA InsertFirstInv ==
  ASSUME IInv, NEW w \in Writers, InsertFirst(w)
  PROVE  IInv'
  <1> DEFINE x == unit[w]
             row == Row(x.id, x.act, 1, x.prev)
             rows == Insert(Empty, x.id, row)
             u == [x EXCEPT !.pc = "holding", !.written = 1, !.rows = rows]
  <1>1. TypeOK /\ LockHeld /\ ChainsGrow
    BY DEF IInv
  <1>2. UnitType(x) /\ x.pc = "inserting"
    BY <1>1 DEF TypeOK, InsertFirst
  <1>3. CASE ~InsertAccepted(log, x.id, row)
    <2>1. Retry(w) \/ GiveUp(w, "conflict")
      BY <1>3 DEF InsertFirst
    <2>2. unit[w].pc = "inserting" /\ unit[w].pc # "holding"
      BY <1>2
    <2> QED
      BY <2>1, <2>2, RetryInv, GiveUpInv
  <1>4. CASE InsertAccepted(log, x.id, row)
    <2>1. /\ lock = None /\ lock' = w /\ unit' = [unit EXCEPT ![w] = u]
          /\ UNCHANGED <<log, begun, committed, givenUp, altered>>
      BY <1>4 DEF InsertFirst
    <2>2. x.id \in Nat \ {0} /\ x.act \in Acts /\ x.size \in 1..MaxEvents
      BY <1>2, BoundsAssumption DEF UnitType
    <2>3. RowType(row)
      BY <2>2, BoundsAssumption, RowTyped
    <2>4. DOMAIN rows = {x.id} /\ rows[x.id] = row
      <3> HIDE DEF x, row
      <3> QED
        BY EmptyTable DEF Insert
    <2>5. /\ u = [f \in {"pc", "kind", "act", "size", "rows", "written", "id", "prev",
                          "attempts"} |-> u[f]]
          /\ u.pc = "holding" /\ u.kind = x.kind /\ u.act = x.act /\ u.size = x.size
          /\ u.rows = rows /\ u.written = 1 /\ u.id = x.id /\ u.attempts = x.attempts
      <3> HIDE DEF x, rows
      <3> QED
        BY <1>2 DEF UnitType
    <2>6. UnitType(u)
      <3>1. \A i \in DOMAIN rows : RowType(rows[i])
        BY <2>3, <2>4
      <3> HIDE DEF u, x, rows, row
      <3> QED
        BY <1>2, <2>2, <2>5, <3>1 DEF UnitType
    <2>7. DOMAIN u.rows \cap DOMAIN log = {}
      <3>1. x.id \notin DOMAIN log
        BY <1>4 DEF InsertAccepted
      <3> HIDE DEF u, x, rows, row
      <3> QED
        BY <2>4, <2>5, <3>1
    <2>8. HasTail(log) /\ LastId(log) \in Nat /\ log = [i \in DOMAIN log |-> log[i]]
      BY <1>1 DEF TypeOK, HasTail
    <2>9. Over(Empty, log) = log
      BY <2>8, OverNothing
    <2>10. HasTail(Over(u.rows, log))
      <3>1. DOMAIN Over(u.rows, log) = {x.id} \cup DOMAIN log
        <4> HIDE DEF u, x, rows, row
        <4> QED
          BY <2>4, <2>5 DEF Over
      <3>2. LastId(log) + x.id \in Nat
        BY <2>2, <2>8
      <3>3. DOMAIN Over(u.rows, log) \subseteq 1..(LastId(log) + x.id)
        <4> HIDE DEF u, x, rows, row
        <4> QED
          BY <2>2, <2>8, <3>1 DEF HasTail
      <3> HIDE DEF u, x, rows, row
      <3> QED
        BY <3>2, <3>3, BoundedHasTail
    <2>11. ASSUME Untouched PROVE Chain(Over(u.rows, log))
      <3>1. /\ Chain(log)
            /\ x.id - 1 \in {0} \cup DOMAIN log
            /\ x.prev = IF x.id = 1 THEN Genesis ELSE log[x.id - 1].hash
        BY <1>1, <1>2, <2>11 DEF ChainsGrow
      <3>2. InsertAccepted(log, x.id, Row(x.id, x.act, 1, x.prev))
        BY <1>4
      <3>3. x.id = LastId(log) + 1 /\ x.prev = TailHash(log)
        <4> HIDE DEF x
        <4> QED
          BY <2>2, <3>1, <3>2, LinkedToTail
      <3>4. row = Row(x.id, x.act, 1, TailHash(Over(Empty, log)))
        BY <2>9, <3>3
      <3> HIDE DEF u, x, row
      <3> QED
        BY <2>5, <2>8, <2>9, <3>1, <3>3, <3>4, NextRow
    <2>12. begun' \subseteq Acts /\ u.pc = "holding" /\ lock \in {None, w}
      BY <1>1, <2>1 DEF TypeOK
    <2> HIDE DEF u, x, rows, row
    <2> QED
      BY <2>1, <2>6, <2>7, <2>10, <2>11, <2>12, HoldStep
  <1> QED
    BY <1>3, <1>4

(* A busy timeout writes nothing.                                          *)
LEMMA BusyInv ==
  ASSUME IInv, NEW w \in Writers, Busy(w)
  PROVE  IInv'
  BY RetryInv DEF Busy

(* What is done behind the code's back leaves a table, if not a chain.     *)
LEMMA AlterInv ==
  ASSUME IInv, Alter
  PROVE  IInv'
  <1>1. TypeOK /\ LockHeld
    BY DEF IInv
  <1>2. lock = None /\ UNCHANGED <<lock, unit, begun, committed, givenUp>>
    BY DEF Alter
  <1>3. \A w \in Writers : unit[w].pc # "holding" /\ unit[w].rows = Empty
    BY <1>1, <1>2, NoneAssumption DEF LockHeld
  <1>4. HasTail(log) /\ \A i \in DOMAIN log : RowType(log[i])
    BY <1>1 DEF TypeOK
  <1>5. /\ ~Untouched'
        /\ log' = [i \in DOMAIN log' |-> log'[i]]
        /\ DOMAIN log' \subseteq DOMAIN log
        /\ \A i \in DOMAIN log' : RowType(log'[i])
    <2>1. PICK i \in DOMAIN log : \/ \E a \in Acts : EditRow(i, a)
                                  \/ DeleteRow(i)
                                  \/ \E j \in DOMAIN log : SwapRows(i, j)
      BY DEF Alter
    <2>2. CASE \E a \in Acts : EditRow(i, a)
      <3>1. PICK a \in Acts : EditRow(i, a)
        BY <2>2
      <3>2. log' = [log EXCEPT ![i] = [log[i] EXCEPT !.act = a]]
        BY <3>1 DEF EditRow
      <3>3. RowType([log[i] EXCEPT !.act = a])
        BY <1>4 DEF RowType
      <3>4. \A k \in DOMAIN log : log'[k] = IF k = i THEN [log[i] EXCEPT !.act = a] ELSE log[k]
        BY <3>2
      <3>5. DOMAIN log' = DOMAIN log /\ log' = [k \in DOMAIN log' |-> log'[k]]
        BY <3>2
      <3>6. ~Untouched'
        BY <3>1 DEF EditRow, Untouched
      <3> QED
        BY <1>4, <3>3, <3>4, <3>5, <3>6
    <2>3. CASE DeleteRow(i)
      <3>1. ~Untouched'
        BY <2>3 DEF DeleteRow, Untouched
      <3>2. log' = [j \in DOMAIN log \ {i} |-> log[j]]
        BY <2>3 DEF DeleteRow
      <3> QED
        BY <1>4, <3>1, <3>2
    <2>4. CASE \E j \in DOMAIN log : SwapRows(i, j)
      <3>1. PICK j \in DOMAIN log : SwapRows(i, j)
        BY <2>4
      <3>2. ~Untouched'
        BY <3>1 DEF SwapRows, Untouched
      <3>3. log' = [log EXCEPT ![i] = log[j], ![j] = log[i]]
        BY <3>1 DEF SwapRows
      <3>4. \A k \in DOMAIN log : log'[k] \in {log[k], log[i], log[j]}
        BY <3>3
      <3>5. DOMAIN log' = DOMAIN log /\ log' = [k \in DOMAIN log' |-> log'[k]]
        BY <3>3
      <3> QED
        BY <1>4, <3>2, <3>4, <3>5
    <2> QED
      BY <2>1, <2>2, <2>3, <2>4
  <1>6. HasTail(log')
    <2>1. LastId(log) \in Nat /\ DOMAIN log' \subseteq 1..LastId(log)
      BY <1>4, <1>5 DEF HasTail
    <2> QED
      BY <2>1, BoundedHasTail
  <1>7. TypeOK'
    BY <1>1, <1>2, <1>5, <1>6 DEF TypeOK, HasTail, LastId
  <1>8. \A w \in Writers : ViewOf(w)' = log'
    BY <1>2, <1>3, <1>5, OverNothing DEF ViewOf
  <1>9. LockHeld'
    <2> SUFFICES ASSUME NEW v \in Writers
                 PROVE  /\ unit'[v].pc = "holding" <=> lock' = v
                        /\ unit'[v].pc # "holding" => unit'[v].rows = Empty
                        /\ DOMAIN unit'[v].rows \cap DOMAIN log' = {}
                        /\ HasTail(ViewOf(v)')
      BY DEF LockHeld, HasTail, LastId
    <2>1. lock' # v
      BY <1>2, NoneAssumption
    <2> QED
      BY <1>2, <1>3, <1>6, <1>8, <2>1, EmptyTable
  <1> QED
    BY <1>5, <1>7, <1>9 DEF IInv, ChainsGrow

(* A step that changes no variable.                                        *)
LEMMA StutterInv ==
  ASSUME IInv, UNCHANGED vars
  PROVE  IInv'
  <1>1. TypeOK /\ LockHeld /\ ChainsGrow
    BY DEF IInv
  <1>2. \A w \in Writers : ViewOf(w)' = ViewOf(w)
    BY DEF vars, ViewOf
  <1>3. TypeOK'
    BY <1>1 DEF vars, TypeOK
  <1>4. LockHeld'
    BY <1>1, <1>2 DEF vars, LockHeld
  <1>5. ChainsGrow'
    BY <1>1, <1>2 DEF vars, ChainsGrow, Untouched
  <1> QED
    BY <1>3, <1>4, <1>5 DEF IInv

(* Every step of a writer, and of what happens behind the code's back,     *)
(* keeps it.                                                               *)
LEMMA NextInv == IInv /\ [Next]_vars => IInv'
  <1> SUFFICES ASSUME IInv, [Next]_vars PROVE IInv'
    OBVIOUS
  <1>1. ASSUME NEW w \in Writers, UnitStep(w) PROVE IInv'
    <2>1. CASE \E a \in Acts \ begun, size \in 1..MaxEvents : Begin(w, a, size)
      BY <2>1, BeginInv
    <2>2. CASE \E a \in Acts \ begun, size \in 1..MaxEvents :
                 \E kind \in {"refusal", "startup"} : BeginBare(w, kind, a, size)
      BY <2>2, BeginBareInv
    <2>3. CASE AppendHeld(w)
      BY <2>3, AppendHeldInv
    <2>4. CASE Commit(w)
      BY <2>4, CommitInv
    <2>5. CASE RollBack(w)
      BY <2>5, RollBackInv
    <2>6. CASE ReadTail(w)
      BY <2>6, ReadTailInv
    <2>7. CASE InsertFirst(w)
      BY <2>7, InsertFirstInv
    <2>8. CASE Busy(w)
      BY <2>8, BusyInv
    <2> QED
      BY <1>1, <2>1, <2>2, <2>3, <2>4, <2>5, <2>6, <2>7, <2>8 DEF UnitStep
  <1>2. CASE Alter
    BY <1>2, AlterInv
  <1>3. CASE UNCHANGED vars
    BY <1>3, StutterInv
  <1> QED
    BY <1>1, <1>2, <1>3 DEF Next

-----------------------------------------------------------------------------
(* The inductive invariant: the table, who holds the lock with which rows, *)
(* and that with the holder's rows the log is a chain already.             *)
THEOREM Invariant == Spec => []IInv
  BY InitInv, NextInv, PTL DEF Spec

(* Every variable keeps its type.                                          *)
THEOREM TypeCorrect == Spec => []TypeOK
  <1>1. IInv => TypeOK
    BY DEF IInv
  <1> QED
    BY <1>1, Invariant, PTL

(* Nobody who only goes through audit.append and the table's constraints   *)
(* ever breaks the chain: verify_chain finds every row good.               *)
THEOREM ChainAlwaysIntact == Spec => []ChainIntact
  <1>1. IInv => ChainIntact
    BY DEF IInv, ChainsGrow, ChainIntact, Intact, BadRows, Chain
  <1> QED
    BY <1>1, Invariant, PTL

(* No step of the code changes or removes a committed row.                 *)
THEOREM NothingRewritten == Spec => AppendOnly
  <1> DEFINE Kept == \A i \in DOMAIN log : i \in DOMAIN log' /\ log'[i] = log[i]
  <1>1. ASSUME IInv, [Next]_vars, altered' = altered PROVE Kept
    <2>1. ASSUME NEW w \in Writers, UnitStep(w) PROVE Kept
      <3>1. log' = log \/ log' = ViewOf(w)
        BY <2>1 DEF UnitStep, Begin, BeginBare, AppendHeld, Commit, RollBack, ReadTail,
                    InsertFirst, Busy, Retry, GiveUp
      <3>2. DOMAIN unit[w].rows \cap DOMAIN log = {}
        BY <1>1 DEF IInv, LockHeld
      <3> QED
        BY <3>1, <3>2 DEF ViewOf, Over
    <2>2. CASE Alter
      <3>1. altered.kind = "none" /\ altered'.kind # "none"
        BY <2>2 DEF Alter, Untouched, EditRow, DeleteRow, SwapRows
      <3> QED
        BY <1>1, <3>1
    <2>3. CASE UNCHANGED vars
      BY <2>3 DEF vars
    <2> QED
      BY <1>1, <2>1, <2>2, <2>3 DEF Next
  <1>2. IInv /\ [Next]_vars => [altered' = altered => Kept]_vars
    BY <1>1
  <1> QED
    BY <1>2, Invariant, PTL DEF Spec, AppendOnly

-----------------------------------------------------------------------------
(* All of an act's events or none *)

(* A unit that moves on, has begun or has ended, while the log stays.      *)
LEMMA UnitMoves ==
  ASSUME IInv, EInv, NEW w \in Writers, NEW u,
         unit' = [unit EXCEPT ![w] = u], begun \subseteq begun',
         UNCHANGED <<log, committed, altered>>,
         u.pc # "idle" => \/ unit[w].pc # "idle" /\ u.act = unit[w].act
                          \/ u.act \in begun' \ begun,
         Untouched /\ u.pc = "holding" => EventsOnto(log, u)
  PROVE  EInv'
  <1>1. /\ ActsApart /\ EventsInHand /\ AllOrNothing
        /\ unit = [v \in Writers |-> unit[v]]
    BY DEF EInv, IInv, TypeOK
  <1>2. unit'[w] = u /\ \A v \in Writers \ {w} : unit'[v] = unit[v]
    BY <1>1
  <1>3. ActsApart'
    BY <1>1, <1>2 DEF ActsApart
  <1>4. EventsInHand'
    <2> SUFFICES ASSUME Untouched', NEW v \in Writers, unit'[v].pc = "holding"
                 PROVE  EventsOnto(log', unit'[v])
      BY DEF EventsInHand, EventsOnto, LastId
    <2>1. Untouched /\ log' = log
      BY DEF Untouched
    <2> QED
      BY <1>1, <1>2, <2>1 DEF EventsInHand
  <1>5. AllOrNothing'
    BY <1>1 DEF AllOrNothing, Untouched
  <1> QED
    BY <1>3, <1>4, <1>5 DEF EInv

(* One event more, under the next id.                                      *)
LEMMA AppendHeldEvents ==
  ASSUME IInv, EInv, NEW w \in Writers, AppendHeld(w)
  PROVE  EInv'
  <1> DEFINE x == unit[w]
             id == LastId(ViewOf(w)) + 1
             row == Row(id, x.act, x.written + 1, TailHash(ViewOf(w)))
             rows == Insert(x.rows, id, row)
             u == [x EXCEPT !.rows = rows, !.written = x.written + 1]
  <1>1. /\ unit' = [unit EXCEPT ![w] = u]
        /\ UNCHANGED <<log, begun, committed, altered>>
    BY DEF AppendHeld
  <1>2. UnitType(x) /\ x.pc = "holding"
    BY DEF AppendHeld, IInv, TypeOK
  <1>3. u.pc = x.pc /\ u.act = x.act /\ u.rows = rows /\ u.written = x.written + 1
    <2> HIDE DEF rows, x
    <2> QED
      BY <1>2 DEF UnitType
  <1>4. ASSUME Untouched PROVE EventsOnto(log, u)
    <2>1. Chain(log) /\ Chain(ViewOf(w)) /\ EventsOnto(log, x)
      BY <1>2, <1>4 DEF IInv, ChainsGrow, EInv, EventsInHand
    <2>2. LastId(log) \in Nat /\ DOMAIN log = 1..LastId(log) /\ x.written \in Nat
      BY <1>2, <2>1, BoundsAssumption DEF Chain, UnitType
    <2>3. DOMAIN ViewOf(w) = 1..(LastId(log) + x.written)
      BY <2>1, <2>2 DEF ViewOf, Over, EventsOnto
    <2>4. id = LastId(log) + x.written + 1
      BY <2>2, <2>3, LastIdIs
    <2>5. row.act = x.act /\ row.n = x.written + 1
      BY DEF Row
    <2> HIDE DEF id, row, x
    <2>6. /\ DOMAIN rows = {id} \cup DOMAIN x.rows
          /\ \A i \in DOMAIN rows : rows[i] = IF i = id THEN row ELSE x.rows[i]
      BY DEF Insert
    <2> HIDE DEF rows, u
    <2>7. DOMAIN rows = (LastId(log) + 1)..(LastId(log) + (x.written + 1))
      BY <2>1, <2>2, <2>4, <2>6 DEF EventsOnto
    <2>8. \A i \in DOMAIN rows : rows[i].act = x.act /\ rows[i].n = i - LastId(log)
      BY <2>1, <2>2, <2>4, <2>5, <2>6 DEF EventsOnto
    <2> QED
      BY <1>3, <2>7, <2>8 DEF EventsOnto
  <1> HIDE DEF u
  <1>5. x.pc # "idle"
    BY <1>2
  <1> HIDE DEF rows
  <1> QED
    BY <1>1, <1>3, <1>4, <1>5, UnitMoves

(* The first event of a unit that read the tail without the lock.          *)
LEMMA InsertFirstEvents ==
  ASSUME IInv, EInv, NEW w \in Writers, NEW u,
         unit[w].pc = "inserting",
         InsertAccepted(log, unit[w].id, Row(unit[w].id, unit[w].act, 1, unit[w].prev)),
         unit' = [unit EXCEPT ![w] = u], UNCHANGED <<log, begun, committed, altered>>,
         u.act = unit[w].act, u.written = 1,
         u.rows = Insert(Empty, unit[w].id, Row(unit[w].id, unit[w].act, 1, unit[w].prev))
  PROVE  EInv'
  <1> DEFINE x == unit[w]
             row == Row(x.id, x.act, 1, x.prev)
  <1>1. UnitType(x)
    BY DEF IInv, TypeOK
  <1>2. x.id \in Nat \ {0}
    BY <1>1 DEF UnitType
  <1>3. DOMAIN u.rows = {x.id} /\ u.rows[x.id] = row
    BY EmptyTable DEF Insert
  <1>4. row.act = x.act /\ row.n = 1
    BY DEF Row
  <1>5. ASSUME Untouched PROVE EventsOnto(log, u)
    <2>1. /\ Chain(log) /\ x.id - 1 \in {0} \cup DOMAIN log
          /\ x.prev = IF x.id = 1 THEN Genesis ELSE log[x.id - 1].hash
      BY <1>5 DEF IInv, ChainsGrow
    <2>2. InsertAccepted(log, x.id, Row(x.id, x.act, 1, x.prev))
      OBVIOUS
    <2>3. x.id = LastId(log) + 1 /\ LastId(log) \in Nat
      <3> HIDE DEF x
      <3> QED
        BY <1>2, <2>1, <2>2, LinkedToTail DEF Chain
    <2>4. u.act = x.act
      OBVIOUS
    <2> HIDE DEF row, x
    <2> QED
      BY <1>2, <1>3, <1>4, <2>3, <2>4 DEF EventsOnto
  <1>6. x.pc # "idle"
    OBVIOUS
  <1> QED
    BY <1>5, <1>6, UnitMoves

(* A retry or a unit that gives up writes nothing.                         *)
LEMMA RetryEvents ==
  ASSUME IInv, EInv, NEW w \in Writers, unit[w].pc = "inserting",
         Retry(w) \/ GiveUp(w, "conflict")
  PROVE  EInv'
  <1>1. CASE unit' = [unit EXCEPT ![w] = NoUnit]
    <2>1. UNCHANGED <<log, begun, committed, altered>>
      BY DEF Retry, GiveUp
    <2> QED
      BY <1>1, <2>1, NoUnitType, UnitMoves
  <1>2. CASE unit' = [unit EXCEPT ![w] = [unit[w] EXCEPT !.pc = "reading",
                                                         !.attempts = unit[w].attempts + 1]]
    <2> DEFINE x == unit[w]
               u == [x EXCEPT !.pc = "reading", !.attempts = x.attempts + 1]
    <2>1. UNCHANGED <<log, begun, committed, altered>>
      BY DEF Retry, GiveUp
    <2>2. UnitType(x)
      BY DEF IInv, TypeOK
    <2>3. u.pc = "reading" /\ u.act = x.act
      <3> HIDE DEF x
      <3> QED
        BY <2>2 DEF UnitType
    <2>4. unit' = [unit EXCEPT ![w] = u] /\ x.pc # "idle"
      BY <1>2
    <2> HIDE DEF u
    <2> QED
      BY <2>1, <2>3, <2>4, UnitMoves
  <1> QED
    BY <1>1, <1>2 DEF Retry, GiveUp

(* The commit takes the act and all its events in; the act had none before.*)
LEMMA CommitEvents ==
  ASSUME IInv, EInv, NEW w \in Writers, Commit(w)
  PROVE  EInv'
  <1> DEFINE x == unit[w]
             last == LastId(log)
  <1>1. /\ ActsApart /\ EventsInHand /\ AllOrNothing /\ LockHeld
        /\ unit = [v \in Writers |-> unit[v]] /\ UnitType(x)
    BY DEF EInv, IInv, TypeOK
  <1>2. /\ x.pc = "holding" /\ x.written = x.size /\ log' = ViewOf(w)
        /\ committed' = committed \cup {x.act}
        /\ unit' = [unit EXCEPT ![w] = NoUnit] /\ UNCHANGED <<begun, altered>>
    BY DEF Commit, AllWritten
  <1>3. unit'[w] = NoUnit /\ \A v \in Writers \ {w} : unit'[v] = unit[v]
    BY <1>1, <1>2
  <1>4. ActsApart'
    <2>1. x.act \in begun \ committed
      BY <1>1, <1>2 DEF ActsApart
    <2>2. \A v \in Writers \ {w} : unit[v].pc # "idle" => unit[v].act # x.act
      BY <1>1, <1>2 DEF ActsApart
    <2> QED
      BY <1>1, <1>2, <1>3, <2>1, <2>2, NoUnitType DEF ActsApart
  <1>5. EventsInHand'
    <2>1. \A v \in Writers : unit'[v].pc # "holding"
      BY <1>1, <1>2, <1>3, NoUnitType DEF LockHeld
    <2> QED
      BY <2>1 DEF EventsInHand
  <1>6. ASSUME Untouched' PROVE AllOrNothing'
    <2>1. Untouched
      BY <1>2, <1>6 DEF Untouched
    <2>2. Chain(log) /\ EventsOnto(log, x)
      BY <1>1, <1>2, <2>1 DEF IInv, ChainsGrow, EventsInHand
    <2>3. last \in Nat /\ DOMAIN log = 1..last /\ x.written \in Nat \ {0}
      BY <1>1, <1>2, <2>2, BoundsAssumption DEF Chain, UnitType
    <2>4. x.act \notin committed
      BY <1>1, <1>2 DEF ActsApart
    <2>5. /\ \A i \in DOMAIN log : log[i].act \in committed
          /\ \A a \in committed : \E i \in DOMAIN log : log[i].act = a
          /\ \A i, j \in DOMAIN log : log[i].act = log[j].act /\ log[i].n = log[j].n => i = j
          /\ \A i \in DOMAIN log : log[i].n # 1 =>
                 i - 1 \in DOMAIN log /\ log[i - 1].act = log[i].act
                                      /\ log[i - 1].n = log[i].n - 1
      BY <1>1, <2>1 DEF AllOrNothing
    <2>6. DOMAIN x.rows = (last + 1)..(last + x.written)
          /\ \A i \in DOMAIN x.rows : x.rows[i].act = x.act /\ x.rows[i].n = i - last
      BY <2>2 DEF EventsOnto
    <2>7. /\ DOMAIN log' = DOMAIN x.rows \cup DOMAIN log
          /\ \A i \in DOMAIN x.rows : log'[i] = x.rows[i]
          /\ \A i \in DOMAIN log : log'[i] = log[i]
      BY <1>2, <2>3, <2>6 DEF ViewOf, Over
    <2> HIDE DEF x, last
    <2>8. \A i \in DOMAIN log' : log'[i].act \in committed'
      BY <1>2, <2>5, <2>6, <2>7
    <2>9. \A a \in committed' : \E i \in DOMAIN log' : log'[i].act = a
      <3>1. last + 1 \in DOMAIN x.rows
        BY <2>3, <2>6
      <3> QED
        BY <1>2, <2>5, <2>6, <2>7, <3>1
    <2>10. \A i, j \in DOMAIN log' :
              log'[i].act = log'[j].act /\ log'[i].n = log'[j].n => i = j
      <3> SUFFICES ASSUME NEW i \in DOMAIN log', NEW j \in DOMAIN log',
                          log'[i].act = log'[j].act, log'[i].n = log'[j].n
                   PROVE  i = j
        OBVIOUS
      <3>1. CASE i \in DOMAIN log /\ j \in DOMAIN log
        BY <2>5, <2>7, <3>1
      <3>2. CASE i \in DOMAIN x.rows /\ j \in DOMAIN x.rows
        BY <2>3, <2>6, <2>7, <3>2
      <3>3. CASE i \in DOMAIN log /\ j \in DOMAIN x.rows
        BY <2>4, <2>5, <2>6, <2>7, <3>3
      <3>4. CASE i \in DOMAIN x.rows /\ j \in DOMAIN log
        BY <2>4, <2>5, <2>6, <2>7, <3>4
      <3> QED
        BY <2>7, <3>1, <3>2, <3>3, <3>4
    <2>11. \A i \in DOMAIN log' : log'[i].n # 1 =>
              i - 1 \in DOMAIN log' /\ log'[i - 1].act = log'[i].act
                                    /\ log'[i - 1].n = log'[i].n - 1
      <3> SUFFICES ASSUME NEW i \in DOMAIN log', log'[i].n # 1
                   PROVE  i - 1 \in DOMAIN log' /\ log'[i - 1].act = log'[i].act
                                                /\ log'[i - 1].n = log'[i].n - 1
        OBVIOUS
      <3>1. CASE i \in DOMAIN log
        BY <2>5, <2>7, <3>1
      <3>2. CASE i \in DOMAIN x.rows
        <4>1. log'[i].act = x.act /\ log'[i].n = i - last
          BY <2>6, <2>7, <3>2
        <4>2. i - 1 \in DOMAIN x.rows
          BY <2>3, <2>6, <3>2, <4>1
        <4>3. log'[i - 1].act = x.act /\ log'[i - 1].n = (i - 1) - last
          BY <2>6, <2>7, <4>2
        <4>4. (i - 1) - last = (i - last) - 1
          BY <2>3, <2>6, <3>2
        <4> QED
          BY <2>7, <4>1, <4>2, <4>3, <4>4
      <3> QED
        BY <2>7, <3>1, <3>2
    <2> QED
      BY <2>8, <2>9, <2>10, <2>11 DEF AllOrNothing
  <1>7. AllOrNothing'
    BY <1>6 DEF AllOrNothing
  <1> QED
    BY <1>4, <1>5, <1>7 DEF EInv

(* Every step keeps it; after an alteration by hand only the acts matter.  *)
LEMMA NextEvents == IInv /\ EInv /\ [Next]_vars => EInv'
  <1> SUFFICES ASSUME IInv, EInv, [Next]_vars PROVE EInv'
    OBVIOUS
  <1>1. \A v \in Writers : UnitType(unit[v])
    BY DEF IInv, TypeOK
  <1>2. ASSUME NEW w \in Writers, NEW a \in Acts \ begun, NEW size \in 1..MaxEvents,
               Begin(w, a, size)
        PROVE  EInv'
    <2> DEFINE u == [NoUnit EXCEPT !.pc = "holding", !.kind = "handler", !.act = a,
                                   !.size = size]
    <2>1. u.act = a /\ u.rows = Empty /\ u.written = 0 /\ u.pc = "holding"
      BY DEF NoUnit
    <2>2. /\ unit' = [unit EXCEPT ![w] = u] /\ begun' = begun \cup {a}
          /\ UNCHANGED <<log, committed, altered>>
      BY <1>2 DEF Begin
    <2>3. ASSUME Untouched PROVE EventsOnto(log, u)
      <3>1. LastId(log) \in Nat
        BY <2>3 DEF IInv, ChainsGrow, Chain
      <3> HIDE DEF u
      <3> QED
        BY <2>1, <3>1, EmptyTable DEF EventsOnto
    <2> HIDE DEF u
    <2> QED
      BY <2>1, <2>2, <2>3, UnitMoves
  <1>3. ASSUME NEW w \in Writers, NEW a \in Acts \ begun, NEW size \in 1..MaxEvents,
               NEW kind \in {"refusal", "startup"}, BeginBare(w, kind, a, size)
        PROVE  EInv'
    <2> DEFINE u == [NoUnit EXCEPT !.pc = "reading", !.kind = kind, !.act = a, !.size = size]
    <2>1. u.act = a /\ u.pc = "reading"
      BY DEF NoUnit
    <2>2. /\ unit' = [unit EXCEPT ![w] = u] /\ begun' = begun \cup {a}
          /\ UNCHANGED <<log, committed, altered>>
      BY <1>3 DEF BeginBare
    <2> HIDE DEF u
    <2> QED
      BY <2>1, <2>2, UnitMoves
  <1>4. ASSUME NEW w \in Writers, RollBack(w) PROVE EInv'
    <2>1. unit' = [unit EXCEPT ![w] = NoUnit] /\ UNCHANGED <<log, begun, committed, altered>>
      BY <1>4 DEF RollBack
    <2> QED
      BY <2>1, NoUnitType, UnitMoves
  <1>5. ASSUME NEW w \in Writers, ReadTail(w) PROVE EInv'
    <2> DEFINE x == unit[w]
               u == [x EXCEPT !.pc = "inserting", !.id = LastId(log) + 1, !.prev = TailHash(log)]
    <2>1. /\ x.pc = "reading" /\ unit' = [unit EXCEPT ![w] = u]
          /\ UNCHANGED <<log, begun, committed, altered>>
      BY <1>5 DEF ReadTail
    <2>2. u.pc = "inserting" /\ u.act = x.act
      <3>1. UnitType(x)
        BY <1>1
      <3> HIDE DEF x
      <3> QED
        BY <3>1 DEF UnitType
    <2> HIDE DEF u
    <2> QED
      BY <2>1, <2>2, UnitMoves
  <1>6. ASSUME NEW w \in Writers, InsertFirst(w) PROVE EInv'
    <2> DEFINE x == unit[w]
               row == Row(x.id, x.act, 1, x.prev)
               u == [x EXCEPT !.pc = "holding", !.written = 1, !.rows = Insert(Empty, x.id, row)]
    <2>1. x.pc = "inserting" /\ UnitType(x)
      BY <1>1, <1>6 DEF InsertFirst
    <2>2. CASE InsertAccepted(log, x.id, row)
      <3>1. unit' = [unit EXCEPT ![w] = u] /\ UNCHANGED <<log, begun, committed, altered>>
        BY <1>6, <2>2 DEF InsertFirst
      <3>2. u.act = x.act /\ u.written = 1 /\ u.rows = Insert(Empty, x.id, row)
        <4> HIDE DEF x, row
        <4> QED
          BY <2>1 DEF UnitType
      <3> HIDE DEF u
      <3> QED
        BY <2>1, <2>2, <3>1, <3>2, InsertFirstEvents
    <2>3. CASE ~InsertAccepted(log, x.id, row)
      <3>1. Retry(w) \/ GiveUp(w, "conflict")
        BY <1>6, <2>3 DEF InsertFirst
      <3> QED
        BY <2>1, <3>1, RetryEvents
    <2> QED
      BY <2>2, <2>3
  <1>7. ASSUME NEW w \in Writers, Busy(w) PROVE EInv'
    BY <1>7, RetryEvents DEF Busy
  <1>8. ASSUME NEW w \in Writers, UnitStep(w) PROVE EInv'
    BY <1>2, <1>3, <1>4, <1>5, <1>6, <1>7, <1>8, AppendHeldEvents, CommitEvents DEF UnitStep
  <1>9. CASE Alter
    <2>1. ~Untouched' /\ UNCHANGED <<unit, begun, committed>>
      BY <1>9 DEF Alter, Untouched, EditRow, DeleteRow, SwapRows
    <2> QED
      BY <2>1 DEF EInv, ActsApart, EventsInHand, AllOrNothing
  <1>10. CASE UNCHANGED vars
    <2>1. /\ UNCHANGED <<log, unit, begun, committed, altered>>
          /\ ActsApart /\ EventsInHand /\ AllOrNothing
      BY <1>10 DEF vars, EInv
    <2>2. \A v \in Writers : EventsOnto(log, unit[v])' = EventsOnto(log, unit[v])
      BY <2>1
    <2>3. EventsInHand'
      BY <2>1, <2>2 DEF EventsInHand, Untouched
    <2>4. ActsApart' /\ AllOrNothing'
      BY <2>1 DEF ActsApart, AllOrNothing, Untouched
    <2> QED
      BY <2>3, <2>4 DEF EInv
  <1> QED
    BY <1>8, <1>9, <1>10 DEF Next

LEMMA InitEvents == Init => EInv
  <1> SUFFICES ASSUME Init PROVE EInv
    OBVIOUS
  <1>1. /\ \A w \in Writers : unit[w].pc = "idle"
        /\ DOMAIN log = {} /\ committed = {} /\ begun = {}
    BY NoUnitType, EmptyTable DEF Init
  <1> QED
    BY <1>1 DEF EInv, ActsApart, EventsInHand, AllOrNothing

LEMMA EventsInvariant == Spec => []EInv
  BY InitEvents, NextEvents, Invariant, PTL DEF Spec

(* An act is committed exactly with all its events so far, each once and   *)
(* in their order; a unit that was rolled back leaves none ("an action can *)
(* never be committed without its audit event").                           *)
THEOREM ActsComeWithTheirEvents == Spec => []AllOrNothing
  <1>1. EInv => AllOrNothing
    BY DEF EInv
  <1> QED
    BY <1>1, EventsInvariant, PTL

-----------------------------------------------------------------------------
(* Where an alteration shows *)

(* A row whose predecessors stay is as good as it was.                     *)
LEMMA SameRows ==
  ASSUME NEW l, NEW m, NEW j \in Nat \ {0}, j \in DOMAIN l, j \in DOMAIN m, m[j] = l[j],
         j # 1 => j - 1 \in DOMAIN l /\ j - 1 \in DOMAIN m /\ m[j - 1] = l[j - 1]
  PROVE  GoodRow(m, j) <=> GoodRow(l, j)
  BY DEF GoodRow

(* What is appended leaves the first bad row where it is.                  *)
LEMMA FirstBadStays ==
  ASSUME NEW l, NEW m, NEW k, FirstBad(l, k),
         DOMAIN l \subseteq DOMAIN m, \A i \in DOMAIN l : m[i] = l[i]
  PROVE  FirstBad(m, k)
  <1>1. k \in Nat \ {0} /\ 1..k \subseteq DOMAIN l
    BY DEF FirstBad
  <1>2. ASSUME NEW j \in 1..k PROVE GoodRow(m, j) <=> GoodRow(l, j)
    <2>1. j \in Nat \ {0} /\ j \in DOMAIN l /\ j \in DOMAIN m /\ m[j] = l[j]
      BY <1>1
    <2>2. j # 1 => j - 1 \in 1..k
      BY <1>1
    <2>3. j # 1 => j - 1 \in DOMAIN l /\ j - 1 \in DOMAIN m /\ m[j - 1] = l[j - 1]
      BY <1>1, <2>2
    <2> QED
      BY <2>1, <2>3, SameRows
  <1>3. k \in 1..k /\ \A j \in 1..(k - 1) : j \in 1..k
    BY <1>1
  <1> QED
    BY <1>1, <1>2, <1>3 DEF FirstBad

(* The rows in hand of the unit that commits are new ones.                 *)
LEMMA CommitExtends ==
  ASSUME IInv, NEW w \in Writers, Commit(w)
  PROVE  /\ DOMAIN log' = DOMAIN unit[w].rows \cup DOMAIN log
         /\ \A i \in DOMAIN log : log'[i] = log[i]
         /\ \A i \in DOMAIN unit[w].rows : log'[i] = unit[w].rows[i]
  <1>1. DOMAIN unit[w].rows \cap DOMAIN log = {}
    BY DEF IInv, LockHeld
  <1>2. log' = Over(unit[w].rows, log)
    BY DEF Commit, ViewOf
  <1> QED
    BY <1>1, <1>2 DEF Over

(* A unit's step keeps the gap while what it has for the gap fits.         *)
LEMMA GapMoves ==
  ASSUME IInv, NEW w \in Writers, NEW u, NEW k, Gap(k),
         unit' = [unit EXCEPT ![w] = u], UNCHANGED <<log, committed>>,
         u.pc = "inserting" /\ u.id = k => u.prev = Before(log, k),
         k \in DOMAIN u.rows => u.rows[k] = Row(k, u.act, 1, Before(log, k))
  PROVE  Gap(k)'
  <1>1. unit = [v \in Writers |-> unit[v]]
    BY DEF IInv, TypeOK
  <1>2. unit'[w] = u /\ \A v \in Writers \ {w} : unit'[v] = unit[v]
    BY <1>1
  <1>3. Before(log, k)' = Before(log, k) /\ GoodRow(log, k)' = GoodRow(log, k)
        /\ \A j \in 1..(k - 1) : GoodRow(log, j)' = GoodRow(log, j)
    BY DEF Before, GoodRow
  <1> QED
    BY <1>2, <1>3 DEF Gap

(* Neither is a unit idle nor one with the lock in the way of the gap.     *)
LEMMA GapCommit ==
  ASSUME IInv, EInv, NEW w \in Writers, Commit(w), NEW k, Gap(k)
  PROVE  Gap(k)'
  <1> DEFINE x == unit[w]
             row == Row(k, x.act, 1, Before(log, k))
  <1>1. /\ DOMAIN log' = DOMAIN x.rows \cup DOMAIN log
        /\ \A i \in DOMAIN log : log'[i] = log[i]
        /\ \A i \in DOMAIN x.rows : log'[i] = x.rows[i]
    BY CommitExtends
  <1>2. /\ k \in Nat \ {0} /\ 1..(k - 1) \subseteq DOMAIN log /\ k + 1 \in DOMAIN log
        /\ \A j \in 1..(k - 1) : GoodRow(log, j)
        /\ log[k + 1].prev[2] \in committed
        /\ k \in DOMAIN log => GoodRow(log, k) /\ log[k].hash # log[k + 1].prev
    BY DEF Gap
  <1>3. k \in DOMAIN x.rows => x.rows[k] = row
    BY DEF Gap
  <1>4. /\ x.act \notin committed /\ committed' = committed \cup {x.act}
        /\ unit' = [unit EXCEPT ![w] = NoUnit]
    BY DEF Commit, EInv, ActsApart
  <1>5. \A j \in 1..(k - 1) : j \in DOMAIN log /\ (j # 1 => j - 1 \in DOMAIN log)
    BY <1>2
  <1>6. ASSUME NEW j \in 1..(k - 1) PROVE GoodRow(log', j)
    <2>1. j \in Nat \ {0} /\ GoodRow(log, j) /\ j \in DOMAIN log /\ j \in DOMAIN log'
          /\ log'[j] = log[j]
      BY <1>1, <1>2, <1>5
    <2>2. j # 1 => j - 1 \in DOMAIN log /\ j - 1 \in DOMAIN log' /\ log'[j - 1] = log[j - 1]
      BY <1>1, <1>5
    <2> QED
      BY <2>1, <2>2, SameRows
  <1>7. k # 1 => k - 1 \in DOMAIN log /\ k - 1 \in DOMAIN log' /\ log'[k - 1] = log[k - 1]
    <2>1. k # 1 => k - 1 \in 1..(k - 1)
      BY <1>2
    <2> QED
      BY <1>1, <1>2, <2>1
  <1>8. Before(log', k) = Before(log, k)
    BY <1>7 DEF Before
  <1>9. log'[k + 1] = log[k + 1] /\ k + 1 \in DOMAIN log'
    BY <1>1, <1>2
  <1>10. ASSUME k \in DOMAIN log' PROVE GoodRow(log', k) /\ log'[k].hash # log'[k + 1].prev
    <2>1. CASE k \in DOMAIN log
      <3>1. log'[k] = log[k] /\ GoodRow(log, k) /\ log[k].hash # log[k + 1].prev
        BY <1>1, <1>2, <2>1
      <3>2. GoodRow(log', k)
        BY <1>2, <1>7, <1>10, <2>1, <3>1, SameRows
      <3> QED
        BY <1>9, <3>1, <3>2
    <2>2. CASE k \in DOMAIN x.rows
      <3>1. log'[k] = row
        BY <1>1, <1>3, <2>2
      <3>2. /\ row.act = x.act /\ row.n = 1 /\ row.prev = Before(log, k)
            /\ row.hash = HashOf(k, row.act, row.n, row.prev) /\ row.hash[2] = x.act
        BY DEF Row, HashOf
      <3> HIDE DEF row
      <3>3. row.hash # log'[k + 1].prev
        <4>1. row.hash[2] # log[k + 1].prev[2]
          BY <1>2, <1>4, <3>2
        <4> QED
          BY <1>9, <4>1
      <3>4. GoodRow(log', k)
        BY <1>7, <3>1, <3>2 DEF GoodRow, Before
      <3> QED
        BY <3>1, <3>3, <3>4
    <2> QED
      BY <1>1, <1>10, <2>1, <2>2
  <1>11. ASSUME NEW v \in Writers
         PROVE  /\ unit'[v].pc = "inserting" /\ unit'[v].id = k =>
                       unit'[v].prev = Before(log', k)
                /\ k \in DOMAIN unit'[v].rows =>
                       unit'[v].rows[k] = Row(k, unit'[v].act, 1, Before(log', k))
    <2>1. unit = [y \in Writers |-> unit[y]]
      BY DEF IInv, TypeOK
    <2>2. CASE v = w
      <3>1. unit'[v] = NoUnit
        BY <1>4, <2>1, <2>2
      <3> QED
        BY <3>1, NoUnitType, EmptyTable
    <2>3. CASE v # w
      <3>1. unit'[v] = unit[v]
        BY <1>4, <2>1, <2>3
      <3> QED
        BY <1>8, <3>1 DEF Gap
    <2> QED
      BY <2>2, <2>3
  <1>12. 1..(k - 1) \subseteq DOMAIN log' /\ log'[k + 1].prev[2] \in committed'
    BY <1>1, <1>2, <1>4, <1>9
  <1> QED
    BY <1>2, <1>6, <1>9, <1>10, <1>11, <1>12 DEF Gap, Before

(* Whatever a writer does, the gap is still to be seen.                    *)
LEMMA GapSteps ==
  ASSUME IInv, EInv, NEW w \in Writers, UnitStep(w), NEW k, Gap(k)
  PROVE  Gap(k)'
  <1> DEFINE x == unit[w]
  <1>1. UnitType(x) /\ k \in Nat \ {0} /\ k + 1 \in DOMAIN log
    BY DEF IInv, TypeOK, Gap
  <1>2. /\ x.pc = "inserting" /\ x.id = k => x.prev = Before(log, k)
        /\ k \in DOMAIN x.rows => x.rows[k] = Row(k, x.act, 1, Before(log, k))
    BY DEF Gap
  <1>3. ASSUME NEW u, unit' = [unit EXCEPT ![w] = u], u.pc # "inserting", u.rows = Empty,
               UNCHANGED <<log, committed>>
        PROVE  Gap(k)'
    BY <1>3, EmptyTable, GapMoves
  <1>4. ASSUME NEW a \in Acts \ begun, NEW size \in 1..MaxEvents, Begin(w, a, size)
        PROVE  Gap(k)'
    <2> DEFINE u == [NoUnit EXCEPT !.pc = "holding", !.kind = "handler", !.act = a,
                                   !.size = size]
    <2>1. u.pc = "holding" /\ u.rows = Empty
      BY DEF NoUnit
    <2>2. unit' = [unit EXCEPT ![w] = u] /\ UNCHANGED <<log, committed>>
      BY <1>4 DEF Begin
    <2> HIDE DEF u
    <2> QED
      BY <1>3, <2>1, <2>2
  <1>5. ASSUME NEW a \in Acts \ begun, NEW size \in 1..MaxEvents,
               NEW kind \in {"refusal", "startup"}, BeginBare(w, kind, a, size)
        PROVE  Gap(k)'
    <2> DEFINE u == [NoUnit EXCEPT !.pc = "reading", !.kind = kind, !.act = a, !.size = size]
    <2>1. u.pc = "reading" /\ u.rows = Empty
      BY DEF NoUnit
    <2>2. unit' = [unit EXCEPT ![w] = u] /\ UNCHANGED <<log, committed>>
      BY <1>5 DEF BeginBare
    <2> HIDE DEF u
    <2> QED
      BY <1>3, <2>1, <2>2
  <1>6. CASE RollBack(w)
    <2>1. unit' = [unit EXCEPT ![w] = NoUnit] /\ UNCHANGED <<log, committed>>
      BY <1>6 DEF RollBack
    <2> QED
      BY <1>3, <2>1, NoUnitType
  <1>7. CASE ReadTail(w)
    <2> DEFINE u == [x EXCEPT !.pc = "inserting", !.id = LastId(log) + 1, !.prev = TailHash(log)]
    <2>1. x.rows = Empty
      BY <1>7 DEF ReadTail, IInv, LockHeld
    <2>2. unit' = [unit EXCEPT ![w] = u] /\ UNCHANGED <<log, committed>>
      BY <1>7 DEF ReadTail
    <2>3. LastId(log) + 1 # k
      <3>1. LastId(log) \in Nat /\ k + 1 \in 1..LastId(log)
        BY <1>1 DEF IInv, TypeOK, HasTail
      <3> QED
        BY <1>1, <3>1
    <2>4. u.id = LastId(log) + 1 /\ u.rows = Empty
      <3> HIDE DEF x
      <3> QED
        BY <1>1, <2>1 DEF UnitType
    <2> HIDE DEF u
    <2> QED
      BY <2>2, <2>3, <2>4, EmptyTable, GapMoves
  <1>8. CASE AppendHeld(w)
    <2> DEFINE id == LastId(ViewOf(w)) + 1
               row == Row(id, x.act, x.written + 1, TailHash(ViewOf(w)))
               rows == Insert(x.rows, id, row)
               u == [x EXCEPT !.rows = rows, !.written = x.written + 1]
    <2>1. unit' = [unit EXCEPT ![w] = u] /\ UNCHANGED <<log, committed>>
      BY <1>8 DEF AppendHeld
    <2>2. u.pc = "holding" /\ u.act = x.act /\ u.rows = rows
      <3>1. x.pc = "holding"
        BY <1>8 DEF AppendHeld
      <3> HIDE DEF x, rows
      <3> QED
        BY <1>1, <3>1 DEF UnitType
    <2>3. id # k
      <3>1. HasTail(ViewOf(w)) /\ k + 1 \in DOMAIN ViewOf(w)
        BY <1>1 DEF IInv, LockHeld, ViewOf, Over
      <3>2. LastId(ViewOf(w)) \in Nat /\ k + 1 \in 1..LastId(ViewOf(w))
        BY <3>1 DEF HasTail
      <3> QED
        BY <1>1, <3>2
    <2> HIDE DEF row, id, x
    <2>4. k \in DOMAIN rows => k \in DOMAIN x.rows /\ rows[k] = x.rows[k]
      BY <2>3 DEF Insert
    <2> HIDE DEF rows, u
    <2> QED
      BY <1>2, <2>1, <2>2, <2>4, GapMoves
  <1>9. CASE Commit(w)
    BY <1>9, GapCommit
  <1>10. ASSUME x.pc = "inserting", Retry(w) \/ GiveUp(w, "conflict") PROVE Gap(k)'
    <2>1. CASE unit' = [unit EXCEPT ![w] = NoUnit]
      <3>1. UNCHANGED <<log, committed>>
        BY <1>10 DEF Retry, GiveUp
      <3> QED
        BY <1>3, <2>1, <3>1, NoUnitType
    <2>2. CASE unit' = [unit EXCEPT ![w] = [unit[w] EXCEPT !.pc = "reading",
                                                           !.attempts = unit[w].attempts + 1]]
      <3> DEFINE u == [x EXCEPT !.pc = "reading", !.attempts = x.attempts + 1]
      <3>1. unit' = [unit EXCEPT ![w] = u] /\ UNCHANGED <<log, committed>>
        BY <1>10, <2>2 DEF Retry, GiveUp
      <3>2. x.rows = Empty
        BY <1>10 DEF IInv, LockHeld
      <3>3. u.pc = "reading" /\ u.rows = Empty
        <4> HIDE DEF x
        <4> QED
          BY <1>1, <3>2 DEF UnitType
      <3> HIDE DEF u
      <3> QED
        BY <1>3, <3>1, <3>3
    <2> QED
      BY <1>10, <2>1, <2>2 DEF Retry, GiveUp
  <1>11. CASE InsertFirst(w)
    <2> DEFINE row == Row(x.id, x.act, 1, x.prev)
               u == [x EXCEPT !.pc = "holding", !.written = 1, !.rows = Insert(Empty, x.id, row)]
    <2>1. x.pc = "inserting"
      BY <1>11 DEF InsertFirst
    <2>2. CASE InsertAccepted(log, x.id, row)
      <3>1. unit' = [unit EXCEPT ![w] = u] /\ UNCHANGED <<log, committed>>
        BY <1>11, <2>2 DEF InsertFirst
      <3>2. u.pc = "holding" /\ u.act = x.act /\ u.rows = Insert(Empty, x.id, row)
        <4> HIDE DEF x, row
        <4> QED
          BY <1>1 DEF UnitType
      <3>3. DOMAIN u.rows = {x.id} /\ u.rows[x.id] = row
        <4> HIDE DEF u, x, row
        <4> QED
          BY <3>2, EmptyTable DEF Insert
      <3>4. k \in DOMAIN u.rows => u.rows[k] = Row(k, u.act, 1, Before(log, k))
        <4> HIDE DEF u
        <4> QED
          BY <1>2, <2>1, <3>2, <3>3
      <3> HIDE DEF u
      <3> QED
        BY <3>1, <3>2, <3>4, GapMoves
    <2>3. CASE ~InsertAccepted(log, x.id, row)
      <3>1. Retry(w) \/ GiveUp(w, "conflict")
        BY <1>11, <2>3 DEF InsertFirst
      <3> QED
        BY <1>10, <2>1, <3>1
    <2> QED
      BY <2>2, <2>3
  <1>12. CASE Busy(w)
    BY <1>10, <1>12 DEF Busy
  <1> QED
    BY <1>4, <1>5, <1>6, <1>7, <1>8, <1>9, <1>11, <1>12 DEF UnitStep

(* A row edited, deleted or moved shows where it was.                      *)
LEMMA AlterLocated ==
  ASSUME IInv, EInv, Alter
  PROVE  Located'
  <1>1. /\ Untouched /\ lock = None /\ UNCHANGED <<lock, unit, begun, committed, givenUp>>
        /\ Chain(log) /\ AllOrNothing /\ ChainsGrow /\ LockHeld
    BY DEF Alter, IInv, EInv, ChainsGrow
  <1> DEFINE last == LastId(log)
  <1>2. last \in Nat /\ DOMAIN log = 1..last /\ \A i \in DOMAIN log : GoodRow(log, i)
    BY <1>1 DEF Chain
  <1> HIDE DEF last
  <1>3. ASSUME NEW i \in DOMAIN log, \A j \in 1..(i - 1) : j \in DOMAIN log' /\ log'[j] = log[j]
        PROVE  \A j \in 1..(i - 1) : GoodRow(log', j)
    <2> TAKE j \in 1..(i - 1)
    <2>1. j \in Nat \ {0} /\ j \in DOMAIN log /\ j \in DOMAIN log' /\ log'[j] = log[j]
      BY <1>2, <1>3
    <2>2. j # 1 => j - 1 \in 1..(i - 1)
      BY <1>2
    <2>3. j # 1 => j - 1 \in DOMAIN log /\ j - 1 \in DOMAIN log' /\ log'[j - 1] = log[j - 1]
      BY <1>2, <1>3, <2>1, <2>2
    <2> QED
      BY <1>2, <2>1, <2>3, SameRows
  <1>4. ASSUME NEW i \in DOMAIN log, NEW a \in Acts, EditRow(i, a) PROVE Located'
    <2>1. /\ DOMAIN log' = DOMAIN log /\ altered' = [kind |-> "edit", at |-> i]
          /\ \A j \in DOMAIN log \ {i} : log'[j] = log[j]
          /\ log'[i] = [log[i] EXCEPT !.act = a] /\ a # log[i].act
      BY <1>4 DEF EditRow
    <2>2. RowType(log[i])
      BY DEF IInv, TypeOK
    <2>3. log'[i].act = a /\ log'[i].hash = log[i].hash
      BY <2>1, <2>2 DEF RowType
    <2>4. log[i].hash[2] = log[i].act
      BY <1>2 DEF GoodRow, HashOf
    <2>5. ~GoodRow(log', i)
      <3>1. GoodRow(log', i) => log'[i].hash[2] = log'[i].act
        BY DEF GoodRow, HashOf
      <3> QED
        BY <2>1, <2>3, <2>4, <3>1
    <2>6. \A j \in 1..(i - 1) : GoodRow(log', j)
      BY <1>2, <1>3, <2>1
    <2>7. FirstBad(log', i)
      BY <1>2, <2>1, <2>5, <2>6 DEF FirstBad
    <2>8. altered'.kind = "edit" /\ altered'.at = i
      BY <2>1
    <2>9. FirstBad(log, altered.at)' = FirstBad(log', i)
      BY <2>8 DEF FirstBad, GoodRow
    <2> QED
      BY <2>7, <2>8, <2>9 DEF Located
  <1>5. ASSUME NEW i \in DOMAIN log, NEW j \in DOMAIN log, SwapRows(i, j) PROVE Located'
    <2>1. /\ i < j /\ DOMAIN log' = DOMAIN log /\ altered' = [kind |-> "swap", at |-> i]
          /\ \A n \in DOMAIN log \ {i, j} : log'[n] = log[n]
          /\ log'[i] = log[j]
      <3>1. i < j /\ log' = [log EXCEPT ![i] = log[j], ![j] = log[i]]
            /\ altered' = [kind |-> "swap", at |-> i]
        BY <1>5 DEF SwapRows
      <3>2. i # j
        BY <1>2, <3>1
      <3> QED
        BY <3>1, <3>2
    <2>2. log[j].hash[1] = j
      BY <1>2 DEF GoodRow, HashOf
    <2>3. ~GoodRow(log', i)
      <3>1. GoodRow(log', i) => log'[i].hash[1] = i
        BY DEF GoodRow, HashOf
      <3> QED
        BY <1>2, <2>1, <2>2, <3>1
    <2>4. \A n \in 1..(i - 1) : GoodRow(log', n)
      BY <1>2, <1>3, <2>1
    <2>5. FirstBad(log', i)
      BY <1>2, <2>1, <2>3, <2>4 DEF FirstBad
    <2>6. altered'.kind = "swap" /\ altered'.at = i
      BY <2>1
    <2> QED
      BY <2>5, <2>6 DEF Located, FirstBad, GoodRow
  <1>6. ASSUME NEW i \in DOMAIN log, DeleteRow(i) PROVE Located'
    <2>1. /\ DOMAIN log' = DOMAIN log \ {i} /\ \A j \in DOMAIN log' : log'[j] = log[j]
          /\ altered' = [kind |-> IF i = last THEN "truncate" ELSE "delete", at |-> i]
      BY <1>6 DEF DeleteRow, last
    <2>2. CASE i = last
      BY <2>1, <2>2 DEF Located
    <2>3. CASE i # last
      <3>1. i \in Nat \ {0} /\ i + 1 \in DOMAIN log /\ i \notin DOMAIN log'
        BY <1>2, <2>1, <2>3
      <3>2. \A j \in 1..(i - 1) : j \in DOMAIN log' /\ log'[j] = log[j]
        BY <1>2, <2>1
      <3>3. i + 1 \in DOMAIN log' /\ log'[i + 1] = log[i + 1]
        BY <1>2, <2>1, <3>1
      <3>4. log[i + 1].prev = log[i].hash
        <4>1. GoodRow(log, i + 1) /\ i + 1 # 1 /\ (i + 1) - 1 = i
          BY <1>2, <3>1
        <4> QED
          BY <4>1 DEF GoodRow
      <3>5. log[i].hash[2] = log[i].act
        BY <1>2 DEF GoodRow, HashOf
      <3>6. log'[i + 1].prev[2] \in committed'
        BY <1>1, <3>3, <3>4, <3>5 DEF AllOrNothing
      <3>7. Before(log', i) = Before(log, i)
        <4>1. i # 1 => i - 1 \in 1..(i - 1)
          BY <3>1
        <4> QED
          BY <3>2, <4>1 DEF Before
      <3>8. ASSUME NEW w \in Writers
            PROVE  /\ unit'[w].pc = "inserting" /\ unit'[w].id = i =>
                          unit'[w].prev = Before(log', i)
                   /\ i \notin DOMAIN unit'[w].rows
        <4>1. unit[w].pc # "holding" /\ unit[w].rows = Empty
          BY <1>1, NoneAssumption DEF LockHeld
        <4>2. unit[w].pc = "inserting" /\ unit[w].id = i => unit[w].prev = Before(log, i)
          BY <1>1 DEF ChainsGrow, Before
        <4> QED
          BY <1>1, <3>7, <4>1, <4>2, EmptyTable
      <3>9. \A j \in 1..(i - 1) : GoodRow(log', j)
        BY <1>3, <3>2
      <3>10. altered'.kind = "delete" /\ altered'.at = i
        BY <2>1, <2>3
      <3>11. Gap(i)'
        BY <3>1, <3>2, <3>3, <3>6, <3>8, <3>9 DEF Gap, Before, GoodRow
      <3> QED
        BY <3>10, <3>11 DEF Located, Gap, Before, GoodRow
    <2> QED
      BY <2>2, <2>3
  <1> QED
    BY <1>4, <1>5, <1>6 DEF Alter

(* What is appended afterwards does not hide it.                           *)
LEMMA NextLocated == IInv /\ EInv /\ Located /\ [Next]_vars => Located'
  <1> SUFFICES ASSUME IInv, EInv, Located, [Next]_vars PROVE Located'
    OBVIOUS
  <1>1. ASSUME NEW w \in Writers, UnitStep(w) PROVE Located'
    <2> DEFINE k == altered.at
    <2>1. altered' = altered
      BY <1>1 DEF UnitStep, Begin, BeginBare, AppendHeld, Commit, RollBack, ReadTail,
                  InsertFirst, Busy, Retry, GiveUp
    <2>2. DOMAIN log \subseteq DOMAIN log' /\ \A i \in DOMAIN log : log'[i] = log[i]
      <3>1. log' = log \/ Commit(w)
        BY <1>1 DEF UnitStep, Begin, BeginBare, AppendHeld, RollBack, ReadTail,
                    InsertFirst, Busy, Retry, GiveUp
      <3> QED
        BY <3>1, CommitExtends
    <2>3. ASSUME altered.kind \in {"edit", "swap"} PROVE FirstBad(log', k)
      BY <2>2, <2>3, FirstBadStays DEF Located
    <2>4. ASSUME altered.kind = "delete" PROVE Gap(k)'
      <3>1. Gap(k)
        BY <2>4 DEF Located
      <3>2. \A n : Gap(n) => Gap(n)'
        BY <1>1, GapSteps
      <3> QED
        BY <2>1, <3>1, <3>2 DEF Gap, Before, GoodRow
    <2> QED
      BY <2>1, <2>3, <2>4 DEF Located, FirstBad, GoodRow, Gap, Before
  <1>2. CASE Alter
    BY <1>2, AlterLocated
  <1>3. CASE UNCHANGED vars
    BY <1>3 DEF vars, Located, FirstBad, GoodRow, Gap, Before
  <1> QED
    BY <1>1, <1>2, <1>3 DEF Next

(* An edited row, a row missing from the middle and two swapped rows are   *)
(* each reported at the right place, whatever is appended afterwards and   *)
(* whoever still had the old tail in hand (verify_chain).                  *)
THEOREM AlterationsAreLocated == Spec => []AlterationLocated
  <1>1. Init => Located
    BY DEF Init, Located
  <1>2. IInv /\ Located => AlterationLocated
    <2> SUFFICES ASSUME IInv, Located PROVE AlterationLocated
      OBVIOUS
    <2>1. \A j \in DOMAIN log : j \in Nat \ {0}
      BY DEF IInv, TypeOK, HasTail
    <2>2. ASSUME NEW k, FirstBad(log, k) PROVE BrokenAt(log, k)
      <3>1. k \in Nat \ {0} /\ k \in DOMAIN log /\ ~GoodRow(log, k)
            /\ \A j \in 1..(k - 1) : GoodRow(log, j)
        BY <2>2 DEF FirstBad
      <3> QED
        BY <2>1, <3>1 DEF BrokenAt, BadRows
    <2>3. ASSUME NEW k, Gap(k) PROVE BrokenAt(log, k + 1)
      <3>1. /\ k \in Nat \ {0} /\ k + 1 \in DOMAIN log
            /\ \A j \in 1..(k - 1) : GoodRow(log, j)
            /\ k \in DOMAIN log => GoodRow(log, k) /\ log[k].hash # log[k + 1].prev
        BY <2>3 DEF Gap
      <3>2. ~GoodRow(log, k + 1)
        <4>1. k + 1 # 1 /\ (k + 1) - 1 = k
          BY <3>1
        <4> QED
          BY <3>1, <4>1 DEF GoodRow
      <3> QED
        BY <2>1, <3>1, <3>2 DEF BrokenAt, BadRows
    <2> QED
      BY <2>2, <2>3 DEF Located, AlterationLocated
  <1> QED
    BY <1>1, <1>2, EventsInvariant, NextLocated, Invariant, PTL DEF Spec
=============================================================================
