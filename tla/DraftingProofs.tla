--------------------------- MODULE DraftingProofs ---------------------------
(***************************************************************************)
(* What a run may learn and propose, for any account, calendar, operator   *)
(* floor and letters, and however Stripe changes and fails meanwhile: a    *)
(* list leaves out an invoice for one of three reasons only, no letter     *)
(* rests on facts below the floor that were not looked up, each goes to an *)
(* address the customer had during the run, and the body of each queued    *)
(* one is about its invoice.                                               *)
(***************************************************************************)
EXTENDS Drafting, Counting, FiniteSetTheorems, SequenceTheorems

-----------------------------------------------------------------------------
(* Places in an ordered list *)

(* R puts the elements of S in a row.                                      *)
Orders(R, S) ==
    /\ \A x \in S : <<x, x>> \notin R
    /\ \A x, y, z \in S : <<x, y>> \in R /\ <<y, z>> \in R => <<x, z>> \in R
    /\ \A x, y \in S : x # y => <<x, y>> \in R \/ <<y, x>> \in R

Before(R, S, x) == {y \in S : <<y, x>> \in R}

First(R, S, k) == {x \in S : Cardinality(Before(R, S, x)) < k}

(* Whoever comes later has more before it.                                 *)
LEMMA LaterHasMore ==
  ASSUME NEW R, NEW S, IsFiniteSet(S), Orders(R, S), NEW x \in S, NEW y \in S, <<x, y>> \in R
  PROVE  Cardinality(Before(R, S, x)) < Cardinality(Before(R, S, y))
  <1> DEFINE A == Before(R, S, x)
             B == Before(R, S, y)
  <1>1. A \subseteq B /\ x \in B /\ x \notin A
    BY DEF Before, Orders
  <1>2. IsFiniteSet(B)
    BY FS_Subset DEF Before
  <1> HIDE DEF A, B
  <1>3. IsFiniteSet(A) /\ Cardinality(A) <= Cardinality(B) /\ Cardinality(A) # Cardinality(B)
    BY <1>1, <1>2, FS_Subset
  <1>4. Cardinality(A) \in Nat /\ Cardinality(B) \in Nat
    BY <1>2, <1>3, FS_CardinalityType
  <1> QED
    BY <1>3, <1>4 DEF A, B

(* Places are natural numbers, below the size of the set.                  *)
LEMMA PlaceType ==
  ASSUME NEW R, NEW S, IsFiniteSet(S), NEW x \in S
  PROVE  Cardinality(Before(R, S, x)) \in Nat
  <1>1. IsFiniteSet(Before(R, S, x))
    BY FS_Subset DEF Before
  <1> QED
    BY <1>1, FS_CardinalityType

(* The next place is taken, by one element: what is before it is what has  *)
(* the places before it.                                                   *)
LEMMA NextPlace ==
  ASSUME NEW R, NEW S, IsFiniteSet(S), Orders(R, S), NEW k \in Nat, k < Cardinality(S),
         Cardinality(First(R, S, k)) = k
  PROVE  /\ \E x \in S : Cardinality(Before(R, S, x)) = k
         /\ Cardinality(First(R, S, k + 1)) = k + 1
  <1> DEFINE F == First(R, S, k)
             place(x) == Cardinality(Before(R, S, x))
             left == {place(x) : x \in S \ F}
  <1>1. \A x \in S : place(x) \in Nat
    BY PlaceType
  <1>2. F \subseteq S /\ F # S
    BY DEF First
  <1>3. PICK least \in left : \A m \in left : least <= m
    <2>1. left \subseteq Nat
      BY <1>1
    <2>2. left # {}
      BY <1>2
    <2> HIDE DEF left
    <2> QED
      BY <2>1, <2>2, LeastNumber
  <1>4. PICK x \in S \ F : place(x) = least
    BY <1>3
  <1>5. \A y \in S \ F : place(x) <= place(y)
    BY <1>3, <1>4
  <1>6. \A y \in S : <<y, x>> \in R => place(y) < place(x)
    BY <1>4, LaterHasMore
  <1>7. \A y \in S : <<y, x>> \in R => y \in F
    BY <1>1, <1>5, <1>6
  <1>8. \A y \in F : <<y, x>> \in R
    <2> SUFFICES ASSUME NEW y \in F PROVE <<y, x>> \in R
      OBVIOUS
    <2>1. y \in S /\ place(y) < k /\ ~(place(x) < k)
      BY <1>4 DEF First
    <2>2. <<x, y>> \in R => place(x) < place(y)
      BY <1>4, <2>1, LaterHasMore
    <2>3. ~(<<x, y>> \in R)
      BY <1>1, <1>4, <2>1, <2>2
    <2>4. x # y
      BY <2>1
    <2> QED
      BY <1>4, <2>1, <2>3, <2>4 DEF Orders
  <1>9. Before(R, S, x) = F
    BY <1>2, <1>7, <1>8 DEF Before
  <1>10. place(x) = k
    BY <1>9
  <1>11. First(R, S, k + 1) = F \cup {x}
    <2>1. ASSUME NEW y \in S, y # x, place(y) < k + 1
          PROVE  y \in F
      <3>1. place(y) # k
        <4>1. \/ place(x) < place(y)
              \/ place(y) < place(x)
          BY <1>4, <2>1, LaterHasMore DEF Orders
        <4> QED
          BY <1>1, <1>4, <1>10, <2>1, <4>1
      <3> QED
        BY <1>1, <2>1, <3>1 DEF First
    <2>2. \A y \in F : y \in S /\ place(y) < k + 1
      BY <1>1 DEF First
    <2>3. place(x) < k + 1
      BY <1>10
    <2> QED
      BY <1>4, <2>1, <2>2, <2>3 DEF First
  <1>12. IsFiniteSet(F)
    BY <1>2, FS_Subset
  <1>13. Cardinality(F \cup {x}) = k + 1
    BY <1>4, <1>12, FS_AddElement
  <1> QED
    BY <1>4, <1>10, <1>11, <1>13

(* The first k places of a list that has as many are held by k elements.   *)
LEMMA FirstPlaces ==
  ASSUME NEW R, NEW S, IsFiniteSet(S), Orders(R, S)
  PROVE  \A k \in 0 .. Cardinality(S) : Cardinality(First(R, S, k)) = k
  <1> DEFINE bad == {k \in 0 .. Cardinality(S) : Cardinality(First(R, S, k)) # k}
  <1>0. Cardinality(S) \in Nat
    BY FS_CardinalityType
  <1> SUFFICES ASSUME bad # {} PROVE FALSE
    OBVIOUS
  <1>1. bad \subseteq Nat
    BY <1>0
  <1>2. PICK k \in bad : \A m \in bad : k <= m
    <2> HIDE DEF bad
    <2> QED
      BY <1>1, LeastNumber
  <1>3. k # 0
    <2>1. First(R, S, 0) = {}
      BY PlaceType DEF First
    <2> QED
      BY <1>2, <2>1, FS_EmptySet
  <1>4. k - 1 \in Nat /\ k - 1 < Cardinality(S) /\ Cardinality(First(R, S, k - 1)) = k - 1
    BY <1>0, <1>2, <1>3
  <1> QED
    BY <1>2, <1>4, NextPlace

(* Every place has its element, and no two elements share one.             *)
LEMMA EveryPlace ==
  ASSUME NEW R, NEW S, IsFiniteSet(S), Orders(R, S)
  PROVE  /\ \A k \in 0 .. Cardinality(S) - 1 : \E x \in S : Cardinality(Before(R, S, x)) = k
         /\ \A x, y \in S : Cardinality(Before(R, S, x)) = Cardinality(Before(R, S, y)) => x = y
  <1>0. Cardinality(S) \in Nat
    BY FS_CardinalityType
  <1>1. ASSUME NEW k \in 0 .. Cardinality(S) - 1
        PROVE  \E x \in S : Cardinality(Before(R, S, x)) = k
    BY <1>0, FirstPlaces, NextPlace
  <1>2. ASSUME NEW x \in S, NEW y \in S, x # y
        PROVE  Cardinality(Before(R, S, x)) # Cardinality(Before(R, S, y))
    <2>1. \/ Cardinality(Before(R, S, x)) < Cardinality(Before(R, S, y))
          \/ Cardinality(Before(R, S, y)) < Cardinality(Before(R, S, x))
      BY <1>2, LaterHasMore DEF Orders
    <2> QED
      BY <2>1, PlaceType
  <1> QED
    BY <1>1, <1>2

-----------------------------------------------------------------------------
(* Stripe's lists *)

(* Newer invoices first: an order, since no two were created at once.      *)
LEMMA NewerOrders ==
  ASSUME NEW S, S \subseteq Invoices
  PROVE  LET R == {p \in Invoices \X Invoices : Created[p[1]] > Created[p[2]]}
         IN  /\ Orders(R, S)
             /\ \A i \in S : Before(R, S, i) = Newer(S, i)
  <1> DEFINE R == {p \in Invoices \X Invoices : Created[p[1]] > Created[p[2]]}
  <1>1. \A i, j \in Invoices : <<i, j>> \in R <=> Created[i] > Created[j]
    OBVIOUS
  <1>2. \A i \in Invoices : Created[i] \in Nat
    BY DraftingAssumption
  <1>3. \A i, j \in Invoices : Created[i] = Created[j] => i = j
    BY DraftingAssumption
  <1> HIDE DEF R
  <1>4. Orders(R, S)
    BY <1>1, <1>2, <1>3 DEF Orders
  <1>5. \A i \in S : Before(R, S, i) = Newer(S, i)
    BY <1>1 DEF Before, Newer
  <1> QED
    BY <1>4, <1>5 DEF R

(* A list of Stripe's shows each invoice of its set once, at its place.    *)
LEMMA NewestFirstLists ==
  ASSUME NEW S, S \subseteq Invoices
  PROVE  /\ NewestFirst(S) \in Seq(S) /\ Len(NewestFirst(S)) = Cardinality(S)
         /\ Cardinality(S) \in Nat
         /\ \A i \in S : /\ Cardinality(Newer(S, i)) \in 0 .. Cardinality(S) - 1
                         /\ NewestFirst(S)[Cardinality(Newer(S, i)) + 1] = i
         /\ \A m, n \in DOMAIN NewestFirst(S) : NewestFirst(S)[m] = NewestFirst(S)[n] => m = n
  <1> DEFINE R == {p \in Invoices \X Invoices : Created[p[1]] > Created[p[2]]}
             N == Cardinality(S)
             at(n) == CHOOSE i \in S : Cardinality(Newer(S, i)) = n - 1
  <1>1. IsFiniteSet(S) /\ N \in Nat
    BY DraftingAssumption, FS_Subset, FS_CardinalityType
  <1>2. Orders(R, S) /\ \A i \in S : Before(R, S, i) = Newer(S, i)
    BY NewerOrders
  <1> HIDE DEF R
  <1>3. \A k \in 0 .. N - 1 : \E i \in S : Cardinality(Before(R, S, i)) = k
    BY <1>1, <1>2, EveryPlace
  <1>4. \A k \in 0 .. N - 1 : \E i \in S : Cardinality(Newer(S, i)) = k
    BY <1>2, <1>3
  <1>5. ASSUME NEW n \in 1 .. N
        PROVE  at(n) \in S /\ Cardinality(Newer(S, at(n))) = n - 1
    <2>1. n - 1 \in 0 .. N - 1
      BY <1>1
    <2> QED
      BY <1>4, <2>1
  <1>6. NewestFirst(S) = [n \in 1 .. N |-> at(n)]
    BY DEF NewestFirst
  <1> HIDE DEF at
  <1>7. NewestFirst(S) \in Seq(S)
    BY <1>1, <1>5, <1>6
  <1>8. \A m, n \in 1 .. N : at(m) = at(n) => m = n
    BY <1>1, <1>5
  <1>9. Len(NewestFirst(S)) = N
    BY <1>1, <1>6, <1>7
  <1>10. ASSUME NEW i \in S
         PROVE  Cardinality(Newer(S, i)) \in 0 .. N - 1 /\ at(Cardinality(Newer(S, i)) + 1) = i
    <2> DEFINE k == Cardinality(Newer(S, i))
    <2>1. Newer(S, i) \subseteq S \ {i} /\ IsFiniteSet(S \ {i})
      <3>1. Created[i] \in Nat
        BY DraftingAssumption
      <3>2. Newer(S, i) \subseteq S \ {i}
        BY <3>1 DEF Newer
      <3> QED
        BY <1>1, <3>2, FS_RemoveElement
    <2>2. Cardinality(S \ {i}) = N - 1
      BY <1>1, FS_RemoveElement
    <2>3. k <= N - 1 /\ IsFiniteSet(Newer(S, i))
      BY <2>1, <2>2, FS_Subset
    <2>4. k \in Nat
      BY <2>3, FS_CardinalityType
    <2> HIDE DEF k
    <2>5. k \in 0 .. N - 1 /\ k + 1 \in 1 .. N
      BY <1>1, <2>3, <2>4
    <2>6. at(k + 1) \in S /\ Cardinality(Newer(S, at(k + 1))) = k
      BY <1>5, <2>4, <2>5
    <2>7. \A x, y \in S : Cardinality(Newer(S, x)) = Cardinality(Newer(S, y)) => x = y
      BY <1>1, <1>2, EveryPlace
    <2>8. at(k + 1) = i
      BY <2>6, <2>7 DEF k
    <2> QED
      BY <2>5, <2>8 DEF k
  <1> QED
    BY <1>1, <1>6, <1>7, <1>8, <1>9, <1>10

(* So does its first page, but for those that fill a page before them.     *)
LEMMA PageLists ==
  ASSUME NEW S, S \subseteq Invoices
  PROVE  /\ FirstPage(S) \in Seq(S)
         /\ \A m, n \in DOMAIN FirstPage(S) : FirstPage(S)[m] = FirstPage(S)[n] => m = n
         /\ \A i \in S : \/ Cardinality(Newer(S, i)) >= PageSize
                         \/ \E n \in DOMAIN FirstPage(S) : FirstPage(S)[n] = i
  <1> DEFINE found == NewestFirst(S)
             k == Smaller(Cardinality(S), PageSize)
             page == SubSeq(found, 1, k)
             place(i) == Cardinality(Newer(S, i))
  <1>1. found \in Seq(S) /\ \A m, n \in DOMAIN found : found[m] = found[n] => m = n
    BY NewestFirstLists
  <1>2. Len(found) \in Nat /\ DOMAIN found = 1 .. Len(found) /\ Len(found) = Cardinality(S)
    BY <1>1, NewestFirstLists
  <1>3. \A i \in S : place(i) \in 0 .. Cardinality(S) - 1 /\ found[place(i) + 1] = i
    BY NewestFirstLists
  <1>4. k \in Nat /\ k <= Len(found)
    BY <1>2, DraftingAssumption DEF Smaller
  <1>5. \A n \in 1 .. Cardinality(S) : n <= PageSize => n \in 1 .. k
    BY <1>2, DraftingAssumption DEF Smaller
  <1> HIDE DEF found, k, place
  <1>6. page \in Seq(S)
    BY <1>1, <1>2, <1>4, SubSeqProperties
  <1>7. DOMAIN page = 1 .. k /\ \A n \in 1 .. k : page[n] = found[n]
    BY <1>1, <1>2, <1>4
  <1>8. \A m, n \in DOMAIN page : page[m] = page[n] => m = n
    BY <1>1, <1>2, <1>4, <1>7
  <1>9. ASSUME NEW i \in S, ~(place(i) >= PageSize)
        PROVE  \E n \in DOMAIN page : page[n] = i
    <2>1. place(i) + 1 \in 1 .. Cardinality(S) /\ place(i) + 1 <= PageSize
      BY <1>2, <1>3, <1>9, DraftingAssumption
    <2> QED
      BY <1>7, <1>3, <1>5, <2>1
  <1>10. page = FirstPage(S)
    BY DEF FirstPage, found, k
  <1> HIDE DEF page
  <1> QED
    BY <1>6, <1>8, <1>9, <1>10 DEF place

-----------------------------------------------------------------------------
(* The capped list *)

(* The wanted readings, larger amounts first and equal ones as read.       *)
LargerFirst(readings) ==
    {p \in (DOMAIN readings) \X (DOMAIN readings) :
        LET x == Amount[readings[p[1]].invoice]
            y == Amount[readings[p[2]].invoice]
        IN x > y \/ (x = y /\ p[1] < p[2])}

LEMMA AheadOrders ==
  ASSUME NEW readings \in Seq(Reading)
  PROVE  /\ Orders(LargerFirst(readings), WantedPlaces(readings))
         /\ \A n \in WantedPlaces(readings) :
               Ahead(readings, n) = Before(LargerFirst(readings), WantedPlaces(readings), n)
         /\ IsFiniteSet(WantedPlaces(readings))
  <1> DEFINE R == LargerFirst(readings)
             W == WantedPlaces(readings)
             amount(n) == Amount[readings[n].invoice]
  <1>1. DOMAIN readings = 1 .. Len(readings) /\ Len(readings) \in Nat
    OBVIOUS
  <1>2. \A n \in DOMAIN readings : amount(n) \in Nat /\ n \in Nat
    <2>1. \A n \in DOMAIN readings : readings[n] \in Reading
      OBVIOUS
    <2> QED
      BY <1>1, <2>1, DraftingAssumption DEF Reading
  <1>3. \A m, n \in DOMAIN readings :
           <<m, n>> \in R <=> amount(m) > amount(n) \/ (amount(m) = amount(n) /\ m < n)
    BY DEF LargerFirst
  <1>4. W \subseteq DOMAIN readings
    BY DEF WantedPlaces
  <1>5. \A n \in W : Ahead(readings, n) =
           {m \in W : amount(m) > amount(n) \/ (amount(m) = amount(n) /\ m < n)}
    BY DEF Ahead
  <1> HIDE DEF R, W, amount
  <1>6. Orders(R, W)
    <2>1. \A x \in W : <<x, x>> \notin R
      BY <1>2, <1>3, <1>4
    <2>2. \A x, y, z \in W : <<x, y>> \in R /\ <<y, z>> \in R => <<x, z>> \in R
      BY <1>2, <1>3, <1>4
    <2>3. \A x, y \in W : x # y => <<x, y>> \in R \/ <<y, x>> \in R
      BY <1>2, <1>3, <1>4
    <2> QED
      BY <2>1, <2>2, <2>3 DEF Orders
  <1>7. \A n \in W : Ahead(readings, n) = Before(R, W, n)
    BY <1>3, <1>4, <1>5 DEF Before
  <1>8. IsFiniteSet(W)
    <2>1. IsFiniteSet(1 .. Len(readings))
      BY <1>1, FS_Interval
    <2> QED
      BY <1>1, <1>4, <2>1, FS_Subset
  <1> QED
    BY <1>6, <1>7, <1>8 DEF R, W

(* The places the cap lets through.                                        *)
ShownPlaces(readings) ==
    {m \in WantedPlaces(readings) : Cardinality(Ahead(readings, m)) < call.limit}

(* A wanted reading the cap leaves out is no larger than one it shows, and *)
(* when one is left out the cap is used up.                                *)
LEMMA CapShowsLargest ==
  ASSUME NEW readings \in Seq(Reading), call.limit \in Nat
  PROVE  /\ \A m \in ShownPlaces(readings), n \in WantedPlaces(readings) \ ShownPlaces(readings) :
               Amount[readings[m].invoice] >= Amount[readings[n].invoice]
         /\ WantedPlaces(readings) # ShownPlaces(readings) =>
               Cardinality(ShownPlaces(readings)) = call.limit
         /\ IsFiniteSet(ShownPlaces(readings))
  <1> DEFINE R == LargerFirst(readings)
             W == WantedPlaces(readings)
             C == ShownPlaces(readings)
             amount(n) == Amount[readings[n].invoice]
             place(n) == Cardinality(Before(R, W, n))
  <1>1. Orders(R, W) /\ IsFiniteSet(W) /\ \A n \in W : Ahead(readings, n) = Before(R, W, n)
    BY AheadOrders
  <1>2. C = {m \in W : place(m) < call.limit}
    BY <1>1 DEF ShownPlaces
  <1>3. \A n \in W : place(n) \in Nat
    BY <1>1, PlaceType
  <1>4. W \subseteq DOMAIN readings /\ Cardinality(W) \in Nat
    BY <1>1, FS_CardinalityType DEF WantedPlaces
  <1>5. \A n \in W : amount(n) \in Nat
    <2>1. \A n \in DOMAIN readings : readings[n] \in Reading
      OBVIOUS
    <2> QED
      BY <1>4, <2>1, DraftingAssumption DEF Reading
  <1>6. \A m, n \in W : <<m, n>> \in R => amount(m) > amount(n) \/ amount(m) = amount(n)
    BY DEF LargerFirst
  <1>7. C = First(R, W, call.limit)
    BY <1>2 DEF First
  <1>8. \A m, n \in W : <<m, n>> \in R => place(m) < place(n)
    BY <1>1, LaterHasMore
  <1> HIDE DEF R, W, C
  <1>9. ASSUME NEW m \in C, NEW n \in W \ C
        PROVE  amount(m) >= amount(n)
    <2>1. m \in W /\ place(m) < call.limit /\ ~(place(n) < call.limit) /\ m # n
      BY <1>2, <1>9
    <2>2. ~(<<n, m>> \in R)
      BY <1>3, <1>8, <2>1
    <2>3. <<m, n>> \in R
      BY <1>1, <2>1, <2>2 DEF Orders
    <2>4. amount(m) \in Nat /\ amount(n) \in Nat
      BY <1>5, <2>1
    <2>5. amount(m) > amount(n) \/ amount(m) = amount(n)
      BY <1>6, <2>1, <2>3
    <2> HIDE DEF amount
    <2> QED
      BY <2>4, <2>5
  <1>10. ASSUME W # C
         PROVE  Cardinality(C) = call.limit
    <2>1. call.limit <= Cardinality(W)
      <3> SUFFICES ASSUME Cardinality(W) < call.limit PROVE FALSE
        BY <1>4
      <3>1. Cardinality(First(R, W, Cardinality(W))) = Cardinality(W)
        BY <1>1, <1>4, FirstPlaces
      <3>2. First(R, W, Cardinality(W)) \in SUBSET W
        BY DEF First
      <3>3. First(R, W, Cardinality(W)) = W
        BY <1>1, <3>1, <3>2, FS_Subset
      <3>4. \A n \in W : place(n) < Cardinality(W)
        BY <3>3 DEF First
      <3>5. \A n \in W : place(n) < call.limit
        BY <1>3, <1>4, <3>4
      <3> QED
        BY <1>2, <1>10, <3>5
    <2> QED
      BY <1>1, <1>4, <1>7, <2>1, FirstPlaces
  <1>11. IsFiniteSet(C)
    BY <1>1, <1>2, FS_Subset
  <1> QED
    BY <1>9, <1>10, <1>11 DEF W, C

-----------------------------------------------------------------------------
(* The request in progress *)

(* What a call is doing says which tool's call it is.                      *)
LEMMA CallKinds ==
  ASSUME TypeOK
  PROVE  /\ call.at \in {"page", "clocks", "customers", "scan"} => call \in ListCall
         /\ call.at = "get" => call \in GetCall
         /\ call # Idle => call \in ListCall \cup GetCall
         /\ Idle \notin ListCall
  <1>1. Idle.at = "idle"
    BY DEF Idle
  <1>2. \A c \in ListCall : c.at \in {"page", "clocks", "customers", "scan"}
    BY DEF ListCall
  <1>3. \A c \in GetCall : c.at = "get"
    BY DEF GetCall
  <1>4. call \in {Idle} \cup ListCall \cup GetCall
    BY DEF TypeOK
  <1> QED
    BY <1>1, <1>2, <1>3, <1>4

(* Days overdue are days of the calendar.                                  *)
LEMMA DaysType ==
  ASSUME NEW i \in Invoices, NEW now \in Days
  PROVE  days_overdue(i, now) \in Days
  <1>1. Due[i] \in Nat /\ LastDay \in Nat
    BY DraftingAssumption
  <1> QED
    BY <1>1 DEF days_overdue, Larger, Days

(* The facts of a reading, and what they keep of it.                       *)
LEMMA FactsType ==
  ASSUME NEW r \in Reading, NEW now \in Days, NEW get \in BOOLEAN
  PROVE  /\ letter_facts(r, now, get) \in Facts
         /\ letter_facts(r, now, get).email = r.email
         /\ letter_facts(r, now, get).days = days_overdue(r.invoice, now)
         /\ letter_facts(r, now, get).looked = (get /\ days_overdue(r.invoice, now) < Floor)
  <1>1. days_overdue(r.invoice, now) \in Days
    BY DaysType DEF Reading
  <1> QED
    BY <1>1 DEF letter_facts, Facts, Reading

(* Harvested facts come from one of the readings, or are the older ones.   *)
LEMMA HarvestFrom ==
  ASSUME NEW readings, NEW now, NEW get, NEW i \in Invoices
  PROVE  \/ Harvest(readings, now, get)[i] = facts[i]
         \/ \E r \in readings : /\ r.invoice = i
                                /\ Harvest(readings, now, get)[i] = letter_facts(r, now, get)
  <1>1. CASE \E r \in readings : r.invoice = i
    <2> DEFINE r == CHOOSE r \in readings : r.invoice = i
    <2>1. r \in readings /\ r.invoice = i
      BY <1>1
    <2>2. Harvest(readings, now, get)[i] = letter_facts(r, now, get)
      BY <1>1 DEF Harvest
    <2> HIDE DEF r
    <2> QED
      BY <2>1, <2>2
  <1>2. CASE ~\E r \in readings : r.invoice = i
    BY <1>2 DEF Harvest
  <1> QED
    BY <1>1, <1>2

(* A result that reads customers as they were, and whose readings reach    *)
(* the floor or were asked for one by one, keeps the facts on record.      *)
LEMMA HarvestKeeps ==
  ASSUME TypeOK, Recorded, NEW readings, readings \subseteq Reading, NEW now \in Days,
         NEW get \in BOOLEAN, facts' = Harvest(readings, now, get),
         \A r \in readings : r.email \in held[r.invoice],
         get \/ \A r \in readings : days_overdue(r.invoice, now) >= Floor
  PROVE  /\ facts' \in [Invoices -> Facts \cup {None}]
         /\ \A i \in Invoices : facts'[i] # None =>
              facts'[i].email \in held[i] /\ (facts'[i].days < Floor => facts'[i].looked)
  <1>1. facts \in [Invoices -> Facts \cup {None}]
    BY DEF TypeOK
  <1>2. ASSUME NEW i \in Invoices, facts'[i] # facts[i]
        PROVE  /\ facts'[i] \in Facts /\ facts'[i].email \in held[i]
               /\ facts'[i].days < Floor => facts'[i].looked
    <2>1. PICK r \in readings : r.invoice = i /\ facts'[i] = letter_facts(r, now, get)
      BY <1>2, HarvestFrom
    <2>2. r \in Reading /\ days_overdue(i, now) \in Days
      BY <2>1, DaysType
    <2>3. /\ facts'[i] \in Facts /\ facts'[i].email = r.email
          /\ facts'[i].days = days_overdue(i, now)
          /\ facts'[i].looked = (get /\ days_overdue(i, now) < Floor)
      BY <2>1, <2>2, FactsType
    <2>4. facts'[i].days < Floor => get
      <3>1. LastDay \in Nat /\ Floor \in Nat
        BY DraftingAssumption
      <3> QED
        BY <2>1, <2>2, <2>3, <3>1 DEF Days
    <2> QED
      BY <2>1, <2>3, <2>4
  <1>3. facts' = [i \in Invoices |-> facts'[i]]
    BY DEF Harvest
  <1>4. \A i \in Invoices : facts'[i] \in Facts \cup {None}
    BY <1>1, <1>2
  <1>5. facts' \in [Invoices -> Facts \cup {None}]
    BY <1>3, <1>4
  <1> QED
    BY <1>2, <1>5 DEF Recorded

(* Only a list's result speaks of what was left out.                       *)
LEMMA OtherAnswers ==
  ASSUME answer'.kind # "list"
  PROVE  NothingElseLeftOut'
  BY DEF NothingElseLeftOut

(* No invoice opens again: a call has still read, and an answer still      *)
(* shows, what it must.                                                    *)
LEMMA SameListing ==
  ASSUME ReadSoFar, NothingElseLeftOut, call' = call, answer' = answer, open' \subseteq open
  PROVE  ReadSoFar' /\ NothingElseLeftOut'
  <1>1. \A now : OverdueAt(now)' \subseteq OverdueAt(now)
    BY DEF OverdueAt
  <1>2. ReadSoFar'
    BY <1>1 DEF ReadSoFar, OverdueAt
  <1>3. NothingElseLeftOut'
    BY <1>1 DEF NothingElseLeftOut, OverdueAt
  <1> QED
    BY <1>2, <1>3

(* What the review lets through, and that it lets it through.              *)
LEMMA ReviewIsExact ==
  ASSUME NEW i, NEW f, NEW letter \in Letters
  PROVE  /\ review_letter(letter, i, f) = {} =>
               ClaimsNothing(letter) /\ BodyIsAbout(letter.body, i, f.days)
         /\ ClaimsNothing(letter) /\ BodyIsAbout(letter.body, i, f.days)
            /\ Amount[i] \notin letter.body.numbers => review_letter(letter, i, f) = {}
  <1> USE DEF BodyIsAbout, links_match
  <1> DEFINE subject == letter.subject
             body == letter.body
  <1>1. subject.claims \subseteq Forbidden /\ body.claims \subseteq Forbidden
    BY LettersAssumption
  <1>2. find_forbidden_claims(subject, body) = {} <=> ClaimsNothing(letter)
    BY <1>1 DEF find_forbidden_claims, ClaimsNothing
  <1>3. find_missing_facts(body, i, f) = {} <=>
           /\ body.lacks = {} /\ i \in body.invoices /\ Amount[i] \in body.amounts
           /\ f.days \in body.numbers /\ \E link \in body.links : link.invoice = i
    BY DEF find_missing_facts
  <1>4. find_invented_figures(body, i, f) = {} <=>
           /\ body.amounts \subseteq {Amount[i]} /\ \A link \in body.links : link.invoice = i
           /\ ~(Amount[i] >= 1000 /\ Amount[i] \in body.numbers)
    BY DEF find_invented_figures
  <1>5. review_letter(letter, i, f) = {} <=>
           /\ find_forbidden_claims(subject, body) = {} /\ find_missing_facts(body, i, f) = {}
           /\ find_invented_figures(body, i, f) = {}
    BY DEF review_letter
  <1> QED
    BY <1>2, <1>3, <1>4, <1>5

(* The queue stands or falls with its letters: right ones are never        *)
(* refused, whatever has been read.                                        *)
LEMMA QueueStands ==
  ASSUME \A n \in DOMAIN proposals' :
            /\ ClaimsNothing(proposals'[n].letter)
            /\ BodyIsAbout(proposals'[n].letter.body, proposals'[n].invoice, proposals'[n].days)
  PROVE  QueuedLettersAreReviewed'
  BY ReviewIsExact DEF QueuedLettersAreReviewed

(* Nothing proposed, nothing to show for it.                               *)
LEMMA NoProposal ==
  ASSUME FloorUnlessLookedUp, AddressOnRecord, QueuedLettersAreReviewed,
         proposals' = proposals,
         \A n \in DOMAIN proposals :
            held[proposals[n].invoice] \subseteq held'[proposals[n].invoice]
  PROVE  FloorUnlessLookedUp' /\ AddressOnRecord' /\ QueuedLettersAreReviewed'
  <1>1. FloorUnlessLookedUp' /\ AddressOnRecord'
    BY DEF FloorUnlessLookedUp, AddressOnRecord
  <1>2. QueuedLettersAreReviewed'
    BY QueueStands DEF QueuedLettersAreReviewed
  <1> QED
    BY <1>1, <1>2

-----------------------------------------------------------------------------
(* Each step keeps the invariant *)

(* A list starts with nothing read, at the operator's floor or above.      *)
LEMMA StartListKeeps ==
  ASSUME DraftInv, NEW requested \in Thresholds, NEW limit \in Limits, NEW least \in Minima,
         StartList(requested, limit, least)
  PROVE  DraftInv'
  <1> USE DEF DraftInv
  <1>1. Effective(requested) \in Nat /\ Effective(requested) >= Floor
    BY DraftingAssumption DEF Effective, Larger
  <1>2. 0 \in 0 .. Attempts - 1 /\ today \in Days
    BY DraftingAssumption DEF TypeOK
  <1> DEFINE c == [at |-> "page", now |-> today, days |-> Effective(requested), limit |-> limit,
                   least |-> least, raw |-> <<>>, left |-> {}, tries |-> 0, found |-> {},
                   skipped |-> "none"]
  <1>3. call' = c
    BY DEF StartList
  <1>4. c \in ListCall /\ c.days >= Floor /\ c.raw = <<>> /\ c.at = "page"
    BY <1>1, <1>2 DEF ListCall
  <1> HIDE DEF c
  <1>5. UNCHANGED <<today, open, email, changes, held, facts, proposals>>
        /\ answer'.kind = "nothing"
    BY DEF StartList, stripe, Nothing
  <1>6. TypeOK'
    BY <1>3, <1>4, <1>5 DEF TypeOK
  <1>7. Recorded' /\ ReadOnce' /\ ReadSoFar'
    BY <1>3, <1>4, <1>5 DEF Recorded, ReadOnce, ReadSoFar
  <1>8. FloorUnlessLookedUp' /\ AddressOnRecord' /\ NothingElseLeftOut' /\ QueuedLettersAreReviewed'
    BY <1>5, NoProposal, OtherAnswers
  <1> QED
    BY <1>6, <1>7, <1>8

(* What a call reads, it reads off the customer record as it is now.       *)
LEMMA ReadingType ==
  ASSUME TypeOK, Recorded, NEW i \in Invoices, NEW issue \in Issues
  PROVE  /\ project_invoice(i, issue) \in Reading
         /\ project_invoice(i, issue).invoice = i
         /\ project_invoice(i, issue).email \in held[i]
  BY DEF project_invoice, ProjectedEmail, Reading, TypeOK, Recorded

(* A first attempt is always allowed.                                      *)
LEMMA FirstAttempt == 0 \in 0 .. Attempts - 1
  BY DraftingAssumption

(* A step of a list's call that only its call changes.                     *)
LEMMA ListStepKeeps ==
  ASSUME DraftInv, call \in ListCall, UNCHANGED <<stripe, facts, answer, proposals>>,
         call' \in ListCall, call'.days = call.days,
         \A n \in DOMAIN call'.raw : call'.raw[n].email \in held[call'.raw[n].invoice],
         ReadOnce', ReadSoFar'
  PROVE  DraftInv'
  <1> USE DEF DraftInv, stripe
  <1>1. TypeOK'
    BY DEF TypeOK
  <1>2. Recorded'
    BY DEF Recorded
  <1>3. FloorUnlessLookedUp' /\ AddressOnRecord' /\ QueuedLettersAreReviewed'
    BY NoProposal
  <1>4. NothingElseLeftOut'
    BY DEF NothingElseLeftOut, OverdueAt
  <1> QED
    BY <1>1, <1>2, <1>3, <1>4

(* The first page: none on a test clock, each once.                        *)
LEMMA ReadPageKeeps ==
  ASSUME DraftInv, ReadPage
  PROVE  DraftInv'
  <1> USE DEF DraftInv
  <1> DEFINE S == OverdueAt(call.now) \ OnClock
             page == FirstPage(S)
  <1>1. PICK issue \in Issues :
          call' = [call EXCEPT !.at = "clocks", !.tries = 0, !.found = S,
                     !.raw = [n \in DOMAIN page |-> project_invoice(page[n], issue)]]
    BY DEF ReadPage
  <1> DEFINE raw == [n \in DOMAIN page |-> project_invoice(page[n], issue)]
  <1>2. S \subseteq Invoices
    BY DEF OverdueAt, TypeOK
  <1>3. /\ page \in Seq(S) /\ \A m, n \in DOMAIN page : page[m] = page[n] => m = n
        /\ \A i \in S : \/ Cardinality(Newer(S, i)) >= PageSize
                        \/ \E n \in DOMAIN page : page[n] = i
    BY <1>2, PageLists
  <1>4. call' = [call EXCEPT !.at = "clocks", !.tries = 0, !.found = S, !.raw = raw]
    BY <1>1
  <1> HIDE DEF page
  <1>5. \A n \in DOMAIN page : page[n] \in S
    BY <1>3
  <1> HIDE DEF S
  <1>6. \A n \in DOMAIN page : /\ raw[n] \in Reading /\ raw[n].invoice = page[n]
                               /\ raw[n].email \in held[page[n]]
    BY <1>2, <1>5, ReadingType
  <1>7. DOMAIN raw = DOMAIN page /\ raw \in Seq(Reading)
    BY <1>3, <1>6
  <1> HIDE DEF raw
  <1>8. call \in ListCall
    BY CallKinds DEF ReadPage
  <1>9. /\ call' \in ListCall /\ call'.at = "clocks" /\ call'.raw = raw
        /\ call'.days = call.days /\ call'.now = call.now /\ call'.found = S
    BY <1>2, <1>4, <1>7, <1>8, FirstAttempt DEF ListCall
  <1>10. ReadOnce'
    BY <1>3, <1>5, <1>6, <1>7, <1>9 DEF ReadOnce, S
  <1>11. OverdueAt(call.now)' = OverdueAt(call.now)
    BY <1>9 DEF ReadPage, stripe, OverdueAt
  <1>12. \A i \in OverdueAt(call.now) : i \notin OnClock => i \in S
    BY DEF S
  <1>13. \A n \in DOMAIN page : n \in DOMAIN raw /\ raw[n].invoice = page[n]
    BY <1>6, <1>7
  <1>14. ReadSoFar'
    BY <1>3, <1>9, <1>11, <1>12, <1>13 DEF ReadSoFar
  <1> QED
    BY <1>6, <1>7, <1>8, <1>9, <1>10, <1>14, ListStepKeeps DEF ReadPage

(* Finding the customers on test clocks reads no invoice.                  *)
LEMMA ClocksKeep ==
  ASSUME DraftInv, ListClocks \/ ListClockCustomers
  PROVE  DraftInv'
  <1> USE DEF DraftInv
  <1>1. call \in ListCall /\ call.at \in {"clocks", "customers"}
    BY CallKinds DEF ListClocks, ListClockCustomers
  <1>2. /\ call' \in ListCall /\ call'.raw = call.raw /\ call'.days = call.days
        /\ call'.now = call.now /\ call'.found = call.found
        /\ call'.at = "scan" => call'.left = OnClock
    BY <1>1, FirstAttempt DEF ListClocks, ListClockCustomers, ListCall
  <1>3. ReadOnce'
    BY <1>1, <1>2 DEF ReadOnce
  <1>4. OverdueAt(call.now)' = OverdueAt(call.now)
    BY <1>2 DEF ListClocks, ListClockCustomers, stripe, OverdueAt
  <1>5. ReadSoFar'
    BY <1>1, <1>2, <1>4 DEF ReadSoFar
  <1> QED
    BY <1>1, <1>2, <1>3, <1>5, ListStepKeeps DEF ListClocks, ListClockCustomers, Recorded

(* One customer of a test clock is read, and not again.                    *)
LEMMA ScanKeeps ==
  ASSUME DraftInv, ScanCustomer
  PROVE  DraftInv'
  <1> USE DEF DraftInv
  <1>1. call \in ListCall /\ call.at = "scan"
    BY CallKinds DEF ScanCustomer
  <1>2. PICK i \in call.left, issue \in Issues :
          call' = [call EXCEPT !.tries = 0, !.left = @ \ {i},
                    !.raw = IF i \in OverdueAt(call.now)
                            THEN Append(@, project_invoice(i, issue)) ELSE @]
    BY DEF ScanCustomer
  <1>3. call.raw \in Seq(Reading) /\ call.left \subseteq OnClock /\ i \in Invoices
    BY <1>1, <1>2, DraftingAssumption DEF ListCall
  <1> DEFINE x == project_invoice(i, issue)
             raw == IF i \in OverdueAt(call.now) THEN Append(call.raw, x) ELSE call.raw
  <1>4. x \in Reading /\ x.invoice = i /\ x.email \in held[i]
    BY <1>3, ReadingType
  <1>5. call' = [call EXCEPT !.tries = 0, !.left = call.left \ {i}, !.raw = raw]
    BY <1>2
  <1> HIDE DEF x
  <1>6. /\ raw \in Seq(Reading)
        /\ \A n \in DOMAIN raw : \/ n \in DOMAIN call.raw /\ raw[n] = call.raw[n]
                                 \/ n = Len(call.raw) + 1 /\ raw[n] = x
    BY <1>3, <1>4
  <1> HIDE DEF raw
  <1>7. /\ call' \in ListCall /\ call'.at = "scan" /\ call'.raw = raw
        /\ call'.left = call.left \ {i} /\ call'.days = call.days
        /\ call'.now = call.now /\ call'.found = call.found /\ call'.skipped = call.skipped
    BY <1>1, <1>3, <1>5, <1>6, FirstAttempt DEF ListCall
  <1>8. /\ \A m, n \in DOMAIN call.raw : call.raw[m].invoice = call.raw[n].invoice => m = n
        /\ \A n \in DOMAIN call.raw : call.raw[n].invoice \notin call.left
    BY <1>1 DEF ReadOnce
  <1>9. \A m, n \in DOMAIN raw : raw[m].invoice = raw[n].invoice => m = n
    BY <1>4, <1>6, <1>8
  <1>10. \A n \in DOMAIN raw : raw[n].invoice \notin call.left \ {i}
    BY <1>4, <1>6, <1>8
  <1>11. ReadOnce'
    BY <1>7, <1>9, <1>10 DEF ReadOnce
  <1>12. \A n \in DOMAIN raw : raw[n].email \in held[raw[n].invoice]
    BY <1>1, <1>4, <1>6 DEF Recorded
  <1>13. OverdueAt(call.now)' = OverdueAt(call.now)
    BY <1>7 DEF ScanCustomer, stripe, OverdueAt
  <1>14. /\ \A n \in DOMAIN call.raw : n \in DOMAIN raw /\ raw[n] = call.raw[n]
         /\ i \in OverdueAt(call.now) => \E n \in DOMAIN raw : raw[n] = x
    <2>1. CASE i \in OverdueAt(call.now)
      <3>1. raw = Append(call.raw, x)
        BY <2>1 DEF raw
      <3>2. Len(call.raw) + 1 \in DOMAIN raw /\ raw[Len(call.raw) + 1] = x
        BY <1>3, <1>4, <3>1
      <3> QED
        BY <1>3, <1>4, <3>1, <3>2
    <2>2. CASE i \notin OverdueAt(call.now)
      BY <2>2 DEF raw
    <2> QED
      BY <2>1, <2>2
  <1>15. ReadSoFar'
    <2> SUFFICES ASSUME NEW j \in OverdueAt(call.now)
                 PROVE  \/ \E n \in DOMAIN raw : raw[n].invoice = j
                        \/ j \notin OnClock /\ Cardinality(Newer(call.found, j)) >= PageSize
                        \/ j \in OnClock /\ (j \in call.left \ {i} \/ call.skipped = "clocks")
      BY <1>7, <1>13 DEF ReadSoFar
    <2>1. CASE j = i
      BY <1>4, <1>14, <2>1
    <2>2. CASE j # i
      BY <1>1, <1>14, <2>2 DEF ReadSoFar
    <2> QED
      BY <2>1, <2>2
  <1> QED
    BY <1>1, <1>7, <1>11, <1>12, <1>15, ListStepKeeps DEF ScanCustomer

(* The list's result: the largest of what was read and wanted, as many as  *)
(* the agent asked for.                                                    *)
LEMMA FinishListKeeps ==
  ASSUME DraftInv, FinishList
  PROVE  DraftInv'
  <1> USE DEF DraftInv
  <1> DEFINE raw == call.raw
             W == WantedPlaces(raw)
             C == ShownPlaces(raw)
             shown == Shown(raw)
  <1>1. call \in ListCall
    BY CallKinds DEF FinishList
  <1>2. raw \in Seq(Reading) /\ call.limit \in Nat /\ call.now \in Days /\ call.days \in Nat
    BY <1>1, DraftingAssumption DEF ListCall
  <1>3. \A m, n \in DOMAIN raw : raw[m].invoice = raw[n].invoice => m = n
    BY <1>1 DEF ReadOnce
  <1>4. C \subseteq W /\ W \subseteq DOMAIN raw /\ shown = {raw[n] : n \in C}
    BY DEF ShownPlaces, WantedPlaces, Shown
  <1>5. \A n \in W : Wanted(raw[n])
    BY DEF WantedPlaces
  <1>6. /\ \A m \in C, n \in W \ C : Amount[raw[m].invoice] >= Amount[raw[n].invoice]
        /\ W # C => Cardinality(C) = call.limit
        /\ IsFiniteSet(C)
    BY <1>2, CapShowsLargest
  <1>7. /\ facts' = Harvest(shown, call.now, FALSE)
        /\ answer' = [kind |-> "list", shown |-> {r.invoice : r \in shown},
                      now |-> call.now, days |-> call.days, limit |-> call.limit,
                      least |-> call.least, found |-> call.found, skipped |-> call.skipped]
        /\ call' = Idle
        /\ UNCHANGED <<today, open, email, changes, held, proposals>>
        /\ call.at = "scan" /\ call.left = {}
    BY DEF FinishList, stripe
  <1>8. W = {n \in DOMAIN raw : Asked(call, raw[n].invoice)}
    BY DEF WantedPlaces, Wanted
  <1>9. \A n \in DOMAIN raw : raw[n] \in Reading
    BY <1>2
  <1> HIDE DEF raw, W, C, shown
  <1>10. shown \subseteq Reading
    BY <1>4, <1>9
  <1>11. \A r \in shown : r.email \in held[r.invoice]
    BY <1>1, <1>4 DEF Recorded, raw
  <1>12. \A r \in shown : days_overdue(r.invoice, call.now) >= Floor
    <2> SUFFICES ASSUME NEW r \in shown PROVE days_overdue(r.invoice, call.now) >= Floor
      OBVIOUS
    <2>1. days_overdue(r.invoice, call.now) >= call.days
      BY <1>4, <1>5 DEF Wanted, Asked
    <2>2. call.days >= Floor
      BY <1>1 DEF Recorded
    <2>3. days_overdue(r.invoice, call.now) \in Days
      BY <1>2, <1>10, DaysType DEF Reading
    <2> QED
      BY <1>2, <2>1, <2>2, <2>3, DraftingAssumption DEF Days
  <1>13. /\ facts' \in [Invoices -> Facts \cup {None}]
         /\ \A i \in Invoices : facts'[i] # None =>
              facts'[i].email \in held[i] /\ (facts'[i].days < Floor => facts'[i].looked)
    BY <1>2, <1>7, <1>10, <1>11, <1>12, HarvestKeeps
  <1>14. TypeOK'
    BY <1>7, <1>13 DEF TypeOK
  <1>15. Recorded' /\ ReadOnce' /\ ReadSoFar'
    BY <1>7, <1>13, CallKinds DEF Recorded, ReadOnce, ReadSoFar
  <1>16. FloorUnlessLookedUp' /\ AddressOnRecord' /\ QueuedLettersAreReviewed'
    BY <1>7, NoProposal
  <1>17. NothingElseLeftOut'
    <2> DEFINE invoices == {raw[n].invoice : n \in C}
    <2>1. {r.invoice : r \in shown} = invoices
      BY <1>4
    <2> SUFFICES ASSUME NEW i \in OverdueAt(call.now), i \notin invoices, Asked(call, i)
                 PROVE  \/ /\ Cardinality(invoices) = call.limit
                           /\ \A j \in invoices : Amount[j] >= Amount[i]
                        \/ i \notin OnClock /\ Cardinality(Newer(call.found, i)) >= PageSize
                        \/ i \in OnClock /\ call.skipped = "clocks"
      BY <1>7, <2>1 DEF NothingElseLeftOut, OverdueAt, Asked
    <2> HIDE DEF invoices
    <2>2. CASE \E n \in DOMAIN raw : raw[n].invoice = i
      <3>1. PICK n \in DOMAIN raw : raw[n].invoice = i
        BY <2>2
      <3>2. n \in W \ C
        BY <1>8, <3>1 DEF invoices
      <3>3. \A j \in invoices : Amount[j] >= Amount[i]
        BY <1>6, <3>1, <3>2 DEF invoices
      <3> DEFINE f == [m \in C |-> raw[m].invoice]
      <3>4. f \in Bijection(C, invoices)
        BY <1>3, <1>4 DEF Bijection, Injection, Surjection, IsInjective, invoices
      <3>5. Cardinality(invoices) = Cardinality(C)
        BY <1>6, <3>4, FS_Bijection DEF ExistsBijection
      <3> QED
        BY <1>6, <3>2, <3>3, <3>5
    <2>3. CASE ~\E n \in DOMAIN raw : raw[n].invoice = i
      BY <1>1, <1>7, <2>3 DEF ReadSoFar, raw
    <2> QED
      BY <2>2, <2>3
  <1> QED
    BY <1>14, <1>15, <1>16, <1>17

(* Looking up one invoice starts with nothing read.                        *)
LEMMA StartGetKeeps ==
  ASSUME DraftInv, NEW i \in Invoices, StartGet(i)
  PROVE  DraftInv'
  <1> USE DEF DraftInv
  <1> DEFINE c == [at |-> "get", invoice |-> i, tries |-> 0]
  <1>1. call' = c
    BY DEF StartGet
  <1>2. c \in GetCall /\ c \notin ListCall
    BY FirstAttempt DEF GetCall, ListCall
  <1> HIDE DEF c
  <1>3. UNCHANGED <<today, open, email, changes, held, facts, proposals>>
        /\ answer'.kind = "nothing"
    BY DEF StartGet, stripe, Nothing
  <1>4. TypeOK' /\ Recorded' /\ ReadOnce' /\ ReadSoFar'
    BY <1>1, <1>2, <1>3 DEF TypeOK, Recorded, ReadOnce, ReadSoFar
  <1>5. FloorUnlessLookedUp' /\ AddressOnRecord' /\ NothingElseLeftOut'
        /\ QueuedLettersAreReviewed'
    BY <1>3, NoProposal, OtherAnswers
  <1> QED
    BY <1>4, <1>5

(* Its facts are marked as looked up where they are below the floor.       *)
LEMMA FinishGetKeeps ==
  ASSUME DraftInv, FinishGet
  PROVE  DraftInv'
  <1> USE DEF DraftInv
  <1>1. call \in GetCall /\ call.invoice \in Invoices /\ today \in Days
    BY CallKinds DEF FinishGet, GetCall, TypeOK
  <1>2. PICK issue \in Issues :
          facts' = Harvest({project_invoice(call.invoice, issue)}, today, TRUE)
    BY DEF FinishGet
  <1> DEFINE readings == {project_invoice(call.invoice, issue)}
  <1>3. readings \subseteq Reading /\ \A r \in readings : r.email \in held[r.invoice]
    BY <1>1, ReadingType
  <1>4. facts' = Harvest(readings, today, TRUE)
    BY <1>2
  <1> HIDE DEF readings
  <1>5. /\ facts' \in [Invoices -> Facts \cup {None}]
        /\ \A i \in Invoices : facts'[i] # None =>
             facts'[i].email \in held[i] /\ (facts'[i].days < Floor => facts'[i].looked)
    BY <1>1, <1>3, <1>4, HarvestKeeps
  <1>6. /\ UNCHANGED <<today, open, email, changes, held, proposals>>
        /\ call' = Idle /\ answer'.kind = "invoice"
    BY DEF FinishGet, stripe
  <1>7. TypeOK' /\ Recorded' /\ ReadOnce' /\ ReadSoFar'
    BY <1>5, <1>6, CallKinds DEF TypeOK, Recorded, ReadOnce, ReadSoFar
  <1>8. FloorUnlessLookedUp' /\ AddressOnRecord' /\ NothingElseLeftOut'
        /\ QueuedLettersAreReviewed'
    BY <1>6, NoProposal, OtherAnswers
  <1> QED
    BY <1>7, <1>8

(* A call given up teaches the run nothing, or goes on without the scan.   *)
LEMMA GiveUpKeeps ==
  ASSUME DraftInv, GiveUp, UNCHANGED <<stripe, facts, proposals>>
  PROVE  DraftInv'
  <1> USE DEF DraftInv
  <1>1. CASE call.at = "clocks"
    <2>1. call \in ListCall
      BY <1>1, CallKinds
    <2>2. /\ call' \in ListCall /\ call'.raw = call.raw /\ call'.days = call.days
          /\ call'.at = "scan" /\ call'.left = call.left /\ call'.skipped = "clocks"
          /\ call'.now = call.now /\ call'.found = call.found
      BY <1>1, <2>1, FirstAttempt DEF GiveUp, ListCall
    <2>3. call.left \subseteq OnClock
      BY <2>1 DEF ListCall
    <2>4. ReadOnce'
      BY <1>1, <2>1, <2>2, <2>3 DEF ReadOnce
    <2>5. answer' = answer
      BY <1>1 DEF GiveUp
    <2>6. OverdueAt(call.now)' = OverdueAt(call.now)
      BY <2>2 DEF stripe, OverdueAt
    <2>7. ReadSoFar'
      BY <1>1, <2>1, <2>2, <2>6 DEF ReadSoFar
    <2> QED
      BY <2>1, <2>2, <2>4, <2>5, <2>7, ListStepKeeps DEF Recorded
  <1>2. CASE call.at # "clocks"
    <2>1. call' = Idle /\ answer'.kind = "stripe_error"
      BY <1>2 DEF GiveUp
    <2>2. UNCHANGED <<today, open, email, changes, held, facts, proposals>>
      BY DEF stripe
    <2>3. TypeOK' /\ Recorded' /\ ReadOnce' /\ ReadSoFar'
      BY <2>1, <2>2, CallKinds DEF TypeOK, Recorded, ReadOnce, ReadSoFar
    <2>4. FloorUnlessLookedUp' /\ AddressOnRecord' /\ NothingElseLeftOut'
          /\ QueuedLettersAreReviewed'
      BY <2>1, <2>2, NoProposal, OtherAnswers
    <2> QED
      BY <2>3, <2>4
  <1> QED
    BY <1>1, <1>2

(* A rate limit costs an attempt, and the last one the call.               *)
LEMMA RateLimitedKeeps ==
  ASSUME DraftInv, RateLimited
  PROVE  DraftInv'
  <1> USE DEF DraftInv
  <1>1. CASE ~(call.tries + 1 < Attempts)
    BY <1>1, GiveUpKeeps DEF RateLimited
  <1>2. CASE call.tries + 1 < Attempts
    <2>1. call' = [call EXCEPT !.tries = call.tries + 1]
          /\ UNCHANGED <<stripe, facts, answer, proposals>>
      BY <1>2 DEF RateLimited, Retried
    <2>2. ASSUME call.tries \in 0 .. Attempts - 1
          PROVE  call.tries + 1 \in 0 .. Attempts - 1
      BY <1>2, <2>2, DraftingAssumption
    <2>3. CASE call \in ListCall
      <3>1. call.tries + 1 \in 0 .. Attempts - 1
        BY <2>2, <2>3 DEF ListCall
      <3>2. /\ call' \in ListCall /\ call'.raw = call.raw /\ call'.days = call.days
            /\ call'.at = call.at /\ call'.left = call.left /\ call'.now = call.now
            /\ call'.found = call.found /\ call'.skipped = call.skipped
        BY <2>1, <2>3, <3>1 DEF ListCall
      <3>3. ReadOnce'
        BY <2>3, <3>2 DEF ReadOnce
      <3>4. OverdueAt(call.now)' = OverdueAt(call.now)
        BY <2>1, <3>2 DEF stripe, OverdueAt
      <3>5. ReadSoFar'
        BY <2>3, <3>2, <3>4 DEF ReadSoFar
      <3> QED
        BY <2>1, <2>3, <3>2, <3>3, <3>5, ListStepKeeps DEF Recorded
    <2>4. CASE call \in GetCall
      <3>1. call.tries + 1 \in 0 .. Attempts - 1
        BY <2>2, <2>4 DEF GetCall
      <3>2. call' \in GetCall /\ call' \notin ListCall
        BY <2>1, <2>4, <3>1 DEF GetCall, ListCall
      <3>3. UNCHANGED <<today, open, email, changes, held, facts, answer, proposals>>
        BY <2>1 DEF stripe
      <3>4. TypeOK' /\ Recorded' /\ ReadOnce' /\ ReadSoFar'
        BY <3>2, <3>3 DEF TypeOK, Recorded, ReadOnce, ReadSoFar
      <3>5. FloorUnlessLookedUp' /\ AddressOnRecord' /\ QueuedLettersAreReviewed'
        BY <3>3, NoProposal
      <3>6. NothingElseLeftOut'
        BY <3>3 DEF NothingElseLeftOut, OverdueAt
      <3> QED
        BY <3>4, <3>5, <3>6
    <2> QED
      BY <2>3, <2>4, CallKinds DEF RateLimited, Requesting
  <1> QED
    BY <1>1, <1>2

(* A letter goes to the address its facts carry, which are on record.      *)
LEMMA ProposeKeeps ==
  ASSUME DraftInv, NEW i \in Invoices, NEW letter \in Letters, Propose(i, letter)
  PROVE  DraftInv'
  <1> USE DEF DraftInv
  <1>1. UNCHANGED <<today, open, email, changes, held, call, facts>>
        /\ answer'.kind = Refusal(i, letter)
    BY DEF Propose, stripe
  <1>2. Refusal(i, letter) # "list"
    BY LettersAssumption DEF Refusal
  <1>3. Recorded' /\ ReadOnce' /\ ReadSoFar' /\ NothingElseLeftOut'
    BY <1>1, <1>2, OtherAnswers DEF Recorded, ReadOnce, ReadSoFar, OverdueAt
  <1>4. proposals \in Seq(Proposal)
    BY DEF TypeOK
  <1>5. CASE Refusal(i, letter) # "none"
    <2>1. proposals' = proposals
      BY <1>5 DEF Propose
    <2>2. TypeOK'
      BY <1>1, <2>1 DEF TypeOK
    <2> QED
      BY <1>1, <1>3, <2>1, <2>2, NoProposal
  <1>6. CASE Refusal(i, letter) = "none"
    <2> DEFINE x == [invoice |-> i, days |-> facts[i].days, email |-> facts[i].email,
                     letter |-> letter, looked |-> facts[i].looked, pending |-> TRUE]
    <2>1. proposals' = Append(proposals, x)
      BY <1>6 DEF Propose
    <2>2. facts[i] # None /\ facts[i].email # NoEmail
      BY <1>6 DEF Refusal, deliverable
    <2>3. facts[i] \in Facts
      BY <2>2 DEF TypeOK
    <2>4. x \in Proposal
      BY <2>2, <2>3 DEF Facts, Proposal
    <2>5. x.email \in held[x.invoice] /\ (x.days < Floor => x.looked)
      BY <2>2 DEF Recorded
    <2>6. review_letter(letter, i, facts[i]) = {}
      BY <1>6 DEF Refusal
    <2>7. ClaimsNothing(x.letter) /\ BodyIsAbout(x.letter.body, x.invoice, x.days)
      BY <2>6, ReviewIsExact
    <2> HIDE DEF x
    <2>8. proposals' \in Seq(Proposal)
      BY <1>4, <2>1, <2>4
    <2>9. \A n \in DOMAIN proposals' : \/ n \in DOMAIN proposals /\ proposals'[n] = proposals[n]
                                       \/ proposals'[n] = x
      BY <1>4, <2>1, <2>4
    <2>10. FloorUnlessLookedUp' /\ AddressOnRecord'
      BY <1>1, <2>5, <2>9 DEF FloorUnlessLookedUp, AddressOnRecord
    <2>11. TypeOK'
      BY <1>1, <2>8 DEF TypeOK
    <2>12. QueuedLettersAreReviewed'
      <3>1. \A n \in DOMAIN proposals' :
              /\ ClaimsNothing(proposals'[n].letter)
              /\ BodyIsAbout(proposals'[n].letter.body, proposals'[n].invoice, proposals'[n].days)
        BY <2>9, <2>7 DEF QueuedLettersAreReviewed
      <3> QED
        BY <3>1, QueueStands
    <2> QED
      BY <1>3, <2>10, <2>11, <2>12
  <1> QED
    BY <1>5, <1>6

(* Days and payments change nothing a run has read.                        *)
LEMMA DaysAndPaymentsKeep ==
  ASSUME DraftInv, Tomorrow \/ \E i \in Invoices : Pay(i)
  PROVE  DraftInv'
  <1> USE DEF DraftInv
  <1>1. UNCHANGED <<email, held, call, facts, answer, proposals>>
    BY DEF Tomorrow, Pay
  <1>2. today' \in Days /\ changes' \in 0 .. MaxChanges /\ open' \subseteq Invoices
    <2>1. CASE Tomorrow
      BY <2>1, DraftingAssumption DEF Tomorrow, TypeOK, Days
    <2>2. CASE \E i \in Invoices : Pay(i)
      BY <2>2, DraftingAssumption DEF Pay, TypeOK
    <2> QED
      BY <2>1, <2>2
  <1>3. TypeOK' /\ Recorded' /\ ReadOnce'
    BY <1>1, <1>2 DEF TypeOK, Recorded, ReadOnce
  <1>4. FloorUnlessLookedUp' /\ AddressOnRecord' /\ QueuedLettersAreReviewed'
    BY <1>1, NoProposal
  <1>5. open' \subseteq open
    BY DEF Tomorrow, Pay
  <1> QED
    BY <1>1, <1>3, <1>4, <1>5, SameListing

(* An address a customer loses stays one it had.                           *)
LEMMA ChangeAddressKeeps ==
  ASSUME DraftInv, NEW i \in Invoices, ChangeAddress(i)
  PROVE  DraftInv'
  <1> USE DEF DraftInv
  <1>1. UNCHANGED <<today, open, call, facts, answer, proposals>>
    BY DEF ChangeAddress
  <1>2. PICK e \in Addresses \cup {NoEmail} : /\ email' = [email EXCEPT ![i] = e]
                                              /\ held' = [held EXCEPT ![i] = @ \cup {e}]
    BY DEF ChangeAddress
  <1>3. email \in [Invoices -> Addresses \cup {NoEmail}]
        /\ held \in [Invoices -> SUBSET (Addresses \cup {NoEmail})]
    BY DEF TypeOK
  <1>4. /\ \A j \in Invoices : held[j] \subseteq held'[j]
        /\ \A j \in Invoices : email'[j] \in held'[j]
    BY <1>2, <1>3 DEF Recorded
  <1>5. email' \in [Invoices -> Addresses \cup {NoEmail}]
        /\ held' \in [Invoices -> SUBSET (Addresses \cup {NoEmail})]
    BY <1>2, <1>3
  <1>6. changes' \in 0 .. MaxChanges
    BY DraftingAssumption DEF ChangeAddress, TypeOK
  <1>7. TypeOK'
    BY <1>1, <1>5, <1>6 DEF TypeOK
  <1>8. ASSUME call \in ListCall
        PROVE  \A n \in DOMAIN call.raw : call.raw[n].email \in held'[call.raw[n].invoice]
    <2>1. call.raw \in Seq(Reading)
      BY <1>8 DEF ListCall
    <2>2. \A n \in DOMAIN call.raw : call.raw[n] \in Reading
      BY <2>1
    <2>3. \A n \in DOMAIN call.raw : call.raw[n].invoice \in Invoices
      BY <2>2 DEF Reading
    <2> QED
      BY <1>4, <1>8, <2>3 DEF Recorded
  <1>9. Recorded' /\ ReadOnce'
    BY <1>1, <1>4, <1>8 DEF Recorded, ReadOnce
  <1>10. \A n \in DOMAIN proposals : proposals[n].invoice \in Invoices
    <2>1. \A n \in DOMAIN proposals : proposals[n] \in Proposal
      BY DEF TypeOK
    <2> QED
      BY <2>1 DEF Proposal
  <1>11. FloorUnlessLookedUp' /\ AddressOnRecord' /\ QueuedLettersAreReviewed'
    BY <1>1, <1>4, <1>10, NoProposal
  <1> QED
    BY <1>1, <1>7, <1>9, <1>11, SameListing

(* A decision on a proposal changes nothing else about it.                 *)
LEMMA SettleKeeps ==
  ASSUME DraftInv, Settle
  PROVE  DraftInv'
  <1> USE DEF DraftInv
  <1>1. UNCHANGED <<today, open, email, changes, held, call, facts, answer>>
    BY DEF Settle, stripe
  <1>2. PICK n \in DOMAIN proposals : proposals' = [proposals EXCEPT ![n].pending = FALSE]
    BY DEF Settle
  <1>3. proposals \in Seq(Proposal) /\ \A m \in DOMAIN proposals : proposals[m] \in Proposal
    BY DEF TypeOK
  <1>4. /\ DOMAIN proposals' = DOMAIN proposals
        /\ \A m \in DOMAIN proposals :
             /\ proposals'[m] \in Proposal
             /\ proposals'[m].invoice = proposals[m].invoice
             /\ proposals'[m].days = proposals[m].days
             /\ proposals'[m].email = proposals[m].email
             /\ proposals'[m].looked = proposals[m].looked
             /\ proposals'[m].letter = proposals[m].letter
    BY <1>2, <1>3 DEF Proposal
  <1>5. proposals' \in Seq(Proposal)
    <2> DEFINE x == [proposals[n] EXCEPT !.pending = FALSE]
    <2>1. x \in Proposal
      BY <1>3 DEF Proposal
    <2>2. proposals' = [proposals EXCEPT ![n] = x]
      BY <1>2
    <2> HIDE DEF x
    <2> QED
      BY <1>3, <2>1, <2>2
  <1>6. TypeOK' /\ Recorded' /\ ReadOnce'
    BY <1>1, <1>5 DEF TypeOK, Recorded, ReadOnce
  <1>7. FloorUnlessLookedUp' /\ AddressOnRecord'
    BY <1>1, <1>4 DEF FloorUnlessLookedUp, AddressOnRecord
  <1>8. QueuedLettersAreReviewed'
    BY <1>4, QueueStands DEF QueuedLettersAreReviewed
  <1> QED
    BY <1>1, <1>6, <1>7, <1>8, SameListing

-----------------------------------------------------------------------------
(* The main results *)

(* A run begins with nothing read and nothing proposed.                    *)
LEMMA InitDraft == Init => DraftInv
  <1> SUFFICES ASSUME Init PROVE DraftInv
    OBVIOUS
  <1> USE DEF Init
  <1>1. email \in [Invoices -> Addresses \cup {NoEmail}]
    OBVIOUS
  <1>2. held \in [Invoices -> SUBSET (Addresses \cup {NoEmail})]
        /\ \A i \in Invoices : email[i] \in held[i]
    BY <1>1
  <1>3. today \in Days /\ changes \in 0 .. MaxChanges
    BY DraftingAssumption DEF Days
  <1>4. facts \in [Invoices -> Facts \cup {None}] /\ \A i \in Invoices : facts[i] = None
    OBVIOUS
  <1>5. call = Idle /\ Idle \notin ListCall
    BY DEF Idle, ListCall
  <1>6. proposals \in Seq(Proposal) /\ DOMAIN proposals = {}
    OBVIOUS
  <1>7. TypeOK
    BY <1>1, <1>2, <1>3, <1>4, <1>5, <1>6 DEF TypeOK
  <1>8. Recorded /\ ReadOnce /\ ReadSoFar
    BY <1>2, <1>4, <1>5 DEF Recorded, ReadOnce, ReadSoFar
  <1>9. FloorUnlessLookedUp /\ AddressOnRecord /\ NothingElseLeftOut
        /\ QueuedLettersAreReviewed
    BY <1>4, <1>6 DEF FloorUnlessLookedUp, AddressOnRecord, NothingElseLeftOut,
                      QueuedLettersAreReviewed, Nothing
  <1> QED
    BY <1>7, <1>8, <1>9 DEF DraftInv

(* Every step of a tool, of Stripe, of the calendar and of the operator    *)
(* keeps the invariant.                                                    *)
LEMMA NextDraft == DraftInv /\ [Next]_vars => DraftInv'
  <1> SUFFICES ASSUME DraftInv, [Next]_vars PROVE DraftInv'
    OBVIOUS
  <1>1. CASE \E requested \in Thresholds, limit \in Limits, least \in Minima :
                StartList(requested, limit, least)
    BY <1>1, StartListKeeps
  <1>2. CASE ReadPage
    BY <1>2, ReadPageKeeps
  <1>3. CASE ListClocks \/ ListClockCustomers
    BY <1>3, ClocksKeep
  <1>4. CASE ScanCustomer
    BY <1>4, ScanKeeps
  <1>5. CASE FinishList
    BY <1>5, FinishListKeeps
  <1>6. CASE \E i \in Invoices : StartGet(i)
    BY <1>6, StartGetKeeps
  <1>7. CASE FinishGet
    BY <1>7, FinishGetKeeps
  <1>8. CASE RateLimited
    BY <1>8, RateLimitedKeeps
  <1>9. CASE StripeError
    BY <1>9, GiveUpKeeps DEF StripeError
  <1>10. CASE \E i \in Invoices, letter \in Letters : Propose(i, letter)
    BY <1>10, ProposeKeeps
  <1>11. CASE Tomorrow \/ \E i \in Invoices : Pay(i)
    BY <1>11, DaysAndPaymentsKeep
  <1>12. CASE \E i \in Invoices : ChangeAddress(i)
    BY <1>12, ChangeAddressKeeps
  <1>13. CASE Settle
    BY <1>13, SettleKeeps
  <1>14. CASE UNCHANGED vars
    <2>1. UNCHANGED <<today, open, email, changes, held, call, facts, answer, proposals>>
      BY <1>14 DEF vars
    <2>2. TypeOK' /\ Recorded' /\ ReadOnce'
      BY <2>1 DEF DraftInv, TypeOK, Recorded, ReadOnce
    <2>3. FloorUnlessLookedUp' /\ AddressOnRecord' /\ QueuedLettersAreReviewed'
      BY <2>1, NoProposal DEF DraftInv
    <2> QED
      BY <2>1, <2>2, <2>3, SameListing DEF DraftInv
  <1> QED
    BY <1>1, <1>2, <1>3, <1>4, <1>5, <1>6, <1>7, <1>8, <1>9, <1>10, <1>11, <1>12, <1>13, <1>14
    DEF Next

(* DraftInv holds in every reachable state, whatever the account, and      *)
(* however Stripe's records and the calendar change between requests.      *)
THEOREM DraftInvariant == Spec => []DraftInv
  BY InitDraft, NextDraft, PTL DEF Spec

(* The variables keep their types: a call stays within its attempts, and a *)
(* proposal always has an address.                                         *)
THEOREM DraftTypesCorrect == Spec => []TypeOK
  BY DraftInvariant, PTL DEF DraftInv

(* The operator's floor holds, but for invoices get_invoice looked up.     *)
THEOREM FloorHolds == Spec => []FloorUnlessLookedUp
  BY DraftInvariant, PTL DEF DraftInv

(* An invoice that a list asks for and that stays open is in its answer,   *)
(* unless the answer is full of larger ones, a full page of newer ones     *)
(* precedes it, or the test clocks it is on could not be listed.           *)
THEOREM ListsLeaveOutNothingElse == Spec => []NothingElseLeftOut
  BY DraftInvariant, PTL DEF DraftInv

(* A proposal is addressed where its customer could be reached at some     *)
(* time in the run.                                                        *)
THEOREM LettersGoToCustomers == Spec => []AddressOnRecord
  BY DraftInvariant, PTL DEF DraftInv

(* Every queued letter's body is about its invoice, neither its subject    *)
(* nor its body claims what no letter may, and the review is no trap.      *)
THEOREM QueueIsReviewed == Spec => []QueuedLettersAreReviewed
  BY DraftInvariant, PTL DEF DraftInv
=============================================================================
