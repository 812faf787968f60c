-------------------------- MODULE TranscriptProofs --------------------------
(***************************************************************************)
(* One run's conversation, its record and its readers, for any number of   *)
(* customers, turns, calls, failures, tabs and cuts.                       *)
(***************************************************************************)
EXTENDS Transcript, Counting

-----------------------------------------------------------------------------
(* What a step of the record is *)

Tools == {"list", "history", "letter"}

LEMMA StepKinds ==
  ASSUME NEW s \in Step
  PROVE  /\ s.type \in {"message", "tool_call", "tool_result"}
         /\ s.type = "message" => s = Message
         /\ IsCall(s) => s \in CallStep
         /\ IsResult(s) => s \in ResultStep
  <1>1. CASE s = Message
    BY <1>1 DEF Message, IsCall, IsResult
  <1>2. CASE s \in CallStep
    BY <1>2 DEF CallStep, IsCall, IsResult
  <1>3. CASE s \in ResultStep
    BY <1>3 DEF ResultStep, IsCall, IsResult
  <1> QED
    BY <1>1, <1>2, <1>3 DEF Step

LEMMA CallFields ==
  ASSUME NEW s \in CallStep
  PROVE  /\ IsCall(s) /\ ~IsResult(s) /\ s.tool \in Tools /\ s.id \in Nat
         /\ s.of \in Customers \cup {None}
         /\ s.tool # "list" => s.of \in Customers
  BY DEF CallStep, IsCall, IsResult, Tools

LEMMA ResultFields ==
  ASSUME NEW s \in ResultStep
  PROVE  /\ IsResult(s) /\ ~IsCall(s) /\ s.tool \in Tools /\ s.id \in Nat /\ s.error \in BOOLEAN
         /\ s.result \in Listing \cup History \cup {None}
         /\ s.tool = "list" /\ ~s.error => s.result \in Listing
         /\ s.tool = "history" /\ ~s.error => s.result \in History
  BY DEF ResultStep, IsCall, IsResult, Tools

-----------------------------------------------------------------------------
(* Each computation along a sequence keeps its type and takes one step for *)
(* each element.                                                           *)

Reader == [asked : Customers \cup {None}, id : Nat \cup {None}, found : Nat \cup {None}]

LEMMA NothingRead == Unasked(None) \in Reader
  BY DEF Unasked, Reader

LEMMA ReadType ==
  ASSUME NEW c, NEW acc \in Reader, NEW s \in Step
  PROVE  ReadHistory(c, acc, s) \in Reader
  <1>1. CASE s.tool # "history"
    BY <1>1 DEF ReadHistory
  <1>2. CASE s.tool = "history" /\ IsCall(s)
    BY <1>2, StepKinds, CallFields DEF ReadHistory, Reader
  <1>3. CASE s.tool = "history" /\ ~IsCall(s)
    <2>1. s \in ResultStep
      BY <1>3, StepKinds DEF Message, IsCall, IsResult
    <2>2. ~s.error => s.result.version \in Nat
      BY <1>3, <2>1, ResultFields DEF History
    <2>3. \A found \in Nat \cup {None} : Unasked(found) \in Reader
      BY DEF Unasked, Reader
    <2>4. acc.found \in Nat \cup {None}
      BY DEF Reader
    <2> QED
      BY <1>3, <2>2, <2>3, <2>4 DEF ReadHistory
  <1> QED
    BY <1>1, <1>2, <1>3

Blocks == Seq(Block)

LEMMA NoBlocks == <<>> \in Blocks
  BY DEF Blocks

LEMMA SerialisedType ==
  ASSUME NEW call, NEW result \in Listing \cup History \cup {None}
  PROVE  serialise(call, result) \in [text : Listing \cup History \cup {None}, cut : BOOLEAN]
  BY DEF serialise

LEMMA AsGivenType ==
  ASSUME NEW s \in ResultStep
  PROVE  AsGiven(s) \in Block
  BY ResultFields, SerialisedType DEF AsGiven, Block

LEMMA TellType ==
  ASSUME NEW blocks \in Blocks, NEW s \in Step
  PROVE  Tell(blocks, s) \in Blocks
  BY StepKinds, AsGivenType DEF Tell, Blocks

LEMMA GiveType ==
  ASSUME NEW blocks \in Blocks, NEW m \in Turn
  PROVE  Give(blocks, m) \in Blocks
  BY DEF Give, Blocks, Turn

Index == [Customers -> [invoice : Names \cup {None}, customer : Names \cup {None}]]

LEMMA NothingNamed == Unnamed \in Index
  BY DEF Unnamed, Index

LEMMA RowsNamed ==
  ASSUME NEW s \in Step, NEW c \in Customers, c \in DOMAIN NamesIn(s)
  PROVE  NamesIn(s)[c] \in Names \cup {None}
  <1>1. IsResult(s) /\ ~s.error /\ s.tool \in {"list", "history"}
    BY DEF NamesIn
  <1>2. s \in ResultStep
    BY <1>1, StepKinds
  <1>3. CASE s.tool = "list"
    BY <1>1, <1>2, <1>3, ResultFields, TranscriptAssumption DEF NamesIn, Listing
  <1>4. CASE s.tool = "history"
    BY <1>1, <1>4 DEF NamesIn
  <1> QED
    BY <1>1, <1>3, <1>4

LEMMA LearnType ==
  ASSUME NEW index \in Index, NEW s \in Step
  PROVE  Learn(index, s) \in Index
  BY RowsNamed DEF Learn, Index, Merge

Rows == Seq([seq : Nat, answer : Nat])

LEMMA RowsAre ==
  ASSUME NEW rows \in Rows
  PROVE  rows \in [1 .. Len(rows) -> [seq : Nat, answer : Nat]] /\ Len(rows) \in Nat
  <1> DEFINE R == [seq : Nat, answer : Nat]
  <1>1. rows \in Seq(R)
    BY DEF Rows
  <1> HIDE DEF R
  <1>2. rows \in [1 .. Len(rows) -> R] /\ Len(rows) \in Nat
    BY <1>1
  <1> QED
    BY <1>2 DEF R

LEMMA AreRows ==
  ASSUME NEW n \in Nat, NEW t \in [1 .. n -> [seq : Nat, answer : Nat]]
  PROVE  t \in Rows
  <1> DEFINE R == [seq : Nat, answer : Nat]
  <1>1. t \in [1 .. n -> R]
    OBVIOUS
  <1> HIDE DEF R
  <1>2. t \in Seq(R)
    BY <1>1
  <1> QED
    BY <1>2 DEF Rows, R

LEMMA FillType ==
  ASSUME NEW rows \in Rows, NEW i, NEW k \in Nat
  PROVE  [rows EXCEPT ![i].answer = k] \in Rows
  <1> DEFINE t == [rows EXCEPT ![i].answer = k]
  <1>1. rows \in [1 .. Len(rows) -> [seq : Nat, answer : Nat]] /\ Len(rows) \in Nat
    BY RowsAre
  <1>2. t = [n \in 1 .. Len(rows) |-> IF n = i THEN [rows[n] EXCEPT !.answer = k] ELSE rows[n]]
    BY <1>1
  <1>3. \A n \in 1 .. Len(rows) : [rows[n] EXCEPT !.answer = k] \in [seq : Nat, answer : Nat]
    BY <1>1
  <1> HIDE DEF t
  <1>4. t \in [1 .. Len(rows) -> [seq : Nat, answer : Nat]]
    BY <1>1, <1>2, <1>3
  <1>5. t \in Rows
    BY <1>1, <1>4, AreRows
  <1> QED
    BY <1>5 DEF t

LEMMA NoRows == <<>> \in Rows
  BY DEF Rows

LEMMA FoldType ==
  ASSUME NEW rows \in Rows, NEW k \in Nat
  PROVE  Fold(rows, k) \in Rows
  <1>1. Row(k) \in [seq : Nat, answer : Nat]
    BY DEF Row
  <1>2. [rows EXCEPT ![Len(rows)].answer = k] \in Rows
    BY FillType
  <1>3. Append(rows, Row(k)) \in Rows
    BY <1>1 DEF Rows
  <1> QED
    BY <1>2, <1>3 DEF Fold

Sheets == [rows : Rows, open : Nat]

LEMMA DrawType ==
  ASSUME NEW view \in Sheets, NEW k \in Nat
  PROVE  Draw(view, k) \in Sheets
  <1>1. Row(k) \in [seq : Nat, answer : Nat] /\ view.rows \in Rows /\ view.open \in Nat
    BY DEF Row, Sheets
  <1>2. [view.rows EXCEPT ![view.open].answer = k] \in Rows
    BY <1>1, FillType
  <1>3. Append(view.rows, Row(k)) \in Rows /\ Len(view.rows) + 1 \in Nat
    BY <1>1 DEF Rows
  <1>4. DrawResult(view, k) \in Sheets
    BY <1>2, <1>3 DEF DrawResult, Sheets
  <1> QED
    BY <1>3, <1>4 DEF Draw, Sheets

(* What a payment history is read from.                                    *)
LEMMA ThroughHistory ==
  ASSUME NEW c, NEW seq \in Seq(Step)
  PROVE  \E f \in [0 .. Len(seq) -> Reader] :
            /\ f[0] = Unasked(None)
            /\ \A n \in 1 .. Len(seq) : f[n] = ReadHistory(c, f[n - 1], seq[n])
            /\ HistoryRead(seq, c) = f[Len(seq)]
  <1> DEFINE N == Len(seq)
             G == [p \in Reader \X (1 .. N) |-> ReadHistory(c, p[1], seq[p[2]])]
             IsIt(g) == g = [n \in 0 .. N |-> IF n = 0 THEN Unasked(None)
                                               ELSE ReadHistory(c, g[n - 1], seq[n])]
  <1>1. N \in Nat /\ Unasked(None) \in Reader /\ \A n \in 1 .. N : seq[n] \in Step
    BY ReadType, NothingRead
  <1>2. \A p \in Reader \X (1 .. N) : ReadHistory(c, p[1], seq[p[2]]) \in Reader
    BY <1>1, ReadType, NothingRead
  <1>3. G \in [Reader \X (1 .. N) -> Reader]
    BY <1>2
  <1>4. \A d \in Reader, n \in 1 .. N : G[<<d, n>>] = ReadHistory(c, d, seq[n])
    OBVIOUS
  <1> DEFINE u == CHOOSE g : IsIt(g)
  <1>5. HistoryRead(seq, c) = u[N]
    BY DEF HistoryRead, Through, Unasked
  <1> HIDE DEF G, N
  <1>6. PICK f \in [0 .. N -> Reader] : Computes(f, N, Unasked(None), G)
    BY <1>1, <1>3, Computed, Zenon
  <1>7. f[0] = Unasked(None) /\ \A n \in 1 .. N : f[n] = G[<<f[n - 1], n>>]
    BY <1>6 DEF Computes
  <1>8. ASSUME NEW n \in 1 .. N
        PROVE  f[n] = ReadHistory(c, f[n - 1], seq[n])
    <2>1. n - 1 \in 0 .. N
      BY <1>1
    <2> QED
      BY <1>4, <1>7, <2>1
  <1>9. IsIt(f)
    BY <1>1, <1>7, <1>8
  <1>10. IsIt(u)
    BY <1>9
  <1> HIDE DEF u
  <1>11. u[0] = Unasked(None) /\ \A n \in 1 .. N : u[n] = ReadHistory(c, u[n - 1], seq[n])
    BY <1>1, <1>10
  <1>12. Alike(u, f, N)
    BY <1>7, <1>8, <1>11 DEF Alike
  <1>13. \A n \in 0 .. N : u[n] = f[n]
    BY <1>1, <1>12, AgreeUpTo, Zenon
  <1>14. HistoryRead(seq, c) = f[N]
    BY <1>1, <1>5, <1>13
  <1> QED
    BY <1>7, <1>8, <1>14 DEF N

(* What the record says the model was given.                               *)
LEMMA ThroughTell ==
  ASSUME NEW seq \in Seq(Step)
  PROVE  \E f \in [0 .. Len(seq) -> Blocks] :
            /\ f[0] = <<>>
            /\ \A n \in 1 .. Len(seq) : f[n] = Tell(f[n - 1], seq[n])
            /\ Told(seq) = f[Len(seq)]
  <1> DEFINE N == Len(seq)
             G == [p \in Blocks \X (1 .. N) |-> Tell(p[1], seq[p[2]])]
             IsIt(g) == g = [n \in 0 .. N |-> IF n = 0 THEN <<>>
                                               ELSE Tell(g[n - 1], seq[n])]
  <1>1. N \in Nat /\ <<>> \in Blocks /\ \A n \in 1 .. N : seq[n] \in Step
    BY TellType, NoBlocks
  <1>2. \A p \in Blocks \X (1 .. N) : Tell(p[1], seq[p[2]]) \in Blocks
    BY <1>1, TellType, NoBlocks
  <1>3. G \in [Blocks \X (1 .. N) -> Blocks]
    BY <1>2
  <1>4. \A d \in Blocks, n \in 1 .. N : G[<<d, n>>] = Tell(d, seq[n])
    OBVIOUS
  <1> DEFINE u == CHOOSE g : IsIt(g)
  <1>5. Told(seq) = u[N]
    BY DEF Told, Through
  <1> HIDE DEF G, N
  <1>6. PICK f \in [0 .. N -> Blocks] : Computes(f, N, <<>>, G)
    BY <1>1, <1>3, Computed, Zenon
  <1>7. f[0] = <<>> /\ \A n \in 1 .. N : f[n] = G[<<f[n - 1], n>>]
    BY <1>6 DEF Computes
  <1>8. ASSUME NEW n \in 1 .. N
        PROVE  f[n] = Tell(f[n - 1], seq[n])
    <2>1. n - 1 \in 0 .. N
      BY <1>1
    <2> QED
      BY <1>4, <1>7, <2>1
  <1>9. IsIt(f)
    BY <1>1, <1>7, <1>8
  <1>10. IsIt(u)
    BY <1>9
  <1> HIDE DEF u
  <1>11. u[0] = <<>> /\ \A n \in 1 .. N : u[n] = Tell(u[n - 1], seq[n])
    BY <1>1, <1>10
  <1>12. Alike(u, f, N)
    BY <1>7, <1>8, <1>11 DEF Alike
  <1>13. \A n \in 0 .. N : u[n] = f[n]
    BY <1>1, <1>12, AgreeUpTo, Zenon
  <1>14. Told(seq) = f[N]
    BY <1>1, <1>5, <1>13
  <1> QED
    BY <1>7, <1>8, <1>14 DEF N

(* What the model was given.                                               *)
LEMMA ThroughGive ==
  ASSUME NEW seq \in Seq(Turn)
  PROVE  \E f \in [0 .. Len(seq) -> Blocks] :
            /\ f[0] = <<>>
            /\ \A n \in 1 .. Len(seq) : f[n] = Give(f[n - 1], seq[n])
            /\ Given(seq) = f[Len(seq)]
  <1> DEFINE N == Len(seq)
             G == [p \in Blocks \X (1 .. N) |-> Give(p[1], seq[p[2]])]
             IsIt(g) == g = [n \in 0 .. N |-> IF n = 0 THEN <<>>
                                               ELSE Give(g[n - 1], seq[n])]
  <1>1. N \in Nat /\ <<>> \in Blocks /\ \A n \in 1 .. N : seq[n] \in Turn
    BY GiveType, NoBlocks
  <1>2. \A p \in Blocks \X (1 .. N) : Give(p[1], seq[p[2]]) \in Blocks
    BY <1>1, GiveType, NoBlocks
  <1>3. G \in [Blocks \X (1 .. N) -> Blocks]
    BY <1>2
  <1>4. \A d \in Blocks, n \in 1 .. N : G[<<d, n>>] = Give(d, seq[n])
    OBVIOUS
  <1> DEFINE u == CHOOSE g : IsIt(g)
  <1>5. Given(seq) = u[N]
    BY DEF Given, Through
  <1> HIDE DEF G, N
  <1>6. PICK f \in [0 .. N -> Blocks] : Computes(f, N, <<>>, G)
    BY <1>1, <1>3, Computed, Zenon
  <1>7. f[0] = <<>> /\ \A n \in 1 .. N : f[n] = G[<<f[n - 1], n>>]
    BY <1>6 DEF Computes
  <1>8. ASSUME NEW n \in 1 .. N
        PROVE  f[n] = Give(f[n - 1], seq[n])
    <2>1. n - 1 \in 0 .. N
      BY <1>1
    <2> QED
      BY <1>4, <1>7, <2>1
  <1>9. IsIt(f)
    BY <1>1, <1>7, <1>8
  <1>10. IsIt(u)
    BY <1>9
  <1> HIDE DEF u
  <1>11. u[0] = <<>> /\ \A n \in 1 .. N : u[n] = Give(u[n - 1], seq[n])
    BY <1>1, <1>10
  <1>12. Alike(u, f, N)
    BY <1>7, <1>8, <1>11 DEF Alike
  <1>13. \A n \in 0 .. N : u[n] = f[n]
    BY <1>1, <1>12, AgreeUpTo, Zenon
  <1>14. Given(seq) = f[N]
    BY <1>1, <1>5, <1>13
  <1> QED
    BY <1>7, <1>8, <1>14 DEF N

(* The names learned from a record.                                        *)
LEMMA ThroughLearn ==
  ASSUME NEW seq \in Seq(Step)
  PROVE  \E f \in [0 .. Len(seq) -> Index] :
            /\ f[0] = Unnamed
            /\ \A n \in 1 .. Len(seq) : f[n] = Learn(f[n - 1], seq[n])
            /\ transcript_index(seq) = f[Len(seq)]
  <1> DEFINE N == Len(seq)
             G == [p \in Index \X (1 .. N) |-> Learn(p[1], seq[p[2]])]
             IsIt(g) == g = [n \in 0 .. N |-> IF n = 0 THEN Unnamed
                                               ELSE Learn(g[n - 1], seq[n])]
  <1>1. N \in Nat /\ Unnamed \in Index /\ \A n \in 1 .. N : seq[n] \in Step
    BY LearnType, NothingNamed
  <1>2. \A p \in Index \X (1 .. N) : Learn(p[1], seq[p[2]]) \in Index
    BY <1>1, LearnType, NothingNamed
  <1>3. G \in [Index \X (1 .. N) -> Index]
    BY <1>2
  <1>4. \A d \in Index, n \in 1 .. N : G[<<d, n>>] = Learn(d, seq[n])
    OBVIOUS
  <1> DEFINE u == CHOOSE g : IsIt(g)
  <1>5. transcript_index(seq) = u[N]
    BY DEF transcript_index, Through
  <1> HIDE DEF G, N
  <1>6. PICK f \in [0 .. N -> Index] : Computes(f, N, Unnamed, G)
    BY <1>1, <1>3, Computed, Zenon
  <1>7. f[0] = Unnamed /\ \A n \in 1 .. N : f[n] = G[<<f[n - 1], n>>]
    BY <1>6 DEF Computes
  <1>8. ASSUME NEW n \in 1 .. N
        PROVE  f[n] = Learn(f[n - 1], seq[n])
    <2>1. n - 1 \in 0 .. N
      BY <1>1
    <2> QED
      BY <1>4, <1>7, <2>1
  <1>9. IsIt(f)
    BY <1>1, <1>7, <1>8
  <1>10. IsIt(u)
    BY <1>9
  <1> HIDE DEF u
  <1>11. u[0] = Unnamed /\ \A n \in 1 .. N : u[n] = Learn(u[n - 1], seq[n])
    BY <1>1, <1>10
  <1>12. Alike(u, f, N)
    BY <1>7, <1>8, <1>11 DEF Alike
  <1>13. \A n \in 0 .. N : u[n] = f[n]
    BY <1>1, <1>12, AgreeUpTo, Zenon
  <1>14. transcript_index(seq) = f[N]
    BY <1>1, <1>5, <1>13
  <1> QED
    BY <1>7, <1>8, <1>14 DEF N

(* The rows of a page when it is opened.                                   *)
LEMMA ThroughFold ==
  ASSUME NEW seq \in Seq(Nat)
  PROVE  \E f \in [0 .. Len(seq) -> Rows] :
            /\ f[0] = <<>>
            /\ \A n \in 1 .. Len(seq) : f[n] = Fold(f[n - 1], seq[n])
            /\ Folded(seq) = f[Len(seq)]
  <1> DEFINE N == Len(seq)
             G == [p \in Rows \X (1 .. N) |-> Fold(p[1], seq[p[2]])]
             IsIt(g) == g = [n \in 0 .. N |-> IF n = 0 THEN <<>>
                                               ELSE Fold(g[n - 1], seq[n])]
  <1>1. N \in Nat /\ <<>> \in Rows /\ \A n \in 1 .. N : seq[n] \in Nat
    BY FoldType, NoRows
  <1>2. \A p \in Rows \X (1 .. N) : Fold(p[1], seq[p[2]]) \in Rows
    BY <1>1, FoldType, NoRows
  <1>3. G \in [Rows \X (1 .. N) -> Rows]
    BY <1>2
  <1>4. \A d \in Rows, n \in 1 .. N : G[<<d, n>>] = Fold(d, seq[n])
    OBVIOUS
  <1> DEFINE u == CHOOSE g : IsIt(g)
  <1>5. Folded(seq) = u[N]
    BY DEF Folded, Through
  <1> HIDE DEF G, N
  <1>6. PICK f \in [0 .. N -> Rows] : Computes(f, N, <<>>, G)
    BY <1>1, <1>3, Computed, Zenon
  <1>7. f[0] = <<>> /\ \A n \in 1 .. N : f[n] = G[<<f[n - 1], n>>]
    BY <1>6 DEF Computes
  <1>8. ASSUME NEW n \in 1 .. N
        PROVE  f[n] = Fold(f[n - 1], seq[n])
    <2>1. n - 1 \in 0 .. N
      BY <1>1
    <2> QED
      BY <1>4, <1>7, <2>1
  <1>9. IsIt(f)
    BY <1>1, <1>7, <1>8
  <1>10. IsIt(u)
    BY <1>9
  <1> HIDE DEF u
  <1>11. u[0] = <<>> /\ \A n \in 1 .. N : u[n] = Fold(u[n - 1], seq[n])
    BY <1>1, <1>10
  <1>12. Alike(u, f, N)
    BY <1>7, <1>8, <1>11 DEF Alike
  <1>13. \A n \in 0 .. N : u[n] = f[n]
    BY <1>1, <1>12, AgreeUpTo, Zenon
  <1>14. Folded(seq) = f[N]
    BY <1>1, <1>5, <1>13
  <1> QED
    BY <1>7, <1>8, <1>14 DEF N

(* The rows a page draws.                                                  *)
LEMMA ThroughDraw ==
  ASSUME NEW view \in Sheets, NEW seq \in Seq(Nat)
  PROVE  \E f \in [0 .. Len(seq) -> Sheets] :
            /\ f[0] = view
            /\ \A n \in 1 .. Len(seq) : f[n] = Draw(f[n - 1], seq[n])
            /\ Drawn(view, seq) = f[Len(seq)]
  <1> DEFINE N == Len(seq)
             G == [p \in Sheets \X (1 .. N) |-> Draw(p[1], seq[p[2]])]
             IsIt(g) == g = [n \in 0 .. N |-> IF n = 0 THEN view
                                               ELSE Draw(g[n - 1], seq[n])]
  <1>1. N \in Nat /\ view \in Sheets /\ \A n \in 1 .. N : seq[n] \in Nat
    BY DrawType
  <1>2. \A p \in Sheets \X (1 .. N) : Draw(p[1], seq[p[2]]) \in Sheets
    BY <1>1, DrawType
  <1>3. G \in [Sheets \X (1 .. N) -> Sheets]
    BY <1>2
  <1>4. \A d \in Sheets, n \in 1 .. N : G[<<d, n>>] = Draw(d, seq[n])
    OBVIOUS
  <1> DEFINE u == CHOOSE g : IsIt(g)
  <1>5. Drawn(view, seq) = u[N]
    BY DEF Drawn, Through
  <1> HIDE DEF G, N
  <1>6. PICK f \in [0 .. N -> Sheets] : Computes(f, N, view, G)
    BY <1>1, <1>3, Computed, Zenon
  <1>7. f[0] = view /\ \A n \in 1 .. N : f[n] = G[<<f[n - 1], n>>]
    BY <1>6 DEF Computes
  <1>8. ASSUME NEW n \in 1 .. N
        PROVE  f[n] = Draw(f[n - 1], seq[n])
    <2>1. n - 1 \in 0 .. N
      BY <1>1
    <2> QED
      BY <1>4, <1>7, <2>1
  <1>9. IsIt(f)
    BY <1>1, <1>7, <1>8
  <1>10. IsIt(u)
    BY <1>9
  <1> HIDE DEF u
  <1>11. u[0] = view /\ \A n \in 1 .. N : u[n] = Draw(u[n - 1], seq[n])
    BY <1>1, <1>10
  <1>12. Alike(u, f, N)
    BY <1>7, <1>8, <1>11 DEF Alike
  <1>13. \A n \in 0 .. N : u[n] = f[n]
    BY <1>1, <1>12, AgreeUpTo, Zenon
  <1>14. Drawn(view, seq) = f[N]
    BY <1>1, <1>5, <1>13
  <1> QED
    BY <1>7, <1>8, <1>14 DEF N

LEMMA HistoryStarts ==
  ASSUME NEW c
  PROVE  HistoryRead(<<>>, c) = Unasked(None)
  <1>1. <<>> \in Seq(Step) /\ Len(<<>>) = 0
    OBVIOUS
  <1>2. PICK h \in [0 .. Len(<<>>) -> Reader] :
            h[0] = Unasked(None) /\ HistoryRead(<<>>, c) = h[Len(<<>>)]
    BY <1>1, ThroughHistory
  <1> QED
    BY <1>1, <1>2

LEMMA HistoryAppends ==
  ASSUME NEW c, NEW seq \in Seq(Step), NEW e \in Step
  PROVE  /\ HistoryRead(seq, c) \in Reader
         /\ HistoryRead(Append(seq, e), c) = ReadHistory(c, HistoryRead(seq, c), e)
  <1> DEFINE N == Len(seq)
             longer == Append(seq, e)
  <1>1. /\ N \in Nat /\ longer \in Seq(Step) /\ Len(longer) = N + 1 /\ longer[N + 1] = e
        /\ \A n \in 1 .. N : longer[n] = seq[n]
    OBVIOUS
  <1>2. PICK f \in [0 .. N -> Reader] :
            /\ f[0] = Unasked(None)
            /\ \A n \in 1 .. N : f[n] = ReadHistory(c, f[n - 1], seq[n])
            /\ HistoryRead(seq, c) = f[N]
    BY ThroughHistory, Zenon
  <1> HIDE DEF longer, N
  <1>3. PICK g \in [0 .. Len(longer) -> Reader] :
            /\ g[0] = Unasked(None)
            /\ \A n \in 1 .. Len(longer) : g[n] = ReadHistory(c, g[n - 1], longer[n])
            /\ HistoryRead(longer, c) = g[Len(longer)]
    BY <1>1, ThroughHistory, Zenon
  <1>4. \A n \in 1 .. N : n \in 1 .. Len(longer)
    BY <1>1
  <1>5. Alike(f, g, N)
    BY <1>1, <1>2, <1>3, <1>4 DEF Alike
  <1>6. \A n \in 0 .. N : f[n] = g[n]
    <2>1. N \in Nat
      BY <1>1
    <2> QED
      BY <1>5, <2>1, AgreeUpTo, Zenon
  <1>7. N + 1 \in 1 .. Len(longer) /\ (N + 1) - 1 = N /\ N \in 0 .. N
    BY <1>1
  <1>8. g[N + 1] = ReadHistory(c, g[N], e)
    BY <1>1, <1>3, <1>7
  <1>9. /\ HistoryRead(longer, c) = ReadHistory(c, HistoryRead(seq, c), e)
        /\ HistoryRead(seq, c) \in Reader
    BY <1>1, <1>2, <1>3, <1>6, <1>7, <1>8
  <1> QED
    BY <1>9 DEF longer

LEMMA TellStarts ==
  Told(<<>>) = <<>>
  <1>1. <<>> \in Seq(Step) /\ Len(<<>>) = 0
    OBVIOUS
  <1>2. PICK h \in [0 .. Len(<<>>) -> Blocks] :
            h[0] = <<>> /\ Told(<<>>) = h[Len(<<>>)]
    BY <1>1, ThroughTell
  <1> QED
    BY <1>1, <1>2

LEMMA TellAppends ==
  ASSUME NEW seq \in Seq(Step), NEW e \in Step
  PROVE  /\ Told(seq) \in Blocks
         /\ Told(Append(seq, e)) = Tell(Told(seq), e)
  <1> DEFINE N == Len(seq)
             longer == Append(seq, e)
  <1>1. /\ N \in Nat /\ longer \in Seq(Step) /\ Len(longer) = N + 1 /\ longer[N + 1] = e
        /\ \A n \in 1 .. N : longer[n] = seq[n]
    OBVIOUS
  <1>2. PICK f \in [0 .. N -> Blocks] :
            /\ f[0] = <<>>
            /\ \A n \in 1 .. N : f[n] = Tell(f[n - 1], seq[n])
            /\ Told(seq) = f[N]
    BY ThroughTell, Zenon
  <1> HIDE DEF longer, N
  <1>3. PICK g \in [0 .. Len(longer) -> Blocks] :
            /\ g[0] = <<>>
            /\ \A n \in 1 .. Len(longer) : g[n] = Tell(g[n - 1], longer[n])
            /\ Told(longer) = g[Len(longer)]
    BY <1>1, ThroughTell, Zenon
  <1>4. \A n \in 1 .. N : n \in 1 .. Len(longer)
    BY <1>1
  <1>5. Alike(f, g, N)
    BY <1>1, <1>2, <1>3, <1>4 DEF Alike
  <1>6. \A n \in 0 .. N : f[n] = g[n]
    <2>1. N \in Nat
      BY <1>1
    <2> QED
      BY <1>5, <2>1, AgreeUpTo, Zenon
  <1>7. N + 1 \in 1 .. Len(longer) /\ (N + 1) - 1 = N /\ N \in 0 .. N
    BY <1>1
  <1>8. g[N + 1] = Tell(g[N], e)
    BY <1>1, <1>3, <1>7
  <1>9. /\ Told(longer) = Tell(Told(seq), e)
        /\ Told(seq) \in Blocks
    BY <1>1, <1>2, <1>3, <1>6, <1>7, <1>8
  <1> QED
    BY <1>9 DEF longer

LEMMA GiveStarts ==
  Given(<<>>) = <<>>
  <1>1. <<>> \in Seq(Turn) /\ Len(<<>>) = 0
    OBVIOUS
  <1>2. PICK h \in [0 .. Len(<<>>) -> Blocks] :
            h[0] = <<>> /\ Given(<<>>) = h[Len(<<>>)]
    BY <1>1, ThroughGive
  <1> QED
    BY <1>1, <1>2

LEMMA GiveAppends ==
  ASSUME NEW seq \in Seq(Turn), NEW e \in Turn
  PROVE  /\ Given(seq) \in Blocks
         /\ Given(Append(seq, e)) = Give(Given(seq), e)
  <1> DEFINE N == Len(seq)
             longer == Append(seq, e)
  <1>1. /\ N \in Nat /\ longer \in Seq(Turn) /\ Len(longer) = N + 1 /\ longer[N + 1] = e
        /\ \A n \in 1 .. N : longer[n] = seq[n]
    OBVIOUS
  <1>2. PICK f \in [0 .. N -> Blocks] :
            /\ f[0] = <<>>
            /\ \A n \in 1 .. N : f[n] = Give(f[n - 1], seq[n])
            /\ Given(seq) = f[N]
    BY ThroughGive, Zenon
  <1> HIDE DEF longer, N
  <1>3. PICK g \in [0 .. Len(longer) -> Blocks] :
            /\ g[0] = <<>>
            /\ \A n \in 1 .. Len(longer) : g[n] = Give(g[n - 1], longer[n])
            /\ Given(longer) = g[Len(longer)]
    BY <1>1, ThroughGive, Zenon
  <1>4. \A n \in 1 .. N : n \in 1 .. Len(longer)
    BY <1>1
  <1>5. Alike(f, g, N)
    BY <1>1, <1>2, <1>3, <1>4 DEF Alike
  <1>6. \A n \in 0 .. N : f[n] = g[n]
    <2>1. N \in Nat
      BY <1>1
    <2> QED
      BY <1>5, <2>1, AgreeUpTo, Zenon
  <1>7. N + 1 \in 1 .. Len(longer) /\ (N + 1) - 1 = N /\ N \in 0 .. N
    BY <1>1
  <1>8. g[N + 1] = Give(g[N], e)
    BY <1>1, <1>3, <1>7
  <1>9. /\ Given(longer) = Give(Given(seq), e)
        /\ Given(seq) \in Blocks
    BY <1>1, <1>2, <1>3, <1>6, <1>7, <1>8
  <1> QED
    BY <1>9 DEF longer

LEMMA LearnStarts ==
  transcript_index(<<>>) = Unnamed
  <1>1. <<>> \in Seq(Step) /\ Len(<<>>) = 0
    OBVIOUS
  <1>2. PICK h \in [0 .. Len(<<>>) -> Index] :
            h[0] = Unnamed /\ transcript_index(<<>>) = h[Len(<<>>)]
    BY <1>1, ThroughLearn
  <1> QED
    BY <1>1, <1>2

LEMMA LearnAppends ==
  ASSUME NEW seq \in Seq(Step), NEW e \in Step
  PROVE  /\ transcript_index(seq) \in Index
         /\ transcript_index(Append(seq, e)) = Learn(transcript_index(seq), e)
  <1> DEFINE N == Len(seq)
             longer == Append(seq, e)
  <1>1. /\ N \in Nat /\ longer \in Seq(Step) /\ Len(longer) = N + 1 /\ longer[N + 1] = e
        /\ \A n \in 1 .. N : longer[n] = seq[n]
    OBVIOUS
  <1>2. PICK f \in [0 .. N -> Index] :
            /\ f[0] = Unnamed
            /\ \A n \in 1 .. N : f[n] = Learn(f[n - 1], seq[n])
            /\ transcript_index(seq) = f[N]
    BY ThroughLearn, Zenon
  <1> HIDE DEF longer, N
  <1>3. PICK g \in [0 .. Len(longer) -> Index] :
            /\ g[0] = Unnamed
            /\ \A n \in 1 .. Len(longer) : g[n] = Learn(g[n - 1], longer[n])
            /\ transcript_index(longer) = g[Len(longer)]
    BY <1>1, ThroughLearn, Zenon
  <1>4. \A n \in 1 .. N : n \in 1 .. Len(longer)
    BY <1>1
  <1>5. Alike(f, g, N)
    BY <1>1, <1>2, <1>3, <1>4 DEF Alike
  <1>6. \A n \in 0 .. N : f[n] = g[n]
    <2>1. N \in Nat
      BY <1>1
    <2> QED
      BY <1>5, <2>1, AgreeUpTo, Zenon
  <1>7. N + 1 \in 1 .. Len(longer) /\ (N + 1) - 1 = N /\ N \in 0 .. N
    BY <1>1
  <1>8. g[N + 1] = Learn(g[N], e)
    BY <1>1, <1>3, <1>7
  <1>9. /\ transcript_index(longer) = Learn(transcript_index(seq), e)
        /\ transcript_index(seq) \in Index
    BY <1>1, <1>2, <1>3, <1>6, <1>7, <1>8
  <1> QED
    BY <1>9 DEF longer

-----------------------------------------------------------------------------
(* The rows of a page *)

RowSet == [seq : Nat, answer : Nat]

(* A row with nothing in it takes a result, and shows one step more.       *)
LEMMA FillKeeps ==
  ASSUME NEW record \in Seq(Step), NEW rows \in Rows, NEW m \in Nat, NEW i \in DOMAIN rows,
         m + 1 <= Len(record), IsResult(record[m + 1]),
         rows[i].answer = 0, IsCall(record[rows[i].seq]),
         SoundRows(record, rows), Shows(rows, m)
  PROVE  LET t == [rows EXCEPT ![i].answer = m + 1]
         IN  /\ t \in Rows /\ Len(t) = Len(rows)
             /\ SoundRows(record, t) /\ Shows(t, m + 1)
  <1> DEFINE t == [rows EXCEPT ![i].answer = m + 1]
  <1>1. t \in Rows
    <2>1. m + 1 \in Nat
      OBVIOUS
    <2> QED
      BY <2>1, FillType
  <1>2. rows \in [1 .. Len(rows) -> RowSet] /\ Len(rows) \in Nat
    BY RowsAre DEF RowSet
  <1>3. DOMAIN t = DOMAIN rows
    OBVIOUS
  <1>4. t[i].seq = rows[i].seq /\ t[i].answer = m + 1
    BY <1>2 DEF RowSet
  <1>5. \A n \in DOMAIN rows : n # i => t[n] = rows[n]
    BY <1>2
  <1> HIDE DEF t
  <1>6. t \in [1 .. Len(t) -> RowSet] /\ Len(t) \in Nat
    BY <1>1, RowsAre DEF RowSet
  <1>7. Len(t) = Len(rows)
    BY <1>2, <1>3, <1>6
  <1>8. Len(record) \in Nat
    OBVIOUS
  <1>9. SoundRows(record, t)
    BY <1>3, <1>4, <1>5, <1>8 DEF SoundRows
  <1>10. ASSUME NEW k \in 1 .. m + 1
         PROVE  \E n \in DOMAIN t : k \in {t[n].seq, t[n].answer}
    <2>1. CASE k = m + 1
      BY <1>3, <1>4, <2>1
    <2>2. CASE k # m + 1
      <3>1. k \in 1 .. m
        BY <2>2
      <3>2. PICK n \in DOMAIN rows : k \in {rows[n].seq, rows[n].answer}
        BY <3>1 DEF Shows
      <3> QED
        BY <1>3, <1>4, <1>5, <3>1, <3>2
    <2> QED
      BY <2>1, <2>2
  <1>11. Shows(t, m + 1)
    BY <1>10 DEF Shows
  <1> QED
    BY <1>1, <1>7, <1>9, <1>11 DEF t

(* A row of its own shows one step more.                                   *)
LEMMA AddKeeps ==
  ASSUME NEW record \in Seq(Step), NEW rows \in Rows, NEW m \in Nat,
         m + 1 <= Len(record), SoundRows(record, rows), Shows(rows, m)
  PROVE  LET t == Append(rows, Row(m + 1))
         IN  /\ t \in Rows /\ Len(t) = Len(rows) + 1 /\ t[Len(t)] = Row(m + 1)
             /\ SoundRows(record, t) /\ Shows(t, m + 1)
  <1> DEFINE t == Append(rows, Row(m + 1))
  <1>1. Row(m + 1) \in RowSet
    BY DEF Row, RowSet
  <1>2. rows \in Seq(RowSet)
    BY DEF Rows, RowSet
  <1>3. /\ t \in Seq(RowSet) /\ Len(rows) \in Nat /\ Len(t) = Len(rows) + 1
        /\ DOMAIN t = 1 .. Len(rows) + 1 /\ DOMAIN rows = 1 .. Len(rows)
        /\ t[Len(rows) + 1] = Row(m + 1) /\ \A n \in 1 .. Len(rows) : t[n] = rows[n]
    BY <1>1, <1>2
  <1> HIDE DEF t
  <1>4. Row(m + 1).seq = m + 1 /\ Row(m + 1).answer = 0
    BY DEF Row
  <1>5. ASSUME NEW n \in DOMAIN t
        PROVE  n = Len(rows) + 1 \/ n \in DOMAIN rows
    BY <1>3
  <1>6. Len(record) \in Nat
    OBVIOUS
  <1>7. SoundRows(record, t)
    BY <1>3, <1>4, <1>5, <1>6 DEF SoundRows
  <1>8. ASSUME NEW k \in 1 .. m + 1
        PROVE  \E n \in DOMAIN t : k \in {t[n].seq, t[n].answer}
    <2>1. CASE k = m + 1
      BY <1>3, <1>4, <2>1
    <2>2. CASE k # m + 1
      <3>1. k \in 1 .. m
        BY <2>2
      <3>2. PICK n \in DOMAIN rows : k \in {rows[n].seq, rows[n].answer}
        BY <3>1 DEF Shows
      <3>3. n \in DOMAIN t /\ t[n] = rows[n]
        BY <1>3
      <3> QED
        BY <3>2, <3>3
    <2> QED
      BY <2>1, <2>2
  <1>9. Shows(t, m + 1)
    BY <1>8 DEF Shows
  <1>10. t \in Rows
    BY <1>3 DEF Rows, RowSet
  <1> QED
    BY <1>3, <1>7, <1>9, <1>10 DEF t

(* The page as the server folds it.                                        *)
Kept(record, rows, m) == SoundRows(record, rows) /\ Shows(rows, m)

LEMMA FoldKeeps ==
  ASSUME steps \in Seq(Step), NEW rows \in Rows, NEW m \in Nat, m + 1 <= Len(steps),
         Kept(steps, rows, m)
  PROVE  Fold(rows, m + 1) \in Rows /\ Kept(steps, Fold(rows, m + 1), m + 1)
  <1> DEFINE k == m + 1
             i == Len(rows)
             fill == /\ IsResult(steps[k]) /\ rows # <<>> /\ Last(rows).answer = 0
                     /\ IsCall(steps[Last(rows).seq]) /\ steps[Last(rows).seq].tool = steps[k].tool
  <1>1. CASE fill
    <2>1. i \in DOMAIN rows /\ Last(rows) = rows[i]
      <3>1. rows \in Seq(RowSet)
        BY DEF Rows, RowSet
      <3> QED
        BY <1>1, <3>1 DEF Last
    <2>2. Fold(rows, k) = [rows EXCEPT ![i].answer = k]
      BY <1>1 DEF Fold
    <2> QED
      BY <1>1, <2>1, <2>2, FillKeeps DEF Kept
  <1>2. CASE ~fill
    <2>1. Fold(rows, k) = Append(rows, Row(k))
      BY <1>2 DEF Fold
    <2> QED
      BY <2>1, AddKeeps DEF Kept
  <1> QED
    BY <1>1, <1>2

LEMMA FoldedKeeps ==
  ASSUME steps \in Seq(Step)
  PROVE  fold_results_into_calls \in Rows /\ Kept(steps, fold_results_into_calls, Len(steps))
  <1> DEFINE places == [k \in DOMAIN steps |-> k]
             N == Len(steps)
  <1>1. N \in Nat /\ places \in Seq(Nat) /\ Len(places) = N /\ \A n \in 1 .. N : places[n] = n
    OBVIOUS
  <1> HIDE DEF places
  <1>2. PICK f \in [0 .. Len(places) -> Rows] :
            /\ f[0] = <<>>
            /\ \A n \in 1 .. Len(places) : f[n] = Fold(f[n - 1], places[n])
            /\ Folded(places) = f[Len(places)]
    BY <1>1, ThroughFold, Zenon
  <1> HIDE DEF N
  <1> DEFINE T == {n \in 0 .. N : Kept(steps, f[n], n)}
  <1>3. 0 \in T
    BY <1>1, <1>2 DEF Kept, SoundRows, Shows
  <1>4. ASSUME NEW n \in 1 .. N, n - 1 \in T
        PROVE  n \in T
    <2>1. n - 1 \in 0 .. N /\ n - 1 \in Nat /\ (n - 1) + 1 = n /\ n <= Len(steps)
      BY <1>1 DEF N
    <2>2. f[n - 1] \in Rows /\ Kept(steps, f[n - 1], n - 1) /\ f[n] = Fold(f[n - 1], n)
      BY <1>1, <1>2, <1>4, <2>1
    <2>3. Kept(steps, Fold(f[n - 1], (n - 1) + 1), (n - 1) + 1)
      BY <2>1, <2>2, FoldKeeps
    <2> QED
      BY <2>1, <2>2, <2>3
  <1> HIDE DEF T
  <1>5. N \in T
    <2>1. N \in 0 .. N
      BY <1>1
    <2> QED
      BY <1>1, <1>3, <1>4, <2>1, UpTo
  <1>6. fold_results_into_calls = f[N] /\ f[N] \in Rows
    BY <1>1, <1>2 DEF fold_results_into_calls, places
  <1> QED
    BY <1>5, <1>6 DEF T, N

(* The page as its script draws it.                                        *)
LEMMA DrawKeeps ==
  ASSUME steps \in Seq(Step), NEW view \in Sheets, NEW m \in Nat, m + 1 <= Len(steps),
         Kept(steps, view.rows, m), view.open \in 0 .. Len(view.rows), OpenCall(view, steps)
  PROVE  LET drawn == Draw(view, m + 1)
         IN  /\ drawn \in Sheets /\ Kept(steps, drawn.rows, m + 1)
             /\ drawn.open \in 0 .. Len(drawn.rows) /\ OpenCall(drawn, steps)
  <1> DEFINE k == m + 1
             rows == view.rows
             fill == view.open # 0 /\ steps[rows[view.open].seq].tool = steps[k].tool
             filled == [rows EXCEPT ![view.open].answer = k]
             added == Append(rows, Row(k))
  <1>1. rows \in Rows /\ rows \in Seq(RowSet) /\ Len(rows) \in Nat
    BY DEF Sheets, Rows, RowSet
  <1>2. /\ added \in Rows /\ Len(added) = Len(rows) + 1 /\ added[Len(rows) + 1] = Row(k)
        /\ Kept(steps, added, k)
    BY <1>1, AddKeeps DEF Kept
  <1>3. Draw(view, k) \in Sheets
    BY DrawType
  <1>4. CASE IsResult(steps[k]) /\ fill
    <2>1. view.open \in DOMAIN rows
      BY <1>1, <1>4
    <2>2. Draw(view, k) = [rows |-> filled, open |-> 0]
      BY <1>4 DEF Draw, DrawResult
    <2>3. rows[view.open].answer = 0 /\ IsCall(steps[rows[view.open].seq])
      BY <1>4 DEF OpenCall
    <2>4. SoundRows(steps, rows) /\ Shows(rows, m) /\ IsResult(steps[m + 1])
      BY <1>4 DEF Kept
    <2> DEFINE i == view.open
    <2> HIDE DEF rows, i
    <2>5. LET t == [rows EXCEPT ![i].answer = m + 1]
          IN  /\ t \in Rows /\ Len(t) = Len(rows)
              /\ SoundRows(steps, t) /\ Shows(t, m + 1)
      BY <1>1, <2>1, <2>3, <2>4, FillKeeps DEF i
    <2>6. filled \in Rows /\ Kept(steps, filled, k) /\ Len(filled) = Len(rows)
      BY <2>5 DEF Kept, i
    <2> QED
      BY <1>1, <1>3, <2>2, <2>6 DEF OpenCall, rows
  <1>5. CASE IsResult(steps[k]) /\ ~fill
    <2>1. Draw(view, k) = [rows |-> added, open |-> 0]
      BY <1>5 DEF Draw, DrawResult
    <2> HIDE DEF added
    <2> QED
      BY <1>1, <1>2, <1>3, <2>1 DEF OpenCall
  <1>6. CASE ~IsResult(steps[k])
    <2>1. Draw(view, k) = [rows |-> added, open |-> IF IsCall(steps[k]) THEN Len(rows) + 1 ELSE 0]
      BY <1>6 DEF Draw
    <2>2. Row(k).seq = k /\ Row(k).answer = 0
      BY DEF Row
    <2> HIDE DEF added
    <2> QED
      BY <1>1, <1>2, <1>3, <2>1, <2>2 DEF OpenCall
  <1> QED
    BY <1>4, <1>5, <1>6

LEMMA DrawnKeeps ==
  ASSUME steps \in Seq(Step), NEW view \in Sheets, NEW last \in 0 .. Len(steps),
         Kept(steps, view.rows, last), view.open \in 0 .. Len(view.rows), OpenCall(view, steps)
  PROVE  LET drawn == Drawn(view, [n \in 1 .. (Len(steps) - last) |-> last + n])
         IN  /\ drawn \in Sheets /\ Kept(steps, drawn.rows, Len(steps))
             /\ drawn.open \in 0 .. Len(drawn.rows) /\ OpenCall(drawn, steps)
  <1> DEFINE N == Len(steps) - last
             new == [n \in 1 .. N |-> last + n]
             Good(sheet, m) == /\ Kept(steps, sheet.rows, m)
                               /\ sheet.open \in 0 .. Len(sheet.rows) /\ OpenCall(sheet, steps)
  <1>1. /\ N \in Nat /\ last \in Nat /\ last + N = Len(steps)
        /\ new \in Seq(Nat) /\ Len(new) = N /\ \A n \in 1 .. N : new[n] = last + n
    OBVIOUS
  <1> HIDE DEF N, new
  <1>2. PICK f \in [0 .. Len(new) -> Sheets] :
            /\ f[0] = view
            /\ \A n \in 1 .. Len(new) : f[n] = Draw(f[n - 1], new[n])
            /\ Drawn(view, new) = f[Len(new)]
    BY <1>1, ThroughDraw, Zenon
  <1> DEFINE T == {n \in 0 .. N : Good(f[n], last + n)}
  <1>3. 0 \in T
    BY <1>1, <1>2
  <1>4. ASSUME NEW n \in 1 .. N, n - 1 \in T
        PROVE  n \in T
    <2> DEFINE m == last + (n - 1)
    <2>1. n - 1 \in 0 .. N /\ m \in Nat /\ m + 1 = last + n /\ m + 1 <= Len(steps)
      BY <1>1
    <2>2. f[n - 1] \in Sheets /\ Good(f[n - 1], m) /\ f[n] = Draw(f[n - 1], m + 1)
      BY <1>1, <1>2, <1>4, <2>1
    <2> HIDE DEF m
    <2>3. Good(f[n], m + 1)
      BY <2>1, <2>2, DrawKeeps
    <2> QED
      BY <2>1, <2>3
  <1>5. N \in 0 .. N
    BY <1>1
  <1>6. f[N] \in Sheets
    BY <1>1, <1>5
  <1> HIDE DEF T
  <1>7. N \in T
    BY <1>1, <1>3, <1>4, <1>5, UpTo
  <1>8. Good(f[N], Len(steps)) /\ Drawn(view, new) = f[N]
    BY <1>1, <1>2, <1>7 DEF T
  <1> QED
    BY <1>6, <1>8 DEF new, N

-----------------------------------------------------------------------------
(* The parts of the invariant *)

ViewFits(view, record) ==
    /\ view \in View /\ view.last \in view.after .. Len(record)
    /\ view.open \in 0 .. Len(view.rows)
    /\ SoundRows(record, view.rows) /\ Shows(view.rows, view.last) /\ OpenCall(view, record)

TabsFit == tab \in [Tabs -> View] /\ \A x \in Tabs : ViewFits(tab[x], steps)

LoopFits(t, conversation, record, histories) ==
    /\ t \in Loop /\ Len(t.calls) <= MaxCalls
    /\ conversation \in Seq(Turn) /\ record \in Seq(Step)
    /\ histories \in [Customers -> 0 .. Len(record) \cup {None}]
    /\ InTurn(t, conversation, record) /\ Awaited(t, record, histories)

RestFits ==
    /\ scene \in Scenes /\ up \in BOOLEAN
    /\ status \in Unfinished \cup {"finished", "failed"} /\ cuts \in 0 .. MaxCuts

LEMMA Parts ==
  TranscriptInv <=> RestFits /\ LoopFits(loop, messages, steps, seen) /\ TabsFit
  BY DEF TranscriptInv, TypeOK, RestFits, LoopFits, TabsFit, ViewFits, NothingLost, Seqs

LEMMA PartsNext ==
  TranscriptInv' <=> RestFits' /\ LoopFits(loop', messages', steps', seen') /\ TabsFit'
  BY DEF TranscriptInv, TypeOK, RestFits, LoopFits, TabsFit, ViewFits, NothingLost, Seqs

(* A step that is added changes nothing for a page that is open.           *)
LEMMA ViewGrows ==
  ASSUME NEW record \in Seq(Step), NEW s \in Step, NEW view, ViewFits(view, record)
  PROVE  ViewFits(view, Append(record, s))
  <1> DEFINE longer == Append(record, s)
  <1>1. /\ Len(record) \in Nat /\ Len(longer) = Len(record) + 1
        /\ \A n \in 1 .. Len(record) : longer[n] = record[n]
    OBVIOUS
  <1> HIDE DEF longer
  <1>2. view.last \in Nat /\ view.after \in Nat /\ view.rows \in Rows /\ view.open \in Nat
    BY DEF ViewFits, View, Rows
  <1>3. view.last \in view.after .. Len(longer)
    BY <1>1, <1>2 DEF ViewFits
  <1>4. SoundRows(longer, view.rows)
    <2> SUFFICES ASSUME NEW n \in DOMAIN view.rows
                 PROVE  /\ view.rows[n].seq \in 1 .. Len(longer)
                        /\ view.rows[n].answer \in 0 .. Len(longer)
                        /\ view.rows[n].answer # 0 =>
                             /\ IsCall(longer[view.rows[n].seq])
                             /\ IsResult(longer[view.rows[n].answer])
      BY DEF SoundRows
    <2>1. /\ view.rows[n].seq \in 1 .. Len(record) /\ view.rows[n].answer \in 0 .. Len(record)
          /\ view.rows[n].answer # 0 =>
               IsCall(record[view.rows[n].seq]) /\ IsResult(record[view.rows[n].answer])
      BY DEF ViewFits, SoundRows
    <2>2. view.rows[n].answer # 0 => view.rows[n].answer \in 1 .. Len(record)
      BY <1>1, <2>1
    <2> QED
      BY <1>1, <2>1, <2>2
  <1>5. OpenCall(view, longer)
    <2> SUFFICES ASSUME view.open # 0
                 PROVE  /\ view.rows[view.open].answer = 0
                        /\ IsCall(longer[view.rows[view.open].seq])
      BY DEF OpenCall
    <2>1. view.open \in DOMAIN view.rows
      <3>1. view.open \in 1 .. Len(view.rows)
        BY <1>2 DEF ViewFits
      <3> QED
        BY <1>2, <3>1, RowsAre
    <2>2. view.rows[view.open].seq \in 1 .. Len(record)
      BY <2>1 DEF ViewFits, SoundRows
    <2> QED
      BY <1>1, <2>2 DEF ViewFits, OpenCall
  <1> QED
    BY <1>3, <1>4, <1>5 DEF ViewFits, longer

LEMMA TabsStay ==
  ASSUME TabsFit, steps \in Seq(Step), tab' = tab,
         steps' = steps \/ \E s \in Step : steps' = Append(steps, s)
  PROVE  TabsFit'
  BY ViewGrows DEF TabsFit

-----------------------------------------------------------------------------
(* What the loop does *)

(* A text adds nothing to what is told, read or awaited.                   *)
LEMMA TextsTellNothing ==
  ASSUME NEW record \in Seq(Step)
  PROVE  /\ Told(Append(record, Message)) = Told(record)
         /\ \A c : HistoryRead(Append(record, Message), c) = HistoryRead(record, c)
  <1>1. Message \in Step /\ ~IsResult(Message) /\ Message.tool # "history"
    BY DEF Step, Message, IsResult
  <1> QED
    BY <1>1, TellAppends, HistoryAppends DEF Tell, ReadHistory

LEMMA HistoriesGrow ==
  ASSUME NEW record \in Seq(Step), NEW s \in Step,
         NEW h \in [Customers -> 0 .. Len(record) \cup {None}]
  PROVE  h \in [Customers -> 0 .. Len(Append(record, s)) \cup {None}]
  <1>1. Len(record) \in Nat /\ Len(Append(record, s)) = Len(record) + 1
    OBVIOUS
  <1> QED
    BY <1>1

(* Where the loop rests or ends, or has not begun a turn, nothing is due.  *)
LEMMA BeginKeeps ==
  ASSUME TranscriptInv, Begin
  PROVE  TranscriptInv'
  <1>1. RestFits /\ LoopFits(loop, messages, steps, seen) /\ TabsFit
    BY Parts
  <1>2. LoopFits(loop', messages, steps, seen)
    BY <1>1 DEF Begin, LoopFits, Loop, InTurn, Awaited
  <1>3. TabsFit'
    BY <1>1, TabsStay DEF Begin, reader, LoopFits
  <1>4. RestFits'
    BY <1>1 DEF Begin, reader, RestFits, Unfinished
  <1> QED
    BY <1>2, <1>3, <1>4, PartsNext DEF Begin

LEMMA ExceededKeeps ==
  ASSUME TranscriptInv, Exceeded
  PROVE  TranscriptInv'
  <1>1. RestFits /\ LoopFits(loop, messages, steps, seen) /\ TabsFit
    BY Parts
  <1>2. steps' = Append(steps, Message) /\ Message \in Step /\ steps \in Seq(Step)
    BY <1>1 DEF Exceeded, Step, LoopFits
  <1>3. steps' \in Seq(Step) /\ seen \in [Customers -> 0 .. Len(steps') \cup {None}]
    BY <1>1, <1>2, HistoriesGrow DEF LoopFits
  <1>4. loop' = [loop EXCEPT !.pc = "fail"] /\ loop \in Loop
    BY <1>1 DEF Exceeded, LoopFits
  <1>5. InTurn(loop', messages, steps') /\ Awaited(loop', steps', seen)
    BY <1>1, <1>2, <1>4, TextsTellNothing DEF LoopFits, Loop, InTurn, Awaited
  <1>6. LoopFits(loop', messages, steps', seen)
    BY <1>1, <1>3, <1>4, <1>5 DEF LoopFits, Loop
  <1>7. TabsFit'
    BY <1>1, <1>2, TabsStay DEF Exceeded, reader
  <1>8. RestFits'
    BY <1>1 DEF Exceeded, reader, RestFits
  <1> QED
    BY <1>6, <1>7, <1>8, PartsNext DEF Exceeded

LEMMA FailKeeps ==
  ASSUME TranscriptInv, Fail
  PROVE  TranscriptInv'
  <1>1. RestFits /\ LoopFits(loop, messages, steps, seen) /\ TabsFit
    BY Parts
  <1>2. LoopFits(loop', messages, steps, seen)
    BY <1>1 DEF Fail, LoopFits, Loop, InTurn, Awaited
  <1>3. TabsFit'
    BY <1>1, TabsStay DEF Fail, reader, LoopFits
  <1>4. RestFits'
    BY <1>1 DEF Fail, reader, RestFits
  <1> QED
    BY <1>2, <1>3, <1>4, PartsNext DEF Fail

LEMMA GoneFits ==
  ASSUME LoopFits(loop, messages, steps, seen)
  PROVE  LoopFits(Gone, <<>>, steps, seen)
  <1>1. Gone \in Loop /\ Len(Gone.calls) <= MaxCalls /\ Gone.pc = "gone"
    BY TranscriptAssumption DEF Gone, Loop
  <1>2. <<>> \in Seq(Turn)
    OBVIOUS
  <1>3. InTurn(Gone, <<>>, steps)
    BY <1>1 DEF InTurn
  <1>4. Awaited(Gone, steps, seen)
    BY <1>1 DEF LoopFits, Awaited
  <1> QED
    BY <1>1, <1>2, <1>3, <1>4 DEF LoopFits

LEMMA CloseKeeps ==
  ASSUME TranscriptInv, Close
  PROVE  TranscriptInv'
  <1>1. RestFits /\ LoopFits(loop, messages, steps, seen) /\ TabsFit
    BY Parts
  <1>2. LoopFits(loop', messages', steps, seen)
    BY <1>1, GoneFits DEF Close
  <1>3. TabsFit'
    BY <1>1, TabsStay DEF Close, reader, LoopFits
  <1>4. RestFits'
    BY <1>1 DEF Close, reader, RestFits, Unfinished
  <1> QED
    BY <1>2, <1>3, <1>4, PartsNext DEF Close

(* The calls a turn asks for, numbered.                                    *)
LEMMA NumberedType ==
  ASSUME TranscriptInv, NEW n \in 0 .. MaxCalls, NEW requests \in [1 .. n -> scene.requests]
  PROVE  /\ Numbered(requests) \in Seq(Call) /\ Len(Numbered(requests)) = n
         /\ requests # <<>> => Numbered(requests) # <<>>
  <1>1. scene.requests \subseteq Requests /\ n \in Nat /\ MaxCalls \in Nat
    BY TranscriptAssumption DEF TranscriptInv, TypeOK
  <1>2. loop.used \in Nat
    BY TranscriptAssumption DEF TranscriptInv, TypeOK, Loop
  <1>3. DOMAIN requests = 1 .. n
    OBVIOUS
  <1>4. ASSUME NEW k \in 1 .. n
        PROVE  [tool |-> requests[k].tool, of |-> requests[k].of,
                id |-> IF Numbering = "turn" THEN k ELSE loop.used + k] \in Call
    <2>1. requests[k] \in Requests
      BY <1>1
    <2> QED
      BY <1>2, <2>1 DEF Requests, Call
  <1>5. Numbered(requests) \in [1 .. n -> Call]
    BY <1>3, <1>4 DEF Numbered
  <1>6. Numbered(requests) \in Seq(Call)
    BY <1>1, <1>5
  <1>7. Len(Numbered(requests)) = n
    BY <1>1, <1>5, <1>6
  <1>8. requests # <<>> => n # 0
    OBVIOUS
  <1> QED
    BY <1>6, <1>7, <1>8

(* A message more answers the one before it, or asks.                      *)
LEMMA AnswersGrow ==
  ASSUME NEW conversation \in Seq(Turn), NEW m \in Turn,
         \A n \in 1 .. Len(conversation) :
             n % 2 = 0 => Answers(conversation[n], conversation[n - 1]),
         Len(conversation) % 2 = 1 => Answers(m, conversation[Len(conversation)])
  PROVE  LET longer == Append(conversation, m)
         IN  \A n \in 1 .. Len(longer) : n % 2 = 0 => Answers(longer[n], longer[n - 1])
  <1> DEFINE longer == Append(conversation, m)
             N == Len(conversation)
  <1>1. /\ N \in Nat /\ Len(longer) = N + 1 /\ longer[N + 1] = m
        /\ \A n \in 1 .. N : longer[n] = conversation[n]
    OBVIOUS
  <1> HIDE DEF longer
  <1>2. ASSUME NEW n \in 1 .. N + 1, n % 2 = 0
        PROVE  Answers(longer[n], longer[n - 1])
    <2>1. CASE n = N + 1
      <3>1. N % 2 = 1 /\ n - 1 = N /\ N \in 1 .. N
        BY <1>1, <1>2, <2>1
      <3> QED
        BY <1>1, <2>1, <3>1
    <2>2. CASE n # N + 1
      <3>1. n \in 1 .. N /\ n - 1 \in 1 .. N
        BY <1>1, <1>2, <2>2
      <3> QED
        BY <1>1, <1>2, <3>1
    <2> QED
      BY <2>1, <2>2
  <1> QED
    BY <1>1, <1>2 DEF longer

Asking(calls) == [role |-> "assistant", content |-> calls]

LEMMA AskingGives ==
  ASSUME NEW conversation \in Seq(Turn), NEW calls \in Seq(Call)
  PROVE  /\ Asking(calls) \in Turn
         /\ Given(Append(conversation, Asking(calls))) = Given(conversation)
  <1>1. Asking(calls) \in Turn /\ Asking(calls).role # "user"
    BY DEF Asking, Turn
  <1> QED
    BY <1>1, GiveAppends DEF Give

LEMMA AskKeeps ==
  ASSUME NEW t \in Loop, NEW conversation \in Seq(Turn), NEW record,
         InTurn(t, conversation, record), t.pc = "ask",
         NEW calls \in Seq(Call), calls # <<>>, NEW u,
         u.pc = "call", u.calls = calls, u.results = t.results
  PROVE  InTurn(u, Append(conversation, Asking(calls)), record)
  <1> DEFINE longer == Append(conversation, Asking(calls))
  <1>1. Len(conversation) % 2 = 0 /\ t.results = <<>>
    BY DEF InTurn
  <1>2. /\ Len(longer) = Len(conversation) + 1 /\ Len(conversation) \in Nat
        /\ longer[Len(longer)] = Asking(calls)
    BY AskingGives
  <1>3. \A n \in 1 .. Len(longer) : n % 2 = 0 => Answers(longer[n], longer[n - 1])
    BY <1>1, <1>2, AskingGives, AnswersGrow DEF InTurn
  <1>4. Given(longer) = Given(conversation)
    BY AskingGives
  <1>5. Given(conversation) \o u.results = Told(record)
    BY DEF InTurn
  <1> HIDE DEF longer
  <1>6. Len(longer) % 2 = 1
    BY <1>1, <1>2
  <1>7. /\ Asking(calls).role = "assistant" /\ Len(u.results) = 0 /\ DOMAIN u.results = {}
        /\ Len(Asking(calls).content) = Len(u.results) + Len(u.calls)
        /\ \A k \in DOMAIN u.calls : Asking(calls).content[Len(u.results) + k] = u.calls[k]
    BY <1>1 DEF Asking
  <1> QED
    BY <1>2, <1>3, <1>4, <1>5, <1>6, <1>7 DEF InTurn, longer

LEMMA AnswerKeeps ==
  ASSUME TranscriptInv, NEW says \in BOOLEAN, NEW n \in 0 .. MaxCalls,
         NEW requests \in [1 .. n -> scene.requests], Answer(says, requests)
  PROVE  TranscriptInv'
  <1>1. RestFits /\ LoopFits(loop, messages, steps, seen) /\ TabsFit
    BY Parts
  <1>2. steps \in Seq(Step) /\ messages \in Seq(Turn) /\ loop \in Loop /\ Message \in Step
    BY <1>1 DEF LoopFits, Step
  <1>3. steps' = steps \/ steps' = Append(steps, Message)
    BY DEF Answer
  <1>4. /\ steps' \in Seq(Step) /\ seen \in [Customers -> 0 .. Len(steps') \cup {None}]
        /\ Told(steps') = Told(steps)
        /\ \A c : HistoryRead(steps', c) = HistoryRead(steps, c)
    <2>1. CASE steps' = steps
      BY <1>1, <2>1 DEF LoopFits
    <2>2. CASE steps' = Append(steps, Message)
      <3>1. steps' \in Seq(Step)
        BY <1>2, <2>2
      <3>2. seen \in [Customers -> 0 .. Len(steps') \cup {None}]
        BY <1>1, <1>2, <2>2, HistoriesGrow DEF LoopFits
      <3> QED
        BY <1>2, <2>2, <3>1, <3>2, TextsTellNothing
    <2> QED
      BY <1>3, <2>1, <2>2
  <1>5. TabsFit'
    BY <1>1, <1>2, <1>3, TabsStay DEF Answer, reader
  <1>6. RestFits'
    BY <1>1 DEF Answer, reader, RestFits
  <1>7. loop.turns + 1 \in 0 .. MaxTurns /\ loop.pc = "ask"
    BY <1>2, TranscriptAssumption DEF Answer, Loop
  <1>8. InTurn(loop, messages, steps')
    BY <1>1, <1>4 DEF LoopFits, InTurn
  <1>9. LoopFits(loop', messages', steps', seen)
    <2>1. CASE requests = <<>>
      <3>1. loop' = [loop EXCEPT !.pc = "close", !.turns = @ + 1] /\ messages' = messages
        BY <2>1 DEF Answer
      <3>2. loop' \in Loop /\ loop'.pc = "close" /\ loop'.calls = loop.calls
        BY <1>2, <1>7, <3>1 DEF Loop
      <3>3. InTurn(loop', messages', steps') /\ Awaited(loop', steps', seen)
        BY <1>1, <1>4, <3>2 DEF LoopFits, InTurn, Awaited
      <3> QED
        BY <1>1, <1>4, <3>1, <3>2, <3>3 DEF LoopFits
    <2>2. CASE requests # <<>>
      <3> DEFINE calls == Numbered(requests)
      <3>1. calls \in Seq(Call) /\ Len(calls) = n /\ calls # <<>>
        BY <2>2, NumberedType
      <3> HIDE DEF calls
      <3>2. /\ loop' = [loop EXCEPT !.pc = "call", !.turns = @ + 1, !.calls = calls]
            /\ messages' = Append(messages, Asking(calls))
        BY <2>2 DEF Answer, Asking, calls
      <3>3. /\ loop' \in Loop /\ loop'.pc = "call" /\ loop'.calls = calls
            /\ loop'.results = loop.results
        BY <1>2, <1>7, <3>1, <3>2 DEF Loop
      <3>4. InTurn(loop', messages', steps')
        BY <1>2, <1>7, <1>8, <3>1, <3>2, <3>3, AskKeeps
      <3>5. Awaited(loop', steps', seen)
        BY <1>1, <1>4, <3>3 DEF LoopFits, Awaited
      <3>6. messages' \in Seq(Turn) /\ Len(loop'.calls) <= MaxCalls
        BY <1>2, <3>1, <3>2, <3>3, AskingGives
      <3> QED
        BY <1>4, <3>3, <3>4, <3>5, <3>6 DEF LoopFits
    <2> QED
      BY <2>1, <2>2
  <1> QED
    BY <1>5, <1>6, <1>9, PartsNext DEF Answer

(* The step of a call, and what it makes its reader await.                 *)
StepOf(call) == [type |-> "tool_call", tool |-> call.tool, of |-> call.of, id |-> call.id]

LEMMA CallKinds ==
  ASSUME NEW call \in Call
  PROVE  /\ StepOf(call) \in CallStep /\ call.tool \in Tools /\ call.id \in Nat
         /\ call.tool # "list" => call.of \in Customers
  BY DEF Call, StepOf, CallStep, Tools

LEMMA FirstCall ==
  ASSUME NEW t \in Loop, t.calls # <<>>
  PROVE  /\ Head(t.calls) \in Call /\ Head(t.calls) = t.calls[1]
         /\ Len(t.calls) \in Nat \ {0}
         /\ Tail(t.calls) \in Seq(Call) /\ Len(Tail(t.calls)) = Len(t.calls) - 1
         /\ \A k \in 1 .. Len(t.calls) - 1 : Tail(t.calls)[k] = t.calls[k + 1]
  <1>1. t.calls \in Seq(Call)
    BY DEF Loop
  <1> QED
    BY <1>1

LEMMA PersistCallKeeps ==
  ASSUME TranscriptInv, PersistCall
  PROVE  TranscriptInv'
  <1> DEFINE call == Head(loop.calls)
             s == StepOf(call)
  <1>1. RestFits /\ LoopFits(loop, messages, steps, seen) /\ TabsFit
    BY Parts
  <1>2. loop \in Loop /\ loop.pc = "call" /\ steps \in Seq(Step)
    BY <1>1 DEF LoopFits, PersistCall
  <1>3. loop.calls # <<>> /\ call \in Call
    BY <1>1, <1>2, FirstCall DEF LoopFits, InTurn
  <1>4. steps' = Append(steps, s) /\ loop' = [loop EXCEPT !.pc = "execute", !.used = @ + 1]
    BY DEF PersistCall, StepOf
  <1>5. s \in CallStep /\ s \in Step /\ ~IsResult(s) /\ IsCall(s)
    BY <1>3, CallKinds, CallFields DEF Step
  <1>6. s.tool = call.tool /\ s.of = call.of /\ s.id = call.id
    BY DEF StepOf
  <1> HIDE DEF s
  <1>7. /\ steps' \in Seq(Step) /\ seen \in [Customers -> 0 .. Len(steps') \cup {None}]
    BY <1>1, <1>2, <1>4, <1>5, HistoriesGrow DEF LoopFits
  <1>8. Told(steps') = Told(steps)
    BY <1>2, <1>4, <1>5, TellAppends DEF Tell
  <1>9. \A c : HistoryRead(steps', c) = ReadHistory(c, HistoryRead(steps, c), s)
    BY <1>2, <1>4, <1>5, HistoryAppends
  <1>10. /\ loop' \in Loop /\ loop'.pc = "execute" /\ loop'.calls = loop.calls
         /\ loop'.results = loop.results
    <2>1. loop.used + 1 \in 0 .. MaxToolCalls
      BY <1>2, TranscriptAssumption DEF Loop, PersistCall
    <2> QED
      BY <1>2, <1>4, <2>1 DEF Loop
  <1>11. InTurn(loop', messages, steps')
    BY <1>1, <1>2, <1>8, <1>10 DEF LoopFits, InTurn
  <1>12. Awaited(loop', steps', seen)
    <2> SUFFICES ASSUME NEW c \in Customers
                 PROVE  LET read == HistoryRead(steps', c)
                        IN  /\ read.found = seen[c]
                            /\ call.tool = "history" => read.asked = call.of /\ read.id = call.id
      BY <1>10 DEF Awaited
    <2>1. HistoryRead(steps, c).found = seen[c]
      BY <1>1 DEF LoopFits, Awaited
    <2> QED
      BY <1>5, <1>6, <1>9, <2>1 DEF ReadHistory
  <1>13. LoopFits(loop', messages, steps', seen)
    BY <1>1, <1>7, <1>10, <1>11, <1>12 DEF LoopFits
  <1>14. TabsFit'
    BY <1>1, <1>2, <1>4, <1>5, TabsStay DEF PersistCall, reader
  <1>15. RestFits'
    BY <1>1 DEF PersistCall, reader, RestFits
  <1> QED
    BY <1>13, <1>14, <1>15, PartsNext DEF PersistCall

(* A result, its step and its block.                                       *)
ResultOf(call, error, result) ==
    [type |-> "tool_result", tool |-> call.tool, id |-> call.id, error |-> error,
     result |-> result]

BlockOf(call, error, result) ==
    [id |-> call.id, error |-> error, content |-> serialise(call, result)]

Outcomes(call, error) == IF error THEN {None} ELSE Returns(call)

SeenNext(call, error, result) ==
    IF call.tool # "history" \/ error THEN seen
    ELSE [seen EXCEPT ![call.of] = result.version]

LEMMA ResultKinds ==
  ASSUME steps \in Seq(Step), NEW call \in Call, NEW error \in BOOLEAN,
         NEW result \in Outcomes(call, error)
  PROVE  /\ ResultOf(call, error, result) \in ResultStep
         /\ BlockOf(call, error, result) = AsGiven(ResultOf(call, error, result))
         /\ call.tool = "history" /\ ~error => result.version = Len(steps)
  <1>1. call.tool \in Tools /\ call.id \in Nat /\ (call.tool # "list" => call.of \in Customers)
    BY CallKinds
  <1>2. Len(steps) \in Nat
    OBVIOUS
  <1>3. ResultOf(call, error, result) \in ResultStep
    <2>1. CASE error
      BY <1>1, <2>1 DEF ResultOf, ResultStep, Tools, Outcomes
    <2>2. CASE ~error /\ call.tool = "list"
      BY <1>1, <2>2 DEF ResultOf, ResultStep, Returns, Outcomes
    <2>3. CASE ~error /\ call.tool = "history"
      <3>1. result \in History
        BY <1>1, <1>2, <2>3 DEF Returns, History, Outcomes
      <3> QED
        BY <1>1, <2>3, <3>1 DEF ResultOf, ResultStep
    <2>4. CASE ~error /\ call.tool = "letter"
      BY <1>1, <2>4 DEF ResultOf, ResultStep, Returns, Outcomes
    <2> QED
      BY <1>1, <2>1, <2>2, <2>3, <2>4 DEF Tools
  <1>4. BlockOf(call, error, result) = AsGiven(ResultOf(call, error, result))
    BY DEF BlockOf, AsGiven, ResultOf, serialise
  <1>5. call.tool = "history" /\ ~error => result.version = Len(steps)
    BY DEF Returns, Outcomes
  <1> QED
    BY <1>3, <1>4, <1>5

(* The result in hand makes the reader find what was seen.                 *)
LEMMA ResultIsRead ==
  ASSUME TranscriptInv, loop.pc = "execute", NEW error \in BOOLEAN,
         NEW result \in Outcomes(Head(loop.calls), error),
         NEW h, h = SeenNext(Head(loop.calls), error, result)
  PROVE  LET longer == Append(steps, ResultOf(Head(loop.calls), error, result))
         IN  /\ h \in [Customers -> 0 .. Len(longer) \cup {None}]
             /\ \A c \in Customers : HistoryRead(longer, c).found = h[c]
  <1> DEFINE call == Head(loop.calls)
             s == ResultOf(call, error, result)
             longer == Append(steps, s)
  <1>1. LoopFits(loop, messages, steps, seen)
    BY Parts
  <1>2. steps \in Seq(Step) /\ loop \in Loop /\ loop.calls # <<>>
    BY <1>1 DEF LoopFits, InTurn
  <1>3. call \in Call
    BY <1>2, FirstCall
  <1>4. s \in ResultStep /\ (call.tool = "history" /\ ~error => result.version = Len(steps))
    BY <1>2, <1>3, ResultKinds
  <1>5. s \in Step /\ ~IsCall(s)
    BY <1>4, ResultFields DEF Step
  <1>6. Len(steps) \in Nat /\ Len(longer) = Len(steps) + 1
    BY <1>2
  <1>7. seen \in [Customers -> 0 .. Len(steps) \cup {None}]
    BY <1>1 DEF LoopFits
  <1>8. h \in [Customers -> 0 .. Len(longer) \cup {None}]
    <2>1. 0 .. Len(steps) \subseteq 0 .. Len(longer) /\ Len(steps) \in 0 .. Len(longer)
      BY <1>6
    <2> HIDE DEF longer
    <2>2. seen \in [Customers -> 0 .. Len(longer) \cup {None}]
      BY <1>7, <2>1
    <2>3. CASE call.tool # "history" \/ error
      BY <2>2, <2>3 DEF SeenNext
    <2>4. CASE ~(call.tool # "history" \/ error)
      <3>1. h = [seen EXCEPT ![call.of] = Len(steps)]
        BY <1>4, <2>4 DEF SeenNext
      <3> QED
        BY <2>1, <2>2, <3>1
    <2> QED
      BY <2>3, <2>4
  <1>9. ASSUME NEW c \in Customers
        PROVE  HistoryRead(longer, c).found = h[c]
    <2> DEFINE read == HistoryRead(steps, c)
    <2>1. HistoryRead(longer, c) = ReadHistory(c, read, s)
      BY <1>2, <1>5, HistoryAppends
    <2>2. /\ read.found = seen[c]
          /\ (call.tool = "history" => read.asked = call.of /\ read.id = call.id)
      BY <1>1 DEF LoopFits, Awaited
    <2>3. s.tool = call.tool /\ s.error = error /\ s.id = call.id /\ s.result = result
      BY DEF ResultOf
    <2> HIDE DEF read, s
    <2>4. CASE call.tool # "history"
      BY <2>1, <2>2, <2>3, <2>4 DEF ReadHistory, SeenNext
    <2>5. CASE call.tool = "history" /\ error
      BY <1>5, <2>1, <2>2, <2>3, <2>5 DEF ReadHistory, Unasked, SeenNext
    <2>6. CASE call.tool = "history" /\ ~error
      <3>1. call.of \in Customers
        BY <1>3, <2>6, CallKinds
      <3>2. h[c] = IF c = call.of THEN result.version ELSE seen[c]
        BY <1>7, <2>6, <3>1 DEF SeenNext
      <3> QED
        BY <1>5, <2>1, <2>2, <2>3, <2>6, <3>2 DEF ReadHistory, Unasked
    <2> QED
      BY <2>4, <2>5, <2>6
  <1> QED
    BY <1>8, <1>9

(* The block in hand is what the record now tells, and answers its call.   *)
LEMMA BlockIsTold ==
  ASSUME TranscriptInv, loop.pc = "execute", NEW error \in BOOLEAN,
         NEW result \in Outcomes(Head(loop.calls), error)
  PROVE  LET call == Head(loop.calls)
             results == Append(loop.results, BlockOf(call, error, result))
         IN  /\ results \in Seq(Block) /\ Len(results) = Len(loop.results) + 1
             /\ \A k \in 1 .. Len(results) :
                    results[k].id = messages[Len(messages)].content[k].id
             /\ Given(messages) \o results = Told(Append(steps, ResultOf(call, error, result)))
  <1> DEFINE call == Head(loop.calls)
             s == ResultOf(call, error, result)
             block == BlockOf(call, error, result)
             results == Append(loop.results, block)
             asked == messages[Len(messages)].content
  <1>1. LoopFits(loop, messages, steps, seen)
    BY Parts
  <1>2. steps \in Seq(Step) /\ messages \in Seq(Turn) /\ loop \in Loop /\ loop.calls # <<>>
    BY <1>1 DEF LoopFits, InTurn
  <1>3. call \in Call /\ call = loop.calls[1] /\ 1 \in DOMAIN loop.calls
    <2>1. loop.calls \in Seq(Call)
      BY <1>2 DEF Loop
    <2> QED
      BY <1>2, <2>1
  <1>4. s \in ResultStep /\ block = AsGiven(s)
    BY <1>2, <1>3, ResultKinds
  <1>5. block \in Block /\ s \in Step /\ IsResult(s)
    BY <1>4, AsGivenType, ResultFields DEF Step
  <1>6. Told(Append(steps, s)) = Append(Told(steps), block)
    BY <1>2, <1>4, <1>5, TellAppends DEF Tell
  <1>7. /\ \A k \in DOMAIN loop.results : loop.results[k].id = asked[k].id
        /\ asked[Len(loop.results) + 1] = loop.calls[1]
        /\ Given(messages) \o loop.results = Told(steps)
    BY <1>1, <1>3 DEF LoopFits, InTurn
  <1>8. block.id = call.id
    BY DEF BlockOf
  <1> HIDE DEF block, call, s, asked
  <1>9. loop.results \in Seq(Block) /\ Given(messages) \in Seq(Block)
    <2>1. Given(messages) \in Blocks
      <3>1. <<>> \in Seq(Call)
        OBVIOUS
      <3>2. Asking(<<>>) \in Turn
        BY <1>2, <3>1, AskingGives
      <3> QED
        BY <1>2, <3>2, GiveAppends
    <2> QED
      BY <1>2, <2>1 DEF Loop, Blocks
  <1>10. /\ results \in Seq(Block) /\ Len(results) = Len(loop.results) + 1
         /\ Len(loop.results) \in Nat /\ results[Len(loop.results) + 1] = block
         /\ \A k \in 1 .. Len(loop.results) :
              results[k] = loop.results[k] /\ k \in DOMAIN loop.results
    BY <1>5, <1>9
  <1>11. Given(messages) \o results = Append(Given(messages) \o loop.results, block)
    BY <1>5, <1>9
  <1> HIDE DEF results
  <1>12. ASSUME NEW k \in 1 .. Len(results)
         PROVE  results[k].id = asked[k].id
    <2>1. CASE k = Len(loop.results) + 1
      BY <1>3, <1>7, <1>8, <1>10, <2>1
    <2>2. CASE k # Len(loop.results) + 1
      <3>1. k \in 1 .. Len(loop.results)
        BY <1>10, <2>2
      <3> QED
        BY <1>7, <1>10, <3>1
    <2> QED
      BY <2>1, <2>2
  <1> QED
    BY <1>6, <1>7, <1>10, <1>11, <1>12 DEF block, call, s, asked, results
LEMMA Extent ==
  ASSUME NEW S, NEW q \in Seq(S)
  PROVE  Len(q) \in Nat /\ DOMAIN q = 1 .. Len(q)
  OBVIOUS

LEMMA Rest ==
  ASSUME NEW S, NEW q \in Seq(S), q # <<>>
  PROVE  /\ Len(q) \in Nat \ {0} /\ Tail(q) \in Seq(S) /\ Len(Tail(q)) = Len(q) - 1
         /\ \A k \in 1 .. Len(q) - 1 : Tail(q)[k] = q[k + 1]
  OBVIOUS

(* A call has its result, and the turn goes on or is answered.             *)
Replying(results) == [role |-> "user", content |-> results]

InHand(results, t, conversation, after) ==
    /\ results \in Seq(Block) /\ Len(results) = Len(t.results) + 1
    /\ \A k \in 1 .. Len(results) :
          results[k].id = conversation[Len(conversation)].content[k].id
    /\ Given(conversation) \o results = Told(after)

LEMMA CallDone ==
  ASSUME NEW t \in Loop, NEW conversation \in Seq(Turn), NEW record,
         InTurn(t, conversation, record), t.pc = "execute", Len(t.calls) > 1,
         NEW results, NEW after, InHand(results, t, conversation, after),
         NEW u, u.pc = "call", u.calls = Tail(t.calls), u.results = results
  PROVE  InTurn(u, conversation, after)
  <1> DEFINE asked == conversation[Len(conversation)]
  <1>1. t.calls \in Seq(Call) /\ t.results \in Seq(Block) /\ t.calls # <<>>
    BY DEF Loop, InTurn
  <1>2. /\ asked.role = "assistant" /\ Len(conversation) % 2 = 1
        /\ Len(asked.content) = Len(t.results) + Len(t.calls)
        /\ \A k \in DOMAIN t.calls : asked.content[Len(t.results) + k] = t.calls[k]
        /\ \A n \in 1 .. Len(conversation) :
              n % 2 = 0 => Answers(conversation[n], conversation[n - 1])
    BY DEF InTurn
  <1>3. /\ Tail(t.calls) \in Seq(Call) /\ Len(Tail(t.calls)) = Len(t.calls) - 1
        /\ DOMAIN Tail(t.calls) = 1 .. Len(t.calls) - 1 /\ Tail(t.calls) # <<>>
        /\ \A k \in 1 .. Len(t.calls) - 1 : Tail(t.calls)[k] = t.calls[k + 1]
    <2>1. /\ Tail(t.calls) \in Seq(Call) /\ Len(Tail(t.calls)) = Len(t.calls) - 1
          /\ \A k \in 1 .. Len(t.calls) - 1 : Tail(t.calls)[k] = t.calls[k + 1]
      BY <1>1, Rest
    <2>2. /\ DOMAIN Tail(t.calls) = 1 .. Len(Tail(t.calls)) /\ Len(t.calls) \in Nat
      BY <1>1, <2>1, Extent
    <2>3. Tail(t.calls) # <<>>
      <3> DEFINE q == Tail(t.calls)
                 m == Len(t.calls)
      <3>1. Len(q) = m - 1 /\ m \in Nat /\ m > 1
        BY <2>1, <2>2
      <3> HIDE DEF q, m
      <3>2. q # <<>>
        BY <3>1
      <3> QED
        BY <3>2 DEF q
    <2> QED
      BY <2>1, <2>2, <2>3
  <1> HIDE DEF asked
  <1>4. /\ Len(t.calls) \in Nat /\ Len(t.results) \in Nat
        /\ DOMAIN t.calls = 1 .. Len(t.calls) /\ DOMAIN results = 1 .. Len(results)
        /\ Len(results) = Len(t.results) + 1
    BY <1>1, Extent DEF InHand
  <1>5. Len(asked.content) = Len(results) + Len(Tail(t.calls))
    <2> DEFINE l == Len(t.calls)
               r == Len(t.results)
               left == Len(Tail(t.calls))
    <2>1. /\ l \in Nat /\ r \in Nat /\ Len(asked.content) = r + l
          /\ Len(results) = r + 1 /\ left = l - 1
      BY <1>2, <1>3, <1>4
    <2> HIDE DEF l, r, left
    <2>2. Len(asked.content) = Len(results) + left
      BY <2>1
    <2> QED
      BY <2>2 DEF left
  <1>6. \A k \in DOMAIN Tail(t.calls) : asked.content[Len(results) + k] = Tail(t.calls)[k]
    <2> SUFFICES ASSUME NEW k \in 1 .. Len(t.calls) - 1
                 PROVE  asked.content[Len(results) + k] = Tail(t.calls)[k]
      BY <1>3
    <2> DEFINE l == Len(t.calls)
               r == Len(t.results)
    <2>1. Len(results) + k = Len(t.results) + (k + 1) /\ k + 1 \in DOMAIN t.calls
      <3>1. /\ l \in Nat /\ r \in Nat /\ Len(results) = r + 1 /\ k \in 1 .. l - 1
            /\ DOMAIN t.calls = 1 .. l
        BY <1>4
      <3> HIDE DEF l, r
      <3>2. Len(results) + k = r + (k + 1) /\ k + 1 \in DOMAIN t.calls
        BY <3>1
      <3> QED
        BY <3>2 DEF r
    <2>2. asked.content[Len(t.results) + (k + 1)] = t.calls[k + 1]
      BY <1>2, <2>1
    <2> QED
      BY <1>3, <2>1, <2>2
  <1>7. \A k \in DOMAIN results : results[k].id = asked.content[k].id
    BY <1>4 DEF asked, InHand
  <1> QED
    BY <1>2, <1>3, <1>5, <1>6, <1>7 DEF InTurn, asked, InHand

LEMMA TurnDone ==
  ASSUME NEW t \in Loop, NEW conversation \in Seq(Turn), NEW record,
         InTurn(t, conversation, record), t.pc = "execute", ~(Len(t.calls) > 1),
         NEW results, NEW after, InHand(results, t, conversation, after),
         NEW u, u.pc = "ask", u.calls = <<>>, u.results = <<>>
  PROVE  InTurn(u, Append(conversation, Replying(results)), after)
  <1> DEFINE asked == conversation[Len(conversation)]
             reply == Replying(results)
             longer == Append(conversation, reply)
  <1>1. t.calls \in Seq(Call) /\ t.results \in Seq(Block) /\ t.calls # <<>>
    BY DEF Loop, InTurn
  <1>2. /\ asked.role = "assistant" /\ Len(conversation) % 2 = 1
        /\ Len(asked.content) = Len(t.results) + Len(t.calls)
        /\ \A n \in 1 .. Len(conversation) :
              n % 2 = 0 => Answers(conversation[n], conversation[n - 1])
    BY DEF InTurn
  <1>3. Len(t.calls) = 1 /\ DOMAIN results = 1 .. Len(results) /\ Len(results) \in Nat
    <2>1. Len(t.calls) \in Nat \ {0}
      BY <1>1, Rest
    <2>2. Len(t.calls) = 1
      <3> DEFINE l == Len(t.calls)
      <3>1. l \in Nat \ {0} /\ ~(l > 1)
        BY <2>1
      <3> HIDE DEF l
      <3>2. l = 1
        BY <3>1
      <3> QED
        BY <3>2 DEF l
    <2>3. results \in Seq(Block)
      BY DEF InHand
    <2> QED
      BY <2>2, <2>3, Extent
  <1>4. Answers(reply, asked)
    BY <1>2, <1>3 DEF Answers, Replying, InHand
  <1>5. reply \in Turn /\ reply.role = "user" /\ reply.content = results
    BY DEF Replying, Turn, InHand
  <1> HIDE DEF reply, asked
  <1>6. Len(longer) = Len(conversation) + 1 /\ Len(conversation) \in Nat
    BY <1>5
  <1>7. \A n \in 1 .. Len(longer) : n % 2 = 0 => Answers(longer[n], longer[n - 1])
    <2>1. Len(conversation) % 2 = 1 => Answers(reply, conversation[Len(conversation)])
      BY <1>4 DEF asked
    <2> QED
      BY <1>2, <1>5, <2>1, AnswersGrow
  <1>8. Given(longer) = Given(conversation) \o results /\ Given(conversation) \in Blocks
    BY <1>5, GiveAppends DEF Give
  <1> HIDE DEF longer
  <1>9. Given(longer) \o <<>> = Told(after)
    <2>1. Given(longer) \in Seq(Block)
      <3>1. Given(conversation) \in Seq(Block)
        BY <1>8 DEF Blocks
      <3>2. results \in Seq(Block)
        BY DEF InHand
      <3> QED
        BY <1>8, <3>1, <3>2
    <2>2. Given(longer) = Told(after)
      BY <1>8 DEF InHand
    <2> QED
      BY <2>1, <2>2
  <1>10. Len(longer) % 2 = 0
    <2> DEFINE m == Len(conversation)
    <2>1. m \in Nat /\ m % 2 = 1 /\ Len(longer) = m + 1
      BY <1>2, <1>6
    <2> HIDE DEF m
    <2>2. (m + 1) % 2 = 0
      BY <2>1
    <2> QED
      BY <2>1, <2>2
  <1>11. InTurn(u, longer, after)
    BY <1>7, <1>9, <1>10 DEF InTurn
  <1> QED
    BY <1>11 DEF longer, reply


LEMMA ExecuteKeeps ==
  ASSUME TranscriptInv, NEW error \in BOOLEAN, Execute(error)
  PROVE  TranscriptInv'
  <1> DEFINE call == Head(loop.calls)
  <1>1. RestFits /\ LoopFits(loop, messages, steps, seen) /\ TabsFit
    BY Parts
  <1>2. /\ steps \in Seq(Step) /\ messages \in Seq(Turn) /\ loop \in Loop
        /\ loop.pc = "execute" /\ loop.calls # <<>>
    BY <1>1 DEF LoopFits, InTurn, Execute
  <1>3. call \in Call
    BY <1>2, FirstCall
  <1>4. PICK result \in Outcomes(call, error) :
          LET results == Append(loop.results, BlockOf(call, error, result))
          IN  /\ steps' = Append(steps, ResultOf(call, error, result))
              /\ seen' = SeenNext(call, error, result)
              /\ IF Len(loop.calls) > 1
                 THEN /\ loop' = [loop EXCEPT !.pc = "call", !.calls = Tail(@),
                                              !.results = results]
                      /\ UNCHANGED messages
                 ELSE /\ loop' = [loop EXCEPT !.pc = "ask", !.calls = <<>>, !.results = <<>>]
                      /\ messages' = Append(messages, [role |-> "user", content |-> results])
    BY DEF Execute, ResultOf, BlockOf, Answered, Outcomes, SeenNext
  <1> DEFINE s == ResultOf(call, error, result)
             results == Append(loop.results, BlockOf(call, error, result))
             asked == messages[Len(messages)]
  <1>5. s \in Step
    BY <1>2, <1>3, ResultKinds DEF Step
  <1>6. /\ steps' = Append(steps, s)
        /\ seen' = SeenNext(call, error, result)
        /\ Len(loop.calls) > 1 =>
             /\ loop' = [loop EXCEPT !.pc = "call", !.calls = Tail(@), !.results = results]
             /\ messages' = messages
        /\ ~(Len(loop.calls) > 1) =>
             /\ loop' = [loop EXCEPT !.pc = "ask", !.calls = <<>>, !.results = <<>>]
             /\ messages' = Append(messages, Replying(results))
    BY <1>4 DEF Replying
  <1>7. /\ seen' \in [Customers -> 0 .. Len(steps') \cup {None}]
        /\ \A c \in Customers : HistoryRead(steps', c).found = seen'[c]
    <2>1. PICK h : h = seen'
      OBVIOUS
    <2>2. h = SeenNext(Head(loop.calls), error, result)
      BY <1>6, <2>1
    <2>3. /\ h \in [Customers -> 0 .. Len(Append(steps, s)) \cup {None}]
          /\ \A c \in Customers : HistoryRead(Append(steps, s), c).found = h[c]
      BY <1>2, <2>2, ResultIsRead
    <2> HIDE DEF s, call, results
    <2> QED
      BY <1>6, <2>1, <2>3
  <1>8. InHand(results, loop, messages, steps') /\ results \in Seq(Block)
    BY <1>2, <1>6, BlockIsTold DEF InHand
  <1> HIDE DEF call, s, results
  <1>9. steps' \in Seq(Step)
    BY <1>2, <1>5, <1>6
  <1>10. \A u : u.pc # "execute" => Awaited(u, steps', seen')
    BY <1>7 DEF Awaited
  <1>11. ASSUME Len(loop.calls) > 1
         PROVE  LoopFits(loop', messages', steps', seen')
    <2>1. /\ loop' = [loop EXCEPT !.pc = "call", !.calls = Tail(@), !.results = results]
          /\ messages' = messages
      BY <1>6, <1>11
    <2>2. loop.calls \in Seq(Call) /\ loop.results \in Seq(Block) /\ Len(loop.calls) <= MaxCalls
      BY <1>1, <1>2 DEF LoopFits, Loop
    <2>3. /\ Tail(loop.calls) \in Seq(Call) /\ Len(Tail(loop.calls)) = Len(loop.calls) - 1
          /\ Len(loop.calls) \in Nat
      BY <1>2, <2>2, Rest
    <2>4. /\ loop' \in Loop /\ loop'.pc = "call" /\ loop'.calls = Tail(loop.calls)
          /\ loop'.results = results
      BY <1>2, <1>8, <2>1, <2>3 DEF Loop
    <2>5. Len(loop'.calls) <= MaxCalls
      BY <2>2, <2>3, <2>4, TranscriptAssumption
    <2>6. InTurn(loop', messages', steps')
      BY <1>1, <1>2, <1>8, <1>11, <2>1, <2>4, CallDone DEF LoopFits
    <2> QED
      BY <1>2, <1>7, <1>9, <1>10, <2>1, <2>4, <2>5, <2>6 DEF LoopFits
  <1>12. ASSUME ~(Len(loop.calls) > 1)
         PROVE  LoopFits(loop', messages', steps', seen')
    <2>1. /\ loop' = [loop EXCEPT !.pc = "ask", !.calls = <<>>, !.results = <<>>]
          /\ messages' = Append(messages, Replying(results))
      BY <1>6, <1>12
    <2>2. /\ loop' \in Loop /\ loop'.pc = "ask" /\ loop'.calls = <<>> /\ loop'.results = <<>>
      <3>1. <<>> \in Seq(Call) /\ <<>> \in Seq(Block)
        OBVIOUS
      <3> QED
        BY <1>2, <2>1, <3>1 DEF Loop
    <2>3. Len(loop'.calls) <= MaxCalls
      BY <2>2, TranscriptAssumption
    <2>4. Replying(results) \in Turn
      BY <1>8 DEF Turn, Replying
    <2>5. messages' \in Seq(Turn)
      BY <1>2, <2>1, <2>4
    <2>6. InTurn(loop', messages', steps')
      BY <1>1, <1>2, <1>8, <1>12, <2>1, <2>2, TurnDone DEF LoopFits
    <2> QED
      BY <1>7, <1>9, <1>10, <2>2, <2>3, <2>5, <2>6 DEF LoopFits
  <1>13. LoopFits(loop', messages', steps', seen')
    BY <1>11, <1>12
  <1>14. TabsFit'
    BY <1>1, <1>2, <1>5, <1>6, TabsStay DEF Execute, reader
  <1>15. RestFits'
    BY <1>1 DEF Execute, reader, RestFits
  <1> QED
    BY <1>13, <1>14, <1>15, PartsNext

-----------------------------------------------------------------------------
(* What the pages do *)

(* A page keeps its place when it changes where it stands in its stream.   *)
LEMMA StandsElsewhere ==
  ASSUME NEW view, NEW record \in Seq(Step), ViewFits(view, record),
         NEW pc \in {"away", "poll", "status", "lost", "told", "still"}, NEW quiet \in BOOLEAN,
         NEW last \in view.after .. view.last
  PROVE  ViewFits([view EXCEPT !.pc = pc, !.quiet = quiet, !.last = last], record)
  <1> DEFINE moved == [view EXCEPT !.pc = pc, !.quiet = quiet, !.last = last]
  <1>1. view \in View /\ view.after \in Nat /\ view.last \in Nat /\ Len(record) \in Nat
    BY DEF ViewFits, View
  <1>2. last \in Nat /\ last <= view.last /\ last \in view.after .. Len(record)
    BY <1>1 DEF ViewFits
  <1>3. /\ moved \in View /\ moved.last = last /\ moved.after = view.after
        /\ moved.rows = view.rows /\ moved.open = view.open
    BY <1>1, <1>2 DEF View
  <1>4. Shows(view.rows, last)
    <2>1. \A k \in 1 .. last : k \in 1 .. view.last
      BY <1>1, <1>2
    <2> QED
      BY <2>1 DEF ViewFits, Shows
  <1> HIDE DEF moved
  <1>5. ViewFits(moved, record)
    BY <1>2, <1>3, <1>4 DEF ViewFits, OpenCall
  <1> QED
    BY <1>5 DEF moved

LEMMA LostFits ==
  ASSUME NEW view, NEW record \in Seq(Step), ViewFits(view, record)
  PROVE  ViewFits(Lost(view), record)
  <1>1. /\ view \in View /\ view.after \in Nat /\ view.last \in Nat
        /\ view.last \in view.after .. view.last
    BY DEF ViewFits, View
  <1>2. [view EXCEPT !.pc = "lost", !.quiet = FALSE]
          = [view EXCEPT !.pc = "lost", !.quiet = FALSE, !.last = view.last]
    BY <1>1 DEF View
  <1>3. ViewFits([view EXCEPT !.pc = "lost", !.quiet = FALSE, !.last = view.last], record)
    BY <1>1, StandsElsewhere
  <1> QED
    BY <1>2, <1>3 DEF Lost

(* The page the server sends shows the transcript up to its cursor.        *)
LEMMA LoadedFits ==
  ASSUME steps \in Seq(Step)
  PROVE  ViewFits(Loaded, steps)
  <1> DEFINE rows == fold_results_into_calls
             cursor == IF rows = <<>> THEN 0 ELSE Last(rows).seq
  <1>1. rows \in Rows /\ SoundRows(steps, rows) /\ Shows(rows, Len(steps)) /\ Len(steps) \in Nat
    BY FoldedKeeps DEF Kept
  <1> HIDE DEF rows
  <1>2. rows \in Seq(RowSet) /\ Len(rows) \in Nat
    BY <1>1 DEF Rows, RowSet
  <1>3. cursor \in 0 .. Len(steps)
    <2>1. CASE rows = <<>>
      BY <1>1, <2>1
    <2>2. CASE rows # <<>>
      <3>1. Len(rows) \in DOMAIN rows /\ Last(rows) = rows[Len(rows)]
        BY <1>2, <2>2 DEF Last
      <3>2. Last(rows).seq \in 1 .. Len(steps)
        BY <1>1, <3>1 DEF SoundRows
      <3> QED
        BY <1>1, <2>2, <3>2
    <2> QED
      BY <2>1, <2>2
  <1> HIDE DEF cursor
  <1> DEFINE going == [Away EXCEPT !.pc = "poll", !.after = cursor, !.last = cursor, !.rows = rows]
             still == [Away EXCEPT !.pc = "still", !.rows = rows]
  <1>4. Loaded = IF status \in Unfinished THEN going ELSE still
    BY DEF Loaded, rows, cursor
  <1>5. ViewFits(going, steps)
    <2>1. \A k \in 1 .. cursor : k \in 1 .. Len(steps)
      BY <1>1, <1>3
    <2>2. Shows(rows, cursor)
      BY <1>1, <2>1 DEF Shows
    <2>3. cursor \in Nat /\ cursor \in cursor .. Len(steps) /\ 0 \in 0 .. Len(rows)
      BY <1>1, <1>2, <1>3
    <2>4. going \in View
      BY <1>2, <2>3 DEF Away, View, RowSet
    <2>5. going.last = cursor /\ going.after = cursor /\ going.rows = rows /\ going.open = 0
      BY DEF Away
    <2> HIDE DEF going
    <2> QED
      BY <1>1, <2>2, <2>3, <2>4, <2>5 DEF ViewFits, OpenCall
  <1>6. ViewFits(still, steps)
    <2>1. Shows(rows, 0) /\ 0 \in 0 .. Len(steps) /\ 0 \in 0 .. Len(rows)
      BY <1>1, <1>2 DEF Shows
    <2>2. still \in View
      BY <1>2 DEF Away, View, RowSet
    <2>3. still.last = 0 /\ still.after = 0 /\ still.rows = rows /\ still.open = 0
      BY DEF Away
    <2> HIDE DEF still
    <2> QED
      BY <1>1, <2>1, <2>2, <2>3 DEF ViewFits, OpenCall
  <1> QED
    BY <1>4, <1>5, <1>6

LEMMA SeesKeeps ==
  ASSUME TranscriptInv, NEW x \in Tabs, NEW view, ViewFits(view, steps), Sees(x, view),
         UNCHANGED others, cuts' \in 0 .. MaxCuts
  PROVE  TranscriptInv'
  <1>1. RestFits /\ LoopFits(loop, messages, steps, seen) /\ TabsFit
    BY Parts
  <1>2. UNCHANGED <<scene, up, status, loop, messages, steps, seen>>
    BY DEF others
  <1>3. tab' = [tab EXCEPT ![x] = view] /\ view \in View
    BY DEF Sees, ViewFits
  <1>4. tab' \in [Tabs -> View] /\ \A y \in Tabs : ViewFits(tab'[y], steps)
    BY <1>1, <1>3 DEF TabsFit
  <1>5. TabsFit'
    BY <1>2, <1>4 DEF TabsFit
  <1>6. RestFits'
    BY <1>1, <1>2 DEF RestFits
  <1> QED
    BY <1>1, <1>2, <1>5, <1>6, PartsNext

LEMMA TabFits ==
  ASSUME TranscriptInv, NEW x \in Tabs
  PROVE  /\ ViewFits(tab[x], steps) /\ steps \in Seq(Step) /\ cuts \in 0 .. MaxCuts
         /\ tab[x] \in View /\ tab[x].after \in Nat /\ tab[x].last \in Nat
         /\ tab[x].after <= tab[x].last
  <1>1. ViewFits(tab[x], steps) /\ steps \in Seq(Step) /\ cuts \in 0 .. MaxCuts
    BY Parts DEF TabsFit, LoopFits, RestFits
  <1>2. tab[x] \in View /\ tab[x].last \in tab[x].after .. Len(steps)
    BY <1>1 DEF ViewFits
  <1>3. tab[x].after \in Nat /\ tab[x].last \in Nat
    BY <1>2 DEF View
  <1> QED
    BY <1>1, <1>2, <1>3

LEMMA LoadKeeps ==
  ASSUME TranscriptInv, NEW x \in Tabs, Sees(x, Loaded), UNCHANGED <<others, cuts>>
  PROVE  TranscriptInv'
  <1>1. ViewFits(Loaded, steps) /\ cuts' \in 0 .. MaxCuts
    BY TabFits, LoadedFits
  <1> QED
    BY <1>1, SeesKeeps

LEMMA PollKeeps ==
  ASSUME TranscriptInv, NEW x \in Tabs, Poll(x)
  PROVE  TranscriptInv'
  <1> DEFINE old == tab[x]
             new == [n \in 1 .. (Len(steps) - old.last) |-> old.last + n]
             sheet == [rows |-> old.rows, open |-> old.open]
             drawn == Drawn(sheet, new)
             view == [old EXCEPT !.pc = "status", !.last = Len(steps), !.quiet = (new = <<>>),
                                 !.rows = drawn.rows, !.open = drawn.open]
  <1>1. /\ ViewFits(old, steps) /\ steps \in Seq(Step) /\ cuts \in 0 .. MaxCuts /\ old \in View
        /\ old.after \in Nat /\ old.last \in Nat /\ old.after <= old.last
    BY TabFits
  <1>2. old.last \in 0 .. Len(steps) /\ Len(steps) \in Nat
    BY <1>1 DEF ViewFits
  <1>3. sheet \in Sheets /\ sheet.rows = old.rows /\ sheet.open = old.open
    BY <1>1 DEF View, Sheets, Rows
  <1> HIDE DEF sheet
  <1>4. /\ Kept(steps, sheet.rows, old.last) /\ sheet.open \in 0 .. Len(sheet.rows)
        /\ OpenCall(sheet, steps)
    BY <1>1, <1>3 DEF ViewFits, Kept, OpenCall
  <1> HIDE DEF old
  <1>5. /\ drawn \in Sheets /\ Kept(steps, drawn.rows, Len(steps))
        /\ drawn.open \in 0 .. Len(drawn.rows) /\ OpenCall(drawn, steps)
    BY <1>1, <1>2, <1>3, <1>4, DrawnKeeps
  <1> DEFINE quiet == (new = <<>>)
  <1>6. quiet \in BOOLEAN
    OBVIOUS
  <1> HIDE DEF drawn, new, quiet
  <1>7. /\ view \in View /\ view.last = Len(steps) /\ view.after = old.after
        /\ view.rows = drawn.rows /\ view.open = drawn.open
    BY <1>1, <1>2, <1>5, <1>6 DEF View, Sheets, Rows, quiet
  <1>8. Sees(x, view) /\ UNCHANGED others /\ cuts' = cuts
    BY DEF Poll, old, new, sheet, drawn
  <1> HIDE DEF view
  <1>9. view.last \in view.after .. Len(steps)
    BY <1>1, <1>2, <1>7
  <1>10. ViewFits(view, steps)
    BY <1>5, <1>7, <1>9 DEF ViewFits, Kept, OpenCall
  <1> QED
    BY <1>1, <1>8, <1>10, SeesKeeps

LEMMA ReadStatusKeeps ==
  ASSUME TranscriptInv, NEW x \in Tabs, ReadStatus(x)
  PROVE  TranscriptInv'
  <1> DEFINE pc == IF status \notin Unfinished /\ tab[x].quiet THEN "told" ELSE "poll"
             moved == [tab[x] EXCEPT !.pc = pc, !.quiet = FALSE, !.last = tab[x].last]
  <1>1. /\ ViewFits(tab[x], steps) /\ steps \in Seq(Step) /\ cuts \in 0 .. MaxCuts
        /\ tab[x] \in View /\ tab[x].last \in tab[x].after .. tab[x].last
    BY TabFits
  <1>2. pc \in {"away", "poll", "status", "lost", "told", "still"}
    OBVIOUS
  <1>3. Sees(x, [tab[x] EXCEPT !.quiet = FALSE, !.pc = pc]) /\ UNCHANGED <<others, cuts>>
    BY DEF ReadStatus
  <1> HIDE DEF pc
  <1>4. moved = [tab[x] EXCEPT !.quiet = FALSE, !.pc = pc]
    BY <1>1 DEF View
  <1>5. ViewFits(moved, steps)
    BY <1>1, <1>2, StandsElsewhere
  <1> HIDE DEF moved
  <1> QED
    BY <1>1, <1>3, <1>4, <1>5, SeesKeeps

LEMMA ReconnectKeeps ==
  ASSUME TranscriptInv, NEW x \in Tabs, Reconnect(x)
  PROVE  TranscriptInv'
  <1> DEFINE quiet == tab[x].quiet
             moved == [tab[x] EXCEPT !.pc = "poll", !.quiet = quiet, !.last = tab[x].after]
  <1>1. /\ ViewFits(tab[x], steps) /\ steps \in Seq(Step) /\ cuts \in 0 .. MaxCuts
        /\ tab[x] \in View /\ tab[x].after \in tab[x].after .. tab[x].last
    BY TabFits
  <1>2. Sees(x, [tab[x] EXCEPT !.pc = "poll", !.last = tab[x].after]) /\ UNCHANGED <<others, cuts>>
    BY DEF Reconnect
  <1>3. moved = [tab[x] EXCEPT !.pc = "poll", !.last = tab[x].after] /\ quiet \in BOOLEAN
    BY <1>1 DEF View
  <1>4. ViewFits(moved, steps)
    BY <1>1, <1>3, StandsElsewhere
  <1> HIDE DEF moved
  <1> QED
    BY <1>1, <1>2, <1>3, <1>4, SeesKeeps

LEMMA DropKeeps ==
  ASSUME TranscriptInv, NEW x \in Tabs, Drop(x)
  PROVE  TranscriptInv'
  <1>1. ViewFits(Lost(tab[x]), steps)
    BY TabFits, LostFits
  <1>2. Sees(x, Lost(tab[x])) /\ UNCHANGED others
    BY DEF Drop
  <1>3. cuts' \in 0 .. MaxCuts
    <2>1. cuts \in 0 .. MaxCuts /\ MaxCuts \in Nat
      BY TabFits, TranscriptAssumption
    <2> QED
      BY <2>1 DEF Drop
  <1> QED
    BY <1>1, <1>2, <1>3, SeesKeeps

LEMMA KillKeeps ==
  ASSUME TranscriptInv, Kill
  PROVE  TranscriptInv'
  <1>1. RestFits /\ LoopFits(loop, messages, steps, seen) /\ TabsFit
    BY Parts
  <1>2. /\ loop' = Gone /\ messages' = <<>> /\ steps' = steps /\ seen' = seen
        /\ tab' = [x \in Tabs |-> Lost(tab[x])]
    BY DEF Kill
  <1>3. LoopFits(loop', messages', steps', seen')
    BY <1>1, <1>2, GoneFits
  <1>4. steps \in Seq(Step) /\ \A x \in Tabs : ViewFits(tab[x], steps)
    BY <1>1 DEF TabsFit, LoopFits
  <1>5. \A x \in Tabs : ViewFits(Lost(tab[x]), steps)
    BY <1>4, LostFits
  <1>6. tab' \in [Tabs -> View] /\ \A x \in Tabs : ViewFits(tab'[x], steps)
    BY <1>2, <1>5 DEF ViewFits
  <1>7. TabsFit'
    BY <1>2, <1>6 DEF TabsFit
  <1>8. RestFits'
    <2>1. cuts \in 0 .. MaxCuts /\ MaxCuts \in Nat
      BY <1>1, TranscriptAssumption DEF RestFits
    <2>2. cuts < MaxCuts /\ cuts' = cuts + 1
      BY DEF Kill
    <2>3. cuts' \in 0 .. MaxCuts
      BY <2>1, <2>2
    <2> QED
      BY <1>1, <2>3 DEF Kill, RestFits
  <1> QED
    BY <1>3, <1>7, <1>8, PartsNext

LEMMA RestartKeeps ==
  ASSUME TranscriptInv, Restart
  PROVE  TranscriptInv'
  <1>1. RestFits /\ LoopFits(loop, messages, steps, seen) /\ TabsFit
    BY Parts
  <1>2. UNCHANGED <<scene, loop, messages, steps, seen, tab, cuts>>
    BY DEF Restart
  <1>3. TabsFit'
    BY <1>1, <1>2 DEF TabsFit
  <1>4. RestFits'
    BY <1>1, <1>2 DEF Restart, RestFits, Unfinished
  <1> QED
    BY <1>1, <1>2, <1>3, <1>4, PartsNext

-----------------------------------------------------------------------------
(* The invariant *)

LEMMA InitFits == Init => TranscriptInv
  <1> SUFFICES ASSUME Init PROVE TranscriptInv
    OBVIOUS
  <1>1. /\ loop = [Gone EXCEPT !.pc = "start"] /\ messages = <<>> /\ steps = <<>>
        /\ seen = [c \in Customers |-> None] /\ tab = [x \in Tabs |-> Away]
        /\ scene \in Scenes /\ up = TRUE /\ status = "queued" /\ cuts = 0
    BY DEF Init
  <1>2. <<>> \in Seq(Call) /\ <<>> \in Seq(Block) /\ <<>> \in Seq(Turn) /\ <<>> \in Seq(Step)
        /\ Len(<<>>) = 0
    OBVIOUS
  <1>3. loop \in Loop /\ loop.pc = "start" /\ loop.calls = <<>> /\ loop.results = <<>>
    <2>1. loop = [pc |-> "start", turns |-> 0, used |-> 0, calls |-> <<>>, results |-> <<>>]
      BY <1>1 DEF Gone
    <2>2. 0 \in 0 .. MaxTurns /\ 0 \in 0 .. MaxToolCalls
      BY TranscriptAssumption
    <2> QED
      BY <1>2, <2>1, <2>2 DEF Loop
  <1>4. InTurn(loop, messages, steps)
    <2>1. Given(<<>>) = <<>> /\ Told(<<>>) = <<>>
      BY GiveStarts, TellStarts
    <2>2. Len(messages) = 0 /\ 0 % 2 = 0 /\ Given(messages) = <<>> /\ Told(steps) = <<>>
      BY <1>1, <1>2, <2>1
    <2>3. <<>> \o <<>> = <<>>
      OBVIOUS
    <2> QED
      BY <1>3, <2>2, <2>3 DEF InTurn
  <1>5. Awaited(loop, steps, seen)
    <2>1. \A c : HistoryRead(<<>>, c) = Unasked(None)
      BY HistoryStarts
    <2> QED
      BY <1>1, <1>3, <2>1 DEF Awaited, Unasked
  <1>6. LoopFits(loop, messages, steps, seen)
    BY <1>1, <1>2, <1>3, <1>4, <1>5, TranscriptAssumption DEF LoopFits
  <1>7. ViewFits(Away, <<>>)
    BY DEF ViewFits, View, Away, SoundRows, Shows, OpenCall
  <1>8. TabsFit
    BY <1>1, <1>7 DEF TabsFit, ViewFits
  <1>9. RestFits
    BY <1>1, TranscriptAssumption DEF RestFits, Unfinished
  <1> QED
    BY <1>6, <1>8, <1>9, Parts

LEMMA NextKeeps == TranscriptInv /\ [Next]_vars => TranscriptInv'
  <1> SUFFICES ASSUME TranscriptInv, [Next]_vars PROVE TranscriptInv'
    OBVIOUS
  <1>1. CASE LoopStep
    <2>1. CASE Begin
      BY <2>1, BeginKeeps
    <2>2. CASE \E says \in scene.says, n \in 0 .. MaxCalls :
                  \E requests \in [1 .. n -> scene.requests] : Answer(says, requests)
      <3>1. PICK says \in scene.says, n \in 0 .. MaxCalls :
                  \E requests \in [1 .. n -> scene.requests] : Answer(says, requests)
        BY <2>2
      <3>2. PICK requests \in [1 .. n -> scene.requests] : Answer(says, requests)
        BY <3>1
      <3>3. says \in BOOLEAN
        BY TranscriptAssumption DEF TranscriptInv, TypeOK
      <3> QED
        BY <3>2, <3>3, AnswerKeeps
    <2>3. CASE Exceeded
      BY <2>3, ExceededKeeps
    <2>4. CASE PersistCall
      BY <2>4, PersistCallKeeps
    <2>5. CASE \E error \in BOOLEAN : Execute(error)
      BY <2>5, ExecuteKeeps
    <2>6. CASE Close
      BY <2>6, CloseKeeps
    <2> QED
      BY <1>1, <2>1, <2>2, <2>3, <2>4, <2>5, <2>6 DEF LoopStep
  <1>2. CASE Fail
    BY <1>2, FailKeeps
  <1>3. ASSUME NEW x \in Tabs, OpenPage(x)
        PROVE  TranscriptInv'
    BY <1>3, LoadKeeps DEF OpenPage
  <1>4. ASSUME NEW x \in Tabs, TabStep(x)
        PROVE  TranscriptInv'
    <2>1. CASE Poll(x)
      BY <2>1, PollKeeps
    <2>2. CASE ReadStatus(x)
      BY <2>2, ReadStatusKeeps
    <2>3. CASE Reload(x) /\ UNCHANGED <<others, cuts>>
      BY <2>3, LoadKeeps DEF Reload
    <2>4. CASE Reconnect(x)
      BY <2>4, ReconnectKeeps
    <2> QED
      BY <1>4, <2>1, <2>2, <2>3, <2>4 DEF TabStep
  <1>5. ASSUME NEW x \in Tabs, Drop(x)
        PROVE  TranscriptInv'
    BY <1>5, DropKeeps
  <1>6. CASE Kill
    BY <1>6, KillKeeps
  <1>7. CASE Restart
    BY <1>7, RestartKeeps
  <1>8. CASE UNCHANGED vars
    BY <1>8 DEF vars, TranscriptInv, TypeOK, InTurn, Awaited, NothingLost, OpenCall, Seqs
  <1> QED
    BY <1>1, <1>2, <1>3, <1>4, <1>5, <1>6, <1>7, <1>8 DEF Next

(* In every state a turn under way, the reader of a payment history and an *)
(* open page stand where the record says they do.                          *)
THEOREM TranscriptInvariant == Spec => []TranscriptInv
  BY InitFits, NextKeeps, PTL DEF Spec

(* A cursor or a row is of a step that is stored, and a row holds a call's *)
(* answer or nothing, in every state.                                      *)
THEOREM TypesHold == Spec => []TypeOK
  <1>1. TranscriptInv => TypeOK
    BY DEF TranscriptInv
  <1> QED
    BY TranscriptInvariant, <1>1, PTL

(* The panel shows the payment history last returned to the agent of each  *)
(* customer, whatever failed, came in parallel or shares an id.            *)
THEOREM HistoriesAreAsSeen == Spec => []HistoryIsWhatTheAgentSaw
  <1>1. TranscriptInv => HistoryIsWhatTheAgentSaw
    BY DEF TranscriptInv, Awaited, HistoryIsWhatTheAgentSaw, payment_history_seen_by_the_agent
  <1> QED
    BY TranscriptInvariant, <1>1, PTL

(* Every call of every turn is answered in order before the model is asked *)
(* again, and what the model was given is what the transcript keeps.       *)
THEOREM CallsAreAnswered == Spec => []EveryCallAnswered
  <1>1. TranscriptInv => EveryCallAnswered
    <2> SUFFICES ASSUME TranscriptInv, loop.pc = "ask"
                 PROVE  /\ Len(messages) % 2 = 0
                        /\ \A n \in 1 .. Len(messages) :
                              n % 2 = 0 => Answers(messages[n], messages[n - 1])
                        /\ Given(messages) = Told(steps)
      BY DEF EveryCallAnswered
    <2>1. /\ Len(messages) % 2 = 0 /\ loop.results = <<>>
          /\ \A n \in 1 .. Len(messages) :
                n % 2 = 0 => Answers(messages[n], messages[n - 1])
          /\ Given(messages) \o loop.results = Told(steps)
      BY DEF TranscriptInv, InTurn
    <2>2. Given(messages) \in Blocks
      <3>1. messages \in Seq(Turn)
        BY DEF TranscriptInv, TypeOK
      <3>2. Asking(<<>>) \in Turn
        BY DEF Asking, Turn
      <3> QED
        BY <3>1, <3>2, GiveAppends
    <2>3. Given(messages) \o <<>> = Given(messages)
      BY <2>2 DEF Blocks
    <2> QED
      BY <2>1, <2>3
  <1> QED
    BY TranscriptInvariant, <1>1, PTL

(* A page shows every step up to its stream's cursor, however many pages   *)
(* there are and whatever was cut.                                         *)
THEOREM StepsAreShown == Spec => []NothingLost
  <1>1. TranscriptInv => NothingLost
    BY DEF TranscriptInv
  <1> QED
    BY TranscriptInvariant, <1>1, PTL

(* A call once shown under a name stays so: no later result unlearns one.  *)
LEMMA LearnKeeps ==
  ASSUME NEW index \in Index, NEW s \in Step, NEW c \in Customers
  PROVE  LET learnt == Learn(index, s)
         IN  /\ index[c].invoice # None => learnt[c].invoice # None
             /\ index[c].customer # None => learnt[c].customer # None
  BY DEF Learn, Merge

LEMMA AboutStays ==
  ASSUME NEW record \in Seq(Step), NEW s \in Step, NEW call \in Step, IsCall(call),
         step_about(call, transcript_index(record)) # None
  PROVE  step_about(call, transcript_index(Append(record, s))) # None
  <1>1. /\ transcript_index(record) \in Index
        /\ transcript_index(Append(record, s)) = Learn(transcript_index(record), s)
    BY LearnAppends
  <1>2. call.tool \in {"history", "letter"}
    BY DEF step_about
  <1>3. call.of \in Customers
    BY <1>2, StepKinds, CallFields
  <1> QED
    BY <1>1, <1>2, <1>3, LearnKeeps DEF step_about

(* The loop adds to the record, one step at a time; nothing is rewritten.  *)
LEMMA RecordGrows ==
  ASSUME TranscriptInv, [Next]_vars
  PROVE  steps' = steps \/ \E s : steps' = Append(steps, s)
  <1>1. ASSUME NEW error \in BOOLEAN, Execute(error)
        PROVE  \E s : steps' = Append(steps, s)
    BY <1>1 DEF Execute
  <1>2. ASSUME NEW says, NEW requests, Answer(says, requests)
        PROVE  steps' = steps \/ steps' = Append(steps, Message)
    BY <1>2 DEF Answer
  <1>3. LoopStep => steps' = steps \/ \E s : steps' = Append(steps, s)
    BY <1>1, <1>2 DEF LoopStep, Begin, Exceeded, PersistCall, Close
  <1>4. ASSUME NEW x \in Tabs, OpenPage(x) \/ TabStep(x) \/ Drop(x)
        PROVE  steps' = steps
    BY <1>4 DEF OpenPage, TabStep, Poll, ReadStatus, Reload, Reconnect, Drop, others
  <1>5. Fail \/ Kill \/ Restart \/ UNCHANGED vars => steps' = steps
    BY DEF Fail, Kill, Restart, vars
  <1> QED
    BY <1>3, <1>4, <1>5 DEF Next

(* A call that a page once showed under a customer's name never goes back  *)
(* to an id, however long the run and whatever its later results say.      *)
THEOREM NamesAreKept == Spec => NamesStayKnown
  <1> DEFINE Body == LET before == transcript_index(steps)
                         after == transcript_index(steps')
                     IN  \A k \in DOMAIN steps :
                            IsCall(steps[k]) /\ step_about(steps[k], before) # None =>
                                step_about(steps'[k], after) # None
  <1>1. TranscriptInv /\ TranscriptInv' /\ [Next]_vars => [Body]_steps
    <2> SUFFICES ASSUME TranscriptInv, TranscriptInv', [Next]_vars, ~(UNCHANGED steps),
                        NEW k \in DOMAIN steps, IsCall(steps[k]),
                        step_about(steps[k], transcript_index(steps)) # None
                 PROVE  step_about(steps'[k], transcript_index(steps')) # None
      OBVIOUS
    <2>1. PICK s : steps' = Append(steps, s)
      BY RecordGrows
    <2>2. steps \in Seq(Step) /\ steps' \in Seq(Step)
      BY DEF TranscriptInv, TypeOK
    <2>3. /\ Len(steps) \in Nat /\ Len(Append(steps, s)) = Len(steps) + 1
          /\ Append(steps, s)[Len(steps) + 1] = s /\ Append(steps, s)[k] = steps[k]
          /\ steps[k] \in Step
      BY <2>2
    <2>4. s \in Step
      BY <2>1, <2>2, <2>3
    <2>5. step_about(steps[k], transcript_index(Append(steps, s))) # None
      BY <2>2, <2>3, <2>4, AboutStays
    <2> QED
      BY <2>1, <2>3, <2>5
  <1> QED
    BY TranscriptInvariant, <1>1, PTL DEF Spec, NamesStayKnown
=============================================================================
