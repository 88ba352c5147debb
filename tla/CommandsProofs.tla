---------------------------- MODULE CommandsProofs ----------------------------
(***************************************************************************)
(* The commands "update" and "keywords", for names, texts, words and       *)
(* documents of any number and length, and any size the array has at       *)
(* first.  The buffers: nothing is written beyond the array, and what was  *)
(* put in is what is sent.  The requests: searchd reads what the caller    *)
(* asked, or nothing.  The answers: what came of them is what the caller   *)
(* is told, wherever they were cut.                                        *)
(***************************************************************************)
EXTENDS Commands, BufferProofs

-----------------------------------------------------------------------------
(* The operators >> and readOnReadable() *)

\* The end stays, the start moves up to it at most.
LEMMA StartMoves ==
    ASSUME NEW q \in GoodBuffers, NEW n \in Nat, n <= GetLength(q)
    PROVE  /\ [q EXCEPT !.dataStartPtr = @ + n] \in GoodBuffers
           /\ [q EXCEPT !.dataStartPtr = @ + n].dataEndPtr = q.dataEndPtr
<1> DEFINE r == [q EXCEPT !.dataStartPtr = @ + n]
<1>1. /\ q.data \in Seq(Int) /\ Len(q.data) = q.dataSize
      /\ q.dataStartPtr \in Nat /\ q.dataEndPtr \in Nat /\ q.dataSize \in Nat
      /\ q.dataStartPtr <= q.dataEndPtr /\ q.dataEndPtr <= q.dataSize
      /\ q.dataSize >= InitialSize
      /\ \A k \in 1 .. q.dataEndPtr : q.data[k] \in Nat
      /\ q.convertEndian \in BOOLEAN /\ GetLength(q) = q.dataEndPtr - q.dataStartPtr
  BY GoodParts
<1>2. r = [data |-> q.data, dataStartPtr |-> q.dataStartPtr + n, dataEndPtr |-> q.dataEndPtr,
           dataSize |-> q.dataSize, convertEndian |-> q.convertEndian]
  BY DEF GoodBuffers
<1>3. q.dataStartPtr + n \in Nat /\ q.dataStartPtr + n <= q.dataEndPtr
  BY <1>1
<1> HIDE DEF r
<1>4. r \in GoodBuffers /\ r.dataEndPtr = q.dataEndPtr
  BY <1>1, <1>2, <1>3 DEF GoodBuffers
<1> QED
  BY <1>4 DEF r

LEMMA GetGood ==
    ASSUME NEW q \in GoodBuffers, NEW width \in 1 .. 4
    PROVE  /\ Get(q, width).rest \in GoodBuffers
           /\ Get(q, width).ok \in BOOLEAN
           /\ Get(q, width).ok => Get(q, width).value \in Nat
<1>1. CASE GetLength(q) >= width
  <2> DEFINE cells == SubSeq(Content(q), 1, width)
             r     == [q EXCEPT !.dataStartPtr = @ + width]
  <2>1. width \in Nat /\ width <= GetLength(q) /\ GetLength(q) \in Nat
    BY <1>1, GoodParts
  <2>2. r \in GoodBuffers
    BY <2>1, StartMoves
  <2>3. cells \in Cells
    <3> DEFINE c == Content(q)
    <3>1. c \in Seq(Nat) /\ Len(c) = GetLength(q)
      BY ContentIs DEF Cells
    <3> HIDE DEF c
    <3>2. \A k \in 1 .. width : c[k] \in Nat
      BY <2>1, <3>1, ElementOfSeq
    <3>3. 1 \in Int /\ width \in Int
      BY <2>1
    <3>4. SubSeq(c, 1, width) \in Seq(Nat)
      BY <3>2, <3>3, SubSeqProperties
    <3> QED
      BY <3>4 DEF Cells, c
  <2>4. Get(q, width) = [ok |-> TRUE, value |-> Number(Ordered(q, cells)), rest |-> r]
    BY <1>1 DEF Get
  <2> HIDE DEF cells, r
  <2>5. Number(Ordered(q, cells)) \in Nat
    BY <2>3, OrderedTyped, NumberTyped
  <2> QED
    BY <2>2, <2>4, <2>5
<1>2. CASE ~(GetLength(q) >= width)
  <2>1. Get(q, width) = [ok |-> FALSE, value |-> Garbage, rest |-> q]
    BY <1>2 DEF Get
  <2> QED
    BY <2>1
<1> QED
  BY <1>1, <1>2

LEMMA GetStringGood ==
    ASSUME NEW q \in GoodBuffers
    PROVE  GetString(q).rest \in GoodBuffers /\ GetString(q).value \in Cells
<1> DEFINE length == GetWord(q)
           cells  == length.value \div 2
           moved  == [length.rest EXCEPT !.dataStartPtr = @ + cells]
           text   == SubSeq(Content(length.rest), 1, cells)
<1>1. /\ length.rest \in GoodBuffers /\ length.ok \in BOOLEAN
      /\ length.ok => length.value \in Nat
  <2>1. 2 \in 1 .. 4
    OBVIOUS
  <2> QED
    BY <2>1, GetGood DEF GetWord
<1>2. CASE length.ok /\ GetLength(length.rest) >= cells
  <2>1. GetString(q).rest = moved /\ GetString(q).value = text
    BY <1>2 DEF GetString
  <2> DEFINE c == Content(length.rest)
  <2>2. c \in Seq(Nat) /\ Len(c) = GetLength(length.rest)
    BY <1>1, ContentIs DEF Cells
  <2> HIDE DEF length, c
  <2>3. cells \in Nat /\ GetLength(length.rest) \in Nat
    BY <1>1, <1>2, GoodParts
  <2> HIDE DEF cells
  <2>4. cells <= GetLength(length.rest)
    BY <1>2, <2>3
  <2>5. moved \in GoodBuffers
    BY <1>1, <2>3, <2>4, StartMoves
  <2>6. text \in Seq(Nat)
    <3>1. \A k \in 1 .. cells : c[k] \in Nat
      BY <2>2, <2>3, <2>4, ElementOfSeq
    <3>2. 1 \in Int /\ cells \in Int
      BY <2>3
    <3>3. SubSeq(c, 1, cells) \in Seq(Nat)
      BY <3>1, <3>2, SubSeqProperties
    <3> QED
      BY <3>3 DEF c
  <2> QED
    BY <2>1, <2>5, <2>6 DEF Cells
<1>3. CASE ~(length.ok /\ GetLength(length.rest) >= cells)
  <2>1. GetString(q).rest = length.rest /\ GetString(q).value = <<>>
    BY <1>3 DEF GetString
  <2> HIDE DEF length
  <2> QED
    BY <1>1, <2>1, EmptySeq DEF Cells
<1> QED
  BY <1>2, <1>3

\* recv() gives at least one cell and at most what there is space for.
LEMMA ReadExtends ==
    ASSUME NEW q \in GoodBuffers, NEW wanted \in Int, NEW n \in Receivable(q, wanted),
           NEW cells \in Cells, Len(cells) = n
    PROVE  Extends(ReadOnReadable(q, cells), q, cells) /\ n \in Nat /\ n <= wanted /\ n >= 1
<1> DEFINE wide == WithSpace(q)
<1>1. /\ q.dataEndPtr \in Nat /\ q.dataSize \in Nat
      /\ q.dataEndPtr <= q.dataSize /\ q.dataSize >= 4
  BY GoodParts, BufferAssumption
<1>2. Same(wide, q) /\ wide.dataSize \in Nat /\ wide.dataSize > q.dataEndPtr
  <2>1. CASE q.dataSize - q.dataEndPtr <= 0
    <3>1. 2 * q.dataSize \in Nat /\ q.dataSize <= 2 * q.dataSize /\ 2 * q.dataSize > q.dataEndPtr
      BY <1>1
    <3>2. wide = Enlarged(q, 2 * q.dataSize)
      BY <2>1 DEF WithSpace, DoubleSizeBuffer
    <3> HIDE DEF wide
    <3> QED
      BY <3>1, <3>2, EnlargedSame
  <2>2. CASE ~(q.dataSize - q.dataEndPtr <= 0)
    <3>1. wide = q
      BY <2>2 DEF WithSpace
    <3>2. Same(q, q)
      BY DEF Same
    <3> HIDE DEF wide
    <3> QED
      BY <1>1, <2>2, <3>1, <3>2
  <2> QED
    BY <2>1, <2>2
<1>3. n \in 1 .. IF wanted > wide.dataSize - q.dataEndPtr
                 THEN wide.dataSize - q.dataEndPtr ELSE wanted
  BY DEF Receivable
<1>4. ReadOnReadable(q, cells) = Store(wide, cells)
  BY DEF ReadOnReadable
<1> HIDE DEF wide
<1>5. n \in Nat /\ n <= wanted /\ n >= 1 /\ q.dataEndPtr + n <= wide.dataSize
  BY <1>1, <1>2, <1>3
<1>6. wide \in GoodBuffers /\ wide.dataEndPtr + Len(cells) <= wide.dataSize
  BY <1>2, <1>5 DEF Same
<1>7. Extends(Store(wide, cells), wide, cells)
  BY <1>6, StoreExtends
<1>8. Extends(Store(wide, cells), q, cells)
  BY <1>2, <1>7, ExtendsSame
<1> QED
  BY <1>4, <1>5, <1>8
-----------------------------------------------------------------------------
(* The requests *)

\* One name after another.
IsPuttingNames(after, q, names) ==
    /\ after \in [0 .. Len(names) -> GoodBuffers] /\ after[0] = q
    /\ \A k \in 1 .. Len(names) : after[k] = PutString(after[k - 1], names[k])
    /\ PutNames(q, names) = after[Len(names)]

LEMMA PutNamesIs ==
    ASSUME NEW q \in GoodBuffers, NEW names \in Seq(Cells)
    PROVE  \E after : IsPuttingNames(after, q, names)
<1> DEFINE n == Len(names)
           After[k \in 0 .. n] == IF k = 0 THEN q ELSE PutString(After[k - 1], names[k])
           step == [k \in 1 .. n |-> [b \in GoodBuffers |-> PutString(b, names[k])]]
<1>1. n \in Nat /\ \A k \in 1 .. n : names[k] \in Cells
  BY LenProperties, ElementOfSeq
<1>2. \A b \in GoodBuffers, text \in Cells : PutString(b, text) \in GoodBuffers
  <2>1. ASSUME NEW b \in GoodBuffers, NEW text \in Cells
        PROVE  PutString(b, text) \in GoodBuffers
    <3>1. Extends(PutString(b, text), b, Ordered(b, CellsOf(2 * Len(text), 2)) \o text)
      BY PutStringExtends
    <3> QED
      BY <3>1 DEF Extends
  <2> QED
    BY <2>1
<1> HIDE DEF n
<1>3. step \in [1 .. n -> [GoodBuffers -> GoodBuffers]]
  BY <1>1, <1>2
<1>4. \E f : IsLoop(f, n, GoodBuffers, q, step)
  <2> HIDE DEF step
  <2> QED
    BY <1>1, <1>3, LoopExists
<1>5. PICK f : /\ f \in [0 .. n -> GoodBuffers] /\ f[0] = q
               /\ \A k \in 1 .. n : f[k] = step[k][f[k - 1]]
  <2> HIDE DEF step
  <2> QED
    BY <1>4 DEF IsLoop
<1>6. ASSUME NEW k \in 0 .. n
      PROVE  f[k] = IF k = 0 THEN q ELSE PutString(f[k - 1], names[k])
  <2>1. CASE k = 0
    BY <1>5, <2>1
  <2>2. CASE k # 0
    <3>1. k \in 1 .. n /\ k - 1 \in 0 .. n
      BY <1>1, <2>2
    <3>2. f[k] = step[k][f[k - 1]] /\ f[k - 1] \in GoodBuffers
      BY <1>5, <3>1
    <3>3. step[k][f[k - 1]] = PutString(f[k - 1], names[k])
      BY <3>1, <3>2
    <3> HIDE DEF step
    <3> QED
      BY <2>2, <3>2, <3>3
  <2> QED
    BY <2>1, <2>2
<1>7. f = [k \in 0 .. n |-> f[k]]
  BY <1>5
<1>8. f = [k \in 0 .. n |-> IF k = 0 THEN q ELSE PutString(f[k - 1], names[k])]
  BY <1>6, <1>7
<1>9. \E g : g = [k \in 0 .. n |-> IF k = 0 THEN q ELSE PutString(g[k - 1], names[k])]
  BY <1>8
<1>10. After = [k \in 0 .. n |-> IF k = 0 THEN q ELSE PutString(After[k - 1], names[k])]
  BY <1>9 DEF After
<1>11. PutNames(q, names) = After[n]
  BY DEF PutNames, n
<1> HIDE DEF After, step
<1>12. After[0] \in GoodBuffers
  BY <1>1, <1>10
<1>13. ASSUME NEW k \in 1 .. n, After[k - 1] \in GoodBuffers
       PROVE  After[k] \in GoodBuffers
  <2>1. After[k] = PutString(After[k - 1], names[k])
    BY <1>1, <1>10
  <2> QED
    BY <1>1, <1>2, <1>13, <2>1
<1>14. \A k \in 0 .. n : After[k] \in GoodBuffers
  BY <1>1, <1>12, <1>13, LoopPreserves
<1>15. /\ After \in [0 .. n -> GoodBuffers] /\ After[0] = q
       /\ \A k \in 1 .. n : After[k] = PutString(After[k - 1], names[k])
  <2>1. After[0] = q /\ \A k \in 1 .. n : After[k] = PutString(After[k - 1], names[k])
    BY <1>1, <1>10
  <2> QED
    BY <1>10, <1>14, <2>1
<1> QED
  BY <1>11, <1>15 DEF IsPuttingNames, n

LEMMA PutNamesGood ==
    ASSUME NEW q \in GoodBuffers, NEW names \in Seq(Cells)
    PROVE  PutNames(q, names) \in GoodBuffers
<1>1. PICK after : IsPuttingNames(after, q, names)
  BY PutNamesIs
<1>2. Len(names) \in Nat
  BY LenProperties
<1> QED
  BY <1>1, <1>2 DEF IsPuttingNames

\* One value after another.
IsPuttingValues(after, q, vector) ==
    /\ after \in [0 .. Len(vector) -> GoodBuffers] /\ after[0] = q
    /\ \A k \in 1 .. Len(vector) : after[k] = PutValue(after[k - 1], vector[k])
    /\ PutValues(q, vector) = after[Len(vector)]

LEMMA PutValuesIs ==
    ASSUME NEW q \in GoodBuffers, NEW vector \in Seq(Values)
    PROVE  \E after : IsPuttingValues(after, q, vector)
<1> DEFINE n == Len(vector)
           After[k \in 0 .. n] == IF k = 0 THEN q ELSE PutValue(After[k - 1], vector[k])
           step == [k \in 1 .. n |-> [b \in GoodBuffers |-> PutValue(b, vector[k])]]
<1>1. n \in Nat /\ \A k \in 1 .. n : vector[k] \in Values
  BY LenProperties, ElementOfSeq
<1>2. \A b \in GoodBuffers, v \in Values : PutValue(b, v) \in GoodBuffers
  BY PutNumberGood, CommandsAssumption DEF PutValue
<1> HIDE DEF n
<1>3. step \in [1 .. n -> [GoodBuffers -> GoodBuffers]]
  BY <1>1, <1>2
<1>4. \E f : IsLoop(f, n, GoodBuffers, q, step)
  <2> HIDE DEF step
  <2> QED
    BY <1>1, <1>3, LoopExists
<1>5. PICK f : /\ f \in [0 .. n -> GoodBuffers] /\ f[0] = q
               /\ \A k \in 1 .. n : f[k] = step[k][f[k - 1]]
  <2> HIDE DEF step
  <2> QED
    BY <1>4 DEF IsLoop
<1>6. ASSUME NEW k \in 0 .. n
      PROVE  f[k] = IF k = 0 THEN q ELSE PutValue(f[k - 1], vector[k])
  <2>1. CASE k = 0
    BY <1>5, <2>1
  <2>2. CASE k # 0
    <3>1. k \in 1 .. n /\ k - 1 \in 0 .. n
      BY <1>1, <2>2
    <3>2. f[k] = step[k][f[k - 1]] /\ f[k - 1] \in GoodBuffers
      BY <1>5, <3>1
    <3>3. step[k][f[k - 1]] = PutValue(f[k - 1], vector[k])
      BY <3>1, <3>2
    <3> HIDE DEF step
    <3> QED
      BY <2>2, <3>2, <3>3
  <2> QED
    BY <2>1, <2>2
<1>7. f = [k \in 0 .. n |-> f[k]]
  BY <1>5
<1>8. f = [k \in 0 .. n |-> IF k = 0 THEN q ELSE PutValue(f[k - 1], vector[k])]
  BY <1>6, <1>7
<1>9. \E g : g = [k \in 0 .. n |-> IF k = 0 THEN q ELSE PutValue(g[k - 1], vector[k])]
  BY <1>8
<1>10. After = [k \in 0 .. n |-> IF k = 0 THEN q ELSE PutValue(After[k - 1], vector[k])]
  BY <1>9 DEF After
<1>11. PutValues(q, vector) = After[n]
  BY DEF PutValues, n
<1> HIDE DEF After, step
<1>12. After[0] \in GoodBuffers
  BY <1>1, <1>10
<1>13. ASSUME NEW k \in 1 .. n, After[k - 1] \in GoodBuffers
       PROVE  After[k] \in GoodBuffers
  <2>1. After[k] = PutValue(After[k - 1], vector[k])
    BY <1>1, <1>10
  <2> QED
    BY <1>1, <1>2, <1>13, <2>1
<1>14. \A k \in 0 .. n : After[k] \in GoodBuffers
  BY <1>1, <1>12, <1>13, LoopPreserves
<1>15. /\ After \in [0 .. n -> GoodBuffers] /\ After[0] = q
       /\ \A k \in 1 .. n : After[k] = PutValue(After[k - 1], vector[k])
  <2>1. After[0] = q /\ \A k \in 1 .. n : After[k] = PutValue(After[k - 1], vector[k])
    BY <1>1, <1>10
  <2> QED
    BY <1>10, <1>14, <2>1
<1> QED
  BY <1>11, <1>15 DEF IsPuttingValues, n

LEMMA PutValuesGood ==
    ASSUME NEW q \in GoodBuffers, NEW vector \in Seq(Values)
    PROVE  PutValues(q, vector) \in GoodBuffers
<1>1. PICK after : IsPuttingValues(after, q, vector)
  BY PutValuesIs
<1>2. Len(vector) \in Nat
  BY LenProperties
<1> QED
  BY <1>1, <1>2 DEF IsPuttingValues

\* The numbers of the documents, and what is kept for them.
ValuesTyped ==
    /\ DOMAIN values \subseteq Documents
    /\ \A d \in DOMAIN values : values[d] \in Seq(Values)

LEMMA AscendingTyped ==
    ASSUME NEW set \in SUBSET Documents
    PROVE  Ascending(set) \in Seq(set) /\ Cardinality(set) \in Nat
<1> DEFINE n == Cardinality(set)
           below(d) == {e \in set : e < d}
           chosen(k) == CHOOSE d \in set : Cardinality(below(d)) = k - 1
<1>1. set \in SUBSET Int /\ IsFiniteSet(set)
  <2>1. IsFiniteSet(Documents) /\ Documents \subseteq Nat
    BY CommandsAssumption
  <2>2. IsFiniteSet(set)
    BY <2>1, FS_Subset
  <2> QED
    BY <2>1, <2>2
<1>2. n \in Nat
  BY <1>1, FS_CardinalityType
<1>3. \A c \in 0 .. n - 1 : \E d \in set : Cardinality(below(d)) = c
  BY <1>1, CountedBelow
<1>4. Ascending(set) = [k \in 1 .. n |-> chosen(k)]
  BY DEF Ascending
<1> HIDE DEF below, n
<1>5. \A k \in 1 .. n : chosen(k) \in set
  <2>1. ASSUME NEW k \in 1 .. n
        PROVE  chosen(k) \in set
    <3>1. k - 1 \in 0 .. n - 1
      BY <1>2
    <3>2. \E d \in set : Cardinality(below(d)) = k - 1
      BY <1>3, <3>1
    <3> QED
      BY <3>2
  <2> QED
    BY <2>1
<1> HIDE DEF chosen
<1>6. Ascending(set) \in Seq(set)
  BY <1>2, <1>4, <1>5
<1> QED
  BY <1>2, <1>6 DEF n

\* One document after another.
IsPuttingDocuments(after, q, keys) ==
    /\ after \in [0 .. Len(keys) -> GoodBuffers] /\ after[0] = q
    /\ \A k \in 1 .. Len(keys) : after[k] = PutValues(PutDocument(after[k - 1], keys[k]), values[keys[k]])
    /\ PutDocuments(q, keys) = after[Len(keys)]

LEMMA PutDocumentsIs ==
    ASSUME ValuesTyped, NEW q \in GoodBuffers, NEW keys \in Seq(DOMAIN values)
    PROVE  \E after : IsPuttingDocuments(after, q, keys)
<1> DEFINE n == Len(keys)
           After[k \in 0 .. n] ==
              IF k = 0 THEN q
              ELSE PutValues(PutDocument(After[k - 1], keys[k]), values[keys[k]])
           step == [k \in 1 .. n |-> [b \in GoodBuffers |->
                      PutValues(PutDocument(b, keys[k]), values[keys[k]])]]
<1>1. n \in Nat /\ \A k \in 1 .. n : keys[k] \in DOMAIN values
  BY LenProperties, ElementOfSeq
<1>2. \A b \in GoodBuffers, d \in DOMAIN values :
        PutValues(PutDocument(b, d), values[d]) \in GoodBuffers
  <2>1. ASSUME NEW b \in GoodBuffers, NEW d \in DOMAIN values
        PROVE  PutValues(PutDocument(b, d), values[d]) \in GoodBuffers
    <3>1. d \in Nat /\ values[d] \in Seq(Values)
      BY CommandsAssumption DEF ValuesTyped
    <3>2. PutDocument(b, d) \in GoodBuffers
      BY <3>1, PutNumberGood DEF PutDocument
    <3> QED
      BY <3>1, <3>2, PutValuesGood
  <2> QED
    BY <2>1
<1> HIDE DEF n
<1>3. step \in [1 .. n -> [GoodBuffers -> GoodBuffers]]
  BY <1>1, <1>2
<1>4. \E f : IsLoop(f, n, GoodBuffers, q, step)
  <2> HIDE DEF step
  <2> QED
    BY <1>1, <1>3, LoopExists
<1>5. PICK f : /\ f \in [0 .. n -> GoodBuffers] /\ f[0] = q
               /\ \A k \in 1 .. n : f[k] = step[k][f[k - 1]]
  <2> HIDE DEF step
  <2> QED
    BY <1>4 DEF IsLoop
<1>6. ASSUME NEW k \in 0 .. n
      PROVE  f[k] = IF k = 0 THEN q
                    ELSE PutValues(PutDocument(f[k - 1], keys[k]), values[keys[k]])
  <2>1. CASE k = 0
    BY <1>5, <2>1
  <2>2. CASE k # 0
    <3>1. k \in 1 .. n /\ k - 1 \in 0 .. n
      BY <1>1, <2>2
    <3>2. f[k] = step[k][f[k - 1]] /\ f[k - 1] \in GoodBuffers
      BY <1>5, <3>1
    <3>3. step[k][f[k - 1]] = PutValues(PutDocument(f[k - 1], keys[k]), values[keys[k]])
      BY <3>1, <3>2
    <3> HIDE DEF step
    <3> QED
      BY <2>2, <3>2, <3>3
  <2> QED
    BY <2>1, <2>2
<1>7. f = [k \in 0 .. n |-> f[k]]
  BY <1>5
<1>8. f = [k \in 0 .. n |-> IF k = 0 THEN q
              ELSE PutValues(PutDocument(f[k - 1], keys[k]), values[keys[k]])]
  BY <1>6, <1>7
<1>9. \E g : g = [k \in 0 .. n |-> IF k = 0 THEN q
                    ELSE PutValues(PutDocument(g[k - 1], keys[k]), values[keys[k]])]
  BY <1>8
<1>10. After = [k \in 0 .. n |-> IF k = 0 THEN q
                  ELSE PutValues(PutDocument(After[k - 1], keys[k]), values[keys[k]])]
  BY <1>9 DEF After
<1>11. PutDocuments(q, keys) = After[n]
  BY DEF PutDocuments, n
<1> HIDE DEF After, step
<1>12. After[0] \in GoodBuffers
  BY <1>1, <1>10
<1>13. ASSUME NEW k \in 1 .. n, After[k - 1] \in GoodBuffers
       PROVE  After[k] \in GoodBuffers
  <2>1. After[k] = PutValues(PutDocument(After[k - 1], keys[k]), values[keys[k]])
    BY <1>1, <1>10
  <2> QED
    BY <1>1, <1>2, <1>13, <2>1
<1>14. \A k \in 0 .. n : After[k] \in GoodBuffers
  BY <1>1, <1>12, <1>13, LoopPreserves
<1>15. /\ After \in [0 .. n -> GoodBuffers] /\ After[0] = q
       /\ \A k \in 1 .. n : After[k] = PutValues(PutDocument(After[k - 1], keys[k]), values[keys[k]])
  <2>1. After[0] = q /\ \A k \in 1 .. n : After[k] = PutValues(PutDocument(After[k - 1], keys[k]), values[keys[k]])
    BY <1>1, <1>10
  <2> QED
    BY <1>10, <1>14, <2>1
<1> QED
  BY <1>11, <1>15 DEF IsPuttingDocuments, n

LEMMA PutDocumentsGood ==
    ASSUME ValuesTyped, NEW q \in GoodBuffers, NEW keys \in Seq(DOMAIN values)
    PROVE  PutDocuments(q, keys) \in GoodBuffers
<1>1. PICK after : IsPuttingDocuments(after, q, keys)
  BY PutDocumentsIs
<1>2. Len(keys) \in Nat
  BY LenProperties
<1> QED
  BY <1>1, <1>2 DEF IsPuttingDocuments

LEMMA UpdateRequestGood ==
    ASSUME ValuesTyped, attributes \in Seq(Names)
    PROVE  BuildUpdateRequest \in GoodBuffers
<1> DEFINE head  == PutWord(PutString(NetworkQuery, Index), Len(attributes))
           names == PutNames(head, attributes)
           count == PutWord(names, Cardinality(DOMAIN values))
<1>1. Index \in Cells /\ Names \subseteq Cells
  BY CommandsAssumption DEF Cells
<1>2. attributes \in Seq(Cells) /\ Len(attributes) \in Nat
  BY <1>1, SeqMonotonic, LenProperties
<1>3. head \in GoodBuffers
  <2>1. PutString(NetworkQuery, Index) \in GoodBuffers
    BY <1>1, NewBuffer, PutStringGood
  <2> QED
    BY <1>2, <2>1, PutNumberGood
<1>4. BuildUpdateRequest = PutDocuments(count, Ascending(DOMAIN values))
  BY DEF BuildUpdateRequest
<1>5. Ascending(DOMAIN values) \in Seq(DOMAIN values) /\ Cardinality(DOMAIN values) \in Nat
  BY AscendingTyped DEF ValuesTyped
<1> HIDE DEF head
<1>6. names \in GoodBuffers
  BY <1>2, <1>3, PutNamesGood
<1> HIDE DEF names
<1>7. count \in GoodBuffers
  BY <1>5, <1>6, PutNumberGood
<1> HIDE DEF count
<1> QED
  BY <1>4, <1>5, <1>7, PutDocumentsGood

LEMMA KeywordsRequestGood ==
    ASSUME NEW query \in Texts, NEW fetchStats \in BOOLEAN
    PROVE  BuildKeywordsRequest(Index, query, fetchStats) \in GoodBuffers
<1>1. Index \in Cells /\ query \in Cells
  BY CommandsAssumption DEF Cells
<1>2. PutString(NetworkQuery, query) \in GoodBuffers
  BY <1>1, NewBuffer, PutStringGood
<1>3. PutString(PutString(NetworkQuery, query), Index) \in GoodBuffers
  BY <1>1, <1>2, PutStringGood
<1>4. (IF fetchStats THEN 1 ELSE 0) \in Nat
  OBVIOUS
<1> QED
  BY <1>3, <1>4, PutNumberGood DEF BuildKeywordsRequest

\* A request is a header and a body.
LEMMA RequestGood ==
    ASSUME NEW number \in {SEARCHD_COMMAND_UPDATE, SEARCHD_COMMAND_KEYWORDS},
           NEW version \in Nat, NEW body \in GoodBuffers
    PROVE  PutQuery(BuildHeader(number, version, BytesOf(body), 1), body) \in GoodBuffers
<1> DEFINE start  == PutShort(PutShort(NetworkQuery, number), version)
           header == BuildHeader(number, version, BytesOf(body), 1)
<1>1. number \in Nat /\ number # SEARCHD_COMMAND_SEARCH /\ BytesOf(body) \in Nat
  <2>1. GetLength(body) \in Nat
    BY GoodParts
  <2> QED
    BY <2>1 DEF SEARCHD_COMMAND_SEARCH, SEARCHD_COMMAND_UPDATE, SEARCHD_COMMAND_KEYWORDS, BytesOf
<1>2. start \in GoodBuffers
  <2>1. PutShort(NetworkQuery, number) \in GoodBuffers
    BY <1>1, NewBuffer, PutNumberGood
  <2> QED
    BY <2>1, PutNumberGood
<1>3. header = PutWord(start, BytesOf(body))
  BY <1>1 DEF BuildHeader
<1> HIDE DEF start, header
<1>4. header \in GoodBuffers
  BY <1>1, <1>2, <1>3, PutNumberGood
<1>5. Extends(PutQuery(header, body), header, Content(body))
  BY <1>4, PutQueryExtends
<1> QED
  BY <1>5 DEF Extends, header
-----------------------------------------------------------------------------
(* The responses *)

LEMMA EncodeWordsTyped ==
    ASSUME NEW words \in BoundedSeq(Words, MaxWords), NEW fetchStats \in BOOLEAN
    PROVE  EncodeWords(words, fetchStats) \in Cells
<1>1. words \in Seq(Words)
  <2>1. PICK m \in 0 .. MaxWords : words \in [1 .. m -> Words]
    BY DEF BoundedSeq, SeqOf
  <2>2. m \in Nat
    BY CommandsAssumption
  <2> QED
    BY <2>1, <2>2
<1>2. Len(words) \in Nat /\ \A k \in 1 .. Len(words) : words[k] \in Words
  BY <1>1, LenProperties, ElementOfSeq
<1>3. ASSUME NEW w \in Words
      PROVE  EncodeWord(w, fetchStats) \in Seq(Nat)
  <2>1. w.tokenized \in Cells /\ w.normalized \in Cells /\ w.docsHit \in Nat /\ w.totalHits \in Nat
    BY CommandsAssumption DEF Cells
  <2> DEFINE front == EncodeText(w.tokenized)
             back  == EncodeText(w.normalized)
             hits  == CellsOf(w.docsHit, 2)
             total == CellsOf(w.totalHits, 2)
             stats == IF fetchStats THEN hits \o total ELSE <<>>
  <2>2. front \in Seq(Nat) /\ back \in Seq(Nat)
    BY <2>1, EncodeTextTyped DEF Cells
  <2>3. 2 \in Nat
    OBVIOUS
  <2>4. hits \in Seq(Nat) /\ total \in Seq(Nat)
    BY <2>1, <2>3, CellsOfTyped DEF Cells
  <2>5. EncodeWord(w, fetchStats) = (front \o back) \o stats
    BY DEF EncodeWord
  <2> HIDE DEF front, back, hits, total
  <2>6. stats \in Seq(Nat)
    BY <2>4, ConcatProperties, EmptySeq
  <2> HIDE DEF stats
  <2>7. front \o back \in Seq(Nat)
    BY <2>2, ConcatProperties
  <2>8. (front \o back) \o stats \in Seq(Nat)
    <3> DEFINE both == front \o back
    <3>1. both \in Seq(Nat)
      BY <2>7
    <3> HIDE DEF both
    <3>2. both \o stats \in Seq(Nat)
      BY <2>6, <3>1, ConcatProperties
    <3> QED
      BY <3>2 DEF both
  <2> QED
    BY <2>5, <2>8
<1> DEFINE ss == [k \in DOMAIN words |-> EncodeWord(words[k], fetchStats)]
<1>4. ss \in Seq(Seq(Nat))
  <2>1. DOMAIN words = 1 .. Len(words)
    BY <1>1
  <2>2. ss \in [1 .. Len(words) -> Seq(Nat)]
    BY <1>2, <1>3, <2>1
  <2> HIDE DEF ss
  <2> QED
    BY <1>2, <2>2
<1>5. EncodeWords(words, fetchStats) = CellsOf(Len(words), 2) \o FlattenSeq(ss)
  BY DEF EncodeWords
<1> HIDE DEF ss
<1>6. FlattenSeq(ss) \in Seq(Nat)
  BY <1>4, JoinedIsSeq
<1>7. CellsOf(Len(words), 2) \in Seq(Nat)
  <2>1. 2 \in Nat
    OBVIOUS
  <2> QED
    BY <1>2, <2>1, CellsOfTyped DEF Cells
<1> QED
  BY <1>5, <1>6, <1>7, ConcatProperties DEF Cells

\* Every reply has at least the 4 cells of its header.
LEMMA ReplyTyped ==
    ASSUME NEW code \in Nat, NEW body \in Cells
    PROVE  Reply(code, body) \in Cells /\ Len(Reply(code, body)) >= 4
<1> DEFINE first  == CellsOf(code, 1)
           second == CellsOf(1, 1)
           third  == CellsOf(2 * Len(body), 2)
<1>1. body \in Seq(Nat) /\ Len(body) \in Nat /\ 2 * Len(body) \in Nat
  BY LenProperties DEF Cells
<1>2. 1 \in Nat /\ 2 \in Nat
  OBVIOUS
<1>3. /\ first \in Seq(Nat) /\ Len(first) = 1
      /\ second \in Seq(Nat) /\ Len(second) = 1
      /\ third \in Seq(Nat) /\ Len(third) = 2
  BY <1>1, <1>2, CellsOfTyped DEF Cells
<1>4. Reply(code, body) = ((first \o second) \o third) \o body
  BY DEF Reply
<1> HIDE DEF first, second, third
<1> DEFINE two == first \o second
           four == two \o third
<1>5. two \in Seq(Nat) /\ Len(two) = 2
  <2>1. two \in Seq(Nat) /\ Len(two) = Len(first) + Len(second)
    BY <1>3, ConcatProperties
  <2> HIDE DEF two
  <2> QED
    BY <1>3, <2>1
<1> HIDE DEF two
<1>6. four \in Seq(Nat) /\ Len(four) = 4
  <2>1. four \in Seq(Nat) /\ Len(four) = Len(two) + Len(third)
    BY <1>3, <1>5, ConcatProperties
  <2> HIDE DEF four
  <2> QED
    BY <1>3, <1>5, <2>1
<1> HIDE DEF four
<1>7. four \o body \in Seq(Nat) /\ Len(four \o body) = 4 + Len(body)
  <2>1. four \o body \in Seq(Nat) /\ Len(four \o body) = Len(four) + Len(body)
    BY <1>1, <1>6, ConcatProperties
  <2> QED
    BY <1>1, <1>6, <2>1
<1> QED
  BY <1>1, <1>4, <1>7 DEF two, four, Cells

\* What is read of the words, and what is left behind them.
Entries == Seq([tokenized : Cells, normalized : Cells, docsHit : Int, totalHits : Int])
Readings == [rest : GoodBuffers, entries : Entries]

LEMMA GetEntryTyped ==
    ASSUME NEW before \in Readings, NEW fetchStats
    PROVE  /\ GetEntry(before, fetchStats) \in Readings
           /\ Len(GetEntry(before, fetchStats).entries) = Len(before.entries) + 1
<1> DEFINE tokenized  == GetString(before.rest)
           normalized == GetString(tokenized.rest)
           docsHit    == GetStatistic(normalized.rest, fetchStats)
           totalHits  == GetStatistic(docsHit.rest, fetchStats)
           entry == [tokenized |-> tokenized.value, normalized |-> normalized.value,
                     docsHit |-> docsHit.value, totalHits |-> totalHits.value]
<1>1. ASSUME NEW q \in GoodBuffers
      PROVE  /\ GetStatistic(q, fetchStats).rest \in GoodBuffers
             /\ GetStatistic(q, fetchStats).value \in Int
  <2>1. GetWord(q).rest \in GoodBuffers /\ GetWord(q).value \in Int
    <3>1. 2 \in 1 .. 4
      OBVIOUS
    <3>2. Get(q, 2).rest \in GoodBuffers /\ (Get(q, 2).ok => Get(q, 2).value \in Nat)
      BY <3>1, GetGood
    <3>3. ~Get(q, 2).ok => Get(q, 2).value = Garbage
      BY DEF Get
    <3>4. Get(q, 2).ok \in BOOLEAN
      BY <3>1, GetGood
    <3> QED
      BY <3>2, <3>3, <3>4 DEF GetWord, Garbage
  <2> QED
    BY <2>1 DEF GetStatistic
<1>2. before.rest \in GoodBuffers /\ before.entries \in Entries
  BY DEF Readings
<1>3. tokenized.rest \in GoodBuffers /\ tokenized.value \in Cells
  BY <1>2, GetStringGood
<1>4. GetEntry(before, fetchStats) = [rest |-> totalHits.rest, entries |-> Append(before.entries, entry)]
  BY DEF GetEntry
<1> HIDE DEF tokenized
<1>5. normalized.rest \in GoodBuffers /\ normalized.value \in Cells
  BY <1>3, GetStringGood
<1> HIDE DEF normalized
<1>6. docsHit.rest \in GoodBuffers /\ docsHit.value \in Int
  BY <1>1, <1>5
<1> HIDE DEF docsHit
<1>7. totalHits.rest \in GoodBuffers /\ totalHits.value \in Int
  BY <1>1, <1>6
<1> HIDE DEF totalHits
<1>8. entry \in [tokenized : Cells, normalized : Cells, docsHit : Int, totalHits : Int]
  BY <1>3, <1>5, <1>6, <1>7
<1> HIDE DEF entry
<1>9. /\ Append(before.entries, entry) \in Entries
      /\ Len(Append(before.entries, entry)) = Len(before.entries) + 1
  BY <1>2, <1>8, AppendProperties DEF Entries
<1> QED
  BY <1>4, <1>7, <1>9 DEF Readings

\* One entry after another.
IsReadingEntries(read, n, fetchStats) ==
    /\ n \in Nat /\ read \in [0 .. n -> Readings]
    /\ \A k \in 1 .. n : read[k] = GetEntry(read[k - 1], fetchStats)

LEMMA ParsingReads ==
    ASSUME data \in GoodBuffers, ParseKeywords, GetWord(data).ok
    PROVE  \E read :
             /\ IsReadingEntries(read, GetWord(data).value, call[3])
             /\ read[0] = [rest |-> GetWord(data).rest, entries |-> <<>>]
             /\ result' = read[GetWord(data).value].entries
             /\ data' = read[GetWord(data).value].rest
<1> DEFINE nWords == GetWord(data)
           n == nWords.value
           first == [rest |-> nWords.rest, entries |-> <<>>]
           Read[k \in 0 .. n] == IF k = 0 THEN first ELSE GetEntry(Read[k - 1], call[3])
           step == [k \in 1 .. n |-> [b \in Readings |-> GetEntry(b, call[3])]]
<1>1. nWords.rest \in GoodBuffers /\ n \in Nat
  <2>1. 2 \in 1 .. 4
    OBVIOUS
  <2> QED
    BY <2>1, GetGood DEF GetWord
<1>2. result' = Read[n].entries /\ data' = Read[n].rest
  BY DEF ParseKeywords
<1>3. first \in Readings
  <2>1. <<>> \in Entries
    BY EmptySeq DEF Entries
  <2> QED
    BY <1>1, <2>1 DEF Readings
<1> HIDE DEF nWords, n, first
<1>4. \A b \in Readings : GetEntry(b, call[3]) \in Readings
  BY GetEntryTyped
<1>5. step \in [1 .. n -> [Readings -> Readings]]
  BY <1>4
<1>6. \E f : IsLoop(f, n, Readings, first, step)
  <2> HIDE DEF step
  <2> QED
    BY <1>1, <1>3, <1>5, LoopExists
<1>7. PICK f : /\ f \in [0 .. n -> Readings] /\ f[0] = first
               /\ \A k \in 1 .. n : f[k] = step[k][f[k - 1]]
  <2> HIDE DEF step
  <2> QED
    BY <1>6 DEF IsLoop
<1>8. ASSUME NEW k \in 0 .. n
      PROVE  f[k] = IF k = 0 THEN first ELSE GetEntry(f[k - 1], call[3])
  <2>1. CASE k = 0
    BY <1>7, <2>1
  <2>2. CASE k # 0
    <3>1. k \in 1 .. n /\ k - 1 \in 0 .. n
      BY <1>1, <2>2
    <3>2. f[k] = step[k][f[k - 1]] /\ f[k - 1] \in Readings
      BY <1>7, <3>1
    <3>3. step[k][f[k - 1]] = GetEntry(f[k - 1], call[3])
      BY <3>1, <3>2
    <3> HIDE DEF step
    <3> QED
      BY <2>2, <3>2, <3>3
  <2> QED
    BY <2>1, <2>2
<1>9. f = [k \in 0 .. n |-> f[k]]
  BY <1>7
<1>10. f = [k \in 0 .. n |-> IF k = 0 THEN first ELSE GetEntry(f[k - 1], call[3])]
  BY <1>8, <1>9
<1>11. \E g : g = [k \in 0 .. n |-> IF k = 0 THEN first ELSE GetEntry(g[k - 1], call[3])]
  BY <1>10
<1>12. Read = [k \in 0 .. n |-> IF k = 0 THEN first ELSE GetEntry(Read[k - 1], call[3])]
  BY <1>11 DEF Read
<1> HIDE DEF Read, step
<1>13. Read[0] = first /\ \A k \in 1 .. n : Read[k] = GetEntry(Read[k - 1], call[3])
  <2>1. 0 \in 0 .. n /\ \A k \in 1 .. n : k \in 0 .. n /\ k # 0
    BY <1>1
  <2>2. \A k \in 0 .. n : Read[k] = IF k = 0 THEN first ELSE GetEntry(Read[k - 1], call[3])
    BY <1>12
  <2> QED
    BY <2>1, <2>2
<1>14. \A k \in 0 .. n : Read[k] \in Readings
  <2>1. ASSUME NEW k \in 1 .. n, Read[k - 1] \in Readings
        PROVE  Read[k] \in Readings
    BY <1>4, <1>13, <2>1
  <2> QED
    BY <1>1, <1>3, <1>13, <2>1, LoopPreserves
<1>15. Read \in [0 .. n -> Readings]
  BY <1>12, <1>14
<1>16. IsReadingEntries(Read, n, call[3])
  BY <1>1, <1>13, <1>15 DEF IsReadingEntries
<1> QED
  BY <1>2, <1>13, <1>16 DEF n, nWords, first

LEMMA ParsingKeepsBuffers ==
    ASSUME data \in GoodBuffers, ParseKeywords
    PROVE  data' \in GoodBuffers
<1>1. CASE GetWord(data).ok
  <2> DEFINE n == GetWord(data).value
  <2>1. PICK read : IsReadingEntries(read, n, call[3]) /\ data' = read[n].rest
    BY <1>1, ParsingReads
  <2> HIDE DEF n
  <2>2. read[n] \in Readings
    BY <2>1 DEF IsReadingEntries
  <2> QED
    BY <2>1, <2>2 DEF Readings
<1>2. CASE ~GetWord(data).ok
  BY <1>2 DEF ParseKeywords
<1> QED
  BY <1>1, <1>2

-----------------------------------------------------------------------------
(* The invariant of the buffers *)

BuffersKept ==
    /\ attributes \in Seq(Names) /\ ValuesTyped
    /\ request \in GoodBuffers /\ data \in GoodBuffers
    /\ incoming \in Cells
    /\ pc = "launch" => data = NetworkQuery
    /\ pc = "header" => Len(incoming) + data.dataEndPtr >= HeaderLength

LEMMA InBounded ==
    ASSUME NEW S, NEW n \in Nat, NEW list \in BoundedSeq(S, n)
    PROVE  list \in Seq(S) /\ Len(list) \in Nat /\ Len(list) <= n
<1>1. PICK m \in 0 .. n : list \in [1 .. m -> S]
  BY DEF BoundedSeq, SeqOf
<1>2. m \in Nat /\ m <= n
  OBVIOUS
<1>3. list \in Seq(S) /\ Len(list) = m
  BY <1>1, <1>2
<1> QED
  BY <1>2, <1>3

\* The caller edits the updates; the buffers are those of no call.
LEMMA EditKeeps ==
    ASSUME BuffersKept, FreshCall, pc' = "idle", attributes' \in Seq(Names),
           DOMAIN values' \subseteq Documents,
           \A d \in DOMAIN values' : values'[d] \in Seq(Values)
    PROVE  BuffersKept'
<1>1. <<>> \in Cells
  BY EmptySeq DEF Cells
<1> QED
  BY <1>1, NewBuffer DEF BuffersKept, FreshCall, FreshResponse, ValuesTyped

LEMMA WithDocumentTyped ==
    ASSUME ValuesTyped, NEW d \in Documents, NEW vector \in Seq(Values)
    PROVE  /\ DOMAIN WithDocument(d, vector) \subseteq Documents
           /\ \A e \in DOMAIN WithDocument(d, vector) : WithDocument(d, vector)[e] \in Seq(Values)
BY DEF WithDocument, ValuesTyped

LEMMA BuffersKeptInit ==
    Init => BuffersKept
<1>1. <<>> \in Cells /\ <<>> \in Seq(Names)
  BY EmptySeq DEF Cells
<1>2. DOMAIN <<>> = {}
  OBVIOUS
<1> QED
  BY <1>1, <1>2, NewBuffer DEF Init, BuffersKept, ValuesTyped

LEMMA EditsKeepBuffers ==
    ASSUME BuffersKept,
           \/ SetAttributeList
           \/ \E name \in Names : AddAttribute(name)
           \/ \E d \in Documents :
                AddDocument(d) \/ \E type \in {"uint32", "float", "uint64"} : AddDocumentTyped(d, type)
    PROVE  BuffersKept'
<1>1. DOMAIN <<>> = {} /\ <<>> \in Seq(Values)
  BY EmptySeq
<1>2. attributes \in Seq(Names) /\ ValuesTyped
  BY DEF BuffersKept
<1>3. MaxAttributes \in Nat
  BY CommandsAssumption
<1>4. CASE SetAttributeList
  <2>1. PICK list \in BoundedSeq(Names, MaxAttributes) : attributes' = list
    BY <1>4 DEF SetAttributeList
  <2>2. attributes' \in Seq(Names)
    BY <1>3, <2>1, InBounded
  <2>3. values' = <<>> /\ FreshCall /\ pc' = "idle"
    BY <1>4 DEF SetAttributeList, Edit
  <2>4. DOMAIN values' \subseteq Documents /\ \A d \in DOMAIN values' : values'[d] \in Seq(Values)
    BY <1>1, <2>3
  <2> QED
    BY <2>2, <2>3, <2>4, EditKeeps
<1>5. ASSUME NEW name \in Names, AddAttribute(name)
      PROVE  BuffersKept'
  <2>1. attributes' \in Seq(Names)
    BY <1>2, <1>5, AppendProperties DEF AddAttribute
  <2>2. values' = <<>> /\ FreshCall /\ pc' = "idle"
    BY <1>5 DEF AddAttribute, Edit
  <2>3. DOMAIN values' \subseteq Documents /\ \A d \in DOMAIN values' : values'[d] \in Seq(Values)
    BY <1>1, <2>2
  <2> QED
    BY <2>1, <2>2, <2>3, EditKeeps
<1>6. ASSUME NEW d \in Documents, NEW vector \in Seq(Values), FreshCall, pc' = "idle",
             attributes' = attributes,
             values' = values \/ values' = WithDocument(d, vector)
      PROVE  BuffersKept'
  <2>1. DOMAIN values' \subseteq Documents /\ \A e \in DOMAIN values' : values'[e] \in Seq(Values)
    BY <1>2, <1>6, WithDocumentTyped DEF ValuesTyped
  <2> QED
    BY <1>2, <1>6, <2>1, EditKeeps
<1>7. ASSUME NEW d \in Documents, AddDocument(d)
      PROVE  BuffersKept'
  <2>1. PICK vector \in BoundedSeq(Values, MaxAttributes) :
          /\ pc' = "idle" /\ FreshCall /\ attributes' = attributes
          /\ values' = values \/ values' = WithDocument(d, vector)
    BY <1>7 DEF AddDocument
  <2>2. vector \in Seq(Values)
    BY <1>3, InBounded
  <2> QED
    BY <1>6, <2>1, <2>2
<1>8. ASSUME NEW d \in Documents, NEW type, AddDocumentTyped(d, type)
      PROVE  BuffersKept'
  <2>1. pc' = "idle" /\ FreshCall /\ attributes' = attributes
    BY <1>8 DEF AddDocumentTyped, Edit
  <2>2. \E vector \in Seq(Values) : values' = WithDocument(d, vector)
    <3>1. CASE type \in {"uint32", "float"}
      <4>1. PICK vector \in [DOMAIN attributes -> {v \in Values : v.type = type}] :
              values' = WithDocument(d, vector)
        BY <1>8, <3>1 DEF AddDocumentTyped
      <4>2. DOMAIN attributes = 1 .. Len(attributes) /\ Len(attributes) \in Nat
        BY <1>2, LenProperties
      <4>3. vector \in [1 .. Len(attributes) -> Values]
        BY <4>2
      <4>4. vector \in Seq(Values)
        BY <4>2, <4>3
      <4> QED
        BY <4>1, <4>4
    <3>2. CASE ~(type \in {"uint32", "float"})
      BY <1>1, <1>8, <3>2 DEF AddDocumentTyped
    <3> QED
      BY <3>1, <3>2
  <2> QED
    BY <1>6, <2>1, <2>2
<1> QED
  BY <1>4, <1>5, <1>7, <1>8

\* A call starts with no response, whatever request it sends.
LEMMA CallKeeps ==
    ASSUME BuffersKept, FreshResponse, UNCHANGED object, request' \in GoodBuffers, pc' # "header"
    PROVE  BuffersKept'
<1>1. <<>> \in Cells
  BY EmptySeq DEF Cells
<1> QED
  BY <1>1, NewBuffer DEF BuffersKept, FreshResponse, ValuesTyped, object

LEMMA CallsKeepBuffers ==
    ASSUME BuffersKept,
           UpdateAttributes \/ \E query \in Texts, fetchStats \in BOOLEAN : GetKeywords(query, fetchStats)
    PROVE  BuffersKept'
<1>1. CASE UpdateAttributes
  <2>1. FreshResponse /\ UNCHANGED object
    BY <1>1 DEF UpdateAttributes
  <2>2. CASE Convertible
    <3>1. Send(SEARCHD_COMMAND_UPDATE, VER_COMMAND_UPDATE_0_9_8, BuildUpdateRequest)
      BY <1>1, <2>2 DEF UpdateAttributes
    <3>2. BuildUpdateRequest \in GoodBuffers
      BY UpdateRequestGood DEF BuffersKept
    <3>3. VER_COMMAND_UPDATE_0_9_8 \in Nat
      BY DEF VER_COMMAND_UPDATE_0_9_8
    <3>4. request' \in GoodBuffers /\ pc' = "launch"
      BY <3>1, <3>2, <3>3, RequestGood DEF Send
    <3> QED
      BY <2>1, <3>4, CallKeeps
  <2>3. CASE ~Convertible
    <3>1. request' = NetworkQuery /\ pc' = "returned"
      BY <1>1, <2>3 DEF UpdateAttributes, Return
    <3> QED
      BY <2>1, <3>1, NewBuffer, CallKeeps
  <2> QED
    BY <2>2, <2>3
<1>2. ASSUME NEW query \in Texts, NEW fetchStats \in BOOLEAN, GetKeywords(query, fetchStats)
      PROVE  BuffersKept'
  <2>1. /\ FreshResponse /\ UNCHANGED object
        /\ Send(SEARCHD_COMMAND_KEYWORDS, VER_COMMAND_KEYWORDS_0_9_8,
                BuildKeywordsRequest(Index, query, fetchStats))
    BY <1>2 DEF GetKeywords
  <2>2. BuildKeywordsRequest(Index, query, fetchStats) \in GoodBuffers
    BY KeywordsRequestGood
  <2>3. VER_COMMAND_KEYWORDS_0_9_8 \in Nat
    BY DEF VER_COMMAND_KEYWORDS_0_9_8
  <2>4. request' \in GoodBuffers /\ pc' = "launch"
    BY <2>1, <2>2, <2>3, RequestGood DEF Send
  <2> QED
    BY <2>1, <2>4, CallKeeps
<1> QED
  BY <1>1, <1>2

\* searchd answers with a header and more.
LEMMA AnswerKeeps ==
    ASSUME BuffersKept, pc = "launch", pc' = "header", NEW code \in Nat, NEW body \in Cells,
           incoming' = Reply(code, body), UNCHANGED <<object, request, data>>
    PROVE  BuffersKept'
<1>1. incoming' \in Cells /\ Len(incoming') >= 4 /\ Len(incoming') \in Nat
  BY ReplyTyped, LenProperties DEF Cells
<1>2. data' = NetworkQuery /\ data'.dataEndPtr = 0
  BY NewBuffer DEF BuffersKept
<1> QED
  BY <1>1, <1>2 DEF BuffersKept, ValuesTyped, object, HeaderLength

LEMMA SearchdKeepsBuffers ==
    ASSUME BuffersKept, SearchdRefuses \/ SearchdUpdates \/ SearchdFindsWords
    PROVE  BuffersKept'
<1>1. SEARCHD_OK \in Nat /\ SEARCHD_ERROR \in Nat
  BY DEF SEARCHD_OK, SEARCHD_ERROR
<1>2. CASE SearchdRefuses
  <2>1. /\ pc = "launch" /\ pc' = "header" /\ UNCHANGED <<object, request, data>>
        /\ incoming' = Reply(SEARCHD_ERROR, EncodeText(<<>>))
    BY <1>2 DEF SearchdRefuses
  <2>2. EncodeText(<<>>) \in Cells
    <3>1. <<>> \in Cells
      BY EmptySeq DEF Cells
    <3> QED
      BY <3>1, EncodeTextTyped
  <2> QED
    BY <1>1, <2>1, <2>2, AnswerKeeps
<1>3. CASE SearchdUpdates
  <2> DEFINE update == ReadUpdate(RequestHead.rest)
             documents == update.documents
  <2>1. /\ pc = "launch" /\ pc' = "header" /\ UNCHANGED <<object, request, data>>
        /\ \E known \in SUBSET Documents, cut \in 0 .. 2 :
             incoming' = Reply(SEARCHD_OK,
                            SubSeq(CellsOf(Cardinality(documents \cap known), 2), 1, cut))
    BY <1>3 DEF SearchdUpdates
  <2> HIDE DEF update, documents
  <2>2. PICK known \in SUBSET Documents, cut \in 0 .. 2 :
             incoming' = Reply(SEARCHD_OK,
                            SubSeq(CellsOf(Cardinality(documents \cap known), 2), 1, cut))
    BY <2>1
  <2> DEFINE body == CellsOf(Cardinality(documents \cap known), 2)
  <2>3. Cardinality(documents \cap known) \in Nat
    <3>1. IsFiniteSet(Documents) /\ documents \cap known \subseteq Documents
      BY CommandsAssumption
    <3>2. IsFiniteSet(documents \cap known)
      BY <3>1, FS_Subset
    <3> QED
      BY <3>2, FS_CardinalityType
  <2>4. body \in Cells /\ Len(body) = 2
    <3>1. 2 \in Nat
      OBVIOUS
    <3> QED
      BY <2>3, <3>1, CellsOfTyped
  <2> HIDE DEF body
  <2>5. SubSeq(body, 1, cut) \in Cells
    <3>1. cut \in 0 .. Len(body)
      BY <2>4
    <3> QED
      BY <2>4, <3>1, PartTyped
  <2>6. incoming' = Reply(SEARCHD_OK, SubSeq(body, 1, cut))
    BY <2>2 DEF body
  <2> QED
    BY <1>1, <2>1, <2>5, <2>6, AnswerKeeps
<1>4. CASE SearchdFindsWords
  <2>1. /\ pc = "launch" /\ pc' = "header" /\ UNCHANGED <<object, request, data>>
        /\ \E words \in BoundedSeq(Words, MaxWords), stats \in BOOLEAN :
             \E cut \in 0 .. Len(EncodeWords(words, stats)) :
               incoming' = Reply(SEARCHD_OK, SubSeq(EncodeWords(words, stats), 1, cut))
    BY <1>4 DEF SearchdFindsWords
  <2>2. PICK words \in BoundedSeq(Words, MaxWords), stats \in BOOLEAN :
             \E cut \in 0 .. Len(EncodeWords(words, stats)) :
               incoming' = Reply(SEARCHD_OK, SubSeq(EncodeWords(words, stats), 1, cut))
    BY <2>1
  <2> DEFINE body == EncodeWords(words, stats)
  <2>3. body \in Cells
    BY EncodeWordsTyped
  <2>4. PICK cut \in 0 .. Len(body) : incoming' = Reply(SEARCHD_OK, SubSeq(body, 1, cut))
    BY <2>2
  <2> HIDE DEF body
  <2>5. SubSeq(body, 1, cut) \in Cells
    BY <2>3, PartTyped
  <2> QED
    BY <1>1, <2>1, <2>4, <2>5, AnswerKeeps
<1> QED
  BY <1>2, <1>3, <1>4

\* What recv() delivers goes behind what is in the buffer.
LEMMA ReceiveTyped ==
    ASSUME data \in GoodBuffers, incoming \in Cells, NEW wanted \in Int,
           wanted <= Len(incoming), NEW n \in Receivable(data, wanted)
    PROVE  /\ n \in Nat /\ n <= Len(incoming)
           /\ Receive(n) \in GoodBuffers
           /\ Receive(n).dataEndPtr = data.dataEndPtr + n
           /\ Later(n) \in Cells /\ Len(Later(n)) = Len(incoming) - n
<1>1. Len(incoming) \in Nat
  BY LenProperties DEF Cells
<1>2. n \in Nat /\ n <= wanted
  <2> DEFINE space == WithSpace(data).dataSize - data.dataEndPtr
  <2>1. n \in 1 .. IF wanted > space THEN space ELSE wanted
    BY DEF Receivable
  <2> HIDE DEF space
  <2>2. CASE wanted > space
    <3>1. n \in 1 .. space
      BY <2>1, <2>2
    <3>2. space \in Int
      <4>1. WithSpace(data).dataSize \in Int /\ data.dataEndPtr \in Int
        <5>1. data.dataSize \in Nat /\ data.dataEndPtr \in Nat
          BY GoodParts
        <5> QED
          BY <5>1 DEF WithSpace, DoubleSizeBuffer, Enlarged, GoodBuffers
      <4> QED
        BY <4>1 DEF space
    <3> QED
      BY <2>2, <3>1, <3>2
  <2>3. CASE ~(wanted > space)
    BY <2>1, <2>3
  <2> QED
    BY <2>2, <2>3
<1>3. n \in 0 .. Len(incoming)
  BY <1>1, <1>2
<1> DEFINE part == SubSeq(incoming, 1, n)
<1>4. /\ part \in Cells /\ Len(part) = n
      /\ Later(n) \in Cells /\ Len(Later(n)) = Len(incoming) - n
  BY <1>3, PartTyped DEF Later
<1>5. Receive(n) = ReadOnReadable(data, part)
  BY DEF Receive
<1> HIDE DEF part
<1>6. Extends(ReadOnReadable(data, part), data, part)
  BY <1>4, ReadExtends
<1> QED
  BY <1>1, <1>3, <1>4, <1>5, <1>6 DEF Extends

LEMMA ReadsKeepBuffers ==
    ASSUME BuffersKept, ReadHeader \/ ReadBody
    PROVE  BuffersKept'
<1>1. data \in GoodBuffers /\ incoming \in Cells /\ Len(incoming) \in Nat /\ data.dataEndPtr \in Nat
  BY GoodParts, LenProperties DEF BuffersKept, Cells
<1>2. CASE ReadHeader
  <2>1. PICK n \in Receivable(data, HeaderLength - data.dataEndPtr) :
          LET header  == Receive(n)
              code    == Get(header, 1)
              version == Get(code.rest, 1)
              length  == GetWord(version.rest)
          IN /\ incoming' = Later(n)
             /\ IF header.dataEndPtr < HeaderLength
                THEN data' = header /\ UNCHANGED <<pc, status, outcome>>
                ELSE /\ status' = code.value /\ data' = length.rest
                     /\ IF length.value = 0 THEN Return("ConnectionError")
                        ELSE pc' = "body" /\ UNCHANGED outcome
    BY <1>2 DEF ReadHeader
  <2> DEFINE header  == Receive(n)
             code    == Get(header, 1)
             version == Get(code.rest, 1)
             length  == GetWord(version.rest)
  <2>2. /\ incoming' = Later(n)
        /\ \/ header.dataEndPtr < HeaderLength /\ data' = header /\ pc' = pc
           \/ data' = length.rest /\ pc' \in {"returned", "body"}
    BY <2>1 DEF Return
  <2>3. pc = "header" /\ UNCHANGED <<object, request>>
    BY <1>2 DEF ReadHeader
  <2>4. HeaderLength - data.dataEndPtr \in Int /\ HeaderLength - data.dataEndPtr <= Len(incoming)
    BY <1>1, <2>3 DEF BuffersKept, HeaderLength
  <2>5. /\ n \in Nat /\ n <= Len(incoming) /\ header \in GoodBuffers
        /\ header.dataEndPtr = data.dataEndPtr + n
        /\ Later(n) \in Cells /\ Len(Later(n)) = Len(incoming) - n
    BY <1>1, <2>4, ReceiveTyped
  <2>6. length.rest \in GoodBuffers
    <3>1. 1 \in 1 .. 4 /\ 2 \in 1 .. 4
      OBVIOUS
    <3>2. code.rest \in GoodBuffers
      BY <2>5, <3>1, GetGood
    <3> HIDE DEF code
    <3>3. version.rest \in GoodBuffers
      BY <3>1, <3>2, GetGood
    <3> HIDE DEF version
    <3> QED
      BY <3>1, <3>3, GetGood DEF GetWord
  <2> HIDE DEF header, code, version, length
  <2>7. data' \in GoodBuffers /\ incoming' \in Cells
    BY <2>2, <2>5, <2>6
  <2>8. pc' = "header" => Len(incoming') + data'.dataEndPtr >= HeaderLength
    <3>1. ASSUME pc' = "header"
          PROVE  Len(incoming') + data'.dataEndPtr >= HeaderLength
      <4>1. data' = header
        BY <2>2, <3>1
      <4>2. Len(incoming') = Len(incoming) - n /\ data'.dataEndPtr = data.dataEndPtr + n
        BY <2>2, <2>5, <4>1
      <4> QED
        BY <1>1, <2>4, <2>5, <4>2 DEF HeaderLength
    <3> QED
      BY <3>1
  <2>9. pc' # "launch"
    BY <2>2, <2>3
  <2> QED
    BY <2>3, <2>7, <2>8, <2>9 DEF BuffersKept, ValuesTyped, object
<1>3. CASE ReadBody
  <2>1. PICK n \in Receivable(data, Len(incoming)) :
          data' = Receive(n) /\ incoming' = Later(n) /\ pc' \in {"body", "parse", "returned"}
    BY <1>3 DEF ReadBody, Return
  <2>2. UNCHANGED <<object, request>>
    BY <1>3 DEF ReadBody
  <2>3. Receive(n) \in GoodBuffers /\ Later(n) \in Cells
    <3>1. Len(incoming) \in Int /\ Len(incoming) <= Len(incoming)
      BY <1>1
    <3> QED
      BY <1>1, <3>1, ReceiveTyped
  <2> QED
    BY <2>1, <2>2, <2>3 DEF BuffersKept, ValuesTyped, object
<1> QED
  BY <1>2, <1>3

LEMMA ReturnsKeepBuffers ==
    ASSUME BuffersKept, ParseUpdate \/ ParseKeywords \/ LaunchThrows
    PROVE  BuffersKept'
<1>1. ASSUME pc' = "returned", data' \in GoodBuffers, UNCHANGED <<object, request, incoming>>
      PROVE  BuffersKept'
  BY <1>1 DEF BuffersKept, ValuesTyped, object
<1>2. data \in GoodBuffers
  BY DEF BuffersKept
<1>3. CASE ParseUpdate
  <2>1. data' = GetWord(data).rest
    BY <1>3 DEF ParseUpdate
  <2>2. 2 \in 1 .. 4
    OBVIOUS
  <2>3. data' \in GoodBuffers
    BY <1>2, <2>1, <2>2, GetGood DEF GetWord
  <2> QED
    BY <1>1, <1>3, <2>3 DEF ParseUpdate, Return
<1>4. CASE ParseKeywords
  <2>1. data' \in GoodBuffers
    BY <1>2, <1>4, ParsingKeepsBuffers
  <2>2. pc' = "returned" /\ UNCHANGED <<object, request, incoming>>
    BY <1>4 DEF ParseKeywords, Return
  <2> QED
    BY <1>1, <2>1, <2>2
<1>5. CASE LaunchThrows
  BY <1>1, <1>2, <1>5 DEF LaunchThrows, Return
<1> QED
  BY <1>3, <1>4, <1>5

LEMMA BuffersKeptStep ==
    BuffersKept /\ [Next]_vars => BuffersKept'
<1> SUFFICES ASSUME BuffersKept, [Next]_vars PROVE BuffersKept'
  OBVIOUS
<1>1. CASE UNCHANGED vars
  BY <1>1 DEF vars, object, BuffersKept, ValuesTyped
<1>2. CASE Next
  BY <1>2, EditsKeepBuffers, CallsKeepBuffers, SearchdKeepsBuffers, ReadsKeepBuffers,
     ReturnsKeepBuffers DEF Next
<1> QED
  BY <1>1, <1>2

\* For names, texts, documents and values of any number and size, and an array
\* of any size from 4 cells on: no operator << or >> and no recv() goes beyond
\* the array, and what is to be sent or read was put in, each cell of it
\* (sphinxclientquery.cc:138-219, :330).
THEOREM BuffersStayWithinBounds == Spec => []BuffersWithinBounds
<1>1. Init => BuffersKept
  BY BuffersKeptInit
<1>2. BuffersKept /\ [Next]_vars => BuffersKept'
  BY BuffersKeptStep
<1>3. BuffersKept => BuffersWithinBounds
  <2> SUFFICES ASSUME BuffersKept PROVE BuffersWithinBounds
    OBVIOUS
  <2>1. ASSUME NEW q \in GoodBuffers
        PROVE  WithinBounds(q) /\ Garbage \notin Range(Content(q))
    <3>1. WithinBounds(q)
      BY GoodParts DEF WithinBounds
    <3>2. Content(q) \in Seq(Nat) /\ ~(Garbage \in Nat)
      BY ContentIs DEF Cells, Garbage
    <3>3. \A x \in Range(Content(q)) : x \in Nat
      <4> DEFINE c == Content(q)
      <4>1. c \in Seq(Nat)
        BY <3>2
      <4> HIDE DEF c
      <4>2. DOMAIN c = 1 .. Len(c) /\ \A k \in 1 .. Len(c) : c[k] \in Nat
        BY <4>1, ElementOfSeq, LenProperties
      <4> QED
        BY <4>2 DEF Range, c
    <3> QED
      BY <3>1, <3>2, <3>3
  <2> QED
    BY <2>1 DEF BuffersKept, BuffersWithinBounds, Buffers
<1> QED
  BY <1>1, <1>2, <1>3, PTL DEF Spec
-----------------------------------------------------------------------------
(* What is sent *)

NameCells(names) == [k \in 1 .. Len(names) |-> EncodeText(names[k])]
ValueCells(vector) == [k \in 1 .. Len(vector) |-> CellsOf(vector[k].number, 2)]
RowCells(d) == CellsOf(d, 4) \o FlattenSeq(ValueCells(values[d]))
Rows(keys) == [j \in 1 .. Len(keys) |-> RowCells(keys[j])]

LEMMA NameCellsTyped ==
    ASSUME NEW names \in Seq(Cells)
    PROVE  NameCells(names) \in Seq(Cells) /\ Len(NameCells(names)) = Len(names)
<1>1. Len(names) \in Nat /\ \A k \in 1 .. Len(names) : names[k] \in Cells
  BY LenProperties, ElementOfSeq
<1>2. \A k \in 1 .. Len(names) : EncodeText(names[k]) \in Cells
  BY <1>1, EncodeTextTyped
<1> QED
  BY <1>1, <1>2 DEF NameCells

LEMMA ValueCellsTyped ==
    ASSUME NEW vector \in Seq(Values)
    PROVE  ValueCells(vector) \in Seq(Cells) /\ Len(ValueCells(vector)) = Len(vector)
<1>1. Len(vector) \in Nat /\ \A k \in 1 .. Len(vector) : vector[k] \in Values
  BY LenProperties, ElementOfSeq
<1>2. \A k \in 1 .. Len(vector) : vector[k].number \in Nat
  BY <1>1, CommandsAssumption
<1>3. \A k \in 1 .. Len(vector) : CellsOf(vector[k].number, 2) \in Cells
  <2>1. 2 \in Nat
    OBVIOUS
  <2> QED
    BY <1>2, <2>1, CellsOfTyped
<1> QED
  BY <1>1, <1>3 DEF ValueCells

LEMMA RowCellsTyped ==
    ASSUME ValuesTyped, NEW d \in DOMAIN values
    PROVE  /\ CellsOf(d, 4) \in Cells /\ Len(CellsOf(d, 4)) = 4
           /\ FlattenSeq(ValueCells(values[d])) \in Cells
           /\ RowCells(d) \in Cells
<1>1. d \in Nat /\ values[d] \in Seq(Values) /\ 4 \in Nat
  BY CommandsAssumption DEF ValuesTyped
<1>2. CellsOf(d, 4) \in Cells /\ Len(CellsOf(d, 4)) = 4
  BY <1>1, CellsOfTyped
<1>3. FlattenSeq(ValueCells(values[d])) \in Cells
  <2>1. ValueCells(values[d]) \in Seq(Seq(Nat))
    BY <1>1, ValueCellsTyped DEF Cells
  <2> QED
    BY <2>1, JoinedIsSeq DEF Cells
<1> QED
  BY <1>2, <1>3, JoinTyped DEF RowCells

LEMMA RowsTyped ==
    ASSUME ValuesTyped, NEW keys \in Seq(DOMAIN values)
    PROVE  Rows(keys) \in Seq(Cells) /\ Len(Rows(keys)) = Len(keys)
<1>1. Len(keys) \in Nat /\ \A k \in 1 .. Len(keys) : keys[k] \in DOMAIN values
  BY LenProperties, ElementOfSeq
<1>2. \A k \in 1 .. Len(keys) : RowCells(keys[k]) \in Cells
  BY <1>1, RowCellsTyped
<1> QED
  BY <1>1, <1>2 DEF Rows

LEMMA PutsNames ==
    ASSUME NEW q, Network(q), NEW names \in Seq(Cells)
    PROVE  /\ Network(PutNames(q, names))
           /\ Content(PutNames(q, names)) = Content(q) \o FlattenSeq(NameCells(names))
<1> DEFINE ss == NameCells(names)
<1>1. Len(names) \in Nat /\ \A k \in 1 .. Len(names) : names[k] \in Cells
  BY LenProperties, ElementOfSeq
<1>2. ss \in Seq(Cells) /\ Len(ss) = Len(names) /\ \A k \in 1 .. Len(names) : ss[k] = EncodeText(names[k])
  BY NameCellsTyped DEF NameCells
<1>3. PICK after : IsPuttingNames(after, q, names)
  BY PutNamesIs DEF Network
<1>4. /\ after[0] = q /\ PutNames(q, names) = after[Len(names)]
      /\ \A k \in 1 .. Len(names) : after[k] = PutString(after[k - 1], names[k])
  BY <1>3 DEF IsPuttingNames
<1> HIDE DEF ss
<1>5. ASSUME NEW k \in 1 .. Len(ss), Network(after[k - 1])
      PROVE  Network(after[k]) /\ Content(after[k]) = Content(after[k - 1]) \o ss[k]
  <2> DEFINE b == after[k - 1]
             x == names[k]
  <2>1. Network(b) /\ x \in Cells /\ after[k] = PutString(b, x) /\ ss[k] = EncodeText(x)
    BY <1>1, <1>2, <1>4, <1>5
  <2> HIDE DEF b, x
  <2>2. Network(PutString(b, x)) /\ Content(PutString(b, x)) = Content(b) \o EncodeText(x)
    BY <2>1, PutsText
  <2> QED
    BY <2>1, <2>2 DEF b
<1>6. Network(after[0])
  BY <1>4
<1>7. /\ Network(after[Len(ss)])
      /\ Content(after[Len(ss)]) = Content(after[0]) \o FlattenSeq(ss)
  BY <1>2, <1>5, <1>6, Gathers
<1> QED
  BY <1>2, <1>4, <1>7 DEF ss

LEMMA PutsValues ==
    ASSUME NEW q, Network(q), NEW vector \in Seq(Values)
    PROVE  /\ Network(PutValues(q, vector))
           /\ Content(PutValues(q, vector)) = Content(q) \o FlattenSeq(ValueCells(vector))
<1> DEFINE ss == ValueCells(vector)
<1>1. Len(vector) \in Nat /\ \A k \in 1 .. Len(vector) : vector[k].number \in Nat
  <2>1. Len(vector) \in Nat /\ \A k \in 1 .. Len(vector) : vector[k] \in Values
    BY LenProperties, ElementOfSeq
  <2> QED
    BY <2>1, CommandsAssumption
<1>2. /\ ss \in Seq(Cells) /\ Len(ss) = Len(vector)
      /\ \A k \in 1 .. Len(vector) : ss[k] = CellsOf(vector[k].number, 2)
  BY ValueCellsTyped DEF ValueCells
<1>3. PICK after : IsPuttingValues(after, q, vector)
  BY PutValuesIs DEF Network
<1>4. /\ after[0] = q /\ PutValues(q, vector) = after[Len(vector)]
      /\ \A k \in 1 .. Len(vector) : after[k] = Put(after[k - 1], vector[k].number, 2)
  BY <1>3 DEF IsPuttingValues, PutValue, PutWord
<1> HIDE DEF ss
<1>5. ASSUME NEW k \in 1 .. Len(ss), Network(after[k - 1])
      PROVE  Network(after[k]) /\ Content(after[k]) = Content(after[k - 1]) \o ss[k]
  <2> DEFINE b == after[k - 1]
             x == vector[k].number
  <2>1. 2 \in 1 .. 4
    OBVIOUS
  <2>2. Network(b) /\ x \in Nat /\ after[k] = Put(b, x, 2) /\ ss[k] = CellsOf(x, 2)
    BY <1>1, <1>2, <1>4, <1>5
  <2> HIDE DEF b, x
  <2>3. Network(Put(b, x, 2)) /\ Content(Put(b, x, 2)) = Content(b) \o CellsOf(x, 2)
    BY <2>1, <2>2, PutsNumber
  <2> QED
    BY <2>2, <2>3 DEF b
<1>6. Network(after[0])
  BY <1>4
<1>7. /\ Network(after[Len(ss)])
      /\ Content(after[Len(ss)]) = Content(after[0]) \o FlattenSeq(ss)
  BY <1>2, <1>5, <1>6, Gathers
<1> QED
  BY <1>2, <1>4, <1>7 DEF ss

LEMMA PutsDocuments ==
    ASSUME ValuesTyped, NEW q, Network(q), NEW keys \in Seq(DOMAIN values)
    PROVE  /\ Network(PutDocuments(q, keys))
           /\ Content(PutDocuments(q, keys)) = Content(q) \o FlattenSeq(Rows(keys))
<1> DEFINE ss == Rows(keys)
<1>1. Len(keys) \in Nat /\ \A k \in 1 .. Len(keys) : keys[k] \in DOMAIN values
  BY LenProperties, ElementOfSeq
<1>2. ss \in Seq(Cells) /\ Len(ss) = Len(keys) /\ \A k \in 1 .. Len(keys) : ss[k] = RowCells(keys[k])
  BY RowsTyped DEF Rows
<1>3. PICK after : IsPuttingDocuments(after, q, keys)
  BY PutDocumentsIs DEF Network
<1>4. /\ after[0] = q /\ PutDocuments(q, keys) = after[Len(keys)]
      /\ \A k \in 1 .. Len(keys) :
           after[k] = PutValues(PutDocument(after[k - 1], keys[k]), values[keys[k]])
  BY <1>3 DEF IsPuttingDocuments
<1> HIDE DEF ss
<1>5. ASSUME NEW k \in 1 .. Len(ss), Network(after[k - 1])
      PROVE  Network(after[k]) /\ Content(after[k]) = Content(after[k - 1]) \o ss[k]
  <2> DEFINE d == keys[k]
             b == after[k - 1]
             p == PutDocument(b, d)
             rest == FlattenSeq(ValueCells(values[d]))
  <2>1. d \in DOMAIN values /\ d \in Nat /\ values[d] \in Seq(Values)
    BY <1>1, <1>2, CommandsAssumption DEF ValuesTyped
  <2>2. Network(p) /\ Content(p) = Content(b) \o CellsOf(d, 4)
    <3>1. 4 \in 1 .. 4
      OBVIOUS
    <3> QED
      BY <1>5, <2>1, <3>1, PutsNumber DEF PutDocument, PutLong
  <2>3. after[k] = PutValues(p, values[d])
    BY <1>2, <1>4
  <2> HIDE DEF p
  <2>4. Network(after[k]) /\ Content(after[k]) = Content(p) \o rest
    BY <2>1, <2>2, <2>3, PutsValues
  <2>5. ss[k] = CellsOf(d, 4) \o rest
    BY <1>2 DEF RowCells
  <2>6. CellsOf(d, 4) \in Cells /\ rest \in Cells /\ Content(b) \in Cells
    BY <1>5, <2>1, RowCellsTyped, ContentIs DEF Network
  <2> DEFINE c == Content(b)
             e == CellsOf(d, 4)
  <2>7. (c \o e) \o rest = c \o (e \o rest)
    <3>1. c \in Cells /\ e \in Cells /\ rest \in Cells
      BY <2>6
    <3> HIDE DEF c, e, rest
    <3> QED
      BY <3>1, Regrouped
  <2> HIDE DEF b, d, rest
  <2> QED
    BY <2>2, <2>4, <2>5, <2>7 DEF b
<1>6. Network(after[0])
  BY <1>4
<1>7. /\ Network(after[Len(ss)])
      /\ Content(after[Len(ss)]) = Content(after[0]) \o FlattenSeq(ss)
  BY <1>2, <1>5, <1>6, Gathers
<1> QED
  BY <1>2, <1>4, <1>7 DEF ss

\* The body of an update: the index, the names and their number, and the rows
\* behind theirs.
UpdateCells ==
    EncodeText(Index)
    \o (CellsOf(Len(attributes), 2)
    \o (FlattenSeq(NameCells(attributes))
    \o (CellsOf(Cardinality(DOMAIN values), 2)
    \o FlattenSeq(Rows(Ascending(DOMAIN values))))))

LEMMA PartsTyped ==
    ASSUME ValuesTyped, attributes \in Seq(Names)
    PROVE  /\ Index \in Cells /\ attributes \in Seq(Cells) /\ Len(attributes) \in Nat
           /\ Cardinality(DOMAIN values) \in Nat
           /\ EncodeText(Index) \in Cells
           /\ CellsOf(Len(attributes), 2) \in Cells
           /\ FlattenSeq(NameCells(attributes)) \in Cells
           /\ CellsOf(Cardinality(DOMAIN values), 2) \in Cells
           /\ Ascending(DOMAIN values) \in Seq(DOMAIN values)
           /\ FlattenSeq(Rows(Ascending(DOMAIN values))) \in Cells
<1>1. Index \in Cells /\ Names \subseteq Cells
  BY CommandsAssumption DEF Cells
<1>2. attributes \in Seq(Cells) /\ Len(attributes) \in Nat
  BY <1>1, SeqMonotonic, LenProperties
<1>3. /\ Ascending(DOMAIN values) \in Seq(DOMAIN values)
      /\ Cardinality(DOMAIN values) \in Nat
  BY AscendingTyped DEF ValuesTyped
<1>4. 2 \in Nat
  OBVIOUS
<1>5. /\ CellsOf(Len(attributes), 2) \in Cells
      /\ CellsOf(Cardinality(DOMAIN values), 2) \in Cells
  BY <1>2, <1>3, <1>4, CellsOfTyped
<1>6. EncodeText(Index) \in Cells
  BY <1>1, EncodeTextTyped
<1>7. FlattenSeq(NameCells(attributes)) \in Cells
  <2>1. NameCells(attributes) \in Seq(Seq(Nat))
    BY <1>2, NameCellsTyped DEF Cells
  <2> QED
    BY <2>1, JoinedIsSeq DEF Cells
<1>8. FlattenSeq(Rows(Ascending(DOMAIN values))) \in Cells
  <2>1. Rows(Ascending(DOMAIN values)) \in Seq(Seq(Nat))
    BY <1>3, RowsTyped DEF Cells
  <2> QED
    BY <2>1, JoinedIsSeq DEF Cells
<1> QED
  BY <1>1, <1>2, <1>3, <1>5, <1>6, <1>7, <1>8

LEMMA UpdateContent ==
    ASSUME ValuesTyped, attributes \in Seq(Names)
    PROVE  Network(BuildUpdateRequest) /\ Content(BuildUpdateRequest) = UpdateCells
<1> DEFINE a == EncodeText(Index)
           b == CellsOf(Len(attributes), 2)
           c == FlattenSeq(NameCells(attributes))
           d == CellsOf(Cardinality(DOMAIN values), 2)
           keys == Ascending(DOMAIN values)
           e == FlattenSeq(Rows(keys))
           first == PutString(NetworkQuery, Index)
           head  == PutWord(first, Len(attributes))
           names == PutNames(head, attributes)
           count == PutWord(names, Cardinality(DOMAIN values))
           all   == PutDocuments(count, keys)
<1>1. /\ Index \in Cells /\ attributes \in Seq(Cells) /\ Len(attributes) \in Nat
      /\ Cardinality(DOMAIN values) \in Nat
      /\ a \in Cells /\ b \in Cells /\ c \in Cells /\ d \in Cells /\ e \in Cells
      /\ keys \in Seq(DOMAIN values)
  BY PartsTyped
<1>2. 2 \in 1 .. 4
  OBVIOUS
<1>3. Network(first) /\ Content(first) = a
  <2>1. Network(NetworkQuery) /\ Content(NetworkQuery) = <<>>
    BY NewBuffer DEF Network
  <2>2. Network(first) /\ Content(first) = <<>> \o a
    BY <1>1, <2>1, PutsText
  <2>3. <<>> \o a = a
    <3>1. a \in Seq(Nat)
      BY <1>1 DEF Cells
    <3> HIDE DEF a
    <3> QED
      BY <3>1, ConcatEmptySeq
  <2> QED
    BY <2>2, <2>3
<1> HIDE DEF first
<1>4. Network(head) /\ Content(head) = Content(first) \o b
  BY <1>1, <1>2, <1>3, PutsNumber DEF PutWord
<1> HIDE DEF head
<1>5. Network(names) /\ Content(names) = Content(head) \o c
  BY <1>1, <1>4, PutsNames
<1> HIDE DEF names
<1>6. Network(count) /\ Content(count) = Content(names) \o d
  BY <1>1, <1>2, <1>5, PutsNumber DEF PutWord
<1> HIDE DEF count
<1>7. Network(all) /\ Content(all) = Content(count) \o e
  BY <1>1, <1>6, PutsDocuments
<1>8. BuildUpdateRequest = all
  BY DEF BuildUpdateRequest, first, head, names, count
<1> HIDE DEF all, a, b, c, d, e
<1>9. (((a \o b) \o c) \o d) \o e = a \o (b \o (c \o (d \o e)))
  <2>1. a \o b \in Cells /\ d \o e \in Cells
    BY <1>1, JoinTyped
  <2>2. (a \o b) \o c \in Cells /\ c \o (d \o e) \in Cells
    BY <1>1, <2>1, JoinTyped
  <2> DEFINE ab == a \o b
             abc == ab \o c
             de == d \o e
             cde == c \o de
  <2>3. (abc \o d) \o e = abc \o de
    <3>1. abc \in Cells
      BY <2>2
    <3> HIDE DEF abc
    <3> QED
      BY <1>1, <3>1, Regrouped
  <2>4. abc \o de = ab \o cde
    <3>1. ab \in Cells /\ c \in Cells /\ de \in Cells
      BY <1>1, <2>1
    <3> HIDE DEF ab, de
    <3>2. (ab \o c) \o de = ab \o (c \o de)
      BY <3>1, Regrouped, Zenon
    <3> QED
      BY <3>2
  <2>5. ab \o cde = a \o (b \o cde)
    <3>1. a \in Cells /\ b \in Cells /\ cde \in Cells
      BY <1>1, <2>2
    <3> HIDE DEF cde
    <3>2. (a \o b) \o cde = a \o (b \o cde)
      BY <3>1, Regrouped, Zenon
    <3> QED
      BY <3>2
  <2> QED
    BY <2>3, <2>4, <2>5
<1>10. Content(all) = a \o (b \o (c \o (d \o e)))
  BY <1>3, <1>4, <1>5, <1>6, <1>7, <1>9
<1> QED
  BY <1>7, <1>8, <1>10 DEF UpdateCells, a, b, c, d, e

\* The body of a question for keywords.
KeywordsCells(index, query, fetchStats) ==
    EncodeText(query) \o (EncodeText(index) \o CellsOf(IF fetchStats THEN 1 ELSE 0, 2))

LEMMA KeywordsContent ==
    ASSUME NEW query \in Texts, NEW fetchStats \in BOOLEAN
    PROVE  /\ Network(BuildKeywordsRequest(Index, query, fetchStats))
           /\ Content(BuildKeywordsRequest(Index, query, fetchStats))
                = KeywordsCells(Index, query, fetchStats)
<1> DEFINE flag == IF fetchStats THEN 1 ELSE 0
           a == EncodeText(query)
           b == EncodeText(Index)
           c == CellsOf(flag, 2)
           first == PutString(NetworkQuery, query)
           second == PutString(first, Index)
           all == PutWord(second, flag)
<1>1. query \in Cells /\ Index \in Cells /\ flag \in Nat /\ 2 \in Nat /\ 2 \in 1 .. 4
  BY CommandsAssumption DEF Cells
<1> HIDE DEF flag
<1>2. a \in Cells /\ b \in Cells /\ c \in Cells
  BY <1>1, EncodeTextTyped, CellsOfTyped
<1>3. Network(first) /\ Content(first) = a
  <2>1. Network(NetworkQuery) /\ Content(NetworkQuery) = <<>>
    BY NewBuffer DEF Network
  <2>2. Network(first) /\ Content(first) = <<>> \o a
    BY <1>1, <2>1, PutsText
  <2>3. <<>> \o a = a
    <3>1. a \in Seq(Nat)
      BY <1>2 DEF Cells
    <3> HIDE DEF a
    <3> QED
      BY <3>1, ConcatEmptySeq
  <2> QED
    BY <2>2, <2>3
<1> HIDE DEF first
<1>4. Network(second) /\ Content(second) = Content(first) \o b
  BY <1>1, <1>3, PutsText
<1> HIDE DEF second
<1>5. Network(all) /\ Content(all) = Content(second) \o c
  BY <1>1, <1>4, PutsNumber DEF PutWord
<1>6. BuildKeywordsRequest(Index, query, fetchStats) = all
  BY DEF BuildKeywordsRequest, first, second, flag
<1> HIDE DEF all, a, b, c
<1>7. Content(all) = a \o (b \o c)
  BY <1>2, <1>3, <1>4, <1>5, Regrouped
<1> QED
  BY <1>5, <1>6, <1>7 DEF KeywordsCells, a, b, c, flag

\* The whole request: command, version, length and body.
LEMMA RequestContent ==
    ASSUME NEW number \in {SEARCHD_COMMAND_UPDATE, SEARCHD_COMMAND_KEYWORDS},
           NEW version \in Nat, NEW body, Network(body)
    PROVE  Content(PutQuery(BuildHeader(number, version, BytesOf(body), 1), body))
             = CellsOf(number, 1) \o (CellsOf(version, 1)
               \o (CellsOf(2 * Len(Content(body)), 2) \o Content(body)))
<1> DEFINE size == BytesOf(body)
           a == CellsOf(number, 1)
           b == CellsOf(version, 1)
           c == CellsOf(size, 2)
           d == Content(body)
           first == PutShort(NetworkQuery, number)
           second == PutShort(first, version)
           header == PutWord(second, size)
           all == PutQuery(header, body)
<1>1. /\ number \in Nat /\ number # SEARCHD_COMMAND_SEARCH
      /\ 1 \in Nat /\ 2 \in Nat /\ 1 \in 1 .. 4 /\ 2 \in 1 .. 4
  BY DEF SEARCHD_COMMAND_SEARCH, SEARCHD_COMMAND_UPDATE, SEARCHD_COMMAND_KEYWORDS
<1>2. size \in Nat /\ size = 2 * Len(d) /\ d \in Cells /\ body \in GoodBuffers
  <2>1. Len(d) = GetLength(body) /\ GetLength(body) \in Nat
    BY ContentIs, GoodParts DEF Network
  <2> QED
    BY <2>1, ContentIs DEF BytesOf, Network
<1>3. BuildHeader(number, version, size, 1) = header
  BY <1>1 DEF BuildHeader
<1> HIDE DEF size
<1>4. a \in Cells /\ b \in Cells /\ c \in Cells
  BY <1>1, <1>2, CellsOfTyped
<1>5. Network(first) /\ Content(first) = a
  <2>1. Network(NetworkQuery) /\ Content(NetworkQuery) = <<>>
    BY NewBuffer DEF Network
  <2>2. Network(first) /\ Content(first) = <<>> \o a
    BY <1>1, <2>1, PutsNumber DEF PutShort
  <2>3. <<>> \o a = a
    <3>1. a \in Seq(Nat)
      BY <1>4 DEF Cells
    <3> HIDE DEF a
    <3> QED
      BY <3>1, ConcatEmptySeq
  <2> QED
    BY <2>2, <2>3
<1> HIDE DEF first
<1>6. Network(second) /\ Content(second) = Content(first) \o b
  BY <1>1, <1>5, PutsNumber DEF PutShort
<1> HIDE DEF second
<1>7. Network(header) /\ Content(header) = Content(second) \o c
  BY <1>1, <1>2, <1>6, PutsNumber DEF PutWord
<1> HIDE DEF header
<1>8. Content(all) = Content(header) \o d
  <2>1. Extends(PutQuery(header, body), header, Content(body))
    BY <1>2, <1>7, PutQueryExtends DEF Network
  <2> QED
    BY <2>1 DEF Extends
<1> HIDE DEF a, b, c, d
<1>9. ((a \o b) \o c) \o d = a \o (b \o (c \o d))
  <2>1. a \o b \in Cells /\ c \o d \in Cells
    BY <1>2, <1>4, JoinTyped
  <2> DEFINE ab == a \o b
             cd == c \o d
  <2>2. (ab \o c) \o d = ab \o cd
    <3>1. ab \in Cells
      BY <2>1
    <3> HIDE DEF ab
    <3> QED
      BY <1>2, <1>4, <3>1, Regrouped
  <2>3. ab \o cd = a \o (b \o cd)
    <3>1. cd \in Cells
      BY <2>1
    <3> HIDE DEF cd
    <3> QED
      BY <1>4, <3>1, Regrouped
  <2> QED
    BY <2>2, <2>3
<1>10. Content(all) = a \o (b \o (c \o d))
  BY <1>5, <1>6, <1>7, <1>8, <1>9
<1> HIDE DEF all
<1>11. PutQuery(BuildHeader(number, version, size, 1), body) = all
  BY <1>3 DEF all
<1> QED
  BY <1>2, <1>10, <1>11 DEF a, b, c, d, size
-----------------------------------------------------------------------------
(* How many cells there are *)

LEMMA TwoEach ==
    ASSUME NEW ss \in Seq(Cells), \A k \in 1 .. Len(ss) : Len(ss[k]) = 2
    PROVE  Len(FlattenSeq(ss)) = 2 * Len(ss)
<1> DEFINE n == Len(ss)
<1>1. PICK left : /\ left \in [0 .. n -> Nat]
                  /\ left[0] = Len(FlattenSeq(ss)) /\ left[n] = 0
                  /\ \A k \in 1 .. n : left[k - 1] = Len(ss[k]) + left[k]
  BY OnwardLengths
<1>2. n \in Nat /\ \A k \in 1 .. n : left[k - 1] = 2 + left[k]
  BY <1>1, LenProperties
<1> HIDE DEF n
<1> DEFINE T == {k \in 0 .. n : left[0] = left[k] + 2 * k}
<1>3. 0 \in T
  BY <1>1, <1>2
<1>4. \A k \in 1 .. n : k - 1 \in T => k \in T
  <2>1. ASSUME NEW k \in 1 .. n, left[0] = left[k - 1] + 2 * (k - 1)
        PROVE  k \in 0 .. n /\ left[0] = left[k] + 2 * k
    <3>1. k \in Int /\ k \in 0 .. n /\ left[k] \in Nat /\ left[k - 1] = 2 + left[k]
      BY <1>1, <1>2
    <3> QED
      BY <2>1, <3>1
  <2> QED
    BY <2>1
<1>5. n \in T
  <2> HIDE DEF T
  <2>1. \A k \in 0 .. n : k \in T
    BY <1>2, <1>3, <1>4, InductiveUpTo
  <2> QED
    BY <1>2, <2>1
<1> QED
  BY <1>1, <1>2, <1>5 DEF n

LEMMA OneEach ==
    ASSUME NEW ss \in Seq(Cells), \A k \in 1 .. Len(ss) : Len(ss[k]) >= 1
    PROVE  Len(FlattenSeq(ss)) >= Len(ss)
<1> DEFINE n == Len(ss)
<1>1. PICK left : /\ left \in [0 .. n -> Nat]
                  /\ left[0] = Len(FlattenSeq(ss)) /\ left[n] = 0
                  /\ \A k \in 1 .. n : left[k - 1] = Len(ss[k]) + left[k]
  BY OnwardLengths
<1>2. n \in Nat /\ \A k \in 1 .. n : left[k - 1] >= 1 + left[k]
  <2>1. \A k \in 1 .. n : Len(ss[k]) \in Nat
    <3>1. \A k \in 1 .. n : ss[k] \in Cells
      BY ElementOfSeq
    <3> QED
      BY <3>1, LenProperties DEF Cells
  <2> QED
    BY <1>1, <2>1, LenProperties
<1> HIDE DEF n
<1> DEFINE T == {k \in 0 .. n : left[0] >= left[k] + k}
<1>3. 0 \in T
  BY <1>1, <1>2
<1>4. \A k \in 1 .. n : k - 1 \in T => k \in T
  <2>1. ASSUME NEW k \in 1 .. n, left[0] >= left[k - 1] + (k - 1)
        PROVE  k \in 0 .. n /\ left[0] >= left[k] + k
    <3>1. /\ k \in Int /\ k \in 0 .. n /\ left[k] \in Nat /\ left[k - 1] \in Nat /\ left[0] \in Nat
          /\ left[k - 1] >= 1 + left[k]
      BY <1>1, <1>2
    <3> QED
      BY <2>1, <3>1
  <2> QED
    BY <2>1
<1>5. n \in T
  <2> HIDE DEF T
  <2>1. \A k \in 0 .. n : k \in T
    BY <1>2, <1>3, <1>4, InductiveUpTo
  <2> QED
    BY <1>2, <2>1
<1> QED
  BY <1>1, <1>2, <1>5 DEF n

\* A row that is read wholly takes 4 cells and 2 for every value.
RowFormat(n) == [k \in 1 .. n + 1 |-> IF k = 1 THEN 4 ELSE 2]

LEMMA RowFormatTyped ==
    ASSUME NEW n \in Nat
    PROVE  /\ RowFormat(n) \in Seq(Widths) /\ Len(RowFormat(n)) = n + 1
           /\ RowFormat(n)[1] = 4 /\ \A k \in 2 .. n + 1 : RowFormat(n)[k] = 2
BY DEF RowFormat, Widths

LEMMA RowTakes ==
    ASSUME NEW r \in Readers, NEW n \in Nat
    PROVE  /\ TakeAll(r, RowFormat(n)) \in Readers
           /\ TakeAll(r, RowFormat(n)).ok =>
                r.ok /\ Len(TakeAll(r, RowFormat(n)).rest) <= Len(r.rest) - (4 + 2 * n)
<1> DEFINE format == RowFormat(n)
           length == n + 1
<1>1. /\ format \in Seq(Widths) /\ Len(format) = length /\ length \in Nat
      /\ format[1] = 4 /\ \A k \in 2 .. length : format[k] = 2
  BY RowFormatTyped
<1> HIDE DEF format
<1>2. PICK after : IsTaking(after, r, format)
  BY <1>1, TakeAllIs
<1>3. /\ after \in [0 .. length -> Readers] /\ after[0] = r
      /\ \A k \in 1 .. length : after[k] = Take(after[k - 1], format[k])
      /\ TakeAll(r, format) = after[length]
  BY <1>1, <1>2 DEF IsTaking
<1> DEFINE taken(k) == IF k = 0 THEN 0 ELSE 2 + 2 * k
           T == {k \in 0 .. length :
                   after[k].ok => r.ok /\ Len(after[k].rest) <= Len(r.rest) - taken(k)}
<1>4. 0 \in T
  <2>1. Len(r.rest) \in Nat
    BY LenProperties DEF Readers, Cells
  <2> QED
    BY <1>1, <1>3, <2>1
<1>5. \A k \in 1 .. length : k - 1 \in T => k \in T
  <2>1. ASSUME NEW k \in 1 .. length, k - 1 \in T, after[k].ok
        PROVE  r.ok /\ Len(after[k].rest) <= Len(r.rest) - taken(k)
    <3> DEFINE b == after[k - 1]
               w == format[k]
    <3>1. k - 1 \in 0 .. length /\ k \in Nat /\ k >= 1
      BY <1>1
    <3>2. b \in Readers /\ w \in Widths
      BY <1>1, <1>3, <3>1, ElementOfSeq
    <3>3. Take(b, w) = after[k] /\ Take(b, w) \in Readers
      <4> HIDE DEF b, w
      <4>1. Take(b, w) \in Readers
        BY <3>2, TakeTyped
      <4> QED
        BY <1>3, <4>1 DEF b, w
    <3>4. b.ok /\ Len(after[k].rest) <= Len(b.rest) - Least(w)
      <4> HIDE DEF b, w
      <4>1. Take(b, w).ok => b.ok /\ Len(Take(b, w).rest) <= Len(b.rest) - Least(w)
        BY <3>2, TakeTyped
      <4> QED
        BY <2>1, <3>3, <4>1
    <3>5. r.ok /\ Len(b.rest) <= Len(r.rest) - taken(k - 1)
      BY <2>1, <3>4
    <3>6. Least(w) = IF k = 1 THEN 4 ELSE 2
      <4>1. k = 1 \/ k \in 2 .. length
        BY <3>1
      <4>2. w = IF k = 1 THEN 4 ELSE 2
        BY <1>1, <3>1, <4>1
      <4> HIDE DEF w
      <4> QED
        BY <4>2 DEF Least, Text
    <3>7. Len(after[k].rest) \in Nat /\ Len(b.rest) \in Nat /\ Len(r.rest) \in Nat
      BY <3>2, <3>3, LenProperties DEF Readers, Cells
    <3> DEFINE x == Len(after[k].rest)
               y == Len(b.rest)
               z == Len(r.rest)
               l == Least(w)
    <3>8. x \in Nat /\ y \in Nat /\ z \in Nat /\ l = (IF k = 1 THEN 4 ELSE 2)
          /\ x <= y - l /\ y <= z - taken(k - 1)
      BY <3>4, <3>5, <3>6, <3>7
    <3> HIDE DEF x, y, z, l
    <3>9. x <= z - taken(k)
      BY <3>1, <3>8
    <3> QED
      BY <3>5, <3>9 DEF x, z
  <2>2. \A k \in 1 .. length : k \in 0 .. length
    BY <1>1
  <2> HIDE DEF taken
  <2> QED
    BY <2>1, <2>2
<1>6. length \in T /\ length \in 0 .. length
  <2> HIDE DEF T, length
  <2>1. \A k \in 0 .. length : k \in T
    BY <1>1, <1>4, <1>5, InductiveUpTo
  <2> QED
    BY <1>1, <2>1
<1>7. taken(length) = 4 + 2 * n
  OBVIOUS
<1>8. TakeAll(r, format) \in Readers
  BY <1>3, <1>6
<1> QED
  BY <1>3, <1>6, <1>7, <1>8 DEF format

\* The keys of the map are all gone through.
LEMMA AscendingReaches ==
    ASSUME NEW set \in SUBSET Documents
    PROVE  {Ascending(set)[k] : k \in 1 .. Cardinality(set)} = set
           /\ Len(Ascending(set)) = Cardinality(set)
<1> DEFINE n == Cardinality(set)
           count(d) == Cardinality({e \in set : e < d})
           chosen(k) == CHOOSE d \in set : count(d) = k - 1
<1>1. set \in SUBSET Int /\ IsFiniteSet(set) /\ set \subseteq Nat
  <2>1. IsFiniteSet(Documents) /\ Documents \subseteq Nat
    BY CommandsAssumption
  <2>2. IsFiniteSet(set)
    BY <2>1, FS_Subset
  <2> QED
    BY <2>1, <2>2
<1>2. n \in Nat
  BY <1>1, FS_CardinalityType
<1>3. /\ \A d \in set : count(d) \in 0 .. n - 1
      /\ \A d, e \in set : d < e => count(d) < count(e)
      /\ \A c \in 0 .. n - 1 : \E d \in set : count(d) = c
  BY <1>1, CountedBelow
<1>4. Ascending(set) = [k \in 1 .. n |-> chosen(k)]
  BY DEF Ascending
<1> HIDE DEF count, n
<1>5. ASSUME NEW k \in 1 .. n
      PROVE  chosen(k) \in set
  <2>1. k - 1 \in 0 .. n - 1
    BY <1>2
  <2>2. \E d \in set : count(d) = k - 1
    BY <1>3, <2>1
  <2> QED
    BY <2>2
<1>6. ASSUME NEW d \in set
      PROVE  count(d) + 1 \in 1 .. n /\ chosen(count(d) + 1) = d
  <2>1. count(d) \in 0 .. n - 1
    BY <1>3
  <2>2. count(d) + 1 \in 1 .. n /\ count(d) + 1 - 1 = count(d)
    BY <1>2, <2>1
  <2> DEFINE c == count(d) + 1
             e == chosen(c)
  <2>3. e \in set /\ count(e) = count(d)
    <3>1. c - 1 = count(d)
      BY <2>1, <1>2
    <3> HIDE DEF c
    <3>2. e \in set /\ count(e) = c - 1
      BY <3>1
    <3> QED
      BY <3>1, <3>2
  <2>4. chosen(count(d) + 1) = e
    OBVIOUS
  <2> HIDE DEF e, chosen
  <2>5. d \in Nat /\ e \in Nat
    BY <1>1, <2>3
  <2>6. ~(d < e) /\ ~(e < d)
    <3>1. d < e => count(d) < count(e)
      BY <1>3, <2>3
    <3>2. e < d => count(e) < count(d)
      BY <1>3, <2>3
    <3>3. count(d) \in Int
      BY <2>1
    <3> QED
      BY <2>3, <3>1, <3>2, <3>3
  <2>7. d = e
    BY <2>5, <2>6
  <2> QED
    BY <2>2, <2>4, <2>7
<1> HIDE DEF chosen
<1>7. {chosen(k) : k \in 1 .. n} = set
  BY <1>5, <1>6
<1>8. /\ {Ascending(set)[k] : k \in 1 .. n} = {chosen(k) : k \in 1 .. n}
      /\ Len(Ascending(set)) = n
  BY <1>2, <1>4
<1> QED
  BY <1>7, <1>8 DEF n

-----------------------------------------------------------------------------
(* The update is read *)

\* The updates of which a request is built.
Sent ==
    /\ ValuesTyped /\ attributes \in Seq(Names) /\ Len(attributes) <= MaxAttributes
    /\ \A d \in DOMAIN values : Len(values[d]) \in {0, Len(attributes)}
    /\ Convertible

LEMMA SentParts ==
    ASSUME Sent
    PROVE  /\ Len(attributes) \in Nat /\ Len(attributes) < WordLimit
           /\ Cardinality(DOMAIN values) \in Nat /\ Cardinality(DOMAIN values) < WordLimit
           /\ Index \in Cells /\ 2 * Len(Index) < WordLimit
           /\ \A k \in 1 .. Len(attributes) :
                attributes[k] \in Cells /\ 2 * Len(attributes[k]) < WordLimit
           /\ \A d \in DOMAIN values :
                /\ d \in Nat /\ d \div WordLimit < WordLimit
                /\ \A k \in 1 .. Len(values[d]) :
                     values[d][k].number \in Nat /\ values[d][k].number < WordLimit
<1>1. /\ ValuesTyped /\ attributes \in Seq(Names) /\ Len(attributes) \in Nat
      /\ Len(attributes) < WordLimit
  <2>1. WordLimit \in Nat
    BY BufferAssumption DEF WordLimit
  <2>2. attributes \in Seq(Names) /\ Len(attributes) <= MaxAttributes /\ Len(attributes) \in Nat
    BY LenProperties DEF Sent
  <2> QED
    BY <2>1, <2>2, CommandsAssumption DEF Sent
<1>2. /\ DOMAIN values \subseteq Documents
      /\ \A d \in DOMAIN values : values[d] \in Seq(Values)
  BY <1>1 DEF ValuesTyped
<1>3. Cardinality(DOMAIN values) \in Nat /\ Cardinality(DOMAIN values) < WordLimit
  <2>1. WordLimit \in Nat /\ IsFiniteSet(Documents) /\ Cardinality(Documents) < WordLimit
    BY BufferAssumption, CommandsAssumption DEF WordLimit
  <2>2. /\ Cardinality(DOMAIN values) \in Nat /\ Cardinality(Documents) \in Nat
        /\ Cardinality(DOMAIN values) <= Cardinality(Documents)
    BY <1>2, <2>1, FS_Subset, FS_CardinalityType
  <2> QED
    BY <2>1, <2>2
<1>4. Index \in Cells /\ 2 * Len(Index) < WordLimit
  BY CommandsAssumption DEF Cells
<1>5. ASSUME NEW k \in 1 .. Len(attributes)
      PROVE  attributes[k] \in Cells /\ 2 * Len(attributes[k]) < WordLimit
  <2>1. attributes[k] \in Names
    BY <1>1, ElementOfSeq
  <2> QED
    BY <2>1, CommandsAssumption DEF Cells
<1>6. ASSUME NEW d \in DOMAIN values
      PROVE  /\ d \in Nat /\ d \div WordLimit < WordLimit
             /\ \A k \in 1 .. Len(values[d]) :
                  values[d][k].number \in Nat /\ values[d][k].number < WordLimit
  <2>1. d \in Nat /\ d \div WordLimit < WordLimit
    BY <1>2, CommandsAssumption
  <2>2. ASSUME NEW k \in 1 .. Len(values[d])
        PROVE  values[d][k].number \in Nat /\ values[d][k].number < WordLimit
    <3>1. values[d][k] \in Values /\ k \in DOMAIN values[d]
      BY <1>2, ElementOfSeq, LenProperties
    <3>2. values[d][k].type = "uint32"
      BY <3>1 DEF Sent, Convertible
    <3> QED
      BY <3>1, <3>2, CommandsAssumption
  <2> QED
    BY <2>1, <2>2
<1> QED
  BY <1>1, <1>3, <1>4, <1>5, <1>6

\* The rows, what stands in front of them, and all behind the index.
RowsCells == FlattenSeq(Rows(Ascending(DOMAIN values)))
CountedRows == CellsOf(Cardinality(DOMAIN values), 2) \o RowsCells
NamesAndRows == FlattenSeq(NameCells(attributes)) \o CountedRows

LEMMA UpdateTyped ==
    ASSUME Sent
    PROVE  /\ RowsCells \in Cells /\ CountedRows \in Cells /\ NamesAndRows \in Cells
           /\ CellsOf(Len(attributes), 2) \o NamesAndRows \in Cells
           /\ UpdateCells \in Cells
           /\ UpdateCells = EncodeText(Index) \o (CellsOf(Len(attributes), 2) \o NamesAndRows)
<1>1. /\ EncodeText(Index) \in Cells
      /\ CellsOf(Len(attributes), 2) \in Cells
      /\ FlattenSeq(NameCells(attributes)) \in Cells
      /\ CellsOf(Cardinality(DOMAIN values), 2) \in Cells
      /\ RowsCells \in Cells
  BY PartsTyped DEF Sent, RowsCells
<1>2. CountedRows \in Cells
  BY <1>1, JoinTyped DEF CountedRows
<1>3. NamesAndRows \in Cells
  BY <1>1, <1>2, JoinTyped DEF NamesAndRows
<1> DEFINE behind == CellsOf(Len(attributes), 2) \o NamesAndRows
<1>4. behind \in Cells
  BY <1>1, <1>3, JoinTyped
<1>5. UpdateCells = EncodeText(Index) \o behind
  BY DEF UpdateCells, NamesAndRows, CountedRows, RowsCells
<1> HIDE DEF behind
<1>6. UpdateCells \in Cells
  BY <1>1, <1>4, <1>5, JoinTyped
<1> QED
  BY <1>1, <1>2, <1>3, <1>4, <1>5, <1>6 DEF behind

\* At first the index and the number of names.
UpdateHead == TakeAll(Reading(UpdateCells), <<Text, 2>>)

LEMMA ReadsHead ==
    ASSUME Sent
    PROVE  /\ UpdateHead \in Readers /\ UpdateHead.ok /\ UpdateHead.rest = NamesAndRows
           /\ Got(UpdateHead, 1) = Index /\ Count(UpdateHead, 2) = Len(attributes)
<1> DEFINE r == Reading(UpdateCells)
           format == <<Text, 2>>
           items == <<Index, Len(attributes)>>
           second == CellsOf(Len(attributes), 2) \o NamesAndRows
           left == [k \in 0 .. 2 |-> IF k = 0 THEN UpdateCells ELSE IF k = 1 THEN second ELSE NamesAndRows]
<1>1. /\ UpdateCells \in Cells /\ second \in Cells /\ NamesAndRows \in Cells
      /\ UpdateCells = EncodeText(Index) \o second
  BY UpdateTyped
<1>2. r \in Readers /\ r.ok /\ r.got = <<>> /\ r.rest = UpdateCells
  BY <1>1 DEF Reading, Readers
<1>3. format \in Seq(Widths) /\ Len(format) = 2 /\ format[1] = Text /\ format[2] = 2
  BY DEF Widths, Text
<1>4. /\ Sendable(Text, Index) /\ Encoded(Text, Index) = EncodeText(Index)
      /\ Decoded(Text, Index) = Index
  BY SentParts, TextBack
<1>5. /\ Sendable(2, Len(attributes)) /\ Encoded(2, Len(attributes)) = CellsOf(Len(attributes), 2)
      /\ Decoded(2, Len(attributes)) = Len(attributes)
  BY SentParts, WordBack
<1>6. items[1] = Index /\ items[2] = Len(attributes)
  OBVIOUS
<1>7. left \in [0 .. 2 -> Cells] /\ left[0] = UpdateCells /\ left[1] = second /\ left[2] = NamesAndRows
  BY <1>1
<1>8. \A k \in 1 .. 2 : k = 1 \/ k = 2
  OBVIOUS
<1>9. /\ \A k \in 1 .. 2 : Sendable(format[k], items[k])
      /\ \A k \in 1 .. 2 : left[k - 1] = Encoded(format[k], items[k]) \o left[k]
  <2>1. 1 - 1 = 0 /\ 2 - 1 = 1
    OBVIOUS
  <2>2. /\ Sendable(format[1], items[1]) /\ Sendable(format[2], items[2])
        /\ left[1 - 1] = Encoded(format[1], items[1]) \o left[1]
        /\ left[2 - 1] = Encoded(format[2], items[2]) \o left[2]
    <3> HIDE DEF format, items, left
    <3> QED
      BY <1>1, <1>3, <1>4, <1>5, <1>6, <1>7, <2>1 DEF second
  <2> HIDE DEF format, items, left, second
  <2> QED
    BY <1>8, <2>2
<1> HIDE DEF r, format, items, left, second
<1> DEFINE h == TakeAll(r, format)
<1>10. /\ h \in Readers /\ h.ok /\ h.rest = left[2]
       /\ \A k \in 1 .. 2 : h.got[k] = Decoded(format[k], items[k])
  <2>1. IsWritten(r, format, items, left)
    BY <1>2, <1>3, <1>7, <1>9 DEF IsWritten
  <2>2. IsReadBack(h, format, items, left)
    BY <2>1, TakesBack
  <2> HIDE DEF h
  <2> QED
    BY <1>3, <2>2 DEF IsReadBack
<1>11. UpdateHead = h
  BY DEF UpdateHead, r, format
<1> HIDE DEF h
<1>12. h.got[1] = Index /\ h.got[2] = Len(attributes)
  <2>1. 1 \in 1 .. 2 /\ 2 \in 1 .. 2
    OBVIOUS
  <2> QED
    BY <1>3, <1>4, <1>5, <1>6, <1>10, <2>1
<1>13. Len(attributes) <= Len(NamesAndRows)
  <2> DEFINE parts == NameCells(attributes)
  <2>1. attributes \in Seq(Cells) /\ CountedRows \in Cells /\ Len(attributes) \in Nat
        /\ FlattenSeq(parts) \in Cells
    BY PartsTyped, UpdateTyped DEF Sent
  <2>2. parts \in Seq(Cells) /\ Len(parts) = Len(attributes)
    BY <2>1, NameCellsTyped
  <2>3. ASSUME NEW k \in 1 .. Len(attributes)
        PROVE  Len(parts[k]) >= 1
    <3> DEFINE text == attributes[k]
    <3>1. text \in Cells /\ parts[k] = EncodeText(text)
      BY <2>1, ElementOfSeq DEF NameCells
    <3> HIDE DEF text, parts
    <3>2. 2 * Len(text) \in Nat /\ Len(text) \in Nat
      BY <3>1, LenProperties DEF Cells
    <3>3. CellsOf(2 * Len(text), 2) \in Cells /\ Len(CellsOf(2 * Len(text), 2)) = 2
      BY <3>2, CellsOfTyped
    <3> DEFINE size == CellsOf(2 * Len(text), 2)
    <3>4. Len(EncodeText(text)) = 2 + Len(text)
      <4>1. size \in Cells /\ Len(size) = 2
        BY <3>3
      <4> HIDE DEF size
      <4>2. Len(size \o text) = Len(size) + Len(text)
        BY <3>1, <4>1, JoinTyped
      <4> QED
        BY <4>1, <4>2 DEF EncodeText, size
    <3> QED
      BY <3>1, <3>2, <3>4
  <2> HIDE DEF parts
  <2>4. Len(FlattenSeq(parts)) >= Len(attributes)
    BY <2>2, <2>3, OneEach
  <2> DEFINE whole == FlattenSeq(parts)
  <2>5. Len(whole \o CountedRows) = Len(whole) + Len(CountedRows)
        /\ Len(whole) \in Nat /\ Len(CountedRows) \in Nat
    <3> HIDE DEF whole
    <3> QED
      BY <2>1, JoinTyped DEF whole
  <2>6. Len(whole \o CountedRows) = Len(NamesAndRows)
    BY DEF NamesAndRows, parts
  <2> HIDE DEF whole
  <2> QED
    BY <2>1, <2>4, <2>5, <2>6 DEF whole
<1>14. Got(h, 1) = Index /\ Count(h, 2) = Len(attributes)
  BY <1>7, <1>10, <1>12, <1>13 DEF Got, Count
<1> QED
  BY <1>7, <1>10, <1>11, <1>14

\* Then the names, and the number of rows behind them.
NamesFormat(n) == [k \in 1 .. n + 1 |-> IF k <= n THEN Text ELSE 2]
UpdateNames == TakeAll(Behind(UpdateHead), NamesFormat(Len(attributes)))

\* A row is at least one cell long.
LEMMA RowsLong ==
    ASSUME Sent
    PROVE  Cardinality(DOMAIN values) <= Len(RowsCells) /\ Len(RowsCells) \in Nat
<1> DEFINE keys == Ascending(DOMAIN values)
           rows == Rows(keys)
           n == Cardinality(DOMAIN values)
<1>1. ValuesTyped /\ keys \in Seq(DOMAIN values) /\ Len(keys) = n
  BY PartsTyped, AscendingReaches DEF Sent, ValuesTyped
<1>2. rows \in Seq(Cells) /\ Len(rows) = n
  BY <1>1, RowsTyped
<1>3. ASSUME NEW k \in 1 .. n
      PROVE  Len(rows[k]) >= 1
  <2> DEFINE d == keys[k]
             a == CellsOf(d, 4)
             b == FlattenSeq(ValueCells(values[d]))
  <2>1. d \in DOMAIN values /\ rows[k] = RowCells(d)
    BY <1>1, ElementOfSeq DEF Rows
  <2> HIDE DEF d, rows, keys
  <2>2. a \in Cells /\ Len(a) = 4 /\ b \in Cells
    BY <1>1, <2>1, RowCellsTyped
  <2>3. RowCells(d) = a \o b
    BY DEF RowCells
  <2> HIDE DEF a, b
  <2>4. Len(a \o b) = Len(a) + Len(b) /\ Len(b) \in Nat
    BY <2>2, JoinTyped
  <2> QED
    BY <2>1, <2>2, <2>3, <2>4
<1> HIDE DEF rows
<1>4. Len(FlattenSeq(rows)) >= n
  BY <1>2, <1>3, OneEach
<1>5. RowsCells = FlattenSeq(rows) /\ RowsCells \in Cells
  BY UpdateTyped DEF RowsCells, rows
<1>6. Len(RowsCells) \in Nat /\ n \in Nat
  BY <1>5, SentParts, LenProperties DEF Cells
<1> QED
  BY <1>4, <1>5, <1>6

LEMMA ReadsNames ==
    ASSUME Sent
    PROVE  /\ UpdateNames \in Readers /\ UpdateNames.ok /\ UpdateNames.rest = RowsCells
           /\ \A k \in 1 .. Len(attributes) : Got(UpdateNames, k) = attributes[k]
           /\ Count(UpdateNames, Len(attributes) + 1) = Cardinality(DOMAIN values)
<1> DEFINE n == Len(attributes)
           m == Cardinality(DOMAIN values)
           r == Behind(UpdateHead)
           format == NamesFormat(n)
           items == [k \in 1 .. n + 1 |-> IF k <= n THEN attributes[k] ELSE m]
           on == Onward(NameCells(attributes), CountedRows)
           left == [k \in 0 .. n + 1 |-> IF k <= n THEN on[k] ELSE RowsCells]
           names == TakeAll(r, format)
<1>1. /\ n \in Nat /\ m \in Nat /\ m < WordLimit
      /\ \A k \in 1 .. n : attributes[k] \in Cells /\ 2 * Len(attributes[k]) < WordLimit
  BY SentParts
<1>2. CountedRows \in Cells /\ RowsCells \in Cells /\ CountedRows = CellsOf(m, 2) \o RowsCells
  BY UpdateTyped DEF CountedRows
<1>3. /\ on \in [0 .. n -> Cells] /\ on[0] = NamesAndRows /\ on[n] = CountedRows
      /\ \A k \in 1 .. n : on[k - 1] = EncodeText(attributes[k]) \o on[k]
  <2> DEFINE parts == NameCells(attributes)
  <2>1. parts \in Seq(Cells) /\ Len(parts) = n
    BY PartsTyped, NameCellsTyped DEF Sent
  <2>2. \A k \in 1 .. n : parts[k] = EncodeText(attributes[k])
    BY DEF NameCells
  <2>3. NamesAndRows = FlattenSeq(parts) \o CountedRows
    BY DEF NamesAndRows
  <2> HIDE DEF parts, n
  <2>4. /\ Onward(parts, CountedRows) \in [0 .. Len(parts) -> Cells]
        /\ Onward(parts, CountedRows)[0] = FlattenSeq(parts) \o CountedRows
        /\ Onward(parts, CountedRows)[Len(parts)] = CountedRows
        /\ \A k \in 1 .. Len(parts) :
             Onward(parts, CountedRows)[k - 1] = parts[k] \o Onward(parts, CountedRows)[k]
    BY <1>2, <2>1, OnwardIs
  <2> QED
    BY <2>1, <2>2, <2>3, <2>4 DEF parts
<1>4. r \in Readers /\ r.ok /\ r.got = <<>> /\ r.rest = NamesAndRows
  BY ReadsHead, BehindTyped
<1>5. /\ format \in Seq(Widths) /\ Len(format) = n + 1
      /\ \A k \in 1 .. n : format[k] = Text
      /\ format[n + 1] = 2
  BY <1>1 DEF NamesFormat, Widths, Text
<1>6. /\ \A k \in 1 .. n : items[k] = attributes[k]
      /\ items[n + 1] = m
  BY <1>1
<1> HIDE DEF n, m, on
<1>7. /\ left \in [0 .. n + 1 -> Cells]
      /\ \A k \in 0 .. n : left[k] = on[k]
      /\ left[n + 1] = RowsCells
  BY <1>1, <1>2, <1>3
<1> HIDE DEF r, format, items, left
<1>8. ASSUME NEW k \in 1 .. n + 1
      PROVE  /\ Sendable(format[k], items[k])
             /\ left[k - 1] = Encoded(format[k], items[k]) \o left[k]
             /\ Decoded(format[k], items[k]) = items[k]
  <2>1. CASE k \in 1 .. n
    <3> DEFINE text == attributes[k]
    <3>1. text \in Cells /\ 2 * Len(text) < WordLimit
      BY <1>1, <2>1
    <3>2. format[k] = Text /\ items[k] = text
      BY <1>5, <1>6, <2>1
    <3>3. k - 1 \in 0 .. n /\ k \in 0 .. n
      BY <1>1, <2>1
    <3>4. left[k - 1] = EncodeText(text) \o left[k]
      BY <1>3, <1>7, <2>1, <3>3
    <3> HIDE DEF text
    <3>5. /\ Sendable(Text, text) /\ Encoded(Text, text) = EncodeText(text)
          /\ Decoded(Text, text) = text
      BY <3>1, TextBack
    <3> QED
      BY <3>2, <3>4, <3>5
  <2>2. CASE k = n + 1
    <3>1. format[k] = 2 /\ items[k] = m
      BY <1>5, <1>6, <2>2
    <3>2. k - 1 = n /\ n \in 0 .. n
      BY <1>1, <2>2
    <3>3. left[k - 1] = CellsOf(m, 2) \o left[k]
      BY <1>2, <1>3, <1>7, <2>2, <3>2
    <3>4. Sendable(2, m) /\ Encoded(2, m) = CellsOf(m, 2) /\ Decoded(2, m) = m
      BY <1>1, WordBack
    <3> QED
      BY <3>1, <3>3, <3>4
  <2>3. k \in 1 .. n \/ k = n + 1
    BY <1>1
  <2> QED
    BY <2>1, <2>2, <2>3
<1>9. IsReadBack(names, format, items, left)
  <2>1. 0 \in 0 .. n /\ left[0] = NamesAndRows
    BY <1>1, <1>3, <1>7
  <2>2. IsWritten(r, format, items, left)
    BY <1>4, <1>5, <1>7, <1>8, <2>1 DEF IsWritten
  <2> QED
    BY <2>2, TakesBack
<1>10. UpdateNames = names
  BY DEF UpdateNames, r, format, n
<1> HIDE DEF names
<1>11. /\ names \in Readers /\ names.ok /\ names.rest = RowsCells
       /\ \A k \in 1 .. n + 1 : names.got[k] = items[k]
  BY <1>5, <1>7, <1>8, <1>9 DEF IsReadBack
<1>12. /\ \A k \in 1 .. n : Got(names, k) = attributes[k]
       /\ Got(names, n + 1) = m
  <2>1. \A k \in 1 .. n + 1 : Got(names, k) = items[k]
    BY <1>11 DEF Got
  <2>2. n + 1 \in 1 .. n + 1 /\ \A k \in 1 .. n : k \in 1 .. n + 1
    BY <1>1
  <2> QED
    BY <1>6, <2>1, <2>2
<1>13. Count(names, n + 1) = m
  <2>1. m <= Len(RowsCells)
    BY RowsLong DEF m
  <2> QED
    BY <1>11, <1>12, <2>1 DEF Count
<1> QED
  BY <1>10, <1>11, <1>12, <1>13 DEF n, m

\* A row of as many values as there are names is read back.
IsRow(t, d, tail) ==
    /\ t \in Readers /\ t.ok /\ t.rest = tail
    /\ Got(t, 1) = d
    /\ \A k \in 1 .. Len(attributes) : Got(t, k + 1) = values[d][k].number

LEMMA ReadsRow ==
    ASSUME Sent, NEW d \in DOMAIN values, Len(values[d]) = Len(attributes),
           NEW r \in Readers, r.ok, r.got = <<>>, NEW tail \in Cells, r.rest = RowCells(d) \o tail
    PROVE  IsRow(TakeAll(r, RowFormat(Len(attributes))), d, tail)
<1> DEFINE n == Len(attributes)
           v == values[d]
           parts == ValueCells(v)
           format == RowFormat(n)
           items == [k \in 1 .. n + 1 |-> IF k = 1 THEN d ELSE v[k - 1].number]
           on == Onward(parts, tail)
           left == [k \in 0 .. n + 1 |-> IF k = 0 THEN r.rest ELSE on[k - 1]]
           row == TakeAll(r, format)
<1>1. /\ n \in Nat /\ d \in Nat /\ d \div WordLimit < WordLimit
      /\ \A k \in 1 .. n : v[k].number \in Nat /\ v[k].number < WordLimit
  BY SentParts
<1>2. parts \in Seq(Cells) /\ Len(parts) = n /\ \A k \in 1 .. n : parts[k] = CellsOf(v[k].number, 2)
  <2>1. v \in Seq(Values) /\ Len(v) = n
    BY DEF Sent, ValuesTyped
  <2> HIDE DEF v, n
  <2>2. parts \in Seq(Cells) /\ Len(parts) = Len(v)
    BY <2>1, ValueCellsTyped
  <2> QED
    BY <2>1, <2>2 DEF ValueCells
<1>3. /\ on \in [0 .. n -> Cells] /\ on[0] = FlattenSeq(parts) \o tail /\ on[n] = tail
      /\ \A k \in 1 .. n : on[k - 1] = CellsOf(v[k].number, 2) \o on[k]
  <2> HIDE DEF parts, n, v
  <2>1. /\ Onward(parts, tail) \in [0 .. Len(parts) -> Cells]
        /\ Onward(parts, tail)[0] = FlattenSeq(parts) \o tail
        /\ Onward(parts, tail)[Len(parts)] = tail
        /\ \A k \in 1 .. Len(parts) :
             Onward(parts, tail)[k - 1] = parts[k] \o Onward(parts, tail)[k]
    BY <1>2, OnwardIs
  <2> QED
    BY <1>2, <2>1
<1>4. r.rest \in Cells /\ r.rest = CellsOf(d, 4) \o on[0]
  <2> DEFINE a == CellsOf(d, 4)
             b == FlattenSeq(parts)
  <2>1. a \in Cells /\ b \in Cells
    BY RowCellsTyped DEF Sent
  <2>2. RowCells(d) = a \o b
    BY DEF RowCells
  <2> HIDE DEF a, b
  <2>3. (a \o b) \o tail = a \o (b \o tail)
    BY <2>1, Regrouped, Zenon
  <2>4. on[0] = b \o tail
    BY <1>3 DEF b
  <2>5. r.rest \in Cells
    BY DEF Readers
  <2> HIDE DEF on
  <2> QED
    BY <2>2, <2>3, <2>4, <2>5 DEF a
<1>5. /\ format \in Seq(Widths) /\ Len(format) = n + 1
      /\ format[1] = 4 /\ \A k \in 2 .. n + 1 : format[k] = 2
  BY <1>1, RowFormatTyped
<1>6. items[1] = d /\ \A k \in 2 .. n + 1 : items[k] = v[k - 1].number
  BY <1>1
<1> HIDE DEF n, v, on
<1>7. /\ left \in [0 .. n + 1 -> Cells]
      /\ left[0] = r.rest
      /\ \A k \in 1 .. n + 1 : left[k] = on[k - 1]
  BY <1>1, <1>3, <1>4
<1> HIDE DEF format, items, left, parts
<1>8. ASSUME NEW k \in 1 .. n + 1
      PROVE  /\ Sendable(format[k], items[k])
             /\ left[k - 1] = Encoded(format[k], items[k]) \o left[k]
             /\ Decoded(format[k], items[k]) = items[k]
  <2>1. CASE k = 1
    <3>1. format[k] = 4 /\ items[k] = d /\ k - 1 = 0
      BY <1>5, <1>6, <2>1
    <3>2. left[k - 1] = CellsOf(d, 4) \o left[k]
      BY <1>4, <1>7, <2>1, <3>1
    <3>3. Sendable(4, d) /\ Encoded(4, d) = CellsOf(d, 4) /\ Decoded(4, d) = d
      BY <1>1, LongBack
    <3> QED
      BY <3>1, <3>2, <3>3
  <2>2. CASE k \in 2 .. n + 1
    <3> DEFINE i == k - 1
               x == v[i].number
    <3>1. i \in 1 .. n /\ k - 1 \in 1 .. n + 1 /\ i - 1 = k - 1 - 1
      BY <1>1, <2>2
    <3>2. format[k] = 2 /\ items[k] = x
      BY <1>5, <1>6, <2>2
    <3>3. x \in Nat /\ x < WordLimit
      BY <1>1, <3>1
    <3>4. left[k - 1] = on[i - 1] /\ left[k] = on[i] /\ on[i - 1] = CellsOf(x, 2) \o on[i]
      BY <1>3, <1>7, <3>1
    <3> HIDE DEF x, i
    <3>5. Sendable(2, x) /\ Encoded(2, x) = CellsOf(x, 2) /\ Decoded(2, x) = x
      BY <3>3, WordBack
    <3> QED
      BY <3>2, <3>4, <3>5
  <2>3. k = 1 \/ k \in 2 .. n + 1
    BY <1>1
  <2> QED
    BY <2>1, <2>2, <2>3
<1>9. IsReadBack(row, format, items, left)
  <2>1. IsWritten(r, format, items, left)
    BY <1>5, <1>7, <1>8 DEF IsWritten
  <2> QED
    BY <2>1, TakesBack
<1> HIDE DEF row
<1>10. /\ row \in Readers /\ row.ok
       /\ \A k \in 1 .. n + 1 : Got(row, k) = items[k]
  BY <1>5, <1>8, <1>9 DEF IsReadBack, Got
<1>11. row.rest = tail
  <2> DEFINE k == n + 1
  <2>1. k \in 1 .. n + 1 /\ k - 1 = n
    BY <1>1
  <2> HIDE DEF k
  <2>2. left[k] = on[n]
    BY <1>7, <2>1
  <2>3. row.rest = left[n + 1]
    BY <1>5, <1>9 DEF IsReadBack
  <2> QED
    BY <1>3, <2>2, <2>3 DEF k
<1>12. Got(row, 1) = d
  <2>1. 1 \in 1 .. n + 1
    BY <1>1
  <2> QED
    BY <1>6, <1>10, <2>1
<1>13. \A k \in 1 .. n : Got(row, k + 1) = v[k].number
  <2>1. ASSUME NEW k \in 1 .. n
        PROVE  Got(row, k + 1) = v[k].number
    <3>1. k + 1 \in 2 .. n + 1 /\ k + 1 \in 1 .. n + 1 /\ k + 1 - 1 = k
      BY <1>1
    <3> QED
      BY <1>6, <1>10, <3>1
  <2> QED
    BY <2>1
<1> QED
  BY <1>10, <1>11, <1>12, <1>13 DEF IsRow, row, format, n, v

\* One row after another.
IsReadingRows(rows, first, m, n) ==
    /\ rows \in [0 .. m -> Readers] /\ rows[0] = first
    /\ \A j \in 1 .. m : rows[j] = TakeAll(Behind(rows[j - 1]), RowFormat(n))

LEMMA RowsExist ==
    ASSUME NEW first \in Readers, NEW m \in Nat, NEW n \in Nat
    PROVE  \E rows :
             rows = [j \in 0 .. m |->
                       IF j = 0 THEN first ELSE TakeAll(Behind(rows[j - 1]), RowFormat(n))]
<1> DEFINE row(b) == TakeAll(Behind(b), RowFormat(n))
           step == [j \in 1 .. m |-> [b \in Readers |-> row(b)]]
<1>1. \A b \in Readers : row(b) \in Readers
  <2>1. ASSUME NEW b \in Readers
        PROVE  TakeAll(Behind(b), RowFormat(n)) \in Readers
    BY BehindTyped, RowTakes
  <2> QED
    BY <2>1
<1> HIDE DEF row
<1>2. step \in [1 .. m -> [Readers -> Readers]]
  BY <1>1
<1>3. \E f : IsLoop(f, m, Readers, first, step)
  <2> HIDE DEF step
  <2> QED
    BY <1>2, LoopExists
<1>4. PICK f : f \in [0 .. m -> Readers] /\ f[0] = first /\ \A j \in 1 .. m : f[j] = step[j][f[j - 1]]
  <2> HIDE DEF step
  <2> QED
    BY <1>3 DEF IsLoop
<1>5. ASSUME NEW j \in 0 .. m
      PROVE  f[j] = IF j = 0 THEN first ELSE row(f[j - 1])
  <2>1. CASE j = 0
    BY <1>4, <2>1
  <2>2. CASE j # 0
    <3>1. j \in 1 .. m /\ j - 1 \in 0 .. m
      BY <2>2
    <3>2. f[j] = step[j][f[j - 1]] /\ f[j - 1] \in Readers
      BY <1>4, <3>1
    <3>3. step[j][f[j - 1]] = row(f[j - 1])
      BY <3>1, <3>2
    <3> HIDE DEF step
    <3> QED
      BY <2>2, <3>2, <3>3
  <2> QED
    BY <2>1, <2>2
<1>6. f = [j \in 0 .. m |-> f[j]]
  BY <1>4
<1>7. f = [j \in 0 .. m |-> IF j = 0 THEN first ELSE row(f[j - 1])]
  BY <1>5, <1>6
<1> QED
  BY <1>7 DEF row

LEMMA ReadingRows ==
    ASSUME NEW first \in Readers, NEW m \in Nat, NEW n \in Nat, NEW rows,
           rows = [j \in 0 .. m |->
                     IF j = 0 THEN first ELSE TakeAll(Behind(rows[j - 1]), RowFormat(n))]
    PROVE  IsReadingRows(rows, first, m, n)
<1> DEFINE row(b) == TakeAll(Behind(b), RowFormat(n))
<1>1. \A b \in Readers : row(b) \in Readers
  <2>1. ASSUME NEW b \in Readers
        PROVE  TakeAll(Behind(b), RowFormat(n)) \in Readers
    BY BehindTyped, RowTakes
  <2> QED
    BY <2>1
<1>2. rows = [j \in 0 .. m |-> IF j = 0 THEN first ELSE row(rows[j - 1])]
  OBVIOUS
<1> HIDE DEF row
<1>3. rows[0] = first /\ \A j \in 1 .. m : rows[j] = row(rows[j - 1])
  <2>1. 0 \in 0 .. m /\ \A j \in 1 .. m : j \in 0 .. m /\ j # 0
    OBVIOUS
  <2>2. \A j \in 0 .. m : rows[j] = IF j = 0 THEN first ELSE row(rows[j - 1])
    BY <1>2
  <2> QED
    BY <2>1, <2>2
<1>4. \A j \in 0 .. m : rows[j] \in Readers
  <2>1. ASSUME NEW j \in 1 .. m, rows[j - 1] \in Readers
        PROVE  rows[j] \in Readers
    BY <1>1, <1>3, <2>1
  <2> QED
    BY <1>3, <2>1, LoopPreserves
<1>5. rows \in [0 .. m -> Readers]
  BY <1>2, <1>4
<1> QED
  BY <1>3, <1>5 DEF IsReadingRows, row

LEMMA RowLength ==
    ASSUME Sent, NEW d \in DOMAIN values
    PROVE  RowCells(d) \in Cells /\ Len(RowCells(d)) = 4 + 2 * Len(values[d])
<1> DEFINE parts == ValueCells(values[d])
           a == CellsOf(d, 4)
           b == FlattenSeq(parts)
<1>1. values[d] \in Seq(Values) /\ ValuesTyped
  BY DEF Sent, ValuesTyped
<1>2. parts \in Seq(Cells) /\ Len(parts) = Len(values[d])
  BY <1>1, ValueCellsTyped
<1>3. ASSUME NEW k \in 1 .. Len(values[d])
      PROVE  Len(parts[k]) = 2
  <2>1. values[d][k].number \in Nat /\ 2 \in Nat
    BY SentParts
  <2>2. parts[k] = CellsOf(values[d][k].number, 2)
    BY DEF ValueCells
  <2> HIDE DEF parts
  <2> QED
    BY <2>1, <2>2, CellsOfTyped
<1>4. a \in Cells /\ Len(a) = 4 /\ b \in Cells /\ RowCells(d) \in Cells
  BY <1>1, RowCellsTyped
<1>5. RowCells(d) = a \o b
  BY DEF RowCells
<1> HIDE DEF a, parts
<1>6. Len(b) = 2 * Len(values[d])
  BY <1>2, <1>3, TwoEach
<1> HIDE DEF b
<1>7. Len(a \o b) = Len(a) + Len(b)
  BY <1>4, JoinTyped
<1> QED
  BY <1>4, <1>5, <1>6, <1>7

\* A document without values leaves too few cells for the rows behind it.
LEMMA CompleteWhenRead ==
    ASSUME Sent, NEW rows,
           IsReadingRows(rows, UpdateNames, Cardinality(DOMAIN values), Len(attributes)),
           rows[Cardinality(DOMAIN values)].ok
    PROVE  \A d \in DOMAIN values : Len(values[d]) = Len(attributes)
<1> DEFINE m == Cardinality(DOMAIN values)
           n == Len(attributes)
           keys == Ascending(DOMAIN values)
           parts == Rows(keys)
           width == 4 + 2 * n
<1>1. m \in Nat /\ n \in Nat /\ width \in Nat
  BY SentParts
<1>2. ValuesTyped /\ keys \in Seq(DOMAIN values) /\ Len(keys) = m
      /\ {keys[j] : j \in 1 .. m} = DOMAIN values
  BY PartsTyped, AscendingReaches DEF Sent, ValuesTyped
<1>3. parts \in Seq(Cells) /\ Len(parts) = m /\ \A j \in 1 .. m : parts[j] = RowCells(keys[j])
  <2>1. parts \in Seq(Cells) /\ Len(parts) = Len(keys)
    <3> HIDE DEF keys
    <3> QED
      BY <1>2, RowsTyped
  <2> HIDE DEF keys, m
  <2> QED
    BY <1>2, <2>1 DEF Rows
<1>4. /\ rows \in [0 .. m -> Readers] /\ rows[0] = UpdateNames
      /\ \A j \in 1 .. m : rows[j] = TakeAll(Behind(rows[j - 1]), RowFormat(n))
      /\ rows[m].ok
  BY DEF IsReadingRows
<1>5. RowsCells = FlattenSeq(parts)
  BY DEF RowsCells
<1> SUFFICES ASSUME NEW d \in DOMAIN values, Len(values[d]) # n
             PROVE  FALSE
  OBVIOUS
<1> HIDE DEF m, keys, parts
<1>6. PICK left : /\ left \in [0 .. m -> Nat]
                  /\ left[0] = Len(RowsCells) /\ left[m] = 0
                  /\ \A j \in 1 .. m : left[j - 1] = Len(parts[j]) + left[j]
  BY <1>3, <1>5, OnwardLengths
<1>7. \A e \in DOMAIN values :
        /\ Len(RowCells(e)) \in Nat /\ Len(RowCells(e)) <= width
        /\ Len(values[e]) # n => Len(RowCells(e)) < width
  <2>1. ASSUME NEW e \in DOMAIN values
        PROVE  /\ Len(RowCells(e)) \in Nat /\ Len(RowCells(e)) <= width
               /\ Len(values[e]) # n => Len(RowCells(e)) < width
    <3>1. Len(RowCells(e)) = 4 + 2 * Len(values[e])
      BY RowLength
    <3>2. Len(values[e]) \in {0, n}
      BY DEF Sent
    <3> QED
      BY <1>1, <3>1, <3>2
  <2> QED
    BY <2>1
<1>8. PICK i \in 1 .. m : keys[i] = d
  BY <1>2
<1> DEFINE here(j) == Len(rows[j].rest)
           T == {j \in 0 .. m : rows[j].ok => here(j) <= left[j] /\ (j >= i => here(j) < left[j])}
<1>9. \A j \in 0 .. m : here(j) \in Nat
  BY <1>4, LenProperties DEF Readers, Cells
<1>10. 0 \in T
  <2>1. here(0) = left[0] /\ ~(0 >= i)
    BY <1>4, <1>6, <1>8, ReadsNames
  <2> QED
    BY <1>1, <1>6, <1>9, <2>1
<1>11. ASSUME NEW j \in 1 .. m, j - 1 \in T
       PROVE  j \in T
  <2>1. j - 1 \in 0 .. m /\ j \in 0 .. m /\ j \in Nat /\ i \in Nat
    BY <1>1, <1>8
  <2> SUFFICES ASSUME rows[j].ok
               PROVE  here(j) <= left[j] /\ (j >= i => here(j) < left[j])
    BY <2>1
  <2> DEFINE b == rows[j - 1]
             r == Behind(b)
  <2>2. b \in Readers /\ rows[j] = TakeAll(r, RowFormat(n))
    BY <1>4, <2>1
  <2>3. r \in Readers /\ r.ok = b.ok /\ r.rest = b.rest
    <3> HIDE DEF b
    <3> QED
      BY <2>2, BehindTyped
  <2>4. b.ok /\ here(j) <= Len(b.rest) - width
    <3> HIDE DEF r, b, n, width
    <3>1. TakeAll(r, RowFormat(n)).ok =>
            r.ok /\ Len(TakeAll(r, RowFormat(n)).rest) <= Len(r.rest) - (4 + 2 * n)
      BY <1>1, <2>3, RowTakes
    <3> QED
      BY <2>2, <2>3, <3>1 DEF width
  <2>5. here(j - 1) <= left[j - 1] /\ (j - 1 >= i => here(j - 1) < left[j - 1])
    BY <1>11, <2>4
  <2>6. left[j - 1] = Len(RowCells(keys[j])) + left[j] /\ keys[j] \in DOMAIN values
    BY <1>2, <1>3, <1>6
  <2>7. /\ Len(RowCells(keys[j])) \in Nat /\ Len(RowCells(keys[j])) <= width
        /\ j = i => Len(RowCells(keys[j])) < width
    BY <1>7, <1>8, <2>6
  <2> DEFINE x == here(j)
             y == here(j - 1)
             z == left[j]
             u == left[j - 1]
             l == Len(RowCells(keys[j]))
  <2>8. /\ x \in Nat /\ y \in Nat /\ z \in Nat /\ u \in Nat /\ l \in Nat
        /\ x <= y - width /\ y <= u /\ (j - 1 >= i => y < u) /\ u = l + z
        /\ l <= width /\ (j = i => l < width)
    BY <1>6, <1>9, <2>1, <2>4, <2>5, <2>6, <2>7
  <2> HIDE DEF x, y, z, u, l, width
  <2>9. x <= z /\ (j >= i => x < z)
    BY <1>1, <2>1, <2>8
  <2> QED
    BY <2>9 DEF x, z
<1>12. m \in T
  <2>1. \A j \in 1 .. m : j - 1 \in T => j \in T
    BY <1>11
  <2> HIDE DEF T
  <2>2. \A j \in 0 .. m : j \in T
    BY <1>1, <1>10, <2>1, InductiveUpTo
  <2> QED
    BY <1>1, <2>2
<1>13. here(m) < 0 /\ here(m) \in Nat
  <2>1. m >= i /\ m \in 0 .. m
    BY <1>1, <1>8
  <2> QED
    BY <1>4, <1>6, <1>9, <1>12, <2>1
<1> QED
  BY <1>13

\* When every document has its values the rows are those of the documents.
LEMMA RowsAre ==
    ASSUME Sent, \A d \in DOMAIN values : Len(values[d]) = Len(attributes), NEW rows,
           IsReadingRows(rows, UpdateNames, Cardinality(DOMAIN values), Len(attributes))
    PROVE  \A j \in 1 .. Cardinality(DOMAIN values) :
             /\ Got(rows[j], 1) = Ascending(DOMAIN values)[j]
             /\ \A k \in 1 .. Len(attributes) :
                  Got(rows[j], k + 1) = values[Ascending(DOMAIN values)[j]][k].number
<1> DEFINE m == Cardinality(DOMAIN values)
           n == Len(attributes)
           keys == Ascending(DOMAIN values)
           parts == Rows(keys)
           left == Onward(parts, <<>>)
<1>1. m \in Nat /\ n \in Nat
  BY SentParts
<1>2. ValuesTyped /\ keys \in Seq(DOMAIN values) /\ Len(keys) = m
  BY PartsTyped, AscendingReaches DEF Sent, ValuesTyped
<1>3. parts \in Seq(Cells) /\ Len(parts) = m /\ \A j \in 1 .. m : parts[j] = RowCells(keys[j])
  <2>1. parts \in Seq(Cells) /\ Len(parts) = Len(keys)
    <3> HIDE DEF keys
    <3> QED
      BY <1>2, RowsTyped
  <2> HIDE DEF keys, m
  <2> QED
    BY <1>2, <2>1 DEF Rows
<1>4. /\ rows \in [0 .. m -> Readers] /\ rows[0] = UpdateNames
      /\ \A j \in 1 .. m : rows[j] = TakeAll(Behind(rows[j - 1]), RowFormat(n))
  BY DEF IsReadingRows
<1>5. RowsCells = FlattenSeq(parts) /\ RowsCells \in Cells /\ <<>> \in Cells
  BY UpdateTyped DEF RowsCells, Cells
<1>6. \A d \in DOMAIN values : Len(values[d]) = n
  OBVIOUS
<1> HIDE DEF m, n, keys, parts
<1>7. /\ left \in [0 .. m -> Cells] /\ left[0] = RowsCells
      /\ \A j \in 1 .. m : left[j - 1] = RowCells(keys[j]) \o left[j]
  <2>1. /\ Onward(parts, <<>>) \in [0 .. Len(parts) -> Cells]
        /\ Onward(parts, <<>>)[0] = FlattenSeq(parts) \o <<>>
        /\ \A j \in 1 .. Len(parts) :
             Onward(parts, <<>>)[j - 1] = parts[j] \o Onward(parts, <<>>)[j]
    BY <1>3, <1>5, OnwardIs
  <2>2. RowsCells \o <<>> = RowsCells
    BY <1>5, ConcatEmptySeq DEF Cells
  <2> QED
    BY <1>3, <1>5, <2>1, <2>2
<1> HIDE DEF left
<1> DEFINE T == {j \in 0 .. m : rows[j].ok /\ rows[j].rest = left[j]}
<1>8. ASSUME NEW j \in 1 .. m, j - 1 \in T
      PROVE  IsRow(rows[j], keys[j], left[j])
  <2> DEFINE b == rows[j - 1]
             r == Behind(b)
             d == keys[j]
             tail == left[j]
  <2>1. j - 1 \in 0 .. m /\ j \in 0 .. m
    BY <1>1
  <2>2. /\ b \in Readers /\ rows[j] = TakeAll(r, RowFormat(n))
        /\ b.ok /\ b.rest = RowCells(d) \o tail
    BY <1>4, <1>7, <1>8, <2>1
  <2>3. d \in DOMAIN values /\ tail \in Cells
    BY <1>2, <1>7, <2>1, ElementOfSeq
  <2>4. r \in Readers /\ r.ok = b.ok /\ r.rest = b.rest /\ r.got = <<>>
    <3> HIDE DEF b
    <3> QED
      BY <2>2, BehindTyped
  <2>5. Len(values[d]) = Len(attributes)
    BY <1>6, <2>3 DEF n
  <2> HIDE DEF r, b, d, tail
  <2>6. r.ok /\ r.rest = RowCells(d) \o tail
    BY <2>2, <2>4
  <2>7. IsRow(TakeAll(r, RowFormat(Len(attributes))), d, tail)
    BY <2>3, <2>4, <2>5, <2>6, ReadsRow
  <2> QED
    BY <2>2, <2>7 DEF n, d, tail
<1>9. \A j \in 0 .. m : j \in T
  <2>1. 0 \in T
    BY <1>1, <1>4, <1>7, ReadsNames
  <2>2. \A j \in 1 .. m : j - 1 \in T => j \in T
    <3>1. \A j \in 1 .. m : j \in 0 .. m
      BY <1>1
    <3> QED
      BY <1>8, <3>1 DEF IsRow
  <2> HIDE DEF T
  <2> QED
    BY <1>1, <2>1, <2>2, InductiveUpTo
<1>10. ASSUME NEW j \in 1 .. m
       PROVE  /\ Got(rows[j], 1) = keys[j]
              /\ \A k \in 1 .. n : Got(rows[j], k + 1) = values[keys[j]][k].number
  <2>1. j - 1 \in T
    <3>1. j - 1 \in 0 .. m
      BY <1>1
    <3> HIDE DEF T
    <3> QED
      BY <1>9, <3>1
  <2>2. IsRow(rows[j], keys[j], left[j])
    BY <1>8, <2>1
  <2> QED
    BY <2>2 DEF IsRow, n
<1> QED
  BY <1>10 DEF m, n, keys

\* An update that searchd can read has the values of all its documents, each
\* at its document and attribute.
LEMMA UpdateRead ==
    ASSUME Sent, ReadUpdate(UpdateCells).ok
    PROVE  /\ \A d \in DOMAIN values : Len(values[d]) = Len(attributes)
           /\ ReadUpdate(UpdateCells).documents = DOMAIN values
           /\ ReadUpdate(UpdateCells).updates = Asked
<1> DEFINE head  == TakeAll(Reading(UpdateCells), <<Text, 2>>)
           n     == Count(head, 2)
           names == TakeAll(Behind(head), [k \in 1 .. n + 1 |-> IF k <= n THEN Text ELSE 2])
           m     == Count(names, n + 1)
           row   == [k \in 1 .. n + 1 |-> IF k = 1 THEN 4 ELSE 2]
           Row[j \in 0 .. m] == IF j = 0 THEN names ELSE TakeAll(Behind(Row[j - 1]), row)
           documents == {Got(Row[j], 1) : j \in 1 .. m}
           updates == {<<Got(head, 1), Got(Row[j], 1), Got(names, k), Got(Row[j], k + 1)>> :
                         j \in 1 .. m, k \in 1 .. n}
           keys == Ascending(DOMAIN values)
<1>1. /\ ReadUpdate(UpdateCells).ok = Row[m].ok
      /\ ReadUpdate(UpdateCells).documents = documents
      /\ ReadUpdate(UpdateCells).updates = updates
  BY DEF ReadUpdate
<1>2. head = UpdateHead
  BY DEF UpdateHead
<1> HIDE DEF head
<1>3. n = Len(attributes) /\ Got(head, 1) = Index
  BY <1>2, ReadsHead
<1> HIDE DEF n
<1>4. names = UpdateNames
  BY <1>2, <1>3 DEF UpdateNames, NamesFormat
<1> HIDE DEF names
<1>5. /\ names \in Readers /\ m = Cardinality(DOMAIN values)
      /\ \A k \in 1 .. n : Got(names, k) = attributes[k]
  BY <1>3, <1>4, ReadsNames
<1>6. n \in Nat /\ m \in Nat
  BY <1>3, <1>5, SentParts
<1> HIDE DEF m
<1>7. row = RowFormat(n)
  BY DEF RowFormat
<1> HIDE DEF row
<1>8. Row = [j \in 0 .. m |->
               IF j = 0 THEN names ELSE TakeAll(Behind(Row[j - 1]), row)]
  <2>1. \E rows : rows = [j \in 0 .. m |->
                            IF j = 0 THEN names ELSE TakeAll(Behind(rows[j - 1]), row)]
    BY <1>5, <1>6, <1>7, RowsExist
  <2> QED
    BY <2>1 DEF Row
<1> HIDE DEF Row
<1>9. IsReadingRows(Row, UpdateNames, Cardinality(DOMAIN values), Len(attributes))
  <2>1. IsReadingRows(Row, names, m, n)
    BY <1>5, <1>6, <1>7, <1>8, ReadingRows
  <2> QED
    BY <1>3, <1>4, <1>5, <2>1
<1>10. \A d \in DOMAIN values : Len(values[d]) = Len(attributes)
  <2>1. Row[Cardinality(DOMAIN values)].ok
    BY <1>1, <1>5
  <2> QED
    BY <1>9, <2>1, CompleteWhenRead
<1>11. \A j \in 1 .. m :
         /\ Got(Row[j], 1) = keys[j]
         /\ \A k \in 1 .. n : Got(Row[j], k + 1) = values[keys[j]][k].number
  BY <1>3, <1>5, <1>9, <1>10, RowsAre
<1>12. {keys[j] : j \in 1 .. m} = DOMAIN values
  BY <1>5, AscendingReaches DEF Sent, ValuesTyped
<1> HIDE DEF keys
<1>13. documents = DOMAIN values
  <2>1. documents = {keys[j] : j \in 1 .. m}
    BY <1>11
  <2> QED
    BY <1>12, <2>1
<1>14. updates = Asked
  <2>1. DOMAIN attributes = 1 .. n
    BY <1>3, LenProperties DEF Sent
  <2>2. ASSUME NEW j \in 1 .. m, NEW k \in 1 .. n
        PROVE  <<Got(head, 1), Got(Row[j], 1), Got(names, k), Got(Row[j], k + 1)>>
                 = <<Index, keys[j], attributes[k], values[keys[j]][k].number>>
    BY <1>3, <1>5, <1>11
  <2>3. ASSUME NEW u \in updates
        PROVE  u \in Asked
    <3>1. PICK j \in 1 .. m, k \in 1 .. n :
            u = <<Got(head, 1), Got(Row[j], 1), Got(names, k), Got(Row[j], k + 1)>>
      OBVIOUS
    <3>2. u = <<Index, keys[j], attributes[k], values[keys[j]][k].number>>
      BY <2>2, <3>1
    <3>3. keys[j] \in DOMAIN values
      BY <1>12
    <3> QED
      BY <2>1, <3>2, <3>3 DEF Asked
  <2>4. ASSUME NEW d \in DOMAIN values, NEW k \in 1 .. n
        PROVE  <<Index, d, attributes[k], values[d][k].number>> \in updates
    <3>1. PICK j \in 1 .. m : keys[j] = d
      BY <1>12
    <3>2. <<Got(head, 1), Got(Row[j], 1), Got(names, k), Got(Row[j], k + 1)>> \in updates
      OBVIOUS
    <3>3. <<Got(head, 1), Got(Row[j], 1), Got(names, k), Got(Row[j], k + 1)>>
            = <<Index, d, attributes[k], values[d][k].number>>
      BY <2>2, <3>1
    <3> QED
      BY <3>2, <3>3
  <2>5. \A u \in Asked : \E d \in DOMAIN values, k \in 1 .. n :
          u = <<Index, d, attributes[k], values[d][k].number>>
    BY <2>1 DEF Asked
  <2> HIDE DEF updates
  <2> QED
    BY <2>3, <2>4, <2>5
<1> QED
  BY <1>1, <1>10, <1>13, <1>14
-----------------------------------------------------------------------------
(* The request is read *)

RequestCells(number, version, body) ==
    CellsOf(number, 1) \o (CellsOf(version, 1) \o (CellsOf(2 * Len(body), 2) \o body))

LEMMA RequestBack ==
    ASSUME NEW number \in Nat, NEW version \in Nat, NEW body \in Cells,
           Content(request) = RequestCells(number, version, body)
    PROVE  /\ RequestHead.rest = body
           /\ RequestHead.got[1] = Number(CellsOf(number, 1))
<1> DEFINE size == 2 * Len(body)
           a == CellsOf(number, 1)
           b == CellsOf(version, 1)
           c == CellsOf(size, 2)
           third == c \o body
           second == b \o third
           first == a \o second
           r == Reading(Content(request))
           format == <<1, 1, 2>>
           items == <<number, version, size>>
           left == [k \in 0 .. 3 |-> IF k = 0 THEN first ELSE IF k = 1 THEN second
                                     ELSE IF k = 2 THEN third ELSE body]
<1>1. size \in Nat /\ 1 \in Nat /\ 2 \in Nat
  BY LenProperties DEF Cells
<1> HIDE DEF size
<1>2. a \in Cells /\ b \in Cells /\ c \in Cells
  BY <1>1, CellsOfTyped
<1> HIDE DEF a, b, c
<1>3. third \in Cells
  BY <1>2, JoinTyped
<1> HIDE DEF third
<1>4. second \in Cells
  BY <1>2, <1>3, JoinTyped
<1> HIDE DEF second
<1>5. first \in Cells
  BY <1>2, <1>4, JoinTyped
<1>6. Content(request) = first
  BY DEF RequestCells, first, second, third, a, b, c, size
<1>7. r \in Readers /\ r.ok /\ r.got = <<>> /\ r.rest = first
  BY <1>5, <1>6 DEF Reading, Readers
<1>8. /\ format \in Seq(Widths) /\ Len(format) = 3
      /\ format[1] = 1 /\ format[2] = 1 /\ format[3] = 2
  BY DEF Widths, Text
<1>9. items[1] = number /\ items[2] = version /\ items[3] = size
  OBVIOUS
<1>10. /\ left \in [0 .. 3 -> Cells]
       /\ left[0] = first /\ left[1] = second /\ left[2] = third /\ left[3] = body
  <2> HIDE DEF first
  <2> QED
    BY <1>3, <1>4, <1>5
<1> HIDE DEF r, format, items, left
<1>11. ASSUME NEW k \in 1 .. 3
       PROVE  /\ Sendable(format[k], items[k])
              /\ left[k - 1] = Encoded(format[k], items[k]) \o left[k]
  <2>1. k = 1 \/ k = 2 \/ k = 3
    OBVIOUS
  <2>2. 1 # Text /\ 2 # Text
    BY DEF Text
  <2>3. /\ Sendable(1, number) /\ Encoded(1, number) = a
        /\ Sendable(1, version) /\ Encoded(1, version) = b
        /\ Sendable(2, size) /\ Encoded(2, size) = c
    BY <1>1, <2>2 DEF Sendable, Encoded, a, b, c
  <2>4. 1 - 1 = 0 /\ 2 - 1 = 1 /\ 3 - 1 = 2
    OBVIOUS
  <2> QED
    BY <1>8, <1>9, <1>10, <2>1, <2>3, <2>4 DEF first, second, third
<1> DEFINE head == TakeAll(r, format)
<1>12. IsReadBack(head, format, items, left)
  <2>1. IsWritten(r, format, items, left)
    BY <1>7, <1>8, <1>10, <1>11 DEF IsWritten
  <2> QED
    BY <2>1, TakesBack
<1>13. RequestHead = head
  BY DEF RequestHead, r, format
<1> HIDE DEF head
<1>14. head.rest = body
  BY <1>8, <1>10, <1>12 DEF IsReadBack
<1>15. head.got[1] = Number(CellsOf(number, 1))
  <2>1. 1 \in 1 .. 3 /\ 1 # Text
    BY DEF Text
  <2>2. head.got[1] = Decoded(1, number)
    BY <1>8, <1>9, <1>12, <2>1 DEF IsReadBack
  <2> QED
    BY <2>1, <2>2 DEF Decoded
<1> QED
  BY <1>13, <1>14, <1>15

LEMMA CommandsDiffer ==
    /\ Number(CellsOf(SEARCHD_COMMAND_UPDATE, 1)) # SEARCHD_COMMAND_KEYWORDS
    /\ Number(CellsOf(SEARCHD_COMMAND_KEYWORDS, 1)) # SEARCHD_COMMAND_UPDATE
<1>1. /\ Number(CellsOf(2, 1)) = 2 % CellBase
      /\ Number(CellsOf(3, 1)) = 3 % CellBase
  BY OneCell
<1>2. CellBase \in Nat /\ CellBase >= 2
  BY BufferAssumption
<1>3. 2 % CellBase # 3
  <2>1. 2 \in Nat
    OBVIOUS
  <2>2. /\ 2 \div CellBase \in Nat /\ (2 % CellBase) \in Nat
        /\ 2 = (2 \div CellBase) * CellBase + (2 % CellBase)
    BY <2>1, Division
  <2> DEFINE q == 2 \div CellBase
             p == q * CellBase
  <2>3. p \in Nat
    BY <1>2, <2>2
  <2> HIDE DEF p
  <2> QED
    BY <2>2, <2>3 DEF p
<1>4. 3 % CellBase # 2
  <2>1. 3 \in Nat
    OBVIOUS
  <2>2. /\ 3 \div CellBase \in Nat /\ (3 % CellBase) \in Nat
        /\ 3 = (3 \div CellBase) * CellBase + (3 % CellBase)
        /\ 3 % CellBase < CellBase
    BY <2>1, Division
  <2> DEFINE q == 3 \div CellBase
  <2>3. q \in Nat
    BY <2>2
  <2> HIDE DEF q
  <2> SUFFICES ASSUME (3 % CellBase) = 2 PROVE FALSE
    OBVIOUS
  <2>4. q * CellBase = 1 /\ CellBase > 2
    <3> DEFINE p == q * CellBase
    <3>1. p \in Nat /\ 3 = p + 2
      BY <1>2, <2>2, <2>3 DEF q
    <3> HIDE DEF p
    <3>2. p = 1
      BY <3>1
    <3> QED
      BY <1>2, <2>2, <3>2 DEF p
  <2>5. q = 0 \/ q >= 1
    BY <2>3
  <2>6. q >= 1 => q * CellBase >= CellBase
    BY <1>2, <2>3
  <2> QED
    BY <1>2, <2>3, <2>4, <2>5, <2>6
<1> QED
  BY <1>1, <1>3, <1>4 DEF SEARCHD_COMMAND_UPDATE, SEARCHD_COMMAND_KEYWORDS

\* What is asked for is what searchd reads.
KeywordsAsked == TakeAll(Reading(RequestHead.rest), <<Text, Text, 2>>)

LEMMA KeywordsBack ==
    ASSUME NEW query \in Texts, NEW fetchStats \in BOOLEAN,
           RequestHead.rest = KeywordsCells(Index, query, fetchStats)
    PROVE  /\ KeywordsAsked.got[1] = query /\ KeywordsAsked.got[2] = Index
           /\ (KeywordsAsked.got[3] # 0) = fetchStats
<1> DEFINE flag == IF fetchStats THEN 1 ELSE 0
           a == EncodeText(query)
           b == EncodeText(Index)
           c == CellsOf(flag, 2)
           second == b \o c
           first == a \o second
           r == Reading(RequestHead.rest)
           format == <<Text, Text, 2>>
           items == <<query, Index, flag>>
           left == [k \in 0 .. 3 |-> IF k = 0 THEN first ELSE IF k = 1 THEN second
                                     ELSE IF k = 2 THEN c ELSE <<>>]
<1>1. /\ query \in Cells /\ Index \in Cells /\ flag \in Nat /\ 2 \in Nat
      /\ 2 * Len(query) < WordLimit /\ 2 * Len(Index) < WordLimit
      /\ (flag # 0) = fetchStats
  BY CommandsAssumption DEF Cells
<1>2. flag < WordLimit
  <2>1. CellBase \in Nat /\ CellBase >= 2
    BY BufferAssumption
  <2>2. CellBase * CellBase >= 2
    BY <2>1
  <2>3. flag <= 1
    OBVIOUS
  <2> QED
    BY <1>1, <2>1, <2>2, <2>3 DEF WordLimit
<1> HIDE DEF flag
<1>3. a \in Cells /\ b \in Cells /\ c \in Cells
  BY <1>1, EncodeTextTyped, CellsOfTyped
<1> HIDE DEF a, b, c
<1>4. second \in Cells
  BY <1>3, JoinTyped
<1> HIDE DEF second
<1>5. first \in Cells
  BY <1>3, <1>4, JoinTyped
<1>6. RequestHead.rest = first
  BY DEF KeywordsCells, first, second, a, b, c, flag
<1>7. r \in Readers /\ r.ok /\ r.got = <<>> /\ r.rest = first
  BY <1>5, <1>6 DEF Reading, Readers
<1>8. /\ format \in Seq(Widths) /\ Len(format) = 3
      /\ format[1] = Text /\ format[2] = Text /\ format[3] = 2
  BY DEF Widths, Text
<1>9. items[1] = query /\ items[2] = Index /\ items[3] = flag
  OBVIOUS
<1>10. /\ left \in [0 .. 3 -> Cells]
       /\ left[0] = first /\ left[1] = second /\ left[2] = c /\ left[3] = <<>>
  <2>1. <<>> \in Cells
    BY DEF Cells
  <2> HIDE DEF first
  <2> QED
    BY <1>3, <1>4, <1>5, <2>1
<1>11. c = c \o <<>>
  BY <1>3, ConcatEmptySeq DEF Cells
<1>12. /\ Sendable(Text, query) /\ Encoded(Text, query) = a /\ Decoded(Text, query) = query
       /\ Sendable(Text, Index) /\ Encoded(Text, Index) = b /\ Decoded(Text, Index) = Index
  BY <1>1, TextBack DEF a, b
<1>13. Sendable(2, flag) /\ Encoded(2, flag) = c /\ Decoded(2, flag) = flag
  BY <1>1, <1>2, WordBack DEF c
<1> HIDE DEF r, format, items, left
<1>14. ASSUME NEW k \in 1 .. 3
       PROVE  /\ Sendable(format[k], items[k])
              /\ left[k - 1] = Encoded(format[k], items[k]) \o left[k]
  <2>1. k = 1 \/ k = 2 \/ k = 3
    OBVIOUS
  <2>2. 1 - 1 = 0 /\ 2 - 1 = 1 /\ 3 - 1 = 2
    OBVIOUS
  <2> QED
    BY <1>8, <1>9, <1>10, <1>11, <1>12, <1>13, <2>1, <2>2 DEF first, second
<1> DEFINE asked == TakeAll(r, format)
<1>15. IsReadBack(asked, format, items, left)
  <2>1. IsWritten(r, format, items, left)
    BY <1>7, <1>8, <1>10, <1>14 DEF IsWritten
  <2> QED
    BY <2>1, TakesBack
<1>16. KeywordsAsked = asked
  BY DEF KeywordsAsked, r, format
<1> HIDE DEF asked
<1>17. asked.got[1] = query /\ asked.got[2] = Index /\ asked.got[3] = flag
  <2>1. 1 \in 1 .. 3 /\ 2 \in 1 .. 3 /\ 3 \in 1 .. 3
    OBVIOUS
  <2> QED
    BY <1>8, <1>9, <1>12, <1>13, <1>15, <2>1 DEF IsReadBack
<1> QED
  BY <1>1, <1>16, <1>17
-----------------------------------------------------------------------------
(* A response is read *)

\* What is taken off the front is no longer content.
MovedOn(q, n) == [q EXCEPT !.dataStartPtr = @ + n]

LEMMA MovedContent ==
    ASSUME NEW q, Network(q), NEW front \in Cells, NEW tail \in Cells, Content(q) = front \o tail
    PROVE  Network(MovedOn(q, Len(front))) /\ Content(MovedOn(q, Len(front))) = tail
<1> DEFINE n == Len(front)
           r == MovedOn(q, n)
<1>1. q \in GoodBuffers /\ q.convertEndian
  BY DEF Network
<1>2. /\ Len(front \o tail) = n + Len(tail) /\ n \in Nat /\ Len(tail) \in Nat
      /\ \A k \in 1 .. Len(tail) : (front \o tail)[n + k] = tail[k]
  <2>1. /\ Len(front \o tail) = n + Len(tail) /\ n \in Nat /\ Len(tail) \in Nat
    BY JoinTyped
  <2>2. ASSUME NEW k \in 1 .. Len(tail)
        PROVE  (front \o tail)[n + k] = tail[k]
    <3>1. n + k \in 1 .. n + Len(tail) /\ ~(n + k <= n) /\ n + k - n = k
      BY <2>1
    <3> HIDE DEF n
    <3>2. front \in Seq(Nat) /\ tail \in Seq(Nat)
      BY DEF Cells
    <3>3. (front \o tail)[n + k] = IF n + k <= n THEN front[n + k] ELSE tail[n + k - n]
      BY <3>1, <3>2, ConcatProperties DEF n
    <3> QED
      BY <3>1, <3>3
  <2> QED
    BY <2>1, <2>2
<1>3. /\ GetLength(q) = n + Len(tail) /\ GetLength(q) = q.dataEndPtr - q.dataStartPtr
      /\ q.dataStartPtr \in Nat /\ q.dataEndPtr \in Nat
      /\ \A k \in 1 .. GetLength(q) : Content(q)[k] = q.data[q.dataStartPtr + k]
  BY <1>1, <1>2, ContentIs, GoodParts
<1>4. r \in GoodBuffers
  <2>1. n <= GetLength(q)
    BY <1>2, <1>3
  <2> HIDE DEF n
  <2> QED
    BY <1>1, <1>2, <2>1, StartMoves DEF MovedOn
<1>5. /\ r.data = q.data /\ r.dataEndPtr = q.dataEndPtr
      /\ r.dataStartPtr = q.dataStartPtr + n /\ r.convertEndian
  BY <1>1 DEF MovedOn, GoodBuffers
<1> HIDE DEF r, n
<1>6. /\ Content(r) \in Cells /\ Len(Content(r)) = Len(tail)
      /\ \A k \in 1 .. Len(tail) : Content(r)[k] = q.data[q.dataStartPtr + n + k]
  <2>1. /\ Content(r) \in Cells /\ Len(Content(r)) = GetLength(r)
        /\ GetLength(r) = r.dataEndPtr - r.dataStartPtr
        /\ \A k \in 1 .. GetLength(r) : Content(r)[k] = r.data[r.dataStartPtr + k]
    BY <1>4, ContentIs, GoodParts
  <2>2. GetLength(r) = Len(tail)
    BY <1>2, <1>3, <1>5, <2>1
  <2> QED
    BY <1>5, <2>1, <2>2
<1>7. \A k \in 1 .. Len(tail) : Content(r)[k] = tail[k]
  <2>1. ASSUME NEW k \in 1 .. Len(tail)
        PROVE  Content(r)[k] = tail[k]
    <3> DEFINE j == n + k
    <3>1. j \in 1 .. GetLength(q) /\ q.dataStartPtr + n + k = q.dataStartPtr + j
      BY <1>2, <1>3
    <3>2. (front \o tail)[j] = tail[k]
      BY <1>2
    <3> HIDE DEF j
    <3>3. Content(q)[j] = q.data[q.dataStartPtr + j]
      BY <1>3, <3>1
    <3> QED
      BY <1>6, <3>1, <3>2, <3>3
  <2> QED
    BY <2>1
<1>8. Content(r) = tail
  BY <1>6, <1>7, SeqEqual DEF Cells
<1> QED
  BY <1>4, <1>5, <1>8 DEF r, n, Network

\* What >> gives of a number that was put in front.
GetsValue(g, value, tail) ==
    g.ok /\ g.value = value /\ Network(g.rest) /\ Content(g.rest) = tail

LEMMA GetsCells ==
    ASSUME NEW q, Network(q), NEW width \in 1 .. 4, NEW value \in Nat,
           NEW tail \in Cells, Content(q) = CellsOf(value, width) \o tail
    PROVE  GetsValue(Get(q, width), Number(CellsOf(value, width)), tail)
<1> DEFINE front == CellsOf(value, width)
<1>1. width \in Nat
  OBVIOUS
<1>2. front \in Cells /\ Len(front) = width
  BY <1>1, CellsOfTyped
<1>4. Content(q) = front \o tail
  OBVIOUS
<1> HIDE DEF front
<1>5. GetLength(q) >= width
  <2>1. GetLength(q) = Len(front \o tail)
    BY <1>4, ContentIs DEF Network
  <2>2. Len(front \o tail) = Len(front) + Len(tail) /\ Len(tail) \in Nat
    BY <1>2, JoinTyped
  <2> QED
    BY <1>1, <1>2, <2>1, <2>2
<1>6. SubSeq(Content(q), 1, width) = front
  <2>1. SubSeq(front \o tail, 1, Len(front)) = front
    BY <1>2, Split
  <2> QED
    BY <1>2, <1>4, <2>1
<1>7. Get(q, width) = [ok |-> TRUE, value |-> Number(front), rest |-> MovedOn(q, width)]
  BY <1>5, <1>6 DEF Get, Ordered, Network, MovedOn
<1>8. Network(MovedOn(q, width)) /\ Content(MovedOn(q, width)) = tail
  <2>1. Network(MovedOn(q, Len(front))) /\ Content(MovedOn(q, Len(front))) = tail
    BY <1>2, <1>4, MovedContent
  <2> QED
    BY <1>2, <2>1
<1> QED
  BY <1>7, <1>8 DEF GetsValue, front

LEMMA GetsNumber ==
    ASSUME NEW q, Network(q), NEW width \in 1 .. 4, NEW value, Fits(value, width),
           NEW tail \in Cells, Content(q) = CellsOf(value, width) \o tail
    PROVE  GetsValue(Get(q, width), value, tail)
<1>1. width \in Nat /\ value \in Nat
  BY DEF Fits
<1>2. Number(CellsOf(value, width)) = value
  BY <1>1, NumberBack
<1>3. GetsValue(Get(q, width), Number(CellsOf(value, width)), tail)
  BY <1>1, GetsCells
<1> QED
  BY <1>2, <1>3

LEMMA GetsText ==
    ASSUME NEW q, Network(q), NEW text \in Cells, Fits(2 * Len(text), 2),
           NEW tail \in Cells, Content(q) = EncodeText(text) \o tail
    PROVE  GetsValue(GetString(q), text, tail)
<1> DEFINE size == 2 * Len(text)
           length == GetWord(q)
           cells == length.value \div 2
           rest == length.rest
<1>1. size \in Nat /\ 2 \in Nat /\ Len(text) \in Nat /\ 2 \in 1 .. 4
  BY LenProperties DEF Cells
<1>2. size \div 2 = Len(text)
  BY <1>1
<1>3. Content(q) = CellsOf(size, 2) \o (text \o tail) /\ text \o tail \in Cells
  <2> DEFINE a == CellsOf(size, 2)
  <2>1. a \in Cells
    BY <1>1, CellsOfTyped
  <2>2. EncodeText(text) = a \o text
    BY DEF EncodeText
  <2> HIDE DEF a
  <2>3. (a \o text) \o tail = a \o (text \o tail)
    BY <2>1, Regrouped, Zenon
  <2>4. text \o tail \in Cells
    BY JoinTyped
  <2> QED
    BY <2>2, <2>3, <2>4 DEF a
<1> HIDE DEF size
<1> DEFINE both == text \o tail
<1>4. GetsValue(length, size, both)
  <2>1. both \in Cells /\ Content(q) = CellsOf(size, 2) \o both /\ Fits(size, 2)
    BY <1>3 DEF size
  <2> HIDE DEF both
  <2> QED
    BY <1>1, <2>1, GetsNumber DEF GetWord
<1> HIDE DEF length
<1>5. length.ok /\ cells = Len(text) /\ Network(rest) /\ Content(rest) = text \o tail
  BY <1>2, <1>4 DEF GetsValue
<1>6. GetLength(rest) >= cells
  <2>1. GetLength(rest) = Len(text \o tail)
    BY <1>5, ContentIs DEF Network
  <2>2. Len(text \o tail) = Len(text) + Len(tail) /\ Len(tail) \in Nat
    BY JoinTyped
  <2> QED
    BY <1>1, <1>5, <2>1, <2>2
<1>7. SubSeq(Content(rest), 1, cells) = text
  <2>1. SubSeq(text \o tail, 1, Len(text)) = text
    BY Split
  <2> QED
    BY <1>5, <2>1
<1>8. GetString(q) = [ok |-> TRUE, value |-> text, rest |-> MovedOn(rest, cells)]
  BY <1>5, <1>6, <1>7 DEF GetString, MovedOn, length
<1>9. Network(MovedOn(rest, cells)) /\ Content(MovedOn(rest, cells)) = tail
  <2> HIDE DEF rest, cells
  <2>1. Network(MovedOn(rest, Len(text))) /\ Content(MovedOn(rest, Len(text))) = tail
    BY <1>5, MovedContent
  <2> QED
    BY <1>5, <2>1
<1> QED
  BY <1>8, <1>9 DEF GetsValue

\* Two ways to cut the same cells at the same place.
LEMMA SameFront ==
    ASSUME NEW a \in Cells, NEW b \in Cells, NEW x \in Cells, NEW y \in Cells,
           a \o b = x \o y, Len(a) = Len(x)
    PROVE  a = x /\ b = y
<1>1. /\ SubSeq(a \o b, 1, Len(a)) = a
      /\ SubSeq(a \o b, Len(a) + 1, Len(a) + Len(b)) = b
  BY Split
<1>2. /\ SubSeq(x \o y, 1, Len(x)) = x
      /\ SubSeq(x \o y, Len(x) + 1, Len(x) + Len(y)) = y
  BY Split
<1>3. Len(a \o b) = Len(a) + Len(b) /\ Len(a) \in Nat /\ Len(b) \in Nat
  BY JoinTyped
<1>4. Len(x \o y) = Len(x) + Len(y) /\ Len(y) \in Nat
  BY JoinTyped
<1>5. Len(b) = Len(y)
  BY <1>3, <1>4
<1> QED
  BY <1>1, <1>2, <1>5
-----------------------------------------------------------------------------
(* The words are read *)

\* A word as it is returned.
Entry(word, fetchStats) ==
    IF fetchStats THEN word ELSE [word EXCEPT !.docsHit = 0, !.totalHits = 0]

WordCells(words, fetchStats) == [k \in DOMAIN words |-> EncodeWord(words[k], fetchStats)]

LEMMA WordParts ==
    ASSUME NEW word \in Words
    PROVE  /\ word.tokenized \in Cells /\ Fits(2 * Len(word.tokenized), 2)
           /\ word.normalized \in Cells /\ Fits(2 * Len(word.normalized), 2)
           /\ word.docsHit \in Nat /\ Fits(word.docsHit, 2)
           /\ word.totalHits \in Nat /\ Fits(word.totalHits, 2)
           /\ word = [tokenized |-> word.tokenized, normalized |-> word.normalized,
                      docsHit |-> word.docsHit, totalHits |-> word.totalHits]
<1>1. /\ word \in [tokenized : Seq(Nat), normalized : Seq(Nat), docsHit : Nat, totalHits : Nat]
      /\ 2 * Len(word.tokenized) < WordLimit /\ 2 * Len(word.normalized) < WordLimit
      /\ word.docsHit < WordLimit /\ word.totalHits < WordLimit
  BY CommandsAssumption
<1>2. /\ word.tokenized \in Cells /\ word.normalized \in Cells
      /\ word.docsHit \in Nat /\ word.totalHits \in Nat
      /\ word = [tokenized |-> word.tokenized, normalized |-> word.normalized,
                 docsHit |-> word.docsHit, totalHits |-> word.totalHits]
  BY <1>1 DEF Cells
<1>3. 2 * Len(word.tokenized) \in Nat /\ 2 * Len(word.normalized) \in Nat
  BY <1>2, LenProperties DEF Cells
<1> QED
  BY <1>1, <1>2, <1>3, WordFits

LEMMA WordTyped ==
    ASSUME NEW word \in Words, NEW fetchStats \in BOOLEAN
    PROVE  /\ EncodeText(word.tokenized) \in Cells /\ EncodeText(word.normalized) \in Cells
           /\ CellsOf(word.docsHit, 2) \in Cells /\ CellsOf(word.totalHits, 2) \in Cells
           /\ EncodeWord(word, fetchStats) \in Cells
<1>1. 2 \in Nat
  OBVIOUS
<1>2. /\ EncodeText(word.tokenized) \in Cells /\ EncodeText(word.normalized) \in Cells
      /\ CellsOf(word.docsHit, 2) \in Cells /\ CellsOf(word.totalHits, 2) \in Cells
  BY <1>1, WordParts, EncodeTextTyped, CellsOfTyped
<1> DEFINE a == EncodeText(word.tokenized)
           b == EncodeText(word.normalized)
           c == CellsOf(word.docsHit, 2)
           d == CellsOf(word.totalHits, 2)
           e == IF fetchStats THEN c \o d ELSE <<>>
<1>3. a \in Cells /\ b \in Cells /\ c \in Cells /\ d \in Cells
  BY <1>2
<1> HIDE DEF a, b, c, d
<1>4. a \o b \in Cells /\ c \o d \in Cells /\ <<>> \in Cells
  <2>1. a \o b \in Cells
    BY <1>3, JoinTyped
  <2>2. c \o d \in Cells
    BY <1>3, JoinTyped
  <2> QED
    BY <2>1, <2>2 DEF Cells
<1>5. e \in Cells
  BY <1>4
<1> DEFINE ab == a \o b
<1>6. ab \in Cells
  BY <1>4
<1> HIDE DEF e, ab
<1>7. ab \o e \in Cells
  BY <1>5, <1>6, JoinTyped
<1>8. EncodeWord(word, fetchStats) = ab \o e
  BY DEF EncodeWord, ab, a, b, c, d, e
<1> QED
  BY <1>2, <1>7, <1>8

\* A word that came wholly is read as it was written.
IsEntry(after, before, word, fetchStats, tail) ==
    /\ after.entries = Append(before.entries, Entry(word, fetchStats))
    /\ Network(after.rest) /\ Content(after.rest) = tail

LEMMA GetsEntry ==
    ASSUME NEW before, Network(before.rest), NEW word \in Words, NEW fetchStats \in BOOLEAN,
           NEW tail \in Cells, Content(before.rest) = EncodeWord(word, fetchStats) \o tail
    PROVE  IsEntry(GetEntry(before, fetchStats), before, word, fetchStats, tail)
<1> DEFINE a == EncodeText(word.tokenized)
           b == EncodeText(word.normalized)
           c == CellsOf(word.docsHit, 2)
           d == CellsOf(word.totalHits, 2)
           e == IF fetchStats THEN c \o d ELSE <<>>
           tokenized  == GetString(before.rest)
           normalized == GetString(tokenized.rest)
           docsHit    == GetStatistic(normalized.rest, fetchStats)
           totalHits  == GetStatistic(docsHit.rest, fetchStats)
           entry == [tokenized |-> tokenized.value, normalized |-> normalized.value,
                     docsHit |-> docsHit.value, totalHits |-> totalHits.value]
<1>1. /\ a \in Cells /\ b \in Cells /\ c \in Cells /\ d \in Cells
      /\ EncodeWord(word, fetchStats) = (a \o b) \o e
  BY WordTyped DEF EncodeWord
<1>2. /\ word.tokenized \in Cells /\ Fits(2 * Len(word.tokenized), 2)
      /\ word.normalized \in Cells /\ Fits(2 * Len(word.normalized), 2)
      /\ Fits(word.docsHit, 2) /\ Fits(word.totalHits, 2)
      /\ word = [tokenized |-> word.tokenized, normalized |-> word.normalized,
                 docsHit |-> word.docsHit, totalHits |-> word.totalHits]
  BY WordParts
<1> HIDE DEF a, b, c, d
<1>3. e \in Cells
  <2>1. c \o d \in Cells
    BY <1>1, JoinTyped
  <2> QED
    BY <2>1 DEF Cells
<1> DEFINE et == e \o tail
           bet == b \o et
<1>4. et \in Cells
  <2> HIDE DEF e
  <2> QED
    BY <1>3, JoinTyped
<1>5. ((a \o b) \o e) \o tail = a \o bet /\ bet \in Cells
  <2> HIDE DEF e
  <2> DEFINE ab == a \o b
  <2>1. ab \in Cells
    BY <1>1, JoinTyped
  <2>2. (ab \o e) \o tail = ab \o et
    <3> HIDE DEF ab
    <3> QED
      BY <1>3, <2>1, Regrouped, Zenon
  <2> HIDE DEF et
  <2>3. ab \o et = a \o bet
    BY <1>1, <1>4, Regrouped, Zenon
  <2>4. bet \in Cells
    BY <1>1, <1>4, JoinTyped
  <2> QED
    BY <2>2, <2>3, <2>4
<1>6. GetEntry(before, fetchStats) = [rest |-> totalHits.rest, entries |-> Append(before.entries, entry)]
  BY DEF GetEntry
<1>7. Content(before.rest) = a \o bet
  <2> HIDE DEF bet, e
  <2> QED
    BY <1>1, <1>5
<1> HIDE DEF bet
<1>8. GetsValue(tokenized, word.tokenized, bet)
  BY <1>2, <1>5, <1>7, GetsText DEF a
<1> HIDE DEF tokenized
<1>9. tokenized.value = word.tokenized /\ Network(tokenized.rest) /\ Content(tokenized.rest) = b \o et
  BY <1>8 DEF GetsValue, bet
<1> HIDE DEF et
<1>10. GetsValue(normalized, word.normalized, et)
  BY <1>2, <1>4, <1>9, GetsText DEF b
<1> HIDE DEF normalized
<1>11. normalized.value = word.normalized /\ Network(normalized.rest)
       /\ Content(normalized.rest) = e \o tail
  BY <1>10 DEF GetsValue, et
<1>12. CASE fetchStats
  <2> DEFINE dt == d \o tail
  <2>1. dt \in Cells
    BY <1>1, JoinTyped
  <2>2. Content(normalized.rest) = c \o dt
    <3>1. (c \o d) \o tail = c \o (d \o tail)
      BY <1>1, Regrouped, Zenon
    <3> QED
      BY <1>11, <1>12, <3>1
  <2>3. docsHit = Get(normalized.rest, 2) /\ 2 \in 1 .. 4
    BY <1>12 DEF GetStatistic, GetWord
  <2> HIDE DEF dt
  <2>4. GetsValue(Get(normalized.rest, 2), word.docsHit, dt)
    BY <1>2, <1>11, <2>1, <2>2, <2>3, GetsNumber DEF c
  <2>5. docsHit.value = word.docsHit /\ Network(docsHit.rest) /\ Content(docsHit.rest) = d \o tail
    BY <2>3, <2>4 DEF GetsValue, dt
  <2> HIDE DEF docsHit
  <2>6. totalHits = Get(docsHit.rest, 2)
    BY <1>12 DEF GetStatistic, GetWord
  <2>7. GetsValue(Get(docsHit.rest, 2), word.totalHits, tail)
    BY <1>2, <2>3, <2>5, GetsNumber DEF d
  <2>8. totalHits.value = word.totalHits /\ Network(totalHits.rest) /\ Content(totalHits.rest) = tail
    BY <2>6, <2>7 DEF GetsValue
  <2> HIDE DEF totalHits
  <2>9. entry = Entry(word, fetchStats)
    BY <1>2, <1>9, <1>11, <1>12, <2>5, <2>8 DEF Entry
  <2> HIDE DEF entry
  <2> QED
    BY <1>6, <2>8, <2>9 DEF IsEntry
<1>13. CASE ~fetchStats
  <2>1. Content(normalized.rest) = tail
    <3>1. e = <<>> /\ <<>> \o tail = tail
      BY <1>13, ConcatEmptySeq DEF Cells
    <3> QED
      BY <1>11, <3>1
  <2>2. docsHit = [value |-> 0, rest |-> normalized.rest]
    BY <1>13 DEF GetStatistic
  <2>3. totalHits = [value |-> 0, rest |-> normalized.rest]
    BY <1>13, <2>2 DEF GetStatistic
  <2>4. docsHit.value = 0 /\ totalHits.value = 0 /\ totalHits.rest = normalized.rest
    BY <2>2, <2>3
  <2> HIDE DEF docsHit, totalHits
  <2>5. entry = [tokenized |-> word.tokenized, normalized |-> word.normalized,
                 docsHit |-> 0, totalHits |-> 0]
    BY <1>9, <1>11, <2>4
  <2>6. entry = Entry(word, fetchStats)
    <3>1. [word EXCEPT !.docsHit = 0, !.totalHits = 0]
            = [tokenized |-> word.tokenized, normalized |-> word.normalized,
               docsHit |-> 0, totalHits |-> 0]
      <4> DEFINE entries == [tokenized : Seq(Nat), normalized : Seq(Nat),
                             docsHit : Nat, totalHits : Nat]
                 none == [word EXCEPT !.docsHit = 0, !.totalHits = 0]
      <4>1. word \in entries
        BY CommandsAssumption
      <4>2. none \in entries
        BY <4>1
      <4>3. /\ none.tokenized = word.tokenized /\ none.normalized = word.normalized
            /\ none.docsHit = 0 /\ none.totalHits = 0
        BY <4>1
      <4> HIDE DEF none
      <4>4. none = [tokenized |-> none.tokenized, normalized |-> none.normalized,
                    docsHit |-> none.docsHit, totalHits |-> none.totalHits]
        BY <4>2
      <4>5. none = [tokenized |-> word.tokenized, normalized |-> word.normalized,
                    docsHit |-> 0, totalHits |-> 0]
        BY <4>3, <4>4
      <4> QED
        BY <4>5 DEF none
    <3> QED
      BY <1>13, <2>5, <3>1 DEF Entry
  <2> HIDE DEF entry
  <2> QED
    BY <1>6, <1>11, <2>1, <2>4, <2>6 DEF IsEntry
<1> QED
  BY <1>12, <1>13

\* The words of an answer, one by one.
LEMMA WordCellsTyped ==
    ASSUME NEW words \in Seq(Words), NEW fetchStats \in BOOLEAN
    PROVE  /\ WordCells(words, fetchStats) \in Seq(Cells)
           /\ Len(WordCells(words, fetchStats)) = Len(words)
           /\ \A k \in 1 .. Len(words) :
                /\ words[k] \in Words
                /\ WordCells(words, fetchStats)[k] = EncodeWord(words[k], fetchStats)
           /\ EncodeWords(words, fetchStats)
                = CellsOf(Len(words), 2) \o FlattenSeq(WordCells(words, fetchStats))
           /\ FlattenSeq(WordCells(words, fetchStats)) \in Cells
<1> DEFINE ss == WordCells(words, fetchStats)
           n == Len(words)
<1>1. n \in Nat /\ DOMAIN words = 1 .. n /\ \A k \in 1 .. n : words[k] \in Words
  BY LenProperties, ElementOfSeq
<1>2. ss = [k \in 1 .. n |-> EncodeWord(words[k], fetchStats)]
  BY <1>1 DEF WordCells
<1>3. \A k \in 1 .. n : EncodeWord(words[k], fetchStats) \in Cells
  BY <1>1, WordTyped
<1>4. EncodeWords(words, fetchStats) = CellsOf(n, 2) \o FlattenSeq(ss)
  BY DEF EncodeWords, WordCells
<1> HIDE DEF ss, n
<1>5. ss \in Seq(Cells) /\ Len(ss) = n
  BY <1>1, <1>2, <1>3
<1>6. FlattenSeq(ss) \in Cells
  <2>1. ss \in Seq(Seq(Nat))
    BY <1>5 DEF Cells
  <2> QED
    BY <2>1, JoinedIsSeq DEF Cells
<1> QED
  BY <1>1, <1>2, <1>4, <1>5, <1>6 DEF ss, n

\* What is behind the first n words.
BehindWord(words, fetchStats) == Onward(WordCells(words, fetchStats), <<>>)

LEMMA WordsOnward ==
    ASSUME NEW words \in Seq(Words), NEW fetchStats \in BOOLEAN
    PROVE  /\ \A k \in 0 .. Len(words) : BehindWord(words, fetchStats)[k] \in Cells
           /\ BehindWord(words, fetchStats)[0] = FlattenSeq(WordCells(words, fetchStats))
           /\ BehindWord(words, fetchStats)[Len(words)] = <<>>
           /\ \A k \in 1 .. Len(words) :
                BehindWord(words, fetchStats)[k - 1]
                  = EncodeWord(words[k], fetchStats) \o BehindWord(words, fetchStats)[k]
<1> DEFINE ss == WordCells(words, fetchStats)
           left == Onward(ss, <<>>)
           whole == FlattenSeq(ss)
<1>1. /\ ss \in Seq(Cells) /\ Len(ss) = Len(words) /\ whole \in Cells /\ <<>> \in Cells
      /\ \A k \in 1 .. Len(words) : ss[k] = EncodeWord(words[k], fetchStats)
  BY WordCellsTyped, EmptySeq DEF Cells
<1>2. BehindWord(words, fetchStats) = left
  BY DEF BehindWord
<1> HIDE DEF ss
<1>3. /\ left \in [0 .. Len(ss) -> Cells] /\ left[0] = whole \o <<>> /\ left[Len(ss)] = <<>>
      /\ \A k \in 1 .. Len(ss) : left[k - 1] = ss[k] \o left[k]
  BY <1>1, OnwardIs
<1> HIDE DEF left, whole
<1>4. left[0] = whole
  BY <1>1, <1>3, ConcatEmptySeq DEF Cells
<1> QED
  BY <1>1, <1>2, <1>3, <1>4 DEF whole, ss

\* The first n words of an answer end where the rest begins.
LEMMA PartLength ==
    ASSUME NEW words \in Seq(Words), NEW fetchStats \in BOOLEAN, NEW n \in 0 .. Len(words)
    PROVE  Len(EncodeWords(SubSeq(words, 1, n), fetchStats))
             = 2 + Len(BehindWord(words, fetchStats)[0]) - Len(BehindWord(words, fetchStats)[n])
<1> DEFINE part == SubSeq(words, 1, n)
           ss == WordCells(part, fetchStats)
           left == BehindWord(words, fetchStats)
           whole == FlattenSeq(ss)
           count == CellsOf(n, 2)
<1>1. n \in Nat /\ n <= Len(words) /\ Len(words) \in Nat
  BY LenProperties
<1>2. part \in Seq(Words) /\ Len(part) = n /\ \A k \in 1 .. n : part[k] = words[k]
  <2>1. \A k \in 1 .. n : words[k] \in Words
    BY <1>1, ElementOfSeq
  <2>2. /\ part \in Seq(Words)
        /\ Len(part) = IF 1 <= n THEN n - 1 + 1 ELSE 0
        /\ \A k \in 1 .. n - 1 + 1 : part[k] = words[1 + k - 1]
    BY <1>1, <2>1, SubSeqProperties
  <2> HIDE DEF part
  <2>3. Len(part) = n
    BY <1>1, <2>2
  <2>4. ASSUME NEW k \in 1 .. n
        PROVE  part[k] = words[k]
    <3>1. k \in 1 .. n - 1 + 1 /\ 1 + k - 1 = k
      BY <1>1
    <3> QED
      BY <2>2, <3>1
  <2> QED
    BY <2>2, <2>3, <2>4
<1> HIDE DEF part
<1>3. /\ ss \in Seq(Cells) /\ Len(ss) = n
      /\ \A k \in 1 .. n : ss[k] = EncodeWord(part[k], fetchStats)
      /\ EncodeWords(part, fetchStats) = count \o whole
      /\ whole \in Cells
  BY <1>2, WordCellsTyped
<1>4. /\ \A k \in 0 .. Len(words) : left[k] \in Cells
      /\ \A k \in 1 .. Len(words) : left[k - 1] = EncodeWord(words[k], fetchStats) \o left[k]
  BY WordsOnward
<1> HIDE DEF ss, left
<1>5. PICK on : /\ on \in [0 .. n -> Nat]
                /\ on[0] = Len(whole) /\ on[n] = 0
                /\ \A k \in 1 .. n : on[k - 1] = Len(ss[k]) + on[k]
  BY <1>3, OnwardLengths
<1>6. \A k \in 0 .. n : Len(left[k]) \in Nat /\ k \in 0 .. Len(words)
  <2>1. \A k \in 0 .. n : k \in 0 .. Len(words)
    BY <1>1
  <2> QED
    BY <1>4, <2>1, LenProperties DEF Cells
<1> DEFINE T == {k \in 0 .. n : on[0] - on[k] = Len(left[0]) - Len(left[k])}
<1>7. 0 \in T
  BY <1>1, <1>5, <1>6
<1>8. ASSUME NEW k \in 1 .. n, on[0] - on[k - 1] = Len(left[0]) - Len(left[k - 1])
      PROVE  on[0] - on[k] = Len(left[0]) - Len(left[k])
  <2> DEFINE a == EncodeWord(words[k], fetchStats)
             b == left[k]
  <2>1. k - 1 \in 0 .. n /\ k \in 0 .. n /\ k \in 1 .. Len(words) /\ 0 \in 0 .. n
    BY <1>1
  <2>2. a \in Cells /\ b \in Cells /\ left[k - 1] = a \o b
    <3>1. words[k] \in Words
      BY <2>1, ElementOfSeq
    <3> QED
      BY <1>4, <1>6, <2>1, <3>1, WordTyped
  <2>3. on[k - 1] = Len(a) + on[k]
    BY <1>2, <1>3, <1>5
  <2> HIDE DEF a, b
  <2>4. Len(a \o b) = Len(a) + Len(b) /\ Len(a) \in Nat
    BY <2>2, JoinTyped
  <2>5. Len(left[k - 1]) = Len(a) + Len(left[k])
    BY <2>2, <2>4 DEF b
  <2>6. /\ on[0] \in Nat /\ on[k] \in Nat /\ on[k - 1] \in Nat
        /\ Len(left[0]) \in Nat /\ Len(left[k]) \in Nat /\ Len(left[k - 1]) \in Nat
    BY <1>5, <1>6, <2>1
  <2> DEFINE x == on[0]
             y == on[k - 1]
             z == on[k]
             u == Len(left[0])
             v == Len(left[k - 1])
             w == Len(left[k])
             l == Len(a)
  <2>7. /\ x \in Nat /\ y \in Nat /\ z \in Nat /\ u \in Nat /\ v \in Nat /\ w \in Nat /\ l \in Nat
        /\ x - y = u - v /\ y = l + z /\ v = l + w
    BY <1>8, <2>3, <2>4, <2>5, <2>6
  <2> HIDE DEF x, y, z, u, v, w, l
  <2>8. x - z = u - w
    BY <2>7
  <2> QED
    BY <2>8 DEF x, z, u, w
<1>9. n \in T
  <2>1. \A k \in 1 .. n : k - 1 \in T => k \in T
    <3>1. \A k \in 1 .. n : k \in 0 .. n
      BY <1>1
    <3> QED
      BY <1>8, <3>1
  <2> HIDE DEF T
  <2>2. \A k \in 0 .. n : k \in T
    BY <1>1, <1>7, <2>1, InductiveUpTo
  <2> QED
    BY <1>1, <2>2
<1>10. Len(whole) = Len(left[0]) - Len(left[n]) /\ Len(whole) \in Nat
  <2>1. n \in 0 .. n /\ 0 \in 0 .. n
    BY <1>1
  <2> QED
    BY <1>5, <1>6, <1>9, <2>1
<1>11. count \in Cells /\ Len(count) = 2
  <2>1. 2 \in Nat
    OBVIOUS
  <2> QED
    BY <1>1, <2>1, CellsOfTyped
<1> HIDE DEF whole, count
<1>12. Len(count \o whole) = Len(count) + Len(whole)
  BY <1>3, <1>11, JoinTyped
<1>13. Len(left[0]) \in Nat /\ Len(left[n]) \in Nat
  BY <1>1, <1>6
<1> QED
  BY <1>3, <1>10, <1>11, <1>12, <1>13 DEF part, left

\* The cells of an answer up to its n-th word, and what is read of an answer of
\* which "cut" cells came when k words have been read.
UpToWord(words, fetchStats, n) ==
    2 + Len(BehindWord(words, fetchStats)[0]) - Len(BehindWord(words, fetchStats)[n])
WordsSoFar(read, words, fetchStats, cut, k) ==
    /\ Len(read.entries) = k
    /\ \A i \in 1 .. k :
         UpToWord(words, fetchStats, i) <= cut => read.entries[i] = Entry(words[i], fetchStats)
    /\ UpToWord(words, fetchStats, k) <= cut =>
         /\ Network(read.rest)
         /\ Content(read.rest) = SubSeq(BehindWord(words, fetchStats)[k], 1,
                                        cut - UpToWord(words, fetchStats, k))

LEMMA UpToTyped ==
    ASSUME NEW words \in Seq(Words), NEW fetchStats \in BOOLEAN
    PROVE  /\ Len(BehindWord(words, fetchStats)[0]) \in Nat
           /\ UpToWord(words, fetchStats, 0) = 2
           /\ \A k \in 0 .. Len(words) :
                /\ UpToWord(words, fetchStats, k) \in Int
                /\ Len(BehindWord(words, fetchStats)[k]) \in Nat
                /\ 2 + Len(BehindWord(words, fetchStats)[0]) - UpToWord(words, fetchStats, k)
                     = Len(BehindWord(words, fetchStats)[k])
           /\ \A k \in 1 .. Len(words) :
                UpToWord(words, fetchStats, k)
                  = UpToWord(words, fetchStats, k - 1) + Len(EncodeWord(words[k], fetchStats))
<1> DEFINE left == BehindWord(words, fetchStats)
<1>1. /\ \A k \in 0 .. Len(words) : left[k] \in Cells
      /\ \A k \in 1 .. Len(words) : left[k - 1] = EncodeWord(words[k], fetchStats) \o left[k]
  BY WordsOnward
<1>2. Len(words) \in Nat
  BY LenProperties
<1>3. \A k \in 0 .. Len(words) : UpToWord(words, fetchStats, k) = 2 + Len(left[0]) - Len(left[k])
  BY DEF UpToWord
<1> HIDE DEF left
<1>4. \A k \in 0 .. Len(words) : Len(left[k]) \in Nat
  BY <1>1, LenProperties DEF Cells
<1>5. 0 \in 0 .. Len(words) /\ Len(left[0]) \in Nat
  BY <1>2, <1>4
<1>6. UpToWord(words, fetchStats, 0) = 2
  <2> DEFINE l == Len(left[0])
  <2>1. l \in Nat /\ UpToWord(words, fetchStats, 0) = 2 + l - l
    BY <1>5 DEF UpToWord, left
  <2> HIDE DEF l
  <2> QED
    BY <2>1
<1>7. ASSUME NEW k \in 0 .. Len(words)
      PROVE  /\ UpToWord(words, fetchStats, k) \in Int
             /\ 2 + Len(left[0]) - UpToWord(words, fetchStats, k) = Len(left[k])
  <2> DEFINE l == Len(left[0])
             r == Len(left[k])
  <2>1. l \in Nat /\ r \in Nat /\ UpToWord(words, fetchStats, k) = 2 + l - r
    BY <1>3, <1>4, <1>5
  <2> HIDE DEF l, r
  <2>2. UpToWord(words, fetchStats, k) \in Int /\ 2 + l - UpToWord(words, fetchStats, k) = r
    BY <2>1
  <2> QED
    BY <2>2 DEF l, r
<1>8. ASSUME NEW k \in 1 .. Len(words)
      PROVE  UpToWord(words, fetchStats, k)
               = UpToWord(words, fetchStats, k - 1) + Len(EncodeWord(words[k], fetchStats))
  <2> DEFINE a == EncodeWord(words[k], fetchStats)
             b == left[k]
             before == left[k - 1]
  <2>1. k - 1 \in 0 .. Len(words) /\ k \in 0 .. Len(words)
    BY <1>2
  <2>2. a \in Cells /\ b \in Cells /\ before = a \o b
    <3>1. words[k] \in Words
      BY ElementOfSeq
    <3> QED
      BY <1>1, <2>1, <3>1, WordTyped
  <2>3. Len(before) \in Nat /\ Len(b) \in Nat
    BY <1>4, <2>1
  <2>4. /\ UpToWord(words, fetchStats, k) = 2 + Len(left[0]) - Len(b)
        /\ UpToWord(words, fetchStats, k - 1) = 2 + Len(left[0]) - Len(before)
    BY <1>3, <2>1
  <2> HIDE DEF a, b, before
  <2>5. Len(a \o b) = Len(a) + Len(b) /\ Len(a) \in Nat
    BY <2>2, JoinTyped
  <2>6. Len(before) = Len(a) + Len(b)
    BY <2>2, <2>5
  <2>7. UpToWord(words, fetchStats, k) = UpToWord(words, fetchStats, k - 1) + Len(a)
    BY <1>5, <2>3, <2>4, <2>5, <2>6
  <2> QED
    BY <2>7 DEF a
<1> QED
  BY <1>4, <1>5, <1>6, <1>7, <1>8 DEF left

LEMMA NextWord ==
    ASSUME NEW words \in Seq(Words), NEW fetchStats \in BOOLEAN, NEW cut \in Nat,
           cut <= 2 + Len(BehindWord(words, fetchStats)[0]),
           NEW k \in 1 .. Len(words), NEW before \in Readings,
           WordsSoFar(before, words, fetchStats, cut, k - 1)
    PROVE  WordsSoFar(GetEntry(before, fetchStats), words, fetchStats, cut, k)
<1> DEFINE upTo == UpToWord(words, fetchStats, k)
           upToLast == UpToWord(words, fetchStats, k - 1)
           a == EncodeWord(words[k], fetchStats)
           b == BehindWord(words, fetchStats)[k]
           after == GetEntry(before, fetchStats)
           size == 2 + Len(BehindWord(words, fetchStats)[0])
<1>1. /\ k \in Nat /\ k - 1 \in 0 .. Len(words) /\ k \in 0 .. Len(words)
      /\ words[k] \in Words /\ Len(words) \in Nat
  BY LenProperties, ElementOfSeq
<1>2. /\ upTo \in Int /\ upToLast \in Int /\ size \in Nat
      /\ upTo = upToLast + Len(a) /\ size - upTo = Len(b) /\ Len(b) \in Nat
  <2> DEFINE l == Len(BehindWord(words, fetchStats)[0])
  <2>1. l \in Nat
    BY UpToTyped
  <2>2. upToLast \in Int
    BY <1>1, UpToTyped
  <2>3. upTo \in Int /\ 2 + l - upTo = Len(b) /\ Len(b) \in Nat
    BY <1>1, UpToTyped
  <2>4. upTo = upToLast + Len(a)
    BY UpToTyped
  <2>5. size = 2 + l
    OBVIOUS
  <2>6. size \in Nat /\ size - upTo = Len(b)
    <3> HIDE DEF l, upTo, size, b
    <3> QED
      BY <2>1, <2>3, <2>5
  <2> HIDE DEF l, upTo, upToLast, a, b, size
  <2> QED
    BY <2>2, <2>3, <2>4, <2>6
<1>3. a \in Cells /\ b \in Cells /\ BehindWord(words, fetchStats)[k - 1] = a \o b /\ Len(a) \in Nat
  BY <1>1, WordTyped, WordsOnward, LenProperties DEF Cells
<1>4. /\ Len(before.entries) = k - 1
      /\ \A i \in 1 .. k - 1 : UpToWord(words, fetchStats, i) <= cut
            => before.entries[i] = Entry(words[i], fetchStats)
      /\ upToLast <= cut => /\ Network(before.rest)
                            /\ Content(before.rest) = SubSeq(a \o b, 1, cut - upToLast)
  BY <1>3 DEF WordsSoFar
<1>5. \E entry : after.entries = Append(before.entries, entry)
  BY DEF GetEntry
<1>6. before.entries \in Entries /\ after.entries \in Entries /\ Len(after.entries) = k
  BY <1>1, <1>4, GetEntryTyped DEF Readings
<1>7. cut <= size
  OBVIOUS
<1> HIDE DEF upTo, upToLast, a, b, size, after
<1>8. ASSUME upTo <= cut
      PROVE  /\ after.entries = Append(before.entries, Entry(words[k], fetchStats))
             /\ Network(after.rest) /\ Content(after.rest) = SubSeq(b, 1, cut - upTo)
  <2> DEFINE n == cut - upTo
             tail == SubSeq(b, 1, n)
  <2>1. /\ n \in Nat /\ n <= Len(b) /\ n \in 0 .. Len(b)
        /\ upToLast <= cut /\ cut - upToLast = Len(a) + n
    BY <1>2, <1>3, <1>7, <1>8
  <2> HIDE DEF n
  <2>2. SubSeq(a \o b, 1, Len(a) + n) = a \o tail
    BY <1>3, <2>1, SplitBehind
  <2>3. tail \in Cells
    BY <1>3, <2>1, PartTyped
  <2>4. Content(before.rest) = a \o tail /\ Network(before.rest)
    BY <1>4, <2>1, <2>2
  <2> HIDE DEF tail
  <2>5. IsEntry(GetEntry(before, fetchStats), before, words[k], fetchStats, tail)
    BY <1>1, <2>3, <2>4, GetsEntry DEF a
  <2> QED
    BY <2>5 DEF IsEntry, after, tail, n
<1>9. ASSUME NEW i \in 1 .. k, UpToWord(words, fetchStats, i) <= cut
      PROVE  after.entries[i] = Entry(words[i], fetchStats)
  <2>1. CASE i = k
    <3>1. Append(before.entries, Entry(words[k], fetchStats))[Len(before.entries) + 1]
            = Entry(words[k], fetchStats)
      BY <1>6, AppendProperties DEF Entries
    <3> QED
      BY <1>1, <1>4, <1>8, <1>9, <2>1, <3>1 DEF upTo
  <2>2. CASE i # k
    <3>1. PICK entry : after.entries = Append(before.entries, entry)
      BY <1>5
    <3>2. i \in 1 .. k - 1 /\ i \in 1 .. Len(before.entries)
      BY <1>1, <1>4, <2>2
    <3>3. Append(before.entries, entry)[i] = before.entries[i]
      BY <1>6, <3>2 DEF Entries
    <3> QED
      BY <1>4, <1>9, <3>1, <3>2, <3>3
  <2> QED
    BY <2>1, <2>2
<1> QED
  BY <1>6, <1>8, <1>9 DEF WordsSoFar, after, upTo, b

\* Of an answer that came up to any cell getKeywords() returns as many words as
\* were counted, and each that came wholly as it was sent.
WholeWords(entries, words, fetchStats, cut) ==
    /\ Len(entries) = Len(words)
    /\ \A n \in 1 .. Len(words) :
         Len(EncodeWords(SubSeq(words, 1, n), fetchStats)) <= cut
            => entries[n] = Entry(words[n], fetchStats)

LEMMA WordsRead ==
    ASSUME NEW words \in Seq(Words), Len(words) < WordLimit, call[3] \in BOOLEAN, Network(data),
           NEW cut \in Nat, cut <= Len(EncodeWords(words, call[3])),
           Content(data) = SubSeq(EncodeWords(words, call[3]), 1, cut),
           ParseKeywords, GetWord(data).ok
    PROVE  WholeWords(result', words, call[3], cut)
<1> DEFINE fetchStats == call[3]
           left == BehindWord(words, fetchStats)
           count == CellsOf(Len(words), 2)
           first == [rest |-> GetWord(data).rest, entries |-> <<>>]
           n == GetWord(data).value
<1>1. /\ Len(words) \in Nat /\ fetchStats \in BOOLEAN
      /\ left[0] \in Cells /\ EncodeWords(words, fetchStats) = count \o left[0]
      /\ \A k \in 0 .. Len(words) : left[k] \in Cells
  <2>1. Len(words) \in Nat /\ 0 \in 0 .. Len(words) /\ fetchStats \in BOOLEAN
    BY LenProperties
  <2> HIDE DEF fetchStats
  <2>2. /\ \A k \in 0 .. Len(words) : left[k] \in Cells
        /\ left[0] = FlattenSeq(WordCells(words, fetchStats))
    BY <2>1, WordsOnward
  <2>3. EncodeWords(words, fetchStats) = count \o FlattenSeq(WordCells(words, fetchStats))
    BY <2>1, WordCellsTyped
  <2> HIDE DEF left, count
  <2> QED
    BY <2>1, <2>2, <2>3
<1>2. count \in Cells /\ Len(count) = 2
  <2>1. 2 \in Nat
    OBVIOUS
  <2> QED
    BY <1>1, <2>1, CellsOfTyped
<1>3. Fits(Len(words), 2)
  BY <1>1, WordFits
<1>4. data \in GoodBuffers /\ GetLength(data) >= 2
  BY DEF GetWord, Get, Network
<1>5. /\ Content(data) = SubSeq(count \o left[0], 1, cut)
      /\ cut <= Len(count \o left[0])
  BY <1>1
<1>6. PICK read : /\ IsReadingEntries(read, n, fetchStats) /\ read[0] = first
                  /\ result' = read[n].entries
  BY <1>4, ParsingReads
<1>7. n = GetWord(data).value /\ first.rest = GetWord(data).rest /\ first.entries = <<>>
  OBVIOUS
<1>8. GetWord(data) = Get(data, 2) /\ 2 \in 1 .. 4
  BY DEF GetWord
<1> HIDE DEF count, n, first
<1> DEFINE m == cut - 2
           part == SubSeq(left[0], 1, m)
<1>9. Len(count \o left[0]) = 2 + Len(left[0]) /\ Len(left[0]) \in Nat
  <2> DEFINE l == left[0]
  <2>1. l \in Cells
    BY <1>1
  <2> HIDE DEF l
  <2>2. Len(count \o l) = Len(count) + Len(l) /\ Len(l) \in Nat
    BY <1>2, <2>1, JoinTyped
  <2> QED
    BY <1>2, <2>2 DEF l
<1>10. m \in 0 .. Len(left[0]) /\ m \in Nat /\ m <= Len(left[0]) /\ cut = Len(count) + m
  <2> DEFINE whole == count \o left[0]
  <2>1. whole \in Cells
    <3> DEFINE l == left[0]
    <3>1. l \in Cells
      BY <1>1
    <3> HIDE DEF l
    <3>2. count \o l \in Cells
      BY <1>2, <3>1, JoinTyped
    <3> QED
      BY <3>2 DEF l
  <2>2. cut <= Len(whole) /\ Content(data) = SubSeq(whole, 1, cut) /\ Len(whole) = 2 + Len(left[0])
    BY <1>5, <1>9
  <2> HIDE DEF whole
  <2>3. cut \in 0 .. Len(whole)
    BY <1>9, <2>2
  <2>4. Len(SubSeq(whole, 1, cut)) = cut
    BY <2>1, <2>3, PartTyped
  <2>5. GetLength(data) = cut
    BY <1>4, <2>2, <2>4, ContentIs
  <2> QED
    BY <1>2, <1>4, <1>9, <2>2, <2>5
<1> HIDE DEF m
<1>11. SubSeq(count \o left[0], 1, Len(count) + m) = count \o part /\ part \in Cells
  <2> DEFINE l == left[0]
  <2>1. l \in Cells /\ m <= Len(l) /\ m \in 0 .. Len(l)
    BY <1>1, <1>10
  <2> HIDE DEF l
  <2>2. SubSeq(count \o l, 1, Len(count) + m) = count \o SubSeq(l, 1, m)
    BY <1>2, <1>10, <2>1, SplitBehind
  <2>3. SubSeq(l, 1, m) \in Cells
    BY <2>1, PartTyped
  <2> QED
    BY <2>2, <2>3 DEF l
<1> HIDE DEF part
<1>12. GetsValue(Get(data, 2), Len(words), part)
  <2>1. Content(data) = CellsOf(Len(words), 2) \o part
    BY <1>5, <1>10, <1>11 DEF count
  <2> QED
    BY <1>3, <1>8, <1>11, <2>1, GetsNumber
<1>13. n = Len(words) /\ Network(first.rest) /\ Content(first.rest) = part
  BY <1>7, <1>8, <1>12 DEF GetsValue
<1>14. WordsSoFar(first, words, fetchStats, cut, 0)
  <2>1. UpToWord(words, fetchStats, 0) = 2
    BY <1>1, UpToTyped
  <2>2. Len(<<>>) = 0 /\ 1 .. 0 = {}
    OBVIOUS
  <2> QED
    BY <1>7, <1>13, <2>1, <2>2 DEF WordsSoFar, part, m
<1>15. cut <= 2 + Len(BehindWord(words, fetchStats)[0])
  BY <1>5, <1>9
<1> HIDE DEF left
<1> DEFINE T == {k \in 0 .. n : WordsSoFar(read[k], words, fetchStats, cut, k)}
<1>16. 0 \in T
  BY <1>1, <1>6, <1>13, <1>14
<1>17. \A k \in 1 .. n : k - 1 \in T => k \in T
  <2>1. ASSUME NEW k \in 1 .. n, k - 1 \in T
        PROVE  k \in T
    <3>1. k \in 1 .. Len(words) /\ k - 1 \in 0 .. n /\ k \in 0 .. n
      BY <1>1, <1>13
    <3>2. read[k - 1] \in Readings /\ read[k] = GetEntry(read[k - 1], fetchStats)
      BY <1>6, <3>1 DEF IsReadingEntries
    <3>3. WordsSoFar(read[k - 1], words, fetchStats, cut, k - 1)
      BY <2>1
    <3>4. WordsSoFar(GetEntry(read[k - 1], fetchStats), words, fetchStats, cut, k)
      <4> DEFINE before == read[k - 1]
      <4>1. before \in Readings /\ WordsSoFar(before, words, fetchStats, cut, k - 1)
        BY <3>2, <3>3
      <4> HIDE DEF before
      <4>2. WordsSoFar(GetEntry(before, fetchStats), words, fetchStats, cut, k)
        BY <1>1, <1>15, <3>1, <4>1, NextWord
      <4> QED
        BY <4>2 DEF before
    <3> QED
      BY <3>1, <3>2, <3>4
  <2> QED
    BY <2>1
<1>18. WordsSoFar(read[n], words, fetchStats, cut, n)
  <2> HIDE DEF T
  <2>1. \A k \in 0 .. n : k \in T
    BY <1>1, <1>13, <1>16, <1>17, InductiveUpTo
  <2>2. n \in 0 .. n
    BY <1>1, <1>13
  <2> QED
    BY <2>1, <2>2 DEF T
<1>19. ASSUME NEW k \in 1 .. Len(words), Len(EncodeWords(SubSeq(words, 1, k), fetchStats)) <= cut
       PROVE  result'[k] = Entry(words[k], fetchStats)
  <2>1. k \in 0 .. Len(words)
    BY <1>1
  <2>2. UpToWord(words, fetchStats, k) <= cut
    BY <1>1, <1>19, <2>1, PartLength DEF UpToWord
  <2> QED
    BY <1>6, <1>13, <1>18, <2>2 DEF WordsSoFar
<1> QED
  BY <1>6, <1>13, <1>18, <1>19 DEF WholeWords, WordsSoFar

\* The words of which all came; they are the first ones.
WholeIn(words, fetchStats, cut) ==
    {n \in 1 .. Len(words) : Len(EncodeWords(SubSeq(words, 1, n), fetchStats)) <= cut}

LEMMA WholeAreFirst ==
    ASSUME NEW words \in Seq(Words), NEW fetchStats \in BOOLEAN, NEW cut \in Nat,
           NEW k \in 1 .. Cardinality(WholeIn(words, fetchStats, cut))
    PROVE  k \in 1 .. Len(words) /\ Len(EncodeWords(SubSeq(words, 1, k), fetchStats)) <= cut
<1> DEFINE n == Len(words)
           whole == WholeIn(words, fetchStats, cut)
           upTo == [j \in 0 .. n |-> UpToWord(words, fetchStats, j)]
<1>1. n \in Nat
  BY LenProperties
<1>2. ASSUME NEW j \in 0 .. n
      PROVE  upTo[j] \in Int /\ (1 <= j => (j \in whole <=> upTo[j] <= cut))
  <2>1. UpToWord(words, fetchStats, j) = Len(EncodeWords(SubSeq(words, 1, j), fetchStats))
    BY PartLength DEF UpToWord
  <2>2. UpToWord(words, fetchStats, j) \in Int
    BY UpToTyped
  <2> QED
    BY <1>1, <2>1, <2>2 DEF WholeIn
<1>3. ASSUME NEW j \in 1 .. n
      PROVE  upTo[j - 1] <= upTo[j]
  <2> DEFINE a == EncodeWord(words[j], fetchStats)
  <2>1. j \in 0 .. n /\ j - 1 \in 0 .. n /\ words[j] \in Words
    BY <1>1, ElementOfSeq
  <2>2. Len(a) \in Nat
    BY <2>1, WordTyped, LenProperties DEF Cells
  <2>3. upTo[j] = upTo[j - 1] + Len(a)
    BY <2>1, UpToTyped
  <2>4. upTo[j] \in Int /\ upTo[j - 1] \in Int
    BY <1>2, <2>1
  <2> HIDE DEF upTo, a
  <2> QED
    BY <2>2, <2>3, <2>4
<1>4. whole \subseteq 1 .. n
  BY DEF WholeIn
<1>5. Cardinality(whole) <= n /\ Cardinality(whole) \in Nat /\ IsFiniteSet(whole)
  <2> HIDE DEF whole, n
  <2>1. 1 \in Int /\ n \in Int /\ (IF 1 > n THEN 0 ELSE n - 1 + 1) = n
    BY <1>1
  <2>2. IsFiniteSet(1 .. n) /\ Cardinality(1 .. n) = IF 1 > n THEN 0 ELSE n - 1 + 1
    BY <2>1, FS_Interval
  <2>3. whole \in SUBSET (1 .. n) /\ Cardinality(1 .. n) = n
    BY <1>4, <2>1, <2>2
  <2>4. IsFiniteSet(whole) /\ Cardinality(whole) <= Cardinality(1 .. n)
    BY <2>2, <2>3, FS_Subset
  <2> QED
    BY <2>3, <2>4, FS_CardinalityType
<1>6. k \in 1 .. Cardinality(whole)
  OBVIOUS
<1> HIDE DEF upTo, n, whole
<1>7. k \in 1 .. n /\ k \in 0 .. n /\ k \in Nat
  BY <1>1, <1>5, <1>6
<1>8. k \in whole
  <2> SUFFICES ASSUME ~(k \in whole) PROVE FALSE
    OBVIOUS
  <2> DEFINE T == {j \in 0 .. n : j >= k => ~(upTo[j] <= cut)}
  <2>1. 0 \in T
    BY <1>1, <1>7
  <2>2. \A j \in 1 .. n : j - 1 \in T => j \in T
    <3>1. ASSUME NEW j \in 1 .. n, j - 1 \in T, j >= k
          PROVE  ~(upTo[j] <= cut)
      <4>1. j \in 0 .. n /\ j - 1 \in 0 .. n
        BY <1>1
      <4>2. upTo[j] \in Int /\ upTo[j - 1] \in Int
        BY <1>2, <4>1
      <4>3. CASE j = k
        BY <1>2, <1>7, <4>3
      <4>4. CASE j # k
        <5>1. ~(upTo[j - 1] <= cut)
          BY <1>7, <3>1, <4>4
        <5>2. upTo[j - 1] <= upTo[j]
          BY <1>3
        <5> QED
          BY <4>2, <5>1, <5>2
      <4> QED
        BY <4>3, <4>4
    <3>2. \A j \in 1 .. n : j \in 0 .. n
      BY <1>1
    <3> QED
      BY <3>1, <3>2
  <2>3. \A j \in 0 .. n : j \in T
    <3> HIDE DEF T
    <3> QED
      BY <1>1, <2>1, <2>2, InductiveUpTo
  <2>4. whole \subseteq 1 .. k - 1
    <3>1. ASSUME NEW j \in whole
          PROVE  j \in 1 .. k - 1
      <4>1. j \in 1 .. n /\ j \in 0 .. n /\ 1 <= j
        BY <1>1, <1>4
      <4>2. upTo[j] <= cut
        BY <1>2, <3>1, <4>1
      <4> QED
        BY <1>7, <2>3, <4>1, <4>2
    <3> QED
      BY <3>1
  <2>5. Cardinality(whole) <= k - 1
    <3>1. k - 1 \in Int /\ 1 \in Int
      BY <1>7
    <3>2. IsFiniteSet(1 .. k - 1) /\ Cardinality(1 .. k - 1) = IF 1 > k - 1 THEN 0 ELSE k - 1 - 1 + 1
      BY <3>1, FS_Interval
    <3>3. Cardinality(whole) <= Cardinality(1 .. k - 1)
      BY <2>4, <3>2, FS_Subset
    <3>4. (IF 1 > k - 1 THEN 0 ELSE k - 1 - 1 + 1) = k - 1
      BY <1>6, <1>7
    <3> QED
      BY <3>2, <3>3, <3>4
  <2> QED
    BY <1>5, <1>6, <1>7, <2>5
<1> QED
  BY <1>7, <1>8 DEF WholeIn, whole, n

-----------------------------------------------------------------------------
(* A call from its request to its return *)

\* The lists a caller keeps, and what else there is.
ListsKept ==
    /\ Len(attributes) <= MaxAttributes
    /\ \A d \in DOMAIN values : Len(values[d]) \in {0, Len(attributes)}
FlagsKept ==
    /\ pc \in {"idle", "launch", "header", "body", "parse", "returned"}
    /\ command \in {0, SEARCHD_COMMAND_UPDATE, SEARCHD_COMMAND_KEYWORDS}
    /\ call \in {Index} \X (Texts \cup {<<>>}) \X BOOLEAN
    /\ status \in {SEARCHD_OK, SEARCHD_ERROR} /\ Len(result) <= MaxWords
    /\ outcome \in {"none", "running", "ok", "MessageError", "ClientUsageError",
                    "ConnectionError", "ValueTypeError"} \cup MachineErrors

\* The request says what the call asks.
UpdateAsked ==
    /\ command = SEARCHD_COMMAND_UPDATE /\ Sent
    /\ Content(request)
         = RequestCells(SEARCHD_COMMAND_UPDATE, VER_COMMAND_UPDATE_0_9_8, UpdateCells)
WordsAsked ==
    /\ command = SEARCHD_COMMAND_KEYWORDS
    /\ \E query \in Texts, fetchStats \in BOOLEAN :
         /\ call = <<Index, query, fetchStats>>
         /\ Content(request)
              = RequestCells(SEARCHD_COMMAND_KEYWORDS, VER_COMMAND_KEYWORDS_0_9_8,
                             KeywordsCells(Index, query, fetchStats))

\* The answer says what searchd did, as far as it comes.
HasUpdated(body) ==
    /\ command = SEARCHD_COMMAND_UPDATE /\ Sent
    /\ \A d \in DOMAIN values : Len(values[d]) = Len(attributes)
    /\ \E known \in SUBSET Documents, cut \in 0 .. 2 :
         /\ told.applied = {u \in Asked : u[2] \in known}
         /\ body = SubSeq(CellsOf(Cardinality(DOMAIN values \cap known), 2), 1, cut)
HasFound(body) ==
    /\ command = SEARCHD_COMMAND_KEYWORDS /\ told.heard = call
    /\ told.words \in Seq(Words) /\ Len(told.words) <= MaxWords
    /\ \E cut \in Nat :
         /\ cut <= Len(EncodeWords(told.words, call[3]))
         /\ body = SubSeq(EncodeWords(told.words, call[3]), 1, cut)
         /\ told.whole = Cardinality(WholeIn(told.words, call[3], cut))
Answered(code, body) ==
    \/ code = SEARCHD_ERROR
    \/ code = SEARCHD_OK /\ (HasUpdated(body) \/ HasFound(body))

\* What was read and what is to come make up the answer.
HeaderComes ==
    /\ Network(data) /\ data.dataStartPtr = 0
    /\ \E code \in {SEARCHD_OK, SEARCHD_ERROR}, body \in Cells :
         Answered(code, body) /\ Content(data) \o incoming = Reply(code, body)
BodyComes ==
    /\ Network(data)
    /\ \E code, body : /\ code = status /\ body = Content(data) \o incoming
                       /\ Answered(code, body)
BodyCame ==
    /\ Network(data)
    /\ \E body : body = Content(data) /\ Answered(SEARCHD_OK, body)

CallKept ==
    /\ ListsKept /\ FlagsKept /\ AppliedIsAsked
    /\ pc = "launch" => UpdateAsked \/ WordsAsked
    /\ pc = "header" => HeaderComes
    /\ pc = "body" => BodyComes
    /\ pc = "parse" => BodyCame
    /\ ReturnsWhenAllUpdated /\ KeywordsWhole

\* Nothing is under way, or an exception that says nothing of the answer.
LEMMA QuietKeeps ==
    ASSUME ListsKept', FlagsKept', AppliedIsAsked',
           \/ pc' = "idle"
           \/ pc' = "returned" /\ outcome' \notin {"ok", "ClientUsageError"}
    PROVE  CallKept'
BY DEF CallKept, ReturnsWhenAllUpdated, KeywordsWhole

LEMMA NoCallTyped ==
    NoCall \in {Index} \X (Texts \cup {<<>>}) \X BOOLEAN
BY DEF NoCall

LEMMA CallKeptInit ==
    Init => CallKept
<1> SUFFICES ASSUME Init PROVE CallKept
  OBVIOUS
<1>1. /\ attributes = <<>> /\ values = <<>> /\ pc = "idle" /\ command = 0 /\ call = NoCall
      /\ status = SEARCHD_OK /\ result = <<>> /\ outcome = "none" /\ told = Nothing
  BY DEF Init
<1>2. Len(<<>>) = 0 /\ DOMAIN <<>> = {}
  OBVIOUS
<1>3. MaxAttributes \in Nat /\ MaxWords \in Nat
  BY CommandsAssumption
<1>4. ListsKept
  BY <1>1, <1>2, <1>3 DEF ListsKept
<1>5. FlagsKept
  <2>1. Len(result) <= MaxWords
    BY <1>1, <1>2, <1>3
  <2> QED
    BY <1>1, <2>1, NoCallTyped DEF FlagsKept
<1>6. AppliedIsAsked
  BY <1>1 DEF AppliedIsAsked, Nothing
<1> QED
  BY <1>1, <1>4, <1>5, <1>6 DEF CallKept, ReturnsWhenAllUpdated, KeywordsWhole

\* No call is left over from before.
LEMMA FreshTyped ==
    ASSUME FreshResponse
    PROVE  /\ Len(result') <= MaxWords /\ status' = SEARCHD_OK
           /\ told' = Nothing /\ AppliedIsAsked'
<1>1. Len(<<>>) = 0 /\ MaxWords \in Nat
  BY CommandsAssumption
<1>2. Len(result') <= MaxWords /\ status' = SEARCHD_OK /\ told' = Nothing
  BY <1>1 DEF FreshResponse
<1>3. AppliedIsAsked'
  BY <1>2 DEF AppliedIsAsked, Nothing
<1> QED
  BY <1>2, <1>3

LEMMA EditIsQuiet ==
    ASSUME FreshCall, pc' = "idle", outcome' \in {"none", "ClientUsageError"},
           command' = 0, call' = NoCall, ListsKept'
    PROVE  CallKept'
<1>1. Len(result') <= MaxWords /\ status' = SEARCHD_OK /\ AppliedIsAsked'
  BY FreshTyped DEF FreshCall
<1>2. FlagsKept'
  BY <1>1, NoCallTyped DEF FlagsKept
<1> QED
  BY <1>1, <1>2, QuietKeeps

LEMMA WithDocumentKeeps ==
    ASSUME ListsKept, NEW d \in Documents, NEW vector, Len(vector) \in {0, Len(attributes)},
           attributes' = attributes, values' = WithDocument(d, vector)
    PROVE  ListsKept'
<1>1. ASSUME NEW e \in DOMAIN values'
      PROVE  Len(values'[e]) \in {0, Len(attributes')}
  BY DEF ListsKept, WithDocument
<1>2. Len(attributes') <= MaxAttributes
  BY DEF ListsKept
<1> QED
  BY <1>1, <1>2 DEF ListsKept

LEMMA EditsKeepCalls ==
    ASSUME BuffersKept, CallKept,
           \/ SetAttributeList
           \/ \E name \in Names : AddAttribute(name)
           \/ \E d \in Documents :
                AddDocument(d) \/ \E type \in {"uint32", "float", "uint64"} : AddDocumentTyped(d, type)
    PROVE  CallKept'
<1>1. DOMAIN <<>> = {} /\ Len(<<>>) = 0
  OBVIOUS
<1>2. /\ attributes \in Seq(Names) /\ Len(attributes) \in Nat /\ DOMAIN attributes = 1 .. Len(attributes)
      /\ ListsKept
  BY LenProperties DEF BuffersKept, CallKept
<1>3. MaxAttributes \in Nat
  BY CommandsAssumption
<1>4. CASE SetAttributeList
  <2>1. PICK list \in BoundedSeq(Names, MaxAttributes) : attributes' = list
    BY <1>4 DEF SetAttributeList
  <2>2. Len(attributes') <= MaxAttributes
    <3>1. Len(list) <= MaxAttributes
      BY <1>3, InBounded
    <3> QED
      BY <2>1, <3>1
  <2>3. /\ values' = <<>> /\ FreshCall /\ pc' = "idle" /\ outcome' = "none"
        /\ command' = 0 /\ call' = NoCall
    BY <1>4 DEF SetAttributeList, Edit
  <2>4. ListsKept'
    BY <1>1, <2>2, <2>3 DEF ListsKept
  <2> QED
    BY <2>3, <2>4, EditIsQuiet
<1>5. ASSUME NEW name \in Names, AddAttribute(name)
      PROVE  CallKept'
  <2>1. Len(attributes) < MaxAttributes /\ attributes' = Append(attributes, name)
    BY <1>5 DEF AddAttribute
  <2>2. Len(attributes') = Len(attributes) + 1
    BY <1>2, <2>1, AppendProperties
  <2>3. /\ values' = <<>> /\ FreshCall /\ pc' = "idle" /\ outcome' = "none"
        /\ command' = 0 /\ call' = NoCall
    BY <1>5 DEF AddAttribute, Edit
  <2>4. ListsKept'
    BY <1>1, <1>2, <1>3, <2>1, <2>2, <2>3 DEF ListsKept
  <2> QED
    BY <2>3, <2>4, EditIsQuiet
<1>6. ASSUME NEW d \in Documents, AddDocument(d)
      PROVE  CallKept'
  <2>1. PICK vector \in BoundedSeq(Values, MaxAttributes) :
          /\ pc' = "idle" /\ FreshCall /\ attributes' = attributes /\ command' = 0 /\ call' = NoCall
          /\ IF Len(vector) # Len(attributes)
             THEN outcome' = "ClientUsageError" /\ UNCHANGED values
             ELSE outcome' = "none" /\ values' = WithDocument(d, vector)
    BY <1>6 DEF AddDocument
  <2>2. ListsKept'
    <3>1. CASE Len(vector) # Len(attributes)
      BY <1>2, <2>1, <3>1 DEF ListsKept
    <3>2. CASE ~(Len(vector) # Len(attributes))
      <4>1. Len(vector) \in {0, Len(attributes)} /\ values' = WithDocument(d, vector)
        BY <2>1, <3>2
      <4> QED
        BY <1>2, <2>1, <4>1, WithDocumentKeeps
    <3> QED
      BY <3>1, <3>2
  <2> QED
    BY <2>1, <2>2, EditIsQuiet
<1>7. ASSUME NEW d \in Documents, NEW type, AddDocumentTyped(d, type)
      PROVE  CallKept'
  <2>1. /\ pc' = "idle" /\ FreshCall /\ attributes' = attributes /\ outcome' = "none"
        /\ command' = 0 /\ call' = NoCall
    BY <1>7 DEF AddDocumentTyped, Edit
  <2>2. ListsKept'
    <3>1. CASE type \in {"uint32", "float"}
      <4>1. PICK vector \in [DOMAIN attributes -> {v \in Values : v.type = type}] :
              values' = WithDocument(d, vector)
        BY <1>7, <3>1 DEF AddDocumentTyped
      <4>2. vector \in [1 .. Len(attributes) -> Values]
        BY <1>2
      <4>3. Len(vector) = Len(attributes)
        BY <1>2, <4>2
      <4> QED
        BY <1>2, <2>1, <4>1, <4>3, WithDocumentKeeps
    <3>2. CASE ~(type \in {"uint32", "float"})
      <4>1. values' = WithDocument(d, <<>>) /\ Len(<<>>) \in {0, Len(attributes)}
        BY <1>1, <1>7, <3>2 DEF AddDocumentTyped
      <4> QED
        BY <1>2, <2>1, <4>1, WithDocumentKeeps
    <3> QED
      BY <3>1, <3>2
  <2> QED
    BY <2>1, <2>2, EditIsQuiet
<1> QED
  BY <1>4, <1>5, <1>6, <1>7

LEMMA ObjectKept ==
    ASSUME UNCHANGED object
    PROVE  /\ UpdateCells' = UpdateCells /\ (Sent' <=> Sent) /\ Asked' = Asked
           /\ (ListsKept' <=> ListsKept)
<1>1. attributes' = attributes /\ values' = values
  BY DEF object
<1>2. UpdateCells' = UpdateCells
  BY <1>1 DEF UpdateCells, Rows, RowCells
<1>3. Sent' <=> Sent
  BY <1>1 DEF Sent, ValuesTyped, Convertible
<1>4. Asked' = Asked
  BY <1>1 DEF Asked
<1>5. ListsKept' <=> ListsKept
  BY <1>1 DEF ListsKept
<1> QED
  BY <1>2, <1>3, <1>4, <1>5

LEMMA CallsKeepCalls ==
    ASSUME BuffersKept, CallKept,
           UpdateAttributes \/ \E query \in Texts, fetchStats \in BOOLEAN : GetKeywords(query, fetchStats)
    PROVE  CallKept'
<1>1. ListsKept /\ attributes \in Seq(Names) /\ ValuesTyped
  BY DEF BuffersKept, CallKept
<1>2. ASSUME FreshResponse, UNCHANGED object, pc' = "launch", outcome' = "running",
             command' \in {SEARCHD_COMMAND_UPDATE, SEARCHD_COMMAND_KEYWORDS},
             call' \in {Index} \X (Texts \cup {<<>>}) \X BOOLEAN,
             UpdateAsked' \/ WordsAsked'
      PROVE  CallKept'
  <2>1. /\ Len(result') <= MaxWords /\ status' = SEARCHD_OK /\ AppliedIsAsked' /\ ListsKept'
    BY <1>1, <1>2, FreshTyped, ObjectKept
  <2>2. FlagsKept'
    BY <1>2, <2>1 DEF FlagsKept
  <2> QED
    BY <1>2, <2>1, <2>2 DEF CallKept, ReturnsWhenAllUpdated, KeywordsWhole
<1>3. CASE UpdateAttributes
  <2>1. /\ FreshResponse /\ UNCHANGED object
        /\ command' = SEARCHD_COMMAND_UPDATE /\ call' = NoCall
    BY <1>3 DEF UpdateAttributes
  <2>2. CASE Convertible
    <3>1. Send(SEARCHD_COMMAND_UPDATE, VER_COMMAND_UPDATE_0_9_8, BuildUpdateRequest)
      BY <1>3, <2>2 DEF UpdateAttributes
    <3> DEFINE body == BuildUpdateRequest
    <3>2. Network(body) /\ Content(body) = UpdateCells
      BY <1>1, UpdateContent
    <3>3. VER_COMMAND_UPDATE_0_9_8 \in Nat
      BY DEF VER_COMMAND_UPDATE_0_9_8
    <3>4. /\ request' = PutQuery(BuildHeader(SEARCHD_COMMAND_UPDATE, VER_COMMAND_UPDATE_0_9_8,
                                             BytesOf(body), 1), body)
          /\ pc' = "launch" /\ outcome' = "running"
      BY <3>1 DEF Send
    <3> HIDE DEF body
    <3>5. Content(request')
            = CellsOf(SEARCHD_COMMAND_UPDATE, 1) \o (CellsOf(VER_COMMAND_UPDATE_0_9_8, 1)
               \o (CellsOf(2 * Len(Content(body)), 2) \o Content(body)))
      BY <3>2, <3>3, <3>4, RequestContent
    <3>6. Content(request')
            = RequestCells(SEARCHD_COMMAND_UPDATE, VER_COMMAND_UPDATE_0_9_8, UpdateCells)
      BY <3>2, <3>5 DEF RequestCells
    <3>7. Sent' /\ UpdateCells' = UpdateCells
      <4>1. Sent
        BY <1>1, <2>2 DEF Sent, ListsKept
      <4> QED
        BY <2>1, <4>1, ObjectKept
    <3>8. UpdateAsked'
      BY <2>1, <3>6, <3>7 DEF UpdateAsked
    <3> QED
      BY <1>2, <2>1, <3>4, <3>8, NoCallTyped
  <2>3. CASE ~Convertible
    <3>1. pc' = "returned" /\ outcome' = "ValueTypeError"
      BY <1>3, <2>3 DEF UpdateAttributes, Return
    <3>2. /\ Len(result') <= MaxWords /\ status' = SEARCHD_OK /\ AppliedIsAsked' /\ ListsKept'
      BY <1>1, <2>1, FreshTyped, ObjectKept
    <3>3. FlagsKept'
      BY <2>1, <3>1, <3>2, NoCallTyped DEF FlagsKept
    <3> QED
      BY <3>1, <3>2, <3>3, QuietKeeps
  <2> QED
    BY <2>2, <2>3
<1>4. ASSUME NEW query \in Texts, NEW fetchStats \in BOOLEAN, GetKeywords(query, fetchStats)
      PROVE  CallKept'
  <2> DEFINE body == BuildKeywordsRequest(Index, query, fetchStats)
  <2>1. /\ FreshResponse /\ UNCHANGED object
        /\ command' = SEARCHD_COMMAND_KEYWORDS /\ call' = <<Index, query, fetchStats>>
        /\ Send(SEARCHD_COMMAND_KEYWORDS, VER_COMMAND_KEYWORDS_0_9_8, body)
    BY <1>4 DEF GetKeywords
  <2>2. Network(body) /\ Content(body) = KeywordsCells(Index, query, fetchStats)
    BY KeywordsContent
  <2>3. VER_COMMAND_KEYWORDS_0_9_8 \in Nat
    BY DEF VER_COMMAND_KEYWORDS_0_9_8
  <2>4. /\ request' = PutQuery(BuildHeader(SEARCHD_COMMAND_KEYWORDS, VER_COMMAND_KEYWORDS_0_9_8,
                                           BytesOf(body), 1), body)
        /\ pc' = "launch" /\ outcome' = "running"
    BY <2>1 DEF Send
  <2> HIDE DEF body
  <2>5. Content(request')
          = CellsOf(SEARCHD_COMMAND_KEYWORDS, 1) \o (CellsOf(VER_COMMAND_KEYWORDS_0_9_8, 1)
             \o (CellsOf(2 * Len(Content(body)), 2) \o Content(body)))
    BY <2>2, <2>3, <2>4, RequestContent
  <2>6. Content(request')
          = RequestCells(SEARCHD_COMMAND_KEYWORDS, VER_COMMAND_KEYWORDS_0_9_8,
                         KeywordsCells(Index, query, fetchStats))
    BY <2>2, <2>5 DEF RequestCells
  <2>7. WordsAsked'
    BY <2>1, <2>6 DEF WordsAsked
  <2>8. call' \in {Index} \X (Texts \cup {<<>>}) \X BOOLEAN
    BY <2>1
  <2> QED
    BY <1>2, <2>1, <2>4, <2>7, <2>8
<1> QED
  BY <1>3, <1>4

LEMMA ThrowKeepsCalls ==
    ASSUME CallKept, LaunchThrows
    PROVE  CallKept'
<1>1. PICK error \in MachineErrors : pc' = "returned" /\ outcome' = error
  BY DEF LaunchThrows, Return
<1>2. /\ UNCHANGED object /\ command' = command /\ call' = call /\ status' = status
      /\ result' = result /\ told' = told
  BY DEF LaunchThrows
<1>3. /\ outcome' \notin {"ok", "ClientUsageError"} /\ outcome' \in MachineErrors
  BY <1>1, CommandsAssumption
<1>4. ListsKept' /\ FlagsKept'
  BY <1>1, <1>2, <1>3, ObjectKept DEF CallKept, FlagsKept
<1>5. AppliedIsAsked'
  BY <1>2, ObjectKept DEF CallKept, AppliedIsAsked, object
<1> QED
  BY <1>1, <1>3, <1>4, <1>5, QuietKeeps

LEMMA AnsweredKept ==
    ASSUME UNCHANGED <<object, command, call, told>>, NEW code, NEW body, Answered(code, body)
    PROVE  Answered(code, body)'
<1>1. /\ UNCHANGED object /\ attributes' = attributes /\ values' = values
      /\ command' = command /\ call' = call /\ told' = told
  BY DEF object
<1>2. (Sent' <=> Sent) /\ Asked' = Asked
  BY <1>1, ObjectKept
<1>3. ASSUME HasUpdated(body)
      PROVE  HasUpdated(body)'
  BY <1>1, <1>2, <1>3 DEF HasUpdated
<1>4. ASSUME HasFound(body)
      PROVE  HasFound(body)'
  BY <1>1, <1>4 DEF HasFound
<1> QED
  BY <1>3, <1>4 DEF Answered

\* Whatever searchd does, its answer comes whole.
LEMMA AnswerComes ==
    ASSUME BuffersKept, CallKept, pc = "launch", pc' = "header",
           NEW code \in {SEARCHD_OK, SEARCHD_ERROR}, NEW body \in Cells, incoming' = Reply(code, body),
           UNCHANGED <<object, command, call, status, data, result, outcome>>,
           Answered(code, body)', AppliedIsAsked'
    PROVE  CallKept'
<1>1. incoming' \in Cells
  <2>1. code \in Nat
    BY DEF SEARCHD_OK, SEARCHD_ERROR
  <2> QED
    BY <2>1, ReplyTyped
<1>2. Network(data') /\ data'.dataStartPtr = 0 /\ Content(data') = <<>>
  BY NewBuffer DEF BuffersKept, Network
<1>3. Content(data') \o incoming' = Reply(code, body)
  <2>1. <<>> \o incoming' = incoming'
    BY <1>1, ConcatEmptySeq DEF Cells
  <2> QED
    BY <1>2, <2>1
<1>4. HeaderComes'
  BY <1>2, <1>3 DEF HeaderComes
<1>5. ListsKept' /\ FlagsKept'
  BY ObjectKept DEF CallKept, FlagsKept
<1> QED
  BY <1>4, <1>5 DEF CallKept, ReturnsWhenAllUpdated, KeywordsWhole

LEMMA RefusalKeepsCalls ==
    ASSUME BuffersKept, CallKept, SearchdRefuses
    PROVE  CallKept'
<1> DEFINE body == EncodeText(<<>>)
<1>1. /\ pc = "launch" /\ pc' = "header" /\ incoming' = Reply(SEARCHD_ERROR, body)
      /\ UNCHANGED <<object, command, call, status, data, result, outcome>> /\ told' = told
  BY DEF SearchdRefuses
<1>2. body \in Cells
  <2>1. <<>> \in Cells
    BY EmptySeq DEF Cells
  <2> QED
    BY <2>1, EncodeTextTyped
<1>3. Answered(SEARCHD_ERROR, body)'
  BY DEF Answered
<1>4. AppliedIsAsked'
  BY <1>1, ObjectKept DEF CallKept, AppliedIsAsked, object
<1> HIDE DEF body
<1> QED
  BY <1>1, <1>2, <1>3, <1>4, AnswerComes

\* An update that can be read is that of the caller, and a command is taken for
\* no other.
LEMMA ReadAsAsked ==
    ASSUME UpdateAsked \/ WordsAsked, RequestHead.got[1] = SEARCHD_COMMAND_UPDATE
    PROVE  UpdateAsked /\ RequestHead.rest = UpdateCells
<1>1. CASE UpdateAsked
  <2>1. UpdateCells \in Cells
    BY <1>1, UpdateTyped DEF UpdateAsked
  <2>2. SEARCHD_COMMAND_UPDATE \in Nat /\ VER_COMMAND_UPDATE_0_9_8 \in Nat
    BY DEF SEARCHD_COMMAND_UPDATE, VER_COMMAND_UPDATE_0_9_8
  <2> QED
    BY <1>1, <2>1, <2>2, RequestBack DEF UpdateAsked
<1>2. CASE WordsAsked
  <2>1. PICK query \in Texts, fetchStats \in BOOLEAN :
          Content(request) = RequestCells(SEARCHD_COMMAND_KEYWORDS, VER_COMMAND_KEYWORDS_0_9_8,
                                          KeywordsCells(Index, query, fetchStats))
    BY <1>2 DEF WordsAsked
  <2>2. KeywordsCells(Index, query, fetchStats) \in Cells
    BY KeywordsContent, ContentIs DEF Network
  <2>3. SEARCHD_COMMAND_KEYWORDS \in Nat /\ VER_COMMAND_KEYWORDS_0_9_8 \in Nat
    BY DEF SEARCHD_COMMAND_KEYWORDS, VER_COMMAND_KEYWORDS_0_9_8
  <2>4. RequestHead.got[1] = Number(CellsOf(SEARCHD_COMMAND_KEYWORDS, 1))
    BY <2>1, <2>2, <2>3, RequestBack
  <2> QED
    BY <2>4, CommandsDiffer
<1> QED
  BY <1>1, <1>2

LEMMA UpdatingKeepsCalls ==
    ASSUME BuffersKept, CallKept, SearchdUpdates
    PROVE  CallKept'
<1> DEFINE update == ReadUpdate(RequestHead.rest)
<1>1. /\ pc = "launch" /\ pc' = "header" /\ update.ok
      /\ RequestHead.got[1] = SEARCHD_COMMAND_UPDATE
      /\ UNCHANGED <<object, command, call, status, data, result, outcome>>
  BY DEF SearchdUpdates
<1>2. PICK known \in SUBSET Documents, cut \in 0 .. 2 :
        /\ told' = [Nothing EXCEPT !.applied = {u \in update.updates : u[2] \in known}]
        /\ incoming' = Reply(SEARCHD_OK,
               SubSeq(CellsOf(Cardinality(update.documents \cap known), 2), 1, cut))
  BY DEF SearchdUpdates
<1>3. UpdateAsked /\ RequestHead.rest = UpdateCells
  BY <1>1, ReadAsAsked DEF CallKept
<1>4. /\ \A d \in DOMAIN values : Len(values[d]) = Len(attributes)
      /\ update.documents = DOMAIN values /\ update.updates = Asked
  BY <1>1, <1>3, UpdateRead DEF UpdateAsked
<1>5. told'.applied = {u \in Asked : u[2] \in known}
  BY <1>2, <1>4 DEF Nothing
<1> DEFINE number == Cardinality(DOMAIN values \cap known)
<1>6. PICK body : /\ body = SubSeq(CellsOf(number, 2), 1, cut)
                  /\ incoming' = Reply(SEARCHD_OK, body)
  BY <1>2, <1>4
<1> HIDE DEF update
<1>7. /\ Sent' /\ Asked' = Asked /\ attributes' = attributes /\ values' = values
      /\ attributes \in Seq(Names) /\ \A d \in DOMAIN values : values[d] \in Seq(Values)
  BY <1>1, <1>3, ObjectKept DEF object, UpdateAsked, BuffersKept, ValuesTyped
<1>8. body \in Cells
  <2>1. number \in Nat
    <3>1. IsFiniteSet(DOMAIN values \cap known)
      BY CommandsAssumption, FS_Subset
    <3> QED
      BY <3>1, FS_CardinalityType
  <2>2. CellsOf(number, 2) \in Cells /\ Len(CellsOf(number, 2)) = 2
    <3> HIDE DEF number
    <3>1. 2 \in Nat
      OBVIOUS
    <3> QED
      BY <2>1, <3>1, CellsOfTyped
  <2> QED
    BY <1>6, <2>2, PartTyped
<1>9. HasUpdated(body)'
  BY <1>1, <1>3, <1>4, <1>5, <1>6, <1>7 DEF HasUpdated, UpdateAsked
<1>10. AppliedIsAsked'
  <2>1. \A d \in DOMAIN values : DOMAIN values[d] = DOMAIN attributes
    BY <1>4, <1>7, LenProperties
  <2>2. told'.applied \subseteq Asked'
    BY <1>5, <1>7
  <2> QED
    BY <1>7, <2>1, <2>2 DEF AppliedIsAsked
<1>11. Answered(SEARCHD_OK, body)'
  BY <1>9 DEF Answered
<1> QED
  BY <1>1, <1>6, <1>8, <1>10, <1>11, AnswerComes

LEMMA WordsReadAsAsked ==
    ASSUME UpdateAsked \/ WordsAsked, RequestHead.got[1] = SEARCHD_COMMAND_KEYWORDS
    PROVE  /\ command = SEARCHD_COMMAND_KEYWORDS
           /\ call = <<KeywordsAsked.got[2], KeywordsAsked.got[1], KeywordsAsked.got[3] # 0>>
           /\ call[3] \in BOOLEAN /\ call[3] = (KeywordsAsked.got[3] # 0)
<1>1. CASE UpdateAsked
  <2>1. UpdateCells \in Cells
    BY <1>1, UpdateTyped DEF UpdateAsked
  <2>2. SEARCHD_COMMAND_UPDATE \in Nat /\ VER_COMMAND_UPDATE_0_9_8 \in Nat
    BY DEF SEARCHD_COMMAND_UPDATE, VER_COMMAND_UPDATE_0_9_8
  <2>3. RequestHead.got[1] = Number(CellsOf(SEARCHD_COMMAND_UPDATE, 1))
    BY <1>1, <2>1, <2>2, RequestBack DEF UpdateAsked
  <2> QED
    BY <2>3, CommandsDiffer
<1>2. CASE WordsAsked
  <2>1. PICK query \in Texts, fetchStats \in BOOLEAN :
          /\ call = <<Index, query, fetchStats>>
          /\ Content(request)
               = RequestCells(SEARCHD_COMMAND_KEYWORDS, VER_COMMAND_KEYWORDS_0_9_8,
                              KeywordsCells(Index, query, fetchStats))
    BY <1>2 DEF WordsAsked
  <2>2. KeywordsCells(Index, query, fetchStats) \in Cells
    BY KeywordsContent, ContentIs DEF Network
  <2>3. SEARCHD_COMMAND_KEYWORDS \in Nat /\ VER_COMMAND_KEYWORDS_0_9_8 \in Nat
    BY DEF SEARCHD_COMMAND_KEYWORDS, VER_COMMAND_KEYWORDS_0_9_8
  <2>4. RequestHead.rest = KeywordsCells(Index, query, fetchStats)
    BY <2>1, <2>2, <2>3, RequestBack
  <2>5. /\ KeywordsAsked.got[1] = query /\ KeywordsAsked.got[2] = Index
        /\ (KeywordsAsked.got[3] # 0) = fetchStats
    BY <2>4, KeywordsBack
  <2> QED
    BY <1>2, <2>1, <2>5 DEF WordsAsked
<1> QED
  BY <1>1, <1>2

LEMMA FindingKeepsCalls ==
    ASSUME BuffersKept, CallKept, SearchdFindsWords
    PROVE  CallKept'
<1> DEFINE asked == KeywordsAsked
           stats == asked.got[3] # 0
<1>1. /\ pc = "launch" /\ pc' = "header"
      /\ RequestHead.got[1] = SEARCHD_COMMAND_KEYWORDS
      /\ UNCHANGED <<object, command, call, request, status, data, result, outcome>>
  BY DEF SearchdFindsWords
<1>2. PICK words \in BoundedSeq(Words, MaxWords) :
        \E cut \in 0 .. Len(EncodeWords(words, stats)) :
          /\ incoming' = Reply(SEARCHD_OK, SubSeq(EncodeWords(words, stats), 1, cut))
          /\ told' = [Nothing EXCEPT
               !.heard = <<asked.got[2], asked.got[1], stats>>, !.words = words,
               !.whole = Cardinality({n \in 1 .. Len(words) :
                   Len(EncodeWords(SubSeq(words, 1, n), stats)) <= cut})]
  BY DEF SearchdFindsWords, KeywordsAsked
<1> HIDE DEF asked, stats
<1>2a. PICK cut \in 0 .. Len(EncodeWords(words, stats)) :
        /\ incoming' = Reply(SEARCHD_OK, SubSeq(EncodeWords(words, stats), 1, cut))
        /\ told' = [Nothing EXCEPT
             !.heard = <<asked.got[2], asked.got[1], stats>>, !.words = words,
             !.whole = Cardinality({n \in 1 .. Len(words) :
                 Len(EncodeWords(SubSeq(words, 1, n), stats)) <= cut})]
  BY <1>2
<1>3. /\ command = SEARCHD_COMMAND_KEYWORDS /\ call = <<asked.got[2], asked.got[1], stats>>
      /\ call[3] \in BOOLEAN /\ call[3] = stats
  BY <1>1, WordsReadAsAsked DEF CallKept, asked, stats
<1>4. words \in Seq(Words) /\ Len(words) <= MaxWords
  BY CommandsAssumption, InBounded
<1>5. EncodeWords(words, stats) \in Cells /\ Len(EncodeWords(words, stats)) \in Nat
  <2>1. EncodeWords(words, call[3]) \in Cells
    BY <1>3, EncodeWordsTyped
  <2> QED
    BY <1>3, <2>1, LenProperties DEF Cells
<1>6. PICK body : /\ body = SubSeq(EncodeWords(words, call[3]), 1, cut)
                  /\ incoming' = Reply(SEARCHD_OK, body)
  BY <1>2a, <1>3
<1>7. body \in Cells /\ cut \in Nat /\ cut <= Len(EncodeWords(words, call[3]))
  BY <1>3, <1>5, <1>6, PartTyped
<1>8. /\ told'.heard = call /\ told'.words = words
      /\ told'.whole = Cardinality(WholeIn(words, call[3], cut))
      /\ told'.applied = {}
  BY <1>2a, <1>3 DEF Nothing, WholeIn
<1>9. /\ command' = command /\ call' = call
  BY <1>1
<1>10. HasFound(body)'
  BY <1>3, <1>4, <1>6, <1>7, <1>8, <1>9 DEF HasFound
<1>11. Answered(SEARCHD_OK, body)'
  BY <1>10 DEF Answered
<1>12. AppliedIsAsked'
  BY <1>8 DEF AppliedIsAsked
<1> QED
  BY <1>1, <1>6, <1>7, <1>11, <1>12, AnswerComes

\* What was received stands behind what was there, and the rest is to come.
LEMMA Received ==
    ASSUME Network(data), incoming \in Cells, NEW wanted \in Int,
           wanted <= Len(incoming), NEW n \in Receivable(data, wanted)
    PROVE  /\ n \in Nat /\ n <= wanted /\ Network(Receive(n)) /\ Later(n) \in Cells
           /\ Receive(n).dataStartPtr = data.dataStartPtr
           /\ Receive(n).dataEndPtr = data.dataEndPtr + n
           /\ Content(Receive(n)) \o Later(n) = Content(data) \o incoming
           /\ n = Len(incoming) => Content(Receive(n)) = Content(data) \o incoming
<1> DEFINE part == SubSeq(incoming, 1, n)
<1>1. data \in GoodBuffers /\ data.convertEndian /\ Len(incoming) \in Nat
  BY LenProperties DEF Network, Cells
<1>2. /\ n \in Nat /\ n <= Len(incoming) /\ Receive(n) \in GoodBuffers
      /\ Receive(n).dataEndPtr = data.dataEndPtr + n
      /\ Later(n) \in Cells /\ Len(Later(n)) = Len(incoming) - n
  BY <1>1, ReceiveTyped
<1>3. n \in 0 .. Len(incoming)
  BY <1>1, <1>2
<1>4. part \in Cells /\ Len(part) = n
  BY <1>3, PartTyped
<1>5. Receive(n) = ReadOnReadable(data, part)
  BY DEF Receive
<1>6. part \o Later(n) = incoming
  <2>1. incoming \in Seq(Nat) /\ 1 \in 1 .. Len(incoming) + 1
        /\ n \in 1 - 1 .. Len(incoming) /\ Len(incoming) \in n .. Len(incoming)
    BY <1>1, <1>2 DEF Cells
  <2>2. SubSeq(incoming, 1, n) \o SubSeq(incoming, n + 1, Len(incoming))
          = SubSeq(incoming, 1, Len(incoming))
    BY <2>1, ConcatAdjacentSubSeq
  <2>3. SubSeq(incoming, 1, Len(incoming)) = incoming
    BY <2>1, SubSeqFull
  <2> QED
    BY <2>2, <2>3 DEF Later
<1>7. n = Len(incoming) => part = incoming
  BY SubSeqFull DEF Cells
<1> HIDE DEF part
<1>8. Extends(ReadOnReadable(data, part), data, part) /\ n <= wanted
  BY <1>1, <1>4, ReadExtends
<1>9. /\ Receive(n).convertEndian /\ Receive(n).dataStartPtr = data.dataStartPtr
      /\ Content(Receive(n)) = Content(data) \o part
  BY <1>1, <1>5, <1>8 DEF Extends
<1>10. (Content(data) \o part) \o Later(n) = Content(data) \o (part \o Later(n))
  <2>1. Content(data) \in Cells
    BY <1>1, ContentIs
  <2> QED
    BY <1>2, <1>4, <2>1, Regrouped
<1> QED
  BY <1>2, <1>6, <1>7, <1>8, <1>9, <1>10 DEF Network

\* A header that came whole is taken off, and the body is to come.
HeaderCells(code, body) == CellsOf(code, 1) \o (CellsOf(1, 1) \o CellsOf(2 * Len(body), 2))

LEMMA HeaderTyped ==
    ASSUME NEW code \in Nat, NEW body \in Cells
    PROVE  /\ HeaderCells(code, body) \in Cells /\ Len(HeaderCells(code, body)) = 4
           /\ Reply(code, body) = HeaderCells(code, body) \o body
           /\ CellsOf(1, 1) \o CellsOf(2 * Len(body), 2) \in Cells
           /\ CellsOf(2 * Len(body), 2) \in Cells
<1> DEFINE a == CellsOf(code, 1)
           b == CellsOf(1, 1)
           c == CellsOf(2 * Len(body), 2)
<1>1. Len(body) \in Nat /\ 2 * Len(body) \in Nat /\ 1 \in Nat /\ 2 \in Nat
  BY LenProperties DEF Cells
<1>2. /\ a \in Cells /\ Len(a) = 1 /\ b \in Cells /\ Len(b) = 1
      /\ c \in Cells /\ Len(c) = 2
  BY <1>1, CellsOfTyped
<1>3. HeaderCells(code, body) = a \o (b \o c) /\ Reply(code, body) = ((a \o b) \o c) \o body
  BY DEF HeaderCells, Reply
<1>4. CellsOf(1, 1) \o CellsOf(2 * Len(body), 2) = b \o c /\ CellsOf(2 * Len(body), 2) = c
  OBVIOUS
<1> HIDE DEF a, b, c
<1> DEFINE bc == b \o c
<1>5. bc \in Cells /\ Len(bc) = 3
  <2>1. bc \in Cells /\ Len(bc) = Len(b) + Len(c)
    BY <1>2, JoinTyped
  <2> HIDE DEF bc
  <2> QED
    BY <1>2, <2>1
<1>6. (a \o b) \o c = a \o bc
  BY <1>2, Regrouped, Zenon
<1> HIDE DEF bc
<1>7. a \o bc \in Cells /\ Len(a \o bc) = 4
  <2>1. a \o bc \in Cells /\ Len(a \o bc) = Len(a) + Len(bc)
    BY <1>2, <1>5, JoinTyped
  <2> QED
    BY <1>2, <1>5, <2>1
<1>8. HeaderCells(code, body) = a \o bc /\ Reply(code, body) = (a \o bc) \o body
  BY <1>3, <1>6 DEF bc
<1>9. CellsOf(1, 1) \o CellsOf(2 * Len(body), 2) \in Cells /\ CellsOf(2 * Len(body), 2) \in Cells
  BY <1>2, <1>4, <1>5 DEF bc
<1> QED
  BY <1>7, <1>8, <1>9

LEMMA TakesHeader ==
    ASSUME NEW header, Network(header), NEW code \in {SEARCHD_OK, SEARCHD_ERROR}, NEW body \in Cells,
           Content(header) = HeaderCells(code, body)
    PROVE  LET first   == Get(header, 1)
               version == Get(first.rest, 1)
               length  == GetWord(version.rest)
           IN first.value = code /\ Network(length.rest) /\ Content(length.rest) = <<>>
<1> DEFINE b == CellsOf(1, 1)
           c == CellsOf(2 * Len(body), 2)
           bc == b \o c
           first   == Get(header, 1)
           version == Get(first.rest, 1)
           length  == GetWord(version.rest)
<1>1. /\ 1 \in 1 .. 4 /\ 2 \in 1 .. 4 /\ 1 \in Nat /\ 0 \in Nat /\ 2 * Len(body) \in Nat
      /\ code \in Nat /\ <<>> \in Cells
  BY LenProperties, EmptySeq DEF Cells, SEARCHD_OK, SEARCHD_ERROR
<1>2. bc \in Cells /\ c \in Cells /\ Content(header) = CellsOf(code, 1) \o bc
  BY <1>1, HeaderTyped DEF HeaderCells
<1>3. Fits(code, 1)
  <2>1. code < CellBase
    BY BufferAssumption DEF SEARCHD_OK, SEARCHD_ERROR
  <2> QED
    BY <1>1, <2>1, ShortFits
<1> HIDE DEF bc
<1>4. GetsValue(first, code, bc)
  BY <1>1, <1>2, <1>3, GetsNumber
<1> HIDE DEF first
<1>5. first.value = code /\ Network(first.rest) /\ Content(first.rest) = CellsOf(1, 1) \o c
  BY <1>4 DEF GetsValue, bc
<1> HIDE DEF c
<1>6. GetsValue(version, Number(CellsOf(1, 1)), c)
  BY <1>1, <1>2, <1>5, GetsCells
<1> HIDE DEF version
<1>7. Network(version.rest) /\ Content(version.rest) = CellsOf(2 * Len(body), 2) \o <<>>
  <2>1. c \o <<>> = c
    BY <1>2, ConcatEmptySeq DEF Cells
  <2> QED
    BY <1>6, <2>1 DEF GetsValue, c
<1>8. GetsValue(Get(version.rest, 2), Number(CellsOf(2 * Len(body), 2)), <<>>)
  <2> DEFINE size == 2 * Len(body)
  <2>1. size \in Nat /\ Content(version.rest) = CellsOf(size, 2) \o <<>>
    BY <1>1, <1>7
  <2> HIDE DEF size
  <2>2. GetsValue(Get(version.rest, 2), Number(CellsOf(size, 2)), <<>>)
    BY <1>1, <1>7, <2>1, GetsCells
  <2> QED
    BY <2>2 DEF size
<1>9. Network(length.rest) /\ Content(length.rest) = <<>>
  BY <1>8 DEF GetsValue, GetWord
<1> QED
  BY <1>5, <1>9 DEF length, version, first

\* A step of the reading changes nothing that the caller or searchd did.
LEMMA ReadingKeeps ==
    ASSUME CallKept, UNCHANGED <<object, command, call, result, told>>
    PROVE  /\ ListsKept' /\ AppliedIsAsked'
           /\ (FlagsKept' <=> /\ pc' \in {"idle", "launch", "header", "body", "parse", "returned"}
                              /\ status' \in {SEARCHD_OK, SEARCHD_ERROR}
                              /\ outcome' \in {"none", "running", "ok", "MessageError",
                                               "ClientUsageError", "ConnectionError",
                                               "ValueTypeError"} \cup MachineErrors)
<1>1. ListsKept'
  BY ObjectKept DEF CallKept
<1>2. AppliedIsAsked'
  BY ObjectKept DEF CallKept, AppliedIsAsked, object
<1> QED
  BY <1>1, <1>2 DEF CallKept, FlagsKept

LEMMA HeaderKeepsCalls ==
    ASSUME BuffersKept, CallKept, ReadHeader
    PROVE  CallKept'
<1>1. /\ pc = "header" /\ UNCHANGED <<object, command, call, request, result, told>>
  BY DEF ReadHeader
<1>2. PICK n \in Receivable(data, HeaderLength - data.dataEndPtr) :
        LET header  == Receive(n)
            code    == Get(header, 1)
            version == Get(code.rest, 1)
            length  == GetWord(version.rest)
        IN /\ incoming' = Later(n)
           /\ IF header.dataEndPtr < HeaderLength
              THEN data' = header /\ UNCHANGED <<pc, status, outcome>>
              ELSE /\ status' = code.value /\ data' = length.rest
                   /\ IF length.value = 0 THEN Return("ConnectionError")
                      ELSE pc' = "body" /\ UNCHANGED outcome
  BY DEF ReadHeader
<1>3. /\ Network(data) /\ data.dataStartPtr = 0 /\ incoming \in Cells /\ Len(incoming) \in Nat
      /\ Len(incoming) + data.dataEndPtr >= HeaderLength /\ data.dataEndPtr \in Nat
  BY <1>1, GoodParts, LenProperties DEF CallKept, HeaderComes, BuffersKept, Cells
<1>4. PICK code \in {SEARCHD_OK, SEARCHD_ERROR}, body \in Cells :
        Answered(code, body) /\ Content(data) \o incoming = Reply(code, body)
  BY <1>1 DEF CallKept, HeaderComes
<1> DEFINE header == Receive(n)
           wanted == HeaderLength - data.dataEndPtr
<1>5. /\ n \in Nat /\ n <= wanted /\ Network(header) /\ Later(n) \in Cells
      /\ header.dataStartPtr = 0 /\ header.dataEndPtr = data.dataEndPtr + n
      /\ Content(header) \o Later(n) = Reply(code, body)
  <2>1. wanted \in Int /\ wanted <= Len(incoming) /\ n \in Receivable(data, wanted)
    BY <1>3 DEF HeaderLength
  <2> HIDE DEF wanted, header
  <2>2. /\ n \in Nat /\ n <= wanted /\ Network(Receive(n)) /\ Later(n) \in Cells
        /\ Receive(n).dataStartPtr = data.dataStartPtr
        /\ Receive(n).dataEndPtr = data.dataEndPtr + n
        /\ Content(Receive(n)) \o Later(n) = Content(data) \o incoming
    BY <1>3, <2>1, Received
  <2> QED
    BY <1>3, <1>4, <2>2 DEF header
<1>6. Answered(code, body)'
  BY <1>1, <1>4, AnsweredKept
<1>7. /\ outcome \in {"none", "running", "ok", "MessageError", "ClientUsageError",
                      "ConnectionError", "ValueTypeError"} \cup MachineErrors
      /\ status \in {SEARCHD_OK, SEARCHD_ERROR}
  BY DEF CallKept, FlagsKept
<1>8. CASE header.dataEndPtr < HeaderLength
  <2>1. data' = header /\ incoming' = Later(n) /\ pc' = pc /\ status' = status /\ outcome' = outcome
    BY <1>2, <1>8
  <2> HIDE DEF header
  <2>2. HeaderComes'
    BY <1>5, <1>6, <2>1 DEF HeaderComes
  <2>3. FlagsKept' /\ ListsKept' /\ AppliedIsAsked'
    BY <1>1, <1>7, <2>1, ReadingKeeps
  <2> QED
    BY <1>1, <2>1, <2>2, <2>3 DEF CallKept, ReturnsWhenAllUpdated, KeywordsWhole
<1>9. CASE ~(header.dataEndPtr < HeaderLength)
  <2> DEFINE first   == Get(header, 1)
             version == Get(first.rest, 1)
             length  == GetWord(version.rest)
  <2>1. /\ incoming' = Later(n) /\ status' = first.value /\ data' = length.rest
        /\ \/ pc' = "returned" /\ outcome' = "ConnectionError"
           \/ pc' = "body" /\ outcome' = outcome
    BY <1>2, <1>9 DEF Return
  <2>2. Content(header) = HeaderCells(code, body) /\ Later(n) = body
    <3> HIDE DEF header
    <3>1. code \in Nat
      BY DEF SEARCHD_OK, SEARCHD_ERROR
    <3>2. /\ HeaderCells(code, body) \in Cells /\ Len(HeaderCells(code, body)) = 4
          /\ Reply(code, body) = HeaderCells(code, body) \o body
      BY <3>1, HeaderTyped
    <3>3. Content(header) \in Cells /\ Len(Content(header)) = GetLength(header)
      BY <1>5, ContentIs DEF Network
    <3>4. GetLength(header) = 4
      BY <1>3, <1>5, <1>9 DEF GetLength, HeaderLength
    <3> QED
      BY <1>5, <3>2, <3>3, <3>4, SameFront
  <2>3. first.value = code /\ Network(length.rest) /\ Content(length.rest) = <<>>
    <3> HIDE DEF header
    <3> QED
      BY <1>5, <2>2, TakesHeader
  <2> HIDE DEF first, version, length, header
  <2>4. Content(data') \o incoming' = body /\ Network(data')
    <3>1. <<>> \o body = body
      BY ConcatEmptySeq DEF Cells
    <3> QED
      BY <2>1, <2>2, <2>3, <3>1
  <2>5. BodyComes'
    BY <1>6, <2>1, <2>3, <2>4 DEF BodyComes
  <2>6. FlagsKept' /\ ListsKept' /\ AppliedIsAsked'
    BY <1>1, <1>7, <2>1, <2>3, ReadingKeeps
  <2>7. CASE pc' = "body"
    BY <2>5, <2>6, <2>7 DEF CallKept, ReturnsWhenAllUpdated, KeywordsWhole
  <2>8. CASE pc' = "returned" /\ outcome' = "ConnectionError"
    BY <2>6, <2>8, QuietKeeps
  <2> QED
    BY <2>1, <2>7, <2>8
<1> QED
  BY <1>8, <1>9

LEMMA BodyKeepsCalls ==
    ASSUME BuffersKept, CallKept, ReadBody
    PROVE  CallKept'
<1>1. pc = "body" /\ UNCHANGED <<object, command, call, status, result, told>>
  BY DEF ReadBody
<1>2. PICK n \in Receivable(data, Len(incoming)) :
        /\ data' = Receive(n) /\ incoming' = Later(n)
        /\ IF n < Len(incoming) THEN UNCHANGED <<pc, outcome>>
           ELSE IF status = SEARCHD_OK THEN pc' = "parse" /\ UNCHANGED outcome
           ELSE Return("MessageError")
  BY DEF ReadBody
<1>3. Network(data) /\ incoming \in Cells /\ Len(incoming) \in Int /\ Len(incoming) \in Nat
  BY <1>1, LenProperties DEF CallKept, BodyComes, BuffersKept, Cells
<1>4. PICK code, body : code = status /\ body = Content(data) \o incoming /\ Answered(code, body)
  BY <1>1 DEF CallKept, BodyComes
<1>5. /\ n \in Nat /\ n <= Len(incoming) /\ Network(Receive(n))
      /\ Content(Receive(n)) \o Later(n) = Content(data) \o incoming
      /\ n = Len(incoming) => Content(Receive(n)) = Content(data) \o incoming
  <2> DEFINE wanted == Len(incoming)
  <2>1. wanted \in Int /\ wanted <= Len(incoming) /\ n \in Receivable(data, wanted)
    BY <1>3
  <2>2. wanted = Len(incoming)
    OBVIOUS
  <2> HIDE DEF wanted
  <2>3. /\ n \in Nat /\ n <= wanted /\ Network(Receive(n))
        /\ Content(Receive(n)) \o Later(n) = Content(data) \o incoming
        /\ n = Len(incoming) => Content(Receive(n)) = Content(data) \o incoming
    BY <1>3, <2>1, Received
  <2> QED
    BY <2>2, <2>3
<1>6. Answered(code, body)'
  BY <1>1, <1>4, AnsweredKept
<1>7. /\ outcome \in {"none", "running", "ok", "MessageError", "ClientUsageError",
                      "ConnectionError", "ValueTypeError"} \cup MachineErrors
      /\ status \in {SEARCHD_OK, SEARCHD_ERROR}
  BY DEF CallKept, FlagsKept
<1>8. CASE n < Len(incoming)
  <2>1. data' = Receive(n) /\ incoming' = Later(n) /\ pc' = pc /\ outcome' = outcome
    BY <1>2, <1>8
  <2>2. BodyComes'
    BY <1>1, <1>4, <1>5, <1>6, <2>1 DEF BodyComes
  <2>3. FlagsKept' /\ ListsKept' /\ AppliedIsAsked'
    BY <1>1, <1>7, <2>1, ReadingKeeps
  <2> QED
    BY <1>1, <2>1, <2>2, <2>3 DEF CallKept, ReturnsWhenAllUpdated, KeywordsWhole
<1>9. CASE ~(n < Len(incoming)) /\ status = SEARCHD_OK
  <2>1. data' = Receive(n) /\ pc' = "parse" /\ outcome' = outcome
    BY <1>2, <1>9
  <2>2. n = Len(incoming)
    BY <1>3, <1>5, <1>9
  <2>3. BodyCame'
    BY <1>4, <1>5, <1>6, <1>9, <2>1, <2>2 DEF BodyCame
  <2>4. FlagsKept' /\ ListsKept' /\ AppliedIsAsked'
    BY <1>1, <1>7, <2>1, ReadingKeeps
  <2> QED
    BY <2>1, <2>3, <2>4 DEF CallKept, ReturnsWhenAllUpdated, KeywordsWhole
<1>10. CASE ~(n < Len(incoming)) /\ ~(status = SEARCHD_OK)
  <2>1. pc' = "returned" /\ outcome' = "MessageError"
    BY <1>2, <1>10 DEF Return
  <2>2. FlagsKept' /\ ListsKept' /\ AppliedIsAsked'
    BY <1>1, <1>7, <2>1, ReadingKeeps
  <2> QED
    BY <2>1, <2>2, QuietKeeps
<1> QED
  BY <1>8, <1>9, <1>10

\* The number of documents that comes back is right.
LEMMA CountBack ==
    ASSUME Network(data), NEW number \in Nat, number < WordLimit, NEW cut \in 0 .. 2,
           Content(data) = SubSeq(CellsOf(number, 2), 1, cut), GetWord(data).ok
    PROVE  GetWord(data).value = number
<1> DEFINE cells == CellsOf(number, 2)
<1>1. cells \in Cells /\ Len(cells) = 2
  <2>1. 2 \in Nat
    OBVIOUS
  <2> QED
    BY <2>1, CellsOfTyped
<1>2. Content(data) = SubSeq(cells, 1, cut)
  OBVIOUS
<1>3. data \in GoodBuffers /\ GetLength(data) >= 2
  BY DEF GetWord, Get, Network
<1> HIDE DEF cells
<1>4. cut = 2
  <2>1. cut \in 0 .. Len(cells)
    BY <1>1
  <2>2. Len(SubSeq(cells, 1, cut)) = cut
    BY <1>1, <2>1, PartTyped
  <2>3. GetLength(data) = cut
    BY <1>2, <1>3, <2>2, ContentIs
  <2> QED
    BY <1>3, <2>3
<1>5. Content(data) = cells \o <<>> /\ <<>> \in Cells
  <2>1. SubSeq(cells, 1, Len(cells)) = cells /\ cells \o <<>> = cells
    BY <1>1, SubSeqFull, ConcatEmptySeq DEF Cells
  <2> QED
    BY <1>1, <1>2, <1>4, <2>1, EmptySeq DEF Cells
<1>6. Fits(number, 2) /\ 2 \in 1 .. 4
  BY WordFits
<1>7. GetsValue(Get(data, 2), number, <<>>)
  BY <1>5, <1>6, GetsNumber DEF cells
<1> QED
  BY <1>7 DEF GetsValue, GetWord

LEMMA UpdatedKeepsCalls ==
    ASSUME BuffersKept, CallKept, ParseUpdate
    PROVE  CallKept'
<1> DEFINE count == GetWord(data)
<1>1. /\ pc = "parse" /\ command = SEARCHD_COMMAND_UPDATE /\ pc' = "returned"
      /\ outcome' = (IF ~count.ok THEN "MessageError"
                     ELSE IF AllUpdated(count) THEN "ok" ELSE "ClientUsageError")
      /\ UNCHANGED <<object, command, call, status, result, told>>
  BY DEF ParseUpdate, Return
<1>2. FlagsKept' /\ ListsKept' /\ AppliedIsAsked'
  BY <1>1, ReadingKeeps DEF CallKept, FlagsKept
<1>3. CASE ~count.ok
  <2>1. outcome' = "MessageError"
    BY <1>1, <1>3
  <2> QED
    BY <1>1, <1>2, <2>1, QuietKeeps
<1>4. CASE count.ok
  <2>1. Network(data) /\ HasUpdated(Content(data))
    <3>1. SEARCHD_OK # SEARCHD_ERROR /\ SEARCHD_COMMAND_UPDATE # SEARCHD_COMMAND_KEYWORDS
      BY DEF SEARCHD_OK, SEARCHD_ERROR, SEARCHD_COMMAND_UPDATE, SEARCHD_COMMAND_KEYWORDS
    <3> QED
      BY <1>1, <3>1 DEF CallKept, BodyCame, Answered, HasFound
  <2>2. PICK known \in SUBSET Documents, cut \in 0 .. 2 :
          /\ told.applied = {u \in Asked : u[2] \in known}
          /\ Content(data) = SubSeq(CellsOf(Cardinality(DOMAIN values \cap known), 2), 1, cut)
    BY <2>1 DEF HasUpdated
  <2>3. Sent /\ \A d \in DOMAIN values : Len(values[d]) = Len(attributes)
    BY <2>1 DEF HasUpdated
  <2> DEFINE documents == DOMAIN values
             updated == documents \cap known
             number == Cardinality(updated)
  <2>4. /\ IsFiniteSet(documents) /\ updated \in SUBSET documents
        /\ Cardinality(documents) < WordLimit /\ Cardinality(documents) \in Nat
    <3>1. documents \in SUBSET Documents
      BY <2>3 DEF Sent, ValuesTyped
    <3>2. IsFiniteSet(documents)
      BY <3>1, CommandsAssumption, FS_Subset
    <3> QED
      BY <2>3, <3>2, SentParts
  <2> HIDE DEF documents, updated
  <2>5. /\ number \in Nat /\ number <= Cardinality(documents)
        /\ number = Cardinality(documents) => updated = documents
    BY <2>4, FS_Subset, FS_CardinalityType
  <2>6. number < WordLimit
    <3>1. WordLimit \in Nat
      BY BufferAssumption DEF WordLimit
    <3> QED
      BY <2>4, <2>5, <3>1
  <2>7. count.value = number
    <3> HIDE DEF number
    <3>1. Content(data) = SubSeq(CellsOf(number, 2), 1, cut)
      BY <2>2 DEF number, updated, documents
    <3> QED
      BY <1>4, <2>1, <2>5, <2>6, <3>1, CountBack
  <2>8. AllUpdated(count) <=> documents \subseteq known
    <3>1. AllUpdated(count) <=> number = Cardinality(documents)
      BY <2>7 DEF AllUpdated, documents
    <3>2. updated = documents <=> documents \subseteq known
      BY DEF updated
    <3>3. updated = documents => number = Cardinality(documents)
      OBVIOUS
    <3> QED
      BY <2>5, <3>1, <3>2, <3>3
  <2>9. outcome' = "ok" => told.applied = Asked
    <3>1. ASSUME outcome' = "ok"
          PROVE  told.applied = Asked
      <4>1. documents \subseteq known
        BY <1>1, <1>4, <2>8, <3>1
      <4>2. \A u \in Asked : u[2] \in documents
        BY DEF Asked, documents
      <4> QED
        BY <2>2, <4>1, <4>2
    <3> QED
      BY <3>1
  <2>10. outcome' = "ClientUsageError" /\ attributes # <<>> => told.applied # Asked
    <3>1. ASSUME outcome' = "ClientUsageError", attributes # <<>>
          PROVE  told.applied # Asked
      <4>1. ~(documents \subseteq known)
        BY <1>1, <1>4, <2>8, <3>1
      <4>2. PICK d \in documents : d \notin known
        BY <4>1
      <4>3. 1 \in DOMAIN attributes
        BY <2>3, <3>1, EmptySeq, LenProperties DEF Sent
      <4> DEFINE u == <<Index, d, attributes[1], values[d][1].number>>
      <4>4. u \in Asked
        BY <4>2, <4>3 DEF Asked, documents
      <4>5. u[2] \notin known
        BY <4>2
      <4> QED
        BY <2>2, <4>4, <4>5
    <3> QED
      BY <3>1
  <2>11. Asked' = Asked /\ attributes' = attributes /\ told' = told /\ command' = command
    BY <1>1, ObjectKept DEF object
  <2>12. ReturnsWhenAllUpdated'
    BY <2>9, <2>10, <2>11 DEF ReturnsWhenAllUpdated
  <2>13. KeywordsWhole'
    <3>1. command' # SEARCHD_COMMAND_KEYWORDS
      BY <1>1, <2>11 DEF SEARCHD_COMMAND_UPDATE, SEARCHD_COMMAND_KEYWORDS
    <3> QED
      BY <3>1 DEF KeywordsWhole
  <2> QED
    BY <1>1, <1>2, <2>12, <2>13 DEF CallKept
<1> QED
  BY <1>3, <1>4

LEMMA ParsedKeepsCalls ==
    ASSUME BuffersKept, CallKept, ParseKeywords
    PROVE  CallKept'
<1>1. /\ pc = "parse" /\ command = SEARCHD_COMMAND_KEYWORDS /\ pc' = "returned"
      /\ UNCHANGED <<object, command, call, status, told>>
  BY DEF ParseKeywords, Return
<1>2. call[3] \in BOOLEAN
  BY DEF CallKept, FlagsKept
<1>3. CASE ~GetWord(data).ok
  <2>1. outcome' = "MessageError" /\ result' = result
    BY <1>3 DEF ParseKeywords, Return
  <2>2. FlagsKept' /\ ListsKept' /\ AppliedIsAsked'
    BY <1>1, <2>1, ReadingKeeps DEF CallKept, FlagsKept
  <2> QED
    BY <1>1, <2>1, <2>2, QuietKeeps
<1>4. CASE GetWord(data).ok
  <2>1. Network(data) /\ HasFound(Content(data))
    <3>1. SEARCHD_OK # SEARCHD_ERROR /\ SEARCHD_COMMAND_UPDATE # SEARCHD_COMMAND_KEYWORDS
      BY DEF SEARCHD_OK, SEARCHD_ERROR, SEARCHD_COMMAND_UPDATE, SEARCHD_COMMAND_KEYWORDS
    <3> QED
      BY <1>1, <3>1 DEF CallKept, BodyCame, Answered, HasUpdated
  <2> DEFINE words == told.words
  <2>2. PICK cut \in Nat :
          /\ cut <= Len(EncodeWords(words, call[3]))
          /\ Content(data) = SubSeq(EncodeWords(words, call[3]), 1, cut)
          /\ told.whole = Cardinality(WholeIn(words, call[3], cut))
    BY <2>1 DEF HasFound
  <2>3. words \in Seq(Words) /\ Len(words) <= MaxWords /\ told.heard = call
    BY <2>1 DEF HasFound
  <2> HIDE DEF words
  <2>4. Len(words) < WordLimit /\ Len(words) \in Nat
    <3>1. WordLimit \in Nat /\ MaxWords \in Nat /\ MaxWords < WordLimit
      BY BufferAssumption, CommandsAssumption DEF WordLimit
    <3> QED
      BY <2>3, <3>1, LenProperties
  <2>5. WholeWords(result', words, call[3], cut)
    BY <1>2, <1>4, <2>1, <2>2, <2>3, <2>4, WordsRead
  <2>6. Len(result') = Len(words) /\ Len(result') <= MaxWords
    BY <2>3, <2>5 DEF WholeWords
  <2>7. ASSUME NEW k \in 1 .. told.whole
        PROVE  result'[k] = Entry(words[k], call[3])
    <3>1. k \in 1 .. Cardinality(WholeIn(words, call[3], cut))
      BY <2>2
    <3>2. k \in 1 .. Len(words) /\ Len(EncodeWords(SubSeq(words, 1, k), call[3])) <= cut
      BY <1>2, <2>3, <3>1, WholeAreFirst
    <3> QED
      BY <2>5, <3>2 DEF WholeWords
  <2>8. outcome' = "ok"
    BY <1>4 DEF ParseKeywords, Return
  <2>9. ListsKept'
    BY <1>1, ObjectKept DEF CallKept
  <2>10. AppliedIsAsked'
    BY <1>1, ObjectKept DEF CallKept, AppliedIsAsked, object
  <2>11. FlagsKept'
    BY <1>1, <2>6, <2>8 DEF CallKept, FlagsKept
  <2>12. KeywordsWhole'
    BY <1>1, <2>3, <2>6, <2>7 DEF KeywordsWhole, Entry, words
  <2>13. ReturnsWhenAllUpdated'
    BY <1>1 DEF ReturnsWhenAllUpdated, SEARCHD_COMMAND_UPDATE, SEARCHD_COMMAND_KEYWORDS
  <2> QED
    BY <1>1, <2>9, <2>10, <2>11, <2>12, <2>13 DEF CallKept
<1> QED
  BY <1>3, <1>4

LEMMA CallKeptStep ==
    BuffersKept /\ CallKept /\ [Next]_vars => CallKept'
<1> SUFFICES ASSUME BuffersKept, CallKept, [Next]_vars PROVE CallKept'
  OBVIOUS
<1>1. CASE UNCHANGED vars
  <2>1. /\ UNCHANGED <<object, command, call, told>>
        /\ pc' = pc /\ command' = command /\ call' = call /\ request' = request
        /\ incoming' = incoming /\ status' = status /\ data' = data /\ result' = result
        /\ outcome' = outcome /\ told' = told
    BY <1>1 DEF vars
  <2>2. ListsKept' /\ FlagsKept' /\ AppliedIsAsked'
    BY <2>1, ReadingKeeps DEF CallKept, FlagsKept
  <2>3. (pc' = "launch" => UpdateAsked' \/ WordsAsked')
    BY <2>1, ObjectKept DEF CallKept, UpdateAsked, WordsAsked
  <2>4. pc' = "header" => HeaderComes'
    <3>1. ASSUME pc' = "header"
          PROVE  HeaderComes'
      <4>1. HeaderComes
        BY <2>1, <3>1 DEF CallKept
      <4>2. PICK code \in {SEARCHD_OK, SEARCHD_ERROR}, body \in Cells :
              Answered(code, body) /\ Content(data) \o incoming = Reply(code, body)
        BY <4>1 DEF HeaderComes
      <4>3. Answered(code, body)'
        BY <2>1, <4>2, AnsweredKept
      <4> QED
        BY <2>1, <4>1, <4>2, <4>3 DEF HeaderComes
    <3> QED
      BY <3>1
  <2>5. pc' = "body" => BodyComes'
    <3>1. ASSUME pc' = "body"
          PROVE  BodyComes'
      <4>1. BodyComes
        BY <2>1, <3>1 DEF CallKept
      <4>2. PICK code, body :
              code = status /\ body = Content(data) \o incoming /\ Answered(code, body)
        BY <4>1 DEF BodyComes
      <4>3. Answered(code, body)'
        BY <2>1, <4>2, AnsweredKept
      <4> QED
        BY <2>1, <4>1, <4>2, <4>3 DEF BodyComes
    <3> QED
      BY <3>1
  <2>6. pc' = "parse" => BodyCame'
    <3>1. ASSUME pc' = "parse"
          PROVE  BodyCame'
      <4>1. BodyCame
        BY <2>1, <3>1 DEF CallKept
      <4>2. PICK body : body = Content(data) /\ Answered(SEARCHD_OK, body)
        BY <4>1 DEF BodyCame
      <4>3. Answered(SEARCHD_OK, body)'
        BY <2>1, <4>2, AnsweredKept
      <4> QED
        BY <2>1, <4>1, <4>2, <4>3 DEF BodyCame
    <3> QED
      BY <3>1
  <2>7. ReturnsWhenAllUpdated'
    BY <2>1, ObjectKept DEF CallKept, ReturnsWhenAllUpdated, object
  <2>8. KeywordsWhole'
    BY <2>1 DEF CallKept, KeywordsWhole
  <2> QED
    BY <2>2, <2>3, <2>4, <2>5, <2>6, <2>7, <2>8 DEF CallKept
<1>2. CASE Next
  BY <1>2, EditsKeepCalls, CallsKeepCalls, RefusalKeepsCalls, UpdatingKeepsCalls, FindingKeepsCalls,
     HeaderKeepsCalls, BodyKeepsCalls, UpdatedKeepsCalls, ParsedKeepsCalls, ThrowKeepsCalls DEF Next
<1> QED
  BY <1>1, <1>2

LEMMA CallsKept == Spec => [](BuffersKept /\ CallKept)
<1>1. Init => BuffersKept /\ CallKept
  BY BuffersKeptInit, CallKeptInit
<1>2. BuffersKept /\ CallKept /\ [Next]_vars => (BuffersKept /\ CallKept)'
  BY BuffersKeptStep, CallKeptStep
<1> QED
  BY <1>1, <1>2, PTL DEF Spec

\* Every variable of the calls has its values, whatever the caller puts into
\* the updates and whatever part of an answer comes.
THEOREM CommandTypes == Spec => []TypeOK
<1>1. BuffersKept /\ CallKept => TypeOK
  <2> SUFFICES ASSUME BuffersKept, CallKept PROVE TypeOK
    OBVIOUS
  <2>1. attributes \in BoundedSeq(Names, MaxAttributes)
    <3>1. attributes \in Seq(Names) /\ Len(attributes) <= MaxAttributes /\ Len(attributes) \in Nat
      BY LenProperties DEF BuffersKept, CallKept, ListsKept
    <3>2. Len(attributes) \in 0 .. MaxAttributes
      BY <3>1, CommandsAssumption
    <3>3. attributes \in [1 .. Len(attributes) -> Names]
      BY <3>1
    <3> QED
      BY <3>2, <3>3 DEF BoundedSeq, SeqOf
  <2> QED
    BY <2>1 DEF TypeOK, BuffersKept, ValuesTyped, CallKept, ListsKept, FlagsKept
<1> QED
  BY <1>1, CallsKept, PTL

\* For updates of any size searchd sets only what the caller asked for, each
\* value at its document and attribute (queryversions.cc:460-502): the cells of
\* the request can be taken apart in one way only, and a request from which a
\* document without values is missing some cannot be read to its end.
THEOREM OnlyWhatWasAskedIsSet == Spec => []AppliedIsAsked
<1>1. CallKept => AppliedIsAsked
  BY DEF CallKept
<1> QED
  BY <1>1, CallsKept, PTL

\* updateAttributes() returns when all was set, and accuses the caller only
\* when something was not (sphinxclient.cc:1163-1196), for any split of the
\* answer into parts and any place where it breaks off.
THEOREM UpdatesReturnWhenAllSet == Spec => []ReturnsWhenAllUpdated
<1>1. CallKept => ReturnsWhenAllUpdated
  BY DEF CallKept
<1> QED
  BY <1>1, CallsKept, PTL

\* getKeywords() returns every word that came wholly as searchd sent it, for
\* texts of any length and an answer that breaks off anywhere
\* (queryversions.cc:529-567).
THEOREM WordsAreReturnedWhole == Spec => []KeywordsWhole
<1>1. CallKept => KeywordsWhole
  BY DEF CallKept
<1> QED
  BY <1>1, CallsKept, PTL
=============================================================================
