----------------------------- MODULE BufferProofs -----------------------------
(***************************************************************************)
(* The byte buffer Query_t, for an array of any size at first, and the     *)
(* reader of searchd: nothing is stored beyond the array, what is put      *)
(* stands behind what was there, and what was put is what is read.  The    *)
(* lemmas that the proofs about Commands and about MultiQuery rest on.     *)
(***************************************************************************)
EXTENDS SearchdReader, DataFacts

(* The array *)

Cells == Seq(Nat)

\* Buffers whose pointers are in order, and whose cells up to the end are set.
GoodBuffers ==
    {q \in [data : Seq(Int), dataStartPtr : Nat, dataEndPtr : Nat, dataSize : Nat,
            convertEndian : BOOLEAN] :
        /\ Len(q.data) = q.dataSize /\ q.dataSize >= InitialSize
        /\ q.dataStartPtr <= q.dataEndPtr /\ q.dataEndPtr <= q.dataSize
        /\ \A k \in 1 .. q.dataEndPtr : q.data[k] \in Nat}

\* A buffer with more cells at its end.
Extends(r, q, cells) ==
    /\ r \in GoodBuffers
    /\ r.convertEndian = q.convertEndian
    /\ r.dataStartPtr = q.dataStartPtr
    /\ r.dataEndPtr = q.dataEndPtr + Len(cells)
    /\ Content(r) = Content(q) \o cells

LEMMA Unset ==
    ASSUME NEW n \in Int
    PROVE  /\ Uninitialised(n) \in Seq(Int)
           /\ Len(Uninitialised(n)) = IF n > 0 THEN n ELSE 0
<1>1. Garbage \in Int
  BY DEF Garbage
<1>2. CASE n > 0
  <2>1. Uninitialised(n) = [k \in 1 .. n |-> Garbage]
    BY <1>2 DEF Uninitialised
  <2> QED
    BY <1>1, <1>2, <2>1
<1>3. CASE ~(n > 0)
  <2>1. Uninitialised(n) = <<>>
    BY <1>3 DEF Uninitialised
  <2> QED
    BY <1>3, <2>1, EmptySeq
<1> QED
  BY <1>2, <1>3

LEMMA FirstOf ==
    ASSUME NEW S, NEW cells \in Seq(S), NEW n \in 0 .. Len(cells)
    PROVE  /\ FirstCells(cells, n) \in Seq(S)
           /\ Len(FirstCells(cells, n)) = n
           /\ \A k \in 1 .. n : FirstCells(cells, n)[k] = cells[k]
<1>1. Len(cells) \in Nat /\ n \in Nat /\ n <= Len(cells)
  BY LenProperties
<1>2. FirstCells(cells, n) = SubSeq(cells, 1, n)
  <2>1. (IF n < Len(cells) THEN n ELSE Len(cells)) = n
    BY <1>1
  <2> QED
    BY <2>1 DEF FirstCells
<1>3. \A k \in 1 .. n : cells[k] \in S
  BY <1>1, ElementOfSeq
<1>4. /\ SubSeq(cells, 1, n) \in Seq(S)
      /\ Len(SubSeq(cells, 1, n)) = IF 1 <= n THEN n - 1 + 1 ELSE 0
      /\ \A k \in 1 .. n - 1 + 1 : SubSeq(cells, 1, n)[k] = cells[1 + k - 1]
  BY <1>1, <1>3, SubSeqProperties
<1>5. n - 1 + 1 = n /\ \A k \in 1 .. n : 1 + k - 1 = k
  BY <1>1
<1> QED
  BY <1>1, <1>2, <1>4, <1>5

LEMMA GoodParts ==
    ASSUME NEW q \in GoodBuffers
    PROVE  /\ q.data \in Seq(Int) /\ Len(q.data) = q.dataSize
           /\ q.dataStartPtr \in Nat /\ q.dataEndPtr \in Nat /\ q.dataSize \in Nat
           /\ q.convertEndian \in BOOLEAN
           /\ q.dataSize >= InitialSize
           /\ q.dataStartPtr <= q.dataEndPtr /\ q.dataEndPtr <= q.dataSize
           /\ \A k \in 1 .. q.dataEndPtr : q.data[k] \in Nat
           /\ GetLength(q) \in Nat /\ GetLength(q) = q.dataEndPtr - q.dataStartPtr
  BY DEF GoodBuffers, GetLength

LEMMA ContentIs ==
    ASSUME NEW q \in GoodBuffers
    PROVE  /\ Content(q) \in Cells
           /\ Len(Content(q)) = GetLength(q)
           /\ \A k \in 1 .. GetLength(q) : Content(q)[k] = q.data[q.dataStartPtr + k]
<1> DEFINE first == FirstCells(q.data, q.dataEndPtr)
           start == q.dataStartPtr
           end   == q.dataEndPtr
<1>1. /\ q.data \in Seq(Int) /\ Len(q.data) = q.dataSize
      /\ start \in Nat /\ end \in Nat /\ q.dataSize \in Nat
      /\ start <= end /\ end <= q.dataSize
      /\ \A k \in 1 .. end : q.data[k] \in Nat
      /\ GetLength(q) \in Nat /\ GetLength(q) = end - start
  BY GoodParts
<1>2. first \in Seq(Int) /\ Len(first) = end /\ \A k \in 1 .. end : first[k] = q.data[k]
  <2>1. end \in 0 .. Len(q.data)
    BY <1>1
  <2> QED
    BY <1>1, <2>1, FirstOf
<1>3. Uninitialised(end - q.dataSize) = <<>>
  <2>1. ~(end - q.dataSize > 0)
    BY <1>1
  <2> QED
    BY <2>1 DEF Uninitialised
<1>4. Content(q) = SubSeq(first, start + 1, end)
  <2>1. first \o <<>> = first
    BY <1>2, ConcatEmptySeq
  <2> QED
    BY <1>3, <2>1 DEF Content
<1> HIDE DEF first, start, end
<1>5. \A k \in start + 1 .. end : first[k] \in Nat
  <2>1. ASSUME NEW k \in start + 1 .. end
        PROVE  first[k] \in Nat
    <3>1. start \in Nat /\ end \in Nat
      BY <1>1
    <3>2. k \in 1 .. end
      BY <3>1
    <3> QED
      BY <1>1, <1>2, <3>2
  <2> QED
    BY <2>1
<1>6. start + 1 \in Int /\ end \in Int
  BY <1>1
<1>7. /\ SubSeq(first, start + 1, end) \in Seq(Nat)
      /\ Len(SubSeq(first, start + 1, end))
           = IF start + 1 <= end THEN end - (start + 1) + 1 ELSE 0
      /\ \A k \in 1 .. end - (start + 1) + 1 :
           SubSeq(first, start + 1, end)[k] = first[(start + 1) + k - 1]
  BY <1>5, <1>6, SubSeqProperties
<1>8. Len(Content(q)) = GetLength(q)
  BY <1>1, <1>4, <1>7
<1>9. ASSUME NEW k \in 1 .. GetLength(q)
      PROVE  Content(q)[k] = q.data[start + k]
  <2>1. k \in 1 .. end - (start + 1) + 1 /\ (start + 1) + k - 1 = start + k /\ start + k \in 1 .. end
    BY <1>1
  <2> QED
    BY <1>2, <1>4, <1>7, <2>1
<1> QED
  BY <1>4, <1>7, <1>8, <1>9 DEF Cells, start

\* memcpy() where there is room.
LEMMA StoreExtends ==
    ASSUME NEW q \in GoodBuffers, NEW cells \in Cells, q.dataEndPtr + Len(cells) <= q.dataSize
    PROVE  Extends(Store(q, cells), q, cells) /\ Store(q, cells).dataSize = q.dataSize
<1> DEFINE n      == Len(cells)
           end    == q.dataEndPtr
           size   == q.dataSize
           first  == FirstCells(q.data, end)
           both   == first \o cells
           rest   == SubSeq(q.data, end + n + 1, size)
           r      == Store(q, cells)
<1>1. /\ q.data \in Seq(Int) /\ Len(q.data) = size
      /\ q.dataStartPtr \in Nat /\ end \in Nat /\ size \in Nat
      /\ q.dataStartPtr <= end /\ end <= size /\ size >= InitialSize
      /\ \A k \in 1 .. end : q.data[k] \in Nat
      /\ GetLength(q) \in Nat /\ GetLength(q) = end - q.dataStartPtr
  BY GoodParts
<1>2. n \in Nat /\ end + n <= size /\ cells \in Seq(Int)
  BY LenProperties, SeqMonotonic DEF Cells
<1>3. first \in Seq(Int) /\ Len(first) = end /\ \A k \in 1 .. end : first[k] = q.data[k]
  <2>1. end \in 0 .. Len(q.data)
    BY <1>1
  <2> QED
    BY <1>1, <2>1, FirstOf
<1>4. /\ both \in Seq(Int) /\ Len(both) = end + n
      /\ \A k \in 1 .. end + n : both[k] = IF k <= end THEN first[k] ELSE cells[k - end]
  <2> HIDE DEF first
  <2>1. /\ first \o cells \in Seq(Int) /\ Len(first \o cells) = Len(first) + Len(cells)
        /\ \A k \in 1 .. Len(first) + Len(cells) :
             (first \o cells)[k] = IF k <= Len(first) THEN first[k] ELSE cells[k - Len(first)]
    BY <1>2, <1>3, ConcatProperties
  <2> QED
    BY <1>3, <2>1
<1> HIDE DEF first, n
<1>5. FirstCells(both, size) = both
  <2> HIDE DEF both
  <2>1. (IF size < Len(both) THEN size ELSE Len(both)) = Len(both)
    BY <1>1, <1>2, <1>4
  <2>2. SubSeq(both, 1, Len(both)) = both
    BY <1>4, SubSeqFull
  <2> QED
    BY <2>1, <2>2 DEF FirstCells
<1>6. rest \in Seq(Int) /\ Len(rest) = size - (end + n)
  <2>1. end + n + 1 \in Int /\ size \in Int /\ \A k \in end + n + 1 .. size : q.data[k] \in Int
    <3>1. end \in Nat /\ size \in Nat /\ n \in Nat
      BY <1>1, <1>2
    <3>2. \A k \in 1 .. size : q.data[k] \in Int
      BY <1>1, ElementOfSeq
    <3> HIDE DEF end, size
    <3>3. \A k \in end + n + 1 .. size : k \in 1 .. size
      BY <3>1
    <3> QED
      BY <3>1, <3>2, <3>3
  <2>2. /\ SubSeq(q.data, end + n + 1, size) \in Seq(Int)
        /\ Len(SubSeq(q.data, end + n + 1, size))
             = IF end + n + 1 <= size THEN size - (end + n + 1) + 1 ELSE 0
    BY <2>1, SubSeqProperties
  <2> HIDE DEF end, size
  <2>3. (IF end + n + 1 <= size THEN size - (end + n + 1) + 1 ELSE 0) = size - (end + n)
    BY <1>1, <1>2
  <2> QED
    BY <2>2, <2>3
<1>7. r = [q EXCEPT !.data = both \o rest, !.dataEndPtr = end + n]
  BY <1>4, <1>5 DEF Store, n, first
<1>8. /\ both \o rest \in Seq(Int) /\ Len(both \o rest) = size
      /\ \A k \in 1 .. end + n : (both \o rest)[k] = both[k]
  <2> HIDE DEF both, rest
  <2>1. /\ both \o rest \in Seq(Int) /\ Len(both \o rest) = Len(both) + Len(rest)
        /\ \A k \in 1 .. Len(both) + Len(rest) :
             (both \o rest)[k] = IF k <= Len(both) THEN both[k] ELSE rest[k - Len(both)]
    BY <1>4, <1>6, ConcatProperties
  <2> HIDE DEF end, size
  <2>2. Len(both) + Len(rest) = size /\ \A k \in 1 .. end + n : k \in 1 .. size
    BY <1>1, <1>2, <1>4, <1>6
  <2>3. \A k \in 1 .. end + n : k <= Len(both)
    BY <1>1, <1>2, <1>4
  <2> QED
    BY <2>1, <2>2, <2>3
<1> DEFINE array == both \o rest
<1>9. q = [data |-> q.data, dataStartPtr |-> q.dataStartPtr, dataEndPtr |-> q.dataEndPtr,
           dataSize |-> q.dataSize, convertEndian |-> q.convertEndian]
      /\ q.convertEndian \in BOOLEAN
  BY DEF GoodBuffers
<1>10. \A k \in 1 .. end + n : array[k] = IF k <= end THEN q.data[k] ELSE cells[k - end]
  <2>1. ASSUME NEW k \in 1 .. end + n
        PROVE  array[k] = IF k <= end THEN q.data[k] ELSE cells[k - end]
    <3>1. array[k] = IF k <= end THEN first[k] ELSE cells[k - end]
      BY <1>4, <1>8
    <3>2. k <= end => k \in 1 .. end
      BY <1>1
    <3> QED
      BY <1>3, <3>1, <3>2
  <2> QED
    BY <2>1
<1>11. \A k \in 1 .. n : cells[k] \in Nat
  BY ElementOfSeq DEF n, Cells
<1>12. \A k \in 1 .. end + n : array[k] \in Nat
  <2>1. ASSUME NEW k \in 1 .. end + n
        PROVE  array[k] \in Nat
    <3>1. CASE k <= end
      <4>1. k \in 1 .. end
        BY <1>1, <3>1
      <4> QED
        BY <1>1, <1>10, <3>1, <4>1
    <3>2. CASE ~(k <= end)
      <4>1. k - end \in 1 .. n
        <5> HIDE DEF end, n
        <5> QED
          BY <1>1, <1>2, <3>2
      <4> QED
        BY <1>10, <1>11, <3>2, <4>1
    <3> QED
      BY <3>1, <3>2
  <2> QED
    BY <2>1
<1> HIDE DEF array
<1>13. r = [data |-> array, dataStartPtr |-> q.dataStartPtr, dataEndPtr |-> end + n,
            dataSize |-> size, convertEndian |-> q.convertEndian]
  <2>1. r = [q EXCEPT !.data = array, !.dataEndPtr = end + n]
    BY <1>7 DEF array
  <2> HIDE DEF r
  <2> QED
    BY <1>9, <2>1
<1> HIDE DEF r, end, size
<1>14. r \in GoodBuffers
  <2>1. array \in Seq(Int) /\ Len(array) = size
    BY <1>8 DEF array
  <2>2. end + n \in Nat /\ q.dataStartPtr <= end + n
    BY <1>1, <1>2
  <2> QED
    BY <1>1, <1>2, <1>9, <1>12, <1>13, <2>1, <2>2 DEF GoodBuffers
<1>15. Content(r) = Content(q) \o cells
  <2>1. /\ Content(q) \in Seq(Nat) /\ Len(Content(q)) = GetLength(q)
        /\ \A k \in 1 .. GetLength(q) : Content(q)[k] = q.data[q.dataStartPtr + k]
    BY ContentIs DEF Cells
  <2>2. /\ Content(r) \in Seq(Nat) /\ Len(Content(r)) = GetLength(r)
        /\ \A k \in 1 .. GetLength(r) : Content(r)[k] = r.data[r.dataStartPtr + k]
    BY <1>14, ContentIs DEF Cells
  <2>3. GetLength(r) = GetLength(q) + n
    BY <1>1, <1>2, <1>13 DEF GetLength
  <2>4. /\ Content(q) \o cells \in Seq(Nat) /\ Len(Content(q) \o cells) = GetLength(q) + n
        /\ \A k \in 1 .. GetLength(q) + n :
             (Content(q) \o cells)[k]
               = IF k <= GetLength(q) THEN Content(q)[k] ELSE cells[k - GetLength(q)]
    <3> DEFINE c == Content(q)
    <3>1. c \in Seq(Nat) /\ Len(c) = GetLength(q) /\ cells \in Seq(Nat)
      BY <2>1 DEF Cells
    <3> HIDE DEF c
    <3>2. /\ c \o cells \in Seq(Nat) /\ Len(c \o cells) = Len(c) + Len(cells)
          /\ \A k \in 1 .. Len(c) + Len(cells) :
               (c \o cells)[k] = IF k <= Len(c) THEN c[k] ELSE cells[k - Len(c)]
      BY <3>1, ConcatProperties
    <3> QED
      BY <3>1, <3>2 DEF c, n
  <2>5. ASSUME NEW k \in 1 .. GetLength(q) + n
        PROVE  Content(r)[k] = (Content(q) \o cells)[k]
    <3>1. k \in Nat /\ q.dataStartPtr + k \in 1 .. end + n
      <4>1. GetLength(q) \in Nat /\ n \in Nat /\ end \in Nat /\ q.dataStartPtr \in Nat
        BY <1>1, <1>2
      <4>2. GetLength(q) = end - q.dataStartPtr
        BY <1>1
      <4>3. k \in Nat /\ 1 <= k /\ k <= GetLength(q) + n
        BY <4>1
      <4>4. k <= (end - q.dataStartPtr) + n
        BY <4>2, <4>3
      <4> QED
        BY <4>1, <4>3, <4>4
    <3>2. Content(r)[k] = array[q.dataStartPtr + k]
      BY <1>13, <2>2, <2>3
    <3>3. CASE k <= GetLength(q)
      <4>1. q.dataStartPtr + k <= end /\ k \in 1 .. GetLength(q)
        BY <1>1, <3>1, <3>3
      <4>2. array[q.dataStartPtr + k] = q.data[q.dataStartPtr + k]
        BY <1>10, <3>1, <4>1
      <4> QED
        BY <2>1, <2>4, <3>2, <3>3, <4>1, <4>2
    <3>4. CASE ~(k <= GetLength(q))
      <4>1. ~(q.dataStartPtr + k <= end) /\ (q.dataStartPtr + k) - end = k - GetLength(q)
        BY <1>1, <3>1, <3>4
      <4>2. array[q.dataStartPtr + k] = cells[(q.dataStartPtr + k) - end]
        <5>1. \A m \in 1 .. end + n : ~(m <= end) => array[m] = cells[m - end]
          BY <1>10
        <5> QED
          BY <3>1, <4>1, <5>1, Zenon
      <4> QED
        BY <2>4, <3>2, <3>4, <4>1, <4>2
    <3> QED
      BY <3>3, <3>4
  <2>6. Len(Content(r)) = Len(Content(q) \o cells)
    BY <2>2, <2>3, <2>4
  <2>7. \A k \in 1 .. Len(Content(r)) : Content(r)[k] = (Content(q) \o cells)[k]
    BY <2>2, <2>3, <2>5
  <2>8. Content(r) \in Seq(Nat) /\ Content(q) \o cells \in Seq(Nat)
    BY <2>2, <2>4
  <2> QED
    BY <2>6, <2>7, <2>8, SeqEqual
<1>16. /\ r.convertEndian = q.convertEndian /\ r.dataStartPtr = q.dataStartPtr
       /\ r.dataEndPtr = q.dataEndPtr + Len(cells) /\ r.dataSize = q.dataSize
  BY <1>13 DEF end, n, size
<1>17. Extends(r, q, cells) /\ r.dataSize = q.dataSize
  BY <1>14, <1>15, <1>16 DEF Extends
<1> QED
  BY <1>17 DEF r

-----------------------------------------------------------------------------
(* Growth *)

\* Another array with the same content.
Same(r, q) ==
    /\ r \in GoodBuffers
    /\ r.convertEndian = q.convertEndian
    /\ r.dataStartPtr = q.dataStartPtr /\ r.dataEndPtr = q.dataEndPtr
    /\ Content(r) = Content(q)

LEMMA EnlargedSame ==
    ASSUME NEW q \in GoodBuffers, NEW size \in Nat, q.dataSize <= size
    PROVE  Same(Enlarged(q, size), q) /\ Enlarged(q, size).dataSize = size
<1> DEFINE end    == q.dataEndPtr
           copied == FirstCells(q.data, end)
           unset  == Uninitialised(size - Len(copied))
           array  == copied \o unset
           r      == Enlarged(q, size)
<1>1. /\ q.data \in Seq(Int) /\ Len(q.data) = q.dataSize
      /\ q.dataStartPtr \in Nat /\ end \in Nat /\ q.dataSize \in Nat
      /\ q.dataStartPtr <= end /\ end <= q.dataSize /\ q.dataSize >= InitialSize
      /\ \A k \in 1 .. end : q.data[k] \in Nat
      /\ q.convertEndian \in BOOLEAN
  BY GoodParts
<1>2. copied \in Seq(Int) /\ Len(copied) = end /\ \A k \in 1 .. end : copied[k] = q.data[k]
  <2>1. end \in 0 .. Len(q.data)
    BY <1>1
  <2> QED
    BY <1>1, <2>1, FirstOf
<1>3. r = [q EXCEPT !.dataSize = size, !.data = array]
  BY DEF Enlarged
<1> HIDE DEF copied
<1>4. unset \in Seq(Int) /\ Len(unset) = size - end
  <2>1. size - Len(copied) \in Int /\ size - Len(copied) = size - end
    BY <1>1, <1>2
  <2>2. unset \in Seq(Int) /\ Len(unset) = IF size - Len(copied) > 0 THEN size - Len(copied) ELSE 0
    BY <2>1, Unset
  <2> HIDE DEF unset
  <2> QED
    BY <1>1, <2>1, <2>2
<1> HIDE DEF unset
<1>5. /\ array \in Seq(Int) /\ Len(array) = size
      /\ \A k \in 1 .. end : array[k] = q.data[k]
  <2>1. /\ array \in Seq(Int) /\ Len(array) = Len(copied) + Len(unset)
        /\ \A k \in 1 .. Len(copied) + Len(unset) :
             array[k] = IF k <= Len(copied) THEN copied[k] ELSE unset[k - Len(copied)]
    BY <1>2, <1>4, ConcatProperties
  <2> HIDE DEF array
  <2>2. Len(copied) + Len(unset) = size
    BY <1>1, <1>2, <1>4
  <2>3. \A k \in 1 .. end : k \in 1 .. size /\ k <= Len(copied)
    BY <1>1, <1>2
  <2> QED
    BY <1>2, <2>1, <2>2, <2>3
<1> HIDE DEF array, r, end
<1>6. r = [data |-> array, dataStartPtr |-> q.dataStartPtr, dataEndPtr |-> end,
           dataSize |-> size, convertEndian |-> q.convertEndian]
  BY <1>3 DEF GoodBuffers, end
<1>7. r \in GoodBuffers
  <2>1. \A k \in 1 .. end : array[k] \in Nat
    BY <1>1, <1>5
  <2>2. size >= InitialSize /\ end <= size
    BY <1>1, BufferAssumption
  <2> QED
    BY <1>1, <1>5, <1>6, <2>1, <2>2 DEF GoodBuffers
<1>8. Content(r) = Content(q)
  <2>1. GetLength(r) = GetLength(q) /\ GetLength(q) \in Nat /\ GetLength(q) = end - q.dataStartPtr
    BY <1>1, <1>6 DEF GetLength, end
  <2>2. /\ Content(q) \in Seq(Nat) /\ Len(Content(q)) = GetLength(q)
        /\ \A k \in 1 .. GetLength(q) : Content(q)[k] = q.data[q.dataStartPtr + k]
    BY ContentIs DEF Cells
  <2>3. /\ Content(r) \in Seq(Nat) /\ Len(Content(r)) = GetLength(r)
        /\ \A k \in 1 .. GetLength(r) : Content(r)[k] = r.data[r.dataStartPtr + k]
    BY <1>7, ContentIs DEF Cells
  <2>4. ASSUME NEW k \in 1 .. GetLength(q)
        PROVE  Content(r)[k] = Content(q)[k]
    <3>1. q.dataStartPtr + k \in 1 .. end
      <4>1. k \in Nat /\ 1 <= k /\ k <= GetLength(q)
        BY <2>1
      <4>2. k <= end - q.dataStartPtr
        BY <2>1, <4>1
      <4>3. q.dataStartPtr \in Nat /\ end \in Nat
        BY <1>1
      <4> QED
        BY <4>1, <4>2, <4>3
    <3>2. r.data = array /\ r.dataStartPtr = q.dataStartPtr
      BY <1>6
    <3>3. Content(r)[k] = array[q.dataStartPtr + k]
      BY <2>1, <2>3, <3>2
    <3>4. array[q.dataStartPtr + k] = q.data[q.dataStartPtr + k]
      BY <1>5, <3>1
    <3> QED
      BY <2>2, <3>3, <3>4
  <2> QED
    BY <2>1, <2>2, <2>3, <2>4, SeqEqual
<1>9. Same(r, q) /\ r.dataSize = size
  BY <1>6, <1>7, <1>8 DEF Same, end
<1> QED
  BY <1>9 DEF r

LEMMA GrowOnceSame ==
    ASSUME NEW q \in GoodBuffers, NEW width \in 1 .. 4
    PROVE  /\ Same(GrowOnce(q, width), q)
           /\ q.dataEndPtr + width <= GrowOnce(q, width).dataSize
           /\ q.dataSize <= GrowOnce(q, width).dataSize
<1>1. /\ q.dataEndPtr \in Nat /\ q.dataSize \in Nat
      /\ q.dataEndPtr <= q.dataSize /\ q.dataSize >= 4
  BY GoodParts, BufferAssumption
<1>2. CASE Holds(q, width)
  <2>1. Same(q, q)
    BY DEF Same
  <2> QED
    BY <1>1, <1>2, <2>1 DEF GrowOnce, Holds
<1>3. CASE ~Holds(q, width)
  <2>1. 2 * q.dataSize \in Nat /\ q.dataSize <= 2 * q.dataSize
        /\ q.dataEndPtr + width <= 2 * q.dataSize
    BY <1>1
  <2>2. GrowOnce(q, width) = Enlarged(q, 2 * q.dataSize)
    BY <1>3 DEF GrowOnce, DoubleSizeBuffer
  <2> QED
    BY <2>1, <2>2, EnlargedSame
<1> QED
  BY <1>2, <1>3

\* The loop that doubles until there is enough ends.
LEMMA DoublingExists ==
    ASSUME NEW need \in Nat
    PROVE  \E f : f = [size \in Nat |-> IF need < size THEN size ELSE f[2 * size]]
<1> DEFINE solves(f, m) ==
        \A size \in Nat : size >= 1 /\ size + m > need =>
            f[size] = IF need < size THEN size ELSE f[2 * size]
           T == {m \in Nat : \E f \in [Nat -> Nat] : solves(f, m)}
<1>1. 0 \in T
  <2> DEFINE f == [size \in Nat |-> size]
  <2>1. f \in [Nat -> Nat] /\ solves(f, 0)
    OBVIOUS
  <2> HIDE DEF solves, f
  <2> QED
    BY <2>1
<1>2. ASSUME NEW m \in T
      PROVE  m + 1 \in T
  <2>1. PICK f \in [Nat -> Nat] : solves(f, m)
    OBVIOUS
  <2> DEFINE g == [size \in Nat |-> IF size + m > need THEN f[size] ELSE f[2 * size]]
  <2>2. g \in [Nat -> Nat]
    <3>1. \A size \in Nat : f[size] \in Nat /\ f[2 * size] \in Nat
      OBVIOUS
    <3> QED
      BY <3>1
  <2>3. ASSUME NEW size \in Nat, size >= 1, size + (m + 1) > need
        PROVE  g[size] = IF need < size THEN size ELSE g[2 * size]
    <3>1. 2 * size \in Nat /\ 2 * size + m > need /\ m \in Nat
      BY <2>3
    <3>2. g[2 * size] = f[2 * size]
      BY <3>1
    <3>3. CASE size + m > need
      <4>1. g[size] = f[size]
        BY <3>3
      <4>2. f[size] = IF need < size THEN size ELSE f[2 * size]
        BY <2>1, <2>3, <3>3
      <4> HIDE DEF g
      <4> QED
        BY <3>2, <4>1, <4>2
    <3>4. CASE ~(size + m > need)
      <4>1. g[size] = f[2 * size]
        BY <3>4
      <4>2. ~(need < size)
        BY <3>1, <3>4
      <4> HIDE DEF g
      <4> QED
        BY <3>2, <4>1, <4>2
    <3> QED
      BY <3>3, <3>4
  <2>4. solves(g, m + 1)
    <3> HIDE DEF g
    <3> QED
      BY <2>3
  <2>5. m + 1 \in Nat
    OBVIOUS
  <2> HIDE DEF g, solves
  <2> QED
    BY <2>2, <2>4, <2>5
<1>3. T = Nat
  <2>1. T \in SUBSET Nat
    BY DEF T
  <2> HIDE DEF T
  <2> QED
    BY <1>1, <1>2, <2>1, InductiveSet
<1>4. PICK f \in [Nat -> Nat] : solves(f, need)
  BY <1>3
<1>5. ASSUME NEW size \in Nat
      PROVE  f[size] = IF need < size THEN size ELSE f[2 * size]
  <2>1. CASE size >= 1
    BY <1>4, <2>1
  <2>2. CASE size = 0
    <3>1. 2 * size = size /\ ~(need < size)
      BY <2>2
    <3> QED
      BY <3>1
  <2> QED
    BY <2>1, <2>2
<1> HIDE DEF solves, T
<1>6. f = [size \in Nat |-> f[size]]
  BY <1>4
<1>7. f = [size \in Nat |-> IF need < size THEN size ELSE f[2 * size]]
  BY <1>5, <1>6
<1> QED
  BY <1>7

LEMMA DoublingIsEnough ==
    ASSUME NEW need \in Nat, NEW first \in Nat, first >= 1, NEW f,
           \A size \in Nat : f[size] = IF need < size THEN size ELSE f[2 * size]
    PROVE  f[first] \in Nat /\ f[first] >= first /\ need < f[first]
<1> DEFINE T == {m \in Nat : \A size \in Nat : size >= 1 /\ size + m > need =>
                    f[size] \in Nat /\ f[size] >= size /\ need < f[size]}
<1>1. 0 \in T
  <2>1. ASSUME NEW size \in Nat, size >= 1, size + 0 > need
        PROVE  f[size] \in Nat /\ f[size] >= size /\ need < f[size]
    <3>1. need < size
      BY <2>1
    <3>2. f[size] = size
      BY <3>1
    <3> QED
      BY <3>1, <3>2
  <2> QED
    BY <2>1
<1>2. ASSUME NEW m \in T
      PROVE  m + 1 \in T
  <2>1. ASSUME NEW size \in Nat, size >= 1, size + (m + 1) > need
        PROVE  f[size] \in Nat /\ f[size] >= size /\ need < f[size]
    <3>1. CASE need < size
      <4>1. f[size] = size
        BY <3>1
      <4> QED
        BY <3>1, <4>1
    <3>2. CASE ~(need < size)
      <4>1. 2 * size \in Nat /\ 2 * size >= 1 /\ 2 * size + m > need /\ 2 * size >= size /\ m \in Nat
        BY <2>1
      <4>2. f[2 * size] \in Nat /\ f[2 * size] >= 2 * size /\ need < f[2 * size]
        BY <4>1
      <4>3. f[size] = f[2 * size]
        BY <3>2
      <4> QED
        BY <4>1, <4>2, <4>3
    <3> QED
      BY <3>1, <3>2
  <2> QED
    BY <2>1
<1>3. T = Nat
  <2>1. T \in SUBSET Nat
    BY DEF T
  <2> HIDE DEF T
  <2> QED
    BY <1>1, <1>2, <2>1, InductiveSet
<1>4. need \in T
  BY <1>3
<1> QED
  BY <1>4

LEMMA GrowSame ==
    ASSUME NEW q \in GoodBuffers, NEW cells \in Nat
    PROVE  /\ Same(Grow(q, cells), q)
           /\ q.dataEndPtr + cells <= Grow(q, cells).dataSize
<1>1. /\ q.dataEndPtr \in Nat /\ q.dataSize \in Nat
      /\ q.dataEndPtr <= q.dataSize /\ q.dataSize >= 4
  BY GoodParts, BufferAssumption
<1>2. CASE Holds(q, cells)
  <2>1. Same(q, q)
    BY DEF Same
  <2> QED
    BY <1>1, <1>2, <2>1 DEF Grow, Holds
<1>3. CASE ~Holds(q, cells)
  <2> DEFINE need == q.dataEndPtr + cells
             Enough[size \in Nat] == IF q.dataEndPtr + cells < size THEN size ELSE Enough[2 * size]
  <2>1. need \in Nat
    BY <1>1
  <2>2. \E f : f = [size \in Nat |-> IF need < size THEN size ELSE f[2 * size]]
    <3> HIDE DEF need
    <3> QED
      BY <2>1, DoublingExists
  <2>3. Enough = [size \in Nat |-> IF need < size THEN size ELSE Enough[2 * size]]
    BY <2>2 DEF Enough
  <2>4. Grow(q, cells) = Enlarged(q, Enough[q.dataSize])
    BY <1>3 DEF Grow
  <2> HIDE DEF Enough
  <2>5. \A size \in Nat : Enough[size] = IF need < size THEN size ELSE Enough[2 * size]
    BY <2>3
  <2> HIDE DEF need
  <2>6. q.dataSize >= 1
    BY <1>1
  <2>7. Enough[q.dataSize] \in Nat /\ Enough[q.dataSize] >= q.dataSize /\ need < Enough[q.dataSize]
    BY <1>1, <2>1, <2>5, <2>6, DoublingIsEnough
  <2>8. q.dataSize <= Enough[q.dataSize] /\ need <= Enough[q.dataSize]
    BY <1>1, <2>1, <2>7
  <2> QED
    BY <2>4, <2>7, <2>8, EnlargedSame DEF need
<1> QED
  BY <1>2, <1>3

-----------------------------------------------------------------------------
(* Numbers *)

LEMMA Quotient ==
    ASSUME NEW n \in Nat
    PROVE  n \div CellBase \in Nat /\ n % CellBase \in Nat
<1>1. CellBase \in Nat \ {0}
  BY BufferAssumption
<1> QED
  BY <1>1

\* A number as it is left when one cell after another is taken off.
IsAbove(above, value, width) ==
    /\ above \in [0 .. width -> Nat] /\ above[0] = value
    /\ \A k \in 1 .. width : above[k] = above[k - 1] \div CellBase
    /\ CellsOf(value, width) = [k \in 1 .. width |-> above[width - k] % CellBase]

LEMMA CellsOfIs ==
    ASSUME NEW value \in Nat, NEW width \in Nat
    PROVE  \E above : IsAbove(above, value, width)
<1> DEFINE Above[k \in 0 .. width] == IF k = 0 THEN value ELSE Above[k - 1] \div CellBase
           step == [k \in 1 .. width |-> [n \in Nat |-> n \div CellBase]]
<1>1. step \in [1 .. width -> [Nat -> Nat]]
  BY Quotient
<1>2. \E f : IsLoop(f, width, Nat, value, step)
  <2> HIDE DEF step
  <2> QED
    BY <1>1, LoopExists
<1>3. PICK f : f \in [0 .. width -> Nat] /\
        f[0] = value /\ \A k \in 1 .. width : f[k] = step[k][f[k - 1]]
  <2> HIDE DEF step
  <2> QED
    BY <1>2 DEF IsLoop
<1>4. ASSUME NEW k \in 0 .. width
      PROVE  f[k] = IF k = 0 THEN value ELSE f[k - 1] \div CellBase
  <2>1. CASE k = 0
    BY <1>3, <2>1
  <2>2. CASE k # 0
    <3>1. k \in 1 .. width /\ k - 1 \in 0 .. width
      BY <2>2
    <3>2. f[k] = step[k][f[k - 1]] /\ f[k - 1] \in Nat
      BY <1>3, <3>1
    <3>3. step[k][f[k - 1]] = f[k - 1] \div CellBase
      BY <3>1, <3>2
    <3> HIDE DEF step
    <3> QED
      BY <2>2, <3>2, <3>3
  <2> QED
    BY <2>1, <2>2
<1>5. f = [k \in 0 .. width |-> f[k]]
  BY <1>3
<1>6. f = [k \in 0 .. width |-> IF k = 0 THEN value ELSE f[k - 1] \div CellBase]
  BY <1>4, <1>5
<1>7. \E g : g = [k \in 0 .. width |-> IF k = 0 THEN value ELSE g[k - 1] \div CellBase]
  BY <1>6
<1>8. Above = [k \in 0 .. width |-> IF k = 0 THEN value ELSE Above[k - 1] \div CellBase]
  BY <1>7 DEF Above
<1>9. CellsOf(value, width) = [k \in 1 .. width |-> Above[width - k] % CellBase]
  BY DEF CellsOf
<1> HIDE DEF step
<1>10. Above \in [0 .. width -> Nat] /\ Above[0] = value
       /\ \A k \in 1 .. width : Above[k] = Above[k - 1] \div CellBase
  <2> HIDE DEF Above
  <2>1. Above[0] = value /\ \A k \in 1 .. width : Above[k] = Above[k - 1] \div CellBase
    BY <1>8
  <2>2. Above[0] \in Nat
    BY <2>1
  <2>3. ASSUME NEW k \in 1 .. width, Above[k - 1] \in Nat
        PROVE  Above[k] \in Nat
    BY <2>1, <2>3, Quotient
  <2>4. \A k \in 0 .. width : Above[k] \in Nat
    BY <2>2, <2>3, LoopPreserves
  <2> QED
    BY <1>8, <2>1, <2>4
<1> HIDE DEF Above
<1> QED
  BY <1>9, <1>10 DEF IsAbove

LEMMA CellsOfTyped ==
    ASSUME NEW value \in Nat, NEW width \in Nat
    PROVE  CellsOf(value, width) \in Cells /\ Len(CellsOf(value, width)) = width
<1>1. PICK above : IsAbove(above, value, width)
  BY CellsOfIs
<1>2. \A k \in 1 .. width : above[width - k] % CellBase \in Nat
  <2>1. \A k \in 1 .. width : width - k \in 0 .. width
    OBVIOUS
  <2> QED
    BY <1>1, <2>1, Quotient DEF IsAbove
<1> QED
  BY <1>1, <1>2 DEF IsAbove, Cells

\* The number that the first cells make.
IsNumber(number, cells) ==
    /\ number \in [0 .. Len(cells) -> Nat] /\ number[0] = 0
    /\ \A k \in 1 .. Len(cells) : number[k] = number[k - 1] * CellBase + cells[k]
    /\ Number(cells) = number[Len(cells)]

LEMMA NumberIs ==
    ASSUME NEW cells \in Cells
    PROVE  \E number : IsNumber(number, cells)
<1> DEFINE n == Len(cells)
           Value[k \in 0 .. n] == IF k = 0 THEN 0 ELSE Value[k - 1] * CellBase + cells[k]
           step == [k \in 1 .. n |-> [v \in Nat |-> v * CellBase + cells[k]]]
<1>1. n \in Nat /\ \A k \in 1 .. n : cells[k] \in Nat
  BY LenProperties, ElementOfSeq DEF Cells
<1>2. \A v, c \in Nat : v * CellBase + c \in Nat
  BY BufferAssumption
<1> HIDE DEF n
<1>3. step \in [1 .. n -> [Nat -> Nat]]
  BY <1>1, <1>2
<1>4. \E f : IsLoop(f, n, Nat, 0, step)
  <2> HIDE DEF step
  <2> QED
    BY <1>1, <1>3, LoopExists
<1>5. PICK f : f \in [0 .. n -> Nat] /\ f[0] = 0 /\ \A k \in 1 .. n : f[k] = step[k][f[k - 1]]
  <2> HIDE DEF step
  <2> QED
    BY <1>4 DEF IsLoop
<1>6. ASSUME NEW k \in 0 .. n
      PROVE  f[k] = IF k = 0 THEN 0 ELSE f[k - 1] * CellBase + cells[k]
  <2>1. CASE k = 0
    BY <1>5, <2>1
  <2>2. CASE k # 0
    <3>1. k \in 1 .. n /\ k - 1 \in 0 .. n
      BY <1>1, <2>2
    <3>2. f[k] = step[k][f[k - 1]] /\ f[k - 1] \in Nat
      BY <1>5, <3>1
    <3>3. step[k][f[k - 1]] = f[k - 1] * CellBase + cells[k]
      BY <3>1, <3>2
    <3> HIDE DEF step
    <3> QED
      BY <2>2, <3>2, <3>3
  <2> QED
    BY <2>1, <2>2
<1>7. f = [k \in 0 .. n |-> f[k]]
  BY <1>5
<1>8. f = [k \in 0 .. n |-> IF k = 0 THEN 0 ELSE f[k - 1] * CellBase + cells[k]]
  BY <1>6, <1>7
<1>9. \E g : g = [k \in 0 .. n |-> IF k = 0 THEN 0 ELSE g[k - 1] * CellBase + cells[k]]
  BY <1>8
<1>10. Value = [k \in 0 .. n |-> IF k = 0 THEN 0 ELSE Value[k - 1] * CellBase + cells[k]]
  BY <1>9 DEF Value
<1>11. Number(cells) = Value[n]
  BY DEF Number, n
<1> HIDE DEF Value, step
<1>12. Value[0] \in Nat
  BY <1>1, <1>10
<1>13. ASSUME NEW k \in 1 .. n, Value[k - 1] \in Nat
       PROVE  Value[k] \in Nat
  <2>1. Value[k] = Value[k - 1] * CellBase + cells[k]
    BY <1>1, <1>10
  <2> QED
    BY <1>1, <1>2, <1>13, <2>1
<1>14. \A k \in 0 .. n : Value[k] \in Nat
  BY <1>1, <1>12, <1>13, LoopPreserves
<1>15. /\ Value \in [0 .. n -> Nat] /\ Value[0] = 0
       /\ \A k \in 1 .. n : Value[k] = Value[k - 1] * CellBase + cells[k]
  <2>1. Value[0] = 0 /\ \A k \in 1 .. n : Value[k] = Value[k - 1] * CellBase + cells[k]
    BY <1>1, <1>10
  <2> QED
    BY <1>10, <1>14, <2>1
<1> QED
  BY <1>11, <1>15 DEF IsNumber, n

LEMMA NumberTyped ==
    ASSUME NEW cells \in Cells
    PROVE  Number(cells) \in Nat
<1>1. PICK number : IsNumber(number, cells)
  BY NumberIs
<1>2. Len(cells) \in Nat
  BY LenProperties DEF Cells
<1> QED
  BY <1>1, <1>2 DEF IsNumber

LEMMA OrderedTyped ==
    ASSUME NEW q \in GoodBuffers, NEW cells \in Cells
    PROVE  Ordered(q, cells) \in Cells /\ Len(Ordered(q, cells)) = Len(cells)
<1>1. Len(cells) \in Nat /\ \A k \in 1 .. Len(cells) : cells[k] \in Nat
  BY LenProperties, ElementOfSeq DEF Cells
<1>2. Reverse(cells) = [i \in 1 .. Len(cells) |-> cells[(Len(cells) - i) + 1]]
  BY DEF Reverse
<1>3. \A i \in 1 .. Len(cells) : (Len(cells) - i) + 1 \in 1 .. Len(cells)
  BY <1>1
<1>4. Reverse(cells) \in Seq(Nat) /\ Len(Reverse(cells)) = Len(cells)
  BY <1>1, <1>2, <1>3
<1> QED
  BY <1>4 DEF Ordered, Cells

-----------------------------------------------------------------------------
(* The operators << *)

\* From one buffer to the next.
LEMMA ExtendsSame ==
    ASSUME NEW q, NEW same, NEW r, NEW cells, Same(same, q), Extends(r, same, cells)
    PROVE  Extends(r, q, cells)
BY DEF Same, Extends

LEMMA ExtendsBoth ==
    ASSUME NEW q \in GoodBuffers, NEW front \in Cells, NEW back \in Cells,
           NEW r, NEW s, Extends(r, q, front), Extends(s, r, back)
    PROVE  Extends(s, q, front \o back)
<1>1. Content(q) \in Seq(Nat) /\ front \in Seq(Nat) /\ back \in Seq(Nat)
  BY ContentIs DEF Cells
<1>2. Content(s) = Content(q) \o (front \o back)
  <2>1. Content(s) = (Content(q) \o front) \o back
    BY DEF Extends
  <2>2. (Content(q) \o front) \o back = Content(q) \o (front \o back)
    <3> DEFINE c == Content(q)
    <3>1. c \in Seq(Nat)
      BY <1>1
    <3> HIDE DEF c
    <3>2. (c \o front) \o back = c \o (front \o back)
      BY <1>1, <3>1, ConcatAssociative, SMTT(30)
    <3> QED
      BY <3>2 DEF c
  <2> QED
    BY <2>1, <2>2
<1>3. Len(front \o back) = Len(front) + Len(back)
  BY <1>1, ConcatProperties
<1>4. s.dataEndPtr = q.dataEndPtr + Len(front \o back)
  <2>1. q.dataEndPtr \in Nat /\ Len(front) \in Nat /\ Len(back) \in Nat
    BY <1>1, GoodParts, LenProperties
  <2>2. s.dataEndPtr = (q.dataEndPtr + Len(front)) + Len(back)
    BY DEF Extends
  <2> QED
    BY <1>3, <2>1, <2>2
<1> QED
  BY <1>2, <1>4 DEF Extends

\* A number is put behind all that is in the buffer.
LEMMA PutExtends ==
    ASSUME NEW q \in GoodBuffers, NEW value \in Nat, NEW width \in 1 .. 4
    PROVE  /\ Ordered(q, CellsOf(value, width)) \in Cells
           /\ Len(Ordered(q, CellsOf(value, width))) = width
           /\ Extends(Put(q, value, width), q, Ordered(q, CellsOf(value, width)))
           /\ q.dataSize <= Put(q, value, width).dataSize
<1> DEFINE grown == GrowOnce(q, width)
           cells == Ordered(q, CellsOf(value, width))
<1>1. /\ Same(grown, q) /\ q.dataEndPtr + width <= grown.dataSize
      /\ q.dataSize <= grown.dataSize
  BY GrowOnceSame
<1>2. CellsOf(value, width) \in Cells /\ Len(CellsOf(value, width)) = width
  BY CellsOfTyped
<1>3. cells \in Cells /\ Len(cells) = width
  BY <1>2, OrderedTyped
<1>4. Put(q, value, width) = Store(grown, cells)
  BY DEF Put
<1> HIDE DEF grown, cells
<1>6. grown \in GoodBuffers /\ grown.dataEndPtr + Len(cells) <= grown.dataSize
  BY <1>1, <1>3 DEF Same
<1>7. Extends(Store(grown, cells), grown, cells) /\ Store(grown, cells).dataSize = grown.dataSize
  BY <1>3, <1>6, StoreExtends
<1>8. Extends(Store(grown, cells), q, cells)
  BY <1>1, <1>7, ExtendsSame
<1> QED
  BY <1>1, <1>3, <1>4, <1>7, <1>8 DEF cells

\* A text is put with its length in front.
LEMMA PutStringExtends ==
    ASSUME NEW q \in GoodBuffers, NEW text \in Cells
    PROVE  Extends(PutString(q, text), q, Ordered(q, CellsOf(2 * Len(text), 2)) \o text)
<1> DEFINE n     == Len(text)
           grown == Grow(q, n + 2)
           word  == PutWord(grown, 2 * n)
           front == Ordered(q, CellsOf(2 * n, 2))
<1>1. n \in Nat /\ n + 2 \in Nat /\ 2 * n \in Nat /\ 2 \in 1 .. 4
  BY LenProperties DEF Cells
<1>2. PutString(q, text) = Store(word, text)
  BY DEF PutString
<1> HIDE DEF n
<1>3. Same(grown, q) /\ q.dataEndPtr + (n + 2) <= grown.dataSize
  BY <1>1, GrowSame
<1>4. Ordered(grown, CellsOf(2 * n, 2)) = front
  BY <1>3 DEF Same, Ordered
<1> HIDE DEF grown, front
<1>5. grown \in GoodBuffers /\ grown.dataEndPtr = q.dataEndPtr
  BY <1>3 DEF Same
<1>6. /\ front \in Cells /\ Len(front) = 2 /\ Extends(word, grown, front)
      /\ grown.dataSize <= word.dataSize
  BY <1>1, <1>4, <1>5, PutExtends DEF PutWord
<1> HIDE DEF word
<1>7. word \in GoodBuffers /\ word.dataEndPtr = q.dataEndPtr + 2
  BY <1>5, <1>6 DEF Extends
<1>8. word.dataEndPtr + n <= word.dataSize
  <2>1. q.dataEndPtr \in Nat /\ grown.dataSize \in Nat /\ word.dataSize \in Nat
    BY <1>5, <1>7, GoodParts
  <2> QED
    BY <1>1, <1>3, <1>6, <1>7, <2>1
<1>9. Extends(Store(word, text), word, text)
  BY <1>7, <1>8, StoreExtends DEF n
<1>10. Extends(word, q, front)
  BY <1>3, <1>6, ExtendsSame
<1>11. Extends(Store(word, text), q, front \o text)
  BY <1>6, <1>9, <1>10, ExtendsBoth
<1> QED
  BY <1>2, <1>11 DEF front, n

\* Of another buffer all that has not been read is put.
LEMMA PutQueryExtends ==
    ASSUME NEW q \in GoodBuffers, NEW other \in GoodBuffers
    PROVE  Extends(PutQuery(q, other), q, Content(other))
<1> DEFINE n     == GetLength(other)
           grown == Grow(q, n)
           cells == Content(other)
<1>1. n \in Nat
  BY GoodParts
<1>2. cells \in Cells /\ Len(cells) = n
  BY ContentIs
<1>3. PutQuery(q, other) = Store(grown, cells)
  BY DEF PutQuery
<1> HIDE DEF n, cells
<1>4. Same(grown, q) /\ q.dataEndPtr + n <= grown.dataSize
  BY <1>1, GrowSame
<1> HIDE DEF grown
<1>5. grown \in GoodBuffers /\ grown.dataEndPtr + Len(cells) <= grown.dataSize
  BY <1>2, <1>4 DEF Same
<1>6. Extends(Store(grown, cells), grown, cells)
  BY <1>2, <1>5, StoreExtends
<1>7. Extends(Store(grown, cells), q, cells)
  BY <1>4, <1>6, ExtendsSame
<1> QED
  BY <1>3, <1>7 DEF cells

LEMMA PutNumberGood ==
    ASSUME NEW q \in GoodBuffers, NEW value \in Nat
    PROVE  /\ PutShort(q, value) \in GoodBuffers
           /\ PutWord(q, value) \in GoodBuffers
           /\ PutLong(q, value) \in GoodBuffers
<1>1. ASSUME NEW width \in 1 .. 4
      PROVE  Put(q, value, width) \in GoodBuffers
  BY PutExtends DEF Extends
<1>2. 1 \in 1 .. 4 /\ 2 \in 1 .. 4 /\ 4 \in 1 .. 4
  OBVIOUS
<1> QED
  BY <1>1, <1>2 DEF PutShort, PutWord, PutLong

LEMMA PutStringGood ==
    ASSUME NEW q \in GoodBuffers, NEW text \in Cells
    PROVE  PutString(q, text) \in GoodBuffers
<1>1. Extends(PutString(q, text), q, Ordered(q, CellsOf(2 * Len(text), 2)) \o text)
  BY PutStringExtends
<1> QED
  BY <1>1 DEF Extends

LEMMA NewBuffer ==
    /\ NetworkQuery \in GoodBuffers
    /\ NetworkQuery.convertEndian /\ NetworkQuery.dataStartPtr = 0 /\ NetworkQuery.dataEndPtr = 0
    /\ Content(NetworkQuery) = <<>>
<1>1. InitialSize \in Nat /\ InitialSize >= 4
  BY BufferAssumption
<1>2. Uninitialised(InitialSize) \in Seq(Int) /\ Len(Uninitialised(InitialSize)) = InitialSize
  BY <1>1, Unset
<1> DEFINE q == NetworkQuery
<1>3. q = [data |-> Uninitialised(InitialSize), dataStartPtr |-> 0, dataEndPtr |-> 0,
           dataSize |-> InitialSize, convertEndian |-> TRUE]
  <2> DEFINE cells == Uninitialised(InitialSize)
             p == Query(InitialSize)
  <2>1. p = [data |-> cells, dataStartPtr |-> 0, dataEndPtr |-> 0,
             dataSize |-> InitialSize, convertEndian |-> FALSE]
    BY DEF Query
  <2>2. q = [p EXCEPT !.convertEndian = TRUE]
    BY DEF NetworkQuery
  <2> HIDE DEF cells, p, q
  <2>3. q = [data |-> cells, dataStartPtr |-> 0, dataEndPtr |-> 0,
             dataSize |-> InitialSize, convertEndian |-> TRUE]
    BY <2>1, <2>2
  <2> QED
    BY <2>3 DEF cells
<1> HIDE DEF q
<1>4. q \in GoodBuffers
  BY <1>1, <1>2, <1>3 DEF GoodBuffers
<1>5. Content(q) = <<>>
  <2>1. Content(q) \in Seq(Nat) /\ Len(Content(q)) = 0
    BY <1>3, <1>4, ContentIs DEF Cells, GetLength
  <2> QED
    BY <2>1, EmptySeq
<1> QED
  BY <1>3, <1>4, <1>5 DEF q

-----------------------------------------------------------------------------
(* Numbers are read as they were put in *)

LEMMA Division ==
    ASSUME NEW n \in Nat
    PROVE  /\ n \div CellBase \in Nat /\ n % CellBase \in Nat
           /\ n = (n \div CellBase) * CellBase + (n % CellBase)
           /\ n % CellBase < CellBase
           /\ n < CellBase => n \div CellBase = 0
           /\ n < CellBase * CellBase => n \div CellBase < CellBase
           /\ n \div (CellBase * CellBase) = (n \div CellBase) \div CellBase
<1>1. CellBase \in Nat /\ CellBase > 0
  BY BufferAssumption
<1>2. n \div CellBase \in Nat /\ n % CellBase \in Nat
  BY <1>1
<1>3. n = (n \div CellBase) * CellBase + (n % CellBase) /\ n % CellBase < CellBase
  BY <1>1
<1>4. n < CellBase => n \div CellBase = 0
  BY <1>1
<1>5. n < CellBase * CellBase => n \div CellBase < CellBase
  BY <1>1
<1>6. n \div (CellBase * CellBase) = (n \div CellBase) \div CellBase
  BY <1>1
<1> QED
  BY <1>2, <1>3, <1>4, <1>5, <1>6

\* A number fits when nothing is left above its cells.
Fits(value, width) ==
    value \in Nat /\ \A above : IsAbove(above, value, width) => above[width] = 0

LEMMA NumberBack ==
    ASSUME NEW value, NEW width \in Nat, Fits(value, width)
    PROVE  Number(CellsOf(value, width)) = value
<1> DEFINE cells == CellsOf(value, width)
<1>1. value \in Nat /\ cells \in Cells /\ Len(cells) = width
  BY CellsOfTyped DEF Fits
<1>2. PICK above : IsAbove(above, value, width)
  BY <1>1, CellsOfIs
<1>3. above[width] = 0
  BY <1>2 DEF Fits
<1>4. /\ \A k \in 0 .. width : above[k] \in Nat
      /\ above[0] = value
      /\ \A k \in 1 .. width : above[k] = above[k - 1] \div CellBase
      /\ \A k \in 1 .. width : cells[k] = above[width - k] % CellBase
  BY <1>2 DEF IsAbove
<1> HIDE DEF cells
<1>5. PICK number : IsNumber(number, cells)
  BY <1>1, NumberIs
<1>6. /\ number[0] = 0 /\ Number(cells) = number[width]
      /\ \A k \in 1 .. width : number[k] = number[k - 1] * CellBase + cells[k]
  BY <1>1, <1>5 DEF IsNumber
<1> DEFINE T == {k \in 0 .. width : number[k] = above[width - k]}
<1>7. 0 \in T
  <2>1. width - 0 = width /\ 0 \in 0 .. width
    OBVIOUS
  <2> QED
    BY <1>3, <1>6, <2>1
<1>8. ASSUME NEW k \in 1 .. width, k - 1 \in T
      PROVE  k \in T
  <2> DEFINE a == above[width - k]
             j == width - k + 1
  <2>1. /\ k \in 0 .. width /\ width - k \in 0 .. width /\ j \in 1 .. width
        /\ j - 1 = width - k /\ width - (k - 1) = j
    OBVIOUS
  <2>2. number[k] = number[k - 1] * CellBase + cells[k]
    BY <1>6
  <2>3. number[k - 1] = above[j]
    BY <1>8, <2>1
  <2>4. above[j] = a \div CellBase
    <3> HIDE DEF j
    <3> QED
      BY <1>4, <2>1
  <2>5. cells[k] = a % CellBase
    BY <1>4
  <2>6. a \in Nat
    BY <1>4, <2>1
  <2> HIDE DEF a, T
  <2>7. a = (a \div CellBase) * CellBase + (a % CellBase)
    BY <2>6, Division
  <2>8. number[k] = a
    BY <2>2, <2>3, <2>4, <2>5, <2>7
  <2> QED
    BY <2>1, <2>8 DEF T, a
<1>9. \A k \in 0 .. width : k \in T
  <2> HIDE DEF T
  <2> QED
    BY <1>7, <1>8, InductiveUpTo
<1>10. number[width] = above[0]
  <2>1. width \in 0 .. width /\ width - width = 0
    OBVIOUS
  <2>2. width \in T
    BY <1>9, <2>1
  <2> QED
    BY <2>1, <2>2
<1> QED
  BY <1>4, <1>6, <1>10 DEF cells

LEMMA ShortFits ==
    ASSUME NEW value \in Nat, value < CellBase
    PROVE  Fits(value, 1)
<1>1. ASSUME NEW above, IsAbove(above, value, 1)
      PROVE  above[1] = 0
  <2>1. 1 \in 1 .. 1 /\ 1 - 1 = 0
    OBVIOUS
  <2>2. above[0] = value /\ above[1] = above[0] \div CellBase
    BY <1>1, <2>1 DEF IsAbove
  <2> QED
    BY <2>2, Division
<1> QED
  BY <1>1 DEF Fits

LEMMA WordFits ==
    ASSUME NEW value \in Nat, value < WordLimit
    PROVE  Fits(value, 2)
<1>1. ASSUME NEW above, IsAbove(above, value, 2)
      PROVE  above[2] = 0
  <2>1. 1 \in 1 .. 2 /\ 2 \in 1 .. 2 /\ 1 - 1 = 0 /\ 2 - 1 = 1
    OBVIOUS
  <2>2. /\ above[0] = value /\ above[1] = above[0] \div CellBase
        /\ above[2] = above[1] \div CellBase
    BY <1>1, <2>1 DEF IsAbove
  <2>3. above[1] \in Nat /\ above[1] < CellBase
    BY <2>2, Division DEF WordLimit
  <2> QED
    BY <2>2, <2>3, Division
<1> QED
  BY <1>1 DEF Fits

LEMMA LongFits ==
    ASSUME NEW value \in Nat, value \div WordLimit < WordLimit
    PROVE  Fits(value, 4)
<1>1. ASSUME NEW above, IsAbove(above, value, 4)
      PROVE  above[4] = 0
  <2>1. /\ 1 \in 1 .. 4 /\ 2 \in 1 .. 4 /\ 3 \in 1 .. 4 /\ 4 \in 1 .. 4
        /\ 1 - 1 = 0 /\ 2 - 1 = 1 /\ 3 - 1 = 2 /\ 4 - 1 = 3
    OBVIOUS
  <2>2. /\ above[0] = value /\ above[1] = above[0] \div CellBase
        /\ above[2] = above[1] \div CellBase /\ above[3] = above[2] \div CellBase
        /\ above[4] = above[3] \div CellBase
    BY <1>1, <2>1 DEF IsAbove
  <2>3. above[1] \in Nat /\ above[2] \in Nat
    <3>1. above[1] \in Nat
      BY <2>2, Division
    <3> QED
      BY <2>2, <3>1, Division
  <2>4. above[2] = value \div WordLimit
    BY <2>2, Division DEF WordLimit
  <2>5. above[3] \in Nat /\ above[3] < CellBase
    BY <2>2, <2>3, <2>4, Division DEF WordLimit
  <2> QED
    BY <2>2, <2>5, Division
<1> QED
  BY <1>1 DEF Fits

LEMMA PartTyped ==
    ASSUME NEW cells \in Cells, NEW n \in 0 .. Len(cells)
    PROVE  /\ SubSeq(cells, 1, n) \in Cells /\ Len(SubSeq(cells, 1, n)) = n
           /\ SubSeq(cells, n + 1, Len(cells)) \in Cells
           /\ Len(SubSeq(cells, n + 1, Len(cells))) = Len(cells) - n
<1>1. cells \in Seq(Nat) /\ Len(cells) \in Nat /\ n \in Nat /\ n <= Len(cells)
  BY LenProperties DEF Cells
<1>2. \A k \in 1 .. Len(cells) : cells[k] \in Nat
  BY <1>1, ElementOfSeq
<1>3. 1 \in Int /\ n \in Int /\ n + 1 \in Int /\ Len(cells) \in Int
  BY <1>1
<1>4. (\A k \in 1 .. n : cells[k] \in Nat) /\ (\A k \in n + 1 .. Len(cells) : cells[k] \in Nat)
  BY <1>1, <1>2
<1>5. /\ SubSeq(cells, 1, n) \in Seq(Nat)
      /\ Len(SubSeq(cells, 1, n)) = IF 1 <= n THEN n - 1 + 1 ELSE 0
  BY <1>3, <1>4, SubSeqProperties
<1>6. /\ SubSeq(cells, n + 1, Len(cells)) \in Seq(Nat)
      /\ Len(SubSeq(cells, n + 1, Len(cells)))
           = IF n + 1 <= Len(cells) THEN Len(cells) - (n + 1) + 1 ELSE 0
  BY <1>3, <1>4, SubSeqProperties
<1>7. /\ (IF 1 <= n THEN n - 1 + 1 ELSE 0) = n
      /\ (IF n + 1 <= Len(cells) THEN Len(cells) - (n + 1) + 1 ELSE 0) = Len(cells) - n
  BY <1>1
<1> QED
  BY <1>5, <1>6, <1>7 DEF Cells

\* What stands in front and what stands behind.
LEMMA Split ==
    ASSUME NEW a \in Cells, NEW b \in Cells
    PROVE  /\ SubSeq(a \o b, 1, Len(a)) = a
           /\ SubSeq(a \o b, Len(a) + 1, Len(a) + Len(b)) = b
<1> DEFINE c == a \o b
<1>1. a \in Seq(Nat) /\ b \in Seq(Nat) /\ Len(a) \in Nat /\ Len(b) \in Nat
  BY LenProperties DEF Cells
<1>2. /\ c \in Seq(Nat) /\ Len(c) = Len(a) + Len(b)
      /\ \A i \in 1 .. Len(a) + Len(b) : c[i] = IF i <= Len(a) THEN a[i] ELSE b[i - Len(a)]
  BY <1>1, ConcatProperties
<1> HIDE DEF c
<1>3. \A i \in 1 .. Len(a) + Len(b) : c[i] \in Nat
  <2>1. DOMAIN c = 1 .. Len(c)
    BY <1>2, LenProperties
  <2> QED
    BY <1>2, <2>1, ElementOfSeq
<1>4. SubSeq(c, 1, Len(a)) = a
  <2> DEFINE s == SubSeq(c, 1, Len(a))
  <2>1. 1 \in Int /\ Len(a) \in Int /\ \A i \in 1 .. Len(a) : c[i] \in Nat
    BY <1>1, <1>3
  <2>2. /\ s \in Seq(Nat) /\ Len(s) = IF 1 <= Len(a) THEN Len(a) - 1 + 1 ELSE 0
        /\ \A i \in 1 .. Len(a) - 1 + 1 : s[i] = c[1 + i - 1]
    BY <2>1, SubSeqProperties
  <2> HIDE DEF s
  <2>3. Len(s) = Len(a)
    BY <1>1, <2>2
  <2>4. \A i \in 1 .. Len(s) : s[i] = a[i]
    <3>1. ASSUME NEW i \in 1 .. Len(s)
          PROVE  s[i] = a[i]
      <4>1. i \in 1 .. Len(a) - 1 + 1 /\ 1 + i - 1 = i /\ i \in 1 .. Len(a) + Len(b) /\ i <= Len(a)
        BY <1>1, <2>3
      <4>2. s[i] = c[i]
        BY <2>2, <4>1
      <4> QED
        BY <1>2, <4>1, <4>2
    <3> QED
      BY <3>1
  <2> QED
    BY <1>1, <2>2, <2>3, <2>4, SeqEqual DEF s
<1>5. SubSeq(c, Len(a) + 1, Len(a) + Len(b)) = b
  <2> DEFINE from == Len(a) + 1
             to   == Len(a) + Len(b)
             s    == SubSeq(c, from, to)
  <2>1. from \in Int /\ to \in Int /\ \A i \in from .. to : c[i] \in Nat
    BY <1>1, <1>3
  <2>2. /\ s \in Seq(Nat) /\ Len(s) = IF from <= to THEN to - from + 1 ELSE 0
        /\ \A i \in 1 .. to - from + 1 : s[i] = c[from + i - 1]
    <3> HIDE DEF from, to
    <3> QED
      BY <2>1, SubSeqProperties
  <2> HIDE DEF s
  <2>3. Len(s) = Len(b)
    BY <1>1, <2>2
  <2>4. \A i \in 1 .. Len(s) : s[i] = b[i]
    <3>1. ASSUME NEW i \in 1 .. Len(s)
          PROVE  s[i] = b[i]
      <4>1. /\ i \in 1 .. to - from + 1 /\ from + i - 1 = Len(a) + i
            /\ Len(a) + i \in 1 .. Len(a) + Len(b) /\ ~(Len(a) + i <= Len(a))
            /\ Len(a) + i - Len(a) = i
        BY <1>1, <2>3
      <4>2. s[i] = c[Len(a) + i]
        BY <2>2, <4>1
      <4> QED
        BY <1>2, <4>1, <4>2
    <3> QED
      BY <3>1
  <2> QED
    BY <1>1, <2>2, <2>3, <2>4, SeqEqual DEF s
<1> QED
  BY <1>4, <1>5 DEF c

LEMMA SplitBehind ==
    ASSUME NEW a \in Cells, NEW b \in Cells, NEW n \in Nat, n <= Len(b)
    PROVE  SubSeq(a \o b, 1, Len(a) + n) = a \o SubSeq(b, 1, n)
<1> DEFINE c == a \o b
           d == SubSeq(b, 1, n)
<1>1. a \in Seq(Nat) /\ b \in Seq(Nat) /\ Len(a) \in Nat /\ Len(b) \in Nat
  BY LenProperties DEF Cells
<1>2. /\ c \in Seq(Nat) /\ Len(c) = Len(a) + Len(b)
      /\ \A i \in 1 .. Len(a) + Len(b) : c[i] = IF i <= Len(a) THEN a[i] ELSE b[i - Len(a)]
  BY <1>1, ConcatProperties
<1> HIDE DEF c
<1>3. \A i \in 1 .. Len(a) + Len(b) : c[i] \in Nat
  <2>1. DOMAIN c = 1 .. Len(c)
    BY <1>2, LenProperties
  <2> QED
    BY <1>2, <2>1, ElementOfSeq
<1>6. SubSeq(c, 1, Len(a) + n) = a \o d
  <2> DEFINE to == Len(a) + n
             s  == SubSeq(c, 1, to)
             t  == a \o d
  <2>1. 1 \in Int /\ to \in Int /\ n \in Int /\ \A i \in 1 .. to : c[i] \in Nat
    BY <1>1, <1>3
  <2>2. /\ s \in Seq(Nat) /\ Len(s) = IF 1 <= to THEN to - 1 + 1 ELSE 0
        /\ \A i \in 1 .. to - 1 + 1 : s[i] = c[1 + i - 1]
    <3> HIDE DEF to
    <3> QED
      BY <2>1, SubSeqProperties
  <2>3. d \in Seq(Nat) /\ Len(d) = n /\ \A i \in 1 .. n : d[i] = b[i]
    <3>1. \A i \in 1 .. n : b[i] \in Nat
      BY <1>1, ElementOfSeq
    <3>2. /\ d \in Seq(Nat) /\ Len(d) = IF 1 <= n THEN n - 1 + 1 ELSE 0
          /\ \A i \in 1 .. n - 1 + 1 : d[i] = b[1 + i - 1]
      BY <2>1, <3>1, SubSeqProperties
    <3> HIDE DEF d
    <3>3. n - 1 + 1 = n /\ \A i \in 1 .. n : 1 + i - 1 = i
      BY <1>1
    <3> QED
      BY <1>1, <3>2, <3>3
  <2> HIDE DEF s, d
  <2>4. /\ t \in Seq(Nat) /\ Len(t) = Len(a) + n
        /\ \A i \in 1 .. Len(a) + n : t[i] = IF i <= Len(a) THEN a[i] ELSE d[i - Len(a)]
    BY <1>1, <2>3, ConcatProperties
  <2> HIDE DEF t
  <2>5. Len(s) = Len(t)
    BY <1>1, <2>2, <2>4
  <2>6. \A i \in 1 .. Len(s) : s[i] = t[i]
    <3>1. ASSUME NEW i \in 1 .. Len(s)
          PROVE  s[i] = t[i]
      <4>1. /\ i \in 1 .. to - 1 + 1 /\ 1 + i - 1 = i
            /\ i \in 1 .. Len(a) + n /\ i \in 1 .. Len(a) + Len(b)
            /\ ~(i <= Len(a)) => i - Len(a) \in 1 .. n
        BY <1>1, <2>4, <2>5
      <4>2. s[i] = c[i]
        BY <2>2, <4>1
      <4>3. t[i] = IF i <= Len(a) THEN a[i] ELSE b[i - Len(a)]
        BY <2>3, <2>4, <4>1
      <4> QED
        BY <1>2, <4>1, <4>2, <4>3
    <3> QED
      BY <3>1
  <2> QED
    BY <2>2, <2>4, <2>5, <2>6, SeqEqual DEF s, t
<1> QED
  BY <1>6 DEF c, d

LEMMA Regrouped ==
    ASSUME NEW a \in Cells, NEW b \in Cells, NEW c \in Cells
    PROVE  (a \o b) \o c = a \o (b \o c)
<1>1. a \in Seq(Nat) /\ b \in Seq(Nat) /\ c \in Seq(Nat)
  BY DEF Cells
<1> QED
  BY <1>1, ConcatAssociative, SMTT(30)

LEMMA JoinTyped ==
    ASSUME NEW a \in Cells, NEW b \in Cells
    PROVE  a \o b \in Cells /\ Len(a \o b) = Len(a) + Len(b) /\ Len(a) \in Nat /\ Len(b) \in Nat
<1>1. a \in Seq(Nat) /\ b \in Seq(Nat)
  BY DEF Cells
<1> QED
  BY <1>1, ConcatProperties, LenProperties DEF Cells

-----------------------------------------------------------------------------
(* What searchd reads *)

LEMMA EncodeTextTyped ==
    ASSUME NEW text \in Cells
    PROVE  EncodeText(text) \in Cells
<1>1. Len(text) \in Nat /\ 2 * Len(text) \in Nat /\ 2 \in Nat
  BY LenProperties DEF Cells
<1>2. CellsOf(2 * Len(text), 2) \in Seq(Nat)
  BY <1>1, CellsOfTyped DEF Cells
<1> QED
  BY <1>2, ConcatProperties DEF EncodeText, Cells

Widths == Nat

Readers == [got : Seq(Nat \cup Cells), rest : Cells, ok : BOOLEAN, named : {<<>>}]

\* The cells there are at least, what something is written as and read as.
Least(width) == IF width = Text THEN 2 ELSE width

Encoded(width, x) == IF width = Text THEN EncodeText(x) ELSE CellsOf(x, width)

Decoded(width, x) == IF width = Text THEN x ELSE Number(CellsOf(x, width))

Sendable(width, x) == IF width = Text THEN x \in Cells /\ Fits(2 * Len(x), 2) ELSE x \in Nat

LEMMA TakeTyped ==
    ASSUME NEW r \in Readers, NEW width \in Widths
    PROVE  /\ Take(r, width) \in Readers
           /\ Take(r, width).ok =>
                r.ok /\ Len(Take(r, width).rest) <= Len(r.rest) - Least(width)
<1> DEFINE cells  == r.rest
           front  == Least(width)
           number == Number(SubSeq(cells, 1, front))
           size   == front + (IF width = Text THEN number \div 2 ELSE 0)
           enough == r.ok /\ front <= Len(cells) /\ size <= Len(cells)
           value  == IF width = Text THEN SubSeq(cells, 3, size) ELSE number
           left   == SubSeq(cells, size + 1, Len(cells))
<1>1. cells \in Cells /\ Len(cells) \in Nat /\ r.ok \in BOOLEAN /\ front \in Nat
  <2>1. r.rest \in Seq(Nat)
    BY DEF Readers, Cells
  <2>2. front \in Nat
    BY DEF Least, Widths, Text
  <2> QED
    BY <2>1, <2>2, LenProperties DEF Readers, Cells
<1>2. Take(r, width) = IF enough THEN [r EXCEPT !.got = Append(@, value), !.rest = left]
                       ELSE [r EXCEPT !.ok = FALSE]
  BY DEF Take, Least
<1>3. CASE ~enough
  <2>1. Take(r, width) = [r EXCEPT !.ok = FALSE]
    BY <1>2, <1>3
  <2> QED
    BY <2>1 DEF Readers
<1>4. CASE enough
  <2>1. SubSeq(cells, 1, front) \in Cells /\ front \in 0 .. Len(cells)
    <3>1. front \in 0 .. Len(cells)
      BY <1>1, <1>4
    <3> HIDE DEF front, cells
    <3> QED
      BY <1>1, <3>1, PartTyped
  <2>2. number \in Nat
    <3> DEFINE part == SubSeq(cells, 1, front)
    <3>1. part \in Cells
      BY <2>1
    <3> HIDE DEF part
    <3>2. Number(part) \in Nat
      BY <3>1, NumberTyped
    <3> QED
      BY <3>2 DEF part
  <2> HIDE DEF number
  <2>3. size \in Nat /\ size >= front /\ size <= Len(cells) /\ size \in 0 .. Len(cells)
    <3>1. number \div 2 \in Nat
      BY <2>2
    <3> HIDE DEF front, cells
    <3> QED
      BY <1>1, <1>4, <3>1
  <2>4. Take(r, width) = [r EXCEPT !.got = Append(@, value), !.rest = left]
    BY <1>2, <1>4
  <2> HIDE DEF size
  <2>5. left \in Cells /\ Len(left) = Len(cells) - size
    <3> HIDE DEF cells
    <3> QED
      BY <1>1, <2>3, PartTyped
  <2>6. value \in Nat \cup Cells
    <3>1. \A k \in 3 .. size : cells[k] \in Nat
      <4>1. cells \in Seq(Nat)
        BY <1>1 DEF Cells
      <4> HIDE DEF cells
      <4>2. \A k \in 3 .. size : k \in 1 .. Len(cells)
        BY <1>1, <2>3
      <4> QED
        BY <4>1, <4>2, ElementOfSeq
    <3>2. SubSeq(cells, 3, size) \in Seq(Nat)
      <4>1. 3 \in Int /\ size \in Int
        BY <2>3
      <4> HIDE DEF cells
      <4> QED
        BY <3>1, <4>1, SubSeqProperties
    <3> QED
      BY <2>2, <3>2 DEF Cells
  <2> HIDE DEF value, left
  <2>7. r.got \in Seq(Nat \cup Cells)
    BY DEF Readers
  <2>8. Append(r.got, value) \in Seq(Nat \cup Cells)
    BY <2>6, <2>7, AppendProperties
  <2>9. Take(r, width) \in Readers /\ Take(r, width).rest = left
    BY <2>4, <2>5, <2>8 DEF Readers
  <2>10. r.ok
    BY <1>4
  <2>11. Len(left) <= Len(cells) - front
    <3> HIDE DEF front, cells
    <3> QED
      BY <1>1, <2>3, <2>5
  <2> QED
    BY <2>9, <2>10, <2>11
<1> QED
  BY <1>3, <1>4

\* One number or text after another.
IsTaking(after, r, format) ==
    /\ after \in [0 .. Len(format) -> Readers] /\ after[0] = r
    /\ \A k \in 1 .. Len(format) : after[k] = Take(after[k - 1], format[k])
    /\ TakeAll(r, format) = after[Len(format)]

LEMMA TakeAllIs ==
    ASSUME NEW r \in Readers, NEW format \in Seq(Widths)
    PROVE  \E after : IsTaking(after, r, format)
<1> DEFINE n == Len(format)
           After[k \in 0 .. n] == IF k = 0 THEN r ELSE Take(After[k - 1], format[k])
           step == [k \in 1 .. n |-> [b \in Readers |-> Take(b, format[k])]]
<1>1. n \in Nat /\ \A k \in 1 .. n : format[k] \in Widths
  BY LenProperties, ElementOfSeq
<1>2. \A b \in Readers, w \in Widths : Take(b, w) \in Readers
  BY TakeTyped
<1>3. TakeAll(r, format) = After[n]
  BY DEF TakeAll
<1> HIDE DEF n
<1>4. step \in [1 .. n -> [Readers -> Readers]]
  BY <1>1, <1>2
<1>5. \E f : IsLoop(f, n, Readers, r, step)
  <2> HIDE DEF step
  <2> QED
    BY <1>1, <1>4, LoopExists
<1>6. PICK f : f \in [0 .. n -> Readers] /\ f[0] = r /\ \A k \in 1 .. n : f[k] = step[k][f[k - 1]]
  <2> HIDE DEF step
  <2> QED
    BY <1>5 DEF IsLoop
<1>7. ASSUME NEW k \in 1 .. n
      PROVE  f[k] = Take(f[k - 1], format[k])
  <2>1. k - 1 \in 0 .. n
    BY <1>1
  <2>2. f[k] = step[k][f[k - 1]] /\ f[k - 1] \in Readers
    BY <1>6, <2>1
  <2>3. step[k][f[k - 1]] = Take(f[k - 1], format[k])
    BY <2>2
  <2> HIDE DEF step
  <2> QED
    BY <2>2, <2>3
<1>8. f = [k \in 0 .. n |-> IF k = 0 THEN r ELSE Take(f[k - 1], format[k])]
  <2>1. ASSUME NEW k \in 0 .. n
        PROVE  f[k] = IF k = 0 THEN r ELSE Take(f[k - 1], format[k])
    <3>1. k = 0 \/ k \in 1 .. n
      BY <1>1
    <3> QED
      BY <1>6, <1>7, <3>1
  <2>2. f = [k \in 0 .. n |-> f[k]]
    BY <1>6
  <2> QED
    BY <2>1, <2>2
<1>9. \E g : g = [k \in 0 .. n |-> IF k = 0 THEN r ELSE Take(g[k - 1], format[k])]
  BY <1>8
<1>10. After = [k \in 0 .. n |-> IF k = 0 THEN r ELSE Take(After[k - 1], format[k])]
  BY <1>9 DEF After
<1> HIDE DEF After, step
<1>11. After[0] = r /\ \A k \in 1 .. n : After[k] = Take(After[k - 1], format[k])
  BY <1>1, <1>10
<1>12. \A k \in 0 .. n : After[k] \in Readers
  <2>1. ASSUME NEW k \in 1 .. n, After[k - 1] \in Readers
        PROVE  After[k] \in Readers
    BY <1>1, <1>2, <1>11, <2>1
  <2> QED
    BY <1>1, <1>11, <2>1, LoopPreserves
<1>13. After \in [0 .. n -> Readers]
  BY <1>10, <1>12
<1> QED
  BY <1>3, <1>11, <1>13 DEF IsTaking, n

\* What was written is read, and what is behind it is left.
LEMMA TakeOne ==
    ASSUME NEW r \in Readers, r.ok, NEW width \in Widths, NEW x, Sendable(width, x),
           NEW tail \in Cells, r.rest = Encoded(width, x) \o tail
    PROVE  /\ Take(r, width).ok /\ Take(r, width).rest = tail
           /\ Take(r, width).got = Append(r.got, Decoded(width, x))
<1>1. CASE width # Text
  <2> DEFINE a == CellsOf(x, width)
             c == r.rest
  <2>1. width \in Nat /\ x \in Nat
    BY <1>1 DEF Widths, Sendable
  <2>2. a \in Cells /\ Len(a) = width
    BY <2>1, CellsOfTyped
  <2>3. c = a \o tail /\ Decoded(width, x) = Number(a)
    BY <1>1 DEF Encoded, Decoded
  <2> HIDE DEF a
  <2>4. Len(tail) \in Nat /\ Len(c) = width + Len(tail)
    BY <2>2, <2>3, JoinTyped
  <2>5. SubSeq(c, 1, width) = a /\ SubSeq(c, width + 1, Len(c)) = tail
    <3>1. SubSeq(a \o tail, 1, Len(a)) = a
      BY <2>2, Split
    <3>2. SubSeq(a \o tail, Len(a) + 1, Len(a) + Len(tail)) = tail
      BY <2>2, Split
    <3> QED
      BY <2>2, <2>3, <2>4, <3>1, <3>2
  <2>6. width <= Len(c) /\ width + 0 = width
    BY <2>1, <2>4
  <2> HIDE DEF c
  <2>7. Take(r, width) = [r EXCEPT !.got = Append(@, Number(a)), !.rest = tail]
    BY <1>1, <2>5, <2>6 DEF Take, c
  <2> QED
    BY <2>3, <2>7 DEF Readers
<1>2. CASE width = Text
  <2> DEFINE a == CellsOf(2 * Len(x), 2)
             c == r.rest
  <2>1. x \in Cells /\ Fits(2 * Len(x), 2) /\ Len(x) \in Nat /\ 2 * Len(x) \in Nat
    BY <1>2, LenProperties DEF Sendable, Cells
  <2>2. a \in Cells /\ Len(a) = 2 /\ Number(a) = 2 * Len(x)
    <3>1. 2 \in Nat
      OBVIOUS
    <3> QED
      BY <2>1, <3>1, CellsOfTyped, NumberBack
  <2>3. c = (a \o x) \o tail /\ Decoded(width, x) = x
    BY <1>2 DEF Encoded, Decoded, EncodeText
  <2> HIDE DEF a
  <2>4. /\ Len(tail) \in Nat /\ a \o x \in Cells /\ Len(a \o x) = 2 + Len(x)
        /\ x \o tail \in Cells /\ Len(x \o tail) = Len(x) + Len(tail)
    <3>1. a \o x \in Cells /\ Len(a \o x) = Len(a) + Len(x)
      BY <2>1, <2>2, JoinTyped
    <3>2. x \o tail \in Cells /\ Len(x \o tail) = Len(x) + Len(tail) /\ Len(tail) \in Nat
      BY <2>1, JoinTyped
    <3> QED
      BY <2>2, <3>1, <3>2
  <2>5. Len(c) = 2 + Len(x) + Len(tail)
    <3>1. Len(c) = Len(a \o x) + Len(tail)
      BY <2>3, <2>4, JoinTyped
    <3> QED
      BY <2>4, <3>1
  <2>6. SubSeq(c, 1, 2) = a
    <3> DEFINE b == x \o tail
    <3>1. c = a \o b
      BY <2>1, <2>2, <2>3, Regrouped
    <3>2. b \in Cells /\ Len(b) \in Nat
      BY <2>1, <2>4
    <3> HIDE DEF b, c
    <3>4. SubSeq(a \o b, 1, Len(a)) = a
      BY <2>2, <3>2, Split
    <3> QED
      BY <2>2, <3>1, <3>4
  <2>7. SubSeq(c, (2 + Len(x)) + 1, Len(c)) = tail
    <3> DEFINE b == a \o x
    <3>1. b \in Cells /\ Len(b) = 2 + Len(x) /\ c = b \o tail
      BY <2>3, <2>4
    <3> HIDE DEF b, c
    <3>2. SubSeq(c, Len(b) + 1, Len(b) + Len(tail)) = tail
      BY <3>1, Split
    <3>3. Len(c) = Len(b) + Len(tail)
      BY <2>1, <2>4, <2>5, <3>1
    <3> QED
      BY <3>1, <3>2, <3>3
  <2>8. SubSeq(c, 3, 2 + Len(x)) = x
    <3> DEFINE b == x \o tail
    <3>1. b \in Cells /\ Len(b) = Len(x) + Len(tail) /\ Len(x) <= Len(b)
      BY <2>1, <2>4
    <3>2. c = a \o b
      BY <2>1, <2>2, <2>3, Regrouped
    <3>3. SubSeq(b, 1, Len(x)) = x
      BY <2>1, Split
    <3> HIDE DEF b, c
    <3> DEFINE front == a \o x
    <3>4. SubSeq(c, 1, 2 + Len(x)) = front
      <4>1. SubSeq(a \o b, 1, Len(a) + Len(x)) = a \o SubSeq(b, 1, Len(x))
        BY <2>1, <2>2, <3>1, SplitBehind
      <4> QED
        BY <2>2, <3>2, <3>3, <4>1
    <3>5. front \in Cells /\ Len(front) = 2 + Len(x)
      BY <2>4
    <3>6. SubSeq(front, 2 + 1, 2 + Len(x)) = x
      <4>2. SubSeq(a \o x, Len(a) + 1, Len(a) + Len(x)) = x
        BY <2>1, <2>2, Split
      <4> QED
        BY <2>2, <4>2
    <3>7. \A k \in 1 .. Len(front) : front[k] = c[k]
      <4>1. /\ c \in Seq(Nat) /\ \A k \in 1 .. 2 + Len(x) : c[k] \in Nat
        <5>1. c \in Seq(Nat)
          BY DEF c, Readers, Cells
        <5>2. \A k \in 1 .. 2 + Len(x) : k \in 1 .. Len(c)
          BY <2>1, <2>4, <2>5
        <5> QED
          BY <5>1, <5>2, ElementOfSeq
      <4>2. 1 \in Int /\ 2 + Len(x) \in Int
        BY <2>1
      <4> DEFINE m == 2 + Len(x)
      <4> HIDE DEF m
      <4>3. \A k \in 1 .. m - 1 + 1 : SubSeq(c, 1, m)[k] = c[1 + k - 1]
        BY <4>1, <4>2, SubSeqProperties DEF m
      <4> HIDE DEF front
      <4>4. \A k \in 1 .. m : k \in 1 .. m - 1 + 1 /\ 1 + k - 1 = k
        BY <4>2 DEF m
      <4> QED
        BY <3>4, <3>5, <4>3, <4>4 DEF m
    <3>8. SubSeq(c, 3, 2 + Len(x)) = SubSeq(front, 3, 2 + Len(x))
      <4> HIDE DEF front
      <4> DEFINE m == 2 + Len(x)
                 s == SubSeq(c, 3, m)
                 t == SubSeq(front, 3, m)
      <4>1. m \in Int /\ 3 \in Int /\ m \in Nat
        BY <2>1
      <4>2. \A k \in 3 .. m : front[k] \in Nat /\ c[k] = front[k]
        <5>1. front \in Seq(Nat) /\ \A k \in 3 .. m : k \in 1 .. Len(front)
          BY <3>5, <4>1 DEF Cells
        <5> QED
          BY <3>7, <5>1, ElementOfSeq
      <4> HIDE DEF m
      <4>3. /\ s \in Seq(Nat) /\ Len(s) = IF 3 <= m THEN m - 3 + 1 ELSE 0
            /\ \A k \in 1 .. m - 3 + 1 : s[k] = c[3 + k - 1]
        BY <4>1, <4>2, SubSeqProperties
      <4>4. /\ t \in Seq(Nat) /\ Len(t) = IF 3 <= m THEN m - 3 + 1 ELSE 0
            /\ \A k \in 1 .. m - 3 + 1 : t[k] = front[3 + k - 1]
        BY <4>1, <4>2, SubSeqProperties
      <4> HIDE DEF s, t
      <4>5. \A k \in 1 .. Len(s) : k \in 1 .. m - 3 + 1 /\ 3 + k - 1 \in 3 .. m
        BY <4>1, <4>3
      <4>6. \A k \in 1 .. Len(s) : s[k] = t[k]
        BY <4>2, <4>3, <4>4, <4>5
      <4>7. s = t
        BY <4>3, <4>4, <4>6, SeqEqual
      <4> QED
        BY <4>7 DEF s, t, m
    <3>9. 2 + 1 = 3
      OBVIOUS
    <3> QED
      BY <3>6, <3>8, <3>9
  <2>9. Number(a) \div 2 = Len(x) /\ 2 <= Len(c) /\ 2 + Len(x) <= Len(c)
    BY <2>1, <2>2, <2>4, <2>5
  <2> HIDE DEF c
  <2>10. Take(r, width) = [r EXCEPT !.got = Append(@, x), !.rest = tail]
    BY <1>2, <2>6, <2>7, <2>8, <2>9 DEF Take, c
  <2> QED
    BY <2>3, <2>10 DEF Readers
<1> QED
  BY <1>1, <1>2

\* Cells that were written in a format, and what was read of them.
IsWritten(r, format, items, left) ==
    /\ r \in Readers /\ r.ok /\ r.got = <<>> /\ format \in Seq(Widths)
    /\ \A k \in 1 .. Len(format) : Sendable(format[k], items[k])
    /\ left \in [0 .. Len(format) -> Cells] /\ r.rest = left[0]
    /\ \A k \in 1 .. Len(format) : left[k - 1] = Encoded(format[k], items[k]) \o left[k]

IsReadBack(read, format, items, left) ==
    /\ read \in Readers /\ read.ok /\ read.rest = left[Len(format)]
    /\ Len(read.got) = Len(format)
    /\ \A k \in 1 .. Len(format) : read.got[k] = Decoded(format[k], items[k])

\* All that was written is read, one after another.
LEMMA TakesBack ==
    ASSUME NEW r, NEW format, NEW items, NEW left, IsWritten(r, format, items, left)
    PROVE  IsReadBack(TakeAll(r, format), format, items, left)
<1> DEFINE n == Len(format)
           value(k) == Decoded(format[k], items[k])
<1>0. /\ r \in Readers /\ r.ok /\ r.got = <<>> /\ format \in Seq(Widths)
      /\ \A k \in 1 .. n : Sendable(format[k], items[k])
      /\ left \in [0 .. n -> Cells] /\ r.rest = left[0]
      /\ \A k \in 1 .. n : left[k - 1] = Encoded(format[k], items[k]) \o left[k]
  BY DEF IsWritten
<1>1. n \in Nat /\ \A k \in 1 .. n : format[k] \in Widths
  BY <1>0, LenProperties, ElementOfSeq
<1>2. PICK after : IsTaking(after, r, format)
  BY <1>0, TakeAllIs
<1>3. /\ after \in [0 .. n -> Readers] /\ after[0] = r
      /\ \A k \in 1 .. n : after[k] = Take(after[k - 1], format[k])
      /\ TakeAll(r, format) = after[n]
  BY <1>2 DEF IsTaking
<1>4. /\ \A k \in 1 .. n : Sendable(format[k], items[k])
      /\ left \in [0 .. n -> Cells] /\ r.rest = left[0]
      /\ \A k \in 1 .. n : left[k - 1] = Encoded(format[k], items[k]) \o left[k]
  BY <1>0
<1> DEFINE good(k) == /\ after[k].ok /\ after[k].rest = left[k]
                      /\ Len(after[k].got) = k
                      /\ \A i \in 1 .. k : after[k].got[i] = value(i)
           T == {k \in 0 .. n : good(k)}
<1>5. good(0)
  <2>1. Len(<<>>) = 0 /\ \A i \in 1 .. 0 : FALSE
    OBVIOUS
  <2> QED
    BY <1>0, <1>3, <1>4, <2>1
<1>6. ASSUME NEW k \in 1 .. n, good(k - 1)
      PROVE  good(k)
  <2> DEFINE b == after[k - 1]
             v == value(k)
             x == items[k]
             w == format[k]
  <2>1. k - 1 \in 0 .. n /\ k \in 0 .. n /\ k \in Nat
    BY <1>1
  <2>2. /\ b \in Readers /\ b.ok /\ w \in Widths /\ Sendable(w, x)
        /\ left[k] \in Cells /\ b.rest = Encoded(w, x) \o left[k]
    BY <1>1, <1>3, <1>4, <1>6, <2>1
  <2>3. /\ Take(b, w).ok /\ Take(b, w).rest = left[k]
        /\ Take(b, w).got = Append(b.got, Decoded(w, x))
    <3> DEFINE t == left[k]
    <3>1. t \in Cells /\ b.rest = Encoded(w, x) \o t
      BY <2>2
    <3> HIDE DEF b, w, x, t
    <3>2. /\ Take(b, w).ok /\ Take(b, w).rest = t
          /\ Take(b, w).got = Append(b.got, Decoded(w, x))
      BY <2>2, <3>1, TakeOne
    <3> QED
      BY <3>2 DEF t
  <2>5. b.got \in Seq(Nat \cup Cells) /\ Len(b.got) = k - 1
    BY <1>6, <2>2 DEF Readers
  <2>6. after[k].ok /\ after[k].rest = left[k] /\ after[k].got = Append(b.got, v)
    BY <1>3, <2>3
  <2>7. /\ Len(Append(b.got, v)) = k
        /\ \A i \in 1 .. k - 1 : Append(b.got, v)[i] = b.got[i]
        /\ Append(b.got, v)[k] = v
    <3> DEFINE g == b.got
    <3>1. g \in Seq(Nat \cup Cells) /\ Len(g) = k - 1
      BY <2>5
    <3>2. v \in Nat \cup Cells
      <4>1. CASE w = Text
        BY <2>2, <4>1 DEF Sendable, Decoded
      <4>2. CASE w # Text
        <5>1. w \in Nat /\ x \in Nat /\ v = Number(CellsOf(x, w))
          BY <2>2, <4>2 DEF Widths, Sendable, Decoded
        <5> HIDE DEF v, w, x
        <5>2. Number(CellsOf(x, w)) \in Nat
          BY <5>1, CellsOfTyped, NumberTyped
        <5> QED
          BY <5>1, <5>2
      <4> QED
        BY <4>1, <4>2
    <3> HIDE DEF g, v
    <3>3. /\ Len(Append(g, v)) = Len(g) + 1
          /\ \A i \in 1 .. Len(g) : Append(g, v)[i] = g[i]
          /\ Append(g, v)[Len(g) + 1] = v
      BY <3>1, <3>2, AppendProperties
    <3>4. Len(g) + 1 = k
      BY <2>1, <3>1
    <3> QED
      BY <3>1, <3>3, <3>4 DEF g
  <2>8. \A i \in 1 .. k - 1 : b.got[i] = value(i)
    BY <1>6
  <2>9. \A i \in 1 .. k : after[k].got[i] = value(i)
    <3>1. ASSUME NEW i \in 1 .. k
          PROVE  after[k].got[i] = value(i)
      <4>1. i \in 1 .. k - 1 \/ i = k
        BY <2>1
      <4> HIDE DEF b, value, v
      <4> QED
        BY <2>6, <2>7, <2>8, <4>1 DEF v
    <3> QED
      BY <3>1
  <2> QED
    BY <2>6, <2>7, <2>9
<1>7. \A k \in 0 .. n : k \in T
  <2>1. 0 \in T
    BY <1>1, <1>5
  <2>2. ASSUME NEW k \in 1 .. n, k - 1 \in T
        PROVE  k \in T
    <3>1. k \in 0 .. n
      BY <1>1
    <3> HIDE DEF n
    <3> QED
      BY <1>6, <2>2, <3>1
  <2> HIDE DEF T, n
  <2> QED
    BY <1>1, <2>1, <2>2, InductiveUpTo
<1>8. good(n) /\ after[n] \in Readers
  <2>1. n \in 0 .. n
    BY <1>1
  <2> HIDE DEF n
  <2> QED
    BY <1>3, <1>7, <2>1
<1> QED
  BY <1>3, <1>8 DEF IsReadBack

LEMMA BehindTyped ==
    ASSUME NEW r \in Readers
    PROVE  /\ Behind(r) \in Readers /\ Behind(r).ok = r.ok /\ Behind(r).rest = r.rest
           /\ Behind(r).got = <<>>
<1>1. <<>> \in Seq(Nat \cup Cells)
  OBVIOUS
<1> DEFINE S == Seq(Nat \cup Cells)
<1>2. <<>> \in S /\ Readers = [got : S, rest : Cells, ok : BOOLEAN, named : {<<>>}]
  BY <1>1 DEF Readers
<1> HIDE DEF S
<1> QED
  BY <1>2 DEF Behind

\* What fits is read as it was written.
LEMMA TextBack ==
    ASSUME NEW text \in Cells, 2 * Len(text) < WordLimit
    PROVE  Sendable(Text, text) /\ Encoded(Text, text) = EncodeText(text) /\ Decoded(Text, text) = text
<1>1. 2 * Len(text) \in Nat
  BY LenProperties DEF Cells
<1>2. Fits(2 * Len(text), 2)
  BY <1>1, WordFits
<1> QED
  BY <1>2 DEF Sendable, Encoded, Decoded

LEMMA WordBack ==
    ASSUME NEW value \in Nat, value < WordLimit
    PROVE  /\ Sendable(2, value) /\ Encoded(2, value) = CellsOf(value, 2)
           /\ Decoded(2, value) = value
<1>1. 2 # Text /\ 2 \in Nat
  BY DEF Text
<1>2. Number(CellsOf(value, 2)) = value
  BY <1>1, WordFits, NumberBack
<1> QED
  BY <1>1, <1>2 DEF Sendable, Encoded, Decoded

LEMMA LongBack ==
    ASSUME NEW value \in Nat, value \div WordLimit < WordLimit
    PROVE  /\ Sendable(4, value) /\ Encoded(4, value) = CellsOf(value, 4)
           /\ Decoded(4, value) = value
<1>1. 4 # Text /\ 4 \in Nat
  BY DEF Text
<1>2. Number(CellsOf(value, 4)) = value
  BY <1>1, LongFits, NumberBack
<1> QED
  BY <1>1, <1>2 DEF Sendable, Encoded, Decoded

\* Of a number that does not fit the lowest cell is left.
LEMMA OneCell ==
    ASSUME NEW value \in Nat
    PROVE  Number(CellsOf(value, 1)) = value % CellBase
<1>1. 1 \in Nat
  OBVIOUS
<1>2. PICK above : IsAbove(above, value, 1)
  BY <1>1, CellsOfIs
<1> DEFINE cells == CellsOf(value, 1)
<1>3. cells \in Cells /\ Len(cells) = 1
  BY <1>1, CellsOfTyped
<1>4. cells[1] = value % CellBase
  <2>1. cells = [k \in 1 .. 1 |-> above[1 - k] % CellBase] /\ above[0] = value
    BY <1>2 DEF IsAbove
  <2>2. 1 \in 1 .. 1 /\ 1 - 1 = 0
    OBVIOUS
  <2> HIDE DEF cells
  <2> QED
    BY <2>1, <2>2
<1> HIDE DEF cells
<1>5. PICK number : IsNumber(number, cells)
  BY <1>3, NumberIs
<1>6. /\ number[0] = 0
      /\ \A k \in 1 .. 1 : number[k] = number[k - 1] * CellBase + cells[k]
      /\ Number(cells) = number[1]
  BY <1>3, <1>5 DEF IsNumber
<1>7. value % CellBase \in Nat /\ CellBase \in Nat
  BY Quotient, BufferAssumption
<1>8. number[1] = 0 * CellBase + cells[1]
  <2>1. 1 \in 1 .. 1 /\ 1 - 1 = 0
    OBVIOUS
  <2> QED
    BY <1>6, <2>1
<1> QED
  BY <1>4, <1>6, <1>7, <1>8 DEF cells

-----------------------------------------------------------------------------
(* What is sent *)

Network(q) == q \in GoodBuffers /\ q.convertEndian

LEMMA PutsNumber ==
    ASSUME NEW q, Network(q), NEW value \in Nat, NEW width \in 1 .. 4
    PROVE  /\ Network(Put(q, value, width))
           /\ Content(Put(q, value, width)) = Content(q) \o CellsOf(value, width)
<1>1. q \in GoodBuffers /\ q.convertEndian
  BY DEF Network
<1>2. Ordered(q, CellsOf(value, width)) = CellsOf(value, width)
  BY <1>1 DEF Ordered
<1>3. Extends(Put(q, value, width), q, CellsOf(value, width))
  BY <1>1, <1>2, PutExtends
<1> QED
  BY <1>1, <1>3 DEF Extends, Network

LEMMA PutsText ==
    ASSUME NEW q, Network(q), NEW text \in Cells
    PROVE  /\ Network(PutString(q, text))
           /\ Content(PutString(q, text)) = Content(q) \o EncodeText(text)
<1>1. q \in GoodBuffers /\ q.convertEndian
  BY DEF Network
<1>2. Ordered(q, CellsOf(2 * Len(text), 2)) = CellsOf(2 * Len(text), 2)
  BY <1>1 DEF Ordered
<1>3. Extends(PutString(q, text), q, EncodeText(text))
  BY <1>1, <1>2, PutStringExtends DEF EncodeText
<1> QED
  BY <1>1, <1>3 DEF Extends, Network

\* What is to come behind the first k of the parts.
Onward(ss, tail) == [k \in 0 .. Len(ss) |-> FlattenSeq(Rest(ss, k)) \o tail]

LEMMA OnwardIs ==
    ASSUME NEW ss \in Seq(Cells), NEW tail \in Cells
    PROVE  /\ Onward(ss, tail) \in [0 .. Len(ss) -> Cells]
           /\ Onward(ss, tail)[0] = FlattenSeq(ss) \o tail
           /\ Onward(ss, tail)[Len(ss)] = tail
           /\ \A k \in 1 .. Len(ss) : Onward(ss, tail)[k - 1] = ss[k] \o Onward(ss, tail)[k]
<1> DEFINE n == Len(ss)
           F == Onward(ss, tail)
           part(k) == FlattenSeq(Rest(ss, k))
<1>1. n \in Nat /\ \A k \in 1 .. n : ss[k] \in Cells
  BY LenProperties, ElementOfSeq
<1>2. ss \in Seq(Seq(Nat))
  BY DEF Cells
<1>3. \A k \in 0 .. n : part(k) \in Cells
  BY <1>2, JoinedRest DEF Cells
<1>4. \A k \in 0 .. n : F[k] = part(k) \o tail
  BY DEF Onward
<1>5. ASSUME NEW k \in 1 .. n
      PROVE  F[k - 1] = ss[k] \o F[k]
  <2>1. k - 1 \in 0 .. n /\ k - 1 < n /\ k - 1 + 1 = k /\ k \in 0 .. n
    BY <1>1
  <2>2. part(k - 1) = ss[k] \o part(k)
    <3> HIDE DEF n, part
    <3> DEFINE j == k - 1
    <3>1. j \in 0 .. Len(ss) /\ j < Len(ss) /\ j + 1 = k
      BY <2>1 DEF n
    <3> HIDE DEF j
    <3>2. FlattenSeq(Rest(ss, j)) = ss[j + 1] \o FlattenSeq(Rest(ss, j + 1))
      BY <1>2, <3>1, JoinedRest
    <3> QED
      BY <3>1, <3>2 DEF j, part
  <2>3. ss[k] \in Cells /\ part(k) \in Cells
    BY <1>1, <1>3, <2>1
  <2> HIDE DEF part, F
  <2>4. (ss[k] \o part(k)) \o tail = ss[k] \o (part(k) \o tail)
    <3> DEFINE a == ss[k]
               b == part(k)
    <3> HIDE DEF a, b
    <3>1. (a \o b) \o tail = a \o (b \o tail)
      BY <2>3, Regrouped DEF a, b
    <3> QED
      BY <3>1 DEF a, b
  <2> QED
    BY <1>4, <2>1, <2>2, <2>4
<1>6. F[0] = FlattenSeq(ss) \o tail
  <2>1. 0 \in 0 .. n
    BY <1>1
  <2>2. Rest(ss, 0) = ss
    BY <1>2, <2>1, JoinedRest
  <2> QED
    BY <1>4, <2>1, <2>2
<1>7. F[n] = tail
  <2>1. n \in 0 .. n
    BY <1>1
  <2>2. part(n) = <<>>
    BY <1>2, <2>1, JoinedRest
  <2>3. <<>> \o tail = tail
    BY ConcatEmptySeq DEF Cells
  <2> HIDE DEF part, F, n
  <2> QED
    BY <1>4, <2>1, <2>2, <2>3
<1>8. F \in [0 .. n -> Cells]
  <2>1. \A k \in 0 .. n : part(k) \o tail \in Cells
    <3> HIDE DEF part
    <3> QED
      BY <1>3, JoinTyped
  <2>2. F = [k \in 0 .. n |-> part(k) \o tail]
    BY DEF Onward
  <2> HIDE DEF part, F, n
  <2> QED
    BY <2>1, <2>2
<1> QED
  BY <1>5, <1>6, <1>7, <1>8

\* A loop that puts one part after another.
LEMMA Gathers ==
    ASSUME NEW ss \in Seq(Cells), NEW after, Network(after[0]),
           \A k \in 1 .. Len(ss) : Network(after[k - 1]) =>
              Network(after[k]) /\ Content(after[k]) = Content(after[k - 1]) \o ss[k]
    PROVE  /\ Network(after[Len(ss)])
           /\ Content(after[Len(ss)]) = Content(after[0]) \o FlattenSeq(ss)
<1> DEFINE n == Len(ss)
           left == Onward(ss, <<>>)
           all == FlattenSeq(ss)
           good(k) == Network(after[k]) /\ Content(after[k]) \o left[k] = Content(after[0]) \o all
           T == {k \in 0 .. n : good(k)}
<1>1. <<>> \in Cells
  BY EmptySeq DEF Cells
<1>2. n \in Nat /\ \A k \in 1 .. n : ss[k] \in Cells
  BY LenProperties, ElementOfSeq
<1>3. /\ left \in [0 .. n -> Cells]
      /\ left[0] = all \o <<>> /\ left[n] = <<>>
      /\ \A k \in 1 .. n : left[k - 1] = ss[k] \o left[k]
  BY <1>1, OnwardIs
<1>4. all \o <<>> = all
  <2>1. ss \in Seq(Seq(Nat))
    BY DEF Cells
  <2>2. all \in Seq(Nat)
    BY <2>1, JoinedIsSeq
  <2> HIDE DEF all
  <2> QED
    BY <2>2, ConcatEmptySeq
<1>5. \A k \in 1 .. n : Network(after[k - 1]) =>
         Network(after[k]) /\ Content(after[k]) = Content(after[k - 1]) \o ss[k]
  OBVIOUS
<1> HIDE DEF left, all, n
<1>6. 0 \in T
  BY <1>2, <1>3, <1>4
<1>7. ASSUME NEW k \in 1 .. n, k - 1 \in T
      PROVE  k \in T
  <2> DEFINE c == Content(after[k - 1])
             a == ss[k]
             b == left[k]
  <2>1. k \in 0 .. n
    BY <1>2
  <2>2. Network(after[k - 1]) /\ c \o left[k - 1] = Content(after[0]) \o all
    BY <1>7
  <2>3. Network(after[k]) /\ Content(after[k]) = c \o a
    BY <1>5, <2>2
  <2>4. c \in Cells /\ a \in Cells /\ b \in Cells
    BY <1>2, <1>3, <2>1, <2>2, ContentIs DEF Network
  <2>5. left[k - 1] = a \o b
    BY <1>3
  <2> HIDE DEF c, a, b
  <2>6. (c \o a) \o b = c \o (a \o b)
    BY <2>4, Regrouped
  <2>7. Content(after[k]) \o b = Content(after[0]) \o all
    BY <2>2, <2>3, <2>5, <2>6
  <2> QED
    BY <2>1, <2>3, <2>7 DEF b
<1>8. \A k \in 0 .. n : k \in T
  <2> HIDE DEF T
  <2> QED
    BY <1>2, <1>6, <1>7, InductiveUpTo
<1>9. good(n)
  <2>1. n \in 0 .. n
    BY <1>2
  <2> QED
    BY <1>8, <2>1
<1>10. Content(after[n]) \o <<>> = Content(after[n])
  <2> DEFINE c == Content(after[n])
  <2>1. c \in Seq(Nat)
    BY <1>9, ContentIs DEF Network, Cells
  <2> HIDE DEF c
  <2>2. c \o <<>> = c
    BY <2>1, ConcatEmptySeq
  <2> QED
    BY <2>2 DEF c
<1> QED
  BY <1>3, <1>9, <1>10 DEF n, all

\* The parts of a whole, one behind another, and how much is behind each.
LEMMA OnwardLengths ==
    ASSUME NEW ss \in Seq(Cells)
    PROVE  \E left : /\ left \in [0 .. Len(ss) -> Nat]
                     /\ left[0] = Len(FlattenSeq(ss)) /\ left[Len(ss)] = 0
                     /\ \A k \in 1 .. Len(ss) : left[k - 1] = Len(ss[k]) + left[k]
<1> DEFINE n == Len(ss)
           F == Onward(ss, <<>>)
           left == [k \in 0 .. n |-> Len(F[k])]
<1>1. n \in Nat /\ <<>> \in Cells /\ FlattenSeq(ss) \in Cells
      /\ \A k \in 1 .. n : ss[k] \in Cells
  <2>1. <<>> \in Cells /\ ss \in Seq(Seq(Nat))
    BY DEF Cells
  <2>2. FlattenSeq(ss) \in Cells
    BY <2>1, JoinedIsSeq DEF Cells
  <2> QED
    BY <2>1, <2>2, LenProperties, ElementOfSeq
<1>2. /\ F \in [0 .. n -> Cells]
      /\ F[0] = FlattenSeq(ss) \o <<>>
      /\ F[n] = <<>>
      /\ \A k \in 1 .. n : F[k - 1] = ss[k] \o F[k]
  BY <1>1, OnwardIs
<1> HIDE DEF F, n
<1>3. F[0] = FlattenSeq(ss)
  BY <1>1, <1>2, ConcatEmptySeq DEF Cells
<1>4. \A k \in 0 .. n : F[k] \in Cells /\ Len(F[k]) \in Nat
  BY <1>2 DEF Cells
<1>5. left \in [0 .. n -> Nat]
  BY <1>4
<1>6. left[0] = Len(FlattenSeq(ss)) /\ left[n] = 0
  BY <1>1, <1>2, <1>3
<1>7. ASSUME NEW k \in 1 .. n
      PROVE  left[k - 1] = Len(ss[k]) + left[k]
  <2> DEFINE a == ss[k]
             b == F[k]
  <2>1. k - 1 \in 0 .. n /\ k \in 0 .. n
    BY <1>1
  <2>2. a \in Cells /\ b \in Cells /\ F[k - 1] = a \o b
    BY <1>1, <1>2, <1>4, <2>1
  <2>3. left[k - 1] = Len(F[k - 1]) /\ left[k] = Len(b)
    BY <2>1
  <2> HIDE DEF a, b, left
  <2>4. Len(a \o b) = Len(a) + Len(b)
    BY <2>2, JoinTyped
  <2> QED
    BY <2>2, <2>3, <2>4 DEF a
<1> HIDE DEF left
<1> QED
  BY <1>5, <1>6, <1>7 DEF n

=============================================================================
