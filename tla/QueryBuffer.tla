---------------------------- MODULE QueryBuffer ----------------------------
(***************************************************************************)
(* Query_t, src/src/sphinxclientquery.cc: a byte buffer that grows by      *)
(* doubling, written at its end and read at its start.                     *)
(*                                                                         *)
(* The unit is a cell of 2 bytes, the size of the smallest number: a       *)
(* uint32_t and a float are two cells, a uint64_t four, a text is its      *)
(* length in bytes as a uint32_t and one cell for each pair of characters. *)
(* "data" is the array that was allocated: a cell stored beyond it is lost.*)
(***************************************************************************)
EXTENDS Integers, SequencesExt

CONSTANTS
    CellBase,      \* numbers below it fit into a cell, 2^16 in the code
    InitialSize    \* cells allocated by the constructor, 512 in the code

ASSUME BufferAssumption ==
    /\ CellBase \in Nat \ {0, 1}
    /\ InitialSize \in Nat /\ InitialSize >= 4    \* the widest number fits in

WordLimit == CellBase * CellBase    \* numbers below it are uint32_t

Garbage == -1     \* an uninitialised cell
Uninitialised(n) == IF n > 0 THEN [k \in 1 .. n |-> Garbage] ELSE <<>>

Query(size) ==
    [data |-> Uninitialised(size), dataStartPtr |-> 0, dataEndPtr |-> 0,
     dataSize |-> size, convertEndian |-> FALSE]

NetworkQuery == [Query(InitialSize) EXCEPT !.convertEndian = TRUE]

GetLength(q) == q.dataEndPtr - q.dataStartPtr

\* The first n cells; behind the array there is nothing.
FirstCells(cells, n) == SubSeq(cells, 1, IF n < Len(cells) THEN n ELSE Len(cells))

\* The cells from the start to the end.
Content(q) ==
    SubSeq(FirstCells(q.data, q.dataEndPtr) \o Uninitialised(q.dataEndPtr - q.dataSize),
           q.dataStartPtr + 1, q.dataEndPtr)

-----------------------------------------------------------------------------
(* Numbers as cells, the most significant first *)

CellsOf(value, width) ==
    LET Above[k \in 0 .. width] == IF k = 0 THEN value ELSE Above[k - 1] \div CellBase
    IN [k \in 1 .. width |-> Above[width - k] % CellBase]
Number(cells) ==
    LET Value[k \in 0 .. Len(cells)] ==
            IF k = 0 THEN 0 ELSE Value[k - 1] * CellBase + cells[k]
    IN Value[Len(cells)]

\* In the order of the network, or of a machine that begins with the least.
Ordered(q, cells) == IF q.convertEndian THEN cells ELSE Reverse(cells)

-----------------------------------------------------------------------------
(* Growth *)

\* What is before the end is copied over, all else is uninitialised.
Enlarged(q, size) ==
    LET copied == FirstCells(q.data, q.dataEndPtr)
    IN [q EXCEPT !.dataSize = size, !.data = copied \o Uninitialised(size - Len(copied))]
DoubleSizeBuffer(q) == Enlarged(q, 2 * q.dataSize)

Holds(q, cells) == q.dataEndPtr + cells < q.dataSize

\* One test and one doubling, as in front of a number.
GrowOnce(q, cells) == IF Holds(q, cells) THEN q ELSE DoubleSizeBuffer(q)

\* The loop in front of a text or of another buffer; the copies of copies are
\* one here.
Grow(q, cells) ==
    LET Enough[size \in Nat] ==
            IF q.dataEndPtr + cells < size THEN size ELSE Enough[2 * size]
    IN IF Holds(q, cells) THEN q ELSE Enlarged(q, Enough[q.dataSize])

-----------------------------------------------------------------------------
(* The operators << *)

\* memcpy() to the end of the buffer.
Store(q, cells) ==
    LET stored == FirstCells(FirstCells(q.data, q.dataEndPtr) \o cells, q.dataSize)
    IN [q EXCEPT !.data = stored \o SubSeq(@, Len(stored) + 1, q.dataSize),
                 !.dataEndPtr = @ + Len(cells)]

Put(q, value, width) ==
    Store(GrowOnce(q, width), Ordered(q, CellsOf(value, width)))

PutShort(q, value) == Put(q, value, 1)
PutWord(q, value) == Put(q, value, 2)
PutLong(q, value) == Put(q, value, 4)

PutStringGrownOnce(q, text) ==
    Store(PutWord(GrowOnce(q, Len(text) + 2), 2 * Len(text)), text)
PutString(q, text) ==
    Store(PutWord(Grow(q, Len(text) + 2), 2 * Len(text)), text)

PutQuery(q, other) == Store(Grow(q, GetLength(other)), Content(other))

-----------------------------------------------------------------------------
(* The operators >>: the value and the buffer behind it; with too little    *)
(* left "ok" is false (the flag error), nothing moves and no value is given.*)

Get(q, width) ==
    IF GetLength(q) >= width
    THEN [ok |-> TRUE, value |-> Number(Ordered(q, SubSeq(Content(q), 1, width))),
          rest |-> [q EXCEPT !.dataStartPtr = @ + width]]
    ELSE [ok |-> FALSE, value |-> Garbage, rest |-> q]

GetWord(q) == Get(q, 2)

\* A text that is cut short has moved past its length.
GetString(q) ==
    LET length == GetWord(q)
        cells  == length.value \div 2
    IN IF length.ok /\ GetLength(length.rest) >= cells
       THEN [ok |-> TRUE, value |-> SubSeq(Content(length.rest), 1, cells),
             rest |-> [length.rest EXCEPT !.dataStartPtr = @ + cells]]
       ELSE [ok |-> FALSE, value |-> <<>>, rest |-> length.rest]

-----------------------------------------------------------------------------
(* readOnReadable: recv() into what is left of the buffer, which is doubled *)
(* only when it is full.                                                    *)

WithSpace(q) == IF q.dataSize - q.dataEndPtr <= 0 THEN DoubleSizeBuffer(q) ELSE q

\* So many cells can come in one call, of so many that are wanted.
Receivable(q, wanted) ==
    LET space == WithSpace(q).dataSize - q.dataEndPtr
    IN 1 .. IF wanted > space THEN space ELSE wanted

ReadOnReadable(q, cells) == Store(WithSpace(q), cells)

-----------------------------------------------------------------------------
\* The pointers stay in the array, and it has the size that is kept.
WithinBounds(q) ==
    /\ Len(q.data) = q.dataSize
    /\ q.dataStartPtr \in 0 .. q.dataEndPtr
    /\ q.dataEndPtr <= q.dataSize
=============================================================================
