--------------------------- MODULE ResponseBuffer ---------------------------
(***************************************************************************)
(* The reading side of Query_t, src/src/sphinxclientquery.cc: a message    *)
(* and the operators >> on it.  The unit is the word of 4 bytes; a 64 bit  *)
(* value is two of them, a string is its length and as many words of text. *)
(* A message may end inside of either.                                     *)
(*                                                                         *)
(* A read is a record: did it succeed ("ok", the negation of the flag      *)
(* Query_t::error), where the next read begins, and what the target holds. *)
(***************************************************************************)
EXTENDS Integers, Sequences

VARIABLES message,        \* Query_t::data up to dataEndPtr
          dataStartPtr    \* words read so far

WordsFrom(at, width) == SubSeq(message, at + 1, at + width)
Left(at) == Len(message) - at

\* With too little left nothing is moved and the target keeps its old value, but
\* for the order of its bytes, which the operators turn round all the same: the
\* old values of the parser are 0 or arbitrary, so that this shows nowhere.
Get(at, width, old) ==
    IF Left(at) >= width
    THEN [ok |-> TRUE, next |-> at + width, value |-> WordsFrom(at, width)]
    ELSE [ok |-> FALSE, next |-> at, value |-> old]

GetStringSkips(at) ==
    LET length == Get(at, 1, <<0>>)
    IN IF length.ok
       THEN [Get(length.next, length.value[1], <<>>)
               EXCEPT !.next = length.next + length.value[1]]
       ELSE [length EXCEPT !.value = <<>>]

\* A string whose text is cut short has moved past its length all the same.
\* The target is empty before, as in every call of the parser.
GetString(at) ==
    LET length == Get(at, 1, <<0>>)
    IN IF length.ok THEN Get(length.next, length.value[1], <<>>)
                    ELSE [length EXCEPT !.value = <<>>]

\* A run of reads into fresh variables; those that fail add what the variable
\* happens to hold.
GetMany(at, width, count, garbage) ==
    LET fit   == Left(at) \div width
        whole == IF fit < count THEN fit ELSE count
    IN [ok    |-> whole = count,
        next  |-> at + whole * width,
        value |-> WordsFrom(at, whole * width)
                    \o [k \in 1 .. (count - whole) * width |-> garbage]]

\* A read that failed although there were words left.
LeavesWords(read) == ~read.ok /\ Left(read.next) > 0
=============================================================================
