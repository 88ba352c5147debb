--------------------------- MODULE SearchdReader ---------------------------
(***************************************************************************)
(* How searchd takes a request apart: numbers and texts, one after another,*)
(* from the cells it received.  searchd is not part of the repository; the *)
(* reader knows cells and numbers only, not what the client writes.        *)
(***************************************************************************)
EXTENDS QueryBuffer

Text == 0    \* in a format: a text, where a number has its width in cells

\* A text stands behind its length in bytes.
EncodeText(text) == CellsOf(2 * Len(text), 2) \o text

\* What was read, the cells behind it, whether there were enough, and what was
\* read earlier under names.
Reading(cells) == [got |-> <<>>, rest |-> cells, ok |-> TRUE, named |-> <<>>]

Take(r, width) ==
    LET front == IF width = Text THEN 2 ELSE width
        number == Number(SubSeq(r.rest, 1, front))
        cells == front + (IF width = Text THEN number \div 2 ELSE 0)
    IN IF r.ok /\ front <= Len(r.rest) /\ cells <= Len(r.rest)
       THEN [r EXCEPT !.got = Append(@, IF width = Text THEN SubSeq(r.rest, 3, cells) ELSE number),
                      !.rest = SubSeq(@, cells + 1, Len(@))]
       ELSE [r EXCEPT !.ok = FALSE]
TakeAll(r, format) ==
    LET After[k \in 0 .. Len(format)] ==
            IF k = 0 THEN r ELSE Take(After[k - 1], format[k])
    IN After[Len(format)]

\* A map with an entry added or replaced.
With(map, key, value) ==
    [k \in DOMAIN map \cup {key} |-> IF k = key THEN value ELSE map[k]]

\* A value gets a name and what was read is forgotten.
Named(r, name, value) ==
    IF r.ok THEN [r EXCEPT !.named = With(@, name, value), !.got = <<>>] ELSE r
TakeNamed(r, name, width) ==
    LET taken == Take(r, width) IN Named(taken, name, Last(taken.got))

\* The k-th of what was read since, and a count that was read as the k-th:
\* more than there are cells cannot follow.
Got(r, k) == IF r.ok THEN r.got[k] ELSE 0
Count(r, k) == IF Got(r, k) <= Len(r.rest) THEN Got(r, k) ELSE Len(r.rest) + 1

\* The format taken n times.
Times(n, format) == FlattenSeq([k \in 1 .. n |-> format])

\* Forget what was read.
Behind(r) == [r EXCEPT !.got = <<>>]
=============================================================================
