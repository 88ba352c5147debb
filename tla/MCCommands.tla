----------------------------- MODULE MCCommands -----------------------------
(* Two documents, one with a number beyond 32 bits whose low half is that of *)
(* the other, two attributes with names of different length, and a buffer    *)
(* that starts with room for a header.                                       *)
EXTENDS Commands

MCNames == {<<1>>, <<2, 3>>}
MCDocuments == {1, 1048577}    \* CellBase ^ 2 + 1
MCValues == {[type |-> "uint32", number |-> n] : n \in {1, 2}}
            \cup {[type |-> "float", number |-> 1]}
MCIndex == <<9>>
MCTexts == {<<4, 5, 6, 7, 8, 7, 6>>}
MCWords == {[tokenized |-> <<4>>, normalized |-> <<5>>, docsHit |-> 2, totalHits |-> 1025]}
MCMachineErrors == {"ServerError"}
=============================================================================
