-------------------------- MODULE MCResponseParser --------------------------
(* Answers with every type of attribute, both widths of document numbers and *)
(* every status, alone and in front of another; each cut at every word.      *)
EXTENDS ResponseParser

\* Characters: as numbers they are large, as four characters are, and one is
\* larger than an int.
a == 13
b == 14

Full(status, wide) ==
    [status |-> status, description |-> <<b, b>>, fields |-> << <<a>>, <<b, a, b>> >>,
     attributes |-> << [name |-> <<a, b, b, b>>, type |-> SPH_ATTR_MULTI64],
                       [name |-> <<b>>, type |-> SPH_ATTR_BIGINT],
                       [name |-> <<a>>, type |-> SPH_ATTR_MULTI] >>,
     wide |-> wide,
     matches |-> << [docId |-> 1, weight |-> 2, values |-> << <<0, 3, 0, 4>>, <<0, 5>>, <<6>> >>],
                    [docId |-> 2, weight |-> 1, values |-> << <<>>, <<0, 6>>, <<7, 8>> >>] >>,
     totals |-> <<2, 3, 1>>,
     words |-> << [word |-> <<a, a>>, docs |-> 2, hits |-> 3], [word |-> <<b>>, docs |-> 0, hits |-> 0] >>]

Small(status, wide) ==
    [status |-> status, description |-> <<a>>, fields |-> << <<a, b>> >>,
     attributes |-> << [name |-> <<a>>, type |-> SPH_ATTR_STRING],
                       [name |-> <<b>>, type |-> SPH_ATTR_FLOAT],
                       [name |-> <<b, a>>, type |-> SPH_ATTR_INTEGER] >>,
     wide |-> wide,
     matches |-> << [docId |-> 1, weight |-> 2, values |-> << <<b, a>>, <<3>>, <<4>> >>] >>,
     totals |-> <<1, 1, 0>>, words |-> << [word |-> <<b>>, docs |-> 1, hits |-> 1] >>]

Empty == [Small(SEARCHD_OK, FALSE) EXCEPT !.fields = <<>>, !.attributes = <<>>,
                                          !.matches = <<>>, !.words = <<>>]

Statuses == {SEARCHD_OK, SEARCHD_ERROR, SEARCHD_WARNING}
MCAnswers == {Full(s, w) : s \in Statuses, w \in BOOLEAN}
               \cup {Small(s, w) : s \in Statuses, w \in BOOLEAN} \cup {Empty}
MCSecond == {Full(SEARCHD_WARNING, TRUE), Small(SEARCHD_OK, FALSE), Empty}
MCAnswerLists == {<<one>> : one \in MCAnswers}
                   \cup {<<one, two>> : one \in MCAnswers, two \in MCSecond}
MCJunk == {0, 2}
=============================================================================
