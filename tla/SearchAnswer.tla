---------------------------- MODULE SearchAnswer ----------------------------
(***************************************************************************)
(* The answer of searchd to one search query, and its encoding in words,   *)
(* as parseResponse_v0_9_8 (src/src/queryversions.cc) takes it apart.  The *)
(* server is not part of the repository.                                   *)
(***************************************************************************)
EXTENDS Integers, Sequences, SequencesExt

SEARCHD_OK == 0
SEARCHD_ERROR == 1
SEARCHD_WARNING == 3

SPH_ATTR_INTEGER == 1
SPH_ATTR_FLOAT == 5
SPH_ATTR_BIGINT == 6
SPH_ATTR_STRING == 7
SPH_ATTR_MULTI == 11      \* 0x40000001
SPH_ATTR_MULTI64 == 12    \* 0x40000002

\* How the value of an attribute is kept: the tag of Value_t and the words.
Tag(type) ==
    CASE type = SPH_ATTR_FLOAT   -> "float"
      [] type = SPH_ATTR_BIGINT  -> "uint64"
      [] type = SPH_ATTR_STRING  -> "string"
      [] type = SPH_ATTR_MULTI   -> "vector of uint32"
      [] type = SPH_ATTR_MULTI64 -> "vector of uint64"
      [] OTHER                   -> "uint32"

\* The answers: numbers are words, a text is a sequence of them.
Texts == Seq(Nat)
Answers ==
    [status : {SEARCHD_OK, SEARCHD_ERROR, SEARCHD_WARNING}, description : Texts,
     fields : Seq(Texts), attributes : Seq([name : Texts, type : Nat]),
     wide : BOOLEAN,
     matches : Seq([docId : Nat, weight : Nat, values : Seq(Texts)]),
     totals : [1 .. 3 -> Nat],
     words : Seq([word : Texts, docs : Nat, hits : Nat])]

\* The words of a value: a value of 64 bits has two.
Fits(type, words) ==
    CASE type \in {SPH_ATTR_STRING, SPH_ATTR_MULTI} -> TRUE
      [] type = SPH_ATTR_MULTI64 -> Len(words) % 2 = 0
      [] type = SPH_ATTR_BIGINT  -> Len(words) = 2
      [] OTHER                   -> Len(words) = 1

\* No two attributes have one name, and each match has a value of each.
Wellformed(answer) ==
    /\ \A k, m \in DOMAIN answer.attributes :
         answer.attributes[k].name = answer.attributes[m].name => k = m
    /\ \A n \in DOMAIN answer.matches :
         /\ Len(answer.matches[n].values) = Len(answer.attributes)
         /\ \A k \in DOMAIN answer.attributes :
              Fits(answer.attributes[k].type, answer.matches[n].values[k])

EncodeString(text) == <<Len(text)>> \o text

\* In front of a list stands its length in words of 4 bytes, also when its
\* elements are of 8.
EncodeValue(type, words) ==
    IF type \in {SPH_ATTR_STRING, SPH_ATTR_MULTI, SPH_ATTR_MULTI64}
    THEN EncodeString(words) ELSE words

EncodeList(encoded) == <<Len(encoded)>> \o FlattenSeq(encoded)

EncodeFields(fields) ==
    EncodeList([k \in DOMAIN fields |-> EncodeString(fields[k])])
EncodeAttributes(attributes) ==
    EncodeList([k \in DOMAIN attributes |->
                  EncodeString(attributes[k].name) \o <<attributes[k].type>>])
EncodeWords(words) ==
    EncodeList([k \in DOMAIN words |->
                  EncodeString(words[k].word) \o <<words[k].docs, words[k].hits>>])

\* Up to and with the number of matches.
EncodeHead(answer) ==
    <<answer.status>>
    \o (IF answer.status = SEARCHD_OK THEN <<>> ELSE EncodeString(answer.description))
    \o (IF answer.status = SEARCHD_ERROR THEN <<>>
        ELSE EncodeFields(answer.fields) \o EncodeAttributes(answer.attributes)
             \o <<Len(answer.matches)>>)

EncodeMatch(answer, match) ==
    (IF answer.wide THEN <<0, match.docId>> ELSE <<match.docId>>) \o <<match.weight>>
    \o FlattenSeq([k \in DOMAIN match.values |->
                     EncodeValue(answer.attributes[k].type, match.values[k])])

EncodeTail(answer) ==
    IF answer.status = SEARCHD_ERROR THEN <<>>
    ELSE <<IF answer.wide THEN 1 ELSE 0>>
         \o FlattenSeq([k \in DOMAIN answer.matches |->
                          EncodeMatch(answer, answer.matches[k])])
         \o answer.totals
         \o EncodeWords(answer.words)

Encode(answer) == EncodeHead(answer) \o EncodeTail(answer)
=============================================================================
