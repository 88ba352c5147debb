------------------------ MODULE ResponseParserProofs ------------------------
(***************************************************************************)
(* That the parser gives back what is whole in the message, for every list *)
(* of answers, every place at which the message may end, and every number  *)
(* an uninitialised counter may hold.                                      *)
(*                                                                         *)
(* Until a read of an answer fails, the message goes on at dataStartPtr    *)
(* with the words the next reads are for (InStep), and the response holds  *)
(* what the words before say.  Once one has failed, the message ends       *)
(* before the answer does, and either a cut value was left behind or       *)
(* nothing is left at all (Off): no later read of the answer can go back   *)
(* into step.                                                              *)
(***************************************************************************)
EXTENDS ResponseParser, DataFacts

Answer == answers[current]

\* The message has these words behind the place, as far as it goes.
Stands(at, words) ==
    \A m \in 1 .. Len(words) : at + m <= Len(message) => message[at + m] = words[m]

\* These words come next, and the answer ends with them.
Comes(words) ==
    /\ dataStartPtr + Len(words) = Ends[current]
    /\ Stands(dataStartPtr, words)

-----------------------------------------------------------------------------
(* What is left of an encoded answer *)

FieldWords(answer) == [k \in DOMAIN answer.fields |-> EncodeString(answer.fields[k])]
AttributeWords(answer) ==
    [k \in DOMAIN answer.attributes |->
       EncodeString(answer.attributes[k].name) \o <<answer.attributes[k].type>>]
MatchWords(answer) == [k \in DOMAIN answer.matches |-> EncodeMatch(answer, answer.matches[k])]
ValueWords(answer, match) ==
    [k \in DOMAIN match.values |-> EncodeValue(answer.attributes[k].type, match.values[k])]
WordWords(answer) ==
    [k \in DOMAIN answer.words |->
       EncodeString(answer.words[k].word) \o <<answer.words[k].docs, answer.words[k].hits>>]

\* Behind so many elements of each list.
WordsOn(answer, k) == FlattenSeq(Rest(WordWords(answer), k))
TotalsOn(answer) == answer.totals \o EncodeWords(answer.words)
MatchesOn(answer, k) == FlattenSeq(Rest(MatchWords(answer), k)) \o TotalsOn(answer)
ValuesOn(answer, n, k) ==
    FlattenSeq(Rest(ValueWords(answer, answer.matches[n]), k)) \o MatchesOn(answer, n)
MatchCountOn(answer) == <<Len(answer.matches)>> \o EncodeTail(answer)
AttributesOn(answer, k) == FlattenSeq(Rest(AttributeWords(answer), k)) \o MatchCountOn(answer)
AttrCountOn(answer) == EncodeAttributes(answer.attributes) \o MatchCountOn(answer)
FieldsOn(answer, k) == FlattenSeq(Rest(FieldWords(answer), k)) \o AttrCountOn(answer)
FieldCountOn(answer) ==
    IF answer.status = SEARCHD_ERROR THEN <<>>
    ELSE EncodeFields(answer.fields) \o AttrCountOn(answer)

-----------------------------------------------------------------------------
(* What the response holds *)

First(s, k) == [m \in 1 .. k |-> s[m]]

\* The values of the first k attributes.
ValuesGiven(answer, match, k) ==
    [name \in {answer.attributes[m].name : m \in 1 .. k} |->
       AnsweredEntry(answer, match).attribute[name]]
EntryGiven(answer, n, k) ==
    [AnsweredEntry(answer, answer.matches[n]) EXCEPT
       !.attribute = ValuesGiven(answer, answer.matches[n], k)]

Statistics(words) ==
    [word \in {words[k].word : k \in DOMAIN words} |->
       <<words[LastOf(words, word)].docs, words[LastOf(words, word)].hits>>]

\* So many fields, attributes, matches and words of the answer.
Given(answer, fields, attributes, wide, matches, totals, words) ==
    [field |-> First(answer.fields, fields),
     attribute |-> First(answer.attributes, attributes),
     entry |-> First(Answered(answer).entry, matches),
     word |-> Statistics(First(answer.words, words)),
     totals |-> totals, use64bitId |-> wide]

-----------------------------------------------------------------------------
(* In step: what holds before each read *)

Accepted == errorStatus = Answer.status /\ Answer.status # SEARCHD_ERROR
Counted(list) == count = Len(list) /\ i \in 0 .. count

AtStatus == Comes(Encode(Answer)) /\ response = EmptyResponse
AtDescription ==
    /\ Comes(EncodeString(Answer.description) \o FieldCountOn(Answer))
    /\ errorStatus = Answer.status /\ Answer.status # SEARCHD_OK
    /\ response = EmptyResponse
AtFieldCount == Comes(FieldCountOn(Answer)) /\ Accepted /\ response = EmptyResponse
AtFields ==
    /\ Comes(FieldsOn(Answer, i)) /\ Accepted /\ Counted(Answer.fields)
    /\ response = Given(Answer, i, 0, FALSE, 0, <<0, 0, 0>>, 0)
AtAttrCount ==
    /\ Comes(AttrCountOn(Answer)) /\ Accepted
    /\ response = Given(Answer, Len(Answer.fields), 0, FALSE, 0, <<0, 0, 0>>, 0)
AtAttributes ==
    /\ Comes(AttributesOn(Answer, i)) /\ Accepted /\ Counted(Answer.attributes)
    /\ response = Given(Answer, Len(Answer.fields), i, FALSE, 0, <<0, 0, 0>>, 0)

GivenHead(wide, matches, totals, words) ==
    Given(Answer, Len(Answer.fields), Len(Answer.attributes), wide, matches, totals, words)

AtMatchCount ==
    /\ Comes(MatchCountOn(Answer)) /\ Accepted
    /\ response = GivenHead(FALSE, 0, <<0, 0, 0>>, 0)
AtIdWidth ==
    /\ Comes(EncodeTail(Answer)) /\ Accepted
    /\ Counted(Answer.matches) /\ i = 0
    /\ response = GivenHead(FALSE, 0, <<0, 0, 0>>, 0)
AtMatches ==
    /\ Comes(MatchesOn(Answer, i)) /\ Accepted /\ Counted(Answer.matches)
    /\ response = GivenHead(Answer.wide, i, <<0, 0, 0>>, 0)
AtValues ==
    /\ Counted(Answer.matches) /\ i < count
    /\ Comes(ValuesOn(Answer, i + 1, j)) /\ Accepted
    /\ j \in 0 .. Len(Answer.attributes)
    /\ entry = EntryGiven(Answer, i + 1, j)
    /\ response = GivenHead(Answer.wide, i, <<0, 0, 0>>, 0)
AtTotals ==
    /\ Comes(TotalsOn(Answer)) /\ Accepted
    /\ response = GivenHead(Answer.wide, Len(Answer.matches), <<0, 0, 0>>, 0)
AtWordCount ==
    /\ Comes(EncodeWords(Answer.words)) /\ Accepted
    /\ response = GivenHead(Answer.wide, Len(Answer.matches), Answer.totals, 0)
AtWords ==
    /\ Comes(WordsOn(Answer, i)) /\ Accepted /\ Counted(Answer.words)
    /\ response = GivenHead(Answer.wide, Len(Answer.matches), Answer.totals, i)
AtReturn ==
    /\ dataStartPtr = Ends[current]
    /\ outcome = CASE Answer.status = SEARCHD_OK      -> "ok"
                   [] Answer.status = SEARCHD_WARNING -> "Warning"
                   [] OTHER                           -> "MessageError"
    /\ outcome # "MessageError" => response = Answered(Answer)

InStep ==
    \/ pc = "status" /\ AtStatus
    \/ pc = "description" /\ AtDescription
    \/ pc = "fieldCount" /\ AtFieldCount
    \/ pc = "fields" /\ AtFields
    \/ pc = "attrCount" /\ AtAttrCount
    \/ pc = "attributes" /\ AtAttributes
    \/ pc = "matchCount" /\ AtMatchCount
    \/ pc = "idWidth" /\ AtIdWidth
    \/ pc = "matches" /\ AtMatches
    \/ pc = "values" /\ AtValues
    \/ pc = "totals" /\ AtTotals
    \/ pc = "wordCount" /\ AtWordCount
    \/ pc = "words" /\ AtWords
    \/ pc = "returned" /\ AtReturn

-----------------------------------------------------------------------------
(* Off step, and the invariant *)

HeadStages == {"status", "description", "fieldCount", "fields", "attrCount",
               "attributes", "matchCount"}
HeadEnd == Ends[current - 1] + Len(EncodeHead(Answer))

Off ==
    /\ Len(message) < Ends[current]
    /\ residue \/ dataStartPtr = Len(message)
    /\ pc \in HeadStages /\ ~residue => Len(message) < HeadEnd

\* The stages behind the number of matches, and a response that is returned.
Late ==
    \/ pc \in {"idWidth", "matches", "values", "totals", "wordCount", "words"}
    \/ pc = "returned" /\ outcome \in {"ok", "Warning"}

\* There the head is whole, unless something was left behind.
PastHead == Late /\ ~residue => Len(message) >= HeadEnd

MessageStands ==
    \A k \in DOMAIN answers : Stands(Ends[k - 1], Encode(answers[k]))

\* The response and the entry have their fields.
Shaped ==
    /\ response = [field |-> response.field, attribute |-> response.attribute,
                   entry |-> response.entry, word |-> response.word,
                   totals |-> response.totals, use64bitId |-> response.use64bitId]
    /\ entry = [documentId |-> entry.documentId, weight |-> entry.weight,
                attribute |-> entry.attribute]
    /\ response.entry \in Seq({response.entry[k] : k \in DOMAIN response.entry})

\* The entries are complete in the response, and the one that is read has the
\* first j attributes.
EntriesInv ==
    /\ Shaped
    /\ pc \in HeadStages => response.entry = <<>>
    /\ pc = "values" =>
         /\ j <= Len(response.attribute)
         /\ DOMAIN entry.attribute = {response.attribute[k].name : k \in 1 .. j}
    /\ EntriesHaveTheAttributes

ParseInv == MessageStands /\ (InStep \/ Off) /\ PastHead

-----------------------------------------------------------------------------
(* Reads *)

\* A read that stays inside of the message.
Moves(read, at) == read.ok \in BOOLEAN /\ read.next \in at .. Len(message)

\* A read of a value of so many words: it succeeds if they are there.
Gives(read, at, width, value) ==
    /\ Moves(read, at)
    /\ read.ok <=> at + width <= Len(message)
    /\ read.ok => read.next = at + width /\ read.value = value

Message == message \in Seq(Nat)

\* What stands at a place stands there part for part.
LEMMA StandsParts ==
    ASSUME Message, NEW at \in Nat, NEW words \in Seq(Nat), NEW rest \in Seq(Nat)
    PROVE  Stands(at, words \o rest) <=> Stands(at, words) /\ Stands(at + Len(words), rest)
<1> DEFINE both == words \o rest
<1>1. Len(words) \in Nat /\ Len(rest) \in Nat /\ Len(message) \in Nat
  BY LenProperties DEF Message
<1>2. /\ Len(both) = Len(words) + Len(rest)
      /\ \A m \in 1 .. Len(words) + Len(rest) :
           both[m] = IF m <= Len(words) THEN words[m] ELSE rest[m - Len(words)]
  BY ConcatProperties
<1> HIDE DEF both
<1>3. ASSUME Stands(at, both)
      PROVE  Stands(at, words) /\ Stands(at + Len(words), rest)
  <2>1. ASSUME NEW m \in 1 .. Len(words), at + m <= Len(message)
        PROVE  message[at + m] = words[m]
    <3>1. m \in 1 .. Len(both) /\ both[m] = words[m]
      BY <1>1, <1>2
    <3> QED
      BY <1>3, <2>1, <3>1 DEF Stands
  <2>2. ASSUME NEW m \in 1 .. Len(rest), at + Len(words) + m <= Len(message)
        PROVE  message[at + Len(words) + m] = rest[m]
    <3> DEFINE k == Len(words) + m
    <3>1. k \in 1 .. Len(words) + Len(rest) /\ ~(k <= Len(words)) /\ k - Len(words) = m
      BY <1>1
    <3>2. at + k = at + Len(words) + m
      BY <1>1
    <3> HIDE DEF k
    <3>3. k \in 1 .. Len(both) /\ both[k] = rest[m]
      BY <1>2, <3>1
    <3> QED
      BY <1>3, <2>2, <3>2, <3>3 DEF Stands
  <2> QED
    BY <2>1, <2>2 DEF Stands
<1>4. ASSUME Stands(at, words), Stands(at + Len(words), rest)
      PROVE  Stands(at, both)
  <2>1. ASSUME NEW m \in 1 .. Len(both), at + m <= Len(message)
        PROVE  message[at + m] = both[m]
    <3>1. CASE m <= Len(words)
      <4>1. m \in 1 .. Len(words) /\ both[m] = words[m]
        BY <1>1, <1>2, <3>1
      <4> QED
        BY <1>4, <2>1, <4>1 DEF Stands
    <3>2. CASE ~(m <= Len(words))
      <4> DEFINE k == m - Len(words)
      <4>1. k \in 1 .. Len(rest) /\ at + Len(words) + k = at + m
        BY <1>1, <1>2, <3>2
      <4>2. both[m] = rest[k]
        BY <1>2, <3>2
      <4> HIDE DEF k
      <4> QED
        BY <1>4, <2>1, <4>1, <4>2 DEF Stands
    <3> QED
      BY <3>1, <3>2
  <2> QED
    BY <2>1 DEF Stands
<1> QED
  BY <1>3, <1>4 DEF both

LEMMA WordsAreThere ==
    ASSUME Message, NEW at \in Nat, NEW width \in Nat, at + width <= Len(message)
    PROVE  /\ WordsFrom(at, width) \in Seq(Nat)
           /\ Len(WordsFrom(at, width)) = width
           /\ \A m \in 1 .. width : WordsFrom(at, width)[m] = message[at + m]
<1>1. Len(message) \in Nat
  BY LenProperties DEF Message
<1>2. \A m \in at + 1 .. at + width : m \in 1 .. Len(message)
  BY <1>1
<1>3. \A m \in at + 1 .. at + width : message[m] \in Nat
  BY <1>2, ElementOfSeq DEF Message
<1>4. /\ WordsFrom(at, width) \in Seq(Nat)
      /\ Len(WordsFrom(at, width)) = IF at + 1 <= at + width THEN at + width - (at + 1) + 1 ELSE 0
      /\ \A m \in 1 .. at + width - (at + 1) + 1 :
           WordsFrom(at, width)[m] = message[at + 1 + m - 1]
  BY <1>1, <1>3, SubSeqProperties DEF WordsFrom
<1>5. at + width - (at + 1) + 1 = width /\ \A m \in 1 .. width : at + 1 + m - 1 = at + m
  BY <1>1
<1> HIDE DEF WordsFrom
<1> QED
  BY <1>4, <1>5

LEMMA GetProperties ==
    ASSUME Message, NEW at \in 0 .. Len(message), NEW width \in Nat, NEW old
    PROVE  LET read == Get(at, width, old)
           IN /\ Moves(read, at)
              /\ read.ok <=> at + width <= Len(message)
              /\ read.ok => read.value \in Seq(Nat) /\ Len(read.value) = width
              /\ ~read.ok => read.value = old
<1>1. Len(message) \in Nat /\ at \in Nat
  BY LenProperties DEF Message
<1>2. Left(at) >= width <=> at + width <= Len(message)
  BY <1>1 DEF Left
<1>3. CASE at + width <= Len(message)
  <2>1. Get(at, width, old) = [ok |-> TRUE, next |-> at + width, value |-> WordsFrom(at, width)]
    BY <1>2, <1>3 DEF Get
  <2>2. WordsFrom(at, width) \in Seq(Nat) /\ Len(WordsFrom(at, width)) = width
    BY <1>1, <1>3, WordsAreThere
  <2>3. at + width \in at .. Len(message)
    BY <1>1, <1>3
  <2> QED
    BY <1>3, <2>1, <2>2, <2>3 DEF Moves
<1>4. CASE ~(at + width <= Len(message))
  <2>1. Get(at, width, old) = [ok |-> FALSE, next |-> at, value |-> old]
    BY <1>2, <1>4 DEF Get
  <2> QED
    BY <1>1, <1>4, <2>1 DEF Moves
<1> QED
  BY <1>3, <1>4

LEMMA GetGives ==
    ASSUME Message, NEW at \in 0 .. Len(message), NEW words \in Seq(Nat),
           Stands(at, words), NEW old
    PROVE  Gives(Get(at, Len(words), old), at, Len(words), words)
<1>1. Len(message) \in Nat /\ at \in Nat /\ Len(words) \in Nat
  BY LenProperties DEF Message
<1>2. CASE at + Len(words) <= Len(message)
  <2>1. Left(at) >= Len(words)
    BY <1>1, <1>2 DEF Left
  <2>2. Get(at, Len(words), old)
          = [ok |-> TRUE, next |-> at + Len(words), value |-> WordsFrom(at, Len(words))]
    BY <2>1 DEF Get
  <2>3. WordsFrom(at, Len(words)) = words
    <3>1. /\ WordsFrom(at, Len(words)) \in Seq(Nat)
          /\ Len(WordsFrom(at, Len(words))) = Len(words)
          /\ \A m \in 1 .. Len(words) : WordsFrom(at, Len(words))[m] = message[at + m]
      BY <1>1, <1>2, WordsAreThere
    <3>2. \A m \in 1 .. Len(words) : message[at + m] = words[m]
      BY <1>1, <1>2 DEF Stands
    <3> HIDE DEF WordsFrom
    <3>3. \A m \in 1 .. Len(words) : WordsFrom(at, Len(words))[m] = words[m]
      BY <3>1, <3>2
    <3> QED
      BY <3>1, <3>3, SeqEqual
  <2>4. at + Len(words) \in at .. Len(message)
    BY <1>1, <1>2
  <2> QED
    BY <1>2, <2>2, <2>3, <2>4 DEF Gives, Moves
<1>3. CASE ~(at + Len(words) <= Len(message))
  <2>1. ~(Left(at) >= Len(words))
    BY <1>1, <1>3 DEF Left
  <2>2. Get(at, Len(words), old) = [ok |-> FALSE, next |-> at, value |-> old]
    BY <2>1 DEF Get
  <2> QED
    BY <1>1, <1>3, <2>2 DEF Gives, Moves
<1> QED
  BY <1>2, <1>3

\* Of a string.
LEMMA GetStringProperties ==
    ASSUME Message, NEW at \in 0 .. Len(message)
    PROVE  LET read == GetString(at)
           IN /\ Moves(read, at)
              /\ read.value \in Seq(Nat)
              /\ at = Len(message) => ~read.ok
<1> DEFINE length == Get(at, 1, <<0>>)
<1>1. /\ Moves(length, at)
      /\ length.ok <=> at + 1 <= Len(message)
      /\ length.ok => length.value \in Seq(Nat) /\ Len(length.value) = 1
      /\ ~length.ok => length.value = <<0>>
  BY GetProperties
<1>2. CASE length.ok
  <2>1. length.value[1] \in Nat /\ length.next \in 0 .. Len(message)
    <3> HIDE DEF length
    <3>1. length.value \in Seq(Nat) /\ Len(length.value) = 1
      BY <1>1, <1>2
    <3>2. length.value[1] \in Nat
      BY <3>1, ElementOfSeq
    <3> QED
      BY <1>1, <3>2, LenProperties DEF Moves, Message
  <2>2. GetString(at) = Get(length.next, length.value[1], <<>>)
    BY <1>2 DEF GetString
  <2> HIDE DEF length
  <2> DEFINE text == Get(length.next, length.value[1], <<>>)
  <2>3. /\ Moves(text, length.next)
        /\ text.ok => text.value \in Seq(Nat)
        /\ ~text.ok => text.value = <<>>
    BY <2>1, GetProperties
  <2> HIDE DEF text
  <2>4. Moves(text, at)
    BY <1>1, <2>3, LenProperties DEF Moves, Message
  <2>5. text.value \in Seq(Nat)
    BY <2>3, EmptySeq DEF Moves
  <2>6. at # Len(message)
    BY <1>1, <1>2, LenProperties DEF Message
  <2> QED
    BY <2>2, <2>4, <2>5, <2>6 DEF text
<1>3. CASE ~length.ok
  <2>1. GetString(at) = [length EXCEPT !.value = <<>>]
    BY <1>3 DEF GetString
  <2>2. length = [ok |-> length.ok, next |-> length.next, value |-> length.value]
    BY DEF Get
  <2> HIDE DEF length
  <2>3. GetString(at) = [ok |-> length.ok, next |-> length.next, value |-> <<>>]
    BY <2>1, <2>2
  <2> QED
    BY <1>1, <1>3, <2>3, EmptySeq DEF Moves
<1> QED
  BY <1>1, <1>2, <1>3 DEF Moves

LEMMA StringEncoded ==
    ASSUME NEW text \in Seq(Nat)
    PROVE  /\ EncodeString(text) \in Seq(Nat)
           /\ Len(EncodeString(text)) = Len(text) + 1
           /\ EncodeString(text)[1] = Len(text)
           /\ \A m \in 1 .. Len(text) : EncodeString(text)[m + 1] = text[m]
<1>1. Len(text) \in Nat
  BY LenProperties
<1>2. <<Len(text)>> \in Seq(Nat) /\ Len(<<Len(text)>>) = 1
  BY <1>1
<1>3. /\ EncodeString(text) \in Seq(Nat)
      /\ Len(EncodeString(text)) = 1 + Len(text)
      /\ \A k \in 1 .. 1 + Len(text) :
           EncodeString(text)[k] = IF k <= 1 THEN <<Len(text)>>[k] ELSE text[k - 1]
  BY <1>2, ConcatProperties DEF EncodeString
<1>4. \A m \in 1 .. Len(text) : m + 1 \in 1 .. 1 + Len(text) /\ ~(m + 1 <= 1) /\ m + 1 - 1 = m
  BY <1>1
<1>5. 1 \in 1 .. 1 + Len(text)
  BY <1>1
<1> HIDE DEF EncodeString
<1> QED
  BY <1>1, <1>3, <1>4, <1>5

LEMMA GetStringGives ==
    ASSUME Message, NEW at \in 0 .. Len(message), NEW text \in Seq(Nat),
           Stands(at, EncodeString(text))
    PROVE  Gives(GetString(at), at, Len(text) + 1, text)
<1> DEFINE length == Get(at, 1, <<0>>)
<1>1. Len(message) \in Nat /\ at \in Nat /\ Len(text) \in Nat
  BY LenProperties DEF Message
<1>2. Stands(at, <<Len(text)>>) /\ Stands(at + 1, text)
  <2>1. <<Len(text)>> \in Seq(Nat) /\ Len(<<Len(text)>>) = 1
    BY <1>1
  <2> QED
    BY <1>1, <2>1, StandsParts DEF EncodeString
<1>3. Gives(length, at, 1, <<Len(text)>>)
  <2>1. Len(<<Len(text)>>) = 1 /\ <<Len(text)>> \in Seq(Nat)
    BY <1>1
  <2> QED
    BY <1>2, <2>1, GetGives
<1>4. CASE length.ok
  <2>1. length.next = at + 1 /\ length.value[1] = Len(text) /\ at + 1 \in 0 .. Len(message)
    BY <1>1, <1>3, <1>4 DEF Gives
  <2>2. GetString(at) = Get(at + 1, Len(text), <<>>)
    BY <1>4, <2>1 DEF GetString
  <2>3. Gives(GetString(at), at + 1, Len(text), text)
    BY <1>2, <2>1, <2>2, GetGives
  <2>4. at + 1 + Len(text) = at + (Len(text) + 1)
    BY <1>1
  <2> HIDE DEF length
  <2> QED
    BY <1>1, <2>3, <2>4 DEF Gives, Moves
<1>5. CASE ~length.ok
  <2>1. length = [ok |-> length.ok, next |-> length.next, value |-> length.value]
    BY DEF Get
  <2>2. GetString(at) = [length EXCEPT !.value = <<>>]
    BY <1>5 DEF GetString
  <2> HIDE DEF length
  <2>3. GetString(at).ok = FALSE /\ GetString(at).next = length.next
    BY <1>5, <2>1, <2>2
  <2>4. ~(at + 1 <= Len(message)) /\ Moves(length, at)
    BY <1>3, <1>5 DEF Gives
  <2>5. ~(at + (Len(text) + 1) <= Len(message))
    BY <1>1, <2>4
  <2> QED
    BY <2>3, <2>4, <2>5 DEF Gives, Moves
<1> QED
  BY <1>4, <1>5

\* Of a list.
LEMMA WholeValues ==
    ASSUME NEW left \in Nat, NEW number \in Nat, NEW width \in {1, 2}
    PROVE  LET fit   == left \div width
               whole == IF fit < number THEN fit ELSE number
           IN /\ whole \in Nat /\ whole * width \in 0 .. left /\ number * width \in Nat
              /\ whole = number <=> number * width <= left
<1>1. left \div 1 = left
  OBVIOUS
<1>2. left \div 2 \in Nat /\ (left \div 2) * 2 <= left /\ left < (left \div 2) * 2 + 2
  OBVIOUS
<1>3. CASE width = 1
  BY <1>1, <1>3
<1>4. CASE width = 2
  BY <1>2, <1>4
<1> QED
  BY <1>3, <1>4

LEMMA GetManyMoves ==
    ASSUME Message, NEW at \in 0 .. Len(message), NEW width \in {1, 2}, NEW number \in Nat,
           NEW garbage
    PROVE  Moves(GetMany(at, width, number, garbage), at)
<1>1. Len(message) \in Nat /\ at \in Nat /\ Left(at) \in Nat /\ Left(at) = Len(message) - at
  BY LenProperties DEF Message, Left
<1> DEFINE fit   == Left(at) \div width
           whole == IF fit < number THEN fit ELSE number
<1>2. whole * width \in 0 .. Left(at)
  BY <1>1, WholeValues
<1>3. GetMany(at, width, number, garbage).next = at + whole * width
  BY DEF GetMany
<1>4. GetMany(at, width, number, garbage).ok = (whole = number)
  BY DEF GetMany
<1> HIDE DEF whole
<1>5. at + whole * width \in at .. Len(message)
  BY <1>1, <1>2
<1> QED
  BY <1>3, <1>4, <1>5 DEF Moves

LEMMA GetManyGives ==
    ASSUME Message, NEW at \in 0 .. Len(message), NEW width \in {1, 2}, NEW number \in Nat,
           NEW words \in Seq(Nat), Len(words) = number * width, Stands(at, words), NEW garbage
    PROVE  Gives(GetMany(at, width, number, garbage), at, Len(words), words)
<1>1. Len(message) \in Nat /\ at \in Nat /\ Left(at) \in Nat /\ Left(at) = Len(message) - at
  BY LenProperties DEF Message, Left
<1> DEFINE fit   == Left(at) \div width
           whole == IF fit < number THEN fit ELSE number
           read  == GetMany(at, width, number, garbage)
<1>2. whole = number <=> number * width <= Left(at)
  BY <1>1, WholeValues
<1>3. read.ok = (whole = number)
  BY DEF GetMany
<1>4. Moves(read, at)
  BY GetManyMoves
<1>5. ASSUME read.ok
      PROVE  read.next = at + Len(words) /\ read.value = words
  <2>1. whole = number
    BY <1>3, <1>5
  <2>2. read.next = at + Len(words)
    <3>1. read.next = at + whole * width
      BY DEF GetMany
    <3> HIDE DEF read, whole
    <3> QED
      BY <2>1, <3>1
  <2>3. WordsFrom(at, Len(words)) = words
    <3>1. Len(words) \in Nat
      BY LenProperties
    <3>2. at + Len(words) <= Len(message)
      <4> HIDE DEF whole
      <4> QED
        BY <1>1, <1>2, <2>1, <3>1
    <3>3. Gives(Get(at, Len(words), <<>>), at, Len(words), words)
      BY GetGives
    <3>4. Get(at, Len(words), <<>>).value = WordsFrom(at, Len(words))
      BY <1>1, <3>1, <3>2 DEF Get
    <3> QED
      BY <3>2, <3>3, <3>4 DEF Gives
  <2>4. read.value = WordsFrom(at, whole * width)
                       \o [k \in 1 .. (number - whole) * width |-> garbage]
    BY DEF GetMany
  <2>5. (number - whole) * width = 0
    <3> HIDE DEF whole
    <3> QED
      BY <2>1
  <2> HIDE DEF read, whole
  <2>6. read.value = words \o [k \in 1 .. 0 |-> garbage]
    BY <2>1, <2>3, <2>4, <2>5
  <2>7. words \o [k \in 1 .. 0 |-> garbage] = words
    <3>1. [k \in 1 .. 0 |-> garbage] = <<>>
      OBVIOUS
    <3> QED
      BY <3>1, ConcatEmptySeq
  <2> QED
    BY <2>2, <2>6, <2>7
<1>6. read.ok <=> at + Len(words) <= Len(message)
  <2>1. Len(words) \in Nat
    BY LenProperties
  <2>2. at + Len(words) <= Len(message) <=> Len(words) <= Left(at)
    BY <1>1, <2>1
  <2>3. whole = number <=> Len(words) <= Left(at)
    BY <1>2
  <2> HIDE DEF read, whole
  <2> QED
    BY <1>3, <2>2, <2>3
<1> HIDE DEF read
<1>7. Gives(read, at, Len(words), words)
  BY <1>4, <1>5, <1>6 DEF Gives
<1> QED
  BY <1>7 DEF read

Place == dataStartPtr \in 0 .. Len(message)

LEMMA LengthRead ==
    ASSUME Message, NEW at \in 0 .. Len(message), NEW old
    PROVE  LET length == Get(at, 1, old)
           IN length.ok => length.value[1] \in Nat /\ length.next \in 0 .. Len(message)
                           /\ length.next \in at .. Len(message)
<1> DEFINE length == Get(at, 1, old)
<1>1. /\ Moves(length, at)
      /\ length.ok => length.value \in Seq(Nat) /\ Len(length.value) = 1
  BY GetProperties
<1> HIDE DEF length
<1>2. ASSUME length.ok
      PROVE  length.value[1] \in Nat
  <2>1. length.value \in Seq(Nat) /\ Len(length.value) = 1
    BY <1>1, <1>2
  <2> QED
    BY <2>1, ElementOfSeq
<1>3. length.next \in 0 .. Len(message) /\ length.next \in at .. Len(message)
  BY <1>1, LenProperties DEF Moves, Message
<1> QED
  BY <1>2, <1>3 DEF length

LEMMA GetListMoves ==
    ASSUME Message, Place, NEW width \in {1, 2}
    PROVE  Moves(GetList(width), dataStartPtr)
<1> DEFINE length == Get(dataStartPtr, 1, <<Garbage>>)
<1>1. Moves(length, dataStartPtr)
  BY GetProperties DEF Place
<1>2. CASE length.ok
  <2>1. length.value[1] \in Nat /\ length.next \in 0 .. Len(message)
        /\ length.next \in dataStartPtr .. Len(message)
    BY <1>2, LengthRead DEF Place
  <2> DEFINE number == Iterations(length.value[1] \div width)
  <2>2. GetList(width) = GetMany(length.next, width, number, Garbage)
    BY <1>2 DEF GetList
  <2> HIDE DEF length
  <2>3. number \in Nat
    BY <2>1 DEF Iterations
  <2> HIDE DEF number
  <2>4. Moves(GetList(width), length.next)
    BY <2>1, <2>2, <2>3, GetManyMoves
  <2> QED
    BY <2>1, <2>4, LenProperties DEF Moves, Message, Place
<1>3. CASE ~length.ok
  BY <1>1, <1>3 DEF GetList
<1> QED
  BY <1>1, <1>2, <1>3 DEF Moves

LEMMA GetListGives ==
    ASSUME Message, Place, NEW width \in {1, 2}, NEW words \in Seq(Nat),
           width = 2 => Len(words) % 2 = 0, Len(words) <= MaxElements,
           Stands(dataStartPtr, EncodeString(words))
    PROVE  Gives(GetList(width), dataStartPtr, Len(words) + 1, words)
<1> DEFINE length == Get(dataStartPtr, 1, <<Garbage>>)
<1>1. Len(message) \in Nat /\ dataStartPtr \in Nat /\ Len(words) \in Nat
  BY LenProperties DEF Message, Place
<1>2. Stands(dataStartPtr, <<Len(words)>>) /\ Stands(dataStartPtr + 1, words)
  <2>1. <<Len(words)>> \in Seq(Nat) /\ Len(<<Len(words)>>) = 1
    BY <1>1
  <2> QED
    BY <1>1, <2>1, StandsParts DEF EncodeString
<1>3. Gives(length, dataStartPtr, 1, <<Len(words)>>)
  <2>1. Len(<<Len(words)>>) = 1 /\ <<Len(words)>> \in Seq(Nat)
    BY <1>1
  <2> QED
    BY <1>2, <2>1, GetGives DEF Place
<1>4. CASE length.ok
  <2>1. /\ length.next = dataStartPtr + 1 /\ length.value[1] = Len(words)
        /\ dataStartPtr + 1 \in 0 .. Len(message)
    BY <1>1, <1>3, <1>4 DEF Gives
  <2>2. GetList(width) = GetMany(dataStartPtr + 1, width, Len(words) \div width, Garbage)
    <3>1. GetList(width) =
            GetMany(dataStartPtr + 1, width, Iterations(Len(words) \div width), Garbage)
      BY <1>4, <2>1 DEF GetList
    <3>2. Len(words) \div width <= IntMax
      BY <1>1, ParserAssumption
    <3> QED
      BY <3>1, <3>2 DEF Iterations
  <2>3. Len(words) \div width \in Nat /\ Len(words) = (Len(words) \div width) * width
    <3>1. CASE width = 1
      BY <1>1, <3>1
    <3>2. CASE width = 2
      <4>1. Len(words) % 2 = 0
        BY <3>2
      <4>2. Len(words) = (Len(words) \div 2) * 2
        BY <1>1, <4>1
      <4>3. Len(words) \div 2 \in Nat
        BY <1>1
      <4> QED
        BY <3>2, <4>2, <4>3
    <3> QED
      BY <3>1, <3>2
  <2>4. Gives(GetList(width), dataStartPtr + 1, Len(words), words)
    BY <1>2, <2>1, <2>2, <2>3, GetManyGives
  <2>5. dataStartPtr + 1 + Len(words) = dataStartPtr + (Len(words) + 1)
    BY <1>1
  <2> HIDE DEF length
  <2> QED
    BY <1>1, <2>4, <2>5 DEF Gives, Moves
<1>5. CASE ~length.ok
  <2>1. GetList(width) = length
    BY <1>5 DEF GetList
  <2> HIDE DEF length
  <2>2. ~(dataStartPtr + 1 <= Len(message)) /\ Moves(length, dataStartPtr)
    BY <1>3, <1>5 DEF Gives
  <2>3. ~(dataStartPtr + (Len(words) + 1) <= Len(message))
    BY <1>1, <2>2
  <2> QED
    BY <1>5, <2>1, <2>2, <2>3 DEF Gives
<1> QED
  BY <1>4, <1>5

\* Of the value of an attribute.
LEMMA GetValueMoves ==
    ASSUME Message, Place, NEW type
    PROVE  Moves(GetValue(type), dataStartPtr)
<1>1. /\ Moves(Get(dataStartPtr, 2, <<Garbage, Garbage>>), dataStartPtr)
      /\ Moves(Get(dataStartPtr, 1, <<Garbage>>), dataStartPtr)
  BY GetProperties DEF Place
<1>2. Moves(GetString(dataStartPtr), dataStartPtr)
  BY GetStringProperties DEF Place
<1>3. Moves(GetList(1), dataStartPtr) /\ Moves(GetList(2), dataStartPtr)
  BY GetListMoves
<1> QED
  BY <1>1, <1>2, <1>3 DEF GetValue

LEMMA ValueEncoded ==
    ASSUME NEW type, NEW words \in Seq(Nat)
    PROVE  EncodeValue(type, words) \in Seq(Nat)
  BY StringEncoded DEF EncodeValue

LEMMA GetValueGives ==
    ASSUME Message, Place, NEW type, NEW words \in Seq(Nat), Fits(type, words),
           Len(words) <= MaxElements, Stands(dataStartPtr, EncodeValue(type, words))
    PROVE  Gives(GetValue(type), dataStartPtr, Len(EncodeValue(type, words)), words)
<1>1. CASE type = SPH_ATTR_STRING
  <2>1. EncodeValue(type, words) = EncodeString(words)
    BY <1>1 DEF EncodeValue
  <2>2. GetValue(type) = GetString(dataStartPtr)
    BY <1>1 DEF GetValue, SPH_ATTR_BIGINT, SPH_ATTR_STRING, SPH_ATTR_MULTI, SPH_ATTR_MULTI64
  <2> QED
    BY <2>1, <2>2, GetStringGives, StringEncoded DEF Place
<1>2. CASE type = SPH_ATTR_MULTI
  <2>1. EncodeValue(type, words) = EncodeString(words)
    BY <1>2 DEF EncodeValue
  <2>2. GetValue(type) = GetList(1)
    BY <1>2 DEF GetValue, SPH_ATTR_BIGINT, SPH_ATTR_STRING, SPH_ATTR_MULTI, SPH_ATTR_MULTI64
  <2>3. Gives(GetList(1), dataStartPtr, Len(words) + 1, words)
    <3>1. Stands(dataStartPtr, EncodeString(words)) /\ 1 \in {1, 2} /\ 1 # 2
      BY <2>1
    <3> QED
      BY <3>1, GetListGives
  <2> QED
    BY <2>1, <2>2, <2>3, StringEncoded
<1>3. CASE type = SPH_ATTR_MULTI64
  <2>1. EncodeValue(type, words) = EncodeString(words)
    BY <1>3 DEF EncodeValue
  <2>2. GetValue(type) = GetList(2)
    BY <1>3 DEF GetValue, SPH_ATTR_BIGINT, SPH_ATTR_STRING, SPH_ATTR_MULTI, SPH_ATTR_MULTI64
  <2>3. Len(words) % 2 = 0
    BY <1>3 DEF Fits, SPH_ATTR_STRING, SPH_ATTR_BIGINT, SPH_ATTR_MULTI, SPH_ATTR_MULTI64
  <2>4. Gives(GetList(2), dataStartPtr, Len(words) + 1, words)
    <3>1. Stands(dataStartPtr, EncodeString(words)) /\ 2 \in {1, 2}
      BY <2>1
    <3> QED
      BY <2>3, <3>1, GetListGives
  <2> QED
    BY <2>1, <2>2, <2>4, StringEncoded
<1>4. CASE type \notin {SPH_ATTR_STRING, SPH_ATTR_MULTI, SPH_ATTR_MULTI64}
  <2>1. EncodeValue(type, words) = words
    BY <1>4 DEF EncodeValue
  <2>2. CASE type = SPH_ATTR_BIGINT
    <3>1. GetValue(type) = Get(dataStartPtr, 2, <<Garbage, Garbage>>)
      BY <2>2 DEF GetValue, SPH_ATTR_BIGINT, SPH_ATTR_STRING, SPH_ATTR_MULTI, SPH_ATTR_MULTI64
    <3>2. Len(words) = 2
      BY <1>4, <2>2 DEF Fits
    <3> QED
      BY <2>1, <3>1, <3>2, GetGives DEF Place
  <2>3. CASE type # SPH_ATTR_BIGINT
    <3>1. GetValue(type) = Get(dataStartPtr, 1, <<Garbage>>)
      BY <1>4, <2>3 DEF GetValue
    <3>2. Len(words) = 1
      BY <1>4, <2>3 DEF Fits
    <3> QED
      BY <2>1, <3>1, <3>2, GetGives DEF Place
  <2> QED
    BY <2>2, <2>3
<1> QED
  BY <1>1, <1>2, <1>3, <1>4

-----------------------------------------------------------------------------
(* The encoding of an answer, read after read *)

LEMMA ListTyped ==
    ASSUME NEW ss \in Seq(Seq(Nat))
    PROVE  EncodeList(ss) \in Seq(Nat)
<1>1. <<Len(ss)>> \in Seq(Nat)
  BY LenProperties
<1>2. FlattenSeq(ss) \in Seq(Nat)
  BY JoinedIsSeq
<1> QED
  BY <1>1, <1>2, ConcatProperties DEF EncodeList

LEMMA ListOn ==
    ASSUME NEW ss \in Seq(Seq(Nat)), NEW after \in Seq(Nat), NEW k \in 0 .. Len(ss)
    PROVE  /\ FlattenSeq(Rest(ss, k)) \o after \in Seq(Nat)
           /\ EncodeList(ss) \o after = <<Len(ss)>> \o (FlattenSeq(Rest(ss, 0)) \o after)
           /\ k < Len(ss) => FlattenSeq(Rest(ss, k)) \o after
                               = ss[k + 1] \o (FlattenSeq(Rest(ss, k + 1)) \o after)
           /\ k = Len(ss) => FlattenSeq(Rest(ss, k)) \o after = after
<1>1. Len(ss) \in Nat /\ k \in Nat
  BY LenProperties
<1>2. FlattenSeq(Rest(ss, k)) \in Seq(Nat)
  BY JoinedRest
<1>3. <<Len(ss)>> \in Seq(Nat)
  BY <1>1
<1>4. Rest(ss, 0) = ss
  <2>1. 0 \in 0 .. Len(ss)
    BY <1>1
  <2> QED
    BY <2>1, JoinedRest
<1>5. FlattenSeq(ss) \in Seq(Nat)
  BY JoinedIsSeq
<1> HIDE DEF Rest
<1>7. EncodeList(ss) \o after = <<Len(ss)>> \o (FlattenSeq(Rest(ss, 0)) \o after)
  BY <1>3, <1>4, <1>5, ConcatAssociative DEF EncodeList
<1>8. ASSUME k < Len(ss)
      PROVE  FlattenSeq(Rest(ss, k)) \o after
               = ss[k + 1] \o (FlattenSeq(Rest(ss, k + 1)) \o after)
  <2>1. FlattenSeq(Rest(ss, k)) = ss[k + 1] \o FlattenSeq(Rest(ss, k + 1))
    BY <1>8, JoinedRest
  <2>2. k + 1 \in 0 .. Len(ss) /\ k + 1 \in 1 .. Len(ss)
    BY <1>1, <1>8
  <2>3. FlattenSeq(Rest(ss, k + 1)) \in Seq(Nat)
    BY <2>2, JoinedRest
  <2>4. ss[k + 1] \in Seq(Nat)
    BY <2>2, ElementOfSeq
  <2> DEFINE s == ss[k + 1]
             t == FlattenSeq(Rest(ss, k + 1))
  <2>5. s \in Seq(Nat) /\ t \in Seq(Nat)
    BY <2>3, <2>4
  <2> HIDE DEF s, t
  <2>6. (s \o t) \o after = s \o (t \o after)
    BY <2>5, SMTT(30)
  <2> QED
    BY <2>1, <2>6 DEF s, t
<1>9. ASSUME k = Len(ss)
      PROVE  FlattenSeq(Rest(ss, k)) \o after = after
  <2>1. FlattenSeq(Rest(ss, k)) = <<>>
    BY <1>9, JoinedRest
  <2>2. <<>> \o after = after
    BY ConcatEmptySeq
  <2> QED
    BY <2>1, <2>2
<1>10. FlattenSeq(Rest(ss, k)) \o after \in Seq(Nat)
  BY <1>2, ConcatProperties
<1> QED
  BY <1>7, <1>8, <1>9, <1>10

LEMMA Regroup ==
    ASSUME NEW s \in Seq(Nat), NEW t \in Seq(Nat), NEW u \in Seq(Nat)
    PROVE  (s \o t) \o u = s \o (t \o u)
  BY ConcatAssociative, SMTT(30)

LEMMA TwoNumbers ==
    ASSUME NEW u \in Nat, NEW v \in Nat
    PROVE  <<u, v>> = <<u>> \o <<v>>
<1> DEFINE both == <<u>> \o <<v>>
<1>1. both \in Seq(Nat) /\ Len(both) = 2 /\ both[1] = u /\ both[2] = v
  OBVIOUS
<1> HIDE DEF both
<1>2. both = <<u, v>>
  BY <1>1
<1> QED
  BY <1>2 DEF both

LEMMA FourParts ==
    ASSUME NEW s \in Seq(Nat), NEW u \in Nat, NEW v \in Nat, NEW t \in Seq(Nat)
    PROVE  /\ (s \o <<u, v>>) \o t = s \o (<<u>> \o (<<v>> \o t))
           /\ (s \o <<u>>) \o t = s \o (<<u>> \o t)
<1>1. <<u>> \in Seq(Nat) /\ <<v>> \in Seq(Nat) /\ <<u, v>> \in Seq(Nat)
  OBVIOUS
<1>2. (s \o <<u>>) \o t = s \o (<<u>> \o t)
  BY <1>1, ConcatAssociative, SMTT(30)
<1>3. <<u, v>> = <<u>> \o <<v>>
  BY TwoNumbers
<1>4. (<<u>> \o <<v>>) \o t = <<u>> \o (<<v>> \o t)
  BY <1>1, ConcatAssociative, SMTT(30)
<1>5. (s \o <<u, v>>) \o t = s \o (<<u, v>> \o t)
  BY <1>1, ConcatAssociative, SMTT(30)
<1> QED
  BY <1>2, <1>3, <1>4, <1>5

Proper(answer) == answer \in Answers /\ Wellformed(answer) /\ HasMemory(answer)

\* What the fields of an answer are.
LEMMA AnswerTyped ==
    ASSUME NEW answer, Proper(answer)
    PROVE  /\ answer.status \in {SEARCHD_OK, SEARCHD_ERROR, SEARCHD_WARNING}
           /\ answer.description \in Seq(Nat) /\ answer.fields \in Seq(Seq(Nat))
           /\ answer.attributes \in Seq([name : Seq(Nat), type : Nat])
           /\ answer.wide \in BOOLEAN
           /\ answer.matches \in Seq([docId : Nat, weight : Nat, values : Seq(Seq(Nat))])
           /\ answer.totals \in [1 .. 3 -> Nat]
           /\ answer.words \in Seq([word : Seq(Nat), docs : Nat, hits : Nat])
  BY DEF Proper, Answers, Texts

LEMMA MatchTyped ==
    ASSUME NEW answer, Proper(answer), NEW n \in 1 .. Len(answer.matches)
    PROVE  /\ answer.matches[n].docId \in Nat /\ answer.matches[n].weight \in Nat
           /\ answer.matches[n].values \in Seq(Seq(Nat))
           /\ Len(answer.matches[n].values) = Len(answer.attributes)
           /\ \A k \in 1 .. Len(answer.attributes) :
                /\ answer.matches[n].values[k] \in Seq(Nat)
                /\ Fits(answer.attributes[k].type, answer.matches[n].values[k])
                /\ Len(answer.matches[n].values[k]) <= MaxElements
<1>1. answer.matches[n] \in [docId : Nat, weight : Nat, values : Seq(Seq(Nat))]
  BY AnswerTyped, ElementOfSeq
<1>2. /\ DOMAIN answer.matches = 1 .. Len(answer.matches)
      /\ DOMAIN answer.attributes = 1 .. Len(answer.attributes)
  BY AnswerTyped, LenProperties
<1>3. /\ Len(answer.matches[n].values) = Len(answer.attributes)
      /\ \A k \in DOMAIN answer.attributes :
           /\ Fits(answer.attributes[k].type, answer.matches[n].values[k])
           /\ Len(answer.matches[n].values[k]) <= MaxElements
  BY <1>2 DEF Proper, Wellformed, HasMemory
<1>4. answer.matches[n].values \in Seq(Seq(Nat))
  BY <1>1
<1>5. \A k \in 1 .. Len(answer.attributes) : answer.matches[n].values[k] \in Seq(Nat)
  BY <1>3, <1>4, ElementOfSeq
<1> QED
  BY <1>1, <1>2, <1>3, <1>4, <1>5

LEMMA WordsTyped ==
    ASSUME NEW answer, Proper(answer)
    PROVE  /\ FieldWords(answer) \in Seq(Seq(Nat))
           /\ Len(FieldWords(answer)) = Len(answer.fields)
           /\ AttributeWords(answer) \in Seq(Seq(Nat))
           /\ Len(AttributeWords(answer)) = Len(answer.attributes)
           /\ WordWords(answer) \in Seq(Seq(Nat))
           /\ Len(WordWords(answer)) = Len(answer.words)
<1>1. /\ answer.fields \in Seq(Seq(Nat))
      /\ answer.attributes \in Seq([name : Seq(Nat), type : Nat])
      /\ answer.words \in Seq([word : Seq(Nat), docs : Nat, hits : Nat])
  BY AnswerTyped
<1>2. /\ DOMAIN answer.fields = 1 .. Len(answer.fields) /\ Len(answer.fields) \in Nat
      /\ DOMAIN answer.attributes = 1 .. Len(answer.attributes) /\ Len(answer.attributes) \in Nat
      /\ DOMAIN answer.words = 1 .. Len(answer.words) /\ Len(answer.words) \in Nat
  BY <1>1, LenProperties
<1>3. \A k \in 1 .. Len(answer.fields) : EncodeString(answer.fields[k]) \in Seq(Nat)
  BY <1>1, ElementOfSeq, StringEncoded
<1>4. ASSUME NEW k \in 1 .. Len(answer.attributes)
      PROVE  EncodeString(answer.attributes[k].name) \o <<answer.attributes[k].type>> \in Seq(Nat)
  <2>1. answer.attributes[k].name \in Seq(Nat) /\ answer.attributes[k].type \in Nat
    <3>1. answer.attributes[k] \in [name : Seq(Nat), type : Nat]
      BY <1>1, ElementOfSeq
    <3> QED
      BY <3>1
  <2>2. EncodeString(answer.attributes[k].name) \in Seq(Nat)
    BY <2>1, StringEncoded
  <2>3. <<answer.attributes[k].type>> \in Seq(Nat)
    BY <2>1
  <2> QED
    BY <2>2, <2>3, ConcatProperties
<1>5. ASSUME NEW k \in 1 .. Len(answer.words)
      PROVE  EncodeString(answer.words[k].word)
               \o <<answer.words[k].docs, answer.words[k].hits>> \in Seq(Nat)
  <2>1. answer.words[k].word \in Seq(Nat) /\ answer.words[k].docs \in Nat
        /\ answer.words[k].hits \in Nat
    <3>1. answer.words[k] \in [word : Seq(Nat), docs : Nat, hits : Nat]
      BY <1>1, ElementOfSeq
    <3> QED
      BY <3>1
  <2>2. EncodeString(answer.words[k].word) \in Seq(Nat)
    BY <2>1, StringEncoded
  <2>3. <<answer.words[k].docs, answer.words[k].hits>> \in Seq(Nat)
    BY <2>1
  <2> QED
    BY <2>2, <2>3, ConcatProperties
<1>6. FieldWords(answer) \in Seq(Seq(Nat)) /\ Len(FieldWords(answer)) = Len(answer.fields)
  BY <1>2, <1>3, IsASeq DEF FieldWords
<1>7. /\ AttributeWords(answer) \in Seq(Seq(Nat))
      /\ Len(AttributeWords(answer)) = Len(answer.attributes)
  BY <1>2, <1>4, IsASeq DEF AttributeWords
<1>8. WordWords(answer) \in Seq(Seq(Nat)) /\ Len(WordWords(answer)) = Len(answer.words)
  BY <1>2, <1>5, IsASeq DEF WordWords
<1> QED
  BY <1>6, <1>7, <1>8

LEMMA MatchWordsTyped ==
    ASSUME NEW answer, Proper(answer), NEW n \in 1 .. Len(answer.matches)
    PROVE  /\ ValueWords(answer, answer.matches[n]) \in Seq(Seq(Nat))
           /\ Len(ValueWords(answer, answer.matches[n])) = Len(answer.attributes)
           /\ \A k \in 1 .. Len(answer.attributes) :
                ValueWords(answer, answer.matches[n])[k]
                  = EncodeValue(answer.attributes[k].type, answer.matches[n].values[k])
           /\ EncodeMatch(answer, answer.matches[n]) \in Seq(Nat)
<1> DEFINE match == answer.matches[n]
<1>1. /\ match.docId \in Nat /\ match.weight \in Nat /\ match.values \in Seq(Seq(Nat))
      /\ Len(match.values) = Len(answer.attributes)
      /\ \A k \in 1 .. Len(answer.attributes) : match.values[k] \in Seq(Nat)
  BY MatchTyped
<1> HIDE DEF match
<1>2. DOMAIN match.values = 1 .. Len(answer.attributes) /\ Len(answer.attributes) \in Nat
  BY <1>1, LenProperties
<1>3. \A k \in 1 .. Len(answer.attributes) :
        EncodeValue(answer.attributes[k].type, match.values[k]) \in Seq(Nat)
  BY <1>1, ValueEncoded
<1>4. /\ ValueWords(answer, match) \in Seq(Seq(Nat))
      /\ Len(ValueWords(answer, match)) = Len(answer.attributes)
      /\ \A k \in 1 .. Len(answer.attributes) : ValueWords(answer, match)[k]
           = EncodeValue(answer.attributes[k].type, match.values[k])
  BY <1>2, <1>3, IsASeq DEF ValueWords
<1>5. EncodeMatch(answer, match) \in Seq(Nat)
  <2>1. (IF answer.wide THEN <<0, match.docId>> ELSE <<match.docId>>) \in Seq(Nat)
    BY <1>1
  <2>2. <<match.weight>> \in Seq(Nat)
    BY <1>1
  <2>3. FlattenSeq(ValueWords(answer, match)) \in Seq(Nat)
    BY <1>4, JoinedIsSeq
  <2> HIDE DEF ValueWords
  <2>4. EncodeMatch(answer, match)
          = (IF answer.wide THEN <<0, match.docId>> ELSE <<match.docId>>) \o <<match.weight>>
            \o FlattenSeq(ValueWords(answer, match))
    BY DEF EncodeMatch, ValueWords
  <2> QED
    BY <2>1, <2>2, <2>3, <2>4, ConcatProperties
<1> QED
  BY <1>4, <1>5 DEF match

LEMMA MatchesTyped ==
    ASSUME NEW answer, Proper(answer)
    PROVE  /\ MatchWords(answer) \in Seq(Seq(Nat))
           /\ Len(MatchWords(answer)) = Len(answer.matches)
<1>1. DOMAIN answer.matches = 1 .. Len(answer.matches) /\ Len(answer.matches) \in Nat
  BY AnswerTyped, LenProperties
<1>2. \A n \in 1 .. Len(answer.matches) : EncodeMatch(answer, answer.matches[n]) \in Seq(Nat)
  BY MatchWordsTyped
<1> QED
  BY <1>1, <1>2, IsASeq DEF MatchWords

\* From the statistics back to the beginning.
LEMMA WordsOnward ==
    ASSUME NEW answer, Proper(answer)
    PROVE  /\ EncodeWords(answer.words) \in Seq(Nat)
           /\ EncodeWords(answer.words) = <<Len(answer.words)>> \o WordsOn(answer, 0)
           /\ WordsOn(answer, Len(answer.words)) = <<>>
           /\ \A k \in 0 .. Len(answer.words) : WordsOn(answer, k) \in Seq(Nat)
           /\ \A k \in 0 .. Len(answer.words) - 1 :
                WordsOn(answer, k)
                  = EncodeString(answer.words[k + 1].word)
                    \o (<<answer.words[k + 1].docs>>
                        \o (<<answer.words[k + 1].hits>> \o WordsOn(answer, k + 1)))
<1> DEFINE n  == Len(answer.words)
           ss == WordWords(answer)
<1>1. ss \in Seq(Seq(Nat)) /\ Len(ss) = n
  BY WordsTyped
<1>2. n \in Nat /\ DOMAIN answer.words = 1 .. n
  BY AnswerTyped, LenProperties
<1>3. EncodeWords(answer.words) = EncodeList(ss)
  BY DEF EncodeWords, WordWords
<1>4. \A k \in 1 .. n : ss[k] = EncodeString(answer.words[k].word)
                                \o <<answer.words[k].docs, answer.words[k].hits>>
  BY <1>2 DEF WordWords
<1> HIDE DEF ss, n
<1>5. \A k \in 0 .. n : FlattenSeq(Rest(ss, k)) \in Seq(Nat)
  BY <1>1, JoinedRest
<1>6. EncodeList(ss) = <<n>> \o FlattenSeq(Rest(ss, 0))
  <2>1. 0 \in 0 .. Len(ss)
    BY <1>1, <1>2
  <2>2. Rest(ss, 0) = ss
    BY <1>1, <2>1, JoinedRest
  <2> QED
    BY <1>1, <2>2 DEF EncodeList
<1>7. FlattenSeq(Rest(ss, n)) = <<>>
  <2>1. n \in 0 .. Len(ss) /\ n = Len(ss)
    BY <1>1, <1>2
  <2> QED
    BY <1>1, <2>1, JoinedRest
<1>8. ASSUME NEW k \in 0 .. n - 1
      PROVE  FlattenSeq(Rest(ss, k))
               = EncodeString(answer.words[k + 1].word)
                 \o (<<answer.words[k + 1].docs>>
                     \o (<<answer.words[k + 1].hits>> \o FlattenSeq(Rest(ss, k + 1))))
  <2>1. k \in 0 .. Len(ss) /\ k < Len(ss) /\ k + 1 \in 1 .. n /\ k + 1 \in 0 .. n
    BY <1>1, <1>2
  <2>2. FlattenSeq(Rest(ss, k)) = ss[k + 1] \o FlattenSeq(Rest(ss, k + 1))
    BY <1>1, <2>1, JoinedRest
  <2> DEFINE w == answer.words[k + 1]
             t == FlattenSeq(Rest(ss, k + 1))
             e == EncodeString(w.word)
  <2>3. w \in [word : Seq(Nat), docs : Nat, hits : Nat]
    BY <2>1, AnswerTyped, ElementOfSeq DEF n
  <2>4. ss[k + 1] = e \o <<w.docs, w.hits>>
    BY <1>4, <2>1
  <2>5. t \in Seq(Nat)
    BY <1>5, <2>1
  <2> HIDE DEF w, t
  <2>6. e \in Seq(Nat)
    BY <2>3, StringEncoded
  <2>7. w.docs \in Nat /\ w.hits \in Nat
    BY <2>3
  <2> HIDE DEF e
  <2>8. (e \o <<w.docs, w.hits>>) \o t = e \o (<<w.docs>> \o (<<w.hits>> \o t))
    BY <2>5, <2>6, <2>7, FourParts
  <2> QED
    BY <2>2, <2>4, <2>8 DEF w, t, e
<1>9. EncodeList(ss) \in Seq(Nat)
  BY <1>1, ListTyped
<1> QED
  BY <1>3, <1>5, <1>6, <1>7, <1>8, <1>9 DEF WordsOn, n, ss

LEMMA TotalsTyped ==
    ASSUME NEW answer, Proper(answer)
    PROVE  /\ answer.totals \in Seq(Nat) /\ Len(answer.totals) = 3
           /\ \A k \in 1 .. 3 : answer.totals[k] \in Nat
<1> DEFINE totals == answer.totals
<1>1. totals \in [1 .. 3 -> Nat]
  BY AnswerTyped
<1> HIDE DEF totals
<1>2. totals = [k \in 1 .. 3 |-> totals[k]] /\ \A k \in 1 .. 3 : totals[k] \in Nat
  BY <1>1
<1>3. totals \in Seq(Nat) /\ Len(totals) = 3
  BY <1>2, IsASeq
<1> QED
  BY <1>2, <1>3 DEF totals

LEMMA TotalsOnward ==
    ASSUME NEW answer, Proper(answer)
    PROVE  /\ TotalsOn(answer) \in Seq(Nat)
           /\ \A k \in 1 .. 3 : answer.totals[k] \in Nat
           /\ answer.totals = (<<answer.totals[1]>> \o <<answer.totals[2]>>) \o <<answer.totals[3]>>
           /\ TotalsOn(answer) = <<answer.totals[1]>>
                \o (<<answer.totals[2]>> \o (<<answer.totals[3]>> \o EncodeWords(answer.words)))
<1> DEFINE totals == answer.totals
           after  == EncodeWords(answer.words)
<1>1. after \in Seq(Nat)
  BY WordsOnward
<1>2. totals \in Seq(Nat) /\ Len(totals) = 3 /\ \A k \in 1 .. 3 : totals[k] \in Nat
  BY TotalsTyped
<1> HIDE DEF totals, after
<1>3. \A k \in 1 .. 3 : <<totals[k]>> \in Seq(Nat)
  BY <1>2
<1>4. totals = (<<totals[1]>> \o <<totals[2]>>) \o <<totals[3]>>
  <2> DEFINE three == (<<totals[1]>> \o <<totals[2]>>) \o <<totals[3]>>
  <2>1. /\ three \in Seq(Nat) /\ Len(three) = 3
        /\ three[1] = totals[1] /\ three[2] = totals[2] /\ three[3] = totals[3]
    BY <1>2
  <2> HIDE DEF three
  <2>2. \A k \in 1 .. 3 : k = 1 \/ k = 2 \/ k = 3
    OBVIOUS
  <2>3. \A k \in 1 .. 3 : totals[k] = three[k]
    BY <2>1, <2>2
  <2>4. totals = three
    BY <1>2, <2>1, <2>3, SeqEqual
  <2> QED
    BY <2>4 DEF three
<1>5. TotalsOn(answer) \in Seq(Nat) /\ TotalsOn(answer) = totals \o after
  BY <1>1, <1>2, ConcatProperties DEF TotalsOn, totals, after
<1>6. totals \o after = <<totals[1]>> \o (<<totals[2]>> \o (<<totals[3]>> \o after))
  <2> DEFINE u == totals[1]
             v == totals[2]
             w == totals[3]
  <2>1. u \in Nat /\ v \in Nat /\ w \in Nat
    BY <1>2
  <2>2. totals = (<<u>> \o <<v>>) \o <<w>>
    BY <1>4
  <2> HIDE DEF u, v, w
  <2>3. <<u>> \in Seq(Nat) /\ <<v>> \in Seq(Nat) /\ <<u>> \o <<v>> \in Seq(Nat)
        /\ <<w>> \o after \in Seq(Nat)
    BY <1>1, <2>1, ConcatProperties
  <2>4. ((<<u>> \o <<v>>) \o <<w>>) \o after = (<<u>> \o <<v>>) \o (<<w>> \o after)
    BY <1>1, <2>1, <2>3, FourParts, SMTT(30)
  <2>5. (<<u>> \o <<v>>) \o (<<w>> \o after) = <<u>> \o (<<v>> \o (<<w>> \o after))
    <3> DEFINE t == <<w>> \o after
    <3>1. t \in Seq(Nat)
      BY <2>3
    <3> HIDE DEF t
    <3>2. (<<u>> \o <<v>>) \o t = <<u>> \o (<<v>> \o t)
      BY <2>3, <3>1, Regroup, ZenonT(60)
    <3> QED
      BY <3>2 DEF t
  <2> QED
    BY <2>2, <2>4, <2>5 DEF u, v, w
<1> QED
  BY <1>2, <1>4, <1>5, <1>6 DEF totals, after

LEMMA MatchesOnward ==
    ASSUME NEW answer, Proper(answer)
    PROVE  /\ EncodeTail(answer) \in Seq(Nat)
           /\ answer.status # SEARCHD_ERROR => EncodeTail(answer)
                = <<IF answer.wide THEN 1 ELSE 0>> \o MatchesOn(answer, 0)
           /\ MatchesOn(answer, Len(answer.matches)) = TotalsOn(answer)
           /\ \A n \in 0 .. Len(answer.matches) : MatchesOn(answer, n) \in Seq(Nat)
<1> DEFINE ss    == MatchWords(answer)
           after == TotalsOn(answer)
           width == IF answer.wide THEN 1 ELSE 0
<1>1. /\ ss \in Seq(Seq(Nat)) /\ Len(ss) = Len(answer.matches) /\ Len(ss) \in Nat
      /\ after \in Seq(Nat) /\ width \in Nat
  BY MatchesTyped, TotalsOnward, LenProperties
<1>2. answer.totals \in Seq(Nat) /\ EncodeWords(answer.words) \in Seq(Nat)
  BY TotalsTyped, WordsOnward
<1>3. after = answer.totals \o EncodeWords(answer.words)
  BY DEF TotalsOn
<1>4. answer.status # SEARCHD_ERROR =>
        EncodeTail(answer)
          = ((<<width>> \o FlattenSeq(ss)) \o answer.totals) \o EncodeWords(answer.words)
  BY DEF EncodeTail, MatchWords
<1> HIDE DEF ss, after, width
<1>5. FlattenSeq(ss) \in Seq(Nat) /\ <<width>> \in Seq(Nat) /\ Rest(ss, 0) = ss
  <2>1. 0 \in 0 .. Len(ss)
    BY <1>1
  <2>2. Rest(ss, 0) = ss
    BY <1>1, <2>1, JoinedRest
  <2>3. FlattenSeq(ss) \in Seq(Nat)
    BY <1>1, JoinedIsSeq
  <2>4. <<width>> \in Seq(Nat)
    BY <1>1
  <2> QED
    BY <2>2, <2>3, <2>4
<1>6. ASSUME answer.status # SEARCHD_ERROR
      PROVE  EncodeTail(answer) = <<width>> \o (FlattenSeq(ss) \o after)
  <2> DEFINE s == FlattenSeq(ss)
             t == answer.totals
             u == EncodeWords(answer.words)
  <2>1. s \in Seq(Nat) /\ t \in Seq(Nat) /\ u \in Seq(Nat)
    BY <1>2, <1>5
  <2>2. EncodeTail(answer) = ((<<width>> \o s) \o t) \o u /\ after = t \o u
    BY <1>3, <1>4, <1>6
  <2> HIDE DEF s, t, u
  <2>3. <<width>> \o s \in Seq(Nat) /\ t \o u \in Seq(Nat)
    BY <1>5, <2>1, ConcatProperties
  <2>4. ((<<width>> \o s) \o t) \o u = (<<width>> \o s) \o (t \o u)
    BY <2>1, <2>3, Regroup, ZenonT(60)
  <2>5. (<<width>> \o s) \o (t \o u) = <<width>> \o (s \o (t \o u))
    BY <1>5, <2>1, <2>3, Regroup
  <2> QED
    BY <2>2, <2>4, <2>5 DEF s
<1>7. \A n \in 0 .. Len(ss) : FlattenSeq(Rest(ss, n)) \o after \in Seq(Nat)
  BY <1>1, ListOn
<1>8. FlattenSeq(Rest(ss, Len(ss))) \o after = after
  <2>1. Len(ss) \in 0 .. Len(ss)
    BY <1>1
  <2> QED
    BY <1>1, <2>1, ListOn
<1>9. \A n \in 0 .. Len(ss) : MatchesOn(answer, n) = FlattenSeq(Rest(ss, n)) \o after
  BY DEF MatchesOn, ss, after
<1>10. 0 \in 0 .. Len(ss) /\ Len(ss) \in 0 .. Len(ss)
  BY <1>1
<1>11. MatchesOn(answer, 0) = FlattenSeq(ss) \o after
  BY <1>5, <1>9, <1>10
<1>12. EncodeTail(answer) \in Seq(Nat)
  <2>1. CASE answer.status = SEARCHD_ERROR
    BY <2>1 DEF EncodeTail
  <2>2. CASE answer.status # SEARCHD_ERROR
    <3>1. FlattenSeq(ss) \o after \in Seq(Nat)
      BY <1>1, <1>5, ConcatProperties
    <3> DEFINE t == FlattenSeq(ss) \o after
    <3> HIDE DEF t
    <3>2. <<width>> \o t \in Seq(Nat)
      BY <1>5, <3>1, ConcatProperties DEF t
    <3> QED
      BY <1>6, <2>2, <3>2 DEF t
  <2> QED
    BY <2>1, <2>2
<1> QED
  BY <1>1, <1>6, <1>7, <1>8, <1>9, <1>10, <1>11, <1>12 DEF after, width

LEMMA ValuesOnward ==
    ASSUME NEW answer, Proper(answer), NEW n \in 1 .. Len(answer.matches)
    PROVE  /\ \A k \in 0 .. Len(answer.attributes) : ValuesOn(answer, n, k) \in Seq(Nat)
           /\ ValuesOn(answer, n, Len(answer.attributes)) = MatchesOn(answer, n)
           /\ \A k \in 0 .. Len(answer.attributes) - 1 :
                ValuesOn(answer, n, k)
                  = EncodeValue(answer.attributes[k + 1].type, answer.matches[n].values[k + 1])
                    \o ValuesOn(answer, n, k + 1)
<1> DEFINE ss    == ValueWords(answer, answer.matches[n])
           after == MatchesOn(answer, n)
           m     == Len(answer.attributes)
<1>1. /\ ss \in Seq(Seq(Nat)) /\ Len(ss) = m
      /\ \A k \in 1 .. m :
           ss[k] = EncodeValue(answer.attributes[k].type, answer.matches[n].values[k])
  BY MatchWordsTyped
<1>2. after \in Seq(Nat) /\ m \in Nat
  <2>1. n \in 0 .. Len(answer.matches)
    BY AnswerTyped, LenProperties
  <2> QED
    BY <2>1, MatchesOnward, AnswerTyped, LenProperties
<1>3. \A k \in 0 .. m : ValuesOn(answer, n, k) = FlattenSeq(Rest(ss, k)) \o after
  BY DEF ValuesOn
<1> HIDE DEF ss, after, m
<1>4. \A k \in 0 .. m : FlattenSeq(Rest(ss, k)) \o after \in Seq(Nat)
  BY <1>1, <1>2, ListOn
<1>5. m \in 0 .. m /\ FlattenSeq(Rest(ss, m)) \o after = after
  <2>1. m \in 0 .. m /\ m \in 0 .. Len(ss)
    BY <1>1, <1>2
  <2> QED
    BY <1>1, <1>2, <2>1, ListOn
<1>6. ASSUME NEW k \in 0 .. m - 1
      PROVE  ValuesOn(answer, n, k)
               = EncodeValue(answer.attributes[k + 1].type, answer.matches[n].values[k + 1])
                 \o ValuesOn(answer, n, k + 1)
  <2>1. k \in 0 .. Len(ss) /\ k < Len(ss) /\ k + 1 \in 1 .. m /\ k + 1 \in 0 .. m /\ k \in 0 .. m
    BY <1>1, <1>2
  <2>2. FlattenSeq(Rest(ss, k)) \o after = ss[k + 1] \o (FlattenSeq(Rest(ss, k + 1)) \o after)
    BY <1>1, <1>2, <2>1, ListOn
  <2> QED
    BY <1>1, <1>3, <2>1, <2>2
<1> QED
  BY <1>3, <1>4, <1>5, <1>6 DEF after, m

LEMMA MatchOnward ==
    ASSUME NEW answer, Proper(answer), NEW n \in 0 .. Len(answer.matches) - 1
    PROVE  MatchesOn(answer, n)
             = (IF answer.wide THEN <<0, answer.matches[n + 1].docId>>
                               ELSE <<answer.matches[n + 1].docId>>)
               \o (<<answer.matches[n + 1].weight>> \o ValuesOn(answer, n + 1, 0))
<1> DEFINE ss     == MatchWords(answer)
           after  == TotalsOn(answer)
           match  == answer.matches[n + 1]
           values == FlattenSeq(ValueWords(answer, match))
           id     == IF answer.wide THEN <<0, match.docId>> ELSE <<match.docId>>
           weight == match.weight
           last   == MatchesOn(answer, n + 1)
<1>1. /\ ss \in Seq(Seq(Nat)) /\ Len(ss) = Len(answer.matches) /\ Len(ss) \in Nat
      /\ after \in Seq(Nat)
  BY MatchesTyped, TotalsOnward, LenProperties
<1>2. /\ n \in 0 .. Len(ss) /\ n < Len(ss) /\ n + 1 \in 1 .. Len(answer.matches)
      /\ n + 1 \in 0 .. Len(answer.matches)
  BY <1>1
<1>3. FlattenSeq(Rest(ss, n)) \o after = ss[n + 1] \o (FlattenSeq(Rest(ss, n + 1)) \o after)
  <2> HIDE DEF ss, after
  <2> QED
    BY <1>1, <1>2, ListOn
<1>4. MatchesOn(answer, n) = ss[n + 1] \o last
  <2>1. MatchesOn(answer, n) = FlattenSeq(Rest(ss, n)) \o after
    BY DEF MatchesOn
  <2>2. last = FlattenSeq(Rest(ss, n + 1)) \o after
    BY DEF MatchesOn
  <2> HIDE DEF ss, after, last
  <2> QED
    BY <1>3, <2>1, <2>2
<1>5. ss[n + 1] = (id \o <<weight>>) \o values
  <2>1. n + 1 \in DOMAIN answer.matches
    BY <1>2, AnswerTyped, LenProperties
  <2>2. ss[n + 1] = EncodeMatch(answer, answer.matches[n + 1])
    BY <2>1 DEF MatchWords
  <2> HIDE DEF ss
  <2> QED
    BY <2>2 DEF EncodeMatch, ValueWords
<1>6. match.docId \in Nat /\ match.weight \in Nat
  BY <1>2, MatchTyped
<1>7. ValueWords(answer, match) \in Seq(Seq(Nat))
  BY <1>2, MatchWordsTyped
<1>8. values \in Seq(Nat) /\ Rest(ValueWords(answer, match), 0) = ValueWords(answer, match)
  <2> DEFINE vs == ValueWords(answer, match)
  <2>1. vs \in Seq(Seq(Nat))
    BY <1>7
  <2> HIDE DEF vs
  <2>2. 0 \in 0 .. Len(vs)
    BY <2>1, LenProperties
  <2>3. FlattenSeq(vs) \in Seq(Nat)
    BY <2>1, JoinedIsSeq
  <2>4. Rest(vs, 0) = vs
    BY <2>1, <2>2, JoinedRest
  <2> QED
    BY <2>3, <2>4 DEF vs
<1>9. ValuesOn(answer, n + 1, 0) = values \o last
  BY <1>8 DEF ValuesOn
<1>10. id \in Seq(Nat) /\ weight \in Nat /\ last \in Seq(Nat)
  <2>1. id \in Seq(Nat)
    BY <1>6
  <2>2. last \in Seq(Nat)
    BY <1>2, MatchesOnward
  <2> QED
    BY <1>6, <2>1, <2>2
<1> HIDE DEF ss, values, id, weight, last
<1>11. id \o <<weight>> \in Seq(Nat) /\ values \o last \in Seq(Nat)
  <2>1. <<weight>> \in Seq(Nat)
    BY <1>10
  <2> QED
    BY <1>8, <1>10, <2>1, ConcatProperties
<1>12. ((id \o <<weight>>) \o values) \o last = (id \o <<weight>>) \o (values \o last)
  <2> DEFINE t == id \o <<weight>>
  <2>1. t \in Seq(Nat)
    BY <1>11
  <2> HIDE DEF t
  <2>2. (t \o values) \o last = t \o (values \o last)
    BY <1>8, <1>10, <2>1, Regroup, Zenon
  <2> QED
    BY <2>2 DEF t
<1>13. (id \o <<weight>>) \o (values \o last) = id \o (<<weight>> \o (values \o last))
  <2> DEFINE t == values \o last
  <2>1. t \in Seq(Nat)
    BY <1>11
  <2> HIDE DEF t
  <2>2. (id \o <<weight>>) \o t = id \o (<<weight>> \o t)
    BY <1>10, <2>1, FourParts, Zenon
  <2> QED
    BY <2>2 DEF t
<1> QED
  BY <1>4, <1>5, <1>9, <1>12, <1>13 DEF id, weight

LEMMA AttributesOnward ==
    ASSUME NEW answer, Proper(answer)
    PROVE  /\ MatchCountOn(answer) \in Seq(Nat)
           /\ AttrCountOn(answer) \in Seq(Nat)
           /\ AttrCountOn(answer) = <<Len(answer.attributes)>> \o AttributesOn(answer, 0)
           /\ \A k \in 0 .. Len(answer.attributes) : AttributesOn(answer, k) \in Seq(Nat)
           /\ AttributesOn(answer, Len(answer.attributes)) = MatchCountOn(answer)
           /\ \A k \in 0 .. Len(answer.attributes) - 1 :
                AttributesOn(answer, k)
                  = EncodeString(answer.attributes[k + 1].name)
                    \o (<<answer.attributes[k + 1].type>> \o AttributesOn(answer, k + 1))
<1> DEFINE ss    == AttributeWords(answer)
           after == MatchCountOn(answer)
           m     == Len(answer.attributes)
<1>1. ss \in Seq(Seq(Nat)) /\ Len(ss) = m
  BY WordsTyped
<1>2. m \in Nat /\ DOMAIN answer.attributes = 1 .. m
  BY AnswerTyped, LenProperties
<1>3. after \in Seq(Nat)
  <2>1. <<Len(answer.matches)>> \in Seq(Nat)
    BY AnswerTyped, LenProperties
  <2> QED
    BY <2>1, MatchesOnward, ConcatProperties DEF MatchCountOn
<1>4. \A k \in 1 .. m : ss[k] = EncodeString(answer.attributes[k].name)
                                \o <<answer.attributes[k].type>>
  BY <1>2 DEF AttributeWords
<1>5. AttrCountOn(answer) = EncodeList(ss) \o after
  BY DEF AttrCountOn, EncodeAttributes, AttributeWords
<1>6. \A k \in 0 .. m : AttributesOn(answer, k) = FlattenSeq(Rest(ss, k)) \o after
  BY DEF AttributesOn
<1> HIDE DEF ss, after, m
<1>7. \A k \in 0 .. m : AttributesOn(answer, k) \in Seq(Nat)
  BY <1>1, <1>3, <1>6, ListOn
<1>8. m \in 0 .. m /\ 0 \in 0 .. m /\ AttributesOn(answer, m) = after
  <2>1. m \in 0 .. m /\ 0 \in 0 .. m /\ m \in 0 .. Len(ss)
    BY <1>1, <1>2
  <2>2. FlattenSeq(Rest(ss, m)) \o after = after
    BY <1>1, <1>3, <2>1, ListOn
  <2> QED
    BY <1>6, <2>1, <2>2
<1>9. AttrCountOn(answer) = <<m>> \o AttributesOn(answer, 0)
  <2>1. 0 \in 0 .. Len(ss)
    BY <1>1, <1>2
  <2>2. EncodeList(ss) \o after = <<Len(ss)>> \o (FlattenSeq(Rest(ss, 0)) \o after)
    BY <1>1, <1>3, <2>1, ListOn
  <2> QED
    BY <1>1, <1>5, <1>6, <1>8, <2>2
<1>10. AttrCountOn(answer) \in Seq(Nat)
  <2>1. EncodeList(ss) \in Seq(Nat)
    BY <1>1, ListTyped
  <2> QED
    BY <1>3, <1>5, <2>1, ConcatProperties
<1>11. ASSUME NEW k \in 0 .. m - 1
       PROVE  AttributesOn(answer, k)
                = EncodeString(answer.attributes[k + 1].name)
                  \o (<<answer.attributes[k + 1].type>> \o AttributesOn(answer, k + 1))
  <2>1. k \in 0 .. Len(ss) /\ k < Len(ss) /\ k + 1 \in 1 .. m /\ k + 1 \in 0 .. m /\ k \in 0 .. m
    BY <1>1, <1>2
  <2>2. FlattenSeq(Rest(ss, k)) \o after = ss[k + 1] \o (FlattenSeq(Rest(ss, k + 1)) \o after)
    BY <1>1, <1>3, <2>1, ListOn
  <2> DEFINE w == answer.attributes[k + 1]
             t == AttributesOn(answer, k + 1)
             e == EncodeString(w.name)
  <2>3. w \in [name : Seq(Nat), type : Nat]
    BY <2>1, AnswerTyped, ElementOfSeq DEF m
  <2>4. AttributesOn(answer, k) = (e \o <<w.type>>) \o t
    BY <1>4, <1>6, <2>1, <2>2
  <2>5. t \in Seq(Nat)
    BY <1>7, <2>1
  <2> HIDE DEF w, t
  <2>6. e \in Seq(Nat) /\ w.type \in Nat
    BY <2>3, StringEncoded
  <2> HIDE DEF e
  <2>7. (e \o <<w.type>>) \o t = e \o (<<w.type>> \o t)
    BY <2>5, <2>6, FourParts
  <2> QED
    BY <2>4, <2>7 DEF w, t, e
<1> QED
  BY <1>3, <1>7, <1>8, <1>9, <1>10, <1>11 DEF after, m

LEMMA FieldsOnward ==
    ASSUME NEW answer, Proper(answer)
    PROVE  /\ FieldCountOn(answer) \in Seq(Nat)
           /\ answer.status # SEARCHD_ERROR =>
                FieldCountOn(answer) = <<Len(answer.fields)>> \o FieldsOn(answer, 0)
           /\ \A k \in 0 .. Len(answer.fields) : FieldsOn(answer, k) \in Seq(Nat)
           /\ FieldsOn(answer, Len(answer.fields)) = AttrCountOn(answer)
           /\ \A k \in 0 .. Len(answer.fields) - 1 :
                FieldsOn(answer, k) = EncodeString(answer.fields[k + 1]) \o FieldsOn(answer, k + 1)
<1> DEFINE ss    == FieldWords(answer)
           after == AttrCountOn(answer)
           m     == Len(answer.fields)
<1>1. ss \in Seq(Seq(Nat)) /\ Len(ss) = m
  BY WordsTyped
<1>2. m \in Nat /\ DOMAIN answer.fields = 1 .. m
  BY AnswerTyped, LenProperties
<1>3. after \in Seq(Nat)
  BY AttributesOnward
<1>4. \A k \in 1 .. m : ss[k] = EncodeString(answer.fields[k])
  BY <1>2 DEF FieldWords
<1>5. EncodeFields(answer.fields) = EncodeList(ss)
  BY DEF EncodeFields, FieldWords
<1>6. \A k \in 0 .. m : FieldsOn(answer, k) = FlattenSeq(Rest(ss, k)) \o after
  BY DEF FieldsOn
<1>7. FieldCountOn(answer) = IF answer.status = SEARCHD_ERROR THEN <<>> ELSE EncodeList(ss) \o after
  BY <1>5 DEF FieldCountOn
<1> HIDE DEF ss, after, m
<1>8. \A k \in 0 .. m : FieldsOn(answer, k) \in Seq(Nat)
  BY <1>1, <1>3, <1>6, ListOn
<1>9. m \in 0 .. m /\ 0 \in 0 .. m /\ FieldsOn(answer, m) = after
  <2>1. m \in 0 .. m /\ 0 \in 0 .. m /\ m \in 0 .. Len(ss)
    BY <1>1, <1>2
  <2>2. FlattenSeq(Rest(ss, m)) \o after = after
    BY <1>1, <1>3, <2>1, ListOn
  <2> QED
    BY <1>6, <2>1, <2>2
<1>10. EncodeList(ss) \o after = <<m>> \o FieldsOn(answer, 0)
  <2>1. 0 \in 0 .. Len(ss)
    BY <1>1, <1>2
  <2>2. EncodeList(ss) \o after = <<Len(ss)>> \o (FlattenSeq(Rest(ss, 0)) \o after)
    BY <1>1, <1>3, <2>1, ListOn
  <2> QED
    BY <1>1, <1>6, <1>9, <2>2
<1>11. FieldCountOn(answer) \in Seq(Nat)
  <2>1. EncodeList(ss) \in Seq(Nat)
    BY <1>1, ListTyped
  <2>2. EncodeList(ss) \o after \in Seq(Nat)
    BY <1>3, <2>1, ConcatProperties
  <2> QED
    BY <1>7, <2>2, EmptySeq
<1>12. ASSUME NEW k \in 0 .. m - 1
       PROVE  FieldsOn(answer, k) = EncodeString(answer.fields[k + 1]) \o FieldsOn(answer, k + 1)
  <2>1. k \in 0 .. Len(ss) /\ k < Len(ss) /\ k + 1 \in 1 .. m /\ k + 1 \in 0 .. m /\ k \in 0 .. m
    BY <1>1, <1>2
  <2>2. FlattenSeq(Rest(ss, k)) \o after = ss[k + 1] \o (FlattenSeq(Rest(ss, k + 1)) \o after)
    BY <1>1, <1>3, <2>1, ListOn
  <2> QED
    BY <1>4, <1>6, <2>1, <2>2
<1> QED
  BY <1>7, <1>8, <1>9, <1>10, <1>11, <1>12 DEF after, m

LEMMA AnswerOnward ==
    ASSUME NEW answer, Proper(answer)
    PROVE  /\ Encode(answer) \in Seq(Nat)
           /\ EncodeHead(answer) \in Seq(Nat)
           /\ Len(Encode(answer)) = Len(EncodeHead(answer)) + Len(EncodeTail(answer))
           /\ answer.status = SEARCHD_OK =>
                Encode(answer) = <<answer.status>> \o FieldCountOn(answer)
           /\ answer.status # SEARCHD_OK =>
                Encode(answer) = <<answer.status>>
                  \o (EncodeString(answer.description) \o FieldCountOn(answer))
<1> DEFINE fields == EncodeFields(answer.fields)
           attributes == EncodeAttributes(answer.attributes)
           n == Len(answer.matches)
           tail == EncodeTail(answer)
           described == IF answer.status = SEARCHD_OK THEN <<>>
                        ELSE EncodeString(answer.description)
           listed == IF answer.status = SEARCHD_ERROR THEN <<>>
                     ELSE (fields \o attributes) \o <<n>>
<1>1. /\ answer.status \in Nat /\ answer.description \in Seq(Nat) /\ n \in Nat
  <2>1. answer.status \in {SEARCHD_OK, SEARCHD_ERROR, SEARCHD_WARNING}
    BY AnswerTyped
  <2>2. answer.status \in Nat
    BY <2>1 DEF SEARCHD_OK, SEARCHD_ERROR, SEARCHD_WARNING
  <2>3. answer.matches \in Seq([docId : Nat, weight : Nat, values : Seq(Seq(Nat))])
    BY AnswerTyped
  <2>4. n \in Nat
    BY <2>3, LenProperties
  <2> QED
    BY <2>2, <2>4, AnswerTyped
<1>2. fields \in Seq(Nat) /\ attributes \in Seq(Nat) /\ tail \in Seq(Nat)
  <2>1. fields = EncodeList(FieldWords(answer)) /\ attributes = EncodeList(AttributeWords(answer))
    BY DEF EncodeFields, EncodeAttributes, FieldWords, AttributeWords
  <2> HIDE DEF fields, attributes, tail
  <2>2. fields \in Seq(Nat)
    BY <2>1, ListTyped, WordsTyped
  <2>3. attributes \in Seq(Nat)
    BY <2>1, ListTyped, WordsTyped
  <2> QED
    BY <2>2, <2>3, MatchesOnward DEF tail
<1>3. described \in Seq(Nat)
  BY <1>1, StringEncoded
<1>4. EncodeHead(answer) = (<<answer.status>> \o described) \o listed
  BY DEF EncodeHead
<1>5. Encode(answer) = EncodeHead(answer) \o tail
  BY DEF Encode
<1>6. answer.status # SEARCHD_ERROR =>
        FieldCountOn(answer) = fields \o (attributes \o (<<n>> \o tail))
  BY DEF FieldCountOn, AttrCountOn, MatchCountOn
<1>7. answer.status = SEARCHD_ERROR => FieldCountOn(answer) = <<>> /\ tail = <<>>
  BY DEF FieldCountOn, EncodeTail
<1> HIDE DEF fields, attributes, n, tail
<1>8. fields \o attributes \in Seq(Nat) /\ <<n>> \in Seq(Nat) /\ <<n>> \o tail \in Seq(Nat)
  BY <1>1, <1>2, ConcatProperties
<1>9. listed \in Seq(Nat)
  BY <1>8, ConcatProperties
<1>10. listed \o tail = FieldCountOn(answer)
  <2>1. CASE answer.status = SEARCHD_ERROR
    BY <1>7, <2>1
  <2>2. CASE answer.status # SEARCHD_ERROR
    <3>1. ((fields \o attributes) \o <<n>>) \o tail = (fields \o attributes) \o (<<n>> \o tail)
      <4> DEFINE both   == fields \o attributes
                 number == <<n>>
      <4>1. both \in Seq(Nat) /\ number \in Seq(Nat)
        BY <1>8
      <4> HIDE DEF both, number
      <4>2. (both \o number) \o tail = both \o (number \o tail)
        BY <1>2, <4>1, Regroup, ZenonT(60)
      <4> QED
        BY <4>2 DEF both, number
    <3>2. (fields \o attributes) \o (<<n>> \o tail) = fields \o (attributes \o (<<n>> \o tail))
      <4> DEFINE t == <<n>> \o tail
      <4>1. t \in Seq(Nat)
        BY <1>8
      <4> HIDE DEF t
      <4>2. (fields \o attributes) \o t = fields \o (attributes \o t)
        BY <1>2, <4>1, Regroup, Zenon
      <4> QED
        BY <4>2 DEF t
    <3> QED
      BY <1>6, <2>2, <3>1, <3>2
  <2> QED
    BY <2>1, <2>2
<1>11. answer.status = SEARCHD_OK => described = <<>>
  OBVIOUS
<1>12. answer.status # SEARCHD_OK => described = EncodeString(answer.description)
  OBVIOUS
<1>13. <<answer.status>> \in Seq(Nat)
  BY <1>1
<1> HIDE DEF described, listed
<1> DEFINE front == <<answer.status>> \o described
<1>14. front \in Seq(Nat)
  BY <1>3, <1>13, ConcatProperties
<1>15. front \o (listed \o tail) = <<answer.status>> \o (described \o FieldCountOn(answer))
  <2> DEFINE s == <<answer.status>>
             t == FieldCountOn(answer)
  <2>1. s \in Seq(Nat) /\ t \in Seq(Nat)
    BY <1>13, FieldsOnward
  <2> HIDE DEF s, t
  <2>2. (s \o described) \o t = s \o (described \o t)
    BY <1>3, <2>1, Regroup, Zenon
  <2> QED
    BY <1>10, <2>2 DEF s, t
<1> HIDE DEF front
<1>16. (front \o listed) \o tail = front \o (listed \o tail)
  BY <1>2, <1>9, <1>14, Regroup, Zenon
<1>17. EncodeHead(answer) = front \o listed
  BY <1>4 DEF front
<1>18. EncodeHead(answer) \in Seq(Nat)
  BY <1>9, <1>14, <1>17, ConcatProperties
<1>19. /\ Encode(answer) \in Seq(Nat)
       /\ Len(Encode(answer)) = Len(EncodeHead(answer)) + Len(tail)
  BY <1>2, <1>5, <1>18, ConcatProperties
<1>20. <<>> \o FieldCountOn(answer) = FieldCountOn(answer)
  BY FieldsOnward, ConcatEmptySeq
<1> QED
  BY <1>5, <1>11, <1>12, <1>15, <1>16, <1>17, <1>18, <1>19, <1>20 DEF tail

-----------------------------------------------------------------------------
(* The message *)

LEMMA ProperAnswers ==
    ASSUME answers \in AnswerLists
    PROVE  /\ answers \in Seq(Answers) /\ Len(answers) \in Nat /\ Len(answers) # 0
           /\ DOMAIN answers = 1 .. Len(answers)
           /\ \A k \in 1 .. Len(answers) : Proper(answers[k])
<1>1. /\ answers \in Seq(Answers) /\ answers # <<>>
      /\ \A n \in DOMAIN answers : Wellformed(answers[n]) /\ HasMemory(answers[n])
  BY ParserAssumption
<1>2. Len(answers) \in Nat /\ DOMAIN answers = 1 .. Len(answers) /\ Len(answers) # 0
  BY <1>1, LenProperties, EmptySeq
<1>3. \A k \in 1 .. Len(answers) : answers[k] \in Answers
  BY <1>1, ElementOfSeq
<1> QED
  BY <1>1, <1>2, <1>3 DEF Proper

LEMMA EndsProperties ==
    ASSUME answers \in AnswerLists
    PROVE  /\ Ends[0] = 0
           /\ \A k \in 0 .. Len(answers) : Ends[k] \in Nat
           /\ \A k \in 1 .. Len(answers) : Ends[k] = Ends[k - 1] + Len(Encode(answers[k]))
<1> DEFINE n == Len(answers)
           w == [k \in 1 .. n |-> Len(Encode(answers[k]))]
           isTable(f) == f = [k \in 0 .. n |->
                                IF k = 0 THEN 0 ELSE f[k - 1] + Len(Encode(answers[k]))]
<1>1. n \in Nat
  BY ProperAnswers
<1>2. ASSUME NEW k \in 1 .. n
      PROVE  w[k] = Len(Encode(answers[k])) /\ w[k] \in Nat
  BY ProperAnswers, AnswerOnward, LenProperties
<1>3. PICK f : f = [k \in 0 .. n |-> IF k = 0 THEN 0 ELSE f[k - 1] + w[k]]
  <2> HIDE DEF n, w
  <2> QED
    BY <1>1, SumsExist
<1>4. \A k \in 0 .. n : k # 0 => k \in 1 .. n
  BY <1>1
<1> HIDE DEF w, n
<1>5. isTable(f)
  BY <1>2, <1>3, <1>4
<1>6. Ends = CHOOSE g : isTable(g)
  BY DEF Ends, n
<1>7. isTable(Ends)
  <2> HIDE DEF isTable
  <2> QED
    BY <1>5, <1>6
<1>8. Ends = [k \in 0 .. n |-> IF k = 0 THEN 0 ELSE Ends[k - 1] + w[k]]
  BY <1>2, <1>4, <1>7
<1>9. /\ Ends[0] = 0
      /\ \A k \in 0 .. n : Ends[k] \in Nat
      /\ \A k \in 1 .. n : Ends[k] = Ends[k - 1] + w[k]
  <2>1. \A k \in 1 .. n : w[k] \in Nat
    BY <1>2
  <2> HIDE DEF isTable
  <2> DEFINE sums == Ends
  <2>2. \A k \in 0 .. n : sums[k] = IF k = 0 THEN 0 ELSE sums[k - 1] + w[k]
    BY <1>8
  <2> HIDE DEF sums
  <2>3. /\ sums[0] = 0
        /\ \A k \in 0 .. n : sums[k] \in Nat
        /\ \A k \in 1 .. n : sums[k] = sums[k - 1] + w[k]
    BY <1>1, <2>1, <2>2, SumsTyped
  <2> QED
    BY <2>3 DEF sums
<1> QED
  BY <1>2, <1>9 DEF n

LEMMA EndsKept ==
    ASSUME answers' = answers
    PROVE  Ends' = Ends
  BY DEF Ends

LEMMA MessageInit ==
    ASSUME Init
    PROVE  Message /\ MessageStands
<1> DEFINE n       == Len(answers)
           ss      == [k \in 1 .. n |-> Encode(answers[k])]
           encoded == FlattenSeq(ss)
<1>1. answers \in AnswerLists
  BY DEF Init
<1>2. /\ n \in Nat /\ DOMAIN answers = 1 .. n
      /\ \A k \in 1 .. n : Encode(answers[k]) \in Seq(Nat)
  BY <1>1, ProperAnswers, AnswerOnward
<1>3. ss \in Seq(Seq(Nat)) /\ Len(ss) = n /\ \A k \in 1 .. n : ss[k] = Encode(answers[k])
  <2> HIDE DEF n
  <2> QED
    BY <1>2, IsASeq
<1>4. PICK end \in 0 .. Len(encoded) : message = SubSeq(encoded, 1, end)
  BY <1>2 DEF Init
<1> HIDE DEF n, ss
<1>5. encoded \in Seq(Nat) /\ Len(encoded) \in Nat
  <2>1. encoded \in Seq(Nat)
    BY <1>3, JoinedIsSeq
  <2> HIDE DEF encoded
  <2> QED
    BY <2>1, LenProperties
<1> HIDE DEF encoded
<1>6. /\ message \in Seq(Nat) /\ Len(message) = end
      /\ \A m \in 1 .. end : message[m] = encoded[m]
  <2>1. \A m \in 1 .. end : encoded[m] \in Nat
    <3>1. \A m \in 1 .. end : m \in 1 .. Len(encoded)
      BY <1>5
    <3> QED
      BY <1>5, <3>1, ElementOfSeq
  <2>2. /\ SubSeq(encoded, 1, end) \in Seq(Nat)
        /\ Len(SubSeq(encoded, 1, end)) = IF 1 <= end THEN end - 1 + 1 ELSE 0
        /\ \A m \in 1 .. end - 1 + 1 : SubSeq(encoded, 1, end)[m] = encoded[1 + m - 1]
    BY <2>1, SubSeqProperties
  <2>3. end - 1 + 1 = end /\ (~(1 <= end) => end = 0) /\ \A m \in 1 .. end : 1 + m - 1 = m
    BY <1>5
  <2> QED
    BY <1>4, <2>2, <2>3
<1>7. Message
  BY <1>6 DEF Message
<1> DEFINE T == {k \in Nat : k <= n => Stands(Ends[k], FlattenSeq(Rest(ss, k)))}
<1>8. 0 \in T
  <2>1. Rest(ss, 0) = ss
    <3>1. 0 \in 0 .. Len(ss)
      BY <1>2, <1>3
    <3> QED
      BY <1>3, <3>1, JoinedRest
  <2>2. Stands(0, encoded)
    <3>1. \A m \in 1 .. Len(encoded) : 0 + m = m /\ (m <= end => m \in 1 .. end)
      BY <1>5
    <3> QED
      BY <1>6, <3>1 DEF Stands
  <2>3. Ends[0] = 0
    BY <1>1, EndsProperties
  <2> QED
    BY <2>1, <2>2, <2>3 DEF encoded
<1>9. ASSUME NEW k \in Nat, k + 1 <= n, Stands(Ends[k], FlattenSeq(Rest(ss, k)))
      PROVE  /\ Stands(Ends[k], Encode(answers[k + 1]))
             /\ Stands(Ends[k + 1], FlattenSeq(Rest(ss, k + 1)))
  <2>1. k \in 0 .. Len(ss) /\ k < Len(ss) /\ k + 1 \in 1 .. n /\ k + 1 \in 0 .. n /\ k \in 0 .. n
        /\ k + 1 - 1 = k /\ k + 1 \in 0 .. Len(ss)
    BY <1>2, <1>3, <1>9
  <2> DEFINE s == Encode(answers[k + 1])
             t == FlattenSeq(Rest(ss, k + 1))
  <2>2. s \in Seq(Nat) /\ t \in Seq(Nat)
    BY <1>2, <1>3, <2>1, JoinedRest
  <2>3. FlattenSeq(Rest(ss, k)) = s \o t
    BY <1>3, <2>1, JoinedRest
  <2>4. Ends[k] \in Nat
    BY <1>1, <2>1, EndsProperties DEF n
  <2>5. Ends[k + 1] = Ends[k] + Len(s)
    <3>1. Ends[k + 1] = Ends[k + 1 - 1] + Len(Encode(answers[k + 1]))
      BY <1>1, <2>1, EndsProperties DEF n
    <3> QED
      BY <2>1, <3>1
  <2> HIDE DEF s, t
  <2>6. Stands(Ends[k], s) /\ Stands(Ends[k] + Len(s), t)
    BY <1>7, <1>9, <2>2, <2>3, <2>4, StandsParts
  <2> QED
    BY <2>5, <2>6 DEF s, t
<1>10. ASSUME NEW k \in T
       PROVE  k + 1 \in T
  <2>1. k \in Nat /\ k + 1 \in Nat /\ (k + 1 <= n => k <= n)
    BY <1>2
  <2> QED
    BY <1>9, <2>1
<1>11. T = Nat
  <2>1. T \in SUBSET Nat
    BY DEF T
  <2> HIDE DEF T
  <2> QED
    BY <1>8, <1>10, <2>1, InductiveSet
<1>12. ASSUME NEW k \in 1 .. n
       PROVE  Stands(Ends[k - 1], Encode(answers[k]))
  <2> DEFINE m == k - 1
  <2>1. m \in Nat /\ m + 1 = k /\ m + 1 <= n /\ m <= n
    BY <1>2
  <2> HIDE DEF m
  <2>2. Stands(Ends[m], FlattenSeq(Rest(ss, m)))
    BY <1>11, <2>1
  <2>3. Stands(Ends[m], Encode(answers[m + 1]))
    BY <1>9, <2>1, <2>2
  <2> QED
    BY <2>1, <2>3 DEF m
<1> QED
  BY <1>2, <1>7, <1>12 DEF MessageStands

-----------------------------------------------------------------------------
(* What an action does to the buffer *)

\* The message stays, the place goes on, and what was left behind stays so.
Forward ==
    /\ message' = message /\ answers' = answers
    /\ dataStartPtr' \in dataStartPtr .. Len(message)
    /\ residue' \in BOOLEAN /\ (residue => residue')

\* Something was left behind, or nothing is left.
Failed == residue' \/ dataStartPtr' = Len(message)

Readable == Message /\ Place /\ residue \in BOOLEAN

LEMMA ConsumedOne ==
    ASSUME Readable, NEW r, Moves(r, dataStartPtr), Consumed(<<r>>)
    PROVE  /\ Forward /\ dataStartPtr' = r.next
           /\ ~r.ok => Failed
           /\ r.ok => residue' = residue
<1>1. Len(message) \in Nat /\ dataStartPtr \in Nat
  BY LenProperties DEF Readable, Message, Place
<1>2. /\ message' = message /\ answers' = answers /\ dataStartPtr' = r.next
      /\ residue' = (residue \/ LeavesWords(r))
  <2>1. Len(<<r>>) = 1 /\ <<r>>[1] = r /\ DOMAIN <<r>> = {1}
    OBVIOUS
  <2> QED
    BY <2>1 DEF Consumed
<1>3. LeavesWords(r) <=> ~r.ok /\ r.next # Len(message)
  BY <1>1 DEF LeavesWords, Left, Moves
<1> QED
  BY <1>2, <1>3 DEF Moves, Forward, Failed, Readable

LEMMA ConsumedTwo ==
    ASSUME Readable, NEW r, Moves(r, dataStartPtr), NEW s, Moves(s, r.next),
           Consumed(<<r, s>>)
    PROVE  /\ Forward /\ dataStartPtr' = s.next
           /\ ~r.ok \/ ~s.ok => Failed
           /\ r.ok /\ s.ok => residue' = residue
<1>1. Len(message) \in Nat /\ dataStartPtr \in Nat
  BY LenProperties DEF Readable, Message, Place
<1>2. /\ message' = message /\ answers' = answers /\ dataStartPtr' = s.next
      /\ residue' = (residue \/ LeavesWords(r) \/ LeavesWords(s))
  <2>1. Len(<<r, s>>) = 2 /\ <<r, s>>[1] = r /\ <<r, s>>[2] = s /\ DOMAIN <<r, s>> = {1, 2}
    OBVIOUS
  <2> QED
    BY <2>1 DEF Consumed
<1>3. /\ LeavesWords(r) <=> ~r.ok /\ r.next # Len(message)
      /\ LeavesWords(s) <=> ~s.ok /\ s.next # Len(message)
  BY <1>1 DEF LeavesWords, Left, Moves
<1>4. s.next \in dataStartPtr .. Len(message) /\ (r.next = Len(message) => s.next = Len(message))
  BY <1>1 DEF Moves
<1> QED
  BY <1>2, <1>3, <1>4 DEF Moves, Forward, Failed, Readable

LEMMA ConsumedThree ==
    ASSUME Readable, NEW r, Moves(r, dataStartPtr), NEW s, Moves(s, r.next),
           NEW t, Moves(t, s.next), Consumed(<<r, s, t>>)
    PROVE  /\ Forward /\ dataStartPtr' = t.next
           /\ ~r.ok \/ ~s.ok \/ ~t.ok => Failed
           /\ r.ok /\ s.ok /\ t.ok => residue' = residue
<1>1. Len(message) \in Nat /\ dataStartPtr \in Nat
  BY LenProperties DEF Readable, Message, Place
<1>2. /\ message' = message /\ answers' = answers /\ dataStartPtr' = t.next
      /\ residue' = (residue \/ LeavesWords(r) \/ LeavesWords(s) \/ LeavesWords(t))
  <2>1. /\ Len(<<r, s, t>>) = 3 /\ <<r, s, t>>[1] = r /\ <<r, s, t>>[2] = s
        /\ <<r, s, t>>[3] = t /\ DOMAIN <<r, s, t>> = {1, 2, 3}
    OBVIOUS
  <2> QED
    BY <2>1 DEF Consumed
<1>3. /\ LeavesWords(r) <=> ~r.ok /\ r.next # Len(message)
      /\ LeavesWords(s) <=> ~s.ok /\ s.next # Len(message)
      /\ LeavesWords(t) <=> ~t.ok /\ t.next # Len(message)
  BY <1>1 DEF LeavesWords, Left, Moves
<1>4. /\ t.next \in dataStartPtr .. Len(message)
      /\ (r.next = Len(message) => t.next = Len(message))
      /\ (s.next = Len(message) => t.next = Len(message))
  BY <1>1 DEF Moves
<1> QED
  BY <1>2, <1>3, <1>4 DEF Moves, Forward, Failed, Readable

\* The reads that are not checked, for their types.
LEMMA MovesFrom ==
    ASSUME Readable, NEW r, Moves(r, dataStartPtr)
    PROVE  r.next \in 0 .. Len(message)
  BY LenProperties DEF Readable, Message, Place, Moves

LEMMA NumberRead ==
    ASSUME Readable, NEW at \in 0 .. Len(message), NEW old
    PROVE  LET read == Get(at, 1, <<old>>)
           IN /\ Moves(read, at)
              /\ old \in Nat => read.value[1] \in Nat
              /\ old \in Int => read.value[1] \in Int
              /\ read.ok => read.value[1] \in Nat
              /\ ~read.ok => read.value = <<old>>
<1> DEFINE read == Get(at, 1, <<old>>)
<1>1. Moves(read, at) /\ (~read.ok => read.value = <<old>>)
  BY GetProperties DEF Readable
<1>2. read.ok => read.value[1] \in Nat
  BY LengthRead DEF Readable
<1>3. read.ok \in BOOLEAN
  BY <1>1 DEF Moves
<1> HIDE DEF read
<1> QED
  BY <1>1, <1>2, <1>3 DEF read

-----------------------------------------------------------------------------
(* Types, and the entries *)

BufferOK ==
    /\ answers \in AnswerLists /\ current \in DOMAIN answers
    /\ message \in Seq(Nat) /\ dataStartPtr \in 0 .. Len(message)
    /\ residue \in BOOLEAN

Stages == {"status", "description", "fieldCount", "fields", "attrCount",
           "attributes", "matchCount", "idWidth", "matches", "values",
           "totals", "wordCount", "words", "returned"}

LoopOK ==
    /\ pc \in Stages
    /\ errorStatus \in Int /\ count \in Nat /\ i \in Nat /\ j \in Nat
    /\ outcome \in {"none", "ok", "Warning", "MessageError", "bad_alloc"}

ListsOK ==
    /\ response.field \in Seq(Words)
    /\ response.attribute \in Seq([name : Words, type : Int])

LEMMA TypeParts == TypeOK <=> BufferOK /\ LoopOK /\ ListsOK
  BY DEF TypeOK, BufferOK, LoopOK, ListsOK, Stages

LEMMA BufferRead ==
    ASSUME BufferOK
    PROVE  Readable
  BY DEF BufferOK, Readable, Message, Place

LEMMA BufferKept ==
    ASSUME BufferOK, Forward, UNCHANGED current
    PROVE  BufferOK'
<1>1. Len(message) \in Nat /\ dataStartPtr \in Nat
  BY LenProperties DEF BufferOK
<1>2. dataStartPtr' \in 0 .. Len(message)
  BY <1>1 DEF BufferOK, Forward
<1> QED
  BY <1>2 DEF BufferOK, Forward

LEMMA SameEntries ==
    ASSUME EntriesInv, UNCHANGED <<entry, response>>,
           pc' # "values", pc' \in HeadStages => pc \in HeadStages
    PROVE  EntriesInv'
  BY DEF EntriesInv, Shaped, EntriesHaveTheAttributes

BaseInv == BufferOK /\ LoopOK /\ ListsOK /\ EntriesInv

LEMMA BaseRead ==
    ASSUME BaseInv
    PROVE  Readable /\ dataStartPtr \in 0 .. Len(message)
  BY BufferRead DEF BaseInv, BufferOK

\* The steps that leave the response alone.
LEMMA QuietStep ==
    ASSUME BaseInv, Forward, UNCHANGED <<current, entry, response>>, LoopOK',
           pc' # "values", pc' \in HeadStages => pc \in HeadStages
    PROVE  BaseInv'
<1>1. BufferOK'
  BY BufferKept DEF BaseInv
<1>2. ListsOK'
  BY DEF BaseInv, ListsOK
<1>3. EntriesInv'
  BY SameEntries DEF BaseInv
<1> QED
  BY <1>1, <1>2, <1>3 DEF BaseInv

LEMMA ReadStatusBase ==
    ASSUME BaseInv, ReadStatus
    PROVE  Forward /\ BaseInv'
<1> DEFINE status == Get(dataStartPtr, 1, <<Garbage>>)
<1>1. Moves(status, dataStartPtr) /\ status.value[1] \in Int
  BY BaseRead, NumberRead DEF Garbage
<1>2. /\ pc = "status" /\ Consumed(<<status>>) /\ errorStatus' = status.value[1]
      /\ UNCHANGED <<count, i, j, current, entry, response>>
      /\ \/ pc' = "returned" /\ outcome' = "MessageError"
         \/ pc' = "fieldCount" /\ outcome' = outcome
         \/ pc' = "description" /\ outcome' = outcome
  BY DEF ReadStatus, Return, Goto, loop
<1> HIDE DEF status
<1>3. Forward
  BY <1>1, <1>2, BaseRead, ConsumedOne
<1>4. LoopOK'
  BY <1>1, <1>2 DEF BaseInv, LoopOK, Stages
<1> QED
  BY <1>2, <1>3, <1>4, QuietStep DEF HeadStages

LEMMA ReadDescriptionBase ==
    ASSUME BaseInv, ReadDescription
    PROVE  Forward /\ BaseInv'
<1> DEFINE text == GetString(dataStartPtr)
<1>1. Moves(text, dataStartPtr)
  BY BaseRead, GetStringProperties DEF Readable
<1>2. /\ pc = "description" /\ Consumed(<<text>>)
      /\ UNCHANGED <<count, i, j, current, errorStatus, entry, response>>
      /\ \/ pc' = "returned" /\ outcome' = "MessageError"
         \/ pc' = "fieldCount" /\ outcome' = outcome
  BY DEF ReadDescription, Return, Goto, loop
<1> HIDE DEF text
<1>3. Forward
  BY <1>1, <1>2, BaseRead, ConsumedOne
<1>4. LoopOK'
  BY <1>2 DEF BaseInv, LoopOK, Stages
<1> QED
  BY <1>2, <1>3, <1>4, QuietStep DEF HeadStages

\* A count is read, checked or not.
LEMMA CountBase ==
    ASSUME BaseInv, NEW old \in Int, NEW next \in Stages,
           Consumed(<<Get(dataStartPtr, 1, <<old>>)>>),
           UNCHANGED <<current, errorStatus, entry, response>>,
           \/ Loop(next, Get(dataStartPtr, 1, <<old>>).value[1])
              /\ (old \in Nat \/ Get(dataStartPtr, 1, <<old>>).ok)
           \/ Return("MessageError") /\ UNCHANGED loop,
           next # "values", next \in HeadStages => pc \in HeadStages
    PROVE  Forward /\ BaseInv'
<1> DEFINE number == Get(dataStartPtr, 1, <<old>>)
<1>1. /\ Moves(number, dataStartPtr)
      /\ (old \in Nat \/ number.ok) => number.value[1] \in Nat
  BY BaseRead, NumberRead
<1>2. /\ Consumed(<<number>>)
      /\ \/ /\ (old \in Nat \/ number.ok) /\ pc' = next /\ outcome' = outcome
            /\ count' = number.value[1] /\ i' = 0 /\ j' = 0
         \/ pc' = "returned" /\ outcome' = "MessageError" /\ UNCHANGED <<count, i, j>>
  BY DEF Loop, Goto, Return, loop
<1> HIDE DEF number
<1>3. Forward
  BY <1>1, <1>2, BaseRead, ConsumedOne
<1>4. LoopOK'
  BY <1>1, <1>2 DEF BaseInv, LoopOK, Stages
<1>5. pc' # "values" /\ (pc' \in HeadStages => pc \in HeadStages)
  BY <1>2 DEF HeadStages
<1> QED
  BY <1>3, <1>4, <1>5, QuietStep

LEMMA CountsBase ==
    ASSUME BaseInv, ReadFieldCount \/ ReadAttrCount \/ ReadMatchCount \/ ReadWordCount
    PROVE  Forward /\ BaseInv'
<1>1. Garbage \in Int /\ Junk \subseteq Nat
  BY ParserAssumption DEF Garbage
<1>2. CASE ReadFieldCount
  <2>1. pc = "fieldCount" /\ "fields" \in Stages
    BY <1>2 DEF ReadFieldCount, Stages
  <2> QED
    BY <1>1, <1>2, <2>1, CountBase DEF ReadFieldCount, HeadStages
<1>3. CASE ReadMatchCount
  <2>1. pc = "matchCount" /\ "idWidth" \in Stages
    BY <1>3 DEF ReadMatchCount, Stages
  <2> QED
    BY <1>1, <1>3, <2>1, CountBase DEF ReadMatchCount, HeadStages
<1>4. CASE ReadAttrCount
  <2>1. pc = "attrCount" /\ "attributes" \in Stages
    BY <1>4 DEF ReadAttrCount, Stages
  <2>2. PICK junk \in Junk :
          /\ Consumed(<<Get(dataStartPtr, 1, <<junk>>)>>)
          /\ Loop("attributes", Get(dataStartPtr, 1, <<junk>>).value[1])
    BY <1>4 DEF ReadAttrCount
  <2>3. UNCHANGED <<current, errorStatus, entry, response>>
    BY <1>4 DEF ReadAttrCount
  <2>4. junk \in Nat /\ junk \in Int
    BY <1>1
  <2> QED
    BY <2>1, <2>2, <2>3, <2>4, CountBase DEF HeadStages
<1>5. CASE ReadWordCount
  <2>1. "words" \in Stages /\ "words" \notin HeadStages
    BY DEF Stages, HeadStages
  <2>2. PICK junk \in Junk :
          /\ Consumed(<<Get(dataStartPtr, 1, <<junk>>)>>)
          /\ Loop("words", Get(dataStartPtr, 1, <<junk>>).value[1])
    BY <1>5 DEF ReadWordCount
  <2>3. UNCHANGED <<current, errorStatus, entry, response>>
    BY <1>5 DEF ReadWordCount
  <2>4. junk \in Nat /\ junk \in Int
    BY <1>1
  <2> QED
    BY <2>1, <2>2, <2>3, <2>4, CountBase
<1> QED
  BY <1>2, <1>3, <1>4, <1>5

\* The steps that do not read.
LEMMA StillBase ==
    ASSUME BaseInv,
           \/ LoopEnds("fields", "attrCount") \/ LoopEnds("attributes", "matchCount")
           \/ LoopEnds("matches", "totals") \/ ParseReturns \/ OutOfMemory \/ QueryReturned
           \/ UNCHANGED vars
    PROVE  Forward /\ BaseInv'
<1>1. Len(message) \in Nat /\ dataStartPtr \in 0 .. Len(message) /\ residue \in BOOLEAN
  BY LenProperties DEF BaseInv, BufferOK
<1>2. CASE \/ LoopEnds("fields", "attrCount") \/ LoopEnds("attributes", "matchCount")
           \/ LoopEnds("matches", "totals")
  <2>1. /\ UNCHANGED <<message, dataStartPtr, answers, residue, count, i, j>>
        /\ UNCHANGED <<current, errorStatus, entry, response, outcome>>
        /\ \/ pc = "fields" /\ pc' = "attrCount"
           \/ pc = "attributes" /\ pc' = "matchCount"
           \/ pc = "matches" /\ pc' = "totals"
    BY <1>2 DEF LoopEnds, Goto, loop, buffer
  <2>2. Forward
    BY <1>1, <2>1 DEF Forward
  <2>3. LoopOK'
    BY <2>1 DEF BaseInv, LoopOK, Stages
  <2> QED
    BY <2>1, <2>2, <2>3, QuietStep DEF HeadStages
<1>3. CASE ParseReturns \/ OutOfMemory
  <2>1. /\ UNCHANGED <<message, dataStartPtr, answers, residue, count, i, j>>
        /\ UNCHANGED <<current, errorStatus, entry, response>>
        /\ pc' = "returned" /\ outcome' \in {"Warning", "ok", "bad_alloc"}
    BY <1>3 DEF ParseReturns, OutOfMemory, Return, loop, buffer
  <2>2. Forward
    BY <1>1, <2>1 DEF Forward
  <2>3. LoopOK'
    BY <2>1 DEF BaseInv, LoopOK, Stages
  <2> QED
    BY <2>1, <2>2, <2>3, QuietStep DEF HeadStages
<1>4. CASE QueryReturned \/ UNCHANGED vars
  <2>1. /\ UNCHANGED <<message, dataStartPtr, answers, residue, count, i, j>>
        /\ UNCHANGED <<current, errorStatus, entry, response, pc, outcome>>
    BY <1>4 DEF QueryReturned, vars, loop, buffer
  <2>2. Forward
    BY <1>1, <2>1 DEF Forward
  <2>3. BaseInv'
    BY <2>1 DEF BaseInv, BufferOK, LoopOK, ListsOK, EntriesInv, Shaped, EntriesHaveTheAttributes
  <2> QED
    BY <2>2, <2>3
<1> QED
  BY <1>2, <1>3, <1>4

LEMMA NextAnswerBase ==
    ASSUME BaseInv, NextAnswer
    PROVE  Forward /\ BaseInv'
<1>1. /\ UNCHANGED <<message, dataStartPtr, answers, residue, count, i, j, errorStatus>>
      /\ current < Len(answers) /\ current' = current + 1
      /\ pc' = "status" /\ outcome' = "none"
      /\ entry' = EmptyEntry /\ response' = EmptyResponse
  BY DEF NextAnswer, loop, buffer
<1>2. Len(message) \in Nat /\ dataStartPtr \in 0 .. Len(message) /\ residue \in BOOLEAN
  BY LenProperties DEF BaseInv, BufferOK
<1>3. Forward
  BY <1>1, <1>2 DEF Forward
<1>4. current' \in DOMAIN answers
  <2>1. current \in DOMAIN answers /\ DOMAIN answers = 1 .. Len(answers) /\ Len(answers) \in Nat
    BY ProperAnswers DEF BaseInv, BufferOK
  <2> QED
    BY <1>1, <2>1
<1>5. BufferOK'
  BY <1>1, <1>4 DEF BaseInv, BufferOK
<1>6. LoopOK'
  BY <1>1 DEF BaseInv, LoopOK, Stages
<1>7. ListsOK'
  BY <1>1 DEF ListsOK, EmptyResponse
<1>8. EntriesInv'
  BY <1>1 DEF EntriesInv, Shaped, EntriesHaveTheAttributes, EmptyResponse, EmptyEntry, HeadStages
<1> QED
  BY <1>3, <1>5, <1>6, <1>7, <1>8 DEF BaseInv

\* The response changes, but its attributes and entries do not.
LEMMA OtherFields ==
    ASSUME BaseInv, UNCHANGED entry,
           response' = [field |-> response'.field, attribute |-> response'.attribute,
                        entry |-> response'.entry, word |-> response'.word,
                        totals |-> response'.totals, use64bitId |-> response'.use64bitId],
           response'.entry = response.entry,
           response'.attribute = response.attribute \/ response.entry = <<>>,
           pc' # "values", pc' \in HeadStages => pc \in HeadStages
    PROVE  EntriesInv'
<1>1. Shaped'
  BY DEF BaseInv, EntriesInv, Shaped
<1>2. CASE response.entry = <<>>
  BY <1>1, <1>2 DEF EntriesInv, EntriesHaveTheAttributes
<1>3. CASE response'.attribute = response.attribute
  BY <1>1, <1>3 DEF BaseInv, EntriesInv, EntriesHaveTheAttributes
<1> QED
  BY <1>2, <1>3

LEMMA ReadFieldBase ==
    ASSUME BaseInv, ReadField
    PROVE  Forward /\ BaseInv'
<1> DEFINE name == GetString(dataStartPtr)
<1>1. Moves(name, dataStartPtr) /\ name.value \in Seq(Nat)
  BY BaseRead, GetStringProperties DEF Readable
<1>2. /\ pc = "fields" /\ Consumed(<<name>>)
      /\ response' = [response EXCEPT !.field = Append(@, name.value)]
      /\ i' = i + 1 /\ UNCHANGED <<count, j, current, pc, errorStatus, entry, outcome>>
  BY DEF ReadField
<1> HIDE DEF name
<1>3. Forward
  BY <1>1, <1>2, BaseRead, ConsumedOne
<1>4. BufferOK'
  BY <1>2, <1>3, BufferKept DEF BaseInv
<1>5. LoopOK'
  BY <1>2 DEF BaseInv, LoopOK
<1>6. response' = [field |-> Append(response.field, name.value),
                   attribute |-> response.attribute, entry |-> response.entry,
                   word |-> response.word, totals |-> response.totals,
                   use64bitId |-> response.use64bitId]
  BY <1>2 DEF BaseInv, EntriesInv, Shaped
<1>7. EntriesInv'
  BY <1>2, <1>6, OtherFields
<1>8. ListsOK'
  <2>1. name.value \in Words
    BY <1>1 DEF Words
  <2>2. response.field \in Seq(Words) /\ response.attribute \in Seq([name : Words, type : Int])
    BY DEF BaseInv, ListsOK
  <2>3. Append(response.field, name.value) \in Seq(Words)
    BY <2>1, <2>2, AppendProperties
  <2> QED
    BY <1>6, <2>2, <2>3 DEF ListsOK
<1> QED
  BY <1>3, <1>4, <1>5, <1>7, <1>8 DEF BaseInv

LEMMA ReadAttributeBase ==
    ASSUME BaseInv, ReadAttribute
    PROVE  Forward /\ BaseInv'
<1> DEFINE name == GetString(dataStartPtr)
           type == Get(name.next, 1, <<Garbage>>)
           attribute == [name |-> name.value, type |-> type.value[1]]
<1>1. Moves(name, dataStartPtr) /\ name.value \in Seq(Nat)
  BY BaseRead, GetStringProperties DEF Readable
<1>2. Moves(type, name.next) /\ type.value[1] \in Int
  <2> HIDE DEF name
  <2>1. name.next \in 0 .. Len(message)
    BY <1>1, BaseRead, MovesFrom
  <2> QED
    BY <2>1, BaseRead, NumberRead DEF Garbage
<1>3. /\ pc = "attributes" /\ Consumed(<<name, type>>)
      /\ response' = [response EXCEPT !.attribute = Append(@, attribute)]
      /\ i' = i + 1 /\ UNCHANGED <<count, j, current, pc, errorStatus, entry, outcome>>
  BY DEF ReadAttribute
<1>4. attribute \in [name : Words, type : Int]
  <2> HIDE DEF name, type
  <2>1. name.value \in Words
    BY <1>1 DEF Words
  <2> QED
    BY <1>2, <2>1
<1> HIDE DEF name, type, attribute
<1>5. Forward
  BY <1>1, <1>2, <1>3, BaseRead, ConsumedTwo
<1>6. BufferOK'
  BY <1>3, <1>5, BufferKept DEF BaseInv
<1>7. LoopOK'
  BY <1>3 DEF BaseInv, LoopOK
<1>8. response' = [field |-> response.field,
                   attribute |-> Append(response.attribute, attribute),
                   entry |-> response.entry, word |-> response.word,
                   totals |-> response.totals, use64bitId |-> response.use64bitId]
  BY <1>3 DEF BaseInv, EntriesInv, Shaped
<1>9. EntriesInv'
  <2>1. response.entry = <<>>
    BY <1>3 DEF BaseInv, EntriesInv, HeadStages
  <2> QED
    BY <1>3, <1>8, <2>1, OtherFields
<1>10. ListsOK'
  <2>1. response.field \in Seq(Words) /\ response.attribute \in Seq([name : Words, type : Int])
    BY DEF BaseInv, ListsOK
  <2>2. Append(response.attribute, attribute) \in Seq([name : Words, type : Int])
    BY <1>4, <2>1, AppendProperties
  <2> QED
    BY <1>8, <2>1, <2>2 DEF ListsOK
<1> QED
  BY <1>5, <1>6, <1>7, <1>9, <1>10 DEF BaseInv

LEMMA ReadIdWidthBase ==
    ASSUME BaseInv, ReadIdWidth
    PROVE  Forward /\ BaseInv'
<1>1. PICK junk \in Junk :
        LET wide == Get(dataStartPtr, 1, <<junk>>)
        IN /\ Consumed(<<wide>>)
           /\ response' = [response EXCEPT !.use64bitId = wide.value # <<0>>]
  BY DEF ReadIdWidth
<1>2. /\ pc = "idWidth" /\ pc' = "matches"
      /\ UNCHANGED <<count, i, j, current, errorStatus, entry, outcome>>
  BY DEF ReadIdWidth, Goto, loop
<1>3. Moves(Get(dataStartPtr, 1, <<junk>>), dataStartPtr)
  BY BaseRead, NumberRead
<1>4. Forward
  BY <1>1, <1>3, BaseRead, ConsumedOne
<1>5. BufferOK'
  BY <1>2, <1>4, BufferKept DEF BaseInv
<1>6. LoopOK'
  BY <1>2 DEF BaseInv, LoopOK, Stages
<1> DEFINE wide == Get(dataStartPtr, 1, <<junk>>).value # <<0>>
<1>7. response' = [field |-> response.field, attribute |-> response.attribute,
                   entry |-> response.entry, word |-> response.word,
                   totals |-> response.totals, use64bitId |-> wide]
  <2>1. response' = [response EXCEPT !.use64bitId = wide]
    BY <1>1
  <2> HIDE DEF wide
  <2> QED
    BY <2>1 DEF BaseInv, EntriesInv, Shaped
<1> HIDE DEF wide
<1>8. EntriesInv'
  BY <1>2, <1>7, OtherFields DEF HeadStages
<1>9. ListsOK'
  BY <1>7 DEF BaseInv, ListsOK
<1> QED
  BY <1>4, <1>5, <1>6, <1>8, <1>9 DEF BaseInv

LEMMA ReadTotalsBase ==
    ASSUME BaseInv, ReadTotals
    PROVE  Forward /\ BaseInv'
<1> DEFINE got    == Get(dataStartPtr, 1, <<0>>)
           found  == Get(got.next, 1, <<0>>)
           time   == Get(found.next, 1, <<0>>)
           totals == got.value \o found.value \o time.value
<1>1. /\ pc = "totals" /\ pc' = "wordCount" /\ Consumed(<<got, found, time>>)
      /\ response' = [response EXCEPT !.totals = totals]
      /\ UNCHANGED <<count, i, j, current, errorStatus, entry, outcome>>
  BY DEF ReadTotals, Goto, loop
<1>2. Moves(got, dataStartPtr) /\ got.next \in 0 .. Len(message)
  <2>1. Moves(got, dataStartPtr)
    BY BaseRead, NumberRead
  <2> HIDE DEF got
  <2> QED
    BY <2>1, BaseRead, MovesFrom
<1>3. Moves(found, got.next) /\ found.next \in 0 .. Len(message)
  <2> HIDE DEF got
  <2>1. Moves(found, got.next)
    BY <1>2, BaseRead, NumberRead
  <2> HIDE DEF found
  <2> QED
    BY <1>2, <2>1, LenProperties DEF Moves
<1>4. Moves(time, found.next)
  <2> HIDE DEF got, found
  <2> QED
    BY <1>3, BaseRead, NumberRead
<1> HIDE DEF got, found, time, totals
<1>5. Forward
  BY <1>1, <1>2, <1>3, <1>4, BaseRead, ConsumedThree
<1>6. BufferOK'
  BY <1>1, <1>5, BufferKept DEF BaseInv
<1>7. LoopOK'
  BY <1>1 DEF BaseInv, LoopOK, Stages
<1>8. response' = [field |-> response.field, attribute |-> response.attribute,
                   entry |-> response.entry, word |-> response.word,
                   totals |-> totals, use64bitId |-> response.use64bitId]
  BY <1>1 DEF BaseInv, EntriesInv, Shaped
<1>9. EntriesInv'
  BY <1>1, <1>8, OtherFields DEF HeadStages
<1>10. ListsOK'
  BY <1>8 DEF BaseInv, ListsOK
<1> QED
  BY <1>5, <1>6, <1>7, <1>9, <1>10 DEF BaseInv

LEMMA ReadWordBase ==
    ASSUME BaseInv, ReadWord
    PROVE  Forward /\ BaseInv'
<1> DEFINE word  == GetString(dataStartPtr)
           docs  == Get(word.next, 1, <<Garbage>>)
           hits  == Get(docs.next, 1, <<Garbage>>)
           words == Over(word.value, docs.value \o hits.value, response.word)
<1>1. /\ pc = "words" /\ Consumed(<<word, docs, hits>>) /\ i' = i + 1
      /\ UNCHANGED <<count, j, current, pc, errorStatus, entry, outcome>>
  BY DEF ReadWord
<1>2. Moves(word, dataStartPtr) /\ word.next \in 0 .. Len(message)
  <2>1. Moves(word, dataStartPtr)
    BY BaseRead, GetStringProperties DEF Readable
  <2> HIDE DEF word
  <2> QED
    BY <2>1, BaseRead, MovesFrom
<1>3. Moves(docs, word.next) /\ docs.next \in 0 .. Len(message)
  <2> HIDE DEF word
  <2>1. Moves(docs, word.next)
    BY <1>2, BaseRead, NumberRead
  <2> HIDE DEF docs
  <2> QED
    BY <1>2, <2>1, LenProperties DEF Moves
<1>4. Moves(hits, docs.next)
  <2> HIDE DEF word, docs
  <2> QED
    BY <1>3, BaseRead, NumberRead
<1>5. response' = [response EXCEPT !.word = words]
  <2>1. response' = [response EXCEPT !.word =
                       Over(word.value, docs.value \o hits.value, @)]
    BY DEF ReadWord
  <2> HIDE DEF word, docs, hits
  <2> QED
    BY <2>1 DEF BaseInv, EntriesInv, Shaped
<1> HIDE DEF word, docs, hits, words
<1>6. Forward
  BY <1>1, <1>2, <1>3, <1>4, BaseRead, ConsumedThree
<1>7. BufferOK'
  BY <1>1, <1>6, BufferKept DEF BaseInv
<1>8. LoopOK'
  BY <1>1 DEF BaseInv, LoopOK, Stages
<1>9. response' = [field |-> response.field, attribute |-> response.attribute,
                   entry |-> response.entry, word |-> words,
                   totals |-> response.totals, use64bitId |-> response.use64bitId]
  BY <1>5 DEF BaseInv, EntriesInv, Shaped
<1>10. EntriesInv'
  BY <1>1, <1>9, OtherFields DEF HeadStages
<1>11. ListsOK'
  BY <1>9 DEF BaseInv, ListsOK
<1> QED
  BY <1>6, <1>7, <1>8, <1>10, <1>11 DEF BaseInv

\* The entries.
LEMMA ReadMatchBase ==
    ASSUME BaseInv, ReadMatch
    PROVE  Forward /\ BaseInv'
<1> DEFINE id     == IF response.use64bitId
                     THEN Get(dataStartPtr, 2, EmptyEntry.documentId)
                     ELSE Get(dataStartPtr, 1, <<Garbage>>)
           weight == Get(id.next, 1, EmptyEntry.weight)
<1>1. /\ pc = "matches" /\ pc' = "values" /\ j' = 0 /\ Consumed(<<id, weight>>)
      /\ entry' = [EmptyEntry EXCEPT !.documentId = id.value, !.weight = weight.value]
      /\ UNCHANGED <<count, i, current, errorStatus, response, outcome>>
  BY DEF ReadMatch, Goto
<1>2. Moves(id, dataStartPtr) /\ id.next \in 0 .. Len(message)
  <2>1. /\ Moves(Get(dataStartPtr, 2, EmptyEntry.documentId), dataStartPtr)
        /\ Moves(Get(dataStartPtr, 1, <<Garbage>>), dataStartPtr)
    BY BaseRead, GetProperties DEF Readable
  <2>2. Moves(id, dataStartPtr)
    BY <2>1
  <2> HIDE DEF id
  <2> QED
    BY <2>2, BaseRead, MovesFrom
<1>3. Moves(weight, id.next)
  <2> HIDE DEF id
  <2> QED
    BY <1>2, BaseRead, GetProperties DEF Readable
<1> HIDE DEF id, weight
<1>4. Forward
  BY <1>1, <1>2, <1>3, BaseRead, ConsumedTwo
<1>5. BufferOK'
  BY <1>1, <1>4, BufferKept DEF BaseInv
<1>6. LoopOK'
  BY <1>1 DEF BaseInv, LoopOK, Stages
<1>7. entry' = [documentId |-> id.value, weight |-> weight.value, attribute |-> <<>>]
  BY <1>1 DEF EmptyEntry
<1>8. EntriesInv'
  <2>1. j' <= Len(response.attribute)
    BY <1>1, LenProperties DEF BaseInv, ListsOK
  <2>2. DOMAIN entry'.attribute = {response.attribute[k].name : k \in 1 .. 0}
    BY <1>7
  <2>3. Shaped'
    <3>1. entry' = [documentId |-> entry'.documentId, weight |-> entry'.weight,
                    attribute |-> entry'.attribute]
      BY <1>7
    <3> QED
      BY <1>1, <3>1 DEF BaseInv, EntriesInv, Shaped
  <2> QED
    BY <1>1, <2>1, <2>2, <2>3 DEF BaseInv, EntriesInv, EntriesHaveTheAttributes, HeadStages
<1>9. ListsOK'
  BY <1>1 DEF BaseInv, ListsOK
<1> QED
  BY <1>4, <1>5, <1>6, <1>8, <1>9 DEF BaseInv

LEMMA ReadValueBase ==
    ASSUME BaseInv, ReadValue
    PROVE  Forward /\ BaseInv'
<1> DEFINE attribute == response.attribute[j + 1]
           value     == GetValue(attribute.type)
           map       == Insert(entry.attribute, attribute, value)
<1>1. /\ pc = "values" /\ j < Len(response.attribute) /\ Consumed(<<value>>) /\ j' = j + 1
      /\ UNCHANGED <<count, i, current, pc, errorStatus, response, outcome>>
  BY DEF ReadValue
<1>2. Moves(value, dataStartPtr)
  BY BaseRead, GetValueMoves DEF Readable
<1>3. entry' = [documentId |-> entry.documentId, weight |-> entry.weight, attribute |-> map]
  <2>1. entry' = [entry EXCEPT !.attribute = Insert(@, attribute, value)]
    BY DEF ReadValue
  <2> HIDE DEF attribute, value
  <2> QED
    BY <2>1 DEF BaseInv, EntriesInv, Shaped
<1>4. DOMAIN map = DOMAIN entry.attribute \cup {attribute.name}
  <2> HIDE DEF attribute, value
  <2> QED
    BY DEF Insert, Under
<1> HIDE DEF value, map
<1>5. Forward
  BY <1>1, <1>2, BaseRead, ConsumedOne
<1>6. BufferOK'
  BY <1>1, <1>5, BufferKept DEF BaseInv
<1>7. LoopOK'
  BY <1>1 DEF BaseInv, LoopOK
<1>8. EntriesInv'
  <2>1. j \in Nat /\ Len(response.attribute) \in Nat
    BY LenProperties DEF BaseInv, LoopOK, ListsOK
  <2>2. j + 1 <= Len(response.attribute)
    BY <1>1, <2>1
  <2>3. DOMAIN entry'.attribute = {response.attribute[k].name : k \in 1 .. j + 1}
    <3>1. DOMAIN entry.attribute = {response.attribute[k].name : k \in 1 .. j}
      BY <1>1 DEF BaseInv, EntriesInv
    <3>2. 1 .. j + 1 = 1 .. j \cup {j + 1}
      BY <2>1
    <3>3. DOMAIN entry'.attribute = DOMAIN entry.attribute \cup {response.attribute[j + 1].name}
      BY <1>3, <1>4
    <3> QED
      BY <3>1, <3>2, <3>3
  <2>4. Shaped'
    BY <1>1, <1>3 DEF BaseInv, EntriesInv, Shaped
  <2> QED
    BY <1>1, <2>2, <2>3, <2>4 DEF BaseInv, EntriesInv, EntriesHaveTheAttributes, HeadStages
<1>9. ListsOK'
  BY <1>1 DEF BaseInv, ListsOK
<1> QED
  BY <1>5, <1>6, <1>7, <1>8, <1>9 DEF BaseInv

LEMMA MatchReadBase ==
    ASSUME BaseInv, MatchRead
    PROVE  Forward /\ BaseInv'
<1>1. /\ pc = "values" /\ j = Len(response.attribute) /\ pc' = "matches" /\ i' = i + 1
      /\ UNCHANGED <<message, dataStartPtr, answers, residue, count, j, current, errorStatus>>
      /\ UNCHANGED <<entry, outcome>>
      /\ response' = [response EXCEPT !.entry = Append(@, entry)]
  BY DEF MatchRead, Goto, buffer
<1>2. Len(message) \in Nat /\ dataStartPtr \in 0 .. Len(message) /\ residue \in BOOLEAN
  BY LenProperties DEF BaseInv, BufferOK
<1>3. Forward
  BY <1>1, <1>2 DEF Forward
<1>4. BufferOK'
  BY <1>1, <1>3, BufferKept DEF BaseInv
<1>5. LoopOK'
  BY <1>1 DEF BaseInv, LoopOK, Stages
<1> DEFINE entries == response.entry
           S == {entries[k] : k \in DOMAIN entries}
<1>6. response' = [field |-> response.field, attribute |-> response.attribute,
                   entry |-> Append(entries, entry), word |-> response.word,
                   totals |-> response.totals, use64bitId |-> response.use64bitId]
  BY <1>1 DEF BaseInv, EntriesInv, Shaped
<1>7. entries \in Seq(S)
  BY DEF BaseInv, EntriesInv, Shaped
<1> HIDE DEF entries, S
<1>8. /\ Len(entries) \in Nat /\ DOMAIN entries = 1 .. Len(entries)
      /\ Append(entries, entry) \in Seq(S \cup {entry})
      /\ Len(Append(entries, entry)) = Len(entries) + 1
      /\ \A k \in 1 .. Len(entries) : Append(entries, entry)[k] = entries[k]
      /\ Append(entries, entry)[Len(entries) + 1] = entry
  <2>1. entries \in Seq(S \cup {entry})
    BY <1>7
  <2> QED
    BY <1>7, <2>1, AppendProperties, LenProperties
<1> DEFINE longer == Append(entries, entry)
<1> HIDE DEF longer
<1>9. DOMAIN longer = 1 .. Len(entries) + 1
  BY <1>8, LenProperties DEF longer
<1>10. longer \in Seq({longer[k] : k \in DOMAIN longer})
  BY <1>8, <1>9, IsASeq DEF longer
<1>11. EntriesHaveTheAttributes'
  <2>1. \A k \in 1 .. Len(entries) : DOMAIN entries[k].attribute = Names(response.attribute)
    BY <1>8 DEF BaseInv, EntriesInv, EntriesHaveTheAttributes, entries
  <2>2. DOMAIN entry.attribute = Names(response.attribute)
    <3>1. DOMAIN response.attribute = 1 .. Len(response.attribute)
      BY LenProperties DEF BaseInv, ListsOK
    <3> QED
      BY <1>1, <3>1 DEF BaseInv, EntriesInv, Names
  <2>3. ASSUME NEW k \in 1 .. Len(entries) + 1
        PROVE  DOMAIN longer[k].attribute = Names(response.attribute)
    <3>1. CASE k = Len(entries) + 1
      BY <1>8, <2>2, <3>1 DEF longer
    <3>2. CASE k # Len(entries) + 1
      <4>1. k \in 1 .. Len(entries)
        BY <1>8, <3>2
      <4> QED
        BY <1>8, <2>1, <4>1 DEF longer
    <3> QED
      BY <3>1, <3>2
  <2> QED
    BY <1>6, <1>9, <2>3 DEF EntriesHaveTheAttributes, longer
<1>12. Shaped'
  <2>1. response'.entry = longer
    BY <1>6 DEF longer
  <2>2. response'.entry \in Seq({response'.entry[k] : k \in DOMAIN response'.entry})
    BY <1>10, <2>1
  <2>3. response' = [field |-> response'.field, attribute |-> response'.attribute,
                     entry |-> response'.entry, word |-> response'.word,
                     totals |-> response'.totals, use64bitId |-> response'.use64bitId]
    BY <1>6
  <2> QED
    BY <1>1, <2>2, <2>3 DEF BaseInv, EntriesInv, Shaped
<1>13. EntriesInv'
  BY <1>1, <1>11, <1>12 DEF EntriesInv, HeadStages
<1>14. ListsOK'
  BY <1>6 DEF BaseInv, ListsOK
<1> QED
  BY <1>3, <1>4, <1>5, <1>13, <1>14 DEF BaseInv

LEMMA BaseStep ==
    ASSUME BaseInv, [Next]_vars
    PROVE  Forward /\ BaseInv'
<1>1. CASE Next
  BY <1>1, ReadStatusBase, ReadDescriptionBase, CountsBase, ReadFieldBase, ReadAttributeBase,
     ReadIdWidthBase, ReadMatchBase, ReadValueBase, MatchReadBase, ReadTotalsBase,
     ReadWordBase, StillBase, NextAnswerBase DEF Next
<1>2. CASE UNCHANGED vars
  BY <1>2, StillBase
<1> QED
  BY <1>1, <1>2

LEMMA BaseInit ==
    ASSUME Init
    PROVE  BaseInv
<1>1. /\ answers \in AnswerLists /\ current = 1 /\ dataStartPtr = 0 /\ residue = FALSE
      /\ pc = "status" /\ errorStatus = Garbage /\ count = 0 /\ i = 0 /\ j = 0
      /\ entry = EmptyEntry /\ response = EmptyResponse /\ outcome = "none"
  BY DEF Init
<1>2. message \in Seq(Nat) /\ Len(message) \in Nat
  BY MessageInit, LenProperties DEF Message
<1>3. current \in DOMAIN answers
  BY <1>1, ProperAnswers
<1>4. BufferOK
  <2>1. 0 \in 0 .. Len(message)
    BY <1>2
  <2> QED
    BY <1>1, <1>2, <1>3, <2>1 DEF BufferOK
<1>5. LoopOK
  BY <1>1 DEF LoopOK, Stages, Garbage
<1>6. ListsOK
  BY <1>1 DEF ListsOK, EmptyResponse
<1>7. EntriesInv
  BY <1>1 DEF EntriesInv, Shaped, EntriesHaveTheAttributes, EmptyResponse, EmptyEntry
<1> QED
  BY <1>4, <1>5, <1>6, <1>7 DEF BaseInv

LEMMA BaseHolds == Spec => []BaseInv
<1>1. BaseInv /\ [Next]_vars => BaseInv'
  BY BaseStep
<1> QED
  BY BaseInit, <1>1, PTL DEF Spec

\* The variables keep their types, the place stays inside of the message, and
\* no loop of the parser has a negative bound.
THEOREM ParserTypes == Spec => []TypeOK
<1>1. BaseInv => TypeOK
  BY TypeParts DEF BaseInv
<1> QED
  BY BaseHolds, <1>1, PTL

\* Each match of a response has the attributes the response names, for every
\* answer, every cut and every value of the counters that were not read.
THEOREM MatchesHaveTheAttributes == Spec => []EntriesHaveTheAttributes
<1>1. BaseInv => EntriesHaveTheAttributes
  BY DEF BaseInv, EntriesInv
<1> QED
  BY BaseHolds, <1>1, PTL

-----------------------------------------------------------------------------
(* In step: reads that find what they are for *)

\* These words come next in the message, whose answer ends with them.
Then(rest) == dataStartPtr' + Len(rest) = Ends[current] /\ Stands(dataStartPtr', rest)

\* The message ends before these last words of the answer.
Fell(rest) == Failed /\ Len(message) + Len(rest) < Ends[current]

LEMMA Here ==
    ASSUME BufferOK
    PROVE  /\ Proper(Answer) /\ current \in 1 .. Len(answers)
           /\ Len(message) \in Nat /\ dataStartPtr \in Nat /\ dataStartPtr <= Len(message)
           /\ Ends[current] \in Nat /\ Ends[current - 1] \in Nat
           /\ Ends[current] = Ends[current - 1] + Len(Encode(Answer))
           /\ HeadEnd \in Nat /\ Len(EncodeTail(Answer)) \in Nat
           /\ Ends[current] = HeadEnd + Len(EncodeTail(Answer))
<1>1. /\ current \in 1 .. Len(answers) /\ Len(answers) \in Nat /\ answers \in AnswerLists
  BY ProperAnswers DEF BufferOK
<1>2. Proper(Answer)
  BY <1>1, ProperAnswers DEF Answer
<1>3. Len(message) \in Nat /\ dataStartPtr \in Nat /\ dataStartPtr <= Len(message)
  BY LenProperties DEF BufferOK
<1>4. current \in 0 .. Len(answers) /\ current - 1 \in 0 .. Len(answers)
  BY <1>1
<1>5. /\ Ends[current] \in Nat /\ Ends[current - 1] \in Nat
      /\ Ends[current] = Ends[current - 1] + Len(Encode(Answer))
  BY <1>1, <1>4, EndsProperties DEF Answer
<1>6. /\ Len(EncodeHead(Answer)) \in Nat /\ Len(EncodeTail(Answer)) \in Nat
      /\ Len(Encode(Answer)) = Len(EncodeHead(Answer)) + Len(EncodeTail(Answer))
  BY <1>2, AnswerOnward, MatchesOnward, LenProperties
<1> QED
  BY <1>1, <1>2, <1>3, <1>5, <1>6 DEF HeadEnd

LEMMA ComesParts ==
    ASSUME BufferOK, NEW words \in Seq(Nat), NEW rest \in Seq(Nat), Comes(words \o rest)
    PROVE  /\ Stands(dataStartPtr, words)
           /\ Stands(dataStartPtr + Len(words), rest)
           /\ dataStartPtr + Len(words) + Len(rest) = Ends[current]
           /\ Len(words) \in Nat /\ Len(rest) \in Nat
<1>1. Len(words) \in Nat /\ Len(rest) \in Nat /\ Len(words \o rest) = Len(words) + Len(rest)
  BY LenProperties, ConcatProperties
<1>2. dataStartPtr \in Nat /\ Message
  BY Here DEF BufferOK, Message
<1>3. Stands(dataStartPtr, words \o rest) /\ dataStartPtr + Len(words \o rest) = Ends[current]
  BY DEF Comes
<1>4. Stands(dataStartPtr, words) /\ Stands(dataStartPtr + Len(words), rest)
  BY <1>2, <1>3, StandsParts
<1> QED
  BY <1>1, <1>2, <1>3, <1>4

LEMMA NextNumber ==
    ASSUME BufferOK, NEW at \in 0 .. Len(message), NEW u \in Nat, Stands(at, <<u>>), NEW old
    PROVE  Gives(Get(at, 1, old), at, 1, <<u>>)
<1>1. <<u>> \in Seq(Nat) /\ Len(<<u>>) = 1
  OBVIOUS
<1> QED
  BY <1>1, GetGives DEF BufferOK, Message

LEMMA TakeOne ==
    ASSUME BufferOK, NEW words \in Seq(Nat), NEW rest \in Seq(Nat), Comes(words \o rest),
           NEW r, NEW value, Gives(r, dataStartPtr, Len(words), value), Consumed(<<r>>)
    PROVE  /\ Forward
           /\ \/ r.ok /\ r.value = value /\ Then(rest) /\ residue' = residue
              \/ ~r.ok /\ Fell(rest)
<1>1. /\ Forward /\ dataStartPtr' = r.next
      /\ (~r.ok => Failed) /\ (r.ok => residue' = residue)
  BY BufferRead, ConsumedOne DEF Gives
<1>2. /\ Stands(dataStartPtr + Len(words), rest)
      /\ dataStartPtr + Len(words) + Len(rest) = Ends[current]
      /\ Len(words) \in Nat /\ Len(rest) \in Nat /\ Len(message) \in Nat /\ dataStartPtr \in Nat
  BY ComesParts, Here
<1>3. CASE r.ok
  BY <1>1, <1>2, <1>3 DEF Gives, Then
<1>4. CASE ~r.ok
  <2>1. ~(dataStartPtr + Len(words) <= Len(message))
    BY <1>4 DEF Gives
  <2>2. Len(message) + Len(rest) < Ends[current]
    BY <1>2, <2>1
  <2> QED
    BY <1>1, <1>4, <2>2 DEF Fell
<1> QED
  BY <1>1, <1>3, <1>4

LEMMA TakeTwo ==
    ASSUME BufferOK, NEW words \in Seq(Nat), NEW u \in Nat, NEW rest \in Seq(Nat),
           Comes(words \o (<<u>> \o rest)),
           NEW r, NEW value, Gives(r, dataStartPtr, Len(words), value),
           NEW old, Consumed(<<r, Get(r.next, 1, old)>>)
    PROVE  /\ Forward
           /\ \/ r.value = value /\ Get(r.next, 1, old).value = <<u>> /\ Then(rest)
              \/ Fell(rest)
<1> DEFINE s == Get(r.next, 1, old)
           t == <<u>> \o rest
<1>1. <<u>> \in Seq(Nat) /\ Len(<<u>>) = 1
  OBVIOUS
<1>2. t \in Seq(Nat) /\ Len(t) = 1 + Len(rest)
  BY <1>1, ConcatProperties
<1>3. /\ Stands(dataStartPtr + Len(words), t)
      /\ dataStartPtr + Len(words) + Len(t) = Ends[current] /\ Len(words) \in Nat
  <2> HIDE DEF t
  <2>1. Comes(words \o t)
    BY DEF t
  <2> QED
    BY <1>2, <2>1, ComesParts
<1>4. Len(rest) \in Nat /\ Len(message) \in Nat /\ dataStartPtr \in Nat /\ Message
  BY Here, LenProperties DEF BufferOK, Message
<1>5. /\ Stands(dataStartPtr + Len(words), <<u>>)
      /\ Stands(dataStartPtr + Len(words) + 1, rest)
  <2>1. dataStartPtr + Len(words) \in Nat
    BY <1>3, <1>4
  <2> QED
    BY <1>1, <1>3, <1>4, <2>1, StandsParts
<1>6. Moves(r, dataStartPtr) /\ r.next \in 0 .. Len(message)
  BY BufferRead, MovesFrom DEF Gives
<1>7. Moves(s, r.next)
  BY <1>6, BufferRead, GetProperties DEF Readable
<1>8. r.ok => Gives(s, r.next, 1, <<u>>) /\ r.next = dataStartPtr + Len(words) /\ r.value = value
  BY <1>5, <1>6, NextNumber DEF Gives
<1> HIDE DEF s, t
<1>9. /\ Forward /\ dataStartPtr' = s.next /\ (~r.ok \/ ~s.ok => Failed)
  BY <1>6, <1>7, BufferRead, ConsumedTwo DEF s
<1>10. CASE r.ok /\ s.ok
  <2>1. s.next = dataStartPtr + Len(words) + 1 /\ s.value = <<u>> /\ r.value = value
    BY <1>8, <1>10 DEF Gives
  <2>2. s.next + Len(rest) = Ends[current]
    BY <1>2, <1>3, <1>4, <2>1
  <2> QED
    BY <1>5, <1>9, <2>1, <2>2 DEF Then, s
<1>11. CASE ~r.ok
  <2>1. ~(dataStartPtr + Len(words) <= Len(message))
    BY <1>11 DEF Gives
  <2>2. Len(message) + Len(rest) < Ends[current]
    BY <1>2, <1>3, <1>4, <2>1
  <2> QED
    BY <1>9, <1>11, <2>2 DEF Fell
<1>12. CASE r.ok /\ ~s.ok
  <2>1. ~(dataStartPtr + Len(words) + 1 <= Len(message))
    BY <1>8, <1>12 DEF Gives
  <2>2. Len(message) + Len(rest) < Ends[current]
    BY <1>2, <1>3, <1>4, <2>1
  <2> QED
    BY <1>9, <1>12, <2>2 DEF Fell
<1> QED
  BY <1>10, <1>11, <1>12

\* Three reads: of a value, and of two numbers.
Three(words, u, v, rest, value, r, s, t) ==
    /\ words \in Seq(Nat) /\ u \in Nat /\ v \in Nat /\ rest \in Seq(Nat)
    /\ Comes(words \o (<<u>> \o (<<v>> \o rest)))
    /\ Gives(r, dataStartPtr, Len(words), value)
    /\ \E old : s = Get(r.next, 1, old)
    /\ \E old : t = Get(s.next, 1, old)
    /\ Consumed(<<r, s, t>>)

LEMMA TakeThree ==
    ASSUME BufferOK, NEW words, NEW u, NEW v, NEW rest, NEW value, NEW r, NEW s, NEW t,
           Three(words, u, v, rest, value, r, s, t)
    PROVE  /\ Forward
           /\ \/ r.value = value /\ s.value = <<u>> /\ t.value = <<v>> /\ Then(rest)
              \/ Fell(rest)
<1> /\ words \in Seq(Nat) /\ u \in Nat /\ v \in Nat /\ rest \in Seq(Nat)
    /\ Comes(words \o (<<u>> \o (<<v>> \o rest)))
    /\ Gives(r, dataStartPtr, Len(words), value)
    /\ Consumed(<<r, s, t>>)
  BY DEF Three
<1> PICK old : s = Get(r.next, 1, old)
  BY DEF Three
<1> PICK older : t = Get(s.next, 1, older)
  BY DEF Three
<1> DEFINE last == <<v>> \o rest
           mid  == <<u>> \o last
<1>1. /\ <<u>> \in Seq(Nat) /\ Len(<<u>>) = 1
      /\ <<v>> \in Seq(Nat) /\ Len(<<v>>) = 1
  OBVIOUS
<1>2. last \in Seq(Nat) /\ Len(last) = 1 + Len(rest)
  BY <1>1, ConcatProperties
<1>3. mid \in Seq(Nat) /\ Len(mid) = 1 + Len(last)
  <2> HIDE DEF last
  <2> QED
    BY <1>1, <1>2, ConcatProperties
<1>4. /\ Stands(dataStartPtr + Len(words), mid)
      /\ dataStartPtr + Len(words) + Len(mid) = Ends[current] /\ Len(words) \in Nat
  <2> HIDE DEF mid
  <2>1. Comes(words \o mid)
    BY DEF mid
  <2> QED
    BY <1>3, <2>1, ComesParts
<1>5. Len(rest) \in Nat /\ Len(message) \in Nat /\ dataStartPtr \in Nat /\ Message
  BY Here, LenProperties DEF BufferOK, Message
<1>6. /\ Stands(dataStartPtr + Len(words), <<u>>)
      /\ Stands(dataStartPtr + Len(words) + 1, last)
  <2> HIDE DEF last
  <2>1. dataStartPtr + Len(words) \in Nat
    BY <1>4, <1>5
  <2> QED
    BY <1>1, <1>2, <1>4, <1>5, <2>1, StandsParts
<1>7. /\ Stands(dataStartPtr + Len(words) + 1, <<v>>)
      /\ Stands(dataStartPtr + Len(words) + 1 + 1, rest)
  <2>1. dataStartPtr + Len(words) + 1 \in Nat
    BY <1>4, <1>5
  <2> QED
    BY <1>1, <1>5, <1>6, <2>1, StandsParts
<1>8. Moves(r, dataStartPtr) /\ r.next \in 0 .. Len(message)
  BY BufferRead, MovesFrom DEF Gives
<1>9. Moves(s, r.next)
  BY <1>8, BufferRead, GetProperties DEF Readable
<1>10. s.next \in 0 .. Len(message)
  BY <1>8, <1>9, <1>5 DEF Moves
<1>11. Moves(t, s.next)
  BY <1>10, BufferRead, GetProperties DEF Readable
<1>12. r.ok => Gives(s, r.next, 1, <<u>>) /\ r.next = dataStartPtr + Len(words) /\ r.value = value
  BY <1>6, <1>8, NextNumber DEF Gives
<1>13. r.ok /\ s.ok => Gives(t, s.next, 1, <<v>>) /\ s.next = dataStartPtr + Len(words) + 1
                       /\ s.value = <<u>>
  BY <1>7, <1>10, <1>12, NextNumber DEF Gives
<1> HIDE DEF last, mid
<1>14. Forward /\ dataStartPtr' = t.next /\ (~r.ok \/ ~s.ok \/ ~t.ok => Failed)
  BY <1>8, <1>9, <1>11, BufferRead, ConsumedThree
<1>15. CASE r.ok /\ s.ok /\ t.ok
  <2>1. t.next = dataStartPtr + Len(words) + 1 + 1 /\ t.value = <<v>>
    BY <1>13, <1>15 DEF Gives
  <2>2. t.next + Len(rest) = Ends[current]
    <3>1. dataStartPtr + Len(words) + 1 + 1 + Len(rest) = Ends[current]
      BY <1>2, <1>3, <1>4, <1>5
    <3> QED
      BY <2>1, <3>1
  <2> QED
    BY <1>7, <1>12, <1>13, <1>14, <1>15, <2>1, <2>2 DEF Then
<1>16. ASSUME ~r.ok \/ ~s.ok \/ ~t.ok
       PROVE  Len(message) + Len(rest) < Ends[current]
  <2>1. ~(dataStartPtr + Len(words) + 1 + 1 <= Len(message))
    <3>1. CASE ~r.ok
      <4>1. ~(dataStartPtr + Len(words) <= Len(message))
        BY <3>1 DEF Gives
      <4> QED
        BY <1>4, <1>5, <4>1
    <3>2. CASE r.ok /\ ~s.ok
      <4>1. ~(dataStartPtr + Len(words) + 1 <= Len(message))
        BY <1>12, <3>2 DEF Gives
      <4> QED
        BY <1>4, <1>5, <4>1
    <3>3. CASE r.ok /\ s.ok /\ ~t.ok
      BY <1>13, <3>3 DEF Gives
    <3> QED
      BY <1>16, <3>1, <3>2, <3>3
  <2> QED
    BY <1>2, <1>3, <1>4, <1>5, <2>1
<1> QED
  BY <1>14, <1>15, <1>16 DEF Fell

-----------------------------------------------------------------------------
(* In step or off *)

LEMMA AnswerKept ==
    ASSUME Forward, UNCHANGED current
    PROVE  /\ Answer' = Answer /\ Ends'[current'] = Ends[current] /\ HeadEnd' = HeadEnd
           /\ message' = message
<1>1. answers' = answers /\ message' = message
  BY DEF Forward
<1>2. Ends' = Ends
  BY <1>1, EndsKept
<1> QED
  BY <1>1, <1>2 DEF Answer, HeadEnd

LEMMA ThenComes ==
    ASSUME Forward, UNCHANGED current, NEW rest, Then(rest)
    PROVE  /\ dataStartPtr' + Len(rest) = Ends'[current']
           /\ \A m \in 1 .. Len(rest) :
                dataStartPtr' + m <= Len(message') => message'[dataStartPtr' + m] = rest[m]
  BY AnswerKept DEF Then, Stands

LEMMA FallsOff ==
    ASSUME BufferOK, Forward, UNCHANGED current, NEW rest \in Seq(Nat), Fell(rest),
           pc' \in HeadStages => Len(EncodeTail(Answer)) <= Len(rest)
    PROVE  Off'
<1>1. Len(rest) \in Nat
  BY LenProperties
<1>2. Len(message) < Ends[current]
  BY <1>1, Here DEF Fell
<1>3. pc' \in HeadStages => Len(message) < HeadEnd
  BY <1>1, Here DEF Fell
<1> QED
  BY <1>2, <1>3, AnswerKept DEF Off, Fell, Failed

LEMMA OffStays ==
    ASSUME BufferOK, Off, Forward, UNCHANGED current, pc' \in HeadStages => pc \in HeadStages
    PROVE  Off'
<1>1. dataStartPtr = Len(message) => dataStartPtr' = Len(message)
  BY Here DEF Forward
<1>2. residue \/ dataStartPtr = Len(message)
  BY DEF Off
<1>3. residue' \/ dataStartPtr' = Len(message)
  BY <1>1, <1>2 DEF Forward
<1>4. pc' \in HeadStages /\ ~residue' => Len(message) < HeadEnd
  BY DEF Off, Forward
<1> QED
  BY <1>3, <1>4, AnswerKept DEF Off

LEMMA HeadLengths ==
    ASSUME NEW answer, Proper(answer)
    PROVE  /\ Len(EncodeTail(answer)) <= Len(MatchCountOn(answer))
           /\ \A k \in 0 .. Len(answer.attributes) :
                Len(EncodeTail(answer)) <= Len(AttributesOn(answer, k))
           /\ Len(EncodeTail(answer)) <= Len(AttrCountOn(answer))
           /\ \A k \in 0 .. Len(answer.fields) :
                Len(EncodeTail(answer)) <= Len(FieldsOn(answer, k))
           /\ Len(EncodeTail(answer)) <= Len(FieldCountOn(answer))
<1> DEFINE tail == EncodeTail(answer)
<1>1. tail \in Seq(Nat) /\ Len(tail) \in Nat
  BY MatchesOnward, LenProperties
<1>2. \A s, t \in Seq(Nat) : Len(tail) <= Len(t) => Len(tail) <= Len(s \o t)
  <2> HIDE DEF tail
  <2> TAKE s, t \in Seq(Nat)
  <2> QED
    BY <1>1, ConcatProperties, LenProperties
<1>3. Len(tail) <= Len(MatchCountOn(answer)) /\ MatchCountOn(answer) \in Seq(Nat)
  <2>1. Len(answer.matches) \in Nat /\ MatchCountOn(answer) = <<Len(answer.matches)>> \o tail
    BY AnswerTyped, LenProperties DEF MatchCountOn
  <2>2. <<Len(answer.matches)>> \in Seq(Nat) /\ Len(tail) <= Len(tail)
    BY <1>1, <2>1
  <2> HIDE DEF tail
  <2> QED
    BY <1>1, <1>2, <2>1, <2>2, AttributesOnward
<1>4. FieldWords(answer) \in Seq(Seq(Nat)) /\ AttributeWords(answer) \in Seq(Seq(Nat))
      /\ Len(FieldWords(answer)) = Len(answer.fields)
      /\ Len(AttributeWords(answer)) = Len(answer.attributes)
  BY WordsTyped
<1> HIDE DEF tail
<1>5. \A k \in 0 .. Len(answer.attributes) : Len(tail) <= Len(AttributesOn(answer, k))
  <2>1. \A k \in 0 .. Len(answer.attributes) :
          FlattenSeq(Rest(AttributeWords(answer), k)) \in Seq(Nat)
    BY <1>4, JoinedRest
  <2> QED
    BY <1>2, <1>3, <2>1 DEF AttributesOn
<1>6. Len(tail) <= Len(AttrCountOn(answer)) /\ AttrCountOn(answer) \in Seq(Nat)
  <2>1. EncodeAttributes(answer.attributes) \in Seq(Nat)
    <3>1. EncodeAttributes(answer.attributes) = EncodeList(AttributeWords(answer))
      BY DEF EncodeAttributes, AttributeWords
    <3> QED
      BY <1>4, <3>1, ListTyped
  <2> QED
    BY <1>2, <1>3, <2>1, AttributesOnward DEF AttrCountOn
<1>7. \A k \in 0 .. Len(answer.fields) : Len(tail) <= Len(FieldsOn(answer, k))
  <2>1. \A k \in 0 .. Len(answer.fields) : FlattenSeq(Rest(FieldWords(answer), k)) \in Seq(Nat)
    BY <1>4, JoinedRest
  <2> QED
    BY <1>2, <1>6, <2>1 DEF FieldsOn
<1>8. Len(tail) <= Len(FieldCountOn(answer))
  <2>1. CASE answer.status = SEARCHD_ERROR
    BY <2>1 DEF tail, EncodeTail, FieldCountOn
  <2>2. CASE answer.status # SEARCHD_ERROR
    <3>1. EncodeFields(answer.fields) = EncodeList(FieldWords(answer))
      BY DEF EncodeFields, FieldWords
    <3>2. EncodeFields(answer.fields) \in Seq(Nat)
      BY <1>4, <3>1, ListTyped
    <3> QED
      BY <1>2, <1>6, <2>2, <3>2 DEF FieldCountOn
  <2> QED
    BY <2>1, <2>2
<1> QED
  BY <1>3, <1>5, <1>6, <1>7, <1>8 DEF tail

-----------------------------------------------------------------------------
(* The response as it grows *)

LEMMA FirstGrows ==
    ASSUME NEW s, NEW k \in Nat
    PROVE  Append(First(s, k), s[k + 1]) = First(s, k + 1)
<1> DEFINE S == {s[m] : m \in 1 .. k + 1}
           shorter == First(s, k)
           longer  == First(s, k + 1)
<1>1. shorter \in Seq(S) /\ Len(shorter) = k /\ \A m \in 1 .. k : shorter[m] = s[m]
  <2>1. \A m \in 1 .. k : m \in 1 .. k + 1
    OBVIOUS
  <2>2. \A m \in 1 .. k : s[m] \in S
    BY <2>1
  <2> HIDE DEF S
  <2> QED
    BY <2>2, IsASeq DEF First
<1>2. longer \in Seq(S) /\ Len(longer) = k + 1 /\ \A m \in 1 .. k + 1 : longer[m] = s[m]
  <2>1. \A m \in 1 .. k + 1 : s[m] \in S
    OBVIOUS
  <2> HIDE DEF S
  <2> QED
    BY <2>1, IsASeq DEF First
<1>3. s[k + 1] \in S
  OBVIOUS
<1> HIDE DEF S, shorter, longer
<1> DEFINE e == s[k + 1]
           appended == Append(shorter, e)
<1>4. e \in S
  BY <1>3
<1>5. \A m \in 1 .. k + 1 : longer[m] = IF m = k + 1 THEN e ELSE s[m]
  BY <1>2
<1> HIDE DEF e
<1>6. /\ appended \in Seq(S) /\ Len(appended) = k + 1
      /\ \A m \in 1 .. k : appended[m] = shorter[m]
      /\ appended[k + 1] = e
  BY <1>1, <1>4, AppendProperties
<1>7. \A m \in 1 .. k + 1 : appended[m] = longer[m]
  <2> TAKE m \in 1 .. k + 1
  <2>1. CASE m = k + 1
    <3> HIDE DEF appended
    <3> QED
      BY <1>5, <1>6, <2>1
  <2>2. CASE m # k + 1
    <3>1. m \in 1 .. k
      BY <2>2
    <3> HIDE DEF appended
    <3> QED
      BY <1>1, <1>2, <1>6, <3>1
  <2> QED
    BY <2>1, <2>2
<1> HIDE DEF appended
<1>8. appended = longer
  BY <1>2, <1>6, <1>7, SeqEqual
<1> QED
  BY <1>8 DEF appended, shorter, longer, e

LEMMA FirstEnds ==
    ASSUME NEW S, NEW s \in Seq(S)
    PROVE  First(s, Len(s)) = s /\ First(s, 0) = <<>>
<1>1. s = [m \in 1 .. Len(s) |-> s[m]]
  OBVIOUS
<1>2. [m \in 1 .. 0 |-> s[m]] = <<>>
  OBVIOUS
<1> QED
  BY <1>1, <1>2 DEF First

\* The values of the attributes, one after another.
LEMMA ValuesGrow ==
    ASSUME NEW answer, Proper(answer), NEW n \in 1 .. Len(answer.matches)
    PROVE  LET match == answer.matches[n]
               given == AnsweredEntry(answer, match).attribute
           IN /\ ValuesGiven(answer, match, 0) = <<>>
              /\ ValuesGiven(answer, match, Len(answer.attributes)) = given
              /\ \A k \in 0 .. Len(answer.attributes) - 1 :
                   ValuesGiven(answer, match, k + 1)
                     = Under(answer.attributes[k + 1].name,
                             [tag |-> Tag(answer.attributes[k + 1].type),
                              words |-> match.values[k + 1]],
                             ValuesGiven(answer, match, k))
<1> DEFINE match == answer.matches[n]
           attributes == answer.attributes
           m == Len(attributes)
           given == AnsweredEntry(answer, match).attribute
           value(k) == [tag |-> Tag(attributes[k].type), words |-> match.values[k]]
<1>1. m \in Nat /\ DOMAIN attributes = 1 .. m
  BY AnswerTyped, LenProperties
<1>2. \A k, l \in 1 .. m : attributes[k].name = attributes[l].name => k = l
  BY <1>1 DEF Proper, Wellformed
<1>3. DOMAIN given = {attributes[k].name : k \in 1 .. m}
  BY <1>1 DEF AnsweredEntry, Names
<1>4. ASSUME NEW k \in 1 .. m
      PROVE  given[attributes[k].name] = value(k)
  <2> DEFINE at == CHOOSE l \in DOMAIN attributes : attributes[l].name = attributes[k].name
  <2>1. at = k
    <3>1. at \in 1 .. m /\ attributes[at].name = attributes[k].name
      BY <1>1
    <3> HIDE DEF at
    <3> QED
      BY <1>2, <3>1
  <2>2. attributes[k].name \in Names(attributes)
    BY <1>1 DEF Names
  <2>3. given[attributes[k].name] = value(at)
    BY <2>2 DEF AnsweredEntry
  <2> QED
    BY <2>1, <2>3
<1> HIDE DEF match, attributes, m, given
<1>5. ASSUME NEW k \in 0 .. m
      PROVE  ValuesGiven(answer, match, k)
               = [name \in {attributes[l].name : l \in 1 .. k} |-> given[name]]
  BY DEF ValuesGiven, attributes, given
<1>6. ValuesGiven(answer, match, 0) = <<>>
  <2>1. 0 \in 0 .. m /\ {attributes[l].name : l \in 1 .. 0} = {}
    BY <1>1
  <2>2. ValuesGiven(answer, match, 0) = [name \in {} |-> given[name]]
    BY <1>5, <2>1
  <2>3. [name \in {} |-> given[name]] = <<>>
    OBVIOUS
  <2> QED
    BY <2>2, <2>3
<1>7. ValuesGiven(answer, match, m) = given
  <2>1. m \in 0 .. m
    BY <1>1
  <2>2. given = [name \in DOMAIN given |-> given[name]]
    BY DEF given, AnsweredEntry
  <2> QED
    BY <1>3, <1>5, <2>1, <2>2
<1>8. ASSUME NEW k \in 0 .. m - 1
      PROVE  ValuesGiven(answer, match, k + 1)
               = Under(attributes[k + 1].name, value(k + 1), ValuesGiven(answer, match, k))
  <2> DEFINE name == attributes[k + 1].name
             old  == {attributes[l].name : l \in 1 .. k}
             new  == {attributes[l].name : l \in 1 .. k + 1}
             map  == ValuesGiven(answer, match, k)
  <2>1. k + 1 \in 0 .. m /\ k \in 0 .. m /\ k + 1 \in 1 .. m /\ 1 .. k + 1 = 1 .. k \cup {k + 1}
        /\ k + 1 \notin 1 .. k /\ \A l \in 1 .. k : l \in 1 .. m
    BY <1>1
  <2>2. new = old \cup {name}
    BY <2>1
  <2>3. name \notin old
    BY <1>2, <2>1
  <2>4. map = [key \in old |-> given[key]]
    BY <1>5, <2>1
  <2>5. ValuesGiven(answer, match, k + 1) = [key \in new |-> given[key]]
    BY <1>5, <2>1
  <2>6. given[name] = value(k + 1)
    BY <1>4, <2>1
  <2> DEFINE v == value(k + 1)
  <2> HIDE DEF name, old, new, map, v
  <2>7. Under(name, v, map) = [key \in old \cup {name} |-> IF key \in old THEN map[key] ELSE v]
    BY <2>4 DEF Under
  <2>8. \A key \in old \cup {name} : given[key] = IF key \in old THEN map[key] ELSE v
    BY <2>3, <2>4, <2>6 DEF v
  <2>9. ValuesGiven(answer, match, k + 1) = Under(name, v, map)
    BY <2>2, <2>5, <2>7, <2>8
  <2> QED
    BY <2>9 DEF name, v, map
<1> QED
  BY <1>6, <1>7, <1>8 DEF match, attributes, m, given

\* Of the places at which a word stands one is the last.
LEMMA LastExists ==
    ASSUME NEW words, NEW n \in Nat, DOMAIN words = 1 .. n, NEW m \in 1 .. n
    PROVE  LET last == LastOf(words, words[m].word)
           IN /\ last \in 1 .. n /\ words[last].word = words[m].word
              /\ \A l \in 1 .. n : words[l].word = words[m].word => l <= last
<1> DEFINE word == words[m].word
           T == {n - l : l \in {l \in 1 .. n : words[l].word = word}}
<1>1. T \in SUBSET Nat /\ n - m \in T
  OBVIOUS
<1>2. PICK t \in T : \A u \in T : t <= u
  BY <1>1, LeastExists
<1>3. PICK l \in 1 .. n : words[l].word = word /\ t = n - l
  BY <1>2
<1>4. \A q \in 1 .. n : words[q].word = word => q <= l
  <2> TAKE q \in 1 .. n
  <2> HAVE words[q].word = word
  <2>1. n - q \in T
    OBVIOUS
  <2>2. n - l <= n - q
    BY <1>2, <1>3, <2>1
  <2> QED
    BY <2>2
<1> HIDE DEF T
<1>5. \E k \in DOMAIN words :
        words[k].word = word /\ \A q \in DOMAIN words : words[q].word = word => q <= k
  BY <1>3, <1>4
<1> HIDE DEF word
<1>6. LET last == LastOf(words, word)
      IN last \in DOMAIN words /\ words[last].word = word
         /\ \A q \in DOMAIN words : words[q].word = word => q <= last
  BY <1>5 DEF LastOf
<1> QED
  BY <1>6 DEF word

\* The statistics of a word more.
LEMMA StatisticsGrow ==
    ASSUME NEW words, NEW k \in Nat
    PROVE  Statistics(First(words, k + 1))
             = Over(words[k + 1].word, <<words[k + 1].docs, words[k + 1].hits>>,
                    Statistics(First(words, k)))
<1> DEFINE f == First(words, k)
           g == First(words, k + 1)
           new == words[k + 1].word
           S(h) == {h[m].word : m \in DOMAIN h}
           at(h, w) == h[LastOf(h, w)]
<1>1. /\ DOMAIN f = 1 .. k /\ \A m \in 1 .. k : f[m] = words[m]
      /\ DOMAIN g = 1 .. k + 1 /\ \A m \in 1 .. k + 1 : g[m] = words[m]
      /\ k + 1 \in Nat /\ \A m \in 1 .. k : m \in 1 .. k + 1
      /\ \A m \in 1 .. k + 1 : m # k + 1 => m \in 1 .. k
      /\ k + 1 \in 1 .. k + 1
  BY DEF First
<1> HIDE DEF f, g, new
<1>2. S(g) = S(f) \cup {new}
  BY <1>1 DEF new
<1>3. at(g, new) = words[k + 1]
  <2> DEFINE last == LastOf(g, new)
  <2>1. g[k + 1].word = new
    BY <1>1 DEF new
  <2>2. last \in 1 .. k + 1 /\ k + 1 <= last
    BY <1>1, <2>1, LastExists
  <2> HIDE DEF last
  <2>3. last = k + 1
    BY <2>2
  <2> QED
    BY <1>1, <2>3 DEF last
<1>4. ASSUME NEW w \in S(g), w # new
      PROVE  w \in S(f) /\ at(g, w) = at(f, w)
  <2>1. PICK m \in 1 .. k : words[m].word = w
    BY <1>1, <1>4 DEF new
  <2> DEFINE a == LastOf(f, w)
             b == LastOf(g, w)
  <2>2. a \in 1 .. k /\ words[a].word = w /\ \A l \in 1 .. k : words[l].word = w => l <= a
    <3>1. f[m].word = w
      BY <1>1, <2>1
    <3>2. a \in 1 .. k /\ f[a].word = w /\ \A l \in 1 .. k : f[l].word = w => l <= a
      BY <1>1, <3>1, LastExists
    <3> HIDE DEF a
    <3> QED
      BY <1>1, <3>2
  <2>3. b \in 1 .. k + 1 /\ words[b].word = w /\ \A l \in 1 .. k + 1 : words[l].word = w => l <= b
    <3>1. g[m].word = w /\ m \in 1 .. k + 1
      BY <1>1, <2>1
    <3>2. b \in 1 .. k + 1 /\ g[b].word = w /\ \A l \in 1 .. k + 1 : g[l].word = w => l <= b
      BY <1>1, <3>1, LastExists
    <3> HIDE DEF b
    <3> QED
      BY <1>1, <3>2
  <2> HIDE DEF a, b
  <2>4. b \in 1 .. k
    BY <1>1, <1>4, <2>3 DEF new
  <2>5. a = b
    BY <1>1, <2>2, <2>3, <2>4
  <2>6. w \in S(f)
    BY <1>1, <2>1
  <2> QED
    BY <1>1, <2>2, <2>5, <2>6 DEF a, b
<1>5. Statistics(f) = [w \in S(f) |-> <<at(f, w).docs, at(f, w).hits>>]
  BY DEF Statistics
<1>6. Statistics(g) = [w \in S(g) |-> <<at(g, w).docs, at(g, w).hits>>]
  BY DEF Statistics
<1> DEFINE added == <<words[k + 1].docs, words[k + 1].hits>>
           over == Over(new, added, Statistics(f))
<1>7. over = [w \in S(f) \cup {new} |-> IF w = new THEN added ELSE Statistics(f)[w]]
  BY <1>5 DEF Over
<1>8. ASSUME NEW w \in S(g)
      PROVE  <<at(g, w).docs, at(g, w).hits>>
               = IF w = new THEN added ELSE Statistics(f)[w]
  <2>1. CASE w = new
    BY <1>3, <2>1
  <2>2. CASE w # new
    <3>1. w \in S(f) /\ at(g, w) = at(f, w)
      BY <1>4, <2>2
    <3> QED
      BY <1>5, <2>2, <3>1
  <2> QED
    BY <2>1, <2>2
<1> HIDE DEF S, at, added
<1>9. Statistics(g) = over
  BY <1>2, <1>6, <1>7, <1>8
<1> QED
  BY <1>9 DEF f, g, new, added

\* With nothing of the answer the response is empty, with all of it the answer.
LEMMA GivenNone ==
    ASSUME NEW answer, Proper(answer)
    PROVE  Given(answer, 0, 0, FALSE, 0, <<0, 0, 0>>, 0) = EmptyResponse
<1>1. \A s : First(s, 0) = <<>>
  <2> TAKE s
  <2>1. First(s, 0) = [m \in {} |-> s[m]]
    BY DEF First
  <2>2. [m \in {} |-> s[m]] = <<>>
    OBVIOUS
  <2> QED
    BY <2>1, <2>2
<1>2. Statistics(<<>>) = <<>>
  <2>1. DOMAIN <<>> = {}
    OBVIOUS
  <2> DEFINE value(word) == <<(<<>>)[LastOf(<<>>, word)].docs, (<<>>)[LastOf(<<>>, word)].hits>>
  <2>2. Statistics(<<>>) = [word \in {} |-> value(word)]
    BY <2>1 DEF Statistics
  <2> HIDE DEF value
  <2>3. [word \in {} |-> value(word)] = <<>>
    OBVIOUS
  <2> QED
    BY <2>2, <2>3
<1> QED
  BY <1>1, <1>2 DEF Given, EmptyResponse

LEMMA GivenAll ==
    ASSUME NEW answer, Proper(answer)
    PROVE  Given(answer, Len(answer.fields), Len(answer.attributes), answer.wide,
                 Len(answer.matches), answer.totals, Len(answer.words)) = Answered(answer)
<1>1. /\ First(answer.fields, Len(answer.fields)) = answer.fields
      /\ First(answer.attributes, Len(answer.attributes)) = answer.attributes
      /\ First(answer.words, Len(answer.words)) = answer.words
  BY AnswerTyped, FirstEnds
<1>2. First(Answered(answer).entry, Len(answer.matches)) = Answered(answer).entry
  <2>1. DOMAIN answer.matches = 1 .. Len(answer.matches)
    BY AnswerTyped, LenProperties
  <2>2. Answered(answer).entry
          = [k \in 1 .. Len(answer.matches) |-> AnsweredEntry(answer, answer.matches[k])]
    BY <2>1 DEF Answered
  <2> QED
    BY <2>2 DEF First
<1>3. Statistics(answer.words) = Answered(answer).word
  BY DEF Statistics, Answered
<1> QED
  BY <1>1, <1>2, <1>3 DEF Given, Answered
\* A match more, with all of its values.
LEMMA EntriesGrow ==
    ASSUME NEW answer, Proper(answer), NEW n \in 0 .. Len(answer.matches) - 1
    PROVE  /\ EntryGiven(answer, n + 1, Len(answer.attributes))
                = AnsweredEntry(answer, answer.matches[n + 1])
           /\ Append(First(Answered(answer).entry, n),
                     AnsweredEntry(answer, answer.matches[n + 1]))
                = First(Answered(answer).entry, n + 1)
<1>1. n \in Nat /\ n + 1 \in 1 .. Len(answer.matches)
  BY AnswerTyped, LenProperties
<1> DEFINE match == answer.matches[n + 1]
           whole == AnsweredEntry(answer, match)
<1>2. ValuesGiven(answer, match, Len(answer.attributes)) = whole.attribute
  BY <1>1, ValuesGrow
<1>3. [whole EXCEPT !.attribute = whole.attribute] = whole
  BY DEF AnsweredEntry
<1>4. Answered(answer).entry[n + 1] = whole
  <2>1. n + 1 \in DOMAIN answer.matches
    BY <1>1, AnswerTyped, LenProperties
  <2> QED
    BY <2>1 DEF Answered
<1>5. Append(First(Answered(answer).entry, n), Answered(answer).entry[n + 1])
        = First(Answered(answer).entry, n + 1)
  BY <1>1, FirstGrows
<1> QED
  BY <1>2, <1>3, <1>4, <1>5 DEF EntryGiven

-----------------------------------------------------------------------------
(* In step: the head *)

\* The next number of the answer.
LEMMA TakeNumber ==
    ASSUME BufferOK, NEW u \in Nat, NEW rest \in Seq(Nat), Comes(<<u>> \o rest),
           NEW old, Consumed(<<Get(dataStartPtr, 1, old)>>)
    PROVE  LET r == Get(dataStartPtr, 1, old)
           IN /\ Forward
              /\ \/ r.ok /\ r.value = <<u>> /\ Then(rest)
                 \/ ~r.ok /\ Fell(rest)
<1> DEFINE r == Get(dataStartPtr, 1, old)
<1>1. <<u>> \in Seq(Nat) /\ Len(<<u>>) = 1
  OBVIOUS
<1>2. Stands(dataStartPtr, <<u>>)
  BY <1>1, ComesParts
<1>3. Gives(r, dataStartPtr, 1, <<u>>)
  BY <1>2, NextNumber DEF BufferOK
<1> HIDE DEF r
<1>4. Gives(r, dataStartPtr, Len(<<u>>), <<u>>) /\ Consumed(<<r>>)
  BY <1>1, <1>3 DEF r
<1>5. /\ Forward
      /\ \/ r.ok /\ r.value = <<u>> /\ Then(rest)
         \/ ~r.ok /\ Fell(rest)
  BY <1>1, <1>4, TakeOne
<1> QED
  BY <1>5 DEF r

\* The next text of the answer.
LEMMA NextText ==
    ASSUME BufferOK, NEW text \in Seq(Nat), NEW rest \in Seq(Nat),
           Comes(EncodeString(text) \o rest)
    PROVE  /\ EncodeString(text) \in Seq(Nat)
           /\ Gives(GetString(dataStartPtr), dataStartPtr, Len(EncodeString(text)), text)
<1>1. EncodeString(text) \in Seq(Nat) /\ Len(EncodeString(text)) = Len(text) + 1
  BY StringEncoded
<1>2. Stands(dataStartPtr, EncodeString(text))
  BY <1>1, ComesParts
<1> QED
  BY <1>1, <1>2, GetStringGives DEF BufferOK, Message

LEMMA InStepAtStatus ==
    ASSUME BaseInv, AtStatus, ReadStatus
    PROVE  InStep' \/ Off'
<1> DEFINE r == Get(dataStartPtr, 1, <<Garbage>>)
           rest == IF Answer.status = SEARCHD_OK THEN FieldCountOn(Answer)
                   ELSE EncodeString(Answer.description) \o FieldCountOn(Answer)
<1>1. /\ Consumed(<<r>>) /\ errorStatus' = r.value[1] /\ UNCHANGED <<current, response>>
      /\ ~r.ok => pc' = "returned"
      /\ r.ok /\ r.value = <<SEARCHD_OK>> => pc' = "fieldCount"
      /\ r.ok /\ r.value # <<SEARCHD_OK>> => pc' = "description"
  <2>1. /\ Consumed(<<r>>) /\ errorStatus' = r.value[1] /\ UNCHANGED <<current, response>>
        /\ CASE ~r.ok                    -> Return("MessageError")
             [] r.value = <<SEARCHD_OK>> -> Goto("fieldCount")
             [] OTHER                    -> Goto("description")
    BY DEF ReadStatus
  <2>2. ~r.ok => r.value # <<SEARCHD_OK>>
    <3>1. ~r.ok => r.value = <<Garbage>>
      BY BaseRead, NumberRead
    <3> HIDE DEF r
    <3> QED
      BY <3>1 DEF Garbage, SEARCHD_OK
  <2> HIDE DEF r
  <2> QED
    BY <2>1, <2>2 DEF Return, Goto
<1>2. BufferOK /\ Proper(Answer)
  BY Here DEF BaseInv
<1>3. /\ Answer.status \in {SEARCHD_OK, SEARCHD_ERROR, SEARCHD_WARNING}
      /\ Answer.status \in Nat
  BY <1>2, AnswerTyped DEF SEARCHD_OK, SEARCHD_ERROR, SEARCHD_WARNING
<1>4. rest \in Seq(Nat) /\ FieldCountOn(Answer) \in Seq(Nat)
  <2>1. FieldCountOn(Answer) \in Seq(Nat) /\ EncodeString(Answer.description) \in Seq(Nat)
    BY <1>2, FieldsOnward, AnswerTyped, StringEncoded
  <2> QED
    BY <2>1, ConcatProperties
<1>5. Comes(<<Answer.status>> \o rest) /\ response = EmptyResponse
  BY <1>2, AnswerOnward DEF AtStatus
<1> HIDE DEF r, rest
<1>6. /\ Forward
      /\ \/ r.ok /\ r.value = <<Answer.status>> /\ Then(rest)
         \/ ~r.ok /\ Fell(rest)
  BY <1>1, <1>2, <1>3, <1>4, <1>5, TakeNumber DEF r
<1>7. Answer' = Answer
  BY <1>1, <1>6, AnswerKept
<1>8. CASE ~r.ok /\ Fell(rest)
  BY <1>1, <1>2, <1>4, <1>6, <1>8, FallsOff DEF HeadStages
<1>9. CASE r.ok /\ r.value = <<Answer.status>> /\ Then(rest)
  <2>1. Comes(rest)'
    <3>1. rest' = rest
      BY <1>7 DEF rest
    <3> QED
      BY <1>1, <1>6, <1>9, <3>1, ThenComes DEF Comes, Stands
  <2>4. errorStatus' = Answer'.status /\ response' = EmptyResponse
    BY <1>1, <1>3, <1>5, <1>7, <1>9
  <2>2. CASE Answer.status = SEARCHD_OK
    <3>1. AtFieldCount'
      BY <1>7, <2>1, <2>2, <2>4 DEF AtFieldCount, Accepted, rest, SEARCHD_OK, SEARCHD_ERROR
    <3> QED
      BY <1>1, <1>9, <2>2, <3>1 DEF InStep
  <2>3. CASE Answer.status # SEARCHD_OK
    <3>1. AtDescription'
      BY <1>7, <2>1, <2>3, <2>4 DEF AtDescription, rest
    <3> QED
      BY <1>1, <1>9, <2>3, <3>1 DEF InStep
  <2> QED
    BY <2>2, <2>3
<1> QED
  BY <1>6, <1>8, <1>9
\* A field, an attribute, a match, the statistics of a word more.
WithField(r, name) == [r EXCEPT !.field = Append(@, name)]
WithAttribute(r, attribute) == [r EXCEPT !.attribute = Append(@, attribute)]
WithEntry(r, match) == [r EXCEPT !.entry = Append(@, match)]
WithWord(r, word, statistics) == [r EXCEPT !.word = Over(word, statistics, @)]

LEMMA GivenField ==
    ASSUME NEW answer, NEW k \in Nat, NEW a, NEW wide, NEW m, NEW totals, NEW w
    PROVE  WithField(Given(answer, k, a, wide, m, totals, w),
                     answer.fields[k + 1])
             = Given(answer, k + 1, a, wide, m, totals, w)
<1> DEFINE given == Given(answer, k, a, wide, m, totals, w)
<1>1. given.field = First(answer.fields, k)
  BY DEF Given
<1>2. \A x : x = First(answer.fields, k + 1) =>
        [given EXCEPT !.field = x] = Given(answer, k + 1, a, wide, m, totals, w)
  BY DEF Given
<1> HIDE DEF given
<1>3. Append(given.field, answer.fields[k + 1]) = First(answer.fields, k + 1)
  BY <1>1, FirstGrows
<1>4. [given EXCEPT !.field = Append(given.field, answer.fields[k + 1])]
        = Given(answer, k + 1, a, wide, m, totals, w)
  BY <1>2, <1>3, Zenon
<1> QED
  BY <1>4, Zenon DEF given, WithField

LEMMA GivenAttribute ==
    ASSUME NEW answer, NEW k \in Nat, NEW f, NEW wide, NEW m, NEW totals, NEW w
    PROVE  WithAttribute(Given(answer, f, k, wide, m, totals, w),
                         answer.attributes[k + 1])
             = Given(answer, f, k + 1, wide, m, totals, w)
<1> DEFINE given == Given(answer, f, k, wide, m, totals, w)
<1>1. given.attribute = First(answer.attributes, k)
  BY DEF Given
<1>2. \A x : x = First(answer.attributes, k + 1) =>
        [given EXCEPT !.attribute = x] = Given(answer, f, k + 1, wide, m, totals, w)
  BY DEF Given
<1> HIDE DEF given
<1>3. Append(given.attribute, answer.attributes[k + 1]) = First(answer.attributes, k + 1)
  BY <1>1, FirstGrows
<1>4. [given EXCEPT !.attribute = Append(given.attribute, answer.attributes[k + 1])]
        = Given(answer, f, k + 1, wide, m, totals, w)
  BY <1>2, <1>3, Zenon
<1> QED
  BY <1>4, Zenon DEF given, WithAttribute

LEMMA GivenEntry ==
    ASSUME NEW answer, Proper(answer), NEW k \in 0 .. Len(answer.matches) - 1,
           NEW f, NEW a, NEW wide, NEW totals, NEW w
    PROVE  WithEntry(Given(answer, f, a, wide, k, totals, w),
                     AnsweredEntry(answer, answer.matches[k + 1]))
             = Given(answer, f, a, wide, k + 1, totals, w)
<1> DEFINE given == Given(answer, f, a, wide, k, totals, w)
<1>1. given.entry = First(Answered(answer).entry, k)
  BY DEF Given
<1>2. \A x : x = First(Answered(answer).entry, k + 1) =>
        [given EXCEPT !.entry = x] = Given(answer, f, a, wide, k + 1, totals, w)
  BY DEF Given
<1> HIDE DEF given
<1>3. Append(given.entry, AnsweredEntry(answer, answer.matches[k + 1]))
        = First(Answered(answer).entry, k + 1)
  BY <1>1, EntriesGrow
<1>4. [given EXCEPT !.entry = Append(given.entry, AnsweredEntry(answer, answer.matches[k + 1]))]
        = Given(answer, f, a, wide, k + 1, totals, w)
  BY <1>2, <1>3, Zenon
<1> QED
  BY <1>4, Zenon DEF given, WithEntry

LEMMA GivenWord ==
    ASSUME NEW answer, NEW k \in Nat, NEW f, NEW a, NEW wide, NEW m, NEW totals
    PROVE  WithWord(Given(answer, f, a, wide, m, totals, k), answer.words[k + 1].word,
                    <<answer.words[k + 1].docs, answer.words[k + 1].hits>>)
             = Given(answer, f, a, wide, m, totals, k + 1)
<1>1. Statistics(First(answer.words, k + 1))
        = Over(answer.words[k + 1].word,
               <<answer.words[k + 1].docs, answer.words[k + 1].hits>>,
               Statistics(First(answer.words, k)))
  BY StatisticsGrow
<1> QED
  BY <1>1 DEF Given, WithWord

LEMMA GivenScalars ==
    ASSUME NEW answer, NEW f, NEW a, NEW wide, NEW m, NEW totals, NEW w
    PROVE  /\ \A b : [Given(answer, f, a, wide, m, totals, w) EXCEPT !.use64bitId = b]
                       = Given(answer, f, a, b, m, totals, w)
           /\ \A t : [Given(answer, f, a, wide, m, totals, w) EXCEPT !.totals = t]
                       = Given(answer, f, a, wide, m, t, w)
  BY DEF Given

LEMMA InStepAtDescription ==
    ASSUME BaseInv, AtDescription, ReadDescription
    PROVE  InStep' \/ Off'
<1> DEFINE r == GetString(dataStartPtr)
           rest == FieldCountOn(Answer)
           text == EncodeString(Answer.description)
<1>1. /\ Consumed(<<r>>) /\ UNCHANGED <<current, response, errorStatus>>
      /\ IF errorStatus # SEARCHD_WARNING THEN pc' = "returned" /\ outcome' = "MessageError"
                                          ELSE pc' = "fieldCount"
  BY DEF ReadDescription, Return, Goto
<1>2. BufferOK /\ Proper(Answer)
  BY Here DEF BaseInv
<1>3. /\ Answer.description \in Seq(Nat)
      /\ Answer.status \in {SEARCHD_OK, SEARCHD_ERROR, SEARCHD_WARNING}
      /\ rest \in Seq(Nat)
  BY <1>2, AnswerTyped, FieldsOnward
<1>4. /\ Comes(text \o rest) /\ errorStatus = Answer.status
      /\ Answer.status # SEARCHD_OK /\ response = EmptyResponse
  BY DEF AtDescription
<1>5. text \in Seq(Nat) /\ Gives(r, dataStartPtr, Len(text), Answer.description)
  BY <1>2, <1>3, <1>4, NextText
<1> HIDE DEF r, rest, text
<1>6. /\ Forward
      /\ Then(rest) \/ Fell(rest)
  BY <1>1, <1>2, <1>3, <1>4, <1>5, TakeOne
<1>7. Answer' = Answer
  BY <1>1, <1>6, AnswerKept
<1>8. CASE Fell(rest)
  <2>1. Len(EncodeTail(Answer)) <= Len(rest)
    BY <1>2, HeadLengths DEF rest
  <2> QED
    BY <1>1, <1>2, <1>3, <1>6, <1>8, <2>1, FallsOff
<1>9. CASE Then(rest)
  <2>1. CASE Answer.status = SEARCHD_WARNING
    <3>1. Comes(rest)'
      <4>1. rest' = rest
        BY <1>7 DEF rest
      <4> QED
        BY <1>1, <1>6, <1>9, <4>1, ThenComes DEF Comes, Stands
    <3>2. AtFieldCount'
      BY <1>1, <1>4, <1>7, <2>1, <3>1
         DEF AtFieldCount, Accepted, rest, SEARCHD_WARNING, SEARCHD_ERROR
    <3> QED
      BY <1>1, <1>4, <2>1, <3>2 DEF InStep
  <2>2. CASE Answer.status = SEARCHD_ERROR
    <3>1. rest = <<>> /\ Len(rest) = 0
      BY <2>2 DEF rest, FieldCountOn
    <3>2. dataStartPtr' = Ends'[current']
      <4>1. dataStartPtr' + 0 = Ends'[current'] /\ dataStartPtr' \in Nat
        <5>1. dataStartPtr' + 0 = Ends'[current']
          BY <1>1, <1>6, <1>9, <3>1, ThenComes
        <5> QED
          BY <1>2, <1>6, <5>1, Here DEF Forward
      <4> QED
        BY <4>1
    <3>3. AtReturn'
      BY <1>1, <1>4, <1>7, <2>2, <3>2
         DEF AtReturn, SEARCHD_OK, SEARCHD_WARNING, SEARCHD_ERROR
    <3> QED
      BY <1>1, <1>4, <2>2, <3>3 DEF InStep, SEARCHD_WARNING, SEARCHD_ERROR
  <2> QED
    BY <1>3, <1>4, <2>1, <2>2
<1> QED
  BY <1>6, <1>8, <1>9

LEMMA InStepAtFieldCount ==
    ASSUME BaseInv, AtFieldCount, ReadFieldCount
    PROVE  InStep' \/ Off'
<1> DEFINE r == Get(dataStartPtr, 1, <<Garbage>>)
           rest == FieldsOn(Answer, 0)
           n == Len(Answer.fields)
<1>1. /\ Consumed(<<r>>) /\ UNCHANGED <<current, response, errorStatus>>
      /\ IF r.ok THEN pc' = "fields" /\ count' = r.value[1] /\ i' = 0 ELSE pc' = "returned"
  BY DEF ReadFieldCount, Return, Loop, Goto
<1>2. BufferOK /\ Proper(Answer)
  BY Here DEF BaseInv
<1>3. n \in Nat /\ rest \in Seq(Nat) /\ 0 \in 0 .. n
  <2>1. n \in Nat /\ 0 \in 0 .. n
    BY <1>2, AnswerTyped, LenProperties
  <2> QED
    BY <1>2, <2>1, FieldsOnward
<1>4. Comes(<<n>> \o rest) /\ Accepted /\ response = EmptyResponse
  BY <1>2, FieldsOnward DEF AtFieldCount, Accepted
<1> HIDE DEF r, rest, n
<1>5. /\ Forward
      /\ \/ r.ok /\ r.value = <<n>> /\ Then(rest)
         \/ ~r.ok /\ Fell(rest)
  BY <1>1, <1>2, <1>3, <1>4, TakeNumber DEF r
<1>6. Answer' = Answer
  BY <1>1, <1>5, AnswerKept
<1>7. CASE ~r.ok /\ Fell(rest)
  BY <1>1, <1>2, <1>3, <1>5, <1>7, FallsOff DEF HeadStages
<1>8. CASE r.ok /\ r.value = <<n>> /\ Then(rest)
  <2>1. Comes(rest)'
    <3>1. rest' = rest
      BY <1>6 DEF rest
    <3> QED
      BY <1>1, <1>5, <1>8, <3>1, ThenComes DEF Comes, Stands
  <2>2. pc' = "fields" /\ count' = n /\ i' = 0 /\ 0 \in 0 .. n
    BY <1>1, <1>3, <1>8
  <2>3. response' = Given(Answer, 0, 0, FALSE, 0, <<0, 0, 0>>, 0)
    BY <1>1, <1>2, <1>4, GivenNone
  <2>4. Accepted'
    BY <1>1, <1>4, <1>6 DEF Accepted
  <2>5. AtFields'
    BY <1>6, <2>1, <2>2, <2>3, <2>4 DEF AtFields, Counted, rest, n
  <2> QED
    BY <2>2, <2>5 DEF InStep
<1> QED
  BY <1>5, <1>7, <1>8

LEMMA InStepAtField ==
    ASSUME BaseInv, AtFields, ReadField
    PROVE  InStep' \/ Off'
<1> DEFINE r == GetString(dataStartPtr)
           n == Len(Answer.fields)
           rest == FieldsOn(Answer, i + 1)
           name == Answer.fields[i + 1]
           text == EncodeString(name)
<1>1. /\ Consumed(<<r>>) /\ UNCHANGED <<current, errorStatus, count>> /\ pc' = "fields"
      /\ i < count /\ i' = i + 1
      /\ response' = [response EXCEPT !.field = Append(@, r.value)]
  BY DEF ReadField
<1>2. BufferOK /\ Proper(Answer)
  BY Here DEF BaseInv
<1>3. /\ Comes(FieldsOn(Answer, i)) /\ Accepted /\ count = n /\ i \in 0 .. n
      /\ response = Given(Answer, i, 0, FALSE, 0, <<0, 0, 0>>, 0)
  BY DEF AtFields, Counted
<1>4. n \in Nat /\ i \in 0 .. n - 1 /\ i \in Nat /\ i + 1 \in 0 .. n /\ i + 1 \in 1 .. n
  <2>1. n \in Nat
    BY <1>2, AnswerTyped, LenProperties
  <2> QED
    BY <1>1, <1>3, <2>1
<1>5. name \in Seq(Nat) /\ rest \in Seq(Nat) /\ Comes(text \o rest)
  <2>1. name \in Seq(Nat)
    BY <1>2, <1>4, AnswerTyped, ElementOfSeq
  <2> QED
    BY <1>2, <1>3, <1>4, <2>1, FieldsOnward
<1> HIDE DEF r, rest, n, name, text
<1>6. text \in Seq(Nat) /\ Gives(r, dataStartPtr, Len(text), name)
  BY <1>2, <1>5, NextText DEF r, text
<1>7. /\ Forward
      /\ (r.value = name /\ Then(rest)) \/ Fell(rest)
  BY <1>1, <1>2, <1>5, <1>6, TakeOne
<1>8. Answer' = Answer
  BY <1>1, <1>7, AnswerKept
<1>9. CASE Fell(rest)
  <2>1. Len(EncodeTail(Answer)) <= Len(rest)
    BY <1>2, <1>4, HeadLengths DEF rest, n
  <2> QED
    BY <1>1, <1>2, <1>5, <1>7, <1>9, <2>1, FallsOff
<1>10. CASE r.value = name /\ Then(rest)
  <2>1. Comes(FieldsOn(Answer, i))'
    BY <1>1, <1>7, <1>8, <1>10, ThenComes DEF Comes, Stands, rest
  <2>2. Counted(Answer.fields)' /\ Accepted'
    BY <1>1, <1>3, <1>4, <1>8 DEF Counted, Accepted, n
  <2>3. response' = Given(Answer, i + 1, 0, FALSE, 0, <<0, 0, 0>>, 0)
    <3>1. response' = WithField(response, name)
      BY <1>1, <1>10 DEF WithField
    <3>2. \A b : WithField(Given(Answer, i, 0, b, 0, <<0, 0, 0>>, 0), name)
                   = Given(Answer, i + 1, 0, b, 0, <<0, 0, 0>>, 0)
      BY <1>4, GivenField DEF name
    <3>3. \A b : response = Given(Answer, i, 0, b, 0, <<0, 0, 0>>, 0)
                   => response' = Given(Answer, i + 1, 0, b, 0, <<0, 0, 0>>, 0)
      BY <3>1, <3>2
    <3> QED
      BY <1>3, <3>3
  <2>4. AtFields'
    BY <1>1, <1>8, <2>1, <2>2, <2>3 DEF AtFields
  <2> QED
    BY <1>1, <2>4 DEF InStep
<1> QED
  BY <1>7, <1>9, <1>10
\* A loop that has taken all of its list.
LEMMA InStepAtLoopEnds ==
    ASSUME BaseInv,
           \/ pc = "fields" /\ AtFields /\ LoopEnds("fields", "attrCount")
           \/ pc = "attributes" /\ AtAttributes /\ LoopEnds("attributes", "matchCount")
           \/ pc = "matches" /\ AtMatches /\ LoopEnds("matches", "totals")
    PROVE  InStep'
<1>1. Forward /\ i >= count
      /\ UNCHANGED <<dataStartPtr, count, i, current, errorStatus, response>>
  BY StillBase DEF LoopEnds, buffer, loop
<1>2. Answer' = Answer /\ Ends'[current'] = Ends[current] /\ message' = message
  BY <1>1, AnswerKept
<1>3. \A n \in Nat : count = n /\ i \in 0 .. count => i = n
  BY <1>1
<1>4. Proper(Answer)
  BY Here DEF BaseInv
<1>5. /\ Len(Answer.fields) \in Nat /\ Len(Answer.attributes) \in Nat
      /\ Len(Answer.matches) \in Nat
  BY <1>4, AnswerTyped, LenProperties
<1>6. CASE pc = "fields" /\ AtFields /\ LoopEnds("fields", "attrCount")
  <2>1. i = Len(Answer.fields)
    BY <1>3, <1>5, <1>6 DEF AtFields, Counted
  <2>2. Comes(AttrCountOn(Answer))
    BY <1>4, <1>6, <2>1, FieldsOnward DEF AtFields
  <2>3. AtAttrCount'
    BY <1>1, <1>2, <1>6, <2>1, <2>2 DEF AtFields, AtAttrCount, Accepted, Comes, Stands
  <2> QED
    BY <1>6, <2>3 DEF LoopEnds, Goto, InStep
<1>7. CASE pc = "attributes" /\ AtAttributes /\ LoopEnds("attributes", "matchCount")
  <2>1. i = Len(Answer.attributes)
    BY <1>3, <1>5, <1>7 DEF AtAttributes, Counted
  <2>2. Comes(MatchCountOn(Answer))
    BY <1>4, <1>7, <2>1, AttributesOnward DEF AtAttributes
  <2>3. AtMatchCount'
    BY <1>1, <1>2, <1>7, <2>1, <2>2
       DEF AtAttributes, AtMatchCount, Accepted, Comes, Stands, GivenHead
  <2> QED
    BY <1>7, <2>3 DEF LoopEnds, Goto, InStep
<1>8. CASE pc = "matches" /\ AtMatches /\ LoopEnds("matches", "totals")
  <2>1. i = Len(Answer.matches)
    BY <1>3, <1>5, <1>8 DEF AtMatches, Counted
  <2>2. Comes(TotalsOn(Answer))
    BY <1>4, <1>8, <2>1, MatchesOnward DEF AtMatches
  <2>3. AtTotals'
    BY <1>1, <1>2, <1>8, <2>1, <2>2
       DEF AtMatches, AtTotals, Accepted, Comes, Stands, GivenHead
  <2> QED
    BY <1>8, <2>3 DEF LoopEnds, Goto, InStep
<1> QED
  BY <1>6, <1>7, <1>8

LEMMA InStepAtAttrCount ==
    ASSUME BaseInv, AtAttrCount, ReadAttrCount
    PROVE  InStep' \/ Off'
<1> DEFINE rest == AttributesOn(Answer, 0)
           n == Len(Answer.attributes)
<1>1. PICK junk \in Junk :
        /\ Consumed(<<Get(dataStartPtr, 1, <<junk>>)>>)
        /\ Loop("attributes", Get(dataStartPtr, 1, <<junk>>).value[1])
  BY DEF ReadAttrCount
<1> DEFINE r == Get(dataStartPtr, 1, <<junk>>)
<1>2. /\ Consumed(<<r>>) /\ UNCHANGED <<current, response, errorStatus>>
      /\ pc' = "attributes" /\ count' = r.value[1] /\ i' = 0
  BY <1>1 DEF ReadAttrCount, Loop, Goto
<1>3. BufferOK /\ Proper(Answer)
  BY Here DEF BaseInv
<1>4. n \in Nat /\ rest \in Seq(Nat) /\ 0 \in 0 .. n
  <2>1. n \in Nat /\ 0 \in 0 .. n
    BY <1>3, AnswerTyped, LenProperties
  <2> QED
    BY <1>3, <2>1, AttributesOnward
<1>5. /\ Comes(<<n>> \o rest) /\ Accepted
      /\ response = Given(Answer, Len(Answer.fields), 0, FALSE, 0, <<0, 0, 0>>, 0)
  BY <1>3, AttributesOnward DEF AtAttrCount
<1> HIDE DEF r, rest, n
<1>6. /\ Forward
      /\ \/ r.ok /\ r.value = <<n>> /\ Then(rest)
         \/ ~r.ok /\ Fell(rest)
  BY <1>2, <1>3, <1>4, <1>5, TakeNumber DEF r
<1>7. Answer' = Answer
  BY <1>2, <1>6, AnswerKept
<1>8. CASE Fell(rest)
  <2>1. Len(EncodeTail(Answer)) <= Len(rest)
    BY <1>3, <1>4, HeadLengths DEF rest, n
  <2> QED
    BY <1>2, <1>3, <1>4, <1>6, <1>8, <2>1, FallsOff
<1>9. CASE r.value = <<n>> /\ Then(rest)
  <2>1. Comes(AttributesOn(Answer, i))'
    BY <1>2, <1>6, <1>7, <1>9, ThenComes DEF Comes, Stands, rest
  <2>2. Counted(Answer.attributes)' /\ Accepted'
    BY <1>2, <1>4, <1>5, <1>7, <1>9 DEF Counted, Accepted, n
  <2>3. AtAttributes'
    BY <1>2, <1>5, <1>7, <2>1, <2>2 DEF AtAttributes
  <2> QED
    BY <1>2, <2>3 DEF InStep
<1> QED
  BY <1>6, <1>8, <1>9

LEMMA InStepAtAttribute ==
    ASSUME BaseInv, AtAttributes, ReadAttribute
    PROVE  InStep' \/ Off'
<1> DEFINE r == GetString(dataStartPtr)
           s == Get(r.next, 1, <<Garbage>>)
           n == Len(Answer.attributes)
           rest == AttributesOn(Answer, i + 1)
           attribute == Answer.attributes[i + 1]
           text == EncodeString(attribute.name)
<1>1. /\ Consumed(<<r, s>>) /\ UNCHANGED <<current, errorStatus, count>>
      /\ pc' = "attributes" /\ i < count /\ i' = i + 1
      /\ response' = [response EXCEPT !.attribute =
                        Append(@, [name |-> r.value, type |-> s.value[1]])]
  BY DEF ReadAttribute
<1>2. BufferOK /\ Proper(Answer)
  BY Here DEF BaseInv
<1>3. /\ Comes(AttributesOn(Answer, i)) /\ Accepted /\ count = n /\ i \in 0 .. n
      /\ response = Given(Answer, Len(Answer.fields), i, FALSE, 0, <<0, 0, 0>>, 0)
  BY DEF AtAttributes, Counted
<1>4. n \in Nat /\ i \in 0 .. n - 1 /\ i \in Nat /\ i + 1 \in 0 .. n /\ i + 1 \in 1 .. n
  <2>1. n \in Nat
    BY <1>2, AnswerTyped, LenProperties
  <2> QED
    BY <1>1, <1>3, <2>1
<1>5. /\ attribute \in [name : Seq(Nat), type : Nat] /\ rest \in Seq(Nat)
      /\ Comes(text \o (<<attribute.type>> \o rest))
  <2>1. attribute \in [name : Seq(Nat), type : Nat]
    BY <1>2, <1>4, AnswerTyped, ElementOfSeq
  <2> QED
    BY <1>2, <1>3, <1>4, <2>1, AttributesOnward
<1> HIDE DEF r, s, rest, n, attribute, text
<1>6. attribute.name \in Seq(Nat) /\ attribute.type \in Nat
      /\ attribute = [name |-> attribute.name, type |-> attribute.type]
  BY <1>5
<1>7. text \in Seq(Nat) /\ Gives(r, dataStartPtr, Len(text), attribute.name)
  <2>1. <<attribute.type>> \o rest \in Seq(Nat)
    <3>1. <<attribute.type>> \in Seq(Nat)
      BY <1>6
    <3> QED
      BY <1>5, <3>1, ConcatProperties
  <2> QED
    BY <1>2, <1>5, <1>6, <2>1, NextText DEF r, text
<1>8. /\ Forward
      /\ (r.value = attribute.name /\ s.value = <<attribute.type>> /\ Then(rest)) \/ Fell(rest)
  BY <1>1, <1>2, <1>5, <1>6, <1>7, TakeTwo DEF s
<1>9. Answer' = Answer
  BY <1>1, <1>8, AnswerKept
<1>10. CASE Fell(rest)
  <2>1. Len(EncodeTail(Answer)) <= Len(rest)
    BY <1>2, <1>4, HeadLengths DEF rest, n
  <2> QED
    BY <1>1, <1>2, <1>5, <1>8, <1>10, <2>1, FallsOff
<1>11. CASE r.value = attribute.name /\ s.value = <<attribute.type>> /\ Then(rest)
  <2>1. Comes(AttributesOn(Answer, i))'
    BY <1>1, <1>8, <1>9, <1>11, ThenComes DEF Comes, Stands, rest
  <2>2. Counted(Answer.attributes)' /\ Accepted'
    BY <1>1, <1>3, <1>4, <1>9 DEF Counted, Accepted, n
  <2>3. response' = Given(Answer, Len(Answer.fields), i + 1, FALSE, 0, <<0, 0, 0>>, 0)
    <3>1. s.value[1] = attribute.type
      BY <1>11
    <3>2. response' = WithAttribute(response, attribute)
      BY <1>1, <1>6, <1>11, <3>1 DEF WithAttribute
    <3>3. \A f, b : WithAttribute(Given(Answer, f, i, b, 0, <<0, 0, 0>>, 0), attribute)
                      = Given(Answer, f, i + 1, b, 0, <<0, 0, 0>>, 0)
      BY <1>4, GivenAttribute DEF attribute
    <3>4. \A f, b : response = Given(Answer, f, i, b, 0, <<0, 0, 0>>, 0)
                      => response' = Given(Answer, f, i + 1, b, 0, <<0, 0, 0>>, 0)
      BY <3>2, <3>3
    <3> QED
      BY <1>3, <3>4
  <2>4. AtAttributes'
    BY <1>1, <1>9, <2>1, <2>2, <2>3 DEF AtAttributes
  <2> QED
    BY <1>1, <2>4 DEF InStep
<1> QED
  BY <1>8, <1>10, <1>11

LEMMA InStepAtMatchCount ==
    ASSUME BaseInv, AtMatchCount, ReadMatchCount
    PROVE  InStep' \/ Off'
<1> DEFINE r == Get(dataStartPtr, 1, <<Garbage>>)
           rest == EncodeTail(Answer)
           n == Len(Answer.matches)
<1>1. /\ Consumed(<<r>>) /\ UNCHANGED <<current, response, errorStatus>>
      /\ IF r.ok THEN pc' = "idWidth" /\ count' = r.value[1] /\ i' = 0 ELSE pc' = "returned"
  BY DEF ReadMatchCount, Return, Loop, Goto
<1>2. BufferOK /\ Proper(Answer)
  BY Here DEF BaseInv
<1>3. n \in Nat /\ rest \in Seq(Nat)
  BY <1>2, AnswerTyped, LenProperties, MatchesOnward
<1>4. /\ Comes(<<n>> \o rest) /\ Accepted
      /\ response = GivenHead(FALSE, 0, <<0, 0, 0>>, 0)
  BY DEF AtMatchCount, MatchCountOn
<1> HIDE DEF r, rest, n
<1>5. /\ Forward
      /\ \/ r.ok /\ r.value = <<n>> /\ Then(rest)
         \/ ~r.ok /\ Fell(rest)
  BY <1>1, <1>2, <1>3, <1>4, TakeNumber DEF r
<1>6. Answer' = Answer
  BY <1>1, <1>5, AnswerKept
<1>7. CASE ~r.ok /\ Fell(rest)
  BY <1>1, <1>2, <1>3, <1>5, <1>7, FallsOff DEF HeadStages
<1>8. CASE r.ok /\ r.value = <<n>> /\ Then(rest)
  <2>1. Comes(EncodeTail(Answer))'
    BY <1>1, <1>5, <1>6, <1>8, ThenComes DEF Comes, Stands, rest
  <2>2. pc' = "idWidth" /\ count' = n /\ i' = 0 /\ 0 \in 0 .. n
    BY <1>1, <1>3, <1>8
  <2>3. Accepted' /\ Counted(Answer.matches)'
    BY <1>1, <1>4, <1>6, <2>2 DEF Accepted, Counted, n
  <2>4. AtIdWidth'
    BY <1>1, <1>4, <1>6, <2>1, <2>2, <2>3 DEF AtIdWidth, GivenHead
  <2> QED
    BY <2>2, <2>4 DEF InStep
<1> QED
  BY <1>5, <1>7, <1>8
-----------------------------------------------------------------------------
(* In step: the matches *)

LEMMA InStepAtIdWidth ==
    ASSUME BaseInv, AtIdWidth, ReadIdWidth
    PROVE  InStep' \/ Off'
<1> DEFINE rest == MatchesOn(Answer, 0)
           n == IF Answer.wide THEN 1 ELSE 0
<1>1. PICK junk \in Junk :
        /\ Consumed(<<Get(dataStartPtr, 1, <<junk>>)>>)
        /\ response' = [response EXCEPT !.use64bitId =
                          Get(dataStartPtr, 1, <<junk>>).value # <<0>>]
  BY DEF ReadIdWidth
<1> DEFINE r == Get(dataStartPtr, 1, <<junk>>)
<1>2. Consumed(<<r>>) /\ response' = [response EXCEPT !.use64bitId = r.value # <<0>>]
  BY <1>1
<1>3. UNCHANGED <<current, errorStatus, count, i>> /\ pc' = "matches"
  BY DEF ReadIdWidth, Goto, loop
<1>4. BufferOK /\ Proper(Answer)
  BY Here DEF BaseInv
<1>5. Answer.wide \in BOOLEAN /\ n \in Nat /\ rest \in Seq(Nat)
  <2>1. 0 \in 0 .. Len(Answer.matches)
    BY <1>4, AnswerTyped, LenProperties
  <2> QED
    BY <1>4, <2>1, AnswerTyped, MatchesOnward
<1>6. /\ Comes(<<n>> \o rest) /\ Accepted /\ Counted(Answer.matches) /\ i = 0
      /\ response = GivenHead(FALSE, 0, <<0, 0, 0>>, 0)
  BY <1>4, MatchesOnward DEF AtIdWidth, Accepted
<1> HIDE DEF r, rest
<1>7. /\ Forward
      /\ (r.value = <<n>> /\ Then(rest)) \/ Fell(rest)
  <2> HIDE DEF n
  <2> QED
    BY <1>2, <1>4, <1>5, <1>6, TakeNumber DEF r
<1>8. Answer' = Answer
  BY <1>3, <1>7, AnswerKept
<1>9. CASE Fell(rest)
  BY <1>3, <1>4, <1>5, <1>7, <1>9, FallsOff DEF HeadStages
<1>10. CASE r.value = <<n>> /\ Then(rest)
  <2>1. Comes(MatchesOn(Answer, i))'
    BY <1>3, <1>6, <1>7, <1>8, <1>10, ThenComes DEF Comes, Stands, rest
  <2>2. Counted(Answer.matches)' /\ Accepted'
    BY <1>3, <1>6, <1>8 DEF Counted, Accepted
  <2>3. response' = GivenHead(Answer.wide, i, <<0, 0, 0>>, 0)
    <3> DEFINE b == r.value # <<0>>
    <3>1. b = Answer.wide
      BY <1>5, <1>10
    <3> HIDE DEF b
    <3>2. response' = [response EXCEPT !.use64bitId = b]
      BY <1>2 DEF b
    <3>3. response' = [response EXCEPT !.use64bitId = Answer.wide]
      BY <3>1, <3>2
    <3> QED
      BY <1>6, <3>3 DEF GivenHead, Given
  <2>4. AtMatches'
    BY <1>3, <1>8, <2>1, <2>2, <2>3 DEF AtMatches, GivenHead
  <2> QED
    BY <1>3, <2>4 DEF InStep
<1> QED
  BY <1>7, <1>9, <1>10

LEMMA InStepAtMatch ==
    ASSUME BaseInv, AtMatches, ReadMatch
    PROVE  InStep' \/ Off'
<1> DEFINE match == Answer.matches[i + 1]
           words == IF Answer.wide THEN <<0, match.docId>> ELSE <<match.docId>>
           rest == ValuesOn(Answer, i + 1, 0)
           n == Len(Answer.matches)
           r == IF response.use64bitId THEN Get(dataStartPtr, 2, EmptyEntry.documentId)
                ELSE Get(dataStartPtr, 1, <<Garbage>>)
           s == Get(r.next, 1, EmptyEntry.weight)
<1>1. /\ Consumed(<<r, s>>) /\ UNCHANGED <<current, errorStatus, count, i, response>>
      /\ pc' = "values" /\ i < count /\ j' = 0
      /\ entry' = [EmptyEntry EXCEPT !.documentId = r.value, !.weight = s.value]
  BY DEF ReadMatch, Goto
<1>2. BufferOK /\ Proper(Answer)
  BY Here DEF BaseInv
<1>3. /\ Comes(MatchesOn(Answer, i)) /\ Accepted /\ count = n /\ i \in 0 .. n
      /\ response = GivenHead(Answer.wide, i, <<0, 0, 0>>, 0)
  BY DEF AtMatches, Counted
<1>4. n \in Nat /\ i \in 0 .. n - 1 /\ i \in Nat /\ i + 1 \in 1 .. n
  <2>1. n \in Nat
    BY <1>2, AnswerTyped, LenProperties
  <2> QED
    BY <1>1, <1>3, <2>1
<1>5. match.docId \in Nat /\ match.weight \in Nat /\ Answer.wide \in BOOLEAN
  BY <1>2, <1>4, MatchTyped, AnswerTyped
<1>6. words \in Seq(Nat) /\ Len(words) = IF Answer.wide THEN 2 ELSE 1
  <2> HIDE DEF match
  <2>1. <<0, match.docId>> \in Seq(Nat) /\ Len(<<0, match.docId>>) = 2
    BY <1>5
  <2>2. <<match.docId>> \in Seq(Nat) /\ Len(<<match.docId>>) = 1
    BY <1>5
  <2> QED
    BY <2>1, <2>2
<1>7. 0 \in 0 .. Len(Answer.attributes)
  BY <1>2, AnswerTyped, LenProperties
<1>8. rest \in Seq(Nat)
  BY <1>2, <1>4, <1>7, ValuesOnward
<1>9. Comes(words \o (<<match.weight>> \o rest))
  BY <1>2, <1>3, <1>4, MatchOnward
<1>10. <<match.weight>> \o rest \in Seq(Nat)
  <2>1. <<match.weight>> \in Seq(Nat)
    BY <1>5
  <2> HIDE DEF rest
  <2> QED
    BY <1>8, <2>1, ConcatProperties
<1> DEFINE behind == <<match.weight>> \o rest
<1>11. Stands(dataStartPtr, words)
  <2> HIDE DEF words, behind
  <2>1. Comes(words \o behind) /\ behind \in Seq(Nat)
    BY <1>9, <1>10 DEF behind
  <2> QED
    BY <1>2, <1>6, <2>1, ComesParts
<1>12. response.use64bitId = Answer.wide
  BY <1>3 DEF GivenHead, Given
<1>13. Gives(r, dataStartPtr, Len(words), words)
  <2>1. Message /\ dataStartPtr \in 0 .. Len(message)
    BY <1>2 DEF BufferOK, Message
  <2> HIDE DEF words
  <2>2. \A old : Gives(Get(dataStartPtr, Len(words), old), dataStartPtr, Len(words), words)
    BY <1>6, <1>11, <2>1, GetGives
  <2>3. CASE Answer.wide
    BY <1>6, <1>12, <2>2, <2>3
  <2>4. CASE ~Answer.wide
    BY <1>6, <1>12, <2>2, <2>4
  <2> QED
    BY <2>3, <2>4
<1> HIDE DEF match, words, rest, n, r, s, behind
<1>14. /\ Forward
       /\ (r.value = words /\ s.value = <<match.weight>> /\ Then(rest)) \/ Fell(rest)
  BY <1>1, <1>2, <1>5, <1>6, <1>8, <1>9, <1>13, TakeTwo DEF s
<1>15. Answer' = Answer
  BY <1>1, <1>14, AnswerKept
<1>16. CASE Fell(rest)
  BY <1>1, <1>2, <1>8, <1>14, <1>16, FallsOff DEF HeadStages
<1>17. CASE r.value = words /\ s.value = <<match.weight>> /\ Then(rest)
  <2>1. Comes(ValuesOn(Answer, i + 1, j))'
    BY <1>1, <1>14, <1>15, <1>17, ThenComes DEF Comes, Stands, rest
  <2>2. Counted(Answer.matches)' /\ Accepted' /\ i' < count'
    BY <1>1, <1>3, <1>4, <1>15 DEF Counted, Accepted, n
  <2>3. entry' = EntryGiven(Answer, i + 1, 0)
    <3>1. ValuesGiven(Answer, match, 0) = <<>>
      BY <1>2, <1>4, ValuesGrow DEF match, n
    <3>2. entry' = [documentId |-> words, weight |-> <<match.weight>>, attribute |-> <<>>]
      BY <1>1, <1>17 DEF EmptyEntry
    <3>3. EntryGiven(Answer, i + 1, 0)
            = [documentId |-> words, weight |-> <<match.weight>>,
               attribute |-> ValuesGiven(Answer, match, 0)]
      <4> DEFINE whole == AnsweredEntry(Answer, match)
                 attributes == whole.attribute
                 values == ValuesGiven(Answer, match, 0)
      <4>1. whole = [documentId |-> words, weight |-> <<match.weight>>,
                     attribute |-> attributes]
        BY DEF AnsweredEntry, words
      <4>2. EntryGiven(Answer, i + 1, 0) = [whole EXCEPT !.attribute = values]
        BY DEF EntryGiven, match
      <4> HIDE DEF whole, attributes, values
      <4>3. [whole EXCEPT !.attribute = values]
              = [documentId |-> words, weight |-> <<match.weight>>, attribute |-> values]
        BY <4>1
      <4> QED
        BY <4>2, <4>3 DEF values
    <3> QED
      BY <3>1, <3>2, <3>3
  <2>4. AtValues'
    BY <1>1, <1>3, <1>7, <1>15, <2>1, <2>2, <2>3 DEF AtValues, GivenHead
  <2> QED
    BY <1>1, <2>4 DEF InStep
<1> QED
  BY <1>14, <1>16, <1>17

\* The response has the attributes of the answer while the matches are read.
LEMMA HeadGiven ==
    ASSUME BufferOK, NEW wide, NEW m, NEW totals, NEW w,
           response = GivenHead(wide, m, totals, w)
    PROVE  response.attribute = Answer.attributes
<1>1. First(Answer.attributes, Len(Answer.attributes)) = Answer.attributes
  BY Here, AnswerTyped, FirstEnds
<1> QED
  BY <1>1 DEF GivenHead, Given
LEMMA InStepAtValue ==
    ASSUME BaseInv, AtValues, ReadValue
    PROVE  InStep' \/ Off'
<1> DEFINE n == i + 1
           k == j + 1
           match == Answer.matches[n]
           attribute == Answer.attributes[k]
           value == match.values[k]
           words == EncodeValue(attribute.type, value)
           rest == ValuesOn(Answer, n, k)
           m == Len(Answer.attributes)
           r == GetValue(attribute.type)
<1>1. BufferOK /\ Proper(Answer)
  BY Here DEF BaseInv
<1>2. /\ Counted(Answer.matches) /\ i < count /\ Comes(ValuesOn(Answer, n, j)) /\ Accepted
      /\ j \in 0 .. m /\ entry = EntryGiven(Answer, n, j)
      /\ response = GivenHead(Answer.wide, i, <<0, 0, 0>>, 0)
  BY DEF AtValues
<1>3. response.attribute = Answer.attributes
  BY <1>1, <1>2, HeadGiven
<1>4. /\ Consumed(<<r>>) /\ UNCHANGED <<current, errorStatus, count, i, response>>
      /\ pc' = pc /\ pc = "values" /\ j < m /\ j' = k
      /\ entry' = [entry EXCEPT !.attribute = Insert(@, attribute, r)]
  BY <1>3 DEF ReadValue
<1>5. /\ m \in Nat /\ Len(Answer.matches) \in Nat
      /\ n \in 1 .. Len(Answer.matches) /\ k \in 1 .. m /\ k \in 0 .. m /\ j \in 0 .. m - 1
  <2>1. m \in Nat /\ Len(Answer.matches) \in Nat
    BY <1>1, AnswerTyped, LenProperties
  <2> QED
    BY <1>2, <1>4, <2>1 DEF Counted
<1>6. value \in Seq(Nat) /\ Fits(attribute.type, value) /\ Len(value) <= MaxElements
  BY <1>1, <1>5, MatchTyped
<1>7. rest \in Seq(Nat) /\ Comes(words \o rest)
  BY <1>1, <1>2, <1>5, ValuesOnward
<1>8. words \in Seq(Nat)
  BY <1>6, ValueEncoded
<1> HIDE DEF n, k, match, attribute, value, words, rest, m, r
<1>9. Gives(r, dataStartPtr, Len(words), value)
  <2>1. Stands(dataStartPtr, words)
    BY <1>1, <1>7, <1>8, ComesParts
  <2> QED
    BY <1>1, <1>6, <2>1, GetValueGives DEF BufferOK, Message, Place, words, r
<1>10. /\ Forward
       /\ (r.value = value /\ Then(rest)) \/ Fell(rest)
  BY <1>1, <1>4, <1>7, <1>8, <1>9, TakeOne
<1>11. Answer' = Answer
  BY <1>4, <1>10, AnswerKept
<1>12. CASE Fell(rest)
  BY <1>1, <1>4, <1>7, <1>10, <1>12, FallsOff DEF HeadStages
<1>13. CASE r.value = value /\ Then(rest)
  <2>1. Comes(ValuesOn(Answer, i + 1, j))'
    BY <1>4, <1>10, <1>11, <1>13, ThenComes DEF Comes, Stands, rest, n
  <2>2. Counted(Answer.matches)' /\ Accepted' /\ i' < count'
    BY <1>2, <1>4, <1>11 DEF Counted, Accepted
  <2>3. entry' = EntryGiven(Answer, n, k)
    <3> DEFINE map == ValuesGiven(Answer, match, j)
               more == ValuesGiven(Answer, match, k)
               whole == AnsweredEntry(Answer, match)
               added == [tag |-> Tag(attribute.type), words |-> value]
    <3>1. more = Under(attribute.name, added, map)
      BY <1>1, <1>5, ValuesGrow DEF match, attribute, value, k, m
    <3>2. whole = [documentId |-> whole.documentId, weight |-> whole.weight,
                   attribute |-> whole.attribute]
      BY DEF AnsweredEntry
    <3>3. /\ EntryGiven(Answer, n, j) = [whole EXCEPT !.attribute = map]
          /\ EntryGiven(Answer, n, k) = [whole EXCEPT !.attribute = more]
      BY DEF EntryGiven, match
    <3>4. Insert(entry.attribute, attribute, r) = Under(attribute.name, added, entry.attribute)
      BY <1>13 DEF Insert
    <3>5. entry' = [entry EXCEPT !.attribute = Insert(entry.attribute, attribute, r)]
      BY <1>4
    <3> HIDE DEF map, more, whole, added
    <3>6. entry = [documentId |-> whole.documentId, weight |-> whole.weight, attribute |-> map]
      BY <1>2, <3>2, <3>3
    <3>7. entry.attribute = map
      BY <3>6
    <3>8. Insert(entry.attribute, attribute, r) = more
      BY <3>1, <3>4, <3>7
    <3>9. entry' = [documentId |-> whole.documentId, weight |-> whole.weight, attribute |-> more]
      BY <3>5, <3>6, <3>8
    <3> QED
      BY <3>2, <3>3, <3>9
  <2>4. AtValues'
    BY <1>2, <1>4, <1>5, <1>11, <2>1, <2>2, <2>3 DEF AtValues, GivenHead, n, m
  <2> QED
    BY <1>4, <2>4 DEF InStep
<1> QED
  BY <1>10, <1>12, <1>13

LEMMA InStepAtMatchRead ==
    ASSUME BaseInv, AtValues, MatchRead
    PROVE  InStep'
<1> DEFINE n == i + 1
           m == Len(Answer.attributes)
           match == AnsweredEntry(Answer, Answer.matches[n])
<1>1. BufferOK /\ Proper(Answer)
  BY Here DEF BaseInv
<1>2. /\ Counted(Answer.matches) /\ i < count /\ Comes(ValuesOn(Answer, n, j)) /\ Accepted
      /\ entry = EntryGiven(Answer, n, j)
      /\ response = GivenHead(Answer.wide, i, <<0, 0, 0>>, 0)
  BY DEF AtValues
<1>3. response.attribute = Answer.attributes
  BY <1>1, <1>2, HeadGiven
<1>4. /\ UNCHANGED <<current, errorStatus, count, message, dataStartPtr, answers>>
      /\ pc' = "matches" /\ j = m /\ i' = n
      /\ response' = WithEntry(response, entry)
  BY <1>3 DEF MatchRead, Goto, WithEntry, buffer
<1>5. Forward
  BY MatchReadBase
<1>6. Answer' = Answer /\ Ends'[current'] = Ends[current]
  BY <1>4, <1>5, AnswerKept
<1>7. /\ Len(Answer.matches) \in Nat /\ i \in 0 .. Len(Answer.matches) - 1
      /\ n \in 1 .. Len(Answer.matches) /\ n \in 0 .. Len(Answer.matches)
  <2>1. Len(Answer.matches) \in Nat
    BY <1>1, AnswerTyped, LenProperties
  <2> QED
    BY <1>2, <2>1 DEF Counted
<1>8. Comes(MatchesOn(Answer, n))
  BY <1>1, <1>2, <1>4, <1>7, ValuesOnward
<1>9. entry = match
  BY <1>1, <1>2, <1>4, <1>7, EntriesGrow
<1> HIDE DEF n, m, match
<1>10. Comes(MatchesOn(Answer, i))'
  BY <1>4, <1>6, <1>8 DEF Comes, Stands
<1>11. Counted(Answer.matches)' /\ Accepted'
  BY <1>2, <1>4, <1>6, <1>7 DEF Counted, Accepted
<1>12. response' = GivenHead(Answer.wide, n, <<0, 0, 0>>, 0)
  <2>1. \A b, f, a : WithEntry(Given(Answer, f, a, b, i, <<0, 0, 0>>, 0), match)
                       = Given(Answer, f, a, b, n, <<0, 0, 0>>, 0)
    BY <1>1, <1>7, GivenEntry DEF match, n
  <2> QED
    BY <1>2, <1>4, <1>9, <2>1 DEF GivenHead
<1>13. AtMatches'
  BY <1>4, <1>6, <1>10, <1>11, <1>12 DEF AtMatches, GivenHead
<1> QED
  BY <1>4, <1>13 DEF InStep
-----------------------------------------------------------------------------
(* In step: the end *)

LEMMA InStepAtTotals ==
    ASSUME BaseInv, AtTotals, ReadTotals
    PROVE  InStep' \/ Off'
<1> DEFINE r == Get(dataStartPtr, 1, <<0>>)
           s == Get(r.next, 1, <<0>>)
           t == Get(s.next, 1, <<0>>)
           total(k) == Answer.totals[k]
           rest == EncodeWords(Answer.words)
<1>1. /\ Consumed(<<r, s, t>>) /\ UNCHANGED <<current, errorStatus>> /\ pc' = "wordCount"
      /\ response' = [response EXCEPT !.totals = r.value \o s.value \o t.value]
  BY DEF ReadTotals, Goto
<1>2. BufferOK /\ Proper(Answer)
  BY Here DEF BaseInv
<1>3. /\ Accepted /\ Comes(TotalsOn(Answer))
      /\ response = GivenHead(Answer.wide, Len(Answer.matches), <<0, 0, 0>>, 0)
  BY DEF AtTotals
<1>4. total(1) \in Nat /\ total(2) \in Nat /\ total(3) \in Nat /\ rest \in Seq(Nat)
  <2>1. \A k \in 1 .. 3 : total(k) \in Nat
    BY <1>2, TotalsOnward
  <2>2. rest \in Seq(Nat)
    BY <1>2, WordsOnward
  <2> HIDE DEF total
  <2> QED
    BY <2>1, <2>2
<1>5. /\ Comes(<<total(1)>> \o (<<total(2)>> \o (<<total(3)>> \o rest)))
      /\ Answer.totals = (<<total(1)>> \o <<total(2)>>) \o <<total(3)>>
  BY <1>2, <1>3, TotalsOnward
<1> HIDE DEF r, s, t, total, rest
<1>6. <<total(1)>> \in Seq(Nat) /\ Len(<<total(1)>>) = 1
  BY <1>4
<1>7. Gives(r, dataStartPtr, Len(<<total(1)>>), <<total(1)>>)
  <2> DEFINE behind == <<total(2)>> \o (<<total(3)>> \o rest)
  <2>1. behind \in Seq(Nat)
    <3>1. <<total(2)>> \in Seq(Nat) /\ <<total(3)>> \in Seq(Nat)
      BY <1>4
    <3> QED
      BY <1>4, <3>1, ConcatProperties
  <2>2. Comes(<<total(1)>> \o behind)
    BY <1>5
  <2> HIDE DEF behind
  <2>3. Stands(dataStartPtr, <<total(1)>>)
    BY <1>2, <1>6, <2>1, <2>2, ComesParts
  <2> QED
    BY <1>2, <1>4, <1>6, <2>3, NextNumber DEF r, BufferOK
<1>8. /\ Forward
      /\ \/ r.value = <<total(1)>> /\ s.value = <<total(2)>> /\ t.value = <<total(3)>>
            /\ Then(rest)
         \/ Fell(rest)
  <2>1. s = Get(r.next, 1, <<0>>) /\ t = Get(s.next, 1, <<0>>)
    BY DEF s, t
  <2>2. Three(<<total(1)>>, total(2), total(3), rest, <<total(1)>>, r, s, t)
    BY <1>1, <1>4, <1>5, <1>6, <1>7, <2>1 DEF Three
  <2> QED
    BY <1>2, <2>2, TakeThree
<1>9. Answer' = Answer
  BY <1>1, <1>8, AnswerKept
<1>10. CASE Fell(rest)
  BY <1>1, <1>2, <1>4, <1>8, <1>10, FallsOff DEF HeadStages
<1>11. CASE r.value = <<total(1)>> /\ s.value = <<total(2)>> /\ t.value = <<total(3)>>
            /\ Then(rest)
  <2>1. Comes(EncodeWords(Answer.words))'
    BY <1>1, <1>8, <1>9, <1>11, ThenComes DEF Comes, Stands, rest
  <2>2. Accepted'
    BY <1>1, <1>3, <1>9 DEF Accepted
  <2>3. response' = GivenHead(Answer.wide, Len(Answer.matches), Answer.totals, 0)
    <3>1. response' = [response EXCEPT !.totals = Answer.totals]
      BY <1>1, <1>5, <1>11
    <3> QED
      BY <1>3, <3>1 DEF GivenHead, Given
  <2>4. AtWordCount'
    BY <1>9, <2>1, <2>2, <2>3 DEF AtWordCount, GivenHead
  <2> QED
    BY <1>1, <2>4 DEF InStep
<1> QED
  BY <1>8, <1>10, <1>11

LEMMA InStepAtWordCount ==
    ASSUME BaseInv, AtWordCount, ReadWordCount
    PROVE  InStep' \/ Off'
<1> DEFINE rest == WordsOn(Answer, 0)
           n == Len(Answer.words)
<1>1. PICK junk \in Junk :
        /\ Consumed(<<Get(dataStartPtr, 1, <<junk>>)>>)
        /\ Loop("words", Get(dataStartPtr, 1, <<junk>>).value[1])
  BY DEF ReadWordCount
<1> DEFINE r == Get(dataStartPtr, 1, <<junk>>)
<1>2. /\ Consumed(<<r>>) /\ UNCHANGED <<current, response, errorStatus>>
      /\ pc' = "words" /\ count' = r.value[1] /\ i' = 0
  BY <1>1 DEF ReadWordCount, Loop, Goto
<1>3. BufferOK /\ Proper(Answer)
  BY Here DEF BaseInv
<1>4. n \in Nat /\ rest \in Seq(Nat) /\ 0 \in 0 .. n
  <2>1. n \in Nat /\ 0 \in 0 .. n
    BY <1>3, AnswerTyped, LenProperties
  <2> QED
    BY <1>3, <2>1, WordsOnward
<1>5. /\ Comes(<<n>> \o rest) /\ Accepted
      /\ response = GivenHead(Answer.wide, Len(Answer.matches), Answer.totals, 0)
  BY <1>3, WordsOnward DEF AtWordCount
<1> HIDE DEF r, rest, n
<1>6. /\ Forward
      /\ (r.value = <<n>> /\ Then(rest)) \/ Fell(rest)
  BY <1>2, <1>3, <1>4, <1>5, TakeNumber DEF r
<1>7. Answer' = Answer
  BY <1>2, <1>6, AnswerKept
<1>8. CASE Fell(rest)
  BY <1>2, <1>3, <1>4, <1>6, <1>8, FallsOff DEF HeadStages
<1>9. CASE r.value = <<n>> /\ Then(rest)
  <2>1. Comes(WordsOn(Answer, i))'
    BY <1>2, <1>6, <1>7, <1>9, ThenComes DEF Comes, Stands, rest
  <2>2. Counted(Answer.words)' /\ Accepted'
    BY <1>2, <1>4, <1>5, <1>7, <1>9 DEF Counted, Accepted, n
  <2>3. AtWords'
    BY <1>2, <1>5, <1>7, <2>1, <2>2 DEF AtWords, GivenHead
  <2> QED
    BY <1>2, <2>3 DEF InStep
<1> QED
  BY <1>6, <1>8, <1>9

LEMMA InStepAtWord ==
    ASSUME BaseInv, AtWords, ReadWord
    PROVE  InStep' \/ Off'
<1> DEFINE r == GetString(dataStartPtr)
           s == Get(r.next, 1, <<Garbage>>)
           t == Get(s.next, 1, <<Garbage>>)
           n == Len(Answer.words)
           rest == WordsOn(Answer, i + 1)
           word == Answer.words[i + 1]
           text == EncodeString(word.word)
<1>1. /\ Consumed(<<r, s, t>>) /\ UNCHANGED <<current, errorStatus, count>>
      /\ pc' = pc /\ pc = "words" /\ i < count /\ i' = i + 1
      /\ response' = WithWord(response, r.value, s.value \o t.value)
  BY DEF ReadWord, WithWord
<1>2. BufferOK /\ Proper(Answer)
  BY Here DEF BaseInv
<1>3. /\ Comes(WordsOn(Answer, i)) /\ Accepted /\ count = n /\ i \in 0 .. n
      /\ response = GivenHead(Answer.wide, Len(Answer.matches), Answer.totals, i)
  BY DEF AtWords, Counted
<1>4. n \in Nat /\ i \in 0 .. n - 1 /\ i \in Nat /\ i + 1 \in 0 .. n /\ i + 1 \in 1 .. n
  <2>1. n \in Nat
    BY <1>2, AnswerTyped, LenProperties
  <2> QED
    BY <1>1, <1>3, <2>1
<1>5. /\ word.word \in Seq(Nat) /\ word.docs \in Nat /\ word.hits \in Nat
      /\ rest \in Seq(Nat)
      /\ Comes(text \o (<<word.docs>> \o (<<word.hits>> \o rest)))
  <2>1. word \in [word : Seq(Nat), docs : Nat, hits : Nat]
    BY <1>2, <1>4, AnswerTyped, ElementOfSeq
  <2>2. word.word \in Seq(Nat) /\ word.docs \in Nat /\ word.hits \in Nat
    BY <2>1
  <2> QED
    BY <1>2, <1>3, <1>4, <2>2, WordsOnward
<1> HIDE DEF r, s, t, rest, n, word, text
<1>6. text \in Seq(Nat) /\ Gives(r, dataStartPtr, Len(text), word.word)
  <2> DEFINE behind == <<word.docs>> \o (<<word.hits>> \o rest)
  <2>1. behind \in Seq(Nat)
    <3>1. <<word.docs>> \in Seq(Nat) /\ <<word.hits>> \in Seq(Nat)
      BY <1>5
    <3> QED
      BY <1>5, <3>1, ConcatProperties
  <2>2. Comes(text \o behind)
    BY <1>5
  <2> HIDE DEF behind
  <2> QED
    BY <1>2, <1>5, <2>1, <2>2, NextText DEF r, text
<1>7. /\ Forward
      /\ \/ r.value = word.word /\ s.value = <<word.docs>> /\ t.value = <<word.hits>>
            /\ Then(rest)
         \/ Fell(rest)
  <2>1. s = Get(r.next, 1, <<Garbage>>) /\ t = Get(s.next, 1, <<Garbage>>)
    BY DEF s, t
  <2>2. Three(text, word.docs, word.hits, rest, word.word, r, s, t)
    BY <1>1, <1>5, <1>6, <2>1 DEF Three
  <2> QED
    BY <1>2, <2>2, TakeThree
<1>8. Answer' = Answer
  BY <1>1, <1>7, AnswerKept
<1>9. CASE Fell(rest)
  BY <1>1, <1>2, <1>5, <1>7, <1>9, FallsOff DEF HeadStages
<1>10. CASE r.value = word.word /\ s.value = <<word.docs>> /\ t.value = <<word.hits>>
            /\ Then(rest)
  <2>1. Comes(WordsOn(Answer, i))'
    BY <1>1, <1>7, <1>8, <1>10, ThenComes DEF Comes, Stands, rest
  <2>2. Counted(Answer.words)' /\ Accepted'
    BY <1>1, <1>3, <1>4, <1>8 DEF Counted, Accepted, n
  <2>3. response' = GivenHead(Answer.wide, Len(Answer.matches), Answer.totals, i + 1)
    <3> DEFINE numbers == <<word.docs, word.hits>>
    <3>1. s.value \o t.value = numbers
      <4> DEFINE a == word.docs
                 b == word.hits
      <4>1. s.value = <<a>> /\ t.value = <<b>>
        BY <1>10
      <4> HIDE DEF a, b
      <4>2. a \in Nat /\ b \in Nat
        BY <1>5 DEF a, b
      <4>3. <<a>> \o <<b>> = <<a, b>>
        BY <4>2, TwoNumbers
      <4> QED
        BY <4>1, <4>3 DEF numbers, a, b
    <3> HIDE DEF numbers
    <3>2. response' = WithWord(response, word.word, numbers)
      BY <1>1, <1>10, <3>1
    <3>3. \A b, f, a, m, totals :
            WithWord(Given(Answer, f, a, b, m, totals, i), word.word, numbers)
              = Given(Answer, f, a, b, m, totals, i + 1)
      BY <1>4, GivenWord DEF word, numbers
    <3> QED
      BY <1>3, <3>2, <3>3 DEF GivenHead
  <2>4. AtWords'
    BY <1>1, <1>8, <2>1, <2>2, <2>3 DEF AtWords, GivenHead
  <2> QED
    BY <1>1, <2>4 DEF InStep
<1> QED
  BY <1>7, <1>9, <1>10

LEMMA InStepAtEnd ==
    ASSUME BaseInv, AtWords, ParseReturns
    PROVE  InStep'
<1>1. /\ UNCHANGED <<current, response, dataStartPtr>> /\ i >= count /\ pc' = "returned"
      /\ outcome' = IF errorStatus = SEARCHD_WARNING THEN "Warning" ELSE "ok"
  BY DEF ParseReturns, Return, buffer
<1>2. BufferOK /\ Proper(Answer)
  BY Here DEF BaseInv
<1>3. Forward
  BY StillBase
<1>4. Answer' = Answer /\ Ends'[current'] = Ends[current]
  BY <1>1, <1>3, AnswerKept
<1>5. Comes(WordsOn(Answer, i)) /\ Accepted /\ Counted(Answer.words)
      /\ response = GivenHead(Answer.wide, Len(Answer.matches), Answer.totals, i)
  BY DEF AtWords
<1>6. i = Len(Answer.words)
  <2>1. Len(Answer.words) \in Nat
    BY <1>2, AnswerTyped, LenProperties
  <2> QED
    BY <1>1, <1>5, <2>1 DEF Counted
<1>7. dataStartPtr = Ends[current]
  <2>1. WordsOn(Answer, i) = <<>> /\ Len(<<>>) = 0
    BY <1>2, <1>6, WordsOnward
  <2>2. dataStartPtr + 0 = Ends[current] /\ dataStartPtr \in Nat
    BY <1>2, <1>5, <2>1, Here DEF Comes
  <2> QED
    BY <2>2
<1>8. response = Answered(Answer)
  BY <1>2, <1>5, <1>6, GivenAll DEF GivenHead
<1>9. outcome' = CASE Answer.status = SEARCHD_OK      -> "ok"
                   [] Answer.status = SEARCHD_WARNING -> "Warning"
                   [] OTHER                           -> "MessageError"
  <2>1. Answer.status \in {SEARCHD_OK, SEARCHD_WARNING} /\ errorStatus = Answer.status
    BY <1>2, <1>5, AnswerTyped DEF Accepted
  <2> QED
    BY <1>1, <2>1 DEF SEARCHD_OK, SEARCHD_WARNING
<1>10. AtReturn'
  BY <1>1, <1>4, <1>7, <1>8, <1>9 DEF AtReturn
<1> QED
  BY <1>1, <1>10 DEF InStep

\* In step the memory suffices: only what was never sent is too much.
LEMMA InStepOutOfMemory ==
    ASSUME BaseInv, InStep, OutOfMemory
    PROVE  Off'
<1>1. /\ UNCHANGED <<current, message, dataStartPtr, residue, answers>> /\ pc' = "returned"
  BY DEF OutOfMemory, Return, buffer
<1>2. BufferOK /\ Proper(Answer)
  BY Here DEF BaseInv
<1>3. Forward
  BY StillBase
<1>4. HasMemory(Answer) /\ MaxElements \in Nat
  BY <1>2, ParserAssumption DEF Proper
<1>5. ASSUME pc \in {"fields", "attributes", "matches"}, i >= MaxElements, i < count
      PROVE  FALSE
  <2>1. count <= MaxElements
    BY <1>4, <1>5 DEF InStep, HasMemory, AtFields, AtAttributes, AtMatches, Counted
  <2>2. i \in Nat /\ count \in Nat
    BY DEF BaseInv, LoopOK
  <2> QED
    BY <1>4, <1>5, <2>1, <2>2
<1> DEFINE k == j + 1
           length == Get(dataStartPtr, 1, <<Garbage>>)
           n == i + 1
           type == Answer.attributes[k].type
           value == Answer.matches[n].values[k]
           rest == ValuesOn(Answer, n, k)
<1>6. pc = "values" /\ j < Len(response.attribute)
  BY <1>5 DEF OutOfMemory
<1>7. AtValues
  BY <1>6 DEF InStep
<1>8. /\ Counted(Answer.matches) /\ i < count /\ Comes(ValuesOn(Answer, n, j))
      /\ j \in 0 .. Len(Answer.attributes)
      /\ response = GivenHead(Answer.wide, i, <<0, 0, 0>>, 0)
  BY <1>7 DEF AtValues
<1>9. response.attribute = Answer.attributes
  BY <1>2, <1>8, HeadGiven
<1>10. /\ type \in {SPH_ATTR_MULTI, SPH_ATTR_MULTI64}
       /\ ~length.ok \/ \E width \in {1, 2} : Iterations(length.value[1] \div width) > MaxElements
  BY <1>5, <1>9 DEF OutOfMemory
<1>11. /\ n \in 1 .. Len(Answer.matches) /\ k \in 1 .. Len(Answer.attributes)
       /\ k \in 0 .. Len(Answer.attributes) /\ j \in 0 .. Len(Answer.attributes) - 1
  <2>1. Len(Answer.matches) \in Nat /\ Len(Answer.attributes) \in Nat
    BY <1>2, AnswerTyped, LenProperties
  <2> QED
    BY <1>6, <1>8, <1>9, <2>1 DEF Counted
<1>12. value \in Seq(Nat) /\ Len(value) <= MaxElements /\ Len(value) \in Nat
  BY <1>2, <1>11, MatchTyped, LenProperties
<1>13. rest \in Seq(Nat)
       /\ Comes(EncodeValue(Answer.attributes[k].type, value) \o rest)
  BY <1>2, <1>8, <1>11, ValuesOnward
<1>14. EncodeValue(Answer.attributes[k].type, value) = EncodeString(value)
  BY <1>10 DEF EncodeValue
<1> HIDE DEF k, length, n, type, value, rest
<1>15. EncodeString(value) \in Seq(Nat) /\ Len(EncodeString(value)) = Len(value) + 1
  BY <1>12, StringEncoded
<1>16. Comes(EncodeString(value) \o rest)
  BY <1>13, <1>14
<1>17. Stands(dataStartPtr, EncodeString(value))
       /\ dataStartPtr + Len(EncodeString(value)) + Len(rest) = Ends[current]
       /\ Len(rest) \in Nat
  BY <1>2, <1>13, <1>15, <1>16, ComesParts
<1>18. Gives(length, dataStartPtr, 1, <<Len(value)>>)
  <2>1. Stands(dataStartPtr, <<Len(value)>>)
    <3>1. <<Len(value)>> \in Seq(Nat) /\ value \in Seq(Nat)
      BY <1>12
    <3>2. Stands(dataStartPtr, <<Len(value)>> \o value)
      BY <1>17 DEF EncodeString
    <3>3. dataStartPtr \in Nat /\ Message
      BY <1>2, Here DEF BufferOK, Message
    <3> QED
      BY <3>1, <3>2, <3>3, StandsParts
  <2> QED
    BY <1>2, <1>12, <2>1, NextNumber DEF length, BufferOK
<1>19. ~length.ok
  <2>1. length.ok => length.value = <<Len(value)>>
    BY <1>18 DEF Gives
  <2>2. <<Len(value)>>[1] = Len(value)
    OBVIOUS
  <2>3. length.ok => length.value[1] = Len(value)
    BY <2>1, <2>2
  <2>4. ASSUME NEW width \in {1, 2}
        PROVE  ~(Iterations(Len(value) \div width) > MaxElements)
    BY <1>4, <1>12 DEF Iterations
  <2> QED
    BY <1>10, <2>3, <2>4
<1>20. ~(dataStartPtr + 1 <= Len(message))
  BY <1>18, <1>19 DEF Gives
<1>21. dataStartPtr = Len(message) /\ Len(message) < Ends[current]
  <2>1. Len(message) \in Nat /\ dataStartPtr \in Nat /\ dataStartPtr <= Len(message)
    BY <1>2, Here
  <2>2. dataStartPtr + (Len(value) + 1) + Len(rest) = Ends[current]
    BY <1>15, <1>17
  <2> QED
    BY <1>12, <1>17, <1>20, <2>1, <2>2
<1>22. Len(message') < Ends'[current'] /\ dataStartPtr' = Len(message')
  BY <1>1, <1>3, <1>21, AnswerKept
<1> QED
  BY <1>1, <1>22 DEF Off, HeadStages
-----------------------------------------------------------------------------
(* Every step keeps the invariant *)

\* No step but the next answer goes back to the head, and only with the number
\* of matches is it left.
LEMMA StageOrder ==
    ASSUME [Next]_vars, ~NextAnswer
    PROVE  /\ UNCHANGED current
           /\ pc' \in HeadStages => pc \in HeadStages
           /\ Late' => Late \/ (ReadMatchCount /\ pc' = "idWidth")
<1>1. CASE ReadStatus
  <2>1. /\ pc = "status" /\ UNCHANGED current
        /\ \/ pc' = "returned" /\ outcome' = "MessageError"
           \/ pc' = "fieldCount" \/ pc' = "description"
    BY <1>1 DEF ReadStatus, Return, Goto
  <2> QED
    BY <2>1 DEF HeadStages, Late
<1>2. CASE ReadDescription \/ ReadFieldCount
  <2>1. /\ pc \in HeadStages /\ UNCHANGED current
        /\ \/ pc' = "returned" /\ outcome' = "MessageError"
           \/ pc' = "fieldCount" \/ pc' = "fields"
    BY <1>2 DEF ReadDescription, ReadFieldCount, Return, Goto, Loop, HeadStages
  <2> QED
    BY <2>1 DEF HeadStages, Late
<1>3. CASE ReadField \/ ReadAttribute \/ ReadValue \/ ReadWord
  <2>1. UNCHANGED <<current, pc, outcome>>
    BY <1>3 DEF ReadField, ReadAttribute, ReadValue, ReadWord
  <2> QED
    BY <2>1 DEF Late
<1>4. CASE \/ LoopEnds("fields", "attrCount") \/ LoopEnds("attributes", "matchCount")
           \/ ReadAttrCount
  <2>1. /\ pc \in HeadStages /\ UNCHANGED current
        /\ pc' = "attrCount" \/ pc' = "matchCount" \/ pc' = "attributes"
    BY <1>4 DEF LoopEnds, ReadAttrCount, Goto, Loop, HeadStages
  <2> QED
    BY <2>1 DEF Late
<1>5. CASE ReadMatchCount
  <2>1. /\ pc = "matchCount" /\ UNCHANGED current
        /\ \/ pc' = "returned" /\ outcome' = "MessageError"
           \/ pc' = "idWidth"
    BY <1>5 DEF ReadMatchCount, Return, Goto, Loop
  <2> QED
    BY <1>5, <2>1 DEF HeadStages, Late
<1>6. CASE \/ ReadIdWidth \/ ReadMatch \/ MatchRead \/ LoopEnds("matches", "totals")
           \/ ReadTotals \/ ReadWordCount \/ ParseReturns
  <2>1. /\ pc \in {"idWidth", "matches", "values", "totals", "wordCount", "words"}
        /\ UNCHANGED current
        /\ pc' \in {"matches", "values", "totals", "wordCount", "words", "returned"}
    BY <1>6 DEF ReadIdWidth, ReadMatch, MatchRead, LoopEnds, ReadTotals, ReadWordCount,
                ParseReturns, Return, Goto, Loop
  <2> QED
    BY <2>1 DEF HeadStages, Late
<1>7. CASE OutOfMemory
  BY <1>7 DEF OutOfMemory, Return, HeadStages, Late
<1>8. CASE QueryReturned \/ UNCHANGED vars
  BY <1>8 DEF QueryReturned, vars, Late
<1> QED
  BY <1>1, <1>2, <1>3, <1>4, <1>5, <1>6, <1>7, <1>8 DEF Next

\* A step from a place in step.
LEMMA InStepNext ==
    ASSUME BaseInv, InStep, [Next]_vars, ~NextAnswer
    PROVE  InStep' \/ Off'
<1>1. CASE ReadStatus
  BY <1>1, InStepAtStatus DEF InStep, ReadStatus
<1>2. CASE ReadDescription
  BY <1>2, InStepAtDescription DEF InStep, ReadDescription
<1>3. CASE ReadFieldCount
  BY <1>3, InStepAtFieldCount DEF InStep, ReadFieldCount
<1>4. CASE ReadField
  BY <1>4, InStepAtField DEF InStep, ReadField
<1>5. CASE LoopEnds("fields", "attrCount")
  <2>1. pc = "fields" /\ AtFields
    BY <1>5 DEF InStep, LoopEnds
  <2> QED
    BY <1>5, <2>1, InStepAtLoopEnds
<1>6. CASE ReadAttrCount
  BY <1>6, InStepAtAttrCount DEF InStep, ReadAttrCount
<1>7. CASE ReadAttribute
  BY <1>7, InStepAtAttribute DEF InStep, ReadAttribute
<1>8. CASE LoopEnds("attributes", "matchCount")
  <2>1. pc = "attributes" /\ AtAttributes
    BY <1>8 DEF InStep, LoopEnds
  <2> QED
    BY <1>8, <2>1, InStepAtLoopEnds
<1>9. CASE ReadMatchCount
  BY <1>9, InStepAtMatchCount DEF InStep, ReadMatchCount
<1>10. CASE ReadIdWidth
  BY <1>10, InStepAtIdWidth DEF InStep, ReadIdWidth
<1>11. CASE ReadMatch
  BY <1>11, InStepAtMatch DEF InStep, ReadMatch
<1>12. CASE ReadValue
  BY <1>12, InStepAtValue DEF InStep, ReadValue
<1>13. CASE MatchRead
  BY <1>13, InStepAtMatchRead DEF InStep, MatchRead
<1>14. CASE LoopEnds("matches", "totals")
  <2>1. pc = "matches" /\ AtMatches
    BY <1>14 DEF InStep, LoopEnds
  <2> QED
    BY <1>14, <2>1, InStepAtLoopEnds
<1>15. CASE ReadTotals
  BY <1>15, InStepAtTotals DEF InStep, ReadTotals
<1>16. CASE ReadWordCount
  BY <1>16, InStepAtWordCount DEF InStep, ReadWordCount
<1>17. CASE ReadWord
  BY <1>17, InStepAtWord DEF InStep, ReadWord
<1>18. CASE ParseReturns
  BY <1>18, InStepAtEnd DEF InStep, ParseReturns
<1>19. CASE OutOfMemory
  BY <1>19, InStepOutOfMemory
<1>20. CASE QueryReturned \/ UNCHANGED vars
  <2>1. /\ UNCHANGED <<message, dataStartPtr, answers, residue, count, i, j>>
        /\ UNCHANGED <<current, errorStatus, entry, response, pc, outcome>>
    BY <1>20 DEF QueryReturned, vars, loop, buffer
  <2>2. Answer' = Answer /\ Ends' = Ends
    BY <2>1, EndsKept DEF Answer
  <2>3. /\ AtStatus => AtStatus'
        /\ AtDescription => AtDescription'
        /\ AtFieldCount => AtFieldCount'
    BY <2>1, <2>2 DEF AtStatus, AtDescription, AtFieldCount, Comes, Stands,
                         Accepted, Counted, GivenHead
  <2>4. /\ AtFields => AtFields'
        /\ AtAttrCount => AtAttrCount'
    BY <2>1, <2>2 DEF AtFields, AtAttrCount, Comes, Stands, Accepted, Counted, GivenHead
  <2>5. /\ AtAttributes => AtAttributes'
        /\ AtMatchCount => AtMatchCount'
        /\ AtIdWidth => AtIdWidth'
    BY <2>1, <2>2 DEF AtAttributes, AtMatchCount, AtIdWidth, Comes, Stands,
                         Accepted, Counted, GivenHead
  <2>6. /\ AtMatches => AtMatches'
        /\ AtValues => AtValues'
    BY <2>1, <2>2 DEF AtMatches, AtValues, Comes, Stands, Accepted, Counted, GivenHead
  <2>7. /\ AtTotals => AtTotals'
        /\ AtWordCount => AtWordCount'
        /\ AtWords => AtWords'
    BY <2>1, <2>2 DEF AtTotals, AtWordCount, AtWords, Comes, Stands,
                         Accepted, Counted, GivenHead
  <2>8. /\ AtReturn => AtReturn'
    BY <2>1, <2>2 DEF AtReturn, Comes, Stands, Accepted, Counted, GivenHead
  <2> QED
    BY <2>1, <2>3, <2>4, <2>5, <2>6, <2>7, <2>8 DEF InStep
<1> QED
  BY <1>1, <1>2, <1>3, <1>4, <1>5, <1>6, <1>7, <1>8, <1>9, <1>10, <1>11, <1>12, <1>13,
     <1>14, <1>15, <1>16, <1>17, <1>18, <1>19, <1>20 DEF Next

\* From an answer to the next.
LEMMA NextAnswerStep ==
    ASSUME BaseInv, MessageStands, InStep \/ Off, NextAnswer
    PROVE  (InStep' \/ Off') /\ PastHead'
<1>1. /\ UNCHANGED <<message, dataStartPtr, answers, residue>>
      /\ pc = "returned" /\ current < Len(answers) /\ current' = current + 1
      /\ pc' = "status" /\ outcome' = "none" /\ response' = EmptyResponse
  BY DEF NextAnswer, buffer
<1> DEFINE next == current + 1
<1>2. /\ Ends' = Ends /\ Answer' = answers[next]
  BY <1>1, EndsKept DEF Answer
<1>3. /\ current \in 1 .. Len(answers) /\ next \in 1 .. Len(answers) /\ next - 1 = current
      /\ next \in DOMAIN answers /\ answers \in AnswerLists
  <2>1. /\ current \in DOMAIN answers /\ DOMAIN answers = 1 .. Len(answers)
        /\ Len(answers) \in Nat /\ answers \in AnswerLists
    BY ProperAnswers DEF BaseInv, BufferOK
  <2> QED
    BY <1>1, <2>1
<1>4. /\ Ends[next] = Ends[current] + Len(Encode(answers[next]))
      /\ Ends[current] \in Nat
  <2>1. Ends[next] = Ends[next - 1] + Len(Encode(answers[next]))
    BY <1>3, EndsProperties
  <2>2. current \in 0 .. Len(answers)
    BY <1>3
  <2> QED
    BY <1>3, <2>1, <2>2, EndsProperties
<1>5. /\ Len(Encode(answers[next])) \in Nat /\ Len(EncodeHead(answers[next])) \in Nat
  <2>1. Proper(answers[next])
    BY <1>3, ProperAnswers
  <2> QED
    BY <2>1, AnswerOnward, LenProperties
<1> HIDE DEF next
<1>6. PastHead'
  BY <1>1 DEF PastHead, Late
<1>7. CASE InStep
  <2>1. dataStartPtr = Ends[current]
    BY <1>1, <1>7 DEF InStep, AtReturn
  <2>2. Stands(Ends[current], Encode(answers[next]))
    BY <1>3 DEF MessageStands
  <2>3. current' = next
    BY <1>1 DEF next
  <2>4. Comes(Encode(Answer))'
    BY <1>1, <1>2, <1>4, <2>1, <2>2, <2>3 DEF Comes, Stands
  <2>5. AtStatus'
    BY <1>1, <2>4 DEF AtStatus
  <2> QED
    BY <1>1, <1>6, <2>5 DEF InStep
<1>8. CASE Off
  <2>1. Len(message) < Ends[current] /\ (residue \/ dataStartPtr = Len(message))
    BY <1>8 DEF Off
  <2>2. Len(message) \in Nat
    BY Here DEF BaseInv
  <2>3. Len(message) < Ends[next]
        /\ Len(message) < Ends[current] + Len(EncodeHead(answers[next]))
    BY <1>4, <1>5, <2>1, <2>2
  <2>4. current' = next /\ current' - 1 = current
    BY <1>1, <1>3 DEF next
  <2>5. HeadEnd' = Ends[current] + Len(EncodeHead(answers[next]))
    BY <1>2, <2>4 DEF HeadEnd
  <2>6. Off'
    BY <1>1, <1>2, <2>1, <2>3, <2>4, <2>5 DEF Off
  <2> QED
    BY <1>6, <2>6
<1> QED
  BY <1>7, <1>8

\* Where the number of matches is read, the head is whole or something was
\* left behind.
LEMMA HeadIsPast ==
    ASSUME BaseInv, InStep \/ Off, ReadMatchCount, pc' = "idWidth", ~residue'
    PROVE  Len(message) >= HeadEnd
<1> DEFINE r == Get(dataStartPtr, 1, <<Garbage>>)
           tail == EncodeTail(Answer)
           n == Len(Answer.matches)
<1>1. pc = "matchCount" /\ r.ok /\ Forward
  BY CountsBase DEF ReadMatchCount, Return
<1>2. BufferOK /\ Proper(Answer)
  BY Here DEF BaseInv
<1>3. dataStartPtr + 1 <= Len(message)
  BY <1>1, <1>2, GetProperties DEF BufferOK, Message
<1> HIDE DEF r
<1>4. CASE InStep
  <2>1. Comes(<<n>> \o tail)
    BY <1>1, <1>4 DEF InStep, AtMatchCount, MatchCountOn
  <2>2. n \in Nat /\ tail \in Seq(Nat)
    BY <1>2, AnswerTyped, MatchesOnward, LenProperties
  <2>3. <<n>> \in Seq(Nat) /\ Len(<<n>>) = 1
    BY <2>2
  <2> HIDE DEF n, tail
  <2>4. dataStartPtr + 1 + Len(tail) = Ends[current] /\ Len(tail) \in Nat
    BY <1>2, <2>1, <2>2, <2>3, ComesParts
  <2>5. Ends[current] = HeadEnd + Len(tail) /\ HeadEnd \in Nat
    BY <1>2, Here DEF tail
  <2>6. Len(message) \in Nat /\ dataStartPtr \in Nat
    BY <1>2, Here
  <2> QED
    BY <1>3, <2>4, <2>5, <2>6
<1>5. CASE Off
  <2>1. ~residue
    BY <1>1 DEF Forward
  <2>2. dataStartPtr = Len(message) /\ Len(message) \in Nat
    BY <1>2, <1>5, <2>1, Here DEF Off
  <2> QED
    BY <1>3, <2>2
<1> QED
  BY <1>4, <1>5

LEMMA ParseStep ==
    ASSUME BaseInv, ParseInv, [Next]_vars
    PROVE  ParseInv'
<1>1. Forward
  BY BaseStep
<1>2. MessageStands'
  <2>1. answers' = answers /\ message' = message /\ Ends' = Ends
    BY <1>1, EndsKept DEF Forward
  <2> QED
    BY <2>1 DEF ParseInv, MessageStands, Stands
<1>3. CASE NextAnswer
  BY <1>2, <1>3, NextAnswerStep DEF ParseInv
<1>4. CASE ~NextAnswer
  <2>1. UNCHANGED current /\ (pc' \in HeadStages => pc \in HeadStages)
    BY <1>4, StageOrder
  <2>2. InStep' \/ Off'
    BY <1>1, <1>4, <2>1, InStepNext, OffStays DEF ParseInv, BaseInv
  <2>3. PastHead'
    <3>1. HeadEnd' = HeadEnd /\ message' = message /\ (~residue' => ~residue)
      BY <1>1, <2>1, AnswerKept DEF Forward
    <3>2. SUFFICES ASSUME Late', ~residue'
                   PROVE  Len(message) >= HeadEnd
      BY <3>1 DEF PastHead, Late
    <3>3. CASE Late
      BY <3>1, <3>2, <3>3 DEF ParseInv, PastHead, Late
    <3>4. CASE ReadMatchCount /\ pc' = "idWidth"
      BY <3>2, <3>4, HeadIsPast DEF ParseInv
    <3> QED
      BY <1>4, <3>2, <3>3, <3>4, StageOrder
  <2> QED
    BY <1>2, <2>2, <2>3 DEF ParseInv
<1> QED
  BY <1>3, <1>4

LEMMA ParseInit ==
    ASSUME Init
    PROVE  ParseInv
<1>1. /\ answers \in AnswerLists /\ current = 1 /\ dataStartPtr = 0
      /\ pc = "status" /\ response = EmptyResponse /\ outcome = "none"
  BY DEF Init
<1>2. MessageStands
  BY MessageInit
<1>3. 1 \in DOMAIN answers /\ 1 \in 1 .. Len(answers) /\ 1 - 1 = 0
  BY <1>1, ProperAnswers
<1>4. Stands(0, Encode(Answer)) /\ Ends[1] = 0 + Len(Encode(Answer))
  <2>1. Ends[0] = 0 /\ Ends[1] = Ends[1 - 1] + Len(Encode(answers[1]))
    BY <1>1, <1>3, EndsProperties
  <2>2. Stands(Ends[1 - 1], Encode(answers[1]))
    BY <1>2, <1>3 DEF MessageStands
  <2> QED
    BY <1>1, <1>3, <2>1, <2>2 DEF Answer
<1>5. InStep
  BY <1>1, <1>4 DEF InStep, AtStatus, Comes
<1>6. PastHead
  BY <1>1 DEF PastHead, Late
<1> QED
  BY <1>2, <1>5, <1>6 DEF ParseInv

LEMMA ParseHolds == Spec => [](BaseInv /\ ParseInv)
<1>1. Init => BaseInv /\ ParseInv
  BY BaseInit, ParseInit
<1>2. BaseInv /\ ParseInv /\ [Next]_vars => (BaseInv /\ ParseInv)'
  BY BaseStep, ParseStep
<1> QED
  BY <1>1, <1>2, PTL DEF Spec

\* An answer that is whole in the message is given as the server meant it,
\* wherever the message ends behind it and whatever was wrong before it.
THEOREM WholeAnswersAreGiven == Spec => []WholeAnswersGiven
<1>1. BaseInv /\ ParseInv => WholeAnswersGiven
  <2> SUFFICES ASSUME BaseInv, ParseInv, pc = "returned", Whole(current)
               PROVE  /\ dataStartPtr = Ends[current]
                      /\ outcome = CASE Answer.status = SEARCHD_OK      -> "ok"
                                     [] Answer.status = SEARCHD_WARNING -> "Warning"
                                     [] OTHER                           -> "MessageError"
                      /\ outcome # "MessageError" => response = Answered(Answer)
    BY DEF WholeAnswersGiven, Answer
  <2>1. Ends[current] <= Len(message) /\ Ends[current] \in Nat /\ Len(message) \in Nat
    BY Here DEF Whole, BaseInv
  <2>2. ~Off
    BY <2>1 DEF Off
  <2>3. AtReturn
    BY <2>2 DEF ParseInv, InStep
  <2> QED
    BY <2>3 DEF AtReturn
<1> QED
  BY ParseHolds, <1>1, PTL

\* A response is returned without an error only if its head was whole, or a
\* value was cut and what was left of it taken for others.
THEOREM ShortHeadsAreReported == Spec => []ShortHeadReported
<1>1. BaseInv /\ ParseInv => ShortHeadReported
  BY DEF ParseInv, PastHead, Late, ShortHeadReported, HeadEnd, Answer
<1> QED
  BY ParseHolds, <1>1, PTL
=============================================================================
