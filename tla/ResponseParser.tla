--------------------------- MODULE ResponseParser ---------------------------
(***************************************************************************)
(* parseResponse_v0_9_8, src/src/queryversions.cc, called once per answer  *)
(* by the loop of Client_t::query (src/src/sphinxclient.cc) over one       *)
(* message, which may end too early at any word.                           *)
(*                                                                         *)
(* One action is one read or one iteration.  Only four reads are checked:  *)
(* after any other that fails the parser goes on, with whatever the target *)
(* holds: any number of Junk where it decides how to go on, "Garbage"      *)
(* where it is only stored.  (That an attribute has no type means that the *)
(* number of matches, the next read checked, is missing too.)  Text taken  *)
(* for a count is a large number, and the memory may or may not suffice    *)
(* for so many elements.                                                   *)
(***************************************************************************)
EXTENDS ResponseBuffer, SearchAnswer

CONSTANTS
    AnswerLists,    \* what the server may have answered, a set of sequences
    Junk,           \* numbers an uninitialised counter may hold
    MaxElements,    \* so many elements of a vector always find memory
    IntMax          \* INT_MAX

Names(attributes) == {attributes[k].name : k \in DOMAIN attributes}

\* A map with an entry more: behind or before the one its key has already.
Under(key, value, map) ==
    [k \in DOMAIN map \cup {key} |-> IF k \in DOMAIN map THEN map[k] ELSE value]
Over(key, value, map) ==
    [k \in DOMAIN map \cup {key} |-> IF k = key THEN value ELSE map[k]]

\* No vector of a response is longer than finds memory.
HasMemory(answer) ==
    /\ Len(answer.fields) <= MaxElements /\ Len(answer.attributes) <= MaxElements
    /\ Len(answer.matches) <= MaxElements
    /\ \A n \in DOMAIN answer.matches : \A k \in DOMAIN answer.attributes :
         Len(answer.matches[n].values[k]) <= MaxElements

ASSUME ParserAssumption ==
    /\ Junk \subseteq Nat /\ Junk # {} /\ MaxElements \in Nat
    /\ IntMax \in Nat /\ MaxElements <= IntMax
    /\ \A list \in AnswerLists :
         /\ list \in Seq(Answers) /\ list # <<>>
         /\ \A n \in DOMAIN list : Wellformed(list[n]) /\ HasMemory(list[n])

VARIABLES
    answers,         \* what the message is the encoding of
    current,         \* the answer that is parsed, from 1
    residue,         \* has a read failed with words left?
    pc,              \* the next read
    errorStatus,
    count, i,        \* bound and variable of the running loop
    j,               \* attributes read of the running match
    entry, response, outcome

buffer == <<message, dataStartPtr, answers, residue>>
loop == <<count, i, j>>
vars == <<buffer, loop, current, pc, errorStatus, entry, response, outcome>>

Garbage == -1

\* Response_t::clear() and the constructor of ResponseEntry_t
EmptyResponse ==
    [field |-> <<>>, attribute |-> <<>>, entry |-> <<>>, word |-> <<>>,
     totals |-> <<0, 0, 0>>, use64bitId |-> FALSE]
EmptyEntry == [documentId |-> <<0>>, weight |-> <<0>>, attribute |-> <<>>]

Init ==
    /\ answers \in AnswerLists
    /\ LET encoded == FlattenSeq([k \in DOMAIN answers |-> Encode(answers[k])])
       IN \E end \in 0 .. Len(encoded) : message = SubSeq(encoded, 1, end)
    /\ dataStartPtr = 0 /\ residue = FALSE
    /\ current = 1 /\ pc = "status" /\ errorStatus = Garbage
    /\ count = 0 /\ i = 0 /\ j = 0
    /\ entry = EmptyEntry /\ response = EmptyResponse /\ outcome = "none"

-----------------------------------------------------------------------------
\* The reads of an action, in their order, have been made.
Consumed(reads) ==
    /\ dataStartPtr' = reads[Len(reads)].next
    /\ residue' = (residue \/ \E k \in DOMAIN reads : LeavesWords(reads[k]))
    /\ UNCHANGED <<message, answers>>

Goto(stage) == pc' = stage /\ UNCHANGED outcome
Return(how) == pc' = "returned" /\ outcome' = how

Loop(stage, n) == Goto(stage) /\ count' = n /\ i' = 0 /\ j' = 0
LoopEnds(stage, next) ==
    /\ pc = stage /\ i >= count
    /\ Goto(next)
    /\ UNCHANGED <<buffer, loop, current, errorStatus, entry, response>>

ReadStatus ==
    /\ pc = "status"
    /\ LET status == Get(dataStartPtr, 1, <<Garbage>>)
       IN /\ Consumed(<<status>>) /\ errorStatus' = status.value[1]
          /\ CASE ~status.ok                    -> Return("MessageError")
               [] status.value = <<SEARCHD_OK>> -> Goto("fieldCount")
               [] OTHER                         -> Goto("description")
    /\ UNCHANGED <<loop, current, entry, response>>

\* That the description could be read is looked at for its wording only.
ReadDescription ==
    /\ pc = "description"
    /\ Consumed(<<GetString(dataStartPtr)>>)
    /\ IF errorStatus # SEARCHD_WARNING THEN Return("MessageError")
                                        ELSE Goto("fieldCount")
    /\ UNCHANGED <<loop, current, errorStatus, entry, response>>

ReadFieldCount ==
    /\ pc = "fieldCount"
    /\ LET fieldCount == Get(dataStartPtr, 1, <<Garbage>>)
       IN /\ Consumed(<<fieldCount>>)
          /\ IF fieldCount.ok THEN Loop("fields", fieldCount.value[1])
                              ELSE Return("MessageError") /\ UNCHANGED loop
    /\ UNCHANGED <<current, errorStatus, entry, response>>

ReadField ==
    /\ pc = "fields" /\ i < count
    /\ LET name == GetString(dataStartPtr)
       IN /\ Consumed(<<name>>)
          /\ response' = [response EXCEPT !.field = Append(@, name.value)]
    /\ i' = i + 1
    /\ UNCHANGED <<count, j, current, pc, errorStatus, entry, outcome>>

ReadAttrCount ==
    /\ pc = "attrCount"
    /\ \E junk \in Junk :
         LET attrCount == Get(dataStartPtr, 1, <<junk>>)
         IN Consumed(<<attrCount>>) /\ Loop("attributes", attrCount.value[1])
    /\ UNCHANGED <<current, errorStatus, entry, response>>

ReadAttribute ==
    /\ pc = "attributes" /\ i < count
    /\ LET name == GetString(dataStartPtr)
           type == Get(name.next, 1, <<Garbage>>)
       IN /\ Consumed(<<name, type>>)
          /\ response' = [response EXCEPT !.attribute =
               Append(@, [name |-> name.value, type |-> type.value[1]])]
    /\ i' = i + 1
    /\ UNCHANGED <<count, j, current, pc, errorStatus, entry, outcome>>

ReadMatchCountUnchecked ==
    /\ pc = "matchCount"
    /\ \E junk \in Junk :
         LET matchCount == Get(dataStartPtr, 1, <<junk>>)
         IN Consumed(<<matchCount>>) /\ Loop("idWidth", matchCount.value[1])
    /\ UNCHANGED <<current, errorStatus, entry, response>>

ReadMatchCount ==
    /\ pc = "matchCount"
    /\ LET matchCount == Get(dataStartPtr, 1, <<Garbage>>)
       IN /\ Consumed(<<matchCount>>)
          /\ IF matchCount.ok THEN Loop("idWidth", matchCount.value[1])
                              ELSE Return("MessageError") /\ UNCHANGED loop
    /\ UNCHANGED <<current, errorStatus, entry, response>>

\* clear() does not set use64bitId.
ReadIdWidth ==
    /\ pc = "idWidth"
    /\ \E junk \in Junk :
         LET wide == Get(dataStartPtr, 1, <<junk>>)
         IN /\ Consumed(<<wide>>)
            /\ response' = [response EXCEPT !.use64bitId = wide.value # <<0>>]
    /\ Goto("matches")
    /\ UNCHANGED <<loop, current, errorStatus, entry>>

ReadMatch ==
    /\ pc = "matches" /\ i < count
    /\ LET id     == IF response.use64bitId
                     THEN Get(dataStartPtr, 2, EmptyEntry.documentId)
                     ELSE Get(dataStartPtr, 1, <<Garbage>>)
           weight == Get(id.next, 1, EmptyEntry.weight)
       IN /\ Consumed(<<id, weight>>)
          /\ entry' = [EmptyEntry EXCEPT !.documentId = id.value,
                                         !.weight = weight.value]
    /\ j' = 0 /\ Goto("values")
    /\ UNCHANGED <<count, i, current, errorStatus, response>>

\* parseMultiAttribute takes the count as an int: above INT_MAX it is negative.
Iterations(value) == IF value <= IntMax THEN value ELSE 0

\* The length is in words, so that there are half as many values of 64 bits.
\* Without a length nothing is left, and any number of reads that fail makes a
\* list of garbage.
GetListAsCounted(width) ==
    LET length == Get(dataStartPtr, 1, <<Garbage>>)
    IN IF length.ok
       THEN GetMany(length.next, width, Iterations(length.value[1]), Garbage)
       ELSE length
GetList(width) ==
    LET length == Get(dataStartPtr, 1, <<Garbage>>)
    IN IF length.ok
       THEN GetMany(length.next, width, Iterations(length.value[1] \div width), Garbage)
       ELSE length

GetValue(type) ==
    CASE type = SPH_ATTR_BIGINT  -> Get(dataStartPtr, 2, <<Garbage, Garbage>>)
      [] type = SPH_ATTR_STRING  -> GetString(dataStartPtr)
      [] type = SPH_ATTR_MULTI   -> GetList(1)
      [] type = SPH_ATTR_MULTI64 -> GetList(2)
      [] OTHER                   -> Get(dataStartPtr, 1, <<Garbage>>)

\* map::insert: of two attributes with one name the first stays.
InsertRead(map, attribute, value) ==
    IF value.ok
    THEN Under(attribute.name, [tag |-> Tag(attribute.type), words |-> value.value], map)
    ELSE map
Insert(map, attribute, value) ==
    Under(attribute.name, [tag |-> Tag(attribute.type), words |-> value.value], map)

ReadValue ==
    /\ pc = "values" /\ j < Len(response.attribute)
    /\ LET attribute == response.attribute[j + 1]
           value == GetValue(attribute.type)
       IN /\ Consumed(<<value>>)
          /\ entry' = [entry EXCEPT !.attribute = Insert(@, attribute, value)]
    /\ j' = j + 1
    /\ UNCHANGED <<count, i, current, pc, errorStatus, response, outcome>>

MatchRead ==
    /\ pc = "values" /\ j = Len(response.attribute)
    /\ response' = [response EXCEPT !.entry = Append(@, entry)]
    /\ i' = i + 1 /\ Goto("matches")
    /\ UNCHANGED <<buffer, count, j, current, errorStatus, entry>>

ReadTotals ==
    /\ pc = "totals"
    /\ LET got   == Get(dataStartPtr, 1, <<0>>)
           found == Get(got.next, 1, <<0>>)
           time  == Get(found.next, 1, <<0>>)
       IN /\ Consumed(<<got, found, time>>)
          /\ response' = [response EXCEPT !.totals = got.value \o found.value \o time.value]
    /\ Goto("wordCount")
    /\ UNCHANGED <<loop, current, errorStatus, entry>>

ReadWordCount ==
    /\ pc = "wordCount"
    /\ \E junk \in Junk :
         LET wordCount == Get(dataStartPtr, 1, <<junk>>)
         IN Consumed(<<wordCount>>) /\ Loop("words", wordCount.value[1])
    /\ UNCHANGED <<current, errorStatus, entry, response>>

\* Of two statistics of one word the last stays.
ReadWord ==
    /\ pc = "words" /\ i < count
    /\ LET word == GetString(dataStartPtr)
           docs == Get(word.next, 1, <<Garbage>>)
           hits == Get(docs.next, 1, <<Garbage>>)
       IN /\ Consumed(<<word, docs, hits>>)
          /\ response' = [response EXCEPT !.word =
               Over(word.value, docs.value \o hits.value, @)]
    /\ i' = i + 1
    /\ UNCHANGED <<count, j, current, pc, errorStatus, entry, outcome>>

ParseReturns ==
    /\ pc = "words" /\ i >= count
    /\ Return(IF errorStatus = SEARCHD_WARNING THEN "Warning" ELSE "ok")
    /\ UNCHANGED <<buffer, loop, current, errorStatus, entry, response>>

\* std::bad_alloc in a vector of the response, or of an attribute.
OutOfMemory ==
    /\ \/ pc \in {"fields", "attributes", "matches"} /\ i >= MaxElements /\ i < count
       \/ /\ pc = "values" /\ j < Len(response.attribute)
          /\ \E width \in {1, 2} :
               LET length == Get(dataStartPtr, 1, <<Garbage>>)
               IN /\ response.attribute[j + 1].type =
                        IF width = 1 THEN SPH_ATTR_MULTI ELSE SPH_ATTR_MULTI64
                  /\ ~length.ok \/ Iterations(length.value[1] \div width) > MaxElements
    /\ Return("bad_alloc")
    /\ UNCHANGED <<buffer, loop, current, errorStatus, entry, response>>

\* The loop of Client_t::query: the next answer goes into a fresh Response_t.
\* An exception other than a warning ends it.
NextAnswer ==
    /\ pc = "returned" /\ outcome \in {"ok", "Warning"} /\ current < Len(answers)
    /\ current' = current + 1
    /\ pc' = "status" /\ outcome' = "none"
    /\ entry' = EmptyEntry /\ response' = EmptyResponse
    /\ UNCHANGED <<buffer, loop, errorStatus>>

QueryReturned ==
    /\ pc = "returned" /\ (outcome \in {"ok", "Warning"} => current = Len(answers))
    /\ UNCHANGED vars

Next ==
    \/ ReadStatus \/ ReadDescription
    \/ ReadFieldCount \/ ReadField \/ LoopEnds("fields", "attrCount")
    \/ ReadAttrCount \/ ReadAttribute \/ LoopEnds("attributes", "matchCount")
    \/ ReadMatchCount \/ ReadIdWidth
    \/ ReadMatch \/ ReadValue \/ MatchRead \/ LoopEnds("matches", "totals")
    \/ ReadTotals \/ ReadWordCount \/ ReadWord \/ ParseReturns
    \/ OutOfMemory \/ NextAnswer \/ QueryReturned

Spec == Init /\ [][Next]_vars

-----------------------------------------------------------------------------
(* Properties *)

Words == Seq(Int)

TypeOK ==
    /\ answers \in AnswerLists /\ current \in DOMAIN answers
    /\ message \in Seq(Nat) /\ dataStartPtr \in 0 .. Len(message)
    /\ residue \in BOOLEAN
    /\ pc \in {"status", "description", "fieldCount", "fields", "attrCount",
               "attributes", "matchCount", "idWidth", "matches", "values",
               "totals", "wordCount", "words", "returned"}
    /\ errorStatus \in Int /\ count \in Nat /\ i \in Nat /\ j \in Nat
    /\ response.field \in Seq(Words)
    /\ response.attribute \in Seq([name : Words, type : Int])
    /\ outcome \in {"none", "ok", "Warning", "MessageError", "bad_alloc"}

Ends[k \in 0 .. Len(answers)] ==
    IF k = 0 THEN 0 ELSE Ends[k - 1] + Len(Encode(answers[k]))
Whole(k) == Ends[k] <= Len(message)

AnsweredEntry(answer, match) ==
    [documentId |-> IF answer.wide THEN <<0, match.docId>> ELSE <<match.docId>>,
     weight     |-> <<match.weight>>,
     attribute  |->
       [name \in Names(answer.attributes) |->
          LET k == CHOOSE k \in DOMAIN answer.attributes : answer.attributes[k].name = name
          IN [tag |-> Tag(answer.attributes[k].type), words |-> match.values[k]]]]

LastOf(words, word) ==
    CHOOSE k \in DOMAIN words :
        words[k].word = word /\ \A m \in DOMAIN words : words[m].word = word => m <= k

Answered(answer) ==
    [field |-> answer.fields, attribute |-> answer.attributes,
     entry |-> [k \in DOMAIN answer.matches |-> AnsweredEntry(answer, answer.matches[k])],
     word  |-> [word \in {answer.words[k].word : k \in DOMAIN answer.words} |->
                  LET k == LastOf(answer.words, word)
                  IN <<answer.words[k].docs, answer.words[k].hits>>],
     totals |-> answer.totals, use64bitId |-> answer.wide]

\* Whatever became of the rest of the message, an answer that is whole in it is
\* given as the server meant it, an error and a warning as such, and the parser
\* stands at the next answer afterwards, an error included.
WholeAnswersGiven ==
    pc = "returned" /\ Whole(current) =>
        LET answer == answers[current]
        IN /\ dataStartPtr = Ends[current]
           /\ outcome = CASE answer.status = SEARCHD_OK      -> "ok"
                          [] answer.status = SEARCHD_WARNING -> "Warning"
                          [] OTHER                           -> "MessageError"
           /\ outcome # "MessageError" => response = Answered(answer)

\* A message that ends before the number of matches of an answer is reported:
\* although the reads between are not looked at, none of them can make up for
\* a missing one, unless a string or a number was cut in its middle and the
\* next reads take what is left of it.
ShortHeadReported ==
    pc = "returned" /\ outcome \in {"ok", "Warning"} /\ ~residue =>
        Len(message) >= Ends[current - 1] + Len(EncodeHead(answers[current]))

\* A caller may look up each attribute of the response in each match: also in
\* a response that was cut short, the matches have the attributes the response
\* names, all of them and no others.
EntriesHaveTheAttributes ==
    \A k \in DOMAIN response.entry :
        DOMAIN response.entry[k].attribute = Names(response.attribute)

\* "@throws SphinxClientError_t on any communication or parsing error"
\* (sphinxclient.h:849): no response is returned of an answer that was cut short.
ParsingErrorsThrown ==
    pc = "returned" /\ ~Whole(current) => outcome \notin {"ok", "Warning"}
=============================================================================
