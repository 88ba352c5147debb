------------------------------ MODULE Commands ------------------------------
(***************************************************************************)
(* The commands "update" and "keywords" of Client_t: AttributeUpdates_t,   *)
(* Client_t::updateAttributes and Client_t::getKeywords,                   *)
(* src/src/sphinxclient.cc, with the builders and parsers of their         *)
(* messages, src/src/queryversions.cc, over the buffers of QueryBuffer.    *)
(*                                                                         *)
(* Of the QueryMachine_t the reading of the one response is here, header   *)
(* and body in parts into one buffer; sending never loses a cell, and any  *)
(* step may end with an exception.  searchd is external: it takes the      *)
(* request apart by the wire format, independently of the builders, and    *)
(* its answer may be cut short at any cell.                                *)
(***************************************************************************)
EXTENDS RequestFrame, SearchdReader, FiniteSets

CONSTANTS
    Names,           \* attribute names: texts, sequences of cells
    Documents,       \* 64 bit document numbers
    Values,          \* Value_t: records of a type and a number
    Index, Texts,    \* a name of an index, queries to analyse
    Words,           \* words searchd may find in them
    MaxAttributes, MaxWords,   \* bounds
    MachineErrors    \* exceptions that end a batch of the machine

\* Lengths, counts and numbers fit into what they are sent in.
ASSUME CommandsAssumption ==
    /\ Documents \subseteq Nat /\ IsFiniteSet(Documents)
    /\ Cardinality(Documents) < WordLimit /\ \A d \in Documents : d \div WordLimit < WordLimit
    /\ Names \cup Texts \cup {Index} \subseteq Seq(Nat)
    /\ \A text \in Names \cup Texts \cup {Index} : 2 * Len(text) < WordLimit
    /\ \A w \in Words :
         /\ w \in [tokenized : Seq(Nat), normalized : Seq(Nat), docsHit : Nat, totalHits : Nat]
         /\ 2 * Len(w.tokenized) < WordLimit /\ 2 * Len(w.normalized) < WordLimit
         /\ w.docsHit < WordLimit /\ w.totalHits < WordLimit
    /\ MaxAttributes \in Nat /\ MaxWords \in Nat
    /\ MaxAttributes < WordLimit /\ MaxWords < WordLimit
    /\ \A v \in Values : /\ v.type \in {"uint32", "float", "uint64"} /\ v.number \in Nat
                         /\ v.type = "uint32" => v.number < WordLimit
    /\ {"none", "running", "ok", "ClientUsageError"} \cap MachineErrors = {}

SEARCHD_OK == 0
SEARCHD_ERROR == 1

VARIABLES
    attributes, values,   \* AttributeUpdates_t: names, and documents to values
    pc,                   \* "idle", "launch", "header", "body", "parse", "returned"
    command,              \* the command of the last call
    call,                 \* arguments of getKeywords: index, query, statistics
    request,              \* Query_t sent
    incoming,             \* cells of the response not yet received
    status,               \* its status
    data,                 \* Query_t the response is read into
    result,               \* what getKeywords returns
    outcome,              \* "none", "running", "ok" or the exception
    told                  \* what searchd has read, done and sent of this call

object == <<attributes, values>>
vars == <<object, pc, command, call, request, incoming, status, data,
          result, outcome, told>>

NoCall == <<Index, <<>>, FALSE>>
Nothing == [applied |-> {}, heard |-> <<>>, words |-> <<>>, whole |-> 0]

Init ==
    /\ attributes = <<>> /\ values = <<>>
    /\ pc = "idle" /\ command = 0 /\ call = NoCall
    /\ request = NetworkQuery /\ incoming = <<>> /\ status = SEARCHD_OK /\ data = NetworkQuery
    /\ result = <<>> /\ outcome = "none" /\ told = Nothing

-----------------------------------------------------------------------------
(* AttributeUpdates_t; the caller may go on after any outcome *)

Idle == pc \in {"idle", "returned"}
FreshResponse ==
    /\ incoming' = <<>> /\ status' = SEARCHD_OK /\ data' = NetworkQuery
    /\ result' = <<>> /\ told' = Nothing
FreshCall == request' = NetworkQuery /\ FreshResponse
Edit ==
    /\ Idle /\ pc' = "idle" /\ outcome' = "none" /\ command' = 0 /\ call' = NoCall
    /\ FreshCall

SetAttributeList ==
    /\ Edit
    /\ \E list \in BoundedSeq(Names, MaxAttributes) : attributes' = list
    /\ values' = <<>>

AddAttributeKeepsValues(name) ==
    /\ Edit /\ Len(attributes) < MaxAttributes
    /\ attributes' = Append(attributes, name)
    /\ UNCHANGED values
AddAttribute(name) ==
    /\ Edit /\ Len(attributes) < MaxAttributes
    /\ attributes' = Append(attributes, name)
    /\ values' = <<>>

WithDocument(d, vector) ==
    [e \in DOMAIN values \cup {d} |-> IF e = d THEN vector ELSE values[e]]

\* A vector of the wrong size is an exception and changes nothing.
AddDocument(d) ==
    \E vector \in BoundedSeq(Values, MaxAttributes) :
        /\ Idle /\ pc' = "idle" /\ FreshCall /\ command' = 0 /\ call' = NoCall
        /\ IF Len(vector) # Len(attributes)
           THEN outcome' = "ClientUsageError" /\ UNCHANGED values
           ELSE outcome' = "none" /\ values' = WithDocument(d, vector)
        /\ UNCHANGED attributes

\* The arguments are taken one by one for the attributes; of a type that is
\* neither uint32_t nor float none is taken, and the document gets no values.
AddDocumentTyped(d, type) ==
    /\ Edit
    /\ IF type \in {"uint32", "float"}
       THEN \E vector \in [DOMAIN attributes -> {v \in Values : v.type = type}] :
              values' = WithDocument(d, vector)
       ELSE values' = WithDocument(d, <<>>)
    /\ UNCHANGED attributes

-----------------------------------------------------------------------------
(* Building the requests *)

PutDocumentLow(q, d) == PutLong(q, d % CellBase ^ 2)
PutDocument(q, d) == PutLong(q, d)

\* (uint32_t)value throws for a value of another type.
Convertible == \A d \in DOMAIN values : \A k \in DOMAIN values[d] :
                    values[d][k].type = "uint32"
PutValue(q, value) == PutWord(q, value.number)

\* The three loops; a map is gone through in the order of its keys.
PutNames(q, names) ==
    LET After[k \in 0 .. Len(names)] ==
            IF k = 0 THEN q ELSE PutString(After[k - 1], names[k])
    IN After[Len(names)]
PutValues(q, vector) ==
    LET After[k \in 0 .. Len(vector)] ==
            IF k = 0 THEN q ELSE PutValue(After[k - 1], vector[k])
    IN After[Len(vector)]
PutDocuments(q, keys) ==
    LET After[k \in 0 .. Len(keys)] ==
            IF k = 0 THEN q
            ELSE PutValues(PutDocument(After[k - 1], keys[k]), values[keys[k]])
    IN After[Len(keys)]
Ascending(set) ==
    [k \in 1 .. Cardinality(set) |->
        CHOOSE d \in set : Cardinality({e \in set : e < d}) = k - 1]

BuildUpdateRequest ==
    LET head  == PutWord(PutString(NetworkQuery, Index), Len(attributes))
        names == PutNames(head, attributes)
    IN PutDocuments(PutWord(names, Cardinality(DOMAIN values)), Ascending(DOMAIN values))

BuildKeywordsRequest(index, query, fetchStats) ==
    PutWord(PutString(PutString(NetworkQuery, query), index), IF fetchStats THEN 1 ELSE 0)

-----------------------------------------------------------------------------
(* Client_t *)

Return(how) == pc' = "returned" /\ outcome' = how

Send(number, version, body) ==
    /\ pc' = "launch" /\ outcome' = "running"
    /\ request' = PutQuery(BuildHeader(number, version, BytesOf(body), 1), body)

UpdateAttributes ==
    /\ Idle
    /\ command' = SEARCHD_COMMAND_UPDATE /\ call' = NoCall
    /\ IF Convertible
       THEN Send(SEARCHD_COMMAND_UPDATE, VER_COMMAND_UPDATE_0_9_8, BuildUpdateRequest)
       ELSE Return("ValueTypeError") /\ request' = NetworkQuery
    /\ FreshResponse
    /\ UNCHANGED object

\* Bound: while no updates are kept; it does not know of them.
GetKeywords(query, fetchStats) ==
    /\ Idle /\ attributes = <<>> /\ values = <<>>
    /\ command' = SEARCHD_COMMAND_KEYWORDS /\ call' = <<Index, query, fetchStats>>
    /\ Send(SEARCHD_COMMAND_KEYWORDS, VER_COMMAND_KEYWORDS_0_9_8,
            BuildKeywordsRequest(Index, query, fetchStats))
    /\ FreshResponse
    /\ UNCHANGED object

LaunchThrows ==
    /\ pc \in {"launch", "header", "body"}
    /\ \E error \in MachineErrors : Return(error)
    /\ UNCHANGED <<object, command, call, request, incoming, status, data, result, told>>

-----------------------------------------------------------------------------
(* searchd *)

\* An update: index, names, and row by row the values of each document.
ReadUpdate(cells) ==
    LET head  == TakeAll(Reading(cells), <<Text, 2>>)
        n     == Count(head, 2)
        names == TakeAll(Behind(head), [k \in 1 .. n + 1 |-> IF k <= n THEN Text ELSE 2])
        m     == Count(names, n + 1)
        row   == [k \in 1 .. n + 1 |-> IF k = 1 THEN 4 ELSE 2]
        Row[j \in 0 .. m] == IF j = 0 THEN names ELSE TakeAll(Behind(Row[j - 1]), row)
    IN [ok |-> Row[m].ok,
        documents |-> {Got(Row[j], 1) : j \in 1 .. m},
        updates |-> {<<Got(head, 1), Got(Row[j], 1), Got(names, k), Got(Row[j], k + 1)>> :
                        j \in 1 .. m, k \in 1 .. n}]

EncodeWord(word, fetchStats) ==
    EncodeText(word.tokenized) \o EncodeText(word.normalized)
    \o IF fetchStats THEN CellsOf(word.docsHit, 2) \o CellsOf(word.totalHits, 2) ELSE <<>>
EncodeWords(words, fetchStats) ==
    CellsOf(Len(words), 2)
    \o FlattenSeq([k \in DOMAIN words |-> EncodeWord(words[k], fetchStats)])

\* Status, version, length and body.
Reply(code, body) ==
    CellsOf(code, 1) \o CellsOf(1, 1) \o CellsOf(2 * Len(body), 2) \o body

RequestHead == TakeAll(Reading(Content(request)), <<1, 1, 2>>)
Answerable == RequestHead.ok /\ RequestHead.got[3] = 2 * Len(RequestHead.rest)

SearchdRefuses ==
    /\ pc = "launch" /\ pc' = "header"
    /\ incoming' = Reply(SEARCHD_ERROR, EncodeText(<<>>))
    /\ UNCHANGED <<object, command, call, request, status, data, result, outcome, told>>

SearchdUpdates ==
    LET update == ReadUpdate(RequestHead.rest)
    IN /\ pc = "launch" /\ Answerable /\ pc' = "header"
       /\ RequestHead.got[1] = SEARCHD_COMMAND_UPDATE /\ update.ok
       /\ \E known \in SUBSET Documents, cut \in 0 .. 2 :
            /\ told' = [Nothing EXCEPT !.applied = {u \in update.updates : u[2] \in known}]
            /\ incoming' = Reply(SEARCHD_OK,
                   SubSeq(CellsOf(Cardinality(update.documents \cap known), 2), 1, cut))
       /\ UNCHANGED <<object, command, call, request, status, data, result, outcome>>

SearchdFindsWords ==
    LET asked == TakeAll(Reading(RequestHead.rest), <<Text, Text, 2>>)
    IN /\ pc = "launch" /\ Answerable /\ pc' = "header"
       /\ RequestHead.got[1] = SEARCHD_COMMAND_KEYWORDS /\ asked.ok
       /\ \E words \in BoundedSeq(Words, MaxWords) :
            LET stats == asked.got[3] # 0
                body  == EncodeWords(words, stats)
            IN \E cut \in 0 .. Len(body) :
                 /\ incoming' = Reply(SEARCHD_OK, SubSeq(body, 1, cut))
                 /\ told' = [Nothing EXCEPT
                       !.heard = <<asked.got[2], asked.got[1], stats>>, !.words = words,
                       !.whole = Cardinality({n \in 1 .. Len(words) :
                           Len(EncodeWords(SubSeq(words, 1, n), stats)) <= cut})]
       /\ UNCHANGED <<object, command, call, request, status, data, result, outcome>>

-----------------------------------------------------------------------------
(* The response *)

\* recv() of the next n cells, and what is still to come.
Receive(n) == ReadOnReadable(data, SubSeq(incoming, 1, n))
Later(n) == SubSeq(incoming, n + 1, Len(incoming))

HeaderLength == 4

\* With its last cell the header is taken off: status, version and length.
\* A body of no bytes is taken for a closed connection, since recv() is asked
\* for none and returns 0.
ReadHeader ==
    /\ pc = "header"
    /\ \E n \in Receivable(data, HeaderLength - data.dataEndPtr) :
        LET header  == Receive(n)
            code    == Get(header, 1)
            version == Get(code.rest, 1)
            length  == GetWord(version.rest)
        IN /\ incoming' = Later(n)
           /\ IF header.dataEndPtr < HeaderLength
              THEN data' = header /\ UNCHANGED <<pc, status, outcome>>
              ELSE /\ status' = code.value /\ data' = length.rest
                   /\ IF length.value = 0 THEN Return("ConnectionError")
                      ELSE pc' = "body" /\ UNCHANGED outcome
    /\ UNCHANGED <<object, command, call, request, result, told>>

ReadBody ==
    /\ pc = "body"
    /\ \E n \in Receivable(data, Len(incoming)) :
         /\ data' = Receive(n) /\ incoming' = Later(n)
         /\ IF n < Len(incoming) THEN UNCHANGED <<pc, outcome>>
            ELSE IF status = SEARCHD_OK THEN pc' = "parse" /\ UNCHANGED outcome
            ELSE Return("MessageError")
    /\ UNCHANGED <<object, command, call, request, status, result, told>>

AnyUpdated(count) == TRUE
AllUpdated(count) == count.value = Cardinality(DOMAIN values)

ParseUpdate ==
    LET count == GetWord(data)
    IN /\ pc = "parse" /\ command = SEARCHD_COMMAND_UPDATE
       /\ data' = count.rest
       /\ Return(IF ~count.ok THEN "MessageError"
                 ELSE IF AllUpdated(count) THEN "ok" ELSE "ClientUsageError")
       /\ UNCHANGED <<object, command, call, request, incoming, status, result, told>>

GetStatisticAlways(buffer, fetchStats) == GetWord(buffer)
GetStatistic(buffer, fetchStats) ==
    IF fetchStats THEN GetWord(buffer) ELSE [value |-> 0, rest |-> buffer]

\* Texts that fail to be read stay empty, numbers uninitialised; no error is
\* looked at.
GetEntry(before, fetchStats) ==
    LET tokenized  == GetString(before.rest)
        normalized == GetString(tokenized.rest)
        docsHit    == GetStatistic(normalized.rest, fetchStats)
        totalHits  == GetStatistic(docsHit.rest, fetchStats)
    IN [rest |-> totalHits.rest,
        entries |-> Append(before.entries,
            [tokenized |-> tokenized.value, normalized |-> normalized.value,
             docsHit |-> docsHit.value, totalHits |-> totalHits.value])]

ParseKeywords ==
    LET nWords == GetWord(data)
        Read[k \in 0 .. nWords.value] ==
            IF k = 0 THEN [rest |-> nWords.rest, entries |-> <<>>]
                     ELSE GetEntry(Read[k - 1], call[3])
        all == Read[nWords.value]
    IN /\ pc = "parse" /\ command = SEARCHD_COMMAND_KEYWORDS
       /\ IF nWords.ok
          THEN result' = all.entries /\ data' = all.rest /\ Return("ok")
          ELSE Return("MessageError") /\ UNCHANGED <<data, result>>
       /\ UNCHANGED <<object, command, call, request, incoming, status, told>>

Next ==
    \/ SetAttributeList
    \/ \E name \in Names : AddAttribute(name)
    \/ \E d \in Documents :
         AddDocument(d) \/ \E type \in {"uint32", "float", "uint64"} : AddDocumentTyped(d, type)
    \/ UpdateAttributes
    \/ \E query \in Texts, fetchStats \in BOOLEAN : GetKeywords(query, fetchStats)
    \/ SearchdRefuses \/ SearchdUpdates \/ SearchdFindsWords
    \/ ReadHeader \/ ReadBody \/ ParseUpdate \/ ParseKeywords \/ LaunchThrows

Spec == Init /\ [][Next]_vars

-----------------------------------------------------------------------------
(* Properties *)

Buffers == {request, data}

\* A document has as many values as there are attributes, or none when they
\* were given in a type addDocument() does not take (sphinxclient.cc:1149).
TypeOK ==
    /\ attributes \in BoundedSeq(Names, MaxAttributes)
    /\ DOMAIN values \subseteq Documents
    /\ \A d \in DOMAIN values : values[d] \in Seq(Values) /\ Len(values[d]) \in {0, Len(attributes)}
    /\ pc \in {"idle", "launch", "header", "body", "parse", "returned"}
    /\ command \in {0, SEARCHD_COMMAND_UPDATE, SEARCHD_COMMAND_KEYWORDS}
    /\ call \in {Index} \X (Texts \cup {<<>>}) \X BOOLEAN
    /\ status \in {SEARCHD_OK, SEARCHD_ERROR} /\ Len(result) <= MaxWords
    /\ outcome \in {"none", "running", "ok", "MessageError", "ClientUsageError",
                    "ConnectionError", "ValueTypeError"} \cup MachineErrors

\* No operator of the buffer writes or reads beyond the array, and nothing
\* that was put in is lost or replaced by what was never set, however the sizes
\* of what is put in and of what recv() delivers fall on the doublings
\* (sphinxclientquery.cc:138-219, :330).
BuffersWithinBounds ==
    \A q \in Buffers : WithinBounds(q) /\ Garbage \notin Range(Content(q))

Asked == {<<Index, d, attributes[k], values[d][k].number>> :
            d \in DOMAIN values, k \in DOMAIN attributes}

\* searchd sets nothing the caller did not ask for, each value at its document
\* and attribute, whatever becomes of the call: documents without values make
\* the request unreadable, never one that is read with its values shifted.
AppliedIsAsked ==
    told.applied # {} =>
        /\ \A d \in DOMAIN values : DOMAIN values[d] = DOMAIN attributes
        /\ told.applied \subseteq Asked

\* updateAttributes() returns only when every value of every document is set,
\* and calls the caller to account only when one is not.
ReturnsWhenAllUpdated ==
    pc = "returned" /\ command = SEARCHD_COMMAND_UPDATE =>
        /\ outcome = "ok" => told.applied = Asked
        /\ outcome = "ClientUsageError" /\ attributes # <<>> => told.applied # Asked

\* searchd is asked for the words of the query in the index, and every word
\* that came wholly is returned at its place, with the statistics if they were
\* asked for (without, they are 0), however the response was cut into parts.
KeywordsWhole ==
    pc = "returned" /\ command = SEARCHD_COMMAND_KEYWORDS /\ outcome = "ok" =>
        /\ told.heard = call /\ Len(result) = Len(told.words)
        /\ \A k \in 1 .. told.whole :
             result[k] = IF call[3] THEN told.words[k]
                         ELSE [told.words[k] EXCEPT !.docsHit = 0, !.totalHits = 0]
=============================================================================
