----------------------------- MODULE MultiQuery -----------------------------
(***************************************************************************)
(* Searches of Client_t, src/src/sphinxclient.cc: query() with one         *)
(* SearchConfig_t, and MultiQuery_t with its query(), for which queries    *)
(* are serialised one after another into one buffer, sent as one request,  *)
(* and their answers appended to the caller's vector.                      *)
(*                                                                         *)
(* The caller may go on after an exception, change, copy and destroy its   *)
(* settings between any two calls, and pass the same vector again.  The    *)
(* text of a query is its number in the object.  The one request of the    *)
(* QueryMachine_t is answered or ends with an exception; how an answer is  *)
(* taken apart is in ResponseParser.                                       *)
(***************************************************************************)
EXTENDS SearchConfig, SearchRequest

CONSTANTS
    MaxQueries,      \* bound: addQuery() calls on one object
    MaxResponses,    \* bound: query() is not called on a longer vector
    MachineErrors    \* exceptions that end a batch of the machine

ASSUME MultiAssumption ==
    /\ MaxQueries \in Numbers /\ MaxResponses \in Nat
    /\ \A v, w \in SearchVersions : v % CellBase = w % CellBase => v = w
    /\ {"running", "ok", "Warning", "none"} \cap MachineErrors = {}

VARIABLES
    commandVersion, queries, queryCount,   \* MultiQuery_t
    added,             \* of each query counted: text, settings, whether whole
    pc,                \* "idle", "launch", "parse", "returned"
    single,            \* query() with one SearchConfig_t was called
    cursor,            \* loop variable i of Client_t::query
    lastQueryWarning,
    request,           \* the request sent
    meant,             \* of each query of it: text, settings, whether whole
    unread, told,      \* searchd: the rest of the request, the queries read
    data,              \* answers of the response not yet parsed
    response,          \* the caller's vector
    found,             \* the caller's Response_t, for a single query
    outcome,           \* "none", "running", "ok", "Warning" or the exception
    \* history, read by properties only
    held               \* the caller's vector when the running call began

object == <<commandVersion, queries, queryCount, added>>
locals == <<single, cursor, lastQueryWarning, request, meant, unread, told, data>>
results == <<response, found>>
vars == <<configVars, object, pc, locals, results, outcome, held>>

FreshLocals ==
    /\ single' = FALSE /\ cursor' = 0 /\ lastQueryWarning' = FALSE
    /\ request' = NetworkQuery /\ meant' = <<>>
    /\ unread' = <<>> /\ told' = <<>> /\ data' = <<>>
    /\ held' = <<>>

Init ==
    /\ ConfigInit
    /\ commandVersion \in SearchVersions
    /\ queries = Query(InitialSize) /\ queryCount = 0 /\ added = <<>>
    /\ pc = "idle" /\ single = FALSE /\ cursor = 0 /\ lastQueryWarning = FALSE
    /\ request = NetworkQuery /\ meant = <<>>
    /\ unread = <<>> /\ told = <<>> /\ data = <<>>
    /\ response = <<>> /\ found = <<>> /\ outcome = "none" /\ held = <<>>

-----------------------------------------------------------------------------
(* The caller between two calls *)

Idle == pc \in {"idle", "returned"}
Between == Idle /\ pc' = "idle" /\ FreshLocals /\ UNCHANGED results
Edit == Between /\ outcome' = "none"

Configure == Edit /\ ConfigNext /\ UNCHANGED object

\* clear() of the buffer keeps its size.
InitQuery ==
    /\ Edit
    /\ commandVersion' \in SearchVersions
    /\ queries' = [queries EXCEPT !.dataStartPtr = 0, !.dataEndPtr = 0]
    /\ queryCount' = 0 /\ added' = <<>>
    /\ UNCHANGED configVars

\* The settings with their filters.
Attrs(c) == [configs[c] EXCEPT !.filters = Filters(c)]
QueryText == <<Len(added) + 1>>
Entry(c, query) == [query |-> QueryText, attrs |-> Attrs(c), whole |-> query.whole]

Serialised(c) == BuildQuery(QueryText, Attrs(c), [queries EXCEPT !.convertEndian = TRUE])

AddQueryCountsLast(c) ==
    /\ c \in Alive /\ Len(added) < MaxQueries
    /\ commandVersion = configs[c].commandVersion
    /\ Edit
    /\ LET query == Serialised(c)
       IN /\ queries' = query.data
          /\ queryCount' = IF query.whole THEN queryCount + 1 ELSE queryCount
          /\ added' = Append(added, Entry(c, query))
    /\ UNCHANGED <<commandVersion, configVars>>

\* Settings of another version are refused and nothing changes.  Else the query
\* is counted first and serialised into the buffer then; when that throws,
\* what was written so far stays.
AddQuery(c) ==
    /\ c \in Alive /\ Len(added) < MaxQueries
    /\ Between
    /\ IF commandVersion # configs[c].commandVersion
       THEN outcome' = "ClientUsageError" /\ UNCHANGED object
       ELSE LET query == Serialised(c)
            IN /\ outcome' = IF query.whole THEN "none" ELSE "ClientUsageError"
               /\ queries' = query.data /\ queryCount' = queryCount + 1
               /\ added' = Append(added, Entry(c, query))
               /\ UNCHANGED commandVersion
    /\ UNCHANGED configVars

-----------------------------------------------------------------------------
(* Client_t *)

Return(how) == pc' = "returned" /\ outcome' = how

Send(version, body, count) ==
    /\ pc' = "launch" /\ outcome' = "running"
    /\ request' = PutQuery(BuildHeader(SEARCHD_COMMAND_SEARCH, version, BytesOf(body), count), body)

\* query() with one SearchConfig_t: an exception of the builder is the
\* caller's; the header counts one query.
QueryOne(c) ==
    /\ Idle /\ Call /\ c \in Alive
    /\ single' = TRUE /\ cursor' = 0 /\ lastQueryWarning' = FALSE
    /\ unread' = <<>> /\ told' = <<>> /\ data' = <<>> /\ held' = response
    /\ LET query == BuildQuery(<<1>>, Attrs(c), NetworkQuery)
       IN IF query.whole
          THEN /\ Send(configs[c].commandVersion, query.data, 1)
               /\ meant' = <<[query |-> <<1>>, attrs |-> Attrs(c), whole |-> TRUE]>>
          ELSE Return("ClientUsageError") /\ request' = NetworkQuery /\ meant' = <<>>
    /\ UNCHANGED <<configs, heap, object, results>>

QueryMulti ==
    /\ Idle /\ Call /\ Len(response) < MaxResponses
    /\ single' = FALSE /\ cursor' = 0 /\ lastQueryWarning' = FALSE
    /\ unread' = <<>> /\ told' = <<>> /\ data' = <<>> /\ held' = response
    /\ IF queryCount = 0 \/ GetLength(queries) = 0
       THEN Return("ClientUsageError") /\ request' = NetworkQuery /\ meant' = <<>>
       ELSE Send(commandVersion, queries, queryCount) /\ meant' = added
    /\ UNCHANGED <<configs, heap, object, results>>

LaunchThrows ==
    /\ pc = "launch"
    /\ \E error \in MachineErrors : Return(error)
    /\ UNCHANGED <<configVars, object, locals, results, held>>

\* searchd reads the header with the number of queries, and then query after
\* query, as many as the request says and it can.
ReadHeader ==
    /\ pc = "launch" /\ unread = <<>>
    /\ \E header \in {TakeAll(Reading(Content(request)), <<1, 1, 2>>)} :
         \E count \in {TakeAll(Behind(header),
                           IF Version(header.got[2]) = VER_COMMAND_SEARCH_0_9_9
                           THEN <<2>> ELSE <<2, 2>>)} :
           unread' = [version |-> Version(header.got[2]), announced |-> header.got[3],
                      came |-> 2 * Len(header.rest), wanted |-> Last(count.got),
                      cells |-> count.rest]
    /\ UNCHANGED <<configVars, object, pc, single, cursor, lastQueryWarning, request, meant,
                   told, data, results, outcome, held>>

ReadQuery ==
    /\ pc = "launch" /\ unread # <<>> /\ unread.wanted > 0
    /\ \E start \in {QueryAt(unread.cells, unread.version)} :
       \E head \in {ReadParts(start, PartsToFilters)} :
       \E filters \in {ReadList(head, FilterParts)} :
       \E settings \in {ReadParts(filters, PartsToOverrides)} :
       \E overrides \in {ReadList(settings, OverrideParts)} :
       \E query \in {ReadPart(overrides, "selectClause")} :
         IF query.ok
         THEN /\ told' = Append(told, [query |-> query.named.query,
                                      attrs |-> [s \in Settings |-> query.named[s]]])
              /\ unread' = [unread EXCEPT !.wanted = @ - 1, !.cells = query.rest]
         ELSE unread' = [unread EXCEPT !.wanted = 0] /\ UNCHANGED told
    /\ UNCHANGED <<configVars, object, pc, single, cursor, lastQueryWarning, request, meant,
                   data, results, outcome, held>>

AllRead == unread # <<>> /\ unread.wanted = 0

\* It answers when all bytes announced have come.
LaunchReturns ==
    /\ pc = "launch" /\ AllRead /\ unread.announced <= unread.came
    /\ \E kinds \in [DOMAIN told -> {"ok", "warning", "error"}] :
         data' = [k \in DOMAIN kinds |-> [answers |-> told[k].query, kind |-> kinds[k]]]
    /\ pc' = "parse"
    /\ UNCHANGED <<configVars, object, single, cursor, lastQueryWarning, request, meant,
                   unread, told, results, outcome, held>>

LeftWithoutLast == IF single THEN 1 - cursor ELSE queryCount - 1 - cursor
Left == IF single THEN 1 - cursor ELSE queryCount - cursor

\* parseResponseVersion() on the next answer: it throws when nothing is left
\* and when the query failed; a warning is thrown to the caller of a single
\* query, else only remembered.  The response parsed into is cleared first: of
\* a single query the caller's, else a local one, appended when parsed.
ParseAnswer ==
    /\ pc = "parse" /\ Left > 0
    /\ IF data = <<>> \/ Head(data).kind = "error"
       THEN /\ Return("MessageError")
            /\ found' = IF single THEN <<>> ELSE found
            /\ UNCHANGED <<cursor, lastQueryWarning, data, response>>
       ELSE /\ found' = IF single THEN Head(data).answers ELSE found
            /\ response' = IF single THEN response ELSE Append(response, Head(data).answers)
            /\ data' = Tail(data)
            /\ lastQueryWarning' = (lastQueryWarning \/ Head(data).kind = "warning")
            /\ cursor' = cursor + 1
            /\ UNCHANGED <<pc, outcome>>
    /\ UNCHANGED <<configVars, object, single, request, meant, unread, told, held>>

QueryReturns ==
    /\ pc = "parse" /\ Left = 0
    /\ Return(IF lastQueryWarning THEN "Warning" ELSE "ok")
    /\ UNCHANGED <<configVars, object, locals, results, held>>

Next ==
    \/ Configure \/ InitQuery \/ QueryMulti
    \/ \E c \in Configs : AddQuery(c) \/ QueryOne(c)
    \/ LaunchThrows \/ ReadHeader \/ ReadQuery \/ LaunchReturns \/ ParseAnswer \/ QueryReturns

Spec == Init /\ [][Next]_vars

-----------------------------------------------------------------------------
(* Properties *)

\* The one type invariant: a copy of settings has all of them
\* (sphinxclient.cc:215-247), buffers keep to their arrays.
TypeOK ==
    /\ \A c \in Alive : /\ DOMAIN configs[c] = DOMAIN Defaults(0)
                        /\ configs[c].commandVersion \in SearchVersions
                        /\ Range(configs[c].filters) \subseteq Addresses
    /\ calls \in 0 .. MaxCalls
    /\ commandVersion \in SearchVersions
    /\ WithinBounds(queries) /\ WithinBounds(request)
    /\ queryCount \in 0 .. MaxQueries
    /\ pc \in {"idle", "launch", "parse", "returned"}
    /\ cursor \in 0 .. Len(meant) /\ Len(data) <= Len(meant)
    /\ outcome \in MachineErrors \cup {"none", "running", "ok", "Warning", "MessageError",
                                     "ClientUsageError"}

Succeeded == outcome \in {"ok", "Warning"}

\* Queries that are whole and have overrides with values of the type of their
\* attribute, up to the first that is not: behind that one searchd takes the
\* message apart elsewhere than it was put together, and what it reads is a
\* matter of the texts and numbers that are there.
Sound == {k \in DOMAIN meant : \A o \in 1 .. k : meant[o].whole /\ Fitting(meant[o].attrs)}
InPlace == {k \in DOMAIN meant : 1 .. k - 1 \subseteq Sound}

\* query() adds to the vector and takes nothing from it: what it held when the
\* call began is in front, unchanged, and behind that stands one answer for each
\* query parsed, in the order in which they were added, up to a query that was
\* left half built or has an unfit override; a call that succeeds, with a warning
\* or without, has given as many as there are queries, and a search with one
\* SearchConfig_t touches no vector (sphinxclient.cc:1072-1096, :962-968).
\* For a vector that was empty this is what the documentation says; for another
\* it is not (PreviousContentInvalidated).
AnswersInOrder ==
    /\ pc \in {"parse", "returned"} =>
         /\ Len(response) = Len(held) + IF single THEN 0 ELSE cursor
         /\ \A k \in 1 .. Len(held) : response[k] = held[k]
         /\ ~single => \A k \in 1 .. cursor \cap InPlace :
                          response[Len(held) + k] = meant[k].query
    /\ Succeeded => /\ cursor = Len(meant)
                    /\ single => found = meant[1].query

\* Disagreement: query() of a MultiQuery_t "fills the response structure vector",
\* "any previous structure content is invalidated anyway"
\* (sphinxclient.h:857-859), so that after a success the k-th response is the
\* answer to the k-th query and there are no others.  The vector is appended to
\* and never cleared (sphinxclient.cc:1092): the caller who passes it again finds
\* answers of the call before where those of this one are promised.
PreviousContentInvalidated ==
    Succeeded /\ ~single =>
       /\ Len(response) = Len(meant)
       /\ \A k \in InPlace : response[k] = meant[k].query

\* The exception of an addQuery() that left half a query in the buffer may be
\* caught and forgotten: no query() succeeds with such an object while nothing
\* was added behind and the overrides in the half have values of the type of
\* their attribute, up to one without a form (sphinxclient.cc:725-739).
HalfBuiltLastFails ==
    Succeeded => \A k \in InPlace :
        FittingOrThrowing(meant[k].attrs) => meant[k].whole \/ k < Len(meant)

\* Whatever settings were made in whatever order, copied, changed again after
\* addQuery() or destroyed: searchd reads each query of the request with the
\* text and the settings it was added with, of either version, up to one that
\* was left half built or has an override whose value is not of the type of
\* its attribute (queryversions.cc:69-252, filter.cc:72-161).  The settings are
\* those the objects hold: of the bounds of a range filter only the low 32 bits,
\* which its constructor takes, before a query is built (filter.cc:57).
RequestsMeanTheirSettings ==
    /\ AllRead => Sound \subseteq DOMAIN told
    /\ \A k \in Sound \cap DOMAIN told :
         told[k] = [query |-> meant[k].query, attrs |-> Meaning(meant[k].attrs)]

\* Disagreement: the length in the header of a request is that of what follows
\* it.  In the version 0.9.9, which sphinxtest.cc:59 and :90 use, one word is
\* sent between header and queries and two are announced
\* (queryversions.cc:55-57).
DeclaredLengthIsSent ==
    pc = "launch" =>
        Number(SubSeq(Content(request), 3, 4)) = 2 * (GetLength(request) - 4)
=============================================================================
