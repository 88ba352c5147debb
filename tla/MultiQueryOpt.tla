--------------------------- MODULE MultiQueryOpt ---------------------------
(***************************************************************************)
(* MultiQueryOpt_t and Client_t::query(MultiQueryOpt_t),                   *)
(* src/src/sphinxclient.cc: queries are collected, sorted by a hash and    *)
(* cut into groups; every group is one request of a QueryMachine_t, and    *)
(* the answers are put back where the caller expects them.                 *)
(*                                                                         *)
(* The caller may interleave addQuery(), optimise() and query() on one     *)
(* object as it likes and pass the same response vector again.  A query is *)
(* its inputSeqNo; its text, settings and filters are abstracted to their  *)
(* hash.  addQuery() with settings of another version, or that cannot be   *)
(* serialised, throws before it changes anything, and is left out.         *)
(* QueryMachine_t appears by what it promises (QueryBatch) and by its      *)
(* capacity.  Vectors are sequences: v[k] of the code is v[k + 1] here.    *)
(***************************************************************************)
EXTENDS Integers, Sequences, FiniteSets

CONSTANTS
    MaxQueries,      \* bound: queries added to one object
    Hashes,          \* hashes the queries may have
    MaxParallel,     \* MAX_PARALLEL_CONNECTIONS
    MachineErrors    \* exceptions that end a batch of the machine

ASSUME OptAssumption ==
    /\ MaxQueries \in Nat /\ MaxParallel \in Nat \ {0}
    /\ Hashes \subseteq Int /\ IsFiniteSet(Hashes)
    /\ "ClientUsageError" \in MachineErrors
    /\ {"running", "ok", "Warning", "none"} \cap MachineErrors = {}

VARIABLES
    \* MultiQueryOpt_t
    sourceQueries,   \* hash of every query, in the order they were added
    sortedQueries,   \* inputSeqNo of the queries, in the order they are sent
    responseIndex,   \* the second halves of its pairs; the first is the place
    groupQueries,    \* where the groups start in sortedQueries
    \* Client_t::query
    pc,              \* "idle", "submit", "launch", "parse", "returned"
    group, sub,      \* loop variables i and j
    seqNo,
    lastQueryWarning,
    requests,        \* what was put into the machine: queries of each request
    data,            \* per request: the answers in its response not yet parsed
    response,        \* the caller's vector
    outcome,         \* "none", "running", "ok", "Warning" or the exception
    \* the machine
    known, answered, result

object == <<sourceQueries, sortedQueries, responseIndex, groupQueries>>
parsing == <<group, sub, seqNo, lastQueryWarning>>
machine == <<known, answered, result>>
vars == <<object, pc, parsing, requests, data, response, outcome, machine>>

Machine == INSTANCE QueryBatch
              WITH NumQueries <- MaxQueries, Errors <- MachineErrors

QueryCount == Len(sourceQueries)
Empty == -1             \* a Response_t nothing was parsed into
Kinds == {"ok", "warning", "error"}    \* errorStatus of one query's answer

-----------------------------------------------------------------------------
(* Reading the object *)

HashOf(q) == sourceQueries[q + 1]

GroupQueryCount == Len(groupQueries)
GroupStart(i) == groupQueries[i + 1]

\* Up to the next group; the last group goes up to the end.
QueryCountWithoutLast(i) ==
    (IF i + 1 >= GroupQueryCount THEN Len(sortedQueries) - 1 ELSE GroupStart(i + 1))
        - GroupStart(i)
QueryCountAtGroup(i) ==
    (IF i + 1 >= GroupQueryCount THEN Len(sortedQueries) ELSE GroupStart(i + 1))
        - GroupStart(i)
GroupQuery(i) ==
    SubSeq(sortedQueries, GroupStart(i) + 1, GroupStart(i) + QueryCountAtGroup(i))

IdentityIndex(k) == k
GetResponseIndex(k) == responseIndex[k + 1]

-----------------------------------------------------------------------------
(* Building the object *)

Init ==
    /\ sourceQueries = <<>> /\ sortedQueries = <<>>
    /\ responseIndex = <<>> /\ groupQueries = <<>>
    /\ pc = "idle"
    /\ group = 0 /\ sub = 0 /\ seqNo = 0 /\ lastQueryWarning = FALSE
    /\ requests = <<>> /\ data = <<>> /\ response = <<>> /\ outcome = "none"
    /\ Machine!Init

Idle == pc \in {"idle", "returned"}

\* The machine and the variables of a call are local to it.
FreshLocals ==
    /\ group' = 0 /\ sub' = 0 /\ seqNo' = 0 /\ lastQueryWarning' = FALSE
    /\ requests' = <<>> /\ data' = <<>>
    /\ known' = 0 /\ answered' = {} /\ result' = "running"

\* The caller works on the object between two calls of query().
Edit ==
    /\ Idle /\ pc' = "idle" /\ outcome' = "none"
    /\ FreshLocals
    /\ UNCHANGED response

\* The first start is reset; starts an earlier optimise() left behind stay.
AddQuery(hash) ==
    /\ QueryCount < MaxQueries
    /\ Edit
    /\ sourceQueries' = Append(sourceQueries, hash)
    /\ sortedQueries' = Append(sortedQueries, QueryCount)
    /\ responseIndex' = Append(responseIndex, QueryCount)
    /\ groupQueries' = IF groupQueries # <<>>
                       THEN [groupQueries EXCEPT ![1] = 0] ELSE <<0>>

\* std::sort orders by the hash and leaves queries of one hash in any order.
SortedByHash ==
    {s \in [1 .. QueryCount -> 0 .. QueryCount - 1] :
        \A k, l \in 1 .. QueryCount :
            k < l => s[k] # s[l] /\ HashOf(s[k]) <= HashOf(s[l])}

\* A query starts a group when its hash is not the one before.
StartsAfterFirst(s, k) == k = 0 \/ HashOf(s[k + 1]) # HashOf(s[1])
StartsGroup(s, k) == k = 0 \/ HashOf(s[k + 1]) # HashOf(s[k])

\* The loop pushes them back in their order: the i-th has i - 1 before it.
Starts(s) == {k \in 0 .. Len(s) - 1 : StartsGroup(s, k)}
StartsBefore(s, k) == {l \in Starts(s) : l < k}
GroupStarts(s) ==
    [i \in 1 .. Cardinality(Starts(s)) |->
        CHOOSE k \in Starts(s) : Cardinality(StartsBefore(s, k)) = i - 1]

\* Every place goes to the query that stands there in the sending order.
IndexWithoutClear(s) == responseIndex \o s
ResponseIndexOf(s) == s

Optimise ==
    /\ Edit
    /\ \E s \in SortedByHash :
         /\ sortedQueries' = s
         /\ responseIndex' = ResponseIndexOf(s)
         /\ groupQueries' = GroupStarts(s)
    /\ UNCHANGED sourceQueries

-----------------------------------------------------------------------------
(* Client_t::query *)

Return(how) == pc' = "returned" /\ outcome' = how

Query ==
    /\ Idle
    /\ FreshLocals
    /\ IF GroupQueryCount = 0
       THEN Return("ClientUsageError")
       ELSE pc' = "submit" /\ outcome' = "running"
    /\ UNCHANGED <<object, response>>

\* queryMachine.addQuery(): it connects, so it can throw; it must when full.
SubmitGroup ==
    /\ pc = "submit" /\ group < GroupQueryCount
    /\ Machine!Submit
    /\ known >= MaxParallel \/ QueryCountAtGroup(group) = 0 => result' # "running"
    /\ requests' = Append(requests, GroupQuery(group))
    /\ data' = Append(data, <<>>)
    /\ IF result' = "running"
       THEN group' = group + 1 /\ UNCHANGED <<pc, outcome>>
       ELSE Return(result') /\ UNCHANGED group
    /\ UNCHANGED <<object, sub, seqNo, lastQueryWarning, response>>

Launch ==
    /\ pc = "submit" /\ group = GroupQueryCount
    /\ pc' = "launch"
    /\ UNCHANGED <<object, parsing, requests, data, response, outcome, machine>>

\* One response has arrived: the answers of the request's queries, in their
\* order, each with a status of its own.
ResponseArrives(r) ==
    /\ pc = "launch"
    /\ Machine!Answer(r)
    /\ \E kinds \in [1 .. Len(requests[r + 1]) -> Kinds] :
         data' = [data EXCEPT ![r + 1] =
                    [k \in DOMAIN kinds |->
                        [answers |-> requests[r + 1][k], kind |-> kinds[k]]]]
    /\ UNCHANGED <<object, pc, parsing, requests, response, outcome>>

LaunchThrows ==
    /\ pc = "launch"
    /\ Machine!Fail
    /\ Return(result')
    /\ UNCHANGED <<object, parsing, requests, data, response>>

\* Only now is the caller's vector cleared and given its size.
LaunchReturns ==
    /\ pc = "launch"
    /\ Machine!Succeed
    /\ pc' = "parse"
    /\ response' = [k \in 1 .. QueryCount |-> Empty]
    /\ group' = 0 /\ sub' = 0 /\ seqNo' = 0 /\ lastQueryWarning' = FALSE
    /\ UNCHANGED <<object, requests, data, outcome>>

GroupLeftEarly == sub + 1 >= QueryCountAtGroup(group)
GroupLeftAtWarning == lastQueryWarning \/ sub = QueryCountAtGroup(group)
GroupParsed == sub = QueryCountAtGroup(group)

\* parseResponseVersion() on the next answer; a warning is only remembered.
ParseAnswer ==
    /\ pc = "parse" /\ group < GroupQueryCount /\ ~GroupParsed
    /\ LET answer == Head(data[group + 1])
       IN IF answer.kind = "error"
          THEN Return("MessageError") /\ UNCHANGED <<parsing, data, response>>
          ELSE /\ data' = [data EXCEPT ![group + 1] = Tail(@)]
               /\ response' = [response EXCEPT ![GetResponseIndex(seqNo) + 1] =
                                    answer.answers]
               /\ lastQueryWarning' = (lastQueryWarning \/ answer.kind = "warning")
               /\ sub' = sub + 1 /\ seqNo' = seqNo + 1
               /\ UNCHANGED <<pc, group, outcome>>
    /\ UNCHANGED <<object, requests, machine>>

\* The warning is thrown inside the loop: later groups are not parsed.
LeaveGroup ==
    /\ pc = "parse" /\ group < GroupQueryCount /\ GroupParsed
    /\ IF lastQueryWarning
       THEN Return("Warning") /\ UNCHANGED <<group, sub>>
       ELSE group' = group + 1 /\ sub' = 0 /\ UNCHANGED <<pc, outcome>>
    /\ UNCHANGED <<object, seqNo, lastQueryWarning, requests, data, response, machine>>

QueryReturns ==
    /\ pc = "parse" /\ group = GroupQueryCount
    /\ Return("ok")
    /\ UNCHANGED <<object, parsing, requests, data, response, machine>>

Next ==
    \/ \E hash \in Hashes : AddQuery(hash)
    \/ Optimise \/ Query
    \/ SubmitGroup \/ Launch
    \/ \E r \in 0 .. known - 1 : ResponseArrives(r)
    \/ LaunchThrows \/ LaunchReturns
    \/ ParseAnswer \/ LeaveGroup \/ QueryReturns

Spec == Init /\ [][Next]_vars

-----------------------------------------------------------------------------
(* Properties *)

Seqs == 0 .. QueryCount - 1

\* The vectors have the shapes the loops of Client_t::query index them by.
TypeOK ==
    /\ QueryCount <= MaxQueries /\ sourceQueries \in Seq(Hashes)
    /\ {sortedQueries, responseIndex} \subseteq [1 .. QueryCount -> Seqs]
    /\ groupQueries \in Seq(0 .. QueryCount) /\ GroupQueryCount <= QueryCount
    /\ pc \in {"idle", "submit", "launch", "parse", "returned"}
    /\ group \in 0 .. MaxQueries /\ sub \in 0 .. MaxQueries
    /\ seqNo \in 0 .. MaxQueries /\ lastQueryWarning \in BOOLEAN
    /\ Len(requests) = Len(data)
    /\ response \in Seq({Empty} \cup 0 .. MaxQueries - 1)
    /\ outcome \in {"none", "running", "ok", "Warning", "MessageError"} \cup MachineErrors

\* Whatever mix of addQuery() and optimise() built the object, an answer in
\* the caller's vector stands where the query was added: "responses are parsed
\* and ordered as they came to server" (sphinxclient.h, MultiQueryOpt_t).
AnswersAtTheirQueries ==
    \A k \in DOMAIN response : response[k] \in {Empty, k - 1}

\* When query() returns without an exception no answer is missing.
CompleteOnSuccess ==
    pc = "returned" /\ outcome = "ok" =>
        Len(response) = QueryCount /\ \A k \in DOMAIN response : response[k] # Empty

\* The groups cut the sending order into pieces that are not empty: every
\* query is sent once, also when queries were added after optimise().
GroupsCoverQueries ==
    /\ \A i \in 0 .. GroupQueryCount - 1 : QueryCountAtGroup(i) > 0
    /\ QueryCount > 0 => GroupQueryCount > 0 /\ GroupStart(0) = 0
    /\ \A q \in Seqs :
         Cardinality({p \in (0 .. GroupQueryCount - 1) \X (1 .. QueryCount) :
                        p[2] <= Len(GroupQuery(p[1])) /\ GroupQuery(p[1])[p[2]] = q}) = 1

\* After optimise() the groups are exactly the sets of queries of one hash:
\* what the server can process in one pass is one request, and nothing else is.
OneGroupPerHash ==
    [][Optimise =>
        {{GroupQuery(i)'[k] : k \in 1 .. Len(GroupQuery(i)')} :
            i \in 0 .. GroupQueryCount' - 1}
        = {{q \in Seqs : HashOf(q) = h} : h \in {HashOf(q) : q \in Seqs}}]_vars

\* Who catches the Warning has every answer of the group it comes from and of
\* the groups before.
WarnedGroupComplete ==
    pc = "returned" /\ outcome = "Warning" =>
        \A k \in 1 .. GroupStart(group) + QueryCountAtGroup(group) :
            response[sortedQueries[k] + 1] # Empty
=============================================================================
