----------------------------- MODULE PollTable -----------------------------
(***************************************************************************)
(* FileDescriptors_t, src/src/querymachine.cc:684-750: the array of pollfd *)
(* structures the query machine polls and the two index arrays that map a  *)
(* query to its place in it and back.  This module has its state and its   *)
(* operations; FileDescriptors.tla drives them alone, QueryMachine.tla in  *)
(* the loop that uses them.                                                *)
(***************************************************************************)
EXTENDS Integers, FiniteSets

CONSTANTS MaxParallel,   \* MAX_PARALLEL_CONNECTIONS, 10 in the code
          Sockets,       \* descriptor numbers the kernel can hand out
          JunkIndices,   \* what the uninitialised index arrays can hold
          JunkPollFds,   \* what the uninitialised pollfd array can hold
          Failures       \* {"err"}, or {} in a run that leaves socket errors out

NoIndex == -1            \* (size_t) -1
Interests == {"in", "out"}                 \* POLLIN, POLLOUT
Revents == {"none", "in", "out", "err"}    \* err: POLLERR/POLLHUP/POLLNVAL alone
PollFd == [fd : Sockets, events : Interests, revents : Revents]
Index == Nat \cup {NoIndex}
Slots == 0 .. MaxParallel - 1

ASSUME ParallelAssumption == MaxParallel \in Nat \ {0}
ASSUME JunkAssumption == JunkIndices \subseteq Index /\ JunkPollFds \subseteq PollFd
ASSUME FailuresAssumption == Failures \subseteq {"err"}

VARIABLES fds,        \* pollfd array
          query2fds,  \* place of a query's entry
          fds2query,  \* query an entry belongs to
          size,       \* number of entries
          open,       \* descriptors the process has open (the kernel's side)
          known       \* how many queries have been given to the machine

table == <<fds, query2fds, fds2query, size>>

Live == 0 .. size - 1
Registered == {fds2query[p] : p \in Live}

\* The constructor sets size only; the three arrays hold whatever was there.
InitTable ==
    /\ fds \in [Slots -> JunkPollFds]
    /\ query2fds \in [Slots -> JunkIndices]
    /\ fds2query \in [Slots -> JunkIndices]
    /\ size = 0

-----------------------------------------------------------------------------
(* Queries on the table *)

\* getPollIndex throws ClientUsageError_t on NoIndex.
HasPollIndex(q) == query2fds[q] # NoIndex
GetPollIndex(q) == query2fds[q]
GetQueryIndex(p) == fds2query[p]

\* addQuery throws ClientUsageError_t when there is no room.
FullTooEarly == size + 1 >= MaxParallel
Full == size + 1 > MaxParallel

-----------------------------------------------------------------------------
(* addQuery and removeFd *)

\* addQuery(socket_d, events, queryIndex).  The entry's revents stay as they
\* were in memory.
AddEntry(s, ev, q) ==
    /\ ~Full
    /\ query2fds' = [query2fds EXCEPT ![q] = size]
    /\ fds2query' = [fds2query EXCEPT ![size] = q]
    /\ fds' = [fds EXCEPT ![size].fd = s, ![size].events = ev]
    /\ size' = size + 1

\* close() frees the descriptor of the removed entry.
ClosedNone(p) == {}
Closed(p) == {fds[p].fd}

\* Places that take over their right neighbour's entry and query.
ShiftedNoLast(p) == p .. size - 3
Shifted(p) == p .. size - 2

NeighbourKeepsRevents(i) == [fds[i + 1] EXCEPT !.revents = fds[i].revents]
Neighbour(i) == fds[i + 1]

NeighbourQuerySelf(i) == fds2query[i]
NeighbourQuery(i) == fds2query[i + 1]

\* The index array after removal: the removed query is unlinked first, then
\* each shifted entry's query is pointed at its new place, left to right.
ReindexedNoShift(p) == [query2fds EXCEPT ![fds2query[p]] = NoIndex]

Reindexed(p) ==
    [q \in Slots |->
       LET moved == {i \in Shifted(p) : NeighbourQuery(i) = q}
       IN IF moved # {} THEN CHOOSE i \in moved : \A j \in moved : j =< i
          ELSE IF q = fds2query[p] THEN NoIndex
          ELSE query2fds[q]]

\* removeFd(pollIndex), the close included.
RemoveFd(p) ==
    /\ open' = open \ Closed(p)
    /\ query2fds' = Reindexed(p)
    /\ fds' = [i \in Slots |-> IF i \in Shifted(p) THEN Neighbour(i) ELSE fds[i]]
    /\ fds2query' = [i \in Slots |->
                       IF i \in Shifted(p) THEN NeighbourQuery(i) ELSE fds2query[i]]
    /\ size' = size - 1

-----------------------------------------------------------------------------
(* How the query machine drives the table *)

\* fds is a public member: handleRead and handleWrite set events in place.
SetEvents(p, ev) ==
    /\ fds' = [fds EXCEPT ![p].events = ev]
    /\ UNCHANGED <<query2fds, fds2query, size>>

\* What poll can report of an entry polled for ev.
ReventsFor(ev) == {"none", ev} \cup Failures

\* poll(fds, size, ..) overwrites revents of the live entries.
PollReports(r) ==
    /\ \A i \in Live : r[i] \in ReventsFor(fds[i].events)
    /\ fds' = [i \in Slots |->
                 IF i \in Live THEN [fds[i] EXCEPT !.revents = r[i]] ELSE fds[i]]
    /\ UNCHANGED <<query2fds, fds2query, size>>

-----------------------------------------------------------------------------
(* Invariants of the table, shared by both *)

\* The types; dead slots of the index arrays may hold junk.
TableTypeOK ==
    /\ fds \in [Slots -> PollFd]
    /\ query2fds \in [Slots -> Index]
    /\ fds2query \in [Slots -> Index]
    /\ size \in 0 .. MaxParallel
    /\ known \in 0 .. MaxParallel
    /\ open \subseteq Sockets

\* The two index arrays are inverse to each other on the live entries, and a
\* query the machine knows is found by getPollIndex exactly when it has an
\* entry (querymachine.cc:695-701 throws otherwise): the state the shift in
\* removeFd and the reuse of indices in addQuery must keep.
IndicesInverse ==
    /\ \A p \in Live : fds2query[p] \in 0 .. known - 1 /\ query2fds[fds2query[p]] = p
    /\ \A q \in 0 .. known - 1 : q \notin Registered => query2fds[q] = NoIndex
=============================================================================
