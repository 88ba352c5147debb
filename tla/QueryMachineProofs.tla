------------------------- MODULE QueryMachineProofs -------------------------
(***************************************************************************)
(* FileDescriptors_t is correct for every MaxParallel, every set of        *)
(* descriptors and every content of the uninitialised arrays: its types,   *)
(* the inverse index arrays, the ownership of the sockets, and that it     *)
(* implements SocketTable.                                                 *)
(*                                                                         *)
(* QueryMachine_t is correct for every number of queries, every table      *)
(* size, every configuration of timeouts and retries and every content of  *)
(* the uninitialised arrays: its types, the table of polled sockets, the   *)
(* retries, the usage errors, the events and the sockets; and what goes    *)
(* over the connections: the client keeps its place in each byte stream,   *)
(* the answers belong to their queries, nothing is sent twice, and the     *)
(* batch is all or nothing; and poll() is left without a timeout only by   *)
(* one that was late.                                                      *)
(*                                                                         *)
(* MachineInv is inductive.  That the table follows the states needs the   *)
(* index arrays of the table to be inverse (IndexInv) and the queries to   *)
(* be added one after the other before launch; that a retry always finds   *)
(* room needs a counting argument over both, since the query that waits    *)
(* has no entry (RoomForKnown).                                            *)
(***************************************************************************)
EXTENDS QueryMachine, FileDescriptors, DataFacts

(* The table of polled sockets *)

\* Types and inverse indices are inductive together: what removeFd writes into
\* query2fds is a place only because at most one entry belongs to a query.
IndexInv == TableTypeOK /\ IndicesInverse

\* What the reindexing loop of removeFd computes: each query whose entry is
\* moved is found one place to the left, and the removed one nowhere.
LEMMA ReindexedValue ==
    ASSUME IndexInv, NEW p \in Live, NEW q \in Slots
    PROVE  Reindexed(p)[q] =
             IF \E i \in Shifted(p) : fds2query[i + 1] = q THEN query2fds[q] - 1
             ELSE IF q = fds2query[p] THEN NoIndex
             ELSE query2fds[q]
<1> DEFINE moved == {i \in Shifted(p) : NeighbourQuery(i) = q}
<1>1. ASSUME NEW i \in moved
      PROVE  i = query2fds[q] - 1
  <2>1. i + 1 \in Live /\ i \in Int
    BY <1>1 DEF Shifted, Live, IndexInv, TableTypeOK
  <2> QED
    BY <1>1, <2>1 DEF NeighbourQuery, IndexInv, IndicesInverse
<1>2. CASE moved = {}
  BY <1>2 DEF Reindexed, NeighbourQuery
<1>3. CASE moved # {}
  <2>1. PICK i \in moved : TRUE
    BY <1>3
  <2>2. moved = {query2fds[q] - 1}
    BY <1>1, <2>1
  <2>3. query2fds[q] - 1 \in Int
    BY <1>1, <2>1 DEF Shifted
  <2>4. (CHOOSE j \in moved : \A k \in moved : k =< j) = query2fds[q] - 1
    BY <2>2, <2>3
  <2> QED
    BY <1>3, <2>4, <2>1 DEF Reindexed, NeighbourQuery
<1> QED
  BY <1>2, <1>3

\* A new entry at the end of the table keeps both, whatever query it is for as
\* long as that query has no entry.
LEMMA AddKeepsIndexInv ==
    ASSUME IndexInv, NEW q \in Slots, NEW s \in Sockets,
           q \notin Registered, AddEntry(s, "out", q),
           open' = open \cup {s},
           \/ known' = known /\ q < known
           \/ known' = known + 1 /\ q = known
    PROVE  IndexInv'
<1>0. PICK k \in 0 .. MaxParallel :
        /\ known' = k /\ q \in 0 .. k - 1
        /\ \A x \in 0 .. known - 1 : x \in Slots /\ x \in 0 .. k - 1
        /\ \A x \in 0 .. k - 1 : x # q => x \in Slots /\ x \in 0 .. known - 1
  BY ParallelAssumption DEF IndexInv, TableTypeOK, Slots
<1>1. size \in Slots /\ size' = size + 1 /\ size' \in 0 .. MaxParallel
  BY ParallelAssumption DEF AddEntry, Full, IndexInv, TableTypeOK, Slots
<1>2. Live' = Live \cup {size} /\ size \notin Live
  BY <1>1 DEF Live, Slots
<1>3. \A x \in Live : fds2query'[x] = fds2query[x] /\ fds2query[x] # q
  BY <1>1, <1>2 DEF AddEntry, IndexInv, TableTypeOK, Registered, Slots
<1>4. fds2query'[size] = q /\ query2fds'[q] = size
  BY <1>1 DEF AddEntry, IndexInv, TableTypeOK
<1>5. \A x \in Slots \ {q} : query2fds'[x] = query2fds[x]
  BY DEF AddEntry, IndexInv, TableTypeOK
<1>6. TableTypeOK'
  <2>1. fds' \in [Slots -> PollFd]
    BY <1>1 DEF AddEntry, IndexInv, TableTypeOK, PollFd, Interests
  <2>2. query2fds' \in [Slots -> Index] /\ fds2query' \in [Slots -> Index]
    BY <1>1 DEF AddEntry, IndexInv, TableTypeOK, Index, Slots
  <2> QED
    BY <1>0, <1>1, <2>1, <2>2 DEF IndexInv, TableTypeOK
<1>7. \A x \in Live' : fds2query'[x] \in 0 .. known' - 1 /\ query2fds'[fds2query'[x]] = x
  <2>1. \A x \in Live : fds2query[x] \in 0 .. known - 1 /\ query2fds[fds2query[x]] = x
    BY DEF IndexInv, IndicesInverse
  <2>2. ASSUME NEW x \in Live
        PROVE  fds2query'[x] \in 0 .. k - 1 /\ query2fds'[fds2query'[x]] = x
    BY <1>0, <1>3, <1>5, <2>1
  <2> QED
    BY <1>0, <1>2, <1>4, <2>2
<1>8. ASSUME NEW x \in 0 .. known' - 1, x \notin Registered'
      PROVE  query2fds'[x] = NoIndex
  <2>1. Registered' = Registered \cup {q}
    BY <1>2, <1>3, <1>4 DEF Registered
  <2>2. x \in 0 .. known - 1 /\ x \in Slots /\ x # q /\ x \notin Registered
    BY <1>0, <1>8, <2>1
  <2> QED
    BY <1>5, <2>2 DEF IndexInv, IndicesInverse
<1> QED
  BY <1>6, <1>7, <1>8 DEF IndexInv, IndicesInverse

LEMMA RemoveKeepsIndexInv ==
    ASSUME IndexInv, NEW p \in Live, RemoveFd(p), UNCHANGED known
    PROVE  /\ IndexInv'
           /\ Registered' = Registered \ {fds2query[p]}
<1>1. /\ size \in 1 .. MaxParallel /\ size' = size - 1
      /\ p \in Slots /\ Live \subseteq Slots
      /\ fds2query[p] \in Slots
      /\ known \in 0 .. MaxParallel
  <2>1. size \in 1 .. MaxParallel /\ p \in Slots /\ Live \subseteq Slots /\ known \in 0 .. MaxParallel
    BY ParallelAssumption DEF IndexInv, TableTypeOK, Live, Slots
  <2>2. fds2query[p] \in 0 .. known - 1
    BY DEF IndexInv, IndicesInverse
  <2> QED
    BY ParallelAssumption, <2>1, <2>2 DEF RemoveFd, Slots
<1>2. /\ Live' = 0 .. size - 2
      /\ Shifted(p) = {i \in Live' : p =< i}
      /\ Live' \subseteq Live
      /\ \A i \in Live' : i + 1 \in Live
  BY <1>1 DEF Live, Shifted
<1>3. \A i \in Live' : fds2query'[i] = IF p =< i THEN fds2query[i + 1] ELSE fds2query[i]
  BY <1>1, <1>2 DEF RemoveFd, NeighbourQuery
<1>4. \A q \in Slots : query2fds'[q] = Reindexed(p)[q]
  BY DEF RemoveFd
<1>5. \A x \in Live : fds2query[x] \in 0 .. known - 1 /\ fds2query[x] \in Slots
                        /\ query2fds[fds2query[x]] = x
  BY ParallelAssumption, <1>1 DEF IndexInv, IndicesInverse, Slots
<1>6. Registered' = Registered \ {fds2query[p]}
  <2>1. ASSUME NEW i \in Live'
        PROVE  fds2query'[i] \in Registered \ {fds2query[p]}
    <3>1. CASE p =< i
      <4>1. i + 1 \in Live /\ i + 1 # p /\ fds2query'[i] = fds2query[i + 1]
        BY <1>1, <1>2, <1>3, <3>1 DEF Live
      <4> QED
        BY <1>5, <4>1 DEF Registered
    <3>2. CASE ~(p =< i)
      <4>1. i \in Live /\ i # p /\ fds2query'[i] = fds2query[i]
        BY <1>1, <1>2, <1>3, <3>2 DEF Live
      <4> QED
        BY <1>5, <4>1 DEF Registered
    <3> QED
      BY <3>1, <3>2
  <2>2. ASSUME NEW x \in Live, x # p
        PROVE  fds2query[x] \in Registered'
    <3>1. CASE x < p
      <4>1. x \in Live' /\ fds2query'[x] = fds2query[x]
        BY <1>1, <1>2, <1>3, <2>2, <3>1 DEF Live
      <4> QED
        BY <4>1 DEF Registered
    <3>2. CASE ~(x < p)
      <4>1. x - 1 \in Live' /\ fds2query'[x - 1] = fds2query[x]
        BY <1>1, <1>2, <1>3, <2>2, <3>2 DEF Live
      <4> QED
        BY <4>1 DEF Registered
    <3> QED
      BY <3>1, <3>2
  <2> QED
    BY <2>1, <2>2 DEF Registered
<1>7. ASSUME NEW i \in Live'
      PROVE  fds2query'[i] \in 0 .. known - 1 /\ query2fds'[fds2query'[i]] = i
  <2>1. CASE p =< i
    <3>1. i \in Shifted(p) /\ i + 1 \in Live /\ fds2query'[i] = fds2query[i + 1]
      BY <1>2, <1>3, <1>7, <2>1
    <3>2. query2fds'[fds2query[i + 1]] = (i + 1) - 1
      BY <1>4, <1>5, <3>1, ReindexedValue
    <3> QED
      BY <1>2, <1>5, <1>7, <3>1, <3>2 DEF Live
  <2>2. CASE ~(p =< i)
    <3>1. i \in Live /\ i # p /\ fds2query'[i] = fds2query[i]
      BY <1>1, <1>2, <1>3, <1>7, <2>2 DEF Live
    <3>2. ~ \E j \in Shifted(p) : fds2query[j + 1] = fds2query[i]
      <4>1. SUFFICES ASSUME NEW j \in Shifted(p), fds2query[j + 1] = fds2query[i]
                     PROVE  FALSE
        OBVIOUS
      <4>2. j + 1 \in Live /\ j + 1 # i
        BY <1>1, <1>2, <2>2, <1>7 DEF Live, Shifted
      <4> QED
        BY <1>5, <3>1, <4>1, <4>2
    <3>3. fds2query[i] # fds2query[p]
      BY <1>5, <3>1
    <3>4. query2fds'[fds2query[i]] = query2fds[fds2query[i]]
      BY <1>4, <1>5, <3>1, <3>2, <3>3, ReindexedValue
    <3> QED
      BY <1>5, <3>1, <3>4
  <2> QED
    BY <2>1, <2>2
<1>8. ASSUME NEW q \in 0 .. known - 1, q \notin Registered'
      PROVE  query2fds'[q] = NoIndex
  <2>1. q \in Slots
    BY ParallelAssumption, <1>1, <1>8 DEF Slots
  <2>2. ~ \E i \in Shifted(p) : fds2query[i + 1] = q
    <3>1. SUFFICES ASSUME NEW i \in Shifted(p), fds2query[i + 1] = q
                   PROVE  q \in Registered'
      BY <1>8
    <3>2. i \in Live' /\ fds2query'[i] = q
      BY <1>2, <1>3, <3>1
    <3> QED
      BY <3>2 DEF Registered
  <2>3. CASE q = fds2query[p]
    BY <1>4, <2>1, <2>2, <2>3, ReindexedValue
  <2>4. CASE q # fds2query[p]
    <3>1. q \notin Registered
      BY <1>6, <1>8, <2>4
    <3>2. query2fds[q] = NoIndex
      BY <1>8, <3>1 DEF IndexInv, IndicesInverse
    <3> QED
      BY <1>4, <2>1, <2>2, <2>4, <3>2, ReindexedValue
  <2> QED
    BY <2>3, <2>4
<1>9. TableTypeOK'
  <2>1. \A i \in Shifted(p) : i \in Slots /\ i + 1 \in Slots
    BY <1>1 DEF Shifted, Slots, Live
  <2>2. fds' \in [Slots -> PollFd] /\ fds2query' \in [Slots -> Index]
    BY <2>1 DEF RemoveFd, Neighbour, NeighbourQuery, IndexInv, TableTypeOK
  <2>3. query2fds' \in [Slots -> Index]
    <3>1. query2fds' = Reindexed(p)
      BY DEF RemoveFd
    <3>2. SUFFICES ASSUME NEW q \in Slots PROVE Reindexed(p)[q] \in Index
      BY <3>1 DEF Reindexed
    <3>3. CASE \E i \in Shifted(p) : fds2query[i + 1] = q
      <4>1. PICK i \in Shifted(p) : fds2query[i + 1] = q
        BY <3>3
      <4>2. i + 1 \in Live /\ query2fds[q] = i + 1 /\ i \in Nat
        BY <1>1, <1>2, <1>5, <4>1 DEF Shifted, Live
      <4> QED
        BY <3>3, <4>2, ReindexedValue DEF Index
    <3>4. CASE ~ \E i \in Shifted(p) : fds2query[i + 1] = q
      BY <3>4, ReindexedValue DEF Index, IndexInv, TableTypeOK
    <3> QED
      BY <3>3, <3>4
  <2> QED
    BY ParallelAssumption, <1>1, <2>2, <2>3 DEF RemoveFd, IndexInv, TableTypeOK
<1> QED
  BY <1>6, <1>7, <1>8, <1>9 DEF IndexInv, IndicesInverse

\* Steps that change neither the indices nor the number of entries.
LEMMA QuietKeepsIndexInv ==
    ASSUME IndexInv, UNCHANGED <<query2fds, fds2query, size, open, known>>,
           fds' \in [Slots -> PollFd]
    PROVE  IndexInv' /\ Registered' = Registered /\ Live' = Live
BY DEF IndexInv, TableTypeOK, IndicesInverse, Live, Registered

LEMMA SetEventsType ==
    ASSUME TableTypeOK, NEW p \in Live, NEW ev \in Interests, SetEvents(p, ev)
    PROVE  /\ fds' \in [Slots -> PollFd]
           /\ \A x \in Live : fds'[x] = IF x = p THEN [fds[x] EXCEPT !.events = ev]
                                               ELSE fds[x]
<1>1. p \in Slots /\ Live \subseteq Slots
  BY ParallelAssumption DEF TableTypeOK, Live, Slots
<1>2. fds[p] \in PollFd
  BY <1>1 DEF TableTypeOK
<1>3. [fds[p] EXCEPT !.events = ev] \in PollFd
  BY <1>2 DEF PollFd
<1>4. fds' = [fds EXCEPT ![p] = [fds[p] EXCEPT !.events = ev]]
  BY DEF SetEvents
<1> QED
  BY <1>1, <1>3, <1>4 DEF TableTypeOK

LEMMA PollReportsType ==
    ASSUME TableTypeOK, NEW r \in [Live -> Revents], PollReports(r)
    PROVE  /\ fds' \in [Slots -> PollFd]
           /\ \A x \in Live : fds'[x] = [fds[x] EXCEPT !.revents = r[x]]
<1>1. Live \subseteq Slots
  BY ParallelAssumption DEF TableTypeOK, Live, Slots
<1>2. ASSUME NEW x \in Live
      PROVE  [fds[x] EXCEPT !.revents = r[x]] \in PollFd
  <2>1. fds[x] \in PollFd /\ r[x] \in Revents
    BY <1>1 DEF TableTypeOK
  <2> QED
    BY <2>1 DEF PollFd
<1> QED
  BY <1>1, <1>2 DEF TableTypeOK, PollReports

LEMMA SetEventsKeepsFds ==
    ASSUME TableTypeOK, NEW p \in Live, NEW ev \in Interests, SetEvents(p, ev)
    PROVE  \A x \in Live : fds'[x].fd = fds[x].fd
<1>1. \A x \in Live : fds[x] \in PollFd
  BY ParallelAssumption DEF TableTypeOK, Live, Slots
<1>2. \A x \in Live : [fds[x] EXCEPT !.events = ev].fd = fds[x].fd
  BY <1>1 DEF PollFd
<1> QED
  BY <1>2, SetEventsType

LEMMA PollReportsKeepsFds ==
    ASSUME TableTypeOK, NEW r \in [Live -> Revents], PollReports(r)
    PROVE  \A x \in Live : fds'[x].fd = fds[x].fd
<1>1. \A x \in Live : fds[x] \in PollFd
  BY ParallelAssumption DEF TableTypeOK, Live, Slots
<1>2. \A x \in Live : [fds[x] EXCEPT !.revents = r[x]].fd = fds[x].fd
  BY <1>1 DEF PollFd
<1> QED
  BY <1>2, PollReportsType

\* removeFd moves entry and query together: every place that is left holds
\* what the place itself or its right neighbour held, and nothing is lost but
\* the removed entry.
LEMMA RemoveMoves ==
    ASSUME IndexInv, NEW p \in Live, RemoveFd(p)
    PROVE  /\ \A i \in Live' : \E j \in Live \ {p} :
                /\ j = IF p =< i THEN i + 1 ELSE i
                /\ fds'[i] = fds[j] /\ fds2query'[i] = fds2query[j]
           /\ \A j \in Live \ {p} : \E i \in Live' :
                /\ j = IF p =< i THEN i + 1 ELSE i
                /\ fds'[i] = fds[j] /\ fds2query'[i] = fds2query[j]
<1>1. /\ size \in 1 .. MaxParallel /\ p \in Slots /\ Live \subseteq Slots
  BY ParallelAssumption DEF IndexInv, TableTypeOK, Live, Slots
<1>2. Live' = 0 .. size - 2 /\ Live' \subseteq Slots
  BY <1>1, ParallelAssumption DEF RemoveFd, Live, Slots
<1>3. ASSUME NEW i \in 0 .. size - 2
      PROVE  LET j == IF p =< i THEN i + 1 ELSE i
             IN j \in Live \ {p} /\ fds'[i] = fds[j] /\ fds2query'[i] = fds2query[j]
  <2>1. i \in Slots
    BY <1>2, <1>3
  <2>2. CASE p =< i
    <3>1. i \in Shifted(p) /\ i + 1 \in Live \ {p}
      BY <1>1, <1>3, <2>2 DEF Shifted, Live, Slots
    <3> QED
      BY <2>1, <2>2, <3>1 DEF RemoveFd, Neighbour, NeighbourQuery
  <2>3. CASE ~(p =< i)
    <3>1. i \notin Shifted(p) /\ i \in Live \ {p}
      BY <1>1, <1>3, <2>3 DEF Shifted, Live, Slots
    <3> QED
      BY <2>1, <2>3, <3>1 DEF RemoveFd
  <2> QED
    BY <2>2, <2>3
<1>4. ASSUME NEW j \in Live \ {p}
      PROVE  \E i \in 0 .. size - 2 : j = IF p =< i THEN i + 1 ELSE i
  <2>1. CASE j < p
    <3>1. j \in 0 .. size - 2 /\ ~(p =< j)
      BY <1>1, <1>4, <2>1 DEF Live, Slots
    <3> QED
      BY <3>1
  <2>2. CASE ~(j < p)
    <3>1. j - 1 \in 0 .. size - 2 /\ p =< j - 1 /\ j = (j - 1) + 1
      BY <1>1, <1>4, <2>2 DEF Live, Slots
    <3> QED
      BY <3>1
  <2> QED
    BY <2>1, <2>2
<1> QED
  BY <1>2, <1>3, <1>4

\* The entry an addQuery makes, and the ones it leaves alone.
LEMMA AddMakes ==
    ASSUME IndexInv, NEW q \in Slots, NEW s \in Sockets, AddEntry(s, "out", q)
    PROVE  /\ size \in Slots /\ size \notin Live /\ Live' = Live \cup {size}
           /\ fds'[size].fd = s
           /\ fds'[size] = [fd |-> s, events |-> "out", revents |-> fds[size].revents]
           /\ fds2query'[size] = q /\ query2fds'[q] = size
           /\ \A x \in Live : fds'[x] = fds[x] /\ fds2query'[x] = fds2query[x]
           /\ \A x \in Slots \ {q} : query2fds'[x] = query2fds[x]
<1>1. size \in Slots /\ size' = size + 1
  BY ParallelAssumption DEF AddEntry, Full, IndexInv, TableTypeOK, Slots
<1>2. Live' = Live \cup {size} /\ size \notin Live /\ Live \subseteq Slots
  BY <1>1, ParallelAssumption DEF Live, Slots
<1>3. fds[size] \in PollFd
  BY <1>1 DEF IndexInv, TableTypeOK
<1>4. fds'[size] = [[fds[size] EXCEPT !.fd = s] EXCEPT !.events = "out"]
  BY <1>1 DEF AddEntry, IndexInv, TableTypeOK
<1>5. fds'[size] = [fd |-> s, events |-> "out", revents |-> fds[size].revents]
  BY <1>3, <1>4 DEF PollFd
<1>6. \A x \in Live : fds'[x] = fds[x] /\ fds2query'[x] = fds2query[x]
  BY <1>1, <1>2 DEF AddEntry, IndexInv, TableTypeOK
<1>7. fds2query'[size] = q /\ query2fds'[q] = size
  BY <1>1 DEF AddEntry, IndexInv, TableTypeOK
<1>8. \A x \in Slots \ {q} : query2fds'[x] = query2fds[x]
  BY DEF AddEntry, IndexInv, TableTypeOK
<1> QED
  BY <1>1, <1>2, <1>5, <1>6, <1>7, <1>8

\* A query the machine knows that has no entry finds room in the table: the
\* entries are of different queries, all of them known and none of them this.
LEMMA RoomForKnown ==
    ASSUME IndexInv, NEW q \in 0 .. known - 1, q \notin Registered
    PROVE  ~Full
<1> DEFINE others == (0 .. known - 1) \ {q}
           owner == [p \in Live |-> fds2query[p]]
<1>1. size \in 0 .. MaxParallel /\ known \in 0 .. MaxParallel
  BY DEF IndexInv, TableTypeOK
<1>2. IsFiniteSet(Live) /\ Cardinality(Live) = size
  BY <1>1, FS_Interval, ParallelAssumption DEF Live
<1>3. IsFiniteSet(0 .. known - 1) /\ Cardinality(0 .. known - 1) = known
  BY <1>1, FS_Interval, ParallelAssumption
<1>4. IsFiniteSet(others) /\ Cardinality(others) = known - 1
  BY <1>3, FS_RemoveElement
<1>5. owner \in [Live -> others]
  BY DEF IndexInv, IndicesInverse, Registered
<1>6. ~ (known - 1 < size)
  <2>1. SUFFICES ASSUME known - 1 < size PROVE FALSE
    OBVIOUS
  <2> HIDE DEF others, owner
  <2>2. Cardinality(others) < Cardinality(Live)
    BY <1>2, <1>4, <2>1
  <2>3. PICK x \in Live, y \in Live : x # y /\ owner[x] = owner[y]
    BY <1>2, <1>4, <1>5, <2>2, FS_PigeonHole
  <2>4. fds2query[x] = fds2query[y]
    BY <2>3 DEF owner
  <2> QED
    BY <2>3, <2>4 DEF IndexInv, IndicesInverse
<1> QED
  BY <1>1, <1>6, ParallelAssumption DEF Full

-----------------------------------------------------------------------------

LEMMA InitIndexInv == DrivenInit => IndexInv
<1> SUFFICES ASSUME DrivenInit PROVE IndexInv
  OBVIOUS
<1>1. size = 0 /\ known = 0 /\ open = {} /\ Live = {}
  BY DEF DrivenInit, InitTable, Live
<1>2. /\ fds \in [Slots -> PollFd]
      /\ query2fds \in [Slots -> Index]
      /\ fds2query \in [Slots -> Index]
  BY JunkAssumption DEF DrivenInit, InitTable
<1>3. TableTypeOK
  BY ParallelAssumption, <1>1, <1>2 DEF TableTypeOK
<1>4. IndicesInverse
  BY <1>1 DEF IndicesInverse
<1> QED
  BY <1>3, <1>4 DEF IndexInv

LEMMA StepIndexInv == IndexInv /\ [DrivenNext]_DrivenVars => IndexInv'
<1> SUFFICES ASSUME IndexInv, [DrivenNext]_DrivenVars PROVE IndexInv'
  OBVIOUS
<1>1. CASE AddNew
  <2>1. PICK s \in Sockets \ open : AddEntry(s, "out", size) /\ open' = open \cup {s}
    BY <1>1 DEF AddNew
  <2>2. size \in Slots
    BY <2>1, ParallelAssumption DEF AddEntry, Full, IndexInv, TableTypeOK, Slots
  <2>3. size \notin Registered
    <3>1. \A p \in Live : fds2query[p] \in 0 .. size - 1
      BY <1>1 DEF AddNew, IndexInv, IndicesInverse
    <3> QED
      BY <3>1 DEF Registered, IndexInv, TableTypeOK
  <2> QED
    BY <1>1, <2>1, <2>2, <2>3, AddKeepsIndexInv DEF AddNew
<1>2. ASSUME NEW q \in 0 .. known - 1, AddRetry(q)
      PROVE  IndexInv'
  <2>1. PICK s \in Sockets \ open : AddEntry(s, "out", q) /\ open' = open \cup {s}
    BY <1>2 DEF AddRetry
  <2>2. q \in Slots /\ q < known
    BY ParallelAssumption DEF IndexInv, TableTypeOK, Slots
  <2> QED
    BY <1>2, <2>1, <2>2, AddKeepsIndexInv DEF AddRetry
<1>3. ASSUME NEW p \in Live, RemoveEntry(p)
      PROVE  IndexInv'
  BY <1>3, RemoveKeepsIndexInv DEF RemoveEntry
<1>4. ASSUME NEW p \in Live, NEW ev \in Interests, Watch(p, ev)
      PROVE  IndexInv'
  <2>1. SetEvents(p, ev) /\ UNCHANGED <<query2fds, fds2query, size, open, known>>
    BY <1>4 DEF Watch, SetEvents
  <2> QED
    BY <2>1, SetEventsType, QuietKeepsIndexInv DEF IndexInv
<1>5. CASE Poll
  <2>1. PICK r \in [Live -> Revents] : PollReports(r)
    BY <1>5 DEF Poll
  <2>2. UNCHANGED <<query2fds, fds2query, size, open, known>>
    BY <1>5 DEF Poll, PollReports
  <2> QED
    BY <2>1, <2>2, PollReportsType, QuietKeepsIndexInv DEF IndexInv
<1>6. CASE UNCHANGED DrivenVars
  BY <1>6, QuietKeepsIndexInv DEF DrivenVars, table, IndexInv, TableTypeOK
<1> QED
  BY <1>1, <1>2, <1>3, <1>4, <1>5, <1>6 DEF DrivenNext

\* The table keeps its types and its two index arrays inverse to each other,
\* whatever the uninitialised arrays held.
THEOREM IndicesCorrect == DrivenSpec => [](TableTypeOK /\ IndicesInverse)
<1>1. DrivenInit => IndexInv
  BY InitIndexInv
<1>2. IndexInv /\ [DrivenNext]_DrivenVars => IndexInv'
  BY StepIndexInv
<1> QED
  BY <1>1, <1>2, PTL DEF DrivenSpec, IndexInv

\* No index of the table leaves its arrays, and its size is between 0 and the
\* number of places, for every number of places: removeFd and addQuery write
\* where there is an element.
THEOREM TableTypes == DrivenSpec => []TableTypeOK
  BY IndicesCorrect, PTL

-----------------------------------------------------------------------------
(* Ownership of the sockets *)

TableInv == IndexInv /\ EntriesOwnTheirSockets

LEMMA AddKeepsSockets ==
    ASSUME TableInv, NEW q \in Slots, NEW s \in Sockets \ open,
           AddEntry(s, "out", q), open' = open \cup {s}
    PROVE  EntriesOwnTheirSockets'
<1> USE DEF TableInv
<1>1. /\ Live' = Live \cup {size} /\ fds'[size].fd = s
      /\ \A x \in Live : fds'[x] = fds[x]
  BY AddMakes
<1>2. \A x \in Live : fds[x].fd # s
  BY DEF EntriesOwnTheirSockets
<1> QED
  BY <1>1, <1>2 DEF EntriesOwnTheirSockets

LEMMA RemoveKeepsSockets ==
    ASSUME TableInv, NEW p \in Live, RemoveFd(p)
    PROVE  EntriesOwnTheirSockets'
<1> USE DEF TableInv
<1>1. open' = open \ {fds[p].fd}
  BY DEF RemoveFd, Closed
<1>2. Live' \subseteq Int
  BY DEF Live
<1>3. ASSUME NEW i1 \in Live', NEW i2 \in Live', fds'[i1].fd = fds'[i2].fd
      PROVE  i1 = i2
  <2>1. PICK j1 \in Live \ {p} : j1 = (IF p =< i1 THEN i1 + 1 ELSE i1) /\ fds'[i1] = fds[j1]
    BY RemoveMoves
  <2>2. PICK j2 \in Live \ {p} : j2 = (IF p =< i2 THEN i2 + 1 ELSE i2) /\ fds'[i2] = fds[j2]
    BY RemoveMoves
  <2>3. j1 = j2
    BY <1>3, <2>1, <2>2 DEF EntriesOwnTheirSockets
  <2>4. i1 \in Int /\ i2 \in Int /\ p \in Int
    BY <1>2 DEF Live
  <2> QED
    BY <2>1, <2>2, <2>3, <2>4
<1>4. \A i \in Live' : fds'[i].fd \in open'
  <2>1. ASSUME NEW i \in Live' PROVE fds'[i].fd \in open'
    <3>1. PICK j \in Live \ {p} : fds'[i] = fds[j]
      BY RemoveMoves
    <3> QED
      BY <1>1, <3>1 DEF EntriesOwnTheirSockets
  <2> QED
    BY <2>1
<1>5. \A s \in open' : \E i \in Live' : fds'[i].fd = s
  <2>1. ASSUME NEW s \in open' PROVE \E i \in Live' : fds'[i].fd = s
    <3>1. PICK j \in Live \ {p} : fds[j].fd = s
      BY <1>1, <2>1 DEF EntriesOwnTheirSockets
    <3>2. PICK i \in Live' : fds'[i] = fds[j]
      BY RemoveMoves
    <3> QED
      BY <3>1, <3>2
  <2> QED
    BY <2>1
<1> QED
  BY <1>3, <1>4, <1>5 DEF EntriesOwnTheirSockets

\* Steps that change no descriptor.
LEMMA QuietKeepsSockets ==
    ASSUME TableInv, UNCHANGED <<size, open>>,
           \A x \in Live : fds'[x].fd = fds[x].fd
    PROVE  EntriesOwnTheirSockets'
<1>1. Live' = Live
  BY DEF Live
<1>2. \A p1, p2 \in Live' : fds'[p1].fd = fds'[p2].fd => p1 = p2
  BY <1>1 DEF TableInv, EntriesOwnTheirSockets
<1>3. open' = {fds'[p].fd : p \in Live'}
  BY <1>1 DEF TableInv, EntriesOwnTheirSockets
<1> QED
  BY <1>2, <1>3 DEF EntriesOwnTheirSockets

LEMMA StepTableInv == TableInv /\ [DrivenNext]_DrivenVars => TableInv'
<1> SUFFICES ASSUME TableInv, [DrivenNext]_DrivenVars PROVE EntriesOwnTheirSockets'
  BY StepIndexInv DEF TableInv
<1>0. IndexInv /\ TableTypeOK
  BY DEF TableInv, IndexInv
<1>1. CASE AddNew
  <2>1. PICK s \in Sockets \ open : AddEntry(s, "out", size) /\ open' = open \cup {s}
    BY <1>1 DEF AddNew
  <2>2. size \in Slots
    BY <2>1, ParallelAssumption, <1>0 DEF AddEntry, Full, TableTypeOK, Slots
  <2> QED
    BY <2>1, <2>2, AddKeepsSockets
<1>2. ASSUME NEW q \in 0 .. known - 1, AddRetry(q)
      PROVE  EntriesOwnTheirSockets'
  <2>1. PICK s \in Sockets \ open : AddEntry(s, "out", q) /\ open' = open \cup {s}
    BY <1>2 DEF AddRetry
  <2>2. q \in Slots
    BY ParallelAssumption, <1>0 DEF TableTypeOK, Slots
  <2> QED
    BY <2>1, <2>2, AddKeepsSockets
<1>3. ASSUME NEW p \in Live, RemoveEntry(p)
      PROVE  EntriesOwnTheirSockets'
  BY <1>3, RemoveKeepsSockets DEF RemoveEntry
<1>4. ASSUME NEW p \in Live, NEW ev \in Interests, Watch(p, ev)
      PROVE  EntriesOwnTheirSockets'
  <2>1. SetEvents(p, ev) /\ UNCHANGED <<size, open>>
    BY <1>4 DEF Watch, SetEvents
  <2> QED
    BY <1>0, <2>1, SetEventsKeepsFds, QuietKeepsSockets
<1>5. CASE Poll
  <2>1. PICK r \in [Live -> Revents] : PollReports(r)
    BY <1>5 DEF Poll
  <2>2. UNCHANGED <<size, open>>
    BY <1>5 DEF Poll, PollReports
  <2> QED
    BY <1>0, <2>1, <2>2, PollReportsKeepsFds, QuietKeepsSockets
<1>6. CASE UNCHANGED DrivenVars
  BY <1>6, QuietKeepsSockets DEF DrivenVars, table
<1> QED
  BY <1>1, <1>2, <1>3, <1>4, <1>5, <1>6 DEF DrivenNext

LEMMA InitTableInv == DrivenInit => TableInv
BY InitIndexInv DEF TableInv, EntriesOwnTheirSockets, DrivenInit, InitTable, Live

\* The open descriptors are those of the entries, each of one entry: removing
\* a query never closes another query's connection and never forgets its own.
THEOREM SocketsOwned == DrivenSpec => []EntriesOwnTheirSockets
<1>1. TableInv => EntriesOwnTheirSockets
  BY DEF TableInv
<1> QED
  BY <1>1, InitTableInv, StepTableInv, PTL DEF DrivenSpec

-----------------------------------------------------------------------------
(* The table implements SocketTable *)

Conn == [q \in Registered |-> fds[query2fds[q]]]

\* The mapping at an entry, and back.
LEMMA ConnAtEntry ==
    ASSUME IndexInv
    PROVE  /\ \A p \in Live : fds2query[p] \in Registered /\ Conn[fds2query[p]] = fds[p]
           /\ \A q \in Registered : query2fds[q] \in Live /\ fds2query[query2fds[q]] = q
           /\ Registered \subseteq Slots
<1>1. \A p \in Live : fds2query[p] \in Registered /\ query2fds[fds2query[p]] = p
  BY DEF IndexInv, IndicesInverse, Registered
<1>2. \A p \in Live : fds2query[p] \in Slots
  BY ParallelAssumption DEF IndexInv, TableTypeOK, IndicesInverse, Slots
<1> QED
  BY <1>1, <1>2 DEF Conn, Registered

LEMMA InitRefines == DrivenInit => Table!Init
<1> SUFFICES ASSUME DrivenInit PROVE Table!Init
  OBVIOUS
<1>1. Live = {} /\ Registered = {} /\ open = {}
  BY DEF DrivenInit, InitTable, Live, Registered
<1> QED
  BY <1>1 DEF Table!Init

LEMMA AddRefines ==
    ASSUME TableInv, TableInv', NEW q \in Slots, NEW s \in Sockets \ open,
           q \notin Registered, AddEntry(s, "out", q), open' = open \cup {s}
    PROVE  Table!Attach(q)
<1> USE DEF TableInv
<1>1. /\ size \in Slots /\ size \notin Live /\ Live' = Live \cup {size}
      /\ fds'[size] = [fd |-> s, events |-> "out", revents |-> fds[size].revents]
      /\ fds2query'[size] = q /\ query2fds'[q] = size
      /\ \A x \in Live : fds'[x] = fds[x] /\ fds2query'[x] = fds2query[x]
      /\ \A x \in Slots \ {q} : query2fds'[x] = query2fds[x]
  BY AddMakes
<1>2. fds[size].revents \in Revents
  BY <1>1 DEF IndexInv, TableTypeOK, PollFd
<1>3. Registered' = Registered \cup {q}
  BY <1>1 DEF Registered
<1>4. \A x \in Registered : fds'[query2fds'[x]] = Conn[x]
  <2>1. ASSUME NEW x \in Registered PROVE fds'[query2fds'[x]] = Conn[x]
    <3>1. x \in Slots \ {q} /\ query2fds[x] \in Live
      BY ConnAtEntry
    <3> QED
      BY <1>1, <3>1 DEF Conn
  <2> QED
    BY <2>1
<1>5. Conn' = [x \in Registered \cup {q} |->
                 IF x = q THEN [fd |-> s, events |-> "out", revents |-> fds[size].revents]
                          ELSE Conn[x]]
  BY <1>1, <1>3, <1>4 DEF Conn
<1>6. DOMAIN Conn = Registered
  BY DEF Conn
<1>7. "out" \in Interests
  BY DEF Interests
<1> QED
  BY <1>2, <1>5, <1>6, <1>7, ZenonT(60) DEF Table!Attach, Conn

LEMMA RemoveRefines ==
    ASSUME TableInv, TableInv', NEW p \in Live, RemoveFd(p), UNCHANGED known,
           NEW q, q = fds2query[p]
    PROVE  Table!Detach(q)
<1> USE DEF TableInv
<1>1. Registered' = Registered \ {fds2query[p]}
  BY RemoveKeepsIndexInv
<1>2. ASSUME NEW x \in Registered'
      PROVE  fds'[query2fds'[x]] = Conn[x]
  <2>1. PICK i \in Live' : fds2query'[i] = x
    BY <1>2 DEF Registered
  <2>2. query2fds'[x] = i
    BY <2>1 DEF IndexInv, IndicesInverse
  <2>3. PICK j \in Live \ {p} : fds'[i] = fds[j] /\ fds2query'[i] = fds2query[j]
    BY <2>1, RemoveMoves
  <2> QED
    BY <2>1, <2>2, <2>3, ConnAtEntry
<1>3. Conn' = [x \in Registered \ {fds2query[p]} |-> Conn[x]]
  BY <1>1, <1>2 DEF Conn
<1>4. fds2query[p] \in Registered /\ Conn[fds2query[p]] = fds[p]
  BY ConnAtEntry
<1>5. open' = open \ {Conn[q].fd}
  BY <1>4 DEF RemoveFd, Closed
<1>6. DOMAIN Conn = Registered
  BY DEF Conn
<1>7. q \in Registered /\ Conn' = [x \in Registered \ {q} |-> Conn[x]]
  BY <1>3, <1>4
<1> QED
  BY <1>5, <1>6, <1>7 DEF Table!Detach, Conn

LEMMA SetEventsRefines ==
    ASSUME TableInv, NEW p \in Live, NEW ev \in Interests, SetEvents(p, ev),
           UNCHANGED open, NEW q, q = fds2query[p]
    PROVE  Table!SetEvents(q)
<1> USE DEF TableInv
<1>1. Live' = Live /\ Registered' = Registered /\ query2fds' = query2fds
  BY DEF SetEvents, Live, Registered
<1>2. \A x \in Live : fds'[x] = IF x = p THEN [fds[x] EXCEPT !.events = ev] ELSE fds[x]
  BY SetEventsType DEF IndexInv
<1>3. ASSUME NEW x \in Registered
      PROVE  fds'[query2fds[x]] =
               IF x = fds2query[p] THEN [Conn[x] EXCEPT !.events = ev] ELSE Conn[x]
  <2>1. query2fds[x] \in Live /\ fds2query[query2fds[x]] = x
    BY ConnAtEntry
  <2>2. query2fds[x] = p <=> x = fds2query[p]
    BY <2>1 DEF IndexInv, IndicesInverse
  <2>3. Conn[x] = fds[query2fds[x]]
    BY DEF Conn
  <2> QED
    BY <1>2, <2>1, <2>2, <2>3
<1>4. fds2query[p] \in Registered /\ DOMAIN Conn = Registered
  BY ConnAtEntry DEF Conn
<1>5. Conn' = [x \in Registered |->
                 IF x = fds2query[p] THEN [Conn[x] EXCEPT !.events = ev] ELSE Conn[x]]
  BY <1>1, <1>3 DEF Conn
<1>6. q \in Registered /\ Conn' = [Conn EXCEPT ![q] = [Conn[q] EXCEPT !.events = ev]]
  BY <1>4, <1>5 DEF Conn
<1> QED
  BY <1>4, <1>6 DEF Table!SetEvents, Conn

LEMMA PollRefines ==
    ASSUME TableInv, NEW r \in [Live -> Revents], PollReports(r), UNCHANGED open
    PROVE  Table!Poll
<1> USE DEF TableInv
<1>1. Live' = Live /\ Registered' = Registered /\ query2fds' = query2fds
  BY DEF PollReports, Live, Registered
<1> DEFINE rq == [x \in Registered |-> r[query2fds[x]]]
<1>2. rq \in [Registered -> Revents]
  BY ConnAtEntry
<1>3. \A x \in Registered : fds'[query2fds[x]] = [Conn[x] EXCEPT !.revents = rq[x]]
  <2>1. ASSUME NEW x \in Registered
        PROVE  fds'[query2fds[x]] = [Conn[x] EXCEPT !.revents = rq[x]]
    <3>1. query2fds[x] \in Live /\ Conn[x] = fds[query2fds[x]]
      BY ConnAtEntry DEF Conn
    <3>2. fds'[query2fds[x]] = [fds[query2fds[x]] EXCEPT !.revents = r[query2fds[x]]]
      BY <3>1, PollReportsType DEF IndexInv
    <3>3. rq[x] = r[query2fds[x]]
      OBVIOUS
    <3> QED
      BY <3>1, <3>2, <3>3
  <2> QED
    BY <2>1
<1>4. Conn' = [x \in Registered |-> [Conn[x] EXCEPT !.revents = rq[x]]]
  BY <1>1, <1>3 DEF Conn
<1>5. DOMAIN Conn = Registered
  BY DEF Conn
<1> HIDE DEF rq
<1> QED
  BY <1>2, <1>4, <1>5 DEF Table!Poll, Conn

LEMMA StepRefines == TableInv /\ TableInv' /\ [DrivenNext]_DrivenVars => [Table!Next]_(Table!vars)
<1> SUFFICES ASSUME TableInv, TableInv', [DrivenNext]_DrivenVars
             PROVE  Table!Next \/ UNCHANGED Table!vars
  OBVIOUS
<1>0. IndexInv /\ TableTypeOK
  BY DEF TableInv, IndexInv
<1>1. CASE AddNew
  <2>1. PICK s \in Sockets \ open : AddEntry(s, "out", size) /\ open' = open \cup {s}
    BY <1>1 DEF AddNew
  <2>2. size \in Slots
    BY <2>1, ParallelAssumption, <1>0 DEF AddEntry, Full, TableTypeOK, Slots
  <2>3. size \notin Registered
    <3>1. \A p \in Live : fds2query[p] \in 0 .. size - 1
      BY <1>0, <1>1 DEF AddNew, IndexInv, IndicesInverse
    <3> QED
      BY <1>0, <3>1 DEF Registered, TableTypeOK
  <2> QED
    BY <2>1, <2>2, <2>3, AddRefines DEF Table!Next
<1>2. ASSUME NEW q \in 0 .. known - 1, AddRetry(q)
      PROVE  Table!Next
  <2>1. PICK s \in Sockets \ open : AddEntry(s, "out", q) /\ open' = open \cup {s}
    BY <1>2 DEF AddRetry
  <2>2. q \in Slots /\ q \notin Registered
    BY <1>2, ParallelAssumption, <1>0 DEF TableTypeOK, Slots, AddRetry
  <2> QED
    BY <2>1, <2>2, AddRefines DEF Table!Next
<1>3. ASSUME NEW p \in Live, RemoveEntry(p)
      PROVE  Table!Next
  <2>1. PICK q \in Slots : q = fds2query[p]
    BY <1>0, ConnAtEntry
  <2>2. Table!Detach(q)
    BY <1>3, <2>1, RemoveRefines DEF RemoveEntry
  <2> QED
    BY <2>2 DEF Table!Next
<1>4. ASSUME NEW p \in Live, NEW ev \in Interests, Watch(p, ev)
      PROVE  Table!Next
  <2>1. PICK q \in Slots : q = fds2query[p]
    BY <1>0, ConnAtEntry
  <2>2. Table!SetEvents(q)
    BY <1>4, <2>1, SetEventsRefines DEF Watch
  <2> QED
    BY <2>2 DEF Table!Next
<1>5. CASE Poll
  <2>1. PICK r \in [Live -> Revents] : PollReports(r)
    BY <1>5 DEF Poll
  <2> QED
    BY <1>5, <2>1, PollRefines DEF Table!Next, Poll
<1>6. CASE UNCHANGED DrivenVars
  BY <1>6 DEF DrivenVars, table, Table!vars, Registered, Live
<1> QED
  BY <1>1, <1>2, <1>3, <1>4, <1>5, <1>6 DEF DrivenNext

\* FileDescriptors_t is a partial function from queries to poll entries: no
\* client of it can tell the arrays and the shifting from SocketTable.
THEOREM Refinement == DrivenSpec => ImplementsSocketTable
<1>1. DrivenSpec => []TableInv
  BY InitTableInv, StepTableInv, PTL DEF DrivenSpec
<1>2. DrivenSpec => Table!Spec
  BY <1>1, InitRefines, StepRefines, PTL DEF DrivenSpec, Table!Spec
<1> QED
  BY <1>2 DEF ImplementsSocketTable

-----------------------------------------------------------------------------
(* The machine *)

PolledStates == ReadStates \cup WriteStates

\* The table and the states agree, as long as the batch runs.
TableFollowsStates ==
    InBatch => /\ IndexInv
               /\ \A q \in Given : q \in Registered <=> qs[q] \in PolledStates

\* The queries are added one after the other, each with an entry.
AddsInOrder == pc = "add" => size = known

\* A query has no attempt behind it before it is given to the machine.
AttemptsCounted ==
    /\ attempts \in [Queries -> Nat]
    /\ \A q \in Queries \ Given : attempts[q] = 0

MachineInv ==
    /\ TypeOK
    /\ TableFollowsStates
    /\ AddsInOrder
    /\ AttemptsCounted
    /\ RetryBudget
    /\ UsageErrorOnlyWhenFull

\* The queries of the machine have their places in the vectors.
LEMMA GivenAreQueries ==
    ASSUME TypeOK
    PROVE  Given \subseteq Queries
BY CountAssumption DEF TypeOK, Given, Queries

LEMMA NextIsQuery ==
    ASSUME TypeOK, known < NumQueries
    PROVE  known \in Queries /\ known \in Nat /\ known + 1 \in 0 .. NumQueries
<1>1. known \in 0 .. NumQueries
  BY DEF TypeOK
<1> QED
  BY <1>1, CountAssumption DEF Queries

\* The query of the entry that launch() looks at.
LEMMA ScannedQuery ==
    ASSUME MachineInv, pc = "scan", cursor \in Live
    PROVE  /\ CurrentQuery \in Queries /\ CurrentQuery \in Given
           /\ CurrentQuery \in Registered
           /\ qs[CurrentQuery] \in PolledStates
           /\ CurrentQuery = fds2query[cursor]
           /\ cursor \in Slots
<1>1. IndexInv /\ TypeOK
  BY DEF MachineInv, TableFollowsStates, InBatch
<1>2. CurrentQuery \in Given /\ CurrentQuery \in Registered
  BY <1>1 DEF IndexInv, IndicesInverse, CurrentQuery, GetQueryIndex, Given, Registered
<1>3. cursor \in Slots
  BY <1>1, ParallelAssumption DEF TypeOK, Live, Slots
<1> QED
  BY <1>1, <1>2, <1>3, GivenAreQueries
     DEF MachineInv, TableFollowsStates, InBatch, CurrentQuery, GetQueryIndex

\* getPollIndex finds the entry of every query that is connecting or exchanging
\* bytes.
LEMMA PolledHasEntry ==
    ASSUME MachineInv, InBatch, NEW q \in Given, qs[q] \in PolledStates
    PROVE  /\ HasPollIndex(q) /\ GetPollIndex(q) \in Live
           /\ fds2query[GetPollIndex(q)] = q
<1>1. PICK p \in Live : fds2query[p] = q
  BY DEF MachineInv, TableFollowsStates, Registered
<1>2. query2fds[q] = p
  BY <1>1 DEF MachineInv, TableFollowsStates, IndexInv, IndicesInverse
<1> QED
  BY <1>1, <1>2, ParallelAssumption
     DEF HasPollIndex, GetPollIndex, NoIndex, Live, MachineInv, TypeOK

\* The operations of the table keep its types.
LEMMA EventsTyped ==
    ASSUME MachineInv, pc = "scan", cursor \in Live, NEW ev \in Interests, SetEvents(cursor, ev)
    PROVE  fds' \in [Slots -> PollFd] /\ size' = size
BY SetEventsType DEF SetEvents, MachineInv, TableFollowsStates, InBatch, IndexInv

\* poll() keeps the types of the table.
LEMMA ReportsTyped ==
    ASSUME MachineInv, pc = "poll", NEW r \in [Live -> Revents], PollReports(r)
    PROVE  fds' \in [Slots -> PollFd] /\ size' = size
BY PollReportsType DEF PollReports, MachineInv, TableFollowsStates, InBatch, IndexInv

LEMMA RemovalTyped ==
    ASSUME TypeOK, NEW p \in Live, RemoveFd(p)
    PROVE  /\ fds' \in [Slots -> PollFd] /\ size' \in 0 .. MaxParallel
           /\ open' \subseteq Sockets
<1>1. size \in 1 .. MaxParallel /\ p \in Slots
  BY ParallelAssumption DEF TypeOK, Live, Slots
<1>2. \A i \in Shifted(p) : i \in Slots /\ i + 1 \in Slots
  BY <1>1, ParallelAssumption DEF Shifted, Slots
<1>3. fds' \in [Slots -> PollFd]
  BY <1>2 DEF RemoveFd, Neighbour, TypeOK
<1>4. size' \in 0 .. MaxParallel
  <2>1. size - 1 \in 0 .. MaxParallel
    BY <1>1, ParallelAssumption
  <2> QED
    BY <2>1 DEF RemoveFd
<1> QED
  BY <1>3, <1>4 DEF RemoveFd, TypeOK

LEMMA EntryTyped ==
    ASSUME TypeOK, NEW s \in Sockets, NEW i, AddEntry(s, "out", i)
    PROVE  fds' \in [Slots -> PollFd] /\ size' \in 0 .. MaxParallel
<1>1. size \in Slots /\ size' = size + 1 /\ size' \in 0 .. MaxParallel
  BY ParallelAssumption DEF AddEntry, Full, TypeOK, Slots
<1>2. fds' \in [Slots -> PollFd]
  BY <1>1 DEF AddEntry, TypeOK, PollFd, Interests
<1> QED
  BY <1>1, <1>2

\* However the setup of a connection ends.
LEMMA SetupTyped ==
    ASSUME TypeOK, NEW q, NEW i, SetupThrows \/ Register(q, i)
    PROVE  /\ fds' \in [Slots -> PollFd] /\ size' \in 0 .. MaxParallel
           /\ open' \subseteq Sockets /\ abandoned' \subseteq Sockets
           /\ pc' \in {pc, "unwind"} /\ cursor' \in Nat
           /\ outcome' \in {outcome, "ConnectionError", "ClientUsageError"}
<1>1. CASE SetupThrows
  BY <1>1 DEF SetupThrows, SetupConnection, Throw, table, TypeOK
<1>2. CASE Register(q, i)
  <2>1. PICK s \in Sockets \ open :
          /\ SetupConnection(s)
          /\ \/ /\ abandoned' = abandoned \cup {s}
                /\ Throw("ClientUsageError") /\ UNCHANGED table
             \/ AddEntry(s, "out", i) /\ Advance /\ UNCHANGED abandoned
    BY <1>2 DEF Register
  <2>2. fds' \in [Slots -> PollFd] /\ size' \in 0 .. MaxParallel
    BY <2>1, EntryTyped DEF TypeOK, table
  <2> QED
    BY <2>1, <2>2 DEF SetupConnection, Throw, Advance, Goto, TypeOK
<1> QED
  BY <1>1, <1>2

LEMMA StepType == MachineInv /\ [Next]_vars => TypeOK'
<1> SUFFICES ASSUME MachineInv, [Next]_vars PROVE TypeOK'
  OBVIOUS
<1>0. TypeOK
  BY DEF MachineInv
<1> USE <1>0, CountAssumption, TimeAssumption, LengthAssumption, ParallelAssumption
        DEF TypeOK, QueryState, ReadStates, WriteStates, Errors
<1>1. CASE Launch
  BY <1>1 DEF Launch, Goto, table, progress, history
<1>2. CASE PollFails
  BY <1>2 DEF PollFails, DecrementTimeouts, Waits, AfterPoll, table, progress, history
<1>3. CASE LaunchReturns
  BY <1>3 DEF LaunchReturns, AfterPoll, table, progress, history
<1>4. CASE SkipEntry
  BY <1>4 DEF SkipEntry, Advance, Goto, Idle, table, progress, history
<1>5. CASE EntryThrows
  BY <1>5 DEF EntryThrows, Throw, Idle, table, progress
<1>6. CASE CallInterrupted
  BY <1>6 DEF CallInterrupted, Advance, Goto, Idle, table, progress
<1>7. CASE WritePart
  BY <1>7, ScannedQuery DEF WritePart, Scanning, Advance, Goto, Idle, table, SetWriteTimeout,
     SetTimeout, Outgoing
<1>8. CASE ReadPart
  BY <1>8, ScannedQuery DEF ReadPart, Scanning, Advance, Goto, Idle, table, SetReadTimeout,
     SetTimeout
<1>9. CASE OldVersionRead
  BY <1>9, ScannedQuery DEF OldVersionRead, Scanning, Throw, Idle, table
<1>10. CASE ScanEnds
  BY <1>10 DEF ScanEnds, Goto, Idle, table, progress
<1>11. CASE SkipQuery
  BY <1>11 DEF SkipQuery, Advance, Goto, Idle, table, progress
<1>12. CASE ExpiryThrows
  BY <1>12 DEF ExpiryThrows, Throw, Idle, table, progress
<1>13. CASE ExpireEnds
  BY <1>13 DEF ExpireEnds, Goto, Idle, table, progress
<1>14. CASE Destroyed
  BY <1>14 DEF Destroyed, table, progress, history
<1>15. CASE UNCHANGED vars
  BY <1>15 DEF vars, control, table, progress, history
<1>16. CASE PollReady
  <2>1. fds' \in [Slots -> PollFd] /\ size' = size
    BY <1>16, ReportsTyped DEF PollReady, Revents
  <2>2. timeouts' \in [Queries -> Int]
    BY <1>16 DEF PollReady, DecrementTimeouts, Waits
  <2> QED
    BY <1>16, <2>1, <2>2 DEF PollReady, AfterPoll, Goto, progress, history
<1>17. CASE PollTimesOut
  <2>1. fds' \in [Slots -> PollFd] /\ size' = size
    BY <1>17, ReportsTyped DEF PollTimesOut, Revents
  <2>2. timeouts' \in [Queries -> Int]
    BY <1>17 DEF PollTimesOut, DecrementTimeouts, Waits
  <2> QED
    BY <1>17, <2>1, <2>2 DEF PollTimesOut, AfterPoll, Goto, progress, history
<1>18. CASE Connected
  <2>1. pc = "scan" /\ cursor \in Live
    BY <1>18 DEF Connected, Scanning
  <2>2. fds' \in [Slots -> PollFd] /\ size' = size
    BY <1>18, <2>1, EventsTyped DEF Connected, Interests
  <2>3. CurrentQuery \in Queries
    BY <2>1, ScannedQuery
  <2> QED
    BY <1>18, <2>2, <2>3 DEF Connected, EnterState, SetReadTimeout, SetTimeout, Advance, Goto,
       Idle
<1>19. CASE VersionWritten
  <2>1. pc = "scan" /\ cursor \in Live
    BY <1>19 DEF VersionWritten, Scanning
  <2>2. fds' \in [Slots -> PollFd] /\ size' = size
    BY <1>19, <2>1, EventsTyped DEF VersionWritten, Interests
  <2>3. CurrentQuery \in Queries
    BY <2>1, ScannedQuery
  <2> QED
    BY <1>19, <2>2, <2>3 DEF VersionWritten, EnterState, SetWriteTimeout, ResetWritten,
       SetTimeout, Advance, Goto, Idle
<1>20. CASE RequestWritten
  <2>1. pc = "scan" /\ cursor \in Live
    BY <1>20 DEF RequestWritten, Scanning
  <2>2. fds' \in [Slots -> PollFd] /\ size' = size
    BY <1>20, <2>1, EventsTyped DEF RequestWritten, Interests
  <2>3. CurrentQuery \in Queries
    BY <2>1, ScannedQuery
  <2> QED
    BY <1>20, <2>2, <2>3 DEF RequestWritten, EnterState, SetReadTimeout, SetTimeout, Advance,
       Goto, Idle
<1>21. CASE VersionRead
  <2>1. pc = "scan" /\ cursor \in Live
    BY <1>21 DEF VersionRead, Scanning
  <2>2. fds' \in [Slots -> PollFd] /\ size' = size
    BY <1>21, <2>1, EventsTyped DEF VersionRead, Interests
  <2>3. CurrentQuery \in Queries
    BY <2>1, ScannedQuery
  <2> QED
    BY <1>21, <2>2, <2>3 DEF VersionRead, EnterState, SetWriteTimeout, ResetWritten, SetTimeout,
       Advance, Goto, Idle
<1>22. CASE HeaderRead
  <2>1. pc = "scan" /\ cursor \in Live
    BY <1>22 DEF HeaderRead, Scanning
  <2>2. fds' \in [Slots -> PollFd] /\ size' = size
    BY <1>22, <2>1, EventsTyped DEF HeaderRead, Interests
  <2>3. CurrentQuery \in Queries
    BY <2>1, ScannedQuery
  <2> QED
    BY <1>22, <2>2, <2>3 DEF HeaderRead, EnterState, SetReadTimeout, SetTimeout, Advance, Goto,
       Idle
<1>23. CASE BodyRead
  <2>1. pc = "scan" /\ cursor \in Live
    BY <1>23 DEF BodyRead, Scanning
  <2>2. /\ fds' \in [Slots -> PollFd] /\ size' \in 0 .. MaxParallel
        /\ open' \subseteq Sockets
    BY <1>23, <2>1, RemovalTyped DEF BodyRead, table
  <2>3. CurrentQuery \in Queries
    BY <2>1, ScannedQuery
  <2> QED
    BY <1>23, <2>2, <2>3 DEF BodyRead, EnterState, DisableTimeout, SetTimeout, Advance, Goto,
       Throw
<1>24. CASE AddQuery
  <2>1. /\ fds' \in [Slots -> PollFd] /\ size' \in 0 .. MaxParallel
        /\ open' \subseteq Sockets /\ abandoned' \subseteq Sockets
        /\ pc' \in {pc, "unwind"} /\ cursor' \in Nat
        /\ outcome' \in {outcome, "ConnectionError", "ClientUsageError"}
    BY <1>24, SetupTyped DEF AddQuery
  <2>2. known \in Queries /\ known + 1 \in 0 .. NumQueries
    BY <1>24, NextIsQuery DEF AddQuery
  <2> QED
    BY <1>24, <2>1, <2>2 DEF AddQuery, EnterState, SetConnectTimeout, SetTimeout, progress
<1>25. CASE ConnectExpires
  <2>1. cursor \in Queries
    BY <1>25, GivenAreQueries DEF ConnectExpires
  <2>2. /\ fds' \in [Slots -> PollFd] /\ size' \in 0 .. MaxParallel
        /\ open' \subseteq Sockets
    <3>1. cursor \in Given /\ qs[cursor] \in PolledStates /\ InBatch
      BY <1>25 DEF ConnectExpires, Repeatable, PolledStates, InBatch
    <3>2. RemoveFd(GetPollIndex(cursor)) /\ GetPollIndex(cursor) \in Live
      BY <1>25, <3>1, PolledHasEntry DEF ConnectExpires
    <3> QED
      BY <3>2, RemovalTyped
  <2> QED
    BY <1>25, <2>1, <2>2 DEF ConnectExpires, EnterState, SetRetryWaitTimeout, SetTimeout,
       RetriesLeft, SpendRetry, Advance, Goto, Throw, progress, history
<1>26. CASE RetryExpires
  <2>1. cursor \in Queries
    BY <1>26, GivenAreQueries DEF RetryExpires
  <2>2. /\ fds' \in [Slots -> PollFd] /\ size' \in 0 .. MaxParallel
        /\ open' \subseteq Sockets /\ abandoned' \subseteq Sockets
        /\ pc' \in {pc, "unwind"} /\ cursor' \in Nat
        /\ outcome' \in {outcome, "ConnectionError", "ClientUsageError"}
    BY <1>26, SetupTyped DEF RetryExpires
  <2>3. qs' \in [Queries -> QueryState] /\ timeouts' \in [Queries -> Int]
    BY <1>26, <2>1 DEF RetryExpires, EnterState, SetConnectTimeout, SetTimeout
  <2> QED
    BY <1>26, <2>2, <2>3 DEF RetryExpires, progress
<1>27. CASE UnwindFd
  <2>1. size - 1 \in Live
    BY <1>27 DEF UnwindFd, Live
  <2>2. /\ fds' \in [Slots -> PollFd] /\ size' \in 0 .. MaxParallel
        /\ open' \subseteq Sockets
    BY <1>27, <2>1, RemovalTyped DEF UnwindFd
  <2> QED
    BY <1>27, <2>2 DEF UnwindFd, control, progress, history
<1> QED
  BY <1>1, <1>2, <1>3, <1>4, <1>5, <1>6, <1>7, <1>8, <1>9, <1>10, <1>11, <1>12, <1>13, <1>14,
     <1>15, <1>16, <1>17,
     <1>18, <1>19, <1>20, <1>21, <1>22, <1>23, <1>24, <1>25, <1>26, <1>27 DEF Next, Code, Terminated

-----------------------------------------------------------------------------
(* The table and the states of the queries *)

\* A step that leaves the entries where they are keeps the agreement when it
\* leaves every query polled or unpolled.
LEMMA EntriesStay ==
    ASSUME MachineInv, InBatch, IndexInv', Registered' = Registered,
           UNCHANGED known, pc' # "add",
           \A q \in Given : qs'[q] \in PolledStates <=> qs[q] \in PolledStates
    PROVE  TableFollowsStates' /\ AddsInOrder'
BY DEF MachineInv, TableFollowsStates, AddsInOrder, Given, PolledStates, ReadStates, WriteStates

LEMMA EventsStay ==
    ASSUME MachineInv, pc = "scan", cursor \in Live, NEW ev \in Interests,
           SetEvents(cursor, ev), UNCHANGED <<known, open>>, pc' # "add",
           NEW state \in PolledStates, EnterState(CurrentQuery, state)
    PROVE  TableFollowsStates' /\ AddsInOrder'
<1>1. IndexInv /\ InBatch
  BY DEF MachineInv, TableFollowsStates, InBatch, IndexInv
<1>2. fds' \in [Slots -> PollFd]
  BY EventsTyped
<1>3. IndexInv' /\ Registered' = Registered
  BY <1>1, <1>2, QuietKeepsIndexInv DEF SetEvents
<1>4. \A q \in Given : qs'[q] \in PolledStates <=> qs[q] \in PolledStates
  BY ScannedQuery, GivenAreQueries DEF EnterState, MachineInv, TypeOK
<1> QED
  BY <1>1, <1>3, <1>4, EntriesStay

LEMMA ReportsStay ==
    ASSUME MachineInv, pc = "poll", NEW r \in [Live -> Revents], PollReports(r),
           UNCHANGED <<known, open, qs>>, pc' # "add"
    PROVE  TableFollowsStates' /\ AddsInOrder'
<1>1. IndexInv /\ InBatch
  BY DEF MachineInv, TableFollowsStates, InBatch
<1>2. fds' \in [Slots -> PollFd]
  BY ReportsTyped
<1>3. IndexInv' /\ Registered' = Registered
  BY <1>1, <1>2, QuietKeepsIndexInv DEF PollReports
<1> QED
  BY <1>1, <1>3, EntriesStay

\* A query's entry goes and the query is no longer polled.
LEMMA EntryGoes ==
    ASSUME MachineInv, InBatch, NEW p \in Live, RemoveFd(p),
           UNCHANGED known, pc' # "add",
           NEW state \in QueryState \ PolledStates, EnterState(fds2query[p], state)
    PROVE  TableFollowsStates' /\ AddsInOrder'
<1>1. IndexInv /\ TypeOK
  BY DEF MachineInv, TableFollowsStates
<1>2. IndexInv' /\ Registered' = Registered \ {fds2query[p]}
  BY <1>1, RemoveKeepsIndexInv
<1>3. Given' = Given /\ Given \subseteq Queries
  BY <1>1, GivenAreQueries DEF Given
<1>4. \A q \in Given : qs'[q] = IF q = fds2query[p] THEN state ELSE qs[q]
  BY <1>1, <1>3 DEF EnterState, TypeOK
<1>5. \A q \in Given : q \in Registered' <=> qs'[q] \in PolledStates
  BY <1>2, <1>4 DEF MachineInv, TableFollowsStates
<1>6. (\A q \in Given : q \in Registered <=> qs[q] \in PolledStates)'
  BY <1>3, <1>5 DEF PolledStates, ReadStates, WriteStates
<1> QED
  BY <1>2, <1>6 DEF TableFollowsStates, AddsInOrder

\* A query gets an entry and is connecting.
LEMMA EntryComes ==
    ASSUME MachineInv, InBatch, NEW q \in Queries, q \in Slots, NEW s \in Sockets,
           AddEntry(s, "out", q), open' = open \cup {s}, q \notin Registered,
           EnterState(q, "WR_CONNECT"),
           \/ known' = known /\ q < known
           \/ known' = known + 1 /\ q = known
    PROVE  TableFollowsStates'
<1>1. IndexInv /\ TypeOK
  BY DEF MachineInv, TableFollowsStates
<1>2. IndexInv'
  BY <1>1, AddKeepsIndexInv
<1>3. Registered' = Registered \cup {q}
  <2>1. /\ Live' = Live \cup {size} /\ fds2query'[size] = q
        /\ \A x \in Live : fds2query'[x] = fds2query[x]
    BY <1>1, AddMakes
  <2> QED
    BY <2>1 DEF Registered
<1>4. Given' = Given \cup {q}
  BY <1>1 DEF Given, TypeOK, Queries
<1>5. \A x \in Queries : qs'[x] = IF x = q THEN "WR_CONNECT" ELSE qs[x]
  BY <1>1 DEF EnterState, TypeOK
<1>6. \A x \in Given \cup {q} : x \in Registered' <=> qs'[x] \in PolledStates
  BY <1>1, <1>3, <1>5, GivenAreQueries
     DEF MachineInv, TableFollowsStates, PolledStates, WriteStates
<1>7. (\A x \in Given : x \in Registered <=> qs[x] \in PolledStates)'
  BY <1>4, <1>6 DEF PolledStates, ReadStates, WriteStates
<1> QED
  BY <1>2, <1>7 DEF TableFollowsStates

LEMMA StepTable == MachineInv /\ [Next]_vars => TableFollowsStates' /\ AddsInOrder'
<1> SUFFICES ASSUME MachineInv, [Next]_vars PROVE TableFollowsStates' /\ AddsInOrder'
  OBVIOUS
<1>0. TypeOK /\ TableFollowsStates /\ AddsInOrder
  BY DEF MachineInv
\* Most steps do not touch the table.
<1> DEFINE Quiet == /\ UNCHANGED <<table, open, known, qs>>
                    /\ InBatch' => InBatch
                    /\ pc' = "add" => pc = "add"
<1>1. ASSUME Quiet PROVE TableFollowsStates' /\ AddsInOrder'
  BY <1>0, <1>1 DEF TableFollowsStates, AddsInOrder, IndexInv, TableTypeOK, IndicesInverse,
                    Live, Registered, Given, table
\* Nothing is kept when the batch ends.
<1>2. ASSUME pc' \in {"unwind", "done"} PROVE TableFollowsStates' /\ AddsInOrder'
  BY <1>2 DEF TableFollowsStates, AddsInOrder, InBatch
<1> HIDE DEF Quiet
<1>3. CASE Launch
  BY <1>1, <1>3 DEF Quiet, Launch, InBatch, table, Goto
<1>4. CASE PollFails
  BY <1>1, <1>4 DEF Quiet, PollFails, InBatch, table, AfterPoll
<1>5. CASE SkipEntry
  BY <1>1, <1>5 DEF Quiet, SkipEntry, InBatch, table, Advance, Goto, Idle
<1>6. CASE CallInterrupted
  BY <1>1, <1>6 DEF Quiet, CallInterrupted, InBatch, table, Advance, Goto, Idle
<1>7. CASE WritePart
  BY <1>1, <1>7 DEF Quiet, WritePart, InBatch, table, Advance, Goto, Idle
<1>8. CASE ReadPart
  BY <1>1, <1>8 DEF Quiet, ReadPart, InBatch, table, Advance, Goto, Idle
<1>9. CASE ScanEnds
  BY <1>1, <1>9 DEF Quiet, ScanEnds, InBatch, table, Goto, Idle
<1>10. CASE SkipQuery
  BY <1>1, <1>10 DEF Quiet, SkipQuery, InBatch, table, Advance, Goto, Idle
<1>11. CASE ExpireEnds
  BY <1>1, <1>11 DEF Quiet, ExpireEnds, InBatch, table, Goto, Idle
<1>12. CASE UNCHANGED vars
  BY <1>1, <1>12 DEF Quiet, vars, control, InBatch, table
<1>13. CASE LaunchReturns
  BY <1>2, <1>13 DEF LaunchReturns
<1>14. CASE EntryThrows
  BY <1>2, <1>14 DEF EntryThrows, Throw
<1>15. CASE OldVersionRead
  BY <1>2, <1>15 DEF OldVersionRead, Throw
<1>16. CASE ExpiryThrows
  BY <1>2, <1>16 DEF ExpiryThrows, Throw
<1>17. CASE Destroyed
  BY <1>2, <1>17 DEF Destroyed
<1>18. CASE UnwindFd
  BY <1>2, <1>18 DEF UnwindFd, control
<1>19. CASE PollReady
  BY <1>19, ReportsStay DEF PollReady, AfterPoll, Goto, Revents
<1>20. CASE PollTimesOut
  BY <1>20, ReportsStay DEF PollTimesOut, AfterPoll, Goto, Revents
<1>21. CASE Connected
  <2>1. pc = "scan" /\ cursor \in Live /\ UNCHANGED <<known, open>> /\ pc' # "add"
    BY <1>21 DEF Connected, Scanning, Advance, Goto, Idle
  <2>2. \E ev \in Interests : SetEvents(cursor, ev)
    BY <1>21 DEF Connected, Interests
  <2>3. \E state \in PolledStates : EnterState(CurrentQuery, state)
    BY <1>21 DEF Connected, PolledStates, ReadStates, WriteStates
  <2> QED
    BY <2>1, <2>2, <2>3, EventsStay
<1>22. CASE VersionWritten
  <2>1. pc = "scan" /\ cursor \in Live /\ UNCHANGED <<known, open>> /\ pc' # "add"
    BY <1>22 DEF VersionWritten, Scanning, Advance, Goto, Idle
  <2>2. \E ev \in Interests : SetEvents(cursor, ev)
    BY <1>22 DEF VersionWritten, Interests
  <2>3. \E state \in PolledStates : EnterState(CurrentQuery, state)
    BY <1>22 DEF VersionWritten, PolledStates, ReadStates, WriteStates
  <2> QED
    BY <2>1, <2>2, <2>3, EventsStay
<1>23. CASE RequestWritten
  <2>1. pc = "scan" /\ cursor \in Live /\ UNCHANGED <<known, open>> /\ pc' # "add"
    BY <1>23 DEF RequestWritten, Scanning, Advance, Goto, Idle
  <2>2. \E ev \in Interests : SetEvents(cursor, ev)
    BY <1>23 DEF RequestWritten, Interests
  <2>3. \E state \in PolledStates : EnterState(CurrentQuery, state)
    BY <1>23 DEF RequestWritten, PolledStates, ReadStates, WriteStates
  <2> QED
    BY <2>1, <2>2, <2>3, EventsStay
<1>24. CASE VersionRead
  <2>1. pc = "scan" /\ cursor \in Live /\ UNCHANGED <<known, open>> /\ pc' # "add"
    BY <1>24 DEF VersionRead, Scanning, Advance, Goto, Idle
  <2>2. \E ev \in Interests : SetEvents(cursor, ev)
    BY <1>24 DEF VersionRead, Interests
  <2>3. \E state \in PolledStates : EnterState(CurrentQuery, state)
    BY <1>24 DEF VersionRead, PolledStates, ReadStates, WriteStates
  <2> QED
    BY <2>1, <2>2, <2>3, EventsStay
<1>25. CASE HeaderRead
  <2>1. pc = "scan" /\ cursor \in Live /\ UNCHANGED <<known, open>> /\ pc' # "add"
    BY <1>25 DEF HeaderRead, Scanning, Advance, Goto, Idle
  <2>2. \E ev \in Interests : SetEvents(cursor, ev)
    BY <1>25 DEF HeaderRead, Interests
  <2>3. \E state \in PolledStates : EnterState(CurrentQuery, state)
    BY <1>25 DEF HeaderRead, PolledStates, ReadStates, WriteStates
  <2> QED
    BY <2>1, <2>2, <2>3, EventsStay
<1>26. CASE BodyRead
  <2>1. CASE StatusOK(CurrentQuery)
    <3>1. pc = "scan" /\ cursor \in Live /\ RemoveFd(cursor) /\ UNCHANGED known
      BY <1>26, <2>1 DEF BodyRead, Scanning
    <3>2. EnterState(fds2query[cursor], "FINISHED") /\ pc' # "add"
      BY <1>26, <2>1, <3>1 DEF BodyRead, Advance, Goto, CurrentQuery, GetQueryIndex
    <3>3. "FINISHED" \in QueryState \ PolledStates
      BY DEF QueryState, PolledStates, ReadStates, WriteStates
    <3> QED
      BY <3>1, <3>2, <3>3, EntryGoes DEF InBatch
  <2>2. CASE ~StatusOK(CurrentQuery)
    BY <1>2, <1>26, <2>2 DEF BodyRead, Throw
  <2> QED
    BY <2>1, <2>2
<1>27. CASE ConnectExpires
  <2>1. InBatch /\ cursor \in Given /\ qs[cursor] \in PolledStates
    BY <1>27 DEF ConnectExpires, Repeatable, PolledStates, WriteStates, InBatch
  <2>2. PICK p \in Live : p = GetPollIndex(cursor) /\ fds2query[p] = cursor
    BY <2>1, PolledHasEntry
  <2>3. RemoveFd(p) /\ UNCHANGED known /\ pc' # "add"
    BY <1>27, <2>1, <2>2, PolledHasEntry DEF ConnectExpires, Advance, Goto
  <2>4. EnterState(fds2query[p], "RETRY_CONNECT")
    BY <1>27, <2>2 DEF ConnectExpires
  <2>5. "RETRY_CONNECT" \in QueryState \ PolledStates
    BY DEF QueryState, PolledStates, ReadStates, WriteStates
  <2> QED
    BY <2>1, <2>3, <2>4, <2>5, EntryGoes
<1>28. CASE AddQuery
  <2>1. InBatch /\ IndexInv /\ size = known /\ known \in Queries
    <3>1. pc = "add" /\ known < NumQueries
      BY <1>28 DEF AddQuery
    <3> QED
      BY <3>1, <1>0, NextIsQuery DEF InBatch, TableFollowsStates, AddsInOrder
  <2>2. CASE SetupThrows
    BY <1>2, <2>2 DEF SetupThrows, Throw
  <2>3. CASE Register(known, size) /\ Full
    BY <1>2, <2>3 DEF Register, Throw
  <2>4. CASE Register(known, size) /\ ~Full
    <3>1. PICK s \in Sockets : AddEntry(s, "out", size) /\ open' = open \cup {s}
      BY <2>4 DEF Register, SetupConnection
    <3>2. size \in Slots /\ size' = size + 1
      BY <2>1, <3>1, ParallelAssumption DEF AddEntry, Full, IndexInv, TableTypeOK, Slots
    <3>3. size \notin Registered
      <4>1. \A p \in Live : fds2query[p] \in 0 .. size - 1
        BY <2>1 DEF IndexInv, IndicesInverse
      <4> QED
        BY <4>1, <1>0 DEF Registered, TypeOK
    <3>4. known' = known + 1 /\ EnterState(size, "WR_CONNECT")
      BY <1>28, <2>1 DEF AddQuery
    <3>5. TableFollowsStates'
      BY <2>1, <3>1, <3>2, <3>3, <3>4, EntryComes
    <3> QED
      BY <2>1, <3>2, <3>4, <3>5 DEF AddsInOrder
  <2> QED
    BY <1>28, <2>2, <2>3, <2>4 DEF AddQuery
<1>29. CASE RetryExpires
  <2>1. InBatch /\ IndexInv /\ cursor \in Given /\ cursor \in Queries
    BY <1>0, <1>29, GivenAreQueries DEF RetryExpires, InBatch, TableFollowsStates
  <2>2. cursor \in 0 .. known - 1 /\ cursor \notin Registered /\ cursor \in Slots /\ cursor < known
    <3>1. cursor \notin Registered
      BY <1>29, <1>0, <2>1 DEF RetryExpires, TableFollowsStates, PolledStates, ReadStates,
         WriteStates
    <3> QED
      BY <2>1, <3>1, ParallelAssumption DEF Given, IndexInv, TableTypeOK, Slots
  <2>3. CASE SetupThrows
    BY <1>2, <2>3 DEF SetupThrows, Throw
  <2>4. CASE Register(cursor, cursor) /\ EnterState(cursor, "WR_CONNECT")
    <3>1. ~Full
      BY <2>1, <2>2, RoomForKnown
    <3>2. PICK s \in Sockets : AddEntry(s, "out", cursor) /\ open' = open \cup {s}
      BY <2>4, <3>1 DEF Register, SetupConnection
    <3>3. UNCHANGED known /\ pc' # "add"
      BY <1>29, <2>4, <3>1 DEF RetryExpires, Register, Advance, Goto
    <3>4. TableFollowsStates'
      BY <2>1, <2>2, <2>4, <3>2, <3>3, EntryComes
    <3> QED
      BY <3>3, <3>4 DEF AddsInOrder
  <2> QED
    BY <1>29, <2>3, <2>4 DEF RetryExpires
<1> QED
  BY <1>3, <1>4, <1>5, <1>6, <1>7, <1>8, <1>9, <1>10, <1>11, <1>12, <1>13, <1>14, <1>15, <1>16,
     <1>17, <1>18, <1>19, <1>20, <1>21, <1>22, <1>23, <1>24, <1>25, <1>26, <1>27, <1>28, <1>29
     DEF Next, Code, Terminated

-----------------------------------------------------------------------------
(* Retries *)

LEMMA StepRetries == MachineInv /\ [Next]_vars => AttemptsCounted' /\ RetryBudget'
<1> SUFFICES ASSUME MachineInv, [Next]_vars PROVE AttemptsCounted' /\ RetryBudget'
  OBVIOUS
<1>0. TypeOK /\ AttemptsCounted /\ RetryBudget
  BY DEF MachineInv
<1> DEFINE Spends == UNCHANGED <<known, attempts>> /\ pc' \in {"unwind", "done"}
           Quiet == /\ UNCHANGED <<known, attempts, connectRetries>>
                    /\ InBatch' => InBatch
                    /\ \A q \in Given : qs'[q] = "RETRY_CONNECT" <=> qs[q] = "RETRY_CONNECT"
<1>1. ASSUME Quiet PROVE AttemptsCounted' /\ RetryBudget'
  BY <1>0, <1>1 DEF AttemptsCounted, RetryBudget, Given
<1>2. ASSUME Spends PROVE AttemptsCounted' /\ RetryBudget'
  BY <1>0, <1>2 DEF AttemptsCounted, RetryBudget, Given, InBatch
\* A handler moves a query from one polled state to another or finishes it.
<1>3. ASSUME pc = "scan", cursor \in Live, pc' = "scan",
             UNCHANGED <<known, attempts, connectRetries>>,
             NEW state \in QueryState \ {"RETRY_CONNECT"}, EnterState(CurrentQuery, state)
      PROVE  AttemptsCounted' /\ RetryBudget'
  <2>1. qs[CurrentQuery] # "RETRY_CONNECT"
    BY <1>3, ScannedQuery DEF PolledStates, ReadStates, WriteStates
  <2>2. \A q \in Given : qs'[q] = "RETRY_CONNECT" <=> qs[q] = "RETRY_CONNECT"
    BY <1>0, <1>3, <2>1, GivenAreQueries DEF EnterState, TypeOK
  <2> QED
    BY <1>1, <1>3, <2>2 DEF InBatch
<1> HIDE DEF Quiet, Spends
<1>4. CASE Launch
  BY <1>1, <1>4 DEF Quiet, Launch, InBatch, history, Goto
<1>5. CASE PollFails
  BY <1>1, <1>5 DEF Quiet, PollFails, InBatch, history, AfterPoll
<1>6. CASE SkipEntry
  BY <1>1, <1>6 DEF Quiet, SkipEntry, InBatch, history, Advance, Goto, Idle
<1>7. CASE CallInterrupted
  BY <1>1, <1>7 DEF Quiet, CallInterrupted, InBatch, history, Advance, Goto, Idle
<1>8. CASE WritePart
  BY <1>1, <1>8 DEF Quiet, WritePart, InBatch, history, Advance, Goto, Idle
<1>9. CASE ReadPart
  BY <1>1, <1>9 DEF Quiet, ReadPart, InBatch, history, Advance, Goto, Idle
<1>10. CASE ScanEnds
  BY <1>1, <1>10 DEF Quiet, ScanEnds, InBatch, history, Goto, Idle
<1>11. CASE SkipQuery
  BY <1>1, <1>11 DEF Quiet, SkipQuery, InBatch, history, Advance, Goto, Idle
<1>12. CASE ExpireEnds
  BY <1>1, <1>12 DEF Quiet, ExpireEnds, InBatch, history, Goto, Idle
<1>13. CASE PollReady
  BY <1>1, <1>13 DEF Quiet, PollReady, InBatch, history, AfterPoll, Goto
<1>14. CASE PollTimesOut
  BY <1>1, <1>14 DEF Quiet, PollTimesOut, InBatch, history, AfterPoll, Goto
<1>15. CASE UNCHANGED vars
  BY <1>1, <1>15 DEF Quiet, vars, control, InBatch, history
<1>16. CASE UnwindFd
  BY <1>1, <1>16 DEF Quiet, UnwindFd, control, InBatch, history
<1>17. CASE LaunchReturns
  BY <1>2, <1>17 DEF Spends, LaunchReturns, history, AfterPoll
<1>18. CASE EntryThrows
  BY <1>2, <1>18 DEF Spends, EntryThrows, history, Throw, Idle
<1>19. CASE OldVersionRead
  BY <1>2, <1>19 DEF Spends, OldVersionRead, history, Throw, Idle
<1>20. CASE ExpiryThrows
  BY <1>2, <1>20 DEF Spends, ExpiryThrows, history, Throw, Idle
<1>21. CASE Destroyed
  BY <1>2, <1>21 DEF Spends, Destroyed, history
<1>22. CASE Connected
  BY <1>3, <1>22 DEF Connected, Scanning, Advance, Goto, Idle, QueryState, ReadStates, WriteStates
<1>23. CASE VersionWritten
  BY <1>3, <1>23 DEF VersionWritten, Scanning, Advance, Goto, Idle, QueryState, ReadStates,
     WriteStates
<1>24. CASE RequestWritten
  BY <1>3, <1>24 DEF RequestWritten, Scanning, Advance, Goto, Idle, QueryState, ReadStates,
     WriteStates
<1>25. CASE VersionRead
  BY <1>3, <1>25 DEF VersionRead, Scanning, Advance, Goto, Idle, QueryState, ReadStates,
     WriteStates
<1>26. CASE HeaderRead
  BY <1>3, <1>26 DEF HeaderRead, Scanning, Advance, Goto, Idle, QueryState, ReadStates,
     WriteStates
<1>27. CASE BodyRead
  <2>1. CASE StatusOK(CurrentQuery)
    BY <1>3, <1>27, <2>1 DEF BodyRead, Scanning, Advance, Goto, QueryState
  <2>2. CASE ~StatusOK(CurrentQuery)
    BY <1>2, <1>27, <2>2 DEF Spends, BodyRead, Throw
  <2> QED
    BY <2>1, <2>2
<1>28. CASE ConnectExpires
  <2>1. /\ InBatch /\ cursor \in Given /\ cursor \in Queries
        /\ qs[cursor] = "WR_CONNECT" /\ connectRetries[cursor] > 0
    BY <1>0, <1>28, GivenAreQueries DEF ConnectExpires, Repeatable, RetriesLeft, InBatch
  <2>2. HasPollIndex(cursor)
    BY <2>1, PolledHasEntry DEF PolledStates, WriteStates
  <2>3. /\ UNCHANGED <<known, attempts>>
        /\ connectRetries' = [connectRetries EXCEPT ![cursor] = @ - 1]
        /\ qs' = [qs EXCEPT ![cursor] = "RETRY_CONNECT"]
    BY <1>28, <2>2 DEF ConnectExpires, SpendRetry, EnterState, history
  <2>4. \A q \in Given : /\ connectRetries'[q] = IF q = cursor THEN connectRetries[q] - 1
                                                                 ELSE connectRetries[q]
                         /\ qs'[q] = IF q = cursor THEN "RETRY_CONNECT" ELSE qs[q]
                         /\ connectRetries[q] \in Nat /\ attempts[q] \in Nat
    BY <1>0, <2>1, <2>3, GivenAreQueries, TimeAssumption DEF TypeOK, AttemptsCounted
  <2>5. Given' = Given /\ ConnectRetriesCount \in Nat
    BY <2>3, TimeAssumption DEF Given
  <2>6. \A q \in Given :
          /\ attempts[q] =< ConnectRetriesCount + 1
          /\ attempts[q] + connectRetries'[q] =
               ConnectRetriesCount + IF qs'[q] = "RETRY_CONNECT" THEN 0 ELSE 1
    BY <1>0, <2>1, <2>4, <2>5 DEF RetryBudget
  <2>7. RetryBudget'
    BY <2>3, <2>5, <2>6 DEF RetryBudget
  <2> QED
    BY <1>0, <2>3, <2>5, <2>7 DEF AttemptsCounted
<1>29. CASE AddQuery
  <2>1. known \in Queries /\ Given' = Given \cup {known} /\ Given \subseteq Queries /\ known \notin Given
    <3>1. known < NumQueries /\ known' = known + 1
      BY <1>29 DEF AddQuery
    <3>2. known \in Queries /\ known \in Nat
      BY <1>0, <3>1, NextIsQuery
    <3>3. Given' = 0 .. known /\ Given = 0 .. known - 1
      BY <3>1, <3>2 DEF Given
    <3> QED
      BY <1>0, <3>2, <3>3, GivenAreQueries
  <2>2. ConnectRetriesCount \in Nat /\ attempts[known] = 0 /\ InBatch
    BY <1>0, <1>29, <2>1, TimeAssumption DEF AttemptsCounted, AddQuery, InBatch
  <2>3. \/ attempts' = attempts /\ pc' = "unwind"
        \/ attempts' = [attempts EXCEPT ![known] = @ + 1]
    BY <1>29 DEF AddQuery, SetupThrows, Throw, Register
  <2>4. AttemptsCounted'
    BY <1>0, <2>1, <2>2, <2>3 DEF AttemptsCounted
  <2>5. /\ connectRetries' = [connectRetries EXCEPT ![known] = ConnectRetriesCount]
        /\ qs' = [qs EXCEPT ![known] = "WR_CONNECT"]
    BY <1>29 DEF AddQuery, EnterState
  <2>6. \A q \in Given : /\ attempts[q] =< ConnectRetriesCount + 1
                         /\ attempts[q] + connectRetries[q] =
                              ConnectRetriesCount + IF qs[q] = "RETRY_CONNECT" THEN 0 ELSE 1
    BY <1>0, <2>2 DEF RetryBudget
  <2>7. ASSUME NEW q \in Given \cup {known}
        PROVE  /\ attempts'[q] =< ConnectRetriesCount + 1
               /\ InBatch' => attempts'[q] + connectRetries'[q] =
                                ConnectRetriesCount + IF qs'[q] = "RETRY_CONNECT" THEN 0 ELSE 1
    <3>1. CASE q = known
      <4>1. connectRetries'[q] = ConnectRetriesCount /\ qs'[q] = "WR_CONNECT"
        BY <1>0, <2>1, <2>5, <3>1 DEF TypeOK
      <4>2. \/ attempts'[q] = 0 /\ ~InBatch'
            \/ attempts'[q] = 1
        BY <1>0, <2>1, <2>2, <2>3, <3>1 DEF AttemptsCounted, InBatch
      <4> QED
        BY <2>2, <4>1, <4>2
    <3>2. CASE q # known
      <4>1. /\ q \in Given /\ attempts'[q] = attempts[q]
            /\ connectRetries'[q] = connectRetries[q] /\ qs'[q] = qs[q]
        BY <1>0, <2>1, <2>3, <2>5, <3>2 DEF TypeOK, AttemptsCounted
      <4> QED
        BY <2>6, <4>1
    <3> QED
      BY <3>1, <3>2
  <2>8. RetryBudget'
    BY <2>1, <2>7 DEF RetryBudget
  <2> QED
    BY <2>4, <2>8
<1>30. CASE RetryExpires
  <2>1. /\ InBatch /\ cursor \in Given /\ cursor \in Queries
        /\ qs[cursor] = "RETRY_CONNECT"
    BY <1>0, <1>30, GivenAreQueries DEF RetryExpires, InBatch
  <2>2. CASE SetupThrows
    BY <1>2, <1>30, <2>2 DEF Spends, RetryExpires, SetupThrows, Throw
  <2>3. CASE Register(cursor, cursor) /\ EnterState(cursor, "WR_CONNECT")
    <3>1. /\ UNCHANGED <<known, connectRetries>>
          /\ attempts' = [attempts EXCEPT ![cursor] = @ + 1]
          /\ qs' = [qs EXCEPT ![cursor] = "WR_CONNECT"]
      BY <1>30, <2>3 DEF RetryExpires, Register, EnterState
    <3>2. \A q \in Queries : /\ attempts'[q] = IF q = cursor THEN attempts[q] + 1
                                                              ELSE attempts[q]
                             /\ qs'[q] = IF q = cursor THEN "WR_CONNECT" ELSE qs[q]
                             /\ connectRetries[q] \in Nat /\ attempts[q] \in Nat
      BY <1>0, <2>1, <3>1, TimeAssumption DEF TypeOK, AttemptsCounted
    <3>3. Given' = Given /\ ConnectRetriesCount \in Nat /\ Given \subseteq Queries
      BY <1>0, <3>1, TimeAssumption, GivenAreQueries DEF Given
    <3>4. \A q \in Given :
            /\ attempts'[q] =< ConnectRetriesCount + 1
            /\ attempts'[q] + connectRetries[q] =
                 ConnectRetriesCount + IF qs'[q] = "RETRY_CONNECT" THEN 0 ELSE 1
      BY <1>0, <2>1, <3>2, <3>3 DEF RetryBudget
    <3>5. RetryBudget'
      BY <3>1, <3>3, <3>4 DEF RetryBudget
    <3> QED
      BY <1>0, <2>1, <3>1, <3>2, <3>3, <3>5 DEF AttemptsCounted
  <2> QED
    BY <1>30, <2>2, <2>3 DEF RetryExpires
<1> QED
  BY <1>4, <1>5, <1>6, <1>7, <1>8, <1>9, <1>10, <1>11, <1>12, <1>13, <1>14, <1>15, <1>16, <1>17,
     <1>18, <1>19, <1>20, <1>21, <1>22, <1>23, <1>24, <1>25, <1>26, <1>27, <1>28, <1>29, <1>30
     DEF Next, Code, Terminated

-----------------------------------------------------------------------------
(* ClientUsageError_t *)

LEMMA StepUsage == MachineInv /\ [Next]_vars => UsageErrorOnlyWhenFull'
<1> SUFFICES ASSUME MachineInv, [Next]_vars, outcome' = "ClientUsageError"
             PROVE  known' > MaxParallel
  BY DEF UsageErrorOnlyWhenFull
<1>0. TypeOK /\ UsageErrorOnlyWhenFull
  BY DEF MachineInv
<1> DEFINE Same == UNCHANGED <<known, outcome>>
<1>1. ASSUME Same PROVE known' > MaxParallel
  BY <1>0, <1>1 DEF UsageErrorOnlyWhenFull
<1>2. CASE Launch
  BY <1>1, <1>2 DEF Launch, Goto
<1>3. CASE PollFails
  BY <1>1, <1>3 DEF PollFails, AfterPoll
<1>4. CASE SkipEntry
  BY <1>1, <1>4 DEF SkipEntry, Advance, Goto, Idle
<1>5. CASE CallInterrupted
  BY <1>1, <1>5 DEF CallInterrupted, Advance, Goto, Idle
<1>6. CASE WritePart
  BY <1>1, <1>6 DEF WritePart, Advance, Goto, Idle
<1>7. CASE ReadPart
  BY <1>1, <1>7 DEF ReadPart, Advance, Goto, Idle
<1>8. CASE ScanEnds
  BY <1>1, <1>8 DEF ScanEnds, Goto, Idle
<1>9. CASE SkipQuery
  BY <1>1, <1>9 DEF SkipQuery, Advance, Goto, Idle
<1>10. CASE ExpireEnds
  BY <1>1, <1>10 DEF ExpireEnds, Goto, Idle
<1>11. CASE PollReady
  BY <1>1, <1>11 DEF PollReady, AfterPoll, Goto
<1>12. CASE PollTimesOut
  BY <1>1, <1>12 DEF PollTimesOut, AfterPoll, Goto
<1>13. CASE UnwindFd
  BY <1>1, <1>13 DEF UnwindFd, control
<1>14. CASE Destroyed
  BY <1>1, <1>14 DEF Destroyed
<1>15. CASE Connected
  BY <1>1, <1>15 DEF Connected, Advance, Goto, Idle
<1>16. CASE VersionWritten
  BY <1>1, <1>16 DEF VersionWritten, Advance, Goto, Idle
<1>17. CASE RequestWritten
  BY <1>1, <1>17 DEF RequestWritten, Advance, Goto, Idle
<1>18. CASE VersionRead
  BY <1>1, <1>18 DEF VersionRead, Advance, Goto, Idle
<1>19. CASE HeaderRead
  BY <1>1, <1>19 DEF HeaderRead, Advance, Goto, Idle
<1>20. CASE UNCHANGED vars
  BY <1>1, <1>20 DEF vars, control
<1>21. CASE LaunchReturns
  BY <1>1, <1>21 DEF LaunchReturns, AfterPoll
<1>22. CASE EntryThrows
  BY <1>1, <1>22 DEF EntryThrows, Throw, Idle
<1>23. CASE OldVersionRead
  BY <1>1, <1>23 DEF OldVersionRead, Throw, Idle
<1>24. CASE ExpiryThrows
  BY <1>1, <1>24 DEF ExpiryThrows, Throw, Idle
<1>25. CASE BodyRead
  BY <1>1, <1>25 DEF BodyRead, Throw, Advance, Goto
\* removeFd finds the entry of a query that is connecting.
<1>26. CASE ConnectExpires
  <2>1. HasPollIndex(cursor)
    BY <1>26, PolledHasEntry DEF ConnectExpires, Repeatable, PolledStates, WriteStates, InBatch
  <2> QED
    BY <1>1, <1>26, <2>1 DEF ConnectExpires, Advance, Goto
\* Only the query that is one too many does not fit.
<1>27. CASE AddQuery
  <2>1. known' = known + 1 /\ size = known
    BY <1>27 DEF AddQuery, MachineInv, AddsInOrder
  <2>2. CASE Full
    BY <1>0, <2>1, <2>2, ParallelAssumption, CountAssumption DEF Full, TypeOK
  <2>3. CASE ~Full
    <3>1. outcome' \in {outcome, "ConnectionError"}
      BY <1>27, <2>3 DEF AddQuery, SetupThrows, Register, Throw, Advance, Goto
    <3> QED
      BY <1>0, <2>1, <3>1, ParallelAssumption, CountAssumption DEF UsageErrorOnlyWhenFull, TypeOK
  <2> QED
    BY <2>2, <2>3
\* A query that waits for a retry has left its place to be had again.
<1>28. CASE RetryExpires
  <2>1. ~Full
    <3>1. cursor \in 0 .. known - 1 /\ cursor \notin Registered
      BY <1>28 DEF RetryExpires, MachineInv, TableFollowsStates, InBatch, Given,
                   PolledStates, ReadStates, WriteStates
    <3>2. IndexInv
      BY <1>28 DEF RetryExpires, MachineInv, TableFollowsStates, InBatch
    <3> QED
      BY <3>1, <3>2, RoomForKnown
  <2>2. Same
    BY <1>28, <2>1 DEF RetryExpires, SetupThrows, Register, Throw, Advance, Goto
  <2> QED
    BY <1>1, <2>2
<1> QED
  BY <1>2, <1>3, <1>4, <1>5, <1>6, <1>7, <1>8, <1>9, <1>10, <1>11, <1>12, <1>13, <1>14, <1>15,
     <1>16, <1>17, <1>18, <1>19, <1>20, <1>21, <1>22, <1>23, <1>24, <1>25, <1>26, <1>27, <1>28
     DEF Next, Code, Terminated

-----------------------------------------------------------------------------
(* What is polled and what poll() reported *)

Fits(p) ==
    /\ fds[p].events = IF qs[fds2query[p]] \in ReadStates THEN "in" ELSE "out"
    /\ pc = "scan" /\ p >= cursor => fds[p].revents \in {"none", "err", fds[p].events}

\* EventsMatchStates, entry by entry.
LEMMA FitsAtEntries ==
    EventsMatchStates <=> (InBatch => \A p \in Live : Fits(p))
BY DEF EventsMatchStates, Fits

\* A handler answers an event: it changes what its own entry waits for and the
\* state of its own query to match.
LEMMA EventsFit ==
    ASSUME MachineInv, EventsMatchStates, pc = "scan", cursor \in Live,
           NEW ev \in Interests, SetEvents(cursor, ev), pc' = "scan", cursor' = cursor + 1,
           NEW state \in PolledStates, EnterState(CurrentQuery, state),
           ev = IF state \in ReadStates THEN "in" ELSE "out"
    PROVE  EventsMatchStates'
<1>1. IndexInv /\ TypeOK /\ InBatch /\ \A p \in Live : Fits(p)
  BY FitsAtEntries DEF MachineInv, TableFollowsStates, InBatch
<1>2. /\ Live' = Live /\ fds2query' = fds2query
      /\ \A x \in Live : fds'[x] = IF x = cursor THEN [fds[x] EXCEPT !.events = ev]
                                                 ELSE fds[x]
  BY <1>1, SetEventsType DEF IndexInv, SetEvents, Live
<1>3. \A x \in Live : qs'[fds2query[x]] = IF x = cursor THEN state ELSE qs[fds2query[x]]
  <2>1. \A x \in Live : fds2query[x] \in Queries
    BY <1>1, GivenAreQueries DEF IndexInv, IndicesInverse, Given
  <2>2. CurrentQuery = fds2query[cursor]
    BY ScannedQuery
  <2>3. \A x \in Live : fds2query[x] = fds2query[cursor] => x = cursor
    BY <1>1 DEF IndexInv, IndicesInverse
  <2> QED
    BY <1>1, <2>1, <2>2, <2>3 DEF EnterState, TypeOK
<1>4. ASSUME NEW x \in Live
      PROVE  /\ fds'[x].events = IF qs'[fds2query[x]] \in ReadStates THEN "in" ELSE "out"
             /\ x >= cursor + 1 => fds'[x].revents \in {"none", "err", fds'[x].events}
  <2>1. CASE x = cursor
    <3>1. fds[x] \in PollFd
      BY <1>1, <2>1, ScannedQuery DEF TypeOK
    <3>2. fds'[x].events = ev
      BY <1>2, <2>1, <3>1 DEF PollFd
    <3> QED
      BY <1>1, <1>3, <2>1, <3>2 DEF TypeOK
  <2>2. CASE x # cursor
    <3>1. fds'[x] = fds[x] /\ qs'[fds2query[x]] = qs[fds2query[x]] /\ Fits(x)
      BY <1>1, <1>2, <1>3, <2>2
    <3>2. x >= cursor + 1 => x >= cursor
      BY <1>1 DEF Live, TypeOK
    <3> QED
      BY <3>1, <3>2 DEF Fits
  <2> QED
    BY <2>1, <2>2
<1>5. (\A p \in Live : Fits(p))'
  BY <1>2, <1>4 DEF Fits, ReadStates
<1> QED
  BY <1>5, FitsAtEntries, PTL

\* The entries behind a removed one move to the left, in front of the loop: the
\* next one is passed over, and none is looked at with another's revents.
LEMMA RemovalFits ==
    ASSUME MachineInv, EventsMatchStates, InBatch, NEW p \in Live, RemoveFd(p),
           pc' = "scan" => pc = "scan" /\ p = cursor /\ cursor' = cursor + 1,
           NEW state, EnterState(fds2query[p], state)
    PROVE  EventsMatchStates'
<1>1. IndexInv /\ TypeOK /\ \A x \in Live : Fits(x)
  BY FitsAtEntries DEF MachineInv, TableFollowsStates
<1>2. SUFFICES ASSUME NEW i \in Live'
               PROVE  /\ fds'[i].events = IF qs'[fds2query'[i]] \in ReadStates THEN "in" ELSE "out"
                      /\ pc' = "scan" /\ i >= cursor' =>
                           fds'[i].revents \in {"none", "err", fds'[i].events}
  <2>1. (\A x \in Live : Fits(x))'
    BY <1>2 DEF Fits, ReadStates
  <2> QED
    BY <2>1 DEF EventsMatchStates, Fits
<1>3. PICK j \in Live \ {p} : /\ j = IF p =< i THEN i + 1 ELSE i
                             /\ fds'[i] = fds[j] /\ fds2query'[i] = fds2query[j]
  BY <1>1, RemoveMoves
<1>4. qs'[fds2query[j]] = qs[fds2query[j]]
  <2>1. fds2query[j] \in Queries /\ fds2query[j] # fds2query[p]
    BY <1>1, GivenAreQueries DEF IndexInv, IndicesInverse, Given
  <2> QED
    BY <1>1, <2>1 DEF EnterState, TypeOK
<1>5. pc' = "scan" /\ i >= cursor' => pc = "scan" /\ j >= cursor
  <2>1. i \in Int /\ cursor \in Nat
    BY <1>1, <1>3 DEF TypeOK, Live
  <2> QED
    BY <1>3, <2>1
<1> QED
  BY <1>1, <1>3, <1>4, <1>5 DEF Fits

LEMMA ReportsFit ==
    ASSUME MachineInv, EventsMatchStates, pc = "poll", NEW r \in [Live -> Revents],
           PollReports(r), UNCHANGED qs
    PROVE  EventsMatchStates'
<1>1. IndexInv /\ TypeOK /\ InBatch /\ \A x \in Live : Fits(x)
  BY FitsAtEntries DEF MachineInv, TableFollowsStates, InBatch
<1>2. Live' = Live /\ fds2query' = fds2query
  BY DEF PollReports, Live
<1>3. ASSUME NEW x \in Live
      PROVE  /\ fds'[x].events = fds[x].events
             /\ fds'[x].revents \in {"none", "err", fds'[x].events}
  <2>1. fds[x] \in PollFd
    BY <1>1, ParallelAssumption DEF TypeOK, Live, Slots
  <2>2. fds'[x] = [fds[x] EXCEPT !.revents = r[x]]
    BY <1>1, PollReportsType DEF IndexInv
  <2>3. r[x] \in {"none", "err", fds[x].events}
    BY FailuresAssumption DEF PollReports, ReventsFor
  <2> QED
    BY <2>1, <2>2, <2>3 DEF PollFd
<1>4. (\A x \in Live : Fits(x))'
  BY <1>1, <1>2, <1>3 DEF Fits, ReadStates
<1> QED
  BY <1>4 DEF EventsMatchStates, Fits

\* A new entry waits to be writable; poll() is asked before it is looked at.
LEMMA NewEntryFits ==
    ASSUME MachineInv, EventsMatchStates, InBatch, NEW q \in Queries, q \in Slots,
           q \notin Registered, NEW s \in Sockets, AddEntry(s, "out", q),
           EnterState(q, "WR_CONNECT"), pc' # "scan"
    PROVE  EventsMatchStates'
<1>1. IndexInv /\ TypeOK /\ \A x \in Live : Fits(x)
  BY FitsAtEntries DEF MachineInv, TableFollowsStates
<1>2. /\ Live' = Live \cup {size} /\ fds2query'[size] = q
      /\ fds'[size].events = "out"
      /\ \A x \in Live : fds'[x] = fds[x] /\ fds2query'[x] = fds2query[x]
  <2>1. fds'[size] = [fd |-> s, events |-> "out", revents |-> fds[size].revents]
    BY <1>1, AddMakes
  <2> QED
    BY <1>1, <2>1, AddMakes
<1>3. \A x \in Live : fds2query[x] \in Queries /\ fds2query[x] # q
  BY <1>1, GivenAreQueries DEF IndexInv, IndicesInverse, Given, Registered
<1>4. /\ qs'[q] = "WR_CONNECT"
      /\ \A x \in Live : qs'[fds2query[x]] = qs[fds2query[x]]
  BY <1>1, <1>3 DEF EnterState, TypeOK
<1>5. (\A x \in Live : Fits(x))'
  BY <1>1, <1>2, <1>4 DEF Fits, ReadStates
<1> QED
  BY <1>5 DEF EventsMatchStates, Fits

LEMMA StepEvents == MachineInv /\ EventsMatchStates /\ [Next]_vars => EventsMatchStates'
<1> SUFFICES ASSUME MachineInv, EventsMatchStates, [Next]_vars PROVE EventsMatchStates'
  OBVIOUS
<1>0. TypeOK /\ TableFollowsStates /\ AddsInOrder
  BY DEF MachineInv
<1> DEFINE Quiet == /\ UNCHANGED <<table, qs>>
                    /\ InBatch' => InBatch
                    /\ pc' = "scan" => pc = "scan" /\ cursor' \in {cursor, cursor + 1}
<1>1. ASSUME Quiet PROVE EventsMatchStates'
  <2>1. ASSUME NEW p \in Live, Fits(p), InBatch' PROVE Fits(p)'
    <3>1. p \in Int /\ cursor \in Nat
      BY <1>0 DEF TypeOK, Live
    <3>2. pc' = "scan" /\ p >= cursor' => pc = "scan" /\ p >= cursor
      BY <1>1, <3>1
    <3> QED
      BY <1>1, <2>1, <3>2 DEF Fits, table
  <2>2. Live' = Live /\ (InBatch' => InBatch)
    BY <1>1 DEF Live, table
  <2>3. InBatch' => (\A p \in Live : Fits(p))'
    BY <2>1, <2>2, FitsAtEntries
  <2> QED
    BY <2>3, FitsAtEntries, PTL
<1>2. ASSUME pc' \in {"unwind", "done"} PROVE EventsMatchStates'
  BY <1>2 DEF EventsMatchStates, InBatch
<1> HIDE DEF Quiet
<1>3. CASE Launch
  BY <1>1, <1>3 DEF Quiet, Launch, InBatch, table, Goto
<1>4. CASE PollFails
  BY <1>1, <1>4 DEF Quiet, PollFails, InBatch, table, AfterPoll
<1>5. CASE SkipEntry
  BY <1>1, <1>5 DEF Quiet, SkipEntry, InBatch, table, Advance, Goto, Idle
<1>6. CASE CallInterrupted
  BY <1>1, <1>6 DEF Quiet, CallInterrupted, InBatch, table, Advance, Goto, Idle
<1>7. CASE WritePart
  BY <1>1, <1>7 DEF Quiet, WritePart, InBatch, table, Advance, Goto, Idle
<1>8. CASE ReadPart
  BY <1>1, <1>8 DEF Quiet, ReadPart, InBatch, table, Advance, Goto, Idle
<1>9. CASE ScanEnds
  BY <1>1, <1>9 DEF Quiet, ScanEnds, InBatch, table, Goto, Idle
<1>10. CASE SkipQuery
  BY <1>1, <1>10 DEF Quiet, SkipQuery, InBatch, table, Advance, Goto, Idle
<1>11. CASE ExpireEnds
  BY <1>1, <1>11 DEF Quiet, ExpireEnds, InBatch, table, Goto, Idle
<1>12. CASE UNCHANGED vars
  BY <1>1, <1>12 DEF Quiet, vars, control, InBatch, table
<1>13. CASE LaunchReturns
  BY <1>2, <1>13 DEF LaunchReturns
<1>14. CASE EntryThrows
  BY <1>2, <1>14 DEF EntryThrows, Throw
<1>15. CASE OldVersionRead
  BY <1>2, <1>15 DEF OldVersionRead, Throw
<1>16. CASE ExpiryThrows
  BY <1>2, <1>16 DEF ExpiryThrows, Throw
<1>17. CASE Destroyed
  BY <1>2, <1>17 DEF Destroyed
<1>18. CASE UnwindFd
  BY <1>2, <1>18 DEF UnwindFd, control
<1>19. CASE PollReady
  BY <1>19, ReportsFit DEF PollReady, AfterPoll, Revents
<1>20. CASE PollTimesOut
  BY <1>20, ReportsFit DEF PollTimesOut, AfterPoll, Revents
<1>21. CASE Connected
  <2>1. /\ pc = "scan" /\ cursor \in Live /\ pc' = "scan" /\ cursor' = cursor + 1
        /\ SetEvents(cursor, "in") /\ EnterState(CurrentQuery, "RD_VERSION")
    BY <1>21 DEF Connected, Scanning, Advance, Goto
  <2> QED
    BY <2>1, EventsFit DEF Interests, PolledStates, ReadStates, WriteStates
<1>22. CASE VersionWritten
  <2>1. /\ pc = "scan" /\ cursor \in Live /\ pc' = "scan" /\ cursor' = cursor + 1
        /\ SetEvents(cursor, "out") /\ EnterState(CurrentQuery, "WR_REQUEST")
    BY <1>22 DEF VersionWritten, Scanning, Advance, Goto
  <2> QED
    BY <2>1, EventsFit DEF Interests, PolledStates, ReadStates, WriteStates
<1>23. CASE RequestWritten
  <2>1. /\ pc = "scan" /\ cursor \in Live /\ pc' = "scan" /\ cursor' = cursor + 1
        /\ SetEvents(cursor, "in") /\ EnterState(CurrentQuery, "RD_RESPONSE_HEADER")
    BY <1>23 DEF RequestWritten, Scanning, Advance, Goto
  <2> QED
    BY <2>1, EventsFit DEF Interests, PolledStates, ReadStates, WriteStates
<1>24. CASE VersionRead
  <2>1. /\ pc = "scan" /\ cursor \in Live /\ pc' = "scan" /\ cursor' = cursor + 1
        /\ SetEvents(cursor, "out") /\ EnterState(CurrentQuery, "WR_VERSION")
    BY <1>24 DEF VersionRead, Scanning, Advance, Goto
  <2> QED
    BY <2>1, EventsFit DEF Interests, PolledStates, ReadStates, WriteStates
<1>25. CASE HeaderRead
  <2>1. /\ pc = "scan" /\ cursor \in Live /\ pc' = "scan" /\ cursor' = cursor + 1
        /\ SetEvents(cursor, "in") /\ EnterState(CurrentQuery, "RD_RESPONSE")
    BY <1>25 DEF HeaderRead, Scanning, Advance, Goto
  <2> QED
    BY <2>1, EventsFit DEF Interests, PolledStates, ReadStates, WriteStates
<1>26. CASE BodyRead
  <2>1. CASE StatusOK(CurrentQuery)
    <3>1. /\ pc = "scan" /\ cursor \in Live /\ RemoveFd(cursor) /\ cursor' = cursor + 1
          /\ EnterState(fds2query[cursor], "FINISHED")
      BY <1>26, <2>1 DEF BodyRead, Scanning, Advance, Goto, CurrentQuery, GetQueryIndex
    <3> QED
      BY <3>1, RemovalFits DEF InBatch
  <2>2. CASE ~StatusOK(CurrentQuery)
    BY <1>2, <1>26, <2>2 DEF BodyRead, Throw
  <2> QED
    BY <2>1, <2>2
<1>27. CASE ConnectExpires
  <2>1. InBatch /\ cursor \in Given /\ qs[cursor] \in PolledStates
    BY <1>27 DEF ConnectExpires, Repeatable, PolledStates, WriteStates, InBatch
  <2>2. PICK p \in Live : p = GetPollIndex(cursor) /\ fds2query[p] = cursor
    BY <2>1, PolledHasEntry
  <2>3. RemoveFd(p) /\ pc' # "scan" /\ EnterState(fds2query[p], "RETRY_CONNECT")
    BY <1>27, <2>1, <2>2, PolledHasEntry DEF ConnectExpires, Advance, Goto
  <2> QED
    BY <2>1, <2>3, RemovalFits
<1>28. CASE AddQuery
  <2>1. InBatch /\ IndexInv /\ size = known /\ known \in Queries /\ pc = "add"
    <3>1. pc = "add" /\ known < NumQueries
      BY <1>28 DEF AddQuery
    <3> QED
      BY <3>1, <1>0, NextIsQuery DEF InBatch, TableFollowsStates, AddsInOrder
  <2>2. CASE SetupThrows \/ (Register(known, size) /\ Full)
    BY <1>2, <2>2 DEF SetupThrows, Register, Throw
  <2>3. CASE Register(known, size) /\ ~Full
    <3>1. PICK s \in Sockets : AddEntry(s, "out", size)
      BY <2>3 DEF Register
    <3>2. size \in Slots /\ size \notin Registered
      <4>1. \A p \in Live : fds2query[p] \in 0 .. size - 1
        BY <2>1 DEF IndexInv, IndicesInverse
      <4> QED
        BY <2>3, <4>1, <1>0, ParallelAssumption DEF Registered, TypeOK, Full, Slots
    <3>3. EnterState(size, "WR_CONNECT") /\ pc' # "scan"
      BY <1>28, <2>1, <2>3 DEF AddQuery, Register, Advance, Goto
    <3> QED
      BY <2>1, <3>1, <3>2, <3>3, NewEntryFits
  <2> QED
    BY <1>28, <2>2, <2>3 DEF AddQuery
<1>29. CASE RetryExpires
  <2>1. InBatch /\ IndexInv /\ cursor \in Given /\ cursor \in Queries /\ pc = "expire"
    BY <1>0, <1>29, GivenAreQueries DEF RetryExpires, InBatch, TableFollowsStates
  <2>2. CASE SetupThrows \/ (Register(cursor, cursor) /\ Full)
    BY <1>2, <2>2 DEF SetupThrows, Register, Throw
  <2>3. CASE Register(cursor, cursor) /\ EnterState(cursor, "WR_CONNECT") /\ ~Full
    <3>1. PICK s \in Sockets : AddEntry(s, "out", cursor)
      BY <2>3 DEF Register
    <3>2. cursor \in Slots /\ cursor \notin Registered
      BY <1>29, <1>0, <2>1, ParallelAssumption
         DEF RetryExpires, TableFollowsStates, PolledStates, ReadStates, WriteStates,
             Given, IndexInv, TableTypeOK, Slots
    <3>3. pc' # "scan"
      BY <2>1, <2>3 DEF Register, Advance, Goto
    <3> QED
      BY <2>1, <2>3, <3>1, <3>2, <3>3, NewEntryFits
  <2> QED
    BY <1>29, <2>2, <2>3 DEF RetryExpires
<1> QED
  BY <1>3, <1>4, <1>5, <1>6, <1>7, <1>8, <1>9, <1>10, <1>11, <1>12, <1>13, <1>14, <1>15, <1>16,
     <1>17, <1>18, <1>19, <1>20, <1>21, <1>22, <1>23, <1>24, <1>25, <1>26, <1>27, <1>28, <1>29
     DEF Next, Code, Terminated

-----------------------------------------------------------------------------
(* Who holds the sockets *)

LEMMA SocketsStay ==
    ASSUME MachineInv, SocketAccounting, UNCHANGED <<size, open, abandoned>>,
           \A x \in Live : fds'[x].fd = fds[x].fd,
           InBatch \/ (~InBatch' /\ UNCHANGED outcome)
    PROVE  SocketAccounting'
<1>1. Live' = Live
  BY DEF Live
<1>2. {fds'[x].fd : x \in Live} = {fds[x].fd : x \in Live}
  OBVIOUS
<1> QED
  BY <1>1, <1>2 DEF SocketAccounting

\* The removed entry's descriptor is closed, and every other entry keeps its own.
LEMMA SocketCloses ==
    ASSUME MachineInv, SocketAccounting, NEW p \in Live, RemoveFd(p), UNCHANGED abandoned,
           \A i \in Live' : \E j \in Live \ {p} :
             j = (IF p =< i THEN i + 1 ELSE i) /\ fds'[i] = fds[j],
           \A j \in Live \ {p} : \E i \in Live' : fds'[i] = fds[j],
           InBatch \/ (~InBatch' /\ UNCHANGED outcome)
    PROVE  SocketAccounting'
<1>1. \A x, y \in Live : fds[x].fd = fds[y].fd => x = y
  BY DEF SocketAccounting
<1>2. open' = open \ {fds[p].fd}
  BY DEF RemoveFd, Closed
<1>3. {fds'[i].fd : i \in Live'} = {fds[j].fd : j \in Live \ {p}}
  OBVIOUS
<1>4. open' = {fds'[i].fd : i \in Live'} \cup abandoned
  BY <1>1, <1>2, <1>3 DEF SocketAccounting
<1>5. ASSUME NEW x \in Live', NEW y \in Live', fds'[x].fd = fds'[y].fd
      PROVE  x = y
  <2>1. PICK j \in Live \ {p} : j = (IF p =< x THEN x + 1 ELSE x) /\ fds'[x] = fds[j]
    OBVIOUS
  <2>2. PICK k \in Live \ {p} : k = (IF p =< y THEN y + 1 ELSE y) /\ fds'[y] = fds[k]
    OBVIOUS
  <2>3. j = k
    BY <1>1, <1>5, <2>1, <2>2
  <2>4. x \in Int /\ y \in Int /\ p \in Int
    BY DEF Live
  <2> QED
    BY <2>1, <2>2, <2>3, <2>4
<1>6. \A i \in Live' : fds'[i].fd \notin abandoned
  BY DEF SocketAccounting
<1> QED
  BY <1>4, <1>5, <1>6 DEF SocketAccounting

\* A setup that throws leaves at most its own socket to nobody.
LEMMA SocketLost ==
    ASSUME MachineInv, SocketAccounting, InBatch, ~InBatch', UNCHANGED table,
           outcome' \in {"ConnectionError", "ClientUsageError"},
           NEW s \in Sockets \ open, open' = open \cup {s}, abandoned' = abandoned \cup {s}
    PROVE  SocketAccounting'
<1>1. abandoned = {} /\ abandoned' = {s} /\ Cardinality({s}) = 1
  BY FS_Singleton DEF SocketAccounting
<1>2. Live' = Live /\ fds' = fds
  BY DEF Live, table
<1>3. \A x \in Live : fds[x].fd \in open
  BY DEF SocketAccounting
<1>4. open' = {fds[x].fd : x \in Live} \cup {s}
  BY <1>1 DEF SocketAccounting
<1> QED
  BY <1>1, <1>2, <1>3, <1>4 DEF SocketAccounting

LEMMA SocketComes ==
    ASSUME MachineInv, SocketAccounting, InBatch, UNCHANGED abandoned,
           NEW s \in Sockets \ open, open' = open \cup {s}, NEW q, AddEntry(s, "out", q)
    PROVE  SocketAccounting'
<1>1. size \in Slots /\ Live' = Live \cup {size} /\ size \notin Live /\ Live \subseteq Slots
  <2>1. size \in Slots /\ size' = size + 1
    BY ParallelAssumption DEF AddEntry, Full, MachineInv, TypeOK, Slots
  <2> QED
    BY <2>1, ParallelAssumption DEF Live, Slots
<1>2. fds \in [Slots -> PollFd]
  BY DEF MachineInv, TypeOK
<1>3. fds[size] \in PollFd
  BY <1>1, <1>2
<1>4. fds'[size] = [[fds[size] EXCEPT !.fd = s] EXCEPT !.events = "out"]
  BY <1>1, <1>2 DEF AddEntry
<1>5. fds'[size].fd = s /\ \A x \in Live : fds'[x] = fds[x]
  BY <1>1, <1>2, <1>3, <1>4 DEF AddEntry, PollFd
<1>6. \A x \in Live : fds[x].fd # s
  BY DEF SocketAccounting
<1>7. {fds'[x].fd : x \in Live'} = {fds[x].fd : x \in Live} \cup {s}
  BY <1>1, <1>5
<1>8. abandoned = {}
  BY DEF SocketAccounting
<1> QED
  BY <1>1, <1>5, <1>6, <1>7, <1>8 DEF SocketAccounting

\* However a setup ends, one socket at most is lost.
LEMMA SetupKeepsSockets ==
    ASSUME MachineInv, SocketAccounting, InBatch, NEW q, NEW i,
           SetupThrows \/ Register(q, i)
    PROVE  SocketAccounting'
<1>1. CASE SetupThrows /\ UNCHANGED <<open, wire, abandoned>>
  BY <1>1, SocketsStay DEF SetupThrows, table, Throw
<1>2. CASE SetupThrows /\ ~UNCHANGED <<open, wire, abandoned>>
  <2>1. PICK s \in Sockets \ open : open' = open \cup {s} /\ abandoned' = abandoned \cup {s}
    BY <1>2 DEF SetupThrows, SetupConnection
  <2> QED
    BY <1>2, <2>1, SocketLost DEF SetupThrows, Throw, InBatch
<1>3. CASE Register(q, i) /\ Full
  <2>1. PICK s \in Sockets \ open : open' = open \cup {s} /\ abandoned' = abandoned \cup {s}
    BY <1>3 DEF Register, SetupConnection
  <2> QED
    BY <1>3, <2>1, SocketLost DEF Register, Throw, InBatch
<1>4. CASE Register(q, i) /\ ~Full
  <2>1. PICK s \in Sockets \ open : open' = open \cup {s} /\ AddEntry(s, "out", i)
                                     /\ UNCHANGED abandoned
    BY <1>4 DEF Register, SetupConnection
  <2> QED
    BY <2>1, SocketComes
<1> QED
  BY <1>1, <1>2, <1>3, <1>4

LEMMA StepSockets == MachineInv /\ SocketAccounting /\ [Next]_vars => SocketAccounting'
<1> SUFFICES ASSUME MachineInv, SocketAccounting, [Next]_vars PROVE SocketAccounting'
  OBVIOUS
<1>0. TypeOK /\ (InBatch => IndexInv)
  BY DEF MachineInv, TableFollowsStates
<1> DEFINE Quiet == UNCHANGED <<table, open, abandoned>>
                      /\ (InBatch \/ (~InBatch' /\ UNCHANGED outcome))
<1>1. ASSUME Quiet PROVE SocketAccounting'
  BY <1>1, SocketsStay DEF table
<1> HIDE DEF Quiet
<1>2. CASE Launch
  BY <1>1, <1>2 DEF Quiet, Launch, InBatch, table, history, Goto
<1>3. CASE PollFails
  BY <1>1, <1>3 DEF Quiet, PollFails, InBatch, table, history, AfterPoll
<1>4. CASE SkipEntry
  BY <1>1, <1>4 DEF Quiet, SkipEntry, InBatch, table, history, Scanning, Advance, Goto, Idle
<1>5. CASE CallInterrupted
  BY <1>1, <1>5 DEF Quiet, CallInterrupted, InBatch, table, history, Scanning, Advance, Goto, Idle
<1>6. CASE WritePart
  BY <1>1, <1>6 DEF Quiet, WritePart, InBatch, table, history, Scanning, Advance, Goto, Idle
<1>7. CASE ReadPart
  BY <1>1, <1>7 DEF Quiet, ReadPart, InBatch, table, history, Scanning, Advance, Goto, Idle
<1>8. CASE ScanEnds
  BY <1>1, <1>8 DEF Quiet, ScanEnds, InBatch, table, history, Goto, Idle
<1>9. CASE SkipQuery
  BY <1>1, <1>9 DEF Quiet, SkipQuery, InBatch, table, history, Advance, Goto, Idle
<1>10. CASE ExpireEnds
  BY <1>1, <1>10 DEF Quiet, ExpireEnds, InBatch, table, history, Goto, Idle
<1>11. CASE LaunchReturns
  BY <1>1, <1>11 DEF Quiet, LaunchReturns, InBatch, table, history, AfterPoll
<1>12. CASE EntryThrows
  BY <1>1, <1>12 DEF Quiet, EntryThrows, InBatch, table, history, Scanning, Throw, Idle
<1>13. CASE OldVersionRead
  BY <1>1, <1>13 DEF Quiet, OldVersionRead, InBatch, table, history, Scanning, Throw, Idle
<1>14. CASE ExpiryThrows
  BY <1>1, <1>14 DEF Quiet, ExpiryThrows, InBatch, table, history, Throw, Idle
<1>15. CASE Destroyed
  BY <1>1, <1>15 DEF Quiet, Destroyed, InBatch, table, history
<1>16. CASE UNCHANGED vars
  BY <1>1, <1>16 DEF Quiet, vars, control, InBatch, table, history
<1>17. CASE PollReady
  <2>1. PICK r \in [Live -> Revents] : PollReports(r)
    BY <1>17 DEF PollReady, Revents
  <2>2. InBatch /\ IndexInv
    BY <1>0, <1>17 DEF PollReady, InBatch
  <2>3. \A x \in Live : fds'[x].fd = fds[x].fd
    BY <2>1, <2>2, PollReportsKeepsFds DEF IndexInv
  <2>4. UNCHANGED <<size, open, abandoned>>
    BY <1>17, <2>1 DEF PollReady, PollReports, AfterPoll, history
  <2> QED
    BY <2>2, <2>3, <2>4, SocketsStay
<1>18. CASE PollTimesOut
  <2>1. PICK r \in [Live -> Revents] : PollReports(r)
    BY <1>18 DEF PollTimesOut, Revents
  <2>2. InBatch /\ IndexInv
    BY <1>0, <1>18 DEF PollTimesOut, InBatch
  <2>3. \A x \in Live : fds'[x].fd = fds[x].fd
    BY <2>1, <2>2, PollReportsKeepsFds DEF IndexInv
  <2>4. UNCHANGED <<size, open, abandoned>>
    BY <1>18, <2>1 DEF PollTimesOut, PollReports, AfterPoll, history
  <2> QED
    BY <2>2, <2>3, <2>4, SocketsStay
<1>19. CASE Connected
  <2>1. InBatch /\ IndexInv /\ cursor \in Live /\ SetEvents(cursor, "in")
    BY <1>0, <1>19 DEF Connected, Scanning, InBatch
  <2>2. \A x \in Live : fds'[x].fd = fds[x].fd
    BY <2>1, SetEventsKeepsFds DEF IndexInv, Interests
  <2>3. UNCHANGED <<size, open, abandoned>>
    BY <1>19, <2>1 DEF Connected, SetEvents, Idle
  <2> QED
    BY <2>1, <2>2, <2>3, SocketsStay
<1>20. CASE VersionWritten
  <2>1. InBatch /\ IndexInv /\ cursor \in Live /\ SetEvents(cursor, "out")
    BY <1>0, <1>20 DEF VersionWritten, Scanning, InBatch
  <2>2. \A x \in Live : fds'[x].fd = fds[x].fd
    BY <2>1, SetEventsKeepsFds DEF IndexInv, Interests
  <2>3. UNCHANGED <<size, open, abandoned>>
    BY <1>20, <2>1 DEF VersionWritten, SetEvents, Idle
  <2> QED
    BY <2>1, <2>2, <2>3, SocketsStay
<1>21. CASE RequestWritten
  <2>1. InBatch /\ IndexInv /\ cursor \in Live /\ SetEvents(cursor, "in")
    BY <1>0, <1>21 DEF RequestWritten, Scanning, InBatch
  <2>2. \A x \in Live : fds'[x].fd = fds[x].fd
    BY <2>1, SetEventsKeepsFds DEF IndexInv, Interests
  <2>3. UNCHANGED <<size, open, abandoned>>
    BY <1>21, <2>1 DEF RequestWritten, SetEvents, Idle
  <2> QED
    BY <2>1, <2>2, <2>3, SocketsStay
<1>22. CASE VersionRead
  <2>1. InBatch /\ IndexInv /\ cursor \in Live /\ SetEvents(cursor, "out")
    BY <1>0, <1>22 DEF VersionRead, Scanning, InBatch
  <2>2. \A x \in Live : fds'[x].fd = fds[x].fd
    BY <2>1, SetEventsKeepsFds DEF IndexInv, Interests
  <2>3. UNCHANGED <<size, open, abandoned>>
    BY <1>22, <2>1 DEF VersionRead, SetEvents, Idle
  <2> QED
    BY <2>1, <2>2, <2>3, SocketsStay
<1>23. CASE HeaderRead
  <2>1. InBatch /\ IndexInv /\ cursor \in Live /\ SetEvents(cursor, "in")
    BY <1>0, <1>23 DEF HeaderRead, Scanning, InBatch
  <2>2. \A x \in Live : fds'[x].fd = fds[x].fd
    BY <2>1, SetEventsKeepsFds DEF IndexInv, Interests
  <2>3. UNCHANGED <<size, open, abandoned>>
    BY <1>23, <2>1 DEF HeaderRead, SetEvents, Idle
  <2> QED
    BY <2>1, <2>2, <2>3, SocketsStay
<1>24. CASE BodyRead
  <2>1. InBatch /\ IndexInv /\ cursor \in Live /\ UNCHANGED abandoned
    BY <1>0, <1>24 DEF BodyRead, Scanning, InBatch
  <2>2. CASE StatusOK(CurrentQuery)
    <3>1. RemoveFd(cursor)
      BY <1>24, <2>2 DEF BodyRead
    <3> QED
      BY <2>1, <3>1, RemoveMoves, SocketCloses
  <2>3. CASE ~StatusOK(CurrentQuery)
    BY <1>1, <1>24, <2>1, <2>3 DEF Quiet, BodyRead
  <2> QED
    BY <2>2, <2>3
<1>25. CASE ConnectExpires
  <2>1. InBatch /\ IndexInv /\ cursor \in Given /\ qs[cursor] \in PolledStates
    BY <1>0, <1>25 DEF ConnectExpires, Repeatable, PolledStates, WriteStates, InBatch
  <2>2. PICK p \in Live : p = GetPollIndex(cursor)
    BY <2>1, PolledHasEntry
  <2>3. RemoveFd(p) /\ UNCHANGED abandoned
    BY <1>25, <2>1, <2>2, PolledHasEntry DEF ConnectExpires, history
  <2> QED
    BY <2>1, <2>3, RemoveMoves, SocketCloses
<1>26. CASE UnwindFd
  <2>1. size - 1 \in Live /\ Shifted(size - 1) = {} /\ Live \subseteq Slots
    BY <1>0, <1>26, ParallelAssumption DEF UnwindFd, Live, Shifted, TypeOK, Slots
  <2>2. RemoveFd(size - 1) /\ UNCHANGED abandoned /\ ~InBatch' /\ UNCHANGED outcome
    BY <1>26 DEF UnwindFd, control, history, InBatch
  <2>3. Live' = Live \ {size - 1} /\ \A x \in Live' : ~(size - 1 =< x)
    <3>1. size' = size - 1 /\ size \in Int
      BY <1>0, <2>2 DEF RemoveFd, TypeOK
    <3>2. Live' = 0 .. (size - 1) - 1
      BY <3>1 DEF Live
    <3> QED
      BY <3>1, <3>2 DEF Live
  <2>4. \A x \in Live' : fds'[x] = fds[x]
    BY <2>1, <2>2, <2>3 DEF RemoveFd
  <2>5. \A i \in Live' : \E j \in Live \ {size - 1} :
          j = (IF size - 1 =< i THEN i + 1 ELSE i) /\ fds'[i] = fds[j]
    BY <2>3, <2>4
  <2>6. \A j \in Live \ {size - 1} : \E i \in Live' : fds'[i] = fds[j]
    BY <2>3, <2>4
  <2> QED
    BY <2>1, <2>2, <2>5, <2>6, SocketCloses
<1>27. CASE AddQuery
  BY <1>27, SetupKeepsSockets DEF AddQuery, InBatch
<1>28. CASE RetryExpires
  BY <1>28, SetupKeepsSockets DEF RetryExpires, InBatch
<1> QED
  BY <1>2, <1>3, <1>4, <1>5, <1>6, <1>7, <1>8, <1>9, <1>10, <1>11, <1>12, <1>13, <1>14, <1>15,
     <1>16, <1>17, <1>18, <1>19, <1>20, <1>21, <1>22, <1>23, <1>24, <1>25, <1>26, <1>27, <1>28
     DEF Next, Code, Terminated

-----------------------------------------------------------------------------
(* The theorems *)

LEMMA InitMachineInv == Init => MachineInv
<1> SUFFICES ASSUME Init PROVE MachineInv
  OBVIOUS
<1>1. /\ Live = {} /\ Given = {} /\ Registered = {}
      /\ fds \in [Slots -> PollFd]
      /\ query2fds \in [Slots -> Index] /\ fds2query \in [Slots -> Index]
  BY JunkAssumption DEF Init, InitTable, Live, Given, Registered
<1>2. TypeOK
  BY <1>1, CountAssumption, TimeAssumption, ParallelAssumption
     DEF Init, InitTable, TypeOK, QueryState
<1>3. IndexInv
  BY <1>1, ParallelAssumption DEF Init, InitTable, IndexInv, TableTypeOK, IndicesInverse
<1>4. TableFollowsStates /\ AddsInOrder
  BY <1>1, <1>3 DEF TableFollowsStates, AddsInOrder, Init, InitTable
<1>5. AttemptsCounted /\ RetryBudget /\ UsageErrorOnlyWhenFull
  BY <1>1 DEF Init, AttemptsCounted, RetryBudget, UsageErrorOnlyWhenFull
<1> QED
  BY <1>2, <1>4, <1>5 DEF MachineInv

LEMMA StepMachineInv == MachineInv /\ [Next]_vars => MachineInv'
BY StepType, StepTable, StepRetries, StepUsage DEF MachineInv

\* The invariant the following theorems rest on: the table is kept by what the
\* code does to the states, and the other way round.
THEOREM MachineInvariant == Spec => []MachineInv
BY InitMachineInv, StepMachineInv, PTL DEF Spec

\* Every variable of the machine has its type.
THEOREM TypesCorrect == Spec => []TypeOK
<1>1. MachineInv => TypeOK
  BY DEF MachineInv
<1> QED
  BY <1>1, MachineInvariant, PTL

\* A batch has an entry in the table for exactly the queries that are connecting
\* or exchanging bytes, whatever poll() reports and in whatever order queries
\* are connected again.
THEOREM TableCorrect == Spec => []TableMatchesStates
<1>1. MachineInv => TableMatchesStates
  <2> SUFFICES ASSUME MachineInv, InBatch
               PROVE  /\ Registered = {q \in Given : qs[q] \in ReadStates \cup WriteStates}
                      /\ \A p \in Live : query2fds[fds2query[p]] = p
                      /\ \A q \in Given \ Registered : ~HasPollIndex(q)
    BY DEF TableMatchesStates
  <2>1. IndexInv /\ \A q \in Given : q \in Registered <=> qs[q] \in PolledStates
    BY DEF MachineInv, TableFollowsStates
  <2>2. Registered \subseteq Given
    BY <2>1 DEF IndexInv, IndicesInverse, Registered, Given
  <2> QED
    BY <2>1, <2>2 DEF IndexInv, IndicesInverse, HasPollIndex, Given, PolledStates
<1> QED
  BY <1>1, MachineInvariant, PTL

\* No query is connected more often than the configuration allows.
THEOREM RetriesBounded == Spec => []RetryBudget
<1>1. MachineInv => RetryBudget
  BY DEF MachineInv
<1> QED
  BY <1>1, MachineInvariant, PTL

\* ClientUsageError_t says that too many queries were added and nothing else:
\* neither getPollIndex nor the addQuery of a retry ever throws it.
THEOREM UsageErrorsJustified == Spec => []UsageErrorOnlyWhenFull
<1>1. MachineInv => UsageErrorOnlyWhenFull
  BY DEF MachineInv
<1> QED
  BY <1>1, MachineInvariant, PTL

\* launch() never looks at an event that does not fit the state of the query it
\* is for, although entries move while the pass goes on.
THEOREM EventsCorrect == Spec => []EventsMatchStates
<1>1. Init => EventsMatchStates
  BY DEF Init, InitTable, EventsMatchStates, Live
<1> QED
  BY <1>1, MachineInvariant, StepEvents, PTL DEF Spec

\* No descriptor is lost but the one of a setup that throws, and none is closed
\* that another entry still uses.
THEOREM SocketsAccounted == Spec => []SocketAccounting
<1>1. Init => SocketAccounting
  BY FS_EmptySet DEF Init, InitTable, SocketAccounting, Live
<1> QED
  BY <1>1, MachineInvariant, StepSockets, PTL DEF Spec

-----------------------------------------------------------------------------
(* The connections *)

\* What there is to say of an entry and the query it is for.
Entry(p) ==
    [query |-> fds2query[p],
     state |-> qs[fds2query[p]],
     wanted |-> bytesToRead[fds2query[p]],
     written |-> bytesWritten[fds2query[p]],
     length |-> announced[fds2query[p]],
     heard |-> heard[fds2query[p]],
     wire |-> wire[fds[p].fd]]

\* How far the exchange is, by the state of the query.
Sound(e) ==
    /\ e.state = "WR_CONNECT" =>
         e.wire.given = 0 /\ e.wire.taken = 0 /\ e.wire.carried = {} /\ e.heard = {}
    /\ e.state = "RD_VERSION" =>
         /\ e.wire.given = 0 /\ e.wire.taken + e.wanted = VersionLen
         /\ e.wire.carried = {} /\ e.heard = {}
    /\ e.state = "WR_VERSION" =>
         /\ e.wire.given = e.written /\ e.wire.taken = VersionLen
         /\ e.wire.carried = {} /\ e.heard = {}
    /\ e.state = "WR_REQUEST" =>
         /\ e.wire.given = HelloLen + e.written /\ e.wire.taken = VersionLen
         /\ e.wire.carried \subseteq {e.query} /\ e.heard = {}
    /\ e.state = "RD_RESPONSE_HEADER" =>
         /\ e.wire.given = HelloLen + RequestLen
         /\ e.wire.taken + e.wanted = VersionLen + HeaderLen
         /\ e.wire.carried = {e.query} /\ e.heard \subseteq {e.query}
    /\ e.state = "RD_RESPONSE" =>
         /\ e.wire.given = HelloLen + RequestLen
         /\ e.wire.taken + e.wanted = VersionLen + HeaderLen + e.length
         /\ e.wire.carried = {e.query} /\ e.heard = {e.query}

EntriesSound == InBatch => \A p \in Live : Sound(Entry(p))

Complete(q) ==
    qs[q] = "FINISHED" /\ responseStatuses[q] = "ok" /\ heard[q] = {q} /\ bytesToRead[q] = 0

\* The queries without an entry have their whole answer or nothing yet, and
\* those the machine has not got are untouched.
QueriesSound ==
    /\ InBatch => \A q \in Given : \/ qs[q] \in PolledStates
                                   \/ qs[q] = "RETRY_CONNECT" /\ heard[q] = {}
                                   \/ Complete(q)
    /\ \A q \in Queries \ Given : heard[q] = {} /\ qs[q] = "none"

WiresTyped ==
    /\ wire \in [Sockets -> [given : Nat, taken : Nat, carried : SUBSET Queries]]
    /\ heard \in [Queries -> SUBSET Queries]
    /\ announced \in [Queries -> Nat]

\* The batch runs until it has an outcome, and never without a query.
ControlSound ==
    /\ InBatch <=> outcome = "running"
    /\ pc = "add" => \A q \in Given : qs[q] = "WR_CONNECT"
    /\ pc \in {"poll", "scan", "expire"} => known > 0
    /\ outcome = "ok" => \A q \in Given : Complete(q)

ExchangeInv ==
    /\ MachineInv /\ SocketAccounting
    /\ WiresTyped /\ EntriesSound /\ QueriesSound /\ ControlSound

-----------------------------------------------------------------------------
(* Types *)

LEMMA ScannedSocket ==
    ASSUME MachineInv, pc = "scan", cursor \in Live
    PROVE  CurrentSocket \in Sockets
<1>1. fds[cursor] \in PollFd
  BY ScannedQuery DEF MachineInv, TypeOK
<1> QED
  BY <1>1 DEF CurrentSocket, PollFd

LEMMA SendTyped ==
    ASSUME WiresTyped, CurrentSocket \in Sockets, NEW q \in Queries, NEW n \in Int,
           wire[CurrentSocket].given + n \in Nat, Send(q, n)
    PROVE  /\ wire' \in [Sockets -> [given : Nat, taken : Nat, carried : SUBSET Queries]]
           /\ wire'[CurrentSocket] =
                [given |-> wire[CurrentSocket].given + n, taken |-> wire[CurrentSocket].taken,
                 carried |-> IF qs[q] = "WR_REQUEST" THEN wire[CurrentSocket].carried \cup {q}
                                                     ELSE wire[CurrentSocket].carried]
           /\ \A s \in Sockets \ {CurrentSocket} : wire'[s] = wire[s]
<1> DEFINE w == wire[CurrentSocket]
           w2 == [given |-> w.given + n, taken |-> w.taken,
                  carried |-> IF qs[q] = "WR_REQUEST" THEN w.carried \cup {q} ELSE w.carried]
<1>1. w \in [given : Nat, taken : Nat, carried : SUBSET Queries]
  BY DEF WiresTyped
<1>2. w2 \in [given : Nat, taken : Nat, carried : SUBSET Queries]
  BY <1>1
<1>3. wire' = [wire EXCEPT ![CurrentSocket] = w2]
  <2> DEFINE w1 == [w EXCEPT !.given = w.given + n]
             f1 == [wire EXCEPT ![CurrentSocket] = w1]
             more == IF qs[q] = "WR_REQUEST" THEN f1[CurrentSocket].carried \cup {q}
                                             ELSE f1[CurrentSocket].carried
  <2>1. wire' = [f1 EXCEPT ![CurrentSocket] = [f1[CurrentSocket] EXCEPT !.carried = more]]
    BY DEF Send
  <2>2. f1[CurrentSocket] = w1
    BY DEF WiresTyped
  <2>3. w1.carried = w.carried
    BY <1>1
  <2>4. [w1 EXCEPT !.carried = IF qs[q] = "WR_REQUEST" THEN w.carried \cup {q} ELSE w.carried] = w2
    <3>1. w1 = [given |-> w.given + n, taken |-> w.taken, carried |-> w.carried]
      BY <1>1
    <3> HIDE DEF w1
    <3> QED
      BY <3>1
  <2>5. wire' = [f1 EXCEPT ![CurrentSocket] = w2]
    BY <2>1, <2>2, <2>3, <2>4
  <2> QED
    BY <2>5 DEF WiresTyped
<1> QED
  BY <1>2, <1>3 DEF WiresTyped

LEMMA ReceiveTyped ==
    ASSUME WiresTyped, TypeOK, CurrentSocket \in Sockets, NEW q \in Queries, NEW n \in Int,
           Receive(q, n)
    PROVE  /\ wire' \in [Sockets -> [given : Nat, taken : Nat, carried : SUBSET Queries]]
           /\ wire'[CurrentSocket] =
                [given |-> wire[CurrentSocket].given, taken |-> wire[CurrentSocket].taken + n,
                 carried |-> wire[CurrentSocket].carried]
           /\ \A s \in Sockets \ {CurrentSocket} : wire'[s] = wire[s]
           /\ heard' \in [Queries -> SUBSET Queries]
           /\ heard'[q] = heard[q] \cup wire[CurrentSocket].carried
           /\ \A x \in Queries \ {q} : heard'[x] = heard[x]
<1> DEFINE w == wire[CurrentSocket]
           w2 == [given |-> w.given, taken |-> w.taken + n, carried |-> w.carried]
<1>1. w \in [given : Nat, taken : Nat, carried : SUBSET Queries]
  BY DEF WiresTyped
<1>2. n \in Nat
  BY DEF Receive, TypeOK
<1>3. w2 \in [given : Nat, taken : Nat, carried : SUBSET Queries]
  BY <1>1, <1>2
<1>4. wire' = [wire EXCEPT ![CurrentSocket] = w2]
  <2>1. wire' = [wire EXCEPT ![CurrentSocket] = [w EXCEPT !.taken = w.taken + n]]
    BY DEF Receive
  <2>2. [w EXCEPT !.taken = w.taken + n] = w2
    BY <1>1
  <2> QED
    BY <2>1, <2>2
<1>5. heard' = [heard EXCEPT ![q] = heard[q] \cup w.carried]
  BY DEF Receive
<1>6. heard[q] \cup w.carried \in SUBSET Queries
  BY <1>1 DEF WiresTyped
<1> QED
  BY <1>3, <1>4, <1>5, <1>6 DEF WiresTyped

-----------------------------------------------------------------------------
(* A handler moves the exchange of its own query *)

\* The other entries are as they were, in query, state, counts and connection.
LEMMA OthersStay ==
    ASSUME ExchangeInv, InBatch, NEW p \in Live, NEW q, q = fds2query[p],
           UNCHANGED <<size, fds2query>>,
           \A x \in Live : fds'[x].fd = fds[x].fd,
           \A y \in Queries \ {q} :
             /\ qs'[y] = qs[y] /\ bytesToRead'[y] = bytesToRead[y]
             /\ bytesWritten'[y] = bytesWritten[y] /\ announced'[y] = announced[y]
             /\ heard'[y] = heard[y],
           \A s \in Sockets \ {fds[p].fd} : wire'[s] = wire[s]
    PROVE  \A x \in Live \ {p} : Entry(x)' = Entry(x)
<1>1. IndexInv /\ TypeOK /\ SocketAccounting
  BY DEF ExchangeInv, MachineInv, TableFollowsStates
<1>2. SUFFICES ASSUME NEW x \in Live \ {p} PROVE Entry(x)' = Entry(x)
  OBVIOUS
<1>3. fds2query[x] \in Queries \ {q}
  BY <1>1, GivenAreQueries DEF IndexInv, IndicesInverse, Given
<1>4. fds[x].fd \in Sockets \ {fds[p].fd}
  <2>1. fds[x] \in PollFd
    BY <1>1, ParallelAssumption DEF TypeOK, Live, Slots
  <2> QED
    BY <1>1, <2>1 DEF SocketAccounting, PollFd
<1> QED
  BY <1>3, <1>4 DEF Entry

\* The exchanges of a batch stay sound if the handler keeps its own sound.
LEMMA HandlerSound ==
    ASSUME ExchangeInv, pc = "scan", NEW p \in Live, NEW q \in Given, q = fds2query[p],
           UNCHANGED <<size, fds2query, known, outcome>>, pc' = "scan",
           \A x \in Live : fds'[x].fd = fds[x].fd,
           \A y \in Queries \ {q} :
             /\ qs'[y] = qs[y] /\ bytesToRead'[y] = bytesToRead[y]
             /\ bytesWritten'[y] = bytesWritten[y] /\ announced'[y] = announced[y]
             /\ heard'[y] = heard[y] /\ responseStatuses'[y] = responseStatuses[y],
           \A s \in Sockets \ {fds[p].fd} : wire'[s] = wire[s],
           qs'[q] \in PolledStates, Sound(Entry(p)')
    PROVE  EntriesSound' /\ QueriesSound' /\ ControlSound'
<1>1. InBatch /\ InBatch' /\ Given' = Given /\ Live' = Live
  BY DEF InBatch, Given, Live
<1>2. Given \subseteq Queries
  BY GivenAreQueries DEF ExchangeInv, MachineInv
<1>3. EntriesSound'
  <2>1. \A x \in Live \ {p} : Entry(x)' = Entry(x)
    BY <1>1, OthersStay
  <2>2. \A x \in Live : Sound(Entry(x)')
    BY <1>1, <2>1 DEF ExchangeInv, EntriesSound
  <2> QED
    BY <1>1, <2>2 DEF EntriesSound, Sound
<1>4. QueriesSound'
  <2>1. \A y \in Given : \/ qs'[y] \in PolledStates
                         \/ qs'[y] = "RETRY_CONNECT" /\ heard'[y] = {}
                         \/ /\ qs'[y] = "FINISHED" /\ responseStatuses'[y] = "ok"
                            /\ heard'[y] = {y} /\ bytesToRead'[y] = 0
    BY <1>1, <1>2 DEF ExchangeInv, QueriesSound, Complete
  <2>2. \A y \in Queries \ Given : heard'[y] = {} /\ qs'[y] = "none"
    BY <1>2 DEF ExchangeInv, QueriesSound
  <2> QED
    BY <1>1, <2>1, <2>2 DEF QueriesSound, Complete, PolledStates, ReadStates, WriteStates
<1>5. ControlSound'
  BY <1>1 DEF ExchangeInv, ControlSound
<1> QED
  BY <1>3, <1>4, <1>5

\* Where a handler finds itself.
LEMMA AtCursor ==
    ASSUME ExchangeInv, pc = "scan", cursor \in Live
    PROVE  \E p \in Live, q \in Given :
             /\ p = cursor /\ q = CurrentQuery /\ q = fds2query[p] /\ q \in Queries
             /\ CurrentSocket = fds[p].fd /\ CurrentSocket \in Sockets
             /\ Sound(Entry(p))
<1>1. MachineInv /\ InBatch
  BY DEF ExchangeInv, InBatch
<1>2. /\ CurrentQuery \in Given /\ CurrentQuery \in Queries
      /\ CurrentQuery = fds2query[cursor] /\ CurrentSocket \in Sockets
  BY <1>1, ScannedQuery, ScannedSocket
<1>3. CurrentSocket = fds[cursor].fd
  BY DEF CurrentSocket
<1>4. Sound(Entry(cursor))
  BY <1>1 DEF ExchangeInv, EntriesSound
<1> QED
  BY <1>2, <1>3, <1>4

\* connect() is over: the greeting is waited for.
LEMMA ConnectedSound ==
    ASSUME ExchangeInv, Connected
    PROVE  WiresTyped' /\ EntriesSound' /\ QueriesSound' /\ ControlSound'
<1>1. /\ pc = "scan" /\ cursor \in Live /\ pc' = "scan" /\ UNCHANGED <<known, outcome>>
      /\ InBatch /\ MachineInv /\ TypeOK /\ IndexInv /\ WiresTyped
  BY DEF Connected, Scanning, Advance, Goto, Idle, InBatch, ExchangeInv, MachineInv,
     TableFollowsStates
<1>2. PICK p \in Live, q \in Given :
        /\ p = cursor /\ q = CurrentQuery /\ q = fds2query[p] /\ q \in Queries
        /\ CurrentSocket = fds[p].fd /\ CurrentSocket \in Sockets
        /\ Sound(Entry(p))
  BY <1>1, AtCursor
<1>3. UNCHANGED <<size, fds2query>> /\ \A x \in Live : fds'[x].fd = fds[x].fd
  <2>1. SetEvents(p, "in")
    BY <1>2 DEF Connected
  <2> QED
    BY <1>1, <2>1, SetEventsKeepsFds DEF IndexInv, SetEvents, Interests
<1> DEFINE w == wire[CurrentSocket]
<1>4. /\ w \in [given : Nat, taken : Nat, carried : SUBSET Queries]
      /\ bytesToRead[q] \in Nat /\ bytesWritten[q] \in Nat /\ announced[q] \in Nat
  BY <1>1, <1>2 DEF WiresTyped, TypeOK
<1>5. qs[q] = "WR_CONNECT"
  BY <1>2 DEF Connected
<1>6. /\ qs'[q] = "RD_VERSION" /\ bytesToRead'[q] = VersionLen
      /\ bytesWritten'[q] = bytesWritten[q] /\ announced'[q] = announced[q]
      /\ \A y \in Queries \ {q} :
           /\ qs'[y] = qs[y] /\ bytesToRead'[y] = bytesToRead[y]
           /\ bytesWritten'[y] = bytesWritten[y] /\ announced'[y] = announced[y]
           /\ responseStatuses'[y] = responseStatuses[y]
      /\ announced' \in [Queries -> Nat]
  BY <1>1, <1>2, LengthAssumption DEF Connected, TypeOK, WiresTyped, EnterState
<1>7. UNCHANGED <<wire, heard>> /\ wire'[CurrentSocket] = w
  BY DEF Connected
<1>8. WiresTyped'
  BY <1>1, <1>6, <1>7 DEF WiresTyped
<1>9. Sound(Entry(p)')
  <2>1. Entry(p)' = [query |-> q, state |-> qs'[q], wanted |-> bytesToRead'[q],
                     written |-> bytesWritten'[q], length |-> announced'[q],
                     heard |-> heard'[q], wire |-> wire'[CurrentSocket]]
    BY <1>2, <1>3 DEF Entry
  <2>2. Entry(p) = [query |-> q, state |-> qs[q], wanted |-> bytesToRead[q],
                    written |-> bytesWritten[q], length |-> announced[q],
                    heard |-> heard[q], wire |-> w]
    BY <1>2 DEF Entry
  <2> HIDE DEF w
  <2> QED
    BY <1>2, <1>4, <1>5, <1>6, <1>7, <2>1, <2>2, LengthAssumption DEF Sound, ReadStates
<1> QED
  BY <1>1, <1>2, <1>3, <1>5, <1>6, <1>7, <1>8, <1>9, HandlerSound
     DEF PolledStates, ReadStates, WriteStates

\* Part of the version or of the request is written.
LEMMA WritePartSound ==
    ASSUME ExchangeInv, WritePart
    PROVE  WiresTyped' /\ EntriesSound' /\ QueriesSound' /\ ControlSound'
<1>1. /\ pc = "scan" /\ cursor \in Live /\ pc' = "scan" /\ UNCHANGED <<known, outcome>>
      /\ InBatch /\ MachineInv /\ TypeOK /\ IndexInv /\ WiresTyped
  BY DEF WritePart, Scanning, Advance, Goto, Idle, InBatch, ExchangeInv, MachineInv,
     TableFollowsStates
<1>2. PICK p \in Live, q \in Given :
        /\ p = cursor /\ q = CurrentQuery /\ q = fds2query[p] /\ q \in Queries
        /\ CurrentSocket = fds[p].fd /\ CurrentSocket \in Sockets
        /\ Sound(Entry(p))
  BY <1>1, AtCursor
<1>3. UNCHANGED <<size, fds2query>> /\ \A x \in Live : fds'[x].fd = fds[x].fd
  BY DEF WritePart, table
<1> DEFINE w == wire[CurrentSocket]
<1>4. /\ w \in [given : Nat, taken : Nat, carried : SUBSET Queries]
      /\ bytesToRead[q] \in Nat /\ bytesWritten[q] \in Nat /\ announced[q] \in Nat
  BY <1>1, <1>2 DEF WiresTyped, TypeOK
<1>5. qs[q] \in {"WR_VERSION", "WR_REQUEST"}
  BY <1>2 DEF WritePart
<1>6. PICK n \in 1 .. Outgoing(q) - bytesWritten[q] - 1 :
        Send(q, n) /\ bytesWritten' = [bytesWritten EXCEPT ![q] = @ + n]
  BY <1>2 DEF WritePart
<1>7. /\ qs'[q] = qs[q] /\ bytesWritten'[q] = bytesWritten[q] + n
      /\ bytesToRead'[q] = bytesToRead[q] /\ announced'[q] = announced[q]
      /\ \A y \in Queries \ {q} :
           /\ qs'[y] = qs[y] /\ bytesToRead'[y] = bytesToRead[y]
           /\ bytesWritten'[y] = bytesWritten[y] /\ announced'[y] = announced[y]
           /\ responseStatuses'[y] = responseStatuses[y]
      /\ announced' \in [Queries -> Nat]
  BY <1>1, <1>2, <1>6, LengthAssumption DEF WritePart, TypeOK, WiresTyped, Outgoing
<1>8. n \in Nat /\ w.given + n \in Nat /\ Send(q, n) /\ UNCHANGED heard
  BY <1>2, <1>4, <1>6, LengthAssumption DEF WritePart, Outgoing
<1>9. /\ wire' \in [Sockets -> [given : Nat, taken : Nat, carried : SUBSET Queries]]
      /\ wire'[CurrentSocket] =
           [given |-> w.given + (n), taken |-> w.taken,
            carried |-> IF qs[q] = "WR_REQUEST" THEN w.carried \cup {q} ELSE w.carried]
      /\ \A s \in Sockets \ {CurrentSocket} : wire'[s] = wire[s]
  BY <1>1, <1>2, <1>8, SendTyped
<1>10. WiresTyped'
  BY <1>1, <1>7, <1>9, <1>8 DEF WiresTyped
<1>11. Sound(Entry(p)')
  <2>1. Entry(p)' = [query |-> q, state |-> qs'[q], wanted |-> bytesToRead'[q],
                     written |-> bytesWritten'[q], length |-> announced'[q],
                     heard |-> heard'[q], wire |-> wire'[CurrentSocket]]
    BY <1>2, <1>3 DEF Entry
  <2>2. Entry(p) = [query |-> q, state |-> qs[q], wanted |-> bytesToRead[q],
                    written |-> bytesWritten[q], length |-> announced[q],
                    heard |-> heard[q], wire |-> w]
    BY <1>2 DEF Entry
  <2> HIDE DEF w
  <2> QED
    BY <1>2, <1>4, <1>5, <1>6, <1>7, <1>9, <1>8, <2>1, <2>2, LengthAssumption
       DEF Sound, ReadStates
<1> QED
  BY <1>1, <1>2, <1>3, <1>5, <1>7, <1>9, <1>8, <1>10, <1>11, HandlerSound
     DEF PolledStates, ReadStates, WriteStates

\* The version is written.
LEMMA VersionWrittenSound ==
    ASSUME ExchangeInv, VersionWritten
    PROVE  WiresTyped' /\ EntriesSound' /\ QueriesSound' /\ ControlSound'
<1>1. /\ pc = "scan" /\ cursor \in Live /\ pc' = "scan" /\ UNCHANGED <<known, outcome>>
      /\ InBatch /\ MachineInv /\ TypeOK /\ IndexInv /\ WiresTyped
  BY DEF VersionWritten, Scanning, Advance, Goto, Idle, InBatch, ExchangeInv, MachineInv,
     TableFollowsStates
<1>2. PICK p \in Live, q \in Given :
        /\ p = cursor /\ q = CurrentQuery /\ q = fds2query[p] /\ q \in Queries
        /\ CurrentSocket = fds[p].fd /\ CurrentSocket \in Sockets
        /\ Sound(Entry(p))
  BY <1>1, AtCursor
<1>3. UNCHANGED <<size, fds2query>> /\ \A x \in Live : fds'[x].fd = fds[x].fd
  <2>1. SetEvents(p, "out")
    BY <1>2 DEF VersionWritten
  <2> QED
    BY <1>1, <2>1, SetEventsKeepsFds DEF IndexInv, SetEvents, Interests
<1> DEFINE w == wire[CurrentSocket]
<1>4. /\ w \in [given : Nat, taken : Nat, carried : SUBSET Queries]
      /\ bytesToRead[q] \in Nat /\ bytesWritten[q] \in Nat /\ announced[q] \in Nat
  BY <1>1, <1>2 DEF WiresTyped, TypeOK
<1>5. qs[q] = "WR_VERSION"
  BY <1>2 DEF VersionWritten
<1>6. /\ qs'[q] = "WR_REQUEST" /\ bytesWritten'[q] = 0 /\ bytesToRead'[q] = bytesToRead[q]
      /\ announced'[q] = announced[q]
      /\ \A y \in Queries \ {q} :
           /\ qs'[y] = qs[y] /\ bytesToRead'[y] = bytesToRead[y]
           /\ bytesWritten'[y] = bytesWritten[y] /\ announced'[y] = announced[y]
           /\ responseStatuses'[y] = responseStatuses[y]
      /\ announced' \in [Queries -> Nat]
  BY <1>1, <1>2, LengthAssumption DEF VersionWritten, TypeOK, WiresTyped, EnterState, ResetWritten
<1>7. /\ HelloLen - bytesWritten[q] \in Int /\ w.given + (HelloLen - bytesWritten[q]) \in Nat
      /\ Send(q, HelloLen - bytesWritten[q]) /\ UNCHANGED heard
  <2>1. w.given = bytesWritten[q]
    BY <1>2, <1>5 DEF Sound, Entry
  <2>2. Send(q, HelloLen - bytesWritten[q]) /\ UNCHANGED heard
    BY <1>2 DEF VersionWritten
  <2> QED
    BY <1>4, <2>1, <2>2, LengthAssumption
<1>8. /\ wire' \in [Sockets -> [given : Nat, taken : Nat, carried : SUBSET Queries]]
      /\ wire'[CurrentSocket] =
           [given |-> w.given + (HelloLen - bytesWritten[q]), taken |-> w.taken,
            carried |-> IF qs[q] = "WR_REQUEST" THEN w.carried \cup {q} ELSE w.carried]
      /\ \A s \in Sockets \ {CurrentSocket} : wire'[s] = wire[s]
  BY <1>1, <1>2, <1>7, SendTyped
<1>9. WiresTyped'
  BY <1>1, <1>6, <1>8, <1>7 DEF WiresTyped
<1>10. Sound(Entry(p)')
  <2>1. Entry(p)' = [query |-> q, state |-> qs'[q], wanted |-> bytesToRead'[q],
                     written |-> bytesWritten'[q], length |-> announced'[q],
                     heard |-> heard'[q], wire |-> wire'[CurrentSocket]]
    BY <1>2, <1>3 DEF Entry
  <2>2. Entry(p) = [query |-> q, state |-> qs[q], wanted |-> bytesToRead[q],
                    written |-> bytesWritten[q], length |-> announced[q],
                    heard |-> heard[q], wire |-> w]
    BY <1>2 DEF Entry
  <2> HIDE DEF w
  <2> QED
    BY <1>2, <1>4, <1>5, <1>6, <1>8, <1>7, <2>1, <2>2, LengthAssumption DEF Sound, ReadStates
<1> QED
  BY <1>1, <1>2, <1>3, <1>5, <1>6, <1>8, <1>7, <1>9, <1>10, HandlerSound
     DEF PolledStates, ReadStates, WriteStates

\* The request is written.
LEMMA RequestWrittenSound ==
    ASSUME ExchangeInv, RequestWritten
    PROVE  WiresTyped' /\ EntriesSound' /\ QueriesSound' /\ ControlSound'
<1>1. /\ pc = "scan" /\ cursor \in Live /\ pc' = "scan" /\ UNCHANGED <<known, outcome>>
      /\ InBatch /\ MachineInv /\ TypeOK /\ IndexInv /\ WiresTyped
  BY DEF RequestWritten, Scanning, Advance, Goto, Idle, InBatch, ExchangeInv, MachineInv,
     TableFollowsStates
<1>2. PICK p \in Live, q \in Given :
        /\ p = cursor /\ q = CurrentQuery /\ q = fds2query[p] /\ q \in Queries
        /\ CurrentSocket = fds[p].fd /\ CurrentSocket \in Sockets
        /\ Sound(Entry(p))
  BY <1>1, AtCursor
<1>3. UNCHANGED <<size, fds2query>> /\ \A x \in Live : fds'[x].fd = fds[x].fd
  <2>1. SetEvents(p, "in")
    BY <1>2 DEF RequestWritten
  <2> QED
    BY <1>1, <2>1, SetEventsKeepsFds DEF IndexInv, SetEvents, Interests
<1> DEFINE w == wire[CurrentSocket]
<1>4. /\ w \in [given : Nat, taken : Nat, carried : SUBSET Queries]
      /\ bytesToRead[q] \in Nat /\ bytesWritten[q] \in Nat /\ announced[q] \in Nat
  BY <1>1, <1>2 DEF WiresTyped, TypeOK
<1>5. qs[q] = "WR_REQUEST"
  BY <1>2 DEF RequestWritten
<1>6. /\ qs'[q] = "RD_RESPONSE_HEADER" /\ bytesToRead'[q] = HeaderLen
      /\ announced'[q] = announced[q]
      /\ \A y \in Queries \ {q} :
           /\ qs'[y] = qs[y] /\ bytesToRead'[y] = bytesToRead[y]
           /\ bytesWritten'[y] = bytesWritten[y] /\ announced'[y] = announced[y]
           /\ responseStatuses'[y] = responseStatuses[y]
      /\ announced' \in [Queries -> Nat]
  BY <1>1, <1>2, LengthAssumption DEF RequestWritten, TypeOK, WiresTyped, EnterState
<1>7. /\ RequestLen - bytesWritten[q] \in Int /\ w.given + (RequestLen - bytesWritten[q]) \in Nat
      /\ Send(q, RequestLen - bytesWritten[q]) /\ UNCHANGED heard
  <2>1. w.given = HelloLen + bytesWritten[q]
    BY <1>2, <1>5 DEF Sound, Entry
  <2>2. Send(q, RequestLen - bytesWritten[q]) /\ UNCHANGED heard
    BY <1>2 DEF RequestWritten
  <2> QED
    BY <1>4, <2>1, <2>2, LengthAssumption
<1>8. /\ wire' \in [Sockets -> [given : Nat, taken : Nat, carried : SUBSET Queries]]
      /\ wire'[CurrentSocket] =
           [given |-> w.given + (RequestLen - bytesWritten[q]), taken |-> w.taken,
            carried |-> IF qs[q] = "WR_REQUEST" THEN w.carried \cup {q} ELSE w.carried]
      /\ \A s \in Sockets \ {CurrentSocket} : wire'[s] = wire[s]
  BY <1>1, <1>2, <1>7, SendTyped
<1>9. WiresTyped'
  BY <1>1, <1>6, <1>8, <1>7 DEF WiresTyped
<1>10. Sound(Entry(p)')
  <2>1. Entry(p)' = [query |-> q, state |-> qs'[q], wanted |-> bytesToRead'[q],
                     written |-> bytesWritten'[q], length |-> announced'[q],
                     heard |-> heard'[q], wire |-> wire'[CurrentSocket]]
    BY <1>2, <1>3 DEF Entry
  <2>2. Entry(p) = [query |-> q, state |-> qs[q], wanted |-> bytesToRead[q],
                    written |-> bytesWritten[q], length |-> announced[q],
                    heard |-> heard[q], wire |-> w]
    BY <1>2 DEF Entry
  <2> HIDE DEF w
  <2> QED
    BY <1>2, <1>4, <1>5, <1>6, <1>8, <1>7, <2>1, <2>2, LengthAssumption DEF Sound, ReadStates
<1> QED
  BY <1>1, <1>2, <1>3, <1>5, <1>6, <1>8, <1>7, <1>9, <1>10, HandlerSound
     DEF PolledStates, ReadStates, WriteStates

\* Part of the greeting, the header or the body is read.
LEMMA ReadPartSound ==
    ASSUME ExchangeInv, ReadPart
    PROVE  WiresTyped' /\ EntriesSound' /\ QueriesSound' /\ ControlSound'
<1>1. /\ pc = "scan" /\ cursor \in Live /\ pc' = "scan" /\ UNCHANGED <<known, outcome>>
      /\ InBatch /\ MachineInv /\ TypeOK /\ IndexInv /\ WiresTyped
  BY DEF ReadPart, Scanning, Advance, Goto, Idle, InBatch, ExchangeInv, MachineInv,
     TableFollowsStates
<1>2. PICK p \in Live, q \in Given :
        /\ p = cursor /\ q = CurrentQuery /\ q = fds2query[p] /\ q \in Queries
        /\ CurrentSocket = fds[p].fd /\ CurrentSocket \in Sockets
        /\ Sound(Entry(p))
  BY <1>1, AtCursor
<1>3. UNCHANGED <<size, fds2query>> /\ \A x \in Live : fds'[x].fd = fds[x].fd
  BY DEF ReadPart, table
<1> DEFINE w == wire[CurrentSocket]
<1>4. /\ w \in [given : Nat, taken : Nat, carried : SUBSET Queries]
      /\ bytesToRead[q] \in Nat /\ bytesWritten[q] \in Nat /\ announced[q] \in Nat
  BY <1>1, <1>2 DEF WiresTyped, TypeOK
<1>5. qs[q] \in ReadStates
  BY <1>2 DEF ReadPart
<1>6. PICK n \in 1 .. bytesToRead[q] - 1 :
        Receive(q, n) /\ bytesToRead' = [bytesToRead EXCEPT ![q] = @ - n]
  BY <1>2 DEF ReadPart
<1>7. /\ qs'[q] = qs[q] /\ bytesToRead'[q] = bytesToRead[q] - n
      /\ bytesWritten'[q] = bytesWritten[q] /\ announced'[q] = announced[q]
      /\ \A y \in Queries \ {q} :
           /\ qs'[y] = qs[y] /\ bytesToRead'[y] = bytesToRead[y]
           /\ bytesWritten'[y] = bytesWritten[y] /\ announced'[y] = announced[y]
           /\ responseStatuses'[y] = responseStatuses[y]
      /\ announced' \in [Queries -> Nat]
  BY <1>1, <1>2, <1>6, LengthAssumption DEF ReadPart, TypeOK, WiresTyped
<1>8. Receive(q, n) /\ n \in Int
  BY <1>2, <1>4, <1>6 DEF ReadPart
<1>9. /\ wire' \in [Sockets -> [given : Nat, taken : Nat, carried : SUBSET Queries]]
      /\ wire'[CurrentSocket] =
           [given |-> w.given, taken |-> w.taken + n, carried |-> w.carried]
      /\ \A s \in Sockets \ {CurrentSocket} : wire'[s] = wire[s]
      /\ heard' \in [Queries -> SUBSET Queries]
      /\ heard'[q] = heard[q] \cup w.carried
      /\ \A y \in Queries \ {q} : heard'[y] = heard[y]
  BY <1>1, <1>2, <1>8, ReceiveTyped
<1>10. WiresTyped'
  BY <1>1, <1>7, <1>9 DEF WiresTyped
<1>11. Sound(Entry(p)')
  <2>1. Entry(p)' = [query |-> q, state |-> qs'[q], wanted |-> bytesToRead'[q],
                     written |-> bytesWritten'[q], length |-> announced'[q],
                     heard |-> heard'[q], wire |-> wire'[CurrentSocket]]
    BY <1>2, <1>3 DEF Entry
  <2>2. Entry(p) = [query |-> q, state |-> qs[q], wanted |-> bytesToRead[q],
                    written |-> bytesWritten[q], length |-> announced[q],
                    heard |-> heard[q], wire |-> w]
    BY <1>2 DEF Entry
  <2> HIDE DEF w
  <2>3. CASE qs[q] = "RD_VERSION"
    BY <1>2, <1>4, <1>5, <1>6, <1>7, <1>9, <2>1, <2>2, <2>3, LengthAssumption DEF Sound
  <2>4. CASE qs[q] = "RD_RESPONSE_HEADER"
    BY <1>2, <1>4, <1>5, <1>6, <1>7, <1>9, <2>1, <2>2, <2>4, LengthAssumption DEF Sound
  <2>5. CASE qs[q] = "RD_RESPONSE"
    BY <1>2, <1>4, <1>5, <1>6, <1>7, <1>9, <2>1, <2>2, <2>5, LengthAssumption DEF Sound
  <2> QED
    BY <1>5, <2>3, <2>4, <2>5 DEF ReadStates
<1> QED
  BY <1>1, <1>2, <1>3, <1>5, <1>7, <1>9, <1>10, <1>11, HandlerSound
     DEF PolledStates, ReadStates, WriteStates

\* The greeting is read.
LEMMA VersionReadSound ==
    ASSUME ExchangeInv, VersionRead
    PROVE  WiresTyped' /\ EntriesSound' /\ QueriesSound' /\ ControlSound'
<1>1. /\ pc = "scan" /\ cursor \in Live /\ pc' = "scan" /\ UNCHANGED <<known, outcome>>
      /\ InBatch /\ MachineInv /\ TypeOK /\ IndexInv /\ WiresTyped
  BY DEF VersionRead, Scanning, Advance, Goto, Idle, InBatch, ExchangeInv, MachineInv,
     TableFollowsStates
<1>2. PICK p \in Live, q \in Given :
        /\ p = cursor /\ q = CurrentQuery /\ q = fds2query[p] /\ q \in Queries
        /\ CurrentSocket = fds[p].fd /\ CurrentSocket \in Sockets
        /\ Sound(Entry(p))
  BY <1>1, AtCursor
<1>3. UNCHANGED <<size, fds2query>> /\ \A x \in Live : fds'[x].fd = fds[x].fd
  <2>1. SetEvents(p, "out")
    BY <1>2 DEF VersionRead
  <2> QED
    BY <1>1, <2>1, SetEventsKeepsFds DEF IndexInv, SetEvents, Interests
<1> DEFINE w == wire[CurrentSocket]
<1>4. /\ w \in [given : Nat, taken : Nat, carried : SUBSET Queries]
      /\ bytesToRead[q] \in Nat /\ bytesWritten[q] \in Nat /\ announced[q] \in Nat
  BY <1>1, <1>2 DEF WiresTyped, TypeOK
<1>5. qs[q] = "RD_VERSION"
  BY <1>2 DEF VersionRead
<1>6. /\ qs'[q] = "WR_VERSION" /\ bytesWritten'[q] = 0 /\ announced'[q] = announced[q]
      /\ \A y \in Queries \ {q} :
           /\ qs'[y] = qs[y] /\ bytesToRead'[y] = bytesToRead[y]
           /\ bytesWritten'[y] = bytesWritten[y] /\ announced'[y] = announced[y]
           /\ responseStatuses'[y] = responseStatuses[y]
      /\ announced' \in [Queries -> Nat]
  BY <1>1, <1>2, LengthAssumption DEF VersionRead, TypeOK, WiresTyped, EnterState, ResetWritten
<1>7. Receive(q, bytesToRead[q]) /\ bytesToRead[q] \in Int
  BY <1>2, <1>4 DEF VersionRead
<1>8. /\ wire' \in [Sockets -> [given : Nat, taken : Nat, carried : SUBSET Queries]]
      /\ wire'[CurrentSocket] =
           [given |-> w.given, taken |-> w.taken + bytesToRead[q], carried |-> w.carried]
      /\ \A s \in Sockets \ {CurrentSocket} : wire'[s] = wire[s]
      /\ heard' \in [Queries -> SUBSET Queries]
      /\ heard'[q] = heard[q] \cup w.carried
      /\ \A y \in Queries \ {q} : heard'[y] = heard[y]
  BY <1>1, <1>2, <1>7, ReceiveTyped
<1>9. WiresTyped'
  BY <1>1, <1>6, <1>8 DEF WiresTyped
<1>10. Sound(Entry(p)')
  <2>1. Entry(p)' = [query |-> q, state |-> qs'[q], wanted |-> bytesToRead'[q],
                     written |-> bytesWritten'[q], length |-> announced'[q],
                     heard |-> heard'[q], wire |-> wire'[CurrentSocket]]
    BY <1>2, <1>3 DEF Entry
  <2>2. Entry(p) = [query |-> q, state |-> qs[q], wanted |-> bytesToRead[q],
                    written |-> bytesWritten[q], length |-> announced[q],
                    heard |-> heard[q], wire |-> w]
    BY <1>2 DEF Entry
  <2> HIDE DEF w
  <2> QED
    BY <1>2, <1>4, <1>5, <1>6, <1>8, <2>1, <2>2, LengthAssumption DEF Sound, ReadStates
<1> QED
  BY <1>1, <1>2, <1>3, <1>5, <1>6, <1>8, <1>9, <1>10, HandlerSound
     DEF PolledStates, ReadStates, WriteStates

\* The header is read.
LEMMA HeaderReadSound ==
    ASSUME ExchangeInv, HeaderRead
    PROVE  WiresTyped' /\ EntriesSound' /\ QueriesSound' /\ ControlSound'
<1>1. /\ pc = "scan" /\ cursor \in Live /\ pc' = "scan" /\ UNCHANGED <<known, outcome>>
      /\ InBatch /\ MachineInv /\ TypeOK /\ IndexInv /\ WiresTyped
  BY DEF HeaderRead, Scanning, Advance, Goto, Idle, InBatch, ExchangeInv, MachineInv,
     TableFollowsStates
<1>2. PICK p \in Live, q \in Given :
        /\ p = cursor /\ q = CurrentQuery /\ q = fds2query[p] /\ q \in Queries
        /\ CurrentSocket = fds[p].fd /\ CurrentSocket \in Sockets
        /\ Sound(Entry(p))
  BY <1>1, AtCursor
<1>3. UNCHANGED <<size, fds2query>> /\ \A x \in Live : fds'[x].fd = fds[x].fd
  <2>1. SetEvents(p, "in")
    BY <1>2 DEF HeaderRead
  <2> QED
    BY <1>1, <2>1, SetEventsKeepsFds DEF IndexInv, SetEvents, Interests
<1> DEFINE w == wire[CurrentSocket]
<1>4. /\ w \in [given : Nat, taken : Nat, carried : SUBSET Queries]
      /\ bytesToRead[q] \in Nat /\ bytesWritten[q] \in Nat /\ announced[q] \in Nat
  BY <1>1, <1>2 DEF WiresTyped, TypeOK
<1>5. qs[q] = "RD_RESPONSE_HEADER"
  BY <1>2 DEF HeaderRead
<1>6. /\ qs'[q] = "RD_RESPONSE" /\ bytesToRead'[q] = announced'[q] /\ announced'[q] \in Nat
      /\ \A y \in Queries \ {q} :
           /\ qs'[y] = qs[y] /\ bytesToRead'[y] = bytesToRead[y]
           /\ bytesWritten'[y] = bytesWritten[y] /\ announced'[y] = announced[y]
           /\ responseStatuses'[y] = responseStatuses[y]
      /\ announced' \in [Queries -> Nat]
  BY <1>1, <1>2, LengthAssumption DEF HeaderRead, TypeOK, WiresTyped, EnterState
<1>7. Receive(q, bytesToRead[q]) /\ bytesToRead[q] \in Int
  BY <1>2, <1>4 DEF HeaderRead
<1>8. /\ wire' \in [Sockets -> [given : Nat, taken : Nat, carried : SUBSET Queries]]
      /\ wire'[CurrentSocket] =
           [given |-> w.given, taken |-> w.taken + bytesToRead[q], carried |-> w.carried]
      /\ \A s \in Sockets \ {CurrentSocket} : wire'[s] = wire[s]
      /\ heard' \in [Queries -> SUBSET Queries]
      /\ heard'[q] = heard[q] \cup w.carried
      /\ \A y \in Queries \ {q} : heard'[y] = heard[y]
  BY <1>1, <1>2, <1>7, ReceiveTyped
<1>9. WiresTyped'
  BY <1>1, <1>6, <1>8 DEF WiresTyped
<1>10. Sound(Entry(p)')
  <2>1. Entry(p)' = [query |-> q, state |-> qs'[q], wanted |-> bytesToRead'[q],
                     written |-> bytesWritten'[q], length |-> announced'[q],
                     heard |-> heard'[q], wire |-> wire'[CurrentSocket]]
    BY <1>2, <1>3 DEF Entry
  <2>2. Entry(p) = [query |-> q, state |-> qs[q], wanted |-> bytesToRead[q],
                    written |-> bytesWritten[q], length |-> announced[q],
                    heard |-> heard[q], wire |-> w]
    BY <1>2 DEF Entry
  <2> HIDE DEF w
  <2> QED
    BY <1>2, <1>4, <1>5, <1>6, <1>8, <2>1, <2>2, LengthAssumption DEF Sound, ReadStates
<1> QED
  BY <1>1, <1>2, <1>3, <1>5, <1>6, <1>8, <1>9, <1>10, HandlerSound
     DEF PolledStates, ReadStates, WriteStates

-----------------------------------------------------------------------------
(* Entries that go, come and stay *)

\* The entries a removal leaves are those it did not remove, one by one.
LEMMA RemovalSound ==
    ASSUME ExchangeInv, pc \in {"scan", "expire"}, pc' = pc, NEW p \in Live, NEW q \in Given,
           q = fds2query[p], RemoveFd(p), UNCHANGED <<known, outcome>>,
           \A y \in Queries \ {q} :
             /\ qs'[y] = qs[y] /\ bytesToRead'[y] = bytesToRead[y]
             /\ bytesWritten'[y] = bytesWritten[y] /\ announced'[y] = announced[y]
             /\ heard'[y] = heard[y] /\ responseStatuses'[y] = responseStatuses[y],
           \A s \in Sockets \ {fds[p].fd} : wire'[s] = wire[s],
           \/ qs'[q] = "RETRY_CONNECT" /\ heard'[q] = {}
           \/ /\ qs'[q] = "FINISHED" /\ responseStatuses'[q] = "ok"
              /\ heard'[q] = {q} /\ bytesToRead'[q] = 0
    PROVE  EntriesSound' /\ QueriesSound' /\ ControlSound'
<1>1. /\ InBatch /\ InBatch' /\ Given' = Given /\ Given \subseteq Queries
      /\ IndexInv /\ TypeOK /\ SocketAccounting
  BY GivenAreQueries DEF InBatch, Given, ExchangeInv, MachineInv, TableFollowsStates
<1>2. ASSUME NEW i \in Live'
      PROVE  Sound(Entry(i)')
  <2>1. PICK j \in Live \ {p} : fds'[i] = fds[j] /\ fds2query'[i] = fds2query[j]
    BY <1>1, RemoveMoves
  <2>2. fds2query[j] \in Queries \ {q}
    BY <1>1 DEF IndexInv, IndicesInverse, Given
  <2>3. fds[j].fd \in Sockets \ {fds[p].fd}
    <3>1. fds[j] \in PollFd
      BY <1>1, ParallelAssumption DEF TypeOK, Live, Slots
    <3> QED
      BY <1>1, <3>1 DEF SocketAccounting, PollFd
  <2>4. Entry(i)' = Entry(j)
    BY <2>1, <2>2, <2>3 DEF Entry
  <2> QED
    BY <1>1, <2>4 DEF ExchangeInv, EntriesSound
<1>3. EntriesSound'
  BY <1>2 DEF EntriesSound, Sound
<1>4. QueriesSound'
  <2>1. \A y \in Given : \/ qs'[y] \in PolledStates
                         \/ qs'[y] = "RETRY_CONNECT" /\ heard'[y] = {}
                         \/ /\ qs'[y] = "FINISHED" /\ responseStatuses'[y] = "ok"
                            /\ heard'[y] = {y} /\ bytesToRead'[y] = 0
    BY <1>1 DEF ExchangeInv, QueriesSound, Complete
  <2>2. \A y \in Queries \ Given : heard'[y] = {} /\ qs'[y] = "none"
    BY <1>1 DEF ExchangeInv, QueriesSound
  <2> QED
    BY <1>1, <2>1, <2>2 DEF QueriesSound, Complete, PolledStates, ReadStates, WriteStates
<1>5. ControlSound'
  BY <1>1 DEF ExchangeInv, ControlSound
<1> QED
  BY <1>3, <1>4, <1>5

\* A query that has heard nothing gets a connection nothing has gone over.
LEMMA ComesSound ==
    ASSUME ExchangeInv, InBatch, NEW q \in Queries, heard[q] = {}, q \in Slots, q \notin Registered,
           NEW s \in Sockets \ open, AddEntry(s, "out", q),
           wire' = [wire EXCEPT ![s] = Fresh], EnterState(q, "WR_CONNECT"),
           UNCHANGED <<progress, heard, announced>>, Given' = Given \cup {q}
    PROVE  WiresTyped' /\ EntriesSound' /\ QueriesSound'
<1>1. /\ IndexInv /\ TypeOK /\ SocketAccounting /\ WiresTyped /\ Given \subseteq Queries
  BY GivenAreQueries DEF ExchangeInv, MachineInv, TableFollowsStates
<1>2. /\ Live' = Live \cup {size} /\ fds'[size].fd = s /\ fds2query'[size] = q
      /\ \A x \in Live : fds'[x] = fds[x] /\ fds2query'[x] = fds2query[x]
  BY <1>1, AddMakes
<1>3. /\ qs'[q] = "WR_CONNECT" /\ \A y \in Queries \ {q} : qs'[y] = qs[y]
  BY <1>1 DEF EnterState, TypeOK
<1>4. /\ wire'[s] = Fresh /\ \A x \in Sockets \ {s} : wire'[x] = wire[x]
  BY <1>1 DEF WiresTyped
<1>5. WiresTyped'
  <2>1. Fresh \in [given : Nat, taken : Nat, carried : SUBSET Queries]
    BY DEF Fresh
  <2> QED
    BY <1>1, <2>1 DEF WiresTyped
<1>6. \A x \in Live : Entry(x)' = Entry(x)
  <2>1. SUFFICES ASSUME NEW x \in Live PROVE Entry(x)' = Entry(x)
    OBVIOUS
  <2>2. fds2query[x] \in Queries \ {q}
    BY <1>1 DEF IndexInv, IndicesInverse, Given, Registered
  <2>3. fds[x].fd \in Sockets \ {s}
    <3>1. fds[x] \in PollFd
      BY <1>1, ParallelAssumption DEF TypeOK, Live, Slots
    <3> QED
      BY <1>1, <3>1 DEF SocketAccounting, PollFd
  <2> QED
    BY <1>2, <1>3, <1>4, <2>2, <2>3 DEF Entry, progress
<1>7. ASSUME NEW k \in Live', k = size PROVE Sound(Entry(k)')
  <2>1. Entry(k)'.state = "WR_CONNECT" /\ Entry(k)'.wire = Fresh /\ Entry(k)'.heard = {}
    BY <1>2, <1>3, <1>4, <1>7 DEF Entry
  <2> QED
    BY <2>1 DEF Sound, Fresh
<1>8. EntriesSound'
  <2>1. \A x \in Live : Sound(Entry(x)')
    BY <1>6 DEF ExchangeInv, EntriesSound
  <2>2. \A x \in Live' : Sound(Entry(x)')
    BY <1>2, <1>7, <2>1
  <2> QED
    BY <2>2 DEF EntriesSound, Sound
<1>9. QueriesSound'
  <2>1. \A y \in Given \cup {q} : \/ qs'[y] \in PolledStates
                                  \/ qs'[y] = "RETRY_CONNECT" /\ heard'[y] = {}
                                  \/ /\ qs'[y] = "FINISHED" /\ responseStatuses'[y] = "ok"
                                     /\ heard'[y] = {y} /\ bytesToRead'[y] = 0
    BY <1>1, <1>3 DEF ExchangeInv, QueriesSound, Complete, progress, PolledStates, WriteStates
  <2>2. \A y \in Queries \ Given' : heard'[y] = {} /\ qs'[y] = "none"
    BY <1>3 DEF ExchangeInv, QueriesSound
  <2> QED
    BY <2>1, <2>2 DEF QueriesSound, Complete, PolledStates, ReadStates, WriteStates
<1> QED
  BY <1>5, <1>8, <1>9

\* The batch ends with an exception.
LEMMA EndSound ==
    ASSUME ExchangeInv, InBatch, pc' = "unwind", outcome' \in Errors, Given \subseteq Given',
           \A y \in Queries \ Given' : heard'[y] = heard[y] /\ qs'[y] = qs[y]
    PROVE  EntriesSound' /\ QueriesSound' /\ ControlSound'
<1>1. ~InBatch' /\ outcome' # "running" /\ outcome' # "ok"
  BY DEF InBatch, Errors
<1> QED
  BY <1>1 DEF ExchangeInv, EntriesSound, QueriesSound, ControlSound

\* Nothing happens to the queries and their connections.
LEMMA QuietSound ==
    ASSUME ExchangeInv, UNCHANGED <<qs, progress, wire, heard, announced, known, outcome,
                                    size, fds2query>>,
           \A x \in Live : fds'[x].fd = fds[x].fd,
           InBatch' <=> InBatch, pc' # "add" \/ pc = "add",
           pc' \in {"poll", "scan", "expire"} => known > 0
    PROVE  WiresTyped' /\ EntriesSound' /\ QueriesSound' /\ ControlSound'
<1>1. Live' = Live /\ Given' = Given
  BY DEF Live, Given
<1>2. \A x \in Live : Entry(x)' = Entry(x)
  BY DEF Entry, progress
<1>3. EntriesSound'
  <2>1. InBatch => \A x \in Live : Sound(Entry(x)')
    BY <1>2 DEF ExchangeInv, EntriesSound
  <2> QED
    BY <1>1, <2>1 DEF EntriesSound, Sound
<1>4. WiresTyped' /\ QueriesSound' /\ ControlSound'
  BY <1>1 DEF ExchangeInv, WiresTyped, QueriesSound, ControlSound, Complete, progress
<1> QED
  BY <1>3, <1>4

\* The machine is taken down after the batch.
LEMMA AfterSound ==
    ASSUME ExchangeInv, ~InBatch, ~InBatch',
           UNCHANGED <<qs, progress, heard, known, outcome, wire, announced>>,
           pc' \notin {"poll", "scan", "expire"}, pc' # "add"
    PROVE  WiresTyped' /\ EntriesSound' /\ QueriesSound' /\ ControlSound'
BY DEF ExchangeInv, WiresTyped, EntriesSound, QueriesSound, ControlSound, Complete, progress,
   Given


-----------------------------------------------------------------------------
(* The actions that are no handler, and one step *)

\* However the setup of a connection ends.
LEMMA SetupWires ==
    ASSUME WiresTyped, UNCHANGED <<heard, announced>>, NEW q, NEW i,
           SetupThrows \/ Register(q, i)
    PROVE  WiresTyped'
<1>1. Fresh \in [given : Nat, taken : Nat, carried : SUBSET Queries]
  BY DEF Fresh
<1>2. wire' = wire \/ \E s \in Sockets : wire' = [wire EXCEPT ![s] = Fresh]
  BY DEF SetupThrows, SetupConnection, Register
<1> QED
  BY <1>1, <1>2 DEF WiresTyped

\* A query is put into the machine, or the batch ends.
LEMMA AddQuerySound ==
    ASSUME ExchangeInv, AddQuery
    PROVE  WiresTyped' /\ EntriesSound' /\ QueriesSound' /\ ControlSound'
<1>1. /\ pc = "add" /\ InBatch /\ size = known /\ known \in Queries /\ known \in Nat
      /\ TypeOK /\ IndexInv /\ WiresTyped
  <2>1. pc = "add" /\ known < NumQueries
    BY DEF AddQuery
  <2> QED
    BY <2>1, NextIsQuery DEF InBatch, ExchangeInv, MachineInv, TableFollowsStates, AddsInOrder
<1>2. known' = known + 1 /\ Given' = Given \cup {known} /\ known \notin Given
  BY <1>1 DEF AddQuery, Given
<1>3. WiresTyped'
  BY <1>1, SetupWires DEF AddQuery
<1>4. \A y \in Queries \ Given' : heard'[y] = heard[y] /\ qs'[y] = qs[y]
  BY <1>1, <1>2 DEF AddQuery, EnterState, TypeOK
<1>5. CASE SetupThrows
  BY <1>1, <1>2, <1>3, <1>4, <1>5, EndSound DEF SetupThrows, Throw, Errors
<1>6. CASE Register(known, size) /\ Full
  BY <1>1, <1>2, <1>3, <1>4, <1>6, EndSound DEF Register, Throw, Errors
<1>7. CASE Register(known, size) /\ ~Full
  <2>1. PICK s \in Sockets \ open :
          /\ AddEntry(s, "out", known) /\ wire' = [wire EXCEPT ![s] = Fresh]
    BY <1>1, <1>7 DEF Register, SetupConnection
  <2>2. known \in Slots /\ known \notin Registered
    <3>1. known \in Slots
      BY <1>1, <1>7, ParallelAssumption DEF Full, Slots
    <3>2. \A p \in Live : fds2query[p] \in 0 .. known - 1
      BY <1>1 DEF IndexInv, IndicesInverse
    <3> QED
      BY <1>1, <3>1, <3>2 DEF Registered
  <2>3. heard[known] = {}
    BY <1>1, <1>2 DEF ExchangeInv, QueriesSound
  <2>4. EnterState(known, "WR_CONNECT") /\ UNCHANGED <<progress, heard, announced>>
    BY DEF AddQuery
  <2>5. EntriesSound' /\ QueriesSound'
    BY <1>1, <1>2, <2>1, <2>2, <2>3, <2>4, ComesSound
  <2>6. ControlSound'
    <3>1. pc' = "add" /\ UNCHANGED outcome
      BY <1>1, <1>7 DEF Register, Advance, Goto
    <3>2. \A q \in Given' : qs'[q] = "WR_CONNECT"
      BY <1>1, <1>2, <2>4 DEF EnterState, ExchangeInv, ControlSound, TypeOK
    <3> QED
      BY <1>1, <3>1, <3>2 DEF ExchangeInv, ControlSound, InBatch
  <2> QED
    BY <1>3, <2>5, <2>6
<1> QED
  BY <1>5, <1>6, <1>7 DEF AddQuery

\* A query is connected again, or the batch ends.
LEMMA RetryExpiresSound ==
    ASSUME ExchangeInv, RetryExpires
    PROVE  WiresTyped' /\ EntriesSound' /\ QueriesSound' /\ ControlSound'
<1>1. PICK i \in Given : i = cursor
  BY DEF RetryExpires
<1>2. /\ pc = "expire" /\ InBatch /\ i \in Queries /\ qs[i] = "RETRY_CONNECT"
      /\ MachineInv /\ TypeOK /\ IndexInv /\ WiresTyped
      /\ UNCHANGED <<known, progress, heard, announced>> /\ Given' = Given
  BY <1>1, GivenAreQueries
     DEF RetryExpires, ExchangeInv, MachineInv, InBatch, TableFollowsStates, Given
<1>3. WiresTyped'
  BY <1>2, SetupWires DEF RetryExpires
<1>4. CASE SetupThrows /\ UNCHANGED qs
  BY <1>2, <1>3, <1>4, EndSound DEF SetupThrows, Throw, Errors
<1>5. CASE Register(cursor, cursor) /\ EnterState(cursor, "WR_CONNECT")
  <2>1. i \in 0 .. known - 1 /\ i \notin Registered /\ i \in Slots /\ ~Full
    <3>1. i \notin Registered
      BY <1>1, <1>2 DEF MachineInv, TableFollowsStates, PolledStates, ReadStates, WriteStates
    <3>2. i \in 0 .. known - 1 /\ i \in Slots
      BY <1>1, <1>2, <3>1, ParallelAssumption DEF Given, IndexInv, TableTypeOK, Slots
    <3> QED
      BY <1>2, <3>1, <3>2, RoomForKnown
  <2>2. PICK s \in Sockets \ open :
          /\ AddEntry(s, "out", i) /\ wire' = [wire EXCEPT ![s] = Fresh]
    BY <1>1, <1>5, <2>1 DEF Register, SetupConnection
  <2>3. heard[i] = {}
    BY <1>1, <1>2 DEF ExchangeInv, QueriesSound, Complete, PolledStates, ReadStates, WriteStates
  <2>4. EntriesSound' /\ QueriesSound'
    BY <1>1, <1>2, <1>5, <2>1, <2>2, <2>3, ComesSound
  <2>5. pc' = "expire" /\ UNCHANGED outcome
    BY <1>2, <1>5, <2>1 DEF Register, Advance, Goto
  <2>6. ControlSound'
    BY <1>2, <2>5 DEF ExchangeInv, ControlSound, InBatch
  <2> QED
    BY <1>3, <2>4, <2>6
<1> QED
  BY <1>4, <1>5 DEF RetryExpires

\* A connection that has carried nothing is given up.
LEMMA ConnectExpiresSound ==
    ASSUME ExchangeInv, ConnectExpires
    PROVE  WiresTyped' /\ EntriesSound' /\ QueriesSound' /\ ControlSound'
<1>1. PICK i \in Given : i = cursor
  BY DEF ConnectExpires
<1>2. /\ pc = "expire" /\ InBatch /\ i \in Queries /\ qs[i] = "WR_CONNECT"
      /\ MachineInv /\ TypeOK /\ WiresTyped
      /\ UNCHANGED <<known, progress, wire, heard, announced>>
  BY <1>1, GivenAreQueries DEF ConnectExpires, Repeatable, ExchangeInv, MachineInv, InBatch,
     history
<1>3. HasPollIndex(i) /\ GetPollIndex(i) \in Live /\ fds2query[GetPollIndex(i)] = i
  BY <1>1, <1>2, PolledHasEntry DEF PolledStates, WriteStates
<1>4. PICK p \in Live : p = GetPollIndex(i)
  BY <1>3
<1>5. /\ RemoveFd(p) /\ pc' = pc /\ UNCHANGED outcome /\ EnterState(i, "RETRY_CONNECT")
  BY <1>1, <1>3, <1>4 DEF ConnectExpires, Advance, Goto
<1>6. heard[i] = {}
  <2>1. Sound(Entry(p))
    BY <1>2 DEF ExchangeInv, EntriesSound
  <2>2. Entry(p).state = "WR_CONNECT" /\ Entry(p).heard = heard[i]
    BY <1>2, <1>3, <1>4 DEF Entry
  <2> QED
    BY <2>1, <2>2 DEF Sound
<1>7. qs'[i] = "RETRY_CONNECT" /\ \A y \in Queries \ {i} : qs'[y] = qs[y]
  BY <1>2, <1>5 DEF EnterState, TypeOK
<1>8. WiresTyped'
  BY <1>2 DEF WiresTyped
<1> QED
  BY <1>1, <1>2, <1>3, <1>4, <1>5, <1>6, <1>7, <1>8, RemovalSound DEF progress

\* The whole answer is there, or the server reports an error and the batch ends.
LEMMA BodyReadSound ==
    ASSUME ExchangeInv, BodyRead
    PROVE  WiresTyped' /\ EntriesSound' /\ QueriesSound' /\ ControlSound'
<1>1. /\ pc = "scan" /\ cursor \in Live /\ InBatch /\ MachineInv /\ TypeOK /\ WiresTyped
      /\ UNCHANGED <<known, bytesWritten, responseStatuses, announced>>
  BY DEF BodyRead, Scanning, InBatch, ExchangeInv, MachineInv
<1>2. PICK p \in Live, q \in Given :
        /\ p = cursor /\ q = CurrentQuery /\ q = fds2query[p] /\ q \in Queries
        /\ CurrentSocket = fds[p].fd /\ CurrentSocket \in Sockets
        /\ Sound(Entry(p))
  BY <1>1, AtCursor
<1>3. /\ Receive(q, bytesToRead[q]) /\ bytesToRead[q] \in Int /\ qs[q] = "RD_RESPONSE"
      /\ bytesToRead' = [bytesToRead EXCEPT ![q] = 0] /\ EnterState(q, "FINISHED")
  BY <1>1, <1>2 DEF BodyRead, TypeOK
<1>4. /\ wire' \in [Sockets -> [given : Nat, taken : Nat, carried : SUBSET Queries]]
      /\ \A s \in Sockets \ {CurrentSocket} : wire'[s] = wire[s]
      /\ heard' \in [Queries -> SUBSET Queries]
      /\ heard'[q] = heard[q] \cup wire[CurrentSocket].carried
      /\ \A y \in Queries \ {q} : heard'[y] = heard[y]
  BY <1>1, <1>2, <1>3, ReceiveTyped
<1>5. WiresTyped'
  BY <1>1, <1>4 DEF WiresTyped
<1>6. CASE StatusOK(q)
  <2>1. RemoveFd(p) /\ pc' = pc /\ UNCHANGED outcome
    BY <1>2, <1>6 DEF BodyRead, Advance, Goto
  <2>2. /\ qs'[q] = "FINISHED" /\ bytesToRead'[q] = 0
        /\ \A y \in Queries \ {q} : qs'[y] = qs[y] /\ bytesToRead'[y] = bytesToRead[y]
    BY <1>1, <1>2, <1>3 DEF EnterState, TypeOK
  <2>3. heard'[q] = {q}
    <3>1. Entry(p).state = "RD_RESPONSE" /\ Entry(p).query = q
          /\ Entry(p).heard = heard[q] /\ Entry(p).wire = wire[CurrentSocket]
      BY <1>2, <1>3 DEF Entry
    <3> QED
      BY <1>2, <1>4, <3>1 DEF Sound
  <2>4. responseStatuses'[q] = "ok"
    BY <1>1, <1>6 DEF StatusOK
  <2>5. \A y \in Queries \ {q} :
          /\ qs'[y] = qs[y] /\ bytesToRead'[y] = bytesToRead[y]
          /\ bytesWritten'[y] = bytesWritten[y] /\ announced'[y] = announced[y]
          /\ heard'[y] = heard[y] /\ responseStatuses'[y] = responseStatuses[y]
    BY <1>1, <1>4, <2>2
  <2> QED
    BY <1>1, <1>2, <1>4, <1>5, <2>1, <2>2, <2>3, <2>4, <2>5, RemovalSound
<1>7. CASE ~StatusOK(q)
  <2>1. pc' = "unwind" /\ outcome' \in Errors /\ Given' = Given
    BY <1>1, <1>2, <1>7 DEF BodyRead, Throw, Errors, Given
  <2>2. \A y \in Queries \ Given : qs'[y] = qs[y]
    BY <1>1, <1>2, <1>3 DEF EnterState, TypeOK
  <2> QED
    BY <1>1, <1>2, <1>4, <1>5, <2>1, <2>2, EndSound
<1> QED
  BY <1>6, <1>7

\* Any other exception ends the batch.
LEMMA ThrowSound ==
    ASSUME ExchangeInv, EntryThrows \/ OldVersionRead \/ ExpiryThrows
    PROVE  WiresTyped' /\ EntriesSound' /\ QueriesSound' /\ ControlSound'
<1>1. InBatch /\ pc' = "unwind" /\ outcome' \in Errors /\ Given' = Given /\ UNCHANGED qs
  BY DEF EntryThrows, OldVersionRead, ExpiryThrows, Scanning, InBatch, Throw, Errors, Idle, Given
<1>2. CASE EntryThrows \/ ExpiryThrows
  <2>1. UNCHANGED <<wire, heard, announced>>
    BY <1>2 DEF EntryThrows, ExpiryThrows
  <2> QED
    BY <1>1, <2>1, EndSound DEF ExchangeInv, WiresTyped
<1>3. CASE OldVersionRead
  <2>1. pc = "scan" /\ cursor \in Live /\ TypeOK /\ WiresTyped /\ UNCHANGED announced
    BY <1>3 DEF OldVersionRead, Scanning, ExchangeInv, MachineInv
  <2>2. PICK p \in Live, q \in Given :
          /\ p = cursor /\ q = CurrentQuery /\ q = fds2query[p] /\ q \in Queries
          /\ CurrentSocket = fds[p].fd /\ CurrentSocket \in Sockets
          /\ Sound(Entry(p))
    BY <2>1, AtCursor
  <2>3. Receive(q, bytesToRead[q]) /\ bytesToRead[q] \in Int
    BY <1>3, <2>1, <2>2 DEF OldVersionRead, TypeOK
  <2>4. /\ wire' \in [Sockets -> [given : Nat, taken : Nat, carried : SUBSET Queries]]
        /\ heard' \in [Queries -> SUBSET Queries]
        /\ \A y \in Queries \ {q} : heard'[y] = heard[y]
    BY <2>1, <2>2, <2>3, ReceiveTyped
  <2>5. WiresTyped'
    BY <2>1, <2>4 DEF WiresTyped
  <2> QED
    BY <1>1, <2>2, <2>4, <2>5, EndSound
<1> QED
  BY <1>2, <1>3

\* poll() changes what the entries report and the time that is left.
LEMMA PollSound ==
    ASSUME ExchangeInv, PollReady \/ PollTimesOut
    PROVE  WiresTyped' /\ EntriesSound' /\ QueriesSound' /\ ControlSound'
<1>1. PICK r \in [Live -> Revents] : PollReports(r)
  BY DEF PollReady, PollTimesOut, Revents
<1>2. /\ pc = "poll" /\ InBatch /\ InBatch' /\ pc' # "add" /\ IndexInv /\ known > 0
      /\ UNCHANGED <<known, outcome, qs, progress, wire, heard, announced>>
  BY DEF PollReady, PollTimesOut, AfterPoll, Goto, InBatch, ExchangeInv, ControlSound, MachineInv,
         TableFollowsStates, history, progress
<1>3. UNCHANGED <<size, fds2query>> /\ \A x \in Live : fds'[x].fd = fds[x].fd
  BY <1>1, <1>2, PollReportsKeepsFds DEF PollReports, IndexInv
<1> QED
  BY <1>2, <1>3, QuietSound

\* The inner loops and the caller go on.
LEMMA GoOnSound ==
    ASSUME ExchangeInv,
           Launch \/ PollFails \/ SkipEntry \/ CallInterrupted \/ ScanEnds \/ SkipQuery \/ ExpireEnds
    PROVE  WiresTyped' /\ EntriesSound' /\ QueriesSound' /\ ControlSound'
<1>1. UNCHANGED <<qs, progress, wire, heard, announced, known, outcome, size, fds2query, fds>>
  BY DEF Launch, PollFails, SkipEntry, CallInterrupted, ScanEnds, SkipQuery, ExpireEnds,
         Advance, Goto, Idle, AfterPoll, table, history, progress
<1>2. InBatch /\ InBatch' /\ pc' # "add" /\ known > 0
  BY DEF Launch, PollFails, SkipEntry, CallInterrupted, ScanEnds, SkipQuery, ExpireEnds,
         Scanning, Advance, Goto, InBatch, ExchangeInv, ControlSound
<1> QED
  BY <1>1, <1>2, QuietSound

\* launch() returns only with every answer.
LEMMA LaunchReturnsSound ==
    ASSUME ExchangeInv, LaunchReturns
    PROVE  WiresTyped' /\ EntriesSound' /\ QueriesSound' /\ ControlSound'
<1>1. /\ InBatch /\ pc' = "unwind" /\ ~InBatch' /\ outcome' = "ok" /\ Given' = Given
      /\ UNCHANGED <<qs, progress, wire, heard, announced>>
  BY DEF LaunchReturns, AfterPoll, InBatch, Given, history, progress
<1>2. \A q \in Given : Complete(q)
  <2>1. \A q \in Given : qs[q] \in {"FINISHED", "FAILED"}
    BY DEF LaunchReturns, Finished
  <2> QED
    BY <1>1, <2>1 DEF ExchangeInv, QueriesSound, Complete, PolledStates, ReadStates, WriteStates
<1> QED
  BY <1>1, <1>2 DEF ExchangeInv, WiresTyped, EntriesSound, QueriesSound, ControlSound, Complete,
                    progress

\* The machine is destroyed.
LEMMA UnwindSound ==
    ASSUME ExchangeInv, UnwindFd \/ Destroyed
    PROVE  WiresTyped' /\ EntriesSound' /\ QueriesSound' /\ ControlSound'
BY AfterSound DEF UnwindFd, Destroyed, control, history, progress, InBatch

LEMMA StepExchange == ExchangeInv /\ [Next]_vars => ExchangeInv'
<1> SUFFICES ASSUME ExchangeInv, [Next]_vars PROVE ExchangeInv'
  OBVIOUS
<1>1. MachineInv' /\ SocketAccounting'
  BY StepMachineInv, StepSockets DEF ExchangeInv
<1>2. WiresTyped' /\ EntriesSound' /\ QueriesSound' /\ ControlSound'
  <2>1. CASE UNCHANGED vars
    <3>1. /\ UNCHANGED <<qs, progress, wire, heard, announced, known, outcome, size, fds2query>>
          /\ UNCHANGED <<fds, pc>>
      BY <2>1 DEF vars, control, progress, table, history
    <3>2. InBatch' <=> InBatch
      BY <3>1 DEF InBatch
    <3>3. CASE InBatch
      <4>1. pc' \in {"poll", "scan", "expire"} => known > 0
        BY <3>1 DEF ExchangeInv, ControlSound
      <4> QED
        BY <3>1, <3>2, <4>1, QuietSound
    <3>4. CASE ~InBatch
      <4>1. pc' \notin {"poll", "scan", "expire"} /\ pc' # "add"
        BY <3>1, <3>4 DEF InBatch
      <4> QED
        BY <3>1, <3>2, <3>4, <4>1, AfterSound
    <3> QED
      BY <3>3, <3>4
  <2> QED
    BY <2>1, AddQuerySound, RetryExpiresSound, ConnectExpiresSound, BodyReadSound, ThrowSound,
       PollSound, GoOnSound, LaunchReturnsSound, UnwindSound, ConnectedSound, WritePartSound,
       VersionWrittenSound, RequestWrittenSound, ReadPartSound, VersionReadSound, HeaderReadSound
       DEF Next, Code, Terminated
<1> QED
  BY <1>1, <1>2 DEF ExchangeInv

LEMMA InitExchange == Init => ExchangeInv
<1> SUFFICES ASSUME Init PROVE ExchangeInv
  OBVIOUS
<1>1. MachineInv
  BY InitMachineInv
<1>2. Live = {} /\ Given = {}
  BY DEF Init, InitTable, Live, Given
<1>3. SocketAccounting
  BY FS_EmptySet, <1>2 DEF Init, InitTable, SocketAccounting
<1>4. WiresTyped
  BY DEF Init, WiresTyped, Fresh
<1>5. EntriesSound /\ QueriesSound /\ ControlSound
  BY <1>2 DEF Init, EntriesSound, QueriesSound, ControlSound, InBatch
<1> QED
  BY <1>1, <1>3, <1>4, <1>5 DEF ExchangeInv

-----------------------------------------------------------------------------
(* What a step does to the queries *)

\* Query y is left as it is.
Same(y) ==
    /\ qs'[y] = qs[y] /\ heard'[y] = heard[y] /\ attempts'[y] = attempts[y]
    /\ bytesToRead'[y] = bytesToRead[y] /\ responseStatuses'[y] = responseStatuses[y]

\* A step moves at most one query, and not one that is finished; only the end
\* of a body finishes it and only an expired connect sends it back.
Moves(q) ==
    /\ qs[q] # "FINISHED"
    /\ \A y \in Queries \ {q} : Same(y)
    /\ qs'[q] = "RETRY_CONNECT" => qs[q] = "RETRY_CONNECT" \/ ConnectExpires
    /\ qs'[q] = "FINISHED" => BodyRead
    /\ q \in Given \/ AddQuery

\* A handler moves the query of the entry it looks at.
LEMMA HandlersMove ==
    ASSUME ExchangeInv,
           \/ Connected \/ WritePart \/ VersionWritten \/ RequestWritten \/ ReadPart
           \/ VersionRead \/ OldVersionRead \/ HeaderRead \/ BodyRead
    PROVE  \E q \in Queries : Moves(q)
<1>1. pc = "scan" /\ cursor \in Live /\ MachineInv /\ TypeOK /\ WiresTyped
  BY DEF Connected, WritePart, VersionWritten, RequestWritten, ReadPart, VersionRead,
         OldVersionRead, HeaderRead, BodyRead, Scanning, ExchangeInv, MachineInv
<1>2. PICK q \in Given : q = CurrentQuery /\ q \in Queries
  BY <1>1, AtCursor
<1>3. UNCHANGED attempts
  BY DEF Connected, WritePart, VersionWritten, RequestWritten, ReadPart, VersionRead,
         OldVersionRead, HeaderRead, BodyRead, Idle
<1>4. /\ qs \in [Queries -> QueryState] /\ heard \in [Queries -> SUBSET Queries]
      /\ bytesToRead \in [Queries -> Nat] /\ responseStatuses \in [Queries -> {"ok", "error"}]
  BY <1>1 DEF TypeOK, WiresTyped
<1>5. CASE Connected
  BY <1>2, <1>3, <1>4, <1>5 DEF Connected, EnterState, Moves, Same
<1>6. CASE WritePart
  BY <1>2, <1>3, <1>4, <1>6 DEF WritePart, Moves, Same
<1>7. CASE VersionWritten
  BY <1>2, <1>3, <1>4, <1>7 DEF VersionWritten, EnterState, Moves, Same
<1>8. CASE RequestWritten
  BY <1>2, <1>3, <1>4, <1>8 DEF RequestWritten, EnterState, Moves, Same
<1>9. CASE ReadPart
  BY <1>2, <1>3, <1>4, <1>9 DEF ReadPart, Receive, ReadStates, Moves, Same
<1>10. CASE VersionRead
  BY <1>2, <1>3, <1>4, <1>10 DEF VersionRead, Receive, EnterState, Moves, Same
<1>11. CASE OldVersionRead
  BY <1>2, <1>3, <1>4, <1>11 DEF OldVersionRead, Receive, Moves, Same
<1>12. CASE HeaderRead
  BY <1>2, <1>3, <1>4, <1>12 DEF HeaderRead, Receive, EnterState, Moves, Same
<1>13. CASE BodyRead
  BY <1>2, <1>3, <1>4, <1>13 DEF BodyRead, Receive, EnterState, Moves, Same
<1> QED
  BY <1>5, <1>6, <1>7, <1>8, <1>9, <1>10, <1>11, <1>12, <1>13

\* Adding a query, giving up its connection and connecting it again move that query.
LEMMA ConnectsMove ==
    ASSUME ExchangeInv, AddQuery \/ ConnectExpires \/ RetryExpires
    PROVE  \E q \in Queries : Moves(q)
<1>1. /\ TypeOK /\ Given \subseteq Queries
      /\ qs \in [Queries -> QueryState] /\ attempts \in [Queries -> Nat]
  BY GivenAreQueries DEF ExchangeInv, MachineInv, TypeOK, AttemptsCounted
<1>2. CASE AddQuery
  <2>1. PICK q \in Queries : q = known /\ q \notin Given
    BY <1>1, <1>2, NextIsQuery DEF AddQuery, Given
  <2>2. \A y \in Queries \ {q} : attempts'[y] = attempts[y]
    BY <1>1, <1>2, <2>1 DEF AddQuery, SetupThrows, Register
  <2>3. qs[q] = "none"
    BY <2>1 DEF ExchangeInv, QueriesSound
  <2>4. UNCHANGED <<bytesToRead, responseStatuses, heard>> /\ qs' = [qs EXCEPT ![q] = "WR_CONNECT"]
    BY <1>2, <2>1 DEF AddQuery, progress, EnterState
  <2>5. Moves(q)
    BY <1>1, <1>2, <2>1, <2>2, <2>3, <2>4 DEF Moves, Same
  <2> QED
    BY <2>5
<1>3. CASE ConnectExpires
  <2>1. PICK q \in Given : q = cursor
    BY <1>3 DEF ConnectExpires
  <2>2. /\ UNCHANGED <<bytesToRead, responseStatuses, heard, attempts>>
        /\ qs[q] = "WR_CONNECT" /\ qs' = [qs EXCEPT ![q] = "RETRY_CONNECT"]
    BY <1>3, <2>1 DEF ConnectExpires, Repeatable, progress, history, EnterState
  <2>3. Moves(q) /\ q \in Queries
    BY <1>1, <1>3, <2>1, <2>2 DEF Moves, Same
  <2> QED
    BY <2>3
<1>4. CASE RetryExpires
  <2>1. PICK q \in Given : q = cursor
    BY <1>4 DEF RetryExpires
  <2>2. \A y \in Queries \ {q} : attempts'[y] = attempts[y]
    BY <1>1, <1>4, <2>1 DEF RetryExpires, SetupThrows, Register
  <2>3. /\ UNCHANGED <<bytesToRead, responseStatuses, heard>> /\ qs[q] = "RETRY_CONNECT"
        /\ qs' = qs \/ qs' = [qs EXCEPT ![q] = "WR_CONNECT"]
    BY <1>4, <2>1 DEF RetryExpires, progress, EnterState
  <2>4. Moves(q) /\ q \in Queries
    BY <1>1, <1>4, <2>1, <2>2, <2>3 DEF Moves, Same
  <2> QED
    BY <2>4
<1> QED
  BY <1>2, <1>3, <1>4

LEMMA OthersLeave ==
    ASSUME \/ Launch \/ LaunchReturns \/ SkipEntry \/ EntryThrows \/ CallInterrupted \/ ScanEnds
           \/ SkipQuery \/ ExpiryThrows \/ ExpireEnds \/ UnwindFd \/ Destroyed
           \/ PollReady \/ PollTimesOut \/ PollFails \/ UNCHANGED vars
    PROVE  \A y \in Queries : Same(y)
BY DEF Launch, LaunchReturns, SkipEntry, EntryThrows, CallInterrupted, ScanEnds, SkipQuery,
       ExpiryThrows, ExpireEnds, UnwindFd, Destroyed, PollReady, PollTimesOut, PollFails, vars,
       Idle, AfterPoll, progress, history, Same

LEMMA OneQueryMoves ==
    ExchangeInv /\ [Next]_vars =>
      (\A y \in Queries : Same(y)) \/ (\E q \in Queries : Moves(q))
BY HandlersMove, ConnectsMove, OthersLeave DEF Next, Code, Terminated

\* What NothingRepeated says of a step.
LEMMA StepRepeatsNothing ==
    ASSUME ExchangeInv, [Next]_vars, NEW q \in Queries
    PROVE  /\ qs'[q] = "RETRY_CONNECT" /\ qs[q] # "RETRY_CONNECT" =>
                \A s \in open \ open' : wire[s] = Fresh
           /\ qs[q] = "FINISHED" =>
                qs'[q] = "FINISHED" /\ heard'[q] = heard[q] /\ attempts'[q] = attempts[q]
<1>1. qs[q] = "FINISHED" =>
        qs'[q] = "FINISHED" /\ heard'[q] = heard[q] /\ attempts'[q] = attempts[q]
  BY OneQueryMoves DEF Same, Moves
<1>2. ASSUME qs'[q] = "RETRY_CONNECT", qs[q] # "RETRY_CONNECT", NEW s \in open \ open'
      PROVE  wire[s] = Fresh
  <2>1. ConnectExpires
    BY <1>2, OneQueryMoves DEF Same, Moves
  <2>2. PICK i \in Given : i = cursor
    BY <2>1 DEF ConnectExpires
  <2>3. /\ MachineInv /\ InBatch /\ qs[i] = "WR_CONNECT" /\ TypeOK /\ WiresTyped
    BY <2>1, <2>2 DEF ConnectExpires, Repeatable, InBatch, ExchangeInv, MachineInv
  <2>4. HasPollIndex(i) /\ GetPollIndex(i) \in Live /\ fds2query[GetPollIndex(i)] = i
    BY <2>3, PolledHasEntry DEF PolledStates, WriteStates
  <2>5. PICK p \in Live : p = GetPollIndex(i)
    BY <2>4
  <2>6. s = fds[p].fd
    BY <1>2, <2>1, <2>2, <2>4, <2>5 DEF ConnectExpires, RemoveFd, Closed
  <2>7. Entry(p).state = "WR_CONNECT" /\ Entry(p).wire = wire[s] /\ Sound(Entry(p))
    BY <2>3, <2>4, <2>5, <2>6 DEF Entry, ExchangeInv, EntriesSound
  <2>8. wire[s].given = 0 /\ wire[s].taken = 0 /\ wire[s].carried = {}
    BY <2>7 DEF Sound
  <2>9. wire[s] \in [given : Nat, taken : Nat, carried : SUBSET Queries]
    BY <2>3, <1>2 DEF TypeOK, WiresTyped
  <2> QED
    BY <2>8, <2>9 DEF Fresh
<1> QED
  BY <1>1, <1>2

-----------------------------------------------------------------------------
(* A step of the machine is a step of the batch *)

\* Without a body that ends, no answer comes or goes.
LEMMA AnsweredStays ==
    ASSUME ExchangeInv, [Next]_vars, ~BodyRead, ~AddQuery
    PROVE  Answered' = Answered
<1>1. Given' = Given /\ Given \subseteq Queries
  BY GivenAreQueries
     DEF ExchangeInv, MachineInv, Next, Code, Terminated, Launch, LaunchReturns, SkipEntry,
         EntryThrows, CallInterrupted, ScanEnds, SkipQuery, ExpiryThrows, ExpireEnds, UnwindFd,
         Destroyed, PollReady, PollTimesOut, PollFails, vars, control, Idle, AfterPoll, Connected,
         WritePart, VersionWritten, RequestWritten, ReadPart, VersionRead, OldVersionRead,
         HeaderRead, ConnectExpires, RetryExpires, Given
<1>2. \A q \in Given : Complete(q)' <=> Complete(q)
  BY <1>1, OneQueryMoves DEF Same, Moves, Complete
<1> QED
  BY <1>1, <1>2 DEF Answered, Complete

\* The steps of the machine that the batch knows.
LEMMA AddQuerySubmits ==
    ASSUME ExchangeInv, AddQuery
    PROVE  Batch!Submit
<1>1. /\ pc = "add" /\ InBatch /\ known \in Queries /\ known < NumQueries /\ known' = known + 1
      /\ TypeOK /\ Given \subseteq Queries /\ Given' = Given \cup {known}
  BY NextIsQuery, GivenAreQueries DEF AddQuery, InBatch, ExchangeInv, MachineInv, Given
<1>2. outcome = "running"
  BY <1>1 DEF ExchangeInv, ControlSound
<1>3. \A q \in Given : qs[q] = "WR_CONNECT"
  BY <1>1 DEF ExchangeInv, ControlSound
<1>4. \A q \in Given' : qs'[q] = "WR_CONNECT"
  BY <1>1, <1>3 DEF AddQuery, EnterState, TypeOK
<1>5. Answered = {} /\ Answered' = {}
  BY <1>3, <1>4 DEF Answered, Complete
<1>6. outcome' \in {"running"} \cup Errors
  BY <1>2 DEF AddQuery, SetupThrows, Register, Throw, Advance, Goto, Errors
<1> QED
  BY <1>1, <1>2, <1>5, <1>6 DEF Batch!Submit, Batch!Running

LEMMA BodyReadAnswers ==
    ASSUME ExchangeInv, BodyRead
    PROVE  (\E q \in Given : Batch!Answer(q)) \/ Batch!Fail
<1>1. /\ pc = "scan" /\ cursor \in Live /\ InBatch /\ MachineInv /\ TypeOK /\ WiresTyped
      /\ UNCHANGED <<known, responseStatuses>> /\ Given' = Given /\ Given \subseteq Queries
  BY GivenAreQueries DEF BodyRead, Scanning, InBatch, ExchangeInv, MachineInv, Given
<1>2. outcome = "running"
  BY <1>1 DEF ExchangeInv, ControlSound
<1>3. PICK p \in Live, q \in Given :
        /\ p = cursor /\ q = CurrentQuery /\ q = fds2query[p] /\ q \in Queries
        /\ CurrentSocket = fds[p].fd /\ CurrentSocket \in Sockets
        /\ Sound(Entry(p))
  BY <1>1, AtCursor
<1>4. /\ qs[q] = "RD_RESPONSE" /\ qs'[q] = "FINISHED" /\ bytesToRead'[q] = 0
      /\ heard'[q] = heard[q] \cup wire[CurrentSocket].carried
      /\ \A y \in Queries \ {q} : /\ qs'[y] = qs[y] /\ bytesToRead'[y] = bytesToRead[y]
                                  /\ heard'[y] = heard[y]
  BY <1>1, <1>3 DEF BodyRead, Receive, EnterState, TypeOK, WiresTyped
<1>5. heard'[q] = {q}
  <2>1. Entry(p).state = "RD_RESPONSE" /\ Entry(p).query = q
        /\ Entry(p).heard = heard[q] /\ Entry(p).wire = wire[CurrentSocket]
    BY <1>3, <1>4 DEF Entry
  <2> QED
    BY <1>3, <1>4, <2>1 DEF Sound
<1>6. /\ \A y \in Given \ {q} : Complete(y)' <=> Complete(y)
      /\ ~Complete(q) /\ (Complete(q)' <=> StatusOK(q))
  BY <1>1, <1>4, <1>5 DEF Complete, StatusOK
<1>7. CASE StatusOK(q)
  <2>1. Answered' = Answered \cup {q} /\ q \notin Answered
    BY <1>1, <1>6, <1>7 DEF Answered, Complete
  <2>2. UNCHANGED <<known, outcome>>
    BY <1>1, <1>3, <1>7 DEF BodyRead, Advance, Goto
  <2> QED
    BY <1>2, <2>1, <2>2 DEF Batch!Answer, Batch!Running
<1>8. CASE ~StatusOK(q)
  <2>1. Answered' = Answered
    BY <1>1, <1>6, <1>8 DEF Answered, Complete
  <2>2. outcome' \in Errors
    BY <1>3, <1>8 DEF BodyRead, Throw, Errors
  <2> QED
    BY <1>1, <1>2, <2>1, <2>2 DEF Batch!Fail, Batch!Running
<1> QED
  BY <1>7, <1>8

LEMMA LaunchReturnsSucceeds ==
    ASSUME ExchangeInv, LaunchReturns
    PROVE  Batch!Succeed
<1>1. /\ InBatch /\ pc = "poll" /\ outcome' = "ok" /\ UNCHANGED known
      /\ UNCHANGED <<qs, progress, heard>> /\ Given' = Given
  BY DEF LaunchReturns, AfterPoll, InBatch, Given, history
<1>2. outcome = "running" /\ known > 0
  BY <1>1 DEF ExchangeInv, ControlSound
<1>3. \A q \in Given : Complete(q)
  <2>1. \A q \in Given : qs[q] \in {"FINISHED", "FAILED"}
    BY DEF LaunchReturns, Finished
  <2> QED
    BY <1>1, <2>1 DEF ExchangeInv, QueriesSound, Complete, PolledStates, ReadStates, WriteStates
<1>4. Answered = Given /\ Answered' = Answered
  BY <1>1, <1>3 DEF Answered, Complete, progress
<1> QED
  BY <1>1, <1>2, <1>4 DEF Batch!Succeed, Batch!Running, Given

\* The other steps end the batch with an exception or are none of its business.
LEMMA OthersStutterOrFail ==
    ASSUME ExchangeInv, [Next]_vars, ~BodyRead, ~AddQuery, ~LaunchReturns
    PROVE  Batch!Fail \/ UNCHANGED <<known, Answered, outcome>>
<1>1. Answered' = Answered
  BY AnsweredStays
<1>2. UNCHANGED known
  BY DEF Next, Code, Terminated, Launch, SkipEntry, EntryThrows, CallInterrupted, ScanEnds,
         SkipQuery, ExpiryThrows, ExpireEnds, UnwindFd, Destroyed, PollReady, PollTimesOut,
         PollFails, vars, control, Idle, AfterPoll, Connected, WritePart, VersionWritten,
         RequestWritten, ReadPart, VersionRead, OldVersionRead, HeaderRead, ConnectExpires,
         RetryExpires
<1>3. UNCHANGED outcome \/ (InBatch /\ outcome' \in Errors)
  BY DEF Next, Code, Terminated, Launch, SkipEntry, EntryThrows, CallInterrupted, ScanEnds,
         SkipQuery, ExpiryThrows, ExpireEnds, UnwindFd, Destroyed, PollReady, PollTimesOut,
         PollFails, vars, control, Scanning, Goto, Advance, Throw, Connected, WritePart,
         VersionWritten, RequestWritten, ReadPart, VersionRead, OldVersionRead, HeaderRead,
         ConnectExpires, RetryExpires, SetupThrows, Register, InBatch, Errors
<1>4. InBatch => outcome = "running"
  BY DEF ExchangeInv, ControlSound
<1> QED
  BY <1>1, <1>2, <1>3, <1>4 DEF Batch!Fail, Batch!Running

LEMMA StepBatch == ExchangeInv /\ [Next]_vars => [Batch!Next]_(Batch!vars)
BY AddQuerySubmits, BodyReadAnswers, LaunchReturnsSucceeds, OthersStutterOrFail
   DEF Batch!Next, Batch!vars, Given

-----------------------------------------------------------------------------
(* The theorems *)

\* The invariant the following theorems rest on.
THEOREM ExchangeInvariant == Spec => []ExchangeInv
BY InitExchange, StepExchange, PTL DEF Spec

\* The client never loses its place in a byte stream, however the peer and the
\* kernel cut it into pieces (readOnReadable, writeOnWritable).
THEOREM FramingCorrect == Spec => []Framing
<1>1. ExchangeInv => Framing
  <2> SUFFICES ASSUME ExchangeInv, InBatch, NEW p \in Live
               PROVE  LET q == fds2query[p]
                          w == wire[fds[p].fd]
                      IN CASE qs[q] = "WR_CONNECT" -> w.given = 0 /\ w.taken = 0
                           [] qs[q] = "RD_VERSION" ->
                                w.given = 0 /\ w.taken + bytesToRead[q] = VersionLen
                           [] qs[q] = "WR_VERSION" ->
                                w.given = bytesWritten[q] /\ w.taken = VersionLen
                           [] qs[q] = "WR_REQUEST" ->
                                w.given = HelloLen + bytesWritten[q] /\ w.taken = VersionLen
                           [] qs[q] = "RD_RESPONSE_HEADER" ->
                                w.given = HelloLen + RequestLen
                                  /\ w.taken + bytesToRead[q] = VersionLen + HeaderLen
                           [] qs[q] = "RD_RESPONSE" ->
                                w.given = HelloLen + RequestLen
                                  /\ w.taken + bytesToRead[q] =
                                       VersionLen + HeaderLen + announced[q]
    BY DEF Framing
  <2>1. qs[fds2query[p]] \in PolledStates
    BY DEF ExchangeInv, MachineInv, TableFollowsStates, IndexInv, IndicesInverse, Given,
       Registered
  <2>2. Sound(Entry(p))
    BY DEF ExchangeInv, EntriesSound
  <2> QED
    BY <2>1, <2>2 DEF Sound, Entry, PolledStates, ReadStates, WriteStates
<1> QED
  BY <1>1, ExchangeInvariant, PTL

\* A query is given the answer to its own request and the whole of it, although
\* descriptors are reused and entries move from place to place.
THEOREM ResponsesCorrect == Spec => []ResponsesMatchRequests
<1>1. ExchangeInv => ResponsesMatchRequests
  <2> SUFFICES ASSUME ExchangeInv PROVE ResponsesMatchRequests
    OBVIOUS
  <2>1. ASSUME InBatch, NEW p \in Live
        PROVE  wire[fds[p].fd].carried \subseteq {fds2query[p]}
    <3>1. qs[fds2query[p]] \in PolledStates
      BY <2>1
         DEF ExchangeInv, MachineInv, TableFollowsStates, IndexInv, IndicesInverse, Given,
             Registered
    <3>2. Sound(Entry(p))
      BY <2>1 DEF ExchangeInv, EntriesSound
    <3> QED
      BY <3>1, <3>2 DEF Sound, Entry, PolledStates, ReadStates, WriteStates
  <2>2. outcome = "ok" => \A q \in Given : Complete(q)
    BY DEF ExchangeInv, ControlSound
  <2> QED
    BY <2>1, <2>2 DEF ResponsesMatchRequests, Complete
<1> QED
  BY <1>1, ExchangeInvariant, PTL

\* No request goes out twice: a connection that is given up has carried nothing,
\* and a query with its answer is never touched again.
THEOREM RequestsSentOnce == Spec => NothingRepeated
<1>1. ExchangeInv /\ [Next]_vars =>
        [\A q \in Queries :
           /\ qs'[q] = "RETRY_CONNECT" /\ qs[q] # "RETRY_CONNECT" =>
                \A s \in open \ open' : wire[s] = Fresh
           /\ qs[q] = "FINISHED" =>
                qs'[q] = "FINISHED" /\ heard'[q] = heard[q] /\ attempts'[q] = attempts[q]]_vars
  BY StepRepeatsNothing
<1> QED
  BY <1>1, ExchangeInvariant, PTL DEF Spec, NothingRepeated

\* The machine is an all-or-nothing batch: it ends with every answer or with an
\* exception, for any number of queries and whatever the peers do.
THEOREM BatchRefined == Spec => ImplementsQueryBatch
<1>1. Init => Batch!Init
  BY DEF Init, Batch!Init, Answered, Given
<1> QED
  BY <1>1, ExchangeInvariant, StepBatch, PTL DEF Spec, ImplementsQueryBatch, Batch!Spec

-----------------------------------------------------------------------------
(* The timeouts of a QueryMachine_t (querymachine.cc:103-206, :644-681).   *)
(* Nothing is assumed of the clock: the time measured around poll() may    *)
(* exceed the timeout poll() was given by any Overshoot.                   *)

\* The timeout poll() gets is the least of all, also when some are negative.
LEMMA MinTimeoutIsLeast ==
    ASSUME TypeOK, known > 0
    PROVE  MinTimeout \in Int /\ \A q \in Given : MinTimeout =< timeouts[q]
<1> DEFINE ts == {timeouts[q] : q \in Given}
           LeastOf(n, m) == m \in 0 .. n - 1 /\ \A q \in 0 .. n - 1 : timeouts[m] =< timeouts[q]
           T == {n \in 1 .. known : \A m \in 0 .. n - 1 : ~LeastOf(n, m)}
<1>1. known \in Nat /\ known > 0 /\ \A q \in 0 .. known - 1 : timeouts[q] \in Int
  BY GivenAreQueries DEF TypeOK, Given
<1>2. T = {}
  <2>1. SUFFICES ASSUME T # {}
                 PROVE  FALSE
    OBVIOUS
  <2>2. T \in SUBSET Nat
    OBVIOUS
  <2>3. PICK n \in T : \A u \in T : n =< u
    <3> HIDE DEF T
    <3> QED
      BY <2>1, <2>2, LeastExists
  <2>4. n \in 1 .. known
    OBVIOUS
  <2>5. n # 1
    <3>1. SUFFICES ASSUME n = 1
                   PROVE  FALSE
      OBVIOUS
    <3>2. LeastOf(1, 0)
      BY <1>1, <2>4
    <3> QED
      BY <3>1, <3>2
  <2>6. n - 1 \in 1 .. known /\ n - 1 \notin T
    <3>1. n - 1 \in 1 .. known /\ ~(n =< n - 1)
      BY <1>1, <2>4, <2>5
    <3> HIDE DEF T
    <3>2. n - 1 \notin T
      BY <2>3, <3>1
    <3> QED
      BY <3>1, <3>2
  <2>7. PICK m \in 0 .. n - 2 : LeastOf(n - 1, m)
    <3>1. \E m \in 0 .. (n - 1) - 1 : LeastOf(n - 1, m)
      <4> HIDE DEF LeastOf
      <4> QED
        BY <2>6
    <3>2. (n - 1) - 1 = n - 2
      BY <2>4
    <3> QED
      BY <3>1, <3>2
  <2>8. \E k \in 0 .. n - 1 : LeastOf(n, k)
    <3>1. /\ m \in 0 .. n - 1 /\ n - 1 \in 0 .. n - 1
          /\ \A q \in 0 .. n - 1 : q \in 0 .. n - 2 \/ q = n - 1
          /\ \A q \in 0 .. n - 1 : timeouts[q] \in Int
          /\ \A q \in 0 .. n - 2 : timeouts[m] =< timeouts[q]
      BY <1>1, <2>4, <2>7
    <3>2. CASE timeouts[m] =< timeouts[n - 1]
      <4>1. \A q \in 0 .. n - 1 : timeouts[m] =< timeouts[q]
        BY <3>1, <3>2
      <4> QED
        BY <3>1, <4>1
    <3>3. CASE ~(timeouts[m] =< timeouts[n - 1])
      <4>1. \A q \in 0 .. n - 1 : timeouts[n - 1] =< timeouts[q]
        BY <3>1, <3>3
      <4> QED
        BY <3>1, <4>1
    <3> QED
      BY <3>2, <3>3
  <2> QED
    BY <2>3, <2>8
<1>3. PICK m \in 0 .. known - 1 : LeastOf(known, m)
  <2>1. known \in 1 .. known
    BY <1>1
  <2>2. known \notin T
    BY <1>2
  <2>3. ~(\A m \in 0 .. known - 1 : ~LeastOf(known, m))
    <3> HIDE DEF LeastOf
    <3> QED
      BY <2>1, <2>2
  <2> HIDE DEF LeastOf
  <2> QED
    BY <2>3
<1>4. timeouts[m] \in ts /\ \A u \in ts : timeouts[m] =< u
  BY <1>3 DEF Given
<1>5. MinTimeout \in ts /\ \A u \in ts : MinTimeout =< u
  <2>1. MinTimeout = CHOOSE t \in ts : \A u \in ts : t =< u
    BY DEF MinTimeout
  <2> HIDE DEF ts
  <2> QED
    BY <1>4, <2>1
<1>6. ts \subseteq Int
  BY <1>1 DEF Given
<1> QED
  BY <1>5, <1>6

\* Of the queries the pass has gone by none is below zero.
PassedInTime == pc = "expire" => \A q \in Given : q < cursor => timeouts[q] >= 0

\* What the property says of a step.
InTime ==
    \A q \in Given' :
      timeouts'[q] < 0 =>
         \/ pc = "poll" /\ timeouts[q] - timeouts'[q] > MinTimeout
         \/ q \in Given /\ timeouts[q] < 0 /\ ~(pc = "expire" /\ pc' = "poll")

\* A poll() takes from no query more than it has, unless it was late.
LEMMA PollInTime ==
    ASSUME ExchangeInv, PollReady \/ PollTimesOut \/ PollFails
    PROVE  InTime
<1>1. /\ pc = "poll" /\ known > 0 /\ Given \subseteq Queries /\ Given' = Given /\ TypeOK
  BY GivenAreQueries
     DEF PollReady, PollTimesOut, PollFails, AfterPoll, InBatch, ExchangeInv, MachineInv,
         ControlSound, TypeOK, Given
<1>2. MinTimeout \in Int /\ \A q \in Given : MinTimeout =< timeouts[q] /\ timeouts[q] \in Int
  BY <1>1, MinTimeoutIsLeast DEF TypeOK
<1>3. PICK ms \in Int : DecrementTimeouts(ms)
  <2>1. Waits \subseteq Int /\ MinTimeout .. MinTimeout + Overshoot \subseteq Int
    BY <1>2 DEF Waits
  <2> QED
    BY <2>1 DEF PollReady, PollTimesOut, PollFails
<1>4. \A q \in Given : timeouts'[q] = timeouts[q] - ms
  BY <1>1, <1>3 DEF DecrementTimeouts
<1>5. ASSUME NEW q \in Given, timeouts'[q] < 0
      PROVE  timeouts[q] - timeouts'[q] > MinTimeout
  <2>1. /\ timeouts'[q] = timeouts[q] - ms /\ timeouts[q] \in Int /\ MinTimeout =< timeouts[q]
    BY <1>2, <1>4
  <2> QED
    BY <1>2, <1>5, <2>1
<1> QED
  BY <1>1, <1>5 DEF InTime

\* Every timeout the code sets is one of the configured ones.
LEMMA SetInTime ==
    ASSUME TypeOK, pc # "poll", pc' # "poll" \/ pc # "expire",
           NEW q \in Queries, NEW ms \in Nat, SetTimeout(q, ms),
           Given' = Given \/ Given' = Given \cup {q}
    PROVE  InTime
<1>1. SUFFICES ASSUME NEW p \in Given', timeouts'[p] < 0
               PROVE  p \in Given /\ timeouts[p] < 0
  BY DEF InTime
<1>2. timeouts'[q] = ms /\ \A r \in Queries \ {q} : timeouts'[r] = timeouts[r]
  BY DEF SetTimeout, TypeOK
<1>3. p # q
  BY <1>1, <1>2
<1>4. p \in Given /\ p \in Queries
  BY <1>1, <1>3, GivenAreQueries
<1> QED
  BY <1>1, <1>2, <1>3, <1>4

LEMMA HandlersInTime ==
    ASSUME ExchangeInv,
           \/ Connected \/ WritePart \/ VersionWritten \/ RequestWritten \/ ReadPart
           \/ VersionRead \/ HeaderRead \/ (BodyRead /\ StatusOK(CurrentQuery))
    PROVE  InTime
<1>1. /\ pc = "scan" /\ cursor \in Live /\ TypeOK /\ Given' = Given
  BY DEF Connected, WritePart, VersionWritten, RequestWritten, ReadPart, VersionRead,
         HeaderRead, BodyRead, Scanning, ExchangeInv, MachineInv, Idle, Given
<1>2. PICK q \in Given : q = CurrentQuery /\ q \in Queries
  BY <1>1, AtCursor
<1>3. \E ms \in {ReadTimeout, WriteTimeout, DisabledTimeout} : SetTimeout(q, ms)
  BY <1>2 DEF Connected, WritePart, VersionWritten, RequestWritten, ReadPart, VersionRead,
              HeaderRead, BodyRead, SetReadTimeout, SetWriteTimeout, DisableTimeout
<1>4. {ReadTimeout, WriteTimeout, DisabledTimeout} \subseteq Nat
  BY TimeAssumption
<1> QED
  BY <1>1, <1>2, <1>3, <1>4, SetInTime

\* Whoever connects a query gives it time, and a step of the pass over the
\* queries never is its end.
LEMMA ConnectsInTime ==
    ASSUME ExchangeInv, AddQuery \/ ConnectExpires \/ RetryExpires
    PROVE  InTime
<1>1. /\ TypeOK /\ Given \subseteq Queries /\ pc \in {"add", "expire"}
  BY GivenAreQueries DEF AddQuery, ConnectExpires, RetryExpires, ExchangeInv, MachineInv
<1>2. ConnectTimeout \in Nat /\ ConnectRetryWait \in Nat
  BY TimeAssumption
<1>3. pc = "expire" => pc' # "poll"
  BY DEF AddQuery, ConnectExpires, RetryExpires, SetupThrows, Register, Throw, Advance, Goto
<1>4. CASE AddQuery
  <2>1. known \in Queries /\ SetTimeout(known, ConnectTimeout) /\ Given' = Given \cup {known}
    BY <1>1, <1>4, NextIsQuery DEF AddQuery, SetConnectTimeout, Given
  <2> QED
    BY <1>1, <1>2, <1>3, <2>1, SetInTime
<1>5. CASE ConnectExpires
  <2>1. cursor \in Queries /\ SetTimeout(cursor, ConnectRetryWait) /\ Given' = Given
    BY <1>1, <1>5 DEF ConnectExpires, SetRetryWaitTimeout, Given
  <2> QED
    BY <1>1, <1>2, <1>3, <2>1, SetInTime
<1>6. CASE RetryExpires
  <2>1. cursor \in Queries /\ Given' = Given
        /\ (SetTimeout(cursor, ConnectTimeout) \/ UNCHANGED timeouts)
    BY <1>1, <1>6 DEF RetryExpires, SetConnectTimeout, Given
  <2>2. CASE SetTimeout(cursor, ConnectTimeout)
    BY <1>1, <1>2, <1>3, <2>1, <2>2, SetInTime
  <2>3. CASE UNCHANGED timeouts
    BY <1>3, <2>1, <2>3 DEF InTime
  <2> QED
    BY <2>1, <2>2, <2>3
<1> QED
  BY <1>4, <1>5, <1>6

LEMMA StepInTime ==
    ASSUME ExchangeInv, PassedInTime, Next
    PROVE  InTime
<1>1. CASE \/ Launch \/ SkipEntry \/ CallInterrupted \/ ScanEnds \/ SkipQuery \/ LaunchReturns
           \/ EntryThrows \/ OldVersionRead \/ ExpiryThrows \/ UnwindFd \/ Destroyed
           \/ (BodyRead /\ ~StatusOK(CurrentQuery)) \/ Terminated
  <2>1. UNCHANGED <<known, timeouts>> /\ (pc = "expire" => pc' # "poll")
    BY <1>1 DEF Launch, SkipEntry, CallInterrupted, ScanEnds, SkipQuery, LaunchReturns, AfterPoll,
                EntryThrows, OldVersionRead, ExpiryThrows, UnwindFd, Destroyed, BodyRead,
                Terminated, vars, control, Scanning, Advance, Goto, Throw, Idle
  <2> QED
    BY <2>1 DEF InTime, Given
<1>2. CASE ExpireEnds
  <2>1. /\ pc = "expire" /\ cursor >= known /\ UNCHANGED <<known, timeouts>>
        /\ known \in Nat /\ cursor \in Nat
    BY <1>2 DEF ExpireEnds, Idle, ExchangeInv, MachineInv, TypeOK
  <2>2. \A q \in Given : q < cursor
    BY <2>1 DEF Given
  <2>3. Given' = Given /\ \A q \in Given : timeouts[q] >= 0 /\ timeouts[q] \in Int
    BY <2>1, <2>2, GivenAreQueries DEF PassedInTime, Given, ExchangeInv, MachineInv, TypeOK
  <2> QED
    BY <2>1, <2>3 DEF InTime
<1> QED
  BY <1>1, <1>2, PollInTime, HandlersInTime, ConnectsInTime DEF Next, Code

\* The pass leaves none behind it: a query is due, and ends the pass or is given
\* time, or has time left.
LEMMA StepPasses ==
    ASSUME ExchangeInv, PassedInTime, Next
    PROVE  PassedInTime'
<1>1. /\ TypeOK /\ cursor \in Nat /\ \A q \in Given : q \in Nat /\ q \in Queries /\ timeouts[q] \in Int
  BY GivenAreQueries DEF ExchangeInv, MachineInv, TypeOK, Given
<1>2. CASE pc' # "expire"
  BY <1>2 DEF PassedInTime
<1>3. CASE PollTimesOut
  <2>1. cursor' = 0 /\ Given' = Given
    BY <1>3 DEF PollTimesOut, Goto, AfterPoll, Given
  <2> QED
    BY <1>1, <2>1 DEF PassedInTime
<1>4. CASE SkipQuery
  <2>1. /\ pc = "expire" /\ cursor' = cursor + 1 /\ Given' = Given /\ timeouts' = timeouts
        /\ cursor \in Given => ~(timeouts[cursor] =< 1)
    BY <1>4 DEF SkipQuery, Advance, Goto, Idle, Given, Due
  <2>2. ASSUME NEW q \in Given, q < cursor + 1
        PROVE  timeouts[q] >= 0
    <3>1. q < cursor \/ q = cursor
      BY <1>1, <2>2
    <3> QED
      BY <1>1, <2>1, <3>1 DEF PassedInTime
  <2> QED
    BY <2>1, <2>2 DEF PassedInTime
<1>5. CASE (ConnectExpires \/ RetryExpires) /\ pc' = "expire"
  <2>1. /\ pc = "expire" /\ cursor \in Given /\ cursor' = cursor + 1 /\ Given' = Given
    BY <1>5 DEF ConnectExpires, RetryExpires, SetupThrows, Register, Throw, Advance, Goto, Given
  <2>2. PICK ms \in Nat : SetTimeout(cursor, ms)
    <3>1. ConnectTimeout \in Nat /\ ConnectRetryWait \in Nat
      BY TimeAssumption
    <3> QED
      BY <1>5, <3>1 DEF ConnectExpires, RetryExpires, SetupThrows, Throw, SetRetryWaitTimeout,
                        SetConnectTimeout
  <2>3. /\ timeouts'[cursor] = ms
        /\ \A r \in Queries \ {cursor} : timeouts'[r] = timeouts[r]
    BY <1>1, <2>1, <2>2 DEF SetTimeout, TypeOK
  <2>4. ASSUME NEW q \in Given, q < cursor + 1
        PROVE  timeouts'[q] >= 0
    <3>1. CASE q = cursor
      BY <2>3, <3>1
    <3>2. CASE q # cursor
      <4>1. q < cursor /\ timeouts'[q] = timeouts[q]
        BY <1>1, <2>3, <2>4, <3>2
      <4> QED
        BY <2>1, <4>1 DEF PassedInTime
    <3> QED
      BY <3>1, <3>2
  <2> QED
    BY <2>1, <2>4 DEF PassedInTime
<1>6. CASE Terminated
  BY <1>6 DEF Terminated, vars, control, PassedInTime, Given
<1>7. \/ pc' # "expire" \/ PollTimesOut \/ SkipQuery \/ Terminated
      \/ (ConnectExpires \/ RetryExpires) /\ pc' = "expire"
  <2>1. CASE \/ AddQuery \/ Launch \/ LaunchReturns \/ PollReady \/ PollFails \/ ExpiryThrows
             \/ ExpireEnds \/ UnwindFd \/ Destroyed \/ ScanEnds
    BY <2>1 DEF AddQuery, SetupThrows, Register, Launch, LaunchReturns, PollReady, PollFails,
                ExpiryThrows, ExpireEnds, UnwindFd, Destroyed, ScanEnds, control, Goto, Advance,
                Throw
  <2>2. CASE \/ SkipEntry \/ EntryThrows \/ CallInterrupted \/ Connected \/ WritePart
             \/ VersionWritten \/ RequestWritten \/ ReadPart \/ VersionRead \/ OldVersionRead
             \/ HeaderRead \/ BodyRead
    BY <2>2 DEF SkipEntry, EntryThrows, CallInterrupted, Connected, WritePart, VersionWritten,
                RequestWritten, ReadPart, VersionRead, OldVersionRead, HeaderRead, BodyRead,
                Scanning, Goto, Advance, Throw
  <2> QED
    BY <2>1, <2>2 DEF Next, Code
<1> QED
  BY <1>2, <1>3, <1>4, <1>5, <1>6, <1>7

\* launch() comes to pass poll() a negative timeout, which poll() takes for none
\* at all, only after a poll() that returned late without having timed out, for
\* any number of queries, any timeouts and however much the clock runs over
\* (querymachine.cc:103-206, :669-681).
THEOREM PollsBounded == Spec => UnboundedPollOnlyWhenLate
<1>1. Init => PassedInTime
  BY DEF Init, PassedInTime
<1>2. ExchangeInv /\ PassedInTime /\ [Next]_vars => PassedInTime'
  <2>1. UNCHANGED vars /\ PassedInTime => PassedInTime'
    BY DEF vars, control, PassedInTime, Given
  <2> QED
    BY <2>1, StepPasses
<1>3. ExchangeInv /\ PassedInTime /\ [Next]_vars =>
        [\A q \in Given' :
           timeouts'[q] < 0 =>
              \/ pc = "poll" /\ timeouts[q] - timeouts'[q] > MinTimeout
              \/ q \in Given /\ timeouts[q] < 0 /\ ~(pc = "expire" /\ pc' = "poll")]_vars
  BY StepInTime DEF InTime
<1> QED
  BY <1>1, <1>2, <1>3, ExchangeInvariant, PTL DEF Spec, UnboundedPollOnlyWhenLate

=============================================================================
