------------------------ MODULE MultiQueryOptProofs ------------------------
(***************************************************************************)
(* Client_t::query(MultiQueryOpt_t) puts every answer where its query was  *)
(* added, for any number of queries, hashes and connections, whatever mix  *)
(* of addQuery(), optimise() and query() comes before.                     *)
(***************************************************************************)
EXTENDS MultiQueryOpt, DataFacts

-----------------------------------------------------------------------------
(* What the loop of optimise() computes *)

\* The starts are counted: every number of starts before a start below their
\* count occurs, and only once.
LEMMA StartsCounted ==
    ASSUME NEW s, Len(s) \in Nat
    PROVE  /\ Starts(s) \subseteq 0 .. Len(s) - 1
           /\ Cardinality(Starts(s)) \in 0 .. Len(s)
           /\ \A k \in Starts(s) :
                Cardinality(StartsBefore(s, k)) \in 0 .. Cardinality(Starts(s)) - 1
           /\ \A k, l \in Starts(s) :
                k < l => Cardinality(StartsBefore(s, k)) < Cardinality(StartsBefore(s, l))
           /\ \A c \in 0 .. Cardinality(Starts(s)) - 1 :
                \E k \in Starts(s) : Cardinality(StartsBefore(s, k)) = c
<1>1. Starts(s) \subseteq 0 .. Len(s) - 1 /\ Starts(s) \in SUBSET Int
  BY DEF Starts
<1>2. IsFiniteSet(Starts(s)) /\ Cardinality(Starts(s)) \in 0 .. Len(s)
  <2>1. IsFiniteSet(0 .. Len(s) - 1) /\ Cardinality(0 .. Len(s) - 1) = Len(s)
    BY BelowFinite
  <2>2. IsFiniteSet(Starts(s)) /\ Cardinality(Starts(s)) <= Len(s)
    BY <1>1, <2>1, FS_Subset
  <2> QED
    BY <2>2, FS_CardinalityType
<1>3. \A k \in Starts(s) : StartsBefore(s, k) = {l \in Starts(s) : l < k}
  BY DEF StartsBefore
<1> QED
  BY <1>1, <1>2, <1>3, CountedBelow

\* groupQueries after optimise(): the starts, each once, in increasing order.
LEMMA GroupStartsSorted ==
    ASSUME NEW s, Len(s) \in Nat
    PROVE  /\ GroupStarts(s) \in Seq(Starts(s))
           /\ Len(GroupStarts(s)) = Cardinality(Starts(s))
           /\ \A i, j \in 1 .. Len(GroupStarts(s)) :
                i < j => GroupStarts(s)[i] < GroupStarts(s)[j]
           /\ \A k \in Starts(s) :
                \E i \in 1 .. Len(GroupStarts(s)) : GroupStarts(s)[i] = k
<1> DEFINE C == Cardinality(Starts(s))
           num(k) == Cardinality(StartsBefore(s, k))
<1>1. C \in Nat /\ Starts(s) \subseteq Int
  BY StartsCounted
<1>2. GroupStarts(s) = [i \in 1 .. C |-> CHOOSE k \in Starts(s) : num(k) = i - 1]
  BY DEF GroupStarts
<1>3. \A i \in 1 .. C : GroupStarts(s)[i] \in Starts(s) /\ num(GroupStarts(s)[i]) = i - 1
  <2>1. \A i \in 1 .. C : \E k \in Starts(s) : num(k) = i - 1
    BY <1>1, StartsCounted
  <2> HIDE DEF C, num
  <2> QED
    BY <1>2, <2>1
<1>4. GroupStarts(s) \in Seq(Starts(s)) /\ Len(GroupStarts(s)) = C
  <2>1. GroupStarts(s) \in [1 .. C -> Starts(s)]
    <3> HIDE DEF C, num
    <3> QED
      BY <1>2, <1>3
  <2> QED
    BY <1>1, <2>1
<1>5. \A k, l \in Starts(s) : /\ num(k) \in 0 .. C - 1
                              /\ k < l => num(k) < num(l)
  BY StartsCounted
<1>6. \A i, j \in 1 .. C : i < j => GroupStarts(s)[i] < GroupStarts(s)[j]
  <2> SUFFICES ASSUME NEW i \in 1 .. C, NEW j \in 1 .. C, i < j,
                      NEW k \in Starts(s), GroupStarts(s)[i] = k,
                      NEW l \in Starts(s), GroupStarts(s)[j] = l
               PROVE  k < l
    BY <1>3
  <2> HIDE DEF num, C
  <2>1. num(k) = i - 1 /\ num(l) = j - 1
    BY <1>3
  <2>2. num(k) < num(l)
    BY <2>1, <1>1
  <2>3. ~(l < k) /\ l # k
    BY <2>1, <2>2, <1>1, <1>5
  <2> QED
    BY <1>1, <2>3
<1>7. ASSUME NEW k \in Starts(s)
      PROVE  \E i \in 1 .. C : GroupStarts(s)[i] = k
  <2>1. num(k) + 1 \in 1 .. C
    BY <1>1, <1>5
  <2>2. GroupStarts(s)[num(k) + 1] \in Starts(s) /\ num(GroupStarts(s)[num(k) + 1]) = num(k)
    <3> HIDE DEF num, C
    <3> QED
      BY <1>1, <1>3, <1>5, <2>1
  <2>3. GroupStarts(s)[num(k) + 1] = k
    <3> HIDE DEF num, C
    <3> QED
      BY <1>1, <1>5, <2>2
  <2> QED
    BY <2>1, <2>3
<1> QED
  BY <1>1, <1>4, <1>6, <1>7

-----------------------------------------------------------------------------
(* The object the caller builds *)

\* n places cut into groups at the starts in g, and where the i-th group ends.
IsCut(g, n) ==
    /\ g \in Seq(0 .. n - 1)
    /\ \A i, j \in 1 .. Len(g) : i < j => g[i] < g[j]
    /\ n > 0 => Len(g) > 0 /\ g[1] = 0
EndOf(g, n, i) == IF i = Len(g) THEN n ELSE g[i + 1]

\* The groups cut the places 0 .. QueryCount - 1 at increasing starts, the
\* first at 0; the sending order is a permutation of the queries and its own
\* response index.
ObjectInv ==
    /\ sourceQueries \in Seq(Hashes) /\ QueryCount <= MaxQueries
    /\ sortedQueries \in [1 .. QueryCount -> Seqs]
    /\ \A k, l \in 1 .. QueryCount : sortedQueries[k] = sortedQueries[l] => k = l
    /\ responseIndex = sortedQueries
    /\ groupQueries \in Seq(Seqs) /\ GroupQueryCount <= QueryCount
    /\ \A i, j \in 1 .. GroupQueryCount : i < j => groupQueries[i] < groupQueries[j]
    /\ QueryCount > 0 => GroupQueryCount > 0 /\ groupQueries[1] = 0

LEMMA ObjectSizes ==
    ASSUME ObjectInv
    PROVE  /\ QueryCount \in Nat /\ GroupQueryCount \in Nat
           /\ Len(sortedQueries) = QueryCount /\ sortedQueries \in Seq(Seqs)
<1>1. QueryCount \in Nat /\ GroupQueryCount \in Nat
  BY DEF ObjectInv, QueryCount, GroupQueryCount
<1>2. sortedQueries \in Seq(Seqs) /\ Len(sortedQueries) = QueryCount
  BY <1>1 DEF ObjectInv
<1> QED
  BY <1>1, <1>2

\* A piece of a sequence has the elements that stand at its places.
LEMMA PieceElements ==
    ASSUME NEW S, NEW s \in Seq(S), NEW a \in Nat, NEW b \in Nat, a <= b, b <= Len(s)
    PROVE  /\ SubSeq(s, a + 1, b) \in Seq(S) /\ Len(SubSeq(s, a + 1, b)) = b - a
           /\ \A k \in 1 .. b - a : SubSeq(s, a + 1, b)[k] = s[a + k]
<1> DEFINE m == a + 1
<1>1. m \in Int /\ \A k \in m .. b : s[k] \in S
  BY ElementOfSeq
<1>2. /\ (IF m <= b THEN b - m + 1 ELSE 0) = b - a /\ b - m + 1 = b - a
      /\ \A k \in 1 .. b - a : m + k - 1 = a + k
  OBVIOUS
<1> HIDE DEF m
<1>3. /\ SubSeq(s, m, b) \in Seq(S) /\ Len(SubSeq(s, m, b)) = b - a
      /\ \A k \in 1 .. b - a : SubSeq(s, m, b)[k] = s[m + k - 1]
  BY <1>1, <1>2, SubSeqProperties
<1> QED
  BY <1>2, <1>3 DEF m

\* Where group i ends: at the start of the next, or behind the last query.
GroupEnd(i) == IF i + 1 >= GroupQueryCount THEN QueryCount ELSE groupQueries[i + 2]

\* A group is not empty and its queries are those that stand at its places.
LEMMA GroupsCut ==
    ASSUME ObjectInv, NEW i \in 0 .. GroupQueryCount - 1
    PROVE  /\ GroupStart(i) \in Seqs /\ GroupStart(0) = 0
           /\ GroupStart(i) \in Nat /\ GroupEnd(i) \in Nat
           /\ GroupStart(i) < GroupEnd(i) /\ GroupEnd(i) <= QueryCount
           /\ GroupEnd(i) \in GroupStart(i) + 1 .. QueryCount
           /\ QueryCountAtGroup(i) = GroupEnd(i) - GroupStart(i)
           /\ Len(GroupQuery(i)) = QueryCountAtGroup(i)
           /\ GroupQuery(i) \in Seq(Seqs)
           /\ \A k \in 1 .. QueryCountAtGroup(i) :
                GroupQuery(i)[k] = sortedQueries[GroupStart(i) + k]
           /\ i + 1 < GroupQueryCount => GroupStart(i + 1) = GroupEnd(i)
<1>1. /\ QueryCount \in Nat /\ GroupQueryCount \in Nat
      /\ Len(sortedQueries) = QueryCount /\ sortedQueries \in Seq(Seqs)
  BY ObjectSizes
<1>2. /\ \A j \in 1 .. GroupQueryCount : groupQueries[j] \in Seqs
      /\ i + 1 \in 1 .. GroupQueryCount /\ QueryCount > 0
  BY <1>1 DEF ObjectInv, GroupQueryCount
<1>3. GroupStart(i) \in Seqs /\ GroupStart(0) = 0
  BY <1>1, <1>2 DEF GroupStart, ObjectInv
<1>4. GroupEnd(i) \in GroupStart(i) + 1 .. QueryCount
  <2>1. CASE i + 1 >= GroupQueryCount
    BY <1>1, <1>2, <2>1 DEF GroupEnd, GroupStart, Seqs
  <2>2. CASE i + 1 < GroupQueryCount
    <3>1. i + 2 \in 1 .. GroupQueryCount /\ i + 1 < i + 2
      BY <1>1, <2>2
    <3>2. groupQueries[i + 1] < groupQueries[i + 2]
      BY <1>2, <3>1 DEF ObjectInv
    <3> QED
      BY <1>1, <1>2, <2>2, <3>1, <3>2 DEF GroupEnd, GroupStart, Seqs
  <2> QED
    BY <1>1, <2>1, <2>2
<1>5. QueryCountAtGroup(i) = GroupEnd(i) - GroupStart(i)
  BY <1>1 DEF QueryCountAtGroup, GroupEnd, GroupStart
<1>6. /\ Len(GroupQuery(i)) = QueryCountAtGroup(i) /\ GroupQuery(i) \in Seq(Seqs)
      /\ \A k \in 1 .. QueryCountAtGroup(i) :
           GroupQuery(i)[k] = sortedQueries[GroupStart(i) + k]
  <2> PICK a \in Int, b \in Int : a = GroupStart(i) /\ b = GroupEnd(i)
    BY <1>3, <1>4 DEF Seqs
  <2>1. 0 <= a /\ a < b /\ b <= QueryCount /\ a + (b - a) = b /\ a + 1 \in Int
    BY <1>1, <1>3, <1>4 DEF Seqs
  <2>2. GroupQuery(i) = SubSeq(sortedQueries, a + 1, b)
    BY <1>5, <2>1 DEF GroupQuery
  <2> HIDE DEF GroupQuery
  <2>3. a \in Nat /\ b \in Nat /\ a <= b /\ b <= Len(sortedQueries)
    BY <1>1, <2>1
  <2>4. /\ GroupQuery(i) \in Seq(Seqs) /\ Len(GroupQuery(i)) = b - a
        /\ \A k \in 1 .. b - a : GroupQuery(i)[k] = sortedQueries[a + k]
    <3>1. sortedQueries \in Seq(Seqs)
      BY <1>1
    <3>2. /\ SubSeq(sortedQueries, a + 1, b) \in Seq(Seqs)
          /\ Len(SubSeq(sortedQueries, a + 1, b)) = b - a
          /\ \A k \in 1 .. b - a : SubSeq(sortedQueries, a + 1, b)[k] = sortedQueries[a + k]
      BY <2>3, <3>1, PieceElements
    <3> QED
      BY <2>2, <3>2
  <2> QED
    BY <1>5, <2>4
<1>7. i + 1 < GroupQueryCount => GroupStart(i + 1) = GroupEnd(i)
  BY <1>1 DEF GroupStart, GroupEnd
<1>8. /\ GroupStart(i) \in Nat /\ GroupEnd(i) \in Nat
      /\ GroupStart(i) < GroupEnd(i) /\ GroupEnd(i) <= QueryCount
  BY <1>1, <1>3, <1>4 DEF Seqs
<1> QED
  BY <1>3, <1>4, <1>5, <1>6, <1>7, <1>8

LEMMA AddKeepsObject ==
    ASSUME ObjectInv, NEW hash \in Hashes, AddQuery(hash)
    PROVE  ObjectInv'
<1>1. /\ QueryCount \in Nat /\ GroupQueryCount \in Nat /\ MaxQueries \in Nat
      /\ Len(sortedQueries) = QueryCount /\ sortedQueries \in Seq(Seqs)
  BY ObjectSizes, OptAssumption
<1>2. /\ sourceQueries' \in Seq(Hashes) /\ Len(sourceQueries') = QueryCount + 1
      /\ QueryCount + 1 <= MaxQueries
  BY <1>1 DEF AddQuery, ObjectInv, QueryCount
<1>3. Seqs' = 0 .. QueryCount /\ QueryCount' = QueryCount + 1
  BY <1>1, <1>2 DEF Seqs, QueryCount
<1>4. PICK n \in Nat : n = QueryCount
  BY <1>1
<1>5. /\ sortedQueries' \in Seq(0 .. n) /\ Len(sortedQueries') = n + 1
      /\ \A k \in 1 .. n : sortedQueries'[k] = sortedQueries[k]
      /\ sortedQueries'[n + 1] = n
  <2>1. sortedQueries' = Append(sortedQueries, n) /\ n \in 0 .. n
    BY <1>4 DEF AddQuery
  <2>2. sortedQueries \in Seq(0 .. n)
    <3>1. Seqs \subseteq 0 .. n
      BY <1>4 DEF Seqs
    <3> QED
      BY <1>1, <3>1, SeqMonotonic
  <2> QED
    BY <1>1, <1>4, <2>1, <2>2, AppendProperties
<1>6. /\ sortedQueries' \in [1 .. n + 1 -> 0 .. n]
      /\ \A k, l \in 1 .. n + 1 : sortedQueries'[k] = sortedQueries'[l] => k = l
  <2>1. /\ \A k \in 1 .. n : sortedQueries[k] \in 0 .. n - 1
        /\ \A k, l \in 1 .. n : sortedQueries[k] = sortedQueries[l] => k = l
    BY <1>4 DEF ObjectInv, Seqs
  <2>2. \A k \in 1 .. n + 1 : k = n + 1 \/ k \in 1 .. n
    OBVIOUS
  <2>3. sortedQueries' \in [1 .. n + 1 -> 0 .. n]
    BY <1>5
  <2> QED
    BY <1>5, <2>1, <2>2, <2>3
<1>7. responseIndex' = sortedQueries'
  BY DEF AddQuery, ObjectInv
<1>8. /\ groupQueries' \in Seq(0 .. n) /\ Len(groupQueries') \in 1 .. n + 1
      /\ groupQueries'[1] = 0
      /\ \A i, j \in 1 .. Len(groupQueries') : i < j => groupQueries'[i] < groupQueries'[j]
  <2>1. groupQueries \in Seq(0 .. n - 1) /\ Len(groupQueries) = GroupQueryCount
    BY <1>4 DEF ObjectInv, Seqs, GroupQueryCount
  <2>2. CASE GroupQueryCount = 0
    <3>1. groupQueries = <<>>
      BY <2>1, <2>2
    <3>2. groupQueries' = <<0>>
      BY <3>1 DEF AddQuery
    <3> QED
      BY <3>2
  <2>3. CASE GroupQueryCount > 0
    <3>1. n > 0 /\ groupQueries[1] = 0 /\ groupQueries # <<>>
      BY <1>1, <1>4, <2>1, <2>3 DEF ObjectInv
    <3>2. groupQueries' = groupQueries
      BY <3>1, <2>1, <2>3 DEF AddQuery
    <3>3. groupQueries \in Seq(0 .. n)
      <4>1. 0 .. n - 1 \subseteq 0 .. n
        OBVIOUS
      <4> QED
        BY <4>1, <2>1
    <3> QED
      BY <1>1, <1>4, <2>1, <2>3, <3>1, <3>2, <3>3 DEF ObjectInv
  <2> QED
    BY <1>1, <2>2, <2>3
<1> QED
  BY <1>1, <1>2, <1>3, <1>4, <1>6, <1>7, <1>8 DEF ObjectInv, QueryCount, GroupQueryCount

\* What std::sort and the loop behind it leave, for any order std::sort picks.
LEMMA SortedOrder ==
    ASSUME ObjectInv, NEW s \in SortedByHash
    PROVE  /\ s \in [1 .. QueryCount -> Seqs] /\ Len(s) = QueryCount /\ s \in Seq(Seqs)
           /\ \A k, l \in 1 .. QueryCount : s[k] = s[l] => k = l
           /\ \A k, l \in 1 .. QueryCount : k < l => HashOf(s[k]) <= HashOf(s[l])
           /\ IsCut(GroupStarts(s), QueryCount) /\ Len(GroupStarts(s)) \in 0 .. QueryCount
           /\ \A i \in 1 .. Len(GroupStarts(s)) : GroupStarts(s)[i] \in Starts(s)
           /\ \A k \in Starts(s) : \E i \in 1 .. Len(GroupStarts(s)) : GroupStarts(s)[i] = k
<1> DEFINE g == GroupStarts(s)
<1>1. QueryCount \in Nat
  BY ObjectSizes
<1>2. /\ s \in [1 .. QueryCount -> Seqs] /\ Len(s) = QueryCount /\ s \in Seq(Seqs)
      /\ \A k, l \in 1 .. QueryCount : s[k] = s[l] => k = l
      /\ \A k, l \in 1 .. QueryCount : k < l => HashOf(s[k]) <= HashOf(s[l])
  <2>1. /\ s \in [1 .. QueryCount -> 0 .. QueryCount - 1]
        /\ \A k, l \in 1 .. QueryCount : k < l => s[k] # s[l]
        /\ \A k, l \in 1 .. QueryCount : k < l => HashOf(s[k]) <= HashOf(s[l])
    BY DEF SortedByHash
  <2>2. Len(s) = QueryCount /\ s \in Seq(0 .. QueryCount - 1)
    BY <1>1, <2>1
  <2>3. \A k, l \in 1 .. QueryCount : s[k] = s[l] => k = l
    BY <1>1, <2>1
  <2> QED
    BY <2>1, <2>2, <2>3 DEF Seqs
<1>3. /\ g \in Seq(Starts(s)) /\ Len(g) = Cardinality(Starts(s))
      /\ \A i, j \in 1 .. Len(g) : i < j => g[i] < g[j]
      /\ \A k \in Starts(s) : \E i \in 1 .. Len(g) : g[i] = k
  BY <1>1, <1>2, GroupStartsSorted
<1> HIDE DEF g
<1>4. Starts(s) \subseteq 0 .. QueryCount - 1 /\ Cardinality(Starts(s)) \in 0 .. QueryCount
  BY <1>1, <1>2, StartsCounted
<1>5. /\ g \in Seq(0 .. QueryCount - 1)
      /\ \A i \in 1 .. Len(g) : g[i] \in Starts(s) /\ g[i] \in 0 .. QueryCount - 1
  <2>1. \A i \in 1 .. Len(g) : g[i] \in Starts(s)
    BY <1>3, ElementOfSeq
  <2>2. g \in Seq(0 .. QueryCount - 1)
    BY <1>3, <1>4, SeqMonotonic
  <2> QED
    BY <1>4, <2>1, <2>2
<1>6. ASSUME QueryCount > 0
      PROVE  Len(g) > 0 /\ g[1] = 0
  <2>1. 0 \in Starts(s)
    BY <1>1, <1>2, <1>6 DEF Starts, StartsGroup
  <2>2. PICK i \in 1 .. Len(g) : g[i] = 0
    BY <1>3, <2>1
  <2>3. Len(g) \in Nat /\ 1 \in 1 .. Len(g)
    BY <1>3, <1>4, <2>2
  <2>4. g[1] \in Nat
    BY <1>5, <2>3, <1>1
  <2>5. ~(1 < i)
    BY <1>3, <2>2, <2>3, <2>4
  <2> QED
    BY <2>2, <2>3, <2>5
<1>7. IsCut(g, QueryCount) /\ Len(g) \in 0 .. QueryCount
  BY <1>3, <1>4, <1>5, <1>6 DEF IsCut
<1> QED
  BY <1>2, <1>3, <1>5, <1>7 DEF g

LEMMA OptimiseKeepsObject ==
    ASSUME ObjectInv, Optimise
    PROVE  ObjectInv'
<1>1. QueryCount \in Nat /\ QueryCount' = QueryCount /\ Seqs' = Seqs
  BY ObjectSizes DEF Optimise, QueryCount, Seqs
<1>2. PICK s \in SortedByHash :
        sortedQueries' = s /\ responseIndex' = s /\ groupQueries' = GroupStarts(s)
  BY DEF Optimise, ResponseIndexOf
<1>3. /\ s \in [1 .. QueryCount -> Seqs]
      /\ \A k, l \in 1 .. QueryCount : s[k] = s[l] => k = l
      /\ IsCut(groupQueries', QueryCount) /\ Len(groupQueries') \in 0 .. QueryCount
  BY <1>2, SortedOrder
<1> QED
  BY <1>1, <1>2, <1>3 DEF ObjectInv, QueryCount, GroupQueryCount, Optimise, IsCut, Seqs

-----------------------------------------------------------------------------
(* A call of query() *)

Answers == [answers : Nat, kind : Kinds]
Phases == {"idle", "submit", "launch", "parse", "returned"}
Outcomes == {"none", "running", "ok", "Warning", "MessageError"} \cup MachineErrors

CallTypes ==
    /\ pc \in Phases
    /\ group \in 0 .. MaxQueries /\ sub \in 0 .. MaxQueries /\ seqNo \in 0 .. MaxQueries
    /\ lastQueryWarning \in BOOLEAN
    /\ requests \in Seq(Seq(Nat)) /\ data \in Seq(Seq(Answers))
    /\ Len(requests) = Len(data)
    /\ response \in Seq({Empty} \cup 0 .. MaxQueries - 1)
    /\ outcome \in Outcomes

\* What response r still holds: the answers of the queries from place p up to
\* the end of the group.
Holds(r, p) ==
    /\ Len(data[r + 1]) = GroupEnd(r) - p
    /\ \A k \in 1 .. GroupEnd(r) - p : data[r + 1][k].answers = sortedQueries[p + k]

\* The answers of the first p places are where their queries were added.
Filled(p) ==
    /\ Len(response) = QueryCount
    /\ \A k \in 1 .. p : response[sortedQueries[k] + 1] = sortedQueries[k]

SubmitInv ==
    pc = "submit" =>
        /\ GroupQueryCount > 0 /\ group <= GroupQueryCount
        /\ known = group /\ Len(requests) = group
        /\ \A r \in 0 .. group - 1 : requests[r + 1] = GroupQuery(r)
        /\ answered = {} /\ result = "running" /\ outcome = "running"

LaunchInv ==
    pc = "launch" =>
        /\ GroupQueryCount > 0 /\ known = GroupQueryCount /\ Len(requests) = GroupQueryCount
        /\ \A r \in 0 .. GroupQueryCount - 1 : requests[r + 1] = GroupQuery(r)
        /\ \A r \in answered : r \in 0 .. GroupQueryCount - 1 /\ Holds(r, GroupStart(r))
        /\ outcome = "running"

ParseInv ==
    pc = "parse" =>
        /\ GroupQueryCount > 0 /\ group <= GroupQueryCount /\ Len(data) = GroupQueryCount
        /\ group < GroupQueryCount =>
             /\ seqNo = GroupStart(group) + sub /\ seqNo <= GroupEnd(group)
             /\ Holds(group, seqNo)
        /\ group = GroupQueryCount => seqNo = QueryCount
        /\ \A r \in group + 1 .. GroupQueryCount - 1 : Holds(r, GroupStart(r))
        /\ Filled(seqNo)
        /\ outcome = "running"

ReturnInv ==
    pc = "returned" =>
        /\ outcome = "ok" => Filled(QueryCount)
        /\ outcome = "Warning" => group < GroupQueryCount /\ Filled(GroupEnd(group))

\* Every step of a call keeps the answers with their queries: the machine gets
\* one request per group, a response holds the answers of its group in sending
\* order, and seqNo runs through the places as the responses are used up.
CallInv ==
    /\ CallTypes /\ SubmitInv /\ LaunchInv /\ ParseInv /\ ReturnInv
    /\ AnswersAtTheirQueries

\* While the object stays as it is, so does everything read from it.
LEMMA ObjectStays ==
    ASSUME UNCHANGED object
    PROVE  /\ QueryCount' = QueryCount /\ GroupQueryCount' = GroupQueryCount
           /\ \A i : /\ GroupStart(i)' = GroupStart(i) /\ GroupEnd(i)' = GroupEnd(i)
                     /\ GroupQuery(i)' = GroupQuery(i)
                     /\ QueryCountAtGroup(i)' = QueryCountAtGroup(i)
           /\ ObjectInv' = ObjectInv
BY DEF object, QueryCount, GroupQueryCount, GroupStart, GroupEnd, GroupQuery, QueryCountAtGroup,
       ObjectInv, Seqs

\* The caller edits the object between calls.
LEMMA EditKeepsCall ==
    ASSUME CallInv, Edit
    PROVE  CallInv'
<1>1. /\ pc' = "idle" /\ outcome' = "none" /\ response' = response
      /\ requests' = <<>> /\ data' = <<>>
  BY DEF Edit, FreshLocals
<1>2. CallTypes'
  <2>1. group' = 0 /\ sub' = 0 /\ seqNo' = 0 /\ lastQueryWarning' = FALSE /\ MaxQueries \in Nat
    BY OptAssumption DEF Edit, FreshLocals
  <2>2. <<>> \in Seq(Seq(Nat)) /\ <<>> \in Seq(Seq(Answers))
    BY EmptySeq
  <2>3. pc' \in Phases /\ outcome' \in Outcomes
    BY <1>1, <2>1 DEF Phases, Outcomes
  <2>4. group' \in 0 .. MaxQueries /\ sub' \in 0 .. MaxQueries /\ seqNo' \in 0 .. MaxQueries
    BY <1>1, <2>1
  <2>5. lastQueryWarning' \in BOOLEAN
    BY <2>1
  <2> QED
    BY <1>1, <2>2, <2>3, <2>4, <2>5 DEF CallInv, CallTypes
<1>3. AnswersAtTheirQueries'
  BY <1>1 DEF CallInv, AnswersAtTheirQueries
<1> QED
  BY <1>1, <1>2, <1>3 DEF CallInv, SubmitInv, LaunchInv, ParseInv, ReturnInv

LEMMA QueryKeepsCall ==
    ASSUME ObjectInv, CallInv, Query
    PROVE  CallInv'
<1>1. /\ response' = response /\ requests' = <<>> /\ data' = <<>> /\ group' = 0
      /\ known' = 0 /\ answered' = {} /\ result' = "running"
      /\ \/ pc' = "returned" /\ outcome' = "ClientUsageError"
         \/ GroupQueryCount # 0 /\ pc' = "submit" /\ outcome' = "running"
  BY DEF Query, FreshLocals, Return
<1>2. CallTypes'
  <2>1. sub' = 0 /\ seqNo' = 0 /\ lastQueryWarning' = FALSE /\ MaxQueries \in Nat
        /\ "ClientUsageError" \in MachineErrors
    BY OptAssumption DEF Query, FreshLocals
  <2>2. <<>> \in Seq(Seq(Nat)) /\ <<>> \in Seq(Seq(Answers))
    BY EmptySeq
  <2>3. pc' \in Phases /\ outcome' \in Outcomes
    BY <1>1, <2>1 DEF Phases, Outcomes
  <2>4. group' \in 0 .. MaxQueries /\ sub' \in 0 .. MaxQueries /\ seqNo' \in 0 .. MaxQueries
    BY <1>1, <2>1
  <2>5. lastQueryWarning' \in BOOLEAN
    BY <2>1
  <2> QED
    BY <1>1, <2>2, <2>3, <2>4, <2>5 DEF CallInv, CallTypes
<1>3. AnswersAtTheirQueries'
  BY <1>1 DEF CallInv, AnswersAtTheirQueries
<1>4. SubmitInv'
  <2>1. GroupQueryCount' = GroupQueryCount /\ GroupQueryCount \in Nat
    BY ObjectSizes, ObjectStays DEF Query
  <2> QED
    BY <1>1, <2>1 DEF SubmitInv
<1> QED
  BY <1>1, <1>2, <1>3, <1>4 DEF CallInv, LaunchInv, ParseInv, ReturnInv

LEMMA SubmitKeepsCall ==
    ASSUME ObjectInv, CallInv, SubmitGroup
    PROVE  CallInv'
<1>1. /\ pc = "submit" /\ group < GroupQueryCount /\ known = group /\ Len(requests) = group
      /\ \A r \in 0 .. group - 1 : requests[r + 1] = GroupQuery(r)
      /\ answered = {} /\ outcome = "running"
      /\ group \in Nat /\ GroupQueryCount \in Nat /\ QueryCount \in Nat
  BY ObjectSizes, OptAssumption DEF SubmitGroup, CallInv, SubmitInv, CallTypes
<1>2. /\ UNCHANGED <<object, response, sub, seqNo, lastQueryWarning>>
      /\ requests' = Append(requests, GroupQuery(group)) /\ data' = Append(data, <<>>)
      /\ known' = known + 1 /\ answered' = answered
      /\ \/ result' = "running" /\ group' = group + 1 /\ UNCHANGED <<pc, outcome>>
         \/ result' \in MachineErrors /\ group' = group /\ pc' = "returned" /\ outcome' = result'
  BY DEF SubmitGroup, Machine!Submit, Return
<1>3. GroupQuery(group) \in Seq(Nat)
  <2>1. GroupQuery(group) \in Seq(Seqs) /\ Seqs \subseteq Nat
    BY <1>1, GroupsCut DEF Seqs
  <2> QED
    BY <2>1, SeqMonotonic
<1>4. /\ requests' \in Seq(Seq(Nat)) /\ Len(requests') = group + 1
      /\ requests'[group + 1] = GroupQuery(group)
      /\ \A r \in 0 .. group - 1 : requests'[r + 1] = requests[r + 1]
  <2>1. requests \in Seq(Seq(Nat))
    BY DEF CallInv, CallTypes
  <2>2. /\ requests' \in Seq(Seq(Nat)) /\ Len(requests') = group + 1
        /\ \A k \in 1 .. group : requests'[k] = requests[k]
        /\ requests'[group + 1] = GroupQuery(group)
    BY <1>1, <1>2, <1>3, <2>1, AppendProperties
  <2> QED
    BY <1>1, <2>2
<1>5. data' \in Seq(Seq(Answers)) /\ Len(data') = group + 1
  <2>1. data \in Seq(Seq(Answers)) /\ Len(data) = group /\ <<>> \in Seq(Answers)
    BY <1>1 DEF CallInv, CallTypes
  <2> QED
    BY <1>2, <2>1, AppendProperties
<1>6. CallTypes'
  <2>1. group' \in 0 .. MaxQueries
    BY <1>1, <1>2, OptAssumption DEF ObjectInv
  <2> QED
    BY <1>1, <1>2, <1>4, <1>5, <2>1 DEF CallInv, CallTypes, Phases, Outcomes
<1>7. AnswersAtTheirQueries'
  BY <1>2 DEF CallInv, AnswersAtTheirQueries
<1>8. SubmitInv'
  <2> SUFFICES ASSUME pc' = "submit"
               PROVE  SubmitInv'
    BY DEF SubmitInv
  <2>1. /\ result' = "running" /\ group' = group + 1 /\ outcome' = "running"
        /\ GroupQueryCount' = GroupQueryCount /\ \A r : GroupQuery(r)' = GroupQuery(r)
    BY <1>1, <1>2, ObjectStays
  <2>2. \A r \in 0 .. group' - 1 : requests'[r + 1] = GroupQuery(r)
    <3>1. \A r \in 0 .. group' - 1 : r = group \/ r \in 0 .. group - 1
      BY <1>1, <2>1
    <3> QED
      BY <1>1, <1>4, <3>1
  <2> QED
    BY <1>1, <1>2, <1>4, <2>1, <2>2 DEF SubmitInv
<1>9. ReturnInv'
  BY <1>1, <1>2, OptAssumption DEF ReturnInv
<1> QED
  BY <1>1, <1>2, <1>6, <1>7, <1>8, <1>9 DEF CallInv, LaunchInv, ParseInv

LEMMA LaunchKeepsCall ==
    ASSUME ObjectInv, CallInv, Launch
    PROVE  CallInv'
<1>1. /\ pc = "submit" /\ group = GroupQueryCount /\ pc' = "launch"
      /\ UNCHANGED <<object, parsing, requests, data, response, outcome, machine>>
  BY DEF Launch
<1>2. CallTypes' /\ AnswersAtTheirQueries'
  BY <1>1 DEF CallInv, CallTypes, AnswersAtTheirQueries, Phases, Outcomes, parsing
<1>3. LaunchInv'
  BY <1>1, ObjectStays DEF CallInv, SubmitInv, LaunchInv, parsing, machine
<1> QED
  BY <1>1, <1>2, <1>3 DEF CallInv, SubmitInv, ParseInv, ReturnInv

LEMMA ThrowKeepsCall ==
    ASSUME CallInv, LaunchThrows
    PROVE  CallInv'
<1>1. /\ pc' = "returned" /\ outcome' \in MachineErrors
      /\ UNCHANGED <<parsing, requests, data, response>>
  BY DEF LaunchThrows, Machine!Fail, Return
<1>2. CallTypes' /\ AnswersAtTheirQueries'
  BY <1>1 DEF CallInv, CallTypes, AnswersAtTheirQueries, Phases, Outcomes, parsing
<1>3. ReturnInv'
  BY <1>1, OptAssumption DEF ReturnInv
<1> QED
  BY <1>1, <1>2, <1>3 DEF CallInv, SubmitInv, LaunchInv, ParseInv

LEMMA ArrivalKeepsCall ==
    ASSUME ObjectInv, CallInv, NEW q \in 0 .. known - 1, ResponseArrives(q)
    PROVE  CallInv'
<1>1. /\ pc = "launch" /\ pc' = "launch"
      /\ UNCHANGED <<object, parsing, requests, response, outcome>>
      /\ known' = known /\ answered' = answered \cup {q}
  BY DEF ResponseArrives, Machine!Answer
<1>2. PICK kinds \in [1 .. Len(requests[q + 1]) -> Kinds] :
        data' = [data EXCEPT ![q + 1] =
                   [k \in DOMAIN kinds |->
                       [answers |-> requests[q + 1][k], kind |-> kinds[k]]]]
  BY DEF ResponseArrives
<1>3. /\ GroupQueryCount \in Nat /\ q \in 0 .. GroupQueryCount - 1
      /\ Len(requests) = GroupQueryCount /\ Len(data) = GroupQueryCount
      /\ requests[q + 1] = GroupQuery(q) /\ data \in Seq(Seq(Answers))
  BY <1>1, ObjectSizes DEF CallInv, LaunchInv, CallTypes
<1>4. PICK n \in Nat :
        /\ n = GroupEnd(q) - GroupStart(q) /\ Len(requests[q + 1]) = n
        /\ \A k \in 1 .. n : /\ requests[q + 1][k] = sortedQueries[GroupStart(q) + k]
                             /\ requests[q + 1][k] \in Nat
  <2>1. GroupEnd(q) - GroupStart(q) \in Nat
    BY <1>3, GroupsCut, ObjectSizes DEF Seqs
  <2>2. /\ GroupQuery(q) \in Seq(Seqs)
        /\ Len(GroupQuery(q)) = GroupEnd(q) - GroupStart(q)
        /\ \A k \in 1 .. GroupEnd(q) - GroupStart(q) :
             GroupQuery(q)[k] = sortedQueries[GroupStart(q) + k]
    BY <1>3, GroupsCut
  <2>3. \A k \in 1 .. GroupEnd(q) - GroupStart(q) : GroupQuery(q)[k] \in Nat
    <3>1. \A k \in 1 .. GroupEnd(q) - GroupStart(q) : GroupQuery(q)[k] \in Seqs
      BY <2>2, ElementOfSeq
    <3> QED
      BY <3>1 DEF Seqs
  <2> QED
    BY <1>3, <2>1, <2>2, <2>3
<1> DEFINE arrived == [k \in DOMAIN kinds |->
                          [answers |-> requests[q + 1][k], kind |-> kinds[k]]]
<1>5. /\ arrived \in Seq(Answers) /\ Len(arrived) = n
      /\ \A k \in 1 .. n : arrived[k].answers = sortedQueries[GroupStart(q) + k]
  <2>1. DOMAIN kinds = 1 .. n /\ \A k \in 1 .. n : kinds[k] \in Kinds
    BY <1>4
  <2>2. arrived = [k \in 1 .. n |-> [answers |-> requests[q + 1][k], kind |-> kinds[k]]]
    BY <2>1
  <2>3. \A k \in 1 .. n : [answers |-> requests[q + 1][k], kind |-> kinds[k]] \in Answers
    BY <1>4, <2>1 DEF Answers
  <2>4. arrived \in [1 .. n -> Answers]
    BY <2>2, <2>3
  <2>5. arrived \in Seq(Answers) /\ Len(arrived) = n
    <3> HIDE DEF arrived
    <3> QED
      BY <2>4
  <2>6. \A k \in 1 .. n : arrived[k].answers = requests[q + 1][k]
    BY <2>2
  <2> QED
    BY <1>4, <2>5, <2>6
<1>6. /\ data' \in Seq(Seq(Answers)) /\ Len(data') = Len(data) /\ data'[q + 1] = arrived
      /\ \A r \in 0 .. GroupQueryCount - 1 : r # q => data'[r + 1] = data[r + 1]
  <2>1. data' = [data EXCEPT ![q + 1] = arrived] /\ q + 1 \in 1 .. Len(data)
    BY <1>2, <1>3
  <2> HIDE DEF arrived
  <2> QED
    BY <1>3, <1>5, <2>1
<1>7. CallTypes' /\ AnswersAtTheirQueries'
  BY <1>1, <1>6 DEF CallInv, CallTypes, AnswersAtTheirQueries, Phases, Outcomes, parsing
<1>8. LaunchInv'
  <2>1. /\ GroupQueryCount' = GroupQueryCount /\ sortedQueries' = sortedQueries
        /\ \A r : /\ GroupStart(r)' = GroupStart(r) /\ GroupEnd(r)' = GroupEnd(r)
                  /\ GroupQuery(r)' = GroupQuery(r)
    BY <1>1, ObjectStays DEF object
  <2>2. ASSUME NEW r \in answered'
        PROVE  r \in 0 .. GroupQueryCount - 1 /\ Holds(r, GroupStart(r))'
    <3>1. CASE r = q
      <4> HIDE DEF arrived
      <4> QED
        BY <1>3, <1>4, <1>5, <1>6, <2>1, <3>1 DEF Holds
    <3>2. CASE r # q
      <4>1. r \in 0 .. GroupQueryCount - 1 /\ Holds(r, GroupStart(r))
        BY <1>1, <3>2 DEF CallInv, LaunchInv
      <4> HIDE DEF arrived
      <4> QED
        BY <4>1, <1>6, <2>1, <3>2 DEF Holds
    <3> QED
      BY <3>1, <3>2
  <2> QED
    BY <1>1, <1>3, <2>1, <2>2 DEF CallInv, LaunchInv
<1> QED
  BY <1>1, <1>7, <1>8 DEF CallInv, SubmitInv, ParseInv, ReturnInv

LEMMA LaunchReturnsKeepsCall ==
    ASSUME ObjectInv, CallInv, LaunchReturns
    PROVE  CallInv'
<1>1. /\ pc = "launch" /\ pc' = "parse" /\ answered = 0 .. known - 1
      /\ response' = [k \in 1 .. QueryCount |-> Empty]
      /\ group' = 0 /\ sub' = 0 /\ seqNo' = 0 /\ lastQueryWarning' = FALSE
      /\ UNCHANGED <<object, requests, data, outcome>>
  BY DEF LaunchReturns, Machine!Succeed
<1>2. /\ QueryCount \in Nat /\ GroupQueryCount \in Nat /\ 0 \in 0 .. GroupQueryCount - 1
      /\ Len(data) = GroupQueryCount /\ outcome = "running" /\ MaxQueries \in Nat
      /\ \A r \in 0 .. GroupQueryCount - 1 : Holds(r, GroupStart(r))
  BY <1>1, ObjectSizes, OptAssumption DEF CallInv, LaunchInv, CallTypes
<1>3. response' \in Seq({Empty} \cup 0 .. MaxQueries - 1) /\ Len(response') = QueryCount
  BY <1>1, <1>2
<1>4. CallTypes'
  <2>1. pc' \in Phases /\ 0 \in 0 .. MaxQueries /\ FALSE \in BOOLEAN
    BY <1>1, <1>2 DEF Phases
  <2> QED
    BY <1>1, <1>3, <2>1 DEF CallInv, CallTypes, Outcomes
<1>5. AnswersAtTheirQueries'
  BY <1>1 DEF AnswersAtTheirQueries
<1>6. ParseInv'
  <2>1. /\ GroupQueryCount' = GroupQueryCount /\ QueryCount' = QueryCount
        /\ sortedQueries' = sortedQueries /\ data' = data
        /\ \A r : GroupStart(r)' = GroupStart(r) /\ GroupEnd(r)' = GroupEnd(r)
    BY <1>1, ObjectStays DEF object
  <2>2. \A r \in 0 .. GroupQueryCount - 1 : Holds(r, GroupStart(r))'
    BY <1>2, <2>1 DEF Holds
  <2>3. GroupStart(0) = 0 /\ 0 <= GroupEnd(0)
    BY <1>2, GroupsCut
  <2>4. Filled(0)'
    BY <1>3, <2>1 DEF Filled
  <2>5. Holds(group, seqNo)'
    BY <1>1, <1>2, <2>1, <2>2, <2>3 DEF Holds
  <2>6. Filled(seqNo)'
    BY <1>1, <2>4 DEF Filled
  <2> QED
    BY <1>1, <1>2, <2>1, <2>2, <2>3, <2>5, <2>6 DEF ParseInv
<1> QED
  BY <1>1, <1>4, <1>5, <1>6 DEF CallInv, SubmitInv, LaunchInv, ReturnInv

LEMMA ParseKeepsCall ==
    ASSUME ObjectInv, CallInv, ParseAnswer
    PROVE  CallInv'
<1>1. /\ pc = "parse" /\ group < GroupQueryCount /\ sub # QueryCountAtGroup(group)
      /\ UNCHANGED <<object, requests, machine>>
  BY DEF ParseAnswer, GroupParsed
<1>2. /\ GroupQueryCount \in Nat /\ QueryCount \in Nat /\ MaxQueries \in Nat
      /\ group \in 0 .. GroupQueryCount - 1 /\ sub \in Nat /\ seqNo \in Nat
      /\ Len(data) = GroupQueryCount /\ data \in Seq(Seq(Answers))
      /\ seqNo = GroupStart(group) + sub /\ seqNo <= GroupEnd(group)
      /\ Holds(group, seqNo) /\ Filled(seqNo)
      /\ outcome = "running"
      /\ \A r \in group + 1 .. GroupQueryCount - 1 : Holds(r, GroupStart(r))
  BY <1>1, ObjectSizes, OptAssumption DEF CallInv, ParseInv, CallTypes
<1>3. PICK e \in 1 .. QueryCount : e = GroupEnd(group) /\ seqNo < e /\ sub < e
  <2>1. /\ GroupEnd(group) \in 1 .. QueryCount /\ GroupStart(group) \in Nat
        /\ QueryCountAtGroup(group) = GroupEnd(group) - GroupStart(group)
    BY <1>2, GroupsCut
  <2> QED
    BY <1>1, <1>2, <2>1
<1> DEFINE rest == data[group + 1]
<1>4. /\ rest \in Seq(Answers) /\ rest # <<>> /\ Len(rest) = e - seqNo
      /\ \A k \in 1 .. e - seqNo : rest[k].answers = sortedQueries[seqNo + k]
  BY <1>2, <1>3 DEF Holds
<1>5. CASE Head(rest).kind = "error"
  <2>1. pc' = "returned" /\ outcome' = "MessageError" /\ UNCHANGED <<parsing, data, response>>
    BY <1>5 DEF ParseAnswer, Return
  <2>2. CallTypes' /\ AnswersAtTheirQueries'
    BY <1>1, <2>1 DEF CallInv, CallTypes, AnswersAtTheirQueries, Phases, Outcomes, parsing
  <2> QED
    BY <2>1, <2>2 DEF CallInv, SubmitInv, LaunchInv, ParseInv, ReturnInv
<1>6. CASE Head(rest).kind # "error"
  <2> DEFINE x == sortedQueries[seqNo + 1]
  <2>1. /\ data' = [data EXCEPT ![group + 1] = Tail(@)]
        /\ response' = [response EXCEPT ![GetResponseIndex(seqNo) + 1] = Head(rest).answers]
        /\ lastQueryWarning' = (lastQueryWarning \/ Head(rest).kind = "warning")
        /\ sub' = sub + 1 /\ seqNo' = seqNo + 1 /\ UNCHANGED <<pc, group, outcome>>
    BY <1>6 DEF ParseAnswer
  <2>2. Head(rest).answers = x /\ GetResponseIndex(seqNo) = x /\ x \in 0 .. QueryCount - 1
    <3>1. Head(rest) = rest[1] /\ rest[1].answers = sortedQueries[seqNo + 1]
      BY <1>2, <1>3, <1>4
    <3>2. seqNo + 1 \in 1 .. QueryCount
      BY <1>2, <1>3
    <3> QED
      BY <3>1, <3>2 DEF GetResponseIndex, ObjectInv, Seqs
  <2>3. /\ Tail(rest) \in Seq(Answers) /\ Len(Tail(rest)) = e - (seqNo + 1)
        /\ \A k \in 1 .. e - (seqNo + 1) : Tail(rest)[k].answers = sortedQueries[seqNo + 1 + k]
    <3> HIDE DEF rest
    <3>1. /\ Tail(rest) \in Seq(Answers) /\ Len(Tail(rest)) = Len(rest) - 1
          /\ \A k \in 1 .. Len(Tail(rest)) : Tail(rest)[k] = rest[k + 1]
      BY <1>4, HeadTailProperties
    <3>2. \A k \in 1 .. e - (seqNo + 1) :
            k + 1 \in 1 .. e - seqNo /\ seqNo + (k + 1) = seqNo + 1 + k
      <4>1. seqNo \in Nat /\ e \in Nat
        BY <1>2, <1>3
      <4> QED
        BY <4>1
    <3>3. Len(Tail(rest)) = e - (seqNo + 1)
      BY <1>2, <1>3, <1>4, <3>1
    <3> QED
      BY <1>4, <3>1, <3>2, <3>3
  <2>4. /\ data' \in Seq(Seq(Answers)) /\ Len(data') = Len(data)
        /\ data'[group + 1] = Tail(rest)
        /\ \A r \in 0 .. GroupQueryCount - 1 : r # group => data'[r + 1] = data[r + 1]
    <3>1. data' = [data EXCEPT ![group + 1] = Tail(rest)] /\ group + 1 \in 1 .. Len(data)
      BY <1>2, <2>1
    <3> HIDE DEF rest
    <3> QED
      BY <1>2, <2>3, <3>1
  <2>5. /\ response' = [response EXCEPT ![x + 1] = x]
        /\ Len(response) = QueryCount /\ response \in Seq({Empty} \cup 0 .. MaxQueries - 1)
        /\ QueryCount <= MaxQueries
    BY <1>2, <2>1, <2>2 DEF CallInv, CallTypes, Filled, ObjectInv
  <2>6. /\ response' \in Seq({Empty} \cup 0 .. MaxQueries - 1) /\ Len(response') = QueryCount
        /\ response'[x + 1] = x
        /\ \A k \in 1 .. QueryCount : k # x + 1 => response'[k] = response[k]
        /\ DOMAIN response' = 1 .. QueryCount /\ DOMAIN response = 1 .. QueryCount
    <3>1. x \in {Empty} \cup 0 .. MaxQueries - 1 /\ x + 1 \in 1 .. Len(response)
      <4>1. QueryCount \in Nat /\ MaxQueries \in Nat /\ QueryCount <= MaxQueries
        BY <1>2, <2>5
      <4>2. x \in 0 .. QueryCount - 1 /\ Len(response) = QueryCount
        BY <2>2, <2>5
      <4> HIDE DEF x
      <4> QED
        BY <4>1, <4>2
    <3> HIDE DEF x
    <3> QED
      BY <2>5, <3>1
  <2> HIDE DEF x, rest
  <2>7. CallTypes'
    <3>1. sub' \in 0 .. MaxQueries /\ seqNo' \in 0 .. MaxQueries
      BY <1>2, <1>3, <2>1, <2>5
    <3>2. lastQueryWarning' \in BOOLEAN
      BY <2>1 DEF CallInv, CallTypes
    <3>3. Len(requests') = Len(data') /\ requests' \in Seq(Seq(Nat))
      BY <1>1, <2>4 DEF CallInv, CallTypes
    <3> QED
      BY <2>1, <2>4, <2>6, <3>1, <3>2, <3>3 DEF CallInv, CallTypes
  <2>8. AnswersAtTheirQueries'
    BY <1>2, <2>2, <2>6 DEF CallInv, AnswersAtTheirQueries
  <2>9. Filled(seqNo)'
    <3>1. ASSUME NEW k \in 1 .. seqNo + 1
          PROVE  response'[sortedQueries[k] + 1] = sortedQueries[k]
      <4>1. CASE k = seqNo + 1
        BY <2>6, <4>1 DEF x
      <4>2. CASE k # seqNo + 1
        <5>0. seqNo \in Nat /\ k \in 1 .. seqNo
          BY <1>2, <4>2
        <5>1. response[sortedQueries[k] + 1] = sortedQueries[k]
          BY <1>2, <5>0 DEF Filled
        <5>2. sortedQueries[k] \in 0 .. QueryCount - 1
          <6>1. k \in 1 .. QueryCount
            <7>1. QueryCount \in Nat /\ e \in 1 .. QueryCount /\ seqNo < e
              BY <1>2, <1>3
            <7> QED
              BY <5>0, <7>1
          <6> QED
            BY <6>1 DEF ObjectInv, Seqs
        <5>3. sortedQueries[k] + 1 \in 1 .. QueryCount
          BY <1>2, <5>2
        <5>4. CASE sortedQueries[k] = x
          BY <2>6, <5>4
        <5>5. CASE sortedQueries[k] # x
          <6>1. sortedQueries[k] + 1 # x + 1
            BY <2>2, <5>2, <5>5
          <6> QED
            BY <2>6, <5>1, <5>3, <6>1
        <5> QED
          BY <5>4, <5>5
      <4> QED
        BY <4>1, <4>2
    <3> QED
      BY <1>1, <2>1, <2>6, <3>1, ObjectStays DEF Filled, object
  <2>10. ParseInv'
    <3>1. /\ GroupQueryCount' = GroupQueryCount /\ QueryCount' = QueryCount
          /\ sortedQueries' = sortedQueries
          /\ \A r : GroupStart(r)' = GroupStart(r) /\ GroupEnd(r)' = GroupEnd(r)
      BY <1>1, ObjectStays DEF object
    <3>2. ASSUME NEW r \in group + 1 .. GroupQueryCount - 1
          PROVE  Holds(r, GroupStart(r))'
      <4>1. r \in 0 .. GroupQueryCount - 1 /\ r # group
        BY <1>2
      <4>2. data'[r + 1] = data[r + 1] /\ Holds(r, GroupStart(r))
        BY <1>2, <2>4, <4>1
      <4> QED
        BY <3>1, <4>2 DEF Holds
    <3>3. Holds(group, seqNo)'
      BY <1>3, <2>1, <2>3, <2>4, <3>1 DEF Holds
    <3>4. seqNo' = GroupStart(group) + sub' /\ seqNo' <= GroupEnd(group)
      <4>1. GroupStart(group) \in Int
        BY <1>2, GroupsCut
      <4> QED
        BY <1>2, <1>3, <2>1, <4>1
    <3> QED
      BY <1>2, <2>1, <2>4, <2>9, <3>1, <3>2, <3>3, <3>4 DEF ParseInv
  <2> QED
    BY <1>1, <2>1, <2>7, <2>8, <2>10 DEF CallInv, SubmitInv, LaunchInv, ReturnInv
<1> QED
  BY <1>5, <1>6

LEMMA LeaveKeepsCall ==
    ASSUME ObjectInv, CallInv, LeaveGroup
    PROVE  CallInv'
<1>1. /\ pc = "parse" /\ group < GroupQueryCount /\ sub = QueryCountAtGroup(group)
      /\ UNCHANGED <<object, seqNo, lastQueryWarning, requests, data, response, machine>>
      /\ \/ pc' = "returned" /\ outcome' = "Warning" /\ UNCHANGED <<group, sub>>
         \/ group' = group + 1 /\ sub' = 0 /\ UNCHANGED <<pc, outcome>>
  BY DEF LeaveGroup, GroupParsed, Return
<1>2. /\ GroupQueryCount \in Nat /\ QueryCount \in Nat /\ MaxQueries \in Nat
      /\ group \in 0 .. GroupQueryCount - 1 /\ GroupQueryCount <= QueryCount
      /\ QueryCount <= MaxQueries /\ Len(data) = GroupQueryCount
      /\ seqNo = GroupStart(group) + sub /\ Filled(seqNo)
      /\ \A r \in group + 1 .. GroupQueryCount - 1 : Holds(r, GroupStart(r))
      /\ outcome = "running"
  BY <1>1, ObjectSizes, OptAssumption DEF CallInv, ParseInv, CallTypes, ObjectInv
<1>3. /\ seqNo = GroupEnd(group) /\ GroupEnd(group) \in Nat
      /\ group + 1 < GroupQueryCount => GroupStart(group + 1) = GroupEnd(group)
      /\ group + 1 = GroupQueryCount => GroupEnd(group) = QueryCount
  <2>1. /\ GroupStart(group) \in Int /\ GroupEnd(group) \in Nat
        /\ QueryCountAtGroup(group) = GroupEnd(group) - GroupStart(group)
        /\ group + 1 < GroupQueryCount => GroupStart(group + 1) = GroupEnd(group)
    BY <1>2, GroupsCut
  <2>2. seqNo = GroupEnd(group)
    BY <1>1, <1>2, <2>1
  <2>3. group + 1 = GroupQueryCount => GroupEnd(group) = QueryCount
    BY <1>2 DEF GroupEnd
  <2> QED
    BY <2>1, <2>2, <2>3
<1>4. /\ GroupQueryCount' = GroupQueryCount /\ QueryCount' = QueryCount
      /\ sortedQueries' = sortedQueries
      /\ \A r : GroupStart(r)' = GroupStart(r) /\ GroupEnd(r)' = GroupEnd(r)
  BY <1>1, ObjectStays DEF object
<1>5. AnswersAtTheirQueries' /\ Filled(seqNo)'
  BY <1>1, <1>2, <1>4 DEF CallInv, AnswersAtTheirQueries, Filled
<1>6. CallTypes'
  <2>1. group' \in 0 .. MaxQueries /\ sub' \in 0 .. MaxQueries
    BY <1>1, <1>2 DEF CallInv, CallTypes
  <2>2. pc' \in Phases /\ outcome' \in Outcomes
    BY <1>1 DEF CallInv, CallTypes, Phases, Outcomes
  <2> QED
    BY <1>1, <2>1, <2>2 DEF CallInv, CallTypes
<1>7. CASE pc' = "returned"
  <2>1. outcome' = "Warning" /\ group' = group
    BY <1>1, <1>7
  <2>2. ReturnInv'
    BY <1>1, <1>2, <1>3, <1>4, <1>5, <2>1 DEF ReturnInv, Filled
  <2> QED
    BY <1>5, <1>6, <1>7, <2>2 DEF CallInv, SubmitInv, LaunchInv, ParseInv
<1>8. CASE pc' # "returned"
  <2>1. group' = group + 1 /\ sub' = 0 /\ pc' = "parse" /\ outcome' = "running"
    BY <1>1, <1>2, <1>8
  <2>2. ParseInv'
    <3>1. \A r \in group + 1 .. GroupQueryCount - 1 : Holds(r, GroupStart(r))'
      BY <1>1, <1>2, <1>4 DEF Holds
    <3>2. ASSUME group + 1 < GroupQueryCount
          PROVE  /\ seqNo' = GroupStart(group') + sub' /\ seqNo' <= GroupEnd(group')
                 /\ Holds(group, seqNo)'
      <4>1. group + 1 \in 0 .. GroupQueryCount - 1
        BY <1>2, <3>2
      <4>2. GroupStart(group + 1) = seqNo /\ seqNo \in Nat /\ seqNo <= GroupEnd(group + 1)
        BY <1>2, <1>3, <3>2, <4>1, GroupsCut
      <4>3. seqNo' = seqNo
        BY <1>1
      <4>4. Holds(group + 1, seqNo)
        BY <1>2, <3>2, <4>1, <4>2
      <4>5. Holds(group, seqNo)'
        BY <1>1, <1>4, <2>1, <4>3, <4>4 DEF Holds
      <4> QED
        BY <2>1, <4>2, <4>3, <4>5
    <3>3. group + 1 = GroupQueryCount => seqNo' = QueryCount
      BY <1>1, <1>3
    <3>4. \A r \in group' + 1 .. GroupQueryCount - 1 : r \in group + 1 .. GroupQueryCount - 1
      BY <1>2, <2>1
    <3>5. group' <= GroupQueryCount /\ Len(data') = GroupQueryCount /\ GroupQueryCount > 0
      BY <1>1, <1>2, <2>1
    <3> QED
      BY <1>2, <1>4, <1>5, <2>1, <3>1, <3>2, <3>3, <3>4, <3>5 DEF ParseInv
  <2> QED
    BY <1>5, <1>6, <2>1, <2>2 DEF CallInv, SubmitInv, LaunchInv, ReturnInv
<1> QED
  BY <1>7, <1>8

LEMMA ReturnKeepsCall ==
    ASSUME ObjectInv, CallInv, QueryReturns
    PROVE  CallInv'
<1>1. /\ pc = "parse" /\ group = GroupQueryCount /\ pc' = "returned" /\ outcome' = "ok"
      /\ UNCHANGED <<object, parsing, requests, data, response, machine>>
  BY DEF QueryReturns, Return
<1>2. CallTypes' /\ AnswersAtTheirQueries'
  BY <1>1 DEF CallInv, CallTypes, AnswersAtTheirQueries, Phases, Outcomes, parsing
<1>3. ReturnInv'
  <2>1. Filled(QueryCount)
    BY <1>1 DEF CallInv, ParseInv
  <2>2. QueryCount' = QueryCount /\ sortedQueries' = sortedQueries /\ response' = response
    BY <1>1, ObjectStays DEF object
  <2> QED
    BY <1>1, <2>1, <2>2 DEF ReturnInv, Filled
<1> QED
  BY <1>1, <1>2, <1>3 DEF CallInv, SubmitInv, LaunchInv, ParseInv

-----------------------------------------------------------------------------
(* The groups and the queries *)

\* Every place is in one group, and in one only.
LEMMA PlaceInOneGroup ==
    ASSUME NEW n \in Nat, NEW g, IsCut(g, n), NEW j \in 1 .. n
    PROVE  /\ \E i \in 1 .. Len(g) : g[i] < j /\ j <= EndOf(g, n, i)
           /\ \A i, m \in 1 .. Len(g) :
                g[i] < j /\ j <= EndOf(g, n, i) /\ g[m] < j /\ j <= EndOf(g, n, m) => i = m
<1>1. /\ Len(g) \in Nat \ {0} /\ g[1] = 0
      /\ \A i \in 1 .. Len(g) : g[i] \in Int
      /\ \A i, m \in 1 .. Len(g) : i < m => g[i] < g[m]
  BY DEF IsCut
<1>2. \E i \in 1 .. Len(g) : g[i] < j /\ j <= EndOf(g, n, i)
  <2> DEFINE T == {i \in 1 .. Len(g) : j <= EndOf(g, n, i)}
  <2>1. Len(g) \in T
    BY <1>1 DEF EndOf
  <2>2. PICK i \in T : \A m \in T : i <= m
    <3>1. T \in SUBSET Nat /\ T # {}
      BY <2>1
    <3> HIDE DEF T
    <3> QED
      BY <3>1, LeastExists
  <2>3. CASE i = 1
    BY <1>1, <2>2, <2>3
  <2>4. CASE i # 1
    <3>1. i - 1 \in 1 .. Len(g) /\ ~(i <= i - 1) /\ i - 1 # Len(g) /\ i - 1 + 1 = i
      BY <1>1, <2>2, <2>4
    <3>2. ~(j <= EndOf(g, n, i - 1))
      BY <2>2, <3>1
    <3>3. EndOf(g, n, i - 1) = g[i]
      BY <3>1 DEF EndOf
    <3> QED
      BY <1>1, <2>2, <3>2, <3>3
  <2> QED
    BY <2>3, <2>4
<1>3. ASSUME NEW i \in 1 .. Len(g), NEW m \in 1 .. Len(g), i < m, j <= EndOf(g, n, i), g[m] < j
      PROVE  FALSE
  <2>1. i # Len(g) /\ i + 1 \in 1 .. Len(g) /\ (i + 1 = m \/ i + 1 < m)
    BY <1>1, <1>3
  <2>2. g[i + 1] = g[m] \/ g[i + 1] < g[m]
    BY <1>1, <2>1
  <2> QED
    BY <1>1, <1>3, <2>1, <2>2 DEF EndOf
<1> QED
  BY <1>1, <1>2, <1>3

\* The sending order has a place for every query.
LEMMA EveryQuerySent ==
    ASSUME NEW n \in Nat, NEW s \in [1 .. n -> 0 .. n - 1],
           \A k, l \in 1 .. n : s[k] = s[l] => k = l, NEW q \in 0 .. n - 1
    PROVE  \E k \in 1 .. n : s[k] = q
<1>1. /\ IsFiniteSet(0 .. n - 1) /\ Cardinality(0 .. n - 1) = n
      /\ IsFiniteSet(1 .. n) /\ Cardinality(1 .. n) = n
  BY BelowFinite
<1>2. s \in Injection(1 .. n, 0 .. n - 1)
  BY DEF Injection, IsInjective
<1>3. s \in Surjection(1 .. n, 0 .. n - 1)
  <2> DEFINE A == 1 .. n
             B == 0 .. n - 1
  <2>1. s \in Injection(A, B) /\ IsFiniteSet(B) /\ Cardinality(A) = Cardinality(B)
    BY <1>1, <1>2
  <2> HIDE DEF A, B
  <2>2. s \in Surjection(A, B)
    BY <2>1, FS_Injection
  <2> QED
    BY <2>2 DEF A, B
<1> QED
  BY <1>3 DEF Surjection

\* The groups of the object are such a cut.
LEMMA ObjectIsCut ==
    ASSUME ObjectInv
    PROVE  /\ IsCut(groupQueries, QueryCount)
           /\ \A i \in 0 .. GroupQueryCount - 1 :
                /\ i + 1 \in 1 .. Len(groupQueries) /\ GroupStart(i) = groupQueries[i + 1]
                /\ GroupEnd(i) = EndOf(groupQueries, QueryCount, i + 1)
<1>1. GroupQueryCount \in Nat /\ GroupQueryCount = Len(groupQueries)
  BY ObjectSizes DEF GroupQueryCount
<1>2. IsCut(groupQueries, QueryCount)
  BY <1>1 DEF IsCut, ObjectInv, Seqs
<1>3. ASSUME NEW i \in 0 .. GroupQueryCount - 1
      PROVE  GroupEnd(i) = EndOf(groupQueries, QueryCount, i + 1)
  <2>1. /\ i + 1 + 1 = i + 2 /\ i + 1 <= GroupQueryCount
        /\ i + 1 >= GroupQueryCount <=> i + 1 = GroupQueryCount
    BY <1>1
  <2> QED
    BY <1>1, <2>1 DEF GroupEnd, EndOf
<1> QED
  BY <1>1, <1>2, <1>3 DEF GroupStart

LEMMA ObjectCovers ==
    ASSUME ObjectInv
    PROVE  GroupsCoverQueries
<1>1. /\ QueryCount \in Nat /\ GroupQueryCount \in Nat
      /\ \A i \in 0 .. GroupQueryCount - 1 :
           /\ GroupStart(i) \in Nat /\ GroupEnd(i) \in Nat
           /\ GroupStart(i) < GroupEnd(i) /\ GroupEnd(i) <= QueryCount
           /\ QueryCountAtGroup(i) = GroupEnd(i) - GroupStart(i)
           /\ Len(GroupQuery(i)) = GroupEnd(i) - GroupStart(i)
           /\ \A k \in 1 .. GroupEnd(i) - GroupStart(i) :
                GroupQuery(i)[k] = sortedQueries[GroupStart(i) + k]
  <2>1. QueryCount \in Nat /\ GroupQueryCount \in Nat
    BY ObjectSizes
  <2>2. ASSUME NEW i \in 0 .. GroupQueryCount - 1
        PROVE  /\ GroupStart(i) \in Nat /\ GroupEnd(i) \in Nat
               /\ GroupStart(i) < GroupEnd(i) /\ GroupEnd(i) <= QueryCount
    BY GroupsCut
  <2> QED
    BY <2>1, <2>2, GroupsCut
<1>2. \A i \in 0 .. GroupQueryCount - 1 : QueryCountAtGroup(i) > 0
  BY <1>1
<1>3. QueryCount > 0 => GroupQueryCount > 0 /\ GroupStart(0) = 0
  BY DEF ObjectInv, GroupStart
<1>4. ASSUME NEW q \in Seqs
      PROVE  Cardinality({p \in (0 .. GroupQueryCount - 1) \X (1 .. QueryCount) :
                p[2] <= Len(GroupQuery(p[1])) /\ GroupQuery(p[1])[p[2]] = q}) = 1
  <2> DEFINE At(p) == p[2] <= Len(GroupQuery(p[1])) /\ GroupQuery(p[1])[p[2]] = q
             Places == (0 .. GroupQueryCount - 1) \X (1 .. QueryCount)
  <2>1. PICK j \in 1 .. QueryCount : sortedQueries[j] = q
    <3>1. /\ sortedQueries \in [1 .. QueryCount -> 0 .. QueryCount - 1]
          /\ \A k, l \in 1 .. QueryCount : sortedQueries[k] = sortedQueries[l] => k = l
          /\ q \in 0 .. QueryCount - 1
      BY DEF ObjectInv, Seqs
    <3> QED
      BY <1>1, <3>1, EveryQuerySent
  <2>2. PICK i \in 0 .. GroupQueryCount - 1 : GroupStart(i) < j /\ j <= GroupEnd(i)
    <3>1. PICK m \in 1 .. Len(groupQueries) :
            groupQueries[m] < j /\ j <= EndOf(groupQueries, QueryCount, m)
      BY <1>1, <2>1, ObjectIsCut, PlaceInOneGroup
    <3>2. m - 1 \in 0 .. GroupQueryCount - 1 /\ m - 1 + 1 = m
      BY <1>1, <3>1 DEF GroupQueryCount
    <3> QED
      BY <3>1, <3>2, ObjectIsCut
  <2> DEFINE here == <<i, j - GroupStart(i)>>
  <2>3. here \in Places /\ At(here)
    <3>1. /\ j - GroupStart(i) \in 1 .. QueryCount
          /\ j - GroupStart(i) \in 1 .. GroupEnd(i) - GroupStart(i)
          /\ GroupStart(i) + (j - GroupStart(i)) = j
      BY <1>1, <2>1, <2>2
    <3> QED
      BY <1>1, <2>1, <2>2, <3>1
  <2>4. ASSUME NEW p \in Places, At(p)
        PROVE  p = here
    <3>1. PICK m \in 0 .. GroupQueryCount - 1, k \in 1 .. QueryCount : p = <<m, k>>
      OBVIOUS
    <3>2. k \in 1 .. GroupEnd(m) - GroupStart(m) /\ sortedQueries[GroupStart(m) + k] = q
      <4>1. k <= GroupEnd(m) - GroupStart(m)
        BY <1>1, <2>4, <3>1
      <4>2. k \in 1 .. GroupEnd(m) - GroupStart(m)
        BY <1>1, <3>1, <4>1
      <4> QED
        BY <1>1, <2>4, <3>1, <4>2
    <3>3. GroupStart(m) + k \in 1 .. QueryCount /\ GroupStart(m) + k <= GroupEnd(m)
      BY <1>1, <3>1, <3>2
    <3>4. GroupStart(m) + k = j
      BY <2>1, <3>2, <3>3 DEF ObjectInv
    <3>5. GroupStart(m) < j /\ j <= GroupEnd(m)
      BY <1>1, <3>1, <3>3, <3>4
    <3>6. m + 1 = i + 1
      <4>1. /\ IsCut(groupQueries, QueryCount)
            /\ i + 1 \in 1 .. Len(groupQueries) /\ m + 1 \in 1 .. Len(groupQueries)
            /\ groupQueries[i + 1] < j /\ j <= EndOf(groupQueries, QueryCount, i + 1)
            /\ groupQueries[m + 1] < j /\ j <= EndOf(groupQueries, QueryCount, m + 1)
        BY <2>2, <3>1, <3>5, ObjectIsCut
      <4> QED
        BY <1>1, <2>1, <4>1, PlaceInOneGroup
    <3> QED
      BY <1>1, <3>1, <3>4, <3>6
  <2>5. {p \in Places : At(p)} = {here}
    <3> HIDE DEF Places, At, here
    <3> QED
      BY <2>3, <2>4
  <2> HIDE DEF here
  <2> QED
    BY <2>5, FS_Singleton
<1> QED
  BY <1>2, <1>3, <1>4 DEF GroupsCoverQueries

-----------------------------------------------------------------------------
(* optimise() *)

\* The queries between two starts next to each other are all queries of a hash.
LEMMA OneHashBetweenStarts ==
    ASSUME ObjectInv, NEW s \in SortedByHash, NEW i \in 1 .. Len(GroupStarts(s))
    PROVE  LET a == GroupStarts(s)[i]
               b == EndOf(GroupStarts(s), QueryCount, i)
           IN  /\ a \in Seqs /\ b \in a + 1 .. QueryCount
               /\ \A k \in a + 1 .. b : HashOf(s[k]) = HashOf(s[a + 1])
               /\ \A k \in 1 .. QueryCount : HashOf(s[k]) = HashOf(s[a + 1]) => k \in a + 1 .. b
<1> DEFINE g == GroupStarts(s)
           n == QueryCount
           H(k) == HashOf(s[k])
<1>1. /\ n \in Nat /\ Len(g) \in Nat /\ Len(s) = n
      /\ \A k \in 1 .. n : H(k) \in Int
      /\ \A k, l \in 1 .. n : k < l => H(k) <= H(l)
      /\ \A j \in 1 .. Len(g) : g[j] \in 0 .. n - 1 /\ g[j] \in Starts(s)
      /\ \A j, m \in 1 .. Len(g) : j < m => g[j] < g[m]
      /\ \A k \in Starts(s) : \E j \in 1 .. Len(g) : g[j] = k
  <2>1. n \in Nat /\ Len(s) = n /\ s \in [1 .. n -> Seqs]
    BY ObjectSizes, SortedOrder
  <2>2. \A k \in 1 .. n : H(k) \in Int
    <3>1. \A k \in 1 .. n : s[k] + 1 \in 1 .. Len(sourceQueries)
      BY <2>1 DEF Seqs, QueryCount
    <3>2. sourceQueries \in Seq(Int)
      BY OptAssumption, SeqMonotonic DEF ObjectInv
    <3> QED
      BY <3>1, <3>2, ElementOfSeq DEF HashOf
  <2>3. IsCut(g, n) /\ Len(g) \in Nat
    BY <2>1, SortedOrder
  <2>4. \A j \in 1 .. Len(g) : g[j] \in 0 .. n - 1
    <3> HIDE DEF g, n
    <3> QED
      BY <2>3, ElementOfSeq DEF IsCut
  <2>5. \A j, m \in 1 .. Len(g) : j < m => g[j] < g[m]
    BY <2>3 DEF IsCut
  <2> QED
    BY <2>1, <2>2, <2>3, <2>4, <2>5, SortedOrder
<1>2. PICK a \in Int, b \in Int : a = g[i] /\ b = EndOf(g, n, i)
  <2>1. i + 1 \in 1 .. Len(g) \/ i = Len(g)
    BY <1>1
  <2>2. n \in Int /\ \A j \in 1 .. Len(g) : g[j] \in Int
    BY <1>1
  <2>3. EndOf(g, n, i) \in Int
    <3> HIDE DEF g, n
    <3> QED
      BY <2>1, <2>2 DEF EndOf
  <2> QED
    BY <2>2, <2>3
<1>3. 0 <= a /\ a < b /\ b <= n
  <2>1. i = Len(g) \/ (i # Len(g) /\ i + 1 \in 1 .. Len(g) /\ i < i + 1)
    BY <1>1
  <2>2. /\ n \in Nat /\ \A j \in 1 .. Len(g) : g[j] \in 0 .. n - 1
        /\ \A j, m \in 1 .. Len(g) : j < m => g[j] < g[m]
    BY <1>1
  <2> HIDE DEF g, n
  <2> QED
    BY <1>2, <2>1, <2>2 DEF EndOf
<1>4. \A k \in Starts(s) : k <= a \/ b <= k
  <2> SUFFICES ASSUME NEW j \in 1 .. Len(g)
               PROVE  g[j] <= a \/ b <= g[j]
    BY <1>1
  <2>1. \/ j = i \/ j < i
        \/ i < j /\ i # Len(g) /\ i + 1 \in 1 .. Len(g) /\ (j = i + 1 \/ i + 1 < j)
    BY <1>1
  <2>2. /\ i \in 1 .. Len(g) /\ \A m \in 1 .. Len(g) : g[m] \in Int
        /\ \A l, m \in 1 .. Len(g) : l < m => g[l] < g[m]
    BY <1>1
  <2> HIDE DEF g, n
  <2>3. CASE j = i
    BY <1>2, <2>3
  <2>4. CASE j < i
    BY <1>2, <2>2, <2>4
  <2>5. CASE i < j
    <3>1. i # Len(g) /\ i + 1 \in 1 .. Len(g) /\ (j = i + 1 \/ i + 1 < j)
      BY <2>1, <2>5
    <3>2. b = g[i + 1]
      BY <1>2, <3>1 DEF EndOf
    <3> QED
      BY <2>2, <3>1, <3>2
  <2> QED
    BY <2>1, <2>3, <2>4, <2>5
<1>5. \A k \in 1 .. n : k - 1 \in Starts(s) <=> k = 1 \/ H(k) # H(k - 1)
  <2> SUFFICES ASSUME NEW k \in 1 .. n
               PROVE  k - 1 \in Starts(s) <=> k = 1 \/ H(k) # H(k - 1)
    OBVIOUS
  <2>1. k - 1 \in 0 .. Len(s) - 1 /\ k - 1 + 1 = k /\ (k - 1 = 0 <=> k = 1)
    BY <1>1
  <2> QED
    BY <2>1 DEF Starts, StartsGroup
<1>6. \A k \in a + 1 .. b : H(k) = H(a + 1)
  <2> DEFINE T == {k \in a + 1 .. b : H(k) # H(a + 1)}
  <2> SUFFICES ASSUME T # {}
               PROVE  FALSE
    OBVIOUS
  <2>1. PICK t \in T : \A u \in T : t <= u
    <3>1. T \in SUBSET Nat
      BY <1>3
    <3> HIDE DEF T
    <3> QED
      BY <3>1, LeastExists
  <2>2. t \in 1 .. n /\ t # a + 1 /\ t - 1 \in a + 1 .. b /\ t - 1 < t /\ t - 1 < b /\ a < t - 1
    BY <1>1, <1>3, <2>1
  <2>3. t - 1 \notin T
    BY <2>1, <2>2
  <2>4. H(t - 1) = H(a + 1)
    BY <2>2, <2>3
  <2>5. t - 1 \in Starts(s)
    BY <1>5, <2>1, <2>2, <2>4
  <2> QED
    BY <1>2, <1>4, <2>2, <2>5
<1>7. ASSUME NEW k \in 1 .. n, H(k) = H(a + 1)
      PROVE  k \in a + 1 .. b
  <2>1. CASE k <= a
    <3>1. a \in 1 .. n /\ a + 1 \in 1 .. n /\ a + 1 # 1 /\ a + 1 - 1 = a
      BY <1>1, <1>3, <2>1
    <3>2. H(a + 1) # H(a)
      BY <1>1, <1>2, <1>5, <3>1
    <3>3. H(k) <= H(a) /\ H(a) <= H(a + 1)
      BY <1>1, <2>1, <3>1
    <3> QED
      BY <1>1, <1>7, <3>1, <3>2, <3>3
  <2>2. CASE b < k
    <3>1. b \in 1 .. n /\ b + 1 \in 1 .. n /\ b + 1 # 1 /\ b + 1 - 1 = b /\ a + 1 \in 1 .. n
      BY <1>1, <1>3, <2>2
    <3>2. b \in Starts(s)
      <4>1. i # Len(g) /\ i + 1 \in 1 .. Len(g)
        <5>1. i = Len(g) => b = n
          <6> HIDE DEF g, n
          <6> QED
            BY <1>2 DEF EndOf
        <5>2. i # Len(g)
          BY <1>1, <1>3, <2>2, <5>1
        <5> QED
          BY <1>1, <5>2
      <4> HIDE DEF g, n
      <4> QED
        BY <1>1, <1>2, <4>1 DEF EndOf
    <3>3. H(b + 1) # H(b) /\ H(b) = H(a + 1)
      BY <1>3, <1>5, <1>6, <3>1, <3>2
    <3>4. H(b) <= H(b + 1) /\ H(b + 1) <= H(k)
      BY <1>1, <2>2, <3>1
    <3> QED
      BY <1>1, <1>7, <3>1, <3>3, <3>4
  <2> QED
    BY <1>1, <1>3, <2>1, <2>2
<1>8. a \in Seqs /\ b \in a + 1 .. n
  BY <1>1, <1>3 DEF Seqs
<1> QED
  BY <1>2, <1>6, <1>7, <1>8

LEMMA OptimiseGroups ==
    ASSUME ObjectInv, Optimise
    PROVE  {{GroupQuery(i)'[k] : k \in 1 .. Len(GroupQuery(i)')} :
                i \in 0 .. GroupQueryCount' - 1}
             = {{q \in Seqs : HashOf(q) = h} : h \in {HashOf(q) : q \in Seqs}}
<1> DEFINE n == QueryCount
           Elements(i) == {GroupQuery(i)'[k] : k \in 1 .. Len(GroupQuery(i)')}
           OfHash(h) == {q \in Seqs : HashOf(q) = h}
<1>1. PICK s \in SortedByHash : sortedQueries' = s /\ groupQueries' = GroupStarts(s)
  BY DEF Optimise
<1> DEFINE g == GroupStarts(s)
<1>2. /\ n \in Nat /\ s \in Seq(Seqs) /\ Len(s) = n /\ s \in [1 .. n -> Seqs]
      /\ \A k, l \in 1 .. n : s[k] = s[l] => k = l
      /\ IsCut(g, n) /\ Len(g) \in Nat /\ GroupQueryCount' = Len(g)
  BY <1>1, ObjectSizes, SortedOrder DEF GroupQueryCount
<1>3. \A q \in Seqs : \E k \in 1 .. n : s[k] = q
  <2>1. Seqs = 0 .. n - 1
    BY DEF Seqs
  <2>2. s \in [1 .. n -> 0 .. n - 1]
    BY <1>2, <2>1
  <2> HIDE DEF n
  <2>3. \A q \in 0 .. n - 1 : \E k \in 1 .. n : s[k] = q
    BY <1>2, <2>2, EveryQuerySent
  <2> QED
    BY <2>1, <2>3
<1>4. ASSUME NEW i \in 0 .. Len(g) - 1
      PROVE  /\ i + 1 \in 1 .. Len(g)
             /\ Elements(i) = {s[k] : k \in g[i + 1] + 1 .. EndOf(g, n, i + 1)}
  <2>1. i + 1 \in 1 .. Len(g)
    BY <1>2
  <2>2. PICK a \in Int, b \in Int : a = g[i + 1] /\ b = EndOf(g, n, i + 1)
    <3>1. g[i + 1] \in Seqs /\ EndOf(g, n, i + 1) \in g[i + 1] + 1 .. n
      BY <2>1, OneHashBetweenStarts
    <3> QED
      BY <1>2, <3>1 DEF Seqs
  <2>3. a \in Nat /\ b \in Nat /\ a <= b /\ b <= Len(s)
    BY <1>2, <2>1, <2>2, OneHashBetweenStarts DEF Seqs
  <2>4. GroupQuery(i)' = SubSeq(s, a + 1, b)
    <3>1. GroupStart(i)' = a
      BY <1>1, <2>2 DEF GroupStart
    <3>2. QueryCountAtGroup(i)' = b - a
      <4>1. i + 1 + 1 = i + 2 /\ (i + 1 >= Len(g) <=> i + 1 = Len(g))
        BY <2>1, <1>2
      <4> HIDE DEF g
      <4>2. QueryCountAtGroup(i)' = (IF i + 1 = Len(g) THEN Len(s) ELSE g[i + 2]) - a
        BY <1>1, <1>2, <2>2, <4>1 DEF QueryCountAtGroup, GroupStart, g
      <4> QED
        BY <1>2, <2>2, <4>1, <4>2 DEF EndOf
    <3>3. a + (b - a) = b
      OBVIOUS
    <3> QED
      BY <1>1, <3>1, <3>2, <3>3 DEF GroupQuery
  <2>5. Elements(i) = {s[k] : k \in a + 1 .. b}
    <3>1. s \in Seq(Seqs) /\ a \in Nat /\ b \in Nat /\ a <= b /\ b <= Len(s)
      BY <1>2, <2>3
    <3>2. GroupQuery(i)' = SubSeq(s, a + 1, b)
      BY <2>4
    <3>3. /\ Len(GroupQuery(i)') = b - a
          /\ \A k \in 1 .. b - a : GroupQuery(i)'[k] = s[a + k]
      BY <3>1, <3>2, PieceElements
    <3>4. \A k \in 1 .. b - a : a + k \in a + 1 .. b
      BY <3>1
    <3>5. \A k \in a + 1 .. b : k - a \in 1 .. b - a /\ a + (k - a) = k
      BY <3>1
    <3>6. ASSUME NEW k \in a + 1 .. b
          PROVE  s[k] \in {GroupQuery(i)'[l] : l \in 1 .. b - a}
      <4>1. GroupQuery(i)'[k - a] = s[k] /\ k - a \in 1 .. b - a
        BY <3>3, <3>5
      <4> QED
        BY <4>1
    <3>7. ASSUME NEW k \in 1 .. b - a
          PROVE  GroupQuery(i)'[k] \in {s[l] : l \in a + 1 .. b}
      BY <3>3, <3>4
    <3> QED
      BY <3>3, <3>6, <3>7
  <2> QED
    BY <2>1, <2>2, <2>5
<1>5. ASSUME NEW i \in 0 .. Len(g) - 1
      PROVE  /\ Elements(i) = OfHash(HashOf(s[g[i + 1] + 1]))
             /\ s[g[i + 1] + 1] \in Seqs
  <2>1. i + 1 \in 1 .. Len(g)
    BY <1>4
  <2>2. PICK a \in Nat, b \in Nat :
          /\ a = g[i + 1] /\ b = EndOf(g, n, i + 1) /\ a < b /\ b <= n
          /\ \A k \in a + 1 .. b : HashOf(s[k]) = HashOf(s[a + 1])
          /\ \A k \in 1 .. n : HashOf(s[k]) = HashOf(s[a + 1]) => k \in a + 1 .. b
    <3>1. /\ g[i + 1] \in Seqs /\ EndOf(g, n, i + 1) \in g[i + 1] + 1 .. n
          /\ \A k \in g[i + 1] + 1 .. EndOf(g, n, i + 1) : HashOf(s[k]) = HashOf(s[g[i + 1] + 1])
          /\ \A k \in 1 .. n :
               HashOf(s[k]) = HashOf(s[g[i + 1] + 1]) => k \in g[i + 1] + 1 .. EndOf(g, n, i + 1)
      BY <2>1, OneHashBetweenStarts
    <3>2. g[i + 1] \in Nat /\ EndOf(g, n, i + 1) \in Nat
      BY <1>2, <3>1 DEF Seqs
    <3>3. g[i + 1] < EndOf(g, n, i + 1) /\ EndOf(g, n, i + 1) <= n
      BY <1>2, <3>1, <3>2
    <3> HIDE DEF g, n
    <3> QED
      BY <3>1, <3>2, <3>3
  <2>3. \A k \in a + 1 .. b : k \in 1 .. n /\ s[k] \in Seqs
    BY <1>2, <2>2
  <2>4. {s[k] : k \in a + 1 .. b} = OfHash(HashOf(s[a + 1]))
    <3>1. ASSUME NEW q \in OfHash(HashOf(s[a + 1]))
          PROVE  q \in {s[k] : k \in a + 1 .. b}
      <4>1. PICK k \in 1 .. n : s[k] = q
        BY <1>3
      <4> QED
        BY <2>2, <4>1
    <3>2. ASSUME NEW k \in a + 1 .. b
          PROVE  s[k] \in OfHash(HashOf(s[a + 1]))
      BY <2>2, <2>3
    <3> QED
      BY <3>1, <3>2
  <2>5. a + 1 \in a + 1 .. b
    BY <2>2
  <2> HIDE DEF g, n, Elements, OfHash
  <2> QED
    BY <1>4, <2>2, <2>3, <2>4, <2>5
<1>6. ASSUME NEW q \in Seqs
      PROVE  \E i \in 0 .. Len(g) - 1 : Elements(i) = OfHash(HashOf(q))
  <2>1. PICK j \in 1 .. n : s[j] = q
    BY <1>3
  <2>2. PICK m \in 1 .. Len(g) : g[m] < j /\ j <= EndOf(g, n, m)
    <3> HIDE DEF g, n
    <3> QED
      BY <1>2, PlaceInOneGroup
  <2>3. HashOf(s[j]) = HashOf(s[g[m] + 1])
    <3>1. /\ g[m] \in Seqs /\ EndOf(g, n, m) \in g[m] + 1 .. n
          /\ \A k \in g[m] + 1 .. EndOf(g, n, m) : HashOf(s[k]) = HashOf(s[g[m] + 1])
      BY OneHashBetweenStarts
    <3>2. g[m] \in Int /\ EndOf(g, n, m) \in Int
      BY <1>2, <3>1 DEF Seqs
    <3>3. j \in g[m] + 1 .. EndOf(g, n, m)
      BY <1>2, <2>1, <2>2, <3>2
    <3> QED
      BY <3>1, <3>3
  <2>4. m - 1 \in 0 .. Len(g) - 1 /\ m - 1 + 1 = m
    BY <1>2
  <2>5. Elements(m - 1) = OfHash(HashOf(s[g[m] + 1]))
    <3> HIDE DEF g, n, Elements, OfHash
    <3> QED
      BY <1>5, <2>4
  <2> HIDE DEF g, n, Elements, OfHash
  <2> QED
    BY <2>1, <2>3, <2>4, <2>5
<1>7. {Elements(i) : i \in 0 .. Len(g) - 1} = {OfHash(h) : h \in {HashOf(q) : q \in Seqs}}
  <2> HIDE DEF g, n, Elements, OfHash
  <2> QED
    BY <1>5, <1>6
<1> QED
  BY <1>2, <1>7

-----------------------------------------------------------------------------
(* The theorems *)

LEMMA QueryInvariant == Spec => [](ObjectInv /\ CallInv)
<1>1. Init => ObjectInv /\ CallInv
  <2> SUFFICES ASSUME Init
               PROVE  ObjectInv /\ CallInv
    OBVIOUS
  <2>1. /\ sourceQueries = <<>> /\ sortedQueries = <<>> /\ responseIndex = <<>>
        /\ groupQueries = <<>> /\ pc = "idle" /\ group = 0 /\ sub = 0 /\ seqNo = 0
        /\ lastQueryWarning = FALSE /\ requests = <<>> /\ data = <<>> /\ response = <<>>
        /\ outcome = "none" /\ MaxQueries \in Nat
    BY OptAssumption DEF Init
  <2>2. /\ <<>> \in Seq(Hashes) /\ <<>> \in Seq(Seqs) /\ Len(<<>>) = 0
        /\ <<>> \in Seq(Seq(Nat)) /\ <<>> \in Seq(Seq(Answers))
        /\ <<>> \in Seq({Empty} \cup 0 .. MaxQueries - 1)
    BY EmptySeq
  <2>3. ObjectInv
    <3>1. QueryCount = 0 /\ GroupQueryCount = 0 /\ sortedQueries \in [1 .. 0 -> Seqs]
      BY <2>1, <2>2 DEF QueryCount, GroupQueryCount
    <3> QED
      BY <2>1, <2>2, <3>1 DEF ObjectInv
  <2>4. CallTypes
    <3>1. pc \in Phases /\ outcome \in Outcomes
      BY <2>1 DEF Phases, Outcomes
    <3>2. lastQueryWarning \in BOOLEAN
      BY <2>1
    <3>3. 0 \in 0 .. MaxQueries
      BY <2>1
    <3> QED
      BY <2>1, <2>2, <3>1, <3>2, <3>3 DEF CallTypes
  <2>5. AnswersAtTheirQueries
    BY <2>1 DEF AnswersAtTheirQueries
  <2> QED
    BY <2>1, <2>3, <2>4, <2>5 DEF CallInv, SubmitInv, LaunchInv, ParseInv, ReturnInv
<1>2. ObjectInv /\ CallInv /\ [Next]_vars => (ObjectInv /\ CallInv)'
  <2> SUFFICES ASSUME ObjectInv, CallInv, [Next]_vars
               PROVE  ObjectInv' /\ CallInv'
    OBVIOUS
  <2>1. ASSUME NEW hash \in Hashes, AddQuery(hash)
        PROVE  ObjectInv' /\ CallInv'
    BY <2>1, AddKeepsObject, EditKeepsCall DEF AddQuery
  <2>2. CASE Optimise
    BY <2>2, OptimiseKeepsObject, EditKeepsCall DEF Optimise
  <2>3. CASE Query
    BY <2>3, QueryKeepsCall, ObjectStays DEF Query
  <2>4. CASE SubmitGroup
    BY <2>4, SubmitKeepsCall, ObjectStays DEF SubmitGroup
  <2>5. CASE Launch
    BY <2>5, LaunchKeepsCall, ObjectStays DEF Launch
  <2>6. ASSUME NEW r \in 0 .. known - 1, ResponseArrives(r)
        PROVE  ObjectInv' /\ CallInv'
    BY <2>6, ArrivalKeepsCall, ObjectStays DEF ResponseArrives
  <2>7. CASE LaunchThrows
    BY <2>7, ThrowKeepsCall, ObjectStays DEF LaunchThrows
  <2>8. CASE LaunchReturns
    BY <2>8, LaunchReturnsKeepsCall, ObjectStays DEF LaunchReturns
  <2>9. CASE ParseAnswer
    BY <2>9, ParseKeepsCall, ObjectStays DEF ParseAnswer
  <2>10. CASE LeaveGroup
    BY <2>10, LeaveKeepsCall, ObjectStays DEF LeaveGroup
  <2>11. CASE QueryReturns
    BY <2>11, ReturnKeepsCall, ObjectStays DEF QueryReturns
  <2>12. CASE UNCHANGED vars
    <3>1. ObjectInv'
      BY <2>12, ObjectStays DEF vars
    <3>2. CallTypes' /\ AnswersAtTheirQueries'
      BY <2>12 DEF vars, parsing, CallInv, CallTypes, AnswersAtTheirQueries, Phases, Outcomes
    <3>3. /\ GroupQueryCount' = GroupQueryCount /\ QueryCount' = QueryCount
          /\ \A i : /\ GroupStart(i)' = GroupStart(i) /\ GroupEnd(i)' = GroupEnd(i)
                    /\ GroupQuery(i)' = GroupQuery(i)
          /\ UNCHANGED <<pc, group, sub, seqNo, requests, data, response, outcome, known,
                         answered, result, sortedQueries>>
      BY <2>12, ObjectStays DEF vars, object, parsing, machine
    <3>4. SubmitInv' /\ LaunchInv' /\ ParseInv' /\ ReturnInv'
      BY <3>3 DEF CallInv, SubmitInv, LaunchInv, ParseInv, ReturnInv, Holds, Filled
    <3> QED
      BY <3>1, <3>2, <3>4 DEF CallInv
  <2> QED
    BY <2>1, <2>2, <2>3, <2>4, <2>5, <2>6, <2>7, <2>8, <2>9, <2>10, <2>11, <2>12 DEF Next
<1> QED
  BY <1>1, <1>2, PTL DEF Spec

\* Every vector has the shape the loops of query() index it by.
THEOREM TypesCorrect == Spec => []TypeOK
<1>1. ObjectInv /\ CallInv => TypeOK
  <2> SUFFICES ASSUME ObjectInv, CallInv
               PROVE  TypeOK
    OBVIOUS
  <2>1. groupQueries \in Seq(0 .. QueryCount)
    <3>1. groupQueries \in Seq(Seqs) /\ Seqs \subseteq 0 .. QueryCount
      BY ObjectSizes DEF ObjectInv, Seqs
    <3> QED
      BY <3>1, SeqMonotonic
  <2> QED
    BY <2>1 DEF TypeOK, ObjectInv, CallInv, CallTypes, Phases, Outcomes
<1> QED
  BY <1>1, QueryInvariant, PTL

\* An answer is never found where another query was added.
THEOREM AnswersPlaced == Spec => []AnswersAtTheirQueries
<1>1. CallInv => AnswersAtTheirQueries
  BY DEF CallInv
<1> QED
  BY <1>1, QueryInvariant, PTL

\* After a call without an exception every query has its answer.
THEOREM SuccessComplete == Spec => []CompleteOnSuccess
<1>1. ObjectInv /\ CallInv => CompleteOnSuccess
  <2> SUFFICES ASSUME ObjectInv, CallInv, pc = "returned", outcome = "ok"
               PROVE  Len(response) = QueryCount
                      /\ \A k \in DOMAIN response : response[k] # Empty
    BY DEF CompleteOnSuccess
  <2>1. /\ Len(response) = QueryCount /\ DOMAIN response = 1 .. QueryCount
        /\ \A k \in 1 .. QueryCount : response[sortedQueries[k] + 1] = sortedQueries[k]
    BY DEF CallInv, ReturnInv, Filled, CallTypes
  <2>2. ASSUME NEW k \in 1 .. QueryCount
        PROVE  response[k] # Empty
    <3>1. QueryCount \in Nat /\ k - 1 \in 0 .. QueryCount - 1 /\ k - 1 + 1 = k /\ k - 1 # Empty
      BY ObjectSizes DEF Empty
    <3>2. /\ sortedQueries \in [1 .. QueryCount -> 0 .. QueryCount - 1]
          /\ \A l, m \in 1 .. QueryCount : sortedQueries[l] = sortedQueries[m] => l = m
      BY DEF ObjectInv, Seqs
    <3>3. PICK l \in 1 .. QueryCount : sortedQueries[l] = k - 1
      BY <3>1, <3>2, EveryQuerySent
    <3> QED
      BY <2>1, <3>1, <3>3
  <2> QED
    BY <2>1, <2>2
<1> QED
  BY <1>1, QueryInvariant, PTL

\* After a warning no answer is missing up to the group it was found in.
THEOREM WarningsLate == Spec => []WarnedGroupComplete
<1>1. ObjectInv /\ CallInv => WarnedGroupComplete
  <2> SUFFICES ASSUME ObjectInv, CallInv, pc = "returned", outcome = "Warning",
                      NEW k \in 1 .. GroupStart(group) + QueryCountAtGroup(group)
               PROVE  response[sortedQueries[k] + 1] # Empty
    BY DEF WarnedGroupComplete
  <2>1. group \in 0 .. GroupQueryCount - 1 /\ Filled(GroupEnd(group))
    BY ObjectSizes, OptAssumption DEF CallInv, ReturnInv, CallTypes
  <2>2. /\ GroupStart(group) \in Nat /\ GroupEnd(group) \in Nat /\ GroupEnd(group) <= QueryCount
        /\ GroupStart(group) + QueryCountAtGroup(group) = GroupEnd(group)
    <3>1. /\ GroupStart(group) \in Nat /\ GroupEnd(group) \in GroupStart(group) + 1 .. QueryCount
          /\ QueryCountAtGroup(group) = GroupEnd(group) - GroupStart(group)
      BY <2>1, GroupsCut
    <3>2. QueryCount \in Nat
      BY ObjectSizes
    <3> QED
      BY <3>1, <3>2
  <2>3. k \in 1 .. GroupEnd(group) /\ k \in 1 .. QueryCount
    BY <2>2, ObjectSizes
  <2>4. response[sortedQueries[k] + 1] = sortedQueries[k]
    BY <2>1, <2>3 DEF Filled
  <2>5. sortedQueries[k] # Empty
    BY <2>3 DEF ObjectInv, Seqs, Empty
  <2> QED
    BY <2>4, <2>5
<1> QED
  BY <1>1, QueryInvariant, PTL

\* Every query is in one request, whatever edits the object went through.
THEOREM GroupsCorrect == Spec => []GroupsCoverQueries
BY QueryInvariant, ObjectCovers, PTL

\* optimise() makes one request of the queries of a hash, for any order
\* std::sort leaves them in.
THEOREM HashesGrouped == Spec => OneGroupPerHash
<1>1. ObjectInv /\ [Next]_vars =>
        [Optimise =>
            {{GroupQuery(i)'[k] : k \in 1 .. Len(GroupQuery(i)')} :
                i \in 0 .. GroupQueryCount' - 1}
            = {{q \in Seqs : HashOf(q) = h} : h \in {HashOf(q) : q \in Seqs}}]_vars
  BY OptimiseGroups
<1> QED
  BY <1>1, QueryInvariant, PTL DEF Spec, OneGroupPerHash
=============================================================================
