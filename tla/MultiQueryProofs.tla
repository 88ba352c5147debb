-------------------------- MODULE MultiQueryProofs --------------------------
(***************************************************************************)
(* MultiQuery_t and its query(), and the query() of single queries, for    *)
(* any number of queries and calls: the types, the order of answers, the   *)
(* calls that must not succeed, and the settings that searchd reads.       *)
(*                                                                         *)
(* WholeInv is inductive. ObjectKept says cell by cell what is in the      *)
(* buffer of the object: what was written of each query that was added,    *)
(* one behind the other, also of one whose addQuery() threw. RequestKept   *)
(* carries that into the request that is sent; ReadingKept says that       *)
(* searchd has still to read what was written of the queries it has not    *)
(* read, as long as all before are whole and fit; ToldKept, that what it   *)
(* read is what was meant; ParsingKept places the answers. HalfKept is     *)
(* about a query that was left half built at the end of a request: the     *)
(* counts that were written ask for more cells than were written, so that  *)
(* it is never read. Each step of a call needs all of them, with           *)
(* SettingsKept and OwnInv of the settings.                                *)
(***************************************************************************)
EXTENDS SearchRequestProofs

(* Putting queries into a buffer *)

LEMMA ItemPut ==
    ASSUME NEW q, Network(q), NEW item \in Items
    PROVE  ItemCells(q, item) = ItemCode(item)
  BY DEF ItemCells, ItemCode, Encoded, EncodeText, Ordered, Network

\* All items are put behind what is in the buffer.
LEMMA PutAllExtends ==
    ASSUME NEW q, Network(q), NEW items \in Seq(Items)
    PROVE  Extends(PutAll(q, items), q, Wire(items))
<1> DEFINE codes == [k \in DOMAIN items |-> ItemCells(q, items[k])]
<1>1. \A k \in DOMAIN items : items[k] \in Items /\ DOMAIN items = 1 .. Len(items)
  BY LenProperties, ElementOfSeq
<1>2. codes = Codes(items)
  <2>1. \A k \in DOMAIN items : ItemCells(q, items[k]) = ItemCode(items[k])
    BY <1>1, ItemPut
  <2>2. DOMAIN items = 1 .. Len(items)
    BY LenProperties
  <2> QED
    BY <2>1, <2>2 DEF Codes
<1>3. FlattenSeq(codes) = Wire(items) /\ Wire(items) \in Cells /\ Len(Wire(items)) \in Nat
  BY <1>2, WireTyped DEF Wire
<1> DEFINE cells == Wire(items)
<1>4. PutAll(q, items) = Store(Grow(q, Len(cells)), cells)
  BY <1>3 DEF PutAll
<1> HIDE DEF cells, codes
<1>5. cells \in Cells /\ Len(cells) \in Nat /\ q \in GoodBuffers
  BY <1>3 DEF cells, Network
<1>6. Same(Grow(q, Len(cells)), q) /\ q.dataEndPtr + Len(cells) <= Grow(q, Len(cells)).dataSize
  BY <1>5, GrowSame
<1> DEFINE grown == Grow(q, Len(cells))
<1>7. grown \in GoodBuffers /\ grown.dataEndPtr + Len(cells) <= grown.dataSize
  BY <1>6 DEF Same
<1> HIDE DEF grown
<1>8. Extends(Store(grown, cells), grown, cells)
  BY <1>5, <1>7, StoreExtends
<1>9. Same(grown, q)
  BY <1>6 DEF grown
<1>10. Extends(Store(grown, cells), q, cells)
  BY <1>8, <1>9, ExtendsSame
<1> QED
  BY <1>4, <1>10 DEF grown, cells

\* Another element at the end, of whatever kind.
IsList(list) == list \in Seq(Range(list))
LEMMA ListAppend ==
    ASSUME NEW list, IsList(list), NEW e
    PROVE  /\ IsList(Append(list, e)) /\ Len(list) \in Nat
           /\ Len(Append(list, e)) = Len(list) + 1
           /\ \A k \in 1 .. Len(list) : Append(list, e)[k] = list[k]
           /\ Append(list, e)[Len(list) + 1] = e
<1> DEFINE S == Range(list) \cup {e}
           new == Append(list, e)
<1>1. list \in Seq(S) /\ e \in S /\ Len(list) \in Nat
  <2>1. list \in Seq(Range(list)) /\ Range(list) \subseteq S
    BY DEF IsList
  <2> HIDE DEF S
  <2>2. list \in Seq(S)
    BY <2>1, SeqMonotonic
  <2> QED
    BY <2>1, <2>2, LenProperties DEF S
<1> HIDE DEF S
<1>2. /\ new \in Seq(S) /\ Len(new) = Len(list) + 1
      /\ \A k \in 1 .. Len(list) : new[k] = list[k]
      /\ new[Len(list) + 1] = e
  BY <1>1, AppendProperties
<1> HIDE DEF new
<1>3. new \in Seq(Range(new))
  <2>1. DOMAIN new = 1 .. Len(new) /\ Len(new) \in Nat /\ new = [k \in 1 .. Len(new) |-> new[k]]
    BY <1>2, LenProperties, SeqDef
  <2>2. \A k \in 1 .. Len(new) : new[k] \in Range(new)
    BY <2>1 DEF Range
  <2>3. new \in [1 .. Len(new) -> Range(new)]
    BY <2>1, <2>2
  <2> QED
    BY <2>1, <2>3, SeqDef
<1> QED
  BY <1>1, <1>2, <1>3 DEF IsList, new

LEMMA ListEmpty == IsList(<<>>) /\ Len(<<>>) = 0
  BY EmptySeq DEF IsList, Range

\* Settings as they are given to a query.
LEMMA AttrsGood ==
    ASSUME SettingsKept, OwnInv, NEW c \in Alive
    PROVE  GoodAttrs(Attrs(c)) /\ Attrs(c).commandVersion = configs[c].commandVersion
<1>1. c \in Configs /\ GoodSettings(configs[c])
  BY SettingsOf
<1> DEFINE fs == configs[c].filters
<1>2. fs \in Seq(Addresses) /\ OneToOne(fs) /\ Range(fs) \subseteq Used
  BY <1>1, PointersOf
<1>3. DOMAIN fs = 1 .. Len(fs) /\ Len(fs) \in Nat /\ \A k \in DOMAIN fs : fs[k] \in Addresses
  BY <1>2, LenProperties, ElementOfSeq
<1>4. \A k \in DOMAIN fs : heap[fs[k]] \in FilterValues
  BY <1>2, <1>3 DEF SettingsKept, Used, Range
<1>5. Filters(c) \in Seq(FilterValues) /\ Len(Filters(c)) = Len(fs)
  <2>1. Filters(c) = [k \in 1 .. Len(fs) |-> heap[fs[k]]]
    BY <1>3 DEF Filters
  <2>2. Filters(c) \in [1 .. Len(fs) -> FilterValues]
    BY <1>3, <1>4, <2>1
  <2> QED
    BY <1>3, <2>2, SeqDef, LenProperties
<1>6. Len(fs) < WordLimit
  <2>1. MaxFilters \in Nat /\ MaxFilters < WordLimit /\ WordLimit \in Nat
    BY ConfigAssumption, Limits
  <2>2. /\ IsFiniteSet(1 .. Len(fs)) /\ Cardinality(1 .. Len(fs)) = Len(fs)
        /\ IsFiniteSet(Addresses) /\ Cardinality(Addresses) = MaxFilters
    BY <1>3, <2>1, BelowFinite DEF Addresses
  <2>3. fs \in Injection(1 .. Len(fs), Addresses)
    <3>1. fs \in [1 .. Len(fs) -> Addresses]
      BY <1>2, <1>3, SeqDef
    <3> QED
      BY <1>2, <1>3, <3>1 DEF Injection, IsInjective, OneToOne
  <2>4. Cardinality(1 .. Len(fs)) <= Cardinality(Addresses)
    BY <2>2, <2>3, FS_Injection
  <2> QED
    BY <1>3, <2>1, <2>2, <2>4
<1>7. /\ DOMAIN configs[c] = DOMAIN Attrs(c) /\ Attrs(c).filters = Filters(c)
      /\ GoodSettings(Attrs(c)) /\ Attrs(c).commandVersion = configs[c].commandVersion
  <2>1. GoodSettings(Attrs(c))
    BY <1>1, FiltersReplaced DEF Attrs
  <2>2. {"filters", "commandVersion"} \subseteq DOMAIN configs[c]
    BY <1>1 DEF GoodSettings, SettingNames
  <2> QED
    BY <2>1, <2>2 DEF Attrs
<1> QED
  BY <1>5, <1>6, <1>7 DEF GoodAttrs

-----------------------------------------------------------------------------
(* The invariant of the calls *)

\* What a query that was added has put into the buffer.
LeftBy(entry) == Wire(Written(Message(entry.query, entry.attrs)))
Wires(list) == [k \in 1 .. Len(list) |-> LeftBy(list[k])]
WellAdded(entry, version) ==
    /\ entry.query \in Texts /\ GoodAttrs(entry.attrs) /\ entry.attrs.commandVersion = version
    /\ entry.whole = (Thrown(Message(entry.query, entry.attrs)) = {})
AllAdded(list, version) ==
    /\ version \in SearchVersions /\ IsList(list) /\ Len(list) \in Numbers
    /\ \A k \in 1 .. Len(list) : WellAdded(list[k], version)

ObjectKept ==
    /\ AllAdded(added, commandVersion)
    /\ queryCount = Len(added) /\ queryCount <= MaxQueries
    /\ queries \in GoodBuffers /\ Content(queries) = FlattenSeq(Wires(added))

\* The words between the header and the queries.
CountCells(version, count) ==
    IF version = VER_COMMAND_SEARCH_0_9_9 THEN CellsOf(count, 2)
    ELSE CellsOf(0, 2) \o CellsOf(count, 2)
Headed(number, version, size, rest) ==
    CellsOf(number, 1) \o (CellsOf(version, 1) \o (CellsOf(size, 2) \o rest))
SearchCells(version, size, count, cells) ==
    Headed(SEARCHD_COMMAND_SEARCH, version, size, CountCells(version, count) \o cells)
RequestKept ==
    /\ request \in GoodBuffers
    /\ pc = "launch" /\ unread = <<>> =>
          \E version, size \in Nat :
             /\ AllAdded(meant, version)
             /\ Content(request) = SearchCells(version, size, Len(meant), FlattenSeq(Wires(meant)))

FlagsKept ==
    /\ calls \in 0 .. MaxCalls
    /\ pc \in {"idle", "launch", "parse", "returned"}
    /\ outcome \in MachineErrors \cup {"none", "running", "ok", "Warning", "MessageError",
                                     "ClientUsageError"}
    /\ pc \in {"launch", "parse"} => /\ outcome = "running"
                                     /\ Len(meant) = IF single THEN 1 ELSE queryCount
    /\ single \in BOOLEAN

\* What is still to be read, unless something was read that was not meant.
ReadingKept ==
    /\ IsList(told) /\ IsList(meant)
    /\ pc = "parse" => unread # <<>>
    /\ unread = <<>> => told = <<>>
    /\ unread # <<>> =>
         /\ DOMAIN unread = {"version", "announced", "came", "wanted", "cells"}
         /\ AllAdded(meant, unread.version)
         /\ unread.wanted \in Nat /\ Len(told) + unread.wanted <= Len(meant)
         /\ unread.wanted > 0 =>
              /\ Len(told) + unread.wanted = Len(meant)
              /\ 1 .. Len(told) \subseteq Sound => unread.cells = FlattenSeq(Rest(Wires(meant), Len(told)))
         /\ unread.wanted = 0 => Len(told) = Len(meant) \/ Len(told) + 1 \notin Sound
ToldKept ==
    /\ \A k \in Sound \cap DOMAIN told :
         told[k] = [query |-> meant[k].query, attrs |-> Meaning(meant[k].attrs)]
    /\ \A k \in InPlace \cap DOMAIN told : told[k].query = meant[k].query
HalfKept ==
    \A k \in InPlace :
         FittingOrThrowing(meant[k].attrs) /\ ~meant[k].whole /\ k = Len(meant) => Len(told) < k

ParsingKept ==
    /\ IsList(data) /\ IsList(response) /\ IsList(held) /\ cursor \in Nat
    /\ pc \in {"idle", "launch"} => cursor = 0 /\ data = <<>>
    /\ Len(data) + cursor <= Len(told)
    /\ \A k \in 1 .. Len(data) : data[k].answers = told[cursor + k].query
    /\ single => cursor <= 1 /\ (cursor = 1 => found = told[1].query)
    /\ pc # "idle" =>
         /\ Len(response) = Len(held) + IF single THEN 0 ELSE cursor
         /\ \A k \in 1 .. Len(held) : response[k] = held[k]
         /\ ~single => \A k \in 1 .. cursor : response[Len(held) + k] = told[k].query
    /\ Succeeded => cursor = Len(meant) /\ (single => cursor = 1)

CallSound == RequestKept /\ FlagsKept /\ ReadingKept /\ ToldKept /\ ParsingKept
MultiInv == SettingsKept /\ OwnInv /\ ObjectKept /\ CallSound

-----------------------------------------------------------------------------
(* The queries of an object *)

LEMMA LeftTyped ==
    ASSUME NEW entry, NEW version, WellAdded(entry, version)
    PROVE  /\ Written(Message(entry.query, entry.attrs)) \in Seq(Items)
           /\ LeftBy(entry) \in Cells
<1>1. \E more : IsLeft(Written(Message(entry.query, entry.attrs)), entry.query, entry.attrs, more)
  BY WrittenShape DEF WellAdded
<1>2. Written(Message(entry.query, entry.attrs)) \in Seq(Items)
  BY <1>1 DEF IsLeft
<1> QED
  BY <1>2, WireTyped DEF LeftBy

LEMMA WiresTyped ==
    ASSUME NEW list, NEW version, AllAdded(list, version)
    PROVE  /\ Wires(list) \in Seq(Cells) /\ Len(Wires(list)) = Len(list) /\ Len(list) \in Nat
           /\ \A k \in 1 .. Len(list) : Wires(list)[k] = LeftBy(list[k])
<1>1. Len(list) \in Nat
  BY Limits DEF AllAdded
<1>2. \A k \in 1 .. Len(list) : LeftBy(list[k]) \in Cells
  BY LeftTyped DEF AllAdded
<1>3. Wires(list) \in [1 .. Len(list) -> Cells]
  BY <1>2 DEF Wires
<1>4. Wires(list) \in Seq(Cells) /\ Len(Wires(list)) = Len(list)
  BY <1>1, <1>3, SeqDef, LenProperties
<1> QED
  BY <1>1, <1>4 DEF Wires

\* The cells of one query more stand behind those of the others.
LEMMA WiresAppend ==
    ASSUME NEW list, NEW version, AllAdded(list, version), NEW entry, WellAdded(entry, version)
    PROVE  FlattenSeq(Wires(Append(list, entry))) = FlattenSeq(Wires(list)) \o LeftBy(entry)
<1> DEFINE new == Append(list, entry)
           last == <<LeftBy(entry)>>
<1>1. /\ IsList(list) /\ Len(list) \in Nat /\ Len(new) = Len(list) + 1
      /\ \A k \in 1 .. Len(list) : new[k] = list[k]
      /\ new[Len(list) + 1] = entry
  BY ListAppend DEF AllAdded
<1> HIDE DEF new
<1>2. /\ Wires(list) \in Seq(Cells) /\ Len(Wires(list)) = Len(list)
      /\ \A k \in 1 .. Len(list) : Wires(list)[k] = LeftBy(list[k])
  BY WiresTyped
<1>3. LeftBy(entry) \in Cells
  BY LeftTyped
<1>4. last \in Seq(Cells) /\ Len(last) = 1 /\ last[1] = LeftBy(entry)
  BY <1>3
<1> HIDE DEF last
<1>5. Wires(new) = Wires(list) \o last
  <2> DEFINE front == Wires(list)
             n == Len(list)
  <2>1. /\ front \in Seq(Cells) /\ Len(front) = n /\ n \in Nat /\ last \in Seq(Cells) /\ Len(last) = 1
        /\ \A k \in 1 .. n : front[k] = LeftBy(list[k])
    BY <1>1, <1>2, <1>4
  <2>2. /\ DOMAIN Wires(new) = 1 .. n + 1
        /\ \A k \in 1 .. n : Wires(new)[k] = LeftBy(list[k])
        /\ Wires(new)[n + 1] = LeftBy(entry)
        /\ Wires(new) = [k \in 1 .. n + 1 |-> Wires(new)[k]]
    BY <1>1 DEF Wires
  <2> HIDE DEF front, n
  <2>3. /\ front \o last \in Seq(Cells) /\ Len(front \o last) = n + 1
        /\ \A k \in 1 .. n : (front \o last)[k] = front[k]
        /\ \A k \in 1 .. 1 : (front \o last)[n + k] = last[k]
    <3>1. front \in Seq(Cells) /\ last \in Seq(Cells)
      BY <2>1
    <3>2. /\ front \o last \in Seq(Cells) /\ Len(front \o last) = Len(front) + Len(last)
          /\ \A j \in 1 .. Len(front) : (front \o last)[j] = front[j]
          /\ \A j \in 1 .. Len(last) : (front \o last)[Len(front) + j] = last[j]
      BY <3>1, ConcatIs
    <3> QED
      BY <2>1, <3>2
  <2>4. 1 \in 1 .. 1 /\ \A k \in 1 .. n + 1 : k \in 1 .. n \/ k = n + 1
    BY <2>1
  <2>5. \A k \in 1 .. n + 1 : Wires(new)[k] = (front \o last)[k]
    BY <1>4, <2>1, <2>2, <2>3, <2>4
  <2>6. \A k \in 1 .. n + 1 : (front \o last)[k] \in Cells
    BY <2>3, ElementOfSeq
  <2>7. Wires(new) \in [1 .. n + 1 -> Cells] /\ n + 1 \in Nat
    <3>1. \A k \in 1 .. n + 1 : Wires(new)[k] \in Cells
      BY <2>5, <2>6
    <3> QED
      BY <2>1, <2>2, <3>1
  <2>8. Wires(new) \in Seq(Cells) /\ Len(Wires(new)) = n + 1
    BY <2>7, SeqDef, LenProperties
  <2>9. Wires(new) = front \o last
    BY <2>3, <2>5, <2>8, SeqEqual
  <2> QED
    BY <2>9 DEF front
<1>6. FlattenSeq(last) = LeftBy(entry)
  <2>1. last # <<>> /\ last \in Seq(Seq(Nat))
    BY <1>4 DEF Cells
  <2>2. FlattenSeq(last) = last[1] \o FlattenSeq(Rest(last, 1))
    BY <2>1, JoinedFirst
  <2>3. FlattenSeq(Rest(last, 1)) = <<>>
    <3>1. 1 \in 0 .. Len(last) /\ 1 = Len(last)
      BY <1>4
    <3> QED
      BY <2>1, <3>1, JoinedRest
  <2> QED
    BY <1>3, <1>4, <2>2, <2>3, ConcatEmptySeq DEF Cells
<1>7. Wires(list) \in Seq(Seq(Nat)) /\ last \in Seq(Seq(Nat))
  BY <1>2, <1>4 DEF Cells
<1>8. FlattenSeq(Wires(list) \o last) = FlattenSeq(Wires(list)) \o FlattenSeq(last)
  BY <1>7, JoinedBoth
<1> QED
  BY <1>5, <1>6, <1>8 DEF new

\* A buffer with nothing in it.
LEMMA EmptyContent ==
    ASSUME NEW q \in GoodBuffers, q.dataStartPtr = q.dataEndPtr
    PROVE  Content(q) = <<>>
<1>1. Content(q) \in Seq(Nat) /\ Len(Content(q)) = 0
  BY ContentIs DEF Cells, GoodBuffers, GetLength
<1> QED
  BY <1>1, EmptySeq

LEMMA FirstBuffer == Query(InitialSize) \in GoodBuffers /\ Content(Query(InitialSize)) = <<>>
<1> DEFINE q == Query(InitialSize)
<1>1. InitialSize \in Nat
  BY BufferAssumption
<1>2. Uninitialised(InitialSize) \in Seq(Int) /\ Len(Uninitialised(InitialSize)) = InitialSize
  BY <1>1, Unset
<1>3. q \in GoodBuffers /\ q.dataStartPtr = q.dataEndPtr
  BY <1>1, <1>2 DEF Query, GoodBuffers
<1> QED
  BY <1>3, EmptyContent

LEMMA ClearedBuffer ==
    ASSUME NEW q \in GoodBuffers, NEW cleared,
           cleared = [q EXCEPT !.dataStartPtr = 0, !.dataEndPtr = 0]
    PROVE  cleared \in GoodBuffers /\ Content(cleared) = <<>>
<1>1. q = [data |-> q.data, dataStartPtr |-> q.dataStartPtr, dataEndPtr |-> q.dataEndPtr,
           dataSize |-> q.dataSize, convertEndian |-> q.convertEndian]
  BY DEF GoodBuffers
<1>2. cleared = [data |-> q.data, dataStartPtr |-> 0, dataEndPtr |-> 0,
                 dataSize |-> q.dataSize, convertEndian |-> q.convertEndian]
  BY <1>1
<1>3. /\ q.data \in Seq(Int) /\ q.dataSize \in Nat /\ q.convertEndian \in BOOLEAN
      /\ Len(q.data) = q.dataSize /\ q.dataSize >= InitialSize
  BY GoodParts
<1>4. cleared \in GoodBuffers /\ cleared.dataStartPtr = cleared.dataEndPtr
  BY <1>2, <1>3 DEF GoodBuffers
<1> QED
  BY <1>4, EmptyContent

LEMMA NoneAdded ==
    ASSUME NEW version \in SearchVersions
    PROVE  AllAdded(<<>>, version) /\ FlattenSeq(Wires(<<>>)) = <<>>
<1>1. AllAdded(<<>>, version)
  <2>1. 0 \in Numbers
    BY SmallNumbers
  <2> QED
    BY <2>1, ListEmpty DEF AllAdded
<1>2. Wires(<<>>) \in Seq(Cells) /\ Len(Wires(<<>>)) = 0
  BY <1>1, WiresTyped, ListEmpty
<1>3. Wires(<<>>) = <<>>
  BY <1>2, EmptySeq
<1>4. FlattenSeq(Rest(<<>>, 0)) = <<>> /\ Rest(<<>>, 0) = <<>>
  <2>1. <<>> \in Seq(Seq(Nat)) /\ 0 \in 0 .. Len(<<>>) /\ 0 = Len(<<>>)
    BY EmptySeq
  <2> QED
    BY <2>1, JoinedRest, ZenonT(30)
<1> QED
  BY <1>1, <1>3, <1>4

\* A query is put behind those that are there, and counted with them.
LEMMA BuiltBehind ==
    ASSUME NEW q, Network(q), NEW entry, NEW version, WellAdded(entry, version)
    PROVE  LET query == BuildQuery(entry.query, entry.attrs, q)
           IN /\ query.whole = entry.whole
              /\ Network(query.data) /\ Content(query.data) = Content(q) \o LeftBy(entry)
<1>1. Written(Message(entry.query, entry.attrs)) \in Seq(Items)
  BY LeftTyped
<1> DEFINE items == Written(Message(entry.query, entry.attrs))
<1> HIDE DEF items
<1>2. Extends(PutAll(q, items), q, Wire(items))
  BY <1>1, PutAllExtends DEF items
<1>3. BuildQuery(entry.query, entry.attrs, q) = [whole |-> entry.whole, data |-> PutAll(q, items)]
  BY DEF BuildQuery, items, WellAdded
<1>4. LeftBy(entry) = Wire(items)
  BY DEF LeftBy, items
<1>5. Network(PutAll(q, items)) /\ Content(PutAll(q, items)) = Content(q) \o Wire(items)
  BY <1>2 DEF Extends, Network
<1> QED
  BY <1>3, <1>4, <1>5

LEMMA InitObject == Init => ObjectKept
<1> SUFFICES ASSUME Init PROVE ObjectKept
  OBVIOUS
<1>1. /\ commandVersion \in SearchVersions /\ queries = Query(InitialSize) /\ queryCount = 0
      /\ added = <<>>
  BY DEF Init
<1>2. 0 <= MaxQueries
  BY MultiAssumption, Limits
<1> QED
  BY <1>1, <1>2, NoneAdded, FirstBuffer, ListEmpty DEF ObjectKept

LEMMA InitQueryKeepsObject ==
    ASSUME ObjectKept, InitQuery
    PROVE  ObjectKept'
<1>1. /\ commandVersion' \in SearchVersions /\ queryCount' = 0 /\ added' = <<>>
      /\ queries' = [queries EXCEPT !.dataStartPtr = 0, !.dataEndPtr = 0]
  BY DEF InitQuery
<1>2. queries' \in GoodBuffers /\ Content(queries') = <<>>
  BY <1>1, ClearedBuffer DEF ObjectKept
<1>3. AllAdded(added', commandVersion') /\ FlattenSeq(Wires(added')) = <<>>
  BY <1>1, NoneAdded
<1>4. 0 <= MaxQueries
  BY MultiAssumption, Limits
<1> QED
  BY <1>1, <1>2, <1>3, <1>4, ListEmpty DEF ObjectKept

LEMMA AddQueryKeepsObject ==
    ASSUME ObjectKept, SettingsKept, OwnInv, NEW c \in Configs, AddQuery(c)
    PROVE  ObjectKept'
<1>1. CASE commandVersion # configs[c].commandVersion
  <2>1. UNCHANGED object
    BY <1>1 DEF AddQuery
  <2> QED
    BY <2>1 DEF ObjectKept, object
<1>2. CASE commandVersion = configs[c].commandVersion
  <2> DEFINE q == [queries EXCEPT !.convertEndian = TRUE]
             built == BuildQuery(QueryText, Attrs(c), q)
             entry == [query |-> QueryText, attrs |-> Attrs(c), whole |-> built.whole]
  <2>1. /\ c \in Alive /\ Len(added) < MaxQueries
        /\ queries' = built.data /\ queryCount' = queryCount + 1
        /\ added' = Append(added, entry) /\ commandVersion' = commandVersion
    BY <1>2 DEF AddQuery, Serialised, Entry
  <2>2. Network(q) /\ Content(q) = Content(queries)
    BY DEF ObjectKept, Network, GoodBuffers, Content
  <2>3. GoodAttrs(Attrs(c)) /\ Attrs(c).commandVersion = commandVersion
    BY <1>2, <2>1, AttrsGood
  <2>4. QueryText \in Texts /\ Len(added) \in Nat
    <3>1. Len(added) \in Nat
      BY Limits DEF ObjectKept, AllAdded
    <3> QED
      BY <3>1, ShortTexts DEF QueryText
  <2>5. built.whole = (Thrown(Message(QueryText, Attrs(c))) = {})
    BY DEF BuildQuery
  <2> HIDE DEF q, built
  <2>6. WellAdded(entry, commandVersion)
    BY <2>3, <2>4, <2>5 DEF WellAdded
  <2>7. built = BuildQuery(entry.query, entry.attrs, q)
    BY DEF built
  <2> HIDE DEF entry
  <2>8. Network(built.data) /\ Content(built.data) = Content(q) \o LeftBy(entry)
    BY <2>2, <2>6, <2>7, BuiltBehind
  <2>9. AllAdded(added, commandVersion) /\ IsList(added)
    BY DEF ObjectKept, AllAdded
  <2>10. FlattenSeq(Wires(added')) = FlattenSeq(Wires(added)) \o LeftBy(entry)
    BY <2>1, <2>6, <2>9, WiresAppend
  <2>11. /\ IsList(added') /\ Len(added') = Len(added) + 1
         /\ \A k \in 1 .. Len(added) : added'[k] = added[k]
         /\ added'[Len(added) + 1] = entry
    BY <2>1, <2>9, ListAppend
  <2>12. Len(added) + 1 <= MaxQueries /\ Len(added) + 1 \in Numbers
    <3>1. MaxQueries \in Nat /\ MaxQueries < WordLimit /\ WordLimit \in Nat
      BY MultiAssumption, Limits
    <3> QED
      BY <2>1, <2>4, <3>1, Limits
  <2>13. AllAdded(added', commandVersion')
    <3>1. \A k \in 1 .. Len(added) + 1 : k \in 1 .. Len(added) \/ k = Len(added) + 1
      BY <2>4
    <3> QED
      BY <2>1, <2>6, <2>9, <2>11, <2>12, <3>1 DEF AllAdded
  <2> QED
    BY <2>1, <2>2, <2>8, <2>10, <2>11, <2>12, <2>13 DEF ObjectKept, Network
<1> QED
  BY <1>1, <1>2

-----------------------------------------------------------------------------
(* What is sent, and how its header is read *)

LEMMA CountPut ==
    ASSUME NEW q, Network(q), NEW version \in SearchVersions, NEW count \in Nat
    PROVE  /\ Network(PutCount(q, version, count))
           /\ Content(PutCount(q, version, count)) = Content(q) \o CountCells(version, count)
           /\ CountCells(version, count) \in Cells
<1> DEFINE zero == CellsOf(0, 2)
           last == CellsOf(count, 2)
<1>1. zero \in Cells /\ last \in Cells /\ Content(q) \in Cells
  <2>1. 0 \in Nat /\ 2 \in Nat /\ q \in GoodBuffers
    BY DEF Network
  <2> QED
    BY <2>1, CellsOfTyped, ContentIs
<1>2. 2 \in 1 .. 4 /\ 0 \in Nat
  OBVIOUS
<1>3. Network(PutWord(q, count)) /\ Content(PutWord(q, count)) = Content(q) \o last
  BY <1>2, PutsNumber DEF PutWord
<1>4. Network(PutWord(q, 0)) /\ Content(PutWord(q, 0)) = Content(q) \o zero
  BY <1>2, PutsNumber DEF PutWord
<1> DEFINE r == PutWord(q, 0)
<1>5. Network(PutWord(r, count)) /\ Content(PutWord(r, count)) = Content(r) \o last
  <2>1. Network(r)
    BY <1>4
  <2> HIDE DEF r
  <2> QED
    BY <1>2, <2>1, PutsNumber DEF PutWord
<1> HIDE DEF zero, last
<1>6. Content(PutWord(r, count)) = Content(q) \o (zero \o last) /\ zero \o last \in Cells
  <2>1. Content(r) = Content(q) \o zero
    BY <1>4
  <2> HIDE DEF r
  <2>2. (Content(q) \o zero) \o last = Content(q) \o (zero \o last)
    BY <1>1, Regrouped
  <2> QED
    BY <1>1, <1>5, <2>1, <2>2, JoinTyped
<1>7. CASE version = VER_COMMAND_SEARCH_0_9_9
  BY <1>1, <1>3, <1>7 DEF PutCount, CountCells, last
<1>8. CASE version # VER_COMMAND_SEARCH_0_9_9
  BY <1>5, <1>6, <1>8 DEF PutCount, CountCells, zero, last
<1> QED
  BY <1>7, <1>8

LEMMA VersionNumbers ==
    \A version \in SearchVersions : version \in Nat
  BY DEF SearchVersions, VER_COMMAND_SEARCH_0_9_9, VER_COMMAND_SEARCH_2_0_5

\* A request is the header, the number of queries and the body.
LEMMA RequestSent ==
    ASSUME NEW version \in SearchVersions, NEW count \in Nat, NEW body \in GoodBuffers
    PROVE  LET sent == PutQuery(BuildHeader(SEARCHD_COMMAND_SEARCH, version, BytesOf(body), count), body)
           IN /\ sent \in GoodBuffers
              /\ \E size \in Nat : Content(sent) = SearchCells(version, size, count, Content(body))
<1> DEFINE size == BytesOf(body) + 2 * Word
           a == CellsOf(SEARCHD_COMMAND_SEARCH, 1)
           b == CellsOf(version, 1)
           c == CellsOf(size, 2)
           d == CountCells(version, count)
           e == Content(body)
           q0 == NetworkQuery
           q1 == PutShort(q0, SEARCHD_COMMAND_SEARCH)
           q2 == PutShort(q1, version)
           q3 == PutWord(q2, size)
           q4 == PutCount(q3, version, count)
           q5 == PutQuery(q4, body)
<1>1. q5 = PutQuery(BuildHeader(SEARCHD_COMMAND_SEARCH, version, BytesOf(body), count), body)
  BY DEF BuildHeader
<1>2. size \in Nat /\ SEARCHD_COMMAND_SEARCH \in Nat /\ version \in Nat
  BY GoodParts, VersionNumbers DEF BytesOf, Word, SEARCHD_COMMAND_SEARCH
<1>3. 1 \in 1 .. 4 /\ 2 \in 1 .. 4 /\ 1 \in Nat /\ 2 \in Nat
  OBVIOUS
<1> HIDE DEF size, q5
<1>4. a \in Cells /\ b \in Cells /\ c \in Cells /\ e \in Cells
  BY <1>2, <1>3, CellsOfTyped, ContentIs
<1>5. Network(q0) /\ Content(q0) = <<>>
  BY NewBuffer DEF Network
<1> HIDE DEF q0
<1>6. Network(q1) /\ Content(q1) = Content(q0) \o a
  BY <1>2, <1>3, <1>5, PutsNumber DEF PutShort
<1> HIDE DEF q1
<1>7. Network(q2) /\ Content(q2) = Content(q1) \o b
  BY <1>2, <1>3, <1>6, PutsNumber DEF PutShort
<1> HIDE DEF q2
<1>8. Network(q3) /\ Content(q3) = Content(q2) \o c
  BY <1>2, <1>3, <1>7, PutsNumber DEF PutWord
<1> HIDE DEF q3
<1>9. Network(q4) /\ Content(q4) = Content(q3) \o d /\ d \in Cells
  BY <1>8, CountPut
<1> HIDE DEF q4, a, b, c, d
<1>10. q5 \in GoodBuffers /\ Content(q5) = Content(q4) \o e
  BY <1>9, PutQueryExtends DEF q5, Network, Extends
<1> HIDE DEF e
<1>11. Content(q5) = a \o (b \o (c \o (d \o e)))
  <2>1. Content(q1) = a
    BY <1>4, <1>5, <1>6, ConcatEmptySeq DEF Cells
  <2>2. Content(q5) = (((a \o b) \o c) \o d) \o e
    BY <1>7, <1>8, <1>9, <1>10, <2>1
  <2>3. a \o b \in Cells /\ (a \o b) \o c \in Cells /\ d \o e \in Cells /\ c \o (d \o e) \in Cells
    BY <1>4, <1>9, JoinTyped
  <2> DEFINE x == a \o b
             y == x \o c
             z == d \o e
             w == c \o z
  <2>4. x \in Cells /\ y \in Cells /\ z \in Cells /\ w \in Cells
    BY <2>3
  <2>5. x \o w = a \o (b \o w)
    <3> HIDE DEF w
    <3>1. a \in Cells /\ b \in Cells /\ w \in Cells
      BY <1>4, <2>4
    <3>2. (a \o b) \o w = a \o (b \o w)
      BY <3>1, Regrouped
    <3> QED
      BY <3>2
  <2>6. y \o z = x \o w
    <3> HIDE DEF x, z
    <3>1. x \in Cells /\ c \in Cells /\ z \in Cells
      BY <1>4, <2>4
    <3>2. (x \o c) \o z = x \o (c \o z)
      BY <3>1, Regrouped
    <3> QED
      BY <3>2
  <2>7. (y \o d) \o e = y \o z
    <3> HIDE DEF y
    <3>1. y \in Cells /\ d \in Cells /\ e \in Cells
      BY <1>4, <1>9, <2>4
    <3>2. (y \o d) \o e = y \o (d \o e)
      BY <3>1, Regrouped
    <3> QED
      BY <3>2
  <2> QED
    BY <2>2, <2>5, <2>6, <2>7
<1>12. Content(q5) = SearchCells(version, size, count, Content(body))
  BY <1>11 DEF SearchCells, Headed, a, b, c, d, e
<1> QED
  BY <1>1, <1>2, <1>10, <1>12

\* The command, the version and the length are taken off.
LEMMA HeaderBack ==
    ASSUME NEW number \in Nat, NEW version \in Nat, NEW size \in Nat, NEW rest \in Cells
    PROVE  LET header == TakeAll(Reading(Headed(number, version, size, rest)), <<1, 1, 2>>)
           IN /\ header \in Readers /\ header.ok /\ header.rest = rest
              /\ header.got[1] = Number(CellsOf(number, 1))
              /\ header.got[2] = Number(CellsOf(version, 1))
              /\ header.got[3] = Number(CellsOf(size, 2))
<1> DEFINE cells == Headed(number, version, size, rest)
           a == CellsOf(number, 1)
           b == CellsOf(version, 1)
           c == CellsOf(size, 2)
           third == c \o rest
           second == b \o third
           first == a \o second
           r == Reading(cells)
           format == <<1, 1, 2>>
           items == <<number, version, size>>
           left == [k \in 0 .. 3 |-> IF k = 0 THEN first ELSE IF k = 1 THEN second
                                     ELSE IF k = 2 THEN third ELSE rest]
<1>1. 1 \in Nat /\ 2 \in Nat
  OBVIOUS
<1>2. a \in Cells /\ b \in Cells /\ c \in Cells
  BY <1>1, CellsOfTyped
<1> HIDE DEF a, b, c
<1>3. third \in Cells
  BY <1>2, JoinTyped
<1> HIDE DEF third
<1>4. second \in Cells
  BY <1>2, <1>3, JoinTyped
<1> HIDE DEF second
<1>5. first \in Cells
  BY <1>2, <1>4, JoinTyped
<1>6. cells = first
  BY DEF first, second, third, a, b, c, Headed
<1> HIDE DEF cells
<1>7. r \in Readers /\ r.ok /\ r.got = <<>> /\ r.rest = first
  <2>1. cells \in Cells /\ r = [got |-> <<>>, rest |-> cells, ok |-> TRUE, named |-> <<>>]
    BY <1>5, <1>6 DEF Reading
  <2> HIDE DEF r, first
  <2>2. r \in Readers /\ r.ok /\ r.got = <<>> /\ r.rest = cells
    BY <2>1 DEF Readers
  <2> QED
    BY <1>6, <2>2
<1>8. /\ format \in Seq(Widths) /\ Len(format) = 3
      /\ format[1] = 1 /\ format[2] = 1 /\ format[3] = 2
  BY DEF Widths, Text
<1>9. items[1] = number /\ items[2] = version /\ items[3] = size
  OBVIOUS
<1>10. /\ left \in [0 .. 3 -> Cells]
       /\ left[0] = first /\ left[1] = second /\ left[2] = third /\ left[3] = rest
  <2> HIDE DEF first
  <2> QED
    BY <1>3, <1>4, <1>5
<1> HIDE DEF r, format, items, left
<1>11. ASSUME NEW k \in 1 .. 3
       PROVE  /\ Sendable(format[k], items[k])
              /\ left[k - 1] = Encoded(format[k], items[k]) \o left[k]
  <2>1. k = 1 \/ k = 2 \/ k = 3
    OBVIOUS
  <2>2. 1 # Text /\ 2 # Text
    BY DEF Text
  <2>3. /\ Sendable(1, number) /\ Encoded(1, number) = a
        /\ Sendable(1, version) /\ Encoded(1, version) = b
        /\ Sendable(2, size) /\ Encoded(2, size) = c
    BY <2>2 DEF Sendable, Encoded, a, b, c
  <2>4. 1 - 1 = 0 /\ 2 - 1 = 1 /\ 3 - 1 = 2
    OBVIOUS
  <2> QED
    BY <1>8, <1>9, <1>10, <2>1, <2>3, <2>4 DEF first, second, third
<1>12. IsWritten(r, format, items, left)
  BY <1>7, <1>8, <1>10, <1>11 DEF IsWritten
<1>13. IsReadBack(TakeAll(r, format), format, items, left)
  BY <1>12, TakesBack
<1>14. /\ Decoded(1, number) = Number(a) /\ Decoded(1, version) = Number(b)
       /\ Decoded(2, size) = Number(c)
  BY DEF Decoded, Text, a, b, c
<1> QED
  BY <1>8, <1>9, <1>10, <1>13, <1>14 DEF IsReadBack, r, format, a, b, c, cells

\* The number of queries is taken off.
CountFormat(version) == IF version = VER_COMMAND_SEARCH_0_9_9 THEN <<2>> ELSE <<2, 2>>
LEMMA CountBack ==
    ASSUME NEW version \in SearchVersions, NEW count \in Numbers, NEW cells \in Cells
    PROVE  LET read == TakeAll(At(CountCells(version, count) \o cells, <<>>), CountFormat(version))
           IN read.rest = cells /\ Last(read.got) = count
<1>1. 0 \in Numbers
  BY SmallNumbers
<1>2. /\ <<W(count)>> \in Seq(Items) /\ Wire(<<W(count)>>) = CellsOf(count, 2)
      /\ <<W(0)>> \in Seq(Items) /\ Wire(<<W(0)>>) = CellsOf(0, 2)
  BY <1>1, ItemsAre, OneItem, WireOne DEF ItemCode, Encoded, W, Text
<1>3. CASE version = VER_COMMAND_SEARCH_0_9_9
  <2>1. /\ Formats(<<W(count)>>) = <<2>> /\ Values(<<W(count)>>) = <<count>>
        /\ CountCells(version, count) = Wire(<<W(count)>>) /\ CountFormat(version) = <<2>>
    BY <1>2, <1>3 DEF Formats, Values, W, CountCells, CountFormat
  <2>2. TakeAll(At(Wire(<<W(count)>>) \o cells, <<>>), Formats(<<W(count)>>))
          = [got |-> Values(<<W(count)>>), rest |-> cells, ok |-> TRUE, named |-> <<>>]
    BY <1>2, TakesItems
  <2>3. Last(<<count>>) = count
    BY DEF Last
  <2> QED
    BY <2>1, <2>2, <2>3
<1>4. CASE version # VER_COMMAND_SEARCH_0_9_9
  <2> DEFINE two == <<W(0), W(count)>>
  <2>1. /\ two \in Seq(Items) /\ <<W(0)>> \o <<W(count)>> = two
        /\ Formats(two) = <<2, 2>> /\ Values(two) = <<0, count>>
    <3>1. W(0) \in Items /\ W(count) \in Items
      BY <1>1, ItemsAre
    <3>2. two \in Seq(Items) /\ Len(two) = 2 /\ two[1] = W(0) /\ two[2] = W(count)
      BY <3>1
    <3>3. <<W(0)>> \o <<W(count)>> = two
      BY TwoItems
    <3> HIDE DEF two
    <3>4. /\ Formats(two) \in Seq(Widths) /\ Len(Formats(two)) = 2
          /\ Values(two) \in Seq(Nat \cup Cells) /\ Len(Values(two)) = 2
          /\ \A k \in 1 .. 2 : Formats(two)[k] = two[k].width /\ Values(two)[k] = two[k].value
      BY <3>2, FormatsTyped
    <3>5. 1 \in 1 .. 2 /\ 2 \in 1 .. 2 /\ \A k \in 1 .. 2 : k = 1 \/ k = 2
      OBVIOUS
    <3>6. /\ Formats(two)[1] = 2 /\ Formats(two)[2] = 2
          /\ Values(two)[1] = 0 /\ Values(two)[2] = count
      BY <3>2, <3>4, <3>5 DEF W
    <3>7. /\ <<2, 2>> \in Seq(Widths) /\ Len(<<2, 2>>) = 2
          /\ <<0, count>> \in Seq(Nat \cup Cells) /\ Len(<<0, count>>) = 2
      BY Limits DEF Widths
    <3>8. Formats(two) = <<2, 2>>
      BY <3>4, <3>5, <3>6, <3>7, SeqEqual
    <3>9. Values(two) = <<0, count>>
      BY <3>4, <3>5, <3>6, <3>7, SeqEqual
    <3> QED
      BY <3>2, <3>3, <3>8, <3>9
  <2>2. Wire(two) = CountCells(version, count) /\ CountFormat(version) = <<2, 2>>
    BY <1>2, <1>4, <2>1, WireBoth DEF CountCells, CountFormat
  <2> HIDE DEF two
  <2>3. TakeAll(At(Wire(two) \o cells, <<>>), Formats(two))
          = [got |-> Values(two), rest |-> cells, ok |-> TRUE, named |-> <<>>]
    BY <2>1, TakesItems
  <2> QED
    BY <2>1, <2>2, <2>3, SMTT(40) DEF Last
<1> QED
  BY <1>3, <1>4

LEMMA VersionBack ==
    ASSUME NEW version \in SearchVersions
    PROVE  Version(Number(CellsOf(version, 1))) = version
<1>1. Number(CellsOf(version, 1)) = version % CellBase
  BY VersionNumbers, OneCell
<1>2. \A v \in SearchVersions : v % CellBase = version % CellBase => v = version
  BY MultiAssumption
<1> QED
  BY <1>1, <1>2 DEF Version

-----------------------------------------------------------------------------
(* Calls that start, and steps that read nothing *)

LEMMA ListOf ==
    ASSUME NEW S, NEW list \in Seq(S)
    PROVE  IsList(list) /\ Len(list) \in Nat /\ DOMAIN list = 1 .. Len(list)
<1>1. Len(list) \in Nat /\ DOMAIN list = 1 .. Len(list) /\ list = [k \in 1 .. Len(list) |-> list[k]]
  BY LenProperties, SeqDef
<1>2. list \in [1 .. Len(list) -> Range(list)]
  BY <1>1 DEF Range
<1> QED
  BY <1>1, <1>2, SeqDef DEF IsList

LEMMA ListTyped ==
    ASSUME NEW list, IsList(list)
    PROVE  Len(list) \in Nat /\ DOMAIN list = 1 .. Len(list)
  BY LenProperties DEF IsList

LEMMA EmptyList == IsList(<<>>) /\ Len(<<>>) = 0 /\ DOMAIN <<>> = {}
  BY ListEmpty, EmptySeq

\* What is in place and sound is a matter of what was meant.
LEMMA MeantStays ==
    ASSUME UNCHANGED meant
    PROVE  Sound' = Sound /\ InPlace' = InPlace
  BY DEF Sound, InPlace

LEMMA PlacesTyped ==
    ASSUME IsList(meant)
    PROVE  /\ Sound \subseteq 1 .. Len(meant) /\ InPlace \subseteq 1 .. Len(meant)
           /\ Len(meant) \in Nat
           /\ \A k \in Sound : 1 .. k \subseteq Sound /\ k \in InPlace
           /\ \A k \in InPlace : 1 .. k - 1 \subseteq Sound
<1>1. Len(meant) \in Nat /\ DOMAIN meant = 1 .. Len(meant)
  BY ListTyped
<1>2. Sound \subseteq 1 .. Len(meant) /\ InPlace \subseteq 1 .. Len(meant)
  BY <1>1 DEF Sound, InPlace
<1>3. \A k \in Sound : 1 .. k \subseteq Sound
  BY <1>1 DEF Sound
<1>4. \A k \in Sound : k \in InPlace
  <2> TAKE k \in Sound
  <2>1. 1 .. k - 1 \subseteq 1 .. k /\ k \in DOMAIN meant
    BY <1>1, <1>2
  <2> QED
    BY <1>3, <2>1 DEF InPlace
<1> QED
  BY <1>1, <1>2, <1>3, <1>4 DEF InPlace


\* A call at its start, and no call.
LEMMA NothingRead ==
    ASSUME unread' = <<>>, told' = <<>>, data' = <<>>, cursor' = 0, IsList(meant'), IsList(response'),
           IsList(held'), pc' # "idle" => held' = response',
           RequestKept', FlagsKept', pc' # "parse", outcome' \notin {"ok", "Warning"}
    PROVE  CallSound' /\ HalfKept'
<1>1. ReadingKept'
  BY EmptyList DEF ReadingKept
<1>2. ToldKept'
  BY EmptyList DEF ToldKept
<1>3. HalfKept'
  <2>1. Len(told') = 0 /\ Len(meant') \in Nat /\ DOMAIN meant' = 1 .. Len(meant')
    BY EmptyList, ListTyped
  <2>2. \A k \in InPlace' : k \in 1 .. Len(meant')
    BY <2>1 DEF InPlace
  <2> QED
    BY <2>1, <2>2 DEF HalfKept
<1>4. ParsingKept'
  <2>1. /\ Len(data') = 0 /\ Len(told') = 0 /\ IsList(data')
        /\ Len(response') \in Nat
    BY EmptyList, ListTyped
  <2>2. pc' # "idle" => /\ Len(response') = Len(held') + 0
                        /\ \A k \in 1 .. Len(held') : response'[k] = held'[k]
    BY <2>1
  <2> QED
    BY <2>1, <2>2 DEF ParsingKept, Succeeded
<1> QED
  BY <1>1, <1>2, <1>3, <1>4 DEF CallSound

LEMMA InitCalls == Init => CallSound /\ HalfKept
<1> SUFFICES ASSUME Init PROVE CallSound /\ HalfKept
  OBVIOUS
<1>1. /\ pc = "idle" /\ single = FALSE /\ cursor = 0 /\ request = NetworkQuery /\ meant = <<>>
      /\ unread = <<>> /\ told = <<>> /\ data = <<>> /\ response = <<>> /\ outcome = "none"
      /\ held = <<>> /\ calls = 0
  BY DEF Init, ConfigInit
<1>2. ReadingKept
  BY <1>1, EmptyList DEF ReadingKept
<1>3. ToldKept
  BY <1>1, EmptyList DEF ToldKept
<1>4. HalfKept
  BY <1>1, EmptyList DEF HalfKept, InPlace
<1>5. ParsingKept
  <2>1. Len(data) = 0 /\ Len(told) = 0 /\ IsList(data) /\ IsList(response) /\ IsList(held)
    BY <1>1, EmptyList
  <2> QED
    BY <1>1, <2>1 DEF ParsingKept, Succeeded
<1>6. RequestKept
  BY <1>1, NewBuffer DEF RequestKept
<1>7. FlagsKept
  <2>1. 0 \in 0 .. MaxCalls
    BY ConfigAssumption
  <2> QED
    BY <1>1, <2>1 DEF FlagsKept
<1> QED
  BY <1>2, <1>3, <1>4, <1>5, <1>6, <1>7 DEF CallSound

LEMMA CallCounted ==
    ASSUME FlagsKept, Call
    PROVE  calls' \in 0 .. MaxCalls
  BY ConfigAssumption DEF FlagsKept, Call

\* The caller between two calls.
LEMMA BetweenKeeps ==
    ASSUME CallSound, FreshLocals, pc' = "idle", UNCHANGED results,
           outcome' \in {"none", "ClientUsageError"}, calls' \in 0 .. MaxCalls
    PROVE  CallSound' /\ HalfKept'
<1>1. /\ unread' = <<>> /\ told' = <<>> /\ data' = <<>> /\ cursor' = 0 /\ meant' = <<>>
      /\ request' = NetworkQuery /\ single' = FALSE /\ response' = response /\ held' = <<>>
  BY DEF FreshLocals, results
<1>2. IsList(meant') /\ IsList(response') /\ IsList(held')
  BY <1>1, EmptyList DEF CallSound, ParsingKept
<1>3. RequestKept'
  BY <1>1, NewBuffer DEF RequestKept
<1>4. FlagsKept'
  BY <1>1 DEF FlagsKept
<1> QED
  BY <1>1, <1>2, <1>3, <1>4, NothingRead

LEMMA ConfigCalls ==
    ASSUME ConfigNext
    PROVE  Call
  BY DEF ConfigNext, Construct, Destroy, CopyConstruct, Assign, AddFilter, Set, SetWeight,
         AddAttributeOverride

LEMMA CallerKeeps ==
    ASSUME CallSound, Configure \/ InitQuery \/ \E c \in Configs : AddQuery(c)
    PROVE  CallSound' /\ HalfKept'
<1>1. CASE Configure
  <2>1. calls' \in 0 .. MaxCalls
    BY <1>1, ConfigCalls, CallCounted DEF Configure, CallSound
  <2> QED
    BY <1>1, <2>1, BetweenKeeps DEF Configure, Edit, Between
<1>2. CASE InitQuery
  <2>1. calls' \in 0 .. MaxCalls
    BY <1>2 DEF InitQuery, configVars, CallSound, FlagsKept
  <2> QED
    BY <1>2, <2>1, BetweenKeeps DEF InitQuery, Edit, Between
<1>3. ASSUME NEW c \in Configs, AddQuery(c)
      PROVE  CallSound' /\ HalfKept'
  <2>1. calls' \in 0 .. MaxCalls
    BY <1>3 DEF AddQuery, configVars, CallSound, FlagsKept
  <2>2. FreshLocals /\ pc' = "idle" /\ UNCHANGED results
    BY <1>3 DEF AddQuery, Between
  <2>3. outcome' \in {"none", "ClientUsageError"}
    BY <1>3 DEF AddQuery
  <2> QED
    BY <2>1, <2>2, <2>3, BetweenKeeps
<1> QED
  BY <1>1, <1>2, <1>3

\* A call of query() has sent what was meant.
LEMMA SendKeeps ==
    ASSUME CallSound, Call, NEW version, NEW body \in GoodBuffers, AllAdded(meant', version),
           Send(version, body, Len(meant')), Content(body) = FlattenSeq(Wires(meant')),
           unread' = <<>>, told' = <<>>, data' = <<>>, cursor' = 0, UNCHANGED results,
           held' = response, single' \in BOOLEAN, Len(meant') = IF single' THEN 1 ELSE queryCount'
    PROVE  CallSound' /\ HalfKept'
<1>1. /\ pc' = "launch" /\ outcome' = "running"
      /\ request' = PutQuery(BuildHeader(SEARCHD_COMMAND_SEARCH, version, BytesOf(body), Len(meant')), body)
  BY DEF Send
<1>2. version \in SearchVersions /\ Len(meant') \in Nat
  BY Limits DEF AllAdded
<1>3. /\ request' \in GoodBuffers
      /\ \E size \in Nat : Content(request') = SearchCells(version, size, Len(meant'), Content(body))
  BY <1>1, <1>2, RequestSent
<1>4. RequestKept'
  <2>1. version \in Nat
    BY <1>2, VersionNumbers
  <2> QED
    BY <1>1, <1>3, <2>1 DEF RequestKept
<1>5. calls' \in 0 .. MaxCalls
  BY CallCounted DEF CallSound
<1>6. FlagsKept'
  BY <1>1, <1>5 DEF FlagsKept
<1>7. IsList(meant') /\ IsList(response') /\ held' = response'
  BY DEF AllAdded, CallSound, ParsingKept, results
<1> QED
  BY <1>1, <1>4, <1>6, <1>7, NothingRead

\* It is refused.
LEMMA RefusalKeeps ==
    ASSUME CallSound, Call, Return("ClientUsageError"), request' = NetworkQuery, meant' = <<>>,
           unread' = <<>>, told' = <<>>, data' = <<>>, cursor' = 0, UNCHANGED results,
           held' = response, single' \in BOOLEAN
    PROVE  CallSound' /\ HalfKept'
<1>1. pc' = "returned" /\ outcome' = "ClientUsageError"
  BY DEF Return
<1>2. RequestKept'
  BY <1>1, NewBuffer DEF RequestKept
<1>3. calls' \in 0 .. MaxCalls
  BY CallCounted DEF CallSound
<1>4. FlagsKept'
  BY <1>1, <1>3 DEF FlagsKept
<1>5. IsList(meant') /\ IsList(response') /\ held' = response'
  BY EmptyList DEF CallSound, ParsingKept, results
<1> QED
  BY <1>1, <1>2, <1>4, <1>5, NothingRead

LEMMA MultiStarts ==
    ASSUME CallSound, ObjectKept, QueryMulti
    PROVE  CallSound' /\ HalfKept'
<1>1. /\ Call /\ single' = FALSE /\ cursor' = 0 /\ held' = response
      /\ unread' = <<>> /\ told' = <<>> /\ data' = <<>> /\ UNCHANGED results /\ UNCHANGED object
  BY DEF QueryMulti
<1>2. CASE queryCount = 0 \/ GetLength(queries) = 0
  <2>1. Return("ClientUsageError") /\ request' = NetworkQuery /\ meant' = <<>>
    BY <1>2 DEF QueryMulti
  <2> QED
    BY <1>1, <2>1, RefusalKeeps
<1>3. CASE ~(queryCount = 0 \/ GetLength(queries) = 0)
  <2>1. Send(commandVersion, queries, queryCount) /\ meant' = added
    BY <1>3 DEF QueryMulti
  <2>2. /\ AllAdded(meant', commandVersion) /\ queries \in GoodBuffers
        /\ Content(queries) = FlattenSeq(Wires(meant'))
        /\ queryCount = Len(meant') /\ queryCount' = queryCount
    BY <1>1, <2>1 DEF ObjectKept, object
  <2>3. Len(meant') = IF single' THEN 1 ELSE queryCount'
    BY <1>1, <2>2
  <2>4. Send(commandVersion, queries, Len(meant'))
    BY <2>1, <2>2
  <2> QED
    BY <1>1, <2>2, <2>3, <2>4, SendKeeps
<1> QED
  BY <1>2, <1>3

LEMMA OneStarts ==
    ASSUME CallSound, SettingsKept, OwnInv, NEW c \in Configs, QueryOne(c)
    PROVE  CallSound' /\ HalfKept'
<1> DEFINE built == BuildQuery(<<1>>, Attrs(c), NetworkQuery)
           entry == [query |-> <<1>>, attrs |-> Attrs(c), whole |-> TRUE]
           version == configs[c].commandVersion
<1>1. /\ Call /\ single' = TRUE /\ cursor' = 0 /\ c \in Alive /\ held' = response
      /\ unread' = <<>> /\ told' = <<>> /\ data' = <<>> /\ UNCHANGED results
  BY DEF QueryOne
<1>2. CASE ~built.whole
  <2>1. Return("ClientUsageError") /\ request' = NetworkQuery /\ meant' = <<>>
    BY <1>2 DEF QueryOne
  <2> QED
    BY <1>1, <2>1, RefusalKeeps
<1>3. CASE built.whole
  <2>1. Send(version, built.data, 1) /\ meant' = <<entry>>
    BY <1>3 DEF QueryOne
  <2>2. GoodAttrs(Attrs(c)) /\ Attrs(c).commandVersion = version
    BY <1>1, AttrsGood
  <2>3. <<1>> \in Texts
    BY ShortTexts
  <2>4. TRUE = (Thrown(Message(<<1>>, Attrs(c))) = {})
    BY <1>3 DEF BuildQuery
  <2>5. WellAdded(entry, version)
    BY <2>2, <2>3, <2>4 DEF WellAdded
  <2>6. version \in SearchVersions
    BY <1>1, SettingsOf DEF GoodSettings
  <2>7. /\ built = BuildQuery(entry.query, entry.attrs, NetworkQuery)
        /\ Network(NetworkQuery) /\ Content(NetworkQuery) = <<>>
    BY NewBuffer DEF Network
  <2> HIDE DEF built, entry, version
  <2>8. Network(built.data) /\ Content(built.data) = <<>> \o LeftBy(entry)
    BY <2>5, <2>7, BuiltBehind
  <2>9. AllAdded(<<>>, version) /\ FlattenSeq(Wires(<<>>)) = <<>>
    BY <2>6, NoneAdded
  <2>10. /\ Append(<<>>, entry) = <<entry>> /\ Len(<<entry>>) = 1 /\ <<entry>>[1] = entry
         /\ IsList(<<entry>>)
    <3>1. <<entry>> \in Seq({entry})
      OBVIOUS
    <3>2. Append(<<>>, entry) = <<entry>> /\ Len(<<entry>>) = 1 /\ <<entry>>[1] = entry
      OBVIOUS
    <3> QED
      BY <3>1, <3>2, ListOf
  <2>11. FlattenSeq(Wires(<<entry>>)) = <<>> \o LeftBy(entry)
    BY <2>5, <2>9, <2>10, WiresAppend
  <2>12. AllAdded(meant', version) /\ Len(meant') = 1
    <3>1. 1 \in Numbers
      BY SmallNumbers
    <3> QED
      BY <2>1, <2>5, <2>6, <2>10, <3>1 DEF AllAdded
  <2>13. /\ built.data \in GoodBuffers /\ Content(built.data) = FlattenSeq(Wires(meant'))
         /\ Len(meant') = IF single' THEN 1 ELSE queryCount'
         /\ Send(version, built.data, Len(meant')) /\ single' \in BOOLEAN
    BY <1>1, <2>1, <2>8, <2>11, <2>12 DEF Network
  <2> QED
    BY <1>1, <2>12, <2>13, SendKeeps
<1> QED
  BY <1>2, <1>3

-----------------------------------------------------------------------------
(* searchd reads *)

LEMMA ThrowKeeps ==
    ASSUME CallSound, HalfKept, LaunchThrows
    PROVE  CallSound' /\ HalfKept'
<1>1. /\ pc = "launch" /\ pc' = "returned" /\ outcome' \in MachineErrors
      /\ UNCHANGED <<configVars, object, locals, results, held>>
  BY DEF LaunchThrows, Return
<1>2. /\ UNCHANGED <<single, cursor, request, meant, unread, told, data, response, found, held, calls, queryCount>>
  BY <1>1 DEF locals, object, configVars, results
<1>3. outcome' \notin {"ok", "Warning"}
  BY <1>1, MultiAssumption
<1>4. ToldKept' /\ HalfKept'
  BY <1>2, MeantStays DEF CallSound, ToldKept, HalfKept
<1>5. ReadingKept'
  BY <1>1, <1>2, MeantStays DEF CallSound, ReadingKept
<1>6. RequestKept' /\ FlagsKept'
  BY <1>1, <1>2 DEF CallSound, RequestKept, FlagsKept
<1>7. ParsingKept'
  <2>1. cursor = 0 /\ pc' # "idle" /\ pc # "idle"
    BY <1>1 DEF CallSound, ParsingKept
  <2> QED
    BY <1>1, <1>2, <1>3, <2>1 DEF CallSound, ParsingKept, Succeeded
<1> QED
  BY <1>4, <1>5, <1>6, <1>7 DEF CallSound

\* A step that leaves the caller's side alone.
LEMMA ReadingIsQuiet ==
    ASSUME CallSound, pc = "launch", unread' # <<>>, IsList(told'), Len(told) <= Len(told'),
           UNCHANGED <<configVars, object, pc, single, cursor, request, meant, data, results, outcome, held>>
    PROVE  RequestKept' /\ FlagsKept' /\ ParsingKept'
<1>1. UNCHANGED <<calls, queryCount, response, found>>
  BY DEF configVars, object, results
<1>2. RequestKept' /\ FlagsKept'
  BY <1>1 DEF CallSound, RequestKept, FlagsKept
<1>3. /\ cursor = 0 /\ data = <<>> /\ IsList(told) /\ outcome = "running"
      /\ IsList(response) /\ IsList(data)
  BY DEF CallSound, ParsingKept, ReadingKept, FlagsKept
<1>4. Len(told') \in Nat /\ Len(data) = 0
  BY <1>3, ListTyped, EmptyList
<1>5. /\ IsList(held) /\ held' = held /\ pc' = pc /\ single' = single /\ data' = data
      /\ outcome' = outcome /\ cursor' = cursor /\ meant' = meant
  BY DEF CallSound, ParsingKept
<1>6. /\ Len(response) = Len(held) + IF single THEN 0 ELSE cursor
      /\ \A k \in 1 .. Len(held) : response[k] = held[k]
  BY DEF CallSound, ParsingKept
<1>7. /\ Len(response') = Len(held') + IF single' THEN 0 ELSE cursor'
      /\ \A k \in 1 .. Len(held') : response'[k] = held'[k]
  BY <1>1, <1>5, <1>6
<1>8. ~Succeeded'
  BY <1>3, <1>5 DEF Succeeded
<1>9. ParsingKept'
  BY <1>1, <1>3, <1>4, <1>5, <1>7, <1>8 DEF ParsingKept
<1> QED
  BY <1>2, <1>9

LEMMA HeaderKeeps ==
    ASSUME CallSound, HalfKept, ReadHeader
    PROVE  CallSound' /\ HalfKept'
<1> DEFINE header == TakeAll(Reading(Content(request)), <<1, 1, 2>>)
           count == TakeAll(Behind(header), CountFormat(Version(header.got[2])))
           cells == FlattenSeq(Wires(meant))
<1>1. /\ pc = "launch" /\ unread = <<>>
      /\ unread' = [version |-> Version(header.got[2]), announced |-> header.got[3],
                    came |-> 2 * Len(header.rest), wanted |-> Last(count.got), cells |-> count.rest]
      /\ UNCHANGED <<configVars, object, pc, single, cursor, request, meant, told, data, results, outcome, held>>
  BY DEF ReadHeader, CountFormat
<1>2. PICK version, size \in Nat :
         /\ AllAdded(meant, version)
         /\ Content(request) = SearchCells(version, size, Len(meant), cells)
  BY <1>1 DEF CallSound, RequestKept
<1> HIDE DEF header, count
<1>3. version \in SearchVersions /\ Len(meant) \in Numbers /\ Len(meant) \in Nat
  BY <1>2, Limits DEF AllAdded
<1>4. Wires(meant) \in Seq(Cells) /\ cells \in Cells
  BY <1>2, WiresTyped, JoinedIsSeq DEF Cells
<1> HIDE DEF cells
<1> DEFINE rest == CountCells(version, Len(meant)) \o cells
<1>5. rest \in Cells
  <2>1. Network(NetworkQuery)
    BY NewBuffer DEF Network
  <2>2. CountCells(version, Len(meant)) \in Cells
    BY <1>3, <2>1, CountPut
  <2> QED
    BY <1>4, <2>2, JoinTyped
<1>6. /\ header \in Readers /\ header.ok /\ header.rest = rest
      /\ header.got[2] = Number(CellsOf(version, 1))
  <2>1. Content(request) = Headed(SEARCHD_COMMAND_SEARCH, version, size, rest)
    BY <1>2 DEF SearchCells
  <2>2. SEARCHD_COMMAND_SEARCH \in Nat
    BY DEF SEARCHD_COMMAND_SEARCH
  <2>3. header = TakeAll(Reading(Headed(SEARCHD_COMMAND_SEARCH, version, size, rest)), <<1, 1, 2>>)
    BY <2>1 DEF header
  <2> HIDE DEF rest
  <2> QED
    BY <1>5, <2>2, <2>3, HeaderBack
<1>7. Version(header.got[2]) = version
  BY <1>3, <1>6, VersionBack
<1>8. Behind(header) = At(rest, <<>>)
  <2> HIDE DEF rest
  <2>1. /\ header = [got |-> header.got, rest |-> header.rest, ok |-> header.ok, named |-> header.named]
        /\ header.named = <<>>
    BY <1>6 DEF Readers
  <2>2. Behind(header) = [got |-> <<>>, rest |-> header.rest, ok |-> header.ok, named |-> header.named]
    BY <2>1 DEF Behind
  <2> QED
    BY <1>6, <2>1, <2>2 DEF At
<1>9. count.rest = cells /\ Last(count.got) = Len(meant)
  BY <1>3, <1>4, <1>7, <1>8, CountBack DEF count
<1>10. /\ DOMAIN unread' = {"version", "announced", "came", "wanted", "cells"}
       /\ unread'.version = version /\ unread'.wanted = Len(meant) /\ unread'.cells = cells
  BY <1>1, <1>7, <1>9
<1>11. unread' # <<>>
  BY <1>10, EmptyList
<1>12. /\ told = <<>> /\ told' = <<>> /\ meant' = meant /\ Len(told') = 0 /\ IsList(told')
       /\ IsList(meant)
  BY <1>1, EmptyList DEF CallSound, ReadingKept
<1>13. FlattenSeq(Rest(Wires(meant), 0)) = cells
  <2>1. Wires(meant) \in Seq(Seq(Nat)) /\ 0 \in 0 .. Len(Wires(meant))
    BY <1>4, LenProperties DEF Cells
  <2> QED
    BY <2>1, JoinedRest DEF cells
<1>14. ReadingKept'
  BY <1>1, <1>2, <1>3, <1>10, <1>11, <1>12, <1>13 DEF ReadingKept
<1>15. ToldKept' /\ HalfKept'
  BY <1>12, MeantStays DEF CallSound, ToldKept, HalfKept
<1>16. Len(told) <= Len(told')
  BY <1>12
<1>17. RequestKept' /\ FlagsKept' /\ ParsingKept'
  BY <1>1, <1>11, <1>12, <1>16, ReadingIsQuiet
<1> QED
  BY <1>14, <1>15, <1>17 DEF CallSound

\* The next query that searchd reads.
Next1 == Len(told) + 1
ReadNow == ReadOne(unread.cells, unread.version)
LEMMA NextRead ==
    ASSUME CallSound, unread # <<>>, unread.wanted > 0
    PROVE  /\ Next1 \in 1 .. Len(meant) /\ Next1 - 1 = Len(told) /\ Len(told) \in Nat
           /\ Next1 \in InPlace =>
                /\ WellAdded(meant[Next1], unread.version)
                /\ \E tail \in Cells :
                     /\ tail = FlattenSeq(Rest(Wires(meant), Next1))
                     /\ Next1 = Len(meant) => tail = <<>>
                     /\ unread.cells = LeftBy(meant[Next1]) \o tail
<1>1. /\ AllAdded(meant, unread.version) /\ unread.wanted \in Nat
      /\ Len(told) + unread.wanted = Len(meant) /\ IsList(told)
      /\ 1 .. Len(told) \subseteq Sound => unread.cells = FlattenSeq(Rest(Wires(meant), Len(told)))
  BY DEF CallSound, ReadingKept
<1>2. Len(told) \in Nat /\ Len(meant) \in Nat
  BY <1>1, ListTyped, WiresTyped
<1>3. Next1 \in 1 .. Len(meant) /\ Next1 - 1 = Len(told) /\ Len(told) \in 0 .. Len(meant) /\ Len(told) < Len(meant)
  BY <1>1, <1>2 DEF Next1
<1>4. ASSUME Next1 \in InPlace
      PROVE  /\ WellAdded(meant[Next1], unread.version)
             /\ \E tail \in Cells :
                  /\ tail = FlattenSeq(Rest(Wires(meant), Next1))
                  /\ Next1 = Len(meant) => tail = <<>>
                  /\ unread.cells = LeftBy(meant[Next1]) \o tail
  <2>1. 1 .. Len(told) \subseteq Sound
    BY <1>3, <1>4 DEF InPlace
  <2>2. unread.cells = FlattenSeq(Rest(Wires(meant), Len(told)))
    BY <1>1, <2>1
  <2> DEFINE ss == Wires(meant)
             tail == FlattenSeq(Rest(ss, Next1))
             n == Len(told)
  <2>3. /\ ss \in Seq(Cells) /\ Len(ss) = Len(meant)
        /\ \A k \in 1 .. Len(meant) : ss[k] = LeftBy(meant[k])
    BY <1>1, WiresTyped
  <2>4. ss \in Seq(Seq(Nat)) /\ n \in 0 .. Len(ss) /\ n < Len(ss) /\ n + 1 = Next1 /\ Next1 \in 0 .. Len(ss)
    BY <1>2, <1>3, <2>3 DEF Cells, Next1
  <2>5. unread.cells = FlattenSeq(Rest(ss, n))
    BY <2>2
  <2> HIDE DEF ss, n
  <2>6. FlattenSeq(Rest(ss, n)) = ss[n + 1] \o FlattenSeq(Rest(ss, n + 1))
    BY <2>4, JoinedRest
  <2>7. tail \in Cells /\ (Next1 = Len(ss) => tail = <<>>)
    <3>1. ss \in Seq(Seq(Nat)) /\ Next1 \in 0 .. Len(ss)
      BY <2>4
    <3>2. FlattenSeq(Rest(ss, Next1)) \in Seq(Nat)
      BY <3>1, JoinedRest
    <3>3. Next1 = Len(ss) => FlattenSeq(Rest(ss, Next1)) = <<>>
      BY <3>1, JoinedRest
    <3> QED
      BY <3>2, <3>3 DEF Cells
  <2>8. unread.cells = LeftBy(meant[Next1]) \o tail
    BY <1>3, <2>3, <2>4, <2>5, <2>6
  <2>9. WellAdded(meant[Next1], unread.version)
    BY <1>1, <1>3 DEF AllAdded
  <2> QED
    BY <2>3, <2>7, <2>8, <2>9 DEF ss
<1> QED
  BY <1>2, <1>3, <1>4

-----------------------------------------------------------------------------
(* A query that is read *)

LEMMA SoundRead ==
    ASSUME CallSound, unread # <<>>, unread.wanted > 0, Next1 \in Sound
    PROVE  /\ ReadNow.ok /\ ReadNow.rest = FlattenSeq(Rest(Wires(meant), Next1))
           /\ ReadNow.named.query = meant[Next1].query
           /\ [s \in Settings |-> ReadNow.named[s]] = Meaning(meant[Next1].attrs)
<1> DEFINE entry == meant[Next1]
           message == Message(entry.query, entry.attrs)
           version == unread.version
<1>1. Next1 \in InPlace
  BY PlacesTyped DEF CallSound, ReadingKept
<1>2. WellAdded(entry, version)
  BY <1>1, NextRead
<1>3. PICK tail \in Cells : /\ tail = FlattenSeq(Rest(Wires(meant), Next1))
                            /\ unread.cells = LeftBy(entry) \o tail
  BY <1>1, NextRead
<1>4. Fitting(entry.attrs)
  <2>1. Next1 \in 1 .. Next1
    BY NextRead
  <2> QED
    BY <2>1 DEF Sound
<1>5. GoodAttrs(entry.attrs) /\ entry.query \in Texts /\ entry.attrs.commandVersion = version
  BY <1>2 DEF WellAdded
<1> HIDE DEF entry, message
<1>6. /\ message \in Seq(Items)
      /\ \E known :
            /\ ReadOne(Wire(message) \o tail, entry.attrs.commandVersion) = At(tail, known)
            /\ known.query = entry.query
            /\ [s \in Settings |-> known[s]] = Meaning(entry.attrs)
  BY <1>4, <1>5, QueryRead, SMTT(40) DEF message
<1>7. PICK known :
            /\ ReadOne(Wire(message) \o tail, version) = At(tail, known)
            /\ known.query = entry.query
            /\ [s \in Settings |-> known[s]] = Meaning(entry.attrs)
  BY <1>5, <1>6
<1>8. Written(message) = message
  BY <1>6, WrittenAll
<1>9. LeftBy(entry) = Wire(message)
  BY <1>8 DEF LeftBy, message
<1>10. ReadNow = At(tail, known)
  BY <1>3, <1>7, <1>9 DEF ReadNow
<1>11. ReadNow.ok /\ ReadNow.rest = tail /\ ReadNow.named = known
  BY <1>10 DEF At
<1> QED
  BY <1>3, <1>7, <1>11 DEF entry

LEMMA PlaceRead ==
    ASSUME CallSound, unread # <<>>, unread.wanted > 0, Next1 \in InPlace, ReadNow.ok
    PROVE  ReadNow.named.query = meant[Next1].query
<1> DEFINE entry == meant[Next1]
           left == Written(Message(entry.query, entry.attrs))
           version == unread.version
<1>1. WellAdded(entry, version)
  BY NextRead
<1>2. PICK tail \in Cells : unread.cells = LeftBy(entry) \o tail
  BY NextRead
<1>3. GoodAttrs(entry.attrs) /\ entry.query \in Texts /\ entry.attrs.commandVersion = version
  BY <1>1 DEF WellAdded
<1> HIDE DEF entry
<1>4. PICK more : IsLeft(left, entry.query, entry.attrs, more)
  BY <1>3, WrittenShape
<1>5. LeftBy(entry) = Wire(left)
  BY DEF LeftBy
<1> HIDE DEF left
<1>6. LET r == ReadOne(Wire(left) \o tail, entry.attrs.commandVersion)
      IN r.ok => r.named.query = entry.query
  BY <1>3, <1>4, QueryKept
<1>7. ReadNow = ReadOne(Wire(left) \o tail, entry.attrs.commandVersion)
  BY <1>2, <1>3, <1>5 DEF ReadNow
<1> QED
  BY <1>6, <1>7 DEF entry

LEMMA QueryKeeps ==
    ASSUME CallSound, ReadQuery
    PROVE  CallSound'
<1> DEFINE query == ReadNow
           n == Next1
           entry == [query |-> query.named.query, attrs |-> [s \in Settings |-> query.named[s]]]
<1>1. /\ pc = "launch" /\ unread # <<>> /\ unread.wanted > 0
      /\ UNCHANGED <<configVars, object, pc, single, cursor, request, meant, data, results, outcome, held>>
      /\ IF query.ok
         THEN /\ told' = Append(told, entry)
              /\ unread' = [unread EXCEPT !.wanted = @ - 1, !.cells = query.rest]
         ELSE unread' = [unread EXCEPT !.wanted = 0] /\ UNCHANGED told
  BY DEF ReadQuery, ReadNow, ReadOne, ReadSettings
<1>2. /\ n \in 1 .. Len(meant) /\ n - 1 = Len(told) /\ Len(told) \in Nat /\ n = Len(told) + 1
  BY <1>1, NextRead DEF Next1
<1>3. /\ DOMAIN unread = {"version", "announced", "came", "wanted", "cells"}
      /\ AllAdded(meant, unread.version) /\ unread.wanted \in Nat /\ Len(meant) \in Nat
      /\ Len(told) + unread.wanted = Len(meant) /\ IsList(told) /\ IsList(meant)
  BY <1>1, WiresTyped DEF CallSound, ReadingKept
<1>4. DOMAIN told = 1 .. Len(told)
  BY <1>3, ListTyped
<1>5. n \in Sound => /\ query.ok /\ query.rest = FlattenSeq(Rest(Wires(meant), n))
                     /\ entry = [query |-> meant[n].query, attrs |-> Meaning(meant[n].attrs)]
  BY <1>1, SoundRead
<1>6. n \in InPlace /\ query.ok => entry.query = meant[n].query
  BY <1>1, PlaceRead
<1>7. /\ Sound' = Sound /\ InPlace' = InPlace /\ meant' = meant
  BY <1>1, MeantStays
<1> HIDE DEF query, n, entry
<1>8. CASE query.ok
  <2>1. /\ told' = Append(told, entry)
        /\ unread' = [unread EXCEPT !.wanted = @ - 1, !.cells = query.rest]
    BY <1>1, <1>8
  <2>2. /\ IsList(told') /\ Len(told') = n /\ told'[n] = entry
        /\ \A k \in 1 .. Len(told) : told'[k] = told[k]
    BY <1>2, <1>3, <2>1, ListAppend
  <2>3. /\ DOMAIN unread' = {"version", "announced", "came", "wanted", "cells"}
        /\ unread'.version = unread.version /\ unread'.wanted = unread.wanted - 1
        /\ unread'.cells = query.rest
    BY <1>3, <2>1
  <2>4. unread' # <<>>
    BY <2>3, EmptyList
  <2>5. DOMAIN told' = 1 .. n
    BY <2>2, ListTyped
  <2>6. /\ unread.wanted - 1 \in Nat /\ n + (unread.wanted - 1) = Len(meant) /\ n \in Nat
    BY <1>1, <1>2, <1>3
  <2>7. ReadingKept'
    <3>1. 1 .. n \subseteq Sound => query.rest = FlattenSeq(Rest(Wires(meant), n))
      <4>1. n \in 1 .. n
        BY <2>6, <1>2
      <4> QED
        BY <1>5, <4>1
    <3>2. unread.wanted - 1 = 0 => n = Len(meant)
      BY <1>3, <2>6
    <3>3. pc' # "parse"
      BY <1>1
    <3> QED
      BY <1>3, <1>7, <2>2, <2>3, <2>4, <2>6, <3>1, <3>2, <3>3 DEF ReadingKept
  <2>8. ToldKept'
    <3>1. \A k \in 1 .. n : k = n \/ k \in 1 .. Len(told)
      BY <1>2
    <3>2. \A k \in Sound \cap 1 .. n :
            told'[k] = [query |-> meant[k].query, attrs |-> Meaning(meant[k].attrs)]
      <4> TAKE k \in Sound \cap 1 .. n
      <4>1. CASE k = n
        BY <1>5, <2>2, <4>1
      <4>2. CASE k \in 1 .. Len(told)
        BY <1>4, <2>2, <4>2 DEF CallSound, ToldKept
      <4> QED
        BY <3>1, <4>1, <4>2
    <3>3. \A k \in InPlace \cap 1 .. n : told'[k].query = meant[k].query
      <4> TAKE k \in InPlace \cap 1 .. n
      <4>1. CASE k = n
        BY <1>6, <1>8, <2>2, <4>1
      <4>2. CASE k \in 1 .. Len(told)
        BY <1>4, <2>2, <4>2 DEF CallSound, ToldKept
      <4> QED
        BY <3>1, <4>1, <4>2
    <3> QED
      BY <1>7, <2>5, <3>2, <3>3 DEF ToldKept
  <2>9. Len(told) <= Len(told')
    BY <1>2, <2>2
  <2>10. RequestKept' /\ FlagsKept' /\ ParsingKept'
    BY <1>1, <2>2, <2>4, <2>9, ReadingIsQuiet
  <2> QED
    BY <2>7, <2>8, <2>10 DEF CallSound
<1>9. CASE ~query.ok
  <2>1. unread' = [unread EXCEPT !.wanted = 0] /\ told' = told
    BY <1>1, <1>9
  <2>2. /\ DOMAIN unread' = {"version", "announced", "came", "wanted", "cells"}
        /\ unread'.version = unread.version /\ unread'.wanted = 0
    BY <1>3, <2>1
  <2>3. unread' # <<>>
    BY <2>2, EmptyList
  <2>4. n \notin Sound /\ Len(told) <= Len(meant)
    BY <1>2, <1>5, <1>9
  <2>5. ReadingKept'
    <3>1. pc' # "parse" /\ 0 \in Nat /\ Len(told) + 0 <= Len(meant)
      BY <1>1, <1>2, <2>4
    <3> QED
      BY <1>2, <1>3, <1>7, <2>1, <2>2, <2>3, <2>4, <3>1 DEF ReadingKept
  <2>6. ToldKept'
    BY <1>7, <2>1 DEF CallSound, ToldKept
  <2>7. Len(told) <= Len(told')
    BY <1>2, <2>1
  <2>8. RequestKept' /\ FlagsKept' /\ ParsingKept'
    BY <1>1, <1>3, <2>1, <2>3, <2>7, ReadingIsQuiet
  <2> QED
    BY <2>5, <2>6, <2>8 DEF CallSound
<1> QED
  BY <1>8, <1>9

LEMMA ReturnsKeep ==
    ASSUME CallSound, HalfKept, LaunchReturns
    PROVE  CallSound' /\ HalfKept'
<1>1. /\ pc = "launch" /\ pc' = "parse" /\ unread # <<>>
      /\ \E kinds \in [DOMAIN told -> {"ok", "warning", "error"}] :
           data' = [k \in DOMAIN kinds |-> [answers |-> told[k].query, kind |-> kinds[k]]]
      /\ UNCHANGED <<configVars, object, single, cursor, request, meant, unread, told, results, outcome, held>>
  BY DEF LaunchReturns, AllRead
<1>2. UNCHANGED <<calls, queryCount, response, found>>
  BY <1>1 DEF configVars, object, results
<1>3. IsList(told) /\ Len(told) \in Nat /\ DOMAIN told = 1 .. Len(told)
  BY ListTyped DEF CallSound, ReadingKept
<1>4. /\ DOMAIN data' = 1 .. Len(told)
      /\ \A k \in 1 .. Len(told) : data'[k].answers = told[k].query
      /\ data' = [k \in 1 .. Len(told) |-> data'[k]]
  BY <1>1, <1>3
<1>5. IsList(data') /\ Len(data') = Len(told)
  <2>1. data' \in [1 .. Len(told) -> Range(data')]
    BY <1>4 DEF Range
  <2>2. data' \in Seq(Range(data'))
    BY <1>3, <2>1, SeqDef
  <2> QED
    BY <1>3, <1>4, <2>2, LenProperties DEF IsList
<1>6. /\ cursor = 0 /\ IsList(response) /\ outcome = "running"
  BY <1>1 DEF CallSound, ParsingKept, FlagsKept
<1>7. ParsingKept'
  <2>1. Len(response) \in Nat
    BY <1>6, ListTyped
  <2>2. /\ cursor' = 0 /\ response' = response /\ Len(data') + 0 <= Len(told) /\ told' = told
        /\ pc' = "parse" /\ outcome' = "running"
        /\ \A k \in 1 .. Len(data') : data'[k].answers = told[0 + k].query
    BY <1>1, <1>2, <1>3, <1>4, <1>5, <1>6
  <2>3. /\ held' = held /\ single' = single /\ IsList(held)
        /\ Len(response) = Len(held) + IF single THEN 0 ELSE 0
        /\ \A k \in 1 .. Len(held) : response[k] = held[k]
    BY <1>1, <1>6 DEF CallSound, ParsingKept
  <2>4. single => cursor <= 1 /\ (cursor = 1 => found = told[1].query)
    BY DEF CallSound, ParsingKept
  <2> QED
    BY <1>2, <1>3, <1>5, <1>6, <2>1, <2>2, <2>3, <2>4 DEF ParsingKept, Succeeded
<1>8. RequestKept' /\ FlagsKept'
  BY <1>1, <1>2 DEF CallSound, RequestKept, FlagsKept
<1>9. ReadingKept' /\ ToldKept' /\ HalfKept'
  BY <1>1, MeantStays DEF CallSound, ReadingKept, ToldKept, HalfKept
<1> QED
  BY <1>7, <1>8, <1>9 DEF CallSound

-----------------------------------------------------------------------------
(* The answers are parsed *)

\* A step that leaves searchd's side alone.
LEMMA ParsingIsQuiet ==
    ASSUME CallSound, HalfKept, pc = "parse", pc' \in {"parse", "returned"},
           pc' = "parse" => outcome' = "running",
           outcome' \in {"running", "ok", "Warning", "MessageError"},
           UNCHANGED <<configVars, object, single, request, meant, unread, told>>
    PROVE  RequestKept' /\ FlagsKept' /\ ReadingKept' /\ ToldKept' /\ HalfKept'
<1>1. UNCHANGED <<calls, queryCount>>
  BY DEF configVars, object
<1>2. RequestKept' /\ FlagsKept'
  BY <1>1 DEF CallSound, RequestKept, FlagsKept
<1>3. ReadingKept' /\ ToldKept' /\ HalfKept'
  BY MeantStays DEF CallSound, ReadingKept, ToldKept, HalfKept
<1> QED
  BY <1>2, <1>3

LEMMA AnswerKeeps ==
    ASSUME CallSound, HalfKept, ParseAnswer
    PROVE  CallSound' /\ HalfKept'
<1>1. /\ pc = "parse" /\ Left > 0
      /\ UNCHANGED <<configVars, object, single, request, meant, unread, told, held>>
  BY DEF ParseAnswer
<1>2. /\ IsList(data) /\ IsList(response) /\ IsList(held) /\ cursor \in Nat /\ Len(data) + cursor <= Len(told)
      /\ \A k \in 1 .. Len(data) : data[k].answers = told[cursor + k].query
      /\ single => cursor <= 1 /\ (cursor = 1 => found = told[1].query)
      /\ Len(response) = Len(held) + IF single THEN 0 ELSE cursor
      /\ \A k \in 1 .. Len(held) : response[k] = held[k]
      /\ ~single => \A k \in 1 .. cursor : response[Len(held) + k] = told[k].query
      /\ outcome = "running" /\ single \in BOOLEAN
  BY <1>1 DEF CallSound, ParsingKept, FlagsKept
<1>3. Len(data) \in Nat /\ Len(response) \in Nat /\ Len(held) \in Nat /\ IsList(told) /\ Len(told) \in Nat
  BY <1>2, ListTyped DEF CallSound, ReadingKept
<1>4. single => cursor < 1
  BY <1>1, <1>2 DEF Left
<1>5. CASE data = <<>> \/ Head(data).kind = "error"
  <2>1. /\ pc' = "returned" /\ outcome' = "MessageError" /\ found' = (IF single THEN <<>> ELSE found)
        /\ UNCHANGED <<cursor, data, response>>
    BY <1>5 DEF ParseAnswer, Return
  <2>2. RequestKept' /\ FlagsKept' /\ ReadingKept' /\ ToldKept' /\ HalfKept'
    BY <1>1, <2>1, ParsingIsQuiet
  <2>3. ParsingKept'
    <3>1. outcome' \notin {"ok", "Warning"} /\ pc' \notin {"idle", "launch"}
      BY <2>1
    <3> QED
      BY <1>1, <1>2, <1>3, <1>4, <2>1, <3>1 DEF ParsingKept, Succeeded
  <2> QED
    BY <2>2, <2>3 DEF CallSound
<1>6. CASE ~(data = <<>> \/ Head(data).kind = "error")
  <2> DEFINE answer == Head(data).answers
  <2>1. /\ found' = (IF single THEN answer ELSE found)
        /\ response' = (IF single THEN response ELSE Append(response, answer))
        /\ data' = Tail(data) /\ cursor' = cursor + 1 /\ pc' = pc /\ outcome' = outcome
    BY <1>6 DEF ParseAnswer
  <2>2. data # <<>> /\ data \in Seq(Range(data))
    BY <1>2, <1>6 DEF IsList
  <2>3. /\ Tail(data) \in Seq(Range(data)) /\ Len(Tail(data)) = Len(data) - 1 /\ Len(data) >= 1
        /\ \A k \in 1 .. Len(data) - 1 : Tail(data)[k] = data[k + 1]
        /\ Head(data) = data[1]
    BY <2>2, HeadTailProperties, EmptySeq
  <2>4. IsList(data')
    BY <2>1, <2>3, ListOf
  <2>5. answer = told[cursor + 1].query
    <3>1. 1 \in 1 .. Len(data)
      BY <1>3, <2>3
    <3> QED
      BY <1>2, <2>3, <3>1
  <2> HIDE DEF answer
  <2>6. RequestKept' /\ FlagsKept' /\ ReadingKept' /\ ToldKept' /\ HalfKept'
    BY <1>1, <1>2, <2>1, ParsingIsQuiet
  <2>7. \A k \in 1 .. Len(data') : data'[k].answers = told'[cursor' + k].query
    <3> TAKE k \in 1 .. Len(data')
    <3>1. k \in 1 .. Len(data) - 1 /\ k + 1 \in 1 .. Len(data) /\ cursor + (k + 1) = (cursor + 1) + k
      BY <1>2, <1>3, <2>1, <2>3
    <3>2. data'[k].answers = told[cursor + (k + 1)].query
      BY <1>2, <2>1, <2>3, <3>1
    <3> QED
      BY <1>1, <2>1, <3>1, <3>2
  <2>8. Len(data') + cursor' <= Len(told') /\ cursor' \in Nat
    BY <1>1, <1>2, <1>3, <2>1, <2>3
  <2>9. CASE single
    <3>1. cursor' = 1 /\ found' = told'[1].query /\ response' = response /\ single'
      BY <1>1, <1>2, <1>4, <2>1, <2>5, <2>9
    <3>2. pc' = "parse" /\ outcome' = "running" /\ held' = held
      BY <1>1, <1>2, <2>1
    <3>3. /\ IsList(held) /\ IsList(response) /\ Len(response) = Len(held) + 0
          /\ \A k \in 1 .. Len(held) : response[k] = held[k]
      BY <1>2, <2>9
    <3> QED
      BY <2>4, <2>6, <2>7, <2>8, <3>1, <3>2, <3>3 DEF ParsingKept, Succeeded, CallSound
  <2>10. CASE ~single
    <3>1. /\ IsList(response') /\ Len(response') = Len(response) + 1
          /\ \A k \in 1 .. Len(response) : response'[k] = response[k]
          /\ response'[Len(response) + 1] = answer
      BY <1>2, <2>1, <2>10, ListAppend
    <3>2. /\ cursor' = cursor + 1 /\ ~single' /\ pc' = "parse" /\ outcome' = "running" /\ told' = told
      BY <1>1, <1>2, <2>1, <2>10
    <3> DEFINE n == Len(held)
    <3>3. n \in Nat /\ Len(response) = n + cursor /\ Len(response') = n + (cursor + 1)
      BY <1>2, <1>3, <2>10, <3>1
    <3>4. \A k \in 1 .. n : response'[k] = held[k]
      <4> TAKE k \in 1 .. n
      <4>1. k \in 1 .. Len(response)
        BY <1>2, <3>3
      <4> QED
        BY <1>2, <3>1, <4>1
    <3>5. ASSUME NEW k \in 1 .. cursor + 1
          PROVE  response'[n + k] = told[k].query
      <4>1. CASE k = cursor + 1
        <5>1. n + k = Len(response) + 1
          BY <1>2, <3>3, <4>1
        <5> QED
          BY <2>5, <3>1, <4>1, <5>1
      <4>2. CASE k \in 1 .. cursor
        <5> DEFINE place == n + k
        <5>1. place \in 1 .. Len(response)
          BY <1>2, <3>3, <4>2
        <5>2. response[place] = told[k].query
          BY <1>2, <2>10, <4>2
        <5> HIDE DEF place
        <5>3. response'[place] = response[place]
          BY <3>1, <5>1
        <5> QED
          BY <5>2, <5>3 DEF place
      <4> QED
        BY <1>2, <4>1, <4>2
    <3> HIDE DEF n
    <3>6. Len(held') = n /\ held' = held /\ IsList(held')
      BY <1>1, <1>2 DEF n
    <3>7. \A k \in 1 .. Len(held') : response'[k] = held'[k]
      BY <3>4, <3>6
    <3>8. \A k \in 1 .. cursor' : response'[Len(held') + k] = told'[k].query
      BY <3>2, <3>5, <3>6
    <3>9. Len(response') = Len(held') + cursor'
      BY <3>2, <3>3, <3>6
    <3> QED
      BY <2>4, <2>6, <2>7, <2>8, <3>1, <3>2, <3>6, <3>7, <3>8, <3>9 DEF ParsingKept, Succeeded, CallSound
  <2> QED
    BY <2>9, <2>10
<1> QED
  BY <1>5, <1>6

LEMMA EndKeeps ==
    ASSUME CallSound, HalfKept, QueryReturns
    PROVE  CallSound' /\ HalfKept'
<1>1. /\ pc = "parse" /\ Left = 0 /\ pc' = "returned" /\ outcome' \in {"ok", "Warning"}
      /\ UNCHANGED <<configVars, object, locals, results, held>>
  BY DEF QueryReturns, Return
<1>2. UNCHANGED <<configVars, object, single, cursor, request, meant, unread, told, data, response, found, held>>
  BY <1>1 DEF locals, results
<1>3. RequestKept' /\ FlagsKept' /\ ReadingKept' /\ ToldKept' /\ HalfKept'
  BY <1>1, <1>2, ParsingIsQuiet
<1>4. cursor = Len(meant) /\ (single => cursor = 1)
  <2>1. /\ Len(meant) = (IF single THEN 1 ELSE queryCount) /\ cursor \in Nat /\ IsList(meant)
    BY <1>1 DEF CallSound, FlagsKept, ParsingKept, ReadingKept
  <2>2. Len(meant) \in Nat
    BY <2>1, ListTyped
  <2> QED
    BY <1>1, <2>1, <2>2 DEF Left
<1>5. ParsingKept'
  BY <1>1, <1>2, <1>4 DEF CallSound, ParsingKept, Succeeded
<1> QED
  BY <1>3, <1>5 DEF CallSound

-----------------------------------------------------------------------------
(* A query that was not written to its end is not read to its end *)

\* A format that asks for more than the items that are there.
AsksForMore(format, items) ==
    /\ Len(items) < Len(format)
    /\ \A k \in 1 .. Len(items) : format[k] = items[k].width
LEMMA TakeFromNothing ==
    ASSUME NEW r \in Readers, r.rest = <<>>, NEW width \in Widths, width >= 1 \/ width = Text
    PROVE  ~Take(r, width).ok
<1>1. Len(r.rest) = 0 /\ DOMAIN r = Fields
  BY DEF Readers, Fields
<1>2. (IF width = Text THEN 2 ELSE width) >= 1
  BY DEF Widths, Text
<1>3. Take(r, width) = [r EXCEPT !.ok = FALSE]
  <2> DEFINE front == IF width = Text THEN 2 ELSE width
  <2>1. ~(front <= Len(r.rest))
    <3> HIDE DEF front
    <3>1. front \in Int
      BY DEF front, Widths
    <3> QED
      BY <1>1, <1>2, <3>1 DEF front
  <2> QED
    BY <2>1 DEF Take
<1> QED
  BY <1>1, <1>3, Excepted

LEMMA TakeStops ==
    ASSUME NEW r, ~r.ok, DOMAIN r = Fields, NEW width
    PROVE  ~Take(r, width).ok
<1>1. Take(r, width) = [r EXCEPT !.ok = FALSE]
  BY DEF Take
<1> QED
  BY <1>1, Excepted

LEMMA FallsShort ==
    ASSUME NEW items \in Seq(Items), NEW format \in Seq(Widths), AsksForMore(format, items)
    PROVE  ~TakeAll(At(Wire(items) \o <<>>, <<>>), format).ok
<1> DEFINE r == At(Wire(items) \o <<>>, <<>>)
           n == Len(items)
           m == Len(format)
<1>1. n \in Nat /\ m \in Nat /\ n + 1 <= m
  BY LenProperties DEF AsksForMore
<1>2. /\ Formats(items) \in Seq(Widths) /\ Len(Formats(items)) = n
      /\ \A k \in 1 .. n : Formats(items)[k] = items[k].width
  BY FormatsTyped
<1>3. r \in Readers
  <2>1. <<>> \in Cells
    BY DEF Cells
  <2>2. Wire(items) \o <<>> \in Cells
    BY <2>1, WireTyped, JoinTyped
  <2> QED
    BY <2>2 DEF At, Readers
<1>4. TakeAll(r, Formats(items)) = [got |-> Values(items), rest |-> <<>>, ok |-> TRUE, named |-> <<>>]
  <2>1. <<>> \in Cells
    BY DEF Cells
  <2> QED
    BY <2>1, TakesItems
<1> HIDE DEF r
<1>5. PICK short : IsTaking(short, r, Formats(items))
  BY <1>2, <1>3, TakeAllIs
<1>6. PICK after : IsTaking(after, r, format)
  BY <1>3, TakeAllIs
<1>7. /\ short[0] = r /\ short[n].rest = <<>>
      /\ \A k \in 1 .. n : short[k] = Take(short[k - 1], items[k].width)
  BY <1>2, <1>4, <1>5 DEF IsTaking
<1>8. /\ after \in [0 .. m -> Readers] /\ after[0] = r /\ TakeAll(r, format) = after[m]
      /\ \A k \in 1 .. m : after[k] = Take(after[k - 1], format[k])
  BY <1>6 DEF IsTaking
<1> HIDE DEF n, m
<1> DEFINE U == {k \in 0 .. n : after[k] = short[k]}
<1>9. \A k \in 0 .. n : k \in U
  <2>1. 0 \in U
    BY <1>1, <1>7, <1>8
  <2>2. ASSUME NEW k \in 1 .. n, k - 1 \in U PROVE k \in U
    <3>1. k \in 1 .. m /\ k \in 0 .. n
      BY <1>1
    <3>2. format[k] = items[k].width
      BY DEF AsksForMore, n
    <3>3. after[k] = short[k]
      BY <1>7, <1>8, <2>2, <3>1, <3>2
    <3> QED
      BY <3>1, <3>3
  <2> HIDE DEF U
  <2> QED
    BY <1>1, <2>1, <2>2, InductiveUpTo
<1>10. after[n] \in Readers /\ after[n].rest = <<>>
  <2>1. n \in 0 .. n /\ n \in 0 .. m
    BY <1>1
  <2> QED
    BY <1>7, <1>8, <1>9, <2>1
<1> DEFINE V == {k \in 0 .. m : k <= n \/ ~after[k].ok}
<1>11. \A k \in 0 .. m : k \in V
  <2>1. 0 \in V
    BY <1>1
  <2>2. ASSUME NEW k \in 1 .. m, k - 1 \in V PROVE k \in V
    <3>1. k \in 0 .. m /\ k - 1 \in 0 .. m /\ after[k] = Take(after[k - 1], format[k])
      BY <1>1, <1>8
    <3>2. CASE k <= n
      BY <3>1, <3>2
    <3>3. CASE k = n + 1
      <4>1. format[k] \in Widths /\ k - 1 = n
        BY <1>1, <3>3, ElementOfSeq DEF m
      <4>2. format[k] >= 1 \/ format[k] = Text
        BY <4>1 DEF Widths, Text
      <4>3. ~after[k].ok
        BY <1>10, <3>1, <4>1, <4>2, TakeFromNothing
      <4> QED
        BY <3>1, <4>3
    <3>4. CASE k > n + 1
      <4>1. ~after[k - 1].ok
        BY <1>1, <2>2, <3>4
      <4>2. DOMAIN after[k - 1] = Fields
        BY <1>8, <3>1 DEF Readers, Fields
      <4>3. ~after[k].ok
        BY <3>1, <4>1, <4>2, TakeStops
      <4> QED
        BY <3>1, <4>3
    <3> QED
      BY <1>1, <3>2, <3>3, <3>4
  <2> HIDE DEF V
  <2> QED
    BY <1>1, <2>1, <2>2, InductiveUpTo
<1>12. ~after[m].ok
  <2>1. m \in V /\ ~(m <= n)
    BY <1>1, <1>11
  <2> QED
    BY <2>1
<1> QED
  BY <1>8, <1>12 DEF r

\* One of joined sequences, with what is before and behind it.
LEMMA SplitAt ==
    ASSUME NEW S, NEW ss \in Seq(Seq(S)), NEW j \in 1 .. Len(ss)
    PROVE  /\ SubSeq(ss, 1, j - 1) \in Seq(Seq(S)) /\ Len(SubSeq(ss, 1, j - 1)) = j - 1
           /\ \A k \in 1 .. j - 1 : SubSeq(ss, 1, j - 1)[k] = ss[k]
           /\ ss[j] \in Seq(S) /\ FlattenSeq(Rest(ss, j)) \in Seq(S)
           /\ FlattenSeq(ss) = FlattenSeq(SubSeq(ss, 1, j - 1)) \o (ss[j] \o FlattenSeq(Rest(ss, j)))
<1> DEFINE front == SubSeq(ss, 1, j - 1)
<1>1. Len(ss) \in Nat /\ j - 1 \in 0 .. Len(ss) /\ j \in 0 .. Len(ss) /\ j - 1 < Len(ss)
      /\ \A k \in 1 .. Len(ss) : ss[k] \in Seq(S)
  BY LenProperties, ElementOfSeq
<1>2. front \in Seq(Seq(S)) /\ Len(front) = j - 1 /\ \A k \in 1 .. j - 1 : front[k] = ss[k]
  <2>1. 1 \in 1 .. Len(ss) + 1 /\ \A k \in 1 .. j - 1 : ss[k] \in Seq(S)
    BY <1>1
  <2>2. /\ front \in Seq(Seq(S)) /\ Len(front) = IF 1 <= j - 1 THEN j - 1 - 1 + 1 ELSE 0
    BY <1>1
  <2>3. \A k \in 1 .. j - 1 : front[k] = ss[k]
    BY <1>1
  <2> HIDE DEF front
  <2> QED
    BY <1>1, <2>2, <2>3
<1>3. /\ Rest(ss, j - 1) \in Seq(Seq(S)) /\ Len(Rest(ss, j - 1)) = Len(ss) - (j - 1)
      /\ \A k \in 1 .. Len(ss) - (j - 1) : Rest(ss, j - 1)[k] = ss[(j - 1) + k]
  BY <1>1, RestProperties
<1> DEFINE back == Rest(ss, j - 1)
<1> HIDE DEF front, back
<1>4. front \o back = ss
  <2>1. front \o back \in Seq(Seq(S)) /\ Len(front \o back) = Len(front) + Len(back)
        /\ (\A k \in 1 .. Len(front) : (front \o back)[k] = front[k])
        /\ \A k \in 1 .. Len(back) : (front \o back)[Len(front) + k] = back[k]
    <3>1. front \in Seq(Seq(S)) /\ back \in Seq(Seq(S))
      BY <1>2, <1>3 DEF back
    <3> QED
      BY <3>1, ConcatIs
  <2>2. Len(front \o back) = Len(ss)
    BY <1>1, <1>2, <1>3, <2>1 DEF back
  <2>3. ASSUME NEW k \in 1 .. Len(ss) PROVE (front \o back)[k] = ss[k]
    <3>1. CASE k <= j - 1
      <4>1. k \in 1 .. Len(front) /\ k \in 1 .. j - 1
        BY <1>1, <1>2, <3>1
      <4> QED
        BY <1>2, <2>1, <4>1
    <3>2. CASE k > j - 1
      <4> DEFINE i == k - (j - 1)
      <4>1. i \in 1 .. Len(ss) - (j - 1) /\ k = (j - 1) + i
        BY <1>1, <3>2
      <4> HIDE DEF i
      <4>2. back[i] = ss[(j - 1) + i] /\ i \in 1 .. Len(back)
        BY <1>3, <4>1 DEF back
      <4>3. (front \o back)[Len(front) + i] = back[i]
        BY <2>1, <4>2
      <4> QED
        BY <1>2, <4>1, <4>2, <4>3
    <3>3. k <= j - 1 \/ k > j - 1
      BY <1>1
    <3> QED
      BY <3>1, <3>2, <3>3
  <2> QED
    BY <2>1, <2>2, <2>3, SeqEqual
<1>5. FlattenSeq(ss) = FlattenSeq(front) \o FlattenSeq(back)
  <2>1. front \in Seq(Seq(S)) /\ back \in Seq(Seq(S))
    BY <1>2, <1>3 DEF back
  <2>2. FlattenSeq(front \o back) = FlattenSeq(front) \o FlattenSeq(back)
    BY <2>1, JoinedBoth
  <2> QED
    BY <1>4, <2>2
<1>6. FlattenSeq(back) = ss[j] \o FlattenSeq(Rest(ss, j))
  <2>1. FlattenSeq(Rest(ss, j - 1)) = ss[(j - 1) + 1] \o FlattenSeq(Rest(ss, (j - 1) + 1))
    BY <1>1, JoinedRest
  <2>2. (j - 1) + 1 = j
    OBVIOUS
  <2> QED
    BY <2>1, <2>2 DEF back
<1>7. FlattenSeq(Rest(ss, j)) \in Seq(S)
  BY <1>1, JoinedRest
<1> QED
  BY <1>1, <1>2, <1>5, <1>6, <1>7 DEF front

-----------------------------------------------------------------------------
(* Rows that end in a value without a form *)

OverrideWidth(o) == IF o.type = SPH_ATTR_BIGINT THEN 4 ELSE 2
\* Rows of documents and values that end before their number is reached.
CutShort(o, short) ==
    /\ short \in Seq(Items) /\ Len(short) < 2 * Len(Keys(o.values))
    /\ \A k \in 1 .. Len(Keys(o.values)) :
          /\ 2 * k - 1 \in 1 .. Len(short) => short[2 * k - 1].width = 4
          /\ 2 * k \in 1 .. Len(short) => short[2 * k].width = OverrideWidth(o)
\* The values of an override fit, or are of types that have no form.
FitsOrThrows(o) ==
    \A d \in DOMAIN o.values : o.values[d].type \in {ValueType(o.type), "vector", "string"}

\* What was written of rows with a value that has no form.
LEMMA RowsCut ==
    ASSUME NEW o, GoodOverride(o), FitsOrThrows(o), ~Suits(o)
    PROVE  \E short, back : /\ CutShort(o, short) /\ back \in Seq(AnyItems)
                            /\ OverrideRows(o) = short \o (<<Exception>> \o back)
<1> DEFINE n == Len(Keys(o.values))
           documents == Keys(o.values)
           first == DocumentItems(o)
           second == ValueItems(o)
           rows == OverrideRows(o)
<1>1. /\ n \in Nat /\ first \in [1 .. n -> Items] /\ \A k \in 1 .. n : first[k].width = 4
      /\ second \in [1 .. n -> AnyItems]
      /\ rows = FlattenSeq(Pairs(n, first, second)) /\ rows \in Seq(AnyItems)
  BY RowsShape
<1>2. /\ \A k \in 1 .. n : /\ documents[k] \in DOMAIN o.values
                           /\ o.values[documents[k]] \in OverrideValues
                           /\ second[k] = OverrideValue(o.values[documents[k]])
      /\ DOMAIN o.values = {documents[k] : k \in 1 .. n}
  BY DocumentsAre DEF ValueItems, Listed
<1> HIDE DEF n, first, second, rows, documents
<1>3. Len(rows) = 2 * n /\ \A k \in 1 .. n : rows[2 * k - 1] = first[k] /\ rows[2 * k] = second[k]
  <2>1. first \in [1 .. n -> AnyItems]
    BY <1>1 DEF AnyItems
  <2>2. ArePairs(FlattenSeq(Pairs(n, first, second)), n, first, second)
    BY <1>1, <2>1, PairsShape
  <2> QED
    BY <1>1, <2>2 DEF ArePairs
<1>4. ASSUME NEW k \in 1 .. n, second[k] \in Items
      PROVE  o.values[documents[k]].type = ValueType(o.type) /\ second[k].width = OverrideWidth(o)
  <2> DEFINE value == o.values[documents[k]]
  <2>1. value \in OverrideValues /\ second[k] = OverrideValue(value)
        /\ value.type \in {ValueType(o.type), "vector", "string"}
    BY <1>2 DEF FitsOrThrows
  <2> HIDE DEF value
  <2>2. value.type \notin {"vector", "string"}
    BY <1>4, <2>1, ItemsAre, OverrideValueTyped
  <2>3. value.type = ValueType(o.type)
    BY <2>1, <2>2
  <2>4. second[k].width = OverrideWidth(o)
    <3>1. CASE o.type = SPH_ATTR_BIGINT
      <4>1. value.type = "uint64"
        BY <2>3, <3>1 DEF ValueType, SPH_ATTR_BIGINT, SPH_ATTR_FLOAT
      <4> QED
        BY <2>1, <3>1, <4>1, OverrideValueTyped DEF OverrideWidth
    <3>2. CASE o.type # SPH_ATTR_BIGINT
      <4>1. value.type \in {"uint32", "float"}
        BY <2>3, <3>2 DEF ValueType
      <4> QED
        BY <2>1, <3>2, <4>1, OverrideValueTyped DEF OverrideWidth
    <3> QED
      BY <3>1, <3>2
  <2> QED
    BY <2>3, <2>4 DEF value
<1>5. rows \notin Seq(Items)
  <2> SUFFICES ASSUME rows \in Seq(Items)
               PROVE  FALSE
    OBVIOUS
  <2>1. ASSUME NEW k \in 1 .. n PROVE second[k] \in Items
    <3>1. 2 * k \in 1 .. Len(rows)
      BY <1>1, <1>3
    <3>2. rows[2 * k] \in Items
      BY <3>1, ElementOfSeq
    <3> QED
      BY <1>3, <3>2
  <2>2. \A d \in DOMAIN o.values : o.values[d].type = ValueType(o.type)
    BY <1>2, <1>4, <2>1
  <2> QED
    BY <2>2 DEF Suits
<1>6. PICK short \in Seq(Items), back \in Seq(AnyItems) : rows = short \o (<<Exception>> \o back)
  BY <1>1, <1>5, FirstException
<1> DEFINE rest == <<Exception>> \o back
<1>7. /\ rest \in Seq(AnyItems) /\ Len(rest) >= 1 /\ Len(rest) \in Nat
      /\ short \in Seq(AnyItems) /\ Len(short) \in Nat
  <2>1. <<Exception>> \in Seq(AnyItems) /\ Len(<<Exception>>) = 1
    BY OneItem DEF AnyItems
  <2>2. rest \in Seq(AnyItems) /\ Len(rest) = 1 + Len(back) /\ Len(back) \in Nat
    BY <2>1, ConcatIs
  <2>3. short \in Seq(AnyItems) /\ Len(short) \in Nat
    BY <1>6, LenProperties DEF AnyItems
  <2> HIDE DEF rest
  <2> QED
    BY <2>2, <2>3
<1> HIDE DEF rest
<1>8. /\ Len(rows) = Len(short) + Len(rest) /\ \A k \in 1 .. Len(short) : rows[k] = short[k]
      /\ \A k \in 1 .. Len(short) : short[k] \in Items
  <2>1. Len(short \o rest) = Len(short) + Len(rest) /\ \A k \in 1 .. Len(short) : (short \o rest)[k] = short[k]
    BY <1>7, ConcatIs
  <2> QED
    BY <1>6, <2>1, ElementOfSeq DEF rest
<1>9. Len(short) < 2 * n
  BY <1>1, <1>3, <1>7, <1>8
<1>10. ASSUME NEW k \in 1 .. n
       PROVE  /\ 2 * k - 1 \in 1 .. Len(short) => short[2 * k - 1].width = 4
              /\ 2 * k \in 1 .. Len(short) => short[2 * k].width = OverrideWidth(o)
  <2>1. ASSUME 2 * k - 1 \in 1 .. Len(short) PROVE short[2 * k - 1].width = 4
    <3>1. short[2 * k - 1] = first[k]
      BY <1>3, <1>8, <2>1
    <3> QED
      BY <1>1, <3>1
  <2>2. ASSUME 2 * k \in 1 .. Len(short) PROVE short[2 * k].width = OverrideWidth(o)
    <3>1. short[2 * k] = second[k] /\ short[2 * k] \in Items
      BY <1>3, <1>8, <2>2
    <3> QED
      BY <1>4, <3>1
  <2> QED
    BY <2>1, <2>2
<1>11. CutShort(o, short)
  BY <1>6, <1>9, <1>10 DEF CutShort, n
<1> QED
  BY <1>6, <1>11 DEF rows

\* Pairs joined one behind another.
LEMMA PairsPlaced ==
    ASSUME NEW pairs \in Seq(Seq(Nat)), \A k \in 1 .. Len(pairs) : Len(pairs[k]) = 2
    PROVE  /\ FlattenSeq(pairs) \in Seq(Nat) /\ Len(FlattenSeq(pairs)) = 2 * Len(pairs)
           /\ \A k \in 1 .. Len(pairs) : \A j \in 1 .. 2 : FlattenSeq(pairs)[2 * (k - 1) + j] = pairs[k][j]
<1> DEFINE m == 2
           flat == FlattenSeq(pairs)
<1>1. m \in Nat /\ \A k \in 1 .. Len(pairs) : Len(pairs[k]) = m
  OBVIOUS
<1> HIDE DEF m
<1>2. /\ flat \in Seq(Nat) /\ Len(flat) = m * Len(pairs)
      /\ \A k \in 1 .. Len(pairs) : \A j \in 1 .. m : flat[m * (k - 1) + j] = pairs[k][j]
  BY <1>1, RowsPlaced, ZenonT(30)
<1> HIDE DEF flat
<1>3. /\ flat \in Seq(Nat) /\ Len(flat) = 2 * Len(pairs)
      /\ \A k \in 1 .. Len(pairs) : \A j \in 1 .. 2 : flat[2 * (k - 1) + j] = pairs[k][j]
  BY <1>2 DEF m
<1> QED
  BY <1>3 DEF flat

\* The number of documents is more than the rows that follow.
LEMMA CutFails ==
    ASSUME NEW o, GoodOverride(o), NEW short, CutShort(o, short), NEW named,
           named.documents = Len(Keys(o.values)), named.type = o.type
    PROVE  ~ReadPart(At(Wire(short) \o <<>>, named), "attributeOverrides").ok
<1> DEFINE n == Len(Keys(o.values))
           w == OverrideWidth(o)
           cells == Wire(short) \o <<>>
           r == At(cells, named)
           format == Format(r, "attributeOverrides")
<1>1. n \in Nat /\ short \in Seq(Items) /\ Len(short) \in Nat /\ Len(short) < 2 * n
  BY RowsShape, LenProperties DEF CutShort
<1>2. cells \in Cells /\ Len(cells) \in Nat
  <2>1. <<>> \in Cells
    BY DEF Cells
  <2>2. cells \in Cells
    BY <1>1, <2>1, WireTyped, JoinTyped
  <2> HIDE DEF cells
  <2> QED
    BY <2>2 DEF Cells
<1>3. w \in {2, 4} /\ <<4, w>> \in Seq(Widths) /\ <<4, w>> \in Seq(Nat)
  <2>1. w \in {2, 4}
    BY DEF OverrideWidth
  <2> HIDE DEF w
  <2> QED
    BY <2>1 DEF Widths
<1> HIDE DEF cells
<1>4. format = IF 2 * Len(<<4, w>>) * n <= Len(cells) THEN Times(n, <<4, w>>) ELSE <<Len(cells) + 1>>
  <2>1. format = Repeated(r, r.named.documents, <<4, ValueWidth(r)>>)
    BY DEF Format, TextParts
  <2>2. ValueWidth(r) = w /\ r.named.documents = n /\ r.rest = cells
    BY DEF ValueWidth, At, OverrideWidth
  <2> HIDE DEF r, w, n, format
  <2> QED
    BY <2>1, <2>2 DEF Repeated
<1> HIDE DEF format, n, w
<1>5. CASE 2 * Len(<<4, w>>) * n <= Len(cells)
  <2>1. format = Times(n, <<4, w>>) /\ format \in Seq(Widths)
    BY <1>1, <1>3, <1>4, <1>5, TimesTyped
  <2> DEFINE ss == [k \in 1 .. n |-> <<4, w>>]
  <2>2. Len(format) = 2 * n
        /\ \A k \in 1 .. n : format[2 * (k - 1) + 1] = 4 /\ format[2 * (k - 1) + 2] = w
    <3>1. ss \in Seq(Seq(Nat)) /\ Len(ss) = n /\ \A k \in 1 .. n : ss[k] = <<4, w>>
      <4>1. \A k \in 1 .. n : <<4, w>> \in Seq(Nat)
        BY <1>3
      <4> QED
        BY <1>1, <4>1, IsASeq
    <3>2. \A k \in 1 .. Len(ss) : Len(ss[k]) = 2
      BY <3>1
    <3> HIDE DEF ss
    <3>0. 2 \in Nat /\ ss \in Seq(Seq(Nat))
      BY <3>1
    <3>3. /\ FlattenSeq(ss) \in Seq(Nat) /\ Len(FlattenSeq(ss)) = 2 * Len(ss)
          /\ \A k \in 1 .. Len(ss) : \A j \in 1 .. 2 : FlattenSeq(ss)[2 * (k - 1) + j] = ss[k][j]
      BY <3>0, <3>2, PairsPlaced
    <3>4. format = FlattenSeq(ss)
      BY <2>1 DEF Times, ss
    <3>5. ASSUME NEW k \in 1 .. n
          PROVE  format[2 * (k - 1) + 1] = 4 /\ format[2 * (k - 1) + 2] = w
      <4>1. /\ FlattenSeq(ss)[2 * (k - 1) + 1] = ss[k][1]
            /\ FlattenSeq(ss)[2 * (k - 1) + 2] = ss[k][2]
        <5>1. k \in 1 .. Len(ss) /\ 1 \in 1 .. 2 /\ 2 \in 1 .. 2
          BY <3>1
        <5> QED
          BY <3>3, <5>1
      <4>2. ss[k][1] = 4 /\ ss[k][2] = w
        BY <3>1
      <4> QED
        BY <3>4, <4>1, <4>2
    <3> QED
      BY <3>1, <3>3, <3>4, <3>5
  <2>3. ASSUME NEW i \in 1 .. Len(short)
        PROVE  format[i] = short[i].width
    <3>1. i \in 1 .. 2 * n
      BY <1>1
    <3>2. PICK k \in 1 .. n, j \in 1 .. 2 : i = 2 * (k - 1) + j
      BY <1>1, <3>1, InRow
    <3>3. CASE j = 1
      <4>1. i = 2 * k - 1 /\ format[i] = 4
        BY <2>2, <3>2, <3>3
      <4> QED
        BY <4>1 DEF CutShort, n
    <3>4. CASE j = 2
      <4>1. i = 2 * k /\ format[i] = w
        BY <2>2, <3>2, <3>4
      <4> QED
        BY <4>1 DEF CutShort, n, w
    <3> QED
      BY <3>2, <3>3, <3>4
  <2>4. AsksForMore(format, short)
    BY <1>1, <2>2, <2>3 DEF AsksForMore
  <2>5. ~TakeAll(At(cells, <<>>), format).ok
    BY <1>1, <2>1, <2>4, FallsShort DEF cells
  <2> QED
    BY <1>2, <2>1, <2>5, PartGoes DEF Taken, format, cells
<1>6. CASE ~(2 * Len(<<4, w>>) * n <= Len(cells))
  <2>1. format = <<Len(cells) + 1>> /\ format \in Seq(Widths)
    <3>1. Len(cells) + 1 \in Widths
      BY <1>2 DEF Widths
    <3> QED
      BY <1>4, <1>6, <3>1
  <2>2. ~TakeAll(At(cells, <<>>), format).ok
    <3> DEFINE r0 == At(cells, <<>>)
    <3>1. r0 \in Readers /\ r0.rest = cells /\ DOMAIN r0 = Fields
      BY <1>2 DEF At, Readers, Fields
    <3> HIDE DEF r0
    <3>2. PICK after : IsTaking(after, r0, format)
      BY <2>1, <3>1, TakeAllIs
    <3>3. Len(format) = 1 /\ format[1] = Len(cells) + 1
      BY <2>1
    <3>4. TakeAll(r0, format) = Take(r0, Len(cells) + 1)
      BY <3>2, <3>3 DEF IsTaking
    <3>5. Len(cells) + 1 # Text
      BY <1>2 DEF Text
    <3>6. Take(r0, Len(cells) + 1) = [r0 EXCEPT !.ok = FALSE]
      BY <1>2, <3>1, <3>5 DEF Take
    <3>7. ~[r0 EXCEPT !.ok = FALSE].ok
      BY <3>1, Excepted
    <3> QED
      BY <3>4, <3>6, <3>7 DEF r0
  <2> QED
    BY <1>2, <2>1, <2>2, PartGoes DEF Taken, format, cells
<1> QED
  BY <1>5, <1>6

-----------------------------------------------------------------------------
(* Overrides that end in one of them *)

\* What is written of the overrides before one of them.
Before(overrides, j) == FlattenSeq(SubSeq(OverrideGroups(overrides), 1, j - 1))
\* The overrides end in one of them, and those before it fit.
CutAt(attrs, j, short, more) ==
    LET overrides == attrs.attributeOverrides
        names == Keys(overrides)
        o == overrides[names[j]]
    IN /\ j \in 1 .. Len(names)
       /\ \A k \in 1 .. j - 1 : Suits(overrides[names[k]])
       /\ CutShort(o, short)
       /\ more = Before(overrides, j) \o (OverrideHead(names[j], o) \o short)

\* What fits is written to its end.
LEMMA SuitedTyped ==
    ASSUME NEW o, GoodOverride(o), Suits(o), NEW name \in Overridden
    PROVE  Override(name, o.type, o.values) \in Seq(Items)
<1>1. OverrideHead(name, o) \in Seq(Items) /\ OverrideRows(o) \in Seq(Items)
      /\ Override(name, o.type, o.values) = OverrideHead(name, o) \o OverrideRows(o)
  BY HeadIs, RowsAre
<1> QED
  BY <1>1, Together

LEMMA BeforeIs ==
    ASSUME NEW overrides, GoodOverrides(overrides), NEW j \in 1 .. Len(Keys(overrides)),
           \A k \in 1 .. j - 1 : Suits(overrides[Keys(overrides)[k]])
    PROVE  LET front == SubSeq(OverrideGroups(overrides), 1, j - 1)
           IN /\ front \in Seq(Seq(Items)) /\ Len(front) = j - 1
              /\ \A k \in 1 .. j - 1 : front[k] = OverrideGroups(overrides)[k]
              /\ Before(overrides, j) \in Seq(Items)
<1> DEFINE names == Keys(overrides)
           groups == OverrideGroups(overrides)
           front == SubSeq(groups, 1, j - 1)
<1>1. /\ groups \in Seq(Seq(AnyItems)) /\ Len(groups) = Len(names)
      /\ \A k \in 1 .. Len(names) : groups[k] = Override(names[k], overrides[names[k]].type, overrides[names[k]].values)
  BY GroupsTyped, OverriddenAre DEF OverrideGroups
<1>2. /\ Len(names) \in Nat
      /\ \A k \in 1 .. Len(names) : names[k] \in Overridden /\ GoodOverride(overrides[names[k]])
  BY OverriddenAre
<1> HIDE DEF groups, front, names
<1>3. /\ front \in Seq(Seq(AnyItems)) /\ Len(front) = j - 1
      /\ \A k \in 1 .. j - 1 : front[k] = groups[k]
  <2>1. j \in 1 .. Len(groups)
    BY <1>1 DEF names
  <2> QED
    BY <1>1, <2>1, SplitAt DEF front
<1>4. \A k \in 1 .. j - 1 : front[k] \in Seq(Items)
  <2> TAKE k \in 1 .. j - 1
  <2>1. k \in 1 .. Len(names)
    BY <1>2 DEF names
  <2>2. Suits(overrides[names[k]])
    BY DEF names
  <2>3. groups[k] \in Seq(Items)
    BY <1>1, <1>2, <2>1, <2>2, SuitedTyped
  <2> QED
    BY <1>3, <2>3
<1>5. front \in Seq(Seq(Items))
  <2>1. j - 1 \in Nat
    BY <1>2 DEF names
  <2>2. front = [k \in 1 .. j - 1 |-> front[k]]
    <3>1. front = [k \in 1 .. Len(front) |-> front[k]]
      BY <1>3
    <3> QED
      BY <1>3, <3>1
  <2>3. front \in [1 .. j - 1 -> Seq(Items)]
    BY <1>4, <2>2
  <2> QED
    BY <2>1, <2>3, SeqDef
<1>6. FlattenSeq(front) \in Seq(Items)
  BY <1>5, JoinedIsSeq
<1> QED
  BY <1>3, <1>5, <1>6 DEF front, groups, Before

Rebrackets(S, f, h, c, e, b, r, t) ==
    /\ b \o (r \o t) \in Seq(S)
    /\ (f \o ((h \o (c \o (e \o b))) \o r)) \o t = (f \o (h \o c)) \o (e \o (b \o (r \o t)))
LEMMA Rebracketed ==
    ASSUME NEW S, NEW f \in Seq(S), NEW h \in Seq(S), NEW c \in Seq(S), NEW e \in Seq(S),
           NEW b \in Seq(S), NEW r \in Seq(S), NEW t \in Seq(S)
    PROVE  Rebrackets(S, f, h, c, e, b, r, t)
<1> DEFINE rt == r \o t
           brt == b \o rt
           eb == e \o b
           ceb == c \o eb
           g == h \o ceb
           x == e \o brt
<1>1. rt \in Seq(S) /\ brt \in Seq(S) /\ eb \in Seq(S) /\ ceb \in Seq(S) /\ g \in Seq(S) /\ x \in Seq(S)
      /\ g \o r \in Seq(S) /\ h \o c \in Seq(S)
  <2>1. rt \in Seq(S) /\ eb \in Seq(S) /\ h \o c \in Seq(S)
    BY Together
  <2> HIDE DEF rt, eb
  <2>2. brt \in Seq(S) /\ ceb \in Seq(S)
    BY <2>1, Together
  <2> HIDE DEF brt, ceb
  <2>3. g \in Seq(S) /\ x \in Seq(S)
    BY <2>2, Together
  <2> HIDE DEF g
  <2>4. g \o r \in Seq(S)
    BY <2>3, Together
  <2> QED
    BY <2>1, <2>2, <2>3, <2>4
<1>2. (f \o (g \o r)) \o t = f \o (g \o rt)
  <2> HIDE DEF g
  <2>1. (f \o (g \o r)) \o t = f \o ((g \o r) \o t)
    <3> DEFINE gr == g \o r
    <3>1. gr \in Seq(S)
      BY <1>1
    <3> HIDE DEF gr
    <3>2. Associates(f, gr, t)
      BY <3>1, Associated
    <3> QED
      BY <3>2 DEF gr, Associates
  <2>2. (g \o r) \o t = g \o (r \o t)
    <3>1. g \in Seq(S)
      BY <1>1
    <3>2. Associates(g, r, t)
      BY <3>1, Associated
    <3> QED
      BY <3>2 DEF Associates
  <2> QED
    BY <2>1, <2>2
<1>3. g \o rt = h \o (ceb \o rt)
  <2> HIDE DEF ceb, rt
  <2>1. ceb \in Seq(S) /\ rt \in Seq(S)
    BY <1>1
  <2>2. Associates(h, ceb, rt)
    BY <2>1, Associated
  <2> QED
    BY <2>2 DEF Associates
<1>4. ceb \o rt = c \o (eb \o rt)
  <2> HIDE DEF eb, rt
  <2>1. eb \in Seq(S) /\ rt \in Seq(S)
    BY <1>1
  <2>2. Associates(c, eb, rt)
    BY <2>1, Associated
  <2> QED
    BY <2>2 DEF Associates
<1>5. eb \o rt = x
  <2> HIDE DEF rt
  <2>1. rt \in Seq(S)
    BY <1>1
  <2>2. Associates(e, b, rt)
    BY <2>1, Associated
  <2> QED
    BY <2>2 DEF Associates
<1>6. h \o (c \o x) = (h \o c) \o x
  <2> HIDE DEF x
  <2>1. x \in Seq(S)
    BY <1>1
  <2>2. Associates(h, c, x)
    BY <2>1, Associated
  <2> QED
    BY <2>2 DEF Associates
<1>7. f \o ((h \o c) \o x) = (f \o (h \o c)) \o x
  <2> DEFINE hc == h \o c
  <2>1. x \in Seq(S) /\ hc \in Seq(S)
    BY <1>1
  <2> HIDE DEF x, hc
  <2>2. Associates(f, hc, x)
    BY <2>1, Associated
  <2> QED
    BY <2>2 DEF hc, Associates
<1>8. (f \o (g \o r)) \o t = (f \o (h \o c)) \o x
  <2> HIDE DEF g, ceb, eb, rt, x
  <2> QED
    BY <1>2, <1>3, <1>4, <1>5, <1>6, <1>7
<1> QED
  BY <1>1, <1>8 DEF Rebrackets

\* Where what is written ends, when a value has no form.
LEMMA MoreIsCut ==
    ASSUME NEW attrs, GoodAttrs(attrs), FittingOrThrowing(attrs), NEW query \in Texts,
           Thrown(Message(query, attrs)) # {}
    PROVE  \E j, short, more : /\ CutAt(attrs, j, short, more)
                               /\ IsLeft(Written(Message(query, attrs)), query, attrs, more)
<1> DEFINE overrides == attrs.attributeOverrides
           names == Keys(overrides)
           n == Len(names)
           groups == OverrideGroups(overrides)
           o(k) == overrides[names[k]]
           select == <<T(attrs.selectClause)>>
           rows == FlattenSeq(groups)
<1>0. GoodOverrides(overrides)
  BY DEF GoodAttrs, GoodSettings
<1>1. /\ n \in Nat /\ select \in Seq(Items) /\ More(attrs) = rows \o select
      /\ groups \in Seq(Seq(AnyItems)) /\ Len(groups) = n
      /\ \A k \in 1 .. n : groups[k] = Override(names[k], o(k).type, o(k).values)
      /\ \A k \in 1 .. n : names[k] \in DOMAIN overrides /\ names[k] \in Overridden /\ GoodOverride(o(k))
      /\ DOMAIN overrides = {names[k] : k \in 1 .. n}
  <2>1. select \in Seq(Items)
    BY MessageShape
  <2>2. groups \in Seq(Seq(AnyItems)) /\ Len(groups) = n
    BY <1>0, GroupsTyped
  <2>3. /\ n \in Nat /\ DOMAIN names = 1 .. n
        /\ \A k \in 1 .. n : names[k] \in DOMAIN overrides /\ names[k] \in Overridden /\ GoodOverride(o(k))
        /\ DOMAIN overrides = {names[k] : k \in 1 .. n}
    BY <1>0, OverriddenAre DEF Listed
  <2>4. \A k \in 1 .. n : groups[k] = Override(names[k], o(k).type, o(k).values)
    BY <2>3 DEF OverrideGroups
  <2> QED
    BY <2>1, <2>2, <2>3, <2>4 DEF More
<1>2. ASSUME NEW k \in 1 .. n PROVE FitsOrThrows(o(k))
  <2>1. o(k) \in Range(overrides)
    BY <1>1 DEF Range
  <2>2. \A d \in DOMAIN o(k).values : o(k).values[d] \in Range(o(k).values)
    BY DEF Range
  <2> QED
    BY <2>1, <2>2 DEF FittingOrThrowing, FittingOr, FitsOrThrows
<1>3. PICK all : /\ IsLeft(Written(Message(query, attrs)), query, attrs, all)
                 /\ \E back \in Seq(AnyItems) : More(attrs) = all \o (<<Exception>> \o back)
  BY WrittenShape
<1>5. Thrown(More(attrs)) # {} /\ all = Written(More(attrs))
  <2>1. PICK back \in Seq(AnyItems) : More(attrs) = all \o (<<Exception>> \o back)
    BY <1>3
  <2>2. all \in Seq(Items)
    BY <1>3 DEF IsLeft
  <2> QED
    BY <2>1, <2>2, WrittenFront
<1> HIDE DEF overrides, names, n, groups, select, rows
<1> DEFINE unfit == {k \in 1 .. n : ~Suits(o(k))}
<1>6. unfit # {}
  <2> SUFFICES ASSUME \A k \in 1 .. n : Suits(o(k))
               PROVE  FALSE
    OBVIOUS
  <2>1. ASSUME NEW k \in 1 .. n PROVE groups[k] \in Seq(Items)
    <3>1. GoodOverride(o(k)) /\ Suits(o(k)) /\ names[k] \in Overridden
          /\ groups[k] = Override(names[k], o(k).type, o(k).values)
      BY <1>1
    <3> HIDE DEF o
    <3> QED
      BY <3>1, SuitedTyped
  <2>2. groups \in Seq(Seq(Items))
    <3>1. groups = [k \in 1 .. n |-> groups[k]]
      BY <1>1
    <3>2. groups \in [1 .. n -> Seq(Items)]
      BY <2>1, <3>1
    <3>3. n \in Nat
      BY <1>1
    <3> QED
      BY <3>2, <3>3, SeqDef
  <2>3. rows \in Seq(Items)
    BY <2>2, JoinedIsSeq DEF rows
  <2>4. More(attrs) \in Seq(Items)
    BY <1>1, <2>3, Together
  <2> QED
    BY <1>5, <2>4, WrittenAll
<1>7. PICK j \in unfit : \A k \in unfit : j <= k
  <2>1. unfit \in SUBSET Nat
    BY <1>1
  <2> HIDE DEF unfit
  <2> QED
    BY <1>6, <2>1, LeastExists
<1>8. j \in 1 .. n /\ ~Suits(o(j)) /\ \A k \in 1 .. j - 1 : Suits(o(k))
  <2>1. j \in 1 .. n /\ ~Suits(o(j))
    BY <1>7
  <2>2. ASSUME NEW k \in 1 .. j - 1 PROVE Suits(o(k))
    <3>1. k \in 1 .. n /\ ~(j <= k)
      BY <1>1, <2>1
    <3> QED
      BY <1>7, <3>1
  <2> QED
    BY <2>1, <2>2
<1> HIDE DEF unfit
<1> DEFINE head == OverrideHead(names[j], o(j))
           front == Before(overrides, j)
           after == FlattenSeq(Rest(groups, j))
<1>9. PICK short, back : /\ CutShort(o(j), short) /\ back \in Seq(AnyItems)
                         /\ OverrideRows(o(j)) = short \o (<<Exception>> \o back)
  BY <1>1, <1>2, <1>8, RowsCut
<1>10. head \in Seq(Items) /\ groups[j] = head \o (short \o (<<Exception>> \o back))
  <2>1. GoodOverride(o(j)) /\ names[j] \in Overridden
        /\ groups[j] = Override(names[j], o(j).type, o(j).values)
    BY <1>1, <1>8
  <2> QED
    BY <1>9, <2>1, HeadIs
<1>11. front \in Seq(Items)
  <2>1. j \in 1 .. Len(Keys(overrides)) /\ \A k \in 1 .. j - 1 : Suits(overrides[Keys(overrides)[k]])
    BY <1>8 DEF n, names
  <2>2. GoodOverrides(overrides)
    BY <1>0 DEF overrides
  <2> QED
    BY <2>1, <2>2, BeforeIs
<1>12. after \in Seq(AnyItems) /\ rows = front \o (groups[j] \o after)
  <2>1. j \in 1 .. Len(groups)
    BY <1>1, <1>8
  <2> QED
    BY <1>1, <2>1, SplitAt DEF rows, Before, groups
<1> DEFINE fits == front \o (head \o short)
           rest == back \o (after \o select)
<1>13. short \in Seq(Items) /\ fits \in Seq(Items)
  <2>1. short \in Seq(Items)
    BY <1>9 DEF CutShort
  <2>2. head \o short \in Seq(Items)
    BY <1>10, <2>1, Together
  <2> QED
    BY <1>11, <2>1, <2>2, Together
<1> HIDE DEF head, front, after
<1>14. rest \in Seq(AnyItems) /\ More(attrs) = fits \o (<<Exception>> \o rest)
  <2>1. front \in Seq(AnyItems) /\ head \in Seq(AnyItems) /\ short \in Seq(AnyItems)
        /\ select \in Seq(AnyItems)
    BY <1>1, <1>10, <1>11, <1>13 DEF AnyItems
  <2>2. <<Exception>> \in Seq(AnyItems)
    BY OneItem DEF AnyItems
  <2>3. after \in Seq(AnyItems) /\ back \in Seq(AnyItems)
    BY <1>9, <1>12
  <2>4. More(attrs) = (front \o ((head \o (short \o (<<Exception>> \o back))) \o after)) \o select
    BY <1>1, <1>10, <1>12
  <2> DEFINE e == <<Exception>>
  <2>5. e \in Seq(AnyItems)
    BY <2>2
  <2> HIDE DEF e
  <2>6. Rebrackets(AnyItems, front, head, short, e, back, after, select)
    BY <2>1, <2>3, <2>5, Rebracketed
  <2> QED
    BY <2>4, <2>6 DEF e, Rebrackets
<1>15. fits = all
  <2> HIDE DEF fits, rest
  <2>1. Written(More(attrs)) = fits
    BY <1>13, <1>14, WrittenFront
  <2> QED
    BY <1>5, <2>1
<1>16. CutAt(attrs, j, short, all)
  BY <1>8, <1>9, <1>15 DEF CutAt, head, front, n, names, overrides
<1> QED
  BY <1>3, <1>16

-----------------------------------------------------------------------------
(* What is read of them *)

\* An override that ends in its rows is not read to its end.
LEMMA CutOverride ==
    ASSUME NEW o, GoodOverride(o), NEW short, CutShort(o, short), NEW name \in Overridden, NEW base
    PROVE  ~ReadParts(At(Wire(OverrideHead(name, o) \o short) \o <<>>, base), OverrideParts).ok
<1> DEFINE head == OverrideHead(name, o)
           tail == Wire(short) \o <<>>
           r == At(Wire(head \o short) \o <<>>, base)
           parts == OverrideParts
<1>1. head \in Seq(Items) /\ Len(head) = 3 /\ short \in Seq(Items)
  BY HeadIs DEF CutShort
<1> HIDE DEF head
<1>2. tail \in Cells /\ r = At(Wire(head) \o tail, base)
  <2>1. <<>> \in Cells
    BY DEF Cells
  <2>2. Splits(head, short, <<>>)
    BY <1>1, <2>1, ItemsSplit
  <2> QED
    BY <2>2 DEF Splits
<1>3. PICK after : IsReading(after, r, parts)
  BY ReadingIs DEF OverrideParts
<1>4. after[0] = At(Wire(head) \o tail, base) /\ ReadParts(r, parts) = after[4] /\ Len(parts) = 4
  BY <1>2, <1>3 DEF IsReading, OverrideParts
<1> DEFINE p1 == <<"attrName", "type", "documents">>
           v1 == <<name, o.type, Len(Keys(o.values))>>
<1>5. ReadParts(after[0], p1) = after[3] /\ ReadPart(after[3], "attributeOverrides") = after[4]
  <2>1. parts[4] = "attributeOverrides" /\ \A k \in 1 .. 3 : p1[k] = parts[0 + k]
    BY DEF OverrideParts
  <2>2. Within(p1, parts, 0, 3)
    BY <1>4, <2>1 DEF Within
  <2> HIDE DEF p1, parts, r
  <2>3. Len(parts) \in Nat
    BY <1>4
  <2>4. ReadParts(after[0], p1) = after[3]
    BY <1>3, <2>2, <2>3, PartsWithin
  <2>5. 3 \in Nat /\ 3 + 1 <= Len(parts)
    BY <1>4
  <2>6. ReadPart(after[3], parts[3 + 1]) = after[3 + 1]
    BY <1>3, <2>3, <2>5, PartWithin
  <2> QED
    BY <2>1, <2>4, <2>6
<1> HIDE DEF r, parts, tail
<1>6. PICK n1 : after[3] = At(tail, n1) /\ Given(base, p1, v1, n1)
  <2>1. Len(p1) = 3 /\ \A k, l \in 1 .. 3 : p1[k] = p1[l] => k = l
    OBVIOUS
  <2>2. \A k \in 1 .. 3 : Single(p1[k], head[k], v1[k])
    BY DEF Single, WordParts, TextParts, head, OverrideHead
  <2> HIDE DEF p1, v1
  <2>3. Singles(p1, head, v1)
    BY <1>1, <2>1, <2>2 DEF Singles
  <2>4. \E named : ReadParts(At(Wire(head) \o tail, base), p1) = At(tail, named) /\ Given(base, p1, v1, named)
    BY <1>1, <1>2, <2>3, SinglesRead
  <2> QED
    BY <1>4, <1>5, <2>4
<1>7. n1.type = o.type /\ n1.documents = Len(Keys(o.values))
  <2>1. /\ p1[2] = "type" /\ p1[3] = "documents" /\ v1[2] = o.type /\ v1[3] = Len(Keys(o.values))
        /\ 2 \in 1 .. Len(p1) /\ 3 \in 1 .. Len(p1)
    OBVIOUS
  <2> HIDE DEF p1, v1
  <2>2. n1["type"] = o.type /\ n1["documents"] = Len(Keys(o.values))
    BY <1>6, <2>1 DEF Given
  <2> QED
    BY <2>2
<1>8. ~ReadPart(At(tail, n1), "attributeOverrides").ok
  BY <1>7, CutFails DEF tail
<1> QED
  BY <1>4, <1>5, <1>6, <1>8 DEF r, parts, head

\* The list of the overrides is not read to its end.
LEMMA CutList ==
    ASSUME NEW attrs, GoodAttrs(attrs), NEW j, NEW short, NEW more, CutAt(attrs, j, short, more),
           NEW base, base.count = CountOf(attrs), "attributeOverrides" \in DOMAIN base
    PROVE  ~ReadList(At(Wire(more) \o <<>>, base), OverrideParts).ok
<1> DEFINE overrides == attrs.attributeOverrides
           names == Keys(overrides)
           n == Len(names)
           groups == OverrideGroups(overrides)
           o(k) == overrides[names[k]]
           front == SubSeq(groups, 1, j - 1)
           head == OverrideHead(names[j], o(j))
           end == head \o short
           tail == Wire(end) \o <<>>
           r == At(Wire(more) \o <<>>, base)
<1>0. GoodOverrides(overrides)
  BY DEF GoodAttrs, GoodSettings
<1>1. /\ n \in Nat /\ n = base.count
      /\ \A k \in 1 .. n : names[k] \in Overridden /\ GoodOverride(o(k))
      /\ \A k \in 1 .. n : groups[k] = Override(names[k], o(k).type, o(k).values)
  <2>1. /\ n \in Nat /\ DOMAIN names = 1 .. n
        /\ \A k \in 1 .. n : names[k] \in Overridden /\ GoodOverride(o(k))
    BY <1>0, OverriddenAre
  <2> QED
    BY <2>1 DEF OverrideGroups, CountOf
<1>2. /\ j \in 1 .. n /\ \A k \in 1 .. j - 1 : Suits(o(k))
      /\ CutShort(o(j), short) /\ more = Before(overrides, j) \o end
  BY DEF CutAt
<1>3. /\ front \in Seq(Seq(Items)) /\ Len(front) = j - 1
      /\ \A k \in 1 .. j - 1 : front[k] = groups[k]
      /\ Before(overrides, j) \in Seq(Items) /\ Before(overrides, j) = FlattenSeq(front)
  <2>1. j \in 1 .. Len(Keys(overrides)) /\ \A k \in 1 .. j - 1 : Suits(overrides[Keys(overrides)[k]])
    BY <1>2
  <2> QED
    BY <1>0, <2>1, BeforeIs DEF Before
<1>4. head \in Seq(Items) /\ short \in Seq(Items) /\ end \in Seq(Items)
  <2>1. GoodOverride(o(j)) /\ names[j] \in Overridden
    BY <1>1, <1>2
  <2>2. head \in Seq(Items)
    BY <2>1, HeadIs
  <2>3. short \in Seq(Items)
    BY <1>2 DEF CutShort
  <2> HIDE DEF head
  <2> QED
    BY <2>2, <2>3, Together
<1> HIDE DEF overrides, names, n, groups, o, front, head, end
<1>5. tail \in Cells /\ r = At(Wire(FlattenSeq(front)) \o tail, base)
  <2>1. <<>> \in Cells
    BY DEF Cells
  <2> DEFINE f == Before(overrides, j)
  <2> HIDE DEF f
  <2>2. f \in Seq(Items) /\ more = f \o end /\ f = FlattenSeq(front)
    BY <1>2, <1>3 DEF f
  <2>3. Splits(f, end, <<>>)
    BY <1>4, <2>1, <2>2, ItemsSplit
  <2> QED
    BY <2>2, <2>3 DEF Splits
<1> HIDE DEF tail
<1>6. r.ok = TRUE /\ r.named = base /\ r.named.count = n /\ DOMAIN r = Fields
  BY <1>1 DEF At, Fields
<1>7. CASE 2 * (Len(OverrideParts) - 1) * r.named.count > Len(r.rest)
  <2>1. ReadList(r, OverrideParts) = [r EXCEPT !.ok = FALSE]
    BY <1>6, <1>7 DEF ReadList
  <2> HIDE DEF r
  <2>2. ~[r EXCEPT !.ok = FALSE].ok
    BY <1>6, Excepted
  <2> QED
    BY <2>1, <2>2 DEF r
<1>8. CASE ~(2 * (Len(OverrideParts) - 1) * r.named.count > Len(r.rest))
  <2>1. PICK after : IsListing(after, r, OverrideParts, n)
    <3>1. r.named.count \in Nat
      BY <1>1, <1>6
    <3> HIDE DEF r
    <3>2. \E after : IsListing(after, r, OverrideParts, r.named.count)
      BY <1>6, <1>8, <3>1, ListingIs
    <3> QED
      BY <1>6, <3>2
  <2>2. /\ after[0] = r /\ \A k \in 1 .. n : after[k] = ReadParts(after[k - 1], OverrideParts)
        /\ ReadList(r, OverrideParts) = after[n]
    BY <2>1 DEF IsListing
  <2>3. PICK left : IsWired(left, front, tail)
    BY <1>3, <1>5, GroupsWired
  <2>4. /\ left \in [0 .. j - 1 -> Cells] /\ r = At(left[0], base) /\ left[j - 1] = tail
        /\ \A k \in 1 .. j - 1 : left[k - 1] = Wire(groups[k]) \o left[k]
    BY <1>3, <1>5, <2>3 DEF IsWired
  <2> HIDE DEF r
  <2> DEFINE U == {k \in 0 .. j - 1 : \E named : /\ after[k] = At(left[k], named)
                                                 /\ "attributeOverrides" \in DOMAIN named}
  <2>5. \A k \in 0 .. j - 1 : k \in U
    <3>1. 0 \in U
      BY <1>1, <1>2, <2>2, <2>4
    <3>2. ASSUME NEW k \in 1 .. j - 1, k - 1 \in U PROVE k \in U
      <4>1. PICK known : after[k - 1] = At(left[k - 1], known) /\ "attributeOverrides" \in DOMAIN known
        BY <3>2
      <4>2. k \in 1 .. n /\ k \in 0 .. j - 1 /\ left[k] \in Cells
        BY <1>1, <1>2, <2>4
      <4>3. GoodOverride(o(k)) /\ Suits(o(k)) /\ names[k] \in Overridden
            /\ groups[k] = Override(names[k], o(k).type, o(k).values)
        BY <1>1, <1>2, <4>2
      <4>4. \E named :
              /\ ReadParts(At(Wire(Override(names[k], o(k).type, o(k).values)) \o left[k], known), OverrideParts)
                   = At(left[k], named)
              /\ named.attributeOverrides = With(known.attributeOverrides, names[k], ToldOf(o(k)))
              /\ Keeps(named, known, OverrideNames \cup {"attributeOverrides"})
        BY <4>1, <4>2, <4>3, OverrideReads
      <4>5. after[k] = ReadParts(At(Wire(groups[k]) \o left[k], known), OverrideParts)
        BY <2>2, <2>4, <4>1, <4>2
      <4>6. \E named : after[k] = At(left[k], named) /\ "attributeOverrides" \in DOMAIN named
        BY <4>1, <4>3, <4>4, <4>5 DEF Keeps
      <4> QED
        BY <4>2, <4>6
    <3>3. j - 1 \in Nat
      BY <1>1, <1>2
    <3> HIDE DEF U
    <3> QED
      BY <3>1, <3>2, <3>3, InductiveUpTo
  <2>6. PICK known : after[j - 1] = At(tail, known)
    <3>1. j - 1 \in U
      BY <1>1, <1>2, <2>5
    <3> QED
      BY <2>4, <3>1
  <2>7. ~after[j].ok
    <3>1. after[j] = ReadParts(At(tail, known), OverrideParts)
      BY <1>2, <2>2, <2>6
    <3>2. ~ReadParts(At(Wire(OverrideHead(names[j], o(j)) \o short) \o <<>>, known), OverrideParts).ok
      <4>1. GoodOverride(o(j)) /\ CutShort(o(j), short) /\ names[j] \in Overridden
        BY <1>1, <1>2
      <4> QED
        BY <4>1, CutOverride
    <3> QED
      BY <3>1, <3>2 DEF tail, end, head
  <2> DEFINE V == {k \in 0 .. n : k < j \/ ~after[k].ok}
  <2>8. \A k \in 0 .. n : k \in V
    <3>1. 0 \in V
      BY <1>1, <1>2
    <3>2. ASSUME NEW k \in 1 .. n, k - 1 \in V PROVE k \in V
      <4>1. CASE k < j
        BY <4>1
      <4>2. CASE k = j
        BY <2>7, <4>2
      <4>3. CASE k > j
        <5>1. ~after[k - 1].ok
          BY <1>2, <3>2, <4>3
        <5>2. Len(OverrideParts) \in Nat
          BY DEF OverrideParts
        <5>3. ReadParts(after[k - 1], OverrideParts) = after[k - 1]
          BY <5>1, <5>2, StopsReadingParts
        <5>4. ~after[k].ok
          BY <2>2, <5>1, <5>3
        <5> QED
          BY <5>4
      <4> QED
        BY <1>2, <4>1, <4>2, <4>3
    <3> HIDE DEF V
    <3> QED
      BY <1>1, <3>1, <3>2, InductiveUpTo
  <2>9. n \in V /\ ~(n < j)
    BY <1>1, <1>2, <2>8
  <2> QED
    BY <2>2, <2>9 DEF r
<1> QED
  BY <1>7, <1>8

\* A query that is the last of a request and was not written to its end: what
\* is behind the request does not make up for it.
LEMMA HalfFails ==
    ASSUME NEW attrs, GoodAttrs(attrs), FittingOrThrowing(attrs), NEW query \in Texts,
           Thrown(Message(query, attrs)) # {}
    PROVE  ~ReadOne(Wire(Written(Message(query, attrs))) \o <<>>, attrs.commandVersion).ok
<1> DEFINE left == Written(Message(query, attrs))
           a == BeforeAll(query, attrs)
           n == CountOf(attrs)
           b == <<W(n)>>
           cells == Wire(left) \o <<>>
<1>1. PICK j, short, more : CutAt(attrs, j, short, more) /\ IsLeft(left, query, attrs, more)
  BY MoreIsCut
<1> DEFINE rest == Wire(more) \o <<>>
<1>2. a \in Seq(Items) /\ b \in Seq(Items) /\ n \in Nat
  BY MessageShape
<1> HIDE DEF left
<1>3. more \in Seq(Items) /\ left = a \o (b \o more)
  BY <1>1 DEF IsLeft
<1>4. rest \in Cells /\ cells = Wire(a) \o (Wire(b) \o rest)
  <2> DEFINE bm == b \o more
  <2> HIDE DEF a, b
  <2>0. <<>> \in Cells
    BY DEF Cells
  <2>1. Splits(b, more, <<>>)
    BY <1>2, <1>3, <2>0, ItemsSplit
  <2>2. bm \in Seq(Items) /\ Wire(bm) \o <<>> = Wire(b) \o rest /\ rest \in Cells
    BY <2>1 DEF Splits
  <2> HIDE DEF bm, rest
  <2>3. Splits(a, bm, <<>>)
    BY <1>2, <2>0, <2>2, ItemsSplit
  <2> QED
    BY <1>3, <2>2, <2>3 DEF Splits, bm
<1>5. PICK known :
         /\ ReadSettings(cells, attrs.commandVersion) = At(rest, known)
         /\ known.count = n /\ "attributeOverrides" \in DOMAIN known
  <2>1. cells = Wire(BeforeAll(query, attrs)) \o (Wire(<<W(n)>>) \o rest) /\ <<W(n)>> \in Seq(Items)
    BY <1>2, <1>4
  <2>2. rest \in Cells
    BY <1>4
  <2> HIDE DEF rest, cells, n
  <2> QED
    BY <2>1, <2>2, SettingsRead
<1>6. ~ReadList(At(rest, known), OverrideParts).ok
  BY <1>1, <1>5, CutList
<1> HIDE DEF rest, cells
<1>7. ~ReadOne(cells, attrs.commandVersion).ok
  BY <1>5, <1>6, StopsReading DEF ReadOne
<1> QED
  BY <1>7 DEF cells, left

\* Of a half query at the end nothing is read.
LEMMA QueryKeepsHalf ==
    ASSUME CallSound, HalfKept, ReadQuery
    PROVE  HalfKept'
<1> DEFINE query == ReadNow
           n == Next1
<1>1. /\ unread # <<>> /\ unread.wanted > 0 /\ UNCHANGED meant
      /\ IF query.ok THEN \E entry : told' = Append(told, entry) ELSE UNCHANGED told
  BY DEF ReadQuery, ReadNow, ReadOne, ReadSettings
<1>2. n \in 1 .. Len(meant) /\ n = Len(told) + 1 /\ Len(told) \in Nat
  BY <1>1, NextRead DEF Next1
<1>3. IsList(told) /\ IsList(meant)
  BY DEF CallSound, ReadingKept
<1>4. /\ Sound' = Sound /\ InPlace' = InPlace /\ meant' = meant
  BY <1>1, MeantStays
<1>5. Len(meant) \in Nat /\ InPlace \subseteq 1 .. Len(meant)
  BY <1>3, PlacesTyped
<1> SUFFICES ASSUME NEW k \in InPlace, FittingOrThrowing(meant[k].attrs), ~meant[k].whole,
                    k = Len(meant)
             PROVE  Len(told') < k
  BY <1>4 DEF HalfKept
<1>6. Len(told) < k
  BY DEF HalfKept
<1>7. CASE ~query.ok
  BY <1>1, <1>6, <1>7
<1>8. CASE query.ok
  <2>1. PICK entry : told' = Append(told, entry)
    BY <1>1, <1>8
  <2>2. Len(told') = n
    BY <1>2, <1>3, <2>1, ListAppend
  <2>3. n # k
    <3> SUFFICES ASSUME n = k
                 PROVE  FALSE
      OBVIOUS
    <3> DEFINE this == meant[k]
    <3>1. Next1 \in InPlace /\ Next1 = Len(meant) /\ Next1 = k
      OBVIOUS
    <3>2. WellAdded(this, unread.version) /\ unread.cells = LeftBy(this) \o <<>>
      <4>1. WellAdded(meant[Next1], unread.version)
        BY <1>1, <3>1, NextRead
      <4>2. \E tail \in Cells : /\ Next1 = Len(meant) => tail = <<>>
                                /\ unread.cells = LeftBy(meant[Next1]) \o tail
        BY <1>1, <3>1, NextRead
      <4> QED
        BY <3>1, <4>1, <4>2
    <3>3. /\ GoodAttrs(this.attrs) /\ this.query \in Texts /\ this.attrs.commandVersion = unread.version
          /\ Thrown(Message(this.query, this.attrs)) # {} /\ FittingOrThrowing(this.attrs)
      BY <3>2 DEF WellAdded
    <3> HIDE DEF this
    <3>4. ~ReadOne(Wire(Written(Message(this.query, this.attrs))) \o <<>>, this.attrs.commandVersion).ok
      BY <3>3, HalfFails
    <3>5. ReadNow = ReadOne(Wire(Written(Message(this.query, this.attrs))) \o <<>>, this.attrs.commandVersion)
      BY <3>2, <3>3 DEF ReadNow, LeftBy
    <3> QED
      BY <1>8, <3>4, <3>5
  <2> QED
    BY <1>2, <1>5, <1>6, <2>2, <2>3
<1> QED
  BY <1>7, <1>8

-----------------------------------------------------------------------------
(* The whole invariant *)

WholeInv == MultiInv /\ HalfKept

LEMMA InitWhole == Init => WholeInv
<1> SUFFICES ASSUME Init PROVE WholeInv
  OBVIOUS
<1>1. ConfigInit
  BY DEF Init
<1> QED
  BY <1>1, ConfigInitKeepsSettings, ConfigInitOwns, InitObject, InitCalls DEF WholeInv, MultiInv

\* The settings are changed by their own operations only.
LEMMA SettingsStay ==
    ASSUME SettingsKept, OwnInv, [Next]_vars
    PROVE  SettingsKept' /\ OwnInv'
<1>1. CASE ConfigNext
  BY <1>1, ConfigNextKeepsSettings, ConfigNextOwns
<1>2. CASE UNCHANGED <<configs, heap>>
  BY <1>2, OwnStays DEF SettingsKept, Addresses, Freed
<1> QED
  BY <1>1, <1>2, ClientLeavesConfigs

\* The object is changed by its own operations only.
LEMMA ObjectStays ==
    ASSUME ObjectKept, SettingsKept, OwnInv, Next
    PROVE  ObjectKept'
<1>1. CASE UNCHANGED object
  BY <1>1 DEF ObjectKept, object
<1>2. CASE InitQuery
  BY <1>2, InitQueryKeepsObject
<1>3. ASSUME NEW c \in Configs, AddQuery(c) PROVE ObjectKept'
  BY <1>3, AddQueryKeepsObject
<1>4. ASSUME NEW c \in Configs, QueryOne(c) PROVE ObjectKept'
  BY <1>1, <1>4 DEF QueryOne
<1>5. CASE Configure \/ QueryMulti \/ LaunchThrows \/ ReadHeader \/ ReadQuery \/ LaunchReturns
           \/ ParseAnswer \/ QueryReturns
  BY <1>1, <1>5 DEF Configure, QueryMulti, LaunchThrows, ReadHeader, ReadQuery, LaunchReturns,
                    ParseAnswer, QueryReturns
<1> QED
  BY <1>2, <1>3, <1>4, <1>5 DEF Next

\* Each step keeps what holds of the calls.
LEMMA CallsStay ==
    ASSUME WholeInv, Next
    PROVE  CallSound' /\ HalfKept'
<1>0. CallSound /\ HalfKept /\ ObjectKept /\ SettingsKept /\ OwnInv
  BY DEF WholeInv, MultiInv
<1>1. CASE Configure \/ InitQuery \/ \E c \in Configs : AddQuery(c)
  BY <1>0, <1>1, CallerKeeps
<1>2. CASE QueryMulti
  BY <1>0, <1>2, MultiStarts
<1>3. ASSUME NEW c \in Configs, QueryOne(c) PROVE CallSound' /\ HalfKept'
  BY <1>0, <1>3, OneStarts
<1>4. CASE LaunchThrows
  BY <1>0, <1>4, ThrowKeeps
<1>5. CASE ReadHeader
  BY <1>0, <1>5, HeaderKeeps
<1>6. CASE ReadQuery
  BY <1>0, <1>6, QueryKeeps, QueryKeepsHalf
<1>7. CASE LaunchReturns
  BY <1>0, <1>7, ReturnsKeep
<1>8. CASE ParseAnswer
  BY <1>0, <1>8, AnswerKeeps
<1>9. CASE QueryReturns
  BY <1>0, <1>9, EndKeeps
<1> QED
  BY <1>1, <1>2, <1>3, <1>4, <1>5, <1>6, <1>7, <1>8, <1>9 DEF Next

LEMMA NextWhole == ASSUME WholeInv, [Next]_vars PROVE WholeInv'
<1>1. SettingsKept' /\ OwnInv'
  BY SettingsStay DEF WholeInv, MultiInv
<1>2. CASE Next
  BY <1>1, <1>2, ObjectStays, CallsStay DEF WholeInv, MultiInv
<1>3. CASE UNCHANGED vars
  <2>1. UNCHANGED <<configs, heap, calls, commandVersion, queries, queryCount, added, pc, single, cursor,
                    request, meant, unread, told, data, response, found, outcome, held>>
    BY <1>3 DEF vars, configVars, object, locals, results
  <2>2. ObjectKept' /\ RequestKept' /\ FlagsKept'
    BY <2>1 DEF WholeInv, MultiInv, CallSound, ObjectKept, RequestKept, FlagsKept
  <2>3. ReadingKept' /\ ToldKept' /\ HalfKept' /\ ParsingKept'
    BY <2>1 DEF WholeInv, MultiInv, CallSound, ReadingKept, ToldKept, HalfKept, ParsingKept, Sound,
                InPlace, Succeeded
  <2> QED
    BY <1>1, <2>2, <2>3 DEF WholeInv, MultiInv, CallSound
<1> QED
  BY <1>2, <1>3

\* All that holds of the objects, the buffer, the request, what searchd has
\* read and the answers, in every state of every sequence of calls
\* (sphinxclient.cc:713-745, :942-969, :1045-1100).
THEOREM WholeInvariant == Spec => []WholeInv
  BY InitWhole, NextWhole, PTL DEF Spec

-----------------------------------------------------------------------------
(* What follows from it *)

LEMMA TypeFollows == WholeInv => TypeOK
<1> SUFFICES ASSUME WholeInv PROVE TypeOK
  OBVIOUS
<1>0. SettingsKept /\ OwnInv /\ ObjectKept /\ CallSound
  BY DEF WholeInv, MultiInv
<1>1. ASSUME NEW c \in Alive
      PROVE  /\ DOMAIN configs[c] = DOMAIN Defaults(0)
             /\ configs[c].commandVersion \in SearchVersions
             /\ Range(configs[c].filters) \subseteq Addresses
  <2>1. c \in Configs /\ GoodSettings(configs[c])
    BY <1>0, SettingsOf
  <2>2. DOMAIN Defaults(0) = SettingNames
    BY DEF Defaults, SettingNames, NumberSettings, TextSettings, WeightSettings
  <2>3. Range(configs[c].filters) \subseteq Addresses
    <3>1. Range(Pointers[c]) \subseteq Used /\ Pointers[c] = configs[c].filters
      BY <1>0, <2>1, PointersOf
    <3> QED
      BY <3>1 DEF Used
  <2> QED
    BY <2>1, <2>2, <2>3 DEF GoodSettings
<1>2. /\ calls \in 0 .. MaxCalls /\ pc \in {"idle", "launch", "parse", "returned"}
      /\ outcome \in MachineErrors \cup {"none", "running", "ok", "Warning", "MessageError",
                                     "ClientUsageError"}
  BY <1>0 DEF CallSound, FlagsKept
<1>3. commandVersion \in SearchVersions /\ queryCount \in 0 .. MaxQueries
  <2>1. Len(added) \in Nat
    BY <1>0, WiresTyped DEF ObjectKept
  <2>2. MaxQueries \in Nat
    BY MultiAssumption, Limits
  <2> QED
    BY <1>0, <2>1, <2>2 DEF ObjectKept, AllAdded
<1>4. WithinBounds(queries) /\ WithinBounds(request)
  BY <1>0 DEF CallSound, ObjectKept, RequestKept, GoodBuffers, WithinBounds
<1>5. cursor \in 0 .. Len(meant) /\ Len(data) <= Len(meant)
  <2>1. /\ IsList(data) /\ cursor \in Nat /\ Len(data) + cursor <= Len(told)
        /\ IsList(told) /\ IsList(meant)
    BY <1>0 DEF CallSound, ParsingKept, ReadingKept
  <2>2. Len(told) \in Nat /\ Len(meant) \in Nat /\ Len(data) \in Nat
    BY <2>1, ListTyped
  <2>3. Len(told) <= Len(meant)
    <3>1. CASE unread = <<>>
      <4>1. told = <<>>
        BY <1>0, <3>1 DEF CallSound, ReadingKept
      <4> QED
        BY <2>2, <4>1, EmptyList
    <3>2. CASE unread # <<>>
      <4>1. unread.wanted \in Nat /\ Len(told) + unread.wanted <= Len(meant)
        BY <1>0, <3>2 DEF CallSound, ReadingKept
      <4> QED
        BY <2>2, <4>1
    <3> QED
      BY <3>1, <3>2
  <2> QED
    BY <2>1, <2>2, <2>3
<1> QED
  BY <1>1, <1>2, <1>3, <1>4, <1>5 DEF TypeOK

LEMMA AnswersFollow == WholeInv => AnswersInOrder
<1> SUFFICES ASSUME WholeInv PROVE AnswersInOrder
  OBVIOUS
<1>0. FlagsKept /\ ReadingKept /\ ToldKept /\ ParsingKept
  BY DEF WholeInv, MultiInv, CallSound
<1>1. /\ IsList(data) /\ IsList(told) /\ cursor \in Nat /\ Len(data) + cursor <= Len(told)
  BY <1>0 DEF ParsingKept, ReadingKept
<1>2. Len(data) \in Nat /\ Len(told) \in Nat /\ DOMAIN told = 1 .. Len(told)
  BY <1>1, ListTyped
<1>3. \A k \in 1 .. cursor \cap InPlace : told[k].query = meant[k].query
  <2> TAKE k \in 1 .. cursor \cap InPlace
  <2>1. k \in DOMAIN told
    BY <1>1, <1>2
  <2> QED
    BY <1>0, <2>1 DEF ToldKept
<1>4. pc \in {"parse", "returned"} =>
         /\ Len(response) = Len(held) + IF single THEN 0 ELSE cursor
         /\ \A k \in 1 .. Len(held) : response[k] = held[k]
         /\ ~single => \A k \in 1 .. cursor \cap InPlace :
                          response[Len(held) + k] = meant[k].query
  BY <1>0, <1>3 DEF ParsingKept
<1>5. Succeeded => cursor = Len(meant) /\ (single => found = meant[1].query)
  <2> SUFFICES ASSUME Succeeded
               PROVE  cursor = Len(meant) /\ (single => found = meant[1].query)
    OBVIOUS
  <2>1. cursor = Len(meant) /\ (single => cursor = 1)
    BY <1>0 DEF ParsingKept
  <2>2. ASSUME single PROVE found = meant[1].query
    <3>1. cursor = 1 /\ found = told[1].query
      BY <1>0, <2>1, <2>2 DEF ParsingKept
    <3>2. 1 \in InPlace
      <4>0. IsList(meant)
        BY <1>0 DEF ReadingKept
      <4>1. DOMAIN meant = 1 .. Len(meant) /\ Len(meant) = 1
        BY <2>1, <3>1, <4>0, ListTyped
      <4>2. 1 \in DOMAIN meant
        BY <4>1
      <4>3. 1 .. 1 - 1 = {}
        OBVIOUS
      <4> QED
        BY <4>2, <4>3 DEF InPlace
    <3>3. 1 \in 1 .. cursor \cap InPlace
      BY <3>1, <3>2
    <3> QED
      BY <1>3, <3>1, <3>3
  <2> QED
    BY <2>1, <2>2
<1> QED
  BY <1>4, <1>5 DEF AnswersInOrder

LEMMA HalfFollows == WholeInv => HalfBuiltLastFails
<1> SUFFICES ASSUME WholeInv, Succeeded, NEW k \in InPlace, FittingOrThrowing(meant[k].attrs),
                    ~meant[k].whole
             PROVE  k < Len(meant)
  BY DEF HalfBuiltLastFails
<1>0. ReadingKept /\ ParsingKept /\ HalfKept
  BY DEF WholeInv, MultiInv, CallSound
<1>1. k \in 1 .. Len(meant) /\ Len(meant) \in Nat
  BY <1>0, PlacesTyped DEF ReadingKept
<1>2. cursor = Len(meant) /\ Len(data) + cursor <= Len(told) /\ Len(data) \in Nat /\ Len(told) \in Nat
  BY <1>0, ListTyped DEF ParsingKept, ReadingKept
<1>3. k = Len(meant) => Len(told) < k
  BY <1>0 DEF HalfKept
<1> QED
  BY <1>1, <1>2, <1>3

LEMMA RequestsFollow == WholeInv => RequestsMeanTheirSettings
<1> SUFFICES ASSUME WholeInv PROVE RequestsMeanTheirSettings
  OBVIOUS
<1>0. ReadingKept /\ ToldKept
  BY DEF WholeInv, MultiInv, CallSound
<1>1. /\ Sound \subseteq 1 .. Len(meant) /\ Len(meant) \in Nat
      /\ \A k \in Sound : 1 .. k \subseteq Sound
  BY <1>0, PlacesTyped DEF ReadingKept
<1>2. Len(told) \in Nat /\ DOMAIN told = 1 .. Len(told)
  BY <1>0, ListTyped DEF ReadingKept
<1>3. ASSUME AllRead, NEW k \in Sound PROVE k \in DOMAIN told
  <2>1. Len(told) = Len(meant) \/ Len(told) + 1 \notin Sound
    BY <1>0, <1>3 DEF ReadingKept, AllRead
  <2>2. CASE Len(told) = Len(meant)
    BY <1>1, <1>2, <2>2
  <2>3. CASE Len(told) + 1 \notin Sound
    <3>1. 1 .. k \subseteq Sound /\ k \in 1 .. Len(meant)
      BY <1>1
    <3>2. Len(told) + 1 \notin 1 .. k
      BY <2>3, <3>1
    <3> QED
      BY <1>2, <3>1, <3>2
  <2> QED
    BY <2>1, <2>2, <2>3
<1> QED
  BY <1>0, <1>3 DEF ToldKept, RequestsMeanTheirSettings

\* Copies of settings have all of them, the buffers of requests keep to their
\* arrays however long the queries are, and there are no more queries than
\* were counted (sphinxclient.cc:215-247, sphinxclientquery.cc:69-218).
THEOREM MultiTyped == Spec => []TypeOK
  BY WholeInvariant, TypeFollows, PTL

\* query() leaves what the vector held where it was, appends the answers of its
\* queries in the order in which they were added, and does not succeed with fewer
\* than there are queries (sphinxclient.cc:1072-1096, :962-968).
THEOREM AnswersComeInOrder == Spec => []AnswersInOrder
  BY WholeInvariant, AnswersFollow, PTL

\* After an addQuery() that threw in the middle of an override, query() with that
\* object does not succeed as long as nothing was added behind: the number of
\* documents that was written is more than the values that follow, and searchd
\* finds the request too short (sphinxclient.cc:725-739).
THEOREM HalfBuiltFails == Spec => []HalfBuiltLastFails
  BY WholeInvariant, HalfFollows, PTL

\* searchd reads each query of a request with the text and the settings it was
\* added with, for both versions of the protocol and all values of all settings:
\* the builder and the format agree on every field, and no setting made later, in
\* that object or another, comes in (queryversions.cc:69-252, filter.cc:72-161).
THEOREM SettingsArrive == Spec => []RequestsMeanTheirSettings
  BY WholeInvariant, RequestsFollow, PTL
=============================================================================
