------------------------ MODULE SearchRequestProofs -------------------------
(***************************************************************************)
(* The settings and filters of SearchConfig_t, and that a query is read by *)
(* searchd with the settings it was written with, for any number of        *)
(* objects and filters and for all settings, texts and numbers whose       *)
(* lengths fit into their counts.                                          *)
(*                                                                         *)
(* Who owns the filters: the pointers of all objects and the addresses in  *)
(* use are enough to say it. An operation gives one object a new vector of *)
(* pointers, disjoint from those of the others, and frees what it pointed  *)
(* to (OwnershipMoves). Each operation is shown to be such a move.         *)
(*                                                                         *)
(* What is read back: an item has cells of its own (Wire), and taking      *)
(* items by their widths undoes that. Each part of a message is read as it *)
(* was written, whatever cells follow (Matches), hence lists of filters,   *)
(* anchor points, weights and overrides, hence a whole query (QueryRead),  *)
(* as long as the values of its overrides are of the type of their         *)
(* attribute (Suits). A query with a value that has no form has nothing    *)
(* behind it.                                                              *)
(***************************************************************************)
EXTENDS MultiQuery, BufferProofs

(* Who owns the filters *)

Pointers == [c \in Configs |-> IF configs[c].alive THEN configs[c].filters ELSE <<>>]
Used == {a \in Addresses : heap[a] # Freed}

OneToOne(fs) == \A k, l \in DOMAIN fs : fs[k] = fs[l] => k = l

\* Of the vectors p no two places hold the same address, and the addresses
\* used are those in them.
Owned(p, used) ==
    /\ p \in [Configs -> Seq(Addresses)]
    /\ \A c, d \in Configs : \A k \in DOMAIN p[c], l \in DOMAIN p[d] :
         p[c][k] = p[d][l] => c = d /\ k = l
    /\ used = UNION {Range(p[c]) : c \in Configs}

Shapes ==
    /\ DOMAIN heap = Addresses /\ DOMAIN configs = Configs
    /\ \A c \in Configs : "alive" \in DOMAIN configs[c]
    /\ \A c \in Configs : configs[c].alive => "filters" \in DOMAIN configs[c]

OwnInv == Shapes /\ Owned(Pointers, Used)

-----------------------------------------------------------------------------

\* One object gets other pointers: those it had are free, and it must not
\* take those of others.
LEMMA OwnershipMoves ==
    ASSUME NEW p, NEW used, Owned(p, used),
           NEW c \in Configs, NEW fs \in Seq(Addresses), OneToOne(fs),
           Range(fs) \cap (used \ Range(p[c])) = {}
    PROVE  Owned([p EXCEPT ![c] = fs], (used \ Range(p[c])) \cup Range(fs))
<1> DEFINE q == [p EXCEPT ![c] = fs]
<1>1. p \in [Configs -> Seq(Addresses)]
  BY DEF Owned
<1>2. q \in [Configs -> Seq(Addresses)]
  BY <1>1
<1>3. q[c] = fs /\ \A d \in Configs \ {c} : q[d] = p[d]
  BY <1>1
<1>4. \A d \in Configs \ {c} : Range(p[d]) \subseteq used /\ Range(p[d]) \cap Range(p[c]) = {}
  BY DEF Owned, Range
<1>5. \A d \in Configs \ {c} : \A k \in DOMAIN fs, l \in DOMAIN p[d] : fs[k] # p[d][l]
  BY <1>4 DEF Range
<1>6. \A d, e \in Configs : \A k \in DOMAIN q[d], l \in DOMAIN q[e] :
        q[d][k] = q[e][l] => d = e /\ k = l
  <2> SUFFICES ASSUME NEW d \in Configs, NEW e \in Configs,
                      NEW k \in DOMAIN q[d], NEW l \in DOMAIN q[e], q[d][k] = q[e][l]
               PROVE  d = e /\ k = l
    OBVIOUS
  <2> HIDE DEF q
  <2>1. CASE d = c /\ e = c
    BY <2>1, <1>3 DEF OneToOne
  <2>2. CASE d = c /\ e # c
    BY <2>2, <1>3, <1>5
  <2>3. CASE d # c /\ e = c
    BY <2>3, <1>3, <1>5
  <2>4. CASE d # c /\ e # c
    BY <2>4, <1>3 DEF Owned
  <2> QED
    BY <2>1, <2>2, <2>3, <2>4
<1>7. (used \ Range(p[c])) \cup Range(fs) = UNION {Range(q[d]) : d \in Configs}
  <2>1. used = UNION {Range(p[d]) : d \in Configs}
    BY DEF Owned
  <2> HIDE DEF q
  <2>2. ASSUME NEW a \in (used \ Range(p[c])) \cup Range(fs)
        PROVE  \E d \in Configs : a \in Range(q[d])
    <3>1. CASE a \in Range(fs)
      BY <3>1, <1>3
    <3>2. CASE a \in used \ Range(p[c])
      BY <3>2, <2>1, <1>3
    <3> QED
      BY <3>1, <3>2
  <2>3. ASSUME NEW d \in Configs, NEW a \in Range(q[d])
        PROVE  a \in (used \ Range(p[c])) \cup Range(fs)
    <3>1. CASE d = c
      BY <3>1, <1>3
    <3>2. CASE d # c
      BY <3>2, <1>3, <1>4
    <3> QED
      BY <3>1, <3>2
  <2> QED
    BY <2>2, <2>3
<1> HIDE DEF q
<1>8. Owned(q, (used \ Range(p[c])) \cup Range(fs))
  BY <1>2, <1>6, <1>7 DEF Owned
<1> QED
  BY <1>8 DEF q

\* The lowest n addresses of enough free ones are n of them.
LEMMA LowestFree ==
    ASSUME NEW free \in SUBSET Addresses, NEW n \in Nat, n <= Cardinality(free)
    PROVE  /\ Lowest(free, n) \in [1 .. n -> free]
           /\ OneToOne(Lowest(free, n))
<1> DEFINE number(a) == Cardinality({b \in free : b < a})
<1>1. IsFiniteSet(free) /\ Cardinality(free) \in Nat
  BY ConfigAssumption, BelowFinite, FS_Subset, FS_CardinalityType DEF Addresses
<1>2. \A m \in 0 .. Cardinality(free) - 1 : \E a \in free : number(a) = m
  <2>1. free \in SUBSET Int
    BY DEF Addresses
  <2> QED
    BY <1>1, <2>1, CountedBelow
<1> HIDE DEF number
<1>3. ASSUME NEW k \in 1 .. n
      PROVE  Lowest(free, n)[k] \in free /\ number(Lowest(free, n)[k]) = k - 1
  <2>1. k - 1 \in 0 .. Cardinality(free) - 1
    BY <1>1
  <2>2. \E a \in free : number(a) = k - 1
    BY <1>2, <2>1
  <2>3. Lowest(free, n)[k] = CHOOSE a \in free : number(a) = k - 1
    BY DEF Lowest, number
  <2> QED
    BY <2>2, <2>3
<1>4. DOMAIN Lowest(free, n) = 1 .. n
  BY DEF Lowest
<1>5. Lowest(free, n) \in [1 .. n -> free]
  <2> DEFINE lowest(k) == CHOOSE a \in free : Cardinality({b \in free : b < a}) = k - 1
  <2>1. Lowest(free, n) = [k \in 1 .. n |-> lowest(k)]
    BY DEF Lowest
  <2> HIDE DEF lowest
  <2>2. \A k \in 1 .. n : lowest(k) \in free
    BY <1>3, <2>1
  <2> QED
    BY <2>1, <2>2
<1>6. OneToOne(Lowest(free, n))
  <2> SUFFICES ASSUME NEW k \in 1 .. n, NEW l \in 1 .. n,
                      Lowest(free, n)[k] = Lowest(free, n)[l]
               PROVE  k = l
    BY <1>4 DEF OneToOne
  <2>1. k - 1 = l - 1
    BY <1>3
  <2> QED
    BY <2>1
<1> QED
  BY <1>5, <1>6

\* A filter is not what stands for memory that was freed.
LEMMA FilterIsNotFreed ==
    ASSUME NEW f \in NewFilters
    PROVE  NewFilter(f) # Freed
<1>1. DOMAIN f = {"kind", "attrName", "excludeFlag", "values"}
      /\ f.kind \in {"range", "values", "floatrange"}
  BY ConfigAssumption DEF FilterValues
<1>2. DOMAIN NewFilter(f) = DOMAIN f
  BY <1>1 DEF NewFilter, RangeFilter, EnumFilter, FloatRangeFilter
<1>3. DOMAIN Freed = {"alive"}
  BY DEF Freed
<1>4. "kind" \in DOMAIN NewFilter(f) /\ "kind" \notin DOMAIN Freed
  BY <1>1, <1>2, <1>3
<1> QED
  BY <1>4

-----------------------------------------------------------------------------
(* The operations *)

\* An object is replaced by "new", and it owns then what "new" points to.
LEMMA ObjectChanges ==
    ASSUME OwnInv, NEW c \in Configs, NEW new,
           "alive" \in DOMAIN new, new.alive => "filters" \in DOMAIN new,
           NEW fs \in Seq(Addresses), fs = (IF new.alive THEN new.filters ELSE <<>>),
           OneToOne(fs), Range(fs) \cap (Used \ Range(Pointers[c])) = {},
           configs' = [configs EXCEPT ![c] = new], DOMAIN heap' = Addresses,
           Used' = (Used \ Range(Pointers[c])) \cup Range(fs)
    PROVE  OwnInv'
<1>1. configs'[c] = new /\ \A d \in Configs \ {c} : configs'[d] = configs[d]
  BY DEF OwnInv, Shapes
<1>2. Shapes'
  <2>1. DOMAIN configs' = Configs
    BY DEF OwnInv, Shapes
  <2>2. \A d \in Configs : "alive" \in DOMAIN configs'[d]
    BY <1>1 DEF OwnInv, Shapes
  <2>3. \A d \in Configs : configs'[d].alive => "filters" \in DOMAIN configs'[d]
    BY <1>1 DEF OwnInv, Shapes
  <2> QED
    BY <2>1, <2>2, <2>3 DEF Shapes, Addresses
<1>3. Pointers' = [Pointers EXCEPT ![c] = fs]
  <2>1. Pointers' = [d \in Configs |-> IF configs'[d].alive THEN configs'[d].filters ELSE <<>>]
    BY DEF Pointers
  <2>2. \A d \in Configs :
          (IF configs'[d].alive THEN configs'[d].filters ELSE <<>>)
             = IF d = c THEN fs ELSE Pointers[d]
    BY <1>1 DEF Pointers
  <2>3. Pointers' = [d \in Configs |-> IF d = c THEN fs ELSE Pointers[d]]
    BY <2>1, <2>2
  <2>4. DOMAIN Pointers = Configs
    BY DEF Pointers
  <2> QED
    BY <2>3, <2>4
<1>4. Owned([Pointers EXCEPT ![c] = fs], (Used \ Range(Pointers[c])) \cup Range(fs))
  BY OwnershipMoves DEF OwnInv
<1>5. Owned(Pointers', Used')
  BY <1>3, <1>4
<1>6. Owned(Pointers, Used)'
  BY <1>5 DEF Owned
<1> QED
  BY <1>2, <1>6 DEF OwnInv

\* The addresses used are those that were not deleted and those of the copies.
LEMMA HeapChanges ==
    ASSUME OwnInv, NEW source \in Configs, configs[source].alive,
           NEW fs \in Seq(Addresses), DOMAIN fs \subseteq DOMAIN configs[source].filters,
           NEW deleted, heap' = HeapWith(source, fs, deleted)
    PROVE  DOMAIN heap' = Addresses /\ Used' = (Used \ deleted) \cup Range(fs)
<1>1. DOMAIN heap' = Addresses
  BY DEF HeapWith
<1>2. ASSUME NEW k \in DOMAIN fs
      PROVE  heap[configs[source].filters[k]] # Freed
  <2>1. configs[source].filters[k] \in Range(Pointers[source])
    BY DEF Pointers, Range
  <2>2. configs[source].filters[k] \in Used
    BY <2>1 DEF OwnInv, Owned
  <2> QED
    BY <2>2 DEF Used
<1>3. ASSUME NEW a \in Addresses
      PROVE  heap'[a] # Freed <=> a \in (Used \ deleted) \cup Range(fs)
  <2>1. CASE \E k \in DOMAIN fs : fs[k] = a
    <3>1. (CHOOSE k \in DOMAIN fs : fs[k] = a) \in DOMAIN fs
      BY <2>1
    <3>2. heap'[a] = heap[configs[source].filters[CHOOSE k \in DOMAIN fs : fs[k] = a]]
      BY <2>1 DEF HeapWith
    <3>3. heap'[a] # Freed
      BY <1>2, <3>1, <3>2
    <3> QED
      BY <2>1, <3>3 DEF Range
  <2>2. CASE ~ \E k \in DOMAIN fs : fs[k] = a
    <3>1. heap'[a] = IF a \in deleted THEN Freed ELSE heap[a]
      BY <2>2 DEF HeapWith
    <3>2. a \notin Range(fs)
      BY <2>2 DEF Range
    <3> QED
      BY <3>1, <3>2 DEF Used
  <2> QED
    BY <2>1, <2>2
<1>4. Used' = {a \in Addresses : heap'[a] # Freed}
  BY DEF Used, Freed, Addresses
<1>5. Used \subseteq Addresses /\ Range(fs) \subseteq Addresses
  <2>1. fs \in [1 .. Len(fs) -> Addresses]
    BY LenProperties
  <2> QED
    BY <2>1 DEF Used, Range
<1>6. Used' = (Used \ deleted) \cup Range(fs)
  BY <1>3, <1>4, <1>5
<1> QED
  BY <1>1, <1>6

\* What an object points to, when it is there and when it is not.
LEMMA PointersOf ==
    ASSUME OwnInv, NEW c \in Configs
    PROVE  /\ Pointers[c] \in Seq(Addresses) /\ OneToOne(Pointers[c])
           /\ Range(Pointers[c]) \subseteq Used
           /\ c \in Alive => Pointers[c] = configs[c].filters
           /\ c \notin Alive => Pointers[c] = <<>>
<1>1. Pointers[c] \in Seq(Addresses) /\ OneToOne(Pointers[c])
  BY DEF OwnInv, Owned, OneToOne
<1>2. Range(Pointers[c]) \subseteq Used
  BY DEF OwnInv, Owned
<1>3. /\ c \in Alive => Pointers[c] = configs[c].filters
      /\ c \notin Alive => Pointers[c] = <<>>
  BY DEF Pointers, Alive
<1> QED
  BY <1>1, <1>2, <1>3

LEMMA NothingPointed ==
    <<>> \in Seq(Addresses) /\ OneToOne(<<>>) /\ Range(<<>>) = {}
BY EmptySeq DEF OneToOne, Range

\* A setting other than the filters changes.
LEMMA FiltersStay ==
    ASSUME OwnInv, NEW c \in Alive, NEW new,
           {"alive", "filters"} \subseteq DOMAIN new,
           new.alive, new.filters = configs[c].filters,
           configs' = [configs EXCEPT ![c] = new], UNCHANGED heap
    PROVE  OwnInv'
<1>1. c \in Configs /\ Pointers[c] = configs[c].filters
  BY PointersOf DEF Alive
<1>2. Pointers[c] = IF new.alive THEN new.filters ELSE <<>>
  BY <1>1
<1>3. Pointers[c] \in Seq(Addresses) /\ OneToOne(Pointers[c])
      /\ Range(Pointers[c]) \subseteq Used
  BY <1>1, PointersOf
<1>4. DOMAIN heap' = Addresses
  BY DEF OwnInv, Shapes
<1>5. Used' = Used
  BY DEF Used, Freed, Addresses
<1>6. Used' = (Used \ Range(Pointers[c])) \cup Range(Pointers[c])
  BY <1>3, <1>5
<1>7. Range(Pointers[c]) \cap (Used \ Range(Pointers[c])) = {}
  OBVIOUS
<1> QED
  BY <1>1, <1>2, <1>3, <1>4, <1>6, <1>7, ObjectChanges

LEMMA ConstructOwns ==
    ASSUME OwnInv, NEW c \in Configs, Construct(c)
    PROVE  OwnInv'
<1>1. PICK version \in SearchVersions : configs' = [configs EXCEPT ![c] = Defaults(version)]
  BY DEF Construct
<1>2. "alive" \in DOMAIN Defaults(version) /\ "filters" \in DOMAIN Defaults(version)
      /\ Defaults(version).alive /\ Defaults(version).filters = <<>>
  BY DEF Defaults
<1>3. Pointers[c] = <<>>
  BY PointersOf DEF Construct
<1>4. UNCHANGED heap
  BY DEF Construct
<1>5. DOMAIN heap' = Addresses
  BY <1>4 DEF OwnInv, Shapes
<1>6. Used' = Used
  BY <1>4 DEF Used, Freed, Addresses
<1>7. Used' = (Used \ Range(Pointers[c])) \cup Range(<<>>)
      /\ Range(<<>>) \cap (Used \ Range(Pointers[c])) = {}
  BY <1>3, <1>6, NothingPointed
<1>8. <<>> = IF Defaults(version).alive THEN Defaults(version).filters ELSE <<>>
  BY <1>2
<1> QED
  BY <1>1, <1>2, <1>5, <1>7, <1>8, NothingPointed, ObjectChanges

\* Both ways to copy: "from" gets clones at free addresses, and what "c"
\* pointed to is deleted.
LEMMA CopyOwns ==
    ASSUME OwnInv, NEW c \in Configs, NEW from \in Alive,
           NEW deleted, deleted = Range(Pointers[c]),
           NEW free, free = (Addresses \ Used) \cup deleted,
           Cardinality(free) >= Len(configs[from].filters),
           configs' = [configs EXCEPT ![c] = MakeCopy(from, Clones(from, free))],
           heap' = HeapWith(from, Clones(from, free), deleted)
    PROVE  OwnInv'
<1> DEFINE clones == Clones(from, free)
           n == Len(configs[from].filters)
           new == MakeCopy(from, clones)
<1>1. from \in Configs /\ configs[from].alive
  BY DEF Alive
<1>2. /\ configs[from].filters \in Seq(Addresses)
      /\ n \in Nat /\ DOMAIN configs[from].filters = 1 .. n
  BY <1>1, PointersOf, LenProperties
<1>3. deleted \subseteq Used /\ Used \subseteq Addresses
  BY PointersOf DEF Used
<1>4. free \in SUBSET Addresses
  BY <1>3
<1>5. Cardinality(free) \in Nat
  BY <1>4, ConfigAssumption, BelowFinite, FS_Subset, FS_CardinalityType DEF Addresses
<1>6. n <= Cardinality(free)
  BY <1>2, <1>5
<1>7. clones \in [1 .. n -> free] /\ OneToOne(clones)
  <2> HIDE DEF n
  <2>1. Lowest(free, n) \in [1 .. n -> free] /\ OneToOne(Lowest(free, n))
    BY <1>2, <1>4, <1>6, LowestFree
  <2> QED
    BY <2>1 DEF Clones, n
<1> HIDE DEF clones, n
<1>8. clones \in Seq(Addresses)
  <2>1. clones \in [1 .. n -> Addresses]
    BY <1>4, <1>7
  <2> QED
    BY <1>2, <2>1, SeqDef
<1>9. DOMAIN clones \subseteq DOMAIN configs[from].filters
  BY <1>2, <1>7
<1>10. DOMAIN heap' = Addresses /\ Used' = (Used \ deleted) \cup Range(clones)
  BY <1>1, <1>8, <1>9, HeapChanges DEF clones
<1>11. Range(clones) \cap (Used \ Range(Pointers[c])) = {}
  <2>1. Range(clones) \subseteq free
    BY <1>7 DEF Range
  <2> QED
    BY <2>1
<1>12. "alive" \in DOMAIN new /\ "filters" \in DOMAIN new /\ new.alive /\ new.filters = clones
  <2>1. {"alive", "filters"} \subseteq DOMAIN configs[from]
    BY <1>1 DEF OwnInv, Shapes
  <2> QED
    BY <1>1, <2>1 DEF MakeCopy
<1>13. configs' = [configs EXCEPT ![c] = new]
  BY DEF clones
<1> HIDE DEF new
<1>14. clones = IF new.alive THEN new.filters ELSE <<>>
  BY <1>12
<1> QED
  BY <1>7, <1>8, <1>10, <1>11, <1>12, <1>13, <1>14, ObjectChanges

LEMMA FreeIsNotUsed == ASSUME OwnInv PROVE Free = Addresses \ Used
BY DEF Free, Used

LEMMA CopyConstructOwns ==
    ASSUME OwnInv, NEW c \in Configs, NEW from \in Configs, CopyConstruct(c, from)
    PROVE  OwnInv'
<1>1. c \notin Alive /\ from \in Alive
  BY DEF CopyConstruct
<1>2. Range(Pointers[c]) = {}
  BY <1>1, PointersOf, NothingPointed
<1>3. Free = (Addresses \ Used) \cup Range(Pointers[c])
  BY <1>2, FreeIsNotUsed
<1>4. /\ Cardinality(Free) >= Len(configs[from].filters)
      /\ configs' = [configs EXCEPT ![c] = MakeCopy(from, Clones(from, Free))]
      /\ heap' = HeapWith(from, Clones(from, Free), Range(Pointers[c]))
  BY <1>2 DEF CopyConstruct
<1> QED
  BY <1>1, <1>3, <1>4, CopyOwns

LEMMA AssignOwns ==
    ASSUME OwnInv, NEW c \in Configs, NEW from \in Configs, Assign(c, from)
    PROVE  OwnInv'
<1>1. c \in Alive /\ from \in Alive
  BY DEF Assign
<1>2. DeletedWith(c) = Range(Pointers[c])
  BY <1>1, PointersOf DEF DeletedWith
<1>3. Free \cup DeletedWith(c) = (Addresses \ Used) \cup Range(Pointers[c])
  BY <1>2, FreeIsNotUsed
<1>4. /\ Cardinality(Free \cup DeletedWith(c)) >= Len(configs[from].filters)
      /\ configs' = [configs EXCEPT ![c] =
                       MakeCopy(from, Clones(from, Free \cup DeletedWith(c)))]
      /\ heap' = HeapWith(from, Clones(from, Free \cup DeletedWith(c)), DeletedWith(c))
  BY DEF Assign
<1> QED
  BY <1>1, <1>2, <1>3, <1>4, CopyOwns

LEMMA DestroyOwns ==
    ASSUME OwnInv, NEW c \in Configs, Destroy(c)
    PROVE  OwnInv'
<1>1. c \in Alive /\ configs[c].alive
  BY DEF Destroy, Alive
<1>2. DeletedWith(c) = Range(Pointers[c])
  BY <1>1, PointersOf DEF DeletedWith
<1>3. DOMAIN <<>> \subseteq DOMAIN configs[c].filters
  OBVIOUS
<1>4. heap' = HeapWith(c, <<>>, Range(Pointers[c]))
  BY <1>2 DEF Destroy
<1>5. DOMAIN heap' = Addresses /\ Used' = (Used \ Range(Pointers[c])) \cup Range(<<>>)
  BY <1>1, <1>3, <1>4, NothingPointed, HeapChanges
<1>6. "alive" \in DOMAIN NotAlive /\ ~NotAlive.alive
  BY DEF NotAlive
<1>7. configs' = [configs EXCEPT ![c] = NotAlive]
  BY DEF Destroy
<1>8. <<>> = IF NotAlive.alive THEN NotAlive.filters ELSE <<>>
  BY <1>6
<1>9. Range(<<>>) \cap (Used \ Range(Pointers[c])) = {}
  BY NothingPointed
<1> QED
  BY <1>5, <1>6, <1>7, <1>8, <1>9, NothingPointed, ObjectChanges

LEMMA AddFilterOwns ==
    ASSUME OwnInv, NEW c \in Configs, NEW f \in NewFilters, AddFilter(c, f)
    PROVE  OwnInv'
<1> DEFINE a == Lowest(Free, 1)[1]
           fs == Append(configs[c].filters, a)
           new == [configs[c] EXCEPT !.filters = fs]
<1>1. c \in Alive /\ configs[c].alive /\ Free # {}
  BY DEF AddFilter, Alive
<1>2. Free \in SUBSET Addresses
  BY DEF Free
<1>3. IsFiniteSet(Free) /\ Cardinality(Free) \in Nat
  BY <1>2, ConfigAssumption, BelowFinite, FS_Subset, FS_CardinalityType DEF Addresses
<1>4. 1 <= Cardinality(Free)
  BY <1>1, <1>3, FS_EmptySet
<1>5. a \in Free
  BY <1>2, <1>4, LowestFree
<1>6. a \in Addresses /\ a \notin Used
  BY <1>5, FreeIsNotUsed
<1>7. /\ configs[c].filters \in Seq(Addresses) /\ OneToOne(configs[c].filters)
      /\ Pointers[c] = configs[c].filters /\ Range(configs[c].filters) \subseteq Used
  BY <1>1, PointersOf
<1>8. configs' = [configs EXCEPT ![c] = new] /\ heap' = [heap EXCEPT ![a] = NewFilter(f)]
  BY DEF AddFilter
<1> HIDE DEF a
<1>9. /\ fs \in Seq(Addresses) /\ Len(fs) = Len(configs[c].filters) + 1
      /\ \A k \in 1 .. Len(configs[c].filters) : fs[k] = configs[c].filters[k]
      /\ fs[Len(configs[c].filters) + 1] = a
  BY <1>6, <1>7, AppendProperties
<1> HIDE DEF fs
<1>10. /\ Len(configs[c].filters) \in Nat
       /\ DOMAIN configs[c].filters = 1 .. Len(configs[c].filters)
       /\ DOMAIN fs = 1 .. Len(configs[c].filters) + 1
  BY <1>7, <1>9, LenProperties
<1>11. \A k \in DOMAIN fs : \/ k \in DOMAIN configs[c].filters /\ fs[k] \in Used
                            \/ k = Len(configs[c].filters) + 1 /\ fs[k] = a
  BY <1>7, <1>9, <1>10 DEF Range
<1>12. OneToOne(fs)
  BY <1>6, <1>7, <1>9, <1>10, <1>11 DEF OneToOne
<1>13. Range(fs) = Range(configs[c].filters) \cup {a}
  BY <1>9, <1>10, SMTT(20) DEF Range
<1>14. DOMAIN heap' = Addresses
  BY <1>8 DEF OwnInv, Shapes
<1>15. Used' = Used \cup {a}
  <2>1. Used' = {b \in Addresses : heap'[b] # Freed}
    BY DEF Used, Freed, Addresses
  <2>2. heap'[a] # Freed
    BY <1>6, <1>8, FilterIsNotFreed DEF OwnInv, Shapes
  <2>3. \A b \in Addresses \ {a} : heap'[b] = heap[b]
    BY <1>8 DEF OwnInv, Shapes
  <2> QED
    BY <1>6, <2>1, <2>2, <2>3 DEF Used
<1>16. Used' = (Used \ Range(Pointers[c])) \cup Range(fs)
  BY <1>7, <1>13, <1>15
<1>17. Range(fs) \cap (Used \ Range(Pointers[c])) = {}
  BY <1>6, <1>7, <1>13
<1>18. "alive" \in DOMAIN new /\ "filters" \in DOMAIN new /\ new.alive /\ new.filters = fs
  <2>1. {"alive", "filters"} \subseteq DOMAIN configs[c]
    BY <1>1 DEF OwnInv, Shapes, Alive
  <2> QED
    BY <1>1, <2>1
<1> HIDE DEF new
<1>19. fs = IF new.alive THEN new.filters ELSE <<>>
  BY <1>18
<1> QED
  BY <1>8, <1>9, <1>12, <1>14, <1>16, <1>17, <1>18, <1>19, ObjectChanges

LEMMA SetOwns ==
    ASSUME OwnInv, NEW c \in Configs, NEW fields \in Setters, Set(c, fields)
    PROVE  OwnInv'
<1> DEFINE set == [f \in fields |-> NewSettings[f]]
           new == Changed(configs[c], set)
<1>1. c \in Alive /\ configs[c].alive
  BY DEF Set, Alive
<1>2. {"alive", "filters"} \subseteq DOMAIN configs[c]
  BY <1>1 DEF OwnInv, Shapes
<1>3. "alive" \notin fields /\ "filters" \notin fields
  BY DEF Setters
<1>4. configs' = [configs EXCEPT ![c] = new] /\ UNCHANGED heap
  BY DEF Set
<1>5. DOMAIN set = fields
  OBVIOUS
<1> HIDE DEF set
<1>6. {"alive", "filters"} \subseteq DOMAIN new /\ new.alive /\ new.filters = configs[c].filters
  BY <1>1, <1>2, <1>3, <1>5 DEF Changed
<1> HIDE DEF new
<1> QED
  BY <1>1, <1>4, <1>6, FiltersStay

LEMMA SetWeightOwns ==
    ASSUME OwnInv, NEW c \in Configs, NEW weights \in {"indexWeights", "fieldWeights"},
           SetWeight(c, weights)
    PROVE  OwnInv'
<1> DEFINE new == [configs[c] EXCEPT ![weights] = Weighted(c, weights)]
<1>1. c \in Alive /\ configs[c].alive
  BY DEF SetWeight, Alive
<1>2. {"alive", "filters"} \subseteq DOMAIN configs[c]
  BY <1>1 DEF OwnInv, Shapes
<1>3. configs' = [configs EXCEPT ![c] = new] /\ UNCHANGED heap
  BY DEF SetWeight
<1>4. {"alive", "filters"} \subseteq DOMAIN new /\ new.alive /\ new.filters = configs[c].filters
  BY <1>1, <1>2
<1> HIDE DEF new
<1> QED
  BY <1>1, <1>3, <1>4, FiltersStay

LEMMA AddAttributeOverrideOwns ==
    ASSUME OwnInv, NEW c \in Configs, NEW o \in NewOverrides, AddAttributeOverride(c, o)
    PROVE  OwnInv'
<1>1. c \in Alive /\ configs[c].alive
  BY DEF AddAttributeOverride, Alive
<1>2. {"alive", "filters"} \subseteq DOMAIN configs[c]
  BY <1>1 DEF OwnInv, Shapes
<1>3. /\ UNCHANGED heap
      /\ \E overrides \in {OverrideAll(configs[c].attributeOverrides, o),
                          OverrideOne(configs[c].attributeOverrides, o)} :
           configs' = [configs EXCEPT ![c].attributeOverrides = overrides]
  BY DEF AddAttributeOverride
<1>4. PICK overrides : configs' = [configs EXCEPT ![c].attributeOverrides = overrides]
  BY <1>3
<1> DEFINE new == [configs[c] EXCEPT !.attributeOverrides = overrides]
<1>5. configs' = [configs EXCEPT ![c] = new]
  BY <1>4
<1>6. {"alive", "filters"} \subseteq DOMAIN new /\ new.alive /\ new.filters = configs[c].filters
  BY <1>1, <1>2
<1> HIDE DEF new
<1> QED
  BY <1>1, <1>3, <1>5, <1>6, FiltersStay

LEMMA ConfigNextOwns == ASSUME OwnInv, ConfigNext PROVE OwnInv'
<1>1. PICK c \in Configs :
        \/ Construct(c) \/ Destroy(c)
        \/ \E from \in Configs : CopyConstruct(c, from) \/ Assign(c, from)
        \/ \E f \in NewFilters : AddFilter(c, f)
        \/ \E fields \in Setters : Set(c, fields)
        \/ \E weights \in {"indexWeights", "fieldWeights"} : SetWeight(c, weights)
        \/ \E o \in NewOverrides : AddAttributeOverride(c, o)
  BY DEF ConfigNext
<1>2. CASE Construct(c) \/ Destroy(c)
  BY <1>2, ConstructOwns, DestroyOwns
<1>3. CASE \E from \in Configs : CopyConstruct(c, from) \/ Assign(c, from)
  BY <1>3, CopyConstructOwns, AssignOwns
<1>4. CASE \E f \in NewFilters : AddFilter(c, f)
  BY <1>4, AddFilterOwns
<1>5. CASE \E fields \in Setters : Set(c, fields)
  BY <1>5, SetOwns
<1>6. CASE \E weights \in {"indexWeights", "fieldWeights"} : SetWeight(c, weights)
  BY <1>6, SetWeightOwns
<1>7. CASE \E o \in NewOverrides : AddAttributeOverride(c, o)
  BY <1>7, AddAttributeOverrideOwns
<1> QED
  BY <1>1, <1>2, <1>3, <1>4, <1>5, <1>6, <1>7

-----------------------------------------------------------------------------
(* The specification *)

\* The first object owns one filter of each kind, or none.
LEMMA ConfigInitOwns == ConfigInit => OwnInv
<1> SUFFICES ASSUME ConfigInit PROVE OwnInv
  OBVIOUS
<1> DEFINE start(first, version, filters, set) ==
             /\ configs = [c \in Configs |->
                    IF c = first
                    THEN [Changed(Defaults(version), set) EXCEPT
                             !.filters = [k \in DOMAIN filters |-> k]]
                    ELSE NotAlive]
             /\ heap = [a \in Addresses |->
                    IF a \in DOMAIN filters THEN NewFilter(filters[a]) ELSE Freed]
<1>1. PICK version \in SearchVersions, first \in Configs,
           filters \in {<<>>, SetToSeq(NewFilters)} :
        start(first, version, filters, IF filters = <<>> THEN <<>> ELSE NewSettings)
  BY DEF ConfigInit
<1> DEFINE set == IF filters = <<>> THEN <<>> ELSE NewSettings
           fs == [k \in DOMAIN filters |-> k]
           new == [Changed(Defaults(version), set) EXCEPT !.filters = fs]
<1>2. \E n \in Nat : n <= MaxFilters /\ filters \in [1 .. n -> NewFilters]
  <2>1. CASE filters = <<>>
    <3>1. <<>> \in [1 .. 0 -> NewFilters]
      OBVIOUS
    <3>2. 0 \in Nat /\ 0 <= MaxFilters
      BY ConfigAssumption
    <3> QED
      BY <2>1, <3>1, <3>2
  <2>2. CASE filters = SetToSeq(NewFilters)
    <3> DEFINE n == Cardinality(NewFilters)
    <3>1. IsFiniteSet(NewFilters) /\ n <= MaxFilters
      BY ConfigAssumption
    <3>2. n \in Nat /\ ExistsBijection(1 .. n, NewFilters)
      BY <3>1, FS_CardinalityType
    <3>3. \E f \in [1 .. n -> NewFilters] : IsInjective(f)
      BY <3>2 DEF ExistsBijection, Bijection, Injection, IsInjective
    <3>4. SetToSeq(NewFilters) \in [1 .. n -> NewFilters]
      BY <3>3 DEF SetToSeq
    <3> HIDE DEF n
    <3> QED
      BY <2>2, <3>1, <3>2, <3>4
  <2> QED
    BY <2>1, <2>2
<1>3. PICK n \in Nat : n <= MaxFilters /\ filters \in [1 .. n -> NewFilters]
  BY <1>2
<1>4. DOMAIN filters = 1 .. n /\ 1 .. n \subseteq Addresses
  BY <1>3, ConfigAssumption DEF Addresses
<1>5. fs \in Seq(Addresses) /\ DOMAIN fs = 1 .. n /\ \A k \in 1 .. n : fs[k] = k
  <2>1. fs \in [1 .. n -> Addresses]
    BY <1>4
  <2> QED
    BY <1>4, <2>1, SeqDef
<1>6. {"alive", "filters"} \subseteq DOMAIN new /\ new.alive /\ new.filters = fs
  <2>1. "alive" \notin DOMAIN set
    <3>1. "alive" \notin DOMAIN <<>>
      OBVIOUS
    <3>2. "alive" \notin DOMAIN NewSettings
      BY SettingsAssumption DEF NumberSettings, TextSettings, WeightSettings
    <3> QED
      BY <3>1, <3>2
  <2>2. {"alive", "filters"} \subseteq DOMAIN Defaults(version) /\ Defaults(version).alive
    BY DEF Defaults
  <2> HIDE DEF set, fs
  <2> QED
    BY <2>1, <2>2 DEF Changed
<1>7. /\ configs = [c \in Configs |-> IF c = first THEN new ELSE NotAlive]
      /\ heap = [a \in Addresses |->
                   IF a \in DOMAIN filters THEN NewFilter(filters[a]) ELSE Freed]
  BY <1>1
<1> HIDE DEF start, set, fs, new
<1>8. configs[first] = new /\ \A c \in Configs \ {first} : configs[c] = NotAlive
  BY <1>7
<1>9. "alive" \in DOMAIN NotAlive /\ ~NotAlive.alive
  BY DEF NotAlive
<1>10. Shapes
  BY <1>6, <1>7, <1>8, <1>9 DEF Shapes
<1>11. Pointers[first] = fs /\ \A c \in Configs \ {first} : Pointers[c] = <<>>
  BY <1>6, <1>8, <1>9 DEF Pointers
<1>12. Pointers \in [Configs -> Seq(Addresses)]
  <2>1. \A c \in Configs : Pointers[c] \in Seq(Addresses)
    BY <1>5, <1>11, NothingPointed
  <2> QED
    BY <2>1 DEF Pointers
<1>13. \A c, d \in Configs : \A k \in DOMAIN Pointers[c], l \in DOMAIN Pointers[d] :
         Pointers[c][k] = Pointers[d][l] => c = d /\ k = l
  <2>1. \A c \in Configs : \A k \in DOMAIN Pointers[c] :
          c = first /\ k \in 1 .. n /\ Pointers[c][k] = k
    BY <1>5, <1>11
  <2> QED
    BY <2>1
<1>14. Used = 1 .. n
  <2>1. \A a \in 1 .. n : heap[a] # Freed
    BY <1>3, <1>4, <1>7, FilterIsNotFreed
  <2>2. \A a \in Addresses : a \notin 1 .. n => heap[a] = Freed
    BY <1>4, <1>7
  <2> QED
    BY <1>4, <2>1, <2>2 DEF Used
<1>15. UNION {Range(Pointers[c]) : c \in Configs} = 1 .. n
  <2>1. Range(fs) = 1 .. n
    BY <1>5 DEF Range
  <2>2. \A c \in Configs : Range(Pointers[c]) = IF c = first THEN 1 .. n ELSE {}
    BY <1>11, <2>1, NothingPointed
  <2> QED
    BY <2>2
<1>16. Owned(Pointers, Used)
  BY <1>12, <1>13, <1>14, <1>15 DEF Owned
<1> QED
  BY <1>10, <1>16 DEF OwnInv

\* Calls of the client read the settings and change none.
LEMMA ClientLeavesConfigs ==
    ASSUME [Next]_vars
    PROVE  ConfigNext \/ UNCHANGED <<configs, heap>>
<1>1. CASE Configure
  BY <1>1 DEF Configure
<1>2. CASE InitQuery
  BY <1>2 DEF InitQuery, configVars
<1>3. CASE QueryMulti
  BY <1>3 DEF QueryMulti
<1>4. CASE \E c \in Configs : AddQuery(c)
  BY <1>4 DEF AddQuery, configVars
<1>5. CASE \E c \in Configs : QueryOne(c)
  BY <1>5 DEF QueryOne
<1>6. CASE LaunchThrows \/ ReadHeader
  BY <1>6 DEF LaunchThrows, ReadHeader, configVars
<1>7. CASE ReadQuery
  BY <1>7 DEF ReadQuery, configVars
<1>8. CASE LaunchReturns \/ ParseAnswer \/ QueryReturns
  BY <1>8 DEF LaunchReturns, ParseAnswer, QueryReturns, configVars
<1>9. CASE UNCHANGED vars
  BY <1>9 DEF vars, configVars
<1> QED
  BY <1>1, <1>2, <1>3, <1>4, <1>5, <1>6, <1>7, <1>8, <1>9 DEF Next

LEMMA OwnStays == ASSUME OwnInv, UNCHANGED <<configs, heap>> PROVE OwnInv'
BY DEF OwnInv, Shapes, Owned, Pointers, Used, Addresses, Freed

\* One place holds each address that is used, and its number is an address.
LEMMA OneOwner == OwnInv => FiltersOwned
<1> SUFFICES ASSUME OwnInv, NEW a \in Addresses
             PROVE  Cardinality(Owners(a)) = IF heap[a] = Freed THEN 0 ELSE 1
  BY DEF FiltersOwned
<1>1. \A o \in Owners(a) :
        /\ o \in Alive \X Addresses /\ o[1] \in Configs
        /\ o[2] \in DOMAIN Pointers[o[1]] /\ Pointers[o[1]][o[2]] = a
  BY PointersOf DEF Owners, Alive
<1>2. CASE heap[a] = Freed
  <2>1. \A c \in Configs : a \notin Range(Pointers[c])
    BY <1>2, PointersOf DEF Used
  <2>2. Owners(a) = {}
    BY <1>1, <2>1 DEF Range
  <2> QED
    BY <1>2, <2>2, FS_EmptySet
<1>3. CASE heap[a] # Freed
  <2>1. a \in Used
    BY <1>3 DEF Used
  <2>2. PICK c \in Configs : a \in Range(Pointers[c])
    BY <2>1 DEF OwnInv, Owned
  <2>3. PICK k \in DOMAIN Pointers[c] : Pointers[c][k] = a
    BY <2>2 DEF Range
  <2>4. c \in Alive /\ Pointers[c] = configs[c].filters
    <3>1. Pointers[c] # <<>>
      BY <2>2, NothingPointed
    <3> QED
      BY <3>1, PointersOf
  <2>5. k \in Addresses
    <3> DEFINE n == Len(Pointers[c])
    <3>1. /\ n \in Nat /\ DOMAIN Pointers[c] = 1 .. n
          /\ Pointers[c] \in [1 .. n -> Addresses] /\ OneToOne(Pointers[c])
      BY PointersOf, LenProperties
    <3> HIDE DEF n
    <3>2. Pointers[c] \in Injection(1 .. n, Addresses)
      BY <3>1 DEF Injection, IsInjective, OneToOne
    <3>3. /\ IsFiniteSet(Addresses) /\ Cardinality(Addresses) = MaxFilters
          /\ Cardinality(1 .. n) = n
      BY <3>1, ConfigAssumption, BelowFinite DEF Addresses
    <3>4. n <= MaxFilters
      BY <3>2, <3>3, FS_Injection
    <3> QED
      BY <3>1, <3>4, ConfigAssumption DEF Addresses
  <2>6. <<c, k>> \in Owners(a)
    BY <2>3, <2>4, <2>5 DEF Owners
  <2>7. \A o \in Owners(a) : o[1] = c /\ o[2] = k
    BY <1>1, <2>3 DEF OwnInv, Owned
  <2>8. \A o \in Owners(a) : o = <<o[1], o[2]>>
    BY DEF Owners
  <2>9. Owners(a) = {<<c, k>>}
    BY <2>6, <2>7, <2>8
  <2> QED
    BY <1>3, <2>9, FS_Singleton
<1> QED
  BY <1>2, <1>3

\* Whatever the order in which any number of objects is constructed, copied,
\* assigned, destroyed and given filters, and queries are added and sent with
\* them between: every filter alive has one owner, so that none is lost,
\* shared or deleted twice (sphinxclient.cc:241, :251, :358).
THEOREM FiltersHaveOneOwner == Spec => []FiltersOwned
<1>1. Init => OwnInv
  BY ConfigInitOwns DEF Init
<1>2. OwnInv /\ [Next]_vars => OwnInv'
  BY ClientLeavesConfigs, ConfigNextOwns, OwnStays
<1> QED
  BY <1>1, <1>2, OneOwner, PTL DEF Spec

-----------------------------------------------------------------------------
(* Settings are of their types *)

GoodWeights(x, weights) ==
    /\ DOMAIN weights \subseteq DOMAIN NewSettings[x]
    /\ weights \in [DOMAIN weights -> Numbers]
GoodOverride(o) ==
    /\ o.type \in Numbers
    /\ DOMAIN o.values \subseteq Documents
    /\ o.values \in [DOMAIN o.values -> OverrideValues]
GoodOverrides(overrides) ==
    /\ DOMAIN overrides \subseteq Overridden
    /\ \A name \in DOMAIN overrides : GoodOverride(overrides[name])

SettingNames ==
    {"alive", "commandVersion", "filters", "anchorPoints", "attributeOverrides"}
    \cup NumberSettings \cup TextSettings \cup WeightSettings

\* All settings of an object but its filters.
GoodSettings(s) ==
    /\ DOMAIN s = SettingNames
    /\ s.alive /\ s.commandVersion \in SearchVersions
    /\ \A x \in NumberSettings : s[x] \in Numbers
    /\ \A x \in TextSettings : s[x] \in Texts
    /\ s.anchorPoints \in Seq(AnchorPoints) /\ Len(s.anchorPoints) < WordLimit
    /\ \A x \in WeightSettings : GoodWeights(x, s[x])
    /\ GoodOverrides(s.attributeOverrides)

LEMMA Limits ==
    /\ CellBase \in Nat /\ CellBase >= 2
    /\ WordLimit \in Nat /\ 1000 < WordLimit
    /\ \A n \in Nat : n < WordLimit => n \in Numbers
    /\ \A n \in Numbers : n \in Nat /\ n < WordLimit
    /\ Numbers \subseteq LongNumbers
<1>1. CellBase \in Nat /\ CellBase >= 2
  BY BufferAssumption
<1>2. WordLimit \in Nat
  BY <1>1 DEF WordLimit
<1>3. 1000 < WordLimit
  BY ConfigAssumption
<1>4. \A n \in Nat : n < WordLimit => n \in Numbers
  BY <1>2 DEF Numbers
<1>5. \A n \in Numbers : n \in Nat /\ n < WordLimit
  BY <1>2 DEF Numbers
<1>6. \A n \in Numbers : n \div WordLimit = 0
  BY <1>2, <1>3, <1>5
<1>7. Numbers \subseteq LongNumbers
  BY <1>2, <1>3, <1>5, <1>6 DEF LongNumbers
<1> QED
  BY <1>1, <1>2, <1>3, <1>4, <1>5, <1>7

LEMMA SmallNumbers == \A n \in 0 .. 1000 : n \in Numbers
BY Limits

LEMMA ShortTexts == <<>> \in Texts /\ \A n \in Nat : <<n>> \in Texts
<1>1. <<>> \in Seq(Nat) /\ Len(<<>>) = 0
  OBVIOUS
<1>2. ASSUME NEW n \in Nat PROVE <<n>> \in Seq(Nat) /\ Len(<<n>>) = 1
  OBVIOUS
<1>3. 2 * 0 < WordLimit /\ 2 * 1 < WordLimit
  BY Limits
<1> QED
  BY <1>1, <1>2, <1>3 DEF Texts

LEMMA DefaultsGood ==
    ASSUME NEW version \in SearchVersions
    PROVE  GoodSettings(Defaults(version))
<1> DEFINE s == Defaults(version)
<1>1. DOMAIN s = SettingNames
  BY DEF Defaults, SettingNames, NumberSettings, TextSettings, WeightSettings
<1>2. s.alive /\ s.commandVersion \in SearchVersions
  BY DEF Defaults
<1>3. \A x \in NumberSettings : s[x] \in Numbers
  <2>1. 0 \in Numbers /\ 20 \in Numbers /\ 1000 \in Numbers
    BY SmallNumbers
  <2> QED
    BY <2>1 DEF Defaults, NumberSettings
<1>4. \A x \in TextSettings : s[x] \in Texts
  <2>1. <<>> \in Texts /\ GroupDesc \in Texts /\ All \in Texts
    BY ShortTexts DEF GroupDesc, All
  <2> QED
    BY <2>1 DEF Defaults, TextSettings
<1>5. /\ s.anchorPoints = <<>> /\ s.indexWeights = <<>> /\ s.fieldWeights = <<>>
      /\ s.attributeOverrides = <<>>
  BY DEF Defaults
<1>6. s.anchorPoints \in Seq(AnchorPoints) /\ Len(s.anchorPoints) < WordLimit
  BY <1>5, Limits
<1> HIDE DEF s
<1>7. DOMAIN <<>> = {} /\ <<>> \in [{} -> Numbers]
  OBVIOUS
<1>8. \A x \in WeightSettings : GoodWeights(x, s[x])
  BY <1>5, <1>7 DEF GoodWeights, WeightSettings
<1>9. GoodOverrides(s.attributeOverrides)
  BY <1>5, <1>7 DEF GoodOverrides
<1> QED
  BY <1>1, <1>2, <1>3, <1>4, <1>6, <1>8, <1>9 DEF GoodSettings, s

\* The arguments of setters.
LEMMA OverrideArguments ==
    ASSUME NEW o \in NewOverrides \cup Range(NewSettings.attributeOverrides)
    PROVE  GoodOverride(o)
<1>1. IsOverride(o)
  BY SettingsAssumption
<1>2. DOMAIN o.values \subseteq Documents
  BY DEF Documents
<1> QED
  BY <1>1, <1>2 DEF IsOverride, GoodOverride

LEMMA SetGood ==
    ASSUME NEW s, GoodSettings(s), NEW set, DOMAIN set \subseteq DOMAIN NewSettings,
           \A x \in DOMAIN set : set[x] = NewSettings[x]
    PROVE  GoodSettings(Changed(s, set))
<1> DEFINE c == Changed(s, set)
<1>1. /\ DOMAIN c = SettingNames
      /\ \A x \in SettingNames : c[x] = IF x \in DOMAIN set THEN NewSettings[x] ELSE s[x]
  BY DEF Changed, GoodSettings
<1> HIDE DEF c
<1>2. DOMAIN NewSettings = SettingNames \ {"alive", "commandVersion", "filters"}
  BY SettingsAssumption DEF SettingNames, NumberSettings, TextSettings, WeightSettings
<1>3. c.alive = s.alive /\ c.commandVersion = s.commandVersion
  BY <1>1, <1>2 DEF SettingNames
<1>4. \A x \in NumberSettings : c[x] \in Numbers
  BY <1>1, SettingsAssumption DEF GoodSettings, SettingNames
<1>5. \A x \in TextSettings : c[x] \in Texts
  BY <1>1, SettingsAssumption DEF GoodSettings, SettingNames
<1>6. c.anchorPoints \in Seq(AnchorPoints) /\ Len(c.anchorPoints) < WordLimit
  BY <1>1, SettingsAssumption DEF GoodSettings, SettingNames
<1>7. \A x \in WeightSettings : GoodWeights(x, c[x])
  BY <1>1, SettingsAssumption DEF GoodSettings, SettingNames, GoodWeights
<1>8. GoodOverrides(c.attributeOverrides)
  <2>1. CASE c.attributeOverrides = s.attributeOverrides
    BY <2>1 DEF GoodSettings
  <2>2. CASE c.attributeOverrides = NewSettings.attributeOverrides
    <3>1. \A name \in DOMAIN NewSettings.attributeOverrides :
             NewSettings.attributeOverrides[name] \in Range(NewSettings.attributeOverrides)
      BY DEF Range
    <3> QED
      BY <2>2, <3>1, OverrideArguments DEF GoodOverrides, Overridden
  <2>3. c.attributeOverrides \in {s.attributeOverrides, NewSettings.attributeOverrides}
    BY <1>1 DEF SettingNames
  <2> QED
    BY <2>1, <2>2, <2>3
<1> QED
  BY <1>1, <1>3, <1>4, <1>5, <1>6, <1>7, <1>8 DEF GoodSettings, c

-----------------------------------------------------------------------------
(* The operations leave settings of their types *)

\* Objects are created with all settings, and filters have their parts.
SettingsKept ==
    /\ \A c \in Configs : configs[c].alive => GoodSettings(configs[c])
    /\ \A a \in Addresses : heap[a] \in FilterValues \cup {Freed}

LEMMA FiltersReplaced ==
    ASSUME NEW s, GoodSettings(s), NEW filters
    PROVE  GoodSettings([s EXCEPT !.filters = filters])
BY DEF GoodSettings, SettingNames, NumberSettings, TextSettings, WeightSettings

LEMMA NewFilterGood ==
    ASSUME NEW f \in NewFilters
    PROVE  NewFilter(f) \in FilterValues
<1>1. f \in FilterValues
  BY ConfigAssumption
<1>2. CASE f.kind = "range"
  <2> DEFINE values == [k \in 1 .. 2 |-> f.values[k] % WordLimit]
  <2>1. f.values \in Seq(LongNumbers) /\ Len(f.values) = 2
    BY <1>1, <1>2 DEF FilterValues
  <2>2. \A k \in 1 .. 2 : f.values[k] \in Nat
    BY <2>1 DEF LongNumbers
  <2>3. \A k \in 1 .. 2 : f.values[k] % WordLimit \in Numbers
    BY <2>2, Limits
  <2>4. values \in Seq(LongNumbers) /\ Len(values) = 2
    <3>1. values \in [1 .. 2 -> LongNumbers]
      BY <2>3, Limits
    <3> QED
      BY <3>1, SeqDef
  <2> HIDE DEF values
  <2>5. [f EXCEPT !.values = values] \in FilterValues
    BY <1>1, <1>2, <2>4 DEF FilterValues
  <2>6. NewFilter(f) = [f EXCEPT !.values = values]
    BY <1>2 DEF NewFilter, RangeFilter, values
  <2> QED
    BY <2>5, <2>6
<1>3. CASE f.kind \in {"values", "floatrange"}
  BY <1>1, <1>3 DEF NewFilter, EnumFilter, FloatRangeFilter
<1> QED
  BY <1>1, <1>2, <1>3 DEF FilterValues

LEMMA HeapWithGood ==
    ASSUME SettingsKept, OwnInv, NEW source \in Alive, NEW clones, NEW deleted,
           DOMAIN clones \subseteq DOMAIN configs[source].filters
    PROVE  \A a \in Addresses : HeapWith(source, clones, deleted)[a] \in FilterValues \cup {Freed}
<1>1. \A k \in DOMAIN clones : configs[source].filters[k] \in Addresses
  <2>1. source \in Configs /\ Pointers[source] = configs[source].filters
    BY DEF Alive, Pointers
  <2>2. Pointers[source] \in Seq(Addresses)
    BY <2>1 DEF OwnInv, Owned
  <2> QED
    BY <2>1, <2>2
<1>2. \A k \in DOMAIN clones : heap[configs[source].filters[k]] \in FilterValues \cup {Freed}
  BY <1>1 DEF SettingsKept
<1> SUFFICES ASSUME NEW a \in Addresses
             PROVE  HeapWith(source, clones, deleted)[a] \in FilterValues \cup {Freed}
  OBVIOUS
<1>3. HeapWith(source, clones, deleted)[a] =
        IF \E k \in DOMAIN clones : clones[k] = a
        THEN heap[configs[source].filters[CHOOSE k \in DOMAIN clones : clones[k] = a]]
        ELSE IF a \in deleted THEN Freed ELSE heap[a]
  BY DEF HeapWith
<1>4. CASE \E k \in DOMAIN clones : clones[k] = a
  <2>1. (CHOOSE k \in DOMAIN clones : clones[k] = a) \in DOMAIN clones
    BY <1>4
  <2> QED
    BY <1>2, <1>3, <1>4, <2>1
<1> QED
  BY <1>3, <1>4 DEF SettingsKept

LEMMA WeightedGood ==
    ASSUME NEW s, GoodSettings(s), NEW x \in WeightSettings
    PROVE  GoodSettings([s EXCEPT ![x] = Over(NewSettings[x], s[x])])
<1> DEFINE new == Over(NewSettings[x], s[x])
<1>1. GoodWeights(x, s[x]) /\ NewSettings[x] \in [DOMAIN NewSettings[x] -> Numbers]
  BY SettingsAssumption DEF GoodSettings
<1>2. GoodWeights(x, new)
  <2>1. /\ DOMAIN new = DOMAIN NewSettings[x] \cup DOMAIN s[x]
        /\ new = [k \in DOMAIN new |-> IF k \in DOMAIN NewSettings[x] THEN NewSettings[x][k] ELSE s[x][k]]
    BY DEF Over
  <2> HIDE DEF new
  <2>2. \A k \in DOMAIN new : new[k] \in Numbers
    BY <1>1, <2>1 DEF GoodWeights
  <2>3. new \in [DOMAIN new -> Numbers]
    BY <2>1, <2>2
  <2> QED
    BY <1>1, <2>1, <2>3 DEF GoodWeights
<1> HIDE DEF new
<1>3. GoodSettings([s EXCEPT ![x] = new])
  BY <1>2 DEF GoodSettings, SettingNames, NumberSettings, TextSettings, WeightSettings
<1> QED
  BY <1>3 DEF new

\* The values that an override had for other documents stay.
LEMMA OverridesGood ==
    ASSUME NEW s, GoodSettings(s), NEW o \in NewOverrides,
           NEW overrides \in {OverrideAll(s.attributeOverrides, o),
                              OverrideOne(s.attributeOverrides, o)}
    PROVE  GoodSettings([s EXCEPT !.attributeOverrides = overrides])
<1> DEFINE old == s.attributeOverrides
<1>1. GoodOverrides(old) /\ GoodOverride(o) /\ o.attribute \in Overridden
  BY OverrideArguments DEF GoodSettings, Overridden
<1>2. PICK new : /\ overrides = Over([a \in {o.attribute} |-> new], old)
                 /\ GoodOverride(new)
  <2>1. CASE overrides = OverrideAll(old, o)
    <3>1. GoodOverride([type |-> o.type, values |-> o.values])
      BY <1>1 DEF GoodOverride
    <3> QED
      BY <2>1, <3>1 DEF OverrideAll, Overriding
  <2>2. CASE overrides = OverrideOne(old, o)
    <3> DEFINE before == IF o.attribute \in DOMAIN old THEN old[o.attribute].values ELSE <<>>
               values == Over(o.values, before)
    <3>1. DOMAIN before \subseteq Documents /\ before \in [DOMAIN before -> OverrideValues]
      <4>1. DOMAIN <<>> = {} /\ <<>> \in [{} -> OverrideValues]
        OBVIOUS
      <4> QED
        BY <1>1, <4>1 DEF GoodOverrides, GoodOverride
    <3>2. /\ DOMAIN values = DOMAIN o.values \cup DOMAIN before
          /\ values = [k \in DOMAIN values |-> IF k \in DOMAIN o.values THEN o.values[k] ELSE before[k]]
      BY DEF Over
    <3> HIDE DEF before, values
    <3>3. \A k \in DOMAIN values : values[k] \in OverrideValues
      BY <1>1, <3>1, <3>2 DEF GoodOverride
    <3>4. DOMAIN values \subseteq Documents /\ values \in [DOMAIN values -> OverrideValues]
      BY <1>1, <3>1, <3>2, <3>3 DEF GoodOverride
    <3>5. GoodOverride([type |-> o.type, values |-> values])
      BY <1>1, <3>4 DEF GoodOverride
    <3>6. overrides = Over([a \in {o.attribute} |-> [type |-> o.type, values |-> values]], old)
      BY <2>2 DEF OverrideOne, Overriding, before, values
    <3> QED
      BY <3>5, <3>6
  <2> QED
    BY <2>1, <2>2
<1>3. /\ DOMAIN overrides = {o.attribute} \cup DOMAIN old
      /\ \A name \in DOMAIN overrides :
            overrides[name] = IF name = o.attribute THEN new ELSE old[name]
  BY <1>2 DEF Over
<1>4. GoodOverrides(overrides)
  BY <1>1, <1>2, <1>3 DEF GoodOverrides
<1> QED
  BY <1>4 DEF GoodSettings, SettingNames, NumberSettings, TextSettings, WeightSettings

\* The elements of a finite set, each once.
LEMMA SequenceOf ==
    ASSUME NEW S, IsFiniteSet(S)
    PROVE  /\ SetToSeq(S) \in Seq(S) /\ Len(SetToSeq(S)) = Cardinality(S)
           /\ \A k, l \in DOMAIN SetToSeq(S) : SetToSeq(S)[k] = SetToSeq(S)[l] => k = l
           /\ Range(SetToSeq(S)) = S
<1> DEFINE n == Cardinality(S)
<1>1. n \in Nat /\ ExistsBijection(1 .. n, S)
  BY FS_CardinalityType
<1>2. \E f \in [1 .. n -> S] : IsInjective(f)
  BY <1>1 DEF ExistsBijection, Bijection, Injection, IsInjective
<1>3. SetToSeq(S) \in [1 .. n -> S] /\ IsInjective(SetToSeq(S))
  BY <1>2 DEF SetToSeq
<1> HIDE DEF n
<1>4. SetToSeq(S) \in Seq(S) /\ Len(SetToSeq(S)) = n
  BY <1>1, <1>3, SeqDef
<1>5. \A k, l \in DOMAIN SetToSeq(S) : SetToSeq(S)[k] = SetToSeq(S)[l] => k = l
  BY <1>3 DEF IsInjective
<1>6. Range(SetToSeq(S)) = S
  <2>1. SetToSeq(S) \in Injection(1 .. n, S)
    BY <1>3 DEF Injection, IsInjective
  <2>2. IsFiniteSet(1 .. n) /\ Cardinality(1 .. n) = n
    BY <1>1, BelowFinite
  <2>3. SetToSeq(S) \in Surjection(1 .. n, S)
    BY <2>1, <2>2, FS_Injection DEF n
  <2> QED
    BY <2>3, <1>3 DEF Surjection, Range
<1> QED
  BY <1>4, <1>5, <1>6 DEF n

-----------------------------------------------------------------------------
(* Operations leave objects as they should be *)

LEMMA ObjectGood ==
    ASSUME SettingsKept, OwnInv, NEW c \in Configs, NEW new,
           configs' = [configs EXCEPT ![c] = new], new.alive => GoodSettings(new),
           \A a \in Addresses : heap'[a] \in FilterValues \cup {Freed}
    PROVE  SettingsKept'
<1>1. DOMAIN configs = Configs
  BY DEF OwnInv, Shapes
<1>2. \A d \in Configs : configs'[d] = IF d = c THEN new ELSE configs[d]
  BY <1>1
<1>3. \A d \in Configs : configs'[d].alive => GoodSettings(configs'[d])
  BY <1>2 DEF SettingsKept
<1> QED
  BY <1>3 DEF SettingsKept

LEMMA SettingsOf ==
    ASSUME SettingsKept, NEW c \in Alive
    PROVE  c \in Configs /\ GoodSettings(configs[c])
BY DEF SettingsKept, Alive

LEMMA CopyGood ==
    ASSUME SettingsKept, OwnInv, NEW c \in Configs, NEW from \in Alive, NEW clones, NEW deleted,
           DOMAIN clones \subseteq DOMAIN configs[from].filters,
           configs' = [configs EXCEPT ![c] = MakeCopy(from, clones)],
           heap' = HeapWith(from, clones, deleted)
    PROVE  SettingsKept'
<1>1. GoodSettings(MakeCopy(from, clones))
  BY SettingsOf, FiltersReplaced DEF MakeCopy
<1>2. \A a \in Addresses : heap'[a] \in FilterValues \cup {Freed}
  BY HeapWithGood
<1> QED
  BY <1>1, <1>2, ObjectGood

LEMMA ClonesOf ==
    ASSUME OwnInv, NEW from \in Alive, NEW free
    PROVE  DOMAIN Clones(from, free) \subseteq DOMAIN configs[from].filters
<1>1. Pointers[from] = configs[from].filters /\ Pointers[from] \in Seq(Addresses)
  BY DEF Alive, Pointers, OwnInv, Owned
<1>2. DOMAIN Clones(from, free) = 1 .. Len(configs[from].filters)
  BY DEF Clones, Lowest
<1> QED
  BY <1>1, <1>2

LEMMA ConfigNextKeepsSettings == ASSUME SettingsKept, OwnInv, ConfigNext PROVE SettingsKept'
<1>0. \A a \in Addresses : heap[a] \in FilterValues \cup {Freed}
  BY DEF SettingsKept
<1> PICK c \in Configs :
        \/ Construct(c) \/ Destroy(c)
        \/ \E from \in Configs : CopyConstruct(c, from) \/ Assign(c, from)
        \/ \E f \in NewFilters : AddFilter(c, f)
        \/ \E fields \in Setters : Set(c, fields)
        \/ \E weights \in {"indexWeights", "fieldWeights"} : SetWeight(c, weights)
        \/ \E o \in NewOverrides : AddAttributeOverride(c, o)
  BY DEF ConfigNext
<1>1. CASE Construct(c)
  <2> PICK version \in SearchVersions : configs' = [configs EXCEPT ![c] = Defaults(version)]
    BY <1>1 DEF Construct
  <2>1. GoodSettings(Defaults(version))
    BY DefaultsGood
  <2>2. \A a \in Addresses : heap'[a] \in FilterValues \cup {Freed}
    BY <1>0, <1>1 DEF Construct
  <2> QED
    BY <2>1, <2>2, ObjectGood
<1>2. CASE Destroy(c)
  <2>1. /\ configs' = [configs EXCEPT ![c] = NotAlive] /\ c \in Alive
        /\ heap' = HeapWith(c, <<>>, DeletedWith(c))
    BY <1>2 DEF Destroy
  <2>2. ~NotAlive.alive
    BY DEF NotAlive
  <2>3. \A a \in Addresses : heap'[a] \in FilterValues \cup {Freed}
    BY <2>1, HeapWithGood
  <2> QED
    BY <2>1, <2>2, <2>3, ObjectGood
<1>3. ASSUME NEW from \in Configs, CopyConstruct(c, from) PROVE SettingsKept'
  <2>1. /\ from \in Alive
        /\ configs' = [configs EXCEPT ![c] = MakeCopy(from, Clones(from, Free))]
        /\ heap' = HeapWith(from, Clones(from, Free), {})
    BY <1>3 DEF CopyConstruct
  <2> QED
    BY <2>1, ClonesOf, CopyGood
<1>4. ASSUME NEW from \in Configs, Assign(c, from) PROVE SettingsKept'
  <2> DEFINE free == Free \cup DeletedWith(c)
  <2>1. /\ from \in Alive
        /\ configs' = [configs EXCEPT ![c] = MakeCopy(from, Clones(from, free))]
        /\ heap' = HeapWith(from, Clones(from, free), DeletedWith(c))
    BY <1>4 DEF Assign
  <2> QED
    BY <2>1, ClonesOf, CopyGood
<1>5. ASSUME NEW f \in NewFilters, AddFilter(c, f) PROVE SettingsKept'
  <2> DEFINE at == Lowest(Free, 1)[1]
             filters == Append(configs[c].filters, at)
             new == [configs[c] EXCEPT !.filters = filters]
  <2>1. c \in Alive /\ heap' = [heap EXCEPT ![at] = NewFilter(f)]
    BY <1>5 DEF AddFilter
  <2>2. configs' = [configs EXCEPT ![c] = new]
    BY <1>5 DEF AddFilter
  <2>3. GoodSettings(new)
    BY <2>1, SettingsOf, FiltersReplaced
  <2> HIDE DEF new, at, filters
  <2>4. \A a \in Addresses : heap'[a] \in FilterValues \cup {Freed}
    <3>1. NewFilter(f) \in FilterValues /\ DOMAIN heap = Addresses
      BY NewFilterGood DEF OwnInv, Shapes
    <3> QED
      BY <1>0, <2>1, <3>1
  <2> QED
    BY <2>2, <2>3, <2>4, ObjectGood
<1>6. ASSUME NEW fields \in Setters, Set(c, fields) PROVE SettingsKept'
  <2> DEFINE set == [f \in fields |-> NewSettings[f]]
             new == Changed(configs[c], set)
  <2>1. c \in Alive /\ heap' = heap
    BY <1>6 DEF Set
  <2>2. configs' = [configs EXCEPT ![c] = new]
    BY <1>6 DEF Set
  <2>3. DOMAIN set \subseteq DOMAIN NewSettings
    BY SettingsAssumption DEF Setters, NumberSettings, TextSettings, WeightSettings
  <2>4. GoodSettings(new)
    BY <2>1, <2>3, SettingsOf, SetGood
  <2> HIDE DEF new
  <2> QED
    BY <1>0, <2>1, <2>2, <2>4, ObjectGood
<1>7. ASSUME NEW weights \in {"indexWeights", "fieldWeights"}, SetWeight(c, weights)
      PROVE  SettingsKept'
  <2> DEFINE new == [configs[c] EXCEPT ![weights] = Over(NewSettings[weights], configs[c][weights])]
  <2>1. c \in Alive /\ heap' = heap
    BY <1>7 DEF SetWeight
  <2>2. configs' = [configs EXCEPT ![c] = new]
    BY <1>7 DEF SetWeight, Weighted
  <2>3. GoodSettings(new)
    BY <2>1, SettingsOf, WeightedGood DEF WeightSettings
  <2> HIDE DEF new
  <2> QED
    BY <1>0, <2>1, <2>2, <2>3, ObjectGood
<1>8. ASSUME NEW o \in NewOverrides, AddAttributeOverride(c, o) PROVE SettingsKept'
  <2>1. c \in Alive /\ heap' = heap
    BY <1>8 DEF AddAttributeOverride
  <2> PICK overrides \in {OverrideAll(configs[c].attributeOverrides, o),
                         OverrideOne(configs[c].attributeOverrides, o)} :
             configs' = [configs EXCEPT ![c].attributeOverrides = overrides]
    BY <1>8 DEF AddAttributeOverride
  <2> DEFINE new == [configs[c] EXCEPT !.attributeOverrides = overrides]
  <2>2. configs' = [configs EXCEPT ![c] = new]
    OBVIOUS
  <2>3. GoodSettings(new)
    BY <2>1, SettingsOf, OverridesGood
  <2> HIDE DEF new
  <2> QED
    BY <1>0, <2>1, <2>2, <2>3, ObjectGood
<1> QED
  BY <1>1, <1>2, <1>3, <1>4, <1>5, <1>6, <1>7, <1>8

LEMMA ConfigInitKeepsSettings == ASSUME ConfigInit PROVE SettingsKept
<1> DEFINE start(first, version, filters, set) ==
             /\ configs = [c \in Configs |->
                    IF c = first
                    THEN [Changed(Defaults(version), set) EXCEPT
                             !.filters = [k \in DOMAIN filters |-> k]]
                    ELSE NotAlive]
             /\ heap = [a \in Addresses |->
                    IF a \in DOMAIN filters THEN NewFilter(filters[a]) ELSE Freed]
<1>1. PICK version \in SearchVersions, first \in Configs,
           filters \in {<<>>, SetToSeq(NewFilters)} :
        start(first, version, filters, IF filters = <<>> THEN <<>> ELSE NewSettings)
  BY DEF ConfigInit
<1> DEFINE set == IF filters = <<>> THEN <<>> ELSE NewSettings
           new == [Changed(Defaults(version), set) EXCEPT !.filters = [k \in DOMAIN filters |-> k]]
<1>2. /\ configs = [c \in Configs |-> IF c = first THEN new ELSE NotAlive]
      /\ heap = [a \in Addresses |->
                    IF a \in DOMAIN filters THEN NewFilter(filters[a]) ELSE Freed]
  BY <1>1
<1>3. GoodSettings(new)
  <2>1. DOMAIN set \subseteq DOMAIN NewSettings /\ \A x \in DOMAIN set : set[x] = NewSettings[x]
    <3>1. DOMAIN <<>> = {}
      OBVIOUS
    <3> QED
      BY <3>1
  <2> HIDE DEF set
  <2>2. GoodSettings(Changed(Defaults(version), set))
    BY <2>1, DefaultsGood, SetGood
  <2> QED
    BY <2>2, FiltersReplaced
<1>4. \A k \in DOMAIN filters : NewFilter(filters[k]) \in FilterValues
  <2>1. CASE filters = <<>>
    BY <2>1
  <2>2. CASE filters = SetToSeq(NewFilters)
    <3>1. filters \in Seq(NewFilters)
      BY <2>2, SequenceOf, ConfigAssumption
    <3> QED
      BY <3>1, NewFilterGood
  <2> QED
    BY <2>1, <2>2
<1> HIDE DEF new, start, set
<1>5. \A c \in Configs : configs[c].alive => GoodSettings(configs[c])
  <2>1. ~NotAlive.alive
    BY DEF NotAlive
  <2> QED
    BY <1>2, <1>3, <2>1
<1>6. \A a \in Addresses : heap[a] \in FilterValues \cup {Freed}
  BY <1>2, <1>4
<1> QED
  BY <1>5, <1>6 DEF SettingsKept

-----------------------------------------------------------------------------
(* What is written *)

\* Settings with their filters.
GoodAttrs(attrs) ==
    /\ GoodSettings(attrs)
    /\ attrs.filters \in Seq(FilterValues) /\ Len(attrs.filters) < WordLimit

Items ==
    [width : {Text}, value : Texts] \cup [width : {2}, value : Numbers]
    \cup [width : {4}, value : LongNumbers]
AnyItems == Items \cup {Exception}

LEMMA ItemsAre ==
    /\ \A n \in Numbers : W(n) \in Items
    /\ \A n \in LongNumbers : L(n) \in Items
    /\ \A text \in Texts : T(text) \in Items
    /\ Exception \notin Items /\ Exception.width = Throws
    /\ \A item \in Items : item.width # Throws
<1>1. \A n \in Numbers : W(n) \in Items
  BY DEF W, Items
<1>2. \A n \in LongNumbers : L(n) \in Items
  BY DEF L, Items
<1>3. \A text \in Texts : T(text) \in Items
  BY DEF T, Items
<1>4. \A item \in Items : item.width \in {Text, 2, 4}
  BY DEF Items
<1>5. Exception.width = Throws
  BY DEF Exception
<1> QED
  BY <1>1, <1>2, <1>3, <1>4, <1>5 DEF Throws, Text

\* Sequences of items, put together.
LEMMA Together ==
    ASSUME NEW S, NEW a \in Seq(S), NEW b \in Seq(S)
    PROVE  a \o b \in Seq(S) /\ Len(a \o b) = Len(a) + Len(b)
OBVIOUS

LEMMA OneItem == ASSUME NEW S, NEW a \in S PROVE <<a>> \in Seq(S) /\ Len(<<a>>) = 1 /\ <<a>>[1] = a
OBVIOUS

\* Where the elements of joined sequences stand: behind the first k of them
\* pos[k] elements.
IsPlaced(pos, ss) ==
    /\ pos \in [0 .. Len(ss) -> Nat] /\ pos[0] = 0 /\ pos[Len(ss)] = Len(FlattenSeq(ss))
    /\ \A k \in 1 .. Len(ss) : pos[k] = pos[k - 1] + Len(ss[k])
    /\ \A k \in 1 .. Len(ss) : \A j \in 1 .. Len(ss[k]) :
          FlattenSeq(ss)[pos[k - 1] + j] = ss[k][j]

LEMMA Places ==
    ASSUME NEW S, NEW ss \in Seq(Seq(S))
    PROVE  \E pos : IsPlaced(pos, ss)
<1>1. CASE ss = <<>>
  <2>1. FlattenSeq(ss) = <<>> /\ Len(ss) = 0
    <3>1. Rest(ss, 0) = ss /\ FlattenSeq(Rest(ss, 0)) = <<>>
      <4>1. Len(ss) = 0 /\ 0 \in 0 .. Len(ss)
        BY <1>1
      <4> QED
        BY <4>1, JoinedRest
    <3> QED
      BY <1>1, <3>1
  <2>2. IsPlaced([k \in 0 .. 0 |-> 0], ss)
    BY <1>1, <2>1 DEF IsPlaced
  <2> QED
    BY <2>2
<1>2. CASE ss # <<>>
  <2> DEFINE n == Len(ss)
  <2>1. n \in Nat /\ n >= 1 /\ DOMAIN ss = 1 .. n /\ \A k \in 1 .. n : ss[k] \in Seq(S)
    BY <1>2
  <2>2. PICK joined \in [1 .. n -> Seq(S)] :
            /\ FlattenSeq(ss) = joined[n]
            /\ joined[1] = ss[1]
            /\ \A i \in 1 .. n - 1 : joined[i + 1] = joined[i] \o ss[i + 1]
    BY <1>2, Joined
  <2> DEFINE pos == [k \in 0 .. n |-> IF k = 0 THEN 0 ELSE Len(joined[k])]
  <2> HIDE DEF n
  <2>3. pos \in [0 .. n -> Nat] /\ pos[0] = 0 /\ pos[n] = Len(joined[n])
    BY <2>1, <2>2
  <2>4. ASSUME NEW k \in 1 .. n
        PROVE  /\ pos[k] = pos[k - 1] + Len(ss[k])
               /\ \A j \in 1 .. Len(ss[k]) : joined[k][pos[k - 1] + j] = ss[k][j]
    <3>1. CASE k = 1
      <4>1. joined[1] = ss[1] /\ pos[1] = Len(joined[1]) /\ pos[0] = 0 /\ ss[1] \in Seq(S)
        BY <2>1, <2>2
      <4>2. k - 1 = 0 /\ Len(ss[1]) \in Nat
        BY <3>1, <4>1
      <4> HIDE DEF pos
      <4> QED
        BY <3>1, <4>1, <4>2
    <3>2. CASE k # 1
      <4> DEFINE i == k - 1
      <4>1. i \in 1 .. n - 1 /\ i + 1 = k /\ i \in 1 .. n
        BY <2>1, <3>2
      <4>2. joined[k] = joined[i] \o ss[k] /\ joined[i] \in Seq(S) /\ ss[k] \in Seq(S)
        BY <2>1, <2>2, <4>1
      <4>3. pos[k] = Len(joined[k]) /\ pos[i] = Len(joined[i])
        BY <2>1, <4>1
      <4> HIDE DEF i, pos
      <4>4. Len(joined[k]) = Len(joined[i]) + Len(ss[k])
        BY <4>2
      <4>5. ASSUME NEW j \in 1 .. Len(ss[k])
            PROVE  joined[k][Len(joined[i]) + j] = ss[k][j]
        <5>1. Len(joined[i]) \in Nat /\ Len(ss[k]) \in Nat
          BY <4>2
        <5>2. Len(joined[i]) + j \in 1 .. Len(joined[i]) + Len(ss[k])
              /\ Len(joined[i]) + j > Len(joined[i])
              /\ (Len(joined[i]) + j) - Len(joined[i]) = j
          <6>1. \A a, b \in Nat : \A m \in 1 .. b :
                  a + m \in 1 .. a + b /\ a + m > a /\ (a + m) - a = m
            OBVIOUS
          <6> QED
            BY <5>1, <6>1
        <5> QED
          BY <4>2, <5>2, ConcatProperties
      <4>6. pos[k - 1] = pos[i]
        BY DEF i
      <4> QED
        BY <4>3, <4>4, <4>5, <4>6
    <3> QED
      BY <3>1, <3>2
  <2>5. ASSUME NEW k \in 1 .. n - 1
        PROVE  \A m \in 1 .. pos[k] : joined[k + 1][m] = joined[k][m]
    <3>1. k \in 1 .. n /\ k + 1 \in 1 .. n
      BY <2>1
    <3>2. joined[k + 1] = joined[k] \o ss[k + 1] /\ joined[k] \in Seq(S) /\ ss[k + 1] \in Seq(S)
      BY <2>1, <2>2, <3>1
    <3>3. pos[k] = Len(joined[k])
      BY <2>1, <3>1
    <3> HIDE DEF pos
    <3>4. ASSUME NEW m \in 1 .. pos[k] PROVE joined[k + 1][m] = joined[k][m]
      <4>1. m \in 1 .. Len(joined[k]) + Len(ss[k + 1]) /\ m <= Len(joined[k])
        <5>1. Len(joined[k]) \in Nat /\ Len(ss[k + 1]) \in Nat
          BY <3>2
        <5>2. \A a, b \in Nat : \A l \in 1 .. a : l \in 1 .. a + b /\ l <= a
          OBVIOUS
        <5> QED
          BY <3>3, <5>1, <5>2
      <4> QED
        BY <3>2, <4>1, ConcatProperties
    <3> QED
      BY <3>4
  <2>6. \A k \in 1 .. n : pos[k - 1] <= pos[k] /\ pos[k] \in Nat /\ pos[k - 1] \in Nat
    <3> SUFFICES ASSUME NEW k \in 1 .. n
                 PROVE  pos[k - 1] <= pos[k] /\ pos[k] \in Nat /\ pos[k - 1] \in Nat
      OBVIOUS
    <3>1. pos[k] \in Nat /\ pos[k - 1] \in Nat
      BY <2>1, <2>3
    <3>2. pos[k] = pos[k - 1] + Len(ss[k]) /\ Len(ss[k]) \in Nat
      <4>1. ss[k] \in Seq(S) /\ pos[k] = pos[k - 1] + Len(ss[k])
        BY <2>1, <2>4
      <4> HIDE DEF pos
      <4> QED
        BY <4>1
    <3> HIDE DEF pos
    <3> QED
      BY <3>1, <3>2
  <2>7. ASSUME NEW k \in 1 .. n
        PROVE  \A m \in 1 .. pos[k] : joined[n][m] = joined[k][m]
    <3> DEFINE same == {d \in 0 .. n - k :
                          \A m \in 1 .. pos[k] : joined[k + d][m] = joined[k][m] /\ pos[k] <= pos[k + d]}
    <3> HIDE DEF pos
    <3>1. 0 \in same
      BY <2>1, <2>6 DEF same
    <3>2. ASSUME NEW d \in 1 .. n - k, d - 1 \in same PROVE d \in same
      <4> DEFINE e == k + (d - 1)
      <4>1. e \in 1 .. n - 1 /\ e + 1 = k + d /\ k + d \in 1 .. n
        BY <2>1, <3>2
      <4>2. \A m \in 1 .. pos[k] : joined[e][m] = joined[k][m] /\ pos[k] <= pos[e]
        BY <3>2 DEF same
      <4>3. \A m \in 1 .. pos[e] : joined[e + 1][m] = joined[e][m]
        BY <2>5, <4>1
      <4>4. pos[e] <= pos[k + d] /\ pos[e] \in Nat /\ pos[k] \in Nat /\ pos[k + d] \in Nat
        <5>1. pos[(k + d) - 1] <= pos[k + d] /\ pos[k + d] \in Nat /\ pos[(k + d) - 1] \in Nat
          BY <2>6, <4>1
        <5>2. (k + d) - 1 = e
          BY <2>1
        <5> QED
          BY <2>6, <5>1, <5>2
      <4>5. d \in 0 .. n - k
        BY <2>1
      <4> HIDE DEF e
      <4>6. ASSUME NEW m \in 1 .. pos[k] PROVE joined[k + d][m] = joined[k][m] /\ pos[k] <= pos[k + d]
        <5>1. pos[k] <= pos[e] /\ joined[e][m] = joined[k][m]
          BY <4>2
        <5>2. m \in 1 .. pos[e]
          BY <4>4, <5>1
        <5>3. joined[e + 1][m] = joined[e][m]
          BY <4>3, <5>2
        <5>4. pos[k] <= pos[k + d]
          BY <4>4, <5>1
        <5> QED
          BY <4>1, <5>1, <5>3, <5>4
      <4> QED
        BY <4>5, <4>6 DEF same
    <3>3. n - k \in Nat
      BY <2>1
    <3> HIDE DEF same
    <3>4. \A d \in 0 .. n - k : d \in same
      BY <3>1, <3>2, <3>3, InductiveUpTo
    <3>5. n - k \in same /\ k + (n - k) = n
      BY <2>1, <3>3, <3>4
    <3> QED
      BY <3>5 DEF same
  <2>8. ASSUME NEW k \in 1 .. n, NEW j \in 1 .. Len(ss[k])
        PROVE  joined[n][pos[k - 1] + j] = ss[k][j]
    <3>1. pos[k - 1] + j \in 1 .. pos[k]
      <4>1. pos[k - 1] \in Nat /\ pos[k] = pos[k - 1] + Len(ss[k]) /\ ss[k] \in Seq(S)
        BY <2>1, <2>4, <2>6
      <4> HIDE DEF pos
      <4> QED
        BY <4>1
    <3>2. joined[n][pos[k - 1] + j] = joined[k][pos[k - 1] + j]
      BY <2>7, <3>1
    <3>3. joined[k][pos[k - 1] + j] = ss[k][j]
      BY <2>4
    <3> QED
      BY <3>2, <3>3
  <2> HIDE DEF pos
  <2>9. IsPlaced(pos, ss)
    BY <2>2, <2>3, <2>4, <2>8 DEF IsPlaced, n
  <2> QED
    BY <2>9
<1> QED
  BY <1>1, <1>2

\* Rows of the same length.
LEMMA RowsPlaced ==
    ASSUME NEW S, NEW ss \in Seq(Seq(S)), NEW m \in Nat,
           \A k \in 1 .. Len(ss) : Len(ss[k]) = m
    PROVE  /\ FlattenSeq(ss) \in Seq(S) /\ Len(FlattenSeq(ss)) = m * Len(ss)
           /\ \A k \in 1 .. Len(ss) : \A j \in 1 .. m :
                 FlattenSeq(ss)[m * (k - 1) + j] = ss[k][j]
<1>1. PICK pos : IsPlaced(pos, ss)
  BY Places
<1> DEFINE n == Len(ss)
           T1 == {k \in 0 .. n : pos[k] = m * k}
<1>2. n \in Nat
  OBVIOUS
<1>3. 0 \in T1
  BY <1>1, <1>2 DEF IsPlaced
<1>4. ASSUME NEW k \in 1 .. n, k - 1 \in T1 PROVE k \in T1
  <2>1. pos[k - 1] = m * (k - 1)
    BY <1>4
  <2>2. pos[k] = pos[k - 1] + m
    BY <1>1 DEF IsPlaced
  <2>3. m * (k - 1) + m = m * k
    BY <1>2
  <2> QED
    BY <1>2, <2>1, <2>2, <2>3
<1> HIDE DEF T1
<1>5. \A k \in 0 .. n : k \in T1
  BY <1>2, <1>3, <1>4, InductiveUpTo
<1>6. \A k \in 0 .. n : pos[k] = m * k
  BY <1>5 DEF T1
<1>7. pos[n] = m * n
  BY <1>2, <1>6
<1>8. \A k \in 1 .. n : pos[k - 1] = m * (k - 1)
  BY <1>2, <1>6
<1> QED
  BY <1>1, <1>7, <1>8, JoinedIsSeq DEF IsPlaced

-----------------------------------------------------------------------------
(* What the builder writes, item by item *)

\* Brackets do not matter.
Associates(a, b, c) == (a \o b) \o c = a \o (b \o c)
LEMMA Associated ==
    ASSUME NEW S, NEW a \in Seq(S), NEW b \in Seq(S), NEW c \in Seq(S)
    PROVE  Associates(a, b, c)
  BY ConcatAssociative, SMTT(30) DEF Associates

\* One sequence behind another.
LEMMA ConcatIs ==
    ASSUME NEW S, NEW a \in Seq(S), NEW b \in Seq(S)
    PROVE  /\ a \o b \in Seq(S) /\ Len(a \o b) = Len(a) + Len(b)
           /\ Len(a) \in Nat /\ Len(b) \in Nat
           /\ \A j \in 1 .. Len(a) : (a \o b)[j] = a[j]
           /\ \A j \in 1 .. Len(b) : (a \o b)[Len(a) + j] = b[j]
<1>1. a \o b \in Seq(S) /\ Len(a \o b) = Len(a) + Len(b) /\ Len(a) \in Nat /\ Len(b) \in Nat
  OBVIOUS
<1>2. \A m, n \in Nat : \A j \in 1 .. n :
        m + j \in 1 .. m + n /\ m + j > m /\ (m + j) - m = j
  OBVIOUS
<1>3. \A m, n \in Nat : \A j \in 1 .. m : j \in 1 .. m + n /\ j <= m
  OBVIOUS
<1>4. ASSUME NEW j \in 1 .. Len(a) PROVE (a \o b)[j] = a[j]
  <2>1. j \in 1 .. Len(a) + Len(b) /\ j <= Len(a)
    BY <1>1, <1>3
  <2> QED
    BY <2>1, ConcatProperties
<1>5. ASSUME NEW j \in 1 .. Len(b) PROVE (a \o b)[Len(a) + j] = b[j]
  <2> DEFINE i == Len(a) + j
  <2>1. i \in 1 .. Len(a) + Len(b) /\ i > Len(a) /\ i - Len(a) = j
    BY <1>1, <1>2
  <2> HIDE DEF i
  <2>2. (a \o b)[i] = b[i - Len(a)]
    BY <2>1, ConcatProperties
  <2> QED
    BY <2>1, <2>2 DEF i
<1> QED
  BY <1>1, <1>4, <1>5

\* One sequence is another with a third behind it.
Joins(c, a, b, S) ==
    /\ c \in Seq(S) /\ Len(c) = Len(a) + Len(b)
    /\ \A j \in 1 .. Len(a) : c[j] = a[j]
    /\ \A j \in 1 .. Len(b) : c[Len(a) + j] = b[j]

\* The same as ConcatIs, under a name that can be cited without being taken apart.
LEMMA ConcatJoins ==
    ASSUME NEW S, NEW a \in Seq(S), NEW b \in Seq(S)
    PROVE  Joins(a \o b, a, b, S)
<1>1. /\ a \o b \in Seq(S) /\ Len(a \o b) = Len(a) + Len(b)
      /\ \A j \in 1 .. Len(a) : (a \o b)[j] = a[j]
      /\ \A j \in 1 .. Len(b) : (a \o b)[Len(a) + j] = b[j]
  BY ConcatIs, SMTT(30)
<1> QED
  BY <1>1 DEF Joins

FilterItem(f, number) == IF f.kind = "floatrange" THEN W(number) ELSE L(number)
FilterHead(f) == <<T(f.attrName), W(FilterType[f.kind])>>
FilterSize(f) == IF f.kind = "values" THEN <<W(Len(f.values))>> ELSE <<>>
FilterNumbers(f) == [k \in 1 .. Len(f.values) |-> FilterItem(f, f.values[k])]
FilterFlag(f) == <<W(IF f.excludeFlag THEN 1 ELSE 0)>>
\* A filter: name, type, the number of values if it has a list of them, the
\* values, and whether it excludes.
LEMMA DumpShape ==
    ASSUME NEW f \in FilterValues
    PROVE  /\ DumpToBuff(f) = (FilterHead(f) \o (FilterSize(f) \o FilterNumbers(f))) \o FilterFlag(f)
           /\ FilterHead(f) \in Seq(Items) /\ Len(FilterHead(f)) = 2
           /\ FilterSize(f) \in Seq(Items)
           /\ FilterNumbers(f) \in Seq(Items) /\ Len(FilterNumbers(f)) = Len(f.values)
           /\ FilterFlag(f) \in Seq(Items) /\ Len(FilterFlag(f)) = 1
           /\ f.kind # "values" => Len(f.values) = 2
           /\ Len(f.values) \in Nat
           /\ DumpToBuff(f) \in Seq(Items) /\ Len(DumpToBuff(f)) >= 4
<1> DEFINE n == Len(f.values)
           head == FilterHead(f)
           size == FilterSize(f)
           values == FilterNumbers(f)
           last == FilterFlag(f)
<1>1. /\ f.attrName \in Texts /\ n \in Nat /\ f.kind \in {"range", "values", "floatrange"}
      /\ f.values \in Seq(LongNumbers) /\ DOMAIN f.values = 1 .. n
      /\ f.kind = "values" => n < WordLimit
      /\ f.kind # "values" => n = 2
      /\ f.kind = "floatrange" => f.values \in Seq(Numbers)
  BY DEF FilterValues
<1>2. 0 \in Numbers /\ 1 \in Numbers /\ 2 \in Numbers
  BY SmallNumbers
<1>3. head \in Seq(Items) /\ Len(head) = 2 /\ head[1] = T(f.attrName) /\ head[2] = W(FilterType[f.kind])
  <2>1. FilterType[f.kind] \in Numbers
    BY <1>1, <1>2 DEF FilterType
  <2>2. T(f.attrName) \in Items /\ W(FilterType[f.kind]) \in Items
    BY <1>1, <2>1, ItemsAre
  <2> QED
    BY <2>2 DEF FilterHead
<1>4. size \in Seq(Items) /\ Len(size) = IF f.kind = "values" THEN 1 ELSE 0
  <2>1. CASE f.kind = "values"
    <3>1. W(n) \in Items
      BY <1>1, <2>1, Limits, ItemsAre
    <3> QED
      BY <2>1, <3>1 DEF FilterSize
  <2>2. CASE f.kind # "values"
    BY <2>2 DEF FilterSize
  <2> QED
    BY <2>1, <2>2
<1>5. values \in Seq(Items) /\ Len(values) = n /\ \A j \in 1 .. n : values[j] = FilterItem(f, f.values[j])
  <2>1. \A k \in 1 .. n : FilterItem(f, f.values[k]) \in Items
    BY <1>1, ItemsAre DEF FilterItem
  <2>2. values \in [1 .. n -> Items] /\ \A j \in 1 .. n : values[j] = FilterItem(f, f.values[j])
    BY <2>1 DEF FilterNumbers
  <2> QED
    BY <1>1, <2>2, SeqDef
<1>6. last \in Seq(Items) /\ Len(last) = 1 /\ last[1] = W(IF f.excludeFlag THEN 1 ELSE 0)
  <2>1. W(IF f.excludeFlag THEN 1 ELSE 0) \in Items
    BY <1>2, ItemsAre
  <2> QED
    BY <2>1 DEF FilterFlag
<1>7. DumpToBuff(f) = (head \o (size \o values)) \o last
  <2>1. CASE f.kind = "values"
    <3>1. DumpToBuff(f) = (head \o (<<W(n)>> \o [k \in DOMAIN f.values |-> L(f.values[k])])) \o last
      BY <2>1 DEF DumpToBuff, FilterHead, FilterFlag
    <3>2. [k \in DOMAIN f.values |-> L(f.values[k])] = values /\ size = <<W(n)>>
      BY <1>1, <2>1 DEF FilterItem, FilterNumbers, FilterSize
    <3> QED
      BY <3>1, <3>2
  <2>2. CASE f.kind = "range"
    <3>1. DumpToBuff(f) = (head \o <<L(f.values[1]), L(f.values[2])>>) \o last
      BY <2>2 DEF DumpToBuff, FilterHead, FilterFlag
    <3>2. values = <<L(f.values[1]), L(f.values[2])>>
      BY <1>1, <1>5, <2>2 DEF FilterItem, FilterNumbers
    <3>3. size = <<>>
      BY <2>2 DEF FilterSize
    <3> HIDE DEF size, values
    <3>4. size \o values = values
      BY <1>5, <3>3
    <3> QED
      BY <3>1, <3>2, <3>4
  <2>3. CASE f.kind = "floatrange"
    <3>1. DumpToBuff(f) = (head \o <<W(f.values[1]), W(f.values[2])>>) \o last
      BY <2>3 DEF DumpToBuff, FilterHead, FilterFlag
    <3>2. values = <<W(f.values[1]), W(f.values[2])>>
      BY <1>1, <1>5, <2>3 DEF FilterItem, FilterNumbers
    <3>3. size = <<>>
      BY <2>3 DEF FilterSize
    <3> HIDE DEF size, values
    <3>4. size \o values = values
      BY <1>5, <3>3
    <3> QED
      BY <3>1, <3>2, <3>4
  <2> QED
    BY <1>1, <2>1, <2>2, <2>3
<1> DEFINE m1 == size \o values
           m2 == head \o m1
<1> HIDE DEF head, size, values, last, n
<1>8. m1 \in Seq(Items) /\ Len(m1) = Len(size) + n /\ Len(size) \in Nat
  BY <1>1, <1>4, <1>5, ConcatIs
<1> HIDE DEF m1
<1>9. m2 \in Seq(Items) /\ Len(m2) = 2 + Len(m1) /\ Len(m1) \in Nat
  <2>1. head \in Seq(Items) /\ m1 \in Seq(Items) /\ Len(head) = 2
    BY <1>3, <1>8
  <2>2. head \o m1 \in Seq(Items) /\ Len(head \o m1) = Len(head) + Len(m1)
    <3> DEFINE a == head
    <3>1. a \in Seq(Items)
      BY <2>1
    <3> HIDE DEF a
    <3> QED
      BY <2>1, <3>1, Together DEF a
  <2>3. Len(m1) \in Nat
    BY <2>1
  <2> QED
    BY <2>1, <2>2, <2>3
<1> HIDE DEF m2
<1>10. DumpToBuff(f) = m2 \o last
  BY <1>7 DEF m1, m2
<1>11. DumpToBuff(f) \in Seq(Items) /\ Len(DumpToBuff(f)) = Len(m2) + 1
  <2>1. m2 \in Seq(Items) /\ last \in Seq(Items) /\ Len(last) = 1
    BY <1>6, <1>9
  <2> QED
    BY <1>10, <2>1, Together
<1>12. Len(size) + n >= 1
  BY <1>1, <1>4
<1>13. Len(DumpToBuff(f)) >= 4
  BY <1>8, <1>9, <1>11, <1>12, <1>1
<1> QED
  BY <1>1, <1>3, <1>4, <1>5, <1>6, <1>7, <1>11, <1>13 DEF head, size, values, last, n

\* The names of a map are written each once.
LEMMA KeysAre ==
    ASSUME NEW S, Counted(S), NEW map, DOMAIN map \subseteq S
    PROVE  /\ Keys(map) \in Seq(DOMAIN map) /\ Range(Keys(map)) = DOMAIN map
           /\ Len(Keys(map)) \in Numbers
           /\ \A k, l \in DOMAIN Keys(map) : Keys(map)[k] = Keys(map)[l] => k = l
<1>1. IsFiniteSet(S) /\ Cardinality(S) < WordLimit
  BY DEF Counted
<1>2. IsFiniteSet(DOMAIN map) /\ Cardinality(DOMAIN map) <= Cardinality(S)
  BY <1>1, FS_Subset
<1>3. Cardinality(DOMAIN map) \in Nat /\ Cardinality(S) \in Nat
  BY <1>1, <1>2, FS_CardinalityType
<1>4. Cardinality(DOMAIN map) \in Numbers
  BY <1>1, <1>2, <1>3, Limits
<1> QED
  BY <1>2, <1>4, SequenceOf DEF Keys

Pairs(n, first, second) == [k \in 1 .. n |-> <<first[k], second[k]>>]
ArePairs(row, n, first, second) ==
    /\ Len(row) = 2 * n
    /\ \A k \in 1 .. n : row[2 * k - 1] = first[k] /\ row[2 * k] = second[k]

LEMMA PairsShape ==
    ASSUME NEW S, NEW n \in Nat, NEW first \in [1 .. n -> S], NEW second \in [1 .. n -> S]
    PROVE  /\ FlattenSeq(Pairs(n, first, second)) \in Seq(S)
           /\ ArePairs(FlattenSeq(Pairs(n, first, second)), n, first, second)
<1> DEFINE ss == Pairs(n, first, second)
<1>1. ss \in Seq(Seq(S)) /\ Len(ss) = n
  <2>1. \A k \in 1 .. n : <<first[k], second[k]>> \in Seq(S)
    OBVIOUS
  <2>2. ss \in [1 .. n -> Seq(S)]
    BY <2>1 DEF Pairs
  <2> QED
    BY <2>2, SeqDef
<1>2. \A k \in 1 .. n : Len(ss[k]) = 2 /\ ss[k][1] = first[k] /\ ss[k][2] = second[k]
  BY DEF Pairs
<1> HIDE DEF ss
<1>3. /\ FlattenSeq(ss) \in Seq(S) /\ Len(FlattenSeq(ss)) = 2 * n
      /\ \A k \in 1 .. n : \A j \in 1 .. 2 : FlattenSeq(ss)[2 * (k - 1) + j] = ss[k][j]
  <2>1. 2 \in Nat /\ \A k \in 1 .. Len(ss) : Len(ss[k]) = 2
    BY <1>1, <1>2
  <2> QED
    <3>1. /\ FlattenSeq(ss) \in Seq(S) /\ Len(FlattenSeq(ss)) = 2 * Len(ss)
          /\ \A k \in 1 .. Len(ss) : \A j \in 1 .. 2 : FlattenSeq(ss)[2 * (k - 1) + j] = ss[k][j]
      BY <1>1, <2>1, RowsPlaced, ZenonT(30)
    <3> QED
      BY <1>1, <3>1
<1>4. \A k \in 1 .. n : 2 * (k - 1) + 1 = 2 * k - 1 /\ 2 * (k - 1) + 2 = 2 * k
  OBVIOUS
<1>5. \A k \in 1 .. n : FlattenSeq(ss)[2 * k - 1] = first[k] /\ FlattenSeq(ss)[2 * k] = second[k]
  <2> SUFFICES ASSUME NEW k \in 1 .. n
               PROVE  FlattenSeq(ss)[2 * k - 1] = first[k] /\ FlattenSeq(ss)[2 * k] = second[k]
    OBVIOUS
  <2>1. FlattenSeq(ss)[2 * (k - 1) + 1] = ss[k][1] /\ FlattenSeq(ss)[2 * (k - 1) + 2] = ss[k][2]
    BY <1>3
  <2> QED
    BY <1>2, <1>4, <2>1
<1> QED
  BY <1>3, <1>5 DEF ss, ArePairs

-----------------------------------------------------------------------------
(* The cells of items, and reading them *)

\* Two sequences of sequences joined one behind another.
LEMMA JoinedBoth ==
    ASSUME NEW S, NEW ss \in Seq(Seq(S)), NEW tt \in Seq(Seq(S))
    PROVE  FlattenSeq(ss \o tt) = FlattenSeq(ss) \o FlattenSeq(tt)
<1> DEFINE n == Len(ss)
           both == ss \o tt
           U == {k \in 0 .. n :
                   FlattenSeq(Rest(both, n - k)) = FlattenSeq(Rest(ss, n - k)) \o FlattenSeq(tt)}
<1>1. /\ n \in Nat /\ Len(tt) \in Nat /\ both \in Seq(Seq(S)) /\ Len(both) = n + Len(tt)
      /\ \A k \in 1 .. n : both[k] = ss[k] /\ ss[k] \in Seq(S)
      /\ \A k \in 1 .. Len(tt) : both[n + k] = tt[k]
  <2>1. \A k \in 1 .. n : ss[k] \in Seq(S)
    BY ElementOfSeq
  <2> QED
    BY <2>1, ConcatIs
<1>2. FlattenSeq(tt) \in Seq(S)
  BY JoinedIsSeq
<1>3. 0 \in U
  <2>1. n \in 0 .. Len(both) /\ n \in 0 .. n /\ n - 0 = n /\ Len(both) - n = Len(tt)
    BY <1>1
  <2>2. Rest(both, n) = tt
    <3> HIDE DEF both, n
    <3>1. /\ Rest(both, n) \in Seq(Seq(S)) /\ Len(Rest(both, n)) = Len(both) - n
          /\ \A m \in 1 .. Len(both) - n : Rest(both, n)[m] = both[n + m]
      <4>1. both \in Seq(Seq(S)) /\ n \in 0 .. Len(both)
        BY <1>1, <2>1
      <4> QED
        BY <4>1, RestProperties
    <3>2. /\ Rest(both, n) \in Seq(Seq(S)) /\ Len(Rest(both, n)) = Len(tt)
          /\ \A m \in 1 .. Len(tt) : Rest(both, n)[m] = tt[m]
      BY <1>1, <2>1, <3>1
    <3> QED
      BY <3>2, SeqEqual
  <2>3. FlattenSeq(Rest(ss, n)) = <<>>
    BY <2>1, JoinedRest
  <2>4. <<>> \o FlattenSeq(tt) = FlattenSeq(tt)
    BY <1>2, ConcatEmptySeq
  <2>5. 0 \in 0 .. n
    BY <1>1
  <2> QED
    BY <2>1, <2>2, <2>3, <2>4, <2>5
<1>4. ASSUME NEW k \in 1 .. n, k - 1 \in U
      PROVE  k \in U
  <2> DEFINE j == n - k
             x == ss[j + 1]
             a == FlattenSeq(Rest(ss, j + 1))
             b == FlattenSeq(tt)
  <2>1. /\ j \in 0 .. n /\ j < n /\ j \in 0 .. Len(both) /\ j < Len(both) /\ j + 1 = n - (k - 1)
        /\ j + 1 \in 1 .. n /\ j + 1 \in 0 .. n /\ k \in 0 .. n
    BY <1>1
  <2>2. FlattenSeq(Rest(both, j)) = both[j + 1] \o FlattenSeq(Rest(both, j + 1))
    <3> HIDE DEF j, both
    <3> QED
      BY <1>1, <2>1, JoinedRest
  <2>3. FlattenSeq(Rest(ss, j)) = x \o a /\ a \in Seq(S)
    <3> HIDE DEF j, n
    <3> QED
      BY <1>1, <2>1, JoinedRest DEF n
  <2>4. FlattenSeq(Rest(both, j + 1)) = a \o b
    BY <1>4, <2>1
  <2>5. both[j + 1] = x /\ x \in Seq(S)
    BY <1>1, <2>1
  <2> HIDE DEF x, a, b, j, both
  <2>6. (x \o a) \o b = x \o (a \o b)
    <3>1. x \in Seq(S) /\ a \in Seq(S) /\ b \in Seq(S)
      BY <1>2, <2>3, <2>5 DEF b
    <3> HIDE DEF U
    <3> QED
      BY <3>1, ConcatAssociative, SMTT(30)
  <2>7. FlattenSeq(Rest(both, j)) = FlattenSeq(Rest(ss, j)) \o b
    BY <2>2, <2>3, <2>4, <2>5, <2>6
  <2> QED
    BY <2>1, <2>7 DEF b, j, both
<1>5. \A k \in 0 .. n : k \in U
  <2> HIDE DEF U, n
  <2> QED
    BY <1>1, <1>3, <1>4, InductiveUpTo
<1>6. n \in 0 .. n /\ n - n = 0 /\ 0 \in 0 .. n /\ 0 \in 0 .. Len(both)
  BY <1>1
<1>7. FlattenSeq(Rest(both, 0)) = FlattenSeq(Rest(ss, 0)) \o FlattenSeq(tt)
  BY <1>5, <1>6
<1>8. Rest(both, 0) = both /\ Rest(ss, 0) = ss
  <2> HIDE DEF both
  <2> QED
    BY <1>1, <1>6, JoinedRest
<1> QED
  BY <1>7, <1>8

ItemCode(item) == Encoded(item.width, item.value)
Codes(items) == [k \in 1 .. Len(items) |-> ItemCode(items[k])]
Wire(items) == FlattenSeq(Codes(items))

LEMMA ItemBack ==
    ASSUME NEW item \in Items
    PROVE  /\ item.width \in Widths /\ Sendable(item.width, item.value)
           /\ Decoded(item.width, item.value) = item.value
           /\ ItemCode(item) \in Cells /\ Len(ItemCode(item)) >= 2
           /\ item.value \in Nat \cup Cells
           /\ item.width # Text => Len(ItemCode(item)) = item.width
<1>1. CASE item.width = Text
  <2>1. item.value \in Cells /\ 2 * Len(item.value) < WordLimit
    BY <1>1 DEF Items, Texts, Cells, Text
  <2>2. Sendable(Text, item.value) /\ Decoded(Text, item.value) = item.value
    BY <2>1, TextBack
  <2>3. ItemCode(item) = EncodeText(item.value)
    BY <1>1 DEF ItemCode, Encoded
  <2>4. EncodeText(item.value) \in Cells /\ Len(EncodeText(item.value)) >= 2
    <3> DEFINE x == item.value
    <3>1. x \in Cells /\ Len(x) \in Nat /\ 2 * Len(x) \in Nat /\ 2 \in Nat
      BY <2>1 DEF Cells
    <3> HIDE DEF x
    <3>2. CellsOf(2 * Len(x), 2) \in Cells /\ Len(CellsOf(2 * Len(x), 2)) = 2
      BY <3>1, CellsOfTyped
    <3>3. EncodeText(x) \in Cells /\ Len(EncodeText(x)) = 2 + Len(x)
      BY <3>1, <3>2, JoinTyped DEF EncodeText
    <3>4. EncodeText(x) \in Cells /\ Len(EncodeText(x)) >= 2
      BY <3>1, <3>3
    <3> QED
      BY <3>4 DEF x
  <2>5. Text \in Widths
    BY DEF Text, Widths
  <2> QED
    BY <1>1, <2>1, <2>2, <2>3, <2>4, <2>5
<1>2. CASE item.width = 2
  <2>1. item.value \in Nat /\ item.value < WordLimit /\ 2 # Text /\ 2 \in Widths
    BY <1>2, Limits DEF Items, Text, Widths
  <2>2. Sendable(2, item.value) /\ Decoded(2, item.value) = item.value
    BY <2>1, WordBack
  <2>3. ItemCode(item) = CellsOf(item.value, 2)
    BY <1>2, <2>1 DEF ItemCode, Encoded
  <2>4. CellsOf(item.value, 2) \in Cells /\ Len(CellsOf(item.value, 2)) = 2
    BY <2>1, CellsOfTyped
  <2> QED
    <3>1. ItemCode(item) \in Cells /\ Len(ItemCode(item)) = 2
      BY <2>3, <2>4
    <3> QED
      BY <1>2, <2>1, <2>2, <3>1
<1>3. CASE item.width = 4
  <2>1. item.value \in Nat /\ item.value \div WordLimit < WordLimit /\ 4 # Text /\ 4 \in Widths
    BY <1>3 DEF Items, Text, Widths, LongNumbers
  <2>2. Sendable(4, item.value) /\ Decoded(4, item.value) = item.value
    BY <2>1, LongBack
  <2>3. ItemCode(item) = CellsOf(item.value, 4)
    BY <1>3, <2>1 DEF ItemCode, Encoded
  <2>4. CellsOf(item.value, 4) \in Cells /\ Len(CellsOf(item.value, 4)) = 4
    BY <2>1, CellsOfTyped
  <2> QED
    <3>1. ItemCode(item) \in Cells /\ Len(ItemCode(item)) = 4
      BY <2>3, <2>4
    <3> QED
      BY <1>3, <2>1, <2>2, <3>1
<1> QED
  BY <1>1, <1>2, <1>3 DEF Items

LEMMA CodesTyped ==
    ASSUME NEW items \in Seq(Items)
    PROVE  /\ Codes(items) \in Seq(Cells) /\ Codes(items) \in Seq(Seq(Nat))
           /\ Len(Codes(items)) = Len(items) /\ Len(items) \in Nat
           /\ \A k \in 1 .. Len(items) : items[k] \in Items /\ Codes(items)[k] = ItemCode(items[k])
<1>1. Len(items) \in Nat /\ \A k \in 1 .. Len(items) : items[k] \in Items
  OBVIOUS
<1>2. \A k \in 1 .. Len(items) : ItemCode(items[k]) \in Cells
  BY <1>1, ItemBack
<1>3. Codes(items) \in Seq(Cells) /\ Len(Codes(items)) = Len(items)
  BY <1>1, <1>2, IsASeq DEF Codes
<1>4. \A k \in 1 .. Len(items) : Codes(items)[k] = ItemCode(items[k])
  BY DEF Codes
<1> QED
  BY <1>1, <1>3, <1>4 DEF Cells

LEMMA WireTyped ==
    ASSUME NEW items \in Seq(Items)
    PROVE  Wire(items) \in Cells /\ Len(Wire(items)) \in Nat
<1>1. Wire(items) \in Seq(Nat)
  BY CodesTyped, JoinedIsSeq DEF Wire
<1> QED
  BY <1>1 DEF Cells

LEMMA WireBoth ==
    ASSUME NEW a \in Seq(Items), NEW b \in Seq(Items)
    PROVE  Wire(a \o b) = Wire(a) \o Wire(b)
<1> DEFINE c == a \o b
<1>1. /\ c \in Seq(Items) /\ Len(c) = Len(a) + Len(b) /\ Len(a) \in Nat /\ Len(b) \in Nat
      /\ \A j \in 1 .. Len(a) : c[j] = a[j]
      /\ \A j \in 1 .. Len(b) : c[Len(a) + j] = b[j]
  BY ConcatIs
<1> HIDE DEF c
<1>2. Codes(c) = Codes(a) \o Codes(b)
  <2> DEFINE d == Codes(a) \o Codes(b)
  <2>1. /\ Codes(a) \in Seq(Cells) /\ Codes(b) \in Seq(Cells) /\ Codes(c) \in Seq(Cells)
        /\ Len(Codes(a)) = Len(a) /\ Len(Codes(b)) = Len(b) /\ Len(Codes(c)) = Len(a) + Len(b)
    BY <1>1, CodesTyped
  <2>2. /\ d \in Seq(Cells) /\ Len(d) = Len(a) + Len(b)
        /\ \A j \in 1 .. Len(a) : d[j] = Codes(a)[j]
        /\ \A j \in 1 .. Len(b) : d[Len(a) + j] = Codes(b)[j]
    <3> DEFINE p == Codes(a)
               q == Codes(b)
    <3>1. p \in Seq(Cells) /\ q \in Seq(Cells) /\ Len(p) = Len(a) /\ Len(q) = Len(b)
      BY <2>1
    <3> HIDE DEF p, q
    <3>2. Joins(p \o q, p, q, Cells)
      BY <3>1, ConcatJoins, Zenon
    <3>3. /\ p \o q \in Seq(Cells) /\ Len(p \o q) = Len(p) + Len(q)
          /\ \A j \in 1 .. Len(p) : (p \o q)[j] = p[j]
          /\ \A j \in 1 .. Len(q) : (p \o q)[Len(p) + j] = q[j]
      BY <3>2 DEF Joins
    <3> QED
      BY <3>1, <3>3 DEF p, q
  <2> HIDE DEF d
  <2>3. ASSUME NEW j \in 1 .. Len(a) + Len(b)
        PROVE  Codes(c)[j] = d[j]
    <3>1. CASE j <= Len(a)
      <4>1. j \in 1 .. Len(a)
        BY <1>1, <3>1
      <4>2. Codes(c)[j] = ItemCode(a[j]) /\ Codes(a)[j] = ItemCode(a[j])
        BY <1>1, <4>1, CodesTyped
      <4> QED
        BY <2>2, <4>1, <4>2
    <3>2. CASE j > Len(a)
      <4> DEFINE m == j - Len(a)
      <4>1. m \in 1 .. Len(b) /\ j = Len(a) + m
        BY <1>1, <3>2
      <4> HIDE DEF m
      <4>2. Codes(c)[j] = ItemCode(b[m]) /\ Codes(b)[m] = ItemCode(b[m])
        BY <1>1, <4>1, CodesTyped, ZenonT(30)
      <4> QED
        BY <2>2, <4>1, <4>2
    <3> QED
      BY <1>1, <3>1, <3>2
  <2>4. Codes(c) = d
    BY <2>1, <2>2, <2>3, SeqEqual
  <2> QED
    BY <2>4 DEF d
<1>3. FlattenSeq(Codes(a) \o Codes(b)) = FlattenSeq(Codes(a)) \o FlattenSeq(Codes(b))
  BY CodesTyped, JoinedBoth
<1> QED
  BY <1>2, <1>3 DEF Wire, c

LEMMA WireOne ==
    ASSUME NEW item \in Items
    PROVE  Wire(<<item>>) = ItemCode(item)
<1>1. <<item>> \in Seq(Items) /\ Len(<<item>>) = 1 /\ <<item>>[1] = item
  BY OneItem
<1>2. Codes(<<item>>) = <<ItemCode(item)>>
  BY <1>1 DEF Codes
<1>3. ItemCode(item) \in Seq(Nat)
  BY ItemBack DEF Cells
<1>4. FlattenSeq(<<ItemCode(item)>>) = ItemCode(item)
  <2> DEFINE x == ItemCode(item)
  <2>1. x \in Seq(Nat)
    BY <1>3
  <2> HIDE DEF x
  <2>2. <<x>> \in Seq(Seq(Nat)) /\ Len(<<x>>) = 1 /\ <<x>>[1] = x /\ <<x>> # <<>>
    BY <2>1, OneItem
  <2>3. PICK J \in [1 .. 1 -> Seq(Nat)] : FlattenSeq(<<x>>) = J[1] /\ J[1] = <<x>>[1]
    BY <2>2, Joined
  <2>4. FlattenSeq(<<x>>) = x
    BY <2>2, <2>3
  <2> QED
    BY <2>4 DEF x
<1> QED
  BY <1>2, <1>4 DEF Wire

\* Something takes two cells at least.
LEMMA WireLength ==
    ASSUME NEW items \in Seq(Items)
    PROVE  Len(Wire(items)) >= 2 * Len(items)
<1> DEFINE n == Len(items)
<1>1. /\ Codes(items) \in Seq(Cells) /\ Len(Codes(items)) = n /\ n \in Nat
      /\ \A k \in 1 .. n : Codes(items)[k] \in Cells /\ Len(Codes(items)[k]) >= 2
                           /\ Len(Codes(items)[k]) \in Nat
  <2>1. \A x \in Cells : Len(x) \in Nat
    BY DEF Cells
  <2> QED
    BY <2>1, CodesTyped, ItemBack
<1>2. PICK left : /\ left \in [0 .. n -> Nat]
                  /\ left[0] = Len(Wire(items)) /\ left[n] = 0
                  /\ \A k \in 1 .. n : left[k - 1] = Len(Codes(items)[k]) + left[k]
  BY <1>1, OnwardLengths DEF Wire
<1> HIDE DEF n
<1> DEFINE U == {k \in 0 .. n : left[0] >= 2 * k + left[k]}
<1>3. 0 \in U
  BY <1>1, <1>2
<1>4. ASSUME NEW k \in 1 .. n, k - 1 \in U
      PROVE  k \in U
  <2> DEFINE long == [i \in 1 .. n |-> Len(Codes(items)[i])]
  <2>a. \A i \in 1 .. n : /\ long[i] = Len(Codes(items)[i])
                          /\ long[i] >= 2 /\ long[i] \in Nat
    BY <1>1
  <2>b. \A i \in 1 .. n : left[i - 1] = Len(Codes(items)[i]) + left[i]
    BY <1>2
  <2> HIDE DEF long
  <2>1. left[k] \in Nat /\ left[k - 1] \in Nat /\ left[0] \in Nat /\ n \in Nat
    BY <1>1, <1>2
  <2>2. long[k] >= 2 /\ long[k] \in Nat
    BY <2>a
  <2>3. left[k - 1] = long[k] + left[k]
    BY <2>a, <2>b
  <2>4. left[k - 1] >= 2 + left[k]
    BY <2>1, <2>2, <2>3
  <2>5. left[0] >= 2 * (k - 1) + left[k - 1]
    BY <1>4
  <2> QED
    BY <2>1, <2>4, <2>5
<1>5. \A k \in 0 .. n : k \in U
  <2> HIDE DEF U
  <2> QED
    BY <1>1, <1>3, <1>4, InductiveUpTo
<1>6. n \in U
  BY <1>1, <1>5
<1> QED
  BY <1>2, <1>6 DEF n

\* A reader that goes on with what was named.
At(cells, named) == [got |-> <<>>, rest |-> cells, ok |-> TRUE, named |-> named]
Carry(r, named) == [got |-> r.got, rest |-> r.rest, ok |-> r.ok, named |-> named]

Fields == {"got", "rest", "ok", "named"}
LEMMA ReaderIs ==
    ASSUME NEW x, x = [f \in Fields |-> x[f]]
    PROVE  x = [got |-> x.got, rest |-> x.rest, ok |-> x.ok, named |-> x.named]
<1> DEFINE y == [got |-> x.got, rest |-> x.rest, ok |-> x.ok, named |-> x.named]
<1>1. DOMAIN y = Fields
  BY DEF Fields
<1>2. \A f \in Fields : y[f] = x[f]
  BY DEF Fields
<1>3. y = [f \in Fields |-> y[f]]
  BY <1>1
<1> HIDE DEF y
<1> QED
  BY <1>2, <1>3 DEF y

\* The two things Take() does to a reader.
LEMMA Excepted ==
    ASSUME NEW s, DOMAIN s = Fields
    PROVE  /\ \A g, c : [s EXCEPT !.got = g, !.rest = c]
                         = [got |-> g, rest |-> c, ok |-> s.ok, named |-> s.named]
           /\ [s EXCEPT !.ok = FALSE] = [got |-> s.got, rest |-> s.rest, ok |-> FALSE, named |-> s.named]
<1>1. ASSUME NEW g, NEW c
      PROVE  [s EXCEPT !.got = g, !.rest = c] = [got |-> g, rest |-> c, ok |-> s.ok, named |-> s.named]
  <2> DEFINE x == [s EXCEPT !.got = g, !.rest = c]
  <2>1. x.got = g /\ x.rest = c /\ x.ok = s.ok /\ x.named = s.named
    BY DEF Fields
  <2>2. x = [f \in Fields |-> x[f]]
    OBVIOUS
  <2> HIDE DEF x
  <2>3. x = [got |-> x.got, rest |-> x.rest, ok |-> x.ok, named |-> x.named]
    BY <2>2, ReaderIs
  <2> QED
    BY <2>1, <2>3 DEF x
<1>2. [s EXCEPT !.ok = FALSE] = [got |-> s.got, rest |-> s.rest, ok |-> FALSE, named |-> s.named]
  <2> DEFINE x == [s EXCEPT !.ok = FALSE]
  <2>1. x.got = s.got /\ x.rest = s.rest /\ x.ok = FALSE /\ x.named = s.named
    BY DEF Fields
  <2>2. x = [f \in Fields |-> x[f]]
    OBVIOUS
  <2> HIDE DEF x
  <2>3. x = [got |-> x.got, rest |-> x.rest, ok |-> x.ok, named |-> x.named]
    BY <2>2, ReaderIs
  <2> QED
    BY <2>1, <2>3 DEF x
<1> QED
  BY <1>1, <1>2

LEMMA TakeCarries ==
    ASSUME NEW r \in Readers, NEW named, NEW width
    PROVE  Take(Carry(r, named), width) = Carry(Take(r, width), named)
<1> DEFINE s == Carry(r, named)
           front == IF width = Text THEN 2 ELSE width
           number == Number(SubSeq(r.rest, 1, front))
           cells == front + (IF width = Text THEN number \div 2 ELSE 0)
           enough == r.ok /\ front <= Len(r.rest) /\ cells <= Len(r.rest)
           got == Append(r.got, IF width = Text THEN SubSeq(r.rest, 3, cells) ELSE number)
           rest == SubSeq(r.rest, cells + 1, Len(r.rest))
<1>1. s.got = r.got /\ s.rest = r.rest /\ s.ok = r.ok /\ s.named = named
  BY DEF Carry
<1>2. Take(r, width) = IF enough THEN [r EXCEPT !.got = got, !.rest = rest] ELSE [r EXCEPT !.ok = FALSE]
  BY DEF Take
<1>3. Take(s, width) = IF enough THEN [s EXCEPT !.got = got, !.rest = rest] ELSE [s EXCEPT !.ok = FALSE]
  <2> HIDE DEF s
  <2> QED
    BY <1>1 DEF Take
<1> HIDE DEF enough, got, rest
<1>4. DOMAIN s = Fields /\ DOMAIN r = Fields
  BY DEF Carry, Readers, Fields
<1> HIDE DEF s
<1> DEFINE a == [r EXCEPT !.got = got, !.rest = rest]
           b == [s EXCEPT !.got = got, !.rest = rest]
           d == [r EXCEPT !.ok = FALSE]
           e == [s EXCEPT !.ok = FALSE]
<1>5. /\ a = [got |-> got, rest |-> rest, ok |-> r.ok, named |-> r.named]
      /\ d = [got |-> r.got, rest |-> r.rest, ok |-> FALSE, named |-> r.named]
  BY <1>4, Excepted
<1>6. /\ b = [got |-> got, rest |-> rest, ok |-> r.ok, named |-> named]
      /\ e = [got |-> r.got, rest |-> r.rest, ok |-> FALSE, named |-> named]
  <2>1. /\ b = [got |-> got, rest |-> rest, ok |-> s.ok, named |-> s.named]
        /\ e = [got |-> s.got, rest |-> s.rest, ok |-> FALSE, named |-> s.named]
    BY <1>4, Excepted
  <2> HIDE DEF b, e
  <2> QED
    BY <1>1, <2>1
<1> HIDE DEF a, b, d, e
<1>7. b = Carry(a, named) /\ e = Carry(d, named)
  BY <1>5, <1>6 DEF Carry
<1>8. CASE enough
  <2>1. Take(r, width) = a /\ Take(s, width) = b
    BY <1>2, <1>3, <1>8 DEF a, b
  <2> QED
    BY <1>7, <2>1 DEF s
<1>9. CASE ~enough
  <2>1. Take(r, width) = d /\ Take(s, width) = e
    BY <1>2, <1>3, <1>9 DEF d, e
  <2> QED
    BY <1>7, <2>1 DEF s
<1> QED
  BY <1>8, <1>9 DEF s

\* The loop over a format, whatever is read.
Takes(f, n, r, format) ==
    f = [k \in 0 .. n |-> IF k = 0 THEN r ELSE Take(f[k - 1], format[k])]
LEMMA TakingExists ==
    ASSUME NEW n \in Nat, NEW r, NEW format
    PROVE  \E f : Takes(f, n, r, format)
<1> DEFINE isTable(f, m) == f = [k \in 0 .. m |-> IF k = 0 THEN r ELSE Take(f[k - 1], format[k])]
           U == {m \in Nat : \E f : isTable(f, m)}
<1>1. 0 \in U
  <2> DEFINE g == [k \in 0 .. 0 |-> r]
  <2>1. \A k \in 0 .. 0 : k = 0
    OBVIOUS
  <2>2. isTable(g, 0)
    BY <2>1
  <2> QED
    BY <2>2
<1>2. ASSUME NEW m \in U
      PROVE  m + 1 \in U
  <2>1. PICK f : isTable(f, m)
    OBVIOUS
  <2> DEFINE g == [k \in 0 .. m + 1 |-> IF k = m + 1 THEN Take(f[m], format[m + 1]) ELSE f[k]]
  <2>2. m \in Nat /\ m + 1 \in Nat /\ m + 1 # 0 /\ m + 1 - 1 = m
    OBVIOUS
  <2>3. \A k \in 0 .. m : f[k] = IF k = 0 THEN r ELSE Take(f[k - 1], format[k])
    BY <2>1
  <2>4. ASSUME NEW k \in 0 .. m + 1
        PROVE  g[k] = IF k = 0 THEN r ELSE Take(g[k - 1], format[k])
    <3>1. k # 0 => k - 1 \in 0 .. m + 1 /\ k - 1 # m + 1
      BY <2>2
    <3>2. k # 0 => g[k - 1] = f[k - 1]
      BY <3>1
    <3>3. CASE k = m + 1
      <4>1. g[k] = Take(f[m], format[m + 1])
        BY <3>3
      <4> HIDE DEF g
      <4> QED
        BY <2>2, <3>2, <3>3, <4>1
    <3>4. CASE k # m + 1
      <4>1. g[k] = f[k] /\ k \in 0 .. m
        BY <2>2, <3>4
      <4> HIDE DEF g
      <4> QED
        BY <2>3, <3>2, <4>1
    <3> QED
      BY <3>3, <3>4
  <2>5. g = [k \in 0 .. m + 1 |-> g[k]]
    OBVIOUS
  <2> HIDE DEF g
  <2>6. isTable(g, m + 1)
    BY <2>4, <2>5
  <2> HIDE DEF isTable
  <2> QED
    BY <2>2, <2>6
<1>3. U = Nat
  <2>1. U \in SUBSET Nat
    BY DEF U
  <2> HIDE DEF U
  <2> QED
    BY <1>1, <1>2, <2>1, InductiveSet
<1>4. n \in U
  BY <1>3
<1> QED
  BY <1>4 DEF Takes

\* What was named makes no difference to what is read.
LEMMA TakeAllCarries ==
    ASSUME NEW r \in Readers, NEW named, NEW format \in Seq(Widths)
    PROVE  TakeAll(Carry(r, named), format) = Carry(TakeAll(r, format), named)
<1> DEFINE n == Len(format)
           s == Carry(r, named)
           After[k \in 0 .. n] == IF k = 0 THEN s ELSE Take(After[k - 1], format[k])
<1>1. n \in Nat
  OBVIOUS
<1>2. PICK after : IsTaking(after, r, format)
  BY TakeAllIs
<1>3. /\ after \in [0 .. n -> Readers] /\ after[0] = r
      /\ \A k \in 1 .. n : after[k] = Take(after[k - 1], format[k])
      /\ TakeAll(r, format) = after[n]
  BY <1>2 DEF IsTaking
<1>4. TakeAll(s, format) = After[n]
  BY DEF TakeAll
<1> HIDE DEF n, s
<1>5. \E f : Takes(f, n, s, format)
  BY <1>1, TakingExists
<1>6. After = [k \in 0 .. n |-> IF k = 0 THEN s ELSE Take(After[k - 1], format[k])]
  BY <1>5 DEF After, Takes
<1> HIDE DEF After
<1>7. After[0] = s /\ \A k \in 1 .. n : After[k] = Take(After[k - 1], format[k])
  BY <1>1, <1>6
<1> DEFINE U == {k \in 0 .. n : After[k] = Carry(after[k], named)}
<1>8. 0 \in U
  BY <1>1, <1>3, <1>7 DEF s
<1>9. ASSUME NEW k \in 1 .. n, k - 1 \in U
      PROVE  k \in U
  <2>1. k - 1 \in 0 .. n /\ k \in 0 .. n
    BY <1>1
  <2>2. after[k - 1] \in Readers
    BY <1>3, <2>1
  <2>3. After[k] = Take(Carry(after[k - 1], named), format[k])
    BY <1>7, <1>9
  <2>4. After[k] = Carry(Take(after[k - 1], format[k]), named)
    BY <2>2, <2>3, TakeCarries
  <2> QED
    BY <1>3, <2>1, <2>4
<1>10. \A k \in 0 .. n : k \in U
  <2> HIDE DEF U
  <2> QED
    BY <1>1, <1>8, <1>9, InductiveUpTo
<1>11. n \in U
  BY <1>1, <1>10
<1> QED
  BY <1>3, <1>4, <1>11 DEF s

Formats(items) == [k \in 1 .. Len(items) |-> items[k].width]
Values(items) == [k \in 1 .. Len(items) |-> items[k].value]

LEMMA FormatsTyped ==
    ASSUME NEW items \in Seq(Items)
    PROVE  /\ Formats(items) \in Seq(Widths) /\ Len(Formats(items)) = Len(items)
           /\ Values(items) \in Seq(Nat \cup Cells) /\ Len(Values(items)) = Len(items)
           /\ \A k \in 1 .. Len(items) : /\ Formats(items)[k] = items[k].width
                                         /\ Values(items)[k] = items[k].value
<1>1. Len(items) \in Nat /\ \A k \in 1 .. Len(items) : items[k] \in Items
  OBVIOUS
<1>2. \A k \in 1 .. Len(items) : items[k].width \in Widths /\ items[k].value \in Nat \cup Cells
  BY <1>1, ItemBack
<1>3. Formats(items) \in Seq(Widths) /\ Len(Formats(items)) = Len(items)
  BY <1>1, <1>2, IsASeq DEF Formats
<1>4. Values(items) \in Seq(Nat \cup Cells) /\ Len(Values(items)) = Len(items)
  BY <1>1, <1>2, IsASeq DEF Values
<1>5. \A k \in 1 .. Len(items) : Formats(items)[k] = items[k].width /\ Values(items)[k] = items[k].value
  BY DEF Formats, Values
<1> QED
  BY <1>3, <1>4, <1>5

\* Items are read with their widths as they were written.
LEMMA TakesItems ==
    ASSUME NEW items \in Seq(Items), NEW tail \in Cells, NEW named
    PROVE  TakeAll(At(Wire(items) \o tail, named), Formats(items))
             = [got |-> Values(items), rest |-> tail, ok |-> TRUE, named |-> named]
<1> DEFINE n == Len(items)
           r == At(Wire(items) \o tail, <<>>)
           left == Onward(Codes(items), tail)
           values == [k \in 1 .. n |-> items[k].value]
<1>1. /\ Formats(items) \in Seq(Widths) /\ Len(Formats(items)) = n
      /\ Values(items) \in Seq(Nat \cup Cells) /\ Len(Values(items)) = n
      /\ \A k \in 1 .. n : Formats(items)[k] = items[k].width /\ Values(items)[k] = items[k].value
  BY FormatsTyped
<1>2. /\ Codes(items) \in Seq(Cells) /\ Len(Codes(items)) = n /\ n \in Nat
      /\ \A k \in 1 .. n : items[k] \in Items /\ Codes(items)[k] = ItemCode(items[k])
  BY CodesTyped
<1>3. Wire(items) \o tail \in Cells
  BY WireTyped, JoinTyped
<1>4. r \in Readers /\ r.ok /\ r.got = <<>> /\ r.rest = Wire(items) \o tail
  BY <1>3 DEF At, Readers
<1>5. /\ left \in [0 .. n -> Cells] /\ left[0] = Wire(items) \o tail /\ left[n] = tail
      /\ \A k \in 1 .. n : left[k - 1] = Codes(items)[k] \o left[k]
  <2> DEFINE codes == Codes(items)
  <2>1. codes \in Seq(Cells) /\ Len(codes) = n
    BY <1>2
  <2> HIDE DEF codes, n
  <2>2. /\ Onward(codes, tail) \in [0 .. n -> Cells]
        /\ Onward(codes, tail)[0] = FlattenSeq(codes) \o tail
        /\ Onward(codes, tail)[n] = tail
        /\ \A k \in 1 .. n : Onward(codes, tail)[k - 1] = codes[k] \o Onward(codes, tail)[k]
    BY <2>1, OnwardIs
  <2> QED
    BY <2>2 DEF codes, Wire
<1>6. \A k \in 1 .. n : /\ Sendable(items[k].width, items[k].value)
                        /\ Codes(items)[k] = Encoded(items[k].width, items[k].value)
                        /\ Decoded(items[k].width, items[k].value) = items[k].value
                        /\ values[k] = items[k].value
  BY <1>2, ItemBack DEF ItemCode
<1> HIDE DEF n, r, left, values
<1>7. IsWritten(r, Formats(items), values, left)
  BY <1>1, <1>4, <1>5, <1>6 DEF IsWritten
<1> DEFINE read == TakeAll(r, Formats(items))
<1>8. IsReadBack(read, Formats(items), values, left)
  BY <1>7, TakesBack
<1> HIDE DEF read
<1>9. /\ read \in Readers /\ read.ok = TRUE /\ read.rest = tail
      /\ Len(read.got) = n
      /\ \A k \in 1 .. n : read.got[k] = Decoded(Formats(items)[k], values[k])
  BY <1>1, <1>5, <1>8 DEF IsReadBack, Readers
<1>10. read.got = Values(items)
  <2>1. read.got \in Seq(Nat \cup Cells)
    BY <1>9 DEF Readers
  <2>2. \A k \in 1 .. n : read.got[k] = Values(items)[k]
    BY <1>1, <1>6, <1>9
  <2> QED
    BY <1>1, <1>9, <2>1, <2>2, SeqEqual
<1>11. TakeAll(Carry(r, named), Formats(items)) = Carry(read, named)
  BY <1>1, <1>4, TakeAllCarries DEF read
<1>12. Carry(r, named) = At(Wire(items) \o tail, named)
  BY DEF Carry, r, At
<1>13. Carry(read, named) = [got |-> Values(items), rest |-> tail, ok |-> TRUE, named |-> named]
  BY <1>9, <1>10 DEF Carry
<1> QED
  BY <1>11, <1>12, <1>13

-----------------------------------------------------------------------------
(* Reading part by part *)

\* A part whose items stand in front is read, and named.
LEMMA ReadsItems ==
    ASSUME NEW items \in Seq(Items), NEW tail \in Cells, NEW named, NEW part,
           NEW r, r = At(Wire(items) \o tail, named),
           Format(r, part) = Formats(items),
           part = "size" => named.type \in Range(FilterType)
    PROVE  ReadPart(r, part) = At(tail, With(named, part, Value(r, part, Values(items))))
<1> DEFINE got == Values(items)
           taken == TakeAll(r, Format(r, part))
           value == Value(r, part, got)
           x == [taken EXCEPT !.named = With(@, part, value), !.got = <<>>]
<1>1. r.ok = TRUE /\ r.named = named
  BY DEF At
<1>2. taken = [got |-> got, rest |-> tail, ok |-> TRUE, named |-> named]
  BY TakesItems
<1>3. ReadPart(r, part) = Named(taken, part, Value(r, part, taken.got))
  BY <1>1 DEF ReadPart
<1>4. Value(r, part, taken.got) = value /\ taken.ok = TRUE
  BY <1>2
<1> HIDE DEF value
<1>5. ReadPart(r, part) = x
  BY <1>3, <1>4 DEF Named
<1>6. /\ x.got = <<>> /\ x.rest = tail /\ x.ok = TRUE /\ x.named = With(named, part, value)
      /\ DOMAIN x = Fields
  <2> DEFINE w == With(named, part, value)
  <2> HIDE DEF w
  <2>1. x = [taken EXCEPT !.named = w, !.got = <<>>]
    BY <1>2 DEF w
  <2>2. DOMAIN taken = Fields /\ taken.rest = tail /\ taken.ok = TRUE
    BY <1>2 DEF Fields
  <2> HIDE DEF taken, x
  <2> QED
    BY <2>1, <2>2 DEF Fields, w
<1>7. x = [f \in DOMAIN x |-> x[f]]
  OBVIOUS
<1> HIDE DEF x
<1>8. x = [got |-> x.got, rest |-> x.rest, ok |-> x.ok, named |-> x.named]
  BY <1>6, <1>7, ReaderIs
<1> QED
  BY <1>5, <1>6, <1>8 DEF At, value

\* The loop over parts.
Reads(f, n, r, parts) ==
    f = [k \in 0 .. n |-> IF k = 0 THEN r ELSE ReadPart(f[k - 1], parts[k])]
LEMMA ReadingExists ==
    ASSUME NEW n \in Nat, NEW r, NEW parts
    PROVE  \E f : Reads(f, n, r, parts)
<1> DEFINE isTable(f, m) == f = [k \in 0 .. m |-> IF k = 0 THEN r ELSE ReadPart(f[k - 1], parts[k])]
           U == {m \in Nat : \E f : isTable(f, m)}
<1>1. 0 \in U
  <2> DEFINE g == [k \in 0 .. 0 |-> r]
  <2>1. \A k \in 0 .. 0 : k = 0
    OBVIOUS
  <2>2. isTable(g, 0)
    BY <2>1
  <2> QED
    BY <2>2
<1>2. ASSUME NEW m \in U
      PROVE  m + 1 \in U
  <2>1. PICK f : isTable(f, m)
    OBVIOUS
  <2> DEFINE g == [k \in 0 .. m + 1 |-> IF k = m + 1 THEN ReadPart(f[m], parts[m + 1]) ELSE f[k]]
  <2>2. m \in Nat /\ m + 1 \in Nat /\ m + 1 # 0 /\ m + 1 - 1 = m
    OBVIOUS
  <2>3. \A k \in 0 .. m : f[k] = IF k = 0 THEN r ELSE ReadPart(f[k - 1], parts[k])
    BY <2>1
  <2>4. ASSUME NEW k \in 0 .. m + 1
        PROVE  g[k] = IF k = 0 THEN r ELSE ReadPart(g[k - 1], parts[k])
    <3>1. k # 0 => k - 1 \in 0 .. m + 1 /\ k - 1 # m + 1
      BY <2>2
    <3>2. k # 0 => g[k - 1] = f[k - 1]
      BY <3>1
    <3>3. CASE k = m + 1
      <4>1. g[k] = ReadPart(f[m], parts[m + 1])
        BY <3>3
      <4> HIDE DEF g
      <4> QED
        BY <2>2, <3>2, <3>3, <4>1
    <3>4. CASE k # m + 1
      <4>1. g[k] = f[k] /\ k \in 0 .. m
        BY <2>2, <3>4
      <4> HIDE DEF g
      <4> QED
        BY <2>3, <3>2, <4>1
    <3> QED
      BY <3>3, <3>4
  <2>5. g = [k \in 0 .. m + 1 |-> g[k]]
    OBVIOUS
  <2> HIDE DEF g
  <2>6. isTable(g, m + 1)
    BY <2>4, <2>5
  <2> HIDE DEF isTable
  <2> QED
    BY <2>2, <2>6
<1>3. U = Nat
  <2>1. U \in SUBSET Nat
    BY DEF U
  <2> HIDE DEF U
  <2> QED
    BY <1>1, <1>2, <2>1, InductiveSet
<1>4. n \in U
  BY <1>3
<1> QED
  BY <1>4 DEF Reads

IsReading(after, r, parts) ==
    /\ after[0] = r
    /\ \A k \in 1 .. Len(parts) : after[k] = ReadPart(after[k - 1], parts[k])
    /\ ReadParts(r, parts) = after[Len(parts)]

LEMMA ReadingIs ==
    ASSUME NEW r, NEW parts, Len(parts) \in Nat
    PROVE  \E after : IsReading(after, r, parts)
<1> DEFINE n == Len(parts)
           After[k \in 0 .. n] == IF k = 0 THEN r ELSE ReadPart(After[k - 1], parts[k])
<1>1. ReadParts(r, parts) = After[n]
  BY DEF ReadParts
<1>2. n \in Nat
  OBVIOUS
<1> HIDE DEF n
<1>3. \E f : Reads(f, n, r, parts)
  BY <1>2, ReadingExists
<1>4. After = [k \in 0 .. n |-> IF k = 0 THEN r ELSE ReadPart(After[k - 1], parts[k])]
  BY <1>3 DEF After, Reads
<1> HIDE DEF After
<1>5. After[0] = r /\ \A k \in 1 .. n : After[k] = ReadPart(After[k - 1], parts[k])
  BY <1>2, <1>4
<1> QED
  BY <1>1, <1>5 DEF IsReading, n

\* A part finds its items in front, and is given the value wanted.
Matches(part, before, items, after, named, value) ==
    /\ items \in Seq(Items) /\ after \in Cells
    /\ before = Wire(items) \o after
    /\ Format(At(before, named), part) = Formats(items)
    /\ Value(At(before, named), part, Values(items)) = value
    /\ part = "size" => named.type \in Range(FilterType)

LEMMA MatchesRead ==
    ASSUME NEW part, NEW before, NEW items, NEW after, NEW named, NEW value,
           Matches(part, before, items, after, named, value)
    PROVE  ReadPart(At(before, named), part) = At(after, With(named, part, value))
<1> DEFINE r == At(before, named)
<1>1. /\ items \in Seq(Items) /\ after \in Cells
      /\ before = Wire(items) \o after
      /\ Format(r, part) = Formats(items)
      /\ Value(r, part, Values(items)) = value
      /\ part = "size" => named.type \in Range(FilterType)
  BY DEF Matches
<1>2. r = At(Wire(items) \o after, named)
  BY <1>1
<1> HIDE DEF r
<1>3. ReadPart(r, part) = At(after, With(named, part, Value(r, part, Values(items))))
  BY <1>1, <1>2, ReadsItems
<1> QED
  BY <1>1, <1>3 DEF r

\* Some parts that follow one another in others.
Within(p, parts, from, to) ==
    /\ from \in Nat /\ Len(p) \in Nat /\ to = from + Len(p) /\ to <= Len(parts)
    /\ \A k \in 1 .. Len(p) : p[k] = parts[from + k]
LEMMA PartsWithin ==
    ASSUME NEW after, NEW r, NEW parts, IsReading(after, r, parts), Len(parts) \in Nat,
           NEW p, NEW from, NEW to, Within(p, parts, from, to)
    PROVE  ReadParts(after[from], p) = after[to]
<1> USE DEF Within
<1> DEFINE n == Len(p)
<1>1. n \in Nat /\ 0 \in 0 .. n /\ n \in 0 .. n /\ from + 0 = from
  OBVIOUS
<1>2. PICK f : IsReading(f, after[from], p)
  BY ReadingIs
<1>3. f[0] = after[from] /\ \A k \in 1 .. n : f[k] = ReadPart(f[k - 1], p[k])
  BY <1>2 DEF IsReading
<1> DEFINE U == {k \in 0 .. n : f[k] = after[from + k]}
<1>4. 0 \in U
  BY <1>1, <1>3
<1>5. ASSUME NEW k \in 1 .. n, k - 1 \in U
      PROVE  k \in U
  <2> DEFINE i == from + k
  <2>1. i \in 1 .. Len(parts) /\ i - 1 = from + (k - 1) /\ k \in 0 .. n
    BY <1>1
  <2>2. after[i] = ReadPart(after[i - 1], parts[i])
    BY <2>1 DEF IsReading
  <2>3. f[k] = ReadPart(after[i - 1], parts[i])
    BY <1>3, <1>5, <2>1
  <2> QED
    BY <2>1, <2>2, <2>3
<1>6. \A k \in 0 .. n : k \in U
  <2> HIDE DEF U, n
  <2> QED
    BY <1>1, <1>4, <1>5, InductiveUpTo
<1>7. f[n] = after[from + n]
  BY <1>1, <1>6
<1> QED
  BY <1>2, <1>7 DEF IsReading

LEMMA PartWithin ==
    ASSUME NEW after, NEW r, NEW parts, IsReading(after, r, parts), NEW from \in Nat,
           from + 1 <= Len(parts), Len(parts) \in Nat
    PROVE  ReadPart(after[from], parts[from + 1]) = after[from + 1]
<1>1. from + 1 \in 1 .. Len(parts) /\ from + 1 - 1 = from
  OBVIOUS
<1> QED
  BY <1>1 DEF IsReading

-----------------------------------------------------------------------------
(* Single items as parts *)

WordParts ==
    {"msgOffset", "msgLimit", "matchMode", "rankingMode", "sortMode", "count", "idRange",
     "groupFunction", "maxMatches", "searchCutOff", "distRetryCount", "distRetryDelay",
     "maxQueryTime", "type", "documents"}

LEMMA WordPart ==
    ASSUME NEW r, NEW part \in WordParts, NEW n
    PROVE  Format(r, part) = Formats(<<W(n)>>) /\ Value(r, part, Values(<<W(n)>>)) = n
<1>1. Format(r, part) = <<2>>
  BY DEF WordParts, Format, TextParts
<1>2. Formats(<<W(n)>>) = <<2>> /\ Values(<<W(n)>>) = <<n>>
  BY DEF Formats, Values, W
<1>3. \A got : Value(r, part, got) = got[1]
  BY DEF WordParts, Value
<1> QED
  BY <1>1, <1>2, <1>3

LEMMA TextPart ==
    ASSUME NEW r, NEW part \in TextParts, NEW text
    PROVE  Format(r, part) = Formats(<<T(text)>>) /\ Value(r, part, Values(<<T(text)>>)) = text
<1>1. Format(r, part) = <<Text>>
  BY DEF TextParts, Format
<1>2. Formats(<<T(text)>>) = <<Text>> /\ Values(<<T(text)>>) = <<text>>
  BY DEF Formats, Values, T
<1>3. \A got : Value(r, part, got) = got[1]
  BY DEF TextParts, Value
<1> QED
  BY <1>1, <1>2, <1>3

LEMMA WordStep ==
    ASSUME NEW part \in WordParts, NEW n, <<W(n)>> \in Seq(Items), NEW after \in Cells,
           NEW before, before = Wire(<<W(n)>>) \o after, NEW named
    PROVE  Matches(part, before, <<W(n)>>, after, named, n)
<1>1. part # "size"
  BY DEF WordParts
<1> QED
  BY <1>1, WordPart DEF Matches

LEMMA TextStep ==
    ASSUME NEW part \in TextParts, NEW text, <<T(text)>> \in Seq(Items), NEW after \in Cells,
           NEW before, before = Wire(<<T(text)>>) \o after, NEW named
    PROVE  Matches(part, before, <<T(text)>>, after, named, text)
<1>1. part # "size"
  BY DEF TextParts
<1> QED
  BY <1>1, TextPart DEF Matches

\* What is left when one item after another is taken.
Lefts(items, tail) == Onward(Codes(items), tail)
LEMMA LeftIs ==
    ASSUME NEW items \in Seq(Items), NEW tail \in Cells
    PROVE  /\ Lefts(items, tail) \in [0 .. Len(items) -> Cells]
           /\ Lefts(items, tail)[0] = Wire(items) \o tail
           /\ Lefts(items, tail)[Len(items)] = tail
           /\ \A k \in 1 .. Len(items) :
                 /\ <<items[k]>> \in Seq(Items)
                 /\ Lefts(items, tail)[k - 1] = Wire(<<items[k]>>) \o Lefts(items, tail)[k]
<1> DEFINE codes == Codes(items)
           n == Len(items)
<1>1. /\ codes \in Seq(Cells) /\ Len(codes) = n
      /\ \A k \in 1 .. n : items[k] \in Items /\ codes[k] = ItemCode(items[k])
  BY CodesTyped
<1>2. \A k \in 1 .. n : <<items[k]>> \in Seq(Items) /\ codes[k] = Wire(<<items[k]>>)
  BY <1>1, WireOne, OneItem
<1> HIDE DEF codes, n
<1>3. /\ Onward(codes, tail) \in [0 .. n -> Cells]
      /\ Onward(codes, tail)[0] = FlattenSeq(codes) \o tail
      /\ Onward(codes, tail)[n] = tail
      /\ \A k \in 1 .. n : Onward(codes, tail)[k - 1] = codes[k] \o Onward(codes, tail)[k]
  BY <1>1, OnwardIs
<1> QED
  BY <1>2, <1>3 DEF codes, n, Lefts, Wire

\* Names are given to the values of parts.
Given(base, parts, values, named) ==
    /\ DOMAIN named = DOMAIN base \cup {parts[k] : k \in 1 .. Len(parts)}
    /\ \A k \in 1 .. Len(parts) : named[parts[k]] = values[k]
    /\ \A x \in DOMAIN base : (\A k \in 1 .. Len(parts) : parts[k] # x) => named[x] = base[x]

Single(part, item, value) ==
    \/ part \in WordParts /\ item = W(value)
    \/ part \in TextParts /\ item = T(value)

LEMMA SingleReads ==
    ASSUME NEW part, NEW item, NEW value, Single(part, item, value), <<item>> \in Seq(Items),
           NEW after \in Cells, NEW named
    PROVE  ReadPart(At(Wire(<<item>>) \o after, named), part) = At(after, With(named, part, value))
<1> DEFINE before == Wire(<<item>>) \o after
<1>1. before = Wire(<<item>>) \o after
  OBVIOUS
<1> HIDE DEF before
<1>2. CASE part \in WordParts /\ item = W(value)
  <2>1. Matches(part, before, <<W(value)>>, after, named, value)
    BY <1>1, <1>2, WordStep
  <2> QED
    BY <1>1, <1>2, <2>1, MatchesRead
<1>3. CASE part \in TextParts /\ item = T(value)
  <2>1. Matches(part, before, <<T(value)>>, after, named, value)
    BY <1>1, <1>3, TextStep
  <2> QED
    BY <1>1, <1>3, <2>1, MatchesRead
<1> QED
  BY <1>2, <1>3 DEF Single

\* Parts of one item each, with different names.
Singles(parts, items, values) ==
    /\ Len(items) = Len(parts)
    /\ \A k \in 1 .. Len(parts) : Single(parts[k], items[k], values[k])
    /\ \A k, l \in 1 .. Len(parts) : parts[k] = parts[l] => k = l
LEMMA SinglesRead ==
    ASSUME NEW parts, NEW items \in Seq(Items), NEW values, Singles(parts, items, values),
           NEW tail \in Cells, NEW base
    PROVE  \E named : /\ ReadParts(At(Wire(items) \o tail, base), parts) = At(tail, named)
                      /\ Given(base, parts, values, named)
<1> DEFINE n == Len(parts)
           left == Lefts(items, tail)
           r == At(Wire(items) \o tail, base)
<1>0. /\ Len(items) = n /\ n \in Nat
      /\ \A k \in 1 .. n : Single(parts[k], items[k], values[k])
      /\ \A k, l \in 1 .. n : parts[k] = parts[l] => k = l
  BY DEF Singles
<1>1. /\ left \in [0 .. n -> Cells] /\ left[0] = Wire(items) \o tail /\ left[n] = tail
      /\ \A k \in 1 .. n : <<items[k]>> \in Seq(Items) /\ left[k - 1] = Wire(<<items[k]>>) \o left[k]
  <2>1. /\ left \in [0 .. Len(items) -> Cells] /\ left[0] = Wire(items) \o tail /\ left[Len(items)] = tail
        /\ \A k \in 1 .. Len(items) :
              <<items[k]>> \in Seq(Items) /\ left[k - 1] = Wire(<<items[k]>>) \o left[k]
    BY LeftIs
  <2> HIDE DEF left
  <2> QED
    BY <1>0, <2>1
<1>2. PICK after : IsReading(after, r, parts)
  <2>1. Len(parts) \in Nat
    BY <1>0
  <2> QED
    BY <2>1, ReadingIs
<1>3. /\ after[0] = At(left[0], base)
      /\ \A k \in 1 .. n : after[k] = ReadPart(after[k - 1], parts[k])
      /\ ReadParts(r, parts) = after[n]
  BY <1>0, <1>1, <1>2 DEF IsReading
<1> HIDE DEF left, n
<1> DEFINE given(k, named) ==
             /\ after[k] = At(left[k], named)
             /\ DOMAIN named = DOMAIN base \cup {parts[j] : j \in 1 .. k}
             /\ \A j \in 1 .. k : named[parts[j]] = values[j]
             /\ \A x \in DOMAIN base : (\A j \in 1 .. k : parts[j] # x) => named[x] = base[x]
           U == {k \in 0 .. n : \E named : given(k, named)}
<1>4. 0 \in U
  <2>1. 1 .. 0 = {}
    OBVIOUS
  <2>2. DOMAIN base = DOMAIN base \cup {parts[j] : j \in 1 .. 0}
    BY <2>1
  <2>3. given(0, base)
    BY <1>3, <2>1, <2>2
  <2>4. 0 \in 0 .. n
    BY <1>0
  <2> HIDE DEF given
  <2> QED
    BY <2>3, <2>4
<1>5. ASSUME NEW k \in 1 .. n, k - 1 \in U
      PROVE  k \in U
  <2>1. PICK named : given(k - 1, named)
    BY <1>5
  <2> DEFINE new == With(named, parts[k], values[k])
  <2>2. k - 1 \in 0 .. n /\ k \in 0 .. n /\ left[k] \in Cells
    BY <1>0, <1>1
  <2>3. after[k] = At(left[k], new)
    <3>1. after[k] = ReadPart(At(Wire(<<items[k]>>) \o left[k], named), parts[k])
      BY <1>1, <1>3, <2>1
    <3>2. Single(parts[k], items[k], values[k]) /\ <<items[k]>> \in Seq(Items)
      BY <1>0, <1>1
    <3> QED
      BY <2>2, <3>1, <3>2, SingleReads
  <2>4. DOMAIN new = DOMAIN base \cup {parts[j] : j \in 1 .. k}
    <3>1. DOMAIN new = DOMAIN named \cup {parts[k]}
      BY DEF With
    <3>2. {parts[j] : j \in 1 .. k} = {parts[j] : j \in 1 .. k - 1} \cup {parts[k]}
      BY <1>0
    <3> HIDE DEF new
    <3> QED
      BY <2>1, <3>1, <3>2
  <2>5. ASSUME NEW j \in 1 .. k PROVE new[parts[j]] = values[j]
    <3>1. CASE j = k
      BY <3>1 DEF With
    <3>2. CASE j # k
      <4>1. j \in 1 .. k - 1 /\ j \in 1 .. n /\ parts[j] # parts[k]
        BY <1>0, <3>2
      <4>2. named[parts[j]] = values[j] /\ parts[j] \in DOMAIN named
        BY <2>1, <4>1
      <4> QED
        BY <4>1, <4>2 DEF With
    <3> QED
      BY <3>1, <3>2
  <2>6. ASSUME NEW x \in DOMAIN base, \A j \in 1 .. k : parts[j] # x
        PROVE  new[x] = base[x]
    <3>1. x \in DOMAIN named /\ named[x] = base[x] /\ x # parts[k]
      BY <2>1, <2>6
    <3> QED
      BY <3>1 DEF With
  <2> HIDE DEF new
  <2>7. given(k, new)
    BY <2>3, <2>4, <2>5, <2>6
  <2> HIDE DEF given
  <2> QED
    BY <2>2, <2>7
<1>6. \A k \in 0 .. n : k \in U
  <2> HIDE DEF U
  <2> QED
    BY <1>0, <1>4, <1>5, InductiveUpTo
<1>7. PICK named : given(n, named)
  <2> HIDE DEF given
  <2>1. n \in 0 .. n
    BY <1>0
  <2> QED
    BY <1>6, <2>1
<1>8. Given(base, parts, values, named)
  BY <1>7 DEF Given, n
<1>9. ReadParts(r, parts) = At(tail, named)
  BY <1>1, <1>3, <1>7
<1> QED
  BY <1>8, <1>9

-----------------------------------------------------------------------------
(* From the start to the filters *)

Knows(named, query, attrs, names) ==
    /\ names \subseteq DOMAIN named
    /\ \A s \in names : named[s] = IF s = "query" THEN query ELSE Told(attrs, s)

BeforeFilters2(query, attrs) ==
    <<W(attrs.sortMode), T(attrs.sortBy), T(query), W(0), T(attrs.indexes),
      W(1), L(0), L(0), W(Len(attrs.filters))>>

LEMMA FrontShape ==
    ASSUME NEW attrs, GoodAttrs(attrs), NEW query \in Texts
    PROVE  LET numbers == Words(<<attrs.msgOffset, attrs.msgLimit, attrs.matchMode, attrs.rankingMode>>)
               front == BeforeFilters2(query, attrs)
           IN /\ numbers \in Seq(Items) /\ Len(numbers) = 4
              /\ numbers = <<W(attrs.msgOffset), W(attrs.msgLimit), W(attrs.matchMode), W(attrs.rankingMode)>>
              /\ RankingExpr(attrs) \in Seq(Items)
              /\ front \in Seq(Items) /\ Len(front) = 9
              /\ BeforeFilters(query, attrs) = (numbers \o RankingExpr(attrs)) \o front
              /\ BeforeFilters(query, attrs) \in Seq(Items)
<1> DEFINE numbers == Words(<<attrs.msgOffset, attrs.msgLimit, attrs.matchMode, attrs.rankingMode>>)
           front == BeforeFilters2(query, attrs)
<1>1. /\ \A x \in NumberSettings : attrs[x] \in Numbers
      /\ \A x \in TextSettings : attrs[x] \in Texts
      /\ Len(attrs.filters) \in Nat /\ Len(attrs.filters) < WordLimit
  BY DEF GoodAttrs, GoodSettings
<1>2. /\ attrs.msgOffset \in Numbers /\ attrs.msgLimit \in Numbers /\ attrs.matchMode \in Numbers
      /\ attrs.rankingMode \in Numbers /\ attrs.sortMode \in Numbers
      /\ attrs.sortBy \in Texts /\ attrs.indexes \in Texts /\ attrs.rankingExpr \in Texts
  BY <1>1 DEF NumberSettings, TextSettings
<1>3. Len(attrs.filters) \in Numbers /\ 0 \in Numbers /\ 1 \in Numbers /\ 0 \in LongNumbers
  <2>1. Len(attrs.filters) \in Numbers
    BY <1>1, Limits
  <2>2. 0 \in 0 .. 1000 /\ 1 \in 0 .. 1000
    OBVIOUS
  <2>3. 0 \in Numbers /\ 1 \in Numbers
    BY <2>2, SmallNumbers
  <2> QED
    BY <2>1, <2>3, Limits
<1>4. numbers = <<W(attrs.msgOffset), W(attrs.msgLimit), W(attrs.matchMode), W(attrs.rankingMode)>>
  BY DEF Words
<1>5. numbers \in Seq(Items) /\ Len(numbers) = 4
  <2>1. /\ W(attrs.msgOffset) \in Items /\ W(attrs.msgLimit) \in Items
        /\ W(attrs.matchMode) \in Items /\ W(attrs.rankingMode) \in Items
    BY <1>2, ItemsAre
  <2>2. \A a, b, c, d \in Items : <<a, b, c, d>> \in Seq(Items) /\ Len(<<a, b, c, d>>) = 4
    OBVIOUS
  <2> HIDE DEF numbers
  <2> QED
    BY <1>4, <2>1, <2>2
<1>6. RankingExpr(attrs) \in Seq(Items)
  <2>1. T(attrs.rankingExpr) \in Items
    BY <1>2, ItemsAre
  <2> QED
    BY <2>1 DEF RankingExpr
<1>7. front \in Seq(Items) /\ Len(front) = 9
  <2>1. /\ W(attrs.sortMode) \in Items /\ T(attrs.sortBy) \in Items /\ T(query) \in Items
        /\ W(0) \in Items /\ T(attrs.indexes) \in Items /\ W(1) \in Items /\ L(0) \in Items
        /\ W(Len(attrs.filters)) \in Items
    BY <1>2, <1>3, ItemsAre
  <2> QED
    BY <2>1 DEF BeforeFilters2
<1>8. BeforeFilters(query, attrs) = (numbers \o RankingExpr(attrs)) \o front
  BY DEF BeforeFilters, BeforeFilters2
<1> HIDE DEF numbers, front
<1>9. BeforeFilters(query, attrs) \in Seq(Items)
  <2>1. numbers \o RankingExpr(attrs) \in Seq(Items)
    BY <1>5, <1>6, Together
  <2> QED
    BY <1>7, <1>8, <2>1, Together
<1> QED
  BY <1>4, <1>5, <1>6, <1>7, <1>8, <1>9 DEF numbers, front

\* The expression is written where it is read.
LEMMA ExprStep ==
    ASSUME NEW attrs, GoodAttrs(attrs), NEW named, named.rankingMode = attrs.rankingMode,
           named.commandVersion = attrs.commandVersion, NEW after \in Cells,
           NEW before, before = Wire(RankingExpr(attrs)) \o after, RankingExpr(attrs) \in Seq(Items)
    PROVE  Matches("rankingExpr", before, RankingExpr(attrs), after, named, Told(attrs, "rankingExpr"))
<1> DEFINE r == At(before, named)
           there == attrs.rankingMode = SPH_RANK_EXPR /\ attrs.commandVersion = VER_COMMAND_SEARCH_2_0_5
<1>1. attrs.commandVersion \in SearchVersions
  BY DEF GoodAttrs, GoodSettings
<1>2. RankingExpr(attrs) = IF there THEN <<T(attrs.rankingExpr)>> ELSE <<>>
  BY <1>1 DEF RankingExpr, SearchVersions, VER_COMMAND_SEARCH_2_0_5, VER_COMMAND_SEARCH_0_9_9
<1>3. HasRankingExpr(r) = there
  BY DEF HasRankingExpr, At
<1>4. Told(attrs, "rankingExpr") = IF there THEN attrs.rankingExpr ELSE <<>>
  BY DEF Told
<1>5. Format(r, "rankingExpr") = IF there THEN <<Text>> ELSE <<>>
  <2> HIDE DEF r, there
  <2> QED
    BY <1>3 DEF Format, TextParts
<1>6. Formats(RankingExpr(attrs)) = IF there THEN <<Text>> ELSE <<>>
  <2> HIDE DEF there
  <2>1. CASE there
    BY <1>2, <2>1 DEF Formats, T
  <2>2. CASE ~there
    BY <1>2, <2>2 DEF Formats
  <2> QED
    BY <2>1, <2>2
<1>7. Value(r, "rankingExpr", Values(RankingExpr(attrs))) = Told(attrs, "rankingExpr")
  <2> HIDE DEF r, there
  <2>1. CASE there
    <3>1. Values(RankingExpr(attrs)) = <<attrs.rankingExpr>> /\ <<attrs.rankingExpr>> # <<>>
      BY <1>2, <2>1 DEF Values, T
    <3>2. Value(r, "rankingExpr", <<attrs.rankingExpr>>) = attrs.rankingExpr
      BY <3>1 DEF Value
    <3> QED
      BY <1>4, <2>1, <3>1, <3>2
  <2>2. CASE ~there
    <3>1. Values(RankingExpr(attrs)) = <<>>
      BY <1>2, <2>2 DEF Values
    <3>2. Value(r, "rankingExpr", <<>>) = <<>>
      BY DEF Value
    <3> QED
      BY <1>4, <2>2, <3>1, <3>2
  <2> QED
    BY <2>1, <2>2
<1> HIDE DEF there
<1> QED
  BY <1>5, <1>6, <1>7 DEF Matches

LEMMA NothingStep ==
    ASSUME NEW named, named.count = 0, NEW after \in Cells
    PROVE  Matches("weights", after, <<>>, after, named, <<>>)
<1> DEFINE r == At(after, named)
<1>1. r.named.count = 0 /\ Len(r.rest) \in Nat
  BY DEF At, Cells
<1>2. Format(r, "weights") = <<>>
  <2>1. Times(0, <<2>>) = <<>>
    <3>1. [k \in 1 .. 0 |-> <<2>>] = <<>>
      OBVIOUS
    <3> QED
      BY <3>1 DEF Times, FlattenSeq
  <2>2. 2 * Len(<<2>>) * 0 = 0
    OBVIOUS
  <2> HIDE DEF r
  <2>3. Repeated(r, 0, <<2>>) = Times(0, <<2>>)
    BY <1>1, <2>2 DEF Repeated
  <2> QED
    BY <1>1, <2>1, <2>3 DEF Format, TextParts
<1>3. Formats(<<>>) = <<>> /\ Values(<<>>) = <<>>
  BY DEF Formats, Values
<1>4. Value(r, "weights", <<>>) = <<>>
  BY DEF Value
<1>5. Wire(<<>>) \o after = after /\ <<>> \in Seq(Items)
  <2>1. Codes(<<>>) = <<>>
    BY DEF Codes
  <2>2. Wire(<<>>) = <<>>
    BY <2>1 DEF Wire, FlattenSeq
  <2> QED
    BY <2>2, ConcatEmptySeq DEF Cells
<1> QED
  BY <1>2, <1>3, <1>4, <1>5 DEF Matches

LEMMA TwoItems == ASSUME NEW x, NEW y PROVE <<x>> \o <<y>> = <<x, y>>
<1> DEFINE a == <<x>>
           b == <<y>>
           c == a \o b
           d == <<x, y>>
<1>1. /\ a \in Seq({x, y}) /\ b \in Seq({x, y}) /\ Len(a) = 1 /\ Len(b) = 1
      /\ a[1] = x /\ b[1] = y
  OBVIOUS
<1>2. d \in Seq({x, y}) /\ Len(d) = 2 /\ d[1] = x /\ d[2] = y
  OBVIOUS
<1> HIDE DEF a, b, d
<1>3. /\ c \in Seq({x, y}) /\ Len(c) = Len(a) + Len(b)
      /\ \A j \in 1 .. Len(a) : c[j] = a[j]
      /\ \A j \in 1 .. Len(b) : c[Len(a) + j] = b[j]
  BY <1>1, ConcatIs
<1> HIDE DEF c
<1>4. Len(c) = 2 /\ c[1] = x /\ c[1 + 1] = y
  <2>1. 1 \in 1 .. Len(a) /\ 1 \in 1 .. Len(b)
    BY <1>1
  <2> QED
    BY <1>1, <1>3, <2>1
<1>5. c = d
  <2>1. \A i \in 1 .. 2 : c[i] = d[i]
    BY <1>2, <1>4
  <2> QED
    BY <1>2, <1>3, <1>4, <2>1, SeqEqual
<1> QED
  BY <1>5 DEF a, b, c, d

LEMMA IdsStep ==
    ASSUME NEW named, named.idRange = 1, NEW after \in Cells, <<L(0)>> \in Seq(Items),
           NEW before, before = Wire(<<L(0)>>) \o (Wire(<<L(0)>>) \o after)
    PROVE  Matches("ids", before, <<L(0), L(0)>>, after, named, <<0, 0>>)
<1> DEFINE r == At(before, named)
<1>1. Format(r, "ids") = <<4, 4>>
  <2>1. IdWidth(r) = 4
    BY DEF IdWidth, At
  <2> HIDE DEF r
  <2> QED
    BY <2>1 DEF Format, TextParts
<1>2. Formats(<<L(0), L(0)>>) = <<4, 4>> /\ Values(<<L(0), L(0)>>) = <<0, 0>>
  BY DEF Formats, Values, L
<1>3. Value(r, "ids", <<0, 0>>) = <<0, 0>>
  BY DEF Value
<1>4. before = Wire(<<L(0), L(0)>>) \o after
  <2>1. <<L(0)>> \o <<L(0)>> = <<L(0), L(0)>>
    BY TwoItems
  <2>2. Wire(<<L(0), L(0)>>) = Wire(<<L(0)>>) \o Wire(<<L(0)>>)
    BY <2>1, WireBoth
  <2>3. Wire(<<L(0)>>) \in Cells
    BY WireTyped
  <2> DEFINE a == Wire(<<L(0)>>)
  <2>4. a \in Cells /\ before = a \o (a \o after) /\ Wire(<<L(0), L(0)>>) = a \o a
    BY <2>2, <2>3
  <2> HIDE DEF a
  <2>5. (a \o a) \o after = a \o (a \o after)
    BY <2>4, Regrouped
  <2> QED
    BY <2>4, <2>5
<1>5. <<L(0), L(0)>> \in Seq(Items)
  <2>1. L(0) \in Items
    <3>1. <<L(0)>>[1] \in Items
      OBVIOUS
    <3> QED
      BY <3>1
  <2> QED
    BY <2>1
<1> QED
  BY <1>1, <1>2, <1>3, <1>4, <1>5 DEF Matches

LEMMA WireThen ==
    ASSUME NEW a \in Seq(Items), NEW b \in Seq(Items), NEW tail \in Cells
    PROVE  /\ Wire(a \o b) \o tail = Wire(a) \o (Wire(b) \o tail)
           /\ Wire(a) \o tail \in Cells /\ Wire(b) \o tail \in Cells
<1> DEFINE x == Wire(a)
           y == Wire(b)
<1>1. x \in Cells /\ y \in Cells /\ Wire(a \o b) = x \o y
  BY WireTyped, WireBoth
<1> HIDE DEF x, y
<1>2. (x \o y) \o tail = x \o (y \o tail)
  BY <1>1, Regrouped
<1>3. x \o tail \in Cells /\ y \o tail \in Cells
  BY <1>1, JoinTyped
<1> QED
  BY <1>1, <1>2, <1>3 DEF x, y

FrontNames ==
    {"query", "msgOffset", "msgLimit", "matchMode", "rankingMode", "rankingExpr", "sortMode",
     "sortBy", "indexes"}
Lists == {"commandVersion", "filters", "attributeOverrides"}

\* The parts in front of the filters are read as they were written.
LEMMA ReadsToFilters ==
    ASSUME NEW attrs, GoodAttrs(attrs), NEW query \in Texts, NEW tail \in Cells,
           NEW base, Lists \subseteq DOMAIN base, base.commandVersion = attrs.commandVersion
    PROVE  \E named :
              /\ ReadParts(At(Wire(BeforeFilters(query, attrs)) \o tail, base), PartsToFilters)
                   = At(tail, named)
              /\ Knows(named, query, attrs, FrontNames)
              /\ "count" \in DOMAIN named /\ named.count = Len(attrs.filters)
              /\ Lists \subseteq DOMAIN named /\ \A x \in Lists : named[x] = base[x]
<1> DEFINE expr == RankingExpr(attrs)
           i1 == <<W(attrs.msgOffset), W(attrs.msgLimit), W(attrs.matchMode), W(attrs.rankingMode)>>
           i2 == <<W(attrs.sortMode), T(attrs.sortBy), T(query), W(0)>>
           i3 == <<T(attrs.indexes), W(1)>>
           i4 == <<L(0), L(0)>>
           i5 == <<W(Len(attrs.filters))>>
           c13 == Wire(i5) \o tail
           c12 == Wire(i4) \o c13
           c10 == Wire(i3) \o c12
           c5 == Wire(i2) \o c10
           c4 == Wire(expr) \o c5
           c0 == Wire(i1) \o c4
<1>1. /\ expr \in Seq(Items) /\ i1 \in Seq(Items) /\ Len(i1) = 4
      /\ BeforeFilters(query, attrs) = (i1 \o expr) \o BeforeFilters2(query, attrs)
      /\ BeforeFilters2(query, attrs) \in Seq(Items) /\ Len(BeforeFilters2(query, attrs)) = 9
  BY FrontShape
<1>2. BeforeFilters2(query, attrs) = i2 \o (i3 \o (i4 \o i5))
  BY DEF BeforeFilters2
<1>3. /\ i2 \in Seq(Items) /\ Len(i2) = 4 /\ i3 \in Seq(Items) /\ Len(i3) = 2
      /\ i4 \in Seq(Items) /\ i5 \in Seq(Items) /\ <<L(0)>> \in Seq(Items)
      /\ i5 = <<W(Len(attrs.filters))>> /\ i4 = <<L(0)>> \o <<L(0)>>
  <2> DEFINE b == BeforeFilters2(query, attrs)
  <2>1. \A k \in 1 .. 9 : b[k] \in Items
    <3> HIDE DEF b
    <3>1. b \in Seq(Items) /\ Len(b) = 9
      BY <1>1 DEF b
    <3>2. \A k \in 1 .. Len(b) : b[k] \in Items
      BY <3>1, ElementOfSeq
    <3> QED
      BY <3>1, <3>2
  <2>2. /\ b[1] = W(attrs.sortMode) /\ b[2] = T(attrs.sortBy) /\ b[3] = T(query) /\ b[4] = W(0)
        /\ b[5] = T(attrs.indexes) /\ b[6] = W(1) /\ b[7] = L(0) /\ b[9] = W(Len(attrs.filters))
    BY DEF BeforeFilters2
  <2> HIDE DEF b
  <2>3. /\ W(attrs.sortMode) \in Items /\ T(attrs.sortBy) \in Items /\ T(query) \in Items
        /\ W(0) \in Items /\ T(attrs.indexes) \in Items /\ W(1) \in Items /\ L(0) \in Items
        /\ W(Len(attrs.filters)) \in Items
    BY <2>1, <2>2
  <2>4. i4 = <<L(0)>> \o <<L(0)>>
    BY TwoItems
  <2> QED
    BY <2>3, <2>4
<1> DEFINE r == At(Wire(BeforeFilters(query, attrs)) \o tail, base)
           parts == PartsToFilters
<1> HIDE DEF i1, i2, i3, i4, i5, expr
<1>4. c13 \in Cells /\ c12 \in Cells /\ c10 \in Cells /\ c5 \in Cells /\ c4 \in Cells
  <2>1. c13 \in Cells
    BY <1>3, WireTyped, JoinTyped
  <2> HIDE DEF c13
  <2>2. c12 \in Cells
    BY <1>3, <2>1, WireTyped, JoinTyped
  <2> HIDE DEF c12
  <2>3. c10 \in Cells
    BY <1>3, <2>2, WireTyped, JoinTyped
  <2> HIDE DEF c10
  <2>4. c5 \in Cells
    BY <1>3, <2>3, WireTyped, JoinTyped
  <2> HIDE DEF c5
  <2>5. c4 \in Cells
    BY <1>1, <2>4, WireTyped, JoinTyped
  <2> QED
    BY <2>1, <2>2, <2>3, <2>4, <2>5
<1>5. r = At(c0, base)
  <2> DEFINE g4 == i4 \o i5
             g3 == i3 \o g4
             g2 == i2 \o g3
             g1 == i1 \o expr
  <2>1. g4 \in Seq(Items) /\ g1 \in Seq(Items)
    BY <1>1, <1>3, Together
  <2>2. Wire(g4) \o tail = c12
    BY <1>3, WireThen, ZenonT(30)
  <2> HIDE DEF g4
  <2> HIDE DEF c12
  <2>3. g3 \in Seq(Items)
    BY <1>3, <2>1, Together
  <2>4. Wire(g3) \o tail = c10
    <3>0. i3 \in Seq(Items) /\ g4 \in Seq(Items)
      BY <1>3, <2>1
    <3>1. Wire(i3 \o g4) \o tail = Wire(i3) \o (Wire(g4) \o tail)
      BY <3>0, WireThen
    <3> QED
      BY <2>2, <3>1
  <2> HIDE DEF g3, c10
  <2>5. g2 \in Seq(Items)
    BY <1>3, <2>3, Together
  <2>6. Wire(g2) \o tail = c5
    <3>0. i2 \in Seq(Items) /\ g3 \in Seq(Items)
      BY <1>3, <2>3
    <3>1. Wire(i2 \o g3) \o tail = Wire(i2) \o (Wire(g3) \o tail)
      BY <3>0, WireThen
    <3> QED
      BY <2>4, <3>1
  <2> HIDE DEF g2
  <2>7. Wire(g1) \o c5 = c0
    <3> HIDE DEF c5
    <3> QED
      BY <1>1, <1>4, WireThen
  <2> HIDE DEF g1, c0, c5
  <2>8. Wire(g1 \o g2) \o tail = c0
    BY <2>1, <2>5, <2>6, <2>7, WireThen
  <2>9. BeforeFilters(query, attrs) = g1 \o g2
    BY <1>1, <1>2 DEF g1, g2, g3, g4
  <2> QED
    BY <2>8, <2>9
<1>6. PICK after : IsReading(after, r, parts)
  BY ReadingIs DEF PartsToFilters
<1>7. after[0] = At(c0, base) /\ ReadParts(r, parts) = after[14] /\ Len(parts) = 14
  BY <1>5, <1>6 DEF IsReading, PartsToFilters
<1> DEFINE p1 == <<"msgOffset", "msgLimit", "matchMode", "rankingMode">>
           p2 == <<"sortMode", "sortBy", "query", "count">>
           p3 == <<"indexes", "idRange">>
           p4 == <<"count">>
           v1 == <<attrs.msgOffset, attrs.msgLimit, attrs.matchMode, attrs.rankingMode>>
           v2 == <<attrs.sortMode, attrs.sortBy, query, 0>>
           v3 == <<attrs.indexes, 1>>
           v4 == <<Len(attrs.filters)>>
<1>8. /\ ReadParts(after[0], p1) = after[4] /\ ReadPart(after[4], "rankingExpr") = after[5]
      /\ ReadParts(after[5], p2) = after[9] /\ ReadPart(after[9], "weights") = after[10]
      /\ ReadParts(after[10], p3) = after[12] /\ ReadPart(after[12], "ids") = after[13]
      /\ ReadParts(after[13], p4) = after[14]
  <2>1. /\ parts[5] = "rankingExpr" /\ parts[10] = "weights" /\ parts[13] = "ids"
        /\ \A k \in 1 .. 4 : p1[k] = parts[0 + k] /\ p2[k] = parts[5 + k]
        /\ \A k \in 1 .. 2 : p3[k] = parts[10 + k]
        /\ \A k \in 1 .. 1 : p4[k] = parts[13 + k]
    BY DEF PartsToFilters
  <2>2. Len(p1) = 4 /\ Len(p2) = 4 /\ Len(p3) = 2 /\ Len(p4) = 1
    OBVIOUS
  <2>3. /\ Within(p1, parts, 0, 4) /\ Within(p2, parts, 5, 9) /\ Within(p3, parts, 10, 12)
        /\ Within(p4, parts, 13, 14)
    BY <1>7, <2>1, <2>2 DEF Within
  <2> HIDE DEF p1, p2, p3, p4, parts, r
  <2>4. Len(parts) \in Nat
    BY <1>7
  <2>5. /\ ReadParts(after[0], p1) = after[4] /\ ReadParts(after[5], p2) = after[9]
        /\ ReadParts(after[10], p3) = after[12] /\ ReadParts(after[13], p4) = after[14]
    BY <1>6, <2>3, <2>4, PartsWithin
  <2>7. ASSUME NEW from \in 0 .. 13
        PROVE  ReadPart(after[from], parts[from + 1]) = after[from + 1]
    <3>1. from \in Nat /\ from + 1 <= Len(parts)
      BY <1>7
    <3> QED
      BY <1>6, <2>4, <3>1, PartWithin
  <2>8. /\ ReadPart(after[4], parts[4 + 1]) = after[4 + 1]
        /\ ReadPart(after[9], parts[9 + 1]) = after[9 + 1]
        /\ ReadPart(after[12], parts[12 + 1]) = after[12 + 1]
    BY <2>7
  <2> QED
    BY <2>1, <2>5, <2>8
<1> HIDE DEF r, parts, c4, c5, c10, c12, c13
<1>9. PICK n1 : after[4] = At(c4, n1) /\ Given(base, p1, v1, n1)
  <2>1. Len(p1) = 4 /\ \A k, l \in 1 .. 4 : p1[k] = p1[l] => k = l
    OBVIOUS
  <2>2. \A k \in 1 .. 4 : Single(p1[k], i1[k], v1[k])
    BY DEF Single, WordParts, i1
  <2> HIDE DEF p1, v1
  <2>4. Singles(p1, i1, v1)
    BY <1>1, <1>3, <2>1, <2>2 DEF Singles
  <2>3. \E named : ReadParts(At(Wire(i1) \o c4, base), p1) = At(c4, named) /\ Given(base, p1, v1, named)
    BY <1>1, <1>4, <2>4, SinglesRead
  <2> QED
    BY <1>7, <1>8, <2>3
<1>10. after[5] = At(c5, With(n1, "rankingExpr", Told(attrs, "rankingExpr")))
  <2>1. n1["rankingMode"] = attrs.rankingMode /\ n1["commandVersion"] = attrs.commandVersion
    <3>1. p1[4] = "rankingMode" /\ v1[4] = attrs.rankingMode /\ 4 \in 1 .. Len(p1)
      OBVIOUS
    <3>2. \A k \in 1 .. Len(p1) : p1[k] # "commandVersion"
      OBVIOUS
    <3>3. "commandVersion" \in DOMAIN base
      BY DEF Lists
    <3> HIDE DEF p1, v1
    <3> QED
      BY <1>9, <3>1, <3>2, <3>3 DEF Given
  <2>2. Matches("rankingExpr", c4, expr, c5, n1, Told(attrs, "rankingExpr"))
    BY <1>1, <1>4, <2>1, ExprStep DEF expr, c4
  <2> QED
    BY <1>8, <1>9, <2>2, MatchesRead
<1> DEFINE n2 == With(n1, "rankingExpr", Told(attrs, "rankingExpr"))
<1> HIDE DEF n2
<1>11. PICK n3 : after[9] = At(c10, n3) /\ Given(n2, p2, v2, n3)
  <2>1. Len(p2) = 4 /\ \A k, l \in 1 .. 4 : p2[k] = p2[l] => k = l
    OBVIOUS
  <2>2. \A k \in 1 .. 4 : Single(p2[k], i2[k], v2[k])
    BY DEF Single, WordParts, TextParts, i2
  <2> HIDE DEF p2, v2
  <2>4. Singles(p2, i2, v2)
    BY <1>1, <1>3, <2>1, <2>2 DEF Singles
  <2>3. \E named : ReadParts(At(Wire(i2) \o c10, n2), p2) = At(c10, named) /\ Given(n2, p2, v2, named)
    BY <1>3, <1>4, <2>4, SinglesRead
  <2> QED
    BY <1>8, <1>10, <2>3 DEF n2, c5
<1>12. after[10] = At(c10, With(n3, "weights", <<>>))
  <2>1. n3["count"] = 0
    <3>1. p2[4] = "count" /\ v2[4] = 0 /\ 4 \in 1 .. Len(p2)
      OBVIOUS
    <3> HIDE DEF p2, v2
    <3> QED
      BY <1>11, <3>1 DEF Given
  <2>2. Matches("weights", c10, <<>>, c10, n3, <<>>)
    BY <1>4, <2>1, NothingStep
  <2> QED
    BY <1>8, <1>11, <2>2, MatchesRead
<1> DEFINE n4 == With(n3, "weights", <<>>)
<1> HIDE DEF n4
<1>13. PICK n5 : after[12] = At(c12, n5) /\ Given(n4, p3, v3, n5)
  <2>1. Len(p3) = 2 /\ \A k, l \in 1 .. 2 : p3[k] = p3[l] => k = l
    OBVIOUS
  <2>2. \A k \in 1 .. 2 : Single(p3[k], i3[k], v3[k])
    BY DEF Single, WordParts, TextParts, i3
  <2> HIDE DEF p3, v3
  <2>4. Singles(p3, i3, v3)
    BY <1>1, <1>3, <2>1, <2>2 DEF Singles
  <2>3. \E named : ReadParts(At(Wire(i3) \o c12, n4), p3) = At(c12, named) /\ Given(n4, p3, v3, named)
    BY <1>3, <1>4, <2>4, SinglesRead
  <2> QED
    BY <1>8, <1>12, <2>3 DEF n4, c10
<1>14. after[13] = At(c13, With(n5, "ids", <<0, 0>>))
  <2>1. n5["idRange"] = 1
    <3>1. p3[2] = "idRange" /\ v3[2] = 1 /\ 2 \in 1 .. Len(p3)
      OBVIOUS
    <3> HIDE DEF p3, v3
    <3> QED
      BY <1>13, <3>1 DEF Given
  <2>2. c12 = Wire(<<L(0)>>) \o (Wire(<<L(0)>>) \o c13)
    BY <1>3, <1>4, WireThen, ZenonT(30) DEF c12
  <2>3. Matches("ids", c12, <<L(0), L(0)>>, c13, n5, <<0, 0>>)
    BY <1>3, <1>4, <2>1, <2>2, IdsStep
  <2> QED
    BY <1>8, <1>13, <2>3, MatchesRead
<1> DEFINE n6 == With(n5, "ids", <<0, 0>>)
<1> HIDE DEF n6
<1>15. PICK n7 : after[14] = At(tail, n7) /\ Given(n6, p4, v4, n7)
  <2>1. Len(p4) = 1 /\ \A k, l \in 1 .. 1 : p4[k] = p4[l] => k = l
    OBVIOUS
  <2>2. \A k \in 1 .. 1 : Single(p4[k], i5[k], v4[k])
    BY DEF Single, WordParts, TextParts, i5
  <2>3. Len(i5) = 1
    BY <1>3
  <2> HIDE DEF p4, v4
  <2>4. Singles(p4, i5, v4)
    BY <2>1, <2>2, <2>3 DEF Singles
  <2>5. \E named : ReadParts(At(Wire(i5) \o tail, n6), p4) = At(tail, named) /\ Given(n6, p4, v4, named)
    BY <1>3, <2>4, SinglesRead
  <2> QED
    BY <1>8, <1>14, <2>5 DEF n6, c13
<1>16. /\ {"msgOffset", "msgLimit", "matchMode", "rankingMode"} \cup Lists \subseteq DOMAIN n1
       /\ n1["msgOffset"] = attrs.msgOffset /\ n1["msgLimit"] = attrs.msgLimit
       /\ n1["matchMode"] = attrs.matchMode /\ n1["rankingMode"] = attrs.rankingMode
       /\ \A x \in Lists : n1[x] = base[x]
  <2>1. /\ {p1[k] : k \in 1 .. Len(p1)} = {"msgOffset", "msgLimit", "matchMode", "rankingMode"}
        /\ \A k \in 1 .. Len(p1) : p1[k] \notin Lists
        /\ p1[1] = "msgOffset" /\ p1[2] = "msgLimit" /\ p1[3] = "matchMode" /\ p1[4] = "rankingMode"
        /\ v1[1] = attrs.msgOffset /\ v1[2] = attrs.msgLimit /\ v1[3] = attrs.matchMode
        /\ v1[4] = attrs.rankingMode
        /\ 1 \in 1 .. Len(p1) /\ 2 \in 1 .. Len(p1) /\ 3 \in 1 .. Len(p1) /\ 4 \in 1 .. Len(p1)
    BY DEF Lists
  <2> HIDE DEF p1, v1
  <2> QED
    BY <1>9, <2>1, ZenonT(30) DEF Given
<1>17. /\ DOMAIN n1 \cup {"rankingExpr"} = DOMAIN n2
       /\ n2["rankingExpr"] = Told(attrs, "rankingExpr")
       /\ \A x \in DOMAIN n1 : x # "rankingExpr" => n2[x] = n1[x]
  BY DEF n2, With
<1>18. /\ DOMAIN n2 \cup {"sortMode", "sortBy", "query", "count"} = DOMAIN n3
       /\ n3["sortMode"] = attrs.sortMode /\ n3["sortBy"] = attrs.sortBy /\ n3["query"] = query
       /\ \A x \in DOMAIN n2 : x \notin {"sortMode", "sortBy", "query", "count"} => n3[x] = n2[x]
  <2>1. /\ {p2[k] : k \in 1 .. Len(p2)} = {"sortMode", "sortBy", "query", "count"}
        /\ p2[1] = "sortMode" /\ p2[2] = "sortBy" /\ p2[3] = "query"
        /\ v2[1] = attrs.sortMode /\ v2[2] = attrs.sortBy /\ v2[3] = query
        /\ 1 \in 1 .. Len(p2) /\ 2 \in 1 .. Len(p2) /\ 3 \in 1 .. Len(p2)
    OBVIOUS
  <2> HIDE DEF p2, v2
  <2> QED
    BY <1>11, <2>1, ZenonT(30) DEF Given
<1>19. /\ DOMAIN n3 \cup {"weights"} = DOMAIN n4
       /\ \A x \in DOMAIN n3 : x # "weights" => n4[x] = n3[x]
  BY DEF n4, With
<1>20. /\ DOMAIN n4 \cup {"indexes", "idRange"} = DOMAIN n5
       /\ n5["indexes"] = attrs.indexes
       /\ \A x \in DOMAIN n4 : x \notin {"indexes", "idRange"} => n5[x] = n4[x]
  <2>1. /\ {p3[k] : k \in 1 .. Len(p3)} = {"indexes", "idRange"}
        /\ p3[1] = "indexes" /\ v3[1] = attrs.indexes /\ 1 \in 1 .. Len(p3)
    OBVIOUS
  <2> HIDE DEF p3, v3
  <2> QED
    BY <1>13, <2>1 DEF Given
<1>21. /\ DOMAIN n5 \cup {"ids"} = DOMAIN n6
       /\ \A x \in DOMAIN n5 : x # "ids" => n6[x] = n5[x]
  BY DEF n6, With
<1>22. /\ DOMAIN n6 \cup {"count"} = DOMAIN n7
       /\ n7["count"] = Len(attrs.filters)
       /\ \A x \in DOMAIN n6 : x # "count" => n7[x] = n6[x]
  <2>1. /\ {p4[k] : k \in 1 .. Len(p4)} = {"count"}
        /\ p4[1] = "count" /\ v4[1] = Len(attrs.filters) /\ 1 \in 1 .. Len(p4)
    OBVIOUS
  <2> HIDE DEF p4, v4
  <2> QED
    BY <1>15, <2>1 DEF Given
<1> HIDE DEF p1, p2, p3, p4, v1, v2, v3, v4
<1>23. /\ FrontNames \subseteq DOMAIN n7 /\ "count" \in DOMAIN n7 /\ Lists \subseteq DOMAIN n7
  BY <1>16, <1>17, <1>18, <1>19, <1>20, <1>21, <1>22 DEF FrontNames
<1>24. \A x \in Lists : n7[x] = base[x]
  <2>1. Lists \cap {"rankingExpr", "sortMode", "sortBy", "query", "count", "weights", "indexes",
                    "idRange", "ids"} = {}
    BY DEF Lists
  <2> QED
    BY <1>16, <1>17, <1>18, <1>19, <1>20, <1>21, <1>22, <2>1
<1>25. /\ n7["msgOffset"] = attrs.msgOffset /\ n7["msgLimit"] = attrs.msgLimit
       /\ n7["matchMode"] = attrs.matchMode /\ n7["rankingMode"] = attrs.rankingMode
       /\ n7["rankingExpr"] = Told(attrs, "rankingExpr") /\ n7["sortMode"] = attrs.sortMode
       /\ n7["sortBy"] = attrs.sortBy /\ n7["query"] = query /\ n7["indexes"] = attrs.indexes
  BY <1>16, <1>17, <1>18, <1>19, <1>20, <1>21, <1>22
<1>26. Knows(n7, query, attrs, FrontNames)
  <2>1. \A s \in FrontNames \ {"query", "rankingExpr"} : Told(attrs, s) = attrs[s]
    BY DEF FrontNames, Told
  <2> QED
    BY <1>23, <1>25, <2>1 DEF Knows, FrontNames
<1>27. ReadParts(r, parts) = At(tail, n7)
  BY <1>7, <1>15
<1>28. /\ ReadParts(At(Wire(BeforeFilters(query, attrs)) \o tail, base), PartsToFilters) = At(tail, n7)
       /\ Knows(n7, query, attrs, FrontNames)
       /\ "count" \in DOMAIN n7 /\ n7.count = Len(attrs.filters)
       /\ Lists \subseteq DOMAIN n7 /\ \A x \in Lists : n7[x] = base[x]
  BY <1>22, <1>23, <1>24, <1>26, <1>27 DEF r, parts
<1> QED
  BY <1>28

\* An element of rows of the same length stands in one of them.
LEMMA InRow ==
    ASSUME NEW n \in Nat, NEW m \in {1, 2, 4}, NEW i \in 1 .. m * n
    PROVE  \E k \in 1 .. n, j \in 1 .. m : i = m * (k - 1) + j
<1>1. CASE m = 1
  <2>1. i \in 1 .. n /\ 1 \in 1 .. m /\ i = m * (i - 1) + 1
    BY <1>1
  <2> QED
    BY <2>1
<1>2. CASE m = 2
  <2> DEFINE k == (i + 1) \div 2
  <2>1. i = 2 * k \/ i = 2 * k - 1
    OBVIOUS
  <2>2. k \in Int
    OBVIOUS
  <2> HIDE DEF k
  <2>3. k \in 1 .. n /\ (i = m * (k - 1) + 1 \/ i = m * (k - 1) + 2) /\ 1 \in 1 .. m /\ 2 \in 1 .. m
    BY <1>2, <2>1, <2>2
  <2> QED
    BY <2>3
<1>3. CASE m = 4
  <2> DEFINE k == (i + 3) \div 4
  <2>1. i = 4 * k \/ i = 4 * k - 1 \/ i = 4 * k - 2 \/ i = 4 * k - 3
    OBVIOUS
  <2>2. k \in Int
    OBVIOUS
  <2> HIDE DEF k
  <2>3. /\ k \in 1 .. n
        /\ i = m * (k - 1) + 1 \/ i = m * (k - 1) + 2 \/ i = m * (k - 1) + 3 \/ i = m * (k - 1) + 4
        /\ 1 \in 1 .. m /\ 2 \in 1 .. m /\ 3 \in 1 .. m /\ 4 \in 1 .. m
    BY <1>3, <2>1, <2>2
  <2> QED
    BY <2>3
<1> QED
  BY <1>1, <1>2, <1>3

\* Items in rows, each of the widths of a format.
InRows(items, n, format) ==
    /\ Len(items) = Len(format) * n
    /\ \A k \in 1 .. n : \A j \in 1 .. Len(format) :
          items[Len(format) * (k - 1) + j].width = format[j]

LEMMA RepeatedIs ==
    ASSUME NEW items \in Seq(Items), NEW n \in Nat, NEW format \in Seq(Nat),
           Len(format) \in {1, 2, 4}, InRows(items, n, format), NEW tail \in Cells, NEW named
    PROVE  Repeated(At(Wire(items) \o tail, named), n, format) = Formats(items)
<1> DEFINE m == Len(format)
           ss == [k \in 1 .. n |-> format]
           flat == FlattenSeq(ss)
<1>1. m \in {1, 2, 4} /\ m \in Nat /\ Len(items) = m * n
  BY DEF InRows
<1>2. ss \in Seq(Seq(Nat)) /\ Len(ss) = n /\ \A k \in 1 .. n : ss[k] = format
  <2>1. \A k \in 1 .. n : format \in Seq(Nat)
    OBVIOUS
  <2> QED
    BY <2>1, IsASeq
<1>3. /\ flat \in Seq(Nat) /\ Len(flat) = m * n
      /\ \A k \in 1 .. n : \A j \in 1 .. m : flat[m * (k - 1) + j] = format[j]
  <2>1. \A k \in 1 .. Len(ss) : Len(ss[k]) = m
    BY <1>2
  <2> HIDE DEF ss, m
  <2>2. /\ FlattenSeq(ss) \in Seq(Nat) /\ Len(FlattenSeq(ss)) = m * Len(ss)
        /\ \A k \in 1 .. Len(ss) : \A j \in 1 .. m :
              FlattenSeq(ss)[m * (k - 1) + j] = ss[k][j]
    <3>1. m \in Nat /\ ss \in Seq(Seq(Nat))
      BY <1>1, <1>2
    <3> QED
      BY <2>1, <3>1, RowsPlaced, ZenonT(30)
  <2> QED
    BY <1>2, <2>2
<1>4. /\ Formats(items) \in Seq(Nat) /\ Len(Formats(items)) = m * n
      /\ \A i \in 1 .. m * n : Formats(items)[i] = items[i].width
  BY <1>1, FormatsTyped DEF Widths
<1>5. ASSUME NEW i \in 1 .. m * n
      PROVE  flat[i] = Formats(items)[i]
  <2>1. PICK k \in 1 .. n, j \in 1 .. m : i = m * (k - 1) + j
    <3> HIDE DEF m
    <3> QED
      BY <1>1, InRow, ZenonT(30)
  <2>2. items[m * (k - 1) + j].width = format[j]
    BY DEF InRows
  <2>3. flat[m * (k - 1) + j] = format[j]
    BY <1>3
  <2> HIDE DEF m, flat
  <2> QED
    BY <1>4, <2>1, <2>2, <2>3
<1>6. flat = Formats(items)
  <2> HIDE DEF flat, m
  <2> QED
    BY <1>3, <1>4, <1>5, SeqEqual
<1>7. 2 * m * n <= Len(Wire(items) \o tail)
  <2>1. Len(Wire(items)) >= 2 * Len(items) /\ Wire(items) \in Cells
    BY WireLength, WireTyped
  <2>2. Len(Wire(items) \o tail) = Len(Wire(items)) + Len(tail) /\ Len(tail) \in Nat
    BY <2>1, JoinTyped
  <2>3. 2 * m * n = 2 * Len(items)
    BY <1>1
  <2>4. Len(items) \in Nat /\ Len(Wire(items)) \in Nat
    BY <2>1
  <2> HIDE DEF m
  <2> QED
    BY <2>1, <2>2, <2>3, <2>4
<1> QED
  BY <1>6, <1>7 DEF Repeated, Times, At

-----------------------------------------------------------------------------
(* The filters *)

\* What is read of a filter beside the filter.
FilterNames == {"attrName", "type", "size", "values"}
\* What is known stays but the names given anew.
Keeps(named, base, names) ==
    /\ DOMAIN base \subseteq DOMAIN named
    /\ \A x \in DOMAIN base \ names : named[x] = base[x]

LEMMA KeepsWith ==
    ASSUME NEW base, NEW names, NEW named, Keeps(named, base, names), NEW x \in names, NEW value
    PROVE  Keeps(With(named, x, value), base, names)
BY DEF Keeps, With

\* The names of the parts are among those that change.
LEMMA KeepsGiven ==
    ASSUME NEW base, NEW names, NEW named, Keeps(named, base, names),
           NEW parts, \A k \in 1 .. Len(parts) : parts[k] \in names,
           NEW values, NEW new, Given(named, parts, values, new)
    PROVE  Keeps(new, base, names)
<1>1. DOMAIN base \subseteq DOMAIN named /\ \A x \in DOMAIN base \ names : named[x] = base[x]
  BY DEF Keeps
<1>2. DOMAIN named \subseteq DOMAIN new
  BY DEF Given
<1>3. ASSUME NEW x \in DOMAIN base \ names PROVE new[x] = base[x]
  <2>1. \A k \in 1 .. Len(parts) : parts[k] # x
    OBVIOUS
  <2>2. x \in DOMAIN named
    BY <1>1
  <2> QED
    BY <1>1, <2>1, <2>2 DEF Given
<1> QED
  BY <1>1, <1>2, <1>3 DEF Keeps

LEMMA KeepsAll == ASSUME NEW base, NEW names PROVE Keeps(base, base, names)
BY DEF Keeps

LEMMA SizeStep ==
    ASSUME NEW f \in FilterValues, NEW named, named.type = FilterType[f.kind], NEW after \in Cells,
           NEW before, before = Wire(FilterSize(f)) \o after
    PROVE  Matches("size", before, FilterSize(f), after, named, Len(f.values))
<1> DEFINE r == At(before, named)
           n == Len(f.values)
<1>1. FilterSize(f) \in Seq(Items) /\ (f.kind # "values" => n = 2)
  BY DumpShape
<1>2. f.kind \in {"range", "values", "floatrange"}
  BY DEF FilterValues
<1>3. named.type \in Range(FilterType)
  BY <1>2 DEF FilterType, Range
<1>4. IsEnum(r) <=> f.kind = "values"
  BY <1>2 DEF IsEnum, At, FilterType
<1> HIDE DEF r, n
<1>5. Format(r, "size") = Formats(FilterSize(f)) /\ Value(r, "size", Values(FilterSize(f))) = n
  <2>1. CASE f.kind = "values"
    <3>1. FilterSize(f) = <<W(n)>>
      BY <2>1 DEF FilterSize, n
    <3>2. Formats(<<W(n)>>) = <<2>> /\ Values(<<W(n)>>) = <<n>>
      BY DEF Formats, Values, W
    <3>3. Format(r, "size") = <<2>>
      BY <1>4, <2>1 DEF Format, TextParts
    <3>4. Value(r, "size", <<n>>) = n
      <4>1. <<n>> # <<>>
        OBVIOUS
      <4> QED
        BY <4>1 DEF Value
    <3> QED
      BY <3>1, <3>2, <3>3, <3>4
  <2>2. CASE f.kind # "values"
    <3>1. FilterSize(f) = <<>> /\ n = 2
      BY <1>1, <2>2 DEF FilterSize
    <3>2. Formats(<<>>) = <<>> /\ Values(<<>>) = <<>>
      BY DEF Formats, Values
    <3>3. Format(r, "size") = <<>>
      BY <1>4, <2>2 DEF Format, TextParts
    <3>4. Value(r, "size", <<>>) = 2
      BY DEF Value
    <3> QED
      BY <3>1, <3>2, <3>3, <3>4
  <2> QED
    BY <2>1, <2>2
<1> QED
  BY <1>1, <1>3, <1>5 DEF Matches, r, n

LEMMA NumbersStep ==
    ASSUME NEW f \in FilterValues, NEW named, named.type = FilterType[f.kind],
           named.size = Len(f.values), NEW after \in Cells,
           NEW before, before = Wire(FilterNumbers(f)) \o after
    PROVE  Matches("values", before, FilterNumbers(f), after, named, f.values)
<1> DEFINE r == At(before, named)
           n == Len(f.values)
           items == FilterNumbers(f)
           w == FilterWidth(r)
<1>1. items \in Seq(Items) /\ Len(items) = n /\ n \in Nat
  BY DumpShape
<1>2. f.kind \in {"range", "values", "floatrange"} /\ f.values \in Seq(LongNumbers)
  BY DEF FilterValues
<1>3. w = IF f.kind = "floatrange" THEN 2 ELSE 4
  BY <1>2 DEF FilterWidth, At, FilterType
<1>4. \A k \in 1 .. n : items[k].width = w /\ items[k].value = f.values[k]
  BY <1>3 DEF FilterNumbers, FilterItem, W, L
<1> HIDE DEF r, items, w, n
<1>5. <<w>> \in Seq(Nat) /\ Len(<<w>>) = 1
  BY <1>3
<1>6. InRows(items, n, <<w>>)
  <2>1. \A k \in 1 .. n : \A j \in 1 .. Len(<<w>>) : items[Len(<<w>>) * (k - 1) + j].width = <<w>>[j]
    <3> SUFFICES ASSUME NEW k \in 1 .. n, NEW j \in 1 .. Len(<<w>>)
                 PROVE  items[Len(<<w>>) * (k - 1) + j].width = <<w>>[j]
      OBVIOUS
    <3>1. j = 1 /\ Len(<<w>>) * (k - 1) + j = k
      BY <1>1, <1>5
    <3> QED
      BY <1>4, <3>1
  <2> QED
    BY <1>1, <1>5, <2>1 DEF InRows
<1>7. Repeated(r, n, <<w>>) = Formats(items)
  <2>1. r = At(Wire(items) \o after, named)
    BY DEF r, items
  <2>2. Len(<<w>>) \in {1, 2, 4}
    BY <1>5
  <2> DEFINE format == <<w>>
  <2> HIDE DEF format
  <2>3. Repeated(At(Wire(items) \o after, named), n, format) = Formats(items)
    BY <1>1, <1>5, <1>6, <2>2, RepeatedIs DEF format
  <2> QED
    BY <2>1, <2>3 DEF format
<1>8. Format(r, "values") = Formats(items)
  <2>1. Format(r, "values") = Repeated(r, r.named.size, <<w>>)
    BY DEF Format, TextParts, w
  <2>2. r.named.size = n
    BY DEF r, At, n
  <2> QED
    BY <1>7, <2>1, <2>2
<1>9. Values(items) = f.values
  <2>1. Values(items) \in Seq(Nat \cup Cells) /\ Len(Values(items)) = n
    BY <1>1, FormatsTyped
  <2>2. \A k \in 1 .. n : Values(items)[k] = f.values[k]
    BY <1>1, <1>4, FormatsTyped
  <2>3. f.values \in Seq(Nat \cup Cells) /\ Len(f.values) = n
    <3>1. LongNumbers \subseteq Nat \cup Cells
      BY DEF LongNumbers
    <3>2. f.values \in [1 .. Len(f.values) -> LongNumbers] /\ Len(f.values) \in Nat
      BY <1>2
    <3>3. f.values \in [1 .. Len(f.values) -> Nat \cup Cells]
      BY <3>1, <3>2
    <3> QED
      BY <3>2, <3>3, SeqDef DEF n
  <2> QED
    BY <2>1, <2>2, <2>3, SeqEqual
<1>10. Value(r, "values", Values(items)) = f.values
  BY <1>9 DEF Value
<1> QED
  BY <1>1, <1>8, <1>10 DEF Matches, r, items

LEMMA FlagStep ==
    ASSUME NEW f \in FilterValues, NEW named, named.type = FilterType[f.kind],
           named.attrName = f.attrName, named.values = f.values, NEW after \in Cells,
           NEW before, before = Wire(FilterFlag(f)) \o after
    PROVE  Matches("filters", before, FilterFlag(f), after, named, Append(named.filters, f))
<1> DEFINE r == At(before, named)
           flag == IF f.excludeFlag THEN 1 ELSE 0
<1>1. FilterFlag(f) \in Seq(Items)
  BY DumpShape
<1>2. /\ f.kind \in {"range", "values", "floatrange"} /\ f.excludeFlag \in BOOLEAN
      /\ f = [kind |-> f.kind, attrName |-> f.attrName, values |-> f.values,
              excludeFlag |-> f.excludeFlag]
  BY DEF FilterValues
<1>3. KindOf(FilterType[f.kind]) = f.kind
  <2>1. DOMAIN FilterType = {"values", "range", "floatrange"}
    BY DEF FilterType
  <2>2. \A k, l \in DOMAIN FilterType : FilterType[k] = FilterType[l] => k = l
    BY DEF FilterType
  <2> QED
    BY <1>2, <2>1, <2>2 DEF KindOf
<1>4. Formats(FilterFlag(f)) = <<2>> /\ Values(FilterFlag(f)) = <<flag>>
  BY DEF FilterFlag, Formats, Values, W
<1>5. Format(r, "filters") = <<2>>
  BY DEF Format, TextParts
<1>6. Value(r, "filters", <<flag>>) = Append(named.filters, f)
  <2> DEFINE g == [kind |-> KindOf(named.type), attrName |-> named.attrName,
                   values |-> named.values, excludeFlag |-> <<flag>>[1] # 0]
  <2>1. Value(r, "filters", <<flag>>) = Append(r.named.filters,
           [kind |-> KindOf(r.named.type), attrName |-> r.named.attrName,
            values |-> r.named.values, excludeFlag |-> <<flag>>[1] # 0])
    <3> HIDE DEF r, flag
    <3> QED
      BY DEF Value
  <2>2. r.named = named
    BY DEF At
  <2>3. (<<flag>>[1] # 0) = f.excludeFlag
    BY <1>2
  <2>4. g = f
    BY <1>2, <1>3, <2>3
  <2> HIDE DEF r
  <2> QED
    BY <2>1, <2>2, <2>4
<1> QED
  BY <1>1, <1>4, <1>5, <1>6 DEF Matches

\* A filter is read as it was written, and added to those read before.
LEMMA FilterReads ==
    ASSUME NEW f \in FilterValues, NEW tail \in Cells, NEW base, "filters" \in DOMAIN base
    PROVE  \E named :
              /\ ReadParts(At(Wire(DumpToBuff(f)) \o tail, base), FilterParts) = At(tail, named)
              /\ named.filters = Append(base.filters, f)
              /\ Keeps(named, base, FilterNames \cup {"filters"})
<1> DEFINE i1 == FilterHead(f)
           i2 == FilterSize(f)
           i3 == FilterNumbers(f)
           i4 == FilterFlag(f)
           c4 == Wire(i4) \o tail
           c3 == Wire(i3) \o c4
           c2 == Wire(i2) \o c3
           c0 == Wire(i1) \o c2
           r == At(Wire(DumpToBuff(f)) \o tail, base)
           parts == FilterParts
           names == FilterNames \cup {"filters"}
<1>1. /\ DumpToBuff(f) = (i1 \o (i2 \o i3)) \o i4
      /\ i1 \in Seq(Items) /\ Len(i1) = 2 /\ i2 \in Seq(Items)
      /\ i3 \in Seq(Items) /\ i4 \in Seq(Items)
  BY DumpShape
<1>2. i1 = <<T(f.attrName), W(FilterType[f.kind])>>
  BY DEF FilterHead
<1> HIDE DEF i1, i2, i3, i4
<1>3. c4 \in Cells /\ c3 \in Cells /\ c2 \in Cells
  <2>1. c4 \in Cells
    BY <1>1, WireTyped, JoinTyped
  <2> HIDE DEF c4
  <2>2. c3 \in Cells
    BY <1>1, <2>1, WireTyped, JoinTyped
  <2> HIDE DEF c3
  <2>3. c2 \in Cells
    BY <1>1, <2>2, WireTyped, JoinTyped
  <2> QED
    BY <2>1, <2>2, <2>3
<1>4. r = At(c0, base)
  <2> DEFINE g1 == i2 \o i3
             g2 == i1 \o g1
  <2>1. g1 \in Seq(Items)
    BY <1>1, Together
  <2>2. Wire(g1) \o c4 = c2
    <3> HIDE DEF c4
    <3> QED
      BY <1>1, <1>3, WireThen, ZenonT(30)
  <2> HIDE DEF g1, c4, c2
  <2>3. g2 \in Seq(Items)
    BY <1>1, <2>1, Together
  <2>4. Wire(g2) \o c4 = c0
    <3>1. i1 \in Seq(Items)
      BY <1>1
    <3>2. Wire(i1 \o g1) \o c4 = Wire(i1) \o (Wire(g1) \o c4)
      BY <1>3, <2>1, <3>1, WireThen
    <3> QED
      BY <2>2, <3>2
  <2>5. DumpToBuff(f) = g2 \o i4
    BY <1>1 DEF g1
  <2> HIDE DEF g2, c0
  <2>6. i4 \in Seq(Items)
    BY <1>1
  <2>7. Wire(g2 \o i4) \o tail = Wire(g2) \o c4
    BY <2>3, <2>6, WireThen DEF c4
  <2> QED
    BY <2>4, <2>5, <2>7
<1>5. PICK after : IsReading(after, r, parts)
  BY ReadingIs DEF FilterParts
<1>6. after[0] = At(c0, base) /\ ReadParts(r, parts) = after[5] /\ Len(parts) = 5
  BY <1>4, <1>5 DEF IsReading, FilterParts
<1> DEFINE p1 == <<"attrName", "type">>
           v1 == <<f.attrName, FilterType[f.kind]>>
<1>7. /\ ReadParts(after[0], p1) = after[2] /\ ReadPart(after[2], "size") = after[3]
      /\ ReadPart(after[3], "values") = after[4] /\ ReadPart(after[4], "filters") = after[5]
  <2>1. /\ parts[3] = "size" /\ parts[4] = "values" /\ parts[5] = "filters"
        /\ \A k \in 1 .. 2 : p1[k] = parts[0 + k]
    BY DEF FilterParts
  <2>2. Within(p1, parts, 0, 2)
    BY <1>6, <2>1 DEF Within
  <2> HIDE DEF p1, parts, r
  <2>3. Len(parts) \in Nat
    BY <1>6
  <2>4. ReadParts(after[0], p1) = after[2]
    BY <1>5, <2>2, <2>3, PartsWithin
  <2>5. ASSUME NEW from \in 0 .. 4
        PROVE  ReadPart(after[from], parts[from + 1]) = after[from + 1]
    <3>1. from \in Nat /\ from + 1 <= Len(parts)
      BY <1>6
    <3> QED
      BY <1>5, <2>3, <3>1, PartWithin
  <2>6. /\ ReadPart(after[2], parts[2 + 1]) = after[2 + 1]
        /\ ReadPart(after[3], parts[3 + 1]) = after[3 + 1]
        /\ ReadPart(after[4], parts[4 + 1]) = after[4 + 1]
    BY <2>5
  <2> QED
    BY <2>1, <2>4, <2>6
<1> HIDE DEF r, parts, c2, c3, c4
<1>8. PICK n1 : after[2] = At(c2, n1) /\ Given(base, p1, v1, n1)
  <2>1. Len(p1) = 2 /\ \A k, l \in 1 .. 2 : p1[k] = p1[l] => k = l
    OBVIOUS
  <2>2. \A k \in 1 .. 2 : Single(p1[k], i1[k], v1[k])
    BY <1>2 DEF Single, WordParts, TextParts
  <2> HIDE DEF p1, v1
  <2>3. Singles(p1, i1, v1)
    BY <1>1, <2>1, <2>2 DEF Singles
  <2>4. \E named : ReadParts(At(Wire(i1) \o c2, base), p1) = At(c2, named) /\ Given(base, p1, v1, named)
    BY <1>1, <1>3, <2>3, SinglesRead
  <2> QED
    BY <1>6, <1>7, <2>4
<1>9. /\ n1["attrName"] = f.attrName /\ n1["type"] = FilterType[f.kind]
      /\ "filters" \in DOMAIN n1 /\ n1["filters"] = base["filters"]
      /\ Keeps(n1, base, names)
  <2>1. /\ \A k \in 1 .. Len(p1) : p1[k] # "filters" /\ p1[k] \in names
        /\ p1[1] = "attrName" /\ p1[2] = "type" /\ v1[1] = f.attrName /\ v1[2] = FilterType[f.kind]
        /\ 1 \in 1 .. Len(p1) /\ 2 \in 1 .. Len(p1)
    BY DEF FilterNames
  <2> HIDE DEF p1, v1, names
  <2>2. Keeps(n1, base, names)
    BY <1>8, <2>1, KeepsAll, KeepsGiven
  <2> QED
    BY <1>8, <2>1, <2>2 DEF Given
<1> HIDE DEF p1, v1
<1> DEFINE n2 == With(n1, "size", Len(f.values))
           n3 == With(n2, "values", f.values)
           n4 == With(n3, "filters", Append(n3.filters, f))
<1>10. after[3] = At(c3, n2)
  <2>1. Matches("size", c2, i2, c3, n1, Len(f.values))
    <3>1. n1.type = FilterType[f.kind]
      BY <1>9
    <3> QED
      BY <1>3, <3>1, SizeStep DEF c2, i2
  <2> QED
    BY <1>7, <1>8, <2>1, MatchesRead
<1>11. /\ n2["attrName"] = f.attrName /\ n2["type"] = FilterType[f.kind] /\ n2["size"] = Len(f.values)
       /\ n2["filters"] = base["filters"] /\ {"attrName", "type", "size", "filters"} \subseteq DOMAIN n2
       /\ Keeps(n2, base, names)
  <2>1. {"attrName", "type"} \subseteq DOMAIN n1
    BY <1>8 DEF Given, p1
  <2>2. "size" \in names
    BY DEF FilterNames
  <2>3. Keeps(n2, base, names)
    <3> HIDE DEF names
    <3> QED
      BY <1>9, <2>2, KeepsWith
  <2> QED
    BY <1>9, <2>1, <2>3 DEF With
<1> HIDE DEF n2
<1>12. after[4] = At(c4, n3)
  <2>1. Matches("values", c3, i3, c4, n2, f.values)
    <3>1. n2.type = FilterType[f.kind] /\ n2.size = Len(f.values)
      BY <1>11
    <3> QED
      BY <1>3, <3>1, NumbersStep DEF c3, i3
  <2> QED
    BY <1>7, <1>10, <2>1, MatchesRead
<1>13. /\ n3["attrName"] = f.attrName /\ n3["type"] = FilterType[f.kind] /\ n3["values"] = f.values
       /\ n3["filters"] = base["filters"] /\ Keeps(n3, base, names)
  <2>2. "values" \in names
    BY DEF FilterNames
  <2>3. Keeps(n3, base, names)
    <3> HIDE DEF names
    <3> QED
      BY <1>11, <2>2, KeepsWith
  <2> QED
    BY <1>11, <2>3 DEF With
<1> HIDE DEF n3
<1>14. after[5] = At(tail, n4)
  <2>1. Matches("filters", c4, i4, tail, n3, Append(n3.filters, f))
    <3>1. n3.type = FilterType[f.kind] /\ n3.attrName = f.attrName /\ n3.values = f.values
      BY <1>13
    <3> QED
      BY <3>1, FlagStep DEF c4, i4
  <2> QED
    BY <1>7, <1>12, <2>1, MatchesRead
<1>15. n4["filters"] = Append(base.filters, f) /\ Keeps(n4, base, names)
  <2>1. "filters" \in names
    OBVIOUS
  <2>2. Keeps(n4, base, names)
    <3> HIDE DEF names
    <3> QED
      BY <1>13, <2>1, KeepsWith
  <2> QED
    BY <1>13, <2>2 DEF With
<1> HIDE DEF n4
<1>16. ReadParts(r, parts) = At(tail, n4) /\ n4.filters = Append(base.filters, f)
       /\ Keeps(n4, base, names)
  BY <1>6, <1>14, <1>15
<1> QED
  BY <1>16 DEF r, parts

-----------------------------------------------------------------------------
(* Lists of groups *)

\* What is to come when one group of items after another is taken.
IsWired(left, groups, tail) ==
    /\ left \in [0 .. Len(groups) -> Cells]
    /\ left[0] = Wire(FlattenSeq(groups)) \o tail
    /\ left[Len(groups)] = tail
    /\ \A k \in 1 .. Len(groups) : left[k - 1] = Wire(groups[k]) \o left[k]
LEMMA GroupsWired ==
    ASSUME NEW groups \in Seq(Seq(Items)), NEW tail \in Cells
    PROVE  \E left : IsWired(left, groups, tail)
<1> DEFINE n == Len(groups)
           part == [k \in 0 .. n |-> FlattenSeq(Rest(groups, k))]
           left == [k \in 0 .. n |-> Wire(part[k]) \o tail]
<1>1. n \in Nat /\ \A k \in 1 .. n : groups[k] \in Seq(Items)
  BY ElementOfSeq
<1>2. ASSUME NEW k \in 0 .. n
      PROVE  /\ part[k] \in Seq(Items)
             /\ k < n => part[k] = groups[k + 1] \o part[k + 1]
             /\ k = n => part[k] = <<>>
  <2>1. /\ FlattenSeq(Rest(groups, k)) \in Seq(Items)
        /\ k < n => FlattenSeq(Rest(groups, k)) = groups[k + 1] \o FlattenSeq(Rest(groups, k + 1))
        /\ k = n => FlattenSeq(Rest(groups, k)) = <<>>
    BY JoinedRest
  <2>2. k < n => k + 1 \in 0 .. n
    BY <1>1
  <2> HIDE DEF n
  <2> QED
    BY <2>1, <2>2
<1>3. part[0] = FlattenSeq(groups)
  <2>1. 0 \in 0 .. n
    BY <1>1
  <2>2. Rest(groups, 0) = groups
    BY <2>1, JoinedRest
  <2> QED
    BY <2>1, <2>2
<1> HIDE DEF part, n
<1>4. ASSUME NEW k \in 0 .. n PROVE left[k] \in Cells /\ left[k] = Wire(part[k]) \o tail
  <2>1. Wire(part[k]) \in Cells
    BY <1>2, WireTyped
  <2> QED
    BY <2>1, JoinTyped
<1>5. left \in [0 .. n -> Cells]
  BY <1>4
<1>6. left[0] = Wire(FlattenSeq(groups)) \o tail
  <2>1. 0 \in 0 .. n
    BY <1>1
  <2>2. left[0] = Wire(part[0]) \o tail
    BY <1>4, <2>1
  <2> QED
    BY <1>3, <2>2
<1>7. left[n] = tail
  <2>1. n \in 0 .. n
    BY <1>1
  <2>2. part[n] = <<>>
    BY <1>2, <2>1
  <2>3. Wire(<<>>) \o tail = tail
    <3>1. Codes(<<>>) = <<>>
      BY DEF Codes
    <3>2. FlattenSeq(<<>>) \o tail = tail
      <4> DEFINE none == <<>>
      <4>1. none \in Seq(Cells) /\ Len(none) = 0
        OBVIOUS
      <4> HIDE DEF none
      <4>2. Onward(none, tail)[0] = FlattenSeq(none) \o tail /\ Onward(none, tail)[0] = tail
        BY <4>1, OnwardIs
      <4> QED
        BY <4>2 DEF none
    <3> QED
      BY <3>1, <3>2 DEF Wire
  <2> QED
    BY <1>4, <2>1, <2>2, <2>3
<1>8. ASSUME NEW k \in 1 .. n
      PROVE  left[k - 1] = Wire(groups[k]) \o left[k]
  <2> DEFINE j == k - 1
  <2>1. j \in 0 .. n /\ j < n /\ j + 1 = k /\ k \in 0 .. n
    BY <1>1
  <2>2. left[j] = Wire(part[j]) \o tail /\ left[k] = Wire(part[k]) \o tail
    BY <1>4, <2>1
  <2>3. part[j] = groups[k] \o part[k] /\ part[k] \in Seq(Items) /\ groups[k] \in Seq(Items)
    BY <1>1, <1>2, <2>1
  <2> DEFINE a == groups[k]
             b == part[k]
  <2> HIDE DEF left
  <2>4. Wire(a \o b) \o tail = Wire(a) \o (Wire(b) \o tail)
    <3>1. a \in Seq(Items) /\ b \in Seq(Items)
      BY <2>3
    <3> HIDE DEF a, b
    <3> QED
      BY <3>1, WireThen
  <2> QED
    BY <2>2, <2>3, <2>4
<1> HIDE DEF left
<1>9. IsWired(left, groups, tail)
  BY <1>5, <1>6, <1>7, <1>8 DEF IsWired, n
<1> QED
  BY <1>9

\* The loop over what is announced.
IsListing(after, r, parts, n) ==
    /\ after[0] = r
    /\ \A k \in 1 .. n : after[k] = ReadParts(after[k - 1], parts)
    /\ ReadList(r, parts) = after[n]

Listings(f, n, r, parts) ==
    f = [k \in 0 .. n |-> IF k = 0 THEN r ELSE ReadParts(f[k - 1], parts)]
LEMMA ListingExists ==
    ASSUME NEW n \in Nat, NEW r, NEW parts
    PROVE  \E f : Listings(f, n, r, parts)
<1> DEFINE isTable(f, m) == f = [k \in 0 .. m |-> IF k = 0 THEN r ELSE ReadParts(f[k - 1], parts)]
           U == {m \in Nat : \E f : isTable(f, m)}
<1>1. 0 \in U
  <2> DEFINE g == [k \in 0 .. 0 |-> r]
  <2>1. \A k \in 0 .. 0 : k = 0
    OBVIOUS
  <2>2. isTable(g, 0)
    BY <2>1
  <2> QED
    BY <2>2
<1>2. ASSUME NEW m \in U
      PROVE  m + 1 \in U
  <2>1. PICK f : isTable(f, m)
    OBVIOUS
  <2> DEFINE g == [k \in 0 .. m + 1 |-> IF k = m + 1 THEN ReadParts(f[m], parts) ELSE f[k]]
  <2>2. m \in Nat /\ m + 1 \in Nat /\ m + 1 # 0 /\ m + 1 - 1 = m
    OBVIOUS
  <2>3. \A k \in 0 .. m : f[k] = IF k = 0 THEN r ELSE ReadParts(f[k - 1], parts)
    BY <2>1
  <2>4. ASSUME NEW k \in 0 .. m + 1
        PROVE  g[k] = IF k = 0 THEN r ELSE ReadParts(g[k - 1], parts)
    <3>1. k # 0 => k - 1 \in 0 .. m + 1 /\ k - 1 # m + 1
      BY <2>2
    <3>2. k # 0 => g[k - 1] = f[k - 1]
      BY <3>1
    <3>3. CASE k = m + 1
      <4>1. g[k] = ReadParts(f[m], parts)
        BY <3>3
      <4> HIDE DEF g
      <4> QED
        BY <2>2, <3>2, <3>3, <4>1
    <3>4. CASE k # m + 1
      <4>1. g[k] = f[k] /\ k \in 0 .. m
        BY <2>2, <3>4
      <4> HIDE DEF g
      <4> QED
        BY <2>3, <3>2, <4>1
    <3> QED
      BY <3>3, <3>4
  <2>5. g = [k \in 0 .. m + 1 |-> g[k]]
    OBVIOUS
  <2> HIDE DEF g
  <2>6. isTable(g, m + 1)
    BY <2>4, <2>5
  <2> HIDE DEF isTable
  <2> QED
    BY <2>2, <2>6
<1>3. U = Nat
  <2>1. U \in SUBSET Nat
    BY DEF U
  <2> HIDE DEF U
  <2> QED
    BY <1>1, <1>2, <2>1, InductiveSet
<1>4. n \in U
  BY <1>3
<1> QED
  BY <1>4 DEF Listings

LEMMA ListingIs ==
    ASSUME NEW r, NEW parts, r.ok = TRUE, r.named.count \in Nat,
           ~(2 * (Len(parts) - 1) * r.named.count > Len(r.rest))
    PROVE  \E after : IsListing(after, r, parts, r.named.count)
<1> DEFINE n == r.named.count
           After[k \in 0 .. n] == IF k = 0 THEN r ELSE ReadParts(After[k - 1], parts)
<1>1. ReadList(r, parts) = After[n]
  BY DEF ReadList
<1>2. n \in Nat
  OBVIOUS
<1> HIDE DEF n
<1>3. \E f : Listings(f, n, r, parts)
  BY <1>2, ListingExists
<1>4. After = [k \in 0 .. n |-> IF k = 0 THEN r ELSE ReadParts(After[k - 1], parts)]
  BY <1>3 DEF After, Listings
<1> HIDE DEF After
<1>5. After[0] = r /\ \A k \in 1 .. n : After[k] = ReadParts(After[k - 1], parts)
  BY <1>2, <1>4
<1>6. IsListing(After, r, parts, n)
  BY <1>1, <1>5 DEF IsListing
<1> QED
  BY <1>6 DEF n

LEMMA KeepsOn ==
    ASSUME NEW a, NEW b, NEW c, NEW names, Keeps(b, a, names), Keeps(c, b, names)
    PROVE  Keeps(c, a, names)
BY DEF Keeps

\* A group of items is read by the parts and changes the value of a name.
GroupReads(parts, group, field, old, new, names) ==
    \A after \in Cells : \A base :
        (field \in DOMAIN base /\ base[field] = old) =>
            \E named : /\ ReadParts(At(Wire(group) \o after, base), parts) = At(after, named)
                       /\ named[field] = new
                       /\ Keeps(named, base, names)

\* Every group of a list is long enough and is read.
ListReads(parts, groups, field, want, names) ==
    \A k \in 1 .. Len(groups) :
        /\ Len(parts) - 1 <= Len(groups[k])
        /\ GroupReads(parts, groups[k], field, want[k - 1], want[k], names)

LEMMA TwoSteps ==
    ASSUME NEW a \in Nat, NEW b \in Nat, NEW c \in Nat, NEW x \in Int, NEW m \in Int,
           a + 2 * m <= b, b + 2 * x <= c
    PROVE  a + 2 * (x + m) <= c
  OBVIOUS

\* Groups are read one after another.
LEMMA GroupsRead ==
    ASSUME NEW parts, Len(parts) \in Nat, NEW groups \in Seq(Seq(Items)),
           NEW names, NEW field, NEW want, ListReads(parts, groups, field, want, names),
           NEW base, field \in DOMAIN base, base[field] = want[0], base.count = Len(groups),
           NEW tail \in Cells
    PROVE  \E named :
              /\ ReadList(At(Wire(FlattenSeq(groups)) \o tail, base), parts) = At(tail, named)
              /\ named[field] = want[Len(groups)]
              /\ Keeps(named, base, names)
<1> DEFINE n == Len(groups)
           m == Len(parts) - 1
           r == At(Wire(FlattenSeq(groups)) \o tail, base)
<1>1. n \in Nat /\ \A k \in 1 .. n : groups[k] \in Seq(Items)
  BY ElementOfSeq
<1>2. PICK left : IsWired(left, groups, tail)
  BY GroupsWired
<1>3. /\ left \in [0 .. n -> Cells] /\ r.rest = left[0] /\ left[n] = tail
      /\ \A k \in 1 .. n : left[k - 1] = Wire(groups[k]) \o left[k]
  BY <1>2 DEF IsWired, At
<1>4. ~(2 * m * n > Len(r.rest))
  <2> DEFINE long == [k \in 0 .. n |-> Len(left[k])]
             U == {k \in 0 .. n : long[k] + 2 * (m * k) <= long[0] }
  <2>1. \A k \in 0 .. n : long[k] = Len(left[k]) /\ long[k] \in Nat
    BY <1>3
  <2>2. m \in Int
    OBVIOUS
  <2>3. ASSUME NEW k \in 1 .. n
        PROVE  long[k] + 2 * m <= long[k - 1]
    <3>1. k - 1 \in 0 .. n /\ k \in 0 .. n
      BY <1>1
    <3> DEFINE a == Wire(groups[k])
               b == left[k]
    <3>2. a \in Cells /\ b \in Cells /\ left[k - 1] = a \o b
      BY <1>1, <1>3, <3>1, WireTyped
    <3>9. m <= Len(groups[k])
      BY DEF ListReads
    <3>3. Len(a) >= 2 * Len(groups[k]) /\ Len(groups[k]) \in Nat /\ m <= Len(groups[k])
      BY <1>1, <3>9, WireLength, SMTT(20)
    <3> HIDE DEF a, b, m, long
    <3>4. Len(left[k - 1]) = Len(a) + Len(b) /\ Len(a) \in Nat /\ Len(b) \in Nat
      BY <3>2, JoinTyped
    <3>5. long[k - 1] = Len(a) + Len(b) /\ long[k] = Len(b)
      BY <2>1, <3>1, <3>4 DEF b
    <3> QED
      BY <2>2, <3>3, <3>4, <3>5
  <2>4. 0 \in U
    <3>1. 0 \in 0 .. n
      BY <1>1
    <3>2. long[0] \in Nat
      BY <2>1, <3>1
    <3> HIDE DEF long
    <3>3. m * 0 = 0
      <4> HIDE DEF m
      <4> QED
        BY <2>2
    <3>4. long[0] + 2 * (m * 0) <= long[0]
      BY <3>2, <3>3
    <3> QED
      BY <3>1, <3>4
  <2>5. ASSUME NEW k \in 1 .. n, k - 1 \in U
        PROVE  k \in U
    <3>1. k - 1 \in 0 .. n /\ k \in 0 .. n
      BY <1>1
    <3>2. m * k = m * (k - 1) + m
      BY <1>1, <2>2
    <3> DEFINE x == m * (k - 1)
               y == m * k
    <3>3. x \in Int /\ y \in Int /\ y = x + m
      BY <2>2, <3>1, <3>2
    <3>4. long[k - 1] + 2 * x <= long[0]
      BY <2>5
    <3>5. 0 \in 0 .. n
      BY <1>1
    <3>6. long[k - 1] \in Nat /\ long[k] \in Nat /\ long[0] \in Nat
      BY <2>1, <3>1, <3>5
    <3>7. long[k] + 2 * m <= long[k - 1]
      BY <2>3
    <3> HIDE DEF x, y, long, m
    <3>8. long[k] + 2 * (x + m) <= long[0]
      BY <2>2, <3>3, <3>4, <3>6, <3>7, TwoSteps
    <3> QED
      BY <3>1, <3>3, <3>8 DEF y
  <2>6. \A k \in 0 .. n : k \in U
    <3> HIDE DEF U
    <3> QED
      BY <1>1, <2>4, <2>5, InductiveUpTo
  <2>7. n \in 0 .. n /\ 0 \in 0 .. n
    BY <1>1
  <2>8. long[n] + 2 * (m * n) <= long[0]
    BY <2>6, <2>7
  <2>9. long[n] \in Nat /\ long[0] = Len(r.rest) /\ long[0] \in Nat
    BY <1>3, <2>1, <2>7
  <2> HIDE DEF long, r
  <2>10. 2 * m * n = 2 * (m * n) /\ m * n \in Int
    BY <1>1, <2>2
  <2> HIDE DEF m
  <2> QED
    BY <2>8, <2>9, <2>10
<1>5. r.ok = TRUE /\ r.named.count = n
  BY DEF At
<1> HIDE DEF r, n
<1>6. PICK after : IsListing(after, r, parts, n)
  <2>1. r.named.count \in Nat /\ ~(2 * (Len(parts) - 1) * r.named.count > Len(r.rest))
    BY <1>1, <1>4, <1>5
  <2>2. \E after : IsListing(after, r, parts, r.named.count)
    BY <1>5, <2>1, ListingIs
  <2> QED
    BY <1>5, <2>2
<1>7. /\ after[0] = r /\ \A k \in 1 .. n : after[k] = ReadParts(after[k - 1], parts)
      /\ ReadList(r, parts) = after[n]
  BY <1>6 DEF IsListing
<1> DEFINE reached(k, named) == /\ after[k] = At(left[k], named) /\ named[field] = want[k]
                                /\ Keeps(named, base, names)
           U == {k \in 0 .. n : \E named : reached(k, named)}
<1>8. 0 \in U
  <2>1. reached(0, base)
    BY <1>3, <1>7, KeepsAll DEF r, At
  <2>2. 0 \in 0 .. n
    BY <1>1
  <2> HIDE DEF reached
  <2> QED
    BY <2>1, <2>2
<1>9. ASSUME NEW k \in 1 .. n, k - 1 \in U
      PROVE  k \in U
  <2>1. PICK known : reached(k - 1, known)
    BY <1>9
  <2>2. k \in 0 .. n /\ left[k] \in Cells
    BY <1>1, <1>3
  <2>3. field \in DOMAIN known /\ known[field] = want[k - 1]
    BY <2>1 DEF Keeps
  <2>4. PICK named :
           /\ ReadParts(At(Wire(groups[k]) \o left[k], known), parts) = At(left[k], named)
           /\ named[field] = want[k]
           /\ Keeps(named, known, names)
    <3>1. GroupReads(parts, groups[k], field, want[k - 1], want[k], names)
      BY DEF n, ListReads
    <3> QED
      BY <2>2, <2>3, <3>1 DEF GroupReads
  <2>5. after[k] = At(left[k], named)
    BY <1>3, <1>7, <2>1, <2>4
  <2>6. Keeps(named, base, names)
    BY <2>1, <2>4, KeepsOn
  <2>7. reached(k, named)
    BY <2>4, <2>5, <2>6
  <2> HIDE DEF reached
  <2> QED
    BY <2>2, <2>7
<1>10. \A k \in 0 .. n : k \in U
  <2> HIDE DEF U
  <2> QED
    BY <1>1, <1>8, <1>9, InductiveUpTo
<1>11. PICK named : reached(n, named)
  <2> HIDE DEF reached
  <2>1. n \in 0 .. n
    BY <1>1
  <2> QED
    BY <1>10, <2>1
<1>12. ReadList(r, parts) = At(tail, named) /\ named[field] = want[n] /\ Keeps(named, base, names)
  BY <1>3, <1>7, <1>11
<1> QED
  BY <1>12 DEF r, n

LEMMA FiltersRead ==
    ASSUME NEW filters \in Seq(FilterValues), NEW tail \in Cells, NEW base,
           "filters" \in DOMAIN base, base.filters = <<>>, base.count = Len(filters)
    PROVE  \E named :
              /\ ReadList(At(Wire(FlattenSeq([k \in DOMAIN filters |-> DumpToBuff(filters[k])])) \o tail, base),
                          FilterParts) = At(tail, named)
              /\ named.filters = filters
              /\ Keeps(named, base, FilterNames \cup {"filters"})
<1> DEFINE n == Len(filters)
           groups == [k \in DOMAIN filters |-> DumpToBuff(filters[k])]
           want == [k \in 0 .. n |-> SubSeq(filters, 1, k)]
           names == FilterNames \cup {"filters"}
<1>1. n \in Nat /\ DOMAIN filters = 1 .. n /\ \A k \in 1 .. n : filters[k] \in FilterValues
  BY ElementOfSeq
<1>2. \A k \in 1 .. n : groups[k] \in Seq(Items) /\ Len(groups[k]) >= 4 /\ Len(groups[k]) \in Nat
  <2>1. \A k \in 1 .. n : DumpToBuff(filters[k]) \in Seq(Items) /\ Len(DumpToBuff(filters[k])) >= 4
    BY <1>1, DumpShape
  <2> QED
    BY <1>1, <2>1
<1>3. groups \in Seq(Seq(Items)) /\ Len(groups) = n
  <2>1. groups \in [1 .. n -> Seq(Items)]
    BY <1>1, <1>2
  <2> QED
    BY <1>1, <2>1, SeqDef
<1>4. Len(FilterParts) = 5
  BY DEF FilterParts
<1>5. want[0] = <<>> /\ want[n] = filters
  BY <1>1
<1>6. ASSUME NEW k \in 1 .. n
      PROVE  want[k] = Append(want[k - 1], filters[k])
  <2>1. k - 1 \in 0 .. n /\ k \in 0 .. n
    BY <1>1
  <2>2. SubSeq(filters, 1, k) = Append(SubSeq(filters, 1, k - 1), filters[k])
    BY <1>1
  <2> QED
    BY <2>1, <2>2
<1>7. ASSUME NEW k \in 1 .. n
      PROVE  GroupReads(FilterParts, groups[k], "filters", want[k - 1], want[k], names)
  <2> SUFFICES ASSUME NEW after \in Cells, NEW known,
                      "filters" \in DOMAIN known, known["filters"] = want[k - 1]
               PROVE  \E named :
                        /\ ReadParts(At(Wire(groups[k]) \o after, known), FilterParts) = At(after, named)
                        /\ named["filters"] = want[k]
                        /\ Keeps(named, known, names)
    BY DEF GroupReads
  <2>1. PICK named :
           /\ ReadParts(At(Wire(DumpToBuff(filters[k])) \o after, known), FilterParts) = At(after, named)
           /\ named.filters = Append(known.filters, filters[k])
           /\ Keeps(named, known, FilterNames \cup {"filters"})
    BY <1>1, FilterReads
  <2>2. groups[k] = DumpToBuff(filters[k])
    BY <1>1
  <2> HIDE DEF groups, want
  <2> QED
    BY <1>6, <2>1, <2>2
<1> HIDE DEF groups, want, n, names
<1>8. \E named :
         /\ ReadList(At(Wire(FlattenSeq(groups)) \o tail, base), FilterParts) = At(tail, named)
         /\ named["filters"] = want[Len(groups)]
         /\ Keeps(named, base, names)
  <2>1. ListReads(FilterParts, groups, "filters", want, names)
    BY <1>2, <1>3, <1>4, <1>7 DEF ListReads
  <2>3. base["filters"] = want[0] /\ base.count = Len(groups)
    BY <1>3, <1>5 DEF n
  <2>4. Len(FilterParts) \in Nat
    BY <1>4
  <2> QED
    BY <1>3, <2>1, <2>3, <2>4, GroupsRead
<1> QED
  BY <1>3, <1>5, <1>8 DEF groups, names

-----------------------------------------------------------------------------
(* Weights: maps that are written as their entries *)

\* A map that is written as its keys, each once, with their values.
Listed(names, map) ==
    /\ DOMAIN map = {names[k] : k \in 1 .. Len(names)}
    /\ \A k, l \in 1 .. Len(names) : names[k] = names[l] => k = l
LEMMA MapBack ==
    ASSUME NEW map, map = [x \in DOMAIN map |-> map[x]], NEW names, Len(names) \in Nat,
           Listed(names, map), NEW row,
           ArePairs(row, Len(names), names, [k \in 1 .. Len(names) |-> map[names[k]]])
    PROVE  MapOf(row) = map
<1> DEFINE n == Len(names)
           all == [k \in 1 .. n |-> map[names[k]]]
<1>1. /\ n \in Nat /\ Len(row) = 2 * n
      /\ \A k \in 1 .. n : row[2 * k - 1] = names[k] /\ row[2 * k] = all[k]
  BY DEF ArePairs
<1>2. Len(row) \div 2 = n
  <2> HIDE DEF n
  <2> QED
    BY <1>1
<1>3. \A k \in 1 .. n : row[2 * k] = map[names[k]]
  BY <1>1
<1>4. /\ DOMAIN map = {names[k] : k \in 1 .. n}
      /\ \A k, l \in 1 .. n : names[k] = names[l] => k = l
  BY DEF Listed
<1> HIDE DEF n, all
<1> DEFINE at(key) == CHOOSE k \in 1 .. Len(row) \div 2 : row[2 * k - 1] = key
<1>5. {row[2 * k - 1] : k \in 1 .. Len(row) \div 2} = DOMAIN map
  <2>1. \A k \in 1 .. n : row[2 * k - 1] = names[k]
    BY <1>1
  <2>2. {row[2 * k - 1] : k \in 1 .. n} = {names[k] : k \in 1 .. n}
    BY <2>1
  <2> QED
    BY <1>2, <1>4, <2>2
<1>6. ASSUME NEW key \in DOMAIN map
      PROVE  row[2 * at(key)] = map[key]
  <2>1. PICK k \in 1 .. n : names[k] = key
    BY <1>4
  <2>2. k \in 1 .. Len(row) \div 2 /\ row[2 * k - 1] = key
    BY <1>1, <1>2, <2>1
  <2>3. at(key) \in 1 .. Len(row) \div 2 /\ row[2 * at(key) - 1] = key
    BY <2>2
  <2> HIDE DEF at
  <2>4. at(key) \in 1 .. n /\ names[at(key)] = key
    BY <1>1, <1>2, <2>3
  <2> QED
    BY <1>3, <2>4
<1>7. MapOf(row) = [key \in {row[2 * k - 1] : k \in 1 .. Len(row) \div 2} |-> row[2 * at(key)]]
  BY DEF MapOf
<1> HIDE DEF at
<1> QED
  BY <1>5, <1>6, <1>7

\* Two columns of items, their widths and their values.
Columns(n, first, second, a, b, names, numbers) ==
    /\ first \in [1 .. n -> Items] /\ second \in [1 .. n -> Items]
    /\ a \in Nat /\ b \in Nat
    /\ \A k \in 1 .. n : /\ first[k].width = a /\ second[k].width = b
                         /\ first[k].value = names[k] /\ second[k].value = numbers[k]

\* Pairs of items are read as pairs of values.
LEMMA PairsRead ==
    ASSUME NEW n \in Nat, NEW first, NEW second, NEW a, NEW b, NEW names, NEW numbers,
           Columns(n, first, second, a, b, names, numbers),
           NEW after \in Cells, NEW named,
           NEW rows, rows = FlattenSeq(Pairs(n, first, second))
    PROVE  /\ rows \in Seq(Items)
           /\ Repeated(At(Wire(rows) \o after, named), n, <<a, b>>) = Formats(rows)
           /\ ArePairs(Values(rows), n, names, numbers)
<1> DEFINE format == <<a, b>>
<1>1. rows \in Seq(Items) /\ ArePairs(rows, n, first, second)
  BY PairsShape DEF Columns
<1>2. Len(rows) = 2 * n /\ \A k \in 1 .. n : rows[2 * k - 1] = first[k] /\ rows[2 * k] = second[k]
  BY <1>1 DEF ArePairs
<1>3. format \in Seq(Nat) /\ Len(format) = 2 /\ format[1] = a /\ format[2] = b
  BY DEF Columns
<1> HIDE DEF format
<1>4. InRows(rows, n, format)
  <2>1. ASSUME NEW k \in 1 .. n, NEW j \in 1 .. 2
        PROVE  rows[2 * (k - 1) + j].width = format[j]
    <3>0. /\ rows[2 * k - 1] = first[k] /\ rows[2 * k] = second[k]
          /\ first[k].width = a /\ second[k].width = b
      BY <1>2 DEF Columns
    <3> DEFINE at == 2 * (k - 1) + j
    <3>1. CASE j = 1
      <4>1. at = 2 * k - 1
        BY <3>1
      <4> HIDE DEF at
      <4>2. rows[at] = first[k] /\ format[j] = a
        BY <1>3, <3>0, <3>1, <4>1
      <4> QED
        BY <3>0, <4>2 DEF at
    <3>2. CASE j = 2
      <4>1. at = 2 * k
        BY <3>2
      <4> HIDE DEF at
      <4>2. rows[at] = second[k] /\ format[j] = b
        BY <1>3, <3>0, <3>2, <4>1
      <4> QED
        BY <3>0, <4>2 DEF at
    <3> QED
      BY <3>1, <3>2
  <2> QED
    BY <1>2, <1>3, <2>1 DEF InRows
<1>5. Repeated(At(Wire(rows) \o after, named), n, format) = Formats(rows)
  BY <1>1, <1>3, <1>4, RepeatedIs
<1>6. Len(Values(rows)) = 2 * n /\ \A k \in 1 .. Len(rows) : Values(rows)[k] = rows[k].value
  BY <1>1, <1>2, FormatsTyped
<1>7. ASSUME NEW k \in 1 .. n
      PROVE  Values(rows)[2 * k - 1] = names[k] /\ Values(rows)[2 * k] = numbers[k]
  <2>1. 2 * k - 1 \in 1 .. Len(rows) /\ 2 * k \in 1 .. Len(rows)
    BY <1>2
  <2> QED
    BY <1>2, <1>6, <2>1 DEF Columns
<1>8. ArePairs(Values(rows), n, names, numbers)
  BY <1>6, <1>7 DEF ArePairs
<1> QED
  BY <1>1, <1>5, <1>8 DEF format

WeightRows(weights) ==
    LET names == Keys(weights)
    IN FlattenSeq([k \in DOMAIN names |-> <<T(names[k]), W(weights[names[k]])>>])

LEMMA WeightsAre ==
    ASSUME NEW x \in WeightSettings, NEW weights, GoodWeights(x, weights)
    PROVE  /\ Weights(weights) = <<W(Len(Keys(weights)))>> \o WeightRows(weights)
           /\ <<W(Len(Keys(weights)))>> \in Seq(Items) /\ WeightRows(weights) \in Seq(Items)
           /\ Len(Keys(weights)) \in Numbers
           /\ \A after \in Cells : \A named :
                 named.count = Len(Keys(weights)) =>
                    Matches(x, Wire(WeightRows(weights)) \o after, WeightRows(weights), after,
                            named, weights)
<1> DEFINE names == Keys(weights)
           n == Len(names)
           first == [k \in 1 .. n |-> T(names[k])]
           second == [k \in 1 .. n |-> W(weights[names[k]])]
           numbers == [k \in 1 .. n |-> weights[names[k]]]
           rows == WeightRows(weights)
<1>1. /\ names \in Seq(DOMAIN weights) /\ n \in Numbers /\ n \in Nat /\ DOMAIN names = 1 .. n
      /\ DOMAIN weights \subseteq Texts /\ Range(names) = DOMAIN weights
      /\ \A k, l \in 1 .. n : names[k] = names[l] => k = l
  <2>1. DOMAIN weights \subseteq DOMAIN NewSettings[x]
    BY DEF GoodWeights
  <2>2. Counted(DOMAIN NewSettings[x]) /\ DOMAIN NewSettings[x] \subseteq Texts
    BY SettingsAssumption
  <2>3. /\ names \in Seq(DOMAIN weights) /\ Range(names) = DOMAIN weights /\ n \in Numbers
        /\ \A k, l \in DOMAIN names : names[k] = names[l] => k = l
    BY <2>1, <2>2, KeysAre
  <2> QED
    BY <2>1, <2>2, <2>3, Limits
<1>2. \A k \in 1 .. n : names[k] \in DOMAIN weights
  BY <1>1
<1>3. \A k \in 1 .. n : names[k] \in Texts /\ weights[names[k]] \in Numbers
  BY <1>1, <1>2 DEF GoodWeights
<1>4. Weights(weights) = <<W(n)>> \o rows
  BY DEF Weights, WeightRows
<1>5. first \in [1 .. n -> Items] /\ second \in [1 .. n -> Items]
  BY <1>3, ItemsAre
<1>6. W(n) \in Items
  BY <1>1, ItemsAre
<1>7. rows = FlattenSeq(Pairs(n, first, second))
  <2>1. [k \in DOMAIN names |-> <<T(names[k]), W(weights[names[k]])>>] = Pairs(n, first, second)
    BY <1>1 DEF Pairs
  <2> QED
    BY <2>1 DEF WeightRows
<1>8. \A k \in 1 .. n : first[k].width = Text /\ second[k].width = 2
                        /\ first[k].value = names[k] /\ second[k].value = numbers[k]
  BY DEF T, W
<1>9. weights = [y \in DOMAIN weights |-> weights[y]] /\ Listed(names, weights)
  BY <1>1 DEF GoodWeights, Listed, Range
<1>10. Columns(n, first, second, Text, 2, names, numbers)
  <2>1. Text \in Nat /\ 2 \in Nat
    BY DEF Text
  <2> HIDE DEF first, second, numbers
  <2> QED
    BY <1>5, <1>8, <2>1 DEF Columns
<1> HIDE DEF first, second, rows
<1>11. ASSUME NEW after \in Cells, NEW named
       PROVE  /\ rows \in Seq(Items)
              /\ Repeated(At(Wire(rows) \o after, named), n, <<Text, 2>>) = Formats(rows)
              /\ ArePairs(Values(rows), n, names, numbers)
  <2> HIDE DEF numbers, n
  <2>1. n \in Nat
    BY <1>1
  <2> QED
    BY <1>7, <1>10, <2>1, PairsRead
<1>12. rows \in Seq(Items)
  <2>1. <<>> \in Cells
    BY DEF Cells
  <2> QED
    BY <1>11, <2>1
<1>13. ASSUME NEW after \in Cells, NEW named, named.count = n
       PROVE  Matches(x, Wire(rows) \o after, rows, after, named, weights)
  <2> DEFINE r == At(Wire(rows) \o after, named)
  <2>1. r.named.count = n
    BY <1>13 DEF At
  <2>2. Repeated(r, n, <<Text, 2>>) = Formats(rows) /\ ArePairs(Values(rows), n, names, numbers)
    BY <1>11
  <2>3. MapOf(Values(rows)) = weights
    <3> HIDE DEF names
    <3> QED
      BY <1>1, <1>9, <2>2, MapBack
  <2> HIDE DEF r
  <2>4. Format(r, x) = Formats(rows)
    <3>1. Format(r, x) = Repeated(r, r.named.count, <<Text, 2>>)
      BY DEF Format, TextParts, WeightSettings
    <3> QED
      BY <2>1, <2>2, <3>1
  <2>5. Value(r, x, Values(rows)) = weights
    <3>1. Value(r, x, Values(rows)) = MapOf(Values(rows))
      BY DEF Value, WeightSettings
    <3> QED
      BY <2>3, <3>1
  <2>6. x # "size"
    BY DEF WeightSettings
  <2> QED
    BY <1>12, <2>4, <2>5, <2>6 DEF Matches, r
<1>14. <<W(n)>> \in Seq(Items)
  BY <1>6, OneItem
<1> QED
  BY <1>1, <1>4, <1>12, <1>13, <1>14 DEF n, names, rows

-----------------------------------------------------------------------------
(* Anchor points, and the parts up to the overrides *)

PointRows(points) == FlattenSeq([k \in DOMAIN points |-> AnchorPoint(points[k])])

LEMMA PointsAre ==
    ASSUME NEW points \in Seq(AnchorPoints)
    PROVE  /\ PointRows(points) \in Seq(Items)
           /\ \A after \in Cells : \A named :
                 named.count = Len(points) =>
                    Matches("anchorPoints", Wire(PointRows(points)) \o after, PointRows(points),
                            after, named, points)
<1> DEFINE n == Len(points)
           ss == [k \in DOMAIN points |-> AnchorPoint(points[k])]
           rows == PointRows(points)
           format == <<Text, Text, 2, 2>>
<1>1. n \in Nat /\ DOMAIN points = 1 .. n /\ \A k \in 1 .. n : points[k] \in AnchorPoints
  BY ElementOfSeq
<1>2. ASSUME NEW p \in AnchorPoints
      PROVE  /\ AnchorPoint(p) \in Seq(Items) /\ Len(AnchorPoint(p)) = 4
             /\ \A j \in 1 .. 4 : AnchorPoint(p)[j].width = format[j]
             /\ AnchorPoint(p)[1].value = p.lattitudeAttributeName
             /\ AnchorPoint(p)[2].value = p.longitudeAttributeName
             /\ AnchorPoint(p)[3].value = p.lattitude
             /\ AnchorPoint(p)[4].value = p.longitude
  <2>1. /\ p.lattitudeAttributeName \in Texts /\ p.longitudeAttributeName \in Texts
        /\ p.lattitude \in Numbers /\ p.longitude \in Numbers
    BY DEF AnchorPoints
  <2>2. /\ T(p.lattitudeAttributeName) \in Items /\ T(p.longitudeAttributeName) \in Items
        /\ W(p.lattitude) \in Items /\ W(p.longitude) \in Items
    BY <2>1, ItemsAre
  <2>3. AnchorPoint(p) \in Seq(Items) /\ Len(AnchorPoint(p)) = 4
    BY <2>2 DEF AnchorPoint
  <2> QED
    BY <2>3 DEF AnchorPoint, T, W
<1>3. ss \in Seq(Seq(Items)) /\ Len(ss) = n /\ \A k \in 1 .. n : ss[k] = AnchorPoint(points[k])
  <2>1. ss \in [1 .. n -> Seq(Items)]
    BY <1>1, <1>2
  <2>2. Len(ss) = n
    BY <1>1, <2>1
  <2> QED
    BY <1>1, <2>1, <2>2, SeqDef
<1>4. rows = FlattenSeq(ss)
  BY DEF PointRows
<1> HIDE DEF ss, rows
<1>5. /\ rows \in Seq(Items) /\ Len(rows) = 4 * n
      /\ \A k \in 1 .. n : \A j \in 1 .. 4 : rows[4 * (k - 1) + j] = ss[k][j]
  <2>1. 4 \in Nat /\ \A k \in 1 .. Len(ss) : Len(ss[k]) = 4
    BY <1>1, <1>2, <1>3
  <2>2. /\ FlattenSeq(ss) \in Seq(Items) /\ Len(FlattenSeq(ss)) = 4 * Len(ss)
        /\ \A k \in 1 .. Len(ss) : \A j \in 1 .. 4 : FlattenSeq(ss)[4 * (k - 1) + j] = ss[k][j]
    BY <1>3, <2>1, RowsPlaced, ZenonT(30)
  <2> QED
    BY <1>3, <1>4, <2>2
<1>6. format \in Seq(Nat) /\ Len(format) = 4
  BY DEF Text
<1>7. \A k \in 1 .. n : \A j \in 1 .. 4 : ss[k][j].width = format[j]
  <2> HIDE DEF format
  <2> QED
    BY <1>1, <1>2, <1>3
<1> HIDE DEF format
<1>8. InRows(rows, n, format)
  <2>1. ASSUME NEW k \in 1 .. n, NEW j \in 1 .. 4
        PROVE  rows[4 * (k - 1) + j].width = format[j]
    BY <1>5, <1>7
  <2>2. Len(rows) = Len(format) * n
    BY <1>5, <1>6
  <2> QED
    BY <1>6, <2>1, <2>2 DEF InRows
<1>9. Len(Values(rows)) = 4 * n /\ \A k \in 1 .. 4 * n : Values(rows)[k] = rows[k].value
  BY <1>5, FormatsTyped
<1>10. ASSUME NEW k \in 1 .. n, NEW j \in 1 .. 4
       PROVE  Values(rows)[4 * (k - 1) + j] = AnchorPoint(points[k])[j].value
  <2>1. 4 * (k - 1) + j \in 1 .. 4 * n
    BY <1>1
  <2> QED
    BY <1>3, <1>5, <1>9, <2>1
<1>11. PointsOf(Values(rows)) = points
  <2> DEFINE got == Values(rows)
             point(k) == [lattitudeAttributeName |-> got[4 * k - 3],
                          longitudeAttributeName |-> got[4 * k - 2],
                          lattitude |-> got[4 * k - 1], longitude |-> got[4 * k]]
  <2>1. Len(got) \div 4 = n
    <3> DEFINE l == Len(got)
    <3>1. l = 4 * n
      BY <1>9
    <3>2. n \in Nat
      BY <1>1
    <3> HIDE DEF l, n
    <3>3. l \div 4 = n
      BY <3>1, <3>2
    <3> QED
      BY <3>3 DEF l
  <2>2. ASSUME NEW k \in 1 .. n
        PROVE  point(k) = points[k]
    <3>1. /\ 4 * k - 3 = 4 * (k - 1) + 1 /\ 4 * k - 2 = 4 * (k - 1) + 2
          /\ 4 * k - 1 = 4 * (k - 1) + 3 /\ 4 * k = 4 * (k - 1) + 4
      OBVIOUS
    <3>2. /\ got[4 * k - 3] = AnchorPoint(points[k])[1].value
          /\ got[4 * k - 2] = AnchorPoint(points[k])[2].value
          /\ got[4 * k - 1] = AnchorPoint(points[k])[3].value
          /\ got[4 * k] = AnchorPoint(points[k])[4].value
      <4>1. 1 \in 1 .. 4 /\ 2 \in 1 .. 4 /\ 3 \in 1 .. 4 /\ 4 \in 1 .. 4
        OBVIOUS
      <4>2. /\ got[4 * (k - 1) + 1] = AnchorPoint(points[k])[1].value
            /\ got[4 * (k - 1) + 2] = AnchorPoint(points[k])[2].value
            /\ got[4 * (k - 1) + 3] = AnchorPoint(points[k])[3].value
            /\ got[4 * (k - 1) + 4] = AnchorPoint(points[k])[4].value
        BY <1>10, <4>1
      <4> QED
        BY <3>1, <4>2
    <3>3. points[k] \in AnchorPoints
      BY <1>1
    <3> HIDE DEF got
    <3>4. point(k) = [lattitudeAttributeName |-> points[k].lattitudeAttributeName,
                      longitudeAttributeName |-> points[k].longitudeAttributeName,
                      lattitude |-> points[k].lattitude, longitude |-> points[k].longitude]
      BY <1>2, <3>2, <3>3
    <3> HIDE DEF point
    <3> QED
      BY <3>3, <3>4 DEF AnchorPoints
  <2>3. PointsOf(got) = [k \in 1 .. Len(got) \div 4 |-> point(k)]
    BY DEF PointsOf
  <2> HIDE DEF got, point
  <2>4. points = [k \in 1 .. n |-> points[k]]
    BY <1>1
  <2> QED
    BY <2>1, <2>2, <2>3, <2>4 DEF got
<1>12. ASSUME NEW after \in Cells, NEW named, named.count = n
       PROVE  Matches("anchorPoints", Wire(rows) \o after, rows, after, named, points)
  <2> DEFINE r == At(Wire(rows) \o after, named)
  <2>1. r.named.count = n
    BY <1>12 DEF At
  <2>2. Repeated(r, n, format) = Formats(rows)
    <3>1. Len(format) \in {1, 2, 4}
      BY <1>6
    <3> HIDE DEF n
    <3>2. n \in Nat
      BY <1>1
    <3> QED
      BY <1>5, <1>6, <1>8, <3>1, <3>2, RepeatedIs
  <2> HIDE DEF r
  <2>3. Format(r, "anchorPoints") = Formats(rows)
    <3>1. Format(r, "anchorPoints") = Repeated(r, r.named.count, format)
      BY DEF Format, TextParts, format
    <3> QED
      BY <2>1, <2>2, <3>1
  <2>4. Value(r, "anchorPoints", Values(rows)) = points
    BY <1>11 DEF Value
  <2> QED
    BY <1>5, <2>3, <2>4 DEF Matches, r
<1> QED
  BY <1>5, <1>12 DEF rows

BackNames ==
    {"groupFunction", "groupBy", "maxMatches", "groupSort", "searchCutOff", "distRetryCount",
     "distRetryDelay", "groupDistinctAttribute", "anchorPoints", "indexWeights", "maxQueryTime",
     "fieldWeights", "queryComment"}

BackSingles(attrs) ==
    <<W(attrs.groupFunction), T(attrs.groupBy), W(attrs.maxMatches), T(attrs.groupSort),
      W(attrs.searchCutOff), W(attrs.distRetryCount), W(attrs.distRetryDelay),
      T(attrs.groupDistinctAttribute), W(Len(attrs.anchorPoints))>>

LEMMA BackShape ==
    ASSUME NEW attrs, GoodAttrs(attrs)
    PROVE  /\ BackSingles(attrs) \in Seq(Items) /\ Len(BackSingles(attrs)) = 9
           /\ <<W(attrs.maxQueryTime)>> \in Seq(Items) /\ <<T(attrs.queryComment)>> \in Seq(Items)
           /\ attrs.anchorPoints \in Seq(AnchorPoints)
           /\ GoodWeights("indexWeights", attrs.indexWeights)
           /\ GoodWeights("fieldWeights", attrs.fieldWeights)
           /\ BeforeOverrides(attrs) =
                ((((BackSingles(attrs) \o PointRows(attrs.anchorPoints)) \o Weights(attrs.indexWeights))
                  \o <<W(attrs.maxQueryTime)>>) \o Weights(attrs.fieldWeights))
                \o <<T(attrs.queryComment)>>
<1>1. /\ \A x \in NumberSettings : attrs[x] \in Numbers
      /\ \A x \in TextSettings : attrs[x] \in Texts
      /\ \A x \in WeightSettings : GoodWeights(x, attrs[x])
      /\ attrs.anchorPoints \in Seq(AnchorPoints) /\ Len(attrs.anchorPoints) < WordLimit
  BY DEF GoodAttrs, GoodSettings
<1>2. /\ attrs.groupFunction \in Numbers /\ attrs.maxMatches \in Numbers
      /\ attrs.searchCutOff \in Numbers /\ attrs.distRetryCount \in Numbers
      /\ attrs.distRetryDelay \in Numbers /\ attrs.maxQueryTime \in Numbers
      /\ attrs.groupBy \in Texts /\ attrs.groupSort \in Texts
      /\ attrs.groupDistinctAttribute \in Texts /\ attrs.queryComment \in Texts
  BY <1>1 DEF NumberSettings, TextSettings
<1>3. Len(attrs.anchorPoints) \in Numbers
  <2>1. Len(attrs.anchorPoints) \in Nat
    BY <1>1
  <2> QED
    BY <1>1, <2>1, Limits
<1>4. /\ W(attrs.groupFunction) \in Items /\ T(attrs.groupBy) \in Items
      /\ W(attrs.maxMatches) \in Items /\ T(attrs.groupSort) \in Items
      /\ W(attrs.searchCutOff) \in Items /\ W(attrs.distRetryCount) \in Items
      /\ W(attrs.distRetryDelay) \in Items /\ T(attrs.groupDistinctAttribute) \in Items
      /\ W(Len(attrs.anchorPoints)) \in Items
      /\ W(attrs.maxQueryTime) \in Items /\ T(attrs.queryComment) \in Items
  BY <1>2, <1>3, ItemsAre
<1>5. BackSingles(attrs) \in Seq(Items) /\ Len(BackSingles(attrs)) = 9
  BY <1>4 DEF BackSingles
<1>6. <<W(attrs.maxQueryTime)>> \in Seq(Items) /\ <<T(attrs.queryComment)>> \in Seq(Items)
  BY <1>4, OneItem
<1>7. /\ GoodWeights("indexWeights", attrs.indexWeights)
      /\ GoodWeights("fieldWeights", attrs.fieldWeights)
  BY <1>1 DEF WeightSettings
<1>8. BeforeOverrides(attrs) =
                ((((BackSingles(attrs) \o PointRows(attrs.anchorPoints)) \o Weights(attrs.indexWeights))
                  \o <<W(attrs.maxQueryTime)>>) \o Weights(attrs.fieldWeights))
                \o <<T(attrs.queryComment)>>
  BY DEF BeforeOverrides, BackSingles, PointRows
<1> QED
  BY <1>1, <1>5, <1>6, <1>7, <1>8

\* What is left of joined items when the first are taken.
Splits(a, b, tail) ==
    /\ a \o b \in Seq(Items) /\ Wire(a) \o tail \in Cells /\ Wire(b) \o tail \in Cells
    /\ Wire(a \o b) \o tail = Wire(a) \o (Wire(b) \o tail)
LEMMA ItemsSplit ==
    ASSUME NEW a \in Seq(Items), NEW b \in Seq(Items), NEW tail \in Cells
    PROVE  Splits(a, b, tail)
<1>1. a \o b \in Seq(Items)
  BY Together
<1>2. /\ Wire(a \o b) \o tail = Wire(a) \o (Wire(b) \o tail)
      /\ Wire(a) \o tail \in Cells /\ Wire(b) \o tail \in Cells
  BY WireThen
<1> QED
  BY <1>1, <1>2 DEF Splits

\* What is left where the parts behind the filters are read.
AreBack(items, e, whole, t) ==
    /\ \A k \in 1 .. 8 : items[k] \in Seq(Items)
    /\ t \in Cells
    /\ e[5] = Wire(items[8]) \o t /\ e[4] = Wire(items[7]) \o e[5]
    /\ e[3] = Wire(items[5] \o items[6]) \o e[4] /\ e[2] = Wire(items[4]) \o e[3]
    /\ e[1] = Wire(items[3]) \o e[2] /\ e[0] = Wire(items[2]) \o e[1]
    /\ whole = ((((items[1] \o items[2]) \o (items[3] \o items[4])) \o items[5])
                \o (items[6] \o items[7])) \o items[8]
LEMMA BackWired ==
    ASSUME NEW items, NEW e, NEW whole, NEW t, AreBack(items, e, whole, t)
    PROVE  /\ whole \in Seq(Items) /\ Wire(whole) \o t = Wire(items[1]) \o e[0]
           /\ \A k \in 0 .. 5 : e[k] \in Cells
<1> DEFINE i1 == items[1]
           points == items[2]
           j2 == items[3]
           r2 == items[4]
           i3 == items[5]
           j4 == items[6]
           r4 == items[7]
           i5 == items[8]
<1>a. t \in Cells /\ \A k \in 1 .. 8 : items[k] \in Seq(Items)
  BY ZenonT(30) DEF AreBack
<1>0. /\ i1 \in Seq(Items) /\ points \in Seq(Items) /\ j2 \in Seq(Items) /\ r2 \in Seq(Items)
      /\ i3 \in Seq(Items) /\ j4 \in Seq(Items) /\ r4 \in Seq(Items) /\ i5 \in Seq(Items)
      /\ t \in Cells
  BY <1>a
<1>e. /\ e[5] = Wire(i5) \o t /\ e[4] = Wire(r4) \o e[5]
      /\ e[3] = Wire(i3 \o j4) \o e[4] /\ e[2] = Wire(r2) \o e[3]
      /\ e[1] = Wire(j2) \o e[2] /\ e[0] = Wire(points) \o e[1]
      /\ whole = ((((i1 \o points) \o (j2 \o r2)) \o i3) \o (j4 \o r4)) \o i5
  BY DEF AreBack
<1> HIDE DEF i1, points, j2, r2, i3, j4, r4, i5
<1> DEFINE c5 == Wire(i5) \o t
           c4 == Wire(r4) \o c5
           c34 == Wire(j4) \o c4
           c3 == Wire(i3 \o j4) \o c4
           c2 == Wire(r2) \o c3
           c1 == Wire(j2) \o c2
           c0 == Wire(points) \o c1
           g1 == i1 \o points
           g2 == g1 \o (j2 \o r2)
           g3 == g2 \o i3
           g4 == g3 \o (j4 \o r4)
           g5 == g4 \o i5
<1>1. c5 \in Cells
  BY <1>0, WireTyped, JoinTyped
<1> HIDE DEF c5
<1>2. c4 \in Cells
  BY <1>0, <1>1, WireTyped, JoinTyped
<1>3. Wire(j4 \o r4) \o c5 = c34
  <2>1. Splits(j4, r4, c5)
    BY <1>0, <1>1, ItemsSplit
  <2> QED
    BY <2>1 DEF Splits
<1> HIDE DEF c4
<1>4. c34 \in Cells /\ c3 = Wire(i3) \o c34 /\ c3 \in Cells
  <2>1. Wire(i3 \o j4) \o c4 = Wire(i3) \o (Wire(j4) \o c4) /\ Wire(j4) \o c4 \in Cells
    <3>1. Splits(i3, j4, c4)
      BY <1>0, <1>2, ItemsSplit
    <3> QED
      BY <3>1 DEF Splits
  <2>2. i3 \o j4 \in Seq(Items)
    BY <1>0, Together
  <2>3. Wire(i3 \o j4) \in Cells
    BY <2>2, WireTyped
  <2>4. c3 \in Cells
    BY <1>2, <2>3, JoinTyped
  <2> QED
    BY <2>1, <2>4
<1> HIDE DEF c34, c3
<1>5. c2 \in Cells
  BY <1>0, <1>4, WireTyped, JoinTyped
<1>6. Wire(j2 \o r2) \o c3 = c1
  <2>1. Splits(j2, r2, c3)
    BY <1>0, <1>4, ItemsSplit
  <2> QED
    BY <2>1 DEF Splits
<1> HIDE DEF c2
<1>7. c1 \in Cells
  BY <1>0, <1>5, WireTyped, JoinTyped
<1> HIDE DEF c1
<1>8. c0 \in Cells
  BY <1>0, <1>7, WireTyped, JoinTyped
<1>9. g1 \in Seq(Items) /\ Wire(g1) \o c1 = Wire(i1) \o c0
  <2>1. Splits(i1, points, c1)
    BY <1>0, <1>7, ItemsSplit
  <2> QED
    BY <2>1 DEF Splits
<1> HIDE DEF g1, c0
<1>10. g2 \in Seq(Items) /\ Wire(g2) \o c3 = Wire(g1) \o c1
  <2>1. j2 \o r2 \in Seq(Items)
    BY <1>0, Together
  <2> DEFINE m == j2 \o r2
  <2> HIDE DEF m
  <2>2. m \in Seq(Items) /\ Wire(m) \o c3 = c1
    BY <1>6, <2>1 DEF m
  <2>3. g1 \o m \in Seq(Items) /\ Wire(g1 \o m) \o c3 = Wire(g1) \o (Wire(m) \o c3)
    <3>1. Splits(g1, m, c3)
      BY <1>4, <1>9, <2>2, ItemsSplit
    <3> QED
      BY <3>1 DEF Splits
  <2> QED
    BY <2>2, <2>3 DEF m
<1> HIDE DEF g2
<1>11. g3 \in Seq(Items) /\ Wire(g3) \o c34 = Wire(g2) \o c3
  <2>1. Splits(g2, i3, c34)
    BY <1>0, <1>4, <1>10, ItemsSplit
  <2> QED
    BY <1>4, <2>1 DEF Splits
<1> HIDE DEF g3
<1>12. g4 \in Seq(Items) /\ Wire(g4) \o c5 = Wire(g3) \o c34
  <2>1. j4 \o r4 \in Seq(Items)
    BY <1>0, Together
  <2> DEFINE m == j4 \o r4
  <2> HIDE DEF m
  <2>2. m \in Seq(Items) /\ Wire(m) \o c5 = c34
    BY <1>3, <2>1 DEF m
  <2>3. g3 \o m \in Seq(Items) /\ Wire(g3 \o m) \o c5 = Wire(g3) \o (Wire(m) \o c5)
    <3>1. Splits(g3, m, c5)
      BY <1>1, <1>11, <2>2, ItemsSplit
    <3> QED
      BY <3>1 DEF Splits
  <2> QED
    BY <2>2, <2>3 DEF m
<1> HIDE DEF g4
<1>13. g5 \in Seq(Items) /\ Wire(g5) \o t = Wire(g4) \o c5
  <2>0. i5 \in Seq(Items) /\ t \in Cells
    BY <1>0
  <2>1. Splits(g4, i5, t)
    BY <1>12, <2>0, ItemsSplit
  <2> QED
    BY <2>1 DEF Splits, c5
<1>14. Wire(g5) \o t = Wire(i1) \o c0
  BY <1>9, <1>10, <1>11, <1>12, <1>13
<1>15. g5 = whole
  BY <1>e DEF g1, g2, g3, g4
<1>16. c5 = e[5]
  BY <1>e DEF c5
<1>17. c4 = e[4]
  BY <1>e, <1>16 DEF c4
<1>18. c3 = e[3]
  BY <1>e, <1>17 DEF c3
<1>19. c2 = e[2]
  BY <1>e, <1>18 DEF c2
<1>20. c1 = e[1]
  BY <1>e, <1>19 DEF c1
<1>21. c0 = e[0]
  BY <1>e, <1>20 DEF c0
<1> HIDE DEF g5
<1>22. \A k \in 0 .. 5 : e[k] \in Cells
  <2>1. /\ e[0] \in Cells /\ e[1] \in Cells /\ e[2] \in Cells /\ e[3] \in Cells
        /\ e[4] \in Cells /\ e[5] \in Cells
    BY <1>1, <1>2, <1>4, <1>5, <1>7, <1>8, <1>16, <1>17, <1>18, <1>19, <1>20, <1>21
  <2>2. \A k \in 0 .. 5 : k = 0 \/ k = 1 \/ k = 2 \/ k = 3 \/ k = 4 \/ k = 5
    OBVIOUS
  <2> QED
    BY <2>1, <2>2
<1> QED
  BY <1>13, <1>14, <1>15, <1>21, <1>22 DEF i1

\* The parts between filters and overrides are read as they were written.
LEMMA ReadsToOverrides ==
    ASSUME NEW attrs, GoodAttrs(attrs), NEW count, <<W(count)>> \in Seq(Items),
           NEW tail \in Cells, NEW query, NEW base
    PROVE  \E named :
              /\ ReadParts(At(Wire(BeforeOverrides(attrs)) \o (Wire(<<W(count)>>) \o tail), base),
                           PartsToOverrides) = At(tail, named)
              /\ Knows(named, query, attrs, BackNames)
              /\ "count" \in DOMAIN named /\ named.count = count
              /\ Keeps(named, base, BackNames \cup {"count"})
<1> DEFINE i1 == BackSingles(attrs)
           points == PointRows(attrs.anchorPoints)
           iw == attrs.indexWeights
           fw == attrs.fieldWeights
           j2 == <<W(Len(Keys(iw)))>>
           r2 == WeightRows(iw)
           i3 == <<W(attrs.maxQueryTime)>>
           j4 == <<W(Len(Keys(fw)))>>
           r4 == WeightRows(fw)
           i5 == <<T(attrs.queryComment)>>
           j6 == <<W(count)>>
           t == Wire(j6) \o tail
           c5 == Wire(i5) \o t
           c4 == Wire(r4) \o c5
           c3 == Wire(i3 \o j4) \o c4
           c2 == Wire(r2) \o c3
           c1 == Wire(j2) \o c2
           c0 == Wire(points) \o c1
           c == Wire(i1) \o c0
           r == At(Wire(BeforeOverrides(attrs)) \o t, base)
           parts == PartsToOverrides
           names == BackNames \cup {"count"}
<1>1. /\ i1 \in Seq(Items) /\ Len(i1) = 9 /\ points \in Seq(Items) /\ j2 \in Seq(Items)
      /\ r2 \in Seq(Items) /\ i3 \in Seq(Items) /\ j4 \in Seq(Items) /\ r4 \in Seq(Items)
      /\ i5 \in Seq(Items) /\ j6 \in Seq(Items)
      /\ BeforeOverrides(attrs) = ((((i1 \o points) \o (j2 \o r2)) \o i3) \o (j4 \o r4)) \o i5
  <2>1. /\ i1 \in Seq(Items) /\ Len(i1) = 9 /\ i3 \in Seq(Items) /\ i5 \in Seq(Items)
        /\ attrs.anchorPoints \in Seq(AnchorPoints)
        /\ GoodWeights("indexWeights", iw) /\ GoodWeights("fieldWeights", fw)
        /\ BeforeOverrides(attrs) =
             ((((i1 \o points) \o Weights(iw)) \o i3) \o Weights(fw)) \o i5
    BY BackShape
  <2>2. "indexWeights" \in WeightSettings /\ "fieldWeights" \in WeightSettings
    BY DEF WeightSettings
  <2> HIDE DEF i1, points, iw, fw, i3, i5
  <2>3. Weights(iw) = j2 \o r2 /\ j2 \in Seq(Items) /\ r2 \in Seq(Items)
    BY <2>1, <2>2, WeightsAre
  <2>4. Weights(fw) = j4 \o r4 /\ j4 \in Seq(Items) /\ r4 \in Seq(Items)
    BY <2>1, <2>2, WeightsAre
  <2>5. points \in Seq(Items)
    BY <2>1, PointsAre DEF points
  <2> QED
    BY <2>1, <2>3, <2>4, <2>5
<1>2. /\ t \in Cells /\ c5 \in Cells /\ c4 \in Cells /\ c3 \in Cells /\ c2 \in Cells /\ c1 \in Cells
      /\ c0 \in Cells /\ r = At(c, base)
  <2>1. t \in Cells
    BY <1>1, WireTyped, JoinTyped
  <2> HIDE DEF i1, points, j2, r2, i3, j4, r4, i5, t
  <2> DEFINE whole == ((((i1 \o points) \o (j2 \o r2)) \o i3) \o (j4 \o r4)) \o i5
  <2>2. /\ whole \in Seq(Items) /\ Wire(whole) \o t = Wire(i1) \o c0
        /\ c5 \in Cells /\ c4 \in Cells /\ c3 \in Cells /\ c2 \in Cells /\ c1 \in Cells
        /\ c0 \in Cells
    <3>1. /\ i1 \in Seq(Items) /\ points \in Seq(Items) /\ j2 \in Seq(Items)
          /\ r2 \in Seq(Items) /\ i3 \in Seq(Items) /\ j4 \in Seq(Items) /\ r4 \in Seq(Items)
          /\ i5 \in Seq(Items)
      BY <1>1
    <3>2. /\ c5 = Wire(i5) \o t /\ c4 = Wire(r4) \o c5 /\ c3 = Wire(i3 \o j4) \o c4
          /\ c2 = Wire(r2) \o c3 /\ c1 = Wire(j2) \o c2 /\ c0 = Wire(points) \o c1
          /\ whole = ((((i1 \o points) \o (j2 \o r2)) \o i3) \o (j4 \o r4)) \o i5
      OBVIOUS
    <3> HIDE DEF c0, c1, c2, c3, c4, c5, whole
    <3> DEFINE items == <<i1, points, j2, r2, i3, j4, r4, i5>>
               e == [k \in 0 .. 5 |-> IF k = 0 THEN c0 ELSE IF k = 1 THEN c1 ELSE IF k = 2 THEN c2
                                     ELSE IF k = 3 THEN c3 ELSE IF k = 4 THEN c4 ELSE c5]
    <3>3. /\ items[1] = i1 /\ items[2] = points /\ items[3] = j2 /\ items[4] = r2 /\ items[5] = i3
          /\ items[6] = j4 /\ items[7] = r4 /\ items[8] = i5
      OBVIOUS
    <3>4. /\ e[0] = c0 /\ e[1] = c1 /\ e[2] = c2 /\ e[3] = c3 /\ e[4] = c4 /\ e[5] = c5
      OBVIOUS
    <3> HIDE DEF items, e
    <3>5. \A k \in 1 .. 8 : items[k] \in Seq(Items)
      <4>1. SUFFICES ASSUME NEW k \in 1 .. 8
                     PROVE  items[k] \in Seq(Items)
        OBVIOUS
      <4>2. \/ k = 1 \/ k = 2 \/ k = 3 \/ k = 4 \/ k = 5 \/ k = 6 \/ k = 7 \/ k = 8
        OBVIOUS
      <4> QED
        BY <3>1, <3>3, <4>2
    <3>6. AreBack(items, e, whole, t)
      BY <2>1, <3>2, <3>3, <3>4, <3>5 DEF AreBack
    <3>7. /\ whole \in Seq(Items) /\ Wire(whole) \o t = Wire(items[1]) \o e[0]
          /\ \A k \in 0 .. 5 : e[k] \in Cells
      BY <3>6, BackWired
    <3>8. /\ e[0] \in Cells /\ e[1] \in Cells /\ e[2] \in Cells /\ e[3] \in Cells
          /\ e[4] \in Cells /\ e[5] \in Cells
      BY <3>7
    <3> QED
      BY <3>3, <3>4, <3>7, <3>8
  <2>3. Wire(BeforeOverrides(attrs)) \o t = c
    <3> HIDE DEF c0
    <3> QED
      BY <1>1, <2>2
  <2> QED
    BY <2>1, <2>2, <2>3
<1> HIDE DEF i1, points, j2, r2, i3, j4, r4, i5, j6
<1>3. PICK after : IsReading(after, r, parts)
  BY ReadingIs DEF PartsToOverrides
<1>4. after[0] = At(c, base) /\ ReadParts(r, parts) = after[17] /\ Len(parts) = 17
  BY <1>2, <1>3 DEF IsReading, PartsToOverrides
<1> DEFINE p1 == <<"groupFunction", "groupBy", "maxMatches", "groupSort", "searchCutOff",
                   "distRetryCount", "distRetryDelay", "groupDistinctAttribute", "count">>
           p2 == <<"count">>
           p3 == <<"maxQueryTime", "count">>
           p4 == <<"queryComment", "count">>
           v1 == <<attrs.groupFunction, attrs.groupBy, attrs.maxMatches, attrs.groupSort,
                   attrs.searchCutOff, attrs.distRetryCount, attrs.distRetryDelay,
                   attrs.groupDistinctAttribute, Len(attrs.anchorPoints)>>
           v2 == <<Len(Keys(iw))>>
           v3 == <<attrs.maxQueryTime, Len(Keys(fw))>>
           v4 == <<attrs.queryComment, count>>
<1>5. /\ ReadParts(after[0], p1) = after[9] /\ ReadPart(after[9], "anchorPoints") = after[10]
      /\ ReadParts(after[10], p2) = after[11] /\ ReadPart(after[11], "indexWeights") = after[12]
      /\ ReadParts(after[12], p3) = after[14] /\ ReadPart(after[14], "fieldWeights") = after[15]
      /\ ReadParts(after[15], p4) = after[17]
  <2>1. /\ parts[10] = "anchorPoints" /\ parts[12] = "indexWeights" /\ parts[15] = "fieldWeights"
        /\ \A k \in 1 .. 9 : p1[k] = parts[0 + k]
        /\ \A k \in 1 .. 1 : p2[k] = parts[10 + k]
        /\ \A k \in 1 .. 2 : p3[k] = parts[12 + k] /\ p4[k] = parts[15 + k]
    BY DEF PartsToOverrides
  <2>2. Len(p1) = 9 /\ Len(p2) = 1 /\ Len(p3) = 2 /\ Len(p4) = 2
    OBVIOUS
  <2>3. /\ Within(p1, parts, 0, 9) /\ Within(p2, parts, 10, 11) /\ Within(p3, parts, 12, 14)
        /\ Within(p4, parts, 15, 17)
    BY <1>4, <2>1, <2>2 DEF Within
  <2> HIDE DEF p1, p2, p3, p4, parts, r
  <2>4. Len(parts) \in Nat
    BY <1>4
  <2>5. /\ ReadParts(after[0], p1) = after[9] /\ ReadParts(after[10], p2) = after[11]
        /\ ReadParts(after[12], p3) = after[14] /\ ReadParts(after[15], p4) = after[17]
    BY <1>3, <2>3, <2>4, PartsWithin
  <2>7. ASSUME NEW from \in 0 .. 16
        PROVE  ReadPart(after[from], parts[from + 1]) = after[from + 1]
    <3>1. from \in Nat /\ from + 1 <= Len(parts)
      BY <1>4
    <3> QED
      BY <1>3, <2>4, <3>1, PartWithin
  <2>8. /\ ReadPart(after[9], parts[9 + 1]) = after[9 + 1]
        /\ ReadPart(after[11], parts[11 + 1]) = after[11 + 1]
        /\ ReadPart(after[14], parts[14 + 1]) = after[14 + 1]
    BY <2>7
  <2> QED
    BY <2>1, <2>5, <2>8
<1> HIDE DEF r, parts, t, c0, c1, c2, c3, c4, c5, iw, fw
<1>6. PICK n1 : after[9] = At(c0, n1) /\ Given(base, p1, v1, n1)
  <2>1. Len(p1) = 9 /\ \A k, l \in 1 .. 9 : p1[k] = p1[l] => k = l
    OBVIOUS
  <2>2. \A k \in 1 .. 9 : Single(p1[k], i1[k], v1[k])
    BY DEF Single, WordParts, TextParts, i1, BackSingles
  <2> HIDE DEF p1, v1
  <2>3. Singles(p1, i1, v1)
    BY <1>1, <2>1, <2>2 DEF Singles
  <2>4. \E named : ReadParts(At(Wire(i1) \o c0, base), p1) = At(c0, named) /\ Given(base, p1, v1, named)
    BY <1>1, <1>2, <2>3, SinglesRead
  <2> QED
    BY <1>4, <1>5, <2>4
<1>7. /\ n1["count"] = Len(attrs.anchorPoints)
      /\ n1["groupFunction"] = attrs.groupFunction /\ n1["groupBy"] = attrs.groupBy
      /\ n1["maxMatches"] = attrs.maxMatches /\ n1["groupSort"] = attrs.groupSort
      /\ n1["searchCutOff"] = attrs.searchCutOff /\ n1["distRetryCount"] = attrs.distRetryCount
      /\ n1["distRetryDelay"] = attrs.distRetryDelay
      /\ n1["groupDistinctAttribute"] = attrs.groupDistinctAttribute
      /\ {"groupFunction", "groupBy", "maxMatches", "groupSort", "searchCutOff", "distRetryCount",
          "distRetryDelay", "groupDistinctAttribute"} \subseteq DOMAIN n1
      /\ Keeps(n1, base, names)
  <2>1. /\ \A k \in 1 .. Len(p1) : p1[k] \in names
        /\ {p1[k] : k \in 1 .. Len(p1)} =
             {"groupFunction", "groupBy", "maxMatches", "groupSort", "searchCutOff",
              "distRetryCount", "distRetryDelay", "groupDistinctAttribute", "count"}
    BY DEF BackNames
  <2>2. \A k \in 1 .. 9 : k \in 1 .. Len(p1)
    OBVIOUS
  <2>3. /\ p1[1] = "groupFunction" /\ p1[2] = "groupBy" /\ p1[3] = "maxMatches"
        /\ p1[4] = "groupSort" /\ p1[5] = "searchCutOff" /\ p1[6] = "distRetryCount"
        /\ p1[7] = "distRetryDelay" /\ p1[8] = "groupDistinctAttribute" /\ p1[9] = "count"
        /\ v1[1] = attrs.groupFunction /\ v1[2] = attrs.groupBy /\ v1[3] = attrs.maxMatches
        /\ v1[4] = attrs.groupSort /\ v1[5] = attrs.searchCutOff /\ v1[6] = attrs.distRetryCount
        /\ v1[7] = attrs.distRetryDelay /\ v1[8] = attrs.groupDistinctAttribute
        /\ v1[9] = Len(attrs.anchorPoints)
    OBVIOUS
  <2> HIDE DEF p1, v1, names
  <2>4. Keeps(n1, base, names)
    BY <1>6, <2>1, KeepsAll, KeepsGiven
  <2>5. \A k \in 1 .. 9 : n1[p1[k]] = v1[k]
    BY <1>6, <2>2 DEF Given
  <2>6. /\ n1[p1[1]] = v1[1] /\ n1[p1[2]] = v1[2] /\ n1[p1[3]] = v1[3] /\ n1[p1[4]] = v1[4]
        /\ n1[p1[5]] = v1[5] /\ n1[p1[6]] = v1[6] /\ n1[p1[7]] = v1[7] /\ n1[p1[8]] = v1[8]
        /\ n1[p1[9]] = v1[9]
    BY <2>5
  <2>7. {p1[k] : k \in 1 .. Len(p1)} \subseteq DOMAIN n1
    BY <1>6 DEF Given
  <2> QED
    BY <2>1, <2>3, <2>4, <2>6, <2>7
<1> HIDE DEF p1, v1
<1> DEFINE n2 == With(n1, "anchorPoints", attrs.anchorPoints)
<1>8. after[10] = At(c1, n2)
  <2>1. attrs.anchorPoints \in Seq(AnchorPoints)
    BY BackShape
  <2>2. Matches("anchorPoints", Wire(points) \o c1, points, c1, n1, attrs.anchorPoints)
    BY <1>2, <1>7, <2>1, PointsAre DEF points
  <2>3. Matches("anchorPoints", c0, points, c1, n1, attrs.anchorPoints)
    BY <2>2 DEF c0
  <2> QED
    BY <1>5, <1>6, <2>3, MatchesRead
<1>9. /\ n2["anchorPoints"] = attrs.anchorPoints
      /\ DOMAIN n2 = DOMAIN n1 \cup {"anchorPoints"}
      /\ \A x \in DOMAIN n1 : x # "anchorPoints" => n2[x] = n1[x]
      /\ Keeps(n2, base, names)
  <2>1. "anchorPoints" \in names
    BY DEF BackNames
  <2>2. Keeps(n2, base, names)
    <3> HIDE DEF names
    <3> QED
      BY <1>7, <2>1, KeepsWith
  <2> QED
    BY <2>2 DEF With
<1> HIDE DEF n2
<1>10. PICK n3 : after[11] = At(c2, n3) /\ Given(n2, p2, v2, n3)
  <2>1. Len(p2) = 1 /\ \A k, l \in 1 .. 1 : p2[k] = p2[l] => k = l
    OBVIOUS
  <2>2. Len(j2) = 1 /\ \A k \in 1 .. 1 : Single(p2[k], j2[k], v2[k])
    BY DEF Single, WordParts, TextParts, j2
  <2> HIDE DEF p2, v2
  <2>3. Singles(p2, j2, v2)
    BY <1>1, <2>1, <2>2 DEF Singles
  <2>4. \E named : ReadParts(At(Wire(j2) \o c2, n2), p2) = At(c2, named) /\ Given(n2, p2, v2, named)
    BY <1>1, <1>2, <2>3, SinglesRead, ZenonT(30)
  <2> QED
    BY <1>5, <1>8, <2>4 DEF c1
<1>11. /\ n3["count"] = Len(Keys(iw))
       /\ DOMAIN n3 = DOMAIN n2 \cup {"count"}
       /\ \A x \in DOMAIN n2 : x # "count" => n3[x] = n2[x]
       /\ Keeps(n3, base, names)
  <2>1. /\ {p2[k] : k \in 1 .. Len(p2)} = {"count"} /\ p2[1] = "count" /\ v2[1] = Len(Keys(iw))
        /\ 1 \in 1 .. Len(p2) /\ \A k \in 1 .. Len(p2) : p2[k] \in names
    OBVIOUS
  <2> HIDE DEF p2, v2, names
  <2>2. Keeps(n3, base, names)
    BY <1>9, <1>10, <2>1, KeepsGiven
  <2>3. n3["count"] = Len(Keys(iw)) /\ DOMAIN n3 = DOMAIN n2 \cup {"count"}
    BY <1>10, <2>1 DEF Given
  <2>4. \A x \in DOMAIN n2 : x # "count" => n3[x] = n2[x]
    <3>1. \A k \in 1 .. Len(p2) : p2[k] = "count"
      BY <2>1
    <3> QED
      BY <1>10, <3>1 DEF Given
  <2> QED
    BY <2>2, <2>3, <2>4
<1> HIDE DEF p2, v2
<1> DEFINE n4 == With(n3, "indexWeights", iw)
<1>12. GoodWeights("indexWeights", iw) /\ GoodWeights("fieldWeights", fw)
       /\ "indexWeights" \in WeightSettings /\ "fieldWeights" \in WeightSettings
  BY BackShape DEF iw, fw, WeightSettings
<1>13. after[12] = At(c3, n4)
  <2>2. Matches("indexWeights", Wire(r2) \o c3, r2, c3, n3, iw)
    <3>1. \A x \in Cells : \A named :
             named.count = Len(Keys(iw)) =>
                Matches("indexWeights", Wire(WeightRows(iw)) \o x, WeightRows(iw), x, named, iw)
      BY <1>12, WeightsAre
    <3> QED
      BY <1>2, <1>11, <3>1 DEF r2
  <2>3. Matches("indexWeights", c2, r2, c3, n3, iw)
    BY <2>2 DEF c2
  <2> QED
    BY <1>5, <1>10, <2>3, MatchesRead
<1>14. /\ n4["indexWeights"] = iw
       /\ DOMAIN n4 = DOMAIN n3 \cup {"indexWeights"}
       /\ \A x \in DOMAIN n3 : x # "indexWeights" => n4[x] = n3[x]
       /\ Keeps(n4, base, names)
  <2>1. "indexWeights" \in names
    BY DEF BackNames
  <2>2. Keeps(n4, base, names)
    <3> HIDE DEF names
    <3> QED
      BY <1>11, <2>1, KeepsWith
  <2> QED
    BY <2>2 DEF With
<1> HIDE DEF n4
<1>15. PICK n5 : after[14] = At(c4, n5) /\ Given(n4, p3, v3, n5)
  <2>1. Len(p3) = 2 /\ \A k, l \in 1 .. 2 : p3[k] = p3[l] => k = l
    OBVIOUS
  <2> DEFINE items == i3 \o j4
  <2>2. items = <<W(attrs.maxQueryTime), W(Len(Keys(fw)))>> /\ items \in Seq(Items)
    BY <1>1, TwoItems, Together DEF i3, j4
  <2> HIDE DEF items
  <2>3. Len(items) = 2 /\ \A k \in 1 .. 2 : Single(p3[k], items[k], v3[k])
    BY <2>2 DEF Single, WordParts, TextParts
  <2> HIDE DEF p3, v3
  <2>4. Singles(p3, items, v3)
    BY <2>1, <2>3 DEF Singles
  <2>5. \E named : ReadParts(At(Wire(items) \o c4, n4), p3) = At(c4, named) /\ Given(n4, p3, v3, named)
    BY <1>2, <2>2, <2>4, SinglesRead
  <2> QED
    BY <1>5, <1>13, <2>5 DEF c3, items
<1>16. /\ n5["maxQueryTime"] = attrs.maxQueryTime /\ n5["count"] = Len(Keys(fw))
       /\ DOMAIN n5 = DOMAIN n4 \cup {"maxQueryTime", "count"}
       /\ \A x \in DOMAIN n4 : x \notin {"maxQueryTime", "count"} => n5[x] = n4[x]
       /\ Keeps(n5, base, names)
  <2>1. /\ {p3[k] : k \in 1 .. Len(p3)} = {"maxQueryTime", "count"}
        /\ p3[1] = "maxQueryTime" /\ v3[1] = attrs.maxQueryTime
        /\ p3[2] = "count" /\ v3[2] = Len(Keys(fw))
        /\ 1 \in 1 .. Len(p3) /\ 2 \in 1 .. Len(p3) /\ \A k \in 1 .. Len(p3) : p3[k] \in names
    BY DEF BackNames
  <2> HIDE DEF p3, v3, names
  <2>2. Keeps(n5, base, names)
    BY <1>14, <1>15, <2>1, KeepsGiven
  <2> QED
    BY <1>15, <2>1, <2>2 DEF Given
<1> HIDE DEF p3, v3
<1> DEFINE n6 == With(n5, "fieldWeights", fw)
<1>17. after[15] = At(c5, n6)
  <2>2. Matches("fieldWeights", Wire(r4) \o c5, r4, c5, n5, fw)
    <3>1. \A x \in Cells : \A named :
             named.count = Len(Keys(fw)) =>
                Matches("fieldWeights", Wire(WeightRows(fw)) \o x, WeightRows(fw), x, named, fw)
      BY <1>12, WeightsAre
    <3> QED
      BY <1>2, <1>16, <3>1 DEF r4
  <2>3. Matches("fieldWeights", c4, r4, c5, n5, fw)
    BY <2>2 DEF c4
  <2> QED
    BY <1>5, <1>15, <2>3, MatchesRead
<1>18. /\ n6["fieldWeights"] = fw
       /\ DOMAIN n6 = DOMAIN n5 \cup {"fieldWeights"}
       /\ \A x \in DOMAIN n5 : x # "fieldWeights" => n6[x] = n5[x]
       /\ Keeps(n6, base, names)
  <2>1. "fieldWeights" \in names
    BY DEF BackNames
  <2>2. Keeps(n6, base, names)
    <3> HIDE DEF names
    <3> QED
      BY <1>16, <2>1, KeepsWith
  <2> QED
    BY <2>2 DEF With
<1> HIDE DEF n6
<1>19. PICK n7 : after[17] = At(tail, n7) /\ Given(n6, p4, v4, n7)
  <2>1. Len(p4) = 2 /\ \A k, l \in 1 .. 2 : p4[k] = p4[l] => k = l
    OBVIOUS
  <2> DEFINE items == i5 \o j6
  <2>2. items = <<T(attrs.queryComment), W(count)>> /\ items \in Seq(Items)
    BY <1>1, TwoItems, Together DEF i5, j6
  <2>3. Wire(items) \o tail = c5
    <3>1. Splits(i5, j6, tail)
      BY <1>1, ItemsSplit
    <3> QED
      BY <3>1 DEF Splits, c5, t
  <2> HIDE DEF items
  <2>4. Len(items) = 2 /\ \A k \in 1 .. 2 : Single(p4[k], items[k], v4[k])
    BY <2>2 DEF Single, WordParts, TextParts
  <2> HIDE DEF p4, v4
  <2>5. Singles(p4, items, v4)
    BY <2>1, <2>4 DEF Singles
  <2>6. \E named : ReadParts(At(Wire(items) \o tail, n6), p4) = At(tail, named) /\ Given(n6, p4, v4, named)
    BY <2>2, <2>5, SinglesRead
  <2> QED
    BY <1>5, <1>17, <2>3, <2>6
<1>20. /\ n7["queryComment"] = attrs.queryComment /\ n7["count"] = count
       /\ DOMAIN n7 = DOMAIN n6 \cup {"queryComment", "count"}
       /\ \A x \in DOMAIN n6 : x \notin {"queryComment", "count"} => n7[x] = n6[x]
       /\ Keeps(n7, base, names)
  <2>1. /\ {p4[k] : k \in 1 .. Len(p4)} = {"queryComment", "count"}
        /\ p4[1] = "queryComment" /\ v4[1] = attrs.queryComment
        /\ p4[2] = "count" /\ v4[2] = count
        /\ 1 \in 1 .. Len(p4) /\ 2 \in 1 .. Len(p4) /\ \A k \in 1 .. Len(p4) : p4[k] \in names
    BY DEF BackNames
  <2> HIDE DEF p4, v4, names
  <2>2. Keeps(n7, base, names)
    BY <1>18, <1>19, <2>1, KeepsGiven
  <2> QED
    BY <1>19, <2>1, <2>2 DEF Given
<1> HIDE DEF p4, v4
<1>21. BackNames \subseteq DOMAIN n7 /\ "count" \in DOMAIN n7
  BY <1>7, <1>9, <1>11, <1>14, <1>16, <1>18, <1>20 DEF BackNames
<1>22. /\ n7["groupFunction"] = attrs.groupFunction /\ n7["groupBy"] = attrs.groupBy
       /\ n7["maxMatches"] = attrs.maxMatches /\ n7["groupSort"] = attrs.groupSort
       /\ n7["searchCutOff"] = attrs.searchCutOff /\ n7["distRetryCount"] = attrs.distRetryCount
       /\ n7["distRetryDelay"] = attrs.distRetryDelay
       /\ n7["groupDistinctAttribute"] = attrs.groupDistinctAttribute
  BY <1>7, <1>9, <1>11, <1>14, <1>16, <1>18, <1>20
<1>23. /\ n7["anchorPoints"] = attrs.anchorPoints /\ n7["indexWeights"] = iw
       /\ n7["maxQueryTime"] = attrs.maxQueryTime /\ n7["fieldWeights"] = fw
       /\ n7["queryComment"] = attrs.queryComment
  BY <1>9, <1>11, <1>14, <1>16, <1>18, <1>20
<1>24. Knows(n7, query, attrs, BackNames)
  <2>1. \A s \in BackNames : Told(attrs, s) = attrs[s] /\ s # "query"
    BY DEF BackNames, Told
  <2> QED
    BY <1>21, <1>22, <1>23, <2>1 DEF Knows, BackNames, iw, fw
<1>25. ReadParts(r, parts) = At(tail, n7)
  BY <1>4, <1>19
<1> QED
  BY <1>20, <1>21, <1>24, <1>25 DEF r, parts, t, j6

-----------------------------------------------------------------------------
(* Overrides *)

\* The values that an override has for documents are of the type of its attribute.
Suits(o) == \A d \in DOMAIN o.values : o.values[d].type = ValueType(o.type)
\* What an override tells.
ToldOf(o) == [type |-> o.type, values |-> [d \in DOMAIN o.values |-> o.values[d].number]]

OverrideHead(name, o) == <<T(name), W(o.type), W(Len(Keys(o.values)))>>
OverrideRows(o) ==
    LET documents == Keys(o.values)
    IN FlattenSeq([k \in DOMAIN documents |->
                     <<L(documents[k]), OverrideValue(o.values[documents[k]])>>])

LEMMA DocumentsAre ==
    ASSUME NEW o, GoodOverride(o)
    PROVE  LET documents == Keys(o.values)
           IN /\ documents \in Seq(DOMAIN o.values) /\ Len(documents) \in Numbers
              /\ DOMAIN documents = 1 .. Len(documents) /\ Len(documents) \in Nat
              /\ \A k \in 1 .. Len(documents) : /\ documents[k] \in DOMAIN o.values
                                                /\ documents[k] \in LongNumbers
                                                /\ o.values[documents[k]] \in OverrideValues
              /\ Listed(documents, [d \in DOMAIN o.values |-> o.values[d].number])
<1> DEFINE documents == Keys(o.values)
<1>1. DOMAIN o.values \subseteq Documents /\ o.values \in [DOMAIN o.values -> OverrideValues]
  BY DEF GoodOverride
<1>2. Counted(Documents) /\ Documents \subseteq LongNumbers
  BY SettingsAssumption
<1>3. /\ documents \in Seq(DOMAIN o.values) /\ Range(documents) = DOMAIN o.values
      /\ Len(documents) \in Numbers
      /\ \A k, l \in DOMAIN documents : documents[k] = documents[l] => k = l
  BY <1>1, <1>2, KeysAre
<1> HIDE DEF documents
<1>4. DOMAIN documents = 1 .. Len(documents) /\ Len(documents) \in Nat
  BY <1>3
<1>5. \A k \in 1 .. Len(documents) : documents[k] \in DOMAIN o.values
  BY <1>3, ElementOfSeq
<1>6. DOMAIN o.values = {documents[k] : k \in 1 .. Len(documents)}
  BY <1>3, <1>4 DEF Range
<1>7. Listed(documents, [d \in DOMAIN o.values |-> o.values[d].number])
  BY <1>3, <1>4, <1>6 DEF Listed
<1>8. \A k \in 1 .. Len(documents) : documents[k] \in LongNumbers /\ o.values[documents[k]] \in OverrideValues
  BY <1>1, <1>2, <1>5
<1> QED
  BY <1>3, <1>4, <1>5, <1>7, <1>8 DEF documents

LEMMA HeadIs ==
    ASSUME NEW o, GoodOverride(o), NEW name \in Overridden
    PROVE  /\ OverrideHead(name, o) \in Seq(Items) /\ Len(OverrideHead(name, o)) = 3
           /\ Override(name, o.type, o.values) = OverrideHead(name, o) \o OverrideRows(o)
<1>1. name \in Texts /\ o.type \in Numbers /\ Len(Keys(o.values)) \in Numbers
  BY SettingsAssumption, DocumentsAre DEF GoodOverride
<1>2. T(name) \in Items /\ W(o.type) \in Items /\ W(Len(Keys(o.values))) \in Items
  BY <1>1, ItemsAre
<1>3. \A a, b, c \in Items : <<a, b, c>> \in Seq(Items) /\ Len(<<a, b, c>>) = 3
  OBVIOUS
<1>4. OverrideHead(name, o) \in Seq(Items) /\ Len(OverrideHead(name, o)) = 3
  BY <1>2, <1>3 DEF OverrideHead
<1>5. Override(name, o.type, o.values) = OverrideHead(name, o) \o OverrideRows(o)
  BY DEF Override, OverrideHead, OverrideRows
<1> QED
  BY <1>4, <1>5

\* The values are read as numbers, in the width of the attribute.
LEMMA RowsAre ==
    ASSUME NEW o, GoodOverride(o), Suits(o)
    PROVE  /\ OverrideRows(o) \in Seq(Items)
           /\ \A after \in Cells : \A named :
                 (named.documents = Len(Keys(o.values)) /\ named.type = o.type) =>
                    Matches("attributeOverrides", Wire(OverrideRows(o)) \o after, OverrideRows(o),
                            after, named, With(named.attributeOverrides, named.attrName, ToldOf(o)))
<1> DEFINE documents == Keys(o.values)
           n == Len(documents)
           w == IF o.type = SPH_ATTR_BIGINT THEN 4 ELSE 2
           first == [k \in 1 .. n |-> L(documents[k])]
           second == [k \in 1 .. n |-> OverrideValue(o.values[documents[k]])]
           map == [d \in DOMAIN o.values |-> o.values[d].number]
           numbers == [k \in 1 .. n |-> map[documents[k]]]
           rows == OverrideRows(o)
<1>1. /\ documents \in Seq(DOMAIN o.values) /\ n \in Numbers
      /\ DOMAIN documents = 1 .. n /\ n \in Nat
      /\ \A k \in 1 .. n : /\ documents[k] \in DOMAIN o.values
                           /\ documents[k] \in LongNumbers
                           /\ o.values[documents[k]] \in OverrideValues
      /\ Listed(documents, map)
  BY DocumentsAre
<1> HIDE DEF documents
<1>2. ASSUME NEW k \in 1 .. n
      PROVE  /\ first[k] \in Items /\ first[k].width = 4 /\ first[k].value = documents[k]
             /\ second[k] \in Items /\ second[k].width = w /\ second[k].value = numbers[k]
  <2> DEFINE value == o.values[documents[k]]
  <2>1. value \in OverrideValues /\ value.type = ValueType(o.type)
    BY <1>1 DEF Suits
  <2>2. first[k] \in Items /\ first[k].width = 4 /\ first[k].value = documents[k]
    BY <1>1, ItemsAre DEF L
  <2>3. numbers[k] = value.number
    BY <1>1
  <2>4. second[k] = OverrideValue(value)
    OBVIOUS
  <2> HIDE DEF value, numbers, second
  <2>5. OverrideValue(value) \in Items /\ OverrideValue(value).width = w
        /\ OverrideValue(value).value = value.number
    <3>1. CASE o.type = SPH_ATTR_BIGINT
      <4>1. value.type = "uint64"
        BY <2>1, <3>1 DEF ValueType, SPH_ATTR_BIGINT, SPH_ATTR_FLOAT
      <4>2. value.number \in LongNumbers
        BY <2>1, <4>1 DEF OverrideValues
      <4>3. OverrideValue(value) = L(value.number)
        BY <4>1 DEF OverrideValue
      <4> QED
        BY <3>1, <4>2, <4>3, ItemsAre DEF L
    <3>2. CASE o.type # SPH_ATTR_BIGINT
      <4>1. value.type \in {"uint32", "float"}
        BY <2>1, <3>2 DEF ValueType
      <4>2. value.number \in Numbers
        BY <2>1, <4>1 DEF OverrideValues
      <4>3. OverrideValue(value) = W(value.number)
        BY <4>1 DEF OverrideValue
      <4> QED
        BY <3>2, <4>2, <4>3, ItemsAre DEF W
    <3> QED
      BY <3>1, <3>2
  <2> QED
    BY <2>2, <2>3, <2>4, <2>5
<1>3. rows = FlattenSeq(Pairs(n, first, second))
  <2>1. [k \in DOMAIN documents |-> <<L(documents[k]), OverrideValue(o.values[documents[k]])>>]
          = Pairs(n, first, second)
    BY <1>1 DEF Pairs
  <2> QED
    BY <2>1 DEF OverrideRows, documents
<1>4. w \in Nat /\ 4 \in Nat
  OBVIOUS
<1>5. first = [k \in 1 .. n |-> first[k]] /\ second = [k \in 1 .. n |-> second[k]]
  OBVIOUS
<1>6. numbers = [k \in 1 .. n |-> map[documents[k]]] /\ map = [x \in DOMAIN map |-> map[x]]
  OBVIOUS
<1> HIDE DEF first, second, rows, numbers, w, map
<1>7. Columns(n, first, second, 4, w, documents, numbers)
  BY <1>2, <1>4, <1>5 DEF Columns
<1>8. ASSUME NEW after \in Cells, NEW named
      PROVE  /\ rows \in Seq(Items)
             /\ Repeated(At(Wire(rows) \o after, named), n, <<4, w>>) = Formats(rows)
             /\ ArePairs(Values(rows), n, documents, numbers)
  <2> HIDE DEF n
  <2>1. n \in Nat
    BY <1>1
  <2> QED
    BY <1>3, <1>7, <2>1, PairsRead
<1>9. rows \in Seq(Items)
  <2>1. <<>> \in Cells
    BY DEF Cells
  <2> QED
    BY <1>8, <2>1
<1>10. ASSUME NEW after \in Cells, NEW named, named.documents = n, named.type = o.type
       PROVE  Matches("attributeOverrides", Wire(rows) \o after, rows, after, named,
                      With(named.attributeOverrides, named.attrName, ToldOf(o)))
  <2> DEFINE r == At(Wire(rows) \o after, named)
             got == Values(rows)
  <2>1. r.named = named
    BY DEF At
  <2>2. Repeated(r, n, <<4, w>>) = Formats(rows) /\ ArePairs(got, n, documents, numbers)
    BY <1>8
  <2>3. MapOf(got) = map
    <3>1. Len(documents) \in Nat
      BY <1>1
    <3>2. ArePairs(got, Len(documents), documents, [k \in 1 .. Len(documents) |-> map[documents[k]]])
      BY <1>6, <2>2
    <3> HIDE DEF n, got
    <3> QED
      BY <1>1, <1>6, <3>1, <3>2, MapBack
  <2> HIDE DEF r, got
  <2>4. Format(r, "attributeOverrides") = Formats(rows)
    <3>1. Format(r, "attributeOverrides") = Repeated(r, r.named.documents, <<4, ValueWidth(r)>>)
      BY DEF Format, TextParts
    <3>2. ValueWidth(r) = w
      BY <1>10, <2>1 DEF ValueWidth, w
    <3> QED
      BY <1>10, <2>1, <2>2, <3>1, <3>2
  <2>5. Value(r, "attributeOverrides", got) = With(named.attributeOverrides, named.attrName, ToldOf(o))
    <3>1. Value(r, "attributeOverrides", got) =
            With(r.named.attributeOverrides, r.named.attrName,
                 [type |-> r.named.type, values |-> MapOf(got)])
      BY DEF Value
    <3>2. [type |-> named.type, values |-> map] = ToldOf(o)
      BY <1>10 DEF ToldOf, map
    <3> QED
      BY <2>1, <2>3, <3>1, <3>2
  <2> QED
    BY <1>9, <2>4, <2>5 DEF Matches, r, got
<1> QED
  BY <1>9, <1>10 DEF n, rows, documents

\* What is read of an override beside the override.
OverrideNames == {"attrName", "type", "documents"}

LEMMA OverrideReads ==
    ASSUME NEW o, GoodOverride(o), Suits(o), NEW name \in Overridden, NEW tail \in Cells,
           NEW base, "attributeOverrides" \in DOMAIN base
    PROVE  \E named :
              /\ ReadParts(At(Wire(Override(name, o.type, o.values)) \o tail, base), OverrideParts)
                   = At(tail, named)
              /\ named.attributeOverrides = With(base.attributeOverrides, name, ToldOf(o))
              /\ Keeps(named, base, OverrideNames \cup {"attributeOverrides"})
<1> DEFINE i1 == OverrideHead(name, o)
           i2 == OverrideRows(o)
           c2 == Wire(i2) \o tail
           r == At(Wire(Override(name, o.type, o.values)) \o tail, base)
           parts == OverrideParts
           names == OverrideNames \cup {"attributeOverrides"}
<1>1. /\ i1 \in Seq(Items) /\ Len(i1) = 3 /\ i2 \in Seq(Items)
      /\ Override(name, o.type, o.values) = i1 \o i2
  BY HeadIs, RowsAre
<1> HIDE DEF i1, i2
<1>2. c2 \in Cells /\ r = At(Wire(i1) \o c2, base)
  <2>1. Splits(i1, i2, tail)
    BY <1>1, ItemsSplit
  <2> QED
    BY <1>1, <2>1 DEF Splits
<1>3. PICK after : IsReading(after, r, parts)
  BY ReadingIs DEF OverrideParts
<1>4. after[0] = At(Wire(i1) \o c2, base) /\ ReadParts(r, parts) = after[4] /\ Len(parts) = 4
  BY <1>2, <1>3 DEF IsReading, OverrideParts
<1> DEFINE p1 == <<"attrName", "type", "documents">>
           v1 == <<name, o.type, Len(Keys(o.values))>>
<1>5. ReadParts(after[0], p1) = after[3] /\ ReadPart(after[3], "attributeOverrides") = after[4]
  <2>1. parts[4] = "attributeOverrides" /\ \A k \in 1 .. 3 : p1[k] = parts[0 + k]
    BY DEF OverrideParts
  <2>2. Within(p1, parts, 0, 3)
    BY <1>4, <2>1 DEF Within
  <2> HIDE DEF p1, parts, r
  <2>3. Len(parts) \in Nat
    BY <1>4
  <2>4. ReadParts(after[0], p1) = after[3]
    BY <1>3, <2>2, <2>3, PartsWithin
  <2>5. 3 \in Nat /\ 3 + 1 <= Len(parts)
    BY <1>4
  <2>6. ReadPart(after[3], parts[3 + 1]) = after[3 + 1]
    BY <1>3, <2>3, <2>5, PartWithin
  <2> QED
    BY <2>1, <2>4, <2>6
<1> HIDE DEF r, parts, c2
<1>6. PICK n1 : after[3] = At(c2, n1) /\ Given(base, p1, v1, n1)
  <2>1. Len(p1) = 3 /\ \A k, l \in 1 .. 3 : p1[k] = p1[l] => k = l
    OBVIOUS
  <2>2. \A k \in 1 .. 3 : Single(p1[k], i1[k], v1[k])
    BY DEF Single, WordParts, TextParts, i1, OverrideHead
  <2> HIDE DEF p1, v1
  <2>3. Singles(p1, i1, v1)
    BY <1>1, <2>1, <2>2 DEF Singles
  <2>4. \E named : ReadParts(At(Wire(i1) \o c2, base), p1) = At(c2, named) /\ Given(base, p1, v1, named)
    BY <1>1, <1>2, <2>3, SinglesRead
  <2> QED
    BY <1>4, <1>5, <2>4
<1>7. /\ n1["attrName"] = name /\ n1["type"] = o.type /\ n1["documents"] = Len(Keys(o.values))
      /\ n1["attributeOverrides"] = base["attributeOverrides"]
      /\ Keeps(n1, base, names)
  <2>1. /\ \A k \in 1 .. Len(p1) : p1[k] # "attributeOverrides" /\ p1[k] \in names
        /\ p1[1] = "attrName" /\ p1[2] = "type" /\ p1[3] = "documents"
        /\ v1[1] = name /\ v1[2] = o.type /\ v1[3] = Len(Keys(o.values))
        /\ 1 \in 1 .. Len(p1) /\ 2 \in 1 .. Len(p1) /\ 3 \in 1 .. Len(p1)
    BY DEF OverrideNames
  <2> HIDE DEF p1, v1, names
  <2>2. Keeps(n1, base, names)
    BY <1>6, <2>1, KeepsAll, KeepsGiven
  <2> QED
    BY <1>6, <2>1, <2>2 DEF Given
<1> HIDE DEF p1, v1
<1> DEFINE new == With(n1.attributeOverrides, n1.attrName, ToldOf(o))
           n2 == With(n1, "attributeOverrides", new)
<1>8. after[4] = At(tail, n2)
  <2>1. Matches("attributeOverrides", Wire(i2) \o tail, i2, tail, n1, new)
    <3>1. \A x \in Cells : \A named :
                 (named.documents = Len(Keys(o.values)) /\ named.type = o.type) =>
                    Matches("attributeOverrides", Wire(OverrideRows(o)) \o x, OverrideRows(o),
                            x, named, With(named.attributeOverrides, named.attrName, ToldOf(o)))
      BY RowsAre
    <3> QED
      BY <1>7, <3>1 DEF i2
  <2>2. Matches("attributeOverrides", c2, i2, tail, n1, new)
    BY <2>1 DEF c2
  <2> HIDE DEF new
  <2> QED
    BY <1>5, <1>6, <2>2, MatchesRead
<1>9. new = With(base.attributeOverrides, name, ToldOf(o))
  BY <1>7
<1> HIDE DEF new
<1>10. n2["attributeOverrides"] = new /\ Keeps(n2, base, names)
  <2>1. "attributeOverrides" \in names
    OBVIOUS
  <2>2. Keeps(n2, base, names)
    <3> HIDE DEF names
    <3> QED
      BY <1>7, <2>1, KeepsWith
  <2> QED
    BY <2>2 DEF With
<1> HIDE DEF n2
<1> QED
  BY <1>4, <1>8, <1>9, <1>10 DEF r, parts

OverrideGroups(overrides) ==
    LET names == Keys(overrides)
    IN [k \in DOMAIN names |->
            Override(names[k], overrides[names[k]].type, overrides[names[k]].values)]

LEMMA OverriddenAre ==
    ASSUME NEW overrides, GoodOverrides(overrides)
    PROVE  LET names == Keys(overrides)
           IN /\ Len(names) \in Numbers /\ Len(names) \in Nat /\ DOMAIN names = 1 .. Len(names)
              /\ \A k \in 1 .. Len(names) : /\ names[k] \in DOMAIN overrides
                                            /\ names[k] \in Overridden
                                            /\ GoodOverride(overrides[names[k]])
              /\ Listed(names, overrides)
              /\ <<W(Len(names))>> \in Seq(Items)
              /\ Overrides(overrides) = <<W(Len(names))>> \o FlattenSeq(OverrideGroups(overrides))
<1> DEFINE names == Keys(overrides)
<1>1. DOMAIN overrides \subseteq Overridden /\ Counted(Overridden)
  BY SettingsAssumption DEF GoodOverrides
<1>2. /\ names \in Seq(DOMAIN overrides) /\ Range(names) = DOMAIN overrides
      /\ Len(names) \in Numbers
      /\ \A k, l \in DOMAIN names : names[k] = names[l] => k = l
  BY <1>1, KeysAre
<1>3. <<W(Len(names))>> \in Seq(Items)
  <2>1. W(Len(names)) \in Items
    BY <1>2, ItemsAre
  <2> QED
    BY <2>1, OneItem
<1>4. Overrides(overrides) = <<W(Len(names))>> \o FlattenSeq(OverrideGroups(overrides))
  BY DEF Overrides, OverrideGroups
<1> HIDE DEF names
<1>5. DOMAIN names = 1 .. Len(names) /\ Len(names) \in Nat
  BY <1>2
<1>6. \A k \in 1 .. Len(names) : names[k] \in DOMAIN overrides
  BY <1>2, ElementOfSeq
<1>7. \A k \in 1 .. Len(names) : names[k] \in Overridden /\ GoodOverride(overrides[names[k]])
  BY <1>1, <1>6 DEF GoodOverrides
<1>8. Listed(names, overrides)
  BY <1>2, <1>5 DEF Listed, Range
<1> QED
  BY <1>2, <1>3, <1>4, <1>5, <1>6, <1>7, <1>8 DEF names

ToldOverrides(overrides) == [name \in DOMAIN overrides |-> ToldOf(overrides[name])]

LEMMA OverridesRead ==
    ASSUME NEW overrides, GoodOverrides(overrides), \A name \in DOMAIN overrides : Suits(overrides[name]),
           NEW tail \in Cells, NEW base, "attributeOverrides" \in DOMAIN base,
           base.attributeOverrides = <<>>, base.count = Len(Keys(overrides))
    PROVE  /\ FlattenSeq(OverrideGroups(overrides)) \in Seq(Items)
           /\ \E named :
                /\ ReadList(At(Wire(FlattenSeq(OverrideGroups(overrides))) \o tail, base), OverrideParts)
                     = At(tail, named)
                /\ named.attributeOverrides = ToldOverrides(overrides)
                /\ Keeps(named, base, OverrideNames \cup {"attributeOverrides"})
<1> DEFINE keys == Keys(overrides)
           n == Len(keys)
           groups == OverrideGroups(overrides)
           o(k) == overrides[keys[k]]
           upTo(k) == {keys[j] : j \in 1 .. k}
           want == [k \in 0 .. n |-> [name \in upTo(k) |-> ToldOf(overrides[name])]]
           names == OverrideNames \cup {"attributeOverrides"}
<1>1. /\ n \in Numbers /\ n \in Nat /\ DOMAIN keys = 1 .. n
      /\ \A k \in 1 .. n : /\ keys[k] \in DOMAIN overrides /\ keys[k] \in Overridden
                           /\ GoodOverride(o(k))
      /\ Listed(keys, overrides)
  BY OverriddenAre
<1>2. \A k \in 1 .. n : groups[k] = Override(keys[k], o(k).type, o(k).values)
  BY <1>1 DEF OverrideGroups
<1>3. DOMAIN groups = 1 .. n /\ groups = [k \in 1 .. n |-> groups[k]]
  BY <1>1 DEF OverrideGroups
<1>4. \A k \in 1 .. n : Suits(o(k))
  BY <1>1
<1> HIDE DEF keys, groups
<1>5. ASSUME NEW k \in 1 .. n
      PROVE  groups[k] \in Seq(Items) /\ Len(groups[k]) >= 3 /\ Len(groups[k]) \in Nat
  <2> DEFINE head == OverrideHead(keys[k], o(k))
             rows == OverrideRows(o(k))
  <2>1. GoodOverride(o(k)) /\ Suits(o(k)) /\ keys[k] \in Overridden
    BY <1>1, <1>4
  <2>2. groups[k] = Override(keys[k], o(k).type, o(k).values)
    BY <1>2
  <2> HIDE DEF o
  <2>3. head \in Seq(Items) /\ Len(head) = 3 /\ Override(keys[k], o(k).type, o(k).values) = head \o rows
    BY <2>1, HeadIs
  <2>4. rows \in Seq(Items)
    BY <2>1, RowsAre
  <2> HIDE DEF head, rows
  <2>5. head \o rows \in Seq(Items) /\ Len(head \o rows) = Len(head) + Len(rows) /\ Len(rows) \in Nat
    <3>0. head \in Seq(Items) /\ rows \in Seq(Items)
      BY <2>3, <2>4
    <3>1. head \o rows \in Seq(Items) /\ Len(head \o rows) = Len(head) + Len(rows)
      BY <3>0, Together
    <3> QED
      BY <3>0, <3>1
  <2> QED
    BY <2>2, <2>3, <2>5
<1>6. groups \in Seq(Seq(Items)) /\ Len(groups) = n
  <2>1. groups \in [1 .. n -> Seq(Items)]
    BY <1>3, <1>5
  <2>2. Len(groups) = n
    BY <1>1, <1>3, <2>1
  <2> QED
    BY <1>1, <2>1, <2>2, SeqDef
<1>7. FlattenSeq(groups) \in Seq(Items)
  BY <1>6, JoinedIsSeq
<1>8. Len(OverrideParts) = 4
  BY DEF OverrideParts
<1>9. want[0] = <<>> /\ want[n] = ToldOverrides(overrides)
  <2>1. upTo(0) = {} /\ upTo(n) = DOMAIN overrides
    BY <1>1 DEF Listed
  <2>2. 0 \in 0 .. n /\ n \in 0 .. n
    BY <1>1
  <2> HIDE DEF upTo
  <2>3. want[0] = [name \in upTo(0) |-> ToldOf(overrides[name])]
    BY <2>2
  <2>4. want[n] = [name \in upTo(n) |-> ToldOf(overrides[name])]
    BY <2>2
  <2>5. [name \in {} |-> ToldOf(overrides[name])] = <<>>
    OBVIOUS
  <2> HIDE DEF want
  <2> QED
    BY <2>1, <2>3, <2>4, <2>5 DEF ToldOverrides
<1>10. ASSUME NEW k \in 1 .. n
       PROVE  want[k] = With(want[k - 1], keys[k], ToldOf(o(k)))
  <2>1. k - 1 \in 0 .. n /\ k \in 0 .. n
    BY <1>1
  <2> DEFINE old == want[k - 1]
             new == want[k]
  <2>2. old = [name \in upTo(k - 1) |-> ToldOf(overrides[name])]
    BY <2>1
  <2>3. new = [name \in upTo(k) |-> ToldOf(overrides[name])]
    BY <2>1
  <2>4. upTo(k) = upTo(k - 1) \cup {keys[k]} /\ keys[k] \notin upTo(k - 1)
    BY <1>1 DEF Listed
  <2> HIDE DEF upTo, old, new
  <2>5. new = With(old, keys[k], ToldOf(o(k)))
    BY <2>2, <2>3, <2>4 DEF With
  <2> QED
    BY <2>5 DEF old, new
<1> HIDE DEF want
<1>11. ASSUME NEW k \in 1 .. n
       PROVE  GroupReads(OverrideParts, groups[k], "attributeOverrides", want[k - 1], want[k], names)
  <2> SUFFICES ASSUME NEW after \in Cells, NEW known,
                      "attributeOverrides" \in DOMAIN known,
                      known["attributeOverrides"] = want[k - 1]
               PROVE  \E named :
                        /\ ReadParts(At(Wire(groups[k]) \o after, known), OverrideParts) = At(after, named)
                        /\ named["attributeOverrides"] = want[k]
                        /\ Keeps(named, known, names)
    BY DEF GroupReads
  <2>1. GoodOverride(o(k)) /\ Suits(o(k)) /\ keys[k] \in Overridden
    BY <1>1, <1>4
  <2>2. groups[k] = Override(keys[k], o(k).type, o(k).values)
    BY <1>2
  <2>3. want[k] = With(want[k - 1], keys[k], ToldOf(o(k)))
    BY <1>10
  <2> HIDE DEF o
  <2>4. \E named :
           /\ ReadParts(At(Wire(Override(keys[k], o(k).type, o(k).values)) \o after, known), OverrideParts)
                = At(after, named)
           /\ named.attributeOverrides = With(known.attributeOverrides, keys[k], ToldOf(o(k)))
           /\ Keeps(named, known, OverrideNames \cup {"attributeOverrides"})
    BY <2>1, OverrideReads
  <2> QED
    BY <2>2, <2>3, <2>4
<1> HIDE DEF n, names
<1>12. \E named :
         /\ ReadList(At(Wire(FlattenSeq(groups)) \o tail, base), OverrideParts) = At(tail, named)
         /\ named["attributeOverrides"] = want[Len(groups)]
         /\ Keeps(named, base, names)
  <2>1. ListReads(OverrideParts, groups, "attributeOverrides", want, names)
    BY <1>5, <1>6, <1>8, <1>11 DEF ListReads
  <2>3. base["attributeOverrides"] = want[0] /\ base.count = Len(groups)
    BY <1>6, <1>9 DEF n, keys
  <2>4. Len(OverrideParts) \in Nat
    BY <1>8
  <2> QED
    BY <1>6, <2>1, <2>3, <2>4, GroupsRead
<1> QED
  BY <1>6, <1>7, <1>9, <1>12 DEF groups, names

-----------------------------------------------------------------------------
(* A whole query *)

ReadSettings(cells, version) ==
    ReadParts(ReadList(ReadParts(QueryAt(cells, version), PartsToFilters), FilterParts), PartsToOverrides)
ReadOne(cells, version) ==
    ReadPart(ReadList(ReadSettings(cells, version), OverrideParts), "selectClause")

FilterItems(attrs) == FlattenSeq([k \in DOMAIN attrs.filters |-> DumpToBuff(attrs.filters[k])])
BeforeAll(query, attrs) == (BeforeFilters(query, attrs) \o FilterItems(attrs)) \o BeforeOverrides(attrs)

AllNames == FrontNames \cup BackNames \cup {"filters"}

LEMMA BeforeTyped ==
    ASSUME NEW attrs, GoodAttrs(attrs), NEW query \in Texts
    PROVE  /\ BeforeFilters(query, attrs) \in Seq(Items) /\ FilterItems(attrs) \in Seq(Items)
           /\ BeforeOverrides(attrs) \in Seq(Items)
           /\ BeforeAll(query, attrs) \in Seq(Items)
<1> DEFINE a == BeforeFilters(query, attrs)
           b == FilterItems(attrs)
           c == BeforeOverrides(attrs)
<1>1. a \in Seq(Items)
  BY FrontShape
<1>2. b \in Seq(Items)
  <2> DEFINE filters == attrs.filters
             n == Len(filters)
             groups == [k \in DOMAIN filters |-> DumpToBuff(filters[k])]
  <2>1. filters \in Seq(FilterValues)
    BY DEF GoodAttrs
  <2>2. n \in Nat /\ DOMAIN filters = 1 .. n /\ \A k \in 1 .. n : filters[k] \in FilterValues
    BY <2>1, ElementOfSeq
  <2>3. \A k \in 1 .. n : DumpToBuff(filters[k]) \in Seq(Items)
    BY <2>2, DumpShape
  <2>4. groups \in [1 .. n -> Seq(Items)]
    BY <2>2, <2>3
  <2>5. groups \in Seq(Seq(Items))
    BY <2>2, <2>4, SeqDef
  <2>6. FlattenSeq(groups) \in Seq(Items)
    BY <2>5, JoinedIsSeq
  <2> QED
    BY <2>6 DEF FilterItems
<1>3. c \in Seq(Items)
  <2> DEFINE i1 == BackSingles(attrs)
             points == PointRows(attrs.anchorPoints)
             iw == Weights(attrs.indexWeights)
             i3 == <<W(attrs.maxQueryTime)>>
             fw == Weights(attrs.fieldWeights)
             i5 == <<T(attrs.queryComment)>>
  <2>1. /\ i1 \in Seq(Items) /\ i3 \in Seq(Items) /\ i5 \in Seq(Items)
        /\ attrs.anchorPoints \in Seq(AnchorPoints)
        /\ GoodWeights("indexWeights", attrs.indexWeights)
        /\ GoodWeights("fieldWeights", attrs.fieldWeights)
        /\ c = ((((i1 \o points) \o iw) \o i3) \o fw) \o i5
    BY BackShape
  <2>2. points \in Seq(Items)
    BY <2>1, PointsAre
  <2>3. "indexWeights" \in WeightSettings /\ "fieldWeights" \in WeightSettings
    BY DEF WeightSettings
  <2>4. iw \in Seq(Items) /\ fw \in Seq(Items)
    <3>1. iw = <<W(Len(Keys(attrs.indexWeights)))>> \o WeightRows(attrs.indexWeights)
          /\ <<W(Len(Keys(attrs.indexWeights)))>> \in Seq(Items)
          /\ WeightRows(attrs.indexWeights) \in Seq(Items)
      BY <2>1, <2>3, WeightsAre
    <3>2. fw = <<W(Len(Keys(attrs.fieldWeights)))>> \o WeightRows(attrs.fieldWeights)
          /\ <<W(Len(Keys(attrs.fieldWeights)))>> \in Seq(Items)
          /\ WeightRows(attrs.fieldWeights) \in Seq(Items)
      BY <2>1, <2>3, WeightsAre
    <3>3. \A x, y \in Seq(Items) : x \o y \in Seq(Items)
      BY Together
    <3> QED
      BY <3>1, <3>2, <3>3
  <2> HIDE DEF i1, points, iw, i3, fw, i5, c
  <2> DEFINE g1 == i1 \o points
             g2 == g1 \o iw
             g3 == g2 \o i3
             g4 == g3 \o fw
             g5 == g4 \o i5
  <2>5. g1 \in Seq(Items)
    BY <2>1, <2>2, Together
  <2> HIDE DEF g1
  <2>6. g2 \in Seq(Items)
    BY <2>4, <2>5, Together
  <2> HIDE DEF g2
  <2>7. g3 \in Seq(Items)
    BY <2>1, <2>6, Together
  <2> HIDE DEF g3
  <2>8. g4 \in Seq(Items)
    BY <2>4, <2>7, Together
  <2> HIDE DEF g4
  <2>9. g5 \in Seq(Items)
    BY <2>1, <2>8, Together
  <2> QED
    BY <2>1, <2>9 DEF g1, g2, g3, g4
<1> HIDE DEF a, b, c
<1>4. a \o b \in Seq(Items)
  BY <1>1, <1>2, Together
<1> DEFINE ab == a \o b
<1> HIDE DEF ab
<1>5. ab \o c \in Seq(Items)
  BY <1>3, <1>4, Together DEF ab
<1> QED
  BY <1>1, <1>2, <1>3, <1>5 DEF BeforeAll, a, b, c, ab

LEMMA SettingsRead ==
    ASSUME NEW attrs, GoodAttrs(attrs), NEW query \in Texts, NEW count, <<W(count)>> \in Seq(Items),
           NEW rest \in Cells
    PROVE  \E named :
              /\ ReadSettings(Wire(BeforeAll(query, attrs)) \o (Wire(<<W(count)>>) \o rest),
                              attrs.commandVersion) = At(rest, named)
              /\ Knows(named, query, attrs, AllNames)
              /\ "count" \in DOMAIN named /\ named.count = count
              /\ "attributeOverrides" \in DOMAIN named /\ named.attributeOverrides = <<>>
<1> DEFINE a == BeforeFilters(query, attrs)
           b == FilterItems(attrs)
           c == BeforeOverrides(attrs)
           t == Wire(<<W(count)>>) \o rest
           c2 == Wire(c) \o t
           c1 == Wire(b) \o c2
           start == [commandVersion |-> attrs.commandVersion, filters |-> <<>>, attributeOverrides |-> <<>>]
           cells == Wire(BeforeAll(query, attrs)) \o t
<1>1. a \in Seq(Items) /\ b \in Seq(Items) /\ c \in Seq(Items) /\ BeforeAll(query, attrs) = (a \o b) \o c
  BY BeforeTyped DEF BeforeAll
<1>2. t \in Cells
  BY WireTyped, JoinTyped
<1> HIDE DEF a, b, c, t
<1>3. c2 \in Cells /\ c1 \in Cells /\ cells = Wire(a) \o c1
  <2> DEFINE ab == a \o b
  <2>1. c2 \in Cells
    BY <1>1, <1>2, WireTyped, JoinTyped
  <2>2. Splits(a, b, c2)
    <3> HIDE DEF c2
    <3> QED
      BY <1>1, <2>1, ItemsSplit
  <2> HIDE DEF c2
  <2>3. ab \in Seq(Items) /\ Wire(ab) \o c2 = Wire(a) \o c1 /\ c1 \in Cells
    BY <2>2 DEF Splits
  <2> HIDE DEF ab, c1
  <2>4. Splits(ab, c, t)
    BY <1>1, <1>2, <2>3, ItemsSplit
  <2>5. cells = Wire(ab \o c) \o t
    BY <1>1 DEF ab
  <2> QED
    BY <2>1, <2>3, <2>4, <2>5 DEF Splits, c2
<1>4. QueryAt(cells, attrs.commandVersion) = At(cells, start)
  <2> HIDE DEF cells
  <2>1. Reading(cells) = [got |-> <<>>, rest |-> cells, ok |-> TRUE, named |-> <<>>]
    BY DEF Reading
  <2> DEFINE x == QueryAt(cells, attrs.commandVersion)
  <2> HIDE DEF start
  <2>2. x = [Reading(cells) EXCEPT !.named = start]
    BY DEF QueryAt, start
  <2>3. /\ x = [f \in Fields |-> x[f]] /\ x.got = <<>> /\ x.rest = cells /\ x.ok = TRUE
        /\ x.named = start
    <3> DEFINE y == Reading(cells)
    <3>1. y = [got |-> <<>>, rest |-> cells, ok |-> TRUE, named |-> <<>>]
      BY <2>1
    <3>2. DOMAIN y = Fields /\ y.got = <<>> /\ y.rest = cells /\ y.ok = TRUE
      BY <3>1 DEF Fields
    <3> HIDE DEF y, x
    <3>3. x = [y EXCEPT !.named = start]
      BY <2>2 DEF y
    <3>4. x = [f \in Fields |-> x[f]]
      BY <3>2, <3>3
    <3>5. "got" \in Fields /\ "rest" \in Fields /\ "ok" \in Fields /\ "named" \in Fields
      BY DEF Fields
    <3>6. x.got = y.got /\ x.rest = y.rest /\ x.ok = y.ok /\ x.named = start
      BY <3>2, <3>3, <3>5
    <3> QED
      BY <3>2, <3>4, <3>6
  <2> HIDE DEF x
  <2>4. x = [got |-> x.got, rest |-> x.rest, ok |-> x.ok, named |-> x.named]
    BY <2>3, ReaderIs
  <2>5. x = [got |-> <<>>, rest |-> cells, ok |-> TRUE, named |-> start]
    BY <2>3, <2>4
  <2> QED
    BY <2>5 DEF At, x
<1> HIDE DEF cells, c1, c2
<1>5. PICK n1 : /\ ReadParts(At(Wire(a) \o c1, start), PartsToFilters) = At(c1, n1)
                /\ Knows(n1, query, attrs, FrontNames)
                /\ "count" \in DOMAIN n1 /\ n1.count = Len(attrs.filters)
                /\ Lists \subseteq DOMAIN n1 /\ \A x \in Lists : n1[x] = start[x]
  <2>1. Lists \subseteq DOMAIN start /\ start.commandVersion = attrs.commandVersion
    BY DEF Lists
  <2> HIDE DEF start
  <2> QED
    BY <1>3, <2>1, ReadsToFilters DEF a
<1>6. n1.filters = <<>> /\ n1.attributeOverrides = <<>> /\ {"filters", "attributeOverrides"} \subseteq DOMAIN n1
  BY <1>5 DEF Lists
<1> HIDE DEF start
<1>7. PICK n2 : /\ ReadList(At(c1, n1), FilterParts) = At(c2, n2)
                /\ n2.filters = attrs.filters
                /\ Keeps(n2, n1, FilterNames \cup {"filters"})
  <2>1. attrs.filters \in Seq(FilterValues)
    BY DEF GoodAttrs
  <2>2. \E named :
              /\ ReadList(At(Wire(FlattenSeq([k \in DOMAIN attrs.filters |-> DumpToBuff(attrs.filters[k])])) \o c2, n1),
                          FilterParts) = At(c2, named)
              /\ named.filters = attrs.filters
              /\ Keeps(named, n1, FilterNames \cup {"filters"})
    BY <1>3, <1>5, <1>6, <2>1, FiltersRead
  <2> QED
    BY <2>2 DEF c1, b, FilterItems
<1>8. PICK n3 : /\ ReadParts(At(c2, n2), PartsToOverrides) = At(rest, n3)
                /\ Knows(n3, query, attrs, BackNames)
                /\ "count" \in DOMAIN n3 /\ n3.count = count
                /\ Keeps(n3, n2, BackNames \cup {"count"})
  <2>1. c2 = Wire(BeforeOverrides(attrs)) \o (Wire(<<W(count)>>) \o rest)
    BY DEF c2, c, t
  <2> QED
    BY <2>1, ReadsToOverrides
<1>9. ReadSettings(cells, attrs.commandVersion) = At(rest, n3)
  BY <1>3, <1>4, <1>5, <1>7, <1>8 DEF ReadSettings
<1>10. /\ "attributeOverrides" \in DOMAIN n3 /\ n3.attributeOverrides = <<>>
       /\ "filters" \in DOMAIN n3 /\ n3.filters = attrs.filters
  <2>1. "attributeOverrides" \notin FilterNames \cup {"filters"} /\ "attributeOverrides" \notin BackNames \cup {"count"}
        /\ "filters" \notin BackNames \cup {"count"}
    BY DEF FilterNames, BackNames
  <2> QED
    BY <1>6, <1>7, <1>8, <2>1 DEF Keeps
<1>11. Knows(n3, query, attrs, AllNames)
  <2>1. FrontNames \cap (FilterNames \cup {"filters"}) = {} /\ FrontNames \cap (BackNames \cup {"count"}) = {}
    BY DEF FrontNames, FilterNames, BackNames
  <2>2. FrontNames \subseteq DOMAIN n3 /\ \A s \in FrontNames : n3[s] = n1[s]
    BY <1>5, <1>7, <1>8, <2>1 DEF Keeps, Knows
  <2>3. Told(attrs, "filters") = attrs.filters /\ "filters" # "query"
    BY DEF Told
  <2>4. \A s \in FrontNames : n3[s] = IF s = "query" THEN query ELSE Told(attrs, s)
    BY <1>5, <2>2 DEF Knows
  <2>5. \A s \in BackNames : s \in DOMAIN n3 /\ n3[s] = IF s = "query" THEN query ELSE Told(attrs, s)
    BY <1>8 DEF Knows
  <2>6. "filters" \in DOMAIN n3 /\ n3["filters"] = IF "filters" = "query" THEN query ELSE Told(attrs, "filters")
    BY <1>10, <2>3
  <2> QED
    BY <2>2, <2>4, <2>5, <2>6 DEF Knows, AllNames
<1> QED
  BY <1>8, <1>9, <1>10, <1>11 DEF cells, t

LEMMA SettingsAre == Settings \subseteq (AllNames \ {"query"}) \cup {"attributeOverrides", "selectClause"}
<1> DEFINE All3 == <<"filters", "attributeOverrides", "selectClause">>
           known == AllNames \cup {"attributeOverrides", "selectClause", "count", "weights", "idRange", "ids"}
           ab == PartsToFilters \o PartsToOverrides
<1>1. PartsToFilters \in Seq(known) /\ PartsToOverrides \in Seq(known) /\ All3 \in Seq(known)
  <2>1. PartsToFilters \in Seq(known)
    BY DEF PartsToFilters, AllNames, FrontNames
  <2>2. PartsToOverrides \in Seq(known)
    BY DEF PartsToOverrides, AllNames, BackNames
  <2> QED
    BY <2>1, <2>2 DEF AllNames
<1>2. ab \in Seq(known)
  <2> HIDE DEF known
  <2> QED
    BY <1>1, Together
<1> HIDE DEF ab, All3, known
<1>3. ab \o All3 \in Seq(known)
  BY <1>1, <1>2, Together
<1>4. Range(ab \o All3) \subseteq known
  <2> DEFINE all == ab \o All3
  <2> HIDE DEF all
  <2>1. \A k \in DOMAIN all : all[k] \in known
    BY <1>3, ElementOfSeq DEF all
  <2> QED
    BY <2>1 DEF Range, all
<1>5. Settings = Range(ab \o All3) \ {"query", "count", "weights", "idRange", "ids"}
  BY DEF Settings, ab, All3
<1> QED
  BY <1>4, <1>5 DEF known

LEMMA ReadSelects ==
    ASSUME NEW attrs, GoodAttrs(attrs), NEW tail \in Cells, NEW named
    PROVE  /\ <<T(attrs.selectClause)>> \in Seq(Items)
           /\ ReadPart(At(Wire(<<T(attrs.selectClause)>>) \o tail, named), "selectClause")
                = At(tail, With(named, "selectClause", attrs.selectClause))
<1>1. attrs.selectClause \in Texts
  BY DEF GoodAttrs, GoodSettings, TextSettings
<1>2. <<T(attrs.selectClause)>> \in Seq(Items)
  <2>1. T(attrs.selectClause) \in Items
    BY <1>1, ItemsAre
  <2> QED
    BY <2>1, OneItem
<1>3. Single("selectClause", T(attrs.selectClause), attrs.selectClause)
  BY DEF Single, TextParts
<1> QED
  BY <1>2, <1>3, SingleReads

\* A query whose overrides have values of the type of their attribute is read
\* as it was meant.
LEMMA QueryRead ==
    ASSUME NEW attrs, GoodAttrs(attrs), Fitting(attrs), NEW query \in Texts, NEW tail \in Cells
    PROVE  /\ Message(query, attrs) \in Seq(Items)
           /\ \E named :
                 /\ ReadOne(Wire(Message(query, attrs)) \o tail, attrs.commandVersion) = At(tail, named)
                 /\ named.query = query
                 /\ [s \in Settings |-> named[s]] = Meaning(attrs)
<1> DEFINE o == attrs.attributeOverrides
           a == BeforeAll(query, attrs)
           n == Len(Keys(o))
           b == <<W(n)>>
           c == FlattenSeq(OverrideGroups(o))
           d == <<T(attrs.selectClause)>>
           c3 == Wire(d) \o tail
           c2 == Wire(c) \o c3
           c1 == Wire(b) \o c2
           cells == Wire(Message(query, attrs)) \o tail
<1>1. GoodOverrides(o) /\ \A name \in DOMAIN o : Suits(o[name])
  BY DEF GoodAttrs, GoodSettings, Fitting, FittingOr, Suits, Range
<1>2. a \in Seq(Items) /\ b \in Seq(Items) /\ d \in Seq(Items)
  <2>1. a \in Seq(Items)
    BY BeforeTyped
  <2>2. d \in Seq(Items)
    BY ReadSelects
  <2> HIDE DEF o
  <2>3. b \in Seq(Items)
    BY <1>1, OverriddenAre
  <2> QED
    BY <2>1, <2>2, <2>3
<1>3. c \in Seq(Items)
  <2> DEFINE base == [attributeOverrides |-> <<>>, count |-> n]
  <2>1. "attributeOverrides" \in DOMAIN base /\ base.attributeOverrides = <<>> /\ base.count = n
    OBVIOUS
  <2> HIDE DEF base, o
  <2> QED
    BY <1>1, <2>1, OverridesRead
<1>4. Message(query, attrs) = (a \o (b \o c)) \o d
  <2>1. Overrides(o) = b \o c
    <3> HIDE DEF o
    <3> QED
      BY <1>1, OverriddenAre
  <2> QED
    BY <2>1 DEF Message, BeforeAll, FilterItems
<1>5. Message(query, attrs) \in Seq(Items) /\ c3 \in Cells /\ c2 \in Cells /\ cells = Wire(a) \o c1
  <2> DEFINE bc == b \o c
             abc == a \o bc
  <2> HIDE DEF a, b, c, d
  <2>1. Splits(b, c, c3) /\ c3 \in Cells
    <3>1. c3 \in Cells
      BY <1>2, WireTyped, JoinTyped
    <3> HIDE DEF c3
    <3> QED
      BY <1>2, <1>3, <3>1, ItemsSplit
  <2>2. bc \in Seq(Items) /\ Wire(bc) \o c3 = c1 /\ c2 \in Cells
    <3> HIDE DEF c3
    <3> QED
      BY <2>1 DEF Splits
  <2> HIDE DEF bc, c1, c2
  <2>3. Splits(a, bc, c3)
    <3> HIDE DEF c3
    <3> QED
      BY <1>2, <2>1, <2>2, ItemsSplit
  <2>4. abc \in Seq(Items) /\ Wire(abc) \o c3 = Wire(a) \o c1
    <3> HIDE DEF c3
    <3> QED
      BY <2>2, <2>3 DEF Splits
  <2> HIDE DEF abc
  <2>5. Splits(abc, d, tail)
    BY <1>2, <2>4, ItemsSplit
  <2>6. Message(query, attrs) = abc \o d
    BY <1>4 DEF abc, bc
  <2> QED
    BY <2>1, <2>2, <2>4, <2>5, <2>6 DEF Splits
<1> DEFINE settings == ReadSettings(cells, attrs.commandVersion)
<1>6. PICK n1 : /\ settings = At(c2, n1)
                /\ Knows(n1, query, attrs, AllNames)
                /\ "count" \in DOMAIN n1 /\ n1.count = n
                /\ "attributeOverrides" \in DOMAIN n1 /\ n1.attributeOverrides = <<>>
  <2>1. <<W(n)>> \in Seq(Items)
    BY <1>2
  <2>2. cells = Wire(BeforeAll(query, attrs)) \o (Wire(<<W(n)>>) \o c2)
    BY <1>5
  <2> HIDE DEF n, c2, cells
  <2> QED
    BY <1>5, <2>1, <2>2, SettingsRead
<1> HIDE DEF settings
<1>7. PICK n2 : /\ ReadList(settings, OverrideParts) = At(c3, n2)
                /\ n2.attributeOverrides = ToldOverrides(o)
                /\ Keeps(n2, n1, OverrideNames \cup {"attributeOverrides"})
  <2> HIDE DEF o, c3
  <2>1. \E named :
                /\ ReadList(At(Wire(FlattenSeq(OverrideGroups(o))) \o c3, n1), OverrideParts) = At(c3, named)
                /\ named.attributeOverrides = ToldOverrides(o)
                /\ Keeps(named, n1, OverrideNames \cup {"attributeOverrides"})
    BY <1>1, <1>5, <1>6, OverridesRead
  <2> QED
    BY <1>6, <2>1
<1> DEFINE n3 == With(n2, "selectClause", attrs.selectClause)
<1>8. ReadPart(At(c3, n2), "selectClause") = At(tail, n3)
  BY ReadSelects
<1>9. ReadOne(cells, attrs.commandVersion) = At(tail, n3)
  BY <1>7, <1>8 DEF ReadOne, settings
<1>10. Knows(n2, query, attrs, AllNames) /\ "attributeOverrides" \in DOMAIN n2
  <2>1. AllNames \cap (OverrideNames \cup {"attributeOverrides"}) = {}
    BY DEF AllNames, FrontNames, BackNames, OverrideNames
  <2> QED
    BY <1>6, <1>7, <2>1 DEF Keeps, Knows
<1>11. /\ \A s \in AllNames : n3[s] = IF s = "query" THEN query ELSE Told(attrs, s)
       /\ n3["attributeOverrides"] = ToldOverrides(o)
       /\ n3["selectClause"] = attrs.selectClause
  <2>1. "selectClause" \notin AllNames
    BY DEF AllNames, FrontNames, BackNames
  <2> HIDE DEF o
  <2> QED
    BY <1>7, <1>10, <2>1 DEF Knows, With
<1>12. Told(attrs, "attributeOverrides") = ToldOverrides(o) /\ Told(attrs, "selectClause") = attrs.selectClause
  BY DEF Told, ToldOverrides, ToldOf
<1> HIDE DEF n3
<1>13. \A s \in Settings : n3[s] = Told(attrs, s)
  BY <1>11, <1>12, SettingsAre
<1>14. [s \in Settings |-> n3[s]] = Meaning(attrs)
  BY <1>13 DEF Meaning
<1>15. n3.query = query
  BY <1>11 DEF AllNames, FrontNames
<1> QED
  BY <1>5, <1>9, <1>14, <1>15 DEF cells

-----------------------------------------------------------------------------
(* Queries that are not written to their end *)

\* Nothing thrown, or a first exception with items before it.
LEMMA FirstException ==
    ASSUME NEW s \in Seq(AnyItems)
    PROVE  \/ s \in Seq(Items)
           \/ \E front \in Seq(Items), back \in Seq(AnyItems) : s = front \o (<<Exception>> \o back)
<1>1. Len(s) \in Nat /\ DOMAIN s = 1 .. Len(s) /\ \A k \in 1 .. Len(s) : s[k] \in AnyItems
  BY ElementOfSeq
<1> DEFINE thrown == {k \in 1 .. Len(s) : s[k] = Exception}
<1>2. CASE thrown = {}
  <2>1. \A k \in 1 .. Len(s) : s[k] \in Items
    BY <1>1, <1>2 DEF AnyItems
  <2>2. s \in [1 .. Len(s) -> Items]
    BY <1>1, <2>1
  <2> QED
    BY <1>1, <2>2, SeqDef, ZenonT(30)
<1>3. CASE thrown # {}
  <2>1. PICK m \in thrown : \A u \in thrown : m <= u
    <3>1. thrown \in SUBSET Nat
      BY <1>1
    <3> HIDE DEF thrown
    <3> QED
      BY <1>3, <3>1, LeastExists
  <2>2. m \in 1 .. Len(s) /\ s[m] = Exception /\ m \in Nat /\ m - 1 \in Nat
    BY <1>1, <2>1
  <2>3. \A k \in 1 .. m - 1 : k \in 1 .. Len(s) /\ s[k] \in Items
    <3> TAKE k \in 1 .. m - 1
    <3>1. k \in 1 .. Len(s) /\ k < m
      BY <1>1, <2>2
    <3>2. k \notin thrown
      BY <2>1, <2>2, <3>1
    <3> QED
      BY <1>1, <3>1, <3>2 DEF AnyItems
  <2> DEFINE front == SubSeq(s, 1, m - 1)
             back == SubSeq(s, m + 1, Len(s))
  <2>4. front \in Seq(AnyItems) /\ Len(front) = m - 1 /\ back \in Seq(AnyItems) /\ Len(back) = Len(s) - m
        /\ (\A k \in 1 .. m - 1 : front[k] = s[k]) /\ \A k \in 1 .. Len(s) - m : back[k] = s[m + k]
    <3>1. front \in Seq(AnyItems) /\ Len(front) = m - 1 /\ \A k \in 1 .. m - 1 : front[k] = s[k]
      BY <1>1, <2>2
    <3>2. back \in Seq(AnyItems) /\ Len(back) = Len(s) - m
      <4>1. m + 1 \in 1 .. Len(s) + 1 /\ Len(s) \in Nat
        BY <1>1, <2>2
      <4>2. \A k \in m + 1 .. Len(s) : s[k] \in AnyItems
        BY <1>1, <2>2
      <4>3. /\ back \in Seq(AnyItems)
            /\ Len(back) = IF m + 1 <= Len(s) THEN Len(s) - (m + 1) + 1 ELSE 0
        BY <4>1, <4>2, SubSeqProperties
      <4>4. \A n, o \in Nat : o <= n => (IF o + 1 <= n THEN n - (o + 1) + 1 ELSE 0) = n - o
        OBVIOUS
      <4>5. m <= Len(s)
        BY <1>1, <2>2
      <4> HIDE DEF back
      <4> QED
        BY <1>1, <2>2, <4>3, <4>4, <4>5
    <3>3. \A k \in 1 .. Len(s) - m : back[k] = s[m + k]
      BY <1>1, <2>2
    <3> QED
      BY <3>1, <3>2, <3>3
  <2> HIDE DEF front, back
  <2>5. front \in Seq(Items)
    <3>1. DOMAIN front = 1 .. m - 1 /\ front = [k \in DOMAIN front |-> front[k]]
      BY <2>2, <2>4
    <3>2. \A k \in 1 .. m - 1 : front[k] \in Items
      BY <2>3, <2>4
    <3>3. front \in [1 .. m - 1 -> Items]
      BY <3>1, <3>2
    <3> QED
      BY <2>2, <3>3, SeqDef
  <2>6. s = front \o (<<Exception>> \o back)
    <3> DEFINE rest == <<Exception>> \o back
               whole == front \o rest
    <3>1. Exception \in AnyItems
      BY DEF AnyItems
    <3>2. rest \in Seq(AnyItems) /\ Len(rest) = 1 + (Len(s) - m) /\ rest[1] = Exception
          /\ \A k \in 1 .. Len(s) - m : rest[1 + k] = back[k]
      <4>1. <<Exception>> \in Seq(AnyItems) /\ Len(<<Exception>>) = 1 /\ <<Exception>>[1] = Exception
        BY <3>1, OneItem
      <4> DEFINE one == <<Exception>>
      <4>2. rest = one \o back /\ one \in Seq(AnyItems) /\ Len(one) = 1 /\ one[1] = Exception
        BY <4>1
      <4> HIDE DEF rest, one
      <4>3. /\ one \o back \in Seq(AnyItems) /\ Len(one \o back) = Len(one) + Len(back)
            /\ \A j \in 1 .. Len(one) : (one \o back)[j] = one[j]
            /\ \A j \in 1 .. Len(back) : (one \o back)[Len(one) + j] = back[j]
        <5>1. back \in Seq(AnyItems) /\ one \in Seq(AnyItems)
          BY <2>4, <4>2
        <5> QED
          BY <5>1, ConcatIs
      <4>4. 1 \in 1 .. Len(one)
        BY <4>2
      <4>5. Len(rest) = 1 + (Len(s) - m) /\ rest \in Seq(AnyItems)
        BY <2>4, <4>2, <4>3
      <4>6. rest[1] = Exception
        BY <4>2, <4>3, <4>4
      <4>7. \A k \in 1 .. Len(s) - m : rest[1 + k] = back[k]
        BY <2>4, <4>2, <4>3
      <4> QED
        BY <4>5, <4>6, <4>7
    <3> HIDE DEF rest
    <3>3. /\ whole \in Seq(AnyItems) /\ Len(whole) = (m - 1) + Len(rest)
          /\ \A j \in 1 .. m - 1 : whole[j] = front[j]
          /\ \A j \in 1 .. Len(rest) : whole[m - 1 + j] = rest[j]
      <4>1. /\ whole \in Seq(AnyItems) /\ Len(whole) = Len(front) + Len(rest)
            /\ \A j \in 1 .. Len(front) : whole[j] = front[j]
            /\ \A j \in 1 .. Len(rest) : whole[Len(front) + j] = rest[j]
        <5>1. front \in Seq(AnyItems) /\ rest \in Seq(AnyItems)
          BY <2>4, <3>2
        <5> QED
          BY <5>1, ConcatIs
      <4> HIDE DEF whole
      <4> QED
        BY <2>4, <4>1
    <3> HIDE DEF whole
    <3>4. Len(whole) = Len(s)
      BY <1>1, <2>2, <3>2, <3>3
    <3>5. ASSUME NEW k \in 1 .. Len(s) PROVE whole[k] = s[k]
      <4>1. CASE k < m
        BY <1>1, <2>2, <2>4, <3>3, <4>1
      <4>2. CASE k = m
        <5>1. 1 \in 1 .. Len(rest) /\ m - 1 + 1 = m
          BY <1>1, <2>2, <3>2
        <5> QED
          BY <2>2, <3>2, <3>3, <4>2, <5>1
      <4>3. CASE k > m
        <5> DEFINE j == k - m
        <5>1. j \in 1 .. Len(s) - m /\ 1 + j \in 1 .. Len(rest) /\ (m - 1) + (1 + j) = k /\ m + j = k
          BY <1>1, <2>2, <3>2, <4>3
        <5>2. whole[(m - 1) + (1 + j)] = rest[1 + j] /\ rest[1 + j] = back[j] /\ back[j] = s[m + j]
          BY <2>4, <3>2, <3>3, <5>1
        <5> QED
          BY <5>1, <5>2
      <4> QED
        BY <1>1, <2>2, <4>1, <4>2, <4>3
    <3> QED
      BY <1>1, <3>3, <3>4, <3>5, SeqEqual DEF whole, rest
  <2> QED
    BY <2>4, <2>5, <2>6
<1> QED
  BY <1>2, <1>3

\* What is written of a message.
LEMMA WrittenAll ==
    ASSUME NEW message \in Seq(Items)
    PROVE  Thrown(message) = {} /\ Written(message) = message
<1>1. \A k \in DOMAIN message : message[k] \in Items
  BY ElementOfSeq
<1>2. Thrown(message) = {}
  BY <1>1, ItemsAre DEF Thrown
<1> QED
  BY <1>2 DEF Written

LEMMA WrittenFront ==
    ASSUME NEW front \in Seq(Items), NEW back \in Seq(AnyItems),
           NEW message, message = front \o (<<Exception>> \o back)
    PROVE  Thrown(message) # {} /\ Written(message) = front
<1> DEFINE rest == <<Exception>> \o back
           n == Len(front)
<1>1. Exception \in AnyItems /\ front \in Seq(AnyItems) /\ n \in Nat
  <2>1. Items \subseteq AnyItems
    BY DEF AnyItems
  <2> QED
    BY <2>1 DEF AnyItems
<1>2. rest \in Seq(AnyItems) /\ Len(rest) = 1 + Len(back) /\ rest[1] = Exception /\ Len(back) \in Nat
  <2>1. <<Exception>> \in Seq(AnyItems) /\ Len(<<Exception>>) = 1 /\ <<Exception>>[1] = Exception
    BY <1>1, OneItem
  <2> QED
    BY <2>1, ConcatIs
<1>3. message = front \o rest
  OBVIOUS
<1> HIDE DEF rest
<1>4. /\ message \in Seq(AnyItems) /\ Len(message) = n + Len(rest)
      /\ \A j \in 1 .. n : message[j] = front[j]
      /\ \A j \in 1 .. Len(rest) : message[n + j] = rest[j]
  BY <1>1, <1>2, <1>3, ConcatIs
<1>5. DOMAIN message = 1 .. Len(message)
  BY <1>4
<1>6. n + 1 \in Thrown(message)
  <2>1. 1 \in 1 .. Len(rest) /\ n + 1 \in 1 .. Len(message)
    BY <1>1, <1>2, <1>4
  <2>2. message[n + 1] = Exception
    BY <1>2, <1>4, <2>1
  <2> QED
    BY <1>5, <2>1, <2>2, ItemsAre DEF Thrown
<1>7. ASSUME NEW k \in Thrown(message) PROVE n + 1 <= k
  <2>1. k \in 1 .. Len(message) /\ message[k].width = Throws
    BY <1>5 DEF Thrown
  <2>2. SUFFICES ASSUME k <= n PROVE FALSE
    BY <1>1, <1>4, <2>1
  <2>3. k \in 1 .. n /\ front[k] \in Items /\ message[k] = front[k]
    <3>1. k \in 1 .. n
      BY <1>1, <1>4, <2>1, <2>2
    <3> QED
      BY <1>4, <3>1, ElementOfSeq
  <2> QED
    BY <2>1, <2>3, ItemsAre
<1> DEFINE first == CHOOSE k \in Thrown(message) : \A o \in Thrown(message) : k <= o
<1>8. first = n + 1
  <2>1. first \in Thrown(message) /\ \A o \in Thrown(message) : first <= o
    BY <1>6, <1>7
  <2>2. first \in Nat
    <3> HIDE DEF first
    <3>1. first \in 1 .. Len(message) /\ Len(message) \in Nat
      BY <1>2, <1>4, <1>5, <2>1 DEF Thrown
    <3> QED
      BY <3>1
  <2> HIDE DEF first
  <2> QED
    BY <1>1, <1>6, <1>7, <2>1, <2>2
<1>9. Written(message) = SubSeq(message, 1, n)
  <2>1. first - 1 = n
    <3> HIDE DEF first
    <3> QED
      BY <1>1, <1>8
  <2> QED
    BY <1>6, <2>1 DEF Written
<1>10. SubSeq(message, 1, n) = front
  <2> DEFINE s == SubSeq(message, 1, n)
  <2>1. n <= Len(message)
    BY <1>1, <1>2, <1>4
  <2>2. s \in Seq(AnyItems) /\ Len(s) = n /\ \A k \in 1 .. n : s[k] = message[k]
    BY <1>1, <1>4, <2>1
  <2> HIDE DEF s
  <2> QED
    BY <1>1, <1>4, <2>2, SeqEqual DEF s
<1> QED
  BY <1>6, <1>9, <1>10

CountOf(attrs) == Len(Keys(attrs.attributeOverrides))
\* What is written behind the number of overrides, when nothing is thrown.
More(attrs) ==
    FlattenSeq(OverrideGroups(attrs.attributeOverrides)) \o <<T(attrs.selectClause)>>

LEMMA OverrideValueTyped ==
    ASSUME NEW value \in OverrideValues
    PROVE  /\ OverrideValue(value) \in AnyItems
           /\ value.type \in {"vector", "string"} => OverrideValue(value) = Exception
           /\ value.type \in {"uint32", "float"} =>
                OverrideValue(value) \in Items /\ OverrideValue(value).width = 2
           /\ value.type = "uint64" =>
                OverrideValue(value) \in Items /\ OverrideValue(value).width = 4
<1>1. CASE value.type \in {"uint32", "float"}
  <2>1. value.number \in Numbers
    BY <1>1 DEF OverrideValues
  <2>2. OverrideValue(value) = W(value.number)
    BY <1>1 DEF OverrideValue
  <2> QED
    BY <1>1, <2>1, <2>2, ItemsAre DEF W, AnyItems
<1>2. CASE value.type = "uint64"
  <2>1. value.number \in LongNumbers
    BY <1>2 DEF OverrideValues
  <2>2. OverrideValue(value) = L(value.number)
    BY <1>2 DEF OverrideValue
  <2> QED
    BY <1>2, <2>1, <2>2, ItemsAre DEF L, AnyItems
<1>3. CASE value.type \in {"vector", "string"}
  <2>1. OverrideValue(value) = Exception
    BY <1>3 DEF OverrideValue
  <2> QED
    BY <1>3, <2>1 DEF AnyItems
<1>4. value.type \in {"uint32", "float"} \/ value.type = "uint64" \/ value.type \in {"vector", "string"}
  BY DEF OverrideValues
<1> QED
  BY <1>1, <1>2, <1>3, <1>4

DocumentItems(o) == [k \in 1 .. Len(Keys(o.values)) |-> L(Keys(o.values)[k])]
ValueItems(o) == [k \in 1 .. Len(Keys(o.values)) |-> OverrideValue(o.values[Keys(o.values)[k]])]

\* Documents and values stand in pairs.
LEMMA RowsShape ==
    ASSUME NEW o, GoodOverride(o)
    PROVE  /\ Len(Keys(o.values)) \in Nat /\ Len(Keys(o.values)) \in Numbers
           /\ DocumentItems(o) \in [1 .. Len(Keys(o.values)) -> Items]
           /\ \A k \in 1 .. Len(Keys(o.values)) : DocumentItems(o)[k].width = 4
           /\ ValueItems(o) \in [1 .. Len(Keys(o.values)) -> AnyItems]
           /\ OverrideRows(o) = FlattenSeq(Pairs(Len(Keys(o.values)), DocumentItems(o), ValueItems(o)))
           /\ OverrideRows(o) \in Seq(AnyItems)
<1> DEFINE documents == Keys(o.values)
           n == Len(documents)
           first == DocumentItems(o)
           second == ValueItems(o)
<1>1. /\ DOMAIN documents = 1 .. n /\ n \in Nat /\ n \in Numbers
      /\ \A k \in 1 .. n : /\ documents[k] \in LongNumbers
                           /\ o.values[documents[k]] \in OverrideValues
  BY DocumentsAre
<1>2. /\ first = [k \in 1 .. n |-> L(documents[k])]
      /\ second = [k \in 1 .. n |-> OverrideValue(o.values[documents[k]])]
  BY DEF DocumentItems, ValueItems
<1> HIDE DEF documents
<1>3. ASSUME NEW k \in 1 .. n
      PROVE  first[k] \in Items /\ first[k].width = 4 /\ second[k] \in AnyItems
  <2>1. first[k] = L(documents[k]) /\ second[k] = OverrideValue(o.values[documents[k]])
    BY <1>2
  <2>2. L(documents[k]) \in Items /\ L(documents[k]).width = 4
    BY <1>1, ItemsAre DEF L
  <2>3. OverrideValue(o.values[documents[k]]) \in AnyItems
    BY <1>1, OverrideValueTyped
  <2> QED
    BY <2>1, <2>2, <2>3
<1>4. OverrideRows(o) = FlattenSeq(Pairs(n, first, second))
  <2>1. [k \in DOMAIN documents |-> <<L(documents[k]), OverrideValue(o.values[documents[k]])>>]
          = Pairs(n, first, second)
    BY <1>1, <1>2 DEF Pairs
  <2> QED
    BY <2>1 DEF OverrideRows, documents
<1> HIDE DEF first, second
<1>5. first \in [1 .. n -> Items] /\ second \in [1 .. n -> AnyItems] /\ first \in [1 .. n -> AnyItems]
  <2>1. \A k \in 1 .. n : first[k] \in AnyItems
    BY <1>3 DEF AnyItems
  <2> QED
    BY <1>2, <1>3, <2>1
<1>6. FlattenSeq(Pairs(n, first, second)) \in Seq(AnyItems)
  <2> HIDE DEF n
  <2> QED
    BY <1>1, <1>5, PairsShape
<1> QED
  BY <1>1, <1>3, <1>4, <1>5, <1>6 DEF n, documents, first, second

LEMMA GroupsTyped ==
    ASSUME NEW overrides, GoodOverrides(overrides)
    PROVE  /\ OverrideGroups(overrides) \in Seq(Seq(AnyItems))
           /\ Len(OverrideGroups(overrides)) = Len(Keys(overrides))
<1> DEFINE names == Keys(overrides)
           groups == OverrideGroups(overrides)
<1>1. /\ Len(names) \in Nat /\ DOMAIN names = 1 .. Len(names)
      /\ \A k \in 1 .. Len(names) : names[k] \in Overridden /\ GoodOverride(overrides[names[k]])
  BY OverriddenAre
<1>2. groups = [k \in 1 .. Len(names) |->
                  Override(names[k], overrides[names[k]].type, overrides[names[k]].values)]
  BY <1>1 DEF OverrideGroups
<1> HIDE DEF names, groups
<1>3. ASSUME NEW k \in 1 .. Len(names) PROVE groups[k] \in Seq(AnyItems)
  <2> DEFINE o == overrides[names[k]]
             head == OverrideHead(names[k], o)
             rows == OverrideRows(o)
  <2>1. names[k] \in Overridden /\ GoodOverride(o) /\ groups[k] = Override(names[k], o.type, o.values)
    BY <1>1, <1>2
  <2> HIDE DEF o
  <2>2. head \in Seq(Items) /\ Override(names[k], o.type, o.values) = head \o rows
    BY <2>1, HeadIs
  <2>3. head \in Seq(AnyItems)
    BY <2>2 DEF AnyItems
  <2>4. rows \in Seq(AnyItems)
    BY <2>1, RowsShape
  <2> HIDE DEF head, rows
  <2> QED
    BY <2>1, <2>2, <2>3, <2>4, Together
<1>4. groups \in [1 .. Len(names) -> Seq(AnyItems)] /\ DOMAIN groups = 1 .. Len(names)
  BY <1>2, <1>3
<1>5. groups \in Seq(Seq(AnyItems)) /\ Len(groups) = Len(names)
  BY <1>1, <1>4, SeqDef
<1> QED
  BY <1>5 DEF groups, names

LEMMA MessageShape ==
    ASSUME NEW attrs, GoodAttrs(attrs), NEW query \in Texts
    PROVE  /\ BeforeAll(query, attrs) \in Seq(Items)
           /\ <<W(CountOf(attrs))>> \in Seq(Items) /\ CountOf(attrs) \in Nat
           /\ FlattenSeq(OverrideGroups(attrs.attributeOverrides)) \in Seq(AnyItems)
           /\ <<T(attrs.selectClause)>> \in Seq(Items)
           /\ More(attrs) \in Seq(AnyItems)
           /\ Message(query, attrs) = BeforeAll(query, attrs) \o (<<W(CountOf(attrs))>> \o More(attrs))
<1> DEFINE o == attrs.attributeOverrides
           a == BeforeAll(query, attrs)
           b == <<W(CountOf(attrs))>>
           c == FlattenSeq(OverrideGroups(o))
           d == <<T(attrs.selectClause)>>
<1>1. GoodOverrides(o)
  BY DEF GoodAttrs, GoodSettings
<1>2. a \in Seq(Items) /\ d \in Seq(Items)
  <2>1. <<>> \in Cells
    BY DEF Cells
  <2> QED
    BY <2>1, BeforeTyped, ReadSelects
<1>3. b \in Seq(Items) /\ CountOf(attrs) \in Nat /\ Overrides(o) = b \o c
  BY <1>1, OverriddenAre DEF CountOf
<1>4. c \in Seq(AnyItems)
  <2> DEFINE ss == OverrideGroups(o)
  <2>1. ss \in Seq(Seq(AnyItems))
    BY <1>1, GroupsTyped
  <2> HIDE DEF ss
  <2>2. FlattenSeq(ss) \in Seq(AnyItems)
    BY <2>1, JoinedIsSeq
  <2> QED
    BY <2>2 DEF ss
<1>5. a \in Seq(AnyItems) /\ b \in Seq(AnyItems) /\ d \in Seq(AnyItems)
  BY <1>2, <1>3 DEF AnyItems
<1>6. Message(query, attrs) = (a \o (b \o c)) \o d
  BY <1>3 DEF Message, BeforeAll, FilterItems
<1> HIDE DEF a, b, c, d, o
<1>7. c \o d \in Seq(AnyItems) /\ b \o (c \o d) \in Seq(AnyItems)
  BY <1>4, <1>5, Together
<1>8. (a \o (b \o c)) \o d = a \o (b \o (c \o d))
  <2>1. b \o c \in Seq(AnyItems)
    BY <1>4, <1>5, Together
  <2>2. (a \o (b \o c)) \o d = a \o ((b \o c) \o d)
    BY <1>5, <2>1, ConcatAssociative, SMTT(30)
  <2>3. (b \o c) \o d = b \o (c \o d)
    BY <1>4, <1>5, ConcatAssociative, SMTT(30)
  <2> QED
    BY <2>2, <2>3
<1> QED
  BY <1>2, <1>3, <1>4, <1>6, <1>7, <1>8 DEF More, a, b, c, d, o

\* What a query has left in the buffer, when it was written to its end and
\* when it was not.
IsLeft(left, query, attrs, more) ==
    /\ more \in Seq(Items) /\ left \in Seq(Items)
    /\ left = BeforeAll(query, attrs) \o (<<W(CountOf(attrs))>> \o more)
LEMMA WrittenShape ==
    ASSUME NEW attrs, GoodAttrs(attrs), NEW query \in Texts
    PROVE  \E more :
              /\ IsLeft(Written(Message(query, attrs)), query, attrs, more)
              /\ \/ /\ Thrown(Message(query, attrs)) = {} /\ more = More(attrs)
                    /\ Written(Message(query, attrs)) = Message(query, attrs)
                 \/ /\ Thrown(Message(query, attrs)) # {}
                    /\ \E back \in Seq(AnyItems) : More(attrs) = more \o (<<Exception>> \o back)
<1> DEFINE a == BeforeAll(query, attrs)
           b == <<W(CountOf(attrs))>>
           all == More(attrs)
           message == Message(query, attrs)
<1>1. a \in Seq(Items) /\ b \in Seq(Items) /\ all \in Seq(AnyItems) /\ message = a \o (b \o all)
  BY MessageShape
<1> HIDE DEF a, b, all, message
<1>2. CASE all \in Seq(Items)
  <2>1. b \o all \in Seq(Items)
    BY <1>1, <1>2, Together
  <2>2. message \in Seq(Items)
    BY <1>1, <2>1, Together
  <2>3. Thrown(message) = {} /\ Written(message) = message
    BY <2>2, WrittenAll
  <2>4. IsLeft(Written(message), query, attrs, all)
    BY <1>1, <1>2, <2>2, <2>3 DEF IsLeft, a, b
  <2> QED
    BY <2>3, <2>4 DEF message, all
<1>3. CASE \E front \in Seq(Items), back \in Seq(AnyItems) : all = front \o (<<Exception>> \o back)
  <2>1. PICK front \in Seq(Items), back \in Seq(AnyItems) : all = front \o (<<Exception>> \o back)
    BY <1>3
  <2> DEFINE rest == <<Exception>> \o back
             f == a \o (b \o front)
  <2>2. b \o front \in Seq(Items) /\ f \in Seq(Items)
    <3>1. b \o front \in Seq(Items)
      BY <1>1, Together
    <3> QED
      BY <1>1, <3>1, Together
  <2>3. rest \in Seq(AnyItems)
    <3>1. Exception \in AnyItems
      BY DEF AnyItems
    <3>2. <<Exception>> \in Seq(AnyItems)
      BY <3>1, OneItem
    <3> QED
      BY <3>2, Together
  <2> HIDE DEF rest
  <2>4. message = f \o rest
    <3>1. a \in Seq(AnyItems) /\ b \in Seq(AnyItems) /\ front \in Seq(AnyItems)
          /\ b \o front \in Seq(AnyItems)
      BY <1>1, <2>2 DEF AnyItems
    <3>2. all = front \o rest
      BY <2>1 DEF rest
    <3>3. b \o (front \o rest) = (b \o front) \o rest
      <4>1. Associates(b, front, rest)
        BY <2>3, <3>1, Associated
      <4> QED
        BY <4>1 DEF Associates
    <3> DEFINE bf == b \o front
    <3>4. a \o (bf \o rest) = (a \o bf) \o rest
      <4>1. bf \in Seq(AnyItems)
        BY <3>1
      <4> HIDE DEF bf
      <4>2. Associates(a, bf, rest)
        BY <2>3, <3>1, <4>1, Associated
      <4> QED
        BY <4>2 DEF Associates
    <3> QED
      BY <1>1, <3>2, <3>3, <3>4
  <2>5. Thrown(message) # {} /\ Written(message) = f
    <3> HIDE DEF f
    <3> QED
      BY <2>2, <2>4, WrittenFront DEF rest
  <2>6. IsLeft(Written(message), query, attrs, front)
    BY <2>2, <2>5 DEF IsLeft, a, b
  <2>7. all = front \o (<<Exception>> \o back)
    BY <2>1
  <2> QED
    BY <2>5, <2>6, <2>7 DEF message, all
<1>4. \/ all \in Seq(Items)
      \/ \E front \in Seq(Items), back \in Seq(AnyItems) : all = front \o (<<Exception>> \o back)
  BY <1>1, FirstException
<1> QED
  BY <1>2, <1>3, <1>4

-----------------------------------------------------------------------------
(* What is behind an override that does not fit *)

\* A part that is read from other cells than it was written to.
Taken(cells, named, part) == TakeAll(At(cells, <<>>), Format(At(cells, named), part))
LEMMA PartGoes ==
    ASSUME NEW cells \in Cells, NEW named, NEW part, part # "size",
           Format(At(cells, named), part) \in Seq(Widths)
    PROVE  LET taken == Taken(cells, named, part)
               r == ReadPart(At(cells, named), part)
           IN /\ taken \in Readers
              /\ ~taken.ok => ~r.ok
              /\ taken.ok => r = At(taken.rest, With(named, part, Value(At(cells, named), part, taken.got)))
<1> DEFINE r0 == At(cells, <<>>)
           r1 == At(cells, named)
           format == Format(r1, part)
           t == TakeAll(r0, format)
           taken == TakeAll(r1, format)
           value == Value(r1, part, t.got)
           x == [taken EXCEPT !.named = With(@, part, value), !.got = <<>>]
<1>1. r0 \in Readers /\ r1 = Carry(r0, named) /\ r1.ok = TRUE
  BY DEF At, Carry, Readers
<1>2. PICK after : IsTaking(after, r0, format)
  <2> HIDE DEF r0, format
  <2> QED
    BY <1>1, TakeAllIs DEF format
<1>3. t \in Readers
  <2>1. Len(format) \in Nat
    BY LenProperties
  <2> HIDE DEF r0, format
  <2>2. Len(format) \in 0 .. Len(format)
    BY <2>1
  <2> QED
    BY <1>2, <2>2 DEF IsTaking
<1>4. taken = Carry(t, named)
  <2>1. format \in Seq(Widths)
    OBVIOUS
  <2> HIDE DEF r0, r1, format
  <2>2. TakeAll(Carry(r0, named), format) = Carry(TakeAll(r0, format), named)
    BY <1>1, <2>1, TakeAllCarries
  <2> QED
    BY <1>1, <2>2
<1>5. ReadPart(r1, part) = Named(taken, part, Value(r1, part, taken.got))
  BY <1>1 DEF ReadPart
<1> HIDE DEF r0, r1, format, t, taken
<1>6. taken.got = t.got /\ taken.rest = t.rest /\ taken.ok = t.ok /\ taken.named = named
      /\ DOMAIN taken = Fields
  BY <1>4 DEF Carry, Fields
<1>7. CASE ~t.ok
  <2>1. ReadPart(r1, part) = taken
    BY <1>5, <1>6, <1>7 DEF Named
  <2> QED
    BY <1>3, <1>6, <1>7, <2>1 DEF Taken, r0, r1, t, format
<1>8. CASE t.ok
  <2>1. t.ok = TRUE
    BY <1>3, <1>8 DEF Readers
  <2>2. Value(r1, part, taken.got) = value
    BY <1>6
  <2> HIDE DEF value
  <2>3. ReadPart(r1, part) = x
    BY <1>5, <1>6, <1>8, <2>2 DEF Named
  <2>4. /\ x.got = <<>> /\ x.rest = t.rest /\ x.ok = TRUE /\ x.named = With(named, part, value)
        /\ DOMAIN x = Fields
    <3> DEFINE w == With(named, part, value)
    <3> HIDE DEF w
    <3>1. x = [taken EXCEPT !.named = w, !.got = <<>>]
      BY <1>6 DEF w
    <3> HIDE DEF x
    <3> QED
      BY <1>6, <2>1, <3>1 DEF Fields, w
  <2>5. x = [f \in DOMAIN x |-> x[f]]
    OBVIOUS
  <2> HIDE DEF x
  <2>6. x = [got |-> x.got, rest |-> x.rest, ok |-> x.ok, named |-> x.named]
    BY <2>4, <2>5, ReaderIs
  <2>7. x = At(t.rest, With(named, part, value))
    BY <2>4, <2>6 DEF At
  <2> QED
    BY <1>3, <1>8, <2>3, <2>7 DEF Taken, r0, r1, t, format, value
<1> QED
  BY <1>7, <1>8

\* Nothing is read any more.
LEMMA StopsReading ==
    ASSUME NEW r, ~r.ok
    PROVE  /\ \A part : ReadPart(r, part) = r
           /\ \A parts : ReadList(r, parts) = r
  BY DEF ReadPart, ReadList
LEMMA StopsReadingParts ==
    ASSUME NEW r, ~r.ok, NEW parts, Len(parts) \in Nat
    PROVE  ReadParts(r, parts) = r
<1>1. PICK after : IsReading(after, r, parts)
  BY ReadingIs
<1> DEFINE U == {k \in 0 .. Len(parts) : after[k] = r}
<1>2. 0 \in U
  BY <1>1 DEF IsReading
<1>3. ASSUME NEW k \in 1 .. Len(parts), k - 1 \in U
      PROVE  k \in U
  BY <1>1, <1>3, StopsReading DEF IsReading
<1>4. \A k \in 0 .. Len(parts) : k \in U
  <2> HIDE DEF U
  <2> QED
    BY <1>2, <1>3, InductiveUpTo
<1> QED
  BY <1>1, <1>4 DEF IsReading

\* The query that was named stays, as long as anything is read.
Remembers(r, query) ==
    \/ ~r.ok
    \/ \E cells, named : cells \in Cells /\
          r = At(cells, named) /\ "query" \in DOMAIN named /\ named.query = query
LEMMA WithRemembers ==
    ASSUME NEW cells \in Cells, NEW named, "query" \in DOMAIN named, NEW part, part # "query", NEW v
    PROVE  Remembers(At(cells, With(named, part, v)), named.query)
<1>1. "query" \in DOMAIN With(named, part, v) /\ With(named, part, v).query = named.query
  BY DEF With
<1> QED
  BY <1>1 DEF Remembers

LEMMA PartRemembers ==
    ASSUME NEW cells \in Cells, NEW named, "query" \in DOMAIN named,
           NEW part, part \notin {"size", "query"}, Format(At(cells, named), part) \in Seq(Widths)
    PROVE  Remembers(ReadPart(At(cells, named), part), named.query)
<1> DEFINE t == Taken(cells, named, part)
           r == ReadPart(At(cells, named), part)
           v == Value(At(cells, named), part, t.got)
<1>1. t \in Readers /\ (~t.ok => ~r.ok) /\ (t.ok => r = At(t.rest, With(named, part, v)))
  BY PartGoes
<1> HIDE DEF t, r, v
<1>2. CASE ~t.ok
  BY <1>1, <1>2 DEF Remembers, r
<1>3. CASE t.ok
  <2>1. t.rest \in Cells
    BY <1>1 DEF Readers
  <2>2. Remembers(At(t.rest, With(named, part, v)), named.query)
    BY <2>1, WithRemembers
  <2> QED
    BY <1>1, <1>3, <2>2 DEF r
<1> QED
  BY <1>2, <1>3

\* The parts that are a number or a text, whatever they are read from.
LEMMA SingleRemembers ==
    ASSUME NEW r, NEW query, Remembers(r, query),
           NEW part \in {"attrName", "type", "documents", "selectClause"}
    PROVE  Remembers(ReadPart(r, part), query)
<1>1. CASE ~r.ok
  BY <1>1, StopsReading DEF Remembers
<1>2. CASE r.ok
  <2>1. PICK cells, named : cells \in Cells /\
           r = At(cells, named) /\ "query" \in DOMAIN named /\ named.query = query
    BY <1>2 DEF Remembers
  <2>2. Format(r, part) \in {<<Text>>, <<2>>}
    BY DEF Format, TextParts
  <2>3. <<Text>> \in Seq(Widths) /\ <<2>> \in Seq(Widths)
    BY DEF Widths, Text
  <2>4. Format(At(cells, named), part) \in Seq(Widths)
    BY <2>1, <2>2, <2>3
  <2>5. Remembers(ReadPart(At(cells, named), part), named.query)
    BY <2>1, <2>4, PartRemembers
  <2> QED
    BY <2>1, <2>5
<1> QED
  BY <1>1, <1>2

\* A number of documents is read.
LEMMA DocumentsRead ==
    ASSUME NEW cells \in Cells, NEW named, "query" \in DOMAIN named
    PROVE  LET r == ReadPart(At(cells, named), "documents")
           IN \/ ~r.ok
              \/ \E after, new : after \in Cells /\
                    /\ r = At(after, new) /\ "query" \in DOMAIN new /\ new.query = named.query
                    /\ new.documents \in Nat
<1> DEFINE r0 == At(cells, <<>>)
           t == Taken(cells, named, "documents")
           r == ReadPart(At(cells, named), "documents")
<1>1. Format(At(cells, named), "documents") = <<2>> /\ <<2>> \in Seq(Widths)
  BY DEF Format, TextParts, Widths
<1>2. t \in Readers /\ (~t.ok => ~r.ok)
      /\ (t.ok => r = At(t.rest, With(named, "documents", Value(At(cells, named), "documents", t.got))))
  BY <1>1, PartGoes
<1>3. Value(At(cells, named), "documents", t.got) = t.got[1]
  BY DEF Value
<1>4. t.ok => t.got[1] \in Nat
  <2>1. r0 \in Readers /\ r0.rest = cells /\ r0.got = <<>> /\ r0.ok = TRUE
    BY DEF At, Readers
  <2> HIDE DEF r0
  <2>2. t = TakeAll(r0, <<2>>)
    BY <1>1 DEF Taken, r0
  <2>3. PICK after : IsTaking(after, r0, <<2>>)
    BY <1>1, <2>1, TakeAllIs
  <2>4. t = Take(r0, 2)
    BY <2>2, <2>3 DEF IsTaking
  <2> HIDE DEF t
  <2>5. CASE 2 <= Len(cells)
    <3>1. Number(SubSeq(cells, 1, 2)) \in Nat
      <4>1. 2 \in 0 .. Len(cells)
        BY <2>5, LenProperties DEF Cells
      <4> QED
        BY <4>1, PartTyped, NumberTyped
    <3>2. t.got = Append(<<>>, Number(SubSeq(cells, 1, 2)))
      <4> DEFINE g == Append(r0.got, Number(SubSeq(r0.rest, 1, 2)))
                 c == SubSeq(r0.rest, 2 + 0 + 1, Len(r0.rest))
      <4>1. Take(r0, 2) = [r0 EXCEPT !.got = g, !.rest = c]
        BY <2>1, <2>5 DEF Take, Text
      <4>2. DOMAIN r0 = Fields
        BY <2>1 DEF Readers, Fields
      <4> HIDE DEF g, c
      <4> DEFINE x == [r0 EXCEPT !.got = g, !.rest = c]
      <4>3. x.got = g
        BY <4>2 DEF Fields
      <4>4. t.got = g
        BY <2>4, <4>1, <4>3
      <4> QED
        BY <2>1, <4>4 DEF g
    <3>3. t.got[1] = Number(SubSeq(cells, 1, 2))
      BY <3>2
    <3> QED
      BY <3>1, <3>3
  <2>6. CASE ~(2 <= Len(cells))
    <3>1. Take(r0, 2) = [r0 EXCEPT !.ok = FALSE]
      BY <2>1, <2>6 DEF Take, Text
    <3> QED
      BY <2>1, <2>4, <3>1 DEF Readers
  <2> QED
    BY <2>5, <2>6
<1> HIDE DEF t, r
<1>5. CASE t.ok
  <2> DEFINE new == With(named, "documents", t.got[1])
  <2>1. r = At(t.rest, new) /\ t.rest \in Cells
    BY <1>2, <1>3, <1>5 DEF Readers
  <2>2. "query" \in DOMAIN new /\ new.query = named.query /\ new.documents \in Nat
    BY <1>4, <1>5 DEF With
  <2> QED
    BY <2>1, <2>2 DEF r
<1>6. CASE ~t.ok
  BY <1>2, <1>6 DEF r
<1> QED
  BY <1>5, <1>6

LEMMA TimesTyped ==
    ASSUME NEW n \in Nat, NEW format \in Seq(Widths)
    PROVE  Times(n, format) \in Seq(Widths)
<1> DEFINE ss == [k \in 1 .. n |-> format]
<1>1. ss \in Seq(Seq(Widths))
  BY SeqDef
<1> HIDE DEF ss
<1>2. FlattenSeq(ss) \in Seq(Widths)
  BY <1>1, JoinedIsSeq
<1> QED
  BY <1>2 DEF Times, ss

LEMMA OverrideRemembers ==
    ASSUME NEW r, NEW query, Remembers(r, query)
    PROVE  Remembers(ReadParts(r, OverrideParts), query)
<1>1. Len(OverrideParts) = 4 /\ OverrideParts[1] = "attrName" /\ OverrideParts[2] = "type"
      /\ OverrideParts[3] = "documents" /\ OverrideParts[4] = "attributeOverrides"
  BY DEF OverrideParts
<1>2. PICK after : IsReading(after, r, OverrideParts)
  <2>1. Len(OverrideParts) \in Nat
    BY <1>1
  <2> QED
    BY <2>1, ReadingIs
<1>3. /\ after[0] = r /\ after[1] = ReadPart(after[0], "attrName")
      /\ after[2] = ReadPart(after[1], "type") /\ after[3] = ReadPart(after[2], "documents")
      /\ after[4] = ReadPart(after[3], "attributeOverrides")
      /\ ReadParts(r, OverrideParts) = after[4]
  BY <1>1, <1>2 DEF IsReading
<1>4. Remembers(after[1], query)
  BY <1>3, SingleRemembers
<1>5. Remembers(after[2], query)
  BY <1>3, <1>4, SingleRemembers
<1>6. CASE ~after[2].ok
  <2>1. ~after[4].ok
    BY <1>3, <1>6, StopsReading
  <2> QED
    BY <1>3, <2>1 DEF Remembers
<1>7. CASE after[2].ok
  <2>1. PICK cells, named : cells \in Cells /\
           after[2] = At(cells, named) /\ "query" \in DOMAIN named /\ named.query = query
    BY <1>5, <1>7 DEF Remembers
  <2>2. \/ ~after[3].ok
        \/ \E rest, new : rest \in Cells /\
              /\ after[3] = At(rest, new) /\ "query" \in DOMAIN new /\ new.query = named.query
              /\ new.documents \in Nat
    BY <1>3, <2>1, DocumentsRead
  <2>3. CASE ~after[3].ok
    <3>1. ~after[4].ok
      BY <1>3, <2>3, StopsReading
    <3> QED
      BY <1>3, <3>1 DEF Remembers
  <2>4. ASSUME NEW rest \in Cells, NEW new,
               after[3] = At(rest, new), "query" \in DOMAIN new, new.query = named.query,
               new.documents \in Nat
        PROVE  Remembers(after[4], query)
    <3> DEFINE r3 == At(rest, new)
               w == ValueWidth(r3)
    <3>1. w \in {2, 4} /\ <<4, w>> \in Seq(Widths)
      <4>1. w \in {2, 4}
        BY DEF ValueWidth
      <4> HIDE DEF w
      <4> QED
        BY <4>1 DEF Widths
    <3>2. Format(r3, "attributeOverrides") = Repeated(r3, new.documents, <<4, w>>)
      BY DEF Format, TextParts, At
    <3>3. Times(new.documents, <<4, w>>) \in Seq(Widths)
      <4> HIDE DEF w
      <4> QED
        BY <2>4, <3>1, TimesTyped
    <3>4. <<Len(r3.rest) + 1>> \in Seq(Widths)
      <4>1. Len(r3.rest) + 1 \in Widths
        BY LenProperties DEF At, Cells, Widths
      <4> QED
        BY <4>1
    <3>5. Format(r3, "attributeOverrides") \in Seq(Widths)
      <4> HIDE DEF w, r3
      <4> QED
        BY <3>2, <3>3, <3>4 DEF Repeated
    <3>6. Remembers(ReadPart(r3, "attributeOverrides"), new.query)
      BY <2>4, <3>5, PartRemembers
    <3> QED
      BY <1>3, <2>1, <2>4, <3>6
  <2> QED
    BY <1>3, <2>2, <2>3, <2>4
<1> QED
  BY <1>6, <1>7

LEMMA ListRemembers ==
    ASSUME NEW cells \in Cells, NEW named, "query" \in DOMAIN named, named.count \in Nat
    PROVE  Remembers(ReadList(At(cells, named), OverrideParts), named.query)
<1> DEFINE r == At(cells, named)
           n == named.count
<1>1. r.ok = TRUE /\ r.named = named /\ Remembers(r, named.query)
  BY DEF At, Remembers
<1> HIDE DEF r
<1>2. CASE 2 * (Len(OverrideParts) - 1) * r.named.count > Len(r.rest)
  <2>1. ReadList(r, OverrideParts) = [r EXCEPT !.ok = FALSE]
    BY <1>1, <1>2 DEF ReadList
  <2>2. ~[r EXCEPT !.ok = FALSE].ok
    BY DEF r, At
  <2> QED
    BY <2>1, <2>2 DEF Remembers, r
<1>3. CASE ~(2 * (Len(OverrideParts) - 1) * r.named.count > Len(r.rest))
  <2>1. PICK after : IsListing(after, r, OverrideParts, n)
    <3>1. r.named.count = n /\ r.named.count \in Nat
      BY <1>1
    <3>2. \E after : IsListing(after, r, OverrideParts, r.named.count)
      BY <1>1, <1>3, <3>1, ListingIs
    <3> QED
      BY <3>1, <3>2
  <2> DEFINE U == {k \in 0 .. n : Remembers(after[k], named.query)}
  <2>2. 0 \in U
    BY <1>1, <2>1 DEF IsListing
  <2>3. ASSUME NEW k \in 1 .. n, k - 1 \in U
        PROVE  k \in U
    <3>1. after[k] = ReadParts(after[k - 1], OverrideParts)
      BY <2>1 DEF IsListing
    <3>2. Remembers(after[k], named.query)
      BY <2>3, <3>1, OverrideRemembers
    <3> QED
      BY <3>2
  <2>4. \A k \in 0 .. n : k \in U
    <3> HIDE DEF U
    <3> QED
      BY <2>2, <2>3, InductiveUpTo
  <2> QED
    BY <2>1, <2>4 DEF IsListing, r
<1> QED
  BY <1>2, <1>3

\* Whatever is behind the number of overrides, when anything is read of the
\* query then it is its text.
LEMMA QueryKept ==
    ASSUME NEW attrs, GoodAttrs(attrs), NEW query \in Texts, NEW left, NEW more,
           IsLeft(left, query, attrs, more), NEW tail \in Cells
    PROVE  LET r == ReadOne(Wire(left) \o tail, attrs.commandVersion)
           IN r.ok => r.named.query = query
<1> DEFINE a == BeforeAll(query, attrs)
           b == <<W(CountOf(attrs))>>
           rest == Wire(more) \o tail
           cells == Wire(left) \o tail
           n == CountOf(attrs)
<1>1. a \in Seq(Items) /\ b \in Seq(Items) /\ n \in Nat
  BY MessageShape
<1>2. more \in Seq(Items) /\ left = a \o (b \o more)
  BY DEF IsLeft
<1>3. rest \in Cells /\ cells = Wire(a) \o (Wire(b) \o rest)
  <2> DEFINE bm == b \o more
  <2> HIDE DEF a, b
  <2>1. Splits(b, more, tail)
    BY <1>1, <1>2, ItemsSplit
  <2>2. bm \in Seq(Items) /\ Wire(bm) \o tail = Wire(b) \o rest /\ rest \in Cells
    BY <2>1 DEF Splits
  <2> HIDE DEF bm, rest
  <2>3. Splits(a, bm, tail)
    BY <1>1, <2>2, ItemsSplit
  <2> QED
    BY <1>2, <2>2, <2>3 DEF Splits, bm
<1>4. PICK known :
         /\ ReadSettings(cells, attrs.commandVersion) = At(rest, known)
         /\ Knows(known, query, attrs, AllNames)
         /\ "count" \in DOMAIN known /\ known.count = n
  <2>1. cells = Wire(BeforeAll(query, attrs)) \o (Wire(<<W(n)>>) \o rest) /\ <<W(n)>> \in Seq(Items)
    BY <1>1, <1>3
  <2>2. rest \in Cells
    BY <1>3
  <2> HIDE DEF rest, cells, n
  <2> QED
    BY <2>1, <2>2, SettingsRead
<1>5. "query" \in DOMAIN known /\ known.query = query
  BY <1>4 DEF Knows, AllNames, FrontNames
<1> HIDE DEF rest, cells, n
<1>6. Remembers(ReadList(At(rest, known), OverrideParts), query)
  BY <1>1, <1>3, <1>4, <1>5, ListRemembers
<1>7. Remembers(ReadOne(cells, attrs.commandVersion), query)
  BY <1>4, <1>6, SingleRemembers DEF ReadOne
<1>8. ReadOne(cells, attrs.commandVersion).ok => ReadOne(cells, attrs.commandVersion).named.query = query
  <2> DEFINE r == ReadOne(cells, attrs.commandVersion)
  <2> HIDE DEF r
  <2>1. Remembers(r, query)
    BY <1>7 DEF r
  <2> SUFFICES ASSUME r.ok
               PROVE  r.named.query = query
    BY DEF r
  <2>2. PICK after, new : after \in Cells /\ r = At(after, new) /\ "query" \in DOMAIN new /\ new.query = query
    BY <2>1 DEF Remembers
  <2>3. At(after, new).named = new
    BY DEF At
  <2> QED
    BY <2>2, <2>3
<1> QED
  BY <1>8 DEF cells
=============================================================================
