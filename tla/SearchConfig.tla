---------------------------- MODULE SearchConfig ----------------------------
(***************************************************************************)
(* SearchConfig_t, src/src/sphinxclient.cc, and its filters,               *)
(* src/src/filter.cc: the settings of searches.  Objects are constructed,  *)
(* copied, assigned, destroyed and changed by the caller; each owns the    *)
(* filters it points to.  All other settings are values and are copied as  *)
(* such.                                                                   *)
(*                                                                         *)
(* A setting is a number, a text (a sequence of cells), a sequence, or a   *)
(* map (a function).  Setters are called with the values of NewSettings.   *)
(* A filter's address is the lowest that is free: which one new returns    *)
(* makes no difference.                                                    *)
(***************************************************************************)
EXTENDS RequestFrame, FiniteSets

CONSTANTS
    Configs,        \* the caller's objects
    NewSettings,    \* what setters set
    NewFilters,     \* arguments of the add...Filter() calls
    NewOverrides,   \* arguments of the addAttributeOverride() calls
    MaxFilters,     \* bound: filters alive at once
    MaxCalls        \* bound: calls on objects, of query() with them too

\* What goes into a request as 32 bits, as 64, or behind a length of 32 bits.
Numbers == 0 .. WordLimit - 1
LongNumbers == {n \in Nat : n \div WordLimit < WordLimit}
Texts == {text \in Seq(Nat) : 2 * Len(text) < WordLimit}
Counted(S) == IsFiniteSet(S) /\ Cardinality(S) < WordLimit

NumberSettings ==
    {"msgOffset", "msgLimit", "matchMode", "sortMode", "rankingMode", "groupFunction", "maxMatches",
     "searchCutOff", "distRetryCount", "distRetryDelay", "maxQueryTime"}
TextSettings ==
    {"rankingExpr", "sortBy", "groupBy", "groupSort", "groupDistinctAttribute", "indexes",
     "queryComment", "selectClause"}
WeightSettings == {"indexWeights", "fieldWeights"}

\* What the arguments of setters are, and what they leave in an object.
AnchorPoints ==
    [lattitudeAttributeName : Texts, longitudeAttributeName : Texts,
     lattitude : Numbers, longitude : Numbers]
FilterValues ==
    {f \in [kind : {"range", "values", "floatrange"}, attrName : Texts, excludeFlag : BOOLEAN,
            values : Seq(LongNumbers)] :
        IF f.kind = "values" THEN Len(f.values) < WordLimit
        ELSE Len(f.values) = 2 /\ (f.kind = "floatrange" => f.values \in Seq(Numbers))}
OverrideValues ==
    [type : {"uint32", "float"}, number : Numbers]
    \cup [type : {"uint64"}, number : LongNumbers]
    \cup [type : {"vector", "string"}, number : Nat]
IsOverride(o) == o.type \in Numbers /\ o.values \in [DOMAIN o.values -> OverrideValues]

\* The attributes that are overridden, and the documents for which they are.
Overridden == DOMAIN NewSettings.attributeOverrides \cup {o.attribute : o \in NewOverrides}
Documents ==
    UNION {DOMAIN o.values : o \in NewOverrides \cup Range(NewSettings.attributeOverrides)}

\* Lengths and counts could be longer, as size_t; their low 32 bits are sent.
ASSUME ConfigAssumption ==
    /\ MaxFilters \in Nat /\ MaxCalls \in Nat
    /\ IsFiniteSet(NewFilters) /\ Cardinality(NewFilters) <= MaxFilters
    /\ NewFilters \subseteq FilterValues
    /\ MaxFilters < WordLimit
    /\ 1000 < WordLimit    \* the largest default
ASSUME SettingsAssumption ==
    /\ DOMAIN NewSettings =
         NumberSettings \cup TextSettings \cup WeightSettings \cup {"anchorPoints", "attributeOverrides"}
    /\ \A s \in NumberSettings : NewSettings[s] \in Numbers
    /\ \A s \in TextSettings : NewSettings[s] \in Texts
    /\ NewSettings.anchorPoints \in Seq(AnchorPoints) /\ Len(NewSettings.anchorPoints) < WordLimit
    /\ \A s \in WeightSettings :
         /\ NewSettings[s] \in [DOMAIN NewSettings[s] -> Numbers]
         /\ Counted(DOMAIN NewSettings[s]) /\ DOMAIN NewSettings[s] \subseteq Texts
    /\ \A o \in NewOverrides \cup Range(NewSettings.attributeOverrides) : IsOverride(o)
    /\ Counted(Overridden) /\ Overridden \subseteq Texts
    /\ Counted(Documents) /\ Documents \subseteq LongNumbers

VARIABLES
    configs,    \* object -> its settings, or NotAlive
    heap,       \* address -> the filter, or Freed
    calls

configVars == <<configs, heap, calls>>

Addresses == 1 .. MaxFilters

NotAlive == [alive |-> FALSE]
Freed == [alive |-> FALSE]

Alive == {c \in Configs : configs[c].alive}

\* Texts of defaults: "@group desc" and "*".
GroupDesc == <<1>>
All == <<2>>

Defaults(version) ==
    [alive |-> TRUE, commandVersion |-> version, filters |-> <<>>,
     msgOffset |-> 0, msgLimit |-> 20, matchMode |-> 0, sortMode |-> 0,
     rankingMode |-> 0, rankingExpr |-> <<>>, sortBy |-> <<>>,
     groupBy |-> <<>>, groupFunction |-> 0, groupSort |-> GroupDesc,
     groupDistinctAttribute |-> <<>>, maxMatches |-> 1000, indexes |-> All,
     searchCutOff |-> 0, distRetryCount |-> 0, distRetryDelay |-> 0,
     anchorPoints |-> <<>>, indexWeights |-> <<>>, fieldWeights |-> <<>>,
     maxQueryTime |-> 0, queryComment |-> <<>>, selectClause |-> All,
     attributeOverrides |-> <<>>]

\* The constructor takes the bounds as uint32_t.
RangeFilter(f) == [f EXCEPT !.values = [k \in 1 .. 2 |-> f.values[k] % WordLimit]]
EnumFilter(f) == f
FloatRangeFilter(f) == f
NewFilter(f) ==
    CASE f.kind = "range" -> RangeFilter(f)
      [] f.kind = "values" -> EnumFilter(f)
      [] f.kind = "floatrange" -> FloatRangeFilter(f)

\* Settings of which those in "set" are replaced.
Changed(settings, set) ==
    [s \in DOMAIN settings |-> IF s \in DOMAIN set THEN set[s] ELSE settings[s]]

\* One object is there: as constructed, or after every setter and every
\* add...Filter() was called once.
ConfigInit ==
    /\ \E version \in SearchVersions, first \in Configs :
         \E filters \in {<<>>, SetToSeq(NewFilters)} :
           LET set == IF filters = <<>> THEN <<>> ELSE NewSettings
           IN /\ configs = [c \in Configs |->
                    IF c = first
                    THEN [Changed(Defaults(version), set) EXCEPT
                             !.filters = [k \in DOMAIN filters |-> k]]
                    ELSE NotAlive]
              /\ heap = [a \in Addresses |->
                    IF a \in DOMAIN filters THEN NewFilter(filters[a]) ELSE Freed]
    /\ calls = 0

-----------------------------------------------------------------------------
(* Filters *)

Free == {a \in Addresses : heap[a] = Freed}
Lowest(free, n) ==
    [k \in 1 .. n |-> CHOOSE a \in free : Cardinality({b \in free : b < a}) = k - 1]

\* getFilter(), for every index.
Filters(c) == [k \in DOMAIN configs[c].filters |-> heap[configs[c].filters[k]]]

-----------------------------------------------------------------------------
(* The operations *)

Call == calls < MaxCalls /\ calls' = calls + 1

\* clone() of each filter, to free addresses.
NoClones(source, free) == configs[source].filters
Clones(source, free) == Lowest(free, Len(configs[source].filters))

MakeCopyButVersion(source, filters) ==
    [configs[source] EXCEPT !.filters = filters, !.commandVersion = Garbage]
MakeCopy(source, filters) == [configs[source] EXCEPT !.filters = filters]

\* What the heap is when filters of "source" have copies at "clones" and the
\* addresses "deleted" are freed.
HeapWith(source, clones, deleted) ==
    [a \in Addresses |->
        IF \E k \in DOMAIN clones : clones[k] = a
        THEN heap[configs[source].filters[CHOOSE k \in DOMAIN clones : clones[k] = a]]
        ELSE IF a \in deleted THEN Freed ELSE heap[a]]

Construct(c) ==
    /\ Call /\ c \notin Alive
    /\ \E version \in SearchVersions :
         configs' = [configs EXCEPT ![c] = Defaults(version)]
    /\ UNCHANGED heap

CopyConstruct(c, from) ==
    /\ Call /\ c \notin Alive /\ from \in Alive
    /\ Cardinality(Free) >= Len(configs[from].filters)
    /\ LET clones == Clones(from, Free)
       IN /\ configs' = [configs EXCEPT ![c] = MakeCopy(from, clones)]
          /\ heap' = HeapWith(from, clones, {})

\* The old settings are deleted with their filters, then the copy is made.
DeletedWith(c) == Range(configs[c].filters)
Assign(c, from) ==
    /\ Call /\ c # from /\ {c, from} \subseteq Alive
    /\ LET deleted == DeletedWith(c)
           free    == Free \cup deleted
           clones  == Clones(from, free)
       IN /\ Cardinality(free) >= Len(configs[from].filters)
          /\ configs' = [configs EXCEPT ![c] = MakeCopy(from, clones)]
          /\ heap' = HeapWith(from, clones, deleted)

Destroy(c) ==
    /\ Call /\ c \in Alive
    /\ configs' = [configs EXCEPT ![c] = NotAlive]
    /\ heap' = HeapWith(c, <<>>, DeletedWith(c))

AddFilter(c, f) ==
    /\ Call /\ c \in Alive /\ Free # {}
    /\ LET a == Lowest(Free, 1)[1]
       IN /\ configs' = [configs EXCEPT ![c].filters = Append(@, a)]
          /\ heap' = [heap EXCEPT ![a] = NewFilter(f)]

\* What each setter assigns.
Setters ==
    {{"msgOffset", "msgLimit"}, {"matchMode"}, {"sortMode", "sortBy"},
     {"rankingMode", "rankingExpr"}, {"groupFunction", "groupBy", "groupSort"},
     {"groupDistinctAttribute"}, {"maxMatches"}, {"maxQueryTime"}, {"indexes"},
     {"searchCutOff"}, {"distRetryCount", "distRetryDelay"}, {"anchorPoints"},
     {"queryComment"}, {"selectClause"}}

Set(c, fields) ==
    /\ Call /\ c \in Alive
    /\ configs' = [configs EXCEPT ![c] = Changed(@, [f \in fields |-> NewSettings[f]])]
    /\ UNCHANGED heap

\* The entries of a map added to another, or in place of its own.
Over(new, map) ==
    [key \in DOMAIN new \cup DOMAIN map |-> IF key \in DOMAIN new THEN new[key] ELSE map[key]]

\* setIndexWeight and setFieldWeight.
Weighted(c, weights) == Over(NewSettings[weights], configs[c][weights])
SetWeight(c, weights) ==
    /\ Call /\ c \in Alive
    /\ configs' = [configs EXCEPT ![c][weights] = Weighted(c, weights)]
    /\ UNCHANGED heap

\* With a map of values the entry of the attribute is replaced.
Overriding(o, values) == [attribute \in {o.attribute} |-> [type |-> o.type, values |-> values]]
OverrideAll(overrides, o) == Over(Overriding(o, o.values), overrides)

\* With one value its type is set and the document added.
OverrideOne(overrides, o) ==
    LET before == IF o.attribute \in DOMAIN overrides
                  THEN overrides[o.attribute].values ELSE <<>>
    IN Over(Overriding(o, Over(o.values, before)), overrides)

AddAttributeOverride(c, o) ==
    /\ Call /\ c \in Alive
    /\ \E overrides \in {OverrideAll(configs[c].attributeOverrides, o),
                        OverrideOne(configs[c].attributeOverrides, o)} :
         configs' = [configs EXCEPT ![c].attributeOverrides = overrides]
    /\ UNCHANGED heap

ConfigNext ==
    \E c \in Configs :
        \/ Construct(c) \/ Destroy(c)
        \/ \E from \in Configs : CopyConstruct(c, from) \/ Assign(c, from)
        \/ \E f \in NewFilters : AddFilter(c, f)
        \/ \E fields \in Setters : Set(c, fields)
        \/ \E weights \in {"indexWeights", "fieldWeights"} : SetWeight(c, weights)
        \/ \E o \in NewOverrides : AddAttributeOverride(c, o)

-----------------------------------------------------------------------------
(* Properties *)

\* Every filter that is alive belongs to one object, in one place, and every
\* pointer to one that is alive: copies share none, and after any order of
\* copies, assignments and destructions none is lost and none deleted twice
\* (sphinxclient.cc:241, :251, :358).
Owners(a) == {o \in Alive \X Addresses :
                /\ o[2] \in DOMAIN configs[o[1]].filters
                /\ configs[o[1]].filters[o[2]] = a}
FiltersOwned ==
    \A a \in Addresses : Cardinality(Owners(a)) = IF heap[a] = Freed THEN 0 ELSE 1
=============================================================================
