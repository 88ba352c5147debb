---------------------------- MODULE SearchRequest ----------------------------
(***************************************************************************)
(* The body of a search request: buildQuery_v0_9_9,                        *)
(* src/src/queryversions.cc, with dumpToBuff() of the filters,             *)
(* src/src/filter.cc; and how searchd takes it apart, which is external    *)
(* and written independently of the builder.                               *)
(*                                                                         *)
(* "attrs" are the settings of a SearchConfig_t with its filters in place  *)
(* of their addresses.                                                     *)
(***************************************************************************)
EXTENDS SearchdReader, RequestFrame, FiniteSets

SPH_RANK_EXPR == 8
SPH_ATTR_INTEGER == 1
SPH_ATTR_FLOAT == 5
SPH_ATTR_BIGINT == 6
FilterType == [values |-> 0, range |-> 1, floatrange |-> 2]

-----------------------------------------------------------------------------
(* What is written, in order: numbers by their width, texts, and a place    *)
(* where an exception is thrown.                                            *)

Throws == -1
W(number) == [width |-> 2, value |-> number]
L(number) == [width |-> 4, value |-> number]
T(text) == [width |-> Text, value |-> text]
Exception == [width |-> Throws, value |-> 0]

Words(numbers) == [k \in DOMAIN numbers |-> W(numbers[k])]
Keys(map) == SetToSeq(DOMAIN map)

DumpToBuff(f) ==
    <<T(f.attrName), W(FilterType[f.kind])>>
    \o (CASE f.kind = "values" ->
               <<W(Len(f.values))>> \o [k \in DOMAIN f.values |-> L(f.values[k])]
          [] f.kind = "range" -> <<L(f.values[1]), L(f.values[2])>>
          [] f.kind = "floatrange" -> <<W(f.values[1]), W(f.values[2])>>)
    \o <<W(IF f.excludeFlag THEN 1 ELSE 0)>>

\* A vector or a text has no form in an override.
OverrideValue(value) ==
    CASE value.type \in {"uint32", "float"} -> W(value.number)
      [] value.type = "uint64" -> L(value.number)
      [] OTHER -> Exception

RankingExprOfAnyVersion(attrs) ==
    IF attrs.rankingMode = SPH_RANK_EXPR THEN <<T(attrs.rankingExpr)>> ELSE <<>>
RankingExpr(attrs) ==
    IF attrs.rankingMode = SPH_RANK_EXPR
       /\ attrs.commandVersion >= VER_COMMAND_SEARCH_2_0_5
    THEN <<T(attrs.rankingExpr)>> ELSE <<>>

AnchorPoint(p) ==
    <<T(p.lattitudeAttributeName), T(p.longitudeAttributeName), W(p.lattitude), W(p.longitude)>>

Weights(weights) ==
    LET names == Keys(weights)
    IN <<W(Len(names))>>
       \o FlattenSeq([k \in DOMAIN names |-> <<T(names[k]), W(weights[names[k]])>>])

Override(name, type, values) ==
    LET documents == Keys(values)
    IN <<T(name), W(type), W(Len(documents))>>
       \o FlattenSeq([k \in DOMAIN documents |->
                       <<L(documents[k]), OverrideValue(values[documents[k]])>>])
Overrides(overrides) ==
    LET names == Keys(overrides)
    IN <<W(Len(names))>>
       \o FlattenSeq([k \in DOMAIN names |->
              Override(names[k], overrides[names[k]].type, overrides[names[k]].values)])

BeforeFilters(query, attrs) ==
    Words(<<attrs.msgOffset, attrs.msgLimit, attrs.matchMode, attrs.rankingMode>>)
    \o RankingExpr(attrs)
    \o <<W(attrs.sortMode), T(attrs.sortBy), T(query), W(0), T(attrs.indexes),
         W(1), L(0), L(0), W(Len(attrs.filters))>>

BeforeOverrides(attrs) ==
    <<W(attrs.groupFunction), T(attrs.groupBy), W(attrs.maxMatches), T(attrs.groupSort),
         W(attrs.searchCutOff), W(attrs.distRetryCount), W(attrs.distRetryDelay),
         T(attrs.groupDistinctAttribute), W(Len(attrs.anchorPoints))>>
    \o FlattenSeq([k \in DOMAIN attrs.anchorPoints |-> AnchorPoint(attrs.anchorPoints[k])])
    \o Weights(attrs.indexWeights) \o <<W(attrs.maxQueryTime)>> \o Weights(attrs.fieldWeights)
    \o <<T(attrs.queryComment)>>

Message(query, attrs) ==
    BeforeFilters(query, attrs)
    \o FlattenSeq([k \in DOMAIN attrs.filters |-> DumpToBuff(attrs.filters[k])])
    \o BeforeOverrides(attrs) \o Overrides(attrs.attributeOverrides)
    \o <<T(attrs.selectClause)>>

ItemCells(q, item) ==
    IF item.width = Text
    THEN Ordered(q, CellsOf(2 * Len(item.value), 2)) \o item.value
    ELSE Ordered(q, CellsOf(item.value, item.width))

\* The operators << of all of them: the buffer grows with one after another
\* as it would at once.
PutAll(q, items) ==
    LET cells == FlattenSeq([k \in DOMAIN items |-> ItemCells(q, items[k])])
    IN Store(Grow(q, Len(cells)), cells)

Thrown(message) == {k \in DOMAIN message : message[k].width = Throws}

\* What stands before the exception stays in the buffer.
Written(message) ==
    IF Thrown(message) = {} THEN message
    ELSE SubSeq(message, 1, (CHOOSE k \in Thrown(message) : \A o \in Thrown(message) : k <= o) - 1)
BuildQuery(query, attrs, data) ==
    LET message == Message(query, attrs)
    IN [whole |-> Thrown(message) = {}, data |-> PutAll(data, Written(message))]

-----------------------------------------------------------------------------
(* searchd reading one query, part by part: each is named by the setting it  *)
(* is for and stands behind the one before.                                 *)

PartsToFilters ==
    <<"msgOffset", "msgLimit", "matchMode", "rankingMode", "rankingExpr", "sortMode",
      "sortBy", "query", "count", "weights", "indexes", "idRange", "ids", "count">>
FilterParts == <<"attrName", "type", "size", "values", "filters">>
PartsToOverrides ==
    <<"groupFunction", "groupBy", "maxMatches", "groupSort", "searchCutOff",
      "distRetryCount", "distRetryDelay", "groupDistinctAttribute", "count", "anchorPoints",
      "count", "indexWeights", "maxQueryTime", "count", "fieldWeights", "queryComment", "count">>
OverrideParts == <<"attrName", "type", "documents", "attributeOverrides">>

TextParts ==
    {"sortBy", "query", "indexes", "groupBy", "groupSort", "groupDistinctAttribute",
     "queryComment", "selectClause", "attrName"}
Settings ==
    Range(PartsToFilters \o PartsToOverrides \o <<"filters", "attributeOverrides", "selectClause">>)
    \ {"query", "count", "weights", "idRange", "ids"}

IdWidth(r) == IF r.named.idRange = 1 THEN 4 ELSE 2
ValueWidth(r) == IF r.named.type = SPH_ATTR_BIGINT THEN 4 ELSE 2
FilterWidth(r) == IF r.named.type = FilterType.floatrange THEN 2 ELSE 4
IsEnum(r) == r.named.type = FilterType.values
HasRankingExpr(r) ==
    r.named.rankingMode = SPH_RANK_EXPR /\ r.named.commandVersion = VER_COMMAND_SEARCH_2_0_5

\* A value or a text takes two cells at least: with fewer there is nothing to read.
Repeated(r, n, format) ==
    IF 2 * Len(format) * n <= Len(r.rest) THEN Times(n, format) ELSE <<Len(r.rest) + 1>>
Format(r, part) ==
    CASE part \in TextParts -> <<Text>>
      [] part = "rankingExpr" -> IF HasRankingExpr(r) THEN <<Text>> ELSE <<>>
      [] part = "weights" -> Repeated(r, r.named.count, <<2>>)
      [] part = "ids" -> <<IdWidth(r), IdWidth(r)>>
      [] part = "size" -> IF IsEnum(r) THEN <<2>> ELSE <<>>
      [] part = "values" -> Repeated(r, r.named.size, <<FilterWidth(r)>>)
      [] part = "anchorPoints" -> Repeated(r, r.named.count, <<Text, Text, 2, 2>>)
      [] part \in {"indexWeights", "fieldWeights"} -> Repeated(r, r.named.count, <<Text, 2>>)
      [] part = "attributeOverrides" -> Repeated(r, r.named.documents, <<4, ValueWidth(r)>>)
      [] OTHER -> <<2>>

\* Keys and values, one after another.
MapOf(got) ==
    [key \in {got[2 * k - 1] : k \in 1 .. Len(got) \div 2} |->
        got[2 * (CHOOSE k \in 1 .. Len(got) \div 2 : got[2 * k - 1] = key)]]

PointsOf(got) ==
    [k \in 1 .. Len(got) \div 4 |->
        [lattitudeAttributeName |-> got[4 * k - 3], longitudeAttributeName |-> got[4 * k - 2],
         lattitude |-> got[4 * k - 1], longitude |-> got[4 * k]]]

KindOf(type) == CHOOSE kind \in DOMAIN FilterType : FilterType[kind] = type

\* A range has two values and no size in front of them.
Value(r, part, got) ==
    CASE part \in {"weights", "ids", "values"} -> got
      [] part = "rankingExpr" /\ got = <<>> -> <<>>
      [] part = "size" /\ got = <<>> -> 2
      [] part = "filters" ->
           Append(r.named.filters,
                  [kind |-> KindOf(r.named.type), attrName |-> r.named.attrName,
                   values |-> r.named.values, excludeFlag |-> got[1] # 0])
      [] part = "anchorPoints" -> PointsOf(got)
      [] part \in {"indexWeights", "fieldWeights"} -> MapOf(got)
      [] part = "attributeOverrides" ->
           With(r.named.attributeOverrides, r.named.attrName,
                [type |-> r.named.type, values |-> MapOf(got)])
      [] OTHER -> got[1]

ReadPart(r, part) ==
    IF ~r.ok THEN r
    ELSE IF part = "size" /\ r.named.type \notin Range(FilterType) THEN [r EXCEPT !.ok = FALSE]
    ELSE LET taken == TakeAll(r, Format(r, part)) IN Named(taken, part, Value(r, part, taken.got))
ReadParts(r, parts) ==
    LET After[k \in 0 .. Len(parts)] ==
            IF k = 0 THEN r ELSE ReadPart(After[k - 1], parts[k])
    IN After[Len(parts)]
ReadList(r, parts) ==
    LET After[k \in 0 .. r.named.count] ==
            IF k = 0 THEN r ELSE ReadParts(After[k - 1], parts)
    IN IF ~r.ok THEN r
       ELSE IF 2 * (Len(parts) - 1) * r.named.count > Len(r.rest) THEN [r EXCEPT !.ok = FALSE]
       ELSE After[r.named.count]

\* The start of a query.
QueryAt(cells, version) ==
    [Reading(cells) EXCEPT !.named =
        [commandVersion |-> version, filters |-> <<>>, attributeOverrides |-> <<>>]]

Version(number) == CHOOSE v \in SearchVersions : v % CellBase = number

-----------------------------------------------------------------------------
\* What searchd should be told of settings: of the overrides the numbers, and
\* the expression where it counts.
Told(attrs, setting) ==
    CASE setting = "rankingExpr" /\ ~(attrs.rankingMode = SPH_RANK_EXPR
                                      /\ attrs.commandVersion = VER_COMMAND_SEARCH_2_0_5) -> <<>>
      [] setting = "attributeOverrides" ->
            [name \in DOMAIN attrs[setting] |->
                [type |-> attrs[setting][name].type,
                 values |-> [d \in DOMAIN attrs[setting][name].values |->
                                attrs[setting][name].values[d].number]]]
      [] OTHER -> attrs[setting]
Meaning(attrs) == [setting \in Settings |-> Told(attrs, setting)]

\* Every value of an override is of the type of its attribute, or has no form.
ValueType(type) ==
    CASE type = SPH_ATTR_BIGINT -> "uint64" [] type = SPH_ATTR_FLOAT -> "float" [] OTHER -> "uint32"
FittingOr(formless, attrs) ==
    \A o \in Range(attrs.attributeOverrides) : \A value \in Range(o.values) :
        value.type \in {ValueType(o.type)} \cup formless
Fitting(attrs) == FittingOr({}, attrs)
FittingOrThrowing(attrs) == FittingOr({"vector", "string"}, attrs)
=============================================================================
