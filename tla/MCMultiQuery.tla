---------------------------- MODULE MCMultiQuery ----------------------------
(* Two SearchConfig_t objects, a value other than its default for every      *)
(* setting, every kind of filter and of override, queries that are whole or  *)
(* not, and a vector that can hold the answers of several calls.  A cell is  *)
(* of base 64, so that a number of four cells fits into TLC's integers.      *)
EXTENDS MultiQuery

MCMachineErrors == {"ConnectionError"}
MCSymmetry == Permutations(Configs)

\* Behind a query that is half built, msgLimit is taken for the length of a
\* text, and searchd finds a query in sortBy.
MCSettings ==
    [msgOffset |-> 5, msgLimit |-> 24, matchMode |-> 4, sortMode |-> 3,
     rankingMode |-> SPH_RANK_EXPR, rankingExpr |-> <<9, 9>>, sortBy |-> [k \in 1 .. 70 |-> 0],
     groupBy |-> <<11>>, groupFunction |-> 2, groupSort |-> <<12, 3>>,
     groupDistinctAttribute |-> <<13>>, maxMatches |-> 2000, indexes |-> <<14>>,
     searchCutOff |-> 15, distRetryCount |-> 16, distRetryDelay |-> 17,
     anchorPoints |-> <<[lattitudeAttributeName |-> <<18>>, longitudeAttributeName |-> <<19>>,
                         lattitude |-> 20, longitude |-> 21]>>,
     indexWeights |-> <<22>> :> 23, fieldWeights |-> <<24>> :> 25 @@ <<26>> :> 27,
     maxQueryTime |-> 28, queryComment |-> <<>>, selectClause |-> <<29, 30, 31>>,
     attributeOverrides |-> <<39>> :> [type |-> SPH_ATTR_BIGINT,
         values |-> 46 :> [type |-> "uint64", number |-> 47]
                    @@ 48 :> [type |-> "uint64", number |-> 5002]]]

\* Bounds and values below and above 32 bits.
MCFilters ==
    {[kind |-> "values", attrName |-> <<32>>, excludeFlag |-> TRUE, values |-> <<33, 5000>>],
     [kind |-> "range", attrName |-> <<34>>, excludeFlag |-> FALSE, values |-> <<35, 5000>>],
     [kind |-> "floatrange", attrName |-> <<36>>, excludeFlag |-> FALSE, values |-> <<37, 38>>]}

Override1(attribute, type, valueType, doc, number) ==
    [attribute |-> attribute, type |-> type,
     values |-> doc :> [type |-> valueType, number |-> number]]

\* The values of an attribute of another width, and a vector, which throws.
MCOverrides ==
    {Override1(<<40>>, SPH_ATTR_INTEGER, "uint32", 1, 41),
     Override1(<<40>>, SPH_ATTR_BIGINT, "uint64", 5000, 5001),
     Override1(<<42>>, SPH_ATTR_FLOAT, "float", 2, 43),
     Override1(<<42>>, SPH_ATTR_BIGINT, "uint32", 2, 44),
     Override1(<<45>>, SPH_ATTR_INTEGER, "vector", 3, 0)}
=============================================================================
