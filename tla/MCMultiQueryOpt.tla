-------------------------- MODULE MCMultiQueryOpt --------------------------
(* Three queries of up to three hashes over at most two connections: enough  *)
(* for two groups and for one too many, for two queries of one hash, and for *)
(* a query added after optimise() that leaves a group of mixed hashes.       *)
EXTENDS MultiQueryOpt

MCHashes == 1 .. 3
MCMachineErrors == {"ConnectionError", "ClientUsageError"}
=============================================================================
