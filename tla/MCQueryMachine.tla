--------------------------- MODULE MCQueryMachine ---------------------------
(* The query machine with small numbers of queries, bytes and milliseconds. *)
EXTENDS QueryMachine, TLC

CONSTANTS s1, s2, s3

MCSockets == {s1, s2, s3}
MCJunkIndices == {0}
MCJunkPollFds == {[fd |-> s1, events |-> "in", revents |-> "none"]}
MCFailures == {"err"}
MCBodyLens == {2}
MCAnyBody == {0, 1}
MCTwoSockets == {s1, s2}
MCOneByte == {1}
MCNoFailures == {}
MCSymmetry == Permutations({s2, s3})
=============================================================================
