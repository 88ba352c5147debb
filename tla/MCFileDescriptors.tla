------------------------- MODULE MCFileDescriptors -------------------------
(* FileDescriptors with room for three entries. *)
EXTENDS FileDescriptors, TLC

CONSTANTS s1, s2, s3

MCSockets == {s1, s2, s3}
MCJunkIndices == {NoIndex, 0}
MCJunkPollFds == {[fd |-> s1, events |-> "in", revents |-> "none"]}
MCSymmetry == Permutations({s2, s3})
=============================================================================
