---------------------------- MODULE RequestFrame ----------------------------
(***************************************************************************)
(* buildHeader(), src/src/queryversions.cc: the header put before the body *)
(* of a request.  It carries the command, its version and the number of    *)
(* bytes that follow; in front of a search body come one or two words.     *)
(* Lengths are in bytes, two to a cell.                                    *)
(***************************************************************************)
EXTENDS QueryBuffer

SEARCHD_COMMAND_SEARCH == 0
SEARCHD_COMMAND_UPDATE == 2
SEARCHD_COMMAND_KEYWORDS == 3

VER_COMMAND_SEARCH_0_9_9 == 278     \* 0x116
VER_COMMAND_SEARCH_2_0_5 == 281     \* 0x119
SearchVersions == {VER_COMMAND_SEARCH_0_9_9, VER_COMMAND_SEARCH_2_0_5}
VER_COMMAND_UPDATE_0_9_8 == 257     \* 0x101
VER_COMMAND_KEYWORDS_0_9_8 == 256   \* 0x100

Word == 4    \* sizeof(uint32_t)

\* The words of a search request between the header and the queries: the
\* number of queries, and before it a zero in the newer version.
PutCount(q, version, queryCount) ==
    IF version = VER_COMMAND_SEARCH_0_9_9 THEN PutWord(q, queryCount)
    ELSE PutWord(PutWord(q, 0), queryCount)

BuildHeader(command, version, queryLength, queryCount) ==
    LET header == PutShort(PutShort(NetworkQuery, command), version)
    IN IF command = SEARCHD_COMMAND_SEARCH
       THEN PutCount(PutWord(header, queryLength + 2 * Word), version, queryCount)
       ELSE PutWord(header, queryLength)

\* The length of a body as it is put into the header.
BytesOf(body) == 2 * GetLength(body)
=============================================================================
