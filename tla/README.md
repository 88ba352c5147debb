# Formal specification of libsphinxclient

TLA+ models of the C++ client library for the Sphinx search daemon
(`cppsphinxclient`), checked with TLC, and theorems about them proved with
TLAPS. Paths are relative to the repository.

## 1. Inventory

The library is single-threaded and synchronous: a call of `Client_t` builds a
request, gives it to a `QueryMachine_t`, which runs a `poll()` loop over
non-blocking sockets, and parses what comes back. Nothing is persisted and no
two threads share an object; what interleaves comes from outside: the order in
which sockets become ready, the split of the byte streams, time, failing system
calls, and the order in which the caller uses the objects.

| Component (source) | State | Operations | What makes it correct | Status |
|---|---|---|---|---|
| `FileDescriptors_t` (`src/querymachine.cc:686-750`) | `fds[]`, `query2fds[]`, `fds2query[]`, `size` | `addQuery`, `removeFd`, `getPollIndex`, `getQueryIndex`, destructor | it is a map from queries to sockets, although three arrays are shifted in place, while they are iterated | modelled, proved |
| `QueryMachine_t` (`src/querymachine.cc:68-681`) | per query: state, timeout, retries, bytes to read and written, status, buffers | `addQuery`, `launch`, `handleRead`, `handleWrite`, `getResponse`, destructor | every request answered for itself or one exception for all; framing; retries; timeouts; no socket lost; it ends | modelled, its safety proved |
| `Query_t` (`src/sphinxclientquery.cc`) | array, start and end, error flag | `<<`, `>>`, growth, `readOnReadable`, `writeOnWritable` | what is written is read back, whatever sizes meet the end of the array; a short buffer is noticed | modelled |
| `SearchConfig_t` (`src/sphinxclient.cc:213-665`) | some 25 settings, and the filters it owns | constructors, assignment, destructor, setters, `add...Filter`, `addAttributeOverride` | a copy is whole and independent; no filter is shared, lost or deleted twice | modelled, proved |
| filters (`src/filter.cc`) | bounds or values | constructors, `clone`, `dumpToBuff` | what is set is what is sent | modelled, proved |
| request builders (`src/queryversions.cc:48-252,424-435,460-502,511-527`) | end of the buffer | `buildHeader`, one builder per command | the server reads what was set; the announced length is that of what is sent | modelled; what the server reads proved |
| `MultiQuery_t` (`src/sphinxclient.cc:713-749`), `Client_t::query` on it (`:1045-1097`) and on one `SearchConfig_t` (`:942-969`) | concatenated buffer, count, version | `initQuery`, `addQuery`, `query` | count, buffer and header agree; answers in order | modelled, its safety proved |
| `MultiQueryOpt_t`, `SourceQuery_t` (`src/sphinxclient.cc:753-932`) and `Client_t::query` on it (`:971-1043`) | queries in input order and in sending order, group starts, response index | `addQuery`, `optimise`, `query` | every answer comes back to the place of its query, in any order of the calls | partly: not its copies |
| `AttributeUpdates_t` (`src/sphinxclient.cc:1103-1161`) | attribute list, values per document | `setAttributeList`, `addAttribute`, `addDocument` | documents have as many values as attributes | modelled |
| `updateAttributes`, `getKeywords` (`src/sphinxclient.cc:1163-1233`) | none | a batch of one request | searchd does what was asked; the result is what searchd did | modelled |
| response parsers (`src/queryversions.cc:256-456,504-508,529-567`) | cursor of the buffer | sequential | the parser consumes what the server wrote, a short message is an error | modelled; the search parser proved |
| `Value_t` (`src/value.cc`) | a type and a value | conversions that throw | | partly |
| `ConnectionConfig_t`, errors, timer, escaping | settings | accessors | | not modelled |

How they interact: `Client_t::query` calls `buildHeader` and the builders, then
`QueryMachine_t::addQuery` once per request (this already connects), then
`launch()`, which calls `handleRead`/`handleWrite` for the sockets `poll()`
reports; these change the table `FileDescriptors_t` *during* the iteration over
it. Exceptions from anywhere end the batch, and the destructors close the
sockets in the table.

The hard parts, each listed with its line in `PROJECT.json` under `hazards`:
the shift of the table during iteration, the split of a timeout over many
polls, retries, exceptions between two related assignments, descriptor numbers
that are used again, the reordering of queries, reuse of half-built objects,
filters owned through raw pointers, and messages whose every field is found
only by what stands before it.

## 2. Modules

| Module | Models | Notes |
|---|---|---|
| `SocketTable` | abstract | a partial function from queries to sockets |
| `PollTable` | `FileDescriptors_t`: its state and operations | extended by the next and by `QueryMachine` |
| `FileDescriptors` | every sequence of calls of the table | refines `SocketTable` |
| `QueryBatch` | abstract | what `querymachine.h:133-190` promises: all or nothing |
| `QueryMachine` | `QueryMachine_t`, over `PollTable` | refines `QueryBatch` |
| `QueryMachineProofs` | | theorems about `FileDescriptors`, with lemmas on the operations of the table, and about a machine: table, retries, sockets, what goes over its connections, the refinement, the timeouts |
| `QueryBuffer` | `Query_t`: growth, `<<`, `>>`, `readOnReadable` | cells of 2 bytes |
| `RequestFrame` | `buildHeader` | over `QueryBuffer` |
| `SearchdReader` | taking cells apart | external |
| `SearchConfig` | `SearchConfig_t` and its filters | objects and a heap |
| `SearchRequest` | `buildQuery_v0_9_9`, `dumpToBuff`; and `searchd` reading it | the reader is external |
| `MultiQuery` | `MultiQuery_t`, its `query()`, and `query()` of one search | composes `SearchConfig` and `SearchRequest` |
| `SearchRequestProofs` | | who owns the filters; that a query is read as it was written; over `MultiQuery` |
| `MultiQueryProofs` | | theorems about `MultiQuery` |
| `Commands` | `AttributeUpdates_t`, `updateAttributes`, `getKeywords`, their builders and parsers | over `RequestFrame`, `SearchdReader` |
| `BufferProofs` | | lemmas on `QueryBuffer` and `SearchdReader` |
| `CommandsProofs` | | theorems about `Commands` |
| `MultiQueryOpt` | `MultiQueryOpt_t` and its `query()`, over `INSTANCE QueryBatch` | |
| `MultiQueryOptProofs` | | theorems about it |
| `ResponseBuffer` | `Query_t`, the operators `>>`, on a message that may be short | words of 4 bytes |
| `SearchAnswer` | the answer of `searchd` and its encoding | external |
| `ResponseParser` | `parseResponse_v0_9_8` and the loop that calls it | over the two above |
| `ResponseParserProofs` | | theorems about `ResponseParser` |
| `DataFacts` | | lemmas on finite sets, sums and joined sequences, shared by the proofs |
| `MC...` | | constants for TLC |

So the composition is: `MultiQueryOpt` uses the abstract batch, `QueryMachine`
implements it, `QueryMachine` uses the operators of `PollTable`, which, driven by
`FileDescriptors`, implements `SocketTable`. `MultiQuery` puts settings, builder, header and the
reading server together; `Commands` does so for the other two commands, with the
response going back through the same kind of buffer.

### PollTable, FileDescriptors

`PollTable` has the arrays and the operators on them, `FileDescriptors` the
actions of its caller and the kernel. The variables are the class's arrays. They start with any content
(`JunkIndices`, `JunkPollFds`): the constructor sets `size` only. `removeFd` is
one step; its loop is the three operators `Shifted` (the loop's range),
`Neighbour` (what an entry gets) and `Reindexed` (what is written into
`query2fds`, the last write to a place winning). `open` is the kernel's side.
`addQuery` without index names the query by `size`, which is right as long as
no entry has been removed: `AddNew` has that guard, and `known` counts the
queries. Its specification is `DrivenSpec`, its types are `TableTypeOK` (of `PollTable`).

### QueryMachine

One action is one system call of the loop or one iteration of its two inner
loops. `pc` says where the program is (`add`: the caller adds; `poll`; `scan`:
the loop over the entries, `querymachine.cc:115`; `expire`: the loop over the
queries after a timeout, `:151`; `unwind`: destructors; `done`), `cursor` is
that loop's variable. `qs`, `timeouts`, `connectRetries`, `bytesToRead`,
`bytesWritten`, `responseStatuses` are the vectors of the class. Each branch
of `handleWrite` and `handleRead` is an action: `Connected`, `VersionWritten`,
`RequestWritten`, `VersionRead`, `OldVersionRead`, `HeaderRead`, `BodyRead`;
`WritePart` and `ReadPart` are the branches "something written/read, not all";
`CallInterrupted` is the branch for -1; `EntryThrows` all exceptions of a
handler that change nothing before; `ConnectExpires`, `RetryExpires`,
`ExpiryThrows`, `SkipQuery` are the cases of the expiry loop. Assignments come in the
order of the code where an exception separates them: in `ConnectExpires` the
state and timeout are set before `getPollIndex` may throw.

`wire[s]` belongs to the connection on descriptor `s`: bytes given and taken
and the requests it has carried. `abandoned`, `attempts`, `heard`, `announced`
are history that only properties read.

Abstracted: the text of exceptions; which address of the host is used (a setup
works, or throws before or after it has a socket); the content of greeting and
header except version, status and length; byte counts are scaled down. That
`addQuery` is not called after `launch` is the documented rule
(`querymachine.h:147`). The `int` and `int32_t` counters never come near their
bounds in the code's use and have no width here.

### MultiQueryOpt

A query is its input position and its hash. `std::sort` is
not stable: `Optimise` takes any permutation ordered by hash. The caller may
mix `addQuery`, `optimise` and `query` and use the same vector again. The server
is external: it answers the queries of a request in their order, each with a status ok,
warning or error. `commandVersion < 0_9_9` in `optimise` (`sphinxclient.cc:866`)
cannot be true, the enumeration has no older version.

### QueryBuffer, RequestFrame

A cell is 2 bytes, the smallest number that is put in; `CellBase` stands for
2^16. A buffer is a record with the class's members; `data` is the array that was
allocated, so that a cell stored behind it is lost, and a cell never set is
`Garbage`. Each operator tests for room as the code does: numbers once, with one
doubling (`GrowOnce`), texts and buffers in a loop (`Grow`), `recv()` only when
nothing is left (`WithSpace`). A text has an even number of characters. The flag
`error` is the field `ok` of a read.

### SearchConfig

`configs` holds the caller's objects, `heap` the filters, by address. The copy
constructor and the assignment are one step each: `clear()` and `makeCopy()` call
nothing that could come in between. All settings but the filters are values. A
setter assigns the setting's value in `NewSettings`. An object starts as constructed
or with everything set (`ConfigInit`), so that two more calls reach what would
otherwise take fifteen. `RangeFilter_t` takes its bounds as 32 bits
(`filter.cc:57`); so does `RangeFilter`. `Dptr_t::operator=`
(`sphinxclient.cc:276`) is never called: `SearchConfig_t::operator=` makes a new one.

### SearchRequest, SearchdReader, MultiQuery

`Message` is the sequence of what `buildQuery_v0_9_9` puts in, in its order, each
as a number of a width or a text; `PutAll` puts it into the buffer at once, which
leaves the same cells in an array of the same size as one after another. Where a
value has no form the message has `Exception`, and what stands before it remains
in the buffer, as it does in the code.

`searchd` reads independently: `PartsToFilters`, `FilterParts`, `PartsToOverrides`
and `OverrideParts` are its format, every part named by the setting it is for, and
what it reads goes to `told`. No code of `searchd` is in the repository; the
format is that of the comment in `queryversions.cc:73-119`. It answers when all
bytes announced have come: to requests of version 0.9.9 that is never (the
finding `multiquery_length`), so that for them the runs check what is read, and
not the answers.

`AddQuery` is the whole `addQuery()`: the comparison of versions, the count, and
then the serialisation that may throw. `meant` keeps what the queries of a
request were added with, for the properties. They speak of the queries up to the
first that is not `Sound` (`InPlace`): behind a query that is half built, or that has
an override whose values are not of the type of its attribute, `searchd` takes the
message apart elsewhere than it was put together, and what it reads then depends on
the texts and numbers that are there. `MCMultiQuery` has settings with which it reads as
many queries as it should. `held` is the caller's vector when the running call
began, which only `AnswersInOrder` reads: the code appends, so that the answers of a
call are looked for behind it. Where the documentation has them is the finding
`multiquery_again`.

### Commands

`Send`, `SearchdUpdates` or `SearchdFindsWords`, `ReadHeader`, `ReadBody` and
`ParseUpdate` or `ParseKeywords` are one call; any of them up to the parser may
end with an exception (`LaunchThrows`). `recv()` gives any part of what is wanted
and fits. The server may know any of the documents, and its answer may be cut at
any cell. A read of keywords that fails leaves an empty text or a `Garbage`
number and goes on, as the code does.

### ResponseBuffer, SearchAnswer, ResponseParser

A message is a sequence of words of 4 bytes, and may end at any of them. A read
is a record of what `>>` does: success, new place, value of the target. With too
little left the target keeps its value and nothing moves, except that a string
has moved past its length. (The operators turn the bytes of a number round even then,
`sphinxclientquery.cc:235`, `:254`; the old values are 0 or arbitrary here.) Each read of the parser (or a few reads with no
decision between them) is an action. What a failed read leaves behind is a
constant (`Garbage`) where it is only stored, and a choice (`Junk`) where the
parser goes by it. The length of a list whose own read fails is not chosen:
nothing is left then, and all its reads fail. Text taken for a count makes a
loop of a great many elements; `OutOfMemory` may end it from `MaxElements` on. The
number of values of a list goes through an `int` (`queryversions.cc:257`): above
`IntMax` it is negative, and the loop empty (`Iterations`).

`SearchAnswer` says what the server means by a message; no code of the server is
in the repository, so that it is what the parser takes for granted: also that no two
attributes have one name and that each match has a value for each (`Wellformed`). A status
`SEARCHD_RETRY` is treated as `SEARCHD_ERROR`; the type `SPH_ATTR_MULTI_FLAG` is
treated as `SPH_ATTR_MULTI`. A float is a word. Cuts inside a word behave as cuts in front
of it, but for the last 1 to 3 bytes of a text.

## 3. Runs

| Run | Bounds | Shows |
|---|---|---|
| `filedescriptors` | 3 places, 3 sockets | types, inverse indices, sockets owned, refinement of `SocketTable` |
| `machine_safety` | 3 queries on 2 places, timeouts 2 ms, 1 ms overshoot, 1 retry, request of 2 bytes, body of 2 | types, table against states, framing, sockets, usage errors, retries, a poll without timeout only after a late one, refinement of `QueryBatch` |
| `machine_three` | 3 queries on 3 places, every wait of 0 ms | events and responses when entries move during the pass |
| `machine_live` | 2 queries, no overshoot, 1 interrupted call, bodies of 0 and 1 byte | the batch ends |
| `machine_hang` | 2 queries, 1 ms overshoot | **violated**: the batch may hang |
| `multiquery_opt` | 3 queries, 3 hashes, 2 connections | answers at their queries, none missing, groups |
| `multiquery` | 2 settings objects, up to 2 calls on them or of `query()` after a start with everything set, 2 queries, 2 versions, vector of 2 | requests mean their settings, filters owned, answers in order, a half-built query that is the last never succeeds |
| `multiquery_again` | as `multiquery`, with room for 3 filters | **violated**: the answers of the call before stay in front |
| `commands` | 2 attributes, 2 documents (one beyond 32 bits), values of 2 types, 2 words, an array of 4 cells at first | buffers, what is applied is what was asked, the result of an update and of keywords |
| `response_parser` | 13 answers, alone and in front of 3, cut anywhere | whole answers given, missing heads reported, matches with their attributes |
| `response_short` | | **violated**: a cut answer is returned |
| `multiquery_length` | | **violated**: a 0.9.9 header announces 4 bytes too many |

Why the bounds are enough. Removing an entry moves only those after it; with
three entries there is a removed one, one that moves and is passed over, and
one that is still looked at. Three queries on two places reach the full table.
A request and a body of two bytes split once; a connect that fails once, and
one whose retries are used up, need one retry. Timeouts of 2 ms with a
threshold of 1 (`querymachine.cc:152`) distinguish a query that is due from one
that is not; `DisabledTimeout` (30 for `INT32_MAX`) is never consumed in a
batch of that length. `MaxSignals` bounds the calls that end without effect: it
is a bound of the model, and with `poll()` failing for ever the loop would run
for ever (`:208`). Symmetry permutes sockets other than the one in
`JunkPollFds`; runs with a liveness property use none.

In `multiquery` a cell has base 64, so that 64 bit numbers fit into TLC's
integers; numbers above 64^2 stand for those beyond 32 bits. Two objects are what
sharing a filter takes, and six addresses two objects with every kind of filter.
Two queries in one buffer are what it takes for one to shift the other. The
objects are symmetric. In `commands` the array starts with 4 cells, and the names,
documents and words make every operator meet its end; the two documents agree in
their low 32 bits, and one of the two names is twice as long as the other.

The answers of `response_parser` have lists of no, one and two matches, values
of every type, both widths, and texts of more than three words: what is left of
such a text is enough for a type and a number of matches. Characters are 13 and 14:
larger than every length, as four characters are. The one is `IntMax`, the other above it:
four characters taken for a number exceed `INT_MAX` when the first is not ASCII.

Deadlock checking is off in `machine_safety` and `machine_hang` only: with
`Overshoot = 1` the machine may rest in `poll()` for good, which is the finding.

### Fairness

`FairSpec` assumes of the program that it runs on (`WF_vars(Code)`), and of
`poll()` that it returns when its timeout is over (`WF_vars(PollTimesOut)`).
Nothing is assumed of the peers: `PollReady` need never happen, and a peer may
send one byte at a time. `Terminates` holds because every ready socket moves a
byte of a finite exchange, or ends the batch, and every query without a move
runs into its timeout.

### Findings

1. `machine_hang`: time is measured around `poll()` and subtracted from all
   timeouts, but a query whose timeout is over is handled only when `poll()`
   reports nothing. If query A's socket is ready at the same time as query B's
   timeout has been exceeded, B's timeout is negative, and so is the argument of the
   next `poll()`: it waits for ever if the peers stay silent. `UnboundedPollOnlyWhenLate`
   says that this is the only way to it: a `poll()` that was late, and that brought an
   event or was interrupted. With no overshoot (`machine_live`) the timeout reaches 0
   and not less, and all is well.
2. `multiquery_length`: `queryversions.cc:55-57`. Only the header of a search
   announces bytes that are not sent, and only in version 0.9.9.
3. `response_short`: only four reads of `parseResponse_v0_9_8` are looked at
   (`queryversions.cc:283,290,300,326`), and an answer that ends behind its number of
   matches is returned as if it were complete.
4. `multiquery_again`: `sphinxclient.cc:1092` appends to the caller's vector and nothing
   clears it, although `sphinxclient.h:857-859` says that `query()` "fills the response
   structure vector" and that "any previous structure content is invalidated anyway". Who
   passes one vector twice finds the answers of the first call where those of the second
   are promised. `AnswersInOrder` says what the code does keep: the old content in
   front as it was, and one answer per query behind it.

Seen while modelling, without a run:

- An update of a float ends in an exception before anything is sent:
  `queryversions.cc:498` takes every value for a `uint32_t`, and the conversion throws
  (`value.cc:70`), although `uint32_t` and `float` are "currently supported"
  (`sphinxclient.h:888-889`).
- A response with an empty body ends in a connection error: `recv()` is asked for
  0 bytes and returns 0 (`querymachine.cc:582`, `sphinxclientquery.cc:347`),
  although "all responses are successfully received" (`querymachine.h:138`).
- `MultiQuery_t::addQuery` counts a query before it is serialised
  (`sphinxclient.cc:734`): after an exception `getQueryCount()` exceeds the queries
  in the buffer. A query added behind a half built one is read in
  the place of its missing end, so that `searchd` may still find as many queries as the
  header says (in the run `multiquery` a limit is taken for the length of a text, and
  the text of `sortBy` for a query): `query()` then succeeds, with answers to queries
  that nobody added. `HalfBuiltLastFails` shows that no call succeeds as long as
  nothing is added behind and the overrides in front of the exception have values of the
  types of their attributes.
- `RangeFilter_t` cuts its bounds to 32 bits (`filter.cc:57`), although
  `addRangeFilter` takes 64 (`sphinxclient.h:284`).
- The text of an error is copied into 200 bytes (`querymachine.cc:607-611`),
  whatever its length.

## 4. Proofs

Every theorem holds for every value of the constants that the named assumptions
of the modules admit.

### The table (`QueryMachineProofs`)

For every `MaxParallel > 0`, every set of descriptors and every initial content
of the arrays (`ParallelAssumption`, `JunkAssumption`, `FailuresAssumption`):

- `IndicesCorrect`: `DrivenSpec => [](TableTypeOK /\ IndicesInverse)`, and from it
  `TableTypes`: `DrivenSpec => []TableTypeOK`. The two are
  inductive together (`IndexInv`): `removeFd` indexes `query2fds` with
  what it finds in `fds2query`, and that each query is written at most once by
  the loop is the inverse property itself. The lemma `ReindexedValue` says what
  the loop computes; `AddKeepsIndexInv` and `RemoveKeepsIndexInv` are the two
  real cases.
- `SocketsOwned`: `DrivenSpec => []EntriesOwnTheirSockets`, from `IndexInv` and the
  lemmas on what an addition and a removal make of the entries (`AddMakes`,
  `RemoveMoves`).
- `Refinement`: `DrivenSpec => ImplementsSocketTable`. Each action has a lemma that
  maps it to `Attach`, `Detach`, `SetEvents` or `Poll` of `SocketTable`; the
  removal is the one where the shift cancels out against the reindexing.

### The machine (`QueryMachineProofs`)

For every number of queries, table, timeouts, retries and lengths (in addition:
`CountAssumption`, `TimeAssumption`, `LengthAssumption`). `MachineInv` is
inductive. Its parts need each other:

- `TableFollowsStates`: as long as the batch runs, `IndexInv` holds and a query
  has an entry exactly when its state is one that is polled. Adding a query names
  it by the size of the table, which is its number only because nothing is
  removed before `launch` (`AddsInOrder`).
- `RetryBudget` needs that a query nobody has added has no attempt behind it
  (`AttemptsCounted`).
- `UsageErrorOnlyWhenFull`: two more throws of `ClientUsageError_t` must never
  happen. `getPollIndex` finds the entry of a query that connects, by
  `TableFollowsStates`. A retry finds a place because the entries belong to
  different queries and the one that waits has none: `RoomForKnown` counts them.

From it: `TypesCorrect`, `TableCorrect`, `RetriesBounded`,
`UsageErrorsJustified`. With one more invariant each, inductive on top of
`MachineInv`: `EventsCorrect` (the removal of the entry at the cursor moves the
entries behind it together with their events, `RemovalFits`) and
`SocketsAccounted` (`SocketCloses`: the descriptor that is closed is no other
entry's; `SocketLost`: a setup that throws).

### The connections (`QueryMachineProofs`)

`Sound` says, state by state, how far an entry's exchange is: bytes given, bytes
taken and still wanted, requests carried and answers heard. `ExchangeInv` adds it
for all entries, and what is known of the queries without one, to `MachineInv` and
`SocketAccounting`. That a step on one socket leaves the exchange of all others
alone is `OthersStay`: their descriptors differ, by `SocketAccounting`, and so
do their queries, by `IndexInv`. A removal takes each entry with its query and
its connection (`RemovalSound`), and a descriptor that is used again starts fresh
(`ComesSound`). From it:

- `FramingCorrect`, `ResponsesCorrect`;
- `RequestsSentOnce`, an action property: a step moves at most one query, never a
  finished one (`OneQueryMoves`);
- `BatchRefined`: `Spec => ImplementsQueryBatch`. `AddQuery` is `Submit`,
  `BodyRead` is `Answer` or `Fail`, `LaunchReturns` is `Succeed`, every exception
  is `Fail`, and all else stutters.

### The timeouts (`QueryMachineProofs`)

`PollsBounded`: `Spec => UnboundedPollOnlyWhenLate`, for any `Overshoot`: nothing is assumed
of the clock. The timeout `poll()` is given is the least of all also when some are negative
(`MinTimeoutIsLeast`, from `LeastExists` of `DataFacts`), so that one that is not late takes
from no query more than it has (`PollInTime`). Every timeout the code sets is a configured one
(`SetInTime`), and of the queries that the pass over the expired ones has gone by none is below
zero (`PassedInTime`, inductive): at its end there is none. That leaves the late `poll()` after which there is
no such pass, which is the finding `machine_hang`.

### The optimised multi-query (`MultiQueryOptProofs`)

For every `MaxQueries`, `MaxParallel`, finite set of hashes and set of
exceptions of the machine (`OptAssumption`); every property of the run
`multiquery_opt` is proved. Two invariants:

- `ObjectInv`, of the object between calls: `sortedQueries` is a permutation of
  the queries and equal to `responseIndex`; `groupQueries` starts at 0 and
  increases. It survives `addQuery` after `optimise`, when the groups are those
  of fewer queries and the last one takes the new ones.
- `CallInv`, of a call: the machine gets one request per group (`SubmitInv`),
  response `r` holds the answers of group `r` in sending order (`LaunchInv`),
  and while they are parsed `seqNo` is the place behind the last answer used up,
  whose predecessors are all in the caller's vector (`ParseInv`).

What `optimise` computes is counted, not induced over: the start of the i-th
group is the one with i - 1 starts before it, and that there is exactly one such
is the pigeonhole principle (`CountedBelow` of `DataFacts`, `GroupStartsSorted`). From there:

- `AnswersPlaced`, `SuccessComplete`, `WarningsLate`, `TypesCorrect`;
- `GroupsCorrect`: each place lies between two neighbouring starts and no others
  (`PlaceInOneGroup`, by the least group that ends behind it);
- `HashesGrouped`: between neighbouring starts the hash does not change, and
  outside it differs because the order is sorted (`OneHashBetweenStarts`).

### The filters of settings (`SearchRequestProofs`)

`FiltersHaveOneOwner`: `Spec => []FiltersOwned` for the `Spec` of `MultiQuery`, for
any sets of objects, settings, filters and overrides and every `MaxFilters`
(`ConfigAssumption`: there is room for the filters of the first object). `OwnInv`
keeps the pointers of all objects (`Pointers`)
against the addresses in use (`Used`): no two places hold the same one, and those
in use are those held. Every operation gives one object a vector of pointers that
holds none of the others' and frees what it held (`OwnershipMoves`, `ObjectChanges`);
`CopyOwns` is the case of the copies, for which the free addresses taken must
differ (`LowestFree`, by `CountedBelow`) and, in an assignment, may be those
just deleted. The calls of `Client_t` change neither objects nor filters
(`ClientLeavesConfigs`).

### What searchd reads of a search (`SearchRequestProofs`)

The model has the builder on one side (`Message`, `DumpToBuff`, `Override`) and the
format on the other (`PartsToFilters`, `Format`, `ReadPart`); the lemmas say that they
agree, for all settings that the types of the setters admit.

- *Items and cells.* What is put is a sequence of items, and each has cells of its own,
  which the buffer holds whatever was in it before (`Wire`, `PutAllExtends`). Taking cells by
  the widths of the items gives the items and leaves what is behind, whatever that is.
- *Part by part.* `Matches(part, before, items, after, named, value)`: with these items
  in front, the reader names this value and goes on behind them. What a part looks like
  depends on what was read before it: the ranking expression on mode and version
  (`ExprStep`), the values of a filter on its type, the number of values of every list
  on a count, the width of the values of an override on its type. `Knows` keeps what has
  been named until it is needed.
- *Lists.* Filters, anchor points, weights and overrides are groups of items, one for each
  element. A list is read group by group, each group leaving the cells of the rest
  (`IsWired`, `GroupReads`); maps are written as their keys with their values, each once, and
  come back as the same map (`MapBack`).
- *A query.* `QueryRead`: from the cells of a query without exceptions whose overrides
  are `Suits`, with anything behind them, `searchd` reads its text and the meaning of
  its settings and stands behind it. Of other queries it reads the text at least, if it reads
  them to an end.

### Several searches in one request (`MultiQueryProofs`)

For every number of objects, queries and calls, every set of settings, filters and
overrides and every base and first size of the buffer: `MultiTyped`, `AnswersComeInOrder`,
`HalfBuiltFails` and `SettingsArrive`, from the invariant `WholeInv` (`WholeInvariant`).
None of the four is inductive: what `searchd` reads was put into the buffer calls before,
and from objects that may have been changed or destroyed since. `WholeInv` follows the
cells from there:

- `SettingsKept`, `OwnInv`: every setting of every object is of its type, and every pointer
  leads to a filter. So are the settings of each query that is added.
- `ObjectKept`: the buffer of the object is the cells of the queries added, one behind
  the other (`BuiltBehind`), and `queryCount` is their number. A query whose `addQuery()`
  threw has the cells in front of the exception.
- `RequestKept`: while `launch()` runs, the request is the header, the count and those
  cells (`RequestSent`, `HeaderBack`, `CountBack`).
- `FlagsKept`: where the call is and how many queries it has.
- `ReadingKept`: `searchd` has still to read the cells of the queries it has not
  read, as long as all in front are `Sound`; if it has stopped, all were read or the next
  one is not sound.
- `ToldKept`: what it has read of sound queries is what was meant.
- `ParsingKept`: the answers not yet parsed are those to the queries behind `cursor`, and
  those in front stand in the vector in their order, behind what it `held` before.
- `HalfKept`: a half-built query at the end of a request is never read. The counts of
  overrides and documents were written before the exception, and the values behind
  them were not: the rows end before their number is reached (`RowsCut`, `CutFails`), hence
  the override (`CutOverride`), the list (`CutList`) and the query (`HalfFails`) are not read
  to an end. That needs that the overrides in front, and the values in front of the one
  without a form, are of the width their type says (`FittingOrThrowing`), and that
  nothing follows that could be taken for what is missing.

TLC has checked `WholeInv` with the constants of the run `multiquery` before it was proved.

Three assumptions say what is given. `SettingsAssumption`: the settings are those of
`Dptr_t`, each with values of its C++ type; texts, lists and maps are shorter than
`WordLimit` bytes or elements, because their lengths are sent as 32 bits (`size_t` would allow
more: `searchd` would then read another request). `ConfigAssumption`: the same of filters, and
that the largest default, `maxMatches` 1000, is a 32 bit number.
`MultiAssumption`: the number of queries fits into the header's 32 bits, and the
versions differ in the 16 bits that are sent of them.

### The search parser (`ResponseParserProofs`)

For every set of lists of answers, every place at which the message may end and
everything an uninitialised counter may hold. `ParserAssumption` says which
answers: they are of `Answers`, no two attributes of one have the same name (with
two, `map::insert` keeps the first value only), each match has a value of the
right width for each attribute (`Wellformed`), and their vectors find memory
(`HasMemory`). Of `MaxElements` it says no more than that it is a number that an `int` can
hold (`IntMax`).

- `ParserTypes` and `MatchesHaveTheAttributes`, from `BaseInv`: the attributes of
  the match being read are the first `j` of the response's, and the list of
  attributes does not change once the first match is read. That holds for a
  message of any content.
- `WholeAnswersAreGiven` and `ShortHeadsAreReported`, from `ParseInv` on top of it.
  It says that the parser is in one of two situations. *In step* (`InStep`): from
  `dataStartPtr` on the message has the words that the next reads are for, as far as
  it goes, they end where the answer ends, and the response holds what the words
  before said; there is a clause for each stage (`AtFields`, `AtValues`, ...).
  *Off* (`Off`): the message ends before the answer does, and either a value
  cut in its middle left words behind or nothing is left. A read takes the parser
  from one stage to the next (the lemmas `InStepAt...`) or off (`FallsOff`), and it
  stays off until the answer returns (`OffStays`). An answer that is whole is thus
  never off; `OutOfMemory` needs a vector that was read off step
  (`InStepOutOfMemory`). `PastHead` is the part for heads: behind the number of
  matches nothing is off, unless the head was whole or something was left behind;
  that the one read of the number of matches is checked is what keeps it. After an
  answer the next one is in step again because the message is the answers one after
  another (`MessageStands`).

What the encoding of a list is, for any length, is the joined sequence of its
elements (`JoinedRest` of `DataFacts`), and what is left after k elements is what the
loops are compared with (`FieldsOn`, `MatchesOn`, ...). These facts about the
library's recursive function are proved by the least length at which they would
fail, not by the induction theorems.

### The update and keywords commands (`BufferProofs`, `CommandsProofs`)

`BuffersStayWithinBounds`: `Spec => []BuffersWithinBounds` for the `Spec` of
`Commands`, for any names, texts and words, finitely many documents
(`CommandsAssumption`), every base of the numbers and every array that holds the
widest number, 4 cells, from the start (`BufferAssumption`; the code starts with
512). `GoodBuffers` are those whose pointers are in order and whose cells up to the
end are set. Each operation on one gives another, and the lemmas of `BufferProofs` say more: what is
put stands behind all that was there (`PutExtends`, `PutStringExtends`,
`PutQueryExtends`, `ReadExtends`, all from `StoreExtends`), and growing changes nothing
(`EnlargedSame`). One test and one doubling make room for a number because the array
never has less than 4 cells (`GrowOnceSame`); the loop in front of a text needs that it
ends, by counting how far the size is from what is needed (`DoublingExists`,
`DoublingIsEnough`). The loops over names, values, documents and words go through
`GoodBuffers` only (`LoopExists` and `LoopPreserves` of `DataFacts`). The invariant
`BuffersKept` adds that the cells received and those to come make up at least a
header while one is read, so that `recv()` is never asked for more than there is.

The other theorems are about what goes through these buffers: `CommandTypes`,
`OnlyWhatWasAskedIsSet`, `UpdatesReturnWhenAllSet` and `WordsAreReturnedWhole`. None of
these properties is inductive, because they speak of what `searchd` has read, done and
sent, and the step that settles them is steps earlier. The second invariant,
`CallKept`, carries the meaning of the cells from step to step:

- while `launch()` runs, the content of the request is the cells of what the call
  asks (`UpdateAsked`, `WordsAsked`); `WordsAsked` names the query and the flag, so
  that `told.heard = call` follows when `searchd` has read it;
- while the header, the body and the parser are at work, what was received and what
  is to come are, one after the other, the answer that `searchd` made of what it has
  done, cut at some cell (`HeaderComes`, `BodyComes`, `BodyCame`). `recv()` moves
  cells from one to the other and leaves the whole alone, however it cuts them.

Two arguments do the work. *Sent and read back* (`UpdateRead`): the request as
the builders wrote it is taken apart by the reader, which knows only the wire format.
Names come back by one row of texts (`ReadsNames`) and each document by a row of its own
(`ReadsRow`). A document may have no values (the variadic `addDocument` with a type it
has no case for, `sphinxclient.cc:1138-1150`); its part of the request is then shorter than a row, and as the
rows are all there is behind the names, the reader is short of cells at the last row at
the latest and refuses (`CompleteWhenRead`, by counting cells). *Cut short and parsed*
(`ParsedKeepsCalls`): the words of which all cells came are the first of the list
(`WholeAreFirst`), and up to the last of them each read finds what was put
(`WordsRead`); what the reads behind them leave does not matter to the property.
The count that `updateAttributes` compares with is read whole, or a `MessageError`
ends the call; it is the number of documents only if `searchd` knows all of them.

`CommandsAssumption` says that lengths, counts and numbers fit into the 32 or
64 bits in which they are sent: every text has less than `WordLimit` bytes, there
are less than `WordLimit` names, documents and words, a `uint32` value is below it
and a document number below its square. `size_t` would allow longer texts and lists; the
code sends the low 32 bits of their length and `searchd` would then read another
request. `MachineErrors` has no `ClientUsageError`: `launch()` throws it when there is
no place in the table (`querymachine.cc:698`, `738`), and these calls add one query to an
empty machine (`UsageErrorsJustified` is the theorem that it needs more).

`ReadUpdate` of `Commands` reads row by row by a recursive function, because what it
finds in a row is then a fact about the row and the place where it begins.

### Only model-checked

The liveness property `Terminates`: fairness and `ENABLED` are out of the prover's reach.
Every invariant and every other action or refinement property of a passing run is proved.
The four runs that end in a violation show what the code does not keep, and there is
nothing to prove about them. That the constants of the runs are admitted by the
assumptions is checked by TLC in every run.

The readers loop over data by recursive functions, each step of which is a fact about one
element; what such a loop computes is proved by the least step at which it would fail, not by
the induction theorems of the library, which have an operator as a parameter.

## 5. Plan

1. Done: the table, `QueryMachine`, `MultiQueryOpt`, `MultiQuery`.
2. Done: `ResponseBuffer` and `ResponseParser`; the buffer that grows, the update
   and the keywords command; settings, filters and the search request as the
   server reads it.
3. Done: the proofs about the table, about every safety property of
   `QueryMachine` and of `MultiQueryOpt`, about the filters of `SearchConfig`, about
   every safety property of `ResponseParser` and of `Commands`, and about every safety
   property of `MultiQuery`, with what a search request means to its reader.
4. Open: the hazards without a property (`PROJECT.json` says why for each), the text of
   errors, and the copies of `MultiQueryOpt_t`.

## 6. Not modelled

- `ConnectionConfig_t` (`sphinxclient.cc:103-207`): eight values set by the
  constructor and read by `QueryMachine_t`, where they are constants.
- The hash of `SourceQuery_t` (`sphinxclient.cc:913-932`): a text made of
  settings; `MultiQueryOpt` takes the hash of a query as given.
- Copies of `MultiQueryOpt_t`, whose pointers (`:783`) go on pointing into the original.
- `Value_t`'s own copies (`value.cc:179-219`), values of the language here.
- `escapeQueryString`, `print()` of the filters, `getQueryStateString`: text for people or
  a map from characters to characters.
- `timer.h`: time is nondeterministic in `QueryMachine`.
- `searchd` is not in the repository; what it does is marked external.
- The test programs and the packaging.
