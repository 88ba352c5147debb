---------------------------- MODULE QueryMachine ----------------------------
(***************************************************************************)
(* QueryMachine_t, src/src/querymachine.cc: a batch of requests is sent to *)
(* searchd over one non-blocking connection each, driven by a single       *)
(* poll() loop with per-query timeouts and connect retries, until every    *)
(* query is finished or an exception ends the batch.                       *)
(*                                                                         *)
(* The library is single-threaded; everything that interleaves comes from  *)
(* outside: which sockets poll() reports, how many bytes recv() and send() *)
(* move, when calls fail or are interrupted, how much time passes.  Those  *)
(* results are chosen nondeterministically.  An action is one system call  *)
(* of the loop or one iteration of its two inner for loops.                *)
(***************************************************************************)
EXTENDS PollTable

CONSTANTS
    NumQueries,          \* most requests the caller puts into one machine
    ConnectTimeout, ReadTimeout, WriteTimeout,   \* ConnectionConfig_t, in ms
    ConnectRetryWait, ConnectRetriesCount,
    DisabledTimeout,     \* INT32_MAX
    VersionLen,          \* bytes of the server's greeting, 4 in the code
    HelloLen,            \* bytes of the client's version, 4 in the code
    RequestLen,          \* bytes of a request
    HeaderLen,           \* bytes of a response header, 8 in the code
    BodyLens,            \* body lengths the server may announce
    Overshoot,           \* ms by which the measured time may exceed the timeout
    MaxSignals           \* bound: calls that end without effect (EINTR)

ASSUME CountAssumption == NumQueries \in Nat \ {0}
ASSUME TimeAssumption ==
    /\ {ConnectTimeout, ReadTimeout, WriteTimeout, ConnectRetryWait} \subseteq Nat
    /\ {ConnectRetriesCount, DisabledTimeout, Overshoot, MaxSignals} \subseteq Nat
ASSUME LengthAssumption ==
    /\ {VersionLen, HelloLen, RequestLen, HeaderLen} \subseteq Nat \ {0}
    /\ BodyLens \subseteq Nat

Queries == 0 .. NumQueries - 1
ReadStates == {"RD_VERSION", "RD_RESPONSE_HEADER", "RD_RESPONSE"}
WriteStates == {"WR_CONNECT", "WR_VERSION", "WR_REQUEST"}
\* QueryState_t without the QS_WAIT_ prefix; "none": not in the vectors yet.
QueryState == ReadStates \cup WriteStates
                \cup {"FINISHED", "FAILED", "RETRY_CONNECT", "none"}
Errors == {"ConnectionError", "ServerError", "MessageError", "ClientUsageError"}

\* fds, query2fds, fds2query, size, open and known (the length of the vectors)
\* are PollTable's.
VARIABLES
    \* control: where the caller or launch() stands
    pc,                \* "add", "poll", "scan", "expire", "unwind", "done"
    cursor,            \* loop variable f or i of the inner loops
    outcome,           \* "running", "ok" or the exception thrown
    \* the vectors, one place per query
    qs, timeouts, connectRetries, bytesToRead, bytesWritten, responseStatuses,
    \* the peers and the kernel
    wire,              \* per descriptor: what has gone over its connection
    signals,           \* calls interrupted so far
    \* history, read by properties only
    abandoned,         \* descriptor of a connection setup that threw
    attempts,          \* connections set up for a query
    heard,             \* requests whose answers a query's response holds
    announced          \* body length in the header a query received

control == <<pc, cursor, outcome, known>>
progress == <<bytesToRead, bytesWritten, responseStatuses>>
history == <<abandoned, attempts, heard, announced>>
vars == <<control, qs, timeouts, connectRetries, progress, table,
          open, wire, signals, history>>

Fresh == [given |-> 0, taken |-> 0, carried |-> {}]

Init ==
    /\ pc = "add" /\ cursor = 0 /\ outcome = "running" /\ known = 0
    /\ qs = [q \in Queries |-> "none"]
    /\ timeouts = [q \in Queries |-> 0]
    /\ connectRetries = [q \in Queries |-> 0]
    /\ bytesToRead = [q \in Queries |-> 0]
    /\ bytesWritten = [q \in Queries |-> 0]
    /\ responseStatuses = [q \in Queries |-> "ok"]
    /\ InitTable
    /\ open = {}
    /\ wire = [s \in Sockets |-> Fresh]
    /\ signals = 0
    /\ abandoned = {}
    /\ attempts = [q \in Queries |-> 0]
    /\ heard = [q \in Queries |-> {}]
    /\ announced = [q \in Queries |-> 0]

-----------------------------------------------------------------------------
(* Helpers *)

Goto(place, at) == pc' = place /\ cursor' = at /\ UNCHANGED outcome

\* An exception leaves addQuery() or launch(); the machine is destroyed next.
Throw(error) == pc' = "unwind" /\ outcome' = error /\ UNCHANGED cursor

\* The inner loop goes on to its next iteration.
Advance == Goto(pc, cursor + 1)

SetTimeout(q, ms) == timeouts' = [timeouts EXCEPT ![q] = ms]
SetReadTimeout(q) == SetTimeout(q, ReadTimeout)
SetWriteTimeout(q) == SetTimeout(q, WriteTimeout)
SetConnectTimeout(q) == SetTimeout(q, ConnectTimeout)
SetRetryWaitTimeout(q) == SetTimeout(q, ConnectRetryWait)
DisableTimeout(q) == SetTimeout(q, DisabledTimeout)

EnterState(q, state) == qs' = [qs EXCEPT ![q] = state]

\* A call ends without effect and the loop tries again.
Interrupted == signals < MaxSignals /\ signals' = signals + 1

-----------------------------------------------------------------------------
(* setupConnection, setupLocalConnection *)

\* A new non-blocking socket, its connect() done or in progress.
SetupConnection(s) ==
    /\ open' = open \cup {s}
    /\ wire' = [wire EXCEPT ![s] = Fresh]

\* The setup throws: before it has a socket (the host does not resolve, no
\* address gets a socket) or after (fcntl() or connect() fails, the path of
\* the domain socket is too long).  In the second case nobody closes it.
SetupThrows ==
    /\ \/ UNCHANGED <<open, wire, abandoned>>
       \/ \E s \in Sockets \ open :
            SetupConnection(s) /\ abandoned' = abandoned \cup {s}
    /\ Throw("ConnectionError")
    /\ UNCHANGED <<table, attempts>>

\* The new socket is put into the table under an index; when the table is
\* full it throws, and the socket is in nobody's hands.
Register(q, index) ==
    /\ \E s \in Sockets \ open :
         /\ SetupConnection(s)
         /\ IF Full
            THEN /\ abandoned' = abandoned \cup {s}
                 /\ Throw("ClientUsageError")
                 /\ UNCHANGED table
            ELSE /\ AddEntry(s, "out", index)
                 /\ Advance
                 /\ UNCHANGED abandoned
    /\ attempts' = [attempts EXCEPT ![q] = @ + 1]

-----------------------------------------------------------------------------
(* addQuery: the caller puts one request after the other into the machine *)

\* The vectors grow first; connection and table come after and may throw.
\* The table's overload of addQuery names the query by the table's size.
AddQuery ==
    /\ pc = "add" /\ known < NumQueries
    /\ known' = known + 1
    /\ EnterState(known, "WR_CONNECT")
    /\ SetConnectTimeout(known)
    /\ connectRetries' = [connectRetries EXCEPT ![known] = ConnectRetriesCount]
    /\ SetupThrows \/ Register(known, size)
    /\ UNCHANGED <<progress, signals, heard, announced>>

\* No addQuery after launch: "QueryMachine is not designed for repeatable use".
Launch ==
    /\ pc = "add" /\ known > 0
    /\ Goto("poll", 0)
    /\ UNCHANGED <<known, qs, timeouts, connectRetries, progress, table,
                   open, wire, signals, history>>

-----------------------------------------------------------------------------
(* launch: the poll() call *)

Given == 0 .. known - 1

Finished == \A q \in Given : qs[q] \in {"FINISHED", "FAILED"}

\* poll() takes a negative timeout for no timeout at all.
MinTimeout ==
    LET ts == {timeouts[q] : q \in Given} IN CHOOSE t \in ts : \A u \in ts : t =< u

\* What the timer can have measured when poll() returns.  Without a timeout
\* the wait has no end of its own: the bound stands for any length.
BlockedTicks == 1
Waits == 0 .. IF MinTimeout < 0 THEN BlockedTicks ELSE MinTimeout + Overshoot

DecrementTimeouts(ms) ==
    timeouts' = [q \in Queries |-> IF q \in Given THEN timeouts[q] - ms ELSE timeouts[q]]

AfterPoll == UNCHANGED <<known, qs, connectRetries, progress, open, wire, history>>

\* Some socket is readable, writable or broken.
PollReady ==
    /\ pc = "poll" /\ ~Finished
    /\ \E r \in [Live -> Revents] :
         (\E p \in Live : r[p] # "none") /\ PollReports(r)
    /\ \E ms \in Waits : DecrementTimeouts(ms)
    /\ Goto("scan", 0)
    /\ UNCHANGED signals
    /\ AfterPoll

\* Nothing happened for at least the timeout asked for.
PollTimesOut ==
    /\ pc = "poll" /\ ~Finished
    /\ MinTimeout >= 0
    /\ PollReports([p \in Live |-> "none"])
    /\ \E ms \in MinTimeout .. MinTimeout + Overshoot : DecrementTimeouts(ms)
    /\ Goto("expire", 0)
    /\ UNCHANGED signals
    /\ AfterPoll

\* EINTR, or another error that launch() passes over.
PollFails ==
    /\ pc = "poll" /\ ~Finished
    /\ Interrupted
    /\ \E ms \in Waits : DecrementTimeouts(ms)
    /\ UNCHANGED <<pc, cursor, outcome, table>>
    /\ AfterPoll

LaunchReturns ==
    /\ pc = "poll" /\ Finished
    /\ pc' = "unwind" /\ outcome' = "ok"
    /\ UNCHANGED <<cursor, timeouts, table, signals>>
    /\ AfterPoll

-----------------------------------------------------------------------------
(* launch: the pass over the poll entries, f = cursor *)

Scanning(revents) ==
    /\ pc = "scan" /\ cursor \in Live
    /\ fds[cursor].revents = revents

CurrentQuery == GetQueryIndex(cursor)
CurrentSocket == fds[cursor].fd

NotResetWritten(q) ==
    bytesWritten' = [bytesWritten EXCEPT ![q] = IF qs[q] = "WR_VERSION" THEN HelloLen ELSE @]
ResetWritten(q) == bytesWritten' = [bytesWritten EXCEPT ![q] = 0]

\* What a handler leaves alone unless it says otherwise.
Idle == UNCHANGED <<known, connectRetries, open, abandoned, attempts>>

SkipEntry ==
    /\ Scanning("none")
    /\ Advance
    /\ Idle
    /\ UNCHANGED <<qs, timeouts, progress, table, wire, signals, heard, announced>>

\* The entry is broken, the query's state does not fit the event ("Unexpected
\* status"), connect() failed after all (SO_ERROR), recv() or send() failed
\* or the peer closed the connection: the whole batch ends.
EntryThrows ==
    /\ Scanning("err") \/ Scanning("in") \/ Scanning("out")
    /\ Throw("ConnectionError")
    /\ Idle
    /\ UNCHANGED <<qs, timeouts, progress, table, wire, signals, heard, announced>>

\* recv() or send() is interrupted; the entry is looked at in the next round.
CallInterrupted ==
    /\ \/ Scanning("in") /\ qs[CurrentQuery] \in ReadStates
       \/ Scanning("out") /\ qs[CurrentQuery] \in {"WR_VERSION", "WR_REQUEST"}
    /\ Interrupted
    /\ Advance
    /\ Idle
    /\ UNCHANGED <<qs, timeouts, progress, table, wire, heard, announced>>

-----------------------------------------------------------------------------
(* handleWrite *)

Connected ==
    LET q == CurrentQuery IN
    /\ Scanning("out") /\ qs[q] = "WR_CONNECT"
    /\ EnterState(q, "RD_VERSION")
    /\ bytesToRead' = [bytesToRead EXCEPT ![q] = VersionLen]
    /\ SetEvents(cursor, "in")
    /\ SetReadTimeout(q)
    /\ Advance
    /\ Idle
    /\ UNCHANGED <<bytesWritten, responseStatuses, wire, signals, heard, announced>>

\* writeOnWritable moves n bytes of the buffer the query is sending.
Outgoing(q) == IF qs[q] = "WR_VERSION" THEN HelloLen ELSE RequestLen

Send(q, n) ==
    wire' = [wire EXCEPT ![CurrentSocket].given = @ + n,
                         ![CurrentSocket].carried =
                            IF qs[q] = "WR_REQUEST" THEN @ \cup {q} ELSE @]

WritePart ==
    LET q == CurrentQuery IN
    /\ Scanning("out") /\ qs[q] \in {"WR_VERSION", "WR_REQUEST"}
    /\ \E n \in 1 .. Outgoing(q) - bytesWritten[q] - 1 :
         /\ Send(q, n)
         /\ bytesWritten' = [bytesWritten EXCEPT ![q] = @ + n]
    /\ SetWriteTimeout(q)
    /\ Advance
    /\ Idle
    /\ UNCHANGED <<qs, bytesToRead, responseStatuses, table, signals, heard, announced>>

VersionWritten ==
    LET q == CurrentQuery IN
    /\ Scanning("out") /\ qs[q] = "WR_VERSION"
    /\ Send(q, HelloLen - bytesWritten[q])
    /\ EnterState(q, "WR_REQUEST")
    /\ SetEvents(cursor, "out")
    /\ ResetWritten(q)
    /\ SetWriteTimeout(q)
    /\ Advance
    /\ Idle
    /\ UNCHANGED <<bytesToRead, responseStatuses, signals, heard, announced>>

RequestWritten ==
    LET q == CurrentQuery IN
    /\ Scanning("out") /\ qs[q] = "WR_REQUEST"
    /\ Send(q, RequestLen - bytesWritten[q])
    /\ bytesWritten' = [bytesWritten EXCEPT ![q] = RequestLen]
    /\ EnterState(q, "RD_RESPONSE_HEADER")
    /\ SetEvents(cursor, "in")
    /\ bytesToRead' = [bytesToRead EXCEPT ![q] = HeaderLen]
    /\ SetReadTimeout(q)
    /\ Advance
    /\ Idle
    /\ UNCHANGED <<responseStatuses, signals, heard, announced>>

-----------------------------------------------------------------------------
(* handleRead *)

\* readOnReadable takes n bytes off the connection; recv() is never asked for
\* more than is wanted, and gives nothing when nothing is wanted.
Receive(q, n) ==
    /\ n \in 1 .. bytesToRead[q]
    /\ wire' = [wire EXCEPT ![CurrentSocket].taken = @ + n]
    /\ heard' = [heard EXCEPT ![q] = @ \cup wire[CurrentSocket].carried]

ReadPart ==
    LET q == CurrentQuery IN
    /\ Scanning("in") /\ qs[q] \in ReadStates
    /\ \E n \in 1 .. bytesToRead[q] - 1 :
         /\ Receive(q, n)
         /\ bytesToRead' = [bytesToRead EXCEPT ![q] = @ - n]
    /\ SetReadTimeout(q)
    /\ Advance
    /\ Idle
    /\ UNCHANGED <<qs, bytesWritten, responseStatuses, table, signals, announced>>

VersionRead ==
    LET q == CurrentQuery IN
    /\ Scanning("in") /\ qs[q] = "RD_VERSION"
    /\ Receive(q, bytesToRead[q])
    /\ bytesToRead' = [bytesToRead EXCEPT ![q] = 0]
    /\ EnterState(q, "WR_VERSION")
    /\ SetEvents(cursor, "out")
    /\ ResetWritten(q)
    /\ SetWriteTimeout(q)
    /\ Advance
    /\ Idle
    /\ UNCHANGED <<responseStatuses, signals, announced>>

\* The server's version is less than 1.
OldVersionRead ==
    LET q == CurrentQuery IN
    /\ Scanning("in") /\ qs[q] = "RD_VERSION"
    /\ Receive(q, bytesToRead[q])
    /\ bytesToRead' = [bytesToRead EXCEPT ![q] = 0]
    /\ Throw("ServerError")
    /\ Idle
    /\ UNCHANGED <<qs, timeouts, bytesWritten, responseStatuses, table, signals, announced>>

HeaderRead ==
    LET q == CurrentQuery IN
    /\ Scanning("in") /\ qs[q] = "RD_RESPONSE_HEADER"
    /\ Receive(q, bytesToRead[q])
    /\ \E status \in {"ok", "error"} :
         responseStatuses' = [responseStatuses EXCEPT ![q] = status]
    /\ \E length \in BodyLens :
         /\ bytesToRead' = [bytesToRead EXCEPT ![q] = length]
         /\ announced' = [announced EXCEPT ![q] = length]
    /\ EnterState(q, "RD_RESPONSE")
    /\ SetEvents(cursor, "in")
    /\ SetReadTimeout(q)
    /\ Advance
    /\ Idle
    /\ UNCHANGED <<bytesWritten, signals>>

\* The last bytes of the body.  The entry leaves the table and its neighbour
\* takes its place, which this pass has already gone by.
NoStatusOK(q) == TRUE
StatusOK(q) == responseStatuses[q] = "ok"

BodyRead ==
    LET q == CurrentQuery IN
    /\ Scanning("in") /\ qs[q] = "RD_RESPONSE"
    /\ Receive(q, bytesToRead[q])
    /\ bytesToRead' = [bytesToRead EXCEPT ![q] = 0]
    /\ EnterState(q, "FINISHED")
    /\ IF StatusOK(q)
       THEN /\ RemoveFd(cursor)
            /\ DisableTimeout(q)
            /\ Advance
       ELSE /\ Throw("MessageError")
            /\ UNCHANGED <<table, open, timeouts>>
    /\ UNCHANGED <<known, connectRetries, abandoned, attempts,
                   bytesWritten, responseStatuses, signals, announced>>

ScanEnds ==
    /\ pc = "scan" /\ cursor >= size
    /\ Goto("poll", 0)
    /\ Idle
    /\ UNCHANGED <<qs, timeouts, progress, table, wire, signals, heard, announced>>

-----------------------------------------------------------------------------
(* launch: the pass over the queries after a timeout, i = cursor *)

DueLater(q) == timeouts[q] < 0
DueInTime(q) == timeouts[q] \in {0, 1}
Due(q) == timeouts[q] =< 1

RetriesLeftOffByOne(q) == connectRetries[q] >= 0
RetriesLeft(q) == connectRetries[q] > 0

RetryUnspent(q) == UNCHANGED connectRetries
SpendRetry(q) == connectRetries' = [connectRetries EXCEPT ![q] = @ - 1]

\* A query is connected again only out of the connect itself.
WholeHandshakeRepeatable(q) == qs[q] \in {"WR_CONNECT", "RD_VERSION", "WR_VERSION"}
Repeatable(q) == qs[q] = "WR_CONNECT"

SkipQuery ==
    /\ pc = "expire" /\ cursor \in Given /\ ~Due(cursor)
    /\ Advance
    /\ Idle
    /\ UNCHANGED <<qs, timeouts, progress, table, wire, signals, heard, announced>>

\* A connect attempt took too long: its socket is closed and the query waits
\* for its next attempt.
ConnectExpires ==
    LET i == cursor IN
    /\ pc = "expire" /\ i \in Given /\ Due(i)
    /\ Repeatable(i) /\ RetriesLeft(i)
    /\ EnterState(i, "RETRY_CONNECT")
    /\ SetRetryWaitTimeout(i)
    /\ IF HasPollIndex(i)
       THEN /\ RemoveFd(GetPollIndex(i))
            /\ SpendRetry(i)
            /\ Advance
       ELSE /\ Throw("ClientUsageError")
            /\ UNCHANGED <<table, open, connectRetries>>
    /\ UNCHANGED <<known, progress, wire, signals, history>>

\* The wait is over: the query is connected anew under its own index.
RetryExpires ==
    LET i == cursor IN
    /\ pc = "expire" /\ i \in Given /\ Due(i)
    /\ qs[i] = "RETRY_CONNECT"
    /\ \/ SetupThrows /\ UNCHANGED <<qs, timeouts>>
       \/ /\ EnterState(i, "WR_CONNECT")
          /\ SetConnectTimeout(i)
          /\ Register(i, i)
    /\ UNCHANGED <<known, connectRetries, progress, signals, heard, announced>>

\* Any other wait that took too long ends the batch.
ExpiryThrows ==
    LET i == cursor IN
    /\ pc = "expire" /\ i \in Given /\ Due(i)
    /\ qs[i] # "RETRY_CONNECT"
    /\ Repeatable(i) => ~RetriesLeft(i)
    /\ Throw("ConnectionError")
    /\ Idle
    /\ UNCHANGED <<qs, timeouts, progress, table, wire, signals, heard, announced>>

ExpireEnds ==
    /\ pc = "expire" /\ cursor >= known
    /\ Goto("poll", 0)
    /\ Idle
    /\ UNCHANGED <<qs, timeouts, progress, table, wire, signals, heard, announced>>

-----------------------------------------------------------------------------
(* The machine's destructor, reached by return and by exception alike *)

UnwindFd ==
    /\ pc = "unwind" /\ size > 0
    /\ RemoveFd(size - 1)
    /\ UNCHANGED <<control, qs, timeouts, connectRetries, progress, wire, signals, history>>

Destroyed ==
    /\ pc = "unwind" /\ size = 0
    /\ pc' = "done"
    /\ UNCHANGED <<cursor, outcome, known, qs, timeouts, connectRetries, progress,
                   table, open, wire, signals, history>>

\* The call is over.
Terminated == pc = "done" /\ UNCHANGED vars

Code ==
    \/ AddQuery \/ Launch \/ LaunchReturns
    \/ SkipEntry \/ EntryThrows \/ CallInterrupted
    \/ Connected \/ WritePart \/ VersionWritten \/ RequestWritten
    \/ ReadPart \/ VersionRead \/ OldVersionRead \/ HeaderRead \/ BodyRead
    \/ ScanEnds
    \/ SkipQuery \/ ConnectExpires \/ RetryExpires \/ ExpiryThrows \/ ExpireEnds
    \/ UnwindFd \/ Destroyed

Next == Code \/ PollReady \/ PollTimesOut \/ PollFails \/ Terminated

Spec == Init /\ [][Next]_vars

\* The code between two polls runs on, and poll() returns when its timeout is
\* over.  Nothing is assumed of the peers: PollReady need never happen.
FairSpec == Spec /\ WF_vars(Code) /\ WF_vars(PollTimesOut)

-----------------------------------------------------------------------------
(* Properties *)

\* Every variable has its type.
TypeOK ==
    /\ pc \in {"add", "poll", "scan", "expire", "unwind", "done"}
    /\ cursor \in Nat
    /\ outcome \in {"running", "ok"} \cup Errors
    /\ known \in 0 .. NumQueries
    /\ qs \in [Queries -> QueryState]
    /\ timeouts \in [Queries -> Int]
    /\ connectRetries \in [Queries -> 0 .. ConnectRetriesCount]
    /\ bytesToRead \in [Queries -> Nat]
    /\ bytesWritten \in [Queries -> Nat]
    /\ responseStatuses \in [Queries -> {"ok", "error"}]
    /\ size \in 0 .. MaxParallel
    /\ fds \in [Slots -> PollFd]
    /\ open \subseteq Sockets
    /\ abandoned \subseteq Sockets

InBatch == pc \in {"add", "poll", "scan", "expire"}

\* While the batch runs, the table has an entry for exactly the queries that
\* are connecting or exchanging bytes, the two index arrays agree on it, and
\* getPollIndex throws for every other query of the machine: so the ones that
\* wait for a retry or are finished are not polled, and every other one is
\* (launch, handleRead and the two addQuery functions keep this together).
TableMatchesStates ==
    InBatch =>
      /\ Registered = {q \in Given : qs[q] \in ReadStates \cup WriteStates}
      /\ \A p \in Live : query2fds[fds2query[p]] = p
      /\ \A q \in Given \ Registered : ~HasPollIndex(q)

\* A polled entry waits for the direction its query's state needs, and an
\* event that launch() has still to look at fits that state, also after
\* removeFd has moved entries during the pass: handleRead and handleWrite
\* never meet an "Unexpected status" (querymachine.cc:401, :511).
EventsMatchStates ==
    InBatch => \A p \in Live :
      LET q == fds2query[p] IN
      /\ fds[p].events = IF qs[q] \in ReadStates THEN "in" ELSE "out"
      /\ pc = "scan" /\ p >= cursor => fds[p].revents \in {"none", "err", fds[p].events}

\* The client never loses its place in the byte stream of a connection: what it
\* has written is its version and its request, each once from the first byte,
\* and what it has read and still wants ends where the greeting, the header or
\* the announced body ends.
Framing ==
    InBatch => \A p \in Live :
      LET q == fds2query[p]
          w == wire[fds[p].fd]
      IN CASE qs[q] = "WR_CONNECT" -> w.given = 0 /\ w.taken = 0
           [] qs[q] = "RD_VERSION" -> w.given = 0 /\ w.taken + bytesToRead[q] = VersionLen
           [] qs[q] = "WR_VERSION" -> w.given = bytesWritten[q] /\ w.taken = VersionLen
           [] qs[q] = "WR_REQUEST" -> w.given = HelloLen + bytesWritten[q]
                                        /\ w.taken = VersionLen
           [] qs[q] = "RD_RESPONSE_HEADER" ->
                w.given = HelloLen + RequestLen
                  /\ w.taken + bytesToRead[q] = VersionLen + HeaderLen
           [] qs[q] = "RD_RESPONSE" ->
                w.given = HelloLen + RequestLen
                  /\ w.taken + bytesToRead[q] = VersionLen + HeaderLen + announced[q]

\* A connection carries the request of the query it belongs to and no other,
\* and what getResponse(q) returns after a successful batch is the complete
\* answer to query q, although descriptors are reused and entries move.
ResponsesMatchRequests ==
    /\ InBatch => \A p \in Live : wire[fds[p].fd].carried \subseteq {fds2query[p]}
    /\ outcome = "ok" =>
         \A q \in Given : /\ qs[q] = "FINISHED"
                          /\ responseStatuses[q] = "ok"
                          /\ heard[q] = {q}
                          /\ bytesToRead[q] = 0

\* Every descriptor the process has open belongs to exactly one entry of the
\* table, but for one: the socket a throwing setup leaves behind (setupConnection
\* after socket(), or addQuery on a full table).  So a batch that ends in any
\* other way leaves no socket open.
SocketAccounting ==
    /\ open = {fds[p].fd : p \in Live} \cup abandoned
    /\ \A p1, p2 \in Live : fds[p1].fd = fds[p2].fd => p1 = p2
    /\ \A p \in Live : fds[p].fd \notin abandoned
    /\ Cardinality(abandoned) =< 1
    /\ InBatch \/ outcome \in {"ok", "ServerError", "MessageError"} => abandoned = {}

\* ClientUsageError_t leaves the machine for one reason only: more queries were
\* added than it has places.  getPollIndex and the addQuery of a retry never
\* throw it (querymachine.cc:698, :737).
UsageErrorOnlyWhenFull ==
    outcome = "ClientUsageError" => known > MaxParallel

\* A query is connected at most once more than the configured retries, and
\* what is left of them counts the attempts made so far.
RetryBudget ==
    \A q \in Given :
      /\ attempts[q] =< ConnectRetriesCount + 1
      /\ InBatch => attempts[q] + connectRetries[q] =
                      ConnectRetriesCount + IF qs[q] = "RETRY_CONNECT" THEN 0 ELSE 1

\* No request is sent twice: a query that goes back to connecting has written
\* and read nothing, and a finished one stays finished with its response.
NothingRepeated ==
    [][\A q \in Queries :
         /\ qs'[q] = "RETRY_CONNECT" /\ qs[q] # "RETRY_CONNECT" =>
              \A s \in open \ open' : wire[s] = Fresh
         /\ qs[q] = "FINISHED" =>
              qs'[q] = "FINISHED" /\ heard'[q] = heard[q] /\ attempts'[q] = attempts[q]]_vars

\* poll() takes a negative timeout for none at all, and the least one is what it
\* is given.  The time of a query goes below zero only in a poll() that measured
\* more than it was given, and a pass over the expired queries leaves no query
\* there, however late the poll() before it was.  So launch() comes to wait for
\* ever only after a poll() that was late and brought an event or was
\* interrupted, never after one that timed out (querymachine.cc:103-152,
\* :669-681).
UnboundedPollOnlyWhenLate ==
    [][\A q \in Given' :
         timeouts'[q] < 0 =>
            \/ pc = "poll" /\ timeouts[q] - timeouts'[q] > MinTimeout
            \/ q \in Given /\ timeouts[q] < 0 /\ ~(pc = "expire" /\ pc' = "poll")]_vars

\* Queries whose complete answer is there.
Answered ==
    {q \in Given : qs[q] = "FINISHED" /\ responseStatuses[q] = "ok"
                     /\ heard[q] = {q} /\ bytesToRead[q] = 0}

\* The machine is an all-or-nothing batch: "Even when single connection fails,
\* all fails" (querymachine.h:142), and launch() returns only when every query
\* has the whole answer to its own request.
Batch == INSTANCE QueryBatch WITH answered <- Answered, result <- outcome
ImplementsQueryBatch == Batch!Spec

\* Every call returns, whatever the peers do or fail to do: this is what the
\* connect, read and write timeouts are for (sphinxclient.h:187-191).
Terminates == <>(pc = "done")
=============================================================================
