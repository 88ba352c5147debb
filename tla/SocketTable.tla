---------------------------- MODULE SocketTable ----------------------------
(***************************************************************************)
(* What FileDescriptors_t (src/src/querymachine.h:63) promises to the      *)
(* query machine: "mapping between queries and socket descriptors".  The   *)
(* table is a partial function from query indices to poll entries; an      *)
(* entry leaves it by name, never by position, and takes nothing else with *)
(* it.  FileDescriptors.tla is shown to implement this module.             *)
(***************************************************************************)
EXTENDS TLC

CONSTANTS Queries,    \* query indices
          Sockets,    \* descriptor numbers
          Interests,  \* what an entry can be polled for
          Revents     \* what poll can report of an entry

VARIABLES conn,       \* query |-> [fd, events, revents]
          open        \* descriptors the process has open

vars == <<conn, open>>

Entry == [fd : Sockets, events : Interests, revents : Revents]

Init ==
    /\ conn = <<>>
    /\ open = {}

\* A new socket joins the table under the name of a query that has none.
Attach(q) ==
    /\ q \notin DOMAIN conn
    /\ \E s \in Sockets \ open, ev \in Interests, r \in Revents :
         /\ conn' = [x \in DOMAIN conn \cup {q} |->
                       IF x = q THEN [fd |-> s, events |-> ev, revents |-> r]
                                ELSE conn[x]]
         /\ open' = open \cup {s}

\* The query's socket is closed and its entry goes; every other entry stays.
Detach(q) ==
    /\ q \in DOMAIN conn
    /\ conn' = [x \in DOMAIN conn \ {q} |-> conn[x]]
    /\ open' = open \ {conn[q].fd}

\* The machine changes what the query's socket is polled for.
SetEvents(q) ==
    /\ q \in DOMAIN conn
    /\ \E ev \in Interests : conn' = [conn EXCEPT ![q].events = ev]
    /\ UNCHANGED open

\* poll() reports on every entry.
Poll ==
    /\ \E r \in [DOMAIN conn -> Revents] :
         conn' = [x \in DOMAIN conn |-> [conn[x] EXCEPT !.revents = r[x]]]
    /\ UNCHANGED open

Next ==
    \/ \E q \in Queries : Attach(q) \/ Detach(q) \/ SetEvents(q)
    \/ Poll

Spec == Init /\ [][Next]_vars
=============================================================================
