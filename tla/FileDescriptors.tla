-------------------------- MODULE FileDescriptors --------------------------
(***************************************************************************)
(* The table of polled sockets (PollTable.tla) driven by every sequence of *)
(* calls the query machine's use of it allows, and its promise: it is a    *)
(* map from queries to sockets (SocketTable.tla).                          *)
(***************************************************************************)
EXTENDS PollTable

DrivenVars == <<table, open, known>>

DrivenInit ==
    /\ InitTable
    /\ open = {}
    /\ known = 0

\* QueryMachine_t::addQuery uses the overload that names the query by the
\* table's size; it is called before launch only, so every query is present.
AddNewAtAnyTime ==
    /\ \E s \in Sockets \ open :
         /\ AddEntry(s, "out", size)
         /\ open' = open \cup {s}
    /\ known' = known + 1

AddNew ==
    /\ known = size
    /\ \E s \in Sockets \ open :
         /\ AddEntry(s, "out", size)
         /\ open' = open \cup {s}
    /\ known' = known + 1

\* A query whose retry wait is over is connected anew, under its own index.
AddRetry(q) ==
    /\ q \notin Registered
    /\ \E s \in Sockets \ open :
         /\ AddEntry(s, "out", q)
         /\ open' = open \cup {s}
    /\ UNCHANGED known

RemoveEntry(p) == RemoveFd(p) /\ UNCHANGED known

Watch(p, ev) == SetEvents(p, ev) /\ UNCHANGED <<open, known>>

Poll ==
    /\ \E r \in [Live -> Revents] : PollReports(r)
    /\ UNCHANGED <<open, known>>

DrivenNext ==
    \/ AddNew
    \/ \E q \in 0 .. known - 1 : AddRetry(q)
    \/ \E p \in Live : RemoveEntry(p)
    \/ \E p \in Live, ev \in Interests : Watch(p, ev)
    \/ Poll

DrivenSpec == DrivenInit /\ [][DrivenNext]_DrivenVars

-----------------------------------------------------------------------------
(* Properties *)

\* The descriptors of the live entries are pairwise different and are exactly
\* those the process has open: removeFd closes the removed entry's descriptor
\* and no other, and an entry never outlives its descriptor.
EntriesOwnTheirSockets ==
    /\ \A p1, p2 \in Live : fds[p1].fd = fds[p2].fd => p1 = p2
    /\ open = {fds[p].fd : p \in Live}

\* The table implements the partial function from queries to entries.
Table == INSTANCE SocketTable
           WITH Queries <- Slots,
                conn <- [q \in Registered |-> fds[query2fds[q]]]

ImplementsSocketTable == Table!Spec
=============================================================================
