---- MODULE MCEventIngestion ----
(* Three calls with one event id: the client's first POST and two retries that *)
(* may race with it.  No property relates two different events and no step of  *)
(* one event reads the state of another, so one event shows every case.        *)
EXTENDS EventIngestion

CONSTANTS e1, u1, i1

MCEvent == [r \in Requests |-> e1]
MCUserPartition == [e \in Events |-> u1]
MCItemPartition == [e \in Events |-> i1]

====
