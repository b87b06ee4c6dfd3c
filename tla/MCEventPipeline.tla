---- MODULE MCEventPipeline ----
(* One event, posted twice with one id, through one worker that reads both      *)
(* topics.  MaxLog leaves room for every copy the send retries can make.        *)
EXTENDS EventPipeline

CONSTANTS e1, u1, i1

MCEvent == [r \in Requests |-> e1]
MCUserPartition == [e \in Events |-> u1]
MCItemPartition == [e \in Events |-> i1]

====
