-------------------------- MODULE MCWorkerManager --------------------------
(***************************************************************************)
(* Instances of WorkerManager for TLC: which operations each thread serves, *)
(* and how many requests.                                                  *)
(***************************************************************************)
EXTENDS WorkerManager

CONSTANTS t1, t2, p1, p2

\* One thread that serves every operation in turn.
AllOps == [t \in Threads |-> OpNames]
\* A thread that calls and stops, and others that only call.
CallsAndOneStops == [t \in Threads |-> IF t = t1 THEN {"call", "stop"} ELSE {"call"}]
\* Every thread only calls.
OnlyCalls == [t \in Threads |-> {"call"}]

\* How many requests each thread handles.
One == [t \in Threads |-> 1]
Two == [t \in Threads |-> 2]
Three == [t \in Threads |-> 3]
TwoAndOne == [t \in Threads |-> IF t = t1 THEN 2 ELSE 1]
=============================================================================
