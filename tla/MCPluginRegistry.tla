------------------------- MODULE MCPluginRegistry -------------------------
(***************************************************************************)
(* Instances of PluginRegistry for TLC.                                    *)
(***************************************************************************)
EXTENDS PluginRegistry

CONSTANTS t1, t2, p1

\* The manager's operations and their bound, for every thread.
ManagerOps == [t \in Threads |-> {"call", "start", "stop"}]
Six == [t \in Threads |-> 6]

Two == [t \in Threads |-> 2]

\* One thread that serves every route.
AllRoutes == [t \in Threads |-> RegistryOps]

\* Of what archives ship: nothing, a marker beside a status file, or a status
\* file that is no object.
MarkedReady == [install |-> "ok", disabled |-> TRUE]
Shipped == {Nothingness, MarkedReady, [install |-> "no_object", disabled |-> FALSE]}
=============================================================================
