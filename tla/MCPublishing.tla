---------------------------- MODULE MCPublishing ----------------------------
(***************************************************************************)
(* From a host to the screens: srtop's view of the processes, from the     *)
(* scan to the rows it publishes, its collector of expensive fields, and   *)
(* two clients that follow one session over two connections.  They share   *)
(* no state, so one behaviour explores one of them.                        *)
(***************************************************************************)
EXTENDS ProcessView, OnDemandFields, MCSessionSync

CONSTANTS f1, f2, f3, bad

VARIABLE focus  \* the part this behaviour explores

MCProcesses == {<<1, 1, 1>>}
MCPages  == <<1, 3, 1>>
MCMemory == [gap |-> "none", free |-> 1, total |-> 4]
MCSwap   == [gap |-> "none", free |-> 0, total |-> 0]

\* Three fields of which two can be tracked, and one that is refused.
MCRequests == {<<f3, f1>>, <<bad, f2, f1, f3>>}

\* Two classes of commits that never merge with each other.
MCPriorities == {Scalar({k1}), [keys |-> {k1, k2}, scalar |-> TRUE, priority |-> 1]}

\* Clients and connections are interchangeable.
PeerSymmetry == Permutations(Clients) \cup Permutations(Conns)

PublishingInit ==
    /\ focus \in {"view", "fields", "replicas"}
    /\ ViewInit /\ FieldsInit /\ Init

PublishingNext ==
    /\ UNCHANGED focus
    /\ \/ focus = "view" /\ ViewNext /\ UNCHANGED <<fieldVars, vars>>
       \/ focus = "fields" /\ FieldsNext /\ UNCHANGED <<srtopVars, vars>>
       \/ focus = "replicas" /\ Next /\ UNCHANGED <<srtopVars, fieldVars>>

PublishingSpec == PublishingInit /\ [][PublishingNext]_<<focus, srtopVars, fieldVars, vars>>
=============================================================================
