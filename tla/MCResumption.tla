---------------------------- MODULE MCResumption ----------------------------
(***************************************************************************)
(* A client that comes back: to a daemon that may have been replaced, and  *)
(* with events it sends again because it has seen no answer to them.  The  *)
(* two meet in the session's lock alone, so one behaviour explores one.    *)
(***************************************************************************)
EXTENDS MCSessionSync, TextEdits

VARIABLE focus  \* the part this behaviour explores

MCEvent == [a1 |-> [client |-> "A", node |-> 1, edit |-> 1],
            a2 |-> [client |-> "A", node |-> 1, edit |-> 2],
            b1 |-> [client |-> "B", node |-> 1, edit |-> 1],
            go |-> [client |-> "A", node |-> 1, edit |-> 0]]

ResumptionInit == focus \in {"replica", "edits"} /\ Init /\ EditInit

ResumptionNext ==
    /\ UNCHANGED focus
    /\ \/ focus = "replica" /\ Next /\ UNCHANGED editVars
       \/ focus = "edits" /\ EditNext /\ UNCHANGED vars

ResumptionSpec == ResumptionInit /\ [][ResumptionNext]_<<focus, vars, editVars>> /\ SyncFairness
=============================================================================
