----------------------------- MODULE ServiceGaps -----------------------------
(***************************************************************************)
(* How long one lane waits while the others come and go.                    *)
(*                                                                         *)
(* Each step is one call of select_next with any set of ready lanes: lanes   *)
(* fill and drain between two selections in ways the scheduler does not      *)
(* know.  One lane is watched; waited counts the selections that served      *)
(* another lane since it became ready.                                       *)
(***************************************************************************)
EXTENDS ChannelScheduler

VARIABLES
  slot,      \* the scheduler's only state
  watched,   \* the lane whose waiting is measured
  waited     \* selections it has been passed over in a row

laneVars == <<slot, watched, waited>>

LaneInit ==
  /\ slot = 0
  /\ watched \in Classes
  /\ waited = 0

PassedOver(ready) == watched \in ready /\ Selected(slot, ready) # watched

SelectNext(ready) ==
  /\ slot' = CursorAfter(slot, ready)
  /\ waited' = IF PassedOver(ready) THEN waited + 1 ELSE 0
  /\ UNCHANGED watched

LaneNext == \E ready \in SUBSET Classes : SelectNext(ready)

LaneSpec == LaneInit /\ [][LaneNext]_laneVars

-----------------------------------------------------------------------------
\* Type invariant: the cursor of LogicalChannelScheduler stays inside the cycle.
LaneTypeOK ==
  /\ slot \in Slots
  /\ watched \in Classes
  /\ waited \in Nat

\* A lane that stays ready is served at the latest by the selection that its
\* documented service gap allows, whatever the other lanes do meanwhile: the
\* repository's test of the gaps keeps every lane ready all the time.
ServedWithinGap == waited < MaxServiceGap[watched]
=============================================================================
