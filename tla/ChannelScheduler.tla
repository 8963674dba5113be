-------------------------- MODULE ChannelScheduler --------------------------
(***************************************************************************)
(* The logical-channel scheduler shared by the daemon's connection writer   *)
(* and the client's socket writer: a weighted cycle of slots and a cursor   *)
(* that is retained between selections.                                     *)
(*                                                                         *)
(* The classes, the cycle and the gap table are generated from one policy   *)
(* file, so they are parameters here; GapAssumption is what the generator   *)
(* computes the gap table from.                                             *)
(***************************************************************************)
EXTENDS Integers

CONSTANTS
  Classes,          \* LogicalChannelClass::ALL
  ServiceCycle,     \* SERVICE_CYCLE: the class of each slot
  MaxServiceGap     \* max_service_gap(): the largest circular distance of a class

CycleLength == 24

Slots == 0 .. CycleLength - 1

\* The slot that the scan inspects after skipping offset slots.
SlotAt(cursor, offset) == (cursor + offset) % CycleLength

ASSUME CycleAssumption == ServiceCycle \in [Slots -> Classes]

ASSUME GapAssumption ==
  /\ MaxServiceGap \in [Classes -> 1 .. CycleLength]
  /\ \A c \in Classes, s \in Slots :
       \E k \in 0 .. MaxServiceGap[c] - 1 : ServiceCycle[SlotAt(s, k)] = c

-----------------------------------------------------------------------------
\* The scan from the cursor stops after offset skipped slots.
StopsAt(cursor, ready, offset) ==
  /\ ServiceCycle[SlotAt(cursor, offset)] \in ready
  /\ \A j \in 0 .. offset - 1 : ServiceCycle[SlotAt(cursor, j)] \notin ready

AnyReady(ready) == \E s \in Slots : ServiceCycle[s] \in ready

Skipped(cursor, ready) == CHOOSE offset \in Slots : StopsAt(cursor, ready, offset)

\* select_next for a set of ready lanes, one of which the cycle serves.
Selected(cursor, ready) == ServiceCycle[SlotAt(cursor, Skipped(cursor, ready))]

\* A mistake the checks must notice: every selection starts at slot 0.
CursorRestarts(cursor, ready) == 0

\* The cursor ends after the served slot; a full empty scan leaves it alone.
CursorAfter(cursor, ready) ==
  IF AnyReady(ready) THEN SlotAt(cursor, Skipped(cursor, ready) + 1) ELSE cursor
=============================================================================
