----------------------- MODULE ConnectionWriterProofs -----------------------
(***************************************************************************)
(* The safety properties of a connection, for every capacity, every policy   *)
(* and every catch-up.                                                       *)
(*                                                                         *)
(* Wake-ups: the writer parks only out of a look at an open, empty queue,    *)
(* and each hub operation that makes the queue interesting again ends with a  *)
(* token or the cancelled disconnect token.  Acknowledgements: the owed ones  *)
(* are exactly those in the channel, pending, and in flight (AckLedger), and  *)
(* where the writer could report lag the input is still open (OpenInput).     *)
(* The result: the token is cancelled only after the queue is closed          *)
(* (CancelAfterClose).  Catch-up: the gate separates the two kinds of         *)
(* terminal frames (CatchUpGate).                                             *)
(***************************************************************************)
EXTENDS ConnectionWriter, ServiceGaps, FoldLemmas

(* Facts about one selection of the scheduler. *)

\* The scan of select_next wraps around the cycle: advancing twice is advancing
\* by the sum.
LEMMA SlotAtAdds ==
  ASSUME NEW s \in Slots, NEW n \in Nat, NEW k \in Nat
  PROVE  SlotAt(SlotAt(s, n), k) = SlotAt(s, n + k)
  BY DEF SlotAt, Slots, CycleLength

\* Every slot the scan inspects is a slot of the cycle.
LEMMA SlotAtType ==
  ASSUME NEW s \in Slots, NEW n \in Nat
  PROVE  SlotAt(s, n) \in Slots
  BY DEF SlotAt, Slots, CycleLength

\* A scan that has skipped nothing is at its cursor.
LEMMA SlotAtZero ==
  ASSUME NEW s \in Slots
  PROVE  SlotAt(s, 0) = s
  BY DEF SlotAt, Slots, CycleLength

\* Starting anywhere, the scan reaches every slot.
LEMMA SlotReached ==
  ASSUME NEW s \in Slots, NEW t \in Slots
  PROVE  \E k \in Slots : SlotAt(s, k) = t
<1>1. CASE t >= s
  <2>1. t - s \in Slots /\ SlotAt(s, t - s) = t
    BY <1>1 DEF SlotAt, Slots, CycleLength
  <2> QED BY <2>1
<1>2. CASE t < s
  <2>1. t + CycleLength - s \in Slots /\ SlotAt(s, t + CycleLength - s) = t
    BY <1>2 DEF SlotAt, Slots, CycleLength
  <2> QED BY <2>1
<1> QED BY <1>1, <1>2 DEF Slots

\* When some lane of the cycle is ready, the scan stops at a first such slot.
LEMMA ScanStops ==
  ASSUME NEW c \in Slots, NEW ready, AnyReady(ready)
  PROVE  Skipped(c, ready) \in Slots /\ StopsAt(c, ready, Skipped(c, ready))
<1> DEFINE T == {k \in Slots : ServiceCycle[SlotAt(c, k)] \in ready}
<1>1. PICK t \in Slots : ServiceCycle[t] \in ready
  BY DEF AnyReady
<1>2. T # {} /\ T \subseteq Nat
  <2>1. PICK k \in Slots : SlotAt(c, k) = t
    BY SlotReached
  <2>2. k \in T
    BY <1>1, <2>1
  <2> QED BY <2>2 DEF Slots
<1>3. PICK m \in T : \A k \in T : ~(<<k, m>> \in OpToRel(<, Nat))
  <2> HIDE DEF T
  <2> QED BY <1>2, NatLessThanWellFounded, WFMin
<1>4. \A j \in 0 .. m - 1 : j \in Nat /\ j < m /\ j \in Slots
  BY DEF Slots, CycleLength
<1>5. \A j \in 0 .. m - 1 : <<j, m>> \in OpToRel(<, Nat)
  BY <1>2, <1>4 DEF OpToRel
<1>6. StopsAt(c, ready, m)
  BY <1>3, <1>4, <1>5 DEF StopsAt
<1>7. \E offset \in Slots : StopsAt(c, ready, offset)
  BY <1>3, <1>6
<1> QED BY <1>7 DEF Skipped

\* A selection leaves the cursor on a slot of the cycle.
LEMMA CursorAfterType ==
  ASSUME NEW c \in Slots, NEW ready
  PROVE  CursorAfter(c, ready) \in Slots
<1>1. CASE AnyReady(ready)
  <2>1. Skipped(c, ready) \in Slots
    BY <1>1, ScanStops
  <2>2. Skipped(c, ready) + 1 \in Nat
    BY <2>1 DEF Slots, CycleLength
  <2> QED BY <1>1, <2>2, SlotAtType DEF CursorAfter
<1>2. CASE ~AnyReady(ready)
  BY <1>2 DEF CursorAfter
<1> QED BY <1>1, <1>2

-----------------------------------------------------------------------------
(***************************************************************************)
(* ServiceGaps. For every policy whose gap table satisfies GapAssumption,  *)
(* a lane that stays ready is served within its gap.                       *)
(*                                                                         *)
(* The argument: since the watched lane became ready, the scan has passed  *)
(* n consecutive slots, none of which is a slot of that lane, and at least *)
(* one per selection. A run of MaxServiceGap slots without one cannot      *)
(* exist, so n, and with it waited, stays below the gap.                   *)
(***************************************************************************)

\* From slot s, the first n slots belong to other lanes than c.
RunWithout(c, s, n) == \A j \in 0 .. n - 1 : ServiceCycle[SlotAt(s, j)] # c

PassedSlots ==
  \E s \in Slots, n \in Nat :
    /\ waited <= n
    /\ slot = SlotAt(s, n)
    /\ RunWithout(watched, s, n)

GapInv == LaneTypeOK /\ PassedSlots

-----------------------------------------------------------------------------
\* One call of select_next preserves the invariant: the watched lane is served,
\* is not ready, or is passed over by slots of other lanes only.
LEMMA LanePreserves ==
  ASSUME GapInv, NEW ready \in SUBSET Classes, SelectNext(ready)
  PROVE  GapInv'
<1> USE DEF GapInv
<1>1. watched' = watched /\ watched \in Classes /\ slot \in Slots /\ waited \in Nat
  BY DEF SelectNext, LaneTypeOK
<1>2. slot' \in Slots
  BY <1>1, CursorAfterType DEF SelectNext
<1>3. waited' \in Nat
  BY <1>1 DEF SelectNext
<1>4. LaneTypeOK'
  BY <1>1, <1>2, <1>3 DEF LaneTypeOK
<1>5. PassedSlots'
  <2>1. CASE ~PassedOver(ready)
    <3>1. waited' = 0
      BY <2>1 DEF SelectNext
    <3>2. SlotAt(slot', 0) = slot'
      BY <1>2, SlotAtZero
    <3>3. RunWithout(watched, slot', 0)
      BY DEF RunWithout
    <3> QED BY <1>1, <1>2, <3>1, <3>2, <3>3 DEF PassedSlots
  <2>2. CASE PassedOver(ready)
    <3>1. PICK t \in Slots : ServiceCycle[t] = watched
      <4>1. PICK i \in 0 .. MaxServiceGap[watched] - 1 : ServiceCycle[SlotAt(0, i)] = watched
        BY <1>1, GapAssumption DEF Slots, CycleLength
      <4>2. i \in Nat /\ 0 \in Slots
        BY DEF Slots, CycleLength
      <4> QED BY <4>1, <4>2, SlotAtType
    <3>2. AnyReady(ready)
      BY <2>2, <3>1 DEF AnyReady, PassedOver
    <3>3. PICK k \in Slots : k = Skipped(slot, ready) /\ StopsAt(slot, ready, k)
      BY <1>1, <3>2, ScanStops
    <3>4. k \in Nat
      BY <3>3 DEF Slots
    <3>5. \A j \in 0 .. k : ServiceCycle[SlotAt(slot, j)] # watched
      <4>1. ServiceCycle[SlotAt(slot, k)] # watched
        BY <2>2, <3>3 DEF PassedOver, Selected
      <4>2. \A j \in 0 .. k - 1 : ServiceCycle[SlotAt(slot, j)] # watched
        BY <2>2, <3>3 DEF StopsAt, PassedOver
      <4>3. \A j \in 0 .. k : j = k \/ j \in 0 .. k - 1
        BY <3>4
      <4> QED BY <4>1, <4>2, <4>3
    <3>6. PICK s \in Slots, n \in Nat :
            waited <= n /\ slot = SlotAt(s, n) /\ RunWithout(watched, s, n)
      BY DEF PassedSlots
    <3>7. slot' = SlotAt(s, n + (k + 1))
      <4>1. slot' = SlotAt(slot, k + 1)
        BY <3>2, <3>3 DEF SelectNext, CursorAfter
      <4>2. k + 1 \in Nat
        BY <3>4
      <4> QED BY <3>6, <4>1, <4>2, SlotAtAdds
    <3>8. RunWithout(watched, s, n + (k + 1))
      <4> SUFFICES ASSUME NEW j \in 0 .. n + (k + 1) - 1
                   PROVE  ServiceCycle[SlotAt(s, j)] # watched
        BY <3>4 DEF RunWithout
      <4>1. CASE j < n
        <5>1. j \in 0 .. n - 1
          BY <4>1
        <5> QED BY <3>6, <5>1 DEF RunWithout
      <4>2. CASE j >= n
        <5>1. j - n \in 0 .. k /\ j - n \in Nat /\ n + (j - n) = j
          BY <3>4, <4>2
        <5>2. SlotAt(slot, j - n) = SlotAt(s, j)
          BY <3>6, <5>1, SlotAtAdds
        <5> QED BY <3>5, <5>1, <5>2
      <4> QED BY <4>1, <4>2
    <3>9. n + (k + 1) \in Nat /\ waited' <= n + (k + 1)
      BY <1>1, <2>2, <3>4, <3>6 DEF SelectNext
    <3> QED BY <1>1, <3>7, <3>8, <3>9 DEF PassedSlots
  <2> QED BY <2>1, <2>2
<1> QED BY <1>4, <1>5

\* A run of slots without the watched lane is shorter than its service gap.
LEMMA RunsAreShort == GapInv => ServedWithinGap
<1> SUFFICES ASSUME GapInv, ~ServedWithinGap PROVE FALSE
  OBVIOUS
<1>1. PICK s \in Slots, n \in Nat : waited <= n /\ RunWithout(watched, s, n)
  BY DEF GapInv, PassedSlots
<1>2. MaxServiceGap[watched] \in 1 .. CycleLength /\ waited \in Nat
  BY GapAssumption DEF GapInv, LaneTypeOK
<1>3. MaxServiceGap[watched] <= n
  BY <1>1, <1>2 DEF ServedWithinGap, CycleLength
<1>4. PICK k \in 0 .. MaxServiceGap[watched] - 1 : ServiceCycle[SlotAt(s, k)] = watched
  BY GapAssumption DEF GapInv, LaneTypeOK
<1>5. k \in 0 .. n - 1
  BY <1>2, <1>3 DEF CycleLength
<1> QED BY <1>1, <1>4, <1>5 DEF RunWithout

\* Invariance of the run of passed slots over every sequence of selections.
LEMMA GapInvariance == LaneSpec => []GapInv
<1>1. LaneInit => GapInv
  <2> SUFFICES ASSUME LaneInit PROVE GapInv
    OBVIOUS
  <2>1. LaneTypeOK
    BY DEF LaneInit, LaneTypeOK, Slots, CycleLength
  <2>2. SlotAt(slot, 0) = slot /\ RunWithout(watched, slot, 0)
    BY <2>1 DEF LaneTypeOK, SlotAt, Slots, CycleLength, RunWithout
  <2>3. waited <= 0
    BY DEF LaneInit
  <2> QED BY <2>1, <2>2, <2>3 DEF GapInv, PassedSlots, LaneTypeOK
<1>2. GapInv /\ [LaneNext]_laneVars => GapInv'
  <2> SUFFICES ASSUME GapInv, [LaneNext]_laneVars PROVE GapInv'
    OBVIOUS
  <2>1. CASE LaneNext
    BY <2>1, LanePreserves DEF LaneNext
  <2>2. CASE UNCHANGED laneVars
    BY <2>2 DEF laneVars, GapInv, LaneTypeOK, PassedSlots, RunWithout
  <2> QED BY <2>1, <2>2
<1> QED BY <1>1, <1>2, PTL DEF LaneSpec

\* Whatever lanes fill and drain between two calls of select_next, and for every
\* cycle the policy generator accepts, a lane that stays ready is served within its
\* service gap.
THEOREM NoStarvation == LaneSpec => []ServedWithinGap
  BY GapInvariance, RunsAreShort, PTL

-----------------------------------------------------------------------------
(* The connection. *)

\* A truth value as a number.
B(b) == IF b THEN 1 ELSE 0

\* Where the acknowledgements are that were accepted and not yet written.
AckLedger ==
  ~Done => owed = control + B(pendingAck) + B(pc = "sending" /\ frame = "ack")

\* Between looking at the queue and sending from it, the reader does not run.
OpenInput ==
  /\ pc \in {"pop", "untoken", "check"} => ~ReadFinished
  /\ pc \in {"pop", "untoken"} => frame \in {"ui", "resource"}

\* The terminal state is published before the token that announces it.
CancelAfterClose == cancelled \/ hub = "cancel" => closed

\* Behind the gate there is no catch-up frame left; before it, no live one.
CatchUpGate ==
  IF released
  THEN catchUp = <<>> /\ ~(pc = "sending" /\ frame = "catchUp")
  ELSE live = 0 /\ ~pendingHigh

IInv ==
  /\ TypeOK
  /\ NoLostWakeup
  /\ CancelAfterClose
  /\ LaggedMeansOverflow
  /\ AckLedger
  /\ OpenInput
  /\ AcksDrained
  /\ CatchUpGate

-----------------------------------------------------------------------------
\* Queueing a transaction for a parked writer leaves the hub about to notify it.
LEMMA PublishQueuesPreserves == IInv /\ PublishQueues => IInv'
<1> SUFFICES ASSUME IInv, PublishQueues PROVE IInv'
  OBVIOUS
<1> USE CapacitiesAssumption, MaxResourcesAssumption DEF IInv, PublishQueues, queueVars, readerVars, terminalVars, writerVars
<1>1. TypeOK'
  BY DEF TypeOK, AckLedger, B, Steps, Frames, Done
<1>2. NoLostWakeup'
  BY DEF TypeOK, NoLostWakeup, HasScheduledWork
<1>3. CancelAfterClose' /\ LaggedMeansOverflow'
  BY DEF CancelAfterClose, LaggedMeansOverflow
<1>4. AckLedger' /\ OpenInput' /\ AcksDrained'
  BY DEF TypeOK, AckLedger, OpenInput, AcksDrained, B, Done, ReadFinished, AtAwait
<1>5. CatchUpGate'
  BY DEF TypeOK, CatchUpGate
<1> QED BY <1>1, <1>2, <1>3, <1>4, <1>5

\* An overflow clears the queue and leaves the hub about to cancel the token.
LEMMA PublishOverflowsPreserves == IInv /\ PublishOverflows => IInv'
<1> SUFFICES ASSUME IInv, PublishOverflows PROVE IInv'
  OBVIOUS
<1> USE CapacitiesAssumption, MaxResourcesAssumption DEF IInv, PublishOverflows, queueVars, readerVars, terminalVars, writerVars
<1>1. TypeOK'
  <2> USE DEF TypeOK
  <2>1. closed' \in BOOLEAN /\ stale' \in BOOLEAN /\ subscribed' \in BOOLEAN
    OBVIOUS
  <2>2. ui' \in 0 .. Capacity /\ res' \in 0 .. MaxResources /\ hub' \in {"idle", "notify", "cancel"}
    OBVIOUS
  <2> QED BY <2>1, <2>2
<1>2. NoLostWakeup'
  BY DEF TypeOK, NoLostWakeup, HasScheduledWork
<1>3. CancelAfterClose' /\ LaggedMeansOverflow'
  BY DEF CancelAfterClose, LaggedMeansOverflow
<1>4. AckLedger' /\ OpenInput' /\ AcksDrained'
  BY DEF TypeOK, AckLedger, OpenInput, AcksDrained, B, Done, ReadFinished, AtAwait
<1>5. CatchUpGate'
  BY DEF TypeOK, CatchUpGate
<1> QED BY <1>1, <1>2, <1>3, <1>4, <1>5

\* After try_send there is a token, also when the channel was full.
LEMMA NotifyPreserves == IInv /\ Notify => IInv'
<1> SUFFICES ASSUME IInv, Notify PROVE IInv'
  OBVIOUS
<1> USE CapacitiesAssumption, MaxResourcesAssumption DEF IInv, Notify, Notified, queueVars, readerVars, terminalVars, writerVars
<1>1. TypeOK'
  BY DEF TypeOK, AckLedger, B, Steps, Frames, Done
<1>2. NoLostWakeup'
  BY DEF TypeOK, NoLostWakeup, HasScheduledWork
<1>3. CancelAfterClose' /\ LaggedMeansOverflow'
  BY DEF CancelAfterClose, LaggedMeansOverflow
<1>4. AckLedger' /\ OpenInput' /\ AcksDrained'
  BY DEF TypeOK, AckLedger, OpenInput, AcksDrained, B, Done, ReadFinished, AtAwait
<1>5. CatchUpGate'
  BY DEF TypeOK, CatchUpGate
<1> QED BY <1>1, <1>2, <1>3, <1>4, <1>5

\* The token is cancelled once the queue is closed.
LEMMA CancelPreserves == IInv /\ Cancel => IInv'
<1> SUFFICES ASSUME IInv, Cancel PROVE IInv'
  OBVIOUS
<1> USE CapacitiesAssumption, MaxResourcesAssumption DEF IInv, Cancel, queueVars, readerVars, terminalVars, writerVars
<1>1. TypeOK'
  BY DEF TypeOK, AckLedger, B, Steps, Frames, Done
<1>2. NoLostWakeup'
  BY DEF TypeOK, NoLostWakeup, HasScheduledWork
<1>3. CancelAfterClose' /\ LaggedMeansOverflow'
  BY DEF CancelAfterClose, LaggedMeansOverflow
<1>4. AckLedger' /\ OpenInput' /\ AcksDrained'
  BY DEF TypeOK, AckLedger, OpenInput, AcksDrained, B, Done, ReadFinished, AtAwait
<1>5. CatchUpGate'
  BY DEF TypeOK, CatchUpGate
<1> QED BY <1>1, <1>2, <1>3, <1>4, <1>5

\* A queued resource comes with its token.
LEMMA PublishResourcePreserves == IInv /\ PublishResource => IInv'
<1> SUFFICES ASSUME IInv, PublishResource PROVE IInv'
  OBVIOUS
<1> USE CapacitiesAssumption, MaxResourcesAssumption DEF IInv, PublishResource, Notified, queueVars, readerVars, terminalVars, writerVars
<1>1. TypeOK'
  BY DEF TypeOK, AckLedger, B, Steps, Frames, Done
<1>2. NoLostWakeup'
  BY DEF TypeOK, NoLostWakeup, HasScheduledWork
<1>3. CancelAfterClose' /\ LaggedMeansOverflow'
  BY DEF CancelAfterClose, LaggedMeansOverflow
<1>4. AckLedger' /\ OpenInput' /\ AcksDrained'
  BY DEF TypeOK, AckLedger, OpenInput, AcksDrained, B, Done, ReadFinished, AtAwait
<1>5. CatchUpGate'
  BY DEF TypeOK, CatchUpGate
<1> QED BY <1>1, <1>2, <1>3, <1>4, <1>5

\* Closing leaves the queue drainable and the hub about to cancel the token.
LEMMA CloseHubPreserves == IInv /\ CloseHub => IInv'
<1> SUFFICES ASSUME IInv, CloseHub PROVE IInv'
  OBVIOUS
<1> USE CapacitiesAssumption, MaxResourcesAssumption DEF IInv, CloseHub, queueVars, readerVars, terminalVars, writerVars
<1>1. TypeOK'
  <2> USE DEF TypeOK
  <2>1. closed' \in BOOLEAN /\ stale' \in BOOLEAN /\ subscribed' \in BOOLEAN
    OBVIOUS
  <2>2. ui' \in 0 .. Capacity /\ res' \in 0 .. MaxResources /\ hub' \in {"idle", "notify", "cancel"}
    OBVIOUS
  <2> QED BY <2>1, <2>2
<1>2. NoLostWakeup'
  BY DEF TypeOK, NoLostWakeup, HasScheduledWork
<1>3. CancelAfterClose' /\ LaggedMeansOverflow'
  BY DEF CancelAfterClose, LaggedMeansOverflow
<1>4. AckLedger' /\ OpenInput' /\ AcksDrained'
  BY DEF TypeOK, AckLedger, OpenInput, AcksDrained, B, Done, ReadFinished, AtAwait
<1>5. CatchUpGate'
  BY DEF TypeOK, CatchUpGate
<1> QED BY <1>1, <1>2, <1>3, <1>4, <1>5

\* An event being processed owes no acknowledgement yet.
LEMMA ReceiveEventPreserves == IInv /\ ReceiveEvent => IInv'
<1> SUFFICES ASSUME IInv, ReceiveEvent PROVE IInv'
  OBVIOUS
<1> USE CapacitiesAssumption, MaxResourcesAssumption DEF IInv, ReceiveEvent, queueVars, readerVars, terminalVars, writerVars
<1>1. TypeOK'
  BY DEF TypeOK, AckLedger, B, Steps, Frames, Done
<1>2. NoLostWakeup'
  BY DEF TypeOK, NoLostWakeup, HasScheduledWork
<1>3. CancelAfterClose' /\ LaggedMeansOverflow'
  BY DEF CancelAfterClose, LaggedMeansOverflow
<1>4. AckLedger' /\ OpenInput' /\ AcksDrained'
  BY DEF TypeOK, AckLedger, OpenInput, AcksDrained, B, Done, ReadFinished, AtAwait
<1>5. CatchUpGate'
  BY DEF TypeOK, CatchUpGate
<1> QED BY <1>1, <1>2, <1>3, <1>4, <1>5

\* An accepted acknowledgement is in the channel and owed.
LEMMA SendAckPreserves == IInv /\ SendAck => IInv'
<1> SUFFICES ASSUME IInv, SendAck PROVE IInv'
  OBVIOUS
<1> USE CapacitiesAssumption, MaxResourcesAssumption DEF IInv, SendAck, queueVars, readerVars, terminalVars, writerVars
<1>1. TypeOK'
  BY DEF TypeOK, AckLedger, B, Steps, Frames, Done
<1>2. NoLostWakeup'
  BY DEF TypeOK, NoLostWakeup, HasScheduledWork
<1>3. CancelAfterClose' /\ LaggedMeansOverflow'
  BY DEF CancelAfterClose, LaggedMeansOverflow
<1>4. AckLedger' /\ OpenInput' /\ AcksDrained'
  BY DEF TypeOK, AckLedger, OpenInput, AcksDrained, B, Done, ReadFinished, AtAwait
<1>5. CatchUpGate'
  BY DEF TypeOK, CatchUpGate
<1> QED BY <1>1, <1>2, <1>3, <1>4, <1>5

\* The input ends only where the writer awaits, never between its look at a lane and the frame it takes.
LEMMA ReadEndsPreserves == IInv /\ ReadEnds => IInv'
<1> SUFFICES ASSUME IInv, ReadEnds PROVE IInv'
  OBVIOUS
<1> USE CapacitiesAssumption, MaxResourcesAssumption DEF IInv, ReadEnds, queueVars, readerVars, terminalVars, writerVars
<1>1. TypeOK'
  BY DEF TypeOK, AckLedger, B, Steps, Frames, Done
<1>2. NoLostWakeup'
  BY DEF TypeOK, NoLostWakeup, HasScheduledWork
<1>3. CancelAfterClose' /\ LaggedMeansOverflow'
  BY DEF CancelAfterClose, LaggedMeansOverflow
<1>4. AckLedger' /\ OpenInput' /\ AcksDrained'
  BY DEF TypeOK, AckLedger, OpenInput, AcksDrained, B, Done, ReadFinished, AtAwait
<1>5. CatchUpGate'
  BY DEF TypeOK, CatchUpGate
<1> QED BY <1>1, <1>2, <1>3, <1>4, <1>5

\* The pump stages live output only behind the gate.
LEMMA PumpLivePreserves == IInv /\ PumpLive => IInv'
<1> SUFFICES ASSUME IInv, PumpLive PROVE IInv'
  OBVIOUS
<1> USE CapacitiesAssumption, MaxResourcesAssumption DEF IInv, PumpLive, queueVars, readerVars, terminalVars, writerVars
<1>1. TypeOK'
  BY DEF TypeOK, AckLedger, B, Steps, Frames, Done
<1>2. NoLostWakeup'
  BY DEF TypeOK, NoLostWakeup, HasScheduledWork
<1>3. CancelAfterClose' /\ LaggedMeansOverflow'
  BY DEF CancelAfterClose, LaggedMeansOverflow
<1>4. AckLedger' /\ OpenInput' /\ AcksDrained'
  BY DEF TypeOK, AckLedger, OpenInput, AcksDrained, B, Done, ReadFinished, AtAwait
<1>5. CatchUpGate'
  BY DEF TypeOK, CatchUpGate
<1> QED BY <1>1, <1>2, <1>3, <1>4, <1>5

\* Shutdown excuses what it interrupts.
LEMMA ShutdownPreserves == IInv /\ Shutdown => IInv'
<1> SUFFICES ASSUME IInv, Shutdown PROVE IInv'
  OBVIOUS
<1> USE CapacitiesAssumption, MaxResourcesAssumption DEF IInv, Shutdown, queueVars, readerVars, terminalVars, writerVars
<1>1. TypeOK'
  BY DEF TypeOK, AckLedger, B, Steps, Frames, Done
<1>2. NoLostWakeup'
  BY DEF TypeOK, NoLostWakeup, HasScheduledWork
<1>3. CancelAfterClose' /\ LaggedMeansOverflow'
  BY DEF CancelAfterClose, LaggedMeansOverflow
<1>4. AckLedger' /\ OpenInput' /\ AcksDrained'
  BY DEF TypeOK, AckLedger, OpenInput, AcksDrained, B, Done, ReadFinished, AtAwait
<1>5. CatchUpGate'
  BY DEF TypeOK, CatchUpGate
<1> QED BY <1>1, <1>2, <1>3, <1>4, <1>5

\* A written acknowledgement is no longer owed; the gate opens behind the last catch-up frame.
LEMMA SendDonePreserves == IInv /\ SendDone => IInv'
<1> SUFFICES ASSUME IInv, SendDone PROVE IInv'
  OBVIOUS
<1> USE CapacitiesAssumption, MaxResourcesAssumption DEF IInv, SendDone, Goto, CaughtUp, queueVars, readerVars, terminalVars, writerVars
<1>1. TypeOK'
  BY DEF TypeOK, AckLedger, B, Steps, Frames, Done
<1>2. NoLostWakeup'
  BY DEF TypeOK, NoLostWakeup, HasScheduledWork
<1>3. CancelAfterClose' /\ LaggedMeansOverflow'
  BY DEF CancelAfterClose, LaggedMeansOverflow
<1>4. AckLedger' /\ OpenInput' /\ AcksDrained'
  BY DEF TypeOK, AckLedger, OpenInput, AcksDrained, B, Done, ReadFinished, AtAwait
<1>5. CatchUpGate'
  BY DEF TypeOK, CatchUpGate
<1> QED BY <1>1, <1>2, <1>3, <1>4, <1>5

\* Taking a frame out of a channel keeps it pending.
LEMMA TopPullsPreserves == IInv /\ TopPulls => IInv'
<1> SUFFICES ASSUME IInv, TopPulls PROVE IInv'
  OBVIOUS
<1> USE CapacitiesAssumption, MaxResourcesAssumption DEF IInv, TopPulls, TopContinues, TakesAck, TakesHigh, queueVars, readerVars, terminalVars, writerVars
<1>1. TypeOK'
  BY DEF TypeOK, AckLedger, B, Steps, Frames, Done
<1>2. NoLostWakeup'
  BY DEF TypeOK, NoLostWakeup, HasScheduledWork
<1>3. CancelAfterClose' /\ LaggedMeansOverflow'
  BY DEF CancelAfterClose, LaggedMeansOverflow
<1>4. AckLedger' /\ OpenInput' /\ AcksDrained'
  <2>1. pc = "top" /\ pc' = "select" /\ owed' = owed /\ ~Done
    BY DEF Done
  <2>2. owed = control + B(pendingAck)
    BY <2>1 DEF AckLedger, B, TypeOK
  <2>3. control' + B(pendingAck') = control + B(pendingAck)
    <3>1. CASE TakesAck
      <4>1. control' = control - 1 /\ pendingAck = FALSE /\ pendingAck' = TRUE
        BY <3>1 DEF TypeOK
      <4> QED BY <4>1 DEF TypeOK, B
    <3>2. CASE ~TakesAck
      BY <3>2 DEF TypeOK, B
    <3> QED BY <3>1, <3>2
  <2>4. owed' = control' + B(pendingAck') + B(pc' = "sending" /\ frame' = "ack")
    <3>1. control' \in Nat /\ B(pendingAck') \in Nat
      BY <1>1 DEF TypeOK, B
    <3>2. B(pc' = "sending" /\ frame' = "ack") = 0
      BY <2>1 DEF B
    <3> QED BY <2>1, <2>2, <2>3, <3>1, <3>2
  <2> QED BY <2>1, <2>4 DEF AckLedger, OpenInput, AcksDrained, Done
<1>5. CatchUpGate'
  BY DEF TypeOK, CatchUpGate
<1> QED BY <1>1, <1>2, <1>3, <1>4, <1>5

\* A popped frame is in the writer's hands while the input is open.
LEMMA PopItemPreserves == IInv /\ PopItem => IInv'
<1> SUFFICES ASSUME IInv, PopItem PROVE IInv'
  OBVIOUS
<1> USE CapacitiesAssumption, MaxResourcesAssumption DEF IInv, PopItem, Goto, Queued, queueVars, readerVars, terminalVars, writerVars
<1>1. TypeOK'
  BY DEF TypeOK, AckLedger, B, Steps, Frames, Done
<1>2. NoLostWakeup'
  BY DEF TypeOK, NoLostWakeup, HasScheduledWork
<1>3. CancelAfterClose' /\ LaggedMeansOverflow'
  BY DEF CancelAfterClose, LaggedMeansOverflow
<1>4. AckLedger' /\ OpenInput' /\ AcksDrained'
  BY DEF TypeOK, AckLedger, OpenInput, AcksDrained, B, Done, ReadFinished, AtAwait
<1>5. CatchUpGate'
  BY DEF TypeOK, CatchUpGate
<1> QED BY <1>1, <1>2, <1>3, <1>4, <1>5

\* Taking back a wake-up happens only while the writer runs.
LEMMA UntokenPreserves == IInv /\ Untoken => IInv'
<1> SUFFICES ASSUME IInv, Untoken PROVE IInv'
  OBVIOUS
<1> USE CapacitiesAssumption, MaxResourcesAssumption DEF IInv, Untoken, Goto, queueVars, readerVars, terminalVars, writerVars
<1>1. TypeOK'
  BY DEF TypeOK, AckLedger, B, Steps, Frames, Done
<1>2. NoLostWakeup'
  BY DEF TypeOK, NoLostWakeup, HasScheduledWork
<1>3. CancelAfterClose' /\ LaggedMeansOverflow'
  BY DEF CancelAfterClose, LaggedMeansOverflow
<1>4. AckLedger' /\ OpenInput' /\ AcksDrained'
  BY DEF TypeOK, AckLedger, OpenInput, AcksDrained, B, Done, ReadFinished, AtAwait
<1>5. CatchUpGate'
  BY DEF TypeOK, OpenInput, CatchUpGate
<1> QED BY <1>1, <1>2, <1>3, <1>4, <1>5

\* A yield keeps everything.
LEMMA YieldPreserves == IInv /\ Yield => IInv'
<1> SUFFICES ASSUME IInv, Yield PROVE IInv'
  OBVIOUS
<1> USE CapacitiesAssumption, MaxResourcesAssumption DEF IInv, Yield, Goto, queueVars, readerVars, terminalVars, writerVars
<1>1. TypeOK'
  BY DEF TypeOK, AckLedger, B, Steps, Frames, Done
<1>2. NoLostWakeup'
  BY DEF TypeOK, NoLostWakeup, HasScheduledWork
<1>3. CancelAfterClose' /\ LaggedMeansOverflow'
  BY DEF CancelAfterClose, LaggedMeansOverflow
<1>4. AckLedger' /\ OpenInput' /\ AcksDrained'
  BY DEF TypeOK, AckLedger, OpenInput, AcksDrained, B, Done, ReadFinished, AtAwait
<1>5. CatchUpGate'
  BY DEF TypeOK, CatchUpGate
<1> QED BY <1>1, <1>2, <1>3, <1>4, <1>5

\* A writer that goes to wait keeps everything.
LEMMA ParkWaitsPreserves == IInv /\ ParkWaits => IInv'
<1> SUFFICES ASSUME IInv, ParkWaits PROVE IInv'
  OBVIOUS
<1> USE CapacitiesAssumption, MaxResourcesAssumption DEF IInv, ParkWaits, Goto, queueVars, readerVars, terminalVars, writerVars
<1>1. TypeOK'
  BY DEF TypeOK, AckLedger, B, Steps, Frames, Done
<1>2. NoLostWakeup'
  BY DEF TypeOK, NoLostWakeup, HasScheduledWork
<1>3. CancelAfterClose' /\ LaggedMeansOverflow'
  BY DEF CancelAfterClose, LaggedMeansOverflow
<1>4. AckLedger' /\ OpenInput' /\ AcksDrained'
  BY DEF TypeOK, AckLedger, OpenInput, AcksDrained, B, Done, ReadFinished, AtAwait
<1>5. CatchUpGate'
  BY DEF TypeOK, CatchUpGate
<1> QED BY <1>1, <1>2, <1>3, <1>4, <1>5

\* The end of the input wakes the writer and changes nothing else.
LEMMA ArmReadFinishedPreserves == IInv /\ ArmReadFinished => IInv'
<1> SUFFICES ASSUME IInv, ArmReadFinished PROVE IInv'
  OBVIOUS
<1> USE CapacitiesAssumption, MaxResourcesAssumption DEF IInv, ArmReadFinished, Goto, NoEndArm, Polls, queueVars, readerVars, terminalVars, writerVars
<1>1. TypeOK'
  BY DEF TypeOK, AckLedger, B, Steps, Frames, Done
<1>2. NoLostWakeup'
  BY DEF TypeOK, NoLostWakeup, HasScheduledWork
<1>3. CancelAfterClose' /\ LaggedMeansOverflow'
  BY DEF CancelAfterClose, LaggedMeansOverflow
<1>4. AckLedger' /\ OpenInput' /\ AcksDrained'
  BY DEF TypeOK, AckLedger, OpenInput, AcksDrained, B, Done, ReadFinished, AtAwait
<1>5. CatchUpGate'
  BY DEF TypeOK, CatchUpGate
<1> QED BY <1>1, <1>2, <1>3, <1>4, <1>5

\* A closed hub wakes the writer and changes nothing else.
LEMMA ArmClosedPreserves == IInv /\ ArmClosed => IInv'
<1> SUFFICES ASSUME IInv, ArmClosed PROVE IInv'
  OBVIOUS
<1> USE CapacitiesAssumption, MaxResourcesAssumption DEF IInv, ArmClosed, NoEndArm, Polls, queueVars, readerVars, terminalVars, writerVars
<1>1. TypeOK'
  BY DEF TypeOK, AckLedger, B, Steps, Frames, Done
<1>2. NoLostWakeup'
  BY DEF TypeOK, NoLostWakeup, HasScheduledWork
<1>3. CancelAfterClose' /\ LaggedMeansOverflow'
  BY DEF CancelAfterClose, LaggedMeansOverflow
<1>4. AckLedger' /\ OpenInput' /\ AcksDrained'
  BY DEF TypeOK, AckLedger, OpenInput, AcksDrained, B, Done, ReadFinished, AtAwait
<1>5. CatchUpGate'
  BY DEF TypeOK, CatchUpGate
<1> QED BY <1>1, <1>2, <1>3, <1>4, <1>5

\* An acknowledgement that wakes the writer stays owed.
LEMMA ArmAckPreserves == IInv /\ ArmAck => IInv'
<1> SUFFICES ASSUME IInv, ArmAck PROVE IInv'
  OBVIOUS
<1> USE CapacitiesAssumption, MaxResourcesAssumption DEF IInv, ArmAck, NoTokenArm, NoEndArm, Polls, TakesAck, queueVars, readerVars, terminalVars, writerVars
<1>1. TypeOK'
  BY DEF TypeOK, AckLedger, B, Steps, Frames, Done
<1>2. NoLostWakeup'
  BY DEF TypeOK, NoLostWakeup, HasScheduledWork
<1>3. CancelAfterClose' /\ LaggedMeansOverflow'
  BY DEF CancelAfterClose, LaggedMeansOverflow
<1>4. AckLedger' /\ OpenInput' /\ AcksDrained'
  BY DEF TypeOK, AckLedger, OpenInput, AcksDrained, B, Done, ReadFinished, AtAwait
<1>5. CatchUpGate'
  BY DEF TypeOK, CatchUpGate
<1> QED BY <1>1, <1>2, <1>3, <1>4, <1>5

\* Live output that wakes the writer has passed the gate.
LEMMA ArmLivePreserves == IInv /\ ArmLive => IInv'
<1> SUFFICES ASSUME IInv, ArmLive PROVE IInv'
  OBVIOUS
<1> USE CapacitiesAssumption, MaxResourcesAssumption DEF IInv, ArmLive, NoTokenArm, NoEndArm, Polls, TakesHigh, queueVars, readerVars, terminalVars, writerVars
<1>1. TypeOK'
  BY DEF TypeOK, AckLedger, B, Steps, Frames, Done
<1>2. NoLostWakeup'
  BY DEF TypeOK, NoLostWakeup, HasScheduledWork
<1>3. CancelAfterClose' /\ LaggedMeansOverflow'
  BY DEF CancelAfterClose, LaggedMeansOverflow
<1>4. AckLedger' /\ OpenInput' /\ AcksDrained'
  BY DEF TypeOK, AckLedger, OpenInput, AcksDrained, B, Done, ReadFinished, AtAwait
<1>5. CatchUpGate'
  BY DEF TypeOK, CatchUpGate
<1> QED BY <1>1, <1>2, <1>3, <1>4, <1>5

\* A wake-up is consumed only to look at the queue again.
LEMMA ArmWorkPreserves == IInv /\ ArmWork => IInv'
<1> SUFFICES ASSUME IInv, ArmWork PROVE IInv'
  OBVIOUS
<1> USE CapacitiesAssumption, MaxResourcesAssumption DEF IInv, ArmWork, Goto, OnlyWorkArm, NoTokenArm, NoEndArm, Polls, queueVars, readerVars, terminalVars, writerVars
<1>1. TypeOK'
  BY DEF TypeOK, AckLedger, B, Steps, Frames, Done
<1>2. NoLostWakeup'
  BY DEF TypeOK, NoLostWakeup, HasScheduledWork
<1>3. CancelAfterClose' /\ LaggedMeansOverflow'
  BY DEF CancelAfterClose, LaggedMeansOverflow
<1>4. AckLedger' /\ OpenInput' /\ AcksDrained'
  BY DEF TypeOK, AckLedger, OpenInput, AcksDrained, B, Done, ReadFinished, AtAwait
<1>5. CatchUpGate'
  BY DEF TypeOK, CatchUpGate
<1> QED BY <1>1, <1>2, <1>3, <1>4, <1>5

\* The writer parks only after it has seen an open and empty queue.
LEMMA CheckContinuesPreserves == IInv /\ CheckContinues => IInv'
<1> SUFFICES ASSUME IInv, CheckContinues PROVE IInv'
  OBVIOUS
<1> USE CapacitiesAssumption, MaxResourcesAssumption DEF IInv, CheckContinues, HasScheduledWork, queueVars, readerVars, terminalVars, writerVars
<1>1. TypeOK'
  BY DEF TypeOK, AckLedger, B, Steps, Frames, Done
<1>2. NoLostWakeup'
  BY DEF TypeOK, NoLostWakeup
<1>3. CancelAfterClose' /\ LaggedMeansOverflow'
  BY DEF CancelAfterClose, LaggedMeansOverflow
<1>4. AckLedger' /\ OpenInput' /\ AcksDrained'
  BY DEF TypeOK, AckLedger, OpenInput, AcksDrained, B, Done, ReadFinished, AtAwait
<1>5. CatchUpGate'
  BY DEF TypeOK, CatchUpGate
<1> QED BY <1>1, <1>2, <1>3, <1>4, <1>5

\* One selection changes only what the chosen lane requires: an acknowledgement moves
\* from pending to in flight, a catch-up frame leaves its queue with the gate closed.
LEMMA SelectPreserves == IInv /\ Select => IInv'
<1> SUFFICES ASSUME IInv, Select PROVE IInv'
  OBVIOUS
<1> USE DEF IInv, Select, queueVars, readerVars
<1>1. cursor' \in Slots
  BY CursorAfterType DEF TypeOK
<1> HIDE DEF Select
<1>2. /\ pc = "select"
      /\ UNCHANGED <<idle, outcome, released, live, shutdown>>
      /\ UNCHANGED <<ui, res, stale, closed, tokens, cancelled, subscribed, hub>>
      /\ UNCHANGED <<reader, control, owed>>
  BY DEF Select
<1>3. AnyReady(ReadyClasses) => Choice \in ReadyClasses
  <2> SUFFICES ASSUME AnyReady(ReadyClasses) PROVE Choice \in ReadyClasses
    OBVIOUS
  <2>1. StopsAt(cursor, ReadyClasses, Skipped(cursor, ReadyClasses))
    BY ScanStops DEF TypeOK
  <2> QED BY <2>1 DEF StopsAt, Choice, Selected
<1> USE DEF TypeOK, Steps, Frames
<1>4. CASE AnyReady(ReadyClasses) /\ SelectAck
  <2>1. pendingAck /\ pendingAck' = FALSE /\ frame' = "ack" /\ pc' = "sending"
    BY <1>3, <1>4 DEF SelectAck, ReadyClasses
  <2>2. UNCHANGED <<pendingHigh, catchUp>>
    BY <1>4 DEF SelectAck
  <2>3. TypeOK'
    <3>1. frame' \in Frames /\ pc' \in Steps /\ pendingAck' \in BOOLEAN
      BY <2>1
    <3> QED BY <1>1, <1>2, <2>2, <3>1
  <2>4. NoLostWakeup' /\ CancelAfterClose' /\ LaggedMeansOverflow' /\ OpenInput' /\ AcksDrained'
    BY <1>2, <2>1 DEF NoLostWakeup, CancelAfterClose, LaggedMeansOverflow, OpenInput, AcksDrained, Done
  <2>5. AckLedger'
    BY <1>2, <2>1 DEF AckLedger, B, Done
  <2>6. CatchUpGate'
    BY <1>2, <2>1, <2>2 DEF CatchUpGate
  <2> QED BY <2>3, <2>4, <2>5, <2>6
<1>5. CASE AnyReady(ReadyClasses) /\ SelectTerminal
  <2>1. ~ReadFinished /\ pc' = "sending" /\ pendingAck' = pendingAck
    BY <1>3, <1>5 DEF SelectTerminal, IsTerminal, ReadyClasses
  <2>2. \/ /\ catchUp # <<>> /\ catchUp' = Tail(catchUp)
           /\ frame' = "catchUp" /\ pendingHigh' = pendingHigh
        \/ catchUp' = catchUp /\ frame' = "live" /\ pendingHigh' = FALSE
    BY <1>5 DEF SelectTerminal
  <2>3. TypeOK'
    <3>1. catchUp' \in Seq({"terminalHigh", "terminalNormal"})
      BY <2>2
    <3>2. frame' \in Frames /\ pendingHigh' \in BOOLEAN /\ pc' \in Steps
      BY <2>1, <2>2
    <3> QED BY <1>1, <1>2, <2>1, <3>1, <3>2
  <2>4. NoLostWakeup' /\ CancelAfterClose' /\ LaggedMeansOverflow' /\ OpenInput' /\ AcksDrained'
    BY <1>2, <2>1 DEF NoLostWakeup, CancelAfterClose, LaggedMeansOverflow, OpenInput, AcksDrained, Done
  <2>5. AckLedger'
    BY <1>2, <2>1, <2>2 DEF AckLedger, B, Done
  <2>6. CatchUpGate'
    BY <1>2, <2>1, <2>2 DEF CatchUpGate
  <2> QED BY <2>3, <2>4, <2>5, <2>6
<1>6. CASE AnyReady(ReadyClasses) /\ SelectQueued
  <2>1. ~ReadFinished /\ pc' = "pop" /\ frame' \in {"ui", "resource"}
    BY <1>3, <1>6 DEF SelectQueued, ReadyClasses
  <2>2. UNCHANGED <<pendingAck, pendingHigh, catchUp>>
    BY <1>6 DEF SelectQueued
  <2>3. TypeOK'
    <3>1. frame' \in Frames /\ pc' \in Steps
      BY <2>1
    <3> QED BY <1>1, <1>2, <2>2, <3>1
  <2>4. NoLostWakeup' /\ CancelAfterClose' /\ LaggedMeansOverflow' /\ OpenInput' /\ AcksDrained'
    BY <1>2, <2>1 DEF NoLostWakeup, CancelAfterClose, LaggedMeansOverflow, OpenInput, AcksDrained, Done, ReadFinished
  <2>5. AckLedger' /\ CatchUpGate'
    BY <1>2, <2>1, <2>2 DEF AckLedger, B, Done, CatchUpGate
  <2> QED BY <2>3, <2>4, <2>5
<1>7. CASE pc' = "park" /\ UNCHANGED <<frame, pendingAck, pendingHigh, catchUp>>
  <2>1. TypeOK'
    BY <1>1, <1>2, <1>7
  <2>2. NoLostWakeup' /\ CancelAfterClose' /\ LaggedMeansOverflow' /\ OpenInput' /\ AcksDrained'
    BY <1>2, <1>7 DEF NoLostWakeup, CancelAfterClose, LaggedMeansOverflow, OpenInput, AcksDrained, Done
  <2>3. AckLedger' /\ CatchUpGate'
    BY <1>2, <1>7 DEF AckLedger, B, Done, CatchUpGate
  <2> QED BY <2>1, <2>2, <2>3
<1> QED BY <1>4, <1>5, <1>6, <1>7 DEF Select

\* The writer may end: as lagged only after an overflow, and with nothing owed once the
\* input has ended, unless the write failed or the daemon shuts down.
LEMMA FinishPreserves ==
  ASSUME IInv, ~Done, NEW result \in {"ok", "lagged", "failed"}, Finish(result),
         result = "lagged" => stale,
         ReadFinished /\ ~shutdown /\ result # "failed" => owed = 0
  PROVE  IInv'
<1> USE DEF IInv, Finish, readerVars, terminalVars
<1>1. TypeOK'
  <2> USE MaxResourcesAssumption, CapacitiesAssumption DEF TypeOK, Steps
  <2>1. closed' \in BOOLEAN /\ outcome' \in {"none", "ok", "lagged", "failed"}
    OBVIOUS
  <2>2. ui' \in 0 .. Capacity /\ res' \in 0 .. MaxResources /\ pc' \in Steps
    OBVIOUS
  <2> QED BY <2>1, <2>2
<1>2. NoLostWakeup' /\ CancelAfterClose' /\ LaggedMeansOverflow'
  BY DEF NoLostWakeup, CancelAfterClose, LaggedMeansOverflow
<1>3. AckLedger' /\ OpenInput' /\ AcksDrained'
  BY DEF AckLedger, OpenInput, AcksDrained, Done, ReadFinished
<1>4. CatchUpGate'
  BY DEF CatchUpGate
<1> QED BY <1>1, <1>2, <1>3, <1>4

\* Every way the writer ends meets FinishPreserves: where the input has ended, only the
\* drained control channel, a failed write and shutdown end it.
LEMMA EndsPreserve ==
  IInv /\ (TopEnds \/ TopDrained \/ PopLagged \/ SendAborts \/ ParkEnds
           \/ ArmShutdown \/ ArmLagged \/ CheckLagged) => IInv'
<1>1. ASSUME IInv, TopEnds PROVE IInv'
  BY <1>1, FinishPreserves DEF TopEnds, LagNoticed, Done
<1>2. ASSUME IInv, TopDrained PROVE IInv'
  <2>1. ~Done /\ owed = 0
    BY <1>2 DEF IInv, TopDrained, TopContinues, Drained, AckLedger, B, Done, TypeOK
  <2> QED BY <1>2, <2>1, FinishPreserves DEF TopDrained
<1>3. ASSUME IInv, PopLagged PROVE IInv'
  BY <1>3, FinishPreserves DEF IInv, PopLagged, OpenInput, Done
<1>4. ASSUME IInv, SendAborts PROVE IInv'
  <2>1. ~Done
    BY <1>4 DEF SendAborts, Done
  <2>2. CASE shutdown /\ Finish("ok")
    BY <1>4, <2>1, <2>2, FinishPreserves
  <2>3. CASE Preempts /\ Finish(TerminationResult)
    <3>1. ~ReadFinished /\ closed
      BY <1>4, <2>3 DEF IInv, Preempts, CancelAfterClose
    <3>2. TerminationResult = IF stale THEN "lagged" ELSE "ok"
      BY <3>1 DEF TerminationResult
    <3> QED BY <1>4, <2>1, <2>3, <3>1, <3>2, FinishPreserves
  <2>4. CASE Finish("failed")
    BY <1>4, <2>1, <2>4, FinishPreserves
  <2> QED BY <1>4, <2>2, <2>3, <2>4 DEF SendAborts
<1>5. ASSUME IInv, ParkEnds PROVE IInv'
  BY <1>5, FinishPreserves DEF ParkEnds, QuietAndClosed, Done
<1>6. ASSUME IInv, ArmShutdown PROVE IInv'
  BY <1>6, FinishPreserves DEF ArmShutdown, Polls, Done
<1>7. ASSUME IInv, ArmLagged PROVE IInv'
  <2>1. ~Done /\ ~ReadFinished /\ closed
    BY <1>7 DEF IInv, ArmLagged, NoEndArm, Polls, Done, DisconnectArm, CancelAfterClose
  <2>2. stale
    BY <1>7, <2>1 DEF ArmLagged, TerminationResult
  <2> QED BY <1>7, <2>1, <2>2, FinishPreserves DEF ArmLagged
<1>8. ASSUME IInv, CheckLagged PROVE IInv'
  BY <1>8, FinishPreserves DEF IInv, CheckLagged, OpenInput, Done
<1> QED BY <1>1, <1>2, <1>3, <1>4, <1>5, <1>6, <1>7, <1>8

-----------------------------------------------------------------------------
\* Every step of the connection, of its reader, its terminal pump and the hub preserves
\* the inductive invariant.
LEMMA Inductive == Spec => []IInv
<1>1. Init => IInv
  <2> SUFFICES ASSUME Init PROVE IInv
    OBVIOUS
  <2> USE DEF Init
  <2>1. TypeOK
    <3>1. ui \in 0 .. Capacity /\ res \in 0 .. MaxResources /\ tokens \in 0 .. Capacity
      BY CapacitiesAssumption, MaxResourcesAssumption
    <3>2. control \in 0 .. ControlCapacity /\ owed \in Nat /\ live \in 0 .. LaneCapacity
      BY CapacitiesAssumption
    <3>3. catchUp \in Seq({"terminalHigh", "terminalNormal"}) /\ released \in BOOLEAN
      BY CatchUpsAssumption
    <3>4. pc \in Steps /\ cursor \in Slots /\ frame \in Frames
      BY DEF Steps, Frames, Slots, CycleLength
    <3> QED BY <3>1, <3>2, <3>3, <3>4 DEF TypeOK
  <2>2. NoLostWakeup /\ CancelAfterClose /\ LaggedMeansOverflow /\ OpenInput /\ AcksDrained
    BY DEF NoLostWakeup, CancelAfterClose, LaggedMeansOverflow, OpenInput, AcksDrained, Done
  <2>3. AckLedger
    BY DEF AckLedger, B
  <2>4. CatchUpGate
    <3>1. CASE catchUp = <<>>
      BY <3>1 DEF CatchUpGate
    <3>2. CASE catchUp # <<>>
      BY <3>2 DEF CatchUpGate
    <3> QED BY <3>1, <3>2
  <2> QED BY <2>1, <2>2, <2>3, <2>4 DEF IInv
<1>2. IInv /\ [Next]_vars => IInv'
  <2>1. IInv /\ Next => IInv'
    BY SelectPreserves, EndsPreserve,
       PublishQueuesPreserves, PublishOverflowsPreserves, NotifyPreserves,
       CancelPreserves, PublishResourcePreserves, CloseHubPreserves,
       ReceiveEventPreserves, SendAckPreserves, ReadEndsPreserves,
       PumpLivePreserves, ShutdownPreserves, SendDonePreserves, TopPullsPreserves,
       PopItemPreserves, UntokenPreserves, YieldPreserves, ParkWaitsPreserves,
       ArmReadFinishedPreserves, ArmClosedPreserves, ArmAckPreserves,
       ArmLivePreserves, ArmWorkPreserves, CheckContinuesPreserves
       DEF Next, Hub, Reader, Send, Writer
  <2>2. IInv /\ UNCHANGED vars => IInv'
    BY DEF IInv, vars, queueVars, readerVars, terminalVars, writerVars, TypeOK, NoLostWakeup,
           CancelAfterClose, LaggedMeansOverflow, AckLedger, OpenInput, AcksDrained,
           CatchUpGate, HasScheduledWork, B, Done, ReadFinished
  <2> QED BY <2>1, <2>2
<1> QED BY <1>1, <1>2, PTL DEF Spec

\* The connection never leaves its types; in particular the queue, the notify and the
\* control channel keep their capacities.
THEOREM TypeCorrect == Spec => []TypeOK
  BY Inductive, PTL DEF IInv

\* For every capacity and every interleaving with the hub, a parked writer is woken.
THEOREM WakeupsAreNotLost == Spec => []NoLostWakeup
  BY Inductive, PTL DEF IInv

\* A clean close of the hub is never reported as a lagged queue.
THEOREM CloseIsNotLag == Spec => []LaggedMeansOverflow
  BY Inductive, PTL DEF IInv

\* After a half-close every accepted acknowledgement is written before the end.
THEOREM HalfCloseDrains == Spec => []AcksDrained
  BY Inductive, PTL DEF IInv

\* No live terminal frame is staged before the last catch-up frame is on the wire.
THEOREM ReplayBeforeLive == Spec => []CatchUpFirst
<1>1. IInv => CatchUpFirst
  BY DEF IInv, CatchUpGate, CatchUpFirst, TypeOK
<1> QED BY <1>1, Inductive, PTL
=============================================================================
