-------------------------- MODULE ConnectionWriter --------------------------
(***************************************************************************)
(* One active connection of the daemon: the writer future, the read future   *)
(* that hands it acknowledgements, the pump that hands it live terminal      *)
(* output, and the hub that fills its queue from other threads.              *)
(*                                                                         *)
(* The reader and the writer are futures of one task: the reader runs only   *)
(* where the writer awaits.  The hub's threads run between any two locks the  *)
(* writer takes, so every lock is a step of its own.  Frames are counted,    *)
(* not carried: what they say is SessionSync's subject.  A publication that   *)
(* is absorbed into the unsent tail changes nothing here.                     *)
(***************************************************************************)
EXTENDS ChannelScheduler, Sequences

CONSTANTS
  Capacity,          \* outbound_queue_capacity; the notify channel is as long
  ControlCapacity,   \* CONTROL_CHANNEL_CAPACITY
  LaneCapacity,      \* TERMINAL_LANE_CAPACITY
  CatchUps,          \* terminal catch-up sequences a handshake may prepare
  MaxResources       \* resource frames queued at once (bounds the model only)

ASSUME CapacitiesAssumption ==
  /\ Capacity \in Nat \ {0}
  /\ ControlCapacity \in Nat \ {0}
  /\ LaneCapacity \in Nat \ {0}

ASSUME CatchUpsAssumption == CatchUps \subseteq Seq({"terminalHigh", "terminalNormal"})

ASSUME MaxResourcesAssumption == MaxResources \in Nat

VARIABLES
  \* SubscriberState, behind its lock
  ui, res,           \* queued transactions and resource frames
  stale, closed,     \* stale_reason is set; is_closed
  tokens,            \* wake-ups in the notify channel
  cancelled,         \* the disconnect token
  subscribed,        \* the hub still lists this subscriber
  hub,               \* what the thread inside the hub does next
  \* the read future
  reader,            \* "reading", "acking" (waits for room) or "finished"
  control,           \* acknowledgements in the control channel
  owed,              \* acknowledgements accepted by it and not yet written
  \* terminal lanes
  catchUp,           \* catch-up frames still to be written
  released,          \* the live pump may start
  live,              \* live frames in the high lane
  \* the write future
  pc, cursor,        \* where it is; the scheduler's cursor
  frame,             \* the frame it is sending
  pendingAck, pendingHigh,
  idle,              \* outbound_idle
  outcome,           \* how it ended
  shutdown           \* the daemon's shutdown token

queueVars == <<ui, res, stale, closed, tokens, cancelled, subscribed, hub>>
readerVars == <<reader, control, owed>>
terminalVars == <<catchUp, released, live>>
writerVars == <<pc, cursor, frame, pendingAck, pendingHigh, idle, outcome>>
vars == <<queueVars, readerVars, terminalVars, writerVars, shutdown>>

Steps == {"top", "select", "pop", "untoken", "sending", "yield", "park", "poll", "check",
          "parked", "done"}
Frames == {"none", "ack", "ui", "resource", "catchUp", "live"}

ReadFinished == reader = "finished"
Done == pc = "done"
HasScheduledWork == ui > 0 \/ res > 0
AtAwait == pc \in {"sending", "yield", "parked"}

Init ==
  /\ ui = 0 /\ res = 0 /\ tokens = 0 /\ hub = "idle"
  /\ stale = FALSE /\ closed = FALSE /\ cancelled = FALSE /\ subscribed = TRUE
  /\ reader = "reading" /\ control = 0 /\ owed = 0
  /\ catchUp \in CatchUps /\ released = (catchUp = <<>>) /\ live = 0
  /\ pc = "top" /\ cursor = 0 /\ frame = "none" /\ outcome = "none"
  /\ pendingAck = FALSE /\ pendingHigh = FALSE /\ idle = FALSE
  /\ shutdown = FALSE

-----------------------------------------------------------------------------
(* The hub: one thread at a time, it holds the lock on the subscribers.      *)

\* try_send: a full channel already holds a wake-up.
Notified == IF tokens < Capacity THEN tokens + 1 ELSE tokens

\* publish: the transaction is queued, or the queue overflows and is cleared.
PublishQueues ==
  /\ hub = "idle" /\ subscribed /\ ~Done
  /\ ui < Capacity
  /\ ui' = ui + 1
  /\ hub' = "notify"
  /\ UNCHANGED <<res, stale, closed, tokens, cancelled, subscribed>>
  /\ UNCHANGED <<readerVars, terminalVars, writerVars, shutdown>>

PublishOverflows ==
  /\ hub = "idle" /\ subscribed /\ ~Done
  /\ ui = Capacity
  /\ ui' = 0 /\ res' = 0 /\ stale' = TRUE /\ closed' = TRUE
  /\ subscribed' = FALSE
  /\ hub' = "cancel"
  /\ UNCHANGED <<tokens, cancelled, readerVars, terminalVars, writerVars, shutdown>>

\* A mistake the checks must notice: an absorbing publisher's rule applied to a
\* queued transaction, which then wakes nobody.
NotifyForgotten ==
  /\ hub = "notify"
  /\ hub' = "idle"
  /\ UNCHANGED <<tokens, ui, res, stale, closed, cancelled, subscribed>>
  /\ UNCHANGED <<readerVars, terminalVars, writerVars, shutdown>>

Notify ==
  /\ hub = "notify"
  /\ tokens' = Notified
  /\ hub' = "idle"
  /\ UNCHANGED <<ui, res, stale, closed, cancelled, subscribed>>
  /\ UNCHANGED <<readerVars, terminalVars, writerVars, shutdown>>

\* The token is cancelled after the state lock is released.
Cancel ==
  /\ hub = "cancel"
  /\ cancelled' = TRUE
  /\ hub' = "idle"
  /\ UNCHANGED <<ui, res, stale, closed, tokens, subscribed>>
  /\ UNCHANGED <<readerVars, terminalVars, writerVars, shutdown>>

\* publish_resource wakes the connection under the state lock, also when the resource
\* is too large for this client or already queued.
PublishResource ==
  /\ hub = "idle" /\ subscribed /\ ~Done
  /\ res' \in {res, res + 1} /\ res' <= MaxResources
  /\ tokens' = Notified
  /\ UNCHANGED <<ui, stale, closed, cancelled, subscribed, hub>>
  /\ UNCHANGED <<readerVars, terminalVars, writerVars, shutdown>>

\* A mistake the checks must notice: the connection is woken before the terminal
\* state is published.
CloseCancelsFirst ==
  /\ hub = "idle" /\ subscribed /\ ~Done
  /\ cancelled' = TRUE
  /\ subscribed' = FALSE
  /\ UNCHANGED <<ui, res, stale, closed, tokens, hub>>
  /\ UNCHANGED <<readerVars, terminalVars, writerVars, shutdown>>

\* close: what is queued stays drainable.
CloseHub ==
  /\ hub = "idle" /\ subscribed /\ ~Done
  /\ closed' = TRUE
  /\ subscribed' = FALSE
  /\ hub' = "cancel"
  /\ UNCHANGED <<ui, res, stale, tokens, cancelled>>
  /\ UNCHANGED <<readerVars, terminalVars, writerVars, shutdown>>

-----------------------------------------------------------------------------
(* The read future and the terminal pump.                                    *)

ReceiveEvent ==
  /\ AtAwait /\ reader = "reading"
  /\ reader' = "acking"
  /\ UNCHANGED <<control, owed, queueVars, terminalVars, writerVars, shutdown>>

\* control_tx.send: a full channel holds the reader back, it drops nothing.
SendAck ==
  /\ AtAwait /\ reader = "acking"
  /\ control < ControlCapacity
  /\ control' = control + 1
  /\ owed' = owed + 1
  /\ reader' = "reading"
  /\ UNCHANGED <<queueVars, terminalVars, writerVars, shutdown>>

\* End of the input, a framing or protocol error, or shutdown.
ReadEnds ==
  /\ AtAwait
  /\ reader = "reading" \/ (shutdown /\ reader = "acking")
  /\ reader' = "finished"
  /\ UNCHANGED <<control, owed, queueVars, terminalVars, writerVars, shutdown>>

PumpLive ==
  /\ released /\ ~Done /\ live < LaneCapacity
  /\ live' = live + 1
  /\ UNCHANGED <<catchUp, released, queueVars, readerVars, writerVars, shutdown>>

Shutdown ==
  /\ ~shutdown /\ ~Done
  /\ shutdown' = TRUE
  /\ UNCHANGED <<queueVars, readerVars, terminalVars, writerVars>>

-----------------------------------------------------------------------------
(* The write future.                                                         *)

Goto(step) ==
  /\ pc' = step
  /\ UNCHANGED <<cursor, frame, pendingAck, pendingHigh, idle, outcome>>

\* The future returns and its receiver is dropped: the queue is discarded.
Finish(result) ==
  /\ pc' = "done" /\ outcome' = result
  /\ closed' = TRUE /\ ui' = 0 /\ res' = 0
  /\ UNCHANGED <<stale, tokens, cancelled, subscribed, hub>>
  /\ UNCHANGED <<cursor, frame, pendingAck, pendingHigh, idle>>
  /\ UNCHANGED <<readerVars, terminalVars, shutdown>>

\* A mistake the checks must notice: overflow is noticed only when the writer waits.
LagUnnoticed == FALSE

\* An ended input silences overflow.
LagNoticed == ~ReadFinished /\ stale

\* Before anything else, shutdown and overflow.
TopEnds ==
  /\ pc = "top"
  /\ \/ shutdown /\ Finish("ok")
     \/ ~shutdown /\ LagNoticed /\ Finish("lagged")

TakesAck == ~pendingAck /\ control > 0
TakesHigh == ~pendingHigh /\ live > 0

\* The sender is gone and the channel is empty: no acknowledgement will follow.
Drained == ReadFinished /\ ~pendingAck /\ control = 0

TopContinues == pc = "top" /\ ~shutdown /\ ~LagNoticed

TopDrained == TopContinues /\ Drained /\ Finish("ok")

TopPulls ==
  /\ TopContinues /\ ~Drained
  /\ pendingAck' = (pendingAck \/ TakesAck)
  /\ control' = IF TakesAck THEN control - 1 ELSE control
  /\ pendingHigh' = (pendingHigh \/ TakesHigh)
  /\ live' = IF TakesHigh THEN live - 1 ELSE live
  /\ pc' = "select"
  /\ UNCHANGED <<cursor, frame, idle, outcome, reader, owed, catchUp, released>>
  /\ UNCHANGED <<queueVars, shutdown>>

\* The lanes with a frame; once the input has ended, acknowledgements only.
ReadyClasses ==
  (IF pendingAck THEN {"control"} ELSE {})
  \cup IF ReadFinished THEN {}
       ELSE (IF catchUp # <<>> THEN {Head(catchUp)}
             ELSE IF pendingHigh THEN {"terminalHigh"} ELSE {})
            \cup (IF ui > 0 THEN {"ui"} ELSE {})
            \cup (IF res > 0 THEN {"resource"} ELSE {})

Choice == Selected(cursor, ReadyClasses)
IsTerminal(class) == class \in {"terminalHigh", "terminalNormal"}

SelectAck ==
  /\ Choice = "control"
  /\ pendingAck' = FALSE /\ frame' = "ack" /\ pc' = "sending"
  /\ UNCHANGED <<pendingHigh, catchUp>>

\* take_catch_up, or else the live frame: while catching up, only the class of the
\* next catch-up frame is ready.
SelectTerminal ==
  /\ IsTerminal(Choice)
  /\ \/ /\ catchUp # <<>>
        /\ catchUp' = Tail(catchUp) /\ frame' = "catchUp"
        /\ UNCHANGED pendingHigh
     \/ /\ catchUp = <<>>
        /\ pendingHigh' = FALSE /\ frame' = "live"
        /\ UNCHANGED catchUp
  /\ pc' = "sending"
  /\ UNCHANGED pendingAck

SelectQueued ==
  /\ Choice \in {"ui", "resource"}
  /\ frame' = Choice /\ pc' = "pop"
  /\ UNCHANGED <<pendingAck, pendingHigh, catchUp>>

Select ==
  /\ pc = "select"
  /\ \/ AnyReady(ReadyClasses) /\ (SelectAck \/ SelectTerminal \/ SelectQueued)
     \/ /\ ~AnyReady(ReadyClasses)
        /\ pc' = "park"
        /\ UNCHANGED <<frame, pendingAck, pendingHigh, catchUp>>
  /\ cursor' = CursorAfter(cursor, ReadyClasses)
  /\ UNCHANGED <<idle, outcome, released, live, queueVars, readerVars, shutdown>>

Queued == IF frame = "ui" THEN ui ELSE res

\* try_recv_class under the state lock.  Only the writer takes frames out, and only an
\* overflow clears them, so a lane that was ready is never found empty here.
PopLagged == pc = "pop" /\ stale /\ Finish("lagged")

PopItem ==
  /\ pc = "pop" /\ ~stale /\ Queued > 0
  /\ ui' = IF frame = "ui" THEN ui - 1 ELSE ui
  /\ res' = IF frame = "ui" THEN res ELSE res - 1
  /\ Goto("untoken")
  /\ UNCHANGED <<stale, closed, tokens, cancelled, subscribed, hub>>
  /\ UNCHANGED <<readerVars, terminalVars, shutdown>>

\* After the lock is released, one wake-up is taken back if there is one.
Untoken ==
  /\ pc = "untoken"
  /\ tokens' = IF tokens > 0 THEN tokens - 1 ELSE tokens
  /\ Goto("sending")
  /\ UNCHANGED <<ui, res, stale, closed, cancelled, subscribed, hub>>
  /\ UNCHANGED <<readerVars, terminalVars, shutdown>>

\* A mistake the checks must notice: the gate opens before the last catch-up frame.
CaughtUpEarly == Len(catchUp) <= 1

CaughtUp == catchUp = <<>>

\* The socket takes the frame; the live pump is released behind the last catch-up
\* frame; the task yields.
SendDone ==
  /\ pc = "sending"
  /\ owed' = IF frame = "ack" THEN owed - 1 ELSE owed
  /\ released' = (released \/ CaughtUp)
  /\ Goto("yield")
  /\ UNCHANGED <<reader, control, catchUp, live, queueVars, shutdown>>

\* What a connection woken by the disconnect token makes of its queue.
TerminationResult == IF closed /\ ~stale THEN "ok" ELSE "lagged"

\* A mistake the checks must notice: overflow keeps aborting writes after the input ended.
PreemptsAlways == cancelled

\* Overflow and close abort a blocked write only while the input is open.
Preempts == cancelled /\ ~ReadFinished

\* The socket blocks and a token wins, the write fails, or WRITE_TIMEOUT passes.
SendAborts ==
  /\ pc = "sending"
  /\ \/ shutdown /\ Finish("ok")
     \/ ~shutdown /\ Preempts /\ Finish(TerminationResult)
     \/ Finish("failed")

Yield ==
  /\ pc = "yield"
  /\ Goto("top")
  /\ UNCHANGED <<queueVars, readerVars, terminalVars, shutdown>>

\* Nothing is ready: a closed queue ends the writer, otherwise it waits.
QuietAndClosed == ~ReadFinished /\ ~pendingAck /\ (idle \/ closed) /\ ~HasScheduledWork

ParkEnds == pc = "park" /\ QuietAndClosed /\ Finish("ok")

ParkWaits ==
  /\ pc = "park" /\ ~QuietAndClosed
  /\ Goto("poll")
  /\ UNCHANGED <<queueVars, readerVars, terminalVars, shutdown>>

-----------------------------------------------------------------------------
(* The biased select: the first ready arm wins, at the first poll and at     *)
(* every wake-up.                                                            *)

Polls == pc \in {"poll", "parked"}
NoEndArm == Polls /\ ~shutdown
DisconnectArm == cancelled /\ ~idle
NoTokenArm == NoEndArm /\ ~ReadFinished /\ ~DisconnectArm

ArmShutdown == Polls /\ shutdown /\ Finish("ok")

ArmReadFinished ==
  /\ NoEndArm /\ ReadFinished
  /\ Goto("top")
  /\ UNCHANGED <<queueVars, readerVars, terminalVars, shutdown>>

ArmLagged == NoEndArm /\ ~ReadFinished /\ DisconnectArm /\ TerminationResult = "lagged" /\ Finish("lagged")

ArmClosed ==
  /\ NoEndArm /\ ~ReadFinished /\ DisconnectArm /\ TerminationResult = "ok"
  /\ idle' = ~HasScheduledWork
  /\ pc' = "top"
  /\ UNCHANGED <<cursor, frame, pendingAck, pendingHigh, outcome>>
  /\ UNCHANGED <<queueVars, readerVars, terminalVars, shutdown>>

ArmAck ==
  /\ NoTokenArm /\ TakesAck
  /\ pendingAck' = TRUE /\ control' = control - 1
  /\ pc' = "top"
  /\ UNCHANGED <<cursor, frame, pendingHigh, idle, outcome, reader, owed>>
  /\ UNCHANGED <<queueVars, terminalVars, shutdown>>

ArmLive ==
  /\ NoTokenArm /\ ~TakesAck /\ TakesHigh
  /\ pendingHigh' = TRUE /\ live' = live - 1
  /\ pc' = "top"
  /\ UNCHANGED <<cursor, frame, pendingAck, idle, outcome, catchUp, released>>
  /\ UNCHANGED <<queueVars, readerVars, shutdown>>

OnlyWorkArm == NoTokenArm /\ ~TakesAck /\ ~TakesHigh /\ ~idle

\* wait_for_work looks at the queue when it is first polled and after every token.
ArmWork ==
  /\ OnlyWorkArm
  /\ pc = "parked" => tokens > 0
  /\ tokens' = IF pc = "parked" THEN tokens - 1 ELSE tokens
  /\ Goto("check")
  /\ UNCHANGED <<ui, res, stale, closed, cancelled, subscribed, hub>>
  /\ UNCHANGED <<readerVars, terminalVars, shutdown>>

CheckLagged == pc = "check" /\ stale /\ Finish("lagged")

CheckContinues ==
  /\ pc = "check" /\ ~stale
  /\ pc' = CASE HasScheduledWork -> "yield"
             [] ~HasScheduledWork /\ closed -> "top"
             [] OTHER -> "parked"
  /\ idle' = (idle \/ (~HasScheduledWork /\ closed))
  /\ UNCHANGED <<cursor, frame, pendingAck, pendingHigh, outcome>>
  /\ UNCHANGED <<queueVars, readerVars, terminalVars, shutdown>>

-----------------------------------------------------------------------------
Hub == PublishQueues \/ PublishOverflows \/ Notify \/ Cancel \/ PublishResource \/ CloseHub

Reader == ReceiveEvent \/ SendAck \/ ReadEnds

Send == SendDone \/ SendAborts

Writer ==
  \/ TopEnds \/ TopDrained \/ TopPulls \/ Select \/ PopLagged \/ PopItem \/ Untoken
  \/ Yield \/ ParkEnds \/ ParkWaits
  \/ ArmShutdown \/ ArmReadFinished \/ ArmLagged \/ ArmClosed \/ ArmAck \/ ArmLive \/ ArmWork
  \/ CheckLagged \/ CheckContinues

Next == Hub \/ Reader \/ PumpLive \/ Shutdown \/ Send \/ Writer

Spec == Init /\ [][Next]_vars

\* The runtime polls a ready task, a thread inside the hub leaves it, and a write
\* ends at the latest with WRITE_TIMEOUT.
FairSpec == Spec /\ WF_vars(Writer) /\ WF_vars(Notify \/ Cancel) /\ WF_vars(Send)

-----------------------------------------------------------------------------
\* Type invariant: queue, notify channel, control channel and terminal lane keep the
\* capacities their constructors give them (OutboundHub::subscribe, run_active_session).
TypeOK ==
  /\ ui \in 0 .. Capacity /\ res \in 0 .. MaxResources
  /\ stale \in BOOLEAN /\ closed \in BOOLEAN /\ cancelled \in BOOLEAN /\ subscribed \in BOOLEAN
  /\ tokens \in 0 .. Capacity
  /\ hub \in {"idle", "notify", "cancel"}
  /\ reader \in {"reading", "acking", "finished"}
  /\ control \in 0 .. ControlCapacity /\ owed \in Nat
  /\ catchUp \in Seq({"terminalHigh", "terminalNormal"}) /\ released \in BOOLEAN
  /\ live \in 0 .. LaneCapacity
  /\ pc \in Steps /\ cursor \in Slots /\ frame \in Frames
  /\ pendingAck \in BOOLEAN /\ pendingHigh \in BOOLEAN /\ idle \in BOOLEAN
  /\ outcome \in {"none", "ok", "lagged", "failed"}
  /\ shutdown \in BOOLEAN

\* No lost wake-up: a parked writer whose queue has work, has overflowed or was closed
\* finds a token or the cancelled disconnect token, once the hub's thread has left.
\* Tokens are taken back after the lock is released and dropped when the channel is
\* full, so they do not count the queued items.
NoLostWakeup ==
  pc = "parked" /\ hub = "idle" /\ (HasScheduledWork \/ stale \/ closed)
    => tokens > 0 \/ cancelled

\* A clean shutdown of the hub is never reported as a lagged queue, at whatever point
\* the writer observes it.
LaggedMeansOverflow == outcome = "lagged" => stale

\* When the input has ended, every acknowledgement the control channel accepted is
\* written before the connection closes, overflow or not; only a failed write or the
\* shutdown of the daemon excuses it.
AcksDrained == Done /\ ReadFinished /\ ~shutdown /\ outcome # "failed" => owed = 0

\* Live terminal output is not even staged before the last catch-up frame is on the
\* wire: the client would take it for a reset and drop the replay behind it.
CatchUpFirst ==
  live > 0 \/ pendingHigh => catchUp = <<>> /\ ~(pc = "sending" /\ frame = "catchUp")

\* An overflow detaches the client with the error that says so, unless the input had
\* ended or the daemon is shutting down.
LagIsReported == Done /\ stale /\ ~ReadFinished /\ ~shutdown => outcome \in {"lagged", "failed"}

\* Whatever a lane holds is eventually sent, unless the connection ends first.
Sends(f) == pc = "sending" /\ frame = f
LanesServed ==
  /\ control > 0 ~> Sends("ack") \/ Done
  /\ ui > 0 ~> Sends("ui") \/ Done
  /\ res > 0 ~> Sends("resource") \/ Done

\* An overflow always ends the connection, even when acknowledgements and terminal
\* output never stop; so does closing the hub, unless the client keeps sending events
\* or its terminal keeps writing.
WriterEnds ==
  /\ stale ~> Done
  /\ closed ~> Done \/ reader = "acking" \/ live > 0
=============================================================================
