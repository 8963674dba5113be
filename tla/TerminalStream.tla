--------------------------- MODULE TerminalStream ---------------------------
(***************************************************************************)
(* One terminal of a session: the child process behind a PTY, the reader   *)
(* thread that appends its output to a bounded ring, the command thread    *)
(* that writes input to it, the teardown that kills and reaps both, the    *)
(* subscription a connection takes of the ring, the catch-up gate and the  *)
(* bounded lane in front of the socket, and the client's offset           *)
(* accounting.  A byte is <<incarnation of the server, absolute offset>>,  *)
(* so that a byte shown at a wrong place is a different byte.  What the    *)
(* bytes draw, the redraw hint and the terminal's size are left out.       *)
(***************************************************************************)
EXTENDS Integers, Sequences, SequencesExt

CONSTANTS Capacity,        \* ring_capacity of the TerminalSpec
          FrameMax,        \* MAX_TERMINAL_OUTPUT_FRAME_BYTES
          ReadChunk,       \* PTY_READ_CHUNK
          LaneCapacity,    \* TERMINAL_LANE_CAPACITY
          QueueCapacity,   \* COMMAND_QUEUE_CAPACITY
          WireCapacity,    \* what the socket buffers
          MaxBytes,        \* bound: bytes the child of each incarnation writes, a sequence
          MaxConnects,     \* bound: connections ever made
          MaxInputs        \* bound: commands ever enqueued

ASSUME RingAssumption == /\ Capacity \in Nat \ {0}
                         /\ FrameMax \in Nat \ {0}
                         /\ ReadChunk \in Nat \ {0}

VARIABLES inc,       \* incarnation of the server process
          setup,     \* progress of create_terminal_node
          mapped,    \* the terminal profile is required and has a namespace
          negotiated,\* has_negotiated
          present,   \* the stream is in the PTYManager's table
          ring,      \* OutputRing: [bytes, retained, next]
          watch,     \* the last next_offset sent on the watch channel
          reader,    \* program counter of read_loop; "end" has dropped the watch sender
          child,     \* "running", "exited" (a zombie) or "reaped"
          tty,       \* some process still holds the slave side open
          slot,      \* the ChildSlot: [full, pid, lock]
          sender,    \* command_tx holds the sender
          cmds,      \* the command channel
          cmd,       \* program counter of command_loop
          killer,    \* program counter of kill_and_reap
          conn,      \* the one client's connection: [up, advertised] and the bounds' [made, inputs]
          sub,       \* the TerminalSubscription and its pump
          catchUp,   \* handshake replay or resync not yet on the wire
          lane,      \* the terminalHigh lane
          wire,      \* frames on the socket
          client     \* TerminalSession's StreamState: [inc, next, screen, base]

ptyVars == <<ring, watch>>
procVars == <<reader, child, tty, slot, sender, cmds, cmd, killer>>
setupVars == <<setup, mapped, negotiated, present>>
pathVars == <<sub, catchUp, lane, wire>>
vars == <<inc, setupVars, ptyVars, procVars, conn, pathVars, client>>

----------------------------------------------------------------------------
(* The output ring *)

EmptyRing == [bytes |-> <<>>, retained |-> 0, next |-> 0]

\* What leaves the front of the ring for the rest to fit.
evict_to_capacity(r) ==
    LET over == IF Len(r.bytes) > Capacity THEN Len(r.bytes) - Capacity ELSE 0
    IN  [r EXCEPT !.bytes = SubSeq(@, over + 1, Len(@)), !.retained = @ + over]

append(r, data) ==
    evict_to_capacity([r EXCEPT !.bytes = @ \o data, !.next = @ + Len(data)])

copy_range(r, from, to) == SubSeq(r.bytes, from - r.retained + 1, to - r.retained)

Data(offset, data) == [kind |-> "data", offset |-> offset, data |-> data]
Resync(resume) == [kind |-> "resync", offset |-> resume, data |-> <<>>]

\* [from, to) cut into frames of at most FrameMax bytes.
frame_range(r, from, to) ==
    LET count == (to - from + FrameMax - 1) \div FrameMax
        start(i) == from + (i - 1) * FrameMax
        stop(i) == IF start(i) + FrameMax < to THEN start(i) + FrameMax ELSE to
    IN  [i \in 1 .. count |-> Data(start(i), copy_range(r, start(i), stop(i)))]

\* What a handshake replays: everything from the requested offset, or a resync
\* when that offset is outside the retained window.
subscribe(r, requested) ==
    IF requested > r.next \/ requested < r.retained THEN <<Resync(r.next)>>
    ELSE frame_range(r, requested, r.next)

\* What a subscription drains: new output, or a resync when the ring has
\* evicted bytes it had not drained.
live_events_from_ring(r, cursor) ==
    IF cursor < r.retained THEN <<Resync(r.next)>>
    ELSE IF cursor >= r.next THEN <<>>
    ELSE frame_range(r, cursor, r.next)

----------------------------------------------------------------------------
(* Initial states *)

NoSub == [on |-> FALSE, cursor |-> 0, seen |-> 0, gate |-> FALSE,
          pump |-> "end", pending |-> <<>>]

NoClientState(i) == [inc |-> i, next |-> 0, screen |-> <<>>, base |-> 0]

\* What a server process starts with: a session without the terminal.
Fresh == /\ setup' = "none" /\ mapped' = FALSE /\ negotiated' = FALSE /\ present' = FALSE
         /\ ring' = EmptyRing /\ watch' = 0
         /\ reader' = "end" /\ child' = "reaped" /\ tty' = FALSE
         /\ slot' = [full |-> FALSE, pid |-> FALSE, lock |-> "free"]
         /\ sender' = FALSE /\ cmds' = <<>> /\ cmd' = "end" /\ killer' = "idle"

Init == /\ inc = 1
        /\ setup = "none" /\ mapped = FALSE /\ negotiated = FALSE /\ present = FALSE
        /\ ring = EmptyRing /\ watch = 0
        /\ reader = "end" /\ child = "reaped" /\ tty = FALSE
        /\ slot = [full |-> FALSE, pid |-> FALSE, lock |-> "free"]
        /\ sender = FALSE /\ cmds = <<>> /\ cmd = "end" /\ killer = "idle"
        /\ conn = [up |-> FALSE, advertised |-> FALSE, made |-> 0, inputs |-> 0]
        /\ sub = NoSub /\ catchUp = <<>> /\ lane = <<>> /\ wire = <<>>
        /\ client = NoClientState(1)

----------------------------------------------------------------------------
(* create_terminal_node: type, process, node *)

\* The profile and its namespace are set under the session lock, refused once
\* a client is attached or has negotiated.
PrepareTerminalType ==
    /\ setup = "none" /\ ~conn.up /\ ~negotiated
    /\ setup' = "typed" /\ mapped' = TRUE
    /\ UNCHANGED <<inc, negotiated, present, ptyVars, procVars, conn, pathVars, client>>

SpawnStream ==
    /\ setup = "typed"
    /\ setup' = "spawned" /\ present' = TRUE
    /\ reader' = "read" /\ cmd' = "recv" /\ child' = "running" /\ tty' = TRUE
    /\ slot' = [full |-> TRUE, pid |-> TRUE, lock |-> "free"] /\ sender' = TRUE
    /\ UNCHANGED <<inc, mapped, negotiated, ptyVars, cmds, killer, conn, pathVars, client>>

\* The mapping stays once a handshake may have advertised it.
RollbackTerminalType ==
    mapped' = IF conn.up \/ negotiated \/ present' THEN mapped ELSE FALSE

SpawnFails ==
    /\ setup = "typed"
    /\ setup' = "refused" /\ UNCHANGED present /\ RollbackTerminalType
    /\ UNCHANGED <<inc, negotiated, ptyVars, procVars, conn, pathVars, client>>

NodeCommitted ==
    /\ setup = "spawned"
    /\ setup' = "bound"
    /\ UNCHANGED <<inc, mapped, negotiated, present, ptyVars, procVars, conn, pathVars, client>>

\* The transaction is refused: the stream is closed, which joins its threads,
\* and then the type is rolled back.
NodeRefused ==
    /\ setup = "spawned" /\ killer = "idle"
    /\ setup' = "closing" /\ present' = FALSE /\ killer' = "signal"
    /\ UNCHANGED <<inc, mapped, negotiated, ptyVars, reader, child, tty, slot, sender,
                   cmds, cmd, conn, pathVars, client>>

NodeRolledBack ==
    /\ setup = "closing" /\ killer = "done"
    /\ setup' = "refused" /\ UNCHANGED present /\ RollbackTerminalType
    /\ UNCHANGED <<inc, negotiated, ptyVars, procVars, conn, pathVars, client>>

----------------------------------------------------------------------------
(* The child and the reader thread *)

\* The child ends, by itself or by the signals of kill_and_reap, which reach its
\* process group only: what it left in a group or session of its own may still
\* hold the slave side, and a pty is not hung up before its last holder closes.
Exit == child' = "exited" /\ tty' \in {FALSE, tty}

ChildExits ==
    /\ child = "running" /\ Exit
    /\ UNCHANGED <<inc, setupVars, ptyVars, reader, slot, sender, cmds, cmd, killer,
                   conn, pathVars, client>>

\* The last holder of the slave side closes it: the child, which may go on
\* running, or a process that outlived it.
HoldersLetGo ==
    /\ tty
    /\ tty' = FALSE
    /\ UNCHANGED <<inc, setupVars, ptyVars, reader, child, slot, sender, cmds, cmd, killer,
                   conn, pathVars, client>>

ReaderAppends ==
    /\ reader = "read"
    /\ \E n \in 1 .. ReadChunk :
          /\ ring.next + n <= MaxBytes[inc]
          /\ ring' = append(ring, [i \in 1 .. n |-> <<inc, ring.next + i - 1>>])
    /\ reader' = "send"
    /\ UNCHANGED <<inc, setupVars, watch, child, tty, slot, sender, cmds, cmd, killer,
                   conn, pathVars, client>>

ReaderSends ==
    /\ reader = "send"
    /\ watch' = ring.next /\ reader' = "read"
    /\ UNCHANGED <<inc, setupVars, ring, child, tty, slot, sender, cmds, cmd, killer,
                   conn, pathVars, client>>

ReaderSeesEnd ==
    /\ reader = "read" /\ ~tty
    /\ reader' = "lock"
    /\ UNCHANGED <<inc, setupVars, ptyVars, child, tty, slot, sender, cmds, cmd, killer,
                   conn, pathVars, client>>

\* The slot's lock is held until the child it took has been waited for.
ReaderTakesChild ==
    /\ reader = "lock" /\ slot.lock = "free"
    /\ IF slot.full
       THEN slot' = [slot EXCEPT !.full = FALSE, !.lock = "reader"] /\ reader' = "wait"
       ELSE slot' = slot /\ reader' = "drop"
    /\ UNCHANGED <<inc, setupVars, ptyVars, child, tty, sender, cmds, cmd, killer,
                   conn, pathVars, client>>

ReaderReaps ==
    /\ reader = "wait" /\ child = "exited"
    /\ child' = "reaped" /\ reader' = "drop"
    /\ slot' = [slot EXCEPT !.pid = FALSE, !.lock = "free"]
    /\ UNCHANGED <<inc, setupVars, ptyVars, tty, sender, cmds, cmd, killer,
                   conn, pathVars, client>>

ReaderEnds ==
    /\ reader = "drop"
    /\ sender' = FALSE /\ reader' = "end"
    /\ UNCHANGED <<inc, setupVars, ptyVars, child, tty, slot, cmds, cmd, killer,
                   conn, pathVars, client>>

----------------------------------------------------------------------------
(* Input and the command thread *)

\* A command is dropped when the stream is closed or its queue is full; one for
\* a stream that is gone ends the connection.
try_enqueue(c) ==
    IF ~sender \/ cmd = "end" \/ Len(cmds) >= QueueCapacity THEN cmds ELSE Append(cmds, c)

HandleTerminalCommand(c) ==
    /\ conn.up /\ conn.advertised /\ setup = "bound" /\ present /\ conn.inputs < MaxInputs
    /\ cmds' = try_enqueue(c)
    /\ conn' = [conn EXCEPT !.inputs = @ + 1]
    /\ UNCHANGED <<inc, setupVars, ptyVars, reader, child, tty, slot, sender, cmd, killer,
                   pathVars, client>>

\* Input goes to write_all, which waits for room; a resize is applied at once.
CommandReceived ==
    /\ cmd = "recv" /\ cmds # <<>>
    /\ cmds' = Tail(cmds)
    /\ cmd' = IF Head(cmds) = "input" THEN "write" ELSE "recv"
    /\ UNCHANGED <<inc, setupVars, ptyVars, reader, child, tty, slot, sender, killer,
                   conn, pathVars, client>>

CommandQueueClosed ==
    /\ cmd = "recv" /\ cmds = <<>> /\ ~sender
    /\ cmd' = "end"
    /\ UNCHANGED <<inc, setupVars, ptyVars, reader, child, tty, slot, sender, cmds, killer,
                   conn, pathVars, client>>

InputWritten ==
    /\ cmd = "write" /\ tty
    /\ cmd' = "recv"
    /\ UNCHANGED <<inc, setupVars, ptyVars, reader, child, tty, slot, sender, cmds, killer,
                   conn, pathVars, client>>

\* A write to a hung-up terminal fails: the thread ends with its queue.
WriteFails ==
    /\ cmd = "write" /\ ~tty
    /\ cmd' = "end" /\ cmds' = <<>>
    /\ UNCHANGED <<inc, setupVars, ptyVars, reader, child, tty, slot, sender, killer,
                   conn, pathVars, client>>

----------------------------------------------------------------------------
(* kill_and_reap *)

\* close, close_many or shutdown takes the stream out of the table first.
CloseStream ==
    /\ setup = "bound" /\ present
    /\ present' = FALSE /\ killer' = "signal"
    /\ UNCHANGED <<inc, setup, mapped, negotiated, ptyVars, reader, child, tty, slot, sender,
                   cmds, cmd, conn, pathVars, client>>

\* A mutation: only the child found in its slot is killed.
SignalLeftToKill ==
    /\ killer = "signal"
    /\ sender' = FALSE /\ slot' = [slot EXCEPT !.pid = FALSE]
    /\ killer' = "lock"
    /\ UNCHANGED <<inc, setupVars, ptyVars, reader, child, tty, cmds, cmd, conn, pathVars, client>>

\* The signal goes out without the child's lock: whoever holds that lock is
\* waiting for the child this kills.
KillerSignals ==
    /\ killer = "signal"
    /\ sender' = FALSE /\ slot' = [slot EXCEPT !.pid = FALSE]
    /\ IF slot.pid /\ child = "running" THEN Exit ELSE UNCHANGED <<child, tty>>
    /\ killer' = "lock"
    /\ UNCHANGED <<inc, setupVars, ptyVars, reader, cmds, cmd, conn, pathVars, client>>

KillerTakesChild ==
    /\ killer = "lock" /\ slot.lock = "free"
    /\ IF slot.full
       THEN /\ slot' = [slot EXCEPT !.full = FALSE, !.lock = "killer"] /\ killer' = "wait"
            /\ IF child = "running" THEN Exit ELSE UNCHANGED <<child, tty>>
       ELSE killer' = "joinCmd" /\ UNCHANGED <<slot, child, tty>>
    /\ UNCHANGED <<inc, setupVars, ptyVars, reader, sender, cmds, cmd, conn, pathVars, client>>

KillerReaps ==
    /\ killer = "wait" /\ child = "exited"
    /\ child' = "reaped" /\ slot' = [slot EXCEPT !.lock = "free"] /\ killer' = "joinCmd"
    /\ UNCHANGED <<inc, setupVars, ptyVars, reader, tty, sender, cmds, cmd,
                   conn, pathVars, client>>

KillerJoins ==
    /\ \/ killer = "joinCmd" /\ cmd = "end" /\ killer' = "joinRead"
       \/ killer = "joinRead" /\ reader = "end" /\ killer' = "done"
    /\ UNCHANGED <<inc, setupVars, ptyVars, reader, child, tty, slot, sender, cmds, cmd,
                   conn, pathVars, client>>

----------------------------------------------------------------------------
(* The connection: handshake, gate, pump, writer *)

\* The subscription's cursor is the cut the replay ends at; its receiver has
\* seen none of the values the watch channel was sent.
Subscribed(requested) ==
    LET frames == subscribe(ring, requested)
    IN  /\ catchUp' = frames
        /\ sub' = [on |-> TRUE, cursor |-> ring.next, seen |-> 0, gate |-> frames = <<>>,
                   pump |-> "run", pending |-> <<>>]

\* attach_terminals subscribes what is in the table at that moment.
AttachTerminals(requested) ==
    IF present THEN Subscribed(requested) ELSE catchUp' = <<>> /\ sub' = NoSub

\* A resuming client names its offset; one of an abandoned incarnation, and a
\* fresh one, start over.
Connect ==
    /\ ~conn.up /\ conn.made < MaxConnects
    /\ \E resume \in BOOLEAN :
          LET kept == resume /\ client.inc = inc
          IN  /\ AttachTerminals(IF kept THEN client.next ELSE 0)
              /\ client' = IF kept THEN client ELSE NoClientState(inc)
    /\ conn' = [conn EXCEPT !.up = TRUE, !.advertised = mapped, !.made = @ + 1]
    /\ negotiated' = TRUE /\ lane' = <<>> /\ wire' = <<>>
    /\ UNCHANGED <<inc, setup, mapped, present, ptyVars, procVars>>

Dropped == /\ conn' = [conn EXCEPT !.up = FALSE, !.advertised = FALSE]
           /\ sub' = NoSub /\ catchUp' = <<>> /\ lane' = <<>> /\ wire' = <<>>

Disconnect ==
    /\ conn.up /\ Dropped
    /\ UNCHANGED <<inc, setupVars, ptyVars, procVars, client>>

\* TerminalInput or TerminalResize for a stream that has left the table.
UnknownStream ==
    /\ conn.up /\ conn.advertised /\ ~present /\ setup = "bound" /\ Dropped
    /\ UNCHANGED <<inc, setupVars, ptyVars, procVars, client>>

\* Bounded: a restart after the last connection would show a client nothing.
ServerRestarts ==
    /\ inc < Len(MaxBytes) /\ conn.made < MaxConnects
    /\ inc' = inc + 1 /\ Fresh /\ Dropped
    /\ UNCHANGED client

WriterSendsCatchUp ==
    /\ catchUp # <<>> /\ Len(wire) < WireCapacity
    /\ wire' = Append(wire, Head(catchUp)) /\ catchUp' = Tail(catchUp)
    /\ sub' = [sub EXCEPT !.gate = Tail(catchUp) = <<>>]
    /\ UNCHANGED <<inc, setupVars, ptyVars, procVars, conn, lane, client>>

WriterSendsLive ==
    /\ lane # <<>> /\ Len(wire) < WireCapacity
    /\ wire' = Append(wire, Head(lane)) /\ lane' = Tail(lane)
    /\ UNCHANGED <<inc, setupVars, ptyVars, procVars, conn, sub, catchUp, client>>

\* A mutation: the pump does not wait for the gate.
PumpOpen == sub.pump = "run"

\* The pump leaves the ring alone while the catch-up gate is closed.
PumpReady == sub.pump = "run" /\ sub.gate

\* A mutation: the closed channel is noticed before the ring is drained.
PumpEndsFirst ==
    /\ PumpReady /\ sub.pending = <<>>
    /\ LET events == live_events_from_ring(ring, sub.cursor) IN
       sub' = IF reader = "end" THEN [sub EXCEPT !.pump = "end"]
              ELSE IF events # <<>> THEN [sub EXCEPT !.pending = events, !.cursor = ring.next]
              ELSE [sub EXCEPT !.seen = watch]
    /\ sub' # sub
    /\ UNCHANGED <<inc, setupVars, ptyVars, procVars, conn, catchUp, lane, wire, client>>

\* recv: drain, else take the unseen watch value and look again, else end with
\* the closed channel; otherwise it waits.
PumpReceives ==
    /\ PumpReady /\ sub.pending = <<>>
    /\ LET events == live_events_from_ring(ring, sub.cursor) IN
       \/ /\ events # <<>>
          /\ sub' = [sub EXCEPT !.pending = events, !.cursor = ring.next]
       \/ /\ events = <<>> /\ sub.seen # watch
          /\ sub' = [sub EXCEPT !.seen = watch]
       \/ /\ events = <<>> /\ sub.seen = watch /\ reader = "end"
          /\ sub' = [sub EXCEPT !.pump = "end"]
    /\ UNCHANGED <<inc, setupVars, ptyVars, procVars, conn, catchUp, lane, wire, client>>

PumpSends ==
    /\ sub.pending # <<>> /\ Len(lane) < LaneCapacity
    /\ lane' = Append(lane, Head(sub.pending))
    /\ sub' = [sub EXCEPT !.pending = Tail(@)]
    /\ UNCHANGED <<inc, setupVars, ptyVars, procVars, conn, catchUp, wire, client>>

----------------------------------------------------------------------------
(* The client *)

\* A frame at the cursor is fed; of one that reaches back only what is new;
\* one ahead of the cursor resets the screen and starts there.
applyData(c, m) ==
    LET end == m.offset + Len(m.data) IN
    CASE m.offset > c.next -> [c EXCEPT !.screen = m.data, !.next = end]
      [] end <= c.next -> c
      [] OTHER -> [c EXCEPT !.screen = @ \o SubSeq(m.data, c.next - m.offset + 1, Len(m.data)),
                            !.next = end]

\* The screen is cleared and the cursor put where the server resumes.
applyResync(c, m) == [c EXCEPT !.screen = <<>>, !.next = m.offset, !.base = m.offset]

ClientApplies ==
    /\ wire # <<>>
    /\ client' = IF Head(wire).kind = "data" THEN applyData(client, Head(wire))
                 ELSE applyResync(client, Head(wire))
    /\ wire' = Tail(wire)
    /\ UNCHANGED <<inc, setupVars, ptyVars, procVars, conn, sub, catchUp, lane>>

----------------------------------------------------------------------------
Next == \/ PrepareTerminalType \/ SpawnStream \/ SpawnFails
        \/ NodeCommitted \/ NodeRefused \/ NodeRolledBack
        \/ ChildExits \/ HoldersLetGo
        \/ ReaderAppends \/ ReaderSends \/ ReaderSeesEnd \/ ReaderTakesChild
        \/ ReaderReaps \/ ReaderEnds
        \/ \E c \in {"input", "resize"} : HandleTerminalCommand(c)
        \/ CommandReceived \/ CommandQueueClosed \/ InputWritten \/ WriteFails
        \/ CloseStream \/ KillerSignals \/ KillerTakesChild \/ KillerReaps \/ KillerJoins
        \/ Connect \/ Disconnect \/ UnknownStream \/ ServerRestarts
        \/ WriterSendsCatchUp \/ WriterSendsLive \/ PumpReceives \/ PumpSends
        \/ ClientApplies

\* Threads that can run do run, the socket moves, the kernel reports what it
\* knows.  Nothing makes a child write, read or exit, and nothing makes it or a
\* process it leaves behind let go of the terminal.
Fairness == /\ WF_vars(ReaderSends) /\ WF_vars(ReaderSeesEnd) /\ WF_vars(ReaderTakesChild)
            /\ WF_vars(ReaderReaps) /\ WF_vars(ReaderEnds)
            /\ WF_vars(CommandReceived) /\ WF_vars(CommandQueueClosed) /\ WF_vars(WriteFails)
            /\ WF_vars(KillerSignals) /\ WF_vars(KillerTakesChild) /\ WF_vars(KillerReaps)
            /\ WF_vars(KillerJoins)
            /\ WF_vars(WriterSendsCatchUp) /\ WF_vars(WriterSendsLive)
            /\ WF_vars(PumpReceives) /\ WF_vars(PumpSends) /\ WF_vars(ClientApplies)

Spec == Init /\ [][Next]_vars /\ Fairness

----------------------------------------------------------------------------
(* Properties *)

\* What the client shows is exactly what the program wrote, each byte once and
\* in order, since it attached afresh or since the last gap the server announced
\* with TerminalResyncRequired: eviction, reconnection, replay, the live pump
\* and a server restart never lose, repeat or misplace a byte silently, and the
\* client's own gap branch ("ahead of the local cursor") is never taken.
ScreenExact ==
    client.screen = [i \in 1 .. client.next - client.base |->
                        <<client.inc, client.base + i - 1>>]

\* A subscribed client ends up showing everything the ring was given, also when
\* the program's last bytes and the end of its terminal arrive together.
EventuallyCurrent == <>[](conn.up /\ sub.on => client.next = ring.next)

\* A process that survived the child and its process group holds the terminal.
HeldByOthers == tty /\ child = "reaped" /\ killer \in {"joinCmd", "joinRead"}

\* kill_and_reap returns, or it has reaped the child and only a process left
\* behind with the terminal keeps it in a join: signals, child lock, command thread
\* and reader thread never wait for each other, whatever the child was doing.
TeardownEnds == killer = "signal" ~> killer \in {"idle", "done"} \/ []HeldByOthers

\* "Join it first so dropping the master forces EOF/EIO on the reader if any leftover
\* slave holders remain" (kill_and_reap): teardown ends whoever holds the terminal.
ShutdownUnblocks == killer = "signal" ~> killer \in {"idle", "done"}
=============================================================================
