----------------------------- MODULE SessionSync -----------------------------
(***************************************************************************)
(* One session of the daemon, its connections, and the clients that mirror  *)
(* it: commits, the journal, the outbound hub, the handshake bootstrap, the *)
(* connection tasks, and the client's transaction and resume handling.      *)
(*                                                                         *)
(* Every action of the server that the code runs under SessionInner is one  *)
(* step here; what the code does after releasing that lock is another step. *)
(* A commit and its publication are one critical section                    *)
(* (publish_committed), so they are one action.                             *)
(***************************************************************************)
EXTENDS OutboundQueue, Journal, Integers

CONSTANTS
  Clients,            \* client applications
  Conns,              \* transport connections, reused once both ends left
  CommitKinds,        \* what a commit may write: [keys, scalar, priority]
  MaxAttempts,        \* MAX_OPTIMISTIC_SNAPSHOT_EXPORT_ATTEMPTS
  MaxRevision,        \* bound: commits per incarnation
  MaxIncarnation,     \* bound: sessions the daemon goes through
  MaxDrops,           \* bound: transport failures and client restarts
  NoConn              \* a client without a connection

ASSUME SyncAssumption ==
  /\ MaxAttempts \in Nat /\ MaxRevision \in Nat /\ MaxDrops \in Nat
  /\ MaxIncarnation \in Nat \ {0}
  /\ NoConn \notin Conns
  /\ CommitKinds \subseteq [keys: SUBSET Keys, scalar: BOOLEAN, priority: Nat]
  /\ \A kind \in CommitKinds : Cardinality(kind.keys) <= MaxOps

VARIABLES
  inc,       \* the running session's incarnation (its session_id)
  store,     \* the authoritative store: [rev, content]
  journal,   \* SessionInner.journal
  stale,     \* OutboundHub.stale_clients, oldest first
  sub,       \* connection -> its subscriber's queue
  task,      \* connection -> the handle_connection task that serves it
  wire,      \* connection -> frames sent and not yet received
  client,    \* client -> its SessionController and replica
  drops,     \* transport failures and client restarts so far
  history,   \* auxiliary: history[i][r] is what incarnation i held at r
  overflowed \* auxiliary: client ids whose latest subscription overflowed

vars == <<inc, store, journal, stale, sub, task, wire, client, drops, history, overflowed>>

-----------------------------------------------------------------------------
(***************************************************************************)
(* The task that serves a connection goes through these phases:             *)
(*   idle       no connection;                                              *)
(*   hello      the handshake message is read, the session lock is not held;*)
(*   exporting  a snapshot is serialized from a clone, the lock released;   *)
(*   sending    subscribed, writing the frames of its bootstrap;            *)
(*   clearing   the bootstrap is written and no termination was seen;       *)
(*   active     the writer streams the queue;                               *)
(*   closed     the task has returned and dropped its receiver.             *)
(***************************************************************************)
NoTask ==
  [phase |-> "idle", client |-> <<>>, asks |-> 0, at |-> 0, attempts |-> 0,
   cause |-> "none", captured |-> EmptyReplica, boot |-> <<>>]

\* asks is the session a CLIENT_RESUME names, 0 for a CLIENT_HELLO.
Handshake(id, asks, at) ==
  [NoTask EXCEPT !.phase = "hello", !.client = id, !.asks = asks, !.at = at]

EmptyStore == EmptyReplica

Disconnected ==
  [phase |-> "idle", instance |-> 0, conn |-> NoConn, saved |-> 0, note |-> 0, session |-> 0,
   mirrors |-> 0, replica |-> EmptyReplica]

\* The client_instance_id of a client: every start of the application draws one.
ClientInstanceId(a) == <<a, client[a].instance>>

Init ==
  /\ inc = 1
  /\ store = EmptyStore
  /\ journal = NewJournal
  /\ stale = <<>>
  /\ sub = [c \in Conns |-> DroppedSubscriber]
  /\ task = [c \in Conns |-> NoTask]
  /\ wire = [c \in Conns |-> <<>>]
  /\ client = [a \in Clients |-> Disconnected]
  /\ drops = 0
  /\ history = <<<<>>>>
  /\ overflowed = {}

-----------------------------------------------------------------------------
(***************************************************************************)
(* Commits (transaction_with_result, commit_transaction): the journal takes *)
(* the transaction before the store moves, and every subscriber is offered  *)
(* it before the session lock is released.                                  *)
(***************************************************************************)

\* Connections whose queue gives up on tx, and the clients they serve.
Overflowing(tx) == {c \in Conns : Overflows(sub[c], tx)}
OverflowingClients(tx) == {task[c].client : c \in Overflowing(tx)}

\* The registry after all of them are marked, in the order of some list.
MarkAll(clients) ==
  \E order \in SetToSeqs(clients) : stale' = FoldLeft(MarkStale, stale, order)

Commit(kind) ==
  LET tx == AuthoritativeCommit(<<inc, store.rev + 1>>, store.rev, kind)
      next == [rev |-> tx.new, content |-> Overwrite(store.content, tx)]
  IN  /\ store.rev < MaxRevision
      /\ CheckContiguity(journal, tx)
      /\ journal' = AppendEntry(journal, tx)
      /\ store' = next
      /\ sub' = [c \in Conns |-> TryPushOrAbsorb(sub[c], tx)]
      /\ MarkAll(OverflowingClients(tx))
      /\ history' = [history EXCEPT ![inc] = Append(@, next.content)]
      /\ overflowed' = overflowed \cup OverflowingClients(tx)
      /\ UNCHANGED <<inc, task, wire, client, drops>>

-----------------------------------------------------------------------------
(***************************************************************************)
(* The handshake bootstrap (bootstrap_fresh_client, bootstrap_resume).      *)
(***************************************************************************)

\* Why a snapshot is needed, evaluated under the session lock, in this order.
ResyncCause(t) ==
  CASE t.asks = 0 -> "fresh"
    [] t.asks \notin {0, inc} -> "replaced"
    [] t.asks = inc /\ t.client \in Range(stale) -> "overflow"
    [] t.asks = inc /\ t.client \notin Range(stale) /\ ~CanReplayFrom(journal, t.at) -> "gap"
    [] OTHER -> "none"

\* The frame that opens a bootstrap, then the snapshot it announces; a fresh
\* client of a session at revision 0 gets no snapshot.
SnapshotBootstrap(cause, captured) ==
  LET snapshot == [kind |-> "tx", tx |-> ExportSnapshotTransaction(captured)]
  IN  IF cause = "fresh"
      THEN IF captured.rev = 0
           THEN <<[kind |-> "welcome", inc |-> inc, rev |-> 0]>>
           ELSE <<[kind |-> "welcome", inc |-> inc, rev |-> captured.rev], snapshot>>
      ELSE <<[kind |-> "resync", inc |-> inc, replaced |-> (cause = "replaced")], snapshot>>

ReplayBootstrap(at) ==
  LET entries == ReplayFrom(journal, at)
  IN  <<[kind |-> "resumeOk", inc |-> inc]>>
        \o [i \in 1..Len(entries) |-> [kind |-> "tx", tx |-> entries[i]]]

\* Subscription and catch-up are fixed in one critical section.
Subscribe(c, cause, boot) ==
  /\ sub' = [sub EXCEPT ![c] = NewSubscriber]
  /\ task' = [task EXCEPT ![c].phase = "sending", ![c].cause = cause, ![c].boot = boot]
  /\ overflowed' = overflowed \ {task[c].client}

\* The journal covers the client's revision: replay from it.
DecideReplay(c) ==
  /\ task[c].phase = "hello"
  /\ ResyncCause(task[c]) = "none"
  /\ Subscribe(c, "none", ReplayBootstrap(task[c].at))
  /\ UNCHANGED <<inc, store, journal, stale, wire, client, drops, history>>

\* A snapshot is needed: clone the store, release the lock, serialize.
CaptureSnapshot(c) ==
  /\ task[c].phase = "hello"
  /\ ResyncCause(task[c]) # "none"
  /\ task[c].attempts < MaxAttempts
  /\ task' = [task EXCEPT ![c].phase = "exporting", ![c].captured = store,
                          ![c].cause = ResyncCause(task[c])]
  /\ UNCHANGED <<inc, store, journal, stale, sub, wire, client, drops, history, overflowed>>

\* A mistake the checks must notice: only the reason is evaluated again.
CaptureSameCause(c) == ResyncCause(task[c]) = task[c].cause

\* The lock is taken again: is the clone still the store, for the same reason?
CaptureCurrent(c) ==
  /\ store.rev = task[c].captured.rev
  /\ ResyncCause(task[c]) = task[c].cause

SubscribeExported(c) ==
  /\ task[c].phase = "exporting"
  /\ CaptureCurrent(c)
  /\ Subscribe(c, task[c].cause, SnapshotBootstrap(task[c].cause, task[c].captured))
  /\ UNCHANGED <<inc, store, journal, stale, wire, client, drops, history>>

RetryExport(c) ==
  /\ task[c].phase = "exporting"
  /\ ~CaptureCurrent(c)
  /\ task' = [task EXCEPT ![c].phase = "hello", ![c].attempts = @ + 1,
                          ![c].cause = "none", ![c].captured = EmptyReplica]
  /\ UNCHANGED <<inc, store, journal, stale, sub, wire, client, drops, history, overflowed>>

\* Too many retries: serialize while holding the lock.
ExportLocked(c) ==
  /\ task[c].phase = "hello"
  /\ ResyncCause(task[c]) # "none"
  /\ task[c].attempts >= MaxAttempts
  /\ Subscribe(c, ResyncCause(task[c]), SnapshotBootstrap(ResyncCause(task[c]), store))
  /\ UNCHANGED <<inc, store, journal, stale, wire, client, drops, history>>

-----------------------------------------------------------------------------
(***************************************************************************)
(* The connection after its bootstrap (handle_connection, Writer::run).     *)
(***************************************************************************)

Send(c, frame) == wire' = [wire EXCEPT ![c] = Append(@, frame)]

SendBootstrap(c) ==
  /\ task[c].phase = "sending" /\ task[c].boot # <<>>
  /\ Send(c, Head(task[c].boot))
  /\ task' = [task EXCEPT ![c].boot = Tail(@)]
  /\ UNCHANGED <<inc, store, journal, stale, sub, client, drops, history, overflowed>>

\* The bootstrap is written.  After a snapshot the overflow marker is cleared
\* if the subscriber has not ended: the test and the removal take different
\* locks, so they are different steps.
FinishBootstrap(c) ==
  /\ task[c].phase = "sending" /\ task[c].boot = <<>>
  /\ task' = [task EXCEPT ![c].captured = EmptyReplica,
                ![c].phase = IF task[c].cause # "none" /\ ~Termination(sub[c])
                             THEN "clearing" ELSE "active"]
  /\ UNCHANGED <<inc, store, journal, stale, sub, wire, client, drops, history, overflowed>>

ClearStale(c) ==
  /\ task[c].phase = "clearing"
  /\ stale' = ClearStaleClient(stale, task[c].client)
  /\ task' = [task EXCEPT ![c].phase = "active"]
  /\ UNCHANGED <<inc, store, journal, sub, wire, client, drops, history, overflowed>>

WriterSend(c) ==
  /\ task[c].phase = "active"
  /\ ~sub[c].stale /\ sub[c].items # <<>>
  /\ Send(c, [kind |-> "tx", tx |-> Head(sub[c].items)])
  /\ sub' = [sub EXCEPT ![c] = PopTransaction(@)]
  /\ UNCHANGED <<inc, store, journal, stale, task, client, drops, history, overflowed>>

\* The task returns: its receiver is dropped, frames already sent are not.
Close(c) ==
  /\ task' = [task EXCEPT ![c] = [NoTask EXCEPT !.phase = "closed"]]
  /\ sub' = [sub EXCEPT ![c] = DropReceiver(@)]
  /\ UNCHANGED <<inc, store, journal, stale, wire, client, drops, history, overflowed>>

\* A mistake the checks must notice: the idle writer is not woken by an overflow.
CloseLaggedWhileSending(c) ==
  /\ task[c].phase = "sending"
  /\ sub[c].stale
  /\ Close(c)

\* An overflow closes the connection while it writes or waits.
CloseLagged(c) ==
  /\ task[c].phase \in {"sending", "active"}
  /\ sub[c].stale
  /\ Close(c)

Serves(a, c) == client[a].conn = c

\* The peer is gone: the read side or the write fails.
CloseBroken(c) ==
  /\ task[c].phase \in {"hello", "sending", "active"}
  /\ ~\E a \in Clients : Serves(a, c)
  /\ Close(c)

\* The daemon dies and a new one starts: nothing of a session is persisted.
Restart ==
  /\ inc < MaxIncarnation
  /\ inc' = inc + 1
  /\ store' = EmptyStore
  /\ journal' = NewJournal
  /\ stale' = <<>>
  /\ sub' = [c \in Conns |-> DroppedSubscriber]
  /\ task' = [c \in Conns |-> IF task[c].phase = "idle" THEN NoTask
                              ELSE [NoTask EXCEPT !.phase = "closed"]]
  /\ history' = Append(history, <<>>)
  /\ overflowed' = {}
  /\ UNCHANGED <<wire, client, drops>>

-----------------------------------------------------------------------------
(***************************************************************************)
(* The client (SessionController, ConnectionManager).  saved is the session *)
(* the connection list remembers; note is a lifecycle event that names a    *)
(* session and that the list has not handled yet; session is the session    *)
(* asked for, then the one adopted; mirrors is auxiliary: the incarnation   *)
(* whose state the replica holds.                                           *)
(***************************************************************************)

\* A new attempt: CLIENT_RESUME if a session is remembered, else CLIENT_HELLO.
\* Events of the attempt it supersedes are ignored from here on.
Connect(a, c) ==
  /\ client[a].conn = NoConn
  /\ task[c].phase \in {"idle", "closed"} /\ ~\E b \in Clients : Serves(b, c)
  /\ client' = [client EXCEPT
       ![a].conn = c, ![a].note = 0, ![a].session = client[a].saved,
       ![a].phase = IF client[a].saved = 0 THEN "awaitingWelcome" ELSE "awaitingResume"]
  /\ task' = [task EXCEPT ![c] = Handshake(ClientInstanceId(a), client[a].saved, client[a].replica.rev)]
  /\ wire' = [wire EXCEPT ![c] = <<>>]
  /\ sub' = [sub EXCEPT ![c] = DroppedSubscriber]
  /\ UNCHANGED <<inc, store, journal, stale, drops, history, overflowed>>

\* The connection ends for the client: latches reset, replica and saved stay.
Hangup(a) ==
  [client[a] EXCEPT !.phase = "idle", !.conn = NoConn, !.session = 0]

\* The client takes the next frame of its connection and becomes next; the
\* receive loop waits for the handler of the frame before.
Receive(a, kind, next(_)) ==
  /\ client[a].conn # NoConn /\ client[a].phase # "replacing"
  /\ wire[client[a].conn] # <<>>
  /\ Head(wire[client[a].conn]).kind = kind
  /\ client' = [client EXCEPT ![a] = next(Head(wire[client[a].conn]))]
  /\ wire' = [wire EXCEPT ![client[a].conn] = Tail(@)]
  /\ UNCHANGED <<inc, store, journal, stale, sub, task, drops, history, overflowed>>

\* A fault of the peer: the controller reports a failure and takes no more.
Failed(a) == [client[a] EXCEPT !.phase = "failed"]

\* A fresh session abandons the replica, whatever it held.
HandleWelcome(a, frame) ==
  IF client[a].phase # "awaitingWelcome" THEN Failed(a)
  ELSE [client[a] EXCEPT
          !.phase = IF frame.rev > 0 THEN "awaitingSnapshot" ELSE "active",
          !.note = IF frame.rev > 0 THEN @ ELSE frame.inc,
          !.session = frame.inc, !.mirrors = frame.inc, !.replica = EmptyReplica]

HandleResumeOk(a, frame) ==
  IF client[a].phase # "awaitingResume" \/ client[a].session # frame.inc THEN Failed(a)
  ELSE [client[a] EXCEPT !.phase = "active", !.note = frame.inc]

\* The answer contradicts the session it answers: a replacement names another
\* session, a same-session resync the same one.
ContradictsSession(a, frame) ==
  \/ client[a].phase \notin {"awaitingResume", "active", "awaitingSnapshot"}
  \/ frame.replaced = (client[a].session = frame.inc)

\* A mistake the checks must notice: the new identity is published before the
\* replica of the old session is gone.
ResyncPublishesFirst(a, frame) ==
  IF ContradictsSession(a, frame) THEN Failed(a)
  ELSE IF frame.replaced
  THEN [client[a] EXCEPT !.phase = "awaitingSnapshot", !.session = frame.inc,
                         !.note = frame.inc]
  ELSE [client[a] EXCEPT !.phase = "awaitingSnapshot"]

\* A replaced session resets the replica first; a same-session resync leaves it
\* in place until the snapshot arrives.
HandleResyncRequired(a, frame) ==
  IF ContradictsSession(a, frame) THEN Failed(a)
  ELSE IF frame.replaced
  THEN [client[a] EXCEPT !.phase = "replacing", !.session = frame.inc,
                         !.mirrors = frame.inc, !.replica = EmptyReplica]
  ELSE [client[a] EXCEPT !.phase = "awaitingSnapshot"]

\* Some awaits later the identity of the replacement is published.
PublishReplacement(a) ==
  /\ client[a].phase = "replacing"
  /\ client' = [client EXCEPT ![a].phase = "awaitingSnapshot",
                              ![a].note = client[a].session]
  /\ UNCHANGED <<inc, store, journal, stale, sub, task, wire, drops, history, overflowed>>

\* While a snapshot is awaited every transaction is taken for it; a rejected
\* one leaves the client waiting.
HandleSnapshot(a, tx) ==
  IF ~AcceptsSnapshot(client[a].replica, tx) THEN client[a]
  ELSE [client[a] EXCEPT !.phase = "active", !.replica = PublishResyncSnapshot(tx),
                         !.mirrors = client[a].session, !.note = client[a].session]

HandleLiveTransaction(a, tx) ==
  IF AppliesDelivered(client[a].replica, tx)
  THEN [client[a] EXCEPT !.replica = ApplyDelivered(@, tx)]
  ELSE IF IsRedelivery(client[a].replica, tx) THEN client[a] ELSE Failed(a)

HandleTransaction(a, frame) ==
  CASE client[a].phase = "awaitingSnapshot" -> HandleSnapshot(a, frame.tx)
    [] client[a].phase = "active" -> HandleLiveTransaction(a, frame.tx)
    [] OTHER -> Failed(a)

ReceiveWelcome(a) == Receive(a, "welcome", LAMBDA frame : HandleWelcome(a, frame))
ReceiveResumeOk(a) == Receive(a, "resumeOk", LAMBDA frame : HandleResumeOk(a, frame))
ReceiveResyncRequired(a) == Receive(a, "resync", LAMBDA frame : HandleResyncRequired(a, frame))
ReceiveTransaction(a) == Receive(a, "tx", LAMBDA frame : HandleTransaction(a, frame))

\* The connection list handles a pending event and remembers the session.
SaveSession(a) ==
  /\ client[a].note # 0
  /\ client' = [client EXCEPT ![a].saved = client[a].note, ![a].note = 0]
  /\ UNCHANGED <<inc, store, journal, stale, sub, task, wire, drops, history, overflowed>>

\* The server has closed and everything it sent is read, or the client failed.
EndOfStream(a) ==
  /\ client[a].conn # NoConn
  /\ \/ client[a].phase = "failed"
     \/ task[client[a].conn].phase = "closed" /\ wire[client[a].conn] = <<>>
  /\ client' = [client EXCEPT ![a] = Hangup(a)]
  /\ UNCHANGED <<inc, store, journal, stale, sub, task, wire, drops, history, overflowed>>

\* The transport fails under the client: frames in flight are lost.
Disconnect(a) ==
  /\ client[a].conn # NoConn /\ drops < MaxDrops
  /\ drops' = drops + 1
  /\ client' = [client EXCEPT ![a] = Hangup(a)]
  /\ UNCHANGED <<inc, store, journal, stale, sub, task, wire, history, overflowed>>

\* The client application is restarted: only the saved session survives.
RestartClient(a) ==
  /\ drops < MaxDrops
  /\ drops' = drops + 1
  /\ client' = [client EXCEPT ![a] = [Hangup(a) EXCEPT !.instance = @ + 1, !.note = 0,
                                                       !.replica = EmptyReplica]]
  /\ UNCHANGED <<inc, store, journal, stale, sub, task, wire, history, overflowed>>

-----------------------------------------------------------------------------
ConnectionStep(c) ==
  \/ DecideReplay(c) \/ CaptureSnapshot(c) \/ SubscribeExported(c) \/ RetryExport(c)
  \/ ExportLocked(c) \/ SendBootstrap(c) \/ FinishBootstrap(c) \/ ClearStale(c)
  \/ WriterSend(c) \/ CloseLagged(c) \/ CloseBroken(c)

ClientStep(a) ==
  \/ ReceiveWelcome(a) \/ ReceiveResumeOk(a) \/ ReceiveResyncRequired(a)
  \/ PublishReplacement(a) \/ ReceiveTransaction(a) \/ SaveSession(a) \/ EndOfStream(a)

Next ==
  \/ \E kind \in CommitKinds : Commit(kind)
  \/ Restart
  \/ \E c \in Conns : ConnectionStep(c)
  \/ \E a \in Clients :
       \/ ClientStep(a) \/ Disconnect(a) \/ RestartClient(a)
       \/ \E c \in Conns : Connect(a, c)

Spec == Init /\ [][Next]_vars

\* The runtime polls every task it can advance, the transport delivers what is
\* sent, and the client handles what it receives.  Nothing forces commits,
\* failures, restarts, or a user who reconnects.
SyncFairness ==
  /\ \A c \in Conns : WF_vars(ConnectionStep(c))
  /\ \A a \in Clients : WF_vars(ClientStep(a))

-----------------------------------------------------------------------------
(***************************************************************************)
(* Properties.                                                             *)
(***************************************************************************)

\* What incarnation i of the session held at revision r.
ContentAt(i, r) == IF r = 0 THEN EmptyContent ELSE history[i][r]

Revisions(i) == IF i = 0 THEN {0} ELSE 0..Len(history[i])

Replicas == [rev: Nat, content: [Keys -> Stamps]]

Frames ==
       [kind: {"welcome"}, inc: Nat, rev: Nat]
  \cup [kind: {"resumeOk"}, inc: Nat]
  \cup [kind: {"resync"}, inc: Nat, replaced: BOOLEAN]
  \cup [kind: {"tx"}, tx: Transaction]

\* The client ids: a client application and the number of its start.
Instances == Clients \X Nat

Tasks ==
  [phase: {"idle", "hello", "exporting", "sending", "clearing", "active", "closed"},
   client: Instances \cup {<<>>}, asks: Nat, at: Nat, attempts: 0..MaxAttempts,
   cause: {"none", "fresh", "replaced", "overflow", "gap"}, captured: Replicas,
   boot: Seq(Frames)]

Subscribers == [items: Seq(Transaction), stale: BOOLEAN, closed: BOOLEAN]

Controllers ==
  [phase: {"idle", "awaitingWelcome", "awaitingResume", "replacing", "awaitingSnapshot",
           "active", "failed"},
   instance: Nat, conn: Conns \cup {NoConn}, saved: 0..inc, note: 0..inc, session: 0..inc,
   mirrors: 0..inc, replica: Replicas]

\* Type invariant: the state of SessionInner, the hub, the connection tasks and
\* the client has the shape the structures of the code give it.
TypeOK ==
  /\ inc \in 1..MaxIncarnation
  /\ store \in Replicas /\ store.rev <= MaxRevision
  /\ journal \in [entries: Seq(Transaction), earliest: Nat, latest: Nat]
  /\ Len(journal.entries) <= MaxEntries
  /\ sub \in [Conns -> Subscribers]
  /\ task \in [Conns -> Tasks]
  /\ wire \in [Conns -> Seq(Frames)]
  /\ client \in [Clients -> Controllers]
  /\ drops \in 0..MaxDrops
  /\ history \in Seq(Seq([Keys -> Stamps])) /\ Len(history) = inc
  /\ overflowed \subseteq Instances \cup {<<>>}

\* A client never shows a state its session did not commit: whatever was
\* coalesced, replayed, snapshotted or lost on the way, the replica equals the
\* store of the incarnation it mirrors at the revision it claims.
ReplicaFaithful ==
  \A a \in Clients :
    /\ client[a].replica.rev \in Revisions(client[a].mirrors)
    /\ client[a].replica.content = ContentAt(client[a].mirrors, client[a].replica.rev)

\* The server never sends a client anything it must refuse: no revision gap, no
\* malformed span, no frame out of phase, whatever commits, overflows, resumes
\* and restarts interleave (publish_committed, subscribe_client_locked).
NeverDiverges == \A a \in Clients : client[a].phase # "failed"

\* Nothing is lost between catch-up and live delivery: when the queue of a live
\* subscriber and its connection are drained, the client is at the store's
\* revision, although the snapshot was serialized without the session lock.
NothingMissed ==
  \A a \in Clients : client[a].conn # NoConn =>
    LET c == client[a].conn
    IN  task[c].phase = "active" /\ ~sub[c].stale /\ sub[c].items = <<>> /\ wire[c] = <<>>
          => /\ client[a].phase = "active"
             /\ client[a].mirrors = inc /\ client[a].replica.rev = store.rev

\* The protocol implements its specification: every replica follows the commits
\* of one incarnation forward, and starts over only from nothing.
Follows == INSTANCE ReplicaFollows WITH
  replica <- [a \in Clients |-> [mirrors |-> client[a].mirrors,
                                 rev |-> client[a].replica.rev,
                                 content |-> client[a].replica.content]]

FollowsHistory == Follows!Spec

\* A client that stays connected catches up with the last commit: overflowed or
\* abandoned connections are ended, never left silent, and a snapshot is
\* delivered however often a commit invalidates it.
EventuallySynced ==
  \A a \in Clients :
    <>[](client[a].conn # NoConn)
      => <>[](client[a].mirrors = inc /\ client[a].replica.rev = store.rev)

\* "If the session incarnation matches but the client detached due to outbound
\* queue overflow, full state resync is forced" (bootstrap_resume): a client
\* whose latest subscription overflowed is never answered with a replay.
OverflowForcesResync ==
  [][\A c \in Conns :
       task[c].phase = "hello" /\ task'[c].phase = "sending" /\ task'[c].cause = "none"
         => task[c].client \notin overflowed]_vars

=============================================================================
