-------------------------- MODULE SessionSyncProofs --------------------------
(***************************************************************************)
(* What a client shows is what its session committed, for any number of       *)
(* clients, connections, keys and values and every bound of the journal, the  *)
(* queues and the retries.                                                   *)
(*                                                                         *)
(* Everything on its way to a client is one pipe: the wire, then what the     *)
(* connection task still has to send of the catch-up, then the subscriber's   *)
(* queue.  The pipe is a stream: its head is the frame the client expects in  *)
(* the phase it is in, and each frame continues the one before, so that the   *)
(* client can take all of them in order (Stream).  As long as the subscriber  *)
(* is open, the last of them leads to the revision of the store (Reaches).    *)
(* A frame of a closed connection belongs to an earlier incarnation or stops   *)
(* short of the store; it is a beginning of a stream all the same.            *)
(*                                                                         *)
(* Each operation does one thing to one pipe: a step of a connection moves    *)
(* frames along it or opens it (ConnectionMoves), a step of a client takes     *)
(* its head (ClientMoves), a commit appends to every open one or is absorbed    *)
(* by its last frame (StreamPush, StreamAbsorb), a crash or an overflow cuts   *)
(* it short (StreamCut).  The replica properties and the refinement of         *)
(* ReplicaFollows are consequences.                                          *)
(***************************************************************************)
EXTENDS SessionSync, SequenceTheorems, TLAPS

\* What incarnation i of a session with this history held at revision r.
At(h, i, r) == IF r = 0 THEN EmptyContent ELSE h[i][r]

\* tx stands for one commit of incarnation i, or for a run of them.
Delta(h, i, tx) ==
  /\ tx \in Transaction
  /\ WellFormedDelivery(tx)
  /\ tx.base < tx.new /\ tx.new <= Len(h[i])
  /\ Overwrite(At(h, i, tx.base), tx) = At(h, i, tx.new)

\* tx is the full state of incarnation i at some revision; nothing absorbs it.
Snapshot(h, i, tx) ==
  /\ tx \in Transaction
  /\ tx.base = 0 /\ ~tx.scalar /\ tx.new <= Len(h[i])
  /\ tx.writes = At(h, i, tx.new)

TxFrame(tx) == [kind |-> "tx", tx |-> tx]

\* Everything on its way to a client: sent, to be sent for the catch-up, queued.
Pipe(w, b, q) ==
  [n \in 1..(Len(w) + Len(b) + Len(q)) |->
     IF n <= Len(w) THEN w[n]
     ELSE IF n <= Len(w) + Len(b) THEN b[n - Len(w)]
     ELSE TxFrame(q[n - Len(w) - Len(b)])]

\* The frame a client is ready to take.
Expects(h, i, cl, f) ==
  /\ cl.phase = "awaitingWelcome" => f.kind = "welcome" /\ f.inc = i
  /\ cl.phase = "awaitingResume" =>
       \/ f.kind = "resumeOk" /\ f.inc = i /\ cl.session = i
       \/ f.kind = "resync" /\ f.inc = i /\ f.replaced = (cl.session # i)
  /\ cl.phase \in {"replacing", "awaitingSnapshot"} =>
       f.kind = "tx" /\ Snapshot(h, i, f.tx) /\ cl.replica.rev <= f.tx.new
  /\ cl.phase = "active" =>
       f.kind = "tx" /\ Delta(h, i, f.tx) /\ f.tx.base = cl.replica.rev

\* The frame g continues what the frame f leaves, for a replica at rev.
Continues(h, i, rev, f, g) ==
  /\ g.kind = "tx"
  /\ f.kind = "welcome" =>
       IF f.rev = 0 THEN Delta(h, i, g.tx) /\ g.tx.base = 0 ELSE Snapshot(h, i, g.tx)
  /\ f.kind = "resumeOk" => Delta(h, i, g.tx) /\ g.tx.base = rev
  /\ f.kind = "resync" => Snapshot(h, i, g.tx) /\ (f.replaced \/ rev <= g.tx.new)
  /\ f.kind = "tx" => Delta(h, i, g.tx) /\ g.tx.base = f.tx.new

\* The client is past the opening frame of its connection.
Opened(cl) == cl.phase \in {"replacing", "awaitingSnapshot", "active"}

\* The frames of P, all of incarnation i, are what the client can take in order.
Stream(h, i, cl, P) ==
  /\ cl.mirrors <= i
  /\ Opened(cl) => cl.session = i /\ cl.mirrors = i
  /\ P # <<>> => Expects(h, i, cl, P[1])
  /\ \A m \in 1..(Len(P) - 1) : Continues(h, i, cl.replica.rev, P[m], P[m + 1])

\* They bring the client to revision rev.
Reaches(cl, P, rev) ==
  IF P = <<>> THEN cl.phase = "active" /\ cl.replica.rev = rev
  ELSE LET f == P[Len(P)]
       IN  \/ f.kind = "tx" /\ f.tx.new = rev
           \/ f.kind = "welcome" /\ f.rev = 0 /\ rev = 0
           \/ f.kind = "resumeOk" /\ cl.replica.rev = rev

-----------------------------------------------------------------------------
\* The store is what the running incarnation committed last.
StoreInv ==
  /\ store.rev = Len(history[inc])
  /\ store.content = At(history, inc, store.rev)

\* The journal holds the last commits, one entry each and without a gap.
JournalInv ==
  /\ journal.latest = store.rev
  /\ journal.earliest + Len(journal.entries) = journal.latest
  /\ \A k \in 1..Len(journal.entries) :
       /\ Delta(history, inc, journal.entries[k])
       /\ journal.entries[k].base = journal.earliest + k - 1
       /\ journal.entries[k].new = journal.earliest + k

\* What a connection task may still hold in each of its phases.
TaskOK(h, i, t, s) ==
  /\ t.phase # "sending" => t.boot = <<>>
  /\ t.phase \in {"idle", "hello", "exporting", "closed"} => s.closed /\ s.items = <<>>
  /\ t.phase \in {"sending", "clearing", "active"} =>
       (s.closed <=> s.stale) /\ (s.closed => s.items = <<>>)
  /\ t.phase = "exporting" =>
       /\ t.attempts < MaxAttempts /\ t.cause # "none"
       /\ t.captured.rev <= Len(h[i])
       /\ t.captured.content = At(h, i, t.captured.rev)

TaskInv == \A c \in Conns : TaskOK(history, inc, task[c], sub[c])

\* The sessions a client knows of, and the phase it is in.
Known(cl) ==
  /\ cl.phase # "failed"
  /\ cl.conn = NoConn <=> cl.phase = "idle"
  /\ cl.saved <= cl.mirrors /\ cl.note <= cl.mirrors
  /\ cl.phase \in {"awaitingWelcome", "awaitingResume"} =>
       /\ cl.session = cl.saved /\ cl.note = 0
       /\ cl.phase = "awaitingWelcome" <=> cl.saved = 0

\* The replica is what the incarnation it mirrors held at its revision.
Faithful(h, cl) ==
  /\ cl.replica.rev \in (IF cl.mirrors = 0 THEN {0} ELSE 0..Len(h[cl.mirrors]))
  /\ cl.replica.content = At(h, cl.mirrors, cl.replica.rev)

\* No two clients share a connection.
ClientInv ==
  /\ \A a \in Clients : Known(client[a]) /\ Faithful(history, client[a])
  /\ \A a, b \in Clients : client[a].conn = client[b].conn /\ client[a].conn # NoConn => a = b

\* A connection with a client at its other end.
Linked(h, i, cl, t, s, w) ==
  /\ t.phase # "idle"
  /\ t.phase \in {"hello", "exporting"} =>
       /\ w = <<>>
       /\ cl.phase \in {"awaitingWelcome", "awaitingResume"}
       /\ t.asks = cl.session /\ t.at = cl.replica.rev
  /\ t.phase \in {"sending", "clearing", "active"} =>
       /\ Stream(h, i, cl, Pipe(w, t.boot, s.items))
       /\ s.stale \/ Reaches(cl, Pipe(w, t.boot, s.items), Len(h[i]))
  /\ t.phase = "closed" =>
       \E j \in 1..i : Stream(h, j, cl, Pipe(w, t.boot, s.items))

StreamInv ==
  \A a \in Clients : client[a].conn # NoConn =>
    LET c == client[a].conn
    IN  Linked(history, inc, client[a], task[c], sub[c], wire[c])

IInv ==
  /\ TypeOK /\ StoreInv /\ JournalInv /\ TaskInv /\ ClientInv /\ StreamInv

-----------------------------------------------------------------------------
(***************************************************************************)
(* Transactions: what they make of a state.                                *)
(***************************************************************************)

Histories == Seq(Seq([Keys -> Stamps]))

\* g is h with more commits, or more incarnations.
Grows(h, g) ==
  /\ Len(h) <= Len(g)
  /\ \A i \in 1..Len(h) :
       /\ Len(h[i]) <= Len(g[i])
       /\ \A r \in 1..Len(h[i]) : g[i][r] = h[i][r]

\* An incarnation has a history, and a history has a length.
LEMMA HistoryLength ==
  ASSUME NEW h \in Histories, NEW i \in 1..Len(h)
  PROVE  h[i] \in Seq([Keys -> Stamps]) /\ Len(h[i]) \in Nat
BY DEF Histories

\* What a session held at a revision it reached is a content.
LEMMA AtType ==
  ASSUME NEW h \in Histories, NEW i \in 1..Len(h), NEW r \in 0..Len(h[i])
  PROVE  At(h, i, r) \in [Keys -> Stamps]
<1>1. EmptyContent \in [Keys -> Stamps]
  BY DEF EmptyContent, Untouched, Stamps
<1>2. r # 0 => h[i][r] \in [Keys -> Stamps]
  BY DEF Histories
<1> QED BY <1>1, <1>2 DEF At

\* Later commits and later incarnations change nothing that was held before.
LEMMA AtGrows ==
  ASSUME NEW h \in Histories, NEW g \in Histories, Grows(h, g),
         NEW i \in 1..Len(h), NEW r \in 0..Len(h[i])
  PROVE  At(g, i, r) = At(h, i, r)
BY DEF At, Grows, Histories

\* Applying a transaction to a content gives a content.
LEMMA OverwriteType ==
  ASSUME NEW content \in [Keys -> Stamps], NEW tx \in Transaction
  PROVE  Overwrite(content, tx) \in [Keys -> Stamps]
BY DEF Overwrite, Transaction

\* A run of commits stays one as the history grows.
LEMMA DeltaGrows ==
  ASSUME NEW h \in Histories, NEW g \in Histories, Grows(h, g), NEW i \in 1..Len(h),
         NEW tx, Delta(h, i, tx)
  PROVE  Delta(g, i, tx)
<1>1. tx.base \in 0..Len(h[i]) /\ tx.new \in 0..Len(h[i])
  BY DEF Delta, Transaction, Histories
<1>2. At(g, i, tx.base) = At(h, i, tx.base) /\ At(g, i, tx.new) = At(h, i, tx.new)
  BY <1>1, AtGrows
<1>3. tx.new <= Len(g[i])
  <2>1. i \in 1..Len(g)
    BY DEF Grows, Histories
  <2> QED BY <1>1, <2>1, HistoryLength DEF Grows
<1> QED BY <1>2, <1>3 DEF Delta

\* A snapshot stays one as the history grows.
LEMMA SnapshotGrows ==
  ASSUME NEW h \in Histories, NEW g \in Histories, Grows(h, g), NEW i \in 1..Len(h),
         NEW tx, Snapshot(h, i, tx)
  PROVE  Snapshot(g, i, tx)
<1>1. tx.new \in 0..Len(h[i])
  BY DEF Snapshot, Transaction, Histories
<1>2. At(g, i, tx.new) = At(h, i, tx.new)
  BY <1>1, AtGrows
<1>3. tx.new <= Len(g[i])
  <2>1. i \in 1..Len(g)
    BY DEF Grows, Histories
  <2> QED BY <1>1, <2>1, HistoryLength DEF Grows
<1> QED BY <1>2, <1>3 DEF Snapshot

\* So does all that a client has still to take.
LEMMA StreamGrows ==
  ASSUME NEW h \in Histories, NEW g \in Histories, Grows(h, g), NEW i \in 1..Len(h),
         NEW cl, NEW P, Stream(h, i, cl, P)
  PROVE  Stream(g, i, cl, P)
<1>1. P # <<>> => Expects(g, i, cl, P[1])
  BY DeltaGrows, SnapshotGrows DEF Stream, Expects
<1>2. ASSUME NEW m \in 1..(Len(P) - 1)
      PROVE  Continues(g, i, cl.replica.rev, P[m], P[m + 1])
  <2>1. Continues(h, i, cl.replica.rev, P[m], P[m + 1])
    BY DEF Stream
  <2> QED BY <2>1, DeltaGrows, SnapshotGrows DEF Continues
<1> QED BY <1>1, <1>2 DEF Stream

\* A run of commits and the commit after it are one run: the later value wins.
LEMMA AbsorbDelta ==
  ASSUME NEW h \in Histories, NEW i \in 1..Len(h), NEW t, NEW u,
         Delta(h, i, t), Delta(h, i, u), MayAbsorb(t, u)
  PROVE  /\ Delta(h, i, Absorb(t, u))
         /\ Absorb(t, u).base = t.base /\ Absorb(t, u).new = u.new
         /\ Absorb(t, u).scalar = t.scalar
<1> DEFINE v == Absorb(t, u)
<1>1. t \in Transaction /\ u \in Transaction
  BY DEF Delta
<1>2. /\ v \in Transaction /\ v.base = t.base /\ v.new = u.new /\ v.scalar = t.scalar
      /\ v.writes = Overwrite(t.writes, u)
  BY <1>1 DEF Absorb, Transaction, Overwrite
<1>3. v.base < v.new /\ v.new <= Len(h[i])
  BY <1>1, <1>2 DEF Delta, MayAbsorb, Transaction, Histories
<1>4. IsCoalesceable(v)
  <2>1. PICK k \in Keys : t.writes[k] # Untouched
    BY DEF MayAbsorb, IsCoalesceable, Operations
  <2>2. v.writes[k] # Untouched
    BY <1>2, <2>1 DEF Overwrite
  <2> QED BY <1>2, <2>2 DEF IsCoalesceable, Operations, MayAbsorb
<1>5. WellFormedDelivery(v)
  BY <1>1, <1>2, <1>3, <1>4 DEF WellFormedDelivery, Transaction
<1>6. Overwrite(At(h, i, v.base), v) = Overwrite(Overwrite(At(h, i, t.base), t), u)
  BY <1>1, <1>2 DEF Overwrite, Transaction
<1>7. Overwrite(At(h, i, v.base), v) = At(h, i, v.new)
  BY <1>2, <1>6 DEF Delta, MayAbsorb
<1> QED BY <1>2, <1>3, <1>5, <1>7 DEF Delta

-----------------------------------------------------------------------------
(***************************************************************************)
(* The pipe of a connection: what sending, queueing and receiving do to it.  *)
(***************************************************************************)

\* The pipe is a sequence of frames, as long as its three parts.
LEMMA PipeType ==
  ASSUME NEW w \in Seq(Frames), NEW b \in Seq(Frames), NEW q \in Seq(Transaction)
  PROVE  /\ Pipe(w, b, q) \in Seq(Frames)
         /\ Len(Pipe(w, b, q)) = Len(w) + Len(b) + Len(q)
         /\ \A n \in 1..Len(w) : Pipe(w, b, q)[n] = w[n]
         /\ \A n \in 1..Len(b) : Pipe(w, b, q)[Len(w) + n] = b[n]
         /\ \A n \in 1..Len(q) : Pipe(w, b, q)[Len(w) + Len(b) + n] = TxFrame(q[n])
<1> DEFINE P == Pipe(w, b, q)
           N == Len(w) + Len(b) + Len(q)
<1>1. Len(w) \in Nat /\ Len(b) \in Nat /\ Len(q) \in Nat
  OBVIOUS
<1>2. \A n \in 1..Len(q) : TxFrame(q[n]) \in Frames
  BY DEF TxFrame, Frames
<1>3. \A n \in 1..N : P[n] \in Frames
  BY <1>1, <1>2 DEF Pipe
<1>4. P \in [1..N -> Frames]
  BY <1>3 DEF Pipe
<1>5. P \in Seq(Frames)
  <2>1. N \in Nat
    BY <1>1
  <2> HIDE DEF P, N
  <2> QED BY <1>4, <2>1, SeqDef
<1>6. Len(P) = N
  <2>1. N \in Nat /\ DOMAIN P = 1..N /\ DOMAIN P = 1..Len(P) /\ Len(P) \in Nat
    BY <1>1, <1>4, <1>5, LenProperties
  <2> HIDE DEF P, N
  <2> QED BY <2>1
<1>7. \A n \in 1..Len(w) : P[n] = w[n]
  BY <1>1 DEF Pipe
<1>8. \A n \in 1..Len(b) : P[Len(w) + n] = b[n]
  BY <1>1 DEF Pipe
<1>9. \A n \in 1..Len(q) : P[Len(w) + Len(b) + n] = TxFrame(q[n])
  BY <1>1 DEF Pipe
<1> QED BY <1>5, <1>6, <1>7, <1>8, <1>9

\* A frame of the catch-up is sent: nothing on the way changes.
LEMMA PipeSendBoot ==
  ASSUME NEW w \in Seq(Frames), NEW b \in Seq(Frames), NEW q \in Seq(Transaction), b # <<>>
  PROVE  Pipe(Append(w, Head(b)), Tail(b), q) = Pipe(w, b, q)
<1> DEFINE P == Pipe(w, b, q)
           v == Append(w, Head(b))
           R == Pipe(v, Tail(b), q)
<1>1. v \in Seq(Frames) /\ Tail(b) \in Seq(Frames)
  OBVIOUS
<1>2. Len(v) = Len(w) + 1 /\ Len(Tail(b)) = Len(b) - 1
  OBVIOUS
<1>3. \A n \in 1..(Len(w) + Len(b) + Len(q)) : R[n] = P[n]
  BY <1>1, <1>2 DEF Pipe
<1>4. P \in Seq(Frames) /\ Len(P) = Len(w) + Len(b) + Len(q)
  BY PipeType
<1>5. R \in Seq(Frames) /\ Len(R) = Len(v) + Len(Tail(b)) + Len(q)
  <2> HIDE DEF v
  <2> QED BY <1>1, PipeType
<1>6. Len(R) = Len(P)
  BY <1>2, <1>4, <1>5
<1>7. R = P
  <2> HIDE DEF P, R
  <2> QED BY <1>3, <1>4, <1>5, <1>6, SeqEqual
<1> QED BY <1>7

\* A queued transaction is sent once the catch-up is.
LEMMA PipeSendQueued ==
  ASSUME NEW w \in Seq(Frames), NEW e, e = <<>>, NEW q \in Seq(Transaction), q # <<>>
  PROVE  Pipe(Append(w, TxFrame(Head(q))), e, Tail(q)) = Pipe(w, e, q)
<1> DEFINE P == Pipe(w, e, q)
           v == Append(w, TxFrame(Head(q)))
           R == Pipe(v, e, Tail(q))
<1>1. TxFrame(Head(q)) \in Frames
  BY DEF TxFrame, Frames
<1>2. v \in Seq(Frames) /\ Tail(q) \in Seq(Transaction) /\ e \in Seq(Frames) /\ Len(e) = 0
  BY <1>1
<1>3. /\ Len(v) = Len(w) + 1 /\ Len(Tail(q)) = Len(q) - 1
      /\ \A n \in 1..Len(w) : v[n] = w[n]
      /\ v[Len(w) + 1] = TxFrame(q[1])
      /\ \A n \in 1..(Len(q) - 1) : Tail(q)[n] = q[n + 1]
  BY <1>1
<1>4. \A n \in 1..(Len(w) + Len(q)) : R[n] = P[n]
  <2> HIDE DEF v
  <2> QED BY <1>2, <1>3 DEF Pipe
<1>5. P \in Seq(Frames) /\ Len(P) = Len(w) + Len(e) + Len(q)
  BY <1>2, PipeType
<1>6. R \in Seq(Frames) /\ Len(R) = Len(v) + Len(e) + Len(Tail(q))
  <2> HIDE DEF v
  <2> QED BY <1>2, PipeType
<1>7. Len(R) = Len(P) /\ Len(P) = Len(w) + Len(q)
  BY <1>2, <1>3, <1>5, <1>6
<1>8. R = P
  <2> HIDE DEF P, R
  <2> QED BY <1>4, <1>5, <1>6, <1>7, SeqEqual
<1> QED BY <1>8

\* A frame is received: the rest moves up.
LEMMA PipeReceive ==
  ASSUME NEW w \in Seq(Frames), NEW b \in Seq(Frames), NEW q \in Seq(Transaction), w # <<>>
  PROVE  /\ Pipe(w, b, q) # <<>> /\ Pipe(w, b, q)[1] = Head(w)
         /\ Pipe(Tail(w), b, q) \in Seq(Frames)
         /\ Len(Pipe(Tail(w), b, q)) = Len(Pipe(w, b, q)) - 1
         /\ \A n \in 1..Len(Pipe(Tail(w), b, q)) : Pipe(Tail(w), b, q)[n] = Pipe(w, b, q)[n + 1]
<1> DEFINE P == Pipe(w, b, q)
           v == Tail(w)
           R == Pipe(v, b, q)
<1>1. v \in Seq(Frames) /\ Len(v) = Len(w) - 1 /\ Len(w) >= 1
  OBVIOUS
<1>2. R \in Seq(Frames) /\ Len(R) = Len(w) - 1 + Len(b) + Len(q)
  <2> HIDE DEF v
  <2>1. R \in Seq(Frames) /\ Len(R) = Len(v) + Len(b) + Len(q)
    BY <1>1, PipeType
  <2> QED BY <1>1, <2>1
<1>3. P \in Seq(Frames) /\ Len(P) = Len(w) + Len(b) + Len(q) /\ P[1] = w[1]
  <2>1. P \in Seq(Frames) /\ Len(P) = Len(w) + Len(b) + Len(q) /\ \A n \in 1..Len(w) : P[n] = w[n]
    BY PipeType
  <2> QED BY <1>1, <2>1
<1>4. \A n \in 1..(Len(w) - 1 + Len(b) + Len(q)) : R[n] = P[n + 1]
  BY <1>1 DEF Pipe
<1>5. P # <<>> /\ P[1] = Head(w)
  <2> HIDE DEF P
  <2> QED BY <1>1, <1>3
<1> HIDE DEF P, R
<1>6. Len(R) = Len(P) - 1
  BY <1>2, <1>3
<1>7. \A n \in 1..Len(R) : R[n] = P[n + 1]
  BY <1>2, <1>4
<1> QED BY <1>2, <1>5, <1>6, <1>7 DEF P, R, v

\* A transaction is queued.
LEMMA PipePush ==
  ASSUME NEW w \in Seq(Frames), NEW b \in Seq(Frames), NEW q \in Seq(Transaction),
         NEW tx \in Transaction
  PROVE  Pipe(w, b, Append(q, tx)) = Append(Pipe(w, b, q), TxFrame(tx))
<1> DEFINE P == Pipe(w, b, q)
           r == Append(q, tx)
           R == Pipe(w, b, r)
           N == Len(w) + Len(b) + Len(q)
<1>1. r \in Seq(Transaction) /\ TxFrame(tx) \in Frames
  BY DEF TxFrame, Frames
<1>2. Len(r) = Len(q) + 1 /\ (\A n \in 1..Len(q) : r[n] = q[n]) /\ r[Len(q) + 1] = tx
  OBVIOUS
<1>3. P \in Seq(Frames) /\ Len(P) = N
  BY PipeType
<1>4. R \in Seq(Frames) /\ Len(R) = N + 1
  <2> HIDE DEF r
  <2>1. R \in Seq(Frames) /\ Len(R) = Len(w) + Len(b) + Len(r)
    BY <1>1, PipeType
  <2> QED BY <1>2, <2>1
<1>5. \A n \in 1..N : R[n] = P[n]
  <2> HIDE DEF r
  <2> TAKE n \in 1..N
  <2>1. CASE n <= Len(w) + Len(b)
    BY <1>2, <2>1 DEF Pipe
  <2>2. CASE n > Len(w) + Len(b)
    <3>1. n - Len(w) - Len(b) \in 1..Len(q)
      BY <2>2
    <3>2. R[n] = TxFrame(r[n - Len(w) - Len(b)])
      BY <1>2, <2>2 DEF Pipe
    <3>3. P[n] = TxFrame(q[n - Len(w) - Len(b)])
      BY <2>2 DEF Pipe
    <3> QED BY <1>2, <3>1, <3>2, <3>3
  <2> QED BY <2>1, <2>2
<1>6. R[N + 1] = TxFrame(tx)
  <2> HIDE DEF r
  <2> QED BY <1>2 DEF Pipe
<1>7. N \in Nat
  OBVIOUS
<1> DEFINE A == Append(P, TxFrame(tx))
<1> HIDE DEF P, R, N
<1>8. /\ A \in Seq(Frames) /\ Len(A) = N + 1
      /\ \A n \in 1..N : A[n] = P[n]
      /\ A[N + 1] = TxFrame(tx)
  BY <1>1, <1>3, <1>7
<1> HIDE DEF A
<1>9. ASSUME NEW n \in 1..(N + 1)
      PROVE  R[n] = A[n]
  <2>1. n \in 1..N \/ n = N + 1
    BY <1>7
  <2> QED BY <1>5, <1>6, <1>8, <2>1
<1>10. R = A
  BY <1>4, <1>8, <1>9, SeqEqual
<1> QED BY <1>10 DEF P, R, A

\* The tail of the queue takes in another transaction.
LEMMA PipeAbsorb ==
  ASSUME NEW w \in Seq(Frames), NEW b \in Seq(Frames), NEW q \in Seq(Transaction), q # <<>>,
         NEW tx \in Transaction
  PROVE  LET P == Pipe(w, b, q)
         IN  /\ P # <<>> /\ P[Len(P)] = TxFrame(Last(q))
             /\ Append(Front(q), tx) \in Seq(Transaction)
             /\ Pipe(w, b, Append(Front(q), tx)) = [P EXCEPT ![Len(P)] = TxFrame(tx)]
<1> DEFINE P == Pipe(w, b, q)
           r == Append(Front(q), tx)
           R == Pipe(w, b, r)
           N == Len(w) + Len(b) + Len(q)
           Q == [P EXCEPT ![Len(P)] = TxFrame(tx)]
<1>1. TxFrame(tx) \in Frames /\ Len(q) >= 1 /\ Len(q) \in Nat /\ q[Len(q)] \in Transaction
  BY DEF TxFrame, Frames
<1>2. /\ Front(q) \in Seq(Transaction) /\ Len(Front(q)) = Len(q) - 1
      /\ \A n \in 1..(Len(q) - 1) : Front(q)[n] = q[n]
  <2> DEFINE k == Len(q) - 1
             s == SubSeq(q, 1, k)
  <2>1. k \in Nat /\ \A n \in 1..k : q[n] \in Transaction
    BY <1>1
  <2> HIDE DEF k
  <2>2. s \in Seq(Transaction) /\ Len(s) = (IF 1 <= k THEN k - 1 + 1 ELSE 0) /\ \A n \in 1..(k - 1 + 1) : s[n] = q[1 + n - 1]
    BY <2>1, SubSeqProperties
  <2> HIDE DEF s
  <2>3. s \in Seq(Transaction) /\ Len(s) = k /\ \A n \in 1..k : s[n] = q[n]
    BY <2>1, <2>2
  <2> QED BY <2>3 DEF Front, s, k
<1>3. /\ r \in Seq(Transaction) /\ Len(r) = Len(q)
      /\ \A n \in 1..(Len(q) - 1) : r[n] = q[n]
      /\ r[Len(q)] = tx
  BY <1>1, <1>2
<1>4. /\ P \in Seq(Frames) /\ Len(P) = N
      /\ \A n \in 1..Len(q) : P[Len(w) + Len(b) + n] = TxFrame(q[n])
  BY PipeType
<1>5. P[N] = TxFrame(Last(q))
  BY <1>1, <1>4 DEF Last
<1>6. R \in Seq(Frames) /\ Len(R) = N
  <2> HIDE DEF r
  <2> QED BY <1>3, PipeType, SMTT(40)
<1>7. \A n \in 1..(N - 1) : R[n] = P[n]
  <2> HIDE DEF r
  <2> TAKE n \in 1..(N - 1)
  <2>1. CASE n <= Len(w) + Len(b)
    BY <1>1, <1>3, <2>1 DEF Pipe
  <2>2. CASE n > Len(w) + Len(b)
    <3>1. n - Len(w) - Len(b) \in 1..(Len(q) - 1)
      BY <2>2
    <3>2. R[n] = TxFrame(r[n - Len(w) - Len(b)])
      BY <1>1, <1>3, <2>2 DEF Pipe
    <3>3. P[n] = TxFrame(q[n - Len(w) - Len(b)])
      BY <2>2 DEF Pipe
    <3> QED BY <1>3, <3>1, <3>2, <3>3
  <2> QED BY <2>1, <2>2
<1>8. R[N] = TxFrame(tx)
  <2> HIDE DEF r
  <2> QED BY <1>1, <1>3 DEF Pipe
<1>9. N \in Nat /\ N >= 1
  BY <1>1
<1> HIDE DEF P, R, N, r
<1>10. P # <<>>
  BY <1>4, <1>9
<1>11. Q \in Seq(Frames) /\ Len(Q) = N /\ \A n \in 1..N : Q[n] = IF n = N THEN TxFrame(tx) ELSE P[n]
  BY <1>1, <1>4, <1>9, ExceptSeq
<1> HIDE DEF Q
<1>12. R = Q
  <2>1. \A n \in 1..N : R[n] = Q[n]
    BY <1>7, <1>8, <1>9, <1>11
  <2> QED BY <1>6, <1>11, <2>1, SeqEqual
<1> QED BY <1>3, <1>4, <1>5, <1>10, <1>12 DEF P, Q, R, r

\* A queue that gives up, or a task that returns, leaves a beginning of it.
LEMMA PipeCut ==
  ASSUME NEW w \in Seq(Frames), NEW b \in Seq(Frames), NEW q \in Seq(Transaction),
         NEW e, e = <<>>
  PROVE  /\ Pipe(w, b, e) \in Seq(Frames) /\ Len(Pipe(w, b, e)) <= Len(Pipe(w, b, q))
         /\ \A n \in 1..Len(Pipe(w, b, e)) : Pipe(w, b, e)[n] = Pipe(w, b, q)[n]
         /\ Pipe(w, e, e) = w /\ Len(w) <= Len(Pipe(w, b, q))
         /\ \A n \in 1..Len(w) : w[n] = Pipe(w, b, q)[n]
<1> DEFINE P == Pipe(w, b, q)
           R == Pipe(w, b, e)
           W == Pipe(w, e, e)
<1>1. e \in Seq(Frames) /\ e \in Seq(Transaction) /\ Len(e) = 0
  OBVIOUS
<1>2. \A n \in 1..(Len(w) + Len(b)) : R[n] = P[n]
  BY <1>1 DEF Pipe
<1>3. R \in Seq(Frames) /\ Len(R) = Len(w) + Len(b) + Len(e)
  BY <1>1, PipeType
<1>4. Len(P) = Len(w) + Len(b) + Len(q) /\ \A n \in 1..Len(w) : P[n] = w[n]
  BY PipeType
<1>5. W \in Seq(Frames) /\ Len(W) = Len(w) + Len(e) + Len(e) /\ \A n \in 1..Len(w) : W[n] = w[n]
  <2>1. ASSUME NEW d \in Seq(Frames), NEW f \in Seq(Transaction)
        PROVE  /\ Pipe(w, d, f) \in Seq(Frames) /\ Len(Pipe(w, d, f)) = Len(w) + Len(d) + Len(f)
               /\ \A n \in 1..Len(w) : Pipe(w, d, f)[n] = w[n]
    BY PipeType, ZenonT(40)
  <2> QED BY <1>1, <2>1
<1> HIDE DEF P, R, W
<1>6. W = w
  <2>1. Len(W) = Len(w)
    BY <1>1, <1>5
  <2> QED BY <1>5, <2>1, SeqEqual
<1>7. Len(R) = Len(w) + Len(b) /\ Len(R) <= Len(P) /\ Len(w) <= Len(P)
  BY <1>1, <1>3, <1>4
<1> QED BY <1>2, <1>3, <1>4, <1>6, <1>7 DEF P, R, W

-----------------------------------------------------------------------------
(***************************************************************************)
(* Streams: what a cut, a commit and a received frame make of them.          *)
(***************************************************************************)

Connected == {"awaitingWelcome", "awaitingResume", "replacing", "awaitingSnapshot", "active"}

\* A beginning of a stream is one.
LEMMA StreamCut ==
  ASSUME NEW h, NEW i, NEW cl, NEW P \in Seq(Frames), NEW R \in Seq(Frames),
         Stream(h, i, cl, P), Len(R) <= Len(P), \A n \in 1..Len(R) : R[n] = P[n]
  PROVE  Stream(h, i, cl, R)
<1>1. R # <<>> => P # <<>> /\ R[1] = P[1]
  OBVIOUS
<1>2. ASSUME NEW m \in 1..(Len(R) - 1)
      PROVE  Continues(h, i, cl.replica.rev, R[m], R[m + 1])
  <2>1. m \in 1..(Len(P) - 1) /\ R[m] = P[m] /\ R[m + 1] = P[m + 1]
    OBVIOUS
  <2> QED BY <2>1 DEF Stream
<1> QED BY <1>1, <1>2 DEF Stream

\* The commit a stream leads to may be followed by the next.
LEMMA StreamPush ==
  ASSUME NEW h, NEW i, NEW cl, NEW P \in Seq(Frames), NEW rev \in Nat, NEW tx,
         Stream(h, i, cl, P), Reaches(cl, P, rev), Delta(h, i, tx), tx.base = rev
  PROVE  /\ Stream(h, i, cl, Append(P, TxFrame(tx)))
         /\ Reaches(cl, Append(P, TxFrame(tx)), tx.new)
<1> DEFINE f == TxFrame(tx)
           R == Append(P, f)
<1>1. f \in Frames /\ f.kind = "tx" /\ f.tx = tx
  BY DEF Delta, TxFrame, Frames
<1>2. /\ R \in Seq(Frames) /\ R # <<>> /\ Len(R) = Len(P) + 1 /\ R[Len(P) + 1] = f
      /\ \A n \in 1..Len(P) : R[n] = P[n]
  BY <1>1, AppendProperties
<1>3. Reaches(cl, R, tx.new)
  <2> HIDE DEF f, R
  <2>1. R[Len(R)] = f
    BY <1>2
  <2> QED BY <1>1, <1>2, <2>1 DEF Reaches
<1>4. Expects(h, i, cl, R[1])
  <2>1. CASE P = <<>>
    <3>1. cl.phase = "active" /\ cl.replica.rev = rev /\ R[1] = f
      BY <1>2, <2>1 DEF Reaches
    <3> HIDE DEF f, R
    <3> QED BY <1>1, <3>1 DEF Expects
  <2>2. CASE P # <<>>
    <3>1. R[1] = P[1]
      BY <1>2, <2>2
    <3> HIDE DEF f, R
    <3> QED BY <2>2, <3>1 DEF Stream
  <2> QED BY <2>1, <2>2
<1>5. ASSUME NEW m \in 1..(Len(R) - 1)
      PROVE  Continues(h, i, cl.replica.rev, R[m], R[m + 1])
  <2> HIDE DEF f, R
  <2>1. CASE m < Len(P)
    <3>1. R[m] = P[m] /\ R[m + 1] = P[m + 1] /\ m \in 1..(Len(P) - 1)
      BY <1>2, <2>1
    <3> QED BY <3>1 DEF Stream
  <2>2. CASE m = Len(P)
    <3>1. R[m] = P[Len(P)] /\ R[m + 1] = f /\ P # <<>>
      BY <1>2, <2>2
    <3> QED BY <1>1, <3>1 DEF Continues, Reaches
  <2> QED BY <1>2, <2>1, <2>2
<1> HIDE DEF f, R
<1>6. Stream(h, i, cl, R)
  BY <1>4, <1>5 DEF Stream
<1> QED BY <1>3, <1>6 DEF f, R

\* Its last transaction may take in the commit that follows.
LEMMA StreamAbsorb ==
  ASSUME NEW h \in Histories, NEW i \in 1..Len(h), NEW cl, cl.phase \in Connected,
         NEW P \in Seq(Frames), P # <<>>, NEW t, NEW u, P[Len(P)] = TxFrame(t),
         Stream(h, i, cl, P), MayAbsorb(t, u), Delta(h, i, u)
  PROVE  LET R == [P EXCEPT ![Len(P)] = TxFrame(Absorb(t, u))]
         IN  Stream(h, i, cl, R) /\ Reaches(cl, R, u.new)
<1> DEFINE N == Len(P)
           v == Absorb(t, u)
           R == [P EXCEPT ![N] = TxFrame(v)]
<1>1. N \in Nat /\ N >= 1 /\ N \in 1..N
  OBVIOUS
<1>2. P[N].kind = "tx" /\ P[N].tx = t /\ P[N] \in Frames
  BY <1>1 DEF TxFrame
<1>3. Delta(h, i, t)
  <2>1. CASE N = 1
    <3>1. Expects(h, i, cl, P[N])
      BY <2>1 DEF Stream
    <3> HIDE DEF N
    <3> QED BY <1>2, <3>1 DEF Expects, Connected, Snapshot, MayAbsorb, IsCoalesceable
  <2>2. CASE N > 1
    <3>1. N - 1 \in 1..(N - 1) /\ N - 1 + 1 = N /\ P[N - 1] \in Frames
      BY <1>1, <2>2
    <3>2. Continues(h, i, cl.replica.rev, P[N - 1], P[N])
      BY <3>1 DEF Stream
    <3> HIDE DEF N
    <3>3. P[N - 1].kind \in {"welcome", "resumeOk", "resync", "tx"}
      BY <3>1 DEF Frames
    <3> QED BY <1>2, <3>2, <3>3 DEF Continues, Snapshot, MayAbsorb, IsCoalesceable
  <2>3. N = 1 \/ N > 1
    BY <1>1
  <2> HIDE DEF N
  <2> QED BY <2>1, <2>2, <2>3
<1>4. Delta(h, i, v) /\ v.base = t.base /\ v.new = u.new
  BY <1>3, AbsorbDelta
<1>5. TxFrame(v) \in Frames /\ TxFrame(v).kind = "tx" /\ TxFrame(v).tx = v
  BY <1>4 DEF TxFrame, Frames, Delta
<1>6. /\ R \in Seq(Frames) /\ Len(R) = N
      /\ \A j \in 1..N : R[j] = IF j = N THEN TxFrame(v) ELSE P[j]
  BY <1>1, <1>5, ExceptSeq
<1> HIDE DEF R, N, v
<1>7. R # <<>> /\ R[N] = TxFrame(v)
  BY <1>1, <1>6
<1>8. Reaches(cl, R, u.new)
  BY <1>4, <1>5, <1>6, <1>7 DEF Reaches
<1>9. Expects(h, i, cl, R[1])
  <2>1. Expects(h, i, cl, P[1])
    BY DEF Stream
  <2>2. CASE N = 1
    BY <1>2, <1>4, <1>5, <1>7, <2>1, <2>2 DEF Expects, Connected, Snapshot, MayAbsorb, IsCoalesceable
  <2>3. CASE N > 1
    BY <1>1, <1>6, <2>1, <2>3
  <2> QED BY <1>1, <2>2, <2>3
<1>10. ASSUME NEW m \in 1..(Len(R) - 1)
       PROVE  Continues(h, i, cl.replica.rev, R[m], R[m + 1])
  <2>1. Continues(h, i, cl.replica.rev, P[m], P[m + 1]) /\ R[m] = P[m] /\ m + 1 \in 1..N
    BY <1>1, <1>6 DEF Stream, N
  <2>2. CASE m + 1 = N
    <3>1. P[m] \in Frames
      BY <1>1, <2>1 DEF N
    <3>2. P[m].kind \in {"welcome", "resumeOk", "resync", "tx"}
      BY <3>1 DEF Frames
    <3> QED BY <1>2, <1>4, <1>5, <1>7, <2>1, <2>2, <3>2
            DEF Continues, Snapshot, MayAbsorb, IsCoalesceable
  <2>3. CASE m + 1 # N
    BY <1>6, <2>1, <2>3
  <2> QED BY <2>2, <2>3
<1>11. Stream(h, i, cl, R)
  BY <1>9, <1>10 DEF Stream
<1> QED BY <1>8, <1>11 DEF R, N, v

\* A received frame is gone; the client that took it expects the next one.
LEMMA StreamReceive ==
  ASSUME NEW h, NEW i, NEW cl, NEW next, NEW P \in Seq(Frames), NEW R \in Seq(Frames),
         Stream(h, i, cl, P), P # <<>>,
         Len(R) = Len(P) - 1, \A n \in 1..Len(R) : R[n] = P[n + 1],
         next.mirrors = i, next.session = i, i \in Nat,
         Len(P) > 1 => Expects(h, i, next, P[2])
  PROVE  /\ Stream(h, i, next, R)
         /\ \A rev : /\ Reaches(cl, P, rev)
                     /\ Len(P) = 1 => next.phase = "active" /\ next.replica.rev = rev
                     => Reaches(next, R, rev)
<1>1. R # <<>> => Expects(h, i, next, R[1])
  <2>1. R # <<>> => Len(R) >= 1
    OBVIOUS
  <2> QED BY <2>1
<1>2. ASSUME NEW m \in 1..(Len(R) - 1)
      PROVE  Continues(h, i, next.replica.rev, R[m], R[m + 1])
  <2>1. /\ R[m] = P[m + 1] /\ R[m + 1] = P[m + 1 + 1]
        /\ m \in 1..(Len(P) - 1) /\ m + 1 \in 1..(Len(P) - 1)
    OBVIOUS
  <2>2. Continues(h, i, cl.replica.rev, R[m], R[m + 1])
    BY <2>1 DEF Stream
  <2>3. R[m].kind = "tx"
    BY <2>1 DEF Stream, Continues
  <2> QED BY <2>2, <2>3 DEF Continues
<1>3. ASSUME NEW rev, Reaches(cl, P, rev),
             Len(P) = 1 => next.phase = "active" /\ next.replica.rev = rev
      PROVE  Reaches(next, R, rev)
  <2>1. CASE Len(P) = 1
    <3>1. R = <<>>
      BY <2>1
    <3> QED BY <1>3, <2>1, <3>1 DEF Reaches
  <2>2. CASE Len(P) > 1
    <3>1. R # <<>> /\ R[Len(R)] = P[Len(P)] /\ Len(P) - 1 \in 1..(Len(P) - 1)
      BY <2>2
    <3>2. P[Len(P)].kind = "tx"
      BY <3>1 DEF Stream, Continues
    <3> QED BY <1>3, <3>1, <3>2 DEF Reaches
  <2> QED BY <2>1, <2>2
<1>4. Stream(h, i, next, R)
  BY <1>1, <1>2 DEF Stream
<1> QED BY <1>3, <1>4

-----------------------------------------------------------------------------
(***************************************************************************)
(* Steps of one connection, and steps of one client.                       *)
(***************************************************************************)

\* A connection's state changes: what holds of it afterwards is all there is to
\* show.
LEMMA ConnectionMoves ==
  ASSUME IInv, NEW c \in Conns, NEW t \in Tasks, NEW s \in Subscribers, NEW w \in Seq(Frames),
         task' = [task EXCEPT ![c] = t], sub' = [sub EXCEPT ![c] = s],
         wire' = [wire EXCEPT ![c] = w],
         UNCHANGED <<inc, store, journal, client, drops, history>>,
         overflowed' \subseteq overflowed,
         TaskOK(history, inc, t, s),
         \A a \in Clients : Serves(a, c) => Linked(history, inc, client[a], t, s, w)
  PROVE  IInv'
<1> USE DEF IInv
<1>1. TypeOK'
  BY DEF TypeOK, Controllers
<1>2. StoreInv' /\ JournalInv'
  BY DEF StoreInv, JournalInv
<1>3. TaskInv'
  BY DEF TaskInv, TypeOK
<1>4. ClientInv'
  BY DEF ClientInv
<1>5. StreamInv'
  <2> SUFFICES ASSUME NEW a \in Clients, client[a].conn # NoConn
               PROVE  LET d == client[a].conn
                      IN  Linked(history, inc, client[a], task'[d], sub'[d], wire'[d])
    BY DEF StreamInv
  <2> DEFINE d == client[a].conn
  <2>1. d \in Conns
    BY DEF TypeOK, Controllers
  <2>2. CASE d = c
    BY <2>1, <2>2 DEF TypeOK, Serves
  <2>3. CASE d # c
    <3>1. task'[d] = task[d] /\ sub'[d] = sub[d] /\ wire'[d] = wire[d]
      BY <2>1, <2>3 DEF TypeOK
    <3> QED BY <3>1 DEF StreamInv
  <2> QED BY <2>2, <2>3
<1> QED BY <1>1, <1>2, <1>3, <1>4, <1>5

\* A client's state changes, and what is on its wire with it.
LEMMA ClientMoves ==
  ASSUME IInv, NEW a \in Clients, NEW n \in Controllers, NEW W \in [Conns -> Seq(Frames)],
         client' = [client EXCEPT ![a] = n], wire' = W,
         \A d \in Conns : d # client[a].conn => W[d] = wire[d],
         UNCHANGED <<inc, store, journal, sub, task, history, overflowed>>,
         drops' \in 0..MaxDrops,
         n.conn = client[a].conn \/ n.conn = NoConn,
         Known(n), Faithful(history, n),
         n.conn # NoConn => Linked(history, inc, n, task[n.conn], sub[n.conn], W[n.conn])
  PROVE  IInv'
<1> USE DEF IInv
<1>1. TypeOK'
  BY DEF TypeOK, Controllers
<1>2. StoreInv' /\ JournalInv' /\ TaskInv'
  BY DEF StoreInv, JournalInv, TaskInv
<1>3. \A b \in Clients : client'[b] = IF b = a THEN n ELSE client[b]
  BY DEF TypeOK
<1>4. ClientInv'
  BY <1>3 DEF ClientInv
<1>5. StreamInv'
  <2> SUFFICES ASSUME NEW b \in Clients, client'[b].conn # NoConn
               PROVE  LET d == client'[b].conn
                      IN  Linked(history, inc, client'[b], task[d], sub[d], W[d])
    BY DEF StreamInv
  <2>1. CASE b = a
    BY <1>3, <2>1
  <2>2. CASE b # a
    <3>1. client'[b] = client[b] /\ client[b].conn \in Conns
      BY <1>3, <2>2 DEF TypeOK, Controllers
    <3>2. client[b].conn # client[a].conn
      BY <2>2, <3>1 DEF ClientInv
    <3> QED BY <3>1, <3>2 DEF StreamInv
  <2> QED BY <2>1, <2>2
<1> QED BY <1>1, <1>2, <1>4, <1>5

-----------------------------------------------------------------------------
(***************************************************************************)
(* The catch-up of a new subscription.                                     *)
(***************************************************************************)

\* What the catch-up consists of is all that is on the way.
LEMMA PipeOpens ==
  ASSUME NEW e, e = <<>>, NEW b \in Seq(Frames)
  PROVE  Pipe(e, b, e) = b
<1> DEFINE P == Pipe(e, b, e)
<1>1. e \in Seq(Frames) /\ e \in Seq(Transaction) /\ Len(e) = 0
  OBVIOUS
<1>2. P \in Seq(Frames) /\ Len(P) = Len(e) + Len(b) + Len(e)
  BY <1>1, PipeType
<1>3. \A n \in 1..Len(b) : P[n] = b[n]
  BY <1>1 DEF Pipe
<1> HIDE DEF P
<1>4. Len(P) = Len(b)
  BY <1>1, <1>2
<1>5. P = b
  BY <1>2, <1>3, <1>4, SeqEqual
<1> QED BY <1>5 DEF P

\* A replay from revision at is the commits after it, one by one (iter_from).
LEMMA ReplayEntries ==
  ASSUME IInv, NEW at \in Nat, CanReplayFrom(journal, at)
  PROVE  LET es == ReplayFrom(journal, at)
         IN  /\ es \in Seq(Transaction) /\ Len(es) = store.rev - at
             /\ \A k \in 1..Len(es) :
                  /\ Delta(history, inc, es[k])
                  /\ es[k].base = at + k - 1 /\ es[k].new = at + k
<1> DEFINE E == journal.entries
           es == ReplayFrom(journal, at)
<1>1. /\ E \in Seq(Transaction) /\ Len(E) \in Nat
      /\ journal.earliest \in Nat /\ journal.latest \in Nat
  BY DEF IInv, TypeOK
<1>2. /\ journal.latest = store.rev /\ journal.earliest + Len(E) = journal.latest
      /\ \A k \in 1..Len(E) :
           /\ Delta(history, inc, E[k])
           /\ E[k].base = journal.earliest + k - 1 /\ E[k].new = journal.earliest + k
  BY DEF IInv, JournalInv
<1>3. CASE at = journal.latest
  BY <1>1, <1>2, <1>3 DEF ReplayFrom
<1>4. CASE at # journal.latest
  <2> DEFINE o == at - journal.earliest
  <2>1. o \in Nat /\ o < Len(E) /\ at = journal.earliest + o
    BY <1>1, <1>2, <1>4 DEF CanReplayFrom
  <2>2. es = SubSeq(E, o + 1, Len(E))
    BY <1>4 DEF ReplayFrom
  <2> HIDE DEF E, o, es
  <2>3. \A n \in (o + 1)..Len(E) : E[n] \in Transaction
    BY <1>1, <2>1
  <2>4. /\ es \in Seq(Transaction) /\ Len(es) = Len(E) - o
        /\ \A n \in 1..(Len(E) - o) : es[n] = E[o + n]
    <3>1. /\ es \in Seq(Transaction)
          /\ Len(es) = (IF o + 1 <= Len(E) THEN Len(E) - (o + 1) + 1 ELSE 0)
          /\ \A n \in 1..(Len(E) - (o + 1) + 1) : es[n] = E[o + 1 + n - 1]
      BY <1>1, <2>1, <2>2, <2>3, SubSeqProperties
    <3> QED BY <1>1, <2>1, <3>1
  <2>5. Len(es) = store.rev - at
    BY <1>1, <1>2, <2>1, <2>4
  <2>6. ASSUME NEW k \in 1..Len(es)
        PROVE  /\ Delta(history, inc, es[k])
               /\ es[k].base = at + k - 1 /\ es[k].new = at + k
    <3>1. o + k \in 1..Len(E) /\ es[k] = E[o + k]
      BY <1>1, <2>1, <2>4
    <3> DEFINE j == o + k
    <3>2. Delta(history, inc, E[j]) /\ E[j].base = journal.earliest + j - 1
          /\ E[j].new = journal.earliest + j
      <4> HIDE DEF j
      <4> QED BY <1>2, <3>1 DEF j
    <3>3. journal.earliest + j - 1 = at + k - 1 /\ journal.earliest + j = at + k
      BY <1>1, <2>1
    <3> QED BY <3>1, <3>2, <3>3
  <2> QED BY <2>4, <2>5, <2>6 DEF es
<1> QED BY <1>3, <1>4

\* A client of the running session can take the replay from its revision.
LEMMA ReplayStream ==
  ASSUME IInv, NEW cl, NEW at \in Nat, CanReplayFrom(journal, at),
         cl.phase = "awaitingResume", cl.session = inc, cl.mirrors = inc, cl.replica.rev = at
  PROVE  LET b == ReplayBootstrap(at)
         IN  /\ b \in Seq(Frames)
             /\ Stream(history, inc, cl, b) /\ Reaches(cl, b, store.rev)
<1> DEFINE es == ReplayFrom(journal, at)
           ok == [kind |-> "resumeOk", inc |-> inc]
           F == [k \in 1..Len(es) |-> [kind |-> "tx", tx |-> es[k]]]
           b == ReplayBootstrap(at)
<1>1. inc \in Nat /\ store.rev \in Nat
  BY DEF IInv, TypeOK, Replicas
<1>2. /\ es \in Seq(Transaction) /\ Len(es) = store.rev - at
      /\ \A k \in 1..Len(es) :
           Delta(history, inc, es[k]) /\ es[k].base = at + k - 1 /\ es[k].new = at + k
  BY ReplayEntries
<1> HIDE DEF es
<1>3. F \in Seq(Frames) /\ Len(F) = Len(es) /\ \A k \in 1..Len(es) : F[k] = TxFrame(es[k])
  <2>1. \A k \in 1..Len(es) : F[k] \in Frames
    BY <1>2 DEF Frames
  <2>2. F \in [1..Len(es) -> Frames]
    BY <2>1
  <2>5. Len(es) \in Nat
    BY <1>2
  <2>3. \A k \in 1..Len(es) : F[k] = TxFrame(es[k])
    BY DEF TxFrame
  <2> HIDE DEF F
  <2>4. F \in Seq(Frames)
    BY <2>2, <2>5, SeqDef
  <2> QED BY <2>2, <2>3, <2>4, <2>5, LenProperties
<1>4. ok \in Frames
  BY <1>1 DEF Frames
<1>5. b = <<ok>> \o F
  BY DEF ReplayBootstrap, es
<1> HIDE DEF F, b
<1>6. /\ b \in Seq(Frames) /\ Len(b) = 1 + Len(es) /\ b[1] = ok
      /\ \A k \in 1..Len(es) : b[k + 1] = TxFrame(es[k])
  <2>1. <<ok>> \in Seq(Frames) /\ Len(<<ok>>) = 1 /\ <<ok>>[1] = ok
    BY <1>4
  <2> HIDE DEF ok
  <2> QED BY <1>2, <1>3, <1>5, <2>1, ConcatProperties
<1>7. ok.kind = "resumeOk" /\ ok.inc = inc
  OBVIOUS
<1>8. \A k \in 1..Len(es) : TxFrame(es[k]).kind = "tx" /\ TxFrame(es[k]).tx = es[k]
  BY DEF TxFrame
<1> HIDE DEF ok
<1>9. b # <<>> /\ Expects(history, inc, cl, b[1])
  BY <1>6, <1>7 DEF Expects
<1>10. ASSUME NEW m \in 1..(Len(b) - 1)
       PROVE  Continues(history, inc, cl.replica.rev, b[m], b[m + 1])
  <2>1. m \in 1..Len(es) /\ b[m + 1] = TxFrame(es[m])
    BY <1>2, <1>6
  <2>2. CASE m = 1
    BY <1>2, <1>6, <1>7, <1>8, <2>1, <2>2, SMTT(40) DEF Continues
  <2>3. CASE m > 1
    <3> DEFINE j == m - 1
    <3>1. j \in 1..Len(es) /\ j + 1 = m
      BY <1>2, <2>1, <2>3, SMTT(30)
    <3>3. b[m] = TxFrame(es[m - 1])
      <4> HIDE DEF j
      <4>1. b[j + 1] = TxFrame(es[j])
        BY <1>6, <3>1
      <4> QED BY <3>1, <4>1 DEF j
    <3>2. es[m].base = es[m - 1].new
      BY <1>2, <2>1, <3>1
    <3> QED BY <1>2, <1>8, <2>1, <3>1, <3>2, <3>3 DEF Continues
  <2> QED BY <2>1, <2>2, <2>3
<1>11. Stream(history, inc, cl, b)
  BY <1>1, <1>9, <1>10 DEF Stream, Opened
<1>12. Reaches(cl, b, store.rev)
  <2>1. CASE Len(es) = 0
    BY <1>1, <1>2, <1>6, <1>7, <1>9, <2>1, SMTT(40) DEF Reaches
  <2>2. CASE Len(es) > 0
    <3> DEFINE j == Len(es)
    <3>3. j \in 1..Len(es) /\ Len(b) = j + 1
      BY <1>2, <1>6, <2>2
    <3>1. Len(es) \in 1..Len(es) /\ b[Len(b)] = TxFrame(es[Len(es)])
      <4> HIDE DEF j
      <4>1. b[j + 1] = TxFrame(es[j])
        BY <1>6, <3>3
      <4> QED BY <3>3, <4>1 DEF j
    <3>2. es[Len(es)].new = store.rev
      BY <1>1, <1>2, <3>1, SMTT(40)
    <3> QED BY <1>8, <1>9, <3>1, <3>2 DEF Reaches
  <2> QED BY <1>2, <2>1, <2>2
<1> QED BY <1>6, <1>11, <1>12 DEF b

\* A snapshot of the store can be taken by whoever asked for one.
LEMMA SnapshotStream ==
  ASSUME IInv, NEW cl, cl.replica.rev \in Nat, cl.mirrors <= inc, NEW cause,
         cl.phase = IF cause = "fresh" THEN "awaitingWelcome" ELSE "awaitingResume",
         cause # "fresh" => (cause = "replaced" <=> cl.session # inc),
         cl.session = inc => cl.replica.rev <= store.rev,
         NEW captured \in Replicas, captured.rev = store.rev,
         captured.content = At(history, inc, captured.rev)
  PROVE  LET b == SnapshotBootstrap(cause, captured)
         IN  /\ b \in Seq(Frames)
             /\ Stream(history, inc, cl, b) /\ Reaches(cl, b, store.rev)
<1> DEFINE tx == ExportSnapshotTransaction(captured)
           g == TxFrame(tx)
           b == SnapshotBootstrap(cause, captured)
<1>1. inc \in Nat /\ store.rev \in Nat /\ store.rev = Len(history[inc])
  BY DEF IInv, TypeOK, StoreInv, Replicas
<1>2. tx \in Transaction /\ tx.new = store.rev /\ Snapshot(history, inc, tx)
  BY <1>1 DEF ExportSnapshotTransaction, Transaction, Snapshot, Replicas
<1> HIDE DEF tx
<1>3. g \in Frames /\ g.kind = "tx" /\ g.tx = tx
  BY <1>2 DEF TxFrame, Frames
<1>4. ASSUME NEW f \in Frames, Expects(history, inc, cl, f),
             Continues(history, inc, cl.replica.rev, f, g), b = <<f, g>>
      PROVE  b \in Seq(Frames) /\ Stream(history, inc, cl, b) /\ Reaches(cl, b, store.rev)
  <2> HIDE DEF g, b
  <2>1. b \in Seq(Frames) /\ b # <<>> /\ Len(b) = 2 /\ b[1] = f /\ b[2] = g
    BY <1>3, <1>4
  <2>2. \A m \in 1..(Len(b) - 1) : Continues(history, inc, cl.replica.rev, b[m], b[m + 1])
    BY <1>4, <2>1
  <2>3. Stream(history, inc, cl, b)
    BY <1>4, <2>1, <2>2 DEF Stream, Opened
  <2>4. Reaches(cl, b, store.rev)
    BY <1>2, <1>3, <2>1 DEF Reaches
  <2> QED BY <2>1, <2>3, <2>4
<1>5. CASE cause = "fresh" /\ captured.rev = 0
  <2> DEFINE f == [kind |-> "welcome", inc |-> inc, rev |-> 0]
  <2>1. f \in Frames /\ b = <<f>> /\ f.kind = "welcome" /\ f.rev = 0 /\ f.inc = inc
    BY <1>1, <1>5 DEF Frames, SnapshotBootstrap
  <2> HIDE DEF f, b, g
  <2>2. b \in Seq(Frames) /\ b # <<>> /\ Len(b) = 1 /\ b[1] = f
    BY <2>1
  <2>3. Stream(history, inc, cl, b)
    BY <1>5, <2>1, <2>2 DEF Stream, Opened, Expects
  <2>4. Reaches(cl, b, store.rev)
    BY <1>1, <1>5, <2>1, <2>2 DEF Reaches
  <2> QED BY <2>2, <2>3, <2>4 DEF b
<1>6. CASE cause = "fresh" /\ captured.rev # 0
  <2> DEFINE f == [kind |-> "welcome", inc |-> inc, rev |-> captured.rev]
  <2>1. /\ f \in Frames /\ b = <<f, g>> /\ f.kind = "welcome" /\ f.rev = captured.rev
        /\ f.inc = inc
    BY <1>1, <1>6 DEF Frames, SnapshotBootstrap, TxFrame, tx
  <2> HIDE DEF f, g, b
  <2>2. Expects(history, inc, cl, f) /\ Continues(history, inc, cl.replica.rev, f, g)
    BY <1>2, <1>3, <1>6, <2>1 DEF Expects, Continues
  <2> QED BY <1>4, <2>1, <2>2 DEF b
<1>7. CASE cause # "fresh"
  <2> DEFINE f == [kind |-> "resync", inc |-> inc, replaced |-> (cause = "replaced")]
  <2>1. /\ f \in Frames /\ b = <<f, g>> /\ f.kind = "resync" /\ f.inc = inc
        /\ f.replaced = (cause = "replaced")
    BY <1>1, <1>7 DEF Frames, SnapshotBootstrap, TxFrame, tx
  <2> HIDE DEF f, g, b
  <2>2. Expects(history, inc, cl, f) /\ Continues(history, inc, cl.replica.rev, f, g)
    BY <1>1, <1>2, <1>3, <1>7, <2>1 DEF Expects, Continues
  <2> QED BY <1>4, <2>1, <2>2 DEF b
<1> QED BY <1>5, <1>6, <1>7

Causes == {"none", "fresh", "replaced", "overflow", "gap"}

\* The client at the other end of a connection that is not yet subscribed.
LEMMA AskingClient ==
  ASSUME IInv, NEW c \in Conns, task[c].phase \in {"hello", "exporting"},
         NEW a \in Clients, Serves(a, c)
  PROVE  /\ client[a].phase = IF task[c].asks = 0 THEN "awaitingWelcome" ELSE "awaitingResume"
         /\ client[a].session = task[c].asks /\ client[a].replica.rev = task[c].at
         /\ client[a].mirrors <= inc /\ client[a].replica.rev \in Nat
         /\ client[a].session = inc =>
              client[a].mirrors = inc /\ client[a].replica.rev <= store.rev
<1> DEFINE cl == client[a]
<1>1. /\ cl.conn = c /\ c # NoConn /\ inc \in Nat /\ cl.mirrors \in 0..inc
      /\ cl.saved \in 0..inc /\ cl.replica \in Replicas
  BY SyncAssumption DEF IInv, TypeOK, Serves, Controllers
<1>2. Known(cl) /\ Faithful(history, cl)
  BY DEF IInv, ClientInv
<1>3. /\ cl.phase \in {"awaitingWelcome", "awaitingResume"}
      /\ task[c].asks = cl.session /\ task[c].at = cl.replica.rev
  BY <1>1 DEF IInv, StreamInv, Linked
<1>4. store.rev = Len(history[inc]) /\ inc >= 1
  BY DEF IInv, TypeOK, StoreInv
<1> HIDE DEF cl
<1>5. cl.session = inc => cl.mirrors = inc /\ cl.replica.rev <= store.rev
  BY <1>1, <1>2, <1>3, <1>4 DEF Known, Faithful
<1> QED BY <1>1, <1>2, <1>3, <1>5 DEF Known, Replicas, cl

\* A connection subscribes with a catch-up its client can take.
LEMMA Subscribes ==
  ASSUME IInv, NEW c \in Conns, task[c].phase \in {"hello", "exporting"},
         NEW cause \in Causes, NEW boot \in Seq(Frames), Subscribe(c, cause, boot),
         UNCHANGED <<inc, store, journal, wire, client, drops, history>>,
         \A a \in Clients : Serves(a, c) =>
           Stream(history, inc, client[a], boot) /\ Reaches(client[a], boot, store.rev)
  PROVE  IInv'
<1> DEFINE t == [task[c] EXCEPT !.phase = "sending", !.cause = cause, !.boot = boot]
           s == NewSubscriber
<1>1. task \in [Conns -> Tasks] /\ sub \in [Conns -> Subscribers] /\ wire \in [Conns -> Seq(Frames)]
  BY DEF IInv, TypeOK
<1>2. /\ t \in Tasks /\ t.phase = "sending" /\ t.boot = boot
      /\ task' = [task EXCEPT ![c] = t]
  BY <1>1, ZenonT(40) DEF Subscribe, Tasks, Causes
<1>3. /\ s \in Subscribers /\ s.items = <<>> /\ ~s.stale /\ ~s.closed
      /\ sub' = [sub EXCEPT ![c] = s]
  BY <1>1 DEF NewSubscriber, Subscribers, Subscribe
<1>4. overflowed' \subseteq overflowed /\ wire' = [wire EXCEPT ![c] = wire[c]]
  BY <1>1 DEF Subscribe
<1> HIDE DEF t, s
<1>5. TaskOK(history, inc, t, s)
  BY <1>2, <1>3 DEF TaskOK
<1>6. ASSUME NEW a \in Clients, Serves(a, c)
      PROVE  Linked(history, inc, client[a], t, s, wire[c])
  <2>1. wire[c] = <<>> /\ store.rev = Len(history[inc])
    BY <1>6, SyncAssumption DEF IInv, StreamInv, Linked, StoreInv, Serves
  <2>2. Pipe(wire[c], t.boot, s.items) = boot
    BY <1>2, <1>3, <2>1, PipeOpens
  <2> QED BY <1>2, <1>6, <2>1, <2>2 DEF Linked
<1> QED BY <1>1, <1>2, <1>3, <1>4, <1>5, <1>6, ConnectionMoves

\* The journal still covers the client: the catch-up is a replay.
LEMMA StepDecideReplay ==
  ASSUME IInv, NEW c \in Conns, DecideReplay(c)
  PROVE  IInv'
<1> DEFINE at == task[c].at
<1>1. task[c].phase = "hello" /\ task[c] \in Tasks /\ at \in Nat /\ ResyncCause(task[c]) = "none"
  BY DEF DecideReplay, IInv, TypeOK, Tasks
<1>2. task[c].asks = inc /\ CanReplayFrom(journal, at)
  BY <1>1 DEF ResyncCause
<1>3. inc \in Nat /\ inc # 0
  BY DEF IInv, TypeOK
<1>4. ReplayBootstrap(at) \in Seq(Frames)
  <2> DEFINE cl == [phase |-> "awaitingResume", session |-> inc, mirrors |-> inc,
                    replica |-> [rev |-> at, content |-> EmptyContent]]
  <2>1. /\ cl.phase = "awaitingResume" /\ cl.session = inc /\ cl.mirrors = inc
        /\ cl.replica.rev = at
    OBVIOUS
  <2> HIDE DEF cl, at
  <2> QED BY <1>1, <1>2, <2>1, ReplayStream
<1>5. ASSUME NEW a \in Clients, Serves(a, c)
      PROVE  /\ Stream(history, inc, client[a], ReplayBootstrap(at))
             /\ Reaches(client[a], ReplayBootstrap(at), store.rev)
  <2>1. /\ client[a].phase = "awaitingResume" /\ client[a].session = inc
        /\ client[a].mirrors = inc /\ client[a].replica.rev = at
    BY <1>1, <1>2, <1>3, <1>5, AskingClient
  <2> HIDE DEF at
  <2> QED BY <1>1, <1>2, <2>1, ReplayStream
<1> QED BY <1>1, <1>4, <1>5, Subscribes DEF DecideReplay, Causes

\* A snapshot of the store as it is now answers the reason that asked for it.
LEMMA SnapshotAnswers ==
  ASSUME IInv, NEW c \in Conns, task[c].phase \in {"hello", "exporting"},
         NEW cause, cause = ResyncCause(task[c]), cause # "none",
         NEW captured \in Replicas, captured.rev = store.rev,
         captured.content = At(history, inc, captured.rev)
  PROVE  /\ cause \in Causes /\ SnapshotBootstrap(cause, captured) \in Seq(Frames)
         /\ \A a \in Clients : Serves(a, c) =>
              /\ Stream(history, inc, client[a], SnapshotBootstrap(cause, captured))
              /\ Reaches(client[a], SnapshotBootstrap(cause, captured), store.rev)
<1>1. inc \in Nat /\ inc # 0 /\ task[c] \in Tasks /\ store.rev \in Nat
  BY DEF IInv, TypeOK, Replicas
<1>2. /\ cause \in Causes
      /\ cause = "fresh" <=> task[c].asks = 0
      /\ cause # "fresh" => (cause = "replaced" <=> task[c].asks # inc)
  <2>1. CASE task[c].asks = 0
    BY <1>1, <2>1 DEF ResyncCause, Causes
  <2>2. CASE task[c].asks # 0 /\ task[c].asks # inc
    BY <2>2 DEF ResyncCause, Causes
  <2>3. CASE task[c].asks # 0 /\ task[c].asks = inc
    <3>1. cause \in {"overflow", "gap"}
      BY <2>3 DEF ResyncCause
    <3> QED BY <2>3, <3>1 DEF Causes
  <2> QED BY <2>1, <2>2, <2>3
<1>3. SnapshotBootstrap(cause, captured) \in Seq(Frames)
  <2> DEFINE cl == [phase |-> IF cause = "fresh" THEN "awaitingWelcome" ELSE "awaitingResume",
                    session |-> IF cause = "replaced" THEN 0 ELSE inc, mirrors |-> inc,
                    replica |-> EmptyReplica]
  <2>1. /\ cl.phase = IF cause = "fresh" THEN "awaitingWelcome" ELSE "awaitingResume"
        /\ cause = "replaced" <=> cl.session # inc
        /\ cl.mirrors <= inc /\ cl.replica.rev \in Nat /\ cl.replica.rev <= store.rev
    BY <1>1 DEF EmptyReplica
  <2> HIDE DEF cl
  <2> QED BY <2>1, SnapshotStream
<1>4. ASSUME NEW a \in Clients, Serves(a, c)
      PROVE  /\ Stream(history, inc, client[a], SnapshotBootstrap(cause, captured))
             /\ Reaches(client[a], SnapshotBootstrap(cause, captured), store.rev)
  <2>1. /\ client[a].phase = IF cause = "fresh" THEN "awaitingWelcome" ELSE "awaitingResume"
        /\ client[a].session = task[c].asks
        /\ client[a].mirrors <= inc /\ client[a].replica.rev \in Nat
        /\ client[a].session = inc => client[a].replica.rev <= store.rev
    BY <1>2, <1>4, AskingClient
  <2> QED BY <1>2, <2>1, SnapshotStream
<1> QED BY <1>2, <1>3, <1>4

\* The export outside the lock is current: the catch-up is that snapshot.
LEMMA StepSubscribeExported ==
  ASSUME IInv, NEW c \in Conns, SubscribeExported(c)
  PROVE  IInv'
<1>1. /\ task[c].phase = "exporting" /\ task[c] \in Tasks
      /\ task[c].captured \in Replicas /\ task[c].captured.rev = store.rev
      /\ task[c].cause = ResyncCause(task[c])
  BY DEF SubscribeExported, CaptureCurrent, IInv, TypeOK, Tasks
<1>2. task[c].captured.content = At(history, inc, task[c].captured.rev)
  BY <1>1 DEF IInv, TaskInv, TaskOK
<1>3. task[c].cause # "none"
  BY <1>1 DEF IInv, TaskInv, TaskOK
<1> QED BY <1>1, <1>2, <1>3, SnapshotAnswers, Subscribes DEF SubscribeExported

\* After too many retries the snapshot is taken under the lock.
LEMMA StepExportLocked ==
  ASSUME IInv, NEW c \in Conns, ExportLocked(c)
  PROVE  IInv'
<1>1. task[c].phase = "hello" /\ ResyncCause(task[c]) # "none" /\ store \in Replicas
  BY DEF ExportLocked, IInv, TypeOK
<1>2. store.content = At(history, inc, store.rev)
  BY DEF IInv, StoreInv
<1> QED BY <1>1, <1>2, SnapshotAnswers, Subscribes DEF ExportLocked

\* The task captures a state to export and goes on without the lock.
LEMMA StepCaptureSnapshot ==
  ASSUME IInv, NEW c \in Conns, CaptureSnapshot(c)
  PROVE  IInv'
<1> DEFINE cause == ResyncCause(task[c])
           t == [task[c] EXCEPT !.phase = "exporting", !.captured = store, !.cause = cause]
<1>1. /\ task \in [Conns -> Tasks] /\ sub \in [Conns -> Subscribers]
      /\ wire \in [Conns -> Seq(Frames)] /\ store \in Replicas
  BY DEF IInv, TypeOK
<1>2. /\ task[c].phase = "hello" /\ cause # "none" /\ task[c].attempts < MaxAttempts
      /\ UNCHANGED <<inc, store, journal, sub, wire, client, drops, history, overflowed>>
  BY DEF CaptureSnapshot
<1>3. cause \in Causes
  BY <1>2, SnapshotAnswers, <1>1 DEF IInv, StoreInv
<1> HIDE DEF cause
<1>4. /\ t \in Tasks /\ t.phase = "exporting" /\ t.boot = task[c].boot /\ t.captured = store
      /\ t.asks = task[c].asks /\ t.at = task[c].at /\ t.cause = cause
      /\ t.attempts = task[c].attempts /\ task' = [task EXCEPT ![c] = t]
  BY <1>1, <1>3 DEF Tasks, Causes, CaptureSnapshot, cause
<1>5. sub' = [sub EXCEPT ![c] = sub[c]] /\ wire' = [wire EXCEPT ![c] = wire[c]]
  BY <1>1, <1>2
<1> HIDE DEF t
<1>6. TaskOK(history, inc, task[c], sub[c])
  BY DEF IInv, TaskInv
<1>7. /\ store.rev <= Len(history[inc]) /\ store.content = At(history, inc, store.rev)
  BY <1>1 DEF IInv, StoreInv, Replicas
<1>8. TaskOK(history, inc, t, sub[c])
  BY <1>2, <1>4, <1>6, <1>7 DEF TaskOK
<1>9. ASSUME NEW a \in Clients, Serves(a, c)
      PROVE  Linked(history, inc, client[a], t, sub[c], wire[c])
  <2>1. Linked(history, inc, client[a], task[c], sub[c], wire[c])
    BY <1>9, SyncAssumption DEF IInv, StreamInv, Serves
  <2> QED BY <1>2, <1>4, <2>1 DEF Linked
<1> QED BY <1>1, <1>2, <1>4, <1>5, <1>8, <1>9, ConnectionMoves

\* A commit overtook the export: the task asks again.
LEMMA StepRetryExport ==
  ASSUME IInv, NEW c \in Conns, RetryExport(c)
  PROVE  IInv'
<1> DEFINE t == [task[c] EXCEPT !.phase = "hello", !.attempts = @ + 1, !.cause = "none",
                                !.captured = EmptyReplica]
<1>1. /\ task \in [Conns -> Tasks] /\ sub \in [Conns -> Subscribers]
      /\ wire \in [Conns -> Seq(Frames)]
  BY DEF IInv, TypeOK
<1>2. /\ task[c].phase = "exporting"
      /\ UNCHANGED <<inc, store, journal, sub, wire, client, drops, history, overflowed>>
  BY DEF RetryExport
<1>3. TaskOK(history, inc, task[c], sub[c])
  BY DEF IInv, TaskInv
<1>4. task[c].attempts + 1 \in 0..MaxAttempts
  BY <1>1, <1>2, <1>3, SyncAssumption DEF TaskOK, Tasks
<1>5. EmptyReplica \in Replicas
  BY DEF EmptyReplica, EmptyContent, Replicas, Stamps, Untouched
<1>6. /\ t \in Tasks /\ t.phase = "hello" /\ t.boot = task[c].boot
      /\ t.asks = task[c].asks /\ t.at = task[c].at /\ task' = [task EXCEPT ![c] = t]
  BY <1>1, <1>4, <1>5 DEF Tasks, RetryExport
<1>7. sub' = [sub EXCEPT ![c] = sub[c]] /\ wire' = [wire EXCEPT ![c] = wire[c]]
  BY <1>1, <1>2
<1> HIDE DEF t
<1>8. TaskOK(history, inc, t, sub[c])
  BY <1>2, <1>3, <1>6 DEF TaskOK
<1>9. ASSUME NEW a \in Clients, Serves(a, c)
      PROVE  Linked(history, inc, client[a], t, sub[c], wire[c])
  <2>1. Linked(history, inc, client[a], task[c], sub[c], wire[c])
    BY <1>9, SyncAssumption DEF IInv, StreamInv, Serves
  <2> QED BY <1>2, <1>6, <2>1 DEF Linked
<1> QED BY <1>1, <1>2, <1>6, <1>7, <1>8, <1>9, ConnectionMoves

\* The next frame of the catch-up goes onto the wire.
LEMMA StepSendBootstrap ==
  ASSUME IInv, NEW c \in Conns, SendBootstrap(c)
  PROVE  IInv'
<1> DEFINE b == task[c].boot
           t == [task[c] EXCEPT !.boot = Tail(b)]
           w == Append(wire[c], Head(b))
<1>1. /\ task \in [Conns -> Tasks] /\ sub \in [Conns -> Subscribers]
      /\ wire \in [Conns -> Seq(Frames)] /\ b \in Seq(Frames) /\ wire[c] \in Seq(Frames)
      /\ sub[c] \in Subscribers /\ sub[c].items \in Seq(Transaction)
  BY DEF IInv, TypeOK, Tasks, Subscribers
<1>2. /\ task[c].phase = "sending" /\ b # <<>>
      /\ UNCHANGED <<inc, store, journal, sub, client, drops, history, overflowed>>
  BY DEF SendBootstrap
<1>3. Tail(b) \in Seq(Frames) /\ w \in Seq(Frames)
  <2> HIDE DEF b
  <2> QED BY <1>1, <1>2
<1>4. /\ t \in Tasks /\ t.phase = "sending" /\ t.boot = Tail(b)
      /\ task' = [task EXCEPT ![c] = t]
  BY <1>1, <1>2, <1>3 DEF Tasks, SendBootstrap
<1>5. sub' = [sub EXCEPT ![c] = sub[c]] /\ wire' = [wire EXCEPT ![c] = w]
  BY <1>1, <1>2 DEF SendBootstrap, Send
<1>6. Pipe(w, t.boot, sub[c].items) = Pipe(wire[c], b, sub[c].items)
  <2> HIDE DEF b, t
  <2> QED BY <1>1, <1>2, <1>4, PipeSendBoot
<1>7. TaskOK(history, inc, t, sub[c])
  <2>1. TaskOK(history, inc, task[c], sub[c])
    BY DEF IInv, TaskInv
  <2> HIDE DEF t
  <2> QED BY <1>2, <1>4, <2>1 DEF TaskOK
<1>8. ASSUME NEW a \in Clients, Serves(a, c)
      PROVE  Linked(history, inc, client[a], t, sub[c], w)
  <2>1. Linked(history, inc, client[a], task[c], sub[c], wire[c])
    BY <1>8, SyncAssumption DEF IInv, StreamInv, Serves
  <2> HIDE DEF t, w
  <2> QED BY <1>2, <1>4, <1>6, <2>1 DEF Linked
<1> HIDE DEF t, w
<1> QED BY <1>1, <1>2, <1>3, <1>4, <1>5, <1>7, <1>8, ConnectionMoves

\* FinishBootstrap and ClearStale only move the task on to its next phase.
LEMMA StepToStreaming ==
  ASSUME IInv, NEW c \in Conns, FinishBootstrap(c) \/ ClearStale(c)
  PROVE  IInv'
<1> DEFINE t == task'[c]
<1>1. /\ task \in [Conns -> Tasks] /\ sub \in [Conns -> Subscribers]
      /\ wire \in [Conns -> Seq(Frames)]
  BY DEF IInv, TypeOK
<1>2. EmptyReplica \in Replicas
  BY DEF EmptyReplica, EmptyContent, Replicas, Stamps, Untouched
<1>3. TaskOK(history, inc, task[c], sub[c])
  BY DEF IInv, TaskInv
<1>4. /\ task[c].phase \in {"sending", "clearing"} /\ task[c].boot = <<>>
      /\ UNCHANGED <<inc, store, journal, sub, wire, client, drops, history, overflowed>>
  BY <1>3 DEF FinishBootstrap, ClearStale, TaskOK
<1>5. /\ t \in Tasks /\ t.phase \in {"clearing", "active"} /\ t.boot = task[c].boot
      /\ task' = [task EXCEPT ![c] = t]
  <2>1. CASE FinishBootstrap(c)
    BY <1>1, <1>2, <2>1 DEF FinishBootstrap, Tasks
  <2>2. CASE ClearStale(c)
    BY <1>1, <2>2, ZenonT(40) DEF ClearStale, Tasks
  <2> QED BY <2>1, <2>2
<1>6. sub' = [sub EXCEPT ![c] = sub[c]] /\ wire' = [wire EXCEPT ![c] = wire[c]]
  BY <1>1, <1>4
<1> HIDE DEF t
<1>7. TaskOK(history, inc, t, sub[c])
  BY <1>3, <1>4, <1>5 DEF TaskOK
<1>8. ASSUME NEW a \in Clients, Serves(a, c)
      PROVE  Linked(history, inc, client[a], t, sub[c], wire[c])
  <2>1. Linked(history, inc, client[a], task[c], sub[c], wire[c])
    BY <1>8, SyncAssumption DEF IInv, StreamInv, Serves
  <2> QED BY <1>4, <1>5, <2>1 DEF Linked
<1> QED BY <1>1, <1>4, <1>5, <1>6, <1>7, <1>8, ConnectionMoves

\* The writer takes the head of the queue onto the wire.
LEMMA StepWriterSend ==
  ASSUME IInv, NEW c \in Conns, WriterSend(c)
  PROVE  IInv'
<1> DEFINE q == sub[c].items
           s == [sub[c] EXCEPT !.items = Tail(q)]
           w == Append(wire[c], TxFrame(Head(q)))
<1>1. /\ task \in [Conns -> Tasks] /\ sub \in [Conns -> Subscribers]
      /\ wire \in [Conns -> Seq(Frames)] /\ q \in Seq(Transaction) /\ wire[c] \in Seq(Frames)
  BY DEF IInv, TypeOK, Subscribers
<1>2. /\ task[c].phase = "active" /\ q # <<>> /\ ~sub[c].stale
      /\ UNCHANGED <<inc, store, journal, task, client, drops, history, overflowed>>
  BY DEF WriterSend
<1>3. TxFrame(Head(q)) \in Frames /\ Tail(q) \in Seq(Transaction)
  <2>1. Head(q) \in Transaction /\ Tail(q) \in Seq(Transaction)
    <3> HIDE DEF q
    <3> QED BY <1>1, <1>2
  <2> QED BY <2>1 DEF TxFrame, Frames
<1>4. w \in Seq(Frames)
  BY <1>1, <1>3
<1>5. /\ s \in Subscribers /\ s.items = Tail(q) /\ s.stale = sub[c].stale
      /\ s.closed = sub[c].closed /\ sub' = [sub EXCEPT ![c] = s]
  BY <1>1, <1>3 DEF Subscribers, WriterSend, PopTransaction
<1>6. task' = [task EXCEPT ![c] = task[c]] /\ wire' = [wire EXCEPT ![c] = w]
  BY <1>1, <1>2 DEF WriterSend, Send, TxFrame
<1>7. TaskOK(history, inc, task[c], sub[c])
  BY DEF IInv, TaskInv
<1>8. TaskOK(history, inc, task[c], s)
  <2> HIDE DEF s
  <2> QED BY <1>2, <1>5, <1>7 DEF TaskOK
<1>9. Pipe(w, task[c].boot, s.items) = Pipe(wire[c], task[c].boot, q)
  <2>1. task[c].boot = <<>>
    BY <1>2, <1>7 DEF TaskOK
  <2> HIDE DEF q, s
  <2> QED BY <1>1, <1>2, <1>5, <2>1, PipeSendQueued
<1>10. ASSUME NEW a \in Clients, Serves(a, c)
       PROVE  Linked(history, inc, client[a], task[c], s, w)
  <2>1. Linked(history, inc, client[a], task[c], sub[c], wire[c])
    BY <1>10, SyncAssumption DEF IInv, StreamInv, Serves
  <2> HIDE DEF s, w
  <2> QED BY <1>2, <1>5, <1>9, <2>1 DEF Linked
<1> HIDE DEF s, w
<1> QED BY <1>1, <1>2, <1>4, <1>5, <1>6, <1>8, <1>10, ConnectionMoves

\* What a task, a subscriber and a replica are before anything happened, and
\* after the task returned, has the right type.
LEMMA NoTaskType ==
  /\ EmptyReplica \in Replicas
  /\ NoTask \in Tasks /\ NoTask.phase = "idle" /\ NoTask.boot = <<>>
  /\ LET t == [NoTask EXCEPT !.phase = "closed"]
     IN  t \in Tasks /\ t.phase = "closed" /\ t.boot = <<>>
<1>1. EmptyReplica \in Replicas
  BY DEF EmptyReplica, EmptyContent, Replicas, Stamps, Untouched
<1>2. <<>> \in Seq(Frames) /\ 0 \in 0..MaxAttempts /\ <<>> \in Instances \cup {<<>>}
  BY SyncAssumption
<1>3. NoTask \in Tasks
  BY <1>1, <1>2 DEF NoTask, Tasks
<1>4. [NoTask EXCEPT !.phase = "closed"] \in Tasks
  BY <1>1, <1>2 DEF NoTask, Tasks
<1> QED BY <1>1, <1>3, <1>4 DEF NoTask

\* A dropped receiver leaves a subscriber with nothing queued.
LEMMA DropReceiverType ==
  /\ DroppedSubscriber \in Subscribers /\ DroppedSubscriber.items = <<>>
  /\ DroppedSubscriber.closed
  /\ \A s \in Subscribers :
       DropReceiver(s) \in Subscribers /\ DropReceiver(s).items = <<>> /\ DropReceiver(s).closed
<1>1. <<>> \in Seq(Transaction)
  OBVIOUS
<1>2. DroppedSubscriber \in Subscribers /\ DroppedSubscriber.items = <<>>
  BY <1>1 DEF DroppedSubscriber, Subscribers
<1>3. DroppedSubscriber.closed
  BY DEF DroppedSubscriber
<1>4. ASSUME NEW s \in Subscribers
      PROVE  DropReceiver(s) \in Subscribers /\ DropReceiver(s).items = <<>>
  BY <1>1 DEF DropReceiver, Subscribers
<1>5. ASSUME NEW s \in Subscribers
      PROVE  DropReceiver(s).closed
  BY DEF DropReceiver, Subscribers
<1> QED BY <1>2, <1>3, <1>4, <1>5

\* A connection closes: the client still receives a beginning of its stream.
LEMMA StepClose ==
  ASSUME IInv, NEW c \in Conns, Close(c),
         \/ task[c].phase \in {"sending", "active"}
         \/ task[c].phase = "hello" /\ ~\E a \in Clients : Serves(a, c)
  PROVE  IInv'
<1> DEFINE t == [NoTask EXCEPT !.phase = "closed"]
           s == DropReceiver(sub[c])
           q == sub[c].items
<1>1. /\ task \in [Conns -> Tasks] /\ sub \in [Conns -> Subscribers]
      /\ wire \in [Conns -> Seq(Frames)] /\ q \in Seq(Transaction) /\ wire[c] \in Seq(Frames)
      /\ task[c].boot \in Seq(Frames)
  BY DEF IInv, TypeOK, Subscribers, Tasks
<1>2. /\ t \in Tasks /\ t.phase = "closed" /\ t.boot = <<>>
  BY NoTaskType
<1>3. /\ s \in Subscribers /\ s.items = <<>> /\ s.closed
  BY <1>1, DropReceiverType
<1>4. task' = [task EXCEPT ![c] = t] /\ sub' = [sub EXCEPT ![c] = s]
  BY <1>1 DEF Close
<1>5. /\ wire' = [wire EXCEPT ![c] = wire[c]]
      /\ UNCHANGED <<inc, store, journal, client, drops, history, overflowed>>
  BY <1>1 DEF Close
<1> HIDE DEF t, s
<1>6. TaskOK(history, inc, t, s)
  BY <1>2, <1>3 DEF TaskOK
<1>7. ASSUME NEW a \in Clients, Serves(a, c)
      PROVE  Linked(history, inc, client[a], t, s, wire[c])
  <2> DEFINE P == Pipe(wire[c], task[c].boot, q)
             R == Pipe(wire[c], t.boot, s.items)
  <2>1. Stream(history, inc, client[a], P)
    BY <1>7, SyncAssumption DEF IInv, StreamInv, Serves, Linked
  <2>2. P \in Seq(Frames)
    BY <1>1, PipeType
  <2>3. /\ R = wire[c] /\ Len(wire[c]) <= Len(P)
        /\ \A n \in 1..Len(wire[c]) : wire[c][n] = P[n]
    <3> DEFINE e == t.boot
    <3>1. e = <<>> /\ s.items = e
      BY <1>2, <1>3
    <3>2. R = Pipe(wire[c], e, e)
      BY <3>1
    <3> HIDE DEF e, R
    <3> QED BY <1>1, <3>1, <3>2, PipeCut, ZenonT(60)
  <2> HIDE DEF P, R
  <2>4. Stream(history, inc, client[a], R)
    BY <1>1, <2>1, <2>2, <2>3, StreamCut
  <2>5. inc \in 1..inc
    BY DEF IInv, TypeOK
  <2> QED BY <1>2, <2>4, <2>5 DEF Linked, R
<1> QED BY <1>1, <1>2, <1>3, <1>4, <1>5, <1>6, <1>7, ConnectionMoves

\* Every step of a connection task preserves the invariant.
LEMMA StepConnection ==
  ASSUME IInv, NEW c \in Conns, ConnectionStep(c)
  PROVE  IInv'
<1>1. CASE CloseLagged(c)
  BY <1>1, StepClose DEF CloseLagged
<1>2. CASE CloseBroken(c)
  <2>1. /\ Close(c)
        /\ \/ task[c].phase \in {"sending", "active"}
           \/ task[c].phase = "hello" /\ ~\E a \in Clients : Serves(a, c)
    BY <1>2 DEF CloseBroken
  <2> QED BY <2>1, StepClose
<1> QED BY <1>1, <1>2, StepDecideReplay, StepCaptureSnapshot, StepSubscribeExported, StepRetryExport,
           StepExportLocked, StepSendBootstrap, StepToStreaming, StepWriterSend
        DEF ConnectionStep

-----------------------------------------------------------------------------
(***************************************************************************)
(* The client's steps.                                                     *)
(***************************************************************************)

\* A connection that has sent something streams one incarnation's frames: the
\* running one's, or that of the session it was closed in.
LEMMA Receiving ==
  ASSUME IInv, NEW a \in Clients, NEW c, c = client[a].conn, c # NoConn, wire[c] # <<>>
  PROVE  /\ c \in Conns /\ task[c].phase \in {"sending", "clearing", "active", "closed"}
         /\ \E i \in 1..inc :
              /\ Stream(history, i, client[a], Pipe(wire[c], task[c].boot, sub[c].items))
              /\ task[c].phase # "closed" => i = inc
<1>1. c \in Conns
  BY DEF IInv, TypeOK, Controllers
<1>2. Linked(history, inc, client[a], task[c], sub[c], wire[c])
  BY DEF IInv, StreamInv
<1>3. task[c].phase \in {"idle", "hello", "exporting", "sending", "clearing", "active", "closed"}
  BY <1>1 DEF IInv, TypeOK, Tasks
<1>4. inc \in 1..inc
  BY DEF IInv, TypeOK
<1> QED BY <1>1, <1>2, <1>3, <1>4 DEF Linked

\* A replica goes forward in its incarnation, or starts over in a later one.
Moves(cl, n) ==
  \/ n.mirrors = cl.mirrors /\ n.replica.rev >= cl.replica.rev
  \/ n.mirrors >= cl.mirrors /\ n.replica = EmptyReplica

\* A step of the client a alone.
ClientMove(a) ==
  /\ history' = history /\ inc' = inc
  /\ client' = [client EXCEPT ![a] = client'[a]]
  /\ Moves(client[a], client'[a])

\* Having taken the frame f, the client n is ready for whatever continues it.
Takes(h, i, cl, f, n) ==
  /\ n.mirrors = i /\ n.session = i /\ n.conn = cl.conn /\ Moves(cl, n)
  /\ \A g : Continues(h, i, cl.replica.rev, f, g) => Expects(h, i, n, g)
  /\ f.kind = "tx" => n.phase = "active" /\ n.replica.rev = f.tx.new
  /\ f.kind = "welcome" /\ f.rev = 0 => n.phase = "active" /\ n.replica.rev = 0
  /\ f.kind = "resumeOk" => n.phase = "active" /\ n.replica.rev = cl.replica.rev

\* What taking one frame changes of a client, whatever the frame.
LEMMA TakeFrame ==
  ASSUME IInv, NEW a \in Clients, NEW c \in Conns, c = client[a].conn, wire[c] # <<>>,
         task[c].phase \in {"sending", "clearing", "active", "closed"},
         NEW i \in 1..inc, task[c].phase # "closed" => i = inc,
         Stream(history, i, client[a], Pipe(wire[c], task[c].boot, sub[c].items)),
         NEW n \in Controllers, Known(n), Faithful(history, n),
         Takes(history, i, client[a], Head(wire[c]), n),
         client' = [client EXCEPT ![a] = n], wire' = [wire EXCEPT ![c] = Tail(@)],
         UNCHANGED <<inc, store, journal, sub, task, drops, history, overflowed>>
  PROVE  IInv'
<1> DEFINE w == wire[c]
           b == task[c].boot
           q == sub[c].items
           f == Head(w)
           P == Pipe(w, b, q)
           R == Pipe(Tail(w), b, q)
           cl == client[a]
<1>1. /\ w \in Seq(Frames) /\ b \in Seq(Frames) /\ q \in Seq(Transaction)
      /\ wire \in [Conns -> Seq(Frames)] /\ drops \in 0..MaxDrops /\ i \in Nat /\ w # <<>>
  BY DEF IInv, TypeOK, Tasks, Subscribers
<1> HIDE DEF w, b, q
<1>2. /\ P \in Seq(Frames) /\ P # <<>> /\ P[1] = f /\ R \in Seq(Frames)
      /\ Len(R) = Len(P) - 1 /\ \A k \in 1..Len(R) : R[k] = P[k + 1]
  BY <1>1, PipeReceive, PipeType
<1>3. Stream(history, i, cl, P) /\ Takes(history, i, cl, f, n)
  BY DEF w, b, q
<1> HIDE DEF P, R, f, cl
<1>4. Len(P) > 1 => Expects(history, i, n, P[2])
  <2> SUFFICES ASSUME Len(P) > 1
               PROVE  Expects(history, i, n, P[2])
    OBVIOUS
  <2>1. 1 \in 1..(Len(P) - 1) /\ 1 + 1 = 2
    BY <1>2
  <2>2. Continues(history, i, cl.replica.rev, P[1], P[2])
    BY <1>3, <2>1 DEF Stream
  <2> QED BY <1>2, <1>3, <2>2 DEF Takes
<1>5. ASSUME NEW rev, Reaches(cl, P, rev), Len(P) = 1
      PROVE  n.phase = "active" /\ n.replica.rev = rev
  <2>1. P[Len(P)] = f
    BY <1>2, <1>5
  <2> QED BY <1>2, <1>3, <1>5, <2>1 DEF Reaches, Takes
<1>6. n.mirrors = i /\ n.session = i /\ n.conn = c
  BY <1>3 DEF Takes, cl
<1>7. /\ Stream(history, i, n, R)
      /\ \A rev : Reaches(cl, P, rev) => Reaches(n, R, rev)
  BY <1>1, <1>2, <1>3, <1>4, <1>5, <1>6, StreamReceive
<1>8. Linked(history, inc, n, task[c], sub[c], Tail(w))
  <2>1. Linked(history, inc, cl, task[c], sub[c], w)
    BY SyncAssumption DEF IInv, StreamInv, cl, w
  <2>2. CASE task[c].phase = "closed"
    BY <1>7, <2>2 DEF Linked, R, b, q
  <2>3. CASE task[c].phase # "closed"
    <3>1. i = inc /\ (sub[c].stale \/ Reaches(cl, P, Len(history[inc])))
      BY <2>1, <2>3 DEF Linked, P, b, q
    <3>2. sub[c].stale \/ Reaches(n, R, Len(history[inc]))
      BY <1>7, <3>1
    <3> QED BY <1>7, <2>3, <3>1, <3>2 DEF Linked, R, b, q
  <2> QED BY <2>2, <2>3
<1>9. Tail(w) \in Seq(Frames)
  BY <1>1 DEF w
<1> DEFINE W == [wire EXCEPT ![c] = Tail(w)]
<1>10. /\ W \in [Conns -> Seq(Frames)] /\ W[c] = Tail(w) /\ wire' = W
       /\ \A d \in Conns : d # client[a].conn => W[d] = wire[d]
  BY <1>1, <1>9 DEF w
<1> HIDE DEF W
<1>11. Linked(history, inc, n, task[n.conn], sub[n.conn], W[n.conn]) /\ n.conn = client[a].conn
  BY <1>6, <1>8, <1>10
<1>12. drops' \in 0..MaxDrops
  BY <1>1
<1> QED BY <1>10, <1>11, <1>12, ClientMoves

\* The frame at the head of a wire is one its client expects.
LEMMA HeadExpected ==
  ASSUME IInv, NEW a \in Clients, NEW c \in Conns, c = client[a].conn, wire[c] # <<>>,
         NEW i \in 1..inc,
         Stream(history, i, client[a], Pipe(wire[c], task[c].boot, sub[c].items))
  PROVE  /\ Head(wire[c]) \in Frames /\ Expects(history, i, client[a], Head(wire[c]))
         /\ client[a] \in Controllers /\ client[a].phase \in Connected
         /\ Known(client[a]) /\ Faithful(history, client[a])
         /\ client[a].mirrors <= i
         /\ Opened(client[a]) => client[a].session = i /\ client[a].mirrors = i
         /\ i \in 0..inc /\ i \in 1..Len(history) /\ Len(history[i]) \in Nat
<1> DEFINE w == wire[c]
           b == task[c].boot
           q == sub[c].items
           P == Pipe(w, b, q)
<1>1. w \in Seq(Frames) /\ b \in Seq(Frames) /\ q \in Seq(Transaction) /\ w # <<>>
  BY DEF IInv, TypeOK, Tasks, Subscribers
<1>2. Stream(history, i, client[a], P)
  OBVIOUS
<1> HIDE DEF w, b, q
<1>3. P # <<>> /\ P[1] = Head(w)
  BY <1>1, PipeReceive
<1> HIDE DEF P
<1>4. Expects(history, i, client[a], Head(w)) /\ Head(w) \in Frames
  BY <1>1, <1>2, <1>3 DEF Stream
<1>5. client[a] \in Controllers /\ history \in Histories /\ Len(history) = inc /\ inc \in Nat
  BY DEF IInv, TypeOK, Histories
<1>6. Known(client[a]) /\ Faithful(history, client[a])
  BY DEF IInv, ClientInv
<1>7. client[a].phase \in Connected
  BY <1>5, <1>6, SyncAssumption DEF Known, Controllers, Connected
<1>8. i \in 1..Len(history) /\ Len(history[i]) \in Nat /\ i \in 0..inc
  BY <1>5, HistoryLength
<1> QED BY <1>2, <1>4, <1>5, <1>6, <1>7, <1>8 DEF w, Stream

\* SERVER_WELCOME: the replica starts over, and the snapshot it announces is next.
LEMMA TakesWelcome ==
  ASSUME NEW h, NEW a \in Clients, NEW i \in 1..inc, inc \in Nat, NEW f \in Frames,
         f.kind = "welcome", Expects(h, i, client[a], f), client[a] \in Controllers,
         client[a].phase \in Connected, Known(client[a]), client[a].mirrors <= i,
         Len(h[i]) \in Nat
  PROVE  LET n == HandleWelcome(a, f)
         IN  n \in Controllers /\ Known(n) /\ Faithful(h, n) /\ Takes(h, i, client[a], f, n)
<1> DEFINE cl == client[a]
           n == HandleWelcome(a, f)
<1>1. cl.phase = "awaitingWelcome" /\ f.inc = i
  BY DEF Expects, Connected
<1>2. f.rev \in Nat
  BY DEF Frames
<1>3. EmptyReplica \in Replicas /\ EmptyReplica.rev = 0 /\ EmptyReplica.content = EmptyContent
  BY NoTaskType DEF EmptyReplica
<1> DEFINE phase == IF f.rev > 0 THEN "awaitingSnapshot" ELSE "active"
           note == IF f.rev > 0 THEN cl.note ELSE i
<1>4. n = [cl EXCEPT !.phase = phase, !.note = note, !.session = i, !.mirrors = i,
                     !.replica = EmptyReplica]
  BY <1>1 DEF HandleWelcome
<1>5. i \in 0..inc /\ note \in 0..inc /\ note <= i /\ phase \in {"awaitingSnapshot", "active"}
  BY DEF Known, Controllers
<1> HIDE DEF note, n
<1>6. /\ n \in Controllers /\ n.phase = phase /\ n.note = note /\ n.session = i
      /\ n.mirrors = i /\ n.replica = EmptyReplica /\ n.conn = cl.conn /\ n.saved = cl.saved
  <2> HIDE DEF phase
  <2> QED BY <1>3, <1>4, <1>5 DEF Controllers
<1> HIDE DEF cl
<1>7. Known(n)
  <2> HIDE DEF phase
  <2>1. Known(cl) /\ cl.mirrors <= i /\ cl \in Controllers
    BY DEF cl
  <2>2. cl.saved <= i
    BY <2>1 DEF Known, Controllers
  <2> QED BY <1>1, <1>5, <1>6, <2>1, <2>2 DEF Known
<1>8. Faithful(h, n)
  BY <1>3, <1>6 DEF Faithful, At
<1>9. Takes(h, i, cl, f, n)
  <2>1. ASSUME NEW g, Continues(h, i, cl.replica.rev, f, g)
        PROVE  Expects(h, i, n, g)
    <3>1. CASE f.rev = 0
      BY <1>3, <1>6, <2>1, <3>1 DEF Continues, Expects
    <3>2. CASE f.rev > 0
      BY <1>3, <1>6, <2>1, <3>2 DEF Continues, Expects, Snapshot, Transaction
    <3> QED BY <1>2, <3>1, <3>2
  <2>2. Moves(cl, n)
    <3>1. cl.mirrors <= i /\ cl.mirrors \in Nat /\ i \in Nat
      BY DEF cl, Controllers
    <3> QED BY <1>6, <3>1 DEF Moves
  <2> QED BY <1>3, <1>6, <2>1, <2>2 DEF Takes
<1> QED BY <1>6, <1>7, <1>8, <1>9 DEF n, cl

\* RESUME_OK: the client goes on from its revision.
LEMMA TakesResumeOk ==
  ASSUME NEW h, NEW a \in Clients, NEW i \in 1..inc, inc \in Nat, NEW f \in Frames,
         f.kind = "resumeOk", Expects(h, i, client[a], f), client[a] \in Controllers,
         client[a].phase \in Connected, Known(client[a]), Faithful(h, client[a]),
         client[a].mirrors <= i
  PROVE  LET n == HandleResumeOk(a, f)
         IN  n \in Controllers /\ Known(n) /\ Faithful(h, n) /\ Takes(h, i, client[a], f, n)
<1> DEFINE cl == client[a]
           n == HandleResumeOk(a, f)
<1>1. cl.phase = "awaitingResume" /\ f.inc = i /\ cl.session = i
  BY DEF Expects, Connected
<1>2. cl.mirrors = i
  BY <1>1 DEF Known, Controllers
<1>3. n = [cl EXCEPT !.phase = "active", !.note = i]
  BY <1>1 DEF HandleResumeOk
<1> HIDE DEF n
<1>4. /\ n \in Controllers /\ n.phase = "active" /\ n.note = i /\ n.session = i
      /\ n.mirrors = i /\ n.replica = cl.replica /\ n.conn = cl.conn /\ n.saved = cl.saved
  BY <1>1, <1>2, <1>3 DEF Controllers
<1>5. Known(cl) /\ Faithful(h, cl)
  OBVIOUS
<1> HIDE DEF cl
<1>6. Known(n) /\ Faithful(h, n)
  BY <1>1, <1>2, <1>4, <1>5 DEF Known, Faithful
<1>7. Takes(h, i, cl, f, n)
  <2>1. Moves(cl, n)
    <3>1. cl.replica.rev \in Nat
      BY DEF cl, Controllers, Replicas
    <3> QED BY <1>2, <1>4, <3>1 DEF Moves
  <2> QED BY <1>4, <2>1 DEF Takes, Continues, Expects
<1> QED BY <1>4, <1>6, <1>7 DEF n, cl

\* RESYNC_REQUIRED: a snapshot is next; of a replaced session nothing is kept.
LEMMA TakesResync ==
  ASSUME NEW h, NEW a \in Clients, NEW i \in 1..inc, inc \in Nat, NEW f \in Frames,
         f.kind = "resync", Expects(h, i, client[a], f), client[a] \in Controllers,
         client[a].phase \in Connected, Known(client[a]), Faithful(h, client[a]),
         client[a].mirrors <= i, Len(h[i]) \in Nat
  PROVE  LET n == HandleResyncRequired(a, f)
         IN  n \in Controllers /\ Known(n) /\ Faithful(h, n) /\ Takes(h, i, client[a], f, n)
<1> DEFINE cl == client[a]
           n == HandleResyncRequired(a, f)
<1>1. cl.phase = "awaitingResume" /\ f.inc = i /\ f.replaced = (cl.session # i)
  BY DEF Expects, Connected
<1>2. f.replaced \in BOOLEAN
  BY DEF Frames
<1>3. ~ContradictsSession(a, f)
  BY <1>1, <1>2 DEF ContradictsSession
<1>4. EmptyReplica \in Replicas /\ EmptyReplica.rev = 0 /\ EmptyReplica.content = EmptyContent
  BY NoTaskType DEF EmptyReplica
<1>5. Known(cl) /\ Faithful(h, cl) /\ cl.mirrors <= i /\ cl \in Controllers
  OBVIOUS
<1>6. CASE f.replaced
  <2>1. n = [cl EXCEPT !.phase = "replacing", !.session = i, !.mirrors = i,
                       !.replica = EmptyReplica]
    BY <1>1, <1>3, <1>6 DEF HandleResyncRequired
  <2> HIDE DEF n
  <2>2. /\ n \in Controllers /\ n.phase = "replacing" /\ n.note = cl.note /\ n.session = i
        /\ n.mirrors = i /\ n.replica = EmptyReplica /\ n.conn = cl.conn /\ n.saved = cl.saved
    <3>1. i \in 0..inc
      OBVIOUS
    <3> QED BY <1>4, <1>5, <2>1, <3>1 DEF Controllers
  <2> HIDE DEF cl
  <2>3. cl.saved <= i /\ cl.note <= i
    BY <1>5 DEF Known, Controllers
  <2>4. Known(n)
    BY <1>1, <1>5, <2>2, <2>3 DEF Known
  <2>5. Faithful(h, n)
    BY <1>4, <2>2 DEF Faithful, At
  <2>6. Takes(h, i, cl, f, n)
    <3>1. Moves(cl, n)
      <4>1. cl.mirrors \in Nat
        BY <1>5 DEF Controllers
      <4> QED BY <1>5, <2>2, <4>1 DEF Moves
    <3> QED BY <1>4, <2>2, <3>1 DEF Takes, Continues, Expects, Snapshot, Transaction
  <2> QED BY <2>2, <2>4, <2>5, <2>6 DEF n, cl
<1>7. CASE ~f.replaced
  <2>1. cl.session = i /\ cl.mirrors = i
    <3>1. cl.session = i
      BY <1>1, <1>7
    <3> QED BY <1>1, <1>5, <3>1 DEF Known, Controllers
  <2>2. n = [cl EXCEPT !.phase = "awaitingSnapshot"]
    BY <1>1, <1>3, <1>7 DEF HandleResyncRequired
  <2> HIDE DEF n
  <2>3. /\ n \in Controllers /\ n.phase = "awaitingSnapshot" /\ n.note = cl.note /\ n.session = i
        /\ n.mirrors = i /\ n.replica = cl.replica /\ n.conn = cl.conn /\ n.saved = cl.saved
    BY <2>1, <2>2 DEF Controllers
  <2> HIDE DEF cl
  <2>4. Known(n) /\ Faithful(h, n)
    BY <1>1, <1>5, <2>1, <2>3 DEF Known, Faithful
  <2>5. Takes(h, i, cl, f, n)
    <3>1. Moves(cl, n)
      <4>1. cl.replica.rev \in Nat
        BY <1>5 DEF Controllers, Replicas
      <4> QED BY <2>1, <2>3, <4>1 DEF Moves
    <3> QED BY <1>7, <2>3, <3>1 DEF Takes, Continues, Expects
  <2> QED BY <2>3, <2>4, <2>5 DEF n, cl
<1> QED BY <1>6, <1>7

\* A transaction: the snapshot that is awaited, or the delta that follows.
LEMMA TakesTransaction ==
  ASSUME NEW h \in Histories, NEW a \in Clients, NEW i \in 1..inc, inc \in Nat,
         i \in 1..Len(h), NEW f \in Frames, f.kind = "tx", Expects(h, i, client[a], f),
         client[a] \in Controllers, client[a].phase \in Connected \ {"replacing"},
         Known(client[a]), Faithful(h, client[a]),
         Opened(client[a]) => client[a].session = i /\ client[a].mirrors = i
  PROVE  LET n == HandleTransaction(a, f)
         IN  n \in Controllers /\ Known(n) /\ Faithful(h, n) /\ Takes(h, i, client[a], f, n)
<1> DEFINE cl == client[a]
           n == HandleTransaction(a, f)
           tx == f.tx
<1>1. cl.phase \in {"awaitingSnapshot", "active"} /\ cl.session = i /\ cl.mirrors = i
  BY DEF Expects, Connected, Opened
<1>2. Known(cl) /\ Faithful(h, cl) /\ cl \in Controllers
  OBVIOUS
<1>3. Len(h[i]) \in Nat /\ cl.replica \in Replicas
  BY HistoryLength DEF Controllers
<1>4. ASSUME NEW r \in Replicas, r.rev = tx.new, r.rev <= Len(h[i]), r.content = At(h, i, r.rev),
             NEW note \in 0..inc, note <= i, r.rev >= cl.replica.rev,
             n = [cl EXCEPT !.phase = "active", !.replica = r, !.note = note]
      PROVE  n \in Controllers /\ Known(n) /\ Faithful(h, n) /\ Takes(h, i, cl, f, n)
  <2> HIDE DEF n
  <2>1. /\ n \in Controllers /\ n.phase = "active" /\ n.note = note /\ n.session = i
        /\ n.mirrors = i /\ n.replica = r /\ n.conn = cl.conn /\ n.saved = cl.saved
    BY <1>1, <1>4 DEF Controllers
  <2> HIDE DEF cl
  <2>2. Known(n)
    BY <1>1, <1>2, <1>4, <2>1 DEF Known
  <2>3. Faithful(h, n)
    BY <1>3, <1>4, <2>1 DEF Faithful, Replicas
  <2>4. Takes(h, i, cl, f, n)
    <3>1. Moves(cl, n)
      BY <1>1, <1>3, <1>4, <2>1 DEF Moves, Replicas
    <3> QED BY <1>4, <2>1, <3>1 DEF Takes, Continues, Expects
  <2> QED BY <2>1, <2>2, <2>3, <2>4
<1>5. CASE cl.phase = "awaitingSnapshot"
  <2> DEFINE r == PublishResyncSnapshot(tx)
  <2>1. Snapshot(h, i, tx) /\ cl.replica.rev <= tx.new
    BY <1>5 DEF Expects
  <2>2. /\ r \in Replicas /\ r.rev = tx.new /\ r.rev <= Len(h[i]) /\ r.content = At(h, i, r.rev)
    BY <2>1 DEF Snapshot, PublishResyncSnapshot, Replicas, Transaction
  <2>3. AcceptsSnapshot(cl.replica, tx)
    BY <2>1, <1>3 DEF AcceptsSnapshot, Snapshot, Transaction, Replicas
  <2>4. n = [cl EXCEPT !.phase = "active", !.replica = r, !.mirrors = i, !.note = i]
    BY <1>1, <1>5, <2>3 DEF HandleTransaction, HandleSnapshot
  <2> HIDE DEF r, n
  <2>5. n = [cl EXCEPT !.phase = "active", !.replica = r, !.note = i]
    BY <1>1, <1>2, <2>4 DEF Controllers
  <2>6. i \in 0..inc /\ i <= i
    OBVIOUS
  <2>7. r.rev >= cl.replica.rev
    BY <1>3, <2>1, <2>2 DEF Replicas
  <2> QED BY <1>4, <2>2, <2>5, <2>6, <2>7 DEF n
<1>6. CASE cl.phase = "active"
  <2> DEFINE r == ApplyDelivered(cl.replica, tx)
  <2>1. Delta(h, i, tx) /\ tx.base = cl.replica.rev
    BY <1>6 DEF Expects
  <2>2. cl.replica.content = At(h, i, tx.base) /\ cl.replica.content \in [Keys -> Stamps]
    BY <1>1, <1>2, <1>3, <2>1 DEF Faithful, Replicas
  <2>3. /\ r \in Replicas /\ r.rev = tx.new /\ r.rev <= Len(h[i]) /\ r.content = At(h, i, r.rev)
    <3>1. tx \in Transaction /\ Overwrite(cl.replica.content, tx) \in [Keys -> Stamps]
      BY <2>1, <2>2, OverwriteType DEF Delta
    <3> QED BY <1>3, <2>1, <2>2, <3>1 DEF Delta, ApplyDelivered, Replicas, Transaction
  <2>4. AppliesDelivered(cl.replica, tx)
    BY <2>1 DEF AppliesDelivered, Delta
  <2>5. n = [cl EXCEPT !.replica = r]
    BY <1>6, <2>4 DEF HandleTransaction, HandleLiveTransaction
  <2>6. cl.note \in 0..inc /\ cl.note <= i
    BY <1>1, <1>2 DEF Known, Controllers
  <2> HIDE DEF r, n
  <2>7. n = [cl EXCEPT !.phase = "active", !.replica = r, !.note = cl.note]
    BY <1>2, <1>6, <2>5 DEF Controllers
  <2>8. r.rev >= cl.replica.rev
    BY <1>3, <2>1, <2>3 DEF Replicas, Delta, Transaction
  <2> QED BY <1>4, <2>3, <2>6, <2>7, <2>8 DEF n
<1> QED BY <1>1, <1>5, <1>6

\* A client receives SERVER_WELCOME.
LEMMA StepReceiveWelcome ==
  ASSUME IInv, NEW a \in Clients, ReceiveWelcome(a)
  PROVE  IInv' /\ ClientMove(a)
<1> DEFINE c == client[a].conn
           f == Head(wire[c])
           n == HandleWelcome(a, f)
<1>1. /\ c # NoConn /\ wire[c] # <<>> /\ f.kind = "welcome" /\ client[a].phase # "replacing"
      /\ client' = [client EXCEPT ![a] = n] /\ wire' = [wire EXCEPT ![c] = Tail(@)]
      /\ UNCHANGED <<inc, store, journal, sub, task, drops, history, overflowed>>
  BY DEF ReceiveWelcome, Receive
<1> HIDE DEF c
<1>2. c = client[a].conn
  BY DEF c
<1>3. c \in Conns /\ task[c].phase \in {"sending", "clearing", "active", "closed"}
  BY <1>1, <1>2, Receiving
<1>4. PICK i \in 1..inc :
        /\ Stream(history, i, client[a], Pipe(wire[c], task[c].boot, sub[c].items))
        /\ task[c].phase # "closed" => i = inc
  BY <1>1, <1>2, Receiving
<1>5. /\ f \in Frames /\ Expects(history, i, client[a], f)
      /\ client[a] \in Controllers /\ client[a].phase \in Connected
      /\ Known(client[a]) /\ Faithful(history, client[a])
      /\ client[a].mirrors <= i
      /\ Opened(client[a]) => client[a].session = i /\ client[a].mirrors = i
      /\ i \in 1..Len(history) /\ Len(history[i]) \in Nat
  BY <1>1, <1>2, <1>3, <1>4, HeadExpected
<1>6. inc \in Nat /\ history \in Histories
  BY DEF IInv, TypeOK, Histories
<1> HIDE DEF f
<1>7. n \in Controllers /\ Known(n) /\ Faithful(history, n) /\ Takes(history, i, client[a], f, n)
  BY <1>1, <1>5, <1>6, TakesWelcome
<1> HIDE DEF n
<1>8. IInv'
  BY <1>1, <1>2, <1>3, <1>4, <1>7, TakeFrame DEF f
<1>9. ClientMove(a)
  <2>1. client'[a] = n /\ Moves(client[a], n)
    BY <1>1, <1>7 DEF IInv, TypeOK, Takes
  <2> QED BY <1>1, <2>1 DEF ClientMove
<1> QED BY <1>8, <1>9

\* A client receives RESUME_OK.
LEMMA StepReceiveResumeOk ==
  ASSUME IInv, NEW a \in Clients, ReceiveResumeOk(a)
  PROVE  IInv' /\ ClientMove(a)
<1> DEFINE c == client[a].conn
           f == Head(wire[c])
           n == HandleResumeOk(a, f)
<1>1. /\ c # NoConn /\ wire[c] # <<>> /\ f.kind = "resumeOk" /\ client[a].phase # "replacing"
      /\ client' = [client EXCEPT ![a] = n] /\ wire' = [wire EXCEPT ![c] = Tail(@)]
      /\ UNCHANGED <<inc, store, journal, sub, task, drops, history, overflowed>>
  BY DEF ReceiveResumeOk, Receive
<1> HIDE DEF c
<1>2. c = client[a].conn
  BY DEF c
<1>3. c \in Conns /\ task[c].phase \in {"sending", "clearing", "active", "closed"}
  BY <1>1, <1>2, Receiving
<1>4. PICK i \in 1..inc :
        /\ Stream(history, i, client[a], Pipe(wire[c], task[c].boot, sub[c].items))
        /\ task[c].phase # "closed" => i = inc
  BY <1>1, <1>2, Receiving
<1>5. /\ f \in Frames /\ Expects(history, i, client[a], f)
      /\ client[a] \in Controllers /\ client[a].phase \in Connected
      /\ Known(client[a]) /\ Faithful(history, client[a])
      /\ client[a].mirrors <= i
      /\ Opened(client[a]) => client[a].session = i /\ client[a].mirrors = i
      /\ i \in 1..Len(history) /\ Len(history[i]) \in Nat
  BY <1>1, <1>2, <1>3, <1>4, HeadExpected
<1>6. inc \in Nat /\ history \in Histories
  BY DEF IInv, TypeOK, Histories
<1> HIDE DEF f
<1>7. n \in Controllers /\ Known(n) /\ Faithful(history, n) /\ Takes(history, i, client[a], f, n)
  BY <1>1, <1>5, <1>6, TakesResumeOk
<1> HIDE DEF n
<1>8. IInv'
  BY <1>1, <1>2, <1>3, <1>4, <1>7, TakeFrame DEF f
<1>9. ClientMove(a)
  <2>1. client'[a] = n /\ Moves(client[a], n)
    BY <1>1, <1>7 DEF IInv, TypeOK, Takes
  <2> QED BY <1>1, <2>1 DEF ClientMove
<1> QED BY <1>8, <1>9

\* A client receives RESYNC_REQUIRED.
LEMMA StepReceiveResyncRequired ==
  ASSUME IInv, NEW a \in Clients, ReceiveResyncRequired(a)
  PROVE  IInv' /\ ClientMove(a)
<1> DEFINE c == client[a].conn
           f == Head(wire[c])
           n == HandleResyncRequired(a, f)
<1>1. /\ c # NoConn /\ wire[c] # <<>> /\ f.kind = "resync" /\ client[a].phase # "replacing"
      /\ client' = [client EXCEPT ![a] = n] /\ wire' = [wire EXCEPT ![c] = Tail(@)]
      /\ UNCHANGED <<inc, store, journal, sub, task, drops, history, overflowed>>
  BY DEF ReceiveResyncRequired, Receive
<1> HIDE DEF c
<1>2. c = client[a].conn
  BY DEF c
<1>3. c \in Conns /\ task[c].phase \in {"sending", "clearing", "active", "closed"}
  BY <1>1, <1>2, Receiving
<1>4. PICK i \in 1..inc :
        /\ Stream(history, i, client[a], Pipe(wire[c], task[c].boot, sub[c].items))
        /\ task[c].phase # "closed" => i = inc
  BY <1>1, <1>2, Receiving
<1>5. /\ f \in Frames /\ Expects(history, i, client[a], f)
      /\ client[a] \in Controllers /\ client[a].phase \in Connected
      /\ Known(client[a]) /\ Faithful(history, client[a])
      /\ client[a].mirrors <= i
      /\ Opened(client[a]) => client[a].session = i /\ client[a].mirrors = i
      /\ i \in 1..Len(history) /\ Len(history[i]) \in Nat
  BY <1>1, <1>2, <1>3, <1>4, HeadExpected
<1>6. inc \in Nat /\ history \in Histories
  BY DEF IInv, TypeOK, Histories
<1> HIDE DEF f
<1>7. n \in Controllers /\ Known(n) /\ Faithful(history, n) /\ Takes(history, i, client[a], f, n)
  BY <1>1, <1>5, <1>6, TakesResync
<1> HIDE DEF n
<1>8. IInv'
  BY <1>1, <1>2, <1>3, <1>4, <1>7, TakeFrame DEF f
<1>9. ClientMove(a)
  <2>1. client'[a] = n /\ Moves(client[a], n)
    BY <1>1, <1>7 DEF IInv, TypeOK, Takes
  <2> QED BY <1>1, <2>1 DEF ClientMove
<1> QED BY <1>8, <1>9

\* A client receives a transaction.
LEMMA StepReceiveTransaction ==
  ASSUME IInv, NEW a \in Clients, ReceiveTransaction(a)
  PROVE  IInv' /\ ClientMove(a)
<1> DEFINE c == client[a].conn
           f == Head(wire[c])
           n == HandleTransaction(a, f)
<1>1. /\ c # NoConn /\ wire[c] # <<>> /\ f.kind = "tx" /\ client[a].phase # "replacing"
      /\ client' = [client EXCEPT ![a] = n] /\ wire' = [wire EXCEPT ![c] = Tail(@)]
      /\ UNCHANGED <<inc, store, journal, sub, task, drops, history, overflowed>>
  BY DEF ReceiveTransaction, Receive
<1> HIDE DEF c
<1>2. c = client[a].conn
  BY DEF c
<1>3. c \in Conns /\ task[c].phase \in {"sending", "clearing", "active", "closed"}
  BY <1>1, <1>2, Receiving
<1>4. PICK i \in 1..inc :
        /\ Stream(history, i, client[a], Pipe(wire[c], task[c].boot, sub[c].items))
        /\ task[c].phase # "closed" => i = inc
  BY <1>1, <1>2, Receiving
<1>5. /\ f \in Frames /\ Expects(history, i, client[a], f)
      /\ client[a] \in Controllers /\ client[a].phase \in Connected
      /\ Known(client[a]) /\ Faithful(history, client[a])
      /\ client[a].mirrors <= i
      /\ Opened(client[a]) => client[a].session = i /\ client[a].mirrors = i
      /\ i \in 1..Len(history) /\ Len(history[i]) \in Nat
  BY <1>1, <1>2, <1>3, <1>4, HeadExpected
<1>6. inc \in Nat /\ history \in Histories
  BY DEF IInv, TypeOK, Histories
<1> HIDE DEF f
<1>7. n \in Controllers /\ Known(n) /\ Faithful(history, n) /\ Takes(history, i, client[a], f, n)
  BY <1>1, <1>5, <1>6, TakesTransaction
<1> HIDE DEF n
<1>8. IInv'
  BY <1>1, <1>2, <1>3, <1>4, <1>7, TakeFrame DEF f
<1>9. ClientMove(a)
  <2>1. client'[a] = n /\ Moves(client[a], n)
    BY <1>1, <1>7 DEF IInv, TypeOK, Takes
  <2> QED BY <1>1, <2>1 DEF ClientMove
<1> QED BY <1>8, <1>9

\* Nothing the stream is about changes: the sessions the list remembers, or the
\* publication of a replacement.
LEMMA StreamIndifferent ==
  ASSUME IInv, NEW a \in Clients, NEW c, c = client[a].conn, c # NoConn, NEW n,
         n.mirrors = client[a].mirrors, n.session = client[a].session,
         n.replica = client[a].replica,
         \/ n.phase = client[a].phase
         \/ client[a].phase = "replacing" /\ n.phase = "awaitingSnapshot"
  PROVE  Linked(history, inc, n, task[c], sub[c], wire[c])
<1> DEFINE cl == client[a]
<1>1. Linked(history, inc, cl, task[c], sub[c], wire[c])
  BY DEF IInv, StreamInv
<1> HIDE DEF cl
<1>2. /\ n.mirrors = cl.mirrors /\ n.session = cl.session /\ n.replica = cl.replica
      /\ \/ n.phase = cl.phase
         \/ cl.phase = "replacing" /\ n.phase = "awaitingSnapshot"
  BY DEF cl
<1>3. ASSUME NEW i, NEW P, Stream(history, i, cl, P)
      PROVE  Stream(history, i, n, P)
  <2>1. P # <<>> => Expects(history, i, n, P[1])
    BY <1>2, <1>3 DEF Stream, Expects
  <2> QED BY <1>2, <1>3, <2>1 DEF Stream, Opened
<1>4. ASSUME NEW P, NEW rev, Reaches(cl, P, rev)
      PROVE  Reaches(n, P, rev)
  BY <1>2, <1>4 DEF Reaches
<1> QED BY <1>1, <1>2, <1>3, <1>4 DEF Linked

\* The replacement replica is put in the place of the old one.
LEMMA StepPublishReplacement ==
  ASSUME IInv, NEW a \in Clients, PublishReplacement(a)
  PROVE  IInv' /\ ClientMove(a)
<1> DEFINE cl == client[a]
           c == cl.conn
           n == [cl EXCEPT !.phase = "awaitingSnapshot", !.note = cl.session]
<1>1. cl \in Controllers /\ client \in [Clients -> Controllers] /\ wire \in [Conns -> Seq(Frames)]
      /\ inc \in Nat /\ drops \in 0..MaxDrops
  BY DEF IInv, TypeOK
<1>2. /\ cl.phase = "replacing" /\ client' = [client EXCEPT ![a] = n] /\ wire' = wire
      /\ UNCHANGED <<inc, store, journal, sub, task, history, overflowed>> /\ drops' = drops
  BY <1>1 DEF PublishReplacement
<1>3. Known(cl) /\ Faithful(history, cl) /\ c # NoConn /\ c \in Conns
  BY <1>1, <1>2 DEF IInv, ClientInv, Known, Controllers
<1>4. cl.session = cl.mirrors
  <2>1. Linked(history, inc, cl, task[c], sub[c], wire[c])
    BY <1>3 DEF IInv, StreamInv
  <2>2. task[c].phase \in {"idle", "hello", "exporting", "sending", "clearing", "active", "closed"}
    BY <1>3 DEF IInv, TypeOK, Tasks
  <2> HIDE DEF cl, c
  <2> QED BY <1>2, <2>1, <2>2 DEF Linked, Stream, Opened
<1>5. /\ n \in Controllers /\ n.phase = "awaitingSnapshot" /\ n.note = cl.session
      /\ n.session = cl.session /\ n.conn = cl.conn /\ n.saved = cl.saved
      /\ n.mirrors = cl.mirrors /\ n.replica = cl.replica
  BY <1>1 DEF Controllers
<1> HIDE DEF n
<1>6. Known(n) /\ Faithful(history, n)
  <2>1. cl.mirrors \in Nat
    BY <1>1 DEF Controllers
  <2> HIDE DEF cl
  <2> QED BY <1>2, <1>3, <1>4, <1>5, <2>1 DEF Known, Faithful
<1>7. Linked(history, inc, n, task[c], sub[c], wire[c])
  BY <1>2, <1>3, <1>5, StreamIndifferent
<1>8. IInv'
  BY <1>1, <1>2, <1>3, <1>5, <1>6, <1>7, ClientMoves
<1>9. ClientMove(a)
  <2>1. cl.mirrors \in Nat /\ cl.replica.rev \in Nat /\ client'[a] = n
    BY <1>1, <1>2, <1>5 DEF Controllers, Replicas
  <2>2. Moves(cl, n)
    BY <1>1, <1>2, <1>5, <2>1 DEF Moves
  <2> QED BY <1>1, <1>2, <1>5, <2>1, <2>2 DEF ClientMove
<1> QED BY <1>8, <1>9

\* The session list remembers the session of the connection.
LEMMA StepSaveSession ==
  ASSUME IInv, NEW a \in Clients, SaveSession(a)
  PROVE  IInv' /\ ClientMove(a)
<1> DEFINE cl == client[a]
           c == cl.conn
           n == [cl EXCEPT !.saved = cl.note, !.note = 0]
<1>1. /\ cl \in Controllers /\ client \in [Clients -> Controllers]
      /\ wire \in [Conns -> Seq(Frames)] /\ inc \in Nat /\ drops \in 0..MaxDrops
  BY DEF IInv, TypeOK
<1>2. /\ cl.note # 0 /\ client' = [client EXCEPT ![a] = n] /\ wire' = wire
      /\ UNCHANGED <<inc, store, journal, sub, task, history, overflowed>> /\ drops' = drops
  BY <1>1 DEF SaveSession
<1>3. Known(cl) /\ Faithful(history, cl)
  BY DEF IInv, ClientInv
<1>4. /\ n \in Controllers /\ n.phase = cl.phase /\ n.note = 0
      /\ n.session = cl.session /\ n.conn = cl.conn /\ n.saved = cl.note
      /\ n.mirrors = cl.mirrors /\ n.replica = cl.replica
  <2>1. 0 \in 0..inc
    BY <1>1
  <2> HIDE DEF cl
  <2> QED BY <1>1, <2>1 DEF Controllers
<1> HIDE DEF n
<1>5. Known(n) /\ Faithful(history, n)
  <2>1. cl.mirrors \in Nat
    BY <1>1 DEF Controllers
  <2> HIDE DEF cl
  <2> QED BY <1>2, <1>3, <1>4, <2>1 DEF Known, Faithful
<1>6. c # NoConn => Linked(history, inc, n, task[c], sub[c], wire[c])
  BY <1>4, StreamIndifferent
<1>7. IInv'
  BY <1>1, <1>2, <1>4, <1>5, <1>6, ClientMoves
<1>8. ClientMove(a)
  <2>1. cl.mirrors \in Nat /\ cl.replica.rev \in Nat /\ client'[a] = n
    BY <1>1, <1>2, <1>4 DEF Controllers, Replicas
  <2>2. Moves(cl, n)
    BY <1>1, <1>2, <1>4, <2>1 DEF Moves
  <2> QED BY <1>1, <1>2, <1>4, <2>1, <2>2 DEF ClientMove
<1> QED BY <1>7, <1>8

\* The connection ends for the client, which may be restarted as well.
LEMMA StepHangup ==
  ASSUME IInv, NEW a \in Clients, EndOfStream(a) \/ Disconnect(a) \/ RestartClient(a)
  PROVE  IInv' /\ ClientMove(a)
<1> DEFINE cl == client[a]
           n == client'[a]
<1>1. /\ cl \in Controllers /\ client \in [Clients -> Controllers]
      /\ wire \in [Conns -> Seq(Frames)] /\ inc \in Nat /\ drops \in 0..MaxDrops
      /\ EmptyReplica \in Replicas
  BY NoTaskType DEF IInv, TypeOK
<1>2. /\ wire' = wire /\ UNCHANGED <<inc, store, journal, sub, task, history, overflowed>>
      /\ drops' \in 0..MaxDrops
  BY <1>1, SyncAssumption DEF EndOfStream, Disconnect, RestartClient
<1>3. Known(cl) /\ Faithful(history, cl)
  BY DEF IInv, ClientInv
<1>4. /\ n \in Controllers /\ client' = [client EXCEPT ![a] = n]
      /\ n.phase = "idle" /\ n.conn = NoConn /\ n.note \in {0, cl.note} /\ n.saved = cl.saved
      /\ n.mirrors = cl.mirrors /\ n.replica \in {cl.replica, EmptyReplica}
  <2> DEFINE m == Hangup(a)
             r == [m EXCEPT !.instance = @ + 1, !.note = 0, !.replica = EmptyReplica]
  <2>1. /\ m \in Controllers /\ m.phase = "idle" /\ m.conn = NoConn /\ m.note = cl.note
        /\ m.saved = cl.saved /\ m.mirrors = cl.mirrors /\ m.replica = cl.replica
    <3>1. 0 \in 0..inc /\ m = [cl EXCEPT !.phase = "idle", !.conn = NoConn, !.session = 0]
      BY <1>1 DEF Hangup
    <3> HIDE DEF m, cl
    <3> QED BY <1>1, <3>1 DEF Controllers
  <2> HIDE DEF m
  <2>2. /\ r \in Controllers /\ r.phase = "idle" /\ r.conn = NoConn /\ r.note = 0
        /\ r.saved = cl.saved /\ r.mirrors = cl.mirrors /\ r.replica = EmptyReplica
    <3>1. 0 \in 0..inc /\ m.instance + 1 \in Nat
      BY <1>1, <2>1 DEF Controllers
    <3> QED BY <1>1, <2>1, <3>1 DEF Controllers
  <2> HIDE DEF r
  <2>3. client' = [client EXCEPT ![a] = m] \/ client' = [client EXCEPT ![a] = r]
    BY DEF EndOfStream, Disconnect, RestartClient, m, r
  <2>4. n \in {m, r} /\ client' = [client EXCEPT ![a] = n]
    BY <1>1, <2>3
  <2> HIDE DEF n, cl
  <2> QED BY <2>1, <2>2, <2>4
<1> HIDE DEF n
<1>5. Known(n)
  <2>1. cl.mirrors \in Nat
    BY <1>1 DEF Controllers
  <2> HIDE DEF cl
  <2> QED BY <1>3, <1>4, <2>1 DEF Known
<1>6. Faithful(history, n)
  <2>1. cl.mirrors \in 0..inc /\ history \in Histories /\ Len(history) = inc
    BY <1>1 DEF Controllers, IInv, TypeOK, Histories
  <2> HIDE DEF cl
  <2>2. CASE n.replica = EmptyReplica
    <3>1. cl.mirrors # 0 => Len(history[cl.mirrors]) \in Nat
      BY <1>1, <2>1, HistoryLength
    <3> QED BY <1>4, <2>2, <3>1 DEF Faithful, EmptyReplica, At
  <2>3. CASE n.replica = cl.replica
    BY <1>3, <1>4, <2>3 DEF Faithful
  <2> QED BY <1>4, <2>2, <2>3
<1>7. IInv'
  BY <1>1, <1>2, <1>4, <1>5, <1>6, ClientMoves
<1>8. ClientMove(a)
  <2>1. cl.mirrors \in Nat /\ cl.replica.rev \in Nat /\ client'[a] = n
    BY <1>1, <1>2, <1>4 DEF Controllers, Replicas, n
  <2>2. Moves(cl, n)
    BY <1>1, <1>2, <1>4, <2>1 DEF Moves
  <2> QED BY <1>1, <1>2, <1>4, <2>1, <2>2 DEF ClientMove
<1> QED BY <1>7, <1>8

\* Every step of a client on a live connection preserves the invariant.
LEMMA StepClient ==
  ASSUME IInv, NEW a \in Clients, ClientStep(a) \/ Disconnect(a) \/ RestartClient(a)
  PROVE  IInv' /\ ClientMove(a)
BY StepReceiveWelcome, StepReceiveResumeOk, StepReceiveResyncRequired, StepReceiveTransaction,
   StepPublishReplacement, StepSaveSession, StepHangup
   DEF ClientStep

\* A connection attempt names the session the list remembers and the replica's
\* revision.
LEMMA StepConnect ==
  ASSUME IInv, NEW a \in Clients, NEW c \in Conns, Connect(a, c)
  PROVE  IInv'
<1> DEFINE cl == client[a]
           phase == IF cl.saved = 0 THEN "awaitingWelcome" ELSE "awaitingResume"
           n == [cl EXCEPT !.conn = c, !.note = 0, !.session = cl.saved, !.phase = phase]
           t == Handshake(ClientInstanceId(a), cl.saved, cl.replica.rev)
<1>1. /\ cl \in Controllers /\ client \in [Clients -> Controllers] /\ inc \in Nat
      /\ task \in [Conns -> Tasks] /\ sub \in [Conns -> Subscribers]
      /\ wire \in [Conns -> Seq(Frames)]
  BY DEF IInv, TypeOK
<1>2. Known(cl) /\ Faithful(history, cl)
  BY DEF IInv, ClientInv
<1>3. /\ cl.conn = NoConn /\ ~\E b \in Clients : client[b].conn = c
      /\ client' = [client EXCEPT ![a] = n] /\ task' = [task EXCEPT ![c] = t]
      /\ wire' = [wire EXCEPT ![c] = <<>>] /\ sub' = [sub EXCEPT ![c] = DroppedSubscriber]
      /\ UNCHANGED <<inc, store, journal, drops, history, overflowed>>
  BY <1>1 DEF Connect, Serves
<1>4. /\ n \in Controllers /\ n.conn = c /\ n.note = 0 /\ n.session = cl.saved /\ n.phase = phase
      /\ n.saved = cl.saved /\ n.mirrors = cl.mirrors /\ n.replica = cl.replica
  <2>1. 0 \in 0..inc
    BY <1>1
  <2> HIDE DEF cl
  <2> QED BY <1>1, <2>1 DEF Controllers
<1>5. /\ t \in Tasks /\ t.phase = "hello" /\ t.boot = <<>> /\ t.asks = cl.saved
      /\ t.at = cl.replica.rev
  <2>1. ClientInstanceId(a) \in Instances
    BY <1>1 DEF ClientInstanceId, Instances, Controllers
  <2>2. cl.saved \in Nat /\ cl.replica.rev \in Nat
    BY <1>1 DEF Controllers, Replicas
  <2>3. t = [NoTask EXCEPT !.phase = "hello", !.client = ClientInstanceId(a),
                           !.asks = cl.saved, !.at = cl.replica.rev]
    BY DEF Handshake
  <2> HIDE DEF t, cl
  <2> QED BY <2>1, <2>2, <2>3, NoTaskType DEF Tasks
<1> HIDE DEF n, t
<1>6. /\ \A b \in Clients : client'[b] = IF b = a THEN n ELSE client[b]
      /\ \A d \in Conns : /\ task'[d] = IF d = c THEN t ELSE task[d]
                          /\ sub'[d] = IF d = c THEN DroppedSubscriber ELSE sub[d]
                          /\ wire'[d] = IF d = c THEN <<>> ELSE wire[d]
  BY <1>1, <1>3
<1>7. TypeOK'
  <2>1. client' \in [Clients -> Controllers] /\ Controllers' = Controllers
    BY <1>1, <1>3, <1>4 DEF Controllers
  <2>2. task' \in [Conns -> Tasks] /\ sub' \in [Conns -> Subscribers]
    BY <1>1, <1>3, <1>5, DropReceiverType
  <2>3. wire' \in [Conns -> Seq(Frames)]
    <3>1. <<>> \in Seq(Frames)
      OBVIOUS
    <3> QED BY <1>1, <1>3, <3>1
  <2> QED BY <1>3, <2>1, <2>2, <2>3 DEF IInv, TypeOK
<1>8. StoreInv' /\ JournalInv'
  BY <1>3 DEF IInv, StoreInv, JournalInv
<1>9. TaskInv'
  <2>1. TaskOK(history, inc, t, DroppedSubscriber)
    BY <1>5, DropReceiverType DEF TaskOK
  <2> QED BY <1>3, <1>6, <2>1 DEF IInv, TaskInv
<1>10. ClientInv'
  <2>1. cl.mirrors \in Nat /\ c # NoConn
    BY <1>1, SyncAssumption DEF Controllers
  <2>2. Known(n) /\ Faithful(history, n)
    <3> HIDE DEF cl
    <3> QED BY <1>2, <1>4, <2>1 DEF Known, Faithful
  <2> QED BY <1>3, <1>4, <1>6, <2>1, <2>2 DEF IInv, ClientInv
<1>11. StreamInv'
  <2> SUFFICES ASSUME NEW b \in Clients, client'[b].conn # NoConn
               PROVE  LET d == client'[b].conn
                      IN  Linked(history, inc, client'[b], task'[d], sub'[d], wire'[d])
    BY <1>3 DEF StreamInv
  <2>1. CASE b = a
    <3>1. Linked(history, inc, n, t, DroppedSubscriber, <<>>)
      <4> HIDE DEF cl
      <4> QED BY <1>4, <1>5 DEF Linked
    <3> QED BY <1>4, <1>6, <2>1, <3>1
  <2>2. CASE b # a
    <3>1. client'[b] = client[b] /\ client[b].conn \in Conns /\ client[b].conn # c
      BY <1>1, <1>3, <1>6, <2>2 DEF Controllers
    <3> QED BY <1>6, <3>1 DEF IInv, StreamInv
  <2> QED BY <2>1, <2>2
<1> QED BY <1>7, <1>8, <1>9, <1>10, <1>11 DEF IInv

-----------------------------------------------------------------------------
(***************************************************************************)
(* The session's own steps: a restart of the daemon, a commit.             *)
(***************************************************************************)

\* More history changes nothing of what was true of it.
LEMMA FaithfulGrows ==
  ASSUME NEW h \in Histories, NEW g \in Histories, Grows(h, g), NEW cl,
         cl.mirrors \in 0..Len(h), cl.replica.rev \in Nat, Faithful(h, cl)
  PROVE  Faithful(g, cl)
<1> DEFINE i == cl.mirrors
           r == cl.replica.rev
<1>1. CASE i = 0
  BY <1>1 DEF Faithful, At
<1>2. CASE i # 0
  <2>1. i \in 1..Len(h) /\ i \in 1..Len(g)
    BY <1>2 DEF Grows, Histories
  <2>2. Len(h[i]) \in Nat /\ Len(g[i]) \in Nat /\ Len(h[i]) <= Len(g[i])
    BY <2>1, HistoryLength DEF Grows
  <2>3. r \in 0..Len(h[i])
    BY <1>2 DEF Faithful
  <2>4. At(g, i, r) = At(h, i, r)
    <3> HIDE DEF i, r
    <3> QED BY <2>1, <2>3, AtGrows
  <2> QED BY <1>2, <2>2, <2>3, <2>4 DEF Faithful
<1> QED BY <1>1, <1>2

\* The daemon starts again: clients keep what they have and what was sent, and
\* every connection of the old daemon is closed.
LEMMA StepRestart ==
  ASSUME IInv, Restart
  PROVE  IInv'
<1> DEFINE g == Append(history, <<>>)
           shut == [NoTask EXCEPT !.phase = "closed"]
<1>1. /\ client \in [Clients -> Controllers] /\ task \in [Conns -> Tasks]
      /\ sub \in [Conns -> Subscribers] /\ wire \in [Conns -> Seq(Frames)]
      /\ inc \in Nat /\ inc >= 1 /\ history \in Histories /\ Len(history) = inc
  BY DEF IInv, TypeOK, Histories
<1>2. /\ inc' = inc + 1 /\ history' = g /\ store' = EmptyReplica /\ journal' = NewJournal
      /\ inc < MaxIncarnation /\ overflowed' = {} /\ UNCHANGED <<wire, client, drops>>
      /\ \A c \in Conns : sub'[c] = DroppedSubscriber
      /\ \A c \in Conns : task'[c] = IF task[c].phase = "idle" THEN NoTask ELSE shut
  BY DEF Restart, EmptyStore
<1>3. /\ g \in Histories /\ Len(g) = inc + 1 /\ g[inc + 1] = <<>>
      /\ \A i \in 1..inc : g[i] = history[i]
  <2>1. <<>> \in Seq([Keys -> Stamps])
    OBVIOUS
  <2> QED BY <1>1, <2>1, AppendProperties DEF Histories
<1> HIDE DEF g
<1>4. Grows(history, g)
  <2>1. \A i \in 1..inc : Len(history[i]) \in Nat
    BY <1>1, HistoryLength
  <2> QED BY <1>1, <1>3, <2>1 DEF Grows
<1>5. TypeOK'
  <2>1. inc' \in 1..MaxIncarnation
    BY <1>1, <1>2, SyncAssumption
  <2>2. store' \in Replicas /\ store'.rev <= MaxRevision
    BY <1>2, NoTaskType, SyncAssumption DEF EmptyReplica
  <2>3. /\ journal' \in [entries: Seq(Transaction), earliest: Nat, latest: Nat]
        /\ Len(journal'.entries) <= MaxEntries
    BY <1>2, MaxEntriesAssumption DEF NewJournal
  <2>4. sub' \in [Conns -> Subscribers] /\ task' \in [Conns -> Tasks]
    BY <1>2, DropReceiverType, NoTaskType DEF Restart
  <2>5. client' \in [Clients -> Controllers']
    <3>1. \A a \in Clients : client[a] \in Controllers'
      BY <1>1, <1>2 DEF Controllers
    <3> QED BY <1>1, <1>2, <3>1
  <2>6. wire' \in [Conns -> Seq(Frames)] /\ drops' \in 0..MaxDrops
    BY <1>1, <1>2 DEF IInv, TypeOK
  <2>7. history' \in Seq(Seq([Keys -> Stamps])) /\ Len(history') = inc'
    BY <1>2, <1>3 DEF Histories
  <2>8. overflowed' \subseteq Instances \cup {<<>>}
    BY <1>2
  <2> QED BY <2>1, <2>2, <2>3, <2>4, <2>5, <2>6, <2>7, <2>8 DEF TypeOK
<1>6. StoreInv'
  BY <1>2, <1>3 DEF StoreInv, EmptyReplica, At
<1>7. JournalInv'
  BY <1>2 DEF JournalInv, NewJournal, EmptyReplica
<1>8. TaskInv'
  <2>1. TaskOK(g, inc + 1, NoTask, DroppedSubscriber) /\ TaskOK(g, inc + 1, shut, DroppedSubscriber)
    BY DropReceiverType, NoTaskType DEF TaskOK
  <2> HIDE DEF shut
  <2> QED BY <1>2, <2>1 DEF TaskInv
<1>9. ClientInv'
  <2>1. ASSUME NEW a \in Clients
        PROVE  Known(client[a]) /\ Faithful(g, client[a])
    <3>1. /\ client[a].mirrors \in 0..Len(history) /\ client[a].replica.rev \in Nat
          /\ Faithful(history, client[a]) /\ Known(client[a])
      BY <1>1 DEF Controllers, Replicas, IInv, ClientInv
    <3> QED BY <1>1, <1>3, <1>4, <3>1, FaithfulGrows
  <2> QED BY <1>2, <2>1 DEF IInv, ClientInv
<1>10. StreamInv'
  <2> SUFFICES ASSUME NEW a \in Clients, client[a].conn # NoConn
               PROVE  LET c == client[a].conn
                      IN  Linked(g, inc + 1, client[a], task'[c], DroppedSubscriber, wire[c])
    <3>1. \A a \in Clients : client[a].conn # NoConn => client[a].conn \in Conns
      BY <1>1 DEF Controllers
    <3> QED BY <1>2, <3>1 DEF StreamInv
  <2> DEFINE c == client[a].conn
             w == wire[c]
             b == task[c].boot
             q == sub[c].items
             P == Pipe(w, b, q)
             e == shut.boot
  <2>1. /\ c \in Conns /\ w \in Seq(Frames) /\ b \in Seq(Frames) /\ q \in Seq(Transaction)
        /\ client[a].mirrors <= inc
        /\ task[c].phase \in {"idle", "hello", "exporting", "sending", "clearing", "active", "closed"}
    BY <1>1 DEF Controllers, Tasks, Subscribers
  <2>2. Linked(history, inc, client[a], task[c], sub[c], w)
    BY DEF IInv, StreamInv
  <2>3. task'[c] = shut
    BY <1>2, <2>1, <2>2 DEF Linked
  <2>4. shut.phase = "closed" /\ e = <<>> /\ DroppedSubscriber.items = e
    BY NoTaskType, DropReceiverType
  <2> HIDE DEF c, w, b, q, shut, e
  <2>5. Pipe(w, e, e) = w
    BY <2>1, <2>4, PipeCut
  <2>6. \E j \in 1..inc : Stream(history, j, client[a], w)
    <3>1. CASE task[c].phase \in {"hello", "exporting"}
      <4>1. w = <<>> /\ client[a].phase \in {"awaitingWelcome", "awaitingResume"}
        BY <2>2, <3>1 DEF Linked
      <4>2. Stream(history, inc, client[a], w)
        BY <2>1, <4>1 DEF Stream, Opened
      <4>3. inc \in 1..inc
        BY <1>1
      <4> QED BY <4>2, <4>3
    <3>2. CASE task[c].phase \notin {"hello", "exporting"}
      <4>1. inc \in 1..inc
        BY <1>1
      <4>2. PICK j \in 1..inc : Stream(history, j, client[a], P)
        BY <2>1, <2>2, <3>2, <4>1 DEF Linked, b, q
      <4>3. P \in Seq(Frames) /\ Len(w) <= Len(P) /\ \A k \in 1..Len(w) : w[k] = P[k]
        BY <2>1, <2>4, PipeCut, PipeType
      <4> HIDE DEF P
      <4> QED BY <2>1, <4>2, <4>3, StreamCut
    <3> QED BY <3>1, <3>2
  <2>7. PICK j \in 1..inc : Stream(history, j, client[a], w)
    BY <2>6
  <2>8. Stream(g, j, client[a], w) /\ j \in 1..(inc + 1)
    BY <1>1, <1>3, <1>4, <2>7, StreamGrows
  <2>9. Linked(g, inc + 1, client[a], shut, DroppedSubscriber, w)
    BY <2>4, <2>5, <2>8 DEF Linked, e
  <2> QED BY <2>3, <2>9 DEF c, w
<1> QED BY <1>5, <1>6, <1>7, <1>8, <1>9, <1>10 DEF IInv

\* The transaction of a commit stands for that commit alone.
LEMMA CommitDelta ==
  ASSUME IInv, NEW kind \in CommitKinds, NEW tx,
         tx = AuthoritativeCommit(<<inc, store.rev + 1>>, store.rev, kind),
         NEW content, content = Overwrite(store.content, tx),
         NEW g, g = [history EXCEPT ![inc] = Append(@, content)]
  PROVE  /\ tx \in Transaction /\ tx.base = store.rev /\ tx.new = store.rev + 1
         /\ content \in [Keys -> Stamps]
         /\ g \in Histories /\ Len(g) = inc /\ Grows(history, g)
         /\ Len(g[inc]) = store.rev + 1 /\ At(g, inc, store.rev + 1) = content
         /\ Delta(g, inc, tx)
<1>1. /\ inc \in 1..Len(history) /\ history \in Histories /\ Len(history) = inc /\ inc \in Nat
      /\ store \in Replicas /\ store.rev \in Nat /\ store.content \in [Keys -> Stamps]
  BY DEF IInv, TypeOK, Histories, Replicas
<1>2. store.rev = Len(history[inc]) /\ store.content = At(history, inc, store.rev)
  BY DEF IInv, StoreInv
<1>3. tx \in Transaction /\ tx.base = store.rev /\ tx.new = store.rev + 1
  <2>1. kind.scalar \in BOOLEAN /\ kind.priority \in Nat
    BY SyncAssumption
  <2>2. <<inc, store.rev + 1>> \in Stamps /\ Untouched \in Stamps
    BY <1>1 DEF Stamps, Untouched
  <2> QED BY <1>1, <2>1, <2>2 DEF AuthoritativeCommit, Transaction
<1>4. content \in [Keys -> Stamps]
  BY <1>1, <1>3, OverwriteType
<1> DEFINE r == Append(history[inc], content)
<1>5. /\ r \in Seq([Keys -> Stamps]) /\ Len(r) = store.rev + 1 /\ r[store.rev + 1] = content
      /\ \A k \in 1..store.rev : r[k] = history[inc][k]
  <2>1. history[inc] \in Seq([Keys -> Stamps])
    BY <1>1, HistoryLength
  <2> QED BY <1>2, <1>4, <2>1, AppendProperties
<1> HIDE DEF r
<1>6. /\ g \in Histories /\ Len(g) = inc /\ g[inc] = r
      /\ \A i \in 1..inc : i # inc => g[i] = history[i]
  <2> DEFINE S == Seq([Keys -> Stamps])
  <2>1. g = [history EXCEPT ![inc] = r] /\ history \in Seq(S) /\ r \in S
    BY <1>1, <1>5 DEF r, Histories
  <2> HIDE DEF S
  <2>2. g \in Seq(S) /\ Len(g) = Len(history)
        /\ \A i \in 1..Len(history) : g[i] = IF i = inc THEN r ELSE history[i]
    <3>1. inc \in 1..Len(history)
      BY <1>1
    <3> DEFINE X == [history EXCEPT ![inc] = r]
    <3>2. X \in Seq(S) /\ Len(X) = Len(history)
      BY <2>1, <3>1, ExceptSeq
    <3>3. \A i \in 1..Len(history) : X[i] = IF i = inc THEN r ELSE history[i]
      BY <2>1, <3>1, ExceptSeq
    <3> HIDE DEF X
    <3> QED BY <2>1, <3>2, <3>3 DEF X
  <2> QED BY <1>1, <2>2 DEF Histories, S
<1>7. Grows(history, g)
  <2>1. \A i \in 1..inc : Len(history[i]) \in Nat
    BY <1>1, HistoryLength
  <2> QED BY <1>1, <1>2, <1>5, <1>6, <2>1 DEF Grows
<1>8. At(g, inc, store.rev + 1) = content
  BY <1>1, <1>5, <1>6 DEF At
<1>9. At(g, inc, store.rev) = store.content
  BY <1>1, <1>2, <1>6, <1>7, AtGrows
<1>10. Delta(g, inc, tx)
  BY <1>1, <1>3, <1>5, <1>6, <1>8, <1>9 DEF Delta, WellFormedDelivery
<1> QED BY <1>3, <1>4, <1>5, <1>6, <1>7, <1>8, <1>10

\* What the journal holds after a commit.
LEMMA JournalGrows ==
  ASSUME IInv, NEW g \in Histories, Grows(history, g), NEW tx, Delta(g, inc, tx),
         tx.base = store.rev, tx.new = store.rev + 1, Len(g) = inc
  PROVE  LET j == AppendEntry(journal, tx)
         IN  /\ j \in [entries: Seq(Transaction), earliest: Nat, latest: Nat]
             /\ Len(j.entries) <= MaxEntries
             /\ j.latest = store.rev + 1 /\ j.earliest + Len(j.entries) = j.latest
             /\ \A k \in 1..Len(j.entries) :
                  /\ Delta(g, inc, j.entries[k])
                  /\ j.entries[k].base = j.earliest + k - 1
                  /\ j.entries[k].new = j.earliest + k
<1> DEFINE E == journal.entries
           j == AppendEntry(journal, tx)
           kept == IF Len(E) >= MaxEntries THEN Tail(E) ELSE E
           first == EarliestAfter(journal, tx)
<1>1. /\ E \in Seq(Transaction) /\ Len(E) \in Nat /\ Len(E) <= MaxEntries
      /\ journal.earliest \in Nat /\ journal.latest \in Nat /\ store.rev \in Nat
      /\ history \in Histories /\ inc \in 1..Len(history) /\ MaxEntries \in Nat /\ MaxEntries >= 1
  BY MaxEntriesAssumption DEF IInv, TypeOK, Replicas, Histories
<1>2. /\ journal.latest = store.rev /\ journal.earliest + Len(E) = journal.latest
      /\ \A k \in 1..Len(E) :
           /\ Delta(g, inc, E[k])
           /\ E[k].base = journal.earliest + k - 1 /\ E[k].new = journal.earliest + k
  BY <1>1, DeltaGrows DEF IInv, JournalInv
<1>3. tx \in Transaction
  BY DEF Delta
<1>4. /\ kept \in Seq(Transaction) /\ first \in Nat /\ Len(kept) + 1 <= MaxEntries
      /\ first + Len(kept) = store.rev /\ Len(kept) \in Nat
      /\ \A k \in 1..Len(kept) :
           /\ Delta(g, inc, kept[k])
           /\ kept[k].base = first + k - 1 /\ kept[k].new = first + k
  <2>1. CASE Len(E) >= MaxEntries
    <3>1. /\ 1 \in 1..Len(E) /\ first = E[1].new /\ E # <<>> /\ kept = Tail(E)
          /\ Len(E) = MaxEntries
      BY <1>1, <2>1 DEF EarliestAfter
    <3>2. first = journal.earliest + 1
      BY <1>2, <3>1
    <3>3. /\ kept \in Seq(Transaction) /\ Len(kept) = Len(E) - 1
          /\ \A k \in 1..(Len(E) - 1) : kept[k] = E[k + 1]
      <4> HIDE DEF E
      <4> QED BY <1>1, <3>1
    <3> HIDE DEF E, kept, first
    <3>4. ASSUME NEW k \in 1..Len(kept)
          PROVE  /\ Delta(g, inc, kept[k])
                 /\ kept[k].base = first + k - 1 /\ kept[k].new = first + k
      <4> DEFINE m == k + 1
      <4>1. m \in 1..Len(E) /\ kept[k] = E[m]
        BY <1>1, <3>3
      <4>2. m = k + 1
        OBVIOUS
      <4> HIDE DEF m
      <4>3. /\ Delta(g, inc, E[m]) /\ E[m].base = journal.earliest + m - 1
            /\ E[m].new = journal.earliest + m
        BY <1>2, <4>1
      <4>4. journal.earliest + m - 1 = first + k - 1 /\ journal.earliest + m = first + k
        <5>1. journal.earliest \in Nat /\ k \in Nat
          BY <1>1, <3>3
        <5> QED BY <3>2, <4>2, <5>1
      <4> QED BY <4>1, <4>3, <4>4
    <3>5. Len(kept) \in Nat /\ Len(kept) + 1 <= MaxEntries
      BY <1>1, <3>1, <3>3
    <3>6. first \in Nat /\ first + Len(kept) = store.rev
      <4>1. /\ journal.earliest \in Nat /\ Len(E) \in Nat /\ journal.earliest + Len(E) = store.rev
            /\ Len(kept) = Len(E) - 1
        BY <1>1, <1>2, <3>3
      <4> QED BY <3>2, <4>1
    <3> QED BY <3>3, <3>4, <3>5, <3>6
  <2>2. CASE ~(Len(E) >= MaxEntries)
    <3>1. kept = E /\ first = IF E = <<>> THEN store.rev ELSE journal.earliest
      BY <2>2 DEF EarliestAfter
    <3>2. first = journal.earliest
      BY <1>1, <1>2, <3>1
    <3> HIDE DEF E, kept, first
    <3> QED BY <1>1, <1>2, <2>2, <3>1, <3>2
  <2> QED BY <2>1, <2>2
<1>5. j = [entries |-> Append(kept, tx), earliest |-> first, latest |-> tx.new]
  BY DEF AppendEntry
<1> HIDE DEF E, kept, first, j
<1>6. /\ Append(kept, tx) \in Seq(Transaction) /\ Len(Append(kept, tx)) = Len(kept) + 1
      /\ \A k \in 1..Len(kept) : Append(kept, tx)[k] = kept[k]
      /\ Append(kept, tx)[Len(kept) + 1] = tx
  BY <1>3, <1>4, AppendProperties
<1>7. /\ j \in [entries: Seq(Transaction), earliest: Nat, latest: Nat]
      /\ j.entries = Append(kept, tx) /\ j.earliest = first /\ j.latest = store.rev + 1
  BY <1>1, <1>4, <1>5, <1>6
<1>8. Len(j.entries) <= MaxEntries /\ j.earliest + Len(j.entries) = j.latest
  BY <1>1, <1>4, <1>6, <1>7
<1>9. ASSUME NEW k \in 1..Len(j.entries)
      PROVE  /\ Delta(g, inc, j.entries[k])
             /\ j.entries[k].base = j.earliest + k - 1 /\ j.entries[k].new = j.earliest + k
  <2>1. CASE k <= Len(kept)
    BY <1>4, <1>6, <1>7, <2>1
  <2>2. CASE k = Len(kept) + 1
    <3>1. j.entries[k] = tx /\ first + k - 1 = store.rev /\ first + k = store.rev + 1
      BY <1>4, <1>6, <1>7, <2>2
    <3> QED BY <1>7, <3>1
  <2>3. k <= Len(kept) \/ k = Len(kept) + 1
    BY <1>4, <1>6, <1>7
  <2> QED BY <2>1, <2>2, <2>3
<1> QED BY <1>7, <1>8, <1>9 DEF j

\* What offering the commit to a subscriber makes of its queue.
LEMMA OfferedType ==
  ASSUME NEW s \in Subscribers, NEW tx \in Transaction
  PROVE  /\ TryPushOrAbsorb(s, tx) \in Subscribers
         /\ s.closed => TryPushOrAbsorb(s, tx) = s
         /\ ~s.closed /\ CanAbsorb(s, tx) =>
              LET u == TryPushOrAbsorb(s, tx)
              IN  /\ s.items # <<>> /\ u.items = Append(Front(s.items), Absorb(Last(s.items), tx))
                  /\ u.stale = s.stale /\ u.closed = s.closed
         /\ Overflows(s, tx) =>
              TryPushOrAbsorb(s, tx) = [items |-> <<>>, stale |-> TRUE, closed |-> TRUE]
         /\ ~s.closed /\ ~CanAbsorb(s, tx) /\ ~Overflows(s, tx) =>
              LET u == TryPushOrAbsorb(s, tx)
              IN  u.items = Append(s.items, tx) /\ u.stale = s.stale /\ u.closed = s.closed
<1> DEFINE u == TryPushOrAbsorb(s, tx)
<1>1. s.items \in Seq(Transaction) /\ s.stale \in BOOLEAN /\ s.closed \in BOOLEAN
  BY DEF Subscribers
<1>2. CASE s.closed
  BY <1>2 DEF TryPushOrAbsorb, Overflows, CanAbsorb, HasUnsentTail
<1>3. CASE ~s.closed /\ CanAbsorb(s, tx)
  <2> DEFINE v == Absorb(Last(s.items), tx)
             q == Append(Front(s.items), v)
  <2>1. s.items # <<>>
    BY <1>3 DEF CanAbsorb, HasUnsentTail
  <2>2. Last(s.items) \in Transaction
    BY <1>1, <2>1 DEF Last
  <2>3. v \in Transaction
    BY <2>2 DEF Absorb, Transaction, Overwrite
  <2>4. q \in Seq(Transaction)
    <3> DEFINE e == <<>>
    <3>1. e \in Seq(Frames)
      OBVIOUS
    <3> HIDE DEF e
    <3> QED BY <1>1, <2>1, <2>3, <3>1, PipeAbsorb
  <2>5. u = [s EXCEPT !.items = q]
    BY <1>3 DEF TryPushOrAbsorb, Overflows
  <2> HIDE DEF q, u
  <2>6. u \in Subscribers /\ u.items = q /\ u.stale = s.stale /\ u.closed = s.closed
    BY <2>4, <2>5 DEF Subscribers
  <2> QED BY <1>3, <2>1, <2>6 DEF u, q, Overflows
<1>4. CASE Overflows(s, tx)
  <2>1. u = [items |-> <<>>, stale |-> TRUE, closed |-> TRUE]
    BY <1>4 DEF TryPushOrAbsorb, Overflows
  <2>2. u \in Subscribers
    <3>1. <<>> \in Seq(Transaction)
      OBVIOUS
    <3> QED BY <2>1, <3>1 DEF Subscribers
  <2> QED BY <1>4, <2>1, <2>2 DEF Overflows
<1>5. CASE ~s.closed /\ ~CanAbsorb(s, tx) /\ ~Overflows(s, tx)
  <2> DEFINE q == Append(s.items, tx)
  <2>1. q \in Seq(Transaction)
    BY <1>1
  <2>2. u = [s EXCEPT !.items = q]
    BY <1>5 DEF TryPushOrAbsorb
  <2> HIDE DEF q, u
  <2>3. u \in Subscribers /\ u.items = q /\ u.stale = s.stale /\ u.closed = s.closed
    BY <2>1, <2>2 DEF Subscribers
  <2> QED BY <1>5, <2>3 DEF u, q
<1> QED BY <1>2, <1>3, <1>4, <1>5

\* Whatever the queue does with a commit, its client can take what is on the way.
LEMMA StreamOffered ==
  ASSUME NEW h \in Histories, NEW g \in Histories, Grows(h, g), NEW i \in 1..Len(h),
         Len(g[i]) = Len(h[i]) + 1, NEW tx, Delta(g, i, tx),
         tx.base = Len(h[i]), tx.new = Len(h[i]) + 1,
         NEW cl, cl.phase \in Connected,
         NEW t \in Tasks, NEW s \in Subscribers, NEW w \in Seq(Frames),
         t.phase \in {"sending", "clearing", "active"}, TaskOK(h, i, t, s),
         Linked(h, i, cl, t, s, w)
  PROVE  LET u == TryPushOrAbsorb(s, tx)
             R == Pipe(w, t.boot, u.items)
         IN  Stream(g, i, cl, R) /\ (u.stale \/ Reaches(cl, R, Len(g[i])))
<1> DEFINE b == t.boot
           q == s.items
           P == Pipe(w, b, q)
           u == TryPushOrAbsorb(s, tx)
           R == Pipe(w, b, u.items)
<1>1. /\ b \in Seq(Frames) /\ q \in Seq(Transaction) /\ tx \in Transaction
      /\ Len(h[i]) \in Nat /\ i \in 1..Len(g) /\ s.stale \in BOOLEAN
  <2>1. i \in 1..Len(g)
    BY DEF Grows, Histories
  <2> QED BY <2>1, HistoryLength DEF Tasks, Subscribers, Delta
<1>2. Stream(h, i, cl, P) /\ (s.stale \/ Reaches(cl, P, Len(h[i])))
  BY DEF Linked
<1>3. Stream(g, i, cl, P)
  <2> HIDE DEF P
  <2> QED BY <1>2, StreamGrows
<1>4. s.closed <=> s.stale
  BY DEF TaskOK
<1> HIDE DEF b, q
<1>5. P \in Seq(Frames)
  BY <1>1, PipeType
<1>6. CASE s.closed
  <2>1. u = s /\ R = P
    BY <1>1, <1>6, OfferedType DEF q
  <2> HIDE DEF u, P, R
  <2> QED BY <1>3, <1>4, <1>6, <2>1 DEF u, R, b
<1>7. CASE ~s.closed /\ CanAbsorb(s, tx)
  <2> DEFINE v == Absorb(Last(q), tx)
  <2>1. q # <<>> /\ u.items = Append(Front(q), v)
    BY <1>1, <1>7, OfferedType DEF q
  <2>2. Last(q) \in Transaction /\ MayAbsorb(Last(q), tx)
    BY <1>1, <1>7, <2>1 DEF Last, CanAbsorb, q
  <2>3. v \in Transaction
    BY <1>1, <2>2 DEF Absorb, Transaction, Overwrite
  <2> HIDE DEF v
  <2>4. /\ P # <<>> /\ P[Len(P)] = TxFrame(Last(q))
        /\ Pipe(w, b, Append(Front(q), v)) = [P EXCEPT ![Len(P)] = TxFrame(v)]
    BY <1>1, <2>1, <2>3, PipeAbsorb
  <2> DEFINE Q == [P EXCEPT ![Len(P)] = TxFrame(v)]
  <2>5. R = Q
    BY <2>1, <2>4
  <2> HIDE DEF P, R, u
  <2>6. Stream(g, i, cl, Q) /\ Reaches(cl, Q, tx.new)
    BY <1>1, <1>3, <1>5, <2>2, <2>4, StreamAbsorb DEF v
  <2> HIDE DEF Q
  <2>7. Stream(g, i, cl, R) /\ Reaches(cl, R, Len(g[i]))
    BY <2>5, <2>6
  <2> QED BY <2>7 DEF u, R, b
<1>8. CASE Overflows(s, tx)
  <2> DEFINE e == u.items
  <2>1. u.stale /\ e = <<>>
    BY <1>1, <1>8, OfferedType
  <2> HIDE DEF e, u
  <2>2. /\ R \in Seq(Frames) /\ Len(R) <= Len(P) /\ \A k \in 1..Len(R) : R[k] = P[k]
    BY <1>1, <2>1, PipeCut DEF e
  <2> HIDE DEF P, R
  <2>3. Stream(g, i, cl, R)
    BY <1>3, <1>5, <2>2, StreamCut
  <2> QED BY <2>1, <2>3 DEF u, R, b
<1>9. CASE ~s.closed /\ ~CanAbsorb(s, tx) /\ ~Overflows(s, tx)
  <2>1. u.items = Append(q, tx)
    BY <1>1, <1>9, OfferedType DEF q
  <2>2. R = Append(P, TxFrame(tx))
    BY <1>1, <2>1, PipePush
  <2>3. Reaches(cl, P, Len(h[i]))
    BY <1>2, <1>4, <1>9
  <2> HIDE DEF P, R, u
  <2>4. Stream(g, i, cl, R) /\ Reaches(cl, R, tx.new)
    BY <1>1, <1>3, <1>5, <2>2, <2>3, StreamPush
  <2> QED BY <2>4 DEF u, R, b
<1> QED BY <1>6, <1>7, <1>8, <1>9

\* A commit: the store, the journal and every queue move together.
LEMMA StepCommit ==
  ASSUME IInv, NEW kind \in CommitKinds, Commit(kind)
  PROVE  IInv'
<1> DEFINE tx == AuthoritativeCommit(<<inc, store.rev + 1>>, store.rev, kind)
           content == Overwrite(store.content, tx)
           g == [history EXCEPT ![inc] = Append(@, content)]
<1>1. /\ client \in [Clients -> Controllers] /\ task \in [Conns -> Tasks]
      /\ sub \in [Conns -> Subscribers] /\ wire \in [Conns -> Seq(Frames)]
      /\ inc \in Nat /\ inc >= 1 /\ history \in Histories /\ Len(history) = inc
      /\ store.rev \in Nat /\ store.rev = Len(history[inc])
  BY DEF IInv, TypeOK, Histories, Replicas, StoreInv
<1>2. /\ tx \in Transaction /\ tx.base = store.rev /\ tx.new = store.rev + 1
      /\ content \in [Keys -> Stamps]
      /\ g \in Histories /\ Len(g) = inc /\ Grows(history, g)
      /\ Len(g[inc]) = store.rev + 1 /\ At(g, inc, store.rev + 1) = content
      /\ Delta(g, inc, tx)
  BY CommitDelta
<1>3. /\ store.rev < MaxRevision /\ journal' = AppendEntry(journal, tx)
      /\ store' = [rev |-> tx.new, content |-> content] /\ history' = g
      /\ sub' = [c \in Conns |-> TryPushOrAbsorb(sub[c], tx)]
      /\ overflowed' = overflowed \cup OverflowingClients(tx)
      /\ UNCHANGED <<inc, task, wire, client, drops>>
  BY DEF Commit
<1> HIDE DEF tx, content, g
<1>4. TypeOK'
  <2>1. store' \in Replicas /\ store'.rev <= MaxRevision
    BY <1>1, <1>2, <1>3, SyncAssumption DEF Replicas
  <2>2. /\ journal' \in [entries: Seq(Transaction), earliest: Nat, latest: Nat]
        /\ Len(journal'.entries) <= MaxEntries
    BY <1>2, <1>3, JournalGrows
  <2>3. sub' \in [Conns -> Subscribers]
    BY <1>1, <1>2, <1>3, OfferedType
  <2>4. overflowed' \subseteq Instances \cup {<<>>}
    <3>1. overflowed \subseteq Instances \cup {<<>>}
      BY DEF IInv, TypeOK
    <3>2. \A c \in Conns : task[c].client \in Instances \cup {<<>>}
      BY <1>1 DEF Tasks
    <3> QED BY <1>3, <3>1, <3>2 DEF OverflowingClients, Overflowing
  <2>5. client' \in [Clients -> Controllers'] /\ Controllers' = Controllers
    BY <1>1, <1>3 DEF Controllers
  <2>6. history' \in Seq(Seq([Keys -> Stamps])) /\ Len(history') = inc'
    BY <1>2, <1>3 DEF Histories
  <2> QED BY <1>3, <2>1, <2>2, <2>3, <2>4, <2>5, <2>6 DEF IInv, TypeOK
<1>5. StoreInv'
  BY <1>2, <1>3 DEF StoreInv
<1>6. JournalInv'
  <2>1. store'.rev = store.rev + 1
    BY <1>2, <1>3
  <2> QED BY <1>2, <1>3, <2>1, JournalGrows DEF JournalInv
<1>7. ASSUME NEW c \in Conns
      PROVE  TaskOK(g, inc, task[c], TryPushOrAbsorb(sub[c], tx))
  <2> DEFINE t == task[c]
             s == sub[c]
             u == TryPushOrAbsorb(s, tx)
  <2> SUFFICES TaskOK(g, inc, t, u)
    OBVIOUS
  <2>1. TaskOK(history, inc, t, s) /\ t \in Tasks /\ s \in Subscribers
    BY <1>1 DEF IInv, TaskInv
  <2>2. t.phase = "exporting" =>
          /\ t.captured.rev <= Len(g[inc])
          /\ t.captured.content = At(g, inc, t.captured.rev)
    <3> SUFFICES ASSUME t.phase = "exporting"
                 PROVE  /\ t.captured.rev <= Len(g[inc])
                        /\ t.captured.content = At(g, inc, t.captured.rev)
      OBVIOUS
    <3>1. t.captured.rev \in 0..Len(history[inc]) /\ inc \in 1..Len(history)
      BY <1>1, <2>1 DEF TaskOK, Tasks, Replicas
    <3>2. At(g, inc, t.captured.rev) = At(history, inc, t.captured.rev)
      BY <1>1, <1>2, <3>1, AtGrows
    <3> HIDE DEF t
    <3> QED BY <1>1, <1>2, <2>1, <3>1, <3>2 DEF TaskOK
  <2>3. s.closed => u = s
    BY <1>2, <2>1, OfferedType
  <2>4. s.stale \in BOOLEAN /\ s.closed \in BOOLEAN
    BY <2>1 DEF Subscribers
  <2>5. CASE s.closed
    <3> HIDE DEF t, s, u
    <3> QED BY <2>1, <2>2, <2>3, <2>5 DEF TaskOK
  <2>6. CASE ~s.closed
    <3>1. t.phase \notin {"idle", "hello", "exporting", "closed"}
      <4> HIDE DEF t, s
      <4> QED BY <2>1, <2>6 DEF TaskOK
    <3>2. CASE Overflows(s, tx)
      <4>1. u.closed /\ u.stale /\ u.items = <<>>
        BY <1>2, <2>1, <3>2, OfferedType
      <4> HIDE DEF t, s, u
      <4> QED BY <2>1, <3>1, <4>1 DEF TaskOK
    <3>3. CASE ~Overflows(s, tx)
      <4>1. u.closed = s.closed /\ u.stale = s.stale
        BY <1>2, <2>1, <2>6, <3>3, OfferedType
      <4> HIDE DEF t, s, u
      <4> QED BY <2>1, <2>6, <3>1, <4>1 DEF TaskOK
    <3> QED BY <3>2, <3>3
  <2> QED BY <2>5, <2>6
<1>8. TaskInv'
  BY <1>3, <1>7 DEF TaskInv
<1>9. ClientInv'
  <2>1. ASSUME NEW a \in Clients
        PROVE  Known(client[a]) /\ Faithful(g, client[a])
    <3>1. /\ client[a].mirrors \in 0..Len(history) /\ client[a].replica.rev \in Nat
          /\ Faithful(history, client[a]) /\ Known(client[a])
      BY <1>1 DEF Controllers, Replicas, IInv, ClientInv
    <3> QED BY <1>1, <1>2, <3>1, FaithfulGrows
  <2> QED BY <1>3, <2>1 DEF IInv, ClientInv
<1>10. StreamInv'
  <2> SUFFICES ASSUME NEW a \in Clients, client[a].conn # NoConn
               PROVE  LET c == client[a].conn
                      IN  Linked(g, inc, client[a], task[c], TryPushOrAbsorb(sub[c], tx), wire[c])
    <3>1. \A a \in Clients : client[a].conn # NoConn => client[a].conn \in Conns
      BY <1>1 DEF Controllers
    <3> QED BY <1>3, <3>1 DEF StreamInv
  <2> DEFINE cl == client[a]
             c == cl.conn
             t == task[c]
             s == sub[c]
             w == wire[c]
             u == TryPushOrAbsorb(s, tx)
  <2>1. c \in Conns /\ t \in Tasks /\ s \in Subscribers /\ w \in Seq(Frames) /\ cl \in Controllers
    BY <1>1 DEF Controllers
  <2>2. Linked(history, inc, cl, t, s, w) /\ TaskOK(history, inc, t, s)
    BY <2>1 DEF IInv, StreamInv, TaskInv
  <2>3. cl.phase \in Connected
    BY <2>1 DEF IInv, ClientInv, Known, Controllers, Connected
  <2>4. inc \in 1..Len(history)
    BY <1>1
  <2> HIDE DEF c, cl, t, s, w, u
  <2>5. CASE t.phase \in {"hello", "exporting"}
    <3>1. Linked(g, inc, cl, t, u, w)
      BY <2>2, <2>5 DEF Linked
    <3> QED BY <3>1 DEF cl, c, t, s, u, w
  <2>6. CASE t.phase \in {"sending", "clearing", "active"}
    <3>1. /\ Stream(g, inc, cl, Pipe(w, t.boot, u.items))
          /\ u.stale \/ Reaches(cl, Pipe(w, t.boot, u.items), Len(g[inc]))
      BY <1>1, <1>2, <2>1, <2>2, <2>3, <2>4, <2>6, StreamOffered DEF u
    <3>2. Linked(g, inc, cl, t, u, w)
      BY <2>6, <3>1 DEF Linked
    <3> QED BY <3>2 DEF cl, c, t, s, u, w
  <2>7. CASE t.phase = "closed"
    <3>1. u = s
      BY <1>2, <2>1, <2>2, <2>7, OfferedType DEF TaskOK, u
    <3>2. PICK j \in 1..inc : Stream(history, j, cl, Pipe(w, t.boot, s.items))
      BY <2>2, <2>7 DEF Linked
    <3>3. Stream(g, j, cl, Pipe(w, t.boot, s.items))
      BY <1>1, <1>2, <3>2, StreamGrows
    <3>4. Linked(g, inc, cl, t, u, w)
      BY <2>7, <3>1, <3>3 DEF Linked
    <3> QED BY <3>4 DEF cl, c, t, s, u, w
  <2>8. t.phase \in {"idle", "hello", "exporting", "sending", "clearing", "active", "closed"}
    BY <2>1 DEF Tasks
  <2>9. t.phase # "idle"
    BY <2>2 DEF Linked
  <2> QED BY <2>5, <2>6, <2>7, <2>8, <2>9 DEF cl, c, t, s, u, w
<1> QED BY <1>4, <1>5, <1>6, <1>8, <1>9, <1>10 DEF IInv

-----------------------------------------------------------------------------
(***************************************************************************)
(* The theorems.                                                           *)
(***************************************************************************)

\* The invariant holds of a fresh daemon and clients that never connected.
LEMMA InitIInv ==
  ASSUME Init
  PROVE  IInv
<1>1. /\ \A c \in Conns : task[c] = NoTask /\ sub[c] = DroppedSubscriber /\ wire[c] = <<>>
      /\ \A a \in Clients : client[a] = Disconnected
      /\ inc = 1 /\ store = EmptyReplica /\ journal = NewJournal
  BY DEF Init, EmptyStore
<1>2. history \in Seq(Seq([Keys -> Stamps])) /\ Len(history) = 1 /\ history[1] = <<>>
  <2>1. <<>> \in Seq([Keys -> Stamps])
    OBVIOUS
  <2> QED BY <2>1 DEF Init
<1>3. Disconnected \in Controllers
  <2>1. 0 \in 0..inc
    BY <1>1
  <2> QED BY <2>1, NoTaskType DEF Disconnected, Controllers
<1>4. TypeOK
  <2>1. inc \in 1..MaxIncarnation
    BY <1>1, SyncAssumption
  <2>2. store \in Replicas /\ store.rev <= MaxRevision
    BY <1>1, NoTaskType, SyncAssumption DEF EmptyReplica
  <2>3. /\ journal \in [entries: Seq(Transaction), earliest: Nat, latest: Nat]
        /\ Len(journal.entries) <= MaxEntries
    BY <1>1, MaxEntriesAssumption DEF NewJournal
  <2>4. sub \in [Conns -> Subscribers] /\ task \in [Conns -> Tasks]
    BY DropReceiverType, NoTaskType DEF Init
  <2>5. wire \in [Conns -> Seq(Frames)]
    <3>1. <<>> \in Seq(Frames)
      OBVIOUS
    <3> QED BY <3>1 DEF Init
  <2>6. client \in [Clients -> Controllers]
    BY <1>3 DEF Init
  <2>7. drops \in 0..MaxDrops /\ overflowed \subseteq Instances \cup {<<>>}
    BY SyncAssumption DEF Init
  <2> QED BY <1>1, <1>2, <2>1, <2>2, <2>3, <2>4, <2>5, <2>6, <2>7 DEF TypeOK
<1>5. StoreInv /\ JournalInv
  BY <1>1, <1>2 DEF StoreInv, JournalInv, EmptyReplica, NewJournal, At
<1>6. TaskInv
  BY <1>1, NoTaskType, DropReceiverType DEF TaskInv, TaskOK
<1>7. ClientInv
  BY <1>1 DEF ClientInv, Known, Faithful, Disconnected, EmptyReplica, At
<1>8. StreamInv
  BY <1>1 DEF StreamInv, Disconnected
<1> QED BY <1>4, <1>5, <1>6, <1>7, <1>8 DEF IInv

\* Nothing changes: nor does the invariant.
LEMMA StutterIInv ==
  ASSUME IInv, UNCHANGED vars
  PROVE  IInv'
<1>1. /\ inc' = inc /\ store' = store /\ journal' = journal /\ sub' = sub /\ task' = task
      /\ wire' = wire /\ client' = client /\ drops' = drops /\ history' = history
      /\ overflowed' = overflowed
  BY DEF vars
<1>2. TypeOK'
  BY <1>1 DEF IInv, TypeOK, Controllers
<1>3. StoreInv' /\ JournalInv' /\ TaskInv' /\ ClientInv' /\ StreamInv'
  BY <1>1 DEF IInv, StoreInv, JournalInv, TaskInv, ClientInv, StreamInv
<1> QED BY <1>2, <1>3 DEF IInv

\* Every step of the system preserves the invariant.
LEMMA NextIInv ==
  ASSUME IInv, Next
  PROVE  IInv'
BY StepCommit, StepRestart, StepConnection, StepClient, StepConnect DEF Next

\* Whatever the sizes of queue, journal and registry, and however many clients
\* and connections there are: everything on the way to a client is a stream it
\* can take, and leads to the store.
THEOREM Invariance == Spec => []IInv
<1>1. Init => IInv
  BY InitIInv
<1>2. IInv /\ [Next]_vars => IInv'
  BY NextIInv, StutterIInv
<1> QED BY <1>1, <1>2, PTL DEF Spec

\* Type correctness of the session, the hub, the tasks, the wire and the clients.
THEOREM TypeCorrect == Spec => []TypeOK
<1>1. IInv => TypeOK
  BY DEF IInv
<1> QED BY <1>1, Invariance, PTL

\* No client ever shows a state its session did not commit: whatever was
\* coalesced, replayed, snapshotted without the lock, or lost on the way.
THEOREM ReplicaIsFaithful == Spec => []ReplicaFaithful
<1>1. IInv => ReplicaFaithful
  BY DEF IInv, ClientInv, Faithful, ReplicaFaithful, Revisions, ContentAt, At
<1> QED BY <1>1, Invariance, PTL

\* The server never sends a client a frame it must refuse.
THEOREM NeverDivergent == Spec => []NeverDiverges
<1>1. IInv => NeverDiverges
  BY DEF IInv, ClientInv, Known, NeverDiverges
<1> QED BY <1>1, Invariance, PTL

\* A subscriber with nothing queued and nothing on the wire has brought its
\* client to the store's revision.
THEOREM NothingIsMissed == Spec => []NothingMissed
<1>1. ASSUME IInv
      PROVE  NothingMissed
  <2> SUFFICES ASSUME NEW a \in Clients, NEW c, c = client[a].conn, c # NoConn,
                      task[c].phase = "active", ~sub[c].stale,
                      sub[c].items = <<>>, wire[c] = <<>>
               PROVE  /\ client[a].phase = "active" /\ client[a].mirrors = inc
                      /\ client[a].replica.rev = store.rev
    BY DEF NothingMissed
  <2> DEFINE e == wire[c]
             P == Pipe(e, task[c].boot, sub[c].items)
  <2>1. c \in Conns
    BY <1>1 DEF IInv, TypeOK, Controllers
  <2>2. task[c].boot = e /\ sub[c].items = e /\ e = <<>>
    BY <1>1, <2>1 DEF IInv, TaskInv, TaskOK
  <2>3. Stream(history, inc, client[a], P) /\ Reaches(client[a], P, Len(history[inc]))
    BY <1>1 DEF IInv, StreamInv, Linked
  <2>4. P = <<>>
    <3>1. P = Pipe(e, e, e) /\ e \in Seq(Frames)
      BY <2>2
    <3> HIDE DEF e, P
    <3> QED BY <2>2, <3>1, PipeOpens
  <2>5. store.rev = Len(history[inc])
    BY <1>1 DEF IInv, StoreInv
  <2> HIDE DEF P
  <2> QED BY <2>3, <2>4, <2>5 DEF Stream, Reaches, Opened
<1> QED BY <1>1, Invariance, PTL

-----------------------------------------------------------------------------
(***************************************************************************)
(* The protocol implements ReplicaFollows.                                 *)
(***************************************************************************)

\* The refinement mapping: what a client shows, and of which incarnation.
Mirror ==
  [a \in Clients |-> [mirrors |-> client[a].mirrors, rev |-> client[a].replica.rev,
                      content |-> client[a].replica.content]]

\* Initially every replica is empty, and so is every history.
LEMMA InitFollows ==
  ASSUME Init
  PROVE  Follows!Init
BY DEF Init, Follows!Init, Disconnected, EmptyReplica

\* A step of a client takes its replica forward, or lets it start over.
LEMMA ClientFollows ==
  ASSUME IInv, IInv', NEW a \in Clients, ClientMove(a)
  PROVE  Follows!Advance(a) \/ Follows!StartOver(a)
<1> DEFINE cl == client[a]
           n == client'[a]
<1>1. /\ client \in [Clients -> Controllers] /\ inc \in Nat /\ Len(history) = inc
      /\ client' = [client EXCEPT ![a] = n] /\ history' = history
  BY DEF IInv, TypeOK, ClientMove
<1>2. n \in Controllers /\ Faithful(history, n) /\ cl \in Controllers
  <2>1. client' \in [Clients -> Controllers'] /\ inc' = inc
    BY DEF IInv, TypeOK, ClientMove
  <2> QED BY <1>1, <2>1 DEF IInv, ClientInv, Controllers
<1> HIDE DEF n
<1>3. Mirror' = [Mirror EXCEPT ![a] = [mirrors |-> n.mirrors, rev |-> n.replica.rev,
                                       content |-> n.replica.content]]
  BY <1>1 DEF Mirror
<1>4. Mirror[a].mirrors = cl.mirrors /\ Mirror[a].rev = cl.replica.rev
  BY DEF Mirror
<1>5. CASE n.mirrors = cl.mirrors /\ n.replica.rev >= cl.replica.rev
  <2>1. n.replica.rev \in Follows!Revisions(Mirror[a].mirrors)
    BY <1>2, <1>4, <1>5 DEF Faithful, Follows!Revisions
  <2>2. n.replica.content = Follows!ContentAt(Mirror[a].mirrors, n.replica.rev)
    BY <1>2, <1>4, <1>5 DEF Faithful, Follows!ContentAt, At
  <2>3. Mirror' = [Mirror EXCEPT ![a].rev = n.replica.rev, ![a].content = n.replica.content]
    BY <1>3, <1>4, <1>5 DEF Mirror
  <2>4. \E r \in Follows!Revisions(Mirror[a].mirrors) :
          /\ r >= Mirror[a].rev
          /\ Mirror' = [Mirror EXCEPT ![a].rev = r,
                                      ![a].content = Follows!ContentAt(Mirror[a].mirrors, r)]
    BY <1>4, <1>5, <2>1, <2>2, <2>3
  <2> QED BY <1>1, <2>4 DEF Follows!Advance, Mirror
<1>6. CASE n.mirrors >= cl.mirrors /\ n.replica = EmptyReplica
  <2>1. n.mirrors \in Mirror[a].mirrors..Len(history)
    BY <1>1, <1>2, <1>4, <1>6 DEF Controllers
  <2>2. Mirror' = [Mirror EXCEPT ![a] = [mirrors |-> n.mirrors, rev |-> 0, content |-> EmptyContent]]
    BY <1>3, <1>6 DEF EmptyReplica
  <2>3. Follows!StartOver(a)
    BY <1>1, <2>1, <2>2 DEF Follows!StartOver, Mirror
  <2> QED BY <2>3
<1> QED BY <1>5, <1>6 DEF ClientMove, Moves, n

\* A commit extends one history and leaves the replicas alone.
LEMMA CommitFollows ==
  ASSUME IInv, NEW kind \in CommitKinds, Commit(kind)
  PROVE  Follows!Commit
<1> DEFINE tx == AuthoritativeCommit(<<inc, store.rev + 1>>, store.rev, kind)
           content == Overwrite(store.content, tx)
           r == history[inc]
<1>1. /\ history \in Histories /\ Len(history) = inc /\ inc \in 1..Len(history) /\ inc \in Nat
      /\ r \in Seq([Keys -> Stamps])
  BY HistoryLength DEF IInv, TypeOK, Histories
<1>2. history' = [history EXCEPT ![inc] = Append(r, content)] /\ client' = client
  BY DEF Commit
<1>3. content \in [Keys -> Stamps] /\ Len(history') = inc
  BY <1>2, CommitDelta
<1>4. history'[inc] = Append(r, content) /\ \A j \in 1..(inc - 1) : history'[j] = history[j]
  BY <1>1, <1>2 DEF Histories
<1>5. Len(Append(r, content)) = Len(r) + 1 /\ SubSeq(Append(r, content), 1, Len(r)) = r
  <2> HIDE DEF content, r
  <2> QED BY <1>1, <1>3
<1>6. UNCHANGED Mirror
  BY <1>2 DEF Mirror
<1> HIDE DEF content
<1> QED BY <1>1, <1>3, <1>4, <1>5, <1>6 DEF Follows!Commit, Mirror

\* Every step of the protocol is a step of the specification it implements, or
\* none at all.
LEMMA StepFollows ==
  ASSUME IInv, IInv', [Next]_vars
  PROVE  [Follows!Next]_<<history, Mirror>>
<1>1. CASE \E kind \in CommitKinds : Commit(kind)
  BY <1>1, CommitFollows DEF Follows!Next
<1>2. CASE Restart
  <2>1. history' = Append(history, <<>>) /\ UNCHANGED Mirror
    BY <1>2 DEF Restart, Mirror
  <2> QED BY <2>1 DEF Follows!Next, Follows!Replace, Mirror
<1>3. CASE \E c \in Conns : ConnectionStep(c)
  <2>1. history' = history /\ client' = client
    BY <1>3 DEF ConnectionStep, DecideReplay, CaptureSnapshot, SubscribeExported, RetryExport,
                ExportLocked, SendBootstrap, FinishBootstrap, ClearStale, WriterSend,
                CloseLagged, CloseBroken, Close
  <2> QED BY <2>1 DEF Mirror
<1>4. CASE \E a \in Clients : ClientStep(a) \/ Disconnect(a) \/ RestartClient(a)
  BY <1>4, StepClient, ClientFollows DEF Follows!Next
<1>5. CASE \E a \in Clients, c \in Conns : Connect(a, c)
  <2>1. PICK a \in Clients, c \in Conns : Connect(a, c)
    BY <1>5
  <2>2. /\ history' = history /\ client'[a].mirrors = client[a].mirrors
        /\ client'[a].replica = client[a].replica /\ \A b \in Clients \ {a} : client'[b] = client[b]
    BY <2>1, SMTT(30) DEF Connect, IInv, TypeOK, Controllers
  <2>3. UNCHANGED Mirror
    BY <2>2 DEF Mirror
  <2> QED BY <2>2, <2>3
<1>6. CASE UNCHANGED vars
  BY <1>6 DEF vars, Mirror
<1> QED BY <1>1, <1>2, <1>3, <1>4, <1>5, <1>6 DEF Next

\* Coalescing queues, bounded journals, unlocked snapshots, overflow, restarts of
\* either side: what a client shows only ever follows the commits of a session.
THEOREM Refinement == Spec => FollowsHistory
<1>1. Init => Follows!Init
  BY InitFollows
<1>2. IInv /\ IInv' /\ [Next]_vars => [Follows!Next]_<<history, Mirror>>
  BY StepFollows
<1>3. Spec => Follows!Spec
  BY <1>1, <1>2, Invariance, PTL DEF Spec, Follows!Spec, Mirror
<1> QED BY <1>3 DEF FollowsHistory

=============================================================================
