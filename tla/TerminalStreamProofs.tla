------------------------ MODULE TerminalStreamProofs ------------------------
(***************************************************************************)
(* What a terminal client shows, for every size of the ring, of a frame,   *)
(* of a read, of the lane and of the socket, and any number of             *)
(* reconnections and restarts.                                             *)
(*                                                                         *)
(* A byte is its offset, so a frame is exact when its bytes are numbered   *)
(* from its offset on (Exact). The frames on the way stand in four places, *)
(* the socket, the catch-up, the lane and the pump, and each place holds a *)
(* chain: a frame starts where the one before it ended, or is a resync.    *)
(* Together they lead from the client's cursor to the subscription's       *)
(* (PathInv). They do only because nothing enters the lane while a catch-  *)
(* up frame is left (GateInv).                                             *)
(***************************************************************************)
EXTENDS TerminalStream, TLAPS

\* The bytes of incarnation i from an offset on.
Bytes(i, from, n) == [k \in 1..n |-> <<i, from + k - 1>>]

Byte(i) == {i} \X Nat
Frames(i) == [kind : {"data", "resync"}, offset : Nat, data : Seq(Byte(i))]

Exact(i, f) ==
  /\ f \in Frames(i)
  /\ f.data = Bytes(i, f.offset, Len(f.data))
  /\ f.kind = "resync" => f.data = <<>>

\* Where a client is after the frame.
End(f) == f.offset + Len(f.data)

Starts(f, at) == f.kind = "resync" \/ f.offset = at

\* The frames of s, all of incarnation i, lead a client from one offset to another.
Chain(i, s, from, to) ==
  /\ s \in Seq(Frames(i))
  /\ \A m \in 1..Len(s) : Exact(i, s[m])
  /\ \A m \in 1..(Len(s) - 1) : Starts(s[m + 1], End(s[m]))
  /\ IF s = <<>> THEN from = to
     ELSE Starts(s[1], from) /\ End(s[Len(s)]) = to

-----------------------------------------------------------------------------
\* The ring holds the program's output from retained up to next.
RingOf(i, r) ==
  /\ r \in [bytes : Seq(Byte(i)), retained : Nat, next : Nat]
  /\ r.retained <= r.next
  /\ r.bytes = Bytes(i, r.retained, r.next - r.retained)

RingInv == RingOf(inc, ring)

SubType == [on : BOOLEAN, cursor : Nat, seen : Nat, gate : BOOLEAN, pump : {"run", "end"},
            pending : Seq(Frames(inc))]

\* No live frame overtakes the catch-up.
GateInv ==
  catchUp # <<>> => ~sub.gate /\ lane = <<>> /\ sub.pending = <<>>

\* What is on the way leads from the client to the subscription's cursor.
PathInv ==
  IF sub.on
  THEN /\ client.inc = inc /\ sub.cursor <= ring.next
       /\ \E x, y, z \in Nat :
            /\ Chain(inc, wire, client.next, x) /\ Chain(inc, catchUp, x, y)
            /\ Chain(inc, lane, y, z) /\ Chain(inc, sub.pending, z, sub.cursor)
  ELSE wire = <<>> /\ catchUp = <<>> /\ lane = <<>> /\ sub.pending = <<>> /\ sub.pump = "end"

ClientInv ==
  /\ client \in [inc : Nat, next : Nat, screen : Seq(Nat \X Nat), base : Nat]
  /\ client.base <= client.next
  /\ client.screen = Bytes(client.inc, client.base, client.next - client.base)

IInv ==
  /\ inc \in Nat /\ watch \in Nat /\ sub \in SubType
  /\ RingInv /\ GateInv /\ PathInv /\ ClientInv

-----------------------------------------------------------------------------
(***************************************************************************)
(* Chains.                                                                 *)
(***************************************************************************)

\* Nothing on the way leads nowhere else.
LEMMA EmptyChain ==
  ASSUME NEW i, NEW a
  PROVE  Chain(i, <<>>, a, a)
BY DEF Chain

\* A frame that starts where a chain ends prolongs it.
LEMMA ChainAppend ==
  ASSUME NEW i, NEW s, NEW a \in Nat, NEW b \in Nat, Chain(i, s, a, b),
         NEW f, Exact(i, f), Starts(f, b)
  PROVE  Chain(i, Append(s, f), a, End(f))
<1> DEFINE t == Append(s, f)
<1>1. s \in Seq(Frames(i)) /\ f \in Frames(i)
  BY DEF Chain, Exact
<1>2. /\ t \in Seq(Frames(i)) /\ t # <<>> /\ Len(s) \in Nat /\ Len(t) = Len(s) + 1
      /\ t[Len(s) + 1] = f /\ \A m \in 1..Len(s) : t[m] = s[m]
  BY <1>1
<1> HIDE DEF t
<1>3. \A m \in 1..Len(t) : Exact(i, t[m])
  BY <1>2 DEF Chain
<1>4. CASE s = <<>>
  <2>1. Len(s) = 0 /\ a = b
    BY <1>4 DEF Chain
  <2>2. t[1] = f /\ Len(t) = 1
    BY <1>2, <2>1
  <2> QED BY <1>2, <1>3, <2>1, <2>2 DEF Chain, t
<1>5. CASE s # <<>>
  <2>1. Len(s) >= 1 /\ t[1] = s[1] /\ t[Len(t)] = f
    BY <1>1, <1>2, <1>5
  <2>2. Starts(t[1], a) /\ End(s[Len(s)]) = b
    BY <1>5, <2>1 DEF Chain
  <2>3. \A m \in 1..(Len(t) - 1) : Starts(t[m + 1], End(t[m]))
    <3> SUFFICES ASSUME NEW m \in 1..(Len(t) - 1) PROVE Starts(t[m + 1], End(t[m]))
      OBVIOUS
    <3>1. CASE m = Len(s)
      BY <1>2, <2>1, <2>2, <3>1
    <3>2. CASE m # Len(s)
      <4>1. m \in 1..(Len(s) - 1) /\ t[m] = s[m] /\ t[m + 1] = s[m + 1]
        BY <1>2, <3>2
      <4> QED BY <4>1 DEF Chain
    <3> QED BY <3>1, <3>2
  <2> QED BY <1>2, <1>3, <2>1, <2>2, <2>3 DEF Chain, t
<1> QED BY <1>4, <1>5

\* What follows the first frame of a chain is a chain from its end.
LEMMA ChainTail ==
  ASSUME NEW i, NEW s, NEW a \in Nat, NEW b \in Nat, Chain(i, s, a, b), s # <<>>
  PROVE  /\ Exact(i, Head(s)) /\ Starts(Head(s), a) /\ End(Head(s)) \in Nat
         /\ Chain(i, Tail(s), End(Head(s)), b)
<1> DEFINE t == Tail(s)
<1>1. s \in Seq(Frames(i)) /\ \A m \in 1..Len(s) : Exact(i, s[m])
  BY DEF Chain
<1>2. /\ t \in Seq(Frames(i)) /\ Len(s) \in Nat \ {0} /\ Len(t) = Len(s) - 1
      /\ Head(s) = s[1] /\ \A m \in 1..Len(t) : t[m] = s[m + 1]
  BY <1>1
<1>3. Exact(i, Head(s)) /\ Starts(Head(s), a)
  BY <1>1, <1>2 DEF Chain
<1>4. End(Head(s)) \in Nat
  BY <1>3 DEF Exact, End, Frames
<1> HIDE DEF t
<1>5. \A m \in 1..Len(t) : Exact(i, t[m])
  BY <1>1, <1>2
<1>6. \A m \in 1..(Len(t) - 1) : Starts(t[m + 1], End(t[m]))
  <2> SUFFICES ASSUME NEW m \in 1..(Len(t) - 1) PROVE Starts(t[m + 1], End(t[m]))
    OBVIOUS
  <2>1. m + 1 \in 1..(Len(s) - 1) /\ t[m] = s[m + 1] /\ t[m + 1] = s[(m + 1) + 1]
    BY <1>2
  <2> QED BY <2>1 DEF Chain
<1>7. CASE t = <<>>
  <2>1. Len(s) = 1
    BY <1>2, <1>7
  <2> QED BY <1>2, <1>3, <1>4, <1>5, <1>6, <1>7, <2>1 DEF Chain, t
<1>8. CASE t # <<>>
  <2>1. Len(t) >= 1 /\ Len(s) >= 2 /\ t[1] = s[2] /\ t[Len(t)] = s[Len(s)]
    BY <1>2, <1>8
  <2>2. Starts(s[2], End(s[1])) /\ End(s[Len(s)]) = b
    BY <2>1, <1>2 DEF Chain
  <2> QED BY <1>2, <1>3, <1>4, <1>5, <1>6, <1>8, <2>1, <2>2 DEF Chain, t
<1> QED BY <1>7, <1>8

-----------------------------------------------------------------------------
(***************************************************************************)
(* The ring.                                                               *)
(***************************************************************************)

\* The bytes of an offset range.
LEMMA BytesType ==
  ASSUME NEW i, NEW a \in Nat, NEW n \in Nat
  PROVE  Bytes(i, a, n) \in Seq(Byte(i)) /\ Len(Bytes(i, a, n)) = n
<1>1. \A k \in 1..n : <<i, a + k - 1>> \in Byte(i)
  BY DEF Byte
<1> QED BY <1>1 DEF Bytes

\* Consecutive bytes join.
LEMMA JoinBytes ==
  ASSUME NEW i, NEW a \in Nat, NEW m \in Nat, NEW n \in Nat
  PROVE  Bytes(i, a, m) \o Bytes(i, a + m, n) = Bytes(i, a, m + n)
BY BytesType DEF Bytes

\* copy_range returns exactly the bytes asked for.
LEMMA CopyRange ==
  ASSUME NEW i, NEW r, RingOf(i, r), NEW a \in Nat, NEW b \in Nat,
         r.retained <= a, a <= b, b <= r.next
  PROVE  copy_range(r, a, b) = Bytes(i, a, b - a)
<1> DEFINE ret == r.retained
           n == r.next - r.retained
           p == a - r.retained + 1
           q == b - r.retained
<1>1. r.bytes = Bytes(i, ret, n)
  BY DEF RingOf
<1>2. /\ n \in Nat /\ ret \in Nat /\ p \in 1..(n + 1) /\ q \in 0..n /\ p <= q + 1
      /\ ret + p - 1 = a /\ q - p + 1 = b - a
  <2>1. r.retained \in Nat /\ r.next \in Nat
    BY DEF RingOf
  <2> QED BY <2>1
<1>3. copy_range(r, a, b) = SubSeq(r.bytes, p, q)
  BY DEF copy_range
<1> HIDE DEF ret, n, p, q
<1>4. SubSeq(Bytes(i, ret, n), p, q) = Bytes(i, ret + p - 1, q - p + 1)
  BY <1>2, BytesType DEF Bytes
<1> QED BY <1>1, <1>2, <1>3, <1>4

\* append keeps the newest Capacity bytes, each under its own offset.
LEMMA AppendExact ==
  ASSUME NEW i, NEW r, RingOf(i, r), NEW n \in Nat
  PROVE  /\ RingOf(i, append(r, [k \in 1..n |-> <<i, r.next + k - 1>>]))
         /\ append(r, [k \in 1..n |-> <<i, r.next + k - 1>>]).next = r.next + n
<1> DEFINE data == Bytes(i, r.next, n)
           ret == r.retained
           size == r.next - r.retained
           all == size + n
           over == IF all > Capacity THEN all - Capacity ELSE 0
           full == [r EXCEPT !.bytes = @ \o data, !.next = @ + Len(data)]
           p == over + 1
<1>1. ret \in Nat /\ r.next \in Nat /\ size \in Nat /\ ret + size = r.next /\ all \in Nat
  BY DEF RingOf
<1>2. r.bytes \in Seq(Byte(i)) /\ r.bytes = Bytes(i, ret, size)
  BY DEF RingOf
<1>3. data \in Seq(Byte(i)) /\ Len(data) = n
  BY <1>1, BytesType
<1>4. /\ over \in Nat /\ over <= all
      /\ all - over = (r.next + n) - (ret + over) /\ ret + over \in Nat
      /\ r.next + n \in Nat /\ ret + over <= r.next + n
  BY <1>1, RingAssumption
<1>5. r.bytes \o data = Bytes(i, ret, all)
  <2> HIDE DEF ret, size
  <2>1. Bytes(i, ret, size) \o Bytes(i, ret + size, n) = Bytes(i, ret, size + n)
    BY <1>1, JoinBytes, ZenonT(40)
  <2> QED BY <1>1, <1>2, <2>1
<1>6. /\ full \in [bytes : Seq(Byte(i)), retained : Nat, next : Nat]
      /\ full.bytes = Bytes(i, ret, all) /\ full.retained = ret /\ full.next = r.next + n
  <2>1. r.bytes \o data \in Seq(Byte(i)) /\ r.next + Len(data) \in Nat
    BY <1>1, <1>2, <1>3
  <2>2. r \in [bytes : Seq(Byte(i)), retained : Nat, next : Nat]
    BY DEF RingOf
  <2> HIDE DEF data
  <2> QED BY <1>3, <1>5, <2>1, <2>2
<1>7. append(r, [k \in 1..n |-> <<i, r.next + k - 1>>]) = evict_to_capacity(full)
  BY DEF append, Bytes
<1> HIDE DEF full
<1>8. Len(full.bytes) = all
  <2> HIDE DEF ret, all
  <2> QED BY <1>1, <1>6, BytesType
<1>9. SubSeq(full.bytes, over + 1, Len(full.bytes)) = Bytes(i, ret + over, all - over)
  <2>1. p \in 1..(all + 1) /\ ret + p - 1 = ret + over /\ all - p + 1 = all - over
    BY <1>1, <1>4
  <2> HIDE DEF ret, all, over, p
  <2>2. SubSeq(Bytes(i, ret, all), p, all) = Bytes(i, ret + p - 1, all - p + 1)
    <3>1. ret \in Nat /\ all \in Nat /\ p \in 1..(all + 1)
      BY <1>1, <2>1
    <3> QED BY <3>1, BytesType DEF Bytes
  <2> QED BY <1>6, <1>8, <2>1, <2>2 DEF p
<1> DEFINE x == [full EXCEPT !.bytes = SubSeq(@, over + 1, Len(@)), !.retained = @ + over]
<1>10. evict_to_capacity(full) = x
  BY <1>8 DEF evict_to_capacity
<1>11. Bytes(i, ret + over, all - over) \in Seq(Byte(i))
  <2>1. all - over \in Nat /\ ret + over \in Nat
    BY <1>1, <1>4
  <2> HIDE DEF ret, all, over
  <2> QED BY <2>1, BytesType
<1>12. /\ x \in [bytes : Seq(Byte(i)), retained : Nat, next : Nat]
       /\ x.retained = ret + over /\ x.next = r.next + n
       /\ x.bytes = Bytes(i, ret + over, all - over)
  <2> HIDE DEF ret, all, over
  <2> QED BY <1>4, <1>6, <1>9, <1>11
<1> HIDE DEF x, ret, all, over
<1>13. RingOf(i, x)
  BY <1>4, <1>12 DEF RingOf
<1> QED BY <1>7, <1>10, <1>12, <1>13

\* frame_range cuts [from, to) into consecutive frames that cover all of it.
LEMMA FrameRange ==
  ASSUME NEW i, NEW r, RingOf(i, r), NEW from \in Nat, NEW to \in Nat,
         r.retained <= from, from <= to, to <= r.next
  PROVE  Chain(i, frame_range(r, from, to), from, to)
<1> DEFINE n == to - from + FrameMax - 1
           count == n \div FrameMax
           start(k) == from + (k - 1) * FrameMax
           stop(k) == IF start(k) + FrameMax < to THEN start(k) + FrameMax ELSE to
           s == [k \in 1..count |-> Data(start(k), copy_range(r, start(k), stop(k)))]
<1>1. n \in Nat /\ FrameMax \in Nat \ {0}
  BY RingAssumption
<1>2. count \in Nat /\ count * FrameMax <= n /\ n < count * FrameMax + FrameMax
  BY <1>1
<1>3. frame_range(r, from, to) = s
  BY DEF frame_range
<1> HIDE DEF n, count
<1>4. CASE from = to
  <2>1. n = FrameMax - 1
    BY <1>1, <1>4 DEF n
  <2>2. count = 0
    BY <1>1, <1>2, <2>1
  <2>3. s = <<>>
    BY <2>2
  <2> QED BY <1>3, <1>4, <2>3, EmptyChain
<1>5. CASE from < to
  <2>1. (count - 1) * FrameMax = count * FrameMax - FrameMax
    BY <1>1, <1>2
  <2>2. count >= 1
    BY <1>1, <1>2, <1>5 DEF n
  <2>3. start(count) < to /\ to <= start(count) + FrameMax
    BY <1>1, <1>2, <2>1 DEF n
  <2>4. stop(count) = to
    BY <2>3, <1>1, <1>2
  <2>5. ASSUME NEW k \in 1..count
        PROVE  start(k) \in Nat /\ from <= start(k) /\ start(k) < to
    <3>1. (k - 1) * FrameMax \in Nat /\ (k - 1) * FrameMax <= (count - 1) * FrameMax
      BY <1>1, <1>2
    <3> QED BY <2>3, <3>1, <1>1, <1>2
  <2>6. ASSUME NEW k \in 1..(count - 1)
        PROVE  stop(k) = start(k + 1)
    <3>1. k + 1 \in 1..count /\ k \in 1..count
      BY <1>2
    <3>2. start(k + 1) < to /\ start(k) \in Nat
      BY <2>5, <3>1
    <3>3. start(k + 1) = start(k) + FrameMax
      BY <1>1
    <3> QED BY <3>2, <3>3
  <2> HIDE DEF start
  <2>7. ASSUME NEW k \in 1..count
        PROVE  /\ stop(k) \in Nat /\ start(k) \in Nat /\ start(k) <= stop(k)
               /\ r.retained <= start(k) /\ stop(k) <= r.next
    BY <1>1, <2>5 DEF RingOf
  <2> HIDE DEF stop
  <2>8. ASSUME NEW k \in 1..count
        PROVE  /\ s[k] = Data(start(k), Bytes(i, start(k), stop(k) - start(k)))
               /\ Exact(i, s[k]) /\ End(s[k]) = stop(k)
    <3>1. s[k] = Data(start(k), Bytes(i, start(k), stop(k) - start(k)))
      BY <2>7, CopyRange
    <3>2. stop(k) - start(k) \in Nat
      BY <2>7
    <3>3. /\ Bytes(i, start(k), stop(k) - start(k)) \in Seq(Byte(i))
          /\ Len(Bytes(i, start(k), stop(k) - start(k))) = stop(k) - start(k)
      BY <2>7, <3>2, BytesType
    <3> QED BY <2>7, <3>1, <3>2, <3>3 DEF Data, Exact, Frames, End
  <2>9. s \in Seq(Frames(i)) /\ Len(s) = count /\ s # <<>>
    BY <1>2, <2>2, <2>8 DEF Exact
  <2>10. \A m \in 1..(count - 1) : Starts(s[m + 1], End(s[m]))
    <3> SUFFICES ASSUME NEW m \in 1..(count - 1) PROVE Starts(s[m + 1], End(s[m]))
      OBVIOUS
    <3>1. m \in 1..count /\ m + 1 \in 1..count
      BY <1>2
    <3>2. s[m + 1].offset = start(m + 1) /\ End(s[m]) = stop(m)
      BY <2>8, <3>1 DEF Data
    <3> QED BY <2>6, <3>2 DEF Starts
  <2>11. Starts(s[1], from) /\ End(s[count]) = to
    <3>1. 1 \in 1..count /\ count \in 1..count
      BY <1>2, <2>2
    <3>2. start(1) = from
      BY <1>1 DEF start
    <3> QED BY <2>4, <2>8, <3>1, <3>2 DEF Data, Starts
  <2> HIDE DEF s
  <2> QED BY <1>3, <2>8, <2>9, <2>10, <2>11 DEF Chain
<1> QED BY <1>4, <1>5

\* A resync leads anywhere to where the server resumes.
LEMMA ResyncExact ==
  ASSUME NEW i, NEW a \in Nat, NEW b \in Nat
  PROVE  Chain(i, <<Resync(b)>>, a, b)
<1> DEFINE f == Resync(b)
<1>1. f.kind = "resync" /\ f.offset = b /\ f.data = <<>> /\ f \in Frames(i)
  BY DEF Resync, Frames
<1>2. Bytes(i, b, 0) = <<>>
  BY DEF Bytes
<1>3. Exact(i, f) /\ End(f) = b /\ Starts(f, a)
  BY <1>1, <1>2 DEF Exact, End, Starts
<1> HIDE DEF f
<1>4. Chain(i, Append(<<>>, f), a, End(f))
  BY <1>3, EmptyChain, ChainAppend DEF Starts
<1>5. Append(<<>>, f) = <<f>>
  BY <1>1
<1> QED BY <1>3, <1>4, <1>5 DEF f

\* A handshake's replay leads from the requested offset to the end of the ring.
LEMMA SubscribeExact ==
  ASSUME NEW i, NEW r, RingOf(i, r), NEW requested \in Nat
  PROVE  Chain(i, subscribe(r, requested), requested, r.next)
<1>1. r.next \in Nat /\ r.retained \in Nat /\ r.retained <= r.next
  BY DEF RingOf
<1>2. CASE requested > r.next \/ requested < r.retained
  BY <1>1, <1>2, ResyncExact DEF subscribe
<1>3. CASE ~(requested > r.next \/ requested < r.retained)
  <2>1. r.retained <= requested /\ requested <= r.next
    BY <1>1, <1>3
  <2>2. Chain(i, frame_range(r, requested, r.next), requested, r.next)
    BY <1>1, <2>1, FrameRange
  <2> QED BY <1>3, <2>2 DEF subscribe
<1> QED BY <1>2, <1>3

\* What a subscription drains leads from its cursor to the end of the ring.
LEMMA LiveExact ==
  ASSUME NEW i, NEW r, RingOf(i, r), NEW cursor \in Nat, cursor <= r.next
  PROVE  Chain(i, live_events_from_ring(r, cursor), cursor, r.next)
<1>1. r.next \in Nat /\ r.retained \in Nat /\ r.retained <= r.next
  BY DEF RingOf
<1>2. CASE cursor < r.retained
  BY <1>1, <1>2, ResyncExact DEF live_events_from_ring
<1>3. CASE ~(cursor < r.retained) /\ cursor >= r.next
  <2>1. cursor = r.next /\ live_events_from_ring(r, cursor) = <<>>
    BY <1>1, <1>3 DEF live_events_from_ring
  <2> QED BY <2>1, EmptyChain
<1>4. CASE ~(cursor < r.retained) /\ ~(cursor >= r.next)
  <2>1. Chain(i, frame_range(r, cursor, r.next), cursor, r.next)
    BY <1>1, <1>4, FrameRange
  <2> QED BY <1>4, <2>1 DEF live_events_from_ring
<1> QED BY <1>2, <1>3, <1>4

-----------------------------------------------------------------------------
(***************************************************************************)
(* The path: every place passes its first frame on.                         *)
(***************************************************************************)

\* The state outside the terminal's data path is free to change.
LEMMA StutterIInv ==
  ASSUME IInv, UNCHANGED <<inc, ptyVars, pathVars, client>>
  PROVE  IInv'
BY DEF IInv, ptyVars, pathVars, SubType, RingInv, GateInv, PathInv, ClientInv

\* A connection without a subscription has nothing on the way.
LEMMA DroppedPath ==
  ASSUME IInv, sub' = NoSub, catchUp' = <<>>, lane' = <<>>, wire' = <<>>
  PROVE  sub' \in SubType' /\ GateInv' /\ PathInv'
BY DEF SubType, GateInv, PathInv, NoSub

\* The reader appends to the ring, and tells the pump, what the child wrote next.
LEMMA StepReader ==
  ASSUME IInv, ReaderAppends \/ ReaderSends
  PROVE  IInv'
<1>1. CASE ReaderAppends
  <2>1. PICK n \in 1..ReadChunk : ring' = append(ring, [k \in 1..n |-> <<inc, ring.next + k - 1>>])
    BY <1>1 DEF ReaderAppends
  <2>2. n \in Nat
    BY RingAssumption
  <2>3. RingOf(inc, ring') /\ ring'.next = ring.next + n /\ ring.next \in Nat
    <3>1. RingOf(inc, ring)
      BY DEF IInv, RingInv
    <3>2. ring.next \in Nat
      BY <3>1 DEF RingOf
    <3> QED BY <2>1, <2>2, <3>1, <3>2, AppendExact, ZenonT(30)
  <2>4. RingInv' /\ (sub.on => sub.cursor <= ring'.next)
    BY <1>1, <2>2, <2>3, SMTT(30) DEF ReaderAppends, IInv, RingInv, PathInv, SubType
  <2> QED BY <1>1, <2>4, SMTT(30) DEF ReaderAppends, IInv, pathVars, SubType, GateInv, PathInv, ClientInv
<1>2. CASE ReaderSends
  <2>1. watch' \in Nat
    BY <1>2 DEF ReaderSends, IInv, RingInv, RingOf
  <2> QED BY <1>2, <2>1 DEF ReaderSends, IInv, pathVars, SubType, RingInv, GateInv, PathInv, ClientInv
<1> QED BY <1>1, <1>2

\* A client that attaches starts where it resumes, or from an empty screen.
LEMMA StepConnect ==
  ASSUME IInv, Connect
  PROVE  IInv'
<1>1. PICK resume \in BOOLEAN :
        /\ AttachTerminals(IF resume /\ client.inc = inc THEN client.next ELSE 0)
        /\ client' = IF resume /\ client.inc = inc THEN client ELSE NoClientState(inc)
  BY DEF Connect
<1> DEFINE req == IF resume /\ client.inc = inc THEN client.next ELSE 0
<1>2. /\ UNCHANGED <<inc, ring, watch>> /\ lane' = <<>> /\ wire' = <<>>
  BY DEF Connect, ptyVars
<1>3. ClientInv' /\ client'.inc = inc /\ client'.next = req /\ req \in Nat
  <2>1. CASE resume /\ client.inc = inc
    BY <1>1, <2>1 DEF IInv, ClientInv
  <2>2. CASE ~(resume /\ client.inc = inc)
    BY <1>1, <2>2 DEF IInv, ClientInv, NoClientState, Bytes
  <2> QED BY <2>1, <2>2
<1>4. AttachTerminals(req)
  BY <1>1
<1> HIDE DEF req
<1>5. RingInv' /\ inc' \in Nat /\ watch' \in Nat /\ ring.next \in Nat
  BY <1>2 DEF IInv, RingInv, RingOf
<1>6. CASE ~present
  BY <1>3, <1>4, <1>5, <1>6, <1>2, DroppedPath DEF AttachTerminals, IInv
<1>7. CASE present
  <2> DEFINE frames == subscribe(ring, req)
  <2>1. /\ catchUp' = frames
        /\ sub' = [on |-> TRUE, cursor |-> ring.next, seen |-> 0, gate |-> frames = <<>>,
                   pump |-> "run", pending |-> <<>>]
    BY <1>4, <1>7 DEF AttachTerminals, Subscribed
  <2>2. Chain(inc, frames, req, ring.next)
    BY <1>3, SubscribeExact DEF IInv, RingInv
  <2> HIDE DEF frames
  <2>3. sub' \in SubType'
    BY <1>5, <2>1 DEF SubType
  <2>4. GateInv'
    BY <1>2, <2>1 DEF GateInv
  <2>5. /\ Chain(inc, wire', client'.next, req) /\ Chain(inc, catchUp', req, ring.next)
        /\ Chain(inc, lane', ring.next, ring.next)
        /\ Chain(inc, sub'.pending, ring.next, sub'.cursor)
    BY <1>2, <1>3, <2>1, <2>2, EmptyChain
  <2>6. PathInv'
    BY <1>2, <1>3, <1>5, <2>1, <2>5 DEF PathInv
  <2> QED BY <1>3, <1>5, <2>3, <2>4, <2>6 DEF IInv
<1> QED BY <1>6, <1>7

\* Whatever ends a subscription empties everything in flight to the client.
LEMMA StepDrop ==
  ASSUME IInv, Disconnect \/ UnknownStream \/ ServerRestarts
  PROVE  IInv'
<1>1. sub' = NoSub /\ catchUp' = <<>> /\ lane' = <<>> /\ wire' = <<>> /\ client' = client
  BY DEF Disconnect, UnknownStream, ServerRestarts, Dropped
<1>2. sub' \in SubType' /\ GateInv' /\ PathInv' /\ ClientInv'
  BY <1>1, DroppedPath DEF IInv, ClientInv
<1>3. inc' \in Nat /\ watch' \in Nat /\ RingInv'
  <2>1. CASE Disconnect \/ UnknownStream
    BY <2>1 DEF Disconnect, UnknownStream, ptyVars, IInv, RingInv
  <2>2. CASE ServerRestarts
    BY <2>2 DEF ServerRestarts, Fresh, EmptyRing, IInv, RingInv, RingOf, Bytes
  <2> QED BY <2>1, <2>2
<1> QED BY <1>2, <1>3 DEF IInv

\* The socket takes its next frame from the catch-up, and from the lane only
\* when no catch-up is left.
LEMMA StepWriter ==
  ASSUME IInv, WriterSendsCatchUp \/ WriterSendsLive
  PROVE  IInv'
<1>1. /\ UNCHANGED <<inc, ring, watch, client>> /\ sub'.pending = sub.pending
      /\ sub'.on = sub.on /\ sub'.cursor = sub.cursor /\ sub' \in SubType'
  <2>1. CASE WriterSendsCatchUp
    BY <2>1 DEF WriterSendsCatchUp, ptyVars, IInv, SubType
  <2>2. CASE WriterSendsLive
    BY <2>2 DEF WriterSendsLive, ptyVars, IInv, SubType
  <2> QED BY <2>1, <2>2
<1>2. RingInv' /\ ClientInv' /\ inc' \in Nat /\ watch' \in Nat
  BY <1>1 DEF IInv, RingInv, ClientInv
<1>3. sub.on
  BY DEF WriterSendsCatchUp, WriterSendsLive, IInv, PathInv
<1>4. PICK x \in Nat, y \in Nat, z \in Nat :
        /\ Chain(inc, wire, client.next, x) /\ Chain(inc, catchUp, x, y)
        /\ Chain(inc, lane, y, z) /\ Chain(inc, sub.pending, z, sub.cursor)
  BY <1>3 DEF IInv, PathInv
<1>5. client.next \in Nat
  BY DEF IInv, ClientInv
<1>6. CASE WriterSendsCatchUp
  <2>1. /\ catchUp # <<>> /\ wire' = Append(wire, Head(catchUp)) /\ catchUp' = Tail(catchUp)
        /\ lane' = lane /\ sub' = [sub EXCEPT !.gate = Tail(catchUp) = <<>>]
    BY <1>6 DEF WriterSendsCatchUp
  <2>2. /\ Exact(inc, Head(catchUp)) /\ Starts(Head(catchUp), x) /\ End(Head(catchUp)) \in Nat
        /\ Chain(inc, Tail(catchUp), End(Head(catchUp)), y)
    BY <1>4, <2>1, ChainTail
  <2>3. Chain(inc, wire', client.next, End(Head(catchUp)))
    BY <1>4, <1>5, <2>1, <2>2, ChainAppend
  <2>4. PathInv'
    BY <1>1, <1>3, <1>4, <2>1, <2>2, <2>3 DEF IInv, PathInv
  <2>5. GateInv'
    BY <2>1 DEF IInv, GateInv, SubType
  <2> QED BY <1>1, <1>2, <2>4, <2>5 DEF IInv
<1>7. CASE WriterSendsLive
  <2>1. /\ lane # <<>> /\ wire' = Append(wire, Head(lane)) /\ lane' = Tail(lane)
        /\ catchUp' = catchUp /\ sub' = sub
    BY <1>7 DEF WriterSendsLive
  <2>2. catchUp = <<>>
    BY <2>1 DEF IInv, GateInv
  <2>3. x = y
    BY <1>4, <2>2 DEF Chain
  <2>4. /\ Exact(inc, Head(lane)) /\ Starts(Head(lane), x) /\ End(Head(lane)) \in Nat
        /\ Chain(inc, Tail(lane), End(Head(lane)), z)
    BY <1>4, <2>1, <2>3, ChainTail
  <2>5. Chain(inc, wire', client.next, End(Head(lane)))
    BY <1>4, <1>5, <2>1, <2>4, ChainAppend
  <2>6. Chain(inc, catchUp', End(Head(lane)), End(Head(lane)))
    BY <2>1, <2>2, EmptyChain
  <2>7. PathInv'
    BY <1>1, <1>3, <1>4, <2>1, <2>4, <2>5, <2>6 DEF IInv, PathInv
  <2>8. GateInv'
    BY <2>1, <2>2 DEF GateInv
  <2> QED BY <1>1, <1>2, <2>7, <2>8 DEF IInv
<1> QED BY <1>6, <1>7

\* The pump drains the ring when the gate is open and it has nothing left to send.
LEMMA StepPumpReceives ==
  ASSUME IInv, PumpReceives
  PROVE  IInv'
<1> DEFINE events == live_events_from_ring(ring, sub.cursor)
<1>1. /\ UNCHANGED <<inc, ring, watch, catchUp, lane, wire, client>>
      /\ sub.pump = "run" /\ sub.gate /\ sub.pending = <<>>
      /\ \/ sub' = [sub EXCEPT !.pending = events, !.cursor = ring.next]
         \/ sub' = [sub EXCEPT !.seen = watch]
         \/ sub' = [sub EXCEPT !.pump = "end"]
  BY DEF PumpReceives, PumpReady, ptyVars
<1>2. RingInv' /\ ClientInv' /\ inc' \in Nat /\ watch' \in Nat /\ RingOf(inc, ring)
      /\ ring.next \in Nat /\ sub \in SubType /\ watch \in Nat
  BY <1>1 DEF IInv, RingInv, ClientInv, RingOf
<1>3. sub.on /\ catchUp = <<>> /\ sub.cursor \in Nat /\ sub.cursor <= ring.next
  BY <1>1 DEF IInv, PathInv, GateInv, SubType
<1>4. PICK x \in Nat, y \in Nat, z \in Nat :
        /\ Chain(inc, wire, client.next, x) /\ Chain(inc, catchUp, x, y)
        /\ Chain(inc, lane, y, z) /\ Chain(inc, sub.pending, z, sub.cursor)
  BY <1>3 DEF IInv, PathInv
<1>5. GateInv'
  BY <1>1, <1>3 DEF GateInv
<1>6. CASE sub' = [sub EXCEPT !.pending = events, !.cursor = ring.next]
  <2>1. z = sub.cursor
    BY <1>1, <1>4 DEF Chain
  <2>2. Chain(inc, events, z, ring.next)
    BY <1>2, <1>3, <2>1, LiveExact
  <2>3. events \in Seq(Frames(inc))
    BY <2>2 DEF Chain
  <2> HIDE DEF events
  <2>4. sub' \in SubType' /\ sub'.on /\ sub'.cursor = ring.next /\ sub'.pending = events
    BY <1>1, <1>2, <1>3, <1>6, <2>3 DEF SubType
  <2>5. PathInv'
    BY <1>1, <1>2, <1>3, <1>4, <2>2, <2>4 DEF IInv, PathInv
  <2> QED BY <1>2, <1>5, <2>4, <2>5 DEF IInv
<1>7. CASE sub' = [sub EXCEPT !.seen = watch] \/ sub' = [sub EXCEPT !.pump = "end"]
  <2>1. /\ sub' \in SubType' /\ sub'.on /\ sub'.cursor = sub.cursor
        /\ sub'.pending = sub.pending
    BY <1>1, <1>2, <1>3, <1>7 DEF SubType
  <2>2. PathInv'
    BY <1>1, <1>3, <1>4, <2>1 DEF IInv, PathInv
  <2> QED BY <1>2, <1>5, <2>1, <2>2 DEF IInv
<1> QED BY <1>1, <1>6, <1>7

\* What the pump drained enters the lane in order.
LEMMA StepPumpSends ==
  ASSUME IInv, PumpSends
  PROVE  IInv'
<1>1. /\ UNCHANGED <<inc, ring, watch, catchUp, wire, client>> /\ sub.pending # <<>>
      /\ lane' = Append(lane, Head(sub.pending))
      /\ sub' = [sub EXCEPT !.pending = Tail(@)]
  BY DEF PumpSends, ptyVars
<1>2. RingInv' /\ ClientInv' /\ inc' \in Nat /\ watch' \in Nat /\ sub \in SubType
  BY <1>1 DEF IInv, RingInv, ClientInv
<1>3. sub.on /\ catchUp = <<>>
  BY <1>1 DEF IInv, PathInv, GateInv
<1>4. PICK x \in Nat, y \in Nat, z \in Nat :
        /\ Chain(inc, wire, client.next, x) /\ Chain(inc, catchUp, x, y)
        /\ Chain(inc, lane, y, z) /\ Chain(inc, sub.pending, z, sub.cursor)
  BY <1>3 DEF IInv, PathInv
<1>5. /\ Exact(inc, Head(sub.pending)) /\ Starts(Head(sub.pending), z)
      /\ End(Head(sub.pending)) \in Nat
      /\ Chain(inc, Tail(sub.pending), End(Head(sub.pending)), sub.cursor)
  BY <1>1, <1>2, <1>4, ChainTail DEF SubType
<1>6. Chain(inc, lane', y, End(Head(sub.pending)))
  BY <1>1, <1>4, <1>5, ChainAppend
<1>7. /\ sub' \in SubType' /\ sub'.on /\ sub'.cursor = sub.cursor
      /\ sub'.pending = Tail(sub.pending)
  <2>1. Tail(sub.pending) \in Seq(Frames(inc))
    BY <1>5 DEF Chain
  <2> QED BY <1>1, <1>2, <1>3, <2>1 DEF SubType
<1>8. PathInv'
  BY <1>1, <1>4, <1>5, <1>6, <1>7, <1>3 DEF IInv, PathInv
<1>9. GateInv'
  BY <1>1, <1>3 DEF GateInv
<1> QED BY <1>2, <1>7, <1>8, <1>9 DEF IInv

\* A frame at the cursor extends the screen by its own bytes, a resync starts
\* it over; no other frame arrives.
LEMMA StepClient ==
  ASSUME IInv, ClientApplies
  PROVE  IInv'
<1> DEFINE f == Head(wire)
<1>1. /\ UNCHANGED <<inc, ring, watch, sub, catchUp, lane>> /\ wire # <<>>
      /\ wire' = Tail(wire)
      /\ client' = IF f.kind = "data" THEN applyData(client, f) ELSE applyResync(client, f)
  BY DEF ClientApplies, ptyVars
<1>2. RingInv' /\ inc' \in Nat /\ watch' \in Nat /\ sub' \in SubType' /\ GateInv'
  BY <1>1 DEF IInv, RingInv, SubType, GateInv
<1>3. sub.on
  BY <1>1 DEF IInv, PathInv
<1>4. PICK x \in Nat, y \in Nat, z \in Nat :
        /\ Chain(inc, wire, client.next, x) /\ Chain(inc, catchUp, x, y)
        /\ Chain(inc, lane, y, z) /\ Chain(inc, sub.pending, z, sub.cursor)
  BY <1>3 DEF IInv, PathInv
<1>5. /\ client \in [inc : Nat, next : Nat, screen : Seq(Nat \X Nat), base : Nat]
      /\ client.base <= client.next /\ client.inc = inc
      /\ client.screen = Bytes(inc, client.base, client.next - client.base)
  BY <1>3 DEF IInv, ClientInv, PathInv
<1>6. /\ Exact(inc, f) /\ Starts(f, client.next) /\ End(f) \in Nat
      /\ Chain(inc, Tail(wire), End(f), x)
  BY <1>1, <1>4, <1>5, ChainTail
<1> HIDE DEF f
<1>7. ClientInv' /\ client'.inc = inc /\ client'.next = End(f)
  <2>1. /\ f \in Frames(inc) /\ f.data = Bytes(inc, f.offset, Len(f.data))
        /\ f.offset \in Nat /\ Len(f.data) \in Nat /\ f.data \in Seq(Byte(inc))
    BY <1>6 DEF Exact, Frames
  <2>2. CASE f.kind = "data"
    <3>1. f.offset = client.next
      BY <1>6, <2>2 DEF Starts
    <3>2. CASE f.data = <<>>
      <4>1. End(f) = client.next /\ Len(f.data) = 0
        BY <1>5, <3>1, <3>2 DEF End
      <4>2. applyData(client, f) = client
        BY <1>5, <2>1, <3>1, <4>1 DEF applyData
      <4> QED BY <1>1, <1>5, <2>2, <4>1, <4>2 DEF ClientInv
    <3>3. CASE f.data # <<>>
      <4> DEFINE n == Len(f.data)
                 have == client.next - client.base
                 base == client.base
      <4>1. n \in Nat \ {0} /\ have \in Nat /\ base \in Nat /\ base + have = f.offset
            /\ have + n = End(f) - base
        <5>1. client.next \in Nat /\ client.base \in Nat /\ client.base <= client.next
          BY <1>5
        <5>2. n \in Nat \ {0}
          BY <2>1, <3>3
        <5> HIDE DEF n
        <5>3. End(f) = f.offset + n
          BY DEF End, n
        <5> QED BY <2>1, <3>1, <5>1, <5>2, <5>3
      <4>2. SubSeq(f.data, client.next - f.offset + 1, Len(f.data)) = f.data
        <5>1. client.next - f.offset + 1 = 1
          BY <1>5, <2>1, <3>1
        <5>2. SubSeq(f.data, 1, Len(f.data)) = f.data
          BY <2>1
        <5> QED BY <5>1, <5>2
      <4>3. client' = [client EXCEPT !.screen = @ \o f.data, !.next = End(f)]
        <5>1. ~(f.offset > client.next) /\ ~(End(f) <= client.next)
          BY <1>5, <2>1, <3>1, <4>1 DEF End
        <5>2. client' = applyData(client, f)
          BY <1>1, <2>2
        <5> QED BY <4>2, <5>1, <5>2 DEF applyData, End
      <4>4. client.screen \o f.data = Bytes(inc, base, have + n)
        <5>1. client.screen = Bytes(inc, base, have) /\ f.data = Bytes(inc, base + have, n)
          BY <1>5, <2>1, <4>1
        <5> HIDE DEF n, have, base
        <5>2. Bytes(inc, base, have) \o Bytes(inc, base + have, n) = Bytes(inc, base, have + n)
          <6>1. n \in Nat /\ have \in Nat /\ base \in Nat
            BY <4>1
          <6>2. \A a, m, k \in Nat : Bytes(inc, a, m) \o Bytes(inc, a + m, k) = Bytes(inc, a, m + k)
            BY JoinBytes
          <6> QED BY <6>1, <6>2, ZenonT(30)
        <5> QED BY <5>1, <5>2
      <4>5. Bytes(inc, base, have + n) \in Seq(Nat \X Nat)
        <5>1. have + n \in Nat /\ inc \in Nat
          BY <4>1 DEF IInv
        <5> HIDE DEF n, have, base
        <5> QED BY <4>1, <5>1 DEF Bytes
      <4>6. /\ client' \in [inc : Nat, next : Nat, screen : Seq(Nat \X Nat), base : Nat]
            /\ client'.inc = inc /\ client'.next = End(f) /\ client'.base = base
            /\ client'.screen = Bytes(inc, base, have + n)
        <5> HIDE DEF n, have
        <5> QED BY <1>5, <1>6, <4>3, <4>4, <4>5
      <4>7. base <= End(f)
        BY <4>1, <1>6
      <4> HIDE DEF n, have, base
      <4> QED BY <4>1, <4>6, <4>7 DEF ClientInv
    <3> QED BY <3>2, <3>3
  <2>3. CASE f.kind # "data"
    <3>1. f.kind = "resync"
      BY <2>1, <2>3 DEF Frames
    <3>2. f.data = <<>> /\ End(f) = f.offset
      BY <1>6, <2>1, <3>1 DEF Exact, End
    <3>3. client' = [client EXCEPT !.screen = <<>>, !.next = f.offset, !.base = f.offset]
      BY <1>1, <2>3 DEF applyResync
    <3>4. /\ client' \in [inc : Nat, next : Nat, screen : Seq(Nat \X Nat), base : Nat]
          /\ client'.inc = inc /\ client'.next = f.offset /\ client'.base = f.offset
          /\ client'.screen = <<>>
      <4>1. <<>> \in Seq(Nat \X Nat)
        OBVIOUS
      <4> QED BY <1>5, <2>1, <3>3, <4>1
    <3>5. Bytes(inc, f.offset, f.offset - f.offset) = <<>>
      BY <2>1 DEF Bytes
    <3> QED BY <2>1, <3>2, <3>4, <3>5 DEF ClientInv
  <2> QED BY <2>2, <2>3
<1>8. PathInv'
  BY <1>1, <1>3, <1>4, <1>6, <1>7 DEF IInv, PathInv
<1> QED BY <1>2, <1>7, <1>8 DEF IInv

-----------------------------------------------------------------------------
\* The empty path of a server that has just started.
LEMMA InitIInv == Init => IInv
<1> SUFFICES ASSUME Init PROVE IInv
  OBVIOUS
<1>1. RingInv
  BY DEF Init, EmptyRing, RingInv, RingOf, Bytes
<1>2. ClientInv
  BY DEF Init, NoClientState, ClientInv, Bytes
<1> QED BY <1>1, <1>2 DEF Init, IInv, NoSub, SubType, GateInv, PathInv

\* Every step keeps it: the actions of the setup, of the child's threads, of its
\* input and of its teardown leave the data path alone.
LEMMA NextIInv == IInv /\ [Next]_vars => IInv'
<1> SUFFICES ASSUME IInv, [Next]_vars PROVE IInv'
  OBVIOUS
<1>1. CASE UNCHANGED vars
  BY <1>1, StutterIInv DEF vars
<1>2. CASE \/ PrepareTerminalType \/ SpawnStream \/ SpawnFails
           \/ NodeCommitted \/ NodeRefused \/ NodeRolledBack
  BY <1>2, StutterIInv DEF PrepareTerminalType, SpawnStream, SpawnFails, NodeCommitted,
     NodeRefused, NodeRolledBack
<1>3. CASE \/ ChildExits \/ HoldersLetGo \/ ReaderSeesEnd \/ ReaderTakesChild
           \/ ReaderReaps \/ ReaderEnds
  BY <1>3, StutterIInv DEF ChildExits, HoldersLetGo, ReaderSeesEnd, ReaderTakesChild,
     ReaderReaps, ReaderEnds
<1>4. CASE \/ \E c \in {"input", "resize"} : HandleTerminalCommand(c)
           \/ CommandReceived \/ CommandQueueClosed \/ InputWritten \/ WriteFails
  BY <1>4, StutterIInv DEF HandleTerminalCommand, CommandReceived, CommandQueueClosed,
     InputWritten, WriteFails
<1>5. CASE CloseStream \/ KillerSignals \/ KillerTakesChild \/ KillerReaps \/ KillerJoins
  BY <1>5, StutterIInv DEF CloseStream, KillerSignals, KillerTakesChild, KillerReaps, KillerJoins
<1>6. CASE ReaderAppends \/ ReaderSends
  BY <1>6, StepReader
<1>7. CASE Connect \/ Disconnect \/ UnknownStream \/ ServerRestarts
  BY <1>7, StepConnect, StepDrop
<1>8. CASE \/ WriterSendsCatchUp \/ WriterSendsLive \/ PumpReceives \/ PumpSends
           \/ ClientApplies
  BY <1>8, StepWriter, StepPumpReceives, StepPumpSends, StepClient
<1> QED BY <1>1, <1>2, <1>3, <1>4, <1>5, <1>6, <1>7, <1>8 DEF Next

\* The frames between server and client always lead from what the client shows
\* to what its subscription has drained.
THEOREM Invariance == Spec => []IInv
BY InitIInv, NextIInv, PTL DEF Spec

\* ScreenExact for every ring, frame, read and lane size and any number of
\* reconnections and restarts: no byte is lost, repeated or misplaced silently.
THEOREM ScreenIsExact == Spec => []ScreenExact
<1>1. IInv => ScreenExact
  BY DEF IInv, ClientInv, ScreenExact, Bytes
<1> QED BY <1>1, Invariance, PTL
=============================================================================
