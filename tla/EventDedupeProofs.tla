-------------------------- MODULE EventDedupeProofs --------------------------
(***************************************************************************)
(* Proofs about EventDedupe for any number of clients, events and windows  *)
(* and any end of the sequence space.                                      *)
(***************************************************************************)
EXTENDS EventDedupe, FoldLemmas

(* The catch-up loop of note_settled_sequence stops at the first gap. *)
LEMMA NextGapFound ==
  ASSUME NEW S \in SUBSET EventSeqs, NEW seq \in EventSeqs
  PROVE  /\ NextGap(S, seq) \in (seq + 1) .. (SeqMax + 1)
         /\ NextGap(S, seq) \notin S
         /\ \A m \in (seq + 1) .. (SeqMax + 1) : m \notin S => NextGap(S, seq) <= m
<1> DEFINE G == {m \in (seq + 1) .. (SeqMax + 1) : m \notin S}
<1>1. SeqMax \in Nat /\ seq \in Nat /\ seq <= SeqMax
  BY WindowAssumption DEF EventSeqs
<1>2. G \in SUBSET Nat
  BY <1>1
<1>3. SeqMax + 1 \in G
  BY <1>1 DEF EventSeqs
<1>4. \E n \in G : \A m \in G : n <= m
  BY <1>2, <1>3, LeastExists
<1>5. \E n \in (seq + 1) .. (SeqMax + 1) :
        /\ n \notin S
        /\ \A m \in (seq + 1) .. (SeqMax + 1) : m \notin S => n <= m
  BY <1>4
<1> QED BY <1>5 DEF NextGap

-----------------------------------------------------------------------------
(* What the window operations preserve.                                    *)

(* Removing one position of a sequence leaves a sequence of the others. *)
LEMMA WithoutPositionType ==
  ASSUME NEW T, NEW s \in Seq(T), NEW p \in 1 .. Len(s)
  PROVE  /\ WithoutPosition(s, p) \in Seq(T)
         /\ Len(WithoutPosition(s, p)) = Len(s) - 1
<1>1. Len(s) - 1 \in Nat
  OBVIOUS
<1>2. \A i \in 1 .. Len(s) - 1 : (IF i < p THEN s[i] ELSE s[i + 1]) \in T
  OBVIOUS
<1> QED BY <1>1, <1>2 DEF WithoutPosition

(* Removing an element from an order keeps its type. *)
LEMMA WithoutType ==
  ASSUME NEW T, NEW s \in Seq(T), NEW x
  PROVE  Without(s, x) \in Seq(T)
BY WithoutPositionType DEF Without

(* An eviction drops one settled record the frontier vouches for. *)
LEMMA EvictPreserves ==
  ASSUME NEW w \in Window, WindowInv(w), EvictablePositions(w) # {}
  PROVE  LET v == EvictOldestSettled(w) IN
         /\ v \in Window
         /\ WindowInv(v)
         /\ v.frontier = w.frontier
         /\ v.settled_out_of_order = w.settled_out_of_order
         /\ \A id \in EventIds :
              v.seen_ids[id] = w.seen_ids[id] \/ v.seen_ids[id] = Absent
<1> DEFINE v == EvictOldestSettled(w)
           p == OldestEvictable(w)
           e == w.order[p]
<1>1. EvictablePositions(w) \in SUBSET Nat
  BY DEF EvictablePositions
<1>2. p \in EvictablePositions(w)
  BY <1>1, LeastExists DEF OldestEvictable
<1>3. p \in 1 .. Len(w.order) /\ e \in EventIds
  BY <1>2 DEF EvictablePositions, Window
<1>4. w.seen_ids[e].st = "settled" /\ w.seen_ids[e].seq <= w.frontier
  BY <1>2, <1>3 DEF EvictablePositions, IsEvictable, WindowInv
<1>5. WithoutPosition(w.order, p) \in Seq(EventIds)
  BY <1>3, WithoutPositionType DEF Window
<1>6. Absent \in EventRecord
  BY WindowAssumption DEF Absent, EventRecord, EventSeqs
<1>7. v = [w EXCEPT !.order = WithoutPosition(w.order, p),
                    !.seen_ids = [w.seen_ids EXCEPT ![e] = Absent],
                    !.ids_by_seq = w.ids_by_seq \ ({w.seen_ids[e].seq} \ {0}),
                    !.settled_out_of_order = w.settled_out_of_order \ ({w.seen_ids[e].seq} \ {0})]
  BY DEF EvictOldestSettled, Window
<1>8. v \in Window
  <2> DEFINE seen == [w.seen_ids EXCEPT ![e] = Absent]
             ids == w.ids_by_seq \ ({w.seen_ids[e].seq} \ {0})
             above == w.settled_out_of_order \ ({w.seen_ids[e].seq} \ {0})
             order == WithoutPosition(w.order, p)
  <2>1. seen \in [EventIds -> EventRecord] /\ order \in Seq(EventIds)
    BY <1>5, <1>6 DEF Window
  <2>2. ids \in SUBSET EventSeqs /\ above \in SUBSET EventSeqs
    BY DEF Window
  <2>3. v = [w EXCEPT !.order = order, !.seen_ids = seen, !.ids_by_seq = ids,
                      !.settled_out_of_order = above]
    BY <1>7
  <2> HIDE DEF v, seen, ids, above, order
  <2> QED BY <2>1, <2>2, <2>3, ZenonT(40) DEF Window
<1>9. v.seen_ids = [w.seen_ids EXCEPT ![e] = Absent] /\ v.frontier = w.frontier
  BY <1>7 DEF Window
<1>10. w.seen_ids[e].seq \notin w.settled_out_of_order
  BY <1>3, <1>4 DEF WindowInv, Window, EventRecord, EventSeqs
<1>11. v.settled_out_of_order = w.settled_out_of_order
  BY <1>7, <1>10 DEF Window
<1>12. v.ids_by_seq = w.ids_by_seq \ ({w.seen_ids[e].seq} \ {0})
  BY <1>7 DEF Window
<1>13. \A id \in EventIds : v.seen_ids[id] = w.seen_ids[id] \/ v.seen_ids[id] = Absent
  BY <1>3, <1>9 DEF Window
<1>14. Absent.st = "absent"
  BY DEF Absent
<1>15. \A n \in EventSeqs : n > w.frontier /\ n \in w.ids_by_seq => n \in v.ids_by_seq
  BY <1>3, <1>4, <1>12 DEF Window, EventRecord, EventSeqs
<1>16. WindowInv(v)
  BY <1>8, <1>9, <1>11, <1>13, <1>14, <1>15, SMTT(40) DEF WindowInv, Window, EventRecord, EventSeqs
<1> QED BY <1>8, <1>9, <1>11, <1>13, <1>16

(* A fresh admission puts one new record in flight; the frontier and what  *)
(* is settled above it stay.                                               *)
LEMMA AdmitPreserves ==
  ASSUME NEW w \in Window, WindowInv(w),
         NEW id \in EventIds, NEW seq \in EventSeqs, NEW type \in EventTypes,
         AdmitVerdict(w, id, seq, type) = "fresh"
  PROVE  LET v == Admit(w, id, seq, type) IN
         /\ v \in Window
         /\ WindowInv(v)
         /\ v.frontier = w.frontier
         /\ v.settled_out_of_order = w.settled_out_of_order
         /\ v.seen_ids[id] = InFlight(seq, type)
         /\ \A x \in EventIds \ {id} :
              v.seen_ids[x] = w.seen_ids[x] \/ v.seen_ids[x] = Absent
<1> DEFINE u == MakeRoom(w)
           v == Admit(w, id, seq, type)
<1>1. /\ id \notin Seen(w) /\ seq \notin w.ids_by_seq
      /\ ~ OutsideReceiveWindow(w, seq) /\ ~ NoRoom(w)
  BY DEF AdmitVerdict, ReplayVerdict
<1>2. /\ u \in Window /\ WindowInv(u)
      /\ u.frontier = w.frontier
      /\ u.settled_out_of_order = w.settled_out_of_order
      /\ \A x \in EventIds : u.seen_ids[x] = w.seen_ids[x] \/ u.seen_ids[x] = Absent
  BY <1>1, EvictPreserves DEF MakeRoom, NoRoom
<1>3. u.ids_by_seq \subseteq w.ids_by_seq
  BY DEF MakeRoom, EvictOldestSettled, Window
<1>4. seq > w.frontier /\ seq \notin u.ids_by_seq
  BY <1>1, <1>3 DEF OutsideReceiveWindow, EventSeqs, Window
<1>5. u.seen_ids[id].st = "absent"
  BY <1>1, <1>2 DEF Seen, Absent
<1>6. InFlight(seq, type) \in EventRecord
  BY DEF InFlight, EventRecord
<1>7. v = [u EXCEPT !.order = Append(u.order, id),
                    !.ids_by_seq = u.ids_by_seq \cup {seq},
                    !.seen_ids = [u.seen_ids EXCEPT ![id] = InFlight(seq, type)]]
  BY <1>2 DEF Admit, Window
<1>8. v \in Window
  <2>1. Append(u.order, id) \in Seq(EventIds)
    BY <1>2 DEF Window
  <2>2. u.ids_by_seq \cup {seq} \in SUBSET EventSeqs
    BY <1>2 DEF Window
  <2>3. [u.seen_ids EXCEPT ![id] = InFlight(seq, type)] \in [EventIds -> EventRecord]
    BY <1>2, <1>6 DEF Window
  <2> HIDE DEF u, v
  <2> QED BY <2>1, <2>2, <2>3, <1>2, <1>7 DEF Window
<1>9. /\ v.frontier = u.frontier
      /\ v.settled_out_of_order = u.settled_out_of_order
      /\ v.ids_by_seq = u.ids_by_seq \cup {seq}
      /\ v.seen_ids = [u.seen_ids EXCEPT ![id] = InFlight(seq, type)]
  BY <1>2, <1>7 DEF Window
<1>10. /\ v.seen_ids[id] = InFlight(seq, type)
       /\ \A x \in EventIds \ {id} : v.seen_ids[x] = u.seen_ids[x]
  BY <1>2, <1>9 DEF Window
<1>11. InFlight(seq, type).seq = seq /\ InFlight(seq, type).st = "in_flight"
  BY DEF InFlight
<1>12. seq \notin u.settled_out_of_order
  BY <1>2, <1>4 DEF WindowInv
<1>13. WindowInv(v)
  <2>1. ASSUME NEW x \in EventIds, v.seen_ids[x].st = "in_flight"
        PROVE  /\ v.seen_ids[x].seq > v.frontier
               /\ v.seen_ids[x].seq \notin v.settled_out_of_order
               /\ v.seen_ids[x].seq \in v.ids_by_seq
    BY <2>1, <1>2, <1>4, <1>9, <1>10, <1>11, <1>12 DEF WindowInv
  <2>2. ASSUME NEW x \in EventIds, v.seen_ids[x].st = "settled"
        PROVE  /\ v.seen_ids[x].seq # 0
               /\ \/ v.seen_ids[x].seq <= v.frontier
                  \/ v.seen_ids[x].seq \in v.settled_out_of_order
    BY <2>2, <1>2, <1>9, <1>10, <1>11 DEF WindowInv
  <2>3. ASSUME NEW a \in EventIds, NEW b \in EventIds,
               v.seen_ids[a].st = "in_flight", v.seen_ids[b].st = "in_flight",
               v.seen_ids[a].seq = v.seen_ids[b].seq
        PROVE  a = b
    BY <2>3, <1>2, <1>4, <1>10, <1>11 DEF WindowInv
  <2>4. ASSUME NEW n \in v.settled_out_of_order
        PROVE  n > v.frontier + 1 /\ n \in v.ids_by_seq
    BY <2>4, <1>2, <1>9 DEF WindowInv
  <2> QED BY <2>1, <2>2, <2>3, <2>4 DEF WindowInv
<1> QED BY <1>2, <1>8, <1>9, <1>10, <1>13

(* Settling an event in flight adds its sequence, and nothing else, to     *)
(* what the frontier and the set above the gap stand for.                  *)
LEMMA SettlePreserves ==
  ASSUME NEW w \in Window, WindowInv(w),
         NEW id \in EventIds, NEW outcome \in Outcomes,
         w.seen_ids[id].st = "in_flight"
  PROVE  LET v   == Settle(w, id, outcome)
             seq == w.seen_ids[id].seq
         IN
         /\ v \in Window
         /\ WindowInv(v)
         /\ (1 .. v.frontier) \cup v.settled_out_of_order
              = (1 .. w.frontier) \cup w.settled_out_of_order \cup {seq}
         /\ v.seen_ids = [w.seen_ids EXCEPT
                            ![id] = Settled(w.seen_ids[id], outcome)]
<1> DEFINE seq == w.seen_ids[id].seq
           rec == Settled(w.seen_ids[id], outcome)
           u   == [w EXCEPT !.seen_ids = [w.seen_ids EXCEPT ![id] = rec]]
           v   == Settle(w, id, outcome)
<1>1. /\ seq \in EventSeqs /\ seq > w.frontier /\ seq # 0
      /\ seq \notin w.settled_out_of_order /\ seq \in w.ids_by_seq
      /\ w.frontier \in EventSeqs /\ seq \in Nat /\ w.frontier \in Nat
      /\ w.settled_out_of_order \in SUBSET EventSeqs
  BY DEF WindowInv, Window, EventRecord, EventSeqs
<1>2. rec \in EventRecord /\ rec.seq = seq /\ rec.st = "settled"
  BY DEF Window, EventRecord, Settled
<1> HIDE DEF rec
<1>3. u \in Window
  BY <1>2 DEF Window
<1>4. /\ u.frontier = w.frontier /\ u.ids_by_seq = w.ids_by_seq
      /\ u.settled_out_of_order = w.settled_out_of_order
      /\ u.seen_ids = [w.seen_ids EXCEPT ![id] = rec]
      /\ u.seen_ids[id] = rec
      /\ \A x \in EventIds \ {id} : u.seen_ids[x] = w.seen_ids[x]
  BY DEF Window
<1>5. v = NoteSettledSequence(u, seq)
  BY DEF Settle, Window, rec
<1>6. SeqMax \in Nat
  BY WindowAssumption
<1>7. \A x \in EventIds \ {id} : w.seen_ids[x].st = "in_flight" =>
          /\ w.seen_ids[x].seq # seq /\ w.seen_ids[x].seq > w.frontier
          /\ w.seen_ids[x].seq \in EventSeqs
          /\ w.seen_ids[x].seq \notin w.settled_out_of_order
          /\ w.seen_ids[x].seq \in w.ids_by_seq
  BY DEF WindowInv, Window, EventRecord
<1>8. CASE seq = SaturatingAdd(w.frontier, 1)
  <2> DEFINE gap     == NextGap(w.settled_out_of_order, seq)
             reached == gap - 1
  <2>1. seq = w.frontier + 1
    BY <1>8, <1>1, <1>6 DEF SaturatingAdd, EventSeqs
  <2>2. /\ gap \in (seq + 1) .. (SeqMax + 1)
        /\ gap \notin w.settled_out_of_order
        /\ \A m \in (seq + 1) .. (SeqMax + 1) : m \notin w.settled_out_of_order => gap <= m
    BY <1>1, NextGapFound
  <2>3. reached \in EventSeqs /\ reached >= seq /\ gap = reached + 1 /\ reached \in Nat
    BY <2>2, <1>1, <1>6 DEF EventSeqs
  <2> HIDE DEF gap, reached
  <2>4. \A m \in (seq + 1) .. reached : m \in w.settled_out_of_order
    BY <2>2, <2>3, <1>1, <1>6 DEF EventSeqs
  <2>5. v = [u EXCEPT !.frontier = reached,
                      !.settled_out_of_order = w.settled_out_of_order \ ((seq + 1) .. reached)]
    BY <1>1, <1>3, <1>4, <1>5, <1>8 DEF NoteSettledSequence, gap, reached, Window
  <2>6. /\ v \in Window /\ v.frontier = reached
        /\ v.settled_out_of_order = w.settled_out_of_order \ ((seq + 1) .. reached)
        /\ v.ids_by_seq = w.ids_by_seq /\ v.seen_ids = u.seen_ids
    <3> DEFINE above == w.settled_out_of_order \ ((seq + 1) .. reached)
    <3>1. above \in SUBSET EventSeqs
      BY DEF Window
    <3> HIDE DEF above
    <3>2. v = [u EXCEPT !.frontier = reached, !.settled_out_of_order = above]
      BY <2>5 DEF above
    <3>3. v \in Window /\ v.frontier = reached /\ v.settled_out_of_order = above
      BY <1>3, <1>4, <2>3, <3>1, <3>2, ZenonT(40) DEF Window
    <3>4. v.ids_by_seq = w.ids_by_seq /\ v.seen_ids = u.seen_ids
      BY <1>3, <1>4, <3>2, ZenonT(40) DEF Window
    <3> QED BY <3>3, <3>4 DEF above
  <2>7. \A n \in w.settled_out_of_order : n \in EventSeqs /\ n > w.frontier + 1 /\ n \in w.ids_by_seq
    BY <1>1 DEF WindowInv
  <2>8. (1 .. v.frontier) \cup v.settled_out_of_order
              = (1 .. w.frontier) \cup w.settled_out_of_order \cup {seq}
    BY <1>1, <2>1, <2>3, <2>4, <2>6, <2>7 DEF EventSeqs
  <2>9. \A n \in v.settled_out_of_order : n > v.frontier + 1 /\ n \in v.ids_by_seq
    <3>1. ASSUME NEW n \in w.settled_out_of_order, n \notin (seq + 1) .. reached
          PROVE  n > reached + 1
      <4>1. n \in Nat /\ n > seq /\ n # reached + 1
        BY <3>1, <2>1, <2>2, <2>3, <2>7, <1>6 DEF EventSeqs
      <4> QED BY <3>1, <4>1, <2>3, <1>1
    <3> QED BY <3>1, <2>6, <2>7
  <2>10. WindowInv(v)
    <3>1. ASSUME NEW x \in EventIds, v.seen_ids[x].st = "in_flight"
          PROVE  /\ v.seen_ids[x].seq > v.frontier
                 /\ v.seen_ids[x].seq \notin v.settled_out_of_order
                 /\ v.seen_ids[x].seq \in v.ids_by_seq
      <4>1. x # id /\ v.seen_ids[x] = w.seen_ids[x]
        BY <3>1, <1>2, <1>4, <2>6
      <4> QED BY <3>1, <4>1, <1>7, <1>1, <2>1, <2>3, <2>4, <2>6 DEF EventSeqs
    <3>2. ASSUME NEW x \in EventIds, v.seen_ids[x].st = "settled"
          PROVE  /\ v.seen_ids[x].seq # 0
                 /\ \/ v.seen_ids[x].seq <= v.frontier
                    \/ v.seen_ids[x].seq \in v.settled_out_of_order
      <4>1. CASE x = id
        BY <4>1, <1>1, <1>2, <1>4, <2>3, <2>6
      <4>2. CASE x # id
        <5>1. /\ v.seen_ids[x] = w.seen_ids[x] /\ w.seen_ids[x].seq \in EventSeqs
              /\ w.seen_ids[x].seq # 0
              /\ \/ w.seen_ids[x].seq <= w.frontier
                 \/ w.seen_ids[x].seq \in w.settled_out_of_order
          BY <4>2, <3>2, <1>4, <2>6 DEF WindowInv, Window, EventRecord
        <5> QED BY <5>1, <1>1, <2>1, <2>3, <2>6, <2>7 DEF EventSeqs
      <4> QED BY <4>1, <4>2
    <3>3. ASSUME NEW a \in EventIds, NEW b \in EventIds,
                 v.seen_ids[a].st = "in_flight", v.seen_ids[b].st = "in_flight",
                 v.seen_ids[a].seq = v.seen_ids[b].seq
          PROVE  a = b
      BY <3>3, <1>2, <1>4, <2>6 DEF WindowInv
    <3> QED BY <3>1, <3>2, <3>3, <2>9 DEF WindowInv
  <2> QED BY <1>4, <2>6, <2>8, <2>10 DEF rec
<1>9. CASE seq # SaturatingAdd(w.frontier, 1)
  <2>1. seq > w.frontier + 1
    BY <1>9, <1>1, <1>6 DEF SaturatingAdd, EventSeqs
  <2>2. v = [u EXCEPT !.settled_out_of_order = w.settled_out_of_order \cup {seq}]
    BY <1>1, <1>4, <1>5, <1>9 DEF NoteSettledSequence, EventSeqs, Window
  <2>3. /\ v \in Window /\ v.frontier = w.frontier
        /\ v.settled_out_of_order = w.settled_out_of_order \cup {seq}
        /\ v.ids_by_seq = w.ids_by_seq /\ v.seen_ids = u.seen_ids
    <3>1. w.settled_out_of_order \cup {seq} \in SUBSET EventSeqs
      BY <1>1
    <3> HIDE DEF u, v, seq
    <3> QED BY <3>1, <1>3, <1>4, <2>2 DEF Window
  <2>4. WindowInv(v)
    <3>1. ASSUME NEW x \in EventIds, v.seen_ids[x].st = "in_flight"
          PROVE  /\ v.seen_ids[x].seq > v.frontier
                 /\ v.seen_ids[x].seq \notin v.settled_out_of_order
                 /\ v.seen_ids[x].seq \in v.ids_by_seq
      BY <3>1, <1>2, <1>4, <1>7, <2>3
    <3>2. ASSUME NEW x \in EventIds, v.seen_ids[x].st = "settled"
          PROVE  /\ v.seen_ids[x].seq # 0
                 /\ \/ v.seen_ids[x].seq <= v.frontier
                    \/ v.seen_ids[x].seq \in v.settled_out_of_order
      BY <3>2, <1>1, <1>2, <1>4, <2>3 DEF WindowInv
    <3>3. ASSUME NEW a \in EventIds, NEW b \in EventIds,
                 v.seen_ids[a].st = "in_flight", v.seen_ids[b].st = "in_flight",
                 v.seen_ids[a].seq = v.seen_ids[b].seq
          PROVE  a = b
      BY <3>3, <1>2, <1>4, <2>3 DEF WindowInv
    <3>4. ASSUME NEW n \in v.settled_out_of_order
          PROVE  n > v.frontier + 1 /\ n \in v.ids_by_seq
      BY <3>4, <1>1, <2>1, <2>3 DEF WindowInv
    <3> QED BY <3>1, <3>2, <3>3, <3>4 DEF WindowInv
  <2> QED BY <1>4, <2>3, <2>4 DEF rec
<1> QED BY <1>8, <1>9

(* Abandoning an event in flight frees its slot and changes nothing else. *)
LEMMA AbandonPreserves ==
  ASSUME NEW w \in Window, WindowInv(w), NEW id \in EventIds,
         w.seen_ids[id].st = "in_flight"
  PROVE  LET v == Abandon(w, id) IN
         /\ v \in Window
         /\ WindowInv(v)
         /\ v.frontier = w.frontier
         /\ v.settled_out_of_order = w.settled_out_of_order
         /\ v.seen_ids = [w.seen_ids EXCEPT ![id] = Absent]
<1> DEFINE v == Abandon(w, id)
<1>1. Without(w.order, id) \in Seq(EventIds)
  BY WithoutType DEF Window
<1>2. Absent \in EventRecord /\ Absent.st = "absent"
  BY WindowAssumption DEF Absent, EventRecord, EventSeqs
<1>3. v = [w EXCEPT !.seen_ids = [w.seen_ids EXCEPT ![id] = Absent],
                    !.ids_by_seq = w.ids_by_seq \ {w.seen_ids[id].seq},
                    !.order = Without(w.order, id)]
  BY DEF Abandon, Window
<1>4. v \in Window
  <2>1. [w.seen_ids EXCEPT ![id] = Absent] \in [EventIds -> EventRecord]
    BY <1>2 DEF Window
  <2> QED BY <1>1, <1>3, <2>1, ZenonT(40) DEF Window
<1>5. /\ v.frontier = w.frontier
      /\ v.settled_out_of_order = w.settled_out_of_order
      /\ v.ids_by_seq = w.ids_by_seq \ {w.seen_ids[id].seq}
      /\ v.seen_ids = [w.seen_ids EXCEPT ![id] = Absent]
  BY <1>3 DEF Window
<1>6. v.seen_ids[id] = Absent /\ \A x \in EventIds \ {id} : v.seen_ids[x] = w.seen_ids[x]
  BY <1>5 DEF Window
<1>7. WindowInv(v)
  BY <1>2, <1>5, <1>6 DEF WindowInv
<1> QED BY <1>4, <1>5, <1>7

-----------------------------------------------------------------------------
(* The eviction orders: distinct sequences under append, tail and removal. *)

(* A new element at the end keeps an order free of repetitions. *)
LEMMA AppendOrder ==
  ASSUME NEW T, NEW s \in Seq(T), NEW x \in T, Distinct(s), ~ In(x, s)
  PROVE  /\ Append(s, x) \in Seq(T)
         /\ Distinct(Append(s, x))
         /\ \A y : In(y, Append(s, x)) <=> In(y, s) \/ y = x
<1> DEFINE t == Append(s, x)
<1>1. /\ t \in Seq(T) /\ Len(t) = Len(s) + 1 /\ Len(s) \in Nat
      /\ t[Len(s) + 1] = x /\ \A i \in 1 .. Len(s) : t[i] = s[i]
  OBVIOUS
<1> HIDE DEF t
<1>2. Distinct(t)
  BY <1>1 DEF Distinct, In
<1>3. ASSUME NEW y PROVE In(y, t) <=> In(y, s) \/ y = x
  BY <1>1 DEF In
<1> QED BY <1>1, <1>2, <1>3 DEF t

(* Evicting the oldest element removes that element and no other. *)
LEMMA TailOrder ==
  ASSUME NEW T, NEW s \in Seq(T), Distinct(s), Len(s) > 0
  PROVE  /\ Tail(s) \in Seq(T)
         /\ Len(Tail(s)) = Len(s) - 1
         /\ Head(s) \in T /\ In(Head(s), s)
         /\ Distinct(Tail(s))
         /\ \A y : In(y, Tail(s)) <=> In(y, s) /\ y # Head(s)
<1> DEFINE t == Tail(s)
<1>1. /\ t \in Seq(T) /\ Len(t) = Len(s) - 1 /\ Len(s) \in Nat
      /\ Head(s) = s[1] /\ \A i \in 1 .. Len(t) : t[i] = s[i + 1]
  OBVIOUS
<1> HIDE DEF t
<1>2. Distinct(t)
  BY <1>1 DEF Distinct
<1>3. ASSUME NEW y PROVE In(y, t) <=> In(y, s) /\ y # Head(s)
  <2>1. ASSUME In(y, t) PROVE In(y, s) /\ y # Head(s)
    BY <2>1, <1>1 DEF In, Distinct
  <2>2. ASSUME In(y, s), y # Head(s) PROVE In(y, t)
    <3>1. PICK i \in 1 .. Len(s) : s[i] = y
      BY <2>2 DEF In
    <3>2. i - 1 \in 1 .. Len(t) /\ t[i - 1] = y
      BY <3>1, <2>2, <1>1
    <3> QED BY <3>2 DEF In
  <2> QED BY <2>1, <2>2
<1>4. Head(s) \in T /\ In(Head(s), s)
  BY <1>1 DEF In
<1> QED BY <1>1, <1>2, <1>3, <1>4 DEF t

(* Removing an element removes it and no other. *)
LEMMA WithoutOrder ==
  ASSUME NEW T, NEW s \in Seq(T), NEW x, Distinct(s)
  PROVE  /\ Without(s, x) \in Seq(T)
         /\ Distinct(Without(s, x))
         /\ \A y : In(y, Without(s, x)) <=> In(y, s) /\ y # x
         /\ Len(Without(s, x)) = IF In(x, s) THEN Len(s) - 1 ELSE Len(s)
<1>1. CASE ~ In(x, s)
  BY <1>1 DEF Without, In
<1>2. CASE In(x, s)
  <2> DEFINE p == CHOOSE q \in 1 .. Len(s) : s[q] = x
             t == WithoutPosition(s, p)
  <2>1. p \in 1 .. Len(s) /\ s[p] = x
    BY <1>2 DEF In
  <2>2. Without(s, x) = t
    BY <1>2 DEF Without, In
  <2> HIDE DEF p
  <2>3. t \in Seq(T) /\ Len(t) = Len(s) - 1
    BY <2>1, WithoutPositionType
  <2>4. \A i \in 1 .. Len(t) : t[i] = IF i < p THEN s[i] ELSE s[i + 1]
    BY <2>3 DEF WithoutPosition
  <2>5. Len(s) \in Nat /\ p \in Nat
    BY <2>1
  <2> HIDE DEF t
  <2>6. Distinct(t)
    <3>1. SUFFICES ASSUME NEW i \in 1 .. Len(t), NEW j \in 1 .. Len(t), t[i] = t[j]
                   PROVE  i = j
      BY DEF Distinct
    <3> DEFINE a == IF i < p THEN i ELSE i + 1
               b == IF j < p THEN j ELSE j + 1
    <3>2. a \in 1 .. Len(s) /\ b \in 1 .. Len(s) /\ (a = b => i = j)
      BY <2>1, <2>3, <2>5
    <3>3. t[i] = s[a] /\ t[j] = s[b]
      BY <2>4
    <3> HIDE DEF a, b
    <3> QED BY <3>1, <3>2, <3>3 DEF Distinct
  <2>7. ASSUME NEW y, In(y, t) PROVE In(y, s) /\ y # x
    BY <2>7, <2>1, <2>3, <2>4, <2>5 DEF In, Distinct
  <2>8. ASSUME NEW y, In(y, s), y # x PROVE In(y, t)
    <3>1. PICK i \in 1 .. Len(s) : s[i] = y
      BY <2>8 DEF In
    <3>2. CASE i < p
      BY <3>1, <3>2, <2>1, <2>3, <2>4, <2>5 DEF In
    <3>3. CASE i > p
      <4>1. i - 1 \in 1 .. Len(t) /\ t[i - 1] = y
        BY <3>1, <3>3, <2>1, <2>3, <2>4, <2>5
      <4> QED BY <4>1 DEF In
    <3>4. i # p
      BY <3>1, <2>1, <2>8
    <3> QED BY <3>1, <3>2, <3>3, <3>4, <2>5
  <2> QED BY <1>2, <2>2, <2>3, <2>6, <2>7, <2>8
<1> QED BY <1>1, <1>2

(* Taking a frontier out removes exactly that client's entry. *)
LEMMA TakePreserves ==
  ASSUME NEW r \in Retained, RetainedInv(r), NEW c \in ClientIds
  PROVE  LET v == TakeFrontier(r, c) IN
         /\ v \in Retained /\ RetainedInv(v)
         /\ v.frontiers = [r.frontiers EXCEPT ![c] = 0]
         /\ r.frontiers[c] # 0 => Len(v.order) < MaxWindows
<1> DEFINE v == TakeFrontier(r, c)
<1>1. r.order \in Seq(ClientIds) /\ r.frontiers \in [ClientIds -> EventSeqs]
  BY DEF Retained
<1>2. /\ v.frontiers = [r.frontiers EXCEPT ![c] = 0]
      /\ v.order = Without(r.order, c)
      /\ v = [frontiers |-> [r.frontiers EXCEPT ![c] = 0], order |-> Without(r.order, c)]
  BY DEF TakeFrontier
<1>3. /\ v.order \in Seq(ClientIds) /\ Distinct(v.order)
      /\ \A y : In(y, v.order) <=> In(y, r.order) /\ y # c
      /\ Len(v.order) = IF In(c, r.order) THEN Len(r.order) - 1 ELSE Len(r.order)
  <2>1. Distinct(r.order)
    BY DEF RetainedInv
  <2> HIDE DEF v
  <2> QED BY <1>1, <1>2, <2>1, WithoutOrder, SMTT(30)
<1>4. 0 \in EventSeqs
  BY WindowAssumption DEF EventSeqs
<1>5. v \in Retained
  BY <1>1, <1>2, <1>3, <1>4 DEF Retained
<1>6. Len(r.order) \in Nat /\ Len(r.order) <= MaxWindows /\ MaxWindows \in Nat
  BY <1>1, DedupeAssumption DEF RetainedInv
<1>7. Lists(v.order, {x \in ClientIds : v.frontiers[x] # 0})
  BY <1>1, <1>2, <1>3 DEF Lists, RetainedInv
<1>8. r.frontiers[c] # 0 => In(c, r.order)
  BY DEF RetainedInv, Lists
<1> QED BY <1>2, <1>3, <1>5, <1>6, <1>7, <1>8 DEF RetainedInv

(* Retaining a frontier adds that client's entry and drops another one     *)
(* only beyond the bound.                                                  *)
LEMMA RetainPreserves ==
  ASSUME NEW r \in Retained, RetainedInv(r), NEW c \in ClientIds,
         NEW f \in EventSeqs, r.frontiers[c] = 0
  PROVE  LET v == RetainFrontier(r, c, f) IN
         /\ v \in Retained /\ RetainedInv(v)
         /\ v.frontiers[c] = f
         /\ \A x \in ClientIds \ {c} : v.frontiers[x] = 0 \/ v.frontiers[x] = r.frontiers[x]
         /\ Len(r.order) < MaxWindows =>
              \A x \in ClientIds \ {c} : v.frontiers[x] = r.frontiers[x]
<1> DEFINE v == RetainFrontier(r, c, f)
           t == Append(r.order, c)
           k == [r.frontiers EXCEPT ![c] = f]
<1>1. /\ r.order \in Seq(ClientIds) /\ r.frontiers \in [ClientIds -> EventSeqs]
      /\ MaxWindows \in Nat /\ MaxWindows > 0 /\ 0 \in EventSeqs
      /\ Len(r.order) \in Nat /\ Len(r.order) <= MaxWindows
  BY DedupeAssumption, WindowAssumption DEF Retained, EventSeqs, RetainedInv
<1>2. ~ In(c, r.order)
  BY DEF RetainedInv, Lists
<1>3. /\ t \in Seq(ClientIds) /\ Distinct(t) /\ Len(t) = Len(r.order) + 1
      /\ \A y : In(y, t) <=> In(y, r.order) \/ y = c
  BY <1>1, <1>2, AppendOrder DEF RetainedInv
<1>4. k \in [ClientIds -> EventSeqs]
  BY <1>1
<1>5. CASE f = 0
  BY <1>5, <1>1 DEF RetainFrontier
<1>6. CASE f # 0 /\ Len(t) <= MaxWindows
  <2>1. v = [frontiers |-> k, order |-> t]
    BY <1>6 DEF RetainFrontier
  <2> HIDE DEF t
  <2>2. Lists(t, {x \in ClientIds : k[x] # 0})
    BY <1>1, <1>3, <1>6 DEF Lists, RetainedInv
  <2> QED BY <2>1, <2>2, <1>1, <1>3, <1>4, <1>6 DEF Retained, RetainedInv
<1>7. CASE f # 0 /\ Len(t) > MaxWindows
  <2> DEFINE h == Head(t)
  <2>1. v = [frontiers |-> [k EXCEPT ![h] = 0], order |-> Tail(t)]
    <3>1. ~ (Len(t) <= MaxWindows)
      BY <1>7, <1>1, <1>3
    <3> QED BY <3>1, <1>7, Zenon DEF RetainFrontier
  <2>2. h = r.order[1] /\ Len(r.order) > 0
    BY <1>1, <1>3, <1>7
  <2>3. In(h, r.order)
    BY <2>2, <1>1 DEF In
  <2>4. h # c
    BY <2>3, <1>2
  <2> HIDE DEF t
  <2>5. /\ Tail(t) \in Seq(ClientIds) /\ Len(Tail(t)) = Len(t) - 1
        /\ h \in ClientIds /\ Distinct(Tail(t))
        /\ \A y : In(y, Tail(t)) <=> In(y, t) /\ y # h
    BY <1>1, <1>3, <1>7, TailOrder
  <2> HIDE DEF h
  <2>6. Lists(Tail(t), {x \in ClientIds : [k EXCEPT ![h] = 0][x] # 0})
    BY <2>4, <2>5, <1>1, <1>3, <1>7 DEF Lists, RetainedInv
  <2>7. [k EXCEPT ![h] = 0] \in [ClientIds -> EventSeqs]
    BY <1>1, <1>4
  <2>8. v \in Retained /\ RetainedInv(v)
    BY <2>1, <2>5, <2>6, <2>7, <1>1, <1>3 DEF Retained, RetainedInv
  <2>9. v.frontiers[c] = f
    BY <2>1, <2>4, <1>1
  <2>10. \A x \in ClientIds \ {c} : v.frontiers[x] = 0 \/ v.frontiers[x] = r.frontiers[x]
    BY <2>1, <1>1
  <2>11. ~ (Len(r.order) < MaxWindows)
    BY <1>1, <1>3, <1>7
  <2> QED BY <2>8, <2>9, <2>10, <2>11
<1> QED BY <1>1, <1>3, <1>5, <1>6, <1>7

-----------------------------------------------------------------------------
(* The inductive invariant, one lemma per operation.                       *)

(* Touching a client moves it to the end of the eviction order. *)
LEMMA TouchOrder ==
  ASSUME IndInv, NEW c \in clients
  PROVE  /\ TouchClient(c) \in Seq(ClientIds)
         /\ Distinct(TouchClient(c))
         /\ Lists(TouchClient(c), clients)
<1>1. /\ client_order \in Seq(ClientIds) /\ Distinct(client_order)
      /\ Lists(client_order, clients) /\ c \in ClientIds
  BY DEF IndInv, TypeOK, OrdersInv
<1> DEFINE t == Without(client_order, c)
<1>2. /\ t \in Seq(ClientIds) /\ Distinct(t)
      /\ \A y : In(y, t) <=> In(y, client_order) /\ y # c
  BY <1>1, WithoutOrder
<1>3. TouchClient(c) = Append(t, c)
  BY DEF TouchClient
<1> HIDE DEF t
<1>4. /\ Append(t, c) \in Seq(ClientIds) /\ Distinct(Append(t, c))
      /\ \A y : In(y, Append(t, c)) <=> In(y, t) \/ y = c
  BY <1>1, <1>2, AppendOrder
<1> QED BY <1>1, <1>2, <1>3, <1>4 DEF Lists

(* A step that only reorders the clients keeps the eviction orders right. *)
LEMMA OrdersKept ==
  ASSUME IndInv, clients' = clients, evicted' = evicted,
         Distinct(client_order'), Lists(client_order', clients)
  PROVE  OrdersInv'
<1>1. RetainedInv(evicted)' /\ \A c \in clients' : evicted'.frontiers[c] = 0
  BY DEF IndInv, OrdersInv, RetainedInv, Distinct, Lists, In
<1>2. Distinct(client_order)' /\ Lists(client_order, clients)'
  BY DEF Distinct, Lists, In
<1> QED BY <1>1, <1>2 DEF OrdersInv

(* A step that replaces one window by a good one keeps the others good. *)
LEMMA WindowsKept ==
  ASSUME IndInv, NEW c \in ClientIds, NEW v, WindowInv(v),
         windows' = [windows EXCEPT ![c] = v]
  PROVE  \A x \in ClientIds : WindowInv(windows[x])'
<1> SUFFICES ASSUME NEW x \in ClientIds PROVE WindowInv(windows'[x])
  OBVIOUS
<1>1. windows'[x] = IF x = c THEN v ELSE windows[x]
  BY DEF IndInv, TypeOK
<1>2. WindowInv(windows[x])
  BY DEF IndInv
<1> QED BY <1>1, <1>2

(* The window of a client seen for the first time. *)
LEMMA EmptyWindowInv == EmptyWindow \in Window /\ WindowInv(EmptyWindow)
<1>1. Absent \in EventRecord /\ Absent.st = "absent" /\ 0 \in EventSeqs
  BY WindowAssumption DEF Absent, EventRecord, EventSeqs
<1>2. << >> \in Seq(EventIds)
  OBVIOUS
<1>3. EmptyWindow \in Window
  BY <1>1, <1>2 DEF EmptyWindow, Window
<1>4. WindowInv(EmptyWindow)
  BY <1>1 DEF WindowInv, EmptyWindow
<1> QED BY <1>3, <1>4

(* The empty deduplicator satisfies the invariant. *)
LEMMA InitIndInv == Init => IndInv
<1> SUFFICES ASSUME Init PROVE IndInv
  OBVIOUS
<1> USE DEF Init
<1>1. 0 \in EventSeqs /\ MaxWindows \in Nat
  BY WindowAssumption, DedupeAssumption DEF EventSeqs
<1>2. TypeOK
  BY <1>1, EmptyWindowInv DEF TypeOK, Retained, Blank
<1>3. \A c \in ClientIds : WindowInv(windows[c])
  BY EmptyWindowInv
<1>4. OrdersInv
  BY <1>1 DEF OrdersInv, RetainedInv, Distinct, Lists, In
<1>5. FrontierExact
  BY DEF FrontierExact, SettledSeqs, Blank
<1>6. CachedOutcomeFaithful
  BY DEF CachedOutcomeFaithful
<1> QED BY <1>2, <1>3, <1>4, <1>5, <1>6 DEF IndInv

(* An event of a client that has a window (admit). *)
LEMMA AdmitKnownStep ==
  ASSUME IndInv, NEW c \in ClientIds, NEW id \in EventIds,
         NEW seq \in EventSeqs, NEW type \in EventTypes,
         AdmitKnown(c, id, seq, type)
  PROVE  IndInv'
<1> DEFINE w == windows[c]
           v == IF AdmitVerdict(w, id, seq, type) = "fresh"
                THEN Admit(w, id, seq, type) ELSE w
<1>1. /\ c \in clients /\ client_order' = TouchClient(c)
      /\ clients' = clients /\ evicted' = evicted /\ history' = history
  BY DEF AdmitKnown
<1>2. w \in Window /\ WindowInv(w) /\ windows \in [ClientIds -> Window]
  BY DEF IndInv, TypeOK
<1>3. windows' = [windows EXCEPT ![c] = v]
  BY <1>2 DEF AdmitKnown
<1>4. /\ v \in Window /\ WindowInv(v)
      /\ v.frontier = w.frontier /\ v.settled_out_of_order = w.settled_out_of_order
      /\ \A x \in EventIds : v.seen_ids[x].st = "settled" => v.seen_ids[x] = w.seen_ids[x]
  <2>1. CASE AdmitVerdict(w, id, seq, type) = "fresh"
    <3> HIDE DEF w
    <3>1. /\ v \in Window /\ WindowInv(v)
          /\ v.frontier = w.frontier
          /\ v.settled_out_of_order = w.settled_out_of_order
          /\ v.seen_ids[id] = InFlight(seq, type)
          /\ \A x \in EventIds \ {id} :
               v.seen_ids[x] = w.seen_ids[x] \/ v.seen_ids[x] = Absent
      BY <2>1, <1>2, AdmitPreserves
    <3> HIDE DEF v
    <3> QED BY <3>1 DEF InFlight, Absent
  <2>2. CASE AdmitVerdict(w, id, seq, type) # "fresh"
    BY <2>2, <1>2
  <2> QED BY <2>1, <2>2
<1> HIDE DEF v
<1>5. windows'[c] = v /\ \A x \in ClientIds \ {c} : windows'[x] = windows[x]
  BY <1>2, <1>3
<1>6. TypeOK'
  BY <1>1, <1>3, <1>4, TouchOrder DEF IndInv, TypeOK
<1>7. \A x \in ClientIds : WindowInv(windows[x])'
  BY <1>3, <1>4, WindowsKept
<1>8. OrdersInv'
  BY <1>1, TouchOrder, OrdersKept
<1>9. FrontierExact'
  BY <1>1, <1>4, <1>5 DEF IndInv, FrontierExact, SettledSeqs
<1>10. CachedOutcomeFaithful'
  <2> SUFFICES ASSUME NEW y \in clients', NEW x \in EventIds,
                      windows'[y].seen_ids[x].st = "settled",
                      windows'[y].seen_ids[x].seq # 0
               PROVE  windows'[y].seen_ids[x].outcome
                        = history'[y][windows'[y].seen_ids[x].seq]
    BY DEF CachedOutcomeFaithful
  <2>1. y \in clients /\ y \in ClientIds /\ windows'[y].seen_ids[x] = windows[y].seen_ids[x]
    BY <1>1, <1>4, <1>5 DEF IndInv, TypeOK
  <2> QED BY <2>1, <1>1 DEF IndInv, CachedOutcomeFaithful
<1> QED BY <1>6, <1>7, <1>8, <1>9, <1>10 DEF IndInv

(* A handler ends: the outcome is recorded and the frontier moves over it. *)
LEMMA SettleStep ==
  ASSUME IndInv, NEW c \in ClientIds, NEW id \in EventIds, NEW outcome \in Outcomes,
         SettleEvent(c, id, outcome)
  PROVE  IndInv'
<1> DEFINE w   == windows[c]
           rec == w.seen_ids[id]
           v   == Settle(w, id, outcome)
<1>1. /\ c \in clients /\ client_order' = TouchClient(c)
      /\ clients' = clients /\ evicted' = evicted
      /\ windows' = [windows EXCEPT ![c] = v]
  BY DEF SettleEvent
<1>2. /\ w \in Window /\ WindowInv(w) /\ windows \in [ClientIds -> Window]
      /\ history \in [ClientIds -> [EventSeqs -> Outcomes \cup {NoOutcome}]]
  BY DEF IndInv, TypeOK
<1>3. CASE rec.st # "in_flight"
  <2>1. v = w /\ history' = history
    BY <1>3 DEF Settle, SettleEvent
  <2>2. windows' = windows
    BY <1>1, <1>2, <2>1
  <2>3. TypeOK'
    BY <1>1, <2>1, <2>2, TouchOrder DEF IndInv, TypeOK
  <2>4. OrdersInv'
    BY <1>1, TouchOrder, OrdersKept
  <2>5. FrontierExact' /\ CachedOutcomeFaithful' /\ \A x \in ClientIds : WindowInv(windows[x])'
    <3>1. FrontierExact /\ CachedOutcomeFaithful /\ \A x \in ClientIds : WindowInv(windows[x])
      BY DEF IndInv
    <3>2. FrontierExact'
      BY <1>1, <2>1, <2>2, <3>1 DEF FrontierExact, SettledSeqs
    <3>3. CachedOutcomeFaithful'
      BY <1>1, <2>1, <2>2, <3>1 DEF CachedOutcomeFaithful
    <3>4. \A x \in ClientIds : WindowInv(windows[x])'
      BY <2>2, <3>1 DEF WindowInv
    <3> QED BY <3>2, <3>3, <3>4
  <2> QED BY <2>3, <2>4, <2>5 DEF IndInv
<1>4. CASE rec.st = "in_flight"
  <2>1. /\ v \in Window /\ WindowInv(v)
        /\ (1 .. v.frontier) \cup v.settled_out_of_order
             = (1 .. w.frontier) \cup w.settled_out_of_order \cup {rec.seq}
        /\ v.seen_ids = [w.seen_ids EXCEPT
                           ![id] = Settled(w.seen_ids[id], outcome)]
    <3> HIDE DEF w
    <3> QED BY <1>2, <1>4, SettlePreserves
  <2>2. history' = [history EXCEPT ![c] = [history[c] EXCEPT ![rec.seq] = outcome]]
    BY <1>4, <1>2 DEF SettleEvent
  <2>3. rec \in EventRecord /\ rec.seq \in EventSeqs /\ NoOutcome \notin Outcomes
    BY <1>2, WindowAssumption DEF Window, EventRecord
  <2> HIDE DEF v
  <2>4. windows'[c] = v /\ \A x \in ClientIds \ {c} : windows'[x] = windows[x]
    BY <1>1, <1>2
  <2>5. /\ history'[c] = [history[c] EXCEPT ![rec.seq] = outcome]
        /\ \A x \in ClientIds \ {c} : history'[x] = history[x]
    BY <1>2, <2>2
  <2>6. TypeOK'
    BY <1>1, <1>2, <2>1, <2>2, <2>3, TouchOrder DEF IndInv, TypeOK
  <2>7. \A x \in ClientIds : WindowInv(windows[x])'
    BY <1>1, <2>1, WindowsKept
  <2>8. OrdersInv'
    BY <1>1, TouchOrder, OrdersKept
  <2>9. FrontierExact'
    <3>1. SettledSeqs(c)' = SettledSeqs(c) \cup {rec.seq}
      BY <1>2, <2>3, <2>5 DEF SettledSeqs
    <3>2. \A x \in ClientIds \ {c} : SettledSeqs(x)' = SettledSeqs(x)
      BY <2>5 DEF SettledSeqs
    <3>3. SettledSeqs(c)' = (1 .. v.frontier) \cup v.settled_out_of_order
      BY <3>1, <2>1, <1>1 DEF IndInv, FrontierExact
    <3> QED BY <3>2, <3>3, <1>1, <2>4 DEF IndInv, FrontierExact
  <2>10. CachedOutcomeFaithful'
    <3> SUFFICES ASSUME NEW y \in clients', NEW x \in EventIds,
                        windows'[y].seen_ids[x].st = "settled",
                        windows'[y].seen_ids[x].seq # 0
                 PROVE  windows'[y].seen_ids[x].outcome
                          = history'[y][windows'[y].seen_ids[x].seq]
      BY DEF CachedOutcomeFaithful
    <3>1. y \in clients /\ y \in ClientIds
      BY <1>1 DEF IndInv, TypeOK
    <3>2. CASE y # c
      BY <3>1, <3>2, <2>4, <2>5 DEF IndInv, CachedOutcomeFaithful
    <3>3. CASE y = c /\ x = id
      <4>1. /\ windows'[y].seen_ids[x].outcome = outcome
            /\ windows'[y].seen_ids[x].seq = rec.seq
        <5>1. w.seen_ids \in [EventIds -> EventRecord]
          BY <1>2 DEF Window
        <5>2. v.seen_ids[id] = Settled(rec, outcome)
          BY <5>1, <2>1
        <5> QED BY <5>2, <3>3, <2>3, <2>4 DEF EventRecord, Settled
      <4> QED BY <4>1, <3>3, <1>2, <2>3, <2>5
    <3>4. CASE y = c /\ x # id
      <4>1. windows'[y].seen_ids[x] = w.seen_ids[x] /\ w.seen_ids[x].seq \in EventSeqs
        BY <3>4, <2>1, <2>4, <1>2 DEF Window, EventRecord
      <4>2. /\ w.seen_ids[x].seq # 0
            /\ \/ w.seen_ids[x].seq <= w.frontier
               \/ w.seen_ids[x].seq \in w.settled_out_of_order
        BY <4>1, <1>2 DEF WindowInv
      <4>3. rec.seq > w.frontier /\ rec.seq \notin w.settled_out_of_order
        BY <1>2, <1>4 DEF WindowInv
      <4>4. w.seen_ids[x].seq # rec.seq
        BY <4>1, <4>2, <4>3, <2>3, <1>2 DEF Window, EventSeqs
      <4>5. w.seen_ids[x].outcome = history[c][w.seen_ids[x].seq]
        BY <4>1, <3>1, <3>4 DEF IndInv, CachedOutcomeFaithful
      <4> QED BY <4>1, <4>4, <4>5, <3>4, <1>2, <2>3, <2>5
    <3> QED BY <3>2, <3>3, <3>4
  <2> QED BY <2>6, <2>7, <2>8, <2>9, <2>10 DEF IndInv
<1> QED BY <1>3, <1>4

(* A handler that never ran gives its admission back. *)
LEMMA AbandonStep ==
  ASSUME IndInv, NEW c \in ClientIds, NEW id \in EventIds, AbandonEvent(c, id)
  PROVE  IndInv'
<1> DEFINE w == windows[c]
           v == Abandon(w, id)
<1>1. /\ c \in clients /\ client_order' = client_order
      /\ clients' = clients /\ evicted' = evicted /\ history' = history
      /\ windows' = [windows EXCEPT ![c] = v]
  BY DEF AbandonEvent
<1>2. w \in Window /\ WindowInv(w) /\ windows \in [ClientIds -> Window]
  BY DEF IndInv, TypeOK
<1>3. Absent.st = "absent"
  BY DEF Absent
<1>4. /\ v \in Window /\ WindowInv(v)
      /\ v.frontier = w.frontier /\ v.settled_out_of_order = w.settled_out_of_order
      /\ \A x \in EventIds : v.seen_ids[x] = w.seen_ids[x] \/ v.seen_ids[x] = Absent
  <2>1. CASE w.seen_ids[id].st = "in_flight"
    <3> HIDE DEF w
    <3>1. /\ v \in Window /\ WindowInv(v)
          /\ v.frontier = w.frontier
          /\ v.settled_out_of_order = w.settled_out_of_order
          /\ v.seen_ids = [w.seen_ids EXCEPT ![id] = Absent]
      BY <2>1, <1>2, AbandonPreserves
    <3> HIDE DEF v
    <3> QED BY <3>1, <1>2 DEF Window
  <2>2. CASE w.seen_ids[id].st # "in_flight"
    BY <2>2, <1>2 DEF Abandon
  <2> QED BY <2>1, <2>2
<1> HIDE DEF v
<1>5. windows'[c] = v /\ \A x \in ClientIds \ {c} : windows'[x] = windows[x]
  BY <1>1, <1>2
<1>6. TypeOK'
  BY <1>1, <1>4 DEF IndInv, TypeOK
<1>7. \A x \in ClientIds : WindowInv(windows[x])'
  BY <1>1, <1>4, WindowsKept
<1>8. OrdersInv'
  BY <1>1, OrdersKept DEF IndInv, OrdersInv
<1>9. FrontierExact'
  BY <1>1, <1>4, <1>5 DEF IndInv, FrontierExact, SettledSeqs
<1>10. CachedOutcomeFaithful'
  <2> SUFFICES ASSUME NEW y \in clients', NEW x \in EventIds,
                      windows'[y].seen_ids[x].st = "settled",
                      windows'[y].seen_ids[x].seq # 0
               PROVE  windows'[y].seen_ids[x].outcome
                        = history'[y][windows'[y].seen_ids[x].seq]
    BY DEF CachedOutcomeFaithful
  <2>1. y \in clients /\ y \in ClientIds /\ windows'[y].seen_ids[x] = windows[y].seen_ids[x]
    BY <1>1, <1>3, <1>4, <1>5 DEF IndInv, TypeOK
  <2> QED BY <2>1, <1>1 DEF IndInv, CachedOutcomeFaithful
<1> QED BY <1>6, <1>7, <1>8, <1>9, <1>10 DEF IndInv

(* A refused admission of an instance without a window gives its frontier  *)
(* back: the retained frontiers are what they were.                        *)
LEMMA RefuseNewStep ==
  ASSUME IndInv, NEW c \in ClientIds, NEW id \in EventIds,
         NEW seq \in EventSeqs, NEW type \in EventTypes,
         RefuseNew(c, id, seq, type)
  PROVE  IndInv'
<1> DEFINE f == evicted.frontiers[c]
           t == TakeFrontier(evicted, c)
           r == RetainFrontier(t, c, f)
<1>1. /\ c \notin clients /\ evicted' = r
      /\ clients' = clients /\ windows' = windows
      /\ client_order' = client_order /\ history' = history
  BY DEF RefuseNew
<1>2. /\ evicted \in Retained /\ RetainedInv(evicted) /\ f \in EventSeqs
      /\ evicted.frontiers \in [ClientIds -> EventSeqs]
  BY DEF IndInv, TypeOK, OrdersInv, Retained
<1>3. /\ t \in Retained /\ RetainedInv(t)
      /\ t.frontiers = [evicted.frontiers EXCEPT ![c] = 0]
      /\ f # 0 => Len(t.order) < MaxWindows
  BY <1>2, TakePreserves
<1> HIDE DEF t
<1>4. t.frontiers[c] = 0
  BY <1>2, <1>3
<1>5. /\ r \in Retained /\ RetainedInv(r) /\ r.frontiers[c] = f
      /\ Len(t.order) < MaxWindows =>
           \A x \in ClientIds \ {c} : r.frontiers[x] = t.frontiers[x]
  <2> HIDE DEF f
  <2> QED BY <1>2, <1>3, <1>4, RetainPreserves
<1>6. f = 0 => r = t
  BY DEF RetainFrontier
<1> HIDE DEF r
<1>7. \A x \in ClientIds : r.frontiers[x] = evicted.frontiers[x]
  BY <1>2, <1>3, <1>5, <1>6
<1>8. TypeOK'
  BY <1>1, <1>5 DEF IndInv, TypeOK
<1>9. \A x \in ClientIds : WindowInv(windows[x])'
  BY <1>1 DEF IndInv, WindowInv
<1>10. OrdersInv'
  <2>1. RetainedInv(evicted)'
    BY <1>1, <1>5 DEF RetainedInv, Distinct, Lists, In
  <2>2. Distinct(client_order)' /\ Lists(client_order, clients)'
    BY <1>1 DEF IndInv, OrdersInv, Distinct, Lists, In
  <2>3. \A x \in clients' : evicted'.frontiers[x] = 0
    BY <1>1, <1>7 DEF IndInv, OrdersInv, TypeOK
  <2> QED BY <2>1, <2>2, <2>3 DEF OrdersInv
<1>11. FrontierExact'
  BY <1>1, <1>7 DEF IndInv, FrontierExact, SettledSeqs
<1>12. CachedOutcomeFaithful'
  BY <1>1 DEF IndInv, CachedOutcomeFaithful
<1> QED BY <1>8, <1>9, <1>10, <1>11, <1>12 DEF IndInv

(* The evicted window is one of the map's, and its frontier stands for     *)
(* everything settled in it.                                               *)
LEMMA VictimUnpinned ==
  ASSUME IndInv, AtCapacity, ~ CapacityExhausted
  PROVE  /\ Victim \in clients
         /\ windows[Victim].settled_out_of_order = {}
<1>1. EvictableClients # {} /\ EvictableClients \in SUBSET Nat
  BY DEF CapacityExhausted, EvictableClients
<1> DEFINE p == CHOOSE p \in EvictableClients : \A q \in EvictableClients : p <= q
<1>2. p \in EvictableClients
  BY <1>1, LeastExists
<1>3. Victim = client_order[p]
  BY DEF Victim
<1> HIDE DEF p
<1>4. p \in 1 .. Len(client_order) /\ ~ IsPinned(windows[client_order[p]])
  BY <1>2 DEF EvictableClients
<1>5. client_order[p] \in ClientIds /\ In(client_order[p], client_order)
  BY <1>4 DEF IndInv, TypeOK, In
<1>6. client_order[p] \in clients
  BY <1>5 DEF IndInv, OrdersInv, Lists
<1> QED BY <1>3, <1>4, <1>6 DEF IsPinned

(* An event of a client without a window: one may have to be evicted for it. *)
LEMMA AdmitNewStep ==
  ASSUME IndInv, NEW c \in ClientIds, NEW id \in EventIds,
         NEW seq \in EventSeqs, NEW type \in EventTypes,
         AdmitNew(c, id, seq, type)
  PROVE  IndInv'
<1> DEFINE e == WindowForNewClient(c)
           v == Admit(e, id, seq, type)
           t == TakeFrontier(evicted, c)
<1>1. /\ c \notin clients /\ AdmitVerdict(e, id, seq, type) = "fresh"
      /\ InsertClient(c, v, t)
  BY DEF AdmitNew
<1>2. /\ evicted \in Retained /\ RetainedInv(evicted)
      /\ evicted.frontiers \in [ClientIds -> EventSeqs]
      /\ windows \in [ClientIds -> Window] /\ clients \in SUBSET ClientIds
      /\ client_order \in Seq(ClientIds) /\ Distinct(client_order)
      /\ Lists(client_order, clients)
      /\ history \in [ClientIds -> [EventSeqs -> Outcomes \cup {NoOutcome}]]
      /\ \A x \in clients : evicted.frontiers[x] = 0
  BY DEF IndInv, TypeOK, OrdersInv, Retained
<1>3. /\ t \in Retained /\ RetainedInv(t)
      /\ t.frontiers = [evicted.frontiers EXCEPT ![c] = 0]
  BY <1>2, TakePreserves
<1>4. /\ e \in Window /\ e.frontier = evicted.frontiers[c]
      /\ e.settled_out_of_order = {} /\ \A x \in EventIds : e.seen_ids[x] = Absent
  BY <1>2, EmptyWindowInv DEF WindowForNewClient, EmptyWindow, Window
<1>5. WindowInv(e)
  BY <1>4 DEF WindowInv, Absent
<1>6. /\ v \in Window /\ WindowInv(v)
      /\ v.frontier = evicted.frontiers[c] /\ v.settled_out_of_order = {}
      /\ \A x \in EventIds : v.seen_ids[x].st # "settled"
  <2> HIDE DEF e
  <2>1. /\ v \in Window /\ WindowInv(v)
        /\ v.frontier = e.frontier
        /\ v.settled_out_of_order = e.settled_out_of_order
        /\ v.seen_ids[id] = InFlight(seq, type)
        /\ \A x \in EventIds \ {id} :
             v.seen_ids[x] = e.seen_ids[x] \/ v.seen_ids[x] = Absent
    BY <1>1, <1>4, <1>5, AdmitPreserves
  <2> HIDE DEF v
  <2> QED BY <1>4, <2>1 DEF InFlight, Absent
<1> HIDE DEF e, v, t
(* What the insertion comes to, with or without an eviction. *)
<1>7. /\ clients' \in SUBSET ClientIds /\ c \in clients'
      /\ client_order' \in Seq(ClientIds) /\ Distinct(client_order')
      /\ Lists(client_order', clients')
      /\ windows' \in [ClientIds -> Window] /\ windows'[c] = v
      /\ \A x \in clients' \ {c} : x \in clients /\ windows'[x] = windows[x]
      /\ \A x \in ClientIds : WindowInv(windows'[x])
      /\ evicted' \in Retained /\ RetainedInv(evicted')
      /\ \A x \in clients' : evicted'.frontiers[x] = 0
      /\ \A x \in ClientIds \ clients' :
           IF x \in clients
           THEN /\ windows[x].settled_out_of_order = {}
                /\ evicted'.frontiers[x] = windows[x].frontier
           ELSE evicted'.frontiers[x] \in {0, evicted.frontiers[x]}
  <2>1. CASE ~ AtCapacity
    <3>1. /\ clients' = clients \cup {c} /\ windows' = [windows EXCEPT ![c] = v]
          /\ client_order' = Append(client_order, c) /\ evicted' = t
      BY <1>1, <2>1 DEF InsertClient
    <3>2. ~ In(c, client_order)
      BY <1>1, <1>2 DEF Lists
    <3>3. /\ client_order' \in Seq(ClientIds) /\ Distinct(client_order')
          /\ \A y : In(y, client_order') <=> In(y, client_order) \/ y = c
      BY <3>1, <3>2, <1>2, AppendOrder
    <3>4. Lists(client_order', clients')
      BY <3>1, <3>3, <1>2 DEF Lists
    <3>5. \A x \in ClientIds : WindowInv(windows'[x])
      <4> TAKE x \in ClientIds
      <4>1. WindowInv(windows[x]) /\ windows'[x] = IF x = c THEN v ELSE windows[x]
        BY <3>1, <1>2 DEF IndInv
      <4> QED BY <4>1, <1>6
    <3>6. /\ \A x \in clients' : evicted'.frontiers[x] = 0
          /\ \A x \in ClientIds \ clients' : evicted'.frontiers[x] = evicted.frontiers[x]
      BY <3>1, <1>2, <1>3
    <3> QED BY <3>1, <3>3, <3>4, <3>5, <3>6, <1>2, <1>3, <1>6
  <2>2. CASE AtCapacity
    <3> DEFINE z == Victim
               o == Without(client_order, z)
    <3>1. /\ clients' = (clients \ {z}) \cup {c}
          /\ windows' = [windows EXCEPT ![z] = EmptyWindow, ![c] = v]
          /\ client_order' = Append(o, c)
          /\ evicted' = RetainFrontier(t, z, windows[z].frontier)
      BY <1>1, <2>2 DEF InsertClient
    <3>2. z \in clients /\ z \in ClientIds /\ windows[z].settled_out_of_order = {}
      BY <1>1, <1>2, <2>2, VictimUnpinned DEF InsertClient
    <3> HIDE DEF z
    <3>3. z # c /\ windows[z].frontier \in EventSeqs /\ t.frontiers[z] = 0
      BY <3>2, <1>1, <1>2, <1>3 DEF Window
    <3>4. /\ o \in Seq(ClientIds) /\ Distinct(o)
          /\ \A y : In(y, o) <=> In(y, client_order) /\ y # z
      BY <1>2, WithoutOrder
    <3> HIDE DEF o
    <3>5. ~ In(c, o)
      BY <1>1, <1>2, <3>4 DEF Lists
    <3>6. /\ client_order' \in Seq(ClientIds) /\ Distinct(client_order')
          /\ \A y : In(y, client_order') <=> In(y, o) \/ y = c
      BY <3>1, <3>4, <3>5, AppendOrder
    <3>7. Lists(client_order', clients')
      BY <3>1, <3>3, <3>4, <3>6, <1>2 DEF Lists
    <3>8. /\ evicted' \in Retained /\ RetainedInv(evicted')
          /\ evicted'.frontiers[z] = windows[z].frontier
          /\ \A x \in ClientIds \ {z} : evicted'.frontiers[x] \in {0, t.frontiers[x]}
      <4> DEFINE f == windows[z].frontier
      <4>1. f \in EventSeqs /\ evicted' = RetainFrontier(t, z, f)
        BY <3>1, <3>3
      <4> HIDE DEF f
      <4>2. LET r == RetainFrontier(t, z, f) IN
            /\ r \in Retained /\ RetainedInv(r) /\ r.frontiers[z] = f
            /\ \A x \in ClientIds \ {z} :
                 r.frontiers[x] = 0 \/ r.frontiers[x] = t.frontiers[x]
        <5>1. /\ t \in Retained /\ RetainedInv(t) /\ t.frontiers[z] = 0
              /\ z \in ClientIds /\ f \in EventSeqs
          BY <4>1, <3>2, <3>3, <1>3
        <5> QED BY <5>1, RetainPreserves
      <4> QED BY <4>1, <4>2 DEF f
    <3>9. windows' \in [ClientIds -> Window]
          /\ \A x \in ClientIds : windows'[x] = IF x = c THEN v
                                               ELSE IF x = z THEN EmptyWindow
                                               ELSE windows[x]
      BY <3>1, <3>2, <3>3, <1>2, <1>6, EmptyWindowInv
    <3>10. \A x \in ClientIds : WindowInv(windows'[x])
      <4> TAKE x \in ClientIds
      <4>1. WindowInv(windows[x])
        BY DEF IndInv
      <4> QED BY <4>1, <3>9, <1>6, EmptyWindowInv
    <3>11. \A x \in clients' : evicted'.frontiers[x] = 0
      BY <3>1, <3>3, <3>8, <1>2, <1>3
    <3>12. \A x \in ClientIds \ clients' :
             IF x \in clients
             THEN /\ windows[x].settled_out_of_order = {}
                  /\ evicted'.frontiers[x] = windows[x].frontier
             ELSE evicted'.frontiers[x] \in {0, evicted.frontiers[x]}
      BY <3>1, <3>2, <3>8, <1>2, <1>3
    <3>13. \A x \in clients' \ {c} : x \in clients /\ windows'[x] = windows[x]
      BY <3>1, <3>9, <1>2
    <3> QED BY <3>1, <3>6, <3>7, <3>8, <3>9, <3>10, <3>11, <3>12, <3>13, <1>2
  <2> QED BY <2>1, <2>2
<1>8. \A x \in ClientIds :
        history'[x] = IF AgedOut(x) THEN Blank ELSE history[x]
  BY <1>1 DEF InsertClient, ForgetAgedOut
<1>9. history' \in [ClientIds -> [EventSeqs -> Outcomes \cup {NoOutcome}]]
  BY <1>1, <1>2 DEF InsertClient, ForgetAgedOut, Blank
<1>10. TypeOK'
  BY <1>7, <1>9 DEF TypeOK
<1>11. \A x \in ClientIds : WindowInv(windows[x])'
  BY <1>7
<1>12. OrdersInv'
  BY <1>7 DEF OrdersInv
<1>13. FrontierExact'
  <2> SUFFICES ASSUME NEW x \in ClientIds
               PROVE  SettledSeqs(x)' =
                        IF x \in clients'
                        THEN (1 .. windows'[x].frontier) \cup windows'[x].settled_out_of_order
                        ELSE 1 .. evicted'.frontiers[x]
    BY DEF FrontierExact
  <2>1. SettledSeqs(x) =
          IF x \in clients
          THEN (1 .. windows[x].frontier) \cup windows[x].settled_out_of_order
          ELSE 1 .. evicted.frontiers[x]
    BY DEF IndInv, FrontierExact
  <2>2. history'[x] = history[x] => SettledSeqs(x)' = SettledSeqs(x)
    BY DEF SettledSeqs
  <2>3. CASE AgedOut(x)
    <3>1. SettledSeqs(x)' = {}
      BY <2>3, <1>8 DEF SettledSeqs, Blank
    <3>2. x \notin clients' /\ evicted'.frontiers[x] = 0
      BY <2>3 DEF AgedOut
    <3> QED BY <3>1, <3>2
  <2>4. CASE ~ AgedOut(x)
    <3>1. SettledSeqs(x)' = SettledSeqs(x)
      BY <2>2, <2>4, <1>8
    <3>2. CASE x = c
      BY <3>1, <3>2, <2>1, <1>1, <1>6, <1>7
    <3>3. CASE x # c /\ x \in clients'
      BY <3>1, <3>3, <2>1, <1>7
    <3>4. CASE x \notin clients' /\ x \in clients
      BY <3>1, <3>4, <2>1, <1>7
    <3>5. CASE x \notin clients' /\ x \notin clients
      <4>1. evicted'.frontiers[x] = evicted.frontiers[x]
        BY <3>5, <2>4, <1>7 DEF AgedOut
      <4> QED BY <4>1, <3>1, <3>5, <2>1
    <3> QED BY <3>2, <3>3, <3>4, <3>5
  <2> QED BY <2>3, <2>4
<1>14. CachedOutcomeFaithful'
  <2> SUFFICES ASSUME NEW y \in clients', NEW x \in EventIds,
                      windows'[y].seen_ids[x].st = "settled",
                      windows'[y].seen_ids[x].seq # 0
               PROVE  windows'[y].seen_ids[x].outcome
                        = history'[y][windows'[y].seen_ids[x].seq]
    BY DEF CachedOutcomeFaithful
  <2>1. y # c
    BY <1>6, <1>7
  <2>2. y \in clients /\ y \in ClientIds /\ windows'[y] = windows[y]
    BY <2>1, <1>7
  <2>3. history'[y] = history[y]
    BY <2>2, <1>8 DEF AgedOut
  <2> QED BY <2>2, <2>3 DEF IndInv, CachedOutcomeFaithful
<1> QED BY <1>10, <1>11, <1>12, <1>13, <1>14 DEF IndInv

-----------------------------------------------------------------------------
(* The theorems.                                                           *)

(* IndInv is inductive. *)
LEMMA NextIndInv == IndInv /\ [Next]_vars => IndInv'
<1> SUFFICES ASSUME IndInv, [Next]_vars PROVE IndInv'
  OBVIOUS
<1>1. CASE Next
  <2>1. PICK c \in ClientIds, id \in EventIds :
          \/ \E seq \in EventSeqs, type \in EventTypes : AdmitEvent(c, id, seq, type)
          \/ \E outcome \in Outcomes : SettleEvent(c, id, outcome)
          \/ AbandonEvent(c, id)
    BY <1>1 DEF Next
  <2>2. CASE \E seq \in EventSeqs, type \in EventTypes : AdmitEvent(c, id, seq, type)
    BY <2>2, AdmitKnownStep, RefuseNewStep, AdmitNewStep DEF AdmitEvent
  <2>3. CASE \E outcome \in Outcomes : SettleEvent(c, id, outcome)
    BY <2>3, SettleStep
  <2>4. CASE AbandonEvent(c, id)
    BY <2>4, AbandonStep
  <2> QED BY <2>1, <2>2, <2>3, <2>4
<1>2. CASE UNCHANGED vars
  <2>1. /\ clients' = clients /\ windows' = windows /\ client_order' = client_order
        /\ evicted' = evicted /\ history' = history
    BY <1>2 DEF vars
  <2>2. TypeOK' /\ \A x \in ClientIds : WindowInv(windows[x])'
    BY <2>1 DEF IndInv, TypeOK, WindowInv
  <2>3. OrdersInv'
    BY <2>1, OrdersKept DEF IndInv, OrdersInv
  <2>4. FrontierExact' /\ CachedOutcomeFaithful'
    BY <2>1 DEF IndInv, FrontierExact, SettledSeqs, CachedOutcomeFaithful
  <2> QED BY <2>2, <2>3, <2>4 DEF IndInv
<1> QED BY <1>1, <1>2

(* IndInv holds in every reachable state, for every capacity and any number of clients. *)
THEOREM Inductive == Spec => []IndInv
BY InitIndInv, NextIndInv, PTL DEF Spec

(* The deduplicator's state is well formed: no call of admit, settle or    *)
(* abandon leaves its types.                                               *)
THEOREM TypeCorrect == Spec => []TypeOK
<1>1. IndInv => TypeOK
  BY DEF IndInv
<1> QED BY <1>1, Inductive, PTL

(* The cumulative frontier is exact for every client, through every        *)
(* eviction of results, windows and frontiers (is_pinned, retain_frontier, *)
(* note_settled_sequence).                                                 *)
THEOREM FrontierIsExact == Spec => []FrontierExact
<1>1. IndInv => FrontierExact
  BY DEF IndInv
<1> QED BY <1>1, Inductive, PTL

(* At most once: no settled sequence is in flight again (admit).  It needs *)
(* the frontier to be exact and what is in flight to be above it.          *)
THEOREM AtMostOnce == Spec => []NoSettledReopened
<1>1. IndInv => NoSettledReopened
  <2> SUFFICES ASSUME IndInv, NEW c \in clients, NEW id \in EventIds,
                      windows[c].seen_ids[id].st = "in_flight"
               PROVE  history[c][windows[c].seen_ids[id].seq] = NoOutcome
    BY DEF NoSettledReopened
  <2> DEFINE seq == windows[c].seen_ids[id].seq
  <2>1. c \in ClientIds /\ windows[c] \in Window /\ WindowInv(windows[c])
    BY DEF IndInv, TypeOK
  <2>2. /\ seq \in EventSeqs /\ seq > windows[c].frontier
        /\ seq \notin windows[c].settled_out_of_order
        /\ windows[c].frontier \in EventSeqs
    BY <2>1 DEF WindowInv, Window, EventRecord
  <2>3. seq \notin SettledSeqs(c)
    BY <2>1, <2>2 DEF IndInv, FrontierExact, EventSeqs
  <2> QED BY <2>2, <2>3 DEF SettledSeqs
<1> QED BY <1>1, Inductive, PTL

(* A replay is answered with the first outcome (settle, admit). *)
THEOREM ReplayFaithful == Spec => []CachedOutcomeFaithful
<1>1. IndInv => CachedOutcomeFaithful
  BY DEF IndInv
<1> QED BY <1>1, Inductive, PTL
-----------------------------------------------------------------------------
(* Room in a window.                                                       *)

(* Every record of the result cache owns its sequence, lies no further     *)
(* than MaxEntries above the frontier, and waits in the eviction order;    *)
(* there are never more than MaxEntries of them.                           *)
RoomInv(w) ==
  /\ \A id \in Seen(w) :
       /\ w.seen_ids[id].seq \in w.ids_by_seq
       /\ w.seen_ids[id].seq <= SaturatingAdd(w.frontier, MaxEntries)
       /\ In(id, w.order)
  /\ \A a, b \in Seen(w) : w.seen_ids[a].seq = w.seen_ids[b].seq => a = b
  /\ IsFiniteSet(Seen(w)) /\ Cardinality(Seen(w)) <= MaxEntries

(* Removing one position leaves every other value in the sequence. *)
LEMMA WithoutPositionKeeps ==
  ASSUME NEW T, NEW s \in Seq(T), NEW p \in 1 .. Len(s), NEW y, In(y, s), y # s[p]
  PROVE  In(y, WithoutPosition(s, p))
<1> DEFINE t == WithoutPosition(s, p)
<1>1. Len(s) \in Nat /\ p \in Nat
  OBVIOUS
<1>2. t \in Seq(T) /\ Len(t) = Len(s) - 1
  BY WithoutPositionType
<1>3. \A i \in 1 .. Len(t) : t[i] = IF i < p THEN s[i] ELSE s[i + 1]
  BY <1>2 DEF WithoutPosition
<1> SUFFICES In(y, t)
  OBVIOUS
<1> HIDE DEF t
<1>4. PICK i \in 1 .. Len(s) : s[i] = y
  BY DEF In
<1>5. i # p
  BY <1>4
<1>6. CASE i < p
  BY <1>1, <1>2, <1>3, <1>4, <1>6, SMTT(30) DEF In
<1>7. CASE i > p
  <2>1. i - 1 \in 1 .. Len(t) /\ t[i - 1] = y
    BY <1>1, <1>2, <1>3, <1>4, <1>7
  <2> QED BY <2>1 DEF In
<1> QED BY <1>1, <1>5, <1>6, <1>7

(* The same for the removal of a value. *)
LEMMA WithoutKeeps ==
  ASSUME NEW T, NEW s \in Seq(T), NEW x, NEW y, In(y, s), y # x
  PROVE  In(y, Without(s, x))
<1>1. CASE ~ In(x, s)
  BY <1>1 DEF Without, In
<1>2. CASE In(x, s)
  <2> DEFINE p == CHOOSE q \in 1 .. Len(s) : s[q] = x
  <2>1. p \in 1 .. Len(s) /\ s[p] = x /\ Without(s, x) = WithoutPosition(s, p)
    BY <1>2 DEF Without, In
  <2> QED BY <2>1, WithoutPositionKeeps
<1> QED BY <1>1, <1>2

(* Eviction gives one place back. *)
LEMMA EvictMakesRoom ==
  ASSUME NEW w \in Window, RoomInv(w), WindowInv(w), EvictablePositions(w) # {}
  PROVE  LET v == EvictOldestSettled(w) IN
         /\ RoomInv(v) /\ Cardinality(Seen(v)) = Cardinality(Seen(w)) - 1
<1> DEFINE v == EvictOldestSettled(w)
           p == OldestEvictable(w)
           e == w.order[p]
<1>1. EvictablePositions(w) \in SUBSET Nat
  BY DEF EvictablePositions
<1>2. p \in EvictablePositions(w)
  BY <1>1, LeastExists DEF OldestEvictable
<1>3. p \in 1 .. Len(w.order) /\ e \in EventIds /\ w.seen_ids[e].st = "settled"
  BY <1>2 DEF EvictablePositions, Window, IsEvictable
<1>4. /\ v.order = WithoutPosition(w.order, p)
      /\ v.seen_ids = [w.seen_ids EXCEPT ![e] = Absent]
      /\ v.frontier = w.frontier
      /\ v.ids_by_seq = w.ids_by_seq \ ({w.seen_ids[e].seq} \ {0})
  BY DEF EvictOldestSettled, Window
<1>5. v.seen_ids[e].st = "absent" /\ \A id \in EventIds \ {e} : v.seen_ids[id] = w.seen_ids[id]
  BY <1>3, <1>4 DEF Window, Absent
<1>6. e \in Seen(w) /\ Seen(v) = Seen(w) \ {e}
  BY <1>3, <1>5 DEF Seen
<1> HIDE DEF v, p, e
<1>7. IsFiniteSet(Seen(v)) /\ Cardinality(Seen(v)) = Cardinality(Seen(w)) - 1
  BY <1>6, FS_RemoveElement DEF RoomInv
<1>8. \A id \in Seen(v) : id \in Seen(w) /\ id # e /\ v.seen_ids[id] = w.seen_ids[id]
  BY <1>5, <1>6 DEF Seen
<1>9. \A id \in Seen(v) : In(id, v.order)
  <2> SUFFICES ASSUME NEW id \in Seen(v) PROVE In(id, v.order)
    OBVIOUS
  <2>1. In(id, w.order) /\ id # e
    BY <1>8 DEF RoomInv
  <2> QED BY <2>1, <1>3, <1>4, WithoutPositionKeeps DEF Window, e
<1>10. \A id \in Seen(v) : v.seen_ids[id].seq \in v.ids_by_seq
  BY <1>4, <1>6, <1>8 DEF RoomInv
<1>11. Cardinality(Seen(w)) \in Nat
  BY FS_CardinalityType DEF RoomInv
<1>12. Cardinality(Seen(v)) <= MaxEntries
  BY <1>7, <1>11, WindowAssumption DEF RoomInv
<1>13. RoomInv(v)
  BY <1>4, <1>7, <1>8, <1>9, <1>10, <1>12 DEF RoomInv
<1> QED BY <1>7, <1>13 DEF v

(* A fresh admission takes a place that is there. *)
LEMMA AdmitKeepsRoom ==
  ASSUME NEW w \in Window, RoomInv(w), WindowInv(w),
         NEW id \in EventIds, NEW seq \in EventSeqs, NEW type \in EventTypes,
         AdmitVerdict(w, id, seq, type) = "fresh"
  PROVE  RoomInv(Admit(w, id, seq, type))
<1> DEFINE u == MakeRoom(w)
           v == Admit(w, id, seq, type)
<1>1. /\ id \notin Seen(w) /\ seq \notin w.ids_by_seq
      /\ ~ OutsideReceiveWindow(w, seq) /\ ~ NoRoom(w)
  BY DEF AdmitVerdict, ReplayVerdict
<1>2. Cardinality(Seen(w)) \in Nat /\ MaxEntries \in Nat
  BY FS_CardinalityType, WindowAssumption DEF RoomInv
<1>3. RoomInv(u) /\ Cardinality(Seen(u)) < MaxEntries
  BY <1>1, <1>2, EvictMakesRoom DEF MakeRoom, NoRoom, IsFull, RoomInv
<1>4. u \in Window /\ u.frontier = w.frontier
  BY <1>1, EvictPreserves DEF MakeRoom, NoRoom
<1>5. \A x \in EventIds : u.seen_ids[x] = w.seen_ids[x] \/ u.seen_ids[x] = Absent
  BY <1>1, EvictPreserves DEF MakeRoom, NoRoom
<1>6. seq \notin u.ids_by_seq
  BY <1>1 DEF MakeRoom, EvictOldestSettled, Window
<1>7. id \notin Seen(u)
  BY <1>1, <1>5 DEF Seen, Absent
<1> HIDE DEF u
<1>8. /\ v.order = Append(u.order, id) /\ v.ids_by_seq = u.ids_by_seq \cup {seq}
      /\ v.seen_ids = [u.seen_ids EXCEPT ![id] = InFlight(seq, type)]
      /\ v.frontier = u.frontier
  BY <1>4 DEF Admit, Window, u
<1> HIDE DEF v
<1>9. /\ v.seen_ids[id].seq = seq /\ v.seen_ids[id].st = "in_flight"
      /\ \A x \in EventIds \ {id} : v.seen_ids[x] = u.seen_ids[x]
  BY <1>4, <1>8 DEF Window, InFlight
<1>10. Seen(v) = Seen(u) \cup {id}
  BY <1>9 DEF Seen
<1>11. IsFiniteSet(Seen(v)) /\ Cardinality(Seen(v)) = Cardinality(Seen(u)) + 1
  BY <1>3, <1>7, <1>10, FS_AddElement DEF RoomInv
<1>12. Cardinality(Seen(u)) \in Nat
  BY <1>3, FS_CardinalityType DEF RoomInv
<1>13. Cardinality(Seen(v)) <= MaxEntries
  BY <1>2, <1>3, <1>11, <1>12
<1>14. \A x \in Seen(v) : In(x, v.order)
  <2>1. /\ Len(v.order) = Len(u.order) + 1 /\ Len(u.order) \in Nat
        /\ v.order[Len(u.order) + 1] = id
        /\ \A i \in 1 .. Len(u.order) : v.order[i] = u.order[i]
    BY <1>4, <1>8 DEF Window
  <2>2. \A x \in Seen(u) : In(x, u.order)
    BY <1>3 DEF RoomInv
  <2> QED BY <2>1, <2>2, <1>10, SMTT(30) DEF In
<1>15. seq <= SaturatingAdd(v.frontier, MaxEntries)
  BY <1>1, <1>2, <1>4, <1>8, WindowAssumption DEF OutsideReceiveWindow, EventSeqs, SaturatingAdd, Window
<1>16. \A x \in Seen(u) : x # id /\ x \in EventIds /\ v.seen_ids[x] = u.seen_ids[x]
  BY <1>7, <1>9 DEF Seen
<1>17. \A x \in Seen(v) :
         /\ v.seen_ids[x].seq \in v.ids_by_seq
         /\ v.seen_ids[x].seq <= SaturatingAdd(v.frontier, MaxEntries)
  BY <1>3, <1>8, <1>9, <1>10, <1>15, <1>16 DEF RoomInv
<1>18. \A a, b \in Seen(v) : v.seen_ids[a].seq = v.seen_ids[b].seq => a = b
  BY <1>3, <1>6, <1>9, <1>10, <1>16 DEF RoomInv
<1> QED BY <1>11, <1>13, <1>14, <1>17, <1>18 DEF RoomInv, v

(* Settling moves the frontier up and keeps every record in its place. *)
LEMMA SettleKeepsRoom ==
  ASSUME NEW w \in Window, RoomInv(w), WindowInv(w), NEW id \in EventIds, NEW outcome \in Outcomes
  PROVE  RoomInv(Settle(w, id, outcome))
<1>1. CASE w.seen_ids[id].st # "in_flight"
  BY <1>1 DEF Settle
<1>2. CASE w.seen_ids[id].st = "in_flight"
  <2> DEFINE rec == w.seen_ids[id]
             u == [w EXCEPT !.seen_ids[id] = Settled(rec, outcome)]
             v == NoteSettledSequence(u, rec.seq)
  <2>1. /\ u.seen_ids = [w.seen_ids EXCEPT ![id] = Settled(rec, outcome)]
        /\ u.ids_by_seq = w.ids_by_seq /\ u.order = w.order /\ u.frontier = w.frontier
        /\ u.settled_out_of_order = w.settled_out_of_order
    BY DEF Window
  <2>2. rec \in EventRecord /\ rec.seq \in EventSeqs /\ w.frontier \in EventSeqs
    BY DEF Window, EventRecord
  <2>3. Settled(rec, outcome).seq = rec.seq /\ Settled(rec, outcome).st = "settled"
    BY <2>2 DEF Settled, EventRecord
  <2>4. v.seen_ids = u.seen_ids /\ v.ids_by_seq = u.ids_by_seq /\ v.order = u.order
    BY DEF NoteSettledSequence, Window
  <2>5. v.frontier \in Nat /\ w.frontier <= v.frontier
    <3>1. CASE rec.seq = 0 \/ rec.seq <= u.frontier
      BY <3>1, <2>1, <2>2, WindowAssumption DEF NoteSettledSequence, EventSeqs
    <3>2. CASE /\ rec.seq # 0 /\ rec.seq > u.frontier
               /\ rec.seq = SaturatingAdd(u.frontier, 1)
      <4>1. v.frontier = NextGap(u.settled_out_of_order, rec.seq) - 1
        BY <3>2, <2>1, <2>2, WindowAssumption DEF NoteSettledSequence, EventSeqs, Window
      <4>2. u.settled_out_of_order \in SUBSET EventSeqs
        BY <2>1 DEF Window
      <4>3. NextGap(u.settled_out_of_order, rec.seq) \in (rec.seq + 1) .. (SeqMax + 1)
        BY <4>2, <2>2, NextGapFound
      <4> QED BY <4>1, <4>3, <3>2, <2>1, <2>2, WindowAssumption DEF EventSeqs
    <3>3. CASE /\ rec.seq # 0 /\ rec.seq > u.frontier
               /\ rec.seq # SaturatingAdd(u.frontier, 1)
      BY <3>3, <2>1, <2>2, WindowAssumption DEF NoteSettledSequence, EventSeqs, Window
    <3> QED BY <3>1, <3>2, <3>3, <2>1, <2>2, WindowAssumption DEF EventSeqs
  <2>6. Settle(w, id, outcome) = v
    BY <1>2 DEF Settle
  <2> HIDE DEF u, v
  <2>7. /\ v.seen_ids[id].seq = rec.seq /\ v.seen_ids[id].st = "settled"
        /\ \A x \in EventIds \ {id} : v.seen_ids[x] = w.seen_ids[x]
    BY <2>1, <2>3, <2>4 DEF Window
  <2>8. Seen(v) = Seen(w)
    BY <2>7, <1>2 DEF Seen
  <2>9. \A x \in Seen(w) : x \in EventIds /\ v.seen_ids[x].seq = w.seen_ids[x].seq
    BY <2>7 DEF Seen
  <2>10. \A n \in EventSeqs : n <= SaturatingAdd(w.frontier, MaxEntries)
                           => n <= SaturatingAdd(v.frontier, MaxEntries)
    BY <2>2, <2>5, WindowAssumption DEF SaturatingAdd, EventSeqs
  <2>11. \A x \in Seen(w) : w.seen_ids[x].seq \in EventSeqs
    BY DEF Seen, Window, EventRecord
  <2>12. \A x \in Seen(w) : v.seen_ids[x].seq <= SaturatingAdd(v.frontier, MaxEntries)
    BY <2>9, <2>10, <2>11 DEF RoomInv
  <2>13. RoomInv(v)
    BY <2>1, <2>4, <2>8, <2>9, <2>12 DEF RoomInv
  <2> QED BY <2>6, <2>13
<1> QED BY <1>1, <1>2

(* Abandoning gives the place and the sequence back. *)
LEMMA AbandonKeepsRoom ==
  ASSUME NEW w \in Window, RoomInv(w), NEW id \in EventIds
  PROVE  RoomInv(Abandon(w, id))
<1>1. CASE w.seen_ids[id].st # "in_flight"
  BY <1>1 DEF Abandon
<1>2. CASE w.seen_ids[id].st = "in_flight"
  <2> DEFINE v == Abandon(w, id)
  <2>1. /\ v.seen_ids = [w.seen_ids EXCEPT ![id] = Absent]
        /\ v.ids_by_seq = w.ids_by_seq \ {w.seen_ids[id].seq}
        /\ v.order = Without(w.order, id) /\ v.frontier = w.frontier
    BY <1>2 DEF Abandon, Window
  <2> HIDE DEF v
  <2>2. v.seen_ids[id].st = "absent" /\ \A x \in EventIds \ {id} : v.seen_ids[x] = w.seen_ids[x]
    BY <2>1 DEF Window, Absent
  <2>3. id \in Seen(w) /\ Seen(v) = Seen(w) \ {id}
    BY <2>2, <1>2 DEF Seen
  <2>4. \A x \in Seen(v) : x \in Seen(w) /\ x # id /\ v.seen_ids[x] = w.seen_ids[x]
    BY <2>2, <2>3 DEF Seen
  <2>5. IsFiniteSet(Seen(v)) /\ Cardinality(Seen(v)) = Cardinality(Seen(w)) - 1
    BY <2>3, FS_RemoveElement DEF RoomInv
  <2>6. Cardinality(Seen(v)) <= MaxEntries
    BY <2>5, FS_CardinalityType, WindowAssumption DEF RoomInv
  <2>7. \A x \in Seen(v) : In(x, v.order)
    <3> SUFFICES ASSUME NEW x \in Seen(v) PROVE In(x, v.order)
      OBVIOUS
    <3>1. In(x, w.order) /\ x # id /\ w.order \in Seq(EventIds)
      BY <2>4 DEF RoomInv, Window
    <3> QED BY <3>1, <2>1, WithoutKeeps
  <2>8. \A x \in Seen(v) : v.seen_ids[x].seq \in v.ids_by_seq
    BY <2>1, <2>3, <2>4 DEF RoomInv
  <2> QED BY <2>1, <2>4, <2>5, <2>6, <2>7, <2>8 DEF RoomInv, v
<1> QED BY <1>1, <1>2

(* A window with no record has room, wherever its frontier is. *)
LEMMA EmptyHasRoom ==
  ASSUME NEW w, w.seen_ids = [id \in EventIds |-> Absent]
  PROVE  RoomInv(w)
<1>1. Seen(w) = {}
  BY DEF Seen, Absent
<1> QED BY <1>1, FS_EmptySet, WindowAssumption DEF RoomInv

Room == \A c \in ClientIds : RoomInv(windows[c])

(* Every call of admit, settle and abandon leaves every window with room. *)
LEMMA NextRoom == IndInv /\ Room /\ [Next]_vars => Room'
<1> SUFFICES ASSUME IndInv, Room, [Next]_vars, NEW x \in ClientIds
             PROVE  RoomInv(windows'[x])
  BY DEF Room, RoomInv, Seen, In
<1>1. /\ windows \in [ClientIds -> Window] /\ WindowInv(windows[x]) /\ RoomInv(windows[x])
      /\ windows[x] \in Window
  BY DEF IndInv, TypeOK, Room
<1>2. CASE UNCHANGED vars
  BY <1>1, <1>2 DEF vars
<1>3. CASE Next
  <2>1. PICK c \in ClientIds, id \in EventIds :
          \/ \E seq \in EventSeqs, type \in EventTypes : AdmitEvent(c, id, seq, type)
          \/ \E outcome \in Outcomes : SettleEvent(c, id, outcome)
          \/ AbandonEvent(c, id)
    BY <1>3 DEF Next
  <2>2. ASSUME NEW seq \in EventSeqs, NEW type \in EventTypes, AdmitKnown(c, id, seq, type)
        PROVE  RoomInv(windows'[x])
    BY <2>2, <1>1, AdmitKeepsRoom DEF AdmitKnown
  <2>3. ASSUME NEW seq \in EventSeqs, NEW type \in EventTypes, RefuseNew(c, id, seq, type)
        PROVE  RoomInv(windows'[x])
    BY <2>3, <1>1 DEF RefuseNew
  <2>4. ASSUME NEW seq \in EventSeqs, NEW type \in EventTypes, AdmitNew(c, id, seq, type)
        PROVE  RoomInv(windows'[x])
    <3> DEFINE e == WindowForNewClient(c)
               v == Admit(e, id, seq, type)
    <3>1. AdmitVerdict(e, id, seq, type) = "fresh" /\ InsertClient(c, v, TakeFrontier(evicted, c))
      BY <2>4 DEF AdmitNew
    <3>2. e \in Window /\ e.settled_out_of_order = {} /\ e.seen_ids = [y \in EventIds |-> Absent]
      BY EmptyWindowInv DEF WindowForNewClient, EmptyWindow, Window, IndInv, TypeOK, Retained
    <3> HIDE DEF e
    <3>3. WindowInv(e)
      BY <3>2 DEF WindowInv, Absent
    <3>4. RoomInv(v)
      BY <3>1, <3>2, <3>3, EmptyHasRoom, AdmitKeepsRoom
    <3>5. EmptyWindow.seen_ids = [y \in EventIds |-> Absent]
      BY DEF EmptyWindow
    <3>6. RoomInv(EmptyWindow)
      BY <3>5, EmptyHasRoom
    <3> HIDE DEF v
    <3>7. windows'[x] \in {windows[x], EmptyWindow, v}
      BY <1>1, <3>1 DEF InsertClient
    <3> QED BY <1>1, <3>4, <3>6, <3>7
  <2>5. ASSUME NEW outcome \in Outcomes, SettleEvent(c, id, outcome)
        PROVE  RoomInv(windows'[x])
    BY <2>5, <1>1, SettleKeepsRoom DEF SettleEvent
  <2>6. CASE AbandonEvent(c, id)
    BY <2>6, <1>1, AbandonKeepsRoom DEF AbandonEvent
  <2> QED BY <2>1, <2>2, <2>3, <2>4, <2>5, <2>6 DEF AdmitEvent
<1> QED BY <1>2, <1>3

(* The result cache of a client never holds more than MaxEntries records,  *)
(* so the eviction loop of admit runs at most once.                        *)
THEOREM CacheBounded == Spec => []Room
<1>1. Init => Room
  BY EmptyHasRoom DEF Init, Room, EmptyWindow
<1> QED BY <1>1, Inductive, NextRoom, PTL DEF Spec

(* The receive window cannot wedge (admit).  With no result evictable, the *)
(* records own as many sequences above the frontier, all of them within    *)
(* the window: none is left for a new event to ask for.                    *)
THEOREM NeverWedges == Spec => []NeverWedged
<1>1. IndInv /\ Room => NeverWedged
  <2> SUFFICES ASSUME IndInv, Room, NEW c \in clients, NEW id \in EventIds,
                      NEW seq \in EventSeqs, NEW type \in EventTypes,
                      AdmitVerdict(windows[c], id, seq, type) = "receive_window_full"
               PROVE  FALSE
    BY DEF NeverWedged
  <2> DEFINE w == windows[c]
             free == ((w.frontier + 1) .. (w.frontier + MaxEntries)) \ {seq}
             seqOf == [x \in Seen(w) |-> w.seen_ids[x].seq]
  <2>1. c \in ClientIds /\ w \in Window /\ WindowInv(w) /\ RoomInv(w)
    BY DEF IndInv, TypeOK, Room
  <2> HIDE DEF w
  <2>2. seq \notin w.ids_by_seq /\ ~ OutsideReceiveWindow(w, seq) /\ NoRoom(w)
    BY DEF AdmitVerdict, ReplayVerdict, w
  <2>3. w.frontier \in Nat /\ MaxEntries \in Nat /\ SeqMax \in Nat /\ seq \in Nat
    BY <2>1, WindowAssumption DEF Window, EventSeqs
  <2>4. seq > w.frontier /\ seq <= w.frontier + MaxEntries
    BY <2>2, <2>3 DEF OutsideReceiveWindow, SaturatingAdd, EventSeqs
  <2>5. ASSUME NEW x \in Seen(w) PROVE w.seen_ids[x].seq \in free
    <3>1. x \in EventIds /\ w.seen_ids[x].st \in {"in_flight", "settled"} /\ w.seen_ids[x].seq \in Nat
      BY <2>1, <2>5 DEF Seen, Window, EventRecord, EventSeqs
    <3>2. In(x, w.order) /\ w.seen_ids[x].seq \in w.ids_by_seq
          /\ w.seen_ids[x].seq <= SaturatingAdd(w.frontier, MaxEntries)
      BY <2>1, <2>5 DEF RoomInv
    <3>3. ~ IsEvictable(w.seen_ids[x], w.frontier)
      BY <3>2, <2>2 DEF NoRoom, EvictablePositions, In
    <3>4. w.seen_ids[x].seq > w.frontier
      BY <3>1, <3>3, <2>1, <2>3 DEF IsEvictable, WindowInv
    <3> QED BY <3>1, <3>2, <3>4, <2>2, <2>3 DEF SaturatingAdd
  <2>6. seqOf \in Injection(Seen(w), free)
    BY <2>1, <2>5 DEF Injection, IsInjective, RoomInv
  <2>7. IsFiniteSet(free) /\ Cardinality(free) = MaxEntries - 1
    <3> DEFINE all == (w.frontier + 1) .. (w.frontier + MaxEntries)
    <3>1. MaxEntries >= 1 /\ w.frontier + 1 \in Int /\ w.frontier + MaxEntries \in Int
      BY <2>3, WindowAssumption
    <3>2. IsFiniteSet(all) /\ Cardinality(all) = MaxEntries
      <4>1. /\ IsFiniteSet(all)
            /\ Cardinality(all) = IF w.frontier + 1 > w.frontier + MaxEntries THEN 0
                                  ELSE (w.frontier + MaxEntries) - (w.frontier + 1) + 1
        BY <3>1, FS_Interval
      <4> QED BY <4>1, <3>1, <2>3
    <3>3. seq \in all
      BY <2>3, <2>4
    <3> HIDE DEF all
    <3>4. IsFiniteSet(all \ {seq}) /\ Cardinality(all \ {seq}) = MaxEntries - 1
      BY <3>2, <3>3, FS_RemoveElement
    <3> QED BY <3>4 DEF all
  <2> HIDE DEF free, seqOf
  <2>8. Cardinality(Seen(w)) <= MaxEntries - 1
    BY <2>6, <2>7, FS_Injection
  <2>9. Cardinality(Seen(w)) >= MaxEntries /\ Cardinality(Seen(w)) \in Nat
    BY <2>1, <2>2, FS_CardinalityType DEF NoRoom, IsFull, RoomInv
  <2> QED BY <2>3, <2>8, <2>9
<1> QED BY <1>1, Inductive, CacheBounded, PTL
==============================================================================
