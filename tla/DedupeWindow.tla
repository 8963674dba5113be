---------------------------- MODULE DedupeWindow ----------------------------
(***************************************************************************)
(* One client's event receive/result window of the srui session daemon     *)
(* (struct ClientDedupeWindow of server-rust/event-dedupe/src/lib.rs), as  *)
(* operators on a window value.  EventDedupe keeps one window per client.  *)
(***************************************************************************)
EXTENDS Integers, Sequences, FiniteSets

CONSTANTS
  EventIds,    \* event identities a client may choose (non-empty byte strings)
  EventTypes,  \* (namespace_id, local_id) pairs, None included
  Outcomes,    \* terminal outcomes an event may be settled with
  NoOutcome,   \* the outcome of a record that has none
  NoType,      \* the event type of a record that has none (legacy records)
  MaxEntries,  \* max_entries_per_client, raised to 1 by with_limits
  SeqMax       \* u64::MAX; sequence arithmetic saturates here

ASSUME WindowAssumption ==
  /\ MaxEntries \in Nat \ {0}
  /\ SeqMax \in Nat \ {0}
  /\ NoOutcome \notin Outcomes
  /\ NoType \in EventTypes

EventSeqs == 0 .. SeqMax

SaturatingAdd(a, b) == IF a + b > SeqMax THEN SeqMax ELSE a + b

-----------------------------------------------------------------------------
(* EventRecord: an id that is not a key of seen_ids has an "absent" record. *)

EventRecord ==
  [ st      : {"absent", "in_flight", "settled"},
    seq     : EventSeqs,
    type    : EventTypes,
    outcome : Outcomes \cup {NoOutcome} ]

Absent == [st |-> "absent", seq |-> 0, type |-> NoType, outcome |-> NoOutcome]

InFlight(seq, type) ==
  [st |-> "in_flight", seq |-> seq, type |-> type, outcome |-> NoOutcome]

Settled(rec, outcome) == [rec EXCEPT !.st = "settled", !.outcome = outcome]

(* Mutant: the result at the frontier itself stays pinned. *)
IsEvictableStrict(rec, frontier) ==
  rec.st = "settled" /\ (rec.seq = 0 \/ rec.seq < frontier)

IsEvictable(rec, frontier) ==
  rec.st = "settled" /\ (rec.seq = 0 \/ rec.seq <= frontier)

(* ids_by_seq is only ever asked for its keys, so it is their set. *)
Window ==
  [ seen_ids             : [EventIds -> EventRecord],
    ids_by_seq           : SUBSET EventSeqs,
    order                : Seq(EventIds),
    frontier             : EventSeqs,        \* last_contiguous_processed_seq
    settled_out_of_order : SUBSET EventSeqs ]

EmptyWindow ==
  [ seen_ids             |-> [id \in EventIds |-> Absent],
    ids_by_seq           |-> {},
    order                |-> << >>,
    frontier             |-> 0,
    settled_out_of_order |-> {} ]

Seen(w) == {id \in EventIds : w.seen_ids[id].st # "absent"}

HasInFlight(w) == \E id \in EventIds : w.seen_ids[id].st = "in_flight"

IsPinned(w) == HasInFlight(w) \/ w.settled_out_of_order # {}

-----------------------------------------------------------------------------
(* Eviction from the result cache: the oldest entry whose result the       *)
(* frontier already vouches for.                                           *)

EvictablePositions(w) ==
  {p \in 1 .. Len(w.order) : IsEvictable(w.seen_ids[w.order[p]], w.frontier)}

OldestEvictable(w) ==
  CHOOSE p \in EvictablePositions(w) : \A q \in EvictablePositions(w) : p <= q

(* VecDeque::remove(p), and the removal of a value that occurs at most once. *)
WithoutPosition(s, p) == [i \in 1 .. Len(s) - 1 |-> IF i < p THEN s[i] ELSE s[i + 1]]

Without(s, x) ==
  IF \E p \in 1 .. Len(s) : s[p] = x
  THEN WithoutPosition(s, CHOOSE p \in 1 .. Len(s) : s[p] = x)
  ELSE s

EvictOldestSettled(w) ==
  LET id  == w.order[OldestEvictable(w)]
      own == {w.seen_ids[id].seq} \ {0}
  IN  [w EXCEPT !.order                = WithoutPosition(@, OldestEvictable(w)),
                !.seen_ids[id]         = Absent,
                !.ids_by_seq           = @ \ own,
                !.settled_out_of_order = @ \ own]

IsFull(w) == Cardinality(Seen(w)) >= MaxEntries

(* The eviction loop of admit and insert_legacy_settled.  A window never   *)
(* holds more than MaxEntries records, so one eviction makes room.         *)
MakeRoom(w) == IF IsFull(w) THEN EvictOldestSettled(w) ELSE w

NoRoom(w) == IsFull(w) /\ EvictablePositions(w) = {}

-----------------------------------------------------------------------------
(* admit: what a delivery is answered, and the window after a fresh one.   *)

(* Mutant: a sequence at or below the frontier is let through. *)
OutsideReceiveWindowAboveOnly(w, seq) ==
  seq = 0 \/ seq > SaturatingAdd(w.frontier, MaxEntries)

OutsideReceiveWindow(w, seq) ==
  \/ seq = 0
  \/ seq <= w.frontier
  \/ seq > SaturatingAdd(w.frontier, MaxEntries)

ReplayVerdict(rec, seq, type) ==
  CASE seq # rec.seq                                     -> "replay_sequence_mismatch"
    [] seq = rec.seq /\ rec.type # type /\ rec.seq # 0   -> "replay_type_mismatch"
    [] seq = rec.seq /\ (rec.type = type \/ rec.seq = 0) ->
         IF rec.st = "in_flight" THEN "pending" ELSE "duplicate"

AdmitVerdict(w, id, seq, type) ==
  IF id \in Seen(w) THEN ReplayVerdict(w.seen_ids[id], seq, type)
  ELSE IF seq \in w.ids_by_seq THEN "sequence_already_assigned"
  ELSE IF OutsideReceiveWindow(w, seq) THEN "outside_receive_window"
  ELSE IF NoRoom(w) THEN "receive_window_full"
  ELSE "fresh"

Admit(w, id, seq, type) ==
  [MakeRoom(w) EXCEPT !.order        = Append(@, id),
                      !.ids_by_seq   = @ \cup {seq},
                      !.seen_ids[id] = InFlight(seq, type)]

-----------------------------------------------------------------------------
(* settle: the record turns terminal and its sequence joins the contiguous *)
(* frontier, or waits above a gap in settled_out_of_order.                 *)

(* The first sequence after seq that is not waiting in S. *)
NextGap(S, seq) ==
  CHOOSE n \in (seq + 1) .. (SeqMax + 1) :
    /\ n \notin S
    /\ \A m \in (seq + 1) .. (SeqMax + 1) : m \notin S => n <= m

NoteSettledSequence(w, seq) ==
  IF seq = 0 \/ seq <= w.frontier THEN w
  ELSE IF seq = SaturatingAdd(w.frontier, 1)
  THEN LET reached == NextGap(w.settled_out_of_order, seq) - 1
       IN  [w EXCEPT !.frontier             = reached,
                     !.settled_out_of_order = @ \ ((seq + 1) .. reached)]
  ELSE [w EXCEPT !.settled_out_of_order = @ \cup {seq}]

(* Mutant: a second settle overwrites the cached outcome. *)
SettleLastWins(w, id, outcome) ==
  LET rec == w.seen_ids[id] IN
  IF rec.st = "absent" THEN w
  ELSE NoteSettledSequence(
         [w EXCEPT !.seen_ids[id] = Settled(rec, outcome)], rec.seq)

Settle(w, id, outcome) ==
  LET rec == w.seen_ids[id] IN
  IF rec.st # "in_flight" THEN w
  ELSE NoteSettledSequence(
         [w EXCEPT !.seen_ids[id] = Settled(rec, outcome)], rec.seq)

(* abandon: an admission that produced no outcome gives its slot back. *)
Abandon(w, id) ==
  LET rec == w.seen_ids[id] IN
  IF rec.st # "in_flight" THEN w
  ELSE [w EXCEPT !.seen_ids[id] = Absent,
                 !.ids_by_seq   = @ \ {rec.seq},
                 !.order        = Without(@, id)]
=============================================================================
