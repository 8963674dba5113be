---------------------------- MODULE SessionProofs ----------------------------
(***************************************************************************)
(* Text edits and event handlers, for any number of clients, connections,  *)
(* editors and events and any bound on the tracker; the resources a        *)
(* session retains and delivers, for every budget (second part); and the   *)
(* semantic store with its collection models, for transactions of any      *)
(* length and any limits (third part).                                     *)
(*                                                                         *)
(* An edit is published only if its stream's generation is still the one   *)
(* its reservation made.  That makes it the newest of its stream: every    *)
(* reservation is above all the stream has seen and changes the            *)
(* generation (Holds).  What the stream has seen covers all that was       *)
(* published (Covered), and a stream is dropped only when nothing of its   *)
(* key can be published any more: its client has departed, which needs     *)
(* that none of its events is in flight, or its editor is gone.            *)
(*                                                                         *)
(* A store is in order (TreeOK) when the children lists and the parents    *)
(* agree and the nodes have ranks, one more than their parent's: a rank is *)
(* what makes the climb to a root end, and the depth the limit is about.   *)
(* Each operation keeps it, refused ones too, and so does every stage of   *)
(* a transaction; the caches of models stay within their limit because a   *)
(* positional update finds the cache it was made for (Steady).             *)
(***************************************************************************)
EXTENDS TextEdits, Resources, SemanticTree, FoldLemmas

Stream == [last : Nat, flight : SUBSET Nat, generation : Nat]

TypeInv ==
  /\ editor \in [Editors -> {"open", "readonly", "disabled", "gone"}]
  /\ tracker \in [DOMAIN tracker -> Stream]
  /\ dedupe \in [Events -> {"unknown", "flight", "accepted", "rejected"}]
  /\ worker \in [Connections -> [pc : {"idle", "policy", "notify", "handlers", "handled"},
                                 event : Events \cup {"none"}, generation : Nat]]
  /\ commits \in Seq(Events) /\ panics \in [Events -> Nat]

Runs(c, pcs) == worker[c].pc \in pcs
Busy(c) == worker[c].pc # "idle"

\* An event in the hands of a connection is in flight, and of no other connection.
OwnInv ==
  /\ \A c \in Connections :
        Busy(c) => worker[c].event \in Events /\ dedupe[worker[c].event] = "flight"
  /\ \A c \in Connections :
        Busy(c) => (IsEdit(worker[c].event) <=> Runs(c, {"policy", "notify"}))
  /\ \A c, d \in Connections :
        Busy(c) /\ Busy(d) /\ worker[c].event = worker[d].event => c = d
  /\ \A e \in Events : Event[e].client \in departed => dedupe[e] # "flight"

\* Every part of what a stream has seen has a highest edit.
Bounded(s) ==
  \A T \in SUBSET s.flight : \E m \in {s.last} \cup T : \A x \in {s.last} \cup T : x <= m

\* What a running edit x, reserved in generation g, knows of its stream.
Holds(s, g, x) ==
  /\ x \in s.flight /\ g <= s.generation
  /\ g = s.generation => s.last < x /\ \A y \in s.flight : y <= x

\* The streams t and the edits whose policy runs.
StreamOK(t) ==
  /\ \A k \in DOMAIN t : Bounded(t[k])
  /\ \A c \in Connections : Runs(c, {"policy"}) =>
        LET e == worker[c].event IN
        IF Key(e) \in DOMAIN t THEN Holds(t[Key(e)], worker[c].generation, Event[e].edit)
        ELSE editor[Event[e].node] = "gone"
  /\ \A c, d \in Connections :
        LET e == worker[c].event
            f == worker[d].event
        IN  /\ Runs(c, {"policy"}) /\ Runs(d, {"policy"}) /\ Key(e) = Key(f)
            /\ Key(e) \in DOMAIN t /\ Event[e].edit = Event[f].edit
            => c = d

Committed(e) == \E i \in 1..Len(commits) : commits[i] = e

\* What was published is behind its stream, or its stream can have no edit again.
Covered(t) ==
  \A e \in Events : IsEdit(e) /\ Committed(e) =>
     IF Key(e) \in DOMAIN t THEN Event[e].edit <= t[Key(e)].last
     ELSE Event[e].client \in departed \/ editor[Event[e].node] = "gone"

CommitInv ==
  /\ \A e \in Events : IsEdit(e) /\ Committed(e) => dedupe[e] \in {"flight", "accepted"}
  /\ \A c \in Connections : Runs(c, {"policy"}) => ~Committed(worker[c].event)
  /\ \A e \in canceled : e \in Events /\ IsEdit(e) /\ dedupe[e] = "rejected"
  /\ NewerTextWins

Times(e) == Cardinality({i \in 1..Len(commits) : commits[i] = e})

\* An ordinary event not yet run, or run again, has run only for its panics.
CountInv ==
  \A e \in Events :
    /\ Times(e) <= panics[e] + 1 \/ IsEdit(e)
    /\ dedupe[e] = "unknown" => Times(e) <= panics[e] \/ IsEdit(e)
    /\ \A c \in Connections :
          Runs(c, {"handlers"}) /\ worker[c].event = e => Times(e) <= panics[e]

IInv == TypeInv /\ OwnInv /\ StreamOK(tracker) /\ Covered(tracker) /\ CommitInv /\ CountInv

-----------------------------------------------------------------------------
(***************************************************************************)
(* The tracker's streams.                                                  *)
(***************************************************************************)

\* The watermark is above all that the stream has seen.
LEMMA WatermarkTop ==
  ASSUME NEW s \in Stream, Bounded(s)
  PROVE  \A x \in {s.last} \cup s.flight : x <= Watermark(s)
<1>1. \E m \in {s.last} \cup s.flight : \A x \in {s.last} \cup s.flight : x <= m
  BY DEF Bounded
<1> QED BY <1>1 DEF Watermark

\* A reservation adds one edit.
LEMMA ReserveBounded ==
  ASSUME NEW s \in Stream, Bounded(s), NEW x \in Nat,
         NEW r \in Stream, r.last = s.last, r.flight = s.flight \cup {x}
  PROVE  Bounded(r)
<1> SUFFICES ASSUME NEW T \in SUBSET r.flight
             PROVE  \E m \in {r.last} \cup T : \A y \in {r.last} \cup T : y <= m
  BY DEF Bounded
<1> DEFINE U == T \ {x}
<1>1. U \in SUBSET s.flight
  OBVIOUS
<1>2. PICK m \in {s.last} \cup U : \A y \in {s.last} \cup U : y <= m
  BY <1>1 DEF Bounded
<1>3. m \in Nat /\ s.last \in Nat /\ s.flight \in SUBSET Nat
  BY <1>1, <1>2 DEF Stream
<1>4. CASE x \notin T \/ x <= m
  <2>1. \A y \in {s.last} \cup T : y <= m
    BY <1>2, <1>4
  <2> QED BY <2>1
<1>5. CASE x \in T /\ m < x
  <2>1. ASSUME NEW y \in {s.last} \cup T PROVE y <= x
    <3>1. y = x \/ y \in {s.last} \cup U
      OBVIOUS
    <3>2. y \in {s.last} \cup U => y \in Nat /\ y <= m
      BY <1>1, <1>2, <1>3
    <3> QED BY <1>3, <1>5, <3>1, <3>2
  <2> QED BY <1>5, <2>1
<1> QED BY <1>3, <1>4, <1>5

\* The first reservation of a stream.
LEMMA NewBounded ==
  ASSUME NEW x \in Nat, NEW r \in Stream, r.last = 0, r.flight = {x}
  PROVE  Bounded(r)
<1> SUFFICES ASSUME NEW T \in SUBSET {x}
             PROVE  \E m \in {0} \cup T : \A y \in {0} \cup T : y <= m
  BY DEF Bounded
<1>1. CASE T = {}
  BY <1>1
<1>2. CASE T = {x}
  BY <1>2
<1> QED BY <1>1, <1>2

\* An edit leaves the stream and may become its last.
LEMMA LeaveBounded ==
  ASSUME NEW s \in Stream, Bounded(s), NEW r \in Stream, r.flight \in SUBSET s.flight,
         s.last <= r.last
  PROVE  Bounded(r)
<1> SUFFICES ASSUME NEW T \in SUBSET r.flight
             PROVE  \E m \in {r.last} \cup T : \A y \in {r.last} \cup T : y <= m
  BY DEF Bounded
<1>1. PICK m \in {s.last} \cup T : \A y \in {s.last} \cup T : y <= m
  BY DEF Bounded
<1>2. m \in Nat /\ s.last \in Nat /\ r.last \in Nat /\ T \in SUBSET Nat
  BY <1>1 DEF Stream
<1>3. CASE r.last <= m /\ m \in T
  BY <1>1, <1>2, <1>3
<1>4. CASE r.last <= m /\ m = s.last
  BY <1>1, <1>2, <1>4
<1>5. CASE m < r.last
  <2>1. ASSUME NEW y \in {r.last} \cup T PROVE y <= r.last
    <3>1. y \in Nat /\ (y = r.last \/ y <= m)
      BY <1>1, <1>2
    <3> QED BY <1>2, <1>5, <3>1
  <2> QED BY <2>1
<1> QED BY <1>1, <1>2, <1>3, <1>4, <1>5

\* Streams of departed clients are reclaimed: none of them has a running edit.
LEMMA ReclaimOK ==
  ASSUME IInv
  PROVE  LET t == reclaim_departed_clients(tracker)
         IN  t \in [DOMAIN t -> Stream] /\ StreamOK(t) /\ Covered(t)
<1> DEFINE t == reclaim_departed_clients(tracker)
<1>1. /\ DOMAIN t \subseteq DOMAIN tracker
      /\ t = [k \in DOMAIN t |-> tracker[k]]
      /\ \A k \in DOMAIN tracker \ DOMAIN t : k[1] \in departed
  BY DEF reclaim_departed_clients, Without, IInv, TypeInv
<1> HIDE DEF t
<1>2. t \in [DOMAIN t -> Stream]
  BY <1>1 DEF IInv, TypeInv
<1>3. \A e \in Events : Key(e)[1] = Event[e].client
  BY DEF Key
<1>4. \A c \in Connections : Runs(c, {"policy"}) /\ Key(worker[c].event) \notin DOMAIN t
        => Key(worker[c].event) \notin DOMAIN tracker
  BY <1>1, <1>3 DEF IInv, OwnInv, Runs, Busy
<1>5. StreamOK(t)
  <2>1. \A k \in DOMAIN t : Bounded(t[k])
    BY <1>1 DEF IInv, StreamOK
  <2>2. ASSUME NEW c \in Connections, Runs(c, {"policy"})
        PROVE  LET e == worker[c].event IN
               IF Key(e) \in DOMAIN t THEN Holds(t[Key(e)], worker[c].generation, Event[e].edit)
               ELSE editor[Event[e].node] = "gone"
    BY <1>1, <1>4, <2>2 DEF IInv, StreamOK
  <2>3. \A c, d \in Connections :
          LET e == worker[c].event
              f == worker[d].event
          IN  /\ Runs(c, {"policy"}) /\ Runs(d, {"policy"}) /\ Key(e) = Key(f)
              /\ Key(e) \in DOMAIN t /\ Event[e].edit = Event[f].edit
              => c = d
    BY <1>1 DEF IInv, StreamOK
  <2> QED BY <2>1, <2>2, <2>3 DEF StreamOK
<1>6. Covered(t)
  BY <1>1, <1>3 DEF IInv, Covered
<1> QED BY <1>2, <1>5, <1>6 DEF t

\* What an edit's end does to its stream: it leaves it, and last may rise to it.
Ended(e) ==
  /\ DOMAIN tracker' = DOMAIN tracker
  /\ tracker' \in [DOMAIN tracker -> Stream]
  /\ \A k \in DOMAIN tracker : k # Key(e) => tracker'[k] = tracker[k]
  /\ Key(e) \in DOMAIN tracker =>
        /\ tracker'[Key(e)].flight = tracker[Key(e)].flight \ {Event[e].edit}
        /\ tracker'[Key(e)].generation = tracker[Key(e)].generation
        /\ \/ tracker'[Key(e)].last = tracker[Key(e)].last
           \/ /\ tracker'[Key(e)].last = Event[e].edit
              /\ tracker[Key(e)].last <= Event[e].edit

\* mark_terminal
LEMMA MarkEnds ==
  ASSUME IInv, NEW e \in Events, tracker' = mark_terminal(tracker, e)
  PROVE  /\ Ended(e)
         /\ Key(e) \in DOMAIN tracker => Event[e].edit <= tracker'[Key(e)].last
<1>1. Event[e].edit \in Nat
  BY EventAssumption
<1>2. CASE Key(e) \notin DOMAIN tracker
  BY <1>2 DEF IInv, TypeInv, Ended, mark_terminal
<1>3. CASE Key(e) \in DOMAIN tracker
  <2> DEFINE k == Key(e)
             s == tracker[k]
             r == [s EXCEPT !.flight = @ \ {Event[e].edit},
                            !.last = IF @ < Event[e].edit THEN Event[e].edit ELSE @]
  <2>1. s \in Stream
    BY <1>3 DEF IInv, TypeInv
  <2>2. tracker' = [tracker EXCEPT ![k] = r]
    BY <1>3 DEF mark_terminal, IInv, TypeInv
  <2>3. /\ r \in Stream /\ r.flight = s.flight \ {Event[e].edit} /\ r.generation = s.generation
        /\ r.last = IF s.last < Event[e].edit THEN Event[e].edit ELSE s.last
    BY <1>1, <2>1 DEF Stream
  <2>4. s.last \in Nat
    BY <2>1 DEF Stream
  <2> HIDE DEF r
  <2>5. tracker \in [DOMAIN tracker -> Stream]
    BY DEF IInv, TypeInv
  <2>6. tracker'[k] = r /\ DOMAIN tracker' = DOMAIN tracker /\ tracker' \in [DOMAIN tracker -> Stream]
        /\ \A x \in DOMAIN tracker : x # k => tracker'[x] = tracker[x]
    BY <1>3, <2>2, <2>3, <2>5
  <2> QED BY <1>1, <1>3, <2>3, <2>4, <2>6 DEF Ended
<1> QED BY <1>2, <1>3

\* abandon_reservation
LEMMA AbandonEnds ==
  ASSUME IInv, NEW e \in Events, tracker' = abandon_reservation(tracker, e)
  PROVE  Ended(e)
<1>2. CASE Key(e) \notin DOMAIN tracker
  BY <1>2 DEF IInv, TypeInv, Ended, abandon_reservation
<1>3. CASE Key(e) \in DOMAIN tracker
  <2> DEFINE k == Key(e)
             s == tracker[k]
             r == [s EXCEPT !.flight = @ \ {Event[e].edit}]
  <2>1. s \in Stream
    BY <1>3 DEF IInv, TypeInv
  <2>2. tracker' = [tracker EXCEPT ![k] = r]
    BY <1>3 DEF abandon_reservation, IInv, TypeInv
  <2>3. /\ r \in Stream /\ r.flight = s.flight \ {Event[e].edit} /\ r.generation = s.generation
        /\ r.last = s.last
    BY <2>1 DEF Stream
  <2> HIDE DEF r
  <2>5. tracker \in [DOMAIN tracker -> Stream]
    BY DEF IInv, TypeInv
  <2>6. tracker'[k] = r /\ DOMAIN tracker' = DOMAIN tracker /\ tracker' \in [DOMAIN tracker -> Stream]
        /\ \A x \in DOMAIN tracker : x # k => tracker'[x] = tracker[x]
    BY <1>3, <2>2, <2>3, <2>5
  <2> QED BY <1>3, <2>3, <2>6 DEF Ended
<1> QED BY <1>2, <1>3

\* The other running edits of a stream still hold when one of them ends.
LEMMA EndedStreams ==
  ASSUME IInv, NEW c \in Connections, Runs(c, {"policy"}), Ended(worker[c].event),
         NEW w, w.pc # "policy", worker' = [worker EXCEPT ![c] = w],
         editor' = editor
  PROVE  StreamOK(tracker)'
<1> DEFINE e == worker[c].event
           x == Event[e].edit
<1>1. e \in Events /\ x \in Nat
  BY EventAssumption DEF IInv, OwnInv, Runs, Busy
<1>2. \A d \in Connections : Runs(d, {"policy"})' => d # c /\ Runs(d, {"policy"}) /\ worker'[d] = worker[d]
  BY DEF Runs, IInv, TypeInv
<1>3. \A k \in DOMAIN tracker : tracker[k] \in Stream /\ tracker'[k] \in Stream
  BY DEF Ended, IInv, TypeInv
<1>4. \A k \in DOMAIN tracker' : Bounded(tracker'[k])
  <2> SUFFICES ASSUME NEW k \in DOMAIN tracker PROVE Bounded(tracker'[k])
    BY DEF Ended
  <2>1. tracker[k].last \in Nat /\ tracker[k] \in Stream /\ tracker'[k] \in Stream
    BY <1>3 DEF Stream
  <2>2. tracker'[k].flight \in SUBSET tracker[k].flight /\ tracker[k].last <= tracker'[k].last
    BY <1>1, <2>1 DEF Ended
  <2>3. Bounded(tracker[k])
    BY DEF IInv, StreamOK
  <2> QED BY <2>1, <2>2, <2>3, LeaveBounded
<1>5. ASSUME NEW d \in Connections, Runs(d, {"policy"})'
      PROVE  IF Key(worker[d].event) \in DOMAIN tracker
             THEN Holds(tracker'[Key(worker[d].event)], worker[d].generation,
                        Event[worker[d].event].edit)
             ELSE editor[Event[worker[d].event].node] = "gone"
  <2> DEFINE f == worker[d].event
             k == Key(f)
             y == Event[f].edit
  <2>1. d # c /\ Runs(d, {"policy"})
    BY <1>2, <1>5
  <2>2. f \in Events /\ y \in Nat /\ worker[d].generation \in Nat
    BY <2>1, EventAssumption DEF IInv, OwnInv, TypeInv, Runs, Busy
  <2>3. CASE k \notin DOMAIN tracker
    BY <2>1, <2>3 DEF IInv, StreamOK
  <2>4. CASE k \in DOMAIN tracker /\ k # Key(e)
    BY <2>1, <2>4 DEF IInv, StreamOK, Ended
  <2>5. CASE k \in DOMAIN tracker /\ k = Key(e)
    <3>1. x # y
      BY <2>1, <2>5 DEF IInv, StreamOK
    <3>2. Holds(tracker[k], worker[d].generation, y) /\ Holds(tracker[k], worker[c].generation, x)
      BY <2>1, <2>5 DEF IInv, StreamOK
    <3> DEFINE s == tracker[k]
               r == tracker'[k]
    <3>3. /\ r.flight = s.flight \ {x} /\ r.generation = s.generation
          /\ r.last = s.last \/ r.last = x
          /\ s.flight \in SUBSET Nat
      BY <2>5, <1>3 DEF Ended, Stream
    <3> HIDE DEF s, r
    <3>4. y \in r.flight /\ worker[d].generation <= r.generation
      BY <3>1, <3>2, <3>3 DEF Holds, s
    <3>5. ASSUME worker[d].generation = r.generation
          PROVE  r.last < y /\ \A z \in r.flight : z <= y
      <4>1. s.last < y /\ \A z \in s.flight : z <= y
        BY <3>2, <3>3, <3>5 DEF Holds, s
      <4>2. x <= y
        BY <3>2, <4>1 DEF Holds, s
      <4> QED BY <1>1, <2>2, <3>1, <3>3, <4>1, <4>2
    <3>6. Holds(r, worker[d].generation, y)
      BY <3>4, <3>5 DEF Holds
    <3> QED BY <2>5, <3>6 DEF r
  <2> QED BY <2>3, <2>4, <2>5
<1>6. QED
  <2>1. DOMAIN tracker' = DOMAIN tracker
    BY DEF Ended
  <2>2. \A d \in Connections : Runs(d, {"policy"})' =>
          IF Key(worker'[d].event) \in DOMAIN tracker'
          THEN Holds(tracker'[Key(worker'[d].event)], worker'[d].generation,
                     Event[worker'[d].event].edit)
          ELSE editor'[Event[worker'[d].event].node] = "gone"
    BY <1>2, <1>5, <2>1
  <2>3. ASSUME NEW d \in Connections, NEW b \in Connections, Runs(d, {"policy"})', Runs(b, {"policy"})',
               Key(worker'[d].event) = Key(worker'[b].event), Key(worker'[d].event) \in DOMAIN tracker',
               Event[worker'[d].event].edit = Event[worker'[b].event].edit
        PROVE  d = b
    BY <1>2, <2>1, <2>3 DEF IInv, StreamOK
  <2> QED BY <1>4, <2>2, <2>3 DEF StreamOK

\* What was published stays behind its stream.
LEMMA EndedCovers ==
  ASSUME IInv, NEW e \in Events, Ended(e), NEW f \in Events, IsEdit(f), Committed(f)
  PROVE  IF Key(f) \in DOMAIN tracker' THEN Event[f].edit <= tracker'[Key(f)].last
         ELSE Event[f].client \in departed \/ editor[Event[f].node] = "gone"
<1>1. Event[e].edit \in Nat /\ Event[f].edit \in Nat
  BY EventAssumption
<1>2. \A k \in DOMAIN tracker : tracker[k] \in Stream /\ tracker'[k] \in Stream
  BY DEF Ended, IInv, TypeInv
<1>3. CASE Key(f) \notin DOMAIN tracker
  BY <1>3 DEF IInv, Covered, Ended
<1>4. CASE Key(f) \in DOMAIN tracker
  <2>1. Event[f].edit <= tracker[Key(f)].last /\ tracker[Key(f)].last \in Nat
    BY <1>2, <1>4 DEF IInv, Covered, Stream
  <2>2. tracker'[Key(f)].last \in Nat /\ tracker[Key(f)].last <= tracker'[Key(f)].last
    BY <1>1, <1>2, <1>4, <2>1 DEF Ended, Stream
  <2> QED BY <1>1, <1>4, <2>1, <2>2 DEF Ended
<1> QED BY <1>3, <1>4


-----------------------------------------------------------------------------
(***************************************************************************)
(* Who owns an event, and what was committed.                              *)
(***************************************************************************)

\* A connection takes up an event nobody has.
LEMMA OwnAdmitted ==
  ASSUME IInv, NEW c \in Connections, NEW e \in Events, Fresh(c, e), Settle(e, "flight"),
         NEW pc \in {"policy", "handlers"}, NEW g \in Nat, Run(c, pc, e, g),
         IsEdit(e) <=> pc = "policy", departed' = departed
  PROVE  OwnInv'
<1>1. /\ worker'[c].pc = pc /\ worker'[c].event = e
      /\ \A d \in Connections : d # c => worker'[d] = worker[d]
  BY DEF Run, IInv, TypeInv
<1>2. dedupe'[e] = "flight" /\ \A f \in Events : f # e => dedupe'[f] = dedupe[f]
  BY DEF Settle, IInv, TypeInv
<1>3. \A d \in Connections : Busy(d) => worker[d].event # e
  BY DEF Fresh, IInv, OwnInv
<1>4. \A d \in Connections :
        Busy(d)' => worker'[d].event \in Events /\ dedupe'[worker'[d].event] = "flight"
  BY <1>1, <1>2 DEF IInv, OwnInv, Busy
<1>5. \A d \in Connections :
        Busy(d)' => (IsEdit(worker'[d].event) <=> Runs(d, {"policy", "notify"})')
  BY <1>1 DEF IInv, OwnInv, Busy, Runs
<1>6. \A d, b \in Connections :
        Busy(d)' /\ Busy(b)' /\ worker'[d].event = worker'[b].event => d = b
  BY <1>1, <1>3 DEF IInv, OwnInv, Busy
<1>7. \A f \in Events : Event[f].client \in departed' => dedupe'[f] # "flight"
  BY <1>2 DEF Fresh, IInv, OwnInv
<1> QED BY <1>4, <1>5, <1>6, <1>7 DEF OwnInv, IsEdit

\* It goes on to another step of the same event.
LEMMA OwnAdvanced ==
  ASSUME IInv, NEW c \in Connections, Busy(c), NEW pc \in {"notify", "handled"},
         pc = "notify" <=> IsEdit(worker[c].event), Run(c, pc, worker[c].event, 0),
         dedupe' = dedupe, departed' = departed
  PROVE  OwnInv'
<1>1. /\ worker'[c].pc = pc /\ worker'[c].event = worker[c].event
      /\ \A d \in Connections : d # c => worker'[d] = worker[d]
  BY DEF Run, IInv, TypeInv
<1>4. \A d \in Connections :
        Busy(d)' => worker'[d].event \in Events /\ dedupe'[worker'[d].event] = "flight"
  BY <1>1 DEF IInv, OwnInv, Busy
<1>5. \A d \in Connections :
        Busy(d)' => (IsEdit(worker'[d].event) <=> Runs(d, {"policy", "notify"})')
  BY <1>1 DEF IInv, OwnInv, Busy, Runs
<1>6. \A d, b \in Connections :
        Busy(d)' /\ Busy(b)' /\ worker'[d].event = worker'[b].event => d = b
  BY <1>1 DEF IInv, OwnInv, Busy
<1>7. \A f \in Events : Event[f].client \in departed' => dedupe'[f] # "flight"
  BY DEF IInv, OwnInv
<1> QED BY <1>4, <1>5, <1>6, <1>7 DEF OwnInv, IsEdit

\* It is done with its event.
LEMMA OwnSettled ==
  ASSUME IInv, NEW c \in Connections, Busy(c),
         NEW o \in {"unknown", "accepted", "rejected"}, Settle(worker[c].event, o), Rest(c),
         departed' = departed
  PROVE  /\ OwnInv'
         /\ dedupe' \in [Events -> {"unknown", "flight", "accepted", "rejected"}]
         /\ worker[c].event \in Events /\ dedupe'[worker[c].event] = o
         /\ \A f \in Events : f # worker[c].event => dedupe'[f] = dedupe[f]
         /\ \A d \in Connections : Busy(d)' =>
               worker'[d] = worker[d] /\ Busy(d) /\ worker[d].event # worker[c].event
         /\ worker' \in [Connections -> [pc : {"idle", "policy", "notify", "handlers", "handled"},
                                 event : Events \cup {"none"}, generation : Nat]]
<1> DEFINE e == worker[c].event
<1>1. /\ worker'[c].pc = "idle"
      /\ \A d \in Connections : d # c => worker'[d] = worker[d]
  BY DEF Rest, Idle, IInv, TypeInv
<1>2. e \in Events
  BY DEF IInv, OwnInv
<1>3. dedupe'[e] = o /\ \A f \in Events : f # e => dedupe'[f] = dedupe[f]
  BY <1>2 DEF Settle, IInv, TypeInv
<1>4. \A d \in Connections : Busy(d)' => worker'[d] = worker[d] /\ Busy(d) /\ worker[d].event # e
  BY <1>1 DEF Busy, IInv, OwnInv
<1>5. \A d \in Connections :
        Busy(d)' => worker'[d].event \in Events /\ dedupe'[worker'[d].event] = "flight"
  BY <1>3, <1>4 DEF IInv, OwnInv
<1>6. \A d \in Connections :
        Busy(d)' => (IsEdit(worker'[d].event) <=> Runs(d, {"policy", "notify"})')
  BY <1>4 DEF IInv, OwnInv, Runs
<1>7. \A d, b \in Connections :
        Busy(d)' /\ Busy(b)' /\ worker'[d].event = worker'[b].event => d = b
  BY <1>4 DEF IInv, OwnInv
<1>8. \A f \in Events : Event[f].client \in departed' => dedupe'[f] # "flight"
  BY <1>3 DEF IInv, OwnInv
<1>9. OwnInv'
  BY <1>5, <1>6, <1>7, <1>8 DEF OwnInv, IsEdit
<1>10. dedupe' \in [Events -> {"unknown", "flight", "accepted", "rejected"}]
  BY DEF Settle, IInv, TypeInv
<1>11. worker' \in [Connections -> [pc : {"idle", "policy", "notify", "handlers", "handled"},
                                 event : Events \cup {"none"}, generation : Nat]]
  BY DEF Rest, Idle, IInv, TypeInv
<1> QED BY <1>2, <1>3, <1>4, <1>9, <1>10, <1>11

\* One more commit counts for its own event.
LEMMA AppendTimes ==
  ASSUME NEW s \in Seq(Events), NEW e \in Events, NEW f \in Events
  PROVE  /\ Cardinality({i \in 1..Len(s) : s[i] = f}) \in Nat
         /\ Cardinality({i \in 1..Len(Append(s, e)) : Append(s, e)[i] = f})
              = Cardinality({i \in 1..Len(s) : s[i] = f}) + (IF e = f THEN 1 ELSE 0)
<1> DEFINE A == {i \in 1..Len(s) : s[i] = f}
           B == {i \in 1..Len(Append(s, e)) : Append(s, e)[i] = f}
           n == Len(s) + 1
<1>1. Len(s) \in Nat
  OBVIOUS
<1>2. IsFiniteSet(A)
  <2>1. IsFiniteSet(1..Len(s)) /\ A \subseteq 1..Len(s)
    BY <1>1, FS_Interval
  <2> QED BY <2>1, FS_Subset
<1>3. n \notin A /\ B = IF e = f THEN A \cup {n} ELSE A
  BY <1>1
<1>4. Cardinality(A) \in Nat
  BY <1>2, FS_CardinalityType
<1> HIDE DEF A, B, n
<1>5. Cardinality(A \cup {n}) = Cardinality(A) + 1
  BY <1>2, <1>3, FS_AddElement
<1>6. Cardinality(B) = Cardinality(A) + (IF e = f THEN 1 ELSE 0)
  BY <1>3, <1>4, <1>5
<1> QED BY <1>4, <1>6 DEF A, B

\* Nothing is published: what was committed stays as it is.
LEMMA SameCommits ==
  ASSUME IInv, commits' = commits
  PROVE  /\ \A e : Committed(e)' <=> Committed(e)
         /\ \A e : Times(e)' = Times(e)
         /\ NewerTextWins'
  <1>1. \A e : Committed(e)' <=> Committed(e)
    BY DEF Committed
  <1>2. \A e : Times(e)' = Times(e)
    BY DEF Times
  <1>3. NewerTextWins'
    BY DEF IInv, CommitInv, NewerTextWins, IsEdit, Key
  <1> QED BY <1>1, <1>2, <1>3

-----------------------------------------------------------------------------
(***************************************************************************)
(* The actions.                                                            *)
(***************************************************************************)

\* An event refused at admission is settled without a worker.
LEMMA StepReject ==
  ASSUME IInv, NEW c \in Connections, NEW e \in Events, RejectAtAdmission(c, e)
  PROVE  IInv'
<1>1. /\ UNCHANGED <<editor, notifying, departed, worker, commits, panics, canceled, spent>>
      /\ tracker' = reclaim_departed_clients(tracker) \/ tracker' = tracker
      /\ dedupe' = [dedupe EXCEPT ![e] = "rejected"] /\ dedupe[e] = "unknown"
  BY DEF RejectAtAdmission, Settle, Fresh
<1>2. dedupe'[e] = "rejected" /\ \A f \in Events : f # e => dedupe'[f] = dedupe[f]
  BY <1>1 DEF IInv, TypeInv
<1>3. tracker' \in [DOMAIN tracker' -> Stream] /\ StreamOK(tracker') /\ Covered(tracker')
  BY <1>1, ReclaimOK DEF IInv, TypeInv
<1>4. TypeInv'
  BY <1>1, <1>3 DEF IInv, TypeInv
<1>5. OwnInv'
  BY <1>1, <1>2 DEF IInv, OwnInv, Busy, Runs, IsEdit
<1>6. StreamOK(tracker)' /\ Covered(tracker)'
  BY <1>1, <1>3 DEF StreamOK, Covered, Runs, Committed, IsEdit
<1>7. CommitInv'
  <2>1. \A f \in Events : IsEdit(f) /\ Committed(f) => dedupe'[f] \in {"flight", "accepted"}
    BY <1>1, <1>2 DEF IInv, CommitInv
  <2>2. \A f \in canceled : f \in Events /\ IsEdit(f) /\ dedupe'[f] = "rejected"
    BY <1>2 DEF IInv, CommitInv
  <2>3. \A d \in Connections : Runs(d, {"policy"}) => ~Committed(worker[d].event)
    BY DEF IInv, CommitInv
  <2> QED BY <1>1, <2>1, <2>2, <2>3, SameCommits DEF CommitInv, Runs, IsEdit
<1>8. CountInv'
  BY <1>1, <1>2, SameCommits DEF IInv, CountInv, Runs, IsEdit
<1> QED BY <1>4, <1>5, <1>6, <1>7, <1>8 DEF IInv

\* The new reservation is above all its stream has seen, and the only one of
\* the new generation.
LEMMA StepAdmitEdit ==
  ASSUME IInv, NEW c \in Connections, NEW e \in Events, AdmitEdit(c, e)
  PROVE  IInv'
<1> DEFINE t == reclaim_departed_clients(tracker)
           k == Key(e)
           x == Event[e].edit
           g == tracker'[k].generation
<1>1. /\ UNCHANGED <<editor, notifying, departed, commits, panics, canceled, spent>>
      /\ Fresh(c, e) /\ IsEdit(e) /\ Interactive(e) /\ ~ReserveRefused(t, e)
      /\ tracker' = reserve(t, e) /\ Run(c, "policy", e, generation_of(tracker', e))
      /\ Settle(e, "flight")
  BY DEF AdmitEdit
<1>2. x \in Nat /\ x > 0 /\ editor[Event[e].node] # "gone" /\ Event[e].client \notin departed
  BY <1>1, EventAssumption
     DEF IsEdit, Interactive, validate_text_edit, validate_node_interactive, Fresh
<1>3. t \in [DOMAIN t -> Stream] /\ StreamOK(t) /\ Covered(t)
  BY ReclaimOK
<1> HIDE DEF t
<1>4. /\ DOMAIN tracker' = DOMAIN t \cup {k} /\ \A y \in DOMAIN t : y # k => tracker'[y] = t[y]
      /\ tracker' = [y \in DOMAIN t \cup {k} |-> tracker'[y]]
  BY <1>1 DEF reserve, With
<1>5. /\ tracker'[k] \in Stream /\ Bounded(tracker'[k]) /\ Holds(tracker'[k], g, x)
      /\ k \in DOMAIN t => /\ \A y \in t[k].flight : y < x
                           /\ tracker'[k].last = t[k].last
                           /\ tracker'[k].flight = t[k].flight \cup {x}
                           /\ tracker'[k].generation = t[k].generation + 1
      /\ k \notin DOMAIN t => tracker'[k].last = 0
  <2>1. CASE k \in DOMAIN t
    <3> DEFINE s == t[k]
    <3>1. s \in Stream /\ Bounded(s)
      BY <1>3, <2>1 DEF StreamOK
    <3>2. x > Watermark(s)
      <4>1. ~(x <= Watermark(s))
        BY <1>1, <2>1 DEF ReserveRefused
      <4>2. Watermark(s) \in {s.last} \cup s.flight
        <5>1. \E m \in {s.last} \cup s.flight : \A y \in {s.last} \cup s.flight : y <= m
          BY <3>1 DEF Bounded
        <5> QED BY <5>1 DEF Watermark
      <4>3. Watermark(s) \in Nat
        BY <3>1, <4>2 DEF Stream
      <4> QED BY <1>2, <4>1, <4>3
    <3>3. s.last < x /\ \A y \in s.flight : y < x
      <4>1. \A y \in {s.last} \cup s.flight : y <= Watermark(s) /\ y \in Nat
        BY <3>1, WatermarkTop DEF Stream
      <4>2. Watermark(s) \in Nat
        <5>1. \E m \in {s.last} \cup s.flight : \A y \in {s.last} \cup s.flight : y <= m
          BY <3>1 DEF Bounded
        <5>2. Watermark(s) \in {s.last} \cup s.flight
          BY <5>1 DEF Watermark
        <5> QED BY <4>1, <5>2
      <4> QED BY <1>2, <3>2, <4>1, <4>2
    <3>4. tracker'[k] = [s EXCEPT !.flight = @ \cup {x}, !.generation = @ + 1]
      BY <1>1, <2>1 DEF reserve, With
    <3>5. s.generation + 1 \in Nat /\ s.flight \cup {x} \in SUBSET Nat
      BY <1>2, <3>1 DEF Stream
    <3>6. /\ tracker'[k] \in Stream /\ tracker'[k].last = s.last
          /\ tracker'[k].flight = s.flight \cup {x} /\ tracker'[k].generation = s.generation + 1
      BY <3>1, <3>4, <3>5 DEF Stream
    <3> HIDE DEF s
    <3>7. Bounded(tracker'[k])
      BY <1>2, <3>1, <3>6, ReserveBounded
    <3>8. Holds(tracker'[k], g, x)
      <4>1. \A y \in s.flight : y \in Nat
        BY <3>1 DEF Stream
      <4>2. \A y \in s.flight \cup {x} : y <= x
        BY <1>2, <3>3, <4>1
      <4> QED BY <3>3, <3>5, <3>6, <4>2 DEF Holds
    <3> QED BY <2>1, <3>3, <3>6, <3>7, <3>8 DEF s
  <2>2. CASE k \notin DOMAIN t
    <3>1. tracker'[k] = [last |-> 0, flight |-> {x}, generation |-> 1]
      BY <1>1, <2>2 DEF reserve, With
    <3>2. /\ tracker'[k] \in Stream /\ tracker'[k].last = 0 /\ tracker'[k].flight = {x}
          /\ tracker'[k].generation = 1
      BY <1>2, <3>1 DEF Stream
    <3>3. Bounded(tracker'[k])
      BY <1>2, <3>2, NewBounded
    <3>4. Holds(tracker'[k], g, x)
      BY <1>2, <3>2 DEF Holds
    <3> QED BY <2>2, <3>2, <3>3, <3>4
  <2> QED BY <2>1, <2>2
<1>6. tracker' \in [DOMAIN tracker' -> Stream]
  BY <1>3, <1>4, <1>5
<1>7. g \in Nat /\ generation_of(tracker', e) = g
  BY <1>4, <1>5 DEF Stream, generation_of
<1>8. /\ worker'[c] = [pc |-> "policy", event |-> e, generation |-> g]
      /\ \A d \in Connections : d # c => worker'[d] = worker[d]
      /\ worker' \in [Connections -> [pc : {"idle", "policy", "notify", "handlers", "handled"},
                                 event : Events \cup {"none"}, generation : Nat]]
  BY <1>1, <1>7 DEF Run, IInv, TypeInv
<1>9. /\ dedupe'[e] = "flight" /\ dedupe[e] = "unknown"
      /\ \A f \in Events : f # e => dedupe'[f] = dedupe[f]
      /\ dedupe' \in [Events -> {"unknown", "flight", "accepted", "rejected"}]
  BY <1>1 DEF Settle, Fresh, IInv, TypeInv
<1>10. TypeInv'
  BY <1>1, <1>6, <1>8, <1>9 DEF IInv, TypeInv
<1> HIDE DEF g
<1>11. OwnInv'
  BY <1>1, <1>7, OwnAdmitted
<1>12. ~Committed(e)
  BY <1>1, <1>9 DEF IInv, CommitInv
<1>13. \A d \in Connections : Runs(d, {"policy"})' /\ d # c =>
         /\ Runs(d, {"policy"}) /\ worker[d].event \in Events /\ worker[d].generation \in Nat
  BY <1>8 DEF Runs, IInv, OwnInv, TypeInv, Busy
\* A running edit of this stream belongs to a stream that is there.
<1>14. \A d \in Connections : Runs(d, {"policy"}) /\ Key(worker[d].event) = k => k \in DOMAIN t
  BY <1>2, <1>3 DEF StreamOK, Key
<1>15. ASSUME NEW d \in Connections, d # c, Runs(d, {"policy"})'
       PROVE  IF Key(worker[d].event) \in DOMAIN tracker'
              THEN Holds(tracker'[Key(worker[d].event)], worker[d].generation,
                         Event[worker[d].event].edit)
              ELSE editor[Event[worker[d].event].node] = "gone"
  <2> DEFINE f == worker[d].event
  <2>1. Runs(d, {"policy"}) /\ f \in Events /\ worker[d].generation \in Nat
    BY <1>13, <1>15
  <2>2. CASE Key(f) # k
    BY <1>3, <1>4, <2>1, <2>2 DEF StreamOK
  <2>3. CASE Key(f) = k
    <3>1. k \in DOMAIN t
      BY <1>14, <2>1, <2>3
    <3>2. Holds(t[k], worker[d].generation, Event[f].edit)
      BY <1>3, <2>1, <2>3, <3>1 DEF StreamOK
    <3>3. t[k].generation \in Nat
      BY <1>3, <3>1 DEF Stream
    <3>4. worker[d].generation < tracker'[k].generation /\ Event[f].edit \in tracker'[k].flight
      BY <1>5, <2>1, <3>1, <3>2, <3>3 DEF Holds
    <3>5. tracker'[k].generation \in Nat
      BY <1>5 DEF Stream
    <3>6. Holds(tracker'[k], worker[d].generation, Event[f].edit)
      BY <2>1, <3>4, <3>5 DEF Holds
    <3> QED BY <1>4, <2>3, <3>6
  <2> QED BY <2>2, <2>3
<1>16. StreamOK(tracker)'
  <2>1. \A y \in DOMAIN tracker' : Bounded(tracker'[y])
    BY <1>3, <1>4, <1>5 DEF StreamOK
  <2>2. \A d \in Connections : Runs(d, {"policy"})' =>
          IF Key(worker'[d].event) \in DOMAIN tracker'
          THEN Holds(tracker'[Key(worker'[d].event)], worker'[d].generation,
                     Event[worker'[d].event].edit)
          ELSE editor'[Event[worker'[d].event].node] = "gone"
    <3> SUFFICES ASSUME NEW d \in Connections, Runs(d, {"policy"})'
                 PROVE  IF Key(worker'[d].event) \in DOMAIN tracker'
                        THEN Holds(tracker'[Key(worker'[d].event)], worker'[d].generation,
                                   Event[worker'[d].event].edit)
                        ELSE editor'[Event[worker'[d].event].node] = "gone"
      OBVIOUS
    <3>1. CASE d = c
      BY <1>4, <1>5, <1>8, <3>1
    <3>2. CASE d # c
      BY <1>1, <1>8, <1>15, <3>2
    <3> QED BY <3>1, <3>2
  <2>3. ASSUME NEW d \in Connections, d # c, Runs(d, {"policy"})', Key(worker[d].event) = k
        PROVE  Event[worker[d].event].edit # x
    <3>1. Runs(d, {"policy"}) /\ k \in DOMAIN t
      BY <1>13, <1>14, <2>3
    <3>2. Event[worker[d].event].edit \in t[k].flight
      BY <1>3, <2>3, <3>1 DEF StreamOK, Holds
    <3>3. Event[worker[d].event].edit < x
      BY <1>5, <3>1, <3>2
    <3> QED BY <1>2, <3>3
  <2>4. ASSUME NEW d \in Connections, NEW b \in Connections, d # c, b # c,
               Runs(d, {"policy"})', Runs(b, {"policy"})',
               Key(worker[d].event) = Key(worker[b].event), Key(worker[d].event) \in DOMAIN tracker',
               Event[worker[d].event].edit = Event[worker[b].event].edit
        PROVE  d = b
    <3>1. Key(worker[d].event) \in DOMAIN t /\ Runs(d, {"policy"}) /\ Runs(b, {"policy"})
      BY <1>4, <1>13, <1>14, <2>4
    <3> QED BY <1>3, <2>4, <3>1 DEF StreamOK
  <2>5. ASSUME NEW d \in Connections, NEW b \in Connections,
               Runs(d, {"policy"})', Runs(b, {"policy"})',
               Key(worker'[d].event) = Key(worker'[b].event), Key(worker'[d].event) \in DOMAIN tracker',
               Event[worker'[d].event].edit = Event[worker'[b].event].edit
        PROVE  d = b
    BY <1>8, <2>3, <2>4, <2>5
  <2> QED BY <2>1, <2>2, <2>5 DEF StreamOK
<1>17. Covered(tracker)'
  <2> SUFFICES ASSUME NEW f \in Events, IsEdit(f), Committed(f)
               PROVE  IF Key(f) \in DOMAIN tracker' THEN Event[f].edit <= tracker'[Key(f)].last
                      ELSE Event[f].client \in departed \/ editor[Event[f].node] = "gone"
    BY <1>1, SameCommits DEF Covered, IsEdit
  <2>1. CASE Key(f) # k
    BY <1>3, <1>4, <2>1 DEF Covered
  <2>2. CASE Key(f) = k
    <3>1. Event[f].client = Event[e].client /\ Event[f].node = Event[e].node
      BY <2>2 DEF Key
    <3>2. k \in DOMAIN t /\ Event[f].edit <= t[k].last
      BY <1>2, <1>3, <2>2, <3>1 DEF Covered
    <3> QED BY <1>4, <1>5, <2>2, <3>2
  <2> QED BY <2>1, <2>2
<1>18. CommitInv'
  <2>1. \A f \in Events : IsEdit(f) /\ Committed(f) => dedupe'[f] \in {"flight", "accepted"}
    BY <1>9 DEF IInv, CommitInv
  <2>2. \A f \in canceled : f \in Events /\ IsEdit(f) /\ dedupe'[f] = "rejected"
    BY <1>9 DEF IInv, CommitInv
  <2>3. \A d \in Connections : Runs(d, {"policy"})' => ~Committed(worker'[d].event)
    BY <1>8, <1>12, <1>13 DEF IInv, CommitInv
  <2> QED BY <1>1, <2>1, <2>2, <2>3, SameCommits DEF CommitInv, IsEdit
<1>19. CountInv'
  <2>1. \A d \in Connections : Runs(d, {"handlers"})' => d # c /\ worker'[d] = worker[d]
    BY <1>8 DEF Runs
  <2> QED BY <1>1, <1>9, <2>1, SameCommits DEF IInv, CountInv, Runs, IsEdit
<1> QED BY <1>10, <1>11, <1>16, <1>17, <1>18, <1>19 DEF IInv

\* An event that is not an edit goes to the handlers at once.
LEMMA StepAdmitEvent ==
  ASSUME IInv, NEW c \in Connections, NEW e \in Events, AdmitEvent(c, e)
  PROVE  IInv'
<1>1. /\ UNCHANGED <<editor, tracker, notifying, departed, commits, panics, canceled, spent>>
      /\ Fresh(c, e) /\ ~IsEdit(e) /\ Run(c, "handlers", e, 0) /\ Settle(e, "flight")
  BY DEF AdmitEvent
<1>2. /\ worker'[c] = [pc |-> "handlers", event |-> e, generation |-> 0]
      /\ \A d \in Connections : d # c => worker'[d] = worker[d]
      /\ worker' \in [Connections -> [pc : {"idle", "policy", "notify", "handlers", "handled"},
                                 event : Events \cup {"none"}, generation : Nat]]
  BY <1>1 DEF Run, IInv, TypeInv
<1>3. /\ dedupe'[e] = "flight" /\ dedupe[e] = "unknown"
      /\ \A f \in Events : f # e => dedupe'[f] = dedupe[f]
      /\ dedupe' \in [Events -> {"unknown", "flight", "accepted", "rejected"}]
  BY <1>1 DEF Settle, Fresh, IInv, TypeInv
<1>4. TypeInv'
  BY <1>1, <1>2, <1>3 DEF IInv, TypeInv
<1>5. OwnInv'
  BY <1>1, OwnAdmitted
<1>6. \A d \in Connections : Runs(d, {"policy"})' => Runs(d, {"policy"}) /\ worker'[d] = worker[d]
  BY <1>2 DEF Runs
<1>7. StreamOK(tracker)' /\ Covered(tracker)'
  BY <1>1, <1>6, SameCommits DEF IInv, StreamOK, Covered, IsEdit
<1>8. CommitInv'
  BY <1>1, <1>3, <1>6, SameCommits DEF IInv, CommitInv, IsEdit
<1>9. CountInv'
  <2>1. Times(e) <= panics[e]
    BY <1>1, <1>3 DEF IInv, CountInv
  <2>2. \A d \in Connections : Runs(d, {"handlers"})' =>
          \/ d = c /\ worker'[d].event = e
          \/ d # c /\ Runs(d, {"handlers"}) /\ worker'[d] = worker[d]
    BY <1>2 DEF Runs
  <2> QED BY <1>1, <1>3, <2>1, <2>2, SameCommits DEF IInv, CountInv, IsEdit
<1> QED BY <1>4, <1>5, <1>7, <1>8, <1>9 DEF IInv

\* The policy ends without publishing.
LEMMA StepPolicyEnds ==
  ASSUME IInv, NEW c \in Connections, Runs(c, {"policy"}),
         NEW o \in {"unknown", "rejected"}, Settle(worker[c].event, o), Rest(c),
         Ended(worker[c].event), panics' \in [Events -> Nat],
         \A f \in Events : panics[f] <= panics'[f],
         UNCHANGED <<editor, departed, commits, canceled>>
  PROVE  IInv'
<1> DEFINE e == worker[c].event
<1>1. Busy(c) /\ IsEdit(e) /\ e \in Events /\ dedupe[e] = "flight"
  BY DEF Runs, Busy, IInv, OwnInv
<1>2. /\ OwnInv'
      /\ dedupe' \in [Events -> {"unknown", "flight", "accepted", "rejected"}]
      /\ dedupe'[e] = o /\ \A f \in Events : f # e => dedupe'[f] = dedupe[f]
      /\ \A d \in Connections : Busy(d)' =>
            worker'[d] = worker[d] /\ Busy(d) /\ worker[d].event # e
      /\ worker' \in [Connections -> [pc : {"idle", "policy", "notify", "handlers", "handled"},
                                 event : Events \cup {"none"}, generation : Nat]]
  BY <1>1, OwnSettled
<1>3. TypeInv'
  BY <1>2 DEF IInv, TypeInv, Ended
<1>4. StreamOK(tracker)' /\ Covered(tracker)'
  <2>1. Idle.pc # "policy" /\ worker' = [worker EXCEPT ![c] = Idle]
    BY DEF Idle, Rest
  <2>2. StreamOK(tracker)'
    BY <2>1, EndedStreams
  <2>3. Covered(tracker)'
    BY <1>1, EndedCovers, SameCommits DEF Covered, IsEdit
  <2> QED BY <2>2, <2>3
<1>5. \A d \in Connections : ~Runs(d, {"idle"})' => Busy(d)'
  BY DEF Runs, Busy
<1>6. \A d \in Connections : Runs(d, {"policy"})' => Runs(d, {"policy"}) /\ worker'[d] = worker[d]
  BY <1>2 DEF Runs, Busy
<1>7. CommitInv'
  <2>1. ~Committed(e)
    BY DEF IInv, CommitInv
  <2>2. \A f \in Events : IsEdit(f) /\ Committed(f) => dedupe'[f] \in {"flight", "accepted"}
    BY <1>2, <2>1 DEF IInv, CommitInv
  <2>3. \A f \in canceled : f \in Events /\ IsEdit(f) /\ dedupe'[f] = "rejected"
    BY <1>1, <1>2 DEF IInv, CommitInv
  <2>4. \A d \in Connections : Runs(d, {"policy"})' => ~Committed(worker'[d].event)
    BY <1>6 DEF IInv, CommitInv
  <2> QED BY <2>2, <2>3, <2>4, SameCommits DEF CommitInv, IsEdit
<1>8. CountInv'
  <2>1. \A d \in Connections : Runs(d, {"handlers"})' => Runs(d, {"handlers"}) /\ worker'[d] = worker[d]
    BY <1>2 DEF Runs, Busy
  <2> SUFFICES ASSUME NEW f \in Events
               PROVE  /\ Times(f) <= panics'[f] + 1 \/ IsEdit(f)
                      /\ dedupe'[f] = "unknown" => Times(f) <= panics'[f] \/ IsEdit(f)
                      /\ \A d \in Connections :
                           Runs(d, {"handlers"})' /\ worker'[d].event = f => Times(f) <= panics'[f]
    BY SameCommits DEF CountInv, IsEdit
  <2>2. Times(f) \in Nat /\ panics[f] \in Nat /\ panics'[f] \in Nat /\ panics[f] <= panics'[f]
    BY AppendTimes DEF Times, IInv, TypeInv
  <2>3. f # e => dedupe'[f] = dedupe[f]
    BY <1>2
  <2> QED BY <1>1, <2>1, <2>2, <2>3 DEF IInv, CountInv
<1> QED BY <1>2, <1>3, <1>4, <1>7, <1>8 DEF IInv

\* A superseded, too long or rejected edit is settled and its reservation ended.
LEMMA StepRefused ==
  ASSUME IInv, NEW c \in Connections,
         EditSuperseded(c) \/ CorrectionTooLong(c) \/ EditRejected(c)
  PROVE  IInv'
<1>1. /\ Runs(c, {"policy"}) /\ tracker' = mark_terminal(tracker, worker[c].event)
      /\ Settle(worker[c].event, "rejected") /\ Rest(c)
      /\ UNCHANGED <<editor, departed, commits, panics, canceled>>
  BY DEF EditSuperseded, CorrectionTooLong, EditRejected, DecisionRefused, Runs
<1>2. worker[c].event \in Events
  BY <1>1 DEF Runs, Busy, IInv, OwnInv
<1>3. Ended(worker[c].event)
  BY <1>1, <1>2, MarkEnds
<1>4. panics' \in [Events -> Nat] /\ \A f \in Events : panics[f] <= panics'[f]
  BY <1>1 DEF IInv, TypeInv
<1> QED BY <1>1, <1>3, <1>4, StepPolicyEnds

\* A panic is counted for its event.
LEMMA PanicCounts ==
  ASSUME IInv, NEW e \in Events, Panic(e)
  PROVE  /\ panics' \in [Events -> Nat] /\ \A f \in Events : panics[f] <= panics'[f]
         /\ panics'[e] = panics[e] + 1
<1>1. panics \in [Events -> Nat] /\ panics' = [panics EXCEPT ![e] = panics[e] + 1]
  BY DEF IInv, TypeInv, Panic
<1>2. panics[e] + 1 \in Nat
  BY <1>1
<1> QED BY <1>1, <1>2

\* A panic of the policy gives the reservation and the event back.
LEMMA StepPolicyPanics ==
  ASSUME IInv, NEW c \in Connections, PolicyPanics(c)
  PROVE  IInv'
<1>1. /\ Runs(c, {"policy"}) /\ tracker' = abandon_reservation(tracker, worker[c].event)
      /\ Settle(worker[c].event, "unknown") /\ Rest(c) /\ Panic(worker[c].event)
      /\ UNCHANGED <<editor, departed, commits, canceled>>
  BY DEF PolicyPanics, Runs
<1>2. worker[c].event \in Events
  BY <1>1 DEF Runs, Busy, IInv, OwnInv
<1>3. Ended(worker[c].event)
  BY <1>1, <1>2, AbandonEnds
<1>4. panics' \in [Events -> Nat] /\ \A f \in Events : panics[f] <= panics'[f]
  BY <1>1, <1>2, PanicCounts
<1> QED BY <1>1, <1>3, <1>4, StepPolicyEnds

\* The published edit is above every published edit of its stream, because its
\* generation is current and its editor, hence its stream, is still there.
LEMMA StepAccepted ==
  ASSUME IInv, NEW c \in Connections, EditAccepted(c)
  PROVE  IInv'
<1> DEFINE e == worker[c].event
           k == Key(e)
           x == Event[e].edit
           w == [pc |-> "notify", event |-> e, generation |-> 0]
           n == Len(commits)
<1>1. /\ Runs(c, {"policy"}) /\ tracker' = mark_terminal(tracker, e) /\ MayCommit(c)
      /\ commits' = Append(commits, e) /\ Run(c, "notify", e, 0)
      /\ UNCHANGED <<editor, dedupe, departed, panics, canceled, spent>>
  BY DEF EditAccepted, Runs
<1>2. Busy(c) /\ IsEdit(e) /\ e \in Events /\ dedupe[e] = "flight" /\ x \in Nat
  BY <1>1, EventAssumption DEF Runs, Busy, IInv, OwnInv
<1>3. /\ worker' = [worker EXCEPT ![c] = w] /\ worker'[c] = w
      /\ \A d \in Connections : d # c => worker'[d] = worker[d]
      /\ worker' \in [Connections -> [pc : {"idle", "policy", "notify", "handlers", "handled"},
                                 event : Events \cup {"none"}, generation : Nat]]
  BY <1>1, <1>2 DEF Run, IInv, TypeInv
<1>4. Ended(e) /\ (k \in DOMAIN tracker => x <= tracker'[k].last)
  BY <1>1, <1>2, MarkEnds
<1>5. k \in DOMAIN tracker /\ tracker[k].last < x /\ tracker[k].last \in Nat
  <2>1. editor[Event[e].node] = "open" /\ worker[c].generation = generation_of(tracker, e)
    BY <1>1 DEF MayCommit, GenerationCurrent
  <2>2. k \in DOMAIN tracker /\ Holds(tracker[k], worker[c].generation, x)
    BY <1>1, <2>1 DEF IInv, StreamOK
  <2>3. tracker[k].last \in Nat
    BY <2>2 DEF IInv, TypeInv, Stream
  <2> QED BY <2>1, <2>2, <2>3 DEF Holds, generation_of
<1>6. ~Committed(e)
  BY <1>1 DEF IInv, CommitInv
<1>7. /\ commits \in Seq(Events) /\ commits' \in Seq(Events) /\ n \in Nat /\ Len(commits') = n + 1
      /\ commits'[n + 1] = e /\ \A i \in 1..n : commits'[i] = commits[i] /\ commits[i] \in Events
  BY <1>1, <1>2 DEF IInv, TypeInv
<1>8. \A f : Committed(f)' <=> Committed(f) \/ f = e
  BY <1>7 DEF Committed
<1>9. TypeInv'
  BY <1>1, <1>3, <1>4, <1>7 DEF IInv, TypeInv, Ended
<1>10. OwnInv'
  BY <1>1, <1>2, OwnAdvanced
\* Only the commits change, so the streams are those of an edit that ended.
<1>11. StreamOK(tracker)'
  <2>1. \A d \in Connections : Runs(d, {"policy"})' => d # c /\ Runs(d, {"policy"}) /\ worker'[d] = worker[d]
    BY <1>3 DEF Runs
  <2> QED BY <1>1, <1>3, <1>4, EndedStreams
<1>12. Covered(tracker)'
  <2> SUFFICES ASSUME NEW f \in Events, IsEdit(f), Committed(f) \/ f = e
               PROVE  IF Key(f) \in DOMAIN tracker' THEN Event[f].edit <= tracker'[Key(f)].last
                      ELSE Event[f].client \in departed \/ editor[Event[f].node] = "gone"
    BY <1>1, <1>8 DEF Covered, IsEdit
  <2>1. CASE f = e
    BY <1>4, <1>5, <2>1 DEF Ended
  <2>2. CASE Committed(f)
    BY <1>2, <1>4, <2>2, EndedCovers
  <2> QED BY <2>1, <2>2
<1>13. CommitInv'
  <2>1. \A f \in Events : IsEdit(f) /\ Committed(f)' => dedupe'[f] \in {"flight", "accepted"}
    BY <1>1, <1>2, <1>8 DEF IInv, CommitInv
  <2>2. \A d \in Connections : Runs(d, {"policy"})' => ~(Committed(worker[d].event)')
    <3> SUFFICES ASSUME NEW d \in Connections, Runs(d, {"policy"})'
                 PROVE  ~(Committed(worker[d].event)')
      OBVIOUS
    <3>1. d # c /\ Runs(d, {"policy"}) /\ worker'[d] = worker[d]
      BY <1>3 DEF Runs
    <3>2. worker[d].event # e /\ ~Committed(worker[d].event)
      BY <1>2, <3>1 DEF IInv, OwnInv, CommitInv, Runs, Busy
    <3> QED BY <1>7, <3>1, <3>2 DEF Committed
  <2>3. \A f \in canceled' : f \in Events /\ IsEdit(f) /\ dedupe'[f] = "rejected"
    BY <1>1 DEF IInv, CommitInv
  <2>4. NewerTextWins'
    <3> SUFFICES ASSUME NEW i \in 1..(n + 1), NEW j \in 1..(n + 1), i < j,
                        IsEdit(commits'[i]), Key(commits'[i]) = Key(commits'[j]), IsEdit(commits'[j])
                 PROVE  Event[commits'[i]].edit < Event[commits'[j]].edit
      BY <1>7 DEF NewerTextWins, IsEdit, Key
    <3>1. i \in 1..n /\ commits'[i] = commits[i] /\ commits[i] \in Events
      BY <1>7
    <3>2. CASE j = n + 1
      <4>1. Committed(commits[i])
        BY <3>1 DEF Committed
      <4>2. Event[commits[i]].edit <= tracker[k].last
        BY <1>5, <1>7, <3>1, <3>2, <4>1 DEF IInv, Covered
      <4>3. Event[commits[i]].edit \in Nat
        BY <3>1, EventAssumption
      <4> QED BY <1>2, <1>5, <1>7, <3>1, <3>2, <4>2, <4>3
    <3>3. CASE j # n + 1
      <4>1. j \in 1..n /\ commits'[j] = commits[j]
        BY <1>7, <3>3
      <4> QED BY <3>1, <4>1 DEF IInv, CommitInv, NewerTextWins
    <3> QED BY <3>2, <3>3
  <2> QED BY <2>1, <2>2, <2>3, <2>4 DEF CommitInv, IsEdit
<1>14. CountInv'
  <2>1. \A f \in Events : f # e => Times(f)' = Times(f)
    <3> SUFFICES ASSUME NEW f \in Events, f # e PROVE Times(f)' = Times(f)
      OBVIOUS
    <3>1. Times(f) \in Nat /\ Times(f)' = Times(f) + 0
      BY <1>1, <1>2, <1>7, AppendTimes, SMTT(40) DEF Times
    <3> QED BY <3>1
  <2>2. \A d \in Connections : Runs(d, {"handlers"})' => d # c /\ Runs(d, {"handlers"}) /\ worker'[d] = worker[d]
    BY <1>3 DEF Runs
  <2>3. \A d \in Connections : Runs(d, {"handlers"}) => worker[d].event # e
    BY <1>2 DEF IInv, OwnInv, Runs, Busy
  <2> QED BY <1>1, <1>2, <2>1, <2>2, <2>3 DEF IInv, CountInv, IsEdit
<1> QED BY <1>9, <1>10, <1>11, <1>12, <1>13, <1>14 DEF IInv

\* A handler commits the effect of the event it runs for, once per run.
LEMMA StepHandlerCommits ==
  ASSUME IInv, NEW c \in Connections, HandlerCommits(c)
  PROVE  IInv'
<1> DEFINE e == worker[c].event
           n == Len(commits)
<1>1. /\ worker[c].pc = "handlers" /\ commits' = Append(commits, e) /\ Run(c, "handled", e, 0)
      /\ UNCHANGED <<editor, tracker, notifying, dedupe, departed, panics, canceled, spent>>
  BY DEF HandlerCommits
<1>2. Busy(c) /\ ~IsEdit(e) /\ e \in Events /\ dedupe[e] = "flight"
  BY <1>1 DEF Runs, Busy, IInv, OwnInv
<1>3. /\ worker'[c] = [pc |-> "handled", event |-> e, generation |-> 0]
      /\ \A d \in Connections : d # c => worker'[d] = worker[d]
      /\ worker' \in [Connections -> [pc : {"idle", "policy", "notify", "handlers", "handled"},
                                 event : Events \cup {"none"}, generation : Nat]]
  BY <1>1, <1>2 DEF Run, IInv, TypeInv
<1>4. /\ commits \in Seq(Events) /\ commits' \in Seq(Events) /\ n \in Nat /\ Len(commits') = n + 1
      /\ commits'[n + 1] = e /\ \A i \in 1..n : commits'[i] = commits[i] /\ commits[i] \in Events
  BY <1>1, <1>2 DEF IInv, TypeInv
<1>5. \A f \in Events : IsEdit(f) => (Committed(f)' <=> Committed(f))
  BY <1>2, <1>4 DEF Committed
<1>6. TypeInv'
  BY <1>1, <1>3, <1>4 DEF IInv, TypeInv
<1>7. OwnInv'
  BY <1>1, <1>2, OwnAdvanced
<1>8. \A d \in Connections : Runs(d, {"policy"})' =>
         d # c /\ Runs(d, {"policy"}) /\ worker'[d] = worker[d] /\ worker[d].event \in Events
         /\ IsEdit(worker[d].event)
  BY <1>3 DEF Runs, IInv, OwnInv, Busy
<1>9. StreamOK(tracker)' /\ Covered(tracker)'
  <2>1. StreamOK(tracker)'
    BY <1>1, <1>8 DEF IInv, StreamOK
  <2>2. Covered(tracker)'
    BY <1>1, <1>5 DEF IInv, Covered, IsEdit
  <2> QED BY <2>1, <2>2
<1>10. CommitInv'
  <2>1. \A f \in Events : IsEdit(f) /\ Committed(f)' => dedupe'[f] \in {"flight", "accepted"}
    BY <1>1, <1>5 DEF IInv, CommitInv
  <2>2. \A d \in Connections : Runs(d, {"policy"})' => ~(Committed(worker[d].event)')
    <3> SUFFICES ASSUME NEW d \in Connections, Runs(d, {"policy"})'
                 PROVE  ~(Committed(worker[d].event)')
      OBVIOUS
    <3>1. /\ d # c /\ Runs(d, {"policy"}) /\ worker'[d] = worker[d]
          /\ worker[d].event # e
      BY <1>2, <1>8
    <3>2. ~Committed(worker[d].event)
      BY <3>1 DEF IInv, CommitInv
    <3> QED BY <1>4, <3>1, <3>2 DEF Committed
  <2>3. \A f \in canceled' : f \in Events /\ IsEdit(f) /\ dedupe'[f] = "rejected"
    BY <1>1 DEF IInv, CommitInv
  <2>4. NewerTextWins'
    <3> SUFFICES ASSUME NEW i \in 1..(n + 1), NEW j \in 1..(n + 1), i < j,
                        IsEdit(commits'[i]), Key(commits'[i]) = Key(commits'[j]), IsEdit(commits'[j])
                 PROVE  Event[commits'[i]].edit < Event[commits'[j]].edit
      BY <1>4 DEF NewerTextWins, IsEdit, Key
    <3>1. i \in 1..n /\ j \in 1..n /\ commits'[i] = commits[i] /\ commits'[j] = commits[j]
      BY <1>2, <1>4
    <3> QED BY <3>1 DEF IInv, CommitInv, NewerTextWins
  <2> QED BY <2>1, <2>2, <2>3, <2>4 DEF CommitInv, IsEdit
<1>11. CountInv'
  <2>1. \A f \in Events : f # e => Times(f)' = Times(f)
    <3> SUFFICES ASSUME NEW f \in Events, f # e PROVE Times(f)' = Times(f)
      OBVIOUS
    <3>1. Times(f) \in Nat /\ Times(f)' = Times(f) + 0
      BY <1>1, <1>2, <1>4, AppendTimes DEF Times
    <3> QED BY <3>1
  <2>2. \A f \in Events : f = e => Times(f) \in Nat /\ Times(f)' = Times(f) + 1
    BY <1>1, <1>2, <1>4, AppendTimes, SMTT(40) DEF Times
  <2>3. Times(e) <= panics[e] /\ panics[e] \in Nat
    BY <1>1, <1>2 DEF IInv, CountInv, Runs, TypeInv
  <2>4. \A d \in Connections : Runs(d, {"handlers"})' =>
          d # c /\ Runs(d, {"handlers"}) /\ worker'[d] = worker[d] /\ worker[d].event # e
    BY <1>2, <1>3 DEF Runs, Busy, IInv, OwnInv
  <2>5. \A f \in Events : f = e => Times(f)' <= panics[f] + 1
    BY <2>2, <2>3
  <2> QED BY <1>1, <1>2, <2>1, <2>4, <2>5 DEF IInv, CountInv, IsEdit
<1> QED BY <1>6, <1>7, <1>9, <1>10, <1>11 DEF IInv

\* Handlers end: an ordinary event is settled, or given up and its panic counted;
\* a committed edit is accepted.
LEMMA StepHandlersEnd ==
  ASSUME IInv, NEW c \in Connections, HandlersReturn(c) \/ HandlersPanic(c) \/ HandlersNotified(c)
  PROVE  IInv'
<1> DEFINE e == worker[c].event
<1>1. /\ Runs(c, {"handlers", "handled", "notify"}) /\ Busy(c)
      /\ UNCHANGED <<editor, tracker, departed, commits, canceled, spent>> /\ Rest(c)
  BY DEF HandlersReturn, HandlersPanic, HandlersNotified, Runs, Busy
<1>2. e \in Events /\ dedupe[e] = "flight" /\ (IsEdit(e) <=> worker[c].pc = "notify")
  BY <1>1 DEF Runs, Busy, IInv, OwnInv
<1>3. PICK o \in {"unknown", "accepted", "rejected"} :
        /\ Settle(e, o)
        /\ IsEdit(e) => o = "accepted"
        /\ IF o = "unknown" THEN Panic(e) ELSE panics' = panics
  BY <1>2 DEF HandlersReturn, HandlersPanic, HandlersNotified, NotifiedOutcome
<1>4. /\ OwnInv'
      /\ dedupe' \in [Events -> {"unknown", "flight", "accepted", "rejected"}]
      /\ dedupe'[e] = o /\ \A f \in Events : f # e => dedupe'[f] = dedupe[f]
      /\ \A d \in Connections : Busy(d)' =>
            worker'[d] = worker[d] /\ Busy(d) /\ worker[d].event # e
      /\ worker' \in [Connections -> [pc : {"idle", "policy", "notify", "handlers", "handled"},
                                 event : Events \cup {"none"}, generation : Nat]]
  BY <1>1, <1>2, <1>3, OwnSettled
<1>5. /\ panics' \in [Events -> Nat] /\ \A f \in Events : panics[f] <= panics'[f]
      /\ o = "unknown" => panics'[e] = panics[e] + 1
  <2>1. CASE o = "unknown"
    BY <1>2, <1>3, <2>1, PanicCounts
  <2>2. CASE o # "unknown"
    BY <1>3, <2>2 DEF IInv, TypeInv
  <2> QED BY <2>1, <2>2
<1>6. TypeInv'
  BY <1>1, <1>4, <1>5 DEF IInv, TypeInv
<1>7. \A d \in Connections : Runs(d, {"policy"})' => Runs(d, {"policy"}) /\ worker'[d] = worker[d]
  BY <1>4 DEF Runs, Busy
<1>8. StreamOK(tracker)' /\ Covered(tracker)'
  BY <1>1, <1>7, SameCommits DEF IInv, StreamOK, Covered, IsEdit
<1>9. CommitInv'
  <2>1. \A f \in Events : IsEdit(f) /\ Committed(f) => dedupe'[f] \in {"flight", "accepted"}
    BY <1>3, <1>4 DEF IInv, CommitInv
  <2>2. \A f \in canceled : f \in Events /\ IsEdit(f) /\ dedupe'[f] = "rejected"
    BY <1>2, <1>4 DEF IInv, CommitInv
  <2>3. \A d \in Connections : Runs(d, {"policy"})' => ~Committed(worker'[d].event)
    BY <1>7 DEF IInv, CommitInv
  <2> QED BY <1>1, <2>1, <2>2, <2>3, SameCommits DEF CommitInv, IsEdit
<1>10. CountInv'
  <2>1. \A d \in Connections : Runs(d, {"handlers"})' => Runs(d, {"handlers"}) /\ worker'[d] = worker[d]
    BY <1>4 DEF Runs, Busy
  <2> SUFFICES ASSUME NEW f \in Events
               PROVE  /\ Times(f) <= panics'[f] + 1 \/ IsEdit(f)
                      /\ dedupe'[f] = "unknown" => Times(f) <= panics'[f] \/ IsEdit(f)
                      /\ \A d \in Connections :
                           Runs(d, {"handlers"})' /\ worker'[d].event = f => Times(f) <= panics'[f]
    BY <1>1, SameCommits DEF CountInv, IsEdit
  <2>2. Times(f) \in Nat /\ panics[f] \in Nat /\ panics'[f] \in Nat /\ panics[f] <= panics'[f]
    BY <1>5, AppendTimes DEF Times, IInv, TypeInv
  <2>3. Times(f) <= panics[f] + 1 \/ IsEdit(f)
    BY DEF IInv, CountInv
  <2>4. dedupe'[f] = "unknown" => Times(f) <= panics'[f] \/ IsEdit(f)
    <3>1. CASE f = e
      BY <1>4, <1>5, <2>2, <2>3, <3>1
    <3>2. CASE f # e
      BY <1>4, <2>2, <3>2 DEF IInv, CountInv
    <3> QED BY <3>1, <3>2
  <2>5. \A d \in Connections :
          Runs(d, {"handlers"})' /\ worker'[d].event = f => Times(f) <= panics'[f]
    BY <2>1, <2>2 DEF IInv, CountInv
  <2> QED BY <2>2, <2>3, <2>4, <2>5
<1> QED BY <1>4, <1>6, <1>8, <1>9, <1>10 DEF IInv

\* A deleted editor takes its streams with it and never comes back.
LEMMA StepEditor ==
  ASSUME IInv, NEW n \in Editors, EditorChanges(n)
  PROVE  IInv'
<1>1. /\ UNCHANGED <<notifying, dedupe, departed, worker, commits, panics, canceled>>
      /\ tracker' = reclaim_missing_nodes(tracker) /\ editor[n] # "gone"
  BY DEF EditorChanges
<1>2. PICK v \in {"open", "readonly", "disabled", "gone"} : editor' = [editor EXCEPT ![n] = v]
  BY DEF EditorChanges
<1>3. /\ editor' \in [Editors -> {"open", "readonly", "disabled", "gone"}]
      /\ \A m \in Editors : editor[m] = "gone" => editor'[m] = "gone"
  BY <1>1, <1>2 DEF IInv, TypeInv
<1>4. /\ DOMAIN tracker' \subseteq DOMAIN tracker
      /\ \A k \in DOMAIN tracker' : tracker'[k] = tracker[k]
      /\ \A k \in DOMAIN tracker \ DOMAIN tracker' : editor'[k[2]] = "gone"
      /\ tracker' \in [DOMAIN tracker' -> Stream]
  BY <1>1 DEF reclaim_missing_nodes, Without, IInv, TypeInv
<1>5. \A e \in Events : Key(e)[2] = Event[e].node /\ Event[e].node \in Editors
  BY EventAssumption DEF Key
<1>6. TypeInv'
  BY <1>1, <1>3, <1>4 DEF IInv, TypeInv
<1>7. OwnInv'
  BY <1>1 DEF IInv, OwnInv, Busy, Runs, IsEdit
<1>8. \A d \in Connections : /\ Runs(d, {"policy"})' <=> Runs(d, {"policy"})
                             /\ Runs(d, {"policy"}) => worker[d].event \in Events
  BY <1>1 DEF Runs, IInv, OwnInv, Busy
<1>9. StreamOK(tracker)'
  <2>1. \A k \in DOMAIN tracker' : Bounded(tracker'[k])
    BY <1>4 DEF IInv, StreamOK
  <2>2. ASSUME NEW d \in Connections, Runs(d, {"policy"})
        PROVE  IF Key(worker[d].event) \in DOMAIN tracker'
               THEN Holds(tracker'[Key(worker[d].event)], worker[d].generation,
                          Event[worker[d].event].edit)
               ELSE editor'[Event[worker[d].event].node] = "gone"
    <3>1. worker[d].event \in Events
      BY <1>8, <2>2
    <3>2. CASE Key(worker[d].event) \in DOMAIN tracker'
      BY <1>4, <2>2, <3>2 DEF IInv, StreamOK
    <3>3. CASE Key(worker[d].event) \notin DOMAIN tracker'
      BY <1>3, <1>4, <1>5, <2>2, <3>1, <3>3 DEF IInv, StreamOK
    <3> QED BY <3>2, <3>3
  <2>3. ASSUME NEW d \in Connections, NEW b \in Connections,
               Runs(d, {"policy"}), Runs(b, {"policy"}),
               Key(worker[d].event) = Key(worker[b].event), Key(worker[d].event) \in DOMAIN tracker',
               Event[worker[d].event].edit = Event[worker[b].event].edit
        PROVE  d = b
    BY <1>4, <2>3 DEF IInv, StreamOK
  <2> QED BY <1>1, <1>8, <2>1, <2>2, <2>3 DEF StreamOK
<1>10. Covered(tracker)'
  <2> SUFFICES ASSUME NEW f \in Events, IsEdit(f), Committed(f)
               PROVE  IF Key(f) \in DOMAIN tracker' THEN Event[f].edit <= tracker'[Key(f)].last
                      ELSE Event[f].client \in departed \/ editor'[Event[f].node] = "gone"
    BY <1>1, SameCommits DEF Covered, IsEdit
  <2>1. CASE Key(f) \in DOMAIN tracker'
    BY <1>4, <2>1 DEF IInv, Covered
  <2>2. CASE Key(f) \notin DOMAIN tracker'
    BY <1>3, <1>4, <1>5, <2>2 DEF IInv, Covered
  <2> QED BY <2>1, <2>2
<1>11. CommitInv'
  BY <1>1, SameCommits DEF IInv, CommitInv, Runs, IsEdit
<1>12. CountInv'
  BY <1>1, SameCommits DEF IInv, CountInv, Runs, IsEdit
<1> QED BY <1>6, <1>7, <1>9, <1>10, <1>11, <1>12 DEF IInv

\* Only an edit that is unknown, hence not published and not running, is canceled.
LEMMA StepResync ==
  ASSUME IInv, NEW cl, ResyncCancels(cl)
  PROVE  IInv'
<1>1. UNCHANGED <<editor, tracker, notifying, departed, worker, commits, panics>>
  BY DEF ResyncCancels
<1>2. PICK named \in SUBSET {e \in Events : IsEdit(e) /\ Event[e].client = cl} :
        /\ dedupe' = prepare_pending_text_edit_cancellation(named)
        /\ canceled' = canceled \cup {e \in named : dedupe[e] = "unknown"}
  BY DEF ResyncCancels
<1>3. \A e \in Events : dedupe'[e] = IF e \in named /\ dedupe[e] = "unknown" THEN "rejected"
                                    ELSE dedupe[e]
  BY <1>2 DEF prepare_pending_text_edit_cancellation
<1>4. TypeInv'
  BY <1>1, <1>2 DEF prepare_pending_text_edit_cancellation, IInv, TypeInv
<1>5. OwnInv'
  BY <1>1, <1>3 DEF IInv, OwnInv, Busy, Runs, IsEdit
<1>6. StreamOK(tracker)' /\ Covered(tracker)'
  BY <1>1, SameCommits DEF IInv, StreamOK, Covered, Runs, IsEdit
<1>7. CommitInv'
  <2>1. \A f \in Events : IsEdit(f) /\ Committed(f) => dedupe'[f] \in {"flight", "accepted"}
    BY <1>3 DEF IInv, CommitInv
  <2>2. \A f \in canceled' : f \in Events /\ IsEdit(f) /\ dedupe'[f] = "rejected"
    BY <1>2, <1>3 DEF IInv, CommitInv
  <2>3. \A d \in Connections : Runs(d, {"policy"}) => ~Committed(worker[d].event)
    BY DEF IInv, CommitInv
  <2> QED BY <1>1, <2>1, <2>2, <2>3, SameCommits DEF CommitInv, Runs, IsEdit
<1>8. CountInv'
  BY <1>1, <1>3, SameCommits DEF IInv, CountInv, Runs, IsEdit
<1> QED BY <1>4, <1>5, <1>6, <1>7, <1>8 DEF IInv

\* A client departs only when nothing of it is in flight.
LEMMA StepDeparts ==
  ASSUME IInv, NEW cl, ClientDeparts(cl)
  PROVE  IInv'
<1>1. /\ UNCHANGED <<editor, tracker, notifying, dedupe, worker, commits, panics, canceled>>
      /\ departed' = departed \cup {cl}
      /\ \A e \in Events : Event[e].client = cl => dedupe[e] # "flight"
  BY DEF ClientDeparts
<1>2. TypeInv' /\ OwnInv'
  BY <1>1 DEF IInv, TypeInv, OwnInv, Busy, Runs, IsEdit
<1>3. StreamOK(tracker)' /\ Covered(tracker)'
  BY <1>1, SameCommits DEF IInv, StreamOK, Covered, Runs, IsEdit
<1>4. CommitInv' /\ CountInv'
  BY <1>1, SameCommits DEF IInv, CommitInv, CountInv, Runs, IsEdit
<1> QED BY <1>2, <1>3, <1>4 DEF IInv

-----------------------------------------------------------------------------
\* Nothing is in flight or published in a session that has just begun.
LEMMA InitIInv == EditInit => IInv
<1> SUFFICES ASSUME EditInit PROVE IInv
  OBVIOUS
<1>1. TypeInv
  BY DEF EditInit, TypeInv, Idle
<1>2. \A c \in Connections : worker[c].pc = "idle"
  BY DEF EditInit, Idle
<1>3. OwnInv /\ StreamOK(tracker)
  BY <1>2 DEF EditInit, OwnInv, StreamOK, Busy, Runs
<1>4. Len(commits) = 0 /\ \A e : ~Committed(e)
  BY DEF EditInit, Committed
<1>5. Covered(tracker) /\ CommitInv
  BY <1>2, <1>4 DEF EditInit, Covered, CommitInv, NewerTextWins, Runs
<1>6. \A e \in Events : Times(e) = 0
  <2>1. \A e \in Events : {i \in 1..Len(commits) : commits[i] = e} = {}
    BY <1>4
  <2> QED BY <2>1, FS_EmptySet DEF Times
<1>7. CountInv
  BY <1>1, <1>6 DEF CountInv, TypeInv
<1> QED BY <1>1, <1>3, <1>5, <1>7 DEF IInv

\* Every step keeps it.
LEMMA NextIInv == IInv /\ [EditNext]_editVars => IInv'
<1> SUFFICES ASSUME IInv, [EditNext]_editVars PROVE IInv'
  OBVIOUS
<1>1. CASE UNCHANGED editVars
  <2>1. TypeInv' /\ OwnInv'
    BY <1>1 DEF editVars, IInv, TypeInv, OwnInv, Busy, Runs, IsEdit
  <2>2. StreamOK(tracker)' /\ Covered(tracker)'
    BY <1>1, SameCommits DEF editVars, IInv, StreamOK, Covered, Runs, IsEdit
  <2>3. CommitInv' /\ CountInv'
    BY <1>1, SameCommits DEF editVars, IInv, CommitInv, CountInv, Runs, IsEdit
  <2> QED BY <2>1, <2>2, <2>3 DEF IInv
<1>2. CASE \E c \in Connections, e \in Events :
             RejectAtAdmission(c, e) \/ AdmitEdit(c, e) \/ AdmitEvent(c, e)
  BY <1>2, StepReject, StepAdmitEdit, StepAdmitEvent
<1>3. CASE \E c \in Connections : \/ EditSuperseded(c) \/ CorrectionTooLong(c)
                                  \/ EditRejected(c) \/ PolicyPanics(c) \/ EditAccepted(c)
  BY <1>3, StepRefused, StepPolicyPanics, StepAccepted
<1>4. CASE \E c \in Connections : \/ HandlerCommits(c) \/ HandlersReturn(c)
                                  \/ HandlersPanic(c) \/ HandlersNotified(c)
  BY <1>4, StepHandlerCommits, StepHandlersEnd
<1>5. CASE \/ \E n \in Editors : EditorChanges(n)
           \/ \E cl \in EventClients : ResyncCancels(cl) \/ ClientDeparts(cl)
  BY <1>5, StepEditor, StepResync, StepDeparts
<1> QED BY <1>1, <1>2, <1>3, <1>4, <1>5 DEF EditNext

\* The tracker's bookkeeping holds whatever the connections interleave.
THEOREM Invariance == EditSpec => []IInv
BY InitIInv, NextIInv, PTL DEF EditSpec

\* NewerTextWins for any number of connections and edits: an editor never goes
\* back to an older edit of the same client.
THEOREM NewerTextAlwaysWins == EditSpec => []NewerTextWins
<1>1. IInv => NewerTextWins
  BY DEF IInv, CommitInv
<1> QED BY <1>1, Invariance, PTL

\* EffectOnce for any number of deliveries, panics, resyncs and reconnections.
THEOREM EffectHappensOnce == EditSpec => []EffectOnce
<1>1. IInv => EffectOnce
  <2> SUFFICES ASSUME IInv, NEW e \in Events
               PROVE  Times(e) <= IF e \in canceled THEN 0
                                  ELSE IF IsEdit(e) THEN 1 ELSE 1 + panics[e]
    BY DEF EffectOnce, Times
  <2> DEFINE A == {i \in 1..Len(commits) : commits[i] = e}
  <2>1. CASE IsEdit(e) /\ ~Committed(e)
    <3>1. A = {}
      BY <2>1 DEF Committed
    <3>2. Times(e) = 0
      BY <3>1, FS_EmptySet DEF Times
    <3> QED BY <2>1, <3>2
  <2>2. CASE IsEdit(e) /\ Committed(e)
    <3>1. e \notin canceled
      BY <2>2 DEF IInv, CommitInv
    <3>2. PICK i \in 1..Len(commits) : commits[i] = e
      BY <2>2 DEF Committed
    <3>3. A = {i}
      <4>1. ASSUME NEW j \in 1..Len(commits), commits[j] = e, j # i PROVE FALSE
        <5>1. Event[e].edit \in Nat /\ (i < j \/ j < i)
          BY <4>1, EventAssumption DEF IInv, TypeInv
        <5>2. Event[e].edit < Event[e].edit
          BY <2>2, <3>2, <4>1, <5>1 DEF IInv, CommitInv, NewerTextWins
        <5> QED BY <5>1, <5>2
      <4> QED BY <3>2, <4>1
    <3>4. Times(e) = 1
      BY <3>3, FS_Singleton DEF Times
    <3> QED BY <2>2, <3>1, <3>4
  <2>3. CASE ~IsEdit(e)
    <3>1. e \notin canceled
      BY <2>3 DEF IInv, CommitInv
    <3>2. Times(e) <= panics[e] + 1 /\ panics[e] \in Nat
      BY <2>3 DEF IInv, CountInv, TypeInv
    <3> QED BY <2>3, <3>1, <3>2
  <2> QED BY <2>1, <2>2, <2>3
<1> QED BY <1>1, Invariance, PTL

-----------------------------------------------------------------------------
(***************************************************************************)
(* Resources. What is retained reaches every connected client, for any     *)
(* hashes, sizes, publishers, connections and limits.                      *)
(*                                                                         *)
(* The property is inductive but for one thing: the last frame of a        *)
(* transfer must complete the resource at the client, so a transfer under  *)
(* way must have sent exactly what the client has received (UnderWay).     *)
(* Metadata sent again for a complete resource makes it incomplete, and    *)
(* the transfer itself is then the reason it will be complete again.       *)
(***************************************************************************)

Transfers == [live : BOOLEAN, ceiling : Nat, known : SUBSET Hashes, pending : Seq(Hashes),
              active : [hash : Hashes \cup {"none"}, sent : Nat]]

\* A transfer has sent its metadata, not all of its chunks, and the client has them.
UnderWay(a, got) ==
  a # NoTransfer => /\ a.hash \in Hashes /\ a.sent \in 1..Chunks[a.hash]
                    /\ got[a.hash] = a.sent

ResourceTypes ==
  /\ order \in Seq(Hashes)
  /\ publisher \in [Publishers -> Hashes \cup {"none"}]
  /\ transfer \in [Subscribers -> Transfers]
  /\ received \in [Subscribers -> [Hashes -> Nat]]

ResourceInv ==
  /\ ResourceTypes
  /\ \A s \in Subscribers : UnderWay(transfer[s].active, received[s])
  /\ RetainedReaches

\* c holds the entries left after each candidate was considered.
Evicts(c, kept, h, protected) ==
  /\ c[0] = kept /\ c[Len(kept)] = EvictionPlan(kept, h, protected)
  /\ \A k \in 1..Len(kept) :
       c[k] = IF Fits(c[k - 1], h) \/ kept[k] \in protected THEN c[k - 1] ELSE SelectIn(c[k - 1], Hashes \ {kept[k]})

\* The fold goes through such states.
LEMMA EvictionTrace ==
  ASSUME NEW kept \in Seq(Hashes), NEW h, NEW protected
  PROVE  \E c \in [0..Len(kept) -> Seq(Hashes)] : Evicts(c, kept, h, protected)
<1> DEFINE n == Len(kept)
           T == Seq(Hashes)
           op(a, i) == IF Fits(a, h) \/ kept[i] \in protected THEN a ELSE SelectIn(a, Hashes \ {kept[i]})
           step == [p \in T \X (1..n) |-> op(p[1], p[2])]
           it == CHOOSE f : f = [s \in SUBSET DOMAIN kept |->
                   IF s = {} THEN kept ELSE op(f[s \ {Max(s)}], Max(s))]
<1>1. n \in Nat /\ DOMAIN kept = 1..n /\ kept \in T
  OBVIOUS
<1>2. EvictionPlan(kept, h, protected) = it[DOMAIN kept]
  BY Zenon DEF EvictionPlan, FoldLeft, MapThenFoldSet
<1>3. step \in [T \X (1..n) -> T] /\ \A a \in T, i \in 1..n : step[<<a, i>>] = op(a, i)
  <2>1. ASSUME NEW a \in T, NEW i \in 1..n PROVE op(a, i) \in T
    BY SelectInElements
  <2> HIDE DEF op, T, n
  <2> QED BY <2>1
<1> HIDE DEF op, step, T, n
<1>4. PICK g \in [SUBSET (1..n) -> T] : Solves(g, kept, step, n)
  BY <1>1, <1>3, FoldExists
<1>5. \A s \in SUBSET (1..n) : s # {} => Max(s) \in 1..n /\ s \ {Max(s)} \in SUBSET (1..n)
  BY <1>1, MaxOfPositions
<1>6. g = [s \in SUBSET DOMAIN kept |-> IF s = {} THEN kept ELSE op(g[s \ {Max(s)}], Max(s))]
  <2>1. ASSUME NEW s \in SUBSET (1..n)
        PROVE  g[s] = IF s = {} THEN kept ELSE op(g[s \ {Max(s)}], Max(s))
    <3>1. CASE s = {}
      BY <1>4, <3>1 DEF Solves
    <3>2. CASE s # {}
      <4>1. g[s \ {Max(s)}] \in T /\ Max(s) \in 1..n
        BY <1>4, <1>5, <3>2
      <4>2. g[s] = step[<<g[s \ {Max(s)}], Max(s)>>]
        BY <1>4, <3>2 DEF Solves
      <4> QED BY <1>3, <3>2, <4>1, <4>2
    <3> QED BY <3>1, <3>2
  <2> QED BY <1>1, <1>4, <2>1
<1>7. it = [s \in SUBSET DOMAIN kept |-> IF s = {} THEN kept ELSE op(it[s \ {Max(s)}], Max(s))]
  BY <1>6, Zenon
<1> HIDE DEF it
<1>8. Iterates(it, kept, step, T, n)
  BY <1>1, <1>3, <1>5, <1>7 DEF Iterates
<1>9. PICK c \in [0..n -> T] : Passes(c, kept, step, n, it[1..n])
  BY <1>1, <1>3, <1>8, FoldTrace
<1>10. ASSUME NEW k \in 1..n PROVE c[k] = op(c[k - 1], k)
  <2>1. k - 1 \in 0..n
    BY <1>1
  <2> QED BY <1>3, <1>9, <2>1 DEF Passes
<1>11. c[0] = kept /\ c[n] = EvictionPlan(kept, h, protected)
  BY <1>1, <1>2, <1>9 DEF Passes
<1>12. Evicts(c, kept, h, protected)
  BY <1>10, <1>11, Zenon DEF n, op, Evicts
<1> QED BY <1>12 DEF n, T

\* Eviction only removes, and never what the tree refers to.
LEMMA EvictionKeeps ==
  ASSUME NEW kept \in Seq(Hashes), NEW h, NEW protected
  PROVE  LET left == EvictionPlan(kept, h, protected) IN
         /\ left \in Seq(Hashes)
         /\ ToSet(left) \subseteq ToSet(kept)
         /\ ToSet(kept) \cap protected \subseteq ToSet(left)
<1> DEFINE n == Len(kept)
<1>1. PICK c \in [0..n -> Seq(Hashes)] : Evicts(c, kept, h, protected)
  BY EvictionTrace
<1> DEFINE Q == {k \in 0..n : /\ ToSet(c[k]) \subseteq ToSet(kept)
                              /\ ToSet(kept) \cap protected \subseteq ToSet(c[k])}
<1>2. n \in Nat /\ 0 \in 0..n /\ n \in 0..n
  OBVIOUS
<1>3. 0 \in Q
  BY <1>1, <1>2 DEF Evicts
<1>4. ASSUME NEW k \in 1..n, k - 1 \in Q PROVE k \in Q
  <2>1. k - 1 \in 0..n /\ k \in 0..n /\ c[k - 1] \in Seq(Hashes)
    BY <1>1
  <2>2. /\ ToSet(c[k - 1]) \subseteq ToSet(kept)
        /\ ToSet(kept) \cap protected \subseteq ToSet(c[k - 1])
    BY <1>4
  <2>3. ToSet(SelectIn(c[k - 1], Hashes \ {kept[k]})) = ToSet(c[k - 1]) \cap (Hashes \ {kept[k]})
    BY <2>1, SelectInElements
  <2>4. ToSet(c[k - 1]) \subseteq Hashes
    BY <2>1 DEF ToSet
  <2>5. CASE kept[k] \in protected \/ Fits(c[k - 1], h)
    BY <1>1, <2>1, <2>2, <2>5 DEF Evicts
  <2>6. CASE ~(kept[k] \in protected \/ Fits(c[k - 1], h))
    <3>1. c[k] = SelectIn(c[k - 1], Hashes \ {kept[k]})
      BY <1>1, <2>6 DEF Evicts
    <3>2. ToSet(c[k]) = ToSet(c[k - 1]) \ {kept[k]}
      BY <2>3, <2>4, <3>1
    <3> QED BY <2>1, <2>2, <2>6, <3>2
  <2> QED BY <2>5, <2>6
<1>5. n \in Q
  <2> HIDE DEF Q
  <2> QED BY <1>2, <1>3, <1>4, Counting
<1> QED BY <1>1, <1>2, <1>5 DEF Evicts

\* maybe_enqueue_resource adds at most one hash and changes nothing else; a live
\* client that accepts the size has the hash queued or under way.
LEMMA EnqueueKeeps ==
  ASSUME NEW t \in Transfers, NEW h \in Hashes
  PROVE  LET u == maybe_enqueue_resource(t, h) IN
         /\ u \in Transfers
         /\ u.live = t.live /\ u.ceiling = t.ceiling /\ u.known = t.known /\ u.active = t.active
         /\ ToSet(t.pending) \subseteq ToSet(u.pending)
         /\ t.live /\ Chunks[h] <= t.ceiling => Transferring(u, h)
<1> DEFINE q == Append(t.pending, h)
<1>1. q \in Seq(Hashes) /\ ToSet(q) = ToSet(t.pending) \cup {h}
  BY AppendElements DEF Transfers
<1> HIDE DEF q
<1>2. CASE ~t.live \/ Chunks[h] > t.ceiling \/ Transferring(t, h)
  <2>1. maybe_enqueue_resource(t, h) = t
    BY <1>2 DEF maybe_enqueue_resource
  <2>2. t.live /\ Chunks[h] <= t.ceiling => Transferring(t, h)
    BY <1>2, ResourceAssumption DEF Transfers
  <2> QED BY <2>1, <2>2
<1>3. CASE ~(~t.live \/ Chunks[h] > t.ceiling \/ Transferring(t, h))
  <2>1. maybe_enqueue_resource(t, h) = [t EXCEPT !.pending = q]
    BY <1>3 DEF maybe_enqueue_resource, q
  <2>2. [t EXCEPT !.pending = q] \in Transfers
    BY <1>1 DEF Transfers
  <2>3. [t EXCEPT !.pending = q].pending = q /\ h \in ToSet(q)
    BY <1>1 DEF Transfers
  <2>4. /\ [t EXCEPT !.pending = q].live = t.live /\ [t EXCEPT !.pending = q].ceiling = t.ceiling
        /\ [t EXCEPT !.pending = q].known = t.known /\ [t EXCEPT !.pending = q].active = t.active
    BY DEF Transfers
  <2> QED BY <1>1, <2>1, <2>2, <2>3, <2>4 DEF Transferring
<1> QED BY <1>2, <1>3

\* c holds a new client's queue as the retained resources are offered to it.
Seeds(c, t, hashes) ==
  /\ c[0] = t /\ c[Len(hashes)] = FoldLeft(maybe_enqueue_resource, t, hashes)
  /\ \A k \in 1..Len(hashes) :
       c[k] = maybe_enqueue_resource(c[k - 1], hashes[k])

\* The fold goes through such states.
LEMMA SeedTrace ==
  ASSUME NEW t \in Transfers, NEW hashes \in Seq(Hashes)
  PROVE  \E c \in [0..Len(hashes) -> Transfers] : Seeds(c, t, hashes)
<1> DEFINE n == Len(hashes)
           T == Transfers
           op(a, i) == maybe_enqueue_resource(a, hashes[i])
           step == [p \in T \X (1..n) |-> op(p[1], p[2])]
           it == CHOOSE f : f = [s \in SUBSET DOMAIN hashes |->
                   IF s = {} THEN t ELSE op(f[s \ {Max(s)}], Max(s))]
<1>1. n \in Nat /\ DOMAIN hashes = 1..n /\ t \in T
  OBVIOUS
<1>2. FoldLeft(maybe_enqueue_resource, t, hashes) = it[DOMAIN hashes]
  BY Zenon DEF FoldLeft, MapThenFoldSet
<1>3. step \in [T \X (1..n) -> T] /\ \A a \in T, i \in 1..n : step[<<a, i>>] = op(a, i)
  <2>1. ASSUME NEW a \in T, NEW i \in 1..n PROVE op(a, i) \in T
    BY EnqueueKeeps
  <2> HIDE DEF op, T, n
  <2> QED BY <2>1
<1> HIDE DEF op, step, T, n
<1>4. PICK g \in [SUBSET (1..n) -> T] : Solves(g, t, step, n)
  BY <1>1, <1>3, FoldExists
<1>5. \A s \in SUBSET (1..n) : s # {} => Max(s) \in 1..n /\ s \ {Max(s)} \in SUBSET (1..n)
  BY <1>1, MaxOfPositions
<1>6. g = [s \in SUBSET DOMAIN hashes |-> IF s = {} THEN t ELSE op(g[s \ {Max(s)}], Max(s))]
  <2>1. ASSUME NEW s \in SUBSET (1..n)
        PROVE  g[s] = IF s = {} THEN t ELSE op(g[s \ {Max(s)}], Max(s))
    <3>1. CASE s = {}
      BY <1>4, <3>1 DEF Solves
    <3>2. CASE s # {}
      <4>1. g[s \ {Max(s)}] \in T /\ Max(s) \in 1..n
        BY <1>4, <1>5, <3>2
      <4>2. g[s] = step[<<g[s \ {Max(s)}], Max(s)>>]
        BY <1>4, <3>2 DEF Solves
      <4> QED BY <1>3, <3>2, <4>1, <4>2
    <3> QED BY <3>1, <3>2
  <2> QED BY <1>1, <1>4, <2>1
<1>7. it = [s \in SUBSET DOMAIN hashes |-> IF s = {} THEN t ELSE op(it[s \ {Max(s)}], Max(s))]
  BY <1>6, Zenon
<1> HIDE DEF it
<1>8. Iterates(it, t, step, T, n)
  BY <1>1, <1>3, <1>5, <1>7 DEF Iterates
<1>9. PICK c \in [0..n -> T] : Passes(c, t, step, n, it[1..n])
  BY <1>1, <1>3, <1>8, FoldTrace
<1>10. ASSUME NEW k \in 1..n PROVE c[k] = op(c[k - 1], k)
  <2>1. k - 1 \in 0..n
    BY <1>1
  <2> QED BY <1>3, <1>9, <2>1 DEF Passes
<1>11. c[0] = t /\ c[n] = FoldLeft(maybe_enqueue_resource, t, hashes)
  BY <1>1, <1>2, <1>9 DEF Passes
<1>12. Seeds(c, t, hashes)
  BY <1>10, <1>11, Zenon DEF n, op, Seeds
<1> QED BY <1>12 DEF n, T

\* A new client is offered everything retained: what it accepts is queued.
LEMMA SeedReaches ==
  ASSUME NEW t \in Transfers, NEW hashes \in Seq(Hashes), t.live
  PROVE  LET u == FoldLeft(maybe_enqueue_resource, t, hashes) IN
         /\ u \in Transfers
         /\ u.live /\ u.ceiling = t.ceiling /\ u.known = t.known /\ u.active = t.active
         /\ \A h \in ToSet(hashes) : Chunks[h] <= t.ceiling => Transferring(u, h)
<1> DEFINE n == Len(hashes)
<1>1. PICK c \in [0..n -> Transfers] : Seeds(c, t, hashes)
  BY SeedTrace
<1> DEFINE Q == {k \in 0..n :
              /\ c[k].live /\ c[k].ceiling = t.ceiling /\ c[k].known = t.known
              /\ c[k].active = t.active
              /\ \A i \in 1..k : Chunks[hashes[i]] <= t.ceiling => Transferring(c[k], hashes[i])}
<1>2. n \in Nat /\ 0 \in 0..n /\ n \in 0..n
  OBVIOUS
<1>3. 0 \in Q
  BY <1>1, <1>2 DEF Seeds
<1>4. ASSUME NEW k \in 1..n, k - 1 \in Q PROVE k \in Q
  <2>1. k - 1 \in 0..n /\ k \in 0..n /\ c[k - 1] \in Transfers /\ hashes[k] \in Hashes
    BY <1>1
  <2>2. /\ c[k - 1].live /\ c[k - 1].ceiling = t.ceiling /\ c[k - 1].known = t.known
        /\ c[k - 1].active = t.active
        /\ \A i \in 1..(k - 1) :
             Chunks[hashes[i]] <= t.ceiling => Transferring(c[k - 1], hashes[i])
    BY <1>4
  <2>3. c[k] = maybe_enqueue_resource(c[k - 1], hashes[k])
    BY <1>1 DEF Seeds
  <2>4. /\ c[k].live = c[k - 1].live /\ c[k].ceiling = c[k - 1].ceiling
        /\ c[k].known = c[k - 1].known /\ c[k].active = c[k - 1].active
        /\ ToSet(c[k - 1].pending) \subseteq ToSet(c[k].pending)
        /\ c[k - 1].live /\ Chunks[hashes[k]] <= c[k - 1].ceiling => Transferring(c[k], hashes[k])
    <3> DEFINE a == c[k - 1]
               h == hashes[k]
    <3> HIDE DEF a, h
    <3>1. a \in Transfers /\ h \in Hashes
      BY <2>1 DEF a, h
    <3>2. LET u == maybe_enqueue_resource(a, h) IN
          /\ u.live = a.live /\ u.ceiling = a.ceiling /\ u.known = a.known /\ u.active = a.active
          /\ ToSet(a.pending) \subseteq ToSet(u.pending)
          /\ a.live /\ Chunks[h] <= a.ceiling => Transferring(u, h)
      BY <3>1, EnqueueKeeps, ZenonT(60)
    <3> QED BY <2>3, <3>2 DEF a, h
  <2>5. ASSUME NEW i \in 1..k, Chunks[hashes[i]] <= t.ceiling
        PROVE  Transferring(c[k], hashes[i])
    <3>1. CASE i = k
      BY <2>2, <2>4, <2>5, <3>1
    <3>2. CASE i # k
      <4>1. i \in 1..(k - 1)
        BY <3>2
      <4>2. Transferring(c[k - 1], hashes[i])
        BY <2>2, <2>5, <4>1
      <4> QED BY <2>4, <4>2 DEF Transferring
    <3> QED BY <3>1, <3>2
  <2> QED BY <2>1, <2>2, <2>4, <2>5
<1>5. n \in Q
  <2> HIDE DEF Q
  <2> QED BY <1>2, <1>3, <1>4, Counting
<1>6. c[n] \in Transfers /\ c[n] = FoldLeft(maybe_enqueue_resource, t, hashes)
  BY <1>1, <1>2 DEF Seeds
<1>7. \A h \in ToSet(hashes) : \E i \in 1..n : h = hashes[i]
  BY DEF ToSet
<1> QED BY <1>5, <1>6, <1>7

\* A publication that is stored is in the publisher's hands.
LEMMA InsertPreserves ==
  ASSUME ResourceInv, NEW p \in Publishers, NEW h \in Hashes, PublishInserts(p, h)
  PROVE  ResourceInv'
<1> USE DEF ResourceInv, ResourceTypes
<1> DEFINE left == EvictionPlan(order, h, referenced)
<1>1. left \in Seq(Hashes) /\ ToSet(left) \subseteq ToSet(order)
  BY EvictionKeeps
<1> HIDE DEF left
<1>2. order' = Append(left, h) /\ publisher' = [publisher EXCEPT ![p] = h]
      /\ UNCHANGED <<transfer, received>> /\ publisher[p] = "none"
  BY DEF PublishInserts, Publication, left
<1>3. ToSet(order') = ToSet(left) \cup {h}
  BY <1>1, <1>2, AppendElements
<1>4. ResourceTypes'
  BY <1>1, <1>2
<1>5. RetainedReaches'
  <2> SUFFICES ASSUME NEW s \in Subscribers, NEW x \in ToSet(order'),
                      transfer[s].live, Chunks[x] <= transfer[s].ceiling
               PROVE  \/ Complete(s, x) \/ x \in transfer[s].known
                      \/ Transferring(transfer[s], x)
                      \/ \E q \in Publishers : publisher'[q] = x
    BY <1>2, Zenon DEF RetainedReaches, Complete, Transferring
  <2>1. CASE x = h
    BY <1>2, <2>1
  <2>2. CASE x # h
    <3>0. ToSet(order) \subseteq Hashes
      BY DEF ToSet
    <3>1. x \in ToSet(order) /\ x # "none"
      BY <1>1, <1>3, <2>2, <3>0, ResourceAssumption
    <3>2. \A q \in Publishers : publisher[q] = x => publisher'[q] = x
      BY <1>2, <3>1
    <3> QED BY <3>1, <3>2 DEF RetainedReaches
  <2> QED BY <2>1, <2>2
<1> QED BY <1>2, <1>4, <1>5, Zenon

\* The hub queues what the publisher held on every connection that accepts it.
LEMMA HubPreserves ==
  ASSUME ResourceInv, NEW p \in Publishers, HubPublishes(p)
  PROVE  ResourceInv'
<1> USE DEF ResourceInv, ResourceTypes
<1> DEFINE h == publisher[p]
<1>1. /\ h \in Hashes /\ publisher' = [publisher EXCEPT ![p] = "none"]
      /\ UNCHANGED <<order, received>>
      /\ transfer' = [s \in Subscribers |-> maybe_enqueue_resource(transfer[s], h)]
  BY DEF HubPublishes
<1> HIDE DEF h
<1>2. ASSUME NEW s \in Subscribers
      PROVE  /\ transfer'[s] \in Transfers
             /\ transfer'[s].live = transfer[s].live /\ transfer'[s].ceiling = transfer[s].ceiling
             /\ transfer'[s].known = transfer[s].known /\ transfer'[s].active = transfer[s].active
             /\ ToSet(transfer[s].pending) \subseteq ToSet(transfer'[s].pending)
             /\ transfer[s].live /\ Chunks[h] <= transfer[s].ceiling => Transferring(transfer'[s], h)
  <2>1. transfer[s] \in Transfers /\ transfer'[s] = maybe_enqueue_resource(transfer[s], h)
    BY <1>1
  <2> QED BY <1>1, <2>1, EnqueueKeeps
<1>3. ResourceTypes'
  BY <1>1, <1>2
<1>4. \A s \in Subscribers : UnderWay(transfer[s].active, received[s])'
  BY <1>1, <1>2, SMTT(30) DEF UnderWay
<1>5. RetainedReaches'
  <2> SUFFICES ASSUME NEW s \in Subscribers, NEW x \in ToSet(order),
                      transfer'[s].live, Chunks[x] <= transfer'[s].ceiling
               PROVE  \/ Complete(s, x) \/ x \in transfer'[s].known
                      \/ Transferring(transfer'[s], x)
                      \/ \E q \in Publishers : publisher'[q] = x
    BY <1>1, Zenon DEF RetainedReaches, Complete
  <2>0. transfer[s].live /\ Chunks[x] <= transfer[s].ceiling /\ transfer'[s].known = transfer[s].known
    BY <1>2
  <2>1. \/ Complete(s, x) \/ x \in transfer[s].known
        \/ Transferring(transfer[s], x)
        \/ \E q \in Publishers : publisher[q] = x
    BY <2>0 DEF RetainedReaches
  <2>2. CASE Transferring(transfer[s], x)
    BY <1>2, <2>2 DEF Transferring
  <2>3. ASSUME NEW q \in Publishers, publisher[q] = x
        PROVE  Transferring(transfer'[s], x) \/ \E r \in Publishers : publisher'[r] = x
    <3>1. CASE q = p
      BY <1>2, <2>0, <2>3, <3>1 DEF h
    <3>2. CASE q # p
      BY <1>1, <2>3, <3>2
    <3> QED BY <3>1, <3>2
  <2> QED BY <2>0, <2>1, <2>2, <2>3
<1> QED BY <1>3, <1>4, <1>5, Zenon

\* A client that connects is offered all that is retained and that it does not name.
LEMMA SubscribePreserves ==
  ASSUME ResourceInv, NEW s \in Subscribers, NEW ceiling \in Ceilings, Subscribe(s, ceiling)
  PROVE  ResourceInv'
<1> USE DEF ResourceInv, ResourceTypes
<1>1. PICK known \in SUBSET {h \in Hashes : Complete(s, h)} :
        transfer' = [transfer EXCEPT ![s] =
          FoldLeft(maybe_enqueue_resource,
                   [Away EXCEPT !.live = TRUE, !.ceiling = ceiling, !.known = known],
                   SelectIn(order, Hashes \ known))]
  BY Zenon DEF Subscribe
<1> DEFINE t == [Away EXCEPT !.live = TRUE, !.ceiling = ceiling, !.known = known]
           unknown == SelectIn(order, Hashes \ known)
           u == FoldLeft(maybe_enqueue_resource, t, unknown)
<1>2. unknown \in Seq(Hashes) /\ ToSet(unknown) = ToSet(order) \cap (Hashes \ known)
  BY SelectInElements
<1>3. /\ t \in Transfers /\ t.live /\ t.ceiling = ceiling /\ t.known = known
      /\ t.active = NoTransfer
  <2>0. Away \in Transfers /\ Away.active = NoTransfer
    BY DEF Away, Transfers, NoTransfer
  <2>1. PICK away \in Transfers : away = Away /\ away.active = NoTransfer
    BY <2>0
  <2>2. PICK yes \in BOOLEAN : yes = TRUE
    OBVIOUS
  <2>3. ceiling \in Nat /\ known \in SUBSET Hashes
    BY ResourceAssumption
  <2> DEFINE r == [away EXCEPT !.live = yes, !.ceiling = ceiling, !.known = known]
  <2>4. /\ r \in Transfers /\ r.live = yes /\ r.ceiling = ceiling /\ r.known = known
        /\ r.active = away.active
    BY <2>3 DEF Transfers
  <2>5. r = t
    BY <2>1, <2>2, Zenon
  <2> HIDE DEF r, t
  <2> QED BY <2>1, <2>2, <2>4, <2>5
<1> HIDE DEF t, unknown
<1>4. /\ u \in Transfers /\ u.live /\ u.ceiling = t.ceiling /\ u.known = t.known
      /\ u.active = t.active
      /\ \A h \in ToSet(unknown) : Chunks[h] <= t.ceiling => Transferring(u, h)
  BY <1>2, <1>3, SeedReaches
<1>5. transfer' = [transfer EXCEPT ![s] = u] /\ UNCHANGED <<order, publisher, received>>
  BY <1>1 DEF Subscribe, t, unknown
<1> HIDE DEF u
<1>6. transfer'[s] = u /\ \A r \in Subscribers : r # s => transfer'[r] = transfer[r]
  BY <1>5
<1>7. ResourceTypes'
  BY <1>4, <1>5
<1>8. ASSUME NEW r \in Subscribers PROVE UnderWay(transfer[r].active, received[r])'
  <2>1. CASE r = s
    BY <1>3, <1>4, <1>6, <2>1 DEF UnderWay
  <2>2. CASE r # s
    BY <1>5, <1>6, <2>2 DEF UnderWay
  <2> QED BY <2>1, <2>2
<1>9. RetainedReaches'
  <2> SUFFICES ASSUME NEW r \in Subscribers, NEW x \in ToSet(order),
                      transfer'[r].live, Chunks[x] <= transfer'[r].ceiling
               PROVE  \/ Complete(r, x) \/ x \in transfer'[r].known
                      \/ Transferring(transfer'[r], x)
                      \/ \E q \in Publishers : publisher[q] = x
    BY <1>5, Zenon DEF RetainedReaches, Complete
  <2>1. CASE r = s
    <3>1. x \in Hashes
      BY DEF ToSet
    <3> QED BY <1>2, <1>3, <1>4, <1>6, <2>1, <3>1
  <2>2. CASE r # s
    BY <1>6, <2>2 DEF RetainedReaches
  <2> QED BY <2>1, <2>2
<1> QED BY <1>7, <1>8, <1>9, Zenon

\* A connection that ends takes its queue along, and its client what is complete.
LEMMA UnsubscribePreserves ==
  ASSUME ResourceInv, NEW s \in Subscribers, Unsubscribe(s)
  PROVE  ResourceInv'
<1> USE DEF ResourceInv, ResourceTypes
<1> DEFINE kept == [h \in Hashes |-> IF Complete(s, h) THEN received[s][h] ELSE 0]
<1>1. kept \in [Hashes -> Nat]
  OBVIOUS
<1>2. /\ transfer' = [transfer EXCEPT ![s] = Away]
      /\ received' = [received EXCEPT ![s] = kept] /\ UNCHANGED <<order, publisher>>
  BY DEF Unsubscribe
<1> HIDE DEF kept
<1>3. Away \in Transfers /\ Away.live = FALSE /\ Away.active = NoTransfer
  BY DEF Away, Transfers, NoTransfer
<1>4. /\ transfer'[s] = Away
      /\ \A r \in Subscribers : r # s => transfer'[r] = transfer[r] /\ received'[r] = received[r]
  BY <1>2
<1>5. ResourceTypes'
  BY <1>1, <1>2, <1>3
<1>6. ASSUME NEW r \in Subscribers PROVE UnderWay(transfer[r].active, received[r])'
  <2>1. CASE r = s
    BY <1>3, <1>4, <2>1 DEF UnderWay
  <2>2. CASE r # s
    BY <1>4, <2>2 DEF UnderWay
  <2> QED BY <2>1, <2>2
<1>7. RetainedReaches'
  <2> SUFFICES ASSUME NEW r \in Subscribers, NEW x \in ToSet(order),
                      transfer'[r].live, Chunks[x] <= transfer'[r].ceiling
               PROVE  \/ received'[r][x] = 1 + Chunks[x] \/ x \in transfer'[r].known
                      \/ Transferring(transfer'[r], x)
                      \/ \E q \in Publishers : publisher[q] = x
    BY <1>2, Zenon DEF RetainedReaches, Complete
  <2>1. r # s
    BY <1>3, <1>4
  <2> QED BY <1>4, <2>1, ZenonT(60) DEF RetainedReaches, Complete
<1> QED BY <1>5, <1>6, <1>7, Zenon

\* What pop_frame sends: frame k of hash h, whose transfer is at the head or begins.
LEMMA FrameSent ==
  ASSUME ResourceInv, NEW s \in Subscribers, SendFrame(s)
  PROVE  \E h \in Hashes, k \in Nat, q \in Seq(Hashes) :
           /\ k <= Chunks[h]
           /\ \A x \in Hashes : Transferring(transfer[s], x) => x = h \/ x \in ToSet(q)
           /\ received' = [received EXCEPT ![s] = [@ EXCEPT ![h] = k + 1]]
           /\ transfer' = [transfer EXCEPT ![s] = [@ EXCEPT
                 !.pending = q,
                 !.active = IF k + 1 = 1 + Chunks[h] THEN NoTransfer ELSE [hash |-> h, sent |-> k + 1]]]
<1> USE DEF ResourceInv, ResourceTypes
<1> DEFINE t == transfer[s]
<1>1. /\ t \in Transfers /\ (t.active # NoTransfer \/ t.pending # <<>>)
      /\ UnderWay(t.active, received[s]) /\ received[s] \in [Hashes -> Nat]
  BY DEF SendFrame
<1>2. CASE t.active = NoTransfer
  <2> DEFINE h == Head(t.pending)
             q == Tail(t.pending)
             a == [hash |-> h, sent |-> 0]
  <2>1. h \in Hashes /\ q \in Seq(Hashes) /\ 0 <= Chunks[h]
    BY <1>1, <1>2, ResourceAssumption DEF Transfers
  <2>2. \A x \in Hashes : Transferring(t, x) => x = h \/ x \in ToSet(q)
    <3> SUFFICES ASSUME NEW x \in Hashes, Transferring(t, x), x # h PROVE x \in ToSet(q)
      OBVIOUS
    <3>1. x # "none"
      BY ResourceAssumption
    <3>2. PICK i \in DOMAIN t.pending : x = t.pending[i]
      BY <1>2, <3>1 DEF Transferring, ToSet, NoTransfer
    <3>3. i - 1 \in DOMAIN q /\ q[i - 1] = x
      BY <1>1, <1>2, <3>2 DEF Transfers
    <3> QED BY <3>3 DEF ToSet
  <2>3. a.hash = h /\ a.sent = 0 /\ [a EXCEPT !.sent = @ + 1] = [hash |-> h, sent |-> 0 + 1]
    <3>1. a \in [hash : Hashes, sent : Nat] /\ a.hash = h /\ a.sent = 0
      BY <2>1
    <3> HIDE DEF a, h
    <3> QED BY <3>1
  <2>4. received' = [received EXCEPT ![s] = [@ EXCEPT ![h] = 0 + 1]]
    BY <1>2, <2>3 DEF SendFrame
  <2>5. transfer' = [transfer EXCEPT ![s] = [@ EXCEPT
                 !.pending = q,
                 !.active = IF 0 + 1 = 1 + Chunks[h] THEN NoTransfer ELSE [hash |-> h, sent |-> 0 + 1]]]
    BY <1>2, <2>3, Zenon DEF SendFrame
  <2> HIDE DEF h, q, a
  <2> QED BY <2>1, <2>2, <2>4, <2>5
<1>3. CASE t.active # NoTransfer
  <2> DEFINE h == t.active.hash
             k == t.active.sent
             q == t.pending
  <2>1. h \in Hashes /\ k \in Nat /\ q \in Seq(Hashes) /\ k <= Chunks[h] /\ k # 0
        /\ received[s][h] = k
    BY <1>1, <1>3, ResourceAssumption DEF UnderWay, Transfers
  <2>2. \A x \in Hashes : Transferring(t, x) => x = h \/ x \in ToSet(q)
    BY DEF Transferring
  <2>3. [t.active EXCEPT !.sent = @ + 1] = [hash |-> h, sent |-> k + 1]
    BY <1>1 DEF Transfers
  <2>4. received' = [received EXCEPT ![s] = [@ EXCEPT ![h] = k + 1]]
    BY <1>3, <2>1 DEF SendFrame
  <2>5. transfer' = [transfer EXCEPT ![s] = [@ EXCEPT
                 !.pending = q,
                 !.active = IF k + 1 = 1 + Chunks[h] THEN NoTransfer ELSE [hash |-> h, sent |-> k + 1]]]
    <3>1. [t.active EXCEPT !.sent = @ + 1].sent = k + 1
      BY <2>3
    <3> QED BY <1>3, <2>3, <3>1, Zenon DEF SendFrame
  <2> HIDE DEF h, q, k
  <2> QED BY <2>1, <2>2, <2>4, <2>5
<1> QED BY <1>2, <1>3

\* A frame completes its resource at the client or leaves its transfer under way.
LEMMA SendPreserves ==
  ASSUME ResourceInv, NEW s \in Subscribers, SendFrame(s)
  PROVE  ResourceInv'
<1> USE DEF ResourceInv, ResourceTypes
<1>1. PICK h \in Hashes, k \in Nat, q \in Seq(Hashes) :
           /\ k <= Chunks[h]
           /\ \A x \in Hashes : Transferring(transfer[s], x) => x = h \/ x \in ToSet(q)
           /\ received' = [received EXCEPT ![s] = [@ EXCEPT ![h] = k + 1]]
           /\ transfer' = [transfer EXCEPT ![s] = [@ EXCEPT
                 !.pending = q,
                 !.active = IF k + 1 = 1 + Chunks[h] THEN NoTransfer ELSE [hash |-> h, sent |-> k + 1]]]
  BY FrameSent, Zenon
<1> DEFINE act == IF k + 1 = 1 + Chunks[h] THEN NoTransfer ELSE [hash |-> h, sent |-> k + 1]
           u == [transfer[s] EXCEPT !.pending = q, !.active = act]
           got == [received[s] EXCEPT ![h] = k + 1]
<1>2. UNCHANGED <<order, publisher>>
  BY DEF SendFrame
<1>3. Chunks[h] \in Nat /\ act \in [hash : Hashes \cup {"none"}, sent : Nat]
  BY ResourceAssumption DEF NoTransfer
<1>4. \/ k = Chunks[h] /\ act = NoTransfer
      \/ k + 1 \in 1..Chunks[h] /\ act.hash = h /\ act.sent = k + 1
  BY <1>1, <1>3
<1>5. received' = [received EXCEPT ![s] = got] /\ transfer' = [transfer EXCEPT ![s] = u]
  BY <1>1
<1>6. got \in [Hashes -> Nat] /\ got[h] = k + 1 /\ \A x \in Hashes : x # h => got[x] = received[s][x]
  OBVIOUS
<1> HIDE DEF act, got
<1>7. /\ u \in Transfers /\ u.pending = q /\ u.active = act /\ u.live = transfer[s].live
      /\ u.ceiling = transfer[s].ceiling /\ u.known = transfer[s].known
  BY <1>3, ZenonT(60) DEF Transfers
<1> HIDE DEF u
<1>8. /\ transfer'[s] = u /\ received'[s] = got
      /\ \A r \in Subscribers : r # s => transfer'[r] = transfer[r] /\ received'[r] = received[r]
  BY <1>5
<1>9. ResourceTypes'
  BY <1>2, <1>5, <1>6, <1>7
<1>10. ASSUME NEW r \in Subscribers PROVE UnderWay(transfer[r].active, received[r])'
  <2>1. CASE r = s
    BY <1>4, <1>6, <1>7, <1>8, <2>1 DEF UnderWay
  <2>2. CASE r # s
    BY <1>8, <2>2 DEF UnderWay
  <2> QED BY <2>1, <2>2
<1>11. RetainedReaches'
  <2> SUFFICES ASSUME NEW r \in Subscribers, NEW x \in ToSet(order),
                      transfer'[r].live, Chunks[x] <= transfer'[r].ceiling
               PROVE  \/ received'[r][x] = 1 + Chunks[x] \/ x \in transfer'[r].known
                      \/ Transferring(transfer'[r], x)
                      \/ \E p \in Publishers : publisher[p] = x
    BY <1>2, Zenon DEF RetainedReaches, Complete
  <2>1. CASE r # s
    BY <1>8, <2>1, ZenonT(60) DEF RetainedReaches, Complete
  <2>2. CASE r = s
    <3>1. CASE x = h
      BY <1>3, <1>4, <1>6, <1>7, <1>8, <2>2, <3>1 DEF Transferring
    <3>2. CASE x # h
      <4>1. x \in Hashes /\ transfer[s].live /\ Chunks[x] <= transfer[s].ceiling
        BY <1>7, <1>8, <2>2 DEF ToSet
      <4>2. \/ received[s][x] = 1 + Chunks[x] \/ x \in transfer[s].known
            \/ Transferring(transfer[s], x)
            \/ \E p \in Publishers : publisher[p] = x
        BY <4>1 DEF RetainedReaches, Complete
      <4>3. Transferring(transfer[s], x) => Transferring(u, x)
        BY <1>1, <1>7, <3>2, <4>1 DEF Transferring
      <4> QED BY <1>6, <1>7, <1>8, <2>2, <3>2, <4>1, <4>2, <4>3
    <3> QED BY <3>1, <3>2
  <2> QED BY <2>1, <2>2
<1> QED BY <1>9, <1>10, <1>11, Zenon

\* Every step keeps the invariant of the resources.
LEMMA ResourceInvariance == ResourceSpec => []ResourceInv
<1>1. ResourceInit => ResourceInv
  <2> SUFFICES ASSUME ResourceInit PROVE ResourceInv
    OBVIOUS
  <2>1. Away \in Transfers /\ Away.active = NoTransfer
    BY DEF Away, Transfers, NoTransfer
  <2>2. ResourceTypes
    BY <2>1 DEF ResourceInit, ResourceTypes
  <2>3. \A s \in Subscribers : UnderWay(transfer[s].active, received[s])
    BY <2>1 DEF ResourceInit, UnderWay
  <2>4. ToSet(order) = {}
    BY DEF ResourceInit, ToSet
  <2>5. RetainedReaches
    BY <2>4 DEF RetainedReaches
  <2> QED BY <2>2, <2>3, <2>5 DEF ResourceInv
<1>2. ResourceInv /\ [ResourceNext]_resourceVars => ResourceInv'
  <2> SUFFICES ASSUME ResourceInv, [ResourceNext]_resourceVars PROVE ResourceInv'
    OBVIOUS
  <2> DEFINE Same == UNCHANGED <<order, publisher, transfer, received>>
  <2>0. ASSUME Same PROVE ResourceInv'
    BY <2>0 DEF ResourceInv, ResourceTypes, RetainedReaches, UnderWay, Complete
  <2>1. ASSUME NEW p \in Publishers, NEW h \in Hashes, PublishKeeps(p, h) PROVE ResourceInv'
    BY <2>0, <2>1 DEF PublishKeeps
  <2>2. ASSUME NEW h \in Hashes, ReferenceChanges(h) PROVE ResourceInv'
    BY <2>0, <2>2 DEF ReferenceChanges
  <2>3. CASE UNCHANGED resourceVars
    BY <2>0, <2>3 DEF resourceVars
  <2>4. CASE ResourceNext
    BY <2>1, <2>2, <2>4, InsertPreserves, HubPreserves, SubscribePreserves, SendPreserves,
       UnsubscribePreserves DEF ResourceNext
  <2> QED BY <2>3, <2>4
<1> QED BY <1>1, <1>2, PTL DEF ResourceSpec

\* For any sizes, limits, publishers and connections, and whatever is evicted,
\* published or connected between the two critical sections of publish_resource:
\* what the store retains is at every connected client that accepts its size, on
\* its way there, or in the hands of a publisher that has yet to hand it to the hub.
THEOREM RetainedReachesClients == ResourceSpec => []RetainedReaches
  BY ResourceInvariance, PTL DEF ResourceInv

-----------------------------------------------------------------------------
(* Collection models *)

CONSTANT ItemIds  \* the identities of items

Caches == UNION {[D -> ItemIds] : D \in SUBSET Nat}
Indexes == UNION {[X -> Nat] : X \in SUBSET ItemIds}
Models == [count : Nat, items : Caches, index : Indexes]

ModelOK(m) == m \in Models /\ IsFiniteSet(DOMAIN m.items) /\ IndexExact(m)

\* The parts of a model.
LEMMA ModelParts ==
  ASSUME NEW m, ModelOK(m)
  PROVE  /\ m \in Models /\ m.count \in Nat /\ IsFiniteSet(DOMAIN m.items)
         /\ DOMAIN m.items \in SUBSET Nat /\ m.items \in [DOMAIN m.items -> ItemIds]
         /\ DOMAIN m.index \in SUBSET ItemIds /\ m.index \in [DOMAIN m.index -> Nat]
         /\ \A i \in DOMAIN m.items : m.items[i] \in DOMAIN m.index /\ m.index[m.items[i]] = i
         /\ \A x \in DOMAIN m.index : m.index[x] \in DOMAIN m.items /\ m.items[m.index[x]] = x
<1>1. m \in Models /\ m.count \in Nat /\ m.items \in Caches /\ m.index \in Indexes
  BY DEF ModelOK, Models
<1>2. PICK D \in SUBSET Nat : m.items \in [D -> ItemIds]
  BY <1>1 DEF Caches
<1>3. PICK X \in SUBSET ItemIds : m.index \in [X -> Nat]
  BY <1>1 DEF Indexes
<1>4. DOMAIN m.items = D /\ DOMAIN m.index = X
  BY <1>2, <1>3
<1> QED BY <1>1, <1>2, <1>3, <1>4 DEF ModelOK, IndexExact

\* A model from its parts.
LEMMA ModelMade ==
  ASSUME NEW c \in Nat, NEW D \in SUBSET Nat, IsFiniteSet(D), NEW f \in [D -> ItemIds],
         NEW X \in SUBSET ItemIds, NEW g \in [X -> Nat],
         \A i \in D : f[i] \in X /\ g[f[i]] = i,
         \A x \in X : g[x] \in D /\ f[g[x]] = x
  PROVE  ModelOK([count |-> c, items |-> f, index |-> g])
<1> DEFINE m == [count |-> c, items |-> f, index |-> g]
<1>1. f \in Caches /\ g \in Indexes
  BY DEF Caches, Indexes
<1>2. m \in Models
  BY <1>1 DEF Models
<1>3. DOMAIN f = D /\ DOMAIN g = X
  OBVIOUS
<1> QED BY <1>2, <1>3 DEF ModelOK, IndexExact

\* A change of the two maps and the count gives the model of these parts.
LEMMA ModelChanged ==
  ASSUME NEW m \in Models, NEW c, NEW f, NEW g
  PROVE  /\ [m EXCEPT !.items = f, !.index = g] = [count |-> m.count, items |-> f, index |-> g]
         /\ [m EXCEPT !.count = c] = [count |-> c, items |-> m.items, index |-> m.index]
<1>1. m = [count |-> m.count, items |-> m.items, index |-> m.index]
  BY DEF Models
<1> DEFINE moved == [m EXCEPT !.items = f, !.index = g]
           counted == [m EXCEPT !.count = c]
<1>2. moved \in [count : {m.count}, items : {f}, index : {g}]
  BY <1>1
<1>3. counted \in [count : {c}, items : {m.items}, index : {m.index}]
  BY <1>1
<1>4. ASSUME NEW r, NEW x, NEW y, NEW z, r \in [count : {x}, items : {y}, index : {z}]
      PROVE  r = [count |-> x, items |-> y, index |-> z]
  BY <1>4
<1> HIDE DEF moved, counted
<1>5. moved = [count |-> m.count, items |-> f, index |-> g]
  BY <1>2, <1>4
<1>6. counted = [count |-> c, items |-> m.items, index |-> m.index]
  BY <1>3, <1>4
<1> QED BY <1>5, <1>6 DEF moved, counted

\* The count is independent of what is cached.
LEMMA ModelCounted ==
  ASSUME NEW m, ModelOK(m), NEW c \in Nat
  PROVE  /\ ModelOK([m EXCEPT !.count = c])
         /\ [m EXCEPT !.count = c].items = m.items /\ [m EXCEPT !.count = c].index = m.index
<1>1. m \in Models
  BY DEF ModelOK
<1>2. [m EXCEPT !.count = c] \in Models /\ [m EXCEPT !.count = c].items = m.items
      /\ [m EXCEPT !.count = c].index = m.index
  BY <1>1 DEF Models
<1> QED BY <1>2 DEF ModelOK, IndexExact

\* A new model caches nothing.
LEMMA NewModelOK ==
  ASSUME NEW c \in Nat
  PROVE  ModelOK(NewModel(c)) /\ Cached(NewModel(c)) = 0
<1> DEFINE f == [i \in {} |-> 0]
<1>1. f \in [{} -> ItemIds] /\ f \in [{} -> Nat] /\ DOMAIN f = {}
  OBVIOUS
<1>2. IsFiniteSet({}) /\ Cardinality({}) = 0
  BY FS_EmptySet
<1>3. {} \in SUBSET Nat /\ {} \in SUBSET ItemIds
  OBVIOUS
<1>4. ModelOK([count |-> c, items |-> f, index |-> f])
  <2> HIDE DEF f
  <2> QED BY <1>1, <1>2, <1>3, ModelMade
<1> QED BY <1>1, <1>2, <1>4 DEF NewModel, Cached

\* Forgetting positions.
LEMMA ForgetOK ==
  ASSUME NEW m, ModelOK(m), NEW positions
  PROVE  LET w == Forget(m, positions) IN
         /\ ModelOK(w) /\ w.count = m.count
         /\ DOMAIN w.items = DOMAIN m.items \ positions
         /\ DOMAIN w.index = DOMAIN m.index \ {m.items[i] : i \in positions \cap DOMAIN m.items}
<1> DEFINE D == DOMAIN m.items \ positions
           gone == {m.items[i] : i \in positions \cap DOMAIN m.items}
           X == DOMAIN m.index \ gone
           f == [i \in D |-> m.items[i]]
           g == [x \in X |-> m.index[x]]
           w == [count |-> m.count, items |-> f, index |-> g]
<1>1. Forget(m, positions) = w
  <2>1. m \in Models
    BY ModelParts
  <2>2. Forget(m, positions) = [m EXCEPT !.items = f, !.index = g]
    BY DEF Forget, Drop
  <2> HIDE DEF f, g
  <2> QED BY <2>1, <2>2, ModelChanged
<1>2. /\ D \in SUBSET Nat /\ f \in [D -> ItemIds] /\ X \in SUBSET ItemIds /\ g \in [X -> Nat]
  BY ModelParts
<1>3. IsFiniteSet(D)
  BY ModelParts, FS_Subset
<1>4. \A i \in D : f[i] \in X /\ g[f[i]] = i
  BY ModelParts
<1>5. \A x \in X : g[x] \in D /\ f[g[x]] = x
  BY ModelParts
<1>6. ModelOK(w)
  <2> HIDE DEF D, X, f, g
  <2>1. m.count \in Nat
    BY ModelParts
  <2> QED BY <1>2, <1>3, <1>4, <1>5, <2>1, ModelMade
<1> QED BY <1>1, <1>6

\* Caching items that are new, where nothing is cached.
LEMMA StoreOK ==
  ASSUME NEW m, ModelOK(m), NEW start \in Nat, NEW items \in Seq(ItemIds), IsInjective(items),
         ToSet(items) \cap DOMAIN m.index = {},
         \A i \in DOMAIN m.items : i \notin start .. start + Len(items) - 1
  PROVE  LET w == Store(m, start, items) IN
         /\ ModelOK(w) /\ w.count = m.count
         /\ DOMAIN w.items = DOMAIN m.items \cup (start .. start + Len(items) - 1)
<1> DEFINE R == start .. start + Len(items) - 1
           D == DOMAIN m.items \cup R
           X == DOMAIN m.index \cup ToSet(items)
           spot(x) == CHOOSE k \in DOMAIN items : items[k] = x
           f == [i \in D |-> IF i \in R THEN items[i - start + 1] ELSE m.items[i]]
           g == [x \in X |-> IF x \in ToSet(items) THEN start + spot(x) - 1 ELSE m.index[x]]
           w == [count |-> m.count, items |-> f, index |-> g]
<1>1. Store(m, start, items) = w
  <2>1. m \in Models
    BY ModelParts
  <2>2. Store(m, start, items) = [m EXCEPT !.items = f, !.index = g]
    BY <2>1 DEF Store, Models
  <2> HIDE DEF f, g
  <2> QED BY <2>1, <2>2, ModelChanged
<1>2. Len(items) \in Nat /\ DOMAIN items = 1..Len(items) /\ items \in [1..Len(items) -> ItemIds]
  OBVIOUS
<1>3. ToSet(items) = {items[k] : k \in 1..Len(items)}
  BY <1>2 DEF ToSet
<1>4. \A x \in ToSet(items) : spot(x) \in 1..Len(items) /\ items[spot(x)] = x
  BY <1>2, <1>3
<1>5. \A k \in 1..Len(items) : items[k] \in ToSet(items) /\ spot(items[k]) = k
  BY <1>2, <1>3, <1>4 DEF IsInjective
<1> HIDE DEF spot
<1>6. \A i \in R : i - start + 1 \in 1..Len(items) /\ i \in Nat
  BY <1>2
<1>7. \A k \in 1..Len(items) : start + k - 1 \in R /\ (start + k - 1) - start + 1 = k /\ start + k - 1 \in Nat
  BY <1>2
<1>8. /\ D \in SUBSET Nat /\ X \in SUBSET ItemIds
  BY <1>2, <1>3, <1>6, ModelParts
<1>9. f \in [D -> ItemIds] /\ g \in [X -> Nat]
  <2>1. ASSUME NEW i \in D PROVE f[i] \in ItemIds
    BY <1>2, <1>6, ModelParts
  <2>2. ASSUME NEW x \in X PROVE g[x] \in Nat
    BY <1>4, <1>7, ModelParts
  <2> QED BY <2>1, <2>2
<1>10. IsFiniteSet(D)
  <2>1. IsFiniteSet(R)
    <3>1. start \in Int /\ start + Len(items) - 1 \in Int
      BY <1>2
    <3> QED BY <3>1, FS_Interval
  <2> QED BY <2>1, ModelParts, FS_Union
<1>11. ASSUME NEW i \in D PROVE f[i] \in X /\ g[f[i]] = i
  <2>1. CASE i \in R
    <3>1. f[i] = items[i - start + 1] /\ f[i] \in ToSet(items) /\ spot(f[i]) = i - start + 1
      BY <1>5, <1>6, <2>1
    <3>2. g[f[i]] = start + (i - start + 1) - 1
      BY <3>1
    <3> QED BY <1>6, <2>1, <3>1, <3>2
  <2>2. CASE i \notin R
    BY <2>2, ModelParts
  <2> QED BY <2>1, <2>2
<1>12. ASSUME NEW x \in X PROVE g[x] \in D /\ f[g[x]] = x
  <2>1. CASE x \in ToSet(items)
    BY <1>4, <1>7, <2>1
  <2>2. CASE x \notin ToSet(items)
    <3>1. g[x] = m.index[x] /\ m.index[x] \in DOMAIN m.items /\ m.index[x] \notin R
      BY <2>2, ModelParts
    <3> QED BY <2>2, <3>1, ModelParts
  <2> QED BY <2>1, <2>2
<1>13. ModelOK(w)
  <2>1. m.count \in Nat
    BY ModelParts
  <2> HIDE DEF D, X, f, g, R
  <2>2. \A i \in D : f[i] \in X /\ g[f[i]] = i
    BY <1>11
  <2>3. \A x \in X : g[x] \in D /\ f[g[x]] = x
    BY <1>12
  <2> QED BY <1>8, <1>9, <1>10, <2>1, <2>2, <2>3, ModelMade
<1> QED BY <1>1, <1>13

\* Moving what is cached from a position on, into places where nothing is cached.
LEMMA ShiftOK ==
  ASSUME NEW m, ModelOK(m), NEW from \in Nat, NEW delta \in Int, from + delta \in Nat,
         \A i \in DOMAIN m.items : ~(from + delta <= i /\ i < from)
  PROVE  LET w == shift_cached_indices(m, from, delta)
             moved == {i \in DOMAIN m.items : i >= from}
         IN  /\ ModelOK(w) /\ w.count = m.count /\ DOMAIN w.index = DOMAIN m.index
             /\ DOMAIN w.items = (DOMAIN m.items \ moved) \cup {j + delta : j \in moved}
             /\ Cached(w) <= Cached(m)
<1> DEFINE moved == {i \in DOMAIN m.items : i >= from}
           D == (DOMAIN m.items \ moved) \cup {j + delta : j \in moved}
           X == DOMAIN m.index
           spot(x) == CHOOSE i \in moved : m.items[i] = x
           f == [i \in D |-> IF i - delta \in moved THEN m.items[i - delta] ELSE m.items[i]]
           g == [x \in X |-> IF x \in {m.items[i] : i \in moved} THEN spot(x) + delta ELSE m.index[x]]
           w == [count |-> m.count, items |-> f, index |-> g]
<1>1. shift_cached_indices(m, from, delta) = w
  <2>1. m \in Models
    BY ModelParts
  <2>2. shift_cached_indices(m, from, delta) = [m EXCEPT !.items = f, !.index = g]
    BY <2>1 DEF shift_cached_indices, Models
  <2> HIDE DEF f, g
  <2> QED BY <2>1, <2>2, ModelChanged
<1>2. \A i \in DOMAIN m.items : i \in Nat
  BY ModelParts
<1>3. \A i \in moved : i \in DOMAIN m.items /\ i \in Nat /\ i >= from /\ i + delta \in Nat /\ (i + delta) - delta = i
  BY <1>2
<1>4. ASSUME NEW i \in D
      PROVE  /\ i - delta \in moved => i - delta \in DOMAIN m.items
             /\ i - delta \notin moved => i \in DOMAIN m.items /\ i < from
  BY <1>2, <1>3
<1>5. ASSUME NEW i \in DOMAIN m.items, i < from PROVE i \in D /\ i - delta \notin moved
  BY <1>2, <1>3, <1>5
<1>6. ASSUME NEW x \in X, x \in {m.items[i] : i \in moved}
      PROVE  spot(x) = m.index[x] /\ m.index[x] \in moved
  <2>1. \A i \in moved : m.items[i] = x => i = m.index[x]
    BY <1>3, ModelParts
  <2>2. \E i \in moved : m.items[i] = x
    BY <1>6
  <2> QED BY <2>1, <2>2
<1>7. ASSUME NEW x \in X, x \notin {m.items[i] : i \in moved}
      PROVE  m.index[x] \notin moved /\ m.index[x] \in DOMAIN m.items /\ m.index[x] < from
  BY <1>2, <1>7, ModelParts
<1>8. D \in SUBSET Nat /\ X \in SUBSET ItemIds
  BY <1>2, <1>3, ModelParts
<1>9. \A x \in X : g[x] = IF m.index[x] \in moved THEN m.index[x] + delta ELSE m.index[x]
  <2> SUFFICES ASSUME NEW x \in X
               PROVE  g[x] = IF m.index[x] \in moved THEN m.index[x] + delta ELSE m.index[x]
    OBVIOUS
  <2>1. g[x] = IF x \in {m.items[i] : i \in moved} THEN spot(x) + delta ELSE m.index[x]
    OBVIOUS
  <2> HIDE DEF g, spot, moved
  <2> QED BY <2>1, <1>6, <1>7
<1>10. \A i \in D : f[i] = IF i - delta \in moved THEN m.items[i - delta] ELSE m.items[i]
  OBVIOUS
<1>11. DOMAIN f = D /\ DOMAIN g = X /\ f = [i \in D |-> f[i]] /\ g = [x \in X |-> g[x]]
  OBVIOUS
<1>12. \A j \in moved : j + delta \in D
  OBVIOUS
<1> HIDE DEF f, g, spot
<1>13. ASSUME NEW i \in D PROVE f[i] \in X /\ g[f[i]] = i /\ f[i] \in ItemIds
  <2>1. CASE i - delta \in moved
    <3>1. f[i] = m.items[i - delta] /\ m.index[f[i]] = i - delta /\ f[i] \in X /\ f[i] \in ItemIds
      BY <1>4, <1>10, <2>1, ModelParts
    <3>2. i \in Int
      BY <1>8
    <3> QED BY <1>9, <2>1, <3>1, <3>2
  <2>2. CASE i - delta \notin moved
    <3>1. f[i] = m.items[i] /\ m.index[f[i]] = i /\ f[i] \in X /\ f[i] \in ItemIds /\ i < from
      BY <1>4, <1>10, <2>2, ModelParts
    <3>2. i \notin moved
      BY <1>3, <1>8, <3>1
    <3> QED BY <1>9, <3>1, <3>2
  <2> QED BY <2>1, <2>2
<1>14. ASSUME NEW x \in X PROVE g[x] \in D /\ f[g[x]] = x /\ g[x] \in Nat
  <2>0. m.index[x] \in DOMAIN m.items /\ m.items[m.index[x]] = x /\ m.index[x] \in Nat
    BY ModelParts
  <2>1. CASE m.index[x] \in moved
    <3>1. g[x] = m.index[x] + delta /\ g[x] \in D /\ g[x] - delta = m.index[x] /\ g[x] \in Nat
      BY <1>3, <1>9, <1>12, <2>0, <2>1
    <3> QED BY <1>10, <2>0, <2>1, <3>1
  <2>2. CASE m.index[x] \notin moved
    <3>1. m.index[x] < from
      BY <2>0, <2>2
    <3>2. g[x] = m.index[x] /\ g[x] \in D /\ g[x] - delta \notin moved
      BY <1>5, <1>9, <2>0, <2>2, <3>1
    <3> QED BY <1>10, <2>0, <3>2
  <2> QED BY <2>1, <2>2
<1>15. IsFiniteSet(D) /\ Cardinality(D) <= Cardinality(DOMAIN m.items)
  <2> DEFINE h == [i \in D |-> IF i - delta \in moved THEN i - delta ELSE i]
  <2>1. h \in [D -> DOMAIN m.items]
    BY <1>4
  <2>2. ASSUME NEW i \in D, NEW j \in D, h[i] = h[j] PROVE i = j
    <3>1. i \in Nat /\ j \in Nat
      BY <1>8
    <3>2. i - delta \notin moved => i < from
      BY <1>4
    <3>3. j - delta \notin moved => j < from
      BY <1>4
    <3>4. i - delta \in moved => i - delta >= from
      OBVIOUS
    <3>5. j - delta \in moved => j - delta >= from
      OBVIOUS
    <3> HIDE DEF moved
    <3>6. h[i] = (IF i - delta \in moved THEN i - delta ELSE i) /\ h[j] = (IF j - delta \in moved THEN j - delta ELSE j)
      OBVIOUS
    <3> HIDE DEF h, D
    <3>7. CASE i - delta \in moved /\ j - delta \in moved
      <4>1. i - delta = j - delta
        BY <2>2, <3>6, <3>7
      <4> QED BY <3>1, <4>1
    <3>8. CASE i - delta \in moved /\ j - delta \notin moved
      <4>1. i - delta = j
        BY <2>2, <3>6, <3>8
      <4> QED BY <3>1, <3>3, <3>4, <3>8, <4>1
    <3>9. CASE i - delta \notin moved /\ j - delta \in moved
      <4>1. i = j - delta
        BY <2>2, <3>6, <3>9
      <4> QED BY <3>1, <3>2, <3>5, <3>9, <4>1
    <3>10. CASE i - delta \notin moved /\ j - delta \notin moved
      BY <2>2, <3>6, <3>10
    <3> QED BY <3>7, <3>8, <3>9, <3>10
  <2>3. h \in Injection(D, DOMAIN m.items)
    <3> HIDE DEF h, D
    <3> QED BY <2>1, <2>2 DEF Injection, IsInjective
  <2>4. IsFiniteSet(DOMAIN m.items)
    BY ModelParts
  <2> QED BY <2>3, <2>4, FS_Injection
<1>16. ModelOK(w)
  <2>1. m.count \in Nat
    BY ModelParts
  <2> HIDE DEF D, X
  <2>2. f \in [D -> ItemIds] /\ g \in [X -> Nat]
    BY <1>11, <1>13, <1>14
  <2>3. \A i \in D : f[i] \in X /\ g[f[i]] = i
    BY <1>13
  <2>4. \A x \in X : g[x] \in D /\ f[g[x]] = x
    BY <1>14
  <2> QED BY <1>8, <1>15, <2>1, <2>2, <2>3, <2>4, ModelMade
<1>17. DOMAIN w.items = D /\ DOMAIN w.index = X /\ w.count = m.count /\ Cached(w) = Cardinality(D)
  BY <1>11 DEF Cached
<1> QED BY <1>1, <1>15, <1>16, <1>17 DEF Cached

\* What the cache of a model may not outgrow, if it holds before.
Within(m, w) == Cached(m) <= MaxCached => Cached(w) <= MaxCached

\* Fewer cached positions are within the limit.
LEMMA FewerWithin ==
  ASSUME NEW m, ModelOK(m), NEW w, DOMAIN w.items \subseteq DOMAIN m.items
  PROVE  Cached(w) <= Cached(m) /\ Within(m, w)
<1>1. IsFiniteSet(DOMAIN m.items) /\ DOMAIN w.items \in SUBSET (DOMAIN m.items)
  BY ModelParts
<1>2. Cached(w) <= Cached(m) /\ IsFiniteSet(DOMAIN w.items)
  BY <1>1, FS_Subset DEF Cached
<1>3. Cached(w) \in Nat /\ Cached(m) \in Nat
  BY <1>1, <1>2, FS_CardinalityType DEF Cached
<1> QED BY <1>2, <1>3, ModelAssumption DEF Within

\* A stretch of positions and as many items as it is long.
LEMMA StretchSize ==
  ASSUME NEW start \in Nat, NEW len \in Nat
  PROVE  IsFiniteSet(start .. start + len - 1) /\ Cardinality(start .. start + len - 1) = len
<1>1. start \in Int /\ start + len - 1 \in Int
  OBVIOUS
<1>2. /\ IsFiniteSet(start .. start + len - 1)
      /\ Cardinality(start .. start + len - 1) =
           IF start > start + len - 1 THEN 0 ELSE (start + len - 1) - start + 1
  BY <1>1, FS_Interval
<1> QED BY <1>2

\* insert_items keeps the maps exact and the cache within its limit.
LEMMA InsertItemsOK ==
  ASSUME NEW m, ModelOK(m), NEW at \in Nat, NEW items \in Seq(ItemIds)
  PROVE  LET r == insert_items(m, at, items) IN
         r.ok \in BOOLEAN /\ ModelOK(r.model) /\ Within(m, r.model)
<1> DEFINE n == Len(items)
           w == shift_cached_indices(m, at, n)
           v == Store(w, at, items)
           fits == ~(\/ n > MaxBatch \/ Cached(m) + n > MaxCached \/ at > m.count
                     \/ ToSet(items) \cap DOMAIN m.index # {} \/ ~IsInjective(items))
<1>1. n \in Nat /\ n \in Int /\ at + n \in Nat
  OBVIOUS
<1>2. \A i \in DOMAIN m.items : i \in Nat /\ ~(at + n <= i /\ i < at)
  BY <1>1, ModelParts
<1> DEFINE moved == {i \in DOMAIN m.items : i >= at}
<1>3. /\ ModelOK(w) /\ w.count = m.count /\ DOMAIN w.index = DOMAIN m.index
      /\ DOMAIN w.items = (DOMAIN m.items \ moved) \cup {j + n : j \in moved}
      /\ Cached(w) <= Cached(m)
  <2> HIDE DEF n
  <2> QED BY <1>1, <1>2, ShiftOK
<1>4. CASE fits
  <2>1. \A i \in DOMAIN w.items : i \notin at .. at + n - 1
    BY <1>1, <1>2, <1>3
  <2> HIDE DEF w
  <2>2. /\ ModelOK(v) /\ v.count = m.count
        /\ DOMAIN v.items = DOMAIN w.items \cup (at .. at + n - 1)
    BY <1>3, <1>4, <2>1, StoreOK
  <2> HIDE DEF v, n
  <2>3. ModelOK([v EXCEPT !.count = m.count + n]) /\ [v EXCEPT !.count = m.count + n].items = v.items
    <3>1. m.count + n \in Nat
      BY <1>1, ModelParts
    <3> QED BY <2>2, <3>1, ModelCounted
  <2>4. insert_items(m, at, items) = Accept([v EXCEPT !.count = m.count + n])
    BY <1>4, <2>2 DEF insert_items, w, v, n
  <2>5. Cached(v) <= MaxCached
    <3>1. IsFiniteSet(DOMAIN w.items) /\ IsFiniteSet(DOMAIN m.items)
      BY <1>3, ModelParts
    <3>2. IsFiniteSet(at .. at + n - 1) /\ Cardinality(at .. at + n - 1) = n
      BY <1>1, StretchSize
    <3>3. /\ Cardinality(DOMAIN w.items \cup (at .. at + n - 1)) =
               Cardinality(DOMAIN w.items) + n - Cardinality(DOMAIN w.items \cap (at .. at + n - 1))
      BY <3>1, <3>2, FS_Union
    <3>4. IsFiniteSet(DOMAIN w.items \cap (at .. at + n - 1))
      BY <3>1, FS_Intersection
    <3>5. /\ Cardinality(DOMAIN w.items \cap (at .. at + n - 1)) \in Nat
          /\ Cardinality(DOMAIN w.items) \in Nat /\ Cardinality(DOMAIN m.items) \in Nat
      BY <3>1, <3>4, FS_CardinalityType
    <3>6. Cached(v) <= Cached(m) + n /\ Cached(v) \in Int /\ Cached(m) \in Nat
      BY <1>1, <1>3, <2>2, <3>3, <3>5 DEF Cached
    <3>7. Cached(m) + n <= MaxCached
      BY <1>1, <1>4, <3>6, ModelAssumption
    <3> QED BY <1>1, <3>6, <3>7, ModelAssumption
  <2> DEFINE u == [v EXCEPT !.count = m.count + n]
  <2> HIDE DEF u
  <2>6. ModelOK(u) /\ u.items = v.items /\ insert_items(m, at, items) = Accept(u)
    BY <2>3, <2>4 DEF u
  <2>7. Within(m, u)
    BY <2>5, <2>6 DEF Within, Cached
  <2> QED BY <2>6, <2>7 DEF Accept
<1>5. CASE ~fits
  <2>1. insert_items(m, at, items) = Refuse(m)
    BY <1>5 DEF insert_items
  <2> QED BY <2>1 DEF Refuse, Within
<1> QED BY <1>4, <1>5

\* One identity less.
LEMMA DeleteIdentityOK ==
  ASSUME NEW m, ModelOK(m), NEW x
  PROVE  ModelOK(DeleteIdentity(m, x)) /\ Cached(DeleteIdentity(m, x)) <= Cached(m)
<1> DEFINE c == IF m.count > 0 THEN m.count - 1 ELSE 0
           fewer == [m EXCEPT !.count = c]
           p == m.index[x]
           cut == [fewer EXCEPT !.items = Drop(fewer.items, {p}), !.index = Drop(fewer.index, {x})]
<1>0. Cached(m) \in Nat
  BY ModelParts, FS_CardinalityType DEF Cached
<1>1. c \in Nat
  BY ModelParts
<1>2. ModelOK(fewer) /\ fewer.items = m.items /\ fewer.index = m.index
  <2> HIDE DEF c
  <2> QED BY <1>1, ModelCounted
<1>3. DeleteIdentity(m, x) = IF x \notin DOMAIN m.index THEN fewer ELSE shift_cached_indices(cut, p + 1, -1)
  <2>1. fewer = [m EXCEPT !.count = IF @ > 0 THEN @ - 1 ELSE 0]
    BY ModelParts DEF Models
  <2> HIDE DEF fewer
  <2> QED BY <2>1 DEF DeleteIdentity
<1>4. CASE x \notin DOMAIN m.index
  <2> HIDE DEF fewer
  <2> QED BY <1>0, <1>2, <1>3, <1>4 DEF Cached
<1>5. CASE x \in DOMAIN m.index
  <2>1. p \in DOMAIN m.items /\ m.items[p] = x /\ p \in Nat /\ \A i \in DOMAIN m.items : i \in Nat
    BY <1>5, ModelParts
  <2> HIDE DEF fewer, p
  <2>2. cut = Forget(fewer, {p})
    <3>1. {fewer.items[i] : i \in {p} \cap DOMAIN fewer.items} = {x}
      BY <1>2, <2>1
    <3> QED BY <3>1 DEF Forget
  <2> HIDE DEF cut
  <2>3. /\ ModelOK(cut) /\ DOMAIN cut.items = DOMAIN m.items \ {p}
    BY <1>2, <2>2, ForgetOK
  <2>4. Cached(cut) <= Cached(m)
    BY <2>3, FewerWithin
  <2>5. \A i \in DOMAIN cut.items : ~((p + 1) + (-1) <= i /\ i < p + 1)
    BY <2>1, <2>3
  <2>6. p + 1 \in Nat /\ -1 \in Int /\ (p + 1) + (-1) \in Nat
    BY <2>1
  <2> DEFINE w == shift_cached_indices(cut, p + 1, -1)
  <2>7. ModelOK(w) /\ Cached(w) <= Cached(cut)
    <3> DEFINE from == p + 1
               delta == -1
    <3>1. from \in Nat /\ delta \in Int /\ from + delta \in Nat
          /\ \A i \in DOMAIN cut.items : ~(from + delta <= i /\ i < from)
      BY <2>5, <2>6
    <3> HIDE DEF from, delta
    <3>2. LET u == shift_cached_indices(cut, from, delta) IN ModelOK(u) /\ Cached(u) <= Cached(cut)
      BY <2>3, <3>1, ShiftOK
    <3> QED BY <3>2 DEF from, delta
  <2> HIDE DEF w
  <2>8. Cached(w) \in Nat /\ Cached(cut) \in Nat
    BY <2>3, <2>7, ModelParts, FS_CardinalityType DEF Cached
  <2>9. DeleteIdentity(m, x) = w
    BY <1>3, <1>5 DEF w
  <2> QED BY <1>0, <2>4, <2>7, <2>8, <2>9
<1> QED BY <1>4, <1>5

\* MODEL_DELETE by identities: every model it goes through is in order and no larger.
LEMMA DeleteIdentitiesOK ==
  ASSUME NEW m, ModelOK(m), NEW ids \in Seq(ItemIds)
  PROVE  LET w == FoldLeft(DeleteIdentity, m, ids) IN ModelOK(w) /\ Cached(w) <= Cached(m)
<1> DEFINE n == Len(ids)
           T == {w \in Models : ModelOK(w) /\ Cached(w) <= Cached(m)}
           op(a, i) == DeleteIdentity(a, ids[i])
           step == [p \in T \X (1..n) |-> op(p[1], p[2])]
           it == CHOOSE f : f = [s \in SUBSET DOMAIN ids |->
                   IF s = {} THEN m ELSE op(f[s \ {Max(s)}], Max(s))]
<1>0. Cached(m) \in Nat
  BY ModelParts, FS_CardinalityType DEF Cached
<1>1. n \in Nat /\ DOMAIN ids = 1..n /\ m \in T
  BY <1>0, ModelParts
<1>2. FoldLeft(DeleteIdentity, m, ids) = it[DOMAIN ids]
  BY Zenon DEF FoldLeft, MapThenFoldSet
<1>3. step \in [T \X (1..n) -> T] /\ \A a \in T, i \in 1..n : step[<<a, i>>] = op(a, i)
  <2>1. ASSUME NEW a \in T, NEW i \in 1..n PROVE op(a, i) \in T
    <3> DEFINE b == op(a, i)
    <3>1. ModelOK(b) /\ Cached(b) <= Cached(a) /\ Cached(a) <= Cached(m) /\ ModelOK(a)
      BY DeleteIdentityOK
    <3> HIDE DEF b
    <3>2. b \in Models /\ Cached(a) \in Nat /\ Cached(b) \in Nat
      BY <3>1, ModelParts, FS_CardinalityType DEF Cached
    <3>3. b \in T
      BY <1>0, <3>1, <3>2
    <3> QED BY <3>3 DEF b
  <2> HIDE DEF op, T, n
  <2> QED BY <2>1
<1> HIDE DEF op, step, T, n
<1>4. PICK g \in [SUBSET (1..n) -> T] : Solves(g, m, step, n)
  BY <1>1, <1>3, FoldExists
<1>5. \A s \in SUBSET (1..n) : s # {} => Max(s) \in 1..n /\ s \ {Max(s)} \in SUBSET (1..n)
  BY <1>1, MaxOfPositions
<1>6. g = [s \in SUBSET DOMAIN ids |-> IF s = {} THEN m ELSE op(g[s \ {Max(s)}], Max(s))]
  <2>1. ASSUME NEW s \in SUBSET (1..n)
        PROVE  g[s] = IF s = {} THEN m ELSE op(g[s \ {Max(s)}], Max(s))
    <3>1. CASE s = {}
      BY <1>4, <3>1 DEF Solves
    <3>2. CASE s # {}
      <4>1. g[s \ {Max(s)}] \in T /\ Max(s) \in 1..n
        BY <1>4, <1>5, <3>2
      <4>2. g[s] = step[<<g[s \ {Max(s)}], Max(s)>>]
        BY <1>4, <3>2 DEF Solves
      <4> QED BY <1>3, <3>2, <4>1, <4>2
    <3> QED BY <3>1, <3>2
  <2> QED BY <1>1, <1>4, <2>1
<1>7. it = [s \in SUBSET DOMAIN ids |-> IF s = {} THEN m ELSE op(it[s \ {Max(s)}], Max(s))]
  BY <1>6, Zenon
<1> HIDE DEF it
<1>8. Iterates(it, m, step, T, n)
  BY <1>1, <1>3, <1>5, <1>7 DEF Iterates
<1>9. PICK c \in [0..n -> T] : Passes(c, m, step, n, it[1..n])
  BY <1>1, <1>3, <1>8, FoldTrace
<1>10. c[n] \in T /\ c[n] = FoldLeft(DeleteIdentity, m, ids)
  BY <1>1, <1>2, <1>9 DEF Passes
<1> QED BY <1>10 DEF T

\* delete_items keeps the maps exact and the cache within its limit.
LEMMA DeleteItemsOK ==
  ASSUME NEW m, ModelOK(m), NEW at \in Nat \cup {None}, NEW count \in Nat, NEW ids \in Seq(ItemIds)
  PROVE  LET r == delete_items(m, at, count, ids) IN
         r.ok \in BOOLEAN /\ ModelOK(r.model) /\ Within(m, r.model)
<1> DEFINE from == IF at = None THEN 0 ELSE at
           inRange == {i \in DOMAIN m.items : from <= i /\ i < from + count}
           r == delete_items(m, at, count, ids)
           folded == FoldLeft(DeleteIdentity, m, ids)
           kept == Forget(m, inRange)
           w == shift_cached_indices(kept, from + count, -count)
           v == [w EXCEPT !.count = @ - count]
<1>0. Cached(m) \in Nat /\ m.count \in Nat
  BY ModelParts, FS_CardinalityType DEF Cached
<1>1. from \in Nat
  BY DEF None
<1>2. r = Refuse(m) \/ (ids # <<>> /\ r = Accept(folded))
        \/ (count > 0 /\ from + count <= m.count /\ r = Accept(v)) \/ r = Accept(m)
  <2>1. CASE Len(ids) > MaxBatch \/ (count > 0 /\ ids # <<>>)
    BY <2>1 DEF delete_items
  <2>2. CASE ~(Len(ids) > MaxBatch \/ (count > 0 /\ ids # <<>>)) /\ ids # <<>>
    BY <2>2 DEF delete_items
  <2>3. CASE ~(Len(ids) > MaxBatch \/ (count > 0 /\ ids # <<>>)) /\ ids = <<>>
    <3>1. CASE count > 0 /\ from + count > m.count
      BY <2>3, <3>1 DEF delete_items
    <3>2. CASE count > 0 /\ from + count <= m.count
      <4>1. ~(from + count > m.count)
        BY <1>0, <1>1, <3>2
      <4> QED BY <2>3, <3>2, <4>1 DEF delete_items
    <3>3. CASE ~(count > 0)
      BY <2>3, <3>3 DEF delete_items
    <3> QED BY <1>0, <1>1, <3>1, <3>2, <3>3
  <2> QED BY <2>1, <2>2, <2>3
<1>3. CASE r = Refuse(m) \/ r = Accept(m)
  <2> HIDE DEF r
  <2>1. Refuse(m).ok = FALSE /\ Refuse(m).model = m /\ Accept(m).ok = TRUE /\ Accept(m).model = m
    BY DEF Refuse, Accept
  <2>2. r.ok \in BOOLEAN /\ r.model = m
    BY <1>3, <2>1
  <2> QED BY <2>2 DEF Within, r
<1>4. CASE ids # <<>> /\ r = Accept(folded)
  <2>1. ModelOK(folded) /\ Cached(folded) <= Cached(m)
    BY DeleteIdentitiesOK
  <2> HIDE DEF folded, r
  <2>2. Cached(folded) \in Nat
    BY <2>1, ModelParts, FS_CardinalityType DEF Cached
  <2>3. Within(m, folded)
    BY <1>0, <2>1, <2>2, ModelAssumption DEF Within
  <2>4. r.ok = TRUE /\ r.model = folded
    BY <1>4 DEF Accept
  <2> QED BY <2>1, <2>3, <2>4 DEF r
<1>5. CASE count > 0 /\ from + count <= m.count /\ r = Accept(v)
  <2>1. ModelOK(kept) /\ kept.count = m.count /\ DOMAIN kept.items = DOMAIN m.items \ inRange
    BY ForgetOK
  <2>2. \A i \in DOMAIN kept.items : ~(from <= i /\ i < from + count)
    <3> HIDE DEF kept
    <3> QED BY <2>1
  <2>3. Cached(kept) <= Cached(m)
    <3> HIDE DEF kept
    <3> QED BY <2>1, FewerWithin
  <2> HIDE DEF kept, from, r
  <2>4. ModelOK(w) /\ Cached(w) <= Cached(kept) /\ w.count = m.count
    <3> DEFINE start == from + count
               delta == -count
    <3>1. start \in Nat /\ delta \in Int /\ start + delta = from /\ start + delta \in Nat
      BY <1>1
    <3>2. \A i \in DOMAIN kept.items : ~(start + delta <= i /\ i < start)
      BY <2>2, <3>1
    <3> HIDE DEF start, delta
    <3>3. LET u == shift_cached_indices(kept, start, delta) IN
          ModelOK(u) /\ Cached(u) <= Cached(kept) /\ u.count = kept.count
      BY <2>1, <3>1, <3>2, ShiftOK
    <3> QED BY <2>1, <3>3 DEF start, delta
  <2> HIDE DEF w
  <2>5. m.count - count \in Nat
    BY <1>0, <1>1, <1>5
  <2>6. v = [w EXCEPT !.count = m.count - count]
    BY <2>4
  <2>7. ModelOK(v) /\ v.items = w.items
    <3> DEFINE d == m.count - count
    <3> HIDE DEF d
    <3>1. ModelOK([w EXCEPT !.count = d]) /\ [w EXCEPT !.count = d].items = w.items
      BY <2>4, <2>5, ModelCounted DEF d
    <3> QED BY <2>6, <3>1 DEF d
  <2> HIDE DEF v
  <2>8. Cached(v) \in Nat /\ Cached(w) \in Nat /\ Cached(kept) \in Nat /\ Cached(v) = Cached(w)
    BY <2>1, <2>4, <2>7, ModelParts, FS_CardinalityType DEF Cached
  <2>9. Within(m, v)
    BY <1>0, <2>3, <2>4, <2>8, ModelAssumption DEF Within
  <2>10. r.ok = TRUE /\ r.model = v
    BY <1>5 DEF Accept
  <2> QED BY <2>7, <2>9, <2>10 DEF r
<1> QED BY <1>2, <1>3, <1>4, <1>5

\* A positional update of one item.
LEMMA PutAtOK ==
  ASSUME NEW m, ModelOK(m), NEW at \in Nat, NEW x \in ItemIds
  PROVE  /\ ModelOK(PutAt(m, at, x)) /\ PutAt(m, at, x).count = m.count
         /\ DOMAIN PutAt(m, at, x).items \subseteq DOMAIN m.items \cup {at}
<1> DEFINE old == IF x \in DOMAIN m.index THEN {m.index[x]} \ {at} ELSE {}
           w == Forget(m, old \cup {at})
           one == <<x>>
<1>1. /\ ModelOK(w) /\ w.count = m.count /\ DOMAIN w.items = DOMAIN m.items \ (old \cup {at})
      /\ DOMAIN w.index = DOMAIN m.index \ {m.items[i] : i \in (old \cup {at}) \cap DOMAIN m.items}
  BY ForgetOK
<1>2. x \notin DOMAIN w.index
  <2>1. CASE x \in DOMAIN m.index
    <3>1. m.index[x] \in (old \cup {at}) \cap DOMAIN m.items /\ m.items[m.index[x]] = x
      BY <2>1, ModelParts
    <3> HIDE DEF w, old
    <3> QED BY <1>1, <3>1
  <2>2. CASE x \notin DOMAIN m.index
    BY <1>1, <2>2
  <2> QED BY <2>1, <2>2
<1>3. one \in Seq(ItemIds) /\ Len(one) = 1 /\ IsInjective(one) /\ ToSet(one) = {x}
  BY DEF IsInjective, ToSet
<1>4. at .. at + Len(one) - 1 = {at}
  BY <1>3
<1>5. PutAt(m, at, x) = Store(w, at, one)
  BY DEF PutAt
<1> HIDE DEF w, one, old
<1>6. ToSet(one) \cap DOMAIN w.index = {} /\ \A i \in DOMAIN w.items : i \notin at .. at + Len(one) - 1
  BY <1>1, <1>2, <1>3, <1>4
<1>7. LET v == Store(w, at, one) IN
      /\ ModelOK(v) /\ v.count = w.count /\ DOMAIN v.items = DOMAIN w.items \cup (at .. at + Len(one) - 1)
  <2>1. ModelOK(w)
    BY <1>1
  <2>2. one \in Seq(ItemIds) /\ IsInjective(one)
    BY <1>3
  <2> QED BY <1>6, <2>1, <2>2, StoreOK
<1> QED BY <1>1, <1>4, <1>5, <1>7

\* An update by position is one of what is cached.
ByCached(m, at, items) == at # None => at .. at + Len(items) - 1 \subseteq DOMAIN m.items

\* update_items, item by item: also one that is refused leaves the maps exact; an
\* update of what is cached leaves the cache no larger.
LEMMA UpdateItemsOK ==
  ASSUME NEW m, ModelOK(m), NEW at \in Nat \cup {None}, NEW items \in Seq(ItemIds)
  PROVE  LET r == update_items(m, at, items) IN
         /\ r.ok \in BOOLEAN /\ ModelOK(r.model)
         /\ ByCached(m, at, items) => DOMAIN r.model.items \subseteq DOMAIN m.items
<1> DEFINE n == Len(items)
           T == {r \in [ok : BOOLEAN, model : Models] :
                   ModelOK(r.model) /\ (ByCached(m, at, items) => DOMAIN r.model.items \subseteq DOMAIN m.items)}
           seq == [k \in DOMAIN items |-> k]
           one(acc, k) ==
             CASE ~acc.ok -> acc
               [] acc.ok /\ at # None ->
                    IF at + k - 1 >= m.count THEN Refuse(acc.model)
                    ELSE Accept(PutAt(acc.model, at + k - 1, items[k]))
               [] OTHER -> IF items[k] \in DOMAIN acc.model.index THEN acc ELSE Refuse(acc.model)
           op(a, i) == one(a, seq[i])
           base == Accept(m)
           step == [p \in T \X (1..n) |-> op(p[1], p[2])]
           it == CHOOSE f : f = [s \in SUBSET DOMAIN seq |->
                   IF s = {} THEN base ELSE op(f[s \ {Max(s)}], Max(s))]
<1>1. n \in Nat /\ DOMAIN items = 1..n /\ DOMAIN seq = 1..n /\ \A i \in 1..n : seq[i] = i /\ items[i] \in ItemIds
  OBVIOUS
<1>1a. base \in T
  <2>1. base \in [ok : BOOLEAN, model : Models] /\ base.model = m
    BY ModelParts DEF Accept
  <2> HIDE DEF base
  <2> QED BY <2>1
<1>2. update_items(m, at, items) = IF n > MaxBatch THEN Refuse(m) ELSE it[DOMAIN seq]
  BY Zenon DEF update_items, FoldLeft, MapThenFoldSet
<1>3. step \in [T \X (1..n) -> T] /\ \A a \in T, i \in 1..n : step[<<a, i>>] = op(a, i)
  <2>1. ASSUME NEW a \in T, NEW i \in 1..n PROVE op(a, i) \in T
    <3>1. op(a, i) = one(a, i)
      BY <1>1
    <3>2. a.ok \in BOOLEAN /\ ModelOK(a.model) /\ a.model \in Models
          /\ (ByCached(m, at, items) => DOMAIN a.model.items \subseteq DOMAIN m.items)
      OBVIOUS
    <3>3. ASSUME NEW u, ModelOK(u), ByCached(m, at, items) => DOMAIN u.items \subseteq DOMAIN m.items
          PROVE  Refuse(u) \in T /\ Accept(u) \in T
      <4>1. u \in Models
        BY <3>3, ModelParts
      <4>2. Refuse(u) \in [ok : BOOLEAN, model : Models] /\ Refuse(u).model = u
        BY <4>1 DEF Refuse
      <4>3. Accept(u) \in [ok : BOOLEAN, model : Models] /\ Accept(u).model = u
        BY <4>1 DEF Accept
      <4> QED BY <3>3, <4>2, <4>3
    <3>4. CASE ~a.ok
      BY <3>1, <3>4
    <3>5. CASE a.ok /\ at # None
      <4> DEFINE pos == at + i - 1
                 u == PutAt(a.model, pos, items[i])
      <4>1. pos \in Nat /\ pos \in at .. at + n - 1
        BY <1>1, <3>5 DEF None
      <4>2. items[i] \in ItemIds
        BY <1>1
      <4>3. ModelOK(u) /\ DOMAIN u.items \subseteq DOMAIN a.model.items \cup {pos}
        <5> HIDE DEF pos
        <5> QED BY <3>2, <4>1, <4>2, PutAtOK
      <4>4. ByCached(m, at, items) => pos \in DOMAIN m.items
        BY <3>5, <4>1 DEF ByCached
      <4>5. op(a, i) = IF pos >= m.count THEN Refuse(a.model) ELSE Accept(u)
        BY <3>1, <3>5
      <4> HIDE DEF u, pos, op
      <4>6. ByCached(m, at, items) => DOMAIN u.items \subseteq DOMAIN m.items
        BY <3>2, <4>3, <4>4
      <4>7. Accept(u) \in T /\ Refuse(a.model) \in T
        BY <3>2, <3>3, <4>3, <4>6
      <4> QED BY <4>5, <4>7
    <3>6. CASE a.ok /\ ~(at # None)
      <4>1. op(a, i) = IF items[i] \in DOMAIN a.model.index THEN a ELSE Refuse(a.model)
        BY <3>1, <3>6
      <4>2. Refuse(a.model) \in T
        BY <3>2, <3>3
      <4> HIDE DEF op, T
      <4> QED BY <4>1, <4>2
    <3> QED BY <3>4, <3>5, <3>6
  <2> HIDE DEF op, T, n
  <2> QED BY <2>1
<1> HIDE DEF op, step, T, n, seq, base
<1>4. PICK g \in [SUBSET (1..n) -> T] : Solves(g, base, step, n)
  BY <1>1, <1>1a, <1>3, FoldExists
<1>5. \A s \in SUBSET (1..n) : s # {} => Max(s) \in 1..n /\ s \ {Max(s)} \in SUBSET (1..n)
  BY <1>1, MaxOfPositions
<1>6. g = [s \in SUBSET DOMAIN seq |-> IF s = {} THEN base ELSE op(g[s \ {Max(s)}], Max(s))]
  <2>1. ASSUME NEW s \in SUBSET (1..n)
        PROVE  g[s] = IF s = {} THEN base ELSE op(g[s \ {Max(s)}], Max(s))
    <3>1. CASE s = {}
      BY <1>4, <3>1 DEF Solves
    <3>2. CASE s # {}
      <4>1. g[s \ {Max(s)}] \in T /\ Max(s) \in 1..n
        BY <1>4, <1>5, <3>2
      <4>2. g[s] = step[<<g[s \ {Max(s)}], Max(s)>>]
        BY <1>4, <3>2 DEF Solves
      <4> QED BY <1>3, <3>2, <4>1, <4>2
    <3> QED BY <3>1, <3>2
  <2> QED BY <1>1, <1>4, <2>1
<1>7. it = [s \in SUBSET DOMAIN seq |-> IF s = {} THEN base ELSE op(it[s \ {Max(s)}], Max(s))]
  BY <1>6, Zenon
<1> HIDE DEF it
<1>8. Iterates(it, base, step, T, n)
  <2>1. DOMAIN seq = 1..n
    BY <1>1
  <2> QED BY <1>3, <1>5, <1>7, <2>1 DEF Iterates
<1>9. PICK c \in [0..n -> T] : Passes(c, base, step, n, it[1..n])
  BY <1>1, <1>1a, <1>3, <1>8, FoldTrace
<1>10. it[DOMAIN seq] \in T
  BY <1>1, <1>9 DEF Passes
<1>11. CASE ~(n > MaxBatch)
  <2>1. update_items(m, at, items) \in T
    BY <1>2, <1>10, <1>11
  <2> QED BY <2>1 DEF T
<1>12. CASE n > MaxBatch
  <2>1. update_items(m, at, items) = Refuse(m)
    BY <1>2, <1>12
  <2> QED BY <2>1 DEF Refuse
<1> QED BY <1>11, <1>12

\* reset_range keeps the maps exact and, evicting first, the cache within its limit.
LEMMA ResetRangeOK ==
  ASSUME NEW m, ModelOK(m), NEW start \in Nat, NEW items \in Seq(ItemIds), NEW total \in Nat
  PROVE  LET r == reset_range(m, start, items, total) IN
         r.ok \in BOOLEAN /\ ModelOK(r.model) /\ Within(m, r.model)
<1> DEFINE n == Len(items)
           end == start + n
           kept(x) == Cardinality({i \in DOMAIN x.items : i < start \/ i >= end}) + Len(items)
           evicted == IF kept(m) <= MaxCached THEN m
                      ELSE evict_farthest_outside(m, start, end, kept(m) - MaxCached)
           counted == IF total > 0 THEN [evicted EXCEPT !.count = total] ELSE evicted
           elsewhere == {x \in ToSet(items) : x \in DOMAIN counted.index
                                              /\ counted.index[x] \notin start .. end - 1}
           cut == Forget(counted, start .. end - 1)
           made == Store(cut, start, items)
           r == reset_range(m, start, items, total)
           refused == end > counted.count \/ ~IsInjective(items) \/ elsewhere # {}
<1>1. n \in Nat /\ end \in Nat
  OBVIOUS
<1>2. ModelOK(evicted) /\ DOMAIN evicted.items \subseteq DOMAIN m.items
  <2>1. CASE kept(m) <= MaxCached
    BY <2>1
  <2>2. CASE ~(kept(m) <= MaxCached)
    <3>1. \E positions : evicted = Forget(m, positions)
      BY <2>2 DEF evict_farthest_outside
    <3>2. PICK positions : evicted = Forget(m, positions)
      BY <3>1
    <3> HIDE DEF evicted
    <3> QED BY <3>2, ForgetOK
  <2> QED BY <2>1, <2>2
<1> HIDE DEF kept
<1>3. ModelOK(counted) /\ counted.items = evicted.items /\ counted.index = evicted.index
  <2> HIDE DEF evicted
  <2> QED BY <1>2, ModelCounted
<1>4. \/ r = Refuse(m) \/ r = Refuse(evicted)
      \/ kept(evicted) <= MaxCached /\ (r = Refuse(counted) \/ (~refused /\ r = Accept(made)))
  <2>0. kept(evicted) \in Int
    <3>1. IsFiniteSet({i \in DOMAIN evicted.items : i < start \/ i >= end})
      <4> HIDE DEF evicted
      <4> QED BY <1>2, ModelParts, FS_Subset
    <3>2. Cardinality({i \in DOMAIN evicted.items : i < start \/ i >= end}) \in Nat
      BY <3>1, FS_CardinalityType
    <3> QED BY <1>1, <3>2 DEF kept
  <2>1. CASE n > MaxBatch
    <3>1. ~(n <= MaxBatch)
      BY <1>1, <2>1, ModelAssumption
    <3> QED BY <2>1, <3>1 DEF reset_range
  <2>2. CASE ~(n > MaxBatch) /\ kept(evicted) > MaxCached
    <3>1. n <= MaxBatch
      BY <1>1, <2>2, ModelAssumption
    <3> QED BY <2>2, <3>1 DEF reset_range, kept
  <2>3. CASE ~(n > MaxBatch) /\ ~(kept(evicted) > MaxCached)
    <3>1. r = IF refused THEN Refuse(counted) ELSE Accept(made)
      BY <2>3 DEF reset_range, kept
    <3>2. kept(evicted) <= MaxCached
      BY <2>0, <2>3, ModelAssumption
    <3> HIDE DEF r, refused
    <3> QED BY <3>1, <3>2
  <2> QED BY <2>1, <2>2, <2>3
<1> HIDE DEF evicted
<1>5. ModelOK(cut) /\ DOMAIN cut.items = DOMAIN counted.items \ (start .. end - 1)
      /\ DOMAIN cut.index = DOMAIN counted.index
           \ {counted.items[i] : i \in (start .. end - 1) \cap DOMAIN counted.items}
  <2> DEFINE positions == start .. end - 1
  <2> HIDE DEF counted, end, positions
  <2>1. ModelOK(counted)
    BY <1>3
  <2>2. LET w == Forget(counted, positions) IN
        /\ ModelOK(w) /\ DOMAIN w.items = DOMAIN counted.items \ positions
        /\ DOMAIN w.index = DOMAIN counted.index \ {counted.items[i] : i \in positions \cap DOMAIN counted.items}
    BY <2>1, ForgetOK
  <2> QED BY <2>2 DEF positions
<1>6. CASE kept(evicted) <= MaxCached /\ ~refused /\ r = Accept(made)
  <2> HIDE DEF counted, r
  <2>1. ToSet(items) \cap DOMAIN cut.index = {}
    <3> SUFFICES ASSUME NEW x \in ToSet(items), x \in DOMAIN cut.index PROVE FALSE
      OBVIOUS
    <3>1. x \in DOMAIN counted.index
      BY <1>5
    <3>2. counted.index[x] \in DOMAIN counted.items /\ counted.items[counted.index[x]] = x
      BY <1>3, <3>1, ModelParts
    <3>3. counted.index[x] \in start .. end - 1
      BY <1>6, <3>1
    <3> HIDE DEF cut, end
    <3> QED BY <1>5, <3>2, <3>3
  <2>2. IsInjective(items)
    BY <1>6
  <2> HIDE DEF cut, elsewhere, refused
  <2>3. \A i \in DOMAIN cut.items : i \notin start .. start + Len(items) - 1
    BY <1>5
  <2>4. ModelOK(made) /\ DOMAIN made.items = DOMAIN cut.items \cup (start .. start + Len(items) - 1)
    BY <1>5, <2>1, <2>2, <2>3, StoreOK
  <2> DEFINE out == {i \in DOMAIN evicted.items : i < start \/ i >= end}
  <2>5. DOMAIN made.items = out \cup (start .. start + n - 1)
    <3>1. \A i \in DOMAIN evicted.items : i \in Nat
      BY <1>2, ModelParts
    <3>2. DOMAIN cut.items = DOMAIN evicted.items \ (start .. end - 1)
      BY <1>3, <1>5
    <3> HIDE DEF made
    <3> QED BY <1>1, <2>4, <3>1, <3>2
  <2>6. IsFiniteSet(out)
    BY <1>2, ModelParts, FS_Subset
  <2>7. IsFiniteSet(start .. start + n - 1) /\ Cardinality(start .. start + n - 1) = n
    BY <1>1, StretchSize
  <2> HIDE DEF out, made, n, end
  <2>8. /\ Cardinality(out \cup (start .. start + n - 1)) = Cardinality(out) + n - Cardinality(out \cap (start .. start + n - 1))
        /\ Cardinality(out) \in Nat /\ Cardinality(out \cap (start .. start + n - 1)) \in Nat
    BY <2>6, <2>7, FS_Union, FS_Intersection, FS_CardinalityType
  <2>9. Cardinality(out) + n <= MaxCached
    BY <1>6 DEF kept, out, n
  <2>10. Cached(made) <= MaxCached
    BY <1>1, <2>5, <2>8, <2>9, ModelAssumption DEF Cached
  <2>11. r.ok = TRUE /\ r.model = made
    BY <1>6 DEF Accept
  <2> QED BY <2>4, <2>10, <2>11 DEF Within, r
<1>7. CASE r = Refuse(m) \/ r = Refuse(evicted) \/ r = Refuse(counted)
  <2> HIDE DEF r, counted
  <2>1. r.ok = FALSE /\ (r.model = m \/ r.model = evicted \/ r.model = counted)
    BY <1>7 DEF Refuse
  <2>2. ModelOK(r.model) /\ DOMAIN r.model.items \subseteq DOMAIN m.items
    BY <1>2, <1>3, <2>1
  <2>3. Within(m, r.model)
    BY <2>2, FewerWithin
  <2> QED BY <2>1, <2>2, <2>3 DEF r
<1> HIDE DEF r, refused
<1> QED BY <1>4, <1>6, <1>7 DEF r

-----------------------------------------------------------------------------
(* The forest *)

Parents == NodeIds \cup {None}
Nodes == [parent : Parents, children : Seq(NodeIds), ref : ModelIds \cup {NoRef}]
NodeMaps == UNION {[D -> Nodes] : D \in SUBSET NodeIds}
ModelMaps == UNION {[D -> Models] : D \in SUBSET ModelIds}
Stores == [nodes : NodeMaps, roots : Seq(NodeIds), used : SUBSET NodeIds,
           models : ModelMaps, usedModels : SUBSET ModelIds]

\* r is the depth of every node.
Ranks(s, r) ==
  /\ r \in [DOMAIN s.nodes -> 1..MaxDepth]
  /\ \A n \in DOMAIN s.nodes :
       r[n] = IF s.nodes[n].parent = None THEN 1 ELSE r[s.nodes[n].parent] + 1

\* Parents exist, and each has its children and no others, none of them twice.
Linked(s) ==
  /\ \A n \in DOMAIN s.nodes : s.nodes[n].parent \in DOMAIN s.nodes \cup {None}
  /\ \A p \in DOMAIN s.nodes \cup {None} :
       /\ IsInjective(Siblings(s, p))
       /\ ToSet(Siblings(s, p)) = {n \in DOMAIN s.nodes : s.nodes[n].parent = p}

Counted(s) ==
  /\ s \in Stores /\ IsFiniteSet(DOMAIN s.nodes) /\ Cardinality(DOMAIN s.nodes) <= MaxNodes
  /\ DOMAIN s.nodes \subseteq s.used

Referred(s) ==
  /\ \A n \in DOMAIN s.nodes : s.nodes[n].ref # NoRef => s.nodes[n].ref \in DOMAIN s.models
  /\ \A m \in DOMAIN s.models : ModelOK(s.models[m])

TreeOK(s) == Counted(s) /\ Linked(s) /\ Referred(s) /\ \E r : Ranks(s, r)

\* No node is the absence of a parent.
LEMMA NoneIsNoNode == None \notin NodeIds /\ None \in Int
BY TreeAssumption DEF None

\* The parts of a store.
LEMMA StoreParts ==
  ASSUME NEW s \in Stores
  PROVE  /\ s.nodes \in [DOMAIN s.nodes -> Nodes] /\ DOMAIN s.nodes \in SUBSET NodeIds
         /\ s.roots \in Seq(NodeIds) /\ s.used \in SUBSET NodeIds
         /\ s.models \in [DOMAIN s.models -> Models] /\ DOMAIN s.models \in SUBSET ModelIds
         /\ s.usedModels \in SUBSET ModelIds
         /\ \A n \in DOMAIN s.nodes : /\ s.nodes[n] \in Nodes /\ s.nodes[n].parent \in Parents
                                      /\ s.nodes[n].children \in Seq(NodeIds)
                                      /\ s.nodes[n].ref \in ModelIds \cup {NoRef}
         /\ \A p \in DOMAIN s.nodes \cup {None} : Siblings(s, p) \in Seq(NodeIds)
<1>1. /\ s.nodes \in NodeMaps /\ s.roots \in Seq(NodeIds) /\ s.used \in SUBSET NodeIds
      /\ s.models \in ModelMaps /\ s.usedModels \in SUBSET ModelIds
  BY DEF Stores
<1>2. PICK D \in SUBSET NodeIds : s.nodes \in [D -> Nodes]
  BY <1>1 DEF NodeMaps
<1>3. PICK E \in SUBSET ModelIds : s.models \in [E -> Models]
  BY <1>1 DEF ModelMaps
<1>4. DOMAIN s.nodes = D /\ DOMAIN s.models = E
  BY <1>2, <1>3
<1>5. \A n \in DOMAIN s.nodes : /\ s.nodes[n] \in Nodes /\ s.nodes[n].parent \in Parents
                                /\ s.nodes[n].children \in Seq(NodeIds)
                                /\ s.nodes[n].ref \in ModelIds \cup {NoRef}
  BY <1>2, <1>4 DEF Nodes
<1>6. \A p \in DOMAIN s.nodes \cup {None} : Siblings(s, p) \in Seq(NodeIds)
  BY <1>1, <1>5 DEF Siblings
<1> QED BY <1>1, <1>2, <1>3, <1>4, <1>5, <1>6

\* up is the way from id to the top, and stays at None.
Climbs(up, s, id, size) ==
  /\ up \in [0..size -> Parents] /\ up[0] = id
  /\ \A k \in 1..size : up[k] = IF up[k - 1] \in DOMAIN s.nodes THEN s.nodes[up[k - 1]].parent ELSE None

\* There is such a way of every length.
LEMMA ClimbExists ==
  ASSUME NEW s \in Stores, NEW id \in Parents, NEW size \in Nat
  PROVE  \E up : Climbs(up, s, id, size)
<1> DEFINE S == {k \in 0..size : \E up : Climbs(up, s, id, k)}
<1>1. 0 \in S
  <2> DEFINE up == [k \in 0..0 |-> id]
  <2>1. Climbs(up, s, id, 0)
    BY DEF Climbs
  <2> QED BY <2>1
<1>2. ASSUME NEW k \in 1..size, k - 1 \in S PROVE k \in S
  <2>1. PICK f : Climbs(f, s, id, k - 1)
    BY <1>2
  <2> DEFINE top == IF f[k - 1] \in DOMAIN s.nodes THEN s.nodes[f[k - 1]].parent ELSE None
             up == [j \in 0..k |-> IF j = k THEN top ELSE f[j]]
  <2>2. top \in Parents
    BY StoreParts DEF Parents
  <2>3. \A j \in 0..k : j # k => j \in 0..(k - 1)
    OBVIOUS
  <2>4. f \in [0..(k - 1) -> Parents] /\ f[0] = id
    BY <2>1 DEF Climbs
  <2>5. up \in [0..k -> Parents] /\ up[0] = id /\ up[k] = top /\ \A j \in 0..(k - 1) : up[j] = f[j]
    <3> HIDE DEF top
    <3> QED BY <2>2, <2>3, <2>4
  <2>6. ASSUME NEW j \in 1..k
        PROVE  up[j] = IF up[j - 1] \in DOMAIN s.nodes THEN s.nodes[up[j - 1]].parent ELSE None
    <3>1. j - 1 \in 0..(k - 1) /\ up[j - 1] = f[j - 1]
      BY <2>5
    <3> HIDE DEF up
    <3>2. CASE j = k
      BY <2>5, <3>1, <3>2
    <3>3. CASE j # k
      <4>1. j \in 1..(k - 1) /\ j \in 0..(k - 1)
        BY <3>3
      <4> QED BY <2>1, <2>5, <3>1, <4>1 DEF Climbs
    <3> QED BY <3>2, <3>3
  <2>7. Climbs(up, s, id, k)
    <3> HIDE DEF up
    <3> QED BY <2>5, <2>6 DEF Climbs
  <2> QED BY <2>7
<1>3. size \in S
  <2> HIDE DEF S
  <2>1. size \in 0..size
    OBVIOUS
  <2> QED BY <1>1, <1>2, <2>1, Counting
<1> QED BY <1>3

\* Lineage is one.
LEMMA LineageClimbs ==
  ASSUME NEW s \in Stores, NEW id \in Parents, IsFiniteSet(DOMAIN s.nodes)
  PROVE  /\ Cardinality(DOMAIN s.nodes) \in Nat
         /\ Climbs(Lineage(s, id), s, id, Cardinality(DOMAIN s.nodes))
         /\ DOMAIN Lineage(s, id) = 0..Cardinality(DOMAIN s.nodes)
<1> DEFINE size == Cardinality(DOMAIN s.nodes)
           next(x) == IF x \in DOMAIN s.nodes THEN s.nodes[x].parent ELSE None
           up == CHOOSE f : f = [k \in 0..size |-> IF k = 0 THEN id ELSE next(f[k - 1])]
<1>1. size \in Nat
  BY FS_CardinalityType
<1>2. Lineage(s, id) = up
  BY Zenon DEF Lineage
<1>3. PICK f : Climbs(f, s, id, size)
  BY <1>1, ClimbExists
<1> HIDE DEF size
<1>4. f = [k \in 0..size |-> IF k = 0 THEN id ELSE next(f[k - 1])]
  <2>1. ASSUME NEW k \in 0..size PROVE f[k] = IF k = 0 THEN id ELSE next(f[k - 1])
    <3>1. k # 0 => k \in 1..size
      BY <1>1
    <3> QED BY <1>3, <3>1 DEF Climbs
  <2> HIDE DEF next
  <2> QED BY <1>3, <2>1 DEF Climbs
<1>5. up = [k \in 0..size |-> IF k = 0 THEN id ELSE next(up[k - 1])]
  BY <1>4, Zenon
<1> HIDE DEF up
<1>6. /\ DOMAIN up = 0..size /\ up[0] = id
      /\ \A k \in 1..size : up[k] = next(up[k - 1])
  <2>1. 0 \in 0..size /\ \A k \in 1..size : k \in 0..size /\ k # 0
    BY <1>1
  <2> HIDE DEF next
  <2> QED BY <1>5, <2>1
<1>7. \A k \in 0..size : up[k] \in Parents
  <2> DEFINE S == {k \in 0..size : up[k] \in Parents}
  <2>1. 0 \in S
    BY <1>1, <1>6
  <2>2. ASSUME NEW k \in 1..size, k - 1 \in S PROVE k \in S
    <3>1. next(up[k - 1]) \in Parents
      BY StoreParts DEF Parents
    <3>2. k \in 0..size
      OBVIOUS
    <3> QED BY <1>6, <3>1, <3>2
  <2>3. \A k \in 0..size : k \in S
    <3> HIDE DEF S
    <3> QED BY <1>1, <2>1, <2>2, Counting
  <2> QED BY <2>3
<1>8. up \in [0..size -> Parents]
  <2>1. up = [k \in 0..size |-> up[k]]
    BY <1>5, <1>6, Zenon
  <2> QED BY <1>7, <2>1
<1>9. Climbs(up, s, id, size)
  BY <1>6, <1>8 DEF Climbs
<1> QED BY <1>1, <1>2, <1>6, <1>9 DEF size

\* The way up from a node takes as many steps as the node is deep.
LEMMA LineageRank ==
  ASSUME NEW s, Counted(s), Linked(s), NEW r, Ranks(s, r), NEW n \in DOMAIN s.nodes
  PROVE  LET up == Lineage(s, n)
             size == Cardinality(DOMAIN s.nodes)
         IN  /\ size \in Nat /\ r[n] \in 1..size /\ r[n] \in 1..MaxDepth
             /\ \A k \in 0..size : /\ k < r[n] => up[k] \in DOMAIN s.nodes /\ r[up[k]] = r[n] - k
                                   /\ k >= r[n] => up[k] = None
<1> DEFINE up == Lineage(s, n)
           size == Cardinality(DOMAIN s.nodes)
           At(k) == /\ k < r[n] => up[k] \in DOMAIN s.nodes /\ r[up[k]] = r[n] - k
                    /\ k >= r[n] => up[k] = None
           S == {k \in 0..size : At(k)}
<1>1. s \in Stores /\ IsFiniteSet(DOMAIN s.nodes)
  BY DEF Counted
<1>2. n \in Parents
  BY <1>1, StoreParts DEF Parents
<1>3. size \in Nat /\ Climbs(up, s, n, size)
  BY <1>1, <1>2, LineageClimbs
<1>4. /\ r \in [DOMAIN s.nodes -> 1..MaxDepth] /\ r[n] \in 1..MaxDepth /\ r[n] \in Nat /\ r[n] >= 1
      /\ \A x \in DOMAIN s.nodes : r[x] \in 1..MaxDepth /\ r[x] = IF s.nodes[x].parent = None THEN 1 ELSE r[s.nodes[x].parent] + 1
      /\ \A x \in DOMAIN s.nodes : s.nodes[x].parent # None => s.nodes[x].parent \in DOMAIN s.nodes
  BY TreeAssumption DEF Ranks, Linked
<1>5. None \notin DOMAIN s.nodes
  BY <1>1, StoreParts, NoneIsNoNode
<1> HIDE DEF up, size
<1>6. 0 \in S
  BY <1>3, <1>4 DEF Climbs
<1>7. ASSUME NEW k \in 1..size, k - 1 \in S PROVE k \in S
  <2>1. At(k - 1) /\ k \in Nat /\ k - 1 \in Nat /\ k \in 0..size
    BY <1>7
  <2>2. up[k] = IF up[k - 1] \in DOMAIN s.nodes THEN s.nodes[up[k - 1]].parent ELSE None
    BY <1>3 DEF Climbs
  <2>3. CASE k - 1 >= r[n]
    <3>1. up[k - 1] = None /\ up[k] = None /\ ~(k < r[n])
      BY <1>4, <1>5, <2>1, <2>2, <2>3
    <3> QED BY <2>1, <3>1
  <2>4. CASE k - 1 < r[n]
    <3>1. /\ up[k - 1] \in DOMAIN s.nodes /\ r[up[k - 1]] = r[n] - (k - 1)
          /\ up[k] = s.nodes[up[k - 1]].parent
      BY <2>1, <2>2, <2>4
    <3> DEFINE x == up[k - 1]
    <3> HIDE DEF x
    <3>2. x \in DOMAIN s.nodes /\ r[x] = r[n] - (k - 1) /\ up[k] = s.nodes[x].parent
      BY <3>1 DEF x
    <3>3. CASE s.nodes[x].parent = None
      <4>1. r[x] = 1
        BY <1>4, <3>2, <3>3
      <4>2. k = r[n]
        BY <1>4, <2>1, <3>2, <4>1
      <4> QED BY <1>4, <2>1, <3>2, <3>3, <4>2
    <3>4. CASE s.nodes[x].parent # None
      <4>1. up[k] \in DOMAIN s.nodes /\ r[x] = r[up[k]] + 1 /\ r[up[k]] \in 1..MaxDepth
        BY <1>4, <3>2, <3>4
      <4>2. r[up[k]] = r[n] - k /\ k < r[n]
        BY <1>4, <2>1, <3>2, <4>1
      <4> QED BY <1>4, <2>1, <4>1, <4>2
    <3> QED BY <3>3, <3>4
  <2> QED BY <1>4, <2>1, <2>3, <2>4
<1>8. \A k \in 0..size : At(k)
  <2>1. \A k \in 0..size : k \in S
    <3> HIDE DEF S
    <3> QED BY <1>3, <1>6, <1>7, Counting
  <2> QED BY <2>1
<1>9. r[n] <= size
  <2> SUFFICES ASSUME ~(r[n] <= size) PROVE FALSE
    OBVIOUS
  <2>1. \A k \in 0..size : k < r[n] /\ k \in Nat
    BY <1>3, <1>4
  <2>2. up \in [0..size -> DOMAIN s.nodes]
    <3>1. \A k \in 0..size : up[k] \in DOMAIN s.nodes
      BY <1>8, <2>1
    <3> QED BY <1>3, <3>1 DEF Climbs
  <2>3. IsFiniteSet(0..size) /\ Cardinality(0..size) = size + 1
    <3>1. 0 \in Int /\ size \in Int
      BY <1>3
    <3>2. IsFiniteSet(0..size) /\ Cardinality(0..size) = IF 0 > size THEN 0 ELSE size - 0 + 1
      BY <3>1, FS_Interval
    <3> QED BY <1>3, <3>2
  <2>4. Cardinality(DOMAIN s.nodes) < Cardinality(0..size)
    BY <1>3, <2>3 DEF size
  <2>5. PICK i \in 0..size, j \in 0..size : i # j /\ up[i] = up[j]
    BY <1>1, <2>2, <2>3, <2>4, FS_PigeonHole
  <2>6. r[n] - i = r[n] - j
    BY <1>8, <2>1, <2>5
  <2> QED BY <1>4, <2>1, <2>5, <2>6
<1>10. r[n] \in 1..size
  BY <1>3, <1>4, <1>9
<1> HIDE DEF S
<1> QED BY <1>3, <1>4, <1>8, <1>10 DEF up, size

\* node_depth counts them.
LEMMA DepthIsRank ==
  ASSUME NEW s, Counted(s), Linked(s), NEW r, Ranks(s, r), NEW n \in DOMAIN s.nodes
  PROVE  node_depth(s, n) = r[n]
<1> DEFINE up == Lineage(s, n)
           size == Cardinality(DOMAIN s.nodes)
<1>1. s \in Stores /\ IsFiniteSet(DOMAIN s.nodes)
  BY DEF Counted
<1>2. n \in Parents
  BY <1>1, StoreParts DEF Parents
<1>3. DOMAIN up = 0..size
  BY <1>1, <1>2, LineageClimbs
<1>4. /\ size \in Nat /\ r[n] \in 1..size
      /\ \A k \in 0..size : /\ k < r[n] => up[k] \in DOMAIN s.nodes
                            /\ k >= r[n] => up[k] = None
  BY LineageRank
<1>5. None \notin DOMAIN s.nodes
  BY <1>1, StoreParts, NoneIsNoNode
<1> HIDE DEF up, size
<1>6. {k \in DOMAIN up : up[k] # None} = 0..(r[n] - 1)
  BY <1>3, <1>4, <1>5
<1>7. Cardinality(0..(r[n] - 1)) = r[n]
  <2>1. 0 \in Int /\ r[n] - 1 \in Int /\ r[n] >= 1
    BY <1>4
  <2>2. Cardinality(0..(r[n] - 1)) = IF 0 > r[n] - 1 THEN 0 ELSE (r[n] - 1) - 0 + 1
    BY <2>1, FS_Interval
  <2> QED BY <1>4, <2>1, <2>2
<1> QED BY <1>6, <1>7 DEF node_depth, up

\* The depth children of p would add to.
LEMMA DepthBelowRank ==
  ASSUME NEW s, Counted(s), Linked(s), NEW r, Ranks(s, r), NEW p \in DOMAIN s.nodes \cup {None}
  PROVE  DepthBelow(s, p) = (IF p = None THEN 0 ELSE r[p]) /\ DepthBelow(s, p) \in Nat
<1>1. CASE p = None
  BY <1>1 DEF DepthBelow
<1>2. CASE p # None
  <2>1. p \in DOMAIN s.nodes /\ r[p] \in Nat
    BY <1>2, TreeAssumption DEF Ranks
  <2> QED BY <1>2, <2>1, DepthIsRank DEF DepthBelow
<1> QED BY <1>1, <1>2

\* The way up from a node goes on as that from its parent.
LEMMA LineageShift ==
  ASSUME NEW s \in Stores, IsFiniteSet(DOMAIN s.nodes), NEW n \in DOMAIN s.nodes,
         s.nodes[n].parent \in DOMAIN s.nodes
  PROVE  \A k \in 1..Cardinality(DOMAIN s.nodes) : Lineage(s, n)[k] = Lineage(s, s.nodes[n].parent)[k - 1]
<1> DEFINE p == s.nodes[n].parent
           up == Lineage(s, n)
           above == Lineage(s, p)
           size == Cardinality(DOMAIN s.nodes)
           S == {k \in 0..size : k > 0 => up[k] = above[k - 1]}
<1>1. n \in Parents /\ p \in Parents
  BY StoreParts DEF Parents
<1>2. size \in Nat /\ Climbs(up, s, n, size) /\ Climbs(above, s, p, size)
  <2> HIDE DEF p
  <2> QED BY <1>1, LineageClimbs
<1> HIDE DEF up, above, size
<1>3. 0 \in S
  BY <1>2
<1>4. ASSUME NEW k \in 1..size, k - 1 \in S PROVE k \in S
  <2>1. k \in 0..size /\ k - 1 \in 0..size
    BY <1>2
  <2>2. up[k] = IF up[k - 1] \in DOMAIN s.nodes THEN s.nodes[up[k - 1]].parent ELSE None
    BY <1>2 DEF Climbs
  <2>3. CASE k = 1
    <3>1. up[0] = n /\ above[0] = p
      BY <1>2 DEF Climbs
    <3> QED BY <2>1, <2>2, <2>3, <3>1
  <2>4. CASE k # 1
    <3>1. k - 1 \in 1..size /\ k - 1 > 0 /\ (k - 1) - 1 \in Nat
      BY <1>2, <2>4
    <3>2. up[k - 1] = above[(k - 1) - 1]
      BY <1>4, <3>1
    <3>3. above[k - 1] = IF above[(k - 1) - 1] \in DOMAIN s.nodes THEN s.nodes[above[(k - 1) - 1]].parent ELSE None
      BY <1>2, <3>1 DEF Climbs
    <3> QED BY <2>1, <2>2, <3>2, <3>3
  <2> QED BY <2>3, <2>4
<1>5. \A k \in 0..size : k \in S
  <2> HIDE DEF S
  <2> QED BY <1>2, <1>3, <1>4, Counting
<1>6. ASSUME NEW k \in 1..size PROVE up[k] = above[k - 1]
  <2>1. k \in 0..size /\ k > 0
    BY <1>2
  <2> QED BY <1>5, <2>1
<1> HIDE DEF S
<1> QED BY <1>6 DEF up, above, size, p

\* What is under a node: itself and what hangs from it.
LEMMA SubtreeClosed ==
  ASSUME NEW s, Counted(s), Linked(s), NEW r, Ranks(s, r), NEW id \in DOMAIN s.nodes
  PROVE  /\ Subtree(s, id) \subseteq DOMAIN s.nodes /\ id \in Subtree(s, id)
         /\ \A n \in DOMAIN s.nodes :
              n \in Subtree(s, id) <=> n = id \/ s.nodes[n].parent \in Subtree(s, id)
         /\ \A n \in Subtree(s, id) : r[n] >= r[id] /\ (n # id => r[n] > r[id])
<1> DEFINE size == Cardinality(DOMAIN s.nodes)
           Way(n) == Lineage(s, n)
           Sub == Subtree(s, id)
<1>1. s \in Stores /\ IsFiniteSet(DOMAIN s.nodes)
  BY DEF Counted
<1>2. \A n \in DOMAIN s.nodes : n \in Parents
  BY <1>1, StoreParts DEF Parents
<1>3. \A n \in DOMAIN s.nodes : size \in Nat /\ DOMAIN Way(n) = 0..size /\ Way(n)[0] = n
  BY <1>1, <1>2, LineageClimbs DEF Climbs
<1>4. \A n \in DOMAIN s.nodes :
        /\ r[n] \in 1..size
        /\ \A k \in 0..size : /\ k < r[n] => Way(n)[k] \in DOMAIN s.nodes /\ r[Way(n)[k]] = r[n] - k
                              /\ k >= r[n] => Way(n)[k] = None
  BY LineageRank
<1>5. None \notin DOMAIN s.nodes
  BY <1>1, StoreParts, NoneIsNoNode
<1>6. \A n \in DOMAIN s.nodes : s.nodes[n].parent \in DOMAIN s.nodes =>
        \A k \in 1..size : Way(n)[k] = Way(s.nodes[n].parent)[k - 1]
  BY <1>1, LineageShift
<1>7. \A n : n \in Sub <=> n \in DOMAIN s.nodes /\ \E k \in 0..size : Way(n)[k] = id
  BY <1>3 DEF Subtree
<1>8. \A n \in DOMAIN s.nodes :
        /\ s.nodes[n].parent # None => s.nodes[n].parent \in DOMAIN s.nodes /\ r[n] = r[s.nodes[n].parent] + 1
        /\ s.nodes[n].parent = None => r[n] = 1
  BY DEF Linked, Ranks
<1> HIDE DEF size, Way, Sub
<1>9. id \in Sub
  BY <1>3, <1>7
<1>10. ASSUME NEW n \in DOMAIN s.nodes, NEW k \in 0..size, Way(n)[k] = id
       PROVE  k \in Nat /\ k < r[n] /\ r[id] = r[n] - k
  <2>1. ~(k >= r[n])
    BY <1>4, <1>5, <1>10
  <2>2. k \in Nat /\ r[n] \in Nat
    BY <1>3, <1>4
  <2> QED BY <1>4, <1>10, <2>1, <2>2
<1>11. ASSUME NEW n \in Sub PROVE r[n] >= r[id] /\ (n # id => r[n] > r[id])
  <2>1. n \in DOMAIN s.nodes
    BY <1>7
  <2>2. PICK k \in 0..size : Way(n)[k] = id
    BY <1>7
  <2>3. k \in Nat /\ r[id] = r[n] - k /\ r[n] \in Nat
    BY <1>4, <1>10, <2>1, <2>2
  <2>4. n # id => k # 0
    BY <1>3, <2>1, <2>2
  <2> QED BY <2>3, <2>4
<1>12. ASSUME NEW n \in DOMAIN s.nodes, s.nodes[n].parent \in Sub PROVE n \in Sub
  <2> DEFINE p == s.nodes[n].parent
  <2>1. p \in DOMAIN s.nodes
    BY <1>7, <1>12
  <2>2. PICK k \in 0..size : Way(p)[k] = id
    BY <1>7, <1>12
  <2>3. k \in Nat /\ k < r[p] /\ r[n] = r[p] + 1 /\ r[n] \in 1..size /\ r[p] \in 1..size
    BY <1>4, <1>5, <1>8, <1>10, <2>1, <2>2
  <2>4. k + 1 \in 1..size /\ k + 1 \in 0..size /\ (k + 1) - 1 = k
    BY <1>3, <2>3
  <2>5. Way(n)[k + 1] = id
    BY <1>6, <2>1, <2>2, <2>4
  <2> QED BY <1>7, <2>4, <2>5
<1>13. ASSUME NEW n \in Sub, n # id PROVE s.nodes[n].parent \in Sub
  <2> DEFINE p == s.nodes[n].parent
  <2>1. n \in DOMAIN s.nodes
    BY <1>7
  <2>2. PICK k \in 0..size : Way(n)[k] = id
    BY <1>7
  <2>3. k \in Nat /\ k < r[n] /\ k # 0 /\ r[n] \in Nat
    BY <1>3, <1>4, <1>10, <1>13, <2>1, <2>2
  <2>4. r[n] # 1
    BY <2>3
  <2>5. p \in DOMAIN s.nodes
    BY <1>8, <2>1, <2>4
  <2>6. k \in 1..size /\ k - 1 \in 0..size
    BY <1>3, <2>1, <2>2, <2>3
  <2>7. Way(p)[k - 1] = id
    BY <1>6, <2>1, <2>2, <2>5, <2>6
  <2> QED BY <1>7, <2>5, <2>6, <2>7
<1>14. Sub \subseteq DOMAIN s.nodes
  BY <1>7
<1>15. \A n \in DOMAIN s.nodes : n \in Sub <=> n = id \/ s.nodes[n].parent \in Sub
  BY <1>9, <1>12, <1>13
<1> QED BY <1>9, <1>11, <1>14, <1>15 DEF Sub

\* subtree_depth is at least as deep as everything under the node reaches.
LEMMA SubtreeDepthBound ==
  ASSUME NEW s, Counted(s), Linked(s), NEW r, Ranks(s, r), NEW id \in DOMAIN s.nodes
  PROVE  /\ subtree_depth(s, id) \in Nat
         /\ \A n \in Subtree(s, id) : r[n] - r[id] + 1 <= subtree_depth(s, id)
<1> DEFINE Sub == Subtree(s, id)
           down == {node_depth(s, n) - node_depth(s, id) + 1 : n \in Sub}
<1>1. Sub \subseteq DOMAIN s.nodes /\ id \in Sub /\ \A n \in Sub : r[n] >= r[id]
  BY SubtreeClosed
<1>2. \A n \in DOMAIN s.nodes : node_depth(s, n) = r[n] /\ r[n] \in 1..MaxDepth
  BY DepthIsRank DEF Ranks
<1> HIDE DEF Sub
<1>3. down = {r[n] - r[id] + 1 : n \in Sub}
  BY <1>1, <1>2
<1>4. down \in SUBSET (1..MaxDepth) /\ down # {}
  <2>1. \A n \in Sub : r[n] - r[id] + 1 \in 1..MaxDepth
    BY <1>1, <1>2, TreeAssumption
  <2> QED BY <1>1, <1>3, <2>1
<1> HIDE DEF down
<1>5. Max(down) \in down /\ \A x \in down : x <= Max(down)
  BY <1>4, MaxOfPositions, TreeAssumption
<1> DEFINE d == CHOOSE d \in down : \A e \in down : e <= d
<1>6. d \in down /\ \A e \in down : e <= d
  BY <1>5
<1>7. subtree_depth(s, id) = d
  BY DEF subtree_depth, down, Sub
<1> HIDE DEF d
<1>8. d \in Nat
  BY <1>4, <1>6
<1>9. \A n \in Sub : r[n] - r[id] + 1 <= d
  BY <1>3, <1>6
<1> QED BY <1>7, <1>8, <1>9 DEF Sub

\* Other nodes, and nothing else.
LEMMA NodesOnly ==
  ASSUME NEW s \in Stores, NEW D \in SUBSET NodeIds, NEW N \in [D -> Nodes]
  PROVE  LET t == [s EXCEPT !.nodes = N] IN
         /\ t \in Stores /\ t.nodes = N /\ DOMAIN t.nodes = D /\ t.roots = s.roots /\ t.used = s.used
         /\ t.models = s.models /\ t.usedModels = s.usedModels
<1>1. N \in NodeMaps
  BY DEF NodeMaps
<1> QED BY <1>1 DEF Stores

\* Other siblings at one place.
LEMMA Relinked ==
  ASSUME NEW s \in Stores, NEW p \in DOMAIN s.nodes \cup {None}, NEW ids \in Seq(NodeIds)
  PROVE  LET t == Relink(s, p, ids) IN
         /\ t \in Stores /\ DOMAIN t.nodes = DOMAIN s.nodes /\ t.used = s.used
         /\ t.models = s.models /\ t.usedModels = s.usedModels
         /\ \A n \in DOMAIN s.nodes : t.nodes[n].parent = s.nodes[n].parent /\ t.nodes[n].ref = s.nodes[n].ref
         /\ \A x \in DOMAIN s.nodes \cup {None} : Siblings(t, x) = IF x = p THEN ids ELSE Siblings(s, x)
<1>1. None \notin DOMAIN s.nodes
  BY StoreParts, NoneIsNoNode
<1>2. CASE p = None
  <2>1. Relink(s, p, ids) = [s EXCEPT !.roots = ids]
    BY <1>2 DEF Relink
  <2> DEFINE t == [s EXCEPT !.roots = ids]
  <2>2. /\ t \in Stores /\ t.nodes = s.nodes /\ t.used = s.used /\ t.models = s.models
        /\ t.usedModels = s.usedModels /\ t.roots = ids
    BY DEF Stores
  <2> HIDE DEF t
  <2>3. \A x \in DOMAIN s.nodes \cup {None} : Siblings(t, x) = IF x = p THEN ids ELSE Siblings(s, x)
    BY <1>2, <2>2 DEF Siblings
  <2> QED BY <2>1, <2>2, <2>3 DEF t
<1>3. CASE p # None
  <2> DEFINE node == [s.nodes[p] EXCEPT !.children = ids]
             N == [s.nodes EXCEPT ![p] = node]
             t == [s EXCEPT !.nodes = N]
  <2>1. p \in DOMAIN s.nodes /\ s.nodes \in [DOMAIN s.nodes -> Nodes] /\ s.nodes[p] \in Nodes
        /\ DOMAIN s.nodes \in SUBSET NodeIds
    BY <1>3, StoreParts
  <2>2. Relink(s, p, ids) = t
    BY <1>3, <2>1 DEF Relink, Stores
  <2>3. node \in Nodes /\ node.parent = s.nodes[p].parent /\ node.ref = s.nodes[p].ref /\ node.children = ids
    BY <2>1 DEF Nodes
  <2> HIDE DEF node
  <2>4. N \in [DOMAIN s.nodes -> Nodes] /\ N[p] = node /\ \A n \in DOMAIN s.nodes : n # p => N[n] = s.nodes[n]
    BY <2>1, <2>3
  <2> HIDE DEF N
  <2>5. /\ t \in Stores /\ t.nodes = N /\ DOMAIN t.nodes = DOMAIN s.nodes /\ t.used = s.used
        /\ t.models = s.models /\ t.usedModels = s.usedModels /\ t.roots = s.roots
    BY <2>1, <2>4, NodesOnly
  <2> HIDE DEF t
  <2>6. \A n \in DOMAIN s.nodes : t.nodes[n].parent = s.nodes[n].parent /\ t.nodes[n].ref = s.nodes[n].ref
    BY <2>3, <2>4, <2>5
  <2>7. \A x \in DOMAIN s.nodes \cup {None} : Siblings(t, x) = IF x = p THEN ids ELSE Siblings(s, x)
    BY <1>1, <1>3, <2>3, <2>4, <2>5 DEF Siblings
  <2> QED BY <2>2, <2>5, <2>6, <2>7
<1> QED BY <1>2, <1>3

\* One sibling more, wherever it goes.
LEMMA SiblingAdded ==
  ASSUME NEW ids \in Seq(NodeIds), IsInjective(ids), NEW at \in Nat \cup {None}, NEW id \in NodeIds,
         id \notin ToSet(ids)
  PROVE  LET new == InsertAt(ids, Slot(ids, at), id) IN
         new \in Seq(NodeIds) /\ IsInjective(new) /\ ToSet(new) = ToSet(ids) \cup {id}
<1> DEFINE m == Slot(ids, at)
           new == InsertAt(ids, m, id)
           n == Len(ids)
<1>1. n \in Nat /\ DOMAIN ids = 1..n /\ \A p \in 1..n : ids[p] \in NodeIds
  OBVIOUS
<1>2. m \in 1..(n + 1)
  BY <1>1 DEF Slot, None
<1> HIDE DEF m
<1>3. new \in Seq(NodeIds) /\ InsertedAt(new, ids, m, id)
  BY <1>2, InsertAtElements
<1> HIDE DEF new, n
<1>4. /\ Len(new) = n + 1 /\ new[m] = id
      /\ \A p \in 1..(m - 1) : new[p] = ids[p]
      /\ \A p \in (m + 1)..(n + 1) : new[p] = ids[p - 1]
  BY <1>3 DEF InsertedAt, n
<1>5. DOMAIN new = 1..(n + 1)
  BY <1>3, <1>4
<1>6. \A p \in 1..(n + 1) : p = m \/ p \in 1..(m - 1) \/ p \in (m + 1)..(n + 1)
  BY <1>1, <1>2
<1>7. \A p \in 1..(m - 1) : p \in 1..n /\ p < m
  BY <1>1, <1>2
<1>8. \A p \in (m + 1)..(n + 1) : p - 1 \in 1..n /\ p > m /\ p \in Nat
  BY <1>1, <1>2
<1>9. ToSet(ids) = {ids[p] : p \in 1..n} /\ ToSet(new) = {new[p] : p \in 1..(n + 1)}
  BY <1>1, <1>5 DEF ToSet
<1>10. ASSUME NEW x \in ToSet(new) PROVE x \in ToSet(ids) \cup {id}
  <2>1. PICK p \in 1..(n + 1) : x = new[p]
    BY <1>9
  <2>2. CASE p = m
    BY <1>4, <2>1, <2>2
  <2>3. CASE p \in 1..(m - 1)
    BY <1>4, <1>7, <1>9, <2>1, <2>3
  <2>4. CASE p \in (m + 1)..(n + 1)
    BY <1>4, <1>8, <1>9, <2>1, <2>4
  <2> QED BY <1>6, <2>2, <2>3, <2>4
<1>11. ASSUME NEW x \in ToSet(ids) PROVE x \in ToSet(new)
  <2>1. PICK p \in 1..n : x = ids[p]
    BY <1>9
  <2>2. CASE p < m
    <3>1. p \in 1..(m - 1) /\ p \in 1..(n + 1)
      BY <1>1, <1>2, <2>2
    <3> QED BY <1>4, <1>9, <2>1, <3>1
  <2>3. CASE ~(p < m)
    <3>1. p + 1 \in (m + 1)..(n + 1) /\ p + 1 \in 1..(n + 1) /\ (p + 1) - 1 = p
      BY <1>1, <1>2, <2>3
    <3> QED BY <1>4, <1>9, <2>1, <3>1
  <2> QED BY <2>2, <2>3
<1>12. id \in ToSet(new)
  BY <1>2, <1>4, <1>9
<1>13. ASSUME NEW p \in 1..(n + 1), NEW q \in 1..(n + 1), new[p] = new[q] PROVE p = q
  <2>1. \A i \in 1..n : ids[i] # id
    BY <1>9
  <2>2. \A i, j \in 1..n : ids[i] = ids[j] => i = j
    BY <1>1 DEF IsInjective
  <2>3. CASE p = m
    BY <1>4, <1>6, <1>7, <1>8, <1>13, <2>1, <2>3
  <2>4. CASE q = m
    BY <1>4, <1>6, <1>7, <1>8, <1>13, <2>1, <2>4
  <2>5. CASE p \in 1..(m - 1) /\ q \in 1..(m - 1)
    BY <1>4, <1>7, <1>13, <2>2, <2>5
  <2>6. CASE p \in 1..(m - 1) /\ q \in (m + 1)..(n + 1)
    <3>1. p = q - 1
      BY <1>4, <1>7, <1>8, <1>13, <2>2, <2>6
    <3> QED BY <1>2, <1>7, <1>8, <2>6, <3>1
  <2>7. CASE q \in 1..(m - 1) /\ p \in (m + 1)..(n + 1)
    <3>1. q = p - 1
      BY <1>4, <1>7, <1>8, <1>13, <2>2, <2>7
    <3> QED BY <1>2, <1>7, <1>8, <2>7, <3>1
  <2>8. CASE p \in (m + 1)..(n + 1) /\ q \in (m + 1)..(n + 1)
    <3>1. p - 1 = q - 1
      BY <1>4, <1>8, <1>13, <2>2, <2>8
    <3> QED BY <1>8, <2>8, <3>1
  <2> QED BY <1>6, <2>3, <2>4, <2>5, <2>6, <2>7, <2>8
<1>14. IsInjective(new)
  BY <1>5, <1>13 DEF IsInjective
<1>15. ToSet(new) = ToSet(ids) \cup {id}
  BY <1>10, <1>11, <1>12
<1> QED BY <1>3, <1>14, <1>15 DEF new, m

\* One sibling less.
LEMMA SiblingRemoved ==
  ASSUME NEW ids \in Seq(NodeIds), IsInjective(ids), NEW id
  PROVE  LET new == SelectIn(ids, ToSet(ids) \ {id}) IN
         new \in Seq(NodeIds) /\ IsInjective(new) /\ ToSet(new) = ToSet(ids) \ {id}
<1>1. /\ SelectIn(ids, ToSet(ids) \ {id}) \in Seq(NodeIds)
      /\ ToSet(SelectIn(ids, ToSet(ids) \ {id})) = ToSet(ids) \cap (ToSet(ids) \ {id})
  BY SelectInElements
<1>2. IsInjective(SelectIn(ids, ToSet(ids) \ {id}))
  BY SelectInInjective
<1> QED BY <1>1, <1>2

Values == [ref : ModelIds \cup {NoRef}, fits : BOOLEAN]

\* What an operation answers: a store in order, with the models of the store before.
Answers(r, s) == r.ok \in BOOLEAN /\ TreeOK(r.store) /\ r.store.models = s.models

\* A refused operation leaves the store.
LEMMA FailedAnswers ==
  ASSUME NEW s, TreeOK(s)
  PROVE  Answers(Failed(s), s)
BY DEF Answers, Failed

\* A store in order is the answer of an operation that is done.
LEMMA DoneAnswers ==
  ASSUME NEW s, NEW t, TreeOK(t), t.models = s.models
  PROVE  Answers(Done(t), s)
BY DEF Answers, Done

\* A new node hangs where it was put.
LEMMA CreateNodeOK ==
  ASSUME NEW s, TreeOK(s), NEW op, op.id \in NodeIds, op.parent \in Parents,
         op.at \in Nat \cup {None}, op.value \in Values
  PROVE  Answers(create_node(s, op), s)
<1> DEFINE ids == Siblings(s, op.parent)
           new == InsertAt(ids, Slot(ids, op.at), op.id)
           linked == Relink(s, op.parent, new)
           node == [parent |-> op.parent, children |-> <<>>, ref |-> op.value.ref]
           N == Put(linked.nodes, op.id, node)
           U == linked.used \cup {op.id}
           t == [linked EXCEPT !.nodes = N, !.used = U]
           D == DOMAIN s.nodes
           refused == \/ op.id \in s.used
                      \/ Cardinality(DOMAIN s.nodes) >= MaxNodes
                      \/ op.parent # None /\ op.parent \notin DOMAIN s.nodes
                      \/ DepthBelow(s, op.parent) + 1 > MaxDepth
                      \/ ~ValueAccepted(s, op.value)
                      \/ op.at # None /\ op.at > Len(Siblings(s, op.parent))
<1>1. CASE refused
  <2>1. create_node(s, op) = Failed(s)
    BY <1>1 DEF create_node
  <2> QED BY <2>1, FailedAnswers
<1>2. CASE ~refused
  <2>1. /\ op.id \notin s.used /\ ~(Cardinality(D) >= MaxNodes)
        /\ op.parent \in D \cup {None} /\ ~(DepthBelow(s, op.parent) + 1 > MaxDepth)
        /\ op.value.ref # NoRef => op.value.ref \in DOMAIN s.models
    BY <1>2 DEF ValueAccepted, validate_property_references, Parents
  <2>2. create_node(s, op) = Done(t)
    BY <1>2 DEF create_node
  <2> HIDE DEF refused
  <2>3. PICK r : Ranks(s, r)
    BY DEF TreeOK
  <2>4. /\ Counted(s) /\ Linked(s) /\ Referred(s) /\ s \in Stores /\ IsFiniteSet(D) /\ D \subseteq s.used
        /\ Cardinality(D) <= MaxNodes
    BY DEF TreeOK, Counted
  <2>5. op.id \notin D /\ D \in SUBSET NodeIds /\ None \notin D /\ op.id # None
    BY <2>1, <2>4, StoreParts, NoneIsNoNode
  <2>6. ids \in Seq(NodeIds) /\ IsInjective(ids) /\ ToSet(ids) = {n \in D : s.nodes[n].parent = op.parent}
    BY <2>1, <2>4, StoreParts DEF Linked
  <2>7. new \in Seq(NodeIds) /\ IsInjective(new) /\ ToSet(new) = ToSet(ids) \cup {op.id}
    <3>1. op.id \notin ToSet(ids)
      BY <2>5, <2>6
    <3> DEFINE at == op.at
               id == op.id
    <3> HIDE DEF ids, at, id
    <3>2. at \in Nat \cup {None} /\ id \in NodeIds /\ id \notin ToSet(ids)
      BY <3>1 DEF at, id
    <3>3. LET v == InsertAt(ids, Slot(ids, at), id) IN
          v \in Seq(NodeIds) /\ IsInjective(v) /\ ToSet(v) = ToSet(ids) \cup {id}
      BY <2>6, <3>2, SiblingAdded
    <3> QED BY <3>3 DEF at, id
  <2> HIDE DEF new
  <2>8. /\ linked \in Stores /\ DOMAIN linked.nodes = D /\ linked.used = s.used
        /\ linked.models = s.models /\ linked.usedModels = s.usedModels
        /\ \A n \in D : linked.nodes[n].parent = s.nodes[n].parent /\ linked.nodes[n].ref = s.nodes[n].ref
        /\ \A x \in D \cup {None} : Siblings(linked, x) = IF x = op.parent THEN new ELSE Siblings(s, x)
    <3> DEFINE p == op.parent
    <3> HIDE DEF p
    <3>1. p \in DOMAIN s.nodes \cup {None}
      BY <2>1 DEF p
    <3>2. LET v == Relink(s, p, new) IN
          /\ v \in Stores /\ DOMAIN v.nodes = DOMAIN s.nodes /\ v.used = s.used
          /\ v.models = s.models /\ v.usedModels = s.usedModels
          /\ \A n \in DOMAIN s.nodes : v.nodes[n].parent = s.nodes[n].parent /\ v.nodes[n].ref = s.nodes[n].ref
          /\ \A x \in DOMAIN s.nodes \cup {None} : Siblings(v, x) = IF x = p THEN new ELSE Siblings(s, x)
      BY <2>4, <2>7, <3>1, Relinked
    <3> QED BY <3>2 DEF p
  <2> HIDE DEF linked
  <2>9. node \in Nodes
    BY DEF Nodes, Values
  <2>10. /\ N \in [D \cup {op.id} -> Nodes] /\ N[op.id] = node
         /\ \A n \in D : N[n] = linked.nodes[n]
    <3>1. linked.nodes \in [D -> Nodes]
      BY <2>8, StoreParts
    <3> HIDE DEF node
    <3> QED BY <2>5, <2>8, <2>9, <3>1 DEF Put
  <2>11. U \in SUBSET NodeIds /\ D \cup {op.id} \in SUBSET NodeIds
    BY <2>4, <2>5, <2>8, StoreParts
  <2> HIDE DEF N, U
  <2>12. /\ t \in Stores /\ t.nodes = N /\ DOMAIN t.nodes = D \cup {op.id} /\ t.roots = linked.roots /\ t.used = U
         /\ t.models = s.models
    <3> DEFINE E == D \cup {op.id}
    <3> HIDE DEF E
    <3>1. E \in SUBSET NodeIds /\ N \in [E -> Nodes]
      BY <2>10, <2>11 DEF E
    <3>0. linked \in Stores /\ U \in SUBSET NodeIds
      BY <2>8, <2>11
    <3>2. N \in NodeMaps /\ DOMAIN N = E
      BY <3>1 DEF NodeMaps
    <3>3. /\ t \in Stores /\ t.nodes = N /\ DOMAIN t.nodes = E /\ t.roots = linked.roots /\ t.used = U
          /\ t.models = linked.models
      BY <3>0, <3>2 DEF Stores
    <3> HIDE DEF t
    <3> QED BY <2>8, <3>3 DEF E
  <2> HIDE DEF t
  <2> DEFINE E == D \cup {op.id}
  <2>13. /\ \A n \in D : t.nodes[n].parent = s.nodes[n].parent /\ t.nodes[n].ref = s.nodes[n].ref
         /\ t.nodes[op.id].parent = op.parent /\ t.nodes[op.id].ref = op.value.ref /\ t.nodes[op.id].children = <<>>
    BY <2>8, <2>10, <2>12
  <2>14. /\ \A x \in D \cup {None} : Siblings(t, x) = IF x = op.parent THEN new ELSE Siblings(s, x)
         /\ Siblings(t, op.id) = <<>>
    <3>1. \A x \in D \cup {None} : Siblings(t, x) = Siblings(linked, x)
      BY <2>5, <2>10, <2>12 DEF Siblings
    <3>2. Siblings(t, op.id) = <<>>
      BY <2>5, <2>13 DEF Siblings
    <3> QED BY <2>8, <3>1, <3>2
  <2>15. Counted(t)
    <3>1. IsFiniteSet(E) /\ Cardinality(E) = Cardinality(D) + 1
      BY <2>4, <2>5, FS_AddElement
    <3>2. Cardinality(D) \in Nat
      BY <2>4, FS_CardinalityType
    <3>3. Cardinality(E) <= MaxNodes
      BY <2>1, <3>1, <3>2, TreeAssumption
    <3>4. E \subseteq t.used
      BY <2>4, <2>8, <2>12 DEF U
    <3> QED BY <2>12, <3>1, <3>3, <3>4 DEF Counted
  <2>16. Linked(t)
    <3>1. \A n \in D : s.nodes[n].parent \in D \cup {None}
      BY <2>4 DEF Linked
    <3>2. \A n \in E : t.nodes[n].parent \in E \cup {None}
      BY <2>1, <2>13, <3>1
    <3>3. ASSUME NEW x \in E \cup {None}
          PROVE  /\ IsInjective(Siblings(t, x))
                 /\ ToSet(Siblings(t, x)) = {n \in E : t.nodes[n].parent = x}
      <4>1. CASE x = op.id
        <5>1. IsInjective(<<>>) /\ ToSet(<<>>) = {}
          BY DEF IsInjective, ToSet
        <5>2. {n \in E : t.nodes[n].parent = x} = {}
          BY <2>1, <2>5, <2>13, <3>1, <4>1
        <5> QED BY <2>14, <4>1, <5>1, <5>2
      <4>2. CASE x = op.parent
        <5>1. Siblings(t, x) = new
          BY <2>1, <2>14, <4>2
        <5>2. {n \in E : t.nodes[n].parent = x} = {n \in D : s.nodes[n].parent = x} \cup {op.id}
          BY <2>13, <4>2
        <5> QED BY <2>6, <2>7, <4>2, <5>1, <5>2
      <4>3. CASE x # op.id /\ x # op.parent
        <5>1. x \in D \cup {None} /\ Siblings(t, x) = Siblings(s, x)
          BY <2>14, <4>3
        <5>2. {n \in E : t.nodes[n].parent = x} = {n \in D : s.nodes[n].parent = x}
          BY <2>13, <4>3
        <5> QED BY <2>4, <5>1, <5>2 DEF Linked
      <4> QED BY <4>1, <4>2, <4>3
    <3> HIDE DEF E
    <3> QED BY <2>12, <3>2, <3>3 DEF Linked, E
  <2>17. Referred(t)
    <3>1. \A n \in D : s.nodes[n].ref # NoRef => s.nodes[n].ref \in DOMAIN s.models
      BY <2>4 DEF Referred
    <3>2. \A n \in E : t.nodes[n].ref # NoRef => t.nodes[n].ref \in DOMAIN t.models
      BY <2>1, <2>12, <2>13, <3>1
    <3> QED BY <2>4, <2>12, <3>2 DEF Referred
  <2>18. \E q : Ranks(t, q)
    <3> DEFINE d == DepthBelow(s, op.parent) + 1
               q == [n \in E |-> IF n = op.id THEN d ELSE r[n]]
    <3>1. DepthBelow(s, op.parent) = (IF op.parent = None THEN 0 ELSE r[op.parent]) /\ DepthBelow(s, op.parent) \in Nat
      BY <2>1, <2>3, <2>4, DepthBelowRank
    <3>2. d \in 1..MaxDepth
      BY <2>1, <3>1, TreeAssumption
    <3>3. d = IF op.parent = None THEN 1 ELSE r[op.parent] + 1
      BY <3>1
    <3> HIDE DEF d
    <3>4. /\ r \in [D -> 1..MaxDepth]
          /\ \A n \in D : r[n] = IF s.nodes[n].parent = None THEN 1 ELSE r[s.nodes[n].parent] + 1
      BY <2>3 DEF Ranks
    <3>5. q \in [E -> 1..MaxDepth] /\ q[op.id] = d /\ \A n \in D : q[n] = r[n]
      BY <2>5, <3>2, <3>4
    <3> HIDE DEF q
    <3>6. ASSUME NEW n \in E
          PROVE  q[n] = IF t.nodes[n].parent = None THEN 1 ELSE q[t.nodes[n].parent] + 1
      <4>1. CASE n = op.id
        BY <2>1, <2>13, <3>3, <3>5, <4>1
      <4>2. CASE n # op.id
        <5>1. n \in D /\ s.nodes[n].parent \in D \cup {None}
          BY <2>4, <4>2 DEF Linked
        <5> QED BY <2>13, <3>4, <3>5, <5>1
      <4> QED BY <4>1, <4>2
    <3>7. Ranks(t, q)
      <4> HIDE DEF E
      <4> QED BY <2>12, <3>5, <3>6 DEF Ranks, E
    <3> QED BY <3>7
  <2>19. TreeOK(t)
    BY <2>15, <2>16, <2>17, <2>18 DEF TreeOK
  <2> QED BY <2>2, <2>12, <2>19, DoneAnswers
<1> QED BY <1>1, <1>2

\* A node taken from among its siblings.
LEMMA Unlinked ==
  ASSUME NEW s, Counted(s), Linked(s), NEW id \in DOMAIN s.nodes
  PROVE  LET t == Unlink(s, id) IN
         /\ t \in Stores /\ DOMAIN t.nodes = DOMAIN s.nodes /\ t.used = s.used /\ t.models = s.models
         /\ \A n \in DOMAIN s.nodes : t.nodes[n].parent = s.nodes[n].parent /\ t.nodes[n].ref = s.nodes[n].ref
         /\ \A x \in DOMAIN s.nodes \cup {None} :
              /\ Siblings(t, x) \in Seq(NodeIds) /\ IsInjective(Siblings(t, x))
              /\ ToSet(Siblings(t, x)) = {n \in DOMAIN s.nodes \ {id} : s.nodes[n].parent = x}
<1> DEFINE p == s.nodes[id].parent
           ids == Siblings(s, p)
           D == DOMAIN s.nodes
           new == SelectIn(ids, ToSet(ids) \ {id})
           t == Relink(s, p, new)
<1>1. s \in Stores /\ p \in D \cup {None}
  BY DEF Counted, Linked
<1>2. \A x \in D \cup {None} :
        /\ Siblings(s, x) \in Seq(NodeIds) /\ IsInjective(Siblings(s, x))
        /\ ToSet(Siblings(s, x)) = {n \in D : s.nodes[n].parent = x}
  BY <1>1, StoreParts DEF Linked
<1>3. Unlink(s, id) = t
  BY DEF Unlink
<1>4. new \in Seq(NodeIds) /\ IsInjective(new) /\ ToSet(new) = ToSet(ids) \ {id}
  <2>1. ids \in Seq(NodeIds) /\ IsInjective(ids)
    BY <1>1, <1>2
  <2> HIDE DEF ids
  <2> QED BY <2>1, SiblingRemoved
<1> HIDE DEF p, new
<1>5. /\ t \in Stores /\ DOMAIN t.nodes = DOMAIN s.nodes /\ t.used = s.used /\ t.models = s.models
      /\ \A n \in D : t.nodes[n].parent = s.nodes[n].parent /\ t.nodes[n].ref = s.nodes[n].ref
      /\ \A x \in D \cup {None} : Siblings(t, x) = IF x = p THEN new ELSE Siblings(s, x)
  <2>1. s \in Stores /\ p \in DOMAIN s.nodes \cup {None} /\ new \in Seq(NodeIds)
    BY <1>1, <1>4
  <2>2. LET v == Relink(s, p, new) IN
        /\ v \in Stores /\ DOMAIN v.nodes = DOMAIN s.nodes /\ v.used = s.used
        /\ v.models = s.models /\ v.usedModels = s.usedModels
        /\ \A n \in DOMAIN s.nodes : v.nodes[n].parent = s.nodes[n].parent /\ v.nodes[n].ref = s.nodes[n].ref
        /\ \A x \in DOMAIN s.nodes \cup {None} : Siblings(v, x) = IF x = p THEN new ELSE Siblings(s, x)
    BY <2>1, Relinked, ZenonT(40)
  <2> QED BY <2>2
<1> HIDE DEF t
<1>6. ASSUME NEW x \in D \cup {None}
      PROVE  /\ Siblings(t, x) \in Seq(NodeIds) /\ IsInjective(Siblings(t, x))
             /\ ToSet(Siblings(t, x)) = {n \in D \ {id} : s.nodes[n].parent = x}
  <2>1. CASE x = p
    <3>1. Siblings(t, x) = new /\ ToSet(ids) = {n \in D : s.nodes[n].parent = x}
      BY <1>1, <1>2, <1>5, <2>1
    <3> QED BY <1>4, <3>1
  <2>2. CASE x # p
    <3>1. Siblings(t, x) = Siblings(s, x) /\ s.nodes[id].parent # x
      BY <1>5, <2>2 DEF p
    <3>2. {n \in D \ {id} : s.nodes[n].parent = x} = {n \in D : s.nodes[n].parent = x}
      BY <3>1
    <3> QED BY <1>2, <3>1, <3>2
  <2> QED BY <2>1, <2>2
<1> QED BY <1>3, <1>5, <1>6

\* A deleted node takes with it what hangs from it, and nothing else.
LEMMA DeleteNodeOK ==
  ASSUME NEW s, TreeOK(s), NEW op, op.id \in NodeIds
  PROVE  Answers(delete_node(s, op), s)
<1> DEFINE id == op.id
           D == DOMAIN s.nodes
           Sub == Subtree(s, id)
           out == Unlink(s, id)
           N == Drop(out.nodes, Sub)
           t == [out EXCEPT !.nodes = N]
           E == D \ Sub
<1>1. CASE id \notin D
  <2>1. delete_node(s, op) = Failed(s)
    BY <1>1 DEF delete_node
  <2> QED BY <2>1, FailedAnswers
<1>2. CASE id \in D
  <2>1. delete_node(s, op) = Done(t)
    BY <1>2 DEF delete_node
  <2>2. PICK r : Ranks(s, r)
    BY DEF TreeOK
  <2>3. /\ Counted(s) /\ Linked(s) /\ Referred(s) /\ s \in Stores /\ IsFiniteSet(D) /\ D \subseteq s.used
        /\ Cardinality(D) <= MaxNodes /\ D \in SUBSET NodeIds /\ None \notin D
    BY StoreParts, NoneIsNoNode DEF TreeOK, Counted
  <2>4. /\ Sub \subseteq D /\ id \in Sub
        /\ \A n \in D : n \in Sub <=> n = id \/ s.nodes[n].parent \in Sub
    <3> HIDE DEF id
    <3> QED BY <1>2, <2>2, <2>3, SubtreeClosed
  <2> HIDE DEF Sub
  <2>5. /\ out \in Stores /\ DOMAIN out.nodes = D /\ out.used = s.used /\ out.models = s.models
        /\ \A n \in D : out.nodes[n].parent = s.nodes[n].parent /\ out.nodes[n].ref = s.nodes[n].ref
        /\ \A x \in D \cup {None} :
             /\ IsInjective(Siblings(out, x))
             /\ ToSet(Siblings(out, x)) = {n \in D \ {id} : s.nodes[n].parent = x}
    <3> HIDE DEF id
    <3> QED BY <1>2, <2>3, Unlinked
  <2> HIDE DEF out, id
  <2>6. E \in SUBSET NodeIds /\ N \in [E -> Nodes] /\ \A n \in E : N[n] = out.nodes[n]
    <3>1. out.nodes \in [D -> Nodes]
      BY <2>5, StoreParts
    <3> QED BY <2>3, <2>5, <3>1 DEF Drop
  <2> HIDE DEF N, E
  <2>7. /\ t \in Stores /\ t.nodes = N /\ DOMAIN t.nodes = E /\ t.roots = out.roots /\ t.used = out.used
        /\ t.models = out.models
    BY <2>5, <2>6, NodesOnly
  <2> HIDE DEF t
  <2>8. \A n \in E : n \in D /\ n \notin Sub /\ n # id
    BY <2>4 DEF E
  <2>9. \A n \in E : t.nodes[n].parent = s.nodes[n].parent /\ t.nodes[n].ref = s.nodes[n].ref
    BY <2>5, <2>6, <2>7, <2>8
  <2>10. \A x \in E \cup {None} : Siblings(t, x) = Siblings(out, x)
    BY <2>3, <2>6, <2>7, <2>8 DEF Siblings
  <2>11. Counted(t)
    <3>1. E \in SUBSET D
      BY <2>8
    <3>2. IsFiniteSet(E) /\ Cardinality(E) <= Cardinality(D)
      BY <2>3, <3>1, FS_Subset
    <3>3. Cardinality(E) \in Nat /\ Cardinality(D) \in Nat
      BY <2>3, <3>2, FS_CardinalityType
    <3>4. Cardinality(E) <= MaxNodes /\ E \subseteq t.used
      BY <2>3, <2>5, <2>7, <3>1, <3>2, <3>3, TreeAssumption
    <3> QED BY <2>7, <3>2, <3>4 DEF Counted
  <2>12. \A n \in E : t.nodes[n].parent \in E \cup {None}
    <3>1. \A n \in D : s.nodes[n].parent \in D \cup {None}
      BY <2>3 DEF Linked
    <3> QED BY <2>4, <2>8, <2>9, <3>1 DEF E
  <2>13. ASSUME NEW x \in E \cup {None}
         PROVE  /\ IsInjective(Siblings(t, x))
                /\ ToSet(Siblings(t, x)) = {n \in E : t.nodes[n].parent = x}
    <3>1. x \in D \cup {None} /\ x \notin Sub
      BY <2>3, <2>4, <2>8
    <3>2. {n \in D \ {id} : s.nodes[n].parent = x} = {n \in E : t.nodes[n].parent = x}
      <4>1. \A n \in D \ {id} : s.nodes[n].parent = x => n \in E
        BY <2>4, <3>1 DEF E
      <4> QED BY <2>8, <2>9, <4>1
    <3> QED BY <2>5, <2>10, <3>1, <3>2
  <2>14. Linked(t)
    BY <2>7, <2>12, <2>13 DEF Linked
  <2>15. Referred(t)
    <3>1. \A n \in D : s.nodes[n].ref # NoRef => s.nodes[n].ref \in DOMAIN s.models
      BY <2>3 DEF Referred
    <3>2. \A n \in E : t.nodes[n].ref # NoRef => t.nodes[n].ref \in DOMAIN t.models
      BY <2>5, <2>7, <2>8, <2>9, <3>1
    <3> QED BY <2>3, <2>5, <2>7, <3>2 DEF Referred
  <2>16. \E q : Ranks(t, q)
    <3> DEFINE q == [n \in E |-> r[n]]
    <3>1. /\ r \in [D -> 1..MaxDepth]
          /\ \A n \in D : r[n] = IF s.nodes[n].parent = None THEN 1 ELSE r[s.nodes[n].parent] + 1
      BY <2>2 DEF Ranks
    <3>2. q \in [E -> 1..MaxDepth] /\ \A n \in E : q[n] = r[n]
      BY <2>8, <3>1
    <3> HIDE DEF q
    <3>3. \A n \in E : q[n] = IF t.nodes[n].parent = None THEN 1 ELSE q[t.nodes[n].parent] + 1
      BY <2>8, <2>9, <2>12, <3>1, <3>2
    <3>4. Ranks(t, q)
      BY <2>7, <3>2, <3>3 DEF Ranks
    <3> QED BY <3>4
  <2>17. TreeOK(t)
    BY <2>11, <2>14, <2>15, <2>16 DEF TreeOK
  <2> QED BY <2>1, <2>5, <2>7, <2>17, DoneAnswers
<1> QED BY <1>1, <1>2

\* One node changed, but neither its parent nor its children.
LEMMA RefChanged ==
  ASSUME NEW s, TreeOK(s), NEW id \in DOMAIN s.nodes, NEW ref,
         ref = NoRef \/ (ref \in ModelIds /\ ref \in DOMAIN s.models)
  PROVE  LET t == [s EXCEPT !.nodes[id].ref = ref] IN
         TreeOK(t) /\ DOMAIN t.nodes = DOMAIN s.nodes /\ t.models = s.models
<1> DEFINE D == DOMAIN s.nodes
           node == [s.nodes[id] EXCEPT !.ref = ref]
           N == [s.nodes EXCEPT ![id] = node]
           t == [s EXCEPT !.nodes = N]
<1>1. /\ Counted(s) /\ Linked(s) /\ Referred(s) /\ s \in Stores /\ IsFiniteSet(D) /\ D \subseteq s.used
      /\ Cardinality(D) <= MaxNodes
  BY DEF TreeOK, Counted
<1>2. /\ s.nodes \in [D -> Nodes] /\ s.nodes[id] \in Nodes /\ D \in SUBSET NodeIds /\ None \notin D
  BY <1>1, StoreParts, NoneIsNoNode
<1>3. [s EXCEPT !.nodes[id].ref = ref] = t
  BY <1>1, <1>2 DEF Stores
<1>4. node \in Nodes /\ node.parent = s.nodes[id].parent /\ node.children = s.nodes[id].children /\ node.ref = ref
  BY <1>2 DEF Nodes
<1> HIDE DEF node
<1>5. N \in [D -> Nodes] /\ N[id] = node /\ \A n \in D : n # id => N[n] = s.nodes[n]
  BY <1>2, <1>4
<1> HIDE DEF N
<1>6. /\ t \in Stores /\ t.nodes = N /\ DOMAIN t.nodes = D /\ t.roots = s.roots /\ t.used = s.used
      /\ t.models = s.models
  BY <1>1, <1>2, <1>5, NodesOnly
<1> HIDE DEF t
<1>7. /\ \A n \in D : t.nodes[n].parent = s.nodes[n].parent /\ t.nodes[n].children = s.nodes[n].children
      /\ \A n \in D : t.nodes[n].ref = IF n = id THEN ref ELSE s.nodes[n].ref
  BY <1>4, <1>5, <1>6
<1>8. \A x \in D \cup {None} : Siblings(t, x) = Siblings(s, x)
  BY <1>6, <1>7 DEF Siblings
<1>9. Counted(t)
  BY <1>1, <1>6 DEF Counted
<1>10. Linked(t)
  <2>1. \A x : {n \in D : t.nodes[n].parent = x} = {n \in D : s.nodes[n].parent = x}
    BY <1>7
  <2> QED BY <1>1, <1>6, <1>7, <1>8, <2>1 DEF Linked
<1>11. Referred(t)
  BY <1>1, <1>6, <1>7 DEF Referred
<1>12. \A r : Ranks(s, r) => Ranks(t, r)
  BY <1>6, <1>7 DEF Ranks
<1>13. \E r : Ranks(t, r)
  BY <1>12 DEF TreeOK
<1> QED BY <1>3, <1>6, <1>9, <1>10, <1>11, <1>13 DEF TreeOK

\* A value that is accepted refers to a model there is, or to none.
LEMMA AcceptedRef ==
  ASSUME NEW s, NEW v \in Values, ValueAccepted(s, v)
  PROVE  v.ref = NoRef \/ (v.ref \in ModelIds /\ v.ref \in DOMAIN s.models)
BY DEF Values, ValueAccepted, validate_property_references

\* set_property and clear_property.
LEMMA SetPropertyOK ==
  ASSUME NEW s, TreeOK(s), NEW op, op.id \in NodeIds, op.value \in Values
  PROVE  /\ Answers(set_property(s, op), s)
         /\ DOMAIN set_property(s, op).store.nodes = DOMAIN s.nodes
<1> DEFINE t == [s EXCEPT !.nodes[op.id].ref = op.value.ref]
           refused == ~ValueAccepted(s, op.value) \/ op.id \notin DOMAIN s.nodes
<1>1. CASE refused
  <2>1. set_property(s, op) = Failed(s)
    BY <1>1 DEF set_property
  <2> QED BY <2>1, FailedAnswers DEF Failed
<1>2. CASE ~refused /\ op.value.ref = NoRef
  <2>1. set_property(s, op) = Done(s)
    BY <1>2 DEF set_property
  <2> QED BY <2>1, DoneAnswers DEF Done
<1>3. CASE ~refused /\ op.value.ref # NoRef
  <2>1. set_property(s, op) = Done(t)
    BY <1>3 DEF set_property
  <2>2. op.value.ref \in ModelIds /\ op.value.ref \in DOMAIN s.models /\ op.id \in DOMAIN s.nodes
    <3> DEFINE v == op.value
    <3> HIDE DEF v
    <3>1. v \in Values /\ ValueAccepted(s, v) /\ v.ref # NoRef
      BY <1>3 DEF v
    <3>2. v.ref \in ModelIds /\ v.ref \in DOMAIN s.models
      BY <3>1, AcceptedRef
    <3> QED BY <1>3, <3>2 DEF v
  <2>3. TreeOK(t) /\ DOMAIN t.nodes = DOMAIN s.nodes /\ t.models = s.models
    <3> DEFINE id == op.id
               ref == op.value.ref
    <3> HIDE DEF id, ref
    <3>1. id \in DOMAIN s.nodes /\ ref \in ModelIds /\ ref \in DOMAIN s.models
      BY <2>2 DEF id, ref
    <3>2. LET v == [s EXCEPT !.nodes[id].ref = ref] IN
          TreeOK(v) /\ DOMAIN v.nodes = DOMAIN s.nodes /\ v.models = s.models
      BY <3>1, RefChanged
    <3> QED BY <3>2 DEF id, ref
  <2> HIDE DEF t
  <2>4. Answers(Done(t), s) /\ Done(t).store = t
    BY <2>3, DoneAnswers DEF Done
  <2> QED BY <2>1, <2>3, <2>4
<1> QED BY <1>1, <1>2, <1>3

\* A property taken away, the reference to a model with it.
LEMMA ClearPropertyOK ==
  ASSUME NEW s, TreeOK(s), NEW op, op.id \in NodeIds
  PROVE  Answers(clear_property(s, op), s)
<1> DEFINE id == op.id
           t == [s EXCEPT !.nodes[id].ref = NoRef]
<1>1. CASE id \notin DOMAIN s.nodes
  <2>1. clear_property(s, op) = Failed(s)
    BY <1>1 DEF clear_property
  <2> QED BY <2>1, FailedAnswers
<1>2. CASE id \in DOMAIN s.nodes
  <2>1. clear_property(s, op) = Done(t)
    BY <1>2 DEF clear_property
  <2>2. TreeOK(t) /\ t.models = s.models
    <3> HIDE DEF id
    <3>1. LET v == [s EXCEPT !.nodes[id].ref = NoRef] IN TreeOK(v) /\ v.models = s.models
      BY <1>2, RefChanged
    <3> QED BY <3>1
  <2> HIDE DEF t
  <2> QED BY <2>1, <2>2, DoneAnswers
<1> QED BY <1>1, <1>2

\* batch_property_set, value by value.
LEMMA BatchOK ==
  ASSUME NEW s, TreeOK(s), NEW op, op.id \in NodeIds, op.values \in Seq(Values)
  PROVE  Answers(batch_property_set(s, op), s)
<1> DEFINE values == op.values
           n == Len(values)
           T == {t \in Stores : TreeOK(t) /\ t.models = s.models}
           opn(a, i) == set_property(a, [id |-> op.id, value |-> values[i]]).store
           step == [p \in T \X (1..n) |-> opn(p[1], p[2])]
           it == CHOOSE f : f = [S \in SUBSET DOMAIN values |->
                   IF S = {} THEN s ELSE opn(f[S \ {Max(S)}], Max(S))]
           refused == (\E v \in ToSet(values) : ~ValueAccepted(s, v)) \/ op.id \notin DOMAIN s.nodes
<1>0. \A t : TreeOK(t) => t \in Stores
  BY DEF TreeOK, Counted
<1>1. n \in Nat /\ DOMAIN values = 1..n /\ s \in T /\ \A i \in 1..n : values[i] \in Values
  BY <1>0
<1>2. batch_property_set(s, op) = IF refused THEN Failed(s) ELSE Done(it[DOMAIN values])
  BY Zenon DEF batch_property_set, FoldLeft, MapThenFoldSet
<1>3. step \in [T \X (1..n) -> T] /\ \A a \in T, i \in 1..n : step[<<a, i>>] = opn(a, i)
  <2>1. ASSUME NEW a \in T, NEW i \in 1..n PROVE opn(a, i) \in T
    <3> DEFINE o == [id |-> op.id, value |-> values[i]]
    <3>1. o.id \in NodeIds /\ o.value \in Values
      BY <1>1
    <3> HIDE DEF o
    <3>2. TreeOK(a) /\ a.models = s.models
      OBVIOUS
    <3>3. Answers(set_property(a, o), a)
      BY <3>1, <3>2, SetPropertyOK
    <3>4. set_property(a, o).store \in T
      BY <1>0, <3>2, <3>3 DEF Answers
    <3> QED BY <3>4 DEF o
  <2> HIDE DEF opn, T, n
  <2> QED BY <2>1
<1> HIDE DEF opn, step, T, n, refused, values
<1>4. PICK g \in [SUBSET (1..n) -> T] : Solves(g, s, step, n)
  BY <1>1, <1>3, FoldExists
<1>5. \A S \in SUBSET (1..n) : S # {} => Max(S) \in 1..n /\ S \ {Max(S)} \in SUBSET (1..n)
  BY <1>1, MaxOfPositions
<1>6. g = [S \in SUBSET DOMAIN values |-> IF S = {} THEN s ELSE opn(g[S \ {Max(S)}], Max(S))]
  <2>1. ASSUME NEW S \in SUBSET (1..n)
        PROVE  g[S] = IF S = {} THEN s ELSE opn(g[S \ {Max(S)}], Max(S))
    <3>1. CASE S = {}
      BY <1>4, <3>1 DEF Solves
    <3>2. CASE S # {}
      <4>1. g[S \ {Max(S)}] \in T /\ Max(S) \in 1..n
        BY <1>4, <1>5, <3>2
      <4>2. g[S] = step[<<g[S \ {Max(S)}], Max(S)>>]
        BY <1>4, <3>2 DEF Solves
      <4> QED BY <1>3, <3>2, <4>1, <4>2
    <3> QED BY <3>1, <3>2
  <2> QED BY <1>1, <1>4, <2>1
<1>7. it = [S \in SUBSET DOMAIN values |-> IF S = {} THEN s ELSE opn(it[S \ {Max(S)}], Max(S))]
  BY <1>6, Zenon
<1> HIDE DEF it
<1>8. Iterates(it, s, step, T, n)
  <2>1. DOMAIN values = 1..n
    BY <1>1
  <2> QED BY <1>3, <1>5, <1>7, <2>1 DEF Iterates
<1>9. PICK c \in [0..n -> T] : Passes(c, s, step, n, it[1..n])
  BY <1>1, <1>3, <1>8, FoldTrace
<1>10. it[DOMAIN values] \in T
  BY <1>1, <1>9 DEF Passes
<1>11. Answers(Done(it[DOMAIN values]), s)
  BY <1>10, DoneAnswers DEF T
<1> QED BY <1>2, <1>11, FailedAnswers

\* As many siblings in another order.
LEMMA ReorderOK ==
  ASSUME NEW s, TreeOK(s), NEW op, op.id \in NodeIds, op.order \in Seq(NodeIds)
  PROVE  Answers(reorder_children(s, op), s)
<1> DEFINE id == op.id
           arranged == op.order
           D == DOMAIN s.nodes
           old == s.nodes[id].children
           refused == \/ id \notin D \/ Len(arranged) # Len(old) \/ ToSet(arranged) # ToSet(old)
           t == Relink(s, id, arranged)
<1>1. CASE refused
  <2>1. reorder_children(s, op) = Failed(s)
    BY <1>1 DEF reorder_children
  <2> QED BY <2>1, FailedAnswers
<1>2. CASE ~refused
  <2>0. /\ Counted(s) /\ Linked(s) /\ Referred(s) /\ s \in Stores /\ IsFiniteSet(D) /\ D \subseteq s.used
        /\ Cardinality(D) <= MaxNodes /\ id \in D
    BY <1>2 DEF TreeOK, Counted
  <2>1. None \notin D /\ id # None
    BY <2>0, StoreParts, NoneIsNoNode
  <2>2. reorder_children(s, op) = Done(t)
    BY <1>2, <2>1 DEF reorder_children, Relink
  <2>3. old = Siblings(s, id) /\ old \in Seq(NodeIds) /\ IsInjective(old)
    BY <2>0, <2>1, StoreParts DEF Siblings, Linked
  <2>4. Len(arranged) = Len(old) /\ ToSet(arranged) = ToSet(old)
    BY <1>2
  <2> HIDE DEF arranged, old, refused, id
  <2>5. arranged \in Seq(NodeIds)
    BY DEF arranged
  <2>6. IsInjective(arranged)
    <3> DEFINE n == Len(old)
               W == ToSet(old)
    <3>1. n \in Nat /\ DOMAIN old = 1..n /\ DOMAIN arranged = 1..n
      BY <2>3, <2>4, <2>5
    <3>2. W = {old[i] : i \in 1..n} /\ W = {arranged[i] : i \in 1..n}
      BY <2>4, <3>1 DEF ToSet
    <3>3. old = [i \in 1..n |-> old[i]] /\ arranged = [i \in 1..n |-> arranged[i]]
      BY <2>3, <2>5, <3>1
    <3> HIDE DEF n, W
    <3>4. old \in [1..n -> W] /\ arranged \in [1..n -> W]
      BY <3>2, <3>3
    <3>5. old \in Surjection(1..n, W) /\ arranged \in Surjection(1..n, W)
      BY <3>2, <3>4 DEF Surjection
    <3>6. old \in Injection(1..n, W)
      BY <2>3, <3>4 DEF Injection
    <3>7. IsFiniteSet(1..n)
      <4>1. 1 \in Int /\ n \in Int
        BY <3>1
      <4> QED BY <4>1, FS_Interval
    <3>8. Cardinality(W) = Cardinality(1..n)
      BY <3>5, <3>6, <3>7, FS_Surjection
    <3>9. arranged \in Injection(1..n, W)
      BY <3>5, <3>7, <3>8, FS_Surjection
    <3> QED BY <3>9 DEF Injection
  <2>7. /\ t \in Stores /\ DOMAIN t.nodes = D /\ t.used = s.used /\ t.models = s.models
        /\ \A n \in D : t.nodes[n].parent = s.nodes[n].parent /\ t.nodes[n].ref = s.nodes[n].ref
        /\ \A x \in D \cup {None} : Siblings(t, x) = IF x = id THEN arranged ELSE Siblings(s, x)
    <3>1. id \in DOMAIN s.nodes \cup {None}
      BY <2>0
    <3>2. LET v == Relink(s, id, arranged) IN
          /\ v \in Stores /\ DOMAIN v.nodes = DOMAIN s.nodes /\ v.used = s.used /\ v.models = s.models
          /\ \A n \in DOMAIN s.nodes : v.nodes[n].parent = s.nodes[n].parent /\ v.nodes[n].ref = s.nodes[n].ref
          /\ \A x \in DOMAIN s.nodes \cup {None} : Siblings(v, x) = IF x = id THEN arranged ELSE Siblings(s, x)
      BY <2>0, <2>5, <3>1, Relinked
    <3> QED BY <3>2
  <2> HIDE DEF t
  <2>8. Counted(t)
    BY <2>0, <2>7 DEF Counted
  <2>9. Linked(t)
    <3>1. \A x : {n \in D : t.nodes[n].parent = x} = {n \in D : s.nodes[n].parent = x}
      BY <2>7
    <3>2. \A x \in D \cup {None} : IsInjective(Siblings(t, x)) /\ ToSet(Siblings(t, x)) = ToSet(Siblings(s, x))
      BY <2>0, <2>3, <2>4, <2>6, <2>7 DEF Linked
    <3> QED BY <2>0, <2>7, <3>1, <3>2 DEF Linked
  <2>10. Referred(t)
    BY <2>0, <2>7 DEF Referred
  <2>11. \A r : Ranks(s, r) => Ranks(t, r)
    BY <2>7 DEF Ranks
  <2>12. TreeOK(t)
    BY <2>8, <2>9, <2>10, <2>11 DEF TreeOK
  <2> QED BY <2>2, <2>7, <2>12, DoneAnswers
<1> QED BY <1>1, <1>2

\* A moved node keeps what hangs from it; nothing becomes its own ancestor, and what
\* hangs from it is no deeper than the limit.
LEMMA MoveNodeOK ==
  ASSUME NEW s, TreeOK(s), NEW op, op.id \in NodeIds, op.parent \in Parents, op.at \in Nat \cup {None}
  PROVE  Answers(move_node(s, op), s)
<1> DEFINE id == op.id
           q == op.parent
           D == DOMAIN s.nodes
           Sub == Subtree(s, id)
           out == Unlink(s, id)
           ids == Siblings(out, q)
           new == InsertAt(ids, Slot(ids, op.at), id)
           linked == Relink(out, q, new)
           t == [linked EXCEPT !.nodes[id].parent = q]
           refused == \/ id \notin D
                      \/ CycleDetected(s, id, q)
                      \/ q # None /\ q \notin D
                      \/ new_total_depth(s, id, q) > MaxDepth
                      \/ op.at # None /\ op.at > Len(Siblings(s, q))
<1>1. CASE refused
  <2>1. move_node(s, op) = Failed(s)
    BY <1>1 DEF move_node
  <2> QED BY <2>1, FailedAnswers
<1>2. CASE ~refused
  <2>1. /\ id \in D /\ q \notin Sub /\ q \in D \cup {None}
        /\ ~(DepthBelow(s, q) + subtree_depth(s, id) > MaxDepth)
    BY <1>2 DEF CycleDetected, new_total_depth
  <2>2. move_node(s, op) = Done(t)
    BY <1>2 DEF move_node
  <2> HIDE DEF refused
  <2>3. PICK r : Ranks(s, r)
    BY DEF TreeOK
  <2>4. /\ Counted(s) /\ Linked(s) /\ Referred(s) /\ s \in Stores /\ IsFiniteSet(D) /\ D \subseteq s.used
        /\ Cardinality(D) <= MaxNodes /\ D \in SUBSET NodeIds /\ None \notin D
    BY StoreParts, NoneIsNoNode DEF TreeOK, Counted
  <2> DEFINE at == op.at
  <2>5. id \in NodeIds /\ q \in Parents /\ at \in Nat \cup {None}
    OBVIOUS
  <2> HIDE DEF id, q, at
  <2>6. /\ Sub \subseteq D /\ id \in Sub
        /\ \A n \in D : n \in Sub <=> n = id \/ s.nodes[n].parent \in Sub
        /\ \A n \in Sub : r[n] >= r[id]
    BY <2>1, <2>3, <2>4, SubtreeClosed
  <2>7. /\ subtree_depth(s, id) \in Nat
        /\ \A n \in Sub : r[n] - r[id] + 1 <= subtree_depth(s, id)
    BY <2>1, <2>3, <2>4, SubtreeDepthBound
  <2>8. DepthBelow(s, q) = (IF q = None THEN 0 ELSE r[q]) /\ DepthBelow(s, q) \in Nat
    BY <2>1, <2>3, <2>4, DepthBelowRank
  <2> HIDE DEF Sub
  <2>9. /\ out \in Stores /\ DOMAIN out.nodes = D /\ out.used = s.used /\ out.models = s.models
        /\ \A n \in D : out.nodes[n].parent = s.nodes[n].parent /\ out.nodes[n].ref = s.nodes[n].ref
        /\ \A x \in D \cup {None} :
             /\ Siblings(out, x) \in Seq(NodeIds) /\ IsInjective(Siblings(out, x))
             /\ ToSet(Siblings(out, x)) = {n \in D \ {id} : s.nodes[n].parent = x}
    BY <2>1, <2>4, Unlinked
  <2> HIDE DEF out
  <2>10. ids \in Seq(NodeIds) /\ IsInjective(ids) /\ id \notin ToSet(ids)
         /\ ToSet(ids) = {n \in D \ {id} : s.nodes[n].parent = q}
    BY <2>1, <2>9
  <2> HIDE DEF ids
  <2>11. new \in Seq(NodeIds) /\ IsInjective(new) /\ ToSet(new) = ToSet(ids) \cup {id}
    <3>1. LET v == InsertAt(ids, Slot(ids, at), id) IN
          v \in Seq(NodeIds) /\ IsInjective(v) /\ ToSet(v) = ToSet(ids) \cup {id}
      BY <2>5, <2>10, SiblingAdded
    <3> QED BY <3>1 DEF at
  <2> HIDE DEF new
  <2>12. /\ linked \in Stores /\ DOMAIN linked.nodes = D /\ linked.used = s.used /\ linked.models = s.models
         /\ \A n \in D : linked.nodes[n].parent = s.nodes[n].parent /\ linked.nodes[n].ref = s.nodes[n].ref
         /\ \A x \in D \cup {None} : Siblings(linked, x) = IF x = q THEN new ELSE Siblings(out, x)
    <3>1. q \in DOMAIN out.nodes \cup {None} /\ out \in Stores
      BY <2>1, <2>9
    <3>2. LET v == Relink(out, q, new) IN
          /\ v \in Stores /\ DOMAIN v.nodes = DOMAIN out.nodes /\ v.used = out.used /\ v.models = out.models
          /\ \A n \in DOMAIN out.nodes : v.nodes[n].parent = out.nodes[n].parent /\ v.nodes[n].ref = out.nodes[n].ref
          /\ \A x \in DOMAIN out.nodes \cup {None} : Siblings(v, x) = IF x = q THEN new ELSE Siblings(out, x)
      BY <2>11, <3>1, Relinked
    <3> HIDE DEF linked
    <3>3. /\ linked \in Stores /\ DOMAIN linked.nodes = DOMAIN out.nodes /\ linked.used = out.used /\ linked.models = out.models
          /\ \A n \in DOMAIN out.nodes : linked.nodes[n].parent = out.nodes[n].parent /\ linked.nodes[n].ref = out.nodes[n].ref
          /\ \A x \in DOMAIN out.nodes \cup {None} : Siblings(linked, x) = IF x = q THEN new ELSE Siblings(out, x)
      BY <3>2 DEF linked
    <3> QED BY <2>9, <3>3
  <2> HIDE DEF linked
  <2> DEFINE node == [linked.nodes[id] EXCEPT !.parent = q]
             N == [linked.nodes EXCEPT ![id] = node]
  <2>13. linked.nodes \in [D -> Nodes] /\ linked.nodes[id] \in Nodes
    BY <2>1, <2>12, StoreParts
  <2>14. /\ node \in Nodes /\ node.parent = q /\ node.ref = linked.nodes[id].ref
         /\ node.children = linked.nodes[id].children
    BY <2>5, <2>13 DEF Nodes
  <2>15. t = [linked EXCEPT !.nodes = N]
    BY <2>1, <2>12, <2>13 DEF Stores
  <2> HIDE DEF node
  <2>16. N \in [D -> Nodes] /\ N[id] = node /\ \A n \in D : n # id => N[n] = linked.nodes[n]
    BY <2>1, <2>13, <2>14
  <2> HIDE DEF N, t
  <2>17. /\ t \in Stores /\ t.nodes = N /\ DOMAIN t.nodes = D /\ t.used = s.used /\ t.models = s.models
         /\ t.roots = linked.roots
    <3> DEFINE v == [linked EXCEPT !.nodes = N]
    <3>0. N \in NodeMaps /\ DOMAIN N = D
      BY <2>4, <2>16 DEF NodeMaps
    <3>1. /\ v \in Stores /\ v.nodes = N /\ v.used = linked.used /\ v.models = linked.models
          /\ v.roots = linked.roots
      BY <2>12, <3>0 DEF Stores
    <3>2. t = v
      BY <2>15
    <3> HIDE DEF v
    <3> QED BY <2>12, <3>0, <3>1, <3>2
  <2>18. /\ \A n \in D : t.nodes[n].parent = IF n = id THEN q ELSE s.nodes[n].parent
         /\ \A n \in D : t.nodes[n].ref = s.nodes[n].ref /\ t.nodes[n].children = linked.nodes[n].children
    BY <2>12, <2>14, <2>16, <2>17
  <2>19. \A x \in D \cup {None} : Siblings(t, x) = IF x = q THEN new ELSE Siblings(out, x)
    <3>1. \A x \in D \cup {None} : Siblings(t, x) = Siblings(linked, x)
      BY <2>17, <2>18 DEF Siblings
    <3> QED BY <2>12, <3>1
  <2>20. Counted(t)
    BY <2>4, <2>17 DEF Counted
  <2>21. Linked(t)
    <3>1. \A n \in D : t.nodes[n].parent \in D \cup {None}
      BY <2>1, <2>4, <2>18 DEF Linked
    <3>2. ASSUME NEW x \in D \cup {None}
          PROVE  IsInjective(Siblings(t, x)) /\ ToSet(Siblings(t, x)) = {n \in D : t.nodes[n].parent = x}
      <4>1. CASE x = q
        <5>1. Siblings(t, x) = new
          BY <2>19, <4>1
        <5>2. {n \in D : t.nodes[n].parent = x} = {n \in D \ {id} : s.nodes[n].parent = q} \cup {id}
          BY <2>1, <2>18, <4>1
        <5> QED BY <2>10, <2>11, <5>1, <5>2
      <4>2. CASE x # q
        <5>1. Siblings(t, x) = Siblings(out, x)
          BY <2>19, <4>2
        <5>2. {n \in D : t.nodes[n].parent = x} = {n \in D \ {id} : s.nodes[n].parent = x}
          BY <2>1, <2>18, <4>2
        <5> QED BY <2>9, <5>1, <5>2
      <4> QED BY <4>1, <4>2
    <3> QED BY <2>17, <3>1, <3>2 DEF Linked
  <2>22. Referred(t)
    BY <2>4, <2>17, <2>18 DEF Referred
  <2>23. \E w : Ranks(t, w)
    <3> DEFINE base == DepthBelow(s, q)
               w == [n \in D |-> IF n \in Sub THEN r[n] - r[id] + 1 + base ELSE r[n]]
    <3>1. /\ r \in [D -> 1..MaxDepth] /\ \A n \in D : r[n] \in 1..MaxDepth /\ r[n] \in Nat
          /\ \A n \in D : r[n] = IF s.nodes[n].parent = None THEN 1 ELSE r[s.nodes[n].parent] + 1
      BY <2>3, TreeAssumption DEF Ranks
    <3>2. \A n \in Sub : n \in D /\ r[n] - r[id] + 1 + base \in 1..MaxDepth
      <4> SUFFICES ASSUME NEW n \in Sub PROVE n \in D /\ r[n] - r[id] + 1 + base \in 1..MaxDepth
        OBVIOUS
      <4>1. n \in D /\ r[n] \in Nat /\ r[id] \in Nat /\ r[n] >= r[id] /\ base \in Nat
        BY <2>1, <2>6, <2>8, <3>1
      <4>2. r[n] - r[id] + 1 <= subtree_depth(s, id) /\ base + subtree_depth(s, id) <= MaxDepth
        BY <2>1, <2>7, <2>8, TreeAssumption
      <4> HIDE DEF base
      <4> QED BY <2>7, <4>1, <4>2, TreeAssumption
    <3>3. base = (IF q = None THEN 0 ELSE r[q]) /\ base \in Nat
      BY <2>8
    <3> HIDE DEF base
    <3>4. w \in [D -> 1..MaxDepth] /\ (\A n \in Sub : w[n] = r[n] - r[id] + 1 + base)
          /\ \A n \in D : n \notin Sub => w[n] = r[n]
      BY <3>1, <3>2
    <3> HIDE DEF w
    <3>5. ASSUME NEW n \in D
          PROVE  w[n] = IF t.nodes[n].parent = None THEN 1 ELSE w[t.nodes[n].parent] + 1
      <4>1. CASE n = id
        <5>1. w[n] = base + 1
          BY <2>1, <2>6, <3>1, <3>3, <3>4, <4>1
        <5>2. t.nodes[n].parent = q
          BY <2>18, <4>1
        <5>3. CASE q = None
          BY <3>3, <5>1, <5>2, <5>3
        <5>4. CASE q # None
          <6>1. q \in D /\ w[q] = r[q]
            BY <2>1, <3>4, <5>4
          <6> QED BY <3>3, <5>1, <5>2, <5>4, <6>1
        <5> QED BY <5>3, <5>4
      <4>2. CASE n # id /\ n \in Sub
        <5> DEFINE p == s.nodes[n].parent
        <5>1. p \in Sub /\ t.nodes[n].parent = p
          BY <2>6, <2>18, <4>2
        <5>2. p \in D /\ p # None /\ r[n] = r[p] + 1
          BY <2>4, <2>6, <3>1, <5>1
        <5>3. w[n] = r[n] - r[id] + 1 + base /\ w[p] = r[p] - r[id] + 1 + base
          BY <3>4, <4>2, <5>1
        <5>4. r[n] \in Nat /\ r[p] \in Nat /\ r[id] \in Nat
          BY <2>1, <3>1, <5>2
        <5> HIDE DEF p
        <5> QED BY <3>3, <5>1, <5>2, <5>3, <5>4
      <4>3. CASE n \notin Sub
        <5> DEFINE p == s.nodes[n].parent
        <5>1. n # id /\ p \notin Sub /\ p \in D \cup {None} /\ t.nodes[n].parent = p
          BY <2>4, <2>6, <2>18, <4>3 DEF Linked
        <5>2. w[n] = r[n] /\ (p # None => w[p] = r[p])
          BY <3>4, <4>3, <5>1
        <5>3. r[n] = IF p = None THEN 1 ELSE r[p] + 1
          BY <3>1
        <5> HIDE DEF p
        <5> QED BY <5>1, <5>2, <5>3
      <4> QED BY <4>1, <4>2, <4>3
    <3>6. Ranks(t, w)
      BY <2>17, <3>4, <3>5 DEF Ranks
    <3> QED BY <3>6
  <2>24. TreeOK(t)
    BY <2>20, <2>21, <2>22, <2>23 DEF TreeOK
  <2> QED BY <2>2, <2>17, <2>24, DoneAnswers
<1> QED BY <1>1, <1>2

-----------------------------------------------------------------------------
(* Operations and transactions *)

Indices == Nat \cup {None}

NodeOps ==
  [kind : {"create_node"}, id : NodeIds, parent : Parents, at : Indices, value : Values]
  \cup [kind : {"delete_node"}, id : NodeIds]
  \cup [kind : {"set_property"}, id : NodeIds, value : Values]
  \cup [kind : {"clear_property"}, id : NodeIds]
  \cup [kind : {"batch_property_set"}, id : NodeIds, values : Seq(Values)]
  \cup [kind : {"move_node"}, id : NodeIds, parent : Parents, at : Indices]
  \cup [kind : {"reorder_children"}, id : NodeIds, order : Seq(NodeIds)]

ModelOpsTyped ==
  [kind : {"create_model"}, id : ModelIds, count : Nat]
  \cup [kind : {"model_insert"}, id : ModelIds, at : Nat, items : Seq(ItemIds)]
  \cup [kind : {"model_delete"}, id : ModelIds, at : Indices, count : Nat, ids : Seq(ItemIds)]
  \cup [kind : {"model_update"}, id : ModelIds, at : Indices, items : Seq(ItemIds)]
  \cup [kind : {"model_reset_range"}, id : ModelIds, at : Nat, items : Seq(ItemIds), count : Nat]

Operations == NodeOps \cup ModelOpsTyped

Touches(op, m) == op \in ModelOpsTyped /\ op.id = m

\* An update by position, the only operation that is not held to the limit of the cache.
Positional(op) == op.kind = "model_update" /\ op.at # None

\* The caches are within their limit.
Limited(s) == \A m \in DOMAIN s.models : Cached(s.models[m]) <= MaxCached

\* A positional update is one of what is cached.
Fitting(s, op) ==
  (Positional(op) /\ op.id \in DOMAIN s.models) => ByCached(s.models[op.id], op.at, op.items)

\* The two stores have the same model m, or neither has it.
SameModel(s, t, m) ==
  /\ m \in DOMAIN s.models <=> m \in DOMAIN t.models
  /\ m \in DOMAIN s.models => s.models[m] = t.models[m]

\* What an operation on a store in order answers.
Applied(r, s, op) ==
  /\ r.ok \in BOOLEAN /\ TreeOK(r.store)
  /\ Limited(s) /\ Fitting(s, op) => Limited(r.store)
  /\ \A m : ~Touches(op, m) => SameModel(s, r.store, m)

\* An answer that leaves the models is one.
LEMMA AnswersApplied ==
  ASSUME NEW s, NEW op, NEW r, Answers(r, s)
  PROVE  Applied(r, s, op)
BY DEF Answers, Applied, Limited, SameModel

\* Other models, where no node loses its own.
LEMMA ModelsReplaced ==
  ASSUME NEW s, TreeOK(s), NEW t \in Stores, t.nodes = s.nodes, t.roots = s.roots, t.used = s.used,
         DOMAIN s.models \subseteq DOMAIN t.models, \A m \in DOMAIN t.models : ModelOK(t.models[m])
  PROVE  TreeOK(t)
<1>1. Counted(s) /\ Linked(s) /\ Referred(s) /\ \E r : Ranks(s, r)
  BY DEF TreeOK
<1>2. Counted(t)
  BY <1>1 DEF Counted
<1>3. \A x : Siblings(t, x) = Siblings(s, x)
  BY DEF Siblings
<1>4. Linked(t)
  BY <1>1, <1>3 DEF Linked
<1>5. Referred(t)
  BY <1>1 DEF Referred
<1>6. \A r : Ranks(s, r) => Ranks(t, r)
  BY DEF Ranks
<1> QED BY <1>1, <1>2, <1>4, <1>5, <1>6 DEF TreeOK

\* A new model.
LEMMA CreateModelOK ==
  ASSUME NEW s, TreeOK(s), NEW op \in ModelOpsTyped, op.kind = "create_model"
  PROVE  Applied(create_model(s, op), s, op)
<1> DEFINE refused == op.id \in s.usedModels \/ Cardinality(DOMAIN s.models) >= MaxModels
           M == Put(s.models, op.id, NewModel(op.count))
           U == s.usedModels \cup {op.id}
           E == DOMAIN s.models \cup {op.id}
           t == [s EXCEPT !.models = M, !.usedModels = U]
<1>1. CASE refused
  <2>1. create_model(s, op) = Failed(s)
    BY <1>1 DEF create_model
  <2>2. Answers(Failed(s), s)
    BY FailedAnswers
  <2> QED BY <2>1, <2>2, AnswersApplied
<1>2. CASE ~refused
  <2>1. create_model(s, op) = Done(t)
    BY <1>2 DEF create_model
  <2>2. op.id \in ModelIds /\ op.count \in Nat
    BY DEF ModelOpsTyped
  <2>3. s \in Stores /\ Referred(s)
    BY DEF TreeOK, Counted
  <2>4. /\ s.models \in [DOMAIN s.models -> Models] /\ DOMAIN s.models \in SUBSET ModelIds
        /\ s.usedModels \in SUBSET ModelIds /\ \A m \in DOMAIN s.models : ModelOK(s.models[m])
    BY <2>3, StoreParts DEF Referred
  <2>5. ModelOK(NewModel(op.count)) /\ Cached(NewModel(op.count)) = 0
    BY <2>2, NewModelOK
  <2>6. NewModel(op.count) \in Models
    BY <2>5 DEF ModelOK
  <2>7. /\ M \in [E -> Models] /\ M[op.id] = NewModel(op.count)
        /\ \A m \in DOMAIN s.models : m # op.id => M[m] = s.models[m]
    BY <2>4, <2>6 DEF Put
  <2>8. E \in SUBSET ModelIds /\ DOMAIN s.models \subseteq E /\ U \in SUBSET ModelIds
    BY <2>2, <2>4
  <2>9. \A m \in E : ModelOK(M[m]) /\ (Limited(s) => Cached(M[m]) <= MaxCached)
    BY <2>4, <2>5, <2>7, ModelAssumption DEF Limited
  <2>10. \A m : m # op.id => (m \in E <=> m \in DOMAIN s.models)
    OBVIOUS
  <2> HIDE DEF M, U, E
  <2>11. TreeOK(t) /\ t.models = M
    <3>1. M \in ModelMaps /\ DOMAIN M = E
      BY <2>7, <2>8 DEF ModelMaps
    <3>2. /\ t \in Stores /\ t.models = M /\ t.nodes = s.nodes /\ t.roots = s.roots /\ t.used = s.used
      BY <2>3, <2>8, <3>1 DEF Stores
    <3> HIDE DEF t
    <3>3. DOMAIN s.models \subseteq DOMAIN t.models /\ \A m \in DOMAIN t.models : ModelOK(t.models[m])
      BY <2>8, <2>9, <3>1, <3>2
    <3>4. TreeOK(t)
      BY <3>2, <3>3, ModelsReplaced
    <3> QED BY <3>2, <3>4
  <2> HIDE DEF t
  <2>12. DOMAIN t.models = E
    BY <2>7, <2>11
  <2>13. Limited(s) => Limited(t)
    BY <2>9, <2>11, <2>12 DEF Limited
  <2>14. \A m : ~Touches(op, m) => SameModel(s, t, m)
    BY <2>7, <2>10, <2>11, <2>12 DEF Touches, SameModel
  <2>15. Done(t).ok = TRUE /\ Done(t).store = t
    BY DEF Done
  <2> QED BY <2>1, <2>11, <2>13, <2>14, <2>15 DEF Applied
<1> QED BY <1>1, <1>2

\* A change of a model keeps it in order, and its cache within the limit.
LEMMA ChangedOK ==
  ASSUME NEW m, ModelOK(m), NEW op \in ModelOpsTyped, op.kind # "create_model"
  PROVE  LET r == Changed(m, op) IN
         /\ r.ok \in BOOLEAN /\ ModelOK(r.model)
         /\ (Positional(op) => ByCached(m, op.at, op.items)) => Within(m, r.model)
<1>1. CASE op.kind = "model_insert"
  <2>1. op.at \in Nat /\ op.items \in Seq(ItemIds)
    BY <1>1 DEF ModelOpsTyped
  <2>2. Changed(m, op) = insert_items(m, op.at, op.items)
    BY <1>1 DEF Changed
  <2> QED BY <2>1, <2>2, InsertItemsOK
<1>2. CASE op.kind = "model_delete"
  <2>1. op.at \in Nat \cup {None} /\ op.count \in Nat /\ op.ids \in Seq(ItemIds)
    BY <1>2 DEF ModelOpsTyped, Indices
  <2>2. Changed(m, op) = delete_items(m, op.at, op.count, op.ids)
    BY <1>2 DEF Changed
  <2> QED BY <2>1, <2>2, DeleteItemsOK
<1>3. CASE op.kind = "model_update"
  <2>1. op.at \in Nat \cup {None} /\ op.items \in Seq(ItemIds)
    BY <1>3 DEF ModelOpsTyped, Indices
  <2> DEFINE r == update_items(m, op.at, op.items)
  <2>2. Changed(m, op) = r
    BY <1>3 DEF Changed
  <2>3. /\ r.ok \in BOOLEAN /\ ModelOK(r.model)
        /\ ByCached(m, op.at, op.items) => DOMAIN r.model.items \subseteq DOMAIN m.items
    BY <2>1, UpdateItemsOK
  <2>4. (Positional(op) => ByCached(m, op.at, op.items)) => ByCached(m, op.at, op.items)
    BY <1>3 DEF Positional, ByCached
  <2> HIDE DEF r
  <2>5. ByCached(m, op.at, op.items) => Within(m, r.model)
    BY <2>3, FewerWithin
  <2> QED BY <2>2, <2>3, <2>4, <2>5
<1>4. CASE op.kind = "model_reset_range"
  <2>1. op.at \in Nat /\ op.items \in Seq(ItemIds) /\ op.count \in Nat
    BY <1>4 DEF ModelOpsTyped
  <2>2. Changed(m, op) = reset_range(m, op.at, op.items, op.count)
    BY <1>4 DEF Changed
  <2> QED BY <2>1, <2>2, ResetRangeOK
<1> QED BY <1>1, <1>2, <1>3, <1>4 DEF ModelOpsTyped

\* An operation on one of the models.
LEMMA OnModelOK ==
  ASSUME NEW s, TreeOK(s), NEW op \in ModelOpsTyped, op.kind # "create_model"
  PROVE  Applied(OnModel(s, op), s, op)
<1> DEFINE id == op.id
           D == DOMAIN s.models
           r == Changed(s.models[id], op)
           M == [s.models EXCEPT ![id] = r.model]
           t == [s EXCEPT !.models = M]
<1>1. CASE id \notin D
  <2>1. OnModel(s, op) = Failed(s)
    BY <1>1 DEF OnModel
  <2>2. Answers(Failed(s), s)
    BY FailedAnswers
  <2> QED BY <2>1, <2>2, AnswersApplied
<1>2. CASE id \in D
  <2>1. s \in Stores /\ Referred(s)
    BY DEF TreeOK, Counted
  <2>2. /\ s.models \in [D -> Models] /\ D \in SUBSET ModelIds
        /\ s.usedModels \in SUBSET ModelIds /\ \A m \in D : ModelOK(s.models[m])
    BY <2>1, StoreParts DEF Referred
  <2>3. OnModel(s, op) = [ok |-> r.ok, store |-> t]
    BY <1>2, <2>1 DEF OnModel, Stores
  <2>4. /\ r.ok \in BOOLEAN /\ ModelOK(r.model)
        /\ (Positional(op) => ByCached(s.models[id], op.at, op.items)) => Within(s.models[id], r.model)
    <3>1. ModelOK(s.models[id])
      BY <1>2, <2>2
    <3> QED BY <3>1, ChangedOK
  <2> HIDE DEF r
  <2>5. r.model \in Models
    BY <2>4 DEF ModelOK
  <2>6. M \in [D -> Models] /\ M[id] = r.model /\ \A m \in D : m # id => M[m] = s.models[m]
    BY <1>2, <2>2, <2>5
  <2>7. \A m \in D : ModelOK(M[m])
    BY <2>2, <2>4, <2>6
  <2> HIDE DEF M
  <2>9. TreeOK(t) /\ t.models = M
    <3>1. M \in ModelMaps /\ DOMAIN M = D
      BY <2>2, <2>6 DEF ModelMaps
    <3>2. /\ t \in Stores /\ t.models = M /\ t.nodes = s.nodes /\ t.roots = s.roots /\ t.used = s.used
      BY <2>1, <3>1 DEF Stores
    <3> HIDE DEF t
    <3>3. DOMAIN s.models \subseteq DOMAIN t.models /\ \A m \in DOMAIN t.models : ModelOK(t.models[m])
      BY <2>7, <3>1, <3>2
    <3>4. TreeOK(t)
      BY <3>2, <3>3, ModelsReplaced
    <3> QED BY <3>2, <3>4
  <2> HIDE DEF t
  <2>10. Limited(s) /\ Fitting(s, op) => Limited(t)
    <3> SUFFICES ASSUME Limited(s), Fitting(s, op) PROVE Limited(t)
      OBVIOUS
    <3>1. Within(s.models[id], r.model)
      BY <1>2, <2>4 DEF Fitting
    <3>2. Cached(M[id]) <= MaxCached
      BY <1>2, <2>6, <3>1 DEF Limited, Within
    <3> QED BY <2>6, <2>9, <3>2 DEF Limited
  <2>11. \A m : ~Touches(op, m) => SameModel(s, t, m)
    BY <2>6, <2>9 DEF Touches, SameModel
  <2>12. OnModel(s, op).ok = r.ok /\ OnModel(s, op).store = t
    BY <2>3
  <2> QED BY <2>4, <2>9, <2>10, <2>11, <2>12 DEF Applied
<1> QED BY <1>1, <1>2

\* Any operation on a store in order leaves one.
LEMMA ApplyOK ==
  ASSUME NEW s, TreeOK(s), NEW op \in Operations
  PROVE  Applied(apply(s, op), s, op)
<1>1. CASE op \in ModelOpsTyped
  <2>1. CASE op.kind = "create_model"
    <3>1. apply(s, op) = create_model(s, op)
      BY <2>1 DEF apply
    <3> QED BY <1>1, <2>1, <3>1, CreateModelOK
  <2>2. CASE op.kind # "create_model"
    <3>1. op.kind \in {"model_insert", "model_delete", "model_update", "model_reset_range"}
      BY <1>1, <2>2 DEF ModelOpsTyped
    <3>2. apply(s, op) = OnModel(s, op)
      BY <3>1 DEF apply
    <3> QED BY <1>1, <2>2, <3>2, OnModelOK
  <2> QED BY <2>1, <2>2
<1>2. CASE op \in NodeOps
  <2>0. op.id \in NodeIds /\ op.kind \in {"create_node", "delete_node", "set_property", "clear_property",
                                         "batch_property_set", "move_node", "reorder_children"}
    BY <1>2 DEF NodeOps
  <2>1. CASE op.kind = "create_node"
    <3>1. op.parent \in Parents /\ op.at \in Nat \cup {None} /\ op.value \in Values
      BY <1>2, <2>1 DEF NodeOps, Indices
    <3>2. apply(s, op) = create_node(s, op)
      BY <2>1 DEF apply
    <3>3. Answers(create_node(s, op), s)
      BY <2>0, <3>1, CreateNodeOK
    <3> QED BY <3>2, <3>3, AnswersApplied
  <2>2. CASE op.kind = "delete_node"
    <3>2. apply(s, op) = delete_node(s, op)
      BY <2>2 DEF apply
    <3>3. Answers(delete_node(s, op), s)
      BY <2>0, DeleteNodeOK
    <3> QED BY <3>2, <3>3, AnswersApplied
  <2>3. CASE op.kind = "set_property"
    <3>1. op.value \in Values
      BY <1>2, <2>3 DEF NodeOps
    <3>2. apply(s, op) = set_property(s, op)
      BY <2>3 DEF apply
    <3>3. Answers(set_property(s, op), s)
      BY <2>0, <3>1, SetPropertyOK
    <3> QED BY <3>2, <3>3, AnswersApplied
  <2>4. CASE op.kind = "clear_property"
    <3>2. apply(s, op) = clear_property(s, op)
      BY <2>4 DEF apply
    <3>3. Answers(clear_property(s, op), s)
      BY <2>0, ClearPropertyOK
    <3> QED BY <3>2, <3>3, AnswersApplied
  <2>5. CASE op.kind = "batch_property_set"
    <3>1. op.values \in Seq(Values)
      BY <1>2, <2>5 DEF NodeOps
    <3>2. apply(s, op) = batch_property_set(s, op)
      BY <2>5 DEF apply
    <3>3. Answers(batch_property_set(s, op), s)
      BY <2>0, <3>1, BatchOK
    <3> QED BY <3>2, <3>3, AnswersApplied
  <2>6. CASE op.kind = "move_node"
    <3>1. op.parent \in Parents /\ op.at \in Nat \cup {None}
      BY <1>2, <2>6 DEF NodeOps, Indices
    <3>2. apply(s, op) = move_node(s, op)
      BY <2>6 DEF apply
    <3>3. Answers(move_node(s, op), s)
      BY <2>0, <3>1, MoveNodeOK
    <3> QED BY <3>2, <3>3, AnswersApplied
  <2>7. CASE op.kind = "reorder_children"
    <3>1. op.order \in Seq(NodeIds)
      BY <1>2, <2>7 DEF NodeOps
    <3>2. apply(s, op) = reorder_children(s, op)
      BY <2>7 DEF apply
    <3>3. Answers(reorder_children(s, op), s)
      BY <2>0, <3>1, ReorderOK
    <3> QED BY <3>2, <3>3, AnswersApplied
  <2> QED BY <2>0, <2>1, <2>2, <2>3, <2>4, <2>5, <2>6, <2>7
<1> QED BY <1>1, <1>2 DEF Operations

-----------------------------------------------------------------------------
(* Transactions *)

\* What the wire carries of an operation is the operation, unless its index is the wire's
\* word for none.
LEMMA DeliveredOK ==
  ASSUME NEW op \in Operations
  PROVE  /\ Delivered(op) \in Operations
         /\ \A m : Touches(Delivered(op), m) => Touches(op, m)
         /\ Positional(Delivered(op)) =>
              Positional(op) /\ Delivered(op).at = op.at /\ Delivered(op).id = op.id
              /\ Delivered(op).items = op.items
<1> USE DEF None
<1>1. CASE op.kind \in {"create_node", "move_node"}
  <2>1. op.id \in NodeIds /\ op.parent \in Parents /\ op.at \in Indices
    BY <1>1 DEF Operations, NodeOps, ModelOpsTyped
  <2> DEFINE w == [op EXCEPT !.at = WireIndex(@), !.parent = IF @ = None THEN 0 ELSE @]
             d == [w EXCEPT !.at = IF @ = WireMax THEN None ELSE @, !.parent = IF @ = 0 THEN None ELSE @]
  <2>2. OnWire(op) = w
    BY <1>1 DEF OnWire
  <2>3. w.kind = op.kind
    BY <1>1 DEF Operations, NodeOps, ModelOpsTyped
  <2>4. Delivered(op) = d
    BY <1>1, <2>2, <2>3 DEF Delivered, FromWire
  <2>5. op.at \in Nat \/ op.at = None
    BY <2>1 DEF Indices
  <2>6. (IF WireIndex(op.at) = WireMax THEN None ELSE WireIndex(op.at)) \in Indices
    BY <2>5 DEF WireIndex, Indices
  <2>7. (IF (IF op.parent = None THEN 0 ELSE op.parent) = 0 THEN None ELSE
            (IF op.parent = None THEN 0 ELSE op.parent)) \in Parents
    BY <2>1 DEF Parents
  <2>8. CASE op.kind = "create_node"
    <3>1. op \in [kind : {"create_node"}, id : NodeIds, parent : Parents, at : Indices, value : Values]
      BY <2>8 DEF Operations, NodeOps, ModelOpsTyped
    <3>2. d \in [kind : {"create_node"}, id : NodeIds, parent : Parents, at : Indices, value : Values]
      BY <3>1, <2>6, <2>7
    <3> HIDE DEF d
    <3>3. d \in Operations /\ d.kind = "create_node"
      BY <3>2 DEF Operations, NodeOps
    <3>4. \A m : ~Touches(d, m)
      BY <3>3 DEF Touches, ModelOpsTyped
    <3> QED BY <2>4, <3>3, <3>4 DEF Positional
  <2>9. CASE op.kind = "move_node"
    <3>1. op \in [kind : {"move_node"}, id : NodeIds, parent : Parents, at : Indices]
      BY <2>9 DEF Operations, NodeOps, ModelOpsTyped
    <3>2. d \in [kind : {"move_node"}, id : NodeIds, parent : Parents, at : Indices]
      BY <3>1, <2>6, <2>7
    <3> HIDE DEF d
    <3>3. d \in Operations /\ d.kind = "move_node"
      BY <3>2 DEF Operations, NodeOps
    <3>4. \A m : ~Touches(d, m)
      BY <3>3 DEF Touches, ModelOpsTyped
    <3> QED BY <2>4, <3>3, <3>4 DEF Positional
  <2> QED BY <1>1, <2>8, <2>9
<1>2. CASE op.kind = "model_update"
  <2>1. op \in [kind : {"model_update"}, id : ModelIds, at : Indices, items : Seq(ItemIds)]
    BY <1>2 DEF Operations, NodeOps, ModelOpsTyped
  <2> DEFINE w == [op EXCEPT !.at = WireIndex(@)]
             d == [w EXCEPT !.at = IF @ = WireMax THEN None ELSE @]
  <2>2. OnWire(op) = w /\ w.kind = "model_update"
    BY <1>2, <2>1 DEF OnWire
  <2>3. Delivered(op) = d
    BY <2>2 DEF Delivered, FromWire, ModelFromWire
  <2>4. (IF WireIndex(op.at) = WireMax THEN None ELSE WireIndex(op.at)) \in {op.at, None}
    BY DEF WireIndex
  <2>5. d \in [kind : {"model_update"}, id : {op.id}, at : {op.at, None}, items : {op.items}]
    BY <2>1, <2>4
  <2> HIDE DEF d
  <2>6. d \in [kind : {"model_update"}, id : ModelIds, at : Indices, items : Seq(ItemIds)]
    BY <2>1, <2>5 DEF Indices
  <2>7. d \in Operations /\ op \in ModelOpsTyped /\ d.id = op.id /\ d.items = op.items
        /\ (d.at # None => d.at = op.at)
    BY <2>1, <2>5, <2>6 DEF Operations, ModelOpsTyped
  <2> QED BY <1>2, <2>3, <2>7 DEF Touches, Positional
<1>3. CASE op.kind = "model_delete"
  <2>1. op \in [kind : {"model_delete"}, id : ModelIds, at : Indices, count : Nat, ids : Seq(ItemIds)]
    BY <1>3 DEF Operations, NodeOps, ModelOpsTyped
  <2> DEFINE w == [op EXCEPT !.at = IF @ = None THEN 0 ELSE @]
             d == [w EXCEPT !.at = IF w.count > 0 THEN @ ELSE None]
  <2>2. OnWire(op) = w /\ w.kind = "model_delete"
    BY <1>3, <2>1 DEF OnWire
  <2>3. Delivered(op) = d
    BY <2>2 DEF Delivered, FromWire, ModelFromWire
  <2>4. (IF op.at = None THEN 0 ELSE op.at) \in Indices /\ None \in Indices
    BY <2>1 DEF Indices
  <2>5. d \in [kind : {"model_delete"}, id : {op.id}, at : Indices, count : Nat, ids : Seq(ItemIds)]
    BY <2>1, <2>4
  <2> HIDE DEF d
  <2>6. d \in [kind : {"model_delete"}, id : ModelIds, at : Indices, count : Nat, ids : Seq(ItemIds)]
    BY <2>1, <2>5
  <2>7. d \in Operations /\ op \in ModelOpsTyped /\ d.id = op.id /\ d.kind = "model_delete"
    BY <2>1, <2>5, <2>6 DEF Operations, ModelOpsTyped
  <2> QED BY <2>3, <2>7 DEF Touches, Positional
<1>4. CASE op.kind \notin {"create_node", "move_node", "model_update", "model_delete"}
  <2>1. OnWire(op) = op
    BY <1>4 DEF OnWire
  <2>2. Delivered(op) = op
    BY <1>4, <2>1 DEF Delivered, FromWire, ModelFromWire
  <2> QED BY <2>2
<1> QED BY <1>1, <1>2, <1>3, <1>4

\* A transaction updates by position only what the store has in its cache, and before it
\* does anything else to that model.
Steady(s, ops) ==
  \A k \in 1..Len(ops) : Positional(ops[k]) =>
    Fitting(s, ops[k]) /\ \A j \in 1..(k - 1) : ~Touches(ops[j], ops[k].id)

\* So does what the wire carries of it.
LEMMA DeliveredSteady ==
  ASSUME NEW s, NEW ops \in Seq(Operations), Steady(s, ops)
  PROVE  DeliveredAll(ops) \in Seq(Operations) /\ Len(DeliveredAll(ops)) = Len(ops) /\ Steady(s, DeliveredAll(ops))
<1> DEFINE d == DeliveredAll(ops)
           n == Len(ops)
<1>1. n \in Nat /\ DOMAIN ops = 1..n /\ \A k \in 1..n : ops[k] \in Operations
  OBVIOUS
<1>2. d = [k \in 1..n |-> Delivered(ops[k])]
  BY <1>1 DEF DeliveredAll
<1>3. \A k \in 1..n : Delivered(ops[k]) \in Operations
  BY <1>1, DeliveredOK
<1>4. d \in Seq(Operations) /\ Len(d) = n
  <2> HIDE DEF d, n
  <2> QED BY <1>1, <1>2, <1>3
<1>5. Steady(s, d)
  <2> SUFFICES ASSUME NEW k \in 1..n, Positional(d[k])
               PROVE  Fitting(s, d[k]) /\ \A j \in 1..(k - 1) : ~Touches(d[j], d[k].id)
    <3> HIDE DEF d, n
    <3> QED BY <1>4 DEF Steady
  <2>1. d[k] = Delivered(ops[k]) /\ ops[k] \in Operations
    BY <1>1, <1>2
  <2> HIDE DEF d
  <2>2. Positional(ops[k]) /\ d[k].at = ops[k].at /\ d[k].id = ops[k].id /\ d[k].items = ops[k].items
    BY <2>1, DeliveredOK
  <2>3. Fitting(s, ops[k]) /\ \A j \in 1..(k - 1) : ~Touches(ops[j], ops[k].id)
    BY <2>2 DEF Steady
  <2>4. Fitting(s, d[k])
    BY <2>2, <2>3 DEF Fitting
  <2>5. ASSUME NEW j \in 1..(k - 1) PROVE ~Touches(d[j], d[k].id)
    <3>1. j \in 1..n /\ d[j] = Delivered(ops[j]) /\ ops[j] \in Operations
      <4>1. j \in 1..n
        BY <1>1
      <4> QED BY <1>1, <1>2, <4>1
    <3> QED BY <2>2, <2>3, <3>1, DeliveredOK
  <2> QED BY <2>4, <2>5
<1> QED BY <1>4, <1>5

\* The store after each operation: the operation's, or the one before.
Stages(c, s, ops) ==
  /\ c[0] = s
  /\ \A k \in 1..Len(ops) : c[k] = c[k - 1] \/ c[k] = apply(c[k - 1], ops[k]).store

\* The models no operation so far was about are those of the start, so that a positional
\* update still finds the cache it was made for: every stage is in order and within the limit.
LEMMA StagesOK ==
  ASSUME NEW s, TreeOK(s), Limited(s), NEW ops \in Seq(Operations), Steady(s, ops), NEW c, Stages(c, s, ops)
  PROVE  TreeOK(c[Len(ops)]) /\ Limited(c[Len(ops)])
<1> DEFINE n == Len(ops)
           Untouched(k, m) == \A j \in 1..k : ~Touches(ops[j], m)
           S == {k \in 0..n : TreeOK(c[k]) /\ Limited(c[k]) /\ \A m : Untouched(k, m) => SameModel(s, c[k], m)}
<1>1. n \in Nat /\ \A k \in 1..n : ops[k] \in Operations
  OBVIOUS
<1>2. 0 \in S
  <2>1. c[0] = s /\ \A m : SameModel(s, s, m)
    BY DEF Stages, SameModel
  <2> QED BY <1>1, <2>1
<1>3. ASSUME NEW k \in 1..n, k - 1 \in S PROVE k \in S
  <2> DEFINE a == c[k - 1]
             op == ops[k]
             b == c[k]
  <2>1. TreeOK(a) /\ Limited(a) /\ \A m : Untouched(k - 1, m) => SameModel(s, a, m)
    BY <1>3
  <2>2. k \in 0..n /\ op \in Operations
    BY <1>1
  <2>3. b = a \/ b = apply(a, op).store
    BY DEF Stages
  <2>4. Fitting(a, op)
    <3>1. CASE Positional(op)
      <4>1. Fitting(s, op) /\ Untouched(k - 1, op.id)
        BY <3>1 DEF Steady
      <4>2. SameModel(s, a, op.id)
        BY <2>1, <4>1
      <4> QED BY <4>1, <4>2 DEF Fitting, SameModel
    <3>2. CASE ~Positional(op)
      BY <3>2 DEF Fitting
    <3> QED BY <3>1, <3>2
  <2>5. Applied(apply(a, op), a, op)
    BY <2>1, <2>2, ApplyOK
  <2> HIDE DEF a, b, op
  <2>6. TreeOK(b) /\ Limited(b) /\ \A m : ~Touches(op, m) => SameModel(a, b, m)
    <3>1. CASE b = a
      BY <2>1, <3>1 DEF SameModel
    <3>2. CASE b = apply(a, op).store
      BY <2>1, <2>4, <2>5, <3>2 DEF Applied
    <3> QED BY <2>3, <3>1, <3>2
  <2>7. ASSUME NEW m, Untouched(k, m) PROVE SameModel(s, b, m)
    <3>1. \A j \in 1..(k - 1) : j \in 1..k
      BY <1>1
    <3>2. Untouched(k - 1, m) /\ ~Touches(op, m)
      <4>1. k \in 1..k
        BY <1>1
      <4> QED BY <2>7, <3>1, <4>1 DEF op
    <3>3. SameModel(s, a, m) /\ SameModel(a, b, m)
      <4> HIDE DEF Untouched
      <4> QED BY <2>1, <2>6, <3>2
    <3> QED BY <3>3 DEF SameModel
  <2> HIDE DEF Untouched
  <2> QED BY <2>2, <2>6, <2>7 DEF b
<1>4. n \in S
  <2>1. n \in 0..n
    BY <1>1
  <2> HIDE DEF S, n
  <2> QED BY <1>1, <1>2, <1>3, <2>1, Counting
<1> QED BY <1>4

\* The stores in order.
GoodStores == {s \in Stores : TreeOK(s)}

\* To be in order is to be one of them.
LEMMA GoodIsOK == \A s : TreeOK(s) <=> s \in GoodStores
BY DEF GoodStores, TreeOK, Counted

Transactions == [staged : GoodStores, written : Seq(Operations), ok : BOOLEAN]

\* An attempt leaves the copy as it is, or as the operation leaves it.
LEMMA AttemptOK ==
  ASSUME NEW a \in Transactions, NEW o \in Operations
  PROVE  /\ Attempt(a, o) \in Transactions
         /\ Attempt(a, o).staged = a.staged \/ Attempt(a, o).staged = apply(a.staged, o).store
         /\ Attempt(a, o).ok /\ ~Swallows =>
              /\ a.ok /\ Len(a.written) < MaxOps /\ apply(a.staged, o).ok
              /\ Attempt(a, o).staged = apply(a.staged, o).store
              /\ Attempt(a, o).written = Append(a.written, o)
<1> DEFINE r == apply(a.staged, o)
           tried == [staged |-> r.store, written |-> Append(a.written, o), ok |-> r.ok]
           full == [a EXCEPT !.ok = FALSE]
<1>1. a.staged \in GoodStores /\ a.written \in Seq(Operations) /\ a.ok \in BOOLEAN
  BY DEF Transactions
<1>2. /\ ~a.ok /\ ~Swallows => Attempt(a, o) = a
      /\ (a.ok \/ Swallows) /\ ~record_op(a) => Attempt(a, o) = full
      /\ (a.ok \/ Swallows) /\ record_op(a) => Attempt(a, o) = tried
  <2>1. CASE ~a.ok /\ ~Swallows
    BY <2>1 DEF Attempt
  <2>2. CASE (a.ok \/ Swallows) /\ ~record_op(a)
    BY <2>2 DEF Attempt
  <2>3. CASE (a.ok \/ Swallows) /\ record_op(a)
    BY <2>3 DEF Attempt
  <2> QED BY <2>1, <2>2, <2>3
<1>3. full \in Transactions /\ full.staged = a.staged /\ full.ok = FALSE
  BY DEF Transactions
<1>4. Applied(r, a.staged, o)
  BY <1>1, ApplyOK, GoodIsOK
<1> HIDE DEF r, full
<1>5. /\ tried \in Transactions /\ tried.staged = r.store /\ tried.ok = r.ok
      /\ tried.written = Append(a.written, o)
  BY <1>1, <1>4, GoodIsOK DEF Applied, Transactions
<1> HIDE DEF tried
<1>6. CASE ~a.ok /\ ~Swallows
  BY <1>2, <1>6
<1>7. CASE (a.ok \/ Swallows) /\ ~record_op(a)
  BY <1>2, <1>3, <1>7
<1>8. CASE (a.ok \/ Swallows) /\ record_op(a)
  BY <1>2, <1>5, <1>8 DEF r, record_op
<1> QED BY <1>6, <1>7, <1>8

\* The attempts of a closure, one after the other.
Attempts(c, ops) ==
  /\ c[0] = UiTransaction /\ \A k \in 0..Len(ops) : c[k] \in Transactions
  /\ \A k \in 1..Len(ops) : c[k] = Attempt(c[k - 1], ops[k])

\* A transaction's closure tries its operations in turn on its copy of the committed store.
LEMMA ClosureAttempts ==
  ASSUME TreeOK(store), NEW ops \in Seq(Operations)
  PROVE  \E c : Attempts(c, ops) /\ Closure(ops) = c[Len(ops)]
<1> DEFINE n == Len(ops)
           T == Transactions
           op(a, i) == Attempt(a, ops[i])
           base == UiTransaction
           step == [p \in T \X (1..n) |-> op(p[1], p[2])]
           it == CHOOSE f : f = [s \in SUBSET DOMAIN ops |->
                   IF s = {} THEN base ELSE op(f[s \ {Max(s)}], Max(s))]
<1>1. n \in Nat /\ DOMAIN ops = 1..n /\ \A i \in 1..n : ops[i] \in Operations
  OBVIOUS
<1>1a. base \in T /\ base.staged = store
  BY GoodIsOK DEF UiTransaction, Transactions
<1>2. Closure(ops) = it[DOMAIN ops]
  BY Zenon DEF Closure, FoldLeft, MapThenFoldSet
<1>3a. ASSUME NEW a \in T, NEW i \in 1..n PROVE op(a, i) \in T
  BY <1>1, AttemptOK
<1>3. step \in [T \X (1..n) -> T] /\ \A a \in T, i \in 1..n : step[<<a, i>>] = op(a, i)
  <2>1. ASSUME NEW a \in T, NEW i \in 1..n PROVE op(a, i) \in T
    BY <1>3a
  <2> HIDE DEF op, T, n
  <2> QED BY <2>1
<1> HIDE DEF op, step, T, n, base
<1>4. PICK g \in [SUBSET (1..n) -> T] : Solves(g, base, step, n)
  BY <1>1, <1>1a, <1>3, FoldExists
<1>5. \A s \in SUBSET (1..n) : s # {} => Max(s) \in 1..n /\ s \ {Max(s)} \in SUBSET (1..n)
  BY <1>1, MaxOfPositions
<1>6. g = [s \in SUBSET DOMAIN ops |-> IF s = {} THEN base ELSE op(g[s \ {Max(s)}], Max(s))]
  <2>1. ASSUME NEW s \in SUBSET (1..n)
        PROVE  g[s] = IF s = {} THEN base ELSE op(g[s \ {Max(s)}], Max(s))
    <3>1. CASE s = {}
      BY <1>4, <3>1 DEF Solves
    <3>2. CASE s # {}
      <4>1. g[s \ {Max(s)}] \in T /\ Max(s) \in 1..n
        BY <1>4, <1>5, <3>2
      <4>2. g[s] = step[<<g[s \ {Max(s)}], Max(s)>>]
        BY <1>4, <3>2 DEF Solves
      <4> QED BY <1>3, <3>2, <4>1, <4>2
    <3> QED BY <3>1, <3>2
  <2> QED BY <1>1, <1>4, <2>1
<1>7. it = [s \in SUBSET DOMAIN ops |-> IF s = {} THEN base ELSE op(it[s \ {Max(s)}], Max(s))]
  BY <1>6, Zenon
<1> HIDE DEF it
<1>8. Iterates(it, base, step, T, n)
  BY <1>1, <1>3, <1>5, <1>7 DEF Iterates
<1>9. PICK c \in [0..n -> T] : Passes(c, base, step, n, it[1..n])
  BY <1>1, <1>1a, <1>3, <1>8, FoldTrace
<1>10. ASSUME NEW k \in 1..n PROVE c[k] = op(c[k - 1], k)
  <2>1. k - 1 \in 0..n
    BY <1>1
  <2>2. c[k - 1] \in T /\ c[k] = step[<<c[k - 1], k>>]
    BY <1>9, <2>1 DEF Passes
  <2> QED BY <1>3, <2>2
<1>11. c[0] = base /\ c[n] = it[DOMAIN ops] /\ \A k \in 0..n : c[k] \in T
  BY <1>1, <1>9 DEF Passes
<1>12. Attempts(c, ops)
  BY <1>10, <1>11 DEF Attempts, n, T, base, op
<1>13. Closure(ops) = c[n]
  BY <1>2, <1>11
<1> QED BY <1>12, <1>13 DEF n

\* So it takes the committed store through the stages of its operations.
LEMMA ClosureStages ==
  ASSUME TreeOK(store), NEW ops \in Seq(Operations)
  PROVE  \E c : Stages(c, store, ops) /\ Closure(ops).staged = c[Len(ops)]
<1>1. PICK c : Attempts(c, ops) /\ Closure(ops) = c[Len(ops)]
  BY ClosureAttempts
<1> DEFINE n == Len(ops)
           d == [k \in 0..n |-> c[k].staged]
<1>2. n \in Nat
  OBVIOUS
<1>3. d[0] = store /\ d[n] = Closure(ops).staged
  BY <1>1, <1>2 DEF Attempts, UiTransaction
<1>4. ASSUME NEW k \in 1..n PROVE d[k] = d[k - 1] \/ d[k] = apply(d[k - 1], ops[k]).store
  <2>1. k \in 0..n /\ k - 1 \in 0..n /\ ops[k] \in Operations
    BY <1>2
  <2>2. c[k] = Attempt(c[k - 1], ops[k]) /\ c[k - 1] \in Transactions
    BY <1>1, <2>1 DEF Attempts
  <2>3. d[k] = c[k].staged /\ d[k - 1] = c[k - 1].staged
    BY <2>1
  <2> HIDE DEF d
  <2> QED BY <2>1, <2>2, <2>3, AttemptOK
<1> HIDE DEF d
<1>5. Stages(d, store, ops)
  BY <1>3, <1>4 DEF Stages
<1> QED BY <1>3, <1>5

\* An answer is two things.
Shape(r) == r = [ok |-> r.ok, store |-> r.store]

\* Every operation answers with both.
LEMMA ApplyShape ==
  ASSUME NEW s, NEW op \in Operations
  PROVE  Shape(apply(s, op))
<1>1. ASSUME NEW x, NEW b PROVE Shape(Done(x)) /\ Shape(Failed(x)) /\ Shape([ok |-> b, store |-> x])
  BY DEF Shape, Done, Failed
<1>2. Shape(create_node(s, op))
  BY <1>1, Zenon DEF create_node
<1>3. Shape(delete_node(s, op))
  BY <1>1, Zenon DEF delete_node
<1>4. Shape(set_property(s, op))
  BY <1>1, Zenon DEF set_property
<1>5. Shape(clear_property(s, op))
  BY <1>1, Zenon DEF clear_property
<1>6. Shape(batch_property_set(s, op))
  BY <1>1, Zenon DEF batch_property_set
<1>7. Shape(move_node(s, op))
  BY <1>1, Zenon DEF move_node
<1>8. Shape(reorder_children(s, op))
  BY <1>1, Zenon DEF reorder_children
<1>9. Shape(create_model(s, op))
  BY <1>1, Zenon DEF create_model
<1>10. Shape(OnModel(s, op))
  BY <1>1, Zenon DEF OnModel
<1>11. op.kind \in {"create_node", "delete_node", "set_property", "clear_property", "batch_property_set",
                    "move_node", "reorder_children", "create_model", "model_insert", "model_delete",
                    "model_update", "model_reset_range"}
  BY DEF Operations, NodeOps, ModelOpsTyped
<1> QED BY <1>2, <1>3, <1>4, <1>5, <1>6, <1>7, <1>8, <1>9, <1>10, <1>11 DEF apply

Results == [ok : BOOLEAN, store : GoodStores]

\* Operations taken in turn, until one is refused.
Takes(c, start, ops) ==
  /\ c[0] = Done(start) /\ \A k \in 0..Len(ops) : c[k] \in Results
  /\ \A k \in 1..Len(ops) : c[k] = IF c[k - 1].ok THEN apply(c[k - 1].store, ops[k]) ELSE c[k - 1]

\* So does the staged application of a list of operations, which is all or nothing.
LEMMA StagedTakes ==
  ASSUME NEW start, TreeOK(start), NEW ops \in Seq(Operations)
  PROVE  \E c : /\ Takes(c, start, ops)
                /\ apply_staged(start, ops) =
                     IF Len(ops) > MaxOps \/ ~c[Len(ops)].ok THEN Failed(start) ELSE c[Len(ops)]
<1> DEFINE n == Len(ops)
           T == Results
           op(a, i) == IF a.ok THEN apply(a.store, ops[i]) ELSE a
           base == Done(start)
           step == [p \in T \X (1..n) |-> op(p[1], p[2])]
           it == CHOOSE f : f = [s \in SUBSET DOMAIN ops |->
                   IF s = {} THEN base ELSE op(f[s \ {Max(s)}], Max(s))]
<1>1. n \in Nat /\ DOMAIN ops = 1..n /\ \A i \in 1..n : ops[i] \in Operations
  OBVIOUS
<1>1a. base \in T /\ base.store = start
  BY GoodIsOK DEF Done, Results
<1>2. apply_staged(start, ops) = IF n > MaxOps \/ ~it[DOMAIN ops].ok THEN Failed(start) ELSE it[DOMAIN ops]
  BY Zenon DEF apply_staged, FoldLeft, MapThenFoldSet
<1>3a. ASSUME NEW a \in T, NEW i \in 1..n
       PROVE  op(a, i) \in T /\ (op(a, i).store = a.store \/ op(a, i).store = apply(a.store, ops[i]).store)
  <2> DEFINE o == ops[i]
             r == apply(a.store, o)
  <2>1. a.store \in GoodStores /\ a.ok \in BOOLEAN /\ o \in Operations
    BY <1>1 DEF Results
  <2>2. Applied(r, a.store, o)
    BY <2>1, ApplyOK, GoodIsOK
  <2>3. r \in T
    <3> HIDE DEF r
    <3>1. r = [ok |-> r.ok, store |-> r.store]
      BY <2>1, ApplyShape DEF Shape, r
    <3> QED BY <2>2, <3>1, GoodIsOK DEF Applied, Results
  <2> QED BY <2>1, <2>3
<1>3. step \in [T \X (1..n) -> T] /\ \A a \in T, i \in 1..n : step[<<a, i>>] = op(a, i)
  <2>1. ASSUME NEW a \in T, NEW i \in 1..n PROVE op(a, i) \in T
    BY <1>3a
  <2> HIDE DEF op, T, n
  <2> QED BY <2>1
<1> HIDE DEF op, step, T, n, base
<1>4. PICK g \in [SUBSET (1..n) -> T] : Solves(g, base, step, n)
  BY <1>1, <1>1a, <1>3, FoldExists
<1>5. \A s \in SUBSET (1..n) : s # {} => Max(s) \in 1..n /\ s \ {Max(s)} \in SUBSET (1..n)
  BY <1>1, MaxOfPositions
<1>6. g = [s \in SUBSET DOMAIN ops |-> IF s = {} THEN base ELSE op(g[s \ {Max(s)}], Max(s))]
  <2>1. ASSUME NEW s \in SUBSET (1..n)
        PROVE  g[s] = IF s = {} THEN base ELSE op(g[s \ {Max(s)}], Max(s))
    <3>1. CASE s = {}
      BY <1>4, <3>1 DEF Solves
    <3>2. CASE s # {}
      <4>1. g[s \ {Max(s)}] \in T /\ Max(s) \in 1..n
        BY <1>4, <1>5, <3>2
      <4>2. g[s] = step[<<g[s \ {Max(s)}], Max(s)>>]
        BY <1>4, <3>2 DEF Solves
      <4> QED BY <1>3, <3>2, <4>1, <4>2
    <3> QED BY <3>1, <3>2
  <2> QED BY <1>1, <1>4, <2>1
<1>7. it = [s \in SUBSET DOMAIN ops |-> IF s = {} THEN base ELSE op(it[s \ {Max(s)}], Max(s))]
  BY <1>6, Zenon
<1> HIDE DEF it
<1>8. Iterates(it, base, step, T, n)
  BY <1>1, <1>3, <1>5, <1>7 DEF Iterates
<1>9. PICK c \in [0..n -> T] : Passes(c, base, step, n, it[1..n])
  BY <1>1, <1>1a, <1>3, <1>8, FoldTrace
<1>10. ASSUME NEW k \in 1..n PROVE c[k] = op(c[k - 1], k)
  <2>1. k - 1 \in 0..n
    BY <1>1
  <2>2. c[k - 1] \in T /\ c[k] = step[<<c[k - 1], k>>]
    BY <1>9, <2>1 DEF Passes
  <2> QED BY <1>3, <2>2
<1>11. c[0] = base /\ c[n] = it[DOMAIN ops] /\ \A k \in 0..n : c[k] \in T
  BY <1>1, <1>9 DEF Passes
<1>12. Takes(c, start, ops)
  BY <1>10, <1>11 DEF Takes, n, T, base, op
<1>13. apply_staged(start, ops) = IF n > MaxOps \/ ~c[n].ok THEN Failed(start) ELSE c[n]
  BY <1>2, <1>11
<1> QED BY <1>12, <1>13 DEF n

\* These are stages of the store, too.
LEMMA StagedStages ==
  ASSUME NEW start, TreeOK(start), NEW ops \in Seq(Operations)
  PROVE  \E c : /\ Stages(c, start, ops)
                /\ apply_staged(start, ops).ok => apply_staged(start, ops).store = c[Len(ops)]
<1> DEFINE n == Len(ops)
           got == apply_staged(start, ops)
<1>1. PICK c : Takes(c, start, ops) /\ got = IF n > MaxOps \/ ~c[n].ok THEN Failed(start) ELSE c[n]
  BY StagedTakes
<1> HIDE DEF got
<1> DEFINE d == [k \in 0..n |-> c[k].store]
<1>2. n \in Nat
  OBVIOUS
<1>3. d[0] = start /\ d[n] = c[n].store
  BY <1>1, <1>2 DEF Takes, Done
<1>4. ASSUME NEW k \in 1..n PROVE d[k] = d[k - 1] \/ d[k] = apply(d[k - 1], ops[k]).store
  <2>1. k \in 0..n /\ k - 1 \in 0..n
    BY <1>2
  <2>2. c[k] = IF c[k - 1].ok THEN apply(c[k - 1].store, ops[k]) ELSE c[k - 1]
    BY <1>1, <2>1 DEF Takes
  <2>3. d[k] = c[k].store /\ d[k - 1] = c[k - 1].store
    BY <2>1
  <2> HIDE DEF d
  <2> QED BY <2>2, <2>3
<1> HIDE DEF d
<1>5. Stages(d, start, ops)
  BY <1>3, <1>4 DEF Stages
<1>6. got.ok => got.store = d[n]
  <2>1. ~Failed(start).ok
    BY DEF Failed
  <2> QED BY <1>1, <1>3, <2>1
<1> QED BY <1>5, <1>6 DEF got

-----------------------------------------------------------------------------
(* The committed store *)

\* A store in order is well formed: the ranks are the depths, and every way up ends.
LEMMA OKIsWellFormed ==
  ASSUME NEW s, TreeOK(s), Limited(s)
  PROVE  WellFormed(s)
<1>1. Counted(s) /\ Linked(s) /\ Referred(s)
  BY DEF TreeOK
<1>2. PICK r : Ranks(s, r)
  BY DEF TreeOK
<1>3. ASSUME NEW n \in DOMAIN s.nodes
      PROVE  /\ \E k \in DOMAIN Lineage(s, n) : Lineage(s, n)[k] = None
             /\ node_depth(s, n) <= MaxDepth
  <2> DEFINE size == Cardinality(DOMAIN s.nodes)
             up == Lineage(s, n)
  <2>1. /\ size \in Nat /\ r[n] \in 1..size /\ r[n] \in 1..MaxDepth
        /\ \A k \in 0..size : k >= r[n] => up[k] = None
    BY <1>1, <1>2, LineageRank
  <2>2. node_depth(s, n) = r[n]
    BY <1>1, <1>2, DepthIsRank
  <2>3. DOMAIN up = 0..size
    <3>1. s \in Stores /\ IsFiniteSet(DOMAIN s.nodes)
      BY <1>1 DEF Counted
    <3>2. n \in Parents
      BY <3>1, StoreParts DEF Parents
    <3> QED BY <3>1, <3>2, LineageClimbs
  <2> HIDE DEF size, up
  <2>4. r[n] \in 0..size /\ r[n] >= r[n] /\ r[n] <= MaxDepth
    BY <2>1, TreeAssumption
  <2>5. up[r[n]] = None
    BY <2>1, <2>4
  <2>6. \E k \in DOMAIN up : up[k] = None
    BY <2>3, <2>4, <2>5
  <2> QED BY <2>2, <2>4, <2>6 DEF up
<1>4. \A m \in DOMAIN s.models : IndexExact(s.models[m]) /\ Cached(s.models[m]) <= MaxCached
  BY <1>1 DEF Referred, ModelOK, Limited
<1> QED BY <1>1, <1>3, <1>4 DEF WellFormed, Counted, Linked, Referred

\* The store a session starts with.
LEMMA EmptyOK == TreeOK(EmptyStore) /\ Limited(EmptyStore)
<1> DEFINE s == EmptyStore
           none == [n \in {} |-> 0]
<1>1. s.nodes = none /\ s.roots = <<>> /\ s.used = {} /\ s.models = none /\ s.usedModels = {}
  BY DEF EmptyStore
<1>2. none \in NodeMaps /\ none \in ModelMaps /\ DOMAIN none = {}
  <2>1. none \in [{} -> Nodes] /\ none \in [{} -> Models] /\ DOMAIN none = {}
    OBVIOUS
  <2>2. {} \in SUBSET NodeIds /\ {} \in SUBSET ModelIds
    OBVIOUS
  <2> HIDE DEF none
  <2> QED BY <2>1, <2>2 DEF NodeMaps, ModelMaps
<1>3. s \in Stores
  <2>1. ASSUME NEW a \in NodeMaps, NEW b \in Seq(NodeIds), NEW c \in ModelMaps
        PROVE  [nodes |-> a, roots |-> b, used |-> {}, models |-> c, usedModels |-> {}] \in Stores
    BY DEF Stores
  <2>2. <<>> \in Seq(NodeIds)
    OBVIOUS
  <2> QED BY <1>2, <2>1, <2>2 DEF EmptyStore
<1> HIDE DEF s, none
<1>4. Counted(s)
  <2>1. IsFiniteSet({}) /\ Cardinality({}) = 0
    BY FS_EmptySet
  <2> QED BY <1>1, <1>2, <1>3, <2>1, TreeAssumption DEF Counted
<1>5. Linked(s)
  <2>1. Siblings(s, None) = <<>> /\ IsInjective(<<>>) /\ ToSet(<<>>) = {}
    BY <1>1 DEF Siblings, IsInjective, ToSet
  <2> QED BY <1>1, <1>2, <2>1 DEF Linked
<1>6. Referred(s) /\ Limited(s)
  BY <1>1, <1>2 DEF Referred, Limited
<1>7. Ranks(s, [n \in {} |-> 1])
  BY <1>1, <1>2 DEF Ranks
<1> QED BY <1>4, <1>5, <1>6, <1>7 DEF TreeOK, s

\* The session's commits, and the client's copy, under transactions of any length made of
\* any operations, of which those that update by position keep to what is cached.
TreeSpec == TreeInit /\ [][TreeNext({ops \in Seq(Operations) : Steady(store, ops)})]_treeVars

TreeInv == TreeOK(store) /\ Limited(store)

\* A closure's commit and a commit of operations from the wire leave a store in order.
LEMMA TreeStep ==
  ASSUME TreeInv, [TreeNext({ops \in Seq(Operations) : Steady(store, ops)})]_treeVars
  PROVE  TreeInv'
<1> DEFINE Given == {ops \in Seq(Operations) : Steady(store, ops)}
<1>1. ASSUME NEW ops \in Given, transaction(ops) PROVE TreeInv'
  <2>1. ops \in Seq(Operations) /\ Steady(store, ops) /\ store' = Closure(ops).staged
    BY <1>1 DEF transaction
  <2>2. PICK c : Stages(c, store, ops) /\ Closure(ops).staged = c[Len(ops)]
    BY <2>1, ClosureStages DEF TreeInv
  <2>3. TreeOK(c[Len(ops)]) /\ Limited(c[Len(ops)])
    BY <2>1, <2>2, StagesOK DEF TreeInv
  <2>4. TreeOK(store') /\ Limited(store')
    BY <2>1, <2>2, <2>3
  <2> QED BY <2>4 DEF TreeInv
<1>2. ASSUME NEW ops \in Given, commit_transaction(ops) PROVE TreeInv'
  <2> DEFINE d == DeliveredAll(ops)
  <2>1. d \in Seq(Operations) /\ Steady(store, d)
    BY DeliveredSteady
  <2>2. apply_staged(store, d).ok /\ store' = apply_staged(store, d).store
    BY <1>2 DEF commit_transaction
  <2> HIDE DEF d
  <2>3. PICK c : Stages(c, store, d) /\ (apply_staged(store, d).ok => apply_staged(store, d).store = c[Len(d)])
    BY <2>1, StagedStages DEF TreeInv
  <2>4. TreeOK(c[Len(d)]) /\ Limited(c[Len(d)])
    BY <2>1, <2>3, StagesOK DEF TreeInv
  <2>5. TreeOK(store') /\ Limited(store')
    BY <2>2, <2>3, <2>4
  <2> QED BY <2>5 DEF TreeInv
<1>3. CASE UNCHANGED store
  BY <1>3 DEF TreeInv
<1> QED BY <1>1, <1>2, <1>3 DEF TreeNext, Detach, Resync, treeVars

(* The committed store stays a forest within its limits whose references   *)
(* and caches are sound, for transactions of any length of any operations, *)
(* of closures that give up on a refusal and of those that go on: the      *)
(* operations of the semantic store and of its collection models.          *)
THEOREM TreeStaysWellFormed == TreeSpec => []TreeWellFormed
<1>1. TreeInit => TreeInv
  BY EmptyOK DEF TreeInit, TreeInv
<1>2. TreeInv => TreeWellFormed
  BY OKIsWellFormed DEF TreeInv, TreeWellFormed
<1> QED BY <1>1, <1>2, TreeStep, PTL DEF TreeSpec

-----------------------------------------------------------------------------
(* The replica *)

\* The same tree and models: t may have forgotten used identities, but none of a live model.
Twin(s, t) ==
  /\ SameTree(s, t) /\ t.used \subseteq s.used
  /\ DOMAIN s.models \subseteq t.usedModels /\ t.usedModels \subseteq s.usedModels

\* If r was accepted so is q, and their stores are twins.
Follows(r, q) == r.ok => q.ok /\ Twin(r.store, q.store)

\* The walks up and down depend on the nodes alone.
WayUp(nodes, id) ==
  LET up[k \in 0 .. Cardinality(DOMAIN nodes)] ==
        IF k = 0 THEN id
        ELSE IF up[k - 1] \in DOMAIN nodes THEN nodes[up[k - 1]].parent ELSE None
  IN  up
DepthIn(nodes, id) == Cardinality({k \in DOMAIN WayUp(nodes, id) : WayUp(nodes, id)[k] # None})
Under(nodes, id) == {n \in DOMAIN nodes : \E k \in DOMAIN WayUp(nodes, n) : WayUp(nodes, n)[k] = id}
HeightIn(nodes, id) ==
  LET down == {DepthIn(nodes, n) - DepthIn(nodes, id) + 1 : n \in Under(nodes, id)}
  IN  CHOOSE d \in down : \A e \in down : e <= d

\* Twins look the same.
LEMMA TwinsLook ==
  ASSUME NEW s, NEW t, SameTree(s, t), NEW id
  PROVE  /\ Siblings(t, id) = Siblings(s, id) /\ DepthBelow(t, id) = DepthBelow(s, id)
         /\ Subtree(t, id) = Subtree(s, id) /\ subtree_depth(t, id) = subtree_depth(s, id)
         /\ \A v : ValueAccepted(t, v) <=> ValueAccepted(s, v)
<1>1. t.nodes = s.nodes /\ t.roots = s.roots /\ t.models = s.models
  BY DEF SameTree
<1>2. ASSUME NEW u, NEW x PROVE Lineage(u, x) = WayUp(u.nodes, x)
  BY DEF Lineage, WayUp
<1>3. ASSUME NEW u, NEW x PROVE node_depth(u, x) = DepthIn(u.nodes, x) /\ Subtree(u, x) = Under(u.nodes, x)
  BY <1>2 DEF node_depth, Subtree, DepthIn, Under
<1>4. ASSUME NEW u, NEW x PROVE subtree_depth(u, x) = HeightIn(u.nodes, x)
  BY <1>3, Zenon DEF subtree_depth, HeightIn
<1>5. DepthIn(t.nodes, id) = DepthIn(s.nodes, id) /\ Under(t.nodes, id) = Under(s.nodes, id)
      /\ HeightIn(t.nodes, id) = HeightIn(s.nodes, id)
  BY <1>1
<1>6. DepthBelow(t, id) = DepthBelow(s, id)
  BY <1>3, <1>5 DEF DepthBelow
<1>7. Siblings(t, id) = Siblings(s, id)
  BY <1>1 DEF Siblings
<1>8. \A v : ValueAccepted(t, v) <=> ValueAccepted(s, v)
  BY <1>1 DEF ValueAccepted, validate_property_references
<1> QED BY <1>3, <1>4, <1>5, <1>6, <1>7, <1>8

\* Twins with a list of siblings replaced.
LEMMA TwinsRelinked ==
  ASSUME NEW s \in Stores, NEW t \in Stores, Twin(s, t), NEW p, NEW ids
  PROVE  Twin(Relink(s, p, ids), Relink(t, p, ids))
<1>1. t.nodes = s.nodes /\ t.roots = s.roots /\ t.models = s.models
  BY DEF Twin, SameTree
<1>2. ASSUME NEW u \in Stores
      PROVE  LET w == Relink(u, p, ids) IN
             /\ w.nodes = (IF p = None THEN u.nodes ELSE [u.nodes EXCEPT ![p].children = ids])
             /\ w.roots = (IF p = None THEN ids ELSE u.roots)
             /\ w.used = u.used /\ w.models = u.models /\ w.usedModels = u.usedModels
  BY DEF Stores, Relink
<1> DEFINE a == Relink(s, p, ids)
           b == Relink(t, p, ids)
<1>3. /\ a.nodes = (IF p = None THEN s.nodes ELSE [s.nodes EXCEPT ![p].children = ids])
      /\ a.roots = (IF p = None THEN ids ELSE s.roots)
      /\ a.used = s.used /\ a.models = s.models /\ a.usedModels = s.usedModels
  BY <1>2
<1>4. /\ b.nodes = (IF p = None THEN t.nodes ELSE [t.nodes EXCEPT ![p].children = ids])
      /\ b.roots = (IF p = None THEN ids ELSE t.roots)
      /\ b.used = t.used /\ b.models = t.models /\ b.usedModels = t.usedModels
  BY <1>2
<1> HIDE DEF a, b
<1>5. b.nodes = a.nodes /\ b.roots = a.roots /\ b.models = a.models
  BY <1>1, <1>3, <1>4
<1>6. Twin(a, b)
  BY <1>3, <1>4, <1>5 DEF Twin, SameTree
<1> QED BY <1>6 DEF a, b

\* A refusal is followed by anything, an acceptance by a twin.
LEMMA FollowsEither ==
  ASSUME NEW x, NEW y
  PROVE  (\A q : Follows(Failed(x), q)) /\ (Twin(x, y) => Follows(Done(x), Done(y)))
BY DEF Follows, Failed, Done

\* A new node.
LEMMA CreateNodeFollows ==
  ASSUME NEW s, TreeOK(s), NEW t, TreeOK(t), Twin(s, t), NEW op, op.id \in NodeIds, op.parent \in Parents,
         op.at \in Nat \cup {None}
  PROVE  Follows(create_node(s, op), create_node(t, op))
<1> DEFINE refused(u) == \/ op.id \in u.used
                         \/ Cardinality(DOMAIN u.nodes) >= MaxNodes
                         \/ op.parent # None /\ op.parent \notin DOMAIN u.nodes
                         \/ DepthBelow(u, op.parent) + 1 > MaxDepth
                         \/ ~ValueAccepted(u, op.value)
                         \/ op.at # None /\ op.at > Len(Siblings(u, op.parent))
           ids(u) == Siblings(u, op.parent)
           new(u) == InsertAt(ids(u), Slot(ids(u), op.at), op.id)
           linked(u) == Relink(u, op.parent, new(u))
           node == [parent |-> op.parent, children |-> <<>>, ref |-> op.value.ref]
           made(u) == [linked(u) EXCEPT !.nodes = Put(@, op.id, node), !.used = @ \cup {op.id}]
<1>1. ASSUME NEW u PROVE create_node(u, op) = IF refused(u) THEN Failed(u) ELSE Done(made(u))
  BY DEF create_node
<1>2. SameTree(s, t) /\ t.nodes = s.nodes /\ t.used \subseteq s.used /\ s \in Stores /\ t \in Stores
  BY DEF Twin, SameTree, TreeOK, Counted
<1>3. ids(t) = ids(s) /\ DepthBelow(t, op.parent) = DepthBelow(s, op.parent)
      /\ (ValueAccepted(t, op.value) <=> ValueAccepted(s, op.value))
  BY <1>2, TwinsLook
<1>4. refused(t) => refused(s)
  BY <1>2, <1>3
<1>5. CASE refused(s)
  <2>1. create_node(s, op) = Failed(s)
    BY <1>1, <1>5
  <2> QED BY <2>1, FollowsEither
<1>6. CASE ~refused(s)
  <2>1. op.parent \in DOMAIN s.nodes \cup {None} /\ op.id \notin s.used /\ DOMAIN s.nodes \subseteq s.used
    BY <1>6 DEF Parents, TreeOK, Counted
  <2>2. new(s) \in Seq(NodeIds) /\ new(t) = new(s)
    <3>1. ids(s) \in Seq(NodeIds) /\ IsInjective(ids(s)) /\ op.id \notin ToSet(ids(s))
      BY <1>2, <2>1, StoreParts DEF TreeOK, Linked
    <3> DEFINE at == op.at
               id == op.id
               is == ids(s)
    <3>2. at \in Nat \cup {None} /\ id \in NodeIds /\ is \in Seq(NodeIds) /\ IsInjective(is) /\ id \notin ToSet(is)
      BY <3>1
    <3> HIDE DEF at, id, is
    <3>3. InsertAt(is, Slot(is, at), id) \in Seq(NodeIds)
      BY <3>2, SiblingAdded
    <3>4. new(s) \in Seq(NodeIds)
      BY <3>3 DEF at, id, is
    <3> HIDE DEF ids
    <3> QED BY <1>3, <3>4
  <2> HIDE DEF new, refused
  <2>3. linked(s) \in Stores /\ linked(t) \in Stores
    <3>1. op.parent \in DOMAIN t.nodes \cup {None}
      BY <1>2, <2>1
    <3> DEFINE p == op.parent
               l == new(s)
    <3>2. p \in DOMAIN s.nodes \cup {None} /\ p \in DOMAIN t.nodes \cup {None} /\ l \in Seq(NodeIds)
      BY <2>1, <2>2, <3>1
    <3> HIDE DEF p, l
    <3>3. Relink(s, p, l) \in Stores /\ Relink(t, p, l) \in Stores
      BY <1>2, <3>2, Relinked
    <3> QED BY <2>2, <3>3 DEF p, l
  <2>4. Twin(linked(s), linked(t))
    BY <1>2, <2>2, TwinsRelinked
  <2> HIDE DEF linked, node
  <2>5. ASSUME NEW u, linked(u) \in Stores
        PROVE  /\ made(u).nodes = Put(linked(u).nodes, op.id, node) /\ made(u).used = linked(u).used \cup {op.id}
               /\ made(u).roots = linked(u).roots /\ made(u).models = linked(u).models
               /\ made(u).usedModels = linked(u).usedModels
    BY <2>5 DEF Stores
  <2> HIDE DEF made
  <2>6. Twin(made(s), made(t))
    BY <2>3, <2>4, <2>5 DEF Twin, SameTree
  <2> QED BY <1>1, <1>4, <1>6, <2>6, FollowsEither
<1> QED BY <1>5, <1>6

\* Taking a node from among its siblings.
LEMMA TwinsUnlinked ==
  ASSUME NEW s, TreeOK(s), NEW t, TreeOK(t), Twin(s, t), NEW id \in DOMAIN s.nodes
  PROVE  Twin(Unlink(s, id), Unlink(t, id)) /\ Unlink(s, id) \in Stores /\ Unlink(t, id) \in Stores
<1>1. SameTree(s, t) /\ t.nodes = s.nodes /\ s \in Stores /\ t \in Stores
  BY DEF Twin, SameTree, TreeOK, Counted
<1>2. Unlink(s, id) \in Stores /\ Unlink(t, id) \in Stores
  BY <1>1, Unlinked DEF TreeOK
<1> DEFINE p == s.nodes[id].parent
           ids == Siblings(s, p)
           new == SelectIn(ids, ToSet(ids) \ {id})
<1>3. Siblings(t, p) = ids
  BY <1>1, TwinsLook
<1>4. Unlink(s, id) = Relink(s, p, new)
  BY DEF Unlink
<1>5. Unlink(t, id) = Relink(t, p, new)
  <2>1. t.nodes[id].parent = p
    BY <1>1
  <2> HIDE DEF p, ids
  <2> QED BY <1>3, <2>1 DEF Unlink
<1> HIDE DEF p, new
<1> QED BY <1>1, <1>2, <1>4, <1>5, TwinsRelinked

\* Twins with the same nodes put in.
LEMMA TwinsRenoded ==
  ASSUME NEW s \in Stores, NEW t \in Stores, Twin(s, t), NEW nodes
  PROVE  Twin([s EXCEPT !.nodes = nodes], [t EXCEPT !.nodes = nodes])
<1>1. t.roots = s.roots /\ t.models = s.models /\ t.used \subseteq s.used /\ t.usedModels \subseteq s.usedModels
  BY DEF Twin, SameTree
<1> DEFINE with(u) == [u EXCEPT !.nodes = nodes]
<1>2. ASSUME NEW u \in Stores
      PROVE  /\ with(u).nodes = nodes /\ with(u).roots = u.roots /\ with(u).models = u.models
             /\ with(u).used = u.used /\ with(u).usedModels = u.usedModels
  BY DEF Stores
<1> HIDE DEF with
<1>3. Twin(with(s), with(t))
  BY <1>1, <1>2 DEF Twin, SameTree
<1> QED BY <1>3 DEF with

\* A node and what hangs from it taken out.
LEMMA DeleteNodeFollows ==
  ASSUME NEW s, TreeOK(s), NEW t, TreeOK(t), Twin(s, t), NEW op
  PROVE  Follows(delete_node(s, op), delete_node(t, op))
<1> DEFINE id == op.id
           out(u) == [Unlink(u, id) EXCEPT !.nodes = Drop(@, Subtree(u, id))]
<1>1. ASSUME NEW u PROVE delete_node(u, op) = IF id \notin DOMAIN u.nodes THEN Failed(u) ELSE Done(out(u))
  BY DEF delete_node
<1>2. SameTree(s, t) /\ t.nodes = s.nodes
  BY DEF Twin, SameTree
<1>3. CASE id \notin DOMAIN s.nodes
  <2>1. delete_node(s, op) = Failed(s)
    BY <1>1, <1>3
  <2> QED BY <2>1, FollowsEither
<1>4. CASE id \in DOMAIN s.nodes
  <2> HIDE DEF id
  <2>1. Twin(Unlink(s, id), Unlink(t, id)) /\ Unlink(s, id) \in Stores /\ Unlink(t, id) \in Stores
    BY <1>4, TwinsUnlinked
  <2>2. Subtree(t, id) = Subtree(s, id)
    BY <1>2, TwinsLook
  <2> DEFINE x == Unlink(s, id)
             y == Unlink(t, id)
             nodes == Drop(x.nodes, Subtree(s, id))
  <2>3. y.nodes = x.nodes
    BY <2>1 DEF Twin, SameTree
  <2>4. out(s) = [x EXCEPT !.nodes = nodes]
    BY <2>1 DEF Stores
  <2>5. out(t) = [y EXCEPT !.nodes = nodes]
    <3>1. Drop(y.nodes, Subtree(t, id)) = nodes
      BY <2>2, <2>3
    <3>2. out(t) = [y EXCEPT !.nodes = Drop(y.nodes, Subtree(t, id))]
      BY <2>1 DEF Stores
    <3> HIDE DEF nodes, y
    <3> QED BY <3>1, <3>2
  <2> HIDE DEF nodes, out
  <2>6. Twin([x EXCEPT !.nodes = nodes], [y EXCEPT !.nodes = nodes])
    <3> HIDE DEF x, y
    <3> QED BY <2>1, TwinsRenoded DEF x, y
  <2>7. Twin(out(s), out(t))
    BY <2>4, <2>5, <2>6
  <2>8. delete_node(s, op) = Done(out(s)) /\ delete_node(t, op) = Done(out(t))
    BY <1>1, <1>2, <1>4
  <2> QED BY <2>7, <2>8, FollowsEither
<1> QED BY <1>3, <1>4

\* The reference of a node changed.
LEMMA TwinsReferring ==
  ASSUME NEW s \in Stores, NEW t \in Stores, Twin(s, t), NEW id, NEW ref
  PROVE  Twin([s EXCEPT !.nodes[id].ref = ref], [t EXCEPT !.nodes[id].ref = ref])
<1> DEFINE nodes == [s.nodes EXCEPT ![id].ref = ref]
<1>1. t.nodes = s.nodes
  BY DEF Twin, SameTree
<1>2. [s EXCEPT !.nodes[id].ref = ref] = [s EXCEPT !.nodes = nodes]
  BY DEF Stores
<1>3. [t EXCEPT !.nodes[id].ref = ref] = [t EXCEPT !.nodes = [t.nodes EXCEPT ![id].ref = ref]]
  BY DEF Stores
<1>4. [t.nodes EXCEPT ![id].ref = ref] = nodes
  BY <1>1
<1> HIDE DEF nodes
<1>5. [t EXCEPT !.nodes[id].ref = ref] = [t EXCEPT !.nodes = nodes]
  BY <1>3, <1>4
<1> QED BY <1>2, <1>5, TwinsRenoded

\* set_property and clear_property.
LEMMA SetPropertyFollows ==
  ASSUME NEW s \in Stores, NEW t \in Stores, Twin(s, t), NEW op
  PROVE  /\ Follows(set_property(s, op), set_property(t, op))
         /\ Twin(set_property(s, op).store, set_property(t, op).store)
         /\ Follows(clear_property(s, op), clear_property(t, op))
<1> DEFINE id == op.id
           ref == op.value.ref
           set(u) == [u EXCEPT !.nodes[id].ref = ref]
           cleared(u) == [u EXCEPT !.nodes[id].ref = NoRef]
<1>1. SameTree(s, t) /\ t.nodes = s.nodes
  BY DEF Twin, SameTree
<1>2. ValueAccepted(t, op.value) <=> ValueAccepted(s, op.value)
  BY <1>1, TwinsLook
<1> HIDE DEF id, ref
<1>3. Twin(set(s), set(t))
  BY TwinsReferring
<1>4. Twin(cleared(s), cleared(t))
  BY TwinsReferring
<1>5. ASSUME NEW u
      PROVE  /\ set_property(u, op) = IF ~ValueAccepted(u, op.value) \/ id \notin DOMAIN u.nodes THEN Failed(u)
                                      ELSE Done(IF ref = NoRef THEN u ELSE set(u))
             /\ clear_property(u, op) = IF id \notin DOMAIN u.nodes THEN Failed(u) ELSE Done(cleared(u))
  BY DEF set_property, clear_property, id, ref
<1> HIDE DEF set, cleared
<1>6. Follows(clear_property(s, op), clear_property(t, op))
  BY <1>1, <1>4, <1>5, FollowsEither
<1>7. \A x : Failed(x).store = x /\ Done(x).store = x
  BY DEF Failed, Done
<1>8. CASE ~ValueAccepted(s, op.value) \/ id \notin DOMAIN s.nodes
  <2>1. set_property(s, op) = Failed(s) /\ set_property(t, op) = Failed(t)
    BY <1>1, <1>2, <1>5, <1>8
  <2> QED BY <1>6, <1>7, <2>1, FollowsEither
<1>9. CASE ~(~ValueAccepted(s, op.value) \/ id \notin DOMAIN s.nodes)
  <2> DEFINE x == IF ref = NoRef THEN s ELSE set(s)
             y == IF ref = NoRef THEN t ELSE set(t)
  <2>1. set_property(s, op) = Done(x) /\ set_property(t, op) = Done(y)
    BY <1>1, <1>2, <1>5, <1>9
  <2>2. Twin(x, y)
    BY <1>3
  <2> HIDE DEF x, y
  <2> QED BY <1>6, <1>7, <2>1, <2>2, FollowsEither
<1> QED BY <1>8, <1>9

\* The stores batch_property_set goes through.
Sets(c, s, op) ==
  /\ c[0] = s /\ \A k \in 0..Len(op.values) : c[k] \in Stores
  /\ \A k \in 1..Len(op.values) : c[k] = set_property(c[k - 1], [id |-> op.id, value |-> op.values[k]]).store

\* batch_property_set sets one value after the other.
LEMMA BatchSets ==
  ASSUME NEW s, TreeOK(s), NEW op, op.id \in NodeIds, op.values \in Seq(Values)
  PROVE  \E c : /\ Sets(c, s, op)
                /\ batch_property_set(s, op) =
                     IF (\E v \in ToSet(op.values) : ~ValueAccepted(s, v)) \/ op.id \notin DOMAIN s.nodes
                     THEN Failed(s) ELSE Done(c[Len(op.values)])
<1> DEFINE values == op.values
           n == Len(values)
           T == GoodStores
           opn(a, i) == set_property(a, [id |-> op.id, value |-> values[i]]).store
           step == [p \in T \X (1..n) |-> opn(p[1], p[2])]
           it == CHOOSE f : f = [S \in SUBSET DOMAIN values |->
                   IF S = {} THEN s ELSE opn(f[S \ {Max(S)}], Max(S))]
           refused == (\E v \in ToSet(values) : ~ValueAccepted(s, v)) \/ op.id \notin DOMAIN s.nodes
<1>0. \A t \in T : t \in Stores
  BY DEF GoodStores
<1>1. n \in Nat /\ DOMAIN values = 1..n /\ s \in T /\ \A i \in 1..n : values[i] \in Values
  BY GoodIsOK
<1>2. batch_property_set(s, op) = IF refused THEN Failed(s) ELSE Done(it[DOMAIN values])
  BY Zenon DEF batch_property_set, FoldLeft, MapThenFoldSet
<1>3. step \in [T \X (1..n) -> T] /\ \A a \in T, i \in 1..n : step[<<a, i>>] = opn(a, i)
  <2>1. ASSUME NEW a \in T, NEW i \in 1..n PROVE opn(a, i) \in T
    <3> DEFINE o == [id |-> op.id, value |-> values[i]]
    <3>1. o.id \in NodeIds /\ o.value \in Values
      BY <1>1
    <3> HIDE DEF o
    <3>2. TreeOK(a)
      BY GoodIsOK
    <3>3. Answers(set_property(a, o), a)
      BY <3>1, <3>2, SetPropertyOK
    <3>4. set_property(a, o).store \in T
      BY <3>3, GoodIsOK DEF Answers
    <3> QED BY <3>4 DEF o
  <2> HIDE DEF opn, T, n
  <2> QED BY <2>1
<1> HIDE DEF opn, step, T, n, refused, values
<1>4. PICK g \in [SUBSET (1..n) -> T] : Solves(g, s, step, n)
  BY <1>1, <1>3, FoldExists
<1>5. \A S \in SUBSET (1..n) : S # {} => Max(S) \in 1..n /\ S \ {Max(S)} \in SUBSET (1..n)
  BY <1>1, MaxOfPositions
<1>6. g = [S \in SUBSET DOMAIN values |-> IF S = {} THEN s ELSE opn(g[S \ {Max(S)}], Max(S))]
  <2>1. ASSUME NEW S \in SUBSET (1..n)
        PROVE  g[S] = IF S = {} THEN s ELSE opn(g[S \ {Max(S)}], Max(S))
    <3>1. CASE S = {}
      BY <1>4, <3>1 DEF Solves
    <3>2. CASE S # {}
      <4>1. g[S \ {Max(S)}] \in T /\ Max(S) \in 1..n
        BY <1>4, <1>5, <3>2
      <4>2. g[S] = step[<<g[S \ {Max(S)}], Max(S)>>]
        BY <1>4, <3>2 DEF Solves
      <4> QED BY <1>3, <3>2, <4>1, <4>2
    <3> QED BY <3>1, <3>2
  <2> QED BY <1>1, <1>4, <2>1
<1>7. it = [S \in SUBSET DOMAIN values |-> IF S = {} THEN s ELSE opn(it[S \ {Max(S)}], Max(S))]
  BY <1>6, Zenon
<1> HIDE DEF it
<1>8. Iterates(it, s, step, T, n)
  <2>1. DOMAIN values = 1..n
    BY <1>1
  <2> QED BY <1>3, <1>5, <1>7, <2>1 DEF Iterates
<1>9. PICK c \in [0..n -> T] : Passes(c, s, step, n, it[1..n])
  BY <1>1, <1>3, <1>8, FoldTrace
<1>10. ASSUME NEW k \in 1..n PROVE c[k] = opn(c[k - 1], k)
  <2>1. k - 1 \in 0..n
    BY <1>1
  <2>2. c[k - 1] \in T /\ c[k] = step[<<c[k - 1], k>>]
    BY <1>9, <2>1 DEF Passes
  <2> QED BY <1>3, <2>2
<1>11. Sets(c, s, op)
  <2>1. c[0] = s /\ \A k \in 0..n : c[k] \in Stores
    BY <1>0, <1>9 DEF Passes
  <2> QED BY <1>10, <2>1 DEF Sets, n, values, opn
<1>12. it[DOMAIN values] = c[n]
  BY <1>1, <1>9 DEF Passes
<1> QED BY <1>2, <1>11, <1>12 DEF refused, n, values

\* batch_property_set.
LEMMA BatchFollows ==
  ASSUME NEW s, TreeOK(s), NEW t, TreeOK(t), Twin(s, t), NEW op, op.id \in NodeIds, op.values \in Seq(Values)
  PROVE  Follows(batch_property_set(s, op), batch_property_set(t, op))
<1> DEFINE n == Len(op.values)
           refused(u) == (\E v \in ToSet(op.values) : ~ValueAccepted(u, v)) \/ op.id \notin DOMAIN u.nodes
<1>1. PICK c : Sets(c, s, op) /\ batch_property_set(s, op) = IF refused(s) THEN Failed(s) ELSE Done(c[n])
  BY BatchSets
<1>2. PICK d : Sets(d, t, op) /\ batch_property_set(t, op) = IF refused(t) THEN Failed(t) ELSE Done(d[n])
  BY BatchSets
<1>3. refused(t) <=> refused(s)
  <2>1. SameTree(s, t) /\ t.nodes = s.nodes
    BY DEF Twin, SameTree
  <2>2. \A v : ValueAccepted(t, v) <=> ValueAccepted(s, v)
    BY <2>1, TwinsLook
  <2> QED BY <2>1, <2>2
<1> DEFINE S == {k \in 0..n : Twin(c[k], d[k])}
<1>4. n \in Nat
  OBVIOUS
<1>5. 0 \in S
  BY <1>1, <1>2, <1>4 DEF Sets
<1>6. ASSUME NEW k \in 1..n, k - 1 \in S PROVE k \in S
  <2>1. k \in 0..n /\ k - 1 \in 0..n
    BY <1>4
  <2> DEFINE o == [id |-> op.id, value |-> op.values[k]]
             a == c[k - 1]
             b == d[k - 1]
  <2>2. a \in Stores /\ b \in Stores /\ Twin(a, b)
    BY <1>1, <1>2, <1>6, <2>1 DEF Sets
  <2>3. c[k] = set_property(a, o).store /\ d[k] = set_property(b, o).store
    BY <1>1, <1>2 DEF Sets
  <2> HIDE DEF o, a, b
  <2>4. Twin(set_property(a, o).store, set_property(b, o).store)
    BY <2>2, SetPropertyFollows
  <2> QED BY <2>1, <2>3, <2>4
<1>7. n \in S
  <2>1. n \in 0..n
    BY <1>4
  <2> HIDE DEF S, n
  <2> QED BY <1>4, <1>5, <1>6, <2>1, Counting
<1>8. Twin(c[n], d[n])
  BY <1>7
<1> HIDE DEF n, refused
<1> QED BY <1>1, <1>2, <1>3, <1>8, FollowsEither

\* reorder_children.
LEMMA ReorderFollows ==
  ASSUME NEW s \in Stores, NEW t \in Stores, Twin(s, t), NEW op
  PROVE  Follows(reorder_children(s, op), reorder_children(t, op))
<1> DEFINE id == op.id
           arranged == op.order
           refused(u) == \/ id \notin DOMAIN u.nodes \/ Len(arranged) # Len(u.nodes[id].children)
                         \/ ToSet(arranged) # ToSet(u.nodes[id].children)
           after(u) == [u EXCEPT !.nodes[id].children = arranged]
           nodes == [s.nodes EXCEPT ![id].children = arranged]
<1>1. t.nodes = s.nodes
  BY DEF Twin, SameTree
<1>2. ASSUME NEW u PROVE reorder_children(u, op) = IF refused(u) THEN Failed(u) ELSE Done(after(u))
  BY DEF reorder_children
<1> HIDE DEF id, arranged
<1>3. after(s) = [s EXCEPT !.nodes = nodes]
  BY DEF Stores
<1>4. after(t) = [t EXCEPT !.nodes = nodes]
  <2>1. after(t) = [t EXCEPT !.nodes = [t.nodes EXCEPT ![id].children = arranged]]
    BY DEF Stores
  <2>2. [t.nodes EXCEPT ![id].children = arranged] = nodes
    BY <1>1
  <2> HIDE DEF nodes, after
  <2> QED BY <2>1, <2>2
<1>5. refused(t) <=> refused(s)
  BY <1>1
<1> HIDE DEF nodes, after, refused
<1>6. Twin(after(s), after(t))
  BY <1>3, <1>4, TwinsRenoded
<1> QED BY <1>2, <1>5, <1>6, FollowsEither

\* move_node.
LEMMA MoveNodeFollows ==
  ASSUME NEW s, TreeOK(s), NEW t, TreeOK(t), Twin(s, t), NEW op, op.id \in NodeIds, op.parent \in Parents,
         op.at \in Nat \cup {None}
  PROVE  Follows(move_node(s, op), move_node(t, op))
<1> DEFINE id == op.id
           p == op.parent
           refused(u) == \/ id \notin DOMAIN u.nodes
                         \/ CycleDetected(u, id, p)
                         \/ p # None /\ p \notin DOMAIN u.nodes
                         \/ new_total_depth(u, id, p) > MaxDepth
                         \/ op.at # None /\ op.at > Len(Siblings(u, p))
           out(u) == Unlink(u, id)
           ids(u) == Siblings(out(u), p)
           new(u) == InsertAt(ids(u), Slot(ids(u), op.at), id)
           back(u) == Relink(out(u), p, new(u))
           moved(u) == [back(u) EXCEPT !.nodes[id].parent = p]
<1>1. ASSUME NEW u PROVE move_node(u, op) = IF refused(u) THEN Failed(u) ELSE Done(moved(u))
  BY DEF move_node
<1>2. SameTree(s, t) /\ t.nodes = s.nodes /\ s \in Stores /\ t \in Stores
  BY DEF Twin, SameTree, TreeOK, Counted
<1>3. refused(t) <=> refused(s)
  <2>1. Subtree(t, id) = Subtree(s, id) /\ DepthBelow(t, p) = DepthBelow(s, p)
        /\ subtree_depth(t, id) = subtree_depth(s, id) /\ Siblings(t, p) = Siblings(s, p)
    BY <1>2, TwinsLook
  <2> QED BY <1>2, <2>1 DEF CycleDetected, new_total_depth
<1>4. CASE refused(s)
  <2>1. move_node(s, op) = Failed(s)
    BY <1>1, <1>4
  <2> QED BY <2>1, FollowsEither
<1>5. CASE ~refused(s)
  <2>1. id \in DOMAIN s.nodes /\ p \in DOMAIN s.nodes \cup {None}
    BY <1>5 DEF Parents
  <2>2. Twin(out(s), out(t)) /\ out(s) \in Stores /\ out(t) \in Stores
    <3> HIDE DEF id
    <3> QED BY <2>1, TwinsUnlinked
  <2>3. DOMAIN out(s).nodes = DOMAIN s.nodes /\ ids(s) \in Seq(NodeIds) /\ IsInjective(ids(s)) /\ id \notin ToSet(ids(s))
    <3> DEFINE i == id
               q == p
    <3> HIDE DEF i, q
    <3>1. i \in DOMAIN s.nodes /\ q \in DOMAIN s.nodes \cup {None} /\ Counted(s) /\ Linked(s)
      BY <2>1 DEF i, q, TreeOK
    <3>2. /\ DOMAIN Unlink(s, i).nodes = DOMAIN s.nodes /\ Siblings(Unlink(s, i), q) \in Seq(NodeIds)
          /\ IsInjective(Siblings(Unlink(s, i), q))
          /\ ToSet(Siblings(Unlink(s, i), q)) = {n \in DOMAIN s.nodes \ {i} : s.nodes[n].parent = q}
      BY <3>1, Unlinked
    <3> QED BY <3>2 DEF i, q
  <2>4. DOMAIN out(t).nodes = DOMAIN s.nodes /\ ids(t) = ids(s)
    <3>1. SameTree(out(s), out(t)) /\ out(t).nodes = out(s).nodes
      BY <2>2 DEF Twin, SameTree
    <3> HIDE DEF out, p
    <3> QED BY <2>3, <3>1, TwinsLook
  <2>5. new(s) \in Seq(NodeIds) /\ new(t) = new(s)
    <3> DEFINE at == op.at
               i == id
               is == ids(s)
    <3>1. at \in Nat \cup {None} /\ i \in NodeIds /\ is \in Seq(NodeIds) /\ IsInjective(is) /\ i \notin ToSet(is)
      BY <2>3
    <3> HIDE DEF at, i, is
    <3>2. InsertAt(is, Slot(is, at), i) \in Seq(NodeIds)
      BY <3>1, SiblingAdded
    <3>3. new(s) \in Seq(NodeIds)
      BY <3>2 DEF at, i, is
    <3> HIDE DEF ids
    <3> QED BY <2>4, <3>3
  <2> HIDE DEF new, refused, out, id, p
  <2>6. back(s) \in Stores /\ back(t) \in Stores
    <3> DEFINE l == new(s)
               x == out(s)
               y == out(t)
    <3>1. p \in DOMAIN x.nodes \cup {None} /\ p \in DOMAIN y.nodes \cup {None} /\ l \in Seq(NodeIds)
          /\ x \in Stores /\ y \in Stores
      BY <2>1, <2>2, <2>3, <2>4, <2>5
    <3> HIDE DEF l, x, y
    <3>2. Relink(x, p, l) \in Stores /\ Relink(y, p, l) \in Stores
      BY <3>1, Relinked
    <3> QED BY <2>5, <3>2 DEF l, x, y
  <2>7. Twin(back(s), back(t))
    BY <2>2, <2>5, TwinsRelinked
  <2> HIDE DEF back
  <2> DEFINE x == back(s)
             y == back(t)
             nodes == [x.nodes EXCEPT ![id].parent = p]
  <2>8. moved(s) = [x EXCEPT !.nodes = nodes]
    BY <2>6 DEF Stores
  <2>9. moved(t) = [y EXCEPT !.nodes = nodes]
    <3>1. moved(t) = [y EXCEPT !.nodes = [y.nodes EXCEPT ![id].parent = p]]
      BY <2>6 DEF Stores
    <3>2. [y.nodes EXCEPT ![id].parent = p] = nodes
      BY <2>7 DEF Twin, SameTree
    <3> HIDE DEF nodes, moved, y
    <3> QED BY <3>1, <3>2
  <2>10. Twin([x EXCEPT !.nodes = nodes], [y EXCEPT !.nodes = nodes])
    <3> HIDE DEF x, y, nodes
    <3> QED BY <2>6, <2>7, TwinsRenoded DEF x, y
  <2> HIDE DEF nodes, moved
  <2>11. Twin(moved(s), moved(t))
    BY <2>8, <2>9, <2>10
  <2>12. move_node(s, op) = Done(moved(s)) /\ move_node(t, op) = Done(moved(t))
    BY <1>1, <1>3, <1>5
  <2> QED BY <2>11, <2>12, FollowsEither
<1> QED BY <1>4, <1>5

\* A new model.
LEMMA CreateModelFollows ==
  ASSUME NEW s \in Stores, NEW t \in Stores, Twin(s, t), NEW op
  PROVE  Follows(create_model(s, op), create_model(t, op))
<1> DEFINE id == op.id
           m == NewModel(op.count)
           refused(u) == id \in u.usedModels \/ Cardinality(DOMAIN u.models) >= MaxModels
           made(u) == [u EXCEPT !.models = Put(@, id, m), !.usedModels = @ \cup {id}]
<1>1. ASSUME NEW u PROVE create_model(u, op) = IF refused(u) THEN Failed(u) ELSE Done(made(u))
  BY DEF create_model
<1>2. /\ t.nodes = s.nodes /\ t.roots = s.roots /\ t.models = s.models
      /\ t.used \subseteq s.used /\ t.usedModels \subseteq s.usedModels
  BY DEF Twin, SameTree
<1>3. refused(t) => refused(s)
  BY <1>2
<1> HIDE DEF id, m, refused
<1>4. ASSUME NEW u \in Stores
      PROVE  /\ made(u).nodes = u.nodes /\ made(u).roots = u.roots /\ made(u).used = u.used
             /\ made(u).models = Put(u.models, id, m) /\ made(u).usedModels = u.usedModels \cup {id}
  BY DEF Stores
<1> HIDE DEF made
<1> DEFINE models == Put(s.models, id, m)
<1>5. DOMAIN models = DOMAIN s.models \cup {id} /\ DOMAIN s.models \subseteq t.usedModels
  BY DEF Twin, Put
<1> HIDE DEF models
<1>6. /\ made(s).nodes = s.nodes /\ made(s).roots = s.roots /\ made(s).used = s.used
      /\ made(s).models = models /\ made(s).usedModels = s.usedModels \cup {id}
  BY <1>4 DEF models
<1>7. /\ made(t).nodes = t.nodes /\ made(t).roots = t.roots /\ made(t).used = t.used
      /\ made(t).models = models /\ made(t).usedModels = t.usedModels \cup {id}
  BY <1>2, <1>4 DEF models
<1>8. Twin(made(s), made(t))
  BY <1>2, <1>5, <1>6, <1>7 DEF Twin, SameTree
<1> QED BY <1>1, <1>3, <1>8, FollowsEither

\* An operation on a model both have.
LEMMA OnModelFollows ==
  ASSUME NEW s \in Stores, NEW t \in Stores, Twin(s, t), NEW op
  PROVE  Follows(OnModel(s, op), OnModel(t, op))
<1> DEFINE id == op.id
           r == Changed(s.models[id], op)
           models == [s.models EXCEPT ![id] = r.model]
           after(u) == [u EXCEPT !.models = models]
<1>1. /\ t.nodes = s.nodes /\ t.roots = s.roots /\ t.models = s.models
      /\ t.used \subseteq s.used /\ t.usedModels \subseteq s.usedModels
  BY DEF Twin, SameTree
<1>2. CASE id \notin DOMAIN s.models
  <2>1. OnModel(s, op) = Failed(s)
    BY <1>2 DEF OnModel
  <2> QED BY <2>1, FollowsEither
<1>3. CASE id \in DOMAIN s.models
  <2>1. OnModel(s, op) = [ok |-> r.ok, store |-> after(s)]
    BY <1>3 DEF OnModel, Stores
  <2>2. OnModel(t, op) = [ok |-> r.ok, store |-> after(t)]
    <3>1. Changed(t.models[id], op) = r /\ id \in DOMAIN t.models
      BY <1>1, <1>3
    <3> HIDE DEF r
    <3>2. OnModel(t, op) = [ok |-> r.ok, store |-> [t EXCEPT !.models[id] = r.model]]
      BY <3>1 DEF OnModel
    <3>3. [t EXCEPT !.models[id] = r.model] = after(t)
      BY <1>1 DEF Stores
    <3> HIDE DEF after, models
    <3> QED BY <3>2, <3>3
  <2> HIDE DEF r
  <2>3. DOMAIN models = DOMAIN s.models /\ DOMAIN s.models \subseteq t.usedModels
    BY DEF Twin
  <2> HIDE DEF models
  <2>4. ASSUME NEW u \in Stores
        PROVE  /\ after(u).nodes = u.nodes /\ after(u).roots = u.roots /\ after(u).used = u.used
               /\ after(u).models = models /\ after(u).usedModels = u.usedModels
    BY DEF Stores
  <2> HIDE DEF after
  <2>5. Twin(after(s), after(t))
    BY <1>1, <2>4, <2>3 DEF Twin, SameTree
  <2> QED BY <2>1, <2>2, <2>5 DEF Follows
<1> QED BY <1>2, <1>3

\* What the server accepts, a twin accepts, and they are twins after it.
LEMMA ApplyFollows ==
  ASSUME NEW s, TreeOK(s), NEW t, TreeOK(t), Twin(s, t), NEW op \in Operations
  PROVE  Follows(apply(s, op), apply(t, op))
<1>0. s \in Stores /\ t \in Stores
  BY DEF TreeOK, Counted
<1>1. CASE op.kind \in {"create_node", "move_node"}
  <2>1. op.id \in NodeIds /\ op.parent \in Parents /\ op.at \in Nat \cup {None}
    BY <1>1 DEF Operations, NodeOps, ModelOpsTyped, Indices
  <2>2. /\ Follows(create_node(s, op), create_node(t, op)) /\ Follows(move_node(s, op), move_node(t, op))
    BY <2>1, CreateNodeFollows, MoveNodeFollows
  <2> QED BY <1>1, <2>2 DEF apply
<1>2. CASE op.kind = "delete_node"
  <2>1. Follows(delete_node(s, op), delete_node(t, op))
    BY DeleteNodeFollows
  <2> QED BY <1>2, <2>1 DEF apply
<1>3. CASE op.kind \in {"set_property", "clear_property"}
  <2>1. /\ Follows(set_property(s, op), set_property(t, op))
        /\ Follows(clear_property(s, op), clear_property(t, op))
    BY <1>0, SetPropertyFollows
  <2> QED BY <1>3, <2>1 DEF apply
<1>4. CASE op.kind = "batch_property_set"
  <2>1. op.id \in NodeIds /\ op.values \in Seq(Values)
    BY <1>4 DEF Operations, NodeOps, ModelOpsTyped
  <2>2. Follows(batch_property_set(s, op), batch_property_set(t, op))
    BY <2>1, BatchFollows
  <2> QED BY <1>4, <2>2 DEF apply
<1>5. CASE op.kind = "reorder_children"
  <2>1. Follows(reorder_children(s, op), reorder_children(t, op))
    BY <1>0, ReorderFollows
  <2> QED BY <1>5, <2>1 DEF apply
<1>6. CASE op.kind = "create_model"
  <2>1. Follows(create_model(s, op), create_model(t, op))
    BY <1>0, CreateModelFollows
  <2> QED BY <1>6, <2>1 DEF apply
<1>7. CASE op.kind \in {"model_insert", "model_delete", "model_update", "model_reset_range"}
  <2>1. Follows(OnModel(s, op), OnModel(t, op))
    BY <1>0, OnModelFollows
  <2>2. apply(s, op) = OnModel(s, op) /\ apply(t, op) = OnModel(t, op)
    BY <1>7 DEF apply
  <2> QED BY <2>1, <2>2
<1> QED BY <1>1, <1>2, <1>3, <1>4, <1>5, <1>6, <1>7 DEF Operations, NodeOps, ModelOpsTyped

-----------------------------------------------------------------------------
(* What the wire carries *)

\* No index of the operation is the one that says none on the wire.
Sayable(op) == op.kind \in {"create_node", "move_node", "model_update"} => op.at # WireMax

\* A delete by range, or of nothing, is the same without an index as with the first one.
LEMMA DeleteSaid ==
  ASSUME NEW m, NEW at \in Indices, NEW count \in Nat, NEW ids, Len(ids) \in Nat
  PROVE  delete_items(m, IF count > 0 THEN (IF at = None THEN 0 ELSE at) ELSE None, count, ids)
           = delete_items(m, at, count, ids)
<1> USE DEF None
<1> DEFINE said == IF count > 0 THEN (IF at = None THEN 0 ELSE at) ELSE None
<1>1. CASE count > 0
  <2> DEFINE from(x) == IF x = None THEN 0 ELSE x
             rest(f) ==
               LET inRange == {i \in DOMAIN m.items : f <= i /\ i < f + count}
               IN  CASE Len(ids) > MaxBatch \/ (count > 0 /\ ids # <<>>) -> Refuse(m)
                     [] count = 0 /\ Len(ids) \in 1 .. MaxBatch -> Accept(FoldLeft(DeleteIdentity, m, ids))
                     [] count > 0 /\ ids = <<>> /\ f + count > m.count -> Refuse(m)
                     [] count > 0 /\ ids = <<>> /\ f + count <= m.count ->
                           Accept([shift_cached_indices(Forget(m, inRange), f + count, -count)
                                      EXCEPT !.count = @ - count])
                     [] OTHER -> Accept(m)
  <2>1. ASSUME NEW x PROVE delete_items(m, x, count, ids) = rest(from(x))
    BY DEF delete_items
  <2>2. from(said) = from(at)
    BY <1>1 DEF Indices
  <2> HIDE DEF rest, from, said
  <2>3. delete_items(m, said, count, ids) = delete_items(m, at, count, ids)
    BY <2>1, <2>2
  <2> QED BY <2>3 DEF said
<1>2. CASE ~(count > 0)
  <2>1. ASSUME NEW x
        PROVE  delete_items(m, x, count, ids) =
                 IF Len(ids) > MaxBatch THEN Refuse(m)
                 ELSE IF Len(ids) \in 1 .. MaxBatch THEN Accept(FoldLeft(DeleteIdentity, m, ids)) ELSE Accept(m)
    <3>0. count = 0
      BY <1>2
    <3>1. CASE Len(ids) > MaxBatch
      <4>1. Len(ids) \notin 1 .. MaxBatch
        BY <3>1, ModelAssumption
      <4> QED BY <3>0, <3>1, <4>1 DEF delete_items
    <3>2. CASE ~(Len(ids) > MaxBatch) /\ Len(ids) \in 1 .. MaxBatch
      BY <3>0, <3>2 DEF delete_items
    <3>3. CASE ~(Len(ids) > MaxBatch) /\ Len(ids) \notin 1 .. MaxBatch
      BY <3>0, <3>3 DEF delete_items
    <3> QED BY <3>1, <3>2, <3>3
  <2> HIDE DEF said
  <2>2. delete_items(m, said, count, ids) = delete_items(m, at, count, ids)
    BY <2>1
  <2> QED BY <2>2 DEF said
<1> QED BY <1>1, <1>2

\* An operation that can be said does from the wire what it does here.
LEMMA SaidIsDone ==
  ASSUME NEW op \in Operations, Sayable(op), NEW s
  PROVE  apply(s, Delivered(op)) = apply(s, op)
<1> USE DEF None
<1>1. CASE op.kind = "create_node"
  <2>1. op \in [kind : {"create_node"}, id : {op.id}, parent : {op.parent}, at : {op.at}, value : {op.value}]
        /\ op.parent \in Parents /\ op.at # WireMax
    BY <1>1 DEF Operations, NodeOps, ModelOpsTyped, Sayable
  <2> DEFINE w == [op EXCEPT !.at = WireIndex(@), !.parent = IF @ = None THEN 0 ELSE @]
             d == [w EXCEPT !.at = IF @ = WireMax THEN None ELSE @, !.parent = IF @ = 0 THEN None ELSE @]
  <2>2. OnWire(op) = w /\ w.kind = "create_node"
    BY <1>1, <2>1 DEF OnWire
  <2>3. Delivered(op) = d
    BY <2>2 DEF Delivered, FromWire
  <2>4. (IF WireIndex(op.at) = WireMax THEN None ELSE WireIndex(op.at)) = op.at
    BY <2>1 DEF WireIndex
  <2>5. (IF (IF op.parent = None THEN 0 ELSE op.parent) = 0 THEN None ELSE
            (IF op.parent = None THEN 0 ELSE op.parent)) = op.parent
    BY <2>1, TreeAssumption DEF Parents
  <2>6. d \in [kind : {"create_node"}, id : {op.id}, parent : {op.parent}, at : {op.at}, value : {op.value}]
    BY <2>1, <2>4, <2>5
  <2> HIDE DEF d
  <2>7. d = op
    BY <2>1, <2>6
  <2> QED BY <2>3, <2>7
<1>2. CASE op.kind = "move_node"
  <2>1. op \in [kind : {"move_node"}, id : {op.id}, parent : {op.parent}, at : {op.at}]
        /\ op.parent \in Parents /\ op.at # WireMax
    BY <1>2 DEF Operations, NodeOps, ModelOpsTyped, Sayable
  <2> DEFINE w == [op EXCEPT !.at = WireIndex(@), !.parent = IF @ = None THEN 0 ELSE @]
             d == [w EXCEPT !.at = IF @ = WireMax THEN None ELSE @, !.parent = IF @ = 0 THEN None ELSE @]
  <2>2. OnWire(op) = w /\ w.kind = "move_node"
    BY <1>2, <2>1 DEF OnWire
  <2>3. Delivered(op) = d
    BY <2>2 DEF Delivered, FromWire
  <2>4. (IF WireIndex(op.at) = WireMax THEN None ELSE WireIndex(op.at)) = op.at
    BY <2>1 DEF WireIndex
  <2>5. (IF (IF op.parent = None THEN 0 ELSE op.parent) = 0 THEN None ELSE
            (IF op.parent = None THEN 0 ELSE op.parent)) = op.parent
    BY <2>1, TreeAssumption DEF Parents
  <2>6. d \in [kind : {"move_node"}, id : {op.id}, parent : {op.parent}, at : {op.at}]
    BY <2>1, <2>4, <2>5
  <2> HIDE DEF d
  <2>7. d = op
    BY <2>1, <2>6
  <2> QED BY <2>3, <2>7
<1>3. CASE op.kind = "model_update"
  <2>1. op \in [kind : {"model_update"}, id : {op.id}, at : {op.at}, items : {op.items}] /\ op.at # WireMax
    BY <1>3 DEF Operations, NodeOps, ModelOpsTyped, Sayable
  <2> DEFINE w == [op EXCEPT !.at = WireIndex(@)]
             d == [w EXCEPT !.at = IF @ = WireMax THEN None ELSE @]
  <2>2. OnWire(op) = w /\ w.kind = "model_update"
    BY <1>3, <2>1 DEF OnWire
  <2>3. Delivered(op) = d
    BY <2>2 DEF Delivered, FromWire, ModelFromWire
  <2>4. (IF WireIndex(op.at) = WireMax THEN None ELSE WireIndex(op.at)) = op.at
    BY <2>1 DEF WireIndex
  <2>5. d \in [kind : {"model_update"}, id : {op.id}, at : {op.at}, items : {op.items}]
    BY <2>1, <2>4
  <2> HIDE DEF d
  <2>6. d = op
    BY <2>1, <2>5
  <2> QED BY <2>3, <2>6
<1>4. CASE op.kind = "model_delete"
  <2>1. op \in [kind : {"model_delete"}, id : {op.id}, at : {op.at}, count : {op.count}, ids : {op.ids}]
        /\ op.at \in Indices /\ op.count \in Nat /\ Len(op.ids) \in Nat
    BY <1>4 DEF Operations, NodeOps, ModelOpsTyped
  <2> DEFINE w == [op EXCEPT !.at = IF @ = None THEN 0 ELSE @]
             d == [w EXCEPT !.at = IF w.count > 0 THEN @ ELSE None]
             said == IF op.count > 0 THEN (IF op.at = None THEN 0 ELSE op.at) ELSE None
  <2>2. OnWire(op) = w /\ w.kind = "model_delete"
    BY <1>4, <2>1 DEF OnWire
  <2>3. Delivered(op) = d
    BY <2>2 DEF Delivered, FromWire, ModelFromWire
  <2>4. d.kind = op.kind /\ d.id = op.id /\ d.at = said /\ d.count = op.count /\ d.ids = op.ids
    BY <2>1
  <2>5. ASSUME NEW m PROVE Changed(m, d) = Changed(m, op)
    <3> DEFINE at == op.at
               count == op.count
               ids == op.ids
    <3>1. Changed(m, d) = delete_items(m, IF count > 0 THEN (IF at = None THEN 0 ELSE at) ELSE None, count, ids)
      <4> HIDE DEF d
      <4> QED BY <1>4, <2>4 DEF Changed
    <3>2. Changed(m, op) = delete_items(m, at, count, ids)
      BY <1>4 DEF Changed
    <3>3. at \in Indices /\ count \in Nat /\ Len(ids) \in Nat
      BY <2>1
    <3> HIDE DEF at, count, ids, d
    <3> QED BY <3>1, <3>2, <3>3, DeleteSaid
  <2> HIDE DEF d
  <2>6. apply(s, d) = OnModel(s, d) /\ apply(s, op) = OnModel(s, op)
    BY <1>4, <2>4 DEF apply
  <2>7. Changed(s.models[op.id], d) = Changed(s.models[op.id], op)
    BY <2>5
  <2>8. OnModel(s, d) = OnModel(s, op)
    BY <2>4, <2>7 DEF OnModel
  <2> QED BY <2>3, <2>6, <2>8
<1>5. CASE op.kind \notin {"create_node", "move_node", "model_update", "model_delete"}
  <2>1. OnWire(op) = op
    BY <1>5 DEF OnWire
  <2>2. Delivered(op) = op
    BY <1>5, <2>1 DEF Delivered, FromWire, ModelFromWire
  <2> QED BY <2>2
<1> QED BY <1>1, <1>2, <1>3, <1>4, <1>5

\* Operations that are all accepted, one after the other.
Accepts(e, s, ops) ==
  /\ e[0] = s
  /\ \A k \in 1..Len(ops) : apply(e[k - 1], ops[k]).ok /\ e[k] = apply(e[k - 1], ops[k]).store

\* A closure that gives up on a refusal and ends well had every operation accepted, and wrote
\* down these operations.
LEMMA ClosureAccepts ==
  ASSUME ~Swallows, TreeOK(store), NEW ops \in Seq(Operations), Closure(ops).ok
  PROVE  /\ Closure(ops).written = ops /\ Len(ops) <= MaxOps
         /\ \E e : Accepts(e, store, ops) /\ Closure(ops).staged = e[Len(ops)]
<1> DEFINE n == Len(ops)
<1>1. n \in Nat /\ DOMAIN ops = 1..n /\ \A k \in 1..n : ops[k] \in Operations
  OBVIOUS
<1>2. PICK c : Attempts(c, ops) /\ Closure(ops) = c[n]
  BY ClosureAttempts
<1>3. ASSUME NEW k \in 1..n
      PROVE  /\ k \in 0..n /\ k - 1 \in 0..n /\ c[k] \in Transactions /\ c[k - 1] \in Transactions
             /\ c[k].ok => /\ c[k - 1].ok /\ Len(c[k - 1].written) < MaxOps
                           /\ apply(c[k - 1].staged, ops[k]).ok
                           /\ c[k].staged = apply(c[k - 1].staged, ops[k]).store
                           /\ c[k].written = Append(c[k - 1].written, ops[k])
  <2>1. k \in 0..n /\ k - 1 \in 0..n
    BY <1>1
  <2>2. c[k] = Attempt(c[k - 1], ops[k]) /\ c[k] \in Transactions /\ c[k - 1] \in Transactions
    BY <1>2, <2>1 DEF Attempts
  <2> DEFINE a == c[k - 1]
             b == c[k]
             o == ops[k]
  <2>3. b = Attempt(a, o) /\ a \in Transactions /\ o \in Operations
    BY <1>1, <2>2
  <2> HIDE DEF a, b, o
  <2>4. b.ok => /\ a.ok /\ Len(a.written) < MaxOps /\ apply(a.staged, o).ok
                /\ b.staged = apply(a.staged, o).store /\ b.written = Append(a.written, o)
    BY <2>3, AttemptOK
  <2> QED BY <2>1, <2>2, <2>4 DEF a, b, o
<1>4. \A k \in 0..n : c[k].ok
  <2> DEFINE S == {j \in 0..n : c[n - j].ok}
  <2>1. 0 \in S
    BY <1>1, <1>2
  <2>2. ASSUME NEW j \in 1..n, j - 1 \in S PROVE j \in S
    <3> DEFINE k == n - (j - 1)
    <3>1. k \in 1..n /\ k - 1 = n - j /\ j \in 0..n
      BY <1>1
    <3>2. c[k].ok
      BY <2>2
    <3> HIDE DEF k
    <3>3. c[k - 1].ok
      BY <1>3, <3>1, <3>2
    <3> QED BY <3>1, <3>3
  <2>3. \A j \in 0..n : j \in S
    <3> HIDE DEF S, n
    <3> QED BY <1>1, <2>1, <2>2, Counting
  <2>4. ASSUME NEW k \in 0..n PROVE c[k].ok
    <3>1. n - k \in 0..n /\ n - (n - k) = k
      BY <1>1
    <3> QED BY <2>3, <3>1
  <2> QED BY <2>4
<1>5. ASSUME NEW k \in 1..n
      PROVE  /\ Len(c[k - 1].written) < MaxOps /\ apply(c[k - 1].staged, ops[k]).ok
             /\ c[k].staged = apply(c[k - 1].staged, ops[k]).store
             /\ c[k].written = Append(c[k - 1].written, ops[k])
  BY <1>3, <1>4
<1> DEFINE w(k) == c[k].written
           S == {k \in 0..n : Len(w(k)) = k /\ \A i \in 1..k : w(k)[i] = ops[i]}
<1>6. \A k \in 0..n : w(k) \in Seq(Operations)
  BY <1>2 DEF Attempts, Transactions
<1>7. 0 \in S
  BY <1>1, <1>2 DEF Attempts, UiTransaction
<1>8. ASSUME NEW k \in 1..n, k - 1 \in S PROVE k \in S
  <2>1. k \in 0..n /\ k - 1 \in 0..n /\ w(k - 1) \in Seq(Operations)
    BY <1>1, <1>6
  <2>2. Len(w(k - 1)) = k - 1 /\ \A i \in 1..(k - 1) : w(k - 1)[i] = ops[i]
    BY <1>8
  <2>3. w(k) = Append(w(k - 1), ops[k]) /\ ops[k] \in Operations
    BY <1>1, <1>5
  <2> HIDE DEF w
  <2>4. Len(w(k)) = k /\ \A i \in 1..k : w(k)[i] = ops[i]
    BY <2>1, <2>2, <2>3
  <2> QED BY <2>1, <2>4
<1>9. \A k \in 0..n : k \in S
  <2> HIDE DEF S, n, w
  <2> QED BY <1>1, <1>7, <1>8, Counting
<1>10. w(n) = ops
  <2>1. n \in 0..n
    BY <1>1
  <2>2. w(n) \in Seq(Operations) /\ Len(w(n)) = n /\ \A i \in 1..n : w(n)[i] = ops[i]
    BY <1>6, <1>9, <2>1
  <2> HIDE DEF w
  <2> QED BY <2>2
<1>11. n <= MaxOps
  <2>1. CASE n = 0
    BY <2>1, TreeAssumption
  <2>2. CASE n # 0
    <3>1. n \in 1..n /\ n - 1 \in 0..n
      BY <1>1, <2>2
    <3>2. Len(w(n - 1)) = n - 1 /\ Len(w(n - 1)) < MaxOps
      BY <1>5, <1>9, <3>1
    <3> HIDE DEF w
    <3> QED BY <1>1, <3>2, TreeAssumption
  <2> QED BY <2>1, <2>2
<1> DEFINE e == [k \in 0..n |-> c[k].staged]
<1>12. e[0] = store /\ e[n] = Closure(ops).staged
  BY <1>1, <1>2 DEF Attempts, UiTransaction
<1>13. ASSUME NEW k \in 1..n PROVE apply(e[k - 1], ops[k]).ok /\ e[k] = apply(e[k - 1], ops[k]).store
  <2>1. e[k] = c[k].staged /\ e[k - 1] = c[k - 1].staged
    BY <1>3
  <2> HIDE DEF e
  <2> QED BY <1>5, <2>1
<1> HIDE DEF e
<1>14. Accepts(e, store, ops)
  BY <1>12, <1>13 DEF Accepts
<1> QED BY <1>2, <1>10, <1>11, <1>12, <1>14

\* So had a staged application that was accepted.
LEMMA StagedAccepts ==
  ASSUME NEW start, TreeOK(start), NEW ops \in Seq(Operations), apply_staged(start, ops).ok
  PROVE  /\ Len(ops) <= MaxOps
         /\ \E e : Accepts(e, start, ops) /\ apply_staged(start, ops).store = e[Len(ops)]
<1> DEFINE n == Len(ops)
           got == apply_staged(start, ops)
<1>1. n \in Nat
  OBVIOUS
<1>2. PICK c : Takes(c, start, ops) /\ got = IF n > MaxOps \/ ~c[n].ok THEN Failed(start) ELSE c[n]
  BY StagedTakes
<1>3. got.ok
  OBVIOUS
<1> HIDE DEF got
<1>4. n <= MaxOps /\ c[n].ok /\ got = c[n]
  <2>1. ~Failed(start).ok
    BY DEF Failed
  <2> QED BY <1>1, <1>2, <1>3, <2>1, TreeAssumption
<1>5. ASSUME NEW k \in 1..n
      PROVE  /\ k \in 0..n /\ k - 1 \in 0..n
             /\ c[k].ok => c[k - 1].ok /\ c[k] = apply(c[k - 1].store, ops[k])
  <2>1. k \in 0..n /\ k - 1 \in 0..n
    BY <1>1
  <2>2. c[k] = IF c[k - 1].ok THEN apply(c[k - 1].store, ops[k]) ELSE c[k - 1]
    BY <1>2 DEF Takes
  <2> QED BY <2>1, <2>2
<1>6. \A k \in 0..n : c[k].ok
  <2> DEFINE S == {j \in 0..n : c[n - j].ok}
  <2>1. 0 \in S
    BY <1>1, <1>4
  <2>2. ASSUME NEW j \in 1..n, j - 1 \in S PROVE j \in S
    <3> DEFINE k == n - (j - 1)
    <3>1. k \in 1..n /\ k - 1 = n - j /\ j \in 0..n
      BY <1>1
    <3>2. c[k].ok
      BY <2>2
    <3> HIDE DEF k
    <3>3. c[k - 1].ok
      BY <1>5, <3>1, <3>2
    <3> QED BY <3>1, <3>3
  <2>3. \A j \in 0..n : j \in S
    <3> HIDE DEF S, n
    <3> QED BY <1>1, <2>1, <2>2, Counting
  <2>4. ASSUME NEW k \in 0..n PROVE c[k].ok
    <3>1. n - k \in 0..n /\ n - (n - k) = k
      BY <1>1
    <3> QED BY <2>3, <3>1
  <2> QED BY <2>4
<1> DEFINE e == [k \in 0..n |-> c[k].store]
<1>7. e[0] = start /\ e[n] = got.store
  BY <1>1, <1>2, <1>4 DEF Takes, Done
<1>8. ASSUME NEW k \in 1..n PROVE apply(e[k - 1], ops[k]).ok /\ e[k] = apply(e[k - 1], ops[k]).store
  <2>1. e[k] = c[k].store /\ e[k - 1] = c[k - 1].store
    BY <1>5
  <2>2. c[k].ok /\ c[k] = apply(c[k - 1].store, ops[k])
    BY <1>5, <1>6
  <2> HIDE DEF e
  <2> QED BY <2>1, <2>2
<1> HIDE DEF e
<1>9. Accepts(e, start, ops)
  BY <1>7, <1>8 DEF Accepts
<1> QED BY <1>4, <1>7, <1>9 DEF got

\* A twin takes operations of the same effect, all of them, and stays a twin.
LEMMA TwinTakes ==
  ASSUME NEW s, TreeOK(s), NEW t, TreeOK(t), Twin(s, t), NEW ops \in Seq(Operations), Len(ops) <= MaxOps,
         NEW e, Accepts(e, s, ops), NEW said \in Seq(Operations), Len(said) = Len(ops),
         \A k \in 1..Len(ops) : \A x : apply(x, said[k]) = apply(x, ops[k])
  PROVE  LET got == apply_staged(t, said) IN
         got.ok /\ TreeOK(e[Len(ops)]) /\ TreeOK(got.store) /\ Twin(e[Len(ops)], got.store)
<1> DEFINE n == Len(ops)
           got == apply_staged(t, said)
<1>1. n \in Nat /\ \A k \in 1..n : ops[k] \in Operations
  OBVIOUS
<1>2. PICK d : Takes(d, t, said) /\ got = IF n > MaxOps \/ ~d[n].ok THEN Failed(t) ELSE d[n]
  BY StagedTakes
<1> HIDE DEF got
<1> DEFINE S == {k \in 0..n : TreeOK(e[k]) /\ d[k].ok /\ Twin(e[k], d[k].store)}
<1>3. 0 \in S
  BY <1>1, <1>2 DEF Takes, Accepts, Done
<1>4. \A k \in 0..n : d[k] \in Results /\ TreeOK(d[k].store)
  BY <1>2, GoodIsOK DEF Takes, Results
<1>5. ASSUME NEW k \in 1..n, k - 1 \in S PROVE k \in S
  <2> DEFINE a == e[k - 1]
             b == d[k - 1].store
             op == ops[k]
  <2>1. k \in 0..n /\ k - 1 \in 0..n /\ op \in Operations
    BY <1>1
  <2>2. TreeOK(a) /\ d[k - 1].ok /\ Twin(a, b) /\ TreeOK(b)
    BY <1>4, <1>5, <2>1
  <2>3. apply(a, op).ok /\ e[k] = apply(a, op).store
    BY DEF Accepts
  <2>4. d[k] = apply(b, op)
    <3>1. d[k] = apply(b, said[k])
      BY <1>2, <2>2 DEF Takes
    <3> HIDE DEF b
    <3> QED BY <3>1
  <2> HIDE DEF a, b, op
  <2>5. Follows(apply(a, op), apply(b, op))
    BY <2>1, <2>2, ApplyFollows
  <2>6. Applied(apply(a, op), a, op)
    BY <2>1, <2>2, ApplyOK
  <2>7. TreeOK(e[k]) /\ d[k].ok /\ Twin(e[k], d[k].store)
    BY <2>3, <2>4, <2>5, <2>6 DEF Follows, Applied
  <2> QED BY <2>1, <2>7
<1>6. n \in S
  <2>1. n \in 0..n
    BY <1>1
  <2> HIDE DEF S, n
  <2> QED BY <1>1, <1>3, <1>5, <2>1, Counting
<1>7. got = d[n]
  BY <1>1, <1>2, <1>6, TreeAssumption
<1>8. n \in 0..n
  BY <1>1
<1> QED BY <1>4, <1>6, <1>7, <1>8 DEF got

\* What has come over the wire can be said again.
LEMMA DeliveredSayable ==
  ASSUME NEW op \in Operations
  PROVE  Sayable(Delivered(op))
<1> USE DEF None
<1>0. None # WireMax
  BY TreeAssumption
<1>1. CASE op.kind \in {"create_node", "move_node"}
  <2> DEFINE w == [op EXCEPT !.at = WireIndex(@), !.parent = IF @ = None THEN 0 ELSE @]
             d == [w EXCEPT !.at = IF @ = WireMax THEN None ELSE @, !.parent = IF @ = 0 THEN None ELSE @]
  <2>1. OnWire(op) = w /\ w.kind = op.kind
    BY <1>1 DEF OnWire, Operations, NodeOps, ModelOpsTyped
  <2>2. Delivered(op) = d
    BY <1>1, <2>1 DEF Delivered, FromWire
  <2>3. d.at # WireMax
    <3>1. CASE op.kind = "create_node"
      BY <1>0, <3>1 DEF Operations, NodeOps, ModelOpsTyped
    <3>2. CASE op.kind = "move_node"
      BY <1>0, <3>2 DEF Operations, NodeOps, ModelOpsTyped
    <3> QED BY <1>1, <3>1, <3>2
  <2> QED BY <2>2, <2>3 DEF Sayable
<1>2. CASE op.kind = "model_update"
  <2> DEFINE w == [op EXCEPT !.at = WireIndex(@)]
             d == [w EXCEPT !.at = IF @ = WireMax THEN None ELSE @]
  <2>1. op \in [kind : {"model_update"}, id : ModelIds, at : Indices, items : Seq(ItemIds)]
    BY <1>2 DEF Operations, NodeOps, ModelOpsTyped
  <2>2. OnWire(op) = w /\ w.kind = "model_update"
    BY <1>2, <2>1 DEF OnWire
  <2>3. Delivered(op) = d
    BY <2>2 DEF Delivered, FromWire, ModelFromWire
  <2>4. d.at # WireMax
    BY <1>0, <2>1
  <2> QED BY <2>3, <2>4 DEF Sayable
<1>3. CASE op.kind = "model_delete"
  <2>1. op \in [kind : {"model_delete"}, id : ModelIds, at : Indices, count : Nat, ids : Seq(ItemIds)]
    BY <1>3 DEF Operations, NodeOps, ModelOpsTyped
  <2> DEFINE w == [op EXCEPT !.at = IF @ = None THEN 0 ELSE @]
             d == [w EXCEPT !.at = IF w.count > 0 THEN @ ELSE None]
  <2>2. OnWire(op) = w /\ w.kind = "model_delete"
    BY <1>3, <2>1 DEF OnWire
  <2>3. Delivered(op) = d
    BY <2>2 DEF Delivered, FromWire, ModelFromWire
  <2>4. d.kind = "model_delete"
    BY <2>1
  <2> QED BY <2>3, <2>4 DEF Sayable
<1>4. CASE op.kind \notin {"create_node", "move_node", "model_update", "model_delete"}
  <2>1. OnWire(op) = op
    BY <1>4 DEF OnWire
  <2>2. Delivered(op) = op
    BY <1>4, <2>1 DEF Delivered, FromWire, ModelFromWire
  <2> QED BY <1>4, <2>2 DEF Sayable
<1> QED BY <1>1, <1>2, <1>3, <1>4

\* A transaction's operations from the wire.
LEMMA AllDelivered ==
  ASSUME NEW ops \in Seq(Operations)
  PROVE  /\ DeliveredAll(ops) \in Seq(Operations) /\ Len(DeliveredAll(ops)) = Len(ops)
         /\ \A k \in 1..Len(ops) : DeliveredAll(ops)[k] = Delivered(ops[k])
<1> DEFINE d == DeliveredAll(ops)
           n == Len(ops)
<1>1. n \in Nat /\ DOMAIN ops = 1..n /\ \A k \in 1..n : ops[k] \in Operations
  OBVIOUS
<1>2. d = [k \in 1..n |-> Delivered(ops[k])]
  BY <1>1 DEF DeliveredAll
<1>3. \A k \in 1..n : Delivered(ops[k]) \in Operations
  BY <1>1, DeliveredOK
<1> HIDE DEF d, n
<1>4. d \in Seq(Operations) /\ Len(d) = n /\ \A k \in 1..n : d[k] = Delivered(ops[k])
  BY <1>1, <1>2, <1>3
<1> QED BY <1>4 DEF d, n

\* Transactions of which every operation can be said.
Sayings == {ops \in Seq(Operations) : \A k \in 1..Len(ops) : Sayable(ops[k])}

\* What the server accepted, a twin takes from the wire.
LEMMA TwinHears ==
  ASSUME NEW s, TreeOK(s), NEW t, TreeOK(t), Twin(s, t), NEW ops \in Sayings, Len(ops) <= MaxOps,
         NEW e, Accepts(e, s, ops)
  PROVE  LET got == apply_staged(t, DeliveredAll(ops)) IN
         got.ok /\ TreeOK(got.store) /\ Twin(e[Len(ops)], got.store)
<1> DEFINE said == DeliveredAll(ops)
<1>1. ops \in Seq(Operations) /\ \A k \in 1..Len(ops) : Sayable(ops[k]) /\ ops[k] \in Operations
  BY DEF Sayings
<1>2. said \in Seq(Operations) /\ Len(said) = Len(ops) /\ \A k \in 1..Len(ops) : said[k] = Delivered(ops[k])
  BY <1>1, AllDelivered
<1> HIDE DEF said
<1>3. ASSUME NEW k \in 1..Len(ops), NEW x PROVE apply(x, said[k]) = apply(x, ops[k])
  <2>1. apply(x, Delivered(ops[k])) = apply(x, ops[k])
    BY <1>1, SaidIsDone
  <2> QED BY <1>2, <2>1
<1>4. LET got == apply_staged(t, said) IN got.ok /\ TreeOK(got.store) /\ Twin(e[Len(ops)], got.store)
  BY <1>1, <1>2, <1>3, TwinTakes
<1> QED BY <1>4 DEF said

\* Accepted operations leave a store in order, and the identities of its models used.
LEMMA AcceptedOK ==
  ASSUME NEW s, TreeOK(s), Twin(s, s), NEW ops \in Seq(Operations), NEW e, Accepts(e, s, ops)
  PROVE  TreeOK(e[Len(ops)]) /\ Twin(e[Len(ops)], e[Len(ops)])
<1> DEFINE n == Len(ops)
           S == {k \in 0..n : TreeOK(e[k]) /\ Twin(e[k], e[k])}
<1>1. n \in Nat /\ \A k \in 1..n : ops[k] \in Operations
  OBVIOUS
<1>2. 0 \in S
  BY <1>1 DEF Accepts
<1>3. ASSUME NEW k \in 1..n, k - 1 \in S PROVE k \in S
  <2> DEFINE x == e[k - 1]
             op == ops[k]
             r == apply(x, op)
  <2>1. k \in 0..n /\ TreeOK(x) /\ Twin(x, x) /\ op \in Operations /\ e[k] = r.store /\ r.ok
    BY <1>1, <1>3 DEF Accepts
  <2> HIDE DEF x, op
  <2>2. Applied(r, x, op) /\ Follows(r, r)
    BY <2>1, ApplyOK, ApplyFollows
  <2> HIDE DEF r
  <2> QED BY <2>1, <2>2 DEF Applied, Follows
<1>4. n \in S
  <2>1. n \in 0..n
    BY <1>1
  <2> HIDE DEF S, n
  <2> QED BY <1>1, <1>2, <1>3, <2>1, Counting
<1> QED BY <1>4

\* A replica that follows is a twin of the committed store, whose live models' identities are used.
ReplicaInv ==
  /\ TreeOK(store) /\ Twin(store, store) /\ link # "diverged"
  /\ link = "following" => TreeOK(replica) /\ Twin(store, replica)

\* Clients come, go and come back, and closures give up on a refusal.
ReplicaSpec == TreeInit /\ [][TreeNext(Sayings)]_treeVars

\* What a snapshot gives back is a twin, with only the live identities used.
LEMMA RebuiltTwin ==
  ASSUME NEW s, TreeOK(s), Twin(s, s), NEW t, t = [s EXCEPT !.used = DOMAIN s.nodes, !.usedModels = DOMAIN s.models]
  PROVE  TreeOK(t) /\ Twin(s, t)
<1>1. s \in Stores /\ Counted(s) /\ Linked(s) /\ Referred(s) /\ \E r : Ranks(s, r)
  BY DEF TreeOK, Counted
<1>2. DOMAIN s.nodes \in SUBSET NodeIds /\ DOMAIN s.models \in SUBSET ModelIds
  BY <1>1, StoreParts
<1>3. /\ t \in Stores /\ t.nodes = s.nodes /\ t.roots = s.roots /\ t.models = s.models
      /\ t.used = DOMAIN s.nodes /\ t.usedModels = DOMAIN s.models
  BY <1>1, <1>2 DEF Stores
<1>4. Counted(t)
  BY <1>1, <1>3 DEF Counted
<1>5. Linked(t)
  <2>1. \A x : Siblings(t, x) = Siblings(s, x)
    BY <1>3 DEF Siblings
  <2> QED BY <1>1, <1>3, <2>1 DEF Linked
<1>6. Referred(t) /\ \E r : Ranks(t, r)
  BY <1>1, <1>3 DEF Referred, Ranks
<1>7. DOMAIN s.nodes \subseteq s.used
  BY <1>1 DEF Counted
<1>8. DOMAIN s.models \subseteq s.usedModels
  BY DEF Twin
<1> QED BY <1>3, <1>4, <1>5, <1>6, <1>7, <1>8 DEF TreeOK, Twin, SameTree

\* What a transaction of the server's does to the store, one that follows is sent.
LEMMA ReplicaHears ==
  ASSUME ReplicaInv, NEW ops \in Sayings, Len(ops) <= MaxOps, NEW e, Accepts(e, store, ops),
         store' = e[Len(ops)], apply_delivered_transaction(ops)
  PROVE  ReplicaInv'
<1>1. TreeOK(store) /\ Twin(store, store) /\ ops \in Seq(Operations)
  BY DEF ReplicaInv, Sayings
<1>2. TreeOK(store') /\ Twin(store', store')
  BY <1>1, AcceptedOK
<1>3. CASE link # "following"
  <2>1. link' = link
    BY <1>3 DEF apply_delivered_transaction
  <2> QED BY <1>2, <1>3, <2>1 DEF ReplicaInv
<1>4. CASE link = "following"
  <2> DEFINE got == apply_staged(replica, DeliveredAll(ops))
  <2>1. TreeOK(replica) /\ Twin(store, replica)
    BY <1>4 DEF ReplicaInv
  <2>2. got.ok /\ TreeOK(got.store) /\ Twin(store', got.store)
    BY <1>1, <2>1, TwinHears
  <2>3. replica' = got.store /\ link' = IF got.ok THEN link ELSE "diverged"
    BY <1>4 DEF apply_delivered_transaction
  <2> QED BY <1>2, <1>4, <2>2, <2>3 DEF ReplicaInv
<1> QED BY <1>3, <1>4

\* A store with nothing in it is its own twin.
LEMMA ReplicaStarts ==
  ASSUME TreeInit
  PROVE  ReplicaInv
<1>1. TreeOK(EmptyStore)
  BY EmptyOK
<1>2. Twin(EmptyStore, EmptyStore)
  BY DEF Twin, SameTree, EmptyStore
<1> QED BY <1>1, <1>2 DEF TreeInit, ReplicaInv

\* The replica keeps in step.
LEMMA ReplicaSteps ==
  ASSUME ~Swallows, ReplicaInv, SnapshotExact, [TreeNext(Sayings)]_treeVars
  PROVE  ReplicaInv'
<1>0. TreeOK(store) /\ Twin(store, store)
  BY DEF ReplicaInv
<1>1. ASSUME NEW ops \in Sayings, transaction(ops) PROVE ReplicaInv'
  <2>1. ops \in Seq(Operations) /\ Closure(ops).ok /\ store' = Closure(ops).staged
        /\ apply_delivered_transaction(Closure(ops).written)
    BY <1>1 DEF transaction, Sayings
  <2>2. Closure(ops).written = ops /\ Len(ops) <= MaxOps
        /\ \E e : Accepts(e, store, ops) /\ Closure(ops).staged = e[Len(ops)]
    BY <1>0, <2>1, ClosureAccepts
  <2>3. PICK e : Accepts(e, store, ops) /\ Closure(ops).staged = e[Len(ops)]
    BY <2>2
  <2> QED BY <1>1, <2>1, <2>2, <2>3, ReplicaHears
<1>2. ASSUME NEW ops \in Sayings, commit_transaction(ops) PROVE ReplicaInv'
  <2> DEFINE said == DeliveredAll(ops)
  <2>1. ops \in Seq(Operations) /\ apply_staged(store, said).ok /\ store' = apply_staged(store, said).store
        /\ apply_delivered_transaction(said)
    BY <1>2 DEF commit_transaction, Sayings
  <2>2. said \in Sayings /\ said \in Seq(Operations)
    <3>1. said \in Seq(Operations) /\ Len(said) = Len(ops) /\ \A k \in 1..Len(ops) : said[k] = Delivered(ops[k])
      BY <2>1, AllDelivered
    <3>2. \A k \in 1..Len(ops) : ops[k] \in Operations
      BY <2>1
    <3> HIDE DEF said
    <3>3. \A k \in 1..Len(said) : Sayable(said[k])
      BY <3>1, <3>2, DeliveredSayable
    <3> QED BY <3>1, <3>3 DEF Sayings
  <2> HIDE DEF said
  <2>3. Len(said) <= MaxOps /\ \E e : Accepts(e, store, said) /\ apply_staged(store, said).store = e[Len(said)]
    BY <1>0, <2>1, <2>2, StagedAccepts
  <2>4. PICK e : Accepts(e, store, said) /\ apply_staged(store, said).store = e[Len(said)]
    BY <2>3
  <2> QED BY <2>1, <2>2, <2>3, <2>4, ReplicaHears
<1>3. CASE Detach
  BY <1>3 DEF Detach, ReplicaInv
<1>4. CASE Resync
  <2> DEFINE ops == export_snapshot(store)
             got == apply_staged(EmptyStore, DeliveredAll(ops))
  <2>1. store' = store
    BY <1>4 DEF Resync
  <2>2. CASE link' # "following"
    <3>1. link' \in {"unrepresentable", "refused"}
      BY <1>4, <2>2 DEF Resync
    <3> QED BY <1>0, <2>1, <3>1 DEF ReplicaInv
  <2>3. CASE link' = "following"
    <3>1. got.ok /\ replica' = got.store
      BY <1>4, <2>3 DEF Resync
    <3>2. replica' = [store EXCEPT !.used = DOMAIN store.nodes, !.usedModels = DOMAIN store.models]
      BY <3>1 DEF SnapshotExact
    <3>3. TreeOK(replica') /\ Twin(store, replica')
      BY <1>0, <3>2, RebuiltTwin
    <3> QED BY <1>0, <2>1, <2>3, <3>3 DEF ReplicaInv
  <2> QED BY <2>2, <2>3
<1>5. CASE UNCHANGED treeVars
  BY <1>5 DEF treeVars, ReplicaInv
<1> QED BY <1>1, <1>2, <1>3, <1>4, <1>5 DEF TreeNext

(* Whatever transactions the server accepts, from closures that give up on *)
(* a refusal or from messages, and however clients come and go, a replica  *)
(* that follows has the server's tree and models after every commit, and   *)
(* takes every operation the server took although it knows fewer of the    *)
(* used identities: apply_delivered_transaction never diverges.  What it   *)
(* rests on is that a snapshot gives back the tree it was taken of.        *)
THEOREM ReplicasStayTwins ==
  ASSUME ~Swallows
  PROVE  ReplicaSpec /\ []SnapshotExact => []ReplicaSame
<1>1. TreeInit => ReplicaInv
  BY ReplicaStarts
<1>2. ReplicaInv /\ SnapshotExact /\ [TreeNext(Sayings)]_treeVars => ReplicaInv'
  BY ReplicaSteps
<1>3. ReplicaInv => ReplicaSame
  BY DEF ReplicaInv, ReplicaSame, Twin
<1> QED BY <1>1, <1>2, <1>3, PTL DEF ReplicaSpec
==============================================================================
