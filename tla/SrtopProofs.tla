---------------------------- MODULE SrtopProofs ----------------------------
(***************************************************************************)
(* Proofs about srtop.  Its on-demand fields: a value shown as present is  *)
(* recent, and a field's reading never goes back.  Its scans: a record is  *)
(* of one process of one boot.  Its table: a process that runs throughout  *)
(* a scan keeps its row.  For every set of fields and PIDs, every limit    *)
(* and every order of the steps of host, scan, requests and answers.       *)
(***************************************************************************)
EXTENDS ProcessView, OnDemandFields, FoldLemmas

Instants == Nat
Numbers == Nat \ {0}

Result == [kind : {"value"}, held : Instants] \cup [kind : {"mistyped"} \cup Unavailable]
ReadingShown == [sequence : Numbers, observedAt : Instants, result : Result]
Tracked == [pending : Nat, reading : ReadingShown \cup {NoReading}, demandedSince : Instants]
Dispatch == [field : Pairs, issuedAt : Instants, abandoned : BOOLEAN]
QueuedJob == [stage : {"queued", "running"}, started : Instants]
Reply == [sequence : Numbers, field : Pairs, started : Instants,
          finished : Instants, result : Result]

\* A reading is of a read dispatched by now, and a value in it was held by the
\* source when the reading says it was observed.
ReadingOK(r, t, last) ==
    r # NoReading =>
        /\ r.observedAt <= t
        /\ r.sequence <= last
        /\ r.result.kind = "value" => r.result.held = r.observedAt

\* The read a slot waits for was issued after the reading the slot holds.
WaitsForNewer(sl, out) ==
    (sl.pending \in DOMAIN out /\ sl.reading # NoReading) =>
        /\ sl.reading.sequence < sl.pending
        /\ sl.reading.observedAt <= out[sl.pending].issuedAt

SlotOK(sl, t, last, out) ==
    /\ sl \in Tracked
    /\ sl.pending <= last
    /\ ReadingOK(sl.reading, t, last)
    /\ WaitsForNewer(sl, out)

\* A demanded field waits for the read of it that is in flight.
WaitsForItsRead(sl, f, reads, out) ==
    (f \in DOMAIN reads /\ reads[f] \in DOMAIN out) =>
        out[reads[f]].abandoned \/ sl.pending = reads[f]

ReplyOK(c, out) ==
    /\ c.sequence \in DOMAIN out /\ out[c.sequence].field = c.field
    /\ c.result.kind = "value" => c.result.held = c.started

FieldsTypes ==
    /\ now \in Instants /\ lastSequence \in Nat
    /\ inFlight \in Int /\ abandoned \in Int
    /\ DOMAIN slots \subseteq Pairs
    /\ DOMAIN outstanding \subseteq Numbers /\ outstanding \in [DOMAIN outstanding -> Dispatch]
    /\ DOMAIN readingOf \subseteq Pairs /\ readingOf \in [DOMAIN readingOf -> Numbers]
    /\ jobs \in [DOMAIN jobs -> QueuedJob]
    /\ completions \in Seq(Reply)

SlotsOK == \A f \in DOMAIN slots : /\ SlotOK(slots[f], now, lastSequence, outstanding)
                                   /\ WaitsForItsRead(slots[f], f, readingOf, outstanding)

ReadsIssued ==
    /\ \A s \in DOMAIN outstanding : s <= lastSequence /\ outstanding[s].issuedAt <= now
    /\ \A f \in DOMAIN readingOf : readingOf[f] <= lastSequence

\* A read is queued, running or answered, and answered once.
AnsweredOnce ==
    /\ DOMAIN jobs \subseteq DOMAIN outstanding
    /\ \A i \in 1 .. Len(completions) :
           /\ ReplyOK(completions[i], outstanding)
           /\ completions[i].sequence \notin DOMAIN jobs
    /\ \A i, j \in 1 .. Len(completions) :
           i # j => completions[i].sequence # completions[j].sequence

FieldsIInv == FieldsTypes /\ SlotsOK /\ ReadsIssued /\ AnsweredOnce

-----------------------------------------------------------------------------
(* The order of dispatch.                                                  *)

\* A field kept has its place in the request.
LEMMA PlaceInRequest ==
    ASSUME NEW wanted \in Seq(Pairs \cup Refused), NEW f \in Kept(wanted)
    PROVE  /\ f \in Pairs
           /\ PositionIn(wanted, f) \in Nat
           /\ wanted[PositionIn(wanted, f)] = f
<1>1. PICK i \in Named(wanted) : wanted[i] = f
    BY DEF Kept
<1>2. PositionIn(wanted, f) \in Named(wanted) /\ wanted[PositionIn(wanted, f)] = f
    BY <1>1 DEF PositionIn
<1>3. QED
    BY <1>2 DEF Named

\* The fields kept are finitely many.
LEMMA KeptFinite ==
    ASSUME NEW wanted \in Seq(Pairs \cup Refused)
    PROVE  Kept(wanted) \subseteq Pairs /\ IsFiniteSet(Kept(wanted))
<1>1. Kept(wanted) \subseteq Pairs
    BY PlaceInRequest
<1>2. QED
    BY <1>1, FieldsAssumption, FS_Subset

\* Dispatch has an order: no field is read before itself, and the order is
\* transitive.
LEMMA ReadFirstOrder ==
    ASSUME NEW wanted \in Seq(Pairs \cup Refused), NEW tracked,
           tracked \in [Kept(wanted) -> Tracked],
           NEW f \in Kept(wanted), NEW g \in Kept(wanted), NEW h \in Kept(wanted)
    PROVE  /\ ~ReadFirst(tracked, wanted, f, f)
           /\ (ReadFirst(tracked, wanted, f, g) /\ ReadFirst(tracked, wanted, g, h)) =>
                  ReadFirst(tracked, wanted, f, h)
<1>1. \A x \in {f, g, h} : /\ PositionIn(wanted, x) \in Nat
                           /\ tracked[x].reading # NoReading => tracked[x].reading \in ReadingShown
    BY PlaceInRequest DEF Tracked
<1>2. \A x \in {f, g, h} : tracked[x].reading # NoReading =>
          tracked[x].reading.observedAt \in Nat /\ tracked[x].reading.sequence \in Nat
    BY <1>1 DEF ReadingShown, Instants, Numbers
<1>3. QED
    BY <1>1, <1>2, SMTT(40) DEF ReadFirst

\* Sequence numbers of a dispatch are new and within the count of reads.
LEMMA RankBounds ==
    ASSUME NEW wanted \in Seq(Pairs \cup Refused), NEW tracked,
           tracked \in [Kept(wanted) -> Tracked],
           FreePlaces \in Int,
           NEW f \in Dispatched(tracked, wanted)
    PROVE  /\ IsFiniteSet(Dispatched(tracked, wanted))
           /\ Rank(tracked, wanted, f) \in Numbers
           /\ Rank(tracked, wanted, f) <= Cardinality(Dispatched(tracked, wanted))
<1> DEFINE D == Dispatched(tracked, wanted)
           Earlier(g) == {h \in Due(tracked) : ReadFirst(tracked, wanted, h, g)}
<1>1. Due(tracked) \subseteq Kept(wanted) /\ IsFiniteSet(Due(tracked))
    BY KeptFinite, FS_Subset DEF Due
<1>2. D \subseteq Due(tracked) /\ IsFiniteSet(D)
    BY <1>1, FS_Subset DEF Dispatched
<1>3. \A g \in Due(tracked) : /\ IsFiniteSet(Earlier(g))
                              /\ Cardinality(Earlier(g)) \in Nat
                              /\ Rank(tracked, wanted, g) = 1 + Cardinality(Earlier(g))
    BY <1>1, FS_Subset, FS_CardinalityType DEF Rank
<1>4. f \in Due(tracked) /\ Rank(tracked, wanted, f) <= FreePlaces
    BY DEF Dispatched
<1>5. f \notin Earlier(f)
    BY <1>1, <1>4, ReadFirstOrder
<1>6. ASSUME NEW g \in Earlier(f)
      PROVE  g \in D
    <2>1. g \in Due(tracked)
        OBVIOUS
    <2>2. Earlier(g) \subseteq Earlier(f)
        BY <1>1, <1>4, <2>1, ReadFirstOrder
    <2>3. Cardinality(Earlier(g)) <= Cardinality(Earlier(f))
        BY <1>3, <1>4, <2>2, FS_Subset
    <2>4. Rank(tracked, wanted, g) <= FreePlaces
        <3> HIDE DEF Earlier
        <3> QED
            BY <1>3, <1>4, <2>1, <2>3
    <2>5. QED
        BY <2>1, <2>4 DEF Dispatched
<1>7. Earlier(f) \cup {f} \subseteq D
    BY <1>6
<1>8. Cardinality(Earlier(f) \cup {f}) = Cardinality(Earlier(f)) + 1
    BY <1>3, <1>4, <1>5, FS_AddElement
<1>9. Cardinality(Earlier(f) \cup {f}) <= Cardinality(D)
    BY <1>2, <1>7, FS_Subset
<1>10. Rank(tracked, wanted, f) \in Numbers /\ Rank(tracked, wanted, f) <= Cardinality(D)
    <2> HIDE DEF Earlier, D
    <2> QED
        BY <1>3, <1>4, <1>8, <1>9 DEF Numbers
<1>11. QED
    BY <1>2, <1>10

-----------------------------------------------------------------------------
(* Reads past their deadline.                                              *)

\* The counts of reads stay integers through expire, and so does the capacity.
LEMMA FreePlacesType ==
    ASSUME FieldsIInv
    PROVE  /\ InFlightLeft \in Int /\ AbandonedNow \in Int
           /\ FreePlaces \in Int
<1> USE DEF FieldsIInv, FieldsTypes, ReadsIssued
<1>1. Overdue \subseteq 1 .. lastSequence
    BY DEF Overdue, Numbers
<1>2. IsFiniteSet(1 .. lastSequence)
    <2>1. 1 \in Int /\ lastSequence \in Int
        OBVIOUS
    <2>2. QED
        BY <2>1, FS_Interval
<1>3. Cardinality(Overdue) \in Nat
    BY <1>1, <1>2, FS_Subset, FS_CardinalityType
<1>4. InFlightLeft \in Int /\ AbandonedNow \in Int
    BY <1>3 DEF InFlightLeft, AbandonedNow
<1> DEFINE a == MaxInFlight - InFlightLeft
           b == MaxAbandoned - InFlightLeft - AbandonedNow
           c == MaxReads - lastSequence
           room == {a, b, c}
           least == CHOOSE n \in room : \A m \in room : n <= m
<1>5. a \in Int /\ b \in Int /\ c \in Int
    BY <1>4, LimitsAssumption, BoundsAssumption, SMTT(40) DEF ValidLimits
<1>6. \E n \in room : \A m \in room : n <= m
    <2> HIDE DEF a, b, c
    <2> QED
        BY <1>5
<1>7. least \in Int
    <2> HIDE DEF a, b, c
    <2> QED
        BY <1>5, <1>6
<1>8. FreePlaces = IF least < 0 THEN 0 ELSE least
    BY DEF FreePlaces
<1>9. QED
    <2> HIDE DEF least
    <2> QED
        BY <1>4, <1>7, <1>8

\* expire marks reads given up and changes nothing else of them.
LEMMA GivenUpReads ==
    ASSUME FieldsIInv
    PROVE  /\ DOMAIN GivenUp = DOMAIN outstanding
           /\ GivenUp \in [DOMAIN GivenUp -> Dispatch]
           /\ \A s \in DOMAIN outstanding :
                  /\ GivenUp[s].issuedAt = outstanding[s].issuedAt
                  /\ GivenUp[s].field = outstanding[s].field
                  /\ outstanding[s].abandoned => GivenUp[s].abandoned
                  /\ s \in Overdue => GivenUp[s].abandoned
<1>1. \A s \in DOMAIN outstanding : outstanding[s] \in Dispatch
    BY DEF FieldsIInv, FieldsTypes
<1>2. QED
    BY <1>1 DEF GivenUp, Dispatch

\* What a slot may show next: what it shows, or a newer read of a later instant.
Forward(old, new) ==
    new # old => \/ old = NoReading
                 \/ new.sequence > old.sequence /\ new.observedAt >= old.observedAt

\* A slot whose read is given up fails as of that read, which is newer than
\* what it showed.
LEMMA GivenUpSlot ==
    ASSUME FieldsIInv, NEW f \in DOMAIN slots
    PROVE  /\ SlotOK(SlotsGivenUp[f], now, lastSequence, GivenUp)
           /\ WaitsForItsRead(SlotsGivenUp[f], f, readingOf, GivenUp)
           /\ Forward(slots[f].reading, SlotsGivenUp[f].reading)
<1> DEFINE sl == slots[f]
           new == SlotsGivenUp[f]
<1>1. /\ SlotOK(sl, now, lastSequence, outstanding)
      /\ WaitsForItsRead(sl, f, readingOf, outstanding)
      /\ now \in Nat /\ lastSequence \in Nat
    BY DEF FieldsIInv, SlotsOK, FieldsTypes, Instants
<1>2. CASE sl.pending \notin Overdue
    <2>1. new = sl
        BY <1>2 DEF SlotsGivenUp
    <2>2. Forward(sl.reading, new.reading)
        BY <2>1 DEF Forward
    <2>3. SlotOK(new, now, lastSequence, GivenUp)
        BY <1>1, <2>1, GivenUpReads DEF SlotOK, WaitsForNewer
    <2>4. WaitsForItsRead(new, f, readingOf, GivenUp)
        BY <1>1, <2>1, GivenUpReads DEF WaitsForItsRead
    <2>5. QED
        BY <2>2, <2>3, <2>4
<1>3. CASE sl.pending \in Overdue
    <2> DEFINE shown == [sequence |-> sl.pending,
                         observedAt |-> outstanding[sl.pending].issuedAt,
                         result |-> FailedRead]
    <2>1. new = [sl EXCEPT !.pending = 0, !.reading = shown]
        BY <1>3 DEF SlotsGivenUp
    <2>2. /\ sl.pending \in DOMAIN outstanding /\ sl.pending \in Numbers
          /\ outstanding[sl.pending] \in Dispatch
          /\ outstanding[sl.pending].issuedAt <= now
        BY <1>3 DEF FieldsIInv, FieldsTypes, ReadsIssued, Overdue
    <2>3. shown \in ReadingShown /\ shown.result.kind = "failed"
        BY <2>2, FieldsAssumption DEF ReadingShown, Dispatch, FailedRead, Result
    <2>4. sl \in Tracked
        BY <1>1 DEF SlotOK
    <2>5. new \in Tracked /\ new.pending = 0 /\ new.reading = shown
        <3> HIDE DEF shown, new
        <3> QED
            BY <2>1, <2>3, <2>4 DEF Tracked
    <2>6. 0 \notin DOMAIN GivenUp
        BY GivenUpReads DEF FieldsIInv, FieldsTypes, Numbers
    <2>7. SlotOK(new, now, lastSequence, GivenUp)
        BY <1>1, <2>2, <2>3, <2>5, <2>6 DEF SlotOK, ReadingOK, WaitsForNewer
    <2>8. WaitsForItsRead(new, f, readingOf, GivenUp)
        BY <1>1, <1>3, GivenUpReads DEF WaitsForItsRead
    <2>9. Forward(sl.reading, new.reading)
        <3>1. SUFFICES ASSUME sl.reading # NoReading
                       PROVE  shown.sequence > sl.reading.sequence
                              /\ shown.observedAt >= sl.reading.observedAt
            BY <2>5 DEF Forward
        <3>2. /\ sl.reading.sequence < sl.pending
              /\ sl.reading.observedAt <= outstanding[sl.pending].issuedAt
            BY <1>1, <2>2, <3>1 DEF SlotOK, WaitsForNewer
        <3>3. sl.reading.sequence \in Nat /\ sl.pending \in Nat
            BY <2>4, <3>1 DEF Tracked, ReadingShown, Numbers
        <3>4. sl.reading.observedAt \in Nat /\ outstanding[sl.pending].issuedAt \in Nat
            BY <2>2, <2>4, <3>1 DEF Tracked, ReadingShown, Dispatch, Instants
        <3>5. QED
            BY <3>2, <3>3, <3>4
    <2>10. QED
        BY <2>7, <2>8, <2>9
<1>4. QED
    BY <1>2, <1>3

-----------------------------------------------------------------------------
(* Every step keeps the invariant and moves readings forward.              *)

MovesForward ==
    \A f \in DOMAIN slots \cap DOMAIN slots' : Forward(slots[f].reading, slots'[f].reading)

\* The first state.
LEMMA InitFields == FieldsInit => FieldsIInv
<1> SUFFICES ASSUME FieldsInit PROVE FieldsIInv
    OBVIOUS
<1>1. /\ now = 0 /\ lastSequence = 0 /\ inFlight = 0 /\ abandoned = 0
      /\ slots = <<>> /\ outstanding = <<>> /\ readingOf = <<>> /\ jobs = <<>>
      /\ completions = <<>>
    BY DEF FieldsInit
<1>2. DOMAIN slots = {} /\ DOMAIN outstanding = {} /\ DOMAIN readingOf = {} /\ DOMAIN jobs = {}
    BY <1>1
<1>3. Len(completions) = 0 /\ completions \in Seq(Reply)
    BY <1>1
<1>4. FieldsTypes
    BY <1>1, <1>2, <1>3 DEF FieldsTypes, Instants
<1>5. QED
    BY <1>2, <1>3, <1>4 DEF FieldsIInv, SlotsOK, ReadsIssued, AnsweredOnce

\* The clock moves on, whatever happens to the wall clock.
LEMMA StepTick ==
    ASSUME FieldsIInv, Tick
    PROVE  FieldsIInv' /\ MovesForward
<1>1. PICK wallStep \in 0 .. ReadDeadline + 1 : now' = Advance(now, 1, wallStep)
    BY DEF Tick
<1>2. now \in Nat /\ ReadDeadline \in Nat
    BY LimitsAssumption DEF FieldsIInv, FieldsTypes, Instants, ValidLimits
<1>3. now' \in Nat /\ now <= now'
    BY <1>1, <1>2 DEF Advance
<1>4. UNCHANGED <<slots, outstanding, readingOf, lastSequence, inFlight, abandoned, jobs,
                  completions>>
    BY DEF Tick
<1>5. FieldsTypes'
    BY <1>3, <1>4 DEF FieldsIInv, FieldsTypes, Instants
<1>6. ASSUME NEW f \in DOMAIN slots
      PROVE  SlotOK(slots[f], now', lastSequence, outstanding)
    <2>1. SlotOK(slots[f], now, lastSequence, outstanding)
        BY DEF FieldsIInv, SlotsOK
    <2>2. slots[f].reading # NoReading => slots[f].reading.observedAt \in Nat
        BY <2>1 DEF SlotOK, Tracked, ReadingShown, Instants
    <2>3. ReadingOK(slots[f].reading, now', lastSequence)
        BY <1>2, <1>3, <2>1, <2>2 DEF SlotOK, ReadingOK
    <2>4. QED
        BY <2>1, <2>3 DEF SlotOK
<1>7. SlotsOK'
    BY <1>4, <1>6 DEF FieldsIInv, SlotsOK
<1>8. ReadsIssued'
    <2>1. \A r \in DOMAIN outstanding : outstanding[r].issuedAt \in Nat
        BY DEF FieldsIInv, FieldsTypes, Dispatch, Instants
    <2>2. QED
        BY <1>2, <1>3, <1>4, <2>1 DEF FieldsIInv, ReadsIssued
<1>9. AnsweredOnce'
    BY <1>4 DEF FieldsIInv, AnsweredOnce
<1>10. MovesForward
    BY <1>4 DEF MovesForward, Forward
<1>11. QED
    BY <1>5, <1>7, <1>8, <1>9, <1>10 DEF FieldsIInv

\* A job of the pool starts.
LEMMA StepJobStart ==
    ASSUME FieldsIInv, NEW s, JobStart(s)
    PROVE  FieldsIInv' /\ MovesForward
<1>1. UNCHANGED <<now, slots, outstanding, readingOf, lastSequence, inFlight, abandoned,
                  completions>>
    BY DEF JobStart
<1>2. jobs' \in [DOMAIN jobs -> QueuedJob] /\ DOMAIN jobs' = DOMAIN jobs
    BY DEF JobStart, FieldsIInv, FieldsTypes, QueuedJob
<1>3. FieldsTypes'
    BY <1>1, <1>2 DEF FieldsIInv, FieldsTypes
<1>4. SlotsOK' /\ ReadsIssued'
    BY <1>1 DEF FieldsIInv, SlotsOK, ReadsIssued
<1>5. AnsweredOnce'
    BY <1>1, <1>2 DEF FieldsIInv, AnsweredOnce
<1>6. MovesForward
    BY <1>1 DEF MovesForward, Forward
<1>7. QED
    BY <1>3, <1>4, <1>5, <1>6 DEF FieldsIInv

\* A read is answered: by its value, by a reason, by a panic or by being dropped.
LEMMA StepAnswer ==
    ASSUME FieldsIInv, NEW s \in DOMAIN jobs, NEW started \in Instants, NEW result \in Result,
           result.kind = "value" => result.held = started,
           Answer(s, started, result)
    PROVE  FieldsIInv' /\ MovesForward
<1> DEFINE c == [sequence |-> s, field |-> outstanding[s].field, started |-> started,
                 finished |-> now, result |-> result]
<1>1. /\ UNCHANGED <<now, slots, outstanding, readingOf, lastSequence, inFlight, abandoned>>
      /\ jobs' = [t \in DOMAIN jobs \ {s} |-> jobs[t]]
      /\ completions' = Append(completions, c)
    BY DEF Answer
<1>2. s \in DOMAIN outstanding /\ s \in Numbers /\ outstanding[s] \in Dispatch
    BY DEF FieldsIInv, AnsweredOnce, FieldsTypes
<1>3. /\ c \in Reply /\ c.sequence = s /\ c.field = outstanding[s].field
      /\ c.result = result /\ c.started = started
    BY <1>2 DEF Reply, Dispatch, FieldsIInv, FieldsTypes
<1> HIDE DEF c
<1>4. completions \in Seq(Reply)
    BY DEF FieldsIInv, FieldsTypes
<1>5. /\ completions' \in Seq(Reply) /\ Len(completions') = Len(completions) + 1
      /\ \A i \in 1 .. Len(completions) : completions'[i] = completions[i]
      /\ completions'[Len(completions) + 1] = c
    BY <1>1, <1>3, <1>4
<1>6. jobs' \in [DOMAIN jobs \ {s} -> QueuedJob] /\ DOMAIN jobs' = DOMAIN jobs \ {s}
    BY <1>1 DEF FieldsIInv, FieldsTypes
<1>7. FieldsTypes'
    BY <1>1, <1>5, <1>6 DEF FieldsIInv, FieldsTypes
<1>8. SlotsOK' /\ ReadsIssued'
    BY <1>1 DEF FieldsIInv, SlotsOK, ReadsIssued
<1>9. AnsweredOnce'
    <2>1. DOMAIN jobs' \subseteq DOMAIN outstanding'
        BY <1>1, <1>6 DEF FieldsIInv, AnsweredOnce
    <2>2. ReplyOK(c, outstanding)
        BY <1>2, <1>3 DEF ReplyOK
    <2>3. Len(completions) \in Nat
        BY <1>4
    <2>4. ASSUME NEW i \in 1 .. Len(completions')
          PROVE  /\ ReplyOK(completions'[i], outstanding')
                 /\ completions'[i].sequence \notin DOMAIN jobs'
        <3>1. CASE i \in 1 .. Len(completions)
            BY <1>1, <1>5, <1>6, <3>1 DEF FieldsIInv, AnsweredOnce
        <3>2. CASE i = Len(completions) + 1
            BY <1>1, <1>3, <1>5, <1>6, <2>2, <3>2
        <3>3. QED
            BY <1>5, <2>3, <3>1, <3>2
    <2>5. ASSUME NEW i \in 1 .. Len(completions'), NEW j \in 1 .. Len(completions'), i # j
          PROVE  completions'[i].sequence # completions'[j].sequence
        <3>1. \A k \in 1 .. Len(completions) : completions'[k].sequence # s
            BY <1>5 DEF FieldsIInv, AnsweredOnce
        <3>2. CASE i \in 1 .. Len(completions) /\ j \in 1 .. Len(completions)
            BY <1>5, <2>5, <3>2 DEF FieldsIInv, AnsweredOnce
        <3>3. CASE i = Len(completions) + 1
            BY <1>3, <1>5, <2>3, <2>5, <3>1, <3>3
        <3>4. CASE j = Len(completions) + 1
            BY <1>3, <1>5, <2>3, <2>5, <3>1, <3>4
        <3>5. QED
            BY <1>5, <2>3, <3>2, <3>3, <3>4
    <2>6. QED
        BY <2>1, <2>4, <2>5 DEF AnsweredOnce
<1>10. MovesForward
    BY <1>1 DEF MovesForward, Forward
<1>11. QED
    BY <1>7, <1>8, <1>9, <1>10 DEF FieldsIInv

\* collect_completed ends: overdue reads are given up.
LEMMA StepCollectEnd ==
    ASSUME FieldsIInv, CollectEnd
    PROVE  FieldsIInv' /\ MovesForward
<1>1. /\ slots' = SlotsGivenUp /\ outstanding' = GivenUp
      /\ inFlight' = InFlightLeft /\ abandoned' = AbandonedNow
      /\ UNCHANGED <<now, readingOf, lastSequence, jobs, completions>>
    BY DEF CollectEnd
<1>2. DOMAIN slots' = DOMAIN slots
    BY <1>1 DEF SlotsGivenUp
<1>3. FieldsTypes'
    BY <1>1, <1>2, FreePlacesType, GivenUpReads DEF FieldsIInv, FieldsTypes
<1>4. SlotsOK'
    BY <1>1, <1>2, GivenUpSlot DEF SlotsOK
<1>5. ReadsIssued'
    BY <1>1, GivenUpReads DEF FieldsIInv, ReadsIssued
<1>6. AnsweredOnce'
    BY <1>1, GivenUpReads DEF FieldsIInv, AnsweredOnce, ReplyOK
<1>7. MovesForward
    BY <1>1, <1>2, GivenUpSlot DEF MovesForward
<1>8. QED
    BY <1>3, <1>4, <1>5, <1>6, <1>7 DEF FieldsIInv

\* A slot after its read is settled, or its next one dispatched.
LEMMA SlotUpdate ==
    ASSUME NEW sl \in Tracked, NEW r \in ReadingShown \cup {NoReading}, NEW n \in Nat
    PROVE  /\ [sl EXCEPT !.pending = n, !.reading = r] \in Tracked
           /\ [sl EXCEPT !.pending = n, !.reading = r].pending = n
           /\ [sl EXCEPT !.pending = n, !.reading = r].reading = r
           /\ [sl EXCEPT !.pending = n] \in Tracked
           /\ [sl EXCEPT !.pending = n].pending = n
           /\ [sl EXCEPT !.pending = n].reading = sl.reading
BY DEF Tracked

\* What a slot shows once an answer is accepted: dated within the read, and a
\* value only if the source held it then.
LEMMA AcceptedReading ==
    ASSUME FieldsIInv, NEW c \in Reply, ReplyOK(c, outstanding)
    PROVE  LET r == Accepted(c, outstanding[c.sequence])
           IN  /\ r \in ReadingShown
               /\ r.sequence = c.sequence
               /\ outstanding[c.sequence].issuedAt <= r.observedAt
               /\ ReadingOK(r, now, lastSequence)
<1> DEFINE read == outstanding[c.sequence]
           within == WithinWindow(c, read.issuedAt)
           r == Accepted(c, read)
<1>1. /\ c.sequence \in DOMAIN outstanding /\ read \in Dispatch
      /\ c.result.kind = "value" => c.result.held = c.started
      /\ now \in Nat /\ c.sequence <= lastSequence /\ read.issuedAt <= now
    BY DEF ReplyOK, FieldsIInv, FieldsTypes, ReadsIssued, Instants
<1>2. /\ c.sequence \in Numbers /\ c.started \in Nat /\ c.finished \in Nat /\ c.result \in Result
      /\ read.issuedAt \in Nat
    BY <1>1 DEF Reply, Dispatch, Instants
<1>3. FailedRead \in Result /\ FailedRead.kind = "failed"
    BY FieldsAssumption DEF FailedRead, Result
<1>4. /\ r.sequence = c.sequence
      /\ r.observedAt = IF within THEN c.started ELSE read.issuedAt
      /\ r.result = IF \/ c.result.kind = "mistyped"
                       \/ c.result.kind = "value" /\ ~within
                    THEN FailedRead ELSE c.result
    BY DEF Accepted
<1>5. within => read.issuedAt <= c.started /\ c.started <= c.finished /\ c.finished <= now
    BY DEF WithinWindow
<1>6. r \in ReadingShown
    BY <1>2, <1>3 DEF Accepted, ReadingShown, Instants
<1> HIDE DEF within, r, read
<1>7. read.issuedAt <= r.observedAt /\ r.observedAt <= now
    BY <1>1, <1>2, <1>4, <1>5
<1>8. r.result.kind = "value" => r.result.held = r.observedAt
    BY <1>1, <1>3, <1>4
<1>9. ReadingOK(r, now, lastSequence)
    BY <1>1, <1>4, <1>7, <1>8 DEF ReadingOK
<1>10. QED
    BY <1>4, <1>6, <1>7, <1>9 DEF r, read

\* An answer is taken from the channel: accepted, refused or late.
LEMMA StepCollectOne ==
    ASSUME FieldsIInv, CollectOne
    PROVE  FieldsIInv' /\ MovesForward
<1> DEFINE c == Head(completions)
           read == outstanding[c.sequence]
<1>1. /\ completions # <<>> /\ completions' = Tail(completions)
      /\ UNCHANGED <<now, lastSequence, jobs>>
    BY DEF CollectOne
<1>2. completions \in Seq(Reply)
    BY DEF FieldsIInv, FieldsTypes
<1>3. Len(completions) \in Nat \ {0} /\ c = completions[1] /\ c \in Reply
    BY <1>1, <1>2
<1>4. /\ completions' \in Seq(Reply) /\ Len(completions') = Len(completions) - 1
      /\ \A i \in 1 .. Len(completions') : completions'[i] = completions[i + 1]
    BY <1>1, <1>2
<1>5. ReplyOK(c, outstanding) /\ c.sequence \notin DOMAIN jobs
    BY <1>3 DEF FieldsIInv, AnsweredOnce
<1>6. c.sequence \in DOMAIN outstanding /\ read.field = c.field
    BY <1>5 DEF ReplyOK
<1>7. /\ outstanding' = [t \in DOMAIN outstanding \ {c.sequence} |-> outstanding[t]]
      /\ readingOf' = [f \in {g \in DOMAIN readingOf :
                                 g # read.field \/ readingOf[g] # c.sequence} |-> readingOf[f]]
      /\ abandoned' = IF read.abandoned THEN abandoned - 1 ELSE abandoned
      /\ inFlight' = IF read.abandoned THEN inFlight ELSE inFlight - 1
      /\ slots' = [f \in DOMAIN slots |->
                      IF f = c.field THEN SlotAfter(slots[f], c, read) ELSE slots[f]]
    BY <1>6 DEF CollectOne
<1> HIDE DEF c
<1>8. FieldsTypes'
    <2>1. inFlight' \in Int /\ abandoned' \in Int
        BY <1>7 DEF FieldsIInv, FieldsTypes
    <2>2. /\ DOMAIN outstanding' \subseteq Numbers
          /\ outstanding' \in [DOMAIN outstanding' -> Dispatch]
        BY <1>7 DEF FieldsIInv, FieldsTypes
    <2>3. DOMAIN readingOf' \subseteq Pairs /\ readingOf' \in [DOMAIN readingOf' -> Numbers]
        BY <1>7 DEF FieldsIInv, FieldsTypes
    <2>4. DOMAIN slots' \subseteq Pairs
        BY <1>7 DEF FieldsIInv, FieldsTypes
    <2>5. QED
        BY <1>1, <1>4, <2>1, <2>2, <2>3, <2>4 DEF FieldsIInv, FieldsTypes
<1>9. ReadsIssued'
    BY <1>1, <1>7 DEF FieldsIInv, ReadsIssued
<1>10. AnsweredOnce'
    <2>1. DOMAIN jobs' \subseteq DOMAIN outstanding'
        BY <1>1, <1>5, <1>7 DEF FieldsIInv, AnsweredOnce
    <2>2. ASSUME NEW i \in 1 .. Len(completions')
          PROVE  /\ i + 1 \in 1 .. Len(completions) /\ i + 1 # 1
                 /\ completions'[i] = completions[i + 1]
        BY <1>3, <1>4
    <2>3. ASSUME NEW i \in 1 .. Len(completions')
          PROVE  /\ ReplyOK(completions'[i], outstanding')
                 /\ completions'[i].sequence \notin DOMAIN jobs'
        <3>1. /\ ReplyOK(completions[i + 1], outstanding)
              /\ completions[i + 1].sequence \notin DOMAIN jobs
              /\ completions[i + 1].sequence # c.sequence
            BY <1>3, <2>2 DEF FieldsIInv, AnsweredOnce
        <3>2. QED
            BY <1>1, <1>7, <2>2, <3>1 DEF ReplyOK
    <2>4. ASSUME NEW i \in 1 .. Len(completions'), NEW j \in 1 .. Len(completions'), i # j
          PROVE  completions'[i].sequence # completions'[j].sequence
        <3>1. i + 1 # j + 1
            BY <2>4
        <3>2. QED
            BY <2>2, <3>1 DEF FieldsIInv, AnsweredOnce
    <2>5. QED
        BY <2>1, <2>3, <2>4 DEF AnsweredOnce
<1>11. ASSUME NEW f \in DOMAIN slots
       PROVE  /\ SlotOK(slots'[f], now, lastSequence, outstanding')
              /\ WaitsForItsRead(slots'[f], f, readingOf', outstanding')
              /\ Forward(slots[f].reading, slots'[f].reading)
    <2> DEFINE sl == slots[f]
               r == Accepted(c, read)
    <2>1. SlotOK(sl, now, lastSequence, outstanding) /\ WaitsForItsRead(sl, f, readingOf, outstanding)
        BY DEF FieldsIInv, SlotsOK
    <2>2. CASE f # c.field \/ read.abandoned \/ sl.pending # c.sequence
        <3>1. slots'[f] = sl
            BY <1>7, <2>2 DEF SlotAfter
        <3>2. QED
            BY <1>7, <2>1, <3>1 DEF SlotOK, WaitsForNewer, WaitsForItsRead, Forward
    <2>3. CASE f = c.field /\ ~read.abandoned /\ sl.pending = c.sequence
        <3> DEFINE shown == IF sl.reading.sequence >= c.sequence THEN sl.reading ELSE r
        <3>1. slots'[f] = [sl EXCEPT !.pending = 0, !.reading = shown]
            BY <1>7, <2>3 DEF SlotAfter
        <3>2. sl \in Tracked
            BY <2>1 DEF SlotOK
        <3>3. /\ r \in ReadingShown /\ r.sequence = c.sequence /\ read.issuedAt <= r.observedAt
              /\ ReadingOK(r, now, lastSequence)
            BY <1>3, <1>5, AcceptedReading
        <3>4. shown \in ReadingShown \cup {NoReading} /\ ReadingOK(shown, now, lastSequence)
            <4> HIDE DEF r
            <4> QED
                BY <2>1, <3>2, <3>3 DEF SlotOK, Tracked
        <3>5. Forward(sl.reading, shown)
            <4>1. SUFFICES ASSUME sl.reading # NoReading, ~(sl.reading.sequence >= c.sequence)
                           PROVE  r.sequence > sl.reading.sequence
                                  /\ r.observedAt >= sl.reading.observedAt
                BY DEF Forward
            <4>2. sl.reading.sequence < c.sequence /\ sl.reading.observedAt <= read.issuedAt
                BY <1>6, <2>1, <2>3, <4>1 DEF SlotOK, WaitsForNewer
            <4>3. sl.reading.sequence \in Nat /\ sl.reading.observedAt \in Nat
                BY <3>2, <4>1 DEF Tracked, ReadingShown, Numbers, Instants
            <4>4. r.sequence \in Nat /\ r.observedAt \in Nat /\ read.issuedAt \in Nat
                BY <1>6, <3>3 DEF ReadingShown, Numbers, Instants, FieldsIInv, FieldsTypes, Dispatch
            <4> HIDE DEF r
            <4>5. QED
                BY <3>3, <4>2, <4>3, <4>4
        <3>6. slots'[f] \in Tracked /\ slots'[f].pending = 0 /\ slots'[f].reading = shown
            <4> HIDE DEF shown, sl, r
            <4>1. shown \in ReadingShown \cup {NoReading}
                BY <3>4
            <4>2. /\ [sl EXCEPT !.pending = 0, !.reading = shown] \in Tracked
                  /\ [sl EXCEPT !.pending = 0, !.reading = shown].pending = 0
                  /\ [sl EXCEPT !.pending = 0, !.reading = shown].reading = shown
                BY <3>2, <4>1 DEF Tracked
            <4>3. QED
                BY <3>1, <4>2
        <3>7. 0 \notin DOMAIN outstanding' /\ lastSequence \in Nat
            BY <1>7 DEF FieldsIInv, FieldsTypes, Numbers
        <3> HIDE DEF shown, r
        <3>8. SlotOK(slots'[f], now, lastSequence, outstanding')
            BY <3>4, <3>6, <3>7 DEF SlotOK, WaitsForNewer
        <3>9. WaitsForItsRead(slots'[f], f, readingOf', outstanding')
            BY <1>6, <1>7, <2>1, <2>3 DEF WaitsForItsRead
        <3>10. QED
            BY <3>5, <3>6, <3>8, <3>9
    <2>4. QED
        BY <2>2, <2>3
<1>12. DOMAIN slots' = DOMAIN slots
    BY <1>7
<1>13. SlotsOK'
    BY <1>1, <1>11, <1>12 DEF SlotsOK
<1>14. MovesForward
    BY <1>11, <1>12 DEF MovesForward
<1>15. QED
    BY <1>8, <1>9, <1>10, <1>13, <1>14 DEF FieldsIInv

\* A slot the demand keeps or opens: it waits for the read of its field that is
\* in flight, if there is one.
LEMMA KeptSlot ==
    ASSUME FieldsIInv, NEW kept \in SUBSET Pairs, NEW f \in kept
    PROVE  /\ SlotOK(SlotsKept(kept)[f], now, lastSequence, GivenUp)
           /\ WaitsForItsRead(SlotsKept(kept)[f], f, readingOf, GivenUp)
           /\ f \in DOMAIN slots => Forward(slots[f].reading, SlotsKept(kept)[f].reading)
<1> DEFINE base == IF f \in DOMAIN slots THEN SlotsGivenUp[f] ELSE NewSlot(now)
           sl == SlotsKept(kept)[f]
<1>1. sl = Adopted(f, base)
    BY DEF SlotsKept
<1>2. /\ now \in Nat /\ lastSequence \in Nat
      /\ DOMAIN GivenUp \subseteq Numbers
      /\ \A g \in DOMAIN readingOf : readingOf[g] \in Numbers /\ readingOf[g] <= lastSequence
    BY GivenUpReads DEF FieldsIInv, FieldsTypes, ReadsIssued, Instants
<1>3. SlotOK(base, now, lastSequence, GivenUp)
    <2>1. CASE f \in DOMAIN slots
        BY <2>1, GivenUpSlot
    <2>2. CASE f \notin DOMAIN slots
        <3>1. base = NewSlot(now)
            BY <2>2
        <3>2. NewSlot(now) \in Tracked /\ NewSlot(now).pending = 0 /\ NewSlot(now).reading = NoReading
            BY <1>2 DEF NewSlot, Tracked, Instants
        <3>3. QED
            BY <1>2, <3>1, <3>2 DEF SlotOK, ReadingOK, WaitsForNewer
    <2>3. QED
        BY <2>1, <2>2
<1>4. f \in DOMAIN slots => /\ WaitsForItsRead(base, f, readingOf, GivenUp)
                            /\ Forward(slots[f].reading, base.reading)
    BY GivenUpSlot
<1>5. f \notin DOMAIN slots => base.reading = NoReading /\ base.pending = 0
    BY DEF NewSlot
<1> HIDE DEF base, sl
<1> DEFINE adopts == /\ f \in DOMAIN readingOf /\ base.pending = 0
                     /\ readingOf[f] \in DOMAIN GivenUp /\ ~GivenUp[readingOf[f]].abandoned
<1>6. CASE ~adopts
    <2>1. sl = base
        BY <1>1, <1>6 DEF Adopted
    <2>2. WaitsForItsRead(base, f, readingOf, GivenUp)
        BY <1>4, <1>5, <1>6 DEF WaitsForItsRead
    <2>3. QED
        BY <1>3, <1>4, <2>1, <2>2 DEF sl
<1>7. CASE adopts
    <2>1. sl = [base EXCEPT !.pending = readingOf[f]]
        BY <1>1, <1>7 DEF Adopted
    <2>2. f \notin DOMAIN slots
        BY <1>2, <1>4, <1>7 DEF WaitsForItsRead, Numbers
    <2>3. base \in Tracked /\ base.reading = NoReading /\ readingOf[f] \in Nat
        BY <1>2, <1>3, <1>5, <1>7, <2>2 DEF SlotOK, Numbers
    <2>4. sl \in Tracked /\ sl.pending = readingOf[f] /\ sl.reading = NoReading
        BY <2>1, <2>3 DEF Tracked
    <2>5. SlotOK(sl, now, lastSequence, GivenUp)
        BY <1>2, <1>7, <2>4 DEF SlotOK, ReadingOK, WaitsForNewer
    <2>6. WaitsForItsRead(sl, f, readingOf, GivenUp)
        BY <2>4 DEF WaitsForItsRead
    <2>7. QED
        BY <2>2, <2>5, <2>6 DEF sl
<1>8. QED
    BY <1>6, <1>7

\* demand and dispatch: give up, forget, adopt, and dispatch what is due.
LEMMA StepDemand ==
    ASSUME FieldsIInv, NEW wanted \in Requests, Demand(wanted)
    PROVE  FieldsIInv' /\ MovesForward
<1> DEFINE tracked == SlotsKept(Kept(wanted))
           D == Dispatched(tracked, wanted)
           sequence == [f \in D |-> lastSequence + Rank(tracked, wanted, f)]
           fresh == {sequence[f] : f \in D}
           fieldOf == [t \in fresh |-> CHOOSE f \in D : sequence[f] = t]
<1>1. /\ slots' = [f \in DOMAIN tracked |->
                      IF f \in D THEN [tracked[f] EXCEPT !.pending = sequence[f]]
                      ELSE tracked[f]]
      /\ outstanding' = [t \in DOMAIN outstanding \cup fresh |->
                      IF t \in fresh
                      THEN [field |-> fieldOf[t], issuedAt |-> now, abandoned |-> FALSE]
                      ELSE GivenUp[t]]
      /\ readingOf' = [f \in DOMAIN readingOf \cup D |->
                      IF f \in D THEN sequence[f] ELSE readingOf[f]]
      /\ lastSequence' = lastSequence + Cardinality(D)
      /\ inFlight' = InFlightLeft + Cardinality(D)
      /\ abandoned' = AbandonedNow
      /\ jobs' = [t \in DOMAIN jobs \cup fresh |->
                      IF t \in fresh THEN [stage |-> "queued", started |-> 0] ELSE jobs[t]]
      /\ UNCHANGED <<now, completions>>
    BY DEF Demand
<1>2. wanted \in Seq(Pairs \cup Refused)
    BY FieldsAssumption
<1>3. Kept(wanted) \subseteq Pairs /\ IsFiniteSet(Kept(wanted))
    BY <1>2, KeptFinite
<1>4. DOMAIN tracked = Kept(wanted) /\ tracked = [f \in Kept(wanted) |-> tracked[f]]
    BY DEF SlotsKept
<1>5. \A f \in Kept(wanted) :
          /\ SlotOK(tracked[f], now, lastSequence, GivenUp)
          /\ WaitsForItsRead(tracked[f], f, readingOf, GivenUp)
          /\ f \in DOMAIN slots => Forward(slots[f].reading, tracked[f].reading)
    BY <1>3, KeptSlot
<1> HIDE DEF tracked
<1>6. tracked \in [Kept(wanted) -> Tracked]
    BY <1>4, <1>5 DEF SlotOK
<1>7. D \subseteq Kept(wanted) /\ D \cap DOMAIN readingOf = {} /\ IsFiniteSet(D)
    <2>1. D \subseteq Kept(wanted) /\ D \cap DOMAIN readingOf = {}
        BY <1>4 DEF Dispatched, Due
    <2>2. QED
        BY <1>3, <2>1, FS_Subset
<1>8. Cardinality(D) \in Nat
    BY <1>7, FS_CardinalityType
<1>9. \A f \in D : Rank(tracked, wanted, f) \in Numbers
                   /\ Rank(tracked, wanted, f) <= Cardinality(D)
    BY <1>2, <1>6, FreePlacesType, RankBounds
<1>10. now \in Nat /\ lastSequence \in Nat /\ lastSequence' \in Nat /\ lastSequence <= lastSequence'
    BY <1>1, <1>8 DEF FieldsIInv, FieldsTypes, Instants
<1>11. \A f \in D : /\ sequence[f] \in Numbers
                    /\ lastSequence < sequence[f] /\ sequence[f] <= lastSequence'
    <2>1. ASSUME NEW f \in D
          PROVE  /\ sequence[f] \in Numbers
                 /\ lastSequence < sequence[f] /\ sequence[f] <= lastSequence'
        <3>1. sequence[f] = lastSequence + Rank(tracked, wanted, f)
            OBVIOUS
        <3>2. lastSequence' = lastSequence + Cardinality(D)
            BY <1>1
        <3> HIDE DEF sequence, D
        <3>3. QED
            BY <1>8, <1>9, <1>10, <2>1, <3>1, <3>2 DEF Numbers
    <2>2. QED
        BY <2>1
<1> HIDE DEF D, sequence
<1>12. \A t \in fresh : /\ fieldOf[t] \in D /\ sequence[fieldOf[t]] = t
                        /\ t \in Numbers /\ lastSequence < t /\ t <= lastSequence'
    BY <1>11
<1> HIDE DEF fieldOf, fresh
<1>13. \A t \in DOMAIN outstanding : t \notin fresh /\ t <= lastSequence
    <2>1. \A t \in DOMAIN outstanding : t \in Nat /\ t <= lastSequence
        BY DEF FieldsIInv, FieldsTypes, ReadsIssued, Numbers
    <2>2. QED
        BY <1>10, <1>12, <2>1 DEF Numbers
<1>14. \A f \in DOMAIN readingOf : /\ readingOf[f] \in Nat /\ readingOf[f] <= lastSequence
                                   /\ readingOf[f] \notin fresh
    <2>1. \A f \in DOMAIN readingOf : readingOf[f] \in Nat /\ readingOf[f] <= lastSequence
        BY DEF FieldsIInv, FieldsTypes, ReadsIssued, Numbers
    <2>2. QED
        BY <1>10, <1>12, <2>1 DEF Numbers
<1>15. /\ DOMAIN outstanding' = DOMAIN outstanding \cup fresh
       /\ \A t \in DOMAIN outstanding : outstanding'[t] = GivenUp[t]
       /\ \A t \in fresh : /\ outstanding'[t] \in Dispatch
                           /\ outstanding'[t].issuedAt = now
    BY <1>1, <1>3, <1>7, <1>10, <1>12, <1>13 DEF Dispatch, Instants
<1>16. DOMAIN slots' = Kept(wanted)
    BY <1>1, <1>4
<1>17. FieldsTypes'
    <2>1. DOMAIN outstanding' \subseteq Numbers /\ outstanding' \in [DOMAIN outstanding' -> Dispatch]
        <3>1. \A t \in DOMAIN outstanding' : outstanding'[t] \in Dispatch
            BY <1>15, GivenUpReads
        <3>2. DOMAIN outstanding' \subseteq Numbers
            BY <1>12, <1>15 DEF FieldsIInv, FieldsTypes
        <3>3. QED
            BY <1>1, <3>1, <3>2
    <2>2. DOMAIN readingOf' \subseteq Pairs /\ readingOf' \in [DOMAIN readingOf' -> Numbers]
        BY <1>1, <1>3, <1>7, <1>11 DEF FieldsIInv, FieldsTypes
    <2>3. jobs' \in [DOMAIN jobs' -> QueuedJob]
        BY <1>1 DEF FieldsIInv, FieldsTypes, QueuedJob, Instants
    <2>4. inFlight' \in Int /\ abandoned' \in Int
        BY <1>1, <1>8, FreePlacesType
    <2>5. QED
        BY <1>1, <1>3, <1>10, <1>16, <2>1, <2>2, <2>3, <2>4 DEF FieldsIInv, FieldsTypes
<1>18. ReadsIssued'
    <2>1. ASSUME NEW t \in DOMAIN outstanding'
          PROVE  t <= lastSequence' /\ outstanding'[t].issuedAt <= now
        <3>1. CASE t \in fresh
            BY <1>10, <1>12, <1>15, <3>1
        <3>2. CASE t \in DOMAIN outstanding
            <4>1. t \in Nat /\ t <= lastSequence
                BY <1>13, <3>2 DEF FieldsIInv, FieldsTypes, Numbers
            <4>2. t <= lastSequence'
                BY <1>10, <4>1
            <4>3. QED
                BY <1>15, <3>2, <4>2, GivenUpReads DEF FieldsIInv, ReadsIssued
        <3>3. QED
            BY <1>15, <3>1, <3>2
    <2>2. ASSUME NEW f \in DOMAIN readingOf'
          PROVE  readingOf'[f] <= lastSequence'
        BY <1>1, <1>10, <1>11, <1>14
    <2>3. QED
        BY <1>1, <2>1, <2>2 DEF ReadsIssued
<1>19. AnsweredOnce'
    <2>1. DOMAIN jobs' \subseteq DOMAIN outstanding'
        BY <1>1, <1>15 DEF FieldsIInv, AnsweredOnce
    <2>2. ASSUME NEW i \in 1 .. Len(completions)
          PROVE  /\ ReplyOK(completions[i], outstanding')
                 /\ completions[i].sequence \notin DOMAIN jobs'
        <3>1. ReplyOK(completions[i], outstanding) /\ completions[i].sequence \notin DOMAIN jobs
            BY DEF FieldsIInv, AnsweredOnce
        <3>2. QED
            BY <1>1, <1>13, <1>15, <3>1, GivenUpReads DEF ReplyOK
    <2>3. QED
        BY <1>1, <2>1, <2>2 DEF FieldsIInv, AnsweredOnce
<1>20. ASSUME NEW f \in Kept(wanted)
       PROVE  /\ SlotOK(slots'[f], now, lastSequence', outstanding')
              /\ WaitsForItsRead(slots'[f], f, readingOf', outstanding')
              /\ slots'[f].reading = tracked[f].reading
    <2> DEFINE sl == tracked[f]
    <2>1. SlotOK(sl, now, lastSequence, GivenUp) /\ WaitsForItsRead(sl, f, readingOf, GivenUp)
        BY <1>5
    <2>2. sl \in Tracked
        BY <2>1 DEF SlotOK
    <2>3. /\ sl.pending \in Nat
          /\ sl.reading # NoReading => /\ sl.reading.observedAt \in Nat
                                       /\ sl.reading.sequence \in Nat
        BY <2>2 DEF Tracked, ReadingShown, Instants, Numbers
    <2>4. ReadingOK(sl.reading, now, lastSequence')
        BY <1>10, <2>1, <2>3 DEF SlotOK, ReadingOK
    <2>5. CASE f \notin D
        <3>1. slots'[f] = sl
            BY <1>1, <1>4, <2>5
        <3>2. sl.pending <= lastSequence'
            BY <1>10, <2>1, <2>3 DEF SlotOK
        <3>3. sl.pending \notin fresh
            BY <1>10, <1>12, <2>1, <2>3 DEF SlotOK, Numbers
        <3>4. WaitsForNewer(sl, outstanding')
            BY <1>15, <2>1, <3>3, GivenUpReads DEF SlotOK, WaitsForNewer
        <3>5. WaitsForItsRead(sl, f, readingOf', outstanding')
            <4>1. SUFFICES ASSUME f \in DOMAIN readingOf', readingOf'[f] \in DOMAIN outstanding'
                           PROVE  outstanding'[readingOf'[f]].abandoned \/ sl.pending = readingOf'[f]
                BY DEF WaitsForItsRead
            <4>2. f \in DOMAIN readingOf /\ readingOf'[f] = readingOf[f]
                BY <1>1, <2>5, <4>1
            <4>3. readingOf[f] \in DOMAIN outstanding
                BY <1>14, <1>15, <4>1, <4>2
            <4>4. QED
                BY <1>15, <2>1, <4>2, <4>3, GivenUpReads DEF WaitsForItsRead
        <3>6. QED
            BY <2>2, <2>4, <3>1, <3>2, <3>4, <3>5 DEF SlotOK
    <2>6. CASE f \in D
        <3>1. slots'[f] = [sl EXCEPT !.pending = sequence[f]]
            BY <1>1, <1>4, <2>6
        <3>2. sequence[f] \in Nat /\ lastSequence < sequence[f] /\ sequence[f] <= lastSequence'
            BY <1>11, <2>6 DEF Numbers
        <3>3. /\ slots'[f] \in Tracked /\ slots'[f].pending = sequence[f]
              /\ slots'[f].reading = sl.reading
            BY <2>2, <3>1, <3>2 DEF Tracked
        <3>4. sequence[f] \in fresh
            BY <2>6 DEF fresh
        <3>5. WaitsForNewer(slots'[f], outstanding')
            <4>1. SUFFICES ASSUME sl.reading # NoReading
                           PROVE  sl.reading.sequence < sequence[f] /\ sl.reading.observedAt <= now
                BY <1>15, <3>3, <3>4 DEF WaitsForNewer
            <4>2. sl.reading.sequence <= lastSequence /\ sl.reading.observedAt <= now
                BY <2>1, <4>1 DEF SlotOK, ReadingOK
            <4>3. QED
                BY <1>10, <2>3, <3>2, <4>1, <4>2
        <3>6. WaitsForItsRead(slots'[f], f, readingOf', outstanding')
            BY <1>1, <2>6, <3>3 DEF WaitsForItsRead
        <3>7. QED
            BY <2>4, <3>2, <3>3, <3>5, <3>6 DEF SlotOK
    <2>7. QED
        BY <2>5, <2>6
<1>21. SlotsOK'
    BY <1>1, <1>16, <1>20 DEF SlotsOK
<1>22. MovesForward
    BY <1>5, <1>16, <1>20 DEF MovesForward
<1>23. QED
    BY <1>17, <1>18, <1>19, <1>21, <1>22 DEF FieldsIInv

-----------------------------------------------------------------------------
(* The theorems.                                                           *)

\* Every step of the collector keeps the invariant.
LEMMA NextFields ==
    ASSUME FieldsIInv, [FieldsNext]_fieldVars
    PROVE  FieldsIInv' /\ MovesForward
<1>1. CASE Tick
    BY <1>1, StepTick
<1>2. ASSUME NEW wanted \in Requests, Demand(wanted)
      PROVE  FieldsIInv' /\ MovesForward
    BY <1>2, StepDemand
<1>3. ASSUME NEW s \in DOMAIN jobs, JobStart(s)
      PROVE  FieldsIInv' /\ MovesForward
    BY <1>3, StepJobStart
<1>4. FieldResult \subseteq Result /\ FailedRead \in Result /\ FailedRead.kind = "failed"
    BY FieldsAssumption, BoundsAssumption DEF FieldResult, Result, FailedRead, Times, Instants
<1>5. ASSUME NEW s \in DOMAIN jobs, JobFinish(s)
      PROVE  FieldsIInv' /\ MovesForward
    <2>1. jobs[s].started \in Instants
        BY DEF FieldsIInv, FieldsTypes, QueuedJob
    <2>2. PICK result \in FieldResult : /\ result.kind = "value" => result.held = jobs[s].started
                                        /\ Answer(s, jobs[s].started, result)
        BY <1>5 DEF JobFinish
    <2>3. result \in Result
        BY <1>4
    <2>4. QED
        BY <2>1, <2>2, <2>3, StepAnswer
<1>6. ASSUME NEW s \in DOMAIN jobs, JobDropped(s)
      PROVE  FieldsIInv' /\ MovesForward
    <2>1. now \in Instants /\ Answer(s, now, FailedRead)
        BY <1>6 DEF JobDropped, FieldsIInv, FieldsTypes
    <2>2. QED
        BY <1>4, <2>1, StepAnswer
<1>7. CASE CollectOne
    BY <1>7, StepCollectOne
<1>8. CASE CollectEnd
    BY <1>8, StepCollectEnd
<1>9. CASE UNCHANGED fieldVars
    <2>1. FieldsIInv'
        BY <1>9 DEF fieldVars, FieldsIInv, FieldsTypes, SlotsOK, ReadsIssued, AnsweredOnce
    <2>2. MovesForward
        BY <1>9 DEF fieldVars, MovesForward, Forward
    <2>3. QED
        BY <2>1, <2>2
<1>10. QED
    BY <1>1, <1>2, <1>3, <1>5, <1>6, <1>7, <1>8, <1>9 DEF FieldsNext

\* The invariant holds of every behaviour of the collector.
THEOREM FieldsInvariance == FieldsSpec => []FieldsIInv
<1>1. FieldsIInv /\ [FieldsNext]_fieldVars => FieldsIInv'
    BY NextFields
<1>2. QED
    BY <1>1, InitFields, PTL DEF FieldsSpec

\* A value shown as present is recent: its reading is dated by the instant the
\* source held it, so FieldState's age test is about the value itself.
LEMMA PresentStep == FieldsIInv => PresentIsRecent
<1> SUFFICES ASSUME FieldsIInv, NEW f \in DOMAIN slots, FieldState(f) = "present"
             PROVE  now - slots[f].reading.result.held <= MaxAge
    BY DEF PresentIsRecent
<1> DEFINE r == slots[f].reading
<1>1. SlotOK(slots[f], now, lastSequence, outstanding)
    BY DEF FieldsIInv, SlotsOK
<1>2. slots[f] \in Tracked /\ ReadingOK(r, now, lastSequence)
    BY <1>1 DEF SlotOK
<1>3. r # NoReading
    BY DEF FieldState
<1>4. r \in ReadingShown
    BY <1>2, <1>3 DEF Tracked
<1>5. r.result.kind # "present"
    BY <1>4, FieldsAssumption DEF ReadingShown, Result
<1>6. r.result.kind = "value" /\ ~(AgeAt(r.observedAt, now) > MaxAge)
    BY <1>3, <1>5 DEF FieldState
<1>7. r.result.held = r.observedAt /\ r.observedAt <= now
    BY <1>2, <1>3, <1>6 DEF ReadingOK
<1>8. r.observedAt \in Nat /\ now \in Nat /\ MaxAge \in Nat
    BY <1>4, LimitsAssumption DEF ReadingShown, Instants, FieldsIInv, FieldsTypes, ValidLimits
<1> HIDE DEF r
<1>9. now - r.result.held <= MaxAge
    BY <1>6, <1>7, <1>8 DEF AgeAt
<1>10. QED
    BY <1>9 DEF r

\* Whatever the delay between a read, its answer and its collection, a value
\* OnDemandFields::state shows as present was held within MaxAge of now.
THEOREM PresentValuesAreRecent == FieldsSpec => []PresentIsRecent
BY FieldsInvariance, PresentStep, PTL

\* While a field stays demanded, accept and expire never take its reading back
\* to an earlier read or an earlier instant.
THEOREM ReadingsNeverGoBack == FieldsSpec => ReadingsMoveForward
<1>1. FieldsIInv /\ [FieldsNext]_fieldVars =>
          [\A f \in DOMAIN slots \cap DOMAIN slots' :
              LET old == slots[f].reading
                  new == slots'[f].reading
              IN  new # old => \/ old = NoReading
                               \/ new.sequence > old.sequence /\ new.observedAt >= old.observedAt]_fieldVars
    BY NextFields DEF MovesForward, Forward
<1>2. QED
    BY <1>1, FieldsInvariance, PTL DEF FieldsSpec, ReadingsMoveForward

-----------------------------------------------------------------------------
(***************************************************************************)
(* The scan: what a record says is of one process.                         *)
(*                                                                         *)
(* A baseline is kept under the PID and the start time it was read with,   *)
(* and if its scan knew the boot, that boot is the last one read (Keeps).  *)
(* A scan that reads its boot has dropped the baselines of any other, so   *)
(* the interval it measures is of its own boot; one that cannot read it    *)
(* may measure across boots, and does not know it.  A directory handle     *)
(* reaches only the process it was opened on, so the start time it reads   *)
(* is that of its pin (Pinned).                                            *)
(***************************************************************************)

Counted == [ticks : Nat, at : Nat, boot : Nat, start : Nat, known : BOOLEAN]
Baselines == UNION {[D -> Counted] : D \in SUBSET (Pids \X Nat)}
Scanned == [pid : Pids, start : Nat, boot : Nat, resident : Nat, residentOf : Nat,
            cpu : [kind : {"warming up", "unavailable", "measured"}, ticks : Nat, from : Counted]]
Opened == [stage : {"none", "open", "stat", "statm", "confirm"}, pid : Pids \cup {None},
           pin : Nat, start : Nat, ticks : Nat, at : Nat]
Ledger == [named : SUBSET Pids, count : Nat, enumerable : BOOLEAN]
HostSample == [cpu : [state : {"unread", "warming up", "interrupted", "measured"},
                     busy : Int, total : Int], unread : SUBSET SystemFiles]
ScanState == [phase : {"idle", "identified", "sampled", "listed", "done"}, boot : Nat,
              system : HostSample, rootFailed : BOOLEAN, cursor : Nat, file : Opened,
              records : Seq(Scanned), skipped : Ledger, capped : Ledger, fresh : Baselines]

HostTypes ==
    /\ process \in [Pids -> 0 .. MaxStart] /\ pages \in [Pids -> Nat] /\ ticks \in [Pids -> Nat]
    /\ boot \in Nat /\ boot # Missing /\ changes \in Nat
    /\ counters \in [busy : Nat, idle : Nat]

ScanTypes ==
    /\ scan \in ScanState /\ baselines \in Baselines /\ cpuBoot \in Nat
    /\ systemBaseline \in [busy : Int, idle : Int]
    /\ faults \in Nat /\ scans \in Nat
    /\ scan.phase = "idle" => scan = IdleScan
    /\ scan.file # NoFile => scan.file.stage # "none" /\ scan.file.pid \in Pids
    /\ scan.file.stage # "none" => scan.phase = "listed"

\* The baseline kept for an instance is of it, and of the last boot read if known.
Own(instance, counted, read) ==
    /\ counted.start = instance[2]
    /\ counted.known => counted.boot = read /\ read # Missing

BaselinesOwn ==
    /\ \A i \in DOMAIN baselines : Own(i, baselines[i], cpuBoot)
    /\ \A i \in DOMAIN scan.fresh : Own(i, scan.fresh[i], cpuBoot)

BootIsRead == scan.boot # Missing => scan.boot = boot /\ cpuBoot = boot

Pinned == (Access = "pinned" /\ scan.file.stage \in {"statm", "confirm"}) =>
              scan.file.start = scan.file.pin

ScanSound == HostTypes /\ ScanTypes /\ BaselinesOwn /\ BootIsRead /\ Pinned /\ OneInstance

\* The scan starts with nothing known and nothing kept.
LEMMA ScanBegins == ScanInit => ScanSound
<1> SUFFICES ASSUME ScanInit PROVE ScanSound
    OBVIOUS
<1>1. HostTypes
    BY HostAssumption DEF ScanInit, HostTypes, Missing
<1>2. baselines \in Baselines /\ IdleScan.fresh \in Baselines
    <2>1. <<>> \in [{} -> Counted]
        OBVIOUS
    <2> QED
        BY <2>1 DEF ScanInit, Baselines, IdleScan
<1>3. IdleScan \in ScanState
    <2>1. NoFile \in Opened /\ NoLedger \in Ledger /\ NoSample \in HostSample
        BY DEF NoFile, Opened, None, NoLedger, Ledger, NoSample, SystemCpu, HostSample
    <2>2. <<>> \in Seq(Scanned)
        OBVIOUS
    <2> QED
        BY <1>2, <2>1, <2>2 DEF IdleScan, ScanState, Missing
<1>4. ScanTypes
    BY <1>2, <1>3 DEF ScanInit, ScanTypes, IdleScan, NoCounters, Missing, NoFile
<1>5. BaselinesOwn /\ BootIsRead /\ Pinned /\ OneInstance
    BY DEF ScanInit, IdleScan, BaselinesOwn, BootIsRead, Pinned, OneInstance, NoFile
<1> QED
    BY <1>1, <1>4, <1>5 DEF ScanSound

\* A PID is handed out with a start time within the host's counter.
LEMMA SpawnedStart ==
    ASSUME HostTypes, NEW p \in Pids, Spawn(p)
    PROVE  process' \in [Pids -> 0 .. MaxStart]
<1> DEFINE Is(s) == (\E q \in Pids : process[q] = s) /\ \A q \in Pids : process[q] <= s
           last == CHOOSE s \in 0 .. MaxStart : Is(s)
           Up == {s \in 0 .. MaxStart : \A q \in Pids : process[q] <= s}
<1>1. process \in [Pids -> 0 .. MaxStart] /\ MaxStart \in Nat
    BY HostAssumption DEF HostTypes
<1>2. Up \in SUBSET Nat /\ MaxStart \in Up
    BY <1>1
<1>3. PICK s \in Up : \A m \in Up : s <= m
    BY <1>2, LeastExists
<1>4. \E q \in Pids : process[q] = s
    <2> SUFFICES ASSUME \A q \in Pids : process[q] # s PROVE FALSE
        OBVIOUS
    <2>1. \A q \in Pids : process[q] <= s - 1 /\ 0 <= process[q]
        BY <1>1, <1>3
    <2>2. s - 1 \in Up
        BY <1>1, <1>3, <2>1
    <2> QED
        BY <1>3, <2>2
<1>5. s \in 0 .. MaxStart /\ Is(s)
    BY <1>3, <1>4
<1>6. last \in 0 .. MaxStart
    <2> HIDE DEF Is
    <2> QED
        BY <1>5
<1>7. last < MaxStart /\ process' = [process EXCEPT ![p] = last + 1]
    BY DEF Spawn
<1> HIDE DEF last
<1> QED
    BY <1>1, <1>6, <1>7

\* The host changes between two reads, and its boot only between two scans.
LEMMA HostKeeps ==
    ASSUME ScanSound, HostChange
    PROVE  ScanSound'
<1>1. HostTypes /\ ScanTypes /\ changes' = changes + 1 /\ UNCHANGED scanVars
    BY DEF ScanSound, HostChange
<1>2. HostTypes' /\ (boot' # boot => scan.phase = "idle")
    <2>1. ASSUME NEW p \in Pids, Exit(p) PROVE HostTypes' /\ boot' = boot
        BY <1>1, <2>1, HostAssumption DEF HostTypes, Exit, None, Missing
    <2>2. ASSUME NEW p \in Pids, Spawn(p) PROVE HostTypes' /\ boot' = boot
        <3>1. process' \in [Pids -> 0 .. MaxStart]
            BY <1>1, <2>2, SpawnedStart
        <3>2. pages' \in [Pids -> Nat]
            BY <1>1, <2>2, HostAssumption DEF HostTypes, Spawn
        <3> QED
            BY <1>1, <2>2, <3>1, <3>2 DEF HostTypes, Spawn, Missing
    <2>3. ASSUME NEW p \in Pids, Work(p) PROVE HostTypes' /\ boot' = boot
        <3>1. pages' \in [Pids -> Nat]
            BY <1>1, <2>3, HostAssumption DEF HostTypes, Work
        <3> QED
            BY <1>1, <2>3, <3>1 DEF HostTypes, Work, Missing
    <2>4. ASSUME Reboot PROVE HostTypes' /\ scan.phase = "idle"
        BY <1>1, <2>4, HostAssumption DEF HostTypes, Reboot, Missing
    <2> QED
        BY <2>1, <2>2, <2>3, <2>4 DEF HostChange
<1>3. ScanTypes'
    BY <1>1 DEF ScanTypes, scanVars
<1>4. BaselinesOwn' /\ Pinned'
    BY <1>1 DEF ScanSound, BaselinesOwn, Pinned, scanVars
<1>5. BootIsRead' /\ OneInstance'
    <2>1. CASE boot' = boot
        BY <1>1, <2>1 DEF ScanSound, BootIsRead, OneInstance, scanVars
    <2>2. CASE boot' # boot
        BY <1>1, <1>2, <2>2 DEF ScanTypes, BootIsRead, OneInstance, scanVars, IdleScan
    <2> QED
        BY <2>1, <2>2
<1> QED
    BY <1>2, <1>3, <1>4, <1>5 DEF ScanSound

\* A step of the scan that reads no record leaves what was recorded and kept.
LEMMA ScanKeepsRecords ==
    ASSUME ScanSound, UNCHANGED <<hostVars, baselines, cpuBoot>>, ScanTypes',
           scan'.records = scan.records, scan'.fresh = scan.fresh, scan'.boot = scan.boot, Pinned'
    PROVE  ScanSound'
<1>1. HostTypes'
    BY DEF ScanSound, HostTypes, hostVars
<1>2. BaselinesOwn' /\ BootIsRead' /\ OneInstance'
    BY DEF ScanSound, BaselinesOwn, BootIsRead, OneInstance, hostVars
<1> QED
    BY <1>1, <1>2 DEF ScanSound

\* Counters of another boot are dropped as the boot is read.
LEMMA IdentityKeeps ==
    ASSUME ScanSound, ReadIdentity
    PROVE  ScanSound'
<1> PICK read \in {boot, Missing} :
           /\ IF read = Missing THEN Fault ELSE UNCHANGED faults
           /\ scan' = [IdleScan EXCEPT !.phase = "identified", !.boot = read]
           /\ baselines' = IF BootChanged(read) THEN <<>> ELSE baselines
           /\ systemBaseline' = IF BootChanged(read) THEN NoCounters ELSE systemBaseline
           /\ cpuBoot' = IF read = Missing THEN cpuBoot ELSE read
    BY DEF ReadIdentity
<1>1. /\ HostTypes /\ ScanTypes /\ BaselinesOwn /\ UNCHANGED hostVars
      /\ scans' = scans + 1 /\ faults' \in {faults, faults + 1}
    BY DEF ScanSound, ReadIdentity, Fault
<1>2. HostTypes'
    BY <1>1 DEF HostTypes, hostVars
<1>3. scan.phase = "idle" /\ scan = IdleScan /\ scan \in ScanState /\ read \in Nat
    BY <1>1 DEF ReadIdentity, ScanTypes, HostTypes, Missing
<1>4. scan' \in ScanState /\ scan' = [scan EXCEPT !.phase = "identified", !.boot = read]
    BY <1>3 DEF ScanState
<1>5. scan'.records = <<>> /\ scan'.fresh = <<>> /\ scan'.file = NoFile /\ scan'.boot = read
    BY <1>3, <1>4 DEF IdleScan, ScanState
<1>6. baselines' \in Baselines
    <2>1. <<>> \in [{} -> Counted]
        OBVIOUS
    <2> QED
        BY <1>1, <2>1 DEF Baselines, ScanTypes
<1>7. ScanTypes'
    BY <1>1, <1>3, <1>4, <1>5, <1>6, SMTT(30) DEF ScanTypes, NoCounters, NoFile, ScanState
<1>8. BaselinesOwn'
    <2>1. ASSUME NEW i \in DOMAIN baselines' PROVE Own(i, baselines'[i], cpuBoot')
        <3>1. ~BootChanged(read) /\ i \in DOMAIN baselines /\ baselines'[i] = baselines[i]
            BY <2>1
        <3>2. Own(i, baselines[i], cpuBoot)
            BY <1>1, <3>1 DEF BaselinesOwn
        <3> QED
            BY <3>1, <3>2 DEF Own, BootChanged
    <2> QED
        BY <1>5, <2>1 DEF BaselinesOwn
<1>9. BootIsRead' /\ Pinned' /\ OneInstance'
    BY <1>1, <1>5 DEF BootIsRead, Pinned, OneInstance, hostVars, NoFile
<1> QED
    BY <1>2, <1>7, <1>8, <1>9 DEF ScanSound

\* The host's own counters.
LEMMA SystemKeeps ==
    ASSUME ScanSound, ReadSystem
    PROVE  ScanSound'
<1> PICK counted \in BOOLEAN, unread \in {{}} \cup {{file} : file \in SystemFiles} :
           /\ systemBaseline' = IF counted THEN counters ELSE NoCounters
           /\ scan' = [scan EXCEPT !.phase = "sampled",
                  !.system = [cpu |-> IF counted THEN SystemCpuSince(systemBaseline, counters)
                                      ELSE SystemCpu("unread", 0, 0),
                              unread |-> unread]]
           /\ faults' = faults + Cardinality(unread) + IF counted THEN 0 ELSE 1
    BY DEF ReadSystem
<1> DEFINE cpu == IF counted THEN SystemCpuSince(systemBaseline, counters)
                  ELSE SystemCpu("unread", 0, 0)
           got == [cpu |-> cpu, unread |-> unread]
<1>1. /\ HostTypes /\ ScanTypes /\ scan.phase = "identified"
      /\ UNCHANGED <<hostVars, baselines, cpuBoot, scans>>
    BY DEF ScanSound, ReadSystem
<1>2. cpu \in [state : {"unread", "warming up", "interrupted", "measured"}, busy : Int, total : Int]
    BY <1>1 DEF HostTypes, ScanTypes, SystemCpuSince, SystemCpu
<1>3. got \in HostSample
    <2> HIDE DEF cpu
    <2> QED
        BY <1>2 DEF HostSample
<1>4. faults' \in Nat
    <2>1. Cardinality(unread) \in Nat
        <3>1. IsFiniteSet(unread)
            BY FS_EmptySet, FS_Singleton
        <3> QED
            BY <3>1, FS_CardinalityType
    <2> QED
        BY <1>1, <2>1 DEF ScanTypes
<1>5. scan' = [scan EXCEPT !.phase = "sampled", !.system = got]
    OBVIOUS
<1> HIDE DEF got, cpu
<1>6. /\ scan' \in ScanState /\ scan'.phase = "sampled" /\ scan'.file = scan.file
      /\ scan'.records = scan.records /\ scan'.fresh = scan.fresh /\ scan'.boot = scan.boot
    BY <1>1, <1>3, <1>5 DEF ScanTypes, ScanState
<1>7. scan.file.stage = "none" /\ scan.file = NoFile
    BY <1>1 DEF ScanTypes, ScanState, Opened
<1>8. ScanTypes' /\ Pinned'
    BY <1>1, <1>4, <1>6, <1>7 DEF ScanTypes, HostTypes, NoCounters, Pinned
<1> QED
    BY <1>1, <1>6, <1>8, ScanKeepsRecords

\* A ledger names PIDs, counts them, and names this one or no longer all.
LEMMA LedgerTypes ==
    ASSUME NEW ledger \in Ledger, NEW limit, NEW p \in Pids
    PROVE  /\ LedgerRecord(ledger, limit, p) \in Ledger
           /\ LedgerUnnamed(ledger) \in Ledger /\ MarkUnenumerable(ledger) \in Ledger
           /\ ledger.named \subseteq LedgerRecord(ledger, limit, p).named
           /\ p \in LedgerRecord(ledger, limit, p).named
                 \/ ~LedgerRecord(ledger, limit, p).enumerable
           /\ ~ledger.enumerable => ~LedgerRecord(ledger, limit, p).enumerable
           /\ ~LedgerUnnamed(ledger).enumerable /\ ~MarkUnenumerable(ledger).enumerable
           /\ LedgerUnnamed(ledger).named = ledger.named
<1> DEFINE fits == Cardinality(ledger.named) < limit \/ p \in ledger.named
<1>1. LedgerRecord(ledger, limit, p) =
        IF fits THEN [ledger EXCEPT !.named = @ \cup {p}, !.count = @ + 1]
        ELSE [ledger EXCEPT !.enumerable = FALSE, !.count = @ + 1]
    BY Zenon DEF LedgerRecord
<1> HIDE DEF fits
<1> DEFINE new == LedgerRecord(ledger, limit, p)
<1>0. PICK n \in Nat : n = ledger.count + 1
    BY DEF Ledger
<1>2. /\ LedgerUnnamed(ledger) \in Ledger /\ ~LedgerUnnamed(ledger).enumerable
      /\ LedgerUnnamed(ledger).named = ledger.named
    <2>1. LedgerUnnamed(ledger) = [ledger EXCEPT !.enumerable = FALSE, !.count = n]
        BY <1>0, Zenon DEF LedgerUnnamed
    <2> QED
        BY <2>1 DEF Ledger
<1>3. MarkUnenumerable(ledger) \in Ledger /\ ~MarkUnenumerable(ledger).enumerable
    BY DEF Ledger, MarkUnenumerable
<1>4. CASE fits
    <2>1. new = [ledger EXCEPT !.named = @ \cup {p}, !.count = n]
        BY <1>0, <1>1, <1>4, Zenon
    <2> HIDE DEF new
    <2>2. new \in Ledger /\ new.named = ledger.named \cup {p} /\ new.enumerable = ledger.enumerable
        BY <2>1 DEF Ledger
    <2> QED
        BY <1>2, <1>3, <2>2, Zenon DEF new
<1>5. CASE ~fits
    <2>1. new = [ledger EXCEPT !.enumerable = FALSE, !.count = n]
        BY <1>0, <1>1, <1>5, Zenon
    <2> HIDE DEF new
    <2>2. new \in Ledger /\ new.named = ledger.named /\ new.enumerable = FALSE
        BY <2>1 DEF Ledger
    <2> QED
        BY <1>2, <1>3, <2>2, Zenon DEF new
<1> QED
    BY <1>4, <1>5

\* The root is listed, or the scan can name no absence.
LEMMA ListKeeps ==
    ASSUME ScanSound, ListRoot
    PROVE  ScanSound'
<1>1. /\ ScanTypes /\ scan.phase = "sampled" /\ scan \in ScanState
      /\ UNCHANGED <<hostVars, baselines, cpuBoot, systemBaseline, scans>>
      /\ faults' \in {faults, faults + 1}
    BY DEF ScanSound, ScanTypes, ListRoot, Fault
<1>2. scan.file.stage = "none" /\ scan.file = NoFile
    BY <1>1 DEF ScanTypes, ScanState, Opened
<1>3. /\ scan' \in ScanState /\ scan'.phase \in {"listed", "done"} /\ scan'.file = scan.file
      /\ scan'.records = scan.records /\ scan'.fresh = scan.fresh /\ scan'.boot = scan.boot
    <2>1. CASE scan' = [scan EXCEPT !.phase = "listed"]
        BY <1>1, <2>1 DEF ScanState
    <2>2. CASE scan' = [scan EXCEPT !.phase = "done", !.rootFailed = TRUE,
                                    !.skipped = MarkUnenumerable(@)]
        <3>1. MarkUnenumerable(scan.skipped) \in Ledger
            BY <1>1 DEF ScanState, MarkUnenumerable, Ledger
        <3> QED
            BY <1>1, <2>2, <3>1 DEF ScanState
    <2> QED
        BY <2>1, <2>2 DEF ListRoot
<1>4. ScanTypes' /\ Pinned'
    BY <1>1, <1>2, <1>3 DEF ScanTypes, Pinned
<1> QED
    BY <1>1, <1>3, <1>4, ScanKeepsRecords

\* An entry is passed, or opened.
LEMMA EntryKeeps ==
    ASSUME ScanSound, NEW p \in Pids, NextEntry(p)
    PROVE  ScanSound'
<1> DEFINE passed == [scan EXCEPT !.cursor = p]
           opened == [NoFile EXCEPT !.stage = "open", !.pid = p]
<1>1. /\ ScanTypes /\ scan.phase = "listed" /\ scan.file = NoFile /\ scan \in ScanState
      /\ p \in Nat /\ UNCHANGED <<hostVars, baselines, cpuBoot, systemBaseline, scans>>
      /\ faults' \in {faults, faults + 1}
    BY HostAssumption DEF ScanSound, ScanTypes, NextEntry, Fault, Listing
<1>2. passed \in ScanState /\ opened \in Opened /\ opened.stage = "open" /\ opened.pid = p
    BY <1>1 DEF ScanState, Opened, NoFile, None
<1>3. /\ LedgerUnnamed(scan.skipped) \in Ledger
      /\ LedgerRecord(scan.capped, UncertainLimit, p) \in Ledger
    BY <1>1, LedgerTypes DEF ScanState
<1>4. \/ scan' = [passed EXCEPT !.skipped = LedgerUnnamed(@)]
      \/ scan' = [scan EXCEPT !.file = opened]
      \/ scan' = [passed EXCEPT !.capped = LedgerRecord(@, UncertainLimit, p)]
      \/ scan' = [passed EXCEPT !.file = opened]
    BY Zenon DEF NextEntry
<1> HIDE DEF opened
<1>5. /\ scan' \in ScanState /\ scan'.phase = "listed" /\ scan'.file \in {NoFile, opened}
      /\ scan'.records = scan.records /\ scan'.fresh = scan.fresh /\ scan'.boot = scan.boot
    BY <1>1, <1>2, <1>3, <1>4, ZenonT(60) DEF ScanState
<1>6. ScanTypes' /\ Pinned'
    BY <1>1, <1>2, <1>5 DEF ScanTypes, Pinned, NoFile
<1> QED
    BY <1>1, <1>5, <1>6, ScanKeepsRecords

\* A file that is no longer read leaves the scan where it was.
LEMMA FileClosed ==
    ASSUME ScanSound, scan.file.stage # "none", scan' \in {Skip(scan.file.pid), Vanished},
           UNCHANGED <<hostVars, baselines, cpuBoot, systemBaseline, scans>>,
           faults' \in {faults, faults + 1}
    PROVE  ScanSound'
<1>1. ScanTypes /\ scan \in ScanState /\ scan.phase = "listed" /\ scan.file.pid \in Pids
    BY DEF ScanSound, ScanTypes, NoFile
<1>2. NoFile \in Opened
    BY DEF Opened, NoFile, None
<1>3. /\ scan' \in ScanState /\ scan'.phase = "listed" /\ scan'.file = NoFile
      /\ scan'.records = scan.records /\ scan'.fresh = scan.fresh /\ scan'.boot = scan.boot
    <2>1. CASE scan' = Vanished
        BY <1>1, <1>2, <2>1 DEF ScanState, Vanished
    <2>2. CASE scan' = Skip(scan.file.pid)
        <3> DEFINE limit == IF RecordLimit < UncertainLimit THEN RecordLimit ELSE UncertainLimit
                   ledger == LedgerRecord(scan.skipped, limit, scan.file.pid)
        <3>1. ledger \in Ledger
            BY <1>1, LedgerTypes DEF ScanState
        <3>2. scan' = [scan EXCEPT !.file = NoFile, !.skipped = ledger]
            BY <2>2 DEF Skip
        <3> HIDE DEF ledger
        <3> QED
            BY <1>1, <1>2, <3>1, <3>2 DEF ScanState
    <2> QED
        BY <2>1, <2>2
<1>4. ScanTypes' /\ Pinned'
    BY <1>1, <1>3 DEF ScanTypes, Pinned, NoFile
<1> QED
    BY <1>3, <1>4, ScanKeepsRecords

\* The scan goes on with another stage of the file it has open.
LEMMA FileRead ==
    ASSUME ScanSound, scan.phase = "listed", NEW file \in Opened, file.stage # "none", file.pid \in Pids,
           scan' = [scan EXCEPT !.file = file],
           (Access = "pinned" /\ file.stage \in {"statm", "confirm"}) => file.start = file.pin,
           UNCHANGED <<hostVars, baselines, cpuBoot, systemBaseline, scans>>,
           faults' \in {faults, faults + 1}
    PROVE  ScanSound'
<1>1. ScanTypes /\ scan \in ScanState
    BY DEF ScanSound, ScanTypes
<1>2. /\ scan' \in ScanState /\ scan'.phase = "listed" /\ scan'.file = file
      /\ scan'.records = scan.records /\ scan'.fresh = scan.fresh /\ scan'.boot = scan.boot
    BY <1>1 DEF ScanState
<1>3. ScanTypes' /\ Pinned'
    BY <1>1, <1>2 DEF ScanTypes, Pinned
<1> QED
    BY <1>2, <1>3, ScanKeepsRecords

\* The process under an open file, and the one its reads reach.
LEMMA ReachedTypes ==
    ASSUME ScanSound, scan.file.stage # "none"
    PROVE  /\ scan.phase = "listed" /\ scan.file \in Opened /\ scan.file.pid \in Pids
           /\ process[scan.file.pid] \in Nat /\ Reached(scan.file) \in Nat
           /\ (Access = "pinned" /\ Reached(scan.file) # None) =>
                 Reached(scan.file) = scan.file.pin
<1>1. scan.phase = "listed" /\ scan.file \in Opened /\ scan.file.pid \in Pids
    BY DEF ScanSound, ScanTypes, ScanState, NoFile
<1>2. process[scan.file.pid] \in Nat
    <2>1. process \in [Pids -> 0 .. MaxStart] /\ MaxStart \in Nat
        BY HostAssumption DEF ScanSound, HostTypes
    <2>2. process[scan.file.pid] \in 0 .. MaxStart
        BY <1>1, <2>1, Zenon
    <2> QED
        BY <2>1, <2>2
<1> QED
    BY <1>1, <1>2 DEF Reached, None

\* A record's directory is opened.
LEMMA OpenKeeps ==
    ASSUME ScanSound, OpenRecord
    PROVE  ScanSound'
<1>1. /\ scan.file.stage = "open" /\ faults' \in {faults, faults + 1}
      /\ UNCHANGED <<hostVars, baselines, cpuBoot, systemBaseline, scans>>
    BY DEF OpenRecord, Fault
<1>2. scan.phase = "listed" /\ scan.file \in Opened /\ scan.file.pid \in Pids
      /\ process[scan.file.pid] \in Nat
    BY <1>1, ReachedTypes
<1>3. CASE scan' \in {Skip(scan.file.pid), Vanished}
    BY <1>1, <1>3, FileClosed
<1>4. CASE scan' = [scan EXCEPT !.file.stage = "stat", !.file.pin = process[scan.file.pid]]
    <2> DEFINE file == [scan.file EXCEPT !.stage = "stat", !.pin = process[scan.file.pid]]
    <2>1. file \in Opened /\ file.stage = "stat" /\ file.pid \in Pids
        BY <1>2 DEF Opened
    <2>2. scan' = [scan EXCEPT !.file = file]
        BY <1>4 DEF ScanSound, ScanTypes, ScanState
    <2> HIDE DEF file
    <2> QED
        BY <1>1, <1>2, <2>1, <2>2, FileRead
<1> QED
    BY <1>3, <1>4 DEF OpenRecord

\* The start time is read.
LEMMA StatKeeps ==
    ASSUME ScanSound, ReadStat
    PROVE  ScanSound'
<1>1. /\ scan.file.stage = "stat" /\ faults' \in {faults, faults + 1}
      /\ UNCHANGED <<hostVars, baselines, cpuBoot, systemBaseline, scans>>
    BY DEF ReadStat, Fault
<1>2. /\ scan.phase = "listed" /\ scan.file \in Opened /\ scan.file.pid \in Pids
      /\ Reached(scan.file) \in Nat
      /\ (Access = "pinned" /\ Reached(scan.file) # None) => Reached(scan.file) = scan.file.pin
    BY <1>1, ReachedTypes
<1>3. CASE scan' \in {Skip(scan.file.pid), Vanished}
    BY <1>1, <1>3, FileClosed
<1>4. CASE /\ Reached(scan.file) # None
           /\ scan' = [scan EXCEPT !.file = [@ EXCEPT !.stage = "statm",
                                                      !.start = Reached(scan.file),
                                                      !.ticks = ticks[scan.file.pid],
                                                      !.at = clock]]
    <2> DEFINE file == [scan.file EXCEPT !.stage = "statm", !.start = Reached(scan.file),
                                         !.ticks = ticks[scan.file.pid], !.at = clock]
    <2>1. ticks[scan.file.pid] \in Nat /\ clock \in Nat
        BY <1>2 DEF ScanSound, HostTypes, clock
    <2>2. /\ file \in Opened /\ file.stage = "statm" /\ file.pid \in Pids
          /\ file.start = Reached(scan.file) /\ file.pin = scan.file.pin
        BY <1>2, <2>1 DEF Opened
    <2>3. scan' = [scan EXCEPT !.file = file]
        BY <1>4
    <2> HIDE DEF file
    <2> QED
        BY <1>1, <1>2, <1>4, <2>2, <2>3, FileRead
<1> QED
    BY <1>3, <1>4, Zenon DEF ReadStat

\* The usage published and the baseline kept for an instance are both of it.
LEMMA SampledOwn ==
    ASSUME NEW kept \in Baselines, NEW i \in Pids \X Nat, NEW current \in Counted,
           NEW read, current.start = i[2],
           \A k \in DOMAIN kept : Own(k, kept[k], read), Own(i, current, read)
    PROVE  LET cpu == SampleCpu(kept, i, current)
           IN  /\ cpu.usage \in [kind : {"warming up", "unavailable", "measured"}, ticks : Nat,
                                 from : Counted]
               /\ cpu.keep \in Counted
               /\ Own(i, cpu.usage.from, read) /\ Own(i, cpu.keep, read)
<1> DEFINE cpu == SampleCpu(kept, i, current)
<1>1. CASE i \notin DOMAIN kept
    <2>1. cpu = [usage |-> [kind |-> "warming up", ticks |-> 0, from |-> current], keep |-> current]
        BY <1>1 DEF SampleCpu, Usage
    <2> HIDE DEF cpu
    <2>2. cpu.usage.from = current /\ cpu.keep = current
        BY <2>1
    <2>3. cpu.usage \in [kind : {"warming up", "unavailable", "measured"}, ticks : Nat,
                         from : Counted]
        BY <2>1
    <2> QED
        BY <2>2, <2>3 DEF cpu
<1>2. CASE i \in DOMAIN kept
    <2>1. PICK D \in SUBSET (Pids \X Nat) : kept \in [D -> Counted]
        BY DEF Baselines
    <2>2. PICK previous \in Counted : previous = kept[i] /\ Own(i, previous, read)
        BY <1>2, <2>1
    <2>3. CASE current.at = previous.at
        <3>1. cpu = [usage |-> [kind |-> "unavailable", ticks |-> 0, from |-> current],
                     keep |-> previous]
            BY <1>2, <2>2, <2>3 DEF SampleCpu, Usage
        <3> QED
            BY <2>2, <3>1
    <2>4. CASE current.at # previous.at /\ current.ticks < previous.ticks
        <3>1. cpu = [usage |-> [kind |-> "unavailable", ticks |-> 0, from |-> current],
                     keep |-> current]
            BY <1>2, <2>2, <2>4 DEF SampleCpu, Usage
        <3> QED
            BY <2>2, <3>1
    <2>5. CASE current.at # previous.at /\ ~(current.ticks < previous.ticks)
        <3>1. cpu = [usage |-> [kind |-> "measured", ticks |-> current.ticks - previous.ticks,
                                from |-> previous], keep |-> current]
            BY <1>2, <2>2, <2>5 DEF SampleCpu, Usage
        <3>2. current.ticks - previous.ticks \in Nat
            BY <2>2, <2>5 DEF Counted
        <3> QED
            BY <2>2, <3>1, <3>2
    <2> QED
        BY <2>3, <2>4, <2>5
<1> QED
    BY <1>1, <1>2

\* A record is of the process the open file names, and its interval of the boot
\* the scan read.
LEMMA RecordedOwn ==
    ASSUME ScanSound, scan.file.stage \in {"statm", "confirm"}, NEW resident \in Nat, NEW of \in Nat,
           Access = "pinned" => of = scan.file.start
    PROVE  \E record \in Scanned, keep \in Counted :
             LET i == <<scan.file.pid, scan.file.start>>
             IN  /\ record.pid = scan.file.pid /\ record.start = scan.file.start
                 /\ record.boot = scan.boot
                 /\ Access = "pinned" => record.residentOf = record.start
                 /\ Own(i, record.cpu.from, cpuBoot) /\ Own(i, keep, cpuBoot)
                 /\ Recorded(resident, of) =
                      [scan EXCEPT !.file = NoFile, !.records = Append(@, record),
                                   !.fresh = [k \in DOMAIN @ \cup {i} |->
                                                 IF k = i THEN keep ELSE @[k]]]
<1> DEFINE file == scan.file
           i == <<file.pid, file.start>>
           current == [ticks |-> file.ticks, at |-> file.at, boot |-> boot, start |-> file.start,
                       known |-> scan.boot # Missing]
           cpu == SampleCpu(baselines, i, current)
           usage == cpu.usage
           keep == cpu.keep
           record == [pid |-> file.pid, start |-> file.start, boot |-> scan.boot,
                      resident |-> resident, residentOf |-> of, cpu |-> usage]
<1>1. file \in Opened /\ file.pid \in Pids /\ scan \in ScanState
    BY ReachedTypes DEF ScanSound, ScanTypes
<1>2. current \in Counted /\ i \in Pids \X Nat
    BY <1>1 DEF ScanSound, HostTypes, Counted, Opened
<1>3. Own(i, current, cpuBoot)
    BY DEF ScanSound, HostTypes, BootIsRead, Own
<1>4. \A k \in DOMAIN baselines : Own(k, baselines[k], cpuBoot)
    BY DEF ScanSound, BaselinesOwn
<1>5. /\ usage \in [kind : {"warming up", "unavailable", "measured"}, ticks : Nat, from : Counted]
      /\ keep \in Counted /\ Own(i, usage.from, cpuBoot) /\ Own(i, keep, cpuBoot)
    <2>1. baselines \in Baselines /\ current.start = i[2]
        BY DEF ScanSound, ScanTypes
    <2> HIDE DEF i, current
    <2> QED
        BY <1>2, <1>3, <1>4, <2>1, SampledOwn
<1>6. Recorded(resident, of) =
        [scan EXCEPT !.file = NoFile, !.records = Append(@, record),
                     !.fresh = [k \in DOMAIN @ \cup {i} |-> IF k = i THEN keep ELSE @[k]]]
    BY Zenon DEF Recorded
<1>7. record \in Scanned
    <2> HIDE DEF usage
    <2> QED
        BY <1>1, <1>5 DEF Scanned, Opened, ScanState
<1> HIDE DEF usage, keep
<1>8. /\ record.pid = file.pid /\ record.start = file.start /\ record.boot = scan.boot
      /\ record.cpu = usage /\ record.residentOf = of
    OBVIOUS
<1> HIDE DEF record
<1> QED
    BY <1>5, <1>6, <1>7, <1>8, ZenonT(60)

\* A record is added.
LEMMA RecordKeeps ==
    ASSUME ScanSound, scan.file.stage \in {"statm", "confirm"}, NEW resident \in Nat, NEW of \in Nat,
           Access = "pinned" => of = scan.file.start, scan' = Recorded(resident, of),
           UNCHANGED <<hostVars, baselines, cpuBoot, systemBaseline, scans>>,
           faults' \in {faults, faults + 1}
    PROVE  ScanSound'
<1> DEFINE i == <<scan.file.pid, scan.file.start>>
<1>1. PICK record \in Scanned, keep \in Counted :
         /\ record.pid = scan.file.pid /\ record.start = scan.file.start
         /\ Access = "pinned" => record.residentOf = record.start
         /\ Own(i, record.cpu.from, cpuBoot) /\ Own(i, keep, cpuBoot)
         /\ scan' = [scan EXCEPT !.file = NoFile, !.records = Append(@, record),
                                 !.fresh = [k \in DOMAIN @ \cup {i} |->
                                               IF k = i THEN keep ELSE @[k]]]
    <2>1. \E record \in Scanned, keep \in Counted :
            LET i_1 == <<scan.file.pid, scan.file.start>>
            IN  /\ record.pid = scan.file.pid /\ record.start = scan.file.start
                /\ record.boot = scan.boot
                /\ Access = "pinned" => record.residentOf = record.start
                /\ Own(i_1, record.cpu.from, cpuBoot) /\ Own(i_1, keep, cpuBoot)
                /\ Recorded(resident, of) =
                     [scan EXCEPT !.file = NoFile, !.records = Append(@, record),
                                  !.fresh = [k \in DOMAIN @ \cup {i_1} |->
                                                IF k = i_1 THEN keep ELSE @[k]]]
        BY RecordedOwn
    <2> QED
        BY <2>1
<1> DEFINE fresh == [k \in DOMAIN scan.fresh \cup {i} |-> IF k = i THEN keep ELSE scan.fresh[k]]
           records == Append(scan.records, record)
<1>2. /\ scan \in ScanState /\ ScanTypes /\ scan.phase = "listed" /\ scan.file \in Opened
      /\ scan.file.pid \in Pids
    BY ReachedTypes DEF ScanSound, ScanTypes
<1>3. i \in Pids \X Nat
    BY <1>2 DEF Opened
<1>4. fresh \in Baselines
    <2>1. PICK D \in SUBSET (Pids \X Nat) : scan.fresh \in [D -> Counted]
        BY <1>2 DEF ScanState, Baselines
    <2>2. fresh \in [D \cup {i} -> Counted]
        BY <1>1, <2>1
    <2>3. D \cup {i} \in SUBSET (Pids \X Nat)
        BY <1>3
    <2> HIDE DEF fresh, i
    <2> QED
        BY <2>2, <2>3 DEF Baselines
<1>5. records \in Seq(Scanned) /\ NoFile \in Opened
    BY <1>1, <1>2 DEF ScanState, NoFile, Opened, None
<1>6. scan' = [scan EXCEPT !.file = NoFile, !.records = records, !.fresh = fresh]
    BY <1>1
<1> HIDE DEF records, fresh
<1>7. /\ scan' \in ScanState /\ scan'.file = NoFile /\ scan'.records = records
      /\ scan'.fresh = fresh /\ scan'.boot = scan.boot /\ scan'.phase = "listed"
    BY <1>2, <1>4, <1>5, <1>6 DEF ScanState
<1>8. HostTypes' /\ ScanTypes' /\ BootIsRead' /\ Pinned'
    BY <1>2, <1>7 DEF ScanSound, HostTypes, ScanTypes, BootIsRead, Pinned, hostVars, NoFile
<1>9. BaselinesOwn'
    <2>1. ASSUME NEW k \in DOMAIN fresh PROVE Own(k, fresh[k], cpuBoot)
        BY <1>1, <2>1 DEF fresh, ScanSound, BaselinesOwn
    <2> QED
        BY <1>7, <2>1 DEF ScanSound, BaselinesOwn
<1>10. OneInstance'
    <2> SUFFICES ASSUME NEW j \in DOMAIN records
                 PROVE  LET r == records[j]
                        IN  /\ r.cpu.kind = "measured" /\ r.cpu.from.known /\ scan.boot # Missing =>
                                   r.cpu.from.start = r.start /\ r.cpu.from.boot = boot
                            /\ Access = "pinned" => r.residentOf = r.start
        BY <1>7 DEF OneInstance, hostVars
    <2>1. CASE j \in DOMAIN scan.records
        <3>1. records[j] = scan.records[j]
            BY <1>1, <1>2, <2>1 DEF records, ScanState
        <3> QED
            BY <2>1, <3>1 DEF ScanSound, OneInstance
    <2>2. CASE j \notin DOMAIN scan.records
        <3>1. records[j] = record
            BY <1>1, <1>2, <2>2 DEF records, ScanState
        <3>2. scan.boot # Missing => cpuBoot = boot
            BY DEF ScanSound, BootIsRead
        <3> QED
            BY <1>1, <3>1, <3>2 DEF Own
    <2> QED
        BY <2>1, <2>2
<1> QED
    BY <1>8, <1>9, <1>10 DEF ScanSound

\* The resident pages are read, or refused.
LEMMA StatmKeeps ==
    ASSUME ScanSound, ReadStatm
    PROVE  ScanSound'
<1>1. /\ scan.file.stage = "statm" /\ faults' \in {faults, faults + 1}
      /\ UNCHANGED <<hostVars, baselines, cpuBoot, systemBaseline, scans>>
    BY DEF ReadStatm, Fault
<1>2. /\ scan.phase = "listed" /\ scan.file \in Opened /\ scan.file.pid \in Pids
      /\ Reached(scan.file) \in Nat
      /\ (Access = "pinned" /\ Reached(scan.file) # None) => Reached(scan.file) = scan.file.start
    BY <1>1, ReachedTypes DEF ScanSound, Pinned
<1>3. CASE scan' = Recorded(Missing, scan.file.start)
    <2>1. Missing \in Nat /\ scan.file.start \in Nat
        BY <1>2 DEF Missing, Opened
    <2> QED
        BY <1>1, <1>3, <2>1, RecordKeeps
<1>4. CASE Reached(scan.file) # None /\ scan' = Recorded(pages[scan.file.pid], Reached(scan.file))
    <2>1. pages[scan.file.pid] \in Nat
        BY <1>2 DEF ScanSound, HostTypes
    <2> QED
        BY <1>1, <1>2, <1>4, <2>1, RecordKeeps
<1>5. CASE scan' = [scan EXCEPT !.file.stage = "confirm"]
    <2> DEFINE file == [scan.file EXCEPT !.stage = "confirm"]
    <2>1. /\ file \in Opened /\ file.stage = "confirm" /\ file.pid \in Pids
          /\ Access = "pinned" => file.start = file.pin
        BY <1>1, <1>2 DEF Opened, ScanSound, Pinned
    <2>2. scan' = [scan EXCEPT !.file = file]
        BY <1>5 DEF ScanSound, ScanTypes, ScanState
    <2> HIDE DEF file
    <2> QED
        BY <1>1, <1>2, <2>1, <2>2, FileRead
<1> QED
    BY <1>3, <1>4, <1>5 DEF ReadStatm

\* The exit is confirmed, or the record is made without its pages.
LEMMA ConfirmKeeps ==
    ASSUME ScanSound, ConfirmExit
    PROVE  ScanSound'
<1>1. /\ scan.file.stage = "confirm" /\ faults' \in {faults, faults + 1}
      /\ UNCHANGED <<hostVars, baselines, cpuBoot, systemBaseline, scans>>
      /\ scan' \in {Vanished, Recorded(Missing, scan.file.start)}
    BY DEF ConfirmExit
<1>2. CASE scan' = Vanished
    BY <1>1, <1>2, FileClosed
<1>3. CASE scan' = Recorded(Missing, scan.file.start)
    <2>1. Missing \in Nat /\ scan.file.start \in Nat
        BY <1>1, ReachedTypes DEF Missing, Opened
    <2> QED
        BY <1>1, <1>3, <2>1, RecordKeeps
<1> QED
    BY <1>1, <1>2, <1>3

\* The scan ends, and keeps the baselines it has read.
LEMMA EndKeeps ==
    ASSUME ScanSound, ScanEnd
    PROVE  ScanSound'
<1>1. /\ ScanTypes /\ scan.phase = "listed" /\ scan.file = NoFile /\ scan \in ScanState
      /\ scan' = [scan EXCEPT !.phase = "done"] /\ baselines' = scan.fresh
      /\ UNCHANGED <<hostVars, cpuBoot, systemBaseline, faults, scans>>
    BY DEF ScanSound, ScanTypes, ScanEnd, Listing
<1>2. /\ scan' \in ScanState /\ scan'.phase = "done" /\ scan'.file = NoFile
      /\ scan'.records = scan.records /\ scan'.fresh = scan.fresh /\ scan'.boot = scan.boot
      /\ scan.fresh \in Baselines
    BY <1>1 DEF ScanState
<1>3. HostTypes' /\ ScanTypes'
    BY <1>1, <1>2 DEF ScanSound, HostTypes, ScanTypes, hostVars, NoFile
<1>4. BaselinesOwn' /\ BootIsRead' /\ OneInstance' /\ Pinned'
    BY <1>1, <1>2 DEF ScanSound, BaselinesOwn, BootIsRead, OneInstance, Pinned, hostVars, NoFile
<1> QED
    BY <1>3, <1>4 DEF ScanSound

\* A step that takes up the scan, or leaves it.
LEMMA ScanTaken ==
    ASSUME ScanSound, scan' = IdleScan,
           UNCHANGED <<hostVars, baselines, cpuBoot, systemBaseline, faults, scans>>
    PROVE  ScanSound'
<1>1. IdleScan \in ScanState
    <2>1. NoFile \in Opened /\ NoLedger \in Ledger /\ NoSample \in HostSample
        BY DEF NoFile, Opened, None, NoLedger, Ledger, NoSample, SystemCpu, HostSample
    <2>2. <<>> \in Seq(Scanned) /\ <<>> \in [{} -> Counted]
        OBVIOUS
    <2> QED
        BY <2>1, <2>2 DEF IdleScan, ScanState, Missing, Baselines
<1>2. /\ IdleScan.file = NoFile /\ IdleScan.boot = Missing /\ IdleScan.records = <<>>
      /\ IdleScan.fresh = <<>> /\ IdleScan.phase = "idle"
    BY DEF IdleScan
<1>3. HostTypes' /\ ScanTypes' /\ BootIsRead' /\ Pinned'
    BY <1>1, <1>2 DEF ScanSound, HostTypes, ScanTypes, BootIsRead, Pinned, hostVars, NoFile
<1>4. BaselinesOwn' /\ OneInstance'
    BY <1>2 DEF ScanSound, BaselinesOwn, OneInstance
<1> QED
    BY <1>3, <1>4 DEF ScanSound

\* Every step of the host, of the scan and of the view keeps the scan sound.
LEMMA ScanStays ==
    ASSUME ScanSound, [ViewNext]_srtopVars
    PROVE  ScanSound'
<1>1. CASE HostStep
    BY <1>1, HostKeeps DEF HostStep
<1>2. CASE Sampling
    BY <1>2, IdentityKeeps, SystemKeeps, ListKeeps, EntryKeeps, OpenKeeps, StatKeeps, StatmKeeps,
       ConfirmKeeps, EndKeeps DEF Sampling, ScanStep
<1>3. CASE Start \/ Apply
    BY <1>3, ScanTaken DEF Start, Apply
<1>4. CASE UNCHANGED <<hostVars, scanVars>>
    BY <1>4 DEF ScanSound, HostTypes, ScanTypes, BaselinesOwn, BootIsRead, Pinned, OneInstance,
       hostVars, scanVars
<1>5. CASE \/ \E field \in Fields : ClickSort(field)
           \/ \E action \in Actions : ClickColumn(action)
           \/ \E query \in {NoQuery, "query"} : EditFilter(query)
           \/ CommitFilter \/ CommitChunk \/ Finish \/ UNCHANGED srtopVars
    <2>1. UNCHANGED <<hostVars, scanVars>>
        BY <1>5 DEF ClickSort, ClickColumn, EditFilter, CommitFilter, CommitChunk, Finish, srtopVars
    <2> QED
        BY <1>4, <2>1
<1> QED
    BY <1>1, <1>2, <1>3, <1>5 DEF ViewNext

\* A measured CPU interval is of one process of one boot, and with directory
\* handles the memory of a record is of the process its start time names, for any
\* host, however PIDs are reused and whatever reads fail (procfs.rs sample_cpu,
\* identity_changed, RecordDir).
THEOREM RecordsOfOneInstance == ViewSpec => []OneInstance
<1>1. ViewInit => ScanSound
    BY ScanBegins DEF ViewInit
<1>2. ScanSound /\ [ViewNext]_srtopVars => ScanSound'
    BY ScanStays
<1>3. ScanSound => OneInstance
    BY DEF ScanSound
<1> QED
    BY <1>1, <1>2, <1>3, PTL DEF ViewSpec

-----------------------------------------------------------------------------
(***************************************************************************)
(* The view: no process loses its row while it runs.                       *)
(*                                                                         *)
(* A process that runs ever since the listing is, once the scan has passed *)
(* it, recorded with its own start time, named in a ledger, or among those *)
(* the scan says it cannot name (SteadySeen).  A refresh keeps the row of  *)
(* a process it has no record of if the scan does not account for its      *)
(* absence; and that a record with the row's ID is of the row's process    *)
(* needs that IDs are given to one process each (Allots, Known).           *)
(***************************************************************************)

\* The scan accounts for the process under p.
Seen(p) ==
    \/ \E i \in DOMAIN scan.records :
           scan.records[i].pid = p /\ scan.records[i].start = process[p]
    \/ p \in scan.capped.named \cup scan.skipped.named
    \/ ~scan.capped.enumerable \/ ~scan.skipped.enumerable

SteadyFile(p) ==
    scan.file.pid = p =>
        /\ scan.file.stage \in {"stat", "statm", "confirm"} => scan.file.pin = process[p]
        /\ scan.file.stage \in {"statm", "confirm"} => scan.file.start = process[p]

CursorStarts == scan.phase \in {"idle", "identified", "sampled"} => scan.cursor = 0

SteadySeen ==
    scan.phase \in {"listed", "done"} =>
        \A p \in steady :
            /\ p \in Pids /\ process[p] # None /\ SteadyFile(p)
            /\ (p <= scan.cursor \/ scan.phase = "done") =>
                   Seen(p) \/ (scan.file.stage # "none" /\ scan.file.pid = p)

ProcessKey == [boot : Nat, pid : Pids, start : Nat]

\* Rows whose values, cells and layout are of whatever kind.
RowOver(V) == [id : Nat, key : ProcessKey, sort : V, cells : V, value : V]
Table(rows) == \E V : rows \in Seq(RowOver(V))

Allocator == [assigned : UNION {[D -> Nat] : D \in SUBSET ProcessKey}, boot : Nat, last : Nat]

\* No two processes have one ID, and none has an ID to come.
Allots(allocator) ==
    /\ allocator \in Allocator
    /\ \A k \in DOMAIN allocator.assigned : allocator.assigned[k] <= allocator.last
    /\ \A k, l \in DOMAIN allocator.assigned :
           allocator.assigned[k] = allocator.assigned[l] => k = l

\* Each row has the ID of its process.
Known(rows, allocator) ==
    \A i \in DOMAIN rows : /\ rows[i].key \in DOMAIN allocator.assigned
                           /\ allocator.assigned[rows[i].key] = rows[i].id

ViewSound ==
    /\ ScanSound /\ CursorStarts /\ SteadySeen
    /\ Allots(ids)
    /\ Table(unfiltered) /\ Known(unfiltered, ids)
    /\ {"kind", "unfiltered"} \subseteq DOMAIN job
    /\ job.kind = "apply" => Table(job.unfiltered) /\ Known(job.unfiltered, ids)

\* What the scan accounts for, it goes on accounting for.
LEMMA SeenStays ==
    ASSUME NEW p, Seen(p), UNCHANGED process, scan.records \in Seq(Scanned),
           scan'.records = scan.records \/ \E r \in Scanned : scan'.records = Append(scan.records, r),
           scan.capped.named \subseteq scan'.capped.named,
           scan.skipped.named \subseteq scan'.skipped.named,
           ~scan.capped.enumerable => ~scan'.capped.enumerable,
           ~scan.skipped.enumerable => ~scan'.skipped.enumerable
    PROVE  Seen(p)'
<1>1. CASE \E i \in DOMAIN scan.records :
               scan.records[i].pid = p /\ scan.records[i].start = process[p]
    <2>1. PICK i \in DOMAIN scan.records :
               scan.records[i].pid = p /\ scan.records[i].start = process[p]
        BY <1>1
    <2>2. i \in DOMAIN scan'.records /\ scan'.records[i] = scan.records[i]
        <3>1. ASSUME NEW r \in Scanned, scan'.records = Append(scan.records, r)
              PROVE  i \in DOMAIN scan'.records /\ scan'.records[i] = scan.records[i]
            BY <2>1, <3>1
        <3> QED
            BY <2>1, <3>1
    <2> QED
        BY <2>1, <2>2 DEF Seen
<1>2. CASE p \in scan.capped.named \cup scan.skipped.named
    BY <1>2 DEF Seen
<1>3. CASE ~scan.capped.enumerable \/ ~scan.skipped.enumerable
    BY <1>3, Zenon DEF Seen
<1> QED
    BY <1>1, <1>2, <1>3, Zenon DEF Seen

\* A step of the host ends what is no longer steady.
LEMMA HostSteady ==
    ASSUME ScanSound, SteadySeen, HostChange
    PROVE  SteadySeen'
<1>1. UNCHANGED scan /\ \A p \in steady' : p \in steady /\ process'[p] = process[p]
    BY DEF HostChange, scanVars
<1>2. ASSUME NEW p \in steady', Seen(p) PROVE Seen(p)'
    BY <1>1, <1>2, Zenon DEF Seen
<1>3. ASSUME NEW p \in steady', SteadyFile(p) PROVE SteadyFile(p)'
    BY <1>1, <1>3, Zenon DEF SteadyFile
<1> QED
    BY <1>1, <1>2, <1>3 DEF SteadySeen

\* The listing makes the processes that run steady.
LEMMA ListSteady ==
    ASSUME ScanSound, CursorStarts, ListRoot
    PROVE  SteadySeen'
<1>1. /\ scan \in ScanState /\ scan.phase = "sampled" /\ scan.cursor = 0 /\ steady' = Alive
      /\ UNCHANGED process /\ scan.file.stage = "none"
    BY DEF ScanSound, ScanTypes, CursorStarts, ListRoot, hostVars
<1>2. \A p \in steady' : p \in Pids /\ process'[p] # None /\ p \in Nat /\ p # 0
    BY <1>1, HostAssumption DEF Alive
<1>3. CASE scan' = [scan EXCEPT !.phase = "listed"]
    <2>1. scan'.phase = "listed" /\ scan'.cursor = 0 /\ scan'.file.stage = "none"
        BY <1>1, <1>3 DEF ScanState
    <2>2. \A p \in steady' : ~(p <= scan'.cursor)
        BY <1>2, <2>1
    <2> QED
        BY <1>2, <2>1, <2>2 DEF SteadySeen, SteadyFile
<1>4. CASE scan' = [scan EXCEPT !.phase = "done", !.rootFailed = TRUE,
                                !.skipped = MarkUnenumerable(@)]
    <2>1. scan'.skipped = MarkUnenumerable(scan.skipped) /\ scan'.file = scan.file
        BY <1>1, <1>4 DEF ScanState
    <2>2. scan'.skipped.enumerable = FALSE
        BY <1>1, <2>1 DEF ScanState, MarkUnenumerable, Ledger
    <2>3. \A p : Seen(p)'
        BY <2>2, Zenon DEF Seen
    <2> QED
        BY <1>1, <1>2, <2>1, <2>3 DEF SteadySeen, SteadyFile
<1> QED
    BY <1>3, <1>4 DEF ListRoot

\* A step within a listing, that leaves the cursor and accounts for the process it
\* had open, if that is steady, or has it open still.
LEMMA FileSteady ==
    ASSUME ScanSound, SteadySeen, scan.phase = "listed", scan'.phase = "listed",
           scan'.cursor = scan.cursor, UNCHANGED <<process, steady>>,
           \A p \in steady : Seen(p) => Seen(p)',
           \A p \in steady : SteadyFile(p)',
           \A p \in steady : (scan.file.stage # "none" /\ scan.file.pid = p) =>
               Seen(p)' \/ (scan'.file.stage # "none" /\ scan'.file.pid = p)
    PROVE  SteadySeen'
<1> SUFFICES ASSUME NEW p \in steady
             PROVE  /\ p \in Pids /\ process[p] # None /\ SteadyFile(p)'
                    /\ p <= scan.cursor =>
                         Seen(p)' \/ (scan'.file.stage # "none" /\ scan'.file.pid = p)
    BY DEF SteadySeen
<1>1. p \in Pids /\ process[p] # None
    BY DEF SteadySeen
<1>2. p <= scan.cursor => Seen(p) \/ (scan.file.stage # "none" /\ scan.file.pid = p)
    BY DEF SteadySeen
<1> QED
    BY <1>1, <1>2

\* The next entry is the next process that runs, so the cursor passes no other.
LEMMA EntrySteady ==
    ASSUME ScanSound, SteadySeen, NEW q \in Pids, NextEntry(q)
    PROVE  SteadySeen'
<1> DEFINE passed == [scan EXCEPT !.cursor = q]
           opened == [NoFile EXCEPT !.stage = "open", !.pid = q]
           skipped == LedgerUnnamed(scan.skipped)
           capped == LedgerRecord(scan.capped, UncertainLimit, q)
<1>1. /\ scan \in ScanState /\ scan.phase = "listed" /\ scan.file = NoFile /\ UNCHANGED <<process, steady>>
      /\ q \in Unlisted /\ \A p \in Unlisted : q <= p
    BY DEF ScanSound, ScanTypes, NextEntry, Listing, hostVars
<1>2. ASSUME NEW p \in steady
      PROVE  /\ p \in Pids /\ process[p] # None
             /\ p <= q => p = q \/ Seen(p)
             /\ p <= scan.cursor => Seen(p)
    <2>1. p \in Pids /\ process[p] # None /\ (p <= scan.cursor => Seen(p))
        BY <1>1, <1>2 DEF SteadySeen, NoFile
    <2>2. p \in Nat /\ q \in Nat /\ scan.cursor \in Nat
        BY <1>1, <2>1, HostAssumption DEF ScanState
    <2>3. CASE p <= scan.cursor
        BY <2>1, <2>3
    <2>4. CASE p > scan.cursor
        <3>1. p \in Unlisted
            BY <2>1, <2>4 DEF Unlisted, Alive
        <3> QED
            BY <1>1, <2>1, <2>2, <2>4, <3>1
    <2> QED
        BY <2>2, <2>3, <2>4
<1>3. /\ opened.stage = "open" /\ opened.pid = q /\ scan.records \in Seq(Scanned)
      /\ scan.capped \in Ledger /\ scan.skipped \in Ledger
    BY <1>1 DEF NoFile, ScanState
<1>4. /\ ~skipped.enumerable /\ scan.capped.named \subseteq capped.named
      /\ q \in capped.named \/ ~capped.enumerable
      /\ ~scan.capped.enumerable => ~capped.enumerable
    <2>1. ~skipped.enumerable
        BY <1>3, LedgerTypes, Zenon
    <2>2. /\ scan.capped.named \subseteq capped.named
          /\ q \in capped.named \/ ~capped.enumerable
          /\ ~scan.capped.enumerable => ~capped.enumerable
        BY <1>3, LedgerTypes, Zenon
    <2> QED
        BY <2>1, <2>2, Zenon
<1> HIDE DEF opened, skipped, capped
<1>5. CASE scan' = [passed EXCEPT !.skipped = skipped]
    <2>1. scan'.skipped = skipped /\ scan'.file = NoFile /\ scan'.phase = "listed"
        BY <1>1, <1>5 DEF ScanState
    <2>2. \A p : Seen(p)'
        BY <1>4, <2>1, Zenon DEF Seen
    <2>3. \A p : SteadyFile(p)'
        BY <2>1 DEF SteadyFile, NoFile
    <2> QED
        BY <1>1, <1>2, <2>1, <2>2, <2>3 DEF SteadySeen
<1>6. CASE scan' = [scan EXCEPT !.file = opened] \/ scan' = [passed EXCEPT !.file = opened]
    <2>1. /\ scan'.file = opened /\ scan'.phase = "listed" /\ scan'.cursor \in {q, scan.cursor}
          /\ scan'.records = scan.records /\ scan'.capped = scan.capped
          /\ scan'.skipped = scan.skipped
          /\ scan'.cursor = q \/ scan'.cursor = scan.cursor
        BY <1>1, <1>6 DEF ScanState
    <2>2. \A p \in steady : Seen(p) => Seen(p)'
        BY <1>1, <2>1, Zenon DEF Seen
    <2>3. \A p : SteadyFile(p)'
        BY <1>3, <2>1 DEF SteadyFile
    <2> QED
        BY <1>1, <1>2, <1>3, <2>1, <2>2, <2>3 DEF SteadySeen
<1>7. CASE scan' = [passed EXCEPT !.capped = capped]
    <2>1. /\ scan'.file = NoFile /\ scan'.phase = "listed" /\ scan'.cursor = q
          /\ scan'.records = scan.records /\ scan'.capped = capped
          /\ scan'.skipped = scan.skipped
        BY <1>1, <1>7 DEF ScanState
    <2>2. ASSUME NEW p \in steady, Seen(p) PROVE Seen(p)'
        BY <1>1, <1>3, <1>4, <2>1, <2>2, SeenStays, Zenon
    <2>3. \A p : SteadyFile(p)'
        BY <2>1 DEF SteadyFile, NoFile
    <2>4. Seen(q)'
        BY <1>4, <2>1, Zenon DEF Seen
    <2> QED
        BY <1>1, <1>2, <2>1, <2>2, <2>3, <2>4 DEF SteadySeen
<1>8. \/ scan' = [passed EXCEPT !.skipped = skipped]
      \/ scan' = [scan EXCEPT !.file = opened]
      \/ scan' = [passed EXCEPT !.capped = capped]
      \/ scan' = [passed EXCEPT !.file = opened]
    <2>1. passed.skipped = scan.skipped /\ passed.capped = scan.capped
        BY <1>1 DEF ScanState
    <2> HIDE DEF passed
    <2> QED
        BY <2>1, Zenon DEF NextEntry, passed, opened, skipped, capped
<1> QED
    BY <1>5, <1>6, <1>7, <1>8

\* A process the scan could not read is in the ledger.
LEMMA SkipSteady ==
    ASSUME ScanSound, SteadySeen, scan.file.stage # "none", scan' = Skip(scan.file.pid),
           UNCHANGED <<process, steady>>
    PROVE  SteadySeen'
<1> DEFINE limit == IF RecordLimit < UncertainLimit THEN RecordLimit ELSE UncertainLimit
           ledger == LedgerRecord(scan.skipped, limit, scan.file.pid)
<1>1. /\ scan \in ScanState /\ scan.phase = "listed" /\ scan.file.pid \in Pids
      /\ scan.skipped \in Ledger /\ scan.records \in Seq(Scanned)
    BY ReachedTypes DEF ScanSound, ScanTypes, ScanState
<1>2. /\ scan.skipped.named \subseteq ledger.named
      /\ scan.file.pid \in ledger.named \/ ~ledger.enumerable
      /\ ~scan.skipped.enumerable => ~ledger.enumerable
    BY <1>1, LedgerTypes, Zenon
<1>3. scan' = [scan EXCEPT !.file = NoFile, !.skipped = ledger]
    BY DEF Skip
<1> HIDE DEF ledger
<1>4. /\ scan'.phase = "listed" /\ scan'.cursor = scan.cursor /\ scan'.file = NoFile
      /\ scan'.records = scan.records /\ scan'.capped = scan.capped /\ scan'.skipped = ledger
    BY <1>1, <1>3 DEF ScanState
<1>5. ASSUME NEW p \in steady, Seen(p) PROVE Seen(p)'
    BY <1>1, <1>2, <1>4, <1>5, SeenStays, Zenon
<1>6. ASSUME NEW p \in steady, p = scan.file.pid PROVE Seen(p)'
    BY <1>2, <1>4, <1>6, Zenon DEF Seen
<1>7. \A p \in steady : SteadyFile(p)'
    BY <1>4 DEF SteadyFile, NoFile
<1>8. \A p \in steady : (scan.file.stage # "none" /\ scan.file.pid = p) => Seen(p)'
    BY <1>6, Zenon
<1> QED
    BY <1>1, <1>4, <1>5, <1>7, <1>8, FileSteady

\* A process found to have ended was not steady.
LEMMA VanishedSteady ==
    ASSUME ScanSound, SteadySeen, scan.file.stage # "none", scan' = Vanished,
           scan.file.pid \notin steady, UNCHANGED <<process, steady>>
    PROVE  SteadySeen'
<1>1. scan \in ScanState /\ scan.phase = "listed"
    BY ReachedTypes DEF ScanSound, ScanTypes, ScanState
<1>2. /\ scan'.phase = "listed" /\ scan'.cursor = scan.cursor /\ scan'.file = NoFile
      /\ scan'.records = scan.records /\ scan'.capped = scan.capped
      /\ scan'.skipped = scan.skipped
    BY <1>1 DEF ScanState, Vanished
<1>3. ASSUME NEW p \in steady, Seen(p) PROVE Seen(p)'
    BY <1>2, <1>3, Zenon DEF Seen
<1>4. \A p \in steady : SteadyFile(p)'
    BY <1>2 DEF SteadyFile, NoFile
<1> QED
    BY <1>1, <1>2, <1>3, <1>4, FileSteady

\* The file that is open is read on.
LEMMA ReadSteady ==
    ASSUME ScanSound, SteadySeen, scan.file.stage # "none", NEW file \in Opened,
           file.pid = scan.file.pid, file.stage # "none", scan' = [scan EXCEPT !.file = file],
           scan.file.pid \in steady =>
               /\ file.stage \in {"stat", "statm", "confirm"} => file.pin = process[file.pid]
               /\ file.stage \in {"statm", "confirm"} => file.start = process[file.pid],
           UNCHANGED <<process, steady>>
    PROVE  SteadySeen'
<1>1. scan \in ScanState /\ scan.phase = "listed"
    BY ReachedTypes DEF ScanSound, ScanTypes, ScanState
<1>2. /\ scan'.phase = "listed" /\ scan'.cursor = scan.cursor /\ scan'.file = file
      /\ scan'.records = scan.records /\ scan'.capped = scan.capped
      /\ scan'.skipped = scan.skipped
    BY <1>1 DEF ScanState
<1>3. ASSUME NEW p \in steady, Seen(p) PROVE Seen(p)'
    BY <1>2, <1>3, Zenon DEF Seen
<1>4. \A p \in steady : SteadyFile(p)'
    BY <1>2 DEF SteadyFile
<1> QED
    BY <1>1, <1>2, <1>3, <1>4, FileSteady

\* A record of a steady process has its start time.
LEMMA RecordSteady ==
    ASSUME ScanSound, SteadySeen, scan.file.stage \in {"statm", "confirm"}, NEW resident \in Nat,
           NEW of \in Nat, Access = "pinned" => of = scan.file.start,
           scan' = Recorded(resident, of), UNCHANGED <<process, steady>>
    PROVE  SteadySeen'
<1> DEFINE i == <<scan.file.pid, scan.file.start>>
<1>1. /\ scan \in ScanState /\ scan.phase = "listed" /\ scan.records \in Seq(Scanned)
    BY ReachedTypes DEF ScanSound, ScanTypes, ScanState
<1>2. \E record \in Scanned, keep \in Counted :
        LET i_1 == <<scan.file.pid, scan.file.start>>
        IN  /\ record.pid = scan.file.pid /\ record.start = scan.file.start
            /\ record.boot = scan.boot
            /\ Access = "pinned" => record.residentOf = record.start
            /\ Own(i_1, record.cpu.from, cpuBoot) /\ Own(i_1, keep, cpuBoot)
            /\ Recorded(resident, of) =
                 [scan EXCEPT !.file = NoFile, !.records = Append(@, record),
                              !.fresh = [k \in DOMAIN @ \cup {i_1} |->
                                            IF k = i_1 THEN keep ELSE @[k]]]
    BY RecordedOwn
<1>3. PICK record \in Scanned, keep \in Counted :
         /\ record.pid = scan.file.pid /\ record.start = scan.file.start
         /\ scan' = [scan EXCEPT !.file = NoFile, !.records = Append(@, record),
                                 !.fresh = [k \in DOMAIN @ \cup {i} |->
                                               IF k = i THEN keep ELSE @[k]]]
    BY <1>2
<1> DEFINE fresh == [k \in DOMAIN scan.fresh \cup {i} |-> IF k = i THEN keep ELSE scan.fresh[k]]
           records == Append(scan.records, record)
<1>4. scan' = [scan EXCEPT !.file = NoFile, !.records = records, !.fresh = fresh]
    BY <1>3
<1> HIDE DEF fresh, records
<1>5. /\ scan'.phase = "listed" /\ scan'.cursor = scan.cursor /\ scan'.file = NoFile
      /\ scan'.records = records /\ scan'.capped = scan.capped
      /\ scan'.skipped = scan.skipped
    BY <1>1, <1>4 DEF ScanState
<1>6. ASSUME NEW p \in steady, Seen(p) PROVE Seen(p)'
    BY <1>1, <1>3, <1>5, <1>6, SeenStays, Zenon DEF records
<1>7. \A p \in steady : SteadyFile(p)'
    BY <1>5 DEF SteadyFile, NoFile
<1>8. ASSUME NEW p \in steady, scan.file.pid = p PROVE Seen(p)'
    <2>1. scan.file.start = process[p]
        BY <1>1, <1>8 DEF SteadySeen, SteadyFile
    <2>2. Len(scan.records) + 1 \in DOMAIN records /\ records[Len(scan.records) + 1] = record
        BY <1>1, <1>3 DEF records
    <2>3. /\ scan'.records[Len(scan.records) + 1].pid = p
          /\ scan'.records[Len(scan.records) + 1].start = process'[p]
        BY <1>3, <1>5, <1>8, <2>1, <2>2
    <2> QED
        BY <1>5, <2>2, <2>3, Zenon DEF Seen
<1> QED
    BY <1>1, <1>5, <1>6, <1>7, <1>8, FileSteady

\* What an open file of a steady process reaches.
LEMMA ReachedSteady ==
    ASSUME ScanSound, SteadySeen, scan.file.stage \in {"stat", "statm", "confirm"},
           scan.file.pid \in steady
    PROVE  Reached(scan.file) = process[scan.file.pid] /\ Reached(scan.file) # None
<1>1. scan.phase = "listed"
    BY ReachedTypes
<1> QED
    BY <1>1 DEF SteadySeen, SteadyFile, Reached

\* The steps of a record's reading.
LEMMA OpenSteady ==
    ASSUME ScanSound, SteadySeen, OpenRecord
    PROVE  SteadySeen'
<1>1. scan.file.stage = "open" /\ UNCHANGED <<process, steady>>
    BY DEF OpenRecord, hostVars
<1>2. /\ scan.phase = "listed" /\ scan.file \in Opened /\ process[scan.file.pid] \in Nat
      /\ scan \in ScanState
    BY <1>1, ReachedTypes DEF ScanSound, ScanTypes
<1>3. CASE scan' = Skip(scan.file.pid)
    BY <1>1, <1>3, SkipSteady
<1>4. CASE process[scan.file.pid] = None /\ scan' = Vanished
    BY <1>1, <1>2, <1>4, VanishedSteady DEF SteadySeen
<1>5. CASE scan' = [scan EXCEPT !.file.stage = "stat", !.file.pin = process[scan.file.pid]]
    <2> DEFINE file == [scan.file EXCEPT !.stage = "stat", !.pin = process[scan.file.pid]]
    <2>1. /\ file \in Opened /\ file.stage = "stat" /\ file.pid = scan.file.pid
          /\ file.pin = process[file.pid]
        BY <1>2 DEF Opened
    <2>2. scan' = [scan EXCEPT !.file = file]
        BY <1>2, <1>5 DEF ScanState
    <2> HIDE DEF file
    <2> QED
        BY <1>1, <2>1, <2>2, ReadSteady
<1> QED
    BY <1>3, <1>4, <1>5 DEF OpenRecord

\* Reading stat keeps account of the steady processes.
LEMMA StatSteady ==
    ASSUME ScanSound, SteadySeen, ReadStat
    PROVE  SteadySeen'
<1>1. scan.file.stage = "stat" /\ UNCHANGED <<process, steady>>
    BY DEF ReadStat, hostVars
<1>2. /\ scan.phase = "listed" /\ scan.file \in Opened /\ scan.file.pid \in Pids
      /\ Reached(scan.file) \in Nat
    BY <1>1, ReachedTypes
<1>3. CASE scan' = Skip(scan.file.pid)
    BY <1>1, <1>3, SkipSteady
<1>4. CASE Reached(scan.file) = None /\ scan' = Vanished
    <2>1. scan.file.pid \notin steady
        BY <1>1, <1>4, ReachedSteady
    <2> QED
        BY <1>1, <1>4, <2>1, VanishedSteady
<1>5. CASE scan' = [scan EXCEPT !.file = [@ EXCEPT !.stage = "statm",
                                                   !.start = Reached(scan.file),
                                                   !.ticks = ticks[scan.file.pid],
                                                   !.at = clock]]
    <2> DEFINE file == [scan.file EXCEPT !.stage = "statm", !.start = Reached(scan.file),
                                         !.ticks = ticks[scan.file.pid], !.at = clock]
    <2>1. ticks[scan.file.pid] \in Nat /\ clock \in Nat
        BY <1>2 DEF ScanSound, HostTypes, clock
    <2>2. /\ file \in Opened /\ file.stage = "statm" /\ file.pid = scan.file.pid
          /\ file.start = Reached(scan.file) /\ file.pin = scan.file.pin
        BY <1>2, <2>1 DEF Opened
    <2>3. scan' = [scan EXCEPT !.file = file]
        BY <1>5
    <2>4. scan.file.pid \in steady =>
            scan.file.pin = process[scan.file.pid] /\ Reached(scan.file) = process[scan.file.pid]
        BY <1>1, <1>2, ReachedSteady DEF SteadySeen, SteadyFile
    <2> HIDE DEF file
    <2> QED
        BY <1>1, <2>2, <2>3, <2>4, ReadSteady
<1> QED
    BY <1>3, <1>4, <1>5, Zenon DEF ReadStat

\* Reading statm keeps account of them.
LEMMA StatmSteady ==
    ASSUME ScanSound, SteadySeen, ReadStatm
    PROVE  SteadySeen'
<1>1. scan.file.stage = "statm" /\ UNCHANGED <<process, steady>>
    BY DEF ReadStatm, hostVars
<1>2. /\ scan.phase = "listed" /\ scan.file \in Opened /\ scan.file.pid \in Pids
      /\ Reached(scan.file) \in Nat /\ scan \in ScanState
      /\ (Access = "pinned" /\ Reached(scan.file) # None) => Reached(scan.file) = scan.file.start
    BY <1>1, ReachedTypes DEF ScanSound, Pinned, ScanTypes
<1>3. CASE scan' = Recorded(Missing, scan.file.start)
    <2>1. Missing \in Nat /\ scan.file.start \in Nat
        BY <1>2 DEF Missing, Opened
    <2> QED
        BY <1>1, <1>3, <2>1, RecordSteady
<1>4. CASE Reached(scan.file) # None /\ scan' = Recorded(pages[scan.file.pid], Reached(scan.file))
    <2>1. pages[scan.file.pid] \in Nat
        BY <1>2 DEF ScanSound, HostTypes
    <2> QED
        BY <1>1, <1>2, <1>4, <2>1, RecordSteady
<1>5. CASE scan' = [scan EXCEPT !.file.stage = "confirm"]
    <2> DEFINE file == [scan.file EXCEPT !.stage = "confirm"]
    <2>1. /\ file \in Opened /\ file.stage = "confirm" /\ file.pid = scan.file.pid
          /\ file.start = scan.file.start /\ file.pin = scan.file.pin
        BY <1>2 DEF Opened
    <2>2. scan' = [scan EXCEPT !.file = file]
        BY <1>2, <1>5 DEF ScanState
    <2>3. scan.file.pid \in steady =>
            scan.file.pin = process[scan.file.pid] /\ scan.file.start = process[scan.file.pid]
        BY <1>1, <1>2 DEF SteadySeen, SteadyFile
    <2> HIDE DEF file
    <2> QED
        BY <1>1, <2>1, <2>2, <2>3, ReadSteady
<1> QED
    BY <1>3, <1>4, <1>5 DEF ReadStatm

\* An exit that is confirmed is not that of a steady process.
LEMMA ConfirmSteady ==
    ASSUME ScanSound, SteadySeen, ConfirmExit
    PROVE  SteadySeen'
<1>1. scan.file.stage = "confirm" /\ UNCHANGED <<process, steady>>
    BY DEF ConfirmExit, hostVars
<1>2. CASE Reached(scan.file) # scan.file.start /\ scan' = Vanished
    <2>1. scan.file.pid \notin steady
        BY <1>1, <1>2, ReachedSteady, ReachedTypes DEF SteadySeen, SteadyFile
    <2> QED
        BY <1>1, <1>2, <2>1, VanishedSteady
<1>3. CASE scan' = Recorded(Missing, scan.file.start)
    <2>1. Missing \in Nat /\ scan.file.start \in Nat
        BY <1>1, ReachedTypes DEF Missing, Opened
    <2> QED
        BY <1>1, <1>3, <2>1, RecordSteady
<1> QED
    BY <1>2, <1>3 DEF ConfirmExit

\* At the end no process that runs is beyond the cursor.
LEMMA EndSteady ==
    ASSUME ScanSound, SteadySeen, ScanEnd
    PROVE  SteadySeen'
<1>1. /\ scan \in ScanState /\ scan.phase = "listed" /\ scan.file = NoFile /\ Unlisted = {}
      /\ scan' = [scan EXCEPT !.phase = "done"] /\ UNCHANGED <<process, steady>>
    BY DEF ScanSound, ScanTypes, ScanEnd, Listing, hostVars
<1>2. /\ scan'.phase = "done" /\ scan'.cursor = scan.cursor /\ scan'.file = NoFile
      /\ scan'.records = scan.records /\ scan'.capped = scan.capped
      /\ scan'.skipped = scan.skipped
    BY <1>1 DEF ScanState
<1>3. ASSUME NEW p \in steady PROVE p \in Pids /\ process[p] # None /\ Seen(p)'
    <2>1. p \in Pids /\ process[p] # None
        BY <1>1 DEF SteadySeen
    <2>2. p <= scan.cursor
        BY <1>1, <2>1, HostAssumption DEF Unlisted, Alive, ScanState
    <2>3. Seen(p)
        BY <1>1, <2>2 DEF SteadySeen, NoFile
    <2> QED
        BY <1>1, <1>2, <2>1, <2>3, ZenonT(60) DEF Seen
<1>4. \A p : SteadyFile(p)'
    BY <1>2 DEF SteadyFile, NoFile
<1> QED
    BY <1>1, <1>2, <1>3, <1>4 DEF SteadySeen

\* Every step keeps account of the steady processes.
LEMMA SteadyStays ==
    ASSUME ScanSound, CursorStarts, SteadySeen, [ViewNext]_srtopVars
    PROVE  CursorStarts' /\ SteadySeen'
<1>1. CASE HostStep
    BY <1>1, HostSteady DEF HostStep, HostChange, CursorStarts, scanVars
<1>2. CASE Sampling
    <2>1. CASE ReadIdentity \/ ReadSystem
        <3>1. scan \in ScanState /\ IdleScan.cursor = 0
            BY DEF ScanSound, ScanTypes, IdleScan
        <3>2. scan'.phase \in {"identified", "sampled"} /\ scan'.cursor = 0
            <4>1. CASE ReadIdentity
                BY <4>1, <3>1 DEF ReadIdentity, IdleScan
            <4>2. CASE ReadSystem
                BY <4>2, <3>1 DEF ReadSystem, CursorStarts, ScanState
            <4> QED
                BY <2>1, <4>1, <4>2
        <3> QED
            BY <3>2 DEF SteadySeen, CursorStarts
    <2>2. CASE ListRoot
        <3>1. scan'.phase \in {"listed", "done"}
            BY <2>2 DEF ListRoot, ScanSound, ScanTypes, ScanState
        <3> QED
            BY <2>2, <3>1, ListSteady DEF CursorStarts
    <2>3. ASSUME NEW p \in Pids, NextEntry(p) PROVE SteadySeen'
        BY <2>3, EntrySteady
    <2>4. ASSUME OpenRecord \/ ReadStat \/ ReadStatm \/ ConfirmExit \/ ScanEnd PROVE SteadySeen'
        BY <2>4, OpenSteady, StatSteady, StatmSteady, ConfirmSteady, EndSteady
    <2>5. ASSUME \/ \E p \in Pids : NextEntry(p)
                 \/ OpenRecord \/ ReadStat \/ ReadStatm \/ ConfirmExit \/ ScanEnd
          PROVE  CursorStarts'
        <3>1. ScanSound'
            BY <1>2, ScanStays DEF ViewNext
        <3>2. scan.phase = "listed"
            BY <2>5, ReachedTypes DEF NextEntry, OpenRecord, ReadStat, ReadStatm, ConfirmExit, ScanEnd,
               Listing
        <3>3. scan'.phase \in {"listed", "done"}
            <4>1. scan \in ScanState
                BY DEF ScanSound, ScanTypes
            <4>2. CASE \E p \in Pids : NextEntry(p)
                BY <3>2, <4>1, <4>2 DEF NextEntry, ScanState
            <4>3. CASE OpenRecord
                BY <3>2, <4>1, <4>3 DEF OpenRecord, ScanState, Skip, Vanished
            <4>4. CASE ReadStat
                BY <3>2, <4>1, <4>4 DEF ReadStat, ScanState, Skip, Vanished
            <4>5. CASE ReadStatm
                BY <3>2, <4>1, <4>5 DEF ReadStatm, ScanState, Recorded
            <4>6. CASE ConfirmExit
                BY <3>2, <4>1, <4>6 DEF ConfirmExit, ScanState, Recorded, Vanished
            <4>7. CASE ScanEnd
                BY <3>2, <4>1, <4>7 DEF ScanEnd, ScanState
            <4> QED
                BY <2>5, <4>2, <4>3, <4>4, <4>5, <4>6, <4>7
        <3> QED
            BY <3>3 DEF CursorStarts
    <2> QED
        BY <1>2, <2>1, <2>2, <2>3, <2>4, <2>5 DEF Sampling, ScanStep
<1>3. CASE Start \/ Apply
    <2>1. scan' = IdleScan
        BY <1>3 DEF Start, Apply
    <2>2. scan'.phase = "idle" /\ scan'.cursor = 0
        BY <2>1 DEF IdleScan
    <2> QED
        BY <2>2 DEF SteadySeen, CursorStarts
<1>4. CASE \/ \E field \in Fields : ClickSort(field)
           \/ \E action \in Actions : ClickColumn(action)
           \/ \E query \in {NoQuery, "query"} : EditFilter(query)
           \/ CommitFilter \/ CommitChunk \/ Finish \/ UNCHANGED srtopVars
    <2>1. UNCHANGED <<hostVars, scanVars, steady>>
        BY <1>4 DEF ClickSort, ClickColumn, EditFilter, CommitFilter, CommitChunk, Finish, srtopVars
    <2>2. UNCHANGED <<scan, process, steady>>
        BY <2>1 DEF hostVars, scanVars
    <2>3. \A p : Seen(p) => Seen(p)'
        BY <2>2, Zenon DEF Seen
    <2> QED
        BY <2>2, <2>3 DEF SteadySeen, CursorStarts, SteadyFile
<1> QED
    BY <1>1, <1>2, <1>3, <1>4 DEF ViewNext

-----------------------------------------------------------------------------
(* Rows and their IDs.                                                     *)

\* c holds the records put in order, one by one.
Queues(c, records) ==
  /\ c[0] = <<>> /\ c[Len(records)] = InPidOrder(records)
  /\ \A k \in 1..Len(records) :
       c[k] = InsertAt(c[k - 1], 1 + Cardinality({p \in DOMAIN c[k - 1] : ~(records[k].pid < c[k - 1][p].pid)}), records[k])

\* The fold goes through such states.
LEMMA PidOrderTrace ==
  ASSUME NEW U, NEW records \in Seq(U)
  PROVE  \E c \in [0..Len(records) -> Seq(U)] : Queues(c, records)
<1> DEFINE n == Len(records)
           T == Seq(U)
           op(a, i) == InsertAt(a, 1 + Cardinality({p \in DOMAIN a : ~(records[i].pid < a[p].pid)}), records[i])
           step == [p \in T \X (1..n) |-> op(p[1], p[2])]
           it == CHOOSE f : f = [s \in SUBSET DOMAIN records |->
                   IF s = {} THEN <<>> ELSE op(f[s \ {Max(s)}], Max(s))]
<1>1. n \in Nat /\ DOMAIN records = 1..n /\ <<>> \in T
  OBVIOUS
<1>2. InPidOrder(records) = it[DOMAIN records]
  BY Zenon DEF InPidOrder, StableSort, FoldLeft, MapThenFoldSet
<1>3. step \in [T \X (1..n) -> T] /\ \A a \in T, i \in 1..n : step[<<a, i>>] = op(a, i)
  <2>1. ASSUME NEW a \in T, NEW i \in 1..n PROVE op(a, i) \in T
    
    <3>1. 1 + Cardinality({p \in DOMAIN a : ~(records[i].pid < a[p].pid)}) \in 1..(Len(a) + 1)
      BY InsertPlace
    <3> QED BY <3>1, InsertAtElements
  <2> HIDE DEF op, T, n
  <2> QED BY <2>1
<1> HIDE DEF op, step, T, n
<1>4. PICK g \in [SUBSET (1..n) -> T] : Solves(g, <<>>, step, n)
  BY <1>1, <1>3, FoldExists
<1>5. \A s \in SUBSET (1..n) : s # {} => Max(s) \in 1..n /\ s \ {Max(s)} \in SUBSET (1..n)
  BY <1>1, MaxOfPositions
<1>6. g = [s \in SUBSET DOMAIN records |-> IF s = {} THEN <<>> ELSE op(g[s \ {Max(s)}], Max(s))]
  <2>1. ASSUME NEW s \in SUBSET (1..n)
        PROVE  g[s] = IF s = {} THEN <<>> ELSE op(g[s \ {Max(s)}], Max(s))
    <3>1. CASE s = {}
      BY <1>4, <3>1 DEF Solves
    <3>2. CASE s # {}
      <4>1. g[s \ {Max(s)}] \in T /\ Max(s) \in 1..n
        BY <1>4, <1>5, <3>2
      <4>2. g[s] = step[<<g[s \ {Max(s)}], Max(s)>>]
        BY <1>4, <3>2 DEF Solves
      <4> QED BY <1>3, <3>2, <4>1, <4>2
    <3> QED BY <3>1, <3>2
  <2> QED BY <1>1, <1>4, <2>1
<1>7. it = [s \in SUBSET DOMAIN records |-> IF s = {} THEN <<>> ELSE op(it[s \ {Max(s)}], Max(s))]
  BY <1>6, Zenon
<1> HIDE DEF it
<1>8. Iterates(it, <<>>, step, T, n)
  BY <1>1, <1>3, <1>5, <1>7 DEF Iterates
<1>9. PICK c \in [0..n -> T] : Passes(c, <<>>, step, n, it[1..n])
  BY <1>1, <1>3, <1>8, FoldTrace
<1>10. ASSUME NEW k \in 1..n PROVE c[k] = op(c[k - 1], k)
  <2>1. k - 1 \in 0..n
    BY <1>1
  <2> QED BY <1>3, <1>9, <2>1 DEF Passes
<1>11. c[0] = <<>> /\ c[n] = InPidOrder(records)
  BY <1>1, <1>2, <1>9 DEF Passes
<1>12. Queues(c, records)
  BY <1>10, <1>11, Zenon DEF n, op, Queues
<1> QED BY <1>12 DEF n, T

\* The order of PIDs is an order of the same records.
LEMMA PidOrderSame ==
  ASSUME NEW U, NEW records \in Seq(U)
  PROVE  InPidOrder(records) \in Seq(U) /\ ToSet(InPidOrder(records)) = ToSet(records)
<1>1. PICK c \in [0..Len(records) -> Seq(U)] : Queues(c, records)
  BY PidOrderTrace
<1>2. ASSUME NEW k \in 1..Len(records)
      PROVE  \E m \in 1..(Len(c[k - 1]) + 1) : c[k] = InsertAt(c[k - 1], m, records[k])
  <2> DEFINE a == c[k - 1]
             behind == {p \in DOMAIN a : ~(records[k].pid < a[p].pid)}
  <2>1. a \in Seq(U)
    OBVIOUS
  <2>2. 1 + Cardinality(behind) \in 1..(Len(a) + 1)
    <3> HIDE DEF a
    <3>1. behind \subseteq DOMAIN a
      OBVIOUS
    <3> HIDE DEF behind
    <3> QED BY <2>1, <3>1, InsertPlace
  <2>3. c[k] = InsertAt(a, 1 + Cardinality(behind), records[k])
    BY <1>1 DEF Queues
  <2> QED BY <2>2, <2>3
<1>3. SortsIn(c, records)
  BY <1>1, <1>2 DEF SortsIn, Queues
<1>4. ToSet(c[Len(records)]) = ToSet(records)
  BY <1>3, InsertsAll
<1>5. c[Len(records)] \in Seq(U) /\ c[Len(records)] = InPidOrder(records)
  BY <1>1 DEF Queues
<1> QED BY <1>4, <1>5

\* c holds the rows sorted, one by one.
Ranks(c, order, rows) ==
  /\ c[0] = <<>> /\ c[Len(rows)] = Sorted(order, rows)
  /\ \A k \in 1..Len(rows) :
       c[k] = InsertAt(c[k - 1], 1 + Cardinality({p \in DOMAIN c[k - 1] : ~Before(order, rows[k], c[k - 1][p])}), rows[k])

\* The fold goes through such states.
LEMMA SortTrace ==
  ASSUME NEW U, NEW rows \in Seq(U), NEW order, order # NoOrder
  PROVE  \E c \in [0..Len(rows) -> Seq(U)] : Ranks(c, order, rows)
<1> DEFINE n == Len(rows)
           T == Seq(U)
           op(a, i) == InsertAt(a, 1 + Cardinality({p \in DOMAIN a : ~Before(order, rows[i], a[p])}), rows[i])
           step == [p \in T \X (1..n) |-> op(p[1], p[2])]
           it == CHOOSE f : f = [s \in SUBSET DOMAIN rows |->
                   IF s = {} THEN <<>> ELSE op(f[s \ {Max(s)}], Max(s))]
<1>1. n \in Nat /\ DOMAIN rows = 1..n /\ <<>> \in T
  OBVIOUS
<1>2. Sorted(order, rows) = it[DOMAIN rows]
  BY Zenon DEF Sorted, StableSort, FoldLeft, MapThenFoldSet
<1>3. step \in [T \X (1..n) -> T] /\ \A a \in T, i \in 1..n : step[<<a, i>>] = op(a, i)
  <2>1. ASSUME NEW a \in T, NEW i \in 1..n PROVE op(a, i) \in T
    
    <3>1. 1 + Cardinality({p \in DOMAIN a : ~Before(order, rows[i], a[p])}) \in 1..(Len(a) + 1)
      BY InsertPlace
    <3> QED BY <3>1, InsertAtElements
  <2> HIDE DEF op, T, n
  <2> QED BY <2>1
<1> HIDE DEF op, step, T, n
<1>4. PICK g \in [SUBSET (1..n) -> T] : Solves(g, <<>>, step, n)
  BY <1>1, <1>3, FoldExists
<1>5. \A s \in SUBSET (1..n) : s # {} => Max(s) \in 1..n /\ s \ {Max(s)} \in SUBSET (1..n)
  BY <1>1, MaxOfPositions
<1>6. g = [s \in SUBSET DOMAIN rows |-> IF s = {} THEN <<>> ELSE op(g[s \ {Max(s)}], Max(s))]
  <2>1. ASSUME NEW s \in SUBSET (1..n)
        PROVE  g[s] = IF s = {} THEN <<>> ELSE op(g[s \ {Max(s)}], Max(s))
    <3>1. CASE s = {}
      BY <1>4, <3>1 DEF Solves
    <3>2. CASE s # {}
      <4>1. g[s \ {Max(s)}] \in T /\ Max(s) \in 1..n
        BY <1>4, <1>5, <3>2
      <4>2. g[s] = step[<<g[s \ {Max(s)}], Max(s)>>]
        BY <1>4, <3>2 DEF Solves
      <4> QED BY <1>3, <3>2, <4>1, <4>2
    <3> QED BY <3>1, <3>2
  <2> QED BY <1>1, <1>4, <2>1
<1>7. it = [s \in SUBSET DOMAIN rows |-> IF s = {} THEN <<>> ELSE op(it[s \ {Max(s)}], Max(s))]
  BY <1>6, Zenon
<1> HIDE DEF it
<1>8. Iterates(it, <<>>, step, T, n)
  BY <1>1, <1>3, <1>5, <1>7 DEF Iterates
<1>9. PICK c \in [0..n -> T] : Passes(c, <<>>, step, n, it[1..n])
  BY <1>1, <1>3, <1>8, FoldTrace
<1>10. ASSUME NEW k \in 1..n PROVE c[k] = op(c[k - 1], k)
  <2>1. k - 1 \in 0..n
    BY <1>1
  <2> QED BY <1>3, <1>9, <2>1 DEF Passes
<1>11. c[0] = <<>> /\ c[n] = Sorted(order, rows)
  BY <1>1, <1>2, <1>9 DEF Passes
<1>12. Ranks(c, order, rows)
  BY <1>10, <1>11, Zenon DEF n, op, Ranks
<1> QED BY <1>12 DEF n, T

\* Sorted rows are the same rows.
LEMMA SortedSame ==
  ASSUME NEW U, NEW rows \in Seq(U), NEW order
  PROVE  Sorted(order, rows) \in Seq(U) /\ ToSet(Sorted(order, rows)) = ToSet(rows)
<1>1. CASE order = NoOrder
  BY <1>1 DEF Sorted
<1>2. CASE order # NoOrder
  <2>1. PICK c \in [0..Len(rows) -> Seq(U)] : Ranks(c, order, rows)
    BY <1>2, SortTrace
  <2>2. ASSUME NEW k \in 1..Len(rows)
        PROVE  \E m \in 1..(Len(c[k - 1]) + 1) : c[k] = InsertAt(c[k - 1], m, rows[k])
    <3> DEFINE a == c[k - 1]
               behind == {p \in DOMAIN a : ~Before(order, rows[k], a[p])}
    <3>1. a \in Seq(U)
      OBVIOUS
    <3>2. 1 + Cardinality(behind) \in 1..(Len(a) + 1)
      <4> HIDE DEF a
      <4>1. behind \subseteq DOMAIN a
        OBVIOUS
      <4> HIDE DEF behind
      <4> QED BY <3>1, <4>1, InsertPlace
    <3>3. c[k] = InsertAt(a, 1 + Cardinality(behind), rows[k])
      BY <2>1 DEF Ranks
    <3> QED BY <3>2, <3>3
  <2>3. SortsIn(c, rows)
    BY <2>1, <2>2 DEF SortsIn, Ranks
  <2>4. ToSet(c[Len(rows)]) = ToSet(rows)
    BY <2>3, InsertsAll
  <2>5. c[Len(rows)] \in Seq(U) /\ c[Len(rows)] = Sorted(order, rows)
    BY <2>1 DEF Ranks
  <2> QED BY <2>4, <2>5
<1> QED BY <1>1, <1>2

\* What has an ID keeps it.
Holds(before, after) ==
  \A k \in DOMAIN before.assigned :
    k \in DOMAIN after.assigned /\ after.assigned[k] = before.assigned[k]

\* The key of a record is a key of the process filesystem.
LEMMA KeysTyped ==
  ASSUME ids \in Allocator, NEW record \in Scanned
  PROVE  KeyOf(record) \in ProcessKey
<1>1. ids.boot \in Nat
  BY DEF Allocator
<1> QED BY <1>1 DEF KeyOf, Anchored, Scanned, ProcessKey

\* A key without an ID gets the next one.
LEMMA AssignKeeps ==
  ASSUME ids \in Allocator, NEW a, Allots(a), NEW record \in Scanned
  PROVE  /\ Allots(Assign(a, record)) /\ Holds(a, Assign(a, record))
         /\ KeyOf(record) \in DOMAIN Assign(a, record).assigned
<1> DEFINE key == KeyOf(record)
<1>1. key \in ProcessKey
  BY KeysTyped
<1>2. CASE key \in DOMAIN a.assigned
  BY <1>2 DEF Assign, Holds
<1>3. CASE key \notin DOMAIN a.assigned
  <2> DEFINE b == Assign(a, record)
             D == DOMAIN a.assigned
             next == [k \in D \cup {key} |-> IF k \in D THEN a.assigned[k] ELSE a.last + 1]
  <2>1. a \in Allocator /\ a.last \in Nat /\ D \subseteq ProcessKey /\ a.assigned \in [D -> Nat]
    BY DEF Allots, Allocator
  <2>3. b = [a EXCEPT !.last = @ + 1, !.assigned = next]
    BY <1>3 DEF Assign
  <2>4. b.last = a.last + 1 /\ b.assigned = next /\ b.boot = a.boot /\ b = [assigned |-> next, boot |-> a.boot, last |-> a.last + 1]
    BY <2>1, <2>3 DEF Allocator
  <2> HIDE DEF key
  <2>5. next \in [D \cup {key} -> Nat] /\ D \cup {key} \subseteq ProcessKey
    BY <1>1, <2>1
  <2>6. DOMAIN next = D \cup {key} /\ next[key] = a.last + 1 /\ \A k \in D : next[k] = a.assigned[k]
    BY <1>3
  <2>7. a.boot \in Nat
    BY <2>1 DEF Allocator
  <2> HIDE DEF next, D, b
  <2>8. b \in Allocator
    <3>1. next \in UNION {[E -> Nat] : E \in SUBSET ProcessKey}
      BY <2>5
    <3> QED BY <2>1, <2>4, <2>7, <3>1 DEF Allocator
  <2>9. \A k \in D : a.assigned[k] \in Nat /\ a.assigned[k] <= a.last
    BY <2>1 DEF Allots, D
  <2>10. \A k \in D \cup {key} : next[k] <= a.last + 1
    BY <2>1, <2>6, <2>9
  <2>11. \A k, l \in D \cup {key} : next[k] = next[l] => k = l
    <3>1. \A k, l \in D : a.assigned[k] = a.assigned[l] => k = l
      BY DEF Allots, D
    <3> QED BY <2>1, <2>6, <2>9, <3>1
  <2>12. Allots(b)
    BY <2>4, <2>6, <2>8, <2>10, <2>11 DEF Allots
  <2> QED BY <2>4, <2>6, <2>12 DEF Holds, b, key, D
<1> QED BY <1>2, <1>3

\* c holds the IDs as the records get theirs.
Hands(c, start, records) ==
  /\ c[0] = start /\ c[Len(records)] = FoldLeft(Assign, start, records)
  /\ \A k \in 1..Len(records) :
       c[k] = Assign(c[k - 1], records[k])

\* The fold goes through such states.
LEMMA AssignTrace ==
  ASSUME NEW records \in Seq(Scanned), NEW start, Allots(start), ids \in Allocator
  PROVE  \E c \in [0..Len(records) -> {a \in Allocator : Allots(a)}] : Hands(c, start, records)
<1> DEFINE n == Len(records)
           T == {a \in Allocator : Allots(a)}
           op(a, i) == Assign(a, records[i])
           step == [p \in T \X (1..n) |-> op(p[1], p[2])]
           it == CHOOSE f : f = [s \in SUBSET DOMAIN records |->
                   IF s = {} THEN start ELSE op(f[s \ {Max(s)}], Max(s))]
<1>1. n \in Nat /\ DOMAIN records = 1..n /\ start \in T
  BY DEF Allots
<1>2. FoldLeft(Assign, start, records) = it[DOMAIN records]
  BY Zenon DEF FoldLeft, MapThenFoldSet
<1>3. step \in [T \X (1..n) -> T] /\ \A a \in T, i \in 1..n : step[<<a, i>>] = op(a, i)
  <2>1. ASSUME NEW a \in T, NEW i \in 1..n PROVE op(a, i) \in T
    
    <3>1. Allots(a) /\ records[i] \in Scanned
      OBVIOUS
    <3>2. Allots(Assign(a, records[i]))
      BY <3>1, AssignKeeps
    <3> QED BY <3>2 DEF Allots
  <2> HIDE DEF op, T, n
  <2> QED BY <2>1
<1> HIDE DEF op, step, T, n
<1>4. PICK g \in [SUBSET (1..n) -> T] : Solves(g, start, step, n)
  BY <1>1, <1>3, FoldExists
<1>5. \A s \in SUBSET (1..n) : s # {} => Max(s) \in 1..n /\ s \ {Max(s)} \in SUBSET (1..n)
  BY <1>1, MaxOfPositions
<1>6. g = [s \in SUBSET DOMAIN records |-> IF s = {} THEN start ELSE op(g[s \ {Max(s)}], Max(s))]
  <2>1. ASSUME NEW s \in SUBSET (1..n)
        PROVE  g[s] = IF s = {} THEN start ELSE op(g[s \ {Max(s)}], Max(s))
    <3>1. CASE s = {}
      BY <1>4, <3>1 DEF Solves
    <3>2. CASE s # {}
      <4>1. g[s \ {Max(s)}] \in T /\ Max(s) \in 1..n
        BY <1>4, <1>5, <3>2
      <4>2. g[s] = step[<<g[s \ {Max(s)}], Max(s)>>]
        BY <1>4, <3>2 DEF Solves
      <4> QED BY <1>3, <3>2, <4>1, <4>2
    <3> QED BY <3>1, <3>2
  <2> QED BY <1>1, <1>4, <2>1
<1>7. it = [s \in SUBSET DOMAIN records |-> IF s = {} THEN start ELSE op(it[s \ {Max(s)}], Max(s))]
  BY <1>6, Zenon
<1> HIDE DEF it
<1>8. Iterates(it, start, step, T, n)
  BY <1>1, <1>3, <1>5, <1>7 DEF Iterates
<1>9. PICK c \in [0..n -> T] : Passes(c, start, step, n, it[1..n])
  BY <1>1, <1>3, <1>8, FoldTrace
<1>10. ASSUME NEW k \in 1..n PROVE c[k] = op(c[k - 1], k)
  <2>1. k - 1 \in 0..n
    BY <1>1
  <2> QED BY <1>3, <1>9, <2>1 DEF Passes
<1>11. c[0] = start /\ c[n] = FoldLeft(Assign, start, records)
  BY <1>1, <1>2, <1>9 DEF Passes
<1>12. Hands(c, start, records)
  BY <1>10, <1>11, Zenon DEF n, op, Hands
<1> QED BY <1>12 DEF n, T

\* Every record's process gets an ID and none loses its own.
LEMMA AssignAll ==
  ASSUME NEW records \in Seq(Scanned), NEW start, Allots(start), ids \in Allocator
  PROVE  LET end == FoldLeft(Assign, start, records)
         IN  /\ Allots(end) /\ Holds(start, end)
             /\ \A i \in DOMAIN records : KeyOf(records[i]) \in DOMAIN end.assigned
<1> DEFINE n == Len(records)
<1>1. PICK c \in [0..n -> {a \in Allocator : Allots(a)}] : Hands(c, start, records)
  BY AssignTrace
<1> DEFINE Good(k) == /\ Holds(start, c[k])
                      /\ \A i \in 1..k : KeyOf(records[i]) \in DOMAIN c[k].assigned
           S == {k \in 0..n : Good(k)}
<1>2. n \in Nat /\ 0 \in 0..n /\ n \in 0..n /\ DOMAIN records = 1..n
  OBVIOUS
<1>3. 0 \in S
  BY <1>1, <1>2 DEF Hands, Holds
<1>4. ASSUME NEW k \in 1..n, k - 1 \in S PROVE k \in S
  <2>1. /\ k - 1 \in 0..n /\ k \in 0..n /\ records[k] \in Scanned
        /\ \A i \in 1..k : i = k \/ i \in 1..(k - 1)
    BY <1>2
  <2>2. Allots(c[k - 1]) /\ c[k] = Assign(c[k - 1], records[k])
    BY <1>1, <2>1 DEF Hands
  <2>3. Holds(c[k - 1], c[k]) /\ KeyOf(records[k]) \in DOMAIN c[k].assigned
    BY <2>1, <2>2, AssignKeeps
  <2>4. Good(k - 1)
    BY <1>4
  <2>5. Good(k)
    BY <2>1, <2>3, <2>4 DEF Holds
  <2> QED BY <2>1, <2>5
<1>5. n \in S
  <2> HIDE DEF S
  <2> QED BY <1>2, <1>3, <1>4, Counting
<1>6. c[n] = FoldLeft(Assign, start, records) /\ Allots(c[n])
  BY <1>1, <1>2 DEF Hands
<1>7. Good(n)
  BY <1>5
<1> QED BY <1>2, <1>6, <1>7

\* The IDs of a scan's processes.
LEMMA AssignedAll ==
  ASSUME ScanSound, Allots(ids)
  PROVE  /\ Allots(Assigned) /\ Holds(ids, Assigned)
         /\ ~Rejected => \A i \in DOMAIN scan.records :
                           KeyOf(scan.records[i]) \in DOMAIN Assigned.assigned
<1>1. CASE Rejected
  BY <1>1 DEF Assigned, Holds
<1>2. CASE ~Rejected
  <2> DEFINE start == IF scan.records = <<>> THEN ids ELSE [ids EXCEPT !.boot = Anchored(scan.boot)]
             sorted == InPidOrder(scan.records)
  <2>1. ids \in Allocator /\ scan.boot \in Nat /\ scan.records \in Seq(Scanned)
    BY DEF Allots, ScanSound, ScanTypes, ScanState
  <2>2. Allots(start) /\ Holds(ids, start)
    <3>1. Anchored(scan.boot) \in Nat
      BY <2>1 DEF Anchored, Allocator
    <3> DEFINE moved == [ids EXCEPT !.boot = Anchored(scan.boot)]
    <3>2. moved \in Allocator /\ moved.assigned = ids.assigned /\ moved.last = ids.last
      BY <2>1, <3>1 DEF Allocator
    <3>3. Allots(moved) /\ Holds(ids, moved)
      <4> HIDE DEF moved
      <4> QED BY <3>2 DEF Allots, Holds
    <3>4. Allots(ids) /\ Holds(ids, ids)
      BY DEF Holds
    <3>5. start = moved \/ start = ids
      OBVIOUS
    <3> HIDE DEF start, moved
    <3> QED BY <3>3, <3>4, <3>5
  <2>3. sorted \in Seq(Scanned) /\ ToSet(sorted) = ToSet(scan.records)
    BY <2>1, PidOrderSame
  <2>4. Assigned = FoldLeft(Assign, start, sorted)
    BY <1>2 DEF Assigned
  <2> HIDE DEF start, sorted
  <2>5. /\ Allots(Assigned) /\ Holds(start, Assigned)
        /\ \A i \in DOMAIN sorted : KeyOf(sorted[i]) \in DOMAIN Assigned.assigned
    BY <2>1, <2>2, <2>3, <2>4, AssignAll
  <2>6. Holds(ids, Assigned)
    BY <2>2, <2>5 DEF Holds
  <2>7. ASSUME NEW i \in DOMAIN scan.records PROVE KeyOf(scan.records[i]) \in DOMAIN Assigned.assigned
    <3>1. scan.records[i] \in ToSet(sorted)
      BY <2>3 DEF ToSet
    <3>2. PICK j \in DOMAIN sorted : sorted[j] = scan.records[i]
      BY <3>1 DEF ToSet
    <3> QED BY <2>5, <3>2
  <2> QED BY <2>5, <2>6, <2>7
<1> QED BY <1>1, <1>2

\* The rows of a scan's records.
LEMMA ProjectedRows ==
  ASSUME ScanSound, Allots(ids), ~Rejected, NEW layout
  PROVE  /\ Table(Projected(layout)) /\ Known(Projected(layout), Assigned)
         /\ \A i \in DOMAIN scan.records : \E j \in DOMAIN Projected(layout) :
              Projected(layout)[j].key = KeyOf(scan.records[i])
<1> DEFINE sorted == InPidOrder(scan.records)
           rows == Projected(layout)
           n == Len(sorted)
           Values(record) == [pid |-> record.pid, resident |-> record.resident]
           Cells(record) == [f \in Fields |-> Cell(f, Values(record)[f])]
           Value(record) == [i \in DOMAIN layout |-> Cells(record)[layout[i]]]
           V == UNION {{Values(sorted[i]), Cells(sorted[i]), Value(sorted[i])} : i \in 1..n}
<1>1. ids \in Allocator /\ scan.records \in Seq(Scanned)
  BY DEF Allots, ScanSound, ScanTypes, ScanState
<1>2. sorted \in Seq(Scanned) /\ ToSet(sorted) = ToSet(scan.records)
  BY <1>1, PidOrderSame
<1>3. Assigned \in Allocator /\ \A i \in DOMAIN scan.records :
                                  KeyOf(scan.records[i]) \in DOMAIN Assigned.assigned
  BY AssignedAll DEF Allots
<1>4. rows = [i \in DOMAIN sorted |->
                [id |-> Assigned.assigned[KeyOf(sorted[i])], key |-> KeyOf(sorted[i]),
                 sort |-> Values(sorted[i]), cells |-> Cells(sorted[i]), value |-> Value(sorted[i])]]
  <2>1. \A id, key, sort, cells :
          LaidOut([id |-> id, key |-> key, sort |-> sort, cells |-> cells, value |-> <<>>], layout) =
          [id |-> id, key |-> key, sort |-> sort, cells |-> cells,
           value |-> [i \in DOMAIN layout |-> cells[layout[i]]]]
    BY DEF LaidOut
  <2>2. rows = [i \in DOMAIN sorted |->
                 LaidOut([id |-> Assigned.assigned[KeyOf(sorted[i])], key |-> KeyOf(sorted[i]),
                          sort |-> Values(sorted[i]), cells |-> Cells(sorted[i]),
                          value |-> <<>>], layout)]
    BY Zenon DEF Projected
  <2> HIDE DEF sorted, rows, Values, Cells
  <2>3. ASSUME NEW record, NEW id, NEW key
        PROVE  LaidOut([id |-> id, key |-> key, sort |-> Values(record), cells |-> Cells(record),
                        value |-> <<>>], layout)
               = [id |-> id, key |-> key, sort |-> Values(record), cells |-> Cells(record),
                  value |-> Value(record)]
    BY <2>1, Zenon
  <2> HIDE DEF Value
  <2> QED BY <2>2, <2>3, Zenon
<1> HIDE DEF sorted, rows, Values, Cells, Value
<1>5. n \in Nat /\ DOMAIN sorted = 1..n
  BY <1>2
<1>6. ASSUME NEW i \in 1..n
      PROVE  /\ KeyOf(sorted[i]) \in DOMAIN Assigned.assigned
             /\ Assigned.assigned[KeyOf(sorted[i])] \in Nat
             /\ KeyOf(sorted[i]) \in ProcessKey
  <2>1. PICK j \in DOMAIN scan.records : sorted[i] = scan.records[j]
    BY <1>2, <1>5 DEF ToSet
  <2>2. KeyOf(sorted[i]) \in DOMAIN Assigned.assigned
    BY <1>3, <2>1
  <2>3. sorted[i] \in Scanned
    BY <1>2, <1>5
  <2>4. Assigned.assigned[KeyOf(sorted[i])] \in Nat
    BY <1>3, <2>2 DEF Allocator
  <2> QED BY <1>1, <2>2, <2>3, <2>4, KeysTyped
<1>7. rows \in Seq(RowOver(V))
  <2>1. ASSUME NEW i \in 1..n PROVE Values(sorted[i]) \in V /\ Cells(sorted[i]) \in V /\ Value(sorted[i]) \in V
    OBVIOUS
  <2> HIDE DEF V
  <2>2. \A i \in 1..n : rows[i] \in RowOver(V)
    BY <1>4, <1>5, <1>6, <2>1 DEF RowOver
  <2>3. rows = [i \in 1..n |-> rows[i]]
    BY <1>4, <1>5
  <2> QED BY <1>5, <2>2, <2>3
<1>8. Table(rows)
  <2> HIDE DEF V
  <2> QED BY <1>7 DEF Table
<1>9. DOMAIN rows = 1..n /\ \A i \in 1..n : /\ rows[i].key = KeyOf(sorted[i])
                                           /\ rows[i].id = Assigned.assigned[KeyOf(sorted[i])]
  BY <1>4, <1>5
<1>10. Known(rows, Assigned)
  BY <1>6, <1>9 DEF Known
<1>11. ASSUME NEW i \in DOMAIN scan.records PROVE \E j \in DOMAIN rows : rows[j].key = KeyOf(scan.records[i])
  <2>1. scan.records[i] \in ToSet(sorted)
    BY <1>2 DEF ToSet
  <2>2. PICK j \in DOMAIN sorted : sorted[j] = scan.records[i]
    BY <2>1 DEF ToSet
  <2> QED BY <1>5, <1>9, <2>2
<1> QED BY <1>8, <1>10, <1>11 DEF rows

-----------------------------------------------------------------------------
(* A refresh.                                                              *)

\* A row that is retained has a place among the confirmed ones.
LEMMA AnchorPlace ==
  ASSUME NEW U, NEW old \in Seq(U), NEW confirmed \in Seq(U), NEW i \in DOMAIN old
  PROVE  Anchor(old, confirmed, i) \in 1..(Len(confirmed) + 1)
<1> DEFINE later == {j \in i..Len(old) : old[j].id \in Ids(confirmed)}
           next  == CHOOSE j \in later : \A k \in later : j <= k
<1>1. Len(confirmed) \in Nat /\ DOMAIN confirmed = 1..Len(confirmed) /\ i \in Nat
  OBVIOUS
<1>2. CASE later = {}
  BY <1>1, <1>2 DEF Anchor
<1>3. CASE later # {}
  <2>1. later \in SUBSET Nat
    BY <1>1
  <2>2. next \in later
    <3> HIDE DEF later
    <3>1. \E j \in later : \A k \in later : j <= k
      BY <1>3, <2>1, LeastExists
    <3> QED BY <3>1
  <2>3. PICK k \in DOMAIN confirmed : confirmed[k].id = old[next].id
    <3>1. old[next].id \in Ids(confirmed)
      <4> HIDE DEF next
      <4> QED BY <2>2
    <3> HIDE DEF next
    <3> QED BY <3>1 DEF Ids
  <2> DEFINE at == CHOOSE p \in DOMAIN confirmed : confirmed[p].id = old[next].id
  <2>4. at \in DOMAIN confirmed
    <3> HIDE DEF next
    <3> QED BY <2>3
  <2>5. Anchor(old, confirmed, i) = at
    BY <1>3, Zenon DEF Anchor
  <2> HIDE DEF at
  <2> QED BY <1>1, <2>4, <2>5
<1> QED BY <1>2, <1>3

\* What goes before a confirmed row is of the rows there were.
LEMMA RetainedAtRows ==
  ASSUME NEW U, NEW old \in Seq(U), NEW confirmed, NEW retention, NEW k
  PROVE  /\ RetainedAt(old, confirmed, retention, k) \in Seq(U)
         /\ \A i \in DOMAIN old :
              (Unaccounted(old[i], confirmed, retention) /\ Anchor(old, confirmed, i) = k) =>
                old[i] \in ToSet(RetainedAt(old, confirmed, retention, k))
<1> DEFINE keep == {old[i] : i \in {i \in DOMAIN old :
                       /\ Unaccounted(old[i], confirmed, retention)
                       /\ Anchor(old, confirmed, i) = k}}
<1>1. RetainedAt(old, confirmed, retention, k) = SelectIn(old, keep)
  BY DEF RetainedAt
<1>2. ASSUME NEW i \in DOMAIN old, Unaccounted(old[i], confirmed, retention),
             Anchor(old, confirmed, i) = k
      PROVE  old[i] \in ToSet(old) \cap keep
  <2>1. old[i] \in keep
    BY <1>2
  <2> HIDE DEF keep
  <2> QED BY <2>1 DEF ToSet
<1> HIDE DEF keep
<1>3. SelectIn(old, keep) \in Seq(U) /\ ToSet(SelectIn(old, keep)) = ToSet(old) \cap keep
  BY SelectInElements
<1> QED BY <1>1, <1>2, <1>3

\* c holds the rows up to a confirmed one, for each of them.
Interleaves(c, at, old, confirmed, retention) ==
  /\ c[0] = <<>> /\ c[Len(at)] = FoldLeft(LAMBDA acc, k : acc \o RetainedAt(old, confirmed, retention, k) \o <<confirmed[k]>>,
            <<>>, at)
  /\ \A k \in 1..Len(at) :
       c[k] = c[k - 1] \o RetainedAt(old, confirmed, retention, at[k]) \o <<confirmed[at[k]]>>

\* The fold goes through such states.
LEMMA RetainTrace ==
  ASSUME NEW U, NEW old \in Seq(U), NEW confirmed \in Seq(U), NEW retention,
         NEW at, at = [i \in DOMAIN confirmed |-> i]
  PROVE  \E c \in [0..Len(at) -> Seq(U)] : Interleaves(c, at, old, confirmed, retention)
<1> DEFINE n == Len(at)
           T == Seq(U)
           op(a, i) == a \o RetainedAt(old, confirmed, retention, at[i]) \o <<confirmed[at[i]]>>
           step == [p \in T \X (1..n) |-> op(p[1], p[2])]
           it == CHOOSE f : f = [s \in SUBSET DOMAIN at |->
                   IF s = {} THEN <<>> ELSE op(f[s \ {Max(s)}], Max(s))]
<1>1. n \in Nat /\ DOMAIN at = 1..n /\ <<>> \in T
  OBVIOUS
<1>2. FoldLeft(LAMBDA acc, k : acc \o RetainedAt(old, confirmed, retention, k) \o <<confirmed[k]>>,
            <<>>, at) = it[DOMAIN at]
  BY Zenon DEF FoldLeft, MapThenFoldSet
<1>3. step \in [T \X (1..n) -> T] /\ \A a \in T, i \in 1..n : step[<<a, i>>] = op(a, i)
  <2>1. ASSUME NEW a \in T, NEW i \in 1..n PROVE op(a, i) \in T
    
    <3>1. at[i] \in DOMAIN confirmed /\ confirmed[at[i]] \in U
      OBVIOUS
    <3>2. RetainedAt(old, confirmed, retention, at[i]) \in Seq(U)
      BY RetainedAtRows
    <3>3. <<confirmed[at[i]]>> \in Seq(U)
      BY <3>1
    <3> QED BY <3>2, <3>3, ConcatSets
  <2> HIDE DEF op, T, n
  <2> QED BY <2>1
<1> HIDE DEF op, step, T, n
<1>4. PICK g \in [SUBSET (1..n) -> T] : Solves(g, <<>>, step, n)
  BY <1>1, <1>3, FoldExists
<1>5. \A s \in SUBSET (1..n) : s # {} => Max(s) \in 1..n /\ s \ {Max(s)} \in SUBSET (1..n)
  BY <1>1, MaxOfPositions
<1>6. g = [s \in SUBSET DOMAIN at |-> IF s = {} THEN <<>> ELSE op(g[s \ {Max(s)}], Max(s))]
  <2>1. ASSUME NEW s \in SUBSET (1..n)
        PROVE  g[s] = IF s = {} THEN <<>> ELSE op(g[s \ {Max(s)}], Max(s))
    <3>1. CASE s = {}
      BY <1>4, <3>1 DEF Solves
    <3>2. CASE s # {}
      <4>1. g[s \ {Max(s)}] \in T /\ Max(s) \in 1..n
        BY <1>4, <1>5, <3>2
      <4>2. g[s] = step[<<g[s \ {Max(s)}], Max(s)>>]
        BY <1>4, <3>2 DEF Solves
      <4> QED BY <1>3, <3>2, <4>1, <4>2
    <3> QED BY <3>1, <3>2
  <2> QED BY <1>1, <1>4, <2>1
<1>7. it = [s \in SUBSET DOMAIN at |-> IF s = {} THEN <<>> ELSE op(it[s \ {Max(s)}], Max(s))]
  BY <1>6, Zenon
<1> HIDE DEF it
<1>8. Iterates(it, <<>>, step, T, n)
  BY <1>1, <1>3, <1>5, <1>7 DEF Iterates
<1>9. PICK c \in [0..n -> T] : Passes(c, <<>>, step, n, it[1..n])
  BY <1>1, <1>3, <1>8, FoldTrace
<1>10. ASSUME NEW k \in 1..n PROVE c[k] = op(c[k - 1], k)
  <2>1. k - 1 \in 0..n
    BY <1>1
  <2> QED BY <1>3, <1>9, <2>1 DEF Passes
<1>11. c[0] = <<>> /\ c[n] = FoldLeft(LAMBDA acc, k : acc \o RetainedAt(old, confirmed, retention, k) \o <<confirmed[k]>>,
            <<>>, at)
  BY <1>1, <1>2, <1>9 DEF Passes
<1>12. Interleaves(c, at, old, confirmed, retention)
  BY <1>10, <1>11, Zenon DEF n, op, Interleaves
<1> QED BY <1>12 DEF n, T

\* A refresh keeps the confirmed rows and those it cannot account for.
LEMMA RetainAll ==
  ASSUME NEW U, NEW old \in Seq(U), NEW confirmed \in Seq(U), NEW retention
  PROVE  LET rows == RetainUnconfirmed(old, confirmed, retention)
         IN  /\ rows \in Seq(U)
             /\ \A j \in DOMAIN confirmed : confirmed[j] \in ToSet(rows)
             /\ \A i \in DOMAIN old :
                  Unaccounted(old[i], confirmed, retention) => old[i] \in ToSet(rows)
<1> DEFINE n == Len(confirmed)
           at == [i \in DOMAIN confirmed |-> i]
<1>1. n \in Nat /\ DOMAIN confirmed = 1..n /\ 0 \in 0..n /\ n \in 0..n /\ n + 1 \in Nat
  OBVIOUS
<1>2. at \in Seq(1..n) /\ Len(at) = n /\ \A k \in 1..n : at[k] = k
  BY <1>1
<1>3. PICK c \in [0..Len(at) -> Seq(U)] : Interleaves(c, at, old, confirmed, retention)
  BY RetainTrace
<1>4. RetainUnconfirmed(old, confirmed, retention) =
        c[n] \o RetainedAt(old, confirmed, retention, n + 1)
  BY <1>2, <1>3 DEF RetainUnconfirmed, FoldLeftDomain, Interleaves
<1>5. c[0] = <<>> /\ \A k \in 1..n :
        c[k] = c[k - 1] \o RetainedAt(old, confirmed, retention, k) \o <<confirmed[k]>>
  BY <1>2, <1>3 DEF Interleaves
<1>6. \A k \in 0..n : c[k] \in Seq(U)
  BY <1>2
<1> HIDE DEF at
<1> DEFINE Good(k) ==
             /\ \A j \in 1..k : confirmed[j] \in ToSet(c[k])
             /\ \A i \in DOMAIN old :
                  (Unaccounted(old[i], confirmed, retention) /\ Anchor(old, confirmed, i) \in 1..k) =>
                    old[i] \in ToSet(c[k])
           S == {k \in 0..n : Good(k)}
<1>7. 0 \in S
  <2>1. 1..0 = {}
    OBVIOUS
  <2> QED BY <1>1, <2>1
<1>8. ASSUME NEW k \in 1..n, k - 1 \in S PROVE k \in S
  <2>1. /\ k - 1 \in 0..n /\ k \in 0..n /\ c[k - 1] \in Seq(U) /\ confirmed[k] \in U
        /\ \A i \in 1..k : i = k \/ i \in 1..(k - 1)
    <3>1. k - 1 \in 0..n /\ k \in 0..n /\ \A i \in 1..k : i = k \/ i \in 1..(k - 1)
      <4> HIDE DEF n, S
      <4> QED BY <1>1
    <3>2. c[k - 1] \in Seq(U)
      BY <1>6, <3>1
    <3> QED BY <1>1, <3>1, <3>2
  <2> DEFINE middle == RetainedAt(old, confirmed, retention, k)
             last == <<confirmed[k]>>
  <2>2. middle \in Seq(U) /\ \A i \in DOMAIN old :
          (Unaccounted(old[i], confirmed, retention) /\ Anchor(old, confirmed, i) = k) =>
            old[i] \in ToSet(middle)
    BY RetainedAtRows
  <2>3. last \in Seq(U) /\ confirmed[k] \in ToSet(last)
    BY <2>1 DEF ToSet
  <2> HIDE DEF middle, last
  <2>4. ToSet(c[k]) = ToSet(c[k - 1]) \cup ToSet(middle) \cup ToSet(last)
    <3>1. c[k - 1] \o middle \in Seq(U) /\ ToSet(c[k - 1] \o middle) = ToSet(c[k - 1]) \cup ToSet(middle)
      BY <2>1, <2>2, ConcatSets
    <3> DEFINE front == c[k - 1] \o middle
    <3>2. ToSet(front \o last) = ToSet(front) \cup ToSet(last)
      <4>1. front \in Seq(U)
        BY <3>1
      <4> HIDE DEF front
      <4> QED BY <2>3, <4>1, ConcatSets
    <3>3. c[k] = (c[k - 1] \o middle) \o last
      BY <1>5 DEF middle, last
    <3> QED BY <3>1, <3>2, <3>3
  <2>5. Good(k - 1)
    BY <1>8
  <2>6. Good(k)
    BY <2>1, <2>2, <2>3, <2>4, <2>5
  <2> QED BY <2>1, <2>6
<1>9. Good(n)
  <2>1. n \in S
    <3> HIDE DEF S
    <3> QED BY <1>1, <1>7, <1>8, Counting
  <2> QED BY <2>1
<1> DEFINE tail == RetainedAt(old, confirmed, retention, n + 1)
<1>10. tail \in Seq(U) /\ \A i \in DOMAIN old :
         (Unaccounted(old[i], confirmed, retention) /\ Anchor(old, confirmed, i) = n + 1) =>
           old[i] \in ToSet(tail)
  BY RetainedAtRows
<1>11. c[n] \o tail \in Seq(U) /\ ToSet(c[n] \o tail) = ToSet(c[n]) \cup ToSet(tail)
  <2> HIDE DEF tail
  <2> QED BY <1>1, <1>6, <1>10, ConcatSets
<1>12. ASSUME NEW i \in DOMAIN old, Unaccounted(old[i], confirmed, retention)
       PROVE  old[i] \in ToSet(c[n]) \cup ToSet(tail)
  <2>1. Anchor(old, confirmed, i) \in 1..(n + 1)
    BY AnchorPlace
  <2>2. Anchor(old, confirmed, i) \in 1..n \/ Anchor(old, confirmed, i) = n + 1
    <3> DEFINE a == Anchor(old, confirmed, i)
    <3>1. a \in 1..(n + 1)
      BY <2>1
    <3> HIDE DEF a, n
    <3>2. a \in 1..n \/ a = n + 1
      BY <1>1, <3>1
    <3> QED BY <3>2 DEF a
  <2> QED BY <1>9, <1>10, <1>12, <2>2
<1> HIDE DEF tail
<1> QED BY <1>1, <1>4, <1>9, <1>11, <1>12 DEF tail

\* Rows of whatever kind may be put in one table.
LEMMA OneTable ==
  ASSUME NEW a, NEW b, Table(a), Table(b)
  PROVE  \E V : a \in Seq(RowOver(V)) /\ b \in Seq(RowOver(V))
<1>1. PICK V : a \in Seq(RowOver(V))
  BY DEF Table
<1>2. PICK W : b \in Seq(RowOver(W))
  BY DEF Table
<1> DEFINE X == V \cup W
<1>3. \A row : row \in RowOver(V) \/ row \in RowOver(W) => row \in RowOver(X)
  BY DEF RowOver
<1> HIDE DEF X
<1>4. a \in Seq(RowOver(X)) /\ b \in Seq(RowOver(X))
  BY <1>1, <1>2, <1>3
<1> QED BY <1>4

\* Rows with the IDs of their processes.
KnownOver(V, allocator) ==
  {row \in RowOver(V) : row.key \in DOMAIN allocator.assigned
                        /\ allocator.assigned[row.key] = row.id}

\* A table of known rows, and a sequence over known rows, are the same.
LEMMA KnownSeq ==
  ASSUME NEW V, NEW rows, NEW allocator
  PROVE  rows \in Seq(KnownOver(V, allocator)) <=>
           rows \in Seq(RowOver(V)) /\ Known(rows, allocator)
<1> DEFINE R == RowOver(V)
           K == KnownOver(V, allocator)
<1>1. \A row : row \in K <=> /\ row \in R /\ row.key \in DOMAIN allocator.assigned
                             /\ allocator.assigned[row.key] = row.id
  BY DEF KnownOver
<1> HIDE DEF R, K
<1>2. ASSUME rows \in Seq(K) PROVE rows \in Seq(R) /\ Known(rows, allocator)
  <2>1. \A i \in DOMAIN rows : rows[i] \in K
    BY <1>2
  <2>2. Known(rows, allocator)
    BY <1>1, <2>1 DEF Known
  <2>3. rows \in Seq(R)
    BY <1>1, <1>2
  <2> QED BY <2>2, <2>3
<1>3. ASSUME rows \in Seq(R), Known(rows, allocator) PROVE rows \in Seq(K)
  <2>1. \A i \in 1..Len(rows) : rows[i] \in R
    BY <1>3
  <2>2. \A i \in 1..Len(rows) : rows[i] \in K
    <3>1. DOMAIN rows = 1..Len(rows)
      BY <1>3
    <3> QED BY <1>1, <1>3, <2>1, <3>1 DEF Known
  <2>3. rows = [i \in 1..Len(rows) |-> rows[i]] /\ Len(rows) \in Nat
    BY <1>3
  <2> QED BY <2>2, <2>3
<1> QED BY <1>2, <1>3 DEF R, K

\* IDs kept for rows are the IDs those rows have.
LEMMA RetainedIds ==
  ASSUME NEW allocator, Allots(allocator), NEW rows, Known(rows, allocator)
  PROVE  Allots(IdsRetain(allocator, rows)) /\ Known(rows, IdsRetain(allocator, rows))
<1> DEFINE live == {rows[i].key : i \in DOMAIN rows}
           D == DOMAIN allocator.assigned
           some == [key \in D \cap live |-> allocator.assigned[key]]
           kept == IdsRetain(allocator, rows)
<1>1. /\ allocator \in Allocator /\ D \subseteq ProcessKey /\ allocator.assigned \in [D -> Nat]
      /\ allocator.boot \in Nat /\ allocator.last \in Nat
  BY DEF Allots, Allocator
<1>2. kept = [assigned |-> some, boot |-> allocator.boot, last |-> allocator.last]
  <2>1. kept = [allocator EXCEPT !.assigned = some]
    BY DEF IdsRetain
  <2> HIDE DEF kept, some
  <2> QED BY <1>1, <2>1 DEF Allocator
<1>3. some \in [D \cap live -> Nat] /\ D \cap live \in SUBSET ProcessKey
  <2> HIDE DEF D, live
  <2> QED BY <1>1
<1>4. DOMAIN some = D \cap live /\ \A key \in D \cap live : some[key] = allocator.assigned[key]
  OBVIOUS
<1>5. \A i \in DOMAIN rows : rows[i].key \in D \cap live /\ allocator.assigned[rows[i].key] = rows[i].id
  BY DEF Known
<1> HIDE DEF D, live, some, kept
<1>6. kept \in Allocator
  <2>1. some \in UNION {[E -> Nat] : E \in SUBSET ProcessKey}
    BY <1>3
  <2> QED BY <1>1, <1>2, <2>1 DEF Allocator
<1>7. kept.assigned = some /\ kept.last = allocator.last
  BY <1>2
<1>8. Allots(kept)
  BY <1>4, <1>6, <1>7 DEF Allots, D
<1>9. Known(rows, kept)
  BY <1>4, <1>5, <1>7 DEF Known
<1> QED BY <1>8, <1>9 DEF kept

\* Rows keep their IDs as others get theirs.
LEMMA KnownHolds ==
  ASSUME NEW a, NEW b, NEW rows, Known(rows, a), Holds(a, b)
  PROVE  Known(rows, b)
BY DEF Known, Holds

\* What a refresh computes.
ConfirmedRows == Projected(published.columns)
KeptRows == Sorted(published.sort,
                   RetainUnconfirmed(unfiltered, ConfirmedRows,
                                     IF Rejected THEN Unenumerable ELSE Retention))
AllRows == SelectIn(KeptRows, {row \in ToSet(KeptRows) :
                                 row.id \notin Evicted(KeptRows, ConfirmedRows)})

\* A refresh keeps the rows of recorded processes, and of those it cannot account for.
LEMMA RefreshRows ==
  ASSUME ViewSound, ~Rejected
  PROVE  /\ Table(KeptRows) /\ Known(KeptRows, Assigned)
         /\ \A j \in DOMAIN ConfirmedRows : ConfirmedRows[j] \in ToSet(KeptRows)
         /\ \A i \in DOMAIN unfiltered :
              Unaccounted(unfiltered[i], ConfirmedRows, Retention) => unfiltered[i] \in ToSet(KeptRows)
         /\ Table(AllRows) /\ Known(AllRows, Assigned)
         /\ Table(ConfirmedRows) /\ Known(ConfirmedRows, Assigned)
<1>1. Allots(Assigned) /\ Holds(ids, Assigned)
  BY AssignedAll DEF ViewSound
<1>2. Table(ConfirmedRows) /\ Known(ConfirmedRows, Assigned)
  BY ProjectedRows DEF ViewSound, ConfirmedRows
<1>3. Table(unfiltered) /\ Known(unfiltered, Assigned)
  BY <1>1, KnownHolds DEF ViewSound
<1>4. PICK V : ConfirmedRows \in Seq(RowOver(V)) /\ unfiltered \in Seq(RowOver(V))
  BY <1>2, <1>3, OneTable
<1> DEFINE U == KnownOver(V, Assigned)
           both == RetainUnconfirmed(unfiltered, ConfirmedRows, Retention)
<1>5. ConfirmedRows \in Seq(U) /\ unfiltered \in Seq(U)
  BY <1>2, <1>3, <1>4, KnownSeq
<1>6. KeptRows = Sorted(published.sort, both)
  BY DEF KeptRows
<1> HIDE DEF U
<1>7. /\ both \in Seq(U)
      /\ \A j \in DOMAIN ConfirmedRows : ConfirmedRows[j] \in ToSet(both)
      /\ \A i \in DOMAIN unfiltered :
           Unaccounted(unfiltered[i], ConfirmedRows, Retention) => unfiltered[i] \in ToSet(both)
  BY <1>5, RetainAll
<1> HIDE DEF both
<1>8. KeptRows \in Seq(U) /\ ToSet(KeptRows) = ToSet(both)
  BY <1>6, <1>7, SortedSame
<1>9. AllRows \in Seq(U)
  BY <1>8, SelectInElements DEF AllRows
<1>10. Table(KeptRows) /\ Known(KeptRows, Assigned) /\ Table(AllRows) /\ Known(AllRows, Assigned)
  BY <1>8, <1>9, KnownSeq DEF U, Table
<1> QED BY <1>2, <1>7, <1>8, <1>10

\* If none is counted as evicted, none is.
LEMMA EvictedNone ==
  ASSUME NEW U, NEW rows \in Seq(U), NEW confirmed, Cardinality(Evicted(rows, confirmed)) = 0
  PROVE  Evicted(rows, confirmed) = {}
<1> DEFINE gone == {i \in {i \in DOMAIN rows : rows[i].id \notin Ids(confirmed)} :
                      Cardinality({j \in {i2 \in DOMAIN rows : rows[i2].id \notin Ids(confirmed)} : j >= i})
                        <= Len(rows) - PublishedLimit}
           Id(i) == rows[i].id
<1>1. Evicted(rows, confirmed) = {Id(i) : i \in gone}
  BY DEF Evicted
<1>2. gone \subseteq 1..Len(rows) /\ Len(rows) \in Nat
  OBVIOUS
<1> HIDE DEF gone, Id
<1>3. IsFiniteSet(gone)
  <2>1. IsFiniteSet(1..Len(rows))
    BY <1>2, FS_Interval
  <2> QED BY <1>2, <2>1, FS_Subset
<1> DEFINE f == [i \in gone |-> Id(i)]
           out == {Id(i) : i \in gone}
<1>4. f \in Surjection(gone, out)
  BY DEF Surjection
<1>5. IsFiniteSet(out)
  BY <1>3, <1>4, FS_Surjection
<1>6. Cardinality(out) = 0
  BY <1>1
<1> HIDE DEF out
<1>7. out = {}
  BY <1>5, <1>6, FS_EmptySet
<1> QED BY <1>1, <1>7 DEF out

\* A refresh that evicts nothing keeps every row that it does not account for, and
\* has a row for every process recorded.
LEMMA RefreshKeeps ==
  ASSUME ViewSound, ~Rejected, Cardinality(Evicted(KeptRows, ConfirmedRows)) = 0,
         scan.phase = "done", NEW i \in DOMAIN unfiltered,
         unfiltered[i].key.pid \in steady,
         unfiltered[i].key.start = process[unfiltered[i].key.pid]
  PROVE  \E j \in DOMAIN AllRows : /\ AllRows[j].key.pid = unfiltered[i].key.pid
                                   /\ AllRows[j].key.start = unfiltered[i].key.start
<1> DEFINE row == unfiltered[i]
<1>1. /\ Table(KeptRows) /\ Known(KeptRows, Assigned)
      /\ \A j \in DOMAIN ConfirmedRows : ConfirmedRows[j] \in ToSet(KeptRows)
      /\ Unaccounted(row, ConfirmedRows, Retention) => row \in ToSet(KeptRows)
      /\ Known(ConfirmedRows, Assigned)
  BY RefreshRows
<1>2. PICK V : KeptRows \in Seq(RowOver(V))
  BY <1>1 DEF Table
<1>3. Evicted(KeptRows, ConfirmedRows) = {}
  BY <1>2, EvictedNone
<1>4. ToSet(AllRows) = ToSet(KeptRows)
  <2> DEFINE keep == {r \in ToSet(KeptRows) : r.id \notin Evicted(KeptRows, ConfirmedRows)}
  <2>1. keep = ToSet(KeptRows)
    BY <1>3
  <2> HIDE DEF keep
  <2>2. ToSet(SelectIn(KeptRows, keep)) = ToSet(KeptRows) \cap keep
    BY <1>2, SelectInElements
  <2> QED BY <2>1, <2>2 DEF AllRows, keep
<1>5. \A r \in ToSet(KeptRows) : \E j \in DOMAIN AllRows : AllRows[j] = r
  BY <1>4 DEF ToSet
<1>6. CASE row.id \in Ids(ConfirmedRows)
  <2>1. PICK j \in DOMAIN ConfirmedRows : ConfirmedRows[j].id = row.id
    BY <1>6 DEF Ids
  <2>2. Allots(Assigned) /\ Known(unfiltered, Assigned)
    BY AssignedAll, KnownHolds DEF ViewSound
  <2>3. ConfirmedRows[j].key = row.key
    BY <1>1, <2>1, <2>2 DEF Known, Allots
  <2> QED BY <1>1, <1>5, <2>3
<1>7. CASE row.id \notin Ids(ConfirmedRows) /\ Keeps(Retention, row.key.pid)
  BY <1>1, <1>5, <1>7 DEF Unaccounted
<1>8. CASE ~Keeps(Retention, row.key.pid)
  <2> DEFINE p == row.key.pid
  <2>1. scan \in ScanState /\ (scan.file.stage # "none" => scan.phase = "listed")
    BY DEF ViewSound, ScanSound, ScanTypes
  <2>2. Seen(p)
    BY <2>1 DEF ViewSound, SteadySeen
  <2>3. scan.capped.enumerable /\ scan.skipped.enumerable
    BY <1>8 DEF Retention, Unenumerable, Keeps
  <2>4. p \notin scan.capped.named \cup scan.skipped.named
    BY <1>8, <2>3 DEF Retention, Keeps
  <2>5. PICK k \in DOMAIN scan.records : scan.records[k].pid = p /\ scan.records[k].start = process[p]
    BY <2>2, <2>3, <2>4 DEF Seen
  <2>6. PICK j \in DOMAIN ConfirmedRows : ConfirmedRows[j].key = KeyOf(scan.records[k])
    BY ProjectedRows DEF ViewSound, ConfirmedRows
  <2>7. ConfirmedRows[j].key.pid = p /\ ConfirmedRows[j].key.start = row.key.start
    BY <2>5, <2>6 DEF KeyOf
  <2> QED BY <1>1, <1>5, <2>7
<1> QED BY <1>6, <1>7, <1>8

\* The first rows have their IDs.
LEMMA StartSound ==
  ASSUME ViewSound, Start
  PROVE  /\ Allots(ids)' /\ (Table(unfiltered) /\ Known(unfiltered, ids))'
         /\ job'.kind # "apply" /\ {"kind", "unfiltered"} \subseteq DOMAIN job'
<1>1. CASE Rejected
  <2>1. UNCHANGED <<ids, unfiltered>> /\ job' = FailedJob
    BY <1>1 DEF Start
  <2> QED BY <2>1 DEF ViewSound, FailedJob, Job, Table, Known, Allots
<1>2. CASE ~Rejected
  <2> DEFINE all == Projected(DefaultLayout)
  <2>1. ids' = IdsRetain(Assigned, all) /\ unfiltered' = all /\ job' = Idle
    BY <1>2 DEF Start
  <2>2. Table(all) /\ Known(all, Assigned) /\ Allots(Assigned)
    BY <1>2, ProjectedRows, AssignedAll DEF ViewSound
  <2> HIDE DEF all
  <2>3. Allots(IdsRetain(Assigned, all)) /\ Known(all, IdsRetain(Assigned, all))
    BY <2>2, RetainedIds
  <2> QED BY <2>1, <2>2, <2>3 DEF Idle, Job, Table, Known, Allots
<1> QED BY <1>1, <1>2

\* A refresh leaves the rows as they are, or aims at the rows of the scan.
LEMMA ApplyAims ==
  ASSUME Apply
  PROVE  /\ ids' = Assigned /\ UNCHANGED unfiltered
         /\ {"kind", "unfiltered"} \subseteq DOMAIN job'
         /\ \/ job'.kind = "failure" /\ job'.unfiltered = unfiltered
            \/ /\ ~Rejected /\ job'.kind = "apply" /\ job'.unfiltered = AllRows
               /\ job'.evicted = Cardinality(Evicted(KeptRows, ConfirmedRows))
<1> DEFINE retention == IF Rejected THEN Unenumerable ELSE Retention
<1>1. ids' = Assigned /\ UNCHANGED unfiltered
  BY DEF Apply
<1>2. job' = Refresh(ConfirmedRows, retention, AllRows, Cardinality(Evicted(KeptRows, ConfirmedRows)))
  BY Zenon DEF Apply, ConfirmedRows, KeptRows, AllRows
<1>3. CASE ConfirmedRows = <<>> /\ retention.global
  <2>1. PICK summary : job' = Job("failure", FailurePlan(summary), published.rows, unfiltered)
    BY <1>2, <1>3, Zenon DEF Refresh
  <2>2. job'.kind = "failure" /\ job'.unfiltered = unfiltered
        /\ {"kind", "unfiltered"} \subseteq DOMAIN job'
    BY <2>1 DEF Job
  <2> QED BY <1>1, <2>2
<1>4. CASE ~(ConfirmedRows = <<>> /\ retention.global)
  <2>1. \E plan, target : job' = [Job("apply", plan, target, AllRows) EXCEPT
                                    !.evicted = Cardinality(Evicted(KeptRows, ConfirmedRows))]
    BY <1>2, <1>4, Zenon DEF Refresh, RefreshJob
  <2>2. PICK plan, target : job' = [Job("apply", plan, target, AllRows) EXCEPT
                                      !.evicted = Cardinality(Evicted(KeptRows, ConfirmedRows))]
    BY <2>1
  <2>3. job'.kind = "apply" /\ job'.unfiltered = AllRows
        /\ job'.evicted = Cardinality(Evicted(KeptRows, ConfirmedRows))
        /\ {"kind", "unfiltered"} \subseteq DOMAIN job'
    BY <2>2 DEF Job
  <2>4. ~Rejected
    <3> SUFFICES ASSUME Rejected PROVE FALSE
      OBVIOUS
    <3>1. ConfirmedRows = <<>>
      BY DEF ConfirmedRows, Projected
    <3> QED BY <1>4, <3>1 DEF Unenumerable
  <2> QED BY <1>1, <2>3, <2>4
<1> QED BY <1>3, <1>4

\* A refresh keeps the IDs and aims at rows that have theirs.
LEMMA ApplySound ==
  ASSUME ViewSound, Apply
  PROVE  /\ Allots(ids)' /\ (Table(unfiltered) /\ Known(unfiltered, ids))'
         /\ {"kind", "unfiltered"} \subseteq DOMAIN job'
         /\ job'.kind = "apply" => (Table(job.unfiltered) /\ Known(job.unfiltered, ids))'
<1>1. Allots(Assigned) /\ Holds(ids, Assigned)
  BY AssignedAll DEF ViewSound
<1>2. Table(unfiltered) /\ Known(unfiltered, Assigned)
  BY <1>1, KnownHolds DEF ViewSound
<1>3. ids' = Assigned /\ UNCHANGED unfiltered /\ {"kind", "unfiltered"} \subseteq DOMAIN job'
  BY ApplyAims
<1>4. Allots(ids)' /\ (Table(unfiltered) /\ Known(unfiltered, ids))'
  BY <1>1, <1>2, <1>3 DEF Allots, Table, Known
<1>5. ASSUME job'.kind = "apply" PROVE (Table(job.unfiltered) /\ Known(job.unfiltered, ids))'
  <2>1. ~Rejected /\ job'.unfiltered = AllRows
    BY <1>5, ApplyAims
  <2>2. Table(AllRows) /\ Known(AllRows, Assigned)
    BY <2>1, RefreshRows
  <2> QED BY <1>3, <2>1, <2>2 DEF Table, Known
<1> QED BY <1>3, <1>4, <1>5

\* Sorting keeps the rows and their IDs.
LEMMA SortSound ==
  ASSUME ViewSound, NEW field \in Fields, ClickSort(field)
  PROVE  /\ Allots(ids)' /\ (Table(unfiltered) /\ Known(unfiltered, ids))'
         /\ job'.kind # "apply" /\ {"kind", "unfiltered"} \subseteq DOMAIN job'
<1> DEFINE order == Resolve(published.sort, field)
           sorted == Sorted(order, unfiltered)
<1>1. unfiltered' = sorted /\ UNCHANGED ids
  BY DEF ClickSort
<1>2. \E plan, target, kept : job' = Job("sort", plan, target, kept)
  BY Zenon DEF ClickSort
<1>3. job'.kind # "apply" /\ {"kind", "unfiltered"} \subseteq DOMAIN job'
  BY <1>2 DEF Job
<1>4. PICK V : unfiltered \in Seq(RowOver(V))
  BY DEF ViewSound, Table
<1>5. unfiltered \in Seq(KnownOver(V, ids))
  BY <1>4, KnownSeq DEF ViewSound
<1>6. sorted \in Seq(KnownOver(V, ids))
  BY <1>5, SortedSame
<1> HIDE DEF sorted
<1>7. Table(sorted) /\ Known(sorted, ids)
  BY <1>6, KnownSeq DEF Table
<1> QED BY <1>1, <1>3, <1>7 DEF ViewSound, Table, Known, Allots

\* A layout changes no row's process and no ID.
LEMMA RelaidSound ==
  ASSUME NEW rows, Table(rows), NEW allocator, Known(rows, allocator)
  PROVE  Table(Relaid(rows)) /\ Known(Relaid(rows), allocator)
<1>1. PICK V : rows \in Seq(RowOver(V))
  BY DEF Table
<1> DEFINE n == Len(rows)
           layout == published.columns
           Value(i) == [k \in DOMAIN layout |-> rows[i].cells[layout[k]]]
           W == V \cup {Value(i) : i \in 1..n}
           out == Relaid(rows)
<1>2. n \in Nat /\ DOMAIN rows = 1..n /\ \A i \in 1..n : rows[i] \in RowOver(V)
  BY <1>1
<1>3. out = [i \in 1..n |-> [rows[i] EXCEPT !.value = Value(i)]]
  BY <1>2 DEF Relaid, LaidOut
<1> HIDE DEF out, Value
<1>4. ASSUME NEW i \in 1..n PROVE out[i] \in RowOver(W) /\ out[i].key = rows[i].key /\ out[i].id = rows[i].id
  <2>1. Value(i) \in W /\ V \subseteq W
    OBVIOUS
  <2> HIDE DEF W
  <2>2. out[i] = [rows[i] EXCEPT !.value = Value(i)] /\ rows[i] \in RowOver(V)
    BY <1>2, <1>3
  <2> QED BY <2>1, <2>2 DEF RowOver
<1> HIDE DEF W
<1>5. out = [i \in 1..n |-> out[i]] /\ DOMAIN out = 1..n
  BY <1>3
<1>6. out \in Seq(RowOver(W))
  BY <1>2, <1>4, <1>5
<1>7. Table(out)
  BY <1>6 DEF Table
<1>8. Known(out, allocator)
  BY <1>2, <1>4, <1>5 DEF Known
<1> QED BY <1>7, <1>8 DEF out

\* The end of a publication keeps the IDs of the rows it keeps.
LEMMA FinishSound ==
  ASSUME ViewSound, Finish
  PROVE  /\ Allots(ids)' /\ (Table(unfiltered) /\ Known(unfiltered, ids))'
         /\ job'.kind # "apply" /\ {"kind", "unfiltered"} \subseteq DOMAIN job'
<1> DEFINE kept == CASE job.kind = "apply" -> job.unfiltered
                     [] job.kind = "layout" -> Relaid(unfiltered)
                     [] OTHER -> unfiltered
<1>1. unfiltered' = kept /\ job' = Idle /\ ids' = IF job.kind = "stage" THEN ids ELSE IdsRetain(ids, kept)
  BY DEF Finish
<1>2. kept = IF job.kind = "apply" THEN job.unfiltered
             ELSE IF job.kind = "layout" THEN Relaid(unfiltered) ELSE unfiltered
  OBVIOUS
<1> HIDE DEF kept
<1>3. Table(kept) /\ Known(kept, ids) /\ Allots(ids)
  <2>1. Table(Relaid(unfiltered)) /\ Known(Relaid(unfiltered), ids)
    BY RelaidSound DEF ViewSound
  <2> QED BY <1>2, <2>1 DEF ViewSound
<1>4. Allots(IdsRetain(ids, kept)) /\ Known(kept, IdsRetain(ids, kept))
  BY <1>3, RetainedIds
<1>5. Allots(ids') /\ Known(kept, ids')
  BY <1>1, <1>3, <1>4
<1> QED BY <1>1, <1>3, <1>5 DEF Idle, Job, Table, Known, Allots

\* Every step of the view keeps it sound.
LEMMA ViewStays ==
  ASSUME ViewSound, [ViewNext]_srtopVars
  PROVE  ViewSound'
<1>1. ScanSound' /\ CursorStarts' /\ SteadySeen'
  BY ScanStays, SteadyStays DEF ViewSound
<1>2. /\ Allots(ids)' /\ (Table(unfiltered) /\ Known(unfiltered, ids))'
      /\ {"kind", "unfiltered"} \subseteq DOMAIN job'
      /\ job'.kind = "apply" => (Table(job.unfiltered) /\ Known(job.unfiltered, ids))'
  <2>1. CASE HostStep \/ Sampling \/ UNCHANGED srtopVars
    <3>1. UNCHANGED <<ids, unfiltered, job>>
      BY <2>1 DEF HostStep, Sampling, srtopVars, viewVars
    <3> QED BY <3>1 DEF ViewSound, Allots, Table, Known
  <2>2. CASE Start
    BY <2>2, StartSound
  <2>3. CASE Apply
    BY <2>3, ApplySound
  <2>4. CASE \E field \in Fields : ClickSort(field)
    BY <2>4, SortSound
  <2>5. CASE \/ \E action \in Actions : ClickColumn(action)
             \/ \E query \in {NoQuery, "query"} : EditFilter(query)
             \/ CommitFilter
    <3>1. UNCHANGED <<ids, unfiltered>>
      BY <2>5 DEF ClickColumn, EditFilter, CommitFilter
    <3>2. \E kind \in {"layout", "stage", "filter"} :
            \E plan, target, kept : job' = Job(kind, plan, target, kept)
      <4>1. CASE \E action \in Actions : ClickColumn(action)
        <5>1. \E plan, target, kept : job' = Job("layout", plan, target, kept)
          BY <4>1, Zenon DEF ClickColumn
        <5> QED BY <5>1
      <4>2. CASE \E query \in {NoQuery, "query"} : EditFilter(query)
        <5>1. \E plan, target, kept : job' = Job("stage", plan, target, kept)
          BY <4>2, Zenon DEF EditFilter
        <5> QED BY <5>1
      <4>3. CASE CommitFilter
        <5>1. \E plan, target, kept : job' = Job("filter", plan, target, kept)
          BY <4>3, Zenon DEF CommitFilter
        <5> QED BY <5>1
      <4> QED BY <2>5, <4>1, <4>2, <4>3
    <3>3. job'.kind # "apply" /\ {"kind", "unfiltered"} \subseteq DOMAIN job'
      BY <3>2 DEF Job
    <3> QED BY <3>1, <3>3 DEF ViewSound, Allots, Table, Known
  <2>6. CASE CommitChunk
    <3>1. UNCHANGED <<ids, unfiltered>>
      BY <2>6 DEF CommitChunk
    <3>2. job'.kind = job.kind /\ job'.unfiltered = job.unfiltered /\ DOMAIN job' = DOMAIN job
      BY <2>6 DEF CommitChunk, ViewSound
    <3> QED BY <3>1, <3>2 DEF ViewSound, Allots, Table, Known
  <2>7. CASE Finish
    BY <2>7, FinishSound
  <2> QED BY <2>1, <2>2, <2>3, <2>4, <2>5, <2>6, <2>7 DEF ViewNext
<1> QED BY <1>1, <1>2 DEF ViewSound

\* The view starts with no row and no ID.
LEMMA ViewBegins == ViewInit => ViewSound
<1> SUFFICES ASSUME ViewInit PROVE ViewSound
  OBVIOUS
<1>1. ScanSound
  BY ScanBegins DEF ViewInit
<1>2. scan.phase = "idle" /\ scan.cursor = 0
  BY DEF ViewInit, ScanInit, IdleScan
<1>3. CursorStarts /\ SteadySeen
  BY <1>2 DEF CursorStarts, SteadySeen
<1>4. Allots(ids)
  <2>1. ids = [assigned |-> <<>>, boot |-> 0, last |-> 0]
    BY DEF ViewInit, Missing
  <2>2. <<>> \in [{} -> Nat] /\ DOMAIN <<>> = {}
    OBVIOUS
  <2>3. <<>> \in UNION {[D -> Nat] : D \in SUBSET ProcessKey}
    <3>1. {} \in SUBSET ProcessKey
      OBVIOUS
    <3> QED BY <2>2, <3>1
  <2>4. ids \in Allocator
    BY <2>1, <2>3 DEF Allocator
  <2>5. DOMAIN ids.assigned = {}
    BY <2>1, <2>2
  <2> QED BY <2>4, <2>5 DEF Allots
<1>5. Table(unfiltered) /\ Known(unfiltered, ids)
  <2>1. unfiltered = <<>>
    BY DEF ViewInit
  <2>2. unfiltered \in Seq(RowOver({})) /\ DOMAIN unfiltered = {}
    BY <2>1
  <2> QED BY <2>2 DEF Table, Known
<1>6. job.kind = "unstarted" /\ {"kind", "unfiltered"} \subseteq DOMAIN job
  BY DEF ViewInit, Unstarted, Job
<1> QED BY <1>1, <1>3, <1>4, <1>5, <1>6 DEF ViewSound

\* A step of a sound view takes no running process's row.
LEMMA RowsStay ==
  ASSUME ViewSound, [ViewNext]_srtopVars, job.kind = "none", job'.kind \in {"apply", "failure"},
         job'.evicted = 0, NEW i \in DOMAIN unfiltered,
         unfiltered[i].key.pid \in steady,
         unfiltered[i].key.start = process[unfiltered[i].key.pid]
  PROVE  \E j \in DOMAIN job'.unfiltered : /\ job'.unfiltered[j].key.pid = unfiltered[i].key.pid
                                          /\ job'.unfiltered[j].key.start = unfiltered[i].key.start
<1>1. Apply
  <2>1. ~UNCHANGED job
    OBVIOUS
  <2>2. ~HostStep /\ ~Sampling /\ ~UNCHANGED srtopVars
    BY <2>1 DEF HostStep, Sampling, srtopVars, viewVars
  <2>3. ~Start
    <3>1. job # Unstarted
      BY DEF Unstarted, Job
    <3> QED BY <3>1, Zenon DEF Start
  <2>4. ASSUME NEW field \in Fields PROVE ~ClickSort(field)
    <3> SUFFICES ASSUME ClickSort(field) PROVE FALSE
      OBVIOUS
    <3>1. \E plan, target, kept : job' = Job("sort", plan, target, kept)
      BY Zenon DEF ClickSort
    <3> QED BY <3>1 DEF Job
  <2>5. ASSUME NEW action \in Actions PROVE ~ClickColumn(action)
    <3> SUFFICES ASSUME ClickColumn(action) PROVE FALSE
      OBVIOUS
    <3>1. \E plan, target, kept : job' = Job("layout", plan, target, kept)
      BY Zenon DEF ClickColumn
    <3> QED BY <3>1 DEF Job
  <2>6. ASSUME NEW query \in {NoQuery, "query"} PROVE ~EditFilter(query)
    <3> SUFFICES ASSUME EditFilter(query) PROVE FALSE
      OBVIOUS
    <3>1. \E plan, target, kept : job' = Job("stage", plan, target, kept)
      BY Zenon DEF EditFilter
    <3> QED BY <3>1 DEF Job
  <2>7. ~CommitFilter /\ ~Finish
    BY DEF CommitFilter, Finish
  <2>8. ~CommitChunk
    <3> SUFFICES ASSUME CommitChunk PROVE FALSE
      OBVIOUS
    <3>1. job'.kind = job.kind
      BY DEF CommitChunk, ViewSound
    <3> QED BY <3>1
  <2> QED BY <2>2, <2>3, <2>4, <2>5, <2>6, <2>7, <2>8 DEF ViewNext
<1>2. CASE job'.unfiltered = unfiltered
  BY <1>2
<1>3. CASE job'.unfiltered # unfiltered
  <2>1. ~Rejected /\ job'.unfiltered = AllRows /\ Cardinality(Evicted(KeptRows, ConfirmedRows)) = 0
    BY <1>1, <1>3, ApplyAims
  <2>2. scan.phase = "done"
    BY <1>1 DEF Apply
  <2> QED BY <2>1, <2>2, RefreshKeeps
<1> QED BY <1>2, <1>3

\* No refresh takes the row of a process that runs ever since the scan's listing,
\* whatever the scan could not read, list or name, unless it declares evictions
\* (ProcessView::apply, retain_unconfirmed, ProcessSnapshot::retention).
THEOREM RunningKeepRows == ViewSpec => NoFalseExit
<1>1. ViewInit => ViewSound
  BY ViewBegins
<1>2. ViewSound /\ [ViewNext]_srtopVars => ViewSound'
  BY ViewStays
<1>3. ViewSound /\ [ViewNext]_srtopVars =>
        [(job.kind = "none" /\ job'.kind \in {"apply", "failure"} /\ job'.evicted = 0) =>
          \A i \in DOMAIN unfiltered :
              LET key == unfiltered[i].key
              IN  (key.pid \in steady /\ key.start = process[key.pid]
                   /\ key.boot \in {boot, Missing}) =>
                  \E j \in DOMAIN job'.unfiltered :
                      /\ job'.unfiltered[j].key.pid = key.pid
                      /\ job'.unfiltered[j].key.start = key.start]_srtopVars
  BY RowsStay, Zenon
<1> QED BY <1>1, <1>2, <1>3, PTL DEF ViewSpec, NoFalseExit
=============================================================================
