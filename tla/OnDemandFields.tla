--------------------------- MODULE OnDemandFields ---------------------------
(***************************************************************************)
(* On-demand collection of expensive process fields                        *)
(* (apps/srtop/src/on_demand.rs).  The sample loop owns the collector: it  *)
(* states which fields are wanted (Demand) and drains finished reads       *)
(* (Collect).  Every read is a job of a blocking pool: it starts, ends,    *)
(* panics, is dropped unrun, or never returns, at any moment, and answers  *)
(* through a channel.  Times are readings of the suspend-aware clock.      *)
(***************************************************************************)
EXTENDS Integers, Sequences, FiniteSets

CONSTANTS
    Pairs,          \* (process instance, field) pairs the catalogue allows on demand
    Refused,        \* pairs whose field is unknown or not collected on demand
    Requests,       \* the sequences of pairs the sample loop may ask for
    Unavailable,    \* reasons a read has no value, "failed" among them
    MaxFields,      \* Limits::max_fields
    MaxInFlight,    \* Limits::max_in_flight
    MaxAbandoned,   \* Limits::max_abandoned
    MaxAge,         \* Limits::max_age
    MinInterval,    \* Limits::min_interval
    ReadDeadline,   \* Limits::read_deadline
    MaxTime,        \* bound: last instant of the clock
    MaxReads        \* bound: reads dispatched

\* Limits::validate
ValidLimits ==
    /\ \A limit \in {MaxFields, MaxInFlight, MaxAbandoned, MaxAge, ReadDeadline} :
           limit \in Nat \ {0}
    /\ MinInterval \in Nat
    /\ MaxInFlight <= MaxAbandoned

ASSUME LimitsAssumption == ValidLimits
ASSUME BoundsAssumption == MaxTime \in Nat /\ MaxReads \in Nat
ASSUME FieldsAssumption ==
    /\ IsFiniteSet(Pairs) /\ Pairs \cap Refused = {}
    /\ Requests \subseteq Seq(Pairs \cup Refused)
    /\ "failed" \in Unavailable /\ {"value", "present"} \cap Unavailable = {}

VARIABLES
    now,            \* the clock's last reading
    slots,          \* fields demanded, each with its pending read and last reading
    outstanding,    \* reads dispatched and not answered, by sequence number
    readingOf,      \* the one outstanding read of a field
    lastSequence,
    inFlight,       \* count of outstanding reads not given up
    abandoned,      \* count of outstanding reads given up
    jobs,           \* jobs of the pool that have not answered
    completions,    \* the channel of answers
    draining       \* the loop is inside collect_completed

fieldVars == <<now, slots, outstanding, readingOf, lastSequence, inFlight, abandoned,
          jobs, completions, draining>>

Sequences0 == 0 .. MaxReads
Times == 0 .. MaxTime

\* What a read returns: a value, stamped here with the instant the source held
\* it, a value of another type than the catalogue's, or a reason.
FieldResult == [kind : {"value"}, held : Times] \cup [kind : {"mistyped"} \cup Unavailable]

FailedRead == [kind |-> "failed"]

NoReading == [sequence |-> 0]

Reading == [sequence : 1 .. MaxReads, observedAt : Times, result : FieldResult]

\* pending is the sequence of the read the slot waits for, 0 when there is none.
Slot == [pending : Sequences0, reading : Reading \cup {NoReading}, demandedSince : Times]

NewSlot(at) == [pending |-> 0, reading |-> NoReading, demandedSince |-> at]

Outstanding == [field : Pairs, issuedAt : Times, abandoned : BOOLEAN]

ReadJob == [stage : {"queued", "running"}, started : Times]

Completion == [sequence : 1 .. MaxReads, field : Pairs, started : Times,
               finished : Times, result : FieldResult]

MapsInto(m, S, T) == DOMAIN m \subseteq S /\ m \in [DOMAIN m -> T]

FieldsTypeOK ==
    /\ now \in Times
    /\ MapsInto(slots, Pairs, Slot)
    /\ MapsInto(outstanding, 1 .. MaxReads, Outstanding)
    /\ MapsInto(readingOf, Pairs, 1 .. MaxReads)
    /\ lastSequence \in Sequences0
    /\ inFlight \in Nat /\ abandoned \in Nat
    /\ MapsInto(jobs, 1 .. MaxReads, ReadJob)
    /\ completions \in Seq(Completion)
    /\ draining \in BOOLEAN

FieldsInit ==
    /\ now = 0
    /\ slots = <<>> /\ outstanding = <<>> /\ readingOf = <<>>
    /\ lastSequence = 0 /\ inFlight = 0 /\ abandoned = 0
    /\ jobs = <<>> /\ completions = <<>>
    /\ draining = FALSE

-----------------------------------------------------------------------------
(* The clock.                                                              *)

\* SourceTime::age_at
AgeAt(at, t) == IF at <= t THEN t - at ELSE 0

\* ElapsedTracker::advance: whichever of the two clocks moved further since the
\* last reading; a wall clock that went back, or could not be read, moved by 0.
Advance(total, monotonicStep, wallStep) ==
    total + (IF monotonicStep >= wallStep THEN monotonicStep ELSE wallStep)

\* The monotonic clock moves by one; the wall clock may be set back, or forward
\* by more than a deadline.
Tick ==
    \E wallStep \in 0 .. ReadDeadline + 1 :
        /\ Advance(now, 1, wallStep) <= MaxTime
        /\ now' = Advance(now, 1, wallStep)
        /\ UNCHANGED <<slots, outstanding, readingOf, lastSequence, inFlight,
                       abandoned, jobs, completions, draining>>

-----------------------------------------------------------------------------
(* Reads past their deadline.                                              *)

\* The reads expire gives up at this instant.
Overdue ==
    {s \in DOMAIN outstanding :
        ~outstanding[s].abandoned /\ AgeAt(outstanding[s].issuedAt, now) >= ReadDeadline}

GivenUp ==
    [s \in DOMAIN outstanding |->
        IF s \in Overdue THEN [outstanding[s] EXCEPT !.abandoned = TRUE] ELSE outstanding[s]]

\* A slot waiting for a read that is given up fails, as of the read's issue.
SlotsGivenUp ==
    [f \in DOMAIN slots |->
        IF slots[f].pending \in Overdue
        THEN [slots[f] EXCEPT !.pending = 0,
                              !.reading = [sequence |-> slots[f].pending,
                                           observedAt |-> outstanding[slots[f].pending].issuedAt,
                                           result |-> FailedRead]]
        ELSE slots[f]]

InFlightLeft == inFlight - Cardinality(Overdue)
AbandonedNow == abandoned + Cardinality(Overdue)

-----------------------------------------------------------------------------
(* Demand.                                                                 *)

\* Where a request first names each field that is known and on demand.
Named(wanted) ==
    {i \in DOMAIN wanted : wanted[i] \in Pairs /\ \A j \in 1 .. i - 1 : wanted[j] # wanted[i]}

\* The fields kept: the first MaxFields of them.
Kept(wanted) ==
    {wanted[i] : i \in {j \in Named(wanted) :
                           Cardinality({k \in Named(wanted) : k < j}) < MaxFields}}

PositionIn(wanted, f) == CHOOSE i \in Named(wanted) : wanted[i] = f

\* A field shown again while its read is in flight waits for that read.
Adopted(f, slot) ==
    IF /\ f \in DOMAIN readingOf
       /\ slot.pending = 0
       /\ readingOf[f] \in DOMAIN GivenUp
       /\ ~GivenUp[readingOf[f]].abandoned
    THEN [slot EXCEPT !.pending = readingOf[f]]
    ELSE slot

SlotsKept(kept) ==
    [f \in kept |->
        Adopted(f, IF f \in DOMAIN slots THEN SlotsGivenUp[f] ELSE NewSlot(now))]

\* Fields to read now: no read outstanding, and none within the minimum interval.
Due(tracked) ==
    {f \in DOMAIN tracked :
        /\ f \notin DOMAIN readingOf
        /\ \/ tracked[f].reading = NoReading
           \/ AgeAt(tracked[f].reading.observedAt, now) >= MinInterval}

\* Never-read fields in the order wanted, then the oldest reading, and among
\* readings of one instant the one dispatched first.
ReadFirst(tracked, wanted, f, g) ==
    LET a == tracked[f].reading
        b == tracked[g].reading
    IN  IF a = NoReading
        THEN b # NoReading \/ PositionIn(wanted, f) < PositionIn(wanted, g)
        ELSE /\ b # NoReading
             /\ \/ a.observedAt < b.observedAt
                \/ a.observedAt = b.observedAt /\ a.sequence < b.sequence

\* How many reads may still be dispatched.
FreePlaces ==
    LET room  == {MaxInFlight - InFlightLeft,
                  MaxAbandoned - InFlightLeft - AbandonedNow,
                  MaxReads - lastSequence}
        least == CHOOSE n \in room : \A m \in room : n <= m
    IN  IF least < 0 THEN 0 ELSE least

\* A field's place in the order of dispatch, from 1.
Rank(tracked, wanted, f) ==
    1 + Cardinality({g \in Due(tracked) : ReadFirst(tracked, wanted, g, f)})

Dispatched(tracked, wanted) ==
    {f \in Due(tracked) : Rank(tracked, wanted, f) <= FreePlaces}

\* OnDemandFields::demand and dispatch: give up overdue reads, forget what is
\* not wanted, adopt reads in flight, dispatch what is due.
Demand(wanted) ==
    LET tracked    == SlotsKept(Kept(wanted))
        dispatched == Dispatched(tracked, wanted)
        sequence   == [f \in dispatched |-> lastSequence + Rank(tracked, wanted, f)]
        fresh      == {sequence[f] : f \in dispatched}
        fieldOf    == [s \in fresh |-> CHOOSE f \in dispatched : sequence[f] = s]
    IN  /\ ~draining
        /\ slots' = [f \in DOMAIN tracked |->
                        IF f \in dispatched
                        THEN [tracked[f] EXCEPT !.pending = sequence[f]]
                        ELSE tracked[f]]
        /\ outstanding' = [s \in DOMAIN outstanding \cup fresh |->
                        IF s \in fresh
                        THEN [field |-> fieldOf[s], issuedAt |-> now, abandoned |-> FALSE]
                        ELSE GivenUp[s]]
        /\ readingOf' = [f \in DOMAIN readingOf \cup dispatched |->
                        IF f \in dispatched THEN sequence[f] ELSE readingOf[f]]
        /\ lastSequence' = lastSequence + Cardinality(dispatched)
        /\ inFlight' = InFlightLeft + Cardinality(dispatched)
        /\ abandoned' = AbandonedNow
        /\ jobs' = [s \in DOMAIN jobs \cup fresh |->
                        IF s \in fresh THEN [stage |-> "queued", started |-> 0] ELSE jobs[s]]
        /\ UNCHANGED <<now, completions, draining>>

-----------------------------------------------------------------------------
(* Jobs of the blocking pool.                                              *)

JobStart(s) ==
    /\ s \in DOMAIN jobs /\ jobs[s].stage = "queued"
    /\ jobs' = [jobs EXCEPT ![s] = [stage |-> "running", started |-> now]]
    /\ UNCHANGED <<now, slots, outstanding, readingOf, lastSequence, inFlight,
                   abandoned, completions, draining>>

\* Reply::send and the guard's Drop: the one answer of read s.
Answer(s, started, result) ==
    /\ jobs' = [t \in DOMAIN jobs \ {s} |-> jobs[t]]
    /\ completions' = Append(completions,
            [sequence |-> s, field |-> outstanding[s].field, started |-> started,
             finished |-> now, result |-> result])
    /\ UNCHANGED <<now, slots, outstanding, readingOf, lastSequence, inFlight,
                   abandoned, draining>>

\* read_field returns: a value may be as old as the read's start.
JobFinish(s) ==
    /\ s \in DOMAIN jobs /\ jobs[s].stage = "running"
    /\ \E result \in FieldResult :
           /\ result.kind = "value" => result.held = jobs[s].started
           /\ Answer(s, jobs[s].started, result)

\* The job is dropped unrun or panics.
JobDropped(s) == s \in DOMAIN jobs /\ Answer(s, now, FailedRead)

-----------------------------------------------------------------------------
(* Collection of answers.                                                  *)

\* A value stamped outside the request-to-drain window, or of the wrong type,
\* is a failed read.
WithinWindow(c, issuedAt) == issuedAt <= c.started /\ c.started <= c.finished /\ c.finished <= now

\* Mutant: a reading is dated by the end of its read.
AcceptedAtEnd(c, read) ==
    [sequence |-> c.sequence, observedAt |-> c.finished, result |-> c.result]

Accepted(c, read) ==
    [sequence   |-> c.sequence,
     observedAt |-> IF WithinWindow(c, read.issuedAt) THEN c.started ELSE read.issuedAt,
     result     |-> IF \/ c.result.kind = "mistyped"
                       \/ c.result.kind = "value" /\ ~WithinWindow(c, read.issuedAt)
                    THEN FailedRead ELSE c.result]

\* Mutant: an answer is shown whatever the slot waits for.
SlotAfterAnyAnswer(slot, c, read) ==
    [slot EXCEPT !.pending = 0, !.reading = Accepted(c, read)]

\* accept: the reading a slot holds once completion c is handled.
SlotAfter(slot, c, read) ==
    IF read.abandoned \/ slot.pending # c.sequence THEN slot
    ELSE [slot EXCEPT !.pending = 0,
                      !.reading = IF slot.reading.sequence >= c.sequence THEN @
                                  ELSE Accepted(c, read)]

\* One iteration of collect_completed's loop.
CollectOne ==
    LET c    == Head(completions)
        read == outstanding[c.sequence]
    IN  /\ completions # <<>>
        /\ completions' = Tail(completions)
        /\ draining' = TRUE
        /\ IF c.sequence \notin DOMAIN outstanding
           THEN UNCHANGED <<slots, outstanding, readingOf, inFlight, abandoned>>
           ELSE /\ outstanding' = [s \in DOMAIN outstanding \ {c.sequence} |-> outstanding[s]]
                /\ readingOf' = [f \in {g \in DOMAIN readingOf :
                                          g # read.field \/ readingOf[g] # c.sequence} |-> readingOf[f]]
                /\ abandoned' = IF read.abandoned THEN abandoned - 1 ELSE abandoned
                /\ inFlight' = IF read.abandoned THEN inFlight ELSE inFlight - 1
                /\ slots' = [f \in DOMAIN slots |->
                                IF f = c.field THEN SlotAfter(slots[f], c, read) ELSE slots[f]]
        /\ UNCHANGED <<now, lastSequence, jobs>>

\* The channel is empty: collect_completed ends by giving up overdue reads.
CollectEnd ==
    /\ completions = <<>>
    /\ draining' = FALSE
    /\ slots' = SlotsGivenUp /\ outstanding' = GivenUp
    /\ inFlight' = InFlightLeft /\ abandoned' = AbandonedNow
    /\ UNCHANGED <<now, readingOf, lastSequence, jobs, completions>>

FieldsNext ==
    \/ Tick
    \/ \E wanted \in Requests : Demand(wanted)
    \/ \E s \in DOMAIN jobs : JobStart(s) \/ JobFinish(s) \/ JobDropped(s)
    \/ CollectOne
    \/ CollectEnd

FieldsSpec == FieldsInit /\ [][FieldsNext]_fieldVars

-----------------------------------------------------------------------------
(* What a client is shown.                                                 *)

SaturatedByWedgedReads ==
    /\ abandoned > 0
    /\ inFlight < MaxInFlight
    /\ inFlight + abandoned >= MaxAbandoned

\* OnDemandFields::state
FieldState(f) ==
    LET slot    == slots[f]
        wedged  == /\ f \in DOMAIN readingOf
                   /\ readingOf[f] \in DOMAIN outstanding
                   /\ outstanding[readingOf[f]].abandoned
        starved == /\ slot.pending = 0
                   /\ SaturatedByWedgedReads
                   /\ AgeAt(slot.demandedSince, now) >= ReadDeadline
    IN  IF slot.reading = NoReading
        THEN IF wedged \/ starved THEN "failed" ELSE "warming up"
        ELSE IF slot.reading.result.kind # "value" THEN slot.reading.result.kind
        ELSE IF AgeAt(slot.reading.observedAt, now) > MaxAge THEN "stale"
        ELSE "present"

-----------------------------------------------------------------------------
(* Properties.                                                             *)

\* A value shown as present was held by the source within MaxAge of now,
\* whatever the delay between its read, its answer and its collection.
PresentIsRecent ==
    \A f \in DOMAIN slots :
        FieldState(f) = "present" => now - slots[f].reading.result.held <= MaxAge

\* While a field stays demanded its reading never goes back: not to an earlier
\* read, and not to an earlier instant (accept, expire).
ReadingsMoveForward ==
    [][\A f \in DOMAIN slots \cap DOMAIN slots' :
          LET old == slots[f].reading
              new == slots'[f].reading
          IN  new # old => \/ old = NoReading
                           \/ new.sequence > old.sequence /\ new.observedAt >= old.observedAt]_fieldVars
=============================================================================
