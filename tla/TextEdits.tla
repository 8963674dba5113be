----------------------------- MODULE TextEdits ------------------------------
(***************************************************************************)
(* Client events inside a session: admission, validation, the text-edit    *)
(* policy and the event handlers, which run with the session lock          *)
(* released, and the settlement of the event.  An event is delivered by    *)
(* any connection of its client, again and again while it is not           *)
(* acknowledged, and a resync cancels the edits a resuming client names.   *)
(* The deduplicator appears as what EventDedupe shows of it: an identity   *)
(* is unknown, in flight or settled.  Texts and reasons are left out: what *)
(* an editor shows is the edit that was published last.                    *)
(***************************************************************************)
EXTENDS Integers, FiniteSets, Sequences

CONSTANTS Connections, Editors,
          Events,       \* event identities
          Event,        \* [Events -> [client, node, edit]]; edit is 0 for an ordinary event
          MaxStreams,   \* MAX_TEXT_EDIT_STREAMS
          MaxPanics,    \* bound: callbacks that panic
          MaxChanges,   \* bound: transactions on the editors
          MaxResyncs    \* bound: same-session resyncs that cancel edits

ASSUME EventAssumption == \A e \in Events : Event[e].node \in Editors /\ Event[e].edit \in Nat

VARIABLES editor,     \* [Editors -> "open", "readonly", "disabled" or "gone"]
          tracker,    \* TextEditTracker: editor streams by <<client, node>>
          notifying,  \* committed_handler_edits: edits whose handlers still run
          dedupe,     \* [Events -> "unknown", "flight", "accepted" or "rejected"]
          departed,   \* clients whose event-sequence history has aged out
          worker,     \* what each connection's reader is doing
          commits,    \* history: the events whose effect was committed, in order
          panics,     \* history: [Events -> Nat] callbacks that panicked
          canceled,   \* history: edits settled by a resync
          spent       \* bound: [changes, resyncs]

editVars == <<editor, tracker, notifying, dedupe, departed, worker, commits, panics,
              canceled, spent>>

EventClients == {Event[e].client : e \in Events}
IsEdit(e) == Event[e].edit > 0
Key(e) == <<Event[e].client, Event[e].node>>

Idle == [pc |-> "idle", event |-> "none", generation |-> 0]

EditInit ==
    /\ editor = [n \in Editors |-> "open"]
    /\ tracker = [k \in {} |-> 0]
    /\ notifying = {} /\ departed = {} /\ canceled = {} /\ commits = <<>>
    /\ dedupe = [e \in Events |-> "unknown"]
    /\ worker = [c \in Connections |-> Idle]
    /\ panics = [e \in Events |-> 0]
    /\ spent = [changes |-> 0, resyncs |-> 0]

----------------------------------------------------------------------------
(* The tracker *)

With(f, k, v) == [x \in DOMAIN f \cup {k} |-> IF x = k THEN v ELSE f[x]]
Without(f, gone) == [x \in DOMAIN f \ gone |-> f[x]]

\* The highest edit sequence the stream has seen, running edits included.
Watermark(s) == CHOOSE m \in {s.last} \cup s.flight :
                   \A x \in {s.last} \cup s.flight : x <= m

\* Streams of clients without history, unless a policy or a handler is running.
reclaim_departed_clients(t) ==
    IF Cardinality(DOMAIN t) < MaxStreams THEN t
    ELSE LET pinned == {k[1] : k \in {x \in DOMAIN t : t[x].flight # {}}}
                       \cup {Event[e].client : e \in notifying}
         IN  Without(t, {k \in DOMAIN t : k[1] \in departed \ pinned})

ReserveRefused(t, e) ==
    IF Key(e) \in DOMAIN t THEN Event[e].edit <= Watermark(t[Key(e)])
    ELSE Cardinality(DOMAIN t) >= MaxStreams

reserve(t, e) ==
    With(t, Key(e),
         IF Key(e) \in DOMAIN t
         THEN [t[Key(e)] EXCEPT !.flight = @ \cup {Event[e].edit}, !.generation = @ + 1]
         ELSE [last |-> 0, flight |-> {Event[e].edit}, generation |-> 1])

mark_terminal(t, e) ==
    IF Key(e) \notin DOMAIN t THEN t
    ELSE [t EXCEPT ![Key(e)].flight = @ \ {Event[e].edit},
                   ![Key(e)].last = IF @ < Event[e].edit THEN Event[e].edit ELSE @]

abandon_reservation(t, e) ==
    IF Key(e) \notin DOMAIN t THEN t
    ELSE [t EXCEPT ![Key(e)].flight = @ \ {Event[e].edit}]

reclaim_missing_nodes(t) == Without(t, {k \in DOMAIN t : editor'[k[2]] = "gone"})

generation_of(t, e) == IF Key(e) \in DOMAIN t THEN t[Key(e)].generation ELSE 0

----------------------------------------------------------------------------
(* process_event *)

\* The node is there and enabled.  (An event that does not decode, or that has
\* seen a later revision than there is, is settled the same way as one whose node
\* is gone; such events are left out.)
validate_node_interactive(e) == editor[Event[e].node] \in {"open", "readonly"}

\* An edit also needs an editor that may be written.
validate_text_edit(e) == validate_node_interactive(e) /\ editor[Event[e].node] # "readonly"

Interactive(e) == IF IsEdit(e) THEN validate_text_edit(e) ELSE validate_node_interactive(e)

Settle(e, outcome) == dedupe' = [dedupe EXCEPT ![e] = outcome]
Run(c, pc, e, g) == worker' = [worker EXCEPT ![c] = [pc |-> pc, event |-> e, generation |-> g]]
Rest(c) == worker' = [worker EXCEPT ![c] = Idle]

Fresh(c, e) == /\ worker[c].pc = "idle" /\ Event[e].client \notin departed
               /\ dedupe[e] = "unknown"

\* Validation fails, the edit is not newer than what its stream has seen, or
\* the tracker is full: the event is settled as rejected.
RejectAtAdmission(c, e) ==
    LET t == reclaim_departed_clients(tracker)
        refused == IsEdit(e) /\ ReserveRefused(t, e)
    IN  /\ Fresh(c, e)
        /\ ~Interactive(e) \/ refused
        /\ tracker' = IF Interactive(e) /\ IsEdit(e) THEN t ELSE tracker
        /\ Settle(e, "rejected")
        /\ UNCHANGED <<editor, notifying, departed, worker, commits, panics, canceled, spent>>

AdmitEdit(c, e) ==
    LET t == reclaim_departed_clients(tracker)
    IN  /\ Fresh(c, e) /\ IsEdit(e) /\ Interactive(e) /\ ~ReserveRefused(t, e)
        /\ tracker' = reserve(t, e)
        /\ Run(c, "policy", e, generation_of(tracker', e))
        /\ Settle(e, "flight")
        /\ UNCHANGED <<editor, notifying, departed, commits, panics, canceled, spent>>

AdmitEvent(c, e) ==
    /\ Fresh(c, e) /\ ~IsEdit(e) /\ Interactive(e)
    /\ Run(c, "handlers", e, 0)
    /\ Settle(e, "flight")
    /\ UNCHANGED <<editor, tracker, notifying, departed, commits, panics, canceled, spent>>

----------------------------------------------------------------------------
(* commit_text_edit_decision *)

\* A mutation: the commit trusts the reservation it made before the policy ran.
GenerationUnchecked(c) == TRUE

GenerationCurrent(c) == worker[c].generation = generation_of(tracker, worker[c].event)

\* The editor is looked at again: the policy ran without the lock.  The event
\* itself is still in flight (InFlightOwned), so the commit's answer for one that
\* is not is never given.
MayCommit(c) == /\ editor[Event[worker[c].event].node] = "open"
                /\ GenerationCurrent(c)

\* The editor has changed, a newer edit was reserved meanwhile, or the policy's
\* own value is too long for the store.
DecisionRefused(c) ==
    LET e == worker[c].event
    IN  /\ worker[c].pc = "policy" /\ dedupe[e] = "flight"
        /\ tracker' = mark_terminal(tracker, e)
        /\ Settle(e, "rejected") /\ Rest(c)
        /\ UNCHANGED <<editor, notifying, departed, commits, panics, canceled, spent>>

EditSuperseded(c) == worker[c].pc = "policy" /\ ~MayCommit(c) /\ DecisionRefused(c)

CorrectionTooLong(c) == worker[c].pc = "policy" /\ MayCommit(c) /\ DecisionRefused(c)

\* Accept and Correct publish, and the event stays in flight for its handlers.
EditAccepted(c) ==
    LET e == worker[c].event
    IN  /\ worker[c].pc = "policy" /\ dedupe[e] = "flight" /\ MayCommit(c)
        /\ commits' = Append(commits, e)
        /\ tracker' = mark_terminal(tracker, e)
        /\ notifying' = notifying \cup {e}
        /\ Run(c, "notify", e, 0)
        /\ UNCHANGED <<editor, dedupe, departed, panics, canceled, spent>>

\* Reject publishes the authoritative value with an error and settles.
EditRejected(c) ==
    LET e == worker[c].event
    IN  /\ worker[c].pc = "policy" /\ dedupe[e] = "flight" /\ MayCommit(c)
        /\ tracker' = mark_terminal(tracker, e)
        /\ Settle(e, "rejected") /\ Rest(c)
        /\ UNCHANGED <<editor, notifying, departed, commits, panics, canceled, spent>>

TotalPanics == Cardinality({p \in Events \X (1 .. MaxPanics) : p[2] <= panics[p[1]]})

Panic(e) == /\ TotalPanics < MaxPanics
            /\ panics' = [panics EXCEPT ![e] = @ + 1]

PolicyPanics(c) ==
    LET e == worker[c].event
    IN  /\ worker[c].pc = "policy" /\ Panic(e)
        /\ tracker' = abandon_reservation(tracker, e)
        /\ Settle(e, "unknown") /\ Rest(c)
        /\ UNCHANGED <<editor, notifying, departed, commits, canceled, spent>>

----------------------------------------------------------------------------
(* dispatch_admitted_event *)

\* What an ordinary event's handlers do to the tree.
HandlerCommits(c) ==
    /\ worker[c].pc = "handlers"
    /\ commits' = Append(commits, worker[c].event)
    /\ Run(c, "handled", worker[c].event, 0)
    /\ UNCHANGED <<editor, tracker, notifying, dedupe, departed, panics, canceled, spent>>

HandlersReturn(c) ==
    /\ worker[c].pc \in {"handlers", "handled"}
    /\ \E outcome \in {"accepted", "rejected"} : Settle(worker[c].event, outcome)
    /\ Rest(c)
    /\ UNCHANGED <<editor, tracker, notifying, departed, commits, panics, canceled, spent>>

\* The admission of a panicking ordinary event is given up: a retry runs it.
HandlersPanic(c) ==
    /\ worker[c].pc \in {"handlers", "handled"} /\ Panic(worker[c].event)
    /\ Settle(worker[c].event, "unknown") /\ Rest(c)
    /\ UNCHANGED <<editor, tracker, notifying, departed, commits, canceled, spent>>

\* A mutation: a panicking notification gives the committed edit up.
CommittedOutcome == "unknown"

\* A committed edit is accepted whatever its handlers do.
NotifiedOutcome == "accepted"

\* finish_committed_handler_dispatch; an error or panic then ends the connection.
HandlersNotified(c) ==
    LET e == worker[c].event
    IN  /\ worker[c].pc = "notify"
        /\ Settle(e, NotifiedOutcome) /\ Rest(c)
        /\ notifying' = notifying \ {e}
        /\ UNCHANGED <<editor, tracker, departed, commits, panics, canceled, spent>>

----------------------------------------------------------------------------
(* The application, resyncs and aging *)

\* A transaction enables, disables, locks or deletes an editor; a deleted one
\* takes its streams with it, and its identifier is never used again.
EditorChanges(n) ==
    /\ spent.changes < MaxChanges /\ editor[n] # "gone"
    /\ \E s \in {"open", "readonly", "disabled", "gone"} \ {editor[n]} :
          editor' = [editor EXCEPT ![n] = s]
    /\ tracker' = reclaim_missing_nodes(tracker)
    /\ spent' = [spent EXCEPT !.changes = @ + 1]
    /\ UNCHANGED <<notifying, dedupe, departed, worker, commits, panics, canceled>>

\* A resuming client names no more edits than there may be streams, each once.
validate_pending_text_edit_refs(named) == Cardinality(named) <= MaxStreams

\* Unknown edits are settled, running ones finish, settled ones stay.
prepare_pending_text_edit_cancellation(named) ==
    [e \in Events |-> IF e \in named /\ dedupe[e] = "unknown" THEN "rejected" ELSE dedupe[e]]

\* The cancellation is prepared and committed under one hold of the session lock.
ResyncCancels(cl) ==
    /\ spent.resyncs < MaxResyncs /\ cl \notin departed
    /\ \E named \in SUBSET {e \in Events : IsEdit(e) /\ Event[e].client = cl} :
          /\ named # {} /\ validate_pending_text_edit_refs(named)
          /\ dedupe' = prepare_pending_text_edit_cancellation(named)
          /\ canceled' = canceled \cup {e \in named : dedupe[e] = "unknown"}
    /\ spent' = [spent EXCEPT !.resyncs = @ + 1]
    /\ UNCHANGED <<editor, tracker, notifying, departed, worker, commits, panics>>

\* The deduplicator forgets a client none of whose events is in flight.
ClientDeparts(cl) ==
    /\ cl \notin departed
    /\ \A e \in Events : Event[e].client = cl => dedupe[e] # "flight"
    /\ departed' = departed \cup {cl}
    /\ UNCHANGED <<editor, tracker, notifying, dedupe, worker, commits, panics, canceled, spent>>

EditNext ==
    \/ \E c \in Connections, e \in Events : RejectAtAdmission(c, e)
    \/ \E c \in Connections, e \in Events : AdmitEdit(c, e)
    \/ \E c \in Connections, e \in Events : AdmitEvent(c, e)
    \/ \E c \in Connections : EditSuperseded(c)
    \/ \E c \in Connections : CorrectionTooLong(c)
    \/ \E c \in Connections : EditAccepted(c)
    \/ \E c \in Connections : EditRejected(c)
    \/ \E c \in Connections : PolicyPanics(c)
    \/ \E c \in Connections : HandlerCommits(c)
    \/ \E c \in Connections : HandlersReturn(c)
    \/ \E c \in Connections : HandlersPanic(c)
    \/ \E c \in Connections : HandlersNotified(c)
    \/ \E n \in Editors : EditorChanges(n)
    \/ \E cl \in EventClients : ResyncCancels(cl)
    \/ \E cl \in EventClients : ClientDeparts(cl)

EditSpec == EditInit /\ [][EditNext]_editVars

----------------------------------------------------------------------------
(* Properties *)

\* An editor never goes back to what the same client typed before: of one
\* client's edits of one node, the published ones appear in the order of their
\* edit sequence, however long an older edit's policy ran and whichever
\* connection delivered it.
NewerTextWins ==
    \A i, j \in 1 .. Len(commits) :
        (i < j /\ IsEdit(commits[i]) /\ Key(commits[i]) = Key(commits[j]) /\ IsEdit(commits[j]))
            => Event[commits[i]].edit < Event[commits[j]].edit

\* An event's effect happens once over all its deliveries.  A text edit is
\* published at most once, also when its policy panicked before or its handlers
\* panicked after, and never once a resync has canceled it; an ordinary event is
\* run again only after its handler panicked.
EffectOnce ==
    \A e \in Events :
        LET times == Cardinality({i \in 1 .. Len(commits) : commits[i] = e})
        IN  times <= IF e \in canceled THEN 0
                     ELSE IF IsEdit(e) THEN 1 ELSE 1 + panics[e]

=============================================================================
