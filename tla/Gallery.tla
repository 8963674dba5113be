------------------------------ MODULE Gallery ------------------------------
(***************************************************************************)
(* The gallery example: a guided tour of scenes over one graph, with an      *)
(* inspector of its own traffic and a panel of telemetry in the same graph.   *)
(*                                                                         *)
(* Handlers of several connections, the autoplay timer and the connection      *)
(* tasks commit concurrently.  A commit holds the application's lock, then      *)
(* the session's; the autoplay flag is sent to the timer after both are         *)
(* released.  What a property says is left out except where a scene changes      *)
(* it; the editors and toggles that behave alike are represented by one or two.  *)
(***************************************************************************)
EXTENDS Integers, Sequences, SequencesExt, FiniteSets

CONSTANTS
  Users,            \* connections
  GalleryEvents,    \* what they may send
  Lags,             \* how far behind their replicas may be
  TraceLimit,       \* MAX_TRACE_ROWS
  TransactionRows,  \* MAX_ROWS_PER_TRANSACTION
  SampleWindow,     \* SAMPLE_WINDOW
  BuildOps,         \* the operations of the initial graph
  MaxRevision, MaxFaults, MaxVisits

VARIABLES
  graph,     \* the session's store
  gallery,   \* the published GalleryState
  staging,   \* the buffer the next commit works in
  phase,     \* how far the start has come
  handler,   \* the event each connection is handling
  visitor,      \* the connection tasks
  timer,     \* the autoplay task and the watch channel it reads
  tally      \* faults, uncounted edits, refused operations, connections made

galleryVars == <<graph, gallery, staging, phase, handler, visitor, timer, tally>>

-----------------------------------------------------------------------------
(* Operations on the store *)

Set(slot, value) == [op |-> "set", slot |-> slot, value |-> value]
Insert(model, at, rows) == [op |-> "insert", model |-> model, at |-> at, rows |-> rows]
Update(model, row) == [op |-> "update", model |-> model, row |-> row]
Delete(model, items) == [op |-> "delete", model |-> model, items |-> items]
DeleteRange(model, at, count) == [op |-> "cut", model |-> model, at |-> at, count |-> count]
CreateNode(node, parent) == [op |-> "create", node |-> node, parent |-> parent]
MoveNode(node, parent, at) == [op |-> "move", node |-> node, parent |-> parent, at |-> at]
Reorder(parent, order) == [op |-> "reorder", parent |-> parent, order |-> order]
DeleteNode(node) == [op |-> "remove", node |-> node]

Row(item, text) == [item |-> item, text |-> text]
Items(rows) == {rows[i].item : i \in 1..Len(rows)}
Spliced(s, at, run) == SubSeq(s, 1, at) \o run \o SubSeq(s, at + 1, Len(s))
Under(g) == UNION {ToSet(g.children[p]) : p \in DOMAIN g.children}
Without(g, node) ==
  [g EXCEPT !.children = [p \in DOMAIN @ |-> SelectSeq(@[p], LAMBDA n : n # node)]]

Allowed(g, o) ==
  CASE o.op = "set" -> TRUE
    [] o.op = "insert" -> o.at <= Len(g.models[o.model]) /\ Items(o.rows) \cap Items(g.models[o.model]) = {}
    [] o.op = "update" -> o.row.item \in Items(g.models[o.model])
    [] o.op = "delete" -> o.items \subseteq Items(g.models[o.model])
    [] o.op = "cut" -> o.at + o.count <= Len(g.models[o.model])
    [] o.op = "create" -> o.node \notin Under(g) \cup g.retired
    [] o.op \in {"move", "remove"} -> o.node \in Under(g)
    [] o.op = "reorder" -> ToSet(o.order) = ToSet(g.children[o.parent])

apply_op(g, o) ==
  CASE o.op = "set" -> [g EXCEPT !.props[o.slot] = o.value]
    [] o.op = "insert" -> [g EXCEPT !.models[o.model] = Spliced(@, o.at, o.rows)]
    [] o.op = "update" ->
         [g EXCEPT !.models[o.model] =
            [i \in 1..Len(@) |-> IF @[i].item = o.row.item THEN o.row ELSE @[i]]]
    [] o.op = "delete" -> [g EXCEPT !.models[o.model] = SelectSeq(@, LAMBDA r : r.item \notin o.items)]
    [] o.op = "cut" ->
         [g EXCEPT !.models[o.model] = SubSeq(@, 1, o.at) \o SubSeq(@, o.at + o.count + 1, Len(@))]
    [] o.op = "create" -> [g EXCEPT !.children[o.parent] = Append(@, o.node)]
    [] o.op = "move" -> [Without(g, o.node) EXCEPT !.children[o.parent] = Spliced(@, o.at, <<o.node>>)]
    [] o.op = "remove" -> [Without(g, o.node) EXCEPT !.retired = @ \cup {o.node}]
    [] o.op = "reorder" -> [g EXCEPT !.children[o.parent] = o.order]

\* A transaction is refused whole when one operation is.
Outcome(g, ops) ==
  FoldLeft(LAMBDA st, o : IF st.ok /\ Allowed(st.graph, o)
                          THEN [ok |-> TRUE, graph |-> apply_op(st.graph, o)]
                          ELSE [st EXCEPT !.ok = FALSE],
           [ok |-> TRUE, graph |-> g], ops)

-----------------------------------------------------------------------------
(* The graph as built *)

ListRows == [i \in 1..5 |-> Row(i, "base")]
TableRows == [i \in 1..4 |-> Row(100 + i, "base")]
Buttons == <<311, 312, 313, 314>>

HeroProps ==
  [hero_title |-> "title", hero_blurb |-> "blurb", typo_body |-> "body", typo_error_shown |-> "visible",
   image |-> "hash", image_shown |-> "visible", placeholder_shown |-> "collapsed", hero_status |-> "live"]

ControlProps ==
  [primary_label |-> "Primary", quiet_enabled |-> "true", switch_shown |-> "visible",
   progress |-> "35", progress_text |-> "35%", busy |-> "false", busy_text |-> "idle",
   plain_read_only |-> "false", invalid_state |-> "valid", invalid_text |-> "authoritative"]

LayoutProps ==
  [row_spacing |-> "normal", column_padding |-> "normal", grid_spacing |-> "tight",
   leading_aligned |-> "leading", preferred |-> "200x24"]

\* The slots a client's events or the gallery's own bookkeeping write.
LiveProps ==
  [autoplay_value |-> "off", switch_value |-> "off", plain_value |-> "base", plain_state |-> "valid",
   invalid_value |-> "base", ctrl_status |-> "none yet", coll_selection |-> "nothing",
   scene_label |-> "baseline", inspect_scene |-> "baseline",
   inspect_event |-> "none", inspect_revision |-> 0,
   conn_clients |-> 0, conn_revision |-> 0, conn_traffic |-> 0, conn_events |-> 0, conn_lag |-> <<>>]

build_initial_ui ==
  [props |-> HeroProps @@ ControlProps @@ LayoutProps @@ LiveProps,
   models |-> [list |-> ListRows, table |-> TableRows, trace |-> <<>>],
   children |-> [controls |-> <<301, 302, 310>>, layout |-> <<401, 402>>, buttons |-> Buttons],
   retired |-> {}, revision |-> 1]

-----------------------------------------------------------------------------
(* Scenes *)

SCENES == <<"baseline", "content", "state", "image", "models", "structure", "layout">>

index(scene) == CHOOSE i \in 1..Len(SCENES) : SCENES[i] = scene
from_index(i) == SCENES[((i - 1) % Len(SCENES)) + 1]
next(scene) == from_index(index(scene) + 1)
previous(scene) == from_index(index(scene) + Len(SCENES) - 1)

apply_content ==
  <<Set("hero_title", "changed"), Set("hero_blurb", "changed"), Set("typo_body", "warning"),
    Set("primary_label", "Committed"), Set("progress", "82"), Set("progress_text", "82%")>>
revert_content ==
  <<Set("hero_title", "title"), Set("hero_blurb", "blurb"), Set("typo_body", "body"),
    Set("primary_label", "Primary"), Set("progress", "35"), Set("progress_text", "35%")>>

apply_state ==
  <<Set("quiet_enabled", "false"), Set("plain_read_only", "true"), Set("invalid_state", "error"),
    Set("invalid_text", "rejected"), Set("switch_shown", "hidden"), Set("typo_error_shown", "collapsed"),
    Set("busy", "true"), Set("busy_text", "busy")>>
revert_state ==
  <<Set("quiet_enabled", "true"), Set("plain_read_only", "false"), Set("invalid_state", "valid"),
    Set("invalid_text", "authoritative"), Set("switch_shown", "visible"), Set("typo_error_shown", "visible"),
    Set("busy", "false"), Set("busy_text", "idle")>>

apply_image_offline ==
  <<Set("image", "none"), Set("image_shown", "collapsed"), Set("placeholder_shown", "visible"),
    Set("hero_status", "cleared")>>
revert_image_offline ==
  <<Set("image", "hash"), Set("image_shown", "visible"), Set("placeholder_shown", "collapsed"),
    Set("hero_status", "live")>>

apply_models ==
  <<Insert("list", 1, <<Row(90, "scene"), Row(91, "scene")>>), Update("list", Row(2, "scene")),
    Delete("list", {4}),
    Insert("table", Len(TableRows), <<Row(190, "scene")>>), Update("table", Row(102, "scene")),
    Delete("table", {104})>>

\* The row the scene deleted, put back at the end.
RevertAppends ==
  <<Delete("list", {90, 91}), Update("list", Row(2, "base")), Insert("list", 4, <<Row(4, "base")>>),
    Delete("table", {190}), Update("table", Row(102, "base")), Insert("table", 3, <<Row(104, "base")>>)>>

revert_models ==
  <<Delete("list", {90, 91}), Update("list", Row(2, "base")), Insert("list", 3, <<Row(4, "base")>>),
    Delete("table", {190}), Update("table", Row(102, "base")), Insert("table", 3, <<Row(104, "base")>>)>>

\* The badge gets an id no node had before: a deleted one never comes back.
apply_structure(badge) ==
  <<CreateNode(badge, "layout"), MoveNode(badge, "controls", 1), Reorder("buttons", Reverse(Buttons))>>
revert_structure(transient) ==
  <<Reorder("buttons", Buttons)>> \o [i \in 1..Len(transient) |-> DeleteNode(transient[i])]

apply_layout ==
  <<Set("row_spacing", "relaxed"), Set("column_padding", "relaxed"), Set("grid_spacing", "relaxed"),
    Set("leading_aligned", "trailing"), Set("preferred", "320x44")>>
revert_layout ==
  <<Set("row_spacing", "normal"), Set("column_padding", "normal"), Set("grid_spacing", "tight"),
    Set("leading_aligned", "leading"), Set("preferred", "200x24")>>

apply(scene, st) ==
  CASE scene = "content" -> apply_content [] scene = "state" -> apply_state
    [] scene = "image" -> apply_image_offline [] scene = "models" -> apply_models
    [] scene = "structure" -> apply_structure(st.next_transient) [] scene = "layout" -> apply_layout
    [] OTHER -> <<>>

revert(scene, st) ==
  CASE scene = "content" -> revert_content [] scene = "state" -> revert_state
    [] scene = "image" -> revert_image_offline [] scene = "models" -> revert_models
    [] scene = "structure" -> revert_structure(st.transient) [] scene = "layout" -> revert_layout
    [] OTHER -> <<>>

\* A change to the application's state together with the operations it stages.
Body(st, ops) == [state |-> st, ops |-> ops]

allocate(st, scene) ==
  IF scene = "structure"
  THEN [st EXCEPT !.transient = Append(@, st.next_transient), !.next_transient = @ + 1]
  ELSE st

take_transient(st) == IF st.scene = "structure" THEN [st EXCEPT !.transient = <<>>] ELSE st

stage_scene(st, target) ==
  IF st.scene = target THEN Body(st, <<>>)
  ELSE Body([allocate(take_transient(st), target) EXCEPT !.scene = target],
            revert(st.scene, st) \o apply(target, st)
            \o <<Set("scene_label", target), Set("inspect_scene", target)>>)

restore_baseline(st) ==
  Body([take_transient(st) EXCEPT !.scene = "baseline", !.autoplay = FALSE,
                                  !.list_selection = 0, !.table_selection = 0],
       revert(st.scene, st)
       \o <<Set("scene_label", "baseline"), Set("inspect_scene", "baseline"),
            Set("ctrl_status", "none yet"), Set("coll_selection", "nothing"), Set("hero_status", "live"),
            Set("autoplay_value", "off"), Set("switch_value", "off"),
            Set("plain_value", "base"), Set("plain_state", "valid"),
            Set("invalid_value", "base"), Set("invalid_state", "valid")>>)

set_autoplay(st, value) ==
  Body([st EXCEPT !.autoplay = (value = "on")], <<Set("autoplay_value", value)>>)

-----------------------------------------------------------------------------
(* The inspector and the telemetry *)

\* The rows of a transaction: its cause, its operations up to a limit, and a line
\* for the rest; the newest row is the first.
record(st, described) ==
  LET fresh == 1 + (IF described > TransactionRows THEN TransactionRows + 1 ELSE described)
      first == st.trace.next
      len == st.trace.len + fresh
      rows == [i \in 1..fresh |-> Row(first + fresh - i, "trace")]
  IN  Body([st EXCEPT !.trace = [next |-> first + fresh, len |-> IF len > TraceLimit THEN TraceLimit ELSE len]],
           <<Insert("trace", 0, rows)>>
           \o (IF len > TraceLimit THEN <<DeleteRange("trace", TraceLimit, len - TraceLimit)>> ELSE <<>>))

observe_transaction(st) == [st EXCEPT !.transactions = @ + 1]

push_bounded(samples, sample) ==
  Append(IF Len(samples) = SampleWindow THEN Tail(samples) ELSE samples, sample)

observe_event(st, lag) == [st EXCEPT !.events = @ + 1, !.lags = push_bounded(@, lag)]

\* Minimum, median, 95th percentile and maximum.
summarize_into(samples) ==
  LET sorted == SortSeq(samples, LAMBDA a, b : a < b)
      pick(q) == sorted[1 + ((Len(sorted) - 1) * q + 50) \div 100]
  IN  IF samples = <<>> THEN <<>> ELSE <<pick(0), pick(50), pick(95), pick(100)>>

\* A text is written again only when it differs from what was rendered last.
Changed(st, text) ==
  SelectSeq(<<"conn_clients", "conn_revision", "conn_traffic", "conn_events", "conn_lag">>,
            LAMBDA s : s \notin DOMAIN st.rendered \/ st.rendered[s] # text[s])

render(st, facts) ==
  LET text == [conn_clients |-> facts.attached, conn_revision |-> facts.revision,
               conn_traffic |-> st.transactions, conn_events |-> st.events,
               conn_lag |-> summarize_into(st.lags)]
      changed == Changed(st, text)
  IN  Body([st EXCEPT !.rendered = text],
           [i \in 1..Len(changed) |-> Set(changed[i], text[changed[i]])])

-----------------------------------------------------------------------------
(* Commits *)

attached_count == Cardinality({c \in Users : visitor[c].state = "attached"})

\* The session's counters, read with the application's lock held.
SessionFacts == [attached |-> attached_count, revision |-> graph.revision + 1]

NoPrior == [base |-> 0, ops |-> 0]
Server == [kind |-> "server", observed |-> 0]

\* The buffer starts as a copy of the published state.
Cloned == gallery

\* The change of a transaction, followed by the rows that describe it and the panel.
Staged(body, trigger, prior) ==
  LET base == IF prior.base = 0 THEN graph.revision ELSE prior.base
      lag == IF base > trigger.observed THEN base - trigger.observed ELSE 0
      counted == IF prior.base = 0 THEN body.state ELSE observe_transaction(body.state)
      traced == record(counted, prior.ops + Len(body.ops))
      timed == IF trigger.kind = "event" THEN observe_event(traced.state, lag) ELSE traced.state
      shown == render(timed, SessionFacts)
  IN  Body(shown.state,
           body.ops \o traced.ops
           \o <<Set("inspect_event", trigger.kind), Set("inspect_revision", graph.revision + 1)>>
           \o shown.ops)

\* A failed commit leaves the published state and the graph as they were, and its
\* work in the buffer.
commit(body, trigger, prior, ok) ==
  LET t == Staged(body, trigger, prior)
      outcome == Outcome(graph, t.ops)
  IN  IF ok /\ outcome.ok
      THEN /\ graph.revision < MaxRevision
           /\ graph' = [outcome.graph EXCEPT !.revision = @ + 1]
           /\ gallery' = observe_transaction(t.state)
           /\ staging' = gallery
           /\ tally' = tally
      ELSE /\ UNCHANGED <<graph, gallery>>
           /\ staging' = t.state
           /\ IF ok THEN tally' = [tally EXCEPT !.refused = TRUE]
              ELSE /\ tally.faults < MaxFaults
                   /\ tally' = [tally EXCEPT !.faults = @ + 1,
                                             !.missed = IF prior.base = 0 THEN @ ELSE @ + 1]

Idle == [step |-> "none", event |-> [kind |-> "none"], observed |-> 0, base |-> 0]

\* The timer is told of a new autoplay flag after the locks are released.
SendLater(c, body, ok) ==
  handler' = [handler EXCEPT ![c] =
    IF ok /\ body.state.autoplay # gallery.autoplay
    THEN [Idle EXCEPT !.step = "sending", !.event = handler[c].event]
    ELSE Idle]

-----------------------------------------------------------------------------
(* Events *)

\* Checked when the event is admitted; the handler runs later, with no lock held.
Interactive(e) ==
  /\ e.target = "quiet" => graph.props.quiet_enabled = "true"
  /\ e.kind = "edit" /\ e.target = "plain" => graph.props.plain_read_only = "false"

ValueSlot == [plain |-> "plain_value", invalid |-> "invalid_value"]
StateSlot == [plain |-> "plain_state", invalid |-> "invalid_state"]

\* An edit commits inside the session, without the application's lock; its handler
\* reports it later.
process_event(c, e, lag) ==
  /\ phase = "serving" /\ visitor[c].state = "attached" /\ handler[c].step = "none"
  /\ lag < graph.revision
  /\ Interactive(e)
  /\ handler' = [handler EXCEPT ![c] =
       [step |-> "admitted", event |-> e, observed |-> graph.revision - lag,
        base |-> IF e.kind = "edit" THEN graph.revision ELSE 0]]
  /\ IF e.kind = "edit"
     THEN /\ graph.revision < MaxRevision - 1
          /\ graph' = [graph EXCEPT !.props[ValueSlot[e.target]] = "edited",
                                    !.props[StateSlot[e.target]] = "valid",
                                    !.revision = @ + 1]
     ELSE UNCHANGED graph
  /\ UNCHANGED <<gallery, staging, phase, visitor, timer, tally>>

on_scene_action(st, e) ==
  CASE e.target = "next" -> stage_scene(st, next(st.scene))
    [] e.target = "previous" -> stage_scene(st, previous(st.scene))
    [] e.target = "reset" -> restore_baseline(st)

on_autoplay_changed(st, e) == set_autoplay(st, e.value)
on_demo_button(st, e) == Body(st, <<Set("ctrl_status", e.target)>>)
on_demo_toggle(st, e) == Body(st, <<Set("switch_value", e.value), Set("ctrl_status", e.target)>>)

\* Only an item the store still holds is taken as the selection.
on_selection_changed_in(st, e) ==
  LET resolved == e.item \in Items(graph.models[e.target])
      chosen == IF ~resolved THEN st
                ELSE IF e.target = "list" THEN [st EXCEPT !.list_selection = e.item]
                ELSE [st EXCEPT !.table_selection = e.item]
  IN  Body(chosen, <<Set("coll_selection", IF resolved THEN e.target ELSE "refused")>>)

\* The edit is committed already; the handler's transaction only reports it.
on_text_edit(st) == Body(st, <<>>)

Handle(st, e) ==
  CASE e.kind = "scene" -> on_scene_action(st, e)
    [] e.kind = "autoplay" -> on_autoplay_changed(st, e)
    [] e.kind = "button" -> on_demo_button(st, e)
    [] e.kind = "toggle" -> on_demo_toggle(st, e)
    [] e.kind = "select" -> on_selection_changed_in(st, e)
    [] e.kind = "edit" -> on_text_edit(st)

RunHandler(c, ok) ==
  /\ handler[c].step = "admitted"
  /\ LET h == handler[c]
         body == Handle(Cloned, h.event)
         prior == IF h.event.kind = "edit" THEN [base |-> h.base, ops |-> 2] ELSE NoPrior
     IN  /\ commit(body, [kind |-> "event", observed |-> h.observed], prior, ok)
         /\ SendLater(c, body, ok)
  /\ UNCHANGED <<phase, visitor, timer>>

SendAutoplay(c) ==
  /\ handler[c].step = "sending"
  /\ timer' = [timer EXCEPT !.watch = (handler[c].event.kind = "autoplay" /\ handler[c].event.value = "on"),
                            !.seen = FALSE]
  /\ handler' = [handler EXCEPT ![c] = Idle]
  /\ UNCHANGED <<graph, gallery, staging, phase, visitor, tally>>

-----------------------------------------------------------------------------
(* Connections and the timer *)

AcceptUser(c) ==
  /\ phase = "serving" /\ visitor[c].state = "none" /\ tally.visits < MaxVisits
  /\ visitor' = [visitor EXCEPT ![c] = [state |-> "pending", refreshed |-> FALSE]]
  /\ tally' = [tally EXCEPT !.visits = @ + 1]
  /\ UNCHANGED <<graph, gallery, staging, phase, handler, timer>>

Attach(c) ==
  /\ visitor[c].state = "pending"
  /\ visitor' = [visitor EXCEPT ![c].state = "attached"]
  /\ UNCHANGED <<graph, gallery, staging, phase, handler, timer, tally>>

\* The task refreshes the panel the first time the connection waits, which may be
\* before or after the client attached.
refresh_connection_telemetry(ok) == commit(Body(Cloned, <<>>), Server, NoPrior, ok)

RefreshFirst(c, ok) ==
  /\ visitor[c].state \in {"pending", "attached"} /\ ~visitor[c].refreshed
  /\ handler[c].step = "none"
  /\ refresh_connection_telemetry(ok)
  /\ visitor' = [visitor EXCEPT ![c].refreshed = TRUE]
  /\ UNCHANGED <<phase, handler, timer>>

Leave(c) ==
  /\ visitor[c].state \in {"pending", "attached"} /\ handler[c].step = "none"
  /\ visitor' = [visitor EXCEPT ![c].state = "left"]
  /\ UNCHANGED <<graph, gallery, staging, phase, handler, timer, tally>>

RefreshLast(c, ok) ==
  /\ visitor[c].state = "left"
  /\ refresh_connection_telemetry(ok)
  /\ visitor' = [visitor EXCEPT ![c] = [state |-> "none", refreshed |-> FALSE]]
  /\ UNCHANGED <<phase, handler, timer>>

\* Waiting for the flag, the timer starts a dwell when it is set.
TimerStarts ==
  /\ phase = "serving" /\ timer.step = "waiting" /\ timer.watch
  /\ timer' = [timer EXCEPT !.step = "dwelling", !.seen = TRUE]
  /\ UNCHANGED <<graph, gallery, staging, phase, handler, visitor, tally>>

\* A flag sent during the dwell restarts it or ends it.
TimerChanged ==
  /\ timer.step = "dwelling" /\ ~timer.seen
  /\ timer' = [timer EXCEPT !.step = "waiting", !.seen = TRUE]
  /\ UNCHANGED <<graph, gallery, staging, phase, handler, visitor, tally>>

TimerElapses(ok) ==
  /\ timer.step = "dwelling"
  /\ timer' = [timer EXCEPT !.step = "waiting"]
  /\ IF timer.watch
     THEN commit(stage_scene(Cloned, next(Cloned.scene)), Server, NoPrior, ok)
     ELSE UNCHANGED <<graph, gallery, staging, tally>>
  /\ UNCHANGED <<phase, handler, visitor>>

-----------------------------------------------------------------------------
(* Start *)

InitialState ==
  [scene |-> "baseline", autoplay |-> FALSE, list_selection |-> 0, table_selection |-> 0,
   next_transient |-> 900, transient |-> <<>>, trace |-> [next |-> 1, len |-> 0],
   transactions |-> 1, events |-> 0, lags |-> <<>>, rendered |-> [s \in {} |-> 0]]

GalleryInit ==
  /\ graph = [revision |-> 0]
  /\ gallery = InitialState /\ staging = InitialState
  /\ phase = "new"
  /\ handler = [c \in Users |-> Idle]
  /\ visitor = [c \in Users |-> [state |-> "none", refreshed |-> FALSE]]
  /\ timer = [step |-> "waiting", watch |-> FALSE, seen |-> TRUE]
  /\ tally = [faults |-> 0, missed |-> 0, refused |-> FALSE, visits |-> 0]

Build ==
  /\ phase = "new"
  /\ graph' = build_initial_ui
  /\ phase' = "built"
  /\ UNCHANGED <<gallery, staging, handler, visitor, timer, tally>>

\* The operations of the initial graph are described but already counted.
start ==
  /\ phase = "built"
  /\ commit(Body(Cloned, <<>>), Server, [base |-> 0, ops |-> BuildOps], TRUE)
  /\ phase' = "started"
  /\ UNCHANGED <<handler, visitor, timer>>

\* The timer's task begins after the flag of --autoplay is set.
Serve(autoplay_on_start) ==
  /\ phase = "started"
  /\ phase' = "serving"
  /\ IF autoplay_on_start
     THEN /\ commit(set_autoplay(Cloned, "on"), Server, NoPrior, TRUE)
          /\ timer' = [timer EXCEPT !.watch = TRUE, !.seen = FALSE]
     ELSE UNCHANGED <<graph, gallery, staging, tally, timer>>
  /\ UNCHANGED <<handler, visitor>>

GalleryNext ==
  \/ Build \/ start \/ \E autoplay_on_start \in BOOLEAN : Serve(autoplay_on_start)
  \/ \E c \in Users :
       \/ AcceptUser(c) \/ Attach(c) \/ Leave(c) \/ SendAutoplay(c)
       \/ \E e \in GalleryEvents, lag \in Lags : process_event(c, e, lag)
       \/ \E ok \in BOOLEAN : RunHandler(c, ok) \/ RefreshFirst(c, ok) \/ RefreshLast(c, ok)
  \/ TimerStarts \/ TimerChanged
  \/ \E ok \in BOOLEAN : TimerElapses(ok)

-----------------------------------------------------------------------------
(* Properties *)

\* What the scenes own of the graph: what a client may edit meanwhile is left out,
\* and the badge is the node the scene created, whatever its id.
Scenery(g, transient) ==
  [props |-> [s \in DOMAIN (HeroProps @@ ControlProps @@ LayoutProps) \ {"invalid_state"} |-> g.props[s]],
   list |-> g.models.list, table |-> g.models.table,
   children |-> [p \in DOMAIN g.children |->
     [i \in 1..Len(g.children[p]) |->
        IF g.children[p][i] \in ToSet(transient) THEN 0 ELSE g.children[p][i]]]]

\* The graph of a scene applied to the graph as built.
Pictured(scene) ==
  Scenery(Outcome(build_initial_ui, apply(scene, InitialState)).graph,
          IF scene = "structure" THEN <<InitialState.next_transient>> ELSE <<>>)

\* The gallery's own books agree with the graph its clients have, whatever the route of
\* the tour, the concurrent steps and the failed commits before.  The graph is that of
\* the scene on display, so every scene undoes exactly what it did; the inspector holds
\* the newest rows and knows how many, no text is taken for rendered that is not, the
\* toggle shows the flag, every transaction is counted once but for edits not reported
\* yet, the panel shows nobody once all have left, and no operation is ever refused.
GalleryAgrees == phase # "new" =>
  /\ Scenery(graph, gallery.transient) = Pictured(gallery.scene)
  /\ graph.models.trace = [i \in 1..gallery.trace.len |-> Row(gallery.trace.next - i, "trace")]
  /\ \A s \in DOMAIN gallery.rendered : graph.props[s] = gallery.rendered[s]
  /\ graph.props.autoplay_value = (IF gallery.autoplay THEN "on" ELSE "off")
  /\ gallery.transactions + tally.missed
       + Cardinality({c \in Users : handler[c].step = "admitted" /\ handler[c].event.kind = "edit"})
     = graph.revision
  /\ tally.faults = 0 /\ (\A c \in Users : visitor[c].state = "none") => graph.props.conn_clients = 0
  /\ ~tally.refused
=============================================================================
