---------------------------- MODULE ProcessView ----------------------------
(***************************************************************************)
(* The process table srtop publishes (apps/srtop/src/refresh.rs,           *)
(* projection.rs, sort.rs, filter.rs): a poll loop that applies scans of   *)
(* the process filesystem, and clicks and edits of a client that sort,     *)
(* filter and lay it out, each publishing the difference in transactions   *)
(* that may be refused.                                                    *)
(*                                                                         *)
(* A publication holds the view's lock and reads nothing of the host or of *)
(* a scan in progress, so the steps of the host and of the scan are taken  *)
(* between publications, and requests between a scan's end and its         *)
(* application: a request made during the scan has the same effect there.  *)
(***************************************************************************)
EXTENDS ProcScan, PublishPlan, SystemSummary, Sublists, TLC

CONSTANTS
    PublishedLimit,   \* rows the view publishes at most
    SnapshotBytes,    \* what a catch-up snapshot leaves for rows
    MatchingPids,     \* processes whose name the client's query matches
    Memory, Swap,     \* figures of the host
    MaxClicks,        \* bound: requests of clients
    MaxIncidents,     \* bound: changes, faults and requests together
    MaxRefusals       \* bound: transactions refused

VARIABLES
    ids,              \* SessionItemIds
    unfiltered,       \* rows kept, whether the filter shows them or not
    published,        \* what the view says the client holds
    clientView,       \* what the client holds
    sample,           \* the last successful sample
    filter,           \* committed and staged queries
    job,              \* the publication in progress
    clicks, refusals

viewVars == <<ids, unfiltered, published, clientView, sample, filter, job, clicks, refusals>>
srtopVars == <<hostVars, scanVars, steady, viewVars>>

NoOrder == [field |-> "none", direction |-> "none"]
Fields == {"pid", "resident"}
DefaultLayout == <<"pid", "resident">>
NoQuery == "none"

\* What a request still has to publish, and the rows it leaves if all of it is.
Job(kind, plan, target, kept) ==
    [kind |-> kind, plan |-> plan, target |-> target, unfiltered |-> kept,
     evicted |-> 0, refused |-> FALSE]
Idle == Job("none", <<>>, <<>>, <<>>)
Unstarted == Job("unstarted", <<>>, <<>>, <<>>)
FailedJob == Job("failed", <<>>, <<>>, <<>>)

-----------------------------------------------------------------------------
(* Rows.                                                                   *)

\* A cell shows a value rounded to a displayed unit, or a word.
Cell(field, value) == IF field = "pid" THEN value ELSE (value + 1) \div 2

\* lay_out and Row::laid_out
LaidOut(row, layout) == [row EXCEPT !.value = [i \in DOMAIN layout |-> row.cells[layout[i]]]]

\* SessionIdentity::anchor: a boot this scan could not read is the last one seen.
Anchored(read) == IF read = Missing THEN ids.boot ELSE read

InPidOrder(records) == StableSort(records, LAMBDA a, b : a.pid < b.pid)

KeyOf(record) == [boot |-> Anchored(record.boot), pid |-> record.pid, start |-> record.start]

Rejected == \E i, j \in DOMAIN scan.records :
                i # j /\ KeyOf(scan.records[i]) = KeyOf(scan.records[j])

\* SessionItemIds::project: a new key takes the next ID, which is never reused.
Assign(allocator, record) ==
    IF KeyOf(record) \in DOMAIN allocator.assigned THEN allocator
    ELSE [allocator EXCEPT !.last = @ + 1,
                           !.assigned = [key \in DOMAIN @ \cup {KeyOf(record)} |->
                               IF key \in DOMAIN @ THEN @[key] ELSE allocator.last + 1]]

Assigned ==
    LET start == IF scan.records = <<>> THEN ids ELSE [ids EXCEPT !.boot = Anchored(scan.boot)]
    IN  IF Rejected THEN ids ELSE FoldLeft(Assign, start, InPidOrder(scan.records))

Projected(layout) ==
    LET assigned == Assigned.assigned
        RowOf(record) ==
            LET values == [pid |-> record.pid, resident |-> record.resident]
            IN  LaidOut([id |-> assigned[KeyOf(record)], key |-> KeyOf(record),
                         sort |-> values, cells |-> [f \in Fields |-> Cell(f, values[f])],
                         value |-> <<>>], layout)
        sorted == InPidOrder(scan.records)
    IN  IF Rejected THEN <<>> ELSE [i \in DOMAIN sorted |-> RowOf(sorted[i])]

\* SessionItemIds::retain
IdsRetain(allocator, rows) ==
    LET live == {rows[i].key : i \in DOMAIN rows}
    IN  [allocator EXCEPT !.assigned = [key \in DOMAIN @ \cap live |-> @[key]]]

-----------------------------------------------------------------------------
(* Order, filter and bounds.                                               *)

\* process_key_order
KeyBefore(a, b) ==
    IF a.boot # b.boot THEN b.boot = Missing \/ (a.boot # Missing /\ a.boot < b.boot)
    ELSE IF a.pid # b.pid THEN a.pid < b.pid
    ELSE a.start < b.start

\* sort::compare: missing values last in both directions, ties by identity.
Before(order, a, b) ==
    LET left  == a.sort[order.field]
        right == b.sort[order.field]
    IN  IF left = right THEN KeyBefore(a.key, b.key)
        ELSE IF left = Missing \/ right = Missing THEN right = Missing
        ELSE IF order.direction = "ascending" THEN left < right
        ELSE left > right

Sorted(order, rows) ==
    IF order = NoOrder THEN rows ELSE StableSort(rows, LAMBDA a, b : Before(order, a, b))

\* SortOrder::resolve
Resolve(active, field) ==
    [field     |-> field,
     direction |-> IF active.field = field
                   THEN IF active.direction = "ascending" THEN "descending" ELSE "ascending"
                   ELSE IF field = "pid" THEN "ascending" ELSE "descending"]

\* FilterQuery::matches_row
Matches(query, row) == query = NoQuery \/ row.key.pid \in MatchingPids
Matching(query, rows) == SelectSeq(rows, LAMBDA row : Matches(query, row))

\* bound_to_publishable_collection: the leading rows one snapshot can carry.
Publishable(rows) ==
    LET fits(n) == /\ n <= PublishedLimit
                   /\ n * RowBytes + ((n + Batch - 1) \div Batch) * OpBytes <= SnapshotBytes
        kept == {n \in 0 .. Len(rows) : \A m \in 1 .. n : fits(m)}
    IN  SubSeq(rows, 1, CHOOSE n \in kept : \A m \in kept : m <= n)

\* project_visible_rows
Visible(query, rows) == Publishable(Matching(query, rows))

\* A row the scan did not confirm and whose absence it cannot account for.
Unaccounted(row, confirmed, retention) ==
    row.id \notin Ids(confirmed) /\ Keeps(retention, row.key.pid)

\* The place of the confirmed row that follows row i of the old rows.
Anchor(old, confirmed, i) ==
    LET later == {j \in i .. Len(old) : old[j].id \in Ids(confirmed)}
        next  == CHOOSE j \in later : \A k \in later : j <= k
    IN  IF later = {} THEN Len(confirmed) + 1
        ELSE CHOOSE k \in DOMAIN confirmed : confirmed[k].id = old[next].id

RetainedAt(old, confirmed, retention, k) ==
    SelectIn(old, {old[i] : i \in {i \in DOMAIN old : /\ Unaccounted(old[i], confirmed, retention)
                                                    /\ Anchor(old, confirmed, i) = k}})

\* retain_unconfirmed: such a row keeps its place before the confirmed row that
\* followed it.
RetainUnconfirmed(old, confirmed, retention) ==
    LET Step(acc, k) == acc \o RetainedAt(old, confirmed, retention, k) \o <<confirmed[k]>>
    IN  FoldLeftDomain(Step, <<>>, confirmed)
        \o RetainedAt(old, confirmed, retention, Len(confirmed) + 1)

\* evict_unconfirmed_beyond: the last unconfirmed rows a bounded collection has
\* no room for.
Evicted(rows, confirmed) ==
    LET unconfirmed == {i \in DOMAIN rows : rows[i].id \notin Ids(confirmed)}
    IN  {rows[i].id : i \in {i \in unconfirmed :
            Cardinality({j \in unconfirmed : j >= i}) <= Len(rows) - PublishedLimit}}

\* refresh_sort_values: order values and cells of the latest sample.
RefreshSortValues(rows, target) ==
    [i \in DOMAIN rows |->
        IF rows[i].id \in Ids(target)
        THEN LET latest == target[CHOOSE j \in DOMAIN target : target[j].id = rows[i].id]
             IN  [rows[i] EXCEPT !.sort = latest.sort, !.cells = latest.cells]
        ELSE rows[i]]

-----------------------------------------------------------------------------
(* Texts.                                                                  *)

\* ScanReport and refresh_status_from
Status(retained, rejected, evicted, truncated) ==
    [root |-> scan.rootFailed, identity |-> scan.boot = Missing,
     listed |-> Len(scan.records), unreadable |-> scan.skipped.count,
     capped |-> scan.capped.count, degraded |-> ~Complete,
     retained |-> retained, rejected |-> rejected, evicted |-> evicted, truncated |-> truncated]

\* format_committed_status and format_pending_status
CommittedStatus(query, generation, shown, matched, total) ==
    [pending |-> FALSE, query |-> query, generation |-> generation, shown |-> shown,
     matched |-> IF query = NoQuery THEN 0 ELSE matched,
     total |-> IF query = NoQuery THEN 0 ELSE total]
PendingStatus(query, generation, shown, total) ==
    [pending |-> TRUE, query |-> query, generation |-> generation, shown |-> shown,
     matched |-> filter.generation, total |-> total]

Gap(file) == IF file \in scan.system.unread THEN "unread" ELSE "none"

\* Sample::of
SampleOf ==
    [time |-> scans, count |-> Len(scan.records), cpu |-> scan.system.cpu,
     memory |-> [Memory EXCEPT !.gap = Gap("meminfo")],
     swap |-> [Swap EXCEPT !.gap = Gap("meminfo")],
     load |-> [gap |-> Gap("loadavg")], uptime |-> [gap |-> Gap("uptime")]]

CollectorError ==
    IF Rejected THEN "rejected" ELSE IF scan.rootFailed THEN "process list" ELSE NoError

NextSample == IF CollectorError = NoError THEN SampleOf ELSE sample

FilterMatches(query, rows) ==
    IF query = NoQuery THEN NoMatches ELSE Len(Matching(query, rows))

SummaryPlan(target) ==
    LET changed == SummaryChanges(published.summary, target)
    IN  [i \in DOMAIN changed |-> Property("summary", changed[i])]

\* A text is planned only if a client would see it change.
TextPlan(kind, current, text) == IF current = text THEN <<>> ELSE <<Property(kind, text)>>

-----------------------------------------------------------------------------
(* The column chooser.                                                     *)

\* COLUMN_CHOOSER_BUTTONS, in published order.
Buttons == <<<<"toggle", "pid">>, <<"earlier", "pid">>, <<"later", "pid">>,
             <<"toggle", "resident">>, <<"earlier", "resident">>, <<"later", "resident">>,
             <<"restore", "pid">>>>
Actions == Range(Buttons)

Position(layout, field) == IF field \in Range(layout)
                           THEN CHOOSE i \in DOMAIN layout : layout[i] = field ELSE 0
Swapped(layout, i, j) == [layout EXCEPT ![i] = layout[j], ![j] = layout[i]]

\* ColumnAction::enabled
Enabled(action, layout) ==
    LET at == Position(layout, action[2])
    IN  CASE action[1] = "toggle"  -> at = 0 \/ Len(layout) > 1
          [] action[1] = "earlier" -> at > 1
          [] action[1] = "later"   -> at > 0 /\ at < Len(layout)
          [] OTHER                 -> layout # DefaultLayout

\* ColumnAction::apply, on a layout it changes.
Chosen(action, layout) ==
    LET at == Position(layout, action[2])
    IN  IF ~Enabled(action, layout) THEN layout
        ELSE CASE action[1] = "toggle" /\ at > 0 ->
                      SelectSeq(layout, LAMBDA field : field # action[2])
               [] action[1] = "toggle" /\ at = 0 -> Append(layout, action[2])
               [] action[1] = "earlier" -> Swapped(layout, at - 1, at)
               [] action[1] = "later"   -> Swapped(layout, at, at + 1)
               [] OTHER                 -> DefaultLayout

\* A button's label and whether it is enabled.
Button(action, layout) ==
    [shown |-> Position(layout, action[2]) > 0, enabled |-> Enabled(action, layout)]

ChooserPlan(layout) ==
    LET Op(action, part) ==
            LET is == Button(action, layout)[part]
            IN  IF is = Button(action, published.columns)[part] THEN <<>>
                ELSE <<Property("chooser", [action |-> action, part |-> part, is |-> is])>>
    IN  FoldLeft(LAMBDA plan, action : plan \o Op(action, "shown") \o Op(action, "enabled"),
                 <<>>, Buttons)

-----------------------------------------------------------------------------
(* Publications.                                                           *)

Ready == job.kind = "none"

\* A retained row beyond the target's: how many the scan did not confirm.
Unconfirmed(target, confirmed) ==
    Cardinality({i \in DOMAIN target : target[i].id \notin Ids(confirmed)})

\* ProcessView::start and initialize_rows: the shell and the first rows in one
\* transaction. A snapshot that cannot be identified ends the program.
Start ==
    LET all     == Projected(DefaultLayout)
        rows    == Publishable(all)
        status  == Status(0, FALSE, 0, Len(all) - Len(rows))
        first   == IF scan.rootFailed THEN NoSampleYet ELSE SampleOf
        summary == Collecting(first, CollectorError, NoMatches)
        caption == CommittedStatus(NoQuery, 0, Len(rows), Len(all), Len(all))
    IN  /\ job = Unstarted /\ scan.phase = "done"
        /\ scan' = IdleScan
        /\ IF Rejected
           THEN job' = FailedJob /\ UNCHANGED <<ids, unfiltered, published, clientView, sample>>
           ELSE /\ job' = Idle
                /\ ids' = IdsRetain(Assigned, all)
                /\ unfiltered' = all
                /\ published' = [rows |-> rows, status |-> status, summary |-> summary,
                                 sort |-> NoOrder, filterStatus |-> caption,
                                 columns |-> DefaultLayout]
                /\ clientView' = [rows |-> Shown(rows), status |-> status, summary |-> summary,
                             sortLabel |-> [f \in Fields |-> "none"], filterStatus |-> caption,
                             filterValue |-> NoQuery, columns |-> DefaultLayout,
                             chooser |-> [a \in Actions |-> Button(a, DefaultLayout)]]
                /\ sample' = first
        /\ UNCHANGED <<hostVars, baselines, cpuBoot, systemBaseline, faults, scans, steady,
                       filter, clicks, refusals>>

RowsAfter(moved, target) == moved.plan \o Diff(moved.rows, target)
RowsPlan(target) == RowsAfter(PlanMoves(published.rows, target), target)

\* What a refresh publishes, of which the client is shown `target`.
RefreshPlan(target, matched, total, status, summary) ==
    LET caption == CommittedStatus(filter.committed, filter.generation, Len(target), matched, total)
    IN  TextPlan("status", published.status, status)
        \o TextPlan("filterStatus", published.filterStatus, caption)
        \o SummaryPlan(summary) \o RowsPlan(target)

\* publish_status_only: nothing was confirmed and nothing may be deleted.
FailurePlan(summary) ==
    TextPlan("status", published.status, Status(Len(published.rows), Rejected, 0, 0))
    \o SummaryPlan(summary)

RefreshJob(confirmed, all, target, evicted, summary) ==
    LET matched == Len(Matching(filter.committed, all))
        status  == Status(Unconfirmed(target, confirmed), Rejected, evicted, matched - Len(target))
    IN  [Job("apply", RefreshPlan(target, matched, Len(all), status, summary), target, all)
            EXCEPT !.evicted = evicted]

Refresh(confirmed, retention, all, evicted) ==
    LET summary == Collecting(NextSample, CollectorError, FilterMatches(filter.committed, all))
    IN  IF confirmed = <<>> /\ retention.global
        THEN Job("failure", FailurePlan(summary), published.rows, unfiltered)
        ELSE RefreshJob(confirmed, all, Visible(filter.committed, all), evicted, summary)

\* ProcessView::apply: the scan's rows, and the rows it cannot say have ended.
Apply ==
    LET confirmed == Projected(published.columns)
        retention == IF Rejected THEN Unenumerable ELSE Retention
        kept      == Sorted(published.sort, RetainUnconfirmed(unfiltered, confirmed, retention))
        evicted   == Evicted(kept, confirmed)
        all       == SelectIn(kept, {row \in ToSet(kept) : row.id \notin evicted})
    IN  /\ Ready /\ scan.phase = "done"
        /\ job' = Refresh(confirmed, retention, all, Cardinality(evicted))
        /\ ids' = Assigned
        /\ sample' = NextSample
        /\ scan' = IdleScan
        /\ UNCHANGED <<hostVars, baselines, cpuBoot, systemBaseline, faults, scans, steady,
                       unfiltered, published, clientView, filter, clicks, refusals>>

\* Requests read nothing of a scan, so it is enough to take them when one is done
\* or none will follow.
Click ==
    /\ Ready /\ (scan.phase = "done" \/ scans = MaxScans)
    /\ clicks < MaxClicks /\ changes + faults + clicks < MaxIncidents
    /\ clicks' = clicks + 1

\* click_sort and set_sort: labels first, then the rows that change place.
ClickSort(field) ==
    LET order  == Resolve(published.sort, field)
        sorted == Sorted(order, unfiltered)
        target == Visible(filter.committed, sorted)
        Label(f, direction, active) ==
            Property("sortLabel", [field |-> f, direction |-> direction,
                                   active |-> active, order |-> order])
        cleared == IF published.sort.field \in {"none", field} THEN <<>>
                   ELSE <<Label(published.sort.field, "none", FALSE)>>
    IN  /\ Click
        /\ unfiltered' = sorted
        /\ job' = Job("sort", cleared \o <<Label(field, order.direction, TRUE)>>
                              \o PlanMoves(published.rows, target).plan, target, sorted)
        /\ UNCHANGED <<hostVars, scanVars, steady, ids, published, clientView, sample, filter, refusals>>

\* publish_layout: headings, chooser and cells, as one transaction if it fits.
ClickColumn(action) ==
    LET layout == Chosen(action, published.columns)
        target == [i \in DOMAIN published.rows |-> LaidOut(published.rows[i], layout)]
        plan   == <<Property("columns", layout)>> \o ChooserPlan(layout)
                  \o Diff(published.rows, target)
        whole  == Len(plan) <= MaxPlanOps /\ BytesOf(plan, Len(plan)) <= MaxBytes
    IN  /\ Click /\ clientView.chooser[action].enabled
        /\ layout # published.columns
        /\ job' = Job("layout", IF whole THEN Joined(plan) ELSE plan, target, unfiltered)
        /\ UNCHANGED <<hostVars, scanVars, steady, ids, unfiltered, published, clientView, sample,
                       filter, refusals>>

\* filter_edited and stage_filter: the edit is announced with its generation.
EditFilter(query) ==
    LET text == PendingStatus(query, filter.last + 1, Len(published.rows), Len(unfiltered))
    IN  /\ Click
        /\ filter' = [filter EXCEPT !.last = @ + 1, !.staged = query]
        /\ job' = Job("stage", TextPlan("filterStatus", published.filterStatus, text),
                      published.rows, unfiltered)
        /\ UNCHANGED <<hostVars, scanVars, steady, ids, unfiltered, published, clientView, sample,
                       refusals>>

\* commit_filter: the staged query chooses the rows shown from the rows kept.
CommitFilter ==
    LET query   == filter.staged
        target  == Visible(query, unfiltered)
        matched == Len(Matching(query, unfiltered))
        summary == IF sample = NoSampleYet THEN NotStarted
                   ELSE Collecting(sample, NoError, FilterMatches(query, unfiltered))
        caption == CommittedStatus(query, filter.last, Len(target), matched, Len(unfiltered))
    IN  /\ job.kind = "stage" /\ job.plan = <<>> /\ ~job.refused
        /\ filter' = [filter EXCEPT !.committed = query, !.generation = filter.last,
                                    !.staged = "nothing"]
        /\ job' = Job("filter", TextPlan("filterValue", clientView.filterValue, query)
                                \o TextPlan("filterStatus", published.filterStatus, caption)
                                \o SummaryPlan(summary) \o RowsPlan(target), target, unfiltered)
        /\ UNCHANGED <<hostVars, scanVars, steady, ids, unfiltered, published, clientView, sample,
                       clicks, refusals>>

\* commit: the next transaction commits and is recorded, or is refused, which
\* ends the publication.
CommitChunk ==
    LET length == ChunkLength(job.plan)
        chunk  == SubSeq(job.plan, 1, length)
    IN  /\ job.plan # <<>>
        /\ \/ /\ clientView' = FoldLeft(StoreApply, clientView, chunk)
              /\ published' = RecordCommitted(published, chunk)
              /\ job' = [job EXCEPT !.plan = SubSeq(@, length + 1, Len(@))]
              /\ UNCHANGED refusals
           \/ /\ refusals < MaxRefusals
              /\ refusals' = refusals + 1
              /\ job' = [job EXCEPT !.plan = <<>>, !.refused = TRUE]
              /\ UNCHANGED <<clientView, published>>
        /\ UNCHANGED <<hostVars, scanVars, steady, ids, unfiltered, sample, filter, clicks>>

\* Mutant: the rows kept stay in the layout they were projected in.
RelaidNever(rows) == rows

\* The rows kept after a layout change follow the layout that committed.
Relaid(rows) == [i \in DOMAIN rows |-> LaidOut(rows[i], published.columns)]

\* What a publication does after its last transaction, whatever its outcome.
Finish ==
    LET kept == CASE job.kind = "apply" -> job.unfiltered
                  [] job.kind = "layout" -> Relaid(unfiltered)
                  [] OTHER -> unfiltered
    IN  /\ job.kind \in {"apply", "failure", "sort", "layout", "filter", "stage"}
        /\ job.plan = <<>> /\ (job.kind = "stage" => job.refused)
        /\ published' = IF job.kind \in {"apply", "sort", "filter"}
                        THEN [published EXCEPT !.rows = RefreshSortValues(@, job.target)]
                        ELSE published
        /\ unfiltered' = kept
        /\ ids' = IF job.kind = "stage" THEN ids ELSE IdsRetain(ids, kept)
        /\ job' = Idle
        /\ UNCHANGED <<hostVars, scanVars, steady, clientView, sample, filter, clicks, refusals>>

-----------------------------------------------------------------------------

ViewInit ==
    /\ ScanInit
    /\ ids = [assigned |-> <<>>, boot |-> Missing, last |-> 0]
    /\ unfiltered = <<>>
    /\ published = [rows |-> <<>>] /\ clientView = [rows |-> <<>>]
    /\ sample = NoSampleYet
    /\ filter = [committed |-> NoQuery, generation |-> 0, last |-> 0, staged |-> "nothing"]
    /\ job = Unstarted
    /\ clicks = 0 /\ refusals = 0

\* The host changes, or the poll loop's scan takes a step, between publications.
Between == job.kind \in {"none", "unstarted"}
Bounded == changes' + faults' + clicks <= MaxIncidents
HostStep == Between /\ HostChange /\ Bounded /\ UNCHANGED viewVars
Sampling == Between /\ ScanStep /\ Bounded /\ UNCHANGED viewVars

ViewNext ==
    \/ HostStep
    \/ Sampling
    \/ Start
    \/ Apply
    \/ \E field \in Fields : ClickSort(field)
    \/ \E action \in Actions : ClickColumn(action)
    \/ \E query \in {NoQuery, "query"} : EditFilter(query)
    \/ CommitFilter
    \/ CommitChunk
    \/ Finish

ViewSpec == ViewInit /\ [][ViewNext]_srtopVars

-----------------------------------------------------------------------------
(* Properties.                                                             *)

Started == job.kind \notin {"unstarted", "failed"}

\* The view's record of what it published is what the client holds, after every
\* transaction, committed or refused: the next difference is taken against it
\* (refresh.rs commit, record_committed).
ViewMatchesStore ==
    Started => /\ clientView.rows = Shown(published.rows)
               /\ \A text \in {"status", "summary", "filterStatus", "columns"} :
                      clientView[text] = published[text]
               /\ published.sort # NoOrder =>
                      clientView.sortLabel[published.sort.field] = published.sort.direction

\* No revision a client may receive lacks a row it held that the publication
\* keeps: a row that changes place is deleted and inserted again within one
\* transaction (plan_moves, commit), so a selection stays on its process.
NoRowBlinks ==
    [][\A id \in Ids(clientView.rows) \cap Ids(job.target) : id \in Ids(clientView'.rows)]_clientView

\* A refresh or a filter none of whose transactions was refused leaves the client
\* with the rows it aimed at, in their order, with the cells the published
\* headings name, whatever earlier refusals, layouts and sorts left behind.
PublishesTarget ==
    (job.kind \in {"apply", "filter"} /\ job.plan = <<>> /\ ~job.refused) =>
        clientView.rows = Shown([i \in DOMAIN job.target |-> LaidOut(job.target[i], clientView.columns)])

\* What a difference is taken against is what clients have, and what it leaves them
\* with is what was aimed at, through refusals, layouts, sorts and rows of one key
\* (refresh.rs commit, record_committed).
PublicationsExact == ViewMatchesStore /\ PublishesTarget

\* A process that was running when the scan listed the host, and still is, does
\* not lose its row to a refresh, whatever the scan could not read, list or fit:
\* only the declared eviction of unconfirmed rows may remove it.
NoFalseExit ==
    [][(job.kind = "none" /\ job'.kind \in {"apply", "failure"} /\ job'.evicted = 0) =>
          \A i \in DOMAIN unfiltered :
              LET key == unfiltered[i].key
              IN  (key.pid \in steady /\ key.start = process[key.pid]
                   /\ key.boot \in {boot, Missing}) =>
                  \E j \in DOMAIN job'.unfiltered :
                      /\ job'.unfiltered[j].key.pid = key.pid
                      /\ job'.unfiltered[j].key.start = key.start]_srtopVars

\* A CPU interval is measured between two readings of one process of one boot,
\* and with directory handles a record's memory is that of the process its
\* start time names, although PIDs are reused while the scan reads them.
OneInstance ==
    \A i \in DOMAIN scan.records :
        LET record == scan.records[i]
        IN  /\ record.cpu.kind = "measured" /\ record.cpu.from.known /\ scan.boot # Missing =>
                   record.cpu.from.start = record.start /\ record.cpu.from.boot = boot
            /\ Access = "pinned" => record.residentOf = record.start
=============================================================================
