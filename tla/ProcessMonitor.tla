--------------------------- MODULE ProcessMonitor ---------------------------
(***************************************************************************)
(* The process monitor example: a table of processes that follows the         *)
(* system, and a button that signals the row a client selected.               *)
(*                                                                         *)
(* A process is a pid and the time it started; no two processes of one pid     *)
(* started at the same time.  The application state is behind one lock, the    *)
(* process source behind another; a kill takes each only for a moment, so      *)
(* processes come and go, pids are reused and other handlers run between its    *)
(* steps.                                                                    *)
(***************************************************************************)
EXTENDS Integers, FiniteSets, Sublists

CONSTANTS
  Pids, Denylist,       \* numbers; the ones never signalled
  Owners,               \* whose processes a pid may be: "mine" or "other"
  BusySets,             \* the processes whose values may differ from the others
  Viewers,              \* client instances
  MaxBirths, MaxSelects,
  MaxClientSelections,  \* MAX_CLIENT_SELECTIONS
  BatchItems            \* MAX_ITEMS_PER_MODEL_OP

ASSUME MonitorAssumption ==
  /\ Pids \subseteq Nat /\ IsFiniteSet(Pids)
  /\ BatchItems \in Nat \ {0}

VARIABLES
  os,                   \* the process running under each pid, and how many there were
  sampled,              \* a sample on its way to the application state
  mon,                  \* StateData
  table,                \* what the session publishes
  view,                 \* the rows each client has on its screen
  meant,                \* the process each client saw in the row it selected last
  kill,                 \* a "Kill Selected" each client has under way
  hits                  \* the signals sent

monVars == <<os, sampled, mon, table, view, meant, kill, hits>>

Nothing == [pid |-> 0, start |-> 0]
NotSampled == [taken |-> FALSE, records |-> {}]

-----------------------------------------------------------------------------
(* The rows and their differences *)

ItemsOf(rows) == {rows[i].item : i \in 1..Len(rows)}
PositionOf(rows, item) == CHOOSE i \in 1..Len(rows) : rows[i].item = item
ValueOf(rows, item) == rows[PositionOf(rows, item)].value

\* Rows that stay, in an order they already have; the others are deleted.
Retained(prev, next) ==
  FoldLeft(LAMBDA st, row :
             IF row.item \notin ItemsOf(next) \/ PositionOf(next, row.item) < st.highest THEN st
             ELSE [highest |-> PositionOf(next, row.item), items |-> st.items \cup {row.item}],
           [highest |-> 0, items |-> {}], prev).items

\* The rows that are not retained form runs; a run ends at a retained row or when
\* it holds BatchItems.
NoRuns == [done |-> <<>>, start |-> 1, run |-> <<>>]

RunOf(st) == [start |-> st.start, run |-> st.run]

RunStep(next, retained, st, i) ==
  LET grown == [done  |-> st.done,
                start |-> IF st.run = <<>> THEN i ELSE st.start,
                run   |-> Append(st.run, next[i])]
      ended(last) == [done |-> Append(st.done, RunOf(last)), start |-> 1, run |-> <<>>]
  IN  IF next[i].item \in retained
      THEN IF st.run = <<>> THEN st ELSE ended(st)
      ELSE IF Len(grown.run) = BatchItems THEN ended(grown) ELSE grown

Positions(rows) == [i \in 1..Len(rows) |-> i]

GatherRuns(next, retained) ==
  FoldLeft(LAMBDA st, i : RunStep(next, retained, st, i), NoRuns, Positions(next))

InsertRuns(next, retained) ==
  LET last == GatherRuns(next, retained)
  IN  IF last.run = <<>> THEN last.done ELSE Append(last.done, RunOf(last))

\* An insertion past the end is refused.
InsertRun(rows, start, run) ==
  IF start > Len(rows) + 1 THEN rows
  ELSE SubSeq(rows, 1, start - 1) \o run \o SubSeq(rows, start, Len(rows))

InsertAll(rows, runs) == FoldLeft(LAMBDA left, r : InsertRun(left, r.start, r.run), rows, runs)

\* Insertions that keep the deleted rows in place until the end.
DiffDeletesLast(prev, next) ==
  LET retained == Retained(prev, next)
      inserted == InsertAll(prev, InsertRuns(next, retained))
  IN  SelectSeq(inserted, LAMBDA row : row.item \in ItemsOf(next))

\* Deletions come first, so that a run is inserted at its place in the new rows;
\* then the retained rows whose values changed are updated.
diff_visible_rows(prev, next) ==
  LET retained == Retained(prev, next)
      kept == SelectIn(prev, {row \in ToSet(prev) : row.item \in retained})
      inserted == InsertAll(kept, InsertRuns(next, retained))
  IN  [i \in 1..Len(inserted) |->
         IF inserted[i].item \in retained
         THEN [inserted[i] EXCEPT !.value = ValueOf(next, inserted[i].item)]
         ELSE inserted[i]]

-----------------------------------------------------------------------------
(* The system *)

Birth(pid, uid) ==
  /\ os.running[pid].start = 0 /\ os.births < MaxBirths
  /\ os' = [running |-> [os.running EXCEPT ![pid] = [start |-> os.births + 1, uid |-> uid]],
            births |-> os.births + 1]
  /\ UNCHANGED <<sampled, mon, table, view, meant, kill, hits>>

Death(pid) ==
  /\ os.running[pid].start # 0
  /\ os' = [os EXCEPT !.running[pid] = [start |-> 0, uid |-> "none"]]
  /\ UNCHANGED <<sampled, mon, table, view, meant, kill, hits>>

start_time_of(pid) == os.running[pid].start

-----------------------------------------------------------------------------
(* The application state *)

is_visible(record, show_all) == show_all \/ record.uid = "mine"

KeyLess(a, b) == a.pid < b.pid \/ (a.pid = b.pid /\ a.start < b.start)

\* New ids in any order of the sample: it comes from a hash map.
NewItems(latest) ==
  LET fresh == {r.key : r \in latest} \ DOMAIN mon.items
  IN  {f \in [fresh -> mon.next_item..(mon.next_item + Cardinality(fresh) - 1)] :
         \A a, b \in fresh : a # b => f[a] # f[b]}

\* The state after a plan: live processes keep their ids, new ones get the next,
\* and a selection whose row left the table is dropped.
Plan(latest, show_all, fresh) ==
  LET live == {r.key : r \in latest}
      items == [k \in live |-> IF k \in DOMAIN mon.items THEN mon.items[k] ELSE fresh[k]]
      shown == {r \in latest : is_visible(r, show_all)}
      rows == [i \in 1..Cardinality(shown) |->
                 LET r == CHOOSE x \in shown :
                            Cardinality({y \in shown : KeyLess(y.key, x.key)}) = i - 1
                 IN  [item |-> items[r.key], key |-> r.key, value |-> r.value]]
      stays == {c \in DOMAIN mon.selections : mon.selections[c].item \in ItemsOf(rows)}
  IN  [mon EXCEPT !.show_all = show_all, !.items = items, !.visible = rows, !.latest = latest,
                  !.next_item = @ + Cardinality(live \ DOMAIN mon.items),
                  !.selections = [c \in stays |-> @[c]]]

MonitorInit ==
  /\ os = [running |-> [p \in Pids |-> [start |-> 0, uid |-> "none"]], births |-> 0]
  /\ sampled = NotSampled
  /\ mon = [show_all |-> FALSE, items |-> [k \in {} |-> 0], visible |-> <<>>, latest |-> {},
            next_item |-> 1, next_seq |-> 0, selections |-> [c \in {} |-> 0]]
  /\ table = [rows |-> <<>>, show_all |-> FALSE, status |-> "idle"]
  /\ view = [c \in Viewers |-> <<>>]
  /\ meant = [c \in Viewers |-> Nothing]
  /\ kill = [c \in Viewers |-> [step |-> "none", target |-> Nothing, meant |-> Nothing, fd |-> Nothing]]
  /\ hits = {}

\* The source is read before the application state is locked.
Sample(busy) ==
  /\ ~sampled.taken
  /\ sampled' = [taken |-> TRUE, records |->
       {[key |-> [pid |-> p, start |-> os.running[p].start], uid |-> os.running[p].uid,
         value |-> p \in busy] : p \in {q \in Pids : os.running[q].start # 0}}]
  /\ UNCHANGED <<os, mon, table, view, meant, kill, hits>>

\* The plan takes effect when its transaction commits; one with nothing to publish
\* needs none.  A refused transaction leaves the state as it was.
commit_plan(next, ok) ==
  IF ok
  THEN /\ mon' = next
       /\ table' = [table EXCEPT !.rows = diff_visible_rows(table.rows, next.visible),
                                 !.show_all = next.show_all]
  ELSE /\ next.visible # mon.visible \/ next.show_all # mon.show_all
       /\ UNCHANGED <<mon, table>>

Tick(ok) ==
  /\ sampled.taken
  /\ \E fresh \in NewItems(sampled.records) :
       commit_plan(Plan(sampled.records, mon.show_all, fresh), ok)
  /\ sampled' = NotSampled
  /\ UNCHANGED <<os, view, meant, kill, hits>>

\* A toggle that cannot be applied is set back to what the state says.
on_show_all_changed(show_all, ok) ==
  /\ show_all # mon.show_all
  /\ commit_plan(Plan(mon.latest, show_all, [k \in {} |-> 0]), ok)
  /\ UNCHANGED <<os, sampled, view, meant, kill, hits>>

\* A full table of selections drops the one made longest ago.
select_for_client(c, item) ==
  LET full == c \notin DOMAIN mon.selections /\ Cardinality(DOMAIN mon.selections) >= MaxClientSelections
      oldest == CHOOSE d \in DOMAIN mon.selections :
                  \A e \in DOMAIN mon.selections : mon.selections[d].seq <= mon.selections[e].seq
      kept == IF full THEN DOMAIN mon.selections \ {oldest} ELSE DOMAIN mon.selections
  IN  [mon EXCEPT !.next_seq = @ + 1,
                  !.selections = [d \in kept \cup {c} |->
                    IF d = c THEN [item |-> item, seq |-> mon.next_seq] ELSE @[d]]]

\* A client selects a row of its screen, which may be gone from the table by now.
on_selection_changed(c, i) ==
  /\ i \in 1..Len(view[c]) /\ mon.next_seq < MaxSelects
  /\ view[c][i].item \in ItemsOf(mon.visible)
  /\ mon' = select_for_client(c, view[c][i].item)
  /\ meant' = [meant EXCEPT ![c] = view[c][i].key]
  /\ UNCHANGED <<os, sampled, table, view, kill, hits>>

\* The client's screen catches up with the table.
Deliver(c) ==
  /\ view' = [view EXCEPT ![c] = table.rows]
  /\ UNCHANGED <<os, sampled, mon, table, meant, kill, hits>>

-----------------------------------------------------------------------------
(* Kill Selected *)

Kill(c, step) == kill' = [kill EXCEPT ![c].step = step]

\* The outcome is published where every client sees it.
publish_kill_status(c, outcome) ==
  /\ kill' = [kill EXCEPT ![c] = [step |-> "none", target |-> Nothing, meant |-> Nothing, fd |-> Nothing]]
  /\ table' = [table EXCEPT !.status = outcome]

\* The selection is resolved under the lock of the application state.
on_kill_activated(c) ==
  /\ kill[c].step = "none"
  /\ LET item == mon.selections[c].item
         keys == {k \in DOMAIN mon.items : mon.items[k] = item}
         key == CHOOSE k \in keys : TRUE
     IN  IF c \notin DOMAIN mon.selections THEN publish_kill_status(c, "no selection")
         ELSE IF keys = {} THEN publish_kill_status(c, "unknown selection")
         ELSE IF key.pid \in Denylist THEN publish_kill_status(c, "denied")
         ELSE /\ kill' = [kill EXCEPT ![c] = [step |-> "resolved", target |-> key,
                                              meant |-> meant[c], fd |-> Nothing]]
              /\ UNCHANGED table
  /\ UNCHANGED <<os, sampled, mon, view, meant, hits>>

\* The identity is read again under the lock of the source.
Revalidate(c) ==
  /\ kill[c].step = "resolved"
  /\ IF start_time_of(kill[c].target.pid) # kill[c].target.start
     THEN publish_kill_status(c, "stale identity")
     ELSE Kill(c, "valid") /\ UNCHANGED table
  /\ UNCHANGED <<os, sampled, mon, view, meant, hits>>

\* pidfd_open takes the process that has the pid now.  Where the kernel knows no
\* pidfd, or has no descriptor left, plain kill(2) follows.
PidfdOpen(c, works) ==
  /\ kill[c].step = "valid"
  /\ LET pid == kill[c].target.pid
     IN  IF ~works THEN Kill(c, "plain") /\ UNCHANGED table
         ELSE IF os.running[pid].start = 0 THEN publish_kill_status(c, "failed")
         ELSE /\ kill' = [kill EXCEPT ![c].step = "open",
                                      ![c].fd = [pid |-> pid, start |-> os.running[pid].start]]
              /\ UNCHANGED table
  /\ UNCHANGED <<os, sampled, mon, view, meant, hits>>

\* A signal sent on the strength of the first look alone.
RecheckSkipped(c) == TRUE

\* With the handle open the start time is read once more.
RecheckPasses(c) == start_time_of(kill[c].target.pid) = kill[c].target.start

terminate_pidfd(c) ==
  /\ kill[c].step = "open"
  /\ IF RecheckPasses(c) THEN Kill(c, "checked") /\ UNCHANGED table
     ELSE publish_kill_status(c, "failed")
  /\ UNCHANGED <<os, sampled, mon, view, meant, hits>>

SignalProcess(c, via, process) ==
  IF process.start # 0 /\ os.running[process.pid].start = process.start
     /\ os.running[process.pid].uid = "mine"
  THEN /\ hits' = hits \cup {[via |-> via, process |-> process, meant |-> kill[c].meant]}
       /\ publish_kill_status(c, "terminated")
  ELSE UNCHANGED hits /\ publish_kill_status(c, "failed")

\* pidfd_send_signal reaches the process of the handle or nobody.
SendSignal(c) ==
  /\ kill[c].step = "checked"
  /\ SignalProcess(c, "pidfd", kill[c].fd)
  /\ UNCHANGED <<os, sampled, mon, view, meant>>

\* kill(2) reaches whoever has the pid.
PlainKill(c) ==
  /\ kill[c].step = "plain"
  /\ LET pid == kill[c].target.pid
     IN  SignalProcess(c, "kill", [pid |-> pid, start |-> os.running[pid].start])
  /\ UNCHANGED <<os, sampled, mon, view, meant>>

-----------------------------------------------------------------------------

MonitorNext ==
  \/ \E pid \in Pids : Death(pid) \/ \E uid \in Owners[pid] : Birth(pid, uid)
  \/ \E busy \in BusySets : Sample(busy)
  \/ \E ok \in BOOLEAN : Tick(ok) \/ \E show_all \in BOOLEAN : on_show_all_changed(show_all, ok)
  \/ \E c \in Viewers :
       \/ \E i \in 1..Cardinality(Pids) : on_selection_changed(c, i)
       \/ Deliver(c) \/ on_kill_activated(c) \/ Revalidate(c)
       \/ \E works \in BOOLEAN : PidfdOpen(c, works)
       \/ terminate_pidfd(c) \/ SendSignal(c) \/ PlainKill(c)

MonitorSpec == MonitorInit /\ [][MonitorNext]_monVars

-----------------------------------------------------------------------------
(* Properties *)

\* A process signalled through a pidfd is the one the client saw in the row it
\* selected, and is not protected: not one that got the pid since, whatever died,
\* started, was sampled or was selected between the click, the button and the signal.
KillsSelected ==
  \A h \in hits : /\ h.process.pid \notin Denylist
                  /\ h.via = "pidfd" => h.process = h.meant

\* The table the clients are sent is the visible processes, in order and with the
\* values of the last sample, however many rows left, came and changed at once.
TableExact ==
  /\ table.rows = mon.visible
  /\ table.show_all = mon.show_all
=============================================================================
