---------------------------- MODULE PublishPlan ----------------------------
(***************************************************************************)
(* How srtop turns the rows a client holds into the rows it should hold    *)
(* (apps/srtop/src/refresh.rs): the planned operations, the moves that     *)
(* keep item identities, the split into transactions a client accepts, and *)
(* the record the view keeps of what committed.                            *)
(*                                                                         *)
(* A row is [id, key, sort, cells, value]; sizes are upper bounds in units *)
(* of the frame.                                                           *)
(***************************************************************************)
EXTENDS Integers, SequencesExt

CONSTANTS
    Batch,            \* items one model operation may carry
    MaxPlanOps,       \* operations one transaction may carry
    MaxBytes,         \* payload one transaction may carry
    OpBytes,          \* framing and header of an operation
    IdBytes,          \* an item ID
    RowBytes,         \* a row
    TextBytes         \* a property's text

ASSUME PlanAssumption ==
    /\ Batch \in Nat \ {0} /\ MaxPlanOps \in Nat \ {0} /\ MaxBytes \in Nat
    /\ {OpBytes, IdBytes, RowBytes, TextBytes} \subseteq Nat \ {0}

Ids(rows) == {rows[i].id : i \in DOMAIN rows}
Shown(rows) == [i \in DOMAIN rows |-> [id |-> rows[i].id, value |-> rows[i].value]]

AtLeastOne(n) == IF n < 1 THEN 1 ELSE n
AtMost(n, m) == IF n < m THEN n ELSE m
ChunksOf(seq, size) ==
    [k \in 1 .. (Len(seq) + size - 1) \div size |->
        SubSeq(seq, (k - 1) * size + 1, AtMost(k * size, Len(seq)))]

-----------------------------------------------------------------------------
(* Planned operations.                                                     *)

\* Planned: an effect, and whether the next operation belongs to its unit.
Property(kind, value)  == [kind |-> kind, value |-> value, joins |-> FALSE]
DeleteRows(ids)        == [kind |-> "delete", ids |-> ids, joins |-> FALSE]
InsertRows(at, rows)   == [kind |-> "insert", at |-> at, rows |-> rows, joins |-> FALSE]
UpdateRows(rows)       == [kind |-> "update", rows |-> rows, joins |-> FALSE]

\* Effect::payload_bytes with the operation's framing and header.
Bytes(op) ==
    OpBytes + CASE op.kind = "delete" -> Len(op.ids) * IdBytes
                [] op.kind \in {"insert", "update"} -> Len(op.rows) * RowBytes
                [] OTHER -> TextBytes

\* What one operation may spend on items.
Budget == AtLeastOne(MaxBytes - OpBytes)
IdsPerOp  == AtLeastOne(AtMost(Batch, Budget \div IdBytes))
RowsPerOp == AtLeastOne(AtMost(Batch, Budget \div RowBytes))

\* Mutant: a unit of moves may be cut between its deletions and insertions.
JoinedNever(ops) == ops

\* All but the last operation join the one after them.
Joined(ops) == [i \in DOMAIN ops |-> [ops[i] EXCEPT !.joins = i < Len(ops)]]

-----------------------------------------------------------------------------
(* Moves.                                                                  *)

\* longest_increasing, by patience sorting: the values left in place.
LongestIncreasing(seq) ==
    LET Step(acc, position) ==
            LET length == Cardinality({k \in DOMAIN acc.tails :
                                           seq[acc.tails[k]] < seq[position]})
            IN  [tails    |-> [k \in DOMAIN acc.tails \cup {length + 1} |->
                                  IF k = length + 1 THEN position ELSE acc.tails[k]],
                 previous |-> Append(acc.previous,
                                     IF length = 0 THEN 0 ELSE acc.tails[length])]
        piles == FoldLeftDomain(Step, [tails |-> <<>>, previous |-> <<>>], seq)
        chain[position \in 0 .. Len(seq)] ==
            IF position = 0 THEN {}
            ELSE {seq[position]} \cup chain[piles.previous[position]]
    IN  chain[IF piles.tails = <<>> THEN 0 ELSE piles.tails[Len(piles.tails)]]

NoAnchor == 0
MoveUnit == [runs |-> <<>>, moved |-> 0]

\* place_runs: the run anchored after `anchor`, then any anchored after its last row.
RunsAfter(anchor, runs) ==
    LET chain[n \in 0 .. Len(runs)] ==
            IF n = 0 THEN <<>>
            ELSE LET got  == chain[n - 1]
                     last == IF got = <<>> THEN anchor ELSE Last(Last(got).rows).id
                     next == SelectSeq(runs, LAMBDA run : run.anchor = last)
                 IN  IF Len(got) = n - 1 THEN got \o next ELSE got
    IN  chain[Len(runs)]

Place(acc, runs) ==
    FoldLeft(LAMBDA a, run : [rows    |-> a.rows \o run.rows,
                              inserts |-> Append(a.inserts, InsertRows(Len(a.rows), run.rows))],
             acc, runs)

\* flush_moves: one unit's deletions, then its reinsertions at their final index.
FlushMoves(unit, moves) ==
    LET ids     == FoldLeft(LAMBDA a, run : a \o [i \in DOMAIN run.rows |-> run.rows[i].id],
                            <<>>, unit.runs)
        deletes == [k \in DOMAIN ChunksOf(ids, IdsPerOp) |-> DeleteRows(ChunksOf(ids, IdsPerOp)[k])]
        stay    == SelectSeq(moves.rows, LAMBDA row : row.id \notin Range(ids))
        front   == Place([rows |-> <<>>, inserts |-> <<>>], RunsAfter(NoAnchor, unit.runs))
        placed  == FoldLeft(LAMBDA a, row : Place([a EXCEPT !.rows = Append(@, row)],
                                                  RunsAfter(row.id, unit.runs)),
                            front, stay)
        ops     == deletes \o placed.inserts
    IN  [plan |-> moves.plan \o (IF MaxPlanOps >= 2 THEN Joined(ops) ELSE ops),
         rows |-> placed.rows]

\* A row continues the last run if it follows that run's last row and fits it.
Extends(unit, rank) ==
    /\ unit.runs # <<>>
    /\ Last(unit.runs).last = rank - 1
    /\ Len(Last(unit.runs).rows) < RowsPerOp

\* The unit would not fit one transaction with one more row in `runs` runs.
Overfull(unit, runs) ==
    LET moved     == unit.moved + 1
        deletions == (moved + IdsPerOp - 1) \div IdsPerOp
    IN  /\ unit.moved > 0 /\ MaxPlanOps >= 2
        /\ \/ deletions + runs > MaxPlanOps
           \/ (deletions + runs) * OpBytes + moved * (IdBytes + RowBytes) > MaxBytes

\* The last unit is flushed when every row has its place.
Flushed(end) == IF end.unit.moved = 0 THEN end.moves ELSE FlushMoves(end.unit, end.moves)

\* The rows of `order`, all of them published, put in that order.
MovesInto(order, published) ==
    LET rank(id) == CHOOSE i \in DOMAIN order : order[i].id = id
        shared == SelectSeq(published, LAMBDA row : row.id \in Ids(order))
        kept == LongestIncreasing([i \in DOMAIN shared |-> rank(shared[i].id)])
        Added(unit, i, extends) ==
            [moved |-> unit.moved + 1,
             runs  |-> IF extends
                       THEN [unit.runs EXCEPT ![Len(unit.runs)] =
                                 [@ EXCEPT !.rows = Append(@, order[i]), !.last = i]]
                       ELSE Append(unit.runs,
                                   [anchor |-> IF i = 1 THEN NoAnchor ELSE order[i - 1].id,
                                    rows |-> <<order[i]>>, last |-> i])]
        Step(acc, i) ==
            LET extends == Extends(acc.unit, i)
                runs    == Len(acc.unit.runs) + IF extends THEN 0 ELSE 1
            IN  IF i \in kept THEN acc
                ELSE IF Overfull(acc.unit, runs)
                THEN [unit |-> Added(MoveUnit, i, FALSE), moves |-> FlushMoves(acc.unit, acc.moves)]
                ELSE [acc EXCEPT !.unit = Added(@, i, extends)]
        start == [unit |-> MoveUnit, moves |-> [plan |-> <<>>, rows |-> published]]
    IN  Flushed(FoldLeftDomain(Step, start, order))

\* plan_moves: the rows `published` and `target` share, put in target's order.
PlanMoves(published, target) ==
    MovesInto(SelectSeq(target, LAMBDA row : row.id \in Ids(published)), published)

-----------------------------------------------------------------------------
(* The difference.                                                         *)

\* Rows already in ascending target position stay; the others are deleted.
Retained(published, target) ==
    LET position(id) == CHOOSE i \in DOMAIN target : target[i].id = id
        Step(acc, row) ==
            IF row.id \notin Ids(target) \/ position(row.id) < acc.highest THEN acc
            ELSE [highest |-> position(row.id), ids |-> acc.ids \cup {row.id}]
    IN  FoldLeft(Step, [highest |-> 0, ids |-> {}], published).ids

\* Consecutive rows to insert, each run at its final index.
InsertRuns(target, retained) ==
    LET Step(runs, i) ==
            IF target[i].id \in retained THEN runs
            ELSE IF /\ runs # <<>>
                    /\ Last(runs).at + Len(Last(runs).rows) = i - 1
                    /\ Len(Last(runs).rows) < RowsPerOp
            THEN [runs EXCEPT ![Len(runs)].rows = Append(@, target[i])]
            ELSE Append(runs, InsertRows(i - 1, <<target[i]>>))
    IN  FoldLeftDomain(Step, <<>>, target)

\* diff: deletions first, so that an insertion index is the row's final one.
Diff(published, target) ==
    LET retained == Retained(published, target)
        value(id) == published[CHOOSE i \in DOMAIN published : published[i].id = id].value
        gone    == SelectSeq(published, LAMBDA row : row.id \notin retained)
        goneIds == ChunksOf([i \in DOMAIN gone |-> gone[i].id], IdsPerOp)
        changed == SelectSeq(target, LAMBDA row : row.id \in retained /\ value(row.id) # row.value)
        updates == ChunksOf(changed, RowsPerOp)
    IN  [k \in DOMAIN goneIds |-> DeleteRows(goneIds[k])]
        \o InsertRuns(target, retained)
        \o [k \in DOMAIN updates |-> UpdateRows(updates[k])]

-----------------------------------------------------------------------------
(* Transactions.                                                           *)

BytesOf(plan, n) == FoldLeft(LAMBDA total, op : total + Bytes(op), 0, SubSeq(plan, 1, n))

\* commit: the operations of the next transaction. It is never cut inside a
\* joined unit, unless the unit is all it holds.
ChunkLength(plan) ==
    LET fitting == {n \in 1 .. AtMost(MaxPlanOps, Len(plan)) : n = 1 \/ BytesOf(plan, n) <= MaxBytes}
        end     == CHOOSE n \in fitting : \A m \in fitting : m <= n
        cuts    == {n \in 1 .. end : ~plan[n].joins}
        whole   == {n \in end .. Len(plan) : ~plan[n].joins \/ n = Len(plan)}
    IN  IF end = Len(plan) \/ ~plan[end].joins THEN end
        ELSE IF cuts # {} THEN CHOOSE n \in cuts : \A m \in cuts : m <= n
        ELSE CHOOSE n \in whole : \A m \in whole : n <= m

Spliced(rows, at, added) ==
    SubSeq(rows, 1, at) \o added \o SubSeq(rows, at + 1, Len(rows))

\* The store applies a transaction's operations one after the other.
StoreApply(content, op) ==
    CASE op.kind = "delete" ->
             [content EXCEPT !.rows = SelectSeq(@, LAMBDA row : row.id \notin Range(op.ids))]
      [] op.kind = "insert" ->
             [content EXCEPT !.rows = Spliced(@, op.at, Shown(op.rows))]
      [] op.kind = "update" ->
             [content EXCEPT !.rows = [i \in DOMAIN @ |->
                 IF @[i].id \in Ids(op.rows)
                 THEN Shown(op.rows)[CHOOSE j \in DOMAIN op.rows : op.rows[j].id = @[i].id]
                 ELSE @[i]]]
      [] op.kind = "sortLabel" ->
             [content EXCEPT !.sortLabel[op.value.field] = op.value.direction]
      [] op.kind = "summary" -> [content EXCEPT !.summary[op.value.line] = op.value.is]
      [] op.kind = "chooser" -> [content EXCEPT !.chooser[op.value.action][op.value.part] = op.value.is]
      [] OTHER -> [content EXCEPT ![op.kind] = op.value]

\* Effect::record, for everything but an insertion.
Record(published, op) ==
    CASE op.kind = "delete" ->
             [published EXCEPT !.rows = SelectSeq(@, LAMBDA row : row.id \notin Range(op.ids))]
      [] op.kind = "update" ->
             [published EXCEPT !.rows = [i \in DOMAIN @ |->
                 IF @[i].id \in Ids(op.rows)
                 THEN op.rows[CHOOSE j \in DOMAIN op.rows : op.rows[j].id = @[i].id]
                 ELSE @[i]]]
      [] op.kind = "sortLabel" /\ op.value.active -> [published EXCEPT !.sort = op.value.order]
      [] op.kind = "summary" -> [published EXCEPT !.summary[op.value.line] = op.value.is]
      [] op.kind \in {"status", "filterStatus", "columns"} ->
             [published EXCEPT ![op.kind] = op.value]
      [] OTHER -> published

\* insert_run: insertions at ascending indices, merged in one pass.
InsertRun(rows, inserts) ==
    LET Step(acc, op) ==
            LET take == AtMost(AtLeastOne(op.at - Len(acc.merged) + 1) - 1, Len(acc.rest))
            IN  [merged |-> acc.merged \o SubSeq(acc.rest, 1, take) \o op.rows,
                 rest   |-> SubSeq(acc.rest, take + 1, Len(acc.rest))]
        end == FoldLeft(Step, [merged |-> <<>>, rest |-> rows], inserts)
    IN  end.merged \o end.rest

\* Whether an insertion continues the run of insertions before it.
Ascends(run, op) ==
    \/ run = <<>>
    \/ op.at >= Last(run).at + Len(Last(run).rows)

\* record_committed
RecordCommitted(published, chunk) ==
    LET Merge(acc) == [published |-> [acc.published EXCEPT !.rows = InsertRun(@, acc.run)],
                       run |-> <<>>]
        Step(acc, op) ==
            IF op.kind = "insert"
            THEN LET open == IF Ascends(acc.run, op) THEN acc ELSE Merge(acc)
                 IN  [open EXCEPT !.run = Append(@, op)]
            ELSE [published |-> Record(Merge(acc).published, op), run |-> <<>>]
    IN  Merge(FoldLeft(Step, [published |-> published, run |-> <<>>], chunk)).published
=============================================================================
