-------------------------- MODULE CollectionModel ---------------------------
(***************************************************************************)
(* A collection model: how many items it has, the sparse cache of them by  *)
(* position and the reverse index by item identity, both kept by hand.  An *)
(* operation returns whether it was accepted and the model it leaves,      *)
(* which a refused one may have changed on the way.  Item values are left  *)
(* out: an item is its identity.                                           *)
(***************************************************************************)
EXTENDS Integers, FiniteSets, SequencesExt

CONSTANTS MaxCached,  \* max_cached_items_per_model
          MaxBatch    \* max_items_per_model_operation

ASSUME ModelAssumption == MaxCached \in Nat /\ MaxBatch \in Nat

None == -1

Accept(m) == [ok |-> TRUE, model |-> m]
Refuse(m) == [ok |-> FALSE, model |-> m]

NewModel(count) == [count |-> count, items |-> [i \in {} |-> 0], index |-> [x \in {} |-> 0]]

Drop(f, keys) == [k \in DOMAIN f \ keys |-> f[k]]
Put(f, k, v) == [x \in DOMAIN f \cup {k} |-> IF x = k THEN v ELSE f[x]]

\* Takes what is cached at the positions out of both maps.
Forget(m, positions) ==
    [m EXCEPT !.items = Drop(@, positions),
              !.index = Drop(@, {m.items[i] : i \in positions \cap DOMAIN m.items})]

\* Caches the items from a position on.
Store(m, start, items) ==
    [m EXCEPT !.items = [i \in DOMAIN @ \cup (start .. start + Len(items) - 1) |->
                            IF i \in start .. start + Len(items) - 1
                            THEN items[i - start + 1] ELSE @[i]],
              !.index = [x \in DOMAIN @ \cup ToSet(items) |->
                            IF x \in ToSet(items)
                            THEN start + (CHOOSE k \in DOMAIN items : items[k] = x) - 1
                            ELSE @[x]]]

shift_cached_indices(m, from, delta) ==
    LET moved == {i \in DOMAIN m.items : i >= from}
    IN  [m EXCEPT !.items = [i \in (DOMAIN @ \ moved) \cup {j + delta : j \in moved} |->
                                IF i - delta \in moved THEN @[i - delta] ELSE @[i]],
                  !.index = [x \in DOMAIN @ |->
                                IF x \in {m.items[i] : i \in moved}
                                THEN (CHOOSE i \in moved : m.items[i] = x) + delta ELSE @[x]]]

Cached(m) == Cardinality(DOMAIN m.items)

\* MODEL_INSERT
insert_items(m, at, items) ==
    IF \/ Len(items) > MaxBatch \/ Cached(m) + Len(items) > MaxCached
       \/ at > m.count
       \/ ToSet(items) \cap DOMAIN m.index # {} \/ ~IsInjective(items)
    THEN Refuse(m)
    ELSE Accept([Store(shift_cached_indices(m, at, Len(items)), at, items)
                    EXCEPT !.count = @ + Len(items)])

\* One identity of MODEL_DELETE: an uncached item is counted out all the same.
DeleteIdentity(m, x) ==
    LET fewer == [m EXCEPT !.count = IF @ > 0 THEN @ - 1 ELSE 0]
    IN  IF x \notin DOMAIN m.index THEN fewer
        ELSE shift_cached_indices([fewer EXCEPT !.items = Drop(@, {m.index[x]}),
                                                !.index = Drop(@, {x})],
                                  m.index[x] + 1, -1)

\* MODEL_DELETE: by identities, or by a range, never both.
delete_items(m, at, count, ids) ==
    LET from == IF at = None THEN 0 ELSE at
        inRange == {i \in DOMAIN m.items : from <= i /\ i < from + count}
    IN  CASE Len(ids) > MaxBatch \/ (count > 0 /\ ids # <<>>) -> Refuse(m)
          [] count = 0 /\ Len(ids) \in 1 .. MaxBatch -> Accept(FoldLeft(DeleteIdentity, m, ids))
          [] count > 0 /\ ids = <<>> /\ from + count > m.count -> Refuse(m)
          [] count > 0 /\ ids = <<>> /\ from + count <= m.count ->
                Accept([shift_cached_indices(Forget(m, inRange), from + count, -count)
                           EXCEPT !.count = @ - count])
          [] OTHER -> Accept(m)

\* A positional update moves the identity here and forgets what was here.
PutAt(m, at, x) ==
    LET old == IF x \in DOMAIN m.index THEN {m.index[x]} \ {at} ELSE {}
    IN  Store(Forget(m, old \cup {at}), at, <<x>>)

\* MODEL_UPDATE: item by item; one that is refused leaves the earlier ones done.
update_items(m, at, items) ==
    LET one(acc, k) ==
            CASE ~acc.ok -> acc
              [] acc.ok /\ at # None ->
                    IF at + k - 1 >= m.count THEN Refuse(acc.model)
                    ELSE Accept(PutAt(acc.model, at + k - 1, items[k]))
              [] OTHER -> IF items[k] \in DOMAIN acc.model.index THEN acc ELSE Refuse(acc.model)
    IN  IF Len(items) > MaxBatch THEN Refuse(m)
        ELSE FoldLeft(one, Accept(m), [k \in DOMAIN items |-> k])

\* Distance first, then the lower index: the same on every replica.
FartherOut(mid, i, j) ==
    LET d(x) == IF x > mid THEN x - mid ELSE mid - x
    IN  d(i) > d(j) \/ (d(i) = d(j) /\ i < j)

evict_farthest_outside(m, start, end, count) ==
    LET mid == start + (end - start) \div 2
        outside == {i \in DOMAIN m.items : i < start \/ i >= end}
        rank(i) == Cardinality({j \in outside : FartherOut(mid, j, i)})
    IN  Forget(m, {i \in outside : rank(i) < count})

\* MODEL_RESET_RANGE: eviction and the new total count come before the checks.
reset_range(m, start, items, total) ==
    LET end == start + Len(items)
        kept(x) == Cardinality({i \in DOMAIN x.items : i < start \/ i >= end}) + Len(items)
        evicted == IF kept(m) <= MaxCached THEN m
                   ELSE evict_farthest_outside(m, start, end, kept(m) - MaxCached)
        counted == IF total > 0 THEN [evicted EXCEPT !.count = total] ELSE evicted
        elsewhere == {x \in ToSet(items) : x \in DOMAIN counted.index
                                           /\ counted.index[x] \notin start .. end - 1}
    IN  CASE Len(items) > MaxBatch -> Refuse(m)
          [] Len(items) <= MaxBatch /\ kept(evicted) > MaxCached -> Refuse(evicted)
          [] OTHER -> IF end > counted.count \/ ~IsInjective(items) \/ elsewhere # {}
                      THEN Refuse(counted)
                      ELSE Accept(Store(Forget(counted, start .. end - 1), start, items))

\* Where a contiguous run of cached positions begins.
RunStarts(m) == {i \in DOMAIN m.items : i - 1 \notin DOMAIN m.items}
cached_ranges(m) ==
    LET end(i) == CHOOSE e \in i .. m.count + i + Cached(m) :
                     /\ e + 1 \notin DOMAIN m.items
                     /\ \A k \in i .. e : k \in DOMAIN m.items
    IN  {[start |-> i, end |-> end(i)] : i \in RunStarts(m)}

\* items and id_to_index are each other's inverse.
IndexExact(m) ==
    /\ \A i \in DOMAIN m.items : m.items[i] \in DOMAIN m.index /\ m.index[m.items[i]] = i
    /\ \A x \in DOMAIN m.index : m.index[x] \in DOMAIN m.items /\ m.items[m.index[x]] = x
=============================================================================
