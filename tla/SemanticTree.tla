---------------------------- MODULE SemanticTree ----------------------------
(***************************************************************************)
(* The semantic store: an ordered forest of nodes, identities that are     *)
(* never used again, and the collection models the nodes refer to.  The    *)
(* server commits transactions to it under the session's lock; a replica   *)
(* applies what the wire carries of them, or a snapshot of the whole tree. *)
(* Of a node's properties only the reference to a model is kept; any other *)
(* value is just within the limits on values or not.                       *)
(***************************************************************************)
EXTENDS CollectionModel, Sublists, TLC

CONSTANTS NodeIds, ModelIds, \* 0 is not an identity: the wire says "no parent" with it
          MaxDepth,          \* max_tree_depth
          MaxNodes,          \* max_node_count
          MaxModels,         \* max_model_count
          MaxOps,            \* max_transaction_operations
          WireMax,           \* u32::MAX and u64::MAX, which say "no index"
          MaxItems,          \* bound: the items a model counts, and the last position of one
          Swallows           \* whether closures go on after an operation was refused

ASSUME TreeAssumption ==
    /\ NodeIds \subseteq Nat \ {0} /\ ModelIds \subseteq Nat \ {0}
    /\ MaxDepth \in Nat /\ MaxNodes \in Nat /\ MaxModels \in Nat /\ MaxOps \in Nat
    /\ WireMax \in Nat /\ Swallows \in BOOLEAN

VARIABLES store,    \* the session's committed store
          replica,  \* the client's copy
          link      \* "following", "away", "diverged", "refused" or "unrepresentable"

treeVars == <<store, replica, link>>

EmptyStore == [nodes |-> [n \in {} |-> 0], roots |-> <<>>, used |-> {},
               models |-> [m \in {} |-> 0], usedModels |-> {}]

Done(s) == [ok |-> TRUE, store |-> s]
Failed(s) == [ok |-> FALSE, store |-> s]

NoRef == 0
Plain == [ref |-> NoRef, fits |-> TRUE]   \* a value that is not a model reference

-----------------------------------------------------------------------------
(* The forest.                                                             *)

Siblings(s, p) == IF p = None THEN s.roots ELSE s.nodes[p].children
Relink(s, p, ids) == IF p = None THEN [s EXCEPT !.roots = ids]
                     ELSE [s EXCEPT !.nodes[p].children = ids]

\* A node and those above it, one step up at a time.
Lineage(s, id) ==
    LET up[k \in 0 .. Cardinality(DOMAIN s.nodes)] ==
            IF k = 0 THEN id
            ELSE IF up[k - 1] \in DOMAIN s.nodes THEN s.nodes[up[k - 1]].parent ELSE None
    IN  up

node_depth(s, id) == LET up == Lineage(s, id) IN Cardinality({k \in DOMAIN up : up[k] # None})

DepthBelow(s, p) == IF p = None THEN 0 ELSE node_depth(s, p)

Subtree(s, id) == {n \in DOMAIN s.nodes :
                      \E k \in DOMAIN Lineage(s, n) : Lineage(s, n)[k] = id}

subtree_depth(s, id) ==
    LET down == {node_depth(s, n) - node_depth(s, id) + 1 : n \in Subtree(s, id)}
    IN  CHOOSE d \in down : \A e \in down : e <= d

\* Strings, lists, records and nesting within the limits.
validate_value(v) == v.fits
validate_property_references(s, v) == v.ref = NoRef \/ v.ref \in DOMAIN s.models
ValueAccepted(s, v) == validate_value(v) /\ validate_property_references(s, v)

\* A slot among siblings: none is the last one.
Slot(ids, at) == IF at = None \/ at > Len(ids) THEN Len(ids) + 1 ELSE at + 1

create_node(s, op) ==
    IF \/ op.id \in s.used
       \/ Cardinality(DOMAIN s.nodes) >= MaxNodes
       \/ op.parent # None /\ op.parent \notin DOMAIN s.nodes
       \/ DepthBelow(s, op.parent) + 1 > MaxDepth
       \/ ~ValueAccepted(s, op.value)
       \/ op.at # None /\ op.at > Len(Siblings(s, op.parent))
    THEN Failed(s)
    ELSE LET ids == Siblings(s, op.parent)
             linked == Relink(s, op.parent, InsertAt(ids, Slot(ids, op.at), op.id))
         IN  Done([linked EXCEPT
                     !.nodes = Put(@, op.id, [parent |-> op.parent, children |-> <<>>,
                                              ref |-> op.value.ref]),
                     !.used = @ \cup {op.id}])

Unlink(s, id) ==
    LET p == s.nodes[id].parent
        ids == Siblings(s, p)
    IN  Relink(s, p, SelectIn(ids, ToSet(ids) \ {id}))

\* The node and everything under it; the identities stay used.
delete_node(s, op) ==
    IF op.id \notin DOMAIN s.nodes THEN Failed(s)
    ELSE Done([Unlink(s, op.id) EXCEPT !.nodes = Drop(@, Subtree(s, op.id))])

set_property(s, op) ==
    IF ~ValueAccepted(s, op.value) \/ op.id \notin DOMAIN s.nodes THEN Failed(s)
    ELSE Done(IF op.value.ref = NoRef THEN s ELSE [s EXCEPT !.nodes[op.id].ref = op.value.ref])

clear_property(s, op) ==
    IF op.id \notin DOMAIN s.nodes THEN Failed(s)
    ELSE Done([s EXCEPT !.nodes[op.id].ref = NoRef])

\* All the values are accepted before the first is set.
batch_property_set(s, op) ==
    IF (\E v \in ToSet(op.values) : ~ValueAccepted(s, v)) \/ op.id \notin DOMAIN s.nodes
    THEN Failed(s)
    ELSE Done(FoldLeft(LAMBDA t, v : set_property(t, [id |-> op.id, value |-> v]).store,
                       s, op.values))

\* Neither the node itself nor anything under it becomes its parent.
CycleDetected(s, id, target) == target \in Subtree(s, id)

\* A mutation: the node is counted and what hangs from it is not.
DepthOfNode(s, id, target) == DepthBelow(s, target) + 1

new_total_depth(s, id, target) == DepthBelow(s, target) + subtree_depth(s, id)

\* The index is checked before the node leaves its place, and cut down after.
move_node(s, op) ==
    IF \/ op.id \notin DOMAIN s.nodes
       \/ CycleDetected(s, op.id, op.parent)
       \/ op.parent # None /\ op.parent \notin DOMAIN s.nodes
       \/ new_total_depth(s, op.id, op.parent) > MaxDepth
       \/ op.at # None /\ op.at > Len(Siblings(s, op.parent))
    THEN Failed(s)
    ELSE LET out == Unlink(s, op.id)
             ids == Siblings(out, op.parent)
         IN  Done([Relink(out, op.parent, InsertAt(ids, Slot(ids, op.at), op.id))
                     EXCEPT !.nodes[op.id].parent = op.parent])

\* A permutation of the children there are.
reorder_children(s, op) ==
    IF \/ op.id \notin DOMAIN s.nodes
       \/ Len(op.order) # Len(s.nodes[op.id].children)
       \/ ToSet(op.order) # ToSet(s.nodes[op.id].children)
    THEN Failed(s)
    ELSE Done([s EXCEPT !.nodes[op.id].children = op.order])

-----------------------------------------------------------------------------
(* Operations on models, and any operation.                                *)

create_model(s, op) ==
    IF op.id \in s.usedModels \/ Cardinality(DOMAIN s.models) >= MaxModels THEN Failed(s)
    ELSE Done([s EXCEPT !.models = Put(@, op.id, NewModel(op.count)),
                        !.usedModels = @ \cup {op.id}])

Changed(m, op) ==
    CASE op.kind = "model_insert" -> insert_items(m, op.at, op.items)
      [] op.kind = "model_delete" -> delete_items(m, op.at, op.count, op.ids)
      [] op.kind = "model_update" -> update_items(m, op.at, op.items)
      [] op.kind = "model_reset_range" -> reset_range(m, op.at, op.items, op.count)

OnModel(s, op) ==
    IF op.id \notin DOMAIN s.models THEN Failed(s)
    ELSE LET r == Changed(s.models[op.id], op)
         IN  [ok |-> r.ok, store |-> [s EXCEPT !.models[op.id] = r.model]]

apply(s, op) ==
    CASE op.kind = "create_node" -> create_node(s, op)
      [] op.kind = "delete_node" -> delete_node(s, op)
      [] op.kind = "set_property" -> set_property(s, op)
      [] op.kind = "clear_property" -> clear_property(s, op)
      [] op.kind = "batch_property_set" -> batch_property_set(s, op)
      [] op.kind = "move_node" -> move_node(s, op)
      [] op.kind = "reorder_children" -> reorder_children(s, op)
      [] op.kind = "create_model" -> create_model(s, op)
      [] OTHER -> OnModel(s, op)

-----------------------------------------------------------------------------
(* The wire: optional fields are values that stand for none.               *)

\* A mutation: a missing index is sent as the first one.
IndexDefaulted(at) == IF at = None THEN 0 ELSE at

WireIndex(at) == IF at = None THEN WireMax ELSE at

OnWire(op) ==
    CASE op.kind \in {"create_node", "move_node"} ->
            [op EXCEPT !.at = WireIndex(@), !.parent = IF @ = None THEN 0 ELSE @]
      [] op.kind = "model_update" -> [op EXCEPT !.at = WireIndex(@)]
      [] op.kind = "model_delete" -> [op EXCEPT !.at = IF @ = None THEN 0 ELSE @]
      [] OTHER -> op

ModelFromWire(op) ==
    CASE op.kind = "model_update" -> [op EXCEPT !.at = IF @ = WireMax THEN None ELSE @]
      [] op.kind = "model_delete" -> [op EXCEPT !.at = IF op.count > 0 THEN @ ELSE None]
      [] OTHER -> op

FromWire(op) ==
    IF op.kind \in {"create_node", "move_node"}
    THEN [op EXCEPT !.at = IF @ = WireMax THEN None ELSE @,
                    !.parent = IF @ = 0 THEN None ELSE @]
    ELSE ModelFromWire(op)

Delivered(op) == FromWire(OnWire(op))

\* A replica takes all the operations of a transaction or none.
apply_staged(s, ops) ==
    LET step(acc, op) == IF acc.ok THEN apply(acc.store, op) ELSE acc
        end == FoldLeft(step, Done(s), ops)
    IN  IF Len(ops) > MaxOps \/ ~end.ok THEN Failed(s) ELSE end

-----------------------------------------------------------------------------
(* The snapshot of a store.                                                *)

\* A mutation: what is left of a range after whole pieces is not sent.
WholePieces(range) == (range.end - range.start + 1) \div MaxBatch

Pieces(range) == (range.end - range.start) \div MaxBatch + 1

\* A cached range in pieces of at most one operation's items.
RangeOps(id, m, range) ==
    LET from(k) == range.start + (k - 1) * MaxBatch
        till(k) == IF from(k) + MaxBatch - 1 < range.end THEN from(k) + MaxBatch - 1
                   ELSE range.end
    IN  [k \in 1 .. Pieces(range) |->
            [kind |-> "model_reset_range", id |-> id, at |-> from(k), count |-> 0,
             items |-> [i \in 1 .. till(k) - from(k) + 1 |-> m.items[from(k) + i - 1]]]]

ModelOps(s, id) ==
    LET ranges == SetToSortSeq(cached_ranges(s.models[id]), LAMBDA a, b : a.start < b.start)
    IN  <<[kind |-> "create_model", id |-> id, count |-> s.models[id].count]>>
        \o FlattenSeq([r \in DOMAIN ranges |-> RangeOps(id, s.models[id], ranges[r])])

\* A node before its children, each with its place among its siblings.
visit_nodes(s) ==
    LET visit[n \in DOMAIN s.nodes] ==
            LET ids == s.nodes[n].children
            IN  <<n>> \o FlattenSeq([i \in DOMAIN ids |-> visit[ids[i]]])
        order == FlattenSeq([i \in DOMAIN s.roots |-> visit[s.roots[i]]])
        place(n) == CHOOSE i \in DOMAIN Siblings(s, s.nodes[n].parent) :
                       Siblings(s, s.nodes[n].parent)[i] = n
    IN  [k \in DOMAIN order |->
            [kind |-> "create_node", id |-> order[k], parent |-> s.nodes[order[k]].parent,
             at |-> place(order[k]) - 1, value |-> [Plain EXCEPT !.ref = s.nodes[order[k]].ref]]]

export_snapshot(s) ==
    LET ids == SetToSortSeq(DOMAIN s.models, <)
    IN  FlattenSeq([i \in DOMAIN ids |-> ModelOps(s, ids[i])]) \o visit_nodes(s)

-----------------------------------------------------------------------------
(* The session's commits and the client's copy.                            *)

(* A transaction's closure runs on a staged copy.  UiTransaction writes an *)
(* operation down before it tries it, so one whose refusal the closure     *)
(* swallows is in the transaction all the same; one past the limit is not. *)
UiTransaction == [staged |-> store, written |-> <<>>, ok |-> TRUE]

record_op(ui) == Len(ui.written) < MaxOps

Attempt(ui, op) ==
    CASE ~ui.ok /\ ~Swallows -> ui
      [] (ui.ok \/ Swallows) /\ ~record_op(ui) -> [ui EXCEPT !.ok = FALSE]
      [] OTHER -> LET r == apply(ui.staged, op)
                  IN  [staged |-> r.store, written |-> Append(ui.written, op), ok |-> r.ok]

Closure(ops) == FoldLeft(Attempt, UiTransaction, ops)

\* The bound of the model, not of the code: neither counts nor positions grow on.
WithinBound(s) == \A m \in DOMAIN s.models :
    s.models[m].count <= MaxItems /\ DOMAIN s.models[m].items \subseteq 0 .. MaxItems

DeliveredAll(ops) == [k \in DOMAIN ops |-> Delivered(ops[k])]

\* What a commit publishes, as a replica that follows takes it.
apply_delivered_transaction(ops) ==
    LET got == apply_staged(replica, DeliveredAll(ops))
    IN  IF link # "following" THEN UNCHANGED <<replica, link>>
        ELSE /\ replica' = got.store
             /\ link' = IF got.ok THEN link ELSE "diverged"

\* An error of the closure discards the staged copy.
transaction(ops) ==
    LET ui == Closure(ops)
    IN  /\ ui.ok \/ Swallows
        /\ WithinBound(ui.staged)
        /\ store' = ui.staged
        /\ apply_delivered_transaction(ui.written)

\* A transaction given as a message: decoded, and committed whole or not at all.
commit_transaction(ops) ==
    LET prepared == apply_staged(store, DeliveredAll(ops))
    IN  /\ prepared.ok
        /\ WithinBound(prepared.store)
        /\ store' = prepared.store
        /\ apply_delivered_transaction(DeliveredAll(ops))

\* The client goes, or drops its copy to be sent a snapshot.
Detach ==
    /\ link # "away"
    /\ link' = "away" /\ replica' = EmptyStore
    /\ UNCHANGED store

Resync ==
    /\ link = "away"
    /\ LET ops == export_snapshot(store)
           got == apply_staged(EmptyStore, DeliveredAll(ops))
       IN  IF Len(ops) > MaxOps
           THEN link' = "unrepresentable" /\ UNCHANGED replica
           ELSE /\ link' = IF got.ok THEN "following" ELSE "refused"
                /\ replica' = got.store
    /\ UNCHANGED store

TreeInit == store = EmptyStore /\ replica = EmptyStore /\ link = "following"

TreeNext(transactions) ==
    \/ \E ops \in transactions : transaction(ops)
    \/ \E ops \in transactions : commit_transaction(ops)
    \/ Detach
    \/ Resync

-----------------------------------------------------------------------------
(* Properties.                                                             *)

SameTree(s, t) == s.nodes = t.nodes /\ s.roots = t.roots /\ s.models = t.models

WellFormed(s) ==
    /\ Cardinality(DOMAIN s.nodes) <= MaxNodes /\ DOMAIN s.nodes \subseteq s.used
    /\ \A p \in DOMAIN s.nodes \cup {None} :
          /\ IsInjective(Siblings(s, p))
          /\ ToSet(Siblings(s, p)) = {n \in DOMAIN s.nodes : s.nodes[n].parent = p}
    /\ \A n \in DOMAIN s.nodes :
          /\ \E k \in DOMAIN Lineage(s, n) : Lineage(s, n)[k] = None
          /\ node_depth(s, n) <= MaxDepth
          /\ s.nodes[n].ref # NoRef => s.nodes[n].ref \in DOMAIN s.models
    /\ \A m \in DOMAIN s.models : IndexExact(s.models[m]) /\ Cached(s.models[m]) <= MaxCached

(* Whatever the order of operations, the committed store is a forest: the  *)
(* parent a node names and the children lists agree, every node hangs from *)
(* a root, the limits hold, references are to live models, and both maps   *)
(* of a model's cache tell the same items.                                 *)
TreeWellFormed == WellFormed(store)

(* A replica that follows has the server's tree and models after every     *)
(* commit and every snapshot, although it decodes operations from the wire *)
(* and has forgotten the identities of deleted nodes; it never refuses a   *)
(* commit of closures that give up on an error.                            *)
ReplicaSame == link # "diverged" /\ (link = "following" => SameTree(store, replica))

(* A snapshot that is taken gives the tree, the places among siblings and  *)
(* the caches back exactly; the identities of deleted nodes and models are *)
(* all that is lost with it.                                               *)
SnapshotExact ==
    LET got == apply_staged(EmptyStore, DeliveredAll(export_snapshot(store)))
    IN  got.ok => got.store = [store EXCEPT !.used = DOMAIN store.nodes,
                                            !.usedModels = DOMAIN store.models]

(* A snapshot that is sent is one the replica can take: what it cannot is  *)
(* found by the server, before it is on the wire.                          *)
SnapshotAccepted == link # "refused"
=============================================================================
