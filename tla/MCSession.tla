----------------------------- MODULE MCSession ------------------------------
(***************************************************************************)
(* The services of a session that meet only in its lock: sparse            *)
(* collections, resources, and the authoritative tree with the replica     *)
(* that follows it.  One behaviour explores one of them.                   *)
(***************************************************************************)
EXTENDS ModelRanges, Resources, SemanticTree

VARIABLE focus  \* the service this behaviour explores

MCModelOf == [t1 |-> "m1", t2 |-> "m1", t3 |-> "m2"]
MCWindows == {[start |-> 0, count |-> 1, observed |-> 0],
              [start |-> 1, count |-> 1, observed |-> 0],
              [start |-> 2, count |-> 1, observed |-> 1]}

MCChunks == [i |-> 0, j |-> 1, k |-> 2, l |-> 3]

----------------------------------------------------------------------------
(* The transactions of the tree *)

Places == {None, 0, 1}
Reference == [Plain EXCEPT !.ref = 1]

NodeOperations ==
    {[kind |-> "create_node", id |-> n, parent |-> p, at |-> a, value |-> v] :
        n \in NodeIds, p \in {None, 1, 2}, a \in {0, 1}, v \in {Plain, Reference}}
    \cup {[kind |-> "delete_node", id |-> n] : n \in NodeIds}
    \cup {[kind |-> "move_node", id |-> n, parent |-> p, at |-> a] :
             n \in NodeIds, p \in {None, 1, 2, 3}, a \in {None, 0}}
    \cup {[kind |-> "reorder_children", id |-> n, order |-> <<x, y>>] :
             n \in {1, 2}, x, y \in {2, 3, 4}}
    \cup {[kind |-> "set_property", id |-> n, value |-> v] :
             n \in NodeIds, v \in {Reference, [Plain EXCEPT !.fits = FALSE]}}
    \cup {[kind |-> "clear_property", id |-> n] : n \in NodeIds}
    \cup {[kind |-> "batch_property_set", id |-> 1, values |-> <<Plain, [Plain EXCEPT !.ref = r]>>] :
             r \in {1, 2}}
    \cup {[kind |-> "create_model", id |-> 1, count |-> 0]}

Listings == {<<i>> : i \in {"w", "x", "y", "z"}} \cup {<<"x", "y">>, <<"y", "z">>, <<"z", "x">>}

ModelOperations ==
    {[kind |-> "create_model", id |-> m, count |-> c] : m \in ModelIds, c \in {0, 2}}
    \cup {[kind |-> "model_insert", id |-> m, at |-> a, items |-> l] :
             m \in ModelIds, a \in 0 .. 2, l \in Listings}
    \cup {[kind |-> "model_delete", id |-> m, at |-> a, count |-> c, ids |-> <<>>] :
             m \in ModelIds, a \in Places, c \in {0, 1, 2}}
    \cup {[kind |-> "model_delete", id |-> m, at |-> None, count |-> 0, ids |-> l] :
             m \in ModelIds, l \in Listings}
    \cup {[kind |-> "model_update", id |-> m, at |-> a, items |-> l] :
             m \in ModelIds, a \in Places, l \in Listings}
    \cup {[kind |-> "model_reset_range", id |-> m, at |-> a, items |-> l, count |-> c] :
             m \in ModelIds, a \in 0 .. 2, l \in Listings, c \in {0, 1, 3}}

\* Two operations, the second of which may be refused.
NodePairs == {<<[kind |-> "delete_node", id |-> m], [kind |-> "move_node", id |-> n, parent |-> None, at |-> None]>> :
                 m, n \in NodeIds}
ModelPairs == {<<[kind |-> "model_insert", id |-> 1, at |-> 0, items |-> <<i>>],
                 [kind |-> "model_update", id |-> 1, at |-> a, items |-> <<i, "z">>]>> :
                 i \in {"x", "y"}, a \in {None, 2}}

(* The application updates by position only what is cached: model_update   *)
(* does not hold the cache to its limit as model_insert and                *)
(* model_reset_range do, and a snapshot of a cache past the limit leaves   *)
(* the replica with less than the server has.                              *)
UpdatesCached(op) ==
    (op.kind = "model_update" /\ op.at # None /\ op.id \in DOMAIN store.models) =>
        op.at .. op.at + Len(op.items) - 1 \subseteq DOMAIN store.models[op.id].items

MCTransactions ==
    IF focus = "nodes" THEN {<<op>> : op \in NodeOperations} \cup NodePairs
    ELSE {<<op>> : op \in {o \in ModelOperations : UpdatesCached(o)}} \cup ModelPairs

----------------------------------------------------------------------------

SessionInit ==
    /\ focus \in {"ranges", "resources", "nodes", "models"}
    /\ RangeInit /\ ResourceInit /\ TreeInit

SessionNext ==
    /\ UNCHANGED focus
    /\ \/ focus = "ranges" /\ RangeNext /\ UNCHANGED <<resourceVars, treeVars>>
       \/ focus = "resources" /\ ResourceNext /\ UNCHANGED <<rangeVars, treeVars>>
       \/ /\ focus \in {"nodes", "models"} /\ TreeNext(MCTransactions)
          /\ UNCHANGED <<rangeVars, resourceVars>>

SessionVars == <<focus, rangeVars, resourceVars, treeVars>>

SessionSpec == SessionInit /\ [][SessionNext]_SessionVars /\ RangeFairness
=============================================================================
