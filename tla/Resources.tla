----------------------------- MODULE Resources ------------------------------
(***************************************************************************)
(* Content-addressed resources: a publication inserts into the session's   *)
(* bounded store under the session lock and queues the transfer on the     *)
(* live subscribers after it is released; a connecting client is           *)
(* subscribed and seeded with what is retained under one hold of the lock. *)
(* A resource is its hash and its size, counted in chunks.                 *)
(***************************************************************************)
EXTENDS Integers, FiniteSets, Sublists

CONSTANTS Hashes,
          Chunks,            \* [Hashes -> Nat]: encoded length; an empty one has no chunk
          Publishers,        \* application threads
          Subscribers,       \* connections
          MaxEntries,        \* ResourceLimits.max_entries
          MaxResource,       \* ResourceLimits.max_resource_bytes
          MaxTotal,          \* ResourceLimits.max_total_bytes
          Ceilings,          \* the resource sizes clients accept
          MaxPublications,   \* bound: publications
          MaxReferences      \* bound: transactions that change what the tree refers to

ASSUME ResourceAssumption ==
    Chunks \in [Hashes -> Nat] /\ "none" \notin Hashes /\ Ceilings \subseteq Nat

VARIABLES order,       \* ResourceStore: retained hashes, oldest first
          referenced,  \* the hashes the authoritative tree refers to
          publisher,   \* [Publishers -> hash inserted, not yet handed to the hub, or "none"]
          transfer,    \* [Subscribers -> SubscriberState's resource side]
          received,    \* [Subscribers -> [Hashes -> frames received: metadata and chunks]]
          spentRes     \* bound: [publications, references]

resourceVars == <<order, referenced, publisher, transfer, received, spentRes>>

NoTransfer == [hash |-> "none", sent |-> 0]
Away == [live |-> FALSE, ceiling |-> 0, known |-> {}, pending |-> <<>>, active |-> NoTransfer]

ResourceInit ==
    /\ order = <<>> /\ referenced = {}
    /\ publisher = [p \in Publishers |-> "none"]
    /\ transfer = [s \in Subscribers |-> Away]
    /\ received = [s \in Subscribers |-> [h \in Hashes |-> 0]]
    /\ spentRes = [publications |-> 0, references |-> 0]

----------------------------------------------------------------------------
(* ResourceStore *)

TotalBytes(kept) == FoldLeft(LAMBDA n, h : n + Chunks[h], 0, kept)

Fits(kept, h) == Len(kept) < MaxEntries /\ TotalBytes(kept) + Chunks[h] <= MaxTotal

\* Evicts unprotected entries, oldest first, until the new one fits.
EvictionPlan(kept, h, protected) ==
    FoldLeft(LAMBDA left, c : IF Fits(left, h) \/ c \in protected THEN left
                              ELSE SelectIn(left, Hashes \ {c}),
             kept, kept)

\* ResourceTransferQueue
Transferring(t, h) == t.active.hash = h \/ h \in ToSet(t.pending)

\* A mutation: nothing is queued while a transfer is active.
EnqueueWhenIdle(t, h) ==
    IF ~t.live \/ Chunks[h] > t.ceiling \/ t.active # NoTransfer THEN t
    ELSE [t EXCEPT !.pending = Append(@, h)]

\* maybe_enqueue_resource and enqueue
maybe_enqueue_resource(t, h) ==
    IF ~t.live \/ Chunks[h] > t.ceiling \/ Transferring(t, h) THEN t
    ELSE [t EXCEPT !.pending = Append(@, h)]

----------------------------------------------------------------------------
(* Session::publish_resource *)

Publication(p) == /\ publisher[p] = "none" /\ spentRes.publications < MaxPublications
                  /\ spentRes' = [spentRes EXCEPT !.publications = @ + 1]

\* Retained already, too large, or no room without evicting what the tree
\* refers to: the store is as it was.
PublishKeeps(p, h) ==
    /\ Publication(p)
    /\ \/ h \in ToSet(order)
       \/ Chunks[h] > MaxResource
       \/ ~Fits(EvictionPlan(order, h, referenced), h)
    /\ UNCHANGED <<order, referenced, publisher, transfer, received>>

PublishInserts(p, h) ==
    /\ Publication(p)
    /\ h \notin ToSet(order) /\ Chunks[h] <= MaxResource
    /\ Fits(EvictionPlan(order, h, referenced), h)
    /\ order' = Append(EvictionPlan(order, h, referenced), h)
    /\ publisher' = [publisher EXCEPT ![p] = h]
    /\ UNCHANGED <<referenced, transfer, received>>

\* The session lock is free by now; another publication may have evicted it.
HubPublishes(p) ==
    /\ publisher[p] # "none"
    /\ transfer' = [s \in Subscribers |-> maybe_enqueue_resource(transfer[s], publisher[p])]
    /\ publisher' = [publisher EXCEPT ![p] = "none"]
    /\ UNCHANGED <<order, referenced, received, spentRes>>

\* A transaction makes the tree refer to a resource, or no longer.
ReferenceChanges(h) ==
    /\ spentRes.references < MaxReferences
    /\ spentRes' = [spentRes EXCEPT !.references = @ + 1]
    /\ referenced' = IF h \in referenced THEN referenced \ {h} ELSE referenced \cup {h}
    /\ UNCHANGED <<order, publisher, transfer, received>>

----------------------------------------------------------------------------
(* Connections *)

Complete(s, h) == received[s][h] = 1 + Chunks[h]

\* subscribe_client_locked: the client names hashes it holds complete.
Subscribe(s, ceiling) ==
    /\ ~transfer[s].live
    /\ \E known \in SUBSET {h \in Hashes : Complete(s, h)} :
          LET t == [Away EXCEPT !.live = TRUE, !.ceiling = ceiling, !.known = known]
              unknown == SelectIn(order, Hashes \ known)
          IN  transfer' = [transfer EXCEPT ![s] = FoldLeft(maybe_enqueue_resource, t, unknown)]
    /\ UNCHANGED <<order, referenced, publisher, received, spentRes>>

\* pop_frame: metadata first, then one chunk per frame, contiguous.  Metadata
\* begins the client's assembly anew.
SendFrame(s) ==
    LET t == transfer[s]
        a == IF t.active = NoTransfer THEN [hash |-> Head(t.pending), sent |-> 0] ELSE t.active
        next == [a EXCEPT !.sent = @ + 1]
    IN  /\ t.live /\ (t.active # NoTransfer \/ t.pending # <<>>)
        /\ received' = [received EXCEPT ![s][a.hash] = IF a.sent = 0 THEN 1 ELSE @ + 1]
        /\ transfer' = [transfer EXCEPT
              ![s].pending = IF t.active = NoTransfer THEN Tail(@) ELSE @,
              ![s].active = IF next.sent = 1 + Chunks[a.hash] THEN NoTransfer ELSE next]
        /\ UNCHANGED <<order, referenced, publisher, spentRes>>

\* The connection ends with its queue; the client drops what is incomplete.
Unsubscribe(s) ==
    /\ transfer[s].live
    /\ transfer' = [transfer EXCEPT ![s] = Away]
    /\ received' = [received EXCEPT ![s] =
                        [h \in Hashes |-> IF Complete(s, h) THEN @[h] ELSE 0]]
    /\ UNCHANGED <<order, referenced, publisher, spentRes>>

ResourceNext ==
    \/ \E p \in Publishers, h \in Hashes : PublishKeeps(p, h)
    \/ \E p \in Publishers, h \in Hashes : PublishInserts(p, h)
    \/ \E p \in Publishers : HubPublishes(p)
    \/ \E h \in Hashes : ReferenceChanges(h)
    \/ \E s \in Subscribers, ceiling \in Ceilings : Subscribe(s, ceiling)
    \/ \E s \in Subscribers : SendFrame(s)
    \/ \E s \in Subscribers : Unsubscribe(s)

ResourceSpec == ResourceInit /\ [][ResourceNext]_resourceVars

----------------------------------------------------------------------------
(* Properties *)

\* A retained resource reaches every connected client that accepts its size: it
\* is complete there, queued or on its way, or a publisher between the store and
\* the hub still holds it.  Insertion and queueing are two critical sections and
\* a client may subscribe, or another publication evict, between them.
RetainedReaches ==
    \A s \in Subscribers, h \in ToSet(order) :
        (transfer[s].live /\ Chunks[h] <= transfer[s].ceiling) =>
            \/ Complete(s, h) \/ h \in transfer[s].known
            \/ Transferring(transfer[s], h)
            \/ \E p \in Publishers : publisher[p] = h

=============================================================================
