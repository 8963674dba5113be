---------------------------- MODULE OutboundQueue ----------------------------
(***************************************************************************)
(* The bounded queue of one subscriber (SubscriberState) as operators on    *)
(* one record, and the registry of clients whose queue overflowed.          *)
(*                                                                         *)
(* stale says that the queue overflowed (stale_reason is set); closed that  *)
(* it takes nothing more.  Resources and peak depth are left out.           *)
(***************************************************************************)
EXTENDS Transactions, Sequences, SequencesExt

CONSTANTS
  Capacity,          \* outbound_queue_capacity
  MaxTrackedStale    \* MAX_TRACKED_STALE_CLIENTS

ASSUME CapacityAssumption == Capacity \in Nat \ {0}
ASSUME MaxTrackedStaleAssumption == MaxTrackedStale \in Nat \ {0}

NewSubscriber == [items |-> <<>>, stale |-> FALSE, closed |-> FALSE]

\* A connection that never subscribed, or whose receiver is gone.
DroppedSubscriber == [items |-> <<>>, stale |-> FALSE, closed |-> TRUE]

HasUnsentTail(sub) == ~sub.closed /\ sub.items # <<>>

CanAbsorb(sub, tx) == HasUnsentTail(sub) /\ MayAbsorb(Last(sub.items), tx)

\* Neither absorbed nor room for one more: the queue gives up.
Overflows(sub, tx) == ~sub.closed /\ ~CanAbsorb(sub, tx) /\ Len(sub.items) >= Capacity

\* A mistake the checks must notice: a full queue drops the transaction instead.
OverflowDrops(sub, tx) ==
  CASE sub.closed -> sub
    [] CanAbsorb(sub, tx) ->
         [sub EXCEPT !.items = Append(Front(@), Absorb(Last(@), tx))]
    [] Overflows(sub, tx) -> sub
    [] OTHER -> [sub EXCEPT !.items = Append(@, tx)]

TryPushOrAbsorb(sub, tx) ==
  CASE sub.closed -> sub
    [] CanAbsorb(sub, tx) ->
         [sub EXCEPT !.items = Append(Front(@), Absorb(Last(@), tx))]
    [] Overflows(sub, tx) -> [items |-> <<>>, stale |-> TRUE, closed |-> TRUE]
    [] OTHER -> [sub EXCEPT !.items = Append(@, tx)]

PopTransaction(sub) == [sub EXCEPT !.items = Tail(@)]

\* The receiver is dropped: its queue closes and is discarded.
DropReceiver(sub) == [sub EXCEPT !.items = <<>>, !.closed = TRUE]

\* OutboundReceiver::termination: Lagged, Closed, or still running.
Termination(sub) == sub.stale \/ sub.closed

-----------------------------------------------------------------------------
\* The registry keeps the clients in the order they were first marked and
\* forgets the oldest when it is full.
MarkStale(registry, client) ==
  IF client \in Range(registry) THEN registry
  ELSE LET marked == Append(registry, client)
       IN  IF Len(marked) > MaxTrackedStale THEN Tail(marked) ELSE marked

ClearStaleClient(registry, client) == SelectSeq(registry, LAMBDA c : c # client)

=============================================================================
