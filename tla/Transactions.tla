---------------------------- MODULE Transactions ----------------------------
(***************************************************************************)
(* Transactions as data: what a commit writes, which frames may stand for   *)
(* a run of commits, and what a replica makes of each of them.              *)
(*                                                                         *)
(* The semantic tree is abstracted to a set of Keys.  The value of a key is *)
(* the stamp <<incarnation, revision>> of the commit that last wrote it, so *)
(* two states are equal exactly when the same commits produced them, and a  *)
(* value can never be right by coincidence.  A transaction maps every key   *)
(* to the stamp it writes, or to Untouched.                                 *)
(*                                                                         *)
(* One operation per key: a transaction that sets one property twice is the *)
(* transaction that sets it to the last value.                              *)
(***************************************************************************)
EXTENDS Naturals, FiniteSets

CONSTANTS
  Keys,     \* (node, property) pairs of the semantic tree
  MaxOps    \* max_transaction_operations, standing for max_frame_size too

ASSUME MaxOpsAssumption == MaxOps \in Nat \ {0}

Stamps == Nat \X Nat

\* The stamp no commit has: revisions of commits start at 1.
Untouched == <<0, 0>>

\* A store at revision 0, and a snapshot of it, holds nothing.
EmptyContent == [k \in Keys |-> Untouched]

\* What every transaction of the wire carries (srui_protocol::Transaction).
Transaction ==
  [base: Nat, new: Nat, scalar: BOOLEAN, priority: Nat, writes: [Keys -> Stamps]]

Operations(tx) == {k \in Keys : tx.writes[k] # Untouched}

\* The transaction committing revision base + 1: an AuthoritativeCommit.
AuthoritativeCommit(stamp, base, kind) ==
  [base |-> base, new |-> base + 1, scalar |-> kind.scalar, priority |-> kind.priority,
   writes |-> [k \in Keys |-> IF k \in kind.keys THEN stamp ELSE Untouched]]

\* The full-state transaction of a catch-up: always based on revision 0.
ExportSnapshotTransaction(store) ==
  [base |-> 0, new |-> store.rev, scalar |-> FALSE, priority |-> 0, writes |-> store.content]

\* Every operation sets a scalar property, and there is at least one.
IsCoalesceable(tx) == tx.scalar /\ Operations(tx) # {}

-----------------------------------------------------------------------------
(***************************************************************************)
(* Coalescing on the server: the unsent tail of a queue takes in the        *)
(* transaction that follows it.                                             *)
(***************************************************************************)

MayAbsorb(tail, incoming) ==
  /\ tail.priority = incoming.priority
  /\ tail.new = incoming.base
  /\ IsCoalesceable(tail) /\ IsCoalesceable(incoming)
  /\ Cardinality(Operations(tail) \cup Operations(incoming)) <= MaxOps

\* The content that results from applying tx's operations to content.
Overwrite(content, tx) ==
  [k \in Keys |-> IF tx.writes[k] = Untouched THEN content[k] ELSE tx.writes[k]]

\* A mistake the checks must notice: the first value written to a key stays.
AbsorbFirstWins(tail, incoming) ==
  [tail EXCEPT !.new = incoming.new, !.writes = Overwrite(incoming.writes, tail)]

Absorb(tail, incoming) ==
  [tail EXCEPT !.new = incoming.new, !.writes = Overwrite(tail.writes, incoming)]

-----------------------------------------------------------------------------
(***************************************************************************)
(* The replica of a client (TransactionApplier): a revision, the content it *)
(* holds, and the verdict on one delivered transaction.                     *)
(***************************************************************************)

EmptyReplica == [rev |-> 0, content |-> EmptyContent]

\* A live frame is one commit, or a coalesced delta standing for several.
WellFormedDelivery(tx) ==
  \/ tx.new = tx.base + 1
  \/ tx.new > tx.base + 1 /\ IsCoalesceable(tx)

AppliesDelivered(replica, tx) == WellFormedDelivery(tx) /\ tx.base = replica.rev

\* A frame that starts before the replica's revision is an overlap, not a gap.
IsRedelivery(replica, tx) == WellFormedDelivery(tx) /\ tx.base < replica.rev

ApplyDelivered(replica, tx) ==
  [replica EXCEPT !.rev = tx.new, !.content = Overwrite(replica.content, tx)]

\* A snapshot may restate the replica's revision and never goes below it.
AcceptsSnapshot(replica, tx) == tx.base = 0 /\ tx.new >= replica.rev

PublishResyncSnapshot(tx) == [rev |-> tx.new, content |-> tx.writes]

=============================================================================
