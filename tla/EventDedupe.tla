----------------------------- MODULE EventDedupe -----------------------------
(***************************************************************************)
(* The bounded event deduplicator of a session (EventDeduplicator of       *)
(* server-rust/event-dedupe/src/lib.rs).  Every call runs under the        *)
(* session's inner lock, so one call is one step.  Clients are peers: any  *)
(* identity, sequence and type may arrive in any order and any number of   *)
(* times, which is how retries over a new connection look from here.       *)
(***************************************************************************)
EXTENDS DedupeWindow

CONSTANTS
  ClientIds,   \* client_instance_ids a peer may present
  MaxWindows   \* max_client_windows, raised to 1 by with_limits

ASSUME DedupeAssumption == MaxWindows \in Nat \ {0}

VARIABLES
  clients,      \* keys of the clients map: the instances with a window
  windows,      \* the window of each client (an empty one outside clients)
  client_order, \* client_order: least recently used first
  evicted,      \* evicted_frontiers (0 = no entry) and frontier_order
  history       \* history variable: the outcome each sequence was settled
                \* with since the deduplicator last knew nothing of the client

vars == <<clients, windows, client_order, evicted, history>>

Retained == [frontiers : [ClientIds -> EventSeqs], order : Seq(ClientIds)]

Blank == [n \in EventSeqs |-> NoOutcome]

(* Type invariant: windows, orders and retained frontiers keep the shape of *)
(* EventDeduplicator and its maps.                                          *)
TypeOK ==
  /\ clients \in SUBSET ClientIds
  /\ windows \in [ClientIds -> Window]
  /\ client_order \in Seq(ClientIds)
  /\ evicted \in Retained
  /\ history \in [ClientIds -> [EventSeqs -> Outcomes \cup {NoOutcome}]]

Init ==
  /\ clients = {}
  /\ windows = [c \in ClientIds |-> EmptyWindow]
  /\ client_order = << >>
  /\ evicted = [frontiers |-> [c \in ClientIds |-> 0], order |-> << >>]
  /\ history = [c \in ClientIds |-> Blank]

-----------------------------------------------------------------------------
(* Bookkeeping shared by the operations.                                   *)

(* touch_client: an existing instance moves to the recently used end. *)
TouchClient(c) ==
  IF c \in clients THEN Append(Without(client_order, c), c) ELSE client_order

(* retain_frontier: keep an evicted frontier, dropping the oldest beyond   *)
(* the bound.                                                              *)
RetainFrontier(r, c, frontier) ==
  LET order == IF r.frontiers[c] = 0 THEN Append(r.order, c) ELSE r.order
      kept  == [r.frontiers EXCEPT ![c] = frontier]
  IN  IF frontier = 0 THEN r
      ELSE IF Len(order) <= MaxWindows THEN [frontiers |-> kept, order |-> order]
      ELSE [frontiers |-> [kept EXCEPT ![Head(order)] = 0], order |-> Tail(order)]

(* The part of window_for_new_client that takes the frontier out. *)
TakeFrontier(r, c) ==
  [frontiers |-> [r.frontiers EXCEPT ![c] = 0], order |-> Without(r.order, c)]

WindowForNewClient(c) == [EmptyWindow EXCEPT !.frontier = evicted.frontiers[c]]

(* make_room_for_new_client: the least recently used unpinned window goes. *)
EvictableClients ==
  {p \in 1 .. Len(client_order) : ~ IsPinned(windows[client_order[p]])}

Victim ==
  client_order[CHOOSE p \in EvictableClients : \A q \in EvictableClients : p <= q]

AtCapacity == Cardinality(clients) >= MaxWindows

CapacityExhausted == AtCapacity /\ EvictableClients = {}

(* A client's history is forgotten when its retained frontier ages out.    *)
AgedOut(c) ==
  evicted.frontiers[c] # 0 /\ evicted'.frontiers[c] = 0 /\ c \notin clients'

ForgetAgedOut ==
  history' = [c \in ClientIds |-> IF AgedOut(c) THEN Blank ELSE history[c]]

-----------------------------------------------------------------------------
(* admit_event for an instance that has a window. *)
AdmitKnown(c, id, seq, type) ==
  /\ c \in clients
  /\ client_order' = TouchClient(c)
  /\ windows' = IF AdmitVerdict(windows[c], id, seq, type) = "fresh"
                THEN [windows EXCEPT ![c] = Admit(windows[c], id, seq, type)]
                ELSE windows
  /\ UNCHANGED <<clients, evicted, history>>

(* Mutant: a refused admission consumes the retained frontier. *)
RefuseNewForgets(c, id, seq, type) ==
  /\ c \notin clients
  /\ \/ AdmitVerdict(WindowForNewClient(c), id, seq, type) # "fresh"
     \/ CapacityExhausted
  /\ evicted' = TakeFrontier(evicted, c)
  /\ UNCHANGED <<clients, windows, client_order, history>>

(* admit_event for an instance without one, refused: by the throwaway      *)
(* window, or because no retained window may be evicted.  The frontier is  *)
(* put back, at the recently evicted end.                                  *)
RefuseNew(c, id, seq, type) ==
  /\ c \notin clients
  /\ \/ AdmitVerdict(WindowForNewClient(c), id, seq, type) # "fresh"
     \/ CapacityExhausted
  /\ evicted' = RetainFrontier(TakeFrontier(evicted, c), c, evicted.frontiers[c])
  /\ UNCHANGED <<clients, windows, client_order, history>>

(* The window of the new instance joins the map, evicting one if need be. *)
InsertClient(c, window, taken) ==
  /\ ~ CapacityExhausted
  /\ IF AtCapacity
     THEN /\ clients' = (clients \ {Victim}) \cup {c}
          /\ windows' = [windows EXCEPT ![Victim] = EmptyWindow, ![c] = window]
          /\ client_order' = Append(Without(client_order, Victim), c)
          /\ evicted' = RetainFrontier(taken, Victim, windows[Victim].frontier)
     ELSE /\ clients' = clients \cup {c}
          /\ windows' = [windows EXCEPT ![c] = window]
          /\ client_order' = Append(client_order, c)
          /\ evicted' = taken
  /\ ForgetAgedOut

AdmitNew(c, id, seq, type) ==
  /\ c \notin clients
  /\ AdmitVerdict(WindowForNewClient(c), id, seq, type) = "fresh"
  /\ InsertClient(c, Admit(WindowForNewClient(c), id, seq, type),
                  TakeFrontier(evicted, c))

AdmitEvent(c, id, seq, type) ==
  \/ AdmitKnown(c, id, seq, type)
  \/ RefuseNew(c, id, seq, type)
  \/ AdmitNew(c, id, seq, type)

(* settle_event: also moves the client to the recently used end. *)
SettleEvent(c, id, outcome) ==
  LET rec == windows[c].seen_ids[id] IN
  /\ c \in clients
  /\ client_order' = TouchClient(c)
  /\ windows' = [windows EXCEPT ![c] = Settle(windows[c], id, outcome)]
  /\ history' = IF rec.st = "in_flight"
                THEN [history EXCEPT ![c][rec.seq] = outcome]
                ELSE history
  /\ UNCHANGED <<clients, evicted>>

(* abandon_event: a dispatch that produced no outcome. *)
AbandonEvent(c, id) ==
  /\ c \in clients
  /\ windows' = [windows EXCEPT ![c] = Abandon(windows[c], id)]
  /\ UNCHANGED <<clients, client_order, evicted, history>>

Next ==
  \E c \in ClientIds, id \in EventIds :
    \/ \E seq \in EventSeqs, type \in EventTypes : AdmitEvent(c, id, seq, type)
    \/ \E outcome \in Outcomes : SettleEvent(c, id, outcome)
    \/ AbandonEvent(c, id)

Spec == Init /\ [][Next]_vars

-----------------------------------------------------------------------------
(* Properties.                                                             *)

SettledSeqs(c) == {n \in EventSeqs : history[c][n] # NoOutcome}

(* The cumulative frontier is exact: the sequences settled for a client    *)
(* are those up to its frontier and the ones its window holds above a gap. *)
(* Eviction of results, of windows and of retained frontiers loses none of *)
(* them and invents none (is_pinned, retain_frontier, note_settled).       *)
FrontierExact ==
  \A c \in ClientIds :
    SettledSeqs(c) =
      IF c \in clients
      THEN (1 .. windows[c].frontier) \cup windows[c].settled_out_of_order
      ELSE 1 .. evicted.frontiers[c]

(* At most once: a sequence that was settled is never in flight again, so  *)
(* no retry, under whatever event_id, re-runs its handler.                 *)
NoSettledReopened ==
  \A c \in clients, id \in EventIds :
    LET rec == windows[c].seen_ids[id] IN
    rec.st = "in_flight" => history[c][rec.seq] = NoOutcome

(* A replay is answered with the outcome the event was first settled with, *)
(* whatever settle calls follow.                                           *)
CachedOutcomeFaithful ==
  \A c \in clients, id \in EventIds :
    LET rec == windows[c].seen_ids[id] IN
    rec.st = "settled" /\ rec.seq # 0 => rec.outcome = history[c][rec.seq]

(* The receive window cannot wedge: whenever a sequence inside it is free, *)
(* a new event may take it, because results that still occupy entries are  *)
(* evictable by then.  ReceiveWindowFull never has to be reported.         *)
NeverWedged ==
  \A c \in clients, id \in EventIds, seq \in EventSeqs, type \in EventTypes :
    AdmitVerdict(windows[c], id, seq, type) # "receive_window_full"

-----------------------------------------------------------------------------
(* The inductive invariant behind the theorems of EventDedupeProofs.       *)

(* One window: what is in flight is above the frontier, not settled above  *)
(* a gap and owns its sequence alone; what is settled is vouched for; what *)
(* waits above a gap is still assigned, so it cannot be admitted again.    *)
WindowInv(w) ==
  /\ \A id \in EventIds : w.seen_ids[id].st = "in_flight" =>
       /\ w.seen_ids[id].seq > w.frontier
       /\ w.seen_ids[id].seq \notin w.settled_out_of_order
       /\ w.seen_ids[id].seq \in w.ids_by_seq
  /\ \A id \in EventIds : w.seen_ids[id].st = "settled" =>
       /\ w.seen_ids[id].seq # 0
       /\ \/ w.seen_ids[id].seq <= w.frontier
          \/ w.seen_ids[id].seq \in w.settled_out_of_order
  /\ \A a, b \in EventIds :
       /\ w.seen_ids[a].st = "in_flight" /\ w.seen_ids[b].st = "in_flight"
       /\ w.seen_ids[a].seq = w.seen_ids[b].seq
       => a = b
  /\ \A n \in w.settled_out_of_order : n > w.frontier + 1 /\ n \in w.ids_by_seq

Distinct(s) == \A i, j \in 1 .. Len(s) : s[i] = s[j] => i = j

In(x, s) == \E i \in 1 .. Len(s) : s[i] = x

Lists(s, S) == \A c \in ClientIds : c \in S <=> In(c, s)

(* The two eviction orders list their maps; no client has both a window    *)
(* and a retained frontier.                                                *)
RetainedInv(r) ==
  /\ Distinct(r.order)
  /\ Lists(r.order, {c \in ClientIds : r.frontiers[c] # 0})
  /\ Len(r.order) <= MaxWindows

OrdersInv ==
  /\ Distinct(client_order) /\ Lists(client_order, clients)
  /\ RetainedInv(evicted)
  /\ \A c \in clients : evicted.frontiers[c] = 0

IndInv ==
  /\ TypeOK
  /\ \A c \in ClientIds : WindowInv(windows[c])
  /\ OrdersInv
  /\ FrontierExact
  /\ CachedOutcomeFaithful
==============================================================================
