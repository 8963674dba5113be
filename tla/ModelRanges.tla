---------------------------- MODULE ModelRanges -----------------------------
(***************************************************************************)
(* Sparse collections: a client asks for the window its list or table      *)
(* shows, the connection's reader puts the request in a coalescing inbox   *)
(* and never blocks, and one worker per connection answers them.  The      *)
(* provider runs with the session lock released, so the collection may     *)
(* have changed, or the window may have been filled, when it returns.      *)
(* Items are left out: a model is how many it has and which are cached.    *)
(***************************************************************************)
EXTENDS Integers, FiniteSets, SequencesExt, TLC

CONSTANTS Collections,     \* the nodes that show a model
          ModelOf,         \* [Collections -> models]: model_ref at the start
          Windows,         \* the windows clients ask for: [start, count, observed]
          Providers,       \* models with a registered range provider
          Items,           \* items of a model at the start
          MaxPendingRanges,   \* MAX_PENDING_RANGES_PER_MODEL
          MaxInflightModels,  \* MAX_INFLIGHT_MODELS
          CoalesceSpan,       \* COALESCE_SPAN
          MaxOperationItems,  \* max_items_per_model_operation
          MaxSubmits,      \* bound: requests a client sends
          MaxModelChanges  \* bound: transactions on the collections

VARIABLES shown,     \* [Collections -> model or "gone"]
          stock,     \* [models -> [count, cached]]
          storeRev,  \* the store's revision
          inbox,     \* CoalescingState: [order, pending, closed]
          reader,    \* the read loop: "idle", or "wake" between unlock and wake
          waker,     \* AtomicWaker: [registered, woken]
          ranger,    \* the worker: [pc, request]
          stopping,  \* shutdown or session_cancel fired
          asked,     \* history: [Collections -> latest window not yet answered]
          used       \* bound: [submits, changes]

rangeVars == <<shown, stock, storeRev, inbox, reader, waker, ranger, stopping, asked, used>>

Models == {ModelOf[c] : c \in Collections}
NoRequest == [node |-> "none"]
Indices(w) == w.start .. (w.start + w.count - 1)

RangeInit ==
    /\ shown = ModelOf
    /\ stock = [m \in Models |-> [count |-> Items, cached |-> {}]]
    /\ storeRev = 0
    /\ inbox = [order |-> <<>>, pending |-> [m \in Models |-> <<>>], closed |-> FALSE]
    /\ reader = "idle"
    /\ waker = [registered |-> FALSE, woken |-> FALSE]
    /\ ranger = [pc |-> "pop", request |-> NoRequest]
    /\ stopping = FALSE
    /\ asked = [c \in Collections |-> NoRequest]
    /\ used = [submits |-> 0, changes |-> 0]

----------------------------------------------------------------------------
(* The coalescing inbox *)

request_end(r) == r.start + r.count
SpanStart(a, b) == IF a.start < b.start THEN a.start ELSE b.start
SpanEnd(a, b) == IF request_end(a) > request_end(b) THEN request_end(a) ELSE request_end(b)

ranges_are_close(a, b) == SpanEnd(a, b) - SpanStart(a, b) <= CoalesceSpan

bounding_range(a, b) ==
    [b EXCEPT !.start = SpanStart(a, b), !.count = SpanEnd(a, b) - SpanStart(a, b),
              !.observed = IF a.observed > b.observed THEN a.observed ELSE b.observed]

\* Merges the pending windows near the request, oldest first, each into the
\* span so far; a far jump replaces the node's older windows.
integrate_pending(list, request) ==
    LET absorb(acc, r) ==
            IF r.node = acc.span.node /\ ranges_are_close(r, acc.span)
            THEN [acc EXCEPT !.span = bounding_range(r, acc.span), !.absorbed = TRUE]
            ELSE [acc EXCEPT !.kept = Append(@, r)]
        merged == FoldLeft(absorb, [span |-> request, kept |-> <<>>, absorbed |-> FALSE], list)
        others == IF merged.absorbed THEN merged.kept
                  ELSE SelectSeq(merged.kept, LAMBDA r : r.node # request.node)
    IN  Append(others, merged.span)

\* A push takes the list one over the cap at most: the oldest window of the
\* incoming node goes, or else the oldest of all, never the one just pushed.
trim_pending_to_cap(list, node) ==
    LET own == {i \in 1 .. Len(list) - 1 : list[i].node = node}
    IN  IF Len(list) <= MaxPendingRanges THEN list
        ELSE RemoveAt(list, IF own = {} THEN 1 ELSE CHOOSE i \in own : \A j \in own : i <= j)

evict_oldest_models_over_cap(s) ==
    IF Cardinality({m \in Models : s.pending[m] # <<>>}) <= MaxInflightModels THEN s
    ELSE [s EXCEPT !.order = Tail(@), !.pending[Head(s.order)] = <<>>]

Queued(s) == UNION {{s.pending[m][i] : i \in DOMAIN s.pending[m]} : m \in Models}

\* The windows other nodes lose to the caps are not owed an answer any more.
Displaced(s, node) == {c \in Collections \ {node} : ~\E r \in Queued(s) : r.node = c}
                      \cap {r.node : r \in Queued(inbox)}

Submit(c, w) ==
    LET m == ModelOf[c]
        request == [node |-> c] @@ w
        list == trim_pending_to_cap(integrate_pending(inbox.pending[m], request), c)
        queued == [inbox EXCEPT !.pending[m] = list,
                                !.order = IF inbox.pending[m] = <<>> THEN Append(@, m) ELSE @]
        next == evict_oldest_models_over_cap(queued)
    IN  /\ reader = "idle" /\ used.submits < MaxSubmits
        /\ used' = [used EXCEPT !.submits = @ + 1]
        /\ IF inbox.closed THEN UNCHANGED <<inbox, reader, asked>>
           ELSE /\ inbox' = next
                /\ reader' = "wake"
                /\ asked' = [d \in Collections |->
                                IF d = c THEN request
                                ELSE IF d \in Displaced(next, c) THEN NoRequest
                                ELSE asked[d]]
        /\ UNCHANGED <<shown, stock, storeRev, waker, ranger, stopping>>

\* AtomicWaker::wake takes the registered waker, if there is one.
Woken == [registered |-> FALSE, woken |-> waker.woken \/ waker.registered]

Wake ==
    /\ reader = "wake"
    /\ reader' = "idle" /\ waker' = Woken
    /\ UNCHANGED <<shown, stock, storeRev, inbox, ranger, stopping, asked, used>>

----------------------------------------------------------------------------
(* The worker: InboxRecv::poll and run_model_range_worker *)

RangeStep(pc, request) == ranger' = [pc |-> pc, request |-> request]

\* try_pop: the oldest window of the model whose turn it is.
Popped(s) ==
    LET m == Head(s.order)
    IN  [s EXCEPT !.pending[m] = Tail(@),
                  !.order = IF Len(s.pending[m]) > 1 THEN Append(Tail(@), m) ELSE Tail(@)]

\* The select is biased: a cancelled worker polls the inbox no more, but a poll
\* that has begun goes to its end.
try_pop(next) ==
    IF inbox.order = <<>> THEN RangeStep(next, NoRequest) /\ UNCHANGED inbox
    ELSE /\ RangeStep("fulfill", Head(inbox.pending[Head(inbox.order)]))
         /\ inbox' = Popped(inbox)

PollPops ==
    /\ \/ ranger.pc = "pop" /\ ~stopping /\ try_pop("closed")
       \/ ranger.pc = "popAgain" /\ try_pop("closedAgain")
    /\ UNCHANGED <<shown, stock, storeRev, reader, waker, stopping, asked, used>>

\* Only the worker closes the inbox, when it is done.
PollSeesOpen ==
    /\ ranger.pc \in {"closed", "closedAgain"} /\ ~inbox.closed
    /\ RangeStep(IF ranger.pc = "closed" THEN "register" ELSE "parked", NoRequest)
    /\ UNCHANGED <<shown, stock, storeRev, inbox, reader, waker, stopping, asked, used>>

\* A mutation: the poll parks without looking at the inbox again.
AfterRegister == "parked"

\* The inbox is looked at again after the waker is in place.
Registered == "popAgain"

PollRegisters ==
    /\ ranger.pc = "register"
    /\ waker' = [waker EXCEPT !.registered = TRUE]
    /\ RangeStep(Registered, NoRequest)
    /\ UNCHANGED <<shown, stock, storeRev, inbox, reader, stopping, asked, used>>

PolledAgain ==
    /\ ranger.pc = "parked" /\ waker.woken /\ ~stopping
    /\ waker' = [waker EXCEPT !.woken = FALSE]
    /\ RangeStep("pop", NoRequest)
    /\ UNCHANGED <<shown, stock, storeRev, inbox, reader, stopping, asked, used>>

\* The request is answered or refused: so is the latest window it covers.
Answer(r) ==
    /\ RangeStep("pop", NoRequest)
    /\ asked' = [asked EXCEPT ![r.node] =
                    IF @ # NoRequest /\ Indices(@) \subseteq Indices(r) THEN NoRequest ELSE @]

----------------------------------------------------------------------------
(* fulfill_model_range_request *)

validate_request(r) ==
    /\ shown[r.node] = ModelOf[r.node]
    /\ request_end(r) <= stock[ModelOf[r.node]].count
    /\ r.count <= MaxOperationItems
    /\ r.observed <= storeRev

range_is_cached(r) == Indices(r) \subseteq stock[ModelOf[r.node]].cached

NeedsProvider(r) == validate_request(r) /\ ~range_is_cached(r) /\ ModelOf[r.node] \in Providers

AskProvider ==
    /\ ranger.pc = "fulfill" /\ NeedsProvider(ranger.request)
    /\ RangeStep("provider", ranger.request)
    /\ UNCHANGED <<shown, stock, storeRev, inbox, reader, waker, stopping, asked, used>>

\* Refused, already cached or no provider: answered under the lock.
AnswerAtOnce ==
    /\ ranger.pc = "fulfill" /\ ~NeedsProvider(ranger.request)
    /\ Answer(ranger.request)
    /\ UNCHANGED <<shown, stock, storeRev, inbox, reader, waker, stopping, used>>

\* The provider fails, or returns another number of items than it was asked for.
ProviderFails ==
    /\ ranger.pc = "provider" /\ ~stopping
    /\ Answer(ranger.request)
    /\ UNCHANGED <<shown, stock, storeRev, inbox, reader, waker, stopping, used>>

ProviderReturns ==
    /\ ranger.pc = "provider" /\ ~stopping
    /\ RangeStep("commit", ranger.request)
    /\ UNCHANGED <<shown, stock, storeRev, inbox, reader, waker, stopping, asked, used>>

\* The lock was released: the request is validated and the cache looked at again.
StillWanted(r) == validate_request(r) /\ ~range_is_cached(r)

\* commit_ops_locked refuses items past the store's limits or a transaction the
\* journal cannot hold: the answer is then an error.
commit_reset_if_current ==
    LET r == ranger.request
    IN  /\ ranger.pc = "commit"
        /\ Answer(r)
        /\ \/ /\ StillWanted(r)
              /\ stock' = [stock EXCEPT ![ModelOf[r.node]].cached = @ \cup Indices(r)]
              /\ storeRev' = storeRev + 1
           \/ UNCHANGED <<stock, storeRev>>
        /\ UNCHANGED <<shown, inbox, reader, waker, stopping, used>>

\* The worker is cancelled where it waits, and closes the inbox.
WorkerStops ==
    /\ stopping /\ ranger.pc \in {"pop", "parked", "provider"}
    /\ RangeStep("done", NoRequest)
    /\ inbox' = [inbox EXCEPT !.closed = TRUE]
    /\ waker' = Woken
    /\ UNCHANGED <<shown, stock, storeRev, reader, stopping, asked, used>>

----------------------------------------------------------------------------
(* The application and the session *)

StopRanges ==
    /\ ~stopping /\ stopping' = TRUE
    /\ UNCHANGED <<shown, stock, storeRev, inbox, reader, waker, ranger, asked, used>>

ModelChange ==
    /\ used.changes < MaxModelChanges
    /\ used' = [used EXCEPT !.changes = @ + 1]
    /\ storeRev' = storeRev + 1
    /\ UNCHANGED <<inbox, reader, waker, ranger, stopping, asked>>

\* Items leave at the end of the collection, or its node is deleted.
CollectionShrinks(m) ==
    /\ stock[m].count > 0
    /\ stock' = [stock EXCEPT ![m].count = @ - 1, ![m].cached = @ \ {stock[m].count - 1}]
    /\ ModelChange /\ UNCHANGED shown

CollectionGoes(c) ==
    /\ shown' = [shown EXCEPT ![c] = "gone"]
    /\ ModelChange /\ UNCHANGED stock

RangeNext ==
    \/ \E c \in Collections, w \in Windows : Submit(c, w)
    \/ Wake
    \/ PollPops
    \/ PollSeesOpen
    \/ PollRegisters
    \/ PolledAgain
    \/ AskProvider
    \/ AnswerAtOnce
    \/ ProviderFails
    \/ ProviderReturns
    \/ commit_reset_if_current
    \/ WorkerStops
    \/ StopRanges
    \/ \E m \in Models : CollectionShrinks(m)
    \/ \E c \in Collections : CollectionGoes(c)

\* The reader returns to its loop; the worker is a task of the runtime, woken
\* when its waker or a cancellation fires; a provider is assumed to return.
RangeFairness ==
    /\ WF_rangeVars(Wake)
    /\ WF_rangeVars(PollPops) /\ WF_rangeVars(PollSeesOpen) /\ WF_rangeVars(PollRegisters)
    /\ WF_rangeVars(PolledAgain) /\ WF_rangeVars(AskProvider) /\ WF_rangeVars(AnswerAtOnce)
    /\ WF_rangeVars(ProviderFails \/ ProviderReturns)
    /\ WF_rangeVars(commit_reset_if_current) /\ WF_rangeVars(WorkerStops)

----------------------------------------------------------------------------
(* Properties *)

\* The latest window each collection asked for is answered in the end, unless
\* the caps displaced it or the connection stops: no merge narrows it, no model
\* with pending windows falls out of the turn order, and no request slips in
\* between the worker's look at the inbox and its going to sleep.
LatestWindowAnswered ==
    \A c \in Collections : asked[c] # NoRequest ~> (asked[c] = NoRequest \/ stopping)
=============================================================================
