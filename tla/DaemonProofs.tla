---------------------------- MODULE DaemonProofs ----------------------------
(***************************************************************************)
(* Proofs about the parts of a server around its session's state: the      *)
(* lifecycle of the session, the servers that share a socket path, the     *)
(* frames a snapshot travels in, and the process monitor, whose rows       *)
(* clients select and send signals to.                                     *)
(***************************************************************************)
EXTENDS Lifecycle, DaemonStart, SnapshotFraming, ProcessMonitor, FoldLemmas

-----------------------------------------------------------------------------
(***************************************************************************)
(* Lifecycle. The promise of a session, for any number of clients, of      *)
(* threads that create terminals, and of attempts to export.               *)
(*                                                                         *)
(* The promise may change only while it is open (Unpromised). The argument *)
(* is that nobody relies on it then: a client that was told of the session *)
(* has negotiated, which is never undone, and a handshake that captured    *)
(* the promise for an export still holds its attachment, which is counted. *)
(* So the count of attachments must be exact, and that is what makes the   *)
(* lifecycle sound.                                                        *)
(***************************************************************************)

Lives == [state : {"detached", "attached", "terminating", "expired"}, attached : Nat,
          negotiated : BOOLEAN, draining : BOOLEAN]

\* The profiles a session may come to speak of.
Profiles ==
  {standard_uri, terminal_v1, coding_v1}
  \cup UNION {caps.required \cup caps.optional : caps \in Capabilities}

Contracts == [required : SUBSET Profiles, optional : SUBSET Profiles,
              table : SUBSET [uri : Profiles, namespace : Nat]]
AnyRequest == {NoRequest} \cup UNION {Requests[c] : c \in Clients}
Connections == [phase : {"off", "attached", "asking", "exporting", "live", "ending"},
                request : AnyRequest, attempts : Nat, promise : Contracts, at : Nat,
                cause : ResyncCauses]
Creations == [step : {"idle", "prepared", "spawned", "closing", "undoing"}, namespace : Nat,
              was_required : BOOLEAN, was_optional : BOOLEAN, created : Nat, runs : Nat]

\* The fields of SessionInner, of the handshakes and of create_terminal_node.
LifeTypeOK ==
  /\ life \in Lives
  /\ contract \in Contracts /\ IsFiniteSet(contract.table)
  /\ revision \in Nat
  /\ nodes \in SUBSET Nat
  /\ conn \in [Clients -> Connections]
  /\ told \in [Clients -> Contracts]
  /\ creator \in [Creators -> Creations]
  /\ streams \in SUBSET Creators

Attached == {c \in Clients : conn[c].phase # "off"}

\* The attachments are counted, and a session that lives is attached when there are any.
CountInv ==
  /\ life.attached = Cardinality(Attached)
  /\ ~is_terminal(life.state) => (life.state = "attached") = (life.attached > 0)

\* Whoever relies on the promise keeps it closed.
PromiseInv ==
  /\ \A c \in Clients : told[c] # NotTold => told[c] = contract /\ life.negotiated
  /\ \A c \in Clients : conn[c].phase = "exporting" => conn[c].promise = contract

LifeIInv == LifeTypeOK /\ CountInv /\ PromiseInv

-----------------------------------------------------------------------------
\* The set of attached connections has a size.
LEMMA AttachedFinite == IsFiniteSet(Attached) /\ Cardinality(Attached) \in Nat
BY FS_Subset, FS_CardinalityType, ClientsAssumption DEF Attached

\* While the promise is open, nobody was told of it and no handshake runs.
LEMMA OpenToAll ==
  ASSUME LifeIInv, Unpromised
  PROVE  \A c \in Clients : told[c] = NotTold /\ conn[c].phase = "off"
<1>1. Attached = {}
  BY AttachedFinite, FS_EmptySet DEF LifeIInv, CountInv, Unpromised
<1> QED BY <1>1 DEF Attached, LifeIInv, PromiseInv, Unpromised

\* The namespaces 1..n+1 cannot all be in use by n mappings: the search finds one.
LEMMA NamespaceFound ==
  ASSUME NEW mappings \in SUBSET [uri : Profiles, namespace : Nat], IsFiniteSet(mappings)
  PROVE  /\ next_extension_namespace(mappings) \in Nat \ {0}
         /\ \A m \in mappings : m.namespace # next_extension_namespace(mappings)
<1> DEFINE used == {m.namespace : m \in mappings}
           n == Cardinality(mappings)
           f == [m \in mappings |-> m.namespace]
           free == {k \in 1..(n + 1) : k \notin used}
<1>1. n \in Nat
  BY FS_CardinalityType
<1>2. used \in SUBSET Nat /\ f \in Surjection(mappings, used)
  BY DEF Surjection
<1>3. IsFiniteSet(used) /\ Cardinality(used) <= n /\ Cardinality(used) \in Nat
  BY <1>2, FS_Surjection, FS_CardinalityType
<1>4. IsFiniteSet(1..(n + 1)) /\ Cardinality(1..(n + 1)) = n + 1
  <2>1. 1 \in Int /\ n + 1 \in Int /\ ~(1 > n + 1)
    BY <1>1
  <2>2. IsFiniteSet(1..(n + 1)) /\ Cardinality(1..(n + 1)) = (n + 1) - 1 + 1
    BY <2>1, FS_Interval
  <2> QED BY <1>1, <2>2
<1>5. free # {}
  <2> SUFFICES ASSUME 1..(n + 1) \in SUBSET used PROVE FALSE
    OBVIOUS
  <2> DEFINE all == 1..(n + 1)
  <2>1. IsFiniteSet(used) /\ all \in SUBSET used /\ Cardinality(all) = n + 1
    BY <1>3, <1>4
  <2> HIDE DEF all, used, n
  <2>2. Cardinality(all) <= Cardinality(used)
    BY <2>1, FS_Subset
  <2> QED BY <1>1, <1>3, <2>1, <2>2
<1>6. free \in SUBSET Nat
  BY <1>1
<1>7. PICK k \in free : \A j \in free : k <= j
  BY <1>5, <1>6, LeastExists
<1>8. k \in 1..(n + 1) /\ k \notin used /\ \A j \in 1..(k - 1) : j \in used
  BY <1>1, <1>7
<1> DEFINE ns == next_extension_namespace(mappings)
<1>9. ns \in 1..(n + 1) /\ ns \notin used
  BY <1>8 DEF next_extension_namespace
<1> QED BY <1>1, <1>9
\* The values the fields start with and return to.
LEMMA FreshTypes ==
  /\ NotTold \in Contracts /\ NoRequest \in AnyRequest
  /\ NoConn \in Connections /\ NoCreation \in Creations
BY DEF NotTold, Contracts, NoRequest, AnyRequest, NoConn, Connections, NoCreation, Creations, ResyncCauses

\* A session that nobody joined has promised nothing yet.
LEMMA InitLifeIInv == LifeInit => LifeIInv
<1> SUFFICES ASSUME LifeInit PROVE LifeIInv
  OBVIOUS
<1>1. PICK caps \in Capabilities :
        contract = [required |-> caps.required, optional |-> caps.optional,
                    table |-> {standard_namespace_mapping}]
  BY DEF LifeInit
<1>2. caps.required \in SUBSET Profiles /\ caps.optional \in SUBSET Profiles
  BY DEF Profiles
<1>3. standard_namespace_mapping \in [uri : Profiles, namespace : Nat]
  BY DEF standard_namespace_mapping, Profiles
<1>4. contract \in Contracts /\ contract.table = {standard_namespace_mapping}
  BY <1>1, <1>2, <1>3 DEF Contracts
<1>5. IsFiniteSet(contract.table)
  BY <1>4, FS_Singleton
<1>6. LifeTypeOK
  BY <1>4, <1>5, FreshTypes DEF LifeInit, LifeTypeOK, Lives
<1>7. Attached = {}
  BY DEF LifeInit, Attached, NoConn
<1>8. CountInv
  BY <1>7, FS_EmptySet DEF LifeInit, CountInv
<1>9. PromiseInv
  BY DEF LifeInit, PromiseInv, NoConn
<1> QED BY <1>6, <1>8, <1>9 DEF LifeIInv

\* The connection joins the ones that are counted.
LEMMA StepAttach ==
  ASSUME LifeIInv, NEW c \in Clients, attach(c)
  PROVE  LifeIInv'
<1> USE DEF LifeIInv
<1>1. /\ life \in Lives /\ conn \in [Clients -> Connections] /\ conn[c].phase = "off"
      /\ ~is_terminal(life.state)
      /\ life' = [life EXCEPT !.attached = life.attached + 1, !.state = "attached"]
      /\ conn' = [conn EXCEPT ![c] = [NoConn EXCEPT !.phase = "attached"]]
  BY DEF attach, LifeTypeOK
<1>2. [NoConn EXCEPT !.phase = "attached"] \in Connections
  BY FreshTypes DEF Connections
<1>3. LifeTypeOK'
  <2>1. life' \in Lives
    <3>1. life.attached + 1 \in Nat
      BY <1>1 DEF Lives
    <3> QED BY <1>1, <3>1 DEF Lives
  <2>2. conn' \in [Clients -> Connections]
    BY <1>1, <1>2
  <2> QED BY <2>1, <2>2 DEF LifeTypeOK, attach
<1>4. conn'[c].phase = "attached" /\ \A d \in Clients \ {c} : conn'[d] = conn[d]
  BY <1>1 DEF NoConn
<1>5. Attached' = Attached \cup {c} /\ c \notin Attached
  BY <1>1, <1>4 DEF Attached
<1>6. Cardinality(Attached') = Cardinality(Attached) + 1
  BY <1>5, AttachedFinite, FS_AddElement
<1>7. life'.attached = life.attached + 1 /\ life'.state = "attached" /\ life'.negotiated = life.negotiated
  BY <1>1 DEF Lives
<1>8. CountInv'
  BY <1>6, <1>7, AttachedFinite DEF CountInv
<1>9. PromiseInv'
  BY <1>4, <1>7 DEF PromiseInv, attach
<1> QED BY <1>3, <1>8, <1>9

\* The guard of a connection is dropped: one attachment less.
LEMMA StepDetach ==
  ASSUME LifeIInv, NEW c \in Clients, Detach(c)
  PROVE  LifeIInv'
<1> USE DEF LifeIInv
<1>1. /\ life \in Lives /\ conn \in [Clients -> Connections] /\ conn[c].phase # "off"
      /\ life' = detach_internal(life) /\ conn' = [conn EXCEPT ![c] = NoConn]
  BY DEF Detach, LifeTypeOK
<1>2. conn'[c].phase = "off" /\ \A d \in Clients \ {c} : conn'[d] = conn[d]
  BY <1>1 DEF NoConn
<1>3. Attached' = Attached \ {c} /\ c \in Attached
  BY <1>1, <1>2 DEF Attached
<1>4. Cardinality(Attached') = Cardinality(Attached) - 1
  BY <1>3, AttachedFinite, FS_RemoveElement
<1>5. life.attached = Cardinality(Attached) /\ life.attached > 0
  BY <1>3, AttachedFinite, FS_EmptySet DEF CountInv
<1>6. /\ life' \in Lives /\ life'.attached = life.attached - 1
      /\ life'.negotiated = life.negotiated
      /\ life'.state = IF life.attached <= 1 /\ life.state = "attached" THEN "detached" ELSE life.state
  <2>1. life.attached \in Nat /\ life.attached # 0 /\ life.attached - 1 \in Nat
    BY <1>1, <1>5 DEF Lives
  <2>2. life' = [life EXCEPT !.attached = life.attached - 1,
                   !.state = IF life.attached <= 1 /\ life.state = "attached" THEN "detached" ELSE life.state]
    BY <1>1, <2>1 DEF detach_internal, Lives
  <2> QED BY <1>1, <2>1, <2>2 DEF Lives
<1>7. Attached' = {d \in Clients : conn'[d].phase # "off"}
  BY DEF Attached
<1>8. LifeTypeOK'
  BY <1>1, <1>6, FreshTypes DEF LifeTypeOK, Detach
<1>9. CountInv'
  BY <1>1, <1>4, <1>5, <1>6 DEF CountInv, Lives, is_terminal
<1>10. PromiseInv'
  BY <1>2, <1>6 DEF PromiseInv, Detach
<1> QED BY <1>8, <1>9, <1>10

\* A handshake goes on with its connection attached; what it changes of the
\* session's life is that a promise was given.
LEMMA HandshakeMoves ==
  ASSUME LifeIInv, NEW c \in Clients, conn[c].phase # "off",
         NEW n \in Connections, n.phase # "off", conn' = [conn EXCEPT ![c] = n],
         n.phase = "exporting" => n.promise = contract,
         life' \in {life, [life EXCEPT !.negotiated = TRUE]},
         NEW t \in Contracts, told' = [told EXCEPT ![c] = t],
         \/ t = told[c]
         \/ t = contract /\ life'.negotiated,
         UNCHANGED <<contract, revision, nodes, creator, streams>>
  PROVE  LifeIInv'
<1> USE DEF LifeIInv
<1>1. life \in Lives /\ conn \in [Clients -> Connections] /\ told \in [Clients -> Contracts]
  BY DEF LifeTypeOK
<1>2. /\ life' \in Lives /\ life'.attached = life.attached /\ life'.state = life.state
      /\ life.negotiated => life'.negotiated
  BY <1>1 DEF Lives
<1>3. LifeTypeOK'
  BY <1>1, <1>2 DEF LifeTypeOK
<1>4. conn'[c] = n /\ \A d \in Clients \ {c} : conn'[d] = conn[d]
  BY <1>1
<1>5. Attached' = Attached
  BY <1>4 DEF Attached
<1>6. CountInv'
  BY <1>2, <1>5 DEF CountInv
<1>7. told'[c] = t /\ \A d \in Clients \ {c} : told'[d] = told[d]
  BY <1>1
<1>8. PromiseInv'
  BY <1>2, <1>4, <1>7 DEF PromiseInv
<1> QED BY <1>3, <1>6, <1>8

\* A request is taken down.
LEMMA StepRequest ==
  ASSUME LifeIInv, NEW c \in Clients, NEW request \in Requests[c], Request(c, request)
  PROVE  LifeIInv'
<1> DEFINE n == [conn[c] EXCEPT !.phase = "asking", !.request = request]
<1>1. /\ conn \in [Clients -> Connections] /\ told \in [Clients -> Contracts]
      /\ conn[c].phase = "attached"
  BY DEF LifeIInv, LifeTypeOK, Request
<1>2. request \in AnyRequest
  BY DEF AnyRequest
<1>3. n \in Connections /\ n.phase = "asking"
  BY <1>1, <1>2 DEF Connections
<1>4. conn' = [conn EXCEPT ![c] = n]
  BY <1>1 DEF Request, Connections
<1>5. told' = [told EXCEPT ![c] = told[c]] /\ told[c] \in Contracts /\ life' = life
      /\ UNCHANGED <<contract, revision, nodes, creator, streams>>
  BY <1>1 DEF Request
<1> HIDE DEF n
<1> QED BY <1>1, <1>3, <1>4, <1>5, HandshakeMoves

\* A refusal, and the answer that ends a handshake with the promise as it is.
LEMMA StepRefuse ==
  ASSUME LifeIInv, NEW c \in Clients, conn[c].phase # "off", RefuseHandshake(c),
         UNCHANGED <<contract, revision, nodes, creator, streams>>
  PROVE  LifeIInv'
<1> DEFINE n == [NoConn EXCEPT !.phase = "ending"]
<1>1. n \in Connections /\ n.phase = "ending"
  BY FreshTypes DEF Connections, NoConn
<1>2. told[c] \in Contracts /\ told' = [told EXCEPT ![c] = told[c]] /\ life' = life
  BY DEF LifeIInv, LifeTypeOK, RefuseHandshake
<1>3. conn' = [conn EXCEPT ![c] = n]
  BY DEF RefuseHandshake
<1> HIDE DEF n
<1> QED BY <1>1, <1>2, <1>3, HandshakeMoves

\* Every way into a subscription records, as told, the contract the session has.
LEMMA StepSubscribe ==
  ASSUME LifeIInv, NEW c \in Clients, conn[c].phase # "off", NEW promise, promise = contract,
         subscribe_client_locked(c, promise),
         UNCHANGED <<contract, revision, nodes, creator, streams>>
  PROVE  LifeIInv'
<1> DEFINE live == [NoConn EXCEPT !.phase = "live"]
           ending == [NoConn EXCEPT !.phase = "ending"]
<1>1. /\ live \in Connections /\ live.phase = "live"
      /\ ending \in Connections /\ ending.phase = "ending"
  BY FreshTypes DEF Connections, NoConn
<1>2. /\ told[c] \in Contracts /\ told = [told EXCEPT ![c] = told[c]]
      /\ contract \in Contracts /\ life \in Lives
  BY DEF LifeIInv, LifeTypeOK
<1>3. life' = [life EXCEPT !.negotiated = TRUE] /\ life'.negotiated
  BY <1>2 DEF subscribe_client_locked, Lives
<1> HIDE DEF live, ending
<1>4. CASE told' = [told EXCEPT ![c] = promise] /\ conn' = [conn EXCEPT ![c] = live]
  BY <1>1, <1>2, <1>3, <1>4, HandshakeMoves
<1>5. CASE told' = told /\ conn' = [conn EXCEPT ![c] = ending]
  BY <1>1, <1>2, <1>3, <1>5, HandshakeMoves
<1> QED BY <1>4, <1>5 DEF subscribe_client_locked, live, ending

\* One turn of the bootstrap loop.
LEMMA StepBootstrap ==
  ASSUME LifeIInv, NEW c \in Clients, NEW cause \in ResyncCauses, NEW deliverable \in BOOLEAN,
         Bootstrap(c, cause, deliverable)
  PROVE  LifeIInv'
<1>1. /\ conn[c].phase = "asking"
      /\ UNCHANGED <<contract, revision, nodes, creator, streams>>
  BY DEF Bootstrap
<1>2. CASE RefuseHandshake(c)
  BY <1>1, <1>2, StepRefuse
<1>3. CASE subscribe_client_locked(c, contract)
  BY <1>1, <1>3, StepSubscribe
<1>4. CASE /\ conn' = [conn EXCEPT ![c].phase = "exporting", ![c].promise = contract,
                                   ![c].at = revision, ![c].cause = cause]
           /\ UNCHANGED <<life, told>>
  <2> DEFINE n == [conn[c] EXCEPT !.phase = "exporting", !.promise = contract,
                                  !.at = revision, !.cause = cause]
  <2>1. /\ conn[c] \in Connections /\ told[c] \in Contracts /\ contract \in Contracts
        /\ revision \in Nat /\ told = [told EXCEPT ![c] = told[c]]
        /\ conn \in [Clients -> Connections]
    BY DEF LifeIInv, LifeTypeOK
  <2> DEFINE m == [conn[c] EXCEPT !.phase = "exporting", !.promise = contract]
  <2>2. m \in Connections /\ m.phase = "exporting" /\ m.promise = contract
    BY <2>1 DEF Connections
  <2>3. n \in Connections /\ n.phase = "exporting" /\ n.promise = contract
    <3>1. n = [m EXCEPT !.at = revision, !.cause = cause]
      BY <2>1 DEF Connections
    <3> HIDE DEF m, n
    <3> QED BY <2>1, <2>2, <3>1 DEF Connections
  <2>4. conn' = [conn EXCEPT ![c] = n] /\ life' = life /\ told' = told
    BY <2>1, <1>4 DEF Connections
  <2> HIDE DEF n
  <2> QED BY <1>1, <2>1, <2>3, <2>4, HandshakeMoves
<1> QED BY <1>2, <1>3, <1>4 DEF Bootstrap

\* The answer after the export: the captured promise is still the session's.
LEMMA StepExported ==
  ASSUME LifeIInv, NEW c \in Clients, NEW cause \in ResyncCauses, NEW deliverable \in BOOLEAN,
         Exported(c, cause, deliverable)
  PROVE  LifeIInv'
<1>1. /\ conn[c].phase = "exporting" /\ conn[c].promise = contract
      /\ UNCHANGED <<contract, revision, nodes, creator, streams>>
  BY DEF Exported, LifeIInv, PromiseInv
<1>2. CASE RefuseHandshake(c)
  BY <1>1, <1>2, StepRefuse
<1>3. CASE subscribe_client_locked(c, IF cause = "hello" THEN conn[c].promise ELSE contract)
  BY <1>1, <1>3, StepSubscribe
<1>4. CASE /\ conn' = [conn EXCEPT ![c].phase = "asking", ![c].attempts = @ + 1]
           /\ UNCHANGED <<life, told>>
  <2> DEFINE n == [conn[c] EXCEPT !.phase = "asking", !.attempts = conn[c].attempts + 1]
  <2>1. /\ conn[c] \in Connections /\ told[c] \in Contracts
        /\ told = [told EXCEPT ![c] = told[c]] /\ conn \in [Clients -> Connections]
    BY DEF LifeIInv, LifeTypeOK
  <2>2. n \in Connections /\ n.phase = "asking"
    <3>1. conn[c].attempts + 1 \in Nat
      BY <2>1 DEF Connections
    <3> QED BY <2>1, <3>1 DEF Connections
  <2>3. conn' = [conn EXCEPT ![c] = n] /\ life' = life /\ told' = told
    BY <2>1, <1>4 DEF Connections
  <2> HIDE DEF n
  <2> QED BY <1>1, <2>1, <2>2, <2>3, HandshakeMoves
<1> QED BY <1>2, <1>3, <1>4 DEF Exported

\* Ending the session, shutting its terminals down, a transaction, and the pty.
LEMMA PromiseUntouched ==
  ASSUME LifeIInv, UNCHANGED <<contract, conn, told>>, LifeTypeOK',
         life'.attached = life.attached, life'.negotiated = life.negotiated,
         life'.state = life.state \/ is_terminal(life'.state)
  PROVE  LifeIInv'
<1>1. Attached' = Attached
  BY DEF Attached
<1>2. CountInv'
  BY <1>1 DEF LifeIInv, CountInv
<1>3. PromiseInv'
  BY DEF LifeIInv, PromiseInv
<1> QED BY <1>2, <1>3 DEF LifeIInv

\* Ending the session, its terminals or a transaction leaves the contract alone.
LEMMA StepSession ==
  ASSUME LifeIInv, terminate \/ expire \/ shutdown_terminals \/ Commit
  PROVE  LifeIInv'
<1>1. life \in Lives
  BY DEF LifeIInv, LifeTypeOK
<1>2. CASE terminate \/ expire
  <2>1. PICK state \in {"terminating", "expired"} : End(state)
    BY <1>2 DEF terminate, expire
  <2>2. /\ life' \in Lives /\ life'.attached = life.attached
        /\ life'.negotiated = life.negotiated /\ life'.state = state
    BY <1>1, <2>1 DEF End, Lives
  <2>3. LifeTypeOK' /\ UNCHANGED <<contract, conn, told>>
    BY <2>1, <2>2 DEF LifeIInv, LifeTypeOK, End
  <2> QED BY <2>2, <2>3, PromiseUntouched DEF is_terminal
<1>3. CASE shutdown_terminals
  <2>1. /\ life' \in Lives /\ life'.attached = life.attached
        /\ life'.negotiated = life.negotiated /\ life'.state = life.state
    BY <1>1, <1>3 DEF shutdown_terminals, Lives
  <2>2. LifeTypeOK' /\ UNCHANGED <<contract, conn, told>>
    BY <1>3, <2>1 DEF LifeIInv, LifeTypeOK, shutdown_terminals
  <2> QED BY <2>1, <2>2, PromiseUntouched
<1>4. CASE Commit
  <2>1. LifeTypeOK' /\ UNCHANGED <<contract, conn, told, life>>
    BY <1>4 DEF LifeIInv, LifeTypeOK, Commit
  <2> QED BY <2>1, PromiseUntouched
<1> QED BY <1>2, <1>3, <1>4

\* The promise changes, but only while it is open: nobody has seen it.
LEMMA PromiseChanges ==
  ASSUME LifeIInv, Unpromised, UNCHANGED <<life, conn, told>>, LifeTypeOK'
  PROVE  LifeIInv'
<1>1. \A c \in Clients : told[c] = NotTold /\ conn[c].phase = "off"
  BY OpenToAll
<1>2. Attached' = Attached
  BY DEF Attached
<1>3. CountInv'
  BY <1>2 DEF LifeIInv, CountInv
<1>4. PromiseInv'
  BY <1>1 DEF LifeIInv, PromiseInv
<1> QED BY <1>3, <1>4 DEF LifeIInv

\* A profile is registered and, if it has none, given a namespace.
LEMMA StepRegister ==
  ASSUME LifeIInv, NEW p \in {coding_v1, terminal_v1}, register_optional_extension_profile(p)
  PROVE  LifeIInv' /\ contract.table \subseteq contract'.table
<1> DEFINE ns == next_extension_namespace(contract.table)
           mappings == IF MappingsOf(contract.table, p) # {} THEN contract.table
                    ELSE contract.table \cup {[uri |-> p, namespace |-> ns]}
<1>1. contract \in Contracts /\ IsFiniteSet(contract.table) /\ p \in Profiles
  BY DEF LifeIInv, LifeTypeOK, Profiles
<1>2. contract.table \in SUBSET [uri : Profiles, namespace : Nat]
  BY <1>1 DEF Contracts
<1>3. ns \in Nat
  BY <1>1, <1>2, NamespaceFound
<1>4. mappings \in SUBSET [uri : Profiles, namespace : Nat] /\ contract.table \subseteq mappings
  BY <1>1, <1>2, <1>3
<1>5. IsFiniteSet(mappings)
  BY <1>1, FS_AddElement
<1>6. /\ Unpromised /\ UNCHANGED <<life, conn, told>>
      /\ contract' = [contract EXCEPT !.optional = contract.optional \cup {p}, !.table = mappings]
  BY <1>1 DEF register_optional_extension_profile, Contracts
<1> HIDE DEF mappings
<1>7. contract' \in Contracts /\ contract'.table = mappings
  BY <1>1, <1>4, <1>6 DEF Contracts
<1>8. LifeTypeOK'
  BY <1>5, <1>6, <1>7 DEF LifeIInv, LifeTypeOK, register_optional_extension_profile
<1> QED BY <1>4, <1>6, <1>7, <1>8, PromiseChanges

\* The type of a terminal is prepared: the profile is required and has a namespace,
\* an old one or a new one that nothing uses.
LEMMA StepPrepare ==
  ASSUME LifeIInv, NEW k \in Creators, prepare_terminal_type(k)
  PROVE  /\ LifeIInv' /\ contract.table \subseteq contract'.table
         /\ creator'[k].step # "idle" =>
              /\ \E m \in contract'.table : m.namespace = creator'[k].namespace
              /\ creator'[k].created # 0 =>
                   \A m \in contract.table : m.namespace # creator'[k].created
         /\ \A j \in Creators \ {k} : creator'[j] = creator[j]
<1>1. /\ contract \in Contracts /\ IsFiniteSet(contract.table)
      /\ contract.table \in SUBSET [uri : Profiles, namespace : Nat]
      /\ creator \in [Creators -> Creations] /\ creator[k].step = "idle"
  BY DEF LifeIInv, LifeTypeOK, Contracts, prepare_terminal_type
<1>2. UNCHANGED <<life, revision, nodes, conn, told, streams>>
  BY DEF prepare_terminal_type
<1>3. CASE ~Unpromised
  <2> DEFINE n == [creator[k] EXCEPT !.runs = creator[k].runs + 1]
  <2>1. creator[k].runs + 1 \in Nat
    BY <1>1 DEF Creations
  <2>2. n \in Creations /\ n.step = "idle"
    BY <1>1, <2>1 DEF Creations
  <2>3. creator' = [creator EXCEPT ![k] = n] /\ contract' = contract
    BY <1>1, <1>3 DEF prepare_terminal_type, Creations
  <2> HIDE DEF n
  <2>4. creator'[k].step = "idle" /\ \A j \in Creators \ {k} : creator'[j] = creator[j]
    BY <1>1, <2>2, <2>3
  <2>5. LifeTypeOK'
    BY <1>1, <1>2, <2>2, <2>3 DEF LifeIInv, LifeTypeOK
  <2> QED BY <1>2, <2>3, <2>4, <2>5, PromiseUntouched
<1>4. CASE Unpromised
  <2> DEFINE mapped == MappingsOf(contract.table, terminal_v1)
             fresh == next_extension_namespace(contract.table)
             ns == IF mapped = {} THEN fresh ELSE (CHOOSE m \in mapped : TRUE).namespace
             mappings == contract.table \cup {[uri |-> terminal_v1, namespace |-> ns]}
             n == [step |-> "prepared", namespace |-> ns, runs |-> creator[k].runs + 1,
                   was_required |-> terminal_v1 \in contract.required,
                   was_optional |-> terminal_v1 \in contract.optional,
                   created |-> IF mapped = {} THEN ns ELSE 0]
             new == [required |-> contract.required \cup {terminal_v1},
                     optional |-> contract.optional \ {terminal_v1}, table |-> mappings]
  <2>1. creator' = [creator EXCEPT ![k] = n] /\ contract' = new
    BY <1>1, <1>4 DEF prepare_terminal_type
  <2>2. fresh \in Nat \ {0} /\ \A m \in contract.table : m.namespace # fresh
    BY <1>1, NamespaceFound
  <2>3. mapped # {} => (CHOOSE m \in mapped : TRUE) \in contract.table
    BY DEF MappingsOf
  <2> HIDE DEF mapped, fresh
  <2>4. ns \in Nat
    BY <1>1, <2>2, <2>3
  <2>5. n.created # 0 => \A m \in contract.table : m.namespace # n.created
    BY <2>2
  <2> HIDE DEF ns
  <2>6. terminal_v1 \in Profiles
    BY DEF Profiles
  <2>7. mappings \in SUBSET [uri : Profiles, namespace : Nat] /\ contract.table \subseteq mappings
    BY <1>1, <2>4, <2>6
  <2>8. IsFiniteSet(mappings)
    BY <1>1, FS_AddElement
  <2>9. \E m \in mappings : m.namespace = ns
    <3>1. [uri |-> terminal_v1, namespace |-> ns] \in mappings
      OBVIOUS
    <3> QED BY <3>1
  <2>10. contract.required \cup {terminal_v1} \in SUBSET Profiles
         /\ contract.optional \ {terminal_v1} \in SUBSET Profiles
    BY <1>1, <2>6 DEF Contracts
  <2> HIDE DEF mappings
  <2>11. new \in Contracts /\ new.table = mappings
    BY <2>7, <2>10 DEF Contracts
  <2>12. n \in Creations /\ n.namespace = ns
    <3>1. creator[k].runs + 1 \in Nat
      BY <1>1 DEF Creations
    <3>2. n.created \in Nat
      BY <2>4
    <3> QED BY <3>1, <3>2, <2>4 DEF Creations
  <2> HIDE DEF n, new
  <2>13. LifeTypeOK'
    BY <1>1, <1>2, <2>1, <2>8, <2>11, <2>12 DEF LifeIInv, LifeTypeOK
  <2>14. LifeIInv'
    BY <1>2, <1>4, <2>13, PromiseChanges
  <2>15. creator'[k] = n /\ \A j \in Creators \ {k} : creator'[j] = creator[j]
    BY <1>1, <2>1
  <2> QED BY <2>1, <2>5, <2>7, <2>9, <2>11, <2>12, <2>14, <2>15
<1> QED BY <1>3, <1>4

\* The pty is spawned or closed: the promise is not touched.
LEMMA StepPty ==
  ASSUME LifeIInv, NEW k \in Creators, ClosePty(k) \/ \E ok \in BOOLEAN : SpawnPty(k, ok)
  PROVE  /\ LifeIInv' /\ UNCHANGED <<contract, nodes>> /\ creator[k].step # "idle"
         /\ creator'[k].namespace = creator[k].namespace
         /\ creator'[k].created = creator[k].created
         /\ \A j \in Creators \ {k} : creator'[j] = creator[j]
<1>1. /\ creator \in [Creators -> Creations] /\ streams \in SUBSET Creators
      /\ creator[k].step # "idle"
  BY DEF LifeIInv, LifeTypeOK, ClosePty, SpawnPty
<1>2. UNCHANGED <<life, contract, revision, nodes, conn, told>> /\ streams' \in SUBSET Creators
  BY <1>1 DEF ClosePty, SpawnPty
<1>3. PICK step \in {"spawned", "undoing"} : creator' = [creator EXCEPT ![k].step = step]
  BY DEF ClosePty, SpawnPty
<1> DEFINE n == [creator[k] EXCEPT !.step = step]
<1>4. /\ n \in Creations /\ n.namespace = creator[k].namespace /\ n.created = creator[k].created
      /\ creator' = [creator EXCEPT ![k] = n]
  BY <1>1, <1>3 DEF Creations
<1> HIDE DEF n
<1>5. creator'[k] = n /\ \A j \in Creators \ {k} : creator'[j] = creator[j]
  BY <1>1, <1>4
<1>6. LifeTypeOK'
  BY <1>1, <1>2, <1>4 DEF LifeIInv, LifeTypeOK
<1>7. LifeIInv'
  BY <1>2, <1>6, PromiseUntouched
<1> QED BY <1>1, <1>2, <1>4, <1>5, <1>7

\* The node is committed with the type that was prepared, or refused.
LEMMA StepCommitTerminal ==
  ASSUME LifeIInv, NEW k \in Creators, NEW ok \in BOOLEAN, CommitTerminal(k, ok)
  PROVE  /\ LifeIInv' /\ UNCHANGED contract /\ creator[k].step # "idle"
         /\ \/ creator'[k].step = "idle" /\ nodes' = nodes \cup {creator[k].namespace}
            \/ /\ nodes' = nodes
               /\ creator'[k].namespace = creator[k].namespace
               /\ creator'[k].created = creator[k].created
         /\ \A j \in Creators \ {k} : creator'[j] = creator[j]
<1>1. /\ creator \in [Creators -> Creations] /\ creator[k] \in Creations
      /\ creator[k].step # "idle" /\ creator[k].namespace \in Nat /\ creator[k].runs \in Nat
      /\ UNCHANGED <<life, contract, conn, told, streams>>
  BY DEF LifeIInv, LifeTypeOK, CommitTerminal, Creations
<1>2. CASE ok /\ revision < MaxCommits
  <2> DEFINE n == [NoCreation EXCEPT !.runs = creator[k].runs]
  <2>1. n \in Creations /\ n.step = "idle"
    BY <1>1, FreshTypes DEF Creations, NoCreation
  <2>2. /\ nodes' = nodes \cup {creator[k].namespace} /\ revision' = revision + 1
        /\ creator' = [creator EXCEPT ![k] = n]
    BY <1>2 DEF CommitTerminal
  <2> HIDE DEF n
  <2>3. creator'[k] = n /\ \A j \in Creators \ {k} : creator'[j] = creator[j]
    BY <1>1, <2>2
  <2>4. LifeTypeOK'
    <3>1. revision \in Nat /\ nodes \in SUBSET Nat
      BY DEF LifeIInv, LifeTypeOK
    <3>2. revision' \in Nat
      BY <2>2, <3>1
    <3>3. nodes' \in SUBSET Nat
      BY <1>1, <2>2, <3>1
    <3> QED BY <1>1, <2>1, <2>2, <3>2, <3>3 DEF LifeIInv, LifeTypeOK
  <2>5. LifeIInv'
    BY <1>1, <2>4, PromiseUntouched
  <2> QED BY <1>1, <2>1, <2>2, <2>3, <2>5
<1>3. CASE ~(ok /\ revision < MaxCommits)
  <2> DEFINE n == [creator[k] EXCEPT !.step = "closing"]
  <2>1. n \in Creations /\ n.namespace = creator[k].namespace /\ n.created = creator[k].created
    BY <1>1 DEF Creations
  <2>2. nodes' = nodes /\ revision' = revision /\ creator' = [creator EXCEPT ![k] = n]
    BY <1>1, <1>3 DEF CommitTerminal, Creations
  <2> HIDE DEF n
  <2>3. creator'[k] = n /\ \A j \in Creators \ {k} : creator'[j] = creator[j]
    BY <1>1, <2>2
  <2>4. LifeTypeOK'
    BY <1>1, <2>1, <2>2 DEF LifeIInv, LifeTypeOK
  <2>5. LifeIInv'
    BY <1>1, <2>4, PromiseUntouched
  <2> QED BY <1>1, <2>1, <2>2, <2>3, <2>5
<1> QED BY <1>2, <1>3

\* The type is taken back, if the promise is still open: at most the namespace this
\* creation added goes.
LEMMA StepRollback ==
  ASSUME LifeIInv, NEW k \in Creators, rollback_terminal_type(k)
  PROVE  /\ LifeIInv' /\ UNCHANGED nodes /\ creator[k].step # "idle" /\ creator'[k].step = "idle"
         /\ \A m \in contract.table :
              m \in contract'.table \/ (creator[k].created # 0 /\ m.namespace = creator[k].created)
         /\ \A j \in Creators \ {k} : creator'[j] = creator[j]
<1> DEFINE r == creator[k]
           n == [NoCreation EXCEPT !.runs = r.runs]
           required == IF r.was_required THEN contract.required ELSE contract.required \ {terminal_v1}
           optional == contract.optional \cup (IF r.was_optional THEN {terminal_v1} ELSE {})
           mappings == IF r.created = 0 THEN contract.table
                    ELSE {m \in contract.table : m.namespace # r.created}
           old == [required |-> required, optional |-> optional, table |-> mappings]
<1>1. /\ creator \in [Creators -> Creations] /\ r.runs \in Nat
      /\ contract \in Contracts /\ IsFiniteSet(contract.table)
      /\ contract.table \in SUBSET [uri : Profiles, namespace : Nat]
  BY DEF LifeIInv, LifeTypeOK, Creations, Contracts
<1>2. n \in Creations /\ n.step = "idle"
  BY <1>1, FreshTypes DEF Creations, NoCreation
<1>3. /\ creator[k].step = "undoing" /\ creator' = [creator EXCEPT ![k] = n]
      /\ UNCHANGED <<life, revision, nodes, conn, told, streams>>
      /\ contract' = IF ~MayRollBack THEN contract ELSE old
  BY DEF rollback_terminal_type
<1> HIDE DEF n
<1>4. creator'[k] = n /\ \A j \in Creators \ {k} : creator'[j] = creator[j]
  BY <1>1, <1>3
<1>5. CASE ~MayRollBack
  <2>1. LifeTypeOK' /\ contract' = contract
    BY <1>1, <1>2, <1>3, <1>5 DEF LifeIInv, LifeTypeOK
  <2>2. LifeIInv'
    BY <1>3, <2>1, PromiseUntouched
  <2> QED BY <1>2, <1>3, <1>4, <2>1, <2>2
<1>6. CASE MayRollBack
  <2>1. mappings \in SUBSET contract.table /\ IsFiniteSet(mappings)
    BY <1>1, FS_Subset
  <2>2. required \in SUBSET Profiles /\ optional \in SUBSET Profiles
    BY <1>1 DEF Contracts, Profiles
  <2>3. \A m \in contract.table : m \in mappings \/ (r.created # 0 /\ m.namespace = r.created)
    OBVIOUS
  <2> HIDE DEF mappings, required, optional
  <2>4. old \in Contracts /\ old.table = mappings
    BY <1>1, <2>1, <2>2 DEF Contracts
  <2>5. LifeTypeOK' /\ contract' = old
    BY <1>1, <1>2, <1>3, <1>6, <2>1, <2>4 DEF LifeIInv, LifeTypeOK
  <2>6. LifeIInv'
    BY <1>3, <1>6, <2>5, PromiseChanges DEF MayRollBack
  <2> QED BY <1>2, <1>3, <1>4, <2>3, <2>4, <2>5, <2>6
<1> QED BY <1>5, <1>6

-----------------------------------------------------------------------------
(* The theorems. *)

\* LifeIInv speaks of the lifecycle variables only.
LEMMA StutterLifeIInv ==
  ASSUME LifeIInv, UNCHANGED lifeVars
  PROVE  LifeIInv'
<1>1. LifeTypeOK' /\ UNCHANGED <<life, contract, conn, told>>
  BY DEF LifeIInv, LifeTypeOK, lifeVars
<1> QED BY <1>1, PromiseUntouched

\* LifeIInv is inductive.
LEMMA NextLifeIInv ==
  ASSUME LifeIInv, [LifeNext]_lifeVars
  PROVE  LifeIInv'
BY StepAttach, StepDetach, StepRequest, StepBootstrap, StepExported, StepSession, StepRegister,
   StepPrepare, StepPty, StepCommitTerminal, StepRollback, StutterLifeIInv
   DEF LifeNext

\* The inductive invariant holds of every session: the attachments are counted, and
\* whoever relies on the promise keeps it closed.
THEOREM LifeInvariance == LifeSpec => []LifeIInv
BY InitLifeIInv, NextLifeIInv, PTL DEF LifeSpec

\* Whatever a client was told in a welcome, a resume or a resync stays the session's
\* contract: registering an extension, preparing a terminal and rolling it back all ask
\* first whether a client is attached or has negotiated.
THEOREM ContractIsKept == LifeSpec => []ContractKept
<1>1. LifeIInv => ContractKept
  BY DEF LifeIInv, PromiseInv, ContractKept
<1> QED BY <1>1, LifeInvariance, PTL

\* An ended session stays ended, and a living one is attached exactly when a connection
\* holds a guard, whichever way attach, detach, terminate and expire interleave.
THEOREM LifecycleIsSound == LifeSpec => LifecycleSound
<1> DEFINE Sound ==
       /\ is_terminal(life.state) => is_terminal(life'.state)
       /\ life'.attached = Cardinality({c \in Clients : conn'[c].phase # "off"})
       /\ ~is_terminal(life'.state) => (life'.state = "attached") = (life'.attached > 0)
<1>1. ASSUME LifeIInv, LifeIInv', [LifeNext]_lifeVars PROVE [Sound]_lifeVars
  <2>1. is_terminal(life.state) => is_terminal(life'.state)
    <3>1. life \in Lives
      BY <1>1 DEF LifeIInv, LifeTypeOK
    <3>2. CASE life' = life
      BY <3>2
    <3>3. CASE \E c \in Clients : attach(c)
      BY <3>3 DEF attach
    <3>4. CASE \E c \in Clients : Detach(c)
      BY <3>1, <3>4 DEF Detach, detach_internal, Lives, is_terminal
    <3>5. CASE terminate \/ expire
      BY <3>1, <3>5 DEF terminate, expire, End, Lives, is_terminal
    <3>6. CASE shutdown_terminals
      BY <3>1, <3>6 DEF shutdown_terminals, Lives
    <3>7. CASE \E c \in Clients : \E promise \in {contract, conn[c].promise} :
                 subscribe_client_locked(c, promise)
      BY <3>1, <3>7 DEF subscribe_client_locked, Lives
    <3>8. \/ life' = life \/ terminate \/ expire \/ shutdown_terminals
          \/ \E c \in Clients : attach(c) \/ Detach(c)
          \/ \E c \in Clients : \E promise \in {contract, conn[c].promise} :
               subscribe_client_locked(c, promise)
      <4>1. ASSUME NEW c \in Clients, NEW cause, NEW deliverable, Bootstrap(c, cause, deliverable)
            PROVE  life' = life \/ subscribe_client_locked(c, contract)
        BY <4>1 DEF Bootstrap, RefuseHandshake
      <4>2. ASSUME NEW c \in Clients, NEW cause, NEW deliverable, Exported(c, cause, deliverable)
            PROVE  \/ life' = life
                   \/ subscribe_client_locked(c, IF cause = "hello" THEN conn[c].promise ELSE contract)
        BY <4>2 DEF Exported, RefuseHandshake
      <4>3. ASSUME NEW c \in Clients, \E request \in Requests[c] : Request(c, request)
            PROVE  life' = life
        BY <4>3 DEF Request
      <4>4. ASSUME NEW k \in Creators,
                   \/ prepare_terminal_type(k) \/ ClosePty(k) \/ rollback_terminal_type(k)
                   \/ \E ok \in BOOLEAN : SpawnPty(k, ok) \/ CommitTerminal(k, ok)
            PROVE  life' = life
        BY <4>4 DEF prepare_terminal_type, ClosePty, rollback_terminal_type, SpawnPty, CommitTerminal
      <4>5. ASSUME UNCHANGED lifeVars \/ Commit
                   \/ \E p \in {coding_v1, terminal_v1} : register_optional_extension_profile(p)
            PROVE  life' = life
        BY <4>5 DEF lifeVars, Commit, register_optional_extension_profile
      <4> QED BY <1>1, <4>1, <4>2, <4>3, <4>4, <4>5 DEF LifeNext
    <3> QED BY <3>2, <3>3, <3>4, <3>5, <3>6, <3>7, <3>8
  <2>2. life'.attached = Cardinality({c \in Clients : conn'[c].phase # "off"})
    BY <1>1 DEF LifeIInv, CountInv, Attached
  <2>3. ~is_terminal(life'.state) => (life'.state = "attached") = (life'.attached > 0)
    BY <1>1 DEF LifeIInv, CountInv
  <2> QED BY <2>1, <2>2, <2>3
<1>2. LifeIInv /\ LifeIInv' /\ [LifeNext]_lifeVars => [Sound]_lifeVars
  BY <1>1
<1> QED BY <1>2, LifeInvariance, PTL DEF LifeSpec, LifecycleSound

-----------------------------------------------------------------------------
(***************************************************************************)
(* Types stay decodable as long as one thread at a time creates terminals;     *)
(* with two, the roll-back of one may take the namespace the other has used.   *)
(***************************************************************************)

DecodableInv ==
  /\ TypesDecodable
  /\ \A k \in Creators : creator[k].step # "idle" =>
       /\ \E m \in contract.table : m.namespace = creator[k].namespace
       /\ creator[k].created # 0 => creator[k].created \notin nodes

\* A creation in progress has its namespace in the mappings and, if it added it, no node
\* uses it yet: taking it back leaves every node's type explained.
THEOREM OneCreatorDecodable ==
  ASSUME \A j, k \in Creators : j = k
  PROVE  LifeSpec => []TypesDecodable
<1>1. LifeInit => DecodableInv
  BY DEF LifeInit, DecodableInv, TypesDecodable, NoCreation
<1>2. ASSUME LifeIInv, DecodableInv, [LifeNext]_lifeVars PROVE DecodableInv'
  <2>1. CASE UNCHANGED <<contract, nodes, creator>>
    BY <1>2, <2>1 DEF DecodableInv, TypesDecodable
  <2>2. CASE \E p \in {coding_v1, terminal_v1} : register_optional_extension_profile(p)
    <3>1. contract.table \subseteq contract'.table /\ UNCHANGED <<nodes, creator>>
      BY <1>2, <2>2, StepRegister DEF register_optional_extension_profile
    <3> QED BY <1>2, <3>1 DEF DecodableInv, TypesDecodable
  <2>3. ASSUME NEW k \in Creators, prepare_terminal_type(k) PROVE DecodableInv'
    <3>1. /\ contract.table \subseteq contract'.table
          /\ creator'[k].step # "idle" =>
               /\ \E m \in contract'.table : m.namespace = creator'[k].namespace
               /\ creator'[k].created # 0 =>
                    \A m \in contract.table : m.namespace # creator'[k].created
          /\ \A j \in Creators : j = k
          /\ nodes' = nodes
      BY <1>2, <2>3, StepPrepare DEF prepare_terminal_type
    <3> QED BY <1>2, <3>1 DEF DecodableInv, TypesDecodable
  <2>4. ASSUME NEW k \in Creators, ClosePty(k) \/ \E ok \in BOOLEAN : SpawnPty(k, ok)
        PROVE  DecodableInv'
    <3>1. /\ UNCHANGED <<contract, nodes>> /\ creator[k].step # "idle"
          /\ creator'[k].namespace = creator[k].namespace
          /\ creator'[k].created = creator[k].created
          /\ \A j \in Creators : j = k
      BY <1>2, <2>4, StepPty
    <3> QED BY <1>2, <3>1 DEF DecodableInv, TypesDecodable
  <2>5. ASSUME NEW k \in Creators, NEW ok \in BOOLEAN, CommitTerminal(k, ok)
        PROVE  DecodableInv'
    <3>1. /\ UNCHANGED contract /\ creator[k].step # "idle" /\ \A j \in Creators : j = k
          /\ \/ creator'[k].step = "idle" /\ nodes' = nodes \cup {creator[k].namespace}
             \/ /\ nodes' = nodes
                /\ creator'[k].namespace = creator[k].namespace
                /\ creator'[k].created = creator[k].created
      BY <1>2, <2>5, StepCommitTerminal
    <3> QED BY <1>2, <3>1 DEF DecodableInv, TypesDecodable
  <2>6. ASSUME NEW k \in Creators, rollback_terminal_type(k) PROVE DecodableInv'
    <3>1. /\ nodes' = nodes /\ creator[k].step # "idle" /\ creator'[k].step = "idle"
          /\ \A m \in contract.table :
               m \in contract'.table \/ (creator[k].created # 0 /\ m.namespace = creator[k].created)
          /\ \A j \in Creators : j = k
      BY <1>2, <2>6, StepRollback
    <3> QED BY <1>2, <3>1 DEF DecodableInv, TypesDecodable
  <2>7. \/ UNCHANGED <<contract, nodes, creator>>
        \/ \E p \in {coding_v1, terminal_v1} : register_optional_extension_profile(p)
        \/ \E k \in Creators :
             \/ prepare_terminal_type(k) \/ ClosePty(k) \/ rollback_terminal_type(k)
             \/ \E ok \in BOOLEAN : SpawnPty(k, ok) \/ CommitTerminal(k, ok)
    <3>1. ASSUME NEW c \in Clients,
                 \/ attach(c) \/ Detach(c) \/ \E request \in Requests[c] : Request(c, request)
                 \/ \E cause \in ResyncCauses, deliverable \in BOOLEAN :
                      Bootstrap(c, cause, deliverable) \/ Exported(c, cause, deliverable)
          PROVE  UNCHANGED <<contract, nodes, creator>>
      BY <3>1 DEF attach, Detach, Request, Bootstrap, Exported
    <3>2. ASSUME terminate \/ expire \/ shutdown_terminals \/ Commit \/ UNCHANGED lifeVars
          PROVE  UNCHANGED <<contract, nodes, creator>>
      BY <3>2 DEF terminate, expire, End, shutdown_terminals, Commit, lifeVars
    <3> QED BY <1>2, <3>1, <3>2 DEF LifeNext
  <2> QED BY <2>1, <2>2, <2>3, <2>4, <2>5, <2>6, <2>7
<1>3. LifeIInv /\ DecodableInv /\ [LifeNext]_lifeVars => DecodableInv'
  BY <1>2
<1>4. DecodableInv => TypesDecodable
  BY DEF DecodableInv
<1> QED BY <1>1, <1>3, <1>4, LifeInvariance, PTL DEF LifeSpec

-----------------------------------------------------------------------------
(***************************************************************************)
(* DaemonStart.  Any number of servers that share the lock of a path       *)
(* (sessiond, the process monitor, the coding agent) are started, stopped  *)
(* and killed on any paths: a server that is ready stays the one its path  *)
(* leads to.                                                               *)
(*                                                                         *)
(* The argument: the lock file of a path is never replaced, a lock has one *)
(* holder, and a server holds the lock of its path from its lock step to   *)
(* its end; so whoever unlinks, binds or removes an entry is the only      *)
(* server of the path that has come so far.                                *)
(***************************************************************************)

LockedPrograms == {"sessiond", "monitor", "agent"}

\* The servers that meet are ones that take the lock.
LockedScenes == \A scene \in Scenes : scene \in [Servers -> LockedPrograms]

\* A command line that is accepted is understood: the path it leads to is the one
\* it names.
CommandLinesUnderstood ==
  \A name \in LockedPrograms : \A args \in Argv[name] :
    Parsed(name, args).ok => Parsed(name, args).path = Asked(args) /\ Asked(args) \in Paths

PathsNamed == DefaultPath \in Paths

StepNames == {"parent", "mkdir", "open_lock", "lock", "probe", "unlink", "bind", "bind_narrow",
              "secure", "identity", "init", "close", "drain", "drain_or_abort", "remove"}

\* The place of the lock and of the bind among the steps of a start.
StepsOf(name) == Programs[name].start
SizeOf(name) == IF name = "agent" THEN 8 ELSE 9
LockAt(name) == IF name = "agent" THEN 4 ELSE 3
BindAt(name) == IF name = "agent" THEN 7 ELSE 6

\* The steps of a start, by place: what comes before the lock, the lock, and what
\* only comes after it.
LEMMA StepPlaces ==
  ASSUME NEW name \in LockedPrograms
  PROVE  /\ Len(StepsOf(name)) = SizeOf(name)
         /\ StepsOf(name) \in Seq(StepNames)
         /\ \A i \in 1 .. SizeOf(name) :
              /\ StepsOf(name)[i] = "open_lock" <=> i = LockAt(name) - 1
              /\ StepsOf(name)[i] = "lock" <=> i = LockAt(name)
              /\ StepsOf(name)[i] \in {"bind", "bind_narrow"} <=> i = BindAt(name)
              /\ StepsOf(name)[i] \in {"unlink", "secure"} => i > LockAt(name)
              /\ StepsOf(name)[i] = "unlink" => i < BindAt(name)
              /\ StepsOf(name)[i] \notin {"close", "drain", "drain_or_abort", "remove"}
<1>1. CASE name = "agent"
  <2>1. StepsOf(name) = <<"init", "mkdir", "open_lock", "lock", "probe", "unlink",
                          "bind_narrow", "identity">>
    BY <1>1 DEF StepsOf, Programs, coding_agent
  <2>2. Len(StepsOf(name)) = 8 /\ StepsOf(name) \in Seq(StepNames)
    BY <2>1 DEF StepNames
  <2>3. \A i \in 1 .. 8 :
              /\ StepsOf(name)[i] = "open_lock" <=> i = 3
              /\ StepsOf(name)[i] = "lock" <=> i = 4
              /\ StepsOf(name)[i] \in {"bind", "bind_narrow"} <=> i = 7
              /\ StepsOf(name)[i] \in {"unlink", "secure"} => i > 4
              /\ StepsOf(name)[i] = "unlink" => i < 7
              /\ StepsOf(name)[i] \notin {"close", "drain", "drain_or_abort", "remove"}
    BY <2>1
  <2>4. QED
    BY <1>1, <2>2, <2>3 DEF SizeOf, LockAt, BindAt
<1>2. CASE name # "agent"
  <2>1. StepsOf(name) = Append(LockedBind, "init")
    BY <1>2 DEF StepsOf, Programs, sessiond, process_monitor, monitor_bind_owned_socket,
                LockedPrograms
  <2>2. /\ LockedBind \in Seq(StepNames) /\ Len(LockedBind) = 8
    BY DEF LockedBind, StepNames
  <2>3. /\ StepsOf(name) \in Seq(StepNames) /\ Len(StepsOf(name)) = 9
        /\ \A i \in 1 .. 8 : StepsOf(name)[i] = LockedBind[i]
        /\ StepsOf(name)[9] = "init"
    <3>1. "init" \in StepNames
      BY DEF StepNames
    <3>2. \A s \in Seq(StepNames), e \in StepNames :
            /\ Append(s, e) \in Seq(StepNames) /\ Len(Append(s, e)) = Len(s) + 1
            /\ \A i \in 1 .. Len(s) : Append(s, e)[i] = s[i]
            /\ Append(s, e)[Len(s) + 1] = e
      OBVIOUS
    <3>3. /\ Append(LockedBind, "init") \in Seq(StepNames)
          /\ Len(Append(LockedBind, "init")) = Len(LockedBind) + 1
          /\ \A i \in 1 .. Len(LockedBind) : Append(LockedBind, "init")[i] = LockedBind[i]
          /\ Append(LockedBind, "init")[Len(LockedBind) + 1] = "init"
      BY <2>2, <3>1, <3>2
    <3>4. QED
      BY <2>1, <2>2, <3>3
  <2>4. \A i \in 1 .. 8 :
              /\ LockedBind[i] = "open_lock" <=> i = 2
              /\ LockedBind[i] = "lock" <=> i = 3
              /\ LockedBind[i] \in {"bind", "bind_narrow"} <=> i = 6
              /\ LockedBind[i] \in {"unlink", "secure"} => i > 3
              /\ LockedBind[i] = "unlink" => i < 6
              /\ LockedBind[i] \notin {"close", "drain", "drain_or_abort", "remove"}
    BY DEF LockedBind
  <2>5. QED
    BY <1>2, <2>3, <2>4 DEF SizeOf, LockAt, BindAt, StepNames
<1>3. QED
  BY <1>1, <1>2

\* The steps of a stop touch the path only to give it back; no start fails half-way
\* into a clean-up.
LEMMA StopPlaces ==
  ASSUME NEW name \in LockedPrograms
  PROVE  /\ Programs[name].stop \in Seq(StepNames) /\ Programs[name].stop # <<>>
         /\ \A i \in 1 .. Len(Programs[name].stop) :
              Programs[name].stop[i] \in {"close", "drain", "drain_or_abort", "remove"}
         /\ Programs[name].fail = <<>>
<1>1. CASE name = "sessiond"
  <2>1. /\ Programs[name].stop = <<"drain_or_abort", "close", "remove">>
        /\ Programs[name].fail = <<>>
    BY <1>1 DEF Programs, sessiond
  <2>2. QED
    BY <2>1 DEF StepNames
<1>2. CASE name = "monitor"
  <2>1. Programs[name].stop = <<"close", "drain", "remove">> /\ Programs[name].fail = <<>>
    BY <1>2 DEF Programs, process_monitor
  <2>2. QED
    BY <2>1 DEF StepNames
<1>3. CASE name = "agent"
  <2>1. Programs[name].stop = <<"drain", "remove">> /\ Programs[name].fail = <<>>
    BY <1>3 DEF Programs, coding_agent
  <2>2. QED
    BY <2>1 DEF StepNames
<1>4. QED
  BY <1>1, <1>2, <1>3 DEF LockedPrograms

-----------------------------------------------------------------------------
(* The invariant.                                                          *)

Modes == {"off", "starting", "serving", "stopping"}
Ends == {"never", "clean", "refused", "failed", "killed"}
Kinds == {"missing", "private", "open", "link", "foreign"}

ServerRecords ==
  [mode : Modes, todo : Seq(StepNames),
   path : Paths, asked : Paths, bound : Nat, identity : Int, lock : Nat, conns : Int,
   how : Ends]

FileRecords ==
  [dir : [Paths -> Kinds],
   entry : [Paths -> Int], lockfile : [Paths -> Nat], held : SUBSET (Nat \X Servers),
   live : SUBSET Int, narrow : SUBSET Int, taken : SUBSET Int, made : Nat]

\* Every path has a lock file of its own, and every lock one holder.
FilesOK(fs) ==
  /\ fs \in FileRecords
  /\ \A p \in Paths : fs.lockfile[p] <= fs.made
  /\ \A p, q \in Paths : p # q => fs.lockfile[p] = Absent \/ fs.lockfile[p] # fs.lockfile[q]
  /\ \A g, h \in fs.held : g[1] = h[1] => g[2] = h[2]

\* What is left to do is the end of the list.
EndOf(todo, steps) ==
  /\ todo # <<>> /\ Len(todo) <= Len(steps)
  /\ \A i \in 1 .. Len(todo) : todo[i] = steps[Len(steps) - Len(todo) + i]

DoneSteps(s, name) == SizeOf(name) - Len(s.todo)

Opened(s, name) == \/ s.mode \in {"serving", "stopping"}
                   \/ s.mode = "starting" /\ DoneSteps(s, name) >= LockAt(name) - 1
Holds(s, name) == \/ s.mode \in {"serving", "stopping"}
                  \/ s.mode = "starting" /\ DoneSteps(s, name) >= LockAt(name)
Published(s, name) == \/ s.mode = "serving"
                      \/ s.mode = "starting" /\ DoneSteps(s, name) >= BindAt(name)

Progress(s, name) ==
  /\ s.mode = "starting" => EndOf(s.todo, StepsOf(name))
  /\ s.mode = "stopping" => EndOf(s.todo, Programs[name].stop)
  /\ s.mode \in {"off", "serving"} => s.todo = <<>>
  /\ s.mode # "off" => s.path = s.asked

\* A server holds the lock of its path from its lock step on, and from its bind on
\* the path leads to its socket, unless the operator took it away.
Owns(s, name, d, fs) ==
  /\ Opened(s, name) => s.lock > 0 /\ s.lock = fs.lockfile[s.path]
  /\ Holds(s, name) => <<s.lock, d>> \in fs.held
  /\ Published(s, name) => fs.entry[s.path] = s.bound \/ s.bound \in fs.taken

ServerOK(s, name, d, fs) == s \in ServerRecords /\ Progress(s, name) /\ Owns(s, name, d, fs)

StartIInv ==
  /\ program \in [Servers -> LockedPrograms]
  /\ server \in [Servers -> ServerRecords]
  /\ FilesOK(files)
  /\ \A d \in Servers : ServerOK(server[d], program[d], d, files)

\* What a step of server d may do to the files.
Touches(s, name, d, fs, gs) ==
  /\ FilesOK(gs)
  /\ fs.taken \subseteq gs.taken
  /\ \A p \in Paths : fs.lockfile[p] # Absent => gs.lockfile[p] = fs.lockfile[p]
  /\ \A h \in fs.held : h[2] # d => h \in gs.held
  /\ \A p \in Paths : gs.entry[p] # fs.entry[p] => p = s.path /\ Holds(s, name)

\* A step that leaves the files alone.
LEMMA TouchesNothing ==
  ASSUME StartIInv, NEW d \in Servers
  PROVE  Touches(server[d], program[d], d, files, files)
BY DEF Touches, StartIInv

\* The order of the steps: the lock file is opened, then locked, then the socket
\* is bound.
LEMMA InOrder ==
  ASSUME NEW name \in LockedPrograms, NEW s \in ServerRecords
  PROVE  /\ DoneSteps(s, name) \in Int
         /\ Published(s, name) => Holds(s, name)
         /\ Holds(s, name) => Opened(s, name)
<1>1. Len(s.todo) \in Nat
  BY DEF ServerRecords
<1>2. DoneSteps(s, name) \in Int
  BY <1>1 DEF DoneSteps, SizeOf
<1>3. LockAt(name) \in Int /\ BindAt(name) \in Int /\ LockAt(name) < BindAt(name)
  BY DEF LockAt, BindAt
<1>4. Published(s, name) => Holds(s, name)
  BY <1>2, <1>3 DEF Published, Holds
<1>5. Holds(s, name) => Opened(s, name)
  BY <1>2, <1>3 DEF Opened, Holds
<1>6. QED
  BY <1>2, <1>4, <1>5

\* What one server does does not take from another what it owns.
LEMMA OthersKept ==
  ASSUME StartIInv, NEW d \in Servers, NEW e \in Servers, e # d, NEW gs,
         Touches(server[d], program[d], d, files, gs)
  PROVE  ServerOK(server[e], program[e], e, gs)
<1> DEFINE s == server[d]
           t == server[e]
<1>1. /\ t \in ServerRecords /\ Progress(t, program[e]) /\ Owns(t, program[e], e, files)
      /\ program[e] \in LockedPrograms
  BY DEF StartIInv, ServerOK
<1>2. /\ s \in ServerRecords /\ Owns(s, program[d], d, files) /\ program[d] \in LockedPrograms
  BY DEF StartIInv, ServerOK
<1>3. t.path \in Paths /\ t.lock \in Nat /\ s.lock \in Nat
  BY <1>1, <1>2 DEF ServerRecords
<1>4. Opened(t, program[e]) => t.lock > 0 /\ t.lock = gs.lockfile[t.path]
  BY <1>1, <1>3 DEF Owns, Touches, Absent
<1>5. Holds(t, program[e]) => <<t.lock, e>> \in gs.held
  BY <1>1 DEF Owns, Touches
<1>6. ASSUME Published(t, program[e])
      PROVE  gs.entry[t.path] = files.entry[t.path]
  <2>1. SUFFICES ASSUME t.path = s.path, Holds(s, program[d])
                 PROVE  FALSE
    BY <1>3 DEF Touches
  <2>2. Holds(t, program[e]) /\ Opened(t, program[e]) /\ Opened(s, program[d])
    BY <1>1, <1>2, <1>6, <2>1, InOrder
  <2>3. s.lock = t.lock /\ <<s.lock, d>> \in files.held /\ <<t.lock, e>> \in files.held
    BY <1>1, <1>2, <2>1, <2>2 DEF Owns
  <2>4. \A g, h \in files.held : g[1] = h[1] => g[2] = h[2]
    BY DEF StartIInv, FilesOK
  <2>5. <<s.lock, d>>[2] = <<t.lock, e>>[2]
    BY <2>3, <2>4
  <2>6. QED
    BY <2>5
<1>7. Published(t, program[e]) => gs.entry[t.path] = t.bound \/ t.bound \in gs.taken
  BY <1>1, <1>6 DEF Owns, Touches
<1>8. QED
  BY <1>1, <1>4, <1>5, <1>7 DEF ServerOK, Owns

\* A process that ends frees its lock and its listener and nothing else: the lock
\* file stays.
LEMMA ExitKeeps ==
  ASSUME StartIInv, NEW d \in Servers, NEW fs,
         NEW how \in Ends,
         Touches(server[d], program[d], d, files, fs), Exit(d, fs, how), program' = program
  PROVE  StartIInv'
<1> DEFINE s == server[d]
           gs == AfterExit(d, fs, how # "killed")
<1>1. /\ s \in ServerRecords /\ program[d] \in LockedPrograms
      /\ server \in [Servers -> ServerRecords] /\ fs \in FileRecords /\ FilesOK(fs)
  BY DEF StartIInv, Touches, FilesOK
<1>2. s.path \in Paths
  BY <1>1 DEF ServerRecords
<1>3. ~(how # "killed" /\ program[d] = "gallery" /\ <<s.lock, d>> \in fs.held
        /\ fs.lockfile[s.path] = s.lock)
  BY <1>1 DEF LockedPrograms
<1>4. gs = [fs EXCEPT !.live = @ \ {s.bound}, !.held = {h \in @ : h[2] # d},
                      !.lockfile[s.path] = @]
  BY <1>3 DEF AfterExit
<1>5. /\ gs \in FileRecords /\ gs.lockfile = fs.lockfile
      /\ gs.held = {h \in fs.held : h[2] # d} /\ gs.entry = fs.entry
      /\ gs.taken = fs.taken /\ gs.made = fs.made
  <2>1. [fs.lockfile EXCEPT ![s.path] = fs.lockfile[s.path]] = fs.lockfile
    BY <1>1, <1>2 DEF FileRecords
  <2>2. gs = [fs EXCEPT !.live = @ \ {s.bound}, !.held = {h \in @ : h[2] # d},
                        !.lockfile = fs.lockfile]
    BY <1>4, <2>1
  <2> HIDE DEF gs
  <2>3. QED
    BY <1>1, <2>2 DEF FileRecords
<1> HIDE DEF gs
<1>6. FilesOK(gs)
  BY <1>1, <1>5 DEF FilesOK
<1>7. Touches(s, program[d], d, files, gs)
  BY <1>5, <1>6 DEF Touches
<1>8. /\ files' = gs
      /\ server' = [server EXCEPT ![d] = [@ EXCEPT !.mode = "off", !.todo = <<>>, !.conns = 0,
                                                   !.lock = Absent, !.how = how]]
  BY DEF Exit, gs
<1>9. /\ server'[d] \in ServerRecords /\ server'[d].mode = "off" /\ server'[d].todo = <<>>
      /\ \A e \in Servers : e # d => server'[e] = server[e]
  <2>1. PICK m \in Modes, t \in Seq(StepNames), c \in Int, l \in Nat :
          m = "off" /\ t = <<>> /\ c = 0 /\ l = 0
    <3>1. <<>> \in Seq(StepNames) /\ "off" \in Modes /\ 0 \in Int /\ 0 \in Nat
      BY DEF Modes
    <3>2. QED
      BY <3>1
  <2>2. server' = [server EXCEPT ![d] = [s EXCEPT !.mode = m, !.todo = t, !.conns = c,
                                                  !.lock = l, !.how = how]]
    BY <1>8, <2>1 DEF Absent
  <2>3. /\ server'[d] = [s EXCEPT !.mode = m, !.todo = t, !.conns = c, !.lock = l, !.how = how]
        /\ \A e \in Servers : e # d => server'[e] = server[e]
    BY <1>1, <2>2
  <2>4. server'[d] \in ServerRecords /\ server'[d].mode = m /\ server'[d].todo = t
    BY <1>1, <2>3 DEF ServerRecords
  <2>5. QED
    BY <2>1, <2>3, <2>4
<1>10. ServerOK(server'[d], program[d], d, gs)
  BY <1>9 DEF ServerOK, Progress, Owns, Opened, Holds, Published
<1>11. \A e \in Servers : ServerOK(server'[e], program[e], e, gs)
  BY <1>7, <1>9, <1>10, OthersKept
<1>12. server' \in [Servers -> ServerRecords]
  BY <1>1, <1>8, <1>9
<1>13. QED
  BY <1>6, <1>8, <1>11, <1>12 DEF StartIInv

\* What a server owns once its k-th step is done.
Claims(r, name, d, k, fs) ==
  /\ (r.mode = "stopping" \/ k >= LockAt(name) - 1) => r.lock > 0 /\ r.lock = fs.lockfile[r.path]
  /\ (r.mode = "stopping" \/ k >= LockAt(name)) => <<r.lock, d>> \in fs.held
  /\ (r.mode = "starting" /\ k >= BindAt(name)) =>
        fs.entry[r.path] = r.bound \/ r.bound \in fs.taken

\* A step done: the list is one shorter, or the process serves, or it ends.
LEMMA ProceedKeeps ==
  ASSUME StartIInv, NEW d \in Servers, NEW r \in ServerRecords, NEW fs,
         r.mode = server[d].mode, r.todo = server[d].todo, r.path = server[d].path,
         r.asked = server[d].asked, r.todo # <<>>,
         Touches(server[d], program[d], d, files, fs),
         Claims(r, program[d], d, DoneSteps(server[d], program[d]) + 1, fs),
         Proceed(d, r, fs), program' = program
  PROVE  StartIInv'
<1> DEFINE name == program[d]
           rest == Tail(r.todo)
           k == DoneSteps(server[d], program[d]) + 1
           m == IF rest = <<>> /\ r.mode = "starting" THEN "serving" ELSE r.mode
           new == [r EXCEPT !.todo = rest, !.mode = m]
<1>1. /\ name \in LockedPrograms /\ server \in [Servers -> ServerRecords]
      /\ Progress(server[d], name) /\ FilesOK(fs)
  BY DEF StartIInv, ServerOK, Touches
<1>2. CASE r.mode = "stopping" /\ rest = <<>>
  <2>1. r.how \in Ends
    BY DEF ServerRecords
  <2>2. Exit(d, fs, r.how)
    BY <1>2 DEF Proceed
  <2>3. QED
    BY <2>1, <2>2, ExitKeeps
<1>3. CASE ~(r.mode = "stopping" /\ rest = <<>>)
  <2>1. server' = [server EXCEPT ![d] = new] /\ files' = fs
    <3>1. Advanced(r) = new
      BY DEF Advanced
    <3>2. QED
      BY <1>3, <3>1 DEF Proceed
  <2>2. r.todo \in Seq(StepNames) /\ r.mode \in Modes
    BY DEF ServerRecords
  <2>3. /\ rest \in Seq(StepNames) /\ Len(rest) = Len(r.todo) - 1 /\ Len(r.todo) \in Nat \ {0}
        /\ \A i \in 1 .. Len(rest) : rest[i] = r.todo[i + 1]
        /\ rest = <<>> <=> Len(rest) = 0
    <3>1. r.todo \in Seq(StepNames) /\ r.todo # <<>>
      BY <2>2
    <3>2. \A t \in Seq(StepNames) : t # <<>> =>
            /\ Tail(t) \in Seq(StepNames) /\ Len(Tail(t)) = Len(t) - 1 /\ Len(t) \in Nat \ {0}
            /\ \A i \in 1 .. Len(Tail(t)) : Tail(t)[i] = t[i + 1]
      OBVIOUS
    <3>3. \A t \in Seq(StepNames) : t = <<>> <=> Len(t) = 0
      OBVIOUS
    <3>4. QED
      BY <3>1, <3>2, <3>3
  <2>4. m \in Modes
    BY <2>2 DEF Modes
  <2>5. r.mode \in {"starting", "stopping"}
    BY <1>1, <2>2 DEF Progress, Modes
  <2> HIDE DEF rest, m
  <2>6. /\ new \in ServerRecords /\ new.todo = rest /\ new.mode = m /\ new.path = r.path
        /\ new.asked = r.asked /\ new.lock = r.lock /\ new.bound = r.bound
    BY <2>3, <2>4 DEF ServerRecords
  <2>7. m = IF rest = <<>> /\ r.mode = "starting" THEN "serving" ELSE r.mode
    BY DEF m
  <2> HIDE DEF new
  <2>8. \A steps : (EndOf(r.todo, steps) /\ Len(steps) \in Nat /\ rest # <<>>) => EndOf(rest, steps)
    <3>1. SUFFICES ASSUME NEW steps, EndOf(r.todo, steps), Len(steps) \in Nat, rest # <<>>
                   PROVE  EndOf(rest, steps)
      OBVIOUS
    <3>2. Len(rest) <= Len(steps)
      BY <2>3, <3>1 DEF EndOf
    <3>3. ASSUME NEW i \in 1 .. Len(rest)
          PROVE  rest[i] = steps[Len(steps) - Len(rest) + i]
      <4>1. i + 1 \in 1 .. Len(r.todo)
        BY <2>3
      <4>2. r.todo[i + 1] = steps[Len(steps) - Len(r.todo) + (i + 1)]
        BY <3>1, <4>1 DEF EndOf
      <4>3. Len(steps) - Len(r.todo) + (i + 1) = Len(steps) - Len(rest) + i
        BY <2>3, <3>1
      <4>4. QED
        BY <2>3, <4>2, <4>3
    <3>4. QED
      BY <3>1, <3>2, <3>3 DEF EndOf
  <2>9. Len(StepsOf(name)) \in Nat /\ Len(Programs[name].stop) \in Nat
    <3>1. StepsOf(name) \in Seq(StepNames) /\ Programs[name].stop \in Seq(StepNames)
      BY <1>1, StepPlaces, StopPlaces
    <3>2. QED
      BY <3>1
  <2>10. Progress(new, name)
    BY <1>1, <1>3, <2>5, <2>6, <2>7, <2>8, <2>9 DEF Progress
  <2>11. k \in Int /\ DoneSteps(new, name) = k
    <3>1. SizeOf(name) \in Int
      BY DEF SizeOf
    <3>2. QED
      BY <2>3, <2>6, <3>1 DEF DoneSteps
  <2>12. new.mode = "serving" => k >= BindAt(name) /\ k >= LockAt(name) /\ k >= LockAt(name) - 1
    <3>1. SUFFICES ASSUME new.mode = "serving"
                   PROVE  k >= BindAt(name) /\ k >= LockAt(name) /\ k >= LockAt(name) - 1
      OBVIOUS
    <3>2. Len(rest) = 0
      BY <2>3, <2>5, <2>6, <2>7, <3>1
    <3> HIDE DEF k
    <3>3. k = SizeOf(name)
      <4>1. DoneSteps(new, name) = SizeOf(name) - Len(rest) /\ SizeOf(name) \in Int
        BY <2>6 DEF DoneSteps, SizeOf
      <4>2. QED
        BY <2>11, <3>2, <4>1
    <3>4. QED
      BY <3>3 DEF SizeOf, LockAt, BindAt
  <2>13. new.mode = "serving" => r.mode = "starting"
    BY <2>5, <2>6, <2>7
  <2>14. new.mode # "serving" => new.mode = r.mode
    BY <2>6, <2>7
  <2> HIDE DEF k
  <2>15. Claims(r, name, d, k, fs)
    BY DEF k
  <2>16. Owns(new, name, d, fs)
    BY <2>6, <2>11, <2>12, <2>13, <2>14, <2>15
       DEF Owns, Claims, Opened, Holds, Published
  <2>17. ServerOK(new, name, d, fs)
    BY <2>6, <2>10, <2>16 DEF ServerOK
  <2>18. /\ server'[d] = new /\ server' \in [Servers -> ServerRecords]
         /\ \A e \in Servers : e # d => server'[e] = server[e]
    BY <1>1, <2>1, <2>6
  <2>19. \A e \in Servers : ServerOK(server'[e], program[e], e, fs)
    BY <2>17, <2>18, OthersKept
  <2>20. QED
    BY <1>1, <2>1, <2>18, <2>19 DEF StartIInv
<1>4. QED
  BY <1>2, <1>3

-----------------------------------------------------------------------------
(* The steps of a server.                                                  *)

\* The step a server is at has its place in the list.
LEMMA AtStep ==
  ASSUME StartIInv, NEW d \in Servers, NEW step, Doing(d, step)
  PROVE  LET s == server[d]
             k == DoneSteps(s, program[d]) + 1
         IN  /\ s \in ServerRecords /\ program[d] \in LockedPrograms /\ s.todo # <<>>
             /\ s.mode \in {"starting", "stopping"}
             /\ s.mode = "starting" =>
                  k \in 1 .. SizeOf(program[d]) /\ StepsOf(program[d])[k] = step
             /\ s.mode = "stopping" => step \in {"close", "drain", "drain_or_abort", "remove"}
<1> DEFINE s == server[d]
           name == program[d]
           k == DoneSteps(s, name) + 1
<1>1. s \in ServerRecords /\ name \in LockedPrograms /\ Progress(s, name)
  BY DEF StartIInv, ServerOK
<1>2. s.todo # <<>> /\ Head(s.todo) = step
  BY DEF Doing
<1>3. s.todo \in Seq(StepNames) /\ s.mode \in Modes
  BY <1>1 DEF ServerRecords
<1>4. s.mode \in {"starting", "stopping"}
  BY <1>1, <1>2, <1>3 DEF Progress, Modes
<1>5. Len(s.todo) \in Nat \ {0} /\ s.todo[1] = step
  <2>1. \A t \in Seq(StepNames) : t # <<>> => Len(t) \in Nat \ {0} /\ Head(t) = t[1]
    OBVIOUS
  <2>2. QED
    BY <1>2, <1>3, <2>1
<1>6. SizeOf(name) \in Nat
  BY DEF SizeOf
<1>7. k = SizeOf(name) - Len(s.todo) + 1
  BY DEF DoneSteps
<1>8. ASSUME s.mode = "starting"
      PROVE  k \in 1 .. SizeOf(name) /\ StepsOf(name)[k] = step
  <2>1. EndOf(s.todo, StepsOf(name)) /\ Len(StepsOf(name)) = SizeOf(name)
    BY <1>1, <1>8, StepPlaces DEF Progress
  <2>2. Len(s.todo) <= SizeOf(name)
    BY <2>1 DEF EndOf
  <2>3. \A i \in 1 .. Len(s.todo) :
          s.todo[i] = StepsOf(name)[SizeOf(name) - Len(s.todo) + i]
    BY <2>1 DEF EndOf
  <2>4. 1 \in 1 .. Len(s.todo)
    BY <1>5
  <2>5. s.todo[1] = StepsOf(name)[SizeOf(name) - Len(s.todo) + 1]
    BY <2>3, <2>4
  <2> HIDE DEF k, s, name
  <2>6. QED
    BY <1>5, <1>6, <1>7, <2>2, <2>5
<1>9. ASSUME s.mode = "stopping"
      PROVE  step \in {"close", "drain", "drain_or_abort", "remove"}
  <2> DEFINE stop == Programs[name].stop
  <2>1. EndOf(s.todo, stop)
    BY <1>1, <1>9 DEF Progress
  <2>2. /\ stop \in Seq(StepNames)
        /\ \A i \in 1 .. Len(stop) : stop[i] \in {"close", "drain", "drain_or_abort", "remove"}
    BY <1>1, StopPlaces
  <2>3. Len(stop) \in Nat
    BY <2>2
  <2>4. Len(s.todo) <= Len(stop) /\ s.todo[1] = stop[Len(stop) - Len(s.todo) + 1]
    <3>1. /\ Len(s.todo) <= Len(stop)
          /\ \A i \in 1 .. Len(s.todo) : s.todo[i] = stop[Len(stop) - Len(s.todo) + i]
      BY <2>1 DEF EndOf
    <3>2. 1 \in 1 .. Len(s.todo)
      BY <1>5
    <3>3. QED
      BY <3>1, <3>2
  <2> HIDE DEF stop
  <2>5. Len(stop) - Len(s.todo) + 1 \in 1 .. Len(stop)
    BY <1>5, <2>3, <2>4
  <2>6. QED
    BY <1>5, <2>2, <2>4, <2>5
<1>10. QED
  BY <1>1, <1>2, <1>4, <1>8, <1>9

\* A step that takes no lock and binds nothing adds nothing to what is owned.
LEMMA PlainStep ==
  ASSUME StartIInv, NEW d \in Servers, NEW step, Doing(d, step),
         step \notin {"open_lock", "lock", "bind", "bind_narrow"}
  PROVE  Claims(server[d], program[d], d, DoneSteps(server[d], program[d]) + 1, files)
<1> DEFINE s == server[d]
           name == program[d]
           n == DoneSteps(s, name)
<1>1. /\ s \in ServerRecords /\ name \in LockedPrograms
      /\ s.mode \in {"starting", "stopping"}
      /\ s.mode = "starting" => n + 1 \in 1 .. SizeOf(name) /\ StepsOf(name)[n + 1] = step
  BY AtStep
<1>2. n \in Int
  BY <1>1, InOrder
<1>3. s.mode = "starting" =>
        n + 1 # LockAt(name) - 1 /\ n + 1 # LockAt(name) /\ n + 1 # BindAt(name)
  BY <1>1, StepPlaces
<1>4. LockAt(name) \in Int /\ BindAt(name) \in Int
  BY DEF LockAt, BindAt
<1>5. Owns(s, name, d, files)
  BY DEF StartIInv, ServerOK
<1>6. /\ Opened(s, name) <=> (s.mode = "stopping" \/ n >= LockAt(name) - 1)
      /\ Holds(s, name) <=> (s.mode = "stopping" \/ n >= LockAt(name))
      /\ Published(s, name) <=> (s.mode = "starting" /\ n >= BindAt(name))
  BY <1>1 DEF Opened, Holds, Published
<1> HIDE DEF n, s, name
<1>7. /\ (s.mode = "starting" /\ n + 1 >= LockAt(name) - 1) => n >= LockAt(name) - 1
      /\ (s.mode = "starting" /\ n + 1 >= LockAt(name)) => n >= LockAt(name)
      /\ (s.mode = "starting" /\ n + 1 >= BindAt(name)) => n >= BindAt(name)
  BY <1>2, <1>3, <1>4
<1>8. Claims(s, name, d, n + 1, files)
  BY <1>1, <1>5, <1>6, <1>7 DEF Claims, Owns
<1>9. QED
  BY <1>8 DEF n, s, name

\* Past its lock step, a server holds the lock of its path.
LEMMA PastLock ==
  ASSUME StartIInv, NEW d \in Servers, NEW step, Doing(d, step),
         step \in {"unlink", "bind", "bind_narrow", "secure", "remove"}
  PROVE  Holds(server[d], program[d])
<1> DEFINE s == server[d]
           name == program[d]
           n == DoneSteps(s, name)
<1>1. /\ s \in ServerRecords /\ name \in LockedPrograms
      /\ s.mode \in {"starting", "stopping"}
      /\ s.mode = "starting" => n + 1 \in 1 .. SizeOf(name) /\ StepsOf(name)[n + 1] = step
  BY AtStep
<1>2. n \in Int /\ LockAt(name) \in Int /\ BindAt(name) \in Int /\ LockAt(name) < BindAt(name)
  BY <1>1, InOrder DEF LockAt, BindAt
<1>3. s.mode = "starting" => n + 1 > LockAt(name) \/ n + 1 = BindAt(name)
  BY <1>1, StepPlaces
<1> HIDE DEF n
<1>4. s.mode = "starting" => n >= LockAt(name)
  BY <1>2, <1>3
<1>5. QED
  BY <1>1, <1>4 DEF Holds, n

\* A step that changes directories, listeners or modes leaves the entries and the
\* locks as they are.
LEMMA EntriesKept ==
  ASSUME StartIInv, NEW d \in Servers, NEW fs \in FileRecords, fs.entry = files.entry,
         fs.lockfile = files.lockfile, fs.held = files.held, fs.taken = files.taken,
         fs.made = files.made
  PROVE  Touches(server[d], program[d], d, files, fs)
<1>1. FilesOK(fs)
  BY DEF StartIInv, FilesOK
<1>2. QED
  BY <1>1 DEF Touches

\* A plain step on files whose entries and locks are as they were.
LEMMA PlainProceeds ==
  ASSUME StartIInv, NEW d \in Servers, NEW step, Doing(d, step),
         step \notin {"open_lock", "lock", "bind", "bind_narrow"},
         NEW fs \in FileRecords, fs.entry = files.entry,
         fs.lockfile = files.lockfile, fs.held = files.held, fs.taken = files.taken,
         fs.made = files.made,
         Proceed(d, server[d], fs), program' = program
  PROVE  StartIInv'
<1>1. Touches(server[d], program[d], d, files, fs)
  BY EntriesKept
<1>2. server[d] \in ServerRecords /\ server[d].todo # <<>>
  BY AtStep
<1>3. Claims(server[d], program[d], d, DoneSteps(server[d], program[d]) + 1, files)
  BY PlainStep
<1>4. Claims(server[d], program[d], d, DoneSteps(server[d], program[d]) + 1, fs)
  BY <1>3 DEF Claims
<1>5. QED
  BY <1>1, <1>2, <1>4, ProceedKeeps

\* A refusal ends the process.
LEMMA Refusal ==
  ASSUME StartIInv, NEW d \in Servers, NEW how \in Ends, Exit(d, files, how), program' = program
  PROVE  StartIInv'
BY TouchesNothing, ExitKeeps

\* The shape of the file system, from the invariant.
LEMMA FilesType == ASSUME StartIInv PROVE files \in FileRecords
BY DEF StartIInv, FilesOK

\* The directory is made private, or accepted as it is, or refused.
LEMMA StepPrepareParent ==
  ASSUME StartIInv, NEW d \in Servers, PrepareParent(d)
  PROVE  StartIInv'
<1> DEFINE s == server[d]
           kind == open_directory_tree(files.dir[s.path])
<1>1. Doing(d, "parent") /\ program' = program /\ "refused" \in Ends
  BY DEF PrepareParent, Ends
<1>2. s.path \in Paths /\ files \in FileRecords
  BY FilesType DEF StartIInv, ServerRecords
<1>3. kind \in Kinds
  BY <1>2 DEF open_directory_tree, Kinds, FileRecords
<1> HIDE DEF kind
<1>4. CASE Exit(d, files, "refused")
  BY <1>1, <1>4, Refusal
<1>5. CASE Proceed(d, s, [files EXCEPT !.dir[s.path] = kind])
  <2> DEFINE fs == [files EXCEPT !.dir[s.path] = kind]
  <2>1. /\ fs \in FileRecords /\ fs.entry = files.entry /\ fs.lockfile = files.lockfile
        /\ fs.held = files.held /\ fs.taken = files.taken /\ fs.made = files.made
    BY <1>2, <1>3 DEF FileRecords
  <2> HIDE DEF fs
  <2>2. Proceed(d, s, fs)
    BY <1>5 DEF fs
  <2>3. QED
    BY <1>1, <2>1, <2>2, PlainProceeds
<1>6. QED
  BY <1>4, <1>5 DEF PrepareParent, kind

\* A missing directory is created; nothing else in the file system changes.
LEMMA StepMakeDirectory ==
  ASSUME StartIInv, NEW d \in Servers, MakeDirectory(d)
  PROVE  StartIInv'
<1> DEFINE s == server[d]
           kind == IF files.dir[s.path] = "missing" THEN "open" ELSE files.dir[s.path]
<1>1. Doing(d, "mkdir") /\ program' = program /\ "refused" \in Ends
  BY DEF MakeDirectory, Ends
<1>2. s.path \in Paths /\ files \in FileRecords
  BY FilesType DEF StartIInv, ServerRecords
<1>3. kind \in Kinds
  BY <1>2 DEF Kinds, FileRecords
<1> HIDE DEF kind
<1>4. CASE Exit(d, files, "refused")
  BY <1>1, <1>4, Refusal
<1>5. CASE Proceed(d, s, [files EXCEPT !.dir[s.path] = kind])
  <2> DEFINE fs == [files EXCEPT !.dir[s.path] = kind]
  <2>1. /\ fs \in FileRecords /\ fs.entry = files.entry /\ fs.lockfile = files.lockfile
        /\ fs.held = files.held /\ fs.taken = files.taken /\ fs.made = files.made
    BY <1>2, <1>3 DEF FileRecords
  <2> HIDE DEF fs
  <2>2. Proceed(d, s, fs)
    BY <1>5 DEF fs
  <2>3. QED
    BY <1>1, <2>1, <2>2, PlainProceeds
<1>6. QED
  BY <1>4, <1>5 DEF MakeDirectory, kind

\* The probe, the identity, the application and the drains touch no file.
LEMMA StepIdle ==
  ASSUME StartIInv, NEW d \in Servers,
         probe_socket_liveness(d) \/ InitializeApp(d) \/ Drain(d)
  PROVE  StartIInv'
<1>1. files \in FileRecords /\ "refused" \in Ends /\ "failed" \in Ends /\ program' = program
  BY FilesType DEF Ends, probe_socket_liveness, InitializeApp, Drain
<1>2. ASSUME NEW step \in {"probe", "init", "drain"}, Doing(d, step), Proceed(d, server[d], files)
      PROVE  StartIInv'
  BY <1>1, <1>2, PlainProceeds
<1>3. ASSUME NEW how \in {"refused", "failed"}, Exit(d, files, how)
      PROVE  StartIInv'
  BY <1>1, <1>3, Refusal
<1>4. CASE probe_socket_liveness(d)
  BY <1>2, <1>3, <1>4 DEF probe_socket_liveness
<1>5. CASE InitializeApp(d)
  <2>1. program[d] \in LockedPrograms
    BY DEF StartIInv
  <2>2. Programs[program[d]].fail = <<>>
    BY <2>1, StopPlaces
  <2>3. QED
    BY <1>2, <1>3, <1>5, <2>2 DEF InitializeApp
<1>6. CASE Drain(d)
  BY <1>2, <1>6 DEF Drain
<1>7. QED
  BY <1>4, <1>5, <1>6

\* A listener is closed.
LEMMA StepCloseListener ==
  ASSUME StartIInv, NEW d \in Servers, CloseListener(d)
  PROVE  StartIInv'
<1> DEFINE fs == [files EXCEPT !.live = @ \ {server[d].bound}]
<1>1. Doing(d, "close") /\ program' = program /\ Proceed(d, server[d], fs)
  BY DEF CloseListener
<1>2. /\ fs \in FileRecords /\ fs.entry = files.entry /\ fs.lockfile = files.lockfile
      /\ fs.held = files.held /\ fs.taken = files.taken /\ fs.made = files.made
  BY FilesType DEF FileRecords
<1> HIDE DEF fs
<1>3. QED
  BY <1>1, <1>2, PlainProceeds

\* A step that only notes something in the process: the identity of the socket, or
\* that its connections are gone.
LEMMA StepNotes ==
  ASSUME StartIInv, NEW d \in Servers, TakeIdentity(d) \/ DrainOrAbort(d)
  PROVE  StartIInv'
<1> DEFINE s == server[d]
<1>1. /\ files \in FileRecords /\ "refused" \in Ends /\ program' = program
      /\ s \in ServerRecords
  BY FilesType DEF Ends, TakeIdentity, DrainOrAbort, StartIInv
<1>2. ASSUME NEW step \in {"identity", "drain_or_abort"}, Doing(d, step),
             NEW r \in ServerRecords, r.mode = s.mode, r.todo = s.todo, r.path = s.path,
             r.asked = s.asked, r.lock = s.lock, r.bound = s.bound, Proceed(d, r, files)
      PROVE  StartIInv'
  <2>1. Touches(s, program[d], d, files, files)
    BY TouchesNothing
  <2>2. s.todo # <<>> /\ Claims(s, program[d], d, DoneSteps(s, program[d]) + 1, files)
    BY <1>2, AtStep, PlainStep
  <2>3. Claims(r, program[d], d, DoneSteps(s, program[d]) + 1, files)
    BY <1>2, <2>2 DEF Claims
  <2>4. r.todo # <<>>
    BY <1>2, <2>2
  <2>5. QED
    BY <1>1, <1>2, <2>1, <2>3, <2>4, ProceedKeeps
<1>3. CASE TakeIdentity(d)
  <2>1. CASE Exit(d, files, "refused")
    BY <1>1, <2>1, Refusal
  <2>2. CASE Proceed(d, [s EXCEPT !.identity = Entry(d)], files)
    <3>1. Entry(d) \in Int
      BY <1>1 DEF Entry, FileRecords, ServerRecords
    <3> DEFINE r == [s EXCEPT !.identity = Entry(d)]
    <3>2. /\ r \in ServerRecords /\ r.mode = s.mode /\ r.todo = s.todo /\ r.path = s.path
          /\ r.asked = s.asked /\ r.lock = s.lock /\ r.bound = s.bound
      BY <1>1, <3>1 DEF ServerRecords
    <3>3. Doing(d, "identity") /\ Proceed(d, r, files)
      BY <1>3, <2>2 DEF TakeIdentity
    <3> HIDE DEF r
    <3>4. QED
      BY <1>2, <3>2, <3>3
  <2>3. QED
    BY <1>3, <2>1, <2>2 DEF TakeIdentity
<1>4. CASE DrainOrAbort(d)
  <2> DEFINE r == [s EXCEPT !.conns = 0]
  <2>1. /\ r \in ServerRecords /\ r.mode = s.mode /\ r.todo = s.todo /\ r.path = s.path
        /\ r.asked = s.asked /\ r.lock = s.lock /\ r.bound = s.bound
    BY <1>1 DEF ServerRecords
  <2>2. Doing(d, "drain_or_abort") /\ Proceed(d, r, files)
    BY <1>4 DEF DrainOrAbort
  <2> HIDE DEF r
  <2>3. QED
    BY <1>2, <2>1, <2>2
<1>5. QED
  BY <1>3, <1>4

\* The holder of a path's lock changes the entry of that path, and no other.
LEMMA EntryChanged ==
  ASSUME StartIInv, NEW d \in Servers, Holds(server[d], program[d]),
         NEW fs \in FileRecords, NEW x \in Int,
         fs.entry = [files.entry EXCEPT ![server[d].path] = x],
         fs.lockfile = files.lockfile, fs.held = files.held, fs.taken = files.taken,
         fs.made \in Nat, fs.made >= files.made
  PROVE  Touches(server[d], program[d], d, files, fs)
<1>1. files \in FileRecords
  BY FilesType
<1>2. \A p \in Paths : files.lockfile[p] \in Nat /\ files.lockfile[p] <= files.made
  BY <1>1 DEF StartIInv, FilesOK, FileRecords
<1>3. files.made \in Nat
  BY <1>1 DEF FileRecords
<1>4. \A p \in Paths : fs.lockfile[p] <= fs.made
  BY <1>2, <1>3
<1>5. FilesOK(fs)
  BY <1>4 DEF StartIInv, FilesOK
<1>6. \A p \in Paths : fs.entry[p] # files.entry[p] => p = server[d].path
  BY <1>1 DEF FileRecords
<1>7. QED
  BY <1>5, <1>6 DEF Touches

\* An entry is taken away.
LEMMA RemovedFiles ==
  ASSUME NEW fs \in FileRecords, NEW p \in Paths
  PROVE  /\ remove_socket(fs, p) \in FileRecords
         /\ remove_socket(fs, p).entry = [fs.entry EXCEPT ![p] = 0]
         /\ remove_socket(fs, p).lockfile = fs.lockfile
         /\ remove_socket(fs, p).held = fs.held
         /\ remove_socket(fs, p).taken = fs.taken
         /\ remove_socket(fs, p).made = fs.made
BY DEF remove_socket, FileRecords, Absent

\* A stale entry is unlinked by the holder of the lock, before it binds.
LEMMA StepRemoveStale ==
  ASSUME StartIInv, NEW d \in Servers, RemoveStale(d)
  PROVE  StartIInv'
<1> DEFINE s == server[d]
           fs == remove_socket(files, s.path)
           n == DoneSteps(s, program[d])
<1>1. Doing(d, "unlink") /\ program' = program /\ "refused" \in Ends
  BY DEF RemoveStale, Ends
<1>2. CASE Exit(d, files, "refused")
  BY <1>1, <1>2, Refusal
<1>3. CASE Proceed(d, s, fs)
  <2>1. s \in ServerRecords /\ s.path \in Paths /\ files \in FileRecords /\ files.made \in Nat
    BY FilesType DEF StartIInv, ServerRecords, FileRecords
  <2>2. /\ fs \in FileRecords /\ fs.entry = [files.entry EXCEPT ![s.path] = 0]
        /\ fs.lockfile = files.lockfile /\ fs.held = files.held /\ fs.taken = files.taken
        /\ fs.made = files.made
    BY <2>1, RemovedFiles
  <2> HIDE DEF fs
  <2>3. Holds(s, program[d])
    BY <1>1, PastLock
  <2>4. Touches(s, program[d], d, files, fs)
    <3>1. 0 \in Int /\ fs.made \in Nat /\ fs.made >= files.made
      BY <2>1, <2>2
    <3>2. QED
      BY <2>2, <2>3, <3>1, EntryChanged
  <2>5. /\ s.todo # <<>> /\ program[d] \in LockedPrograms /\ s.mode \in {"starting", "stopping"}
        /\ s.mode = "starting" =>
             n + 1 \in 1 .. SizeOf(program[d]) /\ StepsOf(program[d])[n + 1] = "unlink"
        /\ s.mode # "stopping"
    BY <1>1, AtStep
  <2>6. n + 1 < BindAt(program[d])
    BY <2>5, StepPlaces
  <2>7. n \in Int /\ BindAt(program[d]) \in Int
    BY <2>1, <2>5, InOrder DEF BindAt
  <2>8. Claims(s, program[d], d, n + 1, files)
    BY <1>1, PlainStep
  <2> HIDE DEF n
  <2>9. Claims(s, program[d], d, n + 1, fs)
    BY <2>2, <2>6, <2>7, <2>8 DEF Claims
  <2>10. QED
    BY <1>1, <1>3, <2>1, <2>4, <2>5, <2>9, ProceedKeeps DEF n
<1>4. QED
  BY <1>2, <1>3 DEF RemoveStale

\* The path is given back at the end of an orderly stop.
LEMMA StepRemoveOwned ==
  ASSUME StartIInv, NEW d \in Servers, RemoveOwned(d)
  PROVE  StartIInv'
<1> DEFINE s == server[d]
           n == DoneSteps(s, program[d])
<1>1. Doing(d, "remove") /\ program' = program
  BY DEF RemoveOwned
<1>2. s \in ServerRecords /\ s.path \in Paths /\ files \in FileRecords /\ files.made \in Nat
  BY FilesType DEF StartIInv, ServerRecords, FileRecords
<1>3. CASE Proceed(d, s, files)
  BY <1>1, <1>2, <1>3, PlainProceeds
<1>4. CASE Proceed(d, s, remove_socket(files, s.path))
  <2> DEFINE fs == remove_socket(files, s.path)
  <2>1. /\ fs \in FileRecords /\ fs.entry = [files.entry EXCEPT ![s.path] = 0]
        /\ fs.lockfile = files.lockfile /\ fs.held = files.held /\ fs.taken = files.taken
        /\ fs.made = files.made
    BY <1>2, RemovedFiles
  <2>2. Proceed(d, s, fs)
    BY <1>4
  <2> HIDE DEF fs
  <2>3. Holds(s, program[d])
    BY <1>1, PastLock
  <2>4. Touches(s, program[d], d, files, fs)
    <3>1. 0 \in Int /\ fs.made \in Nat /\ fs.made >= files.made
      BY <1>2, <2>1
    <3>2. QED
      BY <2>1, <2>3, <3>1, EntryChanged
  <2>5. /\ s.todo # <<>> /\ program[d] \in LockedPrograms /\ s.mode \in {"starting", "stopping"}
        /\ s.mode = "starting" =>
             n + 1 \in 1 .. SizeOf(program[d]) /\ StepsOf(program[d])[n + 1] = "remove"
    BY <1>1, AtStep
  <2>6. s.mode # "starting"
    BY <2>5, StepPlaces
  <2>7. Claims(s, program[d], d, n + 1, files)
    BY <1>1, PlainStep
  <2> HIDE DEF n
  <2>8. Claims(s, program[d], d, n + 1, fs)
    BY <2>1, <2>6, <2>7 DEF Claims
  <2>9. QED
    BY <1>1, <1>2, <2>2, <2>4, <2>5, <2>8, ProceedKeeps DEF n
<1>5. QED
  BY <1>3, <1>4 DEF RemoveOwned

\* The socket is narrowed, or the half-published endpoint is taken away.
LEMMA StepSecure ==
  ASSUME StartIInv, NEW d \in Servers, secure_bound_socket(d)
  PROVE  StartIInv'
<1> DEFINE s == server[d]
<1>1. Doing(d, "secure") /\ program' = program /\ "refused" \in Ends
  BY DEF secure_bound_socket, Ends
<1>2. s \in ServerRecords /\ s.path \in Paths /\ files \in FileRecords /\ files.made \in Nat
  BY FilesType DEF StartIInv, ServerRecords, FileRecords
<1>3. CASE Exit(d, remove_socket(files, s.path), "refused")
  <2> DEFINE fs == remove_socket(files, s.path)
  <2>1. /\ fs \in FileRecords /\ fs.entry = [files.entry EXCEPT ![s.path] = 0]
        /\ fs.lockfile = files.lockfile /\ fs.held = files.held /\ fs.taken = files.taken
        /\ fs.made = files.made
    BY <1>2, RemovedFiles
  <2>2. Exit(d, fs, "refused")
    BY <1>3
  <2> HIDE DEF fs
  <2>3. 0 \in Int /\ fs.made \in Nat /\ fs.made >= files.made
    BY <1>2, <2>1
  <2>4. Touches(s, program[d], d, files, fs)
    BY <1>1, <2>1, <2>3, PastLock, EntryChanged
  <2>5. QED
    BY <1>1, <2>2, <2>4, ExitKeeps
<1>4. CASE Proceed(d, s, [files EXCEPT !.narrow = @ \cup {Entry(d)}])
  <2> DEFINE fs == [files EXCEPT !.narrow = @ \cup {Entry(d)}]
  <2>1. Entry(d) \in Int
    BY <1>2 DEF Entry, FileRecords
  <2>2. /\ fs \in FileRecords /\ fs.entry = files.entry /\ fs.lockfile = files.lockfile
        /\ fs.held = files.held /\ fs.taken = files.taken /\ fs.made = files.made
    BY <1>2, <2>1 DEF FileRecords
  <2>3. Proceed(d, s, fs)
    BY <1>4
  <2> HIDE DEF fs
  <2>4. QED
    BY <1>1, <2>2, <2>3, PlainProceeds
<1>5. QED
  BY <1>3, <1>4 DEF secure_bound_socket

\* The socket is bound: from now on the path leads to it.
LEMMA StepBind ==
  ASSUME StartIInv, NEW d \in Servers, bind(d)
  PROVE  StartIInv'
<1> DEFINE s == server[d]
           name == program[d]
           n == DoneSteps(s, name)
           narrow == Head(s.todo) = "bind_narrow"
           ino == files.made + 1
           fs == Bound(s, narrow)
           r == [s EXCEPT !.bound = ino]
<1>1. PICK step \in {"bind", "bind_narrow"} : Doing(d, step)
  BY DEF bind
<1>2. program' = program /\ "refused" \in Ends
  BY DEF bind, Ends
<1>3. CASE Exit(d, files, "refused")
  BY <1>2, <1>3, Refusal
<1>4. CASE Proceed(d, r, fs)
  <2>1. /\ s \in ServerRecords /\ s.path \in Paths /\ files \in FileRecords /\ files.made \in Nat
        /\ ino \in Nat /\ ino \in Int /\ ino >= files.made
    <3>1. s \in ServerRecords /\ s.path \in Paths /\ files \in FileRecords
      BY FilesType DEF StartIInv, ServerRecords
    <3>2. files.made \in Nat
      BY <3>1 DEF FileRecords
    <3>3. QED
      BY <3>1, <3>2
  <2>2. /\ fs \in FileRecords /\ fs.entry = [files.entry EXCEPT ![s.path] = ino]
        /\ fs.lockfile = files.lockfile /\ fs.held = files.held /\ fs.taken = files.taken
        /\ fs.made = ino
    <3> HIDE DEF ino, narrow
    <3>1. fs = [files EXCEPT !.made = ino, !.entry[s.path] = ino, !.live = @ \cup {ino},
                             !.narrow = IF narrow THEN @ \cup {ino} ELSE @]
      BY DEF Bound, ino
    <3> HIDE DEF fs
    <3>2. QED
      BY <2>1, <3>1 DEF FileRecords
  <2>3. Proceed(d, r, fs)
    BY <1>4
  <2> HIDE DEF fs, ino
  <2>4. /\ r \in ServerRecords /\ r.mode = s.mode /\ r.todo = s.todo /\ r.path = s.path
        /\ r.asked = s.asked /\ r.lock = s.lock /\ r.bound = ino
    BY <2>1 DEF ServerRecords
  <2> HIDE DEF r
  <2>5. Holds(s, name)
    BY <1>1, PastLock
  <2>6. Touches(s, name, d, files, fs)
    BY <2>1, <2>2, <2>5, EntryChanged
  <2>7. s.todo # <<>> /\ name \in LockedPrograms
    BY <1>1, AtStep
  <2>8. s.lock > 0 /\ s.lock = files.lockfile[s.path] /\ <<s.lock, d>> \in files.held
    BY <2>1, <2>5, <2>7, InOrder DEF StartIInv, ServerOK, Owns
  <2>9. fs.entry[r.path] = r.bound
    BY <2>1, <2>2, <2>4 DEF FileRecords
  <2>10. Claims(r, name, d, n + 1, fs)
    BY <2>2, <2>4, <2>8, <2>9 DEF Claims
  <2>11. QED
    BY <1>2, <2>3, <2>4, <2>6, <2>7, <2>10, ProceedKeeps
<1>5. QED
  BY <1>3, <1>4 DEF bind

\* The lock file of a path is opened, or made if it is not there.
LEMMA StepOpenLock ==
  ASSUME StartIInv, NEW d \in Servers, OpenLock(d)
  PROVE  StartIInv'
<1> DEFINE s == server[d]
           name == program[d]
           n == DoneSteps(s, name)
           there == files.lockfile[s.path]
           ino == IF there = Absent THEN files.made + 1 ELSE there
           made == IF there = Absent THEN ino ELSE files.made
           fs == [files EXCEPT !.lockfile[s.path] = ino, !.made = made]
           r == [s EXCEPT !.lock = ino]
<1>1. /\ Doing(d, "open_lock") /\ program' = program /\ Proceed(d, r, fs)
  BY DEF OpenLock
<1>2. s \in ServerRecords /\ s.path \in Paths /\ files \in FileRecords /\ files.made \in Nat
  BY FilesType DEF StartIInv, ServerRecords, FileRecords
<1>3. \A p \in Paths : files.lockfile[p] \in Nat /\ files.lockfile[p] <= files.made
  BY <1>2 DEF StartIInv, FilesOK, FileRecords
<1>4. /\ ino \in Nat /\ ino > 0 /\ made \in Nat /\ made >= files.made /\ ino <= made
      /\ there # Absent => ino = there
      /\ there = Absent => ino > files.made
  BY <1>2, <1>3 DEF Absent
<1> HIDE DEF ino, made
<1>5. /\ fs \in FileRecords /\ fs.entry = files.entry /\ fs.held = files.held
      /\ fs.taken = files.taken /\ fs.made = made
      /\ fs.lockfile = [files.lockfile EXCEPT ![s.path] = ino]
  BY <1>2, <1>4 DEF FileRecords
<1>6. /\ fs.lockfile[s.path] = ino
      /\ \A p \in Paths : p # s.path => fs.lockfile[p] = files.lockfile[p]
  BY <1>2, <1>5 DEF FileRecords
<1>7. /\ r \in ServerRecords /\ r.mode = s.mode /\ r.todo = s.todo /\ r.path = s.path
      /\ r.asked = s.asked /\ r.lock = ino
  BY <1>2, <1>4 DEF ServerRecords
<1> HIDE DEF fs, r
<1>8. FilesOK(fs)
  <2>1. ASSUME NEW p \in Paths
        PROVE  fs.lockfile[p] <= fs.made
    BY <1>2, <1>3, <1>4, <1>5, <1>6
  <2>2. ASSUME NEW p \in Paths, NEW q \in Paths, p # q
        PROVE  fs.lockfile[p] = Absent \/ fs.lockfile[p] # fs.lockfile[q]
    <3>1. files.lockfile[p] = Absent \/ files.lockfile[p] # files.lockfile[q]
      BY <2>2 DEF StartIInv, FilesOK
    <3>2. files.lockfile[q] = Absent \/ files.lockfile[q] # files.lockfile[p]
      BY <2>2 DEF StartIInv, FilesOK
    <3>3. files.lockfile[p] \in Nat /\ files.lockfile[q] \in Nat
          /\ files.lockfile[p] <= files.made /\ files.lockfile[q] <= files.made
      BY <1>3
    <3>4. QED
      BY <1>2, <1>4, <1>6, <2>2, <3>1, <3>2, <3>3 DEF Absent
  <2>3. QED
    BY <1>5, <2>1, <2>2 DEF FilesOK, StartIInv
<1>9. Touches(s, name, d, files, fs)
  BY <1>4, <1>5, <1>6, <1>8 DEF Touches
<1>10. /\ s.todo # <<>> /\ name \in LockedPrograms /\ s.mode # "stopping"
       /\ s.mode \in {"starting", "stopping"}
       /\ s.mode = "starting" =>
            n + 1 \in 1 .. SizeOf(name) /\ StepsOf(name)[n + 1] = "open_lock"
  BY <1>1, AtStep
<1>11. n + 1 = LockAt(name) - 1
  BY <1>10, StepPlaces
<1>12. LockAt(name) \in Int /\ BindAt(name) \in Int /\ LockAt(name) < BindAt(name)
  BY DEF LockAt, BindAt
<1> HIDE DEF n
<1>13. ~(n + 1 >= LockAt(name)) /\ ~(n + 1 >= BindAt(name))
  BY <1>11, <1>12
<1>14. Claims(r, name, d, n + 1, fs)
  BY <1>4, <1>6, <1>7, <1>10, <1>13 DEF Claims
<1>15. QED
  BY <1>1, <1>7, <1>9, <1>10, <1>14, ProceedKeeps DEF n

\* The lock is taken when nobody has it.
LEMMA StepAcquire ==
  ASSUME StartIInv, NEW d \in Servers, acquire_socket_lock(d)
  PROVE  StartIInv'
<1> DEFINE s == server[d]
           name == program[d]
           n == DoneSteps(s, name)
           fs == [files EXCEPT !.held = @ \cup {<<s.lock, d>>}]
<1>1. Doing(d, "lock") /\ program' = program /\ "refused" \in Ends
  BY DEF acquire_socket_lock, Ends
<1>2. CASE Exit(d, files, "refused")
  BY <1>1, <1>2, Refusal
<1>3. CASE Proceed(d, s, fs) /\ ~\E h \in files.held : h[1] = s.lock
  <2>1. s \in ServerRecords /\ s.path \in Paths /\ s.lock \in Nat /\ files \in FileRecords
    BY FilesType DEF StartIInv, ServerRecords
  <2>2. <<s.lock, d>> \in Nat \X Servers
    BY <2>1
  <2>3. /\ fs \in FileRecords /\ fs.entry = files.entry /\ fs.lockfile = files.lockfile
        /\ fs.held = files.held \cup {<<s.lock, d>>} /\ fs.taken = files.taken
        /\ fs.made = files.made
    BY <2>1, <2>2 DEF FileRecords
  <2> HIDE DEF fs
  <2>4. FilesOK(fs)
    <3>1. ASSUME NEW g \in fs.held, NEW h \in fs.held, g[1] = h[1]
          PROVE  g[2] = h[2]
      <4>1. CASE g \in files.held /\ h \in files.held
        BY <3>1, <4>1 DEF StartIInv, FilesOK
      <4>2. CASE g = <<s.lock, d>> /\ h = <<s.lock, d>>
        BY <4>2
      <4>3. CASE g = <<s.lock, d>> /\ h \in files.held
        BY <1>3, <3>1, <4>3
      <4>4. CASE h = <<s.lock, d>> /\ g \in files.held
        BY <1>3, <3>1, <4>4
      <4>5. QED
        BY <2>3, <4>1, <4>2, <4>3, <4>4
    <3>2. QED
      BY <2>3, <3>1 DEF FilesOK, StartIInv
  <2>5. Touches(s, name, d, files, fs)
    BY <2>3, <2>4 DEF Touches
  <2>6. /\ s.todo # <<>> /\ name \in LockedPrograms /\ s.mode # "stopping"
        /\ s.mode = "starting"
        /\ n + 1 \in 1 .. SizeOf(name) /\ StepsOf(name)[n + 1] = "lock"
    BY <1>1, AtStep
  <2>7. n + 1 = LockAt(name)
    BY <2>6, StepPlaces
  <2>8. /\ LockAt(name) \in Int /\ BindAt(name) \in Int /\ LockAt(name) < BindAt(name)
        /\ n \in Int
    BY <2>1, <2>6, InOrder DEF LockAt, BindAt
  <2>9. Opened(s, name)
    <3> HIDE DEF n
    <3>1. n >= LockAt(name) - 1
      BY <2>7, <2>8
    <3>2. QED
      BY <2>6, <3>1 DEF Opened, n
  <2>10. s.lock > 0 /\ s.lock = files.lockfile[s.path]
    BY <2>9 DEF StartIInv, ServerOK, Owns
  <2> HIDE DEF n
  <2>11. ~(n + 1 >= BindAt(name))
    BY <2>7, <2>8
  <2>12. Claims(s, name, d, n + 1, fs)
    BY <2>3, <2>6, <2>10, <2>11 DEF Claims
  <2>13. QED
    BY <1>1, <1>3, <2>1, <2>5, <2>6, <2>12, ProceedKeeps DEF n
<1>4. QED
  BY <1>2, <1>3 DEF acquire_socket_lock

\* Every step a server takes of its own.
LEMMA StepServer ==
  ASSUME StartIInv, NEW d \in Servers, ServerStep(d)
  PROVE  StartIInv'
BY StepPrepareParent, StepMakeDirectory, StepOpenLock, StepAcquire, StepIdle, StepRemoveStale,
   StepBind, StepSecure, StepNotes, StepCloseListener, StepRemoveOwned DEF ServerStep

-----------------------------------------------------------------------------
(* What is done to a server.                                               *)

\* A change of one server that leaves the files alone.
LEMMA ServerChanges ==
  ASSUME StartIInv, NEW d \in Servers, NEW new, server' = [server EXCEPT ![d] = new],
         ServerOK(new, program[d], d, files), UNCHANGED <<program, files>>
  PROVE  StartIInv'
<1>1. server \in [Servers -> ServerRecords] /\ new \in ServerRecords
  BY DEF StartIInv, ServerOK
<1>2. server'[d] = new /\ \A e \in Servers : e # d => server'[e] = server[e]
  BY <1>1
<1>3. server' \in [Servers -> ServerRecords]
  BY <1>1
<1>4. \A e \in Servers : ServerOK(server'[e], program[e], e, files)
  BY <1>2 DEF StartIInv
<1>5. QED
  BY <1>3, <1>4 DEF StartIInv

\* A server is launched with a command line that its program refuses or accepts.
LEMMA StepLaunch ==
  ASSUME CommandLinesUnderstood, PathsNamed, StartIInv, NEW d \in Servers, NEW uid,
         NEW args \in Argv[program[d]], Launch(d, uid, args)
  PROVE  StartIInv'
<1> DEFINE name == program[d]
           parsed == Parsed(name, args)
<1>1. name \in LockedPrograms /\ UNCHANGED <<program, files>>
  BY DEF StartIInv, Launch
<1>2. Off \in ServerRecords /\ Off.mode = "off" /\ Off.todo = <<>>
  <2>1. PICK m \in Modes, t \in Seq(StepNames), h \in Ends : m = "off" /\ t = <<>> /\ h = "never"
    <3>1. "off" \in Modes /\ <<>> \in Seq(StepNames) /\ "never" \in Ends
      BY DEF Modes, Ends
    <3>2. QED
      BY <3>1
  <2>2. Off = [mode |-> m, todo |-> t, path |-> DefaultPath, asked |-> DefaultPath,
               bound |-> 0, identity |-> 0, lock |-> 0, conns |-> 0, how |-> h]
    BY <2>1 DEF Off, Absent
  <2>3. QED
    BY <2>1, <2>2 DEF ServerRecords, PathsNamed
<1>3. CASE server' = [server EXCEPT ![d] = [Off EXCEPT !.how = "refused"]]
  <2>1. PICK h \in Ends : h = "refused"
    BY DEF Ends
  <2> DEFINE new == [Off EXCEPT !.how = h]
  <2>2. new \in ServerRecords /\ new.mode = "off" /\ new.todo = <<>>
    <3> HIDE DEF Off
    <3>1. QED
      BY <1>2 DEF ServerRecords
  <2>3. server' = [server EXCEPT ![d] = new]
    BY <1>3, <2>1
  <2> HIDE DEF new
  <2>4. ServerOK(new, name, d, files)
    BY <2>2 DEF ServerOK, Progress, Owns, Opened, Holds, Published
  <2>5. QED
    BY <1>1, <2>3, <2>4, ServerChanges
<1>4. CASE /\ parsed.ok
           /\ server' = [server EXCEPT ![d] =
                [Off EXCEPT !.mode = "starting", !.todo = Programs[name].start,
                            !.path = parsed.path, !.asked = Asked(args), !.how = "clean"]]
  <2>1. PICK m \in Modes, h \in Ends : m = "starting" /\ h = "clean"
    <3>1. "starting" \in Modes /\ "clean" \in Ends
      BY DEF Modes, Ends
    <3>2. QED
      BY <3>1
  <2>2. parsed.path = Asked(args) /\ Asked(args) \in Paths
    BY <1>1, <1>4 DEF CommandLinesUnderstood
  <2>3. StepsOf(name) \in Seq(StepNames) /\ Len(StepsOf(name)) = SizeOf(name)
    BY <1>1, StepPlaces
  <2> DEFINE new == [Off EXCEPT !.mode = m, !.todo = StepsOf(name), !.path = parsed.path,
                                !.asked = Asked(args), !.how = h]
  <2>4. server' = [server EXCEPT ![d] = new]
    BY <1>4, <2>1 DEF StepsOf
  <2>5. /\ new \in ServerRecords /\ new.mode = m /\ new.todo = StepsOf(name)
        /\ new.path = parsed.path /\ new.asked = Asked(args)
    <3> HIDE DEF parsed
    <3>1. QED
      BY <1>2, <2>2, <2>3 DEF ServerRecords
  <2> HIDE DEF new
  <2>6. EndOf(StepsOf(name), StepsOf(name))
    <3>1. SizeOf(name) \in Nat \ {0}
      BY DEF SizeOf
    <3>2. \A t \in Seq(StepNames) : t = <<>> => Len(t) = 0
      OBVIOUS
    <3>3. StepsOf(name) # <<>>
      BY <2>3, <3>1, <3>2
    <3>4. \A i \in 1 .. SizeOf(name) : SizeOf(name) - SizeOf(name) + i = i
      BY <3>1
    <3>5. QED
      BY <2>3, <3>1, <3>3, <3>4 DEF EndOf
  <2>7. DoneSteps(new, name) = 0
    BY <2>3, <2>5 DEF DoneSteps, SizeOf
  <2>8. Progress(new, name)
    BY <2>1, <2>2, <2>5, <2>6 DEF Progress
  <2>9. ~Opened(new, name) /\ ~Holds(new, name) /\ ~Published(new, name)
    BY <2>1, <2>5, <2>7 DEF Opened, Holds, Published, LockAt, BindAt
  <2>10. ServerOK(new, name, d, files)
    BY <2>5, <2>8, <2>9 DEF ServerOK, Owns
  <2>11. QED
    BY <1>1, <2>4, <2>10, ServerChanges
<1>5. QED
  BY <1>3, <1>4 DEF Launch

\* Connections come and go.
LEMMA StepConnections ==
  ASSUME StartIInv, NEW d \in Servers,
         (\E uid : Accept(d, uid)) \/ ConnectionEnds(d)
  PROVE  StartIInv'
<1> DEFINE s == server[d]
<1>1. s \in ServerRecords /\ ServerOK(s, program[d], d, files)
      /\ server \in [Servers -> ServerRecords]
  BY DEF StartIInv
<1>2. s.conns \in Int
  BY <1>1 DEF ServerRecords
<1>3. PICK c \in Int : server' = [server EXCEPT ![d] = [s EXCEPT !.conns = c]]
  <2>1. s.conns + 1 \in Int /\ s.conns - 1 \in Int
    BY <1>2
  <2>2. \/ server' = [server EXCEPT ![d] = [s EXCEPT !.conns = s.conns + 1]]
        \/ server' = [server EXCEPT ![d] = [s EXCEPT !.conns = s.conns - 1]]
    BY DEF Accept, ConnectionEnds
  <2>3. QED
    BY <2>1, <2>2
<1>4. UNCHANGED <<program, files>>
  BY DEF Accept, ConnectionEnds
<1> DEFINE new == [s EXCEPT !.conns = c]
<1>5. /\ new \in ServerRecords /\ new.mode = s.mode /\ new.todo = s.todo /\ new.path = s.path
      /\ new.asked = s.asked /\ new.lock = s.lock /\ new.bound = s.bound
  BY <1>1 DEF ServerRecords
<1>6. server' = [server EXCEPT ![d] = new]
  BY <1>3
<1> HIDE DEF new
<1>7. ServerOK(new, program[d], d, files)
  BY <1>1, <1>5 DEF ServerOK, Progress, Owns, Opened, Holds, Published, DoneSteps
<1>8. QED
  BY <1>4, <1>6, <1>7, ServerChanges

\* A server is told to stop: it keeps the lock while it does.
LEMMA StepSignal ==
  ASSUME StartIInv, NEW d \in Servers, Signal(d)
  PROVE  StartIInv'
<1> DEFINE s == server[d]
           name == program[d]
           stop == Programs[name].stop
<1>1. /\ s \in ServerRecords /\ ServerOK(s, name, d, files) /\ name \in LockedPrograms
      /\ s.mode = "serving" /\ UNCHANGED <<program, files>>
  BY DEF StartIInv, Signal
<1>2. PICK m \in Modes : m = "stopping"
  BY DEF Modes
<1>3. stop \in Seq(StepNames) /\ stop # <<>>
  BY <1>1, StopPlaces
<1> DEFINE new == [s EXCEPT !.mode = m, !.todo = stop]
<1>4. server' = [server EXCEPT ![d] = new]
  BY <1>2 DEF Signal
<1> HIDE DEF stop
<1>5. /\ new \in ServerRecords /\ new.mode = m /\ new.todo = stop /\ new.path = s.path
      /\ new.asked = s.asked /\ new.lock = s.lock
  BY <1>1, <1>3 DEF ServerRecords
<1> HIDE DEF new
<1>6. EndOf(stop, stop)
  <2>1. Len(stop) \in Nat
    BY <1>3
  <2>2. \A i \in 1 .. Len(stop) : Len(stop) - Len(stop) + i = i
    BY <2>1
  <2>3. QED
    BY <1>3, <2>1, <2>2 DEF EndOf
<1>7. Progress(new, name)
  BY <1>1, <1>2, <1>5, <1>6 DEF ServerOK, Progress, stop
<1>8. Owns(new, name, d, files)
  BY <1>1, <1>2, <1>5 DEF ServerOK, Owns, Opened, Holds, Published
<1>9. ServerOK(new, name, d, files)
  BY <1>5, <1>7, <1>8 DEF ServerOK
<1>10. QED
  BY <1>1, <1>4, <1>9, ServerChanges

\* The operator takes a socket away.
LEMMA StepOperator ==
  ASSUME StartIInv, NEW p \in Paths, NEW with \in {Absent, NotASocket}, OperatorRemoves(p, with)
  PROVE  StartIInv'
<1> DEFINE old == files.entry[p]
           fs == [files EXCEPT !.entry[p] = with, !.taken = @ \cup {old}]
<1>1. files' = fs /\ UNCHANGED <<program, server>> /\ files \in FileRecords
  BY FilesType DEF OperatorRemoves
<1>2. with \in Int /\ old \in Int
  BY <1>1 DEF FileRecords, Absent, NotASocket
<1> HIDE DEF old
<1>3. /\ fs \in FileRecords /\ fs.lockfile = files.lockfile /\ fs.held = files.held
      /\ fs.made = files.made /\ fs.taken = files.taken \cup {old}
      /\ fs.entry = [files.entry EXCEPT ![p] = with]
  BY <1>1, <1>2 DEF FileRecords
<1>4. \A q \in Paths : q # p => fs.entry[q] = files.entry[q]
  BY <1>1, <1>3 DEF FileRecords
<1> HIDE DEF fs
<1>5. FilesOK(fs)
  BY <1>3 DEF StartIInv, FilesOK
<1>6. ASSUME NEW e \in Servers
      PROVE  ServerOK(server[e], program[e], e, fs)
  <2>1. ServerOK(server[e], program[e], e, files) /\ server[e].path \in Paths
    BY DEF StartIInv, ServerRecords
  <2>2. files.entry[server[e].path] = server[e].bound =>
          fs.entry[server[e].path] = server[e].bound \/ server[e].bound \in fs.taken
    BY <1>3, <1>4, <2>1 DEF old
  <2>3. QED
    BY <1>3, <2>1, <2>2 DEF ServerOK, Owns
<1>7. QED
  BY <1>1, <1>5, <1>6 DEF StartIInv

-----------------------------------------------------------------------------
(* The theorem.                                                            *)

\* At first nothing runs and no path leads anywhere.
LEMMA InitStart ==
  ASSUME LockedScenes, PathsNamed, StartInit
  PROVE  StartIInv
<1>1. program \in [Servers -> LockedPrograms]
  BY DEF LockedScenes, StartInit
<1>2. PICK dir \in Kinds :
        files = [dir |-> [p \in Paths |-> dir], entry |-> [p \in Paths |-> Absent],
                 lockfile |-> [p \in Paths |-> Absent], held |-> {}, live |-> {},
                 narrow |-> {}, taken |-> {}, made |-> 0]
  BY DEF StartInit, Kinds
<1>3. FilesOK(files)
  BY <1>2 DEF FilesOK, FileRecords, Absent
<1>4. Off \in ServerRecords /\ Off.mode = "off" /\ Off.todo = <<>>
  <2>1. PICK m \in Modes, t \in Seq(StepNames), h \in Ends : m = "off" /\ t = <<>> /\ h = "never"
    <3>1. "off" \in Modes /\ <<>> \in Seq(StepNames) /\ "never" \in Ends
      BY DEF Modes, Ends
    <3>2. QED
      BY <3>1
  <2>2. Off = [mode |-> m, todo |-> t, path |-> DefaultPath, asked |-> DefaultPath,
               bound |-> 0, identity |-> 0, lock |-> 0, conns |-> 0, how |-> h]
    BY <2>1 DEF Off, Absent
  <2>3. QED
    BY <2>1, <2>2 DEF ServerRecords, PathsNamed
<1>5. server = [d \in Servers |-> Off]
  BY DEF StartInit
<1> HIDE DEF Off
<1>6. \A d \in Servers : ServerOK(server[d], program[d], d, files)
  BY <1>4, <1>5 DEF ServerOK, Progress, Owns, Opened, Holds, Published
<1>7. QED
  BY <1>1, <1>3, <1>4, <1>5, <1>6 DEF StartIInv

\* Every step keeps the invariant.
LEMMA NextStart ==
  ASSUME CommandLinesUnderstood, PathsNamed, StartIInv, [StartNext]_startVars
  PROVE  StartIInv'
<1>1. ASSUME NEW d \in Servers, NEW uid, NEW args \in Argv[program[d]], Launch(d, uid, args)
      PROVE  StartIInv'
  BY <1>1, StepLaunch
<1>2. ASSUME NEW d \in Servers, ServerStep(d)
      PROVE  StartIInv'
  BY <1>2, StepServer
<1>3. ASSUME NEW d \in Servers, NEW uid, Accept(d, uid)
      PROVE  StartIInv'
  BY <1>3, StepConnections
<1>4. ASSUME NEW d \in Servers, NEW args, BridgeConnects(d, args)
      PROVE  StartIInv'
  BY <1>4, StepConnections DEF BridgeConnects
<1>5. ASSUME NEW d \in Servers, ConnectionEnds(d)
      PROVE  StartIInv'
  BY <1>5, StepConnections
<1>6. ASSUME NEW d \in Servers, Signal(d)
      PROVE  StartIInv'
  BY <1>6, StepSignal
<1>7. ASSUME NEW d \in Servers, Crash(d)
      PROVE  StartIInv'
  <2>1. Exit(d, files, "killed") /\ program' = program /\ "killed" \in Ends
    BY <1>7 DEF Crash, Ends
  <2>2. QED
    BY <2>1, Refusal
<1>8. ASSUME NEW p \in Paths, NEW with \in {Absent, NotASocket}, OperatorRemoves(p, with)
      PROVE  StartIInv'
  BY <1>8, StepOperator
<1>9. CASE UNCHANGED startVars
  BY <1>9 DEF startVars, StartIInv
<1>10. QED
  BY <1>1, <1>2, <1>3, <1>4, <1>5, <1>6, <1>7, <1>8, <1>9 DEF StartNext

\* Any number of servers that take the lock of their path may be started, stopped
\* and killed on it at once: one that is ready is what the path leads to
\* (bind_owned_socket, acquire_socket_lock, OwnedSocket::remove), until it is told to
\* stop or the operator takes the socket away.
THEOREM SocketStaysOwned ==
  ASSUME LockedScenes, CommandLinesUnderstood, PathsNamed
  PROVE  StartSpec => []ServedAtPath
<1>1. StartInit => StartIInv
  BY InitStart
<1>2. StartIInv /\ [StartNext]_startVars => StartIInv'
  BY NextStart
<1>3. StartIInv => ServedAtPath
  <2>1. SUFFICES ASSUME StartIInv, NEW d \in Servers, server[d].mode = "serving"
                 PROVE  \/ files.entry[server[d].asked] = server[d].bound
                        \/ server[d].bound \in files.taken
    BY DEF ServedAtPath
  <2>2. Progress(server[d], program[d]) /\ Owns(server[d], program[d], d, files)
    BY <2>1 DEF StartIInv, ServerOK
  <2>3. server[d].path = server[d].asked
    BY <2>1, <2>2 DEF Progress
  <2>4. QED
    BY <2>1, <2>2, <2>3 DEF Owns, Published
<1>4. QED
  BY <1>1, <1>2, <1>3, PTL DEF StartSpec

-----------------------------------------------------------------------------
(***************************************************************************)
(* ProcessMonitor. The table the clients are sent is exactly the visible   *)
(* processes, and a kill reaches the process that was selected, for any    *)
(* number of processes, clients, samples and limits.                       *)
(*                                                                         *)
(* First the difference of two lists of rows.  Retained keeps rows whose   *)
(* positions in the new list increase, so what is kept is the new list's   *)
(* retained rows in its order; InsertRuns covers the other positions; and  *)
(* inserting the runs in order makes one more stretch of the table final   *)
(* with each (Final).                                                      *)
(***************************************************************************)

Keys == [pid : Pids, start : Nat]
Row == [item : Nat, key : Keys, value : BOOLEAN]

Distinct(rows) == \A i, j \in 1..Len(rows) : rows[i].item = rows[j].item => i = j

\* An item of the rows is at its position.
LEMMA PositionFound ==
  ASSUME NEW rows \in Seq(Row), NEW item \in ItemsOf(rows)
  PROVE  PositionOf(rows, item) \in 1..Len(rows) /\ rows[PositionOf(rows, item)].item = item
<1>1. \E i \in 1..Len(rows) : rows[i].item = item
  BY DEF ItemsOf
<1> QED BY <1>1, Zenon DEF PositionOf

\* Rows of distinct items: the position of an item is where its row is.
LEMMA PositionIs ==
  ASSUME NEW rows \in Seq(Row), Distinct(rows), NEW i \in 1..Len(rows)
  PROVE  rows[i].item \in ItemsOf(rows) /\ PositionOf(rows, rows[i].item) = i
<1>1. rows[i].item \in ItemsOf(rows)
  BY DEF ItemsOf
<1> QED BY <1>1, PositionFound DEF Distinct

\* c holds what is retained of the first rows, and the highest position so far.
Retains(c, prev, next) ==
  /\ c[0] = [highest |-> 0, items |-> {}] /\ c[Len(prev)].items = Retained(prev, next)
  /\ \A k \in 1..Len(prev) :
       c[k] = IF prev[k].item \notin ItemsOf(next) \/ PositionOf(next, prev[k].item) < c[k - 1].highest THEN c[k - 1]
              ELSE [highest |-> PositionOf(next, prev[k].item), items |-> c[k - 1].items \cup {prev[k].item}]

\* The fold goes through such states.
LEMMA RetainedTrace ==
  ASSUME NEW prev \in Seq(Row), NEW next \in Seq(Row)
  PROVE  \E c \in [0..Len(prev) -> [highest : Nat, items : SUBSET ItemsOf(next)]] : Retains(c, prev, next)
<1> DEFINE n == Len(prev)
           T == [highest : Nat, items : SUBSET ItemsOf(next)]
           base == [highest |-> 0, items |-> {}]
           op(a, i) == IF prev[i].item \notin ItemsOf(next) \/ PositionOf(next, prev[i].item) < a.highest THEN a
              ELSE [highest |-> PositionOf(next, prev[i].item), items |-> a.items \cup {prev[i].item}]
           step == [p \in T \X (1..n) |-> op(p[1], p[2])]
           it == CHOOSE f : f = [s \in SUBSET DOMAIN prev |->
                   IF s = {} THEN base ELSE op(f[s \ {Max(s)}], Max(s))]
<1>1. n \in Nat /\ DOMAIN prev = 1..n /\ base \in T
  OBVIOUS
<1>2. Retained(prev, next) = it[DOMAIN prev].items
  BY Zenon DEF Retained, FoldLeft, MapThenFoldSet
<1>3. step \in [T \X (1..n) -> T] /\ \A a \in T, i \in 1..n : step[<<a, i>>] = op(a, i)
  <2>1. ASSUME NEW a \in T, NEW i \in 1..n PROVE op(a, i) \in T
    <3>1. CASE prev[i].item \notin ItemsOf(next)
      BY <3>1
    <3>2. CASE prev[i].item \in ItemsOf(next)
      <4>1. PositionOf(next, prev[i].item) \in Nat
        BY <3>2, PositionFound
      <4> QED BY <3>2, <4>1
    <3> QED BY <3>1, <3>2
  <2> HIDE DEF op, T, n
  <2> QED BY <2>1
<1> HIDE DEF op, step, T, n, base
<1>4. PICK g \in [SUBSET (1..n) -> T] : Solves(g, base, step, n)
  BY <1>1, <1>3, FoldExists
<1>5. \A s \in SUBSET (1..n) : s # {} => Max(s) \in 1..n /\ s \ {Max(s)} \in SUBSET (1..n)
  BY <1>1, MaxOfPositions
<1>6. g = [s \in SUBSET DOMAIN prev |-> IF s = {} THEN base ELSE op(g[s \ {Max(s)}], Max(s))]
  <2>1. ASSUME NEW s \in SUBSET (1..n)
        PROVE  g[s] = IF s = {} THEN base ELSE op(g[s \ {Max(s)}], Max(s))
    <3>1. CASE s = {}
      BY <1>4, <3>1 DEF Solves
    <3>2. CASE s # {}
      <4>1. g[s \ {Max(s)}] \in T /\ Max(s) \in 1..n
        BY <1>4, <1>5, <3>2
      <4>2. g[s] = step[<<g[s \ {Max(s)}], Max(s)>>]
        BY <1>4, <3>2 DEF Solves
      <4> QED BY <1>3, <3>2, <4>1, <4>2
    <3> QED BY <3>1, <3>2
  <2> QED BY <1>1, <1>4, <2>1
<1>7. it = [s \in SUBSET DOMAIN prev |-> IF s = {} THEN base ELSE op(it[s \ {Max(s)}], Max(s))]
  BY <1>6, Zenon
<1> HIDE DEF it
<1>8. Iterates(it, base, step, T, n)
  BY <1>1, <1>3, <1>5, <1>7 DEF Iterates
<1>9. PICK c \in [0..n -> T] : Passes(c, base, step, n, it[1..n])
  BY <1>1, <1>3, <1>8, FoldTrace
<1>10. ASSUME NEW k \in 1..n PROVE c[k] = op(c[k - 1], k)
  <2>1. k - 1 \in 0..n
    BY <1>1
  <2> QED BY <1>3, <1>9, <2>1 DEF Passes
<1>11. c[0] = base /\ c[n].items = Retained(prev, next)
  BY <1>1, <1>2, <1>9 DEF Passes
<1>12. Retains(c, prev, next)
  BY <1>10, <1>11, Zenon DEF n, op, base, Retains
<1> QED BY <1>12 DEF n, T

\* What is retained are rows of both lists, in an order they have in both.
LEMMA RetainedIncreases ==
  ASSUME NEW prev \in Seq(Row), NEW next \in Seq(Row), Distinct(prev), Distinct(next)
  PROVE  /\ Retained(prev, next) \subseteq ItemsOf(prev) \cap ItemsOf(next)
         /\ \A i, j \in 1..Len(prev) :
              (i < j /\ prev[i].item \in Retained(prev, next) /\ prev[j].item \in Retained(prev, next))
              => PositionOf(next, prev[i].item) < PositionOf(next, prev[j].item)
<1> DEFINE n == Len(prev)
           Pos(i) == PositionOf(next, prev[i].item)
<1>1. PICK c \in [0..n -> [highest : Nat, items : SUBSET ItemsOf(next)]] : Retains(c, prev, next)
  BY RetainedTrace
<1> DEFINE Q == {k \in 0..n :
              /\ \A x \in c[k].items : \E i \in 1..k : x = prev[i].item
              /\ \A i \in 1..k : prev[i].item \in c[k].items => Pos(i) <= c[k].highest
              /\ \A i, j \in 1..k :
                   (i < j /\ prev[i].item \in c[k].items /\ prev[j].item \in c[k].items)
                   => Pos(i) < Pos(j)}
<1>2. n \in Nat /\ 0 \in 0..n /\ n \in 0..n
  OBVIOUS
<1>3. 0 \in Q
  <2>1. c[0].items = {}
    BY <1>1 DEF Retains
  <2> QED BY <1>2, <2>1
<1>4. ASSUME NEW k \in 1..n, k - 1 \in Q PROVE k \in Q
  <2>1. k - 1 \in 0..n /\ k \in 0..n /\ c[k - 1] \in [highest : Nat, items : SUBSET ItemsOf(next)]
    BY <1>1, SMTT(30)
  <2>2. /\ \A x \in c[k - 1].items : \E i \in 1..(k - 1) : x = prev[i].item
        /\ \A i \in 1..(k - 1) : prev[i].item \in c[k - 1].items => Pos(i) <= c[k - 1].highest
        /\ \A i, j \in 1..(k - 1) :
             (i < j /\ prev[i].item \in c[k - 1].items /\ prev[j].item \in c[k - 1].items)
             => Pos(i) < Pos(j)
    BY <1>4
  <2>3. prev[k].item \notin c[k - 1].items
    <3> SUFFICES ASSUME NEW i \in 1..(k - 1), prev[k].item = prev[i].item PROVE FALSE
      BY <2>2
    <3> QED BY DEF Distinct
  <2>4. \A i \in 1..k : i = k \/ i \in 1..(k - 1)
    OBVIOUS
  <2> DEFINE skip == prev[k].item \notin ItemsOf(next) \/ Pos(k) < c[k - 1].highest
  <2>5. CASE skip
    <3>1. c[k] = c[k - 1]
      BY <1>1, <2>5 DEF Retains
    <3> HIDE DEF skip
    <3>2. \A i \in 1..k : prev[i].item \in c[k].items => i \in 1..(k - 1)
      BY <2>3, <2>4, <3>1
    <3>3. \A x \in c[k].items : \E i \in 1..k : x = prev[i].item
      BY <2>2, <3>1
    <3> QED BY <2>1, <2>2, <3>1, <3>2, <3>3
  <2>6. CASE ~skip
    <3>1. c[k] = [highest |-> Pos(k), items |-> c[k - 1].items \cup {prev[k].item}]
      BY <1>1, <2>6 DEF Retains
    <3>2. prev[k].item \in ItemsOf(next) /\ ~(Pos(k) < c[k - 1].highest) /\ Pos(k) \in Nat
      BY <2>6, PositionFound
    <3> HIDE DEF skip
    <3>3. c[k].highest = Pos(k) /\ c[k].items = c[k - 1].items \cup {prev[k].item}
      BY <3>1
    <3>4. ASSUME NEW i \in 1..(k - 1), prev[i].item \in c[k].items
          PROVE  prev[i].item \in c[k - 1].items /\ Pos(i) \in Nat /\ Pos(i) < Pos(k)
      <4>1. prev[i].item # prev[k].item /\ i \in 1..n
        BY DEF Distinct
      <4>2. prev[i].item \in c[k - 1].items /\ prev[i].item \in ItemsOf(next)
        BY <2>1, <3>3, <3>4, <4>1
      <4>3. Pos(i) \in Nat /\ next[Pos(i)].item = prev[i].item /\ next[Pos(k)].item = prev[k].item
        BY <3>2, <4>2, PositionFound
      <4>4. Pos(i) # Pos(k)
        <5> HIDE DEF Pos
        <5> QED BY <4>1, <4>3
      <4>5. Pos(i) <= c[k - 1].highest
        BY <2>2, <4>2
      <4> HIDE DEF Pos
      <4> QED BY <2>1, <3>2, <4>2, <4>3, <4>4, <4>5
    <3> HIDE DEF Pos
    <3>5. \A x \in c[k].items : \E i \in 1..k : x = prev[i].item
      BY <2>2, <3>3
    <3>6. \A i \in 1..k : prev[i].item \in c[k].items => Pos(i) <= c[k].highest
      BY <2>4, <3>2, <3>3, <3>4
    <3>7. ASSUME NEW i \in 1..k, NEW j \in 1..k, i < j,
                 prev[i].item \in c[k].items, prev[j].item \in c[k].items
          PROVE  Pos(i) < Pos(j)
      <4>1. i \in 1..(k - 1) /\ prev[i].item \in c[k - 1].items
        BY <3>4, <3>7
      <4>2. CASE j = k
        BY <3>4, <3>7, <4>1, <4>2
      <4>3. CASE j \in 1..(k - 1)
        BY <2>2, <3>4, <3>7, <4>1, <4>3
      <4> QED BY <2>4, <4>2, <4>3
    <3> QED BY <2>1, <3>5, <3>6, <3>7
  <2> QED BY <2>5, <2>6
<1>5. n \in Q
  <2> HIDE DEF Q
  <2> QED BY <1>2, <1>3, <1>4, Counting
<1>6. c[n].items = Retained(prev, next) /\ c[n].items \subseteq ItemsOf(next)
  BY <1>1, <1>2 DEF Retains
<1>7. c[n].items \subseteq ItemsOf(prev)
  BY <1>5 DEF ItemsOf
<1> HIDE DEF Pos
<1>8. \A i, j \in 1..n : (i < j /\ prev[i].item \in c[n].items /\ prev[j].item \in c[n].items)
                   => Pos(i) < Pos(j)
  BY <1>5
<1> QED BY <1>6, <1>7, <1>8 DEF Pos

\* The retained rows of the table, in the order of the new list.
Kept(kept, R, next) ==
  /\ kept \in Seq(Row) /\ R \subseteq ItemsOf(next)
  /\ \A a \in 1..Len(kept) : kept[a].item \in R
  /\ \A a, b \in 1..Len(kept) :
       a < b => PositionOf(next, kept[a].item) < PositionOf(next, kept[b].item)
  /\ \A x \in R : \E a \in 1..Len(kept) : kept[a].item = x

\* Deleting what is not retained leaves them.
LEMMA KeptInOrder ==
  ASSUME NEW prev \in Seq(Row), NEW next \in Seq(Row), Distinct(prev), Distinct(next)
  PROVE  LET R == Retained(prev, next)
             kept == SelectIn(prev, {row \in ToSet(prev) : row.item \in R})
         IN  Kept(kept, R, next) /\ ToSet(kept) \subseteq ToSet(prev)
<1> DEFINE R == Retained(prev, next)
           keep == {row \in ToSet(prev) : row.item \in R}
           kept == SelectIn(prev, keep)
           Pos(x) == PositionOf(next, x)
<1>1. /\ R \subseteq ItemsOf(prev) /\ R \subseteq ItemsOf(next)
      /\ \A i, j \in 1..Len(prev) :
           (i < j /\ prev[i].item \in R /\ prev[j].item \in R) => Pos(prev[i].item) < Pos(prev[j].item)
  BY RetainedIncreases
<1>2. kept \in Seq(Row) /\ ToSet(kept) = ToSet(prev) \cap keep
  BY SelectInElements
<1>3. PICK f \in [1..Len(kept) -> 1..Len(prev)] : Picks(f, kept, prev, keep, Len(prev))
  BY SelectInOrder
<1> HIDE DEF R, Pos, kept
<1>4. \A a \in 1..Len(kept) : kept[a] = prev[f[a]] /\ kept[a].item \in R
  BY <1>3 DEF Picks
<1>5. ASSUME NEW a \in 1..Len(kept), NEW b \in 1..Len(kept), a < b
      PROVE  Pos(kept[a].item) < Pos(kept[b].item)
  <2>1. f[a] < f[b] /\ f[a] \in 1..Len(prev) /\ f[b] \in 1..Len(prev)
    BY <1>3, <1>5 DEF Picks
  <2> QED BY <1>1, <1>4, <2>1
<1>6. ASSUME NEW x \in R PROVE \E a \in 1..Len(kept) : kept[a].item = x
  <2>1. PICK i \in 1..Len(prev) : prev[i].item = x
    BY <1>1 DEF ItemsOf
  <2>2. prev[i] \in keep
    BY <2>1 DEF ToSet
  <2>3. PICK a \in 1..Len(kept) : f[a] = i
    BY <1>3, <2>2 DEF Picks
  <2> QED BY <1>4, <2>1, <2>3
<1>7. Kept(kept, R, next)
  BY <1>1, <1>2, <1>4, <1>5, <1>6 DEF Kept, Pos
<1> QED BY <1>2, <1>7 DEF kept, R

\* The first j kept rows are among the first e rows of the new list.
Splits(j, e, kept, next) ==
  /\ \A a \in 1..j : PositionOf(next, kept[a].item) <= e
  /\ \A a \in (j + 1)..Len(kept) : PositionOf(next, kept[a].item) > e

\* The first e rows are final but for the values, the others are kept ones.
Follows(rows, e, j, kept, R, next) ==
  /\ rows \in Seq(Row) /\ Len(rows) = e + Len(kept) - j
  /\ \A p \in 1..e : /\ rows[p].item = next[p].item
                     /\ IF next[p].item \in R THEN rows[p] \in ToSet(kept) ELSE rows[p] = next[p]
  /\ \A p \in (e + 1)..Len(rows) : rows[p] = kept[j + p - e]

Final(rows, e, kept, R, next) ==
  \E j \in 0..Len(kept) : Splits(j, e, kept, next) /\ Follows(rows, e, j, kept, R, next)

\* Before the first insertion nothing is final.
LEMMA FinalStart ==
  ASSUME NEW R, NEW next \in Seq(Row), NEW kept, Kept(kept, R, next)
  PROVE  Final(kept, 0, kept, R, next)
<1>1. kept \in Seq(Row) /\ 0 \in 0..Len(kept) /\ Len(kept) \in Nat
  BY DEF Kept
<1>2. \A a \in 1..Len(kept) : PositionOf(next, kept[a].item) \in 1..Len(next)
  BY PositionFound DEF Kept
<1>3. Splits(0, 0, kept, next)
  BY <1>1, <1>2 DEF Splits
<1>4. Follows(kept, 0, 0, kept, R, next)
  BY <1>1 DEF Follows
<1> QED BY <1>1, <1>3, <1>4 DEF Final

\* A retained row is already where it belongs.
LEMMA FinalAdvances ==
  ASSUME NEW R, NEW next \in Seq(Row), NEW kept, Kept(kept, R, next), Distinct(next),
         NEW rows, NEW e \in Nat, e < Len(next), next[e + 1].item \in R,
         Final(rows, e, kept, R, next)
  PROVE  Final(rows, e + 1, kept, R, next)
<1> DEFINE m == Len(kept)
           Pos(a) == PositionOf(next, kept[a].item)
<1>1. PICK j \in 0..m : Splits(j, e, kept, next) /\ Follows(rows, e, j, kept, R, next)
  BY DEF Final
<1>2. kept \in Seq(Row) /\ m \in Nat /\ e + 1 \in 1..Len(next)
  BY DEF Kept
<1>3. \A a \in 1..m : Pos(a) \in Nat
  BY PositionFound DEF Kept
<1>4. PICK a \in 1..m : kept[a].item = next[e + 1].item
  BY DEF Kept
<1>5. Pos(a) = e + 1
  BY <1>2, <1>4, PositionIs
<1>6. \A b, d \in 1..m : b < d => Pos(b) < Pos(d)
  BY DEF Kept
<1>7. (\A b \in 1..j : Pos(b) <= e) /\ (\A b \in (j + 1)..m : Pos(b) > e)
  BY <1>1 DEF Splits
<1> HIDE DEF Pos
<1>8. a = j + 1
  <2>1. a \in (j + 1)..m
    BY <1>2, <1>5, <1>7
  <2>2. j + 1 \in 1..m /\ j + 1 \in (j + 1)..m
    BY <1>2, <2>1
  <2>3. Pos(j + 1) > e /\ Pos(j + 1) \in Nat
    BY <1>3, <1>7, <2>2
  <2>4. ~(j + 1 < a)
    BY <1>5, <1>6, <2>2, <2>3
  <2> QED BY <1>2, <2>1, <2>4
<1>9. j + 1 \in 0..m
  BY <1>8
<1>10. Splits(j + 1, e + 1, kept, next)
  <2>1. ASSUME NEW b \in 1..(j + 1) PROVE Pos(b) <= e + 1
    <3>1. CASE b = j + 1
      BY <1>5, <1>8, <3>1
    <3>2. CASE b \in 1..j
      BY <1>2, <1>3, <1>7, <3>2
    <3> QED BY <3>1, <3>2
  <2>2. ASSUME NEW b \in ((j + 1) + 1)..m PROVE Pos(b) > e + 1
    <3>1. b \in 1..m /\ a < b
      BY <1>2, <1>8
    <3> QED BY <1>3, <1>5, <1>6, <3>1
  <2> QED BY <2>1, <2>2 DEF Splits, Pos
<1>11. Follows(rows, e + 1, j + 1, kept, R, next)
  <2>1. /\ rows \in Seq(Row) /\ Len(rows) = e + m - j
        /\ \A p \in 1..e : /\ rows[p].item = next[p].item
                     /\ IF next[p].item \in R THEN rows[p] \in ToSet(kept) ELSE rows[p] = next[p]
        /\ \A p \in (e + 1)..Len(rows) : rows[p] = kept[j + p - e]
    BY <1>1 DEF Follows
  <2>2. e + 1 \in (e + 1)..Len(rows) /\ j + (e + 1) - e = j + 1
    BY <1>2, <1>9, <2>1
  <2>3. rows[e + 1] = kept[j + 1]
    BY <2>1, <2>2
  <2>4. kept[j + 1] \in ToSet(kept) /\ kept[j + 1].item = next[e + 1].item
    BY <1>2, <1>4, <1>8 DEF ToSet
  <2>5. Len(rows) = (e + 1) + m - (j + 1)
    BY <1>2, <2>1
  <2>6. ASSUME NEW p \in 1..(e + 1)
        PROVE  /\ rows[p].item = next[p].item
               /\ IF next[p].item \in R THEN rows[p] \in ToSet(kept) ELSE rows[p] = next[p]
    <3>1. CASE p = e + 1
      BY <2>3, <2>4, <3>1
    <3>2. CASE p \in 1..e
      BY <2>1, <3>2
    <3> QED BY <3>1, <3>2
  <2>7. ASSUME NEW p \in ((e + 1) + 1)..Len(rows) PROVE rows[p] = kept[(j + 1) + p - (e + 1)]
    <3>0. j \in Nat /\ Len(rows) \in Nat
      BY <2>1
    <3>1. p \in (e + 1)..Len(rows) /\ (j + 1) + p - (e + 1) = j + p - e
      BY <3>0
    <3> QED BY <2>1, <3>1
  <2> QED BY <2>1, <2>5, <2>6, <2>7 DEF Follows
<1> QED BY <1>9, <1>10, <1>11 DEF Final

\* So is a stretch of them.
LEMMA FinalReaches ==
  ASSUME NEW R, NEW next \in Seq(Row), NEW kept, Kept(kept, R, next), Distinct(next),
         NEW rows, NEW e \in Nat, NEW f \in Nat, e <= f, f <= Len(next),
         \A p \in (e + 1)..f : next[p].item \in R,
         Final(rows, e, kept, R, next)
  PROVE  Final(rows, f, kept, R, next)
<1> DEFINE Q == {k \in 0..(f - e) : Final(rows, e + k, kept, R, next)}
<1>1. f - e \in Nat /\ 0 \in 0..(f - e) /\ f - e \in 0..(f - e)
  OBVIOUS
<1>2. 0 \in Q
  <2>1. e + 0 = e
    OBVIOUS
  <2> QED BY <1>1, <2>1
<1>3. ASSUME NEW k \in 1..(f - e), k - 1 \in Q PROVE k \in Q
  <2> DEFINE d == e + (k - 1)
  <2>1. /\ d \in Nat /\ d < Len(next) /\ d + 1 \in (e + 1)..f /\ d + 1 = e + k
        /\ Final(rows, d, kept, R, next) /\ k \in 0..(f - e)
    BY <1>3
  <2>2. Final(rows, d + 1, kept, R, next)
    <3> HIDE DEF d
    <3>1. next[d + 1].item \in R
      BY <2>1
    <3> QED BY <2>1, <3>1, FinalAdvances
  <2> QED BY <2>1, <2>2
<1>4. f - e \in Q
  <2> HIDE DEF Q
  <2> QED BY <1>1, <1>2, <1>3, Counting
<1>5. e + (f - e) = f
  OBVIOUS
<1> QED BY <1>4, <1>5

\* The rows from s to e of the new list, none of them retained.
Stretch(run, s, e, R, next) ==
  /\ run \in Seq(Row) /\ Len(run) = e - s + 1
  /\ \A p \in 1..Len(run) : run[p] = next[s + p - 1] /\ run[p].item \notin R

\* Inserting a run at its place makes everything up to its end final.
LEMMA FinalInserts ==
  ASSUME NEW R, NEW next \in Seq(Row), NEW kept, Kept(kept, R, next),
         NEW rows, NEW s \in Nat, NEW e \in Nat, 1 <= s, s <= e, e <= Len(next),
         NEW run, Stretch(run, s, e, R, next), Final(rows, s - 1, kept, R, next)
  PROVE  Final(InsertRun(rows, s, run), e, kept, R, next)
<1> DEFINE m == Len(kept)
           n == Len(rows)
           l == Len(run)
           Pos(a) == PositionOf(next, kept[a].item)
           out == InsertRun(rows, s, run)
<1>1. PICK j \in 0..m : Splits(j, s - 1, kept, next) /\ Follows(rows, s - 1, j, kept, R, next)
  BY DEF Final
<1>2. kept \in Seq(Row) /\ m \in Nat /\ run \in Seq(Row) /\ l = e - s + 1 /\ l \in Nat
  BY DEF Kept, Stretch
<1>3. /\ rows \in Seq(Row) /\ n = (s - 1) + m - j /\ n \in Nat
      /\ \A p \in 1..(s - 1) : /\ rows[p].item = next[p].item
                     /\ IF next[p].item \in R THEN rows[p] \in ToSet(kept) ELSE rows[p] = next[p]
      /\ \A p \in ((s - 1) + 1)..n : rows[p] = kept[j + p - (s - 1)]
  BY <1>1 DEF Follows
<1>0. s <= n + 1 /\ ~(s > n + 1) /\ s - 1 \in Nat /\ n <= n
  BY <1>2, <1>3
<1>4. out = SubSeq(rows, 1, s - 1) \o run \o SubSeq(rows, s, n)
  BY <1>0, Zenon DEF InsertRun
<1>5. /\ SubSeq(rows, 1, s - 1) \in Seq(Row) /\ Len(SubSeq(rows, 1, s - 1)) = s - 1
      /\ \A p \in 1..(s - 1) : SubSeq(rows, 1, s - 1)[p] = rows[p]
  BY <1>0, <1>3
<1>6. /\ SubSeq(rows, s, n) \in Seq(Row) /\ Len(SubSeq(rows, s, n)) = n - s + 1
      /\ \A p \in 1..(n - s + 1) : SubSeq(rows, s, n)[p] = rows[s + p - 1]
  <2> DEFINE z == n
  <2>1. z \in Nat /\ s <= z + 1 /\ z <= Len(rows)
    BY <1>0, <1>3
  <2> HIDE DEF z
  <2>2. /\ SubSeq(rows, s, z) \in Seq(Row) /\ Len(SubSeq(rows, s, z)) = z - s + 1
        /\ \A p \in 1..(z - s + 1) : SubSeq(rows, s, z)[p] = rows[s + p - 1]
    BY <1>3, <2>1, SubSeqElements
  <2> QED BY <2>2 DEF z
<1> HIDE DEF out
<1>7. /\ out \in Seq(Row) /\ Len(out) = n + l
      /\ \A p \in 1..(s - 1) : out[p] = rows[p]
      /\ \A p \in s..e : out[p] = run[p - s + 1]
      /\ \A p \in (e + 1)..(n + l) : out[p] = rows[p - l]
  <2> DEFINE A == SubSeq(rows, 1, s - 1)
             C == SubSeq(rows, s, n)
             B == A \o run
  <2>1. A \in Seq(Row) /\ C \in Seq(Row) /\ Len(A) = s - 1 /\ Len(C) = n - s + 1
    BY <1>5, <1>6
  <2> HIDE DEF A, C
  <2>2. /\ B \in Seq(Row) /\ Len(B) = e
        /\ \A p \in 1..(s - 1) : B[p] = A[p]
        /\ \A p \in s..e : B[p] = run[p - s + 1]
    <3>1. /\ B \in Seq(Row) /\ Len(B) = Len(A) + l
          /\ \A p \in 1..Len(A) : B[p] = A[p]
          /\ \A p \in (Len(A) + 1)..(Len(A) + l) : B[p] = run[p - Len(A)]
      BY <1>2, <2>1, ConcatElements
    <3>2. Len(A) + l = e /\ Len(A) + 1 = s
      BY <1>2, <2>1
    <3>3. \A p \in s..e : p - Len(A) = p - s + 1
      BY <2>1
    <3> HIDE DEF B
    <3> QED BY <2>1, <3>1, <3>2, <3>3
  <2> HIDE DEF B
  <2>3. /\ B \o C \in Seq(Row) /\ Len(B \o C) = e + (n - s + 1)
        /\ \A p \in 1..e : (B \o C)[p] = B[p]
        /\ \A p \in (e + 1)..(e + (n - s + 1)) : (B \o C)[p] = C[p - e]
    <3>1. /\ B \o C \in Seq(Row) /\ Len(B \o C) = Len(B) + Len(C)
          /\ \A p \in 1..Len(B) : (B \o C)[p] = B[p]
          /\ \A p \in (Len(B) + 1)..(Len(B) + Len(C)) : (B \o C)[p] = C[p - Len(B)]
      <4>1. B \in Seq(Row) /\ C \in Seq(Row)
        BY <2>1, <2>2
      <4> QED BY <4>1, ConcatElements
    <3> QED BY <2>1, <2>2, <3>1
  <2>4. out = B \o C
    BY <1>4 DEF A, B, C
  <2>5. e + (n - s + 1) = n + l
    BY <1>2, <1>3
  <2>6. ASSUME NEW p \in (e + 1)..(n + l) PROVE out[p] = rows[p - l]
    <3>1. p - e \in 1..(n - s + 1) /\ s + (p - e) - 1 = p - l
      BY <1>2, <1>3, <2>5
    <3>2. C[p - e] = rows[s + (p - e) - 1]
      BY <1>6, <3>1 DEF C
    <3> QED BY <2>3, <2>4, <2>5, <3>1, <3>2
  <2>7. ASSUME NEW p \in 1..(s - 1) PROVE out[p] = rows[p]
    <3>1. A[p] = rows[p] /\ p \in 1..e
      BY <1>5 DEF A
    <3> QED BY <2>2, <2>3, <2>4, <3>1
  <2>8. ASSUME NEW p \in s..e PROVE out[p] = run[p - s + 1]
    <3>1. p \in 1..e
      OBVIOUS
    <3> QED BY <2>2, <2>3, <2>4, <3>1
  <2> QED BY <2>3, <2>4, <2>5, <2>6, <2>7, <2>8
<1>8. \A a \in 1..m : Pos(a) \in 1..Len(next) /\ next[Pos(a)].item \in R
  BY PositionFound DEF Kept
<1>9. \A p \in s..e : next[p].item \notin R /\ run[p - s + 1] = next[p]
  <2> SUFFICES ASSUME NEW p \in s..e PROVE next[p].item \notin R /\ run[p - s + 1] = next[p]
    OBVIOUS
  <2>1. p - s + 1 \in 1..l /\ s + (p - s + 1) - 1 = p
    BY <1>2
  <2> QED BY <2>1 DEF Stretch
<1> HIDE DEF Pos
<1>10. Splits(j, e, kept, next)
  <2>1. ASSUME NEW a \in 1..j PROVE Pos(a) <= e
    <3>1. Pos(a) <= s - 1 /\ a \in 1..m
      BY <1>1, <1>2 DEF Splits, Pos
    <3> QED BY <1>8, <3>1
  <2>2. ASSUME NEW a \in (j + 1)..m PROVE Pos(a) > e
    <3>1. Pos(a) > s - 1 /\ a \in 1..m
      BY <1>1, <1>2 DEF Splits, Pos
    <3>2. Pos(a) \in 1..Len(next) /\ next[Pos(a)].item \in R
      BY <1>8, <3>1
    <3>3. Pos(a) \notin s..e
      BY <1>9, <3>2, Zenon
    <3> QED BY <3>1, <3>2, <3>3
  <2> QED BY <2>1, <2>2 DEF Splits, Pos
<1>11. Follows(out, e, j, kept, R, next)
  <2>1. Len(out) = e + m - j
    BY <1>2, <1>3, <1>7, SMTT(30)
  <2>2. ASSUME NEW p \in 1..e
        PROVE  /\ out[p].item = next[p].item
               /\ IF next[p].item \in R THEN out[p] \in ToSet(kept) ELSE out[p] = next[p]
    <3>1. CASE p \in 1..(s - 1)
      BY <1>3, <1>7, <3>1
    <3>2. CASE p \in s..e
      BY <1>7, <1>9, <3>2
    <3> QED BY <3>1, <3>2
  <2>3. ASSUME NEW p \in (e + 1)..Len(out) PROVE out[p] = kept[j + p - e]
    <3>1. p - l \in ((s - 1) + 1)..n /\ j + (p - l) - (s - 1) = j + p - e /\ p \in (e + 1)..(n + l)
      BY <1>2, <1>3, <1>7
    <3> QED BY <1>3, <1>7, <3>1
  <2> QED BY <1>7, <2>1, <2>2, <2>3 DEF Follows
<1> QED BY <1>10, <1>11 DEF Final, out

Insertions == [start : Nat \ {0}, run : Seq(Row)]
Gathering == [done : Seq(Insertions), start : Nat \ {0}, run : Seq(Row)]

\* One row extends the run, ends it, or both.
RunMoves(new, st, i, R, next, s, grown) ==
  \/ next[i].item \in R /\ st.run = <<>> /\ new = st
  \/ /\ next[i].item \in R /\ st.run # <<>> /\ new.run = <<>>
     /\ new.done = Append(st.done, [start |-> st.start, run |-> st.run])
  \/ /\ next[i].item \notin R /\ new.run = <<>>
     /\ new.done = Append(st.done, [start |-> s, run |-> grown])
  \/ /\ next[i].item \notin R /\ new.run = grown /\ new.run # <<>>
     /\ new.done = st.done /\ new.start = s

\* A row does one of these.
LEMMA RunStepCases ==
  ASSUME NEW R, NEW next \in Seq(Row), NEW st \in Gathering, NEW i \in 1..Len(next)
  PROVE  /\ RunStep(next, R, st, i) \in Gathering
         /\ RunMoves(RunStep(next, R, st, i), st, i, R, next,
                     IF st.run = <<>> THEN i ELSE st.start, Append(st.run, next[i]))
<1> DEFINE s == IF st.run = <<>> THEN i ELSE st.start
           grown == Append(st.run, next[i])
           new == RunStep(next, R, st, i)
           r1 == [start |-> st.start, run |-> st.run]
           r2 == [start |-> s, run |-> grown]
           e1 == [done |-> Append(st.done, r1), start |-> 1, run |-> <<>>]
           e2 == [done |-> Append(st.done, r2), start |-> 1, run |-> <<>>]
           g == [done |-> st.done, start |-> s, run |-> grown]
<1>1. /\ s \in Nat \ {0} /\ grown \in Seq(Row) /\ grown # <<>> /\ st.run \in Seq(Row)
      /\ st.start \in Nat \ {0} /\ st.done \in Seq(Insertions)
  BY SMTT(30) DEF Gathering
<1>2. RunOf(st) = r1 /\ RunOf(g) = r2 /\ g.run = grown
  BY DEF RunOf
<1>3. new = IF next[i].item \in R THEN (IF st.run = <<>> THEN st ELSE e1)
            ELSE IF Len(grown) = BatchItems THEN e2 ELSE g
  BY <1>2, Zenon DEF RunStep
<1> HIDE DEF s, grown, new
<1>4. r1 \in Insertions /\ r2 \in Insertions
  BY <1>1 DEF Insertions
<1> HIDE DEF r1, r2
<1>5. Append(st.done, r1) \in Seq(Insertions) /\ Append(st.done, r2) \in Seq(Insertions)
  BY <1>1, <1>4
<1>6. e1 \in Gathering /\ e2 \in Gathering /\ g \in Gathering
  BY <1>1, <1>5 DEF Gathering
<1>7. new \in Gathering
  BY <1>3, <1>6
<1>8. CASE next[i].item \in R /\ st.run = <<>>
  BY <1>3, <1>7, <1>8 DEF new, RunMoves
<1>9. CASE next[i].item \in R /\ st.run # <<>>
  <2>1. new = e1
    BY <1>3, <1>9
  <2>2. new.run = <<>> /\ new.done = Append(st.done, r1)
    BY <2>1
  <2> QED BY <1>7, <1>9, <2>2 DEF new, r1, RunMoves
<1>10. CASE next[i].item \notin R /\ Len(grown) = BatchItems
  <2>1. new = e2
    BY <1>3, <1>10
  <2>2. new.run = <<>> /\ new.done = Append(st.done, r2)
    BY <2>1
  <2> QED BY <1>7, <1>10, <2>2 DEF new, r2, s, grown, RunMoves
<1>11. CASE next[i].item \notin R /\ Len(grown) # BatchItems
  <2>1. new = g
    BY <1>3, <1>11
  <2>2. new.run = grown /\ new.done = st.done /\ new.start = s
    BY <2>1
  <2> QED BY <1>1, <1>7, <1>11, <2>2 DEF new, s, grown, RunMoves
<1> QED BY <1>8, <1>9, <1>10, <1>11

\* c holds the runs of the first rows.
Gathers(c, next, R) ==
  /\ c[0] = NoRuns /\ c[Len(Positions(next))] = GatherRuns(next, R)
  /\ \A k \in 1..Len(Positions(next)) :
       c[k] = RunStep(next, R, c[k - 1], Positions(next)[k])

\* The fold goes through such states.
LEMMA GatherTrace ==
  ASSUME NEW next \in Seq(Row), NEW R
  PROVE  \E c \in [0..Len(Positions(next)) -> Gathering] : Gathers(c, next, R)
<1> DEFINE n == Len(Positions(next))
           T == Gathering
           op(a, i) == RunStep(next, R, a, Positions(next)[i])
           step == [p \in T \X (1..n) |-> op(p[1], p[2])]
           it == CHOOSE f : f = [s \in SUBSET DOMAIN Positions(next) |->
                   IF s = {} THEN NoRuns ELSE op(f[s \ {Max(s)}], Max(s))]
<1>1. n \in Nat /\ DOMAIN Positions(next) = 1..n /\ NoRuns \in T
  BY DEF Positions, NoRuns, Gathering
<1>2. GatherRuns(next, R) = it[DOMAIN Positions(next)]
  BY Zenon DEF GatherRuns, FoldLeft, MapThenFoldSet
<1>3. step \in [T \X (1..n) -> T] /\ \A a \in T, i \in 1..n : step[<<a, i>>] = op(a, i)
  <2>1. ASSUME NEW a \in T, NEW i \in 1..n PROVE op(a, i) \in T
    <3>1. Positions(next)[i] \in 1..Len(next)
      BY DEF Positions
    <3>2. \A k \in 1..Len(next) : RunStep(next, R, a, k) \in Gathering
      BY RunStepCases
    <3> QED BY <3>1, <3>2
  <2> HIDE DEF op, T, n
  <2> QED BY <2>1
<1> HIDE DEF op, step, T, n
<1>4. PICK g \in [SUBSET (1..n) -> T] : Solves(g, NoRuns, step, n)
  BY <1>1, <1>3, FoldExists
<1>5. \A s \in SUBSET (1..n) : s # {} => Max(s) \in 1..n /\ s \ {Max(s)} \in SUBSET (1..n)
  BY <1>1, MaxOfPositions
<1>6. g = [s \in SUBSET DOMAIN Positions(next) |-> IF s = {} THEN NoRuns ELSE op(g[s \ {Max(s)}], Max(s))]
  <2>1. ASSUME NEW s \in SUBSET (1..n)
        PROVE  g[s] = IF s = {} THEN NoRuns ELSE op(g[s \ {Max(s)}], Max(s))
    <3>1. CASE s = {}
      BY <1>4, <3>1 DEF Solves
    <3>2. CASE s # {}
      <4>1. g[s \ {Max(s)}] \in T /\ Max(s) \in 1..n
        BY <1>4, <1>5, <3>2
      <4>2. g[s] = step[<<g[s \ {Max(s)}], Max(s)>>]
        BY <1>4, <3>2 DEF Solves
      <4> QED BY <1>3, <3>2, <4>1, <4>2
    <3> QED BY <3>1, <3>2
  <2> QED BY <1>1, <1>4, <2>1
<1>7. it = [s \in SUBSET DOMAIN Positions(next) |-> IF s = {} THEN NoRuns ELSE op(it[s \ {Max(s)}], Max(s))]
  BY <1>6, Zenon
<1> HIDE DEF it
<1>8. Iterates(it, NoRuns, step, T, n)
  BY <1>1, <1>3, <1>5, <1>7 DEF Iterates
<1>9. PICK c \in [0..n -> T] : Passes(c, NoRuns, step, n, it[1..n])
  BY <1>1, <1>3, <1>8, FoldTrace
<1>10. ASSUME NEW k \in 1..n PROVE c[k] = op(c[k - 1], k)
  <2>1. k - 1 \in 0..n
    BY <1>1
  <2> QED BY <1>3, <1>9, <2>1 DEF Passes
<1>11. c[0] = NoRuns /\ c[n] = GatherRuns(next, R)
  BY <1>1, <1>2, <1>9 DEF Passes
<1>12. Gathers(c, next, R)
  BY <1>10, <1>11, Zenon DEF n, op, Gathers
<1> QED BY <1>12 DEF n, T

RunEnd(r) == r.start + Len(r.run) - 1

\* The runs cover the first b positions of the new list but for retained rows.
Covered(done, b, R, next) ==
  /\ done \in Seq(Insertions)
  /\ \A q \in 1..Len(done) : /\ RunEnd(done[q]) \in done[q].start..b
                             /\ Stretch(done[q].run, done[q].start, RunEnd(done[q]), R, next)
  /\ \A q \in 2..Len(done) : RunEnd(done[q - 1]) < done[q].start
  /\ \A p \in 1..b : next[p].item \in R \/ \E q \in 1..Len(done) : p \in done[q].start..RunEnd(done[q])

\* A retained row needs no run.
LEMMA CoveredGrows ==
  ASSUME NEW R, NEW next, NEW done, NEW b \in Nat, Covered(done, b, R, next), next[b + 1].item \in R
  PROVE  Covered(done, b + 1, R, next)
<1>1. \A p \in 1..(b + 1) : p = b + 1 \/ p \in 1..b
  OBVIOUS
<1>2. ASSUME NEW q \in 1..Len(done) PROVE RunEnd(done[q]) \in done[q].start..(b + 1)
  <2>1. done \in Seq(Insertions) /\ RunEnd(done[q]) \in done[q].start..b
    BY DEF Covered
  <2>2. done[q] \in Insertions
    BY <2>1
  <2>3. done[q].start \in Nat
    BY <2>2 DEF Insertions
  <2> QED BY <2>1, <2>3
<1> QED BY <1>1, <1>2 DEF Covered

\* A run that begins where the covered positions end extends them to its end.
LEMMA CoveredAppends ==
  ASSUME NEW R, NEW next, NEW done, NEW s \in Nat \ {0}, NEW e \in Nat, s <= e,
         Covered(done, s - 1, R, next), NEW run, Stretch(run, s, e, R, next)
  PROVE  Covered(Append(done, [start |-> s, run |-> run]), e, R, next)
<1> DEFINE r == [start |-> s, run |-> run]
           new == Append(done, r)
           m == Len(done)
<1>1. /\ r \in Insertions /\ r.start = s /\ r.run = run /\ RunEnd(r) = e
  BY DEF Insertions, Stretch, RunEnd
<1>2. done \in Seq(Insertions) /\ m \in Nat
  BY DEF Covered
<1> HIDE DEF r
<1>3. /\ new \in Seq(Insertions) /\ Len(new) = m + 1 /\ new[m + 1] = r
      /\ \A q \in 1..m : new[q] = done[q]
  BY <1>1, <1>2
<1> HIDE DEF new
<1>4. \A q \in 1..(m + 1) : q = m + 1 \/ q \in 1..m
  BY <1>2
<1>5. \A q \in 1..m : /\ done[q].start \in Nat /\ RunEnd(done[q]) \in done[q].start..(s - 1)
                      /\ Stretch(done[q].run, done[q].start, RunEnd(done[q]), R, next)
  <2> SUFFICES ASSUME NEW q \in 1..m
               PROVE  /\ done[q].start \in Nat /\ RunEnd(done[q]) \in done[q].start..(s - 1)
                      /\ Stretch(done[q].run, done[q].start, RunEnd(done[q]), R, next)
    OBVIOUS
  <2>1. done[q] \in Insertions
    BY <1>2
  <2>2. done[q].start \in Nat
    BY <2>1 DEF Insertions
  <2> QED BY <2>2 DEF Covered
<1>6. ASSUME NEW q \in 1..Len(new)
      PROVE  /\ RunEnd(new[q]) \in new[q].start..e
             /\ Stretch(new[q].run, new[q].start, RunEnd(new[q]), R, next)
  <2>1. CASE q = m + 1
    BY <1>1, <1>3, <2>1
  <2>2. CASE q \in 1..m
    <3>1. RunEnd(done[q]) \in done[q].start..e
      BY <1>5, <2>2
    <3> QED BY <1>3, <1>5, <2>2, <3>1
  <2> QED BY <1>3, <1>4, <2>1, <2>2
<1>7. ASSUME NEW q \in 2..Len(new) PROVE RunEnd(new[q - 1]) < new[q].start
  <2>1. q - 1 \in 1..m /\ new[q - 1] = done[q - 1]
    BY <1>2, <1>3
  <2>2. CASE q = m + 1
    BY <1>1, <1>3, <1>5, <2>1, <2>2
  <2>3. CASE q \in 1..m
    <3>1. q \in 2..m
      BY <1>2, <2>3
    <3>2. RunEnd(done[q - 1]) < done[q].start
      BY <3>1 DEF Covered
    <3> QED BY <1>3, <2>1, <2>3, <3>2
  <2> QED BY <1>3, <1>4, <2>2, <2>3
<1>8. ASSUME NEW p \in 1..e
      PROVE  next[p].item \in R \/ \E q \in 1..Len(new) : p \in new[q].start..RunEnd(new[q])
  <2>1. CASE p \in s..e
    BY <1>1, <1>2, <1>3, <2>1
  <2>2. CASE p \in 1..(s - 1)
    <3>1. CASE next[p].item \in R
      BY <3>1
    <3>2. CASE next[p].item \notin R
      <4>1. PICK q \in 1..m : p \in done[q].start..RunEnd(done[q])
        BY <2>2, <3>2 DEF Covered
      <4>2. q \in 1..Len(new) /\ new[q] = done[q]
        BY <1>2, <1>3
      <4> QED BY <4>1, <4>2
    <3> QED BY <3>1, <3>2
  <2> QED BY <2>1, <2>2
<1> QED BY <1>3, <1>6, <1>7, <1>8 DEF Covered, new, r

\* A run grows by the next row, or begins with it.
LEMMA StretchGrows ==
  ASSUME NEW R, NEW next \in Seq(Row), NEW run, NEW s \in Nat, NEW i \in 1..Len(next),
         s <= i, Stretch(run, s, i - 1, R, next), next[i].item \notin R
  PROVE  Stretch(Append(run, next[i]), s, i, R, next)
<1> DEFINE new == Append(run, next[i])
           m == Len(run)
<1>1. run \in Seq(Row) /\ m = i - s /\ m \in Nat /\ next[i] \in Row
  BY DEF Stretch
<1>2. /\ new \in Seq(Row) /\ Len(new) = m + 1 /\ new[m + 1] = next[i]
      /\ \A p \in 1..m : new[p] = run[p]
  BY <1>1
<1> HIDE DEF new
<1>3. ASSUME NEW p \in 1..Len(new) PROVE new[p] = next[s + p - 1] /\ new[p].item \notin R
  <2>1. CASE p = m + 1
    <3>1. s + p - 1 = i
      BY <1>1, <2>1
    <3> QED BY <1>2, <2>1, <3>1
  <2>2. CASE p \in 1..m
    BY <1>2, <2>2 DEF Stretch
  <2> QED BY <1>1, <1>2, <2>1, <2>2
<1>4. Len(new) = i - s + 1
  BY <1>1, <1>2
<1> QED BY <1>2, <1>3, <1>4 DEF Stretch, new

\* The first i rows of the new list: complete runs, then one that is growing.
CoversTo(st, i, R, next) ==
  IF st.run = <<>> THEN Covered(st.done, i, R, next)
  ELSE st.start <= i /\ Covered(st.done, st.start - 1, R, next) /\ Stretch(st.run, st.start, i, R, next)

\* Each row keeps the runs covering what has been seen.
LEMMA RunStepCovers ==
  ASSUME NEW R, NEW next \in Seq(Row), NEW st \in Gathering, NEW i \in 1..Len(next),
         CoversTo(st, i - 1, R, next)
  PROVE  CoversTo(RunStep(next, R, st, i), i, R, next)
<1> DEFINE s == IF st.run = <<>> THEN i ELSE st.start
           grown == Append(st.run, next[i])
           new == RunStep(next, R, st, i)
<1>1. /\ i \in Nat /\ i - 1 \in Nat /\ (i - 1) + 1 = i /\ s \in Nat \ {0} /\ st.start \in Nat \ {0}
  BY DEF Gathering
<1>2. new \in Gathering /\ RunMoves(new, st, i, R, next, s, grown)
  BY RunStepCases
<1>3. ASSUME next[i].item \notin R
      PROVE  s <= i /\ Covered(st.done, s - 1, R, next) /\ Stretch(grown, s, i, R, next)
  <2>1. CASE st.run = <<>>
    <3>1. s = i /\ Covered(st.done, s - 1, R, next)
      BY <2>1 DEF CoversTo
    <3>2. Stretch(st.run, s, i - 1, R, next)
      BY <1>1, <2>1, <3>1 DEF Stretch
    <3> HIDE DEF s
    <3>3. s <= i
      BY <1>1, <3>1
    <3> QED BY <1>1, <1>3, <3>1, <3>2, <3>3, StretchGrows
  <2>2. CASE st.run # <<>>
    <3>1. s = st.start /\ s <= i - 1 /\ Covered(st.done, s - 1, R, next) /\ Stretch(st.run, s, i - 1, R, next)
      BY <2>2 DEF CoversTo
    <3> HIDE DEF s
    <3>2. s <= i
      BY <1>1, <3>1
    <3> QED BY <1>1, <1>3, <3>1, <3>2, StretchGrows
  <2> QED BY <2>1, <2>2
<1> HIDE DEF s, grown, new
<1>4. CASE next[i].item \in R /\ st.run = <<>> /\ new = st
  <2>1. Covered(st.done, i - 1, R, next)
    BY <1>4 DEF CoversTo
  <2>2. Covered(st.done, i, R, next)
    BY <1>1, <1>4, <2>1, CoveredGrows
  <2> QED BY <1>4, <2>2 DEF CoversTo, new
<1>5. CASE /\ next[i].item \in R /\ st.run # <<>> /\ new.run = <<>>
           /\ new.done = Append(st.done, [start |-> st.start, run |-> st.run])
  <2>1. st.start <= i - 1 /\ Covered(st.done, st.start - 1, R, next) /\ Stretch(st.run, st.start, i - 1, R, next)
    BY <1>5 DEF CoversTo
  <2>2. Covered(new.done, i - 1, R, next)
    BY <1>1, <1>5, <2>1, CoveredAppends
  <2>3. Covered(new.done, i, R, next)
    BY <1>1, <1>5, <2>2, CoveredGrows
  <2> QED BY <1>5, <2>3 DEF CoversTo, new
<1>6. CASE /\ next[i].item \notin R /\ new.run = <<>>
           /\ new.done = Append(st.done, [start |-> s, run |-> grown])
  <2>1. Covered(new.done, i, R, next)
    BY <1>1, <1>3, <1>6, CoveredAppends
  <2> QED BY <1>6, <2>1 DEF CoversTo, new
<1>7. CASE /\ next[i].item \notin R /\ new.run = grown /\ new.run # <<>>
           /\ new.done = st.done /\ new.start = s
  BY <1>3, <1>7 DEF CoversTo, new
<1> QED BY <1>2, <1>4, <1>5, <1>6, <1>7, Zenon DEF RunMoves

\* The insertions cover the whole of the new list but for the retained rows.
LEMMA InsertRunsCover ==
  ASSUME NEW R, NEW next \in Seq(Row)
  PROVE  Covered(InsertRuns(next, R), Len(next), R, next)
<1> DEFINE n == Len(next)
<1>1. Len(Positions(next)) = n /\ n \in Nat /\ \A k \in 1..n : Positions(next)[k] = k
  BY DEF Positions
<1>2. PICK c \in [0..n -> Gathering] : Gathers(c, next, R)
  BY <1>1, GatherTrace
<1> DEFINE Q == {k \in 0..n : CoversTo(c[k], k, R, next)}
<1>3. 0 \in 0..n /\ n \in 0..n
  BY <1>1
<1>4. 0 \in Q
  <2>1. c[0] = NoRuns /\ c[0].run = <<>> /\ c[0].done = <<>>
    BY <1>2 DEF Gathers, NoRuns
  <2>2. Covered(<<>>, 0, R, next)
    BY DEF Covered
  <2> QED BY <1>3, <2>1, <2>2 DEF CoversTo
<1>5. ASSUME NEW k \in 1..n, k - 1 \in Q PROVE k \in Q
  <2>1. k - 1 \in 0..n /\ k \in 0..n /\ c[k - 1] \in Gathering /\ CoversTo(c[k - 1], k - 1, R, next)
    BY <1>1, <1>2, <1>5
  <2>2. c[k] = RunStep(next, R, c[k - 1], k)
    BY <1>1, <1>2 DEF Gathers
  <2>3. CoversTo(RunStep(next, R, c[k - 1], k), k, R, next)
    BY <2>1, RunStepCovers
  <2> QED BY <2>1, <2>2, <2>3
<1>6. n \in Q
  <2> HIDE DEF Q
  <2> QED BY <1>1, <1>3, <1>4, <1>5, Counting
<1> DEFINE last == GatherRuns(next, R)
<1>7. last = c[n] /\ last \in Gathering
  BY <1>1, <1>2, <1>3 DEF Gathers
<1>8. CoversTo(last, n, R, next)
  BY <1>6, <1>7
<1> HIDE DEF last
<1>9. CASE last.run = <<>>
  BY <1>8, <1>9 DEF CoversTo, InsertRuns, last
<1>10. CASE last.run # <<>>
  <2>1. InsertRuns(next, R) = Append(last.done, [start |-> last.start, run |-> last.run])
    BY <1>10, Zenon DEF InsertRuns, RunOf, last
  <2>2. last.start <= n /\ Covered(last.done, last.start - 1, R, next) /\ Stretch(last.run, last.start, n, R, next)
    BY <1>8, <1>10 DEF CoversTo
  <2>3. last.start \in Nat \ {0}
    BY <1>7 DEF Gathering
  <2> QED BY <1>1, <2>1, <2>2, <2>3, CoveredAppends
<1> QED BY <1>9, <1>10

\* An insertion leaves rows.
LEMMA InsertRunRows ==
  ASSUME NEW rows \in Seq(Row), NEW s \in Nat \ {0}, NEW run \in Seq(Row)
  PROVE  InsertRun(rows, s, run) \in Seq(Row)
<1> DEFINE n == Len(rows)
           A == SubSeq(rows, 1, s - 1)
           C == SubSeq(rows, s, n)
<1>1. n \in Nat /\ s - 1 \in Nat
  OBVIOUS
<1>2. CASE s > n + 1
  BY <1>2 DEF InsertRun
<1>3. CASE ~(s > n + 1)
  <2>1. s <= n + 1 /\ s - 1 <= n /\ 1 <= (s - 1) + 1
    BY <1>1, <1>3
  <2>2. A \in Seq(Row)
    BY <1>1, <2>1, SubSeqElements
  <2>3. C \in Seq(Row)
    <3> HIDE DEF n
    <3>1. n <= Len(rows)
      BY <1>1 DEF n
    <3> QED BY <1>1, <2>1, <3>1, SubSeqElements
  <2>4. InsertRun(rows, s, run) = A \o run \o C
    BY <1>3, Zenon DEF InsertRun
  <2> HIDE DEF A, C
  <2>5. A \o run \in Seq(Row)
    BY <2>2
  <2>6. (A \o run) \o C \in Seq(Row)
    <3> DEFINE B == A \o run
    <3>1. B \in Seq(Row)
      BY <2>5
    <3> HIDE DEF B
    <3>2. B \o C \in Seq(Row)
      BY <2>3, <3>1
    <3> QED BY <3>2 DEF B
  <2> QED BY <2>4, <2>6
<1> QED BY <1>2, <1>3

\* c holds the rows after the first insertions.
Inserts(c, rows, runs) ==
  /\ c[0] = rows /\ c[Len(runs)] = InsertAll(rows, runs)
  /\ \A k \in 1..Len(runs) :
       c[k] = InsertRun(c[k - 1], runs[k].start, runs[k].run)

\* The fold goes through such states.
LEMMA InsertAllTrace ==
  ASSUME NEW rows \in Seq(Row), NEW runs \in Seq(Insertions)
  PROVE  \E c \in [0..Len(runs) -> Seq(Row)] : Inserts(c, rows, runs)
<1> DEFINE n == Len(runs)
           T == Seq(Row)
           op(a, i) == InsertRun(a, runs[i].start, runs[i].run)
           step == [p \in T \X (1..n) |-> op(p[1], p[2])]
           it == CHOOSE f : f = [s \in SUBSET DOMAIN runs |->
                   IF s = {} THEN rows ELSE op(f[s \ {Max(s)}], Max(s))]
<1>1. n \in Nat /\ DOMAIN runs = 1..n /\ rows \in T
  OBVIOUS
<1>2. InsertAll(rows, runs) = it[DOMAIN runs]
  BY Zenon DEF InsertAll, FoldLeft, MapThenFoldSet
<1>3. step \in [T \X (1..n) -> T] /\ \A a \in T, i \in 1..n : step[<<a, i>>] = op(a, i)
  <2>1. ASSUME NEW a \in T, NEW i \in 1..n PROVE op(a, i) \in T
    <3>1. runs[i] \in Insertions
      OBVIOUS
    <3>2. runs[i].start \in Nat \ {0} /\ runs[i].run \in Seq(Row)
      BY <3>1 DEF Insertions
    <3> QED BY <3>2, InsertRunRows
  <2> HIDE DEF op, T, n
  <2> QED BY <2>1
<1> HIDE DEF op, step, T, n
<1>4. PICK g \in [SUBSET (1..n) -> T] : Solves(g, rows, step, n)
  BY <1>1, <1>3, FoldExists
<1>5. \A s \in SUBSET (1..n) : s # {} => Max(s) \in 1..n /\ s \ {Max(s)} \in SUBSET (1..n)
  BY <1>1, MaxOfPositions
<1>6. g = [s \in SUBSET DOMAIN runs |-> IF s = {} THEN rows ELSE op(g[s \ {Max(s)}], Max(s))]
  <2>1. ASSUME NEW s \in SUBSET (1..n)
        PROVE  g[s] = IF s = {} THEN rows ELSE op(g[s \ {Max(s)}], Max(s))
    <3>1. CASE s = {}
      BY <1>4, <3>1 DEF Solves
    <3>2. CASE s # {}
      <4>1. g[s \ {Max(s)}] \in T /\ Max(s) \in 1..n
        BY <1>4, <1>5, <3>2
      <4>2. g[s] = step[<<g[s \ {Max(s)}], Max(s)>>]
        BY <1>4, <3>2 DEF Solves
      <4> QED BY <1>3, <3>2, <4>1, <4>2
    <3> QED BY <3>1, <3>2
  <2> QED BY <1>1, <1>4, <2>1
<1>7. it = [s \in SUBSET DOMAIN runs |-> IF s = {} THEN rows ELSE op(it[s \ {Max(s)}], Max(s))]
  BY <1>6, Zenon
<1> HIDE DEF it
<1>8. Iterates(it, rows, step, T, n)
  BY <1>1, <1>3, <1>5, <1>7 DEF Iterates
<1>9. PICK c \in [0..n -> T] : Passes(c, rows, step, n, it[1..n])
  BY <1>1, <1>3, <1>8, FoldTrace
<1>10. ASSUME NEW k \in 1..n PROVE c[k] = op(c[k - 1], k)
  <2>1. k - 1 \in 0..n
    BY <1>1
  <2> QED BY <1>3, <1>9, <2>1 DEF Passes
<1>11. c[0] = rows /\ c[n] = InsertAll(rows, runs)
  BY <1>1, <1>2, <1>9 DEF Passes
<1>12. Inserts(c, rows, runs)
  BY <1>10, <1>11, Zenon DEF n, op, Inserts
<1> QED BY <1>12 DEF n, T

\* The runs are in the order of the new list.
LEMMA RunsAscend ==
  ASSUME NEW R, NEW next, NEW runs, NEW n \in Nat, Covered(runs, n, R, next)
  PROVE  /\ \A a \in 1..Len(runs) : /\ runs[a].start \in Nat \ {0} /\ RunEnd(runs[a]) \in Nat
                                    /\ runs[a].start <= RunEnd(runs[a]) /\ RunEnd(runs[a]) <= n
         /\ \A a, b \in 1..Len(runs) : a < b => RunEnd(runs[a]) < runs[b].start
<1> DEFINE m == Len(runs)
           S(a) == runs[a].start
           E(a) == RunEnd(runs[a])
<1>1. runs \in Seq(Insertions) /\ m \in Nat
  BY DEF Covered
<1>2. \A a \in 1..m : S(a) \in Nat \ {0} /\ E(a) \in Nat /\ S(a) <= E(a) /\ E(a) <= n
  <2> SUFFICES ASSUME NEW a \in 1..m PROVE S(a) \in Nat \ {0} /\ E(a) \in Nat /\ S(a) <= E(a) /\ E(a) <= n
    OBVIOUS
  <2>1. runs[a] \in Insertions
    BY <1>1
  <2>2. S(a) \in Nat \ {0} /\ E(a) \in S(a)..n
    BY <2>1 DEF Insertions, Covered
  <2> HIDE DEF S, E
  <2> QED BY <2>2
<1>3. \A a \in 2..m : E(a - 1) < S(a)
  BY DEF Covered
<1> HIDE DEF S, E
<1> DEFINE Q == {k \in 0..m : \A b \in 1..k : \A a \in 1..(b - 1) : E(a) < S(b)}
<1>4. 0 \in Q
  BY <1>1
<1>5. ASSUME NEW k \in 1..m, k - 1 \in Q PROVE k \in Q
  <2> SUFFICES ASSUME NEW b \in 1..k, NEW a \in 1..(b - 1) PROVE E(a) < S(b)
    BY <1>1
  <2>1. CASE b \in 1..(k - 1)
    BY <1>5, <2>1
  <2>2. CASE b = k /\ a = k - 1
    <3>1. k \in 2..m
      BY <1>1, <2>2
    <3> QED BY <1>3, <2>2, <3>1
  <2>3. CASE b = k /\ a # k - 1
    <3>1. k - 1 \in 1..(k - 1) /\ a \in 1..((k - 1) - 1) /\ k \in 2..m /\ k - 1 \in 1..m /\ a \in 1..m
      BY <1>1, <2>3
    <3>2. E(a) < S(k - 1) /\ E(k - 1) < S(k)
      BY <1>3, <1>5, <3>1
    <3> QED BY <1>2, <2>3, <3>1, <3>2
  <2> QED BY <2>1, <2>2, <2>3
<1>6. m \in Q
  <2> HIDE DEF Q
  <2>1. m \in 0..m
    BY <1>1
  <2> QED BY <1>1, <1>4, <1>5, <2>1, Counting
<1>7. ASSUME NEW a \in 1..m, NEW b \in 1..m, a < b PROVE E(a) < S(b)
  BY <1>6, <1>7
<1> QED BY <1>2, <1>7 DEF S, E

\* With all runs inserted the whole list is final.
LEMMA InsertAllFinal ==
  ASSUME NEW R, NEW next \in Seq(Row), NEW kept, Kept(kept, R, next), Distinct(next),
         NEW runs, Covered(runs, Len(next), R, next)
  PROVE  Final(InsertAll(kept, runs), Len(next), kept, R, next)
<1> DEFINE n == Len(next)
           m == Len(runs)
           To(q) == IF q = 0 THEN 0 ELSE RunEnd(runs[q])
<1>1. kept \in Seq(Row) /\ runs \in Seq(Insertions) /\ m \in Nat /\ n \in Nat
  BY DEF Kept, Covered
<1>2. PICK c \in [0..m -> Seq(Row)] : Inserts(c, kept, runs)
  BY <1>1, InsertAllTrace
<1>3. /\ \A a \in 1..m : /\ runs[a].start \in Nat \ {0} /\ RunEnd(runs[a]) \in Nat
                         /\ runs[a].start <= RunEnd(runs[a]) /\ RunEnd(runs[a]) <= n
      /\ \A a, b \in 1..m : a < b => RunEnd(runs[a]) < runs[b].start
  BY <1>1, RunsAscend
<1>4. \A q \in 0..m : To(q) \in Nat /\ To(q) <= n
  BY <1>1, <1>3
<1>5. ASSUME NEW q \in 0..m, NEW p \in (To(q) + 1)..n, \A b \in 1..m : b > q => p < runs[b].start
      PROVE  next[p].item \in R
  <2>1. p \in 1..n
    BY <1>1, <1>4
  <2>2. SUFFICES ASSUME NEW a \in 1..m, p \in runs[a].start..RunEnd(runs[a]) PROVE FALSE
    BY <2>1 DEF Covered
  <2>3. p >= runs[a].start /\ p <= RunEnd(runs[a])
    BY <1>3, <2>2
  <2>4. ~(a > q)
    BY <1>3, <1>5, <2>1, <2>3
  <2>5. q # 0 /\ q \in 1..m /\ (a = q \/ a < q)
    BY <1>1, <2>4
  <2>6. p > RunEnd(runs[q])
    BY <1>4, <2>5
  <2>7. RunEnd(runs[a]) <= RunEnd(runs[q])
    <3>1. CASE a = q
      BY <1>3, <3>1
    <3>2. CASE a < q
      <4>1. RunEnd(runs[a]) < runs[q].start /\ runs[q].start <= RunEnd(runs[q])
        BY <1>3, <2>5, <3>2
      <4> QED BY <1>3, <2>5, <4>1
    <3> QED BY <2>5, <3>1, <3>2
  <2> QED BY <1>3, <2>1, <2>3, <2>5, <2>6, <2>7
<1> DEFINE Q == {q \in 0..m : Final(c[q], To(q), kept, R, next)}
<1>6. 0 \in Q
  <2>1. c[0] = kept /\ To(0) = 0
    BY <1>2 DEF Inserts
  <2> QED BY <1>1, <2>1, FinalStart
<1>7. ASSUME NEW q \in 1..m, q - 1 \in Q PROVE q \in Q
  <2> DEFINE s == runs[q].start
             e == RunEnd(runs[q])
  <2>1. /\ q - 1 \in 0..m /\ q \in 0..m /\ To(q) = e /\ Final(c[q - 1], To(q - 1), kept, R, next)
        /\ To(q - 1) \in Nat /\ c[q - 1] \in Seq(Row)
    <3>1. q - 1 \in 0..m /\ q \in 0..m /\ q # 0
      BY <1>1
    <3>2. To(q) = e
      BY <3>1
    <3> HIDE DEF To, e
    <3> QED BY <1>2, <1>4, <1>7, <3>1, <3>2
  <2>2. s \in Nat \ {0} /\ e \in Nat /\ s <= e /\ e <= n /\ s - 1 \in Nat /\ s - 1 <= n
    BY <1>1, <1>3
  <2>3. To(q - 1) < s
    <3>1. CASE q = 1
      BY <2>2, <3>1
    <3>2. CASE q # 1
      <4>1. q - 1 \in 1..m /\ q - 1 < q /\ q - 1 # 0
        BY <1>1, <3>2
      <4> QED BY <1>3, <4>1
    <3> QED BY <3>1, <3>2
  <2>4. ASSUME NEW p \in (To(q - 1) + 1)..(s - 1) PROVE next[p].item \in R
    <3>1. p \in (To(q - 1) + 1)..n /\ p < s
      BY <1>1, <2>1, <2>2
    <3>2. ASSUME NEW b \in 1..m, b > q - 1 PROVE p < runs[b].start
      <4>1. CASE b = q
        BY <3>1, <4>1
      <4>2. CASE b # q
        <5>1. q < b
          BY <1>1, <3>2, <4>2
        <5>2. e < runs[b].start /\ runs[b].start \in Nat
          BY <1>3, <5>1
        <5> QED BY <2>1, <2>2, <3>1, <5>2, SMTT(30)
      <4> QED BY <4>1, <4>2
    <3> HIDE DEF To
    <3> QED BY <1>5, <2>1, <3>1, <3>2
  <2>5. Stretch(runs[q].run, s, e, R, next)
    BY DEF Covered
  <2>6. c[q] = InsertRun(c[q - 1], s, runs[q].run)
    BY <1>2 DEF Inserts
  <2>7. To(q - 1) <= s - 1
    BY <2>1, <2>2, <2>3
  <2> HIDE DEF To, s, e
  <2>8. Final(c[q - 1], s - 1, kept, R, next)
    BY <2>1, <2>2, <2>4, <2>7, FinalReaches
  <2>9. 1 <= s
    BY <2>2
  <2>10. Final(InsertRun(c[q - 1], s, runs[q].run), e, kept, R, next)
    BY <2>2, <2>5, <2>8, <2>9, FinalInserts
  <2> QED BY <2>1, <2>6, <2>10
<1>8. m \in Q
  <2> HIDE DEF Q
  <2>1. m \in 0..m
    BY <1>1
  <2> QED BY <1>1, <1>6, <1>7, <2>1, Counting
<1>9. Final(c[m], To(m), kept, R, next) /\ To(m) \in Nat /\ To(m) <= n /\ m \in 0..m
  BY <1>1, <1>4, <1>8
<1>10. ASSUME NEW p \in (To(m) + 1)..n PROVE next[p].item \in R
  <2>1. \A b \in 1..m : ~(b > m)
    BY <1>1
  <2> HIDE DEF To
  <2> QED BY <1>5, <1>9, <2>1
<1> HIDE DEF To
<1>11. Final(c[m], n, kept, R, next)
  <2>1. n <= Len(next)
    BY <1>1
  <2> HIDE DEF n
  <2> QED BY <1>1, <1>9, <1>10, <2>1, FinalReaches
<1> QED BY <1>2, <1>11 DEF Inserts

\* Applying the difference of two lists of rows to the first gives the second.
LEMMA DiffExact ==
  ASSUME NEW prev \in Seq(Row), NEW next \in Seq(Row), Distinct(prev), Distinct(next),
         \A a \in 1..Len(prev), b \in 1..Len(next) : prev[a].item = next[b].item => prev[a].key = next[b].key
  PROVE  diff_visible_rows(prev, next) = next
<1> DEFINE R == Retained(prev, next)
           kept == SelectIn(prev, {row \in ToSet(prev) : row.item \in R})
           inserted == InsertAll(kept, InsertRuns(next, R))
           n == Len(next)
           Put(i) == IF inserted[i].item \in R
                     THEN [inserted[i] EXCEPT !.value = ValueOf(next, inserted[i].item)]
                     ELSE inserted[i]
<1>1. Kept(kept, R, next) /\ ToSet(kept) \subseteq ToSet(prev)
  BY KeptInOrder, SMTT(30)
<1>2. diff_visible_rows(prev, next) = [i \in 1..Len(inserted) |-> Put(i)]
  BY Zenon DEF diff_visible_rows
<1>3. Final(inserted, n, kept, R, next)
  <2> HIDE DEF R, kept
  <2>1. Covered(InsertRuns(next, R), n, R, next)
    BY InsertRunsCover
  <2> QED BY <1>1, <2>1, InsertAllFinal
<1> HIDE DEF R, kept, inserted
<1>4. PICK j \in 0..Len(kept) : Splits(j, n, kept, next) /\ Follows(inserted, n, j, kept, R, next)
  BY <1>3 DEF Final
<1>5. j = Len(kept)
  <2>1. kept \in Seq(Row) /\ Len(kept) \in Nat /\ n \in Nat
    BY <1>1 DEF Kept
  <2>2. SUFFICES ASSUME j + 1 \in 1..Len(kept) PROVE FALSE
    BY <2>1
  <2>3. kept[j + 1].item \in ItemsOf(next)
    BY <1>1, <2>2 DEF Kept
  <2>4. PositionOf(next, kept[j + 1].item) \in 1..n
    BY <2>3, PositionFound
  <2>5. PositionOf(next, kept[j + 1].item) > n
    BY <1>4, <2>1, <2>2 DEF Splits
  <2> QED BY <2>1, <2>4, <2>5
<1>6. inserted \in Seq(Row) /\ Len(inserted) = n /\ n \in Nat /\ kept \in Seq(Row)
  BY <1>1, <1>4, <1>5 DEF Follows, Kept
<1>7. ASSUME NEW i \in 1..n PROVE Put(i) = next[i]
  <2>1. /\ inserted[i].item = next[i].item /\ inserted[i] \in Row /\ next[i] \in Row
        /\ IF next[i].item \in R THEN inserted[i] \in ToSet(kept) ELSE inserted[i] = next[i]
    BY <1>4, <1>6 DEF Follows
  <2>2. CASE next[i].item \notin R
    BY <2>1, <2>2
  <2>3. CASE next[i].item \in R
    <3>1. ValueOf(next, next[i].item) = next[i].value
      BY PositionIs DEF ValueOf
    <3>2. inserted[i] \in ToSet(prev)
      BY <1>1, <2>1, <2>3
    <3>3. PICK a \in 1..Len(prev) : inserted[i] = prev[a]
      BY <3>2 DEF ToSet
    <3>4. inserted[i].key = next[i].key
      BY <2>1, <3>3
    <3>5. Put(i) = [inserted[i] EXCEPT !.value = next[i].value]
      BY <2>1, <2>3, <3>1
    <3>6. [inserted[i] EXCEPT !.value = next[i].value]
            = [item |-> inserted[i].item, key |-> inserted[i].key, value |-> next[i].value]
      BY <2>1 DEF Row
    <3>7. next[i] = [item |-> next[i].item, key |-> next[i].key, value |-> next[i].value]
      BY <2>1 DEF Row
    <3> QED BY <2>1, <3>4, <3>5, <3>6, <3>7
  <2> QED BY <2>2, <2>3
<1> HIDE DEF Put
<1>8. diff_visible_rows(prev, next) = [i \in 1..n |-> next[i]]
  BY <1>2, <1>6, <1>7
<1> QED BY <1>6, <1>8

-----------------------------------------------------------------------------
(***************************************************************************)
(* The state behind the table.  An id is given to one process and never    *)
(* again, so a row on a client's screen and a selection name one process   *)
(* or none, however many plans came between.                               *)
(***************************************************************************)

\* The processes of a sample: one record each, of processes that were started.
RecordsOf(records, births) ==
  /\ IsFiniteSet(records)
  /\ \A r \in records : r.key \in Keys /\ r.key.start \in 1..births /\ r.value \in BOOLEAN
  /\ \A x, y \in records : x.key = y.key => x = y

KeysIn(records) == {r.key : r \in records}

\* Every known process has an id of its own, below the next one to give out.
Identified(items, next_item, keys) ==
  /\ next_item \in Nat /\ DOMAIN items = keys
  /\ \A k \in keys : items[k] \in Nat /\ items[k] < next_item
  /\ \A k, l \in keys : items[k] = items[l] => k = l

\* Rows of known processes, each under its id, no process twice.
RowsOf(rows, items) ==
  /\ rows \in Seq(Row) /\ Distinct(rows)
  /\ \A i \in 1..Len(rows) : rows[i].key \in DOMAIN items /\ rows[i].item = items[rows[i].key]

\* An id is not given out again: it is the key's or nobody's any more.
Names(m, item, key) ==
  item < m.next_item /\ \A k \in DOMAIN m.items : m.items[k] = item => k = key

MonitorFields == {"show_all", "items", "visible", "latest", "next_item", "next_seq", "selections"}
IsMonitor(m) == m = [f \in MonitorFields |-> m[f]]

SystemSound ==
  /\ os = [running |-> os.running, births |-> os.births] /\ os.births \in Nat
  /\ os.running = [p \in Pids |-> os.running[p]]
  /\ \A p \in Pids : os.running[p].start \in 0..os.births

StateSound ==
  /\ IsMonitor(mon)
  /\ RecordsOf(mon.latest, os.births) /\ RecordsOf(sampled.records, os.births)
  /\ Identified(mon.items, mon.next_item, KeysIn(mon.latest))
  /\ RowsOf(mon.visible, mon.items)

\* What a client sees and what it selected keep their meaning.
SelectionsSound ==
  /\ view \in [Viewers -> Seq(Row)] /\ meant \in [Viewers -> [pid : Nat, start : Nat]]
  /\ \A c \in Viewers : \A i \in 1..Len(view[c]) : Names(mon, view[c][i].item, view[c][i].key)
  /\ \A c \in Viewers \cap DOMAIN mon.selections :
       mon.selections[c].item \in Nat /\ Names(mon, mon.selections[c].item, meant[c])

\* A kill is under way to the process that was meant.
Aims(k, system) ==
  k.step # "none" =>
    /\ k.target = k.meant /\ k.target \in Keys /\ k.target.start \in 1..system.births
    /\ k.target.pid \notin Denylist
    /\ k.step = "open" =>
         /\ k.fd \in Keys /\ k.fd.pid = k.target.pid
         /\ system.running[k.target.pid].start = k.target.start => k.fd.start = k.target.start
    /\ k.step = "checked" => k.fd = k.target

Kills == [step : {"none", "resolved", "valid", "plain", "open", "checked"},
          target : [pid : Nat, start : Nat], meant : [pid : Nat, start : Nat], fd : [pid : Nat, start : Nat]]

KillsSound == kill \in [Viewers -> Kills] /\ \A c \in Viewers : Aims(kill[c], os)

TableFields == {"rows", "show_all", "status"}
IsTable == table = [f \in TableFields |-> table[f]]

MonitorSound == SystemSound /\ StateSound /\ SelectionsSound /\ KillsSound
                /\ IsTable /\ TableExact /\ KillsSelected

\* Processes are ordered by pid and start time.
LEMMA KeyOrder ==
  ASSUME NEW a \in Keys, NEW b \in Keys, NEW d \in Keys
  PROVE  /\ ~KeyLess(a, a)
         /\ a # b => KeyLess(a, b) \/ KeyLess(b, a)
         /\ KeyLess(a, b) /\ KeyLess(b, d) => KeyLess(a, d)
<1>1. Pids \subseteq Nat
  BY MonitorAssumption
<1>2. /\ a.pid \in Nat /\ a.start \in Nat /\ b.pid \in Nat /\ b.start \in Nat
      /\ d.pid \in Nat /\ d.start \in Nat
  BY <1>1 DEF Keys
<1>3. (a.pid = b.pid /\ a.start = b.start) => a = b
  BY DEF Keys
<1> QED BY <1>2, <1>3 DEF KeyLess

\* Every place in the table is some process's.
LEMMA RankExists ==
  ASSUME NEW shown, IsFiniteSet(shown), \A x \in shown : x.key \in Keys,
         \A x, y \in shown : x.key = y.key => x = y,
         NEW i \in 1..Cardinality(shown)
  PROVE  \E x \in shown : Cardinality({y \in shown : KeyLess(y.key, x.key)}) = i - 1
<1> DEFINE Below(x) == {y \in shown : KeyLess(y.key, x.key)}
           n == Cardinality(shown)
           f == [x \in shown |-> Cardinality(Below(x))]
<1>1. n \in Nat /\ IsFiniteSet(0..(n - 1)) /\ Cardinality(0..(n - 1)) = n
  <2>1. n \in Nat
    BY FS_CardinalityType
  <2> HIDE DEF n
  <2>2. 0 \in Int /\ n - 1 \in Int
    BY <2>1
  <2>3. IsFiniteSet(0..(n - 1)) /\ Cardinality(0..(n - 1)) = IF 0 > n - 1 THEN 0 ELSE (n - 1) - 0 + 1
    BY <2>2, FS_Interval
  <2> QED BY <2>1, <2>3
<1>2. \A x \in shown : Below(x) \in SUBSET shown /\ IsFiniteSet(Below(x)) /\ Cardinality(Below(x)) \in Nat
  <2> SUFFICES ASSUME NEW x \in shown
               PROVE  Below(x) \in SUBSET shown /\ IsFiniteSet(Below(x)) /\ Cardinality(Below(x)) \in Nat
    OBVIOUS
  <2>1. Below(x) \in SUBSET shown
    OBVIOUS
  <2> HIDE DEF Below
  <2>2. IsFiniteSet(Below(x))
    BY <2>1, FS_Subset
  <2> QED BY <2>1, <2>2, FS_CardinalityType
<1>3. ASSUME NEW x \in shown PROVE Cardinality(Below(x)) \in 0..(n - 1)
  <2>1. x \notin Below(x)
    BY KeyOrder
  <2>2. Cardinality(Below(x)) <= n /\ (n = Cardinality(Below(x)) => shown = Below(x))
    BY <1>2, FS_Subset
  <2> HIDE DEF Below, n
  <2> QED BY <1>1, <1>2, <2>1, <2>2
<1>4. ASSUME NEW x \in shown, NEW y \in shown, KeyLess(x.key, y.key)
      PROVE  Cardinality(Below(x)) < Cardinality(Below(y))
  <2>1. \A z \in Below(x) : z \in Below(y)
    BY <1>4, KeyOrder
  <2>2. x \in Below(y) /\ x \notin Below(x)
    BY <1>4, KeyOrder
  <2> HIDE DEF Below
  <2>3. Below(x) \in SUBSET Below(y) /\ Below(x) # Below(y)
    BY <2>1, <2>2
  <2>4. Cardinality(Below(x)) <= Cardinality(Below(y)) /\ Cardinality(Below(y)) # Cardinality(Below(x))
    BY <1>2, <2>3, FS_Subset
  <2> QED BY <1>2, <2>4
<1>5. ASSUME NEW x \in shown, NEW y \in shown, x # y PROVE Cardinality(Below(x)) # Cardinality(Below(y))
  <2>1. KeyLess(x.key, y.key) \/ KeyLess(y.key, x.key)
    BY <1>5, KeyOrder
  <2> HIDE DEF Below
  <2> QED BY <1>2, <1>4, <2>1
<1>6. f \in Injection(shown, 0..(n - 1))
  <2> HIDE DEF Below, n
  <2> QED BY <1>3, <1>5 DEF Injection, IsInjective
<1>7. f \in Surjection(shown, 0..(n - 1))
  <2> HIDE DEF f
  <2> QED BY <1>1, <1>6, FS_Injection
<1>8. i - 1 \in 0..(n - 1)
  BY <1>1
<1>9. PICK x \in shown : f[x] = i - 1
  <2> HIDE DEF f, n
  <2> QED BY <1>7, <1>8 DEF Surjection
<1> QED BY <1>9

\* A sample's processes are finitely many.
LEMMA KeysFinite ==
  ASSUME NEW records, IsFiniteSet(records)
  PROVE  IsFiniteSet(KeysIn(records))
<1> DEFINE f == [r \in records |-> r.key]
<1>1. f \in Surjection(records, KeysIn(records))
  BY DEF Surjection, KeysIn
<1> HIDE DEF f
<1> QED BY <1>1, FS_Surjection

\* A plan keeps the ids it knows, gives new ones to the others, and shows rows of both.
PlanKeeps(new, latest, show_all) ==
  /\ IsMonitor(new) /\ new.latest = latest /\ new.show_all = show_all
  /\ Identified(new.items, new.next_item, KeysIn(latest)) /\ mon.next_item <= new.next_item
  /\ \A k \in KeysIn(latest) :
       IF k \in DOMAIN mon.items THEN new.items[k] = mon.items[k] ELSE mon.next_item <= new.items[k]
  /\ RowsOf(new.visible, new.items)
  /\ \A c \in DOMAIN new.selections : c \in DOMAIN mon.selections /\ new.selections[c] = mon.selections[c]

\* The ids of a plan.
PlanItems(latest, fresh) ==
  [k \in KeysIn(latest) |-> IF k \in DOMAIN mon.items THEN mon.items[k] ELSE fresh[k]]

\* They are the ones known and new ones, each given once.
LEMMA PlanIdentifies ==
  ASSUME StateSound, NEW latest, IsFiniteSet(latest), NEW fresh \in NewItems(latest)
  PROVE  LET items == PlanItems(latest, fresh)
             next_item == mon.next_item + Cardinality(KeysIn(latest) \ DOMAIN mon.items)
         IN  /\ Identified(items, next_item, KeysIn(latest)) /\ mon.next_item <= next_item
             /\ \A k \in KeysIn(latest) :
                  IF k \in DOMAIN mon.items THEN items[k] = mon.items[k] ELSE mon.next_item <= items[k]
<1> DEFINE live == KeysIn(latest)
           F == live \ DOMAIN mon.items
           items == PlanItems(latest, fresh)
           a == mon.next_item
           z == a + Cardinality(F)
<1>1. a \in Nat /\ \A k \in DOMAIN mon.items : mon.items[k] \in Nat /\ mon.items[k] < a
  BY DEF StateSound, Identified
<1>2. \A k, l \in DOMAIN mon.items : mon.items[k] = mon.items[l] => k = l
  BY DEF StateSound, Identified
<1>3. IsFiniteSet(F) /\ Cardinality(F) \in Nat
  <2>1. IsFiniteSet(live) /\ F \in SUBSET live
    BY KeysFinite
  <2> HIDE DEF live, F
  <2>2. IsFiniteSet(F)
    BY <2>1, FS_Subset
  <2> QED BY <2>2, FS_CardinalityType
<1>4. /\ fresh \in [F -> a..(a + Cardinality(F) - 1)]
      /\ \A x, y \in F : x # y => fresh[x] # fresh[y]
  BY Zenon DEF NewItems, KeysIn
<1>5. /\ DOMAIN items = live
      /\ \A k \in live : items[k] = IF k \in DOMAIN mon.items THEN mon.items[k] ELSE fresh[k]
  BY DEF PlanItems
<1> HIDE DEF items, a
<1>6. z \in Nat /\ a <= z /\ \A k \in F : fresh[k] \in Nat /\ a <= fresh[k] /\ fresh[k] < z
  <2> HIDE DEF F
  <2> QED BY <1>1, <1>3, <1>4
<1>7. \A k \in live : k \in DOMAIN mon.items \/ k \in F
  OBVIOUS
<1> HIDE DEF z
<1>8. \A k \in live : items[k] \in Nat /\ items[k] < z
  BY <1>1, <1>5, <1>6, <1>7
<1>9. ASSUME NEW k \in live, NEW l \in live, items[k] = items[l] PROVE k = l
  <2>1. CASE k \in DOMAIN mon.items /\ l \in DOMAIN mon.items
    BY <1>2, <1>5, <1>9, <2>1
  <2>2. CASE k \in F /\ l \in F
    BY <1>4, <1>5, <1>9, <2>2
  <2>3. CASE k \in DOMAIN mon.items /\ l \in F
    BY <1>1, <1>5, <1>6, <1>9, <2>3
  <2>4. CASE k \in F /\ l \in DOMAIN mon.items
    BY <1>1, <1>5, <1>6, <1>9, <2>4
  <2> QED BY <1>7, <2>1, <2>2, <2>3, <2>4
<1>10. Identified(items, z, live)
  BY <1>5, <1>6, <1>8, <1>9 DEF Identified
<1>11. ASSUME NEW k \in live
       PROVE  IF k \in DOMAIN mon.items THEN items[k] = mon.items[k] ELSE a <= items[k]
  BY <1>5, <1>6, <1>7
<1> QED BY <1>6, <1>10, <1>11 DEF items, a, z

\* The rows of a plan.
RowAt(shown, items, i) ==
  LET r == CHOOSE x \in shown : Cardinality({y \in shown : KeyLess(y.key, x.key)}) = i - 1
  IN  [item |-> items[r.key], key |-> r.key, value |-> r.value]
PlanRows(shown, items) == [i \in 1..Cardinality(shown) |-> RowAt(shown, items, i)]

\* They show each process once, under its id.
LEMMA PlanRowsSound ==
  ASSUME NEW latest, NEW births, RecordsOf(latest, births), NEW shown \in SUBSET latest,
         NEW items, NEW z, Identified(items, z, KeysIn(latest))
  PROVE  RowsOf(PlanRows(shown, items), items)
<1> DEFINE n == Cardinality(shown)
           Rank(x) == Cardinality({y \in shown : KeyLess(y.key, x.key)})
           R(i) == CHOOSE x \in shown : Rank(x) = i - 1
           rows == PlanRows(shown, items)
<1>1. IsFiniteSet(shown) /\ n \in Nat
  BY FS_Subset, FS_CardinalityType DEF RecordsOf
<1>2. \A x \in shown : x.key \in Keys /\ x.value \in BOOLEAN /\ x.key \in KeysIn(latest)
  BY DEF RecordsOf, KeysIn
<1>3. \A x, y \in shown : x.key = y.key => x = y
  BY DEF RecordsOf
<1>4. \A i \in 1..n : \E x \in shown : Rank(x) = i - 1
  BY <1>1, <1>2, <1>3, RankExists
<1>5. \A i \in 1..n : R(i) \in shown /\ Rank(R(i)) = i - 1
  <2> HIDE DEF Rank, n
  <2> QED BY <1>4, Zenon
<1>6. /\ rows = [i \in 1..n |-> rows[i]] /\ DOMAIN rows = 1..n
      /\ \A i \in 1..n : rows[i] = [item |-> items[R(i).key], key |-> R(i).key, value |-> R(i).value]
  <2>1. rows = [i \in 1..n |-> RowAt(shown, items, i)]
    BY DEF PlanRows
  <2>2. \A i \in 1..n : RowAt(shown, items, i) = [item |-> items[R(i).key], key |-> R(i).key, value |-> R(i).value]
    BY Zenon DEF RowAt
  <2> HIDE DEF n, R, rows
  <2> QED BY <2>1, <2>2
<1> HIDE DEF R, rows, Rank, n
<1>7. \A k \in KeysIn(latest) : k \in DOMAIN items /\ items[k] \in Nat
  BY DEF Identified
<1>8. \A i \in 1..n : rows[i] \in Row /\ rows[i].key = R(i).key /\ rows[i].item = items[R(i).key]
  BY <1>2, <1>5, <1>6, <1>7 DEF Row
<1>9. rows \in Seq(Row) /\ Len(rows) = n
  BY <1>1, <1>6, <1>8
<1>10. ASSUME NEW i \in 1..n, NEW j \in 1..n, rows[i].item = rows[j].item PROVE i = j
  <2>1. items[R(i).key] = items[R(j).key] /\ R(i).key \in KeysIn(latest) /\ R(j).key \in KeysIn(latest)
    BY <1>2, <1>5, <1>8, <1>10
  <2>2. R(i).key = R(j).key
    BY <2>1 DEF Identified
  <2>3. R(i) = R(j)
    BY <1>3, <1>5, <2>2
  <2>4. i - 1 = j - 1
    BY <1>5, <2>3
  <2> QED BY <1>1, <2>4
<1>11. \A i \in 1..n : rows[i].key \in DOMAIN items /\ rows[i].item = items[rows[i].key]
  BY <1>2, <1>5, <1>7, <1>8
<1> QED BY <1>9, <1>10, <1>11 DEF RowsOf, Distinct, rows

\* A plan does what it should.
LEMMA PlanSound ==
  ASSUME StateSound, NEW latest, RecordsOf(latest, os.births), NEW show_all, NEW fresh \in NewItems(latest)
  PROVE  PlanKeeps(Plan(latest, show_all, fresh), latest, show_all)
<1> DEFINE items == PlanItems(latest, fresh)
           z == mon.next_item + Cardinality(KeysIn(latest) \ DOMAIN mon.items)
           shown == {r \in latest : is_visible(r, show_all)}
           rows == PlanRows(shown, items)
           stays == {c \in DOMAIN mon.selections : mon.selections[c].item \in ItemsOf(rows)}
           left == [c \in stays |-> mon.selections[c]]
           new == [mon EXCEPT !.show_all = show_all, !.items = items, !.visible = rows, !.latest = latest,
                              !.next_item = z, !.selections = left]
<1>1. Plan(latest, show_all, fresh) = new
  BY Zenon DEF Plan, KeysIn, PlanItems, PlanRows, RowAt
<1>2. /\ Identified(items, z, KeysIn(latest)) /\ mon.next_item <= z
      /\ \A k \in KeysIn(latest) :
           IF k \in DOMAIN mon.items THEN items[k] = mon.items[k] ELSE mon.next_item <= items[k]
  <2>1. IsFiniteSet(latest)
    BY DEF RecordsOf
  <2> QED BY <2>1, PlanIdentifies
<1>3. RowsOf(rows, items)
  <2>1. shown \in SUBSET latest
    OBVIOUS
  <2> HIDE DEF items, shown, z
  <2> QED BY <1>2, <2>1, PlanRowsSound
<1>4. \A c \in DOMAIN left : c \in DOMAIN mon.selections /\ left[c] = mon.selections[c]
  OBVIOUS
<1> HIDE DEF items, z, rows, left
<1>5. /\ IsMonitor(new) /\ new.latest = latest /\ new.show_all = show_all /\ new.items = items
      /\ new.next_item = z /\ new.visible = rows /\ new.selections = left
  <2>1. IsMonitor(mon)
    BY DEF StateSound
  <2> QED BY <2>1 DEF IsMonitor, MonitorFields
<1> HIDE DEF new
<1> QED BY <1>1, <1>2, <1>3, <1>4, <1>5 DEF PlanKeeps

\* A plan changes the meaning of no id.
LEMMA NamesKept ==
  ASSUME StateSound, NEW new, NEW latest, NEW show_all, PlanKeeps(new, latest, show_all),
         NEW item \in Nat, NEW key, Names(mon, item, key)
  PROVE  Names(new, item, key)
<1>1. /\ mon.next_item \in Nat /\ new.next_item \in Nat /\ mon.next_item <= new.next_item
      /\ item < mon.next_item /\ DOMAIN new.items = KeysIn(latest)
  BY DEF StateSound, Identified, PlanKeeps, Names
<1>2. ASSUME NEW k \in DOMAIN new.items, new.items[k] = item PROVE k = key
  <2>1. IF k \in DOMAIN mon.items THEN new.items[k] = mon.items[k] ELSE mon.next_item <= new.items[k]
    BY <1>1 DEF PlanKeeps
  <2>2. k \in DOMAIN mon.items
    BY <1>1, <1>2, <2>1
  <2> QED BY <1>2, <2>1, <2>2 DEF Names
<1> QED BY <1>1, <1>2 DEF Names

\* A plan that commits makes the table show it.
LEMMA TableFollows ==
  ASSUME StateSound, TableExact, NEW new, NEW latest, NEW show_all, PlanKeeps(new, latest, show_all)
  PROVE  diff_visible_rows(table.rows, new.visible) = new.visible
<1> DEFINE prev == mon.visible
           next == new.visible
<1>1. table.rows = prev
  BY DEF TableExact
<1>2. RowsOf(prev, mon.items) /\ RowsOf(next, new.items)
  BY DEF StateSound, PlanKeeps
<1>3. DOMAIN mon.items = KeysIn(mon.latest) /\ DOMAIN new.items = KeysIn(latest) /\ mon.next_item \in Nat
  BY DEF StateSound, PlanKeeps, Identified
<1>4. ASSUME NEW a \in 1..Len(prev), NEW b \in 1..Len(next), prev[a].item = next[b].item
      PROVE  prev[a].key = next[b].key
  <2> DEFINE k == prev[a].key
             l == next[b].key
  <2>1. k \in DOMAIN mon.items /\ l \in DOMAIN new.items /\ mon.items[k] = new.items[l]
    BY <1>2, <1>4 DEF RowsOf
  <2>2. IF l \in DOMAIN mon.items THEN new.items[l] = mon.items[l] ELSE mon.next_item <= new.items[l]
    BY <1>3, <2>1 DEF PlanKeeps
  <2>3. mon.items[k] \in Nat /\ mon.items[k] < mon.next_item
    BY <1>3, <2>1 DEF StateSound, Identified
  <2> HIDE DEF k, l
  <2>4. l \in DOMAIN mon.items /\ mon.items[k] = mon.items[l]
    BY <1>3, <2>1, <2>2, <2>3
  <2>5. k = l
    BY <1>3, <2>1, <2>4 DEF StateSound, Identified
  <2> QED BY <2>5 DEF k, l
<1> HIDE DEF prev, next
<1>5. prev \in Seq(Row) /\ next \in Seq(Row) /\ Distinct(prev) /\ Distinct(next)
  BY <1>2 DEF RowsOf
<1>6. diff_visible_rows(prev, next) = next
  BY <1>4, <1>5, DiffExact
<1> QED BY <1>1, <1>6 DEF next

\* Committing a plan keeps everything sound.
LEMMA CommitKeeps ==
  ASSUME MonitorSound, NEW new, NEW latest, NEW show_all, PlanKeeps(new, latest, show_all),
         RecordsOf(latest, os.births), RecordsOf(sampled'.records, os.births), mon' = new,
         table' = [table EXCEPT !.rows = diff_visible_rows(table.rows, new.visible), !.show_all = new.show_all],
         UNCHANGED <<os, view, meant, kill, hits>>
  PROVE  MonitorSound'
<1>1. SystemSound' /\ KillsSound' /\ KillsSelected'
  <2>1. os' = os /\ kill' = kill /\ hits' = hits
    OBVIOUS
  <2>2. SystemSound'
    BY <2>1 DEF MonitorSound, SystemSound
  <2>3. KillsSound'
    BY <2>1 DEF MonitorSound, KillsSound, Aims
  <2> QED BY <2>1, <2>2, <2>3 DEF MonitorSound, KillsSelected
<1>2. StateSound'
  BY DEF StateSound, PlanKeeps
<1>3. SelectionsSound'
  <2>1. StateSound /\ view \in [Viewers -> Seq(Row)]
    BY DEF MonitorSound, SelectionsSound
  <2>2. ASSUME NEW c \in Viewers, NEW i \in 1..Len(view[c])
        PROVE  Names(mon', view[c][i].item, view[c][i].key)
    <3>1. view[c] \in Seq(Row)
      BY <2>1
    <3>2. view[c][i] \in Row
      BY <3>1
    <3>3. view[c][i].item \in Nat
      BY <3>2 DEF Row
    <3>4. Names(mon, view[c][i].item, view[c][i].key)
      BY DEF MonitorSound, SelectionsSound
    <3> QED BY <2>1, <3>3, <3>4, NamesKept
  <2>3. ASSUME NEW c \in Viewers \cap DOMAIN new.selections
        PROVE  new.selections[c].item \in Nat /\ Names(mon', new.selections[c].item, meant[c])
    <3>1. c \in DOMAIN mon.selections /\ new.selections[c] = mon.selections[c]
      BY DEF PlanKeeps
    <3>2. mon.selections[c].item \in Nat /\ Names(mon, mon.selections[c].item, meant[c])
      BY <3>1 DEF MonitorSound, SelectionsSound
    <3> QED BY <2>1, <3>1, <3>2, NamesKept
  <2> QED BY <2>2, <2>3 DEF MonitorSound, SelectionsSound
<1>4. IsTable' /\ TableExact'
  <2>1. diff_visible_rows(table.rows, new.visible) = new.visible
    BY TableFollows DEF MonitorSound
  <2>2. IsTable
    BY DEF MonitorSound
  <2>3. table' = [table EXCEPT !.rows = new.visible, !.show_all = new.show_all]
    BY <2>1
  <2>4. IsTable' /\ table'.rows = new.visible /\ table'.show_all = new.show_all
    BY <2>2, <2>3 DEF IsTable, TableFields
  <2> QED BY <2>4 DEF TableExact
<1> QED BY <1>1, <1>2, <1>3, <1>4 DEF MonitorSound

\* Steps that leave the application state and what the clients see alone.
LEMMA StateKept ==
  ASSUME MonitorSound, UNCHANGED <<mon, view, meant, kill, table, hits>>, SystemSound',
         RecordsOf(mon.latest, os'.births), RecordsOf(sampled'.records, os'.births), KillsSound'
  PROVE  MonitorSound'
<1>1. StateSound' /\ SelectionsSound'
  BY DEF MonitorSound, StateSound, SelectionsSound, Names
<1>2. IsTable' /\ TableExact' /\ KillsSelected'
  BY DEF MonitorSound, IsTable, TableExact, KillsSelected
<1> QED BY <1>1, <1>2 DEF MonitorSound

\* More processes started: a sample's were still started.
LEMMA RecordsKept ==
  ASSUME NEW b \in Nat, NEW records, RecordsOf(records, b)
  PROVE  RecordsOf(records, b + 1)
<1>1. \A r \in records : r.key.start \in 1..(b + 1)
  BY DEF RecordsOf
<1> QED BY <1>1 DEF RecordsOf

\* A process starts.
LEMMA BirthSound ==
  ASSUME MonitorSound, NEW pid \in Pids, NEW uid, Birth(pid, uid)
  PROVE  MonitorSound'
<1> DEFINE b == os.births
           new == [start |-> b + 1, uid |-> uid]
<1>1. /\ os'.running = [os.running EXCEPT ![pid] = new] /\ os'.births = b + 1
      /\ os' = [running |-> os'.running, births |-> os'.births]
      /\ UNCHANGED <<sampled, mon, table, view, meant, kill, hits>>
  BY DEF Birth
<1>2. b \in Nat /\ os.running = [p \in Pids |-> os.running[p]] /\ \A p \in Pids : os.running[p].start \in 0..b
  BY DEF MonitorSound, SystemSound
<1>3. \A p \in Pids : os'.running[p] = IF p = pid THEN new ELSE os.running[p]
  BY <1>1, <1>2
<1>4. os'.running = [p \in Pids |-> os'.running[p]]
  <2> DEFINE r == os.running
  <2> HIDE DEF r
  <2>1. r = [p \in Pids |-> r[p]] /\ os'.running = [r EXCEPT ![pid] = new]
    BY <1>1, <1>2 DEF r
  <2> HIDE DEF new
  <2> QED BY <2>1
<1>5. \A p \in Pids : os'.running[p].start \in 0..(b + 1)
  BY <1>2, <1>3
<1>6. SystemSound'
  BY <1>1, <1>2, <1>4, <1>5 DEF SystemSound
<1>7. RecordsOf(mon.latest, b + 1) /\ RecordsOf(sampled.records, b + 1)
  BY <1>2, RecordsKept DEF MonitorSound, StateSound
<1>8. ASSUME NEW c \in Viewers PROVE Aims(kill[c], os')
  <2> DEFINE k == kill[c]
  <2>1. Aims(k, os)
    BY DEF MonitorSound, KillsSound
  <2>2. SUFFICES ASSUME k.step # "none" PROVE Aims(k, os')
    BY DEF Aims
  <2>3. k.target = k.meant /\ k.target \in Keys /\ k.target.start \in 1..b /\ k.target.pid \notin Denylist
    BY <2>1, <2>2 DEF Aims
  <2>4. k.target.pid \in Pids /\ k.target.start \in 1..os'.births /\ k.target.start # b + 1
    BY <1>1, <1>2, <2>3 DEF Keys
  <2>5. os'.running[k.target.pid].start = k.target.start => os.running[k.target.pid].start = k.target.start
    BY <1>3, <2>4
  <2> HIDE DEF k
  <2> QED BY <2>1, <2>2, <2>3, <2>4, <2>5 DEF Aims
<1>9. KillsSound'
  BY <1>1, <1>8 DEF MonitorSound, KillsSound
<1> QED BY <1>1, <1>6, <1>7, <1>9, StateKept

\* A process ends.
LEMMA DeathSound ==
  ASSUME MonitorSound, NEW pid \in Pids, Death(pid)
  PROVE  MonitorSound'
<1> DEFINE b == os.births
           gone == [start |-> 0, uid |-> "none"]
<1>1. /\ os = [running |-> os.running, births |-> b] /\ b \in Nat
      /\ os.running = [p \in Pids |-> os.running[p]] /\ \A p \in Pids : os.running[p].start \in 0..b
  BY DEF MonitorSound, SystemSound
<1>2. /\ os'.running = [os.running EXCEPT ![pid] = gone] /\ os'.births = b
      /\ os' = [running |-> os'.running, births |-> os'.births]
      /\ UNCHANGED <<sampled, mon, table, view, meant, kill, hits>>
  <2>1. os' = [os EXCEPT !.running[pid] = gone]
    BY DEF Death
  <2>2. UNCHANGED <<sampled, mon, table, view, meant, kill, hits>>
    BY DEF Death
  <2> DEFINE r == os.running
  <2>3. os = [running |-> r, births |-> b]
    BY <1>1
  <2> HIDE DEF r, b, gone
  <2>4. os' = [running |-> [r EXCEPT ![pid] = gone], births |-> b]
    BY <2>1, <2>3
  <2> QED BY <2>2, <2>4 DEF r
<1>3. \A p \in Pids : os'.running[p] = IF p = pid THEN gone ELSE os.running[p]
  BY <1>1, <1>2
<1>4. os'.running = [p \in Pids |-> os'.running[p]]
  <2> DEFINE r == os.running
  <2> HIDE DEF r
  <2>1. r = [p \in Pids |-> r[p]] /\ os'.running = [r EXCEPT ![pid] = gone]
    BY <1>1, <1>2 DEF r
  <2> HIDE DEF gone
  <2> QED BY <2>1
<1>5. \A p \in Pids : os'.running[p].start \in 0..b
  BY <1>1, <1>3
<1>6. SystemSound'
  BY <1>1, <1>2, <1>4, <1>5 DEF SystemSound
<1>7. RecordsOf(mon.latest, b) /\ RecordsOf(sampled.records, b)
  BY DEF MonitorSound, StateSound
<1>8. ASSUME NEW c \in Viewers PROVE Aims(kill[c], os')
  <2> DEFINE k == kill[c]
  <2>1. Aims(k, os)
    BY DEF MonitorSound, KillsSound
  <2>2. SUFFICES ASSUME k.step # "none" PROVE Aims(k, os')
    BY DEF Aims
  <2>3. k.target = k.meant /\ k.target \in Keys /\ k.target.start \in 1..b /\ k.target.pid \notin Denylist
    BY <2>1, <2>2 DEF Aims
  <2>4. k.target.pid \in Pids /\ k.target.start \in 1..os'.births /\ k.target.start # 0
    BY <1>1, <1>2, <2>3 DEF Keys
  <2>5. os'.running[k.target.pid].start = k.target.start => os.running[k.target.pid].start = k.target.start
    BY <1>3, <2>4
  <2> HIDE DEF k
  <2> QED BY <2>1, <2>2, <2>3, <2>4, <2>5 DEF Aims
<1>9. KillsSound'
  BY <1>2, <1>8 DEF MonitorSound, KillsSound
<1> QED BY <1>2, <1>6, <1>7, <1>9, StateKept

\* The system is sampled.
LEMMA SampleSound ==
  ASSUME MonitorSound, NEW busy, Sample(busy)
  PROVE  MonitorSound'
<1> DEFINE alive == {q \in Pids : os.running[q].start # 0}
           rec(p) == [key |-> [pid |-> p, start |-> os.running[p].start], uid |-> os.running[p].uid,
                      value |-> p \in busy]
           f == [p \in alive |-> rec(p)]
           records == {rec(p) : p \in alive}
<1>1. sampled'.records = records /\ UNCHANGED <<os, mon, table, view, meant, kill, hits>>
  BY DEF Sample
<1>2. os.births \in Nat /\ \A p \in Pids : os.running[p].start \in 0..os.births
  BY DEF MonitorSound, SystemSound
<1>3. IsFiniteSet(records)
  <2>1. IsFiniteSet(alive)
    <3>1. alive \in SUBSET Pids
      OBVIOUS
    <3> HIDE DEF alive
    <3> QED BY <3>1, FS_Subset, MonitorAssumption
  <2> HIDE DEF rec, alive
  <2>2. f \in Surjection(alive, records)
    BY DEF Surjection
  <2> HIDE DEF f, records
  <2> QED BY <2>1, <2>2, FS_Surjection
<1>4. ASSUME NEW p \in alive
      PROVE  /\ rec(p).key = [pid |-> p, start |-> os.running[p].start] /\ rec(p).key.pid = p
             /\ rec(p).key \in Keys
             /\ rec(p).key.start \in 1..os.births /\ rec(p).value \in BOOLEAN
  BY <1>2 DEF Keys
<1> HIDE DEF rec
<1>5. \A r \in records : r.key \in Keys /\ r.key.start \in 1..os.births /\ r.value \in BOOLEAN
  BY <1>4
<1>6. ASSUME NEW x \in records, NEW y \in records, x.key = y.key PROVE x = y
  <2>1. PICK p \in alive : x = rec(p)
    OBVIOUS
  <2>2. PICK q \in alive : y = rec(q)
    OBVIOUS
  <2>3. p = q
    <3>1. rec(p).key = rec(q).key
      BY <1>6, <2>1, <2>2
    <3>2. rec(p).key.pid = p /\ rec(q).key.pid = q
      BY <1>4
    <3> QED BY <3>1, <3>2
  <2> QED BY <2>1, <2>2, <2>3
<1> HIDE DEF records
<1>7. RecordsOf(records, os.births)
  BY <1>3, <1>5, <1>6 DEF RecordsOf
<1>8. SystemSound' /\ KillsSound' /\ RecordsOf(mon.latest, os.births)
  <2>1. SystemSound'
    BY <1>1 DEF MonitorSound, SystemSound
  <2>2. KillsSound'
    BY <1>1 DEF MonitorSound, KillsSound, Aims
  <2> QED BY <2>1, <2>2 DEF MonitorSound, StateSound
<1> QED BY <1>1, <1>7, <1>8, StateKept

\* A plan that is refused leaves everything alone.
LEMMA RefusedKeeps ==
  ASSUME MonitorSound, UNCHANGED <<os, mon, table, view, meant, kill, hits>>,
         RecordsOf(sampled'.records, os.births)
  PROVE  MonitorSound'
<1>1. SystemSound' /\ KillsSound' /\ RecordsOf(mon.latest, os.births)
  <2>1. SystemSound'
    BY DEF MonitorSound, SystemSound
  <2>2. KillsSound'
    BY DEF MonitorSound, KillsSound, Aims
  <2> QED BY <2>1, <2>2 DEF MonitorSound, StateSound
<1> QED BY <1>1, StateKept

\* A sample reaches the table.
LEMMA TickSound ==
  ASSUME MonitorSound, NEW ok \in BOOLEAN, Tick(ok)
  PROVE  MonitorSound'
<1> DEFINE records == sampled.records
<1>1. RecordsOf(records, os.births) /\ StateSound
  BY DEF MonitorSound, StateSound
<1>2. RecordsOf(sampled'.records, os.births)
  <2>1. sampled'.records = {}
    BY DEF Tick, NotSampled
  <2>2. IsFiniteSet({})
    BY FS_EmptySet
  <2> QED BY <2>1, <2>2 DEF RecordsOf
<1>3. PICK fresh \in NewItems(records) : commit_plan(Plan(records, mon.show_all, fresh), ok)
  BY DEF Tick
<1>4. UNCHANGED <<os, view, meant, kill, hits>>
  BY DEF Tick
<1> DEFINE new == Plan(records, mon.show_all, fresh)
<1>5. PlanKeeps(new, records, mon.show_all)
  BY <1>1, PlanSound
<1> HIDE DEF new, records
<1>6. CASE ok
  <2>1. /\ mon' = new
        /\ table' = [table EXCEPT !.rows = diff_visible_rows(table.rows, new.visible), !.show_all = new.show_all]
    BY <1>3, <1>6, Zenon DEF commit_plan, new
  <2> QED BY <1>1, <1>2, <1>4, <1>5, <2>1, CommitKeeps
<1>7. CASE ~ok
  <2>1. UNCHANGED <<mon, table>>
    BY <1>3, <1>7, Zenon DEF commit_plan
  <2> QED BY <1>2, <1>4, <2>1, RefusedKeeps
<1> QED BY <1>6, <1>7

\* A client shows or hides the others' processes.
LEMMA ShowAllSound ==
  ASSUME MonitorSound, NEW show_all \in BOOLEAN, NEW ok \in BOOLEAN, on_show_all_changed(show_all, ok)
  PROVE  MonitorSound'
<1> DEFINE latest == mon.latest
           none == [k \in {} |-> 0]
           new == Plan(latest, show_all, none)
<1>1. RecordsOf(latest, os.births) /\ StateSound /\ RecordsOf(sampled.records, os.births)
  BY DEF MonitorSound, StateSound
<1>2. commit_plan(new, ok) /\ UNCHANGED <<os, sampled, view, meant, kill, hits>>
  BY Zenon DEF on_show_all_changed
<1>3. none \in NewItems(latest)
  <2> DEFINE F == {r.key : r \in latest} \ DOMAIN mon.items
  <2>1. F = {}
    BY <1>1 DEF StateSound, Identified, KeysIn
  <2>2. none \in [F -> mon.next_item..(mon.next_item + Cardinality(F) - 1)] /\ \A a, b \in F : a # b => none[a] # none[b]
    BY <2>1
  <2> HIDE DEF none
  <2> QED BY <2>2, Zenon DEF NewItems
<1>4. PlanKeeps(new, latest, show_all)
  <2> HIDE DEF none
  <2> QED BY <1>1, <1>3, PlanSound
<1> HIDE DEF new, latest
<1>5. CASE ok
  <2>1. /\ mon' = new
        /\ table' = [table EXCEPT !.rows = diff_visible_rows(table.rows, new.visible), !.show_all = new.show_all]
    BY <1>2, <1>5, Zenon DEF commit_plan
  <2> QED BY <1>1, <1>2, <1>4, <2>1, CommitKeeps
<1>6. CASE ~ok
  <2>1. UNCHANGED <<mon, table>>
    BY <1>2, <1>6, Zenon DEF commit_plan
  <2> QED BY <1>1, <1>2, <2>1, RefusedKeeps
<1> QED BY <1>5, <1>6

\* A client selects a row of its screen.
LEMMA SelectionSound ==
  ASSUME MonitorSound, NEW c \in Viewers, NEW i, on_selection_changed(c, i)
  PROVE  MonitorSound'
<1> DEFINE row == view[c][i]
           old == mon.selections
           kept == DOMAIN mon'.selections \ {c}
<1>1. /\ i \in 1..Len(view[c]) /\ mon' = select_for_client(c, row.item)
      /\ meant' = [meant EXCEPT ![c] = row.key] /\ UNCHANGED <<os, sampled, table, view, kill, hits>>
  BY DEF on_selection_changed
<1>2. IsMonitor(mon) /\ view \in [Viewers -> Seq(Row)] /\ meant \in [Viewers -> [pid : Nat, start : Nat]]
  BY DEF MonitorSound, StateSound, SelectionsSound
<1>3. row \in Row /\ row.item \in Nat /\ row.key \in Keys /\ row.key \in [pid : Nat, start : Nat]
  <2>1. view[c] \in Seq(Row)
    BY <1>2
  <2>2. row \in Row
    BY <1>1, <2>1
  <2>3. row.item \in Nat /\ row.key \in Keys
    BY <2>2 DEF Row
  <2> QED BY <2>2, <2>3, MonitorAssumption DEF Keys
<1>4. Names(mon, row.item, row.key)
  BY <1>1 DEF MonitorSound, SelectionsSound
<1>5. /\ IsMonitor(mon') /\ mon'.items = mon.items /\ mon'.next_item = mon.next_item
      /\ mon'.latest = mon.latest /\ mon'.visible = mon.visible /\ mon'.show_all = mon.show_all
      /\ \A d \in DOMAIN mon'.selections :
           IF d = c THEN mon'.selections[d].item = row.item
           ELSE d \in DOMAIN old /\ mon'.selections[d] = old[d]
  <2> DEFINE full == c \notin DOMAIN old /\ Cardinality(DOMAIN old) >= MaxClientSelections
             oldest == CHOOSE d \in DOMAIN old : \A e \in DOMAIN old : old[d].seq <= old[e].seq
             stay == IF full THEN DOMAIN old \ {oldest} ELSE DOMAIN old
             sel == [d \in stay \cup {c} |-> IF d = c THEN [item |-> row.item, seq |-> mon.next_seq] ELSE old[d]]
             seq == mon.next_seq + 1
  <2>1. mon' = [mon EXCEPT !.next_seq = seq, !.selections = sel]
    BY <1>1, Zenon DEF select_for_client
  <2>2. stay \subseteq DOMAIN old
    <3> HIDE DEF full, oldest
    <3> QED OBVIOUS
  <2> HIDE DEF stay
  <2>3. \A d \in DOMAIN sel : IF d = c THEN sel[d].item = row.item ELSE d \in DOMAIN old /\ sel[d] = old[d]
    <3> HIDE DEF row, old
    <3> QED BY <2>2
  <2> HIDE DEF sel, seq
  <2>4. /\ IsMonitor(mon') /\ mon'.items = mon.items /\ mon'.next_item = mon.next_item
        /\ mon'.latest = mon.latest /\ mon'.visible = mon.visible /\ mon'.show_all = mon.show_all
        /\ mon'.selections = sel
    BY <1>2, <2>1 DEF IsMonitor, MonitorFields
  <2> HIDE DEF row, old
  <2> QED BY <2>3, <2>4
<1>6. SystemSound' /\ KillsSound' /\ KillsSelected' /\ IsTable' /\ TableExact'
  <2>1. SystemSound'
    BY <1>1 DEF MonitorSound, SystemSound
  <2>2. KillsSound'
    BY <1>1 DEF MonitorSound, KillsSound, Aims
  <2>3. KillsSelected' /\ IsTable' /\ TableExact'
    BY <1>1, <1>5 DEF MonitorSound, KillsSelected, IsTable, TableExact
  <2> QED BY <2>1, <2>2, <2>3
<1>7. StateSound'
  BY <1>1, <1>5 DEF MonitorSound, StateSound
<1>8. SelectionsSound'
  <2>1. \A item, key : Names(mon, item, key) => Names(mon', item, key)
    BY <1>5 DEF Names
  <2>2. meant' \in [Viewers -> [pid : Nat, start : Nat]] /\ meant'[c] = row.key /\ \A d \in Viewers \ {c} : meant'[d] = meant[d]
    <3> HIDE DEF row
    <3> QED BY <1>1, <1>2, <1>3
  <2>3. ASSUME NEW d \in Viewers \cap DOMAIN mon'.selections
        PROVE  mon'.selections[d].item \in Nat /\ Names(mon', mon'.selections[d].item, meant'[d])
    <3>1. CASE d = c
      <4>1. mon'.selections[d].item = row.item /\ meant'[d] = row.key
        BY <1>5, <2>2, <3>1
      <4>2. Names(mon', row.item, row.key)
        BY <1>4, <2>1
      <4> HIDE DEF row
      <4> QED BY <1>3, <4>1, <4>2
    <3>2. CASE d # c
      <4>1. d \in DOMAIN old /\ mon'.selections[d] = old[d] /\ meant'[d] = meant[d]
        BY <1>5, <2>2, <3>2
      <4>2. old[d].item \in Nat /\ Names(mon, old[d].item, meant[d])
        BY <4>1 DEF MonitorSound, SelectionsSound
      <4> QED BY <2>1, <4>1, <4>2
    <3> QED BY <3>1, <3>2
  <2> QED BY <1>1, <2>1, <2>2, <2>3 DEF MonitorSound, SelectionsSound
<1> QED BY <1>6, <1>7, <1>8 DEF MonitorSound

\* A screen catches up.
LEMMA DeliverSound ==
  ASSUME MonitorSound, NEW c \in Viewers, Deliver(c)
  PROVE  MonitorSound'
<1> DEFINE rows == mon.visible
<1>1. view' = [view EXCEPT ![c] = rows] /\ UNCHANGED <<os, sampled, mon, table, meant, kill, hits>>
  BY DEF Deliver, MonitorSound, TableExact
<1>2. view \in [Viewers -> Seq(Row)] /\ RowsOf(rows, mon.items) /\ Identified(mon.items, mon.next_item, KeysIn(mon.latest))
  BY DEF MonitorSound, StateSound, SelectionsSound
<1>3. rows \in Seq(Row)
  BY <1>2 DEF RowsOf
<1>4. \A i \in 1..Len(rows) : Names(mon, rows[i].item, rows[i].key)
  BY <1>2 DEF RowsOf, Identified, Names
<1> HIDE DEF rows
<1>5. view' \in [Viewers -> Seq(Row)] /\ \A d \in Viewers : view'[d] = IF d = c THEN rows ELSE view[d]
  BY <1>1, <1>2, <1>3
<1>6. ASSUME NEW d \in Viewers, NEW i \in 1..Len(view'[d]) PROVE Names(mon, view'[d][i].item, view'[d][i].key)
  <2>1. CASE d = c
    BY <1>4, <1>5, <2>1
  <2>2. CASE d # c
    BY <1>5, <2>2 DEF MonitorSound, SelectionsSound
  <2> QED BY <2>1, <2>2
<1>7. SelectionsSound'
  BY <1>1, <1>5, <1>6 DEF MonitorSound, SelectionsSound, Names
<1>8. SystemSound' /\ StateSound' /\ KillsSound' /\ KillsSelected' /\ IsTable' /\ TableExact'
  <2>1. SystemSound' /\ StateSound'
    BY <1>1 DEF MonitorSound, SystemSound, StateSound
  <2>2. KillsSound'
    BY <1>1 DEF MonitorSound, KillsSound, Aims
  <2>3. KillsSelected' /\ IsTable' /\ TableExact'
    BY <1>1 DEF MonitorSound, KillsSelected, IsTable, TableExact
  <2> QED BY <2>1, <2>2, <2>3
<1> QED BY <1>7, <1>8 DEF MonitorSound

\* A step of a kill changes the client's kill, the status and the signals only.
LEMMA KillStepKeeps ==
  ASSUME MonitorSound, NEW c \in Viewers, NEW k \in Kills, Aims(k, os), kill' = [kill EXCEPT ![c] = k],
         IsTable', table'.rows = table.rows, table'.show_all = table.show_all,
         UNCHANGED <<os, sampled, mon, view, meant>>, KillsSelected'
  PROVE  MonitorSound'
<1>1. SystemSound' /\ StateSound' /\ SelectionsSound'
  BY DEF MonitorSound, SystemSound, StateSound, SelectionsSound, Names
<1>2. TableExact'
  BY DEF MonitorSound, TableExact
<1>3. kill \in [Viewers -> Kills] /\ \A d \in Viewers : Aims(kill[d], os)
  BY DEF MonitorSound, KillsSound
<1>4. kill' \in [Viewers -> Kills] /\ \A d \in Viewers : kill'[d] = IF d = c THEN k ELSE kill[d]
  BY <1>3
<1>5. \A d \in Viewers : Aims(kill'[d], os)
  BY <1>3, <1>4
<1>6. KillsSound'
  BY <1>4, <1>5 DEF KillsSound, Aims
<1> QED BY <1>1, <1>2, <1>6 DEF MonitorSound

\* A kill that ends publishes its outcome.
LEMMA StatusKeeps ==
  ASSUME MonitorSound, NEW c \in Viewers, NEW outcome, publish_kill_status(c, outcome),
         UNCHANGED <<os, sampled, mon, view, meant>>, KillsSelected'
  PROVE  MonitorSound'
<1> DEFINE k == [step |-> "none", target |-> Nothing, meant |-> Nothing, fd |-> Nothing]
<1>1. kill' = [kill EXCEPT ![c] = k] /\ table' = [table EXCEPT !.status = outcome]
  BY DEF publish_kill_status
<1>2. k \in Kills /\ k.step = "none"
  BY DEF Kills, Nothing
<1> HIDE DEF k
<1>3. Aims(k, os)
  BY <1>2 DEF Aims
<1>4. IsTable' /\ table'.rows = table.rows /\ table'.show_all = table.show_all
  <2>1. IsTable
    BY DEF MonitorSound
  <2> QED BY <1>1, <2>1 DEF IsTable, TableFields
<1> QED BY <1>1, <1>2, <1>3, <1>4, KillStepKeeps

\* A step that sends no signal.
LEMMA NoSignal ==
  ASSUME MonitorSound, hits' = hits
  PROVE  KillsSelected'
BY DEF MonitorSound, KillsSelected

\* The kill goes on to its next step.
LEMMA KillAdvances ==
  ASSUME MonitorSound, NEW c \in Viewers, NEW k \in Kills, Aims(k, os), kill' = [kill EXCEPT ![c] = k],
         UNCHANGED <<os, sampled, mon, table, view, meant, hits>>
  PROVE  MonitorSound'
<1>1. IsTable' /\ table'.rows = table.rows /\ table'.show_all = table.show_all
  BY DEF MonitorSound, IsTable
<1>2. KillsSelected'
  BY NoSignal
<1> QED BY <1>1, <1>2, KillStepKeeps

\* The selection is resolved: to the process that was meant, or to none.
LEMMA ActivatedSound ==
  ASSUME MonitorSound, NEW c \in Viewers, on_kill_activated(c)
  PROVE  MonitorSound'
<1> DEFINE item == mon.selections[c].item
           keys == {k \in DOMAIN mon.items : mon.items[k] = item}
           key == CHOOSE k \in keys : TRUE
           new == [step |-> "resolved", target |-> key, meant |-> meant[c], fd |-> Nothing]
<1>1. UNCHANGED <<os, sampled, mon, view, meant, hits>> /\ hits' = hits
  BY DEF on_kill_activated
<1>2. \/ \E outcome : publish_kill_status(c, outcome)
      \/ /\ c \in DOMAIN mon.selections /\ keys # {} /\ key.pid \notin Denylist
         /\ kill' = [kill EXCEPT ![c] = new] /\ UNCHANGED table
  BY Zenon DEF on_kill_activated
<1>3. KillsSelected'
  BY <1>1, NoSignal
<1>4. ASSUME NEW outcome, publish_kill_status(c, outcome) PROVE MonitorSound'
  BY <1>1, <1>3, <1>4, StatusKeeps
<1>5. ASSUME c \in DOMAIN mon.selections, keys # {}, key.pid \notin Denylist,
             kill' = [kill EXCEPT ![c] = new], UNCHANGED table
      PROVE  MonitorSound'
  <2>1. key \in keys
    BY <1>5, Zenon
  <2>2. key \in DOMAIN mon.items /\ mon.items[key] = item
    BY <2>1
  <2>3. Names(mon, item, meant[c]) /\ meant \in [Viewers -> [pid : Nat, start : Nat]]
    BY <1>5 DEF MonitorSound, SelectionsSound
  <2>4. key = meant[c]
    BY <2>2, <2>3 DEF Names
  <2>5. key \in Keys /\ key.start \in 1..os.births
    <3>1. key \in KeysIn(mon.latest) /\ RecordsOf(mon.latest, os.births)
      BY <2>2 DEF MonitorSound, StateSound, Identified
    <3>2. PICK r \in mon.latest : key = r.key
      BY <3>1 DEF KeysIn
    <3> QED BY <3>1, <3>2 DEF RecordsOf
  <2> HIDE DEF key
  <2>6. new \in Kills
    BY <2>3, <2>4 DEF Kills, Nothing
  <2>7. Aims(new, os)
    <3>1. new.step = "resolved" /\ new.target = key /\ new.meant = key
      BY <2>4
    <3> HIDE DEF new
    <3> QED BY <1>5, <2>5, <3>1 DEF Aims
  <2> HIDE DEF new
  <2> QED BY <1>1, <1>5, <2>6, <2>7, KillAdvances
<1> QED BY <1>2, <1>4, <1>5

\* Only the step of a kill changes.
LEMMA KillMoves ==
  ASSUME MonitorSound, NEW c \in Viewers, NEW step, Kill(c, step),
         step \in {"valid", "plain"} \/ (step = "checked" /\ kill[c].fd = kill[c].target),
         kill[c].step # "none",
         UNCHANGED <<os, sampled, mon, table, view, meant, hits>>
  PROVE  MonitorSound'
<1> DEFINE k == kill[c]
           new == [k EXCEPT !.step = step]
<1>1. kill \in [Viewers -> Kills] /\ k \in Kills /\ Aims(k, os)
  BY DEF MonitorSound, KillsSound
<1>2. kill' = [kill EXCEPT ![c] = new]
  BY DEF Kill
<1> HIDE DEF k
<1>3. /\ new \in Kills /\ new.step = step /\ new.target = k.target
      /\ new.meant = k.meant /\ new.fd = k.fd
  BY <1>1 DEF Kills
<1> HIDE DEF new
<1>4. Aims(new, os)
  BY <1>1, <1>3 DEF Aims, k
<1> QED BY <1>2, <1>3, <1>4, KillAdvances

\* The first look at the start time.
LEMMA RevalidateSound ==
  ASSUME MonitorSound, NEW c \in Viewers, Revalidate(c)
  PROVE  MonitorSound'
<1>1. UNCHANGED <<os, sampled, mon, view, meant, hits>> /\ hits' = hits /\ kill[c].step = "resolved"
  BY DEF Revalidate
<1>2. (\E outcome : publish_kill_status(c, outcome)) \/ (Kill(c, "valid") /\ UNCHANGED table)
  BY Zenon DEF Revalidate
<1>3. KillsSelected'
  BY <1>1, NoSignal
<1>4. ASSUME NEW outcome, publish_kill_status(c, outcome) PROVE MonitorSound'
  BY <1>1, <1>3, <1>4, StatusKeeps
<1>5. ASSUME Kill(c, "valid"), UNCHANGED table PROVE MonitorSound'
  BY <1>1, <1>5, KillMoves
<1> QED BY <1>2, <1>4, <1>5

\* The process that has the pid is opened, whichever it is.
LEMMA PidfdOpenSound ==
  ASSUME MonitorSound, NEW c \in Viewers, NEW works \in BOOLEAN, PidfdOpen(c, works)
  PROVE  MonitorSound'
<1> DEFINE k == kill[c]
           pid == k.target.pid
           fd == [pid |-> pid, start |-> os.running[pid].start]
           new == [k EXCEPT !.step = "open", !.fd = fd]
<1>1. UNCHANGED <<os, sampled, mon, view, meant, hits>> /\ hits' = hits /\ k.step = "valid"
  BY DEF PidfdOpen
<1>2. \/ \E outcome : publish_kill_status(c, outcome)
      \/ Kill(c, "plain") /\ UNCHANGED table
      \/ /\ kill' = [kill EXCEPT ![c].step = "open", ![c].fd = fd]
         /\ UNCHANGED table
  BY Zenon DEF PidfdOpen
<1>3. KillsSelected'
  BY <1>1, NoSignal
<1>4. ASSUME NEW outcome, publish_kill_status(c, outcome) PROVE MonitorSound'
  BY <1>1, <1>3, <1>4, StatusKeeps
<1>5. ASSUME Kill(c, "plain"), UNCHANGED table PROVE MonitorSound'
  BY <1>1, <1>5, KillMoves
<1>6. ASSUME kill' = [kill EXCEPT ![c].step = "open", ![c].fd = fd], UNCHANGED table PROVE MonitorSound'
  <2>1. kill \in [Viewers -> Kills] /\ k \in Kills /\ Aims(k, os)
    BY DEF MonitorSound, KillsSound
  <2>2. /\ k.target = k.meant /\ k.target \in Keys /\ k.target.start \in 1..os.births
        /\ k.target.pid \notin Denylist
    BY <1>1, <2>1 DEF Aims
  <2>3. pid \in Pids /\ os.running[pid].start \in Nat
    <3>1. pid \in Pids
      BY <2>2 DEF Keys
    <3>2. os.births \in Nat /\ os.running[pid].start \in 0..os.births
      BY <3>1 DEF MonitorSound, SystemSound
    <3> QED BY <3>1, <3>2
  <2>4. fd \in Keys /\ fd \in [pid : Nat, start : Nat] /\ fd.pid = pid /\ fd.start = os.running[pid].start
    BY <2>3, MonitorAssumption DEF Keys
  <2> HIDE DEF k, fd
  <2>5. kill' = [kill EXCEPT ![c] = new]
    BY <1>6, <2>1 DEF k
  <2>6. /\ new \in Kills /\ new.step = "open" /\ new.target = k.target
        /\ new.meant = k.meant /\ new.fd = fd
    BY <2>1, <2>4 DEF Kills
  <2> HIDE DEF new
  <2>7. Aims(new, os)
    BY <2>2, <2>4, <2>6 DEF Aims
  <2> QED BY <1>1, <1>6, <2>5, <2>6, <2>7, KillAdvances
<1> QED BY <1>2, <1>4, <1>5, <1>6

\* The second look, with the handle open: the handle is the process meant.
LEMMA TerminateSound ==
  ASSUME MonitorSound, NEW c \in Viewers, terminate_pidfd(c)
  PROVE  MonitorSound'
<1> DEFINE k == kill[c]
<1>1. UNCHANGED <<os, sampled, mon, view, meant, hits>> /\ hits' = hits /\ k.step = "open"
  BY DEF terminate_pidfd
<1>2. \/ \E outcome : publish_kill_status(c, outcome)
      \/ /\ start_time_of(k.target.pid) = k.target.start
         /\ Kill(c, "checked") /\ UNCHANGED table
  BY Zenon DEF terminate_pidfd, RecheckPasses
<1>3. KillsSelected'
  BY <1>1, NoSignal
<1>4. ASSUME NEW outcome, publish_kill_status(c, outcome) PROVE MonitorSound'
  BY <1>1, <1>3, <1>4, StatusKeeps
<1>5. ASSUME start_time_of(k.target.pid) = k.target.start, Kill(c, "checked"), UNCHANGED table
      PROVE  MonitorSound'
  <2>1. Aims(k, os)
    BY DEF MonitorSound, KillsSound
  <2>2. /\ k.target \in Keys /\ k.fd \in Keys /\ k.fd.pid = k.target.pid
        /\ k.fd.start = k.target.start
    BY <1>1, <1>5, <2>1 DEF Aims, start_time_of
  <2>3. k.fd = k.target
    BY <2>2 DEF Keys
  <2> QED BY <1>1, <1>5, <2>3, KillMoves
<1> QED BY <1>2, <1>4, <1>5

\* A signal goes to a process that may be signalled, and through a handle to the one meant.
LEMMA SignalSound ==
  ASSUME MonitorSound, NEW c \in Viewers, NEW via, NEW process, SignalProcess(c, via, process),
         process.pid \notin Denylist, via = "pidfd" => process = kill[c].meant,
         UNCHANGED <<os, sampled, mon, view, meant>>
  PROVE  MonitorSound'
<1> DEFINE hit == [via |-> via, process |-> process, meant |-> kill[c].meant]
<1>1. /\ hits' = hits \cup {hit} \/ hits' = hits
      /\ \E outcome : publish_kill_status(c, outcome)
  BY Zenon DEF SignalProcess
<1>2. hit.process.pid \notin Denylist /\ (hit.via = "pidfd" => hit.process = hit.meant)
  OBVIOUS
<1> HIDE DEF hit
<1>3. KillsSelected'
  BY <1>1, <1>2 DEF MonitorSound, KillsSelected
<1> QED BY <1>1, <1>3, StatusKeeps

\* Both ways to send it.
LEMMA SendSound ==
  ASSUME MonitorSound, NEW c \in Viewers, SendSignal(c) \/ PlainKill(c)
  PROVE  MonitorSound'
<1> DEFINE k == kill[c]
<1>1. Aims(k, os)
  BY DEF MonitorSound, KillsSound
<1>2. CASE SendSignal(c)
  <2>1. k.step = "checked" /\ SignalProcess(c, "pidfd", k.fd) /\ UNCHANGED <<os, sampled, mon, view, meant>>
    BY <1>2 DEF SendSignal
  <2>2. k.fd = k.meant /\ k.fd.pid \notin Denylist
    BY <1>1, <2>1 DEF Aims
  <2> QED BY <2>1, <2>2, SignalSound
<1>3. CASE PlainKill(c)
  <2> DEFINE process == [pid |-> k.target.pid, start |-> os.running[k.target.pid].start]
  <2>1. k.step = "plain" /\ SignalProcess(c, "kill", process) /\ UNCHANGED <<os, sampled, mon, view, meant>>
    BY <1>3 DEF PlainKill
  <2>2. process.pid \notin Denylist
    BY <1>1, <2>1 DEF Aims
  <2> HIDE DEF process
  <2>3. "kill" # "pidfd"
    OBVIOUS
  <2> QED BY <2>1, <2>2, <2>3, SignalSound
<1> QED BY <1>2, <1>3

\* In the beginning there is nothing.
LEMMA MonitorStarts == MonitorInit => MonitorSound
<1> SUFFICES ASSUME MonitorInit PROVE MonitorSound
  OBVIOUS
<1> USE DEF MonitorInit
<1>1. SystemSound
  BY DEF SystemSound
<1>2. StateSound
  <2>1. mon = [f \in MonitorFields |-> mon[f]]
    BY DEF MonitorFields
  <2>2. RecordsOf({}, 0)
    BY FS_EmptySet DEF RecordsOf
  <2>3. Identified([k \in {} |-> 0], 1, KeysIn({}))
    BY DEF Identified, KeysIn
  <2>4. RowsOf(<<>>, [k \in {} |-> 0])
    BY DEF RowsOf, Distinct
  <2> QED BY <2>1, <2>2, <2>3, <2>4 DEF StateSound, IsMonitor, NotSampled
<1>3. SelectionsSound
  BY DEF SelectionsSound, Nothing
<1>4. KillsSound
  <2> DEFINE k == [step |-> "none", target |-> Nothing, meant |-> Nothing, fd |-> Nothing]
  <2>1. k \in Kills /\ k.step = "none"
    BY DEF Kills, Nothing
  <2> HIDE DEF k
  <2>2. kill = [c \in Viewers |-> k]
    BY DEF k
  <2> QED BY <2>1, <2>2 DEF KillsSound, Aims
<1>5. IsTable /\ TableExact /\ KillsSelected
  BY DEF IsTable, TableFields, TableExact, KillsSelected
<1> QED BY <1>1, <1>2, <1>3, <1>4, <1>5 DEF MonitorSound

\* Every step keeps the state sound.
LEMMA MonitorPreserves == MonitorSound /\ [MonitorNext]_monVars => MonitorSound'
<1> SUFFICES ASSUME MonitorSound, [MonitorNext]_monVars PROVE MonitorSound'
  OBVIOUS
<1>1. CASE UNCHANGED monVars
  <2>1. UNCHANGED <<os, mon, table, view, meant, kill, hits>> /\ sampled' = sampled
    BY <1>1 DEF monVars
  <2>2. RecordsOf(sampled'.records, os.births)
    BY <2>1 DEF MonitorSound, StateSound
  <2> QED BY <2>1, <2>2, RefusedKeeps
<1>2. CASE \E pid \in Pids : Death(pid) \/ \E uid \in Owners[pid] : Birth(pid, uid)
  BY <1>2, BirthSound, DeathSound
<1>3. CASE \E busy \in BusySets : Sample(busy)
  BY <1>3, SampleSound
<1>4. CASE \E ok \in BOOLEAN : Tick(ok) \/ \E show_all \in BOOLEAN : on_show_all_changed(show_all, ok)
  BY <1>4, TickSound, ShowAllSound, Zenon
<1>5. ASSUME NEW c \in Viewers,
             \/ \E i \in 1..Cardinality(Pids) : on_selection_changed(c, i)
             \/ Deliver(c) \/ on_kill_activated(c) \/ Revalidate(c)
             \/ \E works \in BOOLEAN : PidfdOpen(c, works)
             \/ terminate_pidfd(c) \/ SendSignal(c) \/ PlainKill(c)
      PROVE  MonitorSound'
  BY <1>5, SelectionSound, DeliverSound, ActivatedSound, RevalidateSound, PidfdOpenSound,
     TerminateSound, SendSound, Zenon
<1> QED BY <1>1, <1>2, <1>3, <1>4, <1>5, Zenon DEF MonitorNext

\* The table clients are sent is exactly the visible processes: the differences
\* commit_plan sends, however they split into runs, add up to the plan.
THEOREM TableStaysExact == MonitorSpec => []TableExact
<1>1. MonitorSound => TableExact
  BY DEF MonitorSound
<1> QED BY <1>1, MonitorStarts, MonitorPreserves, PTL DEF MonitorSpec

\* A signal through a pidfd reaches the process the client saw in the row it
\* selected, and no signal reaches a protected pid, whatever the pids are reused
\* for, the samples and selections between and the number of clients.
THEOREM SignalsReachSelected == MonitorSpec => []KillsSelected
<1>1. MonitorSound => KillsSelected
  BY DEF MonitorSound
<1> QED BY <1>1, MonitorStarts, MonitorPreserves, PTL DEF MonitorSpec

-----------------------------------------------------------------------------
(***************************************************************************)
(* Snapshot framing.                                                       *)
(*                                                                         *)
(* The lengths of the operations add up to totals T, and an envelope of    *)
(* the operations a to b has the length T[b] - T[a - 1], which grows with  *)
(* the range.  A part that greedy packing closes does not fit with the     *)
(* operation after it, so every other split that fits cuts somewhere in    *)
(* that part: no split has fewer envelopes.  On the way, the frames on the *)
(* wire are a stretch of the planned ones (Delivers), and what is staged   *)
(* ends where the next one begins.                                         *)
(***************************************************************************)

\* T adds up the lengths of the operations.
Totals(T, ops) ==
  /\ T \in [0..Len(ops) -> Nat] /\ T[0] = 0
  /\ \A k \in 1..Len(ops) : T[k] = T[k - 1] + operation_field_len(ops[k])

\* Lengths are numbers, and a longer body is not encoded shorter.
LEMMA LengthsGrow ==
  ASSUME NEW m \in Nat, NEW n \in Nat, m <= n
  PROVE  /\ operation_field_len(m) \in Nat
         /\ encoded_len_varint(m) \in Nat \ {0}
         /\ encoded_len_varint(m) <= encoded_len_varint(n)
<1> DEFINE square == VarintBase * VarintBase
<1>1. VarintBase \in Nat
  BY FramingAssumption
<1>2. square \in Nat /\ (VarintBase >= 1 => VarintBase <= square)
  BY <1>1
<1>3. \A k \in Nat : encoded_len_varint(k) = IF k < VarintBase THEN 1 ELSE IF k < square THEN 2 ELSE 3
  BY DEF encoded_len_varint
<1> HIDE DEF square
<1>4. encoded_len_varint(m) \in Nat \ {0} /\ encoded_len_varint(m) <= encoded_len_varint(n)
  BY <1>1, <1>2, <1>3
<1> QED BY <1>4 DEF operation_field_len

\* A length is a number.
LEMMA LengthsTyped ==
  ASSUME NEW m \in Nat
  PROVE  operation_field_len(m) \in Nat /\ encoded_len_varint(m) \in Nat \ {0}
BY LengthsGrow

\* An envelope of more is not shorter, and none is shorter than two bytes.
LEMMA EnvelopesGrow ==
  ASSUME NEW s \in Snapshots, NEW m \in Nat, NEW n \in Nat, m <= n
  PROVE  /\ envelope_len(s, m) \in Nat /\ envelope_len(s, m) >= 2
         /\ envelope_len(s, m) <= envelope_len(s, n)
<1> DEFINE field(k) == IF k = 0 THEN 0 ELSE 1 + encoded_len_varint(k)
           head == field(s.revision) + field(s.priority)
<1>1. s.revision \in Nat /\ s.priority \in Nat
  BY FramingAssumption
<1>2. head \in Nat
  <2>1. encoded_len_varint(s.revision) \in Nat /\ encoded_len_varint(s.priority) \in Nat
    BY <1>1, LengthsTyped
  <2> QED BY <2>1
<1>3. \A k \in Nat : envelope_len(s, k) =
         1 + encoded_len_varint(k + field(s.revision) + field(s.priority))
         + (k + field(s.revision) + field(s.priority))
  BY DEF envelope_len
<1>4. \A k \in Nat : k + field(s.revision) + field(s.priority) = k + head
  <2>1. field(s.revision) \in Nat /\ field(s.priority) \in Nat
    BY <1>1, LengthsTyped
  <2> HIDE DEF field
  <2> QED BY <2>1
<1>5. \A k \in Nat : envelope_len(s, k) = 1 + encoded_len_varint(k + head) + (k + head)
  BY <1>3, <1>4
<1> HIDE DEF head, field
<1>6. /\ encoded_len_varint(m + head) \in Nat \ {0} /\ encoded_len_varint(n + head) \in Nat \ {0}
      /\ encoded_len_varint(m + head) <= encoded_len_varint(n + head)
  <2>1. m + head \in Nat /\ n + head \in Nat /\ m + head <= n + head /\ n + head <= n + head
    BY <1>2
  <2> HIDE DEF encoded_len_varint
  <2> QED BY <2>1, LengthsGrow
<1> DEFINE a == encoded_len_varint(m + head)
           b == encoded_len_varint(n + head)
<1>7. envelope_len(s, m) = 1 + a + (m + head) /\ envelope_len(s, n) = 1 + b + (n + head)
  BY <1>5
<1> HIDE DEF a, b
<1>8. a \in Nat \ {0} /\ b \in Nat \ {0} /\ a <= b
  BY <1>6 DEF a, b
<1> QED BY <1>2, <1>7, <1>8

\* c holds the sums of the first lengths.
Adds(c, ops) ==
  /\ c[0] = 0 /\ c[Len(ops)] = FoldLeft(LAMBDA sum, body : sum + operation_field_len(body), 0, ops)
  /\ \A k \in 1..Len(ops) :
       c[k] = c[k - 1] + operation_field_len(ops[k])

\* The fold goes through such states.
LEMMA LengthTrace ==
  ASSUME NEW ops \in Seq(Nat)
  PROVE  \E c \in [0..Len(ops) -> Nat] : Adds(c, ops)
<1> DEFINE n == Len(ops)
           T == Nat
           op(a, i) == a + operation_field_len(ops[i])
           step == [p \in T \X (1..n) |-> op(p[1], p[2])]
           it == CHOOSE f : f = [s \in SUBSET DOMAIN ops |->
                   IF s = {} THEN 0 ELSE op(f[s \ {Max(s)}], Max(s))]
<1>1. n \in Nat /\ DOMAIN ops = 1..n /\ 0 \in T
  OBVIOUS
<1>2. FoldLeft(LAMBDA sum, body : sum + operation_field_len(body), 0, ops) = it[DOMAIN ops]
  BY Zenon DEF FoldLeft, MapThenFoldSet
<1>3. step \in [T \X (1..n) -> T] /\ \A a \in T, i \in 1..n : step[<<a, i>>] = op(a, i)
  <2>1. ASSUME NEW a \in T, NEW i \in 1..n PROVE op(a, i) \in T
    
    <3>1. ops[i] \in Nat
      OBVIOUS
    <3>2. operation_field_len(ops[i]) \in Nat
      BY <3>1, LengthsTyped
    <3> QED BY <3>2
  <2> HIDE DEF op, T, n
  <2> QED BY <2>1
<1> HIDE DEF op, step, T, n
<1>4. PICK g \in [SUBSET (1..n) -> T] : Solves(g, 0, step, n)
  BY <1>1, <1>3, FoldExists
<1>5. \A s \in SUBSET (1..n) : s # {} => Max(s) \in 1..n /\ s \ {Max(s)} \in SUBSET (1..n)
  BY <1>1, MaxOfPositions
<1>6. g = [s \in SUBSET DOMAIN ops |-> IF s = {} THEN 0 ELSE op(g[s \ {Max(s)}], Max(s))]
  <2>1. ASSUME NEW s \in SUBSET (1..n)
        PROVE  g[s] = IF s = {} THEN 0 ELSE op(g[s \ {Max(s)}], Max(s))
    <3>1. CASE s = {}
      BY <1>4, <3>1 DEF Solves
    <3>2. CASE s # {}
      <4>1. g[s \ {Max(s)}] \in T /\ Max(s) \in 1..n
        BY <1>4, <1>5, <3>2
      <4>2. g[s] = step[<<g[s \ {Max(s)}], Max(s)>>]
        BY <1>4, <3>2 DEF Solves
      <4> QED BY <1>3, <3>2, <4>1, <4>2
    <3> QED BY <3>1, <3>2
  <2> QED BY <1>1, <1>4, <2>1
<1>7. it = [s \in SUBSET DOMAIN ops |-> IF s = {} THEN 0 ELSE op(it[s \ {Max(s)}], Max(s))]
  BY <1>6, Zenon
<1> HIDE DEF it
<1>8. Iterates(it, 0, step, T, n)
  BY <1>1, <1>3, <1>5, <1>7 DEF Iterates
<1>9. PICK c \in [0..n -> T] : Passes(c, 0, step, n, it[1..n])
  BY <1>1, <1>3, <1>8, FoldTrace
<1>10. ASSUME NEW k \in 1..n PROVE c[k] = op(c[k - 1], k)
  <2>1. k - 1 \in 0..n
    BY <1>1
  <2> QED BY <1>3, <1>9, <2>1 DEF Passes
<1>11. c[0] = 0 /\ c[n] = FoldLeft(LAMBDA sum, body : sum + operation_field_len(body), 0, ops)
  BY <1>1, <1>2, <1>9 DEF Passes
<1>12. Adds(c, ops)
  BY <1>10, <1>11, Zenon DEF n, op, Adds
<1> QED BY <1>12 DEF n, T

\* The lengths of operations have totals.
LEMMA TotalsExist ==
  ASSUME NEW ops \in Seq(Nat)
  PROVE  \E T : Totals(T, ops)
<1>1. PICK c \in [0..Len(ops) -> Nat] : Adds(c, ops)
  BY LengthTrace
<1> QED BY <1>1 DEF Adds, Totals

\* Totals grow.
LEMMA TotalsGrow ==
  ASSUME NEW ops \in Seq(Nat), NEW T, Totals(T, ops), NEW i \in 0..Len(ops), NEW j \in i..Len(ops)
  PROVE  T[i] \in Nat /\ T[j] \in Nat /\ T[i] <= T[j]
<1> DEFINE n == Len(ops) - i
           S == {k \in 0..n : T[i] <= T[i + k]}
<1>1. n \in Nat /\ i \in Nat /\ Len(ops) \in Nat /\ \A k \in 0..n : i + k \in 0..Len(ops)
  OBVIOUS
<1>2. \A k \in 0..Len(ops) : T[k] \in Nat
  BY DEF Totals
<1>3. 0 \in S
  BY <1>1, <1>2
<1>4. ASSUME NEW k \in 1..n, k - 1 \in S PROVE k \in S
  <2>1. i + k \in 1..Len(ops) /\ i + (k - 1) = (i + k) - 1 /\ k \in 0..n
        /\ i + (k - 1) \in 0..Len(ops)
    BY <1>1
  <2>2. T[i + k] = T[i + (k - 1)] + operation_field_len(ops[i + k])
    BY <2>1 DEF Totals
  <2>3. operation_field_len(ops[i + k]) \in Nat
    <3>1. ops[i + k] \in Nat
      BY <2>1
    <3> QED BY <3>1, LengthsTyped
  <2>4. T[i] <= T[i + (k - 1)]
    BY <1>4
  <2>5. T[i] <= T[i + k]
    <3> DEFINE a == T[i + (k - 1)]
               b == operation_field_len(ops[i + k])
    <3>1. a \in Nat /\ T[i] \in Nat /\ b \in Nat /\ T[i] <= a /\ T[i + k] = a + b
      BY <1>2, <2>1, <2>2, <2>3, <2>4
    <3> HIDE DEF a, b
    <3> QED BY <3>1
  <2> QED BY <2>1, <2>5
<1>5. \A k \in 0..n : k \in S
  <2> HIDE DEF S, n
  <2> QED BY <1>1, <1>3, <1>4, Counting
<1>6. j - i \in 0..n /\ i + (j - i) = j
  BY <1>1
<1>7. T[i] <= T[j]
  <2>1. j - i \in S
    <3> HIDE DEF S
    <3> QED BY <1>5, <1>6
  <2> QED BY <1>6, <2>1
<1> QED BY <1>2, <1>7

\* The length of a range is the difference of its totals.
LEMMA OpsLenIs ==
  ASSUME NEW s \in Snapshots, NEW T, Totals(T, s.ops),
         NEW a \in 1..(Len(s.ops) + 1), NEW b \in (a - 1)..Len(s.ops)
  PROVE  OpsLen(s, <<a, b>>) = T[b] - T[a - 1]
<1> DEFINE ops == s.ops
           sub == SubSeq(ops, a, b)
           n == b - a + 1
<1>1. ops \in Seq(Nat) /\ Len(ops) \in Nat
  BY FramingAssumption
<1>2. /\ a \in Nat /\ b \in Int /\ a - 1 \in 0..Len(ops) /\ b \in 0..Len(ops) /\ n \in Nat
      /\ (a - 1) + n = b
  <2> HIDE DEF ops
  <2> QED BY <1>1 DEF ops
<1>3. sub \in Seq(Nat) /\ Len(sub) = n /\ \A k \in 1..n : sub[k] = ops[(a - 1) + k]
  <2> HIDE DEF ops
  <2>1. a \in Nat \ {0} /\ b \in Nat /\ b <= Len(ops)
    BY <1>2
  <2>2. sub \in Seq(Nat) /\ Len(sub) = n
    BY <1>1, <1>2, <2>1
  <2>3. ASSUME NEW k \in 1..n PROVE sub[k] = ops[(a - 1) + k]
    <3>1. a + k - 1 = (a - 1) + k /\ k \in 1..Len(sub)
      BY <1>2, <2>2
    <3>2. sub[k] = ops[a + k - 1]
      BY <1>1, <1>2, <2>1
    <3> QED BY <3>1, <3>2
  <2> QED BY <2>2, <2>3
<1> HIDE DEF sub
<1>4. PICK c \in [0..Len(sub) -> Nat] : Adds(c, sub)
  BY <1>3, LengthTrace
<1>5. OpsLen(s, <<a, b>>) = c[n]
  BY <1>3, <1>4 DEF OpsLen, Adds, sub
<1> HIDE DEF n, ops
<1>6. \A k \in 0..Len(ops) : T[k] \in Nat
  BY DEF Totals, ops
<1> DEFINE S == {k \in 0..n : c[k] = T[(a - 1) + k] - T[a - 1]}
<1>7. 0 \in S
  <2>0. c[0] = 0
    BY <1>4 DEF Adds
  <2>1. 0 \in 0..n /\ (a - 1) + 0 = a - 1 /\ T[a - 1] \in Nat /\ c[0] = 0
    BY <1>2, <1>6, <2>0
  <2>2. c[0] = T[(a - 1) + 0] - T[a - 1]
    BY <2>1
  <2> QED BY <2>1, <2>2
<1>8. ASSUME NEW k \in 1..n, k - 1 \in S PROVE k \in S
  <2>1. /\ k \in 0..n /\ k - 1 \in 0..n /\ (a - 1) + k \in 1..Len(ops) /\ (a - 1) + (k - 1) \in 0..Len(ops)
        /\ ((a - 1) + k) - 1 = (a - 1) + (k - 1)
    BY <1>1, <1>2
  <2>2. T[(a - 1) + k] = T[(a - 1) + (k - 1)] + operation_field_len(ops[(a - 1) + k])
    BY <2>1 DEF Totals, ops
  <2>3. c[k] = c[k - 1] + operation_field_len(ops[(a - 1) + k])
    BY <1>3, <1>4 DEF Adds
  <2>4. c[k - 1] = T[(a - 1) + (k - 1)] - T[a - 1]
    BY <1>8
  <2>5. operation_field_len(ops[(a - 1) + k]) \in Nat
    <3>1. ops[(a - 1) + k] \in Nat
      <4>1. \A m \in 1..Len(ops) : ops[m] \in Nat
        BY <1>1
      <4> QED BY <2>1, <4>1
    <3> QED BY <3>1, LengthsTyped
  <2>6. c[k] = T[(a - 1) + k] - T[a - 1]
    <3> DEFINE x == T[(a - 1) + (k - 1)]
               y == operation_field_len(ops[(a - 1) + k])
               z == T[a - 1]
    <3>1. x \in Nat /\ y \in Nat /\ z \in Nat /\ c[k] = (x - z) + y /\ T[(a - 1) + k] = x + y
      BY <1>2, <1>6, <2>1, <2>2, <2>3, <2>4, <2>5
    <3> HIDE DEF x, y, z
    <3>2. c[k] = T[(a - 1) + k] - z
      BY <3>1
    <3> QED BY <3>2 DEF z
  <2> QED BY <2>1, <2>6
<1>9. n \in S
  <2>1. n \in 0..n
    BY <1>2
  <2>2. \A k \in 0..n : k \in S
    <3> HIDE DEF S
    <3> QED BY <1>2, <1>7, <1>8, Counting
  <2> QED BY <2>1, <2>2
<1> QED BY <1>2, <1>5, <1>9

\* The length of an envelope of the operations a to b.
Envelope(s, T, a, b) == envelope_len(s, T[b] - T[a - 1])

\* It is what the model measures, and a wider range is not shorter.
LEMMA EnvelopeIs ==
  ASSUME NEW s \in Snapshots, NEW T, Totals(T, s.ops),
         NEW a \in 1..(Len(s.ops) + 1), NEW b \in (a - 1)..Len(s.ops)
  PROVE  /\ EnvelopeOf(s, <<a, b>>) = Envelope(s, T, a, b)
         /\ Envelope(s, T, a, b) \in Nat /\ Envelope(s, T, a, b) >= 2
<1>1. EnvelopeOf(s, <<a, b>>) = Envelope(s, T, a, b)
  BY OpsLenIs DEF EnvelopeOf, Envelope
<1>2. s.ops \in Seq(Nat) /\ Len(s.ops) \in Nat
  BY FramingAssumption
<1> DEFINE n == Len(s.ops)
<1>3. a - 1 \in 0..n /\ b \in (a - 1)..n
  <2>1. n \in Nat /\ a \in 1..(n + 1) /\ b \in (a - 1)..n
    BY <1>2
  <2> HIDE DEF n
  <2> QED BY <2>1
<1>4. T[a - 1] \in Nat /\ T[b] \in Nat /\ T[a - 1] <= T[b]
  BY <1>2, <1>3, TotalsGrow
<1>5. T[b] - T[a - 1] \in Nat
  BY <1>4
<1>6. Envelope(s, T, a, b) \in Nat /\ Envelope(s, T, a, b) >= 2
  <2> DEFINE d == T[b] - T[a - 1]
  <2>1. d \in Nat /\ d <= d
    BY <1>5
  <2> HIDE DEF d
  <2>2. envelope_len(s, d) \in Nat /\ envelope_len(s, d) >= 2
    BY <2>1, EnvelopesGrow
  <2> QED BY <2>2 DEF Envelope, d
<1> QED BY <1>1, <1>6

\* An envelope of a wider range is not shorter.
LEMMA EnvelopeWider ==
  ASSUME NEW s \in Snapshots, NEW T, Totals(T, s.ops), NEW n, n = Len(s.ops),
         NEW a \in 1..(n + 1), NEW b \in (a - 1)..n, NEW c \in 1..a, NEW d \in b..n
  PROVE  Envelope(s, T, a, b) <= Envelope(s, T, c, d)
<1>1. s.ops \in Seq(Nat) /\ n \in Nat
  BY FramingAssumption
<1>2. /\ c - 1 \in 0..n /\ a - 1 \in (c - 1)..n /\ a - 1 \in 0..n /\ b \in (a - 1)..n
      /\ b \in 0..n /\ d \in b..n
  BY <1>1
<1>3. T[c - 1] \in Nat /\ T[a - 1] \in Nat /\ T[c - 1] <= T[a - 1]
  BY <1>1, <1>2, TotalsGrow
<1>4. T[b] \in Nat /\ T[a - 1] <= T[b]
  BY <1>1, <1>2, TotalsGrow
<1>5. T[d] \in Nat /\ T[b] <= T[d]
  BY <1>1, <1>2, TotalsGrow
<1> DEFINE x == T[b] - T[a - 1]
           y == T[d] - T[c - 1]
<1>6. x \in Nat /\ y \in Nat /\ x <= y
  <2> DEFINE p == T[c - 1]
             q == T[a - 1]
             r == T[b]
             u == T[d]
  <2>1. p \in Nat /\ q \in Nat /\ r \in Nat /\ u \in Nat /\ p <= q /\ q <= r /\ r <= u
    BY <1>3, <1>4, <1>5
  <2> HIDE DEF p, q, r, u
  <2>2. r - q \in Nat /\ u - p \in Nat /\ r - q <= u - p
    BY <2>1
  <2> QED BY <2>2 DEF p, q, r, u
<1> HIDE DEF x, y
<1>7. envelope_len(s, x) <= envelope_len(s, y)
  BY <1>6, EnvelopesGrow
<1> QED BY <1>7 DEF Envelope, x, y

PackStates == [parts : Seq(Nat \X Nat), start : Nat, current : Nat]

\* c holds the parts closed and the one that is open, operation by operation.
Packs(c, shot, at, max) ==
  /\ c[0] = [parts |-> <<>>, start |-> 1, current |-> 0] /\ c[Len(at)] = FoldLeft(LAMBDA st, j :
             IF j > st.start /\ envelope_len(shot, st.current + operation_field_len(shot.ops[j])) > max
       THEN [parts |-> Append(st.parts, <<st.start, j - 1>>), start |-> j,
             current |-> operation_field_len(shot.ops[j])]
       ELSE [st EXCEPT !.current = @ + operation_field_len(shot.ops[j])],
           [parts |-> <<>>, start |-> 1, current |-> 0], at)
  /\ \A k \in 1..Len(at) :
       c[k] = IF at[k] > c[k - 1].start /\ envelope_len(shot, c[k - 1].current + operation_field_len(shot.ops[at[k]])) > max
       THEN [parts |-> Append(c[k - 1].parts, <<c[k - 1].start, at[k] - 1>>), start |-> at[k],
             current |-> operation_field_len(shot.ops[at[k]])]
       ELSE [c[k - 1] EXCEPT !.current = @ + operation_field_len(shot.ops[at[k]])]

\* The fold goes through such states.
LEMMA PackTrace ==
  ASSUME NEW shot \in Snapshots, NEW max, NEW at, at = [j \in 1..Len(shot.ops) |-> j]
  PROVE  \E c \in [0..Len(at) -> PackStates] : Packs(c, shot, at, max)
<1> DEFINE n == Len(at)
           T == PackStates
           base == [parts |-> <<>>, start |-> 1, current |-> 0]
           op(a, i) == IF at[i] > a.start /\ envelope_len(shot, a.current + operation_field_len(shot.ops[at[i]])) > max
       THEN [parts |-> Append(a.parts, <<a.start, at[i] - 1>>), start |-> at[i],
             current |-> operation_field_len(shot.ops[at[i]])]
       ELSE [a EXCEPT !.current = @ + operation_field_len(shot.ops[at[i]])]
           step == [p \in T \X (1..n) |-> op(p[1], p[2])]
           it == CHOOSE f : f = [s \in SUBSET DOMAIN at |->
                   IF s = {} THEN base ELSE op(f[s \ {Max(s)}], Max(s))]
<1>1. n \in Nat /\ DOMAIN at = 1..n /\ base \in T
  <2>1. shot.ops \in Seq(Nat) /\ Len(shot.ops) \in Nat
    BY FramingAssumption
  <2>2. at \in Seq(Nat) /\ Len(at) = Len(shot.ops)
    BY <2>1
  <2>3. base \in T
    BY DEF PackStates
  <2> HIDE DEF base, T
  <2> QED BY <2>2, <2>3
<1>2. FoldLeft(LAMBDA st, j :
             IF j > st.start /\ envelope_len(shot, st.current + operation_field_len(shot.ops[j])) > max
       THEN [parts |-> Append(st.parts, <<st.start, j - 1>>), start |-> j,
             current |-> operation_field_len(shot.ops[j])]
       ELSE [st EXCEPT !.current = @ + operation_field_len(shot.ops[j])],
           [parts |-> <<>>, start |-> 1, current |-> 0], at) = it[DOMAIN at]
  BY Zenon DEF FoldLeft, MapThenFoldSet
<1>3. step \in [T \X (1..n) -> T] /\ \A a \in T, i \in 1..n : step[<<a, i>>] = op(a, i)
  <2>1. ASSUME NEW a \in T, NEW i \in 1..n PROVE op(a, i) \in T
    
    <3>1. shot.ops \in Seq(Nat) /\ Len(at) = Len(shot.ops) /\ Len(shot.ops) \in Nat
      BY FramingAssumption
    <3>2. at[i] \in Nat /\ at[i] - 1 \in Nat /\ shot.ops[at[i]] \in Nat
      BY <3>1
    <3> DEFINE len == operation_field_len(shot.ops[at[i]])
    <3>3. len \in Nat
      BY <3>2, LengthsTyped
    <3>4. a.parts \in Seq(Nat \X Nat) /\ a.start \in Nat /\ a.current \in Nat /\ a \in PackStates
      BY DEF PackStates
    <3> HIDE DEF len
    <3>5. [a EXCEPT !.current = @ + len] \in PackStates
      <4>1. a.current + len \in Nat
        BY <3>3, <3>4
      <4>2. a = [parts |-> a.parts, start |-> a.start, current |-> a.current]
        BY <3>4 DEF PackStates
      <4>3. [a EXCEPT !.current = @ + len] = [parts |-> a.parts, start |-> a.start, current |-> a.current + len]
        BY <4>2
      <4> QED BY <3>4, <4>1, <4>3 DEF PackStates
    <3>6. <<a.start, at[i] - 1>> \in Nat \X Nat
      BY <3>2, <3>4
    <3>7. Append(a.parts, <<a.start, at[i] - 1>>) \in Seq(Nat \X Nat)
      BY <3>4, <3>6
    <3>8. [parts |-> Append(a.parts, <<a.start, at[i] - 1>>), start |-> at[i], current |-> len] \in PackStates
      BY <3>2, <3>3, <3>7 DEF PackStates
    <3> QED BY <3>5, <3>8 DEF len
  <2> HIDE DEF op, T, n
  <2> QED BY <2>1
<1> HIDE DEF op, step, T, n, base
<1>4. PICK g \in [SUBSET (1..n) -> T] : Solves(g, base, step, n)
  BY <1>1, <1>3, FoldExists
<1>5. \A s \in SUBSET (1..n) : s # {} => Max(s) \in 1..n /\ s \ {Max(s)} \in SUBSET (1..n)
  BY <1>1, MaxOfPositions
<1>6. g = [s \in SUBSET DOMAIN at |-> IF s = {} THEN base ELSE op(g[s \ {Max(s)}], Max(s))]
  <2>1. ASSUME NEW s \in SUBSET (1..n)
        PROVE  g[s] = IF s = {} THEN base ELSE op(g[s \ {Max(s)}], Max(s))
    <3>1. CASE s = {}
      BY <1>4, <3>1 DEF Solves
    <3>2. CASE s # {}
      <4>1. g[s \ {Max(s)}] \in T /\ Max(s) \in 1..n
        BY <1>4, <1>5, <3>2
      <4>2. g[s] = step[<<g[s \ {Max(s)}], Max(s)>>]
        BY <1>4, <3>2 DEF Solves
      <4> QED BY <1>3, <3>2, <4>1, <4>2
    <3> QED BY <3>1, <3>2
  <2> QED BY <1>1, <1>4, <2>1
<1>7. it = [s \in SUBSET DOMAIN at |-> IF s = {} THEN base ELSE op(it[s \ {Max(s)}], Max(s))]
  BY <1>6, Zenon
<1> HIDE DEF it
<1>8. Iterates(it, base, step, T, n)
  BY <1>1, <1>3, <1>5, <1>7 DEF Iterates
<1>9. PICK c \in [0..n -> T] : Passes(c, base, step, n, it[1..n])
  BY <1>1, <1>3, <1>8, FoldTrace
<1>10. ASSUME NEW k \in 1..n PROVE c[k] = op(c[k - 1], k)
  <2>1. k - 1 \in 0..n
    BY <1>1
  <2> QED BY <1>3, <1>9, <2>1 DEF Passes
<1>11. c[0] = base /\ c[n] = FoldLeft(LAMBDA st, j :
             IF j > st.start /\ envelope_len(shot, st.current + operation_field_len(shot.ops[j])) > max
       THEN [parts |-> Append(st.parts, <<st.start, j - 1>>), start |-> j,
             current |-> operation_field_len(shot.ops[j])]
       ELSE [st EXCEPT !.current = @ + operation_field_len(shot.ops[j])],
           [parts |-> <<>>, start |-> 1, current |-> 0], at)
  BY <1>1, <1>2, <1>9 DEF Passes
<1>12. Packs(c, shot, at, max)
  BY <1>10, <1>11, Zenon DEF n, op, base, Packs
<1> QED BY <1>12 DEF n, T

\* Parts that are closed follow one another, fit, and do not with one operation more.
Closed(P, start, s, T, max) ==
  /\ \A j \in 1..Len(P) :
       /\ P[j][1] \in 1..Len(s.ops) /\ P[j][2] \in P[j][1]..(Len(s.ops) - 1)
       /\ Envelope(s, T, P[j][1], P[j][2]) <= max
       /\ Envelope(s, T, P[j][1], P[j][2] + 1) > max
  /\ \A j \in 2..Len(P) : P[j][1] = P[j - 1][2] + 1
  /\ Len(P) = 0 => start = 1
  /\ Len(P) > 0 => P[1][1] = 1 /\ start = P[Len(P)][2] + 1

\* After k operations.
PackedTo(st, k, s, T, max) ==
  /\ st \in PackStates
  /\ st.start \in 1..(k + 1) /\ (k >= 1 => st.start <= k)
  /\ st.current = T[k] - T[st.start - 1]
  /\ k >= 1 => Envelope(s, T, st.start, k) <= max
  /\ Closed(st.parts, st.start, s, T, max)

\* One operation more.
LEMMA PackStep ==
  ASSUME NEW s \in Snapshots, NEW T, Totals(T, s.ops), NEW max \in Nat,
         \A i \in 1..Len(s.ops) : Envelope(s, T, i, i) <= max,
         NEW k \in 1..Len(s.ops), NEW st, PackedTo(st, k - 1, s, T, max), NEW new,
         new = IF k > st.start /\ envelope_len(s, st.current + operation_field_len(s.ops[k])) > max
               THEN [parts |-> Append(st.parts, <<st.start, k - 1>>), start |-> k,
                     current |-> operation_field_len(s.ops[k])]
               ELSE [st EXCEPT !.current = @ + operation_field_len(s.ops[k])]
  PROVE  PackedTo(new, k, s, T, max)
<1> DEFINE n == Len(s.ops)
           len == operation_field_len(s.ops[k])
           P == st.parts
<1>1. s.ops \in Seq(Nat) /\ n \in Nat /\ k \in Nat /\ k >= 1 /\ k <= n /\ k \in 1..n
  BY FramingAssumption, SMTT(30)
<1>2. \A i \in 0..n : T[i] \in Nat
  BY DEF Totals
<1>3. T[k] = T[k - 1] + len /\ len \in Nat
  <2>1. s.ops[k] \in Nat
    BY <1>1
  <2> QED BY <2>1, LengthsTyped DEF Totals
<1>4. st \in PackStates /\ P \in Seq(Nat \X Nat) /\ st.start \in 1..k /\ st.start \in Nat
  <2>1. st \in PackStates /\ st.start \in 1..((k - 1) + 1)
    BY DEF PackedTo
  <2> QED BY <1>1, <2>1 DEF PackStates
<1>5. st.current = T[k - 1] - T[st.start - 1] /\ Closed(P, st.start, s, T, max)
  BY DEF PackedTo
<1> HIDE DEF n, len, P
<1> DEFINE b == st.start
<1>11. b \in Nat /\ b >= 1 /\ b <= k /\ n \in Nat /\ k \in Nat /\ k >= 1 /\ k <= n
  BY <1>1, <1>4
<1>6. T[k - 1] \in Nat /\ T[st.start - 1] \in Nat /\ T[k] \in Nat
  <2>1. k - 1 \in 0..n /\ k \in 0..n /\ b - 1 \in 0..n
    <3> HIDE DEF b
    <3> QED BY <1>11
  <2> QED BY <1>2, <2>1
<1>7. st.current + len = T[k] - T[st.start - 1]
  BY <1>3, <1>5, <1>6
<1>8. envelope_len(s, st.current + len) = Envelope(s, T, st.start, k)
  BY <1>7 DEF Envelope
<1>9. CASE ~(k > st.start /\ envelope_len(s, st.current + len) > max)
  <2>1. new = [st EXCEPT !.current = st.current + len]
    BY <1>9 DEF len
  <2>2. new.parts = P /\ new.start = st.start /\ new.current = st.current + len
    BY <1>4, <2>1 DEF PackStates, P
  <2>3. new \in PackStates
    <3>1. st.current \in Nat
      BY <1>4 DEF PackStates
    <3>2. st.current + len \in Nat
      BY <1>3, <3>1
    <3> QED BY <1>4, <2>1, <3>2 DEF PackStates
  <2>4. Envelope(s, T, st.start, k) <= max
    <3>1. CASE k > st.start
      <4>1. Envelope(s, T, st.start, k) \in Nat
        <5>1. st.start \in 1..(n + 1) /\ k \in (st.start - 1)..n
          BY <1>1, <1>4, SMTT(30)
        <5> QED BY <5>1, EnvelopeIs DEF n
      <4> QED BY <1>8, <1>9, <3>1, <4>1
    <3>2. CASE ~(k > st.start)
      <4>1. st.start = k
        BY <1>1, <1>4, <3>2
      <4> QED BY <1>1, <4>1 DEF n
    <3> QED BY <3>1, <3>2
  <2>5. st.start \in 1..(k + 1) /\ (k >= 1 => st.start <= k)
    BY <1>1, <1>4
  <2> QED BY <1>5, <1>7, <2>2, <2>3, <2>4, <2>5 DEF PackedTo
<1>10. CASE k > st.start /\ envelope_len(s, st.current + len) > max
  <2> DEFINE Q == Append(P, <<st.start, k - 1>>)
             m == Len(P)
  <2>1. new = [parts |-> Q, start |-> k, current |-> len]
    BY <1>10 DEF len, P
  <2>2. /\ Q \in Seq(Nat \X Nat) /\ Len(Q) = m + 1 /\ m \in Nat
        /\ Q[m + 1] = <<st.start, k - 1>> /\ \A j \in 1..m : Q[j] = P[j]
    <3>1. k - 1 \in Nat
      BY <1>1
    <3>2. <<st.start, k - 1>> \in Nat \X Nat
      BY <1>4, <3>1
    <3> QED BY <1>4, <3>2
  <2> HIDE DEF Q, m
  <2>3. new.parts = Q /\ new.start = k /\ new.current = len /\ new \in PackStates
    <3>1. Q \in Seq(Nat \X Nat) /\ k \in Nat /\ len \in Nat
      BY <1>1, <1>3, <2>2
    <3>2. [parts |-> Q, start |-> k, current |-> len] \in PackStates
      BY <3>1 DEF PackStates
    <3>3. new \in PackStates
      BY <2>1, <3>2, Zenon
    <3>4. new.parts = Q /\ new.start = k /\ new.current = len
      BY <2>1
    <3> QED BY <3>3, <3>4
  <2>4. new.current = T[k] - T[new.start - 1]
    BY <1>3, <1>6, <2>3
  <2>5. Envelope(s, T, k, k) <= max
    BY <1>1 DEF n
  <2>6. k - 1 >= 1 /\ Envelope(s, T, st.start, k - 1) <= max
    <3>1. k - 1 >= 1
      BY <1>1, <1>4, <1>10
    <3> QED BY <3>1 DEF PackedTo
  <2>7. Closed(Q, k, s, T, max)
    <3>1. ASSUME NEW j \in 1..(m + 1)
          PROVE  /\ Q[j][1] \in 1..n /\ Q[j][2] \in Q[j][1]..(n - 1)
                 /\ Envelope(s, T, Q[j][1], Q[j][2]) <= max
                 /\ Envelope(s, T, Q[j][1], Q[j][2] + 1) > max
      <4>1. CASE j \in 1..m
        BY <1>5, <2>2, <4>1 DEF Closed, m, n
      <4>2. CASE j = m + 1
        <5>1. Q[j][1] = st.start /\ Q[j][2] = k - 1 /\ (k - 1) + 1 = k
          BY <1>1, <2>2, <4>2, SMTT(30)
        <5>2. st.start \in 1..n /\ k - 1 \in st.start..(n - 1)
          <6>1. k > b
            BY <1>10
          <6> HIDE DEF b
          <6>2. b \in 1..n /\ k - 1 \in b..(n - 1)
            BY <1>11, <6>1
          <6> QED BY <6>2 DEF b
        <5>3. Envelope(s, T, st.start, k) > max
          BY <1>8, <1>10
        <5> QED BY <2>6, <5>1, <5>2, <5>3
      <4> QED BY <2>2, <4>1, <4>2
    <3>2. ASSUME NEW j \in 2..(m + 1) PROVE Q[j][1] = Q[j - 1][2] + 1
      <4>1. CASE j \in 2..m
        <5>1. j \in 1..m /\ j - 1 \in 1..m
          <6>1. m \in Nat
            BY <2>2
          <6> QED BY <6>1, <4>1
        <5> QED BY <1>5, <2>2, <4>1, <5>1 DEF Closed, m
      <4>2. CASE j = m + 1
        <5>1. m > 0 /\ j - 1 = m /\ m \in 1..m
          <6>1. m \in Nat
            BY <2>2
          <6> QED BY <6>1, <4>2
        <5>2. st.start = P[m][2] + 1
          BY <1>5, <5>1 DEF Closed, m
        <5> QED BY <2>2, <4>2, <5>1, <5>2
      <4> QED BY <2>2, <4>1, <4>2
    <3>3. Q[1][1] = 1
      <4>1. CASE m = 0
        BY <1>5, <2>2, <4>1 DEF Closed, m
      <4>2. CASE m > 0
        <5>1. 1 \in 1..m
          BY <2>2, <4>2
        <5> QED BY <1>5, <2>2, <4>2, <5>1 DEF Closed, m
      <4> QED BY <2>2, <4>1, <4>2
    <3>4. Len(Q) # 0 /\ Q[Len(Q)][2] = k - 1 /\ k = (k - 1) + 1
      <4>1. m \in Nat /\ Len(Q) = m + 1 /\ Q[m + 1] = <<st.start, k - 1>> /\ k \in Nat
        BY <1>1, <2>2
      <4>2. m + 1 # 0 /\ k = (k - 1) + 1
        BY <4>1
      <4> QED BY <4>1, <4>2
    <3> QED BY <2>2, <3>1, <3>2, <3>3, <3>4 DEF Closed, n
  <2>8. k \in 1..(k + 1) /\ (k >= 1 => k <= k)
    BY <1>1
  <2> QED BY <2>3, <2>4, <2>5, <2>7, <2>8 DEF PackedTo
<1> QED BY <1>9, <1>10

\* The parts of a packed snapshot.
LEMMA PackAll ==
  ASSUME NEW s \in Snapshots, NEW T, Totals(T, s.ops), NEW max \in Nat,
         \A i \in 1..Len(s.ops) : Envelope(s, T, i, i) <= max
  PROVE  PackedTo(Pack(s, max), Len(s.ops), s, T, max)
<1> DEFINE n == Len(s.ops)
           at == [j \in 1..Len(s.ops) |-> j]
<1>1. s.ops \in Seq(Nat) /\ n \in Nat /\ 0 \in 0..n /\ n \in 0..n
  BY FramingAssumption
<1>2. Len(at) = n /\ \A k \in 1..n : at[k] = k
  BY <1>1
<1>3. PICK c \in [0..Len(at) -> PackStates] : Packs(c, s, at, max)
  BY PackTrace
<1>4. c[n] = Pack(s, max)
  BY <1>2, <1>3, Zenon DEF Packs, Pack
<1>5. c[0] = [parts |-> <<>>, start |-> 1, current |-> 0] /\ \A k \in 1..n :
        c[k] = IF k > c[k - 1].start /\ envelope_len(s, c[k - 1].current + operation_field_len(s.ops[k])) > max
               THEN [parts |-> Append(c[k - 1].parts, <<c[k - 1].start, k - 1>>), start |-> k,
                     current |-> operation_field_len(s.ops[k])]
               ELSE [c[k - 1] EXCEPT !.current = @ + operation_field_len(s.ops[k])]
  <2>1. c[0] = [parts |-> <<>>, start |-> 1, current |-> 0]
    BY <1>3 DEF Packs
  <2> HIDE DEF at
  <2> QED BY <1>2, <1>3, <2>1, Zenon DEF Packs
<1> HIDE DEF at
<1> DEFINE S == {k \in 0..n : PackedTo(c[k], k, s, T, max)}
<1>6. 0 \in S
  <2>1. c[0].parts = <<>> /\ c[0].start = 1 /\ c[0].current = 0 /\ c[0] \in PackStates
    BY <1>1, <1>2, <1>3, <1>5
  <2>2. T[0] = 0
    BY DEF Totals
  <2>3. Closed(<<>>, 1, s, T, max)
    BY DEF Closed
  <2> QED BY <1>1, <2>1, <2>2, <2>3 DEF PackedTo
<1>7. ASSUME NEW k \in 1..n, k - 1 \in S PROVE k \in S
  <2>1. k \in 0..n
    BY <1>1
  <2>2. PackedTo(c[k - 1], k - 1, s, T, max)
    BY <1>7
  <2>3. PackedTo(c[k], k, s, T, max)
    BY <1>5, <2>2, PackStep
  <2> QED BY <2>1, <2>3
<1>8. n \in S
  <2> HIDE DEF S
  <2> QED BY <1>1, <1>6, <1>7, Counting
<1> QED BY <1>4, <1>8

\* Ranges that follow one another from the first operation to the last; only the
\* range of a plan with one envelope may be empty.
Partition(P, n) ==
  /\ P \in Seq(Nat \X Nat) /\ Len(P) >= 1
  /\ P[1][1] = 1 /\ P[Len(P)][2] = n
  /\ \A j \in 1..Len(P) : P[j][1] \in 1..(n + 1) /\ P[j][2] \in (P[j][1] - 1)..n
  /\ Len(P) > 1 => \A j \in 1..Len(P) : P[j][1] <= P[j][2]
  /\ \A j \in 2..Len(P) : P[j][1] = P[j - 1][2] + 1

\* The frame limit is one of the limits that were stated, and none is smaller.
LEMMA FrameLimitIs ==
  ASSUME NEW limits \in ClientLimits
  PROVE  /\ FrameLimit(limits) \in Nat /\ FrameLimit(limits) <= CodecLimit
         /\ limits.frame # 0 => FrameLimit(limits) <= limits.frame
<1> DEFINE stated == {CodecLimit} \cup ({ServerFrame, limits.frame} \ {0})
<1>1. CodecLimit \in Nat /\ ServerFrame \in Nat /\ limits.frame \in Nat
  BY FramingAssumption
<1>2. \E n \in stated : \A m \in stated : n <= m
  <2>1. CASE \A m \in stated : CodecLimit <= m
    BY <2>1
  <2>2. CASE \A m \in stated : ServerFrame <= m
    <3>1. CASE ServerFrame \in stated
      BY <2>2, <3>1
    <3>2. CASE ServerFrame \notin stated
      <4>1. ServerFrame = 0
        BY <3>2
      <4>2. \A m \in stated : m = CodecLimit \/ (m = limits.frame /\ m # 0)
        BY <4>1
      <4>3. CASE limits.frame # 0 /\ limits.frame <= CodecLimit
        BY <1>1, <4>2, <4>3
      <4>4. CASE ~(limits.frame # 0 /\ limits.frame <= CodecLimit)
        BY <1>1, <4>2, <4>4
      <4> QED BY <4>3, <4>4
    <3> QED BY <3>1, <3>2
  <2>3. CASE limits.frame # 0 /\ \A m \in stated : limits.frame <= m
    BY <2>3
  <2>4. CASE limits.frame = 0
    <3>1. \A m \in stated : m = CodecLimit \/ (m = ServerFrame /\ m # 0)
      BY <2>4
    <3>2. CASE ServerFrame # 0 /\ ServerFrame <= CodecLimit
      BY <1>1, <3>1, <3>2
    <3>3. CASE ~(ServerFrame # 0 /\ ServerFrame <= CodecLimit)
      BY <1>1, <3>1, <3>3
    <3> QED BY <3>2, <3>3
  <2>5. CASE limits.frame # 0 /\ ServerFrame = 0
    <3>1. \A m \in stated : m = CodecLimit \/ m = limits.frame
      BY <2>5
    <3>2. CASE limits.frame <= CodecLimit
      BY <1>1, <2>5, <3>1, <3>2
    <3>3. CASE ~(limits.frame <= CodecLimit)
      BY <1>1, <3>1, <3>3
    <3> QED BY <3>2, <3>3
  <2>6. CASE limits.frame # 0 /\ ServerFrame # 0
    <3>1. \A m \in stated : m = CodecLimit \/ m = limits.frame \/ m = ServerFrame
      OBVIOUS
    <3>2. \/ CodecLimit <= limits.frame /\ CodecLimit <= ServerFrame
          \/ limits.frame <= CodecLimit /\ limits.frame <= ServerFrame
          \/ ServerFrame <= CodecLimit /\ ServerFrame <= limits.frame
      BY <1>1
    <3> QED BY <1>1, <2>1, <2>2, <2>3, <2>6, <3>1, <3>2
  <2> QED BY <2>4, <2>5, <2>6
<1>3. FrameLimit(limits) = CHOOSE n \in stated : \A m \in stated : n <= m
  BY Zenon DEF FrameLimit
<1>4. FrameLimit(limits) \in stated /\ \A m \in stated : FrameLimit(limits) <= m
  <2> HIDE DEF stated
  <2> QED BY <1>2, <1>3
<1> QED BY <1>1, <1>4

\* What a plan that is not a refusal is.
Fits(P, s, limits) ==
  /\ Partition(P, Len(s.ops))
  /\ \A j \in 1..Len(P) : /\ EnvelopeOf(s, P[j]) \in Nat /\ EnvelopeOf(s, P[j]) >= 2
                          /\ EnvelopeOf(s, P[j]) <= FrameLimit(limits)
  /\ Len(P) <= AtLeastOne(limits.parts)
  /\ limits.ops # 0 => Len(s.ops) <= limits.ops

\* A split whose last part is open becomes a plan when that part is closed.
LEMMA ClosingFits ==
  ASSUME NEW s \in Snapshots, NEW T, Totals(T, s.ops), NEW max \in Nat, Len(s.ops) >= 1,
         NEW st, PackedTo(st, Len(s.ops), s, T, max), NEW P, P = Append(st.parts, <<st.start, Len(s.ops)>>)
  PROVE  /\ Partition(P, Len(s.ops))
         /\ Len(P) = Len(st.parts) + 1
         /\ \A j \in 1..Len(P) : /\ EnvelopeOf(s, P[j]) \in Nat /\ EnvelopeOf(s, P[j]) >= 2
                                 /\ EnvelopeOf(s, P[j]) <= max
<1> DEFINE n == Len(s.ops)
           Q == st.parts
           m == Len(Q)
           b == st.start
<1>1. n \in Nat /\ n >= 1
  BY FramingAssumption
<1>2. /\ Q \in Seq(Nat \X Nat) /\ b \in Nat /\ b >= 1 /\ b <= n
      /\ Envelope(s, T, b, n) <= max /\ Closed(Q, b, s, T, max)
  <2>1. st \in PackStates /\ st.start \in 1..(n + 1) /\ st.start <= n
        /\ Envelope(s, T, b, n) <= max /\ Closed(Q, b, s, T, max)
    BY <1>1 DEF PackedTo
  <2> QED BY <1>1, <2>1 DEF PackStates
<1> HIDE DEF n, Q, m, b
<1>3. /\ P \in Seq(Nat \X Nat) /\ Len(P) = m + 1 /\ m \in Nat
      /\ P[m + 1] = <<b, n>> /\ \A j \in 1..m : P[j] = Q[j]
  <2>1. P = Append(Q, <<b, n>>) /\ <<b, n>> \in Nat \X Nat
    BY <1>1, <1>2 DEF Q, b, n
  <2>2. Q \in Seq(Nat \X Nat)
    BY <1>2
  <2> DEFINE x == <<b, n>>
             V == Nat \X Nat
  <2>3. P = Append(Q, x) /\ x \in V /\ Q \in Seq(V)
    BY <2>1, <2>2
  <2> HIDE DEF x, V
  <2>4. Append(Q, x) \in Seq(V) /\ Len(Append(Q, x)) = Len(Q) + 1 /\ Len(Q) \in Nat
    BY <2>3
  <2>5. Append(Q, x)[Len(Q) + 1] = x /\ \A j \in 1..Len(Q) : Append(Q, x)[j] = Q[j]
    BY <2>3
  <2> QED BY <2>3, <2>4, <2>5 DEF m, x, V
<1>4. ASSUME NEW j \in 1..m
      PROVE  /\ P[j][1] \in 1..n /\ P[j][2] \in P[j][1]..(n - 1)
             /\ P[j] = <<P[j][1], P[j][2]>> /\ Envelope(s, T, P[j][1], P[j][2]) <= max
  <2>1. /\ Q[j][1] \in 1..n /\ Q[j][2] \in Q[j][1]..(n - 1)
        /\ Envelope(s, T, Q[j][1], Q[j][2]) <= max
    BY <1>2, <1>3 DEF Closed, m, n
  <2>2. Q[j] \in Nat \X Nat
    BY <1>2 DEF m
  <2>3. Q[j] = <<Q[j][1], Q[j][2]>>
    BY <2>2
  <2> QED BY <1>3, <2>1, <2>3
<1>5. ASSUME NEW j \in 1..(m + 1)
      PROVE  /\ P[j][1] \in Nat /\ P[j][2] \in Nat /\ P[j][1] >= 1 /\ P[j][1] <= P[j][2] /\ P[j][2] <= n
             /\ P[j] = <<P[j][1], P[j][2]>> /\ Envelope(s, T, P[j][1], P[j][2]) <= max
  <2>1. CASE j \in 1..m
    <3>1. /\ P[j][1] \in 1..n /\ P[j][2] \in P[j][1]..(n - 1)
          /\ P[j] = <<P[j][1], P[j][2]>> /\ Envelope(s, T, P[j][1], P[j][2]) <= max
      BY <1>4, <2>1
    <3> DEFINE x == P[j][1]
               y == P[j][2]
    <3>2. x \in 1..n /\ y \in x..(n - 1)
      BY <3>1
    <3> HIDE DEF x, y
    <3>3. x \in Nat /\ y \in Nat /\ x >= 1 /\ x <= y /\ y <= n
      BY <1>1, <3>2
    <3> QED BY <3>1, <3>3 DEF x, y
  <2>2. CASE j = m + 1
    BY <1>1, <1>2, <1>3, <2>2
  <2> QED BY <1>3, <2>1, <2>2, SMTT(30)
<1>6. ASSUME NEW j \in 1..(m + 1)
      PROVE  EnvelopeOf(s, P[j]) \in Nat /\ EnvelopeOf(s, P[j]) >= 2 /\ EnvelopeOf(s, P[j]) <= max
  <2> DEFINE x == P[j][1]
             y == P[j][2]
  <2>1. /\ x \in Nat /\ y \in Nat /\ x >= 1 /\ x <= y /\ y <= n
        /\ P[j] = <<x, y>> /\ Envelope(s, T, x, y) <= max
    BY <1>5
  <2> HIDE DEF x, y
  <2>2. x \in 1..(n + 1) /\ y \in (x - 1)..n
    BY <1>1, <2>1
  <2>3. EnvelopeOf(s, <<x, y>>) = Envelope(s, T, x, y) /\ Envelope(s, T, x, y) \in Nat /\ Envelope(s, T, x, y) >= 2
    BY <2>2, EnvelopeIs DEF n
  <2> QED BY <2>1, <2>3
<1>7. P[1][1] = 1
  <2>1. CASE m = 0
    BY <1>2, <1>3, <2>1 DEF Closed, m
  <2>2. CASE m > 0
    <3>1. 1 \in 1..m
      BY <1>3, <2>2
    <3> QED BY <1>2, <1>3, <2>2, <3>1 DEF Closed, m
  <2> QED BY <1>3, <2>1, <2>2
<1>8. ASSUME NEW j \in 2..(m + 1) PROVE P[j][1] = P[j - 1][2] + 1
  <2>0. m \in Nat
    BY <1>3
  <2>1. CASE j \in 2..m
    <3>1. j \in 1..m /\ j - 1 \in 1..m
      BY <2>0, <2>1
    <3> QED BY <1>2, <1>3, <2>1, <3>1 DEF Closed, m
  <2>2. CASE j = m + 1
    <3>1. m > 0 /\ j - 1 = m /\ m \in 1..m
      BY <2>0, <2>2
    <3>2. b = Q[m][2] + 1
      BY <1>2, <3>1 DEF Closed, m
    <3> QED BY <1>3, <2>2, <3>1, <3>2, SMTT(30)
  <2>3. j \in 2..m \/ j = m + 1
    BY <2>0
  <2> QED BY <2>1, <2>2, <2>3
<1>9. \A j \in 1..(m + 1) : P[j][1] \in 1..(n + 1) /\ P[j][2] \in (P[j][1] - 1)..n /\ P[j][1] <= P[j][2]
  <2> SUFFICES ASSUME NEW j \in 1..(m + 1)
               PROVE  P[j][1] \in 1..(n + 1) /\ P[j][2] \in (P[j][1] - 1)..n /\ P[j][1] <= P[j][2]
    OBVIOUS
  <2> DEFINE x == P[j][1]
             y == P[j][2]
  <2>1. x \in Nat /\ y \in Nat /\ x >= 1 /\ x <= y /\ y <= n
    BY <1>5
  <2> HIDE DEF x, y
  <2>2. x \in 1..(n + 1) /\ y \in (x - 1)..n /\ x <= y
    BY <1>1, <2>1
  <2> QED BY <2>2 DEF x, y
<1>10. Partition(P, n)
  <2>1. m + 1 >= 1 /\ P[m + 1][2] = n
    BY <1>3
  <2> QED BY <1>3, <1>7, <1>8, <1>9, <2>1 DEF Partition
<1> QED BY <1>3, <1>6, <1>10 DEF n, m, Q

\* A plan that is not a refusal fits the client.
LEMMA PlanFits ==
  ASSUME NEW s \in Snapshots, NEW limits \in ClientLimits, NEW P,
         P = plan_snapshot_delivery(s, limits), P # <<>>
  PROVE  Fits(P, s, limits)
<1> DEFINE n == Len(s.ops)
           max == FrameLimit(limits)
           st == Pack(s, max)
           parts == Append(st.parts, <<st.start, n>>)
<1>1. n \in Nat /\ s.ops \in Seq(Nat) /\ limits.parts \in Nat /\ max \in Nat
  BY FramingAssumption, FrameLimitIs
<1>2. limits.ops # 0 => n <= limits.ops
  <2>1. limits.ops \in Nat
    BY FramingAssumption
  <2>2. ~(limits.ops # 0 /\ n > limits.ops)
    BY DEF plan_snapshot_delivery
  <2> QED BY <1>1, <2>1, <2>2
<1>3. P = IF EnvelopeOf(s, <<1, n>>) <= max THEN Single(n)
          ELSE IF \E i \in 1..n : EnvelopeOf(s, <<i, i>>) > max THEN <<>>
          ELSE IF Len(parts) > AtLeastOne(limits.parts) THEN <<>>
          ELSE parts
  <2>1. P = plan_snapshot_frames(s, max, limits.parts)
    BY DEF plan_snapshot_delivery
  <2> QED BY <2>1, Zenon DEF plan_snapshot_frames
<1>4. PICK T : Totals(T, s.ops)
  BY <1>1, TotalsExist
<1>5. AtLeastOne(limits.parts) \in Nat \ {0}
  BY <1>1 DEF AtLeastOne
<1> HIDE DEF n, max, st, parts
<1>6. CASE EnvelopeOf(s, <<1, n>>) <= max
  <2>1. P = <<<<1, n>>>>
    BY <1>3, <1>6 DEF Single
  <2>2. P \in Seq(Nat \X Nat) /\ Len(P) = 1 /\ P[1] = <<1, n>>
    <3>1. <<1, n>> \in Nat \X Nat
      BY <1>1
    <3> QED BY <2>1, <3>1
  <2>3. 1 \in 1..(n + 1) /\ n \in 0..n /\ n \in (1 - 1)..n
    BY <1>1
  <2>4. Partition(P, n)
    BY <2>2, <2>3 DEF Partition
  <2>5. EnvelopeOf(s, <<1, n>>) \in Nat /\ EnvelopeOf(s, <<1, n>>) >= 2
    <3>1. EnvelopeOf(s, <<1, n>>) = Envelope(s, T, 1, n) /\ Envelope(s, T, 1, n) \in Nat
          /\ Envelope(s, T, 1, n) >= 2
      BY <1>4, <2>3, EnvelopeIs DEF n
    <3> QED BY <3>1
  <2>6. \A j \in 1..Len(P) : j = 1
    BY <2>2
  <2>7. 1 <= AtLeastOne(limits.parts)
    BY <1>5
  <2> QED BY <1>2, <1>6, <2>2, <2>4, <2>5, <2>6, <2>7 DEF Fits, n, max
<1>7. CASE ~(EnvelopeOf(s, <<1, n>>) <= max)
  <2>1. n >= 1
    <3>1. CASE n = 0
      <4>1. s.ops = <<>>
        BY <1>1, <3>1 DEF n
      <4> QED BY <1>7, <3>1, <4>1, EmptyFits DEF max
    <3> QED BY <1>1, <3>1
  <2>2. /\ ~\E i \in 1..n : EnvelopeOf(s, <<i, i>>) > max
        /\ ~(Len(parts) > AtLeastOne(limits.parts)) /\ P = parts
    BY <1>3, <1>7
  <2>3. ASSUME NEW i \in 1..n PROVE Envelope(s, T, i, i) <= max
    <3>1. i \in 1..(n + 1) /\ i \in (i - 1)..n
      BY <1>1
    <3>2. EnvelopeOf(s, <<i, i>>) = Envelope(s, T, i, i) /\ Envelope(s, T, i, i) \in Nat
      BY <1>4, <3>1, EnvelopeIs DEF n
    <3>3. ~(EnvelopeOf(s, <<i, i>>) > max)
      BY <2>2
    <3> QED BY <1>1, <3>2, <3>3
  <2>4. PackedTo(st, n, s, T, max)
    BY <1>1, <1>4, <2>3, PackAll DEF st, n
  <2>5. /\ Partition(P, n) /\ Len(P) = Len(st.parts) + 1
        /\ \A j \in 1..Len(P) : /\ EnvelopeOf(s, P[j]) \in Nat /\ EnvelopeOf(s, P[j]) >= 2
                                /\ EnvelopeOf(s, P[j]) <= max
    BY <1>1, <1>4, <2>1, <2>2, <2>4, ClosingFits, ZenonT(60) DEF n, parts
  <2>6. Len(P) <= AtLeastOne(limits.parts)
    <3>1. Len(P) \in Nat
      BY <2>5 DEF Partition
    <3> QED BY <1>5, <2>2, <3>1
  <2> QED BY <1>2, <2>5, <2>6 DEF Fits, n, max
<1> QED BY <1>6, <1>7

\* The envelope of a split in which an operation travels.
LEMMA BlockOf ==
  ASSUME NEW n \in Nat, NEW cuts \in SUBSET (1..(n - 1)), NEW i \in 1..n
  PROVE  \E lo \in 1..i, hi \in i..n :
           /\ lo \in {1} \cup {c + 1 : c \in cuts} /\ hi \in cuts \cup {n}
           /\ \A c \in cuts : c < lo \/ c >= hi
<1> DEFINE below == {c \in cuts : c < i}
           above == {c \in cuts \cup {n} : c >= i}
<1>0. \A c \in cuts : c \in Nat /\ c >= 1 /\ c < n
  OBVIOUS
<1>1. PICK lo \in 1..i : lo \in {1} \cup {c + 1 : c \in cuts} /\ \A c \in below : c < lo
  <2>1. CASE below = {}
    <3>1. 1 \in 1..i
      OBVIOUS
    <3> QED BY <2>1, <3>1
  <2>2. CASE below # {}
    <3> DEFINE x == Max(below)
    <3>1. below \in SUBSET (1..n)
      <4>1. \A c \in below : c \in 1..n
        BY <1>0
      <4> QED BY <4>1
    <3>2. x \in below /\ \A c \in below : c <= x
      <4> HIDE DEF below
      <4> QED BY <2>2, <3>1, MaxOfPositions
    <3> HIDE DEF x
    <3>3. x \in cuts /\ x + 1 \in 1..i /\ x \in Nat
      BY <3>2
    <3>4. \A c \in below : c < x + 1
      BY <3>2, <3>3
    <3> HIDE DEF below
    <3> QED BY <3>3, <3>4
  <2> QED BY <2>1, <2>2
<1>2. PICK hi \in above : \A c \in above : hi <= c
  <2>1. above \in SUBSET Nat
    BY <1>0
  <2>2. n \in above
    OBVIOUS
  <2> HIDE DEF above
  <2> QED BY <2>1, <2>2, LeastExists
<1>3. hi \in i..n /\ hi \in cuts \cup {n}
  BY <1>2
<1>4. \A c \in cuts : c < lo \/ c >= hi
  <2> SUFFICES ASSUME NEW c \in cuts PROVE c < lo \/ c >= hi
    OBVIOUS
  <2>1. c \in below \/ c \in above
    OBVIOUS
  <2>2. c \in Nat /\ hi \in Nat
    BY <1>3
  <2>3. CASE c \in below
    BY <1>1, <2>3
  <2>4. CASE c \in above
    <3>1. hi <= c
      BY <1>2, <2>4
    <3> QED BY <2>2, <3>1
  <2> QED BY <2>1, <2>3, <2>4
<1> QED BY <1>1, <1>3, <1>4

\* A split of the snapshot in which every envelope fits a frame.
FitsCut(s, max, cuts) ==
  \A i \in {1} \cup {c + 1 : c \in cuts} : \A j \in (cuts \cup {Len(s.ops)}) :
    (i <= j /\ ~\E c \in cuts : i <= c /\ c < j) => EnvelopeOf(s, <<i, j>>) <= max

\* A split that fits cuts a stretch that does not.
LEMMA CutsIn ==
  ASSUME NEW s \in Snapshots, NEW T, Totals(T, s.ops), NEW max \in Nat, NEW n, n = Len(s.ops),
         NEW cuts \in SUBSET (1..(n - 1)), FitsCut(s, max, cuts),
         NEW a \in 1..n, NEW b \in a..n, Envelope(s, T, a, b) > max
  PROVE  \E c \in cuts : a <= c /\ c < b
<1> SUFFICES ASSUME ~\E c \in cuts : a <= c /\ c < b PROVE FALSE
  OBVIOUS
<1>1. n \in Nat
  BY FramingAssumption
<1>2. PICK lo \in 1..a, hi \in a..n :
        /\ lo \in {1} \cup {c + 1 : c \in cuts} /\ hi \in cuts \cup {n}
        /\ \A c \in cuts : c < lo \/ c >= hi
  BY <1>1, BlockOf
<1>3. /\ lo \in Nat /\ hi \in Nat /\ a \in Nat /\ b \in Nat
      /\ lo >= 1 /\ lo <= a /\ a <= hi /\ hi <= n /\ a <= b /\ b <= n
  BY <1>1
<1>4. hi >= b
  <2>1. CASE hi = n
    BY <1>3, <2>1
  <2>2. CASE hi \in cuts
    BY <1>3, <2>2
  <2> QED BY <1>2, <2>1, <2>2
<1>5. ~\E c \in cuts : lo <= c /\ c < hi
  <2>1. cuts \subseteq Nat
    BY <1>1
  <2> QED BY <1>2, <1>3, <2>1
<1>6. EnvelopeOf(s, <<lo, hi>>) <= max
  <2>1. lo <= hi
    BY <1>3
  <2> QED BY <1>2, <1>5, <2>1 DEF FitsCut
<1>7. /\ a \in 1..(n + 1) /\ b \in (a - 1)..n /\ lo \in 1..a /\ hi \in b..n
      /\ lo \in 1..(n + 1) /\ hi \in (lo - 1)..n
  BY <1>1, <1>3, <1>4
<1>8. Envelope(s, T, a, b) <= Envelope(s, T, lo, hi)
  BY <1>7, EnvelopeWider
<1>9. EnvelopeOf(s, <<lo, hi>>) = Envelope(s, T, lo, hi) /\ Envelope(s, T, lo, hi) \in Nat
  BY <1>7, EnvelopeIs
<1>10. Envelope(s, T, a, b) \in Nat
  BY <1>7, EnvelopeIs
<1> DEFINE x == Envelope(s, T, a, b)
           y == Envelope(s, T, lo, hi)
<1>11. x \in Nat /\ y \in Nat /\ x <= y /\ y <= max /\ x > max
  BY <1>6, <1>8, <1>9, <1>10
<1> HIDE DEF x, y
<1> QED BY <1>11

\* The parts that are closed do not overlap.
LEMMA ClosedApart ==
  ASSUME NEW s \in Snapshots, NEW T, NEW max, NEW start, NEW P \in Seq(Nat \X Nat),
         Closed(P, start, s, T, max), NEW i \in 1..Len(P), NEW j \in 1..Len(P), i < j
  PROVE  P[i][2] < P[j][1]
<1> DEFINE n == Len(P) - i
           S == {k \in 0..n : k >= 1 => P[i][2] < P[i + k][1]}
<1>1. Len(P) \in Nat /\ n \in Nat /\ i \in Nat /\ j \in Nat /\ i >= 1 /\ i <= Len(P) /\ j - i \in 0..n
      /\ j - i >= 1 /\ i + (j - i) = j
  OBVIOUS
<1>2. \A k \in 1..Len(P) : P[k][1] \in Nat /\ P[k][2] \in Nat /\ P[k][1] <= P[k][2]
  <2> SUFFICES ASSUME NEW k \in 1..Len(P)
               PROVE  P[k][1] \in Nat /\ P[k][2] \in Nat /\ P[k][1] <= P[k][2]
    OBVIOUS
  <2>1. P[k] \in Nat \X Nat
    OBVIOUS
  <2>2. P[k][1] \in Nat /\ P[k][2] \in Nat
    BY <2>1
  <2> DEFINE x == P[k][1]
             y == P[k][2]
             m == Len(s.ops)
  <2>5. m \in Nat
    BY FramingAssumption
  <2>6. x \in 1..m /\ y \in x..(m - 1)
    BY DEF Closed
  <2>3. x \in 1..m /\ y \in x..(m - 1) /\ x \in Nat /\ y \in Nat /\ m \in Nat
    BY <2>2, <2>5, <2>6
  <2> HIDE DEF x, y, m
  <2>4. x <= y
    BY <2>3
  <2> QED BY <2>2, <2>4 DEF x, y
<1>3. 0 \in S
  BY <1>1
<1>4. ASSUME NEW k \in 1..n, k - 1 \in S PROVE k \in S
  <2>1. /\ k \in 0..n /\ i + k \in 1..Len(P) /\ i + k \in 2..Len(P) /\ (i + k) - 1 = i + (k - 1)
        /\ i + (k - 1) \in 1..Len(P)
    BY <1>1
  <2>2. P[i + k][1] = P[i + (k - 1)][2] + 1
    BY <2>1 DEF Closed
  <2> DEFINE x == P[i + (k - 1)][1]
             y == P[i + (k - 1)][2]
             z == P[i][2]
  <2>3. x \in Nat /\ y \in Nat /\ z \in Nat /\ x <= y
    BY <1>1, <1>2, <2>1
  <2>4. z <= y
    <3>1. CASE k = 1
      <4>1. i + (k - 1) = i
        BY <1>1, <3>1
      <4> QED BY <2>3, <4>1
    <3>2. CASE k # 1
      <4>1. k - 1 >= 1
        BY <1>1, <3>2
      <4>2. z < x
        BY <1>4, <4>1
      <4> HIDE DEF x, y, z
      <4> QED BY <2>3, <4>2
    <3> QED BY <3>1, <3>2
  <2>5. z < y + 1
    <3> HIDE DEF x, y, z
    <3> QED BY <2>3, <2>4
  <2>6. P[i][2] < P[i + k][1]
    BY <2>2, <2>5
  <2> QED BY <2>1, <2>6
<1>5. j - i \in S
  <2> HIDE DEF S, n
  <2> QED BY <1>1, <1>3, <1>4, Counting
<1> QED BY <1>1, <1>5

\* A split that fits has a cut in every part that is closed.
LEMMA CutsMany ==
  ASSUME NEW s \in Snapshots, NEW T, Totals(T, s.ops), NEW max \in Nat, NEW n, n = Len(s.ops),
         NEW start, NEW P \in Seq(Nat \X Nat), Closed(P, start, s, T, max),
         NEW cuts \in SUBSET (1..(n - 1)), FitsCut(s, max, cuts)
  PROVE  Cardinality(cuts) \in Nat /\ Len(P) <= Cardinality(cuts)
<1> DEFINE m == Len(P)
           f == [j \in 1..m |-> CHOOSE c \in cuts : P[j][1] <= c /\ c <= P[j][2]]
<1>1. n \in Nat /\ m \in Nat
  BY FramingAssumption
<1>2. IsFiniteSet(cuts) /\ Cardinality(cuts) \in Nat
  <2>0. n - 1 \in Int /\ 1 \in Int
    BY <1>1
  <2>1. IsFiniteSet(1..(n - 1))
    BY <2>0, FS_Interval
  <2> QED BY <2>1, FS_Subset, FS_CardinalityType
<1>3. ASSUME NEW j \in 1..m
      PROVE  /\ P[j][1] \in Nat /\ P[j][2] \in Nat
             /\ f[j] \in cuts /\ P[j][1] <= f[j] /\ f[j] <= P[j][2]
  <2> DEFINE a == P[j][1]
             b == P[j][2]
  <2>1. a \in 1..n /\ b \in a..(n - 1) /\ Envelope(s, T, a, b + 1) > max
    BY DEF Closed
  <2> HIDE DEF a, b
  <2>2. a \in Nat /\ b \in Nat /\ b + 1 \in a..n
    BY <1>1, <2>1
  <2>3. PICK c \in cuts : a <= c /\ c < b + 1
    <3> DEFINE d == b + 1
    <3>1. d \in a..n /\ a \in 1..n /\ Envelope(s, T, a, d) > max
      BY <2>1, <2>2
    <3> HIDE DEF d, f, m
    <3>2. \E c \in cuts : a <= c /\ c < d
      <4>1. cuts \in SUBSET (1..(n - 1)) /\ FitsCut(s, max, cuts) /\ n = Len(s.ops) /\ Totals(T, s.ops)
            /\ s \in Snapshots /\ max \in Nat
        OBVIOUS
      <4> QED BY ONLY <3>1, <4>1, CutsIn
    <3> QED BY <3>2 DEF d
  <2>4. c \in Nat /\ c <= b
    BY <1>1, <2>2, <2>3
  <2>5. \E x \in cuts : a <= x /\ x <= b
    BY <2>3, <2>4
  <2>6. f[j] = CHOOSE x \in cuts : a <= x /\ x <= b
    BY DEF a, b
  <2> HIDE DEF f
  <2>7. f[j] \in cuts /\ a <= f[j] /\ f[j] <= b
    BY <2>5, <2>6
  <2> QED BY <2>2, <2>7 DEF a, b
<1>4. f \in [1..m -> cuts]
  BY <1>3
<1> HIDE DEF f
<1>5. ASSUME NEW i \in 1..m, NEW j \in 1..m, i < j PROVE f[i] # f[j]
  <2>1. P[i][2] < P[j][1]
    BY <1>5, ClosedApart
  <2> DEFINE x == P[i][2]
             y == P[j][1]
  <2>2. x \in Nat /\ y \in Nat /\ x < y /\ f[i] <= x /\ y <= f[j] /\ f[i] \in cuts /\ f[j] \in cuts
    BY <1>3, <2>1
  <2>4. \A c \in cuts : c \in Nat
    BY <1>1
  <2>3. f[i] \in Nat /\ f[j] \in Nat
    BY <2>2, <2>4
  <2> HIDE DEF x, y
  <2> QED BY <2>2, <2>3, SMTT(30)
<1>6. \A i, j \in 1..m : f[i] = f[j] => i = j
  <2> SUFFICES ASSUME NEW i \in 1..m, NEW j \in 1..m, f[i] = f[j] PROVE i = j
    OBVIOUS
  <2>1. ~(i < j) /\ ~(j < i)
    BY <1>5
  <2> QED BY <1>1, <2>1
<1>7. f \in Injection(1..m, cuts)
  BY <1>4, <1>6 DEF Injection, IsInjective
<1>8. Cardinality(1..m) = m /\ IsFiniteSet(1..m)
  <2>1. m \in Int /\ 1 \in Int /\ (IF 1 > m THEN 0 ELSE m - 1 + 1) = m
    BY <1>1
  <2> HIDE DEF m
  <2> QED BY <2>1, FS_Interval
<1>9. Cardinality(1..m) <= Cardinality(cuts)
  BY <1>2, <1>7, <1>8, FS_Injection
<1> QED BY <1>2, <1>8, <1>9

\* Some split of the snapshot fits the client.
DeliverableTo(s, limits) ==
  /\ limits.ops # 0 => Len(s.ops) <= limits.ops
  /\ \E cuts \in SUBSET (1..(Len(s.ops) - 1)) :
       Cardinality(cuts) + 1 <= AtLeastOne(limits.parts) /\ FitsCut(s, FrameLimit(limits), cuts)

\* A refusal is right.
LEMMA RefusedRightly ==
  ASSUME NEW s \in Snapshots, NEW limits \in ClientLimits, plan_snapshot_delivery(s, limits) = <<>>
  PROVE  ~DeliverableTo(s, limits)
<1> DEFINE n == Len(s.ops)
           max == FrameLimit(limits)
           st == Pack(s, max)
           parts == Append(st.parts, <<st.start, n>>)
<1>1. /\ n \in Nat /\ s.ops \in Seq(Nat) /\ limits.parts \in Nat /\ max \in Nat /\ limits.ops \in Nat
      /\ AtLeastOne(limits.parts) \in Nat
  BY FramingAssumption, FrameLimitIs DEF AtLeastOne
<1>2. CASE limits.ops # 0 /\ n > limits.ops
  BY <1>1, <1>2 DEF DeliverableTo
<1>3. CASE ~(limits.ops # 0 /\ n > limits.ops)
  <2> SUFFICES ASSUME NEW cuts \in SUBSET (1..(n - 1)), Cardinality(cuts) + 1 <= AtLeastOne(limits.parts),
                      FitsCut(s, max, cuts)
               PROVE  FALSE
    BY DEF DeliverableTo
  <2>1. <<>> = IF EnvelopeOf(s, <<1, n>>) <= max THEN Single(n)
          ELSE IF \E i \in 1..n : EnvelopeOf(s, <<i, i>>) > max THEN <<>>
          ELSE IF Len(parts) > AtLeastOne(limits.parts) THEN <<>>
          ELSE parts
    <3>1. <<>> = plan_snapshot_frames(s, max, limits.parts)
      BY <1>3 DEF plan_snapshot_delivery
    <3> QED BY <3>1, Zenon DEF plan_snapshot_frames
  <2>2. PICK T : Totals(T, s.ops)
    BY <1>1, TotalsExist
  <2>3. Single(n) # <<>>
    <3> DEFINE x == Single(n)
    <3>1. Len(x) = 1
      BY DEF Single
    <3> HIDE DEF x
    <3>2. x # <<>>
      BY <3>1
    <3> QED BY <3>2 DEF x
  <2> HIDE DEF n, max, st, parts
  <2>4. ASSUME NEW i \in 1..n
        PROVE  EnvelopeOf(s, <<i, i>>) = Envelope(s, T, i, i) /\ Envelope(s, T, i, i) \in Nat
    <3>1. i \in 1..(n + 1) /\ i \in (i - 1)..n
      BY <1>1
    <3> QED BY <2>2, <3>1, EnvelopeIs DEF n
  <2>5. ASSUME NEW i \in 1..n PROVE Envelope(s, T, i, i) <= max
    <3> SUFFICES ASSUME ~(Envelope(s, T, i, i) <= max) PROVE FALSE
      OBVIOUS
    <3>1. Envelope(s, T, i, i) > max
      <4> DEFINE x == Envelope(s, T, i, i)
      <4>1. x \in Nat /\ max \in Nat /\ ~(x <= max)
        BY <1>1, <2>4
      <4> HIDE DEF x
      <4>2. x > max
        BY <4>1
      <4> QED BY <4>2 DEF x
    <3>2. i \in i..n /\ i \in Nat
      BY <1>1
    <3>3. \E c \in cuts : i <= c /\ c < i
      <4>1. cuts \in SUBSET (1..(n - 1)) /\ FitsCut(s, max, cuts)
        BY DEF n, max
      <4> QED BY <1>1, <2>2, <3>1, <3>2, <4>1, CutsIn DEF n
    <3>4. PICK c \in cuts : i <= c /\ c < i
      BY <3>3
    <3>5. c \in Nat
      BY <1>1 DEF n
    <3> QED BY <3>2, <3>4, <3>5
  <2>6. ~\E i \in 1..n : EnvelopeOf(s, <<i, i>>) > max
    <3> SUFFICES ASSUME NEW i \in 1..n, EnvelopeOf(s, <<i, i>>) > max PROVE FALSE
      OBVIOUS
    <3> DEFINE x == EnvelopeOf(s, <<i, i>>)
    <3>1. x \in Nat /\ max \in Nat /\ x <= max /\ x > max
      BY <1>1, <2>4, <2>5
    <3> HIDE DEF x
    <3> QED BY <3>1
  <2>7. PackedTo(st, n, s, T, max)
    BY <1>1, <2>2, <2>5, PackAll DEF st, n
  <2>8. st.parts \in Seq(Nat \X Nat) /\ Closed(st.parts, st.start, s, T, max)
    BY <2>7 DEF PackedTo, PackStates
  <2>9. Cardinality(cuts) \in Nat /\ Len(st.parts) <= Cardinality(cuts)
    <3>1. cuts \in SUBSET (1..(n - 1)) /\ FitsCut(s, max, cuts)
      BY DEF n, max
    <3> QED BY <1>1, <2>2, <2>8, <3>1, CutsMany DEF n
  <2>10. Len(parts) = Len(st.parts) + 1 /\ Len(st.parts) \in Nat
    <3> DEFINE x == <<st.start, n>>
    <3>1. parts = Append(st.parts, x)
      BY DEF parts
    <3> HIDE DEF x
    <3> QED BY <2>8, <3>1
  <2>11. ~(Len(parts) > AtLeastOne(limits.parts))
    BY <1>1, <2>9, <2>10
  <2>12. parts # <<>>
    BY <2>10
  <2>13. ~(EnvelopeOf(s, <<1, n>>) <= max)
    BY <2>1, <2>3
  <2>14. <<>> = parts
    BY <2>1, <2>6, <2>11, <2>13
  <2> QED BY <2>12, <2>14
<1> QED BY <1>2, <1>3

-----------------------------------------------------------------------------
(* Snapshot framing: the wire *)

Frames == [kind : {"part", "live"}, range : Nat \X Nat, header : Nat \ {0}, payload : Nat]

\* c holds the bytes of the first frames.
Counts(c, frames) ==
  /\ c[0] = 0 /\ c[Len(frames)] = BytesOf(frames)
  /\ \A k \in 1..Len(frames) :
       c[k] = c[k - 1] + frames[k].header + frames[k].payload

\* The fold goes through such states.
LEMMA BytesTrace ==
  ASSUME NEW frames \in Seq(Frames)
  PROVE  \E c \in [0..Len(frames) -> Nat] : Counts(c, frames)
<1> DEFINE n == Len(frames)
           T == Nat
           op(a, i) == a + frames[i].header + frames[i].payload
           step == [p \in T \X (1..n) |-> op(p[1], p[2])]
           it == CHOOSE f : f = [s \in SUBSET DOMAIN frames |->
                   IF s = {} THEN 0 ELSE op(f[s \ {Max(s)}], Max(s))]
<1>1. n \in Nat /\ DOMAIN frames = 1..n /\ 0 \in T
  OBVIOUS
<1>2. BytesOf(frames) = it[DOMAIN frames]
  BY Zenon DEF BytesOf, FoldLeft, MapThenFoldSet
<1>3. step \in [T \X (1..n) -> T] /\ \A a \in T, i \in 1..n : step[<<a, i>>] = op(a, i)
  <2>1. ASSUME NEW a \in T, NEW i \in 1..n PROVE op(a, i) \in T
    
    <3>1. frames[i] \in Frames
      OBVIOUS
    <3>2. frames[i].header \in Nat /\ frames[i].payload \in Nat
      BY <3>1 DEF Frames
    <3> QED BY <3>2
  <2> HIDE DEF op, T, n
  <2> QED BY <2>1
<1> HIDE DEF op, step, T, n
<1>4. PICK g \in [SUBSET (1..n) -> T] : Solves(g, 0, step, n)
  BY <1>1, <1>3, FoldExists
<1>5. \A s \in SUBSET (1..n) : s # {} => Max(s) \in 1..n /\ s \ {Max(s)} \in SUBSET (1..n)
  BY <1>1, MaxOfPositions
<1>6. g = [s \in SUBSET DOMAIN frames |-> IF s = {} THEN 0 ELSE op(g[s \ {Max(s)}], Max(s))]
  <2>1. ASSUME NEW s \in SUBSET (1..n)
        PROVE  g[s] = IF s = {} THEN 0 ELSE op(g[s \ {Max(s)}], Max(s))
    <3>1. CASE s = {}
      BY <1>4, <3>1 DEF Solves
    <3>2. CASE s # {}
      <4>1. g[s \ {Max(s)}] \in T /\ Max(s) \in 1..n
        BY <1>4, <1>5, <3>2
      <4>2. g[s] = step[<<g[s \ {Max(s)}], Max(s)>>]
        BY <1>4, <3>2 DEF Solves
      <4> QED BY <1>3, <3>2, <4>1, <4>2
    <3> QED BY <3>1, <3>2
  <2> QED BY <1>1, <1>4, <2>1
<1>7. it = [s \in SUBSET DOMAIN frames |-> IF s = {} THEN 0 ELSE op(it[s \ {Max(s)}], Max(s))]
  BY <1>6, Zenon
<1> HIDE DEF it
<1>8. Iterates(it, 0, step, T, n)
  BY <1>1, <1>3, <1>5, <1>7 DEF Iterates
<1>9. PICK c \in [0..n -> T] : Passes(c, 0, step, n, it[1..n])
  BY <1>1, <1>3, <1>8, FoldTrace
<1>10. ASSUME NEW k \in 1..n PROVE c[k] = op(c[k - 1], k)
  <2>1. k - 1 \in 0..n
    BY <1>1
  <2> QED BY <1>3, <1>9, <2>1 DEF Passes
<1>11. c[0] = 0 /\ c[n] = BytesOf(frames)
  BY <1>1, <1>2, <1>9 DEF Passes
<1>12. Counts(c, frames)
  BY <1>10, <1>11, Zenon DEF n, op, Counts
<1> QED BY <1>12 DEF n, T

\* A stretch of a sequence.
Slice(F, r, w) == [k \in 1..(w - r) |-> F[r + k]]

\* The bytes of what is left of a sequence when its first d frames are taken.
LEMMA BytesShift ==
  ASSUME NEW g \in Seq(Frames), NEW h \in Seq(Frames), NEW d \in Nat, Len(h) + d <= Len(g),
         \A k \in 1..Len(h) : h[k] = g[d + k],
         NEW c \in [0..Len(g) -> Nat], Counts(c, g), NEW e \in [0..Len(h) -> Nat], Counts(e, h)
  PROVE  c[d + Len(h)] = c[d] + e[Len(h)]
<1> DEFINE n == Len(h)
           m == Len(g)
           S == {k \in 0..n : c[d + k] = c[d] + e[k]}
<1>1. n \in Nat /\ m \in Nat /\ n + d <= m
  OBVIOUS
<1>2. /\ \A k \in 0..m : c[k] \in Nat
      /\ \A k \in 0..n : e[k] \in Nat
      /\ e[0] = 0 /\ (\A k \in 1..m : c[k] = c[k - 1] + g[k].header + g[k].payload)
      /\ \A k \in 1..n : e[k] = e[k - 1] + h[k].header + h[k].payload
  BY DEF Counts
<1>3. \A k \in 1..n : h[k].header \in Nat /\ h[k].payload \in Nat /\ h[k] = g[d + k]
  <2>1. \A k \in 1..n : h[k] \in Frames /\ h[k] = g[d + k]
    OBVIOUS
  <2> QED BY <2>1 DEF Frames
<1> HIDE DEF n, m
<1>4. 0 \in S
  <2>1. d + 0 = d /\ d \in 0..m /\ 0 \in 0..n
    BY <1>1
  <2>2. c[d] \in Nat
    BY <1>2, <2>1
  <2>3. c[d + 0] = c[d] + e[0]
    BY <1>2, <2>1, <2>2
  <2> QED BY <2>1, <2>3
<1>5. ASSUME NEW k \in 1..n, k - 1 \in S PROVE k \in S
  <2>1. k \in 0..n /\ k - 1 \in 0..n /\ d + k \in 1..m /\ (d + k) - 1 = d + (k - 1) /\ d + (k - 1) \in 0..m
        /\ d \in 0..m
    BY <1>1
  <2> DEFINE x == h[k].header
             y == h[k].payload
             p == c[d + (k - 1)]
             q == e[k - 1]
             z == c[d]
  <2>2. x \in Nat /\ y \in Nat /\ p \in Nat /\ q \in Nat /\ z \in Nat /\ p = z + q
    BY <1>2, <1>3, <1>5, <2>1
  <2>3. c[d + k] = p + x + y
    BY <1>2, <1>3, <2>1
  <2>4. e[k] = q + x + y
    BY <1>2
  <2> HIDE DEF x, y, p, q, z
  <2>5. c[d + k] = z + e[k]
    BY <2>2, <2>3, <2>4
  <2> QED BY <2>1, <2>5 DEF z
<1>6. n \in S
  <2>1. \A k \in 0..n : k \in S
    <3> HIDE DEF S
    <3> QED BY <1>1, <1>4, <1>5, Counting
  <2>2. n \in 0..n
    BY <1>1
  <2> HIDE DEF S
  <2> QED BY <2>1, <2>2
<1> QED BY <1>6 DEF n

\* The bytes of frames are counted from either end.
LEMMA BytesCounted ==
  ASSUME NEW f \in Seq(Frames)
  PROVE  /\ BytesOf(f) \in Nat /\ (f = <<>> => BytesOf(f) = 0)
         /\ \A x \in Frames : BytesOf(Append(f, x)) = BytesOf(f) + x.header + x.payload
         /\ f # <<>> => BytesOf(f) = (f[1].header + f[1].payload) + BytesOf(Tail(f))
<1> DEFINE n == Len(f)
<1>1. n \in Nat /\ n \in 0..n /\ 0 \in 0..n
  OBVIOUS
<1>2. PICK c \in [0..Len(f) -> Nat] : Counts(c, f)
  BY BytesTrace
<1>3. BytesOf(f) = c[n] /\ c[0] = 0 /\ BytesOf(f) \in Nat
  BY <1>1, <1>2 DEF Counts
<1>4. ASSUME NEW x \in Frames PROVE BytesOf(Append(f, x)) = BytesOf(f) + x.header + x.payload
  <2> DEFINE g == Append(f, x)
  <2>1. g \in Seq(Frames) /\ Len(g) = n + 1 /\ g[n + 1] = x /\ \A k \in 1..n : f[k] = g[k]
    OBVIOUS
  <2> HIDE DEF g, n
  <2>2. PICK e \in [0..Len(g) -> Nat] : Counts(e, g)
    BY <2>1, BytesTrace
  <2>3. e[0 + n] = e[0] + c[n]
    <3>1. Len(f) = n /\ Len(f) + 0 <= Len(g) /\ \A k \in 1..n : f[k] = g[0 + k]
      <4>1. \A k \in 1..n : 0 + k = k
        BY <1>1
      <4>2. Len(f) = n /\ n + 0 <= n + 1
        BY <1>1 DEF n
      <4> QED BY <2>1, <4>1, <4>2
    <3> QED BY <1>2, <2>1, <2>2, <3>1, BytesShift, ZenonT(60)
  <2>4. e[0] = 0 /\ BytesOf(g) = e[n + 1] /\ \A k \in 1..(n + 1) : e[k] = e[k - 1] + g[k].header + g[k].payload
    BY <2>1, <2>2 DEF Counts
  <2>5. n + 1 \in 1..(n + 1) /\ (n + 1) - 1 = n /\ 0 + n = n
    BY <1>1
  <2>6. e[n + 1] = e[n] + x.header + x.payload
    BY <2>1, <2>4, <2>5
  <2>7. e[n] = c[n]
    <3>1. c[n] \in Nat
      BY <1>3
    <3> QED BY <2>3, <2>4, <2>5, <3>1
  <2> QED BY <1>3, <2>4, <2>6, <2>7 DEF g
<1>5. ASSUME f # <<>> PROVE BytesOf(f) = (f[1].header + f[1].payload) + BytesOf(Tail(f))
  <2> DEFINE h == Tail(f)
  <2>1. h \in Seq(Frames) /\ Len(h) = n - 1 /\ n >= 1 /\ (\A k \in 1..Len(h) : h[k] = f[1 + k])
    <3>1. n >= 1
      BY <1>1, <1>5
    <3>2. h \in Seq(Frames) /\ Len(h) = n - 1
      BY <1>5
    <3>3. \A k \in 1..Len(h) : h[k] = f[k + 1]
      BY <1>5
    <3>4. \A k \in 1..Len(h) : k + 1 = 1 + k
      OBVIOUS
    <3> QED BY <3>1, <3>2, <3>3, <3>4
  <2> HIDE DEF h, n
  <2>2. PICK e \in [0..Len(h) -> Nat] : Counts(e, h)
    BY <2>1, BytesTrace
  <2>3. c[1 + Len(h)] = c[1] + e[Len(h)]
    <3>1. Len(h) + 1 <= Len(f)
      BY <1>1, <2>1 DEF n
    <3> QED BY <1>2, <2>1, <2>2, <3>1, BytesShift, ZenonT(60)
  <2>4. BytesOf(h) = e[Len(h)]
    BY <2>2 DEF Counts
  <2>5. 1 + Len(h) = n /\ 1 \in 1..n /\ 1 - 1 = 0
    BY <1>1, <2>1
  <2>6. c[1] = c[0] + f[1].header + f[1].payload
    BY <1>2, <2>5 DEF Counts, n
  <2>7. f[1] \in Frames
    BY <2>5 DEF n
  <2>8. f[1].header \in Nat /\ f[1].payload \in Nat
    BY <2>7 DEF Frames
  <2>9. c[1] = f[1].header + f[1].payload
    BY <1>3, <2>6, <2>8
  <2> QED BY <1>3, <2>3, <2>4, <2>5, <2>9 DEF h
<1>6. f = <<>> => BytesOf(f) = 0
  BY <1>3
<1> QED BY <1>3, <1>4, <1>5, <1>6

\* Sequences that agree in every place are the same.
LEMMA SamePlaces ==
  ASSUME NEW V, NEW y \in Seq(V), NEW z \in Seq(V), Len(y) = Len(z),
         \A k \in 1..Len(y) : y[k] = z[k]
  PROVE  y = z
OBVIOUS

\* A stretch is a sequence of as many places.
LEMMA SliceTyped ==
  ASSUME NEW V, NEW m \in Nat, NEW F \in [1..m -> V], NEW r \in 0..m, NEW w \in r..m
  PROVE  /\ Slice(F, r, w) \in Seq(V) /\ Len(Slice(F, r, w)) = w - r
         /\ Slice(F, r, w) = <<>> <=> w = r
<1> DEFINE g == Slice(F, r, w)
           n == w - r
<1>0. r \in Nat /\ w \in Nat /\ r <= w /\ w <= m /\ n \in Nat
  OBVIOUS
<1>1. \A k \in 1..n : r + k \in 1..m
  BY <1>0
<1>2. g \in Seq(V) /\ Len(g) = n /\ DOMAIN g = 1..n /\ \A k \in 1..n : g[k] = F[r + k]
  <2>1. g = [k \in 1..n |-> F[r + k]]
    BY DEF Slice
  <2>2. \A k \in 1..n : F[r + k] \in V
    BY <1>1
  <2> HIDE DEF g, n
  <2> QED BY <1>0, <2>1, <2>2
<1>3. g = <<>> <=> w = r
  <2>1. n = 0 <=> w = r
    BY <1>0
  <2> HIDE DEF g, n
  <2>2. g = <<>> <=> n = 0
    BY <1>0, <1>2
  <2> QED BY <2>1, <2>2
<1> QED BY <1>2, <1>3

\* A stretch that grows by what comes next.
LEMMA SliceGrows ==
  ASSUME NEW V, NEW m \in Nat, NEW F \in [1..m -> V], NEW r \in 0..m, NEW w \in r..m, w < m
  PROVE  Append(Slice(F, r, w), F[w + 1]) = Slice(F, r, w + 1)
<1> DEFINE g == Slice(F, r, w)
           n == w - r
<1>0. r \in Nat /\ w \in Nat /\ r <= w /\ w <= m /\ n \in Nat
  OBVIOUS
<1>1. \A k \in 1..n : r + k \in 1..m
  BY <1>0
<1>2. g \in Seq(V) /\ Len(g) = n /\ DOMAIN g = 1..n /\ \A k \in 1..n : g[k] = F[r + k]
  <2>1. g = [k \in 1..n |-> F[r + k]]
    BY DEF Slice
  <2>2. \A k \in 1..n : F[r + k] \in V
    BY <1>1
  <2> HIDE DEF g, n
  <2> QED BY <1>0, <2>1, <2>2
<1>4. Append(g, F[w + 1]) = Slice(F, r, w + 1)
  <2> DEFINE h == Slice(F, r, w + 1)
             x == F[w + 1]
  <2>1. (w + 1) - r = n + 1 /\ r + (n + 1) = w + 1 /\ x \in V /\ \A k \in 1..(n + 1) : k \in 1..n \/ k = n + 1
    <3>1. w + 1 \in 1..m
      BY <1>0
    <3>2. (w + 1) - r = n + 1 /\ r + (n + 1) = w + 1 /\ \A k \in 1..(n + 1) : k \in 1..n \/ k = n + 1
      BY <1>0
    <3> QED BY <3>1, <3>2
  <2>2. h = [k \in 1..(n + 1) |-> F[r + k]]
    BY <2>1 DEF Slice
  <2> HIDE DEF g, h, n, x
  <2>3. Append(g, x) \in Seq(V) /\ Len(Append(g, x)) = n + 1
    BY <1>2, <2>1
  <2>4. \A k \in 1..(n + 1) : Append(g, x)[k] = h[k]
    <3> SUFFICES ASSUME NEW k \in 1..(n + 1) PROVE Append(g, x)[k] = h[k]
      OBVIOUS
    <3>0. h[k] = F[r + k]
      BY <2>2
    <3>1. CASE k \in 1..n
      <4>1. Append(g, x)[k] = g[k]
        BY <1>2, <2>1, <3>1
      <4> QED BY <1>2, <3>0, <3>1, <4>1
    <3>2. CASE k = n + 1
      <4>1. Append(g, x)[k] = x
        BY <1>2, <2>1, <3>2
      <4> QED BY <2>1, <3>0, <3>2, <4>1 DEF x
    <3> QED BY <2>1, <3>1, <3>2
  <2>5. h \in Seq(V) /\ Len(h) = n + 1
    <3>1. n + 1 \in Nat /\ \A k \in 1..(n + 1) : r + k \in 1..m
      BY <1>0, <2>1 DEF n
    <3>2. \A k \in 1..(n + 1) : F[r + k] \in V
      BY <3>1
    <3> QED BY <2>2, <3>1, <3>2
  <2>6. Append(g, x) = h
    BY <2>3, <2>4, <2>5, SamePlaces
  <2> QED BY <2>6 DEF x, h
<1> QED BY <1>4

\* A stretch that loses its first place.
LEMMA SliceShrinks ==
  ASSUME NEW V, NEW m \in Nat, NEW F \in [1..m -> V], NEW r \in 0..m, NEW w \in r..m, r < w
  PROVE  Head(Slice(F, r, w)) = F[r + 1] /\ Tail(Slice(F, r, w)) = Slice(F, r + 1, w)
<1> DEFINE g == Slice(F, r, w)
           n == w - r
<1>0. r \in Nat /\ w \in Nat /\ r <= w /\ w <= m /\ n \in Nat
  OBVIOUS
<1>1. \A k \in 1..n : r + k \in 1..m
  BY <1>0
<1>2. g \in Seq(V) /\ Len(g) = n /\ DOMAIN g = 1..n /\ \A k \in 1..n : g[k] = F[r + k]
  <2>1. g = [k \in 1..n |-> F[r + k]]
    BY DEF Slice
  <2>2. \A k \in 1..n : F[r + k] \in V
    BY <1>1
  <2> HIDE DEF g, n
  <2> QED BY <1>0, <2>1, <2>2
<1>5. Head(g) = F[r + 1] /\ Tail(g) = Slice(F, r + 1, w)
  <2> DEFINE h == Slice(F, r + 1, w)
  <2>1. w - (r + 1) = n - 1 /\ n >= 1 /\ 1 \in 1..n /\ n - 1 \in Nat
        /\ \A k \in 1..(n - 1) : k + 1 \in 1..n /\ r + (k + 1) = (r + 1) + k
    BY <1>0
  <2>2. h = [k \in 1..(n - 1) |-> F[(r + 1) + k]]
    BY <2>1 DEF Slice
  <2> HIDE DEF g, h, n
  <2>3. g # <<>>
    BY <1>2, <2>1
  <2>4. Tail(g) \in Seq(V) /\ Len(Tail(g)) = n - 1
    BY <1>2, <2>3
  <2>5. \A k \in 1..(n - 1) : Tail(g)[k] = h[k]
    <3> SUFFICES ASSUME NEW k \in 1..(n - 1) PROVE Tail(g)[k] = h[k]
      OBVIOUS
    <3>1. Tail(g)[k] = g[k + 1]
      BY <1>2, <2>3
    <3>2. g[k + 1] = F[r + (k + 1)]
      BY <1>2, <2>1
    <3>3. h[k] = F[(r + 1) + k]
      BY <2>2
    <3> QED BY <2>1, <3>1, <3>2, <3>3
  <2>6. h \in Seq(V) /\ Len(h) = n - 1
    <3>1. \A k \in 1..(n - 1) : F[(r + 1) + k] \in V
      <4>1. \A k \in 1..(n - 1) : (r + 1) + k \in 1..m
        BY <1>0, <2>1 DEF n
      <4> QED BY <4>1
    <3> QED BY <2>1, <2>2, <3>1
  <2>7. Tail(g) = h
    BY <2>4, <2>5, <2>6, SamePlaces
  <2>8. Head(g) = F[r + 1]
    <3>1. Head(g) = g[1]
      BY <1>2, <2>3
    <3> QED BY <1>2, <2>1, <3>1
  <2> QED BY <2>7, <2>8 DEF h
<1> QED BY <1>5

\* The first b operations.
Upto(b) == [i \in 1..b |-> i]

\* What is staged and what the next part brings.
LEMMA UptoJoins ==
  ASSUME NEW a \in Nat, NEW b \in Nat, a <= b
  PROVE  /\ Upto(a) \in Seq(Nat) /\ Len(Upto(a)) = a /\ Upto(0) = <<>>
         /\ Upto(a) \o [i \in 1..(b - (a + 1) + 1) |-> (a + 1) + i - 1] = Upto(b)
         /\ a < b => [i \in 1..(b - (a + 1) + 1) |-> (a + 1) + i - 1] # <<>>
<1> DEFINE d == b - a
           g == [i \in 1..d |-> a + i]
           e == [i \in 1..(b - (a + 1) + 1) |-> (a + 1) + i - 1]
<1>1. d \in Nat /\ b - (a + 1) + 1 = d /\ a + d = b /\ \A i \in 1..d : (a + 1) + i - 1 = a + i /\ a + i \in Nat
  OBVIOUS
<1>2. e = g
  <2> HIDE DEF d
  <2> QED BY <1>1
<1>3. Upto(a) \in Seq(Nat) /\ Len(Upto(a)) = a /\ DOMAIN Upto(a) = 1..a /\ \A i \in 1..a : Upto(a)[i] = i
  BY DEF Upto
<1>4. g \in Seq(Nat) /\ Len(g) = d /\ \A i \in 1..d : g[i] = a + i
  <2> HIDE DEF d
  <2> QED BY <1>1
<1>5. Upto(0) = <<>>
  BY DEF Upto
<1> DEFINE u == Upto(a)
           j == u \o g
<1> HIDE DEF d, g, u
<1>6. j \in Seq(Nat) /\ Len(j) = b
  <2>1. u \in Seq(Nat) /\ Len(u) = a /\ g \in Seq(Nat) /\ Len(g) = d /\ a + d = b
    BY <1>1, <1>3, <1>4 DEF u
  <2> QED BY <2>1, SMTT(30)
<1>7. \A i \in 1..b : j[i] = i
  <2> SUFFICES ASSUME NEW i \in 1..b PROVE j[i] = i
    OBVIOUS
  <2>1. u \in Seq(Nat) /\ Len(u) = a /\ g \in Seq(Nat) /\ Len(g) = d
    BY <1>3, <1>4 DEF u
  <2>2. CASE i \in 1..a
    <3>1. j[i] = u[i]
      BY <2>1, <2>2
    <3> QED BY <1>3, <2>2, <3>1 DEF u
  <2>3. CASE i \notin 1..a
    <3>1. i - a \in 1..d /\ i \in (a + 1)..(a + d) /\ a + (i - a) = i
      BY <1>1, <2>3
    <3>2. j[i] = g[i - a]
      BY <2>1, <2>3, <3>1
    <3> QED BY <1>4, <3>1, <3>2
  <2> QED BY <2>2, <2>3
<1>8. Upto(b) \in Seq(Nat) /\ Len(Upto(b)) = b /\ \A i \in 1..b : Upto(b)[i] = i
  BY DEF Upto
<1>9. j = Upto(b)
  <2> HIDE DEF j
  <2> QED BY <1>6, <1>7, <1>8, SamePlaces
<1>10. a < b => g # <<>>
  <2>1. a < b => d # 0
    BY <1>1
  <2> QED BY <1>4, <2>1
<1> QED BY <1>2, <1>3, <1>5, <1>9, <1>10 DEF u

\* The frames of a plan, and the live one after them.
Planned(P, s) ==
  [j \in 1..(Len(P) + 1) |->
     IF j <= Len(P) THEN Frame("part", P[j], EnvelopeOf(s, P[j])) ELSE Frame("live", <<0, 0>>, 2)]

\* They are frames, and neither end refuses one.
LEMMA PlannedIs ==
  ASSUME NEW s \in Snapshots, NEW limits \in ClientLimits, NEW P, Fits(P, s, limits)
  PROVE  /\ Len(P) \in Nat /\ Len(P) >= 1 /\ P \in [1..Len(P) -> Nat \X Nat]
         /\ Planned(P, s) \in [1..(Len(P) + 1) -> Frames]
         /\ \A j \in 1..Len(P) : Planned(P, s)[j] = Frame("part", P[j], EnvelopeOf(s, P[j]))
         /\ Planned(P, s)[Len(P) + 1] = Frame("live", <<0, 0>>, 2)
         /\ \A j \in 1..(Len(P) + 1) : /\ Planned(P, s)[j].payload <= CodecLimit
                                       /\ limits.frame # 0 => Planned(P, s)[j].payload <= limits.frame
<1> DEFINE n == Len(P)
           F == Planned(P, s)
<1>1. P \in Seq(Nat \X Nat) /\ n \in Nat /\ n >= 1 /\ P \in [1..n -> Nat \X Nat]
  BY DEF Fits, Partition
<1>2. /\ FrameLimit(limits) \in Nat /\ FrameLimit(limits) <= CodecLimit /\ CodecLimit \in Nat
      /\ limits.frame \in Nat /\ (limits.frame # 0 => FrameLimit(limits) <= limits.frame)
  BY FrameLimitIs, FramingAssumption
<1>3. \A j \in 1..n : /\ EnvelopeOf(s, P[j]) \in Nat /\ EnvelopeOf(s, P[j]) >= 2
                      /\ EnvelopeOf(s, P[j]) <= FrameLimit(limits)
  BY DEF Fits
<1> HIDE DEF n
<1>4. F = [j \in 1..(n + 1) |-> IF j <= n THEN Frame("part", P[j], EnvelopeOf(s, P[j]))
                                ELSE Frame("live", <<0, 0>>, 2)]
  BY DEF Planned, n
<1> HIDE DEF F
<1>5. ASSUME NEW j \in 1..n
      PROVE  /\ F[j] = Frame("part", P[j], EnvelopeOf(s, P[j])) /\ F[j] \in Frames
             /\ F[j].payload <= FrameLimit(limits)
  <2> DEFINE e == EnvelopeOf(s, P[j])
  <2>1. j \in 1..(n + 1) /\ j <= n
    BY <1>1
  <2>2. F[j] = Frame("part", P[j], e)
    BY <1>4, <2>1
  <2>3. e \in Nat /\ e <= FrameLimit(limits)
    BY <1>3
  <2>4. P[j] \in Nat \X Nat
    BY <1>1
  <2> HIDE DEF e
  <2>5. encoded_len_varint(e) \in Nat \ {0}
    BY <2>3, LengthsTyped
  <2>6. Frame("part", P[j], e) \in Frames /\ Frame("part", P[j], e).payload = e
    <3> DEFINE h == encoded_len_varint(e)
               p == P[j]
    <3>1. h \in Nat \ {0} /\ p \in Nat \X Nat
      BY <2>4, <2>5
    <3>2. Frame("part", p, e) = [kind |-> "part", range |-> p, header |-> h, payload |-> e]
      BY DEF Frame
    <3> HIDE DEF h, p
    <3>3. Frame("part", p, e) \in Frames /\ Frame("part", p, e).payload = e
      BY <2>3, <3>1, <3>2 DEF Frames
    <3> QED BY <3>3 DEF p
  <2> QED BY <2>2, <2>3, <2>6 DEF e
<1>6. /\ F[n + 1] = Frame("live", <<0, 0>>, 2) /\ F[n + 1] \in Frames
      /\ F[n + 1].payload = 2
  <2>1. n + 1 \in 1..(n + 1) /\ ~(n + 1 <= n)
    BY <1>1
  <2>2. F[n + 1] = Frame("live", <<0, 0>>, 2)
    BY <1>4, <2>1
  <2>3. encoded_len_varint(2) \in Nat \ {0}
    BY LengthsTyped
  <2>4. Frame("live", <<0, 0>>, 2) \in Frames /\ Frame("live", <<0, 0>>, 2).payload = 2
    <3> DEFINE h == encoded_len_varint(2)
    <3>1. Frame("live", <<0, 0>>, 2) = [kind |-> "live", range |-> <<0, 0>>, header |-> h, payload |-> 2]
      BY DEF Frame
    <3> HIDE DEF h
    <3>2. h \in Nat \ {0}
      BY <2>3 DEF h
    <3> QED BY <3>1, <3>2 DEF Frames
  <2> QED BY <2>2, <2>4
<1>7. 2 <= FrameLimit(limits)
  <2> DEFINE e == EnvelopeOf(s, P[1])
  <2>1. 1 \in 1..n
    BY <1>1
  <2>2. e \in Nat /\ e >= 2 /\ e <= FrameLimit(limits)
    BY <1>3, <2>1
  <2> HIDE DEF e
  <2> QED BY <1>2, <2>2
<1>8. \A j \in 1..(n + 1) : j \in 1..n \/ j = n + 1
  BY <1>1
<1>9. ASSUME NEW j \in 1..(n + 1)
      PROVE  /\ F[j] \in Frames /\ F[j].payload <= CodecLimit
             /\ limits.frame # 0 => F[j].payload <= limits.frame
  <2> DEFINE e == F[j].payload
  <2>1. F[j] \in Frames /\ e <= FrameLimit(limits)
    BY <1>5, <1>6, <1>7, <1>8
  <2>2. e \in Nat
    BY <2>1 DEF Frames
  <2> HIDE DEF e
  <2>3. e <= CodecLimit /\ (limits.frame # 0 => e <= limits.frame)
    BY <1>2, <2>1, <2>2
  <2> QED BY <2>1, <2>3 DEF e
<1>10. F \in [1..(n + 1) -> Frames]
  BY <1>4, <1>9
<1> QED BY <1>1, <1>5, <1>6, <1>9, <1>10 DEF n, F

\* Where the first r parts end.
PartEnd(P, r) == IF r = 0 THEN 0 ELSE P[r][2]

\* w frames have been written and r of them taken.
AtMost(k, n) == IF k <= n THEN k ELSE n
Delivers(P, s, w, r) ==
  /\ plan = [stage |-> IF w <= Len(P) THEN "sending" ELSE "sent",
             parts |-> Slice(P, AtMost(w, Len(P)), Len(P))]
  /\ wire = [frames |-> Slice(Planned(P, s), r, w), arrived |-> wire.arrived]
  /\ wire.arrived \in Nat /\ wire.arrived <= BytesOf(Slice(Planned(P, s), r, w))
  /\ assembler = [expected |-> Len(P), received |-> AtMost(r, Len(P)),
                  staged |-> IF r < Len(P) THEN Upto(PartEnd(P, r)) ELSE <<>>]
  /\ client = IF r < Len(P) THEN <<>>
              ELSE IF r = Len(P) THEN Upto(Len(s.ops)) ELSE Append(Upto(Len(s.ops)), "live")

\* Nothing is on the wire.
Quiet == wire = [frames |-> <<>>, arrived |-> 0]

\* Where a delivery stands: asked for, refused for a reason, under way, or cut.
SnapSound ==
  /\ ask.snapshot \in Snapshots /\ ask.limits \in ClientLimits
  /\ \/ /\ plan = [stage |-> "asked", parts |-> <<>>]
        /\ Quiet /\ assembler = NotStaging /\ client = <<>>
     \/ plan.stage = "refused" /\ Quiet /\ client = <<>> /\ ~DeliverableTo(ask.snapshot, ask.limits)
     \/ /\ plan.stage = "cut" /\ Quiet
        /\ client \in {<<>>, Upto(Len(ask.snapshot.ops)), Append(Upto(Len(ask.snapshot.ops)), "live")}
     \/ \E P : /\ Fits(P, ask.snapshot, ask.limits)
               /\ \E w \in 0..(Len(P) + 1) : \E r \in 0..w : Delivers(P, ask.snapshot, w, r)

\* A part, or the live transaction, is written.
LEMMA DeliversEncode ==
  ASSUME NEW s \in Snapshots, NEW limits \in ClientLimits, NEW P, Fits(P, s, limits),
         NEW w \in 0..Len(P), NEW r \in 0..w, Delivers(P, s, w, r),
         Encode(Planned(P, s)[w + 1]), UNCHANGED <<assembler, client>>
  PROVE  Delivers(P, s, w + 1, r)'
<1> DEFINE n == Len(P)
           F == Planned(P, s)
           x == F[w + 1]
<1>1. /\ n \in Nat /\ n >= 1 /\ P \in [1..n -> Nat \X Nat] /\ F \in [1..(n + 1) -> Frames]
      /\ (\A j \in 1..n : F[j] = Frame("part", P[j], EnvelopeOf(s, P[j])))
      /\ F[n + 1] = Frame("live", <<0, 0>>, 2)
      /\ \A j \in 1..(n + 1) : F[j].payload <= CodecLimit
  BY PlannedIs
<1> HIDE DEF F
<1>2. w \in Nat /\ r \in Nat /\ r <= w /\ w <= n /\ w + 1 \in 1..(n + 1)
      /\ r \in 0..(n + 1) /\ w \in r..(n + 1) /\ w < n + 1 /\ w \in 0..n /\ n \in w..n
  BY <1>1
<1>3. x \in Frames /\ x.payload \in Nat /\ x.header \in Nat /\ x.payload <= CodecLimit /\ CodecLimit \in Nat
  <2>1. x \in Frames /\ x.payload <= CodecLimit
    BY <1>1, <1>2
  <2> HIDE DEF x
  <2> QED BY <2>1, FramingAssumption DEF Frames
<1>4. /\ plan = [stage |-> "sending", parts |-> Slice(P, w, n)]
      /\ wire = [frames |-> Slice(F, r, w), arrived |-> wire.arrived]
      /\ wire.arrived \in Nat /\ wire.arrived <= BytesOf(Slice(F, r, w))
  BY <1>2 DEF Delivers, AtMost, F
<1> DEFINE G == Slice(F, r, w)
<1>5. /\ plan' = IF x.kind = "live" THEN [plan EXCEPT !.stage = "sent"] ELSE [plan EXCEPT !.parts = Tail(@)]
      /\ wire' = [wire EXCEPT !.frames = Append(@, x)]
  <2>1. ~(x.payload > CodecLimit)
    <3> DEFINE y == x.payload
    <3>1. y \in Nat /\ CodecLimit \in Nat /\ y <= CodecLimit
      BY <1>3
    <3> HIDE DEF y
    <3>2. ~(y > CodecLimit)
      BY <3>1
    <3> QED BY <3>2 DEF y
  <2>2. Encode(x)
    BY DEF F
  <2> HIDE DEF x
  <2> QED BY <2>1, <2>2 DEF Encode
<1>6. G \in Seq(Frames) /\ Append(G, x) = Slice(F, r, w + 1)
  <2>1. n + 1 \in Nat
    BY <1>1
  <2>2. Slice(F, r, w) \in Seq(Frames)
    BY <1>1, <1>2, <2>1, SliceTyped, ZenonT(60)
  <2>3. Append(Slice(F, r, w), F[w + 1]) = Slice(F, r, w + 1)
    <3>1. F \in [1..(n + 1) -> Frames] /\ r \in 0..(n + 1) /\ w \in r..(n + 1) /\ w < n + 1
      BY <1>1, <1>2
    <3> DEFINE m == n + 1
    <3>2. F \in [1..m -> Frames] /\ r \in 0..m /\ w \in r..m /\ w < m /\ m \in Nat
      BY <2>1, <3>1
    <3> HIDE DEF m
    <3> QED BY ONLY <3>2, SliceGrows
  <2> QED BY <2>2, <2>3
<1> HIDE DEF G, x
<1>7. wire' = [frames |-> Append(G, x), arrived |-> wire.arrived]
  <2>1. wire = [frames |-> G, arrived |-> wire.arrived]
    BY <1>4 DEF G
  <2> DEFINE a == wire.arrived
  <2>2. wire = [frames |-> G, arrived |-> a] /\ wire' = [wire EXCEPT !.frames = Append(@, x)]
    BY <1>5, <2>1
  <2> HIDE DEF a
  <2>3. wire' = [frames |-> Append(G, x), arrived |-> a]
    BY <2>2
  <2> QED BY <2>3 DEF a
<1>8. wire'.arrived = wire.arrived /\ wire'.frames = Slice(F, r, w + 1)
  BY <1>6, <1>7
<1>9. wire.arrived <= BytesOf(Slice(F, r, w + 1))
  <2> DEFINE p == BytesOf(G)
             q == BytesOf(Append(G, x))
             a == wire.arrived
  <2>1. p \in Nat /\ q = p + x.header + x.payload
    BY <1>3, <1>6, BytesCounted
  <2>2. a \in Nat /\ a <= p
    BY <1>4 DEF G
  <2> HIDE DEF p, q, a
  <2>3. a <= q
    BY <1>3, <2>1, <2>2
  <2> QED BY <1>6, <2>3 DEF a, q
<1>10. plan' = [stage |-> IF w + 1 <= n THEN "sending" ELSE "sent",
                parts |-> Slice(P, AtMost(w + 1, n), n)]
  <2>1. CASE w < n
    <3>1. w + 1 \in 1..n /\ w + 1 <= n /\ AtMost(w + 1, n) = w + 1
      BY <1>1, <1>2, <2>1 DEF AtMost
    <3>2. x.kind = "part"
      <4>1. x = Frame("part", P[w + 1], EnvelopeOf(s, P[w + 1]))
        BY <1>1, <3>1 DEF x
      <4> QED BY <4>1 DEF Frame
    <3>3. Tail(Slice(P, w, n)) = Slice(P, w + 1, n)
      <4>1. P \in [1..n -> Nat \X Nat] /\ n \in Nat /\ w \in 0..n /\ n \in w..n /\ w < n
        BY <1>1, <1>2, <2>1
      <4> QED BY ONLY <4>1, SliceShrinks
    <3>4. plan' = [plan EXCEPT !.parts = Tail(@)]
      BY <1>5, <3>2
    <3>5. plan' = [stage |-> "sending", parts |-> Tail(Slice(P, w, n))]
      <4> DEFINE g == Slice(P, w, n)
      <4>1. plan = [stage |-> "sending", parts |-> g]
        BY <1>4
      <4> HIDE DEF g
      <4>2. plan' = [stage |-> "sending", parts |-> Tail(g)]
        BY <3>4, <4>1
      <4> QED BY <4>2 DEF g
    <3> QED BY <3>1, <3>3, <3>5
  <2>2. CASE w = n
    <3>1. ~(w + 1 <= n) /\ AtMost(w + 1, n) = n
      <4>1. n \in Nat
        BY <1>1
      <4>2. ~(n + 1 <= n)
        BY <4>1
      <4> QED BY <2>2, <4>2 DEF AtMost
    <3>2. x.kind = "live"
      <4>1. x = Frame("live", <<0, 0>>, 2)
        BY <1>1, <2>2 DEF x
      <4> QED BY <4>1 DEF Frame
    <3>3. plan' = [plan EXCEPT !.stage = "sent"]
      BY <1>5, <3>2
    <3>4. plan' = [stage |-> "sent", parts |-> Slice(P, w, n)]
      <4> DEFINE g == Slice(P, w, n)
      <4>1. plan = [stage |-> "sending", parts |-> g]
        BY <1>4
      <4> HIDE DEF g
      <4>2. plan' = [stage |-> "sent", parts |-> g]
        BY <3>3, <4>1
      <4> QED BY <4>2 DEF g
    <3> QED BY <2>2, <3>1, <3>4
  <2>3. w < n \/ w = n
    <3>1. w \in Nat /\ n \in Nat /\ w <= n
      BY <1>1, <1>2
    <3> QED BY <3>1
  <2> QED BY <2>1, <2>2, <2>3
<1>11. /\ assembler' = [expected |-> n, received |-> AtMost(r, n),
                        staged |-> IF r < n THEN Upto(PartEnd(P, r)) ELSE <<>>]
       /\ client' = IF r < n THEN <<>> ELSE IF r = n THEN Upto(Len(s.ops)) ELSE Append(Upto(Len(s.ops)), "live")
  BY DEF Delivers
<1>12. wire' = [frames |-> Slice(F, r, w + 1), arrived |-> wire'.arrived] /\ wire'.arrived \in Nat
       /\ wire'.arrived <= BytesOf(Slice(F, r, w + 1))
  BY <1>4, <1>6, <1>7, <1>8, <1>9
<1> QED BY <1>10, <1>11, <1>12 DEF Delivers, F

\* The client takes the next frame.
LEMMA DeliversDecode ==
  ASSUME NEW s \in Snapshots, NEW limits \in ClientLimits, NEW P, Fits(P, s, limits),
         ask.snapshot = s, ask.limits = limits,
         NEW w \in 0..(Len(P) + 1), NEW r \in 0..w, Delivers(P, s, w, r), Decode
  PROVE  r + 1 \in 0..w /\ Delivers(P, s, w, r + 1)'
<1> DEFINE n == Len(P)
           F == Planned(P, s)
           G == Slice(F, r, w)
           a == wire.arrived
           x == F[r + 1]
<1>1. /\ n \in Nat /\ n >= 1 /\ F \in [1..(n + 1) -> Frames]
      /\ (\A j \in 1..n : F[j] = Frame("part", P[j], EnvelopeOf(s, P[j])))
      /\ F[n + 1] = Frame("live", <<0, 0>>, 2)
  BY PlannedIs
<1>17. \A j \in 1..(n + 1) : /\ F[j].payload <= CodecLimit
                             /\ limits.frame # 0 => F[j].payload <= limits.frame
  BY PlannedIs
<1> HIDE DEF F
<1>2. n \in Nat /\ n + 1 \in Nat /\ w \in Nat /\ r \in Nat /\ r <= w /\ w <= n + 1
      /\ r \in 0..(n + 1) /\ w \in r..(n + 1)
  <2>1. n \in Nat /\ w \in 0..(n + 1) /\ r \in 0..w
    BY <1>1
  <2> HIDE DEF n
  <2> QED BY <2>1
<1>3. /\ plan = [stage |-> IF w <= n THEN "sending" ELSE "sent", parts |-> Slice(P, AtMost(w, n), n)]
      /\ wire = [frames |-> G, arrived |-> a]
      /\ a \in Nat /\ a <= BytesOf(G)
      /\ assembler = [expected |-> n, received |-> AtMost(r, n),
                      staged |-> IF r < n THEN Upto(PartEnd(P, r)) ELSE <<>>]
      /\ client = IF r < n THEN <<>>
                  ELSE IF r = n THEN Upto(Len(s.ops)) ELSE Append(Upto(Len(s.ops)), "live")
  BY DEF Delivers, F
<1>4. a > 0
  BY DEF Decode
<1>5. /\ G \in Seq(Frames) /\ (G = <<>> <=> w = r)
      /\ r < w => Head(G) = x /\ Tail(G) = Slice(F, r + 1, w)
  <2> DEFINE m == n + 1
  <2>1. F \in [1..m -> Frames] /\ r \in 0..m /\ w \in r..m /\ m \in Nat
    BY <1>1, <1>2
  <2> HIDE DEF m
  <2>2. G \in Seq(Frames) /\ (G = <<>> <=> w = r)
    BY <2>1, SliceTyped
  <2>3. r < w => Head(G) = x /\ Tail(G) = Slice(F, r + 1, w)
    BY <2>1, SliceShrinks
  <2> QED BY <2>2, <2>3
<1> HIDE DEF G, n, x
<1>6. r < w /\ G # <<>>
  <2>1. G # <<>>
    <3>1. CASE G = <<>>
      <4>1. BytesOf(G) = 0
        BY <1>5, <3>1, BytesCounted
      <4> DEFINE b == BytesOf(G)
      <4>2. a \in Nat /\ a > 0 /\ a <= b /\ b = 0
        BY <1>3, <1>4, <4>1
      <4> HIDE DEF a, b
      <4> QED BY <4>2
    <3> QED BY <3>1
  <2> QED BY <1>2, <1>5, <2>1
<1>7. Head(G) = x /\ Tail(G) = Slice(F, r + 1, w)
  BY <1>5, <1>6
<1>8. /\ x \in Frames /\ x.payload \in Nat /\ x.header \in Nat /\ x.payload <= CodecLimit
      /\ limits.frame # 0 => x.payload <= limits.frame
  <2>1. r + 1 \in 1..(n + 1)
    BY <1>2, <1>6
  <2>2. F[r + 1] \in Frames /\ F[r + 1].payload <= CodecLimit
        /\ (limits.frame # 0 => F[r + 1].payload <= limits.frame)
    BY <1>1, <1>17, <2>1
  <2>3. x \in Frames /\ x.payload <= CodecLimit /\ (limits.frame # 0 => x.payload <= limits.frame)
    BY <2>2 DEF x
  <2> QED BY <2>3 DEF Frames
<1>9. wire.frames = G /\ wire.arrived = a
  BY <1>3
<1>10. /\ a >= x.header + x.payload /\ accept_part(x) /\ UNCHANGED ask
       /\ wire' = [frames |-> Tail(G), arrived |-> a - x.header - x.payload]
  <2> DEFINE limit == IF limits.frame = 0 THEN CodecLimit ELSE limits.frame
             y == x.payload
  <2>1. ~(y > limit)
    <3>1. limit \in Nat /\ y \in Nat /\ y <= limit
      <4>1. CodecLimit \in Nat /\ limits.frame \in Nat
        BY FramingAssumption
      <4> QED BY <1>8, <4>1
    <3> HIDE DEF limit, y
    <3> QED BY <3>1
  <2>2. Head(wire.frames) = x /\ limit = IF ask.limits.frame = 0 THEN CodecLimit ELSE ask.limits.frame
    BY <1>7, <1>9
  <2>3. /\ UNCHANGED ask
        /\ IF y > limit
           THEN plan' = [plan EXCEPT !.stage = "failed"] /\ UNCHANGED <<wire, assembler, client>>
           ELSE /\ wire.arrived >= x.header + y
                /\ wire' = [frames |-> Tail(wire.frames), arrived |-> wire.arrived - x.header - y]
                /\ accept_part(x)
    <3> HIDE DEF limit
    <3> QED BY <2>2, Zenon DEF Decode, limit
  <2> HIDE DEF limit
  <2> QED BY <1>9, <2>1, <2>3
<1> DEFINE g == Slice(F, r + 1, w)
           b == a - x.header - x.payload
<1>11. wire' = [frames |-> g, arrived |-> b] /\ b \in Nat /\ b <= BytesOf(g)
  <2> DEFINE h == x.header
             y == x.payload
             p == BytesOf(G)
             q == BytesOf(Tail(G))
  <2>1. G[1] = x /\ Tail(G) \in Seq(Frames)
    BY <1>5, <1>6, <1>7
  <2>2. p = (h + y) + q /\ q \in Nat
    <3>1. BytesOf(G) = (G[1].header + G[1].payload) + BytesOf(Tail(G))
      BY <1>5, <1>6, BytesCounted
    <3>2. BytesOf(Tail(G)) \in Nat
      BY <2>1, BytesCounted
    <3> QED BY <2>1, <3>1, <3>2
  <2>3. h \in Nat /\ y \in Nat /\ a \in Nat /\ a >= h + y /\ a <= p
    BY <1>3, <1>8, <1>10
  <2> HIDE DEF h, y, p, q, a
  <2>4. a - h - y \in Nat /\ a - h - y <= q
    BY <2>2, <2>3
  <2>5. b \in Nat /\ b <= BytesOf(g)
    BY <1>7, <2>4 DEF h, y, q
  <2> QED BY <1>7, <1>10, <2>5
<1> HIDE DEF g, b, a
<1>12. wire' = [frames |-> g, arrived |-> wire'.arrived] /\ wire'.arrived \in Nat
       /\ wire'.arrived <= BytesOf(g)
  <2>1. wire'.arrived = b
    BY <1>11
  <2> QED BY <1>11, <2>1
<1>13. r <= n /\ r + 1 \in 0..w
  BY <1>2, <1>6
<1>14. /\ UNCHANGED plan
       /\ assembler' = [expected |-> n, received |-> AtMost(r + 1, n),
                        staged |-> IF r + 1 < n THEN Upto(PartEnd(P, r + 1)) ELSE <<>>]
       /\ client' = IF r + 1 < n THEN <<>>
                    ELSE IF r + 1 = n THEN Upto(Len(s.ops)) ELSE Append(Upto(Len(s.ops)), "live")
  <2>1. CASE r = n
    <3>1. x.kind = "live"
      <4>1. x = Frame("live", <<0, 0>>, 2)
        BY <1>1, <2>1 DEF x, n
      <4> QED BY <4>1 DEF Frame
    <3>2. ~(r < n) /\ r <= n /\ ~(r + 1 < n) /\ r + 1 # n /\ ~(r + 1 <= n)
      <4>1. n \in Nat
        BY <1>2
      <4> QED BY <2>1, <4>1
    <3>3. assembler = [expected |-> n, received |-> n, staged |-> <<>>] /\ client = Upto(Len(s.ops))
      BY <1>3, <2>1, <3>2 DEF AtMost
    <3>4. assembler.received = assembler.expected
      BY <3>3
    <3>5. client' = Append(client, "live") /\ UNCHANGED <<assembler, plan>>
      BY <1>10, <3>1, <3>4 DEF accept_part
    <3> QED BY <3>2, <3>3, <3>5 DEF AtMost
  <2>2. CASE r < n
    <3> DEFINE lo == P[r + 1][1]
               hi == P[r + 1][2]
               e == PartEnd(P, r)
               total == Len(s.ops)
               new == [i \in 1..(hi - lo + 1) |-> lo + i - 1]
    <3>1. r + 1 \in 1..n /\ r + 1 <= n
      BY <1>2, <2>2
    <3>2. x.kind = "part" /\ x.range[1] = lo /\ x.range[2] = hi
      <4>1. x = Frame("part", P[r + 1], EnvelopeOf(s, P[r + 1]))
        BY <1>1, <3>1 DEF x, n
      <4> QED BY <4>1 DEF Frame
    <3>3. total \in Nat /\ total <= MaxOperations /\ MaxOperations \in Nat /\ limits.ops \in Nat
          /\ (limits.ops # 0 => total <= limits.ops) /\ Partition(P, total)
      BY FramingAssumption DEF Fits
    <3>4. lo \in Nat /\ hi \in Nat /\ lo >= 1 /\ hi <= total /\ hi >= lo - 1 /\ (n > 1 => lo <= hi)
      <4>1. lo \in 1..(total + 1) /\ hi \in (lo - 1)..total /\ (n > 1 => lo <= hi)
        <5> HIDE DEF total
        <5> QED BY <3>1, <3>3 DEF Partition, n
      <4> HIDE DEF lo, hi, total
      <4> QED BY <3>3, <4>1
    <3>5. e \in Nat /\ lo = e + 1
      <4>1. CASE r = 0
        <5>1. r + 1 = 1 /\ e = 0
          BY <4>1 DEF PartEnd
        <5>2. lo = 1
          BY <3>3, <5>1 DEF Partition
        <5> QED BY <5>1, <5>2
      <4>2. CASE r # 0
        <5>1. r + 1 \in 2..n /\ (r + 1) - 1 = r /\ r \in 1..n
          BY <1>2, <2>2, <4>2
        <5>2. lo = P[r][2] + 1
          BY <3>3, <5>1 DEF Partition, n
        <5>3. P[r] \in Nat \X Nat
          BY <3>3, <5>1 DEF Partition, n
        <5>4. e = P[r][2] /\ P[r][2] \in Nat
          BY <4>2, <5>3 DEF PartEnd
        <5> QED BY <5>2, <5>4
      <4> QED BY <4>1, <4>2
    <3>6. r + 1 = n => hi = total
      BY <3>3 DEF Partition, n
    <3>7. PartEnd(P, r + 1) = hi
      <4>1. r + 1 # 0
        BY <1>2
      <4> QED BY <4>1 DEF PartEnd
    <3>8. ~(r = n) /\ AtMost(r, n) = r
      BY <1>2, <2>2 DEF AtMost
    <3>9. assembler = [expected |-> n, received |-> r, staged |-> Upto(e)] /\ client = <<>>
      BY <1>3, <2>2, <3>8
    <3> HIDE DEF lo, hi, e, total
    <3>10. e <= hi /\ Upto(e) \o new = Upto(hi) /\ Len(Upto(hi)) = hi /\ (e < hi => new # <<>>)
      <4>1. e <= hi
        BY <3>4, <3>5
      <4>2. /\ Upto(e) \o [i \in 1..(hi - (e + 1) + 1) |-> (e + 1) + i - 1] = Upto(hi)
            /\ e < hi => [i \in 1..(hi - (e + 1) + 1) |-> (e + 1) + i - 1] # <<>>
        BY <3>4, <3>5, <4>1, UptoJoins
      <4>3. Len(Upto(hi)) = hi
        <5>1. hi <= hi
          BY <3>4
        <5> QED BY <3>4, <5>1, UptoJoins
      <4> QED BY <3>5, <4>1, <4>2, <4>3
    <3> DEFINE most == IF limits.ops = 0 THEN MaxOperations ELSE limits.ops
               full == assembler.staged \o new
    <3>11. full = Upto(hi)
      BY <3>9, <3>10
    <3>12. x.kind # "live" /\ assembler.received # assembler.expected
      BY <3>2, <3>8, <3>9
    <3>13. ~(assembler.expected > 1 /\ new = <<>>)
      <4>1. n > 1 => e < hi
        BY <3>4, <3>5
      <4>2. assembler.expected = n
        BY <3>9
      <4> QED BY <3>10, <4>1, <4>2
    <3>14. ~(Len(full) > most)
      <4>1. hi \in Nat /\ most \in Nat /\ hi <= most
        BY <3>3, <3>4
      <4>2. Len(full) = hi
        BY <3>10, <3>11
      <4> HIDE DEF full, most
      <4> QED BY <4>1, <4>2
    <3>15. /\ new = [i \in 1..(x.range[2] - x.range[1] + 1) |-> x.range[1] + i - 1]
           /\ most = IF ask.limits.ops = 0 THEN MaxOperations ELSE ask.limits.ops
      BY <3>2
    <3>16. /\ UNCHANGED plan
           /\ client' = IF assembler.received + 1 = assembler.expected THEN client \o full ELSE client
           /\ assembler' = [assembler EXCEPT !.received = @ + 1,
                              !.staged = IF assembler.received + 1 = assembler.expected THEN <<>> ELSE full]
      <4> HIDE DEF new, most
      <4> QED BY <1>10, <3>12, <3>13, <3>14, <3>15 DEF accept_part
    <3> HIDE DEF new, most, full
    <3>17. /\ client' = IF r + 1 = n THEN Upto(hi) ELSE <<>>
           /\ assembler' = [expected |-> n, received |-> r + 1, staged |-> IF r + 1 = n THEN <<>> ELSE Upto(hi)]
      <4>1. assembler.received = r /\ assembler.expected = n
        BY <3>9
      <4>2. assembler' = [assembler EXCEPT !.received = @ + 1, !.staged = IF r + 1 = n THEN <<>> ELSE full]
        BY <3>16, <4>1
      <4>3. assembler' = [expected |-> n, received |-> r + 1, staged |-> IF r + 1 = n THEN <<>> ELSE full]
        BY <3>9, <4>2
      <4>4. client' = IF r + 1 = n THEN <<>> \o full ELSE <<>>
        BY <3>9, <3>16, <4>1
      <4>5. <<>> \o Upto(hi) = Upto(hi)
        <5>1. Upto(hi) \in Seq(Nat)
          <6>1. hi <= hi
            BY <3>4
          <6> QED BY <3>4, <6>1, UptoJoins
        <5> QED BY <5>1
      <4> QED BY <3>11, <4>3, <4>4, <4>5
    <3>18. AtMost(r + 1, n) = r + 1 /\ (r + 1 < n <=> r + 1 # n)
      BY <1>2, <3>1 DEF AtMost
    <3>19. client' = IF r + 1 < n THEN <<>> ELSE IF r + 1 = n THEN Upto(total) ELSE Append(Upto(total), "live")
      BY <3>6, <3>17, <3>18
    <3>20. assembler' = [expected |-> n, received |-> AtMost(r + 1, n),
                         staged |-> IF r + 1 < n THEN Upto(PartEnd(P, r + 1)) ELSE <<>>]
      BY <3>7, <3>17, <3>18
    <3> QED BY <3>16, <3>19, <3>20 DEF total
  <2>3. r = n \/ r < n
    BY <1>2, <1>13
  <2> QED BY <2>1, <2>2, <2>3
<1>15. plan' = [stage |-> IF w <= n THEN "sending" ELSE "sent", parts |-> Slice(P, AtMost(w, n), n)]
  BY <1>3, <1>14
<1>16. Delivers(P, s, w, r + 1)'
  BY <1>12, <1>14, <1>15 DEF Delivers, n, g, F
<1> QED BY <1>13, <1>16

\* The plan is made: a refusal is right, and what is announced is what the client expects.
LEMMA SnapPlan ==
  ASSUME SnapSound, PlanDelivery, NEW s, s = ask.snapshot, NEW limits, limits = ask.limits,
         NEW P, P = plan_snapshot_delivery(s, limits)
  PROVE  SnapSound'
<1> DEFINE n == Len(P)
           expected == AtLeastOne(announced_parts(P))
<1>1. s \in Snapshots /\ limits \in ClientLimits
  BY DEF SnapSound
<1>2. plan.stage = "asked" /\ UNCHANGED <<ask, wire, client>>
  BY DEF PlanDelivery
<1>3. plan = [stage |-> "asked", parts |-> <<>>] /\ Quiet /\ assembler = NotStaging /\ client = <<>>
  <2>1. ASSUME NEW Q, NEW w, NEW r, Delivers(Q, s, w, r) PROVE plan.stage # "asked"
    BY <2>1 DEF Delivers
  <2> QED BY <1>2, <2>1 DEF SnapSound
<1>4. IF P = <<>> THEN plan' = [plan EXCEPT !.stage = "refused"] /\ UNCHANGED assembler
      ELSE IF expected > AtLeastOne(limits.parts)
      THEN plan' = [plan EXCEPT !.stage = "failed"] /\ UNCHANGED assembler
      ELSE /\ plan' = [stage |-> "sending", parts |-> P]
           /\ assembler' = [NotStaging EXCEPT !.expected = expected]
  BY Zenon DEF PlanDelivery
<1> HIDE DEF expected
<1>5. CASE P = <<>>
  <2>1. ~DeliverableTo(s, limits)
    BY <1>1, <1>5, RefusedRightly
  <2>2. plan'.stage = "refused"
    BY <1>3, <1>4, <1>5
  <2>3. ask' = ask /\ Quiet' /\ client' = <<>>
    BY <1>2, <1>3 DEF Quiet
  <2> QED BY <1>1, <2>1, <2>2, <2>3 DEF SnapSound
<1>6. CASE P # <<>>
  <2>1. Fits(P, s, limits)
    BY <1>1, <1>6, PlanFits
  <2>2. n \in Nat /\ n >= 1 /\ P \in Seq(Nat \X Nat) /\ n <= AtLeastOne(limits.parts)
    BY <2>1 DEF Fits, Partition
  <2>3. expected = n
    <3> HIDE DEF n
    <3>1. announced_parts(P) = IF n = 1 THEN 0 ELSE n
      BY DEF announced_parts, n
    <3> QED BY <2>2, <3>1 DEF expected, AtLeastOne
  <2>4. AtLeastOne(limits.parts) \in Nat
    <3>1. limits.parts \in Nat
      BY <1>1, FramingAssumption
    <3> QED BY <3>1 DEF AtLeastOne
  <2>5. /\ plan' = [stage |-> "sending", parts |-> P]
        /\ assembler' = [NotStaging EXCEPT !.expected = n]
    <3> DEFINE most == AtLeastOne(limits.parts)
    <3>1. ~(n > most)
      <4> HIDE DEF n, most
      <4>1. n <= most /\ n \in Nat /\ most \in Nat
        BY <2>2, <2>4 DEF most
      <4> QED BY <4>1
    <3> QED BY <1>4, <1>6, <2>3, <3>1
  <2>6. Slice(P, 0, n) = P /\ AtMost(0, n) = 0 /\ 0 <= n /\ 0 < n
    <3>1. \A k \in 1..n : 0 + k = k
      OBVIOUS
    <3>2. n - 0 = n /\ 0 <= n /\ 0 < n
      BY <2>2
    <3>3. Slice(P, 0, n) = [k \in 1..n |-> P[0 + k]]
      BY <3>2 DEF Slice
    <3>4. P = [k \in 1..n |-> P[k]]
      <4> DEFINE V == Nat \X Nat
      <4>1. P \in [1..n -> V]
        BY <1>1, <2>1, PlannedIs
      <4> HIDE DEF n, V
      <4> QED BY <4>1
    <3>5. Slice(P, 0, n) = P
      <4> HIDE DEF n
      <4>1. [k \in 1..n |-> P[0 + k]] = [k \in 1..n |-> P[k]]
        BY <3>1
      <4> QED BY <3>3, <3>4, <4>1
    <3> QED BY <3>2, <3>5 DEF AtMost
  <2>7. Slice(Planned(P, s), 0, 0) = <<>> /\ Upto(PartEnd(P, 0)) = <<>>
    BY DEF Slice, Upto, PartEnd
  <2>8. BytesOf(<<>>) = 0
    <3>1. <<>> \in Seq(Frames)
      OBVIOUS
    <3> QED BY <3>1, BytesCounted
  <2>9. assembler' = [expected |-> n, received |-> 0, staged |-> <<>>]
    BY <2>5 DEF NotStaging
  <2>10. wire' = [frames |-> <<>>, arrived |-> 0] /\ client' = <<>>
    BY <1>2, <1>3 DEF Quiet
  <2>11. wire'.arrived = 0
    BY <2>10
  <2>12. Delivers(P, s, 0, 0)'
    <3>1. plan' = [stage |-> IF 0 <= n THEN "sending" ELSE "sent", parts |-> Slice(P, AtMost(0, n), n)]
      BY <2>5, <2>6
    <3>2. /\ wire' = [frames |-> Slice(Planned(P, s), 0, 0), arrived |-> wire'.arrived]
          /\ wire'.arrived \in Nat /\ wire'.arrived <= BytesOf(Slice(Planned(P, s), 0, 0))
      BY <2>7, <2>8, <2>10, <2>11
    <3>3. assembler' = [expected |-> n, received |-> AtMost(0, n),
                        staged |-> IF 0 < n THEN Upto(PartEnd(P, 0)) ELSE <<>>]
      BY <2>6, <2>7, <2>9
    <3>4. client' = IF 0 < n THEN <<>> ELSE IF 0 = n THEN Upto(Len(s.ops)) ELSE Append(Upto(Len(s.ops)), "live")
      BY <2>6, <2>10
    <3> QED BY <3>1, <3>2, <3>3, <3>4 DEF Delivers
  <2>13. 0 \in 0..(n + 1) /\ 0 \in 0..0
    BY <2>2
  <2>14. ask'.snapshot = s /\ ask'.limits = limits
    BY <1>2
  <2>15. \E w \in 0..(Len(P) + 1) : \E r \in 0..w : Delivers(P, s, w, r)'
    BY <2>12, <2>13
  <2> QED BY <1>1, <2>1, <2>14, <2>15 DEF SnapSound
<1> QED BY <1>5, <1>6

\* A delivery that is under way.
LEMMA SnapUnderWay ==
  ASSUME NEW s, ask.snapshot = s, NEW limits, ask.limits = limits, SnapSound, plan.stage \in {"sending", "sent"}
  PROVE  \E P : /\ Fits(P, s, limits)
                /\ \E w \in 0..(Len(P) + 1) : \E r \in 0..w : Delivers(P, s, w, r)
<1>1. ~(plan = [stage |-> "asked", parts |-> <<>>])
  OBVIOUS
<1> QED BY <1>1 DEF SnapSound

\* It stays under way when a step leads to another such state.
LEMMA SnapGoesOn ==
  ASSUME NEW s \in Snapshots, NEW limits \in ClientLimits, ask'.snapshot = s, ask'.limits = limits,
         NEW P, Fits(P, s, limits), NEW w \in 0..(Len(P) + 1), NEW r \in 0..w, Delivers(P, s, w, r)'
  PROVE  SnapSound'
<1>1. \E u \in 0..(Len(P) + 1) : \E q \in 0..u : Delivers(P, s, u, q)'
  OBVIOUS
<1> QED BY <1>1 DEF SnapSound

\* Every step keeps it.
LEMMA SnapStep ==
  ASSUME SnapSound, SnapNext
  PROVE  SnapSound'
<1>1. PICK s, limits : ask.snapshot = s /\ ask.limits = limits
  OBVIOUS
<1>2. s \in Snapshots /\ limits \in ClientLimits
  BY <1>1 DEF SnapSound
<1>3. ASSUME plan.stage \in {"sending", "sent"}
      PROVE  \E P : /\ Fits(P, s, limits) /\ Len(P) \in Nat
                    /\ \E w \in 0..(Len(P) + 1) : \E r \in 0..w : Delivers(P, s, w, r)
  <2>1. PICK P : /\ Fits(P, s, limits)
                 /\ \E w \in 0..(Len(P) + 1) : \E r \in 0..w : Delivers(P, s, w, r)
    BY <1>1, <1>3, SnapUnderWay
  <2>2. Len(P) \in Nat
    BY <2>1 DEF Fits, Partition
  <2> QED BY <2>1, <2>2
<1>4. CASE PlanDelivery
  <2>1. PICK P : P = plan_snapshot_delivery(s, limits)
    OBVIOUS
  <2> QED BY <1>1, <1>4, <2>1, SnapPlan
<1>5. CASE WritePart
  <2>0. plan.stage = "sending" /\ plan.parts # <<>> /\ UNCHANGED <<ask, assembler, client>>
    BY <1>5 DEF WritePart
  <2>1. PICK P : /\ Fits(P, s, limits) /\ Len(P) \in Nat
                 /\ \E w \in 0..(Len(P) + 1) : \E r \in 0..w : Delivers(P, s, w, r)
    BY <1>3, <2>0
  <2>2. PICK w \in 0..(Len(P) + 1) : \E r \in 0..w : Delivers(P, s, w, r)
    BY <2>1
  <2>3. PICK r \in 0..w : Delivers(P, s, w, r)
    BY <2>2
  <2> DEFINE n == Len(P)
  <2>4. plan.stage = (IF w <= n THEN "sending" ELSE "sent") /\ plan.parts = Slice(P, AtMost(w, n), n)
    BY <2>3 DEF Delivers
  <2>5. w <= n /\ plan.parts = Slice(P, w, n)
    BY <2>0, <2>4 DEF AtMost
  <2>6. /\ P \in [1..n -> Nat \X Nat]
        /\ \A j \in 1..n : Planned(P, s)[j] = Frame("part", P[j], EnvelopeOf(s, P[j]))
    BY <1>2, <2>1, PlannedIs
  <2> HIDE DEF n
  <2>7. n \in Nat /\ w \in Nat /\ w \in 0..n /\ n \in w..n
    BY <2>1, <2>5 DEF n
  <2>8. w < n
    <3>1. Slice(P, w, n) = <<>> <=> n = w
      <4> DEFINE V == Nat \X Nat
      <4>1. P \in [1..n -> Nat \X Nat] /\ n \in Nat /\ w \in 0..n /\ n \in w..n
        BY <2>6, <2>7
      <4>6. Slice(P, w, n) \in Seq(V)
        BY ONLY <4>1, SliceTyped
      <4>7. Len(Slice(P, w, n)) = n - w
        <5> DEFINE d == n - w
        <5>1. d \in Nat
          BY <4>1
        <5>2. Slice(P, w, n) = [k \in 1..d |-> P[w + k]]
          BY DEF Slice
        <5> HIDE DEF d
        <5>3. Len(Slice(P, w, n)) = d
          BY <5>1, <5>2
        <5> QED BY <5>3 DEF d
      <4>2. Len(Slice(P, w, n)) = n - w /\ Slice(P, w, n) \in Seq(V)
        BY <4>6, <4>7
      <4> HIDE DEF V
      <4>3. n - w = 0 <=> n = w
        BY <2>7
      <4> DEFINE g == Slice(P, w, n)
      <4>4. g \in Seq(V) /\ Len(g) = n - w
        BY <4>2
      <4> HIDE DEF g
      <4>5. g = <<>> <=> n - w = 0
        BY <4>4
      <4> QED BY <4>3, <4>5 DEF g
    <3>2. w # n
      BY <2>0, <2>5, <3>1
    <3> QED BY <2>7, <3>2
  <2>9. Head(plan.parts) = P[w + 1]
    BY <2>5, <2>6, <2>7, <2>8, SliceShrinks, ZenonT(60)
  <2>10. w + 1 \in 1..n /\ w + 1 \in 0..(n + 1) /\ r \in 0..(w + 1) /\ w \in 0..n
    BY <2>7, <2>8
  <2>11. Planned(P, s)[w + 1] = Frame("part", P[w + 1], EnvelopeOf(s, P[w + 1]))
    BY <2>6, <2>10
  <2>12. Encode(Planned(P, s)[w + 1])
    BY <1>1, <1>5, <2>9, <2>11 DEF WritePart
  <2>13. Delivers(P, s, w + 1, r)'
    BY <1>2, <2>0, <2>1, <2>3, <2>10, <2>12, DeliversEncode DEF n
  <2> QED BY <1>1, <1>2, <2>0, <2>1, <2>10, <2>13, SnapGoesOn DEF n
<1>6. CASE WriteLive
  <2>0. plan.stage = "sending" /\ plan.parts = <<>> /\ UNCHANGED <<ask, assembler, client>>
        /\ Encode(Frame("live", <<0, 0>>, 2))
    BY <1>6 DEF WriteLive
  <2>1. PICK P : /\ Fits(P, s, limits) /\ Len(P) \in Nat
                 /\ \E w \in 0..(Len(P) + 1) : \E r \in 0..w : Delivers(P, s, w, r)
    BY <1>3, <2>0
  <2>2. PICK w \in 0..(Len(P) + 1) : \E r \in 0..w : Delivers(P, s, w, r)
    BY <2>1
  <2>3. PICK r \in 0..w : Delivers(P, s, w, r)
    BY <2>2
  <2> DEFINE n == Len(P)
  <2>4. plan.stage = (IF w <= n THEN "sending" ELSE "sent") /\ plan.parts = Slice(P, AtMost(w, n), n)
    BY <2>3 DEF Delivers
  <2>5. w <= n /\ plan.parts = Slice(P, w, n)
    BY <2>0, <2>4 DEF AtMost
  <2>6. P \in [1..n -> Nat \X Nat] /\ Planned(P, s)[n + 1] = Frame("live", <<0, 0>>, 2)
    BY <1>2, <2>1, PlannedIs
  <2> HIDE DEF n
  <2>7. n \in Nat /\ w \in Nat /\ w \in 0..n /\ n \in w..n
    BY <2>1, <2>5 DEF n
  <2>8. w = n
    <3>1. Slice(P, w, n) = <<>> <=> n = w
      <4> DEFINE V == Nat \X Nat
      <4>1. P \in [1..n -> Nat \X Nat] /\ n \in Nat /\ w \in 0..n /\ n \in w..n
        BY <2>6, <2>7
      <4>6. Slice(P, w, n) \in Seq(V)
        BY ONLY <4>1, SliceTyped
      <4>7. Len(Slice(P, w, n)) = n - w
        <5> DEFINE d == n - w
        <5>1. d \in Nat
          BY <4>1
        <5>2. Slice(P, w, n) = [k \in 1..d |-> P[w + k]]
          BY DEF Slice
        <5> HIDE DEF d
        <5>3. Len(Slice(P, w, n)) = d
          BY <5>1, <5>2
        <5> QED BY <5>3 DEF d
      <4>2. Len(Slice(P, w, n)) = n - w /\ Slice(P, w, n) \in Seq(V)
        BY <4>6, <4>7
      <4> HIDE DEF V
      <4>3. n - w = 0 <=> n = w
        BY <2>7
      <4> DEFINE g == Slice(P, w, n)
      <4>4. g \in Seq(V) /\ Len(g) = n - w
        BY <4>2
      <4> HIDE DEF g
      <4>5. g = <<>> <=> n - w = 0
        BY <4>4
      <4> QED BY <4>3, <4>5 DEF g
    <3> QED BY <2>0, <2>5, <3>1
  <2>10. w + 1 \in 0..(n + 1) /\ r \in 0..(w + 1)
    BY <2>7, <2>8
  <2>12. Encode(Planned(P, s)[w + 1])
    BY <2>0, <2>6, <2>8
  <2>13. Delivers(P, s, w + 1, r)'
    BY <1>2, <2>0, <2>1, <2>3, <2>7, <2>12, DeliversEncode DEF n
  <2> QED BY <1>1, <1>2, <2>0, <2>1, <2>10, <2>13, SnapGoesOn DEF n
<1>7. CASE Decode
  <2>0. plan.stage \in {"sending", "sent"} /\ UNCHANGED ask
    BY <1>7 DEF Decode
  <2>1. PICK P : /\ Fits(P, s, limits) /\ Len(P) \in Nat
                 /\ \E w \in 0..(Len(P) + 1) : \E r \in 0..w : Delivers(P, s, w, r)
    BY <1>3, <2>0
  <2>2. PICK w \in 0..(Len(P) + 1) : \E r \in 0..w : Delivers(P, s, w, r)
    BY <2>1
  <2>3. PICK r \in 0..w : Delivers(P, s, w, r)
    BY <2>2
  <2>4. r + 1 \in 0..w /\ Delivers(P, s, w, r + 1)'
    BY <1>1, <1>2, <1>7, <2>1, <2>3, DeliversDecode
  <2> QED BY <1>1, <1>2, <2>0, <2>1, <2>4, SnapGoesOn
<1>8. CASE Cut
  <2>0. /\ plan.stage \in {"sending", "sent"} /\ UNCHANGED <<ask, client>>
        /\ plan'.stage = "cut" /\ Quiet'
    BY <1>8 DEF Cut, Quiet
  <2>1. PICK P : /\ Fits(P, s, limits) /\ Len(P) \in Nat
                 /\ \E w \in 0..(Len(P) + 1) : \E r \in 0..w : Delivers(P, s, w, r)
    BY <1>3, <2>0
  <2>2. client \in {<<>>, Upto(Len(s.ops)), Append(Upto(Len(s.ops)), "live")}
    BY <2>1 DEF Delivers
  <2> QED BY <1>1, <1>2, <2>0, <2>2 DEF SnapSound
<1>9. ASSUME NEW k \in 1..BytesOf(wire.frames), Arrive(k) PROVE SnapSound'
  <2>0. /\ wire.arrived + k <= BytesOf(wire.frames) /\ wire' = [wire EXCEPT !.arrived = @ + k]
        /\ UNCHANGED <<ask, plan, assembler, client>>
    BY <1>9 DEF Arrive
  <2>1. CASE Quiet
    <3>1. <<>> \in Seq(Frames)
      OBVIOUS
    <3>2. BytesOf(wire.frames) = 0
      BY <2>1, <3>1, BytesCounted DEF Quiet
    <3> QED BY <3>2
  <2>2. CASE ~Quiet
    <3>1. PICK P : /\ Fits(P, s, limits)
                   /\ \E w \in 0..(Len(P) + 1) : \E r \in 0..w : Delivers(P, s, w, r)
      BY <1>1, <2>2 DEF SnapSound
    <3>2. PICK w \in 0..(Len(P) + 1) : \E r \in 0..w : Delivers(P, s, w, r)
      BY <3>1
    <3>3. PICK r \in 0..w : Delivers(P, s, w, r)
      BY <3>2
    <3> DEFINE G == Slice(Planned(P, s), r, w)
               a == wire.arrived
    <3>4. /\ wire = [frames |-> G, arrived |-> a] /\ a \in Nat
          /\ plan = [stage |-> IF w <= Len(P) THEN "sending" ELSE "sent",
                     parts |-> Slice(P, AtMost(w, Len(P)), Len(P))]
          /\ assembler = [expected |-> Len(P), received |-> AtMost(r, Len(P)),
                          staged |-> IF r < Len(P) THEN Upto(PartEnd(P, r)) ELSE <<>>]
          /\ client = IF r < Len(P) THEN <<>>
                      ELSE IF r = Len(P) THEN Upto(Len(s.ops)) ELSE Append(Upto(Len(s.ops)), "live")
      BY <3>3 DEF Delivers
    <3> HIDE DEF G, a
    <3>5. wire' = [frames |-> G, arrived |-> a + k] /\ a + k <= BytesOf(G)
      <4>1. wire.frames = G /\ wire.arrived = a
        BY <3>4
      <4> QED BY <2>0, <3>4, <4>1
    <3>6. wire'.arrived = a + k /\ a + k \in Nat
      <4>1. a + k \in Nat
        BY <3>4
      <4> QED BY <3>5, <4>1
    <3>7. Delivers(P, s, w, r)'
      BY <2>0, <3>4, <3>5, <3>6 DEF Delivers, G
    <3> QED BY <1>1, <1>2, <2>0, <3>1, <3>7, SnapGoesOn
  <2> QED BY <2>1, <2>2
<1> QED BY <1>4, <1>5, <1>6, <1>7, <1>8, <1>9 DEF SnapNext

\* What every state of a delivery is.
LEMMA SnapInvariant == SnapSpec => []SnapSound
<1>1. SnapInit => SnapSound
  BY DEF SnapInit, SnapSound, Quiet
<1>2. SnapSound /\ [SnapNext]_snapVars => SnapSound'
  <2>1. ASSUME SnapSound, UNCHANGED snapVars PROVE SnapSound'
    <3>1. ask' = ask /\ plan' = plan /\ wire' = wire /\ assembler' = assembler /\ client' = client
      BY <2>1 DEF snapVars
    <3>2. \A P, s, w, r : Delivers(P, s, w, r) => Delivers(P, s, w, r)'
      BY <3>1 DEF Delivers
    <3> QED BY <2>1, <3>1, <3>2 DEF SnapSound, Quiet
  <2> QED BY <2>1, SnapStep
<1> QED BY <1>1, <1>2, PTL DEF SnapSpec

\* A client is refused only when no split of the snapshot fits its limits; otherwise
\* nothing on the way refuses an envelope, and the client applies the whole snapshot
\* in order before anything else, or nothing of it.
THEOREM SnapshotsArriveWhole == SnapSpec => []SnapshotArrives
<1>1. SnapSound => SnapshotArrives
  <2> SUFFICES ASSUME SnapSound PROVE SnapshotArrives
    OBVIOUS
  <2> DEFINE whole == Upto(Len(ask.snapshot.ops))
  <2>1. Deliverable => DeliverableTo(ask.snapshot, ask.limits)
    BY DEF Deliverable, DeliverableTo, FitsCut
  <2>2. ASSUME NEW P, NEW w, NEW r, Delivers(P, ask.snapshot, w, r)
        PROVE  /\ plan.stage \in {"sending", "sent"}
               /\ client \in {<<>>, whole, Append(whole, "live")}
    BY <2>2 DEF Delivers
  <2>3. /\ plan.stage = "refused" => ~DeliverableTo(ask.snapshot, ask.limits)
        /\ plan.stage # "failed"
        /\ client \in {<<>>, whole, Append(whole, "live")}
    BY <2>2 DEF SnapSound
  <2> QED BY <2>1, <2>3 DEF SnapshotArrives, Upto
<1> QED BY <1>1, SnapInvariant, PTL
=============================================================================
