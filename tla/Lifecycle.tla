------------------------------ MODULE Lifecycle ------------------------------
(***************************************************************************)
(* The life of a session and what its clients are promised.                  *)
(*                                                                         *)
(* A session advertises profiles (required and optional) and a table that     *)
(* gives every extension profile a namespace.  Both may change only before     *)
(* the first client: registering an extension, or creating a terminal, which   *)
(* prepares the type under the session lock, spawns the pty outside it,        *)
(* commits the node and takes everything back when a step fails.  A handshake   *)
(* captures the promise under the lock, exports the snapshot outside it and    *)
(* subscribes under it again when nothing was committed in between.           *)
(***************************************************************************)
EXTENDS Integers, FiniteSets

CONSTANTS
  Clients,          \* client instances, one connection each at a time
  Creators,         \* threads of the application that create terminals
  Capabilities,     \* the configurations a session may be built with
  Requests,         \* the hellos and resumes each client sends
  MaxAttempts,      \* MAX_OPTIMISTIC_SNAPSHOT_EXPORT_ATTEMPTS
  MaxCommits, MaxCreates

ASSUME ClientsAssumption == IsFiniteSet(Clients)

VARIABLES
  life,             \* the lifecycle fields of SessionInner
  contract,         \* capabilities and extension_namespaces
  revision,         \* of the store
  nodes,            \* the namespaces of the types of committed extension nodes
  conn,             \* the connection of each client
  told,             \* what each client was last told
  creator,          \* create_terminal_node as each thread runs it
  streams           \* the live pty streams: the creator that spawned each

lifeVars == <<life, contract, revision, nodes, conn, told, creator, streams>>

-----------------------------------------------------------------------------
(* Profiles.  A text is a name and a version; version 0 stands for one that is   *)
(* missing, zero or no number.                                                 *)

Parses(text) == text.name # "" /\ text.version > 0

standard_widgets_v1 == [name |-> "org.srui.standard-widgets", version |-> 1]
terminal_v1 == [name |-> "org.srui.terminal", version |-> 1]
coding_v1 == [name |-> "org.srui.coding", version |-> 1]

\* The reserved mapping is by name, without a version.
standard_uri == [name |-> "org.srui.standard-widgets", version |-> 0]
standard_namespace_mapping == [uri |-> standard_uri, namespace |-> 0]

Unsatisfied(offered, required) == required \ offered

MappingsOf(table, uri) == {m \in table : m.uri = uri}

validate_extension_namespace_contract(c) ==
  /\ MappingsOf(c.table, standard_uri) = {standard_namespace_mapping}
  /\ \A p \in c.required \cup c.optional :
       IF p.name = standard_uri.name THEN p = standard_widgets_v1
       ELSE /\ Cardinality(MappingsOf(c.table, p)) = 1
            /\ \A m \in MappingsOf(c.table, p) : m.namespace # 0
  /\ \A m \in c.table :
       \/ m.uri = standard_uri
       \/ /\ m.namespace # 0
          /\ Parses(m.uri) /\ m.uri.name # standard_uri.name
          /\ m.uri \in c.required \cup c.optional
  /\ \A m, n \in c.table : m # n => m.namespace # n.namespace /\ m.uri # n.uri

\* The lowest nonzero namespace not in use.
next_extension_namespace(table) ==
  LET used == {m.namespace : m \in table}
  IN  CHOOSE n \in 1..(Cardinality(table) + 1) :
        n \notin used /\ \A k \in 1..(n - 1) : k \in used

-----------------------------------------------------------------------------
(* The session *)

NotTold == [required |-> {}, optional |-> {}, table |-> {}]
NoRequest == [kind |-> "none", version |-> "", offer |-> {}, replaced |-> FALSE]
NoConn == [phase |-> "off", request |-> NoRequest, attempts |-> 0, promise |-> NotTold,
           at |-> 0, cause |-> "none"]
NoCreation == [step |-> "idle", namespace |-> 0, was_required |-> FALSE, was_optional |-> FALSE,
               created |-> 0, runs |-> 0]

\* Session::with_config
LifeInit ==
  /\ \E caps \in Capabilities :
       contract = [required |-> caps.required, optional |-> caps.optional,
                   table |-> {standard_namespace_mapping}]
  /\ life = [state |-> "detached", attached |-> 0, negotiated |-> FALSE, draining |-> FALSE]
  /\ revision = 0
  /\ nodes = {}
  /\ conn = [c \in Clients |-> NoConn]
  /\ told = [c \in Clients |-> NotTold]
  /\ creator = [k \in Creators |-> NoCreation]
  /\ streams = {}

is_terminal(state) == state \in {"terminating", "expired"}

\* The promise is open to change while no client has seen or is asking for it.
Unpromised == life.attached = 0 /\ ~life.negotiated

attach(c) ==
  /\ conn[c].phase = "off"
  /\ ~is_terminal(life.state)
  /\ life' = [life EXCEPT !.attached = @ + 1, !.state = "attached"]
  /\ conn' = [conn EXCEPT ![c] = [NoConn EXCEPT !.phase = "attached"]]
  /\ UNCHANGED <<contract, revision, nodes, told, creator, streams>>

\* A detach that forgets to ask whether the session has ended.
DetachForgetsEnd(l) ==
  [l EXCEPT !.attached = IF @ = 0 THEN 0 ELSE @ - 1,
            !.state = IF l.attached <= 1 THEN "detached" ELSE @]

detach_internal(l) ==
  [l EXCEPT !.attached = IF @ = 0 THEN 0 ELSE @ - 1,
            !.state = IF l.attached <= 1 /\ @ = "attached" THEN "detached" ELSE @]

\* The transport ends, the handshake failed or timed out, or the daemon stops.
Detach(c) ==
  /\ conn[c].phase \in {"attached", "live", "ending"}
  /\ conn' = [conn EXCEPT ![c] = NoConn]
  /\ life' = detach_internal(life)
  /\ UNCHANGED <<contract, revision, nodes, told, creator, streams>>

\* terminate and expire mark the session and shut the terminals down afterwards.
End(state) ==
  /\ life' = [life EXCEPT !.state = state, !.draining = TRUE]
  /\ UNCHANGED <<contract, revision, nodes, conn, told, creator, streams>>

terminate == End("terminating")
expire == End("expired")

shutdown_terminals ==
  /\ life.draining
  /\ life' = [life EXCEPT !.draining = FALSE]
  /\ streams' = {}
  /\ UNCHANGED <<contract, revision, nodes, conn, told, creator>>

\* A transaction of the application.
Commit ==
  /\ revision < MaxCommits
  /\ revision' = revision + 1
  /\ UNCHANGED <<life, contract, nodes, conn, told, creator, streams>>

-----------------------------------------------------------------------------
(* The handshake *)

core_version_is_compatible(version) == version = "0.5"

\* Texts that do not parse are passed over.
negotiate_client(request) ==
  /\ core_version_is_compatible(request.version)
  /\ Unsatisfied({t \in request.offer : Parses(t)}, contract.required) = {}
  /\ validate_extension_namespace_contract(contract)

\* Why the client needs a snapshot: a hello always does; a resume asks for another
\* incarnation, or the queue overflowed or the journal moved on, which the outbound
\* hub and the journal decide anew each time they are asked, or it can be replayed.
CausesFor(request) ==
  IF request.kind = "hello" THEN {"hello"}
  ELSE IF request.replaced THEN {"replaced"}
  ELSE {"overflow", "gap", "none"}

RefuseHandshake(c) ==
  /\ conn' = [conn EXCEPT ![c] = [NoConn EXCEPT !.phase = "ending"]]
  /\ UNCHANGED <<life, told>>

\* Subscribing fixes the promise.  The answer reaches the client or is lost with
\* the connection: a terminal cannot be attached, or the write fails.
subscribe_client_locked(c, promise) ==
  /\ life' = [life EXCEPT !.negotiated = TRUE]
  /\ \/ /\ told' = [told EXCEPT ![c] = promise]
        /\ conn' = [conn EXCEPT ![c] = [NoConn EXCEPT !.phase = "live"]]
     \/ /\ told' = told
        /\ conn' = [conn EXCEPT ![c] = [NoConn EXCEPT !.phase = "ending"]]

\* The first message of a connection; only a client that was told of the session
\* resumes it, or resumes one that is gone.
Request(c, request) ==
  /\ conn[c].phase = "attached"
  /\ request.kind = "resume" => told[c] # NotTold \/ request.replaced
  /\ conn' = [conn EXCEPT ![c].phase = "asking", ![c].request = request]
  /\ UNCHANGED <<life, contract, revision, nodes, told, creator, streams>>

\* One turn of the bootstrap loop: refuse, answer with a replay, capture the
\* promise for an export outside the lock, or, after MaxAttempts of those, export
\* and answer under it.
Bootstrap(c, cause, deliverable) ==
  /\ conn[c].phase = "asking"
  /\ cause \in CausesFor(conn[c].request)
  /\ IF ~negotiate_client(conn[c].request) THEN RefuseHandshake(c)
     ELSE IF cause = "none" THEN subscribe_client_locked(c, contract)
     ELSE IF conn[c].attempts < MaxAttempts
     THEN /\ conn' = [conn EXCEPT ![c].phase = "exporting", ![c].promise = contract,
                                  ![c].at = revision, ![c].cause = cause]
          /\ UNCHANGED <<life, told>>
     ELSE IF deliverable THEN subscribe_client_locked(c, contract)
     ELSE RefuseHandshake(c)
  /\ UNCHANGED <<contract, revision, nodes, creator, streams>>

\* The lock is taken again after the export.  A commit in the meantime, or another
\* cause by now, starts over.  What a hello answers was captured before the export,
\* what a resync answers is read now.
Exported(c, cause, deliverable) ==
  /\ conn[c].phase = "exporting"
  /\ cause \in CausesFor(conn[c].request)
  /\ IF conn[c].at # revision \/ conn[c].cause # cause
     THEN /\ conn' = [conn EXCEPT ![c].phase = "asking", ![c].attempts = @ + 1]
          /\ UNCHANGED <<life, told>>
     ELSE IF deliverable
     THEN subscribe_client_locked(c, IF cause = "hello" THEN conn[c].promise ELSE contract)
     ELSE RefuseHandshake(c)
  /\ UNCHANGED <<contract, revision, nodes, creator, streams>>

-----------------------------------------------------------------------------
(* Extensions and terminals *)

\* The reserved profiles are refused before the lock is taken.
register_optional_extension_profile(p) ==
  /\ p \notin {standard_widgets_v1, terminal_v1}
  /\ Unpromised
  /\ p \notin contract.required
  /\ contract' = [contract EXCEPT
       !.optional = @ \cup {p},
       !.table = IF MappingsOf(@, p) # {} THEN @
                 ELSE @ \cup {[uri |-> p, namespace |-> next_extension_namespace(@)]}]
  /\ UNCHANGED <<life, revision, nodes, conn, told, creator, streams>>

prepare_terminal_type(k) ==
  /\ creator[k].step = "idle" /\ creator[k].runs < MaxCreates
  /\ IF ~Unpromised
     THEN creator' = [creator EXCEPT ![k].runs = @ + 1] /\ UNCHANGED contract
     ELSE LET mapped == MappingsOf(contract.table, terminal_v1)
              ns == IF mapped = {} THEN next_extension_namespace(contract.table)
                    ELSE (CHOOSE m \in mapped : TRUE).namespace
          IN  /\ contract' = [required |-> contract.required \cup {terminal_v1},
                              optional |-> contract.optional \ {terminal_v1},
                              table |-> contract.table \cup {[uri |-> terminal_v1, namespace |-> ns]}]
              /\ creator' = [creator EXCEPT ![k] =
                   [step |-> "prepared", namespace |-> ns, runs |-> @.runs + 1,
                    was_required |-> terminal_v1 \in contract.required,
                    was_optional |-> terminal_v1 \in contract.optional,
                    created |-> IF mapped = {} THEN ns ELSE 0]]
  /\ UNCHANGED <<life, revision, nodes, conn, told, streams>>

\* The pty is spawned outside the session lock.
SpawnPty(k, ok) ==
  /\ creator[k].step = "prepared"
  /\ streams' = IF ok THEN streams \cup {k} ELSE streams
  /\ creator' = [creator EXCEPT ![k].step = IF ok THEN "spawned" ELSE "undoing"]
  /\ UNCHANGED <<life, contract, revision, nodes, conn, told>>

\* The node is committed, or the transaction is refused: its parent is gone, its id taken.
CommitTerminal(k, ok) ==
  /\ creator[k].step = "spawned"
  /\ IF ok /\ revision < MaxCommits
     THEN /\ nodes' = nodes \cup {creator[k].namespace}
          /\ revision' = revision + 1
          /\ creator' = [creator EXCEPT ![k] = [NoCreation EXCEPT !.runs = creator[k].runs]]
     ELSE /\ creator' = [creator EXCEPT ![k].step = "closing"]
          /\ UNCHANGED <<nodes, revision>>
  /\ UNCHANGED <<life, contract, conn, told, streams>>

\* PTYManager::close on the way back.
ClosePty(k) ==
  /\ creator[k].step = "closing"
  /\ streams' = streams \ {k}
  /\ creator' = [creator EXCEPT ![k].step = "undoing"]
  /\ UNCHANGED <<life, contract, revision, nodes, conn, told>>

\* A rollback that does not ask whether a handshake was answered in the meantime.
RollBackAnyway == streams = {}

MayRollBack == Unpromised /\ streams = {}

rollback_terminal_type(k) ==
  /\ creator[k].step = "undoing"
  /\ LET r == creator[k]
     IN  contract' = IF ~MayRollBack THEN contract
                     ELSE [required |-> IF r.was_required THEN contract.required
                                        ELSE contract.required \ {terminal_v1},
                           optional |-> contract.optional \cup
                                        (IF r.was_optional THEN {terminal_v1} ELSE {}),
                           table |-> IF r.created = 0 THEN contract.table
                                     ELSE {m \in contract.table : m.namespace # r.created}]
  /\ creator' = [creator EXCEPT ![k] = [NoCreation EXCEPT !.runs = creator[k].runs]]
  /\ UNCHANGED <<life, revision, nodes, conn, told, streams>>

-----------------------------------------------------------------------------

ResyncCauses == {"hello", "replaced", "overflow", "gap", "none"}

LifeNext ==
  \/ \E c \in Clients :
       \/ attach(c) \/ Detach(c)
       \/ \E request \in Requests[c] : Request(c, request)
       \/ \E cause \in ResyncCauses, deliverable \in BOOLEAN :
            Bootstrap(c, cause, deliverable) \/ Exported(c, cause, deliverable)
  \/ terminate \/ expire \/ shutdown_terminals \/ Commit
  \/ \E p \in {coding_v1, terminal_v1} : register_optional_extension_profile(p)
  \/ \E k \in Creators :
       \/ prepare_terminal_type(k) \/ ClosePty(k) \/ rollback_terminal_type(k)
       \/ \E ok \in BOOLEAN : SpawnPty(k, ok) \/ CommitTerminal(k, ok)

LifeSpec == LifeInit /\ [][LifeNext]_lifeVars

-----------------------------------------------------------------------------
(* Properties *)

\* What a client was told in a welcome, a resume or a resync is what the session
\* offers for the rest of its life: no registration, and no terminal whose creation
\* fails half-way while the client is shaking hands, changes the profiles or the
\* namespaces its types are read with (§15, §21).
ContractKept == \A c \in Clients : told[c] # NotTold => told[c] = contract

\* A session that ended never lives again, and while it lives it is attached exactly
\* when a connection holds a guard: attach and detach race with terminate and expire.
LifecycleSound ==
  [][/\ is_terminal(life.state) => is_terminal(life'.state)
     /\ life'.attached = Cardinality({c \in Clients : conn'[c].phase # "off"})
     /\ ~is_terminal(life'.state) => (life'.state = "attached") = (life'.attached > 0)]_lifeVars

\* Every extension node has a type whose namespace the session's table explains
\* (handshake.rs refuses to send "a response whose numeric type references cannot be
\* decoded"), whatever other threads do while create_terminal_node runs.
TypesDecodable == \A ns \in nodes : \E m \in contract.table : m.namespace = ns
=============================================================================
