--------------------------- MODULE SnapshotFraming ---------------------------
(***************************************************************************)
(* How a catch-up snapshot reaches a client that bounds its frames: the       *)
(* server plans which operations share an envelope, the codec writes the      *)
(* envelopes to the transport, the client decodes them from chunks of any     *)
(* size and stages them until the snapshot is whole.                          *)
(*                                                                         *)
(* An operation is its place in the snapshot; what matters of it is the length *)
(* of its encoding.  A range is the pair of the first and the last place.     *)
(***************************************************************************)
EXTENDS Integers, Sequences, SequencesExt, FiniteSets

CONSTANTS
  Snapshots,       \* [ops: the length of each operation, revision, priority]
  ClientLimits,    \* [frame, parts, ops]: ClientLimits, 0 for no preference
  ServerFrame,     \* the frame size the server advertises, 0 for none
  CodecLimit,      \* DEFAULT_MAX_FRAME_SIZE
  MaxOperations,   \* what a client without an operation limit stages
  VarintBase       \* 128: a varint carries seven bits in a byte

ASSUME FramingAssumption ==
  /\ Snapshots \subseteq [ops : Seq(Nat), revision : Nat, priority : Nat]
  /\ ClientLimits \subseteq [frame : Nat, parts : Nat, ops : Nat]
  /\ ServerFrame \in Nat /\ CodecLimit \in Nat /\ VarintBase \in Nat
  /\ MaxOperations \in Nat /\ \A s \in Snapshots : Len(s.ops) <= MaxOperations

VARIABLES
  ask,             \* the snapshot and the limits of the client: fixed
  plan,            \* the envelopes still to be written, and the server's verdict
  wire,            \* the frames in the transport, and how many bytes have arrived
  assembler,       \* SnapshotAssembler
  client           \* what the client applied, in order

snapVars == <<ask, plan, wire, assembler, client>>

-----------------------------------------------------------------------------
(* Lengths *)

encoded_len_varint(n) ==
  IF n < VarintBase THEN 1 ELSE IF n < VarintBase * VarintBase THEN 2 ELSE 3

\* Tag, length and body.
operation_field_len(body) == 1 + encoded_len_varint(body) + body

\* Fields of proto3 that are zero are not written.
envelope_len(snapshot, operations_len) ==
  LET field(n) == IF n = 0 THEN 0 ELSE 1 + encoded_len_varint(n)
      transaction == operations_len + field(snapshot.revision) + field(snapshot.priority)
  IN  1 + encoded_len_varint(transaction) + transaction

OpsLen(snapshot, range) ==
  FoldLeft(LAMBDA n, body : n + operation_field_len(body), 0,
           SubSeq(snapshot.ops, range[1], range[2]))

EnvelopeOf(snapshot, range) == envelope_len(snapshot, OpsLen(snapshot, range))

-----------------------------------------------------------------------------
(* The plan *)

AtLeastOne(n) == IF n = 0 THEN 1 ELSE n

\* The smallest of the limits that were stated.
FrameLimit(limits) ==
  LET stated == {CodecLimit} \cup ({ServerFrame, limits.frame} \ {0})
  IN  CHOOSE n \in stated : \A m \in stated : n <= m

\* A frame holds at least a transaction without operations.
ASSUME EmptyFits ==
  \A s \in Snapshots, limits \in ClientLimits :
    s.ops = <<>> => EnvelopeOf(s, <<1, 0>>) <= FrameLimit(limits)

Single(n) == <<<<1, n>>>>

\* Packing that measures the operations and forgets the envelope around them.
PackForgetsEnvelope(snapshot, max) ==
  FoldLeft(LAMBDA st, i :
             LET len == operation_field_len(snapshot.ops[i])
             IN  IF i > st.start /\ st.current + len > max
                 THEN [parts |-> Append(st.parts, <<st.start, i - 1>>), start |-> i, current |-> len]
                 ELSE [st EXCEPT !.current = @ + len],
           [parts |-> <<>>, start |-> 1, current |-> 0],
           [i \in 1..Len(snapshot.ops) |-> i])

\* Operations join the envelope that is open until it would not fit the frame.
Pack(snapshot, max) ==
  FoldLeft(LAMBDA st, i :
             LET len == operation_field_len(snapshot.ops[i])
             IN  IF i > st.start /\ envelope_len(snapshot, st.current + len) > max
                 THEN [parts |-> Append(st.parts, <<st.start, i - 1>>), start |-> i, current |-> len]
                 ELSE [st EXCEPT !.current = @ + len],
           [parts |-> <<>>, start |-> 1, current |-> 0],
           [i \in 1..Len(snapshot.ops) |-> i])

\* The empty plan is a refusal: an operation that fits no frame, or too many parts.
plan_snapshot_frames(snapshot, max, max_parts) ==
  LET n == Len(snapshot.ops)
      packed == Pack(snapshot, max)
      parts == Append(packed.parts, <<packed.start, n>>)
  IN  IF EnvelopeOf(snapshot, <<1, n>>) <= max THEN Single(n)
      ELSE IF \E i \in 1..n : EnvelopeOf(snapshot, <<i, i>>) > max THEN <<>>
      ELSE IF Len(parts) > AtLeastOne(max_parts) THEN <<>>
      ELSE parts

plan_snapshot_delivery(snapshot, limits) ==
  IF limits.ops # 0 /\ Len(snapshot.ops) > limits.ops THEN <<>>
  ELSE plan_snapshot_frames(snapshot, FrameLimit(limits), limits.parts)

announced_parts(parts) == IF Len(parts) = 1 THEN 0 ELSE Len(parts)

-----------------------------------------------------------------------------

NotStaging == [expected |-> 0, received |-> 0, staged |-> <<>>]

SnapInit ==
  /\ ask \in [snapshot : Snapshots, limits : ClientLimits]
  /\ plan = [stage |-> "asked", parts |-> <<>>]
  /\ wire = [frames |-> <<>>, arrived |-> 0]
  /\ assembler = NotStaging
  /\ client = <<>>

\* The handshake plans the delivery and announces it, or refuses the client.
PlanDelivery ==
  LET parts == plan_snapshot_delivery(ask.snapshot, ask.limits)
      expected == AtLeastOne(announced_parts(parts))
  IN  /\ plan.stage = "asked"
      /\ IF parts = <<>>
         THEN plan' = [plan EXCEPT !.stage = "refused"] /\ UNCHANGED assembler
         ELSE IF expected > AtLeastOne(ask.limits.parts)   \* SnapshotAssembler::new
         THEN plan' = [plan EXCEPT !.stage = "failed"] /\ UNCHANGED assembler
         ELSE /\ plan' = [stage |-> "sending", parts |-> parts]
              /\ assembler' = [NotStaging EXCEPT !.expected = expected]
      /\ UNCHANGED <<ask, wire, client>>

Frame(kind, range, payload) ==
  [kind |-> kind, range |-> range, header |-> encoded_len_varint(payload), payload |-> payload]

\* SruiCodec::encode refuses what exceeds its own limit.
Encode(frame) ==
  IF frame.payload > CodecLimit
  THEN plan' = [plan EXCEPT !.stage = "failed"] /\ UNCHANGED wire
  ELSE /\ plan' = IF frame.kind = "live" THEN [plan EXCEPT !.stage = "sent"]
                  ELSE [plan EXCEPT !.parts = Tail(@)]
       /\ wire' = [wire EXCEPT !.frames = Append(@, frame)]

\* The split writes the envelopes in order.
WritePart ==
  /\ plan.stage = "sending" /\ plan.parts # <<>>
  /\ Encode(Frame("part", Head(plan.parts), EnvelopeOf(ask.snapshot, Head(plan.parts))))
  /\ UNCHANGED <<ask, assembler, client>>

\* The first transaction after the snapshot; the outbound queue keeps it small.
WriteLive ==
  /\ plan.stage = "sending" /\ plan.parts = <<>>
  /\ Encode(Frame("live", <<0, 0>>, 2))
  /\ UNCHANGED <<ask, assembler, client>>

BytesOf(frames) == FoldLeft(LAMBDA n, f : n + f.header + f.payload, 0, frames)

\* The transport delivers bytes, wherever the frames begin and end.
Arrive(n) ==
  /\ wire.arrived + n <= BytesOf(wire.frames)
  /\ wire' = [wire EXCEPT !.arrived = @ + n]
  /\ UNCHANGED <<ask, plan, assembler, client>>

\* SnapshotAssembler::accept, and the applier behind it.  A live transaction is
\* applied only by a client whose snapshot is whole.
accept_part(frame) ==
  LET ops == [i \in 1..(frame.range[2] - frame.range[1] + 1) |-> frame.range[1] + i - 1]
      staged == assembler.staged \o ops
      most == IF ask.limits.ops = 0 THEN MaxOperations ELSE ask.limits.ops
      done == assembler.received = assembler.expected
  IN  IF frame.kind = "live" /\ done
      THEN client' = Append(client, "live") /\ UNCHANGED <<assembler, plan>>
      ELSE IF \/ frame.kind = "live" \/ done
              \/ assembler.expected > 1 /\ ops = <<>>
              \/ Len(staged) > most
      THEN plan' = [plan EXCEPT !.stage = "failed"] /\ UNCHANGED <<assembler, client>>
      ELSE /\ UNCHANGED plan
           /\ LET whole == assembler.received + 1 = assembler.expected
              IN  /\ client' = IF whole THEN client \o staged ELSE client
                  /\ assembler' = [assembler EXCEPT !.received = @ + 1,
                                                    !.staged = IF whole THEN <<>> ELSE staged]

\* SruiCodec::decode peeks the length, refuses what the client does not take, and
\* leaves a frame that has not arrived whole in the buffer.
Decode ==
  /\ wire.arrived > 0 /\ plan.stage \in {"sending", "sent"}
  /\ LET frame == Head(wire.frames)
         limit == IF ask.limits.frame = 0 THEN CodecLimit ELSE ask.limits.frame
     IN  /\ wire.arrived >= frame.header
         /\ IF frame.payload > limit
            THEN plan' = [plan EXCEPT !.stage = "failed"] /\ UNCHANGED <<wire, assembler, client>>
            ELSE /\ wire.arrived >= frame.header + frame.payload
                 /\ wire' = [frames |-> Tail(wire.frames),
                             arrived |-> wire.arrived - frame.header - frame.payload]
                 /\ accept_part(frame)
  /\ UNCHANGED ask

\* The connection is lost: what was staged is dropped with it.
Cut ==
  /\ plan.stage \in {"sending", "sent"}
  /\ plan' = [stage |-> "cut", parts |-> <<>>]
  /\ wire' = [frames |-> <<>>, arrived |-> 0]
  /\ assembler' = NotStaging
  /\ UNCHANGED <<ask, client>>

SnapNext ==
  \/ PlanDelivery \/ WritePart \/ WriteLive \/ Decode \/ Cut
  \/ \E n \in 1..BytesOf(wire.frames) : Arrive(n)

SnapSpec == SnapInit /\ [][SnapNext]_snapVars

-----------------------------------------------------------------------------
(* Properties *)

\* Some way to cut the snapshot into contiguous envelopes fits the client.
Deliverable ==
  LET n == Len(ask.snapshot.ops)
      fits(cuts) ==
        \A i \in {1} \cup {c + 1 : c \in cuts} : \A j \in (cuts \cup {n}) :
          (i <= j /\ ~\E c \in cuts : i <= c /\ c < j) =>
            EnvelopeOf(ask.snapshot, <<i, j>>) <= FrameLimit(ask.limits)
  IN  /\ ask.limits.ops # 0 => n <= ask.limits.ops
      /\ \E cuts \in SUBSET (1..(n - 1)) :
           Cardinality(cuts) + 1 <= AtLeastOne(ask.limits.parts) /\ fits(cuts)

\* A client is refused at the handshake only when no split of the snapshot fits its
\* limits; otherwise no envelope is refused on the way by the codec at either end or
\* by the assembler, however the transport cuts the bytes, and the client applies all
\* of the snapshot in order before anything else, or nothing of it (§18, §26).
SnapshotArrives ==
  /\ plan.stage = "refused" => ~Deliverable
  /\ plan.stage # "failed"
  /\ LET whole == [i \in 1..Len(ask.snapshot.ops) |-> i]
     IN  client \in {<<>>, whole, Append(whole, "live")}
=============================================================================
