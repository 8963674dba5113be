---------------------------- MODULE ChannelPolicy ----------------------------
(***************************************************************************)
(* The policy that protocol/logical-channel-policy.yaml generates for both   *)
(* languages: the weighted cycle of 24 slots and the largest distance        *)
(* between two slots of each class.                                          *)
(***************************************************************************)
EXTENDS Integers, Sequences

LogicalChannelClass ==
  {"control", "input", "ui", "terminalHigh", "terminalNormal", "resource"}

SERVICE_CYCLE ==
  LET slots == << "control", "input", "ui", "control", "input", "terminalHigh",
                  "control", "input", "ui", "control", "input", "terminalNormal",
                  "control", "input", "ui", "control", "input", "terminalHigh",
                  "ui", "control", "input", "terminalNormal", "terminalHigh", "resource" >>
  IN [i \in 0 .. Len(slots) - 1 |-> slots[i + 1]]

max_service_gap ==
  [c \in LogicalChannelClass |->
     CASE c = "control" -> 5
       [] c = "input" -> 5
       [] c = "ui" -> 8
       [] c = "terminalHigh" -> 12
       [] c = "terminalNormal" -> 14
       [] c = "resource" -> 24]
=============================================================================
