---------------------------- MODULE MCEventDedupe ----------------------------
(* EventDedupe for TLC.  Clients are interchangeable, and so are event ids. *)
EXTENDS EventDedupe, TLC

PeerSymmetry == Permutations(ClientIds) \cup Permutations(EventIds)
==============================================================================
