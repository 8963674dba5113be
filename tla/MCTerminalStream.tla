-------------------------- MODULE MCTerminalStream --------------------------
(* The terminal on a ring of two bytes, frames of one byte and reads of one  *)
(* or two: a read of two evicts, a replay takes several frames, and a pump   *)
(* one read late falls behind, is resynced and goes on.  The server restarts *)
(* once; its second program writes little.                                   *)
EXTENDS TerminalStream

MCMaxBytes == <<4, 1>>
=============================================================================
