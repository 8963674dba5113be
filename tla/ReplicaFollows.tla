---------------------------- MODULE ReplicaFollows ----------------------------
(***************************************************************************)
(* What the synchronization protocol promises, without any protocol: every  *)
(* client holds a state its session really committed, moves only forward    *)
(* through the commits of that session, and starts over from nothing when   *)
(* it is given another one.                                                 *)
(*                                                                         *)
(* history[i] is the sequence of states that incarnation i of the session   *)
(* committed; a replica mirrors one incarnation at one revision.            *)
(***************************************************************************)
EXTENDS Naturals, Sequences

CONSTANTS Clients, EmptyContent

VARIABLES history, replica

\* What incarnation i held at revision r.
ContentAt(i, r) == IF r = 0 THEN EmptyContent ELSE history[i][r]

Revisions(i) == IF i = 0 THEN {0} ELSE 0..Len(history[i])

Init ==
  /\ history = <<<<>>>>
  /\ replica = [c \in Clients |-> [mirrors |-> 0, rev |-> 0, content |-> EmptyContent]]

\* The current incarnation commits one more revision.
Commit ==
  LET i == Len(history)
  IN  /\ Len(history') = i
      /\ \A j \in 1..(i - 1) : history'[j] = history[j]
      /\ Len(history'[i]) = Len(history[i]) + 1
      /\ SubSeq(history'[i], 1, Len(history[i])) = history[i]
      /\ UNCHANGED replica

\* The session is replaced by one that has committed nothing.
Replace == history' = Append(history, <<>>) /\ UNCHANGED replica

\* A client reaches a later revision of the incarnation it mirrors.
Advance(c) ==
  /\ \E r \in Revisions(replica[c].mirrors) :
       /\ r >= replica[c].rev
       /\ replica' = [replica EXCEPT ![c].rev = r,
                                     ![c].content = ContentAt(replica[c].mirrors, r)]
  /\ UNCHANGED history

\* A client starts over, on the incarnation it had or on a later one.
StartOver(c) ==
  /\ \E i \in replica[c].mirrors..Len(history) :
       replica' = [replica EXCEPT ![c] = [mirrors |-> i, rev |-> 0, content |-> EmptyContent]]
  /\ UNCHANGED history

Next == Commit \/ Replace \/ \E c \in Clients : Advance(c) \/ StartOver(c)

Spec == Init /\ [][Next]_<<history, replica>>

=============================================================================
