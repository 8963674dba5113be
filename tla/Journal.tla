------------------------------- MODULE Journal -------------------------------
(***************************************************************************)
(* The bounded transaction journal (TransactionJournal) as operators on one *)
(* journal record: a window of the last MaxEntries commits and the two      *)
(* revisions it spans.                                                      *)
(***************************************************************************)
EXTENDS Naturals, Sequences

CONSTANT MaxEntries   \* retention, at least one (max_entries.max(1))

ASSUME MaxEntriesAssumption == MaxEntries \in Nat \ {0}

NewJournal == [entries |-> <<>>, earliest |-> 0, latest |-> 0]

\* An empty journal takes any first transaction.
CheckContiguity(journal, tx) == journal.entries # <<>> => tx.base = journal.latest

\* The earliest revision a replay can start from, once tx is in and, when the
\* journal is full, its oldest entry is out.
EarliestAfter(journal, tx) ==
  IF Len(journal.entries) >= MaxEntries THEN Head(journal.entries).new
  ELSE IF journal.entries = <<>> THEN tx.base ELSE journal.earliest

AppendEntry(journal, tx) ==
  LET kept == IF Len(journal.entries) >= MaxEntries
              THEN Tail(journal.entries) ELSE journal.entries
  IN  [entries |-> Append(kept, tx), earliest |-> EarliestAfter(journal, tx),
       latest |-> tx.new]

\* iter_from answers Some exactly here: inside the window, and not past the
\* end of the entries (the count check of the code).
CanReplayFrom(journal, from) ==
  /\ journal.earliest <= from /\ from <= journal.latest
  /\ from # journal.latest => from - journal.earliest <= Len(journal.entries)

ReplayFrom(journal, from) ==
  IF from = journal.latest THEN <<>>
  ELSE SubSeq(journal.entries, (from - journal.earliest) + 1, Len(journal.entries))

=============================================================================
