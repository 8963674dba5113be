------------------------------ MODULE Sublists ------------------------------
(***************************************************************************)
(* Filtering a sequence by a set, as the code's retain and filter do, and  *)
(* the stable sort of its sort_by.                                         *)
(***************************************************************************)
EXTENDS SequencesExt

\* The elements of seq that are in keep, in their order.
SelectIn(seq, keep) ==
    FoldLeft(LAMBDA kept, x : IF x \in keep THEN Append(kept, x) ELSE kept, <<>>, seq)

\* An element goes behind those it does not precede.
StableSort(seq, Precedes(_, _)) ==
    FoldLeft(LAMBDA sorted, x :
               InsertAt(sorted, 1 + Cardinality({i \in DOMAIN sorted : ~Precedes(x, sorted[i])}), x),
             <<>>, seq)
=============================================================================
