-------------------------------- MODULE Lists --------------------------------
(***************************************************************************)
(* What Python's list comprehensions do: parts of a list, in order.        *)
(* (SelectSeq would say the same, but is opaque to the provers.)           *)
(***************************************************************************)
EXTENDS Integers, Sequences, SequencesExt

\* The elements of a list at the indices `at`, in order.
Sublist(list, at) ==
  MapThenFoldSet(LAMBDA x, kept : Append(kept, x), <<>>, LAMBDA i : list[i],
                 LAMBDA s : Max(s), at)
=============================================================================
