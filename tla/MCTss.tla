------------------------------- MODULE MCTss -------------------------------
(* Instances of Tss for TLC. *)
EXTENDS Tss, TLC

\* Participants are interchangeable, and so are key lists.
Symmetry == Permutations(Participant) \cup Permutations(Key)
=============================================================================
