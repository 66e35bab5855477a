----------------------------- MODULE MCDocuments -----------------------------
(* Instances of Documents for TLC. *)
EXTENDS Documents, TLC

\* Nothing tells documents, files or workers apart.
Symmetry == Permutations(Docs) \cup Permutations(Files) \cup Permutations(Workers)

=============================================================================
