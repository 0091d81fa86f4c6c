---------------------------- MODULE MCRecording ----------------------------
(***************************************************************************)
(* Instances of Recording for TLC.                                         *)
(***************************************************************************)
EXTENDS Recording, TLC

(* Every display name, and every id, becomes a file name of its own.       *)
OwnName  == [p \in Peers |-> <<"name", p>>]
OwnId    == [p \in Peers |-> <<"id", p>>]

Symmetry == Permutations(Peers)
=============================================================================
