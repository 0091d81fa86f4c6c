------------------------------- MODULE MCChat -------------------------------
(***************************************************************************)
(* Instances of Chat for TLC.                                              *)
(***************************************************************************)
EXTENDS Chat, TLC

CONSTANTS s1, s2, s3

EarlierSockets == {s1, s2}

(* The sockets that are there first are interchangeable.                   *)
Hosts == Permutations(Earlier)
=============================================================================
