--------------------------- MODULE MCMediaStreams ---------------------------
(***************************************************************************)
(* Instances of MediaStreams for TLC.                                      *)
(***************************************************************************)
EXTENDS MediaStreams, TLC

OneWorker == [w \in Workers |-> 0]

(* Identifiers are interchangeable.                                        *)
Identifiers ==
    Permutations(Routers) \cup Permutations(PeerObjects)
      \cup Permutations(Transports) \cup Permutations(Calls)
      \cup Permutations(Streams)
=============================================================================
