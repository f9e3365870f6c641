---------------------------- MODULE MCPodManager ----------------------------
(* Two connections, as many requests in flight.  Connections and request   *)
(* ids are interchangeable.                                                *)
EXTENDS PodManager, TLC

CONSTANTS h1, h2, r1, r2

TwoConns == {h1, h2}
TwoIds == {r1, r2}
Interchangeable == Permutations(Conns) \cup Permutations(ReqIds)
=============================================================================
