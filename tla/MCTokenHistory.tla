--------------------------- MODULE MCTokenHistory ---------------------------
(* TokenHistory with the configuration of two clients.                     *)
EXTENDS TokenHistory, TLC

CONSTANTS c1, c2, r1, r2

MCClients == {c1, c2}
MCIds == {r1, r2}
Interchangeable == Permutations(MCIds)

MCQuotaOnly == [c \in Clients |-> {"REQ_QUOTA"}]

\* c1 may ask for the next token before it has got the first.
MCInFlight == (c1 :> 2) @@ (c2 :> 1)

MCSockets == (c1 :> 1) @@ (c2 :> 2)

\* Of a window of two ticks, c1 asks for one and may use both, c2 asks for
\* none and may use one.
MCConfig == (c1 :> [min_frac |-> 1, max_frac |-> 2, gpu_mem |-> 1])
         @@ (c2 :> [min_frac |-> 0, max_frac |-> 1, gpu_mem |-> 1])
=============================================================================
