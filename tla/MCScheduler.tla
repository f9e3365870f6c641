---------------------------- MODULE MCScheduler ----------------------------
(* Scheduler with configurations of two and of three clients.              *)
EXTENDS Scheduler, TLC

CONSTANTS c1, c2, c3

TwoClients == {c1, c2}

\* Of a window of three ticks, c1 asks for one and may use two, c2 asks for
\* none and may use one.
TwoLines == (c1 :> [min_frac |-> 1, max_frac |-> 2, gpu_mem |-> 1])
         @@ (c2 :> [min_frac |-> 0, max_frac |-> 1, gpu_mem |-> 2])
TwoSockets == (c1 :> 1) @@ (c2 :> 2)
OneInFlight == [c \in Clients |-> 1]
TwoInFlight == [c \in Clients |-> 2]
QuotaOnly == [c \in Clients |-> {"REQ_QUOTA"}]

ThreeClients == {c1, c2, c3}

\* c1 stays; c2 and c3 come and go, and c3 is silent.
ThreeSockets == (c1 :> 1) @@ (c2 :> NONE) @@ (c3 :> NONE)
ComeAndGo == {c2, c3}
ThirdSilent == (c1 :> 1) @@ (c2 :> 1) @@ (c3 :> 0)
SecondAsksAll == (c1 :> {"REQ_QUOTA"}) @@ (c2 :> comm_request) @@ (c3 :> {})

\* The line of c2 comes into the file only after the start.
Line == [min_frac |-> 0, max_frac |-> 1, gpu_mem |-> 2]
KnownAtStart == {c1, c3}
LinesAtStart == [c \in KnownAtStart |-> Line]
LaterLines == {Line}
=============================================================================
