----------------------------- MODULE TokenServer -----------------------------
(***************************************************************************)
(* What gem-schd promises its pod managers, without windows, histories,    *)
(* descriptors, threads or clocks: one token, given to one waiting client  *)
(* at a time and back before the next grant; only a request of a client    *)
(* that the configuration does not know may go unanswered.  A client that  *)
(* is granted the token while it already asks for the next one is hasty:   *)
(* its token is not waited for, which affects nobody else's.               *)
(***************************************************************************)
EXTENDS Naturals

CONSTANTS Clients, Known, NONE

VARIABLES
    waiting,    \* per client: how many of its quota requests are not granted
    holder,     \* the client whose token is running and waited for, or NONE
    hasty       \* the hasty clients

vars == <<waiting, holder, hasty>>

TypeOK ==
    /\ waiting \in [Clients -> Nat]
    /\ holder \in Clients \cup {NONE}
    /\ hasty \subseteq Clients

Init == waiting = [c \in Clients |-> 0] /\ holder = NONE /\ hasty = {}

Ask(c) ==
    /\ waiting' = [waiting EXCEPT ![c] = @ + 1]
    /\ UNCHANGED <<holder, hasty>>

GiveBack ==
    /\ holder # NONE
    /\ holder' = NONE
    /\ UNCHANGED <<waiting, hasty>>

Served(c) ==
    /\ holder = NONE
    /\ waiting[c] > 0
    /\ waiting' = [waiting EXCEPT ![c] = @ - 1]

Grant(c) ==
    /\ Served(c)
    /\ holder' = c
    /\ hasty' = hasty \ {c}

\* Only to a client that is asking again, or of which an earlier token is out.
GrantHasty(c) ==
    /\ Served(c)
    /\ waiting[c] > 1 \/ c \in hasty
    /\ holder' = NONE
    /\ hasty' = hasty \cup {c}

\* Requests of clients the configuration does not know need no answer.
Refuse(c) ==
    /\ c \notin Known /\ waiting[c] > 0
    /\ waiting' = [waiting EXCEPT ![c] = @ - 1]
    /\ UNCHANGED <<holder, hasty>>

Next ==
    \/ \E c \in Clients : Ask(c) \/ Grant(c) \/ GrantHasty(c) \/ Refuse(c)
    \/ GiveBack

Spec == Init /\ [][Next]_vars
=============================================================================
