---------------------------- MODULE TokenHistory ----------------------------
(***************************************************************************)
(* Scheduler with two history variables, which remember of the latest      *)
(* grant of every client what the scheduler does not: whether the client   *)
(* was asking for the next token already, and the limit it was measured    *)
(* against.  With them its promises can be stated for every client,        *)
(* however many requests it has in flight.                                 *)
(***************************************************************************)
EXTENDS Scheduler

VARIABLES
    hasty,      \* clients that were, and those of which a token from then runs
    granted     \* per client: MAX_FRAC at its latest grant, NONE if it never had
                \* one or the sweep understated what it had used

history_vars == <<hasty, granted>>
all_vars == <<vars, history_vars>>

HistoryTypeOK ==
    /\ TypeOK
    /\ hasty \subseteq Clients
    /\ granted \in [Clients -> Nat \cup {NONE}]

HasLiveSlot(c) == \E h \in SlotsOf(history_list, c) : Live(h)

\* The sweep charges c at least what it has used.
FairlyMeasured(c) == usage(window_history, c, now) >= ReferenceUsage(window_history, c, now)

\* Requests that are still in the socket will end the slot when they are handled;
\* those that the handler has taken, or put on the list, have missed it.
Remember(c) ==
    /\ hasty' = IF handling[c] # NONE \/ \E i \in DOMAIN candidates' : candidates'[i].name = c
                THEN hasty \cup {c}
                ELSE IF HasLiveSlot(c) THEN hasty ELSE hasty \ {c}
    /\ granted' = [granted EXCEPT ![c] =
                      IF FairlyMeasured(c) THEN client_info_map[c].MAX_FRAC ELSE NONE]

Granting == daemon_pc = "top" /\ daemon_pc' = "send"

HistoryInit == Init /\ hasty = {} /\ granted = [c \in Clients |-> NONE]

HistoryNext ==
    /\ Next
    /\ IF Granting THEN Remember(selected'.name) ELSE UNCHANGED history_vars

HistorySpec == HistoryInit /\ [][HistoryNext]_all_vars

-----------------------------------------------------------------------------
(* Properties.                                                             *)

\* At most one client that is not hasty holds a token whose quota is running, and
\* while it runs the daemon serves that very client: it neither selects again nor
\* waits for candidates before the slot has ended (scheduler.cpp:473-492).  What
\* a hasty client does takes nobody else's token away.
TokenExclusive ==
    \A h \in history_list : Live(h) /\ h.name \notin hasty =>
        /\ daemon_pc \in ServingPcs /\ selected.name = h.name
        /\ \A g \in history_list : Live(g) /\ g.name \notin hasty => g = h

\* HoldEndsOnReturn, for clients that are not hasty: the daemon stops waiting for
\* the selected client only when its quota has run out or it has given it back.
HoldIsPatient ==
    [][daemon_pc = "hold" /\ daemon_pc' = "top" =>
         \/ now >= deadline
         \/ ~HasLiveSlot(selected.name)
         \/ selected.name \in hasty]_all_vars

\* A client gets the token only below its LIMIT, so it exceeds the LIMIT in force
\* at its latest grant by less than the one slot that took it over, however often
\* it is granted, late, and sharing the window with overlapping slots.
LimitOvershootBounded ==
    \A h \in history_list :
        /\ IsLatestSlot(history_list, h)
        /\ h.name \notin hasty /\ granted[h.name] # NONE
        => ReferenceUsage(window_history, h.name, now) <
             granted[h.name] * window_size(now) * SHARE + (h.end - h.start) * UNIT

-----------------------------------------------------------------------------
(* The token server this implements.                                       *)

Waiting == [c \in Clients |->
      Cardinality({i \in DOMAIN inbox[c] : inbox[c][i].req = "REQ_QUOTA"})
    + (IF handling[c] = NONE THEN 0 ELSE 1)
    + Cardinality({i \in DOMAIN candidates : candidates[i].name = c})]

Holder ==
    IF \E h \in history_list : Live(h) /\ h.name \notin hasty
    THEN (CHOOSE h \in history_list : Live(h) /\ h.name \notin hasty).name ELSE NONE

Token == INSTANCE TokenServer WITH waiting <- Waiting, holder <- Holder

\* Every step of the scheduler is a step of the token server or leaves it alone.
ImplementsTokenServer == Token!Spec
=============================================================================
