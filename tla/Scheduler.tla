------------------------------ MODULE Scheduler ------------------------------
(***************************************************************************)
(* gem-schd (scheduler.cpp): the daemon thread that hands out the token,   *)
(* one handler thread per connected pod manager, the thread that reloads   *)
(* the resource configuration, the two TCP directions between a pod        *)
(* manager and its handler, and the descriptors of these connections.      *)
(*                                                                         *)
(* A critical section of candidate_mutex is one action; so is everything a *)
(* handler does before it takes the mutex.  The condition variable has one *)
(* waiter, the daemon: signalled says that a signal (or a spurious wakeup) *)
(* has reached it; a signal sent while it is not waiting is lost.          *)
(***************************************************************************)
EXTENDS SchedulingPolicy, Sequences, SequencesExt

CONSTANTS
    Clients,        \* names of pod managers that may connect
    Known,          \* the names the configuration file lists at start
    ReqIds,         \* ids of requests
    MAX_IN_FLIGHT,  \* bound: requests a pod manager has in flight
    QUOTA,          \* base quota (command line)
    MIN_QUOTA,      \* lower bound of an adapted quota (command line)
    InitialConfig,  \* the configuration line of every known client
    ConfigLines,    \* lines a later version of the file may hold
    Overuses,       \* overuse a quota request may report
    Bursts,         \* kernel burst a quota request may report
    RequestTypes,   \* bound: requests each pod manager sends
    Sockets,        \* descriptor numbers that accept() can return
    FirstSocket,    \* the descriptor of every pod manager connected at start
    Mortal,         \* pod managers that connect later, or end and start again
    MAX_ENDS,       \* bound: how often one of them ends
    ClockTies,      \* may a slot end exactly where the window begins?
    HORIZON,        \* last clock value the model counts to
    NONE            \* no client, no request

ASSUME QuotaAssumption == QUOTA \in Nat \ {0} /\ MIN_QUOTA \in Nat \ {0}
ASSUME ReportAssumption == Overuses \subseteq Nat /\ Bursts \subseteq Nat
ASSUME ClockTiesAssumption == ClockTies \in BOOLEAN
ASSUME HorizonAssumption == HORIZON \in Nat /\ HORIZON > WINDOW_SIZE

ASSUME SocketAssumption ==
    /\ Sockets \subseteq Nat /\ NONE \notin Sockets
    /\ FirstSocket \in [Clients -> Sockets \cup {NONE}]
    /\ \A c, d \in Clients : FirstSocket[c] = FirstSocket[d] /\ c # d => FirstSocket[c] = NONE
    /\ Mortal \subseteq Clients
    /\ \A c \in Clients \ Mortal : FirstSocket[c] # NONE
ASSUME EndsAssumption == MAX_ENDS \in Nat

comm_request == {"REQ_QUOTA", "REQ_MEM_LIMIT", "REQ_MEM_UPDATE"}

ASSUME RequestTypesAssumption == RequestTypes \in [Clients -> SUBSET comm_request]

\* One line of the resource configuration: REQUEST, LIMIT and GPU_MEM.
ConfigLine == [min_frac : Nat, max_frac : Nat, gpu_mem : Nat]

\* MAX_QUOTA of the ClientInfo built from a line.
MaxQuota(max_frac) == (max_frac * WINDOW_SIZE) \div FRAC_UNIT

ASSUME KnownAssumption == Known \subseteq Clients
ASSUME ConfigAssumption ==
    /\ InitialConfig \in [Known -> ConfigLine]
    /\ ConfigLines \subseteq ConfigLine
    /\ \A c \in Known : MaxQuota(InitialConfig[c].max_frac) > 0
    /\ \A l \in ConfigLines : MaxQuota(l.max_frac) > 0

VARIABLES
    now,              \* ms_since_start()
    client_info_map,  \* per name: its ClientInfo, NONE when absent
    history_list,     \* the set of recorded slots
    candidates,       \* waiting quota requests, in arrival order
    daemon_pc,        \* where schedule_daemon_func is
    selected,         \* its local: the request being served
    quota,            \* its local: the quota granted
    deadline,         \* its local ts, absolute time of the timed wait
    signalled,        \* candidate_cond has been signalled for the daemon
    inbox,            \* per pod manager: requests sent, not yet received
    handling,         \* per handler: request between lines 422 and 423
    outbox,           \* per pod manager: responses sent, not yet received
    outstanding,      \* per pod manager: ids sent and not answered
    client_sock,      \* per pod manager: its handler's descriptor, NONE after close()
    connected,        \* pod managers that are there to receive
    ends              \* how often one has ended

daemon_vars == <<daemon_pc, selected, quota, deadline, signalled>>
conn_vars == <<client_sock, connected, ends>>
net_vars == <<inbox, handling, outbox, outstanding, conn_vars>>
vars == <<now, client_info_map, history_list, candidates, daemon_vars, net_vars>>

ClientInfoType == [MIN_FRAC : Nat, MAX_FRAC : Nat, gpu_mem_limit : Nat,
                   quota_ : Nat, burst_ : Nat]
Slot == [name : Clients, start : Int, end : Int]
Candidate == [socket : Sockets, name : Clients, req_id : ReqIds]
Request == [req_id : ReqIds, req : comm_request, overuse : Overuses \cup {0},
            burst : Bursts \cup {0}]
Response == [req_id : ReqIds, req : comm_request, value : Nat]

ASSUME NoneAssumption ==
    NONE \notin Clients /\ NONE \notin ReqIds /\ NONE \notin ClientInfoType

WaitingPcs == {"idle", "limited", "hold"}
ServingPcs == {"send", "armed", "hold"}

TypeOK ==
    /\ now \in Nat
    /\ client_info_map \in [Clients -> ClientInfoType \cup {NONE}]
    /\ history_list \subseteq Slot
    /\ candidates \in Seq(Candidate)
    /\ daemon_pc \in {"top", "idle", "limited"} \cup ServingPcs
    /\ selected \in Candidate \cup {NONE}
    /\ quota \in Nat
    /\ deadline \in Int
    /\ signalled \in BOOLEAN
    /\ inbox \in [Clients -> Seq(Request)]
    /\ handling \in [Clients -> ReqIds \cup {NONE}]
    /\ outbox \in [Clients -> Seq(Response)]
    /\ outstanding \in [Clients -> SUBSET ReqIds]
    /\ daemon_pc \in ServingPcs => selected \in Candidate
    /\ client_sock \in [Clients -> Sockets \cup {NONE}]
    /\ connected \subseteq Clients
    /\ ends \in 0 .. MAX_ENDS

-----------------------------------------------------------------------------
(* ClientInfo.                                                             *)

ClientInfo(line) ==
    [MIN_FRAC |-> line.min_frac, MAX_FRAC |-> line.max_frac,
     gpu_mem_limit |-> line.gpu_mem, quota_ |-> QUOTA, burst_ |-> 0]

known(name) == client_info_map[name] # NONE

Larger(a, b) == IF a < b THEN b ELSE a
Smaller(a, b) == IF a < b THEN a ELSE b

\* No burst estimate: the static quota, unclipped.  Otherwise the mean of the
\* previous quota and the burst, at least MIN_QUOTA and at most MAX_QUOTA.
get_quota(info) ==
    IF info.burst_ = 0 THEN QUOTA
    ELSE Smaller(Larger((info.burst_ + info.quota_) \div 2, MIN_QUOTA),
                 MaxQuota(info.MAX_FRAC))

\* The last entry of the list under this name.
IsLatestSlot(hist, h) == \A g \in SlotsOf(hist, h.name) : g.start <= h.start

\* Fault: an early return does not shorten the slot.
ReturnNeverEarly(h, overuse) == [h EXCEPT !.end = h.end + overuse]

\* The client may return early, or report how long it ran over.
ReturnTime(h, overuse) == [h EXCEPT !.end = Smaller(now, h.end + overuse)]

update_return_time(name, overuse) ==
    {IF h.name = name /\ IsLatestSlot(history_list, h)
     THEN ReturnTime(h, overuse) ELSE h : h \in history_list}

Record(name, q) == [name |-> name, start |-> now, end |-> now + q]

-----------------------------------------------------------------------------
(* Selecting a candidate (under candidate_mutex).                          *)

window_history == InWindow(history_list, now)

\* On the microsecond clock a slot hardly ever ends at the very instant where
\* the window begins; on a clock of a few ticks it does all the time.
SlotEndsAtWindowStart == \E h \in history_list : h.end = window_start(now)

\* The daemon enters select_candidate() with something to select from.
Selecting ==
    /\ daemon_pc = "top" /\ candidates # <<>>
    /\ ClockTies \/ ~SlotEndsAtWindowStart

\* The first candidate has no slot in the window.
QuickExit == SlotsOf(window_history, Head(candidates).name) = {}

Standing(i) ==
    LET info == client_info_map[candidates[i].name]
        used == usage(window_history, candidates[i].name, now)
    IN  [missing |-> missing(info.MIN_FRAC, used, now),
         remaining |-> remaining(info.MAX_FRAC, used, now),
         usage |-> used]

\* Fault: the limit is not looked at.
AllCandidates == DOMAIN candidates

valid_candidates == {i \in DOMAIN candidates : Standing(i).remaining > 0}

Winners ==
    LET standing == [i \in valid_candidates |-> Standing(i)]
        first == SortedFirst({standing[i] : i \in valid_candidates})
    IN  {i \in valid_candidates : standing[i] \in first}

\* h is *history_list.begin(), the oldest slot of the pruned list.
IsHistoryBegin(h) == \A g \in window_history : h.start <= g.start

\* Fault: the selected entry stays in the list.
GrantKeepsEntry(i) ==
    LET name == candidates[i].name
        q == get_quota(client_info_map[name])
    IN  /\ \A h \in history_list : h.start < now
        /\ selected' = candidates[i]
        /\ quota' = q
        /\ client_info_map' = [client_info_map EXCEPT ![name].quota_ = q]
        /\ history_list' = window_history \cup {Record(name, q)}
        /\ daemon_pc' = "send"
        /\ UNCHANGED <<now, candidates, deadline, signalled, net_vars>>

\* select_candidate() returns entry i; get_quota() and Record() follow under
\* the same mutex.  Two grants are at least one send apart, so the clock has
\* moved since the last recorded start.
Grant(i) ==
    LET name == candidates[i].name
        q == get_quota(client_info_map[name])
    IN  /\ \A h \in history_list : h.start < now
        /\ candidates' = RemoveAt(candidates, i)
        /\ selected' = candidates[i]
        /\ quota' = q
        /\ client_info_map' = [client_info_map EXCEPT ![name].quota_ = q]
        /\ history_list' = window_history \cup {Record(name, q)}
        /\ daemon_pc' = "send"
        /\ UNCHANGED <<now, deadline, signalled, net_vars>>

-----------------------------------------------------------------------------
(* schedule_daemon_func.                                                   *)

\* No candidates: pthread_cond_wait.
WaitForCandidates ==
    /\ daemon_pc = "top" /\ candidates = <<>>
    /\ daemon_pc' = "idle" /\ signalled' = FALSE
    /\ UNCHANGED <<now, client_info_map, history_list, candidates, selected,
                   quota, deadline, net_vars>>

WakeIdle ==
    /\ daemon_pc = "idle" /\ signalled
    /\ daemon_pc' = "top" /\ signalled' = FALSE
    /\ UNCHANGED <<now, client_info_map, history_list, candidates, selected,
                   quota, deadline, net_vars>>

SelectFirst ==
    /\ Selecting
    /\ QuickExit
    /\ Grant(1)

SelectByPriority ==
    /\ Selecting
    /\ ~QuickExit
    /\ \E i \in Winners : Grant(i)

\* Every candidate is at its limit: a timed wait until the first slot of the
\* list leaves the window, or until a request comes in.
SleepUntilWindowMoves ==
    /\ Selecting
    /\ ~QuickExit
    /\ valid_candidates = {}
    /\ history_list' = window_history
    /\ \E h \in window_history :
          /\ IsHistoryBegin(h)
          /\ deadline' = now + (h.end - window_start(now))
    /\ daemon_pc' = "limited" /\ signalled' = FALSE
    /\ UNCHANGED <<now, client_info_map, candidates, selected, quota, net_vars>>

WakeLimited ==
    /\ daemon_pc = "limited" /\ (signalled \/ now >= deadline)
    /\ daemon_pc' = "top" /\ signalled' = FALSE /\ deadline' = 0
    /\ UNCHANGED <<now, client_info_map, history_list, candidates, selected,
                   quota, net_vars>>

\* send() to a descriptor reaches the pod manager that is at its other end now.
\* When there is none any more the response is lost; the return value of send()
\* is not looked at.
Delivered(socket, response) ==
    [c \in Clients |-> IF c \in connected /\ client_sock[c] = socket
                       THEN Append(outbox[c], response) ELSE outbox[c]]

QuotaResponse == [req_id |-> selected.req_id, req |-> "REQ_QUOTA", value |-> quota]

\* Fault: a quota for a pod manager that has gone goes to any other.
SendElsewhere ==
    /\ daemon_pc = "send"
    /\ outbox' = [c \in Clients |->
                      IF c \in connected /\ selected.name \notin connected \ {c}
                      THEN Append(outbox[c], QuotaResponse) ELSE outbox[c]]
    /\ deadline' = now + quota
    /\ quota' = 0
    /\ daemon_pc' = "armed"
    /\ UNCHANGED <<now, client_info_map, history_list, candidates, selected,
                   signalled, inbox, handling, outstanding, conn_vars>>

\* After the mutex is released: send the quota to the descriptor noted in the
\* candidate, then set the deadline of the wait.  The local quota is dead from
\* here on.
SendQuota ==
    /\ daemon_pc = "send"
    /\ outbox' = Delivered(selected.socket, QuotaResponse)
    /\ deadline' = now + quota
    /\ quota' = 0
    /\ daemon_pc' = "armed"
    /\ UNCHANGED <<now, client_info_map, history_list, candidates, selected,
                   signalled, inbox, handling, outstanding, conn_vars>>

\* Take the mutex again and wait; the candidates are not looked at first.
BeginHold ==
    /\ daemon_pc = "armed"
    /\ daemon_pc' = "hold" /\ signalled' = FALSE
    /\ UNCHANGED <<now, client_info_map, history_list, candidates, selected,
                   quota, deadline, net_vars>>

\* Fault: the wait goes on after its client has been forgotten.
EndHoldStays ==
    /\ signalled' = FALSE
    /\ selected' = NONE /\ deadline' = 0
    /\ UNCHANGED <<now, client_info_map, history_list, candidates, daemon_pc, quota, net_vars>>

EndHold ==
    /\ daemon_pc' = "top" /\ signalled' = FALSE
    /\ selected' = NONE /\ deadline' = 0
    /\ UNCHANGED <<now, client_info_map, history_list, candidates, quota, net_vars>>

\* Fault: whoever it is.
SomebodyReturned(name) == candidates # <<>>

HasReturned(name) == \E i \in DOMAIN candidates : candidates[i].name = name

\* Woken: the selected client is back among the candidates.
HoldReturned ==
    /\ daemon_pc = "hold" /\ signalled
    /\ HasReturned(selected.name)
    /\ EndHold

\* Woken by somebody else's request, or by nobody: wait again.
HoldAgain ==
    /\ daemon_pc = "hold" /\ signalled
    /\ ~HasReturned(selected.name)
    /\ signalled' = FALSE
    /\ UNCHANGED <<now, client_info_map, history_list, candidates, daemon_pc,
                   selected, quota, deadline, net_vars>>

\* Fault: any return of the timed wait counts as a timeout.
HoldEndsOnAnyWakeup ==
    /\ daemon_pc = "hold" /\ (signalled \/ now >= deadline)
    /\ EndHold

HoldTimeout ==
    /\ daemon_pc = "hold" /\ now >= deadline
    /\ EndHold

\* POSIX lets a condition wait return without a signal; a timed wait past its
\* deadline returns ETIMEDOUT instead.
SpuriousWakeup ==
    /\ daemon_pc \in WaitingPcs /\ ~signalled
    /\ daemon_pc = "idle" \/ now < deadline
    /\ signalled' = TRUE
    /\ UNCHANGED <<now, client_info_map, history_list, candidates, daemon_pc,
                   selected, quota, deadline, net_vars>>

Daemon ==
    \/ WaitForCandidates \/ WakeIdle
    \/ SelectFirst \/ SelectByPriority \/ SleepUntilWindowMoves \/ WakeLimited
    \/ SendQuota \/ BeginHold \/ HoldReturned \/ HoldAgain \/ HoldTimeout
-----------------------------------------------------------------------------
(* pod_client_func and handle_message: one thread per pod manager.         *)

Received(c, req) == handling[c] = NONE /\ inbox[c] # <<>> /\ Head(inbox[c]).req = req

\* A request under a name that is not configured is ignored, unanswered.
IgnoreUnknown(c) ==
    /\ handling[c] = NONE /\ inbox[c] # <<>> /\ ~known(c)
    /\ inbox' = [inbox EXCEPT ![c] = Tail(@)]
    /\ UNCHANGED <<now, client_info_map, history_list, candidates, daemon_vars,
                   handling, outbox, outstanding, conn_vars>>

\* Fault: a client that is not configured is let through.
HandleUnchecked(c) ==
    LET m == Head(inbox[c]) IN
    /\ Received(c, "REQ_QUOTA")
    /\ history_list' = update_return_time(c, m.overuse)
    /\ handling' = [handling EXCEPT ![c] = m.req_id]
    /\ inbox' = [inbox EXCEPT ![c] = Tail(@)]
    /\ UNCHANGED <<now, client_info_map, candidates, daemon_vars, outbox, outstanding,
                   conn_vars>>

\* REQ_QUOTA, up to the lock: the slot of the client ends, its burst is stored.
\* history_list is written without candidate_mutex.
HandleQuota(c) ==
    LET m == Head(inbox[c]) IN
    /\ Received(c, "REQ_QUOTA") /\ known(c)
    /\ history_list' = update_return_time(c, m.overuse)
    /\ client_info_map' = [client_info_map EXCEPT ![c].burst_ = m.burst]
    /\ handling' = [handling EXCEPT ![c] = m.req_id]
    /\ inbox' = [inbox EXCEPT ![c] = Tail(@)]
    /\ UNCHANGED <<now, candidates, daemon_vars, outbox, outstanding, conn_vars>>

NewCandidate(c) == [socket |-> client_sock[c], name |-> c, req_id |-> handling[c]]

\* Fault: no signal.
PushUnsignalled(c) ==
    /\ handling[c] # NONE
    /\ candidates' = Append(candidates, NewCandidate(c))
    /\ handling' = [handling EXCEPT ![c] = NONE]
    /\ UNCHANGED <<now, client_info_map, history_list, daemon_vars, inbox, outbox,
                   outstanding, conn_vars>>

\* The critical section: push_back and pthread_cond_signal.
PushCandidate(c) ==
    /\ handling[c] # NONE
    /\ candidates' = Append(candidates, NewCandidate(c))
    /\ signalled' = (signalled \/ daemon_pc \in WaitingPcs)
    /\ handling' = [handling EXCEPT ![c] = NONE]
    /\ UNCHANGED <<now, client_info_map, history_list, daemon_pc, selected, quota,
                   deadline, inbox, outbox, outstanding, conn_vars>>

Answer(c, value) ==
    LET m == Head(inbox[c]) IN
    /\ inbox' = [inbox EXCEPT ![c] = Tail(@)]
    /\ outbox' = Delivered(client_sock[c],
                      [req_id |-> m.req_id, req |-> m.req, value |-> value])
    /\ UNCHANGED <<now, client_info_map, history_list, candidates, daemon_vars,
                   handling, outstanding, conn_vars>>

HandleMemLimit(c) ==
    /\ Received(c, "REQ_MEM_LIMIT") /\ known(c)
    /\ Answer(c, client_info_map[c].gpu_mem_limit)

\* Kept for compatibility: always granted.
HandleMemUpdate(c) ==
    /\ Received(c, "REQ_MEM_UPDATE") /\ known(c)
    /\ Answer(c, 1)

Handler(c) ==
    \/ IgnoreUnknown(c) \/ HandleQuota(c) \/ PushCandidate(c)
    \/ HandleMemLimit(c) \/ HandleMemUpdate(c)

-----------------------------------------------------------------------------
(***************************************************************************)
(* monitor_file and read_resource_config: a fresh ClientInfo replaces the  *)
(* old one.  A name that leaves the file keeps its old entry.  The code    *)
(* deletes the old ClientInfo first and takes no mutex: a handler or the   *)
(* daemon that has read the pointer before may go on with it.  As long as  *)
(* the memory keeps its contents this has the effect of that step followed *)
(* by the reload; that the memory has been used again is not modelled.     *)
(***************************************************************************)
ReloadLine(c, line) ==
    /\ client_info_map[c] # ClientInfo(line)
    /\ client_info_map' = [client_info_map EXCEPT ![c] = ClientInfo(line)]
    /\ UNCHANGED <<now, history_list, candidates, daemon_vars, net_vars>>

-----------------------------------------------------------------------------
(***************************************************************************)
(* The pod managers, as far as the scheduler can see them, and the clock.  *)
(* A pod manager may send any request at any time under an id that is not  *)
(* in flight.  The clock has microsecond resolution: it moves between a    *)
(* grant and the next request of the same client.                          *)
(***************************************************************************)
Sendable(c) ==
    [req : RequestTypes[c] \cap {"REQ_QUOTA"}, overuse : Overuses, burst : Bursts]
    \cup [req : RequestTypes[c] \ {"REQ_QUOTA"}, overuse : {0}, burst : {0}]

PodSend(c, r, m) ==
    /\ c \in connected
    /\ r \notin outstanding[c] /\ Cardinality(outstanding[c]) < MAX_IN_FLIGHT[c]
    /\ \A h \in SlotsOf(history_list, c) : h.start < now
    /\ inbox' = [inbox EXCEPT ![c] = Append(@,
                    [req_id |-> r, req |-> m.req, overuse |-> m.overuse, burst |-> m.burst])]
    /\ outstanding' = [outstanding EXCEPT ![c] = @ \cup {r}]
    /\ UNCHANGED <<now, client_info_map, history_list, candidates, daemon_vars,
                   handling, outbox, conn_vars>>

PodRecv(c) ==
    /\ outbox[c] # <<>>
    /\ outstanding' = [outstanding EXCEPT ![c] = @ \ {Head(outbox[c]).req_id}]
    /\ outbox' = [outbox EXCEPT ![c] = Tail(@)]
    /\ UNCHANGED <<now, client_info_map, history_list, candidates, daemon_vars,
                   inbox, handling, conn_vars>>

\* No request can bring the slots of this name back into the window.
Forgettable(name) ==
    \A h \in SlotsOf(history_list, name) :
        \A overuse \in Overuses \cup {0} : BeyondWindow([h EXCEPT !.end = @ + overuse], now)

Earlier(h) == [name |-> h.name, start |-> h.start - 1, end |-> h.end - 1]

\* Time passes.  From HORIZON on only differences of times matter, so the
\* clock stands still and everything measured by it moves back instead;
\* slots that can no longer be seen are dropped.
Tick ==
    /\ IF now < HORIZON
       THEN now' = now + 1 /\ UNCHANGED <<history_list, deadline>>
       ELSE /\ now' = now
            /\ history_list' = {Earlier(h) : h \in
                                   {g \in history_list : ~Forgettable(g.name)}}
            /\ deadline' = IF deadline > now THEN deadline - 1 ELSE deadline
    /\ UNCHANGED <<client_info_map, candidates, daemon_pc, selected, quota,
                   signalled, net_vars>>

-----------------------------------------------------------------------------
(***************************************************************************)
(* Connections.  A pod manager that ends leaves its unread requests in the *)
(* socket.  Its handler still handles them, then recv() returns 0 and it   *)
(* closes the descriptor; requests that it has put on the candidate list   *)
(* stay there, with the number of the closed descriptor.  accept() gives   *)
(* the next connection the lowest free number, whosever it was.            *)
(***************************************************************************)
FreeSockets == Sockets \ {client_sock[c] : c \in Clients}

PodConnects(c) ==
    /\ client_sock[c] = NONE
    /\ \E s \in FreeSockets :
          /\ \A t \in FreeSockets : s <= t
          /\ client_sock' = [client_sock EXCEPT ![c] = s]
    /\ connected' = connected \cup {c}
    /\ UNCHANGED <<now, client_info_map, history_list, candidates, daemon_vars,
                   inbox, handling, outbox, outstanding, ends>>

\* The process ends; what it has not received is lost, what it has sent is not.
PodEnds(c) ==
    /\ c \in connected /\ ends < MAX_ENDS /\ ends' = ends + 1
    /\ connected' = connected \ {c}
    /\ outstanding' = [outstanding EXCEPT ![c] = {}]
    /\ outbox' = [outbox EXCEPT ![c] = <<>>]
    /\ UNCHANGED <<now, client_info_map, history_list, candidates, daemon_vars,
                   inbox, handling, client_sock>>

HandlerDone(c) ==
    /\ c \notin connected /\ client_sock[c] # NONE
    /\ inbox[c] = <<>> /\ handling[c] = NONE

\* recv() returns 0: close(), and the thread ends.
HandlerEnds(c) ==
    /\ HandlerDone(c)
    /\ client_sock' = [client_sock EXCEPT ![c] = NONE]
    /\ UNCHANGED <<now, client_info_map, history_list, candidates, daemon_vars, inbox,
                   handling, outbox, outstanding, connected, ends>>

Connection(c) == PodConnects(c) \/ PodEnds(c) \/ HandlerEnds(c)

-----------------------------------------------------------------------------
Init ==
    /\ now = 1
    /\ client_info_map =
         [c \in Clients |-> IF c \in Known THEN ClientInfo(InitialConfig[c]) ELSE NONE]
    /\ history_list = {} /\ candidates = <<>>
    /\ daemon_pc = "top" /\ selected = NONE /\ quota = 0 /\ deadline = 0
    /\ signalled = FALSE
    /\ inbox = [c \in Clients |-> <<>>] /\ outbox = [c \in Clients |-> <<>>]
    /\ handling = [c \in Clients |-> NONE]
    /\ outstanding = [c \in Clients |-> {}]
    /\ client_sock = FirstSocket
    /\ connected = {c \in Clients : FirstSocket[c] # NONE}
    /\ ends = 0

Next ==
    \/ Daemon
    \/ \E c \in Clients : Handler(c)
    \/ \E c \in Clients, line \in ConfigLines : ReloadLine(c, line)
    \/ \E c \in Clients, r \in ReqIds : \E m \in Sendable(c) : PodSend(c, r, m)
    \/ \E c \in Clients : PodRecv(c)
    \/ \E c \in Mortal : Connection(c)
    \/ SpuriousWakeup
    \/ Tick

Spec == Init /\ [][Next]_vars

\* The clock goes on, the daemon is scheduled again and again although others
\* may take the mutex in between, and every handler runs while there is
\* something for it to do.  Nothing makes a pod manager send, end or come back.
Fairness ==
    /\ WF_vars(Tick)
    /\ SF_vars(Daemon)
    /\ \A c \in Clients : WF_vars(Handler(c) \/ (c \in Mortal /\ HandlerEnds(c)))

FairSpec == Spec /\ Fairness

-----------------------------------------------------------------------------
(* Properties.                                                             *)

Live(h) == h.end > now

Count(c, r, messages) == Cardinality({i \in DOMAIN messages : messages[i].req_id = r})

IsEntry(e, c, r) == e.name = c /\ e.req_id = r

\* How many copies of request r of client c the scheduler and its connection hold.
Copies(c, r) ==
      Count(c, r, inbox[c]) + Count(c, r, outbox[c])
    + (IF handling[c] = r THEN 1 ELSE 0)
    + Cardinality({i \in DOMAIN candidates : IsEntry(candidates[i], c, r)})
    + (IF daemon_pc = "send" /\ IsEntry(selected, c, r) THEN 1 ELSE 0)

\* For a pod manager that stays connected, a request is in exactly one place
\* from its send to its receive: the socket, the handler, the candidate list, the
\* daemon, the socket.  No step loses it or answers it twice, and no answer meant
\* for a pod manager that has ended reaches it, whatever descriptors are given to
\* those that come later.  Only the handler of a client that is not configured
\* may drop a request.
RequestsConserved ==
    [][\A c \in Clients \ Mortal, r \in ReqIds :
         CASE r \notin outstanding'[c] -> Copies(c, r)' = 0
           [] r \in outstanding'[c] \ outstanding[c] -> Copies(c, r)' = 1
           [] OTHER -> \/ Copies(c, r)' = Copies(c, r)
                       \/ ~known(c) /\ Copies(c, r)' = 0]_<<net_vars, candidates, daemon_pc>>

\* Whenever the daemon selects, its event sweep computes each client's equal share
\* of the ticks in the window, whatever overlaps late returns have left in the
\* history.  Left out is the instant at which a slot ends exactly where the
\* window begins: there scheduler.cpp:330-333 takes its end for a second start
\* and charges its client to the end of the sweep.
UsageIsEqualShare ==
    Selecting /\ ~SlotEndsAtWindowStart /\ Shareable(window_history) =>
      \A c \in Clients :
        usage(window_history, c, now) = ReferenceUsage(window_history, c, now)

\* README.md, "REQUEST": a client below its guaranteed share goes first.  When
\* the daemon sorts the valid candidates and one of them is short of its REQUEST,
\* it selects one that is; when none is, one that has used least
\* (schd-priority.cpp:20-25).  Left out are candidates exactly at their REQUEST.
RequirementsFirst ==
    [][Selecting /\ ~QuickExit /\ daemon_pc' = "send"
         /\ (\A i \in valid_candidates : Standing(i).missing # 0) =>
         \E i \in valid_candidates :
            /\ selected' = candidates[i]
            /\ IF \E j \in valid_candidates : Standing(j).missing > 0
               THEN Standing(i).missing > 0
               ELSE \A j \in valid_candidates : Standing(i).usage <= Standing(j).usage]_vars

\* README.md, "work-conserving": once the selected client is back, the daemon
\* is woken and does not sleep on to the end of its quota.
ReturnEndsHold ==
    daemon_pc = "hold" /\ ~signalled => ~HasReturned(selected.name)

\* scheduler.cpp:475, "wait until the selected one's quota time out", and :484,
\* "check if the selected one comes back": the daemon stops waiting only when
\* the quota has run out or the selected client has given it back, so that no
\* slot of it is running.
HoldEndsOnReturn ==
    [][daemon_pc = "hold" /\ daemon_pc' = "top" =>
         now >= deadline \/ \A h \in SlotsOf(history_list, selected.name) : ~Live(h)]_vars

\* Every request on its way to a grant belongs to a configured client, so the
\* daemon never follows the null entry that client_info_map[name] would create
\* (scheduler.cpp:373, :459, :463), however the configuration is reloaded.
CandidatesKnown ==
    /\ \A i \in DOMAIN candidates : known(candidates[i].name)
    /\ \A c \in Clients : handling[c] # NONE => known(c)

Answered(c, r) == \E i \in DOMAIN outbox[c] : outbox[c][i].req_id = r

\* Every request of a client configured from the start, and every quota request
\* that a handler takes, is answered unless its pod manager ends first, however
\* the others behave, whether or not anybody returns the token, and whatever a
\* pod manager that has ended leaves behind on the candidate list.
NoStarvation ==
    \A c \in Clients, r \in ReqIds :
        (r \in outstanding[c] /\ (c \in Known \/ handling[c] = r))
            ~> (Answered(c, r) \/ c \notin connected)
=============================================================================
