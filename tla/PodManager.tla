----------------------------- MODULE PodManager -----------------------------
(***************************************************************************)
(* gem-pmgr (pod-manager.cpp), the path of a kernel launch: one service    *)
(* thread per connection of a hook library (hook_thread_func and           *)
(* hook_kernel_launch), the thread that forwards quota requests to the     *)
(* scheduler and the thread that receives its responses.                   *)
(*                                                                         *)
(* A critical section of a mutex is one action, and so is a read or write  *)
(* the code makes outside of any mutex.  A thread inside pthread_cond_wait *)
(* is at a program counter of its own; a signal or broadcast moves only    *)
(* the threads that are there, all others never see it.                    *)
(***************************************************************************)
EXTENDS Naturals, Sequences, FiniteSets, SequencesExt, FiniteSetsExt

CONSTANTS
    Conns,      \* descriptors of connections of hook libraries
    ReqIds,     \* ids of requests to the scheduler; one is reused once forgotten
    Quotas,     \* quotas the scheduler may grant
    Overuses,   \* overuse a hook library may report
    Bursts,     \* burst a hook library may predict
    SchedulerEnds,  \* whether the scheduler may go away
    MAX_AGE,    \* time since the last grant is counted up to here
    NONE

ASSUME ConnAssumption == IsFiniteSet(Conns)
ASSUME DataAssumption ==
    Quotas \subseteq Nat /\ Overuses \subseteq Nat /\ Bursts \subseteq Nat
ASSUME AgeAssumption == MAX_AGE \in Nat /\ \A q \in Quotas : q < MAX_AGE
ASSUME EndsAssumption == SchedulerEnds \in BOOLEAN
ASSUME IdAssumption == NONE \notin ReqIds /\ NONE \notin Nat

VARIABLES
    quota_state,       \* 0: usual, 1: someone is updating quota
    pod_quota,
    age,               \* now - quota_updated_tp
    pod_overuse_ms,
    client_burst_map,  \* per connection: its last burst, NONE without an entry
    pc,                \* per service thread: where hook_kernel_launch is
    local,             \* per service thread: its arguments and local variables
    buffers,           \* message buffers that are allocated, by request id
    request_queue,     \* requests to forward
    sender_pc,         \* where scheduler_thread_send_func is
    link,              \* the connection to the scheduler: up, lost, or closed here too
    to_scheduler,      \* requests the scheduler has received, not answered
    from_scheduler,    \* responses on their way back
    response_map       \* responses received, not taken by their thread

quota_vars == <<pod_quota, age, pod_overuse_ms>>
net_vars == <<request_queue, sender_pc, link, to_scheduler, from_scheduler>>
vars == <<quota_state, quota_vars, client_burst_map, pc, local, buffers,
          net_vars, response_map>>

\* From the moment a thread announces the update to its own reset of the state.
UpdatingPcs == {"estimate", "enqueue", "await", "asleep", "woken", "updated"}
Pcs == {"closed", "recv", "gate", "gated", "overuse", "store", "burst", "elapsed",
        "compare", "expired", "valid"} \cup UpdatingPcs

Local == [overuse : Nat, burst : Nat, elapsed : Nat, max_burst : Nat,
          req_id : ReqIds \cup {NONE}]
Idle == [overuse |-> 0, burst |-> 0, elapsed |-> 0, max_burst |-> 0, req_id |-> NONE]
Request == [req_id : ReqIds, overuse : Nat, burst : Nat]
Response == [req_id : ReqIds, quota : Quotas]

TypeOK ==
    /\ quota_state \in {0, 1}
    /\ pod_quota \in Nat /\ age \in Nat /\ pod_overuse_ms \in Nat
    /\ client_burst_map \in [Conns -> Nat \cup {NONE}]
    /\ pc \in [Conns -> Pcs]
    /\ local \in [Conns -> Local]
    /\ buffers \subseteq ReqIds
    /\ request_queue \in Seq(Request)
    /\ sender_pc \in {"top", "asleep", "woken"}
    /\ link \in {"up", "lost", "closed"}
    /\ to_scheduler \in Seq(Request)
    /\ from_scheduler \in Seq(Response)
    /\ response_map \subseteq Response

-----------------------------------------------------------------------------
(* Connections and launch requests.                                        *)

At(c, place) == pc[c] = place
Goto(c, place) == pc' = [pc EXCEPT ![c] = place]

\* accept(): a statistics entry and a service thread for the new connection.
Accept(c) ==
    /\ At(c, "closed") /\ Goto(c, "recv")
    /\ client_burst_map' = [client_burst_map EXCEPT ![c] = 0]
    /\ UNCHANGED <<quota_state, quota_vars, local, buffers, net_vars, response_map>>

\* recv() returns 0: the statistics entry goes, then the descriptor.
Close(c) ==
    /\ At(c, "recv") /\ Goto(c, "closed")
    /\ client_burst_map' = [client_burst_map EXCEPT ![c] = NONE]
    /\ UNCHANGED <<quota_state, quota_vars, local, buffers, net_vars, response_map>>

\* REQ_QUOTA arrives: hook_kernel_launch is called.
Launch(c, overuse_ms, burst) ==
    /\ At(c, "recv") /\ Goto(c, "gate")
    /\ local' = [local EXCEPT ![c] = [Idle EXCEPT !.overuse = overuse_ms, !.burst = burst]]
    /\ UNCHANGED <<quota_state, quota_vars, client_burst_map, buffers, net_vars,
                   response_map>>

-----------------------------------------------------------------------------
(* hook_kernel_launch.                                                     *)

PassGate(c) ==
    /\ At(c, "gate") /\ quota_state = 0 /\ Goto(c, "overuse")
    /\ UNCHANGED <<quota_state, quota_vars, client_burst_map, local, buffers,
                   net_vars, response_map>>

WaitAtGate(c) ==
    /\ At(c, "gate") /\ quota_state # 0 /\ Goto(c, "gated")
    /\ UNCHANGED <<quota_state, quota_vars, client_burst_map, local, buffers,
                   net_vars, response_map>>

\* pod_overuse_ms is read and written outside of any mutex: another thread's
\* report, or the reset that comes with a new quota, may fall in between.
ReadOveruse(c) ==
    /\ At(c, "overuse") /\ Goto(c, "store")
    /\ local' = [local EXCEPT ![c].overuse = Max({@, pod_overuse_ms})]
    /\ UNCHANGED <<quota_state, quota_vars, client_burst_map, buffers, net_vars,
                   response_map>>

StoreOveruse(c) ==
    /\ At(c, "store") /\ Goto(c, "burst")
    /\ pod_overuse_ms' = local[c].overuse
    /\ local' = [local EXCEPT ![c].overuse = 0]
    /\ UNCHANGED <<quota_state, pod_quota, age, client_burst_map, buffers,
                   net_vars, response_map>>

UpdateBurst(c) ==
    /\ At(c, "burst") /\ Goto(c, "elapsed")
    /\ client_burst_map' = [client_burst_map EXCEPT ![c] = local[c].burst]
    /\ UNCHANGED <<quota_state, quota_vars, local, buffers, net_vars, response_map>>

\* quota_updated_tp is read first, pod_quota only in the comparison; both
\* outside of any mutex.
ReadElapsed(c) ==
    /\ At(c, "elapsed") /\ Goto(c, "compare")
    /\ local' = [local EXCEPT ![c].elapsed = age]
    /\ UNCHANGED <<quota_state, quota_vars, client_burst_map, buffers, net_vars,
                   response_map>>

CompareQuota(c) ==
    /\ At(c, "compare")
    /\ Goto(c, IF local[c].elapsed + local[c].burst > pod_quota
               THEN "expired" ELSE "valid")
    /\ UNCHANGED <<quota_state, quota_vars, client_burst_map, local, buffers,
                   net_vars, response_map>>

\* The state is set in a critical section of its own, without a second look.
AnnounceUpdate(c) ==
    /\ At(c, "expired") /\ Goto(c, "estimate")
    /\ quota_state' = 1
    /\ UNCHANGED <<quota_vars, client_burst_map, local, buffers, net_vars, response_map>>

\* Fault: the smallest burst instead of the largest.
EstimateSmallest(c) ==
    /\ At(c, "estimate") /\ Goto(c, "enqueue")
    /\ local' = [local EXCEPT ![c].max_burst =
                    Min({client_burst_map[d] : d \in {e \in Conns :
                            client_burst_map[e] # NONE}} \cup {0})]
    /\ UNCHANGED <<quota_state, quota_vars, client_burst_map, buffers, net_vars,
                   response_map>>

EstimateBurst(c) ==
    /\ At(c, "estimate") /\ Goto(c, "enqueue")
    /\ local' = [local EXCEPT ![c].max_burst =
                    Max({client_burst_map[d] : d \in {e \in Conns :
                            client_burst_map[e] # NONE}} \cup {0})]
    /\ UNCHANGED <<quota_state, quota_vars, client_burst_map, buffers, net_vars,
                   response_map>>

\* The ids of everything that still has to do with a request.
Pending ==
    {local[c].req_id : c \in Conns}
    \cup {request_queue[i].req_id : i \in DOMAIN request_queue}
    \cup {to_scheduler[i].req_id : i \in DOMAIN to_scheduler}
    \cup {from_scheduler[i].req_id : i \in DOMAIN from_scheduler}
    \cup {r.req_id : r \in response_map}

\* pthread_cond_signal(&req_queue_cond).
SignalSender == sender_pc' = IF sender_pc = "asleep" THEN "woken" ELSE sender_pc

\* The overuse of the pod is read here, not when the thread reported its own.
EnqueueRequest(c, id) ==
    /\ At(c, "enqueue") /\ Goto(c, "await")
    /\ id \notin Pending
    /\ local' = [local EXCEPT ![c].req_id = id]
    /\ buffers' = buffers \cup {id}
    /\ request_queue' = Append(request_queue,
          [req_id |-> id, overuse |-> pod_overuse_ms, burst |-> local[c].max_burst])
    /\ SignalSender
    /\ UNCHANGED <<quota_state, quota_vars, client_burst_map, to_scheduler,
                   link, from_scheduler, response_map>>

\* The wait comes before the first look at response_map.
AwaitResponse(c) ==
    /\ At(c, "await") /\ Goto(c, "asleep")
    /\ UNCHANGED <<quota_state, quota_vars, client_burst_map, local, buffers,
                   net_vars, response_map>>

NotMine(c) ==
    /\ At(c, "woken") /\ Goto(c, "await")
    /\ \A r \in response_map : r.req_id # local[c].req_id
    /\ UNCHANGED <<quota_state, quota_vars, client_burst_map, local, buffers,
                   net_vars, response_map>>

\* Fault: whatever response is there.
TakeAnyResponse(c) ==
    /\ At(c, "woken") /\ Goto(c, "updated")
    /\ \E r \in response_map :
          /\ pod_quota' = r.quota
          /\ response_map' = response_map \ {r}
    /\ age' = 0 /\ pod_overuse_ms' = 0
    /\ buffers' = buffers \ {local[c].req_id}
    /\ local' = [local EXCEPT ![c].elapsed = 0, ![c].req_id = NONE]
    /\ UNCHANGED <<quota_state, client_burst_map, net_vars>>

TakeResponse(c) ==
    /\ At(c, "woken") /\ Goto(c, "updated")
    /\ \E r \in response_map :
          /\ r.req_id = local[c].req_id
          /\ pod_quota' = r.quota
          /\ response_map' = response_map \ {r}
    /\ age' = 0 /\ pod_overuse_ms' = 0
    /\ buffers' = buffers \ {local[c].req_id}
    /\ local' = [local EXCEPT ![c].elapsed = 0, ![c].req_id = NONE]
    /\ UNCHANGED <<quota_state, client_burst_map, net_vars>>

\* Fault: the state is counted down instead of reset.
FinishCountsDown(c) ==
    /\ pc[c] \in {"valid", "updated"}
    /\ quota_state' = quota_state - 1
    /\ pc' = [d \in Conns |-> IF d = c THEN "recv"
                              ELSE IF At(d, "gated") THEN "gate" ELSE pc[d]]
    /\ local' = [local EXCEPT ![c] = Idle]
    /\ UNCHANGED <<quota_vars, client_burst_map, buffers, net_vars, response_map>>

\* Fault: no broadcast.
FinishSilently(c) ==
    /\ pc[c] \in {"valid", "updated"}
    /\ quota_state' = 0
    /\ Goto(c, "recv")
    /\ local' = [local EXCEPT ![c] = Idle]
    /\ UNCHANGED <<quota_vars, client_burst_map, buffers, net_vars, response_map>>

\* Back to the usual state, whoever had announced an update, and broadcast;
\* pod_quota - elapsed_time goes back to the hook library.
Finish(c) ==
    /\ pc[c] \in {"valid", "updated"}
    /\ quota_state' = 0
    /\ pc' = [d \in Conns |-> IF d = c THEN "recv"
                              ELSE IF At(d, "gated") THEN "gate" ELSE pc[d]]
    /\ local' = [local EXCEPT ![c] = Idle]
    /\ UNCHANGED <<quota_vars, client_burst_map, buffers, net_vars, response_map>>

ServiceThread(c) ==
    \/ PassGate(c) \/ WaitAtGate(c) \/ ReadOveruse(c) \/ StoreOveruse(c)
    \/ UpdateBurst(c) \/ ReadElapsed(c) \/ CompareQuota(c) \/ AnnounceUpdate(c) \/ EstimateBurst(c)
    \/ \E id \in ReqIds : EnqueueRequest(c, id)
    \/ AwaitResponse(c) \/ NotMine(c) \/ TakeResponse(c) \/ Finish(c)

-----------------------------------------------------------------------------
(* The two threads that talk to the scheduler, and the scheduler.          *)

\* The wait comes before the first look at request_queue.
SenderWaits ==
    /\ sender_pc = "top" /\ sender_pc' = "asleep"
    /\ UNCHANGED <<quota_state, quota_vars, client_burst_map, pc, local, buffers,
                   request_queue, to_scheduler, link, from_scheduler, response_map>>

\* One request per wakeup, whatever the length of the queue.
SenderForwards ==
    /\ link = "up"
    /\ sender_pc = "woken" /\ sender_pc' = "top"
    /\ IF request_queue = <<>> THEN UNCHANGED <<request_queue, to_scheduler>>
       ELSE /\ to_scheduler' = Append(to_scheduler, Head(request_queue))
            /\ request_queue' = Tail(request_queue)
    /\ UNCHANGED <<quota_state, quota_vars, client_burst_map, pc, local, buffers,
                   link, from_scheduler, response_map>>

\* send() fails, or reports success for what nobody receives: the request is
\* gone from the queue all the same.
SenderFails ==
    /\ link # "up"
    /\ sender_pc = "woken" /\ sender_pc' = "top"
    /\ request_queue' = IF request_queue = <<>> THEN <<>> ELSE Tail(request_queue)
    /\ UNCHANGED <<quota_state, quota_vars, client_burst_map, pc, local, buffers,
                   link, to_scheduler, from_scheduler, response_map>>

Sender == SenderWaits \/ SenderForwards \/ SenderFails

\* The scheduler answers every request once, in an order of its own.
SchedulerAnswers(i, q) ==
    /\ from_scheduler' = Append(from_scheduler,
                            [req_id |-> to_scheduler[i].req_id, quota |-> q])
    /\ to_scheduler' = RemoveAt(to_scheduler, i)
    /\ UNCHANGED <<quota_state, quota_vars, client_burst_map, pc, local, buffers,
                   link, request_queue, sender_pc, response_map>>

SchedulerAnswersSome == \E i \in DOMAIN to_scheduler, q \in Quotas : SchedulerAnswers(i, q)

\* response_map.insert() and the broadcast.
ReceiveResponse ==
    /\ from_scheduler # <<>>
    /\ response_map' = response_map \cup {Head(from_scheduler)}
    /\ from_scheduler' = Tail(from_scheduler)
    /\ pc' = [c \in Conns |-> IF At(c, "asleep") THEN "woken" ELSE pc[c]]
    /\ UNCHANGED <<quota_state, quota_vars, client_burst_map, local, buffers,
                   request_queue, sender_pc, link, to_scheduler>>

\* The scheduler goes away; responses that are not received yet may be lost.
LoseScheduler ==
    /\ SchedulerEnds /\ link = "up" /\ link' = "lost"
    /\ to_scheduler' = <<>>
    /\ from_scheduler' \in {from_scheduler, <<>>}
    /\ UNCHANGED <<quota_state, quota_vars, client_burst_map, pc, local, buffers,
                   request_queue, sender_pc, response_map>>

\* The receiving thread closes the socket and ends.  Nobody connects again, and
\* nobody tells the threads that wait for a response.
ReceiverCloses ==
    /\ link = "lost" /\ from_scheduler = <<>> /\ link' = "closed"
    /\ UNCHANGED <<quota_state, quota_vars, client_burst_map, pc, local, buffers,
                   request_queue, sender_pc, to_scheduler, from_scheduler, response_map>>

\* POSIX lets any of the three condition waits return without a signal.
SpuriousWakeup ==
    /\ \/ \E c \in Conns : \/ At(c, "gated") /\ Goto(c, "gate")
                           \/ At(c, "asleep") /\ Goto(c, "woken")
          /\ UNCHANGED sender_pc
       \/ sender_pc = "asleep" /\ sender_pc' = "woken" /\ UNCHANGED pc
    /\ UNCHANGED <<quota_state, quota_vars, client_burst_map, local, buffers,
                   request_queue, to_scheduler, link, from_scheduler, response_map>>

\* Older than every quota is old enough.
Tick ==
    /\ age < MAX_AGE /\ age' = age + 1
    /\ UNCHANGED <<quota_state, pod_quota, pod_overuse_ms, client_burst_map, pc,
                   local, buffers, net_vars, response_map>>

-----------------------------------------------------------------------------
Init ==
    /\ quota_state = 0
    /\ pod_quota = 0 /\ age = 0 /\ pod_overuse_ms = 0
    /\ client_burst_map = [c \in Conns |-> NONE]
    /\ pc = [c \in Conns |-> "closed"]
    /\ local = [c \in Conns |-> Idle]
    /\ buffers = {}
    /\ request_queue = <<>> /\ sender_pc = "top" /\ link = "up"
    /\ to_scheduler = <<>> /\ from_scheduler = <<>>
    /\ response_map = {}

Next ==
    \/ \E c \in Conns : Accept(c) \/ Close(c) \/ ServiceThread(c)
    \/ \E c \in Conns, o \in Overuses, b \in Bursts : Launch(c, o, b)
    \/ Sender \/ SchedulerAnswersSome \/ ReceiveResponse
    \/ LoseScheduler \/ ReceiverCloses
    \/ SpuriousWakeup \/ Tick

Spec == Init /\ [][Next]_vars

\* Every thread of the pod manager runs, and the scheduler answers.  Nothing
\* makes a hook library connect or launch, and nothing wakes a waiting thread
\* but a signal.
Fairness ==
    /\ \A c \in Conns : WF_vars(ServiceThread(c))
    /\ WF_vars(Sender) /\ WF_vars(SchedulerAnswersSome) /\ WF_vars(ReceiveResponse)

FairSpec == Spec /\ Fairness

-----------------------------------------------------------------------------
(* Properties.                                                             *)

Updating(c) == pc[c] \in UpdatingPcs

\* Where a request can be between its thread's enqueue and its take.
Places(id) ==
    Cardinality({i \in DOMAIN request_queue : request_queue[i].req_id = id})
    + Cardinality({i \in DOMAIN to_scheduler : to_scheduler[i].req_id = id})
    + Cardinality({i \in DOMAIN from_scheduler : from_scheduler[i].req_id = id})
    + Cardinality({r \in response_map : r.req_id = id})

\* A request is in one place from the moment its thread queues it until that
\* thread takes the response, and its buffer stays allocated all the time: no
\* thread takes another one's response, no response is left behind in
\* response_map, and the sender never reads a buffer its owner has freed.  Only
\* when the scheduler is gone may a request be lost.
RequestsConserved ==
    \A id \in ReqIds :
        LET owners == {c \in Conns : local[c].req_id = id} IN
        /\ Cardinality(owners) <= 1
        /\ Places(id) <= Cardinality(owners)
        /\ link = "up" => Places(id) = Cardinality(owners)
        /\ owners # {} <=> id \in buffers

\* No thread sleeps at the gate without a keeper: whenever one waits on
\* quota_state_cond, an update is announced and some thread that announced one
\* has yet to reset the state and broadcast, even though threads that never
\* announced anything reset the state too.
GateHasKeeper ==
    /\ \A c \in Conns : At(c, "gated") => quota_state = 1
    /\ quota_state = 1 => \E c \in Conns : Updating(c)

\* The burst the scheduler is told of is at least the one that its requester
\* has just predicted, whichever connections come and go meanwhile.
RequestCoversBurst ==
    \A c \in Conns, i \in DOMAIN request_queue :
        request_queue[i].req_id = local[c].req_id => request_queue[i].burst >= local[c].burst

\* pod-manager.cpp:300, "handle kernel launch request, return remaining quota
\* time (ms)": every launch request is answered.
LaunchAnswered == \A c \in Conns : At(c, "gate") ~> At(c, "recv")
=============================================================================
