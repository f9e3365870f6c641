----------------------------- MODULE HookLaunch -----------------------------
(***************************************************************************)
(* The hook library around cuLaunchKernel (hook.cpp), in one process on    *)
(* one device: the prehook that asks for a token, the threads that launch, *)
(* synchronise and ask for memory, the overuse tracking thread, and the    *)
(* kernels on the GPU.  Requests go through communicate().                 *)
(*                                                                         *)
(* A critical section of overuse_trk_mutex is one action.  A thread inside *)
(* pthread_cond_wait is at a place of its own; a signal moves a thread     *)
(* that is there and is lost otherwise.  None of the three waits stands in *)
(* a loop, and each may also return without a signal.  Lengths of bursts   *)
(* are forecasts out of a set: the predictor is a module of its own, here  *)
(* it is its flag ongoing_unmerged().                                      *)
(***************************************************************************)
EXTENDS Communicate, FiniteSets

CONSTANTS
    Launchers,   \* threads that launch kernels
    Allocators,  \* threads that allocate and free memory
    QUOTA,       \* the 6000 ms of get_token_from_scheduler, in ticks
    Forecasts,   \* predict_unmerged(), in ticks
    MAX_ELAPSED  \* bound: time since request_start is counted up to here

ASSUME WorkloadAssumption == Launchers \subseteq Threads /\ Allocators \subseteq Threads
ASSUME QuotaAssumption == QUOTA \in Nat \ {0} /\ MAX_ELAPSED \in Nat /\ QUOTA <= MAX_ELAPSED
ASSUME ForecastAssumption == Forecasts \subseteq Nat

VARIABLES
    pc,          \* per thread: where it is
    tracker,     \* where wait_cuda_kernels is
    left,        \* time to the tracker's deadline
    overuse_trk_cmpl,
    elapsed,     \* us_since(request_start)
    quota_time,  \* quota_time[device]
    ongoing,     \* burst_predictor[device].ongoing_unmerged()
    running      \* kernels on the GPU: "old" ones the last event covers, "new" ones

clock_vars == <<left, elapsed, quota_time>>
tracker_vars == <<tracker, overuse_trk_cmpl>>
burst_vars == <<ongoing, running>>
hook_vars == <<pc, tracker_vars, clock_vars, burst_vars>>
vars == <<comm_vars, hook_vars>>
other_comm_vars == <<sockfd, comm_mutex, chan, alive>>

\* Where a thread holds expiration_status_mutex.
LockedPcs == {"await", "asleep", "woken", "request", "stamp", "start",
              "begin"}
Pcs == {"init", "idle", "lock", "launch", "synced", "memory"} \cup LockedPcs
TrackerPcs == {"top", "strt", "started", "timed", "sync", "event", "report"}

TypeOK ==
    /\ CommTypeOK
    /\ pc \in [Threads -> Pcs]
    /\ tracker \in TrackerPcs
    /\ left \in 0 .. QUOTA
    /\ overuse_trk_cmpl \in BOOLEAN
    /\ elapsed \in 0 .. MAX_ELAPSED
    /\ quota_time \in {0, QUOTA}
    /\ ongoing \in BOOLEAN
    /\ running \subseteq {"old", "new"}

At(t, place) == pc[t] = place
Goto(t, place) == pc' = [pc EXCEPT ![t] = place]

\* pthread_once: everybody else waits for initialize().
Ready == \A t \in Threads : ~At(t, "init")

-----------------------------------------------------------------------------
(* cuLaunchKernel with its prehook.                                        *)

CallLaunch(t) ==
    /\ Ready /\ t \in Launchers /\ At(t, "idle") /\ Goto(t, "lock")
    /\ UNCHANGED <<comm_vars, tracker_vars, clock_vars, burst_vars>>

\* The burst may run over: a new token.
NeedsToken(forecast) == ~ongoing /\ elapsed + forecast >= quota_time

\* expiration_status_mutex is taken and the state of the token looked at.
CheckToken(t) ==
    /\ At(t, "lock") /\ \A u \in Threads : pc[u] \notin LockedPcs
    /\ \E forecast \in Forecasts : Goto(t, IF NeedsToken(forecast) THEN "await" ELSE "begin")
    /\ UNCHANGED <<comm_vars, tracker_vars, clock_vars, burst_vars>>

\* Tracking is not complete: signal overuse_trk_intr_cond, and wait once.
AwaitTracking(t) ==
    /\ At(t, "await") /\ ~overuse_trk_cmpl /\ Goto(t, "asleep")
    /\ tracker' = IF tracker = "timed" THEN "sync" ELSE tracker
    /\ UNCHANGED <<comm_vars, clock_vars, overuse_trk_cmpl, burst_vars>>

\* get_token_from_scheduler: a request without timeout.
RequestToken(t) ==
    /\ At(t, "woken") \/ (At(t, "await") /\ overuse_trk_cmpl)
    /\ Goto(t, "request")
    /\ call' = [call EXCEPT ![t] = Entered(FALSE)]
    /\ UNCHANGED <<other_comm_vars, tracker_vars, clock_vars, burst_vars>>

\* Whatever the answer says, the token is taken.
TakeToken(t) ==
    /\ At(t, "request") /\ In(t, "done") /\ Goto(t, "stamp")
    /\ call' = [call EXCEPT ![t] = NoCall]
    /\ UNCHANGED <<other_comm_vars, tracker_vars, clock_vars, burst_vars>>

\* request_start is now, and the quota QUOTA.
StampToken(t) ==
    /\ At(t, "stamp") /\ Goto(t, "start")
    /\ elapsed' = 0 /\ quota_time' = QUOTA
    /\ UNCHANGED <<comm_vars, tracker_vars, left, burst_vars>>

\* Signal overuse_trk_strt_cond: a tracker that is not waiting misses it.
StartTracking(t) ==
    /\ At(t, "start") /\ Goto(t, "begin")
    /\ overuse_trk_cmpl' = FALSE
    /\ tracker' = IF tracker = "strt" THEN "started" ELSE tracker
    /\ UNCHANGED <<comm_vars, clock_vars, burst_vars>>

\* record_start(), and the mutex is released.
BeginBurst(t) ==
    /\ At(t, "begin") /\ Goto(t, "launch")
    /\ ongoing' = TRUE
    /\ UNCHANGED <<comm_vars, tracker_vars, clock_vars, running>>

\* The real cuLaunchKernel, after the prehook.
LaunchKernel(t) ==
    /\ At(t, "launch") /\ Goto(t, "idle")
    /\ running' = running \cup {"new"}
    /\ UNCHANGED <<comm_vars, tracker_vars, clock_vars, ongoing>>

-----------------------------------------------------------------------------
(* Synchronising calls, and calls that ask the pod manager about memory.   *)

\* cuCtxSynchronize or a copy returns; its posthook has yet to run.
DeviceIsIdle(t) ==
    /\ Ready /\ At(t, "idle") /\ running = {} /\ Goto(t, "synced")
    /\ UNCHANGED <<comm_vars, tracker_vars, clock_vars, burst_vars>>

\* host_sync_call: record_stop().
HostSyncCall(t) ==
    /\ At(t, "synced") /\ Goto(t, "idle")
    /\ ongoing' = FALSE
    /\ UNCHANGED <<comm_vars, tracker_vars, clock_vars, running>>

\* get_gpu_memory_info or update_memory_usage: a request with a timeout.
CallMemory(t) ==
    /\ Ready /\ t \in Allocators /\ At(t, "idle") /\ Goto(t, "memory")
    /\ call' = [call EXCEPT ![t] = Entered(TRUE)]
    /\ UNCHANGED <<other_comm_vars, tracker_vars, clock_vars, burst_vars>>

\* The answer of a memory request, or of the first token request at the end of
\* initialize(), whose quota is not used.
CallReturns(t) ==
    /\ pc[t] \in {"memory", "init"} /\ In(t, "done") /\ Goto(t, "idle")
    /\ call' = [call EXCEPT ![t] = NoCall]
    /\ UNCHANGED <<other_comm_vars, tracker_vars, clock_vars, burst_vars>>

-----------------------------------------------------------------------------
(* wait_cuda_kernels.                                                      *)

TrackerGoes(from, to) == tracker = from /\ tracker' = to

TrackerWaits ==
    /\ TrackerGoes("top", "strt")
    /\ UNCHANGED <<comm_vars, pc, clock_vars, overuse_trk_cmpl, burst_vars>>

\* The deadline: a whole quota from now, however old the token is.  Nobody else
\* looks at it, so computing it and going to sleep are one step.
TrackerSleeps ==
    /\ TrackerGoes("started", "timed")
    /\ left' = quota_time
    /\ UNCHANGED <<comm_vars, pc, overuse_trk_cmpl, elapsed, quota_time, burst_vars>>

TrackerTimesOut ==
    /\ left = 0 /\ TrackerGoes("timed", "sync")
    /\ UNCHANGED <<comm_vars, pc, clock_vars, overuse_trk_cmpl, burst_vars>>

\* cudaEventRecord: the event comes after everything launched so far.
RecordEvent ==
    /\ TrackerGoes("sync", "event")
    /\ running' = IF running = {} THEN {} ELSE {"old"}
    /\ left' = 0
    /\ UNCHANGED <<comm_vars, pc, overuse_trk_cmpl, elapsed, quota_time, ongoing>>

\* cudaEventSynchronize returns; host_sync_call("overuse measurement").  Whatever
\* happens between the two may as well happen before.
EventReached ==
    /\ TrackerGoes("event", "report")
    /\ "old" \notin running
    /\ ongoing' = FALSE
    /\ UNCHANGED <<comm_vars, pc, clock_vars, overuse_trk_cmpl, running>>

\* Fault: nobody is told.
CompleteSilently ==
    /\ TrackerGoes("report", "top")
    /\ overuse_trk_cmpl' = TRUE
    /\ UNCHANGED <<comm_vars, pc, clock_vars, burst_vars>>

CompleteTracking ==
    /\ TrackerGoes("report", "top")
    /\ overuse_trk_cmpl' = TRUE
    /\ pc' = [t \in Threads |-> IF At(t, "asleep") THEN "woken" ELSE pc[t]]
    /\ UNCHANGED <<comm_vars, clock_vars, burst_vars>>

Tracker ==
    \/ TrackerWaits \/ TrackerSleeps \/ TrackerTimesOut \/ RecordEvent \/ EventReached
    \/ CompleteTracking

-----------------------------------------------------------------------------
(* The GPU, the clock, and waits that end by themselves.                   *)

KernelsFinish(k) ==
    /\ k \in running
    /\ running' = running \ {k}
    /\ UNCHANGED <<comm_vars, pc, tracker_vars, clock_vars, ongoing>>

Tick ==
    /\ elapsed < MAX_ELAPSED \/ left > 0
    /\ elapsed' = IF elapsed < MAX_ELAPSED THEN elapsed + 1 ELSE elapsed
    /\ left' = IF left > 0 THEN left - 1 ELSE 0
    /\ UNCHANGED <<comm_vars, pc, tracker_vars, quota_time, burst_vars>>

\* The tracker takes it for the start of a tracking, or for an interrupt.
SpuriousTracking ==
    /\ TrackerGoes("strt", "started") \/ TrackerGoes("timed", "sync")
    /\ UNCHANGED <<comm_vars, pc, overuse_trk_cmpl, clock_vars, burst_vars>>

\* The launching thread takes it for the end of the tracking.
SpuriousCompletion(t) ==
    /\ At(t, "asleep") /\ Goto(t, "woken")
    /\ UNCHANGED <<comm_vars, tracker_vars, clock_vars, burst_vars>>

-----------------------------------------------------------------------------
\* initialize() has created the tracker and asks for its first token, with
\* tracking complete ("bypass first overuse tracking to prevent deadlock") and
\* request_start still zero.
Init ==
    /\ CommInit
    /\ \E first \in Threads :
          /\ pc = [t \in Threads |-> IF t = first THEN "init" ELSE "idle"]
          /\ call = [t \in Threads |-> IF t = first THEN Entered(FALSE) ELSE NoCall]
    /\ tracker = "top" /\ left = 0
    /\ overuse_trk_cmpl = TRUE
    /\ elapsed = MAX_ELAPSED /\ quota_time = 0
    /\ ongoing = FALSE /\ running = {}

\* What a thread does once it is inside a call of the library.
Thread(t) ==
    \/ AwaitTracking(t) \/ RequestToken(t) \/ TakeToken(t)
    \/ StampToken(t) \/ StartTracking(t) \/ BeginBurst(t) \/ LaunchKernel(t) \/ HostSyncCall(t)
    \/ CallReturns(t)
    \/ Communicating(t) /\ UNCHANGED hook_vars

TakesMutex(t) == CheckToken(t) \/ (LockComm(t) /\ UNCHANGED hook_vars)
Answers(fd) == PodManagerAnswers(fd) /\ UNCHANGED hook_vars
Faults ==
    /\ PodManagerRestarts \/ \E t \in Threads : CommFault(t)
    /\ UNCHANGED hook_vars

Next ==
    /\ alive
    /\ \/ \E t \in Threads :
            CallLaunch(t) \/ DeviceIsIdle(t) \/ CallMemory(t) \/ TakesMutex(t) \/ Thread(t)
       \/ \E fd \in Fds : Answers(fd)
       \/ Tracker \/ (\E k \in {"old", "new"} : KernelsFinish(k)) \/ Tick
       \/ SpuriousTracking \/ (\E t \in Threads : SpuriousCompletion(t)) \/ Faults

Spec == Init /\ [][Next]_vars

\* Every thread runs, recv() gives up after its timeout where it has one, a
\* thread that wants a mutex gets it some time when it is free again and again,
\* kernels finish and the clock advances.  Nothing makes the application call
\* the library, a wait return without a signal, or the pod manager answer.
Fairness ==
    /\ \A t \in Threads : WF_vars(alive /\ Thread(t)) /\ SF_vars(alive /\ TakesMutex(t))
    /\ WF_vars(alive /\ Tracker) /\ WF_vars(alive /\ Tick)
    /\ \A k \in {"old", "new"} : WF_vars(alive /\ KernelsFinish(k))

FairSpec == Spec /\ Fairness

-----------------------------------------------------------------------------
(* Properties.                                                             *)

\* The prehook waits "for all kernels finish" before it asks for a token
\* (hook.cpp:548): where it need not wait, with overuse_trk_cmpl set, they have.
AllKernelsDone ==
    [][\A t \in Threads : At(t, "await") /\ At(t, "request")' => running = {}]_vars

\* A call that gets an answer gets the one to its own request, although all
\* threads share sockfd, unless a request was repeated on that connection.
ReplyIsMine ==
    [][\A t \in Threads : In(t, "wait") /\ In(t, "done")' =>
         call[t].answer' \in {t, NONE} \/ chan[call[t].fd].repeated]_vars

\* A thread waits for the end of a tracking that never began.
StartMissed == \E t \in Threads :
    At(t, "asleep") /\ tracker \in {"top", "strt"} /\ ~overuse_trk_cmpl

\* A thread waits, with no timeout, for an answer on a connection that brings
\* none: the pod manager does not answer, or it was never asked on this one.
Unheard(t) == Unanswered(t) /\ chan[call[t].fd].open /\ ~chan[call[t].fd].timed

Hung == StartMissed \/ \E t \in Threads : Unheard(t)

\* Every launch returns, unless the process ends or hangs for good in one of two
\* ways: the tracker missed its start signal (hook.cpp:573), or a recv() without
\* timeout stays without an answer (hook.cpp:329).
LaunchReturns ==
    []<>~Hung => \A t \in Threads : At(t, "lock") ~> (At(t, "idle") \/ ~alive)

\* With the first tracking bypassed "to prevent deadlock" (hook.cpp:799), a launch
\* that waits for a tracking sees its end.
TrackingEnds ==
    \A t \in Threads : At(t, "asleep") ~> (~At(t, "asleep") \/ ~alive)
=============================================================================
