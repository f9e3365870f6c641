----------------------------- MODULE GpuMemory ------------------------------
(***************************************************************************)
(* GPU memory accounting: the hooks around cuMemAlloc and cuMemFree in each *)
(* process of a pod (hook.cpp) and the accounts the pod manager keeps       *)
(* (pod-manager.cpp).                                                       *)
(*                                                                         *)
(* communicate() opens a connection for every single request and never      *)
(* closes it, so a process ends up with one account per request, and the    *)
(* memory it allocates and frees through different connections is only      *)
(* right in the sum, modulo the word size.  All of its connections close    *)
(* when the process ends; the pod manager notices them one by one.          *)
(***************************************************************************)
EXTENDS Integers, Sequences, FiniteSets, Functions

CONSTANTS
    Procs,        \* processes of the pod, each with one thread that allocates
    Ptrs,         \* device addresses a process may have in use at a time
    MaxFd,        \* the pod manager's descriptors are 1..MaxFd
    Sizes,        \* sizes of allocations
    Kinds,        \* kinds of allocation in use besides the ones of a known size
    WORD,         \* size_t counts modulo this
    LIMIT,        \* gpu_mem_limit
    MAX_ATTEMPT,  \* NET_OP_MAX_ATTEMPT
    MAX_REPEATED, \* bound: connections open at a time with a repeated request
    NONE

Fds == 1..MaxFd
Word == 0..(WORD - 1)

ASSUME FdAssumption == MaxFd \in Nat
ASSUME FiniteAssumption == IsFiniteSet(Procs) /\ IsFiniteSet(Ptrs)
ASSUME WordAssumption == WORD \in Nat /\ WORD > 1 /\ LIMIT \in Word
ASSUME SizeAssumption == Sizes \subseteq Word \ {0}
ASSUME KindAssumption == Kinds \subseteq {"pitch", "unhooked"}
ASSUME AttemptAssumption == MAX_ATTEMPT \in Nat \ {0} /\ MAX_REPEATED \in Nat

VARIABLES
    gpu_mem_used,    \* the pod manager's total
    allocation_map,  \* its account per connection, NONE without an entry
    conn,            \* per descriptor: the connection, NONE when closed
    proc,            \* per process: the call it is in
    hook_map,        \* per process: what its hook has recorded, 0 for nothing
    real             \* per process: what the device has allocated, 0 for nothing

vars == <<gpu_mem_used, allocation_map, conn, proc, hook_map, real>>

Message == [req : {"limit", "alloc", "free"}, size : Word]
Connection == [owner : Procs \cup {NONE}, unread : Seq(Message),
               reply : Word \cup {NONE}, reclaimed : BOOLEAN,
               repeated : BOOLEAN]   \* ghost: its request was sent a second time

ASSUME NoneAssumption ==
    NONE \notin Procs /\ NONE \notin Int /\ NONE \notin Ptrs /\ NONE \notin Connection

Waiting == {"checking", "accounting", "freeing"}
Call == [pc : {"dead", "idle", "checked", "release"} \cup Waiting,
         ptr : Ptrs \cup {NONE}, size : Word, fd : Fds \cup {NONE}, attempt : Nat]
Idle == [pc |-> "idle", ptr |-> NONE, size |-> 0, fd |-> NONE, attempt |-> 0]
Dead == [Idle EXCEPT !.pc = "dead"]
Nothing == [x \in Ptrs |-> 0]

TypeOK ==
    /\ gpu_mem_used \in Word
    /\ allocation_map \in [Fds -> Word \cup {NONE}]
    /\ conn \in [Fds -> Connection \cup {NONE}]
    /\ proc \in [Procs -> Call]
    /\ hook_map \in [Procs -> [Ptrs -> Word]]
    /\ real \in [Procs -> [Ptrs -> Word]]

-----------------------------------------------------------------------------
(* communicate(), and accept() on the other side.                          *)

Open(fd) == conn[fd] # NONE

\* accept() returns the lowest descriptor that is free.
IsNextFd(fd) == ~Open(fd) /\ \A e \in Fds : e < fd => Open(e)

\* p connects, the pod manager inserts an account (insert() leaves an entry
\* that exists as it is), and p sends its request.
Communicate(p, call, req) ==
    \E fd \in Fds :
        /\ IsNextFd(fd)
        /\ conn' = [conn EXCEPT ![fd] =
              [owner |-> p, unread |-> <<[req |-> req, size |-> call.size]>>,
               reply |-> NONE, reclaimed |-> FALSE, repeated |-> FALSE]]
        /\ allocation_map' = [allocation_map EXCEPT ![fd] = IF @ = NONE THEN 0 ELSE @]
        /\ proc' = [proc EXCEPT ![p] = [call EXCEPT !.fd = fd, !.attempt = 1]]

RequestOf == [checking |-> "limit", accounting |-> "alloc", freeing |-> "free"]

Replied(p, place) == proc[p].pc = place /\ conn[proc[p].fd].reply # NONE
Verdict(p) == conn[proc[p].fd].reply

RepeatedFds == {fd \in Fds : Open(fd) /\ conn[fd].repeated}

Repeated(c, m) == [c EXCEPT !.repeated = TRUE, !.unread = Append(c.unread, m)]

\* recv() timed out: the same request goes out again on the same connection.
Retry(p) ==
    LET call == proc[p] IN
    /\ call.pc \in Waiting /\ conn[call.fd].reply = NONE
    /\ call.attempt < MAX_ATTEMPT
    /\ Cardinality(RepeatedFds \cup {call.fd}) <= MAX_REPEATED
    /\ proc' = [proc EXCEPT ![p].attempt = @ + 1]
    /\ conn' = [conn EXCEPT ![call.fd] =
                   Repeated(conn[call.fd], [req |-> RequestOf[call.pc], size |-> call.size])]
    /\ UNCHANGED <<gpu_mem_used, allocation_map, hook_map, real>>

-----------------------------------------------------------------------------
(* cuMemAlloc and cuMemFree with their hooks.                              *)

\* cuMemAlloc, cuMemAllocPitch, cuArrayCreate and cuArray3DCreate begin alike,
\* and so do the calls that only ask how much memory there is.
CallAlloc(p, ptr, size) ==
    /\ proc[p].pc = "idle" /\ real[p][ptr] = 0
    /\ Communicate(p, [Idle EXCEPT !.pc = "checking", !.ptr = ptr, !.size = size], "limit")
    /\ UNCHANGED <<gpu_mem_used, hook_map, real>>

\* total - used, in size_t.
Remain(used) == (LIMIT - used) % WORD

\* cuMemAlloc_prehook: CUDA_ERROR_OUT_OF_MEMORY, or go on to the device.
CheckRemain(p) ==
    /\ Replied(p, "checking")
    /\ proc' = [proc EXCEPT ![p] =
          IF proc[p].size > Remain(Verdict(p)) THEN Idle
          ELSE [proc[p] EXCEPT !.pc = "checked", !.fd = NONE, !.attempt = 0]]
    /\ conn' = [conn EXCEPT ![proc[p].fd].reply = NONE]
    /\ UNCHANGED <<gpu_mem_used, allocation_map, hook_map, real>>

\* cuMemAllocPitch_prehook: the device has yet to set *pPitch, and the check
\* compares whatever is in there.
CheckPitch(p) ==
    /\ "pitch" \in Kinds
    /\ Replied(p, "checking")
    /\ \E pitch_size \in {0, WORD - 1} :
          proc' = [proc EXCEPT ![p] =
             IF pitch_size > Remain(Verdict(p)) THEN Idle
             ELSE [proc[p] EXCEPT !.pc = "checked", !.fd = NONE, !.attempt = 0]]
    /\ conn' = [conn EXCEPT ![proc[p].fd].reply = NONE]
    /\ UNCHANGED <<gpu_mem_used, allocation_map, hook_map, real>>

\* cuMemGetInfo and cuDeviceTotalMem ask the same and only report the answer.
ReportMemory(p) ==
    /\ Replied(p, "checking")
    /\ proc' = [proc EXCEPT ![p] = Idle]
    /\ conn' = [conn EXCEPT ![proc[p].fd].reply = NONE]
    /\ UNCHANGED <<gpu_mem_used, allocation_map, hook_map, real>>

\* cuMemAllocManaged and cuMipmappedArrayCreate: the hooks do nothing.
AllocUnhooked(p, ptr, size) ==
    /\ "unhooked" \in Kinds
    /\ proc[p].pc = "idle" /\ real[p][ptr] = 0
    /\ real' = [real EXCEPT ![p][ptr] = size]
    /\ UNCHANGED <<gpu_mem_used, allocation_map, conn, proc, hook_map>>

\* The device has allocated; cuMemAlloc_posthook tells the pod manager.
DeviceAllocates(p) ==
    /\ proc[p].pc = "checked"
    /\ real' = [real EXCEPT ![p][proc[p].ptr] = proc[p].size]
    /\ Communicate(p, [proc[p] EXCEPT !.pc = "accounting"], "alloc")
    /\ UNCHANGED <<gpu_mem_used, hook_map>>

\* The device refuses: no post-hook.
DeviceRefuses(p) ==
    /\ proc[p].pc = "checked"
    /\ proc' = [proc EXCEPT ![p] = Idle]
    /\ UNCHANGED <<gpu_mem_used, allocation_map, conn, hook_map, real>>

\* Fault: recorded whatever the verdict.
RecordRejected(p) ==
    /\ Replied(p, "accounting")
    /\ hook_map' = [hook_map EXCEPT ![p][proc[p].ptr] = proc[p].size]
    /\ proc' = [proc EXCEPT ![p] = Idle]
    /\ conn' = [conn EXCEPT ![proc[p].fd].reply = NONE]
    /\ UNCHANGED <<gpu_mem_used, allocation_map, real>>

\* Recorded when the pod manager agrees.  When it does not, the call returns
\* CUDA_ERROR_OUT_OF_MEMORY and the device keeps what it has allocated.
RecordAlloc(p) ==
    /\ Replied(p, "accounting")
    /\ hook_map' = IF Verdict(p) = 0 THEN hook_map
                   ELSE [hook_map EXCEPT ![p][proc[p].ptr] = proc[p].size]
    /\ proc' = [proc EXCEPT ![p] = Idle]
    /\ conn' = [conn EXCEPT ![proc[p].fd].reply = NONE]
    /\ UNCHANGED <<gpu_mem_used, allocation_map, real>>

\* cuMemFree_prehook: tell the pod manager, before the device frees.
CallFree(p, ptr) ==
    /\ proc[p].pc = "idle" /\ hook_map[p][ptr] # 0
    /\ Communicate(p, [Idle EXCEPT !.pc = "freeing", !.ptr = ptr,
                                   !.size = hook_map[p][ptr]], "free")
    /\ UNCHANGED <<gpu_mem_used, hook_map, real>>

\* "Freeing unknown memory!": straight on to the device.
CallFreeUnknown(p, ptr) ==
    /\ proc[p].pc = "idle" /\ hook_map[p][ptr] = 0 /\ real[p][ptr] # 0
    /\ proc' = [proc EXCEPT ![p] = [Idle EXCEPT !.pc = "release", !.ptr = ptr]]
    /\ UNCHANGED <<gpu_mem_used, allocation_map, conn, hook_map, real>>

RecordFree(p) ==
    /\ Replied(p, "freeing")
    /\ hook_map' = [hook_map EXCEPT ![p][proc[p].ptr] = 0]
    /\ proc' = [proc EXCEPT ![p] = [Idle EXCEPT !.pc = "release", !.ptr = proc[p].ptr]]
    /\ conn' = [conn EXCEPT ![proc[p].fd].reply = NONE]
    /\ UNCHANGED <<gpu_mem_used, allocation_map, real>>

DeviceFrees(p) ==
    /\ proc[p].pc = "release"
    /\ real' = [real EXCEPT ![p][proc[p].ptr] = 0]
    /\ proc' = [proc EXCEPT ![p] = Idle]
    /\ UNCHANGED <<gpu_mem_used, allocation_map, conn, hook_map>>

Start(p) ==
    /\ proc[p].pc = "dead"
    /\ proc' = [proc EXCEPT ![p] = Idle]
    /\ UNCHANGED <<gpu_mem_used, allocation_map, conn, hook_map, real>>

\* The process ends, at any point: by itself, killed, or by exit() after
\* MAX_ATTEMPT attempts.  The device frees its memory, its sockets close.
Exit(p) ==
    /\ proc[p].pc # "dead"
    /\ proc' = [proc EXCEPT ![p] = Dead]
    /\ hook_map' = [hook_map EXCEPT ![p] = Nothing]
    /\ real' = [real EXCEPT ![p] = Nothing]
    /\ conn' = [fd \in Fds |-> IF Open(fd) /\ conn[fd].owner = p
                               THEN [conn[fd] EXCEPT !.owner = NONE, !.reply = NONE]
                               ELSE conn[fd]]
    /\ UNCHANGED <<gpu_mem_used, allocation_map>>

-----------------------------------------------------------------------------
(* hook_thread_func in the pod manager.                                    *)

\* The process reads the first reply; what comes after nobody reads.
Reply(fd, value) ==
    conn' = [conn EXCEPT
        ![fd].unread = Tail(@),
        ![fd].reply = IF conn[fd].owner # NONE /\ proc[conn[fd].owner].fd = fd /\ @ = NONE
                      THEN value ELSE @]

Received(fd, req) == Open(fd) /\ conn[fd].unread # <<>> /\ Head(conn[fd].unread).req = req

\* gpu_mem_used is read without the mutex; the limit never changes.
HandleMemLimit(fd) ==
    /\ Received(fd, "limit")
    /\ Reply(fd, gpu_mem_used)
    /\ UNCHANGED <<gpu_mem_used, allocation_map, proc, hook_map, real>>

\* Fault: the total grows, the account of the connection does not.
AllocUnaccounted(fd) ==
    LET sum == (gpu_mem_used + Head(conn[fd].unread).size) % WORD IN
    /\ Received(fd, "alloc")
    /\ IF sum > LIMIT THEN Reply(fd, 0) /\ UNCHANGED gpu_mem_used
                      ELSE Reply(fd, 1) /\ gpu_mem_used' = sum
    /\ UNCHANGED <<allocation_map, proc, hook_map, real>>

\* hook_update_memory_usage, allocate # 0.  The sum wraps before it is compared.
HandleAlloc(fd) ==
    LET sum == (gpu_mem_used + Head(conn[fd].unread).size) % WORD IN
    /\ Received(fd, "alloc")
    /\ IF sum > LIMIT
       THEN Reply(fd, 0) /\ UNCHANGED <<gpu_mem_used, allocation_map>>
       ELSE /\ Reply(fd, 1)
            /\ gpu_mem_used' = sum
            /\ allocation_map' = [allocation_map EXCEPT ![fd] =
                                     (@ + Head(conn[fd].unread).size) % WORD]
    /\ UNCHANGED <<proc, hook_map, real>>

\* Fault: signed arithmetic.
FreeSigned(fd) ==
    LET size == Head(conn[fd].unread).size IN
    /\ Received(fd, "free")
    /\ Reply(fd, 1)
    /\ gpu_mem_used' = gpu_mem_used - size
    /\ allocation_map' = [allocation_map EXCEPT ![fd] = @ - size]
    /\ UNCHANGED <<proc, hook_map, real>>

\* hook_update_memory_usage, allocate = 0.
HandleFree(fd) ==
    LET size == Head(conn[fd].unread).size IN
    /\ Received(fd, "free")
    /\ Reply(fd, 1)
    /\ gpu_mem_used' = (gpu_mem_used - size) % WORD
    /\ allocation_map' = [allocation_map EXCEPT ![fd] = (@ - size) % WORD]
    /\ UNCHANGED <<proc, hook_map, real>>

\* Fault: the account survives its connection.
ReclaimKeepsEntry(fd) ==
    /\ Open(fd) /\ conn[fd].owner = NONE /\ conn[fd].unread = <<>>
    /\ ~conn[fd].reclaimed
    /\ gpu_mem_used' = (gpu_mem_used - allocation_map[fd]) % WORD
    /\ conn' = [conn EXCEPT ![fd].reclaimed = TRUE]
    /\ UNCHANGED <<allocation_map, proc, hook_map, real>>

\* Fault: the account goes, the total stays.
ReclaimNothing(fd) ==
    /\ Open(fd) /\ conn[fd].owner = NONE /\ conn[fd].unread = <<>>
    /\ ~conn[fd].reclaimed
    /\ allocation_map' = [allocation_map EXCEPT ![fd] = NONE]
    /\ conn' = [conn EXCEPT ![fd].reclaimed = TRUE]
    /\ UNCHANGED <<gpu_mem_used, proc, hook_map, real>>

\* recv() returns 0: recover what the connection has in its account.
Reclaim(fd) ==
    /\ Open(fd) /\ conn[fd].owner = NONE /\ conn[fd].unread = <<>>
    /\ ~conn[fd].reclaimed
    /\ gpu_mem_used' = (gpu_mem_used - allocation_map[fd]) % WORD
    /\ allocation_map' = [allocation_map EXCEPT ![fd] = NONE]
    /\ conn' = [conn EXCEPT ![fd].reclaimed = TRUE]
    /\ UNCHANGED <<proc, hook_map, real>>

\* Only then is the descriptor free again.
CloseFd(fd) ==
    /\ Open(fd) /\ conn[fd].reclaimed
    /\ conn' = [conn EXCEPT ![fd] = NONE]
    /\ UNCHANGED <<gpu_mem_used, allocation_map, proc, hook_map, real>>

-----------------------------------------------------------------------------
Init ==
    /\ gpu_mem_used = 0
    /\ allocation_map = [fd \in Fds |-> NONE]
    /\ conn = [fd \in Fds |-> NONE]
    /\ proc = [p \in Procs |-> Dead]
    /\ hook_map = [p \in Procs |-> Nothing]
    /\ real = [p \in Procs |-> Nothing]

Process(p) ==
    \/ \E ptr \in Ptrs, size \in Sizes :
          CallAlloc(p, ptr, size) \/ AllocUnhooked(p, ptr, size)
    \/ \E ptr \in Ptrs : CallFree(p, ptr) \/ CallFreeUnknown(p, ptr)
    \/ CheckRemain(p) \/ CheckPitch(p) \/ ReportMemory(p) \/ DeviceAllocates(p)
    \/ DeviceRefuses(p) \/ RecordAlloc(p) \/ RecordFree(p) \/ DeviceFrees(p) \/ Retry(p) \/ Start(p) \/ Exit(p)

HookThread(fd) ==
    HandleMemLimit(fd) \/ HandleAlloc(fd) \/ HandleFree(fd) \/ Reclaim(fd) \/ CloseFd(fd)

Next == (\E p \in Procs : Process(p)) \/ (\E fd \in Fds : HookThread(fd))

Spec == Init /\ [][Next]_vars

-----------------------------------------------------------------------------
(* Properties.                                                             *)

Account(fd) == IF allocation_map[fd] = NONE THEN 0 ELSE allocation_map[fd]
Accounts == SumFunction([fd \in Fds |-> Account(fd)])

\* The total is the sum of the accounts, modulo the word size, through wrapped
\* accounts, repeated requests and connections that close one by one.
TotalIsSumOfAccounts == gpu_mem_used = Accounts % WORD

\* An account exists exactly from accept() to the reclaim, so a descriptor that
\* is handed out again never inherits the account of its last user.
AccountPerConnection ==
    \A fd \in Fds : allocation_map[fd] # NONE <=> Open(fd) /\ ~conn[fd].reclaimed

\* What makes AccountPerConnection inductive: a process that waits for a reply
\* owns the connection it waits on, and a reclaimed connection has no owner and
\* nothing left to read, so no request can reach an account that is gone.
CallOwnsConnection ==
    /\ \A p \in Procs : proc[p].pc \in Waiting =>
          proc[p].fd # NONE /\ Open(proc[p].fd) /\ conn[proc[p].fd].owner = p
    /\ \A fd \in Fds : Open(fd) /\ conn[fd].reclaimed =>
          conn[fd].owner = NONE /\ conn[fd].unread = <<>>

SumOver(map) == SumFunction([p \in Procs |-> SumFunction(map[p])])

\* Nobody is in a call, no request is unread, no dead process is left over.
Quiet ==
    /\ \A p \in Procs : proc[p].pc \in {"dead", "idle"}
    /\ \A fd \in Fds : Open(fd) => conn[fd].owner # NONE /\ conn[fd].unread = <<>>

\* When nothing is under way, what the pod manager has booked is what the hooks
\* of the running processes have recorded: what ended processes held has been
\* recovered, wherever in a call they ended (pod-manager.cpp:426, "recover
\* memory usage").  Only a running process whose request was repeated after a
\* timeout, and so may be booked twice, upsets the books, until it ends.
QuietBooksBalance == Quiet /\ RepeatedFds = {} => gpu_mem_used = SumOver(hook_map) % WORD

\* The memory of ended processes is recovered in full even when their requests
\* were repeated and booked twice.
ExitRecoversMemory ==
    (\A fd \in Fds : ~Open(fd)) => gpu_mem_used = 0

\* hook.cpp:618, "block allocation request before over-allocate": the device
\* never holds more than the limit for the processes of the pod.
NeverOverAllocated == SumOver(real) <= LIMIT
=============================================================================
