# Gemini: a TLA+ model of its token scheduler, pod managers and hook library

Gemini shares one NVIDIA GPU among containers. Every process of a container is
preloaded with a hook library that intercepts the CUDA driver API; every
container (pod) has a pod manager, `gem-pmgr`; one scheduler, `gem-schd`, hands
out a single token per GPU. Before a kernel is launched the hook library asks
its pod manager for quota; the pod manager asks the scheduler when its own
quota would not last; the scheduler gives the token to one pod at a time, so
that over a sliding window every pod gets at least REQUEST and at most LIMIT of
the GPU's time. Allocations are checked against a memory limit per pod.

Line numbers refer to `src/src/`.

## Inventory

| component | state | operations | talks to |
|---|---|---|---|
| scheduler (`scheduler.cpp/.h`) | `candidates`, `history_list`, `client_info_map`; the daemon's locals | `schedule_daemon_func` (one daemon thread), `handle_message` (a thread per pod manager), `read_resource_config` (a thread that watches the file) | pod managers over TCP; its threads through `candidate_mutex` and `candidate_cond` |
| scheduling policy (`select_candidate`, `schd-priority.cpp`) | none | usage in the window, limit and requirement, `schd_priority` | called by the daemon |
| pod manager, launches (`pod-manager.cpp`) | `quota_state`, `pod_quota`, `quota_updated_tp`, `pod_overuse_ms`, `client_burst_map`, `request_queue`, `response_map` | `hook_kernel_launch` (a thread per connection), a sender and a receiver thread | hook libraries and the scheduler over TCP; its threads through five mutexes and three condition variables |
| memory accounting (`pod-manager.cpp`, `hook.cpp`) | `gpu_mem_used`, `allocation_map` of the pod manager; `allocation_map` of each process | hooks of all calls that allocate, free or ask for memory, `hook_update_memory_usage`, recovery when a connection closes | one new TCP connection per request |
| burst predictor (`predictor.cpp/.h`) | two deques of records, three time points | `record_start`, `record_stop`, `interrupt`, `predict_*`, `reset`, `set_upperbound` | called by the hook library |
| hook library, launches (`hook.cpp` 268-351, 410-580, 749-808) | `quota_time`, `request_start`, `overuse_trk_cmpl`, `sockfd` | `cuLaunchKernel_prehook`, the overuse tracker `wait_cuda_kernels`, `host_sync_call`, `communicate`, `initialize` | the pod manager; its tracker through three condition variables |
| interposition (`hook.cpp/.h`) | tables of functions | `dlsym` and generated wrappers | the CUDA driver |
| messages (`comm.cpp/.h`), `debug.*`, `tools/*.py` | - | fixed-size encoding, retries, logging, start scripts | - |

What is hard: condition variables that are waited on before their condition is
looked at; state that is tested in one critical section and set in another, or
read outside of all of them; a clock that runs against signals; processes that
end in the middle of a call, and peers that go away and come back; a socket
variable that threads share; requests repeated after a timeout; unsigned accounts
that wrap; a window of overlapping slots. `PROJECT.json` lists these hazards line by
line, each with the properties that would catch it.

What makes each component correct: the scheduler runs one token at a time,
loses no request, starves nobody and charges time as the policy says; the pod
manager answers each launch once, with its own answer, and leaves nobody asleep;
the accounts add up to what is allocated, whatever processes do; the predictor's
forecast is the maximum of the recent bursts; the hook library asks for a token
only when all kernels are done, gives every thread its own answer and lets every
launch return. Not all of this holds; the violation runs say what does not.

## Modules

| module | models | extends |
|---|---|---|
| `SchedulingPolicy` | the pure half of `select_candidate` and `schd_priority`, with a reference definition of usage | |
| `TokenServer` | abstract: what the scheduler promises | |
| `Scheduler` | `gem-schd`: daemon, handlers, configuration, the two TCP directions, connections and their descriptors | `SchedulingPolicy` |
| `TokenHistory` | `Scheduler` with two history variables; the properties of the token | `Scheduler`; instantiates `TokenServer` |
| `Predictor` | the predictor, all methods | |
| `PodManager` | `gem-pmgr`, the path of a launch, and the scheduler as it sees it, until it goes away | |
| `GpuMemory` | the memory hooks of several processes composed with the pod manager's accounts | |
| `Communicate` | `communicate()`: threads of a process, one shared `sockfd`, a pod manager that may be restarted | |
| `HookLaunch` | the launch hook, the overuse tracker, synchronising and memory calls, the GPU | `Communicate` |
| `MCScheduler`, `MCTokenHistory`, `MCPodManager`, `MCGpuMemory`, `MCHookLaunch` | instances for TLC | |
| `FiniteLemmas` | lemmas about finite sets, sums, lists and where in a list something occurs | |
| `SchedulerProofs`, `PredictorProofs`, `PodManagerProofs`, `GpuMemoryProofs`, `HookLaunchProofs` | theorems about the module of that name | `FiniteLemmas` |
| `TokenProofs` | theorems about `TokenHistory`, with the refinement of `TokenServer` | `SchedulerProofs` |
| `LimitProofs` | theorems about the sweep, the comparator and the limit | `TokenProofs` |

A critical section of a mutex is one action; so is each stretch of code outside
of one that touches shared state once. `"map"` in `PROJECT.json` gives the lines
behind each definition. An operator whose comment begins with *Fault:* is a
faulty variant of the definition that follows it and is used by nothing: put in
that definition's place, it makes one of the properties fail.

### Scheduler

`daemon_pc` follows `schedule_daemon_func`: `top` (about to look at the
candidates), `idle` (452-498), `limited` (the timed wait in `select_candidate`),
`send` and `armed` (between the unlock at 465 and the lock at 477), `hold` (the
timed wait at 479). `candidate_cond` has one waiter, so one flag, `signalled`,
is enough, and a signal outside of a wait is dropped as POSIX drops it. A
handler works in two steps, before the lock (`HandleQuota`, which rewrites the
history without the mutex, as the code does) and under it (`PushCandidate`).

* `history_list` is a set; starts differ, so their order is the list's order.
  The unsynchronised accesses of handlers and daemon to it are atomic here.
* Times are ticks. The clock has microseconds in the code, so `Grant` and
  `PodSend` ask that it has moved since the client's last slot began. From
  `HORIZON` on the clock stands still and everything measured by it moves back
  instead, which keeps all differences: the runs have no last tick.
* On a clock of a few ticks a slot ends at the very start of the window all the
  time, which on the real clock hardly ever happens; there the code counts the
  slot's end as a second start (330), and a client that has used nothing lately
  can lose its turn to the arbitrary order of a sort. `ClockTies` says whether
  the daemon may select at such an instant. It may not in `token` and `service`,
  where on a coarse clock the instant recurs at every turn; the theorems hold
  either way, and `UsageIsEqualShare` leaves the instant itself out.
* `get_quota` halves with integer division. Usages are exact: in units of 1/60
  tick, so up to six slots can share one.
* `std::sort` is not stable, so ties go either way, and on sets that
  `schd_priority` does not order (a candidate exactly at its requirement) any
  element may come first.
* A pod manager sends anything at any time under an id that is not in flight, up to
  `MAX_IN_FLIGHT` requests at once.
* `client_sock` is the descriptor of each pod manager's handler. A candidate carries
  it, as in the code, and `SendQuota` sends to that number: the answer reaches
  whoever is at its other end by then, or nobody (`Delivered`). The pod managers in
  `Mortal` connect at any time, end at any step and start again. What one has sent
  is still read by its handler, which then closes the descriptor (`HandlerEnds`);
  its candidates stay on the list with the old number, which `accept()` gives to the
  next connection, whosever it is. SIGPIPE, which takes two answers to one ended pod
  manager, is left out.
* A reload replaces an entry in one step (`ReloadLine`), and the daemon's lookups of
  lines 373, 459 and 463 are one with the selection. The code deletes the old entry
  without a mutex. A thread that goes on with a deleted entry whose memory still has
  its contents behaves as if its step came before the reload, which is an order the
  model has; what happens when the memory is in use again is undefined.

### TokenHistory

A pod manager can have two quota requests in flight: two service threads can pass
the gate (`pod-manager.cpp` 304-337) before either announces its update. When the
second is handled before the first is granted, the daemon takes it for the return
of the token (485) and grants the next while the first is running. So the promise
of one token at a time fails for such a client (run `second_request`), and the
question is what holds nevertheless. Two history variables, which no guard reads,
answer it. `hasty` is the set of clients that were granted a token while a request
of theirs was already handled or listed; a client leaves it with its next proper
grant. `granted` is the limit a client was measured against at its latest grant, or
`NONE` if the sweep charged it less than it had used, which takes a tie (330). The
properties then say: the token of a client that is not hasty is exclusive, and
waited for, whatever hasty clients do. `TokenServer` has the same distinction: it
grants only while no token that is waited for is out, and leaves a token unwatched
only if its client is asking again or has an earlier one out.

### PodManager

Each service thread has a program counter through `hook_kernel_launch`; `gated`
and `asleep` are inside `pthread_cond_wait`, and only a thread that is there
sees a signal. `pod_overuse_ms`, `quota_updated_tp` and `pod_quota` are read and
written where the code does it, outside of mutexes; the return value of line 383
is read in the last step, `Finish`, and is not stored. Request ids are forgotten when nothing
refers to them any more and are then reused, which stands for the counter of
`prepare_request`. The age of the quota stops at `MAX_AGE`, beyond every quota.
Connection and `accept` are one step. `link` is the connection to the scheduler:
when it goes away (`LoseScheduler`) the receiver closes the socket and ends, the
sender goes on taking requests from the queue and losing them, and nobody is told.
That the closed number may be given to a hook connection, to which the sender would
then write, is left out.

### GpuMemory

`communicate()` opens a connection for every request and never closes it, so an
account belongs to one request, not to one process. A process allocates with one
thread; `real` is what the device holds for it. It may end at any step, killed or
through `exit()` after `MAX_ATTEMPT` attempts; its connections are then reclaimed
and closed one at a time, in any order, and their descriptors reused, lowest
first. `WORD`, small, stands for 2^64: the arithmetic is modulo `WORD` everywhere.

All allocating calls begin with the same request (`CallAlloc`) and are told apart
where their answer is used: against a known size (`CheckRemain`), against
`*pPitch` before the device has set it (`CheckPitch`), or only to be reported
(`ReportMemory`). Managed and mipmapped memory has empty hooks (`AllocUnhooked`)
and is freed as unknown memory. `Kinds` says whether the last two kinds are in use;
they are not in `over_allocation`, whose limit they would break by themselves.
`repeated` is a ghost that marks the connections with a repeated request.

### Communicate and HookLaunch

A call of `communicate()` goes through the places of `call[t].pc`; `sockfd` is
assigned before `comm_mutex` is taken (312, 320), and every system call looks it up
anew. Connections are forgotten when no call can use them any more, and all are
when no call is under way. `timed` distinguishes memory requests, which time out
and are repeated, from token requests, which wait for ever. The pod manager
answers the requests of a connection in turn and may be restarted at any time,
which closes all connections; the process may find recv() returning 0 or failing,
be ended by SIGPIPE, or by `exit()` after `MAX_ATTEMPT` attempts (`alive`).

`HookLaunch` puts the launch hook on top, place by place between its critical
sections; `expiration_status_mutex` is held at `LockedPcs`, which includes the
request itself. Kernels on the GPU are "old" once the tracker's event has been
recorded after them and "new" until then. `ongoing` is the flag of the predictor,
set and reset where the code calls it; forecasts come out of a set, and {0} is
enough in the runs: a forecast only brings the next token request forward. The three
condition waits (481, 494, 553) stand in no loop, and each may return without a
signal (`SpuriousTracking`, `SpuriousCompletion`): the tracker then tracks what
nobody started, and a launch asks for a token while tracked kernels run.

### Predictor

Each method is one action. `measured` and `bursts` are ghosts: all records since
the last reset and all bursts since the last interrupt, against which the deques
and the long burst are compared. The interval since `timepoint_t::min()`, which
overflows, may compare either way.

## Runs

| run | instance | shows |
|---|---|---|
| `token` | 2 clients, one with 2 requests in flight, window 2, quota 1, overuse 1 (863,000 states) | `TokenExclusive`, `HoldIsPatient`, `RequestsConserved`, `UsageIsEqualShare`, `LimitOvershootBounded`, `RequirementsFirst` (a sort with nobody exactly at its REQUEST selects one that is short of it), and `ImplementsTokenServer` (refinement: every step is a step of the abstract token server, or leaves it alone) |
| `service` | 3 pod managers on 3 descriptors: one stays, one that is configured later sends all kinds of requests, one is silent and may take over the number of the other; one end; window 1, quota 1; fair (191,000) | `RequestsConserved`: nothing of the one that stays is lost, doubled, or answered with what was meant for another; `CandidatesKnown`; `NoStarvation`: a request is answered unless its own pod manager ends |
| `predictor` | 4 records, 6 ms, valid for 2, merged over gaps of 1 | `ForecastIsRecentMax`, `MergedCoversUnmerged`, `SentinelsUnused`, `LongBurstIsChain` |
| `pod_manager` | 2 connections, 2 requests, quota 2, bursts 0 and 1, a scheduler that may go away (844,000) | `RequestsConserved`, `GateHasKeeper`, `RequestCoversBurst` |
| `memory` | 2 processes, 4 descriptors, size 2, limit 4, word 8, 2 attempts, one connection at a time with a repeated request (1.46 million) | `TotalIsSumOfAccounts`, `AccountPerConnection`, `QuietBooksBalance`, `ExitRecoversMemory` |
| `hook_launch` | 2 launching threads, one of which allocates, 3 descriptors, 2 attempts, quota 1; fair (237,000) | `ReplyIsMine`, `LaunchReturns`: a launch returns unless the process ends or hangs in one of the two ways named there |
| `lost_wakeup` (violation) | 2 clients, window 3, quota 2 | `ReturnEndsHold`: a client that returns between lines 471 and 477 signals in vain, and the GPU idles to the end of its quota |
| `second_request` (violation) | as `lost_wakeup`, with 2 requests in flight | `HoldEndsOnReturn`: a request sent before the grant is taken for the return (485), and two tokens run at once |
| `lost_launch` (violation) | 2 connections, fair | `LaunchAnswered`: sender (452) and service thread (357) wait before they look; a signal that comes early is lost and the launch hangs |
| `over_allocation` (violation) | 2 processes | `NeverOverAllocated`: check, allocation and booking are three steps, and a refused booking leaves the memory allocated |
| `unfinished_kernels` (violation) | as `hook_launch` | `AllKernelsDone`: "wait for all kernels finish" (548) covers those launched before the tracker's event; one launched after it still runs when the token is asked for |
| `missed_start` (violation) | as `hook_launch`, fair | `TrackingEnds`: a start signal (573) that comes before the tracker waits is lost, and the next launch waits at 553 for ever |

The other disagreements met while modelling have no run of their own. A launch that
found the quota sufficient at `pod-manager.cpp` 326 may go ahead after another thread has
replaced it by a smaller one. A slot that ends exactly at the start of the window is
overcharged (330). A candidate exactly at its requirement makes `schd_priority`
cyclic (25). A client below LIMIT gets a whole quota and can exceed it, which
`LimitOvershootBounded` bounds. A process that allocated and freed through different
connections leaves accounts of +s and -s; between the two reclaims (431) the pod's
total is off by s, and an allocation of up to s beyond the limit passes.
`set_upperbound` stores a bound that nothing reads. A burst whose start slips past the
tracker's stop goes on without a token (541, 576). The quota of a token is 6000 ms
whatever the scheduler says (458). And a thread that calls `recv` on a connection which
another thread has put into `sockfd` after its `send` (312, 330) waits for ever when it
has no timeout: this is `Unheard` in `LaunchReturns`, together with a pod manager that
does not answer (`lost_launch`); the other excuse, `StartMissed`, is `missed_start`.

**Bounds.** Two clients are enough for every pair of daemon wait and foreign
request. In `token` one of them may have two requests in flight (`MAX_IN_FLIGHT`), so
that hasty and other clients meet; with quota 1 in a window of 2 both limits are hit,
overuse 1 makes slots overlap, and a token that is not waited for makes them overlap
further. `service` has the smallest window in which a client can be at its limit, and
`RequestTypes` gives all kinds of requests to the pod manager that comes and goes; one
end (`MAX_ENDS`) is enough for a stale candidate to meet its descriptor in the hands of
its successor or of another. Any number of clients, requests, descriptors and ends is
covered by the proofs.
Two connections let two updates overlap; that the gate holds for more is proved. In
`memory` four descriptors hold one allocation of each process, or one that is freed
and repeated; a booking repeated on top of the other process's fills the limit and is
refused, and a free on another connection wraps its account. In `hook_launch` two
threads are enough for every pair of places in `communicate()`, and three descriptors
for the one in `sockfd`, one a `recv` still waits on, and a new one. Four
predictor records fill and empty both deques from either end. Deadlock is checked
except in `predictor`, which ends at its bounds, and in `hook_launch` and the two
violation runs of its module, where the process may end and may hang.

**Fairness.** `Scheduler`: weak fairness of the clock and of each handler thread,
which are always runnable when enabled; strong fairness of the daemon, since at the
instants that `ClockTies` takes away it is not enabled, although the real daemon is.
Nothing is assumed of pod managers, who need neither return nor read, end nor come
back. `PodManager`: weak fairness of each service thread, of the sender and receiver,
and of the scheduler answering (which `NoStarvation` supports); spurious wakeups are
possible and never assumed. `HookLaunch`: weak fairness of each thread inside a call,
which includes a `recv` that gives up after its timeout (SO_RCVTIMEO), of the tracker,
the clock and the kernels; strong fairness of taking a mutex, which other threads take
and release again and again, as futex-based mutexes under a fair scheduler provide in
practice. Nothing is assumed of the pod manager, which need not answer, of the
application's calls, of the failures and of waits that return by themselves.

## Proofs

All for arbitrary values of the constants, under the `ASSUME`s of the modules,
which TLC evaluates in the runs. Connections, processes and pointers are assumed to
be finitely many (`ConnAssumption`, `FiniteAssumption`), since their bursts and sizes
are compared and summed.

`FiniteLemmas` holds what several proofs need. A fact about all finite sets, or all
numbers, is proved there by looking at a smallest counterexample
(`MinimalFiniteSet`, `LeastNatural`), which needs no induction rule; that a sum
changes by what one summand changes, and that a sum over pairs is the sum of the
owners' sums, are such facts.

Scheduler:

* `SchedulerProofs!CandidatesAlwaysKnown`, `TypeCorrect`: `IndType`, that is `TypeOK`
  with `CandidatesKnown` and `ConnInv`, is inductive. Types and entries need each
  other: a grant writes `quota_` into the entry of the client it serves. `ConnInv` is
  about descriptors: a handler with something to do has an open one, no two share one,
  and a candidate carries the number of a pod manager that stays exactly if it is its.
* `SchedulerProofs!RequestsNeverLost`, for any number of clients, requests in flight,
  descriptors and pod managers that come and go. `RequestsConserved` counts copies, and
  counting is not inductive: two copies less and two more would do as well.
  `PlaceInv(c, r)` says instead, of one request, that it is at most once in each list,
  in at most one of the five places, and nowhere unless outstanding. Every step moves
  every request on, and the count is 1 or 0 by where it is. That no foreign answer
  comes in is where `ConnInv` is needed.
* `TokenProofs!HistoryTypeCorrect`, `TokenIsExclusive`, `HoldsArePatient`, without
  assumptions on the pod managers. `TokenExclusive` is not inductive: a grant keeps it
  only if no token is running and waited for when the daemon selects. `IndToken` adds
  `SlotDiscipline`: a slot that runs and whose client is not hasty is the newest of
  all, ends no later than the daemon's deadline, and no request of its client has been
  handled since it began. Whoever is granted with a request handled already is hasty
  from that step on, so a return among the candidates can be trusted for the others.
* `TokenProofs!TokenServerImplemented`: the refinement. Beside `IndToken` it needs
  `ConfigKept` (together `ServerInv`). A grant must make its client the holder, so its
  quota may not be zero: configured entries have a positive MAX_QUOTA (from
  `ConfigAssumption`), and then so does `get_quota`. And a dropped request is a `Refuse`
  only if its client is not one of `Known`: a configured client stays configured. All
  other steps leave the waiting requests alone and start no slot.
* `LimitProofs!SweepIsEqualShare`: for any history whose slots end after the start of
  the window and lie at most six over a tick, the sweep computes what dividing every tick
  equally among the slots over it adds up to. Between two stops no slot begins or ends
  (`CoveringConstant`), the vector holds exactly the slots over the stretch
  (`EntriesCover`), and a stretch adds its length times one share (`ConstantStretch`); up
  to six, since 1/60 of a tick divides exactly that far (`ExactShare`).
  `SweepIsExact`: so does every selection of the scheduler; `ShapeInv` keeps the
  history finite and its slots the right way round.
* `LimitProofs!ProperOrder`: `schd_priority` is a strict weak order on any set of
  candidates none of which is exactly at its requirement; the quotients are compared by
  cross-multiplication. `RequirementsComeFirst`: so what the sort puts first has nobody
  before it, and everybody who is short comes before everybody who is not.
* `LimitProofs!LimitIsKept`, for every number of clients, requests in flight and
  reloads, and with ties. `LimitOvershootBounded` bounds the usage at every moment,
  though the limit is looked at only when the daemon selects. `LimitInv` carries it:
  before its latest slot a client was below the limit of that grant (`WithinLimit`), and
  its earlier slots have ended by then (`SlotsInTurn`), so that slot is all that comes
  on top. A return of another client may only lengthen that one's slot under ticks that
  are counted already, so shares shrink (`ShareMonotone`); a tick takes from the front of
  the window (`UsageMonotone`); pruning changes no usage inside of it (`PrunedUsage`).
  Left out are hasty clients, whose slots overlap each other, and a client whose usage
  the sweep had understated when it was granted (`granted` is `NONE`): nothing else
  breaks the bound.

Predictor, pod manager, hook library:

* `PredictorProofs!SentinelsNeverUsed`: a burst in progress is part of a long
  burst, and a long burst without one has an end, so the overflowing interval
  decides nothing. `PredictorTypeCorrect` with it.
* `PredictorProofs!ForecastsAreRecentMaxima`, `MergedCovers`. The forecast is the front
  of the deque, and says nothing about what was thrown away. `Keeps` does: times
  ascend and lengths descend along the deque, and whatever was ever added is outdated
  or overtaken by a later and longer record that is still there.
* `PredictorProofs!LongBurstsAreChains`: `ChainInv` follows the long burst between the
  bursts too, when the property says nothing: its bursts are linked by short gaps
  (`Linked`), the first begins where it begins, and earlier ones are cut off.
* `PodManagerProofs!GateIsKept`: inductive with the type of `pc`. Finish is the
  only way out of an update, and it resets the state and empties the gate.
  `PodTypeCorrect`.
* `PodManagerProofs!RequestsAreConserved`: `ReqInv` replaces the counts by sets: which
  ids each list and the response map hold, that no list repeats one and no two share
  one, and that the ids under way are the ones threads wait for, as long as the
  scheduler is there.
* `PodManagerProofs!RequestsCoverBursts`: a thread's burst stays listed until it has
  taken the maximum (`BurstListed`), and the estimate stays above it until it is
  queued (`BurstEstimated`), whatever the other threads list meanwhile.
* `GpuMemoryProofs!AccountsFollowConnections`: inductive with the types and
  `CallOwnsConnection`: a process waits only on a connection it owns, and a
  reclaimed connection has no owner and nothing unread, so no request reaches an
  account that is gone. `MemoryTypeCorrect`: the same invariant with the type of
  `real`; accounts and totals stay within the word because every step reduces them.
* `GpuMemoryProofs!TotalMatchesAccounts`, `ExitsRecoverMemory`: `BooksInv` adds that
  the total is congruent to the sum of the accounts modulo the word; both may wrap.
* `GpuMemoryProofs!BooksBalance`: a process's accounts are congruent to what its hook
  has recorded plus what is booked and not yet recorded (`Balanced`), unless a request
  of its was repeated. For that a request that was sent once is unread or answered,
  never both (`SentOnce`), and the address of the call under way is recorded exactly
  when it is being freed (`HookKnows`). The sums over processes follow by `SumByOwner`.
* `HookLaunchProofs!HookTypeCorrect`, `RepliesAreMine`: `sockfd` may change while a
  thread waits, so a thread may send on one connection and read from another. `CommInv`:
  only the holder of `comm_mutex` sends; a connection without a repeated request
  carries one message at most, and that one is the holder's; one that has replaced
  the holder's in `sockfd` is still unused.

Only model-checked: the liveness properties `NoStarvation` and `LaunchReturns`, since
fairness and ENABLED are outside of the prover. Every other property of a passing run is
a theorem, for every value of the constants that satisfies the `ASSUME`s.

## Not modelled

More than one device per process (`request_start` and the tracker's device are shared
by all of them, 566, 477; there are two predictors for eight devices, 188). The measured
overuse and the estimated full burst (415-434, 507-511): the one is passed as a pointer
where a double is read (448), and the pod manager takes reports out of a set. More than
six slots over one tick, where usages in 1/60 tick are no longer exact. SIGPIPE in the
scheduler; failing system calls at the start of the three programs; running out of descriptors. A memory verdict
read out of an unfilled buffer when the pod manager goes away (in `HookLaunch` the
answer's content plays no part, in `GpuMemory` the pod manager stays). Undefined
behaviour of unsynchronised containers (`history_list`, `allocation_map`,
`client_info_map`) and of a `ClientInfo` deleted while in use. The layout of messages,
interposition, logging and scripts, which carry no state of their own.

## Plan

1. Done: `SchedulingPolicy`, `Scheduler`, `TokenHistory`, `TokenServer`;
   `Predictor`; `PodManager`; `GpuMemory`; `Communicate`, `HookLaunch`; the proofs above.
2. A composition of `PodManager` and `Scheduler`, with `SchedulerAnswers`
   replaced by the token server.
