---------------------------- MODULE Communicate -----------------------------
(***************************************************************************)
(* communicate() of the hook library (hook.cpp): how the threads of one    *)
(* process talk to the pod manager of one device.  Every call opens a      *)
(* connection of its own and stores it in sockfd[device] before it takes   *)
(* comm_mutex; setsockopt(), send() and recv() then each look sockfd up    *)
(* anew.  The pod manager answers requests on the connection they came in  *)
(* on and may be restarted at any time.                                    *)
(***************************************************************************)
EXTENDS Naturals, Sequences

CONSTANTS
    Threads,      \* application threads of the process
    MaxFd,        \* descriptors are 1..MaxFd; one is reused once unreferenced
    MAX_ATTEMPT,  \* NET_OP_MAX_ATTEMPT
    NONE

ASSUME AttemptAssumption == MAX_ATTEMPT \in Nat \ {0}
ASSUME FdAssumption == MaxFd \in Nat
ASSUME NoneAssumption == NONE \notin Threads /\ NONE \notin Nat

VARIABLES
    sockfd,      \* sockfd[device]
    comm_mutex,  \* who holds it
    chan,        \* per descriptor: the connection
    call,        \* per thread: where it is in communicate()
    alive        \* the process has not ended

comm_vars == <<sockfd, comm_mutex, chan, call, alive>>

Fds == 1 .. MaxFd
CallPcs == {"none", "connect", "lock", "send", "recv", "wait", "done"}
Call == [pc : CallPcs, timed : BOOLEAN, attempt : 0 .. MAX_ATTEMPT, fd : Fds \cup {NONE},
         answer : Threads \cup {NONE}]
NoCall == [pc |-> "none", timed |-> FALSE, attempt |-> 0, fd |-> NONE, answer |-> NONE]
Connection == [open : BOOLEAN, timed : BOOLEAN, requests : Seq(Threads), replies : Seq(Threads),
               repeated : BOOLEAN]   \* ghost: a request was sent on it for a second time
Fresh == [open |-> TRUE, timed |-> FALSE, requests |-> <<>>, replies |-> <<>>, repeated |-> FALSE]

CommTypeOK ==
    /\ sockfd \in Fds \cup {NONE}
    /\ comm_mutex \in Threads \cup {NONE}
    /\ chan \in [Fds -> Connection]
    /\ call \in [Threads -> Call]
    /\ alive \in BOOLEAN

CommInit ==
    /\ sockfd = NONE /\ comm_mutex = NONE
    /\ chan = [fd \in Fds |-> Fresh]
    /\ alive = TRUE

In(t, place) == call[t].pc = place
CallGoes(t, place) == call' = [call EXCEPT ![t].pc = place]

\* The call communicate(..., socket_timeout, device); 0 means never.
Entered(timed) == [NoCall EXCEPT !.pc = "connect", !.timed = timed]

\* A descriptor that neither sockfd nor a recv() refers to.
IsFreeFd(fd) == fd # sockfd /\ \A t \in Threads : call[t].fd # fd

\* establish_connection(); the new descriptor replaces whatever sockfd was, and
\* comm_mutex is not held yet.  What no recv() waits on is never read again.
Connect(t) ==
    /\ In(t, "connect") /\ CallGoes(t, "lock")
    /\ \E fd \in Fds :
          /\ IsFreeFd(fd) /\ \A e \in Fds : e < fd => ~IsFreeFd(e)
          /\ sockfd' = fd
          /\ chan' = [e \in Fds |-> IF \E u \in Threads : call[u].fd = e THEN chan[e]
                                    ELSE Fresh]
    /\ UNCHANGED <<comm_mutex, alive>>

\* exit(rc) ends the process.
ProcessExits ==
    /\ alive' = FALSE
    /\ UNCHANGED <<sockfd, comm_mutex, chan, call>>

\* Nobody accepts for MAX_ATTEMPT attempts.
ConnectFails(t) == In(t, "connect") /\ ProcessExits

\* Fault: two threads communicate at a time.
LockIgnored(t) ==
    /\ In(t, "lock") /\ CallGoes(t, "send")
    /\ comm_mutex' = t
    /\ chan' = [chan EXCEPT ![sockfd].timed = call[t].timed]
    /\ UNCHANGED <<sockfd, alive>>

\* The timeout goes to the connection in sockfd now.
LockComm(t) ==
    /\ In(t, "lock") /\ CallGoes(t, "send")
    /\ comm_mutex = NONE /\ comm_mutex' = t
    /\ chan' = [chan EXCEPT ![sockfd].timed = call[t].timed]
    /\ UNCHANGED <<sockfd, alive>>

\* send() on a connection the pod manager has closed is lost, or raises SIGPIPE.
Send(t) ==
    /\ In(t, "send")
    /\ call' = [call EXCEPT ![t].pc = "recv", ![t].attempt = @ + 1]
    /\ IF chan[sockfd].open
       THEN chan' = [chan EXCEPT ![sockfd].requests = Append(@, t),
                                 ![sockfd].repeated = @ \/ call[t].attempt > 0]
       ELSE UNCHANGED chan
    /\ UNCHANGED <<sockfd, comm_mutex, alive>>

BrokenPipe(t) == In(t, "send") /\ ~chan[sockfd].open /\ ProcessExits

\* recv() is called on the connection in sockfd now, and stays with it.
EnterRecv(t) ==
    /\ In(t, "recv")
    /\ call' = [call EXCEPT ![t].pc = "wait", ![t].fd = sockfd]
    /\ UNCHANGED <<sockfd, comm_mutex, chan, alive>>

Busy(t) == call[t].pc \in {"lock", "send", "recv", "wait"}

\* The call is over.  Of its connections only those that other calls are going
\* to use, through sockfd or in recv(), matter still; the rest stay open, unread.
Finished(t, answer, connection) ==
    LET others == {u \in Threads \ {t} : Busy(u)}
        kept == IF others = {} THEN {} ELSE {sockfd} \cup {call[u].fd : u \in others}
    IN  /\ call' = [call EXCEPT ![t] = [NoCall EXCEPT !.pc = "done", !.answer = answer]]
        /\ comm_mutex' = NONE
        /\ sockfd' = IF others = {} THEN NONE ELSE sockfd
        /\ chan' = [fd \in Fds |-> CASE fd \notin kept -> Fresh
                                     [] fd \in kept /\ fd = call[t].fd -> connection
                                     [] OTHER -> chan[fd]]
        /\ UNCHANGED alive

Answer(t) == chan[call[t].fd].replies

\* Whatever answer is first on the connection; nobody looks at its id.
Receive(t) ==
    /\ In(t, "wait") /\ Answer(t) # <<>>
    /\ Finished(t, Head(Answer(t)), [chan[call[t].fd] EXCEPT !.replies = Tail(@)])

Unanswered(t) == In(t, "wait") /\ Answer(t) = <<>>

\* recv() returns 0: the call succeeds with nothing in its buffer.
ReceiveNothing(t) ==
    /\ Unanswered(t) /\ ~chan[call[t].fd].open
    /\ Finished(t, NONE, chan[call[t].fd])

\* Fault: the attempts are not counted.
RecvFailsForever(t) ==
    /\ Unanswered(t) /\ (chan[call[t].fd].timed \/ ~chan[call[t].fd].open)
    /\ call' = [call EXCEPT ![t].pc = "send", ![t].fd = NONE]
    /\ UNCHANGED <<sockfd, comm_mutex, chan, alive>>

\* recv() returns -1, for a timeout or a reset: the next attempt.
RecvFails(t) ==
    /\ Unanswered(t) /\ (chan[call[t].fd].timed \/ ~chan[call[t].fd].open)
    /\ IF call[t].attempt < MAX_ATTEMPT
       THEN /\ call' = [call EXCEPT ![t].pc = "send", ![t].fd = NONE]
            /\ UNCHANGED <<sockfd, comm_mutex, chan, alive>>
       ELSE ProcessExits

\* The hook_thread_func of a connection answers its requests in turn.
PodManagerAnswers(fd) ==
    /\ chan[fd].open /\ chan[fd].requests # <<>>
    /\ chan' = [chan EXCEPT ![fd].requests = Tail(@),
                            ![fd].replies = Append(@, Head(chan[fd].requests))]
    /\ UNCHANGED <<sockfd, comm_mutex, call, alive>>

\* Every connection of the old one is closed, unread requests are gone.
PodManagerRestarts ==
    /\ \E t \in Threads : Busy(t)
    /\ chan' = [fd \in Fds |-> [chan[fd] EXCEPT !.open = FALSE, !.requests = <<>>]]
    /\ UNCHANGED <<sockfd, comm_mutex, call, alive>>

\* What a thread does on its own, in fair turns with the others.
Communicating(t) ==
    \/ Connect(t) \/ Send(t) \/ EnterRecv(t) \/ Receive(t) \/ ReceiveNothing(t)
    \/ RecvFails(t)

CommFault(t) == ConnectFails(t) \/ BrokenPipe(t)
=============================================================================
