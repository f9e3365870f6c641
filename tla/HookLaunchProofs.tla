-------------------------- MODULE HookLaunchProofs --------------------------
(***************************************************************************)
(* For any number of threads: the types of the launch hook, and that the   *)
(* answers of communicate() reach the calls they belong to although all    *)
(* threads share sockfd.                                                   *)
(***************************************************************************)
EXTENDS HookLaunch, FiniteLemmas

-----------------------------------------------------------------------------
(* communicate().  Every thread writes sockfd outside of comm_mutex, so a  *)
(* thread may send on one connection and wait on another.  What makes the  *)
(* answers right all the same: only the holder of comm_mutex sends, a      *)
(* connection that saw no repeated request carries at most one message,    *)
(* and that one is the holder's; a connection that replaces the holder's   *)
(* own in sockfd is still unused.                                          *)

Unused(c) == c.requests = <<>> /\ c.replies = <<>>
CarriesOne(c, t) ==
    \/ c.requests = <<t>> /\ c.replies = <<>>
    \/ c.requests = <<>> /\ c.replies = <<t>>

CallInv(t) ==
    /\ comm_mutex = t <=> call[t].pc \in {"send", "recv", "wait"}
    /\ call[t].fd # NONE <=> call[t].pc = "wait"
    /\ Busy(t) => sockfd \in Fds
    /\ call[t].pc = "send" => call[t].attempt < MAX_ATTEMPT
    /\ call[t].pc \in {"connect", "lock"} => call[t].attempt = 0
    /\ call[t].pc = "wait" /\ sockfd # call[t].fd => Unused(chan[sockfd])

ChanInv(fd) ==
    /\ ~chan[fd].open => chan[fd].requests = <<>>
    /\ \/ chan[fd].repeated
       \/ Unused(chan[fd])
       \/ \E t \in Threads : comm_mutex = t /\ call[t].attempt > 0 /\ CarriesOne(chan[fd], t)

CommInv ==
    /\ CommTypeOK
    /\ \A t \in Threads : CallInv(t)
    /\ \A fd \in Fds : ChanInv(fd)

\* What the types of a call and of a connection say.
LEMMA CommTypes ==
  ASSUME CommInv
  PROVE  /\ \A t \in Threads : /\ call[t] \in Call /\ call[t].pc \in CallPcs
                               /\ call[t].timed \in BOOLEAN /\ call[t].attempt \in Nat
                               /\ call[t].attempt \in 0 .. MAX_ATTEMPT
                               /\ call[t].fd \in Fds \cup {NONE}
         /\ \A fd \in Fds : /\ chan[fd] \in Connection /\ chan[fd].open \in BOOLEAN
                            /\ chan[fd].repeated \in BOOLEAN
                            /\ chan[fd].requests \in Seq(Threads)
                            /\ chan[fd].replies \in Seq(Threads)
         /\ MAX_ATTEMPT \in Nat \ {0} /\ NONE \notin Threads /\ NONE \notin Fds
<1>1. MAX_ATTEMPT \in Nat \ {0} /\ NONE \notin Threads /\ NONE \notin Fds
  BY AttemptAssumption, NoneAssumption, FdAssumption DEF Fds
<1>2. call \in [Threads -> Call] /\ chan \in [Fds -> Connection]
  BY DEF CommInv, CommTypeOK
<1>3. ASSUME NEW t \in Threads
      PROVE  /\ call[t] \in Call /\ call[t].pc \in CallPcs
             /\ call[t].timed \in BOOLEAN /\ call[t].attempt \in 0 .. MAX_ATTEMPT
             /\ call[t].fd \in Fds \cup {NONE}
  BY <1>2 DEF Call
<1>4. ASSUME NEW fd \in Fds
      PROVE  /\ chan[fd] \in Connection /\ chan[fd].open \in BOOLEAN
             /\ chan[fd].repeated \in BOOLEAN
             /\ chan[fd].requests \in Seq(Threads) /\ chan[fd].replies \in Seq(Threads)
  BY <1>2 DEF Connection
<1>5. \A t \in Threads : call[t].attempt \in Nat
  <2>1. \A n \in 0 .. MAX_ATTEMPT : n \in Nat
    BY <1>1
  <2>. QED  BY <1>3, <2>1
<1>. QED  BY <1>1, <1>3, <1>4, <1>5

LEMMA NoCallTyped ==
  NoCall \in Call /\ NoCall.fd = NONE /\ NoCall.attempt = 0 /\ NoCall.pc = "none"
<1>1. 0 \in 0 .. MAX_ATTEMPT
  BY AttemptAssumption
<1>. QED  BY <1>1 DEF NoCall, Call, CallPcs

\* The holder is one thread.
LEMMA OneHolder ==
  ASSUME CommInv, NEW t \in Threads, NEW u \in Threads,
         call[t].pc \in {"send", "recv", "wait"}, call[u].pc \in {"send", "recv", "wait"}
  PROVE  t = u
BY DEF CommInv, CallInv

\* A thread enters communicate() or leaves it.
LEMMA EnterLeaveKeeps ==
  ASSUME CommInv, NEW t \in Threads, call[t].pc \in {"none", "done"},
         NEW timed \in BOOLEAN,
         \/ call' = [call EXCEPT ![t] = Entered(timed)]
         \/ call' = [call EXCEPT ![t] = NoCall],
         UNCHANGED <<sockfd, comm_mutex, chan, alive>>
  PROVE  CommInv'
<1>0. call \in [Threads -> Call] /\ comm_mutex # t
  BY DEF CommInv, CommTypeOK, CallInv
<1>1. /\ call'[t] \in Call /\ call'[t].pc \in {"none", "connect"} /\ call'[t].attempt = 0
      /\ call'[t].fd = NONE
  <2>1. PICK n \in Call : n = NoCall /\ n.fd = NONE /\ n.attempt = 0 /\ n.pc = "none"
    BY NoCallTyped
  <2>2. CASE call' = [call EXCEPT ![t] = NoCall]
    BY <1>0, <2>1, <2>2
  <2>3. CASE call' = [call EXCEPT ![t] = Entered(timed)]
    <3>1. PICK e : e = [n EXCEPT !.pc = "connect", !.timed = timed]
      OBVIOUS
    <3>2. e \in Call /\ e.pc = "connect" /\ e.attempt = 0 /\ e.fd = NONE
      BY <2>1, <3>1 DEF Call, CallPcs
    <3>3. call' = [call EXCEPT ![t] = e]
      BY <2>1, <2>3, <3>1 DEF Entered
    <3>. QED  BY <1>0, <3>2, <3>3
  <2>. QED  BY <2>2, <2>3
<1>2. /\ \A u \in Threads : u # t => call'[u] = call[u]
      /\ call' \in [Threads -> Call]
  BY <1>0, <1>1
<1>3. CommTypeOK'
  BY <1>2 DEF CommInv, CommTypeOK
<1>4. ASSUME NEW u \in Threads PROVE CallInv(u)'
  <2>1. CASE u = t
    BY <1>0, <1>1, <2>1 DEF CallInv, Busy
  <2>2. CASE u # t
    BY <1>2, <2>2 DEF CommInv, CallInv, Busy, Unused
  <2>. QED  BY <2>1, <2>2
<1>5. ASSUME NEW fd \in Fds PROVE ChanInv(fd)'
  BY <1>0, <1>2 DEF CommInv, ChanInv, Unused, CarriesOne
<1>. QED  BY <1>3, <1>4, <1>5 DEF CommInv

LEMMA ConnectKeeps ==
  ASSUME CommInv, NEW t \in Threads, Connect(t)
  PROVE  CommInv'
<1>0. /\ call \in [Threads -> Call] /\ call[t].pc = "connect" /\ call[t].attempt = 0
      /\ comm_mutex # t
  BY DEF CommInv, CommTypeOK, CallInv, Connect, In
<1>1. PICK f \in Fds : /\ IsFreeFd(f) /\ sockfd' = f
                       /\ chan' = [e \in Fds |-> IF \E u \in Threads : call[u].fd = e THEN chan[e]
                                                 ELSE Fresh]
  BY DEF Connect
<1>2. call' = [call EXCEPT ![t].pc = "lock"] /\ UNCHANGED <<comm_mutex, alive>>
  BY DEF Connect, CallGoes
<1>3. /\ call'[t].pc = "lock" /\ call'[t].attempt = call[t].attempt /\ call'[t].fd = call[t].fd
      /\ \A u \in Threads : u # t => call'[u] = call[u]
      /\ call' \in [Threads -> Call]
  BY <1>0, <1>2 DEF Call, CallPcs
<1>4. Fresh \in Connection /\ Fresh.open /\ Unused(Fresh)
  BY DEF Fresh, Connection, Unused
<1>5. \A e \in Fds : chan'[e] = chan[e] \/ chan'[e] = Fresh
  BY <1>1
<1>6. CommTypeOK'
  BY <1>1, <1>2, <1>3, <1>4, <1>5 DEF CommInv, CommTypeOK
<1>7. chan'[f] = Fresh
  BY <1>1 DEF IsFreeFd
<1>8. ASSUME NEW u \in Threads PROVE CallInv(u)'
  <2>0. sockfd' \in Fds /\ Unused(chan[sockfd])'
    BY <1>1, <1>4, <1>7 DEF Unused
  <2>1. CASE u = t
    BY <1>0, <1>2, <1>3, <2>0, <2>1 DEF CommInv, CallInv, Busy
  <2>2. CASE u # t
    BY <1>2, <1>3, <2>0, <2>2 DEF CommInv, CallInv, Busy
  <2>. QED  BY <2>1, <2>2
<1>9. ASSUME NEW e \in Fds PROVE ChanInv(e)'
  <2>1. CASE chan'[e] = Fresh
    BY <1>4, <2>1 DEF ChanInv, Unused
  <2>2. CASE chan'[e] = chan[e]
    BY <1>0, <1>2, <1>3, <2>2 DEF CommInv, ChanInv, Unused, CarriesOne
  <2>. QED  BY <1>5, <2>1, <2>2
<1>. QED  BY <1>6, <1>8, <1>9 DEF CommInv

LEMMA LockCommKeeps ==
  ASSUME CommInv, NEW t \in Threads, LockComm(t)
  PROVE  CommInv'
<1>0. /\ call \in [Threads -> Call] /\ call[t].pc = "lock" /\ call[t].attempt = 0
      /\ comm_mutex = NONE /\ sockfd \in Fds /\ chan \in [Fds -> Connection]
  BY DEF CommInv, CommTypeOK, CallInv, LockComm, In, Busy
<1>1. /\ call' = [call EXCEPT ![t].pc = "send"] /\ comm_mutex' = t
      /\ chan' = [chan EXCEPT ![sockfd].timed = call[t].timed]
      /\ UNCHANGED <<sockfd, alive>>
  BY DEF LockComm, CallGoes
<1>2. /\ call'[t].pc = "send" /\ call'[t].attempt = call[t].attempt /\ call'[t].fd = call[t].fd
      /\ \A u \in Threads : u # t => call'[u] = call[u]
      /\ call' \in [Threads -> Call]
  BY <1>0, <1>1 DEF Call, CallPcs
<1>3. /\ \A e \in Fds : /\ chan'[e].requests = chan[e].requests
                        /\ chan'[e].replies = chan[e].replies
                        /\ chan'[e].open = chan[e].open /\ chan'[e].repeated = chan[e].repeated
      /\ chan' \in [Fds -> Connection]
  BY <1>0, <1>1, CommTypes DEF Connection
<1>4. CommTypeOK'
  BY <1>0, <1>1, <1>2, <1>3 DEF CommInv, CommTypeOK
<1>5. \A u \in Threads : call[u].pc \notin {"send", "recv", "wait"}
  BY <1>0, CommTypes DEF CommInv, CallInv
<1>6. ASSUME NEW u \in Threads PROVE CallInv(u)'
  <2>1. CASE u = t
    BY <1>0, <1>1, <1>2, <2>1, CommTypes DEF CommInv, CallInv, Busy
  <2>2. CASE u # t
    BY <1>1, <1>2, <1>5, <2>2 DEF CommInv, CallInv, Busy
  <2>. QED  BY <2>1, <2>2
<1>7. ASSUME NEW e \in Fds PROVE ChanInv(e)'
  <2>1. ChanInv(e) /\ NONE \notin Threads
    BY CommTypes DEF CommInv
  <2>. QED  BY <1>0, <1>3, <2>1 DEF ChanInv, Unused
<1>. QED  BY <1>4, <1>6, <1>7 DEF CommInv

\* The first send finds its connection unused; a later one marks it.
LEMMA SendKeeps ==
  ASSUME CommInv, NEW t \in Threads, Send(t)
  PROVE  CommInv'
<1>0. /\ call \in [Threads -> Call] /\ call[t].pc = "send" /\ call[t].attempt < MAX_ATTEMPT
      /\ comm_mutex = t /\ sockfd \in Fds /\ chan \in [Fds -> Connection]
  BY DEF CommInv, CommTypeOK, CallInv, Send, In, Busy
<1>1. /\ call' = [call EXCEPT ![t].pc = "recv", ![t].attempt = @ + 1]
      /\ UNCHANGED <<sockfd, comm_mutex, alive>>
  BY DEF Send
<1>2. PICK n \in Nat : n = call[t].attempt /\ n < MAX_ATTEMPT /\ n + 1 \in 0 .. MAX_ATTEMPT /\ n + 1 > 0
  BY <1>0, CommTypes
<1>3. /\ call'[t].pc = "recv" /\ call'[t].attempt = n + 1 /\ call'[t].fd = call[t].fd
      /\ \A u \in Threads : u # t => call'[u] = call[u]
      /\ call' \in [Threads -> Call]
  <2>1. call'[t] = [call[t] EXCEPT !.pc = "recv", !.attempt = n + 1]
    BY <1>0, <1>1, <1>2
  <2>2. call'[t] \in Call
    BY <1>0, <1>2, <2>1 DEF Call, CallPcs
  <2>. QED  BY <1>0, <1>1, <2>1, <2>2 DEF Call
<1>4. ASSUME NEW u \in Threads PROVE CallInv(u)'
  <2>1. CASE u = t
    BY <1>0, <1>1, <1>2, <1>3, <2>1 DEF CommInv, CallInv, Busy
  <2>2. CASE u # t
    <3>1. call[u].pc \notin {"send", "recv", "wait"}
      BY <1>0, <2>2, OneHolder
    <3>. QED  BY <1>1, <1>3, <2>2, <3>1 DEF CommInv, CallInv, Busy
  <2>. QED  BY <2>1, <2>2
<1>5. ASSUME NEW e \in Fds, chan'[e] = chan[e] PROVE ChanInv(e)'
  <2>1. ChanInv(e)
    BY DEF CommInv
  <2>2. CASE chan[e].repeated \/ Unused(chan[e])
    BY <1>5, <2>1, <2>2 DEF ChanInv, Unused
  <2>3. CASE CarriesOne(chan[e], t)
    BY <1>0, <1>1, <1>2, <1>3, <1>5, <2>1, <2>3 DEF ChanInv, CarriesOne
  <2>. QED  BY <1>0, <2>1, <2>2, <2>3 DEF ChanInv
<1>6. CASE ~chan[sockfd].open
  <2>1. chan' = chan
    BY <1>6 DEF Send
  <2>2. CommTypeOK'
    BY <1>1, <1>3, <2>1 DEF CommInv, CommTypeOK
  <2>. QED  BY <1>4, <1>5, <2>1, <2>2 DEF CommInv
<1>7. CASE chan[sockfd].open
  <2>1. PICK b \in BOOLEAN : b = (chan[sockfd].repeated \/ call[t].attempt > 0)
    OBVIOUS
  <2>2. PICK q \in Seq(Threads) : q = Append(chan[sockfd].requests, t)
    BY <1>0, CommTypes, AppendProperties
  <2>3. PICK c \in Connection : /\ c = [chan[sockfd] EXCEPT !.requests = q, !.repeated = b]
                                /\ c.requests = q /\ c.replies = chan[sockfd].replies
                                /\ c.open = chan[sockfd].open /\ c.repeated = b
    <3>1. PICK c \in Connection : c = [chan[sockfd] EXCEPT !.requests = q, !.repeated = b]
      BY <1>0, CommTypes DEF Connection
    <3>2. /\ c.requests = q /\ c.replies = chan[sockfd].replies
          /\ c.open = chan[sockfd].open /\ c.repeated = b
      BY <1>0, <3>1, CommTypes DEF Connection
    <3>. QED  BY <3>1, <3>2
  <2>4. chan' = [chan EXCEPT ![sockfd] = c]
    BY <1>0, <1>7, <2>1, <2>2, <2>3 DEF Send
  <2>5. CommTypeOK'
    BY <1>0, <1>1, <1>3, <2>4 DEF CommInv, CommTypeOK
  <2>6. ChanInv(sockfd)'
    <3>1. chan'[sockfd'] = c /\ c.open
      BY <1>0, <1>1, <1>7, <2>3, <2>4
    <3>2. CASE b
      BY <2>3, <3>1, <3>2 DEF ChanInv
    <3>3. CASE ~b
      <4>1. Unused(chan[sockfd])
        BY <1>0, <2>1, <3>3 DEF CommInv, ChanInv
      <4>2. q = <<t>>
        BY <2>2, <4>1 DEF Unused
      <4>3. CarriesOne(c, t)
        BY <2>3, <4>1, <4>2 DEF Unused, CarriesOne
      <4>. QED  BY <1>0, <1>1, <1>2, <1>3, <3>1, <4>3 DEF ChanInv, CarriesOne
    <3>. QED  BY <3>2, <3>3
  <2>7. ASSUME NEW e \in Fds PROVE ChanInv(e)'
    BY <1>0, <1>1, <1>5, <2>4, <2>6 DEF ChanInv
  <2>. QED  BY <1>4, <2>5, <2>7 DEF CommInv
<1>. QED  BY <1>6, <1>7

\* recv() begins on sockfd, or ends without an answer and another attempt follows.
LEMMA RecvMovesKeep ==
  ASSUME CommInv, NEW t \in Threads,
         EnterRecv(t) \/ (RecvFails(t) /\ call[t].attempt < MAX_ATTEMPT)
  PROVE  CommInv'
<1>0. /\ call \in [Threads -> Call] /\ call[t].pc \in {"recv", "wait"}
      /\ comm_mutex = t /\ sockfd \in Fds
  BY DEF CommInv, CommTypeOK, CallInv, EnterRecv, RecvFails, Unanswered, In, Busy
<1>1. /\ \/ call' = [call EXCEPT ![t].pc = "wait", ![t].fd = sockfd]
         \/ call[t].attempt < MAX_ATTEMPT /\ call' = [call EXCEPT ![t].pc = "send", ![t].fd = NONE]
      /\ UNCHANGED <<sockfd, comm_mutex, chan, alive>>
  BY DEF EnterRecv, RecvFails
<1>2. /\ \/ call'[t].pc = "wait" /\ call'[t].fd = sockfd
         \/ call[t].attempt < MAX_ATTEMPT /\ call'[t].pc = "send" /\ call'[t].fd = NONE
      /\ call'[t].attempt = call[t].attempt
      /\ \A u \in Threads : u # t => call'[u] = call[u]
      /\ call' \in [Threads -> Call]
  BY <1>0, <1>1 DEF Call, CallPcs
<1>3. CommTypeOK'
  BY <1>1, <1>2 DEF CommInv, CommTypeOK
<1>4. ASSUME NEW u \in Threads PROVE CallInv(u)'
  <2>1. CASE u = t
    BY <1>0, <1>1, <1>2, <2>1, CommTypes DEF CallInv, Busy
  <2>2. CASE u # t
    BY <1>1, <1>2, <2>2 DEF CommInv, CallInv, Busy, Unused
  <2>. QED  BY <2>1, <2>2
<1>5. ASSUME NEW e \in Fds PROVE ChanInv(e)'
  BY <1>1, <1>2 DEF CommInv, ChanInv, Unused, CarriesOne
<1>. QED  BY <1>3, <1>4, <1>5 DEF CommInv

\* The end of a call leaves no message on a connection that is used again,
\* unless a request was repeated on it.
LEMMA FinishedKeeps ==
  ASSUME CommInv, NEW t \in Threads, call[t].pc = "wait", NEW answer \in Threads \cup {NONE},
         NEW c \in Connection, c.repeated = chan[call[t].fd].repeated,
         ~c.open => c.requests = <<>>, c.repeated \/ Unused(c),
         Finished(t, answer, c)
  PROVE  CommInv'
<1>. DEFINE others == {u \in Threads \ {t} : Busy(u)}
<1>0. /\ call \in [Threads -> Call] /\ comm_mutex = t /\ chan \in [Fds -> Connection]
      /\ call[t].fd \in Fds /\ sockfd \in Fds /\ NONE \notin Threads /\ NONE \notin Fds
  BY CommTypes DEF CommInv, CommTypeOK, CallInv, Busy
<1>1. \A u \in Threads : u # t => call[u].pc \notin {"send", "recv", "wait"} /\ call[u].fd = NONE
  BY OneHolder DEF CommInv, CallInv
<1>2. /\ call' = [call EXCEPT ![t] = [NoCall EXCEPT !.pc = "done", !.answer = answer]]
      /\ comm_mutex' = NONE /\ alive' = alive
      /\ sockfd' = IF others = {} THEN NONE ELSE sockfd
  BY DEF Finished
<1>3. \A e \in Fds : /\ chan'[e] \in {Fresh, c, chan[e]}
                     /\ chan'[e] = chan[e] => (e = sockfd /\ e # call[t].fd) \/ chan[e] \in {Fresh, c}
  <2>. SUFFICES ASSUME NEW e \in Fds
                PROVE  /\ chan'[e] \in {Fresh, c, chan[e]}
                       /\ chan'[e] = chan[e] => (e = sockfd /\ e # call[t].fd) \/ chan[e] \in {Fresh, c}
    OBVIOUS
  <2>1. PICK kept : /\ kept = IF others = {} THEN {} ELSE {sockfd} \cup {call[u].fd : u \in others}
                    /\ chan' = [fd \in Fds |-> CASE fd \notin kept -> Fresh
                                     [] fd \in kept /\ fd = call[t].fd -> c
                                     [] OTHER -> chan[fd]]
    BY DEF Finished
  <2>2. kept \subseteq {sockfd, NONE}
    BY <1>1, <2>1
  <2>. QED  BY <1>0, <2>1, <2>2
<1>4. /\ call'[t].pc = "done" /\ call'[t].fd = NONE /\ call'[t] \in Call
      /\ \A u \in Threads : u # t => call'[u] = call[u]
      /\ call' \in [Threads -> Call]
  <2>1. PICK n \in Call : n = NoCall /\ n.fd = NONE
    BY NoCallTyped
  <2>2. PICK v : v = [n EXCEPT !.pc = "done", !.answer = answer]
    OBVIOUS
  <2>3. v \in Call /\ v.pc = "done" /\ v.fd = NONE
    BY <2>1, <2>2 DEF Call, CallPcs
  <2>4. call' = [call EXCEPT ![t] = v]
    BY <1>2, <2>1, <2>2
  <2>. QED  BY <1>0, <2>3, <2>4
<1>5. Fresh \in Connection /\ Fresh.open /\ Unused(Fresh)
  BY DEF Fresh, Connection, Unused
<1>6. chan' \in [Fds -> Connection]
  <2>1. \A e \in Fds : chan'[e] \in Connection
    BY <1>0, <1>3, <1>5
  <2>2. chan' = [e \in Fds |-> chan'[e]]
    BY DEF Finished
  <2>. QED  BY <2>1, <2>2
<1>7. CommTypeOK'
  BY <1>0, <1>2, <1>4, <1>6 DEF CommInv, CommTypeOK
<1>8. ASSUME NEW u \in Threads PROVE CallInv(u)'
  <2>1. CASE u = t
    BY <1>0, <1>2, <1>4, <2>1 DEF CallInv, Busy
  <2>2. CASE u # t
    <3>1. Busy(u)' => Busy(u) /\ u \in others
      BY <1>4, <2>2 DEF Busy
    <3>. QED  BY <1>0, <1>1, <1>2, <1>4, <2>2, <3>1 DEF CommInv, CallInv, Busy
  <2>. QED  BY <2>1, <2>2
<1>9. ASSUME NEW e \in Fds PROVE ChanInv(e)'
  <2>1. CASE chan'[e] = Fresh
    BY <1>5, <2>1 DEF ChanInv, Unused
  <2>2. CASE chan'[e] = c
    BY <2>2 DEF ChanInv, Unused
  <2>3. CASE chan'[e] = chan[e] /\ e = sockfd /\ e # call[t].fd
    <3>1. Unused(chan[e]) /\ ChanInv(e)
      BY <2>3 DEF CommInv, CallInv
    <3>. QED  BY <2>3, <3>1 DEF ChanInv, Unused
  <2>. QED  BY <1>3, <2>1, <2>2, <2>3
<1>. QED  BY <1>7, <1>8, <1>9 DEF CommInv

\* The answer a call takes is the one to its own request.
LEMMA ReceiveIsMine ==
  ASSUME CommInv, NEW t \in Threads, Receive(t)
  PROVE  /\ CommInv'
         /\ call'[t].answer = t \/ chan[call[t].fd].repeated
<1>0. /\ call \in [Threads -> Call] /\ comm_mutex = t /\ call[t].pc = "wait"
      /\ call[t].fd \in Fds /\ chan \in [Fds -> Connection]
  BY CommTypes DEF CommInv, CommTypeOK, CallInv, Busy, Receive, In
<1>1. PICK r \in Seq(Threads) : r = chan[call[t].fd].replies /\ r # <<>>
  BY <1>0, CommTypes DEF Receive, Answer
<1>2. PICK a \in Threads : a = Head(r)
  BY <1>1, HeadTailProperties
<1>3. PICK s \in Seq(Threads) : s = Tail(r)
  BY <1>1, HeadTailProperties
<1>4. PICK c \in Connection : /\ c = [chan[call[t].fd] EXCEPT !.replies = s]
                              /\ c.requests = chan[call[t].fd].requests /\ c.replies = s
                              /\ c.open = chan[call[t].fd].open
                              /\ c.repeated = chan[call[t].fd].repeated
  <2>1. PICK c \in Connection : c = [chan[call[t].fd] EXCEPT !.replies = s]
    BY <1>0, CommTypes DEF Connection
  <2>2. /\ c.requests = chan[call[t].fd].requests /\ c.replies = s
        /\ c.open = chan[call[t].fd].open /\ c.repeated = chan[call[t].fd].repeated
    BY <1>0, <2>1, CommTypes DEF Connection
  <2>. QED  BY <2>1, <2>2
<1>5. Finished(t, a, c)
  <2>1. Finished(t, Head(Answer(t)), [chan[call[t].fd] EXCEPT !.replies = Tail(@)])
    BY DEF Receive
  <2>2. Head(Answer(t)) = a
    BY <1>1, <1>2 DEF Answer
  <2>3. [chan[call[t].fd] EXCEPT !.replies = Tail(@)] = c
    BY <1>1, <1>3, <1>4
  <2>. QED  BY <2>1, <2>2, <2>3, Zenon
<1>6. chan[call[t].fd].repeated \/ (a = t /\ Unused(c))
  <2>1. ChanInv(call[t].fd)
    BY <1>0 DEF CommInv
  <2>2. CASE ~chan[call[t].fd].repeated
    <3>1. r = <<t>> /\ chan[call[t].fd].requests = <<>>
      BY <1>0, <1>1, <2>1, <2>2 DEF ChanInv, Unused, CarriesOne
    <3>2. a = t /\ s = <<>>
      BY <1>2, <1>3, <3>1
    <3>. QED  BY <1>4, <3>1, <3>2 DEF Unused
  <2>. QED  BY <2>2
<1>7. ~c.open => c.requests = <<>>
  BY <1>0, <1>4 DEF CommInv, ChanInv
<1>8. CommInv'
  BY <1>0, <1>4, <1>5, <1>6, <1>7, FinishedKeeps
<1>9. call'[t].answer = a
  BY <1>0, <1>5 DEF Finished, NoCall
<1>. QED  BY <1>6, <1>8, <1>9

LEMMA ReceiveNothingKeeps ==
  ASSUME CommInv, NEW t \in Threads, ReceiveNothing(t)
  PROVE  CommInv' /\ call'[t].answer = NONE
<1>0. /\ call \in [Threads -> Call] /\ call[t].pc = "wait" /\ call[t].fd \in Fds
      /\ chan[call[t].fd].replies = <<>> /\ ~chan[call[t].fd].open
  BY CommTypes DEF CommInv, CommTypeOK, CallInv, ReceiveNothing, Unanswered, Answer, In
<1>1. PICK c \in Connection : c = chan[call[t].fd]
  BY <1>0, CommTypes
<1>2. Unused(c) /\ c.requests = <<>>
  BY <1>0, <1>1 DEF CommInv, ChanInv, Unused
<1>3. Finished(t, NONE, c)
  BY <1>1 DEF ReceiveNothing
<1>4. CommInv'
  BY <1>0, <1>1, <1>2, <1>3, FinishedKeeps
<1>. QED  BY <1>0, <1>3, <1>4 DEF Finished, NoCall

\* The pod manager answers, or goes away with everything unread.
LEMMA AnswersKeep ==
  ASSUME CommInv, NEW fd \in Fds, PodManagerAnswers(fd)
  PROVE  CommInv'
<1>0. chan \in [Fds -> Connection] /\ UNCHANGED <<sockfd, comm_mutex, call, alive>>
  BY DEF CommInv, CommTypeOK, PodManagerAnswers
<1>1. PICK r \in Seq(Threads) : r = chan[fd].requests /\ r # <<>>
  BY CommTypes DEF PodManagerAnswers
<1>2. PICK a \in Threads : a = Head(r)
  BY <1>1, HeadTailProperties
<1>3. PICK s \in Seq(Threads) : s = Tail(r)
  BY <1>1, HeadTailProperties
<1>4. PICK q \in Seq(Threads) : q = Append(chan[fd].replies, a)
  BY CommTypes, AppendProperties
<1>5. PICK c \in Connection : /\ c = [chan[fd] EXCEPT !.requests = s, !.replies = q]
                              /\ c.requests = s /\ c.replies = q
                              /\ c.open = chan[fd].open /\ c.repeated = chan[fd].repeated
  <2>1. PICK c \in Connection : c = [chan[fd] EXCEPT !.requests = s, !.replies = q]
    BY <1>0, CommTypes DEF Connection
  <2>2. /\ c.requests = s /\ c.replies = q
        /\ c.open = chan[fd].open /\ c.repeated = chan[fd].repeated
    BY <1>0, <2>1, CommTypes DEF Connection
  <2>. QED  BY <2>1, <2>2
<1>6. chan' = [chan EXCEPT ![fd] = c] /\ chan[fd].open
  BY <1>0, <1>1, <1>2, <1>3, <1>4, <1>5 DEF PodManagerAnswers
<1>7. ~Unused(chan[fd])
  BY <1>1 DEF Unused
<1>8. CommTypeOK'
  BY <1>0, <1>6 DEF CommInv, CommTypeOK
<1>9. ASSUME NEW u \in Threads PROVE CallInv(u)'
  <2>1. call[u].pc = "wait" /\ sockfd # call[u].fd => sockfd # fd /\ sockfd \in Fds
    BY <1>7 DEF CommInv, CallInv, Busy
  <2>. QED  BY <1>0, <1>6, <2>1 DEF CommInv, CallInv, Busy, Unused
<1>10. ASSUME NEW e \in Fds PROVE ChanInv(e)'
  <2>1. CASE e # fd
    BY <1>0, <1>6, <2>1 DEF CommInv, ChanInv, Unused, CarriesOne
  <2>2. CASE e = fd
    <3>1. chan'[e] = c /\ c.open
      BY <1>0, <1>5, <1>6, <2>2
    <3>2. CASE c.repeated
      BY <3>1, <3>2 DEF ChanInv
    <3>3. CASE ~c.repeated
      <4>1. PICK t \in Threads : comm_mutex = t /\ call[t].attempt > 0 /\ CarriesOne(chan[fd], t)
        BY <1>5, <1>7, <3>3 DEF CommInv, ChanInv
      <4>2. r = <<t>> /\ chan[fd].replies = <<>>
        BY <1>1, <4>1 DEF CarriesOne
      <4>3. s = <<>> /\ a = t
        BY <1>2, <1>3, <4>2
      <4>4. q = <<t>>
        BY <1>4, <4>2, <4>3
      <4>5. CarriesOne(c, t)
        BY <1>5, <4>3, <4>4 DEF CarriesOne
      <4>. QED  BY <1>0, <3>1, <4>1, <4>5 DEF ChanInv, CarriesOne
    <3>. QED  BY <3>2, <3>3
  <2>. QED  BY <2>1, <2>2
<1>. QED  BY <1>8, <1>9, <1>10 DEF CommInv

LEMMA RestartKeeps ==
  ASSUME CommInv, PodManagerRestarts
  PROVE  CommInv'
<1>0. /\ chan \in [Fds -> Connection] /\ UNCHANGED <<sockfd, comm_mutex, call, alive>>
      /\ chan' = [fd \in Fds |-> [chan[fd] EXCEPT !.open = FALSE, !.requests = <<>>]]
  BY DEF CommInv, CommTypeOK, PodManagerRestarts
<1>1. ASSUME NEW e \in Fds
      PROVE  /\ chan'[e].requests = <<>> /\ chan'[e].replies = chan[e].replies
             /\ ~chan'[e].open /\ chan'[e].repeated = chan[e].repeated
             /\ chan'[e] \in Connection
  <2>1. /\ chan[e] \in Connection /\ chan'[e] = [chan[e] EXCEPT !.open = FALSE, !.requests = <<>>]
    BY <1>0
  <2>2. <<>> \in Seq(Threads)
    OBVIOUS
  <2>3. chan'[e] \in Connection
    BY <2>1, <2>2 DEF Connection
  <2>4. /\ chan'[e].requests = <<>> /\ chan'[e].replies = chan[e].replies
        /\ chan'[e].open = FALSE /\ chan'[e].repeated = chan[e].repeated
    BY <2>1 DEF Connection
  <2>. QED  BY <2>3, <2>4
<1>2. chan' \in [Fds -> Connection]
  BY <1>0, <1>1
<1>3. CommTypeOK'
  BY <1>0, <1>2 DEF CommInv, CommTypeOK
<1>4. ASSUME NEW u \in Threads PROVE CallInv(u)'
  <2>1. call[u].pc = "wait" => sockfd \in Fds
    BY DEF CommInv, CallInv, Busy
  <2>. QED  BY <1>0, <1>1, <2>1 DEF CommInv, CallInv, Busy, Unused
<1>5. ASSUME NEW e \in Fds PROVE ChanInv(e)'
  <2>1. ChanInv(e)
    BY DEF CommInv
  <2>. QED  BY <1>0, <1>1, <2>1 DEF ChanInv, Unused, CarriesOne
<1>. QED  BY <1>3, <1>4, <1>5 DEF CommInv

-----------------------------------------------------------------------------
(* The library as a whole: who is inside communicate() is known from where  *)
(* the thread is in its call of the library.                                *)

HookTyped ==
    /\ pc \in [Threads -> Pcs] /\ tracker \in TrackerPcs
    /\ left \in 0 .. QUOTA /\ elapsed \in 0 .. MAX_ELAPSED /\ quota_time \in {0, QUOTA}
    /\ overuse_trk_cmpl \in BOOLEAN /\ ongoing \in BOOLEAN
    /\ running \subseteq {"old", "new"}

Calling == {"request", "memory", "init"}
CallsMatch == \A t \in Threads : pc[t] \notin Calling => call[t].pc = "none"

HookInv == CommInv /\ HookTyped /\ CallsMatch

\* communicate() changes nothing when only the rest of the library moves.
LEMMA CommStutterKeeps ==
  ASSUME CommInv, UNCHANGED comm_vars
  PROVE  CommInv'
BY DEF CommInv, CommTypeOK, CallInv, ChanInv, Busy, Unused, CarriesOne, comm_vars

LEMMA ExitKeeps ==
  ASSUME CommInv, ProcessExits
  PROVE  CommInv'
<1>1. UNCHANGED <<sockfd, comm_mutex, chan, call>> /\ alive' = FALSE
  BY DEF ProcessExits
<1>. QED  BY <1>1 DEF CommInv, CommTypeOK, CallInv, ChanInv, Busy, Unused, CarriesOne

\* A step of communicate() leaves every other thread's call alone, and a thread
\* that makes one is inside.
LEMMA CommStep ==
  ASSUME HookInv, UNCHANGED hook_vars,
         \/ \E t \in Threads : Communicating(t) \/ LockComm(t) \/ CommFault(t)
         \/ \E fd \in Fds : PodManagerAnswers(fd)
         \/ PodManagerRestarts
  PROVE  HookInv'
<1>1. CommInv'
  <2>1. ASSUME NEW t \in Threads, Communicating(t) \/ LockComm(t) \/ CommFault(t)
        PROVE  CommInv'
    <3>1. CASE Communicating(t)
      <4>1. CASE RecvFails(t)
        <5>1. ProcessExits \/ call[t].attempt < MAX_ATTEMPT
          BY <4>1 DEF RecvFails
        <5>. QED  BY <4>1, <5>1, ExitKeeps, RecvMovesKeep DEF HookInv
      <4>. QED
        BY <3>1, <4>1, ConnectKeeps, SendKeeps, RecvMovesKeep, ReceiveIsMine, ReceiveNothingKeeps
           DEF Communicating, HookInv
    <3>2. CASE LockComm(t)
      BY <3>2, LockCommKeeps DEF HookInv
    <3>3. CASE CommFault(t)
      BY <3>3, ExitKeeps DEF CommFault, ConnectFails, BrokenPipe, HookInv
    <3>. QED  BY <2>1, <3>1, <3>2, <3>3
  <2>. QED  BY <2>1, AnswersKeep, RestartKeeps DEF HookInv
<1>2. UNCHANGED <<pc, tracker, left, elapsed, quota_time, overuse_trk_cmpl, ongoing, running>>
  BY DEF hook_vars, tracker_vars, clock_vars, burst_vars
<1>3. HookTyped'
  BY <1>2 DEF HookInv, HookTyped
<1>4. \A u \in Threads : call[u].pc = "none" => call'[u].pc = "none"
  <2>. SUFFICES ASSUME NEW u \in Threads, call[u].pc = "none" PROVE call'[u].pc = "none"
    OBVIOUS
  <2>0. call \in [Threads -> Call]
    BY DEF HookInv, CommInv, CommTypeOK
  <2>1. ASSUME NEW t \in Threads, Communicating(t) \/ LockComm(t) \/ CommFault(t)
        PROVE  call'[u] = call[u]
    <3>1. t # u \/ call' = call
      BY <2>1 DEF Communicating, LockComm, CommFault, Connect, Send, EnterRecv, Receive,
         ReceiveNothing, Unanswered, ConnectFails, BrokenPipe, RecvFails, In
    <3>2. \E v : call' = [call EXCEPT ![t] = v] \/ call' = call
      BY <2>0, <2>1 DEF Communicating, LockComm, CommFault, Connect, Send, EnterRecv, Receive,
         ReceiveNothing, ConnectFails, BrokenPipe, RecvFails, CallGoes, Finished, ProcessExits
    <3>. QED  BY <2>0, <3>1, <3>2
  <2>. QED  BY <2>1 DEF PodManagerAnswers, PodManagerRestarts
<1>5. CallsMatch'
  BY <1>2, <1>4 DEF HookInv, CallsMatch
<1>. QED  BY <1>1, <1>3, <1>5 DEF HookInv

\* A thread enters or leaves communicate().
LEMMA CallStep ==
  ASSUME HookInv, NEW t \in Threads,
         RequestToken(t) \/ CallMemory(t) \/ TakeToken(t) \/ CallReturns(t)
  PROVE  HookInv'
<1>0. pc \in [Threads -> Pcs] /\ call \in [Threads -> Call] /\ CommInv
  BY DEF HookInv, HookTyped, CommInv, CommTypeOK
<1>1. /\ UNCHANGED <<sockfd, comm_mutex, chan, alive>>
      /\ \/ call' = [call EXCEPT ![t] = Entered(FALSE)] \/ call' = [call EXCEPT ![t] = Entered(TRUE)]
         \/ call' = [call EXCEPT ![t] = NoCall]
  BY DEF RequestToken, CallMemory, TakeToken, CallReturns, other_comm_vars
<1>2. call[t].pc \in {"none", "done"}
  BY DEF RequestToken, CallMemory, TakeToken, CallReturns, HookInv, CallsMatch, Calling, At, In
<1>3. CommInv'
  BY <1>0, <1>1, <1>2, EnterLeaveKeeps
<1>4. /\ UNCHANGED <<tracker, left, overuse_trk_cmpl, ongoing, running>>
      /\ elapsed' = elapsed /\ quota_time' = quota_time
      /\ \E place \in Pcs : Goto(t, place)
  BY DEF RequestToken, CallMemory, TakeToken, CallReturns, tracker_vars, clock_vars, burst_vars,
     Pcs, LockedPcs
<1>5. pc' \in [Threads -> Pcs]
  BY <1>0, <1>4 DEF Goto
<1>7. HookTyped'
  BY <1>4, <1>5 DEF HookInv, HookTyped
<1>8. CallsMatch'
  <2>. SUFFICES ASSUME NEW u \in Threads, pc'[u] \notin Calling PROVE call'[u].pc = "none"
    BY DEF CallsMatch
  <2>1. CASE u # t
    <3>1. pc'[u] = pc[u] /\ call'[u] = call[u]
      BY <1>0, <1>1, <1>4, <2>1 DEF Goto
    <3>. QED  BY <3>1 DEF HookInv, CallsMatch
  <2>2. CASE u = t
    <3>1. TakeToken(t) \/ CallReturns(t)
      BY <1>0, <2>2 DEF RequestToken, CallMemory, Goto, Calling
    <3>2. call' = [call EXCEPT ![t] = NoCall]
      BY <3>1 DEF TakeToken, CallReturns
    <3>. QED  BY <1>0, <2>2, <3>2, NoCallTyped
  <2>. QED  BY <2>1, <2>2
<1>. QED  BY <1>3, <1>7, <1>8 DEF HookInv

\* A thread moves inside the library and outside of communicate().
LEMMA MoveStep ==
  ASSUME HookInv, UNCHANGED comm_vars, HookTyped',
         \A t \in Threads : pc'[t] \notin Calling => pc[t] \notin Calling
  PROVE  HookInv'
<1>1. CommInv'
  BY CommStutterKeeps DEF HookInv
<1>2. CallsMatch'
  BY DEF HookInv, CallsMatch, comm_vars
<1>. QED  BY <1>1, <1>2 DEF HookInv

LEMMA ThreadMoves ==
  ASSUME HookInv, NEW t \in Threads,
         \/ CallLaunch(t) \/ DeviceIsIdle(t) \/ CheckToken(t) \/ StampToken(t)
         \/ AwaitTracking(t) \/ StartTracking(t) \/ BeginBurst(t) \/ LaunchKernel(t)
         \/ HostSyncCall(t) \/ SpuriousCompletion(t)
  PROVE  HookInv'
<1>0. pc \in [Threads -> Pcs] /\ tracker \in TrackerPcs
  BY DEF HookInv, HookTyped
<1>1. PICK place \in Pcs : Goto(t, place)
  BY DEF CallLaunch, DeviceIsIdle, CheckToken, StampToken, AwaitTracking, StartTracking,
     BeginBurst, LaunchKernel, HostSyncCall, SpuriousCompletion, Pcs, LockedPcs
<1>2. pc' \in [Threads -> Pcs] /\ pc[t] \notin Calling
  BY <1>0, <1>1 DEF Goto, CallLaunch, DeviceIsIdle, CheckToken, StampToken, AwaitTracking,
     StartTracking, BeginBurst, LaunchKernel, HostSyncCall, SpuriousCompletion, At, Calling
<1>3. /\ UNCHANGED comm_vars /\ left' = left
      /\ elapsed' \in {0, elapsed} /\ quota_time' \in {QUOTA, quota_time}
  BY DEF CallLaunch, DeviceIsIdle, CheckToken, StampToken, AwaitTracking, StartTracking,
     BeginBurst, LaunchKernel, HostSyncCall, SpuriousCompletion, clock_vars
<1>4. tracker' \in TrackerPcs
  BY <1>0 DEF CallLaunch, DeviceIsIdle, CheckToken, StampToken, AwaitTracking, StartTracking,
     BeginBurst, LaunchKernel, HostSyncCall, SpuriousCompletion, tracker_vars, TrackerPcs
<1>5. overuse_trk_cmpl' \in BOOLEAN /\ ongoing' \in BOOLEAN
  BY DEF HookInv, HookTyped, CallLaunch, DeviceIsIdle, CheckToken, StampToken, AwaitTracking,
     StartTracking, BeginBurst, LaunchKernel, HostSyncCall, SpuriousCompletion, tracker_vars, burst_vars
<1>6. running' \subseteq {"old", "new"}
  BY DEF HookInv, HookTyped, CallLaunch, DeviceIsIdle, CheckToken, StampToken, AwaitTracking,
     StartTracking, BeginBurst, LaunchKernel, HostSyncCall, SpuriousCompletion, burst_vars
<1>7. HookTyped'
  <2>1. 0 \in 0 .. MAX_ELAPSED
    BY QuotaAssumption
  <2>. QED  BY <1>2, <1>3, <1>4, <1>5, <1>6, <2>1 DEF HookInv, HookTyped
<1>8. \A u \in Threads : pc'[u] \notin Calling => pc[u] \notin Calling
  BY <1>0, <1>1, <1>2 DEF Goto
<1>. QED  BY <1>3, <1>7, <1>8, MoveStep

LEMMA TrackerMoves ==
  ASSUME HookInv, Tracker \/ SpuriousTracking \/ Tick \/ (\E k \in {"old", "new"} : KernelsFinish(k))
  PROVE  HookInv'
<1>0. /\ pc \in [Threads -> Pcs] /\ left \in 0 .. QUOTA /\ elapsed \in 0 .. MAX_ELAPSED
      /\ quota_time \in {0, QUOTA} /\ running \subseteq {"old", "new"} /\ tracker \in TrackerPcs
      /\ overuse_trk_cmpl \in BOOLEAN /\ ongoing \in BOOLEAN
      /\ QUOTA \in Nat /\ MAX_ELAPSED \in Nat
  BY QuotaAssumption DEF HookInv, HookTyped
<1>. USE DEF TrackerGoes, burst_vars, clock_vars, tracker_vars
<1>1. UNCHANGED comm_vars
  BY DEF Tracker, SpuriousTracking, Tick, KernelsFinish, TrackerWaits,
     TrackerSleeps, TrackerTimesOut, RecordEvent, EventReached, CompleteTracking
<1>2. tracker' \in TrackerPcs
  BY <1>0 DEF Tracker, SpuriousTracking, Tick, KernelsFinish, TrackerWaits,
     TrackerSleeps, TrackerTimesOut, RecordEvent, EventReached, CompleteTracking,
     TrackerPcs
<1>3. left' \in 0 .. QUOTA /\ elapsed' \in 0 .. MAX_ELAPSED /\ quota_time' \in {0, QUOTA}
  <2>1. CASE Tick
    BY <1>0, <2>1 DEF Tick
  <2>2. CASE TrackerSleeps
    BY <1>0, <2>2 DEF TrackerSleeps
  <2>3. CASE RecordEvent
    BY <1>0, <2>3 DEF RecordEvent
  <2>4. CASE ~Tick /\ ~TrackerSleeps /\ ~RecordEvent
    <3>1. UNCHANGED clock_vars
      BY <2>4 DEF Tracker, SpuriousTracking, KernelsFinish, TrackerWaits,
         TrackerSleeps, TrackerTimesOut, EventReached, CompleteTracking
    <3>. QED  BY <1>0, <3>1
  <2>. QED  BY <2>1, <2>2, <2>3, <2>4
<1>4. overuse_trk_cmpl' \in BOOLEAN /\ ongoing' \in BOOLEAN
  BY <1>0 DEF Tracker, SpuriousTracking, Tick, KernelsFinish, TrackerWaits,
     TrackerSleeps, TrackerTimesOut, RecordEvent, EventReached, CompleteTracking
<1>5. running' \subseteq {"old", "new"}
  BY <1>0 DEF Tracker, SpuriousTracking, Tick, KernelsFinish, TrackerWaits,
     TrackerSleeps, TrackerTimesOut, RecordEvent, EventReached, CompleteTracking
<1>6. /\ pc' \in [Threads -> Pcs]
      /\ \A u \in Threads : pc'[u] = pc[u] \/ (pc[u] = "asleep" /\ pc'[u] = "woken")
  <2>1. CASE CompleteTracking
    BY <1>0, <2>1 DEF CompleteTracking, At, Pcs, LockedPcs
  <2>2. CASE ~CompleteTracking
    <3>1. pc' = pc
      BY <2>2 DEF Tracker, SpuriousTracking, Tick, KernelsFinish, TrackerWaits,
         TrackerSleeps, TrackerTimesOut, RecordEvent, EventReached
    <3>. QED  BY <1>0, <3>1
  <2>. QED  BY <2>1, <2>2
<1>7. HookTyped'
  BY <1>2, <1>3, <1>4, <1>5, <1>6 DEF HookTyped
<1>. QED  BY <1>1, <1>6, <1>7, MoveStep DEF Calling

LEMMA NextHookInv == HookInv /\ [Next]_vars => HookInv'
<1>. SUFFICES ASSUME HookInv, [Next]_vars PROVE HookInv'
  OBVIOUS
<1>1. ASSUME NEW t \in Threads,
             CallLaunch(t) \/ DeviceIsIdle(t) \/ CallMemory(t) \/ TakesMutex(t) \/ Thread(t)
      PROVE  HookInv'
  BY <1>1, ThreadMoves, CallStep, CommStep DEF TakesMutex, Thread
<1>4. ASSUME NEW t \in Threads, SpuriousCompletion(t)
      PROVE  HookInv'
  BY <1>4, ThreadMoves
<1>2. CASE (\E fd \in Fds : Answers(fd)) \/ Faults
  BY <1>2, CommStep DEF Answers, Faults
<1>3. CASE UNCHANGED vars
  <2>1. UNCHANGED comm_vars /\ UNCHANGED hook_vars
    BY <1>3 DEF vars
  <2>2. HookTyped' /\ pc' = pc
    BY <2>1 DEF HookInv, HookTyped, hook_vars, tracker_vars, clock_vars, burst_vars
  <2>. QED  BY <2>1, <2>2, MoveStep
<1>. QED  BY <1>1, <1>2, <1>3, <1>4, TrackerMoves DEF Next

LEMMA InitHookInv == Init => HookInv
<1>. SUFFICES ASSUME Init PROVE HookInv
  OBVIOUS
<1>1. PICK first \in Threads :
        /\ pc = [t \in Threads |-> IF t = first THEN "init" ELSE "idle"]
        /\ call = [t \in Threads |-> IF t = first THEN Entered(FALSE) ELSE NoCall]
  BY DEF Init
<1>2. PICK n \in Call : n = NoCall /\ n.fd = NONE /\ n.attempt = 0 /\ n.pc = "none"
  BY NoCallTyped
<1>3. PICK e \in Call : e = Entered(FALSE) /\ e.fd = NONE /\ e.attempt = 0 /\ e.pc = "connect"
  <2>1. PICK e : e = [n EXCEPT !.pc = "connect", !.timed = FALSE]
    OBVIOUS
  <2>2. e \in Call /\ e.pc = "connect" /\ e.attempt = 0 /\ e.fd = NONE
    BY <1>2, <2>1 DEF Call, CallPcs
  <2>3. e = Entered(FALSE)
    BY <1>2, <2>1 DEF Entered
  <2>. QED  BY <2>2, <2>3
<1>4. Fresh \in Connection /\ Fresh.open /\ Unused(Fresh)
  BY DEF Fresh, Connection, Unused
<1>5. /\ sockfd = NONE /\ comm_mutex = NONE /\ alive = TRUE /\ chan = [fd \in Fds |-> Fresh]
  BY DEF Init, CommInit
<1>6. CommTypeOK
  BY <1>1, <1>2, <1>3, <1>4, <1>5 DEF CommTypeOK
<1>7. ASSUME NEW t \in Threads PROVE CallInv(t)
  BY <1>1, <1>2, <1>3, <1>5, NoneAssumption DEF CallInv, Busy
<1>8. ASSUME NEW fd \in Fds PROVE ChanInv(fd)
  BY <1>4, <1>5 DEF ChanInv
<1>9. HookTyped
  <2>1. pc \in [Threads -> Pcs]
    BY <1>1 DEF Pcs
  <2>2. /\ 0 \in 0 .. QUOTA /\ MAX_ELAPSED \in 0 .. MAX_ELAPSED
    BY QuotaAssumption
  <2>. QED  BY <2>1, <2>2 DEF Init, HookTyped, TrackerPcs
<1>10. CallsMatch
  BY <1>1, <1>2 DEF CallsMatch, Calling
<1>. QED  BY <1>6, <1>7, <1>8, <1>9, <1>10 DEF HookInv, CommInv

\* The library's state keeps its types: no attempt is counted beyond
\* NET_OP_MAX_ATTEMPT, and sockfd is a descriptor whenever a thread uses it.
THEOREM HookTypeCorrect == Spec => []TypeOK
<1>1. HookInv => TypeOK
  BY DEF HookInv, HookTyped, CommInv, TypeOK
<1>. QED  BY <1>1, InitHookInv, NextHookInv, PTL DEF Spec

\* Only a receive of its own ends a thread's wait.
LEMMA DoneStep ==
  ASSUME HookInv, [Next]_vars, NEW t \in Threads, In(t, "wait"), In(t, "done")'
  PROVE  call[t].answer' \in {t, NONE} \/ chan[call[t].fd].repeated
<1>0. /\ call \in [Threads -> Call] /\ CommInv /\ call[t].pc = "wait" /\ call'[t].pc = "done"
      /\ pc[t] \in Calling
  BY DEF HookInv, CommInv, CommTypeOK, CallsMatch, In
<1>1. call' # call
  BY <1>0
<1>2. ASSUME NEW u \in Threads, Communicating(u) \/ LockComm(u) \/ CommFault(u)
      PROVE  Receive(t) \/ ReceiveNothing(t)
  <2>1. CASE u # t
    <3>1. \E v : call' = [call EXCEPT ![u] = v] \/ call' = call
      BY <1>0, <1>2 DEF Communicating, LockComm, CommFault, Connect, Send, EnterRecv, Receive,
         ReceiveNothing, ConnectFails, BrokenPipe, RecvFails, CallGoes, Finished, ProcessExits
    <3>. QED  BY <1>0, <2>1, <3>1
  <2>2. CASE u = t
    <3>1. ~Connect(t) /\ ~Send(t) /\ ~EnterRecv(t) /\ ~LockComm(t)
      BY <1>0 DEF Connect, Send, EnterRecv, LockComm, In
    <3>2. ~CommFault(t) /\ ~RecvFails(t)
      <4>1. CASE RecvFails(t) /\ call[t].attempt < MAX_ATTEMPT
        BY <1>0, <4>1 DEF RecvFails, Call
      <4>2. CASE ProcessExits
        BY <1>1, <4>2 DEF ProcessExits
      <4>. QED  BY <4>1, <4>2 DEF CommFault, ConnectFails, BrokenPipe, RecvFails
    <3>. QED  BY <1>2, <2>2, <3>1, <3>2 DEF Communicating
  <2>. QED  BY <2>1, <2>2
<1>3. ASSUME NEW u \in Threads,
             RequestToken(u) \/ CallMemory(u) \/ TakeToken(u) \/ CallReturns(u)
      PROVE  FALSE
  <2>1. u # t
    BY <1>0, <1>3 DEF RequestToken, CallMemory, TakeToken, CallReturns, At, In, Calling
  <2>2. \E v : call' = [call EXCEPT ![u] = v]
    BY <1>3 DEF RequestToken, CallMemory, TakeToken, CallReturns
  <2>. QED  BY <1>0, <2>1, <2>2
<1>4. ~UNCHANGED comm_vars /\ ~UNCHANGED vars
  BY <1>1 DEF comm_vars, vars
<1>5. ASSUME NEW u \in Threads
      PROVE  /\ ~CallLaunch(u) /\ ~DeviceIsIdle(u) /\ ~StampToken(u) /\ ~CheckToken(u)
             /\ ~AwaitTracking(u) /\ ~StartTracking(u) /\ ~BeginBurst(u) /\ ~LaunchKernel(u)
             /\ ~HostSyncCall(u) /\ ~SpuriousCompletion(u)
  BY <1>4 DEF CallLaunch, DeviceIsIdle, CheckToken, StampToken, AwaitTracking, StartTracking,
     BeginBurst, LaunchKernel, HostSyncCall, SpuriousCompletion
<1>6. ~Tracker /\ ~SpuriousTracking /\ ~Tick /\ \A k : ~KernelsFinish(k)
  BY <1>4 DEF Tracker, SpuriousTracking, Tick, KernelsFinish, TrackerWaits,
     TrackerSleeps, TrackerTimesOut, RecordEvent, EventReached, CompleteTracking
<1>7. \A fd : ~Answers(fd)
  BY <1>1 DEF Answers, PodManagerAnswers
<1>8. ~PodManagerRestarts
  BY <1>1 DEF PodManagerRestarts
<1>9. Receive(t) \/ ReceiveNothing(t)
  BY <1>2, <1>3, <1>4, <1>5, <1>6, <1>7, <1>8 DEF Next, TakesMutex, Thread, Faults
<1>. QED  BY <1>0, <1>9, ReceiveIsMine, ReceiveNothingKeeps

\* A call that gets an answer gets the one to its own request, for any number of
\* threads that overwrite each other's sockfd, unless a request was repeated on
\* that connection (hook.cpp:309-337).
THEOREM RepliesAreMine == Spec => ReplyIsMine
<1>1. HookInv /\ [Next]_vars =>
        [\A t \in Threads : In(t, "wait") /\ In(t, "done")' =>
           call[t].answer' \in {t, NONE} \/ chan[call[t].fd].repeated]_vars
  BY DoneStep
<1>. QED  BY <1>1, InitHookInv, NextHookInv, PTL DEF Spec, ReplyIsMine
=============================================================================
