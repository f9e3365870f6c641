-------------------------- MODULE GpuMemoryProofs ---------------------------
(***************************************************************************)
(* AccountPerConnection for any number of processes, descriptors and       *)
(* attempts.  It is inductive together with the types and                  *)
(* CallOwnsConnection: a request can be unread only on a connection whose  *)
(* account exists, because a reclaimed one is read empty and has no owner  *)
(* left that could repeat its request.  On top of it, the pod's total is   *)
(* congruent to the sum of its accounts (BooksInv), and what a process has *)
(* in its accounts is what its hook has recorded and what is on its way    *)
(* (ProcInv, process by process), which balances the books at rest.        *)
(***************************************************************************)
EXTENDS GpuMemory, FiniteLemmas

\* The part of the types the argument needs.
ConnType ==
    /\ gpu_mem_used \in Word
    /\ allocation_map \in [Fds -> Word \cup {NONE}]
    /\ conn \in [Fds -> Connection \cup {NONE}]
    /\ proc \in [Procs -> Call]
    /\ hook_map \in [Procs -> [Ptrs -> Word]]

MemInv == ConnType /\ AccountPerConnection /\ CallOwnsConnection

\* size_t arithmetic stays within the word.
LEMMA WordArithmetic ==
  /\ \A a, b \in Word : (a + b) % WORD \in Word /\ (a - b) % WORD \in Word
  /\ NONE \notin Word /\ 0 \in Word /\ 1 \in Word
  /\ Fds \subseteq Int /\ NONE \notin Fds /\ Word \subseteq Int
BY WordAssumption, NoneAssumption, FdAssumption DEF Word, Fds

LEMMA IdleType == Idle \in Call /\ Dead \in Call /\ Idle.pc \notin Waiting
                  /\ Dead.pc \notin Waiting
BY WordArithmetic DEF Idle, Dead, Call, Waiting

\* An open connection carries typed fields.
LEMMA OpenType ==
  ASSUME ConnType, NEW fd \in Fds, Open(fd)
  PROVE  /\ conn[fd] \in Connection
         /\ conn[fd].owner \in Procs \cup {NONE}
         /\ conn[fd].unread \in Seq(Message)
         /\ conn[fd].reply \in Word \cup {NONE}
         /\ conn[fd].reclaimed \in BOOLEAN
<1>1. conn[fd] \in Connection
  BY DEF ConnType, Open
<1>. QED  BY <1>1 DEF Connection

\* A request opens a connection with an empty account and its owner waiting.
LEMMA CommunicateKeeps ==
  ASSUME MemInv, NEW p \in Procs, NEW call \in Call, call.pc \in Waiting,
         proc[p].pc \notin Waiting,
         NEW req \in {"limit", "alloc", "free"}, Communicate(p, call, req),
         gpu_mem_used' = gpu_mem_used, hook_map' = hook_map
  PROVE  MemInv'
<1>1. PICK fd \in Fds :
        /\ IsNextFd(fd)
        /\ conn' = [conn EXCEPT ![fd] =
              [owner |-> p, unread |-> <<[req |-> req, size |-> call.size]>>,
               reply |-> NONE, reclaimed |-> FALSE, repeated |-> FALSE]]
        /\ allocation_map' = [allocation_map EXCEPT ![fd] = IF @ = NONE THEN 0 ELSE @]
        /\ proc' = [proc EXCEPT ![p] = [call EXCEPT !.fd = fd, !.attempt = 1]]
  BY DEF Communicate
<1>2. call.size \in Word
  BY DEF Call
<1>3. <<[req |-> req, size |-> call.size]>> \in Seq(Message)
  BY <1>2 DEF Message
<1>4. [owner |-> p, unread |-> <<[req |-> req, size |-> call.size]>>,
       reply |-> NONE, reclaimed |-> FALSE, repeated |-> FALSE] \in Connection
  BY <1>3 DEF Connection
<1>5. [call EXCEPT !.fd = fd, !.attempt = 1] \in Call
  BY DEF Call
<1>6. ~Open(fd)
  BY <1>1 DEF IsNextFd
<1>7. ConnType'
  BY <1>1, <1>4, <1>5, WordArithmetic DEF MemInv, ConnType
<1>8. AccountPerConnection'
  BY <1>1, <1>4, <1>6, WordArithmetic, NoneAssumption
     DEF MemInv, ConnType, AccountPerConnection, Open
<1>9. ASSUME NEW q \in Procs, proc'[q].pc \in Waiting
      PROVE  proc'[q].fd # NONE /\ Open(proc[q].fd)' /\ conn'[proc'[q].fd].owner = q
  <2>1. CASE q = p
    <3>1. proc'[q].fd = fd
      BY <1>1, <2>1 DEF MemInv, ConnType, Call
    <3>. QED
      BY <1>1, <1>4, <2>1, <3>1, WordArithmetic, NoneAssumption DEF MemInv, ConnType, Open
  <2>2. CASE q # p
    <3>1. proc'[q] = proc[q]
      BY <1>1, <2>2 DEF MemInv, ConnType
    <3>2. proc[q].fd # NONE /\ Open(proc[q].fd) /\ conn[proc[q].fd].owner = q
      BY <1>9, <3>1 DEF MemInv, CallOwnsConnection
    <3>3. proc[q].fd \in Fds /\ proc[q].fd # fd
      BY <3>2, <1>6 DEF MemInv, ConnType, Call
    <3>4. conn'[proc[q].fd] = conn[proc[q].fd]
      BY <1>1, <3>3 DEF MemInv, ConnType
    <3>. QED  BY <3>1, <3>2, <3>4 DEF Open
  <2>. QED  BY <2>1, <2>2
<1>10. ASSUME NEW e \in Fds, Open(e)', conn'[e].reclaimed
       PROVE  conn'[e].owner = NONE /\ conn'[e].unread = <<>>
  <2>1. e # fd
    BY <1>1, <1>10 DEF MemInv, ConnType
  <2>2. conn'[e] = conn[e]
    BY <1>1, <2>1 DEF MemInv, ConnType
  <2>. QED  BY <1>10, <2>2 DEF MemInv, CallOwnsConnection, Open
<1>. QED  BY <1>7, <1>8, <1>9, <1>10 DEF MemInv, CallOwnsConnection, Open

\* A process that stops waiting disturbs nothing.
LEMMA LeaveKeeps ==
  ASSUME MemInv, NEW p \in Procs, NEW call \in Call, call.pc \notin Waiting,
         proc' = [proc EXCEPT ![p] = call],
         gpu_mem_used' = gpu_mem_used, allocation_map' = allocation_map,
         hook_map' \in [Procs -> [Ptrs -> Word]],
         \/ conn' = conn
         \/ /\ proc[p].pc \in Waiting
            /\ conn' = [conn EXCEPT ![proc[p].fd].reply = NONE]
  PROVE  MemInv'
<1>1. ASSUME NEW fd \in Fds
      PROVE  /\ conn'[fd] \in Connection \cup {NONE}
             /\ Open(fd)' <=> Open(fd)
             /\ Open(fd) => /\ conn'[fd].owner = conn[fd].owner
                            /\ conn'[fd].unread = conn[fd].unread
                            /\ conn'[fd].reclaimed = conn[fd].reclaimed
  <2>1. CASE conn' = conn
    BY <2>1 DEF MemInv, ConnType, Open
  <2>2. CASE /\ proc[p].pc \in Waiting
             /\ conn' = [conn EXCEPT ![proc[p].fd].reply = NONE]
    <3>1. CASE fd # proc[p].fd
      BY <2>2, <3>1 DEF MemInv, ConnType, Open
    <3>2. CASE fd = proc[p].fd
      <4>1. Open(fd)
        BY <2>2, <3>2 DEF MemInv, CallOwnsConnection
      <4>2. conn[fd] \in Connection
        BY <4>1, OpenType DEF MemInv
      <4>3. conn'[fd] = [conn[fd] EXCEPT !.reply = NONE]
        BY <2>2, <3>2 DEF MemInv, ConnType
      <4>4. conn'[fd] \in Connection
        BY <4>2, <4>3 DEF Connection
      <4>. QED  BY <4>1, <4>2, <4>3, <4>4, NoneAssumption DEF Open, Connection
    <3>. QED  BY <3>1, <3>2
  <2>. QED  BY <2>1, <2>2
<1>2. conn' \in [Fds -> Connection \cup {NONE}]
  <2>1. conn' = [fd \in Fds |-> conn'[fd]]
    BY DEF MemInv, ConnType
  <2>. QED  BY <2>1, <1>1
<1>3. ConnType'
  BY <1>2 DEF MemInv, ConnType
<1>4. AccountPerConnection'
  BY <1>1 DEF MemInv, AccountPerConnection, Open
<1>5. ASSUME NEW q \in Procs, proc'[q].pc \in Waiting
      PROVE  proc'[q].fd # NONE /\ Open(proc[q].fd)' /\ conn'[proc'[q].fd].owner = q
  <2>1. q # p /\ proc'[q] = proc[q]
    BY <1>5 DEF MemInv, ConnType
  <2>2. proc[q].fd # NONE /\ Open(proc[q].fd) /\ conn[proc[q].fd].owner = q
    BY <1>5, <2>1 DEF MemInv, CallOwnsConnection
  <2>3. proc[q].fd \in Fds
    BY <2>2 DEF MemInv, ConnType, Call
  <2>. QED  BY <1>1, <2>1, <2>2, <2>3 DEF Open
<1>6. ASSUME NEW e \in Fds, Open(e)', conn'[e].reclaimed
      PROVE  conn'[e].owner = NONE /\ conn'[e].unread = <<>>
  BY <1>1, <1>6 DEF MemInv, CallOwnsConnection
<1>. QED  BY <1>3, <1>4, <1>5, <1>6 DEF MemInv, CallOwnsConnection, Open

\* A step that changes one open connection, keeping its owner and what it says
\* about the reclaim, and its account.
LEMMA ConnStepKeeps ==
  ASSUME MemInv, NEW fd \in Fds, Open(fd), ~conn[fd].reclaimed,
         NEW k \in Connection, k.owner = conn[fd].owner, k.reclaimed = FALSE,
         conn' = [conn EXCEPT ![fd] = k],
         NEW a \in Word,
         allocation_map' = [allocation_map EXCEPT ![fd] = a],
         gpu_mem_used' \in Word, hook_map' = hook_map,
         proc' \in [Procs -> Call],
         \A q \in Procs : proc'[q].fd = proc[q].fd /\ proc'[q].pc = proc[q].pc
  PROVE  MemInv'
<1>1. ConnType'
  BY DEF MemInv, ConnType
<1>2. conn'[fd] = k /\ \A e \in Fds : e # fd => conn'[e] = conn[e]
  BY DEF MemInv, ConnType
<1>3. k # NONE
  BY NoneAssumption
<1>4. AccountPerConnection'
  BY <1>2, <1>3, WordArithmetic DEF MemInv, ConnType, AccountPerConnection, Open
<1>5. ASSUME NEW q \in Procs, proc'[q].pc \in Waiting
      PROVE  proc'[q].fd # NONE /\ Open(proc[q].fd)' /\ conn'[proc'[q].fd].owner = q
  <2>1. proc[q].fd # NONE /\ Open(proc[q].fd) /\ conn[proc[q].fd].owner = q
    BY <1>5 DEF MemInv, CallOwnsConnection
  <2>2. proc[q].fd \in Fds
    BY <2>1 DEF MemInv, ConnType, Call
  <2>3. proc'[q].fd = proc[q].fd
    OBVIOUS
  <2>. QED  BY <1>2, <1>3, <2>1, <2>2, <2>3 DEF Open
<1>6. ASSUME NEW e \in Fds, Open(e)', conn'[e].reclaimed
      PROVE  conn'[e].owner = NONE /\ conn'[e].unread = <<>>
  <2>1. e # fd
    BY <1>2, <1>6
  <2>. QED  BY <1>2, <1>6, <2>1 DEF MemInv, CallOwnsConnection, Open
<1>. QED  BY <1>1, <1>4, <1>5, <1>6 DEF MemInv, CallOwnsConnection, Open

LEMMA RetryKeeps ==
  ASSUME MemInv, NEW p \in Procs, Retry(p)
  PROVE  MemInv'
<1>1. proc[p].pc \in Waiting
  BY DEF Retry
<1>2. proc[p].fd \in Fds /\ Open(proc[p].fd) /\ conn[proc[p].fd].owner = p
  BY <1>1 DEF MemInv, CallOwnsConnection, ConnType, Call
<1>3. PICK fd \in Fds : fd = proc[p].fd
  BY <1>2
<1>4. conn[fd] \in Connection /\ conn[fd].unread \in Seq(Message)
  BY <1>2, <1>3, OpenType DEF MemInv
<1>5. ~conn[fd].reclaimed
  BY <1>2, <1>3, NoneAssumption DEF MemInv, CallOwnsConnection
<1>6. [req |-> RequestOf[proc[p].pc], size |-> proc[p].size] \in Message
  BY <1>1 DEF MemInv, ConnType, Call, Message, RequestOf, Waiting
<1>7. PICK m \in Message : m = [req |-> RequestOf[proc[p].pc], size |-> proc[p].size]
  BY <1>6
<1>8. PICK k \in Connection : k = Repeated(conn[fd], m)
  <2>1. Append(conn[fd].unread, m) \in Seq(Message)
    BY <1>4, AppendProperties
  <2>. QED  BY <1>4, <2>1 DEF Repeated, Connection
<1>9. conn' = [conn EXCEPT ![fd] = k]
  BY <1>3, <1>7, <1>8 DEF Retry
<1>10. k.owner = conn[fd].owner /\ k.reclaimed = FALSE
  BY <1>4, <1>5, <1>8 DEF Repeated, Connection
<1>11. allocation_map[fd] \in Word
  BY <1>2, <1>3, <1>5 DEF MemInv, ConnType, AccountPerConnection
<1>12. allocation_map' = [allocation_map EXCEPT ![fd] = allocation_map[fd]]
  BY DEF Retry, MemInv, ConnType
<1>13. proc' = [proc EXCEPT ![p].attempt = @ + 1]
  BY DEF Retry
<1>14. /\ proc' \in [Procs -> Call]
       /\ \A q \in Procs : proc'[q].fd = proc[q].fd /\ proc'[q].pc = proc[q].pc
  <2>1. proc[p] \in Call
    BY DEF MemInv, ConnType
  <2>2. PICK call \in Call : call = [proc[p] EXCEPT !.attempt = @ + 1]
    <3>1. proc[p].attempt \in Nat
      BY <2>1 DEF Call
    <3>2. PICK n \in Nat : n = proc[p].attempt + 1
      BY <3>1
    <3>3. [proc[p] EXCEPT !.attempt = n] \in Call
      BY <2>1, <3>2 DEF Call
    <3>. QED  BY <3>2, <3>3
  <2>3. call.fd = proc[p].fd /\ call.pc = proc[p].pc
    BY <2>1, <2>2 DEF Call
  <2>4. proc' = [proc EXCEPT ![p] = call]
    BY <1>13, <2>2
  <2>. QED  BY <2>3, <2>4 DEF MemInv, ConnType
<1>15. gpu_mem_used' \in Word /\ hook_map' = hook_map
  BY DEF Retry, MemInv, ConnType
<1>. QED
  BY <1>2, <1>3, <1>5, <1>8, <1>9, <1>10, <1>11, <1>12, <1>14, <1>15, ConnStepKeeps

\* A handled request: one message read, at most one reply written.
LEMMA ReplyKeeps ==
  ASSUME MemInv, NEW fd \in Fds, Open(fd), conn[fd].unread # <<>>,
         NEW value \in Word, Reply(fd, value),
         NEW a \in Word,
         allocation_map' = [allocation_map EXCEPT ![fd] = a],
         gpu_mem_used' \in Word, proc' = proc, hook_map' = hook_map
  PROVE  MemInv'
<1>1. conn[fd] \in Connection /\ conn[fd].unread \in Seq(Message)
      /\ conn[fd].reply \in Word \cup {NONE} /\ conn[fd].reclaimed \in BOOLEAN
  BY OpenType DEF MemInv
<1>2. ~conn[fd].reclaimed
  BY DEF MemInv, CallOwnsConnection
<1>3. PICK u \in Seq(Message) : u = Tail(conn[fd].unread)
  BY <1>1, HeadTailProperties
<1>4. PICK r \in Word \cup {NONE} :
        r = IF conn[fd].owner # NONE /\ proc[conn[fd].owner].fd = fd /\ conn[fd].reply = NONE
            THEN value ELSE conn[fd].reply
  BY <1>1
<1>5. PICK k \in Connection : k = [conn[fd] EXCEPT !.unread = u, !.reply = r]
  BY <1>1, <1>3, <1>4 DEF Connection
<1>6. conn' = [conn EXCEPT ![fd] = k]
  <2>1. conn' = [conn EXCEPT
           ![fd].unread = Tail(@),
           ![fd].reply = IF conn[fd].owner # NONE /\ proc[conn[fd].owner].fd = fd /\ @ = NONE
                         THEN value ELSE @]
    BY DEF Reply
  <2>2. conn[fd].reply = [conn[fd] EXCEPT !.unread = u].reply
    BY <1>1 DEF Connection
  <2>. QED  BY <2>1, <2>2, <1>1, <1>3, <1>4, <1>5 DEF MemInv, ConnType, Connection
<1>7. k.owner = conn[fd].owner /\ k.reclaimed = FALSE
  BY <1>1, <1>2, <1>5 DEF Connection
<1>8. proc' \in [Procs -> Call]
  BY DEF MemInv, ConnType
<1>. QED  BY <1>2, <1>5, <1>6, <1>7, <1>8, ConnStepKeeps

LEMMA HandlerKeeps ==
  ASSUME MemInv, NEW fd \in Fds, HandleMemLimit(fd) \/ HandleAlloc(fd) \/ HandleFree(fd)
  PROVE  MemInv'
<1>1. Open(fd) /\ conn[fd].unread # <<>>
  BY DEF HandleMemLimit, HandleAlloc, HandleFree, Received
<1>2. conn[fd].unread \in Seq(Message)
  BY <1>1, OpenType DEF MemInv
<1>3. PICK size \in Word : size = Head(conn[fd].unread).size
  <2>1. Head(conn[fd].unread) \in Message
    BY <1>1, <1>2, HeadTailProperties
  <2>. QED  BY <2>1 DEF Message
<1>4. ~conn[fd].reclaimed
  BY <1>1 DEF MemInv, CallOwnsConnection
<1>5. allocation_map[fd] \in Word
  BY <1>1, <1>4 DEF MemInv, ConnType, AccountPerConnection
<1>6. allocation_map = [allocation_map EXCEPT ![fd] = allocation_map[fd]]
  BY DEF MemInv, ConnType
<1>7. gpu_mem_used \in Word
  BY DEF MemInv, ConnType
<1>8. CASE HandleMemLimit(fd)
  BY <1>1, <1>5, <1>6, <1>7, <1>8, ReplyKeeps DEF HandleMemLimit
<1>9. CASE HandleAlloc(fd)
  <2>1. PICK sum \in Word : sum = (gpu_mem_used + Head(conn[fd].unread).size) % WORD
    BY <1>3, <1>7, WordArithmetic
  <2>2. PICK a \in Word : a = (allocation_map[fd] + Head(conn[fd].unread).size) % WORD
    BY <1>3, <1>5, WordArithmetic
  <2>3. proc' = proc /\ hook_map' = hook_map
    BY <1>9 DEF HandleAlloc
  <2>4. CASE sum > LIMIT
    BY <1>1, <1>5, <1>6, <1>7, <1>9, <2>1, <2>3, <2>4, WordArithmetic, ReplyKeeps
       DEF HandleAlloc
  <2>5. CASE ~(sum > LIMIT)
    <3>1. /\ Reply(fd, 1) /\ gpu_mem_used' = sum
          /\ allocation_map' = [allocation_map EXCEPT ![fd] = a]
      BY <1>9, <2>1, <2>2, <2>5 DEF HandleAlloc
    <3>. QED  BY <1>1, <2>3, <3>1, WordArithmetic, ReplyKeeps
  <2>. QED  BY <2>4, <2>5
<1>10. CASE HandleFree(fd)
  <2>1. PICK a \in Word : a = (allocation_map[fd] - Head(conn[fd].unread).size) % WORD
    BY <1>3, <1>5, WordArithmetic
  <2>2. gpu_mem_used' \in Word
    BY <1>3, <1>7, <1>10, WordArithmetic DEF HandleFree
  <2>3. /\ Reply(fd, 1) /\ allocation_map' = [allocation_map EXCEPT ![fd] = a]
        /\ proc' = proc /\ hook_map' = hook_map
    BY <1>10, <2>1 DEF HandleFree
  <2>. QED  BY <1>1, <2>2, <2>3, WordArithmetic, ReplyKeeps
<1>. QED  BY <1>8, <1>9, <1>10

\* The connections of a process that ends lose their owner and nothing else.
LEMMA ExitKeeps ==
  ASSUME MemInv, NEW p \in Procs, Exit(p)
  PROVE  MemInv'
<1>1. conn' = [fd \in Fds |-> IF Open(fd) /\ conn[fd].owner = p
                              THEN [conn[fd] EXCEPT !.owner = NONE, !.reply = NONE]
                              ELSE conn[fd]]
  BY DEF Exit
<1>2. ASSUME NEW fd \in Fds
      PROVE  /\ conn'[fd] \in Connection \cup {NONE}
             /\ Open(fd)' <=> Open(fd)
             /\ Open(fd) => /\ conn'[fd].owner = conn[fd].owner \/ conn'[fd].owner = NONE
                            /\ conn[fd].owner # p => conn'[fd].owner = conn[fd].owner
                            /\ conn'[fd].unread = conn[fd].unread
                            /\ conn'[fd].reclaimed = conn[fd].reclaimed
  <2>1. CASE Open(fd) /\ conn[fd].owner = p
    <3>1. conn[fd] \in Connection
      BY <2>1, OpenType DEF MemInv
    <3>2. conn'[fd] = [conn[fd] EXCEPT !.owner = NONE, !.reply = NONE]
      BY <1>1, <2>1
    <3>3. conn'[fd] \in Connection
      BY <3>1, <3>2 DEF Connection
    <3>. QED  BY <2>1, <3>1, <3>2, <3>3, NoneAssumption DEF Open, Connection
  <2>2. CASE ~(Open(fd) /\ conn[fd].owner = p)
    BY <1>1, <2>2 DEF MemInv, ConnType, Open
  <2>. QED  BY <2>1, <2>2
<1>3. proc' = [proc EXCEPT ![p] = Dead]
  BY DEF Exit
<1>4. ConnType'
  <2>1. conn' \in [Fds -> Connection \cup {NONE}]
    <3>1. conn' = [fd \in Fds |-> conn'[fd]]
      BY <1>1
    <3>. QED  BY <3>1, <1>2
  <2>2. proc' \in [Procs -> Call]
    BY <1>3, IdleType DEF MemInv, ConnType
  <2>3. hook_map' \in [Procs -> [Ptrs -> Word]]
    BY WordArithmetic DEF Exit, MemInv, ConnType, Nothing
  <2>. QED  BY <2>1, <2>2, <2>3 DEF Exit, MemInv, ConnType
<1>5. AccountPerConnection'
  BY <1>2 DEF Exit, MemInv, AccountPerConnection, Open
<1>6. ASSUME NEW q \in Procs, proc'[q].pc \in Waiting
      PROVE  proc'[q].fd # NONE /\ Open(proc[q].fd)' /\ conn'[proc'[q].fd].owner = q
  <2>1. q # p /\ proc'[q] = proc[q]
    BY <1>3, <1>6, IdleType DEF MemInv, ConnType
  <2>2. proc[q].fd # NONE /\ Open(proc[q].fd) /\ conn[proc[q].fd].owner = q
    BY <1>6, <2>1 DEF MemInv, CallOwnsConnection
  <2>3. proc[q].fd \in Fds
    BY <2>2 DEF MemInv, ConnType, Call
  <2>. QED  BY <1>2, <2>1, <2>2, <2>3 DEF Open
<1>7. ASSUME NEW e \in Fds, Open(e)', conn'[e].reclaimed
      PROVE  conn'[e].owner = NONE /\ conn'[e].unread = <<>>
  BY <1>2, <1>7 DEF MemInv, CallOwnsConnection
<1>. QED  BY <1>4, <1>5, <1>6, <1>7 DEF MemInv, CallOwnsConnection, Open

LEMMA ReclaimKeeps ==
  ASSUME MemInv, NEW fd \in Fds, Reclaim(fd)
  PROVE  MemInv'
<1>1. Open(fd) /\ conn[fd].owner = NONE /\ conn[fd].unread = <<>> /\ ~conn[fd].reclaimed
  BY DEF Reclaim
<1>2. allocation_map[fd] \in Word
  BY <1>1 DEF MemInv, ConnType, AccountPerConnection
<1>3. conn[fd] \in Connection
  BY <1>1, OpenType DEF MemInv
<1>4. PICK k \in Connection : k = [conn[fd] EXCEPT !.reclaimed = TRUE]
  BY <1>3 DEF Connection
<1>5. k.owner = NONE /\ k.unread = <<>> /\ k.reclaimed = TRUE /\ k # NONE
  BY <1>1, <1>3, <1>4, NoneAssumption DEF Connection
<1>6. conn' = [conn EXCEPT ![fd] = k] /\ proc' = proc /\ hook_map' = hook_map
      /\ allocation_map' = [allocation_map EXCEPT ![fd] = NONE]
  BY <1>4 DEF Reclaim
<1>7. ConnType'
  <2>1. gpu_mem_used' \in Word
    BY <1>2, WordArithmetic DEF Reclaim, MemInv, ConnType
  <2>. QED  BY <1>6, <2>1 DEF MemInv, ConnType
<1>8. AccountPerConnection'
  BY <1>5, <1>6 DEF MemInv, ConnType, AccountPerConnection, Open
<1>9. ASSUME NEW q \in Procs, proc[q].pc \in Waiting
      PROVE  proc[q].fd # NONE /\ conn'[proc[q].fd] # NONE /\ conn'[proc[q].fd].owner = q
  <2>1. proc[q].fd # NONE /\ Open(proc[q].fd) /\ conn[proc[q].fd].owner = q
    BY <1>9 DEF MemInv, CallOwnsConnection
  <2>2. proc[q].fd \in Fds /\ proc[q].fd # fd
    BY <1>1, <2>1, NoneAssumption DEF MemInv, ConnType, Call
  <2>. QED  BY <1>6, <2>1, <2>2 DEF MemInv, ConnType, Open
<1>10. ASSUME NEW e \in Fds, conn'[e] # NONE, conn'[e].reclaimed
       PROVE  conn'[e].owner = NONE /\ conn'[e].unread = <<>>
  BY <1>5, <1>6, <1>10 DEF MemInv, ConnType, CallOwnsConnection, Open
<1>. QED  BY <1>6, <1>7, <1>8, <1>9, <1>10 DEF MemInv, CallOwnsConnection, Open

LEMMA CloseKeeps ==
  ASSUME MemInv, NEW fd \in Fds, CloseFd(fd)
  PROVE  MemInv'
<1>1. Open(fd) /\ conn[fd].reclaimed /\ conn[fd].owner = NONE
  BY DEF CloseFd, MemInv, CallOwnsConnection
<1>2. conn' = [conn EXCEPT ![fd] = NONE] /\ proc' = proc /\ hook_map' = hook_map
      /\ allocation_map' = allocation_map /\ gpu_mem_used' = gpu_mem_used
  BY DEF CloseFd
<1>3. ConnType'
  BY <1>2 DEF MemInv, ConnType
<1>4. AccountPerConnection'
  BY <1>1, <1>2 DEF MemInv, ConnType, AccountPerConnection, Open
<1>5. ASSUME NEW q \in Procs, proc[q].pc \in Waiting
      PROVE  proc[q].fd # NONE /\ conn'[proc[q].fd] # NONE /\ conn'[proc[q].fd].owner = q
  <2>1. proc[q].fd # NONE /\ Open(proc[q].fd) /\ conn[proc[q].fd].owner = q
    BY <1>5 DEF MemInv, CallOwnsConnection
  <2>2. proc[q].fd \in Fds /\ proc[q].fd # fd
    BY <1>1, <2>1, NoneAssumption DEF MemInv, ConnType, Call
  <2>. QED  BY <1>2, <2>1, <2>2 DEF MemInv, ConnType, Open
<1>6. ASSUME NEW e \in Fds, conn'[e] # NONE, conn'[e].reclaimed
      PROVE  conn'[e].owner = NONE /\ conn'[e].unread = <<>>
  BY <1>2, <1>6 DEF MemInv, ConnType, CallOwnsConnection, Open
<1>. QED  BY <1>2, <1>3, <1>4, <1>5, <1>6 DEF MemInv, CallOwnsConnection, Open

LEMMA ProcessKeeps ==
  ASSUME MemInv, NEW p \in Procs, Process(p)
  PROVE  MemInv'
<1>0. proc[p] \in Call /\ proc[p].size \in Word /\ proc[p].ptr \in Ptrs \cup {NONE}
  BY DEF MemInv, ConnType, Call
<1>1. ASSUME NEW ptr \in Ptrs, NEW size \in Sizes, CallAlloc(p, ptr, size) PROVE MemInv'
  <2>1. size \in Word
    BY SizeAssumption
  <2>2. PICK call \in Call :
          call = [Idle EXCEPT !.pc = "checking", !.ptr = ptr, !.size = size]
    BY <2>1 DEF Idle, Call, Waiting
  <2>3. call.pc \in Waiting /\ proc[p].pc \notin Waiting
    BY <1>1, <2>2 DEF Idle, Waiting, CallAlloc
  <2>. QED  BY <1>1, <2>2, <2>3, CommunicateKeeps DEF CallAlloc
<1>2. ASSUME NEW ptr \in Ptrs, CallFree(p, ptr) PROVE MemInv'
  <2>1. hook_map[p][ptr] \in Word
    BY DEF MemInv, ConnType
  <2>2. PICK call \in Call :
          call = [Idle EXCEPT !.pc = "freeing", !.ptr = ptr, !.size = hook_map[p][ptr]]
    BY <2>1 DEF Idle, Call, Waiting
  <2>3. call.pc \in Waiting /\ proc[p].pc \notin Waiting
    BY <1>2, <2>2 DEF Idle, Waiting, CallFree
  <2>. QED  BY <1>2, <2>2, <2>3, CommunicateKeeps DEF CallFree
<1>3. ASSUME NEW ptr \in Ptrs, CallFreeUnknown(p, ptr) PROVE MemInv'
  <2>1. PICK call \in Call : call = [Idle EXCEPT !.pc = "release", !.ptr = ptr]
    BY WordArithmetic DEF Idle, Call, Waiting
  <2>2. call.pc \notin Waiting
    BY <2>1 DEF Idle, Waiting
  <2>. QED  BY <1>3, <2>1, <2>2, LeaveKeeps DEF CallFreeUnknown, MemInv, ConnType
<1>4. CASE CheckRemain(p)
  <2>1. proc[p].pc \in Waiting
    BY <1>4 DEF CheckRemain, Replied, Waiting
  <2>2. [proc[p] EXCEPT !.pc = "checked", !.fd = NONE, !.attempt = 0] \in Call
    BY <1>0 DEF Call
  <2>3. PICK call \in Call :
          call = IF proc[p].size > Remain(Verdict(p)) THEN Idle
                 ELSE [proc[p] EXCEPT !.pc = "checked", !.fd = NONE, !.attempt = 0]
    BY <2>2, IdleType
  <2>4. call.pc \notin Waiting
    BY <1>0, <2>3, IdleType DEF Call, Waiting
  <2>5. proc' = [proc EXCEPT ![p] = call]
    BY <1>4, <2>3 DEF CheckRemain
  <2>. QED  BY <1>4, <2>1, <2>3, <2>4, <2>5, LeaveKeeps DEF CheckRemain, MemInv, ConnType
<1>5. CASE DeviceAllocates(p)
  <2>1. PICK call \in Call : call = [proc[p] EXCEPT !.pc = "accounting"]
    BY <1>0 DEF Call, Waiting
  <2>2. call.pc \in Waiting /\ proc[p].pc \notin Waiting
    BY <1>0, <1>5, <2>1 DEF Call, Waiting, DeviceAllocates
  <2>. QED  BY <1>5, <2>1, <2>2, CommunicateKeeps DEF DeviceAllocates
<1>6. CASE DeviceRefuses(p)
  BY <1>6, IdleType, LeaveKeeps DEF DeviceRefuses, MemInv, ConnType
<1>7. CASE RecordAlloc(p)
  <2>1. proc[p].pc \in Waiting
    BY <1>7 DEF RecordAlloc, Replied, Waiting
  <2>2. hook_map' \in [Procs -> [Ptrs -> Word]]
    BY <1>0, <1>7 DEF RecordAlloc, MemInv, ConnType
  <2>. QED  BY <1>7, <2>1, <2>2, IdleType, LeaveKeeps DEF RecordAlloc
<1>8. CASE RecordFree(p)
  <2>1. proc[p].pc \in Waiting
    BY <1>8 DEF RecordFree, Replied, Waiting
  <2>2. hook_map' \in [Procs -> [Ptrs -> Word]]
    BY <1>0, <1>8, WordArithmetic DEF RecordFree, MemInv, ConnType
  <2>3. PICK call \in Call : call = [Idle EXCEPT !.pc = "release", !.ptr = proc[p].ptr]
    BY <1>0, WordArithmetic DEF Idle, Call, Waiting
  <2>4. call.pc \notin Waiting
    BY <2>3 DEF Idle, Waiting
  <2>. QED  BY <1>8, <2>1, <2>2, <2>3, <2>4, LeaveKeeps DEF RecordFree
<1>9. CASE DeviceFrees(p)
  BY <1>9, IdleType, LeaveKeeps DEF DeviceFrees, MemInv, ConnType
<1>10. CASE Start(p)
  BY <1>10, IdleType, LeaveKeeps DEF Start, MemInv, ConnType
<1>11. CASE Retry(p)
  BY <1>11, RetryKeeps
<1>12. CASE Exit(p)
  BY <1>12, ExitKeeps
<1>13. CASE CheckPitch(p)
  <2>1. proc[p].pc \in Waiting
    BY <1>13 DEF CheckPitch, Replied, Waiting
  <2>2. PICK checked \in Call :
          checked = [proc[p] EXCEPT !.pc = "checked", !.fd = NONE, !.attempt = 0]
    BY <1>0 DEF Call
  <2>3. checked.pc \notin Waiting
    BY <1>0, <2>2 DEF Call, Waiting
  <2>4. PICK call \in {Idle, checked} : proc' = [proc EXCEPT ![p] = call]
    BY <1>13, <2>2 DEF CheckPitch
  <2>5. call \in Call /\ call.pc \notin Waiting
    BY <2>3, <2>4, IdleType
  <2>. QED  BY <1>13, <2>1, <2>4, <2>5, LeaveKeeps DEF CheckPitch, MemInv, ConnType
<1>14. ASSUME NEW ptr \in Ptrs, NEW size \in Sizes, AllocUnhooked(p, ptr, size)
       PROVE  MemInv'
  BY <1>14 DEF AllocUnhooked, MemInv, ConnType, AccountPerConnection, CallOwnsConnection, Open
<1>15. CASE ReportMemory(p)
  <2>1. proc[p].pc \in Waiting
    BY <1>15 DEF ReportMemory, Replied, Waiting
  <2>. QED  BY <1>15, <2>1, IdleType, LeaveKeeps DEF ReportMemory, MemInv, ConnType
<1>. QED
  BY <1>1, <1>2, <1>3, <1>4, <1>5, <1>6, <1>7, <1>8, <1>9, <1>10, <1>11, <1>12, <1>13,
     <1>14, <1>15 DEF Process

\* What the device holds is changed by few steps.
LEMMA RealTyped ==
  ASSUME MemInv, real \in [Procs -> [Ptrs -> Word]], [Next]_vars
  PROVE  real' \in [Procs -> [Ptrs -> Word]]
<1>1. ASSUME NEW p \in Procs, NEW ptr \in Ptrs \cup {NONE}, NEW size \in Word,
             real' = [real EXCEPT ![p][ptr] = size]
      PROVE  real' \in [Procs -> [Ptrs -> Word]]
  BY <1>1
<1>2. ASSUME NEW fd \in Fds, HookThread(fd)
      PROVE  real' = real
  BY <1>2 DEF HookThread, HandleMemLimit, HandleAlloc, HandleFree, Reclaim, CloseFd
<1>3. ASSUME NEW p \in Procs, Process(p)
      PROVE  real' \in [Procs -> [Ptrs -> Word]]
  <2>1. proc[p] \in Call /\ proc[p].size \in Word /\ proc[p].ptr \in Ptrs \cup {NONE}
    BY DEF MemInv, ConnType, Call
  <2>2. CASE DeviceAllocates(p) \/ DeviceFrees(p)
    BY <1>1, <2>1, <2>2, WordArithmetic DEF DeviceAllocates, DeviceFrees
  <2>3. CASE Exit(p)
    BY <2>3, WordArithmetic DEF Exit, Nothing
  <2>4. CASE \E ptr \in Ptrs, size \in Sizes : AllocUnhooked(p, ptr, size)
    BY <1>1, <2>4, SizeAssumption DEF AllocUnhooked
  <2>. QED
    BY <1>3, <2>2, <2>3, <2>4 DEF Process, CallAlloc, CallFree,
       CallFreeUnknown, CheckRemain, CheckPitch, ReportMemory, DeviceRefuses, RecordAlloc,
       RecordFree, Retry, Start
<1>. QED  BY <1>2, <1>3 DEF Next, vars

LEMMA InitMemInv == Init => MemInv
BY WordArithmetic, IdleType
   DEF Init, MemInv, ConnType, AccountPerConnection, CallOwnsConnection, Open, Nothing

LEMMA NextMemInv == MemInv /\ [Next]_vars => MemInv'
<1>. SUFFICES ASSUME MemInv, [Next]_vars PROVE MemInv'
  OBVIOUS
<1>1. ASSUME NEW fd \in Fds, HookThread(fd) PROVE MemInv'
  BY <1>1, HandlerKeeps, ReclaimKeeps, CloseKeeps DEF HookThread
<1>2. CASE UNCHANGED vars
  BY <1>2 DEF vars, MemInv, ConnType, AccountPerConnection, CallOwnsConnection, Open
<1>. QED  BY <1>1, <1>2, ProcessKeeps DEF Next

\* An account exists exactly from accept() to the reclaim: for any number of
\* processes, descriptors and repeated requests, a descriptor that is handed
\* out again never inherits an account, and no request books into one that is
\* gone.
THEOREM AccountsFollowConnections == Spec => []AccountPerConnection
<1>1. MemInv => AccountPerConnection
  BY DEF MemInv
<1>. QED  BY <1>1, InitMemInv, NextMemInv, PTL DEF Spec

\* Totals, accounts and sizes stay within size_t, through wrapped accounts, free
\* requests on other connections and repeated requests; what is sent, received
\* and recorded keeps its type.
THEOREM MemoryTypeCorrect == Spec => []TypeOK
<1>. DEFINE RealType == real \in [Procs -> [Ptrs -> Word]]
            Inv == MemInv /\ RealType
<1>1. Init => Inv
  <2>1. Init => RealType
    BY WordArithmetic DEF Init, Nothing
  <2>. QED  BY <2>1, InitMemInv
<1>2. Inv /\ [Next]_vars => Inv'
  BY NextMemInv, RealTyped
<1>3. Inv => TypeOK
  BY DEF MemInv, ConnType, TypeOK
<1>. HIDE DEF Inv
<1>. QED  BY <1>1, <1>2, <1>3, PTL DEF Spec

-----------------------------------------------------------------------------
(* size_t arithmetic, modulo the word size.                                *)

Cong(a, b) == \E k \in Int : a = b + k * WORD

LEMMA CongRefl == ASSUME NEW a \in Int PROVE Cong(a, a)
<1>1. 0 \in Int /\ 0 * WORD = 0
  BY WordAssumption
<1>2. a = a + 0 * WORD
  BY <1>1
<1>. QED  BY <1>1, <1>2 DEF Cong

LEMMA CongSym == ASSUME NEW a \in Int, NEW b \in Int, Cong(a, b) PROVE Cong(b, a)
<1>1. PICK k \in Int : a = b + k * WORD
  BY DEF Cong
<1>2. (0 - k) * WORD = 0 - k * WORD /\ k * WORD \in Int
  BY WordAssumption
<1>3. b = a + (0 - k) * WORD /\ 0 - k \in Int
  BY <1>1, <1>2
<1>. QED  BY <1>3 DEF Cong

LEMMA CongSum ==
  ASSUME NEW a \in Int, NEW b \in Int, Cong(a, b), NEW c \in Int, NEW d \in Int, Cong(c, d)
  PROVE  Cong(a + c, b + d) /\ Cong(a - c, b - d)
<1>1. PICK k \in Int : a = b + k * WORD
  BY DEF Cong
<1>2. PICK l \in Int : c = d + l * WORD
  BY DEF Cong
<1>3. /\ (k + l) * WORD = k * WORD + l * WORD /\ (k - l) * WORD = k * WORD - l * WORD
      /\ k * WORD \in Int /\ l * WORD \in Int
  BY WordAssumption
<1>4. a + c = (b + d) + (k + l) * WORD /\ a - c = (b - d) + (k - l) * WORD
  BY <1>1, <1>2, <1>3
<1>. QED  BY <1>4 DEF Cong

LEMMA CongTrans ==
  ASSUME NEW a \in Int, NEW b \in Int, NEW c \in Int, Cong(a, b), Cong(b, c)
  PROVE  Cong(a, c)
<1>1. PICK k \in Int : a = b + k * WORD
  BY DEF Cong
<1>2. PICK l \in Int : b = c + l * WORD
  BY DEF Cong
<1>3. /\ (k + l) * WORD = k * WORD + l * WORD
      /\ k * WORD \in Int /\ l * WORD \in Int
  BY WordAssumption
<1>4. a = c + (k + l) * WORD /\ k + l \in Int
  BY <1>1, <1>2, <1>3
<1>. QED  BY <1>4 DEF Cong

LEMMA CongMod == ASSUME NEW a \in Int PROVE a % WORD \in Word /\ Cong(a, a % WORD)
<1>1. a % WORD \in Word
  BY WordAssumption DEF Word
<1>2. a = (a % WORD) + (a \div WORD) * WORD /\ a \div WORD \in Int
  BY WordAssumption
<1>. QED  BY <1>1, <1>2 DEF Cong

\* Two numbers of a word that are congruent are equal.
LEMMA CongUnique ==
  ASSUME NEW a \in Word, NEW b \in Word, Cong(a, b)
  PROVE  a = b
<1>1. PICK k \in Int : a = b + k * WORD
  BY DEF Cong
<1>2. WORD \in Nat /\ a \in Int /\ b \in Int /\ a - b < WORD /\ b - a < WORD
  BY WordAssumption DEF Word
<1>3. CASE k > 0
  <2>1. k * WORD >= WORD
    BY <1>2, <1>3
  <2>. QED  BY <1>1, <1>2, <2>1
<1>4. CASE k < 0
  <2>1. k * WORD <= 0 - WORD
    BY <1>2, <1>4
  <2>. QED  BY <1>1, <1>2, <2>1
<1>5. CASE k = 0
  BY <1>1, <1>2, <1>5
<1>. QED  BY <1>3, <1>4, <1>5

LEMMA CongIsMod ==
  ASSUME NEW a \in Word, NEW b \in Int, Cong(a, b)
  PROVE  a = b % WORD
<1>1. b % WORD \in Word /\ Cong(b, b % WORD)
  BY CongMod
<1>2. Word \subseteq Int
  BY DEF Word
<1>3. Cong(a, b % WORD)
  BY <1>1, <1>2, CongTrans
<1>. QED  BY <1>1, <1>3, CongUnique

-----------------------------------------------------------------------------
(* The total and the accounts.                                             *)

LEMMA AccountType ==
  ASSUME MemInv
  PROVE  \A fd \in Fds : Account(fd) \in Word /\ Account(fd) \in Int
BY WordArithmetic DEF Account, MemInv, ConnType

LEMMA AccountsType ==
  ASSUME MemInv
  PROVE  Accounts \in Int /\ IsFiniteSet(Fds)
<1>1. IsFiniteSet(Fds)
  BY FS_Interval, FdAssumption DEF Fds
<1>2. PICK f : f = [x \in Fds |-> Account(x)]
  OBVIOUS
<1>3. \A x \in Fds : f[x] \in Int
  BY <1>2, AccountType
<1>4. Accounts = SumFunctionOnSet(f, Fds)
  BY <1>2 DEF Accounts, SumFunction
<1>. QED  BY <1>1, <1>3, <1>4, SumType

\* A step that touches one account changes their sum by as much.
LEMMA AccountsStep ==
  ASSUME MemInv, MemInv', NEW fd \in Fds,
         \A e \in Fds : e # fd => allocation_map'[e] = allocation_map[e]
  PROVE  Accounts' = Accounts + (Account(fd)' - Account(fd))
<1>1. PICK f : f = [x \in Fds |-> Account(x)]
  OBVIOUS
<1>2. PICK g : g = [x \in Fds |-> Account(x)']
  OBVIOUS
<1>3. Accounts = SumFunctionOnSet(f, Fds)
  BY <1>1 DEF Accounts, SumFunction
<1>4. Accounts' = SumFunctionOnSet(g, Fds)
  BY <1>2 DEF Accounts, SumFunction
<1>5. \A y \in Fds : f[y] \in Int /\ g[y] \in Int
  <2>1. \A y \in Fds : Account(y)' \in Int
    BY AccountType, WordArithmetic DEF Account, MemInv, ConnType, Word
  <2>. QED  BY <1>1, <1>2, <2>1, AccountType
<1>6. \A y \in Fds : y # fd => g[y] = f[y]
  BY <1>1, <1>2 DEF Account
<1>7. f[fd] = Account(fd) /\ g[fd] = Account(fd)'
  BY <1>1, <1>2
<1>8. IsFiniteSet(Fds)
  BY AccountsType
<1>9. SumFunctionOnSet(g, Fds) = SumFunctionOnSet(f, Fds) + (g[fd] - f[fd])
  BY <1>5, <1>6, <1>8, SumChange
<1>. QED  BY <1>3, <1>4, <1>7, <1>9

\* Every step books the same amount in the total and in one account.
LEMMA StepBooksOnce ==
  ASSUME MemInv, [Next]_vars
  PROVE  \/ gpu_mem_used' = gpu_mem_used /\ allocation_map' = allocation_map
         \/ \E fd \in Fds, d \in Int :
               /\ \A e \in Fds : e # fd => allocation_map'[e] = allocation_map[e]
               /\ Cong(gpu_mem_used', gpu_mem_used + d)
               /\ Cong(Account(fd)', Account(fd) + d)
<1>. DEFINE Booked(fd, d) ==
              /\ \A e \in Fds : e # fd => allocation_map'[e] = allocation_map[e]
              /\ Cong(gpu_mem_used', gpu_mem_used + d)
              /\ Cong(Account(fd)', Account(fd) + d)
            Goal == \/ gpu_mem_used' = gpu_mem_used /\ allocation_map' = allocation_map
                    \/ \E fd \in Fds, d \in Int : Booked(fd, d)
<1>0. gpu_mem_used \in Word /\ gpu_mem_used \in Int /\ Word \subseteq Int
      /\ allocation_map \in [Fds -> Word \cup {NONE}] /\ NONE \notin Word
  BY WordArithmetic DEF MemInv, ConnType, Word
<1>. SUFFICES Goal
  OBVIOUS
<1>g. ASSUME NEW fd \in Fds, NEW d \in Int, Booked(fd, d) PROVE Goal
  BY <1>g
<1>. HIDE DEF Goal
<1>1. ASSUME NEW p \in Procs, NEW call, NEW req, Communicate(p, call, req),
             gpu_mem_used' = gpu_mem_used
      PROVE  Goal
  <2>1. PICK fd \in Fds :
          allocation_map' = [allocation_map EXCEPT ![fd] = IF @ = NONE THEN 0 ELSE @]
    BY <1>1 DEF Communicate
  <2>2. Account(fd)' = Account(fd) /\ Account(fd) \in Int
    BY <1>0, <2>1, AccountType, WordArithmetic DEF Account
  <2>3. gpu_mem_used' = gpu_mem_used + 0 /\ Account(fd)' = Account(fd) + 0
    BY <1>0, <1>1, <2>2
  <2>4. Cong(gpu_mem_used', gpu_mem_used + 0) /\ Cong(Account(fd)', Account(fd) + 0)
    BY <1>0, <1>1, <2>2, <2>3, CongRefl
  <2>5. \A e \in Fds : e # fd => allocation_map'[e] = allocation_map[e]
    BY <1>0, <2>1
  <2>. QED  BY <1>g, <2>4, <2>5
<1>2. ASSUME NEW p \in Procs, Process(p) PROVE Goal
  BY <1>1, <1>2 DEF Goal, Process, CallAlloc, CallFree, DeviceAllocates, CallFreeUnknown,
     CheckRemain, CheckPitch, ReportMemory, AllocUnhooked, DeviceRefuses, RecordAlloc,
     RecordFree, DeviceFrees, Retry, Start, Exit
<1>3. ASSUME NEW fd \in Fds, NEW d \in Int,
             gpu_mem_used' = (gpu_mem_used + d) % WORD,
             allocation_map' = [allocation_map EXCEPT ![fd] = (allocation_map[fd] + d) % WORD],
             allocation_map[fd] \in Word
      PROVE  Goal
  <2>0. allocation_map[fd] \in Int
    BY <1>3, WordArithmetic
  <2>1. PICK a \in Int : a = allocation_map[fd] + d
    BY <2>0
  <2>2. PICK s \in Int : s = gpu_mem_used + d
    BY <1>0
  <2>3. /\ s % WORD \in Word /\ Cong(s, s % WORD)
        /\ a % WORD \in Word /\ Cong(a, a % WORD)
    BY CongMod
  <2>4. Cong(s % WORD, s) /\ Cong(a % WORD, a)
    BY <1>0, <2>3, CongSym
  <2>5. Account(fd) = allocation_map[fd] /\ Account(fd)' = a % WORD
    BY <1>0, <1>3, <2>1, <2>3 DEF Account
  <2>6. Cong(gpu_mem_used', gpu_mem_used + d) /\ Cong(Account(fd)', Account(fd) + d)
    BY <1>3, <2>1, <2>2, <2>4, <2>5
  <2>7. \A e \in Fds : e # fd => allocation_map'[e] = allocation_map[e]
    BY <1>0, <1>3
  <2>. QED  BY <1>g, <2>6, <2>7
<1>4. ASSUME NEW fd \in Fds, HandleAlloc(fd) \/ HandleFree(fd) PROVE Goal
  <2>1. Open(fd) /\ conn[fd].unread # <<>>
    BY <1>4 DEF HandleAlloc, HandleFree, Received
  <2>2. conn[fd].unread \in Seq(Message)
    BY <2>1, OpenType DEF MemInv
  <2>3. PICK size \in Word : size = Head(conn[fd].unread).size
    <3>1. Head(conn[fd].unread) \in Message
      BY <2>1, <2>2, HeadTailProperties
    <3>. QED  BY <3>1 DEF Message
  <2>4. allocation_map[fd] \in Word
    BY <2>1 DEF MemInv, ConnType, AccountPerConnection, CallOwnsConnection
  <2>5. CASE HandleAlloc(fd)
    <3>1. CASE gpu_mem_used' = gpu_mem_used /\ allocation_map' = allocation_map
      BY <3>1 DEF Goal
    <3>2. CASE /\ gpu_mem_used' = (gpu_mem_used + size) % WORD
               /\ allocation_map' = [allocation_map EXCEPT ![fd] =
                                        (allocation_map[fd] + size) % WORD]
      BY <1>0, <1>3, <2>4, <3>2
    <3>. QED  BY <2>3, <2>5, <3>1, <3>2 DEF HandleAlloc
  <2>6. CASE HandleFree(fd)
    <3>0. allocation_map[fd] \in Int /\ size \in Int
      BY <2>4, WordArithmetic
    <3>1. PICK d \in Int : d = 0 - size
      BY <3>0
    <3>2. gpu_mem_used - size = gpu_mem_used + d /\ allocation_map[fd] - size = allocation_map[fd] + d
      BY <1>0, <3>0, <3>1
    <3>3. /\ gpu_mem_used' = (gpu_mem_used + d) % WORD
          /\ allocation_map' = [allocation_map EXCEPT ![fd] = (allocation_map[fd] + d) % WORD]
      BY <2>3, <2>6, <3>2 DEF HandleFree
    <3>. QED  BY <1>3, <2>4, <3>3
  <2>. QED  BY <1>4, <2>5, <2>6
<1>5. ASSUME NEW fd \in Fds, Reclaim(fd) PROVE Goal
  <2>1. allocation_map[fd] \in Word
    BY <1>5 DEF Reclaim, MemInv, ConnType, AccountPerConnection
  <2>0. allocation_map[fd] \in Int /\ allocation_map[fd] # NONE
    BY <2>1, WordArithmetic
  <2>2. PICK d \in Int : d = 0 - allocation_map[fd]
    BY <2>0
  <2>3. PICK s \in Int : s = gpu_mem_used + d
    BY <1>0
  <2>4. gpu_mem_used' = s % WORD
    BY <1>0, <1>5, <2>0, <2>2, <2>3 DEF Reclaim
  <2>5. Cong(gpu_mem_used', gpu_mem_used + d)
    <3>1. s % WORD \in Int /\ Cong(s, s % WORD)
      BY <1>0, CongMod
    <3>. QED  BY <2>3, <2>4, <3>1, CongSym
  <2>6. allocation_map' = [allocation_map EXCEPT ![fd] = NONE]
    BY <1>5 DEF Reclaim
  <2>7. Account(fd)' = 0 /\ Account(fd) + d = 0
    <3>1. allocation_map'[fd] = NONE
      BY <1>0, <2>6
    <3>. QED  BY <2>0, <2>2, <3>1 DEF Account
  <2>8. Cong(Account(fd)', Account(fd) + d)
    BY <2>7, CongRefl
  <2>9. \A e \in Fds : e # fd => allocation_map'[e] = allocation_map[e]
    BY <1>0, <2>6
  <2>. QED  BY <1>g, <2>5, <2>8, <2>9
<1>6. ASSUME NEW fd \in Fds, HandleMemLimit(fd) \/ CloseFd(fd) PROVE Goal
  BY <1>6 DEF Goal, HandleMemLimit, CloseFd
<1>7. CASE UNCHANGED vars
  BY <1>7 DEF Goal, vars
<1>. QED  BY <1>2, <1>4, <1>5, <1>6, <1>7 DEF Next, HookThread

BooksInv == MemInv /\ Cong(gpu_mem_used, Accounts)

LEMMA InitBooks == Init => BooksInv
<1>. SUFFICES ASSUME Init PROVE BooksInv
  OBVIOUS
<1>1. MemInv
  BY InitMemInv
<1>2. PICK f : f = [x \in Fds |-> Account(x)]
  OBVIOUS
<1>3. \A x \in Fds : f[x] = 0
  BY <1>2 DEF Init, Account
<1>4. Accounts = 0
  BY <1>1, <1>2, <1>3, AccountsType, SumZero DEF Accounts, SumFunction
<1>5. Cong(0, 0)
  BY CongRefl
<1>. QED  BY <1>1, <1>4, <1>5 DEF Init, BooksInv

LEMMA NextBooks == BooksInv /\ [Next]_vars => BooksInv'
<1>. SUFFICES ASSUME BooksInv, [Next]_vars PROVE BooksInv'
  OBVIOUS
<1>1. MemInv /\ MemInv'
  BY NextMemInv DEF BooksInv
<1>2. Cong(gpu_mem_used, Accounts)
  BY DEF BooksInv
<1>3. /\ gpu_mem_used \in Int /\ gpu_mem_used' \in Int /\ Accounts \in Int
      /\ \A fd \in Fds : Account(fd) \in Int /\ Account(fd)' \in Int
  BY <1>1, AccountsType, AccountType, WordArithmetic DEF MemInv, ConnType, Account
<1>4. CASE gpu_mem_used' = gpu_mem_used /\ allocation_map' = allocation_map
  <2>1. Accounts' = Accounts
    BY <1>4 DEF Accounts, Account
  <2>. QED  BY <1>1, <1>2, <1>4, <2>1 DEF BooksInv, Cong
<1>5. ASSUME NEW fd \in Fds, NEW d \in Int,
             \A e \in Fds : e # fd => allocation_map'[e] = allocation_map[e],
             Cong(gpu_mem_used', gpu_mem_used + d),
             Cong(Account(fd)', Account(fd) + d)
      PROVE  BooksInv'
  <2>1. PICK a \in Int : a = Account(fd)
    BY <1>3
  <2>2. PICK b \in Int : b = Account(fd)'
    BY <1>3
  <2>3. PICK A \in Int : A = Accounts
    BY <1>3
  <2>4. PICK B \in Int : B = Accounts'
    BY <1>1, <1>3, <1>5, <2>1, <2>2, <2>3, AccountsStep
  <2>5. B = A + (b - a)
    BY <1>1, <1>5, <2>1, <2>2, <2>3, <2>4, AccountsStep
  <2>6. Cong(b - a, (a + d) - a)
    BY <1>5, <2>1, <2>2, CongRefl, CongSum
  <2>7. Cong(A + (b - a), A + ((a + d) - a))
    BY <2>6, CongRefl, CongSum
  <2>8. A + ((a + d) - a) = A + d
    OBVIOUS
  <2>9. Cong(B, A + d)
    BY <2>5, <2>7, <2>8
  <2>10. Cong(gpu_mem_used + d, A + d)
    BY <1>2, <1>3, <2>3, CongRefl, CongSum
  <2>11. Cong(gpu_mem_used', A + d)
    BY <1>3, <1>5, <2>10, CongTrans
  <2>12. Cong(gpu_mem_used', B)
    BY <1>3, <2>9, <2>11, CongSym, CongTrans
  <2>. QED  BY <1>1, <2>4, <2>12 DEF BooksInv, Cong
<1>. QED  BY <1>1, <1>4, <1>5, StepBooksOnce

\* The pod manager's total is the sum of its accounts modulo the size of size_t:
\* through accounts that wrap below zero because memory is freed on another
\* connection than it was allocated on, repeated requests, and reclaims.
THEOREM TotalMatchesAccounts == Spec => []TotalIsSumOfAccounts
<1>1. BooksInv => TotalIsSumOfAccounts
  <2>. SUFFICES ASSUME BooksInv PROVE TotalIsSumOfAccounts
    OBVIOUS
  <2>1. gpu_mem_used \in Word /\ Accounts \in Int /\ Cong(gpu_mem_used, Accounts)
    BY AccountsType DEF BooksInv, MemInv, ConnType
  <2>. QED  BY <2>1, CongIsMod DEF TotalIsSumOfAccounts
<1>. QED  BY <1>1, InitBooks, NextBooks, PTL DEF Spec

\* Once every connection is closed the total is back at zero, whatever the
\* processes allocated, freed, repeated or left half done.
THEOREM ExitsRecoverMemory == Spec => []ExitRecoversMemory
<1>1. BooksInv => ExitRecoversMemory
  <2>. SUFFICES ASSUME BooksInv, \A fd \in Fds : ~Open(fd) PROVE gpu_mem_used = 0
    BY DEF ExitRecoversMemory
  <2>1. PICK f : f = [x \in Fds |-> Account(x)]
    OBVIOUS
  <2>2. \A x \in Fds : f[x] = 0
    BY <2>1 DEF Account, BooksInv, MemInv, AccountPerConnection
  <2>3. Accounts = 0
    BY <2>1, <2>2, AccountsType, SumZero DEF Accounts, SumFunction, BooksInv
  <2>4. gpu_mem_used \in Word /\ 0 \in Word /\ Cong(gpu_mem_used, 0)
    BY <2>3, WordArithmetic DEF BooksInv, MemInv, ConnType
  <2>. QED  BY <2>4, CongUnique
<1>. QED  BY <1>1, InitBooks, NextBooks, PTL DEF Spec

-----------------------------------------------------------------------------
(* What the pod manager has booked for a process and what its hook has     *)
(* recorded.                                                               *)

Mine(p, fd) == Open(fd) /\ conn[fd].owner = p

\* The part of an account that is p's, and what p has in all its accounts.
Share(p, fd) == IF Mine(p, fd) THEN Account(fd) ELSE 0
Owned(p) == SumFunction([fd \in Fds |-> Share(p, fd)])

\* Booked but not yet recorded: the reply is on its way.
InFlight(p) ==
    IF proc[p].pc = "accounting" /\ conn[proc[p].fd].reply = 1 THEN proc[p].size
    ELSE IF proc[p].pc = "freeing" /\ conn[proc[p].fd].reply # NONE THEN 0 - proc[p].size
    ELSE 0

Unrepeated(p) == \A fd \in Fds : Mine(p, fd) => ~conn[fd].repeated

\* A request that was sent once is unread or answered while its process waits,
\* and nothing is left of it afterwards.
SentOnce(p) ==
    \A fd \in Fds : Mine(p, fd) /\ ~conn[fd].repeated =>
        IF proc[p].pc \in Waiting /\ proc[p].fd = fd
        THEN \/ /\ conn[fd].unread = <<[req |-> RequestOf[proc[p].pc], size |-> proc[p].size]>>
                /\ conn[fd].reply = NONE
             \/ /\ conn[fd].unread = <<>> /\ conn[fd].reply # NONE
                /\ proc[p].pc = "accounting" => conn[fd].reply \in {0, 1}
        ELSE conn[fd].unread = <<>>

\* What the hook has recorded is on the device, and the address of the call
\* under way is recorded exactly when it is to be freed.
HookKnows(p) ==
    /\ \A ptr \in Ptrs : hook_map[p][ptr] # 0 => real[p][ptr] # 0
    /\ proc[p].pc \notin {"idle", "dead"} => proc[p].ptr \in Ptrs
    /\ proc[p].pc \in {"checking", "checked", "accounting", "release"} =>
          hook_map[p][proc[p].ptr] = 0
    /\ proc[p].pc \in {"checking", "checked"} => proc[p].size # 0
    /\ proc[p].pc = "accounting" => real[p][proc[p].ptr] # 0
    /\ proc[p].pc = "freeing" => proc[p].size = hook_map[p][proc[p].ptr]
    /\ proc[p].pc = "dead" =>
          hook_map[p] = Nothing /\ \A fd \in Fds : ~Mine(p, fd)

Balanced(p) ==
    Unrepeated(p) => Cong(Owned(p), SumFunction(hook_map[p]) + InFlight(p))

ProcInv(p) == SentOnce(p) /\ HookKnows(p) /\ Balanced(p)

\* Sums over the addresses of a process.
LEMMA MapSum ==
  ASSUME NEW m \in [Ptrs -> Word]
  PROVE  /\ SumFunction(m) \in Int
         /\ \A ptr \in Ptrs, v \in Word :
               SumFunction([m EXCEPT ![ptr] = v]) = SumFunction(m) + (v - m[ptr])
<1>1. IsFiniteSet(Ptrs) /\ Word \subseteq Int
  BY FiniteAssumption, WordArithmetic
<1>2. PICK k : k = m
  OBVIOUS
<1>3. SumFunction(m) = SumFunctionOnSet(k, Ptrs)
  BY <1>2 DEF SumFunction
<1>4. \A x \in Ptrs : k[x] \in Int
  BY <1>1, <1>2
<1>5. ASSUME NEW ptr \in Ptrs, NEW v \in Word
      PROVE  SumFunction([m EXCEPT ![ptr] = v]) = SumFunction(m) + (v - m[ptr])
  <2>1. PICK n : n = [m EXCEPT ![ptr] = v]
    OBVIOUS
  <2>2. SumFunction(n) = SumFunctionOnSet(n, Ptrs) /\ n[ptr] = v
    BY <2>1 DEF SumFunction
  <2>3. \A y \in Ptrs : k[y] \in Int /\ n[y] \in Int
    BY <1>1, <1>2, <2>1
  <2>4. \A y \in Ptrs : y # ptr => n[y] = k[y]
    BY <1>2, <2>1
  <2>5. SumFunctionOnSet(n, Ptrs) = SumFunctionOnSet(k, Ptrs) + (n[ptr] - k[ptr])
    BY <1>1, <2>3, <2>4, SumChange
  <2>. QED  BY <1>2, <1>3, <2>1, <2>2, <2>5
<1>. QED  BY <1>1, <1>3, <1>4, <1>5, SumType

LEMMA NothingSum == SumFunction(Nothing) = 0
<1>1. \A x \in Ptrs : Nothing[x] = 0
  BY DEF Nothing
<1>2. DOMAIN Nothing = Ptrs
  BY DEF Nothing
<1>. QED  BY <1>1, <1>2, FiniteAssumption, SumZero DEF SumFunction

\* What changes one account changes what its owner has.
LEMMA OwnedStep ==
  ASSUME MemInv, MemInv', NEW p \in Procs, NEW fd \in Fds,
         \A e \in Fds : e # fd => Share(p, e)' = Share(p, e)
  PROVE  /\ Owned(p) \in Int /\ Share(p, fd) \in Int /\ Share(p, fd)' \in Int
         /\ Owned(p)' = Owned(p) + (Share(p, fd)' - Share(p, fd))
<1>1. PICK f : f = [x \in Fds |-> Share(p, x)]
  OBVIOUS
<1>2. PICK g : g = [x \in Fds |-> Share(p, x)']
  OBVIOUS
<1>3. Owned(p) = SumFunctionOnSet(f, Fds)
  BY <1>1 DEF Owned, SumFunction
<1>4. Owned(p)' = SumFunctionOnSet(g, Fds)
  BY <1>2 DEF Owned, SumFunction
<1>5. \A y \in Fds : f[y] \in Int /\ g[y] \in Int
  <2>1. \A y \in Fds : Account(y)' \in Int /\ Account(y) \in Int
    BY AccountType, WordArithmetic DEF Account, MemInv, ConnType
  <2>. QED  BY <1>1, <1>2, <2>1 DEF Share
<1>6. \A y \in Fds : y # fd => g[y] = f[y]
  BY <1>1, <1>2
<1>7. f[fd] = Share(p, fd) /\ g[fd] = Share(p, fd)'
  BY <1>1, <1>2
<1>8. IsFiniteSet(Fds)
  BY AccountsType
<1>9. SumFunctionOnSet(g, Fds) = SumFunctionOnSet(f, Fds) + (g[fd] - f[fd])
  BY <1>5, <1>6, <1>8, SumChange
<1>10. SumFunctionOnSet(f, Fds) \in Int
  BY <1>5, <1>8, SumType
<1>. QED  BY <1>3, <1>4, <1>5, <1>7, <1>9, <1>10

LEMMA OwnedSame ==
  ASSUME NEW p \in Procs, \A e \in Fds : Share(p, e)' = Share(p, e)
  PROVE  Owned(p)' = Owned(p)
BY DEF Owned

LEMMA OwnedType ==
  ASSUME MemInv, NEW p \in Procs
  PROVE  /\ Owned(p) \in Int /\ SumFunction(hook_map[p]) \in Int
         /\ InFlight(p) \in Int
<1>1. PICK f : f = [x \in Fds |-> Share(p, x)]
  OBVIOUS
<1>2. \A x \in Fds : f[x] \in Int
  BY <1>1, AccountType DEF Share
<1>3. Owned(p) = SumFunctionOnSet(f, Fds)
  BY <1>1 DEF Owned, SumFunction
<1>4. hook_map[p] \in [Ptrs -> Word]
  BY DEF MemInv, ConnType
<1>5. proc[p].size \in Int
  BY WordArithmetic DEF MemInv, ConnType, Call
<1>. QED  BY <1>2, <1>3, <1>4, <1>5, AccountsType, SumType, MapSum DEF InFlight

\* A balance that moves by the same amount on both sides.
LEMMA BalanceStep ==
  ASSUME NEW o \in Int, NEW o2 \in Int, NEW r \in Int, NEW r2 \in Int, NEW d \in Int,
         Cong(o, r), Cong(o2, o + d), r2 = r + d
  PROVE  Cong(o2, r2)
<1>1. Cong(o + d, r + d)
  BY CongRefl, CongSum
<1>. QED  BY <1>1, CongTrans

\* A step that leaves a process, its connections and its accounts alone.
Untouched(q) ==
    /\ proc'[q] = proc[q] /\ hook_map'[q] = hook_map[q] /\ real'[q] = real[q]
    /\ \A fd \in Fds : /\ Mine(q, fd)' <=> Mine(q, fd)
                       /\ Mine(q, fd) => /\ conn'[fd] = conn[fd]
                                         /\ allocation_map'[fd] = allocation_map[fd]

LEMMA UntouchedKeeps ==
  ASSUME MemInv, NEW q \in Procs, Untouched(q), ProcInv(q)
  PROVE  ProcInv(q)'
<1>1. \A fd \in Fds : Mine(q, fd)' <=> Mine(q, fd)
  BY DEF Untouched
<1>2. \A fd \in Fds : Mine(q, fd) => conn'[fd] = conn[fd]
  BY DEF Untouched
<1>3. proc'[q] = proc[q] /\ hook_map'[q] = hook_map[q] /\ real'[q] = real[q]
  BY DEF Untouched
<1>4. SentOnce(q)'
  BY <1>1, <1>2, <1>3 DEF ProcInv, SentOnce
<1>5. HookKnows(q)'
  BY <1>1, <1>3 DEF ProcInv, HookKnows
<1>6. Owned(q)' = Owned(q)
  <2>1. \A e \in Fds : Share(q, e)' = Share(q, e)
    BY DEF Untouched, Share, Account
  <2>. QED  BY <2>1, OwnedSame
<1>7. InFlight(q)' = InFlight(q)
  <2>1. CASE proc[q].pc \in Waiting
    <3>1. proc[q].fd \in Fds /\ Mine(q, proc[q].fd)
      BY <2>1 DEF MemInv, ConnType, CallOwnsConnection, Call, Mine
    <3>. QED  BY <1>2, <1>3, <3>1 DEF InFlight
  <2>2. CASE proc[q].pc \notin Waiting
    BY <1>3, <2>2 DEF InFlight, Waiting
  <2>. QED  BY <2>1, <2>2
<1>8. Unrepeated(q)' <=> Unrepeated(q)
  BY <1>1, <1>2 DEF Unrepeated
<1>9. Balanced(q)'
  BY <1>3, <1>6, <1>7, <1>8 DEF ProcInv, Balanced, Cong
<1>. QED  BY <1>4, <1>5, <1>9 DEF ProcInv

\* A new request: an empty account, one unread message, nothing booked yet.
LEMMA CommunicateBalance ==
  ASSUME MemInv, MemInv', NEW p \in Procs, ProcInv(p), NEW call \in Call, call.pc \in Waiting,
         proc[p].pc \in {"idle", "checked"},
         NEW req, req = RequestOf[call.pc], Communicate(p, call, req), hook_map' = hook_map
  PROVE  /\ SentOnce(p)' /\ Balanced(p)'
         /\ proc'[p].pc = call.pc /\ proc'[p].ptr = call.ptr /\ proc'[p].size = call.size
         /\ \A q \in Procs : q # p /\ real'[q] = real[q] => Untouched(q)
<1>1. PICK fd \in Fds :
        /\ IsNextFd(fd)
        /\ conn' = [conn EXCEPT ![fd] =
              [owner |-> p, unread |-> <<[req |-> req, size |-> call.size]>>,
               reply |-> NONE, reclaimed |-> FALSE, repeated |-> FALSE]]
        /\ allocation_map' = [allocation_map EXCEPT ![fd] = IF @ = NONE THEN 0 ELSE @]
        /\ proc' = [proc EXCEPT ![p] = [call EXCEPT !.fd = fd, !.attempt = 1]]
  BY DEF Communicate
<1>2. ~Open(fd) /\ allocation_map[fd] = NONE
  BY <1>1 DEF IsNextFd, MemInv, AccountPerConnection
<1>3. /\ conn'[fd].owner = p /\ conn'[fd].repeated = FALSE /\ conn'[fd].reply = NONE
      /\ conn'[fd].unread = <<[req |-> req, size |-> call.size]>>
      /\ \A e \in Fds : e # fd => conn'[e] = conn[e]
  BY <1>1 DEF MemInv, ConnType
<1>4. Open(fd)'
  <2>1. fd \in Fds /\ allocation_map'[fd] # NONE
    BY <1>1, WordArithmetic DEF MemInv, ConnType
  <2>. QED  BY <2>1 DEF MemInv, AccountPerConnection
<1>5. allocation_map'[fd] = 0 /\ \A e \in Fds : e # fd => allocation_map'[e] = allocation_map[e]
  BY <1>1, <1>2 DEF MemInv, ConnType
<1>6. /\ proc'[p].fd = fd /\ proc'[p].pc = call.pc /\ proc'[p].ptr = call.ptr
      /\ proc'[p].size = call.size
      /\ \A q \in Procs : q # p => proc'[q] = proc[q]
  BY <1>1 DEF MemInv, ConnType, Call
<1>7. SentOnce(p)'
  <2>. SUFFICES ASSUME NEW e \in Fds, Mine(p, e)', ~conn'[e].repeated
                PROVE  IF proc'[p].pc \in Waiting /\ proc'[p].fd = e
                       THEN \/ /\ conn'[e].unread =
                                    <<[req |-> RequestOf[proc'[p].pc], size |-> proc'[p].size]>>
                               /\ conn'[e].reply = NONE
                            \/ /\ conn'[e].unread = <<>> /\ conn'[e].reply # NONE
                               /\ proc'[p].pc = "accounting" => conn'[e].reply \in {0, 1}
                       ELSE conn'[e].unread = <<>>
    BY DEF SentOnce
  <2>1. CASE e = fd
    BY <1>3, <1>6, <2>1
  <2>2. CASE e # fd
    <3>1. conn'[e] = conn[e] /\ Mine(p, e)
      BY <1>3, <2>2 DEF Mine, Open
    <3>2. conn[e].unread = <<>>
      BY <3>1 DEF ProcInv, SentOnce, Waiting
    <3>. QED  BY <1>6, <2>2, <3>1, <3>2
  <2>. QED  BY <2>1, <2>2
<1>8. Owned(p)' = Owned(p)
  <2>1. ASSUME NEW e \in Fds PROVE Share(p, e)' = Share(p, e)
    <3>1. CASE e = fd
      BY <1>2, <1>5, <3>1, WordArithmetic DEF Share, Account, Mine
    <3>2. CASE e # fd
      BY <1>3, <1>5, <3>2 DEF Share, Account, Mine, Open
    <3>. QED  BY <3>1, <3>2
  <2>. QED  BY <2>1, OwnedSame
<1>9. InFlight(p) = 0 /\ InFlight(p)' = 0
  BY <1>3, <1>6, WordArithmetic DEF InFlight
<1>10. Unrepeated(p)' => Unrepeated(p)
  BY <1>2, <1>3 DEF Unrepeated, Mine, Open
<1>11. Balanced(p)'
  BY <1>8, <1>9, <1>10 DEF ProcInv, Balanced, Cong
<1>12. ASSUME NEW q \in Procs, q # p, real'[q] = real[q] PROVE Untouched(q)
  <2>1. \A e \in Fds : Mine(q, e)' <=> Mine(q, e)
    BY <1>2, <1>3, <1>12 DEF Mine, Open
  <2>2. \A e \in Fds : Mine(q, e) => conn'[e] = conn[e] /\ allocation_map'[e] = allocation_map[e]
    BY <1>2, <1>3, <1>5 DEF Mine
  <2>. QED  BY <1>6, <1>12, <2>1, <2>2 DEF Untouched
<1>. QED  BY <1>6, <1>7, <1>11, <1>12

\* A process that takes its reply, or that was not waiting for one.
LEMMA LeaveBalance ==
  ASSUME MemInv, MemInv', NEW p \in Procs, ProcInv(p), NEW call \in Call,
         call.pc \notin Waiting, proc' = [proc EXCEPT ![p] = call],
         allocation_map' = allocation_map,
         \/ proc[p].pc \notin Waiting /\ conn' = conn
         \/ /\ proc[p].pc \in Waiting /\ conn[proc[p].fd].reply # NONE
            /\ conn' = [conn EXCEPT ![proc[p].fd].reply = NONE]
  PROVE  /\ SentOnce(p)' /\ Owned(p)' = Owned(p) /\ InFlight(p)' = 0
         /\ Unrepeated(p)' <=> Unrepeated(p)
         /\ proc'[p] = call /\ \A fd \in Fds : Mine(p, fd)' <=> Mine(p, fd)
         /\ \A q \in Procs : q # p /\ real'[q] = real[q] /\ hook_map'[q] = hook_map[q] => Untouched(q)
<1>1. proc'[p] = call /\ \A q \in Procs : q # p => proc'[q] = proc[q]
  BY DEF MemInv, ConnType
<1>2. ASSUME NEW fd \in Fds
      PROVE  /\ Open(fd)' <=> Open(fd)
             /\ Open(fd) => /\ conn'[fd].owner = conn[fd].owner
                            /\ conn'[fd].unread = conn[fd].unread
                            /\ conn'[fd].repeated = conn[fd].repeated
             /\ ~Mine(p, fd) => conn'[fd] = conn[fd]
  <2>1. CASE conn' = conn
    BY <2>1 DEF Open
  <2>2. CASE /\ proc[p].pc \in Waiting
             /\ conn' = [conn EXCEPT ![proc[p].fd].reply = NONE]
    <3>1. proc[p].fd \in Fds /\ Mine(p, proc[p].fd) /\ Open(proc[p].fd)
      BY <2>2 DEF MemInv, CallOwnsConnection, ConnType, Call, Mine
    <3>2. CASE fd # proc[p].fd
      BY <2>2, <3>2 DEF MemInv, ConnType, Open
    <3>3. CASE fd = proc[p].fd
      <4>1. conn[fd] \in Connection
        BY <3>1, <3>3, OpenType DEF MemInv
      <4>2. conn'[fd] = [conn[fd] EXCEPT !.reply = NONE]
        BY <2>2, <3>1, <3>3 DEF MemInv, ConnType
      <4>3. conn'[fd] \in Connection
        BY <4>1, <4>2 DEF Connection
      <4>. QED  BY <3>1, <3>3, <4>1, <4>2, <4>3, NoneAssumption DEF Open, Connection
    <3>. QED  BY <3>2, <3>3
  <2>. QED  BY <2>1, <2>2
<1>3. \A fd \in Fds, q \in Procs : Mine(q, fd)' <=> Mine(q, fd)
  BY <1>2 DEF Mine
<1>4. SentOnce(p)'
  <2>. SUFFICES ASSUME NEW e \in Fds, Mine(p, e)', ~conn'[e].repeated
                PROVE  conn'[e].unread = <<>>
    BY <1>1 DEF SentOnce
  <2>1. Mine(p, e) /\ Open(e) /\ ~conn[e].repeated /\ conn'[e].unread = conn[e].unread
    BY <1>2, <1>3 DEF Mine
  <2>2. conn[e].unread = <<>>
    BY <2>1 DEF ProcInv, SentOnce
  <2>. QED  BY <2>1, <2>2
<1>5. Owned(p)' = Owned(p)
  <2>1. \A e \in Fds : Share(p, e)' = Share(p, e)
    BY <1>3 DEF Share, Account
  <2>. QED  BY <2>1, OwnedSame
<1>6. InFlight(p)' = 0
  BY <1>1 DEF InFlight, Waiting
<1>7. Unrepeated(p)' <=> Unrepeated(p)
  BY <1>2, <1>3 DEF Unrepeated, Mine
<1>8. ASSUME NEW q \in Procs, q # p, real'[q] = real[q], hook_map'[q] = hook_map[q]
      PROVE  Untouched(q)
  <2>1. \A e \in Fds : Mine(q, e) => conn'[e] = conn[e]
    BY <1>2, <1>8 DEF Mine
  <2>. QED  BY <1>1, <1>3, <1>8, <2>1 DEF Untouched
<1>. QED  BY <1>1, <1>3, <1>4, <1>5, <1>6, <1>7, <1>8

RealType == real \in [Procs -> [Ptrs -> Word]]
QuietInv == BooksInv /\ RealType /\ \A p \in Procs : ProcInv(p)

\* The calls: what a reply brings is recorded, and only then.
LEMMA ProcessBalance ==
  ASSUME QuietInv, MemInv', NEW p \in Procs, Process(p), ~Retry(p), ~Exit(p)
  PROVE  \A q \in Procs : ProcInv(q)'
<1>0. /\ MemInv /\ RealType /\ (\A q \in Procs : ProcInv(q))
      /\ proc[p] \in Call /\ proc[p].size \in Word /\ proc[p].ptr \in Ptrs \cup {NONE}
      /\ hook_map \in [Procs -> [Ptrs -> Word]] /\ hook_map[p] \in [Ptrs -> Word]
      /\ real \in [Procs -> [Ptrs -> Word]] /\ real[p] \in [Ptrs -> Word]
  BY DEF QuietInv, BooksInv, MemInv, ConnType, Call, RealType
<1>k. HookKnows(p) /\ Balanced(p) /\ ProcInv(p)
  BY <1>0 DEF ProcInv
<1>t. Owned(p) \in Int /\ SumFunction(hook_map[p]) \in Int /\ InFlight(p) \in Int
  BY <1>0, OwnedType
<1>e. ASSUME ProcInv(p)', \A q \in Procs : q # p => Untouched(q)
      PROVE  \A q \in Procs : ProcInv(q)'
  <2>. SUFFICES ASSUME NEW q \in Procs PROVE ProcInv(q)'
    OBVIOUS
  <2>1. CASE q = p
    BY <1>e, <2>1
  <2>2. CASE q # p
    BY <1>0, <1>e, <2>2, UntouchedKeeps
  <2>. QED  BY <2>1, <2>2
<1>1. ASSUME NEW ptr \in Ptrs, NEW size \in Sizes, CallAlloc(p, ptr, size)
      PROVE  \A q \in Procs : ProcInv(q)'
  <2>1. size \in Word /\ size # 0
    BY SizeAssumption
  <2>2. PICK call \in Call :
          call = [Idle EXCEPT !.pc = "checking", !.ptr = ptr, !.size = size]
    BY <2>1 DEF Idle, Call, Waiting
  <2>3. call.pc = "checking" /\ call.ptr = ptr /\ call.size = size /\ call.pc \in Waiting
    BY <2>2 DEF Idle, Waiting
  <2>4. /\ proc[p].pc = "idle" /\ real[p][ptr] = 0 /\ hook_map' = hook_map /\ real' = real
        /\ Communicate(p, call, "limit") /\ "limit" = RequestOf[call.pc]
    BY <1>1, <2>2, <2>3 DEF CallAlloc, RequestOf
  <2>5. PICK req : req = "limit"
    OBVIOUS
  <2>6. /\ SentOnce(p)' /\ Balanced(p)'
        /\ proc'[p].pc = call.pc /\ proc'[p].ptr = call.ptr /\ proc'[p].size = call.size
        /\ \A q \in Procs : q # p /\ real'[q] = real[q] => Untouched(q)
    BY <1>0, <2>3, <2>4, <2>5, CommunicateBalance
  <2>7. HookKnows(p)'
    BY <1>k, <2>1, <2>3, <2>4, <2>6 DEF HookKnows
  <2>. QED  BY <1>e, <2>4, <2>6, <2>7 DEF ProcInv
<1>2. ASSUME NEW ptr \in Ptrs, CallFree(p, ptr)
      PROVE  \A q \in Procs : ProcInv(q)'
  <2>1. PICK size \in Word : size = hook_map[p][ptr]
    BY <1>0
  <2>2. PICK call \in Call :
          call = [Idle EXCEPT !.pc = "freeing", !.ptr = ptr, !.size = hook_map[p][ptr]]
    BY <2>1 DEF Idle, Call, Waiting
  <2>3. call.pc = "freeing" /\ call.ptr = ptr /\ call.size = size /\ call.pc \in Waiting
    BY <2>1, <2>2 DEF Idle, Waiting
  <2>4. /\ proc[p].pc = "idle" /\ hook_map' = hook_map /\ real' = real
        /\ Communicate(p, call, "free") /\ "free" = RequestOf[call.pc]
    BY <1>2, <2>2, <2>3 DEF CallFree, RequestOf
  <2>5. PICK req : req = "free"
    OBVIOUS
  <2>6. /\ SentOnce(p)' /\ Balanced(p)'
        /\ proc'[p].pc = call.pc /\ proc'[p].ptr = call.ptr /\ proc'[p].size = call.size
        /\ \A q \in Procs : q # p /\ real'[q] = real[q] => Untouched(q)
    BY <1>0, <2>3, <2>4, <2>5, CommunicateBalance
  <2>7. HookKnows(p)'
    BY <1>k, <2>1, <2>3, <2>4, <2>6 DEF HookKnows
  <2>. QED  BY <1>e, <2>4, <2>6, <2>7 DEF ProcInv
<1>3. CASE DeviceAllocates(p)
  <2>1. PICK call \in Call : call = [proc[p] EXCEPT !.pc = "accounting"]
    BY <1>0 DEF Call, Waiting
  <2>2. call.pc = "accounting" /\ call.ptr = proc[p].ptr /\ call.size = proc[p].size
        /\ call.pc \in Waiting
    BY <1>0, <2>1 DEF Call, Waiting
  <2>3. /\ proc[p].pc = "checked" /\ hook_map' = hook_map
        /\ real' = [real EXCEPT ![p][proc[p].ptr] = proc[p].size]
        /\ Communicate(p, call, "alloc") /\ "alloc" = RequestOf[call.pc]
    BY <1>3, <2>1, <2>2 DEF DeviceAllocates, RequestOf
  <2>4. PICK req : req = "alloc"
    OBVIOUS
  <2>5. /\ SentOnce(p)' /\ Balanced(p)'
        /\ proc'[p].pc = call.pc /\ proc'[p].ptr = call.ptr /\ proc'[p].size = call.size
        /\ \A q \in Procs : q # p /\ real'[q] = real[q] => Untouched(q)
    BY <1>0, <2>2, <2>3, <2>4, CommunicateBalance
  <2>6. proc[p].ptr \in Ptrs /\ hook_map[p][proc[p].ptr] = 0 /\ proc[p].size # 0
    BY <1>k, <2>3 DEF HookKnows
  <2>7. /\ real'[p][proc[p].ptr] = proc[p].size
        /\ \A x \in Ptrs : x # proc[p].ptr => real'[p][x] = real[p][x]
        /\ \A q \in Procs : q # p => real'[q] = real[q]
    BY <1>0, <2>3, <2>6
  <2>8. HookKnows(p)'
    BY <1>k, <2>2, <2>3, <2>5, <2>6, <2>7 DEF HookKnows
  <2>. QED  BY <1>e, <2>5, <2>7, <2>8 DEF ProcInv
<1>l. ASSUME NEW call \in Call, call.pc \in {"idle", "checked", "release"},
             proc' = [proc EXCEPT ![p] = call],
             allocation_map' = allocation_map,
             \/ proc[p].pc \notin Waiting /\ conn' = conn
             \/ /\ proc[p].pc \in Waiting /\ conn[proc[p].fd].reply # NONE
                /\ conn' = [conn EXCEPT ![proc[p].fd].reply = NONE],
             \A q \in Procs : q # p => real'[q] = real[q] /\ hook_map'[q] = hook_map[q],
             \/ hook_map'[p] = hook_map[p] /\ InFlight(p) = 0
             \/ Unrepeated(p) =>
                  SumFunction(hook_map'[p]) = SumFunction(hook_map[p]) + InFlight(p),
             HookKnows(p)'
      PROVE  \A q \in Procs : ProcInv(q)'
  <2>1. call.pc \notin Waiting
    BY <1>l DEF Waiting
  <2>2. /\ SentOnce(p)' /\ Owned(p)' = Owned(p) /\ InFlight(p)' = 0
        /\ Unrepeated(p)' <=> Unrepeated(p)
        /\ \A q \in Procs : q # p /\ real'[q] = real[q] /\ hook_map'[q] = hook_map[q] => Untouched(q)
    BY <1>0, <1>l, <2>1, LeaveBalance
  <2>3. ASSUME Unrepeated(p)
        PROVE  SumFunction(hook_map[p])' + InFlight(p)' = SumFunction(hook_map[p]) + InFlight(p)
    BY <1>l, <1>t, <2>2, <2>3
  <2>4. Balanced(p)'
    BY <1>k, <2>2, <2>3 DEF Balanced, Cong
  <2>. QED  BY <1>e, <1>l, <2>2, <2>4 DEF ProcInv
<1>z. proc[p].pc \notin {"accounting", "freeing"} => InFlight(p) = 0
  BY DEF InFlight
<1>4. ASSUME NEW ptr \in Ptrs, CallFreeUnknown(p, ptr)
      PROVE  \A q \in Procs : ProcInv(q)'
  <2>1. PICK call \in Call : call = [Idle EXCEPT !.pc = "release", !.ptr = ptr]
    BY WordArithmetic DEF Idle, Call, Waiting
  <2>2. call.pc = "release" /\ call.ptr = ptr
    BY <2>1 DEF Idle
  <2>3. /\ proc[p].pc = "idle" /\ hook_map[p][ptr] = 0 /\ proc' = [proc EXCEPT ![p] = call]
        /\ UNCHANGED <<allocation_map, conn, hook_map, real>>
    BY <1>4, <2>1 DEF CallFreeUnknown
  <2>4. proc'[p] = call
    BY <2>3 DEF MemInv, ConnType
  <2>5. HookKnows(p)'
    BY <1>k, <2>2, <2>3, <2>4 DEF HookKnows
  <2>. QED  BY <1>l, <1>z, <2>2, <2>3, <2>5 DEF Waiting
<1>i. ASSUME proc' = [proc EXCEPT ![p] = Idle]
      PROVE  proc'[p].pc = "idle"
  BY <1>i DEF MemInv, ConnType, Idle
<1>ic. Idle \in Call /\ Idle.pc = "idle"
  BY IdleType DEF Idle
<1>5. CASE CheckRemain(p) \/ CheckPitch(p) \/ ReportMemory(p)
  <2>1. proc[p].pc = "checking" /\ proc[p].pc \in Waiting /\ conn[proc[p].fd].reply # NONE
    BY <1>5 DEF CheckRemain, CheckPitch, ReportMemory, Replied, Waiting
  <2>2. PICK checked \in Call :
          checked = [proc[p] EXCEPT !.pc = "checked", !.fd = NONE, !.attempt = 0]
    BY <1>0 DEF Call
  <2>3. checked.pc = "checked" /\ checked.ptr = proc[p].ptr /\ checked.size = proc[p].size
    BY <1>0, <2>2 DEF Call
  <2>4. PICK call \in {Idle, checked} : proc' = [proc EXCEPT ![p] = call]
    BY <1>5, <2>2 DEF CheckRemain, CheckPitch, ReportMemory
  <2>5. call \in Call /\ call.pc \in {"idle", "checked"} /\ proc'[p] = call
    BY <2>3, <2>4, <1>ic DEF MemInv, ConnType
  <2>6. /\ conn' = [conn EXCEPT ![proc[p].fd].reply = NONE]
        /\ allocation_map' = allocation_map /\ hook_map' = hook_map /\ real' = real
    BY <1>5 DEF CheckRemain, CheckPitch, ReportMemory
  <2>7. HookKnows(p)'
    BY <1>k, <1>ic, <2>1, <2>3, <2>4, <2>5, <2>6 DEF HookKnows
  <2>. QED  BY <1>l, <1>z, <2>1, <2>4, <2>5, <2>6, <2>7
<1>6. CASE DeviceRefuses(p) \/ Start(p)
  <2>1. /\ proc[p].pc \in {"checked", "dead"} /\ proc' = [proc EXCEPT ![p] = Idle]
        /\ UNCHANGED <<allocation_map, conn, hook_map, real>>
    BY <1>6 DEF DeviceRefuses, Start
  <2>2. HookKnows(p)'
    BY <1>k, <1>i, <2>1 DEF HookKnows
  <2>. QED  BY <1>l, <1>z, <1>ic, <2>1, <2>2 DEF Waiting
<1>7. CASE DeviceFrees(p)
  <2>1. /\ proc[p].pc = "release" /\ proc' = [proc EXCEPT ![p] = Idle]
        /\ UNCHANGED <<allocation_map, conn, hook_map>>
        /\ real' = [real EXCEPT ![p][proc[p].ptr] = 0]
    BY <1>7 DEF DeviceFrees
  <2>2. proc[p].ptr \in Ptrs /\ hook_map[p][proc[p].ptr] = 0
    BY <1>k, <2>1 DEF HookKnows
  <2>3. /\ \A x \in Ptrs : x # proc[p].ptr => real'[p][x] = real[p][x]
        /\ \A q \in Procs : q # p => real'[q] = real[q]
    BY <1>0, <2>1, <2>2
  <2>4. HookKnows(p)'
    BY <1>k, <1>i, <2>1, <2>2, <2>3 DEF HookKnows
  <2>. QED  BY <1>l, <1>z, <1>ic, <2>1, <2>3, <2>4 DEF Waiting
<1>8. ASSUME NEW ptr \in Ptrs, NEW size \in Sizes, AllocUnhooked(p, ptr, size)
      PROVE  \A q \in Procs : ProcInv(q)'
  <2>1. /\ proc[p].pc = "idle" /\ UNCHANGED <<allocation_map, conn, hook_map, proc>>
        /\ real' = [real EXCEPT ![p][ptr] = size] /\ size # 0
    BY <1>8, SizeAssumption DEF AllocUnhooked
  <2>2. /\ real'[p][ptr] = size
        /\ \A x \in Ptrs : x # ptr => real'[p][x] = real[p][x]
        /\ \A q \in Procs : q # p => real'[q] = real[q]
    BY <1>0, <2>1
  <2>3. HookKnows(p)'
    BY <1>k, <2>1, <2>2 DEF HookKnows
  <2>4. \A q \in Procs : q # p => Untouched(q)
    BY <2>1, <2>2 DEF Untouched, Mine, Open
  <2>5. SentOnce(p)' /\ Balanced(p)'
    BY <1>0, <2>1 DEF ProcInv, SentOnce, Balanced, Mine, Open, Unrepeated, Owned, Share,
       Account, InFlight, Cong
  <2>. QED  BY <1>e, <2>3, <2>4, <2>5 DEF ProcInv
<1>9. CASE RecordAlloc(p)
  <2>1. /\ proc[p].pc = "accounting" /\ conn[proc[p].fd].reply # NONE
        /\ proc' = [proc EXCEPT ![p] = Idle]
        /\ conn' = [conn EXCEPT ![proc[p].fd].reply = NONE]
        /\ allocation_map' = allocation_map /\ real' = real
        /\ hook_map' = IF conn[proc[p].fd].reply = 0 THEN hook_map
                       ELSE [hook_map EXCEPT ![p][proc[p].ptr] = proc[p].size]
    BY <1>9 DEF RecordAlloc, Replied, Verdict
  <2>2. proc[p].fd \in Fds /\ Mine(p, proc[p].fd)
    BY <1>0, <2>1 DEF MemInv, ConnType, CallOwnsConnection, Call, Mine, Waiting
  <2>3. /\ proc[p].ptr \in Ptrs /\ hook_map[p][proc[p].ptr] = 0
        /\ real[p][proc[p].ptr] # 0
    BY <1>k, <2>1 DEF HookKnows
  <2>4. /\ \A x \in Ptrs : x # proc[p].ptr => hook_map'[p][x] = hook_map[p][x]
        /\ \A q \in Procs : q # p => hook_map'[q] = hook_map[q]
    BY <1>0, <2>1, <2>3
  <2>5. HookKnows(p)'
    BY <1>k, <1>i, <2>1, <2>3, <2>4 DEF HookKnows
  <2>6. ASSUME Unrepeated(p)
        PROVE  SumFunction(hook_map'[p]) = SumFunction(hook_map[p]) + InFlight(p)
    <3>1. ~conn[proc[p].fd].repeated
      BY <2>2, <2>6 DEF Unrepeated
    <3>2. conn[proc[p].fd].reply \in {0, 1}
      BY <1>0, <2>1, <2>2, <3>1 DEF ProcInv, SentOnce, Waiting
    <3>3. CASE conn[proc[p].fd].reply = 0
      BY <1>t, <2>1, <3>3 DEF InFlight
    <3>4. CASE conn[proc[p].fd].reply = 1
      <4>1. InFlight(p) = proc[p].size
        BY <2>1, <3>4 DEF InFlight
      <4>2. PICK m \in [Ptrs -> Word] : m = hook_map[p]
        BY <1>0
      <4>3. hook_map'[p] = [m EXCEPT ![proc[p].ptr] = proc[p].size]
        BY <1>0, <2>1, <3>4, <4>2
      <4>4. SumFunction([m EXCEPT ![proc[p].ptr] = proc[p].size])
            = SumFunction(m) + (proc[p].size - m[proc[p].ptr])
        BY <1>0, <2>3, MapSum
      <4>5. m[proc[p].ptr] = 0 /\ proc[p].size \in Int
        BY <1>0, <2>3, <4>2, WordArithmetic
      <4>. QED  BY <1>t, <4>1, <4>2, <4>3, <4>4, <4>5
    <3>. QED  BY <3>2, <3>3, <3>4
  <2>. QED  BY <1>l, <1>ic, <2>1, <2>4, <2>5, <2>6 DEF Waiting
<1>10. CASE RecordFree(p)
  <2>1. PICK call \in Call : call = [Idle EXCEPT !.pc = "release", !.ptr = proc[p].ptr]
    BY <1>0, WordArithmetic DEF Idle, Call, Waiting
  <2>2. call.pc = "release" /\ call.ptr = proc[p].ptr
    BY <2>1 DEF Idle
  <2>3. /\ proc[p].pc = "freeing" /\ conn[proc[p].fd].reply # NONE
        /\ proc' = [proc EXCEPT ![p] = call]
        /\ conn' = [conn EXCEPT ![proc[p].fd].reply = NONE]
        /\ allocation_map' = allocation_map /\ real' = real
        /\ hook_map' = [hook_map EXCEPT ![p][proc[p].ptr] = 0]
    BY <1>10, <2>1 DEF RecordFree, Replied
  <2>4. proc[p].ptr \in Ptrs /\ hook_map[p][proc[p].ptr] = proc[p].size
    BY <1>k, <2>3 DEF HookKnows
  <2>5. /\ \A x \in Ptrs : x # proc[p].ptr => hook_map'[p][x] = hook_map[p][x]
        /\ hook_map'[p][proc[p].ptr] = 0
        /\ \A q \in Procs : q # p => hook_map'[q] = hook_map[q]
        /\ proc'[p] = call
    BY <1>0, <2>3, <2>4 DEF MemInv, ConnType
  <2>6. HookKnows(p)'
    BY <1>k, <2>2, <2>3, <2>4, <2>5 DEF HookKnows
  <2>7. SumFunction(hook_map'[p]) = SumFunction(hook_map[p]) + InFlight(p)
    <3>1. InFlight(p) = 0 - proc[p].size
      BY <2>3 DEF InFlight
    <3>2. PICK m \in [Ptrs -> Word] : m = hook_map[p]
      BY <1>0
    <3>3. hook_map'[p] = [m EXCEPT ![proc[p].ptr] = 0] /\ 0 \in Word
      BY <1>0, <2>3, <3>2, WordArithmetic
    <3>4. SumFunction([m EXCEPT ![proc[p].ptr] = 0]) = SumFunction(m) + (0 - m[proc[p].ptr])
      BY <2>4, <3>3, MapSum
    <3>5. m[proc[p].ptr] = proc[p].size /\ proc[p].size \in Int
      BY <1>0, <2>4, <3>2, WordArithmetic
    <3>. QED  BY <1>t, <3>1, <3>2, <3>3, <3>4, <3>5
  <2>. QED  BY <1>l, <2>2, <2>3, <2>5, <2>6, <2>7 DEF Waiting
<1>. QED
  BY <1>1, <1>2, <1>3, <1>4, <1>5, <1>6, <1>7, <1>8, <1>9, <1>10 DEF Process

\* A repeated request may be booked twice: from here on nothing is said about
\* what its process owns, until the process ends.
LEMMA RetryBalance ==
  ASSUME QuietInv, MemInv', NEW p \in Procs, Retry(p)
  PROVE  \A q \in Procs : ProcInv(q)'
<1>0. MemInv /\ \A q \in Procs : ProcInv(q)
  BY DEF QuietInv, BooksInv
<1>1. PICK fd \in Fds : fd = proc[p].fd /\ Mine(p, fd)
  BY <1>0 DEF Retry, MemInv, CallOwnsConnection, ConnType, Call, Mine
<1>2. conn[fd] \in Connection /\ conn[fd].unread \in Seq(Message)
  BY <1>0, <1>1, OpenType DEF MemInv, Mine
<1>3. PICK m : m = [req |-> RequestOf[proc[p].pc], size |-> proc[p].size]
  OBVIOUS
<1>4. PICK k : k = Repeated(conn[fd], m)
  OBVIOUS
<1>5. k.owner = conn[fd].owner /\ k.repeated = TRUE
  BY <1>2, <1>4 DEF Repeated, Connection
<1>6. conn' = [conn EXCEPT ![fd] = k] /\ allocation_map' = allocation_map
      /\ hook_map' = hook_map /\ real' = real
  BY <1>1, <1>3, <1>4 DEF Retry
<1>7. conn'[fd] = k /\ \A e \in Fds : e # fd => conn'[e] = conn[e]
  BY <1>0, <1>6 DEF MemInv, ConnType
<1>8. Open(fd)'
  <2>1. allocation_map'[fd] # NONE
    BY <1>0, <1>1, <1>6, NoneAssumption
       DEF MemInv, AccountPerConnection, CallOwnsConnection, Mine
  <2>. QED  BY <2>1 DEF MemInv, AccountPerConnection
<1>9. \A q \in Procs, e \in Fds : Mine(q, e)' <=> Mine(q, e)
  BY <1>1, <1>5, <1>7, <1>8 DEF Mine, Open
<1>10. proc' = [proc EXCEPT ![p].attempt = @ + 1]
  BY DEF Retry
<1>11. /\ proc'[p].pc = proc[p].pc /\ proc'[p].ptr = proc[p].ptr
       /\ proc'[p].size = proc[p].size /\ proc'[p].fd = proc[p].fd
       /\ \A q \in Procs : q # p => proc'[q] = proc[q]
  <2>1. proc[p] \in Call
    BY <1>0 DEF MemInv, ConnType
  <2>2. PICK call : call = [proc[p] EXCEPT !.attempt = @ + 1]
    OBVIOUS
  <2>3. call.fd = proc[p].fd /\ call.pc = proc[p].pc /\ call.ptr = proc[p].ptr
        /\ call.size = proc[p].size
    BY <2>1, <2>2 DEF Call
  <2>4. proc' = [proc EXCEPT ![p] = call]
    BY <1>10, <2>2
  <2>. QED  BY <1>0, <2>3, <2>4 DEF MemInv, ConnType
<1>12. ProcInv(p)'
  <2>1. SentOnce(p)'
    BY <1>0, <1>5, <1>7, <1>9, <1>11 DEF ProcInv, SentOnce
  <2>2. HookKnows(p)'
    BY <1>0, <1>6, <1>9, <1>11 DEF ProcInv, HookKnows
  <2>3. ~Unrepeated(p)'
    BY <1>1, <1>5, <1>7, <1>9 DEF Unrepeated
  <2>. QED  BY <2>1, <2>2, <2>3 DEF ProcInv, Balanced
<1>13. ASSUME NEW q \in Procs, q # p PROVE ProcInv(q)'
  <2>1. ~Mine(q, fd)
    BY <1>1, <1>13 DEF Mine
  <2>2. Untouched(q)
    BY <1>6, <1>7, <1>9, <1>11, <1>13, <2>1 DEF Untouched
  <2>. QED  BY <1>0, <2>2, UntouchedKeeps
<1>. QED  BY <1>12, <1>13

\* A process that ends owns nothing and has recorded nothing.
LEMMA ExitBalance ==
  ASSUME QuietInv, MemInv', NEW p \in Procs, Exit(p)
  PROVE  \A q \in Procs : ProcInv(q)'
<1>0. MemInv /\ RealType /\ \A q \in Procs : ProcInv(q)
  BY DEF QuietInv, BooksInv
<1>1. conn' = [fd \in Fds |-> IF Open(fd) /\ conn[fd].owner = p
                              THEN [conn[fd] EXCEPT !.owner = NONE, !.reply = NONE]
                              ELSE conn[fd]]
  BY DEF Exit
<1>2. ASSUME NEW fd \in Fds
      PROVE  IF Mine(p, fd) THEN conn'[fd].owner = NONE ELSE conn'[fd] = conn[fd]
  <2>1. CASE Mine(p, fd)
    <3>1. conn[fd] \in Connection
      BY <1>0, <2>1, OpenType DEF MemInv, Mine
    <3>2. conn'[fd] = [conn[fd] EXCEPT !.owner = NONE, !.reply = NONE]
      BY <1>1, <2>1 DEF Mine
    <3>. QED  BY <2>1, <3>1, <3>2 DEF Connection
  <2>2. CASE ~Mine(p, fd)
    BY <1>1, <2>2 DEF Mine
  <2>. QED  BY <2>1, <2>2
<1>3. \A fd \in Fds : ~Mine(p, fd)'
  BY <1>2, NoneAssumption DEF Mine, Open
<1>4. /\ proc'[p].pc = "dead" /\ hook_map'[p] = Nothing /\ real'[p] = Nothing
      /\ \A q \in Procs : q # p => /\ proc'[q] = proc[q] /\ hook_map'[q] = hook_map[q]
                                   /\ real'[q] = real[q]
  BY <1>0 DEF Exit, MemInv, ConnType, RealType, Dead, Idle
<1>5. ProcInv(p)'
  <2>1. SentOnce(p)' /\ HookKnows(p)'
    BY <1>3, <1>4 DEF SentOnce, HookKnows, Nothing
  <2>2. PICK g : g = [x \in Fds |-> Share(p, x)']
    OBVIOUS
  <2>3. \A x \in Fds : g[x] = 0
    BY <1>3, <2>2 DEF Share
  <2>4. Owned(p)' = SumFunctionOnSet(g, Fds)
    BY <2>2 DEF Owned, SumFunction
  <2>5. Owned(p)' = 0
    BY <1>0, <2>3, <2>4, AccountsType, SumZero
  <2>6. InFlight(p)' = 0 /\ SumFunction(hook_map[p])' = 0
    BY <1>4, NothingSum DEF InFlight
  <2>7. 0 + 0 = 0 /\ Cong(0, 0)
    BY CongRefl
  <2>8. Balanced(p)'
    BY <2>5, <2>6, <2>7 DEF Balanced, Cong
  <2>. QED  BY <2>1, <2>8 DEF ProcInv
<1>6. ASSUME NEW q \in Procs, q # p PROVE ProcInv(q)'
  <2>1. \A fd \in Fds : Mine(q, fd)' <=> Mine(q, fd)
    BY <1>2, <1>6, NoneAssumption DEF Mine, Open
  <2>2. \A fd \in Fds : Mine(q, fd) => conn'[fd] = conn[fd]
    BY <1>2, <1>6 DEF Mine
  <2>3. allocation_map' = allocation_map
    BY DEF Exit
  <2>4. Untouched(q)
    BY <1>4, <1>6, <2>1, <2>2, <2>3 DEF Untouched
  <2>. QED  BY <1>0, <2>4, UntouchedKeeps
<1>. QED  BY <1>5, <1>6

\* The account a handler or a reclaim touches is one process's at most.
LEMMA HandlerBalance ==
  ASSUME QuietInv, MemInv', NEW fd \in Fds,
         HandleMemLimit(fd) \/ HandleAlloc(fd) \/ HandleFree(fd)
  PROVE  \A q \in Procs : ProcInv(q)'
<1>0. MemInv /\ \A q \in Procs : ProcInv(q)
  BY DEF QuietInv, BooksInv
<1>1. Open(fd) /\ conn[fd].unread # <<>>
  BY DEF HandleMemLimit, HandleAlloc, HandleFree, Received
<1>2. /\ conn[fd] \in Connection /\ conn[fd].unread \in Seq(Message)
  BY <1>0, <1>1, OpenType DEF MemInv
<1>3. PICK value \in Word :
        Reply(fd, value) /\ (Head(conn[fd].unread).req = "alloc" => value \in {0, 1})
  BY <1>0, WordArithmetic
     DEF HandleMemLimit, HandleAlloc, HandleFree, Received, MemInv, ConnType
<1>4. proc' = proc /\ hook_map' = hook_map /\ real' = real
  BY DEF HandleMemLimit, HandleAlloc, HandleFree
<1>5. PICK r : r = IF conn[fd].owner # NONE /\ proc[conn[fd].owner].fd = fd /\ conn[fd].reply = NONE
                   THEN value ELSE conn[fd].reply
  OBVIOUS
<1>6. PICK k : k = [conn[fd] EXCEPT !.unread = Tail(conn[fd].unread), !.reply = r]
  OBVIOUS
<1>7. conn' = [conn EXCEPT ![fd] = k]
  <2>1. conn' = [conn EXCEPT
           ![fd].unread = Tail(@),
           ![fd].reply = IF conn[fd].owner # NONE /\ proc[conn[fd].owner].fd = fd /\ @ = NONE
                         THEN value ELSE @]
    BY <1>3 DEF Reply
  <2>2. PICK u : u = Tail(conn[fd].unread)
    OBVIOUS
  <2>3. conn[fd].reply = [conn[fd] EXCEPT !.unread = u].reply
    BY <1>2 DEF Connection
  <2>. QED  BY <1>0, <1>2, <1>5, <1>6, <2>1, <2>2, <2>3 DEF MemInv, ConnType, Connection
<1>8. /\ conn'[fd] = k /\ \A e \in Fds : e # fd => conn'[e] = conn[e]
  BY <1>0, <1>7 DEF MemInv, ConnType
<1>9. /\ k.owner = conn[fd].owner /\ k.repeated = conn[fd].repeated
      /\ k.unread = Tail(conn[fd].unread) /\ k.reply = r
  BY <1>2, <1>6 DEF Connection
<1>10. ~conn[fd].reclaimed /\ allocation_map[fd] \in Word
  BY <1>0, <1>1 DEF MemInv, CallOwnsConnection, ConnType, AccountPerConnection
<1>11. Open(fd)'
  <2>1. k \in Connection
    <3>1. Tail(conn[fd].unread) \in Seq(Message)
      BY <1>1, <1>2, HeadTailProperties
    <3>2. r \in Word \cup {NONE}
      BY <1>2, <1>5 DEF Connection
    <3>. QED  BY <1>2, <1>6, <3>1, <3>2 DEF Connection
  <2>. QED  BY <1>8, <2>1, NoneAssumption DEF Open
<1>12. \A q \in Procs, e \in Fds : Mine(q, e)' <=> Mine(q, e)
  BY <1>1, <1>8, <1>9, <1>11 DEF Mine, Open
<1>13. \A e \in Fds : e # fd => allocation_map'[e] = allocation_map[e]
  BY <1>0 DEF HandleMemLimit, HandleAlloc, HandleFree, MemInv, ConnType
<1>14. ASSUME NEW q \in Procs, ~Mine(q, fd) PROVE ProcInv(q)'
  <2>1. Untouched(q)
    BY <1>4, <1>8, <1>12, <1>13, <1>14 DEF Untouched
  <2>. QED  BY <1>0, <2>1, UntouchedKeeps
<1>15. ASSUME NEW p \in Procs, Mine(p, fd) PROVE ProcInv(p)'
  <2>0. HookKnows(p)'
    BY <1>0, <1>4, <1>12 DEF ProcInv, HookKnows
  <2>1. CASE conn[fd].repeated
    <3>1. ~Unrepeated(p)'
      BY <1>8, <1>9, <1>12, <1>15, <2>1 DEF Unrepeated
    <3>2. \A e \in Fds : Mine(p, e)' /\ ~conn'[e].repeated => Mine(p, e) /\ conn'[e] = conn[e]
      BY <1>8, <1>9, <1>12, <2>1
    <3>3. SentOnce(p)'
      BY <1>0, <1>4, <3>2 DEF ProcInv, SentOnce
    <3>. QED  BY <2>0, <3>1, <3>3 DEF ProcInv, Balanced
  <2>2. CASE ~conn[fd].repeated
    <3>1. /\ proc[p].pc \in Waiting /\ proc[p].fd = fd
          /\ conn[fd].unread = <<[req |-> RequestOf[proc[p].pc], size |-> proc[p].size]>>
          /\ conn[fd].reply = NONE
      BY <1>0, <1>1, <1>15, <2>2 DEF ProcInv, SentOnce
    <3>2. /\ Head(conn[fd].unread).req = RequestOf[proc[p].pc]
          /\ Head(conn[fd].unread).size = proc[p].size
          /\ Tail(conn[fd].unread) = <<>>
      BY <3>1
    <3>3. r = value /\ value # NONE
      BY <1>5, <1>15, <3>1, WordArithmetic, NoneAssumption DEF Mine
    <3>4. proc[p].pc = "accounting" => value \in {0, 1}
      BY <1>3, <3>2 DEF RequestOf
    <3>5. SentOnce(p)'
      BY <1>0, <1>4, <1>8, <1>9, <1>12, <3>1, <3>2, <3>3, <3>4 DEF ProcInv, SentOnce
    <3>6. PICK size \in Word : size = proc[p].size
      BY <1>0 DEF MemInv, ConnType, Call
    <3>7. size \in Int /\ allocation_map[fd] \in Int /\ allocation_map[fd] # NONE
      BY <1>10, WordArithmetic
    <3>8. PICK d \in Int : Cong(Account(fd)', Account(fd) + d) /\ InFlight(p)' = InFlight(p) + d
      <4>0. InFlight(p) = 0 /\ Account(fd) = allocation_map[fd]
        BY <3>1, <3>7, NoneAssumption DEF InFlight, Account
      <4>1. conn'[proc'[p].fd].reply = value /\ proc'[p] = proc[p]
        BY <1>4, <1>8, <1>9, <3>1, <3>3
      <4>2. ASSUME NEW b \in Int, allocation_map' = [allocation_map EXCEPT ![fd] = b % WORD]
            PROVE  Cong(Account(fd)', b)
        <5>1. b % WORD \in Word /\ Cong(b, b % WORD)
          BY CongMod
        <5>2. Account(fd)' = b % WORD
          BY <1>0, <4>2, <5>1, WordArithmetic DEF Account, MemInv, ConnType
        <5>. QED  BY <5>1, <5>2, WordArithmetic, CongSym
      <4>3. ASSUME allocation_map' = allocation_map, InFlight(p)' = 0
            PROVE  \E d \in Int : Cong(Account(fd)', Account(fd) + d) /\ InFlight(p)' = InFlight(p) + d
        <5>1. Account(fd)' = Account(fd) /\ Account(fd) \in Int
          BY <3>7, <4>0, <4>3 DEF Account
        <5>2. Account(fd) + 0 = Account(fd) /\ 0 \in Int /\ 0 + 0 = 0
          BY <5>1
        <5>3. Cong(Account(fd)', Account(fd) + 0)
          BY <5>1, <5>2, CongRefl
        <5>4. InFlight(p)' = InFlight(p) + 0
          BY <4>0, <4>3
        <5>. QED  BY <5>3, <5>4
      <4>4. CASE HandleMemLimit(fd)
        <5>1. proc[p].pc = "checking"
          BY <3>1, <3>2, <4>4 DEF HandleMemLimit, Received, RequestOf, Waiting
        <5>2. InFlight(p)' = 0
          BY <4>1, <5>1 DEF InFlight
        <5>. QED  BY <4>3, <4>4, <5>2 DEF HandleMemLimit
      <4>5. CASE HandleAlloc(fd)
        <5>1. proc[p].pc = "accounting"
          BY <3>1, <3>2, <4>5 DEF HandleAlloc, Received, RequestOf, Waiting
        <5>2. CASE Reply(fd, 0) /\ allocation_map' = allocation_map
          <6>1. conn'[fd].reply = 0
            <7>1. conn' = [conn EXCEPT
                     ![fd].unread = Tail(@),
                     ![fd].reply = IF conn[fd].owner # NONE /\ proc[conn[fd].owner].fd = fd
                                      /\ @ = NONE
                                   THEN 0 ELSE @]
              BY <5>2 DEF Reply
            <7>2. conn[fd].owner # NONE /\ proc[conn[fd].owner].fd = fd
              BY <1>15, <3>1, NoneAssumption DEF Mine
            <7>. QED  BY <1>0, <1>2, <3>1, <7>1, <7>2 DEF MemInv, ConnType, Connection
          <6>2. InFlight(p)' = 0
            BY <1>4, <3>1, <5>1, <6>1 DEF InFlight
          <6>. QED  BY <4>3, <5>2, <6>2
        <5>3. CASE Reply(fd, 1) /\ allocation_map' = [allocation_map EXCEPT ![fd] =
                                         (@ + Head(conn[fd].unread).size) % WORD]
          <6>1. conn'[fd].reply = 1
            <7>1. conn' = [conn EXCEPT
                     ![fd].unread = Tail(@),
                     ![fd].reply = IF conn[fd].owner # NONE /\ proc[conn[fd].owner].fd = fd
                                      /\ @ = NONE
                                   THEN 1 ELSE @]
              BY <5>3 DEF Reply
            <7>2. conn[fd].owner # NONE /\ proc[conn[fd].owner].fd = fd
              BY <1>15, <3>1, NoneAssumption DEF Mine
            <7>. QED  BY <1>0, <1>2, <3>1, <7>1, <7>2 DEF MemInv, ConnType, Connection
          <6>2. InFlight(p)' = size
            BY <1>4, <3>1, <3>6, <5>1, <6>1 DEF InFlight
          <6>3. PICK b \in Int : b = allocation_map[fd] + size
            BY <3>7
          <6>4. Cong(Account(fd)', b)
            BY <3>2, <3>6, <4>2, <5>3, <6>3
          <6>5. Cong(Account(fd)', Account(fd) + size) /\ InFlight(p)' = InFlight(p) + size
            BY <3>7, <4>0, <6>2, <6>3, <6>4
          <6>. QED  BY <3>7, <6>5
        <5>. QED  BY <4>5, <5>2, <5>3 DEF HandleAlloc
      <4>6. CASE HandleFree(fd)
        <5>1. proc[p].pc = "freeing"
          BY <3>1, <3>2, <4>6 DEF HandleFree, Received, RequestOf, Waiting
        <5>2. PICK d \in Int : d = 0 - size
          BY <3>7
        <5>3. InFlight(p)' = d
          BY <3>3, <3>6, <4>1, <5>1, <5>2 DEF InFlight
        <5>4. PICK b \in Int : b = allocation_map[fd] - size
          BY <3>7
        <5>5. Cong(Account(fd)', b)
          BY <3>2, <3>6, <4>2, <4>6, <5>4 DEF HandleFree
        <5>6. b = Account(fd) + d /\ InFlight(p)' = InFlight(p) + d
          BY <3>7, <4>0, <5>2, <5>3, <5>4
        <5>. QED  BY <5>5, <5>6
      <4>. QED  BY <4>4, <4>5, <4>6
    <3>9. Balanced(p)'
      <4>. SUFFICES ASSUME Unrepeated(p)'
                    PROVE  Cong(Owned(p)', SumFunction(hook_map[p])' + InFlight(p)')
        BY DEF Balanced, Cong
      <4>1. Unrepeated(p)
        BY <1>8, <1>9, <1>12 DEF Unrepeated
      <4>2. Share(p, fd) = Account(fd) /\ Share(p, fd)' = Account(fd)'
        BY <1>12, <1>15 DEF Share
      <4>3. \A e \in Fds : e # fd => Share(p, e)' = Share(p, e)
        BY <1>12, <1>13 DEF Share, Account
      <4>4. /\ Owned(p) \in Int /\ Share(p, fd) \in Int /\ Share(p, fd)' \in Int
            /\ Owned(p)' = Owned(p) + (Share(p, fd)' - Share(p, fd))
        BY <1>0, <4>3, OwnedStep
      <4>5. PICK a \in Int : a = Share(p, fd)
        BY <4>4
      <4>6. PICK b \in Int : b = Share(p, fd)'
        BY <4>4
      <4>7. PICK o \in Int : o = Owned(p)
        BY <4>4
      <4>8. PICK o2 \in Int : o2 = Owned(p)' /\ o2 = o + (b - a)
        BY <4>4, <4>5, <4>6, <4>7
      <4>9. Cong(b, a + d)
        BY <3>8, <4>2, <4>5, <4>6
      <4>10. Cong(b - a, (a + d) - a)
        BY <4>9, CongRefl, CongSum
      <4>11. Cong(o + (b - a), o + ((a + d) - a))
        BY <4>10, CongRefl, CongSum
      <4>12. Cong(o2, o + d)
        BY <4>8, <4>11
      <4>13. SumFunction(hook_map[p]) \in Int /\ InFlight(p) \in Int
        BY <1>0, OwnedType
      <4>14. PICK rec \in Int : rec = SumFunction(hook_map[p]) + InFlight(p)
        BY <4>13
      <4>15. PICK rec2 \in Int :
                rec2 = SumFunction(hook_map[p])' + InFlight(p)' /\ rec2 = rec + d
        BY <1>4, <3>8, <4>13, <4>14
      <4>16. Cong(o, rec)
        BY <1>0, <4>1, <4>7, <4>14 DEF ProcInv, Balanced
      <4>17. Cong(o2, rec2)
        BY <4>12, <4>15, <4>16, BalanceStep
      <4>. QED  BY <4>8, <4>15, <4>17
    <3>. QED  BY <2>0, <3>5, <3>9 DEF ProcInv
  <2>. QED  BY <2>1, <2>2
<1>. QED  BY <1>14, <1>15

LEMMA CloseBalance ==
  ASSUME QuietInv, MemInv', NEW fd \in Fds, Reclaim(fd) \/ CloseFd(fd)
  PROVE  \A q \in Procs : ProcInv(q)'
<1>0. MemInv /\ \A q \in Procs : ProcInv(q)
  BY DEF QuietInv, BooksInv
<1>1. Open(fd) /\ conn[fd].owner = NONE
  BY <1>0 DEF Reclaim, CloseFd, MemInv, CallOwnsConnection
<1>2. proc' = proc /\ hook_map' = hook_map /\ real' = real
  BY DEF Reclaim, CloseFd
<1>3. \A e \in Fds : e # fd => conn'[e] = conn[e] /\ allocation_map'[e] = allocation_map[e]
  BY <1>0 DEF Reclaim, CloseFd, MemInv, ConnType
<1>4. conn'[fd] = NONE \/ conn'[fd].owner = NONE
  <2>1. conn[fd] \in Connection
    BY <1>0, <1>1, OpenType DEF MemInv
  <2>. QED  BY <1>0, <1>1, <2>1 DEF Reclaim, CloseFd, MemInv, ConnType, Connection
<1>5. ASSUME NEW q \in Procs PROVE ProcInv(q)'
  <2>1. ~Mine(q, fd) /\ ~Mine(q, fd)'
    BY <1>1, <1>4, NoneAssumption DEF Mine, Open
  <2>2. Untouched(q)
    BY <1>2, <1>3, <2>1 DEF Untouched, Mine, Open
  <2>. QED  BY <1>0, <2>2, UntouchedKeeps
<1>. QED  BY <1>5

LEMMA InitQuiet == Init => QuietInv
<1>. SUFFICES ASSUME Init PROVE QuietInv
  OBVIOUS
<1>1. BooksInv /\ RealType
  BY InitBooks, WordArithmetic DEF Init, RealType, Nothing
<1>2. ASSUME NEW p \in Procs PROVE ProcInv(p)
  <2>1. \A fd \in Fds : ~Mine(p, fd)
    BY DEF Init, Mine, Open
  <2>2. proc[p].pc = "dead" /\ hook_map[p] = Nothing /\ real[p] = Nothing
    BY DEF Init, Dead, Idle
  <2>3. SentOnce(p) /\ HookKnows(p)
    BY <2>1, <2>2 DEF SentOnce, HookKnows, Nothing
  <2>4. PICK g : g = [x \in Fds |-> Share(p, x)]
    OBVIOUS
  <2>5. \A x \in Fds : g[x] = 0
    BY <2>1, <2>4 DEF Share
  <2>6. Owned(p) = 0
    BY <1>1, <2>4, <2>5, AccountsType, SumZero DEF Owned, SumFunction, BooksInv
  <2>7. InFlight(p) = 0 /\ SumFunction(hook_map[p]) = 0
    BY <2>2, NothingSum DEF InFlight
  <2>8. 0 + 0 = 0 /\ Cong(0, 0)
    BY CongRefl
  <2>. QED  BY <2>3, <2>6, <2>7, <2>8 DEF ProcInv, Balanced
<1>. QED  BY <1>1, <1>2 DEF QuietInv

LEMMA NextQuiet == QuietInv /\ [Next]_vars => QuietInv'
<1>. SUFFICES ASSUME QuietInv, [Next]_vars PROVE QuietInv'
  OBVIOUS
<1>1. BooksInv' /\ MemInv' /\ MemInv
  BY NextBooks DEF QuietInv, BooksInv
<1>2. RealType'
  BY <1>1, RealTyped DEF QuietInv, RealType
<1>3. \A q \in Procs : ProcInv(q)'
  <2>1. ASSUME NEW p \in Procs, Process(p) PROVE \A q \in Procs : ProcInv(q)'
    BY <1>1, <2>1, ProcessBalance, RetryBalance, ExitBalance
  <2>2. ASSUME NEW fd \in Fds, HookThread(fd) PROVE \A q \in Procs : ProcInv(q)'
    BY <1>1, <2>2, HandlerBalance, CloseBalance DEF HookThread
  <2>3. CASE UNCHANGED vars
    <3>1. ASSUME NEW q \in Procs PROVE ProcInv(q)'
      <4>1. Untouched(q)
        BY <2>3 DEF vars, Untouched, Mine, Open
      <4>. QED  BY <1>1, <4>1, UntouchedKeeps DEF QuietInv
    <3>. QED  BY <3>1
  <2>. QED  BY <2>1, <2>2, <2>3 DEF Next
<1>. QED  BY <1>1, <1>2, <1>3 DEF QuietInv

\* Sums of congruent numbers are congruent.
LEMMA SumCong ==
  ASSUME NEW S, IsFiniteSet(S), NEW f, NEW g,
         \A x \in S : f[x] \in Int /\ g[x] \in Int /\ Cong(f[x], g[x])
  PROVE  Cong(SumFunctionOnSet(f, S), SumFunctionOnSet(g, S))
<1>. DEFINE Bad == {T \in SUBSET S : ~Cong(SumFunctionOnSet(f, T), SumFunctionOnSet(g, T))}
<1>1. SUFFICES ASSUME Bad # {} PROVE FALSE
  OBVIOUS
<1>2. \A T \in Bad : IsFiniteSet(T)
  BY FS_Subset
<1>. HIDE DEF Bad
<1>3. PICK T \in Bad : \A V \in Bad : V \subseteq T => V = T
  BY <1>1, <1>2, MinimalFiniteSet
<1>4. /\ T \in SUBSET S /\ IsFiniteSet(T)
      /\ ~Cong(SumFunctionOnSet(f, T), SumFunctionOnSet(g, T))
  BY <1>2 DEF Bad
<1>5. T # {} /\ Pick(T) \in T
  <2>1. ASSUME T = {} PROVE FALSE
    <3>1. SumFunctionOnSet(f, T) = 0 /\ SumFunctionOnSet(g, T) = 0
      BY <2>1, SumEmpty, Zenon
    <3>2. Cong(0, 0)
      BY CongRefl
    <3>. QED  BY <1>4, <3>1, <3>2
  <2>. QED  BY <2>1, PickIn
<1>6. PICK V : V = T \ {Pick(T)}
  OBVIOUS
<1>7. V \subseteq T /\ V # T /\ V \in SUBSET S
  BY <1>4, <1>5, <1>6
<1>8. Cong(SumFunctionOnSet(f, V), SumFunctionOnSet(g, V))
  BY <1>3, <1>7 DEF Bad
<1>9. /\ SumFunctionOnSet(f, T) = f[Pick(T)] + SumFunctionOnSet(f, V)
      /\ SumFunctionOnSet(g, T) = g[Pick(T)] + SumFunctionOnSet(g, V)
  BY <1>4, <1>5, <1>6, SumPick
<1>10. SumFunctionOnSet(f, V) \in Int /\ SumFunctionOnSet(g, V) \in Int
  <2>1. IsFiniteSet(V) /\ \A x \in V : f[x] \in Int /\ g[x] \in Int
    BY <1>4, <1>7, FS_Subset
  <2>. QED  BY <2>1, SumType
<1>11. f[Pick(T)] \in Int /\ g[Pick(T)] \in Int /\ Cong(f[Pick(T)], g[Pick(T)])
  BY <1>4, <1>5
<1>12. Cong(f[Pick(T)] + SumFunctionOnSet(f, V), g[Pick(T)] + SumFunctionOnSet(g, V))
  BY <1>8, <1>10, <1>11, CongSum
<1>. QED  BY <1>4, <1>9, <1>12

\* When nothing is under way and no open connection carries a repeated request,
\* the pod manager's total is what the hooks of the running processes have
\* recorded: for any number of processes, addresses and connections, whatever
\* was refused, wrapped, or cut short by the end of a process.
THEOREM BooksBalance == Spec => []QuietBooksBalance
<1>1. QuietInv => QuietBooksBalance
  <2>. SUFFICES ASSUME QuietInv, Quiet, RepeatedFds = {}
                PROVE  gpu_mem_used = SumOver(hook_map) % WORD
    BY DEF QuietBooksBalance
  <2>0. MemInv /\ BooksInv /\ \A p \in Procs : ProcInv(p)
    BY DEF QuietInv, BooksInv
  <2>1. ASSUME NEW p \in Procs
        PROVE  /\ Cong(Owned(p), SumFunction(hook_map[p]))
               /\ Owned(p) \in Int /\ SumFunction(hook_map[p]) \in Int
    <3>1. Owned(p) \in Int /\ SumFunction(hook_map[p]) \in Int
      BY <2>0, OwnedType
    <3>2. InFlight(p) = 0
      BY DEF Quiet, InFlight
    <3>3. Unrepeated(p)
      BY DEF Unrepeated, RepeatedFds, Mine
    <3>4. Cong(Owned(p), SumFunction(hook_map[p]) + 0)
      BY <2>0, <3>2, <3>3 DEF ProcInv, Balanced
    <3>5. SumFunction(hook_map[p]) + 0 = SumFunction(hook_map[p])
      BY <3>1
    <3>. QED  BY <3>1, <3>4, <3>5
  <2>2. PICK f : f = [x \in Fds |-> Account(x)]
    OBVIOUS
  <2>3. PICK own : own = [x \in Fds |-> IF Open(x) THEN conn[x].owner ELSE NONE]
    OBVIOUS
  <2>4. PICK G : G = [p \in Procs |-> Owned(p)]
    OBVIOUS
  <2>5. PICK H : H = [p \in Procs |-> SumFunction(hook_map[p])]
    OBVIOUS
  <2>6. \A x \in Fds : f[x] \in Int /\ (f[x] = 0 \/ own[x] \in Procs)
    <3>. SUFFICES ASSUME NEW x \in Fds PROVE f[x] \in Int /\ (f[x] = 0 \/ own[x] \in Procs)
      OBVIOUS
    <3>1. f[x] \in Int
      BY <2>0, <2>2, AccountType
    <3>2. CASE Open(x)
      <4>1. conn[x].owner \in Procs \cup {NONE} /\ conn[x].owner # NONE
        BY <2>0, <3>2, OpenType DEF Quiet, MemInv
      <4>. QED  BY <2>3, <3>1, <3>2, <4>1
    <3>3. CASE ~Open(x)
      BY <2>0, <2>2, <3>1, <3>3 DEF MemInv, AccountPerConnection, Account
    <3>. QED  BY <3>2, <3>3
  <2>p. PICK part : part = [p \in Procs |-> [x \in Fds |-> Share(p, x)]]
    OBVIOUS
  <2>7. /\ \A p \in Procs, x \in Fds : part[p][x] = IF own[x] = p THEN f[x] ELSE 0
        /\ \A p \in Procs : G[p] = SumFunctionOnSet(part[p], Fds)
    <3>1. \A p \in Procs, x \in Fds : part[p][x] = Share(p, x)
      BY <2>p
    <3>2. \A p \in Procs, x \in Fds : Share(p, x) = IF own[x] = p THEN f[x] ELSE 0
      BY <2>2, <2>3, NoneAssumption DEF Share, Mine
    <3>. QED  BY <2>4, <2>p, <3>1, <3>2 DEF Owned, SumFunction
  <2>8. SumFunctionOnSet(G, Procs) = SumFunctionOnSet(f, Fds)
    <3>1. IsFiniteSet(Procs) /\ IsFiniteSet(Fds)
      BY <2>0, AccountsType, FiniteAssumption
    <3>2. SplitByOwner(f, Fds, own, Procs, part, G)
      BY <2>6, <2>7 DEF SplitByOwner
    <3>. QED  BY <3>1, <3>2, SumByOwner
  <2>9. SumFunctionOnSet(f, Fds) = Accounts /\ Accounts \in Int
    BY <2>0, <2>2, AccountsType DEF Accounts, SumFunction
  <2>10. \A p \in Procs : G[p] \in Int /\ H[p] \in Int /\ Cong(G[p], H[p])
    BY <2>1, <2>4, <2>5
  <2>11. /\ Cong(SumFunctionOnSet(G, Procs), SumFunctionOnSet(H, Procs))
         /\ SumFunctionOnSet(H, Procs) \in Int
    BY <2>10, FiniteAssumption, SumCong, SumType
  <2>12. SumFunctionOnSet(H, Procs) = SumOver(hook_map)
    BY <2>5 DEF SumOver, SumFunction
  <2>13. gpu_mem_used \in Word /\ gpu_mem_used \in Int /\ Cong(gpu_mem_used, Accounts)
    BY <2>0, WordArithmetic DEF BooksInv, MemInv, ConnType
  <2>14. Cong(gpu_mem_used, SumOver(hook_map)) /\ SumOver(hook_map) \in Int
    <3>1. PICK b \in Int : b = SumOver(hook_map)
      BY <2>11, <2>12
    <3>2. Cong(Accounts, b)
      BY <2>8, <2>9, <2>11, <2>12, <3>1
    <3>3. Cong(gpu_mem_used, b)
      BY <2>9, <2>13, <3>2, CongTrans
    <3>. QED  BY <3>1, <3>3
  <2>. QED  BY <2>13, <2>14, CongIsMod
<1>. QED  BY <1>1, InitQuiet, NextQuiet, PTL DEF Spec
=============================================================================
