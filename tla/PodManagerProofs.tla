-------------------------- MODULE PodManagerProofs --------------------------
(***************************************************************************)
(* The pod manager's invariants for any number of connections and requests. *)
(* GateHasKeeper is inductive once pc is known to be a function on Conns:   *)
(* the only step that takes a thread out of its update is Finish, and       *)
(* Finish resets the state and empties the gate.  RequestsConserved counts; *)
(* its inductive form ReqInv says which ids each list and the response map  *)
(* hold, that none repeats and that no two of them share one.               *)
(* RequestCoversBurst follows a thread's burst from UpdateBurst to the send.*)
(***************************************************************************)
EXTENDS PodManager, FiniteLemmas

GateType == pc \in [Conns -> Pcs] /\ quota_state \in {0, 1}

GateInv == GateType /\ GateHasKeeper

\* Moving a thread neither into the gate's wait nor out of an update, with the
\* state left as it is, keeps the gate in order.
LEMMA MoveKeepsGate ==
  ASSUME GateInv, NEW c \in Conns, NEW place \in Pcs, Goto(c, place),
         quota_state' = quota_state,
         place = "gated" => quota_state = 1,
         Updating(c) => place \in UpdatingPcs
  PROVE  GateInv'
<1>1. GateType'
  BY DEF GateInv, GateType, Goto
<1>2. ASSUME NEW d \in Conns, At(d, "gated")' PROVE quota_state' = 1
  BY <1>2 DEF GateInv, GateType, GateHasKeeper, Goto, At
<1>3. ASSUME quota_state' = 1 PROVE \E d \in Conns : Updating(d)'
  <2>1. PICK d \in Conns : Updating(d)
    BY <1>3 DEF GateInv, GateHasKeeper
  <2>2. Updating(d)'
    BY <2>1 DEF GateInv, GateType, Updating, Goto
  <2>. QED  BY <2>2
<1>. QED  BY <1>1, <1>2, <1>3 DEF GateInv, GateHasKeeper, At, Updating

\* A wakeup sends sleeping threads on, inside the update or back to the gate.
LEMMA WakeKeepsGate ==
  ASSUME GateInv, quota_state' = quota_state,
         pc' \in [Conns -> Pcs],
         \A c \in Conns : pc'[c] = pc[c] \/ (At(c, "asleep") /\ pc'[c] = "woken")
  PROVE  GateInv'
<1>1. GateType'
  BY DEF GateInv, GateType
<1>2. ASSUME NEW d \in Conns, At(d, "gated")' PROVE quota_state' = 1
  BY <1>2 DEF GateInv, GateHasKeeper, At
<1>3. ASSUME quota_state' = 1 PROVE \E d \in Conns : Updating(d)'
  <2>1. PICK d \in Conns : Updating(d)
    BY <1>3 DEF GateInv, GateHasKeeper
  <2>2. Updating(d)'
    BY <2>1 DEF Updating, At, UpdatingPcs
  <2>. QED  BY <2>2
<1>. QED  BY <1>1, <1>2, <1>3 DEF GateInv, GateHasKeeper, At, Updating

LEMMA ServiceKeepsGate ==
  ASSUME GateInv, NEW c \in Conns, ServiceThread(c)
  PROVE  GateInv'
<1>1. CASE PassGate(c)
  BY <1>1, MoveKeepsGate DEF PassGate, At, Updating, UpdatingPcs, Pcs
<1>2. CASE WaitAtGate(c)
  <2>1. quota_state = 1
    BY <1>2 DEF WaitAtGate, GateInv, GateType
  <2>. QED  BY <1>2, <2>1, MoveKeepsGate DEF WaitAtGate, At, Updating, UpdatingPcs, Pcs
<1>3. CASE ReadOveruse(c) \/ StoreOveruse(c)
  BY <1>3, MoveKeepsGate DEF ReadOveruse, StoreOveruse, At, Updating, UpdatingPcs, Pcs
<1>4. CASE UpdateBurst(c)
  BY <1>4, MoveKeepsGate DEF UpdateBurst, At, Updating, UpdatingPcs, Pcs
<1>5. CASE ReadElapsed(c)
  BY <1>5, MoveKeepsGate DEF ReadElapsed, At, Updating, UpdatingPcs, Pcs
<1>6. CASE CompareQuota(c)
  <2>1. PICK place \in {"expired", "valid"} : Goto(c, place)
    BY <1>6 DEF CompareQuota
  <2>. QED  BY <1>6, <2>1, MoveKeepsGate DEF CompareQuota, At, Updating, UpdatingPcs, Pcs
<1>7. CASE AnnounceUpdate(c)
  <2>1. pc' = [pc EXCEPT ![c] = "estimate"] /\ quota_state' = 1
    BY <1>7 DEF AnnounceUpdate, Goto
  <2>2. GateType'
    BY <2>1 DEF GateInv, GateType, Pcs, UpdatingPcs
  <2>3. Updating(c)'
    BY <2>1 DEF GateInv, GateType, Updating, UpdatingPcs
  <2>. QED  BY <2>1, <2>2, <2>3 DEF GateInv, GateHasKeeper
<1>8. CASE EstimateBurst(c)
  BY <1>8, MoveKeepsGate DEF EstimateBurst, At, Updating, UpdatingPcs, Pcs
<1>9. CASE \E id \in ReqIds : EnqueueRequest(c, id)
  BY <1>9, MoveKeepsGate DEF EnqueueRequest, At, Updating, UpdatingPcs, Pcs
<1>10. CASE AwaitResponse(c)
  BY <1>10, MoveKeepsGate DEF AwaitResponse, At, Updating, UpdatingPcs, Pcs
<1>11. CASE NotMine(c)
  BY <1>11, MoveKeepsGate DEF NotMine, At, Updating, UpdatingPcs, Pcs
<1>12. CASE TakeResponse(c)
  BY <1>12, MoveKeepsGate DEF TakeResponse, At, Updating, UpdatingPcs, Pcs
<1>13. CASE Finish(c)
  <2>1. quota_state' = 0
    BY <1>13 DEF Finish
  <2>2. pc' = [d \in Conns |-> IF d = c THEN "recv"
                               ELSE IF At(d, "gated") THEN "gate" ELSE pc[d]]
    BY <1>13 DEF Finish
  <2>3. GateType'
    BY <2>1, <2>2 DEF GateInv, GateType, Pcs
  <2>4. ASSUME NEW d \in Conns PROVE pc'[d] # "gated"
    BY <2>2 DEF At
  <2>. QED  BY <2>1, <2>3, <2>4 DEF GateInv, GateHasKeeper, At
<1>. QED
  BY <1>1, <1>2, <1>3, <1>4, <1>5, <1>6, <1>7, <1>8, <1>9, <1>10, <1>11,
     <1>12, <1>13 DEF ServiceThread

LEMMA NextKeepsGate ==
  ASSUME GateInv, [Next]_vars
  PROVE  GateInv'
<1>1. ASSUME NEW c \in Conns, Accept(c) PROVE GateInv'
  BY <1>1, MoveKeepsGate DEF Accept, At, Updating, UpdatingPcs, Pcs
<1>2. ASSUME NEW c \in Conns, Close(c) PROVE GateInv'
  BY <1>2, MoveKeepsGate DEF Close, At, Updating, UpdatingPcs, Pcs
<1>3. ASSUME NEW c \in Conns, NEW o \in Overuses, NEW b \in Bursts, Launch(c, o, b)
      PROVE  GateInv'
  BY <1>3, MoveKeepsGate DEF Launch, At, Updating, UpdatingPcs, Pcs
<1>4. ASSUME pc' = pc, quota_state' = quota_state PROVE GateInv'
  BY <1>4 DEF GateInv, GateType, GateHasKeeper, At, Updating
<1>5. CASE Sender \/ SchedulerAnswersSome \/ LoseScheduler \/ ReceiverCloses \/ Tick
  BY <1>5, <1>4 DEF Sender, SenderWaits, SenderForwards, SenderFails, SchedulerAnswersSome,
                    SchedulerAnswers, LoseScheduler, ReceiverCloses, Tick
<1>6. CASE ReceiveResponse
  <2>1. pc' = [c \in Conns |-> IF At(c, "asleep") THEN "woken" ELSE pc[c]]
    BY <1>6 DEF ReceiveResponse
  <2>2. pc' \in [Conns -> Pcs]
    BY <2>1 DEF GateInv, GateType, Pcs, UpdatingPcs
  <2>3. quota_state' = quota_state
    BY <1>6 DEF ReceiveResponse
  <2>. QED  BY <2>1, <2>2, <2>3, WakeKeepsGate
<1>7. CASE SpuriousWakeup
  <2>1. quota_state' = quota_state
    BY <1>7 DEF SpuriousWakeup
  <2>2. ASSUME NEW c \in Conns, At(c, "gated"), Goto(c, "gate") PROVE GateInv'
    BY <2>1, <2>2, MoveKeepsGate DEF At, Updating, UpdatingPcs, Pcs
  <2>3. ASSUME NEW c \in Conns, At(c, "asleep"), Goto(c, "woken") PROVE GateInv'
    BY <2>1, <2>3, MoveKeepsGate DEF At, Updating, UpdatingPcs, Pcs
  <2>. QED  BY <1>7, <1>4, <2>1, <2>2, <2>3 DEF SpuriousWakeup
<1>8. CASE UNCHANGED vars
  BY <1>8, <1>4 DEF vars
<1>. QED
  BY <1>1, <1>2, <1>3, <1>5, <1>6, <1>7, <1>8, ServiceKeepsGate DEF Next

\* No service thread is ever left sleeping at the gate of hook_kernel_launch
\* without an update under way whose thread will wake it, for any number of
\* connections.
THEOREM GateIsKept == Spec => []GateHasKeeper
<1>1. Init => GateInv
  BY DEF Init, GateInv, GateType, GateHasKeeper, At, Pcs
<1>2. GateInv /\ [Next]_vars => GateInv'
  BY NextKeepsGate
<1>3. GateInv => GateHasKeeper
  BY DEF GateInv
<1>. QED  BY <1>1, <1>2, <1>3, PTL DEF Spec

-----------------------------------------------------------------------------
(* Types.                                                                  *)

\* What a step writes into the local variables of a thread.
LEMMA LocalTyped ==
  ASSUME TypeOK, NEW c \in Conns
  PROVE  /\ local[c] \in Local /\ Idle \in Local
         /\ \A n \in Nat :
               /\ [local[c] EXCEPT !.overuse = n] \in Local
               /\ [local[c] EXCEPT !.burst = n] \in Local
               /\ [local[c] EXCEPT !.elapsed = n] \in Local
               /\ [local[c] EXCEPT !.max_burst = n] \in Local
         /\ \A id \in ReqIds \cup {NONE} : [local[c] EXCEPT !.req_id = id] \in Local
<1>1. local[c] \in Local
  BY DEF TypeOK
<1>. QED  BY <1>1 DEF Local, Idle

\* The largest of the bursts on record is one of them, or 0.
LEMMA EstimateProperties ==
  ASSUME TypeOK
  PROVE  LET S == {client_burst_map[d] : d \in {e \in Conns : client_burst_map[e] # NONE}}
                  \cup {0}
         IN  Max(S) \in Nat /\ \A n \in S : Max(S) >= n
<1>. DEFINE D == {e \in Conns : client_burst_map[e] # NONE}
            I == {client_burst_map[d] : d \in D}
            S == I \cup {0}
<1>1. IsFiniteSet(D)
  BY ConnAssumption, FS_Subset
<1>2. IsFiniteSet(I)
  BY <1>1, FiniteImage
<1>3. I \subseteq Nat
  BY DEF TypeOK
<1>. HIDE DEF I
<1>4. IsFiniteSet(S) /\ S # {} /\ S \subseteq Int /\ S \subseteq Nat
  BY <1>2, <1>3, FS_AddElement
<1>. HIDE DEF S
<1>5. Max(S) \in S /\ \A y \in S : Max(S) >= y
  BY <1>4, MaxProperties
<1>. QED  BY <1>4, <1>5 DEF S, I, D

LEMMA ServiceTyped ==
  ASSUME TypeOK, NEW c \in Conns, ServiceThread(c)
  PROVE  TypeOK'
<1>. USE DEF Goto, At, net_vars, quota_vars
<1>0. local[c] \in Local /\ local[c].overuse \in Nat /\ local[c].burst \in Nat
      /\ local[c].max_burst \in Nat /\ pc \in [Conns -> Pcs]
  BY DEF TypeOK, Local
<1>1. CASE PassGate(c) \/ WaitAtGate(c) \/ AwaitResponse(c) \/ NotMine(c)
  BY <1>1 DEF PassGate, WaitAtGate, AwaitResponse, NotMine, TypeOK, Pcs, UpdatingPcs
<1>2. CASE ReadOveruse(c)
  <2>1. PICK n \in Nat : n = Max({local[c].overuse, pod_overuse_ms})
    <3>1. PICK a \in Nat : a = local[c].overuse
      BY <1>0
    <3>2. PICK b \in Nat : b = pod_overuse_ms
      BY DEF TypeOK
    <3>3. a \in Int /\ b \in Int
      OBVIOUS
    <3>4. Max({a, b}) \in {a, b}
      BY <3>3, MaxOfTwo
    <3>. QED  BY <3>1, <3>2, <3>4
  <2>2. local' = [local EXCEPT ![c] = [local[c] EXCEPT !.overuse = n]]
    BY <1>2, <2>1 DEF ReadOveruse
  <2>3. local' \in [Conns -> Local]
    BY <2>2, LocalTyped DEF TypeOK
  <2>. QED  BY <1>2, <2>3 DEF ReadOveruse, TypeOK, Pcs
<1>3. CASE StoreOveruse(c)
  <2>1. local' = [local EXCEPT ![c] = [local[c] EXCEPT !.overuse = 0]]
    BY <1>3 DEF StoreOveruse
  <2>2. local' \in [Conns -> Local]
    BY <2>1, LocalTyped DEF TypeOK
  <2>. QED  BY <1>0, <1>3, <2>2 DEF StoreOveruse, TypeOK, Pcs
<1>4. CASE UpdateBurst(c)
  BY <1>0, <1>4 DEF UpdateBurst, TypeOK, Pcs
<1>5. CASE ReadElapsed(c)
  <2>1. local' = [local EXCEPT ![c] = [local[c] EXCEPT !.elapsed = age]]
    BY <1>5 DEF ReadElapsed
  <2>2. local' \in [Conns -> Local]
    BY <2>1, LocalTyped DEF TypeOK
  <2>. QED  BY <1>5, <2>2 DEF ReadElapsed, TypeOK, Pcs
<1>6. CASE CompareQuota(c)
  BY <1>6 DEF CompareQuota, TypeOK, Pcs
<1>7. CASE AnnounceUpdate(c)
  BY <1>7 DEF AnnounceUpdate, TypeOK, Pcs, UpdatingPcs
<1>8. CASE EstimateBurst(c)
  <2>1. PICK n \in Nat : n = Max({client_burst_map[d] : d \in {e \in Conns :
                                     client_burst_map[e] # NONE}} \cup {0})
    BY EstimateProperties
  <2>2. local' = [local EXCEPT ![c] = [local[c] EXCEPT !.max_burst = n]]
    BY <1>8, <2>1 DEF EstimateBurst
  <2>3. local' \in [Conns -> Local]
    BY <2>2, LocalTyped DEF TypeOK
  <2>. QED  BY <1>8, <2>3 DEF EstimateBurst, TypeOK, Pcs, UpdatingPcs
<1>9. ASSUME NEW id \in ReqIds, EnqueueRequest(c, id) PROVE TypeOK'
  <2>1. local' = [local EXCEPT ![c] = [local[c] EXCEPT !.req_id = id]]
    BY <1>9 DEF EnqueueRequest
  <2>2. local' \in [Conns -> Local]
    BY <2>1, LocalTyped DEF TypeOK
  <2>3. PICK m \in Request :
          m = [req_id |-> id, overuse |-> pod_overuse_ms, burst |-> local[c].max_burst]
    BY <1>0 DEF Request, TypeOK
  <2>4. request_queue' = Append(request_queue, m)
    BY <1>9, <2>3 DEF EnqueueRequest
  <2>5. request_queue' \in Seq(Request)
    BY <2>4, AppendProperties DEF TypeOK
  <2>6. sender_pc' \in {"top", "asleep", "woken"}
    BY <1>9 DEF EnqueueRequest, SignalSender, TypeOK
  <2>. QED  BY <1>9, <2>2, <2>5, <2>6 DEF EnqueueRequest, TypeOK, Pcs, UpdatingPcs
<1>10. CASE TakeResponse(c)
  <2>1. PICK r \in response_map : /\ pod_quota' = r.quota
                                  /\ response_map' = response_map \ {r}
    BY <1>10 DEF TakeResponse
  <2>2. pod_quota' \in Nat
    BY <2>1, DataAssumption DEF TypeOK, Response
  <2>3. PICK l \in Local : l = [local[c] EXCEPT !.elapsed = 0, !.req_id = NONE]
    BY <1>0 DEF Local
  <2>4. local' = [local EXCEPT ![c] = l]
    BY <1>0, <1>10, <2>3 DEF TakeResponse, TypeOK, Local
  <2>5. local' \in [Conns -> Local]
    BY <2>4 DEF TypeOK
  <2>. QED  BY <1>10, <2>1, <2>2, <2>5 DEF TakeResponse, TypeOK, Pcs, UpdatingPcs
<1>11. CASE Finish(c)
  <2>1. local' \in [Conns -> Local]
    BY <1>11, LocalTyped DEF Finish, TypeOK
  <2>2. pc' \in [Conns -> Pcs]
    BY <1>0, <1>11 DEF Finish, Pcs
  <2>. QED  BY <1>11, <2>1, <2>2 DEF Finish, TypeOK
<1>. QED
  BY <1>1, <1>2, <1>3, <1>4, <1>5, <1>6, <1>7, <1>8, <1>9, <1>10, <1>11 DEF ServiceThread

LEMMA NextTyped ==
  ASSUME TypeOK, [Next]_vars
  PROVE  TypeOK'
<1>. USE DEF Goto, At, net_vars, quota_vars
<1>1. ASSUME NEW c \in Conns, Accept(c) \/ Close(c) PROVE TypeOK'
  <2>1. pc' \in [Conns -> Pcs]
    BY <1>1 DEF Accept, Close, TypeOK, Pcs
  <2>2. client_burst_map' \in [Conns -> Nat \cup {NONE}]
    <3>1. client_burst_map \in [Conns -> Nat \cup {NONE}]
      BY DEF TypeOK
    <3>2. PICK b \in Nat \cup {NONE} : client_burst_map' = [client_burst_map EXCEPT ![c] = b]
      BY <1>1 DEF Accept, Close
    <3>. QED  BY <3>1, <3>2
  <2>. QED  BY <1>1, <2>1, <2>2 DEF Accept, Close, TypeOK
<1>2. ASSUME NEW c \in Conns, NEW o \in Overuses, NEW b \in Bursts, Launch(c, o, b)
      PROVE  TypeOK'
  <2>1. o \in Nat /\ b \in Nat
    BY DataAssumption
  <2>2. [Idle EXCEPT !.overuse = o, !.burst = b] \in Local
    BY <2>1 DEF Idle, Local
  <2>. QED  BY <1>2, <2>2 DEF Launch, TypeOK, Pcs
<1>3. CASE Sender
  <2>1. CASE request_queue = <<>>
    BY <1>3, <2>1 DEF Sender, SenderWaits, SenderForwards, SenderFails, TypeOK
  <2>2. CASE request_queue # <<>>
    <3>1. Head(request_queue) \in Request /\ Tail(request_queue) \in Seq(Request)
      BY <2>2, HeadTailProperties DEF TypeOK
    <3>2. Append(to_scheduler, Head(request_queue)) \in Seq(Request)
      BY <3>1, AppendProperties DEF TypeOK
    <3>. QED  BY <1>3, <2>2, <3>1, <3>2 DEF Sender, SenderWaits, SenderForwards, SenderFails, TypeOK
  <2>. QED  BY <2>1, <2>2
<1>4. ASSUME NEW i \in DOMAIN to_scheduler, NEW q \in Quotas, SchedulerAnswers(i, q)
      PROVE  TypeOK'
  <2>1. to_scheduler[i] \in Request
    BY ElementOfSeq DEF TypeOK
  <2>2. PICK r \in Response : r = [req_id |-> to_scheduler[i].req_id, quota |-> q]
    BY <2>1 DEF Request, Response
  <2>3. from_scheduler' = Append(from_scheduler, r) /\ to_scheduler' = RemoveAt(to_scheduler, i)
    BY <1>4, <2>2 DEF SchedulerAnswers
  <2>4. from_scheduler' \in Seq(Response) /\ to_scheduler' \in Seq(Request)
    BY <2>3, AppendProperties, RemoveAtProperties DEF TypeOK
  <2>. QED  BY <1>4, <2>4 DEF SchedulerAnswers, TypeOK
<1>5. CASE ReceiveResponse
  <2>1. Head(from_scheduler) \in Response /\ Tail(from_scheduler) \in Seq(Response)
    BY <1>5, HeadTailProperties DEF ReceiveResponse, TypeOK
  <2>2. pc' \in [Conns -> Pcs]
    BY <1>5 DEF ReceiveResponse, TypeOK, Pcs, UpdatingPcs
  <2>. QED  BY <1>5, <2>1, <2>2 DEF ReceiveResponse, TypeOK
<1>6. CASE LoseScheduler \/ ReceiverCloses
  <2>1. <<>> \in Seq(Request) /\ <<>> \in Seq(Response)
    OBVIOUS
  <2>2. CASE LoseScheduler
    BY <2>1, <2>2 DEF LoseScheduler, TypeOK
  <2>3. CASE ReceiverCloses
    BY <2>3 DEF ReceiverCloses, TypeOK
  <2>. QED  BY <1>6, <2>2, <2>3
<1>7. CASE SpuriousWakeup
  BY <1>7 DEF SpuriousWakeup, TypeOK, Pcs, UpdatingPcs
<1>8. CASE Tick
  BY <1>8 DEF Tick, TypeOK
<1>9. CASE UNCHANGED vars
  BY <1>9 DEF vars, TypeOK
<1>. QED
  BY <1>1, <1>2, <1>3, <1>4, <1>5, <1>6, <1>7, <1>8, <1>9, ServiceTyped
     DEF Next, SchedulerAnswersSome

\* What the threads of the pod manager keep, queue, send and receive stays of its
\* type, for any number of connections and requests.
THEOREM PodTypeCorrect == Spec => []TypeOK
<1>1. Init => TypeOK
  BY DEF Init, TypeOK, Idle, Local, Pcs
<1>2. TypeOK /\ [Next]_vars => TypeOK'
  BY NextTyped
<1>. QED  BY <1>1, <1>2, PTL DEF Spec

-----------------------------------------------------------------------------
(* Where the requests are.                                                 *)

IdsIn(q) == {q[i].req_id : i \in DOMAIN q}
NoRepeat(q) == \A i, j \in DOMAIN q : q[i].req_id = q[j].req_id => i = j

LEMMA AppendIds ==
  ASSUME NEW S, NEW q \in Seq(S), NEW m \in S
  PROVE  /\ IdsIn(Append(q, m)) = IdsIn(q) \cup {m.req_id}
         /\ NoRepeat(q) /\ m.req_id \notin IdsIn(q) => NoRepeat(Append(q, m))
<1>1. PICK n \in Nat : n = Len(q) /\ DOMAIN q = 1 .. n
  BY LenProperties
<1>2. PICK a : a = Append(q, m)
  OBVIOUS
<1>3. /\ DOMAIN a = 1 .. n + 1 /\ a[n + 1] = m /\ \A i \in 1 .. n : a[i] = q[i]
  BY <1>1, <1>2, AppendProperties, LenProperties
<1>4. \A i \in 1 .. n + 1 : i \in 1 .. n \/ i = n + 1
  OBVIOUS
<1>5. 1 .. n \subseteq 1 .. n + 1 /\ n + 1 \in 1 .. n + 1
  OBVIOUS
<1>6. IdsIn(a) = IdsIn(q) \cup {m.req_id}
  <2>1. \A x \in IdsIn(a) : x \in IdsIn(q) \cup {m.req_id}
    BY <1>1, <1>3, <1>4 DEF IdsIn
  <2>2. \A x \in IdsIn(q) \cup {m.req_id} : x \in IdsIn(a)
    BY <1>1, <1>3, <1>5 DEF IdsIn
  <2>. QED  BY <2>1, <2>2
<1>7. ASSUME NoRepeat(q), m.req_id \notin IdsIn(q) PROVE NoRepeat(a)
  BY <1>1, <1>3, <1>4, <1>7 DEF NoRepeat, IdsIn
<1>. QED  BY <1>2, <1>6, <1>7

\* One element of a list leaves it.
LEMMA RemoveIds ==
  ASSUME NEW S, NEW q \in Seq(S), NoRepeat(q), NEW k \in DOMAIN q
  PROVE  /\ IdsIn(RemoveAt(q, k)) = IdsIn(q) \ {q[k].req_id}
         /\ NoRepeat(RemoveAt(q, k)) /\ q[k].req_id \in IdsIn(q)
<1>1. PICK n \in Nat : n = Len(q) /\ DOMAIN q = 1 .. n
  BY LenProperties
<1>2. PICK a : a = RemoveAt(q, k)
  OBVIOUS
<1>3. /\ DOMAIN a = 1 .. n - 1
      /\ \A i \in 1 .. n - 1 : a[i] = IF i < k THEN q[i] ELSE q[i + 1]
  BY <1>1, <1>2, RemoveAtProperties, LenProperties
<1>4. k \in 1 .. n
  BY <1>1
<1>5. IdsIn(a) = IdsIn(q) \ {q[k].req_id}
  <2>1. ASSUME NEW x \in IdsIn(a) PROVE x \in IdsIn(q) /\ x # q[k].req_id
    <3>1. PICK i \in 1 .. n - 1 : x = a[i].req_id
      BY <1>3 DEF IdsIn
    <3>2. PICK j \in 1 .. n : x = q[j].req_id /\ j # k
      <4>1. CASE i < k
        BY <1>3, <1>4, <3>1, <4>1
      <4>2. CASE ~(i < k)
        <5>1. i + 1 \in 1 .. n /\ i + 1 # k /\ a[i] = q[i + 1]
          BY <1>3, <1>4, <3>1, <4>2
        <5>. QED  BY <3>1, <5>1
      <4>. QED  BY <4>1, <4>2
    <3>. QED  BY <1>1, <1>4, <3>2 DEF IdsIn, NoRepeat
  <2>2. ASSUME NEW x \in IdsIn(q), x # q[k].req_id PROVE x \in IdsIn(a)
    <3>1. PICK j \in 1 .. n : x = q[j].req_id
      BY <1>1 DEF IdsIn
    <3>2. CASE j < k
      <4>1. j \in 1 .. n - 1
        BY <1>4, <3>2
      <4>. QED  BY <1>3, <3>1, <3>2, <4>1 DEF IdsIn
    <3>3. CASE j > k
      <4>1. j - 1 \in 1 .. n - 1 /\ ~(j - 1 < k) /\ (j - 1) + 1 = j
        BY <1>4, <3>3
      <4>2. a[j - 1] = q[j]
        BY <1>3, <4>1
      <4>. QED  BY <1>3, <3>1, <4>1, <4>2 DEF IdsIn
    <3>. QED  BY <1>4, <2>2, <3>1, <3>2, <3>3
  <2>. QED  BY <2>1, <2>2
<1>6. NoRepeat(a)
  <2>. SUFFICES ASSUME NEW i \in 1 .. n - 1, NEW j \in 1 .. n - 1,
                       a[i].req_id = a[j].req_id
                PROVE  i = j
    BY <1>3 DEF NoRepeat
  <2>1. PICK u \in 1 .. n : u = (IF i < k THEN i ELSE i + 1) /\ a[i] = q[u]
    BY <1>3, <1>4
  <2>2. PICK v \in 1 .. n : v = (IF j < k THEN j ELSE j + 1) /\ a[j] = q[v]
    BY <1>3, <1>4
  <2>3. u = v
    BY <1>1, <2>1, <2>2 DEF NoRepeat
  <2>. QED  BY <1>4, <2>1, <2>2, <2>3
<1>. QED  BY <1>1, <1>2, <1>4, <1>5, <1>6 DEF IdsIn

LEMMA TailIds ==
  ASSUME NEW S, NEW q \in Seq(S), q # <<>>, NoRepeat(q)
  PROVE  /\ IdsIn(Tail(q)) = IdsIn(q) \ {Head(q).req_id}
         /\ NoRepeat(Tail(q)) /\ Head(q).req_id \in IdsIn(q)
<1>1. PICK n \in Nat : n = Len(q) /\ DOMAIN q = 1 .. n
  BY LenProperties
<1>2. PICK a : a = Tail(q)
  OBVIOUS
<1>3. /\ n >= 1 /\ Head(q) = q[1] /\ DOMAIN a = 1 .. n - 1
      /\ \A i \in 1 .. n - 1 : a[i] = q[i + 1]
  BY <1>1, <1>2, HeadTailProperties, LenProperties
<1>4. 1 \in 1 .. n
  BY <1>3
<1>5. IdsIn(a) = IdsIn(q) \ {q[1].req_id}
  <2>1. ASSUME NEW x \in IdsIn(a) PROVE x \in IdsIn(q) /\ x # q[1].req_id
    <3>1. PICK i \in 1 .. n - 1 : x = a[i].req_id
      BY <1>3 DEF IdsIn
    <3>2. i + 1 \in 1 .. n /\ i + 1 # 1 /\ a[i] = q[i + 1]
      BY <1>3, <3>1
    <3>. QED  BY <1>1, <1>4, <3>1, <3>2 DEF IdsIn, NoRepeat
  <2>2. ASSUME NEW x \in IdsIn(q), x # q[1].req_id PROVE x \in IdsIn(a)
    <3>1. PICK j \in 1 .. n : x = q[j].req_id
      BY <1>1 DEF IdsIn
    <3>2. j # 1
      BY <2>2, <3>1
    <3>3. j - 1 \in 1 .. n - 1 /\ (j - 1) + 1 = j
      BY <3>2
    <3>4. a[j - 1] = q[j]
      BY <1>3, <3>3
    <3>. QED  BY <1>3, <3>1, <3>3, <3>4 DEF IdsIn
  <2>. QED  BY <2>1, <2>2
<1>6. NoRepeat(a)
  <2>. SUFFICES ASSUME NEW i \in 1 .. n - 1, NEW j \in 1 .. n - 1,
                       a[i].req_id = a[j].req_id
                PROVE  i = j
    BY <1>3 DEF NoRepeat
  <2>1. i + 1 \in 1 .. n /\ j + 1 \in 1 .. n /\ a[i] = q[i + 1] /\ a[j] = q[j + 1]
    BY <1>3
  <2>2. i + 1 = j + 1
    BY <1>1, <2>1 DEF NoRepeat
  <2>. QED  BY <2>2
<1>7. q[1].req_id \in IdsIn(q)
  BY <1>1, <1>4 DEF IdsIn
<1>. QED  BY <1>2, <1>3, <1>5, <1>6, <1>7

\* Where the requests are: each in one place at most, each with one thread that
\* waits for its response and holds its buffer; while the scheduler is there,
\* none is missing.
ReqsOwned == {local[c].req_id : c \in Conns} \ {NONE}
ReqsIn(map) == {r.req_id : r \in map}
InTransit == IdsIn(request_queue) \cup IdsIn(to_scheduler) \cup IdsIn(from_scheduler)
             \cup ReqsIn(response_map)

OneOwner ==
    \A c, d \in Conns : local[c].req_id = local[d].req_id /\ local[c].req_id # NONE => c = d

OnePlace ==
    /\ NoRepeat(request_queue) /\ NoRepeat(to_scheduler) /\ NoRepeat(from_scheduler)
    /\ \A r, s \in response_map : r.req_id = s.req_id => r = s
    /\ IdsIn(request_queue) \cap IdsIn(to_scheduler) = {}
    /\ IdsIn(request_queue) \cap IdsIn(from_scheduler) = {}
    /\ IdsIn(request_queue) \cap ReqsIn(response_map) = {}
    /\ IdsIn(to_scheduler) \cap IdsIn(from_scheduler) = {}
    /\ IdsIn(to_scheduler) \cap ReqsIn(response_map) = {}
    /\ IdsIn(from_scheduler) \cap ReqsIn(response_map) = {}

WaitsForOwn ==
    \A c \in Conns : local[c].req_id # NONE => pc[c] \in {"await", "asleep", "woken"}

ReqInv ==
    /\ TypeOK /\ OneOwner /\ OnePlace /\ WaitsForOwn
    /\ InTransit \subseteq ReqsOwned
    /\ link = "up" => ReqsOwned \subseteq InTransit
    /\ buffers = ReqsOwned

\* Steps that leave the requests alone.
LEMMA RequestsUntouched ==
  ASSUME ReqInv, TypeOK', \A c \in Conns : local'[c].req_id = local[c].req_id,
         \A c \in Conns : local[c].req_id # NONE => pc'[c] \in {"await", "asleep", "woken"},
         link' = link \/ link' # "up",
         UNCHANGED <<buffers, request_queue, to_scheduler, from_scheduler, response_map>>
  PROVE  ReqInv'
<1>1. ReqsOwned' = ReqsOwned
  BY DEF ReqsOwned
<1>2. InTransit' = InTransit
  BY DEF InTransit, IdsIn, ReqsIn
<1>3. OneOwner' /\ WaitsForOwn'
  BY DEF ReqInv, OneOwner, WaitsForOwn
<1>4. OnePlace'
  <2>1. /\ IdsIn(to_scheduler)' = IdsIn(to_scheduler)
        /\ IdsIn(from_scheduler)' = IdsIn(from_scheduler)
        /\ IdsIn(request_queue)' = IdsIn(request_queue)
        /\ NoRepeat(request_queue)' = NoRepeat(request_queue)
        /\ NoRepeat(to_scheduler)' = NoRepeat(to_scheduler)
        /\ NoRepeat(from_scheduler)' = NoRepeat(from_scheduler)
        /\ ReqsIn(response_map)' = ReqsIn(response_map)
    BY DEF IdsIn, NoRepeat, ReqsIn
  <2>. QED  BY <2>1 DEF ReqInv, OnePlace
<1>. QED  BY <1>1, <1>2, <1>3, <1>4 DEF ReqInv

LEMMA ServiceRequests ==
  ASSUME ReqInv, TypeOK', NEW c \in Conns, ServiceThread(c)
  PROVE  ReqInv'
<1>. USE DEF Goto, At, net_vars, quota_vars
<1>0. /\ local[c] \in Local /\ pc \in [Conns -> Pcs] /\ local \in [Conns -> Local]
      /\ TypeOK
  BY DEF ReqInv, TypeOK
<1>w. \A d \in Conns : local[d].req_id # NONE => pc[d] \in {"await", "asleep", "woken"}
  BY DEF ReqInv, WaitsForOwn
<1>1. CASE \/ PassGate(c) \/ WaitAtGate(c) \/ AwaitResponse(c) \/ NotMine(c) \/ UpdateBurst(c)
           \/ CompareQuota(c) \/ AnnounceUpdate(c)
  <2>1. \A d \in Conns : local[d].req_id # NONE => pc'[d] \in {"await", "asleep", "woken"}
    BY <1>0, <1>1, <1>w DEF PassGate, WaitAtGate, AwaitResponse, NotMine, UpdateBurst,
       CompareQuota, AnnounceUpdate
  <2>2. UNCHANGED <<local, link, buffers, request_queue, to_scheduler, from_scheduler, response_map>>
    BY <1>1 DEF PassGate, WaitAtGate, AwaitResponse, NotMine, UpdateBurst,
       CompareQuota, AnnounceUpdate
  <2>. QED  BY <2>1, <2>2, RequestsUntouched
<1>2. CASE ReadOveruse(c) \/ StoreOveruse(c) \/ ReadElapsed(c) \/ EstimateBurst(c)
  <2>1. \A d \in Conns : local[d].req_id # NONE => pc'[d] \in {"await", "asleep", "woken"}
    BY <1>0, <1>2, <1>w DEF ReadOveruse, StoreOveruse, ReadElapsed, EstimateBurst
  <2>2. \A d \in Conns : local'[d].req_id = local[d].req_id
    BY <1>0, <1>2 DEF ReadOveruse, StoreOveruse, ReadElapsed, EstimateBurst, Local
  <2>3. UNCHANGED <<link, buffers, request_queue, to_scheduler, from_scheduler, response_map>>
    BY <1>2 DEF ReadOveruse, StoreOveruse, ReadElapsed, EstimateBurst
  <2>. QED  BY <2>1, <2>2, <2>3, RequestsUntouched
<1>3. CASE Finish(c)
  <2>1. local[c].req_id = NONE
    BY <1>3, <1>w DEF Finish
  <2>2. \A d \in Conns : local'[d].req_id = local[d].req_id
    BY <1>0, <1>3, <2>1 DEF Finish, Idle
  <2>3. \A d \in Conns : local[d].req_id # NONE => pc'[d] \in {"await", "asleep", "woken"}
    BY <1>0, <1>3, <1>w, <2>1 DEF Finish
  <2>4. UNCHANGED <<link, buffers, request_queue, to_scheduler, from_scheduler, response_map>>
    BY <1>3 DEF Finish
  <2>. QED  BY <2>2, <2>3, <2>4, RequestsUntouched
<1>4. ASSUME NEW id \in ReqIds, EnqueueRequest(c, id) PROVE ReqInv'
  <2>1. PICK m \in Request :
          m = [req_id |-> id, overuse |-> pod_overuse_ms, burst |-> local[c].max_burst]
    BY <1>0 DEF Request, TypeOK, Local
  <2>2. /\ request_queue' = Append(request_queue, m) /\ m.req_id = id
        /\ local' = [local EXCEPT ![c].req_id = id]
        /\ buffers' = buffers \cup {id} /\ pc' = [pc EXCEPT ![c] = "await"]
        /\ UNCHANGED <<to_scheduler, link, from_scheduler, response_map>>
        /\ id \notin Pending /\ pc[c] = "enqueue"
    BY <1>4, <2>1 DEF EnqueueRequest
  <2>3. id \notin InTransit /\ (\A d \in Conns : local[d].req_id # id) /\ id # NONE
    BY <2>2, IdAssumption DEF Pending, InTransit, IdsIn, ReqsIn
  <2>4. /\ local'[c].req_id = id
        /\ \A d \in Conns : d # c => local'[d].req_id = local[d].req_id
        /\ local[c].req_id = NONE
    BY <1>0, <1>w, <2>2 DEF Local
  <2>5. ReqsOwned' = ReqsOwned \cup {id}
    BY <2>3, <2>4 DEF ReqsOwned
  <2>6. /\ IdsIn(request_queue)' = IdsIn(request_queue) \cup {id}
        /\ NoRepeat(request_queue)'
    <3>1. request_queue \in Seq(Request) /\ NoRepeat(request_queue)
      BY DEF ReqInv, OnePlace, TypeOK
    <3>2. id \notin IdsIn(request_queue)
      BY <2>3 DEF InTransit
    <3>3. /\ IdsIn(Append(request_queue, m)) = IdsIn(request_queue) \cup {m.req_id}
          /\ NoRepeat(Append(request_queue, m))
      BY <2>2, <3>1, <3>2, AppendIds
    <3>. QED  BY <2>2, <3>3 DEF IdsIn, NoRepeat
  <2>7. /\ IdsIn(to_scheduler)' = IdsIn(to_scheduler)
        /\ IdsIn(from_scheduler)' = IdsIn(from_scheduler)
        /\ ReqsIn(response_map)' = ReqsIn(response_map)
        /\ NoRepeat(to_scheduler)' = NoRepeat(to_scheduler)
        /\ NoRepeat(from_scheduler)' = NoRepeat(from_scheduler)
    BY <2>2 DEF IdsIn, ReqsIn, NoRepeat
  <2>8. InTransit' = InTransit \cup {id}
    BY <2>6, <2>7 DEF InTransit
  <2>9. OnePlace'
    BY <2>2, <2>3, <2>6, <2>7 DEF ReqInv, OnePlace, InTransit
  <2>10. OneOwner'
    BY <2>3, <2>4 DEF ReqInv, OneOwner
  <2>11. WaitsForOwn'
    BY <1>0, <1>w, <2>2, <2>4 DEF WaitsForOwn
  <2>. QED  BY <2>2, <2>5, <2>8, <2>9, <2>10, <2>11 DEF ReqInv
<1>5. CASE TakeResponse(c)
  <2>1. PICK r \in response_map : r.req_id = local[c].req_id /\ response_map' = response_map \ {r}
    BY <1>5 DEF TakeResponse
  <2>2. PICK id \in ReqIds : id = local[c].req_id /\ id = r.req_id /\ id # NONE
    BY <1>0, <2>1, IdAssumption DEF TypeOK, Response
  <2>3. /\ buffers' = buffers \ {id} /\ pc' = [pc EXCEPT ![c] = "updated"]
        /\ local' = [local EXCEPT ![c].elapsed = 0, ![c].req_id = NONE]
        /\ UNCHANGED <<request_queue, to_scheduler, link, from_scheduler>>
    BY <1>5, <2>2 DEF TakeResponse
  <2>4. /\ local'[c].req_id = NONE
        /\ \A d \in Conns : d # c => local'[d].req_id = local[d].req_id
    BY <1>0, <2>3 DEF Local
  <2>5. \A d \in Conns : d # c => local[d].req_id # id
    BY <2>2 DEF ReqInv, OneOwner
  <2>6. ReqsOwned' = ReqsOwned \ {id}
    <3>1. \A x \in ReqsOwned' : x \in ReqsOwned /\ x # id
      BY <2>4, <2>5 DEF ReqsOwned
    <3>2. \A x \in ReqsOwned : x # id => x \in ReqsOwned'
      BY <2>2, <2>4 DEF ReqsOwned
    <3>. QED  BY <3>1, <3>2
  <2>7. ReqsIn(response_map)' = ReqsIn(response_map) \ {id} /\ id \in ReqsIn(response_map)
    BY <2>1, <2>2 DEF ReqInv, OnePlace, ReqsIn
  <2>8. /\ IdsIn(to_scheduler)' = IdsIn(to_scheduler)
        /\ IdsIn(from_scheduler)' = IdsIn(from_scheduler)
        /\ IdsIn(request_queue)' = IdsIn(request_queue)
        /\ NoRepeat(request_queue)' = NoRepeat(request_queue)
        /\ NoRepeat(to_scheduler)' = NoRepeat(to_scheduler)
        /\ NoRepeat(from_scheduler)' = NoRepeat(from_scheduler)
    BY <2>3 DEF IdsIn, NoRepeat
  <2>9. InTransit' = InTransit \ {id}
    BY <2>7, <2>8 DEF InTransit, ReqInv, OnePlace
  <2>10. OnePlace'
    BY <2>1, <2>7, <2>8 DEF ReqInv, OnePlace
  <2>11. OneOwner'
    BY <2>4 DEF ReqInv, OneOwner
  <2>12. WaitsForOwn'
    BY <1>0, <1>w, <2>3, <2>4 DEF WaitsForOwn
  <2>. QED  BY <2>3, <2>6, <2>9, <2>10, <2>11, <2>12 DEF ReqInv
<1>. QED  BY <1>1, <1>2, <1>3, <1>4, <1>5 DEF ServiceThread

\* A request moves from one list to the next.
LEMMA NetRequests ==
  ASSUME ReqInv, TypeOK', Sender \/ SchedulerAnswersSome
  PROVE  ReqInv'
<1>0. TypeOK /\ OnePlace
  BY DEF ReqInv
<1>1. /\ UNCHANGED <<pc, local, buffers, link, response_map>>
      /\ OneOwner' /\ WaitsForOwn' /\ ReqsOwned' = ReqsOwned
      /\ ReqsIn(response_map)' = ReqsIn(response_map)
  <2>1. UNCHANGED <<pc, local, buffers, link, response_map>>
    BY DEF Sender, SenderWaits, SenderForwards, SenderFails, SchedulerAnswersSome, SchedulerAnswers
  <2>2. OneOwner' /\ WaitsForOwn'
    BY <2>1 DEF ReqInv, OneOwner, WaitsForOwn
  <2>. QED  BY <2>1, <2>2 DEF ReqsOwned, ReqsIn
<1>2. CASE UNCHANGED <<request_queue, to_scheduler, from_scheduler>>
  <2>1. \A c \in Conns : local[c].req_id # NONE => pc'[c] \in {"await", "asleep", "woken"}
    BY <1>1 DEF ReqInv, WaitsForOwn
  <2>. QED  BY <1>1, <1>2, <2>1, RequestsUntouched
<1>3. CASE SenderForwards /\ request_queue # <<>>
  <2>1. PICK m \in Request : m = Head(request_queue)
    BY <1>0, <1>3, HeadTailProperties DEF TypeOK
  <2>2. /\ IdsIn(Tail(request_queue)) = IdsIn(request_queue) \ {m.req_id}
        /\ NoRepeat(Tail(request_queue)) /\ m.req_id \in IdsIn(request_queue)
    BY <1>0, <1>3, <2>1, TailIds DEF TypeOK, OnePlace
  <2>3. m.req_id \notin IdsIn(to_scheduler)
    BY <1>0, <2>2 DEF OnePlace
  <2>4. /\ IdsIn(Append(to_scheduler, m)) = IdsIn(to_scheduler) \cup {m.req_id}
        /\ NoRepeat(Append(to_scheduler, m))
    BY <1>0, <2>3, AppendIds DEF TypeOK, OnePlace
  <2>5. /\ to_scheduler' = Append(to_scheduler, m) /\ request_queue' = Tail(request_queue)
        /\ from_scheduler' = from_scheduler
    BY <1>3, <2>1 DEF SenderForwards
  <2>6. /\ IdsIn(request_queue)' = IdsIn(request_queue) \ {m.req_id} /\ NoRepeat(request_queue)'
        /\ IdsIn(to_scheduler)' = IdsIn(to_scheduler) \cup {m.req_id} /\ NoRepeat(to_scheduler)'
        /\ IdsIn(from_scheduler)' = IdsIn(from_scheduler)
        /\ NoRepeat(from_scheduler)' = NoRepeat(from_scheduler)
    <3>1. /\ IdsIn(request_queue)' = IdsIn(Tail(request_queue))
          /\ NoRepeat(request_queue)' = NoRepeat(Tail(request_queue))
      BY <2>5 DEF IdsIn, NoRepeat
    <3>2. /\ IdsIn(to_scheduler)' = IdsIn(Append(to_scheduler, m))
          /\ NoRepeat(to_scheduler)' = NoRepeat(Append(to_scheduler, m))
      BY <2>5 DEF IdsIn, NoRepeat
    <3>3. /\ IdsIn(from_scheduler)' = IdsIn(from_scheduler)
          /\ NoRepeat(from_scheduler)' = NoRepeat(from_scheduler)
      BY <2>5 DEF IdsIn, NoRepeat
    <3>. QED  BY <2>2, <2>4, <3>1, <3>2, <3>3
  <2>7. OnePlace'
    BY <1>0, <1>1, <2>2, <2>6 DEF OnePlace
  <2>8. InTransit' = InTransit
    BY <1>1, <2>2, <2>6 DEF InTransit
  <2>. QED  BY <1>1, <2>7, <2>8 DEF ReqInv
<1>4. CASE SenderFails /\ request_queue # <<>>
  <2>1. PICK m \in Request : m = Head(request_queue)
    BY <1>0, <1>4, HeadTailProperties DEF TypeOK
  <2>2. /\ IdsIn(Tail(request_queue)) = IdsIn(request_queue) \ {m.req_id}
        /\ NoRepeat(Tail(request_queue))
    BY <1>0, <1>4, <2>1, TailIds DEF TypeOK, OnePlace
  <2>3. /\ request_queue' = Tail(request_queue) /\ link # "up"
        /\ UNCHANGED <<to_scheduler, from_scheduler>>
    BY <1>4 DEF SenderFails
  <2>4. /\ IdsIn(request_queue)' = IdsIn(request_queue) \ {m.req_id} /\ NoRepeat(request_queue)'
        /\ IdsIn(to_scheduler)' = IdsIn(to_scheduler)
        /\ NoRepeat(to_scheduler)' = NoRepeat(to_scheduler)
        /\ IdsIn(from_scheduler)' = IdsIn(from_scheduler)
        /\ NoRepeat(from_scheduler)' = NoRepeat(from_scheduler)
    BY <2>2, <2>3 DEF IdsIn, NoRepeat
  <2>5. OnePlace'
    BY <1>0, <1>1, <2>4 DEF OnePlace
  <2>6. InTransit' \subseteq InTransit
    BY <1>1, <2>4 DEF InTransit
  <2>. QED  BY <1>1, <2>3, <2>5, <2>6 DEF ReqInv
<1>5. ASSUME NEW i \in DOMAIN to_scheduler, NEW q \in Quotas, SchedulerAnswers(i, q)
      PROVE  ReqInv'
  <2>1. to_scheduler[i] \in Request
    BY <1>0, ElementOfSeq DEF TypeOK
  <2>2. PICK r \in Response : r = [req_id |-> to_scheduler[i].req_id, quota |-> q]
    BY <2>1 DEF Request, Response
  <2>3. /\ IdsIn(RemoveAt(to_scheduler, i)) = IdsIn(to_scheduler) \ {to_scheduler[i].req_id}
        /\ NoRepeat(RemoveAt(to_scheduler, i))
        /\ to_scheduler[i].req_id \in IdsIn(to_scheduler)
    BY <1>0, RemoveIds DEF TypeOK, OnePlace
  <2>4. r.req_id = to_scheduler[i].req_id /\ r.req_id \notin IdsIn(from_scheduler)
    BY <1>0, <2>2, <2>3 DEF OnePlace
  <2>5. /\ IdsIn(Append(from_scheduler, r)) = IdsIn(from_scheduler) \cup {r.req_id}
        /\ NoRepeat(Append(from_scheduler, r))
    BY <1>0, <2>4, AppendIds DEF TypeOK, OnePlace
  <2>6. /\ from_scheduler' = Append(from_scheduler, r) /\ to_scheduler' = RemoveAt(to_scheduler, i)
        /\ request_queue' = request_queue
    BY <1>5, <2>2 DEF SchedulerAnswers
  <2>7. /\ IdsIn(to_scheduler)' = IdsIn(to_scheduler) \ {r.req_id} /\ NoRepeat(to_scheduler)'
        /\ IdsIn(from_scheduler)' = IdsIn(from_scheduler) \cup {r.req_id}
        /\ NoRepeat(from_scheduler)'
        /\ IdsIn(request_queue)' = IdsIn(request_queue)
        /\ NoRepeat(request_queue)' = NoRepeat(request_queue)
    <3>1. /\ IdsIn(to_scheduler)' = IdsIn(RemoveAt(to_scheduler, i))
          /\ NoRepeat(to_scheduler)' = NoRepeat(RemoveAt(to_scheduler, i))
      BY <2>6 DEF IdsIn, NoRepeat
    <3>2. /\ IdsIn(from_scheduler)' = IdsIn(Append(from_scheduler, r))
          /\ NoRepeat(from_scheduler)' = NoRepeat(Append(from_scheduler, r))
      BY <2>6 DEF IdsIn, NoRepeat
    <3>3. /\ IdsIn(request_queue)' = IdsIn(request_queue)
          /\ NoRepeat(request_queue)' = NoRepeat(request_queue)
      BY <2>6 DEF IdsIn, NoRepeat
    <3>. QED  BY <2>3, <2>4, <2>5, <3>1, <3>2, <3>3
  <2>8. OnePlace'
    BY <1>0, <1>1, <2>3, <2>4, <2>7 DEF OnePlace
  <2>9. InTransit' = InTransit
    BY <1>1, <2>3, <2>4, <2>7 DEF InTransit
  <2>. QED  BY <1>1, <2>8, <2>9 DEF ReqInv
<1>6. CASE Sender /\ request_queue = <<>>
  <2>1. UNCHANGED <<request_queue, to_scheduler, from_scheduler>>
    BY <1>6 DEF Sender, SenderWaits, SenderForwards, SenderFails
  <2>. QED  BY <1>2, <2>1
<1>7. CASE SenderWaits
  BY <1>2, <1>7 DEF SenderWaits
<1>. QED  BY <1>3, <1>4, <1>5, <1>6, <1>7 DEF Sender, SchedulerAnswersSome

LEMMA ReceiveRequests ==
  ASSUME ReqInv, TypeOK', ReceiveResponse
  PROVE  ReqInv'
<1>0. TypeOK /\ OnePlace
  BY DEF ReqInv
<1>1. PICK r \in Response : r = Head(from_scheduler)
  BY <1>0, HeadTailProperties DEF TypeOK, ReceiveResponse
<1>2. /\ IdsIn(Tail(from_scheduler)) = IdsIn(from_scheduler) \ {r.req_id}
      /\ NoRepeat(Tail(from_scheduler)) /\ r.req_id \in IdsIn(from_scheduler)
  BY <1>0, <1>1, TailIds DEF TypeOK, OnePlace, ReceiveResponse
<1>3. /\ from_scheduler' = Tail(from_scheduler) /\ response_map' = response_map \cup {r}
      /\ UNCHANGED <<local, buffers, request_queue, to_scheduler, link>>
      /\ pc' = [c \in Conns |-> IF At(c, "asleep") THEN "woken" ELSE pc[c]]
  BY <1>1 DEF ReceiveResponse
<1>4. /\ IdsIn(from_scheduler)' = IdsIn(from_scheduler) \ {r.req_id} /\ NoRepeat(from_scheduler)'
      /\ IdsIn(request_queue)' = IdsIn(request_queue)
      /\ NoRepeat(request_queue)' = NoRepeat(request_queue)
      /\ IdsIn(to_scheduler)' = IdsIn(to_scheduler)
      /\ NoRepeat(to_scheduler)' = NoRepeat(to_scheduler)
      /\ ReqsIn(response_map)' = ReqsIn(response_map) \cup {r.req_id}
  BY <1>2, <1>3 DEF IdsIn, NoRepeat, ReqsIn
<1>5. \A s \in response_map : s.req_id # r.req_id
  BY <1>0, <1>2 DEF OnePlace, ReqsIn
<1>6. OnePlace'
  <2>1. \A s, t \in response_map' : s.req_id = t.req_id => s = t
    <3>. SUFFICES ASSUME NEW s \in response_map', NEW t \in response_map', s.req_id = t.req_id
                  PROVE  s = t
      OBVIOUS
    <3>1. s \in response_map \/ s = r
      BY <1>3
    <3>2. t \in response_map \/ t = r
      BY <1>3
    <3>. QED  BY <1>0, <1>5, <3>1, <3>2 DEF OnePlace
  <2>2. /\ r.req_id \notin IdsIn(request_queue) /\ r.req_id \notin IdsIn(to_scheduler)
    BY <1>0, <1>2 DEF OnePlace
  <2>3. /\ (IdsIn(request_queue) \cap IdsIn(to_scheduler))' = {}
        /\ (IdsIn(request_queue) \cap IdsIn(from_scheduler))' = {}
        /\ (IdsIn(request_queue) \cap ReqsIn(response_map))' = {}
        /\ (IdsIn(to_scheduler) \cap IdsIn(from_scheduler))' = {}
        /\ (IdsIn(to_scheduler) \cap ReqsIn(response_map))' = {}
        /\ (IdsIn(from_scheduler) \cap ReqsIn(response_map))' = {}
    BY <1>0, <1>4, <2>2 DEF OnePlace
  <2>4. NoRepeat(request_queue)' /\ NoRepeat(to_scheduler)' /\ NoRepeat(from_scheduler)'
    BY <1>0, <1>4 DEF OnePlace
  <2>. QED  BY <2>1, <2>3, <2>4 DEF OnePlace
<1>7. InTransit' = InTransit
  BY <1>2, <1>4 DEF InTransit
<1>8. OneOwner' /\ WaitsForOwn' /\ ReqsOwned' = ReqsOwned
  BY <1>3 DEF ReqInv, OneOwner, WaitsForOwn, ReqsOwned, At
<1>. QED  BY <1>3, <1>6, <1>7, <1>8 DEF ReqInv

LEMMA LoseRequests ==
  ASSUME ReqInv, TypeOK', LoseScheduler
  PROVE  ReqInv'
<1>1. /\ to_scheduler' = <<>> /\ link' # "up"
      /\ UNCHANGED <<pc, local, buffers, request_queue, response_map>>
  BY DEF LoseScheduler
<1>2. /\ IdsIn(to_scheduler)' = {} /\ NoRepeat(to_scheduler)'
      /\ IdsIn(request_queue)' = IdsIn(request_queue)
      /\ NoRepeat(request_queue)' = NoRepeat(request_queue)
      /\ ReqsIn(response_map)' = ReqsIn(response_map)
  BY <1>1 DEF IdsIn, NoRepeat, ReqsIn
<1>3. IdsIn(from_scheduler)' \subseteq IdsIn(from_scheduler) /\ NoRepeat(from_scheduler)'
  <2>1. CASE from_scheduler' = from_scheduler
    BY <2>1 DEF ReqInv, OnePlace, IdsIn, NoRepeat
  <2>2. CASE from_scheduler' = <<>>
    BY <2>2 DEF IdsIn, NoRepeat
  <2>. QED  BY <2>1, <2>2 DEF LoseScheduler
<1>4. OnePlace'
  BY <1>1, <1>2, <1>3 DEF ReqInv, OnePlace
<1>5. InTransit' \subseteq InTransit
  BY <1>2, <1>3 DEF InTransit
<1>6. OneOwner' /\ WaitsForOwn' /\ ReqsOwned' = ReqsOwned
  BY <1>1 DEF ReqInv, OneOwner, WaitsForOwn, ReqsOwned
<1>. QED  BY <1>1, <1>4, <1>5, <1>6 DEF ReqInv

LEMMA NextReqInv == ReqInv /\ [Next]_vars => ReqInv'
<1>. SUFFICES ASSUME ReqInv, [Next]_vars PROVE ReqInv'
  OBVIOUS
<1>. USE DEF Goto, At, net_vars, quota_vars
<1>0. TypeOK /\ TypeOK'
  BY NextTyped DEF ReqInv
<1>t. pc \in [Conns -> Pcs] /\ local \in [Conns -> Local]
  BY <1>0 DEF TypeOK
<1>w. \A d \in Conns : local[d].req_id # NONE => pc[d] \in {"await", "asleep", "woken"}
  BY DEF ReqInv, WaitsForOwn
<1>1. ASSUME NEW c \in Conns, Accept(c) \/ Close(c) PROVE ReqInv'
  <2>1. \A d \in Conns : local[d].req_id # NONE => pc'[d] \in {"await", "asleep", "woken"}
    BY <1>1, <1>t, <1>w DEF Accept, Close
  <2>2. UNCHANGED <<local, link, buffers, request_queue, to_scheduler, from_scheduler, response_map>>
    BY <1>1 DEF Accept, Close
  <2>. QED  BY <1>0, <2>1, <2>2, RequestsUntouched
<1>2. ASSUME NEW c \in Conns, NEW o \in Overuses, NEW b \in Bursts, Launch(c, o, b)
      PROVE  ReqInv'
  <2>1. local[c].req_id = NONE
    BY <1>2, <1>w DEF Launch
  <2>2. \A d \in Conns : local'[d].req_id = local[d].req_id
    BY <1>2, <1>t, <2>1 DEF Launch, Idle
  <2>3. \A d \in Conns : local[d].req_id # NONE => pc'[d] \in {"await", "asleep", "woken"}
    BY <1>2, <1>t, <1>w, <2>1 DEF Launch
  <2>4. UNCHANGED <<link, buffers, request_queue, to_scheduler, from_scheduler, response_map>>
    BY <1>2 DEF Launch
  <2>. QED  BY <1>0, <2>2, <2>3, <2>4, RequestsUntouched
<1>3. CASE ReceiverCloses \/ Tick \/ SpuriousWakeup \/ UNCHANGED vars
  <2>1. /\ UNCHANGED <<local, buffers, request_queue, to_scheduler, from_scheduler, response_map>>
        /\ link' = link \/ link' # "up"
    BY <1>3 DEF ReceiverCloses, Tick, SpuriousWakeup, vars
  <2>2. \A d \in Conns : local[d].req_id # NONE => pc'[d] \in {"await", "asleep", "woken"}
    BY <1>3, <1>t, <1>w DEF ReceiverCloses, Tick, SpuriousWakeup, vars
  <2>. QED  BY <1>0, <2>1, <2>2, RequestsUntouched
<1>. QED
  BY <1>0, <1>1, <1>2, <1>3, ServiceRequests, NetRequests, ReceiveRequests, LoseRequests DEF Next

LEMMA InitReqInv == Init => ReqInv
<1>. SUFFICES ASSUME Init PROVE ReqInv
  OBVIOUS
<1>1. TypeOK
  BY DEF Init, TypeOK, Idle, Local, Pcs
<1>2. ReqsOwned = {} /\ OneOwner /\ WaitsForOwn
  BY DEF Init, ReqsOwned, Idle, OneOwner, WaitsForOwn
<1>3. /\ IdsIn(request_queue) = {} /\ IdsIn(to_scheduler) = {} /\ IdsIn(from_scheduler) = {}
      /\ ReqsIn(response_map) = {} /\ NoRepeat(request_queue) /\ NoRepeat(to_scheduler)
      /\ NoRepeat(from_scheduler)
  BY DEF Init, IdsIn, ReqsIn, NoRepeat
<1>4. OnePlace
  BY <1>3 DEF OnePlace, Init
<1>. QED  BY <1>1, <1>2, <1>3, <1>4 DEF ReqInv, InTransit, Init

\* A list without repetition holds an id once, or not at all.
LEMMA CountInList ==
  ASSUME NEW q, NoRepeat(q), NEW id
  PROVE  Cardinality({i \in DOMAIN q : q[i].req_id = id}) = IF id \in IdsIn(q) THEN 1 ELSE 0
<1>1. CASE id \in IdsIn(q)
  <2>1. PICK k \in DOMAIN q : q[k].req_id = id
    BY <1>1 DEF IdsIn
  <2>2. {i \in DOMAIN q : q[i].req_id = id} = {k}
    BY <2>1 DEF NoRepeat
  <2>. QED  BY <1>1, <2>2, FS_Singleton
<1>2. CASE id \notin IdsIn(q)
  <2>1. {i \in DOMAIN q : q[i].req_id = id} = {}
    BY <1>2 DEF IdsIn
  <2>. QED  BY <1>2, <2>1, FS_EmptySet
<1>. QED  BY <1>1, <1>2

\* A quota request is in one place from the enqueue to the take of its response,
\* and its buffer is allocated all the while: for any number of connections and
\* requests, with a scheduler that answers in any order and may go away.
THEOREM RequestsAreConserved == Spec => []RequestsConserved
<1>1. ReqInv => RequestsConserved
  <2>. SUFFICES ASSUME ReqInv, NEW id \in ReqIds
                PROVE  LET owners == {c \in Conns : local[c].req_id = id} IN
                       /\ Cardinality(owners) <= 1
                       /\ Places(id) <= Cardinality(owners)
                       /\ link = "up" => Places(id) = Cardinality(owners)
                       /\ owners # {} <=> id \in buffers
    BY DEF RequestsConserved
  <2>. DEFINE owners == {c \in Conns : local[c].req_id = id}
  <2>0. id # NONE
    BY IdAssumption
  <2>1. /\ Cardinality(owners) = IF id \in ReqsOwned THEN 1 ELSE 0
        /\ owners # {} <=> id \in ReqsOwned
    <3>1. CASE id \in ReqsOwned
      <4>1. PICK c \in Conns : local[c].req_id = id
        BY <3>1 DEF ReqsOwned
      <4>2. owners = {c}
        BY <2>0, <4>1 DEF ReqInv, OneOwner
      <4>. QED  BY <3>1, <4>2, FS_Singleton
    <3>2. CASE id \notin ReqsOwned
      <4>1. owners = {}
        BY <2>0, <3>2 DEF ReqsOwned
      <4>. QED  BY <3>2, <4>1, FS_EmptySet
    <3>. QED  BY <3>1, <3>2
  <2>. HIDE DEF owners
  <2>2. PICK a \in {0, 1} :
          /\ a = Cardinality({i \in DOMAIN request_queue : request_queue[i].req_id = id})
          /\ a = IF id \in IdsIn(request_queue) THEN 1 ELSE 0
    BY CountInList DEF ReqInv, OnePlace
  <2>3. PICK b \in {0, 1} :
          /\ b = Cardinality({i \in DOMAIN to_scheduler : to_scheduler[i].req_id = id})
          /\ b = IF id \in IdsIn(to_scheduler) THEN 1 ELSE 0
    BY CountInList DEF ReqInv, OnePlace
  <2>4. PICK d \in {0, 1} :
          /\ d = Cardinality({i \in DOMAIN from_scheduler : from_scheduler[i].req_id = id})
          /\ d = IF id \in IdsIn(from_scheduler) THEN 1 ELSE 0
    BY CountInList DEF ReqInv, OnePlace
  <2>5. PICK e \in {0, 1} :
          /\ e = Cardinality({r \in response_map : r.req_id = id})
          /\ e = IF id \in ReqsIn(response_map) THEN 1 ELSE 0
    <3>1. CASE id \in ReqsIn(response_map)
      <4>1. PICK r \in response_map : r.req_id = id
        BY <3>1 DEF ReqsIn
      <4>2. {s \in response_map : s.req_id = id} = {r}
        BY <4>1 DEF ReqInv, OnePlace
      <4>. QED  BY <3>1, <4>2, FS_Singleton
    <3>2. CASE id \notin ReqsIn(response_map)
      <4>1. {s \in response_map : s.req_id = id} = {}
        BY <3>2 DEF ReqsIn
      <4>. QED  BY <3>2, <4>1, FS_EmptySet
    <3>. QED  BY <3>1, <3>2
  <2>6. Places(id) = a + b + d + e
    BY <2>2, <2>3, <2>4, <2>5 DEF Places
  <2>7. a + b + d + e = IF id \in InTransit THEN 1 ELSE 0
    BY <2>2, <2>3, <2>4, <2>5 DEF ReqInv, OnePlace, InTransit
  <2>8. /\ id \in InTransit => id \in ReqsOwned
        /\ link = "up" /\ id \in ReqsOwned => id \in InTransit
        /\ id \in buffers <=> id \in ReqsOwned
    BY DEF ReqInv
  <2>9. /\ Cardinality(owners) <= 1
        /\ Places(id) <= Cardinality(owners)
        /\ link = "up" => Places(id) = Cardinality(owners)
        /\ owners # {} <=> id \in buffers
    BY <2>1, <2>6, <2>7, <2>8
  <2>. QED  BY <2>9 DEF owners
<1>. QED  BY <1>1, InitReqInv, NextReqInv, PTL DEF Spec

-----------------------------------------------------------------------------
(* RequestCoversBurst.  A thread's own burst is in client_burst_map from    *)
(* UpdateBurst on, so the estimate is at least as large, and nothing        *)
(* changes either until the request is queued.                              *)

BurstListed ==
    \A c \in Conns : pc[c] \in {"elapsed", "compare", "expired", "estimate"}
                        => client_burst_map[c] = local[c].burst

BurstEstimated ==
    \A c \in Conns : pc[c] \in {"enqueue", "await", "asleep", "woken"}
                        => local[c].max_burst >= local[c].burst

BurstInv == ReqInv /\ BurstListed /\ BurstEstimated /\ RequestCoversBurst

\* Whoever only takes from the queue leaves every request above the burst of its owner.
LEMMA CoverKept ==
  ASSUME ReqInv, RequestCoversBurst, TypeOK',
         \A i \in DOMAIN request_queue' : \E j \in DOMAIN request_queue :
                                             request_queue'[i] = request_queue[j],
         \A c \in Conns : \/ local'[c].req_id = NONE
                          \/ local'[c].req_id = local[c].req_id /\ local'[c].burst = local[c].burst
  PROVE  RequestCoversBurst'
<1>. SUFFICES ASSUME NEW c \in Conns, NEW i \in DOMAIN request_queue',
                     request_queue'[i].req_id = local'[c].req_id
              PROVE  request_queue'[i].burst >= local'[c].burst
  BY DEF RequestCoversBurst
<1>1. PICK j \in DOMAIN request_queue : request_queue'[i] = request_queue[j]
  OBVIOUS
<1>2. request_queue[j] \in Request
  BY ElementOfSeq DEF ReqInv, TypeOK
<1>3. local'[c].req_id # NONE
  BY <1>1, <1>2, IdAssumption DEF Request
<1>. QED  BY <1>1, <1>3 DEF RequestCoversBurst

LEMMA ServiceCovers ==
  ASSUME BurstInv, TypeOK', NEW c \in Conns, ServiceThread(c)
  PROVE  BurstListed' /\ BurstEstimated' /\ RequestCoversBurst'
<1>. USE DEF Goto, At, net_vars, quota_vars
<1>0. /\ local[c] \in Local /\ pc \in [Conns -> Pcs] /\ local \in [Conns -> Local]
      /\ TypeOK /\ ReqInv /\ client_burst_map \in [Conns -> Nat \cup {NONE}]
  BY DEF BurstInv, ReqInv, TypeOK
<1>l. \A d \in Conns : pc[d] \in {"elapsed", "compare", "expired", "estimate"}
                          => client_burst_map[d] = local[d].burst
  BY DEF BurstInv, BurstListed
<1>e. \A d \in Conns : pc[d] \in {"enqueue", "await", "asleep", "woken"}
                          => local[d].max_burst >= local[d].burst
  BY DEF BurstInv, BurstEstimated
<1>w. local[c].req_id # NONE => pc[c] \in {"await", "asleep", "woken"}
  BY <1>0 DEF ReqInv, WaitsForOwn
<1>1. CASE \/ PassGate(c) \/ WaitAtGate(c) \/ AwaitResponse(c) \/ NotMine(c)
           \/ CompareQuota(c) \/ AnnounceUpdate(c) \/ UpdateBurst(c)
  <2>0. UNCHANGED <<local, request_queue>>
    BY <1>1 DEF PassGate, WaitAtGate, AwaitResponse, NotMine, UpdateBurst, CompareQuota,
                AnnounceUpdate
  <2>1. \A d \in Conns : pc'[d] \in {"elapsed", "compare", "expired", "estimate"}
                            => client_burst_map'[d] = local'[d].burst
    BY <1>0, <1>1, <1>l, <2>0 DEF PassGate, WaitAtGate, AwaitResponse, NotMine, UpdateBurst,
                                  CompareQuota, AnnounceUpdate
  <2>2. \A d \in Conns : pc'[d] \in {"enqueue", "await", "asleep", "woken"}
                            => local'[d].max_burst >= local'[d].burst
    BY <1>0, <1>1, <1>e, <2>0 DEF PassGate, WaitAtGate, AwaitResponse, NotMine, UpdateBurst,
                                  CompareQuota, AnnounceUpdate
  <2>3. RequestCoversBurst'
    BY <2>0 DEF BurstInv, RequestCoversBurst
  <2>. QED  BY <2>1, <2>2, <2>3 DEF BurstListed, BurstEstimated
<1>2. CASE ReadOveruse(c) \/ StoreOveruse(c) \/ ReadElapsed(c)
  <2>0. /\ UNCHANGED <<client_burst_map, request_queue>>
        /\ \A d \in Conns : /\ local'[d].burst = local[d].burst
                            /\ local'[d].max_burst = local[d].max_burst
                            /\ local'[d].req_id = local[d].req_id
    BY <1>0, <1>2 DEF ReadOveruse, StoreOveruse, ReadElapsed, Local
  <2>1. \A d \in Conns : pc'[d] \in {"elapsed", "compare", "expired", "estimate"}
                            => client_burst_map'[d] = local'[d].burst
    BY <1>0, <1>2, <1>l, <2>0 DEF ReadOveruse, StoreOveruse, ReadElapsed
  <2>2. \A d \in Conns : pc'[d] \in {"enqueue", "await", "asleep", "woken"}
                            => local'[d].max_burst >= local'[d].burst
    BY <1>0, <1>2, <1>e, <2>0 DEF ReadOveruse, StoreOveruse, ReadElapsed
  <2>3. RequestCoversBurst'
    BY <2>0 DEF BurstInv, RequestCoversBurst
  <2>. QED  BY <2>1, <2>2, <2>3 DEF BurstListed, BurstEstimated
<1>3. CASE EstimateBurst(c)
  <2>. DEFINE S == {client_burst_map[d] : d \in {e \in Conns : client_burst_map[e] # NONE}}
                   \cup {0}
  <2>1. PICK m \in Nat : m = Max(S) /\ \A n \in S : m >= n
    BY <1>0, EstimateProperties
  <2>2. local[c].burst \in S
    <3>1. client_burst_map[c] = local[c].burst
      BY <1>3, <1>l DEF EstimateBurst
    <3>2. local[c].burst # NONE
      BY <1>0, IdAssumption DEF Local
    <3>. QED  BY <3>1, <3>2
  <2>3. /\ local' = [local EXCEPT ![c].max_burst = m] /\ pc' = [pc EXCEPT ![c] = "enqueue"]
        /\ UNCHANGED <<client_burst_map, request_queue>>
    BY <1>3, <2>1 DEF EstimateBurst
  <2>4. m >= local[c].burst
    BY <2>1, <2>2
  <2>. HIDE DEF S
  <2>5. /\ \A d \in Conns : /\ local'[d].burst = local[d].burst
                            /\ local'[d].req_id = local[d].req_id
                            /\ d # c => local'[d].max_burst = local[d].max_burst
        /\ local'[c].max_burst = m
    BY <1>0, <2>3 DEF Local
  <2>6. \A d \in Conns : pc'[d] \in {"elapsed", "compare", "expired", "estimate"}
                            => client_burst_map'[d] = local'[d].burst
    BY <1>0, <1>l, <2>3, <2>5
  <2>7. \A d \in Conns : pc'[d] \in {"enqueue", "await", "asleep", "woken"}
                            => local'[d].max_burst >= local'[d].burst
    BY <1>0, <1>e, <2>3, <2>4, <2>5
  <2>8. RequestCoversBurst'
    BY <2>3, <2>5 DEF BurstInv, RequestCoversBurst
  <2>. QED  BY <2>6, <2>7, <2>8 DEF BurstListed, BurstEstimated
<1>4. CASE Finish(c) \/ TakeResponse(c)
  <2>1. /\ UNCHANGED <<client_burst_map, request_queue>>
        /\ local'[c].req_id = NONE
        /\ pc'[c] \in {"recv", "updated"}
        /\ \A d \in Conns : d # c => local'[d] = local[d]
        /\ \A d \in Conns : d # c => \/ pc'[d] = pc[d]
                                     \/ pc'[d] = "gate"
    BY <1>0, <1>4 DEF Finish, TakeResponse, Idle, Local
  <2>2. \A d \in Conns : pc'[d] \in {"elapsed", "compare", "expired", "estimate"}
                            => client_burst_map'[d] = local'[d].burst
    BY <1>l, <2>1
  <2>3. \A d \in Conns : pc'[d] \in {"enqueue", "await", "asleep", "woken"}
                            => local'[d].max_burst >= local'[d].burst
    BY <1>e, <2>1
  <2>4. RequestCoversBurst'
    BY <1>0, <2>1, CoverKept DEF BurstInv
  <2>. QED  BY <2>2, <2>3, <2>4 DEF BurstListed, BurstEstimated
<1>5. ASSUME NEW id \in ReqIds, EnqueueRequest(c, id)
      PROVE  BurstListed' /\ BurstEstimated' /\ RequestCoversBurst'
  <2>1. PICK m \in Request :
          m = [req_id |-> id, overuse |-> pod_overuse_ms, burst |-> local[c].max_burst]
    BY <1>0 DEF Request, TypeOK, Local
  <2>2. /\ request_queue' = Append(request_queue, m) /\ m.req_id = id
        /\ m.burst = local[c].max_burst
        /\ local' = [local EXCEPT ![c].req_id = id]
        /\ pc' = [pc EXCEPT ![c] = "await"] /\ pc[c] = "enqueue"
        /\ client_burst_map' = client_burst_map
        /\ id \notin Pending
    BY <1>5, <2>1 DEF EnqueueRequest
  <2>3. /\ \A d \in Conns : /\ local'[d].burst = local[d].burst
                            /\ local'[d].max_burst = local[d].max_burst
                            /\ d # c => local'[d].req_id = local[d].req_id
        /\ local'[c].req_id = id
    BY <1>0, <2>2 DEF Local
  <2>4. /\ \A d \in Conns : local[d].req_id # id
        /\ \A i \in DOMAIN request_queue : request_queue[i].req_id # id
    BY <2>2 DEF Pending
  <2>5. RequestCoversBurst'
    <3>. SUFFICES ASSUME NEW d \in Conns, NEW i \in DOMAIN request_queue',
                         request_queue'[i].req_id = local'[d].req_id
                  PROVE  request_queue'[i].burst >= local'[d].burst
      BY DEF RequestCoversBurst
    <3>1. \/ i \in DOMAIN request_queue /\ request_queue'[i] = request_queue[i]
          \/ request_queue'[i] = m
      <4>1. request_queue \in Seq(Request)
        BY <1>0 DEF TypeOK
      <4>2. PICK n \in Nat : n = Len(request_queue) /\ DOMAIN request_queue = 1 .. n
        BY <4>1, LenProperties
      <4>3. /\ DOMAIN request_queue' = 1 .. n + 1 /\ request_queue'[n + 1] = m
            /\ \A j \in 1 .. n : request_queue'[j] = request_queue[j]
        BY <2>2, <4>1, <4>2, AppendProperties, LenProperties
      <4>. QED  BY <4>2, <4>3
    <3>2. CASE i \in DOMAIN request_queue /\ request_queue'[i] = request_queue[i]
      BY <2>3, <2>4, <3>2 DEF BurstInv, RequestCoversBurst
    <3>3. CASE request_queue'[i] = m
      <4>1. d = c
        BY <2>2, <2>3, <2>4, <3>3
      <4>. QED  BY <1>e, <2>2, <2>3, <3>3, <4>1
    <3>. QED  BY <3>1, <3>2, <3>3
  <2>6. \A d \in Conns : pc'[d] \in {"elapsed", "compare", "expired", "estimate"}
                            => client_burst_map'[d] = local'[d].burst
    BY <1>0, <1>l, <2>2, <2>3
  <2>7. \A d \in Conns : pc'[d] \in {"enqueue", "await", "asleep", "woken"}
                            => local'[d].max_burst >= local'[d].burst
    BY <1>0, <1>e, <2>2, <2>3
  <2>. QED  BY <2>5, <2>6, <2>7 DEF BurstListed, BurstEstimated
<1>. QED  BY <1>1, <1>2, <1>3, <1>4, <1>5 DEF ServiceThread

LEMMA NextCovers == BurstInv /\ [Next]_vars => BurstInv'
<1>. SUFFICES ASSUME BurstInv, [Next]_vars PROVE BurstInv'
  OBVIOUS
<1>. USE DEF Goto, At, net_vars, quota_vars
<1>0. TypeOK /\ TypeOK' /\ ReqInv /\ ReqInv'
  BY NextReqInv DEF BurstInv, ReqInv
<1>t. /\ pc \in [Conns -> Pcs] /\ local \in [Conns -> Local]
      /\ client_burst_map \in [Conns -> Nat \cup {NONE}] /\ request_queue \in Seq(Request)
  BY <1>0 DEF TypeOK
<1>l. \A d \in Conns : pc[d] \in {"elapsed", "compare", "expired", "estimate"}
                          => client_burst_map[d] = local[d].burst
  BY DEF BurstInv, BurstListed
<1>e. \A d \in Conns : pc[d] \in {"enqueue", "await", "asleep", "woken"}
                          => local[d].max_burst >= local[d].burst
  BY DEF BurstInv, BurstEstimated
<1>1. ASSUME NEW c \in Conns, Accept(c) \/ Close(c) PROVE BurstInv'
  <2>1. UNCHANGED <<local, request_queue>>
    BY <1>1 DEF Accept, Close
  <2>2. BurstListed'
    BY <1>1, <1>t, <1>l, <2>1 DEF Accept, Close, BurstListed
  <2>3. BurstEstimated'
    BY <1>1, <1>t, <1>e, <2>1 DEF Accept, Close, BurstEstimated
  <2>. QED  BY <1>0, <2>1, <2>2, <2>3 DEF BurstInv, RequestCoversBurst
<1>2. ASSUME NEW c \in Conns, NEW o \in Overuses, NEW b \in Bursts, Launch(c, o, b)
      PROVE  BurstInv'
  <2>1. /\ UNCHANGED <<client_burst_map, request_queue>>
        /\ pc' = [pc EXCEPT ![c] = "gate"]
        /\ \A d \in Conns : d # c => local'[d] = local[d]
        /\ local'[c].req_id = NONE
    BY <1>2, <1>t DEF Launch, Idle
  <2>2. BurstListed'
    BY <1>t, <1>l, <2>1 DEF BurstListed
  <2>3. BurstEstimated'
    BY <1>t, <1>e, <2>1 DEF BurstEstimated
  <2>4. RequestCoversBurst'
    BY <1>0, <2>1, CoverKept DEF BurstInv
  <2>. QED  BY <1>0, <2>2, <2>3, <2>4 DEF BurstInv
<1>3. CASE \/ Sender \/ SchedulerAnswersSome \/ ReceiveResponse \/ LoseScheduler
           \/ ReceiverCloses \/ Tick \/ SpuriousWakeup \/ UNCHANGED vars
  <2>1. /\ UNCHANGED <<local, client_burst_map>>
        /\ \A d \in Conns : \/ pc'[d] = pc[d] \/ pc'[d] = "gate"
                            \/ pc[d] = "asleep" /\ pc'[d] = "woken"
    <3>1. CASE Sender \/ SchedulerAnswersSome \/ LoseScheduler \/ ReceiverCloses \/ Tick \/ UNCHANGED vars
      BY <3>1 DEF Sender, SenderWaits, SenderForwards, SenderFails, SchedulerAnswersSome,
                  SchedulerAnswers, LoseScheduler, ReceiverCloses, Tick, vars
    <3>2. CASE ReceiveResponse
      BY <1>t, <3>2 DEF ReceiveResponse
    <3>3. CASE SpuriousWakeup
      BY <1>t, <3>3 DEF SpuriousWakeup
    <3>. QED  BY <1>3, <3>1, <3>2, <3>3
  <2>2. BurstListed'
    BY <1>l, <2>1 DEF BurstListed
  <2>3. BurstEstimated'
    BY <1>e, <2>1 DEF BurstEstimated
  <2>4. \/ request_queue' = request_queue
        \/ request_queue # <<>> /\ request_queue' = Tail(request_queue)
    <3>1. CASE SenderForwards
      BY <3>1 DEF SenderForwards
    <3>2. CASE SenderFails
      BY <3>2 DEF SenderFails
    <3>3. ASSUME ReceiveResponse \/ SpuriousWakeup \/ LoseScheduler \/ SenderWaits
          PROVE  request_queue' = request_queue
      BY <3>3 DEF ReceiveResponse, SpuriousWakeup, LoseScheduler, SenderWaits
    <3>4. ASSUME SchedulerAnswersSome \/ ReceiverCloses \/ Tick \/ UNCHANGED vars
          PROVE  request_queue' = request_queue
      BY <3>4 DEF SchedulerAnswersSome, SchedulerAnswers, ReceiverCloses, Tick, vars
    <3>. QED  BY <1>3, <3>1, <3>2, <3>3, <3>4 DEF Sender
  <2>5. \A i \in DOMAIN request_queue' : \E j \in DOMAIN request_queue :
                                            request_queue'[i] = request_queue[j]
    <3>1. CASE request_queue # <<>> /\ request_queue' = Tail(request_queue)
      <4>1. PICK n \in Nat : n = Len(request_queue) /\ DOMAIN request_queue = 1 .. n
        BY <1>t, LenProperties
      <4>2. /\ DOMAIN request_queue' = 1 .. n - 1
            /\ \A i \in 1 .. n - 1 : request_queue'[i] = request_queue[i + 1]
        BY <1>t, <3>1, <4>1, HeadTailProperties, LenProperties
      <4>3. \A i \in 1 .. n - 1 : i + 1 \in 1 .. n
        OBVIOUS
      <4>. QED  BY <4>1, <4>2, <4>3
    <3>. QED  BY <2>4, <3>1
  <2>6. RequestCoversBurst'
    BY <1>0, <2>1, <2>5, CoverKept DEF BurstInv
  <2>. QED  BY <1>0, <2>2, <2>3, <2>6 DEF BurstInv
<1>4. ASSUME NEW c \in Conns, ServiceThread(c) PROVE BurstInv'
  BY <1>0, <1>4, ServiceCovers DEF BurstInv
<1>. QED  BY <1>1, <1>2, <1>3, <1>4 DEF Next

\* The burst the scheduler is told of covers the one its requester predicted,
\* whatever the other service threads write into client_burst_map between the
\* estimate and the send.
THEOREM RequestsCoverBursts == Spec => []RequestCoversBurst
<1>1. Init => BurstInv
  <2>1. Init => BurstListed /\ BurstEstimated /\ RequestCoversBurst
    BY DEF Init, BurstListed, BurstEstimated, RequestCoversBurst
  <2>. QED  BY <2>1, InitReqInv DEF BurstInv
<1>2. BurstInv => RequestCoversBurst
  BY DEF BurstInv
<1>. QED  BY <1>1, <1>2, NextCovers, PTL DEF Spec
=============================================================================
