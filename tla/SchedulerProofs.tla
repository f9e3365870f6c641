--------------------------- MODULE SchedulerProofs ---------------------------
(***************************************************************************)
(* For any number of clients, connections and requests in flight: type     *)
(* correctness of the scheduler, that the daemon only dereferences         *)
(* configured clients, and that no request of a pod manager that stays     *)
(* connected is lost or answered twice, whichever descriptors the others   *)
(* are given.                                                              *)
(***************************************************************************)
EXTENDS Scheduler, FiniteLemmas

-----------------------------------------------------------------------------
(* Lemmas about the operators of the model.                                *)

LEMMA MaxQuotaType ==
    ASSUME NEW f \in Nat
    PROVE  MaxQuota(f) \in Nat
  <1>1. f * WINDOW_SIZE \in Nat
    BY WindowAssumption
  <1> DEFINE p == f * WINDOW_SIZE
  <1> HIDE DEF p
  <1>2. p \in Nat => p \div FRAC_UNIT \in Nat
    BY FracUnitAssumption, SMT
  <1> QED BY <1>1, <1>2 DEF MaxQuota, p

\* The adapted quota is a natural number whatever burst was reported
\* (ClientInfo::get_quota).
LEMMA GetQuotaType ==
    ASSUME NEW info \in ClientInfoType
    PROVE  get_quota(info) \in Nat
  <1>1. info.burst_ \in Nat /\ info.quota_ \in Nat /\ MaxQuota(info.MAX_FRAC) \in Nat
    BY MaxQuotaType DEF ClientInfoType
  <1>2. (info.burst_ + info.quota_) \div 2 \in Nat
    BY <1>1
  <1> QED BY <1>1, <1>2, QuotaAssumption DEF get_quota, Smaller, Larger

LEMMA ClientInfoTyped ==
    ASSUME NEW line \in ConfigLine
    PROVE  ClientInfo(line) \in ClientInfoType
  BY QuotaAssumption DEF ConfigLine, ClientInfo, ClientInfoType

\* update_return_time moves ends and keeps names and starts.
LEMMA ReturnTimeType ==
    ASSUME TypeOK, NEW c \in Clients, NEW o \in Nat
    PROVE  update_return_time(c, o) \subseteq Slot
  <1> SUFFICES ASSUME NEW h \in history_list
               PROVE  h \in Slot /\ ReturnTime(h, o) \in Slot
    BY DEF update_return_time
  <1>1. h \in Slot /\ now \in Int /\ h.end \in Int
    BY DEF TypeOK, Slot
  <1>2. Smaller(now, h.end + o) \in Int
    BY <1>1 DEF Smaller
  <1> QED BY <1>1, <1>2 DEF ReturnTime, Slot

-----------------------------------------------------------------------------
(* Type correctness.                                                       *)

(***************************************************************************)
(* The descriptors.  A handler with something to do has an open one, no    *)
(* two handlers share one, and the entries of a pod manager that stays     *)
(* connected, and no others, carry its descriptor.                         *)
(***************************************************************************)
Survivors == Clients \ Mortal

OneSocketEach ==
    \A c, d \in Clients : client_sock[c] = client_sock[d] /\ c # d => client_sock[c] = NONE

HandlerConnected ==
    \A c \in Clients :
        c \in connected \/ inbox[c] # <<>> \/ handling[c] # NONE => client_sock[c] # NONE

SurvivorsStay == \A c \in Survivors : c \in connected /\ client_sock[c] = FirstSocket[c]

Addressed(e) == \A c \in Survivors : e.socket = FirstSocket[c] <=> e.name = c

EntriesAddressed ==
    /\ \A i \in DOMAIN candidates : Addressed(candidates[i])
    /\ daemon_pc = "send" => Addressed(selected)

ConnInv == OneSocketEach /\ HandlerConnected /\ SurvivorsStay /\ EntriesAddressed

IndType == TypeOK /\ CandidatesKnown /\ ConnInv

LEMMA DeliveredType ==
    ASSUME TypeOK, NEW s, NEW e \in Response
    PROVE  Delivered(s, e) \in [Clients -> Seq(Response)]
  <1>1. \A c \in Clients : outbox[c] \in Seq(Response) /\ Append(outbox[c], e) \in Seq(Response)
    BY AppendProperties DEF TypeOK
  <1> QED BY <1>1 DEF Delivered

LEMMA CandidateAt ==
    ASSUME TypeOK, NEW i \in DOMAIN candidates
    PROVE  /\ candidates[i] \in Candidate
           /\ candidates[i].name \in Clients /\ candidates[i].req_id \in ReqIds
  <1>1. candidates[i] \in Candidate
    BY LenProperties, ElementOfSeq DEF TypeOK
  <1> QED BY <1>1 DEF Candidate

LEMMA InitTyped == Init => TypeOK /\ CandidatesKnown
  <1> SUFFICES ASSUME Init PROVE TypeOK /\ CandidatesKnown
    OBVIOUS
  <1>1. client_info_map \in [Clients -> ClientInfoType \cup {NONE}]
    <2>1. \A c \in Known : ClientInfo(InitialConfig[c]) \in ClientInfoType
      BY ClientInfoTyped, ConfigAssumption
    <2> QED BY <2>1 DEF Init
  <1>2. candidates \in Seq(Candidate) /\ DOMAIN candidates = {}
    BY EmptySeq DEF Init
  <1>3. inbox \in [Clients -> Seq(Request)] /\ outbox \in [Clients -> Seq(Response)]
    BY EmptySeq DEF Init
  <1>4. /\ now \in Nat /\ history_list \subseteq Slot /\ quota \in Nat /\ deadline \in Int
        /\ selected = NONE /\ daemon_pc = "top" /\ outstanding \in [Clients -> SUBSET ReqIds]
        /\ handling = [c \in Clients |-> NONE]
    BY DEF Init
  <1>. signalled \in BOOLEAN
    BY DEF Init
  <1>7. /\ client_sock \in [Clients -> Sockets \cup {NONE}] /\ connected \subseteq Clients
        /\ ends \in 0 .. MAX_ENDS
    BY SocketAssumption, EndsAssumption DEF Init
  <1>5. TypeOK
    BY <1>1, <1>2, <1>3, <1>4, <1>7 DEF TypeOK, ServingPcs
  <1>6. CandidatesKnown
    BY <1>2, <1>4 DEF CandidatesKnown
  <1> QED BY <1>5, <1>6

\* What a grant does to the state (schedule_daemon_func, lines 453-463).
LEMMA GrantType ==
    ASSUME IndType, NEW i \in DOMAIN candidates, Grant(i)
    PROVE  TypeOK' /\ CandidatesKnown'
  <1> USE DEF IndType, net_vars, conn_vars
  <1> DEFINE name == candidates[i].name
             q == get_quota(client_info_map[name])
  <1>1. candidates[i] \in Candidate /\ name \in Clients /\ known(name)
    BY CandidateAt DEF CandidatesKnown
  <1>2. client_info_map[name] \in ClientInfoType
    BY <1>1 DEF TypeOK, known
  <1>3. q \in Nat
    BY <1>2, GetQuotaType
  <1> HIDE DEF q
  <1>4. /\ candidates' = RemoveAt(candidates, i) /\ selected' = candidates[i]
        /\ quota' = q /\ client_info_map' = [client_info_map EXCEPT ![name].quota_ = q]
        /\ history_list' = window_history \cup {Record(name, q)} /\ daemon_pc' = "send"
        /\ UNCHANGED <<now, deadline, signalled, inbox, handling, outbox, outstanding,
                       client_sock, connected, ends>>
    BY DEF Grant, q
  <1>5. candidates' \in Seq(Candidate)
    BY <1>4, RemoveAtProperties DEF TypeOK
  <1>6. /\ client_info_map' \in [Clients -> ClientInfoType \cup {NONE}]
        /\ \A c \in Clients : known(c) => known(c)'
    <2>1. [client_info_map[name] EXCEPT !.quota_ = q] \in ClientInfoType
      BY <1>2, <1>3 DEF ClientInfoType
    <2>2. client_info_map' = [client_info_map EXCEPT ![name] =
                                [client_info_map[name] EXCEPT !.quota_ = q]]
      BY <1>4
    <2>3. [client_info_map[name] EXCEPT !.quota_ = q] # NONE
      BY <2>1, NoneAssumption
    <2> QED BY <2>1, <2>2, <2>3, <1>1 DEF TypeOK, known
  <1>7. history_list' \subseteq Slot
    <2>1. Record(name, q) \in Slot
      BY <1>1, <1>3 DEF Record, Slot, TypeOK
    <2> QED BY <2>1, <1>4 DEF window_history, InWindow, TypeOK
  <1>8. ASSUME NEW j \in DOMAIN candidates'
        PROVE  client_info_map'[candidates'[j].name] # NONE
    <2>1. \E k \in DOMAIN candidates : candidates'[j] = candidates[k]
      <3>1. Len(candidates) \in Nat /\ DOMAIN candidates = 1 .. Len(candidates)
        BY LenProperties DEF TypeOK
      <3>2. DOMAIN candidates' = 1 .. Len(candidates) - 1
        BY <1>4, <1>5, RemoveAtProperties, LenProperties DEF TypeOK
      <3>3. candidates'[j] = IF j < i THEN candidates[j] ELSE candidates[j + 1]
        BY <1>4, <3>2, RemoveAtProperties DEF TypeOK
      <3> QED BY <3>1, <3>2, <3>3
    <2> PICK k \in DOMAIN candidates : candidates'[j] = candidates[k]
      BY <2>1
    <2>2. candidates[k].name \in Clients /\ known(candidates[k].name)
      BY CandidateAt DEF CandidatesKnown
    <2> QED BY <2>2, <1>6 DEF known
  <1>9. ASSUME NEW c \in Clients, handling'[c] # NONE PROVE client_info_map'[c] # NONE
    BY <1>4, <1>6, <1>9 DEF CandidatesKnown, known
  <1>10. CandidatesKnown'
    BY <1>8, <1>9 DEF CandidatesKnown, known
  <1>11. TypeOK'
    BY <1>1, <1>3, <1>4, <1>5, <1>6, <1>7 DEF TypeOK, ServingPcs
  <1> QED BY <1>10, <1>11

LEMMA NextTyped == IndType /\ [Next]_vars => TypeOK' /\ CandidatesKnown'
  <1> SUFFICES ASSUME IndType, [Next]_vars PROVE TypeOK' /\ CandidatesKnown'
    OBVIOUS
  <1> USE DEF IndType, net_vars, conn_vars, daemon_vars, known
  <1>1. CASE WaitForCandidates
    BY <1>1 DEF WaitForCandidates, TypeOK, CandidatesKnown, ServingPcs
  <1>2. CASE WakeIdle
    BY <1>2 DEF WakeIdle, TypeOK, CandidatesKnown, ServingPcs
  <1>3. CASE SelectFirst
    <2>1. 1 \in DOMAIN candidates
      BY <1>3, EmptySeq, LenProperties DEF SelectFirst, Selecting, TypeOK
    <2> QED BY <1>3, <2>1, GrantType DEF SelectFirst
  <1>4. CASE SelectByPriority
    BY <1>4, GrantType DEF SelectByPriority, Winners, valid_candidates
  <1>5. CASE SleepUntilWindowMoves
    <2>1. window_history \subseteq Slot
      BY DEF window_history, InWindow, TypeOK
    <2>2. deadline' \in Int
      <3> PICK h \in window_history : deadline' = now + (h.end - window_start(now))
        BY <1>5 DEF SleepUntilWindowMoves
      <3> QED BY <2>1, WindowAssumption DEF window_start, Slot, TypeOK
    <2> QED BY <1>5, <2>1, <2>2
            DEF SleepUntilWindowMoves, TypeOK, CandidatesKnown, ServingPcs
  <1>6. CASE WakeLimited
    <2>1. signalled' \in BOOLEAN /\ deadline' = 0 /\ daemon_pc' = "top"
      BY <1>6, Zenon DEF WakeLimited
    <2>2. deadline' \in Int
      BY <2>1
    <2> QED BY <1>6, <2>1, <2>2 DEF WakeLimited, TypeOK, CandidatesKnown, ServingPcs
  <1>7. CASE SendQuota
    <2>1. selected \in Candidate /\ selected.name \in Clients /\ selected.req_id \in ReqIds
      BY <1>7 DEF SendQuota, TypeOK, ServingPcs, Candidate
    <2>2. QuotaResponse \in Response
      BY <2>1 DEF QuotaResponse, Response, comm_request, TypeOK
    <2>3. outbox' \in [Clients -> Seq(Response)]
      BY <1>7, <2>2, DeliveredType DEF SendQuota
    <2>4. deadline' \in Int /\ quota' \in Nat
      BY <1>7 DEF SendQuota, TypeOK
    <2> QED BY <1>7, <2>1, <2>3, <2>4 DEF SendQuota, TypeOK, CandidatesKnown, ServingPcs
  <1>8. CASE BeginHold
    <2>1. selected \in Candidate
      BY <1>8 DEF BeginHold, TypeOK, ServingPcs
    <2> QED BY <1>8, <2>1 DEF BeginHold, TypeOK, CandidatesKnown, ServingPcs
  <1>9. CASE EndHold
    <2>1. signalled' \in BOOLEAN /\ deadline' = 0 /\ daemon_pc' = "top"
      BY <1>9, Zenon DEF EndHold
    <2>2. deadline' \in Int
      BY <2>1
    <2> QED BY <1>9, <2>1, <2>2 DEF EndHold, TypeOK, CandidatesKnown, ServingPcs
  <1>10. CASE HoldReturned
    BY <1>10, <1>9 DEF HoldReturned
  <1>11. CASE HoldAgain
    BY <1>11 DEF HoldAgain, TypeOK, CandidatesKnown, ServingPcs
  <1>12. CASE HoldTimeout
    BY <1>12, <1>9 DEF HoldTimeout
  <1>13. CASE SpuriousWakeup
    <2>1. signalled' \in BOOLEAN
      BY <1>13 DEF SpuriousWakeup
    <2> QED BY <1>13, <2>1 DEF SpuriousWakeup, TypeOK, CandidatesKnown
  <1>14. ASSUME NEW c \in Clients, inbox[c] # <<>>
         PROVE  /\ Head(inbox[c]) \in Request /\ Tail(inbox[c]) \in Seq(Request)
                /\ [inbox EXCEPT ![c] = Tail(@)] \in [Clients -> Seq(Request)]
    BY <1>14, HeadTailProperties DEF TypeOK
  <1>15. ASSUME NEW c \in Clients, IgnoreUnknown(c) PROVE TypeOK' /\ CandidatesKnown'
    BY <1>14, <1>15 DEF IgnoreUnknown, TypeOK, CandidatesKnown, ServingPcs
  <1>16. ASSUME NEW c \in Clients, HandleQuota(c) PROVE TypeOK' /\ CandidatesKnown'
    <2> DEFINE m == Head(inbox[c])
    <2>1. m \in Request /\ inbox' \in [Clients -> Seq(Request)]
      BY <1>14, <1>16 DEF HandleQuota, Received
    <2> HIDE DEF m
    <2>2. m.overuse \in Nat /\ m.burst \in Nat /\ m.req_id \in ReqIds
      <3>1. m.overuse \in Overuses \cup {0} /\ m.burst \in Bursts \cup {0}
            /\ m.req_id \in ReqIds
        BY <2>1 DEF Request
      <3>2. Overuses \cup {0} \subseteq Nat /\ Bursts \cup {0} \subseteq Nat
        BY ReportAssumption
      <3> QED BY <3>1, <3>2, Zenon
    <2>3. history_list' \subseteq Slot
      BY <1>16, <2>2, ReturnTimeType DEF HandleQuota, m
    <2>4. client_info_map[c] \in ClientInfoType
      BY <1>16 DEF HandleQuota, TypeOK
    <2>5. [client_info_map[c] EXCEPT !.burst_ = m.burst] \in ClientInfoType
      BY <2>2, <2>4 DEF ClientInfoType
    <2>6. client_info_map' =
            [client_info_map EXCEPT ![c] = [client_info_map[c] EXCEPT !.burst_ = m.burst]]
      BY <1>16 DEF HandleQuota, m
    <2>7. /\ client_info_map' \in [Clients -> ClientInfoType \cup {NONE}]
          /\ \A d \in Clients : client_info_map[d] # NONE => client_info_map'[d] # NONE
          /\ client_info_map'[c] # NONE
      BY <2>5, <2>6, NoneAssumption DEF TypeOK
    <2>8. handling' = [handling EXCEPT ![c] = m.req_id]
      BY <1>16 DEF HandleQuota, m
    <2>9. TypeOK'
      BY <1>16, <2>1, <2>2, <2>3, <2>7, <2>8 DEF HandleQuota, TypeOK, ServingPcs
    <2>10. CandidatesKnown'
      <3>1. \A i \in DOMAIN candidates : client_info_map'[candidates[i].name] # NONE
        BY <2>7, CandidateAt DEF CandidatesKnown
      <3>2. \A d \in Clients : handling'[d] # NONE => client_info_map'[d] # NONE
        BY <2>7, <2>8 DEF CandidatesKnown, TypeOK
      <3> QED BY <1>16, <3>1, <3>2 DEF HandleQuota, CandidatesKnown
    <2> QED BY <2>9, <2>10
  <1>17. ASSUME NEW c \in Clients, PushCandidate(c) PROVE TypeOK' /\ CandidatesKnown'
    <2> DEFINE e == NewCandidate(c)
    <2>0. client_sock[c] \in Sockets /\ handling[c] \in ReqIds
      BY <1>17 DEF PushCandidate, TypeOK, ConnInv, HandlerConnected
    <2>1. e \in Candidate /\ e.name = c /\ client_info_map[c] # NONE
      BY <1>17, <2>0 DEF PushCandidate, NewCandidate, Candidate, CandidatesKnown
    <2> HIDE DEF e
    <2>2. /\ candidates' = Append(candidates, e)
          /\ handling' = [handling EXCEPT ![c] = NONE]
          /\ signalled' = (signalled \/ daemon_pc \in WaitingPcs)
          /\ UNCHANGED <<now, client_info_map, history_list, daemon_pc, selected, quota,
                         deadline, inbox, outbox, outstanding, client_sock, connected, ends>>
      BY <1>17 DEF PushCandidate, e
    <2>3. candidates' \in Seq(Candidate)
      BY <2>1, <2>2, AppendProperties DEF TypeOK
    <2>4. signalled' \in BOOLEAN
      BY <2>2
    <2>5. TypeOK'
      BY <2>2, <2>3, <2>4 DEF TypeOK
    <2>6. \A i \in DOMAIN candidates' : client_info_map[candidates'[i].name] # NONE
      <3>1. /\ Len(candidates) \in Nat /\ DOMAIN candidates = 1 .. Len(candidates)
            /\ DOMAIN candidates' = 1 .. Len(candidates) + 1
            /\ \A i \in 1 .. Len(candidates) : candidates'[i] = candidates[i]
            /\ candidates'[Len(candidates) + 1] = e
        BY <2>1, <2>2, <2>3, AppendProperties, LenProperties DEF TypeOK
      <3> QED BY <3>1, <2>1 DEF CandidatesKnown
    <2> QED BY <2>2, <2>5, <2>6 DEF CandidatesKnown, TypeOK
  <1>18. ASSUME NEW c \in Clients, NEW v \in Nat, inbox[c] # <<>>, Answer(c, v)
         PROVE  TypeOK' /\ CandidatesKnown'
    <2> DEFINE m == Head(inbox[c])
               r == [req_id |-> m.req_id, req |-> m.req, value |-> v]
    <2>1. r \in Response /\ inbox' \in [Clients -> Seq(Request)]
      BY <1>14, <1>18 DEF Answer, Request, Response
    <2> HIDE DEF r
    <2>2. outbox' = Delivered(client_sock[c], r)
      BY <1>18 DEF Answer, r
    <2>3. outbox' \in [Clients -> Seq(Response)]
      BY <2>1, <2>2, DeliveredType
    <2> QED BY <1>18, <2>1, <2>3 DEF Answer, TypeOK, CandidatesKnown
  <1>19. ASSUME NEW c \in Clients, HandleMemLimit(c) PROVE TypeOK' /\ CandidatesKnown'
    <2>1. client_info_map[c].gpu_mem_limit \in Nat
      BY <1>19 DEF HandleMemLimit, TypeOK, ClientInfoType
    <2> QED BY <1>18, <1>19, <2>1 DEF HandleMemLimit, Received
  <1>20. ASSUME NEW c \in Clients, HandleMemUpdate(c) PROVE TypeOK' /\ CandidatesKnown'
    BY <1>18, <1>20 DEF HandleMemUpdate, Received
  <1>21. ASSUME NEW c \in Clients, NEW line \in ConfigLines, ReloadLine(c, line)
         PROVE  TypeOK' /\ CandidatesKnown'
    <2>1. ClientInfo(line) \in ClientInfoType
      BY ClientInfoTyped, ConfigAssumption
    <2>2. /\ client_info_map' \in [Clients -> ClientInfoType \cup {NONE}]
          /\ \A d \in Clients : client_info_map[d] # NONE => client_info_map'[d] # NONE
      BY <1>21, <2>1, NoneAssumption DEF ReloadLine, TypeOK
    <2>3. TypeOK'
      BY <1>21, <2>2 DEF ReloadLine, TypeOK
    <2>4. \A i \in DOMAIN candidates : client_info_map'[candidates[i].name] # NONE
      BY <2>2, CandidateAt DEF CandidatesKnown
    <2> QED BY <1>21, <2>2, <2>3, <2>4 DEF ReloadLine, CandidatesKnown
  <1>22. ASSUME NEW c \in Clients, NEW r \in ReqIds, NEW m \in Sendable(c), PodSend(c, r, m)
         PROVE  TypeOK' /\ CandidatesKnown'
    <2> DEFINE q == [req_id |-> r, req |-> m.req, overuse |-> m.overuse, burst |-> m.burst]
    <2>1. q \in Request
      <3>1. RequestTypes[c] \subseteq comm_request
        BY RequestTypesAssumption
      <3> QED BY <3>1 DEF Sendable, Request
    <2> HIDE DEF q
    <2>2. inbox' = [inbox EXCEPT ![c] = Append(@, q)]
      BY <1>22 DEF PodSend, q
    <2>3. inbox' \in [Clients -> Seq(Request)]
      BY <2>1, <2>2, AppendProperties DEF TypeOK
    <2>4. outstanding' \in [Clients -> SUBSET ReqIds]
      BY <1>22 DEF PodSend, TypeOK
    <2> QED BY <1>22, <2>3, <2>4 DEF PodSend, TypeOK, CandidatesKnown
  <1>23. ASSUME NEW c \in Clients, PodRecv(c) PROVE TypeOK' /\ CandidatesKnown'
    <2>1. outbox' \in [Clients -> Seq(Response)]
      BY <1>23, HeadTailProperties DEF PodRecv, TypeOK
    <2>2. outstanding' \in [Clients -> SUBSET ReqIds]
      BY <1>23 DEF PodRecv, TypeOK
    <2> QED BY <1>23, <2>1, <2>2 DEF PodRecv, TypeOK, CandidatesKnown
  <1>24. CASE Tick
    <2>1. now' \in Nat /\ deadline' \in Int
      <3>1. CASE now < HORIZON
        BY <1>24, <3>1 DEF Tick, TypeOK
      <3>2. CASE ~(now < HORIZON)
        BY <1>24, <3>2 DEF Tick, TypeOK
      <3> QED BY <3>1, <3>2
    <2>2. history_list' \subseteq Slot
      <3>1. \A h \in history_list : Earlier(h) \in Slot
        BY DEF TypeOK, Slot, Earlier
      <3>2. CASE now < HORIZON
        BY <1>24, <3>2 DEF Tick, TypeOK
      <3>3. CASE ~(now < HORIZON)
        BY <1>24, <3>1, <3>3 DEF Tick, TypeOK
      <3> QED BY <3>2, <3>3
    <2> QED BY <1>24, <2>1, <2>2 DEF Tick, TypeOK, CandidatesKnown
  <1>25. CASE UNCHANGED vars
    BY <1>25 DEF vars, TypeOK, CandidatesKnown
  <1>26. ASSUME NEW c \in Mortal, Connection(c) PROVE TypeOK' /\ CandidatesKnown'
    <2>1. c \in Clients
      BY SocketAssumption
    <2>2. CASE PodConnects(c)
      <3>1. client_sock' \in [Clients -> Sockets \cup {NONE}] /\ connected' \subseteq Clients
        BY <2>1, <2>2 DEF PodConnects, FreeSockets, TypeOK
      <3> QED BY <2>2, <3>1 DEF PodConnects, TypeOK, CandidatesKnown
    <2>3. CASE PodEnds(c)
      <3>1. /\ connected' \subseteq Clients /\ outstanding' \in [Clients -> SUBSET ReqIds]
            /\ outbox' \in [Clients -> Seq(Response)]
        BY <2>1, <2>3, EmptySeq DEF PodEnds, TypeOK
      <3>2. ends' \in 0 .. MAX_ENDS
        BY <2>3, EndsAssumption DEF PodEnds, TypeOK
      <3> QED BY <2>3, <3>1, <3>2 DEF PodEnds, TypeOK, CandidatesKnown
    <2>4. CASE HandlerEnds(c)
      <3>1. client_sock' \in [Clients -> Sockets \cup {NONE}]
        BY <2>1, <2>4 DEF HandlerEnds, TypeOK
      <3> QED BY <2>4, <3>1 DEF HandlerEnds, TypeOK, CandidatesKnown
    <2> QED BY <1>26, <2>2, <2>3, <2>4 DEF Connection
  <1> QED
    BY <1>1, <1>2, <1>3, <1>4, <1>5, <1>6, <1>7, <1>8, <1>10, <1>11, <1>12, <1>13,
       <1>15, <1>16, <1>17, <1>19, <1>20, <1>21, <1>22, <1>23, <1>24, <1>25, <1>26
    DEF Next, Daemon, Handler

LEMMA InitConnInv == Init => ConnInv
  <1> SUFFICES ASSUME Init PROVE ConnInv
    OBVIOUS
  <1>1. /\ candidates = <<>> /\ daemon_pc = "top" /\ client_sock = FirstSocket
        /\ connected = {c \in Clients : FirstSocket[c] # NONE}
        /\ \A c \in Clients : inbox[c] = <<>> /\ handling[c] = NONE
    BY DEF Init
  <1>2. OneSocketEach /\ HandlerConnected /\ SurvivorsStay
    BY <1>1, SocketAssumption DEF OneSocketEach, HandlerConnected, SurvivorsStay, Survivors
  <1>3. EntriesAddressed
    BY <1>1, EmptySeq DEF EntriesAddressed
  <1> QED BY <1>2, <1>3 DEF ConnInv

\* What a handler puts on the list carries its own descriptor, which is nobody
\* else's.
LEMMA NewAddressed ==
    ASSUME IndType, NEW d \in Clients, handling[d] # NONE
    PROVE  Addressed(NewCandidate(d))
  <1> SUFFICES ASSUME NEW c \in Survivors
               PROVE  client_sock[d] = FirstSocket[c] <=> d = c
    BY DEF Addressed, NewCandidate
  <1>1. c \in Clients /\ client_sock[c] = FirstSocket[c] /\ client_sock[d] # NONE
    BY DEF IndType, ConnInv, SurvivorsStay, HandlerConnected, Survivors
  <1> QED BY <1>1 DEF IndType, ConnInv, OneSocketEach

\* A step that leaves the connections alone and brings no new request in.
LEMMA ConnKept ==
    ASSUME IndType, UNCHANGED <<client_sock, connected>>, EntriesAddressed',
           \A c \in Clients : c \notin connected =>
              /\ inbox'[c] # <<>> => inbox[c] # <<>>
              /\ handling'[c] # NONE => handling[c] # NONE \/ inbox[c] # <<>>
    PROVE  ConnInv'
  BY DEF IndType, ConnInv, OneSocketEach, HandlerConnected, SurvivorsStay

LEMMA EntriesKept ==
    ASSUME IndType, candidates' = candidates,
           daemon_pc' = "send" => daemon_pc = "send" /\ selected' = selected
    PROVE  EntriesAddressed'
  BY DEF IndType, ConnInv, EntriesAddressed, Addressed

LEMMA GrantAddressed ==
    ASSUME IndType, NEW i \in DOMAIN candidates, Grant(i)
    PROVE  EntriesAddressed'
  <1>1. candidates \in Seq(Candidate) /\ candidates' = RemoveAt(candidates, i)
        /\ selected' = candidates[i]
    BY DEF Grant, IndType, TypeOK
  <1>2. \A j \in DOMAIN candidates' : \E k \in DOMAIN candidates : candidates'[j] = candidates[k]
    <2>1. Len(candidates) \in Nat /\ DOMAIN candidates = 1 .. Len(candidates)
      BY <1>1, LenProperties
    <2>2. DOMAIN candidates' = 1 .. Len(candidates) - 1
      BY <1>1, RemoveAtProperties, LenProperties
    <2>3. \A j \in 1 .. Len(candidates) - 1 :
            candidates'[j] = IF j < i THEN candidates[j] ELSE candidates[j + 1]
      BY <1>1, RemoveAtProperties
    <2> QED BY <2>1, <2>2, <2>3
  <1>3. \A j \in DOMAIN candidates : Addressed(candidates[j])
    BY DEF IndType, ConnInv, EntriesAddressed
  <1>4. \A j \in DOMAIN candidates' : Addressed(candidates'[j])
    BY <1>2, <1>3
  <1>5. Addressed(selected')
    BY <1>1, <1>3
  <1> QED BY <1>4, <1>5 DEF EntriesAddressed, Addressed

LEMMA PushAddressed ==
    ASSUME IndType, NEW c \in Clients, PushCandidate(c)
    PROVE  EntriesAddressed'
  <1>1. PICK e : e = NewCandidate(c)
    OBVIOUS
  <1>2. Addressed(e) /\ e \in Candidate
    <2>1. client_sock[c] \in Sockets /\ handling[c] \in ReqIds
      BY DEF PushCandidate, IndType, TypeOK, ConnInv, HandlerConnected
    <2> QED BY <1>1, <2>1, NewAddressed DEF PushCandidate, NewCandidate, Candidate
  <1>3. candidates' = Append(candidates, e) /\ candidates \in Seq(Candidate)
        /\ daemon_pc' = daemon_pc /\ selected' = selected
    BY <1>1 DEF PushCandidate, IndType, TypeOK
  <1>4. /\ Len(candidates) \in Nat /\ DOMAIN candidates = 1 .. Len(candidates)
        /\ DOMAIN candidates' = 1 .. Len(candidates) + 1
        /\ \A i \in 1 .. Len(candidates) : candidates'[i] = candidates[i]
        /\ candidates'[Len(candidates) + 1] = e
    BY <1>2, <1>3, AppendProperties, LenProperties
  <1>5. \A i \in DOMAIN candidates : Addressed(candidates[i])
    BY DEF IndType, ConnInv, EntriesAddressed
  <1>6. \A i \in DOMAIN candidates' : Addressed(candidates'[i])
    BY <1>2, <1>4, <1>5
  <1> QED BY <1>3, <1>6 DEF IndType, ConnInv, EntriesAddressed, Addressed

LEMMA ConnectionKeeps ==
    ASSUME IndType, NEW c \in Mortal, Connection(c)
    PROVE  ConnInv'
  <1>1. c \in Clients /\ c \notin Survivors /\ client_sock \in [Clients -> Sockets \cup {NONE}]
    BY SocketAssumption DEF Survivors, IndType, TypeOK
  <1>2. EntriesAddressed' /\ UNCHANGED <<inbox, handling>>
    BY EntriesKept DEF Connection, PodConnects, PodEnds, HandlerEnds, daemon_vars
  <1>3. OneSocketEach /\ HandlerConnected /\ SurvivorsStay
    BY DEF IndType, ConnInv
  <1>4. \A d \in Survivors : d \in Clients /\ d # c
    BY <1>1 DEF Survivors
  <1>5. CASE PodConnects(c)
    <2>1. PICK s \in FreeSockets : client_sock' = [client_sock EXCEPT ![c] = s]
      BY <1>5 DEF PodConnects
    <2>2. s # NONE /\ \A d \in Clients : client_sock[d] # s
      BY <2>1, SocketAssumption DEF FreeSockets
    <2>3. connected' = connected \cup {c}
      BY <1>5 DEF PodConnects
    <2>4. OneSocketEach' /\ HandlerConnected' /\ SurvivorsStay'
      BY <1>1, <1>2, <1>3, <1>4, <2>1, <2>2, <2>3
         DEF OneSocketEach, HandlerConnected, SurvivorsStay
    <2> QED BY <1>2, <2>4 DEF ConnInv
  <1>6. CASE PodEnds(c)
    <2>1. client_sock' = client_sock /\ connected' = connected \ {c}
      BY <1>6 DEF PodEnds
    <2>2. OneSocketEach' /\ HandlerConnected' /\ SurvivorsStay'
      BY <1>2, <1>3, <1>4, <2>1 DEF OneSocketEach, HandlerConnected, SurvivorsStay
    <2> QED BY <1>2, <2>2 DEF ConnInv
  <1>7. CASE HandlerEnds(c)
    <2>1. /\ client_sock' = [client_sock EXCEPT ![c] = NONE] /\ connected' = connected
          /\ c \notin connected /\ inbox[c] = <<>> /\ handling[c] = NONE
      BY <1>7 DEF HandlerEnds, HandlerDone
    <2>2. OneSocketEach' /\ HandlerConnected' /\ SurvivorsStay'
      BY <1>1, <1>2, <1>3, <1>4, <2>1 DEF OneSocketEach, HandlerConnected, SurvivorsStay
    <2> QED BY <1>2, <2>2 DEF ConnInv
  <1> QED BY <1>5, <1>6, <1>7 DEF Connection

LEMMA NextConnInv == IndType /\ [Next]_vars => ConnInv'
  <1> SUFFICES ASSUME IndType, [Next]_vars PROVE ConnInv'
    OBVIOUS
  <1> USE DEF net_vars, conn_vars, daemon_vars
  <1>1. CASE WaitForCandidates \/ WakeIdle \/ SleepUntilWindowMoves \/ WakeLimited \/ SendQuota
             \/ BeginHold \/ HoldReturned \/ HoldAgain \/ HoldTimeout \/ SpuriousWakeup
    <2>1. /\ UNCHANGED <<candidates, inbox, handling, client_sock, connected>>
          /\ daemon_pc' = "send" => daemon_pc = "send" /\ selected' = selected
      BY <1>1 DEF WaitForCandidates, WakeIdle, SleepUntilWindowMoves, WakeLimited, SendQuota,
                  BeginHold, HoldReturned, HoldAgain, HoldTimeout, EndHold, SpuriousWakeup
    <2> QED BY <2>1, EntriesKept, ConnKept
  <1>2. ASSUME NEW i \in DOMAIN candidates, Grant(i) PROVE ConnInv'
    BY <1>2, GrantAddressed, ConnKept DEF Grant
  <1>3. CASE SelectFirst
    <2>1. 1 \in DOMAIN candidates
      BY <1>3, EmptySeq, LenProperties DEF SelectFirst, Selecting, IndType, TypeOK
    <2> QED BY <1>2, <1>3, <2>1 DEF SelectFirst
  <1>4. CASE SelectByPriority
    BY <1>2, <1>4 DEF SelectByPriority, Winners, valid_candidates
  <1>5. ASSUME NEW c \in Clients, Handler(c) PROVE ConnInv'
    <2>1. CASE PushCandidate(c)
      <3>1. /\ UNCHANGED <<client_sock, connected, inbox>>
            /\ handling' = [handling EXCEPT ![c] = NONE] /\ handling[c] # NONE
        BY <2>1 DEF PushCandidate
      <3>2. \A d \in Clients : handling'[d] # NONE => handling[d] # NONE
        BY <3>1 DEF IndType, TypeOK
      <3> QED BY <2>1, <3>1, <3>2, PushAddressed, ConnKept
    <2>2. CASE ~PushCandidate(c)
      <3>1. /\ inbox[c] # <<>> /\ inbox' = [inbox EXCEPT ![c] = Tail(@)]
            /\ UNCHANGED <<client_sock, connected, candidates, daemon_pc, selected>>
            /\ \/ handling' = handling
               \/ handling' = [handling EXCEPT ![c] = Head(inbox[c]).req_id]
        BY <1>5, <2>2 DEF Handler, IgnoreUnknown, HandleQuota, HandleMemLimit, HandleMemUpdate,
           Received, Answer
      <3>2. \A d \in Clients : /\ inbox'[d] # <<>> => inbox[d] # <<>>
                               /\ handling'[d] # NONE => handling[d] # NONE \/ inbox[d] # <<>>
        BY <3>1 DEF IndType, TypeOK
      <3> QED BY <3>1, <3>2, EntriesKept, ConnKept
    <2> QED BY <2>1, <2>2
  <1>6. CASE \E c \in Clients, line \in ConfigLines : ReloadLine(c, line)
    BY <1>6, EntriesKept, ConnKept DEF ReloadLine
  <1>7. ASSUME NEW c \in Clients, NEW r \in ReqIds, NEW m \in Sendable(c), PodSend(c, r, m)
        PROVE  ConnInv'
    <2>1. /\ c \in connected
          /\ UNCHANGED <<candidates, daemon_pc, selected, handling, client_sock, connected>>
      BY <1>7 DEF PodSend
    <2>2. \A d \in Clients : d # c => inbox'[d] = inbox[d]
      BY <1>7 DEF PodSend, IndType, TypeOK
    <2> QED BY <2>1, <2>2, EntriesKept, ConnKept
  <1>8. CASE \E c \in Clients : PodRecv(c)
    BY <1>8, EntriesKept, ConnKept DEF PodRecv
  <1>9. CASE Tick
    BY <1>9, EntriesKept, ConnKept DEF Tick
  <1>10. CASE UNCHANGED vars
    BY <1>10, EntriesKept, ConnKept DEF vars
  <1> QED BY <1>1, <1>3, <1>4, <1>5, <1>6, <1>7, <1>8, <1>9, <1>10, ConnectionKeeps
          DEF Next, Daemon

LEMMA InitIndType == Init => IndType
  BY InitTyped, InitConnInv DEF IndType

LEMMA NextIndType == IndType /\ [Next]_vars => IndType'
  BY NextTyped, NextConnInv DEF IndType

\* Every reachable state is well typed, whatever the configuration.
THEOREM TypeCorrect == Spec => []TypeOK
  <1>1. IndType => TypeOK
    BY DEF IndType
  <1> QED BY <1>1, InitIndType, NextIndType, PTL DEF Spec

\* The daemon only ever looks up configured clients (scheduler.cpp:373, :459,
\* :463): no request of an unknown client reaches the candidate list and no
\* reload takes an entry away.
THEOREM CandidatesAlwaysKnown == Spec => []CandidatesKnown
  <1>1. IndType => CandidatesKnown
    BY DEF IndType
  <1> QED BY <1>1, InitIndType, NextIndType, PTL DEF Spec

-----------------------------------------------------------------------------
(***************************************************************************)
(* Where request r of client c is.  It is copied from place to place, so   *)
(* the invariant says of every request that it is at most once in each of  *)
(* the three lists, in at most one of the five places, and nowhere once it *)
(* is no longer outstanding.                                               *)
(***************************************************************************)
Asked(r) == {m \in Request : m.req_id = r}
Told(r) == {m \in Response : m.req_id = r}
Entries(c, r) == {e \in Candidate : IsEntry(e, c, r)}

InInbox(c, r) == Occurs(inbox[c], Asked(r))
InHandler(c, r) == handling[c] = r
InList(c, r) == Occurs(candidates, Entries(c, r))
InDaemon(c, r) == daemon_pc = "send" /\ IsEntry(selected, c, r)
InOutbox(c, r) == Occurs(outbox[c], Told(r))

Held(c, r) ==
    \/ InInbox(c, r) \/ InHandler(c, r) \/ InList(c, r) \/ InDaemon(c, r) \/ InOutbox(c, r)

OnceEach(c, r) ==
    /\ AtMostOnce(inbox[c], Asked(r))
    /\ AtMostOnce(candidates, Entries(c, r))
    /\ AtMostOnce(outbox[c], Told(r))

OnePlaceOf(c, r) ==
    /\ InInbox(c, r) => ~InHandler(c, r) /\ ~InList(c, r) /\ ~InDaemon(c, r) /\ ~InOutbox(c, r)
    /\ InHandler(c, r) => ~InList(c, r) /\ ~InDaemon(c, r) /\ ~InOutbox(c, r)
    /\ InList(c, r) => ~InDaemon(c, r) /\ ~InOutbox(c, r)
    /\ InDaemon(c, r) => ~InOutbox(c, r)
    /\ Held(c, r) => r \in outstanding[c]

PlaceInv(c, r) == OnceEach(c, r) /\ OnePlaceOf(c, r)

\* What a step may do to a request: it keeps it where it is, takes it to the next
\* place, begins it, ends it, or drops it for want of a configured client.
MovesOn(c, r) ==
    /\ PlaceInv(c, r)'
    /\ \/ r \notin outstanding'[c]
       \/ r \in outstanding'[c] /\ r \notin outstanding[c] /\ Held(c, r)'
       \/ r \in outstanding[c] /\ (Held(c, r)' <=> Held(c, r))
       \/ r \in outstanding[c] /\ ~known(c) /\ ~Held(c, r)'

\* A step that touches neither the client's connection nor the candidate list.
LEMMA NotTouched ==
  ASSUME NEW c \in Survivors, NEW r \in ReqIds, PlaceInv(c, r),
         inbox'[c] = inbox[c], handling'[c] = handling[c], outbox'[c] = outbox[c],
         outstanding'[c] = outstanding[c], candidates' = candidates,
         InDaemon(c, r)' <=> InDaemon(c, r)
  PROVE  MovesOn(c, r)
<1>1. /\ InInbox(c, r)' <=> InInbox(c, r)
      /\ InHandler(c, r)' <=> InHandler(c, r)
      /\ InList(c, r)' <=> InList(c, r)
      /\ InOutbox(c, r)' <=> InOutbox(c, r)
  BY DEF InInbox, InHandler, InList, InOutbox
<1>2. OnceEach(c, r)'
  BY DEF PlaceInv, OnceEach
<1>3. Held(c, r)' <=> Held(c, r)
  BY <1>1 DEF Held
<1>4. OnePlaceOf(c, r)'
  BY <1>1, <1>3 DEF PlaceInv, OnePlaceOf
<1>. QED  BY <1>2, <1>3, <1>4 DEF PlaceInv, OnePlaceOf, MovesOn

\* The daemon stays out of "send", or stays in it with the same request.
LEMMA DaemonOnly ==
  ASSUME NEW c \in Survivors, NEW r \in ReqIds, PlaceInv(c, r),
         UNCHANGED <<candidates, net_vars>>,
         \/ daemon_pc # "send" /\ daemon_pc' # "send"
         \/ UNCHANGED <<daemon_pc, selected>>
  PROVE  MovesOn(c, r)
<1>1. InDaemon(c, r)' <=> InDaemon(c, r)
  BY DEF InDaemon
<1>. QED  BY <1>1, NotTouched DEF net_vars

\* From the candidate list to the daemon.
LEMMA GrantMoves ==
  ASSUME IndType, NEW c \in Survivors, NEW r \in ReqIds, PlaceInv(c, r),
         NEW i \in DOMAIN candidates, daemon_pc # "send", Grant(i)
  PROVE  MovesOn(c, r)
<1>1. /\ candidates' = RemoveAt(candidates, i) /\ selected' = candidates[i]
      /\ daemon_pc' = "send" /\ UNCHANGED <<inbox, handling, outbox, outstanding>>
  BY DEF Grant, net_vars
<1>2. candidates \in Seq(Candidate) /\ AtMostOnce(candidates, Entries(c, r))
  BY DEF Survivors, IndType, TypeOK, PlaceInv, OnceEach
<1>3. PICK T : T = Entries(c, r)
  OBVIOUS
<1>4. /\ AtMostOnce(RemoveAt(candidates, i), T)
      /\ candidates[i] \in T => ~Occurs(RemoveAt(candidates, i), T)
      /\ candidates[i] \notin T => (Occurs(RemoveAt(candidates, i), T) <=> Occurs(candidates, T))
  BY <1>2, <1>3, RemoveOccurs
<1>5. /\ candidates[i] \in T => Occurs(candidates, T)
      /\ candidates[i] \in T <=> IsEntry(candidates[i], c, r)
  BY <1>3, CandidateAt DEF Occurs, Entries, IndType
<1>6. /\ AtMostOnce(candidates', Entries(c, r))
      /\ IsEntry(candidates[i], c, r) => ~InList(c, r)' /\ InList(c, r)
      /\ ~IsEntry(candidates[i], c, r) => (InList(c, r)' <=> InList(c, r))
  BY <1>1, <1>3, <1>4, <1>5 DEF InList
<1>7. (InDaemon(c, r)' <=> IsEntry(candidates[i], c, r)) /\ ~InDaemon(c, r)
  BY <1>1 DEF InDaemon
<1>8. /\ InInbox(c, r)' <=> InInbox(c, r)
      /\ InHandler(c, r)' <=> InHandler(c, r)
      /\ InOutbox(c, r)' <=> InOutbox(c, r)
  BY <1>1 DEF InInbox, InHandler, InOutbox
<1>9. OnceEach(c, r)'
  BY <1>1, <1>6 DEF PlaceInv, OnceEach
<1>10. Held(c, r)' <=> Held(c, r)
  BY <1>6, <1>7, <1>8 DEF Held
<1>11. OnePlaceOf(c, r)'
  BY <1>1, <1>6, <1>7, <1>8, <1>10 DEF PlaceInv, OnePlaceOf
<1>. QED  BY <1>1, <1>9, <1>10, <1>11 DEF PlaceInv, OnePlaceOf, MovesOn

\* What is sent to the descriptor of an entry reaches the survivor it belongs to.
LEMMA DeliveredTo ==
  ASSUME IndType, NEW c \in Survivors, NEW s, NEW e
  PROVE  Delivered(s, e)[c] = IF s = FirstSocket[c] THEN Append(outbox[c], e) ELSE outbox[c]
BY DEF Delivered, Survivors, IndType, ConnInv, SurvivorsStay

\* From the daemon to the connection.
LEMMA SendQuotaMoves ==
  ASSUME IndType, NEW c \in Survivors, NEW r \in ReqIds, PlaceInv(c, r), SendQuota
  PROVE  MovesOn(c, r)
<1>1. selected \in Candidate /\ selected.name \in Clients /\ selected.req_id \in ReqIds
  BY DEF SendQuota, IndType, TypeOK, ServingPcs, Candidate
<1>2. PICK e \in Response : e = QuotaResponse
  BY <1>1 DEF QuotaResponse, Response, comm_request, IndType, TypeOK
<1>3. e.req_id = selected.req_id
  BY <1>2 DEF QuotaResponse
<1>4. /\ outbox' = Delivered(selected.socket, e)
      /\ daemon_pc = "send" /\ daemon_pc' = "armed"
      /\ UNCHANGED <<candidates, inbox, handling, outstanding>>
  BY <1>2 DEF SendQuota
<1>5. ~InDaemon(c, r)' /\ (InDaemon(c, r) <=> IsEntry(selected, c, r))
  BY <1>4 DEF InDaemon
<1>. outbox'[c] = IF selected.name = c THEN Append(outbox[c], e) ELSE outbox[c]
  <2>1. Addressed(selected)
    BY <1>4 DEF IndType, ConnInv, EntriesAddressed
  <2>. QED  BY <1>4, <2>1, DeliveredTo DEF Addressed
<1>6. CASE selected.name # c
  <2>1. outbox'[c] = outbox[c]
    BY <1>6
  <2>2. ~InDaemon(c, r)
    BY <1>5, <1>6 DEF IsEntry
  <2>. QED  BY <1>4, <1>5, <2>1, <2>2, NotTouched
<1>7. CASE selected.name = c
  <2>1. outbox'[c] = Append(outbox[c], e) /\ outbox[c] \in Seq(Response)
    BY <1>7 DEF Survivors, IndType, TypeOK, Survivors
  <2>2. e \in Told(r) <=> InDaemon(c, r)
    BY <1>3, <1>5, <1>7 DEF Told, IsEntry
  <2>3. AtMostOnce(outbox[c], Told(r)) /\ (InDaemon(c, r) => ~Occurs(outbox[c], Told(r)))
    BY DEF PlaceInv, OnceEach, OnePlaceOf, InOutbox
  <2>4. PICK T : T = Told(r)
    OBVIOUS
  <2>5. /\ Occurs(Append(outbox[c], e), T) <=> Occurs(outbox[c], T) \/ e \in T
        /\ AtMostOnce(Append(outbox[c], e), T)
    BY <2>1, <2>2, <2>3, <2>4, AppendOccurs
  <2>6. InOutbox(c, r)' <=> InOutbox(c, r) \/ InDaemon(c, r)
    BY <2>1, <2>2, <2>4, <2>5 DEF InOutbox
  <2>7. /\ InInbox(c, r)' <=> InInbox(c, r)
        /\ InHandler(c, r)' <=> InHandler(c, r)
        /\ InList(c, r)' <=> InList(c, r)
    BY <1>4 DEF InInbox, InHandler, InList
  <2>8. OnceEach(c, r)'
    BY <1>4, <2>1, <2>4, <2>5 DEF PlaceInv, OnceEach
  <2>9. Held(c, r)' <=> Held(c, r)
    BY <1>5, <2>6, <2>7 DEF Held
  <2>10. OnePlaceOf(c, r)'
    BY <1>4, <1>5, <2>6, <2>7, <2>9 DEF PlaceInv, OnePlaceOf
  <2>. QED  BY <1>4, <2>8, <2>9, <2>10 DEF PlaceInv, OnePlaceOf, MovesOn
<1>. QED  BY <1>6, <1>7

\* The handler takes the first message off the connection.
LEMMA TakeHead ==
  ASSUME IndType, NEW c \in Survivors, NEW r \in ReqIds, PlaceInv(c, r), inbox[c] # <<>>,
         inbox'[c] = Tail(inbox[c])
  PROVE  /\ AtMostOnce(inbox[c], Asked(r))'
         /\ Head(inbox[c]) \in Request
         /\ Head(inbox[c]).req_id = r => ~InInbox(c, r)' /\ InInbox(c, r)
         /\ Head(inbox[c]).req_id # r => (InInbox(c, r)' <=> InInbox(c, r))
<1>1. inbox[c] \in Seq(Request) /\ AtMostOnce(inbox[c], Asked(r))
  BY DEF Survivors, IndType, TypeOK, PlaceInv, OnceEach
<1>2. Head(inbox[c]) \in Request
  BY <1>1, HeadTailProperties
<1>3. PICK T : T = Asked(r)
  OBVIOUS
<1>4. /\ AtMostOnce(Tail(inbox[c]), T)
      /\ Head(inbox[c]) \in T => ~Occurs(Tail(inbox[c]), T) /\ Occurs(inbox[c], T)
      /\ Head(inbox[c]) \notin T => (Occurs(Tail(inbox[c]), T) <=> Occurs(inbox[c], T))
  BY <1>1, <1>3, TailOccurs
<1>5. Head(inbox[c]) \in T <=> Head(inbox[c]).req_id = r
  BY <1>2, <1>3 DEF Asked
<1>. QED  BY <1>2, <1>3, <1>4, <1>5 DEF InInbox

\* From the connection to nowhere, of a client that is not configured; the same
\* when the answer cannot be sent.
LEMMA IgnoreMoves ==
  ASSUME IndType, NEW c \in Survivors, NEW r \in ReqIds, PlaceInv(c, r),
         NEW d \in Clients, IgnoreUnknown(d)
  PROVE  MovesOn(c, r)
<1>1. /\ inbox[d] # <<>> /\ ~known(d) /\ inbox' = [inbox EXCEPT ![d] = Tail(@)]
      /\ UNCHANGED <<candidates, daemon_pc, selected, handling, outbox, outstanding>>
  BY DEF IgnoreUnknown, daemon_vars
<1>2. InDaemon(c, r)' <=> InDaemon(c, r)
  BY <1>1 DEF InDaemon
<1>3. CASE d # c
  <2>1. inbox'[c] = inbox[c]
    BY <1>1, <1>3 DEF Survivors, IndType, TypeOK
  <2>. QED  BY <1>1, <1>2, <2>1, NotTouched
<1>4. CASE d = c
  <2>1. inbox[c] # <<>> /\ inbox'[c] = Tail(inbox[c])
    BY <1>1, <1>4 DEF Survivors, IndType, TypeOK
  <2>2. /\ AtMostOnce(inbox[c], Asked(r))'
        /\ Head(inbox[c]).req_id = r => ~InInbox(c, r)' /\ InInbox(c, r)
        /\ Head(inbox[c]).req_id # r => (InInbox(c, r)' <=> InInbox(c, r))
    BY <2>1, TakeHead
  <2>3. /\ InHandler(c, r)' <=> InHandler(c, r)
        /\ InList(c, r)' <=> InList(c, r)
        /\ InOutbox(c, r)' <=> InOutbox(c, r)
    BY <1>1 DEF InHandler, InList, InOutbox
  <2>4. OnceEach(c, r)'
    BY <1>1, <2>2 DEF PlaceInv, OnceEach
  <2>5. OnePlaceOf(c, r)' /\ ((Held(c, r)' <=> Held(c, r)) \/ ~Held(c, r)')
    BY <1>1, <1>2, <2>2, <2>3 DEF PlaceInv, OnePlaceOf, Held
  <2>. QED  BY <1>1, <1>4, <2>4, <2>5 DEF PlaceInv, OnePlaceOf, MovesOn
<1>. QED  BY <1>3, <1>4

\* From the connection to the handler.
LEMMA HandleQuotaMoves ==
  ASSUME IndType, NEW c \in Survivors, NEW r \in ReqIds, PlaceInv(c, r),
         NEW d \in Clients, HandleQuota(d)
  PROVE  MovesOn(c, r)
<1>1. /\ inbox[d] # <<>> /\ handling[d] = NONE /\ inbox' = [inbox EXCEPT ![d] = Tail(@)]
      /\ handling' = [handling EXCEPT ![d] = Head(inbox[d]).req_id]
      /\ UNCHANGED <<candidates, daemon_pc, selected, outbox, outstanding>>
  BY DEF HandleQuota, Received, daemon_vars
<1>2. InDaemon(c, r)' <=> InDaemon(c, r)
  BY <1>1 DEF InDaemon
<1>3. CASE d # c
  <2>1. inbox'[c] = inbox[c] /\ handling'[c] = handling[c]
    BY <1>1, <1>3 DEF Survivors, IndType, TypeOK
  <2>. QED  BY <1>1, <1>2, <2>1, NotTouched
<1>4. CASE d = c
  <2>1. /\ inbox[c] # <<>> /\ inbox'[c] = Tail(inbox[c])
        /\ handling[c] = NONE /\ handling'[c] = Head(inbox[c]).req_id
    BY <1>1, <1>4 DEF Survivors, IndType, TypeOK
  <2>2. /\ AtMostOnce(inbox[c], Asked(r))'
        /\ Head(inbox[c]).req_id = r => ~InInbox(c, r)' /\ InInbox(c, r)
        /\ Head(inbox[c]).req_id # r => (InInbox(c, r)' <=> InInbox(c, r))
    BY <2>1, TakeHead
  <2>3. /\ InHandler(c, r)' <=> Head(inbox[c]).req_id = r
        /\ ~InHandler(c, r)
        /\ InList(c, r)' <=> InList(c, r)
        /\ InOutbox(c, r)' <=> InOutbox(c, r)
    BY <1>1, <2>1, NoneAssumption DEF InHandler, InList, InOutbox
  <2>4. OnceEach(c, r)'
    BY <1>1, <2>2 DEF PlaceInv, OnceEach
  <2>5. Held(c, r)' <=> Held(c, r)
    BY <1>2, <2>2, <2>3 DEF Held
  <2>6. OnePlaceOf(c, r)'
    BY <1>1, <1>2, <2>2, <2>3, <2>5 DEF PlaceInv, OnePlaceOf
  <2>. QED  BY <1>1, <2>4, <2>5, <2>6 DEF PlaceInv, OnePlaceOf, MovesOn
<1>. QED  BY <1>3, <1>4

\* From the handler to the candidate list.
LEMMA PushMoves ==
  ASSUME IndType, NEW c \in Survivors, NEW r \in ReqIds, PlaceInv(c, r),
         NEW d \in Clients, PushCandidate(d)
  PROVE  MovesOn(c, r)
<1>1. PICK e \in Candidate : e = NewCandidate(d)
  <2>1. client_sock[d] \in Sockets /\ handling[d] \in ReqIds
    BY DEF PushCandidate, IndType, TypeOK, ConnInv, HandlerConnected
  <2>. QED  BY <2>1 DEF NewCandidate, Candidate
<1>2. /\ handling[d] # NONE /\ candidates' = Append(candidates, e)
      /\ handling' = [handling EXCEPT ![d] = NONE]
      /\ UNCHANGED <<daemon_pc, selected, inbox, outbox, outstanding>>
  BY <1>1 DEF PushCandidate
<1>3. IsEntry(e, c, r) <=> d = c /\ InHandler(c, r)
  <2>1. e.name = d /\ e.req_id = handling[d]
    BY <1>1 DEF NewCandidate
  <2>. QED  BY <2>1 DEF InHandler, IsEntry
<1>4. /\ InHandler(c, r)' <=> InHandler(c, r) /\ d # c
  BY <1>2, NoneAssumption DEF InHandler, IndType, TypeOK
<1>5. PICK T : T = Entries(c, r)
  OBVIOUS
<1>6. /\ candidates \in Seq(Candidate) /\ AtMostOnce(candidates, T)
      /\ e \in T => ~Occurs(candidates, T)
      /\ e \in T <=> IsEntry(e, c, r)
  BY <1>3, <1>5 DEF Entries, Survivors, IndType, TypeOK, PlaceInv, OnceEach, OnePlaceOf, InList
<1>7. /\ Occurs(Append(candidates, e), T) <=> Occurs(candidates, T) \/ e \in T
      /\ AtMostOnce(Append(candidates, e), T)
  BY <1>6, AppendOccurs
<1>8. /\ InList(c, r)' <=> InList(c, r) \/ IsEntry(e, c, r)
      /\ AtMostOnce(candidates', Entries(c, r))
  BY <1>2, <1>5, <1>6, <1>7 DEF InList
<1>9. /\ InInbox(c, r)' <=> InInbox(c, r)
      /\ InDaemon(c, r)' <=> InDaemon(c, r)
      /\ InOutbox(c, r)' <=> InOutbox(c, r)
  BY <1>2 DEF InInbox, InDaemon, InOutbox
<1>10. OnceEach(c, r)'
  BY <1>2, <1>8 DEF PlaceInv, OnceEach
<1>11. Held(c, r)' <=> Held(c, r)
  BY <1>3, <1>4, <1>8, <1>9 DEF Held
<1>12. OnePlaceOf(c, r)'
  BY <1>2, <1>3, <1>4, <1>8, <1>9, <1>11 DEF PlaceInv, OnePlaceOf
<1>. QED  BY <1>2, <1>10, <1>11, <1>12 DEF PlaceInv, OnePlaceOf, MovesOn

\* From one direction of the connection to the other.
LEMMA AnswerMoves ==
  ASSUME IndType, NEW c \in Survivors, NEW r \in ReqIds, PlaceInv(c, r),
         NEW d \in Clients, NEW v \in Nat, inbox[d] # <<>>, Answer(d, v)
  PROVE  MovesOn(c, r)
<1>1. Head(inbox[d]) \in Request
  BY HeadTailProperties DEF Survivors, IndType, TypeOK
<1>2. PICK e \in Response :
        e = [req_id |-> Head(inbox[d]).req_id, req |-> Head(inbox[d]).req, value |-> v]
  BY <1>1 DEF Request, Response
<1>3. e.req_id = Head(inbox[d]).req_id
  BY <1>2
<1>4. /\ inbox' = [inbox EXCEPT ![d] = Tail(@)]
      /\ outbox' = Delivered(client_sock[d], e)
      /\ UNCHANGED <<candidates, daemon_pc, selected, handling, outstanding>>
  BY <1>2 DEF Answer, daemon_vars
<1>. outbox'[c] = IF d = c THEN Append(outbox[c], e) ELSE outbox[c]
  <2>1. client_sock[c] = FirstSocket[c] /\ (client_sock[d] = client_sock[c] => d = c)
    BY DEF Survivors, IndType, ConnInv, SurvivorsStay, OneSocketEach, HandlerConnected
  <2>. QED  BY <1>4, <2>1, DeliveredTo
<1>5. InDaemon(c, r)' <=> InDaemon(c, r)
  BY <1>4 DEF InDaemon
<1>6. CASE d # c
  <2>1. inbox'[c] = inbox[c] /\ outbox'[c] = outbox[c]
    BY <1>4, <1>6 DEF Survivors, IndType, TypeOK
  <2>. QED  BY <1>4, <1>5, <2>1, NotTouched
<1>7. CASE d = c
  <2>1. /\ inbox[c] # <<>> /\ inbox'[c] = Tail(inbox[c])
        /\ outbox'[c] = Append(outbox[c], e) /\ outbox[c] \in Seq(Response)
    BY <1>4, <1>7 DEF Survivors, IndType, TypeOK
  <2>2. /\ AtMostOnce(inbox[c], Asked(r))'
        /\ Head(inbox[c]).req_id = r => ~InInbox(c, r)' /\ InInbox(c, r)
        /\ Head(inbox[c]).req_id # r => (InInbox(c, r)' <=> InInbox(c, r))
    BY <2>1, TakeHead
  <2>3. PICK T : T = Told(r)
    OBVIOUS
  <2>4. e \in T <=> Head(inbox[c]).req_id = r
    BY <1>3, <1>7, <2>3 DEF Told
  <2>5. AtMostOnce(outbox[c], T) /\ (e \in T => ~Occurs(outbox[c], T))
    BY <2>2, <2>3, <2>4 DEF PlaceInv, OnceEach, OnePlaceOf, InOutbox
  <2>6. /\ Occurs(Append(outbox[c], e), T) <=> Occurs(outbox[c], T) \/ e \in T
        /\ AtMostOnce(Append(outbox[c], e), T)
    BY <2>1, <2>5, AppendOccurs
  <2>7. InOutbox(c, r)' <=> InOutbox(c, r) \/ Head(inbox[c]).req_id = r
    BY <2>1, <2>3, <2>4, <2>6 DEF InOutbox
  <2>8. (InHandler(c, r)' <=> InHandler(c, r)) /\ (InList(c, r)' <=> InList(c, r))
    BY <1>4 DEF InHandler, InList
  <2>9. OnceEach(c, r)'
    BY <1>4, <2>1, <2>2, <2>3, <2>6 DEF PlaceInv, OnceEach
  <2>10. Held(c, r)' <=> Held(c, r)
    BY <1>5, <2>2, <2>7, <2>8 DEF Held
  <2>11. OnePlaceOf(c, r)'
    BY <1>4, <1>5, <2>2, <2>7, <2>8, <2>10 DEF PlaceInv, OnePlaceOf
  <2>. QED  BY <1>4, <2>9, <2>10, <2>11 DEF PlaceInv, OnePlaceOf, MovesOn
<1>. QED  BY <1>6, <1>7

\* A connection of somebody else opens or closes.
LEMMA ConnectionMoves ==
  ASSUME IndType, NEW c \in Survivors, NEW r \in ReqIds, PlaceInv(c, r),
         NEW d \in Mortal, Connection(d)
  PROVE  MovesOn(c, r)
<1>1. c \in Clients /\ c # d /\ d \in Clients
  BY SocketAssumption DEF Survivors
<1>2. /\ UNCHANGED <<inbox, handling, candidates, daemon_pc, selected>>
      /\ outbox' = outbox \/ outbox' = [outbox EXCEPT ![d] = <<>>]
      /\ outstanding' = outstanding \/ outstanding' = [outstanding EXCEPT ![d] = {}]
  BY DEF Connection, PodConnects, PodEnds, HandlerEnds, daemon_vars
<1>3. outbox'[c] = outbox[c] /\ outstanding'[c] = outstanding[c]
  BY <1>1, <1>2 DEF IndType, TypeOK
<1>4. InDaemon(c, r)' <=> InDaemon(c, r)
  BY <1>2 DEF InDaemon
<1>. QED  BY <1>2, <1>3, <1>4, NotTouched

\* A request begins: its id was not in flight, so it was nowhere.
LEMMA PodSendMoves ==
  ASSUME IndType, NEW c \in Survivors, NEW r \in ReqIds, PlaceInv(c, r),
         NEW d \in Clients, NEW s \in ReqIds, NEW m \in Sendable(d), PodSend(d, s, m)
  PROVE  MovesOn(c, r)
<1>1. PICK e \in Request :
        e = [req_id |-> s, req |-> m.req, overuse |-> m.overuse, burst |-> m.burst]
  BY RequestTypesAssumption DEF Sendable, Request
<1>2. e.req_id = s
  BY <1>1
<1>3. /\ s \notin outstanding[d] /\ inbox' = [inbox EXCEPT ![d] = Append(@, e)]
      /\ outstanding' = [outstanding EXCEPT ![d] = @ \cup {s}]
      /\ UNCHANGED <<candidates, daemon_pc, selected, handling, outbox>>
  BY <1>1 DEF PodSend, daemon_vars
<1>4. InDaemon(c, r)' <=> InDaemon(c, r)
  BY <1>3 DEF InDaemon
<1>5. CASE d # c
  <2>1. inbox'[c] = inbox[c] /\ outstanding'[c] = outstanding[c]
    BY <1>3, <1>5 DEF Survivors, IndType, TypeOK
  <2>. QED  BY <1>3, <1>4, <2>1, NotTouched
<1>6. CASE d = c
  <2>1. /\ inbox'[c] = Append(inbox[c], e) /\ inbox[c] \in Seq(Request)
        /\ outstanding'[c] = outstanding[c] \cup {s} /\ s \notin outstanding[c]
    BY <1>3, <1>6 DEF Survivors, IndType, TypeOK
  <2>2. PICK T : T = Asked(r)
    OBVIOUS
  <2>3. e \in T <=> s = r
    BY <1>2, <2>2 DEF Asked
  <2>4. AtMostOnce(inbox[c], T) /\ (e \in T => ~Occurs(inbox[c], T)) /\ (s = r => ~Held(c, r))
    BY <2>1, <2>2, <2>3 DEF PlaceInv, OnceEach, OnePlaceOf, InInbox, Held
  <2>5. /\ Occurs(Append(inbox[c], e), T) <=> Occurs(inbox[c], T) \/ e \in T
        /\ AtMostOnce(Append(inbox[c], e), T)
    BY <2>1, <2>4, AppendOccurs
  <2>6. InInbox(c, r)' <=> InInbox(c, r) \/ s = r
    BY <2>1, <2>2, <2>3, <2>5 DEF InInbox
  <2>7. /\ InHandler(c, r)' <=> InHandler(c, r)
        /\ InList(c, r)' <=> InList(c, r)
        /\ InOutbox(c, r)' <=> InOutbox(c, r)
    BY <1>3 DEF InHandler, InList, InOutbox
  <2>8. OnceEach(c, r)'
    BY <1>3, <2>1, <2>2, <2>5 DEF PlaceInv, OnceEach
  <2>9. Held(c, r)' <=> Held(c, r) \/ s = r
    BY <1>4, <2>6, <2>7 DEF Held
  <2>10. OnePlaceOf(c, r)'
    BY <1>4, <2>1, <2>4, <2>6, <2>7, <2>9 DEF PlaceInv, OnePlaceOf, Held
  <2>. QED  BY <2>1, <2>8, <2>9, <2>10 DEF PlaceInv, OnePlaceOf, MovesOn
<1>. QED  BY <1>5, <1>6

\* A request ends.
LEMMA PodRecvMoves ==
  ASSUME IndType, NEW c \in Survivors, NEW r \in ReqIds, PlaceInv(c, r),
         NEW d \in Clients, PodRecv(d)
  PROVE  MovesOn(c, r)
<1>1. /\ outbox[d] # <<>> /\ outbox' = [outbox EXCEPT ![d] = Tail(@)]
      /\ outstanding' = [outstanding EXCEPT ![d] = @ \ {Head(outbox[d]).req_id}]
      /\ UNCHANGED <<candidates, daemon_pc, selected, inbox, handling>>
  BY DEF PodRecv, daemon_vars
<1>2. InDaemon(c, r)' <=> InDaemon(c, r)
  BY <1>1 DEF InDaemon
<1>3. CASE d # c
  <2>1. outbox'[c] = outbox[c] /\ outstanding'[c] = outstanding[c]
    BY <1>1, <1>3 DEF Survivors, IndType, TypeOK
  <2>. QED  BY <1>1, <1>2, <2>1, NotTouched
<1>4. CASE d = c
  <2>1. /\ outbox[c] # <<>> /\ outbox'[c] = Tail(outbox[c]) /\ outbox[c] \in Seq(Response)
        /\ outstanding'[c] = outstanding[c] \ {Head(outbox[c]).req_id}
    BY <1>1, <1>4 DEF Survivors, IndType, TypeOK
  <2>2. Head(outbox[c]) \in Response
    BY <2>1, HeadTailProperties
  <2>3. PICK T : T = Told(r)
    OBVIOUS
  <2>4. Head(outbox[c]) \in T <=> Head(outbox[c]).req_id = r
    BY <2>2, <2>3 DEF Told
  <2>5. AtMostOnce(outbox[c], T)
    BY <2>3 DEF PlaceInv, OnceEach
  <2>6. /\ AtMostOnce(Tail(outbox[c]), T)
        /\ Head(outbox[c]) \in T => ~Occurs(Tail(outbox[c]), T) /\ Occurs(outbox[c], T)
        /\ Head(outbox[c]) \notin T => (Occurs(Tail(outbox[c]), T) <=> Occurs(outbox[c], T))
    BY <2>1, <2>5, TailOccurs
  <2>7. /\ Head(outbox[c]).req_id = r => ~InOutbox(c, r)' /\ InOutbox(c, r)
        /\ Head(outbox[c]).req_id # r => (InOutbox(c, r)' <=> InOutbox(c, r))
    BY <2>1, <2>3, <2>4, <2>6 DEF InOutbox
  <2>8. /\ InInbox(c, r)' <=> InInbox(c, r)
        /\ InHandler(c, r)' <=> InHandler(c, r)
        /\ InList(c, r)' <=> InList(c, r)
    BY <1>1 DEF InInbox, InHandler, InList
  <2>9. OnceEach(c, r)'
    BY <1>1, <2>1, <2>3, <2>6 DEF PlaceInv, OnceEach
  <2>10. CASE Head(outbox[c]).req_id = r
    <3>1. ~Held(c, r)'
      BY <1>2, <2>7, <2>8, <2>10 DEF Held, PlaceInv, OnePlaceOf
    <3>2. OnePlaceOf(c, r)'
      BY <3>1 DEF OnePlaceOf, Held
    <3>. QED  BY <2>1, <2>9, <2>10, <3>2 DEF PlaceInv, MovesOn
  <2>11. CASE Head(outbox[c]).req_id # r
    <3>1. Held(c, r)' <=> Held(c, r)
      BY <1>2, <2>7, <2>8, <2>11 DEF Held
    <3>2. OnePlaceOf(c, r)'
      BY <1>2, <2>1, <2>7, <2>8, <2>11, <3>1 DEF PlaceInv, OnePlaceOf
    <3>. QED  BY <2>1, <2>9, <3>1, <3>2 DEF PlaceInv, OnePlaceOf, MovesOn
  <2>. QED  BY <2>10, <2>11
<1>. QED  BY <1>3, <1>4

\* Every step moves every request on.
LEMMA NextMoves ==
  ASSUME IndType, [Next]_vars, NEW c \in Survivors, NEW r \in ReqIds, PlaceInv(c, r)
  PROVE  MovesOn(c, r)
<1>. USE DEF net_vars, conn_vars, daemon_vars
<1>1. CASE WaitForCandidates \/ WakeIdle \/ SleepUntilWindowMoves \/ WakeLimited
           \/ BeginHold \/ HoldReturned \/ HoldAgain \/ HoldTimeout \/ SpuriousWakeup
  <2>1. /\ UNCHANGED <<candidates, net_vars>>
        /\ \/ daemon_pc # "send" /\ daemon_pc' # "send"
           \/ UNCHANGED <<daemon_pc, selected>>
    BY <1>1 DEF WaitForCandidates, WakeIdle, SleepUntilWindowMoves, WakeLimited, BeginHold,
                HoldReturned, HoldAgain, HoldTimeout, EndHold, SpuriousWakeup, Selecting
  <2>. QED  BY <2>1, DaemonOnly
<1>2. CASE SelectFirst
  <2>1. 1 \in DOMAIN candidates
    BY <1>2, EmptySeq, LenProperties DEF SelectFirst, Selecting, IndType, TypeOK
  <2>. QED  BY <1>2, <2>1, GrantMoves DEF SelectFirst, Selecting
<1>3. CASE SelectByPriority
  <2>1. PICK i \in Winners : Grant(i)
    BY <1>3 DEF SelectByPriority
  <2>2. i \in DOMAIN candidates
    BY DEF Winners, valid_candidates
  <2>. QED  BY <1>3, <2>1, <2>2, GrantMoves DEF SelectByPriority, Selecting
<1>4. CASE SendQuota
  BY <1>4, SendQuotaMoves
<1>5. ASSUME NEW d \in Clients, Handler(d) PROVE MovesOn(c, r)
  <2>1. CASE HandleMemLimit(d)
    <3>1. client_info_map[d].gpu_mem_limit \in Nat
      BY <2>1 DEF HandleMemLimit, IndType, TypeOK, ClientInfoType, known
    <3>. QED  BY <2>1, <3>1, AnswerMoves DEF HandleMemLimit, Received
  <2>2. CASE HandleMemUpdate(d)
    BY <2>2, AnswerMoves DEF HandleMemUpdate, Received
  <2>. QED  BY <1>5, <2>1, <2>2, IgnoreMoves, HandleQuotaMoves, PushMoves DEF Handler
<1>6. CASE \E d \in Clients, line \in ConfigLines : ReloadLine(d, line)
  BY <1>6, DaemonOnly DEF ReloadLine
<1>7. CASE \E d \in Clients, s \in ReqIds : \E m \in Sendable(d) : PodSend(d, s, m)
  BY <1>7, PodSendMoves
<1>8. CASE \E d \in Clients : PodRecv(d)
  BY <1>8, PodRecvMoves
<1>9. CASE Tick
  BY <1>9, DaemonOnly DEF Tick
<1>10. CASE UNCHANGED vars
  BY <1>10, DaemonOnly DEF vars
<1>. QED  BY <1>1, <1>2, <1>3, <1>4, <1>5, <1>6, <1>7, <1>8, <1>9, <1>10, ConnectionMoves
          DEF Next, Daemon

\* The copies that Copies counts are the places of the request.
LEMMA CopiesCounted ==
  ASSUME TypeOK, NEW c \in Clients, NEW r \in ReqIds, PlaceInv(c, r)
  PROVE  Copies(c, r) = IF Held(c, r) THEN 1 ELSE 0
<1>1. Count(c, r, inbox[c]) = IF InInbox(c, r) THEN 1 ELSE 0
  <2>1. \A i \in DOMAIN inbox[c] : inbox[c][i] \in Request
    BY LenProperties, ElementOfSeq DEF TypeOK
  <2>2. {i \in DOMAIN inbox[c] : inbox[c][i].req_id = r}
          = {i \in DOMAIN inbox[c] : inbox[c][i] \in Asked(r)}
    BY <2>1 DEF Asked
  <2>. QED  BY <2>2, CountOccurs DEF Count, InInbox, PlaceInv, OnceEach
<1>2. Count(c, r, outbox[c]) = IF InOutbox(c, r) THEN 1 ELSE 0
  <2>1. \A i \in DOMAIN outbox[c] : outbox[c][i] \in Response
    BY LenProperties, ElementOfSeq DEF TypeOK
  <2>2. {i \in DOMAIN outbox[c] : outbox[c][i].req_id = r}
          = {i \in DOMAIN outbox[c] : outbox[c][i] \in Told(r)}
    BY <2>1 DEF Told
  <2>. QED  BY <2>2, CountOccurs DEF Count, InOutbox, PlaceInv, OnceEach
<1>3. Cardinality({i \in DOMAIN candidates : IsEntry(candidates[i], c, r)})
        = IF InList(c, r) THEN 1 ELSE 0
  <2>1. {i \in DOMAIN candidates : IsEntry(candidates[i], c, r)}
          = {i \in DOMAIN candidates : candidates[i] \in Entries(c, r)}
    BY CandidateAt DEF Entries
  <2>. QED  BY <2>1, CountOccurs DEF InList, PlaceInv, OnceEach
<1>4. Copies(c, r) = (IF InInbox(c, r) THEN 1 ELSE 0) + (IF InOutbox(c, r) THEN 1 ELSE 0)
        + (IF InHandler(c, r) THEN 1 ELSE 0) + (IF InList(c, r) THEN 1 ELSE 0)
        + (IF InDaemon(c, r) THEN 1 ELSE 0)
  BY <1>1, <1>2, <1>3 DEF Copies, InHandler, InDaemon
<1>. QED  BY <1>4 DEF PlaceInv, OnePlaceOf, Held

\* The requests of a set of pod managers.
AllPlaced(C) == \A c \in C, r \in ReqIds : PlaceInv(c, r)
CopiesMatch(C) ==
    \A c \in C, r \in ReqIds : Copies(c, r) = IF Held(c, r) THEN 1 ELSE 0

LEMMA InitPlaced == Init => AllPlaced(Survivors)
<1>. SUFFICES ASSUME Init, NEW c \in Clients, NEW r \in ReqIds PROVE PlaceInv(c, r)
  BY DEF AllPlaced, Survivors
<1>1. /\ inbox[c] = <<>> /\ outbox[c] = <<>> /\ candidates = <<>>
      /\ handling[c] = NONE /\ daemon_pc = "top"
  BY DEF Init
<1>2. DOMAIN <<>> = {}
  BY EmptySeq
<1>3. OnceEach(c, r) /\ ~InInbox(c, r) /\ ~InList(c, r) /\ ~InOutbox(c, r)
  BY <1>1, <1>2 DEF OnceEach, AtMostOnce, Occurs, InInbox, InList, InOutbox
<1>4. ~InHandler(c, r) /\ ~InDaemon(c, r)
  BY <1>1, NoneAssumption DEF InHandler, InDaemon
<1>. QED  BY <1>3, <1>4 DEF PlaceInv, OnePlaceOf, Held

LEMMA PlacedMatch == ASSUME NEW C, C \subseteq Clients
                     PROVE  TypeOK /\ AllPlaced(C) => CopiesMatch(C)
BY CopiesCounted DEF AllPlaced, CopiesMatch

\* What MovesOn says in terms of copies.
LEMMA MovesConserve ==
  ASSUME NEW C, NEW c \in C, NEW r \in ReqIds, PlaceInv(c, r), MovesOn(c, r),
         CopiesMatch(C), CopiesMatch(C)'
  PROVE  CASE r \notin outstanding'[c] -> Copies(c, r)' = 0
           [] r \in outstanding'[c] \ outstanding[c] -> Copies(c, r)' = 1
           [] OTHER -> \/ Copies(c, r)' = Copies(c, r)
                       \/ ~known(c) /\ Copies(c, r)' = 0
<1>1. /\ Copies(c, r) = IF Held(c, r) THEN 1 ELSE 0
      /\ Copies(c, r)' = IF Held(c, r)' THEN 1 ELSE 0
  BY DEF CopiesMatch
<1>2. r \notin outstanding'[c] => ~Held(c, r)'
  BY DEF MovesOn, PlaceInv, OnePlaceOf
<1>3. r \in outstanding'[c] /\ r \notin outstanding[c] => Held(c, r)'
  BY DEF MovesOn
<1>4. r \in outstanding'[c] /\ r \in outstanding[c] =>
        (Held(c, r)' <=> Held(c, r)) \/ (~known(c) /\ ~Held(c, r)')
  BY DEF MovesOn
<1>5. CASE r \notin outstanding'[c]
  BY <1>1, <1>2, <1>5
<1>6. CASE r \in outstanding'[c] \ outstanding[c]
  BY <1>1, <1>3, <1>6
<1>7. CASE r \in outstanding'[c] /\ r \in outstanding[c]
  BY <1>1, <1>4, <1>7
<1>. QED  BY <1>5, <1>6, <1>7

\* For any number of requests in flight and of pod managers that come and go: no
\* step of the scheduler loses a request of one that stays or answers it twice,
\* and none sends it what was meant for another; only the handler of a client that
\* is not configured may drop one.
THEOREM RequestsNeverLost == Spec => RequestsConserved
<1>. DEFINE Inv == IndType /\ AllPlaced(Survivors)
<1>1. Init => Inv
  BY InitIndType, InitPlaced
<1>2. Inv /\ [Next]_vars => Inv'
  <2>. SUFFICES ASSUME Inv, [Next]_vars PROVE Inv'
    OBVIOUS
  <2>1. \A c \in Survivors, r \in ReqIds : PlaceInv(c, r)'
    BY NextMoves DEF MovesOn, AllPlaced
  <2>2. AllPlaced(Survivors)'
    BY <2>1 DEF AllPlaced
  <2>. QED  BY <2>2, NextIndType
<1>3. Inv => CopiesMatch(Survivors)
  BY PlacedMatch DEF IndType, Survivors
<1>4. Inv /\ CopiesMatch(Survivors) /\ CopiesMatch(Survivors)' /\ [Next]_vars =>
        [\A c \in Clients \ Mortal, r \in ReqIds :
           CASE r \notin outstanding'[c] -> Copies(c, r)' = 0
             [] r \in outstanding'[c] \ outstanding[c] -> Copies(c, r)' = 1
             [] OTHER -> \/ Copies(c, r)' = Copies(c, r)
                         \/ ~known(c) /\ Copies(c, r)' = 0]_<<net_vars, candidates, daemon_pc>>
  <2>. SUFFICES ASSUME Inv, CopiesMatch(Survivors), CopiesMatch(Survivors)', [Next]_vars,
                       NEW c \in Survivors, NEW r \in ReqIds
                PROVE  CASE r \notin outstanding'[c] -> Copies(c, r)' = 0
                         [] r \in outstanding'[c] \ outstanding[c] -> Copies(c, r)' = 1
                         [] OTHER -> \/ Copies(c, r)' = Copies(c, r)
                                     \/ ~known(c) /\ Copies(c, r)' = 0
    BY DEF Survivors
  <2>1. PlaceInv(c, r) /\ MovesOn(c, r)
    BY NextMoves DEF AllPlaced
  <2>. QED  BY <2>1, MovesConserve
<1>. QED  BY <1>1, <1>2, <1>3, <1>4, PTL DEF Spec, RequestsConserved
=============================================================================
