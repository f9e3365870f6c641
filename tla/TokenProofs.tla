----------------------------- MODULE TokenProofs -----------------------------
(***************************************************************************)
(* For any number of clients, connections, requests in flight, reloads and *)
(* any configuration: at most one token is running and waited for at a     *)
(* time, the daemon waits for it, and the scheduler implements             *)
(* TokenServer.  Nothing is assumed of the pod managers: a client that is  *)
(* granted the token while it asks for the next one is hasty from then on, *)
(* and the theorems say what that costs whom.                              *)
(***************************************************************************)
EXTENDS TokenHistory, SchedulerProofs

-----------------------------------------------------------------------------
(***************************************************************************)
(* The inductive invariant.  A slot that runs and is waited for is the     *)
(* newest of all, the daemon will wait at least until it ends, and no      *)
(* request of its client has been handled since it began.                  *)
(***************************************************************************)
Watched(h) == Live(h) /\ h.name \notin hasty
Busy(c) == handling[c] # NONE \/ HasReturned(c)

StartsDistinct ==
    /\ \A h \in history_list : h.start <= now
    /\ \A g, h \in history_list : g.start = h.start => g = h

WatchedSlot(h) ==
    /\ daemon_pc \in ServingPcs /\ selected.name = h.name
    /\ \A g \in history_list : g.start <= h.start
    /\ IF daemon_pc = "send" THEN h.end <= now + quota ELSE h.end <= deadline
    /\ ~Busy(h.name)

SlotDiscipline ==
    /\ StartsDistinct
    /\ \A h \in history_list : Watched(h) => WatchedSlot(h)

HistoryTyped == hasty \subseteq Clients /\ granted \in [Clients -> Nat \cup {NONE}]

IndToken == IndType /\ HistoryTyped /\ SlotDiscipline

-----------------------------------------------------------------------------
(* What the history variables do.                                          *)

\* Only a grant takes the daemon from the top of its loop to the send.
LEMMA GrantingIsGrant ==
    ASSUME IndType, Next, Granting
    PROVE  Selecting /\ \E i \in DOMAIN candidates : Grant(i)
  <1>1. daemon_pc' # daemon_pc /\ daemon_pc = "top" /\ daemon_pc' = "send"
    BY DEF Granting
  <1>2. Daemon
    BY <1>1 DEF Next, daemon_vars, net_vars, Handler, IgnoreUnknown, HandleQuota,
                PushCandidate, HandleMemLimit, HandleMemUpdate, Answer, ReloadLine, PodSend,
                PodRecv, Connection, PodConnects, PodEnds, HandlerEnds, SpuriousWakeup, Tick
  <1>3. SelectFirst \/ SelectByPriority
    BY <1>1, <1>2 DEF Daemon, WaitForCandidates, WakeIdle, SleepUntilWindowMoves, WakeLimited,
                      SendQuota, BeginHold, HoldReturned, HoldTimeout, EndHold, HoldAgain
  <1>4. CASE SelectFirst
    <2>1. 1 \in DOMAIN candidates
      BY <1>4, EmptySeq, LenProperties DEF SelectFirst, Selecting, IndType, TypeOK
    <2> QED BY <1>4, <2>1 DEF SelectFirst
  <1>5. CASE SelectByPriority
    BY <1>5 DEF SelectByPriority, Winners, valid_candidates
  <1> QED BY <1>3, <1>4, <1>5

\* Every step is a step of Scheduler; it changes the history at a grant only.
LEMMA HistoryStep ==
    ASSUME IndType, [HistoryNext]_all_vars
    PROVE  /\ [Next]_vars
           /\ \/ UNCHANGED history_vars /\ ~(daemon_pc = "top" /\ daemon_pc' = "send")
              \/ /\ daemon_pc = "top" /\ daemon_pc' = "send" /\ Selecting
                 /\ \E i \in DOMAIN candidates : Grant(i) /\ Remember(candidates[i].name)
  <1>1. CASE UNCHANGED all_vars
    <2>1. UNCHANGED vars /\ UNCHANGED history_vars
      BY <1>1 DEF all_vars
    <2>2. daemon_pc' = daemon_pc
      BY <2>1 DEF vars, daemon_vars
    <2> QED BY <2>1, <2>2
  <1>2. CASE HistoryNext /\ ~Granting
    BY <1>2 DEF HistoryNext, Granting
  <1>3. CASE HistoryNext /\ Granting
    <2>1. Next /\ Remember(selected'.name)
      BY <1>3 DEF HistoryNext
    <2>2. PICK i \in DOMAIN candidates : Grant(i)
      BY <1>3, <2>1, GrantingIsGrant
    <2>3. selected' = candidates[i]
      BY <2>2 DEF Grant
    <2>4. Remember(candidates[i].name)
      BY <2>1, <2>3
    <2> QED BY <1>3, <2>1, <2>2, <2>4, GrantingIsGrant DEF Granting
  <1> QED BY <1>1, <1>2, <1>3

LEMMA RememberTyped ==
    ASSUME IndType, HistoryTyped, NEW i \in DOMAIN candidates, Remember(candidates[i].name)
    PROVE  HistoryTyped'
  <1>1. PICK n \in Clients : n = candidates[i].name
    BY CandidateAt DEF IndType
  <1>2. client_info_map[n] \in ClientInfoType
    BY <1>1 DEF IndType, TypeOK, CandidatesKnown, known
  <1>3. client_info_map[n].MAX_FRAC \in Nat
    BY <1>2 DEF ClientInfoType
  <1>4. hasty' \subseteq Clients
    BY <1>1 DEF Remember, HistoryTyped
  <1>5. PICK v : v = IF FairlyMeasured(n) THEN client_info_map[n].MAX_FRAC ELSE NONE
    OBVIOUS
  <1>6. granted' = [granted EXCEPT ![n] = v] /\ v \in Nat \cup {NONE}
    BY <1>1, <1>3, <1>5 DEF Remember
  <1>7. granted' \in [Clients -> Nat \cup {NONE}]
    BY <1>6 DEF HistoryTyped
  <1> QED BY <1>4, <1>7 DEF HistoryTyped

-----------------------------------------------------------------------------
(* The running slot.                                                       *)

\* With no slot watched, a step that only prunes the history starts none.
LEMMA NoneWatchedKept ==
    ASSUME StartsDistinct, \A h \in history_list : ~Watched(h),
           history_list' \subseteq history_list, now' = now, hasty' = hasty
    PROVE  SlotDiscipline'
  BY DEF SlotDiscipline, StartsDistinct, Watched, Live

\* A step that leaves slots, clock, daemon and the client's request alone.
LEMMA SlotsKept ==
    ASSUME SlotDiscipline,
           UNCHANGED <<now, history_list, daemon_pc, selected, quota, deadline, hasty>>,
           \A h \in history_list : Busy(h.name)' => Busy(h.name)
    PROVE  SlotDiscipline'
  BY DEF SlotDiscipline, StartsDistinct, WatchedSlot, Watched, Live

LEMMA GrantSlots ==
    ASSUME IndType, SlotDiscipline, daemon_pc = "top",
           NEW i \in DOMAIN candidates, Grant(i), Remember(candidates[i].name)
    PROVE  SlotDiscipline'
  <1> PICK n : n = candidates[i].name
    OBVIOUS
  <1>1. n \in Clients /\ client_info_map[n] \in ClientInfoType
    BY CandidateAt DEF IndType, CandidatesKnown, known, TypeOK
  <1> PICK q \in Nat : q = get_quota(client_info_map[n])
    BY <1>1, GetQuotaType
  <1>2. /\ \A h \in history_list : h.start < now
        /\ selected'.name = n /\ quota' = q /\ daemon_pc' = "send" /\ now' = now
        /\ history_list' = window_history \cup {Record(n, q)} /\ handling' = handling
    BY DEF Grant, net_vars
  <1>3. \A h \in history_list : ~Watched(h)
    BY DEF SlotDiscipline, WatchedSlot, ServingPcs
  <1>4. window_history \subseteq history_list
    BY DEF window_history, InWindow
  <1>5. now \in Int /\ \A h \in history_list : h.start \in Int /\ h.end \in Int
    BY DEF IndType, TypeOK, Slot
  <1> DEFINE new == Record(n, q)
  <1>7. new.name = n /\ new.start = now /\ new.end = now + q
    BY DEF Record
  <1> HIDE DEF new
  <1>8. \A h \in history_list' : h = new \/ (h \in history_list /\ h.start < now)
    BY <1>2, <1>4 DEF new
  <1>9. StartsDistinct'
    BY <1>2, <1>5, <1>7, <1>8 DEF SlotDiscipline, StartsDistinct
  <1>10. /\ Busy(n)' <=> (handling[n] # NONE \/ \E j \in DOMAIN candidates' : candidates'[j].name = n)
         /\ hasty' = IF Busy(n)' THEN hasty \cup {n}
                     ELSE IF HasLiveSlot(n) THEN hasty ELSE hasty \ {n}
    BY <1>2 DEF Busy, HasReturned, Remember
  <1>11. ASSUME NEW h \in history_list', Watched(h)' PROVE h = new /\ ~Busy(n)'
    <2>0. h.name \notin hasty' /\ (h.end > now)
      BY <1>2, <1>11 DEF Watched, Live
    <2>1. CASE Busy(n)' \/ HasLiveSlot(n)
      <3>1. HasLiveSlot(n) => n \in hasty
        BY <1>3 DEF HasLiveSlot, SlotsOf, Watched
      <3>2. n \in hasty' /\ hasty \subseteq hasty'
        BY <1>10, <2>1, <3>1
      <3>3. h # new /\ h.name \notin hasty
        BY <1>7, <2>0, <3>2
      <3> QED BY <1>3, <1>8, <2>0, <3>3 DEF Watched, Live
    <2>2. CASE ~Busy(n)' /\ ~HasLiveSlot(n)
      <3>1. hasty' = hasty \ {n}
        BY <1>10, <2>2
      <3>2. CASE h # new
        <4>1. h \in history_list /\ Live(h)
          BY <1>8, <2>0, <3>2 DEF Live
        <4>2. h.name # n
          BY <2>2, <4>1 DEF HasLiveSlot, SlotsOf
        <4> QED BY <1>3, <2>0, <3>1, <4>1, <4>2 DEF Watched
      <3> QED BY <2>2, <3>2
    <2> QED BY <2>1, <2>2
  <1>12. ASSUME NEW h \in history_list', Watched(h)' PROVE WatchedSlot(h)'
    <2>1. h = new /\ ~Busy(n)'
      BY <1>11, <1>12
    <2>2. \A g \in history_list' : g.start <= h.start
      BY <1>5, <1>7, <1>8, <2>1
    <2>3. h.end <= now' + quota' /\ selected'.name = h.name /\ ~Busy(h.name)'
      BY <1>2, <1>5, <1>7, <2>1
    <2> QED BY <1>2, <2>2, <2>3 DEF WatchedSlot, ServingPcs
  <1> QED BY <1>9, <1>12 DEF SlotDiscipline

\* A client that asks again gives back its running slot: afterwards no slot
\* under its name is watched, and no slot that was not running runs
\* (update_return_time).
LEMMA ReturnEndsSlot ==
    ASSUME IndType, SlotDiscipline, NEW c \in Clients, NEW o \in Nat,
           history_list' = update_return_time(c, o), now' = now, hasty' = hasty
    PROVE  /\ \A h \in history_list' : \E g \in history_list :
                 g.start = h.start /\ (h = g \/ ~Live(h)')
           /\ \A h \in history_list' : Watched(h)' => h \in history_list /\ h.name # c
           /\ StartsDistinct'
  <1> DEFINE new(g) == IF g.name = c /\ IsLatestSlot(history_list, g)
                       THEN ReturnTime(g, o) ELSE g
  <1>1. history_list' = {new(g) : g \in history_list}
    BY DEF update_return_time
  <1>2. ASSUME NEW g \in history_list
        PROVE  /\ g \in Slot /\ g.start \in Int /\ g.end \in Int
               /\ ReturnTime(g, o).start = g.start /\ ReturnTime(g, o).end <= now
               /\ ReturnTime(g, o).name = g.name
    <2>1. g \in Slot /\ now \in Int /\ g.start \in Int /\ g.end \in Int
      BY DEF IndType, TypeOK, Slot
    <2>2. Smaller(now, g.end + o) \in Int /\ Smaller(now, g.end + o) <= now
      BY <2>1 DEF Smaller
    <2> QED BY <2>1, <2>2 DEF ReturnTime, Slot
  <1>3. ASSUME NEW g \in history_list
        PROVE  new(g).start = g.start /\ (new(g) = g \/ ~(new(g).end > now))
    <2>1. CASE g.name = c /\ IsLatestSlot(history_list, g)
      <3>1. new(g) = ReturnTime(g, o)
        BY <2>1
      <3>2. ReturnTime(g, o).end \in Int /\ now \in Int
        BY <1>2 DEF ReturnTime, Slot, Smaller, IndType, TypeOK
      <3> QED BY <3>1, <3>2, <1>2
    <2>2. CASE ~(g.name = c /\ IsLatestSlot(history_list, g))
      BY <2>2
    <2> QED BY <2>1, <2>2
  <1>4. ASSUME NEW g \in history_list, new(g).end > now, new(g).name \notin hasty
        PROVE  new(g) = g /\ g.name # c
    <2>1. new(g) = g /\ Watched(g)
      BY <1>3, <1>4 DEF Live, Watched
    <2>2. \A f \in history_list : f.start <= g.start
      BY <2>1 DEF SlotDiscipline, WatchedSlot
    <2>3. IsLatestSlot(history_list, g)
      BY <2>2 DEF IsLatestSlot, SlotsOf
    <2>4. ~(ReturnTime(g, o).end > now)
      <3>1. ReturnTime(g, o).end \in Int /\ now \in Int
        BY <1>2 DEF ReturnTime, Slot, Smaller, IndType, TypeOK
      <3> QED BY <3>1, <1>2
    <2> QED BY <2>1, <2>3, <2>4, <1>4
  <1> HIDE DEF new
  <1>5. \A h \in history_list' : \E g \in history_list :
            g.start = h.start /\ (h = g \/ ~Live(h)')
    BY <1>1, <1>3 DEF Live
  <1>6. \A h \in history_list' : Watched(h)' => h \in history_list /\ h.name # c
    BY <1>1, <1>4 DEF Live, Watched
  <1>7. StartsDistinct'
    <2>1. \A h \in history_list' : h.start <= now
      BY <1>1, <1>3 DEF SlotDiscipline, StartsDistinct
    <2>2. ASSUME NEW f \in history_list', NEW h \in history_list', f.start = h.start
          PROVE  f = h
      <3> PICK f0 \in history_list : f = new(f0)
        BY <1>1
      <3> PICK h0 \in history_list : h = new(h0)
        BY <1>1
      <3>1. f0.start = h0.start
        BY <1>3, <2>2
      <3> QED BY <3>1 DEF SlotDiscipline, StartsDistinct
    <2> QED BY <2>1, <2>2 DEF StartsDistinct
  <1> QED BY <1>5, <1>6, <1>7

\* Time ends slots and starts none; what is measured against the clock moves
\* with it.
LEMMA TickSlots ==
    ASSUME IndType, SlotDiscipline, Tick, hasty' = hasty
    PROVE  SlotDiscipline'
  <1>1. /\ now \in Int /\ quota \in Nat /\ deadline \in Int
        /\ \A h \in history_list : h.start \in Int /\ h.end \in Int
    BY DEF IndType, TypeOK, Slot
  <1>2. /\ UNCHANGED <<candidates, daemon_pc, selected, quota, handling>>
        /\ \A c : Busy(c)' <=> Busy(c)
    BY DEF Tick, net_vars, Busy, HasReturned
  <1>3. CASE now < HORIZON
    <2>1. now' = now + 1 /\ UNCHANGED <<history_list, deadline>>
      BY <1>3 DEF Tick
    <2>2. StartsDistinct'
      BY <1>1, <2>1 DEF SlotDiscipline, StartsDistinct
    <2>3. ASSUME NEW h \in history_list', Watched(h)' PROVE Watched(h) /\ h \in history_list
      BY <1>1, <2>1, <2>3 DEF Live, Watched
    <2>4. ASSUME NEW h \in history_list', Watched(h)' PROVE WatchedSlot(h)'
      <3>1. WatchedSlot(h)
        BY <2>3, <2>4 DEF SlotDiscipline
      <3>2. h.end \in Int
        BY <1>1, <2>1
      <3> QED BY <1>1, <1>2, <2>1, <3>1, <3>2 DEF WatchedSlot
    <2> QED BY <2>2, <2>4 DEF SlotDiscipline
  <1>4. CASE ~(now < HORIZON)
    <2>1. /\ now' = now
          /\ deadline' = IF deadline > now THEN deadline - 1 ELSE deadline
          /\ \A h \in history_list' : \E g \in history_list : h = Earlier(g)
      BY <1>4 DEF Tick
    <2>2. \A g \in history_list :
            /\ Earlier(g).name = g.name /\ Earlier(g).start = g.start - 1
            /\ Earlier(g).end = g.end - 1
      BY DEF Earlier
    <2>3. StartsDistinct'
      <3>1. \A h \in history_list' : h.start <= now
        BY <1>1, <2>1, <2>2 DEF SlotDiscipline, StartsDistinct
      <3>2. ASSUME NEW f \in history_list', NEW h \in history_list', f.start = h.start
            PROVE  f = h
        <4> PICK f0 \in history_list : f = Earlier(f0)
          BY <2>1
        <4> PICK h0 \in history_list : h = Earlier(h0)
          BY <2>1
        <4>1. f0.start = h0.start
          BY <1>1, <2>2, <3>2
        <4> QED BY <4>1 DEF SlotDiscipline, StartsDistinct
      <3> QED BY <2>1, <3>1, <3>2 DEF StartsDistinct
    <2>4. ASSUME NEW h \in history_list', Watched(h)' PROVE WatchedSlot(h)'
      <3> SUFFICES
                     /\ daemon_pc' \in ServingPcs /\ selected'.name = h.name
                     /\ \A g \in history_list' : g.start <= h.start
                     /\ IF daemon_pc' = "send" THEN h.end <= now' + quota' ELSE h.end <= deadline'
                     /\ ~Busy(h.name)'
        BY DEF WatchedSlot
      <3> PICK h0 \in history_list : h = Earlier(h0)
        BY <2>1
      <3>1. h.name = h0.name /\ h.start = h0.start - 1 /\ h.end = h0.end - 1 /\ h0.end > now + 1
        BY <1>1, <2>1, <2>2, <2>4 DEF Live, Watched
      <3>2. Watched(h0)
        BY <3>1, <1>1, <2>4 DEF Live, Watched
      <3>3. /\ daemon_pc \in ServingPcs /\ selected.name = h0.name
            /\ \A g \in history_list : g.start <= h0.start
            /\ IF daemon_pc = "send" THEN h0.end <= now + quota ELSE h0.end <= deadline
            /\ ~Busy(h0.name)
        BY <3>2 DEF SlotDiscipline, WatchedSlot
      <3>4. \A g \in history_list' : g.start <= h.start
        BY <1>1, <2>1, <2>2, <3>1, <3>3
      <3>5. CASE daemon_pc = "send"
        BY <1>1, <1>2, <2>1, <3>1, <3>3, <3>4, <3>5
      <3>6. CASE daemon_pc # "send"
        <4>1. h0.end <= deadline /\ deadline > now
          BY <1>1, <3>1, <3>3, <3>6
        <4>2. h.end <= deadline'
          BY <1>1, <2>1, <3>1, <4>1
        <4> QED BY <1>2, <3>1, <3>3, <3>4, <3>6, <4>2
      <3> QED BY <3>5, <3>6
    <2> QED BY <2>3, <2>4 DEF SlotDiscipline
  <1> QED BY <1>3, <1>4

\* Every step but a grant.
LEMMA NextSlotDiscipline ==
    ASSUME IndType, SlotDiscipline, [Next]_vars, hasty' = hasty,
           ~(daemon_pc = "top" /\ daemon_pc' = "send")
    PROVE  SlotDiscipline'
  <1> USE DEF net_vars, daemon_vars, conn_vars
  <1>1. /\ now \in Int /\ quota \in Nat /\ deadline \in Int
        /\ \A h \in history_list : h.start \in Int /\ h.end \in Int
    BY DEF IndType, TypeOK, Slot
  <1>2. StartsDistinct
    BY DEF SlotDiscipline
  <1>3. daemon_pc \notin ServingPcs => \A h \in history_list : ~Watched(h)
    BY DEF SlotDiscipline, WatchedSlot
  <1>4. CASE WaitForCandidates \/ WakeIdle \/ WakeLimited
    <2>1. daemon_pc \notin ServingPcs /\ UNCHANGED <<now, history_list>>
      BY <1>4 DEF WaitForCandidates, WakeIdle, WakeLimited, ServingPcs
    <2> QED BY <1>2, <1>3, <2>1, NoneWatchedKept
  <1>5. CASE SelectFirst \/ SelectByPriority
    BY <1>5 DEF SelectFirst, SelectByPriority, Selecting, Grant
  <1>7. CASE SleepUntilWindowMoves
    <2>1. daemon_pc \notin ServingPcs /\ history_list' \subseteq history_list /\ now' = now
      BY <1>7 DEF SleepUntilWindowMoves, Selecting, ServingPcs, window_history, InWindow
    <2> QED BY <1>2, <1>3, <2>1, NoneWatchedKept
  <1>8. CASE SendQuota
    <2>1. /\ daemon_pc = "send" /\ daemon_pc' = "armed" /\ deadline' = now + quota
          /\ UNCHANGED <<now, history_list, candidates, selected, handling>>
      BY <1>8 DEF SendQuota
    <2>2. StartsDistinct'
      BY <1>2, <2>1 DEF StartsDistinct
    <2>3. \A h \in history_list' : Watched(h)' => WatchedSlot(h)'
      BY <2>1 DEF SlotDiscipline, WatchedSlot, Watched, Live, ServingPcs, Busy, HasReturned
    <2> QED BY <2>2, <2>3 DEF SlotDiscipline
  <1>9. CASE BeginHold
    <2>1. /\ daemon_pc = "armed" /\ daemon_pc' = "hold"
          /\ UNCHANGED <<now, history_list, candidates, selected, handling, deadline>>
      BY <1>9 DEF BeginHold
    <2>2. StartsDistinct'
      BY <1>2, <2>1 DEF StartsDistinct
    <2>3. \A h \in history_list' : Watched(h)' => WatchedSlot(h)'
      BY <2>1 DEF SlotDiscipline, WatchedSlot, Watched, Live, ServingPcs, Busy, HasReturned
    <2> QED BY <2>2, <2>3 DEF SlotDiscipline
  <1>10. CASE HoldReturned
    <2>1. \A h \in history_list : ~Watched(h)
      BY <1>10 DEF HoldReturned, SlotDiscipline, WatchedSlot, Busy
    <2> QED BY <1>10, <1>2, <2>1, NoneWatchedKept DEF HoldReturned, EndHold
  <1>11. CASE HoldTimeout
    <2>1. \A h \in history_list : ~Watched(h)
      BY <1>11, <1>1 DEF HoldTimeout, SlotDiscipline, WatchedSlot, Watched, Live
    <2> QED BY <1>11, <1>2, <2>1, NoneWatchedKept DEF HoldTimeout, EndHold
  <1>12. CASE HoldAgain \/ SpuriousWakeup
    <2>1. UNCHANGED <<now, history_list, daemon_pc, selected, quota, deadline, candidates, handling>>
      BY <1>12 DEF HoldAgain, SpuriousWakeup
    <2> QED BY <2>1, SlotsKept DEF Busy, HasReturned
  <1>13. ASSUME NEW c \in Clients, HandleQuota(c) PROVE SlotDiscipline'
    <2> DEFINE m == Head(inbox[c])
    <2>1. m \in Request
      BY <1>13, HeadTailProperties DEF HandleQuota, Received, IndType, TypeOK
    <2> HIDE DEF m
    <2>2. m.overuse \in Nat
      <3>1. m.overuse \in Overuses \cup {0}
        BY <2>1 DEF Request
      <3>2. Overuses \cup {0} \subseteq Nat
        BY ReportAssumption
      <3> QED BY <3>1, <3>2, Zenon
    <2>3. /\ history_list' = update_return_time(c, m.overuse)
          /\ handling' = [handling EXCEPT ![c] = m.req_id]
          /\ UNCHANGED <<now, daemon_pc, selected, quota, deadline, candidates>>
      BY <1>13 DEF HandleQuota, m
    <2>4. /\ \A h \in history_list' : \E g \in history_list : g.start = h.start
          /\ \A h \in history_list' : Watched(h)' => h \in history_list /\ h.name # c
          /\ StartsDistinct'
      BY <2>2, <2>3, ReturnEndsSlot
    <2>5. ASSUME NEW h \in history_list', Watched(h)' PROVE WatchedSlot(h)'
      <3>1. h \in history_list /\ h.name # c /\ h.name \in Clients
        BY <2>4, <2>5 DEF IndType, TypeOK, Slot
      <3>2. Watched(h)
        BY <2>3, <2>5 DEF Live, Watched
      <3>3. handling'[h.name] = handling[h.name]
        BY <2>3, <3>1 DEF IndType, TypeOK
      <3>4. /\ daemon_pc \in ServingPcs /\ selected.name = h.name
            /\ \A g \in history_list : g.start <= h.start
            /\ IF daemon_pc = "send" THEN h.end <= now + quota ELSE h.end <= deadline
            /\ ~Busy(h.name)
        BY <3>1, <3>2 DEF SlotDiscipline, WatchedSlot
      <3>5. \A g \in history_list' : g.start <= h.start
        BY <2>4, <3>4
      <3> QED BY <2>3, <3>3, <3>4, <3>5 DEF WatchedSlot, Busy, HasReturned
    <2> QED BY <2>4, <2>5 DEF SlotDiscipline
  <1>14. ASSUME NEW c \in Clients, PushCandidate(c) PROVE SlotDiscipline'
    <2>0. client_sock[c] \in Sockets /\ handling[c] \in ReqIds /\ handling[c] # NONE
      BY <1>14 DEF PushCandidate, IndType, TypeOK, ConnInv, HandlerConnected
    <2>1. PICK e \in Candidate : e = NewCandidate(c) /\ e.name = c
      <3>1. NewCandidate(c) \in Candidate /\ NewCandidate(c).name = c
        BY <2>0 DEF NewCandidate, Candidate
      <3> QED BY <3>1
    <2>2. /\ candidates' = Append(candidates, e)
          /\ handling' = [handling EXCEPT ![c] = NONE]
          /\ UNCHANGED <<now, history_list, daemon_pc, selected, quota, deadline>>
      BY <1>14, <2>1 DEF PushCandidate
    <2>3. /\ Len(candidates) \in Nat /\ DOMAIN candidates = 1 .. Len(candidates)
          /\ DOMAIN candidates' = 1 .. Len(candidates) + 1
          /\ \A i \in 1 .. Len(candidates) : candidates'[i] = candidates[i]
          /\ candidates'[Len(candidates) + 1] = e
      BY <2>1, <2>2, AppendProperties, LenProperties DEF IndType, TypeOK
    <2>4. ASSUME NEW d \in Clients, Busy(d)' PROVE Busy(d)
      <3>1. handling'[d] # NONE => handling[d] # NONE
        BY <2>2 DEF IndType, TypeOK
      <3>2. HasReturned(d)' => HasReturned(d) \/ d = c
        BY <2>1, <2>3 DEF HasReturned
      <3> QED BY <2>0, <2>4, <3>1, <3>2 DEF Busy
    <2>5. \A h \in history_list : h.name \in Clients
      BY DEF IndType, TypeOK, Slot
    <2> QED BY <2>2, <2>4, <2>5, SlotsKept
  <1>15. ASSUME NEW c \in Clients,
                IgnoreUnknown(c) \/ HandleMemLimit(c) \/ HandleMemUpdate(c) \/ PodRecv(c)
         PROVE  SlotDiscipline'
    <2>1. UNCHANGED <<now, history_list, daemon_pc, selected, quota, deadline, candidates, handling>>
      BY <1>15 DEF IgnoreUnknown, HandleMemLimit, HandleMemUpdate, Answer, PodRecv
    <2> QED BY <2>1, SlotsKept DEF Busy, HasReturned
  <1>16. ASSUME NEW c \in Clients, NEW line \in ConfigLines, ReloadLine(c, line)
         PROVE  SlotDiscipline'
    <2>1. UNCHANGED <<now, history_list, daemon_pc, selected, quota, deadline, candidates, handling>>
      BY <1>16 DEF ReloadLine
    <2> QED BY <2>1, SlotsKept DEF Busy, HasReturned
  <1>17. ASSUME NEW c \in Clients, NEW r \in ReqIds, NEW m \in Sendable(c), PodSend(c, r, m)
         PROVE  SlotDiscipline'
    <2>1. UNCHANGED <<now, history_list, daemon_pc, selected, quota, deadline, candidates, handling>>
      BY <1>17 DEF PodSend
    <2> QED BY <2>1, SlotsKept DEF Busy, HasReturned
  <1>19. ASSUME NEW c \in Mortal, Connection(c) PROVE SlotDiscipline'
    <2>1. UNCHANGED <<now, history_list, daemon_pc, selected, quota, deadline, candidates, handling>>
      BY <1>19 DEF Connection, PodConnects, PodEnds, HandlerEnds
    <2> QED BY <2>1, SlotsKept DEF Busy, HasReturned
  <1>18. CASE UNCHANGED vars
    BY <1>18, SlotsKept DEF vars, Busy, HasReturned
  <1> QED
    BY <1>4, <1>5, <1>7, <1>8, <1>9, <1>10, <1>11, <1>12, <1>13, <1>14, <1>15,
       <1>16, <1>17, <1>18, <1>19, TickSlots
    DEF Next, Daemon, Handler

-----------------------------------------------------------------------------
LEMMA InitIndToken == HistoryInit => IndToken
  <1> SUFFICES ASSUME HistoryInit PROVE HistoryTyped /\ SlotDiscipline
    BY InitIndType DEF IndToken, HistoryInit
  <1>1. history_list = {} /\ hasty = {} /\ granted = [c \in Clients |-> NONE]
    BY DEF HistoryInit, Init
  <1>2. SlotDiscipline
    BY <1>1 DEF SlotDiscipline, StartsDistinct
  <1> QED BY <1>1, <1>2 DEF HistoryTyped

LEMMA NextIndToken == IndToken /\ [HistoryNext]_all_vars => IndToken'
  <1> SUFFICES ASSUME IndToken, [HistoryNext]_all_vars PROVE IndToken'
    OBVIOUS
  <1>1. IndType /\ HistoryTyped /\ SlotDiscipline
    BY DEF IndToken
  <1>2. [Next]_vars
    BY <1>1, HistoryStep
  <1>3. IndType'
    BY <1>1, <1>2, NextIndType
  <1>4. CASE UNCHANGED history_vars /\ ~(daemon_pc = "top" /\ daemon_pc' = "send")
    <2>1. hasty' = hasty /\ granted' = granted
      BY <1>4 DEF history_vars
    <2>2. HistoryTyped'
      BY <1>1, <2>1 DEF HistoryTyped
    <2>3. SlotDiscipline'
      BY <1>1, <1>2, <1>4, <2>1, NextSlotDiscipline
    <2> QED BY <1>3, <2>2, <2>3 DEF IndToken
  <1>5. CASE daemon_pc = "top" /\ \E i \in DOMAIN candidates :
                Grant(i) /\ Remember(candidates[i].name)
    <2>1. PICK i \in DOMAIN candidates : Grant(i) /\ Remember(candidates[i].name)
      BY <1>5
    <2>2. HistoryTyped' /\ SlotDiscipline'
      BY <1>1, <1>5, <2>1, RememberTyped, GrantSlots
    <2> QED BY <1>3, <2>2 DEF IndToken
  <1> QED BY <1>1, <1>4, <1>5, HistoryStep

LEMMA IndTokenExclusive == IndToken => TokenExclusive
  <1> SUFFICES ASSUME IndToken, NEW h \in history_list, Watched(h)
               PROVE  /\ daemon_pc \in ServingPcs /\ selected.name = h.name
                      /\ \A g \in history_list : Watched(g) => g = h
    BY DEF TokenExclusive, Watched
  <1>1. \A f \in history_list : f.start \in Int
    BY DEF IndToken, IndType, TypeOK, Slot
  <1>2. ASSUME NEW g \in history_list, Watched(g) PROVE g.start = h.start
    <2>1. g.start <= h.start /\ h.start <= g.start
      BY <1>2 DEF IndToken, SlotDiscipline, WatchedSlot
    <2> QED BY <1>1, <2>1
  <1> QED BY <1>2 DEF IndToken, SlotDiscipline, StartsDistinct, WatchedSlot

\* Every reachable state of the scheduler and its history is well typed.
THEOREM HistoryTypeCorrect == HistorySpec => []HistoryTypeOK
  <1>1. IndToken => HistoryTypeOK
    BY DEF IndToken, IndType, HistoryTyped, HistoryTypeOK
  <1> QED BY <1>1, InitIndToken, NextIndToken, PTL DEF HistorySpec

\* At most one token that is waited for is running, and the daemon is serving its
\* owner, for every number of clients and of requests in flight, window, quota,
\* configuration, reload and order of events.
THEOREM TokenIsExclusive == HistorySpec => []TokenExclusive
  BY InitIndToken, NextIndToken, IndTokenExclusive, PTL DEF HistorySpec

\* Only two steps take the daemon from the wait to the top of its loop.
LEMMA NextFromHold ==
    ASSUME [Next]_vars, daemon_pc = "hold", daemon_pc' = "top"
    PROVE  HoldReturned \/ HoldTimeout
  <1>1. daemon_pc' # daemon_pc
    OBVIOUS
  <1>2. Daemon
    BY <1>1 DEF Next, vars, daemon_vars, net_vars, Handler, IgnoreUnknown, HandleQuota,
                PushCandidate, HandleMemLimit, HandleMemUpdate, Answer, ReloadLine, PodSend,
                PodRecv, Connection, PodConnects, PodEnds, HandlerEnds, SpuriousWakeup, Tick
  <1> QED BY <1>2 DEF Daemon, WaitForCandidates, WakeIdle, SelectFirst, SelectByPriority,
                      Selecting, SleepUntilWindowMoves, WakeLimited, SendQuota, BeginHold,
                      HoldAgain

\* The daemon stops waiting only when the quota has run out or the selected client
\* has given it back, unless that client was asking for the next token when it got
\* this one (scheduler.cpp:475-492).
THEOREM HoldsArePatient == HistorySpec => HoldIsPatient
  <1>1. ASSUME IndToken, [HistoryNext]_all_vars, daemon_pc = "hold", daemon_pc' = "top"
        PROVE  now >= deadline \/ ~HasLiveSlot(selected.name) \/ selected.name \in hasty
    <2>1. HoldReturned \/ HoldTimeout
      BY <1>1, NextFromHold, HistoryStep DEF IndToken
    <2>2. CASE HoldReturned
      <3>1. Busy(selected.name)
        BY <2>2 DEF HoldReturned, Busy
      <3>2. \A h \in SlotsOf(history_list, selected.name) : ~Watched(h)
        BY <1>1, <3>1 DEF IndToken, SlotDiscipline, WatchedSlot, SlotsOf
      <3> QED BY <3>2 DEF HasLiveSlot, Watched, SlotsOf
    <2>3. CASE HoldTimeout
      BY <2>3 DEF HoldTimeout
    <2> QED BY <2>1, <2>2, <2>3
  <1>2. IndToken /\ [HistoryNext]_all_vars =>
          [daemon_pc = "hold" /\ daemon_pc' = "top" =>
             \/ now >= deadline
             \/ ~HasLiveSlot(selected.name)
             \/ selected.name \in hasty]_all_vars
    BY <1>1
  <1> QED BY <1>2, InitIndToken, NextIndToken, PTL DEF HistorySpec, HoldIsPatient

-----------------------------------------------------------------------------
(***************************************************************************)
(* The scheduler implements the token server.  A quota request waits while *)
(* it is unread, with its handler or on the candidate list, and the holder *)
(* is the owner of the watched slot.  Beside the invariants above the      *)
(* proof needs that a grant is never for a quota of zero, and that a       *)
(* configured client stays configured.                                     *)
(***************************************************************************)
QuotaRequests == {m \in Request : m.req = "REQ_QUOTA"}
EntriesOf(c) == {e \in Candidate : e.name = c}

Unread(c) == NumIn(inbox[c], QuotaRequests)
Taken(c) == IF handling[c] = NONE THEN 0 ELSE 1
Listed(c) == NumIn(candidates, EntriesOf(c))
Pending(c) == Unread(c) + Taken(c) + Listed(c)

ConfigKept ==
    /\ \A c \in Known : known(c)
    /\ \A c \in Clients : known(c) => MaxQuota(client_info_map[c].MAX_FRAC) > 0

ServerInv == IndToken /\ ConfigKept

LEMMA InitConfigKept == Init => ConfigKept
<1>. SUFFICES ASSUME Init PROVE ConfigKept
  OBVIOUS
<1>1. \A c \in Clients :
        client_info_map[c] = IF c \in Known THEN ClientInfo(InitialConfig[c]) ELSE NONE
  BY DEF Init
<1>2. ASSUME NEW c \in Known
      PROVE  /\ ClientInfo(InitialConfig[c]) \in ClientInfoType
             /\ MaxQuota(ClientInfo(InitialConfig[c]).MAX_FRAC) > 0
  <2>1. InitialConfig[c] \in ConfigLine /\ MaxQuota(InitialConfig[c].max_frac) > 0
    BY ConfigAssumption
  <2>2. ClientInfo(InitialConfig[c]).MAX_FRAC = InitialConfig[c].max_frac
    BY DEF ClientInfo
  <2>. QED  BY <2>1, <2>2, ClientInfoTyped
<1>3. Known \subseteq Clients
  BY KnownAssumption
<1>. QED  BY <1>1, <1>2, <1>3, NoneAssumption DEF ConfigKept, known

\* An entry of the configuration changes in its quota or its burst, or as a whole.
LEMMA NextConfigKept ==
  ASSUME IndType, ConfigKept, [Next]_vars
  PROVE  ConfigKept'
<1>. USE DEF net_vars, daemon_vars, conn_vars
<1>1. ASSUME NEW n \in Clients, known(n), NEW info \in ClientInfoType,
             MaxQuota(info.MAX_FRAC) > 0,
             client_info_map' = [client_info_map EXCEPT ![n] = info]
      PROVE  ConfigKept'
  <2>1. client_info_map \in [Clients -> ClientInfoType \cup {NONE}] /\ Known \subseteq Clients
    BY KnownAssumption DEF IndType, TypeOK
  <2>2. \A c \in Clients : client_info_map'[c] = IF c = n THEN info ELSE client_info_map[c]
    BY <1>1, <2>1
  <2>3. info # NONE
    BY NoneAssumption
  <2>. QED  BY <1>1, <2>1, <2>2, <2>3 DEF ConfigKept, known
<1>2. ASSUME NEW i \in DOMAIN candidates, Grant(i) PROVE ConfigKept'
  <2>1. PICK n \in Clients : n = candidates[i].name
    BY CandidateAt DEF IndType
  <2>2. known(n) /\ client_info_map[n] \in ClientInfoType
    BY <2>1 DEF IndType, CandidatesKnown, TypeOK, known
  <2>3. PICK q \in Nat : q = get_quota(client_info_map[n])
    BY <2>2, GetQuotaType
  <2>4. PICK info : info = [client_info_map[n] EXCEPT !.quota_ = q]
    OBVIOUS
  <2>5. info \in ClientInfoType /\ info.MAX_FRAC = client_info_map[n].MAX_FRAC
    BY <2>2, <2>3, <2>4 DEF ClientInfoType
  <2>6. client_info_map' = [client_info_map EXCEPT ![n] = info]
    BY <1>2, <2>1, <2>3, <2>4 DEF Grant
  <2>7. MaxQuota(info.MAX_FRAC) > 0
    BY <2>2, <2>5 DEF ConfigKept
  <2>. QED  BY <1>1, <2>2, <2>5, <2>6, <2>7
<1>3. ASSUME NEW d \in Clients, HandleQuota(d) PROVE ConfigKept'
  <2>1. Head(inbox[d]) \in Request /\ known(d) /\ client_info_map[d] \in ClientInfoType
    BY <1>3, HeadTailProperties DEF HandleQuota, Received, IndType, TypeOK, known
  <2>2. PICK b : b = Head(inbox[d]).burst
    OBVIOUS
  <2>3. b \in Nat
    <3>1. b \in Bursts \cup {0}
      BY <2>1, <2>2 DEF Request
    <3>2. Bursts \cup {0} \subseteq Nat
      BY ReportAssumption
    <3>. QED  BY <3>1, <3>2, Zenon
  <2>4. PICK info : info = [client_info_map[d] EXCEPT !.burst_ = b]
    OBVIOUS
  <2>5. info \in ClientInfoType /\ info.MAX_FRAC = client_info_map[d].MAX_FRAC
    BY <2>1, <2>3, <2>4 DEF ClientInfoType
  <2>6. client_info_map' = [client_info_map EXCEPT ![d] = info]
    BY <1>3, <2>2, <2>4 DEF HandleQuota
  <2>7. MaxQuota(info.MAX_FRAC) > 0
    BY <2>1, <2>5 DEF ConfigKept
  <2>. QED  BY <1>1, <2>1, <2>5, <2>6, <2>7
<1>4. ASSUME NEW d \in Clients, NEW line \in ConfigLines, ReloadLine(d, line) PROVE ConfigKept'
  <2>1. line \in ConfigLine /\ MaxQuota(line.max_frac) > 0
    BY ConfigAssumption
  <2>2. PICK info : info = ClientInfo(line)
    OBVIOUS
  <2>3. info \in ClientInfoType /\ info.MAX_FRAC = line.max_frac /\ info # NONE
    BY <2>1, <2>2, ClientInfoTyped, NoneAssumption DEF ClientInfo
  <2>4. client_info_map' = [client_info_map EXCEPT ![d] = info]
    BY <1>4, <2>2 DEF ReloadLine
  <2>5. client_info_map \in [Clients -> ClientInfoType \cup {NONE}] /\ Known \subseteq Clients
    BY KnownAssumption DEF IndType, TypeOK
  <2>6. \A c \in Clients : client_info_map'[c] = IF c = d THEN info ELSE client_info_map[c]
    BY <2>4, <2>5
  <2>. QED  BY <2>1, <2>3, <2>5, <2>6 DEF ConfigKept, known
<1>5. ASSUME UNCHANGED client_info_map PROVE ConfigKept'
  BY <1>5 DEF ConfigKept, known
<1>6. CASE SelectFirst
  <2>1. 1 \in DOMAIN candidates
    BY <1>6, EmptySeq, LenProperties DEF SelectFirst, Selecting, IndType, TypeOK
  <2>. QED  BY <1>2, <1>6, <2>1 DEF SelectFirst
<1>7. CASE SelectByPriority
  BY <1>2, <1>7 DEF SelectByPriority, Winners, valid_candidates
<1>8. CASE \/ WaitForCandidates \/ WakeIdle \/ SleepUntilWindowMoves \/ WakeLimited
           \/ SendQuota \/ BeginHold \/ HoldReturned \/ HoldAgain \/ HoldTimeout
           \/ SpuriousWakeup \/ Tick \/ UNCHANGED vars
  BY <1>5, <1>8 DEF WaitForCandidates, WakeIdle, SleepUntilWindowMoves, WakeLimited, SendQuota,
       BeginHold, HoldReturned, HoldAgain, HoldTimeout, EndHold, SpuriousWakeup, Tick, vars
<1>9. ASSUME NEW d \in Clients,
             \/ IgnoreUnknown(d) \/ PushCandidate(d) \/ HandleMemLimit(d)
             \/ HandleMemUpdate(d) \/ PodRecv(d)
      PROVE  ConfigKept'
  BY <1>5, <1>9 DEF IgnoreUnknown, PushCandidate, HandleMemLimit, HandleMemUpdate, Answer, PodRecv
<1>10. CASE \E d \in Clients, s \in ReqIds : \E m \in Sendable(d) : PodSend(d, s, m)
  BY <1>5, <1>10 DEF PodSend
<1>11. CASE \E d \in Mortal : Connection(d)
  BY <1>5, <1>11 DEF Connection, PodConnects, PodEnds, HandlerEnds
<1>. QED  BY <1>3, <1>4, <1>6, <1>7, <1>8, <1>9, <1>10, <1>11 DEF Next, Daemon, Handler

\* A granted quota is never zero: the static quota is positive, and the adapted
\* one lies between MIN_QUOTA and MAX_QUOTA.
LEMMA QuotaPositive ==
  ASSUME NEW info \in ClientInfoType, MaxQuota(info.MAX_FRAC) > 0
  PROVE  get_quota(info) \in Nat /\ get_quota(info) > 0
<1>1. info.burst_ \in Nat /\ info.quota_ \in Nat /\ info.MAX_FRAC \in Nat
  BY DEF ClientInfoType
<1>2. PICK m \in Nat : m = MaxQuota(info.MAX_FRAC)
  BY <1>1, MaxQuotaType
<1>3. PICK k \in Nat : k = (info.burst_ + info.quota_) \div 2
  BY <1>1
<1>4. get_quota(info) = IF info.burst_ = 0 THEN QUOTA ELSE Smaller(Larger(k, MIN_QUOTA), m)
  BY <1>2, <1>3 DEF get_quota
<1>. QED  BY <1>2, <1>4, QuotaAssumption DEF Smaller, Larger

\* The refinement mapping in these terms: what waits, and who holds the token.
WaitingMatch ==
    /\ Waiting \in [Clients -> Nat]
    /\ \A c \in Clients : /\ Unread(c) \in Nat /\ Listed(c) \in Nat
                         /\ Waiting[c] = Pending(c)
HolderMatch ==
    /\ \A h \in history_list : Watched(h) => Holder = h.name /\ Holder # NONE
    /\ (\A h \in history_list : ~Watched(h)) => Holder = NONE

LEMMA MappingMatches == ServerInv => WaitingMatch /\ HolderMatch
<1>. SUFFICES ASSUME ServerInv PROVE WaitingMatch /\ HolderMatch
  OBVIOUS
<1>1. ASSUME NEW c \in Clients
      PROVE  /\ Unread(c) \in Nat /\ Listed(c) \in Nat
             /\ Waiting[c] = Pending(c) /\ Pending(c) \in Nat
  <2>0. inbox[c] \in Seq(Request) /\ candidates \in Seq(Candidate)
    BY DEF ServerInv, IndToken, IndType, TypeOK
  <2>1. \A i \in DOMAIN inbox[c] : inbox[c][i] \in Request
    BY <2>0, LenProperties, ElementOfSeq
  <2>2. {i \in DOMAIN inbox[c] : inbox[c][i].req = "REQ_QUOTA"} = PlacesIn(inbox[c], QuotaRequests)
    BY <2>1 DEF PlacesIn, QuotaRequests
  <2>3. \A i \in DOMAIN candidates : candidates[i] \in Candidate
    BY <2>0, LenProperties, ElementOfSeq
  <2>4. {i \in DOMAIN candidates : candidates[i].name = c} = PlacesIn(candidates, EntriesOf(c))
    BY <2>3 DEF PlacesIn, EntriesOf
  <2>5. Unread(c) \in Nat /\ Listed(c) \in Nat
    BY <2>0, PlacesFinite DEF Unread, Listed
  <2>6. Waiting[c] = Unread(c) + (IF handling[c] = NONE THEN 0 ELSE 1) + Listed(c)
    BY <2>2, <2>4 DEF Waiting, Unread, Listed, NumIn
  <2>. QED  BY <2>5, <2>6 DEF Pending, Taken
<1>2. WaitingMatch
  <2>1. Waiting = [c \in Clients |-> Waiting[c]]
    BY DEF Waiting
  <2>2. \A c \in Clients : Waiting[c] \in Nat
    BY <1>1
  <2>. QED  BY <1>1, <2>1, <2>2 DEF WaitingMatch
<1>3. HolderMatch
  <2>1. TokenExclusive /\ \A h \in history_list : h.name \in Clients
    BY IndTokenExclusive DEF ServerInv, IndToken, IndType, TypeOK, Slot
  <2>2. ASSUME NEW h \in history_list, Watched(h) PROVE Holder = h.name /\ Holder # NONE
    <3>1. PICK k : k = CHOOSE g \in history_list : Live(g) /\ g.name \notin hasty
      OBVIOUS
    <3>2. k \in history_list /\ Live(k) /\ k.name \notin hasty
      BY <2>2, <3>1 DEF Watched
    <3>3. k = h
      BY <2>1, <2>2, <3>2 DEF TokenExclusive, Watched
    <3>4. Holder = k.name
      BY <2>2, <3>1 DEF Holder, Watched
    <3>. QED  BY <2>1, <3>3, <3>4, NoneAssumption
  <2>3. (\A h \in history_list : ~Watched(h)) => Holder = NONE
    BY DEF Holder, Watched
  <2>. QED  BY <2>2, <2>3 DEF HolderMatch
<1>. QED  BY <1>2, <1>3

\* How a change of the mapped state follows from the places of the requests.
LEMMA WaitingChanges ==
  ASSUME WaitingMatch, WaitingMatch', NEW d \in Clients, NEW k \in Int,
         \A c \in Clients : Pending(c)' = Pending(c) + (IF c = d THEN k ELSE 0)
  PROVE  Waiting' = [Waiting EXCEPT ![d] = @ + k]
<1>1. /\ Waiting \in [Clients -> Nat] /\ Waiting' \in [Clients -> Nat]
      /\ \A c \in Clients : Waiting[c] = Pending(c) /\ Waiting'[c] = Pending(c)'
  BY DEF WaitingMatch
<1>2. \A c \in Clients : Waiting'[c] = IF c = d THEN Waiting[d] + k ELSE Waiting[c]
  BY <1>1
<1>. QED  BY <1>1, <1>2

LEMMA WaitingSame ==
  ASSUME WaitingMatch, WaitingMatch', \A c \in Clients : Pending(c)' = Pending(c)
  PROVE  Waiting' = Waiting
BY DEF WaitingMatch

\* A grant takes one request of the selected client out of the waiting ones.
LEMMA GrantPending ==
  ASSUME IndType, WaitingMatch, WaitingMatch', NEW i \in DOMAIN candidates, Grant(i),
         NEW n \in Clients, n = candidates[i].name
  PROVE  /\ \A c \in Clients : Pending(c)' = Pending(c) + (IF c = n THEN -1 ELSE 0)
         /\ Pending(n) > 0
         /\ handling[n] # NONE \/ HasReturned(n)' => Pending(n) > 1
<1>1. candidates' = RemoveAt(candidates, i) /\ UNCHANGED <<inbox, handling>>
  BY DEF Grant, net_vars
<1>2. candidates \in Seq(Candidate) /\ candidates[i] \in Candidate
  BY CandidateAt DEF IndType, TypeOK
<1>3. ASSUME NEW c \in Clients
      PROVE  /\ Listed(c)' = Listed(c) - (IF c = n THEN 1 ELSE 0)
             /\ Unread(c)' = Unread(c) /\ Taken(c)' = Taken(c)
             /\ Unread(c) \in Nat /\ Listed(c) \in Nat /\ Listed(c)' \in Nat
             /\ Taken(c) \in {0, 1}
  <2>1. PICK T : T = EntriesOf(c)
    OBVIOUS
  <2>2. candidates[i] \in T <=> c = n
    BY <1>2, <2>1 DEF EntriesOf
  <2>3. NumIn(RemoveAt(candidates, i), T) = NumIn(candidates, T) - (IF candidates[i] \in T THEN 1 ELSE 0)
    BY <1>2, RemoveCounted
  <2>4. Listed(c)' = NumIn(RemoveAt(candidates, i), T) /\ Listed(c) = NumIn(candidates, T)
    BY <1>1, <2>1 DEF Listed
  <2>5. Unread(c)' = Unread(c) /\ Taken(c)' = Taken(c)
    BY <1>1 DEF Unread, Taken
  <2>6. Unread(c) \in Nat /\ Listed(c) \in Nat /\ Listed(c)' \in Nat /\ Taken(c) \in {0, 1}
    BY DEF WaitingMatch, Taken
  <2>. QED  BY <2>2, <2>3, <2>4, <2>5, <2>6
<1>4. \A c \in Clients : Pending(c)' = Pending(c) + (IF c = n THEN -1 ELSE 0)
  BY <1>3 DEF Pending
<1>5. Pending(n) > 0
  BY <1>3 DEF Pending
<1>6. handling[n] # NONE => Pending(n) > 1
  <2>1. handling[n] # NONE => Taken(n) = 1
    BY DEF Taken
  <2>. QED  BY <1>3, <2>1 DEF Pending
<1>7. HasReturned(n)' => Pending(n) > 1
  <2>1. PICK R : R = RemoveAt(candidates, i)
    OBVIOUS
  <2>2. R \in Seq(Candidate)
    BY <1>2, <2>1, RemoveAtProperties
  <2>3. \A j \in DOMAIN R : R[j] \in Candidate
    BY <2>2, LenProperties, ElementOfSeq
  <2>4. HasReturned(n)' => Occurs(R, EntriesOf(n))
    BY <1>1, <2>1, <2>3 DEF HasReturned, Occurs, EntriesOf
  <2>5. Occurs(R, EntriesOf(n)) => NumIn(R, EntriesOf(n)) > 0
    BY <2>2, PlacesFinite
  <2>6. Listed(n)' = NumIn(R, EntriesOf(n))
    BY <1>1, <2>1 DEF Listed
  <2>7. HasReturned(n)' => Listed(n)' > 0
    BY <2>4, <2>5, <2>6
  <2>. QED  BY <1>3, <2>7 DEF Pending
<1>. QED  BY <1>4, <1>5, <1>6, <1>7

\* The handler takes the first message off the connection.
LEMMA TakePending ==
  ASSUME IndType, NEW d \in Clients, inbox[d] # <<>>, inbox' = [inbox EXCEPT ![d] = Tail(@)]
  PROVE  \A c \in Clients :
           Unread(c)' = IF c = d /\ Head(inbox[d]).req = "REQ_QUOTA" THEN Unread(c) - 1 ELSE Unread(c)
<1>. SUFFICES ASSUME NEW c \in Clients
              PROVE  Unread(c)' = IF c = d /\ Head(inbox[d]).req = "REQ_QUOTA"
                                  THEN Unread(c) - 1 ELSE Unread(c)
  OBVIOUS
<1>1. CASE c # d
  <2>1. inbox'[c] = inbox[c]
    BY <1>1 DEF IndType, TypeOK
  <2>. QED  BY <1>1, <2>1 DEF Unread
<1>2. CASE c = d
  <2>1. inbox[c] \in Seq(Request) /\ inbox[c] # <<>> /\ inbox'[c] = Tail(inbox[c])
    BY <1>2 DEF IndType, TypeOK
  <2>2. Head(inbox[c]) \in QuotaRequests <=> Head(inbox[c]).req = "REQ_QUOTA"
    BY <2>1, HeadTailProperties DEF QuotaRequests
  <2>3. PICK T : T = QuotaRequests
    OBVIOUS
  <2>4. NumIn(Tail(inbox[c]), T) = NumIn(inbox[c], T) - (IF Head(inbox[c]) \in T THEN 1 ELSE 0)
    BY <2>1, TailCounted
  <2>5. NumIn(inbox[c], T) \in Nat
    BY <2>1, PlacesFinite
  <2>6. Unread(c)' = NumIn(Tail(inbox[c]), T) /\ Unread(c) = NumIn(inbox[c], T)
    BY <2>1, <2>3 DEF Unread
  <2>. QED  BY <1>2, <2>2, <2>3, <2>4, <2>5, <2>6
<1>. QED  BY <1>1, <1>2

\* The handler puts its request on the candidate list.
LEMMA PushPending ==
  ASSUME IndType, WaitingMatch, WaitingMatch', NEW d \in Clients, PushCandidate(d)
  PROVE  \A c \in Clients : Pending(c)' = Pending(c)
<1>. SUFFICES ASSUME NEW c \in Clients PROVE Pending(c)' = Pending(c)
  OBVIOUS
<1>1. client_sock[d] \in Sockets /\ handling[d] \in ReqIds /\ handling[d] # NONE
  BY DEF PushCandidate, IndType, TypeOK, ConnInv, HandlerConnected
<1>2. PICK e \in Candidate : e = NewCandidate(d) /\ e.name = d
  <2>1. NewCandidate(d) \in Candidate /\ NewCandidate(d).name = d
    BY <1>1 DEF NewCandidate, Candidate
  <2>. QED  BY <2>1
<1>3. /\ candidates' = Append(candidates, e) /\ candidates \in Seq(Candidate)
      /\ handling' = [handling EXCEPT ![d] = NONE] /\ inbox' = inbox
  BY <1>2 DEF PushCandidate, IndType, TypeOK
<1>4. PICK T : T = EntriesOf(c)
  OBVIOUS
<1>5. e \in T <=> c = d
  BY <1>2, <1>4 DEF EntriesOf
<1>6. NumIn(Append(candidates, e), T) = NumIn(candidates, T) + (IF e \in T THEN 1 ELSE 0)
  BY <1>3, AppendCounted
<1>7. Listed(c)' = NumIn(Append(candidates, e), T) /\ Listed(c) = NumIn(candidates, T)
  BY <1>3, <1>4 DEF Listed
<1>8. Unread(c)' = Unread(c) /\ Unread(c) \in Nat /\ Listed(c) \in Nat
  BY <1>3 DEF Unread, WaitingMatch
<1>9. Taken(c)' = (IF c = d THEN 0 ELSE Taken(c)) /\ (c = d => Taken(c) = 1) /\ Taken(c) \in {0, 1}
  BY <1>1, <1>3 DEF Taken, IndType, TypeOK
<1>. QED  BY <1>5, <1>6, <1>7, <1>8, <1>9 DEF Pending

\* A step that starts no slot leaves the holder as it is, or without the token.
LEMMA NoNewHolder ==
  ASSUME HolderMatch, HolderMatch',
         \A h \in history_list' : Watched(h)' => \E g \in history_list : Watched(g) /\ g.name = h.name
  PROVE  Holder' = Holder \/ (Holder' = NONE /\ Holder # NONE)
<1>1. CASE \E h \in history_list' : Watched(h)'
  <2>1. PICK h \in history_list' : Watched(h)'
    BY <1>1
  <2>2. PICK g \in history_list : Watched(g) /\ g.name = h.name
    BY <2>1
  <2>. QED  BY <2>1, <2>2 DEF HolderMatch
<1>2. CASE ~(\E h \in history_list' : Watched(h)')
  BY <1>2 DEF HolderMatch
<1>. QED  BY <1>1, <1>2

\* A step that leaves the waiting requests alone and starts no slot: at most the
\* token is given back.
LEMMA AtMostGivesBack ==
  ASSUME WaitingMatch, WaitingMatch', HolderMatch, HolderMatch', hasty' = hasty,
         \A c \in Clients : Pending(c)' = Pending(c),
         \A h \in history_list' : Watched(h)' => \E g \in history_list : Watched(g) /\ g.name = h.name
  PROVE  [Token!Next]_(Token!vars)
<1>1. Waiting' = Waiting
  BY WaitingSame
<1>2. Holder' = Holder \/ (Holder' = NONE /\ Holder # NONE)
  BY NoNewHolder
<1>3. CASE Holder' = Holder
  BY <1>1, <1>3 DEF Token!vars
<1>4. CASE Holder' = NONE /\ Holder # NONE
  BY <1>1, <1>4 DEF Token!Next, Token!GiveBack
<1>. QED  BY <1>2, <1>3, <1>4

\* select_candidate() and get_quota() grant the token while nobody holds it; to a
\* hasty client the token goes unwatched.
LEMMA GrantIsGrant ==
  ASSUME ServerInv, ServerInv', WaitingMatch, WaitingMatch', HolderMatch, HolderMatch',
         daemon_pc = "top", NEW i \in DOMAIN candidates, Grant(i), Remember(candidates[i].name)
  PROVE  Token!Next
<1>0. IndType /\ SlotDiscipline /\ ConfigKept
  BY DEF ServerInv, IndToken
<1>1. PICK n \in Clients : n = candidates[i].name
  BY <1>0, CandidateAt DEF IndType
<1>2. /\ \A c \in Clients : Pending(c)' = Pending(c) + (IF c = n THEN -1 ELSE 0)
      /\ Pending(n) > 0
      /\ handling[n] # NONE \/ HasReturned(n)' => Pending(n) > 1
  BY <1>0, <1>1, GrantPending
<1>3. Waiting' = [Waiting EXCEPT ![n] = @ + (-1)]
  BY <1>2, WaitingChanges
<1>4. Waiting[n] = Pending(n) /\ Waiting \in [Clients -> Nat]
  BY DEF WaitingMatch
<1>5. Waiting' = [Waiting EXCEPT ![n] = @ - 1]
  BY <1>3, <1>4
<1>6. \A h \in history_list : ~Watched(h)
  BY <1>0 DEF SlotDiscipline, WatchedSlot, ServingPcs
<1>7. Holder = NONE
  BY <1>6 DEF HolderMatch
<1>8. known(n) /\ client_info_map[n] \in ClientInfoType
  BY <1>0, <1>1 DEF IndType, CandidatesKnown, TypeOK, known
<1>9. PICK q \in Nat : q = get_quota(client_info_map[n]) /\ q > 0
  BY <1>0, <1>8, QuotaPositive DEF ConfigKept
<1>10. PICK new : new = Record(n, q)
  OBVIOUS
<1>11. /\ history_list' = window_history \cup {new} /\ now' = now /\ handling' = handling
       /\ window_history \subseteq history_list
  BY <1>1, <1>9, <1>10 DEF Grant, net_vars, window_history, InWindow
<1>12. new.name = n /\ new.end > now
  BY <1>0, <1>9, <1>10 DEF Record, IndType, TypeOK
<1>13. hasty' = IF handling[n] # NONE \/ HasReturned(n)' THEN hasty \cup {n}
                ELSE IF HasLiveSlot(n) THEN hasty ELSE hasty \ {n}
  BY <1>1 DEF Remember, HasReturned
<1>14. HasLiveSlot(n) => n \in hasty
  BY <1>6 DEF HasLiveSlot, SlotsOf, Watched
<1>15. CASE handling[n] # NONE \/ HasReturned(n)' \/ HasLiveSlot(n)
  <2>1. hasty' = hasty \cup {n} /\ (Pending(n) > 1 \/ n \in hasty)
    BY <1>2, <1>13, <1>14, <1>15
  <2>2. \A h \in history_list' : ~Watched(h)'
    BY <1>6, <1>11, <1>12, <2>1 DEF Watched, Live
  <2>3. Holder' = NONE
    BY <2>2 DEF HolderMatch
  <2>. QED  BY <1>2, <1>4, <1>5, <1>7, <2>1, <2>3 DEF Token!Next, Token!GrantHasty, Token!Served
<1>16. CASE ~(handling[n] # NONE \/ HasReturned(n)' \/ HasLiveSlot(n))
  <2>1. hasty' = hasty \ {n}
    BY <1>13, <1>16
  <2>2. new \in history_list' /\ Watched(new)'
    BY <1>11, <1>12, <2>1 DEF Watched, Live
  <2>3. Holder' = n
    BY <1>12, <2>2 DEF HolderMatch
  <2>. QED  BY <1>2, <1>4, <1>5, <1>7, <2>1, <2>3 DEF Token!Next, Token!Grant, Token!Served
<1>. QED  BY <1>15, <1>16

\* The message of an unknown client is refused: it is not one of Known.
LEMMA IgnoreIsRefuse ==
  ASSUME ServerInv, WaitingMatch, WaitingMatch', NEW d \in Clients, IgnoreUnknown(d), hasty' = hasty
  PROVE  [Token!Next]_(Token!vars)
<1>1. d \notin Known /\ IndType
  BY DEF IgnoreUnknown, ServerInv, ConfigKept, IndToken
<1>2. Holder' = Holder
  BY DEF IgnoreUnknown, Holder, Live
<1>3. /\ inbox[d] # <<>> /\ inbox' = [inbox EXCEPT ![d] = Tail(@)]
      /\ UNCHANGED <<candidates, handling>>
  BY DEF IgnoreUnknown
<1>4. ASSUME NEW c \in Clients
      PROVE  /\ Unread(c)' = IF c = d /\ Head(inbox[d]).req = "REQ_QUOTA"
                              THEN Unread(c) - 1 ELSE Unread(c)
             /\ Taken(c)' = Taken(c) /\ Listed(c)' = Listed(c) /\ Taken(c) \in {0, 1}
             /\ Unread(c) \in Nat /\ Listed(c) \in Nat /\ Unread(c)' \in Nat
  <2>1. Unread(c)' = IF c = d /\ Head(inbox[d]).req = "REQ_QUOTA"
                     THEN Unread(c) - 1 ELSE Unread(c)
    BY <1>1, <1>3, TakePending
  <2>2. Taken(c)' = Taken(c) /\ Listed(c)' = Listed(c) /\ Taken(c) \in {0, 1}
    BY <1>3 DEF Taken, Listed
  <2>. QED  BY <2>1, <2>2 DEF WaitingMatch
<1>5. CASE Head(inbox[d]).req = "REQ_QUOTA"
  <2>1. \A c \in Clients : Pending(c)' = Pending(c) + (IF c = d THEN -1 ELSE 0)
    BY <1>4, <1>5 DEF Pending
  <2>2. Pending(d) > 0
    BY <1>4, <1>5 DEF Pending
  <2>3. Waiting' = [Waiting EXCEPT ![d] = @ + (-1)]
    BY <2>1, WaitingChanges
  <2>4. Waiting[d] = Pending(d) /\ Waiting \in [Clients -> Nat]
    BY DEF WaitingMatch
  <2>5. Waiting' = [Waiting EXCEPT ![d] = @ - 1]
    BY <2>3, <2>4
  <2>. QED  BY <1>1, <1>2, <2>2, <2>4, <2>5 DEF Token!Next, Token!Refuse
<1>6. CASE Head(inbox[d]).req # "REQ_QUOTA"
  <2>1. \A c \in Clients : Pending(c)' = Pending(c)
    BY <1>4, <1>6 DEF Pending
  <2>2. Waiting' = Waiting
    BY <2>1, WaitingSame
  <2>. QED  BY <1>2, <2>2 DEF Token!vars
<1>. QED  BY <1>5, <1>6

\* A quota request is an Ask; the others do not concern the token.
LEMMA SendIsAsk ==
  ASSUME ServerInv, WaitingMatch, WaitingMatch', hasty' = hasty,
         NEW d \in Clients, NEW s \in ReqIds, NEW m \in Sendable(d), PodSend(d, s, m)
  PROVE  [Token!Next]_(Token!vars)
<1>0. IndType
  BY DEF ServerInv, IndToken
<1>1. Holder' = Holder
  BY DEF PodSend, Holder, Live
<1>2. PICK e \in Request :
        e = [req_id |-> s, req |-> m.req, overuse |-> m.overuse, burst |-> m.burst]
  BY RequestTypesAssumption DEF Sendable, Request
<1>3. e.req = m.req
  BY <1>2
<1>4. inbox' = [inbox EXCEPT ![d] = Append(@, e)] /\ UNCHANGED <<candidates, handling>>
  BY <1>2 DEF PodSend
<1>5. ASSUME NEW c \in Clients
      PROVE  /\ Unread(c)' = Unread(c) + (IF c = d /\ m.req = "REQ_QUOTA" THEN 1 ELSE 0)
             /\ Taken(c)' = Taken(c) /\ Listed(c)' = Listed(c) /\ Taken(c) \in {0, 1}
             /\ Unread(c) \in Nat /\ Listed(c) \in Nat
  <2>1. Taken(c)' = Taken(c) /\ Listed(c)' = Listed(c) /\ Taken(c) \in {0, 1}
    BY <1>4 DEF Taken, Listed
  <2>2. Unread(c) \in Nat /\ Listed(c) \in Nat
    BY DEF WaitingMatch
  <2>3. CASE c # d
    <3>1. inbox'[c] = inbox[c]
      BY <1>0, <1>4, <2>3 DEF IndType, TypeOK
    <3>2. Unread(c)' = Unread(c)
      BY <3>1 DEF Unread
    <3>. QED  BY <2>1, <2>2, <2>3, <3>2
  <2>4. CASE c = d
    <3>1. inbox[c] \in Seq(Request) /\ inbox'[c] = Append(inbox[c], e)
      BY <1>0, <1>4, <2>4 DEF IndType, TypeOK
    <3>2. PICK T : T = QuotaRequests
      OBVIOUS
    <3>3. e \in T <=> m.req = "REQ_QUOTA"
      BY <1>3, <3>2 DEF QuotaRequests
    <3>4. NumIn(Append(inbox[c], e), T) = NumIn(inbox[c], T) + (IF e \in T THEN 1 ELSE 0)
      BY <3>1, AppendCounted
    <3>5. Unread(c)' = NumIn(Append(inbox[c], e), T) /\ Unread(c) = NumIn(inbox[c], T)
      BY <3>1, <3>2 DEF Unread
    <3>. QED  BY <2>1, <2>2, <2>4, <3>3, <3>4, <3>5
  <2>. QED  BY <2>3, <2>4
<1>6. CASE m.req = "REQ_QUOTA"
  <2>1. \A c \in Clients : Pending(c)' = Pending(c) + (IF c = d THEN 1 ELSE 0)
    BY <1>5, <1>6 DEF Pending
  <2>2. Waiting' = [Waiting EXCEPT ![d] = @ + 1]
    BY <2>1, WaitingChanges
  <2>. QED  BY <1>1, <2>2 DEF Token!Next, Token!Ask
<1>7. CASE m.req # "REQ_QUOTA"
  <2>1. \A c \in Clients : Pending(c)' = Pending(c)
    BY <1>5, <1>7 DEF Pending
  <2>2. Waiting' = Waiting
    BY <2>1, WaitingSame
  <2>. QED  BY <1>1, <2>2 DEF Token!vars
<1>. QED  BY <1>6, <1>7

\* A quota request moves from the connection to its handler.
LEMMA HandlePending ==
  ASSUME IndType, WaitingMatch, WaitingMatch', NEW d \in Clients, HandleQuota(d)
  PROVE  \A c \in Clients : Pending(c)' = Pending(c)
<1>1. /\ inbox[d] # <<>> /\ inbox' = [inbox EXCEPT ![d] = Tail(@)] /\ handling[d] = NONE
      /\ handling' = [handling EXCEPT ![d] = Head(inbox[d]).req_id]
      /\ Head(inbox[d]).req = "REQ_QUOTA" /\ candidates' = candidates
  BY DEF HandleQuota, Received
<1>2. Head(inbox[d]).req_id # NONE
  <2>1. inbox[d] \in Seq(Request)
    BY DEF IndType, TypeOK
  <2>2. Head(inbox[d]) \in Request
    BY <1>1, <2>1, HeadTailProperties
  <2>3. Head(inbox[d]).req_id \in ReqIds
    BY <2>2 DEF Request
  <2>. QED  BY <2>3, NoneAssumption
<1>. SUFFICES ASSUME NEW c \in Clients PROVE Pending(c)' = Pending(c)
  OBVIOUS
<1>3. Unread(c)' = IF c = d THEN Unread(c) - 1 ELSE Unread(c)
  BY <1>1, TakePending
<1>4. Taken(c)' = (IF c = d THEN 1 ELSE Taken(c)) /\ (c = d => Taken(c) = 0) /\ Taken(c) \in {0, 1}
  BY <1>1, <1>2 DEF Taken, IndType, TypeOK
<1>5. Listed(c)' = Listed(c) /\ Unread(c) \in Nat /\ Listed(c) \in Nat
  BY <1>1 DEF Listed, WaitingMatch
<1>. QED  BY <1>3, <1>4, <1>5 DEF Pending

\* A memory request is answered: no quota request is touched.
LEMMA AnswerPending ==
  ASSUME IndType, WaitingMatch, NEW d \in Clients, NEW v, inbox[d] # <<>>,
         Head(inbox[d]).req # "REQ_QUOTA", Answer(d, v)
  PROVE  \A c \in Clients : Pending(c)' = Pending(c)
<1>1. inbox' = [inbox EXCEPT ![d] = Tail(@)] /\ UNCHANGED <<candidates, handling>>
  BY DEF Answer
<1>2. \A c \in Clients : Unread(c)' = Unread(c)
  BY <1>1, TakePending
<1>. QED  BY <1>1, <1>2 DEF Pending, Taken, Listed

\* Every step but a grant.
LEMMA StepRefines ==
  ASSUME ServerInv, ServerInv', WaitingMatch, WaitingMatch', HolderMatch, HolderMatch',
         [Next]_vars, hasty' = hasty, ~(daemon_pc = "top" /\ daemon_pc' = "send")
  PROVE  [Token!Next]_(Token!vars)
<1>. USE DEF net_vars, daemon_vars, conn_vars
<1>0. IndType /\ SlotDiscipline
  BY DEF ServerInv, IndToken
<1>a. ASSUME UNCHANGED <<inbox, handling, candidates>>
      PROVE  \A c \in Clients : Pending(c)' = Pending(c)
  BY <1>a DEF Pending, Unread, Taken, Listed
<1>b. ASSUME UNCHANGED <<now, history_list>>
      PROVE  \A h \in history_list' : Watched(h)' => \E g \in history_list : Watched(g) /\ g.name = h.name
  BY <1>b DEF Live, Watched
<1>1. CASE \/ WaitForCandidates \/ WakeIdle \/ WakeLimited \/ SendQuota \/ BeginHold
           \/ HoldReturned \/ HoldAgain \/ HoldTimeout \/ SpuriousWakeup \/ UNCHANGED vars
           \/ \E d \in Clients : PodRecv(d)
           \/ \E d \in Clients, line \in ConfigLines : ReloadLine(d, line)
           \/ \E d \in Mortal : Connection(d)
  <2>1. UNCHANGED <<now, history_list, inbox, handling, candidates>>
    BY <1>1 DEF WaitForCandidates, WakeIdle, WakeLimited, SendQuota, BeginHold, HoldReturned,
         HoldAgain, HoldTimeout, EndHold, SpuriousWakeup, vars, PodRecv, ReloadLine, Connection,
         PodConnects, PodEnds, HandlerEnds
  <2>. QED  BY <1>a, <1>b, <2>1, AtMostGivesBack
<1>2. CASE SleepUntilWindowMoves
  <2>1. /\ UNCHANGED <<now, inbox, handling, candidates>>
        /\ history_list' \subseteq history_list
    BY <1>2 DEF SleepUntilWindowMoves, window_history, InWindow
  <2>2. \A h \in history_list' : Watched(h)' => \E g \in history_list : Watched(g) /\ g.name = h.name
    BY <2>1 DEF Live, Watched
  <2>. QED  BY <1>a, <2>1, <2>2, AtMostGivesBack
<1>3. CASE SelectFirst \/ SelectByPriority
  BY <1>3 DEF SelectFirst, SelectByPriority, Selecting, Grant
<1>5. ASSUME NEW d \in Clients, Handler(d) PROVE [Token!Next]_(Token!vars)
  <2>1. CASE IgnoreUnknown(d)
    BY <2>1, IgnoreIsRefuse
  <2>2. CASE HandleQuota(d)
    <3>1. \A c \in Clients : Pending(c)' = Pending(c)
      BY <1>0, <2>2, HandlePending
    <3>2. Head(inbox[d]) \in Request
      BY <1>0, <2>2, HeadTailProperties DEF HandleQuota, Received, IndType, TypeOK
    <3>3. PICK o : o = Head(inbox[d]).overuse
      OBVIOUS
    <3>4. o \in Nat
      <4>1. o \in Overuses \cup {0}
        BY <3>2, <3>3 DEF Request
      <4>2. Overuses \cup {0} \subseteq Nat
        BY ReportAssumption
      <4>. QED  BY <4>1, <4>2, Zenon
    <3>5. history_list' = update_return_time(d, o) /\ now' = now
      BY <2>2, <3>3 DEF HandleQuota
    <3>6. \A h \in history_list' : Watched(h)' => h \in history_list
      BY <1>0, <3>4, <3>5, ReturnEndsSlot
    <3>7. \A h \in history_list' : Watched(h)' => \E g \in history_list : Watched(g) /\ g.name = h.name
      BY <3>5, <3>6 DEF Live, Watched
    <3>. QED  BY <3>1, <3>7, AtMostGivesBack
  <2>3. CASE PushCandidate(d)
    <3>1. UNCHANGED <<now, history_list>>
      BY <2>3 DEF PushCandidate
    <3>2. \A c \in Clients : Pending(c)' = Pending(c)
      BY <1>0, <2>3, PushPending
    <3>. QED  BY <1>b, <3>1, <3>2, AtMostGivesBack
  <2>4. CASE HandleMemLimit(d) \/ HandleMemUpdate(d)
    <3>1. PICK v : Answer(d, v)
      BY <2>4 DEF HandleMemLimit, HandleMemUpdate
    <3>2. inbox[d] # <<>> /\ Head(inbox[d]).req # "REQ_QUOTA"
      BY <2>4 DEF HandleMemLimit, HandleMemUpdate, Received
    <3>3. UNCHANGED <<now, history_list>>
      BY <3>1 DEF Answer
    <3>4. \A c \in Clients : Pending(c)' = Pending(c)
      BY <1>0, <3>1, <3>2, AnswerPending
    <3>. QED  BY <1>b, <3>3, <3>4, AtMostGivesBack
  <2>. QED  BY <1>5, <2>1, <2>2, <2>3, <2>4 DEF Handler
<1>6. CASE \E d \in Clients, s \in ReqIds : \E m \in Sendable(d) : PodSend(d, s, m)
  BY <1>6, SendIsAsk
<1>7. CASE Tick
  <2>1. UNCHANGED <<inbox, handling, candidates>>
    BY <1>7 DEF Tick
  <2>2. now \in Nat /\ \A h \in history_list : h.end \in Int
    BY <1>0 DEF IndType, TypeOK, Slot
  <2>3. \A h \in history_list' : Watched(h)' => \E g \in history_list : Watched(g) /\ g.name = h.name
    <3>1. CASE now < HORIZON
      <4>1. now' = now + 1 /\ history_list' = history_list
        BY <1>7, <3>1 DEF Tick
      <4>. QED  BY <2>2, <4>1 DEF Live, Watched
    <3>2. CASE ~(now < HORIZON)
      <4>1. /\ now' = now
            /\ \A h \in history_list' : \E g \in history_list : h = Earlier(g)
        BY <1>7, <3>2 DEF Tick
      <4>. SUFFICES ASSUME NEW h \in history_list', Watched(h)'
                    PROVE  \E g \in history_list : Watched(g) /\ g.name = h.name
        OBVIOUS
      <4>2. PICK g \in history_list : h = Earlier(g)
        BY <4>1
      <4>3. h.name = g.name /\ h.end = g.end - 1
        BY <4>2 DEF Earlier
      <4>. QED  BY <2>2, <4>1, <4>3 DEF Live, Watched
    <3>. QED  BY <3>1, <3>2
  <2>. QED  BY <1>a, <2>1, <2>3, AtMostGivesBack
<1>. QED  BY <1>1, <1>2, <1>3, <1>5, <1>6, <1>7 DEF Next, Daemon

\* The scheduler implements the token server for every number of clients and of
\* requests in flight, configuration, window and quota: it grants the token only to
\* a waiting client and only while no watched one is running, it leaves a token
\* unwatched only when its client is already asking for the next or has an earlier
\* one out, and no request of a client that the file lists at the start goes
\* unanswered but by a grant.
THEOREM TokenServerImplemented == HistorySpec => ImplementsTokenServer
<1>1. HistoryInit => ServerInv
  BY InitIndToken, InitConfigKept DEF ServerInv, HistoryInit
<1>2. ServerInv /\ [HistoryNext]_all_vars => ServerInv'
  BY NextIndToken, NextConfigKept, HistoryStep DEF ServerInv, IndToken
<1>3. ServerInv => WaitingMatch /\ HolderMatch
  BY MappingMatches
<1>4. HistoryInit => Token!Init
  <2>. SUFFICES ASSUME HistoryInit PROVE Waiting = [c \in Clients |-> 0] /\ Holder = NONE
    BY DEF Token!Init, HistoryInit
  <2>1. /\ history_list = {} /\ candidates = <<>>
        /\ \A c \in Clients : inbox[c] = <<>> /\ handling[c] = NONE
    BY DEF HistoryInit, Init
  <2>2. DOMAIN <<>> = {} /\ Cardinality({}) = 0
    BY EmptySeq, FS_EmptySet
  <2>3. \A c \in Clients : Waiting[c] = 0
    <3>. SUFFICES ASSUME NEW c \in Clients PROVE Waiting[c] = 0
      OBVIOUS
    <3>1. {i \in DOMAIN inbox[c] : inbox[c][i].req = "REQ_QUOTA"} = {}
      BY <2>1, <2>2
    <3>2. {i \in DOMAIN candidates : candidates[i].name = c} = {}
      BY <2>1, <2>2
    <3>3. Waiting[c] =   Cardinality({i \in DOMAIN inbox[c] : inbox[c][i].req = "REQ_QUOTA"})
                       + (IF handling[c] = NONE THEN 0 ELSE 1)
                       + Cardinality({i \in DOMAIN candidates : candidates[i].name = c})
      BY DEF Waiting
    <3>4. Waiting[c] = Cardinality({}) + 0 + Cardinality({})
      BY <2>1, <3>1, <3>2, <3>3
    <3>. QED  BY <2>2, <3>4
  <2>4. Waiting = [c \in Clients |-> Waiting[c]]
    BY DEF Waiting
  <2>. QED  BY <2>1, <2>3, <2>4 DEF Holder
<1>5. /\ ServerInv /\ ServerInv' /\ [HistoryNext]_all_vars
      /\ WaitingMatch /\ WaitingMatch' /\ HolderMatch /\ HolderMatch'
      => [Token!Next]_(Token!vars)
  <2>. SUFFICES ASSUME ServerInv, ServerInv', [HistoryNext]_all_vars,
                       WaitingMatch, WaitingMatch', HolderMatch, HolderMatch'
                PROVE  [Token!Next]_(Token!vars)
    OBVIOUS
  <2>1. CASE UNCHANGED history_vars /\ ~(daemon_pc = "top" /\ daemon_pc' = "send")
    BY <2>1, HistoryStep, StepRefines DEF ServerInv, IndToken, history_vars
  <2>2. CASE daemon_pc = "top" /\ \E i \in DOMAIN candidates :
                Grant(i) /\ Remember(candidates[i].name)
    BY <2>2, GrantIsGrant
  <2>. QED  BY <2>1, <2>2, HistoryStep DEF ServerInv, IndToken
<1>. QED  BY <1>1, <1>2, <1>3, <1>4, <1>5, PTL DEF HistorySpec, ImplementsTokenServer, Token!Spec
=============================================================================
