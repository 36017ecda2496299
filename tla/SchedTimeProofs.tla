-------------------------- MODULE SchedTimeProofs ---------------------------
(***************************************************************************)
(* The clock of sched_time.c for any number of CPUs.  A time only moves    *)
(* through a cmpset, so the proof is about what a CPU remembers between    *)
(* its loads and its cmpset: a lower bound of the time it was read from,   *)
(* since no time goes back, and an upper bound of what had been returned.  *)
(***************************************************************************)
EXTENDS SchedTime, TLAPS

(* What every CPU's clock satisfies between two steps. *)
ClockOK(p) ==
    /\ tick_sys_time[p] <= uptime
    /\ time[p] <= uptime + tick_ns
    /\ seen[p] <= time[p]
    /\ read[p] <= time[p]

Remote == {"load_local", "load_remote", "cmpset"}

(* What the local variables of a call tell, by the place it is at. *)
CallOK(p) ==
    /\ call[p].pc \in {"idle"} \cup Remote => tick_sys_time[p] <= time[p]
    /\ call[p].pc # "idle" => call[p].floor <= read[call[p].cpu]
    /\ call[p].pc = "local_cmpset" =>
          /\ call[p].old_time <= call[p].val
          /\ tick_sys_time[p] <= call[p].val
          /\ call[p].val <= uptime + tick_ns
    /\ call[p].pc \in Remote => call[p].cpu # p
    /\ call[p].pc \in {"load_remote", "cmpset"} =>
          /\ seen[p] <= call[p].local_time
          /\ call[p].local_time <= time[p]
    /\ call[p].pc = "cmpset" =>
          /\ call[p].floor <= call[p].remote_time
          /\ call[p].remote_time <= time[call[p].cpu]

(* Before sched_time_init nothing has been called. *)
NotRunning ==
    ~sched_time_running =>
        \A p \in Cpu : /\ call[p].pc = "idle" /\ time[p] = 0
                       /\ seen[p] = 0 /\ read[p] = 0

IInv ==
    /\ TypeOK
    /\ NotRunning
    /\ \A p \in Cpu : ClockOK(p) /\ CallOK(p)

-----------------------------------------------------------------------------

(* The clamping of sched_time_local: the new time is no less than the old  *)
(* one and the up-time of the last tick, and no more than the old one or a *)
(* tick after that.                                                        *)
LEMMA NewTimeClamped ==
    ASSUME NEW sys \in Nat, NEW old_time \in Nat, NEW delta \in Int
    PROVE  /\ NewTime(sys, old_time, delta) \in Nat
           /\ NewTime(sys, old_time, delta) >= sys
           /\ NewTime(sys, old_time, delta) >= old_time
           /\ \/ NewTime(sys, old_time, delta) <= sys + tick_ns
              \/ NewTime(sys, old_time, delta) <= old_time
  BY SchedTimeAssumption DEF NewTime, wrap_max_64, wrap_min_64

(* The values of a call that starts or ends. *)
LEMMA StartTyped ==
    ASSUME NEW pc \in Pc, NEW cpu \in Cpu, NEW floor \in Nat
    PROVE  /\ Start(pc, cpu, floor) \in Call
           /\ Start(pc, cpu, floor).pc = pc
           /\ Start(pc, cpu, floor).cpu = cpu
           /\ Start(pc, cpu, floor).floor = floor
  BY DEF Start, Call

(* The invariant holds at boot. *)
LEMMA InitInv == Init => IInv
<1> SUFFICES ASSUME Init PROVE IInv
  OBVIOUS
<1>1. \A p \in Cpu : Start("idle", p, 0) \in Call
                    /\ Start("idle", p, 0).pc = "idle"
  BY StartTyped DEF Pc
<1>2. \A p \in Cpu : call[p] \in Call /\ call[p].pc = "idle"
  BY ZenonT(60), <1>1 DEF Init
<1>3. TypeOK
  BY <1>1 DEF Init, TypeOK
<1>4. NotRunning
  BY ZenonT(60), <1>2 DEF Init, NotRunning
<1>5. ASSUME NEW p \in Cpu PROVE ClockOK(p) /\ CallOK(p)
  BY <1>2, SchedTimeAssumption DEF Init, ClockOK, CallOK, Remote
<1> QED BY <1>3, <1>4, <1>5 DEF IInv

(* sched_time_init moves every time from 0 to the up-time. *)
LEMMA SchedTimeInitInv == IInv /\ SchedTimeInit => IInv'
  BY SchedTimeAssumption
  DEF SchedTimeInit, IInv, TypeOK, NotRunning, ClockOK, CallOK, Remote

(* The up-time only loosens the bounds. *)
LEMMA UptimeInv == IInv /\ Uptime => IInv'
  BY SchedTimeAssumption
  DEF Uptime, IInv, TypeOK, NotRunning, ClockOK, CallOK, Remote, Call

(* A call begins: its floor is what has been returned so far. *)
LEMMA BeginInv ==
    ASSUME IInv, NEW p \in Cpu, NEW cpu \in Cpu,
           SchedTimeCpu(p, cpu) \/ (cpu = p /\ SchedTimeTick(p))
    PROVE  IInv'
<1> DEFINE k == Start("local", cpu, read[cpu])
<1>1. k \in Call /\ k.pc = "local" /\ k.cpu = cpu /\ k.floor = read[cpu]
  BY StartTyped DEF IInv, TypeOK, Pc
<1>2. /\ sched_time_running /\ sched_time_running' = sched_time_running
      /\ uptime' = uptime /\ time' = time /\ seen' = seen /\ read' = read
      /\ call' = [call EXCEPT ![p] = k]
  BY DEF SchedTimeCpu, SchedTimeTick
<1>3. /\ tick_sys_time' \in [Cpu -> Nat]
      /\ \A q \in Cpu : /\ tick_sys_time'[q] <= uptime
                        /\ q # p => tick_sys_time'[q] = tick_sys_time[q]
  BY DEF SchedTimeCpu, SchedTimeTick, IInv, TypeOK, ClockOK
<1> HIDE DEF k
<1>4. TypeOK' /\ NotRunning'
  BY <1>1, <1>2, <1>3 DEF IInv, TypeOK, NotRunning
<1>5. ASSUME NEW q \in Cpu PROVE ClockOK(q)'
  BY <1>2, <1>3 DEF IInv, ClockOK
<1>6. ASSUME NEW q \in Cpu PROVE CallOK(q)'
  <2>1. CASE q = p
    BY <2>1, <1>1, <1>2 DEF IInv, TypeOK, CallOK, Remote
  <2>2. CASE q # p
    BY <2>2, <1>2, <1>3 DEF IInv, TypeOK, CallOK, Remote
  <2> QED BY <2>1, <2>2
<1> QED BY <1>4, <1>5, <1>6 DEF IInv

(* A step of a call of CPU p leaves the others as they are but for times   *)
(* and readings that may have moved forward.                               *)
LEMMA StepInv ==
    ASSUME IInv, sched_time_running, NEW p \in Cpu, NEW k \in Call,
           call' = [call EXCEPT ![p] = k],
           UNCHANGED <<sched_time_running, uptime, tick_sys_time>>,
           time' \in [Cpu -> Nat], seen' \in [Cpu -> Nat],
           read' \in [Cpu -> Nat],
           \A q \in Cpu : /\ time[q] <= time'[q]
                          /\ time'[q] <= uptime + tick_ns
                          /\ read[q] <= read'[q]
                          /\ read'[q] <= time'[q]
                          /\ q # p => seen'[q] = seen[q],
           seen'[p] <= time'[p],
           CallOK(p)'
    PROVE  IInv'
<1>1. TypeOK' /\ NotRunning'
  BY DEF IInv, TypeOK, NotRunning
<1>2. ASSUME NEW q \in Cpu PROVE ClockOK(q)'
  <2>1. /\ tick_sys_time[q] <= uptime /\ seen[q] <= time[q]
        /\ time[q] \in Nat /\ time'[q] \in Nat /\ seen[q] \in Nat
    BY DEF IInv, TypeOK, ClockOK
  <2>2. seen'[q] <= time'[q]
    <3>1. CASE q = p BY <3>1
    <3>2. CASE q # p BY <3>2, <2>1
    <3> QED BY <3>1, <3>2
  <2> QED BY <2>1, <2>2 DEF ClockOK
<1>3. ASSUME NEW q \in Cpu, q # p PROVE CallOK(q)'
  <2>1. call'[q] = call[q] /\ call[q] \in Call /\ call[q].cpu \in Cpu
    BY <1>3 DEF IInv, TypeOK, Call
  <2>2. /\ call[q].floor \in Nat /\ call[q].remote_time \in Nat
        /\ call[q].local_time \in Nat
    BY <2>1 DEF Call
  <2>3. CallOK(q) /\ seen'[q] = seen[q] /\ time[q] <= time'[q]
    BY <1>3 DEF IInv
  <2>4. /\ time[call[q].cpu] <= time'[call[q].cpu]
        /\ read[call[q].cpu] <= read'[call[q].cpu]
    BY <2>1
  <2>5. /\ time[q] \in Nat /\ time'[q] \in Nat /\ tick_sys_time[q] \in Nat
        /\ time[call[q].cpu] \in Nat /\ time'[call[q].cpu] \in Nat
        /\ read[call[q].cpu] \in Nat /\ read'[call[q].cpu] \in Nat
    BY <2>1 DEF IInv, TypeOK
  <2> QED BY <2>1, <2>2, <2>3, <2>4, <2>5 DEF CallOK
<1> QED BY <1>1, <1>2, <1>3 DEF IInv

(* A CPU that is in a call is in one after sched_time_init, and the parts  *)
(* of its record have their types.                                         *)
LEMMA CallTyped ==
    ASSUME IInv, NEW p \in Cpu, call[p].pc # "idle"
    PROVE  /\ sched_time_running
           /\ call[p] \in Call /\ call[p].cpu \in Cpu
           /\ call[p].floor \in Nat /\ call[p].old_time \in Nat
           /\ call[p].val \in Nat /\ call[p].local_time \in Nat
           /\ call[p].remote_time \in Nat
           /\ ClockOK(p) /\ CallOK(p) /\ ClockOK(call[p].cpu)
           /\ time[p] \in Nat /\ time[call[p].cpu] \in Nat
           /\ \A q \in Cpu : /\ time[q] \in Nat /\ read[q] \in Nat
                             /\ read[q] <= time[q]
                             /\ time[q] <= uptime + tick_ns
  BY DEF IInv, TypeOK, NotRunning, Call, ClockOK

(* A step that only changes the local variables of a call. *)
LEMMA LocalStepInv ==
    ASSUME IInv, NEW p \in Cpu, NEW k \in Call, call[p].pc # "idle",
           call' = [call EXCEPT ![p] = k],
           UNCHANGED <<sched_time_running, uptime, tick_sys_time>>,
           time' = time, seen' = seen, read' = read,
           CallOK(p)'
    PROVE  IInv'
<1>1. sched_time_running
  BY CallTyped
<1>2. /\ time' \in [Cpu -> Nat] /\ seen' \in [Cpu -> Nat]
      /\ read' \in [Cpu -> Nat]
  BY DEF IInv, TypeOK
<1>3. \A q \in Cpu : /\ time[q] <= time'[q]
                     /\ time'[q] <= uptime + tick_ns
                     /\ read[q] <= read'[q]
                     /\ read'[q] <= time'[q]
                     /\ q # p => seen'[q] = seen[q]
  BY CallTyped
<1>4. seen'[p] <= time'[p]
  BY DEF IInv, ClockOK
<1> QED BY <1>1, <1>2, <1>3, <1>4, StepInv

(* The load of sched_time_local computes a time between its bounds. *)
LEMMA LocalLoadInv ==
    ASSUME IInv, NEW p \in Cpu, LocalLoad(p) PROVE IInv'
<1>1. call[p].pc = "local" /\ call[p].pc # "idle"
  BY DEF LocalLoad
<1>2. PICK delta \in Delta :
        call' = [call EXCEPT
                   ![p].pc = "local_cmpset",
                   ![p].old_time = time[p],
                   ![p].val = NewTime(tick_sys_time[p], time[p], delta)]
  BY DEF LocalLoad
<1> DEFINE v == NewTime(tick_sys_time[p], time[p], delta)
           k == [call[p] EXCEPT !.pc = "local_cmpset", !.old_time = time[p],
                                !.val = v]
<1>3. tick_sys_time[p] \in Nat /\ time[p] \in Nat /\ uptime \in Nat
  BY DEF IInv, TypeOK
<1>4. /\ v \in Nat /\ v >= tick_sys_time[p] /\ v >= time[p]
      /\ v <= tick_sys_time[p] + tick_ns \/ v <= time[p]
  BY <1>3, NewTimeClamped, SchedTimeAssumption
<1>5. v <= uptime + tick_ns
  BY <1>3, <1>4, SchedTimeAssumption DEF IInv, ClockOK
<1> HIDE DEF v
<1>6. /\ k \in Call /\ k.pc = "local_cmpset" /\ k.old_time = time[p]
      /\ k.val = v /\ k.cpu = call[p].cpu /\ k.floor = call[p].floor
  BY ZenonT(60), <1>1, <1>3, <1>4, CallTyped DEF Call, Pc
<1>7. call' = [call EXCEPT ![p] = k]
  BY <1>2 DEF v
<1> HIDE DEF k
<1>8. UNCHANGED <<sched_time_running, uptime, tick_sys_time, time, seen, read>>
  BY DEF LocalLoad
<1>9. CallOK(p)'
  BY <1>1, <1>4, <1>5, <1>6, <1>7, <1>8, CallTyped
  DEF IInv, TypeOK, CallOK, Remote
<1> QED
  BY <1>1, <1>6, <1>7, <1>8, <1>9, LocalStepInv

(* A cmpset that fails starts the loop again and changes nothing else. *)
LEMMA RetryInv ==
    ASSUME IInv, NEW p \in Cpu, LocalRetry(p) \/ RemoteRetry(p) PROVE IInv'
<1>1. call[p].pc \in {"local_cmpset", "cmpset"} /\ call[p].pc # "idle"
  BY DEF LocalRetry, RemoteRetry
<1>2. PICK pc \in {"local", "load_local"} :
        /\ call' = [call EXCEPT ![p] = Start(pc, call[p].cpu, call[p].floor)]
        /\ pc = "load_local" => call[p].pc = "cmpset"
  BY DEF LocalRetry, RemoteRetry
<1> DEFINE k == Start(pc, call[p].cpu, call[p].floor)
<1>3. k \in Call /\ k.pc = pc /\ k.cpu = call[p].cpu /\ k.floor = call[p].floor
  BY <1>1, <1>2, CallTyped, StartTyped DEF Pc
<1>4. call' = [call EXCEPT ![p] = k]
  BY <1>2
<1> HIDE DEF k
<1>5. UNCHANGED <<sched_time_running, uptime, tick_sys_time, time, seen, read>>
  BY DEF LocalRetry, RemoteRetry
<1>6. CallOK(p)'
  BY <1>1, <1>2, <1>3, <1>4, <1>5, CallTyped DEF IInv, TypeOK, CallOK, Remote
<1> QED
  BY <1>1, <1>3, <1>4, <1>5, <1>6, LocalStepInv

(* The loads of sched_time_remote. *)
LEMMA LoadsInv ==
    ASSUME IInv, NEW p \in Cpu, LoadLocal(p) \/ LoadRemote(p) PROVE IInv'
<1>1. call[p].pc \in {"load_local", "load_remote"} /\ call[p].pc # "idle"
  BY DEF LoadLocal, LoadRemote
<1> DEFINE k == IF call[p].pc = "load_local"
                THEN [call[p] EXCEPT !.pc = "load_remote",
                                     !.local_time = time[p]]
                ELSE [call[p] EXCEPT !.pc = "cmpset",
                                     !.remote_time = time[call[p].cpu]]
<1>2. call' = [call EXCEPT ![p] = k]
  BY DEF LoadLocal, LoadRemote
<1>3. /\ k \in Call /\ k.cpu = call[p].cpu /\ k.floor = call[p].floor
      /\ call[p].pc = "load_local" =>
            k.pc = "load_remote" /\ k.local_time = time[p]
      /\ call[p].pc = "load_remote" =>
            /\ k.pc = "cmpset" /\ k.remote_time = time[call[p].cpu]
            /\ k.local_time = call[p].local_time
  BY ZenonT(60), <1>1, CallTyped DEF Call, Pc
<1> HIDE DEF k
<1>4. UNCHANGED <<sched_time_running, uptime, tick_sys_time, time, seen, read>>
  BY DEF LoadLocal, LoadRemote
<1>5. CallOK(p)'
  BY <1>1, <1>2, <1>3, <1>4, CallTyped
  DEF IInv, TypeOK, CallOK, ClockOK, Remote
<1> QED
  BY <1>1, <1>2, <1>3, <1>4, <1>5, LocalStepInv

(* What RemoteCmpset and LocalCmpset return, and where. *)
LEMMA ReturnEffect ==
    ASSUME IInv, NEW p \in Cpu, NEW v \in Nat, call[p].pc # "idle", Return(p, v)
    PROVE  /\ Start("idle", p, 0) \in Call /\ Start("idle", p, 0).pc = "idle"
           /\ call' = [call EXCEPT ![p] = Start("idle", p, 0)]
           /\ call'[p].pc = "idle"
           /\ seen' \in [Cpu -> Nat] /\ seen'[p] = v
           /\ \A q \in Cpu : q # p => seen'[q] = seen[q]
           /\ read' \in [Cpu -> Nat]
           /\ \A q \in Cpu : /\ read[q] <= read'[q]
                             /\ \/ read'[q] = read[q]
                                \/ q = call[p].cpu /\ read'[q] = v
<1>1. call[p].cpu \in Cpu
  BY CallTyped
<1>2. Start("idle", p, 0) \in Call /\ Start("idle", p, 0).pc = "idle"
  BY StartTyped DEF Pc
<1>3. call' = [call EXCEPT ![p] = Start("idle", p, 0)] /\ call'[p].pc = "idle"
  BY <1>2 DEF Return, IInv, TypeOK
<1>4. /\ seen' \in [Cpu -> Nat] /\ seen'[p] = v
      /\ \A q \in Cpu : q # p => seen'[q] = seen[q]
  BY DEF Return, IInv, TypeOK
<1>5. read' = [read EXCEPT ![call[p].cpu] =
                  IF v - read[call[p].cpu] > 0 THEN v ELSE read[call[p].cpu]]
  BY DEF Return, wrap_max_64
<1>6. read \in [Cpu -> Nat]
  BY DEF IInv, TypeOK
<1>7. read' \in [Cpu -> Nat]
  BY <1>1, <1>5, <1>6
<1>8. \A q \in Cpu : /\ read[q] <= read'[q]
                     /\ \/ read'[q] = read[q]
                        \/ q = call[p].cpu /\ read'[q] = v
  BY <1>1, <1>5, <1>6
<1> QED BY <1>2, <1>3, <1>4, <1>7, <1>8

(* A successful cmpset of sched_time_local. *)
LEMMA LocalCmpsetInv ==
    ASSUME IInv, NEW p \in Cpu, LocalCmpset(p)
    PROVE  /\ IInv'
           /\ \A q \in Cpu : time'[q] >= time[q]
           /\ \A q \in Cpu : seen'[q] >= seen[q]
           /\ call'[p].pc = "idle" => seen'[p] >= call[p].floor
           /\ \A q \in Cpu : q # p => call'[q] = call[q]
<1> DEFINE v == call[p].val
<1>1. call[p].pc = "local_cmpset" /\ call[p].pc # "idle"
  BY DEF LocalCmpset
<1>2. /\ v \in Nat /\ time[p] \in Nat /\ call[p].floor \in Nat
      /\ time[p] <= v /\ tick_sys_time[p] <= v /\ v <= uptime + tick_ns
      /\ seen[p] <= time[p] /\ call[p].floor <= read[call[p].cpu]
      /\ uptime \in Nat /\ seen \in [Cpu -> Nat] /\ call[p].cpu \in Cpu
  BY <1>1, CallTyped DEF LocalCmpset, CallOK, ClockOK, IInv, TypeOK
<1>3. /\ time' = [time EXCEPT ![p] = v]
      /\ UNCHANGED <<sched_time_running, uptime, tick_sys_time>>
  BY DEF LocalCmpset
<1>4. /\ time' \in [Cpu -> Nat] /\ time'[p] = v
      /\ \A q \in Cpu : time[q] <= time'[q] /\ time'[q] <= uptime + tick_ns
  BY <1>1, <1>2, <1>3, CallTyped DEF IInv, TypeOK
<1>5. CASE call[p].cpu = p
  <2>1. Return(p, v)
    BY <1>5 DEF LocalCmpset
  <2>2. \A q \in Cpu : read'[q] <= time'[q]
    BY <2>1, <1>1, <1>2, <1>4, <1>5, CallTyped, ReturnEffect
  <2>3. CallOK(p)'
    BY <2>1, <1>1, <1>2, <1>3, <1>4, ReturnEffect DEF CallOK, Remote
  <2>4. seen'[p] <= time'[p] /\ seen[p] <= seen'[p]
    BY <2>1, <1>1, <1>2, <1>4, ReturnEffect
  <2>5. IInv'
    BY SMTT(60), <2>1, <2>2, <2>3, <2>4, <1>1, <1>2, <1>3, <1>4, CallTyped,
       ReturnEffect,
       StepInv
  <2>6. \A q \in Cpu : seen'[q] >= seen[q]
    BY <2>1, <2>4, <1>1, <1>2, ReturnEffect
  <2>7. seen'[p] >= call[p].floor
    BY <2>1, <1>1, <1>2, <1>5, CallTyped, ReturnEffect
  <2>8. \A q \in Cpu : q # p => call'[q] = call[q]
    BY <2>1, <1>1, <1>2, ReturnEffect DEF IInv, TypeOK
  <2> QED BY <2>5, <2>6, <2>7, <2>8, <1>4
<1>6. CASE call[p].cpu # p
  <2> DEFINE k == Start("load_local", call[p].cpu, call[p].floor)
  <2>1. /\ k \in Call /\ k.pc = "load_local" /\ k.cpu = call[p].cpu
        /\ k.floor = call[p].floor
    BY <1>2, StartTyped DEF Pc
  <2>2. call' = [call EXCEPT ![p] = k] /\ seen' = seen /\ read' = read
    BY <1>6 DEF LocalCmpset
  <2> HIDE DEF k
  <2>3. call'[p] = k /\ \A q \in Cpu : q # p => call'[q] = call[q]
    BY <2>2 DEF IInv, TypeOK
  <2>4. CallOK(p)'
    BY <2>1, <2>2, <2>3, <1>2, <1>3, <1>4, <1>6 DEF CallOK, Remote
  <2>5. \A q \in Cpu : read[q] <= read'[q] /\ read'[q] <= time'[q]
    BY <2>2, <1>1, <1>4, CallTyped
  <2>6. /\ seen' \in [Cpu -> Nat] /\ read' \in [Cpu -> Nat]
        /\ seen'[p] <= time'[p]
        /\ \A q \in Cpu : seen'[q] = seen[q] /\ seen'[q] >= seen[q]
    BY <2>2, <1>2, <1>4 DEF IInv, TypeOK
  <2>7. IInv'
    BY <2>1, <2>2, <2>4, <2>5, <2>6, <1>1, <1>3, <1>4, CallTyped, StepInv
  <2> QED BY <2>1, <2>3, <2>6, <2>7, <1>4
<1> QED BY <1>5, <1>6

(* A successful cmpset of sched_time_remote. *)
LEMMA RemoteCmpsetInv ==
    ASSUME IInv, NEW p \in Cpu, RemoteCmpset(p)
    PROVE  /\ IInv'
           /\ \A q \in Cpu : time'[q] >= time[q]
           /\ \A q \in Cpu : seen'[q] >= seen[q]
           /\ call'[p].pc = "idle" => seen'[p] >= call[p].floor
           /\ \A q \in Cpu : q # p => call'[q] = call[q]
<1> DEFINE b == Behind(p)
           v == NewVal(p)
           c == call[p].cpu
<1>1. call[p].pc = "cmpset" /\ call[p].pc # "idle"
  BY DEF RemoteCmpset
<1>2. /\ c \in Cpu /\ c # p
      /\ call[p].local_time \in Nat /\ call[p].remote_time \in Nat
      /\ call[p].floor \in Nat /\ uptime \in Nat /\ seen \in [Cpu -> Nat]
      /\ time[p] \in Nat /\ time[c] \in Nat
      /\ seen[p] <= call[p].local_time /\ call[p].local_time <= time[p]
      /\ call[p].floor <= call[p].remote_time
      /\ call[p].remote_time <= time[c]
      /\ tick_sys_time[p] <= time[p] /\ tick_sys_time[p] \in Nat
      /\ time[p] <= uptime + tick_ns /\ time[c] <= uptime + tick_ns
  BY <1>1, CallTyped DEF CallOK, Remote, IInv, TypeOK
<1>3. /\ v \in Nat /\ v >= call[p].local_time /\ v >= call[p].remote_time
      /\ b \in Cpu
      /\ \/ b = p /\ v = call[p].remote_time /\ OldVal(p) = call[p].local_time
         \/ b = c /\ v = call[p].local_time /\ OldVal(p) = call[p].remote_time
  BY <1>2 DEF Behind, OldVal, NewVal
<1>4. /\ time[b] = OldVal(p) /\ time' = [time EXCEPT ![b] = v] /\ Return(p, v)
      /\ UNCHANGED <<sched_time_running, uptime, tick_sys_time>>
  BY DEF RemoteCmpset
<1>5. time[b] <= v /\ v <= uptime + tick_ns /\ time[b] \in Nat
  BY <1>2, <1>3, <1>4, SchedTimeAssumption
<1> HIDE DEF b, v
<1>6. /\ time' \in [Cpu -> Nat]
      /\ \A q \in Cpu : time[q] <= time'[q] /\ time'[q] <= uptime + tick_ns
  BY <1>1, <1>3, <1>4, <1>5, CallTyped DEF IInv, TypeOK
<1>7. time'[p] \in Nat /\ time'[c] \in Nat /\ v <= time'[p] /\ v <= time'[c]
  BY <1>2, <1>3, <1>4, <1>5, <1>6 DEF IInv, TypeOK
<1>8. \A q \in Cpu : read'[q] <= time'[q]
  <2> SUFFICES ASSUME NEW q \in Cpu PROVE read'[q] <= time'[q]
    OBVIOUS
  <2>1. read'[q] = read[q] \/ (q = c /\ read'[q] = v)
    BY <1>1, <1>3, <1>4, ReturnEffect
  <2>2. /\ read[q] <= time[q] /\ time[q] <= time'[q]
        /\ read[q] \in Nat /\ time[q] \in Nat /\ time'[q] \in Nat
    BY <1>1, <1>6, CallTyped
  <2> QED BY <2>1, <2>2, <1>7
<1>9. CallOK(p)'
  BY <1>1, <1>2, <1>3, <1>4, <1>6, <1>7, ReturnEffect DEF CallOK, Remote
<1>10. seen'[p] <= time'[p] /\ seen[p] <= seen'[p] /\ seen'[p] >= call[p].floor
  BY <1>1, <1>2, <1>3, <1>4, <1>7, ReturnEffect
<1>11. IInv'
  BY <1>1, <1>3, <1>4, <1>6, <1>8, <1>9, <1>10, CallTyped, ReturnEffect, StepInv
<1>12. \A q \in Cpu : seen'[q] >= seen[q]
  BY <1>1, <1>2, <1>3, <1>4, <1>10, ReturnEffect
<1>13. \A q \in Cpu : q # p => call'[q] = call[q]
  BY <1>1, <1>3, <1>4, ReturnEffect DEF IInv, TypeOK
<1> QED BY <1>6, <1>10, <1>11, <1>12, <1>13

(* Every step keeps the invariant, sets no time back, shows no CPU a       *)
(* smaller value than before, and returns no less than the floor of the    *)
(* call.                                                                   *)
LEMMA NextInv ==
    ASSUME IInv, [Next]_vars
    PROVE  /\ IInv'
           /\ \A p \in Cpu : time'[p] >= time[p]
           /\ \A p \in Cpu : seen'[p] >= seen[p]
           /\ \A p \in Cpu : call[p].pc # "idle" /\ call'[p].pc = "idle" =>
                               seen'[p] >= call[p].floor
<1> DEFINE Quiet == /\ \A p \in Cpu : time'[p] >= time[p]
                    /\ seen' = seen
                    /\ \A p \in Cpu : call'[p].pc = "idle" =>
                                        call[p].pc = "idle"
<1>1. time \in [Cpu -> Nat] /\ seen \in [Cpu -> Nat] /\ call \in [Cpu -> Call]
  BY DEF IInv, TypeOK
<1>2. ASSUME IInv', Quiet
      PROVE  /\ IInv'
             /\ \A p \in Cpu : time'[p] >= time[p]
             /\ \A p \in Cpu : seen'[p] >= seen[p]
             /\ \A p \in Cpu : call[p].pc # "idle" /\ call'[p].pc = "idle" =>
                                 seen'[p] >= call[p].floor
  BY <1>1, <1>2
<1>3. CASE UNCHANGED vars
  <2>1. IInv'
    BY <1>3 DEF vars, IInv, TypeOK, NotRunning, ClockOK, CallOK
  <2> QED BY <1>1, <1>2, <1>3, <2>1 DEF vars
<1>4. CASE SchedTimeInit
  <2>1. Quiet
    BY <1>1, <1>4 DEF SchedTimeInit, IInv, NotRunning, TypeOK
  <2> QED BY <1>2, <1>4, <2>1, SchedTimeInitInv
<1>5. CASE Uptime
  <2>1. Quiet
    BY <1>1, <1>5 DEF Uptime
  <2> QED BY <1>2, <1>5, <2>1, UptimeInv
<1>6. ASSUME NEW p \in Cpu, NEW cpu \in Cpu,
             SchedTimeCpu(p, cpu) \/ (cpu = p /\ SchedTimeTick(p))
      PROVE  IInv' /\ Quiet
  <2>1. /\ call' = [call EXCEPT ![p] = Start("local", cpu, read[cpu])]
        /\ time' = time /\ seen' = seen
    BY <1>6 DEF SchedTimeCpu, SchedTimeTick
  <2>2. Start("local", cpu, read[cpu]).pc = "local"
    BY DEF Start
  <2>3. Quiet
    BY <1>1, <2>1, <2>2
  <2> QED BY <1>6, <2>3, BeginInv
<1>7. ASSUME NEW p \in Cpu, LocalLoad(p) PROVE IInv' /\ Quiet
  <2>1. call'[p].pc = "local_cmpset" /\ \A q \in Cpu : q # p => call'[q] = call[q]
    BY <1>1, <1>7 DEF LocalLoad, Call
  <2>2. Quiet
    BY <1>1, <1>7, <2>1 DEF LocalLoad
  <2> QED BY <1>7, <2>2, LocalLoadInv
<1>8. ASSUME NEW p \in Cpu, LocalRetry(p) \/ RemoteRetry(p) PROVE IInv' /\ Quiet
  <2>1. call'[p].pc # "idle" /\ \A q \in Cpu : q # p => call'[q] = call[q]
    BY <1>1, <1>8 DEF LocalRetry, RemoteRetry, Start
  <2>2. Quiet
    BY <1>1, <1>8, <2>1 DEF LocalRetry, RemoteRetry
  <2> QED BY <1>8, <2>2, RetryInv
<1>9. ASSUME NEW p \in Cpu, LoadLocal(p) \/ LoadRemote(p) PROVE IInv' /\ Quiet
  <2>1. call'[p].pc # "idle" /\ \A q \in Cpu : q # p => call'[q] = call[q]
    BY <1>1, <1>9 DEF LoadLocal, LoadRemote, Call
  <2>2. Quiet
    BY <1>1, <1>9, <2>1 DEF LoadLocal, LoadRemote
  <2> QED BY <1>9, <2>2, LoadsInv
<1>10. ASSUME NEW p \in Cpu, LocalCmpset(p) \/ RemoteCmpset(p)
       PROVE  /\ IInv'
              /\ \A q \in Cpu : time'[q] >= time[q]
              /\ \A q \in Cpu : seen'[q] >= seen[q]
              /\ \A q \in Cpu : call[q].pc # "idle" /\ call'[q].pc = "idle" =>
                                  seen'[q] >= call[q].floor
  BY <1>10, LocalCmpsetInv, RemoteCmpsetInv
<1> HIDE DEF Quiet
<1> QED
  BY <1>2, <1>3, <1>4, <1>5, <1>6, <1>7, <1>8, <1>9, <1>10 DEF Next, Step

-----------------------------------------------------------------------------

(* The invariant of the clock. *)
THEOREM ClockInvariant == Spec => []IInv
<1>1. IInv /\ [Next]_vars => IInv'
  BY NextInv
<1> QED BY <1>1, InitInv, PTL DEF Spec

(* sched_time_local and sched_time_remote keep every time within a tick of *)
(* the system up-time, for any number of CPUs and any cycle counter.       *)
THEOREM ClockWithinATick == Spec => []WithinATick
<1>1. IInv => WithinATick
  BY ZenonT(60) DEF IInv, ClockOK, CallOK, WithinATick
<1> QED BY <1>1, ClockInvariant, PTL

(* No cmpset of sched_time.c sets a time back. *)
THEOREM ClockMonotonic == Spec => TimeNeverGoesBack
<1>1. IInv /\ [Next]_vars => [\A p \in Cpu : time'[p] >= time[p]]_vars
  BY NextInv
<1> QED BY <1>1, ClockInvariant, PTL DEF Spec, TimeNeverGoesBack

(* Successive results of sched_time_cpu on one CPU never decrease, of      *)
(* whichever CPUs they are the time.                                       *)
THEOREM CpuMonotonic == Spec => CpuSeesTimeAdvance
<1>1. IInv /\ [Next]_vars => [\A p \in Cpu : seen'[p] >= seen[p]]_vars
  BY NextInv
<1> QED BY <1>1, ClockInvariant, PTL DEF Spec, CpuSeesTimeAdvance

(* sched_time_cpu(c) returns no less than any sched_time_cpu(c) of any CPU *)
(* that returned before it was called.                                     *)
THEOREM ClockOrdersReadings == Spec => ReadingsOrdered
<1>1. IInv /\ [Next]_vars =>
        [\A p \in Cpu : call[p].pc # "idle" /\ call'[p].pc = "idle" =>
                          seen'[p] >= call[p].floor]_vars
  BY NextInv
<1> QED BY <1>1, ClockInvariant, PTL DEF Spec, ReadingsOrdered
=============================================================================
