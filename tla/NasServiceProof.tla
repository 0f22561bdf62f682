--------------------------- MODULE NasServiceProof ---------------------------
(***************************************************************************)
(* Proofs about the wake-on-LAN service for every role, knob and status    *)
(* set, and windows of any length and spacing: the monitor of WolOnBoot    *)
(* with any probes first, then NasService, the monitor with its client.    *)
(***************************************************************************)
EXTENDS NasService, UpsMachineLemmas, FiniteSetTheorems

-----------------------------------------------------------------------------
(* The monitor. *)

LEMMA LifetimeType == Lifetime \in Nat \ {0} /\ GapSteps \in Nat \ {0}
<1>1. \A r, g \in Nat \ {0} : r * g \in Nat \ {0}
  OBVIOUS
<1> QED
  BY <1>1, WindowAssumption DEF Lifetime

(* The remainder goes up by one or starts again. *)
LEMMA Remainder ==
    ASSUME NEW a \in Nat, NEW g \in Nat \ {0}
    PROVE  a % g \in 0 .. g - 1 /\ (a + 1) % g \in {0, (a % g) + 1}
<1> DEFINE q  == a \div g
           r  == a % g
           q2 == (a + 1) \div g
           r2 == (a + 1) % g
<1>1. r \in 0 .. g - 1 /\ r2 \in 0 .. g - 1 /\ q \in Int /\ q2 \in Int
  OBVIOUS
<1>2. a = q * g + r /\ a + 1 = q2 * g + r2
  OBVIOUS
<1>3. r2 \in {0, r + 1}
  <2> HIDE DEF q, r, q2, r2
  <2>1. q * g + r + 1 = q2 * g + r2
    BY <1>1, <1>2
  <2> QED
    BY <1>1, <2>1
<1> QED
  BY <1>1, <1>3

(* What a step of the monitor loop decides. *)
LEMMA MonitorDecides ==
    ASSUME m \in Machine, NEW p \in Probe, Monitor(p)
    PROVE  /\ m' \in Machine
           /\ \/ windows' = Aged /\ ~(IsMains(p) /\ ~m.poweredDown /\ m.wasOB)
              \/ windows' = Aged \cup {0} /\ IsMains(p) /\ ~m.poweredDown /\ m.wasOB /\ ~m'.wasOB
           /\ ~m'.poweredDown => ~m.poweredDown
           /\ ~m'.poweredDown /\ p.ok => (m'.wasOB <=> "OB" \in p.status)
           /\ ~m'.poweredDown /\ ~p.ok => (m'.wasOB <=> m.wasOB)
<1>1. PICK now \in IF p.ok THEN {0} ELSE {0, SilentSecs} :
          /\ m' = OnProbe(m, p, now).m
          /\ windows' = Aged \cup (IF OnProbe(m, p, now).event = "backonmains" THEN {0} ELSE {})
  BY DEF Monitor, Opens
<1>2. p \in AnyProbe /\ now \in Int
  BY <1>1, ProbeIsAny, PositiveKnobs
<1> DEFINE d == OnProbe(m, p, now)
<1>3. CASE m.poweredDown
  <2>1. d.m = m /\ d.event = "none"
    BY <1>2, <1>3, DeadArm
  <2> QED
    BY <1>1, <1>3, <2>1
<1>4. CASE ~m.poweredDown /\ IsLB(p)
  <2>1. d.m \in Machine /\ (d.m.wasOB <=> m.wasOB) /\ d.m.poweredDown /\ d.event = "shutdown"
    BY <1>2, <1>4, LowBatteryArm
  <2> QED
    BY <1>1, <1>2, <1>4, <2>1, ProbeCases
<1>5. CASE ~m.poweredDown /\ IsOB(p)
  <2>1. d.m \in Machine /\ d.m.wasOB /\ d.event \in {"none", "onbattery"}
    BY <1>2, <1>5, OnBatteryArm
  <2> QED
    BY <1>1, <1>2, <1>5, <2>1, ProbeCases DEF IsOB
<1>6. CASE ~m.poweredDown /\ IsMains(p)
  <2>1. d.m \in Machine /\ ~d.m.wasOB /\ d.event = IF m.wasOB THEN "backonmains" ELSE "none"
    BY <1>2, <1>6, OnMainsArm
  <2> QED
    BY <1>1, <1>2, <1>6, <2>1, ProbeCases DEF IsMains
<1>7. CASE ~m.poweredDown /\ ~p.ok /\ SilentTooLong(m, now)
  <2>1. d.m \in Machine /\ (d.m.wasOB <=> m.wasOB) /\ d.m.poweredDown /\ d.event = "watchdog"
    BY <1>2, <1>7, WatchdogArm
  <2> QED
    BY <1>1, <1>2, <1>7, <2>1, ProbeCases
<1>8. CASE ~m.poweredDown /\ ~p.ok /\ ~SilentTooLong(m, now)
  <2>1. d.m = m /\ d.event = "none"
    BY <1>2, <1>8, QuietArm
  <2> QED
    BY <1>1, <1>2, <1>8, <2>1, ProbeCases
<1> QED
  BY <1>2, <1>3, <1>4, <1>5, <1>6, <1>7, <1>8, ProbeCases

-----------------------------------------------------------------------------
(* Type correctness. *)

LEMMA InitType == Init => TypeOK
<1>1. 0 \in 0 .. Lifetime /\ 0 \in 0 .. GapSteps
  BY LifetimeType
<1> QED
  BY <1>1, NewMachineType DEF Init, TypeOK

LEMMA StepType == TypeOK /\ [Next]_vars => TypeOK'
<1> SUFFICES ASSUME TypeOK, [Next]_vars PROVE TypeOK'
  OBVIOUS
<1> USE LifetimeType
<1>1. ASSUME NEW p \in Probe, Monitor(p) PROVE TypeOK'
  <2>1. m' \in Machine /\ (windows' = Aged \/ windows' = Aged \cup {0})
    BY <1>1, MonitorDecides DEF TypeOK
  <2>2. windows' \subseteq 0 .. Lifetime - 1
    BY <2>1 DEF Aged, TypeOK
  <2>3. outage' \in BOOLEAN
    <3>1. outage' = IF p.ok THEN "OB" \in p.status ELSE outage
      BY <1>1 DEF Monitor
    <3>2. ("OB" \in p.status) \in BOOLEAN
      OBVIOUS
    <3> QED
      BY <3>1, <3>2 DEF TypeOK
  <2>4. owed' \in 0 .. Lifetime
    BY <1>1 DEF Monitor, TypeOK
  <2>5. quiet' \in 0 .. GapSteps
    BY <1>1 DEF Monitor, TypeOK
  <2> QED
    BY <2>1, <2>2, <2>3, <2>4, <2>5 DEF TypeOK
<1>2. CASE Restart
  <2>1. 0 \in 0 .. Lifetime /\ 0 \in 0 .. GapSteps
    OBVIOUS
  <2> QED
    BY <1>2, <2>1, NewMachineType DEF Restart, BootBurst, TypeOK
<1>3. CASE UNCHANGED vars
  BY <1>3 DEF vars, TypeOK
<1> QED
  BY <1>1, <1>2, <1>3 DEF Next

(***************************************************************************)
(* TypeOK: windows close at the end of their Lifetime.                     *)
(***************************************************************************)
THEOREM TypeCorrect == Spec => []TypeOK
  BY InitType, StepType, PTL DEF Spec

-----------------------------------------------------------------------------
(* Windows never open at two steps in a row: the machine asks for an        *)
(* on-battery reply between two returns.                                    *)

Spaced ==
    /\ TypeOK
    /\ \A a \in windows : a + 1 \notin windows
    /\ 0 \in windows => ~m.wasOB

LEMMA StepSpaced == Spaced /\ [Next]_vars => Spaced'
<1> SUFFICES ASSUME Spaced, [Next]_vars PROVE Spaced'
  OBVIOUS
<1> TypeOK /\ TypeOK'
  BY StepType DEF Spaced
<1>1. ASSUME NEW p \in Probe, Monitor(p) PROVE Spaced'
  <2>1. windows \subseteq Nat /\ 0 \notin Aged
    BY LifetimeType DEF TypeOK, Aged
  <2>2. \A a \in Aged : a \in Nat /\ a - 1 \in windows
    <3> SUFFICES ASSUME NEW a \in Aged PROVE a \in Nat /\ a - 1 \in windows
      OBVIOUS
    <3>1. PICK x \in windows : a = x + 1
      BY DEF Aged
    <3>2. x \in Nat
      BY <2>1
    <3>3. a \in Nat /\ a - 1 = x
      BY <3>1, <3>2, SMT
    <3> QED
      BY <3>3
  <2>3. \A a \in Aged : a + 1 \notin Aged
    <3> SUFFICES ASSUME NEW a \in Aged, a + 1 \in Aged PROVE FALSE
      OBVIOUS
    <3>1. a \in Nat /\ a - 1 \in windows /\ (a + 1) - 1 \in windows
      BY <2>2
    <3>2. (a + 1) - 1 = (a - 1) + 1
      BY <3>1
    <3> QED
      BY <3>1, <3>2 DEF Spaced
  <2>4. CASE windows' = Aged
    BY <2>1, <2>3, <2>4 DEF Spaced
  <2>5. CASE windows' = Aged \cup {0} /\ m.wasOB /\ ~m'.wasOB
    <3>1. 0 \notin windows
      BY <2>5 DEF Spaced
    <3>2. 1 \notin Aged
      BY <2>2, <3>1
    <3>3. \A a \in windows' : a + 1 \notin windows'
      BY <2>2, <2>3, <2>5, <3>2
    <3> QED
      BY <2>5, <3>3 DEF Spaced
  <2> QED
    BY <1>1, <2>4, <2>5, MonitorDecides DEF TypeOK
<1>2. CASE Restart
  BY <1>2 DEF Restart, Spaced
<1>3. CASE UNCHANGED vars
  BY <1>3 DEF vars, Spaced
<1> QED
  BY <1>1, <1>2, <1>3 DEF Next

(* The windows and their successors are disjoint, and lie in 0 .. Lifetime. *)
LEMMA SpacedBounded == Spaced => WindowsBounded
<1> SUFFICES ASSUME Spaced PROVE WindowsBounded
  OBVIOUS
<1> DEFINE next == {a + 1 : a \in windows}
           f == [a \in windows |-> a + 1]
<1>1. windows \subseteq 0 .. Lifetime /\ next \subseteq 0 .. Lifetime
  BY LifetimeType DEF Spaced, TypeOK
<1>2. windows \cap next = {}
  BY DEF Spaced
<1>3. IsFiniteSet(0 .. Lifetime) /\ Cardinality(0 .. Lifetime) = Lifetime + 1
  BY LifetimeType, FS_Interval
<1>4. IsFiniteSet(windows) /\ IsFiniteSet(next)
  BY <1>1, <1>3, FS_Subset
<1>5. Cardinality(next) = Cardinality(windows)
  <2>1. f \in Bijection(windows, next)
    <3>1. f \in [windows -> next]
      OBVIOUS
    <3>2. \A a, b \in windows : f[a] = f[b] => a = b
      <4>1. windows \subseteq Nat
        BY <1>1
      <4>2. \A a, b \in Nat : a + 1 = b + 1 => a = b
        OBVIOUS
      <4> QED
        BY <4>1, <4>2
    <3>3. \A c \in next : \E a \in windows : f[a] = c
      OBVIOUS
    <3> QED
      BY <3>1, <3>2, <3>3 DEF Bijection, Injection, Surjection, IsInjective
  <2> QED
    BY <1>4, <2>1, FS_Bijection DEF ExistsBijection
<1>6. Cardinality(windows \cup next) = Cardinality(windows) + Cardinality(next)
  <2>1. Cardinality(windows \cup next) =
            Cardinality(windows) + Cardinality(next) - Cardinality(windows \cap next)
    BY <1>4, FS_Union
  <2>2. Cardinality(windows \cap next) = 0
    BY <1>2, FS_EmptySet
  <2>3. Cardinality(windows) \in Nat /\ Cardinality(next) \in Nat
    BY <1>4, FS_CardinalityType
  <2> QED
    BY <2>1, <2>2, <2>3
<1>7. Cardinality(windows \cup next) <= Lifetime + 1
  <2>1. windows \cup next \in SUBSET (0 .. Lifetime)
    BY <1>1
  <2> QED
    BY <1>3, <2>1, FS_Subset
<1>8. Cardinality(windows) \in Nat /\ 2 * Cardinality(windows) <= Lifetime + 1
  <2>1. Cardinality(windows) \in Nat
    BY <1>4, FS_CardinalityType
  <2> QED
    BY <1>5, <1>6, <1>7, <2>1, LifetimeType
<1>9. \A n \in Nat : 2 * n <= Lifetime + 1 => n <= (Lifetime + 1) \div 2
  BY LifetimeType
<1> QED
  BY <1>8, <1>9 DEF WindowsBounded

(***************************************************************************)
(* WindowsBounded: a UPS that flickers for ever keeps at most half a       *)
(* Lifetime of goroutines at work, whatever the length of a window.        *)
(***************************************************************************)
THEOREM WindowsAlwaysBounded == Spec => []WindowsBounded
<1>1. Init => Spaced
  BY InitType DEF Init, Spaced
<1> QED
  BY <1>1, StepSpaced, SpacedBounded, PTL DEF Spec

-----------------------------------------------------------------------------
(* The window that the latest return opened is still there, and the steps   *)
(* since the last burst do not exceed those since that window's own.        *)

Attended ==
    /\ TypeOK
    /\ outage /\ ~m.poweredDown => m.wasOB
    /\ owed > 0 => /\ Lifetime - owed \in windows
                   /\ quiet <= (Lifetime - owed) % GapSteps

LEMMA StepAttended == Attended /\ [Next]_vars => Attended'
<1> SUFFICES ASSUME Attended, [Next]_vars PROVE Attended'
  OBVIOUS
<1> TypeOK /\ TypeOK'
  BY StepType DEF Attended
<1>1. ASSUME NEW p \in Probe, Monitor(p) PROVE Attended'
  <2>1. outage' = IF p.ok THEN "OB" \in p.status ELSE outage
    BY <1>1 DEF Monitor
  <2>2. outage' /\ ~m'.poweredDown => m'.wasOB
    <3>1. ~m'.poweredDown => ~m.poweredDown
      BY <1>1, MonitorDecides DEF TypeOK
    <3>2. CASE p.ok
      BY <1>1, <2>1, <3>2, MonitorDecides DEF TypeOK
    <3>3. CASE ~p.ok
      BY <1>1, <2>1, <3>1, <3>3, MonitorDecides DEF TypeOK, Attended
    <3> QED
      BY <3>2, <3>3
  <2>3. quiet' = IF Bursting(windows') THEN 0 ELSE IF quiet < GapSteps THEN quiet + 1 ELSE quiet
    BY <1>1 DEF Monitor
  <2>4. owed' = IF Returns(p) /\ ~m.poweredDown THEN Lifetime ELSE IF owed > 0 THEN owed - 1 ELSE 0
    BY <1>1 DEF Monitor
  <2>5. Aged \subseteq windows'
    BY <1>1, MonitorDecides DEF TypeOK
  <2>6. CASE Returns(p) /\ ~m.poweredDown
    <3>1. m.wasOB /\ IsMains(p)
      BY <2>6 DEF Returns, Attended
    <3>2. 0 \in windows'
      BY <1>1, <2>6, <3>1, MonitorDecides DEF TypeOK
    <3>3. 0 % GapSteps = 0
      BY LifetimeType
    <3>4. quiet' = 0
      BY <2>3, <3>2, <3>3 DEF Bursting
    <3>5. Lifetime - owed' = 0
      BY <2>4, <2>6, LifetimeType
    <3> QED
      BY <2>2, <3>2, <3>3, <3>4, <3>5 DEF Attended
  <2>7. CASE ~(Returns(p) /\ ~m.poweredDown) /\ owed' > 0
    <3> DEFINE a == Lifetime - owed
    <3>1. owed > 0 /\ owed' = owed - 1
      BY <2>4, <2>7 DEF TypeOK
    <3>2. a \in Nat /\ a + 1 < Lifetime /\ Lifetime - owed' = a + 1
      BY <2>7, <3>1, LifetimeType DEF TypeOK
    <3>3. a \in windows /\ quiet <= a % GapSteps
      BY <3>1 DEF Attended
    <3>4. a + 1 \in windows'
      BY <2>5, <3>2, <3>3 DEF Aged
    <3>5. a % GapSteps \in 0 .. GapSteps - 1 /\ (a + 1) % GapSteps \in {0, (a % GapSteps) + 1}
      BY <3>2, LifetimeType, Remainder
    <3>6. quiet' <= (a + 1) % GapSteps
      <4>1. CASE Bursting(windows')
        BY <2>3, <3>5, <4>1, LifetimeType
      <4>2. CASE ~Bursting(windows')
        <5>1. (a + 1) % GapSteps # 0
          BY <3>4, <4>2 DEF Bursting
        <5>2. (a + 1) % GapSteps = (a % GapSteps) + 1
          BY <3>5, <5>1
        <5>3. quiet' <= quiet + 1
          BY <2>3, <4>2 DEF TypeOK
        <5> HIDE DEF a
        <5> QED
          BY <3>3, <3>5, <5>2, <5>3, LifetimeType DEF TypeOK
      <4> QED
        BY <4>1, <4>2
    <3> QED
      BY <2>2, <3>2, <3>4, <3>6 DEF Attended
  <2>8. CASE ~(owed' > 0)
    BY <2>2, <2>8 DEF Attended
  <2> QED
    BY <2>6, <2>7, <2>8
<1>2. CASE Restart
  BY <1>2 DEF Restart, Attended
<1>3. CASE UNCHANGED vars
  BY <1>3 DEF vars, Attended
<1> QED
  BY <1>1, <1>2, <1>3 DEF Next

(***************************************************************************)
(* RegularBursts: after a return of mains the machine may report, bursts   *)
(* are never more than GapSteps steps apart until the window is over.      *)
(***************************************************************************)
THEOREM BurstsAlwaysRegular == Spec => []RegularBursts
<1>1. Init => Attended
  BY InitType DEF Init, Attended
<1>2. Attended => RegularBursts
  <2> SUFFICES ASSUME Attended, owed > 0 PROVE quiet < GapSteps
    BY DEF RegularBursts
  <2>1. Lifetime - owed \in Nat
    BY LifetimeType DEF Attended, TypeOK
  <2>2. (Lifetime - owed) % GapSteps \in 0 .. GapSteps - 1
    BY <2>1, LifetimeType, Remainder
  <2>3. quiet <= (Lifetime - owed) % GapSteps /\ quiet \in Nat
    BY LifetimeType DEF Attended, TypeOK
  <2> DEFINE r == (Lifetime - owed) % GapSteps
  <2> HIDE DEF r
  <2>4. quiet <= r /\ r \in 0 .. GapSteps - 1
    BY <2>2, <2>3 DEF r
  <2> QED
    BY <2>3, <2>4, LifetimeType
<1> QED
  BY <1>1, <1>2, StepAttended, PTL DEF Spec

-----------------------------------------------------------------------------
(* The monitor with the NUT client. *)

nasVars == <<vars, nutVars>>

-----------------------------------------------------------------------------
(* Sequences. *)

LEMMA HeadTail ==
    ASSUME NEW S, NEW q \in Seq(S), q # <<>>
    PROVE  Head(q) \in S /\ Tail(q) \in Seq(S)
OBVIOUS

LEMMA Appended ==
    ASSUME NEW S, NEW q \in Seq(S), NEW x \in S
    PROVE  Append(q, x) \in Seq(S)
OBVIOUS

LEMMA Widened ==
    ASSUME NEW S, NEW T, S \subseteq T, NEW q \in Seq(S)
    PROVE  q \in Seq(T)
OBVIOUS

-----------------------------------------------------------------------------
(***************************************************************************)
(* The inductive invariant of the client.  Everything in the connection is *)
(* of the probe under way: no VAR line carries a status from before it,    *)
(* and between probes there is nothing left that could be answered late.   *)
(***************************************************************************)
Ticks == 0 .. DialTimeout + DefaultTimeout

Scalars ==
    /\ ups \in Statuses
    /\ step \in Nut!Steps
    /\ left \in Ticks
    /\ result \in Nut!Results
    /\ elapsed \in Nat
    /\ seen \subseteq Statuses

Commands == Nut!Login \cup {"GET"}

Others == [kind : {"ERR", "other"}, status : {{}}]
AnswersOf(S) == {Nut!Var(s) : s \in S} \cup Others

Queues ==
    /\ asked \in Seq(Commands)
    /\ answers \in Seq(AnswersOf(seen))

Awaiting == step \notin {"idle", "done"}

Current ==
    /\ Awaiting => ups \in seen
    /\ ~Awaiting => asked = <<>> /\ answers = <<>>
    /\ step = "done" /\ result.ok => result.status \in seen

ClientInv == Scalars /\ Queues /\ Current

LEMMA TicksType == 0 \in Ticks /\ DialTimeout \in Ticks /\ DefaultTimeout \in Ticks
<1>1. DialTimeout \in Nat /\ DefaultTimeout \in Nat BY TimeoutAssumption
<1> QED BY <1>1 DEF Ticks

LEMMA InvTypes == ClientInv => Nut!TypeOK
<1> SUFFICES ASSUME ClientInv PROVE Nut!TypeOK
  OBVIOUS
<1>1. Scalars /\ Queues BY DEF ClientInv
<1>2. AnswersOf(seen) \subseteq Nut!Answer
  BY <1>1 DEF Scalars, AnswersOf, Others, Nut!Answer
<1>3. answers \in Seq(Nut!Answer) BY <1>1, <1>2, Widened DEF Queues
<1> QED BY <1>1, <1>3 DEF Scalars, Queues, Commands, Ticks, Nut!TypeOK

LEMMA ClientInit == NasInit => ClientInv
<1> SUFFICES ASSUME NasInit PROVE ClientInv
  OBVIOUS
<1>1. Nut!Init BY DEF NasInit
<1>2. Scalars
  BY <1>1, TimeoutAssumption DEF Nut!Init, Scalars, Ticks, Nut!Steps, Nut!Results
<1>3. asked = <<>> /\ answers = <<>> /\ step = "idle" BY <1>1 DEF Nut!Init
<1>4. Queues BY <1>3 DEF Queues
<1> QED BY <1>2, <1>3, <1>4 DEF ClientInv, Current, Awaiting

LEMMA TimeoutType == \A cmd : Nut!Timeout(cmd) \in Ticks
BY TicksType DEF Nut!Timeout

(* A command is sent, by Connected or by Acknowledged. *)
LEMMA SendKeeps ==
    ASSUME ClientInv, Awaiting, NEW cmd \in Commands,
           Nut!Await(cmd, Nut!Timeout(cmd)), asked' = Append(asked, cmd),
           answers' \in Seq(AnswersOf(seen)), UNCHANGED <<ups, elapsed, seen, result>>
    PROVE  ClientInv'
<1>1. step' = cmd /\ left' \in Ticks BY TimeoutType DEF Nut!Await
<1>2. cmd \in Nut!Steps /\ cmd \notin {"idle", "done"} BY DEF Commands, Nut!Steps, Nut!Login
<1>3. Scalars' BY <1>1, <1>2 DEF ClientInv, Scalars
<1>4. Append(asked, cmd) \in Seq(Commands) BY Appended DEF ClientInv, Queues
<1>5. Queues' BY <1>4 DEF Queues, AnswersOf, Others
<1>6. Current' BY <1>1, <1>2 DEF ClientInv, Current, Awaiting
<1> QED BY <1>3, <1>5, <1>6 DEF ClientInv

LEMMA ReturnKeeps ==
    ASSUME ClientInv, NEW r \in Nut!Results, r.ok => r.status \in seen,
           Nut!Return(r), UNCHANGED <<ups, elapsed, seen>>
    PROVE  ClientInv'
<1>1. step' = "done" /\ left' = 0 /\ result' = r /\ asked' = <<>> /\ answers' = <<>>
  BY DEF Nut!Return, Nut!Await
<1>2. Scalars'
  BY <1>1, TicksType DEF ClientInv, Scalars, Nut!Steps
<1>3. Queues' BY <1>1 DEF Queues
<1>4. Current' BY <1>1 DEF Current, Awaiting
<1> QED BY <1>2, <1>3, <1>4 DEF ClientInv

LEMMA ClientKeeps ==
    ASSUME ClientInv, Nut!Client PROVE ClientInv'
<1>0. Scalars /\ Queues /\ Current BY DEF ClientInv
<1>1. CASE Nut!Dial
  <2>1. /\ step' = "dial" /\ left' = DialTimeout /\ elapsed' = 0 /\ seen' = {ups}
        /\ UNCHANGED <<ups, asked, answers, result>> /\ asked = <<>> /\ answers = <<>>
    BY <1>0, <1>1 DEF Nut!Dial, Nut!Await, Current, Awaiting
  <2>2. Scalars' BY <1>0, <2>1, TicksType DEF Scalars, Nut!Steps
  <2>3. Queues' BY <2>1 DEF Queues
  <2>4. Current' BY <2>1 DEF Current, Awaiting
  <2> QED BY <2>2, <2>3, <2>4 DEF ClientInv
<1>2. CASE Nut!Connected
  <2>1. PICK cmd \in Commands : Nut!Send(cmd)
    BY <1>2 DEF Nut!Connected, Commands, Nut!Login
  <2> QED BY <1>0, <1>2, <2>1, SendKeeps DEF Nut!Connected, Nut!Send, Awaiting, Queues
<1>3. CASE Nut!Acknowledged
  <2>1. step \in Nut!Login /\ answers # <<>> /\ UNCHANGED <<ups, elapsed, seen>>
    BY <1>3 DEF Nut!Acknowledged
  <2>2. CASE Head(answers).kind = "ERR"
    BY <1>3, <2>1, <2>2, ReturnKeeps DEF Nut!Acknowledged, Nut!Results, Nut!Failed
  <2>3. CASE Head(answers).kind # "ERR"
    <3>1. Nut!After(step) \in Commands BY DEF Nut!After, Commands, Nut!Login
    <3>2. Tail(answers) \in Seq(AnswersOf(seen)) BY <1>0, <2>1, HeadTail DEF Queues
    <3>3. Awaiting BY <2>1 DEF Awaiting, Nut!Login
    <3> QED BY <1>3, <2>1, <2>3, <3>1, <3>2, <3>3, SendKeeps DEF Nut!Acknowledged
  <2> QED BY <2>2, <2>3
<1>4. CASE Nut!Answered
  <2> DEFINE line == Head(answers)
             r == IF line.kind = "VAR" THEN [ok |-> TRUE, status |-> line.status] ELSE Nut!Failed
  <2>1. line \in AnswersOf(seen) BY <1>0, <1>4, HeadTail DEF Queues, Nut!Answered
  <2>2. line.kind = "VAR" => line.status \in seen
    BY <2>1 DEF AnswersOf, Others, Nut!Var
  <2>3. r \in Nut!Results /\ (r.ok => r.status \in seen)
    BY <1>0, <2>2 DEF Scalars, Nut!Results, Nut!Failed
  <2>4. Nut!Return(r) /\ UNCHANGED <<ups, elapsed, seen>> BY <1>4 DEF Nut!Answered
  <2> HIDE DEF r
  <2> QED BY <2>3, <2>4, ReturnKeeps
<1>5. CASE Nut!Breaks
  BY <1>5, ReturnKeeps DEF Nut!Breaks, Nut!Results, Nut!Failed
<1> QED BY <1>1, <1>2, <1>3, <1>4, <1>5 DEF Nut!Client

LEMMA EnvironmentKeeps ==
    ASSUME ClientInv, Nut!Environment PROVE ClientInv'
<1>0. Scalars /\ Queues /\ Current BY DEF ClientInv
<1>1. CASE Nut!Serve
  <2>1. asked # <<>> /\ UNCHANGED <<ups, step, left, result, elapsed, seen>>
    BY <1>1 DEF Nut!Serve
  <2>2. Awaiting /\ ups \in seen BY <1>0, <2>1 DEF Current
  <2>3. PICK a \in {Nut!Var(ups)} \cup Others : answers' = Append(answers, a)
    BY <1>1 DEF Nut!Serve, Others
  <2>4. a \in AnswersOf(seen) BY <2>2 DEF AnswersOf
  <2>5. answers' \in Seq(AnswersOf(seen)) BY <1>0, <2>3, <2>4, Appended DEF Queues
  <2>6. asked' \in Seq(Commands) BY <1>0, <1>1, <2>1, HeadTail DEF Nut!Serve, Queues
  <2>7. Queues' BY <2>1, <2>5, <2>6 DEF Queues, AnswersOf, Others
  <2>8. Scalars' BY <1>0, <2>1 DEF Scalars
  <2>9. Current' BY <1>0, <2>1, <2>2 DEF Current, Awaiting
  <2> QED BY <2>7, <2>8, <2>9 DEF ClientInv
<1>2. CASE Nut!Trickle
  <2>1. UNCHANGED nutVars BY <1>2 DEF Nut!Trickle, Nut!DeadlineKept, nutVars
  <2> QED BY <1>0, <2>1
       DEF ClientInv, Scalars, Queues, Current, Awaiting, nutVars, AnswersOf, Others
<1>3. CASE Nut!UpsChanges
  <2>1. /\ UNCHANGED <<step, asked, answers, left, result, elapsed>>
        /\ ups' \in Statuses
        /\ seen' = IF Awaiting THEN seen \cup {ups'} ELSE seen
    BY <1>3 DEF Nut!UpsChanges, Nut!Waiting, Awaiting
  <2>2. Scalars' BY <1>0, <2>1 DEF Scalars
  <2>3. AnswersOf(seen) \subseteq AnswersOf(seen') BY <2>1 DEF AnswersOf
  <2>4. answers \in Seq(AnswersOf(seen')) BY <1>0, <2>3, Widened DEF Queues
  <2>5. Queues' BY <1>0, <2>1, <2>4 DEF Queues, AnswersOf, Others
  <2>6. Current' BY <1>0, <2>1 DEF Current, Awaiting
  <2> QED BY <2>2, <2>5, <2>6 DEF ClientInv
<1>4. CASE Nut!Tick
  <2>1. /\ UNCHANGED <<ups, step, asked, answers, result, seen>>
        /\ left > 0 /\ left' = left - 1 /\ elapsed' = elapsed + 1
    BY <1>4 DEF Nut!Tick
  <2>2. Scalars' BY <1>0, <2>1, TimeoutAssumption DEF Scalars, Ticks
  <2>3. Queues' BY <1>0, <2>1 DEF Queues, AnswersOf, Others
  <2>4. Current' BY <1>0, <2>1 DEF Current, Awaiting
  <2> QED BY <2>2, <2>3, <2>4 DEF ClientInv
<1> QED BY <1>1, <1>2, <1>3, <1>4 DEF Nut!Environment

LEMMA ClientStep == ClientInv /\ [NasNext]_nasVars => ClientInv'
<1> SUFFICES ASSUME ClientInv, [NasNext]_nasVars PROVE ClientInv'
  OBVIOUS
<1>0. Scalars /\ Queues /\ Current BY DEF ClientInv
<1>1. CASE Round
  <2>1. /\ step = "done" /\ step' = "idle"
        /\ UNCHANGED <<ups, asked, answers, left, result, elapsed, seen>>
    BY <1>1 DEF Round, Nut!Delivered
  <2>2. Scalars' BY <1>0, <2>1 DEF Scalars, Nut!Steps
  <2>3. Queues' BY <1>0, <2>1 DEF Queues, AnswersOf, Others
  <2>4. Current' BY <1>0, <2>1 DEF Current, Awaiting
  <2> QED BY <2>2, <2>3, <2>4 DEF ClientInv
<1>2. CASE Probing BY <1>2, ClientKeeps, EnvironmentKeeps DEF Probing
<1>3. CASE NasRestart
  <2>1. /\ step' = "idle" /\ asked' = <<>> /\ answers' = <<>> /\ left' = 0
        /\ result' = Nut!Failed /\ elapsed' = 0 /\ seen' = {} /\ ups' = ups
    BY <1>3 DEF NasRestart
  <2>2. Scalars'
    BY <1>0, <2>1, TicksType DEF Scalars, Nut!Steps, Nut!Results, Nut!Failed
  <2>3. Queues' BY <2>1 DEF Queues
  <2>4. Current' BY <2>1 DEF Current, Awaiting
  <2> QED BY <2>2, <2>3, <2>4 DEF ClientInv
<1>4. CASE UNCHANGED nasVars
  BY <1>0, <1>4
  DEF ClientInv, Scalars, Queues, Current, Awaiting, nasVars, nutVars, AnswersOf, Others
<1> QED BY <1>1, <1>2, <1>3, <1>4 DEF NasNext

LEMMA ClientHolds == NasSpec => []ClientInv
<1> QED BY ClientInit, ClientStep, PTL DEF NasSpec, nasVars

-----------------------------------------------------------------------------
(* The service implements a monitor that samples the UPS. *)

LEMMA RoundSamples == ClientInv /\ NasNext => Sample \/ Restart \/ UNCHANGED vars
<1> SUFFICES ASSUME ClientInv, NasNext PROVE Sample \/ Restart \/ UNCHANGED vars
  OBVIOUS
<1>1. CASE Round
  <2>1. step = "done" /\ Monitor(result) BY <1>1 DEF Round, Nut!Delivered
  <2>2. result \in Nut!Results /\ (result.ok => result.status \in seen)
    BY <2>1 DEF ClientInv, Scalars, Current
  <2>3. result \in {Silence} \cup {Reply(s) : s \in seen}
    BY <2>2 DEF Nut!Results, Nut!Failed, Silence, Reply
  <2> QED BY <2>1, <2>3 DEF Sample
<1>2. CASE Probing BY <1>2 DEF Probing
<1>3. CASE NasRestart BY <1>3 DEF NasRestart
<1> QED BY <1>1, <1>2, <1>3 DEF NasNext

(***************************************************************************)
(* With its connections, logins, deadlines and late answers, the service   *)
(* implements the monitor that hears nothing or samples the UPS within the *)
(* round, for every set of statuses and every timeout.                     *)
(***************************************************************************)
THEOREM ServiceSamples == NasSpec => MonitorSamples
<1>1. NasInit => Init BY DEF NasInit
<1>2. ClientInv /\ [NasNext]_nasVars => [Sample \/ Restart]_vars
  BY RoundSamples DEF nasVars
<1> QED BY <1>1, <1>2, ClientHolds, PTL DEF NasSpec, nasVars, MonitorSamples

(***************************************************************************)
(* So it is the monitor of WolOnBoot, and has its properties.              *)
(***************************************************************************)
LEMMA ServiceMonitors == NasSpec => Spec
<1>1. NasInit => Init BY DEF NasInit
<1>2. ClientInv /\ Sample => Next
  <2> SUFFICES ASSUME ClientInv, NEW p \in {Silence} \cup {Reply(s) : s \in seen}, Monitor(p)
               PROVE  Next
    BY DEF Sample
  <2>1. p \in Probe BY DEF ClientInv, Scalars, Probe
  <2> QED BY <2>1 DEF Next
<1>3. ClientInv /\ [NasNext]_nasVars => [Next]_vars
  BY <1>2, RoundSamples DEF nasVars, Next
<1> QED BY <1>1, <1>3, ClientHolds, PTL DEF NasSpec, nasVars, Spec

(***************************************************************************)
(* Every variable of the monitor and of the client keeps its type.         *)
(***************************************************************************)
THEOREM ServiceTypeCorrect == NasSpec => []NasTypeOK
<1>1. TypeOK /\ ClientInv => NasTypeOK BY InvTypes DEF NasTypeOK
<1> QED BY <1>1, ServiceMonitors, TypeCorrect, ClientHolds, PTL

(***************************************************************************)
(* The bursts keep their pace and the windows their bound with probes of   *)
(* the real client.                                                        *)
(***************************************************************************)
THEOREM ServiceBurstsRegular == NasSpec => []RegularBursts
BY ServiceMonitors, BurstsAlwaysRegular, PTL

THEOREM ServiceWindowsBounded == NasSpec => []WindowsBounded
BY ServiceMonitors, WindowsAlwaysBounded, PTL

-----------------------------------------------------------------------------
(* The length of a probe: what the exchanges up to a step may take.        *)

(* What connecting and the login may take. *)
Logins == IF Credentials THEN 4 * DialTimeout ELSE DialTimeout

Pace ==
    /\ step = "dial" => elapsed + left <= DialTimeout
    /\ step = "USERNAME" => Credentials /\ elapsed + left <= 2 * DialTimeout
    /\ step = "PASSWORD" => Credentials /\ elapsed + left <= 3 * DialTimeout
    /\ step = "LOGIN" => Credentials /\ elapsed + left <= 4 * DialTimeout
    /\ elapsed + left <= Logins + DefaultTimeout

LEMMA Spent ==
  ASSUME NEW a \in Nat, NEW b \in Nat, NEW c \in Nat, a + b <= c
  PROVE  a <= c
OBVIOUS

LEMMA LoginsType == Logins \in Nat /\ DialTimeout <= Logins
BY TimeoutAssumption DEF Logins

LEMMA LoginsLong == Credentials => Logins = 4 * DialTimeout
BY DEF Logins

LEMMA PaceInit == NasInit => Pace
BY TimeoutAssumption, LoginsType DEF NasInit, Nut!Init, Pace

LEMMA PaceStep == ClientInv /\ Pace /\ [NasNext]_nasVars => Pace'
<1> SUFFICES ASSUME ClientInv, Pace, [NasNext]_nasVars PROVE Pace'
  OBVIOUS
<1>0. DialTimeout \in Nat /\ DefaultTimeout \in Nat /\ elapsed \in Nat /\ left \in Nat
  BY TimeoutAssumption DEF ClientInv, Scalars, Ticks
<1>1. ASSUME NEW r, Nut!Return(r), UNCHANGED elapsed PROVE Pace'
  BY <1>0, <1>1, LoginsType DEF Nut!Return, Nut!Await, Pace
<1>2. CASE Probing
  <2>1. CASE Nut!Dial
    BY <1>0, <2>1, LoginsType DEF Nut!Dial, Nut!Await, Pace
  <2>2. CASE Nut!Connected
    <3>1. step = "dial" /\ elapsed' = elapsed /\ elapsed + left <= DialTimeout
      BY <2>2 DEF Nut!Connected, Pace
    <3>0. elapsed <= DialTimeout BY <1>0, <3>1, Spent
    <3>2. CASE Credentials
      <4>1. step' = "USERNAME" /\ left' = DialTimeout
        BY <2>2, <3>2 DEF Nut!Connected, Nut!Send, Nut!Await, Nut!Timeout
      <4>2. elapsed' + left' <= 2 * DialTimeout /\ elapsed' + left' <= Logins + DefaultTimeout
        BY <1>0, <3>0, <3>1, <3>2, <4>1, LoginsLong
      <4> QED BY <3>2, <4>1, <4>2 DEF Pace
    <3>3. CASE ~Credentials
      <4>1. step' = "GET" /\ left' = DefaultTimeout
        BY <2>2, <3>3 DEF Nut!Connected, Nut!Send, Nut!Await, Nut!Timeout
      <4>2. elapsed' + left' <= Logins + DefaultTimeout
        BY <1>0, <3>0, <3>1, <4>1, LoginsType
      <4> QED BY <4>1, <4>2 DEF Pace
    <3> QED BY <3>2, <3>3
  <2>3. CASE Nut!Acknowledged
    <3>1. CASE Head(answers).kind = "ERR" BY <1>1, <2>3, <3>1 DEF Nut!Acknowledged
    <3>2. CASE Head(answers).kind # "ERR"
      <4>1. /\ step \in {"USERNAME", "PASSWORD", "LOGIN"} /\ elapsed' = elapsed
            /\ step' = Nut!After(step) /\ left' = Nut!Timeout(Nut!After(step))
        BY <2>3, <3>2 DEF Nut!Acknowledged, Nut!Await, Nut!Login
      <4>2. CASE step = "USERNAME"
        BY <1>0, <4>1, <4>2, LoginsLong DEF Nut!After, Nut!Timeout, Pace
      <4>3. CASE step = "PASSWORD"
        BY <1>0, <4>1, <4>3, LoginsLong DEF Nut!After, Nut!Timeout, Pace
      <4>4. CASE step = "LOGIN"
        <5>1. step' = "GET" /\ left' = DefaultTimeout
          BY <4>1, <4>4 DEF Nut!After, Nut!Timeout
        <5>2. Credentials /\ elapsed + left <= 4 * DialTimeout BY <4>4 DEF Pace
        <5>3. elapsed' + left' <= Logins + DefaultTimeout
          BY <1>0, <4>1, <5>1, <5>2, LoginsLong
        <5> QED BY <5>1, <5>3 DEF Pace
      <4> QED BY <4>1, <4>2, <4>3, <4>4
    <3> QED BY <3>1, <3>2
  <2>4. CASE Nut!Answered \/ Nut!Breaks
    BY <1>1, <2>4 DEF Nut!Answered, Nut!Breaks
  <2>5. CASE Nut!Serve \/ Nut!Trickle \/ Nut!UpsChanges
    BY <2>5 DEF Nut!Serve, Nut!Trickle, Nut!DeadlineKept, Nut!UpsChanges, Pace
  <2>6. CASE Nut!Tick BY <1>0, <2>6 DEF Nut!Tick, Pace
  <2> QED BY <1>2, <2>1, <2>2, <2>3, <2>4, <2>5, <2>6
       DEF Probing, Nut!Client, Nut!Environment
<1>3. CASE Round BY <1>3 DEF Round, Nut!Delivered, Pace
<1>4. CASE NasRestart BY <1>0, LoginsType, <1>4 DEF NasRestart, Pace
<1>5. CASE UNCHANGED nasVars BY <1>5 DEF nasVars, nutVars, Pace
<1> QED BY <1>2, <1>3, <1>4, <1>5 DEF NasNext

(***************************************************************************)
(* A probe is over after the deadlines of its exchanges, however slowly    *)
(* the server trickles, for every pair of timeouts.                        *)
(***************************************************************************)
THEOREM ProbesAlwaysBounded == NasSpec => []ProbeBounded
<1>1. ClientInv /\ Pace => ProbeBounded
  <2> SUFFICES ASSUME ClientInv, Pace PROVE elapsed <= Logins + DefaultTimeout
    BY DEF ProbeBounded, Nut!ProbeBounded, Logins
  <2>1. elapsed \in Nat /\ left \in Nat /\ Logins + DefaultTimeout \in Nat
    BY TimeoutAssumption, LoginsType DEF ClientInv, Scalars, Ticks
  <2> QED BY <2>1, Spent DEF Pace
<1>2. NasSpec => []Pace
  BY PaceInit, PaceStep, ClientHolds, PTL DEF NasSpec, nasVars
<1> QED BY <1>1, <1>2, ClientHolds, PTL
=============================================================================
