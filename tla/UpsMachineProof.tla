--------------------------- MODULE UpsMachineProof ---------------------------
(***************************************************************************)
(* Proofs about UpsMachineSpec for every role, configuration, status set,  *)
(* spacing of the probes and number of probes.                             *)
(***************************************************************************)
EXTENDS UpsMachineSpec, UpsMachineLemmas, FiniteSetTheorems

(* What the log gains by one probe. *)
EntryOf(p, t, d) == [probe |-> p, at |-> t, action |-> d.action, event |-> d.event]

LEMMA Appended ==
    ASSUME NEW l \in Seq(Entry), NEW e \in Entry
    PROVE  /\ Append(l, e) \in Seq(Entry)
           /\ Len(Append(l, e)) = Len(l) + 1
           /\ DOMAIN Append(l, e) = 1 .. Len(l) + 1
           /\ \A k \in 1 .. Len(l) : Append(l, e)[k] = l[k] /\ l[k] \in Entry
           /\ Append(l, e)[Len(l) + 1] = e
           /\ Len(l) \in Nat
  OBVIOUS

LEMMA StepLog ==
    ASSUME TypeOK, NEW p \in Probe, NEW gap \in Gaps, Feed(p, gap)
    PROVE  /\ now' \in Nat
           /\ m' = OnProbe(m, p, now').m
           /\ m' \in Machine
           /\ EntryOf(p, now', OnProbe(m, p, now')) \in Entry
           /\ log' = Append(log, EntryOf(p, now', OnProbe(m, p, now')))
<1>1. now' \in Nat
  BY GapAssumption DEF Feed, TypeOK
<1>2. p \in AnyProbe
  BY ProbeIsAny
<1>3. /\ OnProbe(m, p, now').m \in Machine
      /\ OnProbe(m, p, now').action \in Action
      /\ OnProbe(m, p, now').event \in Event
  BY <1>1, <1>2, OnProbeEffect DEF TypeOK
<1> QED
  BY <1>1, <1>3 DEF Feed, EntryOf, Entry

LEMMA InitType == Init => TypeOK
  BY NewMachineType DEF Init, TypeOK

LEMMA StepType == TypeOK /\ [Next]_vars => TypeOK'
<1> SUFFICES ASSUME TypeOK, [Next]_vars PROVE TypeOK'
  OBVIOUS
<1>1. ASSUME NEW p \in Probe, NEW gap \in Gaps, Feed(p, gap)
      PROVE  TypeOK'
  BY <1>1, StepLog, Appended DEF TypeOK
<1>2. CASE Restart
  BY <1>2, NewMachineType DEF Restart, TypeOK
<1>3. CASE UNCHANGED vars
  BY <1>3 DEF vars, TypeOK
<1> QED
  BY <1>1, <1>2, <1>3 DEF Next

(***************************************************************************)
(* The machine and the log keep their types.                               *)
(***************************************************************************)
THEOREM TypeCorrect == Spec => []TypeOK
  BY InitType, StepType, PTL DEF Spec

-----------------------------------------------------------------------------
(* What the machine remembers of the log: the inductive invariant. *)

RemembersShutdown == m.poweredDown <=> ShutBefore(log, Len(log) + 1)

LastReplyAt(l, t) ==
    \/ t = -1 /\ \A k \in 1 .. Len(l) : ~l[k].probe.ok
    \/ \E j \in 1 .. Len(l) : /\ l[j].probe.ok
                              /\ \A k \in j + 1 .. Len(l) : ~l[k].probe.ok
                              /\ t = l[j].at

RemembersReply == LastReplyAt(log, m.lastSeen)

RemembersDrain ==
    /\ m.drained <=> OpenDrain(log, Len(log) + 1)
    /\ m.drained => m.wasOB /\ Role = "peer"

Remembers ==
    /\ TypeOK
    /\ RemembersShutdown
    /\ ~m.poweredDown => RemembersReply /\ RemembersDrain

(* The readings of a log at i are about its entries up to i. *)
LEMMA Readings ==
    ASSUME NEW l \in Seq(Entry), NEW e \in Entry
    PROVE  /\ \A i \in 1 .. Len(l) + 1 : ShutBefore(Append(l, e), i) <=> ShutBefore(l, i)
           /\ \A i \in 1 .. Len(l) + 1 : OpenDrain(Append(l, e), i) <=> OpenDrain(l, i)
           /\ \A i \in 1 .. Len(l) : \A j \in 1 .. i :
                 SilentSince(Append(l, e), j, i) <=> SilentSince(l, j, i)
<1> DEFINE n  == Len(l)
           ll == Append(l, e)
<1>1. n \in Nat /\ \A k \in 1 .. n : ll[k] = l[k]
  BY Appended
<1> HIDE DEF n, ll
<1>2. ASSUME NEW i \in 1 .. n + 1
      PROVE  ShutBefore(ll, i) <=> ShutBefore(l, i)
  BY <1>1 DEF ShutBefore
<1>3. ASSUME NEW i \in 1 .. n + 1
      PROVE  OpenDrain(ll, i) <=> OpenDrain(l, i)
  <2>1. ASSUME NEW j \in 1 .. i - 1
        PROVE  MainsBetween(ll, j, i - 1) <=> MainsBetween(l, j, i - 1)
    BY <1>1 DEF MainsBetween
  <2> QED
    BY <1>1, <2>1 DEF OpenDrain
<1>4. ASSUME NEW i \in 1 .. n, NEW j \in 1 .. i
      PROVE  SilentSince(ll, j, i) <=> SilentSince(l, j, i)
  BY <1>1 DEF SilentSince
<1> QED
  BY <1>2, <1>3, <1>4 DEF n, ll

(* The readings at the new entry. *)
LEMMA NewReadings ==
    ASSUME NEW l \in Seq(Entry), NEW e \in Entry
    PROVE  /\ ShutBefore(Append(l, e), Len(l) + 2) <=>
                 ShutBefore(l, Len(l) + 1) \/ e.action = "shutdown"
           /\ OpenDrain(Append(l, e), Len(l) + 2) <=>
                 ~IsMains(e.probe) /\ (OpenDrain(l, Len(l) + 1) \/ e.action = "drain")
<1> DEFINE n  == Len(l)
           ll == Append(l, e)
<1>1. n \in Nat /\ (\A k \in 1 .. n : ll[k] = l[k]) /\ ll[n + 1] = e
  BY Appended
<1> HIDE DEF n, ll
<1>2. ShutBefore(ll, n + 2) <=> ShutBefore(l, n + 1) \/ e.action = "shutdown"
  BY <1>1 DEF ShutBefore
<1>3. ASSUME NEW j \in 1 .. n + 1
      PROVE  MainsBetween(ll, j, n + 1) <=>
                 IsMains(e.probe) \/ (j <= n /\ MainsBetween(l, j, n))
  BY <1>1 DEF MainsBetween
<1>4. OpenDrain(ll, n + 2) <=>
          ~IsMains(e.probe) /\ (OpenDrain(l, n + 1) \/ e.action = "drain")
  BY <1>1, <1>3 DEF OpenDrain
<1> QED
  BY <1>2, <1>4 DEF n, ll

LEMMA InitRemembers == Init => Remembers
  BY InitType DEF Init, Remembers, RemembersShutdown, RemembersReply, RemembersDrain, LastReplyAt,
                  NewMachine, ShutBefore, OpenDrain

(* RemembersReply after one more entry. *)
LEMMA NewReply ==
    ASSUME NEW l \in Seq(Entry), NEW e \in Entry, NEW last \in Int, NEW next \in Int,
           LastReplyAt(l, last),
           \/ e.probe.ok /\ next = e.at
           \/ ~e.probe.ok /\ next = last
    PROVE  LastReplyAt(Append(l, e), next)
<1> DEFINE n  == Len(l)
           ll == Append(l, e)
<1>1. /\ n \in Nat /\ Len(ll) = n + 1
      /\ \A k \in 1 .. n : ll[k] = l[k]
      /\ ll[n + 1] = e
  BY Appended
<1>2. /\ \/ last = -1 /\ \A k \in 1 .. n : ~l[k].probe.ok
         \/ \E j \in 1 .. n : /\ l[j].probe.ok
                              /\ \A k \in j + 1 .. n : ~l[k].probe.ok
                              /\ last = l[j].at
  BY DEF LastReplyAt
<1> HIDE DEF n, ll
<1>3. SUFFICES \/ next = -1 /\ \A k \in 1 .. n + 1 : ~ll[k].probe.ok
               \/ \E j \in 1 .. n + 1 : /\ ll[j].probe.ok
                                        /\ \A k \in j + 1 .. n + 1 : ~ll[k].probe.ok
                                        /\ next = ll[j].at
  BY <1>1 DEF LastReplyAt, ll
<1>4. CASE e.probe.ok
  <2>1. /\ n + 1 \in 1 .. n + 1
        /\ ll[n + 1].probe.ok
        /\ next = ll[n + 1].at
    BY <1>1, <1>4
  <2>2. \A k \in (n + 1) + 1 .. n + 1 : ~ll[k].probe.ok
    BY <1>1
  <2> QED
    BY <2>1, <2>2
<1>5. CASE ~e.probe.ok /\ last = -1 /\ \A k \in 1 .. n : ~l[k].probe.ok
  BY <1>1, <1>5
<1>6. ASSUME NEW j \in 1 .. n, l[j].probe.ok, \A k \in j + 1 .. n : ~l[k].probe.ok,
             last = l[j].at, ~e.probe.ok
      PROVE  /\ ll[j].probe.ok
             /\ \A k \in j + 1 .. n + 1 : ~ll[k].probe.ok
             /\ next = ll[j].at
             /\ j \in 1 .. n + 1
  BY <1>1, <1>6
<1> QED
  BY <1>2, <1>4, <1>5, <1>6

LEMMA FeedRemembers ==
    ASSUME Remembers, NEW p \in Probe, NEW gap \in Gaps, Feed(p, gap)
    PROVE  Remembers'
<1> DEFINE e == EntryOf(p, now', OnProbe(m, p, now'))
<1>1. /\ p \in AnyProbe /\ now' \in Nat /\ e \in Entry /\ log \in Seq(Entry)
      /\ m \in Machine /\ m' \in Machine /\ m' = OnProbe(m, p, now').m
      /\ log' = Append(log, e)
      /\ e.probe = p /\ e.at = now' /\ e.action = OnProbe(m, p, now').action
  BY StepLog, ProbeIsAny DEF Remembers, TypeOK, EntryOf
<1>2. /\ Len(log') = Len(log) + 1 /\ Len(log) \in Nat
      /\ ShutBefore(log', Len(log) + 2) <=> ShutBefore(log, Len(log) + 1) \/ e.action = "shutdown"
      /\ OpenDrain(log', Len(log) + 2) <=>
            ~IsMains(p) /\ (OpenDrain(log, Len(log) + 1) \/ e.action = "drain")
  BY <1>1, Appended, NewReadings
<1> HIDE DEF e
<1>3. TypeOK'
  BY StepType DEF Remembers, Next
<1>4. SUFFICES /\ m'.poweredDown <=> m.poweredDown \/ e.action = "shutdown"
               /\ ~m'.poweredDown =>
                     /\ \/ p.ok /\ m'.lastSeen = now'
                        \/ ~p.ok /\ m'.lastSeen = m.lastSeen
                     /\ m'.drained <=> ~IsMains(p) /\ (m.drained \/ e.action = "drain")
                     /\ m'.drained => m'.wasOB /\ Role = "peer"
  <2>1. RemembersShutdown'
    BY <1>2, <1>4 DEF RemembersShutdown, Remembers
  <2>2. ASSUME ~m'.poweredDown
        PROVE  RemembersReply'
    <3>1. RemembersReply /\ (\/ e.probe.ok /\ m'.lastSeen = e.at
                             \/ ~e.probe.ok /\ m'.lastSeen = m.lastSeen)
      BY <1>1, <1>4, <2>2 DEF Remembers
    <3>2. m.lastSeen \in Int /\ m'.lastSeen \in Int
      BY <1>1 DEF Machine
    <3> QED
      BY <1>1, <3>1, <3>2, NewReply DEF RemembersReply
  <2>3. ASSUME ~m'.poweredDown
        PROVE  RemembersDrain'
    BY <1>2, <1>4, <2>3 DEF RemembersDrain, Remembers
  <2> QED
    BY <1>3, <2>1, <2>2, <2>3 DEF Remembers
<1>5. CASE m.poweredDown
  BY <1>1, <1>5, DeadArm
<1>6. CASE ~m.poweredDown /\ IsLB(p)
  BY <1>1, <1>6, LowBatteryArm
<1>7. CASE ~m.poweredDown /\ IsOB(p)
  BY <1>1, <1>7, ProbeCases, OnBatteryArm DEF OpensDrain, Remembers, RemembersDrain
<1>8. CASE ~m.poweredDown /\ IsMains(p)
  BY <1>1, <1>8, ProbeCases, OnMainsArm DEF ClosesDrain, Remembers, RemembersDrain
<1>9. CASE ~m.poweredDown /\ ~p.ok /\ SilentTooLong(m, now')
  BY <1>1, <1>9, WatchdogArm
<1>10. CASE ~m.poweredDown /\ ~p.ok /\ ~SilentTooLong(m, now')
  BY <1>1, <1>10, ProbeCases, QuietArm DEF Remembers, RemembersDrain
<1> QED
  BY <1>1, <1>5, <1>6, <1>7, <1>8, <1>9, <1>10, ProbeCases

LEMMA StepRemembers == Remembers /\ [Next]_vars => Remembers'
<1> SUFFICES ASSUME Remembers, [Next]_vars PROVE Remembers'
  OBVIOUS
<1>1. CASE Restart
  <2>1. TypeOK'
    BY <1>1, StepType DEF Remembers, Next
  <2> QED
    BY <1>1, <2>1 DEF Restart, Remembers, RemembersShutdown, RemembersReply, RemembersDrain,
                      LastReplyAt, NewMachine, ShutBefore, OpenDrain
<1>2. CASE UNCHANGED vars
  BY <1>2 DEF vars, Remembers, TypeOK, RemembersShutdown, RemembersReply, RemembersDrain
<1> QED
  BY <1>1, <1>2, FeedRemembers DEF Next

-----------------------------------------------------------------------------
(* The properties speak of each entry and of what precedes it, so a probe   *)
(* can only break them at the entry it adds.                                *)

(* The watchdog's reading of lastSeen is the log's. *)
LEMMA SilenceRead ==
    ASSUME NEW l \in Seq(Entry), NEW e \in Entry, NEW mm \in Machine,
           LastReplyAt(l, mm.lastSeen)
    PROVE  (\E j \in 1 .. Len(l) + 1 : SilentSince(Append(l, e), j, Len(l) + 1))
               <=> ~e.probe.ok /\ SilentTooLong(mm, e.at)
<1> DEFINE n  == Len(l)
           ll == Append(l, e)
<1>1. /\ n \in Nat
      /\ \A k \in 1 .. n : ll[k] = l[k] /\ l[k].at \in Nat
      /\ ll[n + 1] = e /\ e.at \in Nat
  BY Appended DEF Entry
<1>2. mm.lastSeen \in Int /\ SilentSecs \in Nat \ {0}
  BY PositiveKnobs DEF Machine
<1>3. \/ mm.lastSeen = -1 /\ \A k \in 1 .. n : ~l[k].probe.ok
      \/ \E j \in 1 .. n : /\ l[j].probe.ok
                           /\ \A k \in j + 1 .. n : ~l[k].probe.ok
                           /\ mm.lastSeen = l[j].at
  BY DEF LastReplyAt
<1> HIDE DEF n, ll
<1>4. ASSUME NEW j \in 1 .. n + 1, SilentSince(ll, j, n + 1)
      PROVE  ~e.probe.ok /\ SilentTooLong(mm, e.at)
  <2>1. j # n + 1
    BY <1>1, <1>2, <1>4 DEF SilentSince
  <2>2. j \in 1 .. n /\ n + 1 \in j + 1 .. n + 1
    BY <1>1, <2>1
  <2>3. ~e.probe.ok /\ l[j].probe.ok /\ e.at - l[j].at >= SilentSecs
    BY <1>1, <1>4, <2>2 DEF SilentSince
  <2>4. \A k \in j + 1 .. n : ~l[k].probe.ok
    BY <1>1, <1>4, <2>2 DEF SilentSince
  <2>5. mm.lastSeen = l[j].at
    BY <1>1, <1>3, <2>2, <2>3, <2>4
  <2> QED
    BY <1>1, <2>2, <2>3, <2>5 DEF SilentTooLong
<1>5. ASSUME ~e.probe.ok, SilentTooLong(mm, e.at)
      PROVE  \E j \in 1 .. n + 1 : SilentSince(ll, j, n + 1)
  <2>1. PICK j \in 1 .. n : /\ l[j].probe.ok
                            /\ \A k \in j + 1 .. n : ~l[k].probe.ok
                            /\ mm.lastSeen = l[j].at
    BY <1>3, <1>5 DEF SilentTooLong
  <2>2. j \in 1 .. n + 1 /\ ll[j] = l[j]
    BY <1>1
  <2>3. ASSUME NEW k \in j + 1 .. n + 1
        PROVE  ~ll[k].probe.ok
    <3>1. CASE k = n + 1
      BY <1>1, <1>5, <3>1
    <3>2. CASE k # n + 1
      <4>1. k \in 1 .. n /\ k \in j + 1 .. n
        BY <1>1, <3>2
      <4> QED
        BY <1>1, <2>1, <4>1
    <3> QED
      BY <3>1, <3>2
  <2>4. ll[n + 1].at - ll[j].at >= SilentSecs
    BY <1>1, <1>5, <2>1, <2>2 DEF SilentTooLong
  <2> QED
    BY <2>1, <2>2, <2>3, <2>4 DEF SilentSince
<1> QED
  BY <1>4, <1>5 DEF n, ll

(* The decisions that a property is about, at one probe. *)
LEMMA ShutdownDecision ==
    ASSUME NEW mm \in Machine, NEW p \in AnyProbe, NEW t \in Int
    PROVE  OnProbe(mm, p, t).action = "shutdown" <=>
              /\ ~mm.poweredDown
              /\ IsLB(p) \/ (~p.ok /\ SilentTooLong(mm, t))
<1>1. CASE mm.poweredDown
  BY <1>1, DeadArm
<1>2. CASE ~mm.poweredDown /\ IsLB(p)
  BY <1>2, LowBatteryArm
<1>3. CASE ~mm.poweredDown /\ IsOB(p)
  BY <1>3, OnBatteryArm, ProbeCases
<1>4. CASE ~mm.poweredDown /\ IsMains(p)
  BY <1>4, OnMainsArm, ProbeCases
<1>5. CASE ~mm.poweredDown /\ ~p.ok /\ SilentTooLong(mm, t)
  BY <1>5, WatchdogArm
<1>6. CASE ~mm.poweredDown /\ ~p.ok /\ ~SilentTooLong(mm, t)
  BY <1>6, QuietArm, ProbeCases
<1> QED
  BY <1>1, <1>2, <1>3, <1>4, <1>5, <1>6, ProbeCases

LEMMA UndrainDecision ==
    ASSUME NEW mm \in Machine, NEW p \in AnyProbe, NEW t \in Int
    PROVE  OnProbe(mm, p, t).action = "undrain" <=>
              ~mm.poweredDown /\ IsMains(p) /\ ClosesDrain(mm)
<1>1. CASE mm.poweredDown
  BY <1>1, DeadArm
<1>2. CASE ~mm.poweredDown /\ IsLB(p)
  BY <1>2, LowBatteryArm, ProbeCases
<1>3. CASE ~mm.poweredDown /\ IsOB(p)
  BY <1>3, OnBatteryArm, ProbeCases
<1>4. CASE ~mm.poweredDown /\ IsMains(p)
  BY <1>4, OnMainsArm
<1>5. CASE ~mm.poweredDown /\ ~p.ok /\ SilentTooLong(mm, t)
  BY <1>5, WatchdogArm, ProbeCases
<1>6. CASE ~mm.poweredDown /\ ~p.ok /\ ~SilentTooLong(mm, t)
  BY <1>6, QuietArm, ProbeCases
<1> QED
  BY <1>1, <1>2, <1>3, <1>4, <1>5, <1>6, ProbeCases

LEMMA FeedShutdowns ==
    ASSUME Remembers, ShutdownsJustified, NEW p \in Probe, NEW gap \in Gaps, Feed(p, gap)
    PROVE  ShutdownsJustified'
<1> DEFINE e == EntryOf(p, now', OnProbe(m, p, now'))
           n == Len(log)
<1>1. /\ p \in AnyProbe /\ now' \in Nat /\ e \in Entry /\ log \in Seq(Entry) /\ m \in Machine
      /\ log' = Append(log, e)
      /\ e.probe = p /\ e.at = now' /\ e.action = OnProbe(m, p, now').action
  BY StepLog, ProbeIsAny DEF Remembers, TypeOK, EntryOf
<1> HIDE DEF e
<1>2. /\ n \in Nat /\ DOMAIN log' = 1 .. n + 1 /\ DOMAIN log = 1 .. n
      /\ \A k \in 1 .. n : log'[k] = log[k]
      /\ log'[n + 1] = e
  BY <1>1, Appended
<1>3. ASSUME NEW i \in 1 .. n
      PROVE  log'[i].action = "shutdown" <=>
                /\ ~ShutBefore(log', i)
                /\ IsLB(log'[i].probe) \/ \E j \in 1 .. i : SilentSince(log', j, i)
  <2>1. i \in 1 .. n + 1
    BY <1>2
  <2>2. ShutBefore(log', i) <=> ShutBefore(log, i)
    BY <1>1, <2>1, Readings
  <2>3. \A j \in 1 .. i : SilentSince(log', j, i) <=> SilentSince(log, j, i)
    BY <1>1, Readings
  <2> QED
    BY <1>2, <2>2, <2>3 DEF ShutdownsJustified
<1>4. log'[n + 1].action = "shutdown" <=>
          /\ ~ShutBefore(log', n + 1)
          /\ IsLB(log'[n + 1].probe) \/ \E j \in 1 .. n + 1 : SilentSince(log', j, n + 1)
  <2>1. n + 1 \in 1 .. n + 1
    BY <1>2
  <2>2. ShutBefore(log', n + 1) <=> m.poweredDown
    BY <1>1, <2>1, Readings DEF Remembers, RemembersShutdown
  <2>3. e.action = "shutdown" <=>
            ~m.poweredDown /\ (IsLB(p) \/ (~p.ok /\ SilentTooLong(m, now')))
    BY <1>1, ShutdownDecision
  <2>4. ~m.poweredDown => ((\E j \in 1 .. n + 1 : SilentSince(log', j, n + 1))
                              <=> ~p.ok /\ SilentTooLong(m, now'))
    BY <1>1, SilenceRead DEF Remembers, RemembersReply
  <2> QED
    BY <1>1, <1>2, <2>2, <2>3, <2>4
<1>5. \A i \in 1 .. n + 1 : i \in 1 .. n \/ i = n + 1
  BY <1>2
<1> QED
  BY <1>2, <1>3, <1>4, <1>5 DEF ShutdownsJustified

(***************************************************************************)
(* ShutdownsJustified: whatever the statuses, the spacing of the probes    *)
(* and the window, the node shuts down at the first LB reply or at the     *)
(* first failed probe a full window after the last reply, and never else.  *)
(***************************************************************************)
THEOREM ShutdownsAlwaysJustified == Spec => []ShutdownsJustified
<1>1. Init => Remembers /\ ShutdownsJustified
  BY InitRemembers DEF Init, ShutdownsJustified
<1>2. Remembers /\ ShutdownsJustified /\ [Next]_vars => Remembers' /\ ShutdownsJustified'
  <2>1. CASE Restart
    BY <2>1, StepRemembers DEF Restart, ShutdownsJustified, Next
  <2>2. CASE UNCHANGED vars
    BY <2>2, StepRemembers DEF vars, ShutdownsJustified
  <2> QED
    BY <2>1, <2>2, StepRemembers, FeedShutdowns DEF Next
<1> QED
  BY <1>1, <1>2, PTL DEF Spec

LEMMA FeedUndrains ==
    ASSUME Remembers, UndrainsCloseDrains, NEW p \in Probe, NEW gap \in Gaps, Feed(p, gap)
    PROVE  UndrainsCloseDrains'
<1> DEFINE e == EntryOf(p, now', OnProbe(m, p, now'))
           n == Len(log)
<1>1. /\ p \in AnyProbe /\ now' \in Nat /\ e \in Entry /\ log \in Seq(Entry) /\ m \in Machine
      /\ log' = Append(log, e)
      /\ e.probe = p /\ e.at = now' /\ e.action = OnProbe(m, p, now').action
  BY StepLog, ProbeIsAny DEF Remembers, TypeOK, EntryOf
<1> HIDE DEF e
<1>2. /\ n \in Nat /\ DOMAIN log' = 1 .. n + 1 /\ DOMAIN log = 1 .. n
      /\ \A k \in 1 .. n : log'[k] = log[k]
      /\ log'[n + 1] = e
  BY <1>1, Appended
<1>3. ASSUME NEW i \in 1 .. n + 1
      PROVE  /\ ShutBefore(log', i) <=> ShutBefore(log, i)
             /\ OpenDrain(log', i) <=> OpenDrain(log, i)
  BY <1>1, Readings
<1>4. ASSUME NEW i \in 1 .. n
      PROVE  log'[i].action = "undrain" <=>
                /\ IsMains(log'[i].probe) /\ OpenDrain(log', i) /\ ~ShutBefore(log', i)
  <2>1. i \in 1 .. n + 1
    BY <1>2
  <2> QED
    BY <1>2, <1>3, <2>1 DEF UndrainsCloseDrains
<1>5. log'[n + 1].action = "undrain" <=>
          /\ IsMains(log'[n + 1].probe) /\ OpenDrain(log', n + 1) /\ ~ShutBefore(log', n + 1)
  <2>1. n + 1 \in 1 .. n + 1
    BY <1>2
  <2>2. e.action = "undrain" <=> ~m.poweredDown /\ IsMains(p) /\ ClosesDrain(m)
    BY <1>1, UndrainDecision
  <2>3. ~m.poweredDown => (ClosesDrain(m) <=> OpenDrain(log, n + 1))
    BY DEF ClosesDrain, Remembers, RemembersDrain
  <2>4. m.poweredDown <=> ShutBefore(log, n + 1)
    BY DEF Remembers, RemembersShutdown
  <2> QED
    BY <1>1, <1>2, <1>3, <2>1, <2>2, <2>3, <2>4
<1>6. \A i \in 1 .. n + 1 : i \in 1 .. n \/ i = n + 1
  BY <1>2
<1> QED
  BY <1>2, <1>4, <1>5, <1>6 DEF UndrainsCloseDrains

(***************************************************************************)
(* UndrainsCloseDrains: every drain order is undone exactly once, at the   *)
(* first mains reply that follows it, for any number of probes.            *)
(***************************************************************************)
THEOREM UndrainsAlwaysCloseDrains == Spec => []UndrainsCloseDrains
<1>1. Init => Remembers /\ UndrainsCloseDrains
  BY InitRemembers DEF Init, UndrainsCloseDrains
<1>2. Remembers /\ UndrainsCloseDrains /\ [Next]_vars => Remembers' /\ UndrainsCloseDrains'
  <2>1. CASE Restart
    BY <2>1, StepRemembers DEF Restart, UndrainsCloseDrains, Next
  <2>2. CASE UNCHANGED vars
    BY <2>2, StepRemembers DEF vars, UndrainsCloseDrains
  <2> QED
    BY <2>1, <2>2, StepRemembers, FeedUndrains DEF Next
<1> QED
  BY <1>1, <1>2, PTL DEF Spec

-----------------------------------------------------------------------------
(* The count of on-battery replies against the machine's, which is capped.  *)

LEMMA RunReadings ==
    ASSUME NEW l \in Seq(Entry), NEW e \in Entry
    PROVE  /\ \A i \in 0 .. Len(l) : OnBatteryRun(Append(l, e), i) = OnBatteryRun(l, i)
           /\ IsMains(e.probe) => OnBatteryRun(Append(l, e), Len(l) + 1) = {}
           /\ IsOB(e.probe) => OnBatteryRun(Append(l, e), Len(l) + 1)
                                  = OnBatteryRun(l, Len(l)) \cup {Len(l) + 1}
           /\ ~IsMains(e.probe) /\ ~IsOB(e.probe) =>
                 OnBatteryRun(Append(l, e), Len(l) + 1) = OnBatteryRun(l, Len(l))
<1> DEFINE n  == Len(l)
           ll == Append(l, e)
<1>1. n \in Nat /\ (\A k \in 1 .. n : ll[k] = l[k]) /\ ll[n + 1] = e
  BY Appended
<1>2. ~(IsOB(e.probe) /\ IsMains(e.probe))
  BY ProbeCases, ProbeIsAny DEF Entry
<1> HIDE DEF n, ll
<1>3. ASSUME NEW i \in 0 .. n
      PROVE  OnBatteryRun(ll, i) = OnBatteryRun(l, i)
  <2>1. ASSUME NEW j \in 1 .. i
        PROVE  /\ IsOB(ll[j].probe) <=> IsOB(l[j].probe)
               /\ MainsBetween(ll, j, i) <=> MainsBetween(l, j, i)
    <3>1. ll[j] = l[j]
      BY <1>1
    <3>2. \A k \in j .. i : ll[k] = l[k]
      BY <1>1
    <3> QED
      BY <3>1, <3>2 DEF MainsBetween
  <2> QED
    BY <2>1 DEF OnBatteryRun
<1>4. ASSUME NEW j \in 1 .. n + 1
      PROVE  MainsBetween(ll, j, n + 1) <=>
                 IsMains(e.probe) \/ (j <= n /\ MainsBetween(l, j, n))
  BY <1>1 DEF MainsBetween
<1>5. ASSUME NEW j \in 1 .. n + 1
      PROVE  IsOB(ll[j].probe) <=> IF j = n + 1 THEN IsOB(e.probe) ELSE IsOB(l[j].probe)
  <2>1. CASE j = n + 1
    BY <1>1, <2>1
  <2>2. CASE j # n + 1
    <3>1. j \in 1 .. n
      BY <1>1, <2>2
    <3>2. ll[j] = l[j]
      BY <1>1, <3>1
    <3> QED
      BY <2>2, <3>2
  <2> QED
    BY <2>1, <2>2
<1>6. ASSUME IsMains(e.probe)
      PROVE  OnBatteryRun(ll, n + 1) = {}
  BY <1>4, <1>6 DEF OnBatteryRun
<1>7. ASSUME ~IsMains(e.probe), NEW j \in 1 .. n + 1
      PROVE  j \in OnBatteryRun(ll, n + 1) <=>
                 IF j = n + 1 THEN IsOB(e.probe) ELSE j \in OnBatteryRun(l, n)
  <2>1. j # n + 1 <=> j \in 1 .. n
    BY <1>1
  <2>2. j \in 1 .. n => j <= n
    BY <1>1
  <2>3. j = n + 1 => ~(j <= n)
    BY <1>1
  <2>4. j \in OnBatteryRun(ll, n + 1) <=> IsOB(ll[j].probe) /\ ~MainsBetween(ll, j, n + 1)
    BY DEF OnBatteryRun
  <2>5. j \in OnBatteryRun(l, n) <=> j \in 1 .. n /\ IsOB(l[j].probe) /\ ~MainsBetween(l, j, n)
    BY DEF OnBatteryRun
  <2> QED
    BY <1>4, <1>5, <1>7, <2>1, <2>2, <2>3, <2>4, <2>5
<1>8. OnBatteryRun(ll, n + 1) \subseteq 1 .. n + 1 /\ OnBatteryRun(l, n) \subseteq 1 .. n
  BY DEF OnBatteryRun
<1>9. n + 1 \in 1 .. n + 1 /\ n + 1 \notin 1 .. n /\ 1 .. n \subseteq 1 .. n + 1
  BY <1>1
<1>10. ASSUME IsOB(e.probe)
       PROVE  OnBatteryRun(ll, n + 1) = OnBatteryRun(l, n) \cup {n + 1}
  BY <1>2, <1>7, <1>8, <1>9, <1>10
<1>11. ASSUME ~IsMains(e.probe), ~IsOB(e.probe)
       PROVE  OnBatteryRun(ll, n + 1) = OnBatteryRun(l, n)
  BY <1>7, <1>8, <1>9, <1>11
<1> QED
  BY <1>3, <1>6, <1>10, <1>11 DEF n, ll

RunLength(l) == Cardinality(OnBatteryRun(l, Len(l)))

LEMMA RunLengths ==
    ASSUME NEW l \in Seq(Entry), NEW e \in Entry
    PROVE  /\ RunLength(l) \in Nat
           /\ RunLength(l) = 0 <=> OnBatteryRun(l, Len(l)) = {}
           /\ IsMains(e.probe) => RunLength(Append(l, e)) = 0
           /\ IsOB(e.probe) => RunLength(Append(l, e)) = RunLength(l) + 1
           /\ ~IsMains(e.probe) /\ ~IsOB(e.probe) => RunLength(Append(l, e)) = RunLength(l)
<1>1. Len(l) \in Nat /\ Len(Append(l, e)) = Len(l) + 1
  BY Appended
<1>2. IsFiniteSet(1 .. Len(l))
  BY <1>1, FS_Interval
<1>3. IsFiniteSet(OnBatteryRun(l, Len(l)))
  BY <1>2, FS_Subset DEF OnBatteryRun
<1>4. Len(l) + 1 \notin OnBatteryRun(l, Len(l))
  BY <1>1 DEF OnBatteryRun
<1>5. Cardinality(OnBatteryRun(l, Len(l)) \cup {Len(l) + 1}) = RunLength(l) + 1
  BY <1>3, <1>4, FS_AddElement DEF RunLength
<1>6. RunLength(l) \in Nat /\ (RunLength(l) = 0 <=> OnBatteryRun(l, Len(l)) = {})
  BY <1>3, FS_CardinalityType, FS_EmptySet DEF RunLength
<1>7. Cardinality({}) = 0
  BY FS_EmptySet
<1> QED
  BY <1>1, <1>5, <1>6, <1>7, RunReadings DEF RunLength

RemembersRun ==
    /\ m.obCount = IF RunLength(log) < CountCap THEN RunLength(log) ELSE CountCap
    /\ m.wasOB <=> RunLength(log) # 0
    /\ m.drained <=> Role = "peer" /\ m.obCount >= ConfirmOB

Counts == Remembers /\ (~m.poweredDown => RemembersRun)

LEMMA FeedCounts ==
    ASSUME Counts, NEW p \in Probe, NEW gap \in Gaps, Feed(p, gap)
    PROVE  Counts'
<1> DEFINE e == EntryOf(p, now', OnProbe(m, p, now'))
<1>1. /\ p \in AnyProbe /\ now' \in Nat /\ e \in Entry /\ log \in Seq(Entry)
      /\ m \in Machine /\ m' \in Machine /\ m' = OnProbe(m, p, now').m
      /\ log' = Append(log, e) /\ e.probe = p
  BY StepLog, ProbeIsAny DEF Counts, Remembers, TypeOK, EntryOf
<1>2. /\ RunLength(log) \in Nat
      /\ IsMains(p) => RunLength(log') = 0
      /\ IsOB(p) => RunLength(log') = RunLength(log) + 1
      /\ ~IsMains(p) /\ ~IsOB(p) => RunLength(log') = RunLength(log)
  BY <1>1, RunLengths
<1> HIDE DEF e
<1>3. SUFFICES ASSUME ~m'.poweredDown PROVE RemembersRun'
  BY FeedRemembers DEF Counts
<1>4. CASE m.poweredDown
  BY <1>1, <1>3, <1>4, DeadArm
<1>5. CASE ~m.poweredDown /\ IsLB(p)
  BY <1>1, <1>3, <1>5, LowBatteryArm
<1>6. CASE ~m.poweredDown /\ IsOB(p)
  <2>1. RemembersRun
    BY <1>6 DEF Counts
  <2>2. /\ m'.obCount = NextCount(m)
        /\ m'.wasOB
        /\ m'.drained <=> m.drained \/ OpensDrain(m)
    BY <1>1, <1>6, OnBatteryArm
  <2>3. m'.obCount = IF RunLength(log') < CountCap THEN RunLength(log') ELSE CountCap
    BY <1>2, <1>6, <2>1, <2>2, PositiveKnobs DEF RemembersRun, NextCount
  <2>4. NextCount(m) >= ConfirmOB <=> m.obCount >= ConfirmOB \/ NextCount(m) = ConfirmOB
    BY <1>1, PositiveKnobs DEF Machine, NextCount, CountCap
  <2>5. m'.drained <=> Role = "peer" /\ m'.obCount >= ConfirmOB
    BY <2>1, <2>2, <2>4 DEF RemembersRun, OpensDrain, Confirms
  <2> QED
    BY <1>2, <1>6, <2>2, <2>3, <2>5 DEF RemembersRun
<1>7. CASE ~m.poweredDown /\ IsMains(p)
  <2>1. /\ m'.obCount = 0
        /\ ~m'.wasOB
        /\ m'.drained <=> m.drained /\ ~ClosesDrain(m)
    BY <1>1, <1>7, OnMainsArm
  <2>2. ~m'.drained
    BY <1>7, <2>1 DEF Counts, Remembers, RemembersDrain, ClosesDrain
  <2> QED
    BY <1>2, <1>7, <2>1, <2>2, PositiveKnobs DEF RemembersRun
<1>8. CASE ~m.poweredDown /\ ~p.ok /\ SilentTooLong(m, now')
  BY <1>1, <1>3, <1>8, WatchdogArm
<1>9. CASE ~m.poweredDown /\ ~p.ok /\ ~SilentTooLong(m, now')
  <2>1. m' = m /\ RunLength(log') = RunLength(log)
    BY <1>1, <1>2, <1>9, QuietArm, ProbeCases
  <2> QED
    BY <1>9, <2>1 DEF Counts, RemembersRun
<1> QED
  BY <1>1, <1>4, <1>5, <1>6, <1>7, <1>8, <1>9, ProbeCases

LEMMA InitCounts == Init => Counts
<1> SUFFICES ASSUME Init PROVE Counts
  OBVIOUS
<1>1. OnBatteryRun(log, Len(log)) = {}
  BY DEF Init, OnBatteryRun
<1>2. RunLength(log) = 0
  BY <1>1, FS_EmptySet DEF RunLength
<1> QED
  BY <1>2, InitRemembers, PositiveKnobs DEF Init, Counts, RemembersRun, NewMachine

LEMMA StepCounts == Counts /\ [Next]_vars => Counts'
<1> SUFFICES ASSUME Counts, [Next]_vars PROVE Counts'
  OBVIOUS
<1>1. CASE Restart
  <2>1. Remembers'
    BY <1>1, StepRemembers DEF Counts, Next
  <2>2. OnBatteryRun(log', Len(log')) = {}
    BY <1>1 DEF Restart, OnBatteryRun
  <2>3. RunLength(log') = 0
    BY <2>2, FS_EmptySet DEF RunLength
  <2> QED
    BY <1>1, <2>1, <2>3, PositiveKnobs DEF Restart, Counts, RemembersRun, NewMachine
<1>2. CASE UNCHANGED vars
  <2>1. Remembers'
    BY <1>2, StepRemembers DEF Counts
  <2> QED
    BY <1>2, <2>1 DEF vars, Counts, RemembersRun
<1> QED
  BY <1>1, <1>2, FeedCounts DEF Next

LEMMA OutageDecisions ==
    ASSUME NEW mm \in Machine, NEW p \in AnyProbe, NEW t \in Int
    PROVE  /\ OnProbe(mm, p, t).action = "drain" <=>
                 ~mm.poweredDown /\ IsOB(p) /\ OpensDrain(mm)
           /\ OnProbe(mm, p, t).event = "onbattery" <=>
                 ~mm.poweredDown /\ IsOB(p) /\ Confirms(mm)
           /\ OnProbe(mm, p, t).event = "backonmains" <=>
                 ~mm.poweredDown /\ IsMains(p) /\ mm.wasOB
<1>1. CASE mm.poweredDown
  BY <1>1, DeadArm
<1>2. CASE ~mm.poweredDown /\ IsLB(p)
  BY <1>2, LowBatteryArm, ProbeCases
<1>3. CASE ~mm.poweredDown /\ IsOB(p)
  BY <1>3, OnBatteryArm, ProbeCases
<1>4. CASE ~mm.poweredDown /\ IsMains(p)
  BY <1>4, OnMainsArm, ProbeCases
<1>5. CASE ~mm.poweredDown /\ ~p.ok /\ SilentTooLong(mm, t)
  BY <1>5, WatchdogArm, ProbeCases
<1>6. CASE ~mm.poweredDown /\ ~p.ok /\ ~SilentTooLong(mm, t)
  BY <1>6, QuietArm, ProbeCases
<1> QED
  BY <1>1, <1>2, <1>3, <1>4, <1>5, <1>6, ProbeCases

(* The confirming reply is the one that makes the run ConfirmOB long, and *)
(* no drain is open before it.                                            *)
LEMMA ConfirmRead ==
    ASSUME m \in Machine, RemembersRun, RunLength(log) \in Nat
    PROVE  /\ Confirms(m) <=> RunLength(log) + 1 = ConfirmOB
           /\ OpensDrain(m) <=> Confirms(m) /\ Role = "peer"
<1>1. Confirms(m) <=> RunLength(log) + 1 = ConfirmOB
  BY PositiveKnobs DEF RemembersRun, Confirms, NextCount, CountCap
<1>2. Confirms(m) => ~(m.obCount >= ConfirmOB)
  BY PositiveKnobs DEF Machine, Confirms, NextCount, CountCap
<1> QED
  BY <1>1, <1>2 DEF RemembersRun, OpensDrain

LEMMA FeedOutages ==
    ASSUME Counts, DrainsOnConfirm, OutagesReported, NEW p \in Probe, NEW gap \in Gaps, Feed(p, gap)
    PROVE  DrainsOnConfirm' /\ OutagesReported'
<1> DEFINE e == EntryOf(p, now', OnProbe(m, p, now'))
           n == Len(log)
<1>1. /\ p \in AnyProbe /\ now' \in Nat /\ e \in Entry /\ log \in Seq(Entry) /\ m \in Machine
      /\ log' = Append(log, e)
      /\ e.probe = p
      /\ e.action = OnProbe(m, p, now').action /\ e.event = OnProbe(m, p, now').event
  BY StepLog, ProbeIsAny DEF Counts, Remembers, TypeOK, EntryOf
<1> HIDE DEF e
<1>2. /\ n \in Nat /\ DOMAIN log' = 1 .. n + 1 /\ DOMAIN log = 1 .. n /\ Len(log') = n + 1
      /\ \A k \in 1 .. n : log'[k] = log[k]
      /\ log'[n + 1] = e
  BY <1>1, Appended
<1>3. /\ \A i \in 1 .. n + 1 : ShutBefore(log', i) <=> ShutBefore(log, i)
      /\ \A i \in 0 .. n : OnBatteryRun(log', i) = OnBatteryRun(log, i)
  BY <1>1, Readings, RunReadings
<1>4. ASSUME NEW i \in 1 .. n
      PROVE  /\ log'[i] = log[i]
             /\ ShutBefore(log', i) <=> ShutBefore(log, i)
             /\ OnBatteryRun(log', i) = OnBatteryRun(log, i)
             /\ OnBatteryRun(log', i - 1) = OnBatteryRun(log, i - 1)
             /\ i \in DOMAIN log
  <2>1. i \in 1 .. n + 1 /\ i \in 0 .. n /\ i - 1 \in 0 .. n
    BY <1>2
  <2> QED
    BY <1>2, <1>3, <2>1
<1>5. /\ log'[n + 1] = e
      /\ ShutBefore(log', n + 1) <=> m.poweredDown
      /\ OnBatteryRun(log', (n + 1) - 1) # {} <=> RunLength(log) # 0
      /\ IsOB(p) => Cardinality(OnBatteryRun(log', n + 1)) = RunLength(log) + 1
      /\ RunLength(log) \in Nat
  <2>1. n + 1 \in 1 .. n + 1 /\ n \in 0 .. n /\ (n + 1) - 1 = n
    BY <1>2
  <2>2. ShutBefore(log', n + 1) <=> m.poweredDown
    BY <1>3, <2>1 DEF Counts, Remembers, RemembersShutdown
  <2>3. OnBatteryRun(log', (n + 1) - 1) = OnBatteryRun(log, n)
    BY <1>3, <2>1
  <2>4. RunLength(log') = Cardinality(OnBatteryRun(log', n + 1))
    BY <1>2 DEF RunLength
  <2> QED
    BY <1>1, <1>2, <2>2, <2>3, <2>4, RunLengths
<1>6. /\ e.action = "drain" <=> ~m.poweredDown /\ IsOB(p) /\ OpensDrain(m)
      /\ e.event = "onbattery" <=> ~m.poweredDown /\ IsOB(p) /\ Confirms(m)
      /\ e.event = "backonmains" <=> ~m.poweredDown /\ IsMains(p) /\ m.wasOB
  BY <1>1, OutageDecisions
<1>7. ~m.poweredDown => /\ Confirms(m) <=> RunLength(log) + 1 = ConfirmOB
                        /\ OpensDrain(m) <=> Confirms(m) /\ Role = "peer"
                        /\ m.wasOB <=> RunLength(log) # 0
  BY <1>1, <1>5, ConfirmRead DEF Counts, RemembersRun
<1>8. \A i \in 1 .. n + 1 : i \in 1 .. n \/ i = n + 1
  BY <1>2
<1>9. DrainsOnConfirm'
  <2>1. ASSUME NEW i \in 1 .. n
        PROVE  log'[i].action = "drain" <=>
                  /\ Role = "peer" /\ IsOB(log'[i].probe)
                  /\ Cardinality(OnBatteryRun(log', i)) = ConfirmOB /\ ~ShutBefore(log', i)
    BY <1>4 DEF DrainsOnConfirm
  <2>2. log'[n + 1].action = "drain" <=>
            /\ Role = "peer" /\ IsOB(log'[n + 1].probe)
            /\ Cardinality(OnBatteryRun(log', n + 1)) = ConfirmOB /\ ~ShutBefore(log', n + 1)
    BY <1>1, <1>5, <1>6, <1>7
  <2> QED
    BY <1>2, <1>8, <2>1, <2>2 DEF DrainsOnConfirm
<1>10. OutagesReported'
  <2>1. ASSUME NEW i \in 1 .. n
        PROVE  /\ log'[i].event = "onbattery" <=>
                     /\ IsOB(log'[i].probe)
                     /\ Cardinality(OnBatteryRun(log', i)) = ConfirmOB /\ ~ShutBefore(log', i)
               /\ log'[i].event = "backonmains" <=>
                     /\ IsMains(log'[i].probe)
                     /\ OnBatteryRun(log', i - 1) # {} /\ ~ShutBefore(log', i)
    BY <1>4 DEF OutagesReported
  <2>2. /\ log'[n + 1].event = "onbattery" <=>
              /\ IsOB(log'[n + 1].probe)
              /\ Cardinality(OnBatteryRun(log', n + 1)) = ConfirmOB /\ ~ShutBefore(log', n + 1)
        /\ log'[n + 1].event = "backonmains" <=>
              /\ IsMains(log'[n + 1].probe)
              /\ OnBatteryRun(log', (n + 1) - 1) # {} /\ ~ShutBefore(log', n + 1)
    BY <1>1, <1>5, <1>6, <1>7
  <2> QED
    BY <1>2, <1>8, <2>1, <2>2 DEF OutagesReported
<1> QED
  BY <1>9, <1>10

LEMMA OutagesInvariant == Spec => [](DrainsOnConfirm /\ OutagesReported)
<1>1. Init => Counts /\ DrainsOnConfirm /\ OutagesReported
  BY InitCounts DEF Init, DrainsOnConfirm, OutagesReported
<1>2. Counts /\ DrainsOnConfirm /\ OutagesReported /\ [Next]_vars =>
          Counts' /\ DrainsOnConfirm' /\ OutagesReported'
  <2>1. CASE Restart
    BY <2>1, StepCounts DEF Restart, DrainsOnConfirm, OutagesReported, Next
  <2>2. CASE UNCHANGED vars
    BY <2>2, StepCounts DEF vars, DrainsOnConfirm, OutagesReported
  <2> QED
    BY <2>1, <2>2, StepCounts, FeedOutages DEF Next
<1> QED
  BY <1>1, <1>2, PTL DEF Spec

(***************************************************************************)
(* DrainsOnConfirm: a drain is ordered exactly when a peer's on-battery    *)
(* replies since mains reach ConfirmOB, once per outage, for every         *)
(* ConfirmOB and any number of failed probes in between.                   *)
(***************************************************************************)
THEOREM DrainsAlwaysOnConfirm == Spec => []DrainsOnConfirm
  BY OutagesInvariant, PTL

(***************************************************************************)
(* OutagesReported: an outage is reported once when it is confirmed and    *)
(* once when it ends, in both roles.                                       *)
(***************************************************************************)
THEOREM OutagesAlwaysReported == Spec => []OutagesReported
  BY OutagesInvariant, PTL
=============================================================================
