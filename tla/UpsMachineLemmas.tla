-------------------------- MODULE UpsMachineLemmas --------------------------
(* What one call of OnProbe does, for every role, configuration and status  *)
(* set; the proofs about the modules that drive the machine cite these.     *)
EXTENDS UpsMachine, TLAPS

(* NewMachine's defaults leave both knobs positive (NewMachine in machine.go). *)
LEMMA PositiveKnobs ==
    /\ ConfirmOB \in Nat \ {0}
    /\ SilentSecs \in Nat \ {0}
    /\ CountCap \in Nat
    /\ CountCap > ConfirmOB
  BY ConfigAssumption DEF ConfirmOB, SilentSecs, CountCap

LEMMA NewMachineType == NewMachine \in Machine
  BY PositiveKnobs DEF NewMachine, Machine

(* The lemmas are about replies with any words, for the rehearsal makes up a *)
(* status of its own (feed in main.go).                                       *)
AnyProbe == {Silence} \cup {Reply(s) : s \in SUBSET Words}

LEMMA ProbeIsAny == Probe \subseteq AnyProbe
  BY StatusAssumption DEF Probe, AnyProbe

(* Every probe is either silence or a reply, and a reply takes one arm. *)
LEMMA ProbeCases ==
    ASSUME NEW p \in AnyProbe
    PROVE  /\ p.ok \in BOOLEAN
           /\ p.ok <=> IsLB(p) \/ IsOB(p) \/ IsMains(p)
           /\ ~(IsLB(p) /\ IsOB(p))
           /\ ~(IsLB(p) /\ IsMains(p))
           /\ ~(IsOB(p) /\ IsMains(p))
<1>1. CASE p = Silence
  BY <1>1 DEF Silence, IsLB, IsOB, IsMains
<1>2. ASSUME NEW s \in SUBSET Words, p = Reply(s)
      PROVE  /\ p.ok = TRUE
             /\ p.status = s
  BY <1>2 DEF Reply
<1>3. CASE \E s \in SUBSET Words : p = Reply(s)
  BY <1>2, <1>3 DEF IsLB, IsOB, IsMains
<1> QED
  BY <1>1, <1>3 DEF AnyProbe

(* The arm OnProbe takes, one equation per arm. *)
LEMMA Arms ==
    ASSUME NEW mm \in Machine, NEW p \in AnyProbe, NEW t \in Int
    PROVE  /\ mm.poweredDown => OnProbe(mm, p, t) = Decide(mm, "none", "none")
           /\ ~mm.poweredDown /\ IsLB(p) =>
                 OnProbe(mm, p, t) = [ShutDown(mm, "shutdown") EXCEPT !.m.lastSeen = t]
           /\ ~mm.poweredDown /\ IsOB(p) =>
                 OnProbe(mm, p, t) = [OnBattery(mm) EXCEPT !.m.lastSeen = t]
           /\ ~mm.poweredDown /\ IsMains(p) =>
                 OnProbe(mm, p, t) = [OnMains(mm) EXCEPT !.m.lastSeen = t]
           /\ ~mm.poweredDown /\ ~p.ok => OnProbe(mm, p, t) = OnSilence(mm, t)
<1>1. mm.poweredDown \in BOOLEAN
  BY DEF Machine
<1>2. ASSUME mm.poweredDown
      PROVE  OnProbe(mm, p, t) = Decide(mm, "none", "none")
  BY <1>1, <1>2 DEF OnProbe
<1>3. ASSUME ~mm.poweredDown, IsLB(p)
      PROVE  OnProbe(mm, p, t) = [ShutDown(mm, "shutdown") EXCEPT !.m.lastSeen = t]
  BY <1>1, <1>3, ProbeCases DEF OnProbe, IsLB, IsOB, IsMains
<1>4. ASSUME ~mm.poweredDown, IsOB(p)
      PROVE  OnProbe(mm, p, t) = [OnBattery(mm) EXCEPT !.m.lastSeen = t]
  BY <1>1, <1>4, ProbeCases DEF OnProbe, IsLB, IsOB, IsMains
<1>5. ASSUME ~mm.poweredDown, IsMains(p)
      PROVE  OnProbe(mm, p, t) = [OnMains(mm) EXCEPT !.m.lastSeen = t]
  BY <1>1, <1>5, ProbeCases DEF OnProbe, IsLB, IsOB, IsMains
<1>6. ASSUME ~mm.poweredDown, ~p.ok
      PROVE  OnProbe(mm, p, t) = OnSilence(mm, t)
  BY <1>1, <1>6, ProbeCases DEF OnProbe, IsLB, IsOB, IsMains
<1> QED
  BY <1>2, <1>3, <1>4, <1>5, <1>6

(* The arms' results, field by field. *)
NextCount(mm)   == IF mm.obCount < CountCap THEN mm.obCount + 1 ELSE CountCap
Confirms(mm)    == NextCount(mm) = ConfirmOB
OpensDrain(mm)  == Confirms(mm) /\ Role = "peer" /\ ~mm.drained
ClosesDrain(mm) == mm.wasOB /\ Role = "peer" /\ mm.drained

LEMMA NextCountType == ASSUME NEW mm \in Machine PROVE NextCount(mm) \in 0 .. CountCap
  BY PositiveKnobs DEF NextCount, Machine

LEMMA LowBatteryArm ==
    ASSUME NEW mm \in Machine, NEW p \in AnyProbe, NEW t \in Int, ~mm.poweredDown, IsLB(p)
    PROVE  /\ OnProbe(mm, p, t).m \in Machine
           /\ OnProbe(mm, p, t).m.obCount = mm.obCount
           /\ OnProbe(mm, p, t).m.lastSeen = t
           /\ OnProbe(mm, p, t).m.wasOB <=> mm.wasOB
           /\ OnProbe(mm, p, t).m.poweredDown
           /\ OnProbe(mm, p, t).m.drained <=> mm.drained
           /\ OnProbe(mm, p, t).action = "shutdown"
           /\ OnProbe(mm, p, t).event = "shutdown"
<1> DEFINE after == [mm EXCEPT !.poweredDown = TRUE]
<1>1. OnProbe(mm, p, t) = [ShutDown(mm, "shutdown") EXCEPT !.m.lastSeen = t]
  BY Arms
<1>2. ShutDown(mm, "shutdown") = [m |-> after, action |-> "shutdown", event |-> "shutdown"]
  BY DEF ShutDown, Decide
<1>3. after \in Machine
  BY DEF Machine
<1>4. /\ after.obCount = mm.obCount
      /\ after.wasOB <=> mm.wasOB
      /\ after.poweredDown
      /\ after.drained <=> mm.drained
  BY DEF Machine
<1> HIDE DEF after
<1>5. /\ OnProbe(mm, p, t).m = [after EXCEPT !.lastSeen = t]
      /\ OnProbe(mm, p, t).action = "shutdown"
      /\ OnProbe(mm, p, t).event = "shutdown"
  BY <1>1, <1>2
<1>6. [after EXCEPT !.lastSeen = t] \in Machine
  BY <1>3 DEF Machine
<1> QED
  BY <1>3, <1>4, <1>5, <1>6 DEF Machine

LEMMA OnBatteryArm ==
    ASSUME NEW mm \in Machine, NEW p \in AnyProbe, NEW t \in Int, ~mm.poweredDown, IsOB(p)
    PROVE  /\ OnProbe(mm, p, t).m \in Machine
           /\ OnProbe(mm, p, t).m.obCount = NextCount(mm)
           /\ OnProbe(mm, p, t).m.lastSeen = t
           /\ OnProbe(mm, p, t).m.wasOB
           /\ ~OnProbe(mm, p, t).m.poweredDown
           /\ OnProbe(mm, p, t).m.drained <=> mm.drained \/ OpensDrain(mm)
           /\ OnProbe(mm, p, t).action = IF OpensDrain(mm) THEN "drain" ELSE "none"
           /\ OnProbe(mm, p, t).event = IF Confirms(mm) THEN "onbattery" ELSE "none"
<1> DEFINE after == [mm EXCEPT !.obCount = NextCount(mm), !.wasOB = TRUE,
                               !.drained = mm.drained \/ OpensDrain(mm)]
<1>1. OnProbe(mm, p, t) = [OnBattery(mm) EXCEPT !.m.lastSeen = t]
  BY Arms
<1>2. OnBattery(mm) = [ m |-> after,
                        action |-> IF OpensDrain(mm) THEN "drain" ELSE "none",
                        event |-> IF Confirms(mm) THEN "onbattery" ELSE "none" ]
  BY DEF OnBattery, Decide, OpensDrain, Confirms, NextCount
<1>3. NextCount(mm) \in 0 .. CountCap
  BY NextCountType
<1>4. (mm.drained \/ OpensDrain(mm)) \in BOOLEAN
  OBVIOUS
<1>5. after \in Machine
  BY <1>3, <1>4 DEF Machine
<1>6. /\ OnProbe(mm, p, t).m = [after EXCEPT !.lastSeen = t]
      /\ OnProbe(mm, p, t).action = IF OpensDrain(mm) THEN "drain" ELSE "none"
      /\ OnProbe(mm, p, t).event = IF Confirms(mm) THEN "onbattery" ELSE "none"
  BY <1>1, <1>2
<1>7. /\ after.obCount = NextCount(mm)
      /\ after.wasOB
      /\ ~after.poweredDown
      /\ after.drained <=> mm.drained \/ OpensDrain(mm)
  BY DEF Machine
<1> HIDE DEF after
<1>8. [after EXCEPT !.lastSeen = t] \in Machine
  BY <1>5 DEF Machine
<1> QED
  BY <1>5, <1>6, <1>7, <1>8 DEF Machine

LEMMA OnMainsArm ==
    ASSUME NEW mm \in Machine, NEW p \in AnyProbe, NEW t \in Int, ~mm.poweredDown, IsMains(p)
    PROVE  /\ OnProbe(mm, p, t).m \in Machine
           /\ OnProbe(mm, p, t).m.obCount = 0
           /\ OnProbe(mm, p, t).m.lastSeen = t
           /\ ~OnProbe(mm, p, t).m.wasOB
           /\ ~OnProbe(mm, p, t).m.poweredDown
           /\ OnProbe(mm, p, t).m.drained <=> mm.drained /\ ~ClosesDrain(mm)
           /\ OnProbe(mm, p, t).action = IF ClosesDrain(mm) THEN "undrain" ELSE "none"
           /\ OnProbe(mm, p, t).event = IF mm.wasOB THEN "backonmains" ELSE "none"
<1> DEFINE after == [mm EXCEPT !.obCount = 0, !.wasOB = FALSE,
                               !.drained = mm.drained /\ ~ClosesDrain(mm)]
<1>1. OnProbe(mm, p, t) = [OnMains(mm) EXCEPT !.m.lastSeen = t]
  BY Arms
<1>2. OnMains(mm) = [ m |-> after,
                      action |-> IF ClosesDrain(mm) THEN "undrain" ELSE "none",
                      event |-> IF mm.wasOB THEN "backonmains" ELSE "none" ]
  BY DEF OnMains, Decide, ClosesDrain
<1>3. 0 \in 0 .. CountCap
  BY PositiveKnobs
<1>4. (mm.drained /\ ~ClosesDrain(mm)) \in BOOLEAN
  OBVIOUS
<1>5. after \in Machine
  BY <1>3, <1>4 DEF Machine
<1>6. /\ OnProbe(mm, p, t).m = [after EXCEPT !.lastSeen = t]
      /\ OnProbe(mm, p, t).action = IF ClosesDrain(mm) THEN "undrain" ELSE "none"
      /\ OnProbe(mm, p, t).event = IF mm.wasOB THEN "backonmains" ELSE "none"
  BY <1>1, <1>2
<1>7. /\ after.obCount = 0
      /\ ~after.wasOB
      /\ ~after.poweredDown
      /\ after.drained <=> mm.drained /\ ~ClosesDrain(mm)
  BY DEF Machine
<1> HIDE DEF after
<1>8. [after EXCEPT !.lastSeen = t] \in Machine
  BY <1>5 DEF Machine
<1> QED
  BY <1>5, <1>6, <1>7, <1>8 DEF Machine

LEMMA WatchdogArm ==
    ASSUME NEW mm \in Machine, NEW p \in AnyProbe, NEW t \in Int,
           ~mm.poweredDown, ~p.ok, SilentTooLong(mm, t)
    PROVE  /\ OnProbe(mm, p, t).m \in Machine
           /\ OnProbe(mm, p, t).m.obCount = mm.obCount
           /\ OnProbe(mm, p, t).m.lastSeen = mm.lastSeen
           /\ OnProbe(mm, p, t).m.wasOB <=> mm.wasOB
           /\ OnProbe(mm, p, t).m.poweredDown
           /\ OnProbe(mm, p, t).m.drained <=> mm.drained
           /\ OnProbe(mm, p, t).action = "shutdown"
           /\ OnProbe(mm, p, t).event = "watchdog"
<1> DEFINE after == [mm EXCEPT !.poweredDown = TRUE]
<1>1. OnProbe(mm, p, t) = OnSilence(mm, t)
  BY Arms
<1>2. OnSilence(mm, t) = [m |-> after, action |-> "shutdown", event |-> "watchdog"]
  BY DEF OnSilence, ShutDown, Decide
<1>3. after \in Machine
  BY DEF Machine
<1>4. /\ after.obCount = mm.obCount
      /\ after.lastSeen = mm.lastSeen
      /\ after.wasOB <=> mm.wasOB
      /\ after.poweredDown
      /\ after.drained <=> mm.drained
  BY DEF Machine
<1> HIDE DEF after
<1> QED
  BY <1>1, <1>2, <1>3, <1>4

LEMMA QuietArm ==
    ASSUME NEW mm \in Machine, NEW p \in AnyProbe, NEW t \in Int,
           ~mm.poweredDown, ~p.ok, ~SilentTooLong(mm, t)
    PROVE  /\ OnProbe(mm, p, t).m = mm
           /\ OnProbe(mm, p, t).action = "none"
           /\ OnProbe(mm, p, t).event = "none"
<1>1. OnProbe(mm, p, t) = OnSilence(mm, t)
  BY Arms
<1> QED
  BY <1>1 DEF OnSilence, Decide

LEMMA DeadArm ==
    ASSUME NEW mm \in Machine, NEW p \in AnyProbe, NEW t \in Int, mm.poweredDown
    PROVE  /\ OnProbe(mm, p, t).m = mm
           /\ OnProbe(mm, p, t).action = "none"
           /\ OnProbe(mm, p, t).event = "none"
  BY Arms DEF Decide

(* OnProbe is total on machines, and its action agrees with the drained latch: *)
(* an undrain order closes it, only a drain order opens it.                    *)
LEMMA OnProbeEffect ==
    ASSUME NEW mm \in Machine, NEW p \in AnyProbe, NEW t \in Int
    PROVE  /\ OnProbe(mm, p, t).m \in Machine
           /\ OnProbe(mm, p, t).action \in Action
           /\ OnProbe(mm, p, t).event \in Event
           /\ OnProbe(mm, p, t).action = "undrain" => ~OnProbe(mm, p, t).m.drained
           /\ OnProbe(mm, p, t).m.drained /\ ~mm.drained => OnProbe(mm, p, t).action = "drain"
<1>1. CASE mm.poweredDown
  BY <1>1, DeadArm DEF Action, Event
<1>2. CASE ~mm.poweredDown /\ IsLB(p)
  BY <1>2, LowBatteryArm DEF Action, Event
<1>3. CASE ~mm.poweredDown /\ IsOB(p)
  BY <1>3, OnBatteryArm DEF Action, Event
<1>4. CASE ~mm.poweredDown /\ IsMains(p)
  BY <1>4, OnMainsArm DEF Action, Event, ClosesDrain
<1>5. CASE ~mm.poweredDown /\ ~p.ok /\ SilentTooLong(mm, t)
  BY <1>5, WatchdogArm DEF Action, Event
<1>6. CASE ~mm.poweredDown /\ ~p.ok /\ ~SilentTooLong(mm, t)
  BY <1>6, QuietArm DEF Action, Event
<1> QED
  BY <1>1, <1>2, <1>3, <1>4, <1>5, <1>6, ProbeCases DEF Machine
=============================================================================
