----------------------------- MODULE NasService -----------------------------
(***************************************************************************)
(* The wake-on-LAN service as it runs (src/cmd/wol-on-boot/main.go): the   *)
(* monitor of WolOnBoot gets its probes from the NUT client.  Between two  *)
(* of its steps stand the exchanges of a probe, through which the UPS goes *)
(* on changing.                                                            *)
(***************************************************************************)
EXTENDS WolOnBoot, Sequences

CONSTANTS
    Credentials,                  \* UPS_USER or UPS_PASS is set
    DialTimeout, DefaultTimeout   \* see NutClient

ASSUME CredentialsAssumption == Credentials \in BOOLEAN
ASSUME TimeoutAssumption == DialTimeout \in Nat /\ DefaultTimeout \in Nat

VARIABLES ups, step, asked, answers, left, result, elapsed, seen

nutVars == <<ups, step, asked, answers, left, result, elapsed, seen>>

Nut == INSTANCE NutClient WITH
           UpsStatuses <- Statuses, Credentials <- Credentials,
           DialTimeout <- DialTimeout, DefaultTimeout <- DefaultTimeout,
           ups <- ups, step <- step, asked <- asked, answers <- answers, left <- left,
           result <- result, elapsed <- elapsed, seen <- seen

NasInit == Init /\ Nut!Init

(* A round of main's loop ends: the machine gets what the probe returned. *)
Round == Nut!Delivered /\ Monitor(result)

Probing == (Nut!Client \/ Nut!Environment) /\ UNCHANGED vars

(* A restart gives up the probe under way. *)
NasRestart ==
    /\ Restart
    /\ step' = "idle" /\ asked' = <<>> /\ answers' = <<>> /\ left' = 0
    /\ result' = Nut!Failed /\ elapsed' = 0 /\ seen' = {}
    /\ UNCHANGED ups

NasNext == Round \/ Probing \/ NasRestart

NasSpec == NasInit /\ [][NasNext]_<<vars, nutVars>>

-----------------------------------------------------------------------------
(* Properties. *)

NasTypeOK == TypeOK /\ Nut!TypeOK

(***************************************************************************)
(* What the monitor is promised: a round either hears nothing or the       *)
(* status the UPS had at one moment of that round.  The service, with its  *)
(* connections, logins, deadlines and late answers, implements this        *)
(* monitor (probeNUT, Dial, Status, Close): the machine never counts an    *)
(* on-battery or mains reply of an earlier round.                          *)
(***************************************************************************)
Sample == \E p \in {Silence} \cup {Reply(s) : s \in seen} : Monitor(p)

MonitorSamples == Init /\ [][Sample \/ Restart]_vars

(***************************************************************************)
(* However slowly the server trickles, a round hears from its probe within *)
(* the deadlines of its exchanges (nut.go:12 and 25; sendRead), so that    *)
(* the windows of the watchdog and the bursts keep their pace.             *)
(***************************************************************************)
ProbeBounded == Nut!ProbeBounded
=============================================================================
