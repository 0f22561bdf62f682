------------------------------ MODULE NutClient ------------------------------
(***************************************************************************)
(* One probe after the other of the NUT client (src/internal/ups/nut.go),  *)
(* as realProbe and probeNUT make them: a connection per probe, the login  *)
(* if credentials are set, one request, and a deadline for each answer.    *)
(* The server may answer late, badly or not at all; the UPS changes at any *)
(* moment.  Time goes in ticks, which stop at a deadline until it is met.  *)
(***************************************************************************)
EXTENDS Naturals, Sequences

CONSTANTS
    UpsStatuses,                  \* what ups.status may say
    Credentials,                  \* UPS_USER or UPS_PASS is set
    DialTimeout, DefaultTimeout   \* ticks for connect and login answers, for the status

VARIABLES
    ups,        \* the UPS's status as upsd knows it
    step,       \* "idle", the exchange that is awaited, or "done"
    asked,      \* commands on their way to the server or not yet answered
    answers,    \* answer lines on their way to the client or in its buffer
    left,       \* ticks to the deadline
    result,     \* what the probe returns once it is done
    elapsed,    \* history: ticks since the probe began
    seen        \* history: the statuses the UPS has had since then

vars == <<ups, step, asked, answers, left, result, elapsed, seen>>

Login == {"USERNAME", "PASSWORD", "LOGIN"}
Steps == {"idle", "dial", "GET", "done"} \cup Login

(* An answer that is no ERR line is an acknowledgement, a VAR line for this *)
(* UPS with its status, or another line.                                    *)
Var(s) == [kind |-> "VAR", status |-> s]
Answer == {Var(s) : s \in UpsStatuses} \cup [kind : {"ERR", "other"}, status : {{}}]

Failed == [ok |-> FALSE, status |-> {}]
Results == {Failed} \cup {[ok |-> TRUE, status |-> s] : s \in UpsStatuses}

TypeOK ==
    /\ ups \in UpsStatuses
    /\ step \in Steps
    /\ asked \in Seq(Login \cup {"GET"})
    /\ answers \in Seq(Answer)
    /\ left \in 0 .. DialTimeout + DefaultTimeout
    /\ result \in Results
    /\ elapsed \in Nat
    /\ seen \subseteq UpsStatuses

Init ==
    /\ ups \in UpsStatuses
    /\ step = "idle"
    /\ asked = <<>> /\ answers = <<>>
    /\ left = 0
    /\ result = Failed
    /\ elapsed = 0 /\ seen = {}

-----------------------------------------------------------------------------
(* The client. *)

Await(next, ticks) == step' = next /\ left' = ticks

(* Plausible bug in Return: one connection serves all probes. *)
ReturnKeeping(r) ==
    /\ Await("done", 0)
    /\ result' = r
    /\ asked' = asked /\ answers' = IF answers = <<>> THEN <<>> ELSE Tail(answers)

(* A probe that ends closes its connection, and what is in it is lost. *)
Return(r) ==
    /\ Await("done", 0)
    /\ result' = r
    /\ asked' = <<>> /\ answers' = <<>>

Dial ==
    /\ step = "idle"
    /\ Await("dial", DialTimeout)
    /\ elapsed' = 0 /\ seen' = {ups}
    /\ UNCHANGED <<ups, asked, answers, result>>

Timeout(cmd) == IF cmd = "GET" THEN DefaultTimeout ELSE DialTimeout

Send(cmd) ==
    /\ Await(cmd, Timeout(cmd))
    /\ asked' = Append(asked, cmd)
    /\ UNCHANGED result

Connected ==
    /\ step = "dial"
    /\ Send(IF Credentials THEN "USERNAME" ELSE "GET")
    /\ UNCHANGED <<ups, answers, elapsed, seen>>

After(cmd) == CASE cmd = "USERNAME" -> "PASSWORD" [] cmd = "PASSWORD" -> "LOGIN" [] OTHER -> "GET"

(* sendRead: whatever is no ERR line acknowledges a login command. *)
Acknowledged ==
    /\ step \in Login /\ answers # <<>>
    /\ IF Head(answers).kind = "ERR" THEN Return(Failed)
       ELSE /\ Await(After(step), Timeout(After(step)))
            /\ asked' = Append(asked, After(step)) /\ answers' = Tail(answers)
            /\ UNCHANGED result
    /\ UNCHANGED <<ups, elapsed, seen>>

(* parseVarReply: any other line is an error. *)
Answered ==
    /\ step = "GET" /\ answers # <<>>
    /\ LET line == Head(answers)
       IN  Return(IF line.kind = "VAR" THEN [ok |-> TRUE, status |-> line.status] ELSE Failed)
    /\ UNCHANGED <<ups, elapsed, seen>>

(* No connection, a connection that breaks, or a deadline. *)
Waiting == step \notin {"idle", "done"}

Breaks ==
    /\ Waiting
    /\ Return(Failed)
    /\ UNCHANGED <<ups, elapsed, seen>>

(* The status goes to the caller. *)
Delivered ==
    /\ step = "done"
    /\ step' = "idle"
    /\ UNCHANGED <<ups, asked, answers, left, result, elapsed, seen>>

-----------------------------------------------------------------------------
(* The server, the network and the UPS. *)

Serve ==
    /\ asked # <<>>
    /\ \E a \in {Var(ups)} \cup [kind : {"ERR", "other"}, status : {{}}] :
         /\ a.kind = "VAR" => Head(asked) = "GET"
         /\ answers' = Append(answers, a)
    /\ asked' = Tail(asked)
    /\ UNCHANGED <<ups, step, left, result, elapsed, seen>>

(* Plausible bug in DeadlineKept: every byte that arrives moves the deadline. *)
DeadlineMoved == left' = Timeout(step)

DeadlineKept == UNCHANGED left

(* A part of a line arrives: ReadString waits on, with the same deadline. *)
Trickle ==
    /\ Waiting /\ step # "dial" /\ answers = <<>>
    /\ DeadlineKept
    /\ UNCHANGED <<ups, step, asked, answers, result, elapsed, seen>>

UpsChanges ==
    /\ ups' \in UpsStatuses
    /\ seen' = IF Waiting THEN seen \cup {ups'} ELSE seen
    /\ UNCHANGED <<step, asked, answers, left, result, elapsed>>

Tick ==
    /\ Waiting /\ left > 0
    /\ left' = left - 1
    /\ elapsed' = elapsed + 1
    /\ UNCHANGED <<ups, step, asked, answers, result, seen>>

Client == Dial \/ Connected \/ Acknowledged \/ Answered \/ Breaks
Environment == Serve \/ Trickle \/ UpsChanges \/ Tick

Next == Client \/ Delivered \/ Environment

Spec == Init /\ [][Next]_vars

-----------------------------------------------------------------------------
(* Properties. *)

(***************************************************************************)
(* However slowly the server trickles, a probe is over after the deadlines *)
(* of its exchanges (nut.go:12 and 25), so that it delays the shutdown on  *)
(* a low battery by no more.                                               *)
(***************************************************************************)
ProbeBounded ==
    elapsed <= (IF Credentials THEN 4 * DialTimeout ELSE DialTimeout) + DefaultTimeout
=============================================================================
