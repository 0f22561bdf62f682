----------------------------- MODULE DnsPipeline -----------------------------
(***************************************************************************)
(* Local DNS records: the generator (src/stacks/dns/generator.py) polls    *)
(* Traefik's routers and publishes a records file on shared storage; on    *)
(* each node a script (src/stacks/dns/entrypoint.sh) starts unbound on a   *)
(* private copy of that file and goes on applying its changes.  One node   *)
(* is modelled: the nodes share nothing but the file, which they only      *)
(* read.                                                                   *)
(*                                                                         *)
(* Records are the set of their host names; an empty file is the empty     *)
(* set.  A hash stands for the records it was taken of.                    *)
(***************************************************************************)
EXTENDS Naturals, FiniteSets

CONSTANTS
    Home,             \* home.danhughes.dev
    Routes,           \* the sets of hosts Traefik may report
    Edits,            \* records somebody may write into the file by hand
    Absent,           \* no file, no hash
    StartupAttempts,  \* DNS_STARTUP_ATTEMPTS
    Faults            \* there may be trouble, at first

ASSUME AbsentAssumption  == Absent \notin Routes \cup Edits
ASSUME StartupAssumption == StartupAttempts \in Nat \ {0} /\ Faults \in BOOLEAN

Records == Routes \cup Edits

VARIABLES
    routes,    \* what Traefik reports at this moment
    fetched,   \* what the generator has fetched and not yet dealt with
    file,      \* the published file
    runtime,   \* the node's copy, runtime/hosts.conf
    previous,  \* runtime/hosts.conf.previous
    served,    \* the records unbound holds
    server,    \* unbound: "off", "starting", "up" or "dead"
    pc,        \* where the script is
    attempt,   \* its startup attempt
    hash,      \* its hash and last_hash
    last,
    trouble,   \* fetches, writes, copies and reloads may fail, processes end
    pace       \* history: "settled" when the script has found nothing new in the
               \* file, "changed" after a change, "rushed" after two at a time

fileVars   == <<routes, fetched, file>>
callVars   == <<hash, previous>>
serverVars == <<served, server>>
scriptVars == <<runtime, pc, attempt, last, callVars>>
vars == <<fileVars, serverVars, scriptVars, trouble, pace>>

TypeOK ==
    /\ routes \in Routes
    /\ {fetched, file, runtime, previous, served, hash, last} \subseteq Records \cup {Absent}
    /\ server \in {"off", "starting", "up", "dead"}
    /\ pc \in {"startup", "sleep", "hash", "size", "cmp", "copy", "check", "reload", "exit"}
    /\ attempt \in 1 .. StartupAttempts
    /\ trouble \in BOOLEAN
    /\ pace \in {"settled", "changed", "rushed"}

Init ==
    /\ routes \in Routes
    /\ file \in Records \cup {Absent}
    /\ fetched = Absent /\ runtime = Absent /\ previous = Absent /\ served = Absent
    /\ hash = Absent /\ last = Absent
    /\ server = "off" /\ pc = "startup" /\ attempt = 1
    /\ trouble = Faults
    /\ pace = "settled"

-----------------------------------------------------------------------------
(* generator.py: poll. *)

Fetch ==
    /\ fetched = Absent /\ Home \in routes
    /\ fetched' = routes
    /\ UNCHANGED <<routes, file, serverVars, scriptVars, trouble, pace>>

(* More than a quarter of at least five published names would go. *)
Implausible(hosts) ==
    /\ file # Absent
    /\ Cardinality(file) >= 5
    /\ Cardinality(file \ hosts) > Cardinality(file) \div 4

(* The script has dealt with the last change, or is not at work yet. *)
KeepsUp == pace = "settled" \/ (pace = "changed" /\ pc \in {"startup", "exit"})

(* The file is replaced, whole, by the generator or by hand, at any time. *)
WriteFile(records) ==
    /\ file' = records
    /\ pace' = IF KeepsUp THEN "changed" ELSE "rushed"

Publish ==
    /\ fetched # Absent
    /\ \/ ~Implausible(fetched) /\ file # fetched /\ WriteFile(fetched)
       \/ (Implausible(fetched) \/ file = fetched \/ trouble) /\ UNCHANGED <<file, pace>>
    /\ fetched' = Absent
    /\ UNCHANGED <<routes, serverVars, scriptVars, trouble>>

Generator == Fetch \/ Publish

-----------------------------------------------------------------------------
(* entrypoint.sh: the startup loop. *)

HasHomeRecord(records) == records # Absent /\ Home \in records

(* A copy of the file that passes starts the server. *)
Startup ==
    /\ pc = "startup" /\ file # {} /\ HasHomeRecord(file)
    /\ runtime' = file
    /\ pc' = "sleep" /\ server' = "starting"
    /\ UNCHANGED <<fileVars, served, attempt, last, callVars, trouble, pace>>

(* Plausible bug in StartupRetry: no attempt is the last one. *)
StartupRetryForever ==
    /\ pc = "startup" /\ (~HasHomeRecord(file) \/ trouble)
    /\ runtime' \in {runtime} \cup ({file} \ {Absent, {}})
    /\ attempt' = attempt + 1
    /\ UNCHANGED <<fileVars, serverVars, pc, last, callVars, trouble, pace>>

StartupRetry ==
    /\ pc = "startup" /\ (~HasHomeRecord(file) \/ trouble)
    /\ runtime' \in {runtime} \cup ({file} \ {Absent, {}})
    /\ IF attempt = StartupAttempts THEN pc' = "exit" /\ UNCHANGED attempt
                                    ELSE attempt' = attempt + 1 /\ UNCHANGED pc
    /\ UNCHANGED <<fileVars, serverVars, last, callVars, trouble, pace>>

-----------------------------------------------------------------------------
(* entrypoint.sh: apply_generated, called again and again. *)

Poll ==
    /\ pc = "sleep"
    /\ pc' = IF server = "dead" THEN "exit" ELSE "hash"
    /\ UNCHANGED <<fileVars, serverVars, runtime, attempt, last, callVars, trouble, pace>>

(* What a call leaves in hash and in the previous file is not looked at again. *)
Return == pc' = "sleep" /\ hash' = Absent /\ previous' = Absent

(* One step of a call, which leaves everything outside the script alone. *)
Step(label) == pc = label /\ UNCHANGED <<fileVars, server, attempt, trouble>>

Hash ==
    /\ Step("hash")
    /\ \/ file \notin {Absent, last} /\ hash' = file /\ pc' = "size" /\ UNCHANGED previous
       \/ file \in {Absent, last} /\ Return
    /\ pace' = IF pace = "changed" /\ file = last THEN "settled" ELSE pace
    /\ UNCHANGED <<served, runtime, last>>

(* The status of the pipe is that of cut: a file that cannot be read has the *)
(* empty hash, which is what last_hash begins with, and the call goes on.    *)
HashFails ==
    /\ trouble /\ Step("hash")
    /\ \/ last # Absent /\ hash' = Absent /\ pc' = "size" /\ UNCHANGED previous
       \/ last = Absent /\ Return
    /\ UNCHANGED <<served, runtime, last, pace>>

Size ==
    /\ Step("size")
    /\ \/ file # {} /\ pc' = "cmp" /\ UNCHANGED <<last, callVars>>
       \/ file = {} /\ last' = hash /\ Return
    /\ UNCHANGED <<served, runtime, pace>>

Cmp ==
    /\ Step("cmp")
    /\ \/ file # runtime /\ pc' = "copy" /\ UNCHANGED <<last, callVars>>
       \/ file = runtime /\ last' = hash /\ Return
    /\ UNCHANGED <<served, runtime, pace>>

(* set -e: a copy that fails ends the script. *)
Copy ==
    /\ Step("copy")
    /\ \/ previous' = runtime /\ runtime' = file /\ pc' = "check"
       \/ trouble /\ pc' = "exit" /\ UNCHANGED <<previous, runtime>>
    /\ UNCHANGED <<served, last, hash, pace>>

(* Plausible bug in Check: records are left to the server's own judgement. *)
CheckNothing ==
    /\ Step("check")
    /\ pc' = "reload"
    /\ UNCHANGED <<served, runtime, last, callVars, pace>>

Check ==
    /\ Step("check")
    /\ \/ HasHomeRecord(runtime) /\ pc' = "reload" /\ UNCHANGED <<runtime, last, callVars>>
       \/ ~HasHomeRecord(runtime) /\ runtime' = previous /\ last' = hash /\ Return
    /\ UNCHANGED <<served, pace>>

(* Plausible bug in Reload: the hash is remembered when the reload failed too. *)
ReloadRemembers ==
    /\ Step("reload")
    /\ \/ server = "up" /\ served' = runtime /\ UNCHANGED runtime
       \/ (server # "up" \/ trouble) /\ runtime' = previous /\ UNCHANGED served
    /\ last' = hash /\ Return
    /\ UNCHANGED pace

(* An unbound that is not up yet cannot reload. *)
Reload ==
    /\ Step("reload")
    /\ \/ server = "up" /\ served' = runtime /\ last' = hash /\ UNCHANGED runtime
       \/ (server # "up" \/ trouble) /\ runtime' = previous /\ UNCHANGED <<served, last>>
    /\ Return
    /\ UNCHANGED pace

Script == Startup \/ StartupRetry \/ Poll \/ Hash \/ HashFails \/ Size \/ Cmp \/ Copy
            \/ Check \/ Reload

-----------------------------------------------------------------------------
(* unbound and the container. *)

(* unbound reads its configuration some time after the script started it. *)
Load ==
    /\ server = "starting"
    /\ server' = "up" /\ served' = runtime
    /\ UNCHANGED <<fileVars, scriptVars, trouble, pace>>

ServerDies ==
    /\ trouble /\ server \in {"starting", "up"}
    /\ server' = "dead" /\ served' = Absent
    /\ UNCHANGED <<fileVars, scriptVars, trouble, pace>>

(* A task that has ended, or that the swarm replaces, starts with no files. *)
NewContainer ==
    /\ pc' = "startup" /\ attempt' = 1
    /\ runtime' = Absent /\ previous' = Absent /\ hash' = Absent /\ last' = Absent
    /\ server' = "off" /\ served' = Absent
    /\ pace' = IF pace = "rushed" THEN "changed" ELSE pace
    /\ UNCHANGED <<fileVars, trouble>>

(* The health check asks unbound for the home record. *)
Unhealthy == server = "up" /\ ~HasHomeRecord(served)

Restart == (pc = "exit" \/ Unhealthy \/ trouble) /\ NewContainer

(* A fetch that fails, or a new generator, drops what was fetched. *)
GeneratorRestart ==
    /\ trouble /\ fetched # Absent
    /\ fetched' = Absent
    /\ UNCHANGED <<routes, file, serverVars, scriptVars, trouble, pace>>

RoutesChange ==
    /\ routes' \in Routes
    /\ UNCHANGED <<fetched, file, serverVars, scriptVars, trouble, pace>>

Edit ==
    /\ \E records \in Edits : WriteFile(records)
    /\ UNCHANGED <<routes, fetched, serverVars, scriptVars, trouble>>

TroubleEnds ==
    /\ trouble /\ trouble' = FALSE
    /\ UNCHANGED <<fileVars, serverVars, scriptVars, pace>>

Surroundings == RoutesChange \/ Edit \/ ServerDies \/ GeneratorRestart \/ TroubleEnds

Next == Generator \/ Script \/ Load \/ Restart \/ Surroundings

Spec == Init /\ [][Next]_vars

-----------------------------------------------------------------------------
(* Properties. *)

(***************************************************************************)
(* A server that answers is never moved by a reload to records without the *)
(* home record, whatever is written to the file, and when (apply_generated *)
(* tests its own copy, not the file it hashed).                            *)
(***************************************************************************)
ReloadsKeepHome ==
    [][server = "up" /\ server' = "up" /\ served' # served => HasHomeRecord(served')]_vars

(***************************************************************************)
(* Between two calls of apply_generated, the script takes the file as dealt*)
(* with only if a healthy server holds it: when last_hash is that of the   *)
(* file, and both the file and what unbound holds have the home record,    *)
(* they are the same records, whatever start, copy or reload failed or was *)
(* overtaken by unbound's own start.  Said of a container that has had one *)
(* change at a time: the generator sleeps for a minute and the script for  *)
(* five seconds, but a hand edit may come when it likes.                   *)
(***************************************************************************)
RememberedIsServed ==
    pace # "rushed" /\ pc = "sleep" /\ server = "up" /\ HasHomeRecord(served) /\ HasHomeRecord(file) /\ last = file
        => served = file

(* The generator, the script, unbound and the swarm go on; nothing is owed  *)
(* by Traefik, by hand edits or by trouble.                                 *)
Fairness ==
    /\ WF_vars(Fetch) /\ WF_vars(Publish)
    /\ WF_vars(Script) /\ WF_vars(Load)
    /\ WF_vars(Restart /\ ~trouble)

FairSpec == Spec /\ Fairness

(***************************************************************************)
(* When Traefik's routers settle on a plausible set of hosts, nobody edits *)
(* the file and nothing fails any more, the node comes to serve exactly    *)
(* those hosts and stays so, whatever was half done: a start, a copy, a    *)
(* reload that failed, a bad file put aside (poll's and apply_generated's  *)
(* loops, and the hash that is remembered only once it was dealt with).    *)
(* A container that has had two changes at a time may miss the last one    *)
(* for good, so this is of one that has had one at a time.                 *)
(***************************************************************************)
Converges ==
    <>[](~trouble /\ pace # "rushed" /\ Home \in routes /\ ~Implausible(routes)) /\ <>[][~RoutesChange /\ ~Edit]_vars
        => <>[](server = "up" /\ served = routes)
=============================================================================
