-------------------------- MODULE DnsPipelineProof --------------------------
(***************************************************************************)
(* Proofs about DnsPipeline for every set of routers' answers and of hand  *)
(* edits, any number of startup attempts, with trouble or without.         *)
(***************************************************************************)
EXTENDS DnsPipeline, TLAPS

Kept == Records \cup {Absent}

LEMMA InitType == Init => TypeOK
  BY StartupAssumption DEF Init, TypeOK, Records

LEMMA StepType == TypeOK /\ [Next]_vars => TypeOK'
<1> SUFFICES ASSUME TypeOK, [Next]_vars PROVE TypeOK'
  OBVIOUS
<1> USE DEF TypeOK, Records, fileVars, callVars, serverVars, scriptVars
<1>1. CASE Generator
  BY <1>1 DEF Generator, Fetch, Publish, WriteFile
<1>2. CASE Startup
  BY <1>2 DEF Startup
<1>3. CASE StartupRetry
  <2>1. attempt' \in 1 .. StartupAttempts
    BY <1>3, StartupAssumption DEF StartupRetry
  <2>2. runtime' \in Kept
    BY <1>3 DEF StartupRetry, Kept
  <2> QED
    BY <1>3, <2>1, <2>2 DEF StartupRetry, Kept
<1>4. CASE Poll
  BY <1>4 DEF Poll
<1>5. CASE Hash \/ HashFails \/ Size \/ Cmp
  BY <1>5 DEF Hash, HashFails, Size, Cmp, Step, Return
<1>6. CASE Copy \/ Check \/ Reload
  BY <1>6 DEF Copy, Check, Reload, Step, Return
<1>7. CASE Load
  BY <1>7 DEF Load
<1>8. CASE Restart
  BY <1>8, StartupAssumption DEF Restart, NewContainer
<1>9. CASE Surroundings
  BY <1>9 DEF Surroundings, RoutesChange, Edit, WriteFile, ServerDies, GeneratorRestart, TroubleEnds
<1>10. CASE UNCHANGED vars
  BY <1>10 DEF vars
<1> QED
  BY <1>1, <1>2, <1>3, <1>4, <1>5, <1>6, <1>7, <1>8, <1>9, <1>10 DEF Next, Script

(***************************************************************************)
(* TypeOK: what every file, copy and hash of the pipeline may hold, and    *)
(* the startup attempts never exceed DNS_STARTUP_ATTEMPTS.                 *)
(***************************************************************************)
THEOREM TypeCorrect == Spec => []TypeOK
  BY InitType, StepType, PTL DEF Spec

-----------------------------------------------------------------------------
(* At the reload the private copy is the one that was tested: nothing but  *)
(* the script writes it.                                                   *)
Tested == pc = "reload" => HasHomeRecord(runtime)

LEMMA InitTested == Init => Tested
  BY DEF Init, Tested

LEMMA StepTested == Tested /\ [Next]_vars => Tested'
<1> SUFFICES ASSUME Tested, [Next]_vars PROVE Tested'
  OBVIOUS
<1> USE DEF Tested, HasHomeRecord, fileVars, callVars, serverVars, scriptVars
<1>1. CASE Generator
  BY <1>1 DEF Generator, Fetch, Publish
<1>2. CASE Startup \/ StartupRetry \/ Poll
  BY <1>2 DEF Startup, StartupRetry, Poll
<1>3. CASE Hash \/ HashFails \/ Size \/ Cmp \/ Copy
  BY <1>3 DEF Hash, HashFails, Size, Cmp, Copy, Step, Return
<1>4. CASE Check \/ Reload
  BY <1>4 DEF Check, Reload, Step, Return
<1>5. CASE Load \/ Restart
  BY <1>5 DEF Load, Restart, NewContainer
<1>6. CASE Surroundings
  BY <1>6 DEF Surroundings, RoutesChange, Edit, ServerDies, GeneratorRestart, TroubleEnds
<1>7. CASE UNCHANGED vars
  BY <1>7 DEF vars
<1> QED
  BY <1>1, <1>2, <1>3, <1>4, <1>5, <1>6, <1>7 DEF Next, Script

(* The reload is the one step that changes what a running server holds. *)
LEMMA StepReloads ==
    ASSUME Tested, [Next]_vars, server = "up", server' = "up", served' # served
    PROVE  HasHomeRecord(served')
<1> USE DEF fileVars, callVars, serverVars, scriptVars
<1>1. Reload
  <2>1. ~Generator
    BY DEF Generator, Fetch, Publish
  <2>2. ~(Startup \/ StartupRetry \/ Poll)
    BY DEF Startup, StartupRetry, Poll
  <2>3. ~(Hash \/ HashFails \/ Size \/ Cmp \/ Copy \/ Check)
    BY DEF Hash, HashFails, Size, Cmp, Copy, Check
  <2>4. ~(Load \/ Restart)
    BY DEF Load, Restart, NewContainer
  <2>5. ~Surroundings
    BY DEF Surroundings, RoutesChange, Edit, ServerDies, GeneratorRestart, TroubleEnds
  <2> QED
    BY <2>1, <2>2, <2>3, <2>4, <2>5 DEF Next, Script, vars
<1> QED
  BY <1>1 DEF Reload, Step, Tested, HasHomeRecord

(***************************************************************************)
(* ReloadsKeepHome: a server that answers is never moved to records        *)
(* without the home record, whatever is in the shared file and whenever it *)
(* is replaced.                                                            *)
(***************************************************************************)
THEOREM ReloadsAlwaysKeepHome == Spec => ReloadsKeepHome
<1>1. Tested /\ [Next]_vars =>
        [server = "up" /\ server' = "up" /\ served' # served => HasHomeRecord(served')]_vars
  BY StepReloads
<1> QED
  BY <1>1, InitTested, StepTested, PTL DEF Spec, ReloadsKeepHome

-----------------------------------------------------------------------------
(***************************************************************************)
(* What the script remembers.  A call works on the file before the copy    *)
(* and on its own copy after it.                                           *)
(***************************************************************************)
Before == {"sleep", "hash", "size", "cmp", "copy"}
After  == {"check", "reload"}

(* The container's first calls find nothing remembered, and a file. *)
Begun ==
    /\ pc = "startup" => last = Absent /\ server = "off"
    /\ pc \in Before \cup After => file # Absent

(* A file that is dealt with is the one whose hash the script has, if any. *)
Paced == pace = "settled" => last \in {file, Absent} /\ hash \in {file, Absent}

(* A good file that is remembered, or dealt with, is the copy: a call that *)
(* goes on to copy has another file before it.                             *)
Copied ==
    /\ pc \in Before /\ HasHomeRecord(file) /\ (pace = "settled" \/ last = file)
         => runtime = file
    /\ pc \in {"copy"} \cup After /\ (pace = "settled" \/ last = file) => ~HasHomeRecord(file)
    /\ pc \in After /\ (pace = "settled" \/ HasHomeRecord(runtime) \/ hash = file)
         => runtime = file

(* A healthy server holds what the script holds, has put aside or will hold. *)
Holding ==
    server = "up" /\ HasHomeRecord(served) =>
      /\ pc \in Before => served \in {runtime, file}
      /\ pc \in After => served \in {previous, file}
      /\ pc \in Before /\ last = file /\ HasHomeRecord(file) => served = file

(* All this is lost with two changes at a time, until a new container.     *)
ServedInv == Begun /\ (pace # "rushed" => Paced /\ Copied /\ Holding)

LEMMA InitServed == Init => ServedInv
  BY DEF Init, ServedInv, Begun, Paced, Copied, Holding, Before, After

LEMMA StepBegun == Begun /\ [Next]_vars => Begun'
<1> SUFFICES ASSUME Begun, [Next]_vars PROVE Begun'
  OBVIOUS
<1> USE DEF Begun, Before, After, HasHomeRecord, fileVars, callVars, serverVars, scriptVars
<1>1. CASE Generator
  BY <1>1 DEF Generator, Fetch, Publish, WriteFile
<1>2. CASE Startup \/ StartupRetry \/ Poll
  BY <1>2 DEF Startup, StartupRetry, Poll
<1>3. CASE Hash \/ HashFails \/ Size \/ Cmp
  BY <1>3 DEF Hash, HashFails, Size, Cmp, Step, Return
<1>4. CASE Copy \/ Check \/ Reload
  BY <1>4 DEF Copy, Check, Reload, Step, Return
<1>5. CASE Load \/ Restart
  BY <1>5 DEF Load, Restart, NewContainer
<1>6. CASE Surroundings
  BY <1>6, AbsentAssumption
  DEF Surroundings, RoutesChange, Edit, WriteFile, ServerDies, GeneratorRestart, TroubleEnds
<1>7. CASE UNCHANGED vars
  BY <1>7 DEF vars
<1> QED
  BY <1>1, <1>2, <1>3, <1>4, <1>5, <1>6, <1>7 DEF Next, Script

(* The file is replaced. *)
LEMMA WriteServed ==
    ASSUME ServedInv, NEW records, WriteFile(records), records # Absent,
           UNCHANGED <<serverVars, scriptVars>>, pace # "rushed", pace' # "rushed"
    PROVE  Paced' /\ Copied' /\ Holding'
<1> USE DEF WriteFile, KeepsUp, HasHomeRecord, Before, After, callVars, serverVars, scriptVars
<1>1. Paced' BY DEF Paced
<1>2. Copied' BY DEF ServedInv, Begun, Paced, Copied
<1>3. Holding' BY DEF ServedInv, Begun, Paced, Copied, Holding
<1> QED BY <1>1, <1>2, <1>3

(* No step but a new container's ends a rush. *)
LEMMA RushStays == pace = "rushed" /\ [Next]_vars /\ ~Restart => pace' = "rushed"
<1> SUFFICES ASSUME pace = "rushed", [Next]_vars, ~Restart PROVE pace' = "rushed"
  OBVIOUS
<1>1. CASE Generator \/ Surroundings
  BY <1>1 DEF Generator, Fetch, Publish, WriteFile, KeepsUp,
     Surroundings, RoutesChange, Edit, ServerDies, GeneratorRestart, TroubleEnds
<1>2. CASE Script \/ Load
  BY <1>2 DEF Script, Startup, StartupRetry, Poll, Hash, HashFails, Size, Cmp, Copy, Check, Reload, Load
<1>3. CASE UNCHANGED vars
  BY <1>3 DEF vars
<1> QED BY <1>1, <1>2, <1>3 DEF Next

LEMMA StepServed == Tested /\ ServedInv /\ [Next]_vars => ServedInv'
<1> SUFFICES ASSUME Tested, ServedInv, [Next]_vars, pace' # "rushed"
             PROVE  Paced' /\ Copied' /\ Holding'
  BY StepBegun DEF ServedInv
<1>10. CASE Restart
  BY <1>10 DEF Restart, NewContainer, Paced, Copied, Holding, HasHomeRecord, Before, After, fileVars
<1> SUFFICES ASSUME ~Restart, pace # "rushed" PROVE Paced' /\ Copied' /\ Holding'
  BY <1>10, RushStays
<1> USE DEF ServedInv, HasHomeRecord, Before, After, fileVars, callVars, serverVars, scriptVars
<1>1. CASE Generator
  <2>1. CASE Fetch BY <2>1 DEF Fetch, Begun, Paced, Copied, Holding
  <2>2. CASE Publish
    <3>1. CASE WriteFile(fetched) BY <2>2, <3>1, WriteServed DEF Publish
    <3>2. CASE UNCHANGED <<file, pace>>
      BY <2>2, <3>2 DEF Publish, Begun, Paced, Copied, Holding
    <3> QED BY <2>2, <3>1, <3>2 DEF Publish
  <2> QED BY <1>1, <2>1, <2>2 DEF Generator
<1>2. CASE Startup \/ StartupRetry \/ Poll
  BY <1>2 DEF Startup, StartupRetry, Poll, Begun, Paced, Copied, Holding
<1>3. CASE Hash
  <2> USE DEF Hash, Step, Return
  <2>1. Paced' BY <1>3 DEF Begun, Paced
  <2>2. Copied' BY <1>3 DEF Begun, Paced, Copied
  <2>3. Holding' BY <1>3 DEF Begun, Holding
  <2> QED BY <2>1, <2>2, <2>3
<1>14. CASE HashFails
  BY <1>14 DEF HashFails, Step, Return, Begun, Paced, Copied, Holding
<1>4. CASE Size
  BY <1>4 DEF Size, Step, Return, Begun, Paced, Copied, Holding
<1>5. CASE Cmp
  BY <1>5 DEF Cmp, Step, Return, Begun, Paced, Copied, Holding
<1>6. CASE Copy
  <2> USE DEF Copy, Step
  <2>1. Paced' BY <1>6 DEF Begun, Paced
  <2>2. Copied' BY <1>6 DEF Copied
  <2>3. Holding' BY <1>6 DEF Holding
  <2> QED BY <2>1, <2>2, <2>3
<1>7. CASE Check
  BY <1>7 DEF Check, Step, Return, Begun, Paced, Copied, Holding
<1>8. CASE Reload
  BY <1>8 DEF Reload, Step, Return, Tested, Begun, Paced, Copied, Holding
<1>9. CASE Load
  BY <1>9 DEF Load, Begun, Paced, Copied, Holding
<1>11. CASE Edit
  BY <1>11, AbsentAssumption, WriteServed DEF Edit
<1>12. CASE Surroundings /\ ~Edit
  BY <1>12 DEF Surroundings, RoutesChange, ServerDies, GeneratorRestart, TroubleEnds,
     Begun, Paced, Copied, Holding
<1>13. CASE UNCHANGED vars
  BY <1>13 DEF vars, Begun, Paced, Copied, Holding
<1> QED
  BY <1>1, <1>2, <1>3, <1>4, <1>5, <1>6, <1>7, <1>8, <1>9, <1>11, <1>12, <1>13, <1>14
     DEF Next, Script, Surroundings

(***************************************************************************)
(* RememberedIsServed: no start, copy or reload, failed or overtaken, makes*)
(* the script forget records that a healthy server does not hold, whatever *)
(* the routers report and is written by hand, one change at a time.        *)
(***************************************************************************)
THEOREM RememberedAlwaysServed == Spec => []RememberedIsServed
<1>1. ServedInv => RememberedIsServed
  BY DEF ServedInv, Holding, RememberedIsServed, Before
<1> QED
  BY <1>1, InitTested, StepTested, InitServed, StepServed, PTL DEF Spec
=============================================================================
