------------------------------ MODULE EventLog ------------------------------
(***************************************************************************)
(* The event log (src/internal/ups/log.go): the goroutines of a process    *)
(* share a Logger and its mutex; the daemon and the boot process have a    *)
(* Logger each on the same file.  A line goes to the file, if it can, and  *)
(* to stdout always.  open() renames a file past the threshold first.      *)
(*                                                                         *)
(* A line is its number in the order of the calls of Log, a file the       *)
(* sequence of its lines.  A handle names the file it writes to: the one   *)
(* at the path, the one at <path>.1, or one that has lost its name.        *)
(***************************************************************************)
EXTENDS Naturals, SequencesExt

CONSTANTS
    Processes, Goroutines,   \* a thread is a pair of them
    RotateLines,             \* RotateBytes, in lines
    VolumeFails,             \* the volume may break and be mended
    Earlier,                 \* lines in the file from before the node booted
    MaxLines                 \* bound: lines logged, the earlier ones included

ASSUME LinesAssumption == RotateLines \in Nat /\ MaxLines \in Nat
ASSUME EarlierAssumption == Earlier \in 0 .. MaxLines
ASSUME VolumeAssumption == VolumeFails \in BOOLEAN

VARIABLES
    exists,    \* there is a file at the path
    current,   \* its lines
    old,       \* the lines of the generation before, at <path>.1
    stdout,    \* per process, what it printed: journald keeps it over restarts
    volume,    \* the volume works
    handle,    \* per process, l.f
    holder,    \* per process, the thread that has the mutex
    pc, line,  \* per thread, where it is and the line it logs
    count      \* the lines logged so far

vars == <<exists, current, old, stdout, volume, handle, holder, pc, line, count>>

Threads == Processes \X Goroutines
ProcessOf(t) == t[1]

Handles == {"down", "opening", "none", "current", "old", "unnamed", "closed"}
Labels == {"idle", "lock", "write", "stat", "rename", "open", "again", "print"}

Line == 1 .. MaxLines

TypeOK ==
    /\ exists \in BOOLEAN
    /\ current \in Seq(Line) /\ old \in Seq(Line)
    /\ stdout \in [Processes -> Seq(Line)]
    /\ volume \in BOOLEAN
    /\ handle \in [Processes -> Handles]
    /\ holder \in [Processes -> SUBSET Threads]
    /\ pc \in [Threads -> Labels]
    /\ line \in [Threads -> 0 .. MaxLines]
    /\ count \in 0 .. MaxLines

Init ==
    /\ exists = (Earlier > 0) /\ current = [i \in 1 .. Earlier |-> i] /\ old = <<>>
    /\ stdout = [p \in Processes |-> <<>>]
    /\ volume = TRUE
    /\ handle = [p \in Processes |-> "down"]
    /\ holder = [p \in Processes |-> {}]
    /\ pc = [t \in Threads |-> "idle"]
    /\ line = [t \in Threads |-> 0]
    /\ count = Earlier

Goto(t, label) == pc' = [pc EXCEPT ![t] = label]
Handle(t, h) == handle' = [handle EXCEPT ![ProcessOf(t)] = h]

files == <<exists, current, old>>

-----------------------------------------------------------------------------
(* open(), which newLogger calls before there are other goroutines and Log *)
(* calls with the mutex held.                                              *)

(* newLogger: a file that cannot be opened leaves a Logger for stdout only. *)
Start(t) ==
    /\ handle[ProcessOf(t)] = "down"
    /\ Handle(t, "opening")
    /\ Goto(t, "stat")
    /\ line' = [line EXCEPT ![t] = 0]
    /\ UNCHANGED <<files, stdout, volume, holder, count>>

(* Plausible bug in AfterOpen: an early return that leaves the mutex locked. *)
AfterOpenLocked(t, opened) ==
    /\ IF line[t] = 0
       THEN Goto(t, "idle") /\ Handle(t, IF opened THEN "current" ELSE "none")
       ELSE /\ Goto(t, IF opened THEN "again" ELSE "idle")
            /\ Handle(t, IF opened THEN "current" ELSE handle[ProcessOf(t)])
    /\ UNCHANGED holder

(* Plausible bug in AfterOpen: a start writes as a call of Log does. *)
AfterOpenWrites(t, opened) ==
    /\ Goto(t, IF opened THEN "again" ELSE "print")
    /\ Handle(t, IF opened THEN "current" ELSE "none")
    /\ UNCHANGED holder

(* What follows an open() that succeeded or failed, at start or in Log. *)
AfterOpen(t, opened) ==
    /\ IF line[t] = 0
       THEN Goto(t, "idle") /\ Handle(t, IF opened THEN "current" ELSE "none")
       ELSE /\ Goto(t, IF opened THEN "again" ELSE "print")
            /\ Handle(t, IF opened THEN "current" ELSE handle[ProcessOf(t)])
    /\ UNCHANGED holder

TooLong == exists /\ Len(current) > RotateLines

(* MkdirAll's failure ends open(); Stat's is passed over, a file whose size *)
(* cannot be read being opened as it is.                                    *)
StatFile(t) ==
    /\ pc[t] = "stat"
    /\ \/ Goto(t, IF volume /\ TooLong THEN "rename" ELSE "open") /\ UNCHANGED <<handle, holder>>
       \/ ~volume /\ AfterOpen(t, FALSE)
    /\ UNCHANGED <<files, stdout, volume, line, count>>

(* Handles follow their files. *)
Moved(h) == CASE h = "current" -> "old" [] h = "old" -> "unnamed" [] OTHER -> h

Rename(t) ==
    /\ pc[t] = "rename"
    /\ Goto(t, "open")
    /\ IF volume /\ exists
       THEN /\ old' = current /\ current' = <<>> /\ exists' = FALSE
            /\ handle' = [p \in Processes |-> Moved(handle[p])]
       ELSE UNCHANGED <<files, handle>>
    /\ UNCHANGED <<stdout, volume, holder, line, count>>

Open(t) ==
    /\ pc[t] = "open"
    /\ \/ volume /\ exists' = TRUE /\ AfterOpen(t, TRUE)
       \/ ~volume /\ UNCHANGED exists /\ AfterOpen(t, FALSE)
    /\ UNCHANGED <<current, old, stdout, volume, line, count>>

-----------------------------------------------------------------------------
(* Log. *)

Log(t) ==
    /\ pc[t] = "idle" /\ handle[ProcessOf(t)] \notin {"down", "opening"}
    /\ count < MaxLines
    /\ count' = count + 1
    /\ line' = [line EXCEPT ![t] = count + 1]
    /\ Goto(t, "lock")
    /\ UNCHANGED <<files, stdout, volume, handle, holder>>

(* Plausible bug in Free: the mutex is not asked for. *)
FreeAlways(t) == TRUE

Free(t) == holder[ProcessOf(t)] = {}

Lock(t) ==
    /\ pc[t] = "lock" /\ Free(t)
    /\ holder' = [holder EXCEPT ![ProcessOf(t)] = @ \cup {t}]
    /\ Goto(t, IF handle[ProcessOf(t)] = "none" THEN "print" ELSE "write")
    /\ UNCHANGED <<files, stdout, volume, handle, line, count>>

(* WriteString puts the line into the file the handle names. *)
Written(h, l) ==
    /\ current' = IF h = "current" THEN Append(current, l) ELSE current
    /\ old' = IF h = "old" THEN Append(old, l) ELSE old
    /\ UNCHANGED exists

(* A write that fails closes the file and opens it once more, unless closing *)
(* reports the broken volume too; a file that is closed already fails both,  *)
(* and stays closed.                                                         *)
Write(t) ==
    LET h == handle[ProcessOf(t)]
    IN  /\ pc[t] = "write"
        /\ \/ h # "closed" /\ volume /\ Written(h, line[t]) /\ Goto(t, "print") /\ UNCHANGED handle
           \/ /\ h # "closed" /\ ~volume
              /\ Handle(t, "closed") /\ (Goto(t, "stat") \/ Goto(t, "print"))
              /\ UNCHANGED files
           \/ h = "closed" /\ Goto(t, "print") /\ UNCHANGED <<files, handle>>
        /\ UNCHANGED <<stdout, volume, holder, line, count>>

WriteAgain(t) ==
    /\ pc[t] = "again"
    /\ \/ volume /\ Written(handle[ProcessOf(t)], line[t])
       \/ ~volume /\ UNCHANGED files
    /\ Goto(t, "print")
    /\ UNCHANGED <<stdout, volume, handle, holder, line, count>>

PrintLine(t) ==
    /\ pc[t] = "print"
    /\ stdout' = [stdout EXCEPT ![ProcessOf(t)] = Append(@, line[t])]
    /\ holder' = [holder EXCEPT ![ProcessOf(t)] = @ \ {t}]
    /\ Goto(t, "idle")
    /\ UNCHANGED <<files, volume, handle, line, count>>

(* The process ends, or is killed at any point. *)
Stop(p) ==
    /\ handle[p] # "down"
    /\ handle' = [handle EXCEPT ![p] = "down"]
    /\ holder' = [holder EXCEPT ![p] = {}]
    /\ pc' = [t \in Threads |-> IF ProcessOf(t) = p THEN "idle" ELSE pc[t]]
    /\ UNCHANGED <<files, stdout, volume, line, count>>

VolumeChanges ==
    /\ VolumeFails
    /\ volume' = ~volume
    /\ UNCHANGED <<files, stdout, handle, holder, pc, line, count>>

Runs(t) == StatFile(t) \/ Rename(t) \/ Open(t) \/ Write(t) \/ WriteAgain(t) \/ PrintLine(t)

Next ==
    \/ \E t \in Threads : Start(t) \/ Log(t) \/ Lock(t) \/ Runs(t)
    \/ \E p \in Processes : Stop(p)
    \/ VolumeChanges

Spec == Init /\ [][Next]_vars

(* Threads run, and Go's mutex hands itself to a waiter that waits long. *)
FairSpec == Spec /\ \A t \in Threads : WF_vars(Runs(t)) /\ SF_vars(Lock(t))

-----------------------------------------------------------------------------
(* Properties. *)

(***************************************************************************)
(* The file tells the events of a process in the order in which its stdout *)
(* does, through failed writes, reopening, rotation and restarts, although *)
(* the goroutines of a drain attempt and of the loop log at once           *)
(* (log.go:24, "Safe for concurrent use").  A line that was written when   *)
(* its process was killed may miss on stdout; none is written twice.       *)
(***************************************************************************)
Printed(p) == {stdout[p][i] : i \in DOMAIN stdout[p]}

Files == old \o current

FileInOrder ==
    /\ \A i, j \in DOMAIN Files : Files[i] = Files[j] => i = j
    /\ \A p \in Processes : \A i, j \in DOMAIN Files, k, l \in DOMAIN stdout[p] :
         Files[i] = stdout[p][k] /\ Files[j] = stdout[p][l] => (i < j <=> k < l)

(***************************************************************************)
(* The mutex of a process excludes, and is never left behind: it is held   *)
(* by one goroutine, which is inside of Log, on every way out of a failed  *)
(* write, close and reopening (log.go:79 and 80, the deferred Unlock).     *)
(***************************************************************************)
InOpen(t) == pc[t] \in {"stat", "rename", "open"}
Inside(t) == pc[t] \in {"write", "again", "print"} \/ InOpen(t)

HolderRuns ==
    \A p \in Processes : holder[p] # {} =>
        \E t \in Threads : ProcessOf(t) = p /\ holder[p] = {t} /\ Inside(t)

(***************************************************************************)
(* What RotateBytes' comment says (log.go:20 and 21): "past it the log     *)
(* rotates to <name>.1 (one generation kept), never truncated, so history  *)
(* survives".  The generation kept is given up only for one that is past   *)
(* the threshold.                                                          *)
(***************************************************************************)
RotationKeepsHistory ==
    [][old' # old => IsPrefix(old, old') \/ Len(old') > RotateLines]_vars

(***************************************************************************)
(* A call of Log returns and has printed its line, or its process ends:    *)
(* a volume that breaks at any point of the write and of the reopening     *)
(* stops neither the call nor those that wait for the mutex (log.go:33,    *)
(* "A broken file side never fails the daemon; stdout always works").      *)
(***************************************************************************)
LogReturns ==
    \A t \in Threads : pc[t] = "lock" ~>
        handle[ProcessOf(t)] = "down" \/ line[t] \in Printed(ProcessOf(t))
=============================================================================
