---------------------------- MODULE EventLogProof ----------------------------
(***************************************************************************)
(* Proofs about EventLog for any number of processes and goroutines, every *)
(* threshold and any number of lines, on a volume that may fail or not.    *)
(***************************************************************************)
EXTENDS EventLog, SequenceTheorems, TLAPS

(* A call of Log that has its line and has not returned. *)
Active(t) == pc[t] # "idle" /\ line[t] # 0

(***************************************************************************)
(* The mutex.  A call between its Lock and its Unlock holds it; newLogger  *)
(* runs alone in its process; a process that is down runs nothing.         *)
(***************************************************************************)
Mutex ==
    /\ \A t \in Threads : Inside(t) /\ line[t] # 0 => holder[ProcessOf(t)] = {t}
    /\ \A t \in Threads : pc[t] \in {"lock", "write", "again", "print"} => line[t] # 0
    /\ \A t \in Threads : InOpen(t) /\ line[t] = 0 =>
         /\ handle[ProcessOf(t)] = "opening" /\ holder[ProcessOf(t)] = {}
         /\ \A u \in Threads : ProcessOf(u) = ProcessOf(t) /\ u # t => pc[u] = "idle"
    /\ \A t \in Threads : handle[ProcessOf(t)] = "down" => pc[t] = "idle"
    /\ \A p \in Processes : handle[p] = "down" => holder[p] = {}

-----------------------------------------------------------------------------
(* Relations between sequences of lines. *)

Has(f, l) == \E i \in DOMAIN f : f[i] = l
Distinct(f) == \A i, j \in DOMAIN f : f[i] = f[j] => i = j
Disjoint(f, g) == \A i \in DOMAIN f : ~Has(g, f[i])

(* f tells the lines that s has too in the order in which s does. *)
Aligned(f, s) ==
    \A i, j \in DOMAIN f, k, l \in DOMAIN s :
        f[i] = s[k] /\ f[j] = s[l] => (i < j <=> k < l)

(* What f has of s comes in s before what g has of it. *)
Before(f, g, s) ==
    \A i \in DOMAIN f, j \in DOMAIN g, k, l \in DOMAIN s :
        f[i] = s[k] /\ g[j] = s[l] => k < l

(* In f, l comes after all that s has. *)
Latest(f, l, s) ==
    \A i, j \in DOMAIN f, k \in DOMAIN s : f[i] = l /\ f[j] = s[k] => j < i

(* The lines themselves: each is given once, and counted. *)
Counted ==
    /\ \A l \in Line : Has(current, l) \/ Has(old, l) => l <= count
    /\ \A l \in Line, p \in Processes : Has(stdout[p], l) => l <= count
    /\ \A t \in Threads : line[t] <= count

Fresh ==
    /\ \A t \in Threads, p \in Processes : Active(t) => ~Has(stdout[p], line[t])
    /\ \A t, u \in Threads : Active(t) /\ Active(u) /\ line[t] = line[u] => t = u
    /\ \A t \in Threads : Active(t) /\ pc[t] # "print" => ~Has(current, line[t]) /\ ~Has(old, line[t])

(* The two files against each other and against what was printed. *)
Ordered ==
    /\ Distinct(current) /\ Distinct(old) /\ Disjoint(old, current)
    /\ \A p \in Processes :
         Aligned(current, stdout[p]) /\ Aligned(old, stdout[p]) /\ Before(old, current, stdout[p])

(* The line a call has written and is about to print. *)
Due ==
    \A t \in Threads : pc[t] = "print" =>
        LET s == stdout[ProcessOf(t)]
        IN  /\ Latest(current, line[t], s) /\ Latest(old, line[t], s)
            /\ Has(old, line[t]) => Disjoint(s, current)

(* A process that still writes the older generation has nothing in the newer. *)
Behind ==
    \A p \in Processes : handle[p] = "old" =>
        /\ Disjoint(stdout[p], current)
        /\ \A t \in Threads : ProcessOf(t) = p /\ Active(t) => ~Has(current, line[t])

LineInv == Counted /\ Fresh /\ Ordered /\ Due /\ Behind

-----------------------------------------------------------------------------
(* Types and the mutex. *)

LEMMA ProcessType == \A t \in Threads : ProcessOf(t) \in Processes
  BY DEF Threads, ProcessOf

LEMMA LineType == \A l \in 0 .. MaxLines : l # 0 => l \in Line
  BY LinesAssumption DEF Line

LEMMA LogInit == Init => TypeOK /\ Mutex /\ HolderRuns
<1> SUFFICES ASSUME Init PROVE TypeOK /\ Mutex /\ HolderRuns
  OBVIOUS
<1> USE DEF Init
<1>1. TypeOK
  <2>1. current \in Seq(Line)
    BY EarlierAssumption, LinesAssumption DEF Line
  <2>5. old \in Seq(Line) /\ stdout \in [Processes -> Seq(Line)]
    BY EmptySeq
  <2>2. handle \in [Processes -> Handles] /\ pc \in [Threads -> Labels]
    BY DEF Handles, Labels
  <2>3. line \in [Threads -> 0 .. MaxLines] /\ count \in 0 .. MaxLines
    BY LinesAssumption, EarlierAssumption
  <2>4. holder \in [Processes -> SUBSET Threads]
    OBVIOUS
  <2> QED BY <2>1, <2>2, <2>3, <2>4, <2>5 DEF TypeOK
<1>2. Mutex
  BY ProcessType DEF Mutex, Inside, InOpen
<1>3. HolderRuns
  BY DEF HolderRuns
<1> QED BY <1>1, <1>2, <1>3

(* A write puts a line of the log at the end of a file, or nowhere. *)
LEMMA WrittenType ==
    ASSUME current \in Seq(Line), old \in Seq(Line), NEW h, NEW l \in Line, Written(h, l)
    PROVE  current' \in Seq(Line) /\ old' \in Seq(Line)
  BY DEF Written

LEMMA StepType ==
    ASSUME TypeOK, Mutex, [Next]_vars
    PROVE  TypeOK'
<1> USE DEF TypeOK, Handles, Labels, Goto, Handle
<1>1. ASSUME NEW t \in Threads, Start(t) PROVE TypeOK'
  BY <1>1, ProcessType, LinesAssumption DEF Start, files
<1>2. ASSUME NEW t \in Threads, Log(t) PROVE TypeOK'
  BY <1>2, ProcessType, LinesAssumption DEF Log, files
<1>3. ASSUME NEW t \in Threads, Lock(t) PROVE TypeOK'
  <2>1. holder[ProcessOf(t)] \cup {t} = {t}
    BY <1>3 DEF Lock, Free
  <2> QED BY <1>3, <2>1, ProcessType DEF Lock, files
<1>4. ASSUME NEW t \in Threads, StatFile(t) PROVE TypeOK'
  BY <1>4, ProcessType DEF StatFile, AfterOpen, files
<1>5. ASSUME NEW t \in Threads, Rename(t) PROVE TypeOK'
  <2>1. handle' \in [Processes -> Handles]
    BY <1>5 DEF Rename, Moved
  <2>2. current' \in Seq(Line) /\ old' \in Seq(Line) /\ exists' \in BOOLEAN
    BY <1>5, EmptySeq DEF Rename, files
  <2> QED BY <1>5, <2>1, <2>2 DEF Rename
<1>6. ASSUME NEW t \in Threads, Open(t) PROVE TypeOK'
  BY <1>6, ProcessType DEF Open, AfterOpen
<1>7. ASSUME NEW t \in Threads, Write(t) PROVE TypeOK'
  <2>1. line[t] \in Line
    BY <1>7, LineType DEF Write, Mutex
  <2>2. exists' \in BOOLEAN /\ current' \in Seq(Line) /\ old' \in Seq(Line)
    BY <1>7, <2>1, WrittenType DEF Write, files, Written
  <2> QED BY <1>7, <2>2, ProcessType DEF Write
<1>8. ASSUME NEW t \in Threads, WriteAgain(t) PROVE TypeOK'
  <2>1. line[t] \in Line
    BY <1>8, LineType DEF WriteAgain, Mutex
  <2>2. exists' \in BOOLEAN /\ current' \in Seq(Line) /\ old' \in Seq(Line)
    BY <1>8, <2>1, WrittenType DEF WriteAgain, files, Written
  <2> QED BY <1>8, <2>2 DEF WriteAgain
<1>9. ASSUME NEW t \in Threads, PrintLine(t) PROVE TypeOK'
  <2>1. line[t] \in Line
    BY <1>9, LineType DEF PrintLine, Mutex
  <2>2. stdout' \in [Processes -> Seq(Line)]
    BY <1>9, <2>1, ProcessType DEF PrintLine
  <2>3. holder[ProcessOf(t)] \ {t} = {}
    BY <1>9 DEF PrintLine, Mutex, Inside
  <2> QED BY <1>9, <2>2, <2>3, ProcessType DEF PrintLine, files
<1>10. ASSUME NEW p \in Processes, Stop(p) PROVE TypeOK'
  BY <1>10 DEF Stop, files
<1>11. CASE VolumeChanges
  BY <1>11 DEF VolumeChanges, files
<1>12. CASE UNCHANGED vars
  BY <1>12 DEF vars
<1> QED
  BY <1>1, <1>2, <1>3, <1>4, <1>5, <1>6, <1>7, <1>8, <1>9, <1>10, <1>11, <1>12 DEF Next, Runs

(* A thread inside the mutex, or inside newLogger, goes from label to label. *)
LEMMA MovesInside ==
    ASSUME TypeOK, Mutex, HolderRuns, NEW t \in Threads, Inside(t), NEW label \in Labels,
           label \in {"write", "again", "print", "stat", "rename", "open"},
           line[t] = 0 => label \in {"stat", "rename", "open"} /\ handle'[ProcessOf(t)] = "opening",
           Goto(t, label), UNCHANGED <<line, holder>>,
           \A p \in Processes : handle[p] = "opening" /\ p # ProcessOf(t) => handle'[p] = "opening",
           \A p \in Processes : handle'[p] = "down" => handle[p] = "down"
    PROVE  Mutex' /\ HolderRuns'
<1> USE ProcessType DEF TypeOK, Goto
<1>1. pc'[t] = label /\ \A u \in Threads : u # t => pc'[u] = pc[u]
  OBVIOUS
<1>2. handle[ProcessOf(t)] # "down"
  BY DEF Mutex, Inside, InOpen
<1>3. \A u \in Threads : Inside(u)' /\ line'[u] # 0 => holder'[ProcessOf(u)] = {u}
  BY <1>1 DEF Mutex, Inside, InOpen
<1>4. \A u \in Threads : pc'[u] \in {"lock", "write", "again", "print"} => line'[u] # 0
  BY <1>1 DEF Mutex
<1>5. ASSUME NEW u \in Threads, InOpen(u)', line'[u] = 0
      PROVE  /\ handle'[ProcessOf(u)] = "opening" /\ holder'[ProcessOf(u)] = {}
             /\ \A v \in Threads : ProcessOf(v) = ProcessOf(u) /\ v # u => pc'[v] = "idle"
  <2>1. CASE u = t
    <3>1. InOpen(t)
      BY <1>5, <2>1 DEF Mutex, Inside
    <3> QED BY <1>1, <1>5, <2>1, <3>1 DEF Mutex
  <2>2. CASE u # t
    <3>1. InOpen(u) /\ line[u] = 0
      BY <1>1, <1>5, <2>2 DEF InOpen
    <3>2. ProcessOf(u) # ProcessOf(t)
      BY <2>2, <3>1 DEF Mutex, Inside, InOpen
    <3> QED BY <1>1, <3>1, <3>2 DEF Mutex
  <2> QED BY <2>1, <2>2
<1>6. \A u \in Threads : handle'[ProcessOf(u)] = "down" => pc'[u] = "idle"
  BY <1>1, <1>2 DEF Mutex
<1>7. \A p \in Processes : handle'[p] = "down" => holder'[p] = {}
  BY DEF Mutex
<1>8. \A u \in Threads : Inside(u) => Inside(u)'
  BY <1>1 DEF Inside, InOpen
<1>9. HolderRuns'
  BY <1>8 DEF HolderRuns
<1> QED BY <1>3, <1>4, <1>5, <1>6, <1>7, <1>9 DEF Mutex

(* open() ends in newLogger: the process has its Logger. *)
LEMMA OpenEnds ==
    ASSUME TypeOK, Mutex, HolderRuns, NEW t \in Threads, InOpen(t), line[t] = 0,
           NEW h \in {"current", "none"},
           Goto(t, "idle"), Handle(t, h), UNCHANGED <<line, holder>>
    PROVE  Mutex' /\ HolderRuns'
<1> USE ProcessType DEF TypeOK, Goto, Handle
<1>1. \A u \in Threads : pc'[u] = IF u = t THEN "idle" ELSE pc[u]
  OBVIOUS
<1>2. \A p \in Processes : handle'[p] = IF p = ProcessOf(t) THEN h ELSE handle[p]
  OBVIOUS
<1>3. \A u \in Threads : ProcessOf(u) = ProcessOf(t) => pc'[u] = "idle"
  BY <1>1 DEF Mutex
<1>4. Mutex'
  BY <1>1, <1>2, <1>3 DEF Mutex, Inside, InOpen
<1>5. HolderRuns'
  <2>1. \A u \in Threads : Inside(u) /\ u # t => Inside(u)'
    BY <1>1 DEF Inside, InOpen
  <2>2. holder[ProcessOf(t)] = {}
    BY DEF Mutex
  <2> QED BY <2>1, <2>2 DEF HolderRuns
<1> QED BY <1>4, <1>5

LEMMA AfterOpenMutex ==
    ASSUME TypeOK, Mutex, HolderRuns, NEW t \in Threads, InOpen(t),
           NEW opened \in BOOLEAN, AfterOpen(t, opened), UNCHANGED line
    PROVE  Mutex' /\ HolderRuns'
<1>1. CASE line[t] = 0
  BY <1>1, OpenEnds DEF AfterOpen
<1>2. CASE line[t] # 0
  <2>1. Inside(t)
    BY DEF Inside
  <2>2. PICK label \in {"again", "print"} : Goto(t, label)
    BY <1>2 DEF AfterOpen
  <2>3. \A p \in Processes : p # ProcessOf(t) => handle'[p] = handle[p]
    BY <1>2, ProcessType DEF AfterOpen, Handle, TypeOK
  <2>4. handle'[ProcessOf(t)] = "down" => handle[ProcessOf(t)] = "down"
    BY <1>2, ProcessType DEF AfterOpen, Handle, TypeOK
  <2> QED BY <1>2, <2>1, <2>2, <2>3, <2>4, MovesInside DEF AfterOpen, Labels
<1> QED BY <1>1, <1>2

LEMMA StepMutex ==
    ASSUME TypeOK, Mutex, HolderRuns, [Next]_vars
    PROVE  Mutex' /\ HolderRuns'
<1> USE ProcessType DEF TypeOK
<1>1. ASSUME NEW t \in Threads, Start(t) PROVE Mutex' /\ HolderRuns'
  <2> USE <1>1 DEF Start, Goto, Handle
  <2>1. \A u \in Threads : pc'[u] = IF u = t THEN "stat" ELSE pc[u]
    OBVIOUS
  <2>2. Mutex'
    BY <2>1 DEF Mutex, Inside, InOpen
  <2>3. HolderRuns'
    BY <2>1 DEF Mutex, HolderRuns, Inside, InOpen
  <2> QED BY <2>2, <2>3
<1>2. ASSUME NEW t \in Threads, Log(t) PROVE Mutex' /\ HolderRuns'
  <2> USE <1>2 DEF Log, Goto
  <2>1. \A u \in Threads : pc'[u] = IF u = t THEN "lock" ELSE pc[u]
    OBVIOUS
  <2>2. line'[t] # 0 /\ \A u \in Threads : u # t => line'[u] = line[u]
    OBVIOUS
  <2>3. Mutex'
    BY <2>1, <2>2 DEF Mutex, Inside, InOpen
  <2>4. HolderRuns'
    BY <2>1 DEF HolderRuns, Inside, InOpen
  <2> QED BY <2>3, <2>4
<1>3. ASSUME NEW t \in Threads, Lock(t) PROVE Mutex' /\ HolderRuns'
  <2> USE <1>3 DEF Lock, Goto, Free
  <2>1. pc'[t] \in {"print", "write"} /\ \A u \in Threads : u # t => pc'[u] = pc[u]
    OBVIOUS
  <2>2. /\ holder'[ProcessOf(t)] = {t}
        /\ \A p \in Processes : p # ProcessOf(t) => holder'[p] = holder[p]
    OBVIOUS
  <2>3. \A u \in Threads : ProcessOf(u) = ProcessOf(t) => ~(Inside(u) /\ line[u] # 0)
    BY DEF Mutex
  <2>4. \A u \in Threads : ProcessOf(u) = ProcessOf(t) => ~(InOpen(u) /\ line[u] = 0)
    BY DEF Mutex, InOpen
  <2>5. Mutex'
    BY <2>1, <2>2, <2>3, <2>4 DEF Mutex, Inside, InOpen
  <2>6. HolderRuns'
    BY <2>1, <2>2 DEF HolderRuns, Inside, InOpen
  <2> QED BY <2>5, <2>6
<1>4. ASSUME NEW t \in Threads, StatFile(t) PROVE Mutex' /\ HolderRuns'
  <2> USE <1>4 DEF StatFile
  <2>1. CASE UNCHANGED <<handle, holder>> /\ \E label \in {"rename", "open"} : Goto(t, label)
    BY <2>1, MovesInside DEF Inside, InOpen, Labels, Mutex
  <2>2. CASE AfterOpen(t, FALSE)
    BY <2>2, AfterOpenMutex DEF InOpen
  <2> QED BY <2>1, <2>2
<1>5. ASSUME NEW t \in Threads, Rename(t) PROVE Mutex' /\ HolderRuns'
  <2> USE <1>5 DEF Rename
  <2>1. \A p \in Processes : handle'[p] = handle[p] \/ handle'[p] = Moved(handle[p])
    OBVIOUS
  <2>2. \A p \in Processes : /\ handle[p] = "opening" => handle'[p] = "opening"
                             /\ handle'[p] = "down" => handle[p] = "down"
    BY <2>1 DEF Moved
  <2> QED BY <2>2, MovesInside DEF Inside, InOpen, Labels, Mutex
<1>6. ASSUME NEW t \in Threads, Open(t) PROVE Mutex' /\ HolderRuns'
  BY <1>6, AfterOpenMutex DEF Open, InOpen
<1>7. ASSUME NEW t \in Threads, Write(t) PROVE Mutex' /\ HolderRuns'
  <2> USE <1>7 DEF Write
  <2>1. PICK label \in {"print", "stat"} : Goto(t, label)
    OBVIOUS
  <2>2. line[t] # 0
    BY DEF Mutex
  <2>3. \A p \in Processes : handle'[p] = handle[p] \/ (p = ProcessOf(t) /\ handle'[p] = "closed")
    BY DEF Handle
  <2> QED BY <2>1, <2>2, <2>3, MovesInside DEF Inside, Labels
<1>8. ASSUME NEW t \in Threads, WriteAgain(t) PROVE Mutex' /\ HolderRuns'
  BY <1>8, MovesInside DEF WriteAgain, Mutex, Inside, Labels
<1>9. ASSUME NEW t \in Threads, PrintLine(t) PROVE Mutex' /\ HolderRuns'
  <2> USE <1>9 DEF PrintLine, Goto
  <2>1. \A u \in Threads : pc'[u] = IF u = t THEN "idle" ELSE pc[u]
    OBVIOUS
  <2>2. holder[ProcessOf(t)] = {t}
    BY DEF Mutex, Inside
  <2>3. /\ holder'[ProcessOf(t)] = {}
        /\ \A p \in Processes : p # ProcessOf(t) => holder'[p] = holder[p]
    BY <2>2
  <2>4. \A u \in Threads : ProcessOf(u) = ProcessOf(t) /\ u # t => ~(Inside(u) /\ line[u] # 0)
    BY <2>2 DEF Mutex
  <2>5. Mutex'
    BY <2>1, <2>3, <2>4 DEF Mutex, Inside, InOpen
  <2>6. ASSUME NEW p \in Processes, holder'[p] # {}
        PROVE  \E u \in Threads : ProcessOf(u) = p /\ holder'[p] = {u} /\ Inside(u)'
    <3>1. p # ProcessOf(t) /\ holder[p] # {}
      BY <2>3, <2>6
    <3>2. PICK u \in Threads : ProcessOf(u) = p /\ holder[p] = {u} /\ Inside(u)
      BY <3>1 DEF HolderRuns
    <3>3. pc'[u] = pc[u]
      BY <2>1, <3>1, <3>2
    <3> QED BY <2>3, <3>1, <3>2, <3>3 DEF Inside, InOpen
  <2> QED BY <2>5, <2>6 DEF HolderRuns
<1>10. ASSUME NEW p \in Processes, Stop(p) PROVE Mutex' /\ HolderRuns'
  <2> USE <1>10 DEF Stop
  <2>1. \A u \in Threads : pc'[u] = IF ProcessOf(u) = p THEN "idle" ELSE pc[u]
    OBVIOUS
  <2>2. \A q \in Processes : /\ handle'[q] = IF q = p THEN "down" ELSE handle[q]
                             /\ holder'[q] = IF q = p THEN {} ELSE holder[q]
    OBVIOUS
  <2>3. Mutex'
    BY <2>1, <2>2 DEF Mutex, Inside, InOpen
  <2>4. HolderRuns'
    BY <2>1, <2>2 DEF HolderRuns, Inside, InOpen
  <2> QED BY <2>3, <2>4
<1>11. CASE UNCHANGED <<handle, holder, pc, line>>
  BY <1>11 DEF Mutex, HolderRuns, Inside, InOpen
<1> QED
  BY <1>1, <1>2, <1>3, <1>4, <1>5, <1>6, <1>7, <1>8, <1>9, <1>10, <1>11
  DEF Next, Runs, VolumeChanges, vars

-----------------------------------------------------------------------------
(* What a line at the end of a sequence does to its relations. *)

LEMMA Appended ==
    ASSUME NEW f \in Seq(Line), NEW l \in Line
    PROVE  LET g == Append(f, l)
               n == Len(f) + 1
           IN  /\ DOMAIN g = DOMAIN f \cup {n} /\ n \notin DOMAIN f
               /\ g[n] = l
               /\ \A i \in DOMAIN f : g[i] = f[i] /\ i \in Nat /\ i < n
               /\ n \in Nat
  BY AppendProperties, LenProperties

LEMMA HasAppended ==
    ASSUME NEW f \in Seq(Line), NEW l \in Line, NEW k
    PROVE  Has(Append(f, l), k) <=> Has(f, k) \/ k = l
<1> DEFINE g == Append(f, l)
           n == Len(f) + 1
<1>1. /\ DOMAIN g = DOMAIN f \cup {n}
      /\ g[n] = l
      /\ \A i \in DOMAIN f : g[i] = f[i]
  BY Appended
<1> HIDE DEF g, n
<1>2. Has(g, k) <=> Has(f, k) \/ k = l
  BY <1>1 DEF Has
<1> QED BY <1>2 DEF g

(* A line that was not in the file is written. *)
LEMMA FileAppended ==
    ASSUME NEW f \in Seq(Line), NEW l \in Line, ~Has(f, l), Distinct(f)
    PROVE  /\ Distinct(Append(f, l))
           /\ \A s : ~Has(s, l) =>
                 /\ Aligned(f, s) => Aligned(Append(f, l), s)
                 /\ Latest(Append(f, l), l, s)
<1> DEFINE g == Append(f, l)
           n == Len(f) + 1
<1>1. /\ DOMAIN g = DOMAIN f \cup {n} /\ n \notin DOMAIN f
      /\ g[n] = l
      /\ \A i \in DOMAIN f : g[i] = f[i] /\ i \in Nat /\ i < n
      /\ n \in Nat
  BY Appended
<1> HIDE DEF g, n
<1>2. \A i \in DOMAIN f : g[i] # l
  BY <1>1 DEF Has
<1>3. Distinct(g)
  BY <1>1, <1>2 DEF Distinct
<1>4. ASSUME NEW s, ~Has(s, l), Aligned(f, s) PROVE Aligned(g, s)
  BY <1>1, <1>4 DEF Aligned, Has
<1>5. ASSUME NEW s, ~Has(s, l) PROVE Latest(g, l, s)
  BY <1>1, <1>2, <1>5 DEF Latest, Has
<1> QED BY <1>3, <1>4, <1>5 DEF g

(* A line that is the latest of a file is printed. *)
LEMMA OutputAppended ==
    ASSUME NEW f, DOMAIN f \subseteq Nat, NEW s \in Seq(Line), NEW l \in Line, ~Has(s, l),
           Distinct(f), Aligned(f, s), Latest(f, l, s)
    PROVE  Aligned(f, Append(s, l))
<1> DEFINE g == Append(s, l)
           n == Len(s) + 1
<1>1. /\ DOMAIN g = DOMAIN s \cup {n} /\ n \notin DOMAIN s
      /\ g[n] = l
      /\ \A i \in DOMAIN s : g[i] = s[i] /\ i \in Nat /\ i < n
      /\ n \in Nat
  BY Appended
<1> HIDE DEF g, n
<1>2. ASSUME NEW i \in DOMAIN f, NEW j \in DOMAIN f, NEW k \in DOMAIN g, NEW m \in DOMAIN g,
             f[i] = g[k], f[j] = g[m]
      PROVE  i < j <=> k < m
  <2>1. CASE k \in DOMAIN s /\ m \in DOMAIN s
    BY <1>1, <1>2, <2>1 DEF Aligned
  <2>2. CASE k = n /\ m \in DOMAIN s
    <3>1. j < i
      BY <1>1, <1>2, <2>2 DEF Latest
    <3> QED BY <1>1, <2>2, <3>1
  <2>3. CASE k \in DOMAIN s /\ m = n
    <3>1. i < j
      BY <1>1, <1>2, <2>3 DEF Latest
    <3> QED BY <1>1, <2>3, <3>1
  <2>4. CASE k = n /\ m = n
    <3>1. i = j
      BY <1>2, <2>4 DEF Distinct
    <3> QED BY <1>1, <2>4, <3>1
  <2> QED BY <1>1, <2>1, <2>2, <2>3, <2>4
<1>3. Aligned(f, g)
  BY <1>2 DEF Aligned
<1> QED BY <1>3 DEF g

LEMMA BeforeAppended ==
    ASSUME NEW f, NEW h, NEW s \in Seq(Line), NEW l \in Line,
           Before(f, h, s), Disjoint(f, h), Has(f, l) => Disjoint(s, h)
    PROVE  Before(f, h, Append(s, l))
<1> DEFINE g == Append(s, l)
           n == Len(s) + 1
<1>1. /\ DOMAIN g = DOMAIN s \cup {n} /\ n \notin DOMAIN s
      /\ g[n] = l
      /\ \A i \in DOMAIN s : g[i] = s[i] /\ i \in Nat /\ i < n
      /\ n \in Nat
  BY Appended
<1> HIDE DEF g, n
<1>2. ASSUME NEW i \in DOMAIN f, NEW j \in DOMAIN h, NEW k \in DOMAIN g, NEW m \in DOMAIN g,
             f[i] = g[k], h[j] = g[m]
      PROVE  k < m
  <2>1. CASE k \in DOMAIN s /\ m \in DOMAIN s
    BY <1>1, <1>2, <2>1 DEF Before
  <2>2. CASE k = n /\ m \in DOMAIN s
    BY <1>1, <1>2, <2>2 DEF Has, Disjoint
  <2>3. CASE k \in DOMAIN s /\ m = n
    BY <1>1, <2>3
  <2>4. CASE k = n /\ m = n
    BY <1>2, <2>4 DEF Has, Disjoint
  <2> QED BY <1>1, <2>1, <2>2, <2>3, <2>4
<1>3. Before(f, h, g)
  BY <1>2 DEF Before
<1> QED BY <1>3 DEF g

-----------------------------------------------------------------------------
(* The order of the lines, by what a step does to them. *)

LEMMA LineInit == Init => LineInv
<1> SUFFICES ASSUME Init PROVE LineInv
  OBVIOUS
<1>1. /\ DOMAIN current = 1 .. Earlier /\ \A i \in 1 .. Earlier : current[i] = i
      /\ DOMAIN old = {} /\ \A q \in Processes : stdout[q] = <<>> /\ DOMAIN stdout[q] = {}
  BY DEF Init
<1>2. Counted
  BY <1>1, LinesAssumption, EarlierAssumption DEF Init, Counted, Has
<1>3. Ordered
  BY <1>1 DEF Ordered, Distinct, Disjoint, Aligned, Before
<1>4. Fresh /\ Due /\ Behind
  BY DEF Init, Fresh, Due, Behind, Active
<1> QED BY <1>2, <1>3, <1>4 DEF LineInv

(* Nothing is written or printed; calls go on, end or are cut off. *)
LEMMA QuietStep ==
    ASSUME TypeOK, Mutex, LineInv, TypeOK', UNCHANGED <<current, old, stdout, count>>,
           \A t \in Threads : line'[t] \in {0, line[t]},
           \A t \in Threads : Active(t)' => Active(t) /\ line'[t] = line[t],
           \A t \in Threads : pc'[t] = "print" => Active(t)',
           \A t \in Threads : pc[t] = "print" => pc'[t] \in {"print", "idle"},
           \A p \in Processes : handle'[p] = "old" => handle[p] = "old"
    PROVE  LineInv'
<1>1. Counted'
  <2>1. 0 <= count
    BY LinesAssumption DEF TypeOK
  <2>2. \A t \in Threads : line'[t] <= count
    BY <2>1 DEF LineInv, Counted
  <2> QED BY <2>2 DEF LineInv, Counted
<1>2. Fresh'
  <2>1. \A t \in Threads : pc'[t] # "print" /\ Active(t)' => pc[t] # "print"
    BY DEF Active
  <2> QED BY <2>1 DEF LineInv, Fresh
<1>3. Ordered'
  BY DEF LineInv, Ordered
<1>4. ASSUME NEW t \in Threads, pc'[t] = "print"
      PROVE  LET s == stdout'[ProcessOf(t)]
             IN  /\ Latest(current', line'[t], s) /\ Latest(old', line'[t], s)
                 /\ Has(old', line'[t]) => Disjoint(s, current')
  <2>1. Active(t) /\ line'[t] = line[t]
    BY <1>4
  <2>2. CASE pc[t] = "print"
    BY <2>1, <2>2 DEF LineInv, Due
  <2>3. CASE pc[t] # "print"
    <3>1. ~Has(current, line[t]) /\ ~Has(old, line[t])
      BY <2>1, <2>3 DEF LineInv, Fresh
    <3> QED BY <2>1, <3>1 DEF Latest, Has
  <2> QED BY <2>2, <2>3
<1>5. Due'
  BY <1>4 DEF Due
<1>6. Behind'
  BY DEF LineInv, Behind
<1> QED BY <1>1, <1>2, <1>3, <1>5, <1>6 DEF LineInv

(* A call begins: its line is a new one. *)
LEMMA LogStep ==
    ASSUME TypeOK, LineInv, NEW t \in Threads, Log(t)
    PROVE  LineInv'
<1> USE DEF Log, Goto, files, TypeOK, LineInv
<1>1. count + 1 \in Line /\ count + 1 # 0 /\ \A l \in 0 .. MaxLines : l <= count => l # count + 1
  BY LinesAssumption DEF Line
<1>2. /\ line'[t] = count + 1 /\ pc'[t] = "lock"
      /\ \A u \in Threads : u # t => line'[u] = line[u] /\ pc'[u] = pc[u]
  OBVIOUS
<1>3. /\ ~Has(current, count + 1) /\ ~Has(old, count + 1)
      /\ \A p \in Processes : ~Has(stdout[p], count + 1)
  BY <1>1 DEF Counted
<1>4. \A u \in Threads : line[u] # count + 1
  BY <1>1 DEF Counted
<1>5. Counted'
  <2>1. \A l \in Line : l <= count => l <= count'
    BY DEF Line
  <2>2. \A u \in Threads : line'[u] <= count'
    BY <1>2 DEF Counted
  <2> QED BY <2>1, <2>2 DEF Counted
<1>6. Fresh'
  <2>1. \A u \in Threads : u # t => (Active(u)' <=> Active(u))
    BY <1>2 DEF Active
  <2>2. \A u \in Threads, p \in Processes : Active(u)' => ~Has(stdout'[p], line'[u])
    BY <1>2, <1>3, <2>1 DEF Fresh
  <2>3. \A u, v \in Threads : Active(u)' /\ Active(v)' /\ line'[u] = line'[v] => u = v
    BY <1>2, <1>4, <2>1 DEF Fresh
  <2>4. \A u \in Threads : Active(u)' /\ pc'[u] # "print" =>
            ~Has(current', line'[u]) /\ ~Has(old', line'[u])
    BY <1>2, <1>3, <2>1 DEF Fresh
  <2> QED BY <2>2, <2>3, <2>4 DEF Fresh
<1>7. Ordered'
  BY DEF Ordered
<1>8. Due'
  BY <1>2 DEF Due
<1>9. Behind'
  <2>1. \A u \in Threads : u # t => (Active(u)' <=> Active(u))
    BY <1>2 DEF Active
  <2> QED BY <1>2, <1>3, <2>1 DEF Behind
<1> QED BY <1>5, <1>6, <1>7, <1>8, <1>9

(* A call writes its line and has still to print it. *)
LEMMA WriteStep ==
    ASSUME TypeOK, Mutex, LineInv, NEW t \in Threads, pc[t] \in {"write", "again"},
           Written(handle[ProcessOf(t)], line[t]), Goto(t, "print"),
           UNCHANGED <<stdout, handle, line, count>>
    PROVE  LineInv'
<1> DEFINE l == line[t]
           h == handle[ProcessOf(t)]
<1> USE ProcessType DEF LineInv
<1>1. l \in Line /\ Active(t) /\ l <= count
  BY LineType DEF Mutex, Active, TypeOK, Counted
<1>2. ~Has(current, l) /\ ~Has(old, l) /\ \A p \in Processes : ~Has(stdout[p], l)
  BY <1>1 DEF Fresh
<1>3. \A u \in Threads : Active(u) /\ u # t => line[u] # l
  BY <1>1 DEF Fresh
<1>4. \A u \in Threads : (Active(u)' <=> Active(u)) /\ (u # t => pc'[u] = pc[u]) /\ pc'[t] = "print"
  BY <1>1 DEF Active, Goto, TypeOK
<1>5. current \in Seq(Line) /\ old \in Seq(Line)
  BY DEF TypeOK
<1>6. \A k : /\ Has(current', k) <=> Has(current, k) \/ (h = "current" /\ k = l)
             /\ Has(old', k) <=> Has(old, k) \/ (h = "old" /\ k = l)
  BY <1>1, <1>5, HasAppended DEF Written
<1>7. Counted'
  BY <1>1, <1>6 DEF Counted
<1>8. Fresh'
  BY <1>1, <1>2, <1>3, <1>4, <1>6 DEF Fresh
<1>9. Distinct(current') /\ Distinct(old')
  BY <1>1, <1>2, <1>5, FileAppended DEF Written, Ordered
<1>10. Disjoint(old', current')
  <2>1. Disjoint(old, current')
    BY <1>2, <1>6 DEF Disjoint, Has, Ordered
  <2>2. CASE h = "old"
    <3>1. \A k : Has(old', k) => ~Has(current, k)
      BY <1>2, <1>6, <2>2 DEF Disjoint, Has, Ordered
    <3> QED BY <1>6, <2>2, <3>1 DEF Disjoint, Has
  <2>3. CASE h # "old"
    BY <2>1, <2>3 DEF Written
  <2> QED BY <2>2, <2>3
<1>11. ASSUME NEW p \in Processes PROVE Aligned(current', stdout[p]) /\ Aligned(old', stdout[p])
  BY <1>1, <1>2, <1>5, FileAppended DEF Written, Ordered
<1>12. ASSUME NEW p \in Processes PROVE Before(old', current', stdout[p])
  <2>1. Before(old, current, stdout[p]) /\ ~Has(stdout[p], l)
    BY <1>2 DEF Ordered
  <2>2. \A i \in DOMAIN old' : (i \in DOMAIN old /\ old'[i] = old[i]) \/ old'[i] = l
    BY <1>1, <1>5, Appended DEF Written
  <2>3. \A i \in DOMAIN current' : (i \in DOMAIN current /\ current'[i] = current[i]) \/ current'[i] = l
    BY <1>1, <1>5, Appended DEF Written
  <2> QED BY <2>1, <2>2, <2>3 DEF Before, Has
<1>13. Ordered'
  BY <1>9, <1>10, <1>11, <1>12 DEF Ordered
<1>14. ASSUME NEW u \in Threads, pc'[u] = "print"
       PROVE  LET s == stdout'[ProcessOf(u)]
              IN  /\ Latest(current', line'[u], s) /\ Latest(old', line'[u], s)
                  /\ Has(old', line'[u]) => Disjoint(s, current')
  <2>1. CASE u = t
    <3>1. Latest(current', l, stdout[ProcessOf(t)]) /\ Latest(old', l, stdout[ProcessOf(t)])
      <4>1. \A f : ~Has(f, l) => Latest(f, l, stdout[ProcessOf(t)])
        BY DEF Latest, Has
      <4> QED BY <1>1, <1>2, <1>5, <4>1, FileAppended DEF Written, Ordered
    <3>2. Has(old', l) => Disjoint(stdout[ProcessOf(t)], current')
      BY <1>2, <1>6 DEF Written, Behind
    <3> QED BY <2>1, <3>1, <3>2
  <2>2. CASE u # t
    <3>1. pc[u] = "print" /\ line[u] # l /\ Active(u)
      BY <1>3, <1>4, <1>14, <2>2 DEF Mutex, Active
    <3> DEFINE s == stdout[ProcessOf(u)]
    <3>2. ~Has(s, l)
      BY <1>2
    <3>3. /\ Latest(current, line[u], s) /\ Latest(old, line[u], s)
          /\ Has(old, line[u]) => Disjoint(s, current)
      BY <3>1 DEF Due
    <3>4. \A i \in DOMAIN old' : (i \in DOMAIN old /\ old'[i] = old[i]) \/ old'[i] = l
      BY <1>1, <1>5, Appended DEF Written
    <3>5. \A i \in DOMAIN current' : (i \in DOMAIN current /\ current'[i] = current[i]) \/ current'[i] = l
      BY <1>1, <1>5, Appended DEF Written
    <3>6. Latest(current', line[u], s) /\ Latest(old', line[u], s)
      BY <3>1, <3>2, <3>3, <3>4, <3>5 DEF Latest, Has
    <3>7. Has(old', line[u]) => Disjoint(s, current')
      BY <1>6, <3>1, <3>2, <3>3 DEF Disjoint, Has
    <3> QED BY <3>6, <3>7
  <2> QED BY <2>1, <2>2
<1>15. Due'
  BY <1>14 DEF Due
<1>16. ASSUME NEW p \in Processes, handle[p] = "old"
       PROVE  /\ Disjoint(stdout[p], current')
              /\ \A u \in Threads : ProcessOf(u) = p /\ Active(u) => ~Has(current', line[u])
  <2>1. /\ Disjoint(stdout[p], current)
        /\ \A u \in Threads : ProcessOf(u) = p /\ Active(u) => ~Has(current, line[u])
    BY <1>16 DEF Behind
  <2>2. Disjoint(stdout[p], current')
    BY <1>2, <1>6, <2>1 DEF Disjoint, Has
  <2>3. \A u \in Threads : ProcessOf(u) = p /\ Active(u) => ~Has(current', line[u])
    BY <1>3, <1>6, <1>16, <2>1
  <2> QED BY <2>2, <2>3
<1>17. Behind'
  BY <1>4, <1>16 DEF Behind
<1> QED BY <1>7, <1>8, <1>13, <1>15, <1>17

(* The file becomes the older generation; the one before is given up. *)
LEMMA RenameStep ==
    ASSUME TypeOK, LineInv, NEW t \in Threads, Rename(t), volume /\ exists
    PROVE  LineInv'
<1> USE DEF LineInv
<1>1. /\ old' = current /\ current' = <<>> /\ UNCHANGED <<stdout, line, count>>
      /\ pc[t] = "rename" /\ pc'[t] = "open" /\ \A u \in Threads : u # t => pc'[u] = pc[u]
  BY DEF Rename, Goto, TypeOK
<1>2. \A k : Has(old', k) = Has(current, k) /\ ~Has(current', k)
  BY <1>1 DEF Has
<1>3. \A u \in Threads : (Active(u)' <=> Active(u)) /\ (pc'[u] = "print" <=> pc[u] = "print")
  BY <1>1 DEF Active
<1>4. Counted'
  BY <1>1, <1>2 DEF Counted
<1>5. Fresh'
  BY <1>1, <1>2, <1>3 DEF Fresh
<1>6. Ordered'
  BY <1>1 DEF Ordered, Distinct, Disjoint, Aligned, Before, Has
<1>7. Due'
  <2>1. \A k, s : Latest(current', k, s) /\ Disjoint(s, current')
    BY <1>1 DEF Latest, Disjoint, Has
  <2> QED BY <1>1, <1>3, <2>1 DEF Due
<1>8. Behind'
  BY <1>2 DEF Behind, Disjoint
<1> QED BY <1>4, <1>5, <1>6, <1>7, <1>8

(* A call prints its line, which is the latest of its process in the files. *)
LEMMA PrintStep ==
    ASSUME TypeOK, Mutex, LineInv, NEW t \in Threads, PrintLine(t)
    PROVE  LineInv'
<1> DEFINE l == line[t]
           p == ProcessOf(t)
<1> USE ProcessType DEF LineInv
<1>1. l \in Line /\ Active(t) /\ l <= count /\ pc[t] = "print"
  BY LineType DEF PrintLine, Mutex, Active, TypeOK, Counted
<1>2. \A q \in Processes : ~Has(stdout[q], l) /\ stdout[q] \in Seq(Line)
  BY <1>1 DEF Fresh, TypeOK
<1>3. /\ UNCHANGED <<current, old, line, count, handle>>
      /\ stdout'[p] = Append(stdout[p], l)
      /\ \A q \in Processes : q # p => stdout'[q] = stdout[q]
      /\ pc'[t] = "idle" /\ \A u \in Threads : u # t => pc'[u] = pc[u]
  BY DEF PrintLine, Goto, TypeOK, files
<1>4. \A u \in Threads : Active(u)' <=> Active(u) /\ u # t
  BY <1>3 DEF Active
<1>5. \A q \in Processes : \A k : Has(stdout'[q], k) <=> Has(stdout[q], k) \/ (q = p /\ k = l)
  <2>1. \A k : Has(Append(stdout[p], l), k) <=> Has(stdout[p], k) \/ k = l
    BY <1>1, <1>2, HasAppended
  <2> QED BY <1>3, <2>1
<1>6. /\ Latest(current, l, stdout[p]) /\ Latest(old, l, stdout[p])
      /\ Has(old, l) => Disjoint(stdout[p], current)
  BY <1>1 DEF Due
<1>7. DOMAIN current \subseteq Nat /\ DOMAIN old \subseteq Nat
  BY LenProperties DEF TypeOK
<1>8. Counted'
  BY <1>1, <1>3, <1>5 DEF Counted
<1>9. Fresh'
  BY <1>1, <1>3, <1>4, <1>5 DEF Fresh
<1>10. ASSUME NEW q \in Processes
       PROVE  Aligned(current, stdout'[q]) /\ Aligned(old, stdout'[q]) /\ Before(old, current, stdout'[q])
  <2>1. CASE q = p
    <3>1. Aligned(current, Append(stdout[p], l)) /\ Aligned(old, Append(stdout[p], l))
      BY <1>1, <1>2, <1>6, <1>7, OutputAppended DEF Ordered
    <3>2. Before(old, current, Append(stdout[p], l))
      BY <1>1, <1>2, <1>6, BeforeAppended DEF Ordered
    <3> QED BY <1>3, <2>1, <3>1, <3>2
  <2>2. CASE q # p
    BY <1>3, <2>2 DEF Ordered
  <2> QED BY <2>1, <2>2
<1>11. Ordered'
  BY <1>3, <1>10 DEF Ordered
<1>12. ASSUME NEW u \in Threads, pc'[u] = "print"
       PROVE  u # t /\ ProcessOf(u) # p /\ pc[u] = "print"
  <2>1. u # t /\ pc[u] = "print"
    BY <1>3, <1>12
  <2>2. ProcessOf(u) # p
    <3>1. holder[ProcessOf(u)] = {u} /\ holder[p] = {t}
      BY <1>1, <2>1 DEF Mutex, Inside
    <3> QED BY <2>1, <3>1
  <2> QED BY <2>1, <2>2
<1>13. Due'
  BY <1>3, <1>12 DEF Due
<1>14. ASSUME NEW q \in Processes, handle[q] = "old"
       PROVE  /\ Disjoint(stdout'[q], current)
              /\ \A u \in Threads : ProcessOf(u) = q /\ Active(u)' => ~Has(current, line[u])
  <2>1. /\ Disjoint(stdout[q], current)
        /\ \A u \in Threads : ProcessOf(u) = q /\ Active(u) => ~Has(current, line[u])
    BY <1>14 DEF Behind
  <2>2. \A k : Has(stdout'[q], k) => ~Has(current, k)
    BY <1>1, <1>5, <2>1 DEF Disjoint, Has
  <2>3. Disjoint(stdout'[q], current)
    BY <2>2 DEF Disjoint, Has
  <2> QED BY <1>4, <2>1, <2>3
<1>15. Behind'
  BY <1>3, <1>14 DEF Behind
<1> QED BY <1>8, <1>9, <1>11, <1>13, <1>15

LEMMA StepLines ==
    ASSUME TypeOK, Mutex, LineInv, [Next]_vars, TypeOK'
    PROVE  LineInv'
<1> USE ProcessType DEF Goto, Handle
<1>1. ASSUME NEW t \in Threads, Start(t) PROVE LineInv'
  <2>1. /\ pc[t] = "idle" /\ pc'[t] = "stat" /\ line'[t] = 0
        /\ \A u \in Threads : u # t => pc'[u] = pc[u] /\ line'[u] = line[u]
    BY <1>1 DEF Start, TypeOK, Mutex
  <2>2. \A p \in Processes : handle'[p] = "old" => handle[p] = "old"
    BY <1>1 DEF Start, TypeOK
  <2>3. UNCHANGED <<current, old, stdout, count>>
    BY <1>1 DEF Start, files
  <2>4. \A u \in Threads : pc'[u] = "print" => Active(u)'
    BY <2>1 DEF Mutex, Active
  <2>5. \A u \in Threads : Active(u)' => Active(u) /\ line'[u] = line[u]
    BY <2>1 DEF Active
  <2> QED BY <2>1, <2>2, <2>3, <2>4, <2>5, QuietStep
(* One thread goes on inside Log or newLogger; the files stay as they are. *)
<1>2. ASSUME NEW t \in Threads, pc[t] \notin {"idle", "print"},
             UNCHANGED <<current, old, stdout, count, line>>,
             \E label \in Labels : Goto(t, label) /\ (label = "print" => line[t] # 0),
             \A p \in Processes : handle'[p] = "old" => handle[p] = "old"
      PROVE  LineInv'
  <2>1. PICK label \in Labels : Goto(t, label) /\ (label = "print" => line[t] # 0)
    BY <1>2
  <2>2. pc'[t] = label /\ \A u \in Threads : u # t => pc'[u] = pc[u]
    BY <2>1 DEF TypeOK
  <2>3. \A u \in Threads : Active(u)' => Active(u)
    BY <1>2, <2>2 DEF Active
  <2>4. \A u \in Threads : pc'[u] = "print" => Active(u)'
    BY <1>2, <2>1, <2>2 DEF Mutex, Active
  <2>5. \A u \in Threads : line'[u] = line[u]
    BY <1>2
  <2>6. \A u \in Threads : pc[u] = "print" => pc'[u] = "print"
    BY <1>2, <2>2
  <2> QED BY <1>2, <2>3, <2>4, <2>5, <2>6, QuietStep
<1>3. ASSUME NEW t \in Threads, Log(t) PROVE LineInv'
  BY <1>3, LogStep
<1>4. ASSUME NEW t \in Threads, Lock(t) PROVE LineInv'
  BY <1>2, <1>4 DEF Lock, files, Labels, Mutex
<1>5. ASSUME NEW t \in Threads, NEW opened \in BOOLEAN, InOpen(t), AfterOpen(t, opened),
             UNCHANGED <<current, old, stdout, count, line>>
      PROVE  LineInv'
  <2>1. \A p \in Processes : handle'[p] = "old" => handle[p] = "old"
    BY <1>5 DEF AfterOpen, TypeOK
  <2>2. \E label \in Labels : Goto(t, label) /\ (label = "print" => line[t] # 0)
    BY <1>5 DEF AfterOpen, Labels
  <2> QED BY <1>2, <1>5, <2>1, <2>2 DEF InOpen
<1>6. ASSUME NEW t \in Threads, StatFile(t) PROVE LineInv'
  <2>1. InOpen(t) /\ UNCHANGED <<current, old, stdout, count, line>>
    BY <1>6 DEF StatFile, InOpen, files
  <2>2. CASE AfterOpen(t, FALSE)
    BY <1>5, <2>1, <2>2
  <2>3. CASE UNCHANGED handle /\ \E label \in {"rename", "open"} : Goto(t, label)
    BY <1>2, <2>1, <2>3 DEF InOpen, Labels
  <2> QED BY <1>6, <2>2, <2>3 DEF StatFile
<1>7. ASSUME NEW t \in Threads, Rename(t) PROVE LineInv'
  <2>1. CASE volume /\ exists
    BY <1>7, <2>1, RenameStep
  <2>2. CASE ~(volume /\ exists)
    BY <1>2, <1>7, <2>2 DEF Rename, Labels, files
  <2> QED BY <2>1, <2>2
<1>8. ASSUME NEW t \in Threads, Open(t) PROVE LineInv'
  BY <1>5, <1>8 DEF Open, InOpen
<1>9. ASSUME NEW t \in Threads, Write(t) PROVE LineInv'
  <2>1. CASE Written(handle[ProcessOf(t)], line[t]) /\ Goto(t, "print") /\ UNCHANGED handle
    BY <1>9, <2>1, WriteStep DEF Write
  <2>2. CASE /\ UNCHANGED files /\ (Goto(t, "stat") \/ Goto(t, "print"))
             /\ Handle(t, "closed") \/ UNCHANGED handle
    <3>1. \A p \in Processes : handle'[p] = "old" => handle[p] = "old"
      BY <2>2 DEF TypeOK
    <3>2. line[t] # 0
      BY <1>9 DEF Write, Mutex
    <3> QED BY <1>2, <1>9, <2>2, <3>1, <3>2 DEF Write, files, Labels
  <2> QED BY <1>9, <2>1, <2>2 DEF Write
<1>10. ASSUME NEW t \in Threads, WriteAgain(t) PROVE LineInv'
  <2>1. CASE Written(handle[ProcessOf(t)], line[t])
    BY <1>10, <2>1, WriteStep DEF WriteAgain
  <2>2. CASE UNCHANGED files
    BY <1>2, <1>10, <2>2 DEF WriteAgain, files, Labels, Mutex
  <2> QED BY <1>10, <2>1, <2>2 DEF WriteAgain
<1>11. ASSUME NEW t \in Threads, PrintLine(t) PROVE LineInv'
  BY <1>11, PrintStep
<1>12. ASSUME NEW p \in Processes, Stop(p) PROVE LineInv'
  <2>1. /\ \A u \in Threads : pc'[u] = "idle" \/ pc'[u] = pc[u]
        /\ \A q \in Processes : handle'[q] = "down" \/ handle'[q] = handle[q]
        /\ UNCHANGED <<current, old, stdout, count, line>>
    BY <1>12 DEF Stop, TypeOK, files
  <2>2. \A u \in Threads : pc'[u] = "print" => Active(u)'
    BY <2>1 DEF Mutex, Active
  <2>3. \A u \in Threads : Active(u)' => Active(u)
    BY <2>1 DEF Active
  <2> QED BY <2>1, <2>2, <2>3, QuietStep
<1>13. CASE UNCHANGED <<current, old, stdout, handle, pc, line, count>>
  BY <1>13 DEF LineInv, Counted, Fresh, Ordered, Due, Behind, Active
<1> QED
  BY <1>1, <1>3, <1>4, <1>6, <1>7, <1>8, <1>9, <1>10, <1>11, <1>12, <1>13
  DEF Next, Runs, VolumeChanges, files, vars

-----------------------------------------------------------------------------
(* The theorems. *)

LEMMA Invariants == Spec => [](TypeOK /\ Mutex /\ HolderRuns /\ LineInv)
<1>1. Init => TypeOK /\ Mutex /\ HolderRuns /\ LineInv
  BY LogInit, LineInit
<1>2. TypeOK /\ Mutex /\ HolderRuns /\ LineInv /\ [Next]_vars
        => (TypeOK /\ Mutex /\ HolderRuns /\ LineInv)'
  BY StepType, StepMutex, StepLines
<1> QED BY <1>1, <1>2, PTL DEF Spec

(***************************************************************************)
(* TypeOK: what the files, the output and the handles of a Logger may be.  *)
(***************************************************************************)
THEOREM TypeCorrect == Spec => []TypeOK
  BY Invariants, PTL

(***************************************************************************)
(* HolderRuns: the mutex is never left locked (defer l.mu.Unlock in Log):  *)
(* whoever waits for it waits for a call that can go on, on every path out *)
(* of a failed write and a failed open, for any number of goroutines.      *)
(***************************************************************************)
THEOREM MutexNeverOrphaned == Spec => []HolderRuns
  BY Invariants, PTL

LEMMA OrderedFiles == TypeOK /\ Ordered => FileInOrder
<1> SUFFICES ASSUME TypeOK, Ordered PROVE FileInOrder
  OBVIOUS
<1> USE DEF TypeOK
<1> DEFINE n == Len(old)
           m == Len(current)
<1>1. n \in Nat /\ m \in Nat /\ DOMAIN old = 1 .. n /\ DOMAIN current = 1 .. m
  BY LenProperties
<1>2. \A i \in DOMAIN Files :
         \/ i \in DOMAIN old /\ Files[i] = old[i]
         \/ i \in Nat /\ i > n /\ (i - n) \in DOMAIN current /\ Files[i] = current[i - n]
  <2>1. /\ Len(Files) = n + m /\ DOMAIN Files = 1 .. n + m
        /\ \A i \in 1 .. n + m : Files[i] = IF i <= n THEN old[i] ELSE current[i - n]
    BY ConcatProperties DEF Files
  <2> QED BY <1>1, <2>1
<1> HIDE DEF n, m
<1>3. ASSUME NEW i \in DOMAIN Files, NEW j \in DOMAIN Files, Files[i] = Files[j]
      PROVE  i = j
  <2>1. CASE i \in DOMAIN old /\ Files[i] = old[i] /\ j \in DOMAIN old /\ Files[j] = old[j]
    BY <1>3, <2>1 DEF Ordered, Distinct
  <2>2. CASE /\ i \in Nat /\ (i - n) \in DOMAIN current /\ Files[i] = current[i - n]
             /\ j \in Nat /\ (j - n) \in DOMAIN current /\ Files[j] = current[j - n]
    <3>1. i - n = j - n
      BY <1>3, <2>2 DEF Ordered, Distinct
    <3> QED BY <1>1, <2>2, <3>1
  <2>3. ~\E a \in DOMAIN old, b \in DOMAIN current : old[a] = current[b]
    BY DEF Ordered, Disjoint, Has
  <2> QED BY <1>2, <1>3, <2>1, <2>2, <2>3
<1>4. ASSUME NEW p \in Processes, NEW i \in DOMAIN Files, NEW j \in DOMAIN Files,
             NEW k \in DOMAIN stdout[p], NEW l \in DOMAIN stdout[p],
             Files[i] = stdout[p][k], Files[j] = stdout[p][l]
      PROVE  i < j <=> k < l
  <2>1. k \in Nat /\ l \in Nat
    BY LenProperties
  <2>2. CASE i \in DOMAIN old /\ Files[i] = old[i] /\ j \in DOMAIN old /\ Files[j] = old[j]
    <3>1. Aligned(old, stdout[p])
      BY DEF Ordered
    <3>2. old[i] = stdout[p][k] /\ old[j] = stdout[p][l]
      BY <1>4, <2>2
    <3> QED BY <2>2, <3>1, <3>2 DEF Aligned
  <2>3. CASE /\ i \in Nat /\ (i - n) \in DOMAIN current /\ Files[i] = current[i - n]
             /\ j \in Nat /\ (j - n) \in DOMAIN current /\ Files[j] = current[j - n]
    <3>1. i - n < j - n <=> k < l
      <4>1. Aligned(current, stdout[p])
        BY DEF Ordered
      <4>2. current[i - n] = stdout[p][k] /\ current[j - n] = stdout[p][l]
        BY <1>4, <2>3
      <4> QED BY <2>3, <4>1, <4>2 DEF Aligned
    <3> QED BY <1>1, <2>3, <3>1
  <2>4. CASE /\ i \in DOMAIN old /\ Files[i] = old[i]
             /\ j \in Nat /\ j > n /\ (j - n) \in DOMAIN current /\ Files[j] = current[j - n]
    <3>1. k < l
      BY <1>4, <2>4 DEF Ordered, Before
    <3> QED BY <1>1, <2>4, <3>1
  <2>5. CASE /\ j \in DOMAIN old /\ Files[j] = old[j]
             /\ i \in Nat /\ i > n /\ (i - n) \in DOMAIN current /\ Files[i] = current[i - n]
    <3>1. l < k
      BY <1>4, <2>5 DEF Ordered, Before
    <3> QED BY <1>1, <2>1, <2>5, <3>1
  <2> QED BY <1>2, <2>2, <2>3, <2>4, <2>5
<1> QED BY <1>3, <1>4 DEF FileInOrder

(***************************************************************************)
(* FileInOrder: the file and its older generation tell the events of each  *)
(* process once and in the order in which its output does, whatever the    *)
(* volume, the other goroutines and the other processes on it do.          *)
(***************************************************************************)
THEOREM FileAlwaysInOrder == Spec => []FileInOrder
<1>1. TypeOK /\ LineInv => FileInOrder
  BY OrderedFiles DEF LineInv
<1> QED BY <1>1, Invariants, PTL
=============================================================================
