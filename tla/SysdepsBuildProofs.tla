------------------------- MODULE SysdepsBuildProofs -------------------------
(***************************************************************************)
(* For any modules, probes and order of tasks, whatever commands fail: the *)
(* types; that no run executes a probe that is not whole, when no run is   *)
(* killed or the linker makes its output executable at the end.  Whoever   *)
(* is killed: a whole probe stays; sd-locker is there when it is called; a *)
(* run is fatal only for a command that failed or for losing the race to   *)
(* the status directory; the status of a module is that of its last run,   *)
(* if the commands that write it work; a run waits only for runs that are  *)
(* in a command, and takes a bounded number of steps.  A build of one      *)
(* module at a time knows the Ada compiler.                                *)
(***************************************************************************)
EXTENDS SysdepsBuild, TLAPS

TaskSet == [do : {"compile", "run", "header", "ada"}, probe : Probes \cup {Nobody}]

LEMMA TasksSeq ==
  Tasks \in Seq(TaskSet) /\ Len(Tasks) \in Nat \ {0} /\ \A i \in 1..Len(Tasks) : Tasks[i] \in TaskSet
<1>1. Tasks \in Seq(TaskSet) /\ Tasks # <<>>
  BY TasksAssumption DEF TasksAssumption, TaskSet
<1>. HIDE DEF TaskSet
<1>. QED BY <1>1

LEMMA TaskFacts ==
  ASSUME TypeOK, NEW m \in Modules
  PROVE  /\ task[m] \in 1..Len(Tasks) /\ Len(Tasks) \in Nat
         /\ Task(m) \in Locks
         /\ Task(m).do \in {"compile", "run", "header", "ada"}
         /\ Task(m).do \notin {"header", "ada"} => Task(m).probe \in Probes
<1>1. task[m] \in 1..Len(Tasks) /\ Len(Tasks) \in Nat
  BY TasksSeq DEF TypeOK
<1>2. Task(m) \in TaskSet
  BY <1>1, TasksSeq DEF Task
<1>3. (Task(m).do \in {"header", "ada"}) <=> (Task(m).probe = Nobody)
  BY <1>1, TasksAssumption, Zenon DEF Task, TasksAssumption
<1>. QED BY <1>1, <1>2, <1>3 DEF Locks, TaskSet

----------------------------------------------------------------------------
(* Types *)

\* The control and the locks, which every step of a run changes in one of a few
\* ways.
ControlOK ==
  /\ pc \in [Modules -> Locked \cup {"idle", "boot", "mkdir", "task", "make-locker",
       "move-locker", "check", "lock", "open", "write", "search", "move-files", "mark"}]
  /\ task \in [Modules -> 1..Len(Tasks)]
  /\ holder \in [Locks -> Modules \cup {Nobody}]
  /\ result \in [Modules -> {"none", "running", "done", "fatal", "killed"}]

LEMMA FreedType ==
  ASSUME TypeOK, NEW m \in Modules
  PROVE  Freed(m) \in [Locks -> Modules \cup {Nobody}]
BY DEF TypeOK, Freed

LEMMA GoType ==
  ASSUME TypeOK, NEW m \in Modules, NEW c,
         c \in Locked \cup {"task", "mkdir", "make-locker", "move-locker", "check",
                            "lock", "open", "write", "search", "move-files", "mark"},
         Go(m, c)
  PROVE  ControlOK'
BY DEF TypeOK, Go, ControlOK, Locked

LEMMA EndType ==
  ASSUME TypeOK, NEW m \in Modules, NEW how \in {"done", "fatal", "killed"}, End(m, how)
  PROVE  ControlOK'
BY FreedType DEF TypeOK, End, ControlOK, Locked

LEMMA NextTaskType ==
  ASSUME TypeOK, NEW m \in Modules, NextTask(m)
  PROVE  ControlOK'
<1>1. holder' \in [Locks -> Modules \cup {Nobody}]
  BY FreedType DEF NextTask
<1>2. task' \in [Modules -> 1..Len(Tasks)]
  <2>1. task[m] \in 1..Len(Tasks) /\ Len(Tasks) \in Nat /\ task \in [Modules -> 1..Len(Tasks)]
    BY TaskFacts DEF TypeOK
  <2>2. task[m] # Len(Tasks) => task[m] + 1 \in 1..Len(Tasks)
    BY <2>1
  <2>. QED BY <2>1, <2>2 DEF NextTask
<1>. QED BY <1>1, <1>2 DEF TypeOK, NextTask, ControlOK, Locked

LEMMA FailedType ==
  ASSUME TypeOK, NEW m \in Modules, Failed(m)
  PROVE  ControlOK' /\ ada' \in [Modules -> AdaTypes]
<1>1. CASE Task(m).do \in {"compile", "header"} /\ End(m, "fatal") /\ UNCHANGED ada
  BY <1>1, EndType DEF TypeOK
<1>2. CASE Task(m).do = "run" /\ NextTask(m) /\ UNCHANGED ada
  BY <1>2, NextTaskType DEF TypeOK
<1>3. CASE /\ Task(m).do = "ada"
           /\ pc' = [pc EXCEPT ![m] = "open"] /\ holder' = Freed(m)
           /\ ada' = [ada EXCEPT ![m] = "none"]
           /\ UNCHANGED <<task, result>>
  BY <1>3, FreedType DEF TypeOK, ControlOK, Locked, AdaTypes
<1>. QED BY <1>1, <1>2, <1>3 DEF Failed

\* Fault counting keeps within its bound.
LEMMA FaultsType ==
  ASSUME TypeOK, NEW kind, Works \/ Breaks(kind)
  PROVE  faults' \in 0..MaxFaults
<1>1. faults \in 0..MaxFaults /\ MaxFaults \in Nat
  BY BoundsAssumption DEF TypeOK, BoundsAssumption
<1>. QED BY <1>1 DEF Works, Breaks

\* The types, without the control: what is left to show for each action.
DataOK ==
  /\ locker \in BOOLEAN /\ statusDir \in BOOLEAN
  /\ probe \in [Probes -> {"absent", "partial-file", "partial-program", "program"}]
  /\ adaOut \in AdaTypes \cup {"absent"}
  /\ known \in [Modules -> SUBSET (Probes \cup {Nobody})]
  /\ ada \in [Modules -> AdaTypes]
  /\ found \in [Modules -> BOOLEAN]
  /\ output \in [Modules -> {"absent", "empty", "flags"}]
  /\ status \in [Modules -> {"not-executed", "succeeded", "failed"}]
  /\ starts \in [Modules -> 0..MaxStarts]
  /\ faults \in 0..MaxFaults /\ kills \in 0..MaxKills

LEMMA TypeParts == TypeOK <=> ControlOK /\ DataOK
BY DEF TypeOK, ControlOK, DataOK

LEMMA InitTypeOK == Init => TypeOK
<1>. SUFFICES ASSUME Init PROVE TypeOK
  OBVIOUS
<1>1. 1 \in 1..Len(Tasks)
  BY TasksSeq
<1>2. 0 \in 0..MaxStarts /\ 0 \in 0..MaxFaults /\ 0 \in 0..MaxKills
  BY BoundsAssumption DEF BoundsAssumption
<1>. QED BY <1>1, <1>2 DEF Init, TypeOK, AdaTypes

LEMMA NextTypeOK ==
  ASSUME TypeOK, [Next]_vars
  PROVE  TypeOK'
<1>. USE DEF DataOK, tools, results, kept
<1>0. ControlOK /\ DataOK
  BY TypeParts
<1>. SUFFICES ControlOK' /\ DataOK'
  BY TypeParts, PTL
<1>1. CASE UNCHANGED vars
  BY <1>0, <1>1 DEF vars, ControlOK
<1>2. CASE Clean
  BY <1>0, <1>2 DEF Clean, ControlOK
<1>3. ASSUME NEW m \in Modules, Start(m) PROVE ControlOK' /\ DataOK'
  <2>1. 1 \in 1..Len(Tasks)
    BY TasksSeq
  <2>2. starts[m] + 1 \in 0..MaxStarts
    <3>1. starts[m] \in 0..MaxStarts /\ MaxStarts \in Nat
      BY <1>0, BoundsAssumption DEF BoundsAssumption
    <3>. QED BY <1>3, <3>1 DEF Start
  <2>. QED BY <1>0, <1>3, <2>1, <2>2 DEF Start, ControlOK, AdaTypes
<1>4. ASSUME NEW m \in Modules, Kill(m) PROVE ControlOK' /\ DataOK'
  <2>1. ControlOK'
    BY <1>4, EndType DEF Kill
  <2>2. kills + 1 \in 0..MaxKills
    <3>1. kills \in 0..MaxKills /\ MaxKills \in Nat
      BY <1>0, BoundsAssumption DEF BoundsAssumption
    <3>. QED BY <1>4, <3>1 DEF Kill
  <2>. QED BY <1>0, <1>4, <2>1, <2>2 DEF Kill, Works
<1>5. ASSUME NEW m \in Modules, Proceeds(m) PROVE ControlOK' /\ DataOK'
  <2>1. CASE CheckStatusDirectory(m)
    BY <1>0, <2>1, GoType DEF CheckStatusDirectory, Works
  <2>2. CASE MakeStatusDirectory(m)
    BY <1>0, <2>2, GoType, EndType DEF MakeStatusDirectory, Works
  <2>3. CASE BeginTask(m)
    <3>1. ControlOK'
      BY <2>3, GoType, NextTaskType DEF BeginTask
    <3>2. ada' \in [Modules -> AdaTypes]
      BY <1>0, <2>3 DEF BeginTask
    <3>. QED BY <1>0, <2>3, <3>1, <3>2 DEF BeginTask, Works
  <2>4. CASE MakeLocker(m)
    BY <1>0, <2>4, GoType, EndType, NextTaskType, FaultsType DEF MakeLocker, LockerFails
  <2>5. CASE MoveLocker(m)
    BY <1>0, <2>5, GoType, FaultsType DEF MoveLocker
  <2>6. CASE CheckLocker(m)
    BY <1>0, <2>6, GoType, FailedType DEF CheckLocker, Works
  <2>7. CASE Lock(m)
    <3>1. CASE Failed(m)
      <4>1. faults' \in 0..MaxFaults
        BY <2>7, FaultsType DEF Lock
      <4>. QED BY <1>0, <2>7, <3>1, <4>1, FailedType DEF Lock
    <3>2. CASE /\ Works /\ locker /\ Free(m)
               /\ holder' = [holder EXCEPT ![LockOf(m)] = m]
               /\ pc' = [pc EXCEPT ![m] = Task(m).do] /\ UNCHANGED <<task, result, ada>>
      <4>1. Task(m) \in Locks /\ Task(m).do \in Locked
        BY TaskFacts DEF Locked
      <4>2. pc' \in [Modules -> Locked \cup {"idle", "boot", "mkdir", "task", "make-locker",
       "move-locker", "check", "lock", "open", "write", "search", "move-files", "mark"}]
        BY <1>0, <3>2, <4>1 DEF ControlOK
      <4>3. holder' \in [Locks -> Modules \cup {Nobody}]
        BY <1>0, <3>2, <4>1 DEF ControlOK, LockOf
      <4>. QED BY <1>0, <2>7, <3>2, <4>2, <4>3 DEF Lock, Works, ControlOK
    <3>. QED BY <2>7, <3>1, <3>2 DEF Lock
  <2>8. CASE CheckProbe(m)
    BY <1>0, <2>8, GoType, NextTaskType DEF CheckProbe, Works, Locked
  <2>9. CASE Compile(m)
    <3>1. ControlOK' /\ faults' \in 0..MaxFaults
      BY <2>9, GoType, EndType, FaultsType DEF Compile, Locked
    <3>2. probe' \in [Probes -> {"absent", "partial-file", "partial-program", "program"}]
      BY <1>0, <2>9, LinkerAssumption DEF Compile, LinkerAssumption
    <3>. QED BY <1>0, <2>9, <3>1, <3>2 DEF Compile
  <2>10. CASE Link(m)
    BY <1>0, <2>10, NextTaskType, EndType, FaultsType DEF Link
  <2>11. CASE RunProbe(m)
    <3>1. Task(m).probe \in Probes \cup {Nobody}
      BY TaskFacts DEF Locks
    <3>2. known' \in [Modules -> SUBSET (Probes \cup {Nobody})]
      BY <1>0, <2>11, <3>1 DEF RunProbe
    <3>. QED BY <1>0, <2>11, <3>2, NextTaskType, FaultsType DEF RunProbe
  <2>18. CASE MakeHeader(m)
    BY <1>0, <2>18, NextTaskType, EndType, FaultsType DEF MakeHeader
  <2>12. CASE RunAdaVersion(m)
    <3>1. Freed(m) \in [Locks -> Modules \cup {Nobody}]
      BY FreedType
    <3>2. CASE /\ Works /\ pc' = [pc EXCEPT ![m] = "open"] /\ holder' = Freed(m)
               /\ ada' = [ada EXCEPT ![m] = "type"] /\ UNCHANGED <<task, result>>
      <4>1. ControlOK'
        BY <1>0, <3>1, <3>2 DEF ControlOK
      <4>2. ada' \in [Modules -> AdaTypes]
        BY <1>0, <3>2 DEF AdaTypes
      <4>. QED BY <1>0, <2>12, <3>2, <4>1, <4>2, FaultsType DEF RunAdaVersion
    <3>3. CASE Breaks("execute") /\ Failed(m)
      BY <1>0, <2>12, <3>3, FailedType, FaultsType DEF RunAdaVersion
    <3>. QED BY <2>12, <3>2, <3>3 DEF RunAdaVersion
  <2>13. CASE OpenAdaOut(m)
    BY <1>0, <2>13, GoType DEF OpenAdaOut, Works, AdaTypes
  <2>14. CASE WriteAdaOut(m)
    BY <1>0, <2>14, NextTaskType DEF WriteAdaOut, Works
  <2>15. CASE Search(m)
    BY <1>0, <2>15, GoType, EndType, FaultsType DEF Search
  <2>16. CASE MoveFiles(m)
    BY <1>0, <2>16, GoType, EndType, FaultsType DEF MoveFiles
  <2>17. CASE MarkModule(m)
    BY <1>0, <2>17, GoType, EndType, FaultsType DEF MarkModule, Marked
  <2>. QED BY <1>5, <2>1, <2>2, <2>3, <2>4, <2>5, <2>6, <2>7, <2>8, <2>9, <2>10, <2>11,
              <2>12, <2>13, <2>14, <2>15, <2>16, <2>17, <2>18 DEF Proceeds
<1>. QED BY <1>1, <1>2, <1>3, <1>4, <1>5 DEF Next

\* Every variable keeps its type in every behaviour of the scripts, whatever
\* fails and whoever is killed.
THEOREM TypeCorrect == Spec => []TypeOK
<1>1. TypeOK /\ [Next]_vars => TypeOK'
  BY NextTypeOK
<1>. QED BY InitTypeOK, <1>1, PTL DEF Spec

----------------------------------------------------------------------------
(* A probe that is run is whole *)

Partial == {"partial-file", "partial-program"}

\* Nothing leaves an incomplete file that can be executed: no run is killed, or the
\* linker makes its output executable when it is done.
Safe == MaxKills = 0 \/ "partial-program" \notin Opened

\* A run in a command has the lock of its task, and the task is for the command.
HolderMatches ==
  \A m \in Modules : pc[m] \in Locked =>
    /\ holder[LockOf(m)] = m
    /\ Task(m).do = IF pc[m] \in {"run", "header", "ada"} THEN pc[m] ELSE "compile"

\* A compiler runs only for a probe that is not there; what a linker writes is
\* incomplete until it is done, and nothing else is.
LinkersOutput ==
  \A m \in Modules :
    /\ pc[m] = "cc" => probe[Task(m).probe] # "program"
    /\ pc[m] = "ld" => probe[Task(m).probe] \in Partial

\* An incomplete program belongs to a linker that is at work.
PartialIsOwned ==
  Safe => \A q \in Probes : probe[q] = "partial-program" =>
            /\ "partial-program" \in Opened
            /\ \E m \in Modules : pc[m] = "ld" /\ Task(m).probe = q

\* The probes that a run has been through the compilation of are whole.
BuiltSoFar ==
  Safe => \A m \in Modules : pc[m] # "idle" =>
            \A j \in 1..(task[m] - 1) :
              Tasks[j].do = "compile" => probe[Tasks[j].probe] = "program"

BuildInv == HolderMatches /\ LinkersOutput /\ PartialIsOwned /\ BuiltSoFar

\* A step of m leaves the others where they are, with the locks they have.
OthersSame(m) ==
  \A n \in Modules \ {m} :
    /\ pc'[n] = pc[n] /\ task'[n] = task[n]
    /\ holder[LockOf(n)] = n => holder'[LockOf(n)] = n

LEMMA FreedOthersSame ==
  ASSUME TypeOK, NEW m \in Modules,
         \A n \in Modules \ {m} : pc'[n] = pc[n] /\ task'[n] = task[n],
         holder' = Freed(m)
  PROVE  OthersSame(m)
BY TaskFacts DEF Freed, LockOf, OthersSame

\* A linker at work stays where it is, and no probe is written.
LEMMA OwnersKeep ==
  ASSUME PartialIsOwned, probe' = probe,
         \A n \in Modules : pc[n] = "ld" => pc'[n] = "ld" /\ Task(n)' = Task(n)
  PROVE  PartialIsOwned'
<1>. SUFFICES ASSUME NEW q \in Probes, Safe, probe[q] = "partial-program"
              PROVE  /\ "partial-program" \in Opened
                     /\ \E n \in Modules : pc'[n] = "ld" /\ Task(n)'.probe = q
  BY DEF PartialIsOwned
<1>1. "partial-program" \in Opened
  BY DEF PartialIsOwned
<1>2. PICK n \in Modules : pc[n] = "ld" /\ Task(n).probe = q
  BY DEF PartialIsOwned
<1>. QED BY <1>1, <1>2

\* A step that writes no probe and ends in no command, with no linker at work.
LEMMA LocksKeep ==
  ASSUME BuildInv, NEW m \in Modules, OthersSame(m), probe' = probe,
         pc[m] # "ld", pc'[m] \notin Locked
  PROVE  HolderMatches' /\ LinkersOutput' /\ PartialIsOwned'
<1>0. \A n \in Modules \ {m} : Task(n)' = Task(n) /\ LockOf(n)' = LockOf(n)
  BY DEF OthersSame, Task, LockOf
<1>1. HolderMatches'
  BY <1>0 DEF BuildInv, HolderMatches, OthersSame
<1>2. LinkersOutput'
  BY <1>0 DEF BuildInv, LinkersOutput, OthersSame, Locked
<1>3. PartialIsOwned'
  <2>1. \A n \in Modules : pc[n] = "ld" => pc'[n] = "ld" /\ Task(n)' = Task(n)
    BY <1>0 DEF OthersSame
  <2>. QED BY <2>1, OwnersKeep DEF BuildInv
<1>. QED BY <1>1, <1>2, <1>3

LEMMA GoKeeps ==
  ASSUME TypeOK, BuildInv, NEW m \in Modules, NEW c, c \notin Locked,
         pc[m] \notin Locked \cup {"idle"}, Go(m, c), probe' = probe
  PROVE  BuildInv'
<1>1. OthersSame(m) /\ pc'[m] \notin Locked /\ pc[m] # "ld"
  BY DEF TypeOK, Go, OthersSame, Locked
<1>2. BuiltSoFar'
  BY DEF BuildInv, BuiltSoFar, TypeOK, Go
<1>. QED BY <1>1, <1>2, LocksKeep DEF BuildInv

LEMMA EndKeeps ==
  ASSUME TypeOK, BuildInv, NEW m \in Modules, NEW how,
         pc[m] # "ld", End(m, how), probe' = probe
  PROVE  BuildInv'
<1>1. OthersSame(m) /\ pc'[m] \notin Locked
  BY FreedOthersSame DEF TypeOK, End, Locked
<1>2. BuiltSoFar'
  BY DEF BuildInv, BuiltSoFar, End, TypeOK
<1>. QED BY <1>1, <1>2, LocksKeep DEF BuildInv

LEMMA NextTaskKeeps ==
  ASSUME TypeOK, BuildInv, NEW m \in Modules,
         pc[m] \notin {"ld", "idle"}, NextTask(m), probe' = probe,
         (Safe /\ Task(m).do = "compile") => probe[Task(m).probe] = "program"
  PROVE  BuildInv'
<1>1. OthersSame(m) /\ pc'[m] \notin Locked
  <2>0. /\ DOMAIN pc = Modules /\ pc = [n \in Modules |-> pc[n]]
        /\ task = [n \in Modules |-> task[n]]
    BY DEF TypeOK
  <2>1. /\ holder' = Freed(m)
        /\ pc' = [pc EXCEPT ![m] = "search"] \/ pc' = [pc EXCEPT ![m] = "task"]
        /\ task' = task \/ task' = [task EXCEPT ![m] = @ + 1]
    BY DEF NextTask
  <2>2. \A n \in Modules \ {m} : pc'[n] = pc[n] /\ task'[n] = task[n]
    BY <2>0, <2>1
  <2>3. pc'[m] \in {"search", "task"}
    BY <2>0, <2>1
  <2>4. OthersSame(m)
    BY <2>1, <2>2, FreedOthersSame
  <2>. QED BY <2>3, <2>4 DEF Locked
<1>2. BuiltSoFar'
  <2>. SUFFICES ASSUME NEW n \in Modules, pc'[n] # "idle", NEW j \in 1..(task'[n] - 1),
                       Safe, Tasks[j].do = "compile"
                PROVE  probe[Tasks[j].probe] = "program"
    BY DEF BuiltSoFar
  <2>1. CASE n # m
    BY <1>1, <2>1 DEF BuildInv, BuiltSoFar, OthersSame
  <2>2. CASE n = m
    <3>1. task[m] \in 1..Len(Tasks) /\ Len(Tasks) \in Nat
      BY TaskFacts
    <3>2. task'[m] \in {task[m], task[m] + 1}
      <4>1. task = [k \in Modules |-> task[k]]
        BY DEF TypeOK
      <4>2. task' = task \/ task' = [task EXCEPT ![m] = @ + 1]
        BY DEF NextTask
      <4>. QED BY <4>1, <4>2
    <3>3. j \in 1..(task[m] - 1) \/ j = task[m]
      BY <2>2, <3>1, <3>2
    <3>. QED BY <2>2, <3>3 DEF BuildInv, BuiltSoFar, Task
  <2>. QED BY <2>1, <2>2
<1>. QED BY <1>1, <1>2, LocksKeep DEF BuildInv

LEMMA OpenKeeps ==
  ASSUME TypeOK, BuildInv, NEW m \in Modules, pc[m] \notin {"ld", "idle"},
         pc' = [pc EXCEPT ![m] = "open"], holder' = Freed(m), task' = task, probe' = probe
  PROVE  BuildInv'
<1>1. OthersSame(m) /\ pc'[m] \notin Locked
  BY FreedOthersSame DEF TypeOK, Locked
<1>2. BuiltSoFar'
  BY DEF BuildInv, BuiltSoFar, TypeOK
<1>. QED BY <1>1, <1>2, LocksKeep DEF BuildInv

LEMMA FailedKeeps ==
  ASSUME TypeOK, BuildInv, NEW m \in Modules,
         pc[m] \in {"check", "lock", "ada"}, Failed(m), probe' = probe
  PROVE  BuildInv'
<1>1. CASE Task(m).do \in {"compile", "header"} /\ End(m, "fatal")
  BY <1>1, EndKeeps
<1>2. CASE Task(m).do = "run" /\ NextTask(m)
  BY <1>2, NextTaskKeeps
<1>3. CASE /\ pc' = [pc EXCEPT ![m] = "open"] /\ holder' = Freed(m)
           /\ UNCHANGED task
  BY <1>3, OpenKeeps
<1>. QED BY <1>1, <1>2, <1>3 DEF Failed

\* A run that has a lock has it alone: two runs in the commands of one
\* compilation are one run.
LEMMA OneCompiler ==
  ASSUME TypeOK, BuildInv, NEW m \in Modules, NEW n \in Modules,
         pc[m] \in {"compile", "cc", "ld"}, pc[n] \in {"compile", "cc", "ld"},
         Task(m).probe = Task(n).probe
  PROVE  m = n
<1>1. Task(m).do = "compile" /\ Task(n).do = "compile"
  BY DEF BuildInv, HolderMatches, Locked
<1>2. Task(m) = Task(n)
  BY <1>1, TaskFacts DEF Locks
<1>3. holder[LockOf(m)] = m /\ holder[LockOf(n)] = n
  BY DEF BuildInv, HolderMatches, Locked
<1>. QED BY <1>2, <1>3 DEF LockOf

LEMMA InitBuildInv == Init => BuildInv
BY DEF Init, BuildInv, HolderMatches, LinkersOutput, PartialIsOwned, BuiltSoFar, Locked, Partial

\* sd-compile, where the lock is granted and the three commands under it.
LEMMA LockKeeps ==
  ASSUME TypeOK, BuildInv, NEW m \in Modules, Lock(m)
  PROVE  BuildInv'
<1>1. CASE Failed(m)
  BY <1>1, FailedKeeps DEF Lock, At, tools
<1>2. CASE /\ Free(m)
           /\ holder' = [holder EXCEPT ![LockOf(m)] = m]
           /\ pc' = [pc EXCEPT ![m] = Task(m).do] /\ UNCHANGED task
  <2>0. Task(m) \in Locks /\ Task(m).do \in {"compile", "run", "header", "ada"} /\ Nobody \notin Modules
    BY TaskFacts, NamesAssumption DEF NamesAssumption
  <2>1. /\ pc[m] = "lock" /\ pc'[m] = Task(m).do /\ probe' = probe
        /\ \A n \in Modules : Task(n)' = Task(n) /\ LockOf(n)' = LockOf(n)
        /\ \A n \in Modules \ {m} : pc'[n] = pc[n]
    BY <1>2 DEF Lock, At, tools, TypeOK, Task, LockOf
  <2>2. HolderMatches'
    <3>. SUFFICES ASSUME NEW n \in Modules, pc'[n] \in Locked
                  PROVE  /\ holder'[LockOf(n)] = n
                         /\ Task(n).do = IF pc'[n] \in {"run", "header", "ada"} THEN pc'[n] ELSE "compile"
      BY <2>1 DEF HolderMatches
    <3>1. CASE n = m
      BY <1>2, <2>0, <2>1, <3>1 DEF LockOf, TypeOK
    <3>2. CASE n # m
      <4>1. holder[LockOf(n)] = n /\ LockOf(n) # LockOf(m)
        BY <1>2, <2>0, <2>1, <3>2 DEF BuildInv, HolderMatches, Free
      <4>2. LockOf(n) \in Locks /\ holder \in [Locks -> Modules \cup {Nobody}]
        BY TaskFacts DEF LockOf, TypeOK
      <4>3. holder'[LockOf(n)] = n
        BY <1>2, <4>1, <4>2
      <4>. QED BY <2>1, <3>2, <4>3 DEF BuildInv, HolderMatches
    <3>. QED BY <3>1, <3>2
  <2>3. LinkersOutput'
    BY <2>0, <2>1 DEF BuildInv, LinkersOutput
  <2>4. PartialIsOwned'
    <3>1. \A n \in Modules : pc[n] = "ld" => pc'[n] = "ld" /\ Task(n)' = Task(n)
      BY <2>1
    <3>. QED BY <2>1, <3>1, OwnersKeep DEF BuildInv
  <2>5. BuiltSoFar'
    BY <1>2, <2>1 DEF BuildInv, BuiltSoFar
  <2>. QED BY <2>2, <2>3, <2>4, <2>5 DEF BuildInv
<1>. QED BY <1>1, <1>2 DEF Lock

LEMMA CheckProbeKeeps ==
  ASSUME TypeOK, BuildInv, NEW m \in Modules, CheckProbe(m)
  PROVE  BuildInv'
<1>0. /\ pc[m] = "compile" /\ probe' = probe
      /\ Task(m).do = "compile" /\ Task(m).probe \in Probes
      /\ probe[Task(m).probe] \in {"absent", "partial-file", "partial-program", "program"}
  BY TaskFacts DEF CheckProbe, At, tools, BuildInv, HolderMatches, Locked, TypeOK
<1>1. CASE Built(Task(m).probe) /\ NextTask(m)
  <2>1. Safe => probe[Task(m).probe] # "partial-program"
    BY <1>0, OneCompiler DEF BuildInv, PartialIsOwned
  <2>2. Safe => probe[Task(m).probe] = "program"
    BY <1>0, <1>1, <2>1 DEF Built, Executable
  <2>. QED BY <1>0, <1>1, <2>2, NextTaskKeeps
<1>2. CASE ~Built(Task(m).probe) /\ Go(m, "cc")
  <2>1. /\ pc'[m] = "cc" /\ holder' = holder /\ task' = task
        /\ \A n \in Modules : Task(n)' = Task(n) /\ LockOf(n)' = LockOf(n)
        /\ \A n \in Modules \ {m} : pc'[n] = pc[n]
    BY <1>2 DEF Go, TypeOK, Task, LockOf
  <2>2. HolderMatches'
    BY <1>0, <2>1 DEF BuildInv, HolderMatches, Locked
  <2>3. LinkersOutput'
    <3>1. probe[Task(m).probe] # "program"
      BY <1>2 DEF Built, Executable
    <3>. QED BY <1>0, <2>1, <3>1 DEF BuildInv, LinkersOutput
  <2>5. PartialIsOwned'
    <3>1. \A n \in Modules : pc[n] = "ld" => pc'[n] = "ld" /\ Task(n)' = Task(n)
      BY <1>0, <2>1
    <3>. QED BY <1>0, <3>1, OwnersKeep DEF BuildInv
  <2>4. BuiltSoFar'
    BY <1>0, <2>1 DEF BuildInv, BuiltSoFar
  <2>. QED BY <2>2, <2>3, <2>4, <2>5 DEF BuildInv
<1>. QED BY <1>1, <1>2 DEF CheckProbe

LEMMA CompileKeeps ==
  ASSUME TypeOK, BuildInv, NEW m \in Modules, Compile(m)
  PROVE  BuildInv'
<1>0. /\ pc[m] = "cc" /\ Task(m).do = "compile" /\ Task(m).probe \in Probes
      /\ probe[Task(m).probe] # "program"
  BY TaskFacts DEF Compile, At, BuildInv, HolderMatches, LinkersOutput, Locked
<1>1. CASE End(m, "fatal") /\ UNCHANGED probe
  BY <1>0, <1>1, EndKeeps
<1>2. ASSUME Go(m, "ld"), NEW f \in Opened,
             probe' = [probe EXCEPT ![Task(m).probe] = f]
      PROVE  BuildInv'
  <2>1. /\ pc'[m] = "ld" /\ holder' = holder /\ task' = task
        /\ \A n \in Modules : Task(n)' = Task(n) /\ LockOf(n)' = LockOf(n)
        /\ \A n \in Modules \ {m} : pc'[n] = pc[n]
    BY <1>2 DEF Go, TypeOK, Task, LockOf
  <2>2. /\ probe'[Task(m).probe] = f /\ f \in Partial
        /\ \A q \in Probes \ {Task(m).probe} : probe'[q] = probe[q]
    BY <1>0, <1>2, LinkerAssumption DEF TypeOK, LinkerAssumption, Partial
  <2>3. HolderMatches'
    BY <1>0, <2>1 DEF BuildInv, HolderMatches, Locked
  <2>4. LinkersOutput'
    <3>. SUFFICES ASSUME NEW n \in Modules, n # m, pc[n] \in {"cc", "ld"}
                  PROVE  probe'[Task(n).probe] = probe[Task(n).probe]
      BY <2>1, <2>2 DEF BuildInv, LinkersOutput
    <3>1. Task(n).probe \in Probes
      BY TaskFacts DEF BuildInv, HolderMatches, Locked
    <3>. QED BY <1>0, <2>2, <3>1, OneCompiler
  <2>5. PartialIsOwned'
    <3>. SUFFICES ASSUME NEW q \in Probes, Safe, probe'[q] = "partial-program"
                  PROVE  /\ "partial-program" \in Opened
                         /\ \E n \in Modules : pc'[n] = "ld" /\ Task(n)'.probe = q
      BY DEF PartialIsOwned
    <3>1. CASE q = Task(m).probe
      BY <1>2, <2>1, <2>2, <3>1
    <3>2. CASE q # Task(m).probe
      <4>1. "partial-program" \in Opened
        BY <2>2, <3>2 DEF BuildInv, PartialIsOwned
      <4>2. PICK n \in Modules : pc[n] = "ld" /\ Task(n).probe = q
        BY <2>2, <3>2 DEF BuildInv, PartialIsOwned
      <4>3. n # m
        BY <1>0, <4>2
      <4>. QED BY <2>1, <4>1, <4>2, <4>3
    <3>. QED BY <3>1, <3>2
  <2>6. BuiltSoFar'
    <3>. SUFFICES ASSUME NEW n \in Modules, pc'[n] # "idle", NEW j \in 1..(task[n] - 1),
                         Safe, Tasks[j].do = "compile"
                  PROVE  probe'[Tasks[j].probe] = "program"
      BY <2>1 DEF BuiltSoFar
    <3>1. probe[Tasks[j].probe] = "program"
      BY <1>0, <2>1 DEF BuildInv, BuiltSoFar
    <3>2. j \in 1..Len(Tasks)
      BY TaskFacts
    <3>3. Tasks[j].probe \in Probes
      BY <3>2, TasksSeq, TasksAssumption DEF TasksAssumption, TaskSet
    <3>. QED BY <1>0, <2>2, <3>1, <3>3
  <2>. QED BY <2>3, <2>4, <2>5, <2>6 DEF BuildInv
<1>. QED BY <1>1, <1>2 DEF Compile

LEMMA LinkKeeps ==
  ASSUME TypeOK, BuildInv, NEW m \in Modules, Link(m)
  PROVE  BuildInv'
<1>0. /\ pc[m] = "ld" /\ Task(m).do = "compile" /\ Task(m).probe \in Probes
      /\ probe[Task(m).probe] \in Partial
  BY TaskFacts DEF Link, At, BuildInv, HolderMatches, LinkersOutput, Locked
<1>1. /\ OthersSame(m) /\ pc'[m] \in {"idle", "task", "search"} /\ pc'[m] \notin Locked
      /\ \A n \in Modules \ {m} : Task(n)' = Task(n) /\ LockOf(n)' = LockOf(n)
  <2>0. /\ pc = [n \in Modules |-> pc[n]] /\ task = [n \in Modules |-> task[n]]
    BY DEF TypeOK
  <2>a. /\ holder' = Freed(m)
        /\ \E c \in {"idle", "task", "search"} : pc' = [pc EXCEPT ![m] = c]
        /\ task' = task \/ task' = [task EXCEPT ![m] = @ + 1]
    BY DEF Link, NextTask, End
  <2>b. \A n \in Modules \ {m} : pc'[n] = pc[n] /\ task'[n] = task[n]
    BY <2>0, <2>a
  <2>1. OthersSame(m)
    BY <2>a, <2>b, FreedOthersSame
  <2>2. pc'[m] \in {"idle", "task", "search"}
    BY <2>0, <2>a
  <2>. QED BY <2>1, <2>2 DEF OthersSame, Locked, Task, LockOf
<1>2. /\ probe'[Task(m).probe] \in {"absent", "program"}
      /\ \A q \in Probes \ {Task(m).probe} : probe'[q] = probe[q]
  BY <1>0 DEF Link, TypeOK
<1>3. HolderMatches'
  BY <1>1 DEF BuildInv, HolderMatches, OthersSame
<1>4. LinkersOutput'
  <2>. SUFFICES ASSUME NEW n \in Modules, n # m, pc[n] \in {"cc", "ld"}
                PROVE  probe'[Task(n).probe] = probe[Task(n).probe]
    BY <1>1 DEF BuildInv, LinkersOutput, OthersSame, Locked
  <2>1. Task(n).probe \in Probes
    BY TaskFacts DEF BuildInv, HolderMatches, Locked
  <2>. QED BY <1>0, <1>2, <2>1, OneCompiler
<1>5. PartialIsOwned'
  <2>. SUFFICES ASSUME NEW q \in Probes, Safe, probe'[q] = "partial-program"
                PROVE  /\ "partial-program" \in Opened
                       /\ \E n \in Modules : pc'[n] = "ld" /\ Task(n)'.probe = q
    BY DEF PartialIsOwned
  <2>1. q # Task(m).probe /\ probe[q] = "partial-program"
    BY <1>2
  <2>2. "partial-program" \in Opened
    BY <2>1 DEF BuildInv, PartialIsOwned
  <2>3. PICK n \in Modules : pc[n] = "ld" /\ Task(n).probe = q
    BY <2>1 DEF BuildInv, PartialIsOwned
  <2>. QED BY <1>1, <2>1, <2>2, <2>3 DEF OthersSame
<1>6. BuiltSoFar'
  <2>. SUFFICES ASSUME NEW n \in Modules, pc'[n] # "idle", NEW j \in 1..(task'[n] - 1),
                       Safe, Tasks[j].do = "compile"
                PROVE  probe'[Tasks[j].probe] = "program"
    BY DEF BuiltSoFar
  <2>0. task[n] \in 1..Len(Tasks) /\ Len(Tasks) \in Nat
    BY TaskFacts
  <2>1. ASSUME NEW i \in 1..(task[n] - 1), Tasks[i].do = "compile", pc[n] # "idle"
        PROVE  probe'[Tasks[i].probe] = "program"
    <3>1. probe[Tasks[i].probe] = "program"
      BY <2>1 DEF BuildInv, BuiltSoFar
    <3>2. Tasks[i].probe \in Probes
      BY <2>0, <2>1, TasksSeq, TasksAssumption DEF TasksAssumption, TaskSet
    <3>. QED BY <1>0, <1>2, <3>1, <3>2 DEF Partial
  <2>2. CASE n # m
    BY <1>1, <2>1, <2>2 DEF OthersSame
  <2>3. CASE n = m
    <3>1. NextTask(m) /\ probe'[Task(m).probe] = "program"
      BY <1>0, <2>3 DEF Link, End, TypeOK
    <3>2. task'[m] \in {task[m], task[m] + 1}
      BY <3>1 DEF NextTask, TypeOK
    <3>3. j \in 1..(task[m] - 1) \/ j = task[m]
      BY <2>0, <2>3, <3>2
    <3>. QED BY <1>0, <2>1, <2>3, <3>1, <3>3 DEF Task
  <2>. QED BY <2>2, <2>3
<1>. QED BY <1>3, <1>4, <1>5, <1>6 DEF BuildInv

\* The answer about the Ada compiler is written in the task that asks for it.
AdaInHand == \A m \in Modules : pc[m] \in {"open", "write"} => Task(m).do = "ada"

LEMMA NextAdaInHand ==
  ASSUME TypeOK, BuildInv, AdaInHand, [Next]_vars
  PROVE  AdaInHand'
<1>1. CASE UNCHANGED vars
  BY <1>1 DEF vars, AdaInHand, Task
<1>2. CASE Clean
  BY <1>2 DEF Clean, AdaInHand, Task
<1>3. ASSUME NEW m \in Modules,
             \A n \in Modules \ {m} : pc'[n] = pc[n] /\ task'[n] = task[n],
             pc'[m] \in {"open", "write"} => task'[m] = task[m] /\ Task(m).do = "ada"
      PROVE  AdaInHand'
  BY <1>3 DEF AdaInHand, Task
<1>4. ASSUME NEW m \in Modules, Start(m) \/ Kill(m) PROVE AdaInHand'
  <2>1. \A n \in Modules \ {m} : pc'[n] = pc[n] /\ task'[n] = task[n]
    BY <1>4 DEF Start, Kill, End, TypeOK
  <2>2. pc'[m] \notin {"open", "write"}
    BY <1>4 DEF Start, Kill, End, TypeOK
  <2>. QED BY <1>3, <2>1, <2>2
<1>5. ASSUME NEW m \in Modules, Proceeds(m) PROVE AdaInHand'
  <2>0. ASSUME NEW c, Go(m, c), c \notin {"open", "write"} PROVE AdaInHand'
    BY <1>3, <2>0 DEF Go, TypeOK
  <2>1. ASSUME NEW how, End(m, how) PROVE AdaInHand'
    BY <1>3, <2>1 DEF End, TypeOK
  <2>2. ASSUME NextTask(m) PROVE AdaInHand'
    <3>1. pc'[m] \notin {"open", "write"}
      BY <2>2 DEF NextTask, TypeOK
    <3>. QED BY <1>3, <2>2, <3>1 DEF NextTask, TypeOK
  <2>3. ASSUME Task(m).do = "ada", pc' = [pc EXCEPT ![m] = "open"], task' = task
        PROVE  AdaInHand'
    BY <1>3, <2>3 DEF TypeOK
  <2>4. ASSUME Failed(m) PROVE AdaInHand'
    BY <2>1, <2>2, <2>3, <2>4 DEF Failed
  <2>5. CASE CheckStatusDirectory(m) \/ MakeStatusDirectory(m) \/ BeginTask(m)
    BY <2>0, <2>1, <2>2, <2>5 DEF CheckStatusDirectory, MakeStatusDirectory, BeginTask
  <2>6. CASE MakeLocker(m) \/ MoveLocker(m) \/ CheckLocker(m)
    BY <2>0, <2>1, <2>2, <2>4, <2>6 DEF MakeLocker, LockerFails, MoveLocker, CheckLocker
  <2>7. CASE Lock(m)
    <3>1. CASE pc' = [pc EXCEPT ![m] = Task(m).do] /\ UNCHANGED task
      <4>1. pc'[m] \notin {"open", "write"}
        BY <3>1, TaskFacts DEF TypeOK
      <4>. QED BY <1>3, <3>1, <4>1 DEF TypeOK
    <3>. QED BY <2>4, <2>7, <3>1 DEF Lock
  <2>8. CASE CheckProbe(m) \/ Compile(m) \/ Link(m) \/ RunProbe(m) \/ MakeHeader(m)
    BY <2>0, <2>1, <2>2, <2>8 DEF CheckProbe, Compile, Link, RunProbe, MakeHeader
  <2>9. CASE RunAdaVersion(m)
    <3>1. Task(m).do = "ada"
      BY <2>9 DEF RunAdaVersion, At, BuildInv, HolderMatches, Locked
    <3>. QED BY <2>3, <2>4, <2>9, <3>1 DEF RunAdaVersion
  <2>10. CASE OpenAdaOut(m)
    BY <1>3, <2>10 DEF OpenAdaOut, Go, At, AdaInHand, TypeOK
  <2>11. CASE WriteAdaOut(m)
    BY <2>2, <2>11 DEF WriteAdaOut
  <2>12. CASE Search(m) \/ MoveFiles(m) \/ MarkModule(m)
    BY <2>0, <2>1, <2>12 DEF Search, MoveFiles, MarkModule
  <2>. QED BY <1>5, <2>5, <2>6, <2>7, <2>8, <2>9, <2>10, <2>11, <2>12 DEF Proceeds
<1>. QED BY <1>1, <1>2, <1>4, <1>5 DEF Next

\* A linker that is killed leaves what it has written.
LEMMA KillKeeps ==
  ASSUME TypeOK, BuildInv, NEW m \in Modules, Kill(m)
  PROVE  BuildInv'
<1>1. OthersSame(m) /\ pc'[m] = "idle" /\ probe' = probe
  BY FreedOthersSame DEF TypeOK, Kill, End, tools
<1>2. \A n \in Modules \ {m} : Task(n)' = Task(n) /\ LockOf(n)' = LockOf(n)
  BY <1>1 DEF OthersSame, Task, LockOf
<1>3. HolderMatches' /\ LinkersOutput'
  BY <1>1, <1>2 DEF BuildInv, HolderMatches, LinkersOutput, OthersSame, Locked
<1>4. Safe => "partial-program" \notin Opened
  <2>1. kills \in 0..MaxKills /\ kills < MaxKills
    BY DEF Kill, TypeOK
  <2>2. MaxKills \in Nat
    BY BoundsAssumption DEF BoundsAssumption
  <2>3. MaxKills # 0
    BY <2>1, <2>2
  <2>. QED BY <2>3 DEF Safe
<1>5. PartialIsOwned' /\ BuiltSoFar'
  BY <1>1, <1>4 DEF BuildInv, PartialIsOwned, BuiltSoFar, OthersSame
<1>. QED BY <1>3, <1>5 DEF BuildInv

LEMMA NextBuildInv ==
  ASSUME TypeOK, BuildInv, AdaInHand, [Next]_vars
  PROVE  BuildInv'
<1>. USE DEF tools
<1>1. CASE UNCHANGED vars
  BY <1>1 DEF vars, BuildInv, HolderMatches, LinkersOutput, PartialIsOwned, BuiltSoFar,
              Task, LockOf
<1>2. CASE Clean
  BY <1>2 DEF Clean, At, BuildInv, HolderMatches, LinkersOutput, PartialIsOwned, BuiltSoFar,
              Locked, Partial
<1>3. ASSUME NEW m \in Modules, Start(m) PROVE BuildInv'
  <2>1. OthersSame(m) /\ pc'[m] = "boot" /\ task'[m] = 1 /\ pc[m] = "idle" /\ probe' = probe
    BY <1>3 DEF Start, At, TypeOK, OthersSame
  <2>2. BuiltSoFar'
    BY <2>1 DEF BuildInv, BuiltSoFar, OthersSame
  <2>. QED BY <2>1, <2>2, LocksKeep DEF BuildInv, Locked
<1>4. ASSUME NEW m \in Modules, Kill(m) PROVE BuildInv'
  BY <1>4, KillKeeps
<1>5. ASSUME NEW m \in Modules, Proceeds(m) PROVE BuildInv'
  <2>1. CASE CheckStatusDirectory(m)
    BY <2>1, GoKeeps DEF CheckStatusDirectory, At, Locked
  <2>2. CASE MakeStatusDirectory(m)
    BY <2>2, GoKeeps, EndKeeps DEF MakeStatusDirectory, At, Locked
  <2>3. CASE BeginTask(m)
    BY <2>3, GoKeeps, NextTaskKeeps DEF BeginTask, At, Locked
  <2>4. CASE MakeLocker(m)
    BY <2>4, GoKeeps, EndKeeps, NextTaskKeeps DEF MakeLocker, LockerFails, At, Locked
  <2>5. CASE MoveLocker(m)
    BY <2>5, GoKeeps DEF MoveLocker, At, Locked
  <2>6. CASE CheckLocker(m)
    BY <2>6, GoKeeps, FailedKeeps DEF CheckLocker, At, Locked
  <2>7. CASE Lock(m)
    BY <2>7, LockKeeps
  <2>8. CASE CheckProbe(m)
    BY <2>8, CheckProbeKeeps
  <2>9. CASE Compile(m)
    BY <2>9, CompileKeeps
  <2>10. CASE Link(m)
    BY <2>10, LinkKeeps
  <2>11. CASE RunProbe(m)
    <3>1. Task(m).do = "run"
      BY <2>11 DEF RunProbe, At, BuildInv, HolderMatches, Locked
    <3>. QED BY <2>11, <3>1, NextTaskKeeps DEF RunProbe, At
  <2>18. CASE MakeHeader(m)
    <3>1. Task(m).do = "header"
      BY <2>18 DEF MakeHeader, At, BuildInv, HolderMatches, Locked
    <3>. QED BY <2>18, <3>1, NextTaskKeeps, EndKeeps DEF MakeHeader, At
  <2>12. CASE RunAdaVersion(m)
    BY <2>12, OpenKeeps, FailedKeeps DEF RunAdaVersion, At
  <2>13. CASE OpenAdaOut(m)
    BY <2>13, GoKeeps DEF OpenAdaOut, At, Locked
  <2>14. CASE WriteAdaOut(m)
    <3>1. Task(m).do # "compile"
      BY <2>14 DEF WriteAdaOut, At, AdaInHand
    <3>. QED BY <2>14, <3>1, NextTaskKeeps DEF WriteAdaOut, At
  <2>15. CASE Search(m)
    BY <2>15, GoKeeps, EndKeeps DEF Search, At, Locked
  <2>16. CASE MoveFiles(m)
    BY <2>16, GoKeeps, EndKeeps DEF MoveFiles, At, Locked
  <2>17. CASE MarkModule(m)
    BY <2>17, GoKeeps, EndKeeps DEF MarkModule, At, Locked
  <2>. QED BY <1>5, <2>1, <2>2, <2>3, <2>4, <2>5, <2>6, <2>7, <2>8, <2>9, <2>10, <2>11,
              <2>12, <2>13, <2>14, <2>15, <2>16, <2>17, <2>18 DEF Proceeds
<1>. QED BY <1>1, <1>2, <1>3, <1>4, <1>5 DEF Next

\* Every probe that is asked for has been compiled before.
LEMMA BuildInvImplies ==
  ASSUME Safe, TypeOK, BuildInv
  PROVE  CompleteWhenUsed
<1>. SUFFICES ASSUME NEW m \in Modules, pc[m] = "run"
              PROVE  probe[Task(m).probe] = "program"
  BY DEF CompleteWhenUsed, At
<1>1. Task(m).do = "run" /\ task[m] \in 1..Len(Tasks)
  BY TaskFacts DEF BuildInv, HolderMatches, Locked
<1>2. PICK j \in 1..(task[m] - 1) : Tasks[j] = [do |-> "compile", probe |-> Task(m).probe]
  BY <1>1, TasksAssumption DEF TasksAssumption, Task
<1>. QED BY <1>2 DEF BuildInv, BuiltSoFar

\* No run executes a probe that another is still writing or that a failed linker
\* left, however many runs there are and whatever fails: the promise of the comment
\* at sysdep-system:179.  It holds when no run is killed, and when runs are killed
\* if the linker makes its output executable only when it is done.
THEOREM CompleteProbes ==
  ASSUME MaxKills = 0 \/ "partial-program" \notin Opened
  PROVE  Spec => []CompleteWhenUsed
<1>1. Init => TypeOK /\ BuildInv /\ AdaInHand
  BY InitTypeOK, InitBuildInv DEF Init, AdaInHand
<1>2. (TypeOK /\ BuildInv /\ AdaInHand) /\ [Next]_vars => (TypeOK /\ BuildInv /\ AdaInHand)'
  BY NextTypeOK, NextBuildInv, NextAdaInHand
<1>3. TypeOK /\ BuildInv => CompleteWhenUsed
  BY BuildInvImplies DEF Safe
<1>. QED BY <1>1, <1>2, <1>3, PTL DEF Spec

\* A whole probe is written again by no step of a run, only removed by sd-clean when
\* nothing runs.
LEMMA StepNeverRebuilds ==
  ASSUME TypeOK, BuildInv, [Next]_vars
  PROVE  \A q \in Probes : probe[q] = "program" /\ probe'[q] # "program" =>
           probe'[q] = "absent" /\ \A m \in Modules : At(m, "idle")
<1>1. CASE probe' = probe
  BY <1>1
<1>2. CASE Clean
  BY <1>2 DEF Clean
<1>3. ASSUME NEW m \in Modules, Compile(m) \/ Link(m)
      PROVE  \A q \in Probes : probe[q] = "program" => probe'[q] = "program"
  <2>1. probe[Task(m).probe] # "program"
    BY <1>3 DEF Compile, Link, At, BuildInv, LinkersOutput, Partial
  <2>2. \A q \in Probes : q # Task(m).probe => probe'[q] = probe[q]
    BY <1>3 DEF Compile, Link, TypeOK
  <2>. QED BY <2>1, <2>2
<1>4. ASSUME NEW m \in Modules, Start(m) \/ Kill(m) PROVE probe' = probe
  BY <1>4 DEF Start, Kill, tools
<1>5. ASSUME NEW m \in Modules, Proceeds(m), ~Compile(m), ~Link(m) PROVE probe' = probe
  BY <1>5 DEF Proceeds, CheckStatusDirectory, MakeStatusDirectory, BeginTask, MakeLocker,
     MoveLocker, CheckLocker, Lock, CheckProbe, RunProbe, MakeHeader, RunAdaVersion, OpenAdaOut,
     WriteAdaOut, Search, MoveFiles, MarkModule, tools
<1>6. CASE UNCHANGED vars
  BY <1>1, <1>6 DEF vars
<1>. QED BY <1>1, <1>2, <1>3, <1>4, <1>5, <1>6 DEF Next

\* "They will not be compiled if they already exist" (sysdep-system:176), for any
\* number of runs, whatever fails, whoever is killed and whatever a linker leaves.
THEOREM ProbesStay == Spec => NeverRebuilt
<1>1. Init => TypeOK /\ BuildInv /\ AdaInHand
  BY InitTypeOK, InitBuildInv DEF Init, AdaInHand
<1>2. (TypeOK /\ BuildInv /\ AdaInHand) /\ [Next]_vars => (TypeOK /\ BuildInv /\ AdaInHand)'
  BY NextTypeOK, NextBuildInv, NextAdaInHand
<1>3. TypeOK /\ BuildInv /\ [Next]_vars =>
        [\A q \in Probes : probe[q] = "program" /\ probe'[q] # "program" =>
           probe'[q] = "absent" /\ \A m \in Modules : At(m, "idle")]_vars
  BY StepNeverRebuilds
<1>. QED BY <1>1, <1>2, <1>3, PTL DEF Spec, NeverRebuilt

----------------------------------------------------------------------------
(* A run to its end *)

\* What a step of m leaves to the other runs, and to all of them.
Alone(m) ==
  /\ \A n \in Modules \ {m} :
       pc'[n] = pc[n] /\ task'[n] = task[n] /\ result'[n] = result[n]
  /\ locker => locker'
  /\ starts' = starts

LEMMA GoAlone ==
  ASSUME TypeOK, NEW m \in Modules, NEW c, Go(m, c), locker => locker', starts' = starts
  PROVE  Alone(m) /\ pc'[m] = c /\ task'[m] = task[m] /\ result'[m] = result[m]
BY DEF TypeOK, Go, Alone

LEMMA EndAlone ==
  ASSUME TypeOK, NEW m \in Modules, NEW how, End(m, how), locker => locker', starts' = starts
  PROVE  Alone(m) /\ pc'[m] = "idle" /\ result'[m] = how
BY DEF TypeOK, End, Alone

LEMMA NextTaskAlone ==
  ASSUME TypeOK, NEW m \in Modules, NextTask(m), locker => locker', starts' = starts
  PROVE  Alone(m) /\ pc'[m] \in {"task", "search"} /\ result'[m] = result[m]
BY DEF TypeOK, NextTask, Alone

LEMMA FailedAlone ==
  ASSUME TypeOK, NEW m \in Modules, Failed(m), locker => locker', starts' = starts
  PROVE  /\ Alone(m) /\ pc'[m] \in {"idle", "task", "search", "open"}
         /\ pc'[m] = "idle" \/ result'[m] = result[m]
<1>1. CASE Task(m).do \in {"compile", "header"} /\ End(m, "fatal")
  BY <1>1, EndAlone
<1>2. CASE NextTask(m)
  BY <1>2, NextTaskAlone
<1>3. CASE /\ pc' = [pc EXCEPT ![m] = "open"] /\ UNCHANGED <<task, result>>
  BY <1>3 DEF TypeOK, Alone
<1>. QED BY <1>1, <1>2, <1>3 DEF Failed

\* What no step of a run changes but the two that make something.
LEMMA ProceedsKeeps ==
  ASSUME TypeOK, NEW m \in Modules, Proceeds(m)
  PROVE  /\ locker => locker'
         /\ starts' = starts
         /\ statusDir' # statusDir => MakeStatusDirectory(m)
<1>. USE DEF tools, kept
<1>1. CASE MoveLocker(m)
  <2>1. locker' = TRUE \/ locker' = locker
    BY <1>1 DEF MoveLocker
  <2>2. starts' = starts /\ statusDir' = statusDir
    BY <1>1 DEF MoveLocker
  <2>. QED BY <2>1, <2>2
<1>2. CASE Compile(m) \/ Link(m) \/ OpenAdaOut(m) \/ WriteAdaOut(m) \/ MakeStatusDirectory(m)
  <2>1. locker' = locker /\ starts' = starts
    BY <1>2 DEF Compile, Link, OpenAdaOut, WriteAdaOut, MakeStatusDirectory
  <2>2. statusDir' = statusDir \/ MakeStatusDirectory(m)
    BY <1>2 DEF Compile, Link, OpenAdaOut, WriteAdaOut
  <2>. QED BY <2>1, <2>2
<1>3. ASSUME UNCHANGED tools, UNCHANGED kept PROVE UNCHANGED <<locker, starts, statusDir>>
  BY <1>3
<1>4. CASE ~MoveLocker(m) /\ ~Compile(m) /\ ~Link(m) /\ ~OpenAdaOut(m) /\ ~WriteAdaOut(m)
           /\ ~MakeStatusDirectory(m)
  <2>1. UNCHANGED <<locker, starts, statusDir>>
    BY <1>4 DEF Proceeds, CheckStatusDirectory, BeginTask, MakeLocker, CheckLocker, Lock,
         CheckProbe, RunProbe, MakeHeader, RunAdaVersion, Search, MoveFiles, MarkModule
  <2>. QED BY <2>1
<1>. QED BY <1>1, <1>2, <1>4

\* How a run goes on: where it may be after a step, and what must have been.
Onward(m) ==
  /\ Alone(m)
  /\ pc'[m] # "boot" /\ (pc'[m] = "idle" \/ result'[m] = result[m])
  /\ pc'[m] = "mkdir" => ~statusDir /\ statusDir' = statusDir
  /\ statusDir' # statusDir =>
       statusDir' = TRUE /\ pc'[m] = "task" /\ result'[m] = result[m]
  /\ pc'[m] = "lock" =>
       task'[m] = task[m] /\ (locker' \/ Task(m).do = "ada") /\ At(m, "check")
  /\ pc'[m] = "check" => (At(m, "task") /\ locker) \/ At(m, "move-locker")

LEMMA ProceedsAlone ==
  ASSUME TypeOK, NEW m \in Modules, Proceeds(m)
  PROVE  Onward(m)
<1>0. (locker => locker') /\ starts' = starts
  BY ProceedsKeeps
<1>a. ASSUME NEW c, Go(m, c), c \notin {"boot", "mkdir", "lock", "check"}, statusDir' = statusDir
      PROVE  Onward(m)
  BY <1>a, <1>0, GoAlone DEF Onward
<1>b. ASSUME NEW how, End(m, how), statusDir' = statusDir
      PROVE  Onward(m)
  BY <1>b, <1>0, EndAlone DEF Onward
<1>c. ASSUME NextTask(m), statusDir' = statusDir
      PROVE  Onward(m)
  BY <1>c, <1>0, NextTaskAlone DEF Onward
<1>d. ASSUME Failed(m), statusDir' = statusDir
      PROVE  Onward(m)
  BY <1>d, <1>0, FailedAlone DEF Onward
<1>. USE DEF tools, kept, results
<1>1. CASE CheckStatusDirectory(m)
  <2>1. PICK c \in {"task", "mkdir"} : Go(m, c) /\ (c = "mkdir" => ~statusDir)
    BY <1>1 DEF CheckStatusDirectory
  <2>2. statusDir' = statusDir
    BY <1>1 DEF CheckStatusDirectory
  <2>3. pc'[m] = c /\ Alone(m) /\ result'[m] = result[m]
    BY <1>0, <2>1, GoAlone
  <2>. QED BY <2>1, <2>2, <2>3 DEF Onward
<1>2. CASE MakeStatusDirectory(m)
  <2>1. CASE ~statusDir /\ statusDir' = TRUE /\ Go(m, "task")
    <3>1. Alone(m) /\ pc'[m] = "task" /\ result'[m] = result[m]
      BY <1>0, <2>1, GoAlone
    <3>. QED BY <2>1, <3>1 DEF Onward
  <2>. QED BY <1>2, <1>b, <2>1 DEF MakeStatusDirectory
<1>3. CASE BeginTask(m)
  <2>1. statusDir' = statusDir /\ At(m, "task")
    BY <1>3 DEF BeginTask
  <2>2. CASE locker /\ Go(m, "check")
    <3>1. Alone(m) /\ pc'[m] = "check" /\ result'[m] = result[m]
      BY <1>0, <2>2, GoAlone
    <3>. QED BY <2>1, <2>2, <3>1 DEF Onward
  <2>3. CASE NextTask(m) \/ Go(m, "make-locker")
    BY <1>a, <1>c, <2>1, <2>3
  <2>. QED BY <1>3, <2>2, <2>3 DEF BeginTask
<1>4. CASE MakeLocker(m)
  BY <1>4, <1>a, <1>b, <1>c DEF MakeLocker, LockerFails
<1>5. CASE MoveLocker(m)
  <2>1. statusDir' = statusDir /\ At(m, "move-locker") /\ Go(m, "check")
    BY <1>5 DEF MoveLocker
  <2>2. Alone(m) /\ pc'[m] = "check" /\ result'[m] = result[m]
    BY <1>0, <2>1, GoAlone
  <2>. QED BY <2>1, <2>2 DEF Onward
<1>6. CASE CheckLocker(m)
  <2>1. statusDir' = statusDir /\ locker' = locker /\ At(m, "check")
    BY <1>6 DEF CheckLocker
  <2>2. CASE (locker \/ Task(m).do = "ada") /\ Go(m, "lock")
    <3>1. Alone(m) /\ pc'[m] = "lock" /\ task'[m] = task[m] /\ result'[m] = result[m]
      BY <1>0, <2>2, GoAlone
    <3>. QED BY <2>1, <2>2, <3>1 DEF Onward
  <2>. QED BY <1>6, <1>d, <2>1, <2>2 DEF CheckLocker, HasLocker
<1>7. CASE Lock(m)
  <2>0. statusDir' = statusDir
    BY <1>7 DEF Lock
  <2>1. CASE /\ pc' = [pc EXCEPT ![m] = Task(m).do] /\ UNCHANGED <<task, result>>
    <3>1. pc'[m] \in {"compile", "run", "header", "ada"}
      BY <2>1, TaskFacts DEF TypeOK
    <3>2. Alone(m) /\ result'[m] = result[m]
      BY <1>0, <2>1 DEF Alone, TypeOK
    <3>. QED BY <2>0, <3>1, <3>2 DEF Onward
  <2>. QED BY <1>7, <1>d, <2>0, <2>1 DEF Lock
<1>8. CASE CheckProbe(m) \/ Compile(m) \/ Link(m)
  BY <1>8, <1>a, <1>b, <1>c DEF CheckProbe, Compile, Link
<1>9. CASE RunProbe(m) \/ MakeHeader(m)
  BY <1>9, <1>b, <1>c DEF RunProbe, MakeHeader
<1>10. CASE RunAdaVersion(m)
  <2>0. statusDir' = statusDir
    BY <1>10 DEF RunAdaVersion
  <2>1. CASE /\ pc' = [pc EXCEPT ![m] = "open"] /\ UNCHANGED <<task, result>>
    <3>1. pc'[m] = "open" /\ Alone(m) /\ result' = result
      BY <1>0, <2>1 DEF Alone, TypeOK
    <3>. QED BY <2>0, <3>1 DEF Onward
  <2>. QED BY <1>10, <1>d, <2>0, <2>1 DEF RunAdaVersion
<1>11. CASE OpenAdaOut(m) \/ WriteAdaOut(m)
  BY <1>11, <1>a, <1>c DEF OpenAdaOut, WriteAdaOut
<1>12. CASE Search(m)
  BY <1>12, <1>a, <1>b DEF Search
<1>13. CASE MoveFiles(m) \/ MarkModule(m)
  BY <1>13, <1>a, <1>b DEF MoveFiles, MarkModule
<1>. QED BY <1>1, <1>2, <1>3, <1>4, <1>5, <1>6, <1>7, <1>8, <1>9, <1>10, <1>11, <1>12,
            <1>13 DEF Proceeds
----------------------------------------------------------------------------
(* sd-locker is there *)

LEMMA NextLocker ==
  ASSUME TypeOK, LockerExistsWhenUsed, [Next]_vars
  PROVE  LockerExistsWhenUsed'
<1>1. CASE UNCHANGED vars
  BY <1>1 DEF vars, LockerExistsWhenUsed, At, Task
<1>2. CASE Clean
  BY <1>2 DEF Clean, LockerExistsWhenUsed, At
<1>3. ASSUME NEW m \in Modules, Alone(m),
             pc'[m] = "lock" => task'[m] = task[m] /\ (locker' \/ Task(m).do = "ada")
      PROVE  LockerExistsWhenUsed'
  <2>. SUFFICES ASSUME NEW n \in Modules, pc'[n] = "lock"
                PROVE  locker' \/ Task(n)'.do = "ada"
    BY DEF LockerExistsWhenUsed, At
  <2>1. CASE n = m
    BY <1>3, <2>1 DEF Task
  <2>2. CASE n # m
    BY <1>3, <2>2 DEF Alone, LockerExistsWhenUsed, At, Task
  <2>. QED BY <2>1, <2>2
<1>4. ASSUME NEW m \in Modules, Start(m) PROVE LockerExistsWhenUsed'
  <2>1. \A n \in Modules \ {m} : pc'[n] = pc[n] /\ task'[n] = task[n]
    BY <1>4 DEF Start, TypeOK
  <2>2. pc'[m] = "boot" /\ locker' = locker
    BY <1>4 DEF Start, TypeOK, tools
  <2>. QED BY <2>1, <2>2 DEF LockerExistsWhenUsed, At, Task
<1>5. ASSUME NEW m \in Modules, Kill(m) PROVE LockerExistsWhenUsed'
  <2>1. \A n \in Modules \ {m} : pc'[n] = pc[n] /\ task'[n] = task[n]
    BY <1>5 DEF Kill, End, TypeOK
  <2>2. pc'[m] = "idle" /\ locker' = locker
    BY <1>5 DEF Kill, End, TypeOK, tools
  <2>. QED BY <2>1, <2>2 DEF LockerExistsWhenUsed, At, Task
<1>6. ASSUME NEW m \in Modules, Proceeds(m) PROVE LockerExistsWhenUsed'
  BY <1>3, <1>6, ProceedsAlone DEF Onward
<1>. QED BY <1>1, <1>2, <1>4, <1>5, <1>6 DEF Next

\* sd-locker is never called before some run has put it in place, except for
\* sd-adaversion, whatever fails, whoever is killed and however many runs there
\* are: only sd-clean takes it away, when nothing runs.
THEOREM LockerThere == Spec => []LockerExistsWhenUsed
<1>1. Init => LockerExistsWhenUsed
  BY DEF Init, LockerExistsWhenUsed, At
<1>2. TypeOK /\ LockerExistsWhenUsed /\ [Next]_vars => LockerExistsWhenUsed'
  BY NextLocker
<1>. QED BY <1>1, <1>2, TypeCorrect, PTL DEF Spec

----------------------------------------------------------------------------
(* A fatal run has a cause *)

\* A run that is going on has been started and is not fatal.
GoingOn == \A m \in Modules : pc[m] # "idle" => starts[m] # 0 /\ result[m] = "running"

\* While no command has failed, sd-locker is there from the moment it is looked
\* for, and whoever finds the status directory made behind its back was
\* overtaken by a run that is not in the same position.
Quiet ==
  faults = 0 =>
    /\ \A m \in Modules : pc[m] \in {"check", "lock"} => locker
    /\ statusDir => \A m \in Modules : pc[m] = "mkdir" =>
         \E n \in Modules \ {m} : starts[n] # 0 /\ result[n] # "fatal" /\ pc[n] # "mkdir"

LEMMA ProceedsRuns ==
  ASSUME NEW m \in Modules, Proceeds(m)
  PROVE  pc[m] # "idle"
BY DEF Proceeds, CheckStatusDirectory, MakeStatusDirectory, BeginTask, MakeLocker, MoveLocker,
       CheckLocker, Lock, CheckProbe, Compile, Link, RunProbe, MakeHeader, RunAdaVersion, OpenAdaOut,
       WriteAdaOut, Search, MoveFiles, MarkModule, At

LEMMA NextGoingOn ==
  ASSUME TypeOK, GoingOn, [Next]_vars
  PROVE  GoingOn'
<1>1. CASE UNCHANGED vars
  BY <1>1 DEF vars, GoingOn
<1>2. CASE Clean
  BY <1>2 DEF Clean, GoingOn, At
<1>3. ASSUME NEW m \in Modules, Start(m) PROVE GoingOn'
  <2>1. starts'[m] # 0 /\ result'[m] = "running"
    <3>1. starts[m] \in 0..MaxStarts /\ MaxStarts \in Nat /\ starts \in [Modules -> 0..MaxStarts]
      BY BoundsAssumption DEF TypeOK, BoundsAssumption
    <3>2. starts[m] + 1 # 0
      BY <3>1
    <3>. QED BY <1>3, <3>1, <3>2 DEF Start, TypeOK
  <2>2. \A n \in Modules \ {m} :
          pc'[n] = pc[n] /\ starts'[n] = starts[n] /\ result'[n] = result[n]
    BY <1>3 DEF Start, TypeOK
  <2>. QED BY <2>1, <2>2 DEF GoingOn
<1>4. ASSUME NEW m \in Modules, Kill(m) PROVE GoingOn'
  BY <1>4 DEF Kill, End, GoingOn, TypeOK
<1>5. ASSUME NEW m \in Modules, Proceeds(m) PROVE GoingOn'
  <2>1. Onward(m) /\ pc[m] # "idle"
    BY <1>5, ProceedsAlone, ProceedsRuns
  <2>. QED BY <2>1 DEF Onward, Alone, GoingOn
<1>. QED BY <1>1, <1>2, <1>3, <1>4, <1>5 DEF Next

\* A step that leaves no failed command behind.
LEMMA NoFault ==
  ASSUME TypeOK, faults' = 0, NEW kind
  PROVE  ~Breaks(kind) /\ (Works => faults = 0)
<1>1. faults \in 0..MaxFaults /\ MaxFaults \in Nat
  BY BoundsAssumption DEF TypeOK, BoundsAssumption
<1>. QED BY <1>1 DEF Breaks, Works

LEMMA QuietStep ==
  ASSUME TypeOK, NEW m \in Modules, Proceeds(m), faults' = 0
  PROVE  faults = 0
<1>0. \A kind : ~Breaks(kind)
  BY NoFault
<1>1. Works => faults = 0
  BY NoFault
<1>2. Works
  BY <1>0 DEF Proceeds, CheckStatusDirectory, MakeStatusDirectory, BeginTask, MakeLocker,
     MoveLocker, CheckLocker, Lock, CheckProbe, Compile, Link, RunProbe, MakeHeader, RunAdaVersion,
     OpenAdaOut, WriteAdaOut, Search, MoveFiles, MarkModule
<1>. QED BY <1>1, <1>2

\* Such a step of a run is fatal only where the status directory is made.
LEMMA QuietFatal ==
  ASSUME TypeOK, Quiet, NEW m \in Modules, Proceeds(m), faults' = 0,
         pc[m] = "header" => Valued(m)
  PROVE  /\ faults = 0
         /\ pc'[m] \in {"check", "lock"} => locker'
         /\ pc[m] # "mkdir" => (result'[m] = result[m] \/ result'[m] = "done")
<1>. DEFINE Fine == result'[m] = result[m] \/ result'[m] = "done"
<1>0. \A kind : ~Breaks(kind)
  BY NoFault
<1>2. \A c : Go(m, c) => Fine /\ pc'[m] = c
  BY DEF Go, TypeOK
<1>3. NextTask(m) => Fine /\ pc'[m] \notin {"check", "lock"}
  BY DEF NextTask, TypeOK
<1>4. End(m, "done") => Fine /\ pc'[m] \notin {"check", "lock"}
  BY DEF End, TypeOK
<1>5. faults = 0
  BY QuietStep
<1>6. pc[m] \in {"check", "lock"} => locker
  BY <1>5 DEF Quiet
<1>. USE DEF At
<1>. HIDE DEF Fine
<1>7. CASE pc[m] = "mkdir"
  <2>1. MakeStatusDirectory(m)
    BY <1>7 DEF Proceeds, CheckStatusDirectory, BeginTask, MakeLocker,
       MoveLocker, CheckLocker, Lock, CheckProbe, Compile, Link, RunProbe, MakeHeader, RunAdaVersion,
       OpenAdaOut, WriteAdaOut, Search, MoveFiles, MarkModule
  <2>2. pc'[m] \notin {"check", "lock"}
    BY <2>1 DEF MakeStatusDirectory, Go, End, TypeOK
  <2>. QED BY <1>5, <1>7, <2>2
<1>8. CASE CheckStatusDirectory(m)
  <2>1. PICK c \in {"task", "mkdir"} : Go(m, c)
    BY <1>8 DEF CheckStatusDirectory
  <2>. QED BY <1>2, <1>5, <2>1 DEF Fine
<1>9. CASE BeginTask(m)
  <2>1. locker' = locker
    BY <1>9 DEF BeginTask, tools
  <2>2. CASE NextTask(m)
    BY <1>3, <1>5, <2>2 DEF Fine
  <2>3. CASE \E c \in {"make-locker", "check"} : Go(m, c) /\ (c = "check" => locker)
    <3>1. PICK c \in {"make-locker", "check"} : Go(m, c) /\ (c = "check" => locker)
      BY <2>3
    <3>. QED BY <1>2, <1>5, <2>1, <3>1 DEF Fine
  <2>. QED BY <1>9, <2>2, <2>3 DEF BeginTask
<1>10. CASE MakeLocker(m)
  <2>1. PICK c \in {"move-locker"} : Go(m, c)
    BY <1>0, <1>10 DEF MakeLocker
  <2>. QED BY <1>2, <1>5, <2>1 DEF Fine
<1>11. CASE MoveLocker(m)
  <2>1. locker' = TRUE /\ Go(m, "check")
    BY <1>0, <1>11 DEF MoveLocker
  <2>. QED BY <1>2, <1>5, <2>1 DEF Fine
<1>12. CASE CheckLocker(m)
  <2>1. Go(m, "lock") /\ locker' = locker
    BY <1>6, <1>12 DEF CheckLocker, HasLocker, tools
  <2>. QED BY <1>2, <1>5, <1>6, <1>12, <2>1 DEF Fine, CheckLocker
<1>13. CASE Lock(m)
  <2>1. pc' = [pc EXCEPT ![m] = Task(m).do] /\ result' = result
    BY <1>0, <1>6, <1>13 DEF Lock
  <2>2. pc'[m] \notin {"check", "lock"}
    BY <2>1, TaskFacts DEF TypeOK
  <2>. QED BY <1>5, <2>1, <2>2
<1>14. CASE CheckProbe(m) \/ Compile(m) \/ Link(m) \/ RunProbe(m) \/ MakeHeader(m)
  <2>0. pc[m] = "header" => Valued(m)
    OBVIOUS
  <2>1. NextTask(m) \/ Go(m, "cc") \/ Go(m, "ld")
    BY <1>0, <1>14, <2>0 DEF CheckProbe, Compile, Link, RunProbe, MakeHeader
  <2>. QED BY <1>2, <1>3, <1>5, <2>1 DEF Fine
<1>15. CASE RunAdaVersion(m)
  <2>1. pc' = [pc EXCEPT ![m] = "open"] /\ result' = result
    BY <1>0, <1>15 DEF RunAdaVersion
  <2>. QED BY <1>5, <2>1 DEF TypeOK
<1>16. CASE OpenAdaOut(m) \/ WriteAdaOut(m)
  <2>1. NextTask(m) \/ Go(m, "write")
    BY <1>16 DEF OpenAdaOut, WriteAdaOut
  <2>. QED BY <1>2, <1>3, <1>5, <2>1 DEF Fine
<1>17. CASE Search(m) \/ MoveFiles(m) \/ MarkModule(m)
  <2>1. PICK c \in {"move-files", "mark"} : Go(m, c) \/ End(m, "done")
    BY <1>0, <1>17 DEF Search, MoveFiles, MarkModule
  <2>. QED BY <1>2, <1>4, <1>5, <2>1 DEF Fine
<1>18. CASE MakeStatusDirectory(m)
  BY <1>7, <1>18 DEF MakeStatusDirectory
<1>. QED BY <1>8, <1>9, <1>10, <1>11, <1>12, <1>13, <1>14, <1>15, <1>16, <1>17, <1>18
         DEF Proceeds

\* While no command has failed, a run has the values of the probes it has run.
ValuedSoFar == faults = 0 => \A m \in Modules : pc[m] # "idle" => Valued(m)

LEMMA NextQuiet ==
  ASSUME TypeOK, GoingOn, Quiet, ValuedSoFar, [Next]_vars
  PROVE  Quiet'
<1>1. CASE UNCHANGED vars
  BY <1>1 DEF vars, Quiet
<1>2. CASE Clean
  BY <1>2 DEF Clean, Quiet, At
<1>3. ASSUME NEW m \in Modules, Start(m) PROVE Quiet'
  <2>1. \A n \in Modules \ {m} : pc'[n] = pc[n] /\ starts'[n] = starts[n] /\ result'[n] = result[n]
    BY <1>3 DEF Start, TypeOK
  <2>2. pc'[m] = "boot" /\ result'[m] = "running" /\ UNCHANGED <<locker, statusDir, faults>>
    BY <1>3 DEF Start, TypeOK, tools
  <2>3. starts'[m] # 0
    BY <1>3, <2>2, NextGoingOn DEF GoingOn, Next
  <2>. QED BY <2>1, <2>2, <2>3 DEF Quiet
<1>4. ASSUME NEW m \in Modules, Kill(m) PROVE Quiet'
  <2>1. \A n \in Modules \ {m} : pc'[n] = pc[n] /\ result'[n] = result[n]
    BY <1>4 DEF Kill, End, TypeOK
  <2>2. pc'[m] = "idle" /\ result'[m] = "killed" /\ UNCHANGED <<locker, statusDir, faults, starts>>
    BY <1>4 DEF Kill, End, TypeOK, tools, Works
  <2>. QED BY <2>1, <2>2 DEF Quiet
<1>5. ASSUME NEW m \in Modules, Proceeds(m) PROVE Quiet'
  <2>. SUFFICES ASSUME faults' = 0
                PROVE  /\ \A n \in Modules : pc'[n] \in {"check", "lock"} => locker'
                       /\ statusDir' => \A n \in Modules : pc'[n] = "mkdir" =>
                            \E k \in Modules \ {n} :
                              starts'[k] # 0 /\ result'[k] # "fatal" /\ pc'[k] # "mkdir"
    BY DEF Quiet
  <2>1. Alone(m) /\ Onward(m)
    BY <1>5, ProceedsAlone DEF Onward
  <2>v. pc[m] = "header" => Valued(m)
    BY <1>5, QuietStep DEF ValuedSoFar
  <2>2. faults = 0 /\ (pc'[m] \in {"check", "lock"} => locker')
    BY <1>5, <2>v, QuietFatal
  <2>3. ASSUME NEW n \in Modules, pc'[n] \in {"check", "lock"} PROVE locker'
    BY <2>1, <2>2, <2>3 DEF Alone, Quiet
  <2>4. ASSUME statusDir', NEW n \in Modules, pc'[n] = "mkdir"
        PROVE  \E k \in Modules \ {n} :
                 starts'[k] # 0 /\ result'[k] # "fatal" /\ pc'[k] # "mkdir"
    <3>1. n # m /\ pc[n] = "mkdir"
      BY <2>1, <2>4 DEF Onward, Alone
    <3>2. CASE ~statusDir
      <4>1. pc'[m] = "task" /\ result'[m] = result[m]
        BY <2>1, <2>4, <3>2 DEF Onward
      <4>2. starts[m] # 0 /\ result[m] = "running"
        BY <1>5, ProceedsRuns DEF GoingOn
      <4>3. starts' = starts
        BY <2>1 DEF Alone
      <4>. QED BY <3>1, <4>1, <4>2, <4>3
    <3>3. CASE statusDir
      <4>1. PICK k \in Modules \ {n} : starts[k] # 0 /\ result[k] # "fatal" /\ pc[k] # "mkdir"
        BY <2>2, <3>1, <3>3 DEF Quiet
      <4>2. starts'[k] # 0
        BY <2>1, <4>1 DEF Alone
      <4>3. CASE k = m
        <5>1. result'[m] # "fatal"
          BY <1>5, <2>v, <4>1, <4>3, QuietFatal
        <5>2. pc'[m] # "mkdir"
          BY <2>1, <3>3 DEF Onward
        <5>. QED BY <4>1, <4>2, <4>3, <5>1, <5>2
      <4>4. CASE k # m
        BY <2>1, <4>1, <4>2, <4>4 DEF Alone
      <4>. QED BY <4>3, <4>4
    <3>. QED BY <3>2, <3>3
  <2>. QED BY <2>3, <2>4
<1>. QED BY <1>1, <1>2, <1>3, <1>4, <1>5 DEF Next

\* A step within the task, and one to the next.
LEMMA ValuedWithin ==
  ASSUME NEW m \in Modules, Valued(m), task'[m] = task[m], known[m] \subseteq known'[m]
  PROVE  Valued(m)'
BY DEF Valued

LEMMA ValuedNext ==
  ASSUME TypeOK, NEW m \in Modules, Valued(m), NextTask(m), known[m] \subseteq known'[m],
         Task(m).do = "run" => Task(m).probe \in known'[m]
  PROVE  Valued(m)'
<1>1. task[m] \in 1..Len(Tasks) /\ Len(Tasks) \in Nat
  BY TaskFacts
<1>2. task'[m] \in {task[m], task[m] + 1}
  BY DEF NextTask, TypeOK
<1>. SUFFICES ASSUME NEW i \in 1..(task'[m] - 1), Tasks[i].do = "run"
              PROVE  Tasks[i].probe \in known'[m]
  BY DEF Valued
<1>3. i \in 1..(task[m] - 1) \/ i = task[m]
  BY <1>1, <1>2
<1>. QED BY <1>3 DEF Valued, Task

\* A step of a run that fails nothing and does not end it.
LEMMA ProceedsValued ==
  ASSUME TypeOK, HolderMatches, AdaInHand, Quiet, NEW m \in Modules, Valued(m), Proceeds(m),
         faults' = 0, pc'[m] # "idle"
  PROVE  Valued(m)'
<1>0. faults = 0 /\ \A kind : ~Breaks(kind)
  BY NoFault, QuietStep
<1>a. ASSUME NEW c, Go(m, c), known' = known PROVE Valued(m)'
  BY <1>a, ValuedWithin DEF Go
<1>b. ASSUME NEW how, End(m, how) PROVE FALSE
  BY <1>b DEF End, TypeOK
<1>c. ASSUME NextTask(m), Task(m).do # "run", known' = known PROVE Valued(m)'
  BY <1>c, ValuedNext
<1>. USE <1>0 DEF At, kept
<1>1. CASE CheckStatusDirectory(m) \/ MakeStatusDirectory(m)
  BY <1>1, <1>a, <1>b DEF CheckStatusDirectory, MakeStatusDirectory
<1>2. CASE BeginTask(m)
  BY <1>2, <1>a, <1>c DEF BeginTask
<1>3. CASE MakeLocker(m) \/ MoveLocker(m)
  BY <1>3, <1>a DEF MakeLocker, MoveLocker
<1>4. CASE CheckLocker(m)
  <2>1. locker
    BY <1>4 DEF CheckLocker, Quiet
  <2>. QED BY <1>4, <1>a, <2>1 DEF CheckLocker, HasLocker
<1>5. CASE Lock(m)
  <2>1. locker
    BY <1>5 DEF Lock, Quiet
  <2>2. task' = task /\ known' = known
    BY <1>5, <2>1 DEF Lock
  <2>. QED BY <2>2, ValuedWithin
<1>6. CASE CheckProbe(m) \/ Compile(m) \/ Link(m) \/ MakeHeader(m)
  <2>1. pc[m] \in {"compile", "cc", "ld", "header"} /\ known' = known
    BY <1>6 DEF CheckProbe, Compile, Link, MakeHeader
  <2>2. Task(m).do # "run"
    BY <2>1 DEF HolderMatches, Locked
  <2>. QED BY <1>6, <1>a, <1>b, <1>c, <2>1, <2>2 DEF CheckProbe, Compile, Link, MakeHeader
<1>7. CASE RunProbe(m)
  <2>1. known' = [known EXCEPT ![m] = @ \cup {Task(m).probe}] /\ NextTask(m)
    BY <1>7 DEF RunProbe
  <2>2. known'[m] = known[m] \cup {Task(m).probe}
    BY <2>1 DEF TypeOK
  <2>. QED BY <2>1, <2>2, ValuedNext
<1>8. CASE RunAdaVersion(m)
  <2>1. task' = task /\ known' = known
    BY <1>8 DEF RunAdaVersion
  <2>. QED BY <2>1, ValuedWithin
<1>9. CASE OpenAdaOut(m) \/ WriteAdaOut(m)
  <2>1. pc[m] \in {"open", "write"} /\ known' = known
    BY <1>9 DEF OpenAdaOut, WriteAdaOut
  <2>2. Task(m).do # "run"
    BY <2>1 DEF AdaInHand
  <2>. QED BY <1>9, <1>a, <1>c, <2>1, <2>2 DEF OpenAdaOut, WriteAdaOut
<1>10. CASE Search(m) \/ MoveFiles(m) \/ MarkModule(m)
  BY <1>10, <1>a, <1>b DEF Search, MoveFiles, MarkModule
<1>. QED BY <1>1, <1>2, <1>3, <1>4, <1>5, <1>6, <1>7, <1>8, <1>9, <1>10 DEF Proceeds

\* The values of the other runs are their own.
LEMMA KnownAlone ==
  ASSUME TypeOK, NEW m \in Modules, Proceeds(m), NEW n \in Modules \ {m}
  PROVE  known'[n] = known[n]
<1>1. CASE RunProbe(m)
  BY <1>1 DEF RunProbe, TypeOK
<1>2. CASE ~RunProbe(m)
  <2>1. known' = known
    BY <1>2 DEF Proceeds, CheckStatusDirectory, MakeStatusDirectory, BeginTask, MakeLocker,
       MoveLocker, CheckLocker, Lock, CheckProbe, Compile, Link, MakeHeader, RunAdaVersion,
       OpenAdaOut, WriteAdaOut, Search, MoveFiles, MarkModule, kept
  <2>. QED BY <2>1
<1>. QED BY <1>1, <1>2

LEMMA NextValued ==
  ASSUME TypeOK, HolderMatches, AdaInHand, Quiet, ValuedSoFar, [Next]_vars
  PROVE  ValuedSoFar'
<1>1. CASE UNCHANGED vars
  BY <1>1 DEF vars, ValuedSoFar, Valued
<1>2. CASE Clean
  BY <1>2 DEF Clean, ValuedSoFar, At
<1>3. ASSUME NEW m \in Modules, Start(m) PROVE ValuedSoFar'
  <2>1. /\ faults' = faults /\ task'[m] = 1
        /\ \A n \in Modules \ {m} : pc'[n] = pc[n] /\ task'[n] = task[n] /\ known'[n] = known[n]
    BY <1>3 DEF Start, TypeOK
  <2>2. Valued(m)'
    BY <2>1 DEF Valued
  <2>. QED BY <2>1, <2>2, ValuedWithin DEF ValuedSoFar
<1>4. ASSUME NEW m \in Modules, Kill(m) PROVE ValuedSoFar'
  <2>1. /\ faults' = faults /\ task' = task /\ known' = known /\ pc'[m] = "idle"
        /\ \A n \in Modules \ {m} : pc'[n] = pc[n]
    BY <1>4 DEF Kill, End, Works, TypeOK
  <2>. QED BY <2>1, ValuedWithin DEF ValuedSoFar
<1>5. ASSUME NEW m \in Modules, Proceeds(m) PROVE ValuedSoFar'
  <2>. SUFFICES ASSUME faults' = 0, NEW n \in Modules, pc'[n] # "idle" PROVE Valued(n)'
    BY DEF ValuedSoFar
  <2>1. faults = 0
    BY <1>5, QuietStep
  <2>2. CASE n = m
    <3>1. Valued(m)
      BY <1>5, <2>1, ProceedsRuns DEF ValuedSoFar
    <3>. QED BY <1>5, <2>2, <3>1, ProceedsValued
  <2>3. CASE n # m
    <3>1. pc'[n] = pc[n] /\ task'[n] = task[n] /\ known'[n] = known[n]
      BY <1>5, <2>3, ProceedsAlone, KnownAlone DEF Onward, Alone
    <3>2. Valued(n)
      BY <2>1, <3>1 DEF ValuedSoFar
    <3>. QED BY <3>1, <3>2, ValuedWithin
  <2>. QED BY <2>2, <2>3
<1>. QED BY <1>1, <1>2, <1>3, <1>4, <1>5 DEF Next

LEMMA StepFatal ==
  ASSUME TypeOK, GoingOn, Quiet, ValuedSoFar, Next, NEW m \in Modules,
         result[m] = "running", result'[m] = "fatal", faults' = 0
  PROVE  /\ At(m, "mkdir") /\ statusDir
         /\ \E n \in Modules \ {m} : starts[n] > 0 /\ result[n] # "fatal"
<1>1. ~Clean
  BY DEF Clean
<1>2. ASSUME NEW n \in Modules, Start(n) \/ Kill(n) PROVE FALSE
  <2>1. PICK how \in {"running", "killed"} : result' = [result EXCEPT ![n] = how]
    BY <1>2 DEF Start, Kill, End
  <2>2. result'[m] \in {result[m], how}
    BY <2>1 DEF TypeOK
  <2>. QED BY <2>2
<1>3. PICK n \in Modules : Proceeds(n)
  BY <1>1, <1>2 DEF Next
<1>4. n = m
  BY <1>3, ProceedsAlone DEF Onward, Alone
<1>5. faults = 0 /\ pc[m] = "mkdir"
  <2>1. faults = 0
    BY <1>3, QuietStep
  <2>. QED BY <1>3, <1>4, <2>1, QuietFatal DEF ValuedSoFar
<1>6. MakeStatusDirectory(m)
  BY <1>3, <1>4, <1>5 DEF Proceeds, CheckStatusDirectory, BeginTask, MakeLocker,
     MoveLocker, CheckLocker, Lock, CheckProbe, Compile, Link, RunProbe, MakeHeader, RunAdaVersion,
     OpenAdaOut, WriteAdaOut, Search, MoveFiles, MarkModule, At
<1>7. statusDir
  BY <1>6 DEF MakeStatusDirectory, Go
<1>8. PICK k \in Modules \ {m} : starts[k] # 0 /\ result[k] # "fatal"
  BY <1>5, <1>7 DEF Quiet
<1>9. starts[k] > 0
  <2>1. starts[k] \in 0..MaxStarts /\ MaxStarts \in Nat
    BY BoundsAssumption DEF TypeOK, BoundsAssumption
  <2>. QED BY <1>8, <2>1
<1>. QED BY <1>5, <1>7, <1>8, <1>9 DEF At

\* No run stops a build without a command that failed, but for the one that is
\* overtaken at the status directory ("Ensure status directory exists",
\* sysdep-boot:69), and then another run is not so stopped; for any number of
\* runs, any of which may be killed.
THEOREM FatalIsCaused == Spec => FatalHasCause
<1>. DEFINE Inv == /\ TypeOK /\ BuildInv /\ AdaInHand /\ GoingOn /\ Quiet /\ ValuedSoFar
<1>1. Init => Inv
  BY InitTypeOK, InitBuildInv DEF Init, AdaInHand, GoingOn, Quiet, ValuedSoFar
<1>2. Inv /\ [Next]_vars => Inv'
  BY NextTypeOK, NextBuildInv, NextAdaInHand, NextGoingOn, NextQuiet, NextValued DEF BuildInv
<1>3. Inv /\ [Next]_vars =>
        [\A m \in Modules :
           (result[m] = "running" /\ result'[m] = "fatal" /\ faults' = 0) =>
             /\ At(m, "mkdir") /\ statusDir
             /\ \E n \in Modules \ {m} : starts[n] > 0 /\ result[n] # "fatal"]_vars
  BY StepFatal
<1>. QED BY <1>1, <1>2, <1>3, PTL DEF Spec, FatalHasCause

----------------------------------------------------------------------------
(* The status of a module *)

OwnData(m) == \A n \in Modules \ {m} :
  found'[n] = found[n] /\ status'[n] = status[n] /\ output'[n] = output[n]

LEMMA ProceedsData ==
  ASSUME TypeOK, NEW m \in Modules, Proceeds(m)
  PROVE  /\ OwnData(m)
         /\ \/ UNCHANGED <<found, status, output>>
            \/ Search(m) \/ MoveFiles(m) \/ MarkModule(m)
<1>. USE DEF results
<1>1. CASE Search(m)
  BY <1>1 DEF Search, OwnData, TypeOK
<1>2. CASE MoveFiles(m)
  <2>1. /\ found' = found /\ status' = status
        /\ output' = [output EXCEPT ![m] = IF found[m] THEN "flags" ELSE "empty"] \/ output' = output
    BY <1>2 DEF MoveFiles
  <2>2. \A n \in Modules \ {m} : output'[n] = output[n]
    BY <2>1 DEF TypeOK
  <2>. QED BY <1>2, <2>1, <2>2 DEF OwnData
<1>3. CASE MarkModule(m)
  BY <1>3 DEF MarkModule, Marked, OwnData, TypeOK
<1>4. CASE ~Search(m) /\ ~MoveFiles(m) /\ ~MarkModule(m)
  <2>1. UNCHANGED <<found, status, output>>
    BY <1>4 DEF Proceeds, CheckStatusDirectory, MakeStatusDirectory, BeginTask, MakeLocker,
       MoveLocker, CheckLocker, Lock, CheckProbe, Compile, Link, RunProbe, MakeHeader, RunAdaVersion,
       OpenAdaOut, WriteAdaOut
  <2>. QED BY <2>1 DEF OwnData
<1>. QED BY <1>1, <1>2, <1>3, <1>4

\* A run ends as done only where its file is moved or its module is marked.
Early(m) == /\ result'[m] = result[m] \/ result'[m] = "fatal"
            /\ pc'[m] \notin {"mark", "move-files"}

LEMMA ProceedsEarly ==
  ASSUME TypeOK, NEW m \in Modules, Proceeds(m), ~Search(m), ~MoveFiles(m), ~MarkModule(m)
  PROVE  Early(m)
<1>a. ASSUME NEW c, Go(m, c), c \notin {"mark", "move-files"} PROVE Early(m)
  BY <1>a DEF Go, TypeOK, Early
<1>b. ASSUME End(m, "fatal") PROVE Early(m)
  BY <1>b DEF End, TypeOK, Early
<1>c. ASSUME NextTask(m) PROVE Early(m)
  BY <1>c DEF NextTask, TypeOK, Early
<1>d. ASSUME pc' = [pc EXCEPT ![m] = "open"], result' = result PROVE Early(m)
  BY <1>d DEF TypeOK, Early
<1>e. ASSUME Failed(m) PROVE Early(m)
  BY <1>b, <1>c, <1>d, <1>e DEF Failed
<1>1. CASE CheckStatusDirectory(m) \/ MakeStatusDirectory(m) \/ BeginTask(m)
  BY <1>1, <1>a, <1>b, <1>c DEF CheckStatusDirectory, MakeStatusDirectory, BeginTask
<1>2. CASE MakeLocker(m) \/ MoveLocker(m) \/ CheckLocker(m)
  BY <1>2, <1>a, <1>b, <1>c, <1>e DEF MakeLocker, LockerFails, MoveLocker, CheckLocker
<1>3. CASE Lock(m)
  <2>1. ASSUME pc' = [pc EXCEPT ![m] = Task(m).do], result' = result PROVE Early(m)
    BY <2>1, TaskFacts DEF TypeOK, Early
  <2>. QED BY <1>3, <1>e, <2>1 DEF Lock
<1>4. CASE CheckProbe(m) \/ Compile(m) \/ Link(m) \/ RunProbe(m) \/ MakeHeader(m)
  BY <1>4, <1>a, <1>b, <1>c DEF CheckProbe, Compile, Link, RunProbe, MakeHeader
<1>5. CASE RunAdaVersion(m)
  BY <1>5, <1>d, <1>e DEF RunAdaVersion
<1>6. CASE OpenAdaOut(m) \/ WriteAdaOut(m)
  BY <1>6, <1>a, <1>c DEF OpenAdaOut, WriteAdaOut
<1>. QED BY <1>1, <1>2, <1>3, <1>4, <1>5, <1>6 DEF Proceeds

\* The status and the file of a module. The file is there when a module that has
\* one is marked, and one that has found nothing is marked before its empty file
\* is moved.
Recorded(m) ==
  /\ result[m] = "done" =>
       /\ status[m] = IF found[m] THEN "succeeded" ELSE "failed"
       /\ output[m] = IF found[m] THEN "flags" ELSE "empty"
  /\ pc[m] = "mark" /\ (m \in Custom \/ found[m]) =>
       output[m] = IF found[m] THEN "flags" ELSE "empty"
  /\ pc[m] = "move-files" /\ m \notin Custom /\ ~found[m] => status[m] = "failed"

LEMMA LastSteps ==
  ASSUME Faulty \cap {"copy", "mark"} = {},
         TypeOK, GoingOn, NEW m \in Modules, Recorded(m), Search(m) \/ MoveFiles(m) \/ MarkModule(m)
  PROVE  Recorded(m)'
<1>0. ~Breaks("copy") /\ ~Breaks("mark")
  BY DEF Breaks
<1>. USE DEF At, Go, End
<1>1. CASE Search(m)
  <2>1. found'[m] \in BOOLEAN /\ result[m] = "running" /\ pc[m] = "search"
    BY <1>1 DEF Search, TypeOK, GoingOn
  <2>2. result'[m] # "done"
    BY <1>1, <2>1 DEF Search, TypeOK
  <2>3. pc'[m] = "move-files" /\ m \notin Custom => found'[m]
    BY <1>1, <2>1 DEF Search, TypeOK
  <2>4. pc'[m] = "mark" => ~(m \in Custom \/ found'[m])
    BY <1>1, <2>1 DEF Search, TypeOK
  <2>. QED BY <2>2, <2>3, <2>4 DEF Recorded
<1>2. CASE MoveFiles(m)
  <2>1. pc[m] = "move-files" /\ result[m] = "running" /\ UNCHANGED <<found, status>>
    BY <1>2 DEF MoveFiles, GoingOn
  <2>2. output'[m] = IF found[m] THEN "flags" ELSE "empty"
    BY <1>0, <1>2 DEF MoveFiles, TypeOK
  <2>3. CASE pc'[m] = "mark" /\ result'[m] = "running"
    BY <2>1, <2>2, <2>3 DEF Recorded
  <2>4. CASE m \notin Custom /\ ~found[m] /\ pc'[m] = "idle"
    BY <2>1, <2>2, <2>4 DEF Recorded
  <2>. QED BY <1>2, <2>1, <2>3, <2>4 DEF MoveFiles, TypeOK
<1>3. CASE MarkModule(m)
  <2>1. pc[m] = "mark" /\ result[m] = "running" /\ UNCHANGED <<found, output>>
    BY <1>3 DEF MarkModule, GoingOn
  <2>2. status'[m] = IF found[m] THEN "succeeded" ELSE "failed"
    BY <1>0, <1>3 DEF MarkModule, Marked, TypeOK
  <2>3. CASE (m \in Custom \/ found[m]) /\ pc'[m] = "idle"
    BY <2>1, <2>2, <2>3 DEF Recorded
  <2>4. CASE pc'[m] = "move-files" /\ result'[m] = "running"
    BY <2>1, <2>2, <2>4 DEF Recorded
  <2>. QED BY <1>3, <2>1, <2>3, <2>4 DEF MarkModule, TypeOK
<1>. QED BY <1>1, <1>2, <1>3

LEMMA NextRecorded ==
  ASSUME Faulty \cap {"copy", "mark"} = {},
         TypeOK, GoingOn, \A m \in Modules : Recorded(m), [Next]_vars
  PROVE  \A m \in Modules : Recorded(m)'
<1>1. CASE UNCHANGED vars
  BY <1>1 DEF vars, Recorded
<1>2. CASE Clean
  BY <1>2 DEF Clean, Recorded, At
<1>3. ASSUME NEW m \in Modules, Start(m) \/ Kill(m), NEW n \in Modules PROVE Recorded(n)'
  <2>1. UNCHANGED <<found, status, output>>
    BY <1>3 DEF Start, Kill, results
  <2>2. n = m => result'[m] \in {"running", "killed"} /\ pc'[m] \in {"boot", "idle"}
    BY <1>3 DEF Start, Kill, End, TypeOK
  <2>3. n # m => result'[n] = result[n] /\ pc'[n] = pc[n]
    BY <1>3 DEF Start, Kill, End, TypeOK
  <2>. QED BY <2>1, <2>2, <2>3 DEF Recorded
<1>4. ASSUME NEW m \in Modules, Proceeds(m), NEW n \in Modules PROVE Recorded(n)'
  <2>1. CASE n # m
    <3>1. Alone(m)
      BY <1>4, ProceedsAlone DEF Onward
    <3>2. OwnData(m)
      BY <1>4, ProceedsData
    <3>3. pc'[n] = pc[n] /\ result'[n] = result[n]
      BY <2>1, <3>1 DEF Alone
    <3>4. found'[n] = found[n] /\ status'[n] = status[n] /\ output'[n] = output[n]
      BY <2>1, <3>2 DEF OwnData
    <3>. QED BY <3>3, <3>4 DEF Recorded
  <2>2. CASE n = m /\ (Search(m) \/ MoveFiles(m) \/ MarkModule(m))
    BY <2>2, LastSteps
  <2>3. CASE n = m /\ ~Search(m) /\ ~MoveFiles(m) /\ ~MarkModule(m)
    <3>1. UNCHANGED <<found, status, output>>
      BY <1>4, <2>3, ProceedsData
    <3>. QED BY <1>4, <2>3, <3>1, ProceedsEarly DEF Recorded, Early
  <2>. QED BY <2>1, <2>2, <2>3
<1>. QED BY <1>1, <1>2, <1>3, <1>4 DEF Next

\* A module that has been executed to the end leaves the status and the file of
\* what it found, whatever earlier runs, sd-clean, kills and failures of other
\* commands left, as long as the copy of its file and the writing of its status
\* work: sysdep-mod-exec looks at neither.
THEOREM StatusIsOfRun ==
  ASSUME Faulty \cap {"copy", "mark"} = {}
  PROVE  Spec => []StatusOfRun
<1>. DEFINE Inv == TypeOK /\ GoingOn /\ \A m \in Modules : Recorded(m)
<1>1. Init => Inv
  BY InitTypeOK DEF Init, GoingOn, Recorded
<1>2. Inv /\ [Next]_vars => Inv'
  BY NextTypeOK, NextGoingOn, NextRecorded
<1>3. Inv => StatusOfRun
  BY DEF StatusOfRun, Recorded
<1>. QED BY <1>1, <1>2, <1>3, PTL DEF Spec
----------------------------------------------------------------------------
(* Who waits, and for how long *)

\* A lock is kept by a run that is in a command of the task it is for, and by
\* nobody else: no run keeps one past its command, its end or its death.
LocksInUse ==
  \A l \in Locks, m \in Modules : holder[l] = m => pc[m] \in Locked /\ LockOf(m) = l

\* A step of m that gives its locks back.
LEMMA FreedInUse ==
  ASSUME TypeOK, LocksInUse, NEW m \in Modules, holder' = Freed(m),
         \A n \in Modules \ {m} : pc'[n] = pc[n] /\ task'[n] = task[n]
  PROVE  LocksInUse'
<1>1. Nobody \notin Modules
  BY NamesAssumption DEF NamesAssumption
<1>. QED BY <1>1 DEF LocksInUse, LockOf, Task, Freed

\* A step of m that leaves the locks alone, from outside the commands or from one
\* to the next.
LEMMA KeptInUse ==
  ASSUME LocksInUse, NEW m \in Modules, holder' = holder,
         \A n \in Modules \ {m} : pc'[n] = pc[n] /\ task'[n] = task[n],
         pc[m] \notin Locked \/ (pc'[m] \in Locked /\ task'[m] = task[m])
  PROVE  LocksInUse'
BY DEF LocksInUse, LockOf, Task

LEMMA NextLocksInUse ==
  ASSUME TypeOK, LocksInUse, [Next]_vars
  PROVE  LocksInUse'
<1>1. CASE UNCHANGED vars
  BY <1>1 DEF vars, LocksInUse, LockOf, Task
<1>2. CASE Clean
  BY <1>2 DEF Clean, LocksInUse, LockOf, Task
<1>3. ASSUME NEW m \in Modules, Start(m) PROVE LocksInUse'
  BY <1>3, KeptInUse DEF Start, At, TypeOK, Locked
<1>a. ASSUME NEW m \in Modules, NEW c, Go(m, c), pc[m] \notin Locked \/ c \in Locked
      PROVE  LocksInUse'
  BY <1>a, KeptInUse DEF Go, TypeOK
<1>b. ASSUME NEW m \in Modules, NEW how, End(m, how) PROVE LocksInUse'
  BY <1>b, FreedInUse DEF End, TypeOK
<1>c. ASSUME NEW m \in Modules, NextTask(m) PROVE LocksInUse'
  <2>1. \A n \in Modules \ {m} : pc'[n] = pc[n] /\ task'[n] = task[n]
    BY <1>c DEF NextTask, TypeOK
  <2>. QED BY <1>c, <2>1, FreedInUse DEF NextTask
<1>d. ASSUME NEW m \in Modules, pc' = [pc EXCEPT ![m] = "open"], holder' = Freed(m),
             task' = task
      PROVE  LocksInUse'
  BY <1>d, FreedInUse DEF TypeOK
<1>e. ASSUME NEW m \in Modules, Failed(m) PROVE LocksInUse'
  BY <1>b, <1>c, <1>d, <1>e DEF Failed
<1>4. ASSUME NEW m \in Modules, Kill(m) PROVE LocksInUse'
  BY <1>4, <1>b DEF Kill
<1>5. ASSUME NEW m \in Modules, Proceeds(m) PROVE LocksInUse'
  <2>. USE DEF At, Locked
  <2>1. CASE CheckStatusDirectory(m) \/ MakeStatusDirectory(m) \/ BeginTask(m)
    BY <1>a, <1>b, <1>c, <2>1 DEF CheckStatusDirectory, MakeStatusDirectory, BeginTask
  <2>2. CASE MakeLocker(m) \/ MoveLocker(m) \/ CheckLocker(m)
    BY <1>a, <1>b, <1>c, <1>e, <2>2 DEF MakeLocker, LockerFails, MoveLocker, CheckLocker
  <2>3. CASE Lock(m)
    <3>1. CASE /\ Free(m) /\ holder' = [holder EXCEPT ![LockOf(m)] = m]
               /\ pc' = [pc EXCEPT ![m] = Task(m).do] /\ UNCHANGED task
      <4>1. Task(m) \in Locks /\ Task(m).do \in {"compile", "run", "header", "ada"}
        BY TaskFacts
      <4>2. pc[m] = "lock" /\ pc'[m] \in Locked
        BY <2>3, <3>1, <4>1 DEF Lock, TypeOK
      <4>3. /\ \A l \in Locks : holder'[l] = IF l = LockOf(m) THEN m ELSE holder[l]
            /\ \A n \in Modules \ {m} : pc'[n] = pc[n]
            /\ \A n \in Modules : LockOf(n)' = LockOf(n)
        BY <3>1 DEF TypeOK, LockOf, Task
      <4>. QED BY <4>2, <4>3 DEF LocksInUse
    <3>. QED BY <1>e, <2>3, <3>1 DEF Lock
  <2>4. CASE CheckProbe(m) \/ Compile(m) \/ Link(m) \/ RunProbe(m) \/ MakeHeader(m)
    BY <1>a, <1>b, <1>c, <2>4 DEF CheckProbe, Compile, Link, RunProbe, MakeHeader
  <2>5. CASE RunAdaVersion(m)
    BY <1>d, <1>e, <2>5 DEF RunAdaVersion
  <2>6. CASE OpenAdaOut(m) \/ WriteAdaOut(m)
    BY <1>a, <1>c, <2>6 DEF OpenAdaOut, WriteAdaOut
  <2>7. CASE Search(m) \/ MoveFiles(m) \/ MarkModule(m)
    BY <1>a, <1>b, <2>7 DEF Search, MoveFiles, MarkModule
  <2>. QED BY <1>5, <2>1, <2>2, <2>3, <2>4, <2>5, <2>6, <2>7 DEF Proceeds
<1>. QED BY <1>1, <1>2, <1>3, <1>4, <1>5 DEF Next

\* A run that waits for a lock waits for one other run, which has the same task in
\* hand and is in a command of it, where it waits for no lock: no deadlock among
\* any number of runs, whatever fails and whoever is killed with a lock in hand.
THEOREM WaitsEndAtWork == Spec => []WaitsForWork
<1>1. Init => TypeOK /\ LocksInUse
  <2>1. Init => LocksInUse
    BY NamesAssumption DEF NamesAssumption, Init, LocksInUse
  <2>. QED BY <2>1, InitTypeOK
<1>2. (TypeOK /\ LocksInUse) /\ [Next]_vars => (TypeOK /\ LocksInUse)'
  BY NextTypeOK, NextLocksInUse
<1>3. TypeOK /\ LocksInUse => WaitsForWork
  <2>. SUFFICES ASSUME TypeOK, LocksInUse, NEW m \in Modules, Waits(m)
                PROVE  \E n \in Modules : /\ n # m /\ holder[LockOf(m)] = n
                                          /\ pc[n] \in Locked /\ Task(n) = Task(m)
    BY DEF WaitsForWork
  <2>1. LockOf(m) \in Locks /\ holder[LockOf(m)] \in Modules
    BY TaskFacts DEF Waits, Free, TypeOK, LockOf
  <2>2. /\ pc[holder[LockOf(m)]] \in Locked
        /\ LockOf(holder[LockOf(m)]) = LockOf(m)
    BY <2>1 DEF LocksInUse
  <2>3. pc[m] = "lock" /\ "lock" \notin Locked
    BY DEF Waits, At, Locked
  <2>. QED BY <2>1, <2>2, <2>3 DEF LockOf
<1>. QED BY <1>1, <1>2, <1>3, PTL DEF Spec

\* The steps a run has left in its task, or after the last task, when it has come
\* to the command c.
Rank(c, last) ==
  IF c = "boot" THEN 13
  ELSE IF c = "mkdir" THEN 12
  ELSE IF c = "task" THEN 11
  ELSE IF c = "make-locker" THEN 10
  ELSE IF c = "move-locker" THEN 9
  ELSE IF c = "check" THEN 8
  ELSE IF c = "lock" THEN 7
  ELSE IF c \in {"compile", "run", "header", "ada"} THEN 6
  ELSE IF c \in {"cc", "open"} THEN 5
  ELSE IF c \in {"ld", "write"} THEN 4
  ELSE IF c = "search" THEN 3
  ELSE IF c \in {"move-files", "mark"} THEN IF c = last THEN 1 ELSE 2
  ELSE 0

\* A module is marked before its files are moved when nothing was found for it.
LastCommand(m) == IF m \in Custom \/ found[m] THEN "mark" ELSE "move-files"

\* At most eight steps for a task, two before the first and three after the last.
StepsLeft(m) ==
  IF pc[m] = "idle" THEN 0
  ELSE 8 * (Len(Tasks) - task[m]) + Rank(pc[m], LastCommand(m))

Counted == \A m \in Modules : StepsLeft(m) \in 0..(8 * Len(Tasks) + 5)

RankTable(last) ==
  /\ Rank("boot", last) = 13 /\ Rank("mkdir", last) = 12 /\ Rank("task", last) = 11
  /\ Rank("make-locker", last) = 10 /\ Rank("move-locker", last) = 9
  /\ Rank("check", last) = 8 /\ Rank("lock", last) = 7
  /\ Rank("compile", last) = 6 /\ Rank("run", last) = 6 /\ Rank("ada", last) = 6
  /\ Rank("header", last) = 6
  /\ Rank("cc", last) = 5 /\ Rank("open", last) = 5
  /\ Rank("ld", last) = 4 /\ Rank("write", last) = 4
  /\ Rank("search", last) = 3 /\ Rank("idle", last) = 0
  /\ Rank("move-files", last) = (IF last = "move-files" THEN 1 ELSE 2)
  /\ Rank("mark", last) = (IF last = "mark" THEN 1 ELSE 2)

LEMMA RankAt ==
  ASSUME NEW last
  PROVE  RankTable(last)
BY DEF RankTable, Rank

LEMMA RankBounds ==
  ASSUME NEW c, NEW last
  PROVE  Rank(c, last) \in 0..13
BY DEF Rank

LEMMA StepsLeftBounds ==
  ASSUME TypeOK, NEW m \in Modules
  PROVE  /\ StepsLeft(m) \in Nat
         /\ StepsLeft(m) \in 0..(8 * Len(Tasks) + 5)
         /\ pc[m] # "idle" => StepsLeft(m) > 0
<1>1. task[m] \in 1..Len(Tasks) /\ Len(Tasks) \in Nat
  BY TaskFacts
<1>. DEFINE r == Rank(pc[m], LastCommand(m))
<1>2. r \in 0..13
  BY RankBounds
<1>r. RankTable(LastCommand(m))
  BY RankAt
<1>s. LastCommand(m) \in {"mark", "move-files"}
  BY DEF LastCommand
<1>t. pc[m] \in Locked \cup {"idle", "boot", "mkdir", "task", "make-locker", "move-locker",
                            "check", "lock", "open", "write", "search", "move-files", "mark"}
  BY DEF TypeOK
<1>3. pc[m] # "idle" => r > 0
  BY <1>r, <1>s, <1>t DEF Locked, RankTable
<1>4. StepsLeft(m) = IF pc[m] = "idle" THEN 0 ELSE 8 * (Len(Tasks) - task[m]) + r
  BY DEF StepsLeft
<1>5. ASSUME NEW n \in Nat, NEW t \in 1..n, NEW k \in 0..13
      PROVE  /\ 8 * (n - t) + k \in 0..(8 * n + 5)
             /\ 0 \in 0..(8 * n + 5)
             /\ k > 0 => 8 * (n - t) + k > 0
  OBVIOUS
<1>. HIDE DEF r
<1>6. /\ 8 * (Len(Tasks) - task[m]) + r \in 0..(8 * Len(Tasks) + 5)
      /\ 0 \in 0..(8 * Len(Tasks) + 5)
      /\ r > 0 => 8 * (Len(Tasks) - task[m]) + r > 0
  BY <1>1, <1>2, <1>5
<1>. QED BY <1>3, <1>4, <1>6

LEMMA TypeCounted == TypeOK => Counted
BY StepsLeftBounds DEF Counted

\* A step to a later command of the same task.
LEMMA GoCounts ==
  ASSUME TypeOK, NEW m \in Modules, pc[m] # "idle", pc'[m] # "idle", task'[m] = task[m],
         Rank(pc'[m], LastCommand(m)') < Rank(pc[m], LastCommand(m))
  PROVE  StepsLeft(m)' < StepsLeft(m)
<1>1. task[m] \in 1..Len(Tasks) /\ Len(Tasks) \in Nat
  BY TaskFacts
<1>. DEFINE r == Rank(pc[m], LastCommand(m))
            s == Rank(pc'[m], LastCommand(m)')
<1>2. r \in 0..13 /\ s \in 0..13 /\ s < r
  BY RankBounds
<1>3. /\ StepsLeft(m) = 8 * (Len(Tasks) - task[m]) + r
      /\ StepsLeft(m)' = 8 * (Len(Tasks) - task[m]) + s
  BY DEF StepsLeft
<1>. HIDE DEF r, s
<1>. QED BY <1>1, <1>2, <1>3

\* The end of a run.
LEMMA EndCounts ==
  ASSUME TypeOK, NEW m \in Modules, pc[m] # "idle", NEW how, End(m, how)
  PROVE  StepsLeft(m)' < StepsLeft(m)
<1>1. StepsLeft(m)' = 0
  BY DEF StepsLeft, End, TypeOK
<1>. QED BY <1>1, StepsLeftBounds

\* The end of a task.
LEMMA NextTaskCounts ==
  ASSUME TypeOK, NEW m \in Modules, NextTask(m),
         pc[m] \in Locked \cup {"task", "make-locker", "check", "lock", "write"}
  PROVE  StepsLeft(m)' < StepsLeft(m)
<1>1. task[m] \in 1..Len(Tasks) /\ Len(Tasks) \in Nat
  BY TaskFacts
<1>. DEFINE r == Rank(pc[m], LastCommand(m))
<1>r. RankTable(LastCommand(m))
  BY RankAt
<1>2. r \in 4..13
  BY <1>r DEF Locked, RankTable
<1>3. StepsLeft(m) = 8 * (Len(Tasks) - task[m]) + r
  BY DEF StepsLeft, Locked
<1>s. RankTable(LastCommand(m)')
  BY RankAt
<1>. HIDE DEF r
<1>4. CASE task[m] = Len(Tasks)
  <2>1. pc'[m] = "search" /\ task'[m] = task[m]
    BY <1>4 DEF NextTask, TypeOK
  <2>2. StepsLeft(m)' = 8 * (Len(Tasks) - task[m]) + 3
    BY <2>1, <1>s DEF StepsLeft, RankTable
  <2>. QED BY <1>1, <1>2, <1>3, <2>2
<1>5. CASE task[m] # Len(Tasks)
  <2>1. pc'[m] = "task" /\ task'[m] = task[m] + 1
    BY <1>5 DEF NextTask, TypeOK
  <2>2. StepsLeft(m)' = 8 * (Len(Tasks) - (task[m] + 1)) + 11
    BY <2>1, <1>s DEF StepsLeft, RankTable
  <2>. QED BY <1>1, <1>2, <1>3, <2>2
<1>. QED BY <1>4, <1>5

\* A step of a run, but of its search: the answer to what was found is the same.
LEMMA ToCounts ==
  ASSUME TypeOK, NEW m \in Modules, NEW c, pc[m] # "idle", c # "idle",
         pc' = [pc EXCEPT ![m] = c], task' = task, found' = found,
         Rank(c, LastCommand(m)) < Rank(pc[m], LastCommand(m))
  PROVE  StepsLeft(m)' < StepsLeft(m)
<1>1. pc'[m] = c /\ task'[m] = task[m] /\ LastCommand(m)' = LastCommand(m)
  BY DEF TypeOK, LastCommand
<1>. QED BY <1>1, GoCounts

LEMMA FailedCounts ==
  ASSUME TypeOK, NEW m \in Modules, Failed(m), pc[m] \in {"check", "lock", "ada"},
         found' = found
  PROVE  StepsLeft(m)' < StepsLeft(m)
<1>1. CASE End(m, "fatal")
  BY <1>1, EndCounts
<1>2. CASE NextTask(m)
  BY <1>2, NextTaskCounts DEF Locked
<1>3. CASE pc' = [pc EXCEPT ![m] = "open"] /\ task' = task
  <2>1. RankTable(LastCommand(m))
    BY RankAt
  <2>2. Rank("open", LastCommand(m)) < Rank(pc[m], LastCommand(m))
    BY <2>1 DEF RankTable
  <2>. QED BY <1>3, <2>2, ToCounts
<1>. QED BY <1>1, <1>2, <1>3 DEF Failed

LEMMA ProceedsCounts ==
  ASSUME TypeOK, NEW m \in Modules, Proceeds(m)
  PROVE  StepsLeft(m)' < StepsLeft(m)
<1>r. RankTable(LastCommand(m))
  BY RankAt
<1>. DEFINE Falls(c) == Rank(c, LastCommand(m)) < Rank(pc[m], LastCommand(m))
<1>a. ASSUME NEW c, Go(m, c), pc[m] # "idle", c # "idle", found' = found, Falls(c)
      PROVE  StepsLeft(m)' < StepsLeft(m)
  BY <1>a, ToCounts DEF Go
<1>b. /\ pc[m] = "boot" => Falls("mkdir") /\ Falls("task")
      /\ pc[m] = "mkdir" => Falls("task")
      /\ pc[m] = "task" => Falls("check") /\ Falls("make-locker")
      /\ pc[m] = "make-locker" => Falls("move-locker")
      /\ pc[m] = "move-locker" => Falls("check")
      /\ pc[m] = "check" => Falls("lock")
      /\ pc[m] = "lock" => Falls("compile") /\ Falls("run") /\ Falls("header") /\ Falls("ada")
      /\ pc[m] = "compile" => Falls("cc")
      /\ pc[m] = "cc" => Falls("ld")
      /\ pc[m] = "ada" => Falls("open")
      /\ pc[m] = "open" => Falls("write")
  BY <1>r DEF RankTable
<1>. HIDE DEF Falls
<1>. USE DEF At, results
<1>1. CASE CheckStatusDirectory(m)
  <2>1. pc[m] = "boot" /\ found' = found /\ (Go(m, "task") \/ Go(m, "mkdir"))
    BY <1>1 DEF CheckStatusDirectory
  <2>. QED BY <1>a, <1>b, <2>1
<1>2. CASE MakeStatusDirectory(m)
  <2>1. pc[m] = "mkdir" /\ found' = found /\ (Go(m, "task") \/ End(m, "fatal"))
    BY <1>2 DEF MakeStatusDirectory
  <2>. QED BY <1>a, <1>b, <2>1, EndCounts
<1>3. CASE BeginTask(m)
  <2>1. /\ pc[m] = "task" /\ found' = found
        /\ Go(m, "check") \/ Go(m, "make-locker") \/ NextTask(m)
    BY <1>3 DEF BeginTask
  <2>. QED BY <1>a, <1>b, <2>1, NextTaskCounts
<1>4. CASE MakeLocker(m)
  <2>1. /\ pc[m] = "make-locker" /\ found' = found
        /\ Go(m, "move-locker") \/ End(m, "fatal") \/ NextTask(m)
    BY <1>4 DEF MakeLocker, LockerFails
  <2>. QED BY <1>a, <1>b, <2>1, EndCounts, NextTaskCounts
<1>5. CASE MoveLocker(m)
  <2>1. pc[m] = "move-locker" /\ found' = found /\ Go(m, "check")
    BY <1>5 DEF MoveLocker
  <2>. QED BY <1>a, <1>b, <2>1
<1>6. CASE CheckLocker(m)
  <2>1. pc[m] = "check" /\ found' = found /\ (Go(m, "lock") \/ Failed(m))
    BY <1>6 DEF CheckLocker
  <2>. QED BY <1>a, <1>b, <2>1, FailedCounts
<1>7. CASE Lock(m)
  <2>1. pc[m] = "lock" /\ found' = found
    BY <1>7 DEF Lock
  <2>2. CASE pc' = [pc EXCEPT ![m] = Task(m).do] /\ UNCHANGED task
    <3>1. Task(m).do \in {"compile", "run", "header", "ada"}
      BY TaskFacts
    <3>2. Falls(Task(m).do) /\ Task(m).do # "idle"
      BY <1>b, <2>1, <3>1
    <3>. QED BY <2>1, <2>2, <3>2, ToCounts DEF Falls
  <2>. QED BY <1>7, <2>1, <2>2, FailedCounts DEF Lock
<1>8. CASE CheckProbe(m)
  <2>1. pc[m] = "compile" /\ found' = found /\ (Go(m, "cc") \/ NextTask(m))
    BY <1>8 DEF CheckProbe
  <2>. QED BY <1>a, <1>b, <2>1, NextTaskCounts DEF Locked
<1>9. CASE Compile(m)
  <2>1. pc[m] = "cc" /\ found' = found /\ (Go(m, "ld") \/ End(m, "fatal"))
    BY <1>9 DEF Compile
  <2>. QED BY <1>a, <1>b, <2>1, EndCounts
<1>10. CASE Link(m)
  <2>1. pc[m] = "ld" /\ (NextTask(m) \/ End(m, "fatal"))
    BY <1>10 DEF Link
  <2>. QED BY <2>1, EndCounts, NextTaskCounts DEF Locked
<1>11. CASE RunProbe(m) \/ MakeHeader(m)
  <2>1. pc[m] \in {"run", "header"} /\ (NextTask(m) \/ End(m, "fatal"))
    BY <1>11 DEF RunProbe, MakeHeader
  <2>. QED BY <2>1, EndCounts, NextTaskCounts DEF Locked
<1>12. CASE RunAdaVersion(m)
  <2>1. pc[m] = "ada" /\ found' = found
    BY <1>12 DEF RunAdaVersion
  <2>2. CASE pc' = [pc EXCEPT ![m] = "open"] /\ task' = task
    BY <1>b, <2>1, <2>2, ToCounts DEF Falls
  <2>. QED BY <1>12, <2>1, <2>2, FailedCounts DEF RunAdaVersion
<1>13. CASE OpenAdaOut(m)
  <2>1. pc[m] = "open" /\ found' = found /\ Go(m, "write")
    BY <1>13 DEF OpenAdaOut
  <2>. QED BY <1>a, <1>b, <2>1
<1>14. CASE WriteAdaOut(m)
  <2>1. pc[m] = "write" /\ NextTask(m)
    BY <1>14 DEF WriteAdaOut
  <2>. QED BY <2>1, NextTaskCounts
<1>15. CASE Search(m)
  <2>1. CASE End(m, "fatal")
    BY <1>15, <2>1, EndCounts DEF Search
  <2>2. CASE Go(m, IF found'[m] \/ m \in Custom THEN "move-files" ELSE "mark")
    <3>1. /\ task'[m] = task[m] /\ pc[m] = "search"
          /\ pc'[m] = IF m \in Custom \/ found'[m] THEN "move-files" ELSE "mark"
      BY <1>15, <2>2 DEF Search, Go, TypeOK
    <3>2. /\ pc'[m] \in {"move-files", "mark"} /\ LastCommand(m)' # pc'[m]
          /\ LastCommand(m)' \in {"move-files", "mark"}
      BY <3>1 DEF LastCommand
    <3>r. RankTable(LastCommand(m)')
      BY RankAt
    <3>3. Rank(pc'[m], LastCommand(m)') = 2
      BY <3>2, <3>r DEF RankTable
    <3>4. Rank(pc[m], LastCommand(m)) = 3
      BY <1>r, <3>1 DEF RankTable
    <3>5. Rank(pc'[m], LastCommand(m)') < Rank(pc[m], LastCommand(m))
      BY <3>3, <3>4
    <3>. QED BY <3>1, <3>2, <3>3, <3>4, <3>5, GoCounts
  <2>. QED BY <1>15, <2>1, <2>2 DEF Search
<1>16. CASE MoveFiles(m)
  <2>1. CASE End(m, "done")
    BY <1>16, <2>1, EndCounts DEF MoveFiles
  <2>2. CASE (m \in Custom \/ found[m]) /\ Go(m, "mark")
    <3>1. pc[m] = "move-files" /\ found' = found /\ LastCommand(m) = "mark"
      BY <1>16, <2>2 DEF MoveFiles, LastCommand
    <3>2. Falls("mark")
      BY <1>r, <3>1 DEF Falls, RankTable
    <3>. QED BY <1>a, <2>2, <3>1, <3>2
  <2>. QED BY <1>16, <2>1, <2>2 DEF MoveFiles
<1>17. CASE MarkModule(m)
  <2>1. CASE End(m, "done")
    BY <1>17, <2>1, EndCounts DEF MarkModule
  <2>2. CASE (m \notin Custom /\ ~found[m]) /\ Go(m, "move-files")
    <3>1. pc[m] = "mark" /\ found' = found /\ LastCommand(m) = "move-files"
      BY <1>17, <2>2 DEF MarkModule, LastCommand
    <3>2. Falls("move-files")
      BY <1>r, <3>1 DEF Falls, RankTable
    <3>. QED BY <1>a, <2>2, <3>1, <3>2
  <2>. QED BY <1>17, <2>1, <2>2 DEF MarkModule
<1>. QED BY <1>1, <1>2, <1>3, <1>4, <1>5, <1>6, <1>7, <1>8, <1>9, <1>10, <1>11, <1>12,
            <1>13, <1>14, <1>15, <1>16, <1>17 DEF Proceeds

\* What each step does to the counts: only the start of a run raises its own, and
\* no step of another run does anything to it.
CountsDown ==
  \A m \in Modules :
    /\ Proceeds(m) \/ Kill(m) => StepsLeft(m)' < StepsLeft(m)
    /\ Start(m) \/ StepsLeft(m)' <= StepsLeft(m)

LEMMA StepCountsDown ==
  ASSUME TypeOK, [Next]_vars
  PROVE  [CountsDown]_vars
<1>0. TypeOK'
  BY NextTypeOK
<1>1. ASSUME NEW m \in Modules, Proceeds(m) \/ Kill(m)
      PROVE  StepsLeft(m)' < StepsLeft(m)
  BY <1>1, ProceedsCounts, EndCounts DEF Kill, At
<1>2. ASSUME NEW m \in Modules,
             pc'[m] = pc[m], task'[m] = task[m], found'[m] = found[m]
      PROVE  StepsLeft(m)' = StepsLeft(m)
  <2>1. LastCommand(m)' = LastCommand(m)
    BY <1>2 DEF LastCommand
  <2>. QED BY <1>2, <2>1 DEF StepsLeft
<1>3. \A m \in Modules : StepsLeft(m) \in Nat
  BY StepsLeftBounds
<1>. SUFFICES ASSUME Next, NEW m \in Modules
              PROVE  Start(m) \/ StepsLeft(m)' <= StepsLeft(m)
  BY <1>1 DEF CountsDown
<1>4. CASE Clean
  BY <1>2, <1>3, <1>4 DEF Clean
<1>5. ASSUME NEW n \in Modules, n # m, Start(n) \/ Proceeds(n) \/ Kill(n)
      PROVE  StepsLeft(m)' = StepsLeft(m)
  <2>1. CASE Start(n) \/ Kill(n)
    <3>1. /\ \E c : pc' = [pc EXCEPT ![n] = c]
          /\ task' = [task EXCEPT ![n] = 1] \/ task' = task
          /\ found' = found
      BY <2>1 DEF Start, Kill, End, results
    <3>2. pc'[m] = pc[m] /\ task'[m] = task[m] /\ found'[m] = found[m]
      BY <1>5, <3>1 DEF TypeOK
    <3>. QED BY <1>2, <3>2
  <2>2. CASE Proceeds(n)
    <3>1. Onward(n) /\ OwnData(n)
      BY <2>2, ProceedsAlone, ProceedsData
    <3>2. pc'[m] = pc[m] /\ task'[m] = task[m] /\ found'[m] = found[m]
      BY <1>5, <3>1 DEF Onward, Alone, OwnData
    <3>. QED BY <1>2, <3>2
  <2>. QED BY <1>5, <2>1, <2>2
<1>6. CASE Proceeds(m) \/ Kill(m)
  <2>1. StepsLeft(m)' < StepsLeft(m)
    BY <1>1, <1>6
  <2>2. Counted'
    BY <1>0, TypeCounted, PTL
  <2>. QED BY <1>3, <2>1, <2>2, TaskFacts DEF Counted
<1>. QED BY <1>3, <1>4, <1>5, <1>6 DEF Next

\* A run is at most eight steps for each of its tasks and five more from its start:
\* whatever fails and whatever the other runs do, each step of it lowers what is
\* left, and nothing raises it but a new start.  With WaitsForWork it is the safety
\* half of EveryRunEnds.
THEOREM RunsAreBounded ==
  Spec => []Counted /\ [][CountsDown]_vars
<1>1. TypeOK /\ [Next]_vars => TypeOK' /\ [CountsDown]_vars
  BY NextTypeOK, StepCountsDown
<1>. QED BY InitTypeOK, <1>1, TypeCounted, PTL DEF Spec

----------------------------------------------------------------------------
(* The answer about the Ada compiler *)

AfterTasks == {"search", "move-files", "mark"}

\* The run has been through the i-th task.
Past(m, i) == i < task[m] \/ pc[m] \in AfterTasks

\* While no command has failed: the answer in the file is a type, but between the
\* two halves of the echo that writes it, and so is what a run has read or is about
\* to write.
AdaKept(m) ==
  faults = 0 =>
    /\ adaOut \in {"absent", "type"} \/ (adaOut = "none" /\ pc[m] = "write")
    /\ pc[m] \in {"open", "write"} => ada[m] = "type"
    /\ \A i \in 1..Len(Tasks) :
         pc[m] # "idle" /\ Tasks[i].do = "ada" /\ Past(m, i) => ada[m] = "type"

\* A step within the task, or to the end of the run.
LEMMA AdaWithin ==
  ASSUME TypeOK, NEW m \in Modules, AdaKept(m), faults = 0, UNCHANGED <<adaOut, ada>>,
         pc[m] \notin {"idle", "write"}, pc'[m] \notin {"open", "write"},
         \/ pc'[m] = "idle"
         \/ task'[m] = task[m] /\ (pc'[m] \in AfterTasks => pc[m] \in AfterTasks)
  PROVE  AdaKept(m)'
BY DEF AdaKept, Past

\* A step to the next task, which leaves no task that asked behind without an answer.
LEMMA AdaNextTask ==
  ASSUME TypeOK, NEW m \in Modules, AdaKept(m), faults = 0, NextTask(m),
         pc[m] \notin {"idle"} \cup AfterTasks,
         adaOut' \in {"absent", "type"},
         ada'[m] = ada[m] \/ ada'[m] = "type",
         Task(m).do = "ada" => ada'[m] = "type"
  PROVE  AdaKept(m)'
<1>1. task[m] \in 1..Len(Tasks) /\ Len(Tasks) \in Nat
  BY TaskFacts
<1>2. /\ pc'[m] \in {"task", "search"}
      /\ pc'[m] = "task" => task'[m] = task[m] + 1
      /\ pc'[m] = "search" => task'[m] = task[m] /\ task[m] = Len(Tasks)
  BY DEF NextTask, TypeOK
<1>3. ASSUME NEW i \in 1..Len(Tasks), Tasks[i].do = "ada", Past(m, i)'
      PROVE  ada'[m] = "type"
  <2>1. i < task[m] \/ i = task[m]
    <3>1. CASE pc'[m] = "task" /\ task'[m] = task[m] + 1
      BY <1>1, <1>3, <3>1 DEF Past, AfterTasks
    <3>2. CASE task[m] = Len(Tasks)
      BY <1>1, <1>3, <3>2
    <3>. QED BY <1>2, <3>1, <3>2
  <2>2. CASE i < task[m]
    BY <1>3, <2>2 DEF AdaKept, Past
  <2>3. CASE i = task[m]
    BY <1>3, <2>3 DEF Task
  <2>. QED BY <2>1, <2>2, <2>3
<1>. QED BY <1>2, <1>3 DEF AdaKept

LEMMA ProceedsAdaKept ==
  ASSUME TypeOK, Quiet, HolderMatches, NEW m \in Modules, AdaKept(m), Proceeds(m),
         faults' = 0
  PROVE  AdaKept(m)'
<1>0. faults = 0 /\ \A kind : ~Breaks(kind)
  BY NoFault, QuietStep
<1>a. ASSUME NEW c, Go(m, c), c \notin {"open", "write"}, UNCHANGED <<adaOut, ada>>,
             pc[m] \notin {"idle", "write"}, c \in AfterTasks => pc[m] \in AfterTasks
      PROVE  AdaKept(m)'
  BY <1>0, <1>a, AdaWithin DEF Go, TypeOK
<1>b. ASSUME NEW how, End(m, how), UNCHANGED <<adaOut, ada>>, pc[m] \notin {"idle", "write"}
      PROVE  AdaKept(m)'
  BY <1>0, <1>b, AdaWithin DEF End, TypeOK
<1>c. ASSUME NextTask(m), UNCHANGED <<adaOut, ada>>, Task(m).do # "ada",
             pc[m] \notin {"idle", "write"} \cup AfterTasks
      PROVE  AdaKept(m)'
  <2>1. adaOut \in {"absent", "type"}
    BY <1>0, <1>c DEF AdaKept
  <2>. QED BY <1>0, <1>c, <2>1, AdaNextTask
<1>. USE <1>0 DEF At, tools, results
<1>1. CASE CheckStatusDirectory(m) \/ MakeStatusDirectory(m)
  BY <1>1, <1>a, <1>b DEF CheckStatusDirectory, MakeStatusDirectory, AfterTasks
<1>2. CASE BeginTask(m)
  <2>1. CASE /\ Task(m).do = "ada" /\ adaOut # "absent"
             /\ ada' = [ada EXCEPT ![m] = adaOut] /\ NextTask(m)
    <3>1. pc[m] = "task" /\ adaOut' = adaOut
      BY <1>2 DEF BeginTask
    <3>2. adaOut = "type"
      BY <2>1, <3>1 DEF AdaKept
    <3>3. ada'[m] = "type"
      BY <2>1, <3>2 DEF TypeOK
    <3>. QED BY <2>1, <3>1, <3>2, <3>3, AdaNextTask DEF AfterTasks
  <2>2. CASE Go(m, IF locker THEN "check" ELSE "make-locker") /\ UNCHANGED ada
    BY <1>2, <1>a, <2>2 DEF BeginTask, AfterTasks
  <2>. QED BY <1>2, <2>1, <2>2 DEF BeginTask
<1>3. CASE MakeLocker(m) \/ MoveLocker(m)
  BY <1>3, <1>a DEF MakeLocker, MoveLocker, AfterTasks
<1>4. CASE CheckLocker(m)
  <2>1. locker
    BY <1>4 DEF CheckLocker, Quiet
  <2>. QED BY <1>4, <1>a, <2>1 DEF CheckLocker, HasLocker, AfterTasks
<1>5. CASE Lock(m)
  <2>1. locker /\ pc[m] = "lock"
    BY <1>5 DEF Lock, Quiet
  <2>2. pc' = [pc EXCEPT ![m] = Task(m).do] /\ UNCHANGED <<task, ada, adaOut>>
    BY <1>5, <2>1 DEF Lock
  <2>3. pc'[m] \in {"compile", "run", "header", "ada"}
    BY <2>2, TaskFacts DEF TypeOK
  <2>. QED BY <2>1, <2>2, <2>3, AdaWithin DEF AfterTasks
<1>6. CASE CheckProbe(m) \/ Compile(m) \/ Link(m) \/ RunProbe(m) \/ MakeHeader(m)
  <2>1. pc[m] \in {"compile", "cc", "ld", "run", "header"} /\ UNCHANGED <<adaOut, ada>>
    BY <1>6 DEF CheckProbe, Compile, Link, RunProbe, MakeHeader
  <2>2. Task(m).do # "ada"
    BY <2>1 DEF HolderMatches, Locked
  <2>. QED BY <1>6, <1>a, <1>b, <1>c, <2>1, <2>2
           DEF CheckProbe, Compile, Link, RunProbe, MakeHeader, AfterTasks
<1>7. CASE RunAdaVersion(m)
  <2>1. /\ pc' = [pc EXCEPT ![m] = "open"] /\ ada' = [ada EXCEPT ![m] = "type"]
        /\ UNCHANGED <<task, adaOut>> /\ pc[m] = "ada"
    BY <1>7 DEF RunAdaVersion
  <2>2. pc'[m] = "open" /\ ada'[m] = "type"
    BY <2>1 DEF TypeOK
  <2>. QED BY <2>1, <2>2 DEF AdaKept
<1>8. CASE OpenAdaOut(m)
  <2>1. /\ pc[m] = "open" /\ pc'[m] = "write" /\ task' = task /\ ada' = ada /\ adaOut' = "none"
    BY <1>8 DEF OpenAdaOut, Go, TypeOK
  <2>. QED BY <2>1 DEF AdaKept, Past, AfterTasks
<1>9. CASE WriteAdaOut(m)
  <2>1. pc[m] = "write" /\ ada' = ada /\ adaOut' = "type" /\ NextTask(m) /\ ada[m] = "type"
    BY <1>9 DEF WriteAdaOut, AdaKept
  <2>. QED BY <2>1, AdaNextTask DEF AfterTasks
<1>10. CASE Search(m)
  <2>1. pc[m] = "search" /\ UNCHANGED <<adaOut, ada>>
    BY <1>10 DEF Search
  <2>. QED BY <1>10, <1>a, <2>1 DEF Search, AfterTasks
<1>11. CASE MoveFiles(m) \/ MarkModule(m)
  <2>1. pc[m] \in {"move-files", "mark"} /\ UNCHANGED <<adaOut, ada>>
    BY <1>11 DEF MoveFiles, MarkModule
  <2>. QED BY <1>11, <1>a, <1>b, <2>1 DEF MoveFiles, MarkModule, AfterTasks
<1>. QED BY <1>1, <1>2, <1>3, <1>4, <1>5, <1>6, <1>7, <1>8, <1>9, <1>10, <1>11 DEF Proceeds

LEMMA NextAdaKept ==
  ASSUME MaxKills = 0, \A m, n \in Modules : m = n,
         TypeOK, Quiet, HolderMatches, \A m \in Modules : AdaKept(m), [Next]_vars
  PROVE  \A m \in Modules : AdaKept(m)'
<1>. SUFFICES ASSUME NEW m \in Modules PROVE AdaKept(m)'
  OBVIOUS
<1>1. CASE UNCHANGED vars
  BY <1>1 DEF vars, AdaKept, Past
<1>2. CASE Clean
  BY <1>2 DEF Clean, AdaKept, At
<1>3. CASE Start(m)
  <2>1. /\ pc[m] = "idle" /\ pc'[m] = "boot" /\ task'[m] = 1 /\ adaOut' = adaOut
        /\ faults' = faults
    BY <1>3 DEF Start, At, tools, TypeOK
  <2>2. \A i \in 1..Len(Tasks) : ~Past(m, i)'
    BY <2>1 DEF Past, AfterTasks
  <2>. QED BY <2>1, <2>2 DEF AdaKept
<1>4. ~Kill(m)
  <2>1. kills \in 0..MaxKills
    BY DEF TypeOK
  <2>. QED BY <2>1 DEF Kill
<1>5. CASE Proceeds(m)
  BY <1>5, ProceedsAdaKept DEF AdaKept
<1>6. CASE Next
  <2>1. Clean \/ \E n \in Modules : Start(n) \/ Proceeds(n) \/ Kill(n)
    BY <1>6 DEF Next
  <2>2. Clean \/ Start(m) \/ Proceeds(m) \/ Kill(m)
    BY <2>1, Zenon
  <2>. QED BY <1>2, <1>3, <1>4, <1>5, <2>2
<1>. QED BY <1>1, <1>6

\* When one module is built at a time and no run is killed, a run that has asked
\* for the Ada compiler with no command failing knows its type (sysdep-system:110):
\* the violation of AdaTypeKnown that TLC shows takes two runs.
THEOREM AdaKnownAlone ==
  ASSUME MaxKills = 0, \A m, n \in Modules : m = n
  PROVE  Spec => []AdaTypeKnown
<1>. DEFINE Inv == /\ TypeOK /\ BuildInv /\ AdaInHand /\ GoingOn /\ Quiet
                   /\ ValuedSoFar /\ \A m \in Modules : AdaKept(m)
<1>1. Init => Inv
  BY InitTypeOK, InitBuildInv DEF Init, AdaInHand, GoingOn, Quiet, ValuedSoFar, AdaKept
<1>2. Inv /\ [Next]_vars => Inv'
  BY NextTypeOK, NextBuildInv, NextAdaInHand, NextGoingOn, NextQuiet, NextValued, NextAdaKept
     DEF BuildInv
<1>3. Inv => AdaTypeKnown
  BY DEF AdaTypeKnown, AdaKept, Past, AfterTasks, At
<1>. QED BY <1>1, <1>2, <1>3, PTL DEF Spec
============================================================================
