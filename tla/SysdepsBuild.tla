---------------------------- MODULE SysdepsBuild ----------------------------
(***************************************************************************)
(* Runs of sd-run, one for each SYSDEPS module, in parallel under make -j: *)
(* sysdep-boot, then sysdep-system, which compiles the probes, runs them   *)
(* and asks for the Ada compiler, then sysdep-mod-exec.  They share files: *)
(* sd-locker, the probes, sd-adaversion.out and the status directory.      *)
(* Locks are what CommandLock says.  A step is a command of the scripts.   *)
(***************************************************************************)
EXTENDS Naturals, Sequences

CONSTANTS
  Modules,    \* the directories under SYSDEPS/modules
  Custom,     \* the modules that have an executable 'custom'
  Probes,     \* sd-arch, sd-cctype, ...: the programs compiled by sysdep-system
  Tasks,      \* what sysdep-system does, in order: [do, probe]
  Nobody,     \* no run, and no probe in a task without one
  Faulty,     \* the kinds of commands that may fail
  Opened,     \* what the linker's output may be before it is done
  MaxStarts,  \* bound on the runs of each module
  MaxFaults,  \* bound on the commands that fail
  MaxKills    \* bound on the runs that are killed

Commands == {"compile", "link", "move", "lock", "execute", "read", "copy", "mark"}

ASSUME NamesAssumption ==
  Custom \subseteq Modules /\ Nobody \notin Modules \cup Probes /\ Faulty \subseteq Commands

\* Each probe is compiled before it is run.
ASSUME TasksAssumption ==
  /\ Tasks \in Seq([do : {"compile", "run", "header", "ada"}, probe : Probes \cup {Nobody}])
  /\ Tasks # <<>>
  /\ \A i \in 1..Len(Tasks) :
       /\ (Tasks[i].do \in {"header", "ada"}) <=> (Tasks[i].probe = Nobody)
       /\ Tasks[i].do = "run" =>
            \E j \in 1..(i - 1) : Tasks[j] = [do |-> "compile", probe |-> Tasks[i].probe]

ASSUME LinkerAssumption == Opened \subseteq {"partial-file", "partial-program"}
ASSUME BoundsAssumption == MaxStarts \in Nat /\ MaxFaults \in Nat /\ MaxKills \in Nat

VARIABLES
  pc,         \* the next command of each run, or "idle"
  task,       \* the task in hand
  holder,     \* for each lock, the run that holds it or Nobody
  locker,     \* sd-locker exists
  probe,      \* the file of each probe
  adaOut,     \* sd-adaversion.out
  known,      \* the probes whose values each run has: SYSDEP_ARCH, ...
  ada,        \* SYSDEP_ADA_TYPE of each run
  statusDir,  \* the directory status/ exists
  found,      \* whether the search of the module found anything
  output,     \* the created file of each module, in the output directory
  status,     \* the file status/<module>
  result,     \* how the last run of the module ended, or "running"
  starts, faults, kills   \* counted for the bounds

vars == <<pc, task, holder, locker, probe, adaOut, known, ada, statusDir, found, output,
          status, result, starts, faults, kills>>
tools   == <<locker, probe, adaOut, statusDir>>
results == <<ada, found, output, status>>
kept    == <<known, starts, kills>>

Task(m) == Tasks[task[m]]
\* ${OBJECT_FILE}.lock for a compilation, sd-<probe>.lock for a run,
\* sd-cpuidx86.h.lock and sd-adaversion.lock.
Locks     == [do : {"compile", "run", "header", "ada"}, probe : Probes \cup {Nobody}]
LockOf(m) == Task(m)

Works        == UNCHANGED faults
Breaks(kind) == kind \in Faulty /\ faults < MaxFaults /\ faults' = faults + 1

At(m, c) == pc[m] = c
Go(m, c) == pc' = [pc EXCEPT ![m] = c] /\ UNCHANGED <<task, holder, result>>

\* sd-locker exits: the lock goes with it.  Mutant: it does not.
Freed_Not(m) == holder
Freed(m) == [l \in Locks |-> IF holder[l] = m THEN Nobody ELSE holder[l]]

\* SYSDEP_FATAL and the end of the script, with whatever lock its command had.
End(m, how) ==
  /\ pc' = [pc EXCEPT ![m] = "idle"]
  /\ result' = [result EXCEPT ![m] = how]
  /\ holder' = Freed(m)
  /\ UNCHANGED task

\* Its command has returned, and sd-locker with it.  Mutant: a task after the last.
NextTask_PastEnd(m) ==
  /\ holder' = Freed(m)
  /\ pc' = [pc EXCEPT ![m] = "task"] /\ task' = [task EXCEPT ![m] = @ + 1]
  /\ UNCHANGED result
NextTask(m) ==
  /\ holder' = Freed(m)
  /\ IF task[m] = Len(Tasks)
       THEN pc' = [pc EXCEPT ![m] = "search"] /\ UNCHANGED task
       ELSE pc' = [pc EXCEPT ![m] = "task"] /\ task' = [task EXCEPT ![m] = @ + 1]
  /\ UNCHANGED result

----------------------------------------------------------------------------
(* sysdep-boot *)

Start(m) ==
  /\ At(m, "idle") /\ starts[m] < MaxStarts
  /\ starts' = [starts EXCEPT ![m] = @ + 1]
  /\ pc' = [pc EXCEPT ![m] = "boot"] /\ task' = [task EXCEPT ![m] = 1]
  /\ result' = [result EXCEPT ![m] = "running"]
  /\ known' = [known EXCEPT ![m] = {}] /\ ada' = [ada EXCEPT ![m] = "unknown"]
  /\ UNCHANGED <<holder, tools, found, output, status, faults, kills>>

\* Mutant: the directory is made without a look.
CheckStatusDirectory_Unlooked(m) ==
  /\ At(m, "boot") /\ Works
  /\ Go(m, "mkdir")
  /\ UNCHANGED <<tools, results, kept>>
CheckStatusDirectory(m) ==
  /\ At(m, "boot") /\ Works
  /\ Go(m, IF statusDir THEN "task" ELSE "mkdir")
  /\ UNCHANGED <<tools, results, kept>>

\* mkdir without -p fails when another run has made it in the meantime.
MakeStatusDirectory(m) ==
  /\ At(m, "mkdir") /\ Works
  /\ \/ ~statusDir /\ statusDir' = TRUE /\ Go(m, "task")
     \/ statusDir /\ End(m, "fatal") /\ UNCHANGED statusDir
  /\ UNCHANGED <<locker, probe, adaOut, results, kept>>

----------------------------------------------------------------------------
(* sysdep-system *)

\* The Ada compiler is not asked when there is an answer from before.
BeginTask(m) ==
  /\ At(m, "task") /\ Works
  /\ \/ /\ Task(m).do = "ada" /\ adaOut # "absent"
        /\ ada' = [ada EXCEPT ![m] = adaOut]
        /\ NextTask(m)
     \/ /\ Task(m).do # "ada" \/ adaOut = "absent"
        /\ Go(m, IF locker THEN "check" ELSE "make-locker") /\ UNCHANGED ada
  /\ UNCHANGED <<tools, found, output, status, kept>>

\* SDM_lock_and_compile_fail, in `...` when a probe is run.
LockerFails(m) ==
  \/ Task(m).do # "run" /\ End(m, "fatal")
  \/ Task(m).do = "run" /\ NextTask(m)

\* SDM_prepare_locker: sd-locker is compiled under a name of the run's own.
MakeLocker(m) ==
  /\ At(m, "make-locker")
  /\ \/ Works /\ Go(m, "move-locker")
     \/ (Breaks("compile") \/ Breaks("link")) /\ LockerFails(m)
  /\ UNCHANGED <<tools, results, kept>>

\* "Specifically do not check if this operation is successful".
MoveLocker(m) ==
  /\ At(m, "move-locker")
  /\ \/ Works /\ locker' = TRUE
     \/ Breaks("move") /\ UNCHANGED locker
  /\ Go(m, "check")
  /\ UNCHANGED <<probe, adaOut, statusDir, results, kept>>

\* What the failure of a command leads to.  It is fatal in a compilation and for
\* the header; a run is made in `...`, where SYSDEP_FATAL ends the subshell and
\* there is no value; for the Ada compiler nothing looks, and the answer is empty.
Failed(m) ==
  \/ Task(m).do \in {"compile", "header"} /\ End(m, "fatal") /\ UNCHANGED ada
  \/ Task(m).do = "run" /\ NextTask(m) /\ UNCHANGED ada
  \/ /\ Task(m).do = "ada"
     /\ pc' = [pc EXCEPT ![m] = "open"] /\ holder' = Freed(m)
     /\ ada' = [ada EXCEPT ![m] = "none"]
     /\ UNCHANGED <<task, result>>

\* SDM_lock_and_compile and SDM_lock_and_exec, before they call sd-locker, which
\* SDM_prepare_locker may have failed to put there.  Mutant: they do not look.
HasLocker_Unchecked == TRUE
HasLocker == locker
CheckLocker(m) ==
  /\ At(m, "check") /\ Works
  /\ \/ (HasLocker \/ Task(m).do = "ada") /\ Go(m, "lock") /\ UNCHANGED ada
     \/ ~HasLocker /\ Task(m).do # "ada" /\ Failed(m)
  /\ UNCHANGED <<tools, found, output, status, kept>>

\* sd-locker waits for the lock and starts the command, or fails.
Free_Always(m) == TRUE                        \* mutant
Free(m) == holder[LockOf(m)] = Nobody
Lock(m) ==
  /\ At(m, "lock")
  /\ \/ /\ Works /\ locker /\ Free(m)
        /\ holder' = [holder EXCEPT ![LockOf(m)] = m]
        /\ pc' = [pc EXCEPT ![m] = Task(m).do] /\ UNCHANGED <<task, result, ada>>
     \/ (Breaks("lock") \/ (Works /\ ~locker)) /\ Failed(m)
  /\ UNCHANGED <<tools, found, output, status, kept>>

\* sd-compile: nothing to do when the probe is executable.
Executable(f) == f \in {"partial-program", "program"}
Built_Never(q)  == FALSE                      \* mutant
Built_Exists(q) == probe[q] # "absent"        \* mutant: -f
Built(q) == Executable(probe[q])
CheckProbe(m) ==
  /\ At(m, "compile") /\ Works
  /\ \/ Built(Task(m).probe) /\ NextTask(m)
     \/ ~Built(Task(m).probe) /\ Go(m, "cc")
  /\ UNCHANGED <<tools, results, kept>>

\* The compiler, then the linker opens its output: a linker may make it
\* executable at once or when it is done.
Compile(m) ==
  /\ At(m, "cc")
  /\ \/ /\ Works /\ Go(m, "ld")
        /\ \E f \in Opened : probe' = [probe EXCEPT ![Task(m).probe] = f]
     \/ Breaks("compile") /\ End(m, "fatal") /\ UNCHANGED probe
  /\ UNCHANGED <<locker, adaOut, statusDir, results, kept>>

\* A linker that fails takes its output away.
Link(m) ==
  /\ At(m, "ld")
  /\ \/ /\ Works /\ NextTask(m)
        /\ probe' = [probe EXCEPT ![Task(m).probe] = "program"]
     \/ /\ Breaks("link") /\ End(m, "fatal")
        /\ probe' = [probe EXCEPT ![Task(m).probe] = "absent"]
  /\ UNCHANGED <<locker, adaOut, statusDir, results, kept>>

\* The probe runs and prints a value; when it fails there is a message alone.
RunProbe(m) ==
  /\ At(m, "run")
  /\ \/ Works /\ known' = [known EXCEPT ![m] = @ \cup {Task(m).probe}]
     \/ Breaks("execute") /\ UNCHANGED known
  /\ NextTask(m)
  /\ UNCHANGED <<tools, results, starts, kills>>

\* sd-mk-cpuidx86-h writes the values of the probes run before, sd-arch and
\* sd-cctype, to a name of its own and moves the file over sd-cpuidx86.h: the
\* header is whole, and the same whoever made it.  Without a value it refuses,
\* although the message of the probe says "will be marked unknown".
Valued(m) == \A i \in 1..(task[m] - 1) : Tasks[i].do = "run" => Tasks[i].probe \in known[m]
MakeHeader(m) ==
  /\ At(m, "header")
  /\ \/ Works /\ Valued(m) /\ NextTask(m)
     \/ (Breaks("execute") \/ (Works /\ ~Valued(m))) /\ End(m, "fatal")
  /\ UNCHANGED <<tools, results, kept>>

\* sd-adaversion prints a type and a version, unless it cannot be run.
RunAdaVersion(m) ==
  /\ At(m, "ada")
  /\ \/ /\ Works
        /\ pc' = [pc EXCEPT ![m] = "open"] /\ holder' = Freed(m)
        /\ ada' = [ada EXCEPT ![m] = "type"] /\ UNCHANGED <<task, result>>
     \/ Breaks("execute") /\ Failed(m)
  /\ UNCHANGED <<tools, found, output, status, kept>>

\* echo > sd-adaversion.out: the shell opens the file, then echo writes.
OpenAdaOut(m) ==
  /\ At(m, "open") /\ Works
  /\ adaOut' = "none" /\ Go(m, "write")
  /\ UNCHANGED <<locker, probe, statusDir, results, kept>>

WriteAdaOut(m) ==
  /\ At(m, "write") /\ Works
  /\ adaOut' = ada[m] /\ NextTask(m)
  /\ UNCHANGED <<locker, probe, statusDir, results, kept>>

----------------------------------------------------------------------------
(* sysdep-mod-exec *)

\* The searches, custom or not; a module without 'custom' that has found
\* nothing is marked before its files are moved.  A file of the module that
\* cannot be read is SDM_module_fatal.
Search(m) ==
  /\ At(m, "search")
  /\ \E b \in BOOLEAN : found' = [found EXCEPT ![m] = b]
  /\ \/ /\ Works /\ UNCHANGED status
        /\ Go(m, IF found'[m] \/ m \in Custom THEN "move-files" ELSE "mark")
     \/ /\ Breaks("read") /\ ~found'[m] /\ End(m, "fatal")
        /\ status' = [status EXCEPT ![m] = "failed"]
  /\ UNCHANGED <<tools, ada, output, kept>>

\* SDM_files_move: the file is copied, empty when nothing was found, and the
\* return code is that of the rm that follows.
MoveFiles(m) ==
  /\ At(m, "move-files")
  /\ \/ Works /\ output' = [output EXCEPT ![m] = IF found[m] THEN "flags" ELSE "empty"]
     \/ Breaks("copy") /\ UNCHANGED output
  /\ \/ (m \in Custom \/ found[m]) /\ Go(m, "mark")
     \/ m \notin Custom /\ ~found[m] /\ End(m, "done")
  /\ UNCHANGED <<tools, ada, found, status, kept>>

\* SDM_module_succeed and SDM_module_fail; a status that cannot be written is an
\* error message.  Mutant: only the first.
Marked_Succeeded(m) == [status EXCEPT ![m] = IF found[m] THEN "succeeded" ELSE @]
Marked(m) == [status EXCEPT ![m] = IF found[m] THEN "succeeded" ELSE "failed"]
MarkModule(m) ==
  /\ At(m, "mark")
  /\ \/ Works /\ status' = Marked(m)
     \/ Breaks("mark") /\ UNCHANGED status
  /\ \/ (m \in Custom \/ found[m]) /\ End(m, "done")
     \/ m \notin Custom /\ ~found[m] /\ Go(m, "move-files")
  /\ UNCHANGED <<tools, ada, found, output, kept>>

----------------------------------------------------------------------------
(* Around the runs *)

\* A run and the command it has started are killed, make interrupted.
Kill(m) ==
  /\ ~At(m, "idle") /\ kills < MaxKills
  /\ kills' = kills + 1 /\ Works
  /\ End(m, "killed")
  /\ UNCHANGED <<tools, results, known, starts>>

\* make sysdeps_clean, between builds: sd-clean for every module.  It runs
\* sysdep-boot too.
Clean ==
  /\ \A m \in Modules : At(m, "idle")
  /\ \E m \in Modules : starts[m] \in 1..(MaxStarts - 1)
  /\ locker' = FALSE /\ probe' = [q \in Probes |-> "absent"] /\ adaOut' = "absent"
  /\ status' = [m \in Modules |-> "not-executed"]
  /\ output' = [m \in Modules |-> "absent"]
  /\ result' = [m \in Modules |-> "none"]
  /\ statusDir' = TRUE
  /\ UNCHANGED <<pc, task, holder, ada, found, kept, faults>>

Init ==
  /\ pc = [m \in Modules |-> "idle"] /\ task = [m \in Modules |-> 1]
  /\ holder = [l \in Locks |-> Nobody]
  /\ locker = FALSE /\ probe = [q \in Probes |-> "absent"]
  /\ adaOut = "absent" /\ statusDir = FALSE
  /\ known = [m \in Modules |-> {}] /\ ada = [m \in Modules |-> "unknown"] /\ found = [m \in Modules |-> FALSE]
  /\ output = [m \in Modules |-> "absent"]
  /\ status = [m \in Modules |-> "not-executed"]
  /\ result = [m \in Modules |-> "none"]
  /\ starts = [m \in Modules |-> 0] /\ faults = 0 /\ kills = 0

Proceeds(m) ==
  \/ CheckStatusDirectory(m) \/ MakeStatusDirectory(m)
  \/ BeginTask(m) \/ MakeLocker(m) \/ MoveLocker(m) \/ CheckLocker(m) \/ Lock(m)
  \/ CheckProbe(m) \/ Compile(m) \/ Link(m) \/ RunProbe(m)
  \/ MakeHeader(m) \/ RunAdaVersion(m) \/ OpenAdaOut(m) \/ WriteAdaOut(m)
  \/ Search(m) \/ MoveFiles(m) \/ MarkModule(m)

Next == Clean \/ \E m \in Modules : Start(m) \/ Proceeds(m) \/ Kill(m)

Spec     == Init /\ [][Next]_vars
\* A run waits for nothing but the locks, and flock lets its waiters in.
FairSpec == Spec /\ \A m \in Modules : WF_vars(Proceeds(m))

----------------------------------------------------------------------------
(* Properties *)

\* The steps of a run between two commands that hold a lock.
Locked == {"compile", "cc", "ld", "run", "header", "ada"}

AdaTypes == {"unknown", "none", "type"}

\* Every variable has its type.
TypeOK ==
  /\ pc \in [Modules -> Locked \cup {"idle", "boot", "mkdir", "task", "make-locker",
       "move-locker", "check", "lock", "open", "write", "search", "move-files", "mark"}]
  /\ task \in [Modules -> 1..Len(Tasks)]
  /\ holder \in [Locks -> Modules \cup {Nobody}]
  /\ locker \in BOOLEAN /\ statusDir \in BOOLEAN
  /\ probe \in [Probes -> {"absent", "partial-file", "partial-program", "program"}]
  /\ adaOut \in AdaTypes \cup {"absent"}
  /\ known \in [Modules -> SUBSET (Probes \cup {Nobody})]
  /\ ada \in [Modules -> AdaTypes]
  /\ found \in [Modules -> BOOLEAN]
  /\ output \in [Modules -> {"absent", "empty", "flags"}]
  /\ status \in [Modules -> {"not-executed", "succeeded", "failed"}]
  /\ result \in [Modules -> {"none", "running", "done", "fatal", "killed"}]
  /\ starts \in [Modules -> 0..MaxStarts]
  /\ faults \in 0..MaxFaults /\ kills \in 0..MaxKills

\* A probe that is run is whole, although the lock it is run under is not the
\* lock it is linked under: every run goes through the compilation first.
\* The comment at sysdep-system:179.
CompleteWhenUsed == \A m \in Modules : At(m, "run") => probe[Task(m).probe] = "program"

\* "They will not be compiled if they already exist" (sysdep-system:176): a whole
\* probe is not written again, other runs may be running it; only
\* sysdeps_clean removes it.
NeverRebuilt ==
  [][\A q \in Probes : probe[q] = "program" /\ probe'[q] # "program" =>
       probe'[q] = "absent" /\ \A m \in Modules : At(m, "idle")]_vars

\* sd-locker is not called when no run has been able to put it in place, except
\* for sd-adaversion, whose caller does not look: sysdep-system, lines 44 and 68.
LockerExistsWhenUsed ==
  \A m \in Modules : At(m, "lock") => locker \/ Task(m).do = "ada"

\* A module that has been executed to the end leaves the status and the file of
\* what it found, whatever earlier runs left: sysdep-mod-exec.
StatusOfRun ==
  \A m \in Modules : result[m] = "done" =>
    /\ status[m] = IF found[m] THEN "succeeded" ELSE "failed"
    /\ output[m] = IF found[m] THEN "flags" ELSE "empty"

\* A run that waits for a lock waits for one other run, which has the same task
\* in hand and is in a command, where it waits for no lock itself; so no run
\* keeps a lock past its command, its end or its death, and no two runs wait for
\* one another (sysdep-system, lines 49, 73 and 119).
Waits(m) == At(m, "lock") /\ locker /\ ~Free(m)
WaitsForWork ==
  \A m \in Modules : Waits(m) =>
    \E n \in Modules : n # m /\ holder[LockOf(m)] = n /\ pc[n] \in Locked /\ Task(n) = Task(m)

\* Every run ends: nobody keeps a lock that others wait for.
EveryRunEnds == \A m \in Modules : ~At(m, "idle") ~> At(m, "idle")

\* A run is fatal only for a command that failed, unless it found no status
\* directory ("Ensure status directory exists", sysdep-boot:69) and another run,
\* which goes on, made it first.
FatalHasCause ==
  [][\A m \in Modules :
       (result[m] = "running" /\ result'[m] = "fatal" /\ faults' = 0) =>
         /\ At(m, "mkdir") /\ statusDir
         /\ \E n \in Modules \ {m} : starts[n] > 0 /\ result[n] # "fatal"]_vars

\* "Call sd-adaversion and save output safely" (sysdep-system:110): with no
\* command failing, a run that has been through it knows the Ada compiler.
AdaTypeKnown ==
  \A m \in Modules :
    /\ faults = 0 /\ At(m, "search")
    /\ \E i \in 1..Len(Tasks) : Tasks[i].do = "ada"
    => ada[m] = "type"
============================================================================
