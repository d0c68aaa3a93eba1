------------------------------ MODULE SdLocker ------------------------------
(***************************************************************************)
(* sd-locker (SYSDEPS/sd-locker.c over sd-locker_posix.c or               *)
(* sd-locker_win32.c): each process opens its lock file, waits for a lock  *)
(* on it, starts the command, waits for it, and unlocks and closes the     *)
(* file.  Any system call may fail, a command may be killed by a signal    *)
(* and, when Kills is TRUE, sd-locker may be killed while its command goes *)
(* on.                                                                     *)
(***************************************************************************)
CONSTANTS
  Lockers,   \* the running sd-locker processes
  Files,     \* the lock files
  LockFile,  \* [Lockers -> Files]: argv[2]
  Codes,     \* the exit codes of commands
  Nobody,    \* no process
  Kills      \* whether sd-locker itself may be killed

Success == "exit 0"
Failure == "exit 1"
Running == "running"
StillActive == "still active"   \* what GetExitCodeProcess says of a running one

ASSUME LockerAssumption ==
  /\ LockFile \in [Lockers -> Files]
  /\ Nobody \notin Lockers
  /\ {Success, Failure} \subseteq Codes
  /\ {Running, "signalled", "killed", StillActive} \cap Codes = {}
  /\ Kills \in BOOLEAN

VARIABLES
  os,        \* SD_LOCKER_OS_TYPE, "posix" or "win32": the back end built
  pc,        \* where main is, for each process
  locked,    \* sd_locker_state_t.locked
  exitCode,  \* sd_locker_state_t.exit_code
  holder,    \* the kernel's table of file locks: the process that has it
  child,     \* the child process: none, forked, closed, running, ended, reaped
  status,    \* the wait status of the child, or Running
  result     \* the exit status of sd-locker, "killed", or Running

vars == <<os, pc, locked, exitCode, holder, child, status, result>>

Held(p) == holder[LockFile[p]] = p

\* The end of the process: the kernel closes its files, which drops the
\* locks it holds.
LocksAfter(p) == [f \in Files |-> IF holder[f] = p THEN Nobody ELSE holder[f]]

Exit(p, code) ==
  /\ pc' = [pc EXCEPT ![p] = "done"]
  /\ result' = [result EXCEPT ![p] = code]
  /\ holder' = LocksAfter(p)

\* open or CreateFile.
sd_locker_lock_file_open(p) ==
  /\ pc[p] = "open"
  /\ pc' = [pc EXCEPT ![p] = "acquire"]
  /\ UNCHANGED <<locked, exitCode, holder, child, status, result>>

\* F_SETLKW or LockFileEx: granted when no other process holds the lock.  Mutant: F_SETLK
\* would have returned at once, and its failure been taken for success.
Grantable_Always(p) == TRUE
Grantable(p) == holder[LockFile[p]] = Nobody

Granted(p) == [holder EXCEPT ![LockFile[p]] = p]

sd_locker_lock_acquire(p) ==
  /\ pc[p] = "acquire"
  /\ Grantable(p)
  /\ holder' = Granted(p)
  /\ locked' = [locked EXCEPT ![p] = 1]
  /\ pc' = [pc EXCEPT ![p] = "execute"]
  /\ UNCHANGED <<exitCode, child, status, result>>

\* sd_locker_posix_execute, the parent's side.
Fork(p) ==
  /\ os = "posix" /\ pc[p] = "execute"
  /\ child' = [child EXCEPT ![p] = "forked"]
  /\ pc' = [pc EXCEPT ![p] = "wait"]
  /\ UNCHANGED <<locked, exitCode, holder, status, result>>

\* sd_locker_win32_execute: the shell that runs the command is started at once.
CreateProcess(p) ==
  /\ os = "win32" /\ pc[p] = "execute"
  /\ child' = [child EXCEPT ![p] = "running"]
  /\ pc' = [pc EXCEPT ![p] = "wait"]
  /\ UNCHANGED <<locked, exitCode, holder, status, result>>

\* WEXITSTATUS of the wait status: 0 for a child killed by a signal.  (Mutant:
\* the wait status is passed on as it is.)
WEXITSTATUS_Raw(s) == s
WEXITSTATUS(s) == IF s = "signalled" THEN Success ELSE s

\* waitpid or WaitForSingleObject returns when the child has ended, and the code
\* is asked for (mutant: it is not kept).
ExitCodeOf_Lost(p) == exitCode
ExitCodeOf(p) == [exitCode EXCEPT ![p] = WEXITSTATUS(status[p])]
Waited(p) == child[p] = "ended"

Wait(p) ==
  /\ pc[p] = "wait" /\ Waited(p)
  /\ exitCode' = ExitCodeOf(p)
  /\ child' = [child EXCEPT ![p] = "reaped"]
  /\ pc' = [pc EXCEPT ![p] = "release"]
  /\ UNCHANGED <<locked, holder, status, result>>

\* WaitForSingleObject fails: nobody looks at its result, and the code asked for
\* is that of a process that still runs.
WaitFails(p) ==
  /\ os = "win32" /\ pc[p] = "wait" /\ child[p] = "running"
  /\ exitCode' = [exitCode EXCEPT ![p] = StillActive]
  /\ pc' = [pc EXCEPT ![p] = "release"]
  /\ UNCHANGED <<locked, holder, child, status, result>>

\* A system call of process p fails: one that opens, locks, starts the command,
\* waits for it, asks for its code, unlocks or closes.
sd_locker_fatal(p) ==
  /\ pc[p] \notin {"wait", "done"} \/ (pc[p] = "wait" /\ Waited(p))
  /\ Exit(p, Failure) /\ UNCHANGED <<locked, exitCode, child, status>>

\* The child's side: it closes its copy of the descriptor, which leaves the
\* parent's lock alone, and becomes the command; if either call fails it ends.
\* Mutant: the child takes the lock, too, and waits for its parent's.
ChildCloses_Locks(p) ==
  /\ child[p] = "forked" /\ Grantable(p)
  /\ child' = [child EXCEPT ![p] = "closed"]
  /\ UNCHANGED <<pc, locked, exitCode, holder, status, result>>

ChildCloses(p) ==
  /\ child[p] = "forked"
  /\ child' = [child EXCEPT ![p] = "closed"]
  /\ UNCHANGED <<pc, locked, exitCode, holder, status, result>>

ChildExecs(p) ==
  /\ child[p] = "closed"
  /\ child' = [child EXCEPT ![p] = "running"]
  /\ UNCHANGED <<pc, locked, exitCode, holder, status, result>>

ChildFails(p) ==
  /\ child[p] \in {"forked", "closed"}
  /\ child' = [child EXCEPT ![p] = "ended"]
  /\ status' = [status EXCEPT ![p] = Failure]
  /\ UNCHANGED <<pc, locked, exitCode, holder, result>>

\* The command, external: it ends with a code or, on POSIX, by a signal.
CommandEnds(p) ==
  /\ child[p] = "running"
  /\ \E c \in Codes \cup {"signalled"} :
       /\ c = "signalled" => os = "posix"
       /\ status' = [status EXCEPT ![p] = c]
  /\ child' = [child EXCEPT ![p] = "ended"]
  /\ UNCHANGED <<pc, locked, exitCode, holder, result>>

\* F_UNLCK or UnlockFileEx over the whole file.
Unlocked(p) == [holder EXCEPT ![LockFile[p]] = IF Held(p) THEN Nobody ELSE @]

sd_locker_lock_release(p) ==
  /\ pc[p] = "release"
  /\ holder' = Unlocked(p)
  /\ locked' = [locked EXCEPT ![p] = 0]
  /\ pc' = [pc EXCEPT ![p] = "close"]
  /\ UNCHANGED <<exitCode, child, status, result>>

\* close or CloseHandle, then return from main with exit_code.
sd_locker_lock_file_close(p) ==
  /\ pc[p] = "close"
  /\ Exit(p, exitCode[p]) /\ UNCHANGED <<locked, exitCode, child, status>>

\* SIGKILL or TerminateProcess of sd-locker alone: its command is not told.
Killed(p) ==
  /\ Kills /\ pc[p] # "done"
  /\ Exit(p, "killed")
  /\ UNCHANGED <<locked, exitCode, child, status>>

----------------------------------------------------------------------------
Init ==
  /\ os \in {"posix", "win32"}
  /\ pc = [p \in Lockers |-> "open"]
  /\ locked = [p \in Lockers |-> 0]
  /\ exitCode = [p \in Lockers |-> Success]
  /\ holder = [f \in Files |-> Nobody]
  /\ child = [p \in Lockers |-> "none"]
  /\ status = [p \in Lockers |-> Running]
  /\ result = [p \in Lockers |-> Running]

\* Everything the process and its child do without being told to stop.
Proceeds(p) ==
  /\ UNCHANGED os
  /\ \/ sd_locker_lock_file_open(p) \/ sd_locker_lock_acquire(p)
     \/ Fork(p) \/ CreateProcess(p) \/ Wait(p)
     \/ sd_locker_lock_release(p) \/ sd_locker_lock_file_close(p)

ChildProceeds(p) ==
  UNCHANGED os /\ (ChildCloses(p) \/ ChildExecs(p) \/ CommandEnds(p))

\* What nothing makes happen.
Disturbed(p) ==
  UNCHANGED os /\ (WaitFails(p) \/ sd_locker_fatal(p) \/ Killed(p) \/ ChildFails(p))

Next == \E p \in Lockers : Proceeds(p) \/ ChildProceeds(p) \/ Disturbed(p)

Spec == Init /\ [][Next]_vars

\* The scheduler runs every process and the kernel grants a lock that stays
\* free; the commands (compilers and probes) are assumed to end.  Nothing has
\* to fail or be killed.
FairSpec == /\ Spec
            /\ \A p \in Lockers : WF_vars(Proceeds(p)) /\ WF_vars(ChildProceeds(p))

----------------------------------------------------------------------------
(* Properties *)

PCs      == {"open", "acquire", "execute", "wait", "release", "close", "done"}
Children == {"none", "forked", "closed", "running", "ended", "reaped"}

\* The type of every variable.
TypeOK ==
  /\ os \in {"posix", "win32"}
  /\ pc \in [Lockers -> PCs]
  /\ locked \in [Lockers -> {0, 1}]
  /\ exitCode \in [Lockers -> Codes \cup {StillActive}]
  /\ holder \in [Files -> Lockers \cup {Nobody}]
  /\ child \in [Lockers -> Children]
  /\ status \in [Lockers -> Codes \cup {"signalled", Running}]
  /\ result \in [Lockers -> Codes \cup {"killed", StillActive, Running}]

\* Of the commands run under one lock file at most one runs and is waited for
\* (sd_locker_execute between sd_locker_lock_acquire and _release).  A command
\* whose sd-locker was killed, or gave up waiting, may still run beside it.
Attended(p) == child[p] = "running" /\ pc[p] = "wait"
MutualExclusion ==
  \A p, q \in Lockers :
    (Attended(p) /\ Attended(q) /\ LockFile[p] = LockFile[q]) => p = q

\* Every sd-locker ends, also when others fail or are killed on the way, if
\* the commands end.
EveryCallReturns == \A p \in Lockers : <>(pc[p] = "done")

\* What the callers say of a command that fails (sysdep-system:103-104 and
\* 205-208 test the status of sd-locker): success means the command succeeded.
\* The code does not keep it for a command ended by a signal.
SuccessIsTheCommands == \A p \in Lockers : result[p] = Success => status[p] = Success

\* The calls as CommandLock sees them.
Phase(p) ==
  CASE result[p] # Running -> "returned"
    [] result[p] = Running /\ child[p] = "reaped" -> "ended"
    [] result[p] = Running /\ child[p] # "reaped" ->
         IF pc[p] \in {"release", "close"} THEN "abandoned"
         ELSE IF child[p] \in {"running", "ended"} THEN child[p] ELSE "waiting"

CL == INSTANCE CommandLock WITH
        phase <- [p \in Lockers |-> Phase(p)],
        ended <- status, returned <- result
\* A run of sd-locker keeps the promise of CommandLock.
KeepsPromise == CL!Spec
============================================================================
