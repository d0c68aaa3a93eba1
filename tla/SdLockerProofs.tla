--------------------------- MODULE SdLockerProofs ---------------------------
(***************************************************************************)
(* For any number of sd-lockers, lock files and commands, with both back   *)
(* ends, whatever fails or is killed: commands under one lock file that    *)
(* are waited for exclude each other, and the processes implement          *)
(* CommandLock; a process waits only for one that has started, or starts,  *)
(* its command; what an exit status says of the command; how many steps a  *)
(* process and its command can take.                                       *)
(***************************************************************************)
EXTENDS SdLocker, Naturals, TLAPS

\* What the child has done is what the parent's control says: before it has
\* returned the parent knows the code, or still waits, or has given up waiting
\* for a child that had begun.
ChildOf(p) ==
  /\ pc[p] \in {"open", "acquire", "execute"} => child[p] = "none"
  /\ pc[p] = "wait" => child[p] \in {"forked", "closed", "running", "ended"}
  /\ pc[p] \in {"release", "close"} =>
       \/ child[p] = "reaped" /\ exitCode[p] = WEXITSTATUS(status[p])
       \/ child[p] \in {"running", "ended"} /\ exitCode[p] = StillActive
  /\ status[p] # Running <=> child[p] \in {"ended", "reaped"}

\* The process holds its lock from the grant to the release, and has returned
\* something exactly when it has ended.
LockOf(p) ==
  /\ Held(p) <=> pc[p] \in {"execute", "wait", "release"}
  /\ \A f \in Files : holder[f] = p => f = LockFile[p]
  /\ result[p] # Running <=> pc[p] = "done"

IInv == TypeOK /\ \A p \in Lockers : ChildOf(p) /\ LockOf(p)

LEMMA InitIInv == Init => IInv
<1>. SUFFICES ASSUME Init PROVE IInv
  OBVIOUS
<1>. USE LockerAssumption DEF LockerAssumption, Init, Success, Failure, Running, StillActive
<1>1. TypeOK
  BY DEF TypeOK, PCs, Children
<1>2. ASSUME NEW p \in Lockers PROVE ChildOf(p)
  BY DEF ChildOf
<1>3. ASSUME NEW p \in Lockers PROVE LockOf(p)
  BY DEF LockOf, Held
<1>. QED BY <1>1, <1>2, <1>3 DEF IInv

\* Every action keeps the types; Wait relies on ChildOf for the status it reads.
LEMMA NextTypeOK ==
  ASSUME IInv, [Next]_vars
  PROVE  TypeOK'
<1>. USE LockerAssumption DEF TypeOK, LockerAssumption, PCs, Children, Success, Failure, Running, StillActive
<1>0. TypeOK
  BY DEF IInv
<1>1. CASE UNCHANGED vars
  BY <1>0, <1>1 DEF vars
<1>2. ASSUME NEW p \in Lockers, Proceeds(p) PROVE TypeOK'
  <2>0. UNCHANGED os
    BY <1>2 DEF Proceeds
  <2>1. CASE sd_locker_lock_file_open(p)
    BY <1>0, <2>0, <2>1 DEF sd_locker_lock_file_open
  <2>2. CASE sd_locker_lock_acquire(p)
    BY <1>0, <2>0, <2>2 DEF Granted, sd_locker_lock_acquire
  <2>3. CASE Fork(p)
    BY <1>0, <2>0, <2>3 DEF Fork
  <2>7. CASE CreateProcess(p)
    BY <1>0, <2>0, <2>7 DEF CreateProcess
  <2>4. CASE Wait(p)
    <3>1. status[p] # Running
      BY <2>4 DEF IInv, ChildOf, Wait, Waited
    <3>2. WEXITSTATUS(status[p]) \in Codes
      BY <1>0, <3>1 DEF WEXITSTATUS
    <3>3. exitCode' \in [Lockers -> Codes \cup {StillActive}]
      BY <1>0, <2>4, <3>2 DEF Wait, ExitCodeOf
    <3>. QED BY <1>0, <2>0, <2>4, <3>3 DEF Wait
  <2>5. CASE sd_locker_lock_release(p)
    BY <1>0, <2>0, <2>5 DEF Unlocked, sd_locker_lock_release
  <2>6. CASE sd_locker_lock_file_close(p)
    BY <1>0, <2>0, <2>6 DEF sd_locker_lock_file_close, Exit, LocksAfter
  <2>. QED BY <1>2, <2>1, <2>2, <2>3, <2>4, <2>5, <2>6, <2>7 DEF Proceeds
<1>3. ASSUME NEW p \in Lockers, ChildProceeds(p) PROVE TypeOK'
  <2>0. UNCHANGED os
    BY <1>3 DEF ChildProceeds
  <2>1. CASE ChildCloses(p)
    BY <1>0, <2>0, <2>1 DEF ChildCloses
  <2>2. CASE ChildExecs(p)
    BY <1>0, <2>0, <2>2 DEF ChildExecs
  <2>3. CASE CommandEnds(p)
    <3>1. PICK c \in Codes \cup {"signalled"} : status' = [status EXCEPT ![p] = c]
      BY <2>3 DEF CommandEnds
    <3>2. status' \in [Lockers -> Codes \cup {"signalled", Running}]
      BY <1>0, <3>1
    <3>. QED BY <1>0, <2>0, <2>3, <3>2 DEF CommandEnds
  <2>. QED BY <1>3, <2>1, <2>2, <2>3 DEF ChildProceeds
<1>4. ASSUME NEW p \in Lockers, Disturbed(p) PROVE TypeOK'
  <2>0. UNCHANGED os
    BY <1>4 DEF Disturbed
  <2>1. CASE WaitFails(p)
    BY <1>0, <2>0, <2>1 DEF WaitFails
  <2>2. CASE sd_locker_fatal(p)
    BY <1>0, <2>0, <2>2 DEF sd_locker_fatal, Exit, LocksAfter
  <2>3. CASE Killed(p)
    BY <1>0, <2>0, <2>3 DEF Killed, Exit, LocksAfter
  <2>4. CASE ChildFails(p)
    BY <1>0, <2>0, <2>4 DEF ChildFails
  <2>. QED BY <1>4, <2>1, <2>2, <2>3, <2>4 DEF Disturbed
<1>. QED BY <1>1, <1>2, <1>3, <1>4 DEF Next

\* What one step of process p leaves of another: everything of its own, and the
\* locks it holds.
LEMMA OthersKeep ==
  ASSUME TypeOK, NEW p \in Lockers, Proceeds(p) \/ ChildProceeds(p) \/ Disturbed(p),
         NEW q \in Lockers \ {p}
  PROVE  /\ pc'[q] = pc[q] /\ child'[q] = child[q] /\ status'[q] = status[q]
         /\ exitCode'[q] = exitCode[q] /\ result'[q] = result[q]
         /\ \A f \in Files : holder'[f] = q <=> holder[f] = q
<1>. USE LockerAssumption DEF LockerAssumption
<1>. DEFINE Keeps(g, h) == h[q] = g[q]
            Same == /\ Keeps(pc, pc') /\ Keeps(child, child') /\ Keeps(status, status')
                    /\ Keeps(exitCode, exitCode') /\ Keeps(result, result')
            Locks == \A f \in Files : holder'[f] = q <=> holder[f] = q
<1>0. /\ pc \in [Lockers -> PCs] /\ exitCode \in [Lockers -> Codes \cup {StillActive}]
      /\ holder \in [Files -> Lockers \cup {Nobody}] /\ child \in [Lockers -> Children]
      /\ status \in [Lockers -> Codes \cup {"signalled", Running}]
      /\ result \in [Lockers -> Codes \cup {"killed", StillActive, Running}]
  BY DEF TypeOK
<1>1. \A g, x : [g EXCEPT ![p] = x][q] = g[q]
  OBVIOUS
<1>2. ASSUME NEW code, Exit(p, code), UNCHANGED <<exitCode, child, status>>
      PROVE  Same /\ Locks
  <2>1. Keeps(pc, pc') /\ Keeps(result, result')
    BY <1>1, <1>2 DEF Exit
  <2>2. \A f \in Files : holder'[f] = IF holder[f] = p THEN Nobody ELSE holder[f]
    BY <1>2 DEF Exit, LocksAfter
  <2>3. Locks
    BY <2>2
  <2>. QED BY <1>2, <2>1, <2>3
<1>3. ASSUME UNCHANGED holder PROVE Locks
  BY <1>3
<1>4. CASE sd_locker_lock_file_open(p) \/ Fork(p) \/ CreateProcess(p)
  <2>1. Same
    BY <1>1, <1>4 DEF sd_locker_lock_file_open, Fork, CreateProcess
  <2>. QED BY <1>3, <1>4, <2>1 DEF sd_locker_lock_file_open, Fork, CreateProcess
<1>5. CASE sd_locker_lock_acquire(p)
  <2>1. Same
    BY <1>1, <1>5 DEF sd_locker_lock_acquire
  <2>2. holder[LockFile[p]] = Nobody /\ holder' = [holder EXCEPT ![LockFile[p]] = p]
    BY <1>5 DEF sd_locker_lock_acquire, Grantable, Granted
  <2>3. Locks
    BY <1>0, <2>2
  <2>. QED BY <2>1, <2>3
<1>6. CASE Wait(p) \/ WaitFails(p)
  <2>1. Same
    BY <1>1, <1>6 DEF Wait, WaitFails, ExitCodeOf
  <2>. QED BY <1>3, <1>6, <2>1 DEF Wait, WaitFails
<1>7. CASE sd_locker_lock_release(p)
  <2>1. Same
    BY <1>1, <1>7 DEF sd_locker_lock_release
  <2>2. \A f \in Files : holder'[f] = holder[f] \/ (holder[f] = p /\ holder'[f] = Nobody)
    BY <1>0, <1>7 DEF sd_locker_lock_release, Unlocked, Held
  <2>3. Locks
    BY <2>2
  <2>. QED BY <2>1, <2>3
<1>8. CASE sd_locker_lock_file_close(p) \/ sd_locker_fatal(p) \/ Killed(p)
  BY <1>2, <1>8 DEF sd_locker_lock_file_close, sd_locker_fatal, Killed
<1>9. CASE ChildCloses(p) \/ ChildExecs(p) \/ ChildFails(p) \/ CommandEnds(p)
  <2>1. UNCHANGED <<pc, exitCode, holder, result>>
    BY <1>9 DEF ChildCloses, ChildExecs, ChildFails, CommandEnds
  <2>2. Keeps(child, child')
    BY <1>1, <1>9 DEF ChildCloses, ChildExecs, ChildFails, CommandEnds
  <2>3. Keeps(status, status')
    BY <1>1, <1>9 DEF ChildCloses, ChildExecs, ChildFails, CommandEnds
  <2>. QED BY <1>3, <2>1, <2>2, <2>3
<1>. QED
  <2>1. Same /\ Locks
    BY <1>4, <1>5, <1>6, <1>7, <1>8, <1>9 DEF Proceeds, ChildProceeds, Disturbed
  <2>. QED BY <2>1

\* What one step of p makes of p.
LEMMA OwnKept ==
  ASSUME TypeOK, NEW p \in Lockers, Proceeds(p) \/ ChildProceeds(p) \/ Disturbed(p),
         ChildOf(p), LockOf(p)
  PROVE  ChildOf(p)' /\ LockOf(p)'
<1>. USE LockerAssumption DEF LockerAssumption, Success, Failure, Running, StillActive
<1>0. /\ pc \in [Lockers -> PCs] /\ exitCode \in [Lockers -> Codes \cup {StillActive}]
      /\ holder \in [Files -> Lockers \cup {Nobody}] /\ child \in [Lockers -> Children]
      /\ status \in [Lockers -> Codes \cup {"signalled", Running}]
      /\ result \in [Lockers -> Codes \cup {"killed", StillActive, Running}]
      /\ LockFile[p] \in Files /\ p # Nobody
  BY DEF TypeOK
<1>1. \A g, x, S : g \in [Lockers -> S] => [g EXCEPT ![p] = x][p] = x
  OBVIOUS
\* The end of sd-locker: what it knows of the child does not matter any more.
<1>2. ASSUME NEW code, code # Running, Exit(p, code), UNCHANGED <<exitCode, child, status>>
      PROVE  ChildOf(p)' /\ LockOf(p)'
  <2>1. pc'[p] = "done" /\ result'[p] = code
    BY <1>0, <1>1, <1>2 DEF Exit
  <2>2. ChildOf(p)'
    BY <1>2, <2>1 DEF ChildOf
  <2>3. \A f \in Files : holder'[f] # p
    BY <1>0, <1>2 DEF Exit, LocksAfter
  <2>. QED BY <1>0, <1>2, <2>1, <2>2, <2>3 DEF LockOf, Held
\* The lock is kept and so is the process's place in what LockOf says.
<1>3. ASSUME UNCHANGED <<holder, result>>,
             pc'[p] = pc[p] \/ (pc[p] \in {"open", "acquire"} /\ pc'[p] = "acquire")
                            \/ (pc[p] \in {"execute", "wait"} /\ pc'[p] \in {"wait", "release"})
      PROVE  LockOf(p)'
  BY <1>3 DEF LockOf, Held
<1>4. CASE sd_locker_lock_file_open(p)
  <2>1. pc[p] = "open" /\ pc'[p] = "acquire" /\ UNCHANGED <<exitCode, holder, child, status, result>>
    BY <1>0, <1>1, <1>4 DEF sd_locker_lock_file_open
  <2>2. ChildOf(p)'
    BY <2>1 DEF ChildOf
  <2>. QED BY <1>3, <2>1, <2>2
<1>5. CASE sd_locker_lock_acquire(p)
  <2>1. /\ pc[p] = "acquire" /\ pc'[p] = "execute" /\ UNCHANGED <<exitCode, child, status, result>>
        /\ holder' = [holder EXCEPT ![LockFile[p]] = p]
    BY <1>0, <1>1, <1>5 DEF sd_locker_lock_acquire, Granted
  <2>2. ChildOf(p)'
    BY <2>1 DEF ChildOf
  <2>3. \A f \in Files : holder'[f] = IF f = LockFile[p] THEN p ELSE holder[f]
    BY <1>0, <2>1
  <2>4. LockOf(p)'
    BY <1>0, <2>1, <2>3 DEF LockOf, Held
  <2>. QED BY <2>2, <2>4
<1>6. CASE Fork(p) \/ CreateProcess(p)
  <2>1. /\ pc[p] = "execute" /\ pc'[p] = "wait" /\ child'[p] \in {"forked", "running"}
        /\ UNCHANGED <<exitCode, holder, status, result>>
    BY <1>0, <1>1, <1>6 DEF Fork, CreateProcess
  <2>2. ChildOf(p)'
    BY <2>1 DEF ChildOf
  <2>. QED BY <1>3, <2>1, <2>2
<1>7. CASE Wait(p)
  <2>1. /\ pc[p] = "wait" /\ pc'[p] = "release" /\ child[p] = "ended" /\ child'[p] = "reaped"
        /\ exitCode'[p] = WEXITSTATUS(status[p]) /\ UNCHANGED <<holder, status, result>>
    BY <1>0, <1>1, <1>7 DEF Wait, Waited, ExitCodeOf
  <2>2. ChildOf(p)'
    BY <2>1 DEF ChildOf, WEXITSTATUS
  <2>. QED BY <1>3, <2>1, <2>2
<1>8. CASE WaitFails(p)
  <2>1. /\ pc[p] = "wait" /\ pc'[p] = "release" /\ child[p] = "running"
        /\ exitCode'[p] = StillActive /\ UNCHANGED <<holder, child, status, result>>
    BY <1>0, <1>1, <1>8 DEF WaitFails
  <2>2. ChildOf(p)'
    BY <2>1 DEF ChildOf
  <2>. QED BY <1>3, <2>1, <2>2
<1>9. CASE sd_locker_lock_release(p)
  <2>1. /\ pc[p] = "release" /\ pc'[p] = "close" /\ UNCHANGED <<exitCode, child, status, result>>
        /\ holder' = [holder EXCEPT ![LockFile[p]] = Nobody]
    BY <1>0, <1>1, <1>9 DEF sd_locker_lock_release, Unlocked, LockOf
  <2>2. ChildOf(p)'
    BY <2>1 DEF ChildOf
  <2>3. \A f \in Files : holder'[f] = IF f = LockFile[p] THEN Nobody ELSE holder[f]
    BY <1>0, <2>1
  <2>4. LockOf(p)'
    BY <1>0, <2>1, <2>3 DEF LockOf, Held
  <2>. QED BY <2>2, <2>4
<1>10. CASE sd_locker_lock_file_close(p)
  <2>1. exitCode[p] \in Codes \cup {StillActive}
    BY <1>0
  <2>2. exitCode[p] # Running
    BY <2>1
  <2>. QED BY <1>2, <1>10, <2>2 DEF sd_locker_lock_file_close
<1>11. CASE sd_locker_fatal(p) \/ Killed(p)
  BY <1>2, <1>11 DEF sd_locker_fatal, Killed
<1>12. CASE ChildCloses(p) \/ ChildExecs(p)
  <2>1. /\ child[p] \in {"forked", "closed"} /\ child'[p] \in {"closed", "running"}
        /\ UNCHANGED <<pc, exitCode, holder, status, result>>
    BY <1>0, <1>1, <1>12 DEF ChildCloses, ChildExecs
  <2>2. ChildOf(p)'
    BY <2>1 DEF ChildOf
  <2>. QED BY <1>3, <2>1, <2>2
<1>13. CASE ChildFails(p) \/ CommandEnds(p)
  <2>1. /\ child[p] \in {"forked", "closed", "running"} /\ child'[p] = "ended"
        /\ UNCHANGED <<pc, exitCode, holder, result>>
    BY <1>0, <1>1, <1>13 DEF ChildFails, CommandEnds
  <2>2. status'[p] \in Codes \cup {"signalled"}
    <3>1. PICK c \in Codes \cup {"signalled"} : status' = [status EXCEPT ![p] = c]
      BY <1>13 DEF ChildFails, CommandEnds
    <3>2. status'[p] = c
      BY <1>0, <1>1, <3>1
    <3>. QED BY <3>2
  <2>3. status'[p] # Running
    BY <2>2
  <2>4. ChildOf(p)'
    BY <2>1, <2>3 DEF ChildOf
  <2>. QED BY <1>3, <2>1, <2>4
<1>. QED BY <1>4, <1>5, <1>6, <1>7, <1>8, <1>9, <1>10, <1>11, <1>12, <1>13
         DEF Proceeds, ChildProceeds, Disturbed

\* A process and its child keep what ties them together.
LEMMA NextIInv ==
  ASSUME IInv, [Next]_vars
  PROVE  IInv'
<1>0. TypeOK /\ TypeOK'
  BY NextTypeOK DEF IInv
<1>1. SUFFICES ASSUME NEW q \in Lockers PROVE ChildOf(q)' /\ LockOf(q)'
  BY <1>0 DEF IInv
<1>2. ChildOf(q) /\ LockOf(q)
  BY DEF IInv
<1>3. ASSUME pc'[q] = pc[q], child'[q] = child[q], status'[q] = status[q],
             exitCode'[q] = exitCode[q], result'[q] = result[q],
             \A f \in Files : holder'[f] = q <=> holder[f] = q
      PROVE  ChildOf(q)' /\ LockOf(q)'
  <2>1. ChildOf(q)'
    BY <1>2, <1>3 DEF ChildOf, WEXITSTATUS
  <2>2. LockFile[q] \in Files
    BY LockerAssumption DEF LockerAssumption
  <2>3. LockOf(q)'
    BY <1>2, <1>3, <2>2 DEF LockOf, Held
  <2>. QED BY <2>1, <2>3
<1>4. CASE UNCHANGED vars
  BY <1>3, <1>4 DEF vars
<1>5. CASE Next
  <2>1. PICK p \in Lockers : Proceeds(p) \/ ChildProceeds(p) \/ Disturbed(p)
    BY <1>5 DEF Next
  <2>2. CASE p = q
    BY <1>0, <1>2, <2>1, <2>2, OwnKept
  <2>3. CASE p # q
    BY <1>0, <1>3, <2>1, <2>3, OthersKeep
  <2>. QED BY <2>2, <2>3
<1>. QED BY <1>4, <1>5

\* A command that is waited for runs under its lock, and a lock has one holder.
LEMMA IInvExcludes == IInv => MutualExclusion
<1>. SUFFICES ASSUME IInv, NEW p \in Lockers, NEW q \in Lockers,
                     Attended(p), Attended(q), LockFile[p] = LockFile[q]
              PROVE  p = q
  BY DEF MutualExclusion
<1>1. Held(p) /\ Held(q)
  BY DEF Attended, IInv, LockOf
<1>. QED BY <1>1 DEF Held

\* For any lockers, lock files and codes, on POSIX and Windows: the variables
\* keep their types (sd-locker.c, state struct).
THEOREM TypeCorrect == Spec => []TypeOK
<1>1. IInv => TypeOK
  BY DEF IInv
<1>. QED BY InitIInv, NextIInv, <1>1, PTL DEF Spec

\* For any lockers, lock files and commands, whatever fails or is killed: two
\* commands that are waited for never run under one lock file
\* (sd_locker_lock_acquire and _release around sd_locker_execute).
THEOREM Exclusion == Spec => []MutualExclusion
<1>. QED BY InitIInv, NextIInv, IInvExcludes, PTL DEF Spec

----------------------------------------------------------------------------
(* The processes implement CommandLock. *)

Phases == [q \in Lockers |-> Phase(q)]

\* A child that has not begun its command, with a parent that has not returned,
\* is waited for under the lock.
LEMMA ChildBegins ==
  ASSUME IInv, NEW p \in Lockers, child[p] \in {"forked", "closed"},
         result[p] = Running
  PROVE  pc[p] = "wait" /\ Held(p)
BY DEF IInv, TypeOK, PCs, ChildOf, LockOf

\* The phase of a call whose command is taken to run.
LEMMA RunningPhase ==
  ASSUME IInv, NEW p \in Lockers, Phase(p) = "running"
  PROVE  Attended(p) /\ Held(p) /\ result[p] = Running
<1>1. result[p] = Running /\ child[p] = "running" /\ pc[p] \notin {"release", "close"}
  BY DEF Phase
<1>2. pc[p] = "wait"
  BY <1>1 DEF IInv, TypeOK, PCs, ChildOf, LockOf
<1>. QED BY <1>1, <1>2 DEF Attended, IInv, LockOf

\* A step of p that leaves its child and result in a phase changes no phase.
LEMMA SamePhases ==
  ASSUME \A q \in Lockers : Phase(q)' = Phase(q)
  PROVE  Phases' = Phases
BY DEF Phases

\* A step of p that changes p's phase changes no other.
LEMMA PhaseOfOne ==
  ASSUME NEW p \in Lockers, NEW x, Phase(p)' = x,
         \A q \in Lockers \ {p} : Phase(q)' = Phase(q)
  PROVE  Phases' = [Phases EXCEPT ![p] = x]
BY DEF Phases

LEMMA InitRefines == Init => CL!Init
<1>. SUFFICES ASSUME Init PROVE CL!Init
  OBVIOUS
<1>1. \A q \in Lockers : Phase(q) = "waiting"
  BY DEF Init, Phase, Running
<1>. QED BY <1>1 DEF Init, CL!Init, Running, CL!Running

\* A command begins, in a forked child or by CreateProcess.
LEMMA BeginRefines ==
  ASSUME IInv, NEW p \in Lockers,
         result[p] = Running, Held(p), Phase(p) = "waiting", Phase(p)' = "running",
         \A q \in Lockers \ {p} : Phase(q)' = Phase(q), UNCHANGED <<status, result>>
  PROVE  CL!Begin(p)
<1>1. Phases' = [Phases EXCEPT ![p] = "running"]
  BY PhaseOfOne
<1>2. ASSUME NEW q \in Lockers, LockFile[q] = LockFile[p], Phase(q) = "running"
      PROVE  FALSE
  BY <1>2, RunningPhase DEF Held
<1>. QED BY <1>1, <1>2 DEF CL!Begin, Phases

\* What a command does after its sd-locker has returned or given up waiting.
LEMMA EndsAloneRefines ==
  ASSUME IInv, NEW p \in Lockers, Phase(p) \in {"abandoned", "returned"},
         status[p] = Running, NEW c \in Codes \cup {"signalled"},
         status' = [status EXCEPT ![p] = c], UNCHANGED result,
         \A q \in Lockers : Phase(q)' = Phase(q)
  PROVE  CL!EndsAlone(p)
BY SamePhases DEF CL!EndsAlone, Phases, Running, CL!Running

\* Every step of sd-locker is a step of CommandLock or changes nothing of it.
LEMMA NextRefines ==
  ASSUME IInv, [Next]_vars
  PROVE  [CL!Next]_(CL!avars)
<1>. DEFINE Still == UNCHANGED <<Phases, status, result>>
<1>0. Still => UNCHANGED CL!avars
  BY DEF CL!avars, Phases
<1>1. TypeOK
  BY DEF IInv
<1>2. CASE UNCHANGED vars
  <2>1. \A q \in Lockers : Phase(q)' = Phase(q)
    BY <1>2 DEF vars, Phase
  <2>. QED BY <1>0, <1>2, <2>1, SamePhases DEF vars
<1>3. ASSUME NEW p \in Lockers, Proceeds(p) PROVE [CL!Next]_(CL!avars)
  <2>0. ChildOf(p) /\ LockOf(p)
    BY DEF IInv
  <2>1. CASE sd_locker_lock_file_open(p) \/ sd_locker_lock_acquire(p)
             \/ sd_locker_lock_release(p)
    <3>1. UNCHANGED <<child, status, result>>
      BY <2>1 DEF sd_locker_lock_file_open, sd_locker_lock_acquire, sd_locker_lock_release
    <3>2. \A q \in Lockers : pc'[q] \in {"release", "close"} <=> pc[q] \in {"release", "close"}
      BY <1>1, <2>1
      DEF TypeOK, sd_locker_lock_file_open, sd_locker_lock_acquire, sd_locker_lock_release
    <3>3. \A q \in Lockers : Phase(q)' = Phase(q)
      BY <3>1, <3>2 DEF Phase
    <3>. QED BY <1>0, <3>1, <3>3, SamePhases
  <2>2. CASE Fork(p)
    <3>1. \A q \in Lockers : Phase(q)' = Phase(q)
      BY <1>1, <2>0, <2>2 DEF Fork, Phase, TypeOK, ChildOf
    <3>. QED BY <1>0, <2>2, <3>1, SamePhases DEF Fork
  <2>3. CASE CreateProcess(p)
    <3>1. result[p] = Running /\ Held(p) /\ UNCHANGED <<status, result>>
      BY <2>0, <2>3 DEF CreateProcess, LockOf
    <3>2. Phase(p) = "waiting" /\ Phase(p)' = "running"
      BY <1>1, <2>0, <2>3, <3>1 DEF CreateProcess, Phase, TypeOK, ChildOf
    <3>3. \A q \in Lockers \ {p} : Phase(q)' = Phase(q)
      BY <1>1, <2>3 DEF CreateProcess, Phase, TypeOK
    <3>. QED BY <3>1, <3>2, <3>3, BeginRefines DEF CL!Next
  <2>4. CASE Wait(p)
    <3>1. pc[p] = "wait" /\ child[p] = "ended" /\ result[p] = Running
      BY <2>0, <2>4 DEF Wait, Waited, LockOf
    <3>2. \A q \in Lockers : Phase(q)' = Phase(q)
      BY <1>1, <2>4, <3>1 DEF Wait, Phase, TypeOK
    <3>. QED BY <1>0, <2>4, <3>2, SamePhases DEF Wait
  <2>5. CASE sd_locker_lock_file_close(p)
    <3>1. pc[p] = "close" /\ result[p] = Running /\ exitCode[p] \in Codes \cup {StillActive}
      BY <1>1, <2>0, <2>5 DEF sd_locker_lock_file_close, LockOf, TypeOK
    <3>2. exitCode[p] # Running
      BY <3>1, LockerAssumption DEF LockerAssumption, Running, StillActive
    <3>3. result' = [result EXCEPT ![p] = exitCode[p]] /\ UNCHANGED <<child, status>>
      BY <2>5 DEF sd_locker_lock_file_close, Exit
    <3>4. Phase(p)' = "returned"
      BY <1>1, <3>2, <3>3 DEF Phase, TypeOK
    <3>5. \A q \in Lockers \ {p} : Phase(q)' = Phase(q)
      BY <1>1, <2>5, <3>3 DEF sd_locker_lock_file_close, Exit, Phase, TypeOK
    <3>6. Phases' = [Phases EXCEPT ![p] = "returned"]
      BY <3>4, <3>5, PhaseOfOne
    <3>7. CASE child[p] = "reaped" /\ exitCode[p] = WEXITSTATUS(status[p])
      <4>1. Phase(p) = "ended"
        BY <3>1, <3>7 DEF Phase
      <4>. QED BY <3>3, <3>6, <3>7, <4>1
           DEF CL!Next, CL!Return, Phases, WEXITSTATUS, CL!Success, Success
    <3>8. CASE child[p] \in {"running", "ended"} /\ exitCode[p] = StillActive
      <4>1. Phase(p) = "abandoned"
        BY <3>1, <3>8 DEF Phase
      <4>. QED BY <3>3, <3>6, <3>8, <4>1
           DEF CL!Next, CL!Return, Phases, CL!StillActive, StillActive
    <3>. QED BY <2>0, <3>1, <3>7, <3>8 DEF ChildOf
  <2>. QED BY <1>3, <2>1, <2>2, <2>3, <2>4, <2>5 DEF Proceeds
<1>4. ASSUME NEW p \in Lockers, ChildProceeds(p) \/ ChildFails(p)
      PROVE  [CL!Next]_(CL!avars)
  <2>0. UNCHANGED <<pc, holder, result>> /\ ChildOf(p) /\ LockOf(p)
    BY <1>4
    DEF IInv, ChildProceeds, ChildCloses, ChildExecs, CommandEnds, ChildFails
  <2>1. ASSUME ChildCloses(p) \/ ChildExecs(p) \/ CommandEnds(p) \/ ChildFails(p)
        PROVE  \A q \in Lockers \ {p} : Phase(q)' = Phase(q)
    BY <1>1, <2>0, <2>1
    DEF ChildCloses, ChildExecs, CommandEnds, ChildFails, Phase, TypeOK
  <2>2. CASE ChildCloses(p)
    <3>1. Phase(p)' = Phase(p)
      BY <1>1, <2>0, <2>2 DEF ChildCloses, Phase, TypeOK
    <3>. QED BY <1>0, <2>0, <2>1, <2>2, <3>1, SamePhases DEF ChildCloses
  <2>3. CASE ChildExecs(p)
    <3>1. CASE result[p] = Running
      <4>1. pc[p] = "wait" /\ Held(p)
        BY <2>3, <3>1, ChildBegins DEF ChildExecs
      <4>2. Phase(p) = "waiting" /\ Phase(p)' = "running"
        BY <1>1, <2>0, <2>3, <3>1, <4>1 DEF ChildExecs, Phase, TypeOK
      <4>. QED BY <2>1, <2>3, <3>1, <4>1, <4>2, BeginRefines DEF CL!Next, ChildExecs
    <3>2. CASE result[p] # Running
      <4>1. Phase(p)' = Phase(p)
        BY <2>0, <3>2 DEF Phase
      <4>. QED BY <1>0, <2>0, <2>1, <2>3, <4>1, SamePhases DEF ChildExecs
    <3>. QED BY <3>1, <3>2
  <2>4. CASE CommandEnds(p)
    <3>0. PICK c \in Codes \cup {"signalled"} : status' = [status EXCEPT ![p] = c]
      BY <2>4 DEF CommandEnds
    <3>1. status[p] = Running /\ child[p] = "running"
      BY <2>0, <2>4 DEF ChildOf, CommandEnds
    <3>2. CASE Phase(p) = "running"
      <4>1. Phase(p)' = "ended"
        BY <1>1, <2>0, <2>4, <3>2 DEF CommandEnds, Phase, TypeOK
      <4>2. Phases' = [Phases EXCEPT ![p] = "ended"]
        BY <2>1, <2>4, <4>1, PhaseOfOne
      <4>. QED BY <2>0, <3>0, <3>2, <4>2 DEF CL!Next, CL!End, Phases
    <3>3. CASE Phase(p) # "running"
      <4>1. Phase(p) \in {"abandoned", "returned"}
        BY <3>1, <3>3 DEF Phase
      <4>2. Phase(p)' = Phase(p)
        BY <1>1, <2>0, <2>4, <3>1, <3>3 DEF CommandEnds, Phase, TypeOK
      <4>. QED BY <2>0, <2>1, <2>4, <3>0, <3>1, <4>1, <4>2, EndsAloneRefines DEF CL!Next
    <3>. QED BY <3>2, <3>3
  <2>5. CASE ChildFails(p)
    <3>0. status' = [status EXCEPT ![p] = Failure] /\ Failure \in Codes
      BY <2>5, LockerAssumption DEF ChildFails, LockerAssumption
    <3>1. status[p] = Running
      BY <2>0, <2>5 DEF ChildOf, ChildFails
    <3>2. CASE result[p] = Running
      <4>1. pc[p] = "wait"
        BY <2>5, <3>2, ChildBegins DEF ChildFails
      <4>2. Phase(p) = "waiting" /\ Phase(p)' = "ended"
        BY <1>1, <2>0, <2>5, <3>2, <4>1 DEF ChildFails, Phase, TypeOK
      <4>3. Phases' = [Phases EXCEPT ![p] = "ended"]
        BY <2>1, <2>5, <4>2, PhaseOfOne
      <4>. QED BY <2>0, <3>0, <4>2, <4>3
           DEF CL!Next, CL!Refuse, Phases, Failure, CL!Failure
    <3>3. CASE result[p] # Running
      <4>1. Phase(p) = "returned" /\ Phase(p)' = "returned"
        BY <2>0, <3>3 DEF Phase
      <4>. QED BY <2>0, <2>1, <2>5, <3>0, <3>1, <4>1, EndsAloneRefines DEF CL!Next
    <3>. QED BY <3>2, <3>3
  <2>. QED BY <1>4, <2>2, <2>3, <2>4, <2>5 DEF ChildProceeds
<1>5. ASSUME NEW p \in Lockers, WaitFails(p) PROVE [CL!Next]_(CL!avars)
  <2>1. result[p] = Running /\ UNCHANGED <<child, status, result>>
    BY <1>5 DEF WaitFails, IInv, LockOf
  <2>2. Phase(p) = "running" /\ Phase(p)' = "abandoned"
    BY <1>1, <1>5, <2>1 DEF WaitFails, Phase, TypeOK
  <2>3. \A q \in Lockers \ {p} : Phase(q)' = Phase(q)
    BY <1>1, <1>5, <2>1 DEF WaitFails, Phase, TypeOK
  <2>4. Phases' = [Phases EXCEPT ![p] = "abandoned"]
    BY <2>2, <2>3, PhaseOfOne
  <2>. QED BY <2>1, <2>2, <2>4 DEF CL!Next, CL!Abandon, Phases
<1>6. ASSUME NEW p \in Lockers, sd_locker_fatal(p) \/ Killed(p)
      PROVE  [CL!Next]_(CL!avars)
  <2>. DEFINE code == IF sd_locker_fatal(p) THEN Failure ELSE "killed"
  <2>1. pc[p] # "done" /\ (sd_locker_fatal(p) /\ pc[p] = "wait" => child[p] = "ended")
    BY <1>6 DEF sd_locker_fatal, Killed, Waited
  <2>2. result[p] = Running
    BY <2>1 DEF IInv, LockOf
  <2>3. /\ result' = [result EXCEPT ![p] = code] /\ UNCHANGED <<child, status>>
        /\ pc' = [pc EXCEPT ![p] = "done"]
    BY <1>6 DEF sd_locker_fatal, Killed, Exit
  <2>4. Phase(p)' = "returned" /\ Phase(p) # "returned"
    BY <1>1, <2>2, <2>3 DEF Phase, TypeOK, Failure, Running
  <2>5. \A q \in Lockers \ {p} : Phase(q)' = Phase(q)
    BY <1>1, <2>3 DEF Phase, TypeOK
  <2>6. Phases' = [Phases EXCEPT ![p] = "returned"]
    BY <2>4, <2>5, PhaseOfOne
  <2>7. CASE sd_locker_fatal(p)
    <3>1. Phase(p) \in {"waiting", "ended", "abandoned"}
      BY <1>1, <2>1, <2>2, <2>7 DEF Phase, IInv, ChildOf, TypeOK, PCs
    <3>. QED BY <2>3, <2>6, <2>7, <3>1 DEF CL!Next, CL!Return, Phases, Failure, CL!Failure
  <2>8. CASE ~ sd_locker_fatal(p)
    BY <2>3, <2>4, <2>6, <2>8 DEF CL!Next, CL!Kill, Phases
  <2>. QED BY <2>7, <2>8
<1>7. ASSUME NEW p \in Lockers, Disturbed(p) PROVE [CL!Next]_(CL!avars)
  BY <1>4, <1>5, <1>6, <1>7 DEF Disturbed
<1>. QED BY <1>2, <1>3, <1>4, <1>7 DEF Next

\* For any lockers, lock files and commands, whatever fails or is killed:
\* sd-locker implements CommandLock (main of sd-locker.c over both back ends).
THEOREM Refinement == Spec => KeepsPromise
<1>. QED BY InitIInv, NextIInv, InitRefines, NextRefines, PTL DEF Spec, KeepsPromise, CL!Spec

----------------------------------------------------------------------------
(* Who waits, and for how long *)

\* A process that waits for its lock waits for one other, of the same lock file,
\* that is between the lock and its release and has its command ahead of it, under
\* way or behind it: none that waits for a lock itself, has ended or was killed.
WaitsForWork ==
  \A p \in Lockers : pc[p] = "acquire" /\ ~Grantable(p) =>
    \E q \in Lockers :
      /\ q # p /\ Held(q) /\ LockFile[q] = LockFile[p]
      /\ pc[q] \in {"execute", "wait", "release"}

\* For any lockers and lock files, whatever fails or is killed with the lock in
\* hand: no two processes wait for each other (sd_locker_lock_acquire waits
\* without a limit of time).
THEOREM NoDeadlock == Spec => []WaitsForWork
<1>1. IInv => WaitsForWork
  <2>. SUFFICES ASSUME IInv, NEW p \in Lockers, pc[p] = "acquire",
                       holder[LockFile[p]] # Nobody
                PROVE  \E q \in Lockers :
                         /\ q # p /\ Held(q) /\ LockFile[q] = LockFile[p]
                         /\ pc[q] \in {"execute", "wait", "release"}
    BY DEF WaitsForWork, Grantable
  <2>1. LockFile[p] \in Files /\ holder[LockFile[p]] \in Lockers
    BY LockerAssumption DEF LockerAssumption, IInv, TypeOK
  <2>2. PICK q \in Lockers : holder[LockFile[p]] = q
    BY <2>1
  <2>3. LockFile[q] = LockFile[p] /\ Held(q)
    BY <2>1, <2>2 DEF IInv, LockOf, Held
  <2>4. pc[q] \in {"execute", "wait", "release"}
    BY <2>3 DEF IInv, LockOf
  <2>. QED BY <2>3, <2>4
<1>. QED BY InitIInv, NextIInv, <1>1, PTL DEF Spec

\* The commands of main that are left to a process, and what is left to its child
\* before it has ended.
StepsOfMain(p) ==
  CASE pc[p] = "open" -> 6 [] pc[p] = "acquire" -> 5 [] pc[p] = "execute" -> 4
    [] pc[p] = "wait" -> 3 [] pc[p] = "release" -> 2 [] pc[p] = "close" -> 1
    [] pc[p] = "done" -> 0

StepsOfChild(p) ==
  CASE child[p] \in {"none", "forked"} -> 3 [] child[p] = "closed" -> 2
    [] child[p] = "running" -> 1 [] child[p] \in {"ended", "reaped"} -> 0

StepsLeft(p) == StepsOfMain(p) + StepsOfChild(p)

LEMMA StepsLeftBounds ==
  ASSUME TypeOK, NEW p \in Lockers
  PROVE  StepsOfMain(p) \in 0..6 /\ StepsOfChild(p) \in 0..3 /\ StepsLeft(p) \in 0..9
<1>1. pc[p] \in PCs /\ child[p] \in Children
  BY DEF TypeOK
<1>2. StepsOfMain(p) \in 0..6
  BY <1>1 DEF PCs, StepsOfMain
<1>3. StepsOfChild(p) \in 0..3
  BY <1>1 DEF Children, StepsOfChild
<1>. QED BY <1>2, <1>3 DEF StepsLeft

\* The process that takes a step, or whose child does, has fewer left; the others
\* have what they had.
StepsCount ==
  \E p \in Lockers : /\ StepsLeft(p)' < StepsLeft(p)
                     /\ \A q \in Lockers \ {p} : StepsLeft(q)' = StepsLeft(q)

LEMMA OwnStepCounts ==
  ASSUME IInv, TypeOK', NEW p \in Lockers, Proceeds(p) \/ ChildProceeds(p) \/ Disturbed(p)
  PROVE  StepsLeft(p)' < StepsLeft(p)
<1>0. /\ pc \in [Lockers -> PCs] /\ child \in [Lockers -> Children] /\ ChildOf(p)
      /\ pc[p] \in PCs /\ child[p] \in Children
  BY DEF IInv, TypeOK
<1>e. StepsOfMain(p) \in 0..6 /\ StepsOfChild(p) \in 0..3
  BY StepsLeftBounds DEF IInv
<1>f. (StepsOfMain(p) \in 0..6 /\ StepsOfChild(p) \in 0..3)'
  BY StepsLeftBounds, PTL
<1>a. ASSUME StepsOfMain(p)' < StepsOfMain(p), StepsOfChild(p)' = StepsOfChild(p)
      PROVE  StepsLeft(p)' < StepsLeft(p)
  BY <1>a, <1>e, <1>f DEF StepsLeft
<1>b. ASSUME StepsOfMain(p)' = StepsOfMain(p), StepsOfChild(p)' < StepsOfChild(p)
      PROVE  StepsLeft(p)' < StepsLeft(p)
  BY <1>b, <1>e, <1>f DEF StepsLeft
<1>c. ASSUME NEW c \in PCs, pc' = [pc EXCEPT ![p] = c], child' = child
      PROVE  pc'[p] = c /\ StepsOfChild(p)' = StepsOfChild(p)
  BY <1>0, <1>c DEF StepsOfChild
<1>d. ASSUME NEW c, child' = [child EXCEPT ![p] = c], pc' = pc
      PROVE  child'[p] = c /\ StepsOfMain(p)' = StepsOfMain(p)
  BY <1>0, <1>d DEF StepsOfMain
<1>. USE DEF PCs, Children
<1>1. CASE sd_locker_lock_file_open(p) \/ sd_locker_lock_acquire(p) \/ WaitFails(p)
           \/ sd_locker_lock_release(p)
  BY <1>1, <1>a, <1>c
  DEF sd_locker_lock_file_open, sd_locker_lock_acquire, WaitFails, sd_locker_lock_release,
      StepsOfMain
<1>2. CASE Fork(p)
  <2>1. /\ pc[p] = "execute" /\ pc'[p] = "wait" /\ child[p] = "none" /\ child'[p] = "forked"
    BY <1>0, <1>2 DEF Fork, ChildOf
  <2>. QED BY <1>a, <2>1 DEF StepsOfMain, StepsOfChild
<1>3. CASE CreateProcess(p)
  <2>1. /\ pc[p] = "execute" /\ pc'[p] = "wait" /\ child[p] = "none" /\ child'[p] = "running"
    BY <1>0, <1>3 DEF CreateProcess, ChildOf
  <2>. QED BY <2>1 DEF StepsLeft, StepsOfMain, StepsOfChild
<1>4. CASE Wait(p)
  <2>1. /\ pc[p] = "wait" /\ pc'[p] = "release" /\ child[p] = "ended" /\ child'[p] = "reaped"
    BY <1>0, <1>4 DEF Wait, Waited
  <2>. QED BY <1>a, <2>1 DEF StepsOfMain, StepsOfChild
<1>5. CASE sd_locker_lock_file_close(p) \/ sd_locker_fatal(p) \/ Killed(p)
  <2>1. pc' = [pc EXCEPT ![p] = "done"] /\ child' = child /\ pc[p] # "done"
    BY <1>5 DEF sd_locker_lock_file_close, sd_locker_fatal, Killed, Exit
  <2>2. pc'[p] = "done" /\ StepsOfChild(p)' = StepsOfChild(p)
    BY <1>c, <2>1
  <2>. QED BY <1>0, <1>a, <2>1, <2>2 DEF StepsOfMain
<1>6. CASE ChildCloses(p) \/ ChildExecs(p) \/ ChildFails(p) \/ CommandEnds(p)
  BY <1>6, <1>b, <1>d DEF ChildCloses, ChildExecs, ChildFails, CommandEnds, StepsOfChild
<1>. QED BY <1>1, <1>2, <1>3, <1>4, <1>5, <1>6 DEF Proceeds, ChildProceeds, Disturbed

LEMMA NextStepsCount ==
  ASSUME IInv, [Next]_vars
  PROVE  [StepsCount]_vars
<1>. SUFFICES ASSUME Next PROVE StepsCount
  OBVIOUS
<1>0. TypeOK /\ TypeOK'
  BY NextTypeOK DEF IInv
<1>1. PICK p \in Lockers : Proceeds(p) \/ ChildProceeds(p) \/ Disturbed(p)
  BY DEF Next
<1>2. \A q \in Lockers \ {p} : pc'[q] = pc[q] /\ child'[q] = child[q]
  BY <1>0, <1>1, OthersKeep
<1>3. \A q \in Lockers \ {p} : StepsLeft(q)' = StepsLeft(q)
  BY <1>2 DEF StepsLeft, StepsOfMain, StepsOfChild
<1>. QED BY <1>0, <1>1, <1>3, OwnStepCounts DEF StepsCount

\* A process and its command take at most nine steps between them, whatever fails
\* or is killed: each step is somebody's and lowers what that one has left, and
\* none gives any back.  With NoDeadlock it is the safety half of
\* EveryCallReturns.
THEOREM CallsAreBounded ==
  Spec => [](\A p \in Lockers : StepsLeft(p) \in 0..9) /\ [][StepsCount]_vars
<1>1. IInv => \A p \in Lockers : StepsLeft(p) \in 0..9
  BY StepsLeftBounds DEF IInv
<1>. QED BY InitIInv, NextIInv, NextStepsCount, <1>1, PTL DEF Spec

----------------------------------------------------------------------------
(* What an exit status says *)

\* A status that is neither failure nor one of sd-locker's own is that of a command
\* that was waited for to its end.
ResultIsKnown ==
  \A p \in Lockers : result[p] \in Codes \ {Failure} =>
    child[p] = "reaped" /\ result[p] = WEXITSTATUS(status[p])

\* No command ends by a signal on Windows.
NoSignals == os = "win32" => \A p \in Lockers : status[p] # "signalled"

LEMMA NextResultIsKnown ==
  ASSUME IInv, ResultIsKnown, [Next]_vars
  PROVE  ResultIsKnown'
<1>0. TypeOK
  BY DEF IInv
<1>. SUFFICES ASSUME NEW q \in Lockers, result'[q] \in Codes \ {Failure}
              PROVE  child'[q] = "reaped" /\ result'[q] = WEXITSTATUS(status'[q])
  BY DEF ResultIsKnown, WEXITSTATUS
<1>1. CASE UNCHANGED vars
  BY <1>1 DEF vars, ResultIsKnown
<1>2. ASSUME NEW p \in Lockers, Proceeds(p) \/ ChildProceeds(p) \/ Disturbed(p)
      PROVE  child'[q] = "reaped" /\ result'[q] = WEXITSTATUS(status'[q])
  <2>1. CASE p # q
    <3>1. child'[q] = child[q] /\ status'[q] = status[q] /\ result'[q] = result[q]
      BY <1>0, <1>2, <2>1, OthersKeep
    <3>. QED BY <3>1 DEF ResultIsKnown
  <2>2. CASE p = q
    <3>0. /\ result \in [Lockers -> Codes \cup {"killed", StillActive, Running}]
          /\ child \in [Lockers -> Children] /\ ChildOf(q) /\ LockOf(q)
      BY DEF IInv, TypeOK
    <3>1. ASSUME result' = result, child' = child, status' = status
          PROVE  child'[q] = "reaped" /\ result'[q] = WEXITSTATUS(status'[q])
      BY <3>1 DEF ResultIsKnown
    <3>2. CASE sd_locker_lock_file_close(q)
      <4>1. /\ pc[q] = "close" /\ result'[q] = exitCode[q]
            /\ child' = child /\ status' = status
        BY <3>0, <3>2 DEF sd_locker_lock_file_close, Exit
      <4>2. exitCode[q] # StillActive
        BY <4>1, LockerAssumption DEF LockerAssumption
      <4>. QED BY <3>0, <4>1, <4>2 DEF ChildOf
    <3>3. CASE sd_locker_fatal(q) \/ Killed(q)
      <4>1. result'[q] \in {Failure, "killed"}
        BY <3>0, <3>3 DEF sd_locker_fatal, Killed, Exit
      <4>. QED BY <4>1, LockerAssumption DEF LockerAssumption
    <3>4. CASE Wait(q)
      <4>1. /\ result' = result /\ status' = status /\ pc[q] = "wait"
        BY <3>4 DEF Wait
      <4>2. result[q] = Running
        BY <3>0, <4>1 DEF LockOf
      <4>. QED BY <4>1, <4>2, LockerAssumption DEF LockerAssumption
    <3>5. CASE Fork(q) \/ CreateProcess(q)
      <4>1. result' = result /\ child[q] # "reaped"
        BY <3>0, <3>5 DEF Fork, CreateProcess, ChildOf
      <4>. QED BY <4>1 DEF ResultIsKnown
    <3>6. CASE ChildCloses(q) \/ ChildExecs(q) \/ ChildFails(q) \/ CommandEnds(q)
      <4>1. result' = result /\ child[q] # "reaped"
        BY <3>6 DEF ChildCloses, ChildExecs, ChildFails, CommandEnds
      <4>. QED BY <4>1 DEF ResultIsKnown
    <3>7. CASE sd_locker_lock_file_open(q) \/ sd_locker_lock_acquire(q)
               \/ sd_locker_lock_release(q) \/ WaitFails(q)
      BY <3>1, <3>7
      DEF sd_locker_lock_file_open, sd_locker_lock_acquire, sd_locker_lock_release, WaitFails
    <3>. QED BY <1>2, <2>2, <3>2, <3>3, <3>4, <3>5, <3>6, <3>7
             DEF Proceeds, ChildProceeds, Disturbed
  <2>. QED BY <2>1, <2>2
<1>. QED BY <1>1, <1>2 DEF Next

LEMMA NextNoSignals ==
  ASSUME IInv, NoSignals, [Next]_vars
  PROVE  NoSignals'
<1>0. TypeOK
  BY DEF IInv
<1>. SUFFICES ASSUME os' = "win32", NEW q \in Lockers PROVE status'[q] # "signalled"
  BY DEF NoSignals
<1>1. os' = os
  BY DEF Next, Proceeds, ChildProceeds, Disturbed, vars
<1>2. CASE UNCHANGED vars
  BY <1>2 DEF vars, NoSignals
<1>3. ASSUME NEW p \in Lockers, Proceeds(p) \/ ChildProceeds(p) \/ Disturbed(p)
      PROVE  status'[q] # "signalled"
  <2>1. CASE p # q
    <3>1. status'[q] = status[q]
      BY <1>0, <1>3, <2>1, OthersKeep
    <3>. QED BY <1>1, <3>1 DEF NoSignals
  <2>2. CASE p = q /\ CommandEnds(q)
    <3>1. PICK c \in Codes \cup {"signalled"} :
            (c = "signalled" => os = "posix") /\ status' = [status EXCEPT ![q] = c]
      BY <2>2 DEF CommandEnds
    <3>2. status'[q] = c
      BY <1>0, <3>1 DEF TypeOK
    <3>. QED BY <1>1, <3>1, <3>2
  <2>3. CASE p = q /\ ChildFails(q)
    <3>1. status'[q] = Failure
      BY <1>0, <2>3 DEF TypeOK, ChildFails
    <3>. QED BY <3>1 DEF Failure
  <2>4. CASE p = q /\ UNCHANGED status
    BY <1>1, <2>4 DEF NoSignals
  <2>. QED BY <1>3, <2>1, <2>2, <2>3, <2>4
       DEF Proceeds, ChildProceeds, Disturbed, sd_locker_lock_file_open,
           sd_locker_lock_acquire, Fork, CreateProcess, Wait, sd_locker_lock_release,
           sd_locker_lock_file_close, ChildCloses, ChildExecs, WaitFails, sd_locker_fatal,
           Killed, Exit
<1>. QED BY <1>2, <1>3 DEF Next

\* For any lockers, lock files and commands, whatever fails or is killed: when
\* sd-locker exits with a code that is not failure or a status of its own, its
\* command has ended with that code, or by a signal when the code is success; on
\* Windows success means that the command succeeded.  What is left is the
\* violation of SuccessIsTheCommands that TLC shows on POSIX (WEXITSTATUS in
\* sd-locker_posix.c).
THEOREM ResultsOfCommands ==
  Spec => []ResultIsKnown /\ [](os = "win32" => SuccessIsTheCommands)
<1>. DEFINE Inv == IInv /\ ResultIsKnown /\ NoSignals
<1>1. Init => Inv
  <2>1. Init => ResultIsKnown
    BY LockerAssumption DEF LockerAssumption, Init, ResultIsKnown
  <2>2. Init => NoSignals
    BY DEF Init, NoSignals, Running
  <2>. QED BY <2>1, <2>2, InitIInv
<1>2. Inv /\ [Next]_vars => Inv'
  BY NextIInv, NextResultIsKnown, NextNoSignals
<1>3. Inv => ResultIsKnown /\ (os = "win32" => SuccessIsTheCommands)
  <2>. SUFFICES ASSUME Inv, os = "win32", NEW p \in Lockers, result[p] = Success
                PROVE  status[p] = Success
    BY DEF SuccessIsTheCommands
  <2>1. Success \in Codes \ {Failure}
    BY LockerAssumption DEF LockerAssumption, Success, Failure
  <2>2. result[p] = WEXITSTATUS(status[p]) /\ status[p] # "signalled"
    BY <2>1 DEF ResultIsKnown, NoSignals
  <2>. QED BY <2>2 DEF WEXITSTATUS
<1>. QED BY <1>1, <1>2, <1>3, PTL DEF Spec
============================================================================
