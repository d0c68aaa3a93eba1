---------------------------- MODULE CommandLock ----------------------------
(***************************************************************************)
(* What sd-locker promises the scripts that call it: of the commands given *)
(* the same lock file at most one runs at a time, as long as its call      *)
(* attends it; and a call returns the exit code of its command after the   *)
(* command has ended, or says that it does not know it: failure, a signal  *)
(* of its own, or the code Windows has for a process that still runs.      *)
(***************************************************************************)
CONSTANTS
  Lockers,   \* the calls of sd-locker
  LockFile,  \* [Lockers -> lock files]
  Codes      \* the exit codes a command may end with

Success == "exit 0"
Failure == "exit 1"
Running == "running"
StillActive == "still active"

VARIABLES
  phase,     \* "waiting", "running", "abandoned", "ended" or "returned"
  ended,     \* the code the command ended with, or how it failed to have one
  returned   \* the code sd-locker returned, or Running

avars == <<phase, ended, returned>>

Init ==
  /\ phase = [p \in Lockers |-> "waiting"]
  /\ ended = [p \in Lockers |-> Running]
  /\ returned = [p \in Lockers |-> Running]

Begin(p) ==
  /\ phase[p] = "waiting"
  /\ \A q \in Lockers : LockFile[q] = LockFile[p] => phase[q] # "running"
  /\ phase' = [phase EXCEPT ![p] = "running"]
  /\ UNCHANGED <<ended, returned>>

\* The command ends, on its own or by a signal.
End(p) ==
  /\ phase[p] = "running"
  /\ \E c \in Codes \cup {"signalled"} : ended' = [ended EXCEPT ![p] = c]
  /\ phase' = [phase EXCEPT ![p] = "ended"]
  /\ UNCHANGED returned

\* The command cannot be started.
Refuse(p) ==
  /\ phase[p] = "waiting"
  /\ ended' = [ended EXCEPT ![p] = Failure]
  /\ phase' = [phase EXCEPT ![p] = "ended"]
  /\ UNCHANGED returned

\* The call no longer waits for its command, which goes on, and may end (or
\* fail to start) after the call has returned.
Abandon(p) ==
  /\ phase[p] = "running"
  /\ phase' = [phase EXCEPT ![p] = "abandoned"]
  /\ UNCHANGED <<ended, returned>>

EndsAlone(p) ==
  /\ phase[p] \in {"abandoned", "returned"} /\ ended[p] = Running
  /\ \E c \in Codes \cup {"signalled"} : ended' = [ended EXCEPT ![p] = c]
  /\ UNCHANGED <<phase, returned>>

\* A command ended by a signal has no exit code: the call may return success.
Return(p) ==
  /\ phase[p] \in {"waiting", "ended", "abandoned"}
  /\ \/ returned' = [returned EXCEPT ![p] = Failure]
     \/ /\ phase[p] = "abandoned"
        /\ returned' = [returned EXCEPT ![p] = StillActive]
     \/ /\ phase[p] = "ended"
        /\ returned' = [returned EXCEPT ![p] =
                          IF ended[p] = "signalled" THEN Success ELSE ended[p]]
  /\ phase' = [phase EXCEPT ![p] = "returned"]
  /\ UNCHANGED ended

\* The call itself is killed, with its command in any phase.
Kill(p) ==
  /\ phase[p] # "returned"
  /\ returned' = [returned EXCEPT ![p] = "killed"]
  /\ phase' = [phase EXCEPT ![p] = "returned"]
  /\ UNCHANGED ended

Next == \E p \in Lockers :
          \/ Begin(p) \/ End(p) \/ Refuse(p) \/ Abandon(p) \/ EndsAlone(p)
          \/ Return(p) \/ Kill(p)

Spec == Init /\ [][Next]_avars
============================================================================
