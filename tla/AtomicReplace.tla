--------------------------- MODULE AtomicReplace ---------------------------
(***************************************************************************)
(* What an installation promises to whoever uses the installed files while *)
(* it runs, or after it was interrupted: each file is, at every moment,    *)
(* what it was, what it should become, or gone.                            *)
(***************************************************************************)
CONSTANTS
  Dests,    \* the installed files
  Wanted,   \* what each should be, data and mode
  Earlier,  \* what each may have been before
  Gone      \* the file does not exist

VARIABLE dest

Init == /\ DOMAIN dest = Dests
        /\ \A d \in Dests : dest[d] \in Earlier[d] \cup {Gone}

Replace(d) == dest' = [dest EXCEPT ![d] = Wanted[d]]
Remove(d)  == dest' = [dest EXCEPT ![d] = Gone]

Next == \E d \in Dests : Replace(d) \/ Remove(d)

Spec == Init /\ [][Next]_dest
============================================================================
