----------------------------- MODULE LuaClient -----------------------------
(***************************************************************************)
(* The loader in the hands of a careful client, the discipline the unit    *)
(* tests follow: it leaves every table it started before its callback      *)
(* returns and no other, asks for fields of tables only, reads the key     *)
(* and the value of an entry where they are, changes the interpreter only  *)
(* when nothing is open, and handles only an exception that a lookup       *)
(* raised in the same code.  Every step is a step of LuaLoad.              *)
(***************************************************************************)
EXTENDS LuaLoad

VARIABLES
  calls,    \* history of each running Table_Iterate: the table, the stack and
            \* the names at the call, the keys Process has been called for and
            \* the number of components open when it was called
  harmless, \* the exception was raised by a lookup and has left no callback
  left      \* what the exception being raised has left: the names at the call of
            \* the outermost iteration, how many of the entries Process was called
            \* for have a name, how many tables those Process calls had open

cvars == <<lua, nameFile, names, errString, stacks, frames, ctl, exc, calls, harmless, left>>

Call == calls[Len(calls)]
MarkAt(cs, i) == IF i = 0 THEN 0 ELSE cs[i].mark
Mark == MarkAt(calls, Len(calls))
OpenHere == Len(names.open) - Mark     \* tables this code started
AtEntry  == calls # <<>> /\ OpenHere = 0

Begin == [table |-> Top, base |-> stack, entry |-> names,
          seen |-> <<stacks'[lua][Height + 1]>>, mark |-> Len(names'.open)]
Turn  == [Call EXCEPT !.seen = Append(@, stacks'[lua][Height - 1]),
                      !.mark = Len(names'.open)]
Outer == SubSeq(calls, 1, Len(calls) - 1)

\* An exception raised here has left no Process yet; it finds the names e.
Reaches(e) == left' = [entry |-> e, own |-> 0, tables |-> 0]

Lookup_Here ==
  /\ \/ \E want \in Wanted : AtEntry /\ Key(want)
     \/ \E want \in Wanted, k \in Asked, edge \in BOOLEAN :
          /\ Running /\ Tag[Top] = "table"
          /\ \/ Named_Local(k, want) \/ Indexed_Local(k, want)
             \/ Named_Local_Conditional(k, want, edge)
             \/ Indexed_Local_Conditional(k, want, edge)
  /\ harmless' = TRUE /\ UNCHANGED calls /\ Reaches(names')

Local_Here ==
  /\ AtEntry
  /\ \E want \in Wanted, edge \in BOOLEAN : Local(want) \/ Local_Conditional(want, edge)
  /\ harmless' = FALSE /\ UNCHANGED calls /\ Reaches(names')

Start_Here ==
  /\ Running /\ Tag[Top] = "table"
  /\ \E k \in Asked : Table_Start(k)
  /\ harmless' = FALSE /\ UNCHANGED calls /\ Reaches(names')

End_Here ==
  /\ OpenHere > 0 /\ Table_End
  /\ harmless' = FALSE /\ UNCHANGED calls /\ Reaches(names')

Iterate_Here ==
  /\ Table_Iterate
  /\ calls' = IF Len(frames') > Len(frames) THEN Append(calls, Begin) ELSE calls
  /\ harmless' = FALSE /\ Reaches(names')

Return_Here ==
  /\ AtEntry /\ Process_Returns
  /\ calls' = IF Len(frames') = Len(frames) THEN Append(Outer, Turn) ELSE Outer
  /\ harmless' = FALSE /\ Reaches(Call.entry)

Raise_Here ==
  /\ Process_Raises
  /\ calls' = Outer /\ harmless' = FALSE
  /\ left' = [entry  |-> Call.entry,
              own    |-> left.own + IF Innermost.added THEN 1 ELSE 0,
              tables |-> left.tables + Len(left.entry.open) - Mark]

Handle_Here ==
  /\ harmless /\ Client_Handles
  /\ UNCHANGED <<calls, harmless>> /\ Reaches(names')

\* A new interpreter, or a new file, before anything is opened.
Configure_Here ==
  /\ frames = <<>> /\ names.open = <<>>
  /\ Configuration
  /\ UNCHANGED <<calls, harmless>> /\ Reaches(names')

CInit == /\ Init /\ calls = <<>> /\ harmless = FALSE
         /\ left = [entry |-> names, own |-> 0, tables |-> 0]

CNext == \/ Lookup_Here \/ Local_Here \/ Start_Here \/ End_Here \/ Iterate_Here
         \/ Return_Here \/ Raise_Here \/ Handle_Here \/ Configure_Here
         \/ Client_Stops /\ UNCHANGED <<calls, harmless, left>>

CSpec == CInit /\ [][CNext]_cvars

----------------------------------------------------------------------------
(* Properties *)

\* The discipline suffices: Lua is never asked for a slot that does not exist,
\* a field of a non-table, or the entry after a key that is not one.
NeverUndefined == ctl # "undefined"

\* The stack s of code inside the first i of the iterations cs, with n components
\* open: the table iterated and what was below it, unchanged, the entry Process
\* was called for, and one table for each Table_Start not yet ended.
Floor(cs, i) == IF i = 0 THEN 1 ELSE Len(cs[i].base) + 2
Mirrors(cs, s, n, i) ==
  /\ MarkAt(cs, i) <= n /\ Len(s) = Floor(cs, i) + n - MarkAt(cs, i)
  /\ \A j \in (Floor(cs, i) + 1)..Len(s) : Tag[s[j]] = "table"
  /\ i > 0 => LET c == cs[i] h == Len(c.base) IN
       /\ SubSeq(s, 1, h) = c.base /\ c.base[h] = c.table
       /\ s[h + 1] = KeyAt(c.table, Len(c.seen))
       /\ s[h + 2] = ValueAt(c.table, Len(c.seen))

\* Where client code runs the stack is what it should be, and so was, and still
\* is below it, the one each running iteration was called on.
StackMirrorsPath ==
  ctl = "client" =>
    /\ Len(calls) = Len(frames)
    /\ Mirrors(calls, stack, Len(names.open), Len(calls))
    /\ \A i \in 1..Len(calls) :
         Mirrors(calls, calls[i].base, Len(calls[i].entry.open), i - 1)

\* Table_Iterate calls Process once for each entry, in order, and leaves the
\* stack and the names as it found them when no exception stops it.
IterationIsComplete ==
  [][(Return_Here /\ ctl' = "client" /\ Len(calls') < Len(calls))
       => /\ Call.seen = [i \in Indices(Call.table) |-> KeyAt(Call.table, i)]
          /\ stack' = Call.base
          /\ names' = Call.entry]_cvars

\* A Load_Error that leaves a callback which had no table of its own open
\* leaves the names as they were when Table_Iterate was called (the handler).
HandlerRestoresNames ==
  [][(Raise_Here /\ exc = "Load_Error" /\ OpenHere = 0)
       => names' = Call.entry /\ exc' = exc]_cvars

\* Every component of n is one of m, at the same place.
Within(n, m) == /\ Len(n.open) <= Len(m.open)
                /\ \A j \in 1..Len(n.open) : m.open[j] = n.open[j]

\* However many iterations an exception has left, it has taken no component of
\* the code it reaches, although each handler removes the last component, whose
\* ever it is; and it leaves that code one component for each table a Process had
\* open, and one for each named entry if it is not a Load_Error, which alone is
\* handled (Process_Raises; the conversion of a key in LoopTurn).
ExceptionLeavesPath ==
  ctl = "raising" =>
    /\ Within(left.entry, names)
    /\ names.depth = left.entry.depth + left.tables
                       + IF exc = "Load_Error" THEN 0 ELSE left.own
============================================================================
