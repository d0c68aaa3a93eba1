------------------------------ MODULE LuaLoad ------------------------------
(***************************************************************************)
(* The loader of lua-load.adb over the Lua stack it drives: the traversal  *)
(* of a value tree (Table_Start, Table_End, Table_Iterate), the lookups    *)
(* (Key, Local, Named_Local, Indexed_Local and their conditional forms),   *)
(* the dotted name it keeps of where the traversal is, and the exceptions  *)
(* that leave it.  The client is arbitrary: at every point where client    *)
(* code runs, in the main program or inside a Process callback, it may     *)
(* make any call, let an exception through or handle it.  LuaClient.tla    *)
(* restricts it to the calls a careful client makes.                       *)
(***************************************************************************)
EXTENDS Naturals, Sequences

CONSTANTS
  Interps,      \* the Lua interpreters Set_Lua may be given
  Start,        \* [Interps -> Values]: the value the script left on its stack
  Files,        \* the names Set_File may be given
  Values,       \* every Lua value of the scripts
  Nil,          \* the value nil
  Tag,          \* [Values -> Types]: lua_type
  Entries,      \* [tables -> Seq(key/value pairs)], in the order of lua_next
  Label,        \* [number and string values -> Seq(Chars)]: the text of a key
  FitsInteger,  \* the numbers an Ada Integer holds
  FitsLong,     \* the numbers an Ada Long_Integer holds
  Chars, Dot,   \* the pieces of a name; Dot separates components
  Asked,        \* the keys the client asks for by name or by index
  MaxHeight,    \* bound on the height of a Lua stack
  MaxDepth,     \* bound on Name_Depth
  MaxCalls      \* bound on the nesting of Table_Iterate

Types == {"nil", "number", "string", "table", "other"}
Wanted == {"number", "integer", "string"}
TagOf(want) == IF want = "integer" THEN "number" ELSE want

Tables == {v \in Values : Tag[v] = "table"}
Named  == {v \in Values : Tag[v] \in {"number", "string"}}
KeyAt(t, i)   == Entries[t][i][1]
ValueAt(t, i) == Entries[t][i][2]
Indices(t)    == 1..Len(Entries[t])

ASSUME ConstantsOK ==
  /\ Tag \in [Values -> Types]
  /\ Nil \in Values /\ Tag[Nil] = "nil"
  /\ Start \in [Interps -> Values]
  /\ Dot \in Chars
  /\ FitsInteger \subseteq FitsLong
  /\ FitsLong \subseteq {v \in Values : Tag[v] = "number"}
  /\ Entries \in [Tables -> Seq((Values \ {Nil}) \X (Values \ {Nil}))]
  /\ \A t \in Tables : \A i, j \in Indices(t) : KeyAt(t, i) = KeyAt(t, j) => i = j
  /\ Label \in [Named -> Seq(Chars)]
  /\ Asked \subseteq Named
  /\ MaxHeight \in Nat /\ MaxDepth \in Nat /\ MaxCalls \in Nat

\* A table entry read by lua_gettable: nil when the key is absent.
Get(t, k) == IF \E i \in Indices(t) : KeyAt(t, i) = k
             THEN ValueAt(t, CHOOSE i \in Indices(t) : KeyAt(t, i) = k)
             ELSE Nil

\* The position lua_next reads after key k: the first when k is nil.
IsKey(t, k)    == k = Nil \/ \E i \in Indices(t) : KeyAt(t, i) = k
NextAfter(t, k) == IF k = Nil THEN 1
                   ELSE 1 + CHOOSE i \in Indices(t) : KeyAt(t, i) = k

VARIABLES
  lua,        \* State_t.Lua_State
  nameFile,   \* State_t.Name_File
  names,      \* State_t.Name_Code and Name_Depth; names.open remembers, for
              \* the properties only, each component and the text before it
  errString,  \* State_t.Err_String
  stacks,     \* the stack of each interpreter
  frames,     \* the Table_Iterate calls whose Process runs, innermost last
  ctl,        \* "client", "raising", "undefined" or "stopped"
  exc         \* the exception being raised

vars == <<lua, nameFile, names, errString, stacks, frames, ctl, exc>>

NoError == [path |-> <<>>, name |-> Nil, target |-> "none", expected |-> "nil"]
Exceptions == {"Load_Error", "Constraint_Error"}

----------------------------------------------------------------------------
(* Names *)

\* Name_Code after a component is appended to it.
Extend(code, name) == IF code = <<>> THEN name ELSE code \o <<Dot>> \o name

\* Mutant: the component is not counted.
Add_Uncounted(n, name) ==
  [n EXCEPT !.code = Extend(n.code, name),
            !.open = Append(@, [name |-> name, before |-> n.code])]

Add_Name_Component(n, name) ==
  [code  |-> Extend(n.code, name),
   depth |-> n.depth + 1,
   open  |-> Append(n.open, [name |-> name, before |-> n.code])]

\* Mutant: the dot itself is kept.
Cut_KeepsDot(code) ==
  IF \A i \in 1..Len(code) : code[i] # Dot THEN <<>>
  ELSE SubSeq(code, 1, CHOOSE i \in 1..Len(code) :
                         code[i] = Dot /\ \A j \in (i + 1)..Len(code) : code[j] # Dot)

\* Name_Code up to the last separator, without it; empty when there is none.
Dots(code) == {i \in 1..Len(code) : code[i] = Dot}
Cut(code)  == IF Dots(code) = {} THEN <<>>
              ELSE LET d == CHOOSE i \in Dots(code) : \A j \in Dots(code) : j <= i
                   IN  SubSeq(code, 1, d - 1)

\* Index(Name_Code, ".", From => 0) and a Name_Depth of -1 are range errors;
\* the first is met before anything is assigned, the second after Head.
RemoveRaises(n) == n.code = <<>> \/ n.depth = 0

\* Mutant: the range of the search and of the depth is not checked.
Remove_Unchecked(n) ==
  [n EXCEPT !.code = Cut(n.code), !.depth = @ - 1]

Remove_Name_Component(n) ==
  IF n.code = <<>> THEN n
  ELSE [code  |-> Cut(n.code),
        depth |-> IF n.depth = 0 THEN 0 ELSE n.depth - 1,
        open  |-> IF n.depth = 0 THEN n.open ELSE SubSeq(n.open, 1, Len(n.open) - 1)]

----------------------------------------------------------------------------
(* The Lua stack and the control of the calls *)

stack  == stacks[lua]
Height == Len(stack)
Top    == stack[Height]
Below  == stack[Height - 1]
Popped_Kept == stack                     \* mutant: the pop is forgotten
Popped == SubSeq(stack, 1, Height - 1)   \* Lua.Pop (..., 1)
SetStack(s) == stacks' = [stacks EXCEPT ![lua] = s]

Running == ctl = "client"
config  == <<lua, nameFile>>
control == <<ctl, exc, errString>>

Raise(e) == ctl' = "raising" /\ exc' = e

\* Type_Error: the message names the path, the key asked for and the type.
Type_Error(target, expected, name) ==
  /\ errString' = [path |-> names.code, name |-> name,
                   target |-> target, expected |-> expected]
  /\ Raise("Load_Error")

\* A stack slot that does not exist, a Lua error outside a protected call or
\* lua_next on anything but a table and one of its keys: the C library panics
\* or its behaviour is undefined, and nothing is promised any more.
Undefined ==
  /\ ctl' = "undefined"
  /\ UNCHANGED <<config, names, errString, stacks, frames, exc>>

Needs(n) == Running /\ Height >= n
Lacks(n) == Running /\ Height < n /\ Undefined

\* The answer to a request for a value of kind want, given v: a type error, a
\* range error when an integer is wanted and the number is too large, or v.
Answer(want, v, target, name) ==
  \/ Tag[v] # TagOf(want) /\ Type_Error(target, TagOf(want), name)
  \/ /\ want = "integer" /\ Tag[v] = "number" /\ v \notin FitsLong
     /\ Raise("Constraint_Error") /\ UNCHANGED errString
  \/ /\ Tag[v] = TagOf(want) /\ (want = "integer" => v \in FitsLong)
     /\ UNCHANGED control

\* A default returned for nil: an integer default goes through Long_Float and
\* back, which fails for one that rounds up past the last Long_Integer.
Default(want, edge) ==
  IF want = "integer" /\ edge
  THEN Raise("Constraint_Error") /\ UNCHANGED errString
  ELSE UNCHANGED control

----------------------------------------------------------------------------
(* Configuration *)

Set_Lua(i) ==
  /\ Running
  /\ lua' = i
  /\ UNCHANGED <<nameFile, names, stacks, frames, control>>

Set_File(f) ==
  /\ Running
  /\ nameFile' = f
  /\ UNCHANGED <<lua, names, stacks, frames, control>>

----------------------------------------------------------------------------
(* Lookups *)

Key(want) ==
  \/ Lacks(2)
  \/ /\ Needs(2)
     /\ Answer(want, Below, "key", Nil)
     /\ UNCHANGED <<config, names, stacks, frames>>

\* The value stays on the stack unless its type is wrong.
Local(want) ==
  \/ Lacks(1)
  \/ /\ Needs(1)
     /\ Answer(want, Top, "value", Nil)
     /\ SetStack(IF Tag[Top] = TagOf(want) THEN stack ELSE Popped)
     /\ UNCHANGED <<config, names, frames>>

Local_Conditional(want, edge) ==
  \/ Local(want) /\ (Height > 0 => Top # Nil)
  \/ /\ Needs(1) /\ Top = Nil
     /\ Default(want, edge)
     /\ SetStack(Popped)
     /\ UNCHANGED <<config, names, frames>>

\* The entry of the table on top under key k: pushed, examined and popped on
\* every path, so the stack is as before.  Indexing a non-table is a Lua error.
Lookup(k, want, name) ==
  \/ Lacks(1)
  \/ Needs(1) /\ Tag[Top] # "table" /\ Undefined
  \/ /\ Needs(1) /\ Tag[Top] = "table"
     /\ Answer(want, Get(Top, k), "value", name)
     /\ UNCHANGED <<config, names, stacks, frames>>

LookupConditional(k, want, edge, name) ==
  \/ /\ Lookup(k, want, name)
     /\ (Height > 0 /\ Tag[Top] = "table") => Get(Top, k) # Nil
  \/ /\ Needs(1) /\ Tag[Top] = "table" /\ Get(Top, k) = Nil
     /\ Default(want, edge)
     /\ UNCHANGED <<config, names, stacks, frames>>

FieldNames   == {k \in Asked : Tag[k] = "string"}
IndexNumbers == {k \in Asked : Tag[k] = "number"}

Named_Local(k, want)   == k \in FieldNames   /\ Lookup(k, want, k)
Indexed_Local(k, want) == k \in IndexNumbers /\ Lookup(k, want, k)
Named_Local_Conditional(k, want, edge) ==
  k \in FieldNames /\ LookupConditional(k, want, edge, k)
Indexed_Local_Conditional(k, want, edge) ==
  k \in IndexNumbers /\ LookupConditional(k, want, edge, k)

----------------------------------------------------------------------------
(* Entering and leaving tables *)

\* The field is pushed before its type is known and is not popped on error.
Table_Start(k) ==
  /\ k \in FieldNames
  /\ \/ Lacks(1)
     \/ Needs(1) /\ Tag[Top] # "table" /\ Undefined
     \/ /\ Needs(1) /\ Tag[Top] = "table"
        /\ Height < MaxHeight /\ names.depth < MaxDepth
        /\ SetStack(Append(stack, Get(Top, k)))
        /\ \/ /\ Tag[Get(Top, k)] # "table"
              /\ Type_Error("value", "table", k)
              /\ UNCHANGED names
           \/ /\ Tag[Get(Top, k)] = "table"
              /\ names' = Add_Name_Component(names, Label[k])
              /\ UNCHANGED control
        /\ UNCHANGED <<config, frames>>

Table_End ==
  \/ Lacks(1)
  \/ /\ Needs(1) /\ Tag[Top] # "table"
     /\ Type_Error("value", "table", Nil)
     /\ UNCHANGED <<config, names, stacks, frames>>
  \/ /\ Needs(1) /\ Tag[Top] = "table"
     /\ names' = Remove_Name_Component(names)
     /\ \/ /\ RemoveRaises(names)
           /\ Raise("Constraint_Error")
           /\ UNCHANGED <<stacks, errString>>
        \/ /\ ~RemoveRaises(names)
           /\ SetStack(Popped)
           /\ UNCHANGED control
     /\ UNCHANGED <<config, frames>>

\* A stack lua_next may be called on: a table below one of its keys or nil.
Iterable(s) == /\ Len(s) >= 2
               /\ Tag[s[Len(s) - 1]] = "table"
               /\ IsKey(s[Len(s) - 1], s[Len(s)])

\* One turn of the loop of Table_Iterate, up to the next call of Process: s
\* is the stack, n the names, fs the frames of the callers.
LoopTurn(s, n, fs) ==
  LET t == s[Len(s) - 1]
      k == s[Len(s)]
      i == NextAfter(t, k)
      rest == SubSeq(s, 1, Len(s) - 1)
      HasName(j) == Tag[j] \in {"number", "string"}
  IN
  \/ /\ ~Iterable(s)
     /\ ctl' = "undefined"
     /\ names' = n /\ frames' = fs /\ SetStack(s)
     /\ UNCHANGED <<config, errString, exc>>
  \/ /\ Iterable(s)
     /\ i \notin Indices(t)
     /\ SetStack(rest)
     /\ names' = n /\ frames' = fs
     /\ ctl' = "client" /\ UNCHANGED <<config, errString, exc>>
  \/ /\ Iterable(s)
     /\ i \in Indices(t)
     /\ Len(s) < MaxHeight /\ n.depth < MaxDepth /\ Len(fs) < MaxCalls
     /\ SetStack(rest \o Entries[t][i])
     /\ \/ /\ Tag[KeyAt(t, i)] = "number" /\ KeyAt(t, i) \notin FitsInteger
           /\ names' = n /\ frames' = fs
           /\ Raise("Constraint_Error")
        \/ /\ Tag[KeyAt(t, i)] = "number" => KeyAt(t, i) \in FitsInteger
           /\ names' = IF HasName(KeyAt(t, i))
                       THEN Add_Name_Component(n, Label[KeyAt(t, i)]) ELSE n
           /\ frames' = Append(fs, [added |-> HasName(KeyAt(t, i))])
           /\ ctl' = "client" /\ UNCHANGED exc
     /\ UNCHANGED <<config, errString>>

\* A call of Table_Iterate up to the first call of Process.
Table_Iterate ==
  \/ Lacks(1)
  \/ /\ Needs(1) /\ Tag[Top] # "table"
     /\ Type_Error("value", "table", Nil)
     /\ UNCHANGED <<config, names, stacks, frames>>
  \/ /\ Needs(1) /\ Tag[Top] = "table"
     /\ LoopTurn(Append(stack, Nil), names, frames)

Innermost == frames[Len(frames)]
Callers   == SubSeq(frames, 1, Len(frames) - 1)

\* Name_Code after Process has returned; the stack it leaves for lua_next, the
\* value popped and the key kept; and whether its exception is handled.
NamesAfter_Uncounted ==                                 \* mutant
  IF Innermost.added THEN [Remove_Name_Component(names) EXCEPT !.depth = names.depth]
                     ELSE names
NamesAfter == IF Innermost.added THEN Remove_Name_Component(names) ELSE names
StackAfter_Both == SubSeq(stack, 1, Height - 2)         \* mutant
StackAfter == Popped
Handler_Absent == FALSE                                 \* mutant
Handler_Unnamed == exc = "Load_Error"                   \* mutant: no "if Added"
Handler == exc = "Load_Error" /\ Innermost.added

\* Process returns: Table_Iterate removes the component, pops the value and
\* takes the next turn.  The removal may raise when Process left no name.
Process_Returns ==
  /\ Running /\ frames # <<>>
  /\ \/ Height < 1 /\ Undefined
     \/ /\ Height >= 1 /\ Innermost.added /\ RemoveRaises(names)
        /\ names' = NamesAfter
        /\ frames' = Callers
        /\ Raise("Constraint_Error")
        /\ UNCHANGED <<config, errString, stacks>>
     \/ /\ Height >= 1 /\ ~(Innermost.added /\ RemoveRaises(names))
        /\ LoopTurn(StackAfter, NamesAfter, Callers)

\* An exception leaves Process: the handler of Table_Iterate removes the
\* component for a Load_Error only, leaves the Lua stack alone and re-raises.
Process_Raises ==
  /\ ctl = "raising" /\ frames # <<>>
  /\ frames' = Callers
  /\ \/ /\ Handler
        /\ names' = Remove_Name_Component(names)
        /\ exc' = IF RemoveRaises(names) THEN "Constraint_Error" ELSE exc
     \/ /\ ~Handler
        /\ UNCHANGED <<names, exc>>
  /\ UNCHANGED <<config, errString, stacks, ctl>>

\* The client code the exception has reached handles it.
Client_Handles ==
  /\ ctl = "raising"
  /\ ctl' = "client" /\ exc' = "none"
  /\ UNCHANGED <<config, names, errString, stacks, frames>>

\* It reaches the main program, which does not: the program ends.
Client_Stops ==
  /\ ctl = "raising" /\ frames = <<>>
  /\ ctl' = "stopped"
  /\ UNCHANGED <<config, names, errString, stacks, frames, exc>>

----------------------------------------------------------------------------
Init ==
  /\ lua \in Interps /\ nameFile = "none"
  /\ names = [code |-> <<>>, depth |-> 0, open |-> <<>>]
  /\ errString = NoError
  /\ stacks = [i \in Interps |-> <<Start[i]>>]
  /\ frames = <<>>
  /\ ctl = "client" /\ exc = "none"

Lookups ==
  \E want \in Wanted :
    \/ Key(want) \/ Local(want)
    \/ \E edge \in BOOLEAN : Local_Conditional(want, edge)
    \/ \E k \in Asked : Named_Local(k, want) \/ Indexed_Local(k, want)
    \/ \E k \in Asked, edge \in BOOLEAN :
         \/ Named_Local_Conditional(k, want, edge)
         \/ Indexed_Local_Conditional(k, want, edge)

Traversal ==
  \/ \E k \in Asked : Table_Start(k)
  \/ Table_End
  \/ Table_Iterate
  \/ Process_Returns

Configuration == (\E i \in Interps : Set_Lua(i)) \/ (\E f \in Files : Set_File(f))
Exceptional   == Process_Raises \/ Client_Handles \/ Client_Stops

Next == Lookups \/ Traversal \/ Configuration \/ Exceptional

Spec == Init /\ [][Next]_vars

----------------------------------------------------------------------------
(* Properties *)

Modes == {"client", "raising", "undefined", "stopped"}

Names == [code : Seq(Chars), depth : Nat,
          open : Seq([name : Seq(Chars), before : Seq(Chars)])]

Frames == [added : BOOLEAN]

Errors == [path : Seq(Chars), name : Values,
           target : {"none", "key", "value"}, expected : Types]

\* The type of every variable.
TypeOK ==
  /\ lua \in Interps /\ nameFile \in Files \cup {"none"}
  /\ names \in Names /\ errString \in Errors
  /\ stacks \in [Interps -> Seq(Values)]
  /\ frames \in Seq(Frames)
  /\ ctl \in Modes /\ exc \in Exceptions \cup {"none"}

\* The code that n.open says Name_Code should hold before component i + 1.
CodeUpTo(n, i) == IF i = 0 THEN <<>> ELSE Extend(n.open[i].before, n.open[i].name)

\* Name_Code is, whatever calls were made and whichever of them raised, the
\* names added and not yet removed, in order (Add_Name_Component and
\* Remove_Name_Component, which finds a component's start by its last dot).
NamesMatchPath ==
  /\ names.code = CodeUpTo(names, Len(names.open))
  /\ \A i \in 1..Len(names.open) : names.open[i].before = CodeUpTo(names, i - 1)

\* Name_Depth counts the components of Name_Code, and is zero exactly when the
\* name is empty, so the two range checks of Remove_Name_Component agree and no
\* removal fails half done.
DepthCountsComponents ==
  /\ names.depth = Len(names.open)
  /\ (names.code = <<>>) <=> (names.depth = 0)
============================================================================
