--------------------------- MODULE LuaLoadProofs ---------------------------
(***************************************************************************)
(* What LuaLoad keeps for every set of values, every tree and every        *)
(* client: its types, and, when no key contains a dot or is empty, that    *)
(* Name_Code is the path of components added and not removed and that      *)
(* Name_Depth counts them.                                                 *)
(***************************************************************************)
EXTENDS LuaLoad, SequenceTheorems, WellFoundedInduction, TLAPS

\* A component that Remove_Name_Component can find again.
Plain(name) == /\ name \in Seq(Chars) /\ name # <<>>
               /\ \A i \in 1..Len(name) : name[i] # Dot

PlainLabels == \A k \in Named : Plain(Label[k])

\* The inductive invariant on names, stated of any value of the variable.
GoodNames(n) ==
  /\ n \in Names
  /\ n.depth = Len(n.open)
  /\ n.code = CodeUpTo(n, Len(n.open))
  /\ \A i \in 1..Len(n.open) : /\ Plain(n.open[i].name)
                               /\ n.open[i].before = CodeUpTo(n, i - 1)

----------------------------------------------------------------------------
(* The operations on names *)

LEMMA ExtendType ==
  ASSUME NEW code \in Seq(Chars), NEW name \in Seq(Chars)
  PROVE  Extend(code, name) \in Seq(Chars)
<1>1. <<Dot>> \in Seq(Chars)
  BY ConstantsOK DEF ConstantsOK
<1>2. code \o <<Dot>> \in Seq(Chars)
  BY <1>1, ConcatProperties
<1>. QED
  BY <1>2, ConcatProperties DEF Extend

\* A sequence that has a separator has a last one.
LEMMA LastDot ==
  ASSUME NEW code \in Seq(Chars), Dots(code) # {}
  PROVE  \E i \in Dots(code) : \A j \in Dots(code) : j <= i
<1>. DEFINE T == {Len(code) - i : i \in Dots(code)}
<1>1. Dots(code) \subseteq 1..Len(code) /\ Len(code) \in Nat
  BY LenProperties DEF Dots
<1>2. T \subseteq Nat /\ T # {}
  BY <1>1
<1>3. PICK x \in T : \A y \in T : ~ (<<y, x>> \in OpToRel(<, Nat))
  BY <1>2, NatLessThanWellFounded, WFMin
<1>4. \A y \in T : ~ (y < x)
  BY <1>2, <1>3 DEF OpToRel
<1>5. PICK i \in Dots(code) : x = Len(code) - i
  BY DEF T
<1>6. \A j \in Dots(code) : ~ (Len(code) - j < Len(code) - i)
  BY <1>4, <1>5
<1>7. \A j \in Dots(code) : j <= i
  BY <1>1, <1>6
<1>. QED BY <1>7

LEMMA CutType ==
  ASSUME NEW code \in Seq(Chars)
  PROVE  Cut(code) \in Seq(Chars)
<1>1. CASE Dots(code) = {}
  BY <1>1 DEF Cut
<1>2. CASE Dots(code) # {}
  <2>. DEFINE d == CHOOSE i \in Dots(code) : \A j \in Dots(code) : j <= i
  <2>1. d \in Dots(code)
    BY <1>2, LastDot
  <2>2. d \in 1..Len(code)
    BY <2>1 DEF Dots
  <2>3. Cut(code) = SubSeq(code, 1, d - 1)
    BY <1>2 DEF Cut
  <2>. HIDE DEF d
  <2>4. SubSeq(code, 1, d - 1) \in Seq(Chars)
    BY <2>2, SubSeqProperties, ElementOfSeq, LenProperties
  <2>. QED
    BY <2>3, <2>4
<1>. QED BY <1>1, <1>2

LEMMA AddType ==
  ASSUME NEW n \in Names, NEW name \in Seq(Chars)
  PROVE  Add_Name_Component(n, name) \in Names
<1>1. Extend(n.code, name) \in Seq(Chars)
  BY ExtendType DEF Names
<1>2. Append(n.open, [name |-> name, before |-> n.code])
        \in Seq([name : Seq(Chars), before : Seq(Chars)])
  BY DEF Names
<1>. QED
  BY <1>1, <1>2 DEF Add_Name_Component, Names

\* The sequence without its last element.
LEMMA FrontType ==
  ASSUME NEW S, NEW s \in Seq(S), NEW m \in Int, m < Len(s)
  PROVE  SubSeq(s, 1, m) \in Seq(S)
BY SubSeqProperties, ElementOfSeq, LenProperties

LEMMA RemoveType ==
  ASSUME NEW n \in Names
  PROVE  Remove_Name_Component(n) \in Names
<1>1. CASE n.code = <<>>
  BY <1>1 DEF Remove_Name_Component
<1>2. CASE n.code # <<>>
  <2>1. Cut(n.code) \in Seq(Chars)
    BY CutType DEF Names
  <2>2. SubSeq(n.open, 1, Len(n.open) - 1)
          \in Seq([name : Seq(Chars), before : Seq(Chars)])
    <3>. DEFINE S == [name : Seq(Chars), before : Seq(Chars)]
    <3>1. n.open \in Seq(S)
      BY DEF Names
    <3>2. Len(n.open) - 1 \in Int /\ Len(n.open) - 1 < Len(n.open)
      BY <3>1, LenProperties
    <3>. HIDE DEF S
    <3>3. SubSeq(n.open, 1, Len(n.open) - 1) \in Seq(S)
      BY <3>1, <3>2, FrontType
    <3>. QED BY <3>3 DEF S
  <2>. QED
    BY <1>2, <2>1, <2>2 DEF Remove_Name_Component, Names
<1>. QED BY <1>1, <1>2

\* Removing the component just added gives the name back: the last separator
\* of the longer name is the one that was put before the component.
LEMMA CutExtend ==
  ASSUME NEW code \in Seq(Chars), NEW name, Plain(name)
  PROVE  /\ Cut(Extend(code, name)) = code
         /\ Extend(code, name) # <<>>
<1>. DEFINE c == Extend(code, name)
<1>1. name \in Seq(Chars) /\ Len(name) \in Nat /\ Len(name) > 0
  BY LenProperties, EmptySeq DEF Plain
<1>2. CASE code = <<>>
  <2>1. c = name
    BY <1>2 DEF Extend
  <2>2. Dots(c) = {}
    BY <2>1 DEF Dots, Plain
  <2>. QED
    BY <1>2, <2>1, <2>2 DEF Cut, Plain
<1>3. CASE code # <<>>
  <2>. DEFINE n == Len(code)
  <2>1. n \in Nat /\ <<Dot>> \in Seq(Chars) /\ Len(<<Dot>>) = 1 /\ <<Dot>>[1] = Dot
    BY LenProperties, ConstantsOK DEF ConstantsOK
  <2>2. /\ code \o <<Dot>> \in Seq(Chars)
        /\ Len(code \o <<Dot>>) = n + 1
        /\ \A i \in 1..(n + 1) : (code \o <<Dot>>)[i] = IF i <= n THEN code[i] ELSE Dot
    BY <2>1, ConcatProperties
  <2>3. /\ c \in Seq(Chars)
        /\ Len(c) = n + 1 + Len(name)
        /\ \A i \in 1..(n + 1 + Len(name)) :
             c[i] = IF i <= n + 1 THEN (code \o <<Dot>>)[i] ELSE name[i - (n + 1)]
    BY <1>1, <1>3, <2>2, ConcatProperties DEF Extend
  <2>. HIDE DEF c
  <2>4. \A i \in 1..n : c[i] = code[i]
    BY <1>1, <2>1, <2>2, <2>3
  <2>5. c[n + 1] = Dot
    BY <1>1, <2>1, <2>2, <2>3
  <2>6. \A i \in (n + 2)..Len(c) : c[i] # Dot
    <3>. SUFFICES ASSUME NEW i \in (n + 2)..Len(c) PROVE c[i] # Dot
      OBVIOUS
    <3>. HIDE DEF n
    <3>1. i \in Int /\ n + 2 <= i /\ i <= n + 1 + Len(name)
      BY <1>1, <2>1, <2>3
    <3>2. i \in 1..(n + 1 + Len(name)) /\ ~(i <= n + 1) /\ i - (n + 1) \in 1..Len(name)
      BY <1>1, <2>1, <3>1
    <3>3. c[i] = name[i - (n + 1)]
      BY <2>3, <3>2
    <3>. QED BY <3>2, <3>3 DEF Plain
  <2>7. n + 1 \in Dots(c) /\ \A j \in Dots(c) : j <= n + 1
    BY <1>1, <2>1, <2>3, <2>5, <2>6 DEF Dots
  <2>9. Cut(c) = SubSeq(c, 1, n)
    <3>. DEFINE d == CHOOSE i \in Dots(c) : \A j \in Dots(c) : j <= i
    <3>1. d \in Dots(c) /\ \A j \in Dots(c) : j <= d
      BY <2>7
    <3>2. Dots(c) \subseteq Int
      BY DEF Dots
    <3>3. Cut(c) = SubSeq(c, 1, d - 1)
      BY <2>7 DEF Cut
    <3>. HIDE DEF d
    <3>4. d = n + 1
      BY <2>1, <2>7, <3>1, <3>2
    <3>. QED BY <2>1, <3>3, <3>4
  <2>10. /\ SubSeq(c, 1, n) \in Seq(Chars)
         /\ Len(SubSeq(c, 1, n)) = n
         /\ \A i \in 1..n : SubSeq(c, 1, n)[i] = c[i]
    <3>1. \A i \in 1..n : c[i] \in Chars
      BY <2>1, <2>4, ElementOfSeq
    <3>. QED BY <2>1, <3>1, SubSeqProperties
  <2>11. SubSeq(c, 1, n) = code
    BY <2>4, <2>10, SeqEqual
  <2>12. Len(c) # 0
    BY <1>1, <2>1, <2>3
  <2>. QED BY <2>9, <2>11, <2>12 DEF c
<1>. QED BY <1>2, <1>3

LEMMA AddGood ==
  ASSUME NEW n, GoodNames(n), NEW name, Plain(name)
  PROVE  GoodNames(Add_Name_Component(n, name))
<1>. DEFINE m == Add_Name_Component(n, name)
            S == [name : Seq(Chars), before : Seq(Chars)]
            o == [name |-> name, before |-> n.code]
<1>1. n \in Names /\ n.open \in Seq(S) /\ Len(n.open) \in Nat
  BY LenProperties DEF GoodNames, Names
<1>2. m \in Names
  BY <1>1, AddType DEF Plain
<1>3. /\ m.open = Append(n.open, o) /\ m.code = Extend(n.code, name)
      /\ m.depth = n.depth + 1
  BY DEF Add_Name_Component
<1>4. /\ Len(m.open) = Len(n.open) + 1
      /\ \A i \in 1..Len(n.open) : m.open[i] = n.open[i]
      /\ m.open[Len(n.open) + 1] = o
  <2>1. o \in S
    BY <1>1 DEF Plain, Names
  <2>. HIDE DEF S, o
  <2>. QED BY <1>1, <1>3, <2>1, AppendProperties
<1>5. \A i \in 0..Len(n.open) : CodeUpTo(m, i) = CodeUpTo(n, i)
  <2>. HIDE DEF m, o
  <2>1. \A i \in 0..Len(n.open) : i = 0 \/ i \in 1..Len(n.open)
    BY <1>1
  <2>. QED BY <1>4, <2>1, Zenon DEF CodeUpTo
<1>6. m.code = CodeUpTo(m, Len(m.open))
  BY <1>1, <1>3, <1>4 DEF CodeUpTo
<1>7. ASSUME NEW i \in 1..Len(m.open)
      PROVE  Plain(m.open[i].name) /\ m.open[i].before = CodeUpTo(m, i - 1)
  <2>1. CASE i \in 1..Len(n.open)
    <3>1. m.open[i] = n.open[i] /\ i - 1 \in 0..Len(n.open)
      BY <1>1, <1>4, <2>1
    <3>2. CodeUpTo(m, i - 1) = CodeUpTo(n, i - 1)
      BY <1>5, <3>1
    <3>. QED BY <2>1, <3>1, <3>2 DEF GoodNames
  <2>2. CASE i = Len(n.open) + 1
    BY <1>1, <1>4, <1>5, <2>2 DEF GoodNames
  <2>. QED BY <1>1, <1>4, <2>1, <2>2
<1>. QED
  BY <1>1, <1>2, <1>3, <1>4, <1>6, <1>7 DEF GoodNames

\* The name is empty exactly when no component is open.
LEMMA EmptyName ==
  ASSUME NEW n, GoodNames(n)
  PROVE  (n.code = <<>>) <=> (n.depth = 0)
<1>1. n \in Names /\ Len(n.open) \in Nat /\ n.depth = Len(n.open)
  BY LenProperties DEF GoodNames, Names
<1>2. CASE Len(n.open) = 0
  BY <1>1, <1>2 DEF GoodNames, CodeUpTo
<1>3. CASE Len(n.open) > 0
  <2>. DEFINE o == n.open[Len(n.open)]
  <2>1. o.before \in Seq(Chars) /\ Plain(o.name)
    <3>. DEFINE S == [name : Seq(Chars), before : Seq(Chars)]
    <3>1. n.open \in Seq(S) /\ Len(n.open) \in 1..Len(n.open)
      BY <1>1, <1>3 DEF Names
    <3>2. n.open[Len(n.open)] \in S
      <4>. HIDE DEF S
      <4>. QED BY <3>1, ElementOfSeq
    <3>. QED BY <3>1, <3>2 DEF GoodNames
  <2>2. n.code = Extend(o.before, o.name)
    BY <1>1, <1>3 DEF GoodNames, CodeUpTo
  <2>. QED BY <1>1, <1>3, <2>1, <2>2, CutExtend
<1>. QED BY <1>1, <1>2, <1>3

LEMMA RemoveGood ==
  ASSUME NEW n, GoodNames(n)
  PROVE  GoodNames(Remove_Name_Component(n))
<1>. DEFINE m == Remove_Name_Component(n)
            S == [name : Seq(Chars), before : Seq(Chars)]
            k == Len(n.open) - 1
<1>1. n \in Names /\ n.open \in Seq(S) /\ Len(n.open) \in Nat
  BY LenProperties DEF GoodNames, Names
<1>2. CASE n.code = <<>>
  BY <1>2 DEF Remove_Name_Component
<1>3. CASE n.code # <<>>
  <2>1. n.depth # 0 /\ n.depth = Len(n.open) /\ k \in Nat
    BY <1>1, <1>3, EmptyName DEF GoodNames
  <2>2. /\ m.code = Cut(n.code) /\ m.depth = n.depth - 1
        /\ m.open = SubSeq(n.open, 1, k)
    BY <1>3, <2>1 DEF Remove_Name_Component
  <2>3. Len(m.open) = k /\ \A i \in 1..k : m.open[i] = n.open[i]
    <3>. HIDE DEF S
    <3>1. \A i \in 1..k : n.open[i] \in S
      BY <1>1, <2>1, ElementOfSeq
    <3>. QED BY <2>1, <2>2, <3>1, SubSeqProperties
  <2>4. m \in Names
    BY <1>1, RemoveType
  <2>5. \A i \in 0..k : CodeUpTo(m, i) = CodeUpTo(n, i)
    BY <2>1, <2>3 DEF CodeUpTo
  <2>6. m.code = CodeUpTo(m, k)
    <3>. DEFINE o == n.open[Len(n.open)]
    <3>1. o.before \in Seq(Chars) /\ Plain(o.name) /\ o.before = CodeUpTo(n, k)
      <4>1. Len(n.open) \in 1..Len(n.open)
        BY <1>1, <2>1
      <4>2. n.open[Len(n.open)] \in S
        <5>. HIDE DEF S
        <5>. QED BY <1>1, <4>1, ElementOfSeq
      <4>. QED BY <4>1, <4>2 DEF GoodNames
    <3>2. n.code = Extend(o.before, o.name)
      BY <2>1 DEF GoodNames, CodeUpTo
    <3>. QED BY <2>1, <2>2, <2>5, <3>1, <3>2, CutExtend
  <2>7. \A i \in 1..k : Plain(m.open[i].name) /\ m.open[i].before = CodeUpTo(m, i - 1)
    <3>. SUFFICES ASSUME NEW i \in 1..k
                  PROVE  Plain(m.open[i].name) /\ m.open[i].before = CodeUpTo(m, i - 1)
      OBVIOUS
    <3>1. m.open[i] = n.open[i] /\ i \in 1..Len(n.open) /\ i - 1 \in 0..k
      BY <1>1, <2>1, <2>3
    <3>2. CodeUpTo(m, i - 1) = CodeUpTo(n, i - 1)
      BY <2>5, <3>1
    <3>. QED BY <3>1, <3>2 DEF GoodNames
  <2>. QED
    BY <2>1, <2>2, <2>3, <2>4, <2>6, <2>7 DEF GoodNames
<1>. QED BY <1>2, <1>3

----------------------------------------------------------------------------
(* Types *)

LEMMA ValueType ==
  ASSUME NEW t \in Tables, NEW i \in Indices(t)
  PROVE  /\ KeyAt(t, i) \in Values /\ ValueAt(t, i) \in Values
         /\ Entries[t][i] = <<KeyAt(t, i), ValueAt(t, i)>>
         /\ Entries[t][i] \in Seq(Values)
<1>. DEFINE P == (Values \ {Nil}) \X (Values \ {Nil})
<1>1. Entries[t] \in Seq(P)
  BY ConstantsOK DEF ConstantsOK
<1>2. Entries[t][i] \in P
  <2>. HIDE DEF P
  <2>. QED BY <1>1, ElementOfSeq DEF Indices
<1>3. PICK a \in Values, b \in Values : Entries[t][i] = <<a, b>>
  BY <1>2
<1>4. KeyAt(t, i) = a /\ ValueAt(t, i) = b
  BY <1>3 DEF KeyAt, ValueAt
<1>5. <<a, b>> \in Seq(Values)
  OBVIOUS
<1>. QED BY <1>3, <1>4, <1>5

LEMMA GetType ==
  ASSUME NEW t \in Tables, NEW k
  PROVE  Get(t, k) \in Values
BY ValueType, ConstantsOK DEF Get, ConstantsOK

LEMMA SetStackType ==
  ASSUME TypeOK, NEW s \in Seq(Values), SetStack(s)
  PROVE  stacks' \in [Interps -> Seq(Values)]
BY DEF TypeOK, SetStack

LEMMA StackType ==
  ASSUME TypeOK
  PROVE  /\ lua \in Interps
         /\ stack \in Seq(Values) /\ Height \in Nat
         /\ Height >= 1 => Top \in Values
         /\ Height >= 2 => Below \in Values
         /\ Popped \in Seq(Values) /\ StackAfter \in Seq(Values)
<1>1. stack \in Seq(Values) /\ Height \in Nat
  BY LenProperties DEF TypeOK, stack, Height
<1>2. Height >= 1 => Top \in Values
  BY <1>1, ElementOfSeq DEF Top, Height
<1>3. Height >= 2 => Below \in Values
  BY <1>1, ElementOfSeq DEF Below, Height
<1>4. Popped \in Seq(Values)
  BY <1>1, FrontType DEF Popped, Height
<1>. QED BY <1>1, <1>2, <1>3, <1>4 DEF TypeOK, StackAfter

LEMMA FramesType ==
  ASSUME TypeOK, frames # <<>>
  PROVE  /\ Callers \in Seq(Frames) /\ Innermost \in Frames
         /\ NamesAfter \in Names
<1>1. frames \in Seq(Frames) /\ Len(frames) \in Nat /\ Len(frames) > 0
  BY LenProperties, EmptySeq DEF TypeOK
<1>2. Callers \in Seq(Frames)
  BY <1>1, FrontType DEF Callers
<1>3. Innermost \in Frames
  BY <1>1, ElementOfSeq DEF Innermost
<1>. QED BY <1>2, <1>3, RemoveType DEF NamesAfter, TypeOK

LEMMA UndefinedType ==
  ASSUME TypeOK, Undefined
  PROVE  TypeOK'
BY DEF TypeOK, Undefined, config, Modes

\* A raise leaves the control variables in their types.
LEMMA RaiseType ==
  ASSUME NEW e \in Exceptions, Raise(e)
  PROVE  ctl' \in Modes /\ exc' \in Exceptions \cup {"none"}
BY DEF Raise, Modes

LEMMA TypeErrorType ==
  ASSUME TypeOK, NEW target \in {"key", "value"}, NEW expected \in Types,
         NEW name \in Values, Type_Error(target, expected, name)
  PROVE  /\ errString' \in Errors
         /\ ctl' \in Modes /\ exc' \in Exceptions \cup {"none"}
BY DEF TypeOK, Type_Error, Raise, Errors, Names, Modes, Exceptions

LEMMA AnswerType ==
  ASSUME TypeOK, NEW want \in Wanted, NEW v, NEW target \in {"key", "value"},
         NEW name \in Values, Answer(want, v, target, name)
  PROVE  /\ errString' \in Errors
         /\ ctl' \in Modes /\ exc' \in Exceptions \cup {"none"}
<1>1. TagOf(want) \in Types
  BY DEF Wanted, TagOf, Types
<1>2. CASE Type_Error(target, TagOf(want), name)
  BY <1>1, <1>2, TypeErrorType
<1>3. CASE Raise("Constraint_Error") /\ UNCHANGED errString
  BY <1>3 DEF Raise, Modes, Exceptions, TypeOK
<1>4. CASE UNCHANGED control
  BY <1>4 DEF control, TypeOK
<1>. QED BY <1>2, <1>3, <1>4 DEF Answer

LEMMA DefaultType ==
  ASSUME TypeOK, NEW want, NEW edge, Default(want, edge)
  PROVE  /\ errString' \in Errors
         /\ ctl' \in Modes /\ exc' \in Exceptions \cup {"none"}
BY DEF Default, control, Raise, TypeOK, Modes, Exceptions

LEMMA LoopTurnType ==
  ASSUME TypeOK, NEW s \in Seq(Values), NEW n \in Names, NEW fs \in Seq(Frames),
         LoopTurn(s, n, fs)
  PROVE  TypeOK'
<1>. DEFINE t == s[Len(s) - 1]
            i == NextAfter(t, s[Len(s)])
            rest == SubSeq(s, 1, Len(s) - 1)
            k == KeyAt(t, i)
            HasName(j) == Tag[j] \in {"number", "string"}
<1>0. /\ Len(s) \in Nat /\ rest \in Seq(Values)
      /\ UNCHANGED config /\ UNCHANGED errString
  BY FrontType, LenProperties DEF LoopTurn
<1>1. CASE /\ ctl' = "undefined" /\ names' = n /\ frames' = fs /\ SetStack(s)
           /\ UNCHANGED exc
  BY <1>0, <1>1, SetStackType DEF TypeOK, config, Modes
<1>2. CASE /\ SetStack(rest) /\ names' = n /\ frames' = fs
           /\ ctl' = "client" /\ UNCHANGED exc
  BY <1>0, <1>2, SetStackType DEF TypeOK, config, Modes
<1>3. CASE /\ Iterable(s) /\ i \in Indices(t)
           /\ SetStack(rest \o Entries[t][i])
           /\ \/ /\ names' = n /\ frames' = fs /\ Raise("Constraint_Error")
              \/ /\ names' = IF HasName(k) THEN Add_Name_Component(n, Label[k]) ELSE n
                 /\ frames' = Append(fs, [added |-> HasName(k)])
                 /\ ctl' = "client" /\ UNCHANGED exc
  <2>1. t \in Values
    BY <1>0, <1>3, ElementOfSeq DEF Iterable
  <2>2. t \in Tables
    BY <1>3, <2>1 DEF Iterable, Tables
  <2>3. k \in Values /\ Entries[t][i] \in Seq(Values)
    BY <1>3, <2>2, ValueType
  <2>. HIDE DEF t, i, k, rest
  <2>4. stacks' \in [Interps -> Seq(Values)]
    <3>1. rest \o Entries[t][i] \in Seq(Values)
      BY <1>0, <2>3, ConcatProperties
    <3>. QED BY <1>3, <3>1, SetStackType
  <2>5. names' \in Names
    <3>1. HasName(k) => Label[k] \in Seq(Chars)
      BY <2>3, ConstantsOK DEF ConstantsOK, Named
    <3>. QED BY <1>3, <3>1, AddType
  <2>6. frames' \in Seq(Frames)
    <3>1. [added |-> HasName(k)] \in Frames
      BY DEF Frames
    <3>. QED BY <1>3, <3>1, AppendProperties
  <2>7. ctl' \in Modes /\ exc' \in Exceptions \cup {"none"}
    BY <1>3 DEF Raise, Modes, Exceptions, TypeOK
  <2>. QED BY <1>0, <2>4, <2>5, <2>6, <2>7 DEF TypeOK, config
<1>. QED BY <1>1, <1>2, <1>3 DEF LoopTurn

----------------------------------------------------------------------------
(* Type correctness, one lemma for each group of calls *)

LEMMA LookupsType ==
  ASSUME TypeOK, Lookups
  PROVE  TypeOK'
<1>. USE StackType
<1>0. Nil \in Values /\ \A k \in Asked : k \in Values
  BY ConstantsOK DEF ConstantsOK, Named
<1>1. ASSUME NEW want \in Wanted, Key(want) PROVE TypeOK'
  <2>1. CASE Lacks(2)
    BY <2>1, UndefinedType DEF Lacks
  <2>2. CASE ~Lacks(2)
    BY <1>0, <1>1, <2>2, AnswerType DEF Key, config, TypeOK
  <2>. QED BY <2>1, <2>2
<1>2. ASSUME NEW want \in Wanted, Local(want) PROVE TypeOK'
  <2>1. CASE Lacks(1)
    BY <2>1, UndefinedType DEF Lacks
  <2>2. CASE ~Lacks(1)
    <3>1. stacks' \in [Interps -> Seq(Values)]
      BY <1>2, <2>2, SetStackType DEF Local
    <3>. QED BY <1>0, <1>2, <2>2, <3>1, AnswerType DEF Local, config, TypeOK
  <2>. QED BY <2>1, <2>2
<1>3. ASSUME NEW want \in Wanted, NEW edge \in BOOLEAN, Local_Conditional(want, edge)
      PROVE  TypeOK'
  <2>1. CASE Local(want)
    BY <1>2, <2>1
  <2>2. CASE Default(want, edge) /\ SetStack(Popped) /\ UNCHANGED <<config, names, frames>>
    BY <2>2, DefaultType, SetStackType DEF config, TypeOK
  <2>. QED BY <1>3, <2>1, <2>2 DEF Local_Conditional
<1>4. ASSUME NEW k \in Asked, NEW want \in Wanted, Lookup(k, want, k) PROVE TypeOK'
  <2>1. CASE Undefined
    BY <2>1, UndefinedType
  <2>2. CASE /\ Answer(want, Get(Top, k), "value", k)
             /\ UNCHANGED <<config, names, stacks, frames>>
    BY <1>0, <2>2, AnswerType DEF config, TypeOK
  <2>. QED BY <1>4, <2>1, <2>2 DEF Lookup, Lacks
<1>5. ASSUME NEW k \in Asked, NEW want \in Wanted, NEW edge \in BOOLEAN,
             LookupConditional(k, want, edge, k)
      PROVE  TypeOK'
  <2>1. CASE Lookup(k, want, k)
    BY <1>4, <2>1
  <2>2. CASE Default(want, edge) /\ UNCHANGED <<config, names, stacks, frames>>
    BY <2>2, DefaultType DEF config, TypeOK
  <2>. QED BY <1>5, <2>1, <2>2 DEF LookupConditional
<1>. QED
  BY <1>1, <1>2, <1>3, <1>4, <1>5
  DEF Lookups, Named_Local, Indexed_Local, Named_Local_Conditional,
      Indexed_Local_Conditional

LEMMA TableStartType ==
  ASSUME TypeOK, NEW k \in Asked, Table_Start(k)
  PROVE  TypeOK'
<1>. USE StackType
<1>1. CASE Undefined
  BY <1>1, UndefinedType
<1>2. CASE /\ Needs(1) /\ Tag[Top] = "table"
           /\ SetStack(Append(stack, Get(Top, k)))
           /\ \/ Type_Error("value", "table", k) /\ UNCHANGED names
              \/ names' = Add_Name_Component(names, Label[k]) /\ UNCHANGED control
           /\ UNCHANGED <<config, frames>>
  <2>1. k \in Values /\ Label[k] \in Seq(Chars) /\ "table" \in Types
    BY ConstantsOK DEF ConstantsOK, Named, Types
  <2>2. Append(stack, Get(Top, k)) \in Seq(Values)
    BY <1>2, GetType, AppendProperties DEF Needs, Tables
  <2>3. stacks' \in [Interps -> Seq(Values)]
    BY <1>2, <2>2, SetStackType
  <2>4. CASE Type_Error("value", "table", k) /\ UNCHANGED names
    BY <1>2, <2>1, <2>3, <2>4, TypeErrorType DEF config, TypeOK
  <2>5. CASE names' = Add_Name_Component(names, Label[k]) /\ UNCHANGED control
    BY <1>2, <2>1, <2>3, <2>5, AddType DEF config, control, TypeOK
  <2>. QED BY <1>2, <2>4, <2>5
<1>. QED BY <1>1, <1>2 DEF Table_Start, Lacks

LEMMA TableEndType ==
  ASSUME TypeOK, Table_End
  PROVE  TypeOK'
<1>. USE StackType
<1>1. CASE Undefined
  BY <1>1, UndefinedType
<1>2. CASE Type_Error("value", "table", Nil) /\ UNCHANGED <<config, names, stacks, frames>>
  BY <1>2, TypeErrorType, ConstantsOK DEF config, TypeOK, Types, ConstantsOK
<1>3. CASE /\ names' = Remove_Name_Component(names)
           /\ \/ Raise("Constraint_Error") /\ UNCHANGED <<stacks, errString>>
              \/ SetStack(Popped) /\ UNCHANGED control
           /\ UNCHANGED <<config, frames>>
  <2>1. names' \in Names
    BY <1>3, RemoveType DEF TypeOK
  <2>2. CASE Raise("Constraint_Error") /\ UNCHANGED <<stacks, errString>>
    BY <1>3, <2>1, <2>2, RaiseType DEF config, TypeOK, Exceptions
  <2>3. CASE SetStack(Popped) /\ UNCHANGED control
    BY <1>3, <2>1, <2>3, SetStackType DEF config, control, TypeOK
  <2>. QED BY <1>3, <2>2, <2>3
<1>. QED BY <1>1, <1>2, <1>3 DEF Table_End, Lacks

LEMMA TableIterateType ==
  ASSUME TypeOK, Table_Iterate
  PROVE  TypeOK'
<1>. USE StackType
<1>1. CASE Undefined
  BY <1>1, UndefinedType
<1>2. CASE Type_Error("value", "table", Nil) /\ UNCHANGED <<config, names, stacks, frames>>
  BY <1>2, TypeErrorType, ConstantsOK DEF config, TypeOK, Types, ConstantsOK
<1>3. CASE LoopTurn(Append(stack, Nil), names, frames)
  <2>1. Append(stack, Nil) \in Seq(Values)
    BY ConstantsOK, AppendProperties DEF ConstantsOK
  <2>. QED BY <1>3, <2>1, LoopTurnType DEF TypeOK
<1>. QED BY <1>1, <1>2, <1>3 DEF Table_Iterate, Lacks

LEMMA ProcessReturnsType ==
  ASSUME TypeOK, Process_Returns
  PROVE  TypeOK'
<1>. USE StackType
<1>1. CASE Undefined
  BY <1>1, UndefinedType
<1>2. CASE /\ frames # <<>> /\ names' = NamesAfter /\ frames' = Callers
           /\ Raise("Constraint_Error") /\ UNCHANGED <<config, errString, stacks>>
  BY <1>2, FramesType, RaiseType DEF config, TypeOK, Exceptions
<1>3. CASE frames # <<>> /\ LoopTurn(StackAfter, NamesAfter, Callers)
  BY <1>3, FramesType, LoopTurnType
<1>. QED BY <1>1, <1>2, <1>3 DEF Process_Returns

LEMMA ExceptionalType ==
  ASSUME TypeOK, Exceptional
  PROVE  TypeOK'
<1>1. CASE Process_Raises
  <2>1. frames' \in Seq(Frames)
    BY <1>1, FramesType DEF Process_Raises
  <2>2. names' \in Names
    BY <1>1, RemoveType DEF Process_Raises, TypeOK
  <2>3. exc' \in Exceptions \cup {"none"}
    BY <1>1 DEF Process_Raises, TypeOK, Exceptions
  <2>. QED BY <1>1, <2>1, <2>2, <2>3 DEF Process_Raises, config, TypeOK
<1>2. CASE Client_Handles
  BY <1>2 DEF Client_Handles, config, TypeOK, Modes
<1>3. CASE Client_Stops
  BY <1>3 DEF Client_Stops, config, TypeOK, Modes
<1>. QED BY <1>1, <1>2, <1>3 DEF Exceptional

LEMMA ConfigurationType ==
  ASSUME TypeOK, Configuration
  PROVE  TypeOK'
BY DEF TypeOK, Configuration, Set_Lua, Set_File, control

LEMMA NextType ==
  ASSUME TypeOK, [Next]_vars
  PROVE  TypeOK'
<1>1. CASE Lookups
  BY <1>1, LookupsType
<1>2. CASE \E k \in Asked : Table_Start(k)
  BY <1>2, TableStartType
<1>3. CASE Table_End
  BY <1>3, TableEndType
<1>4. CASE Table_Iterate
  BY <1>4, TableIterateType
<1>5. CASE Process_Returns
  BY <1>5, ProcessReturnsType
<1>6. CASE Configuration
  BY <1>6, ConfigurationType
<1>7. CASE Exceptional
  BY <1>7, ExceptionalType
<1>8. CASE UNCHANGED vars
  BY <1>8 DEF vars, TypeOK
<1>. QED
  BY <1>1, <1>2, <1>3, <1>4, <1>5, <1>6, <1>7, <1>8 DEF Next, Traversal

LEMMA InitType == Init => TypeOK
<1>. SUFFICES ASSUME Init PROVE TypeOK
  OBVIOUS
<1>1. \A i \in Interps : <<Start[i]>> \in Seq(Values)
  BY ConstantsOK DEF ConstantsOK
<1>2. stacks \in [Interps -> Seq(Values)]
  BY <1>1 DEF Init
<1>3. names \in Names
  BY DEF Init, Names
<1>4. errString \in Errors
  BY ConstantsOK DEF Init, NoError, Errors, Types, ConstantsOK
<1>. QED BY <1>2, <1>3, <1>4 DEF Init, TypeOK, Modes

\* Every variable keeps its type, whatever the client calls.
THEOREM TypeCorrect == Spec => []TypeOK
<1>1. Init => TypeOK
  BY InitType
<1>2. TypeOK /\ [Next]_vars => TypeOK'
  BY NextType
<1>. QED BY <1>1, <1>2, PTL DEF Spec

----------------------------------------------------------------------------
(* Names *)

\* How the names change: not at all, by one more component whose text is a
\* label, or by one removal; in the loop of Table_Iterate by both in turn.
LEMMA LoopTurnNames ==
  ASSUME PlainLabels, TypeOK, NEW s \in Seq(Values), NEW n, GoodNames(n), NEW fs,
         LoopTurn(s, n, fs)
  PROVE  GoodNames(names')
<1>. DEFINE t == s[Len(s) - 1]
            i == NextAfter(t, s[Len(s)])
            k == KeyAt(t, i)
<1>1. CASE names' = n
  BY <1>1
<1>2. CASE /\ Iterable(s) /\ i \in Indices(t) /\ Tag[k] \in {"number", "string"}
           /\ names' = Add_Name_Component(n, Label[k])
  <2>1. t \in Tables
    BY <1>2, LenProperties, ElementOfSeq DEF Iterable, Tables
  <2>2. k \in Named
    BY <1>2, <2>1, ValueType DEF Named
  <2>. QED BY <1>2, <2>2, AddGood DEF PlainLabels
<1>. QED BY <1>1, <1>2 DEF LoopTurn

LEMMA NextNames ==
  ASSUME PlainLabels, TypeOK, GoodNames(names), [Next]_vars
  PROVE  GoodNames(names')
<1>. USE StackType
<1>1. CASE UNCHANGED names
  BY <1>1
<1>2. CASE Lookups
  <2>1. UNCHANGED names
    BY <1>2 DEF Lookups, Key, Local, Local_Conditional, Named_Local, Indexed_Local,
                Named_Local_Conditional, Indexed_Local_Conditional, Lookup,
                LookupConditional, Lacks, Undefined
  <2>. QED BY <1>1, <2>1
<1>3. ASSUME NEW k \in Asked, Table_Start(k) PROVE GoodNames(names')
  <2>1. CASE names' = Add_Name_Component(names, Label[k])
    BY <2>1, AddGood, ConstantsOK DEF PlainLabels, ConstantsOK
  <2>. QED BY <1>1, <1>3, <2>1 DEF Table_Start, Lacks, Undefined
<1>4. CASE Table_End
  BY <1>1, <1>4, RemoveGood DEF Table_End, Lacks, Undefined
<1>5. CASE Table_Iterate
  <2>1. Append(stack, Nil) \in Seq(Values)
    BY ConstantsOK, AppendProperties DEF ConstantsOK
  <2>2. CASE LoopTurn(Append(stack, Nil), names, frames)
    BY <2>1, <2>2, LoopTurnNames
  <2>. QED BY <1>1, <1>5, <2>2 DEF Table_Iterate, Lacks, Undefined
<1>6. CASE Process_Returns
  <2>1. GoodNames(NamesAfter)
    BY RemoveGood DEF NamesAfter
  <2>2. CASE LoopTurn(StackAfter, NamesAfter, Callers)
    BY <2>1, <2>2, LoopTurnNames
  <2>. QED BY <1>1, <1>6, <2>1, <2>2 DEF Process_Returns, Undefined
<1>7. CASE Configuration
  BY <1>1, <1>7 DEF Configuration, Set_Lua, Set_File
<1>8. CASE Exceptional
  BY <1>1, <1>8, RemoveGood DEF Exceptional, Process_Raises, Client_Handles, Client_Stops
<1>. QED
  BY <1>1, <1>2, <1>3, <1>4, <1>5, <1>6, <1>7, <1>8 DEF Next, Traversal, vars

LEMMA InitNames == Init => GoodNames(names)
BY DEF Init, GoodNames, Names, CodeUpTo

\* When every key is plain, Name_Code is at all times the components added and
\* not removed, and Name_Depth their number, for every client and every error.
THEOREM NamesCorrect ==
  ASSUME PlainLabels
  PROVE  Spec => [](NamesMatchPath /\ DepthCountsComponents)
<1>1. Init => GoodNames(names)
  BY InitNames
<1>2. TypeOK /\ GoodNames(names) /\ [Next]_vars => GoodNames(names)'
  BY NextNames DEF GoodNames, Names, Plain, CodeUpTo
<1>3. GoodNames(names) => NamesMatchPath /\ DepthCountsComponents
  BY EmptyName DEF GoodNames, NamesMatchPath, DepthCountsComponents
<1>. QED BY <1>1, <1>2, <1>3, TypeCorrect, PTL DEF Spec

\* When every key is plain, Name_Depth is the number of components of Name_Code
\* after any calls, whatever they raise.
THEOREM DepthCorrect ==
  ASSUME PlainLabels
  PROVE  Spec => []DepthCountsComponents
<1>1. (NamesMatchPath /\ DepthCountsComponents) => DepthCountsComponents
  OBVIOUS
<1>. QED BY <1>1, NamesCorrect, PTL
============================================================================
