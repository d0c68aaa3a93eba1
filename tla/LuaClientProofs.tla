-------------------------- MODULE LuaClientProofs --------------------------
(***************************************************************************)
(* Theorems of LuaClient, for every script: a careful client is a client,  *)
(* it never uses Lua outside its contract, it finds the stack as the       *)
(* traversal says, and, when no key is empty or holds a dot, iterations    *)
(* are complete and leave the names as they found them.                    *)
(***************************************************************************)
EXTENDS LuaClient, LuaLoadProofs

CallType == [table : Tables, base : Seq(Values), entry : Names, seen : Seq(Values), mark : Nat]

----------------------------------------------------------------------------
(* A careful client is a client *)

LEMMA StepIsStep ==
  ASSUME [CNext]_cvars
  PROVE  [Next]_vars
<1>1. CASE UNCHANGED cvars
  BY <1>1 DEF cvars, vars
<1>2. CASE Lookup_Here \/ Local_Here
  <2>1. Lookups
    BY <1>2 DEF Lookup_Here, Local_Here, Lookups
  <2>. QED BY <2>1 DEF Next
<1>3. CASE Start_Here \/ End_Here \/ Iterate_Here \/ Return_Here
  <2>1. Traversal
    BY <1>3 DEF Start_Here, End_Here, Iterate_Here, Return_Here, Traversal
  <2>. QED BY <2>1 DEF Next
<1>4. CASE Raise_Here \/ Handle_Here \/ Client_Stops
  <2>1. Exceptional
    BY <1>4 DEF Raise_Here, Handle_Here, Exceptional
  <2>. QED BY <2>1 DEF Next
<1>5. CASE Configure_Here
  BY <1>5 DEF Configure_Here, Next
<1>. QED BY <1>1, <1>2, <1>3, <1>4, <1>5 DEF CNext

\* What a careful client does is what some client does, so that the loader's
\* own theorems hold for it.
THEOREM IsClient == CSpec => Spec
<1>1. CInit => Init
  BY DEF CInit
<1>2. [CNext]_cvars => [Next]_vars
  BY StepIsStep
<1>. QED BY <1>1, <1>2, PTL DEF CSpec, Spec

----------------------------------------------------------------------------
(* Running iterations *)

\* An iteration in the middle: the keys seen are the first of its table.
Iterating(c) ==
  /\ Len(c.base) >= 1 /\ c.base[Len(c.base)] = c.table
  /\ Len(c.seen) \in Indices(c.table)
  /\ \A j \in 1..Len(c.seen) : c.seen[j] = KeyAt(c.table, j)
Added(f) == IF f.added THEN 1 ELSE 0
Good(cs, fs, i) ==
  /\ Iterating(cs[i])
  /\ cs[i].mark = Len(cs[i].entry.open) + Added(fs[i])
  /\ Mirrors(cs, cs[i].base, Len(cs[i].entry.open), i - 1)
AllGood(cs, fs) ==
  /\ cs \in Seq(CallType) /\ fs \in Seq(Frames) /\ Len(cs) = Len(fs)
  /\ \A i \in 1..Len(cs) : Good(cs, fs, i)

LEMMA SameMirror ==
  ASSUME NEW cs, NEW ds, NEW i \in Nat, i # 0 => cs[i] = ds[i], NEW s, NEW n
  PROVE  Mirrors(cs, s, n, i) => Mirrors(ds, s, n, i)
<1>1. Floor(cs, i) = Floor(ds, i) /\ MarkAt(cs, i) = MarkAt(ds, i)
  BY DEF Floor, MarkAt
<1>2. i > 0 => cs[i] = ds[i]
  OBVIOUS
<1>. QED BY <1>1, <1>2, Zenon DEF Mirrors

LEMMA CallsPushed ==
  ASSUME NEW cs, NEW fs, AllGood(cs, fs), NEW c \in CallType, NEW f \in Frames,
         Iterating(c), c.mark = Len(c.entry.open) + Added(f),
         Mirrors(cs, c.base, Len(c.entry.open), Len(cs))
  PROVE  AllGood(Append(cs, c), Append(fs, f))
<1>. DEFINE ds == Append(cs, c)
            gs == Append(fs, f)
<1>1. /\ cs \in Seq(CallType) /\ fs \in Seq(Frames) /\ Len(cs) = Len(fs) /\ Len(cs) \in Nat
      /\ ds \in Seq(CallType) /\ gs \in Seq(Frames)
      /\ Len(ds) = Len(cs) + 1 /\ Len(gs) = Len(cs) + 1
      /\ ds[Len(cs) + 1] = c /\ gs[Len(cs) + 1] = f
      /\ \A i \in 1..Len(cs) : ds[i] = cs[i] /\ gs[i] = fs[i]
  BY DEF AllGood
<1>. HIDE DEF ds, gs
<1>2. ASSUME NEW i \in 1..Len(cs) PROVE Good(ds, gs, i)
  <2>1. Good(cs, fs, i) /\ ds[i] = cs[i] /\ gs[i] = fs[i]
    BY <1>1 DEF AllGood
  <2>2. i - 1 \in Nat /\ (i - 1 # 0 => cs[i - 1] = ds[i - 1])
    BY <1>1
  <2>3. Mirrors(ds, cs[i].base, Len(cs[i].entry.open), i - 1)
    BY <2>1, <2>2, SameMirror DEF Good
  <2>. QED BY <2>1, <2>3 DEF Good
<1>3. Good(ds, gs, Len(cs) + 1)
  <2>1. Len(cs) # 0 => cs[Len(cs)] = ds[Len(cs)]
    BY <1>1
  <2>2. Mirrors(ds, c.base, Len(c.entry.open), Len(cs))
    BY <1>1, <2>1, SameMirror
  <2>. QED BY <1>1, <2>2 DEF Good
<1>4. \A i \in 1..Len(ds) : Good(ds, gs, i)
  BY <1>1, <1>2, <1>3
<1>. QED BY <1>1, <1>4 DEF AllGood, ds, gs

LEMMA CallsPopped ==
  ASSUME NEW cs, NEW fs, AllGood(cs, fs), Len(cs) # 0
  PROVE  /\ AllGood(SubSeq(cs, 1, Len(cs) - 1), SubSeq(fs, 1, Len(fs) - 1))
         /\ Len(SubSeq(cs, 1, Len(cs) - 1)) = Len(cs) - 1
         /\ \A i \in 1..(Len(cs) - 1) : SubSeq(cs, 1, Len(cs) - 1)[i] = cs[i]
<1>. DEFINE ds == SubSeq(cs, 1, Len(cs) - 1)
            gs == SubSeq(fs, 1, Len(fs) - 1)
<1>1. /\ cs \in Seq(CallType) /\ fs \in Seq(Frames) /\ Len(cs) = Len(fs) /\ Len(cs) \in Nat
      /\ ds \in Seq(CallType) /\ gs \in Seq(Frames)
      /\ Len(ds) = Len(cs) - 1 /\ Len(gs) = Len(cs) - 1
      /\ \A i \in 1..(Len(cs) - 1) : ds[i] = cs[i] /\ gs[i] = fs[i]
  BY FrontType DEF AllGood
<1>. HIDE DEF ds, gs
<1>2. ASSUME NEW i \in 1..Len(ds) PROVE Good(ds, gs, i)
  <2>0. i \in 1..(Len(cs) - 1) /\ i \in 1..Len(cs)
    BY <1>1
  <2>1. Good(cs, fs, i) /\ ds[i] = cs[i] /\ gs[i] = fs[i]
    BY <1>1, <2>0 DEF AllGood
  <2>2. i - 1 \in Nat /\ (i - 1 # 0 => cs[i - 1] = ds[i - 1])
    BY <1>1
  <2>3. Mirrors(ds, cs[i].base, Len(cs[i].entry.open), i - 1)
    BY <2>1, <2>2, SameMirror DEF Good
  <2>. QED BY <2>1, <2>3 DEF Good
<1>. QED BY <1>1, <1>2 DEF AllGood, ds, gs

----------------------------------------------------------------------------
(* The stack code inside an iteration finds *)

LEMMA CallFacts ==
  ASSUME NEW cs \in Seq(CallType), NEW i \in 0..Len(cs)
  PROVE  /\ Floor(cs, i) \in Nat /\ Floor(cs, i) >= 1 /\ MarkAt(cs, i) \in Nat
         /\ i > 0 => /\ cs[i] \in CallType /\ cs[i].table \in Tables
                     /\ cs[i].base \in Seq(Values) /\ Len(cs[i].base) \in Nat
                     /\ cs[i].entry \in Names /\ cs[i].mark \in Nat
                     /\ cs[i].seen \in Seq(Values) /\ Len(cs[i].seen) \in Nat
<1>1. CASE i = 0
  BY <1>1 DEF Floor, MarkAt
<1>2. CASE i > 0
  <2>1. cs[i] \in CallType
    <3>. HIDE DEF CallType
    <3>. QED BY <1>2, ElementOfSeq, LenProperties
  <2>2. /\ cs[i].table \in Tables /\ cs[i].base \in Seq(Values) /\ cs[i].entry \in Names
        /\ cs[i].mark \in Nat /\ cs[i].seen \in Seq(Values)
    BY <2>1, Zenon DEF CallType
  <2>3. Len(cs[i].base) \in Nat /\ Len(cs[i].seen) \in Nat
    BY <2>2, LenProperties
  <2>. QED BY <1>2, <2>1, <2>2, <2>3 DEF Floor, MarkAt
<1>. QED BY <1>1, <1>2, LenProperties

LEMMA MirrorPush ==
  ASSUME NEW cs \in Seq(CallType), NEW i \in 0..Len(cs), NEW s \in Seq(Values),
         NEW n \in Nat, Mirrors(cs, s, n, i), NEW v \in Tables
  PROVE  Mirrors(cs, Append(s, v), n + 1, i)
<1>. DEFINE r == Append(s, v)
            c == cs[i]
            h == Len(c.base)
<1>1. /\ Floor(cs, i) \in Nat /\ MarkAt(cs, i) \in Nat /\ i \in Nat
      /\ MarkAt(cs, i) <= n /\ Len(s) = Floor(cs, i) + n - MarkAt(cs, i)
      /\ i > 0 => h \in Nat /\ Floor(cs, i) = h + 2
  BY CallFacts, LenProperties DEF Mirrors, Floor
<1>2. /\ Len(r) = Len(s) + 1 /\ r[Len(s) + 1] = v /\ Len(s) \in Nat /\ v \in Values
      /\ Tag[v] = "table" /\ \A j \in 1..Len(s) : r[j] = s[j]
  BY AppendProperties, LenProperties DEF Tables
<1>3. \A j \in (Floor(cs, i) + 1)..Len(r) : Tag[r[j]] = "table"
  <2>1. \A j \in (Floor(cs, i) + 1)..Len(s) : Tag[s[j]] = "table"
    BY DEF Mirrors
  <2>. HIDE DEF r
  <2>. QED BY <1>1, <1>2, <2>1
<1>4. ASSUME i > 0
      PROVE  /\ SubSeq(r, 1, h) = c.base /\ c.base[h] = c.table
             /\ r[h + 1] = KeyAt(c.table, Len(c.seen))
             /\ r[h + 2] = ValueAt(c.table, Len(c.seen))
  <2>1. /\ SubSeq(s, 1, h) = c.base /\ c.base[h] = c.table
        /\ s[h + 1] = KeyAt(c.table, Len(c.seen))
        /\ s[h + 2] = ValueAt(c.table, Len(c.seen))
    BY <1>4 DEF Mirrors
  <2>2. h \in Nat /\ h + 2 <= Len(s)
    BY <1>1, <1>2, <1>4
  <2>3. SubSeq(r, 1, h) = SubSeq(s, 1, h)
    <3>. HIDE DEF h
    <3>. QED BY <1>2, <2>2
  <2>4. r[h + 1] = s[h + 1] /\ r[h + 2] = s[h + 2]
    <3>1. h + 1 \in 1..Len(s) /\ h + 2 \in 1..Len(s)
      BY <1>2, <2>2
    <3>2. \A j \in 1..Len(s) : r[j] = s[j]
      BY <1>2
    <3>. QED BY <3>1, <3>2, Zenon
  <2>. QED BY <2>1, <2>3, <2>4
<1>5. MarkAt(cs, i) <= n + 1 /\ Len(r) = Floor(cs, i) + (n + 1) - MarkAt(cs, i)
  BY <1>1, <1>2
<1>. HIDE DEF r
<1>. QED BY <1>3, <1>4, <1>5, Zenon DEF Mirrors, r, c, h

LEMMA MirrorPop ==
  ASSUME NEW cs \in Seq(CallType), NEW i \in 0..Len(cs), NEW s \in Seq(Values),
         NEW n \in Nat, Mirrors(cs, s, n, i), n > MarkAt(cs, i)
  PROVE  Mirrors(cs, SubSeq(s, 1, Len(s) - 1), n - 1, i)
<1>. DEFINE r == SubSeq(s, 1, Len(s) - 1)
            c == cs[i]
            h == Len(c.base)
<1>1. /\ Floor(cs, i) \in Nat /\ Floor(cs, i) >= 1 /\ MarkAt(cs, i) \in Nat /\ i \in Nat
      /\ Len(s) = Floor(cs, i) + n - MarkAt(cs, i)
      /\ i > 0 => h \in Nat /\ Floor(cs, i) = h + 2
  BY CallFacts, LenProperties DEF Mirrors, Floor
<1>2. /\ Len(r) = Len(s) - 1 /\ Len(s) \in Nat /\ Len(s) > Floor(cs, i)
      /\ \A j \in 1..(Len(s) - 1) : r[j] = s[j]
  BY <1>1, LenProperties
<1>3. \A j \in (Floor(cs, i) + 1)..Len(r) : Tag[r[j]] = "table"
  <2>1. \A j \in (Floor(cs, i) + 1)..Len(s) : Tag[s[j]] = "table"
    BY DEF Mirrors
  <2>. HIDE DEF r
  <2>. QED BY <1>1, <1>2, <2>1
<1>4. ASSUME i > 0
      PROVE  /\ SubSeq(r, 1, h) = c.base /\ c.base[h] = c.table
             /\ r[h + 1] = KeyAt(c.table, Len(c.seen))
             /\ r[h + 2] = ValueAt(c.table, Len(c.seen))
  <2>1. /\ SubSeq(s, 1, h) = c.base /\ c.base[h] = c.table
        /\ s[h + 1] = KeyAt(c.table, Len(c.seen))
        /\ s[h + 2] = ValueAt(c.table, Len(c.seen))
    BY <1>4 DEF Mirrors
  <2>2. h \in Nat /\ h + 2 <= Len(s) - 1
    <3>. HIDE DEF r, h
    <3>. QED BY <1>1, <1>2, <1>4
  <2>3. SubSeq(r, 1, h) = SubSeq(s, 1, h)
    <3>. HIDE DEF h
    <3>. QED BY <1>2, <2>2
  <2>4. r[h + 1] = s[h + 1] /\ r[h + 2] = s[h + 2]
    <3>1. h + 1 \in 1..(Len(s) - 1) /\ h + 2 \in 1..(Len(s) - 1)
      BY <1>2, <2>2
    <3>2. \A j \in 1..(Len(s) - 1) : r[j] = s[j]
      BY <1>2
    <3>. QED BY <3>1, <3>2, Zenon
  <2>. QED BY <2>1, <2>3, <2>4
<1>5. MarkAt(cs, i) <= n - 1 /\ Len(r) = Floor(cs, i) + (n - 1) - MarkAt(cs, i)
  BY <1>1, <1>2
<1>. HIDE DEF r
<1>. QED BY <1>3, <1>4, <1>5, Zenon DEF Mirrors, r, c, h

\* At entry to Process the stack ends with the key and the value of an entry.
LEMMA MirrorEntry ==
  ASSUME NEW cs \in Seq(CallType), NEW i \in 1..Len(cs), NEW s \in Seq(Values),
         NEW c, c = cs[i], Iterating(c), NEW n, n = c.mark,
         s = c.base \o <<KeyAt(c.table, Len(c.seen)), ValueAt(c.table, Len(c.seen))>>
  PROVE  Mirrors(cs, s, n, i)
<1>. DEFINE h == Len(c.base)
            K == KeyAt(c.table, Len(c.seen))
            V == ValueAt(c.table, Len(c.seen))
<1>1. /\ i > 0 /\ i \in Nat /\ h \in Nat /\ Floor(cs, i) = h + 2
      /\ MarkAt(cs, i) = n /\ n \in Nat /\ c.base \in Seq(Values)
  BY CallFacts, LenProperties DEF Floor, MarkAt
<1>2. Len(c.seen) \in Indices(c.table) /\ c.table \in Tables /\ c.base[h] = c.table
  BY CallFacts, <1>1, LenProperties DEF Iterating
<1>3. K \in Values /\ V \in Values
  BY <1>2, ValueType
<1>. HIDE DEF K, V
<1>4. /\ Len(s) = h + 2 /\ SubSeq(s, 1, h) = c.base /\ s[h + 1] = K /\ s[h + 2] = V
  <2>1. s = c.base \o <<K, V>>
    BY DEF K, V
  <2>2. c.base \in Seq(Values) /\ <<K, V>> \in Seq(Values) /\ Len(<<K, V>>) = 2
    BY <1>1, <1>3
  <2>3. Len(s) = h + 2
    BY <2>1, <2>2
  <2>4. SubSeq(s, 1, h) = c.base
    BY <1>1, <2>1, <2>2
  <2>5. s[h + 1] = K /\ s[h + 2] = V
    BY <1>1, <2>1, <2>2
  <2>. QED BY <2>3, <2>4, <2>5
<1>5. (Floor(cs, i) + 1)..Len(s) = {} /\ n <= n /\ Len(s) = Floor(cs, i) + n - MarkAt(cs, i)
  BY <1>1, <1>4
<1>. QED BY <1>1, <1>2, <1>4, <1>5, Zenon DEF Mirrors, K, V, h

\* What Process leaves for lua_next when it has ended every table it started.
LEMMA MirrorLeave ==
  ASSUME NEW cs \in Seq(CallType), NEW i \in 1..Len(cs), NEW s \in Seq(Values),
         NEW c, c = cs[i], NEW n, n = c.mark, Mirrors(cs, s, n, i)
  PROVE  /\ Len(s) = Len(c.base) + 2 /\ s[Len(s)] = ValueAt(c.table, Len(c.seen))
         /\ SubSeq(s, 1, Len(s) - 1) = Append(c.base, KeyAt(c.table, Len(c.seen)))
<1>. DEFINE h == Len(c.base)
<1>1. /\ i > 0 /\ i \in Nat /\ h \in Nat /\ Floor(cs, i) = h + 2
      /\ MarkAt(cs, i) = n /\ n \in Nat /\ c.base \in Seq(Values)
  BY CallFacts, LenProperties DEF Floor, MarkAt
<1>2. /\ Len(s) = h + 2 /\ SubSeq(s, 1, h) = c.base
      /\ s[h + 1] = KeyAt(c.table, Len(c.seen))
      /\ s[h + 2] = ValueAt(c.table, Len(c.seen))
  BY <1>1 DEF Mirrors
<1>3. SubSeq(s, 1, Len(s) - 1) = Append(SubSeq(s, 1, h), s[h + 1])
  <2>. HIDE DEF h
  <2>. QED BY <1>1, <1>2
<1>. QED BY <1>1, <1>2, <1>3

----------------------------------------------------------------------------
(* A turn of the loop of Table_Iterate that reads the entry after the p-th *)

Finished(base, n, fs) ==
  SetStack(base) /\ names' = n /\ frames' = fs /\ ctl' = "client"
Stopped(fs, n) == ctl' = "raising" /\ names' = n /\ frames' = fs
Entered(base, t, p, n, fs) ==
  /\ SetStack(base \o <<KeyAt(t, p), ValueAt(t, p)>>) /\ ctl' = "client"
  /\ \E f \in Frames :
       /\ f.added => KeyAt(t, p) \in Named
       /\ frames' = Append(fs, f)
       /\ names' = IF f.added THEN Add_Name_Component(n, Label[KeyAt(t, p)]) ELSE n

LEMMA EntryFacts ==
  ASSUME NEW t \in Tables
  PROVE  /\ Len(Entries[t]) \in Nat
         /\ \A i \in Indices(t) : KeyAt(t, i) # Nil /\ ValueAt(t, i) # Nil
         /\ \A i, j \in Indices(t) : KeyAt(t, i) = KeyAt(t, j) => i = j
<1>. DEFINE P == (Values \ {Nil}) \X (Values \ {Nil})
<1>1. Entries[t] \in Seq(P)
  BY ConstantsOK DEF ConstantsOK
<1>2. ASSUME NEW i \in Indices(t) PROVE KeyAt(t, i) # Nil /\ ValueAt(t, i) # Nil
  <2>1. Entries[t][i] \in P
    <3>. HIDE DEF P
    <3>. QED BY <1>1, ElementOfSeq DEF Indices
  <2>. QED BY <2>1 DEF KeyAt, ValueAt
<1>3. Len(Entries[t]) \in Nat
  <2>. HIDE DEF P
  <2>. QED BY <1>1, LenProperties
<1>. QED BY <1>2, <1>3, ConstantsOK DEF ConstantsOK

LEMMA LoopStep ==
  ASSUME TypeOK, NEW base \in Seq(Values), NEW t \in Tables, base # <<>>,
         t = base[Len(base)], NEW p \in Nat, NEW k,
         (p = 0 /\ k = Nil) \/ (p \in Indices(t) /\ k = KeyAt(t, p)),
         NEW n, NEW fs, LoopTurn(Append(base, k), n, fs)
  PROVE  /\ lua' = lua
         /\ \/ p = Len(Entries[t]) /\ Finished(base, n, fs)
            \/ p + 1 \in Indices(t) /\ (Stopped(fs, n) \/ Entered(base, t, p + 1, n, fs))
<1>. DEFINE s == Append(base, k)
            rest == SubSeq(s, 1, Len(s) - 1)
            i == NextAfter(t, k)
            HasName(j) == Tag[j] \in {"number", "string"}
<1>0. k \in Values
  BY ValueType, ConstantsOK DEF ConstantsOK
<1>1. /\ Len(s) = Len(base) + 1 /\ Len(base) \in Nat /\ Len(base) >= 1
      /\ s[Len(s)] = k /\ s[Len(s) - 1] = t /\ rest = base
  <2>1. Len(base) \in Nat /\ Len(base) >= 1
    BY LenProperties, EmptySeq
  <2>. QED BY <1>0, <2>1
<1>2. IsKey(t, k) /\ i = p + 1
  <2>1. CASE p = 0 /\ k = Nil
    BY <2>1 DEF IsKey, NextAfter
  <2>2. CASE p \in Indices(t) /\ k = KeyAt(t, p)
    <3>1. k # Nil /\ \A j \in Indices(t) : KeyAt(t, j) = k => j = p
      BY <2>2, EntryFacts
    <3>. DEFINE q == CHOOSE j \in Indices(t) : KeyAt(t, j) = k
    <3>2. q = p
      BY <2>2, <3>1
    <3>3. IsKey(t, k)
      BY <2>2 DEF IsKey
    <3>4. NextAfter(t, k) = 1 + q
      BY <3>1, Zenon DEF NextAfter
    <3>. HIDE DEF q
    <3>. QED BY <3>2, <3>3, <3>4
  <2>. QED BY <2>1, <2>2
<1>3. Iterable(s)
  BY <1>1, <1>2 DEF Iterable, Tables
<1>4. p <= Len(Entries[t]) /\ Len(Entries[t]) \in Nat
  BY EntryFacts DEF Indices
<1>5. LoopTurn(s, n, fs)
  OBVIOUS
<1>6. /\ UNCHANGED config
      /\ \/ i \notin Indices(t) /\ SetStack(rest) /\ names' = n /\ frames' = fs
            /\ ctl' = "client"
         \/ /\ i \in Indices(t) /\ SetStack(rest \o Entries[t][i])
            /\ \/ Stopped(fs, n)
               \/ /\ names' = IF HasName(KeyAt(t, i))
                              THEN Add_Name_Component(n, Label[KeyAt(t, i)]) ELSE n
                  /\ frames' = Append(fs, [added |-> HasName(KeyAt(t, i))])
                  /\ ctl' = "client"
  <2>1. s[Len(s) - 1] = t /\ s[Len(s)] = k
    BY <1>1
  <2>. HIDE DEF s
  <2>. QED BY <1>3, <1>5, <2>1 DEF LoopTurn, Raise, Stopped, rest, i, HasName
<1>7. lua' = lua
  BY <1>6 DEF config
<1>8. CASE i \notin Indices(t)
  <2>1. p = Len(Entries[t])
    BY <1>2, <1>4, <1>8 DEF Indices
  <2>. QED BY <1>1, <1>6, <1>7, <1>8, <2>1 DEF Finished
<1>9. CASE i \in Indices(t)
  <2>. DEFINE K == KeyAt(t, i)
              f == [added |-> HasName(K)]
  <2>1. K \in Values /\ Entries[t][i] = <<K, ValueAt(t, i)>>
    BY <1>9, ValueType
  <2>2. f \in Frames /\ f.added = HasName(K) /\ (f.added => K \in Named)
    <3>1. HasName(K) \in BOOLEAN
      OBVIOUS
    <3>2. HasName(K) => K \in Named
      BY <2>1 DEF Named
    <3>3. f \in Frames
      BY <3>1, Zenon DEF Frames
    <3>4. f.added = HasName(K)
      BY Zenon
    <3>. HIDE DEF HasName
    <3>. QED BY <3>2, <3>3, <3>4, Zenon
  <2>3. ASSUME ~ Stopped(fs, n) PROVE Entered(base, t, p + 1, n, fs)
    <3>1. /\ SetStack(base \o <<K, ValueAt(t, i)>>) /\ ctl' = "client"
          /\ frames' = Append(fs, f)
          /\ names' = IF f.added THEN Add_Name_Component(n, Label[K]) ELSE n
      BY <1>1, <1>6, <1>9, <2>1, <2>3
    <3>. HIDE DEF f, HasName
    <3>. QED BY <1>2, <2>2, <3>1 DEF Entered
  <2>. QED BY <1>2, <1>7, <1>9, <2>3
<1>. QED BY <1>8, <1>9

----------------------------------------------------------------------------
(* The inductive invariant *)

Idle(i)  == \A j \in Interps \ {i} : Len(stacks[j]) = 1
Counted  == names.depth = Len(names.open) /\ Mark <= Len(names.open)
Here     == Mirrors(calls, stack, Len(names.open), Len(calls)) /\ Idle(lua)
\* No exception is raised but one a lookup raised in this code.
Calm     == ctl = "client" \/ (ctl = "raising" /\ harmless)

CRest == /\ ctl # "undefined"
         /\ AllGood(calls, frames)
         /\ Counted
         /\ Calm => Here
CInv  == TypeOK /\ CRest

LEMMA StateFacts ==
  ASSUME CInv
  PROVE  /\ lua \in Interps /\ stack \in Seq(Values) /\ Height \in Nat
         /\ calls \in Seq(CallType) /\ frames \in Seq(Frames)
         /\ Len(calls) = Len(frames) /\ Len(calls) \in Nat
         /\ names \in Names /\ Len(names.open) \in Nat /\ names.depth = Len(names.open)
         /\ Mark \in Nat /\ Mark <= Len(names.open)
         /\ Calm => /\ Here /\ Mirrors(calls, stack, Len(names.open), Len(calls))
                    /\ Height >= 1
<1>1. /\ lua \in Interps /\ stack \in Seq(Values) /\ Height \in Nat
  BY StackType DEF CInv
<1>2. /\ calls \in Seq(CallType) /\ frames \in Seq(Frames) /\ Len(calls) = Len(frames)
      /\ Len(calls) \in Nat
  BY LenProperties DEF CInv, CRest, AllGood
<1>3. names \in Names /\ Len(names.open) \in Nat
  BY LenProperties DEF CInv, TypeOK, Names
<1>4. /\ names.depth = Len(names.open) /\ Mark <= Len(names.open)
  BY DEF CInv, CRest, Counted
<1>5. Mark \in Nat /\ Floor(calls, Len(calls)) \in Nat /\ Floor(calls, Len(calls)) >= 1
  BY <1>2, CallFacts DEF Mark
<1>6. Calm => Here /\ Mirrors(calls, stack, Len(names.open), Len(calls))
  BY DEF CInv, CRest, Here
<1>7. Calm => Height = Floor(calls, Len(calls)) + Len(names.open) - Mark
  BY <1>6 DEF Mirrors, Height, Mark
<1>. QED BY <1>1, <1>2, <1>3, <1>4, <1>5, <1>6, <1>7

\* A step that leaves the stacks, the names and the iterations as they are.
LEMMA Unmoved ==
  ASSUME CInv, UNCHANGED <<lua, names, stacks, frames, calls>>,
         ctl' # "undefined", Calm' => Calm
  PROVE  CRest'
<1>1. UNCHANGED stack /\ UNCHANGED Counted /\ UNCHANGED Here
  BY DEF stack, Counted, Here, Mark, Idle, MarkAt, Mirrors, Floor
<1>2. AllGood(calls, frames)'
  BY DEF CInv, CRest, AllGood
<1>. QED BY <1>1, <1>2 DEF CInv, CRest

\* A step that raises what is not handled.
LEMMA Raised ==
  ASSUME CInv, UNCHANGED <<names, frames, calls>>, ctl' = "raising", harmless' = FALSE
  PROVE  CRest'
<1>1. UNCHANGED Counted
  BY DEF Counted, Mark, MarkAt
<1>2. AllGood(calls, frames)'
  BY DEF CInv, CRest, AllGood
<1>. QED BY <1>1, <1>2 DEF CInv, CRest, Calm

----------------------------------------------------------------------------
(* Lookups and exceptions *)

\* Code that may leave its callback: the entry is on top of the stack.
LEMMA EntryHere ==
  ASSUME CInv, AtEntry, ctl = "client"
  PROVE  /\ Len(calls) \in 1..Len(calls) /\ Call \in CallType /\ Call = calls[Len(calls)]
         /\ Good(calls, frames, Len(calls)) /\ Iterating(Call)
         /\ Len(names.open) = Call.mark
         /\ Height = Len(Call.base) + 2 /\ Len(Call.base) \in Nat
         /\ Call.table \in Tables /\ Len(Call.seen) \in Indices(Call.table)
         /\ Top = ValueAt(Call.table, Len(Call.seen))
         /\ StackAfter = Append(Call.base, KeyAt(Call.table, Len(Call.seen)))
<1>1. Len(calls) \in 1..Len(calls)
  BY StateFacts, EmptySeq DEF AtEntry
<1>2. Good(calls, frames, Len(calls)) /\ Iterating(Call)
  BY <1>1 DEF CInv, CRest, AllGood, Good, Call
<1>3. Len(names.open) = Call.mark /\ Call \in CallType /\ Len(Call.base) \in Nat
      /\ Call.table \in Tables
  <2>1. Len(calls) \in 0..Len(calls) /\ Len(calls) > 0
    BY <1>1
  <2>2. Call \in CallType /\ Len(Call.base) \in Nat /\ Call.table \in Tables
    BY <2>1, StateFacts, CallFacts DEF Call
  <2>3. Mark = Call.mark
    BY <2>1 DEF Mark, MarkAt, Call
  <2>. QED BY <2>2, <2>3, StateFacts DEF AtEntry, OpenHere
<1>4. Mirrors(calls, stack, Len(names.open), Len(calls))
  BY StateFacts DEF Calm
<1>5. /\ Height = Len(Call.base) + 2 /\ stack[Height] = ValueAt(Call.table, Len(Call.seen))
      /\ SubSeq(stack, 1, Height - 1) = Append(Call.base, KeyAt(Call.table, Len(Call.seen)))
  <2>1. calls \in Seq(CallType) /\ stack \in Seq(Values)
    BY StateFacts
  <2>2. Call = calls[Len(calls)]
    BY DEF Call
  <2>3. /\ Len(stack) = Len(Call.base) + 2
        /\ stack[Len(stack)] = ValueAt(Call.table, Len(Call.seen))
        /\ SubSeq(stack, 1, Len(stack) - 1)
             = Append(Call.base, KeyAt(Call.table, Len(Call.seen)))
    <3>1. Len(calls) \in 1..Len(calls) /\ Len(names.open) = Call.mark
      BY <1>1, <1>3
    <3>. HIDE DEF Call
    <3>. QED BY <1>4, <2>1, <2>2, <3>1, MirrorLeave, SMTT(60)
  <2>. QED BY <2>3 DEF Height
<1>. QED BY <1>1, <1>2, <1>3, <1>5 DEF Iterating, StackAfter, Popped, Top, Call

LEMMA AnswerControl ==
  ASSUME NEW want, NEW v, NEW target, NEW name, ctl = "client",
         Answer(want, v, target, name)
  PROVE  ctl' \in {"client", "raising"}
BY DEF Answer, Type_Error, Raise, control

LEMMA LookupStep ==
  ASSUME CInv, Lookup_Here
  PROVE  CRest'
<1>1. /\ UNCHANGED <<lua, names, stacks, frames>>
      /\ ctl = "client" /\ ctl' \in {"client", "raising"}
  <2>1. ASSUME NEW want \in Wanted, AtEntry, Key(want)
        PROVE  /\ UNCHANGED <<lua, names, stacks, frames>>
               /\ ctl = "client" /\ ctl' \in {"client", "raising"}
    <3>1. ctl = "client"
      BY <2>1 DEF Key, Lacks, Needs, Running
    <3>2. Height >= 2
      BY <2>1, <3>1, EntryHere
    <3>. QED BY <2>1, <3>1, <3>2, StateFacts, AnswerControl DEF Key, Lacks, config
  <2>2. ASSUME NEW want \in Wanted, NEW k \in Asked, NEW edge \in BOOLEAN,
               Running, Tag[Top] = "table",
               \/ Lookup(k, want, k) \/ LookupConditional(k, want, edge, k)
        PROVE  /\ UNCHANGED <<lua, names, stacks, frames>>
               /\ ctl = "client" /\ ctl' \in {"client", "raising"}
    <3>1. ctl = "client" /\ Height >= 1 /\ Height \in Nat
      BY <2>2, StateFacts DEF Running, Calm
    <3>2. CASE /\ Answer(want, Get(Top, k), "value", k)
               /\ UNCHANGED <<config, names, stacks, frames>>
      BY <3>1, <3>2, AnswerControl DEF config
    <3>3. CASE Default(want, edge) /\ UNCHANGED <<config, names, stacks, frames>>
      BY <3>1, <3>3 DEF config, Default, Raise, control
    <3>. QED BY <2>2, <3>1, <3>2, <3>3 DEF Lookup, LookupConditional, Lacks
  <2>. QED BY <2>1, <2>2 DEF Lookup_Here, Named_Local, Indexed_Local,
                Named_Local_Conditional, Indexed_Local_Conditional
<1>2. UNCHANGED calls
  BY DEF Lookup_Here
<1>. QED BY <1>1, <1>2, Unmoved DEF Calm

LEMMA LocalStep ==
  ASSUME CInv, Local_Here
  PROVE  CRest'
<1>1. PICK want \in Wanted, edge \in BOOLEAN : Local(want) \/ Local_Conditional(want, edge)
  BY DEF Local_Here
<1>2. ctl = "client"
  BY <1>1 DEF Local, Local_Conditional, Lacks, Needs, Running
<1>3. Height >= 2 /\ Height \in Nat /\ Top # Nil
  BY <1>2, EntryHere, StateFacts, EntryFacts DEF Local_Here
<1>4. Local(want)
  BY <1>1, <1>3 DEF Local_Conditional
<1>5. /\ Answer(want, Top, "value", Nil)
      /\ SetStack(IF Tag[Top] = TagOf(want) THEN stack ELSE Popped)
      /\ UNCHANGED <<config, names, frames, calls>> /\ harmless' = FALSE
  BY <1>3, <1>4 DEF Local, Lacks, Local_Here
<1>6. CASE Tag[Top] # TagOf(want)
  <2>1. ctl' = "raising"
    BY <1>5, <1>6 DEF Answer, Type_Error, Raise
  <2>. QED BY <1>5, <2>1, Raised
<1>7. CASE Tag[Top] = TagOf(want)
  <2>1. stacks' = stacks
    BY <1>5, <1>7 DEF SetStack, stack, CInv, TypeOK
  <2>2. ctl' \in {"client", "raising"}
    BY <1>2, <1>5, AnswerControl
  <2>. QED BY <1>2, <1>5, <2>1, <2>2, Unmoved DEF Calm, config
<1>. QED BY <1>6, <1>7

LEMMA HandleStep ==
  ASSUME CInv, Handle_Here
  PROVE  CRest'
BY Unmoved DEF Handle_Here, Client_Handles, Calm, config

LEMMA StopStep ==
  ASSUME CInv, Client_Stops, UNCHANGED <<calls, harmless>>
  PROVE  CRest'
BY Unmoved DEF Client_Stops, Calm, config

LEMMA ConfigureStep ==
  ASSUME CInv, Configure_Here
  PROVE  CRest'
<1>1. /\ ctl = "client" /\ ctl' = "client" /\ names.open = <<>> /\ Len(calls) = 0
      /\ UNCHANGED <<names, stacks, frames, calls>>
  BY StateFacts DEF Configure_Here, Configuration, Set_Lua, Set_File, Running, control
<1>2. CASE lua' = lua
  BY <1>1, <1>2, Unmoved DEF Calm
<1>3. CASE lua' \in Interps
  <2>1. Mirrors(calls, stack, 0, 0) /\ Idle(lua)
    BY <1>1, StateFacts DEF Calm, Here
  <2>2. \A j \in Interps : Len(stacks[j]) = 1
    <3>1. Len(stacks[lua]) = 1
      BY <2>1 DEF Mirrors, Floor, MarkAt, stack
    <3>. QED BY <2>1, <3>1 DEF Idle
  <2>3. Mirrors(calls, stacks[lua'], 0, 0)
    BY <1>3, <2>2 DEF Mirrors, Floor, MarkAt
  <2>4. Here'
    BY <1>1, <2>2, <2>3 DEF Here, Idle, stack, Mirrors, Floor, MarkAt
  <2>5. UNCHANGED Counted /\ AllGood(calls, frames)'
    BY <1>1 DEF Counted, Mark, MarkAt, CInv, CRest, AllGood
  <2>. QED BY <1>1, <2>4, <2>5 DEF CInv, CRest
<1>. QED BY <1>2, <1>3 DEF Configure_Here, Configuration, Set_Lua, Set_File

----------------------------------------------------------------------------
(* Tables *)

LEMMA StackSet ==
  ASSUME TypeOK, NEW s, SetStack(s), lua' = lua
  PROVE  stack' = s /\ \A j \in Interps \ {lua} : stacks'[j] = stacks[j]
BY DEF TypeOK, SetStack, stack

\* A step that pushes or pops a table in code that has an open iteration or none.
LEMMA Moved ==
  ASSUME CInv, Calm, NEW s, SetStack(s), UNCHANGED <<lua, frames, calls>>,
         ctl' = "client", Len(names'.open) \in Nat,
         names'.depth = Len(names'.open),
         Mirrors(calls, s, Len(names'.open), Len(calls))
  PROVE  CRest'
<1>1. /\ stack' = s /\ \A j \in Interps \ {lua} : stacks'[j] = stacks[j]
      /\ Idle(lua)
  BY StackSet, StateFacts DEF CInv, Here
<1>2. Here'
  <2>1. Mirrors(calls', stack', Len(names'.open), Len(calls'))
    BY <1>1
  <2>2. Idle(lua)'
    BY <1>1 DEF Idle
  <2>. QED BY <2>1, <2>2 DEF Here, Mirrors, Floor, MarkAt, stack
<1>3. Counted'
  BY DEF Counted, Mark, MarkAt, Mirrors
<1>4. AllGood(calls, frames)'
  BY DEF CInv, CRest, AllGood
<1>. QED BY <1>2, <1>3, <1>4 DEF CRest

LEMMA AddOpen ==
  ASSUME NEW n \in Names, NEW name \in Seq(Chars)
  PROVE  /\ Len(Add_Name_Component(n, name).open) = Len(n.open) + 1
         /\ Add_Name_Component(n, name).depth = n.depth + 1
<1>. DEFINE S == [name : Seq(Chars), before : Seq(Chars)]
            e == [name |-> name, before |-> n.code]
<1>1. n.open \in Seq(S) /\ e \in S
  BY DEF Names
<1>2. Add_Name_Component(n, name).open = Append(n.open, e)
  BY DEF Add_Name_Component
<1>. HIDE DEF S, e
<1>3. Len(Append(n.open, e)) = Len(n.open) + 1
  BY <1>1, AppendProperties
<1>. QED BY <1>2, <1>3 DEF Add_Name_Component

LEMMA StartStep ==
  ASSUME CInv, Start_Here
  PROVE  CRest'
<1>1. PICK k \in Asked : Table_Start(k)
  BY DEF Start_Here
<1>2. /\ ctl = "client" /\ Calm /\ Height >= 1 /\ Height \in Nat /\ Top \in Tables
      /\ k \in Named /\ stack \in Seq(Values)
      /\ names \in Names /\ Len(names.open) \in Nat /\ names.depth = Len(names.open)
      /\ Mirrors(calls, stack, Len(names.open), Len(calls))
      /\ calls \in Seq(CallType) /\ Len(calls) \in 0..Len(calls)
  <2>1. ctl = "client" /\ Tag[Top] = "table" /\ Calm
    BY DEF Start_Here, Running, Calm
  <2>2. Height >= 1 /\ Height \in Nat /\ Top \in Values
    BY <2>1, StateFacts, StackType DEF CInv
  <2>3. Top \in Tables /\ k \in Named
    BY <2>1, <2>2, ConstantsOK DEF Tables, ConstantsOK
  <2>. QED BY <2>1, <2>2, <2>3, StateFacts
<1>3. /\ SetStack(Append(stack, Get(Top, k))) /\ UNCHANGED <<config, frames, calls>>
      /\ harmless' = FALSE
      /\ \/ Type_Error("value", "table", k) /\ UNCHANGED names
         \/ /\ Tag[Get(Top, k)] = "table" /\ UNCHANGED control
            /\ names' = Add_Name_Component(names, Label[k])
  BY <1>1, <1>2 DEF Table_Start, Lacks, Start_Here, Tables
<1>4. CASE Type_Error("value", "table", k) /\ UNCHANGED names
  BY <1>3, <1>4, Raised DEF Type_Error, Raise
<1>5. CASE /\ Tag[Get(Top, k)] = "table" /\ UNCHANGED control
           /\ names' = Add_Name_Component(names, Label[k])
  <2>1. Get(Top, k) \in Tables
    BY <1>2, <1>5, GetType DEF Tables
  <2>2. /\ Len(names'.open) = Len(names.open) + 1
        /\ names'.depth = names.depth + 1
    BY <1>2, <1>5, AddOpen, ConstantsOK DEF ConstantsOK
  <2>3. Mirrors(calls, Append(stack, Get(Top, k)), Len(names'.open), Len(calls))
    BY <1>2, <2>1, <2>2, MirrorPush
  <2>. QED BY <1>2, <1>3, <1>5, <2>2, <2>3, Moved DEF control, config
<1>. QED BY <1>3, <1>4, <1>5

LEMMA FrontLength ==
  ASSUME NEW S, NEW s \in Seq(S), Len(s) > 0
  PROVE  Len(SubSeq(s, 1, Len(s) - 1)) = Len(s) - 1
<1>1. Len(s) \in Nat /\ 1 <= Len(s)
  BY LenProperties
<1>2. \A i \in 1..(Len(s) - 1) : s[i] \in S
  BY <1>1, ElementOfSeq
<1>. DEFINE q == SubSeq(s, 1, Len(s) - 1)
<1>3. Len(q) = IF 1 <= Len(s) - 1 THEN Len(s) - 1 - 1 + 1 ELSE 0
  BY <1>1, <1>2, SubSeqProperties
<1>4. Len(q) = Len(s) - 1
  <2>1. \A l \in Nat : 1 <= l => (IF 1 <= l - 1 THEN l - 1 - 1 + 1 ELSE 0) = l - 1
    OBVIOUS
  <2>. HIDE DEF q
  <2>. QED BY <1>1, <1>3, <2>1, Zenon
<1>. QED BY <1>4

\* What a removal does to the components remembered.
LEMMA RemoveOpen ==
  ASSUME NEW n \in Names, n.depth = Len(n.open)
  PROVE  /\ n.code = <<>> => Remove_Name_Component(n) = n
         /\ n.code # <<>> /\ Len(n.open) > 0 =>
              /\ Remove_Name_Component(n).open = SubSeq(n.open, 1, Len(n.open) - 1)
              /\ Len(Remove_Name_Component(n).open) = Len(n.open) - 1
         /\ n.depth = 0 => Remove_Name_Component(n).open = n.open
         /\ Remove_Name_Component(n).depth = Len(Remove_Name_Component(n).open)
         /\ Remove_Name_Component(n) \in Names
<1>. DEFINE S == [name : Seq(Chars), before : Seq(Chars)]
            o == n.open
            m == Remove_Name_Component(n)
<1>1. o \in Seq(S) /\ n.depth = Len(o) /\ Len(o) \in Nat
  BY LenProperties DEF Names
<1>2. Len(o) > 0 => Len(SubSeq(o, 1, Len(o) - 1)) = Len(o) - 1
  BY <1>1, FrontLength
<1>3. n.code = <<>> => m = n
  BY DEF Remove_Name_Component
<1>4. n.code # <<>> =>
        /\ m.depth = IF n.depth = 0 THEN 0 ELSE n.depth - 1
        /\ m.open = IF n.depth = 0 THEN o ELSE SubSeq(o, 1, Len(o) - 1)
  BY DEF Remove_Name_Component
<1>5. m \in Names
  BY RemoveType
<1>6. CASE n.code = <<>>
  BY <1>1, <1>3, <1>5, <1>6
<1>7. CASE n.code # <<>> /\ n.depth = 0
  <2>1. m.depth = 0 /\ m.open = o /\ Len(o) = 0
    BY <1>1, <1>4, <1>7
  <2>2. ~(Len(n.open) > 0) /\ m.open = n.open /\ m.depth = Len(m.open)
    BY <2>1
  <2>. HIDE DEF m
  <2>. QED BY <1>5, <1>7, <2>2, Zenon DEF m
<1>8. CASE n.code # <<>> /\ n.depth # 0
  <2>1. /\ m.depth = Len(o) - 1 /\ m.open = SubSeq(o, 1, Len(o) - 1)
        /\ Len(o) > 0
    BY <1>1, <1>4, <1>8
  <2>2. Len(m.open) = Len(o) - 1
    BY <1>2, <2>1
  <2>. QED BY <1>1, <1>5, <1>8, <2>1, <2>2
<1>. QED BY <1>6, <1>7, <1>8

LEMMA RemoveDrops ==
  ASSUME NEW n \in Names, n.depth = Len(n.open), n.code # <<>>,
         NEW k \in Nat, Len(n.open) = k + 1
  PROVE  Len(Remove_Name_Component(n).open) = k
<1>1. Len(n.open) > 0 /\ Len(n.open) - 1 = k
  OBVIOUS
<1>. QED BY <1>1, RemoveOpen

LEMMA EndStep ==
  ASSUME CInv, End_Here
  PROVE  CRest'
<1>1. /\ ctl = "client" /\ Calm /\ Height >= 1 /\ Height \in Nat
      /\ stack \in Seq(Values)
      /\ names \in Names /\ Len(names.open) \in Nat /\ names.depth = Len(names.open)
      /\ Mark \in Nat /\ Len(names.open) > Mark
      /\ Mirrors(calls, stack, Len(names.open), Len(calls))
      /\ calls \in Seq(CallType) /\ Len(calls) \in 0..Len(calls)
  <2>1. ctl = "client" /\ Calm
    BY DEF End_Here, Table_End, Lacks, Needs, Running, Calm
  <2>. QED BY <2>1, StateFacts DEF End_Here, OpenHere
<1>2. /\ UNCHANGED <<config, frames, calls>> /\ harmless' = FALSE
      /\ \/ Type_Error("value", "table", Nil) /\ UNCHANGED names
         \/ /\ names' = Remove_Name_Component(names) /\ RemoveRaises(names)
            /\ Raise("Constraint_Error")
         \/ /\ names' = Remove_Name_Component(names) /\ ~ RemoveRaises(names)
            /\ SetStack(Popped) /\ UNCHANGED control
  BY <1>1 DEF End_Here, Table_End, Lacks
<1>3. CASE Type_Error("value", "table", Nil) /\ UNCHANGED names
  BY <1>2, <1>3, Raised DEF Type_Error, Raise
<1>4. CASE /\ names' = Remove_Name_Component(names) /\ RemoveRaises(names)
           /\ Raise("Constraint_Error")
  <2>1. names' = names
    BY <1>1, <1>4, RemoveOpen DEF RemoveRaises
  <2>. QED BY <1>2, <1>4, <2>1, Raised DEF Raise
<1>5. CASE /\ names' = Remove_Name_Component(names) /\ ~ RemoveRaises(names)
           /\ SetStack(Popped) /\ UNCHANGED control
  <2>1. Len(names'.open) = Len(names.open) - 1 /\ names'.depth = Len(names'.open)
    BY <1>1, <1>5, RemoveOpen DEF RemoveRaises
  <2>2. Mirrors(calls, Popped, Len(names'.open), Len(calls))
    BY <1>1, <2>1, MirrorPop DEF Mark, Popped, Height
  <2>. QED BY <1>1, <1>2, <1>5, <2>1, <2>2, Moved DEF control, config
<1>. QED BY <1>2, <1>3, <1>4, <1>5

----------------------------------------------------------------------------
(* Iterations: a turn of the loop that ends in the iterations cs and frames *)
(* fs of the callers, with the names n and the table t on top of base       *)

LEMMA FinishedStep ==
  ASSUME TypeOK, NEW cs, NEW fs, AllGood(cs, fs), NEW n \in Names, NEW base,
         n.depth = Len(n.open), Mirrors(cs, base, Len(n.open), Len(cs)),
         Finished(base, n, fs), calls' = cs, lua' = lua, Idle(lua)
  PROVE  CRest'
<1>1. /\ stack' = base /\ \A j \in Interps \ {lua} : stacks'[j] = stacks[j]
      /\ names' = n /\ frames' = fs /\ ctl' = "client"
  BY StackSet DEF Finished
<1>2. Here'
  <2>1. Mirrors(calls', stack', Len(names'.open), Len(calls'))
    BY <1>1
  <2>2. Idle(lua)'
    BY <1>1 DEF Idle
  <2>. QED BY <2>1, <2>2 DEF Here, Mirrors, Floor, MarkAt, stack
<1>3. Counted'
  BY <1>1 DEF Counted, Mark, MarkAt, Mirrors
<1>4. AllGood(calls, frames)'
  BY <1>1 DEF AllGood
<1>. QED BY <1>1, <1>2, <1>3, <1>4 DEF CRest

LEMMA StoppedStep ==
  ASSUME NEW cs, NEW fs, AllGood(cs, fs), NEW n, n.depth = Len(n.open),
         MarkAt(cs, Len(cs)) <= Len(n.open), Stopped(fs, n), calls' = cs, harmless' = FALSE
  PROVE  CRest'
<1>1. Counted'
  BY DEF Counted, Mark, MarkAt, Stopped
<1>2. AllGood(calls, frames)'
  BY DEF AllGood, Stopped
<1>. QED BY <1>1, <1>2 DEF CRest, Calm, Stopped

LEMMA EnteredStep ==
  ASSUME TypeOK, NEW cs, NEW fs, AllGood(cs, fs), NEW n \in Names, NEW base \in Seq(Values),
         n.depth = Len(n.open), Mirrors(cs, base, Len(n.open), Len(cs)),
         NEW t \in Tables, NEW p \in Indices(t), Entered(base, t, p, n, fs),
         NEW c \in CallType, Iterating(c), c.table = t, c.base = base, Len(c.seen) = p,
         Len(c.entry.open) = Len(n.open), c.mark = Len(names'.open),
         calls' = Append(cs, c), lua' = lua, Idle(lua)
  PROVE  CRest'
<1>. DEFINE K == KeyAt(t, p)
            ds == Append(cs, c)
            s == base \o <<K, ValueAt(t, p)>>
<1>1. PICK f \in Frames :
        /\ f.added => K \in Named
        /\ frames' = Append(fs, f)
        /\ names' = IF f.added THEN Add_Name_Component(n, Label[K]) ELSE n
  BY DEF Entered
<1>2. /\ stack' = s /\ \A j \in Interps \ {lua} : stacks'[j] = stacks[j]
      /\ ctl' = "client"
  BY StackSet DEF Entered
<1>3. Len(n.open) \in Nat /\ s \in Seq(Values)
  <2>1. <<K, ValueAt(t, p)>> \in Seq(Values)
    BY ValueType
  <2>. QED BY <2>1, LenProperties, ConcatProperties DEF Names
<1>4. /\ Len(names'.open) = Len(n.open) + Added(f) /\ names'.depth = Len(names'.open)
      /\ Len(names'.open) \in Nat
  <2>1. CASE f.added
    BY <1>1, <1>3, <2>1, AddOpen, ConstantsOK DEF Added, ConstantsOK
  <2>2. CASE ~ f.added
    BY <1>1, <1>3, <2>2 DEF Added
  <2>. QED BY <2>1, <2>2
<1>5. AllGood(ds, Append(fs, f))
  BY <1>4, CallsPushed
<1>6. /\ ds \in Seq(CallType) /\ Len(ds) = Len(cs) + 1 /\ Len(cs) \in Nat
      /\ ds[Len(ds)] = c
  <2>1. cs \in Seq(CallType) /\ Len(cs) \in Nat
    BY LenProperties DEF AllGood
  <2>. QED BY <2>1, AppendProperties
<1>7. Mirrors(ds, s, c.mark, Len(ds))
  <2>1. Len(ds) \in 1..Len(ds)
    BY <1>6
  <2>. HIDE DEF ds, s
  <2>2. s = c.base \o <<KeyAt(c.table, Len(c.seen)), ValueAt(c.table, Len(c.seen))>>
    BY DEF s
  <2>. QED BY <1>3, <1>6, <2>1, <2>2, MirrorEntry
<1>. HIDE DEF ds, s
<1>8. calls' = ds /\ frames' = Append(fs, f)
  BY <1>1 DEF ds
<1>9. Here'
  <2>1. Mirrors(calls', stack', Len(names'.open), Len(calls'))
    BY <1>2, <1>4, <1>7, <1>8
  <2>2. Idle(lua)'
    BY <1>2 DEF Idle
  <2>. QED BY <2>1, <2>2 DEF Here, Mirrors, Floor, MarkAt, stack
<1>10. Counted'
  <2>1. MarkAt(ds, Len(ds)) <= Len(names'.open)
    BY <1>4, <1>6 DEF MarkAt
  <2>. QED BY <1>4, <1>8, <2>1 DEF Counted, Mark, MarkAt
<1>11. AllGood(calls, frames)'
  BY <1>5, <1>8 DEF AllGood
<1>. QED BY <1>2, <1>9, <1>10, <1>11 DEF CRest

\* What the stack set holds next above base.
LEMMA EnteredStack ==
  ASSUME TypeOK, NEW base \in Seq(Values), NEW t \in Tables, NEW p \in Indices(t), NEW n, NEW fs,
         Entered(base, t, p, n, fs), lua' = lua
  PROVE  stacks'[lua][Len(base) + 1] = KeyAt(t, p) /\ KeyAt(t, p) \in Values
<1>. DEFINE K == KeyAt(t, p)
            V == ValueAt(t, p)
<1>1. K \in Values /\ V \in Values
  BY ValueType
<1>2. stacks'[lua] = base \o <<K, V>>
  BY StackSet DEF Entered, stack
<1>. HIDE DEF K, V
<1>3. (base \o <<K, V>>)[Len(base) + 1] = K
  BY <1>1
<1>. QED BY <1>1, <1>2, <1>3 DEF K

LEMMA EnteredNames ==
  ASSUME NEW base, NEW t, NEW p, NEW n, NEW fs \in Seq(Frames), Entered(base, t, p, n, fs)
  PROVE  Len(frames') = Len(fs) + 1
BY AppendProperties DEF Entered

LEMMA IterateFacts ==
  ASSUME CInv, Iterate_Here
  PROVE  /\ TypeOK /\ Idle(lua) /\ harmless' = FALSE
         /\ Height >= 1 /\ Height \in Nat /\ stack \in Seq(Values)
         /\ names \in Names /\ Len(names.open) \in Nat /\ names.depth = Len(names.open)
         /\ Mirrors(calls, stack, Len(names.open), Len(calls))
         /\ MarkAt(calls, Len(calls)) <= Len(names.open)
         /\ calls \in Seq(CallType) /\ AllGood(calls, frames)
         /\ frames \in Seq(Frames) /\ Len(frames) \in Nat
<1>1. Calm
  BY DEF Iterate_Here, Table_Iterate, Lacks, Needs, Running, Calm
<1>2. harmless' = FALSE
  BY DEF Iterate_Here
<1>. QED BY <1>1, <1>2, StateFacts, LenProperties DEF Here, CInv, CRest, Mark

\* Table_Iterate is called on no table, the table is empty, its first key is a
\* number no Integer holds, or Process is called for the first entry.
LEMMA IterateCases ==
  ASSUME CInv, Iterate_Here
  PROVE  /\ lua' = lua
         /\ \/ ctl' = "raising" /\ UNCHANGED <<names, frames, calls>>
            \/ Finished(stack, names, frames) /\ calls' = calls
            \/ /\ Top \in Tables /\ Top = stack[Len(stack)] /\ 1 \in Indices(Top)
               /\ Entered(stack, Top, 1, names, frames) /\ calls' = Append(calls, Begin)
<1>1. /\ Height >= 1 /\ Height \in Nat /\ stack \in Seq(Values) /\ TypeOK
      /\ frames \in Seq(Frames) /\ Len(frames) \in Nat
  BY IterateFacts
<1>2. /\ frames' = frames => calls' = calls
      /\ Len(frames') = Len(frames) + 1 => calls' = Append(calls, Begin)
  BY <1>1 DEF Iterate_Here
<1>3. CASE Tag[Top] # "table"
  <2>1. Type_Error("value", "table", Nil) /\ UNCHANGED <<lua, names, frames>>
    BY <1>1, <1>3 DEF Iterate_Here, Table_Iterate, Lacks, config
  <2>. QED BY <1>2, <2>1 DEF Type_Error, Raise
<1>4. CASE Tag[Top] = "table"
  <2>1. LoopTurn(Append(stack, Nil), names, frames)
    BY <1>1, <1>4 DEF Iterate_Here, Table_Iterate, Lacks
  <2>2. Top \in Tables /\ stack # <<>> /\ Top = stack[Len(stack)]
    <3>1. Top \in Values
      BY <1>1, StackType
    <3>. QED BY <1>1, <1>4, <3>1 DEF Tables, Top, Height
  <2>3. /\ lua' = lua
        /\ \/ Finished(stack, names, frames)
           \/ Stopped(frames, names)
           \/ 1 \in Indices(Top) /\ Entered(stack, Top, 1, names, frames)
    BY <1>1, <2>1, <2>2, LoopStep
  <2>4. Entered(stack, Top, 1, names, frames) => Len(frames') = Len(frames) + 1
    BY <1>1, EnteredNames
  <2>. QED BY <1>2, <2>2, <2>3, <2>4 DEF Finished, Stopped
<1>. QED BY <1>3, <1>4

LEMMA IterateStep ==
  ASSUME CInv, TypeOK', Iterate_Here
  PROVE  CRest'
<1>1. CASE ctl' = "raising" /\ UNCHANGED <<names, frames, calls>>
  BY <1>1, IterateFacts, Raised
<1>2. CASE Finished(stack, names, frames) /\ calls' = calls
  BY <1>2, IterateFacts, IterateCases, FinishedStep
<1>3. CASE /\ Top \in Tables /\ Top = stack[Len(stack)] /\ 1 \in Indices(Top)
           /\ Entered(stack, Top, 1, names, frames) /\ calls' = Append(calls, Begin)
  <2>. DEFINE c == Begin
  <2>1. lua' = lua /\ stacks'[lua][Height + 1] = KeyAt(Top, 1) /\ KeyAt(Top, 1) \in Values
    BY <1>3, IterateFacts, IterateCases, EnteredStack DEF Height
  <2>2. names' \in Names /\ Len(names'.open) \in Nat
    BY LenProperties DEF TypeOK, Names
  <2>3. /\ c.table = Top /\ c.base = stack /\ c.entry = names
        /\ c.seen = <<KeyAt(Top, 1)>> /\ c.mark = Len(names'.open)
    BY <2>1 DEF Begin
  <2>4. c \in CallType
    BY <1>3, <2>1, <2>2, IterateFacts DEF Begin, CallType
  <2>. HIDE DEF c
  <2>5. Len(c.seen) = 1 /\ c.seen[1] = KeyAt(Top, 1)
    BY <2>3
  <2>6. Iterating(c)
    BY <1>3, <2>3, <2>5, IterateFacts DEF Iterating, Height
  <2>7. calls' = Append(calls, c)
    BY <1>3 DEF c
  <2>. QED BY <1>3, <2>1, <2>3, <2>4, <2>5, <2>6, <2>7, IterateFacts, EnteredStep
<1>. QED BY <1>1, <1>2, <1>3, IterateCases

\* The callers' iterations, where the iteration that runs was called.
LEMMA LeaveFacts ==
  ASSUME CInv, calls # <<>>
  PROVE  /\ Len(calls) \in 1..Len(calls) /\ frames # <<>> /\ Call \in CallType
         /\ Call = calls[Len(calls)] /\ Innermost = frames[Len(frames)]
         /\ AllGood(Outer, Callers)
         /\ Len(Callers) = Len(frames) - 1
         /\ Call.entry \in Names /\ Len(Call.entry.open) \in Nat
         /\ Mark = Len(Call.entry.open) + Added(Innermost)
         /\ Mirrors(Outer, Call.base, Len(Call.entry.open), Len(Outer))
         /\ MarkAt(Outer, Len(Outer)) <= Len(Call.entry.open)
<1>1. /\ Len(calls) \in 1..Len(calls) /\ Len(calls) # 0 /\ Len(frames) = Len(calls)
      /\ AllGood(calls, frames) /\ frames # <<>> /\ calls \in Seq(CallType)
  BY StateFacts, EmptySeq DEF CInv, CRest
<1>2. Call = calls[Len(calls)] /\ Innermost = frames[Len(frames)]
  BY DEF Call, Innermost
<1>3. Good(calls, frames, Len(calls))
  BY <1>1 DEF AllGood
<1>4. Call \in CallType /\ Call.entry \in Names /\ Len(Call.entry.open) \in Nat
  <2>1. Len(calls) \in 0..Len(calls) /\ Len(calls) > 0
    BY <1>1
  <2>2. Call \in CallType /\ Call.entry \in Names
    BY <1>1, <2>1, CallFacts DEF Call
  <2>. QED BY <2>2, LenProperties DEF Names
<1>5. /\ AllGood(Outer, Callers) /\ Len(Outer) = Len(calls) - 1
      /\ \A i \in 1..(Len(calls) - 1) : Outer[i] = calls[i]
  BY <1>1, CallsPopped DEF Outer, Callers
<1>6. Mark = Len(Call.entry.open) + Added(Innermost)
  BY <1>1, <1>2, <1>3 DEF Good, Mark, MarkAt
<1>7. Mirrors(Outer, Call.base, Len(Call.entry.open), Len(Outer))
  <2>1. Mirrors(calls, Call.base, Len(Call.entry.open), Len(Outer))
    BY <1>2, <1>3, <1>5 DEF Good
  <2>2. Len(Outer) \in Nat /\ (Len(Outer) # 0 => calls[Len(Outer)] = Outer[Len(Outer)])
    BY <1>1, <1>5
  <2>. QED BY <2>1, <2>2, SameMirror
<1>8. MarkAt(Outer, Len(Outer)) <= Len(Call.entry.open)
  BY <1>7 DEF Mirrors
<1>9. Len(Callers) = Len(frames) - 1
  BY <1>1, <1>5 DEF AllGood
<1>. QED BY <1>1, <1>2, <1>4, <1>5, <1>6, <1>7, <1>8, <1>9

\* What Process leaves when it returns: the entry on top of the stack and, unless
\* the removal raises, as many components as at the call.
LEMMA ReturnFacts ==
  ASSUME CInv, Return_Here
  PROVE  /\ TypeOK /\ Idle(lua) /\ harmless' = FALSE
         /\ frames \in Seq(Frames) /\ Len(frames) \in Nat
         /\ Height = Len(Call.base) + 2 /\ Len(Call.base) \in Nat
         /\ Call.table \in Tables /\ Len(Call.seen) \in Indices(Call.table)
         /\ StackAfter = Append(Call.base, KeyAt(Call.table, Len(Call.seen)))
         /\ Iterating(Call) /\ Call \in CallType
         /\ AllGood(Outer, Callers) /\ Len(Callers) = Len(frames) - 1
         /\ Call.entry \in Names /\ Len(Call.entry.open) \in Nat
         /\ Mirrors(Outer, Call.base, Len(Call.entry.open), Len(Outer))
         /\ Callers \in Seq(Frames)
         /\ NamesAfter \in Names /\ NamesAfter.depth = Len(NamesAfter.open)
         /\ Len(Call.entry.open) <= Len(NamesAfter.open)
         /\ ~(Innermost.added /\ RemoveRaises(names)) =>
              Len(NamesAfter.open) = Len(Call.entry.open)
<1>1. /\ ctl = "client" /\ Calm /\ TypeOK /\ Idle(lua) /\ Height \in Nat
      /\ names \in Names /\ Len(names.open) \in Nat /\ names.depth = Len(names.open)
      /\ frames \in Seq(Frames) /\ Len(frames) \in Nat
      /\ AtEntry /\ calls # <<>> /\ harmless' = FALSE
  <2>1. ctl = "client" /\ Calm
    BY DEF Return_Here, Process_Returns, Running, Calm
  <2>. QED BY <2>1, StateFacts, LenProperties DEF Here, CInv, Return_Here, AtEntry
<1>2. /\ Height = Len(Call.base) + 2 /\ Len(Call.base) \in Nat
      /\ Call.table \in Tables /\ Len(Call.seen) \in Indices(Call.table)
      /\ StackAfter = Append(Call.base, KeyAt(Call.table, Len(Call.seen)))
      /\ Iterating(Call) /\ Len(names.open) = Call.mark /\ Call \in CallType
  BY <1>1, EntryHere
<1>3. /\ AllGood(Outer, Callers) /\ Len(Callers) = Len(frames) - 1 /\ frames # <<>>
      /\ Call.entry \in Names /\ Len(Call.entry.open) \in Nat
      /\ Len(names.open) = Len(Call.entry.open) + Added(Innermost)
      /\ Mirrors(Outer, Call.base, Len(Call.entry.open), Len(Outer))
      /\ MarkAt(Outer, Len(Outer)) <= Len(Call.entry.open)
      /\ Callers \in Seq(Frames) /\ NamesAfter \in Names
  <2>1. Len(names.open) = Mark
    BY <1>1, StateFacts DEF AtEntry, OpenHere
  <2>2. Callers \in Seq(Frames) /\ NamesAfter \in Names
    BY <1>1, LeaveFacts, FramesType
  <2>. QED BY <1>1, <2>1, <2>2, LeaveFacts
<1>4. /\ NamesAfter.depth = Len(NamesAfter.open)
      /\ Innermost.added /\ RemoveRaises(names) => Len(NamesAfter.open) = Len(names.open)
      /\ ~(Innermost.added /\ RemoveRaises(names)) =>
           Len(NamesAfter.open) = Len(Call.entry.open)
      /\ Len(Call.entry.open) <= Len(names.open)
  <2>1. CASE Innermost.added
    <3>1. Len(names.open) = Len(Call.entry.open) + 1 /\ Len(names.open) > 0
          /\ NamesAfter = Remove_Name_Component(names)
      BY <1>1, <1>3, <2>1 DEF Added, NamesAfter
    <3>2. RemoveRaises(names) => names.code = <<>>
      BY <1>1, <3>1 DEF RemoveRaises
    <3>3. ~RemoveRaises(names) => names.code # <<>>
      BY DEF RemoveRaises
    <3>4. NamesAfter.depth = Len(NamesAfter.open)
      BY <1>1, <3>1, RemoveOpen
    <3>5. RemoveRaises(names) => Len(NamesAfter.open) = Len(names.open)
      BY <1>1, <3>1, <3>2, RemoveOpen
    <3>6. ~RemoveRaises(names) => Len(NamesAfter.open) = Len(Call.entry.open)
      BY <1>1, <1>3, <3>1, <3>3, RemoveDrops
    <3>. QED BY <1>1, <1>3, <2>1, <3>1, <3>4, <3>5, <3>6
  <2>2. CASE ~Innermost.added
    BY <1>1, <1>3, <2>2 DEF Added, NamesAfter
  <2>. QED BY <2>1, <2>2
<1>. QED BY <1>1, <1>2, <1>3, <1>4

\* Process returns: the removal or the conversion of the next key raises, the
\* table is exhausted, or Process is called for the next entry.
LEMMA ReturnCases ==
  ASSUME CInv, Return_Here
  PROVE  /\ lua' = lua
         /\ \/ Stopped(Callers, NamesAfter) /\ calls' = Outer
            \/ /\ Finished(Call.base, NamesAfter, Callers) /\ calls' = Outer
               /\ Len(Call.seen) = Len(Entries[Call.table])
               /\ ~(Innermost.added /\ RemoveRaises(names))
            \/ /\ Len(Call.seen) + 1 \in Indices(Call.table)
               /\ Entered(Call.base, Call.table, Len(Call.seen) + 1, NamesAfter, Callers)
               /\ calls' = Append(Outer, Turn)
               /\ ~(Innermost.added /\ RemoveRaises(names))
<1>1. /\ Len(frames') = Len(frames) => calls' = Append(Outer, Turn)
      /\ Len(frames') # Len(frames) => calls' = Outer
      /\ Len(frames) \in Nat /\ Len(Callers) = Len(frames) - 1
      /\ Height \in Nat /\ Height >= 1 /\ TypeOK
  <2>1. /\ Len(frames') = Len(frames) => calls' = Append(Outer, Turn)
        /\ Len(frames') # Len(frames) => calls' = Outer
    BY DEF Return_Here
  <2>2. /\ Len(frames) \in Nat /\ Len(Callers) = Len(frames) - 1
        /\ Height = Len(Call.base) + 2 /\ Len(Call.base) \in Nat /\ TypeOK
    BY ReturnFacts, Zenon
  <2>. QED BY <2>1, <2>2
<1>2. CASE /\ Innermost.added /\ RemoveRaises(names) /\ names' = NamesAfter
           /\ frames' = Callers /\ Raise("Constraint_Error") /\ UNCHANGED config
  BY <1>1, <1>2 DEF Stopped, Raise, config
<1>3. CASE /\ ~(Innermost.added /\ RemoveRaises(names))
           /\ LoopTurn(StackAfter, NamesAfter, Callers)
  <2>. DEFINE base == Call.base
              t == Call.table
              p == Len(Call.seen)
  <2>1. /\ base \in Seq(Values) /\ base # <<>> /\ t = base[Len(base)] /\ p \in Nat
        /\ t \in Tables /\ p \in Indices(t)
    <3>1. base \in Seq(Values) /\ Call.seen \in Seq(Values)
      BY ReturnFacts, Zenon DEF CallType
    <3>. QED BY <3>1, ReturnFacts, LenProperties DEF Iterating
  <2>2. LoopTurn(Append(base, KeyAt(t, p)), NamesAfter, Callers)
    BY <1>3, ReturnFacts
  <2>3. Callers \in Seq(Frames)
    BY ReturnFacts
  <2>. HIDE DEF base, t, p
  <2>4. /\ lua' = lua
        /\ \/ p = Len(Entries[t]) /\ Finished(base, NamesAfter, Callers)
           \/ Stopped(Callers, NamesAfter)
           \/ p + 1 \in Indices(t) /\ Entered(base, t, p + 1, NamesAfter, Callers)
    BY <1>1, <2>1, <2>2, LoopStep
  <2>5. Finished(base, NamesAfter, Callers) \/ Stopped(Callers, NamesAfter) => calls' = Outer
    BY <1>1 DEF Finished, Stopped
  <2>6. Entered(base, t, p + 1, NamesAfter, Callers) => calls' = Append(Outer, Turn)
    <3>1. Entered(base, t, p + 1, NamesAfter, Callers) => Len(frames') = Len(Callers) + 1
      BY <2>3, EnteredNames
    <3>. QED BY <1>1, <3>1
  <2>. QED BY <1>3, <2>4, <2>5, <2>6 DEF base, t, p
<1>. QED BY <1>1, <1>2, <1>3 DEF Return_Here, Process_Returns

LEMMA ReturnStep ==
  ASSUME CInv, TypeOK', Return_Here
  PROVE  CRest'
<1>. DEFINE base == Call.base
            t == Call.table
            p == Len(Call.seen)
            n == NamesAfter
<1>1. /\ TypeOK /\ Idle(lua) /\ harmless' = FALSE /\ AllGood(Outer, Callers)
      /\ n \in Names /\ n.depth = Len(n.open) /\ Len(Call.entry.open) \in Nat
      /\ Len(Call.entry.open) <= Len(n.open)
  BY ReturnFacts
<1>2. CASE Stopped(Callers, n) /\ calls' = Outer
  <2>1. MarkAt(Outer, Len(Outer)) <= Len(n.open)
    <3>1. MarkAt(Outer, Len(Outer)) <= Len(Call.entry.open)
      BY ReturnFacts DEF Mirrors
    <3>2. MarkAt(Outer, Len(Outer)) \in Nat
      <4>1. Outer \in Seq(CallType) /\ Len(Outer) \in 0..Len(Outer)
        BY <1>1, LenProperties DEF AllGood
      <4>. QED BY <4>1, CallFacts
    <3>3. Len(n.open) \in Nat
      BY <1>1, LenProperties DEF Names
    <3>. QED BY <1>1, <3>1, <3>2, <3>3
  <2>. QED BY <1>1, <1>2, <2>1, StoppedStep
<1>3. ASSUME ~(Innermost.added /\ RemoveRaises(names))
      PROVE  /\ Mirrors(Outer, base, Len(n.open), Len(Outer))
             /\ Len(Call.entry.open) = Len(n.open)
  BY <1>3, ReturnFacts
<1>4. CASE /\ Finished(base, n, Callers) /\ calls' = Outer
           /\ ~(Innermost.added /\ RemoveRaises(names))
  BY <1>1, <1>3, <1>4, ReturnCases, FinishedStep
<1>5. CASE /\ p + 1 \in Indices(t) /\ Entered(base, t, p + 1, n, Callers)
           /\ calls' = Append(Outer, Turn)
           /\ ~(Innermost.added /\ RemoveRaises(names))
  <2>. DEFINE c == Turn
              e == KeyAt(t, p + 1)
  <2>1. /\ base \in Seq(Values) /\ Call.seen \in Seq(Values) /\ t \in Tables /\ p \in Nat
        /\ t = base[Len(base)] /\ Len(base) >= 1 /\ Call \in CallType
        /\ \A j \in 1..p : Call.seen[j] = KeyAt(t, j)
    <3>1. base \in Seq(Values) /\ Call.seen \in Seq(Values) /\ Call \in CallType
      BY ReturnFacts, Zenon DEF CallType
    <3>. QED BY <3>1, ReturnFacts, LenProperties DEF Iterating
  <2>2. lua' = lua /\ names' \in Names
    BY ReturnCases DEF TypeOK
  <2>3. stacks'[lua][Height - 1] = e /\ e \in Values
    <3>1. Height - 1 = Len(base) + 1
      BY ReturnFacts
    <3>. HIDE DEF base, t, p, n
    <3>. QED BY <1>1, <1>5, <2>1, <2>2, <3>1, EnteredStack
  <2>4. Len(names'.open) \in Nat
    BY <2>2, LenProperties DEF Names
  <2>5. /\ c.table = t /\ c.base = base /\ c.entry = Call.entry
        /\ c.seen = Append(Call.seen, e) /\ c.mark = Len(names'.open)
    BY <2>1, <2>3 DEF Turn, CallType
  <2>6. c \in CallType
    <3>1. Append(Call.seen, e) \in Seq(Values)
      BY <2>1, <2>3, AppendProperties
    <3>2. c = [Call EXCEPT !.seen = Append(Call.seen, e), !.mark = Len(names'.open)]
      BY <2>3, Zenon DEF Turn
    <3>. HIDE DEF c, e
    <3>. QED BY <2>1, <2>4, <3>1, <3>2 DEF CallType
  <2>. HIDE DEF c
  <2>7. /\ Len(c.seen) = p + 1 /\ c.seen[p + 1] = e
        /\ \A j \in 1..p : c.seen[j] = Call.seen[j]
    <3>. HIDE DEF e
    <3>. QED BY <2>1, <2>3, <2>5, AppendProperties
  <2>8. Iterating(c)
    <3>1. \A j \in 1..(p + 1) : c.seen[j] = KeyAt(t, j)
      BY <2>1, <2>7
    <3>. HIDE DEF base, t, p
    <3>. QED BY <1>5, <2>1, <2>5, <2>7, <3>1 DEF Iterating
  <2>9. calls' = Append(Outer, c)
    BY <1>5 DEF c
  <2>. HIDE DEF base, t, p, n
  <2>10. Mirrors(Outer, base, Len(n.open), Len(Outer)) /\ Len(c.entry.open) = Len(n.open)
    BY <1>3, <1>5, <2>5
  <2>11. /\ TypeOK /\ AllGood(Outer, Callers) /\ lua' = lua /\ Idle(lua)
         /\ n \in Names /\ base \in Seq(Values) /\ n.depth = Len(n.open)
         /\ t \in Tables /\ p + 1 \in Indices(t) /\ Entered(base, t, p + 1, n, Callers)
    BY <1>1, <1>5, <2>1, <2>2
  <2>12. /\ c.table = t /\ c.base = base /\ Len(c.seen) = p + 1 /\ c.mark = Len(names'.open)
    BY <2>5, <2>7
  <2>. QED BY <2>6, <2>8, <2>9, <2>10, <2>11, <2>12, EnteredStep
<1>. QED BY <1>2, <1>4, <1>5, ReturnCases

\* The handler leaves as many components as at the call, or more.
LEMMA RaiseFacts ==
  ASSUME CInv, Raise_Here
  PROVE  /\ calls # <<>> /\ ctl' = "raising" /\ frames' = Callers
         /\ calls' = Outer /\ harmless' = FALSE
         /\ names'.depth = Len(names'.open) /\ Len(names'.open) \in Nat
         /\ Len(Call.entry.open) <= Len(names'.open) /\ Len(Call.entry.open) \in Nat
<1>1. /\ ctl = "raising" /\ ctl' = ctl /\ frames # <<>> /\ frames' = Callers
      /\ calls' = Outer /\ harmless' = FALSE
      /\ \/ Handler /\ names' = Remove_Name_Component(names)
         \/ ~Handler /\ names' = names
  BY DEF Raise_Here, Process_Raises
<1>2. /\ names \in Names /\ Len(names.open) \in Nat /\ names.depth = Len(names.open)
      /\ Mark \in Nat /\ Mark <= Len(names.open) /\ calls # <<>>
  BY <1>1, StateFacts, EmptySeq, LenProperties
<1>3. /\ AllGood(Outer, Callers) /\ Len(Call.entry.open) \in Nat
      /\ Mark = Len(Call.entry.open) + Added(Innermost)
      /\ MarkAt(Outer, Len(Outer)) <= Len(Call.entry.open)
  BY <1>2, LeaveFacts
<1>4. /\ names'.depth = Len(names'.open)
      /\ Len(Call.entry.open) <= Len(names'.open) /\ Len(names'.open) \in Nat
  <2>1. CASE Handler /\ names' = Remove_Name_Component(names)
    <3>1. Len(names.open) >= Len(Call.entry.open) + 1
      BY <1>2, <1>3, <2>1 DEF Handler, Added
    <3>2. names'.depth = Len(names'.open) /\ Len(names'.open) \in Nat
      BY <1>2, <2>1, RemoveOpen, LenProperties DEF Names
    <3>3. Len(names'.open) = Len(names.open) \/ Len(names'.open) = Len(names.open) - 1
      <4>1. CASE names.code = <<>>
        BY <1>2, <2>1, <4>1, RemoveOpen
      <4>2. CASE names.code # <<>>
        BY <1>2, <1>3, <2>1, <3>1, <4>2, RemoveOpen
      <4>. QED BY <4>1, <4>2
    <3>. QED BY <1>2, <1>3, <3>1, <3>2, <3>3
  <2>2. CASE names' = names
    <3>1. Added(Innermost) \in Nat
      BY DEF Added
    <3>2. Len(Call.entry.open) <= Len(names.open)
      BY <1>2, <1>3, <3>1
    <3>. QED BY <1>2, <2>2, <3>2
  <2>. QED BY <1>1, <2>1, <2>2
<1>. QED BY <1>1, <1>2, <1>3, <1>4

LEMMA RaiseStep ==
  ASSUME CInv, Raise_Here
  PROVE  CRest'
<1>1. /\ calls # <<>> /\ ctl' = "raising" /\ frames' = Callers
      /\ calls' = Outer /\ harmless' = FALSE
      /\ names'.depth = Len(names'.open) /\ Len(names'.open) \in Nat
      /\ Len(Call.entry.open) <= Len(names'.open) /\ Len(Call.entry.open) \in Nat
  BY RaiseFacts
<1>2. AllGood(Outer, Callers) /\ MarkAt(Outer, Len(Outer)) <= Len(Call.entry.open)
  BY <1>1, LeaveFacts
<1>3. MarkAt(Outer, Len(Outer)) <= Len(names'.open)
  <2>1. MarkAt(Outer, Len(Outer)) \in Nat
    <3>1. Outer \in Seq(CallType) /\ Len(Outer) \in 0..Len(Outer)
      BY <1>2, LenProperties DEF AllGood
    <3>. QED BY <3>1, CallFacts
  <2>. QED BY <1>1, <1>2, <2>1
<1>4. Counted'
  BY <1>1, <1>3 DEF Counted, Mark, MarkAt
<1>5. AllGood(calls, frames)'
  BY <1>1, <1>2 DEF AllGood
<1>. QED BY <1>1, <1>4, <1>5 DEF CRest, Calm

----------------------------------------------------------------------------
(* The invariant, and what follows from it for every script *)

LEMMA ClientInit == CInit => CRest
<1>. SUFFICES ASSUME CInit PROVE CRest
  OBVIOUS
<1>1. /\ calls = <<>> /\ frames = <<>> /\ ctl = "client" /\ names.open = <<>>
      /\ names.depth = 0 /\ lua \in Interps /\ stacks = [i \in Interps |-> <<Start[i]>>]
  BY DEF CInit, Init
<1>2. AllGood(calls, frames)
  BY <1>1 DEF AllGood
<1>3. Counted
  BY <1>1 DEF Counted, Mark, MarkAt
<1>4. Here
  <2>1. \A i \in Interps : Len(stacks[i]) = 1
    BY <1>1
  <2>2. Len(names.open) = 0 /\ Len(calls) = 0 /\ Len(stack) = 1
    BY <1>1, <2>1 DEF stack
  <2>3. Mirrors(calls, stack, 0, 0)
    BY <2>2 DEF Mirrors, Floor, MarkAt
  <2>. QED BY <1>1, <2>1, <2>2, <2>3 DEF Here, Idle
<1>. QED BY <1>1, <1>2, <1>3, <1>4 DEF CRest

LEMMA ClientNext ==
  ASSUME CInv, [CNext]_cvars
  PROVE  CInv'
<1>1. TypeOK'
  BY StepIsStep, NextType DEF CInv
<1>2. CASE Lookup_Here
  BY <1>1, <1>2, LookupStep DEF CInv
<1>3. CASE Local_Here
  BY <1>1, <1>3, LocalStep DEF CInv
<1>4. CASE Start_Here
  BY <1>1, <1>4, StartStep DEF CInv
<1>5. CASE End_Here
  BY <1>1, <1>5, EndStep DEF CInv
<1>6. CASE Iterate_Here
  BY <1>1, <1>6, IterateStep DEF CInv
<1>7. CASE Return_Here
  BY <1>1, <1>7, ReturnStep DEF CInv
<1>8. CASE Raise_Here
  BY <1>1, <1>8, RaiseStep DEF CInv
<1>9. CASE Handle_Here
  BY <1>1, <1>9, HandleStep DEF CInv
<1>10. CASE Configure_Here
  BY <1>1, <1>10, ConfigureStep DEF CInv
<1>11. CASE Client_Stops /\ UNCHANGED <<calls, harmless>>
  BY <1>1, <1>11, StopStep DEF CInv
<1>12. CASE UNCHANGED cvars
  <2>1. UNCHANGED <<lua, names, stacks, frames, calls, ctl, harmless>>
    BY <1>12 DEF cvars
  <2>2. CRest'
    BY <2>1, Unmoved DEF CInv, CRest, Calm
  <2>. QED BY <1>1, <2>2 DEF CInv
<1>. QED BY <1>2, <1>3, <1>4, <1>5, <1>6, <1>7, <1>8, <1>9, <1>10, <1>11, <1>12 DEF CNext

LEMMA ClientInvariant == CSpec => []CInv
<1>1. Init => TypeOK
  BY InitType
<1>2. CInit => CInv
  BY <1>1, ClientInit DEF CInit, CInv
<1>3. CInv /\ [CNext]_cvars => CInv'
  BY ClientNext
<1>. QED BY <1>2, <1>3, PTL DEF CSpec

\* A careful client never makes the Lua library read a slot that is not there,
\* index what is no table or call lua_next on what is no key, for every script.
THEOREM ClientIsDefined == CSpec => []NeverUndefined
<1>1. CInv => NeverUndefined
  BY DEF CInv, CRest, NeverUndefined
<1>. QED BY <1>1, ClientInvariant, PTL

\* Where a careful client's code runs, the stack is the one the traversal has
\* built, for every script, whatever was raised and handled before.
THEOREM StackIsPath == CSpec => []StackMirrorsPath
<1>1. CInv => StackMirrorsPath
  <2>. SUFFICES ASSUME CInv, ctl = "client" PROVE StackMirrorsPath
    BY DEF StackMirrorsPath
  <2>1. Mirrors(calls, stack, Len(names.open), Len(calls)) /\ Len(calls) = Len(frames)
    BY StateFacts DEF Calm
  <2>2. \A i \in 1..Len(calls) : Mirrors(calls, calls[i].base, Len(calls[i].entry.open), i - 1)
    BY DEF CInv, CRest, AllGood, Good
  <2>. QED BY <2>1, <2>2 DEF StackMirrorsPath
<1>. QED BY <1>1, ClientInvariant, PTL

----------------------------------------------------------------------------
(* When every key is plain the names are restored as well *)

NRest ==
  /\ GoodNames(names)
  /\ \A i \in 1..Len(calls) :
       /\ GoodNames(calls[i].entry) /\ Within(calls[i].entry, names)
       /\ \A j \in i..Len(calls) : Within(calls[i].entry, calls[j].entry)

LEMMA WithinSame ==
  ASSUME NEW n, NEW m, GoodNames(n), GoodNames(m), Within(n, m), Len(n.open) = Len(m.open)
  PROVE  n = m
<1>. DEFINE S == [name : Seq(Chars), before : Seq(Chars)]
<1>1. /\ n \in Names /\ m \in Names /\ n.depth = Len(n.open) /\ m.depth = Len(m.open)
      /\ n.code = CodeUpTo(n, Len(n.open)) /\ m.code = CodeUpTo(m, Len(m.open))
      /\ n.open \in Seq(S) /\ m.open \in Seq(S)
  BY DEF GoodNames, Names
<1>2. n.open = m.open
  <2>. HIDE DEF S
  <2>. QED BY <1>1, SeqEqual DEF Within
<1>3. n.code = m.code
  BY <1>1, <1>2 DEF CodeUpTo
<1>. QED BY <1>1, <1>2, <1>3 DEF Names

LEMMA WithinTrans ==
  ASSUME NEW n \in Names, NEW m \in Names, NEW k \in Names, Within(n, m), Within(m, k)
  PROVE  Within(n, k)
<1>1. Len(n.open) \in Nat /\ Len(m.open) \in Nat /\ Len(k.open) \in Nat
  BY LenProperties DEF Names
<1>. QED BY <1>1 DEF Within

LEMMA WithinSelf ==
  ASSUME NEW n \in Names
  PROVE  Within(n, n)
<1>1. Len(n.open) \in Nat
  BY LenProperties DEF Names
<1>. QED BY <1>1 DEF Within

LEMMA WithinAdd ==
  ASSUME NEW n \in Names, NEW name \in Seq(Chars)
  PROVE  Within(n, Add_Name_Component(n, name))
<1>. DEFINE S == [name : Seq(Chars), before : Seq(Chars)]
            e == [name |-> name, before |-> n.code]
            o == n.open
<1>1. o \in Seq(S) /\ e \in S
  BY DEF Names
<1>2. Add_Name_Component(n, name).open = Append(o, e)
  BY DEF Add_Name_Component
<1>. HIDE DEF S, e, o
<1>3. /\ Len(Append(o, e)) = Len(o) + 1 /\ Len(o) \in Nat
      /\ \A j \in 1..Len(o) : Append(o, e)[j] = o[j]
  BY <1>1, AppendProperties, LenProperties
<1>. QED BY <1>2, <1>3 DEF Within, o

LEMMA WithinRemove ==
  ASSUME NEW n \in Names, n.depth = Len(n.open), NEW e \in Names, Within(e, n),
         Len(e.open) <= Len(Remove_Name_Component(n).open)
  PROVE  Within(e, Remove_Name_Component(n))
<1>. DEFINE S == [name : Seq(Chars), before : Seq(Chars)]
            o == n.open
            m == Remove_Name_Component(n)
<1>1. o \in Seq(S) /\ Len(o) \in Nat /\ Len(e.open) \in Nat /\ n.depth = Len(o)
  BY LenProperties DEF Names
<1>2. CASE m.open = o
  BY <1>2 DEF Within
<1>3. CASE m.open = SubSeq(o, 1, Len(o) - 1) /\ Len(o) > 0
  <2>1. Len(m.open) = Len(o) - 1
    BY <1>1, <1>3, FrontLength
  <2>2. \A j \in 1..(Len(o) - 1) : m.open[j] = o[j]
    <3>. HIDE DEF o, S
    <3>. QED BY <1>1, <1>3
  <2>3. Len(e.open) <= Len(o) - 1 /\ \A j \in 1..Len(e.open) : o[j] = e.open[j]
    BY <2>1 DEF Within
  <2>. HIDE DEF o, m
  <2>4. \A j \in 1..Len(e.open) : m.open[j] = e.open[j]
    BY <1>1, <2>2, <2>3
  <2>. QED BY <2>1, <2>3, <2>4 DEF Within, m
<1>4. m.open = o \/ (m.open = SubSeq(o, 1, Len(o) - 1) /\ Len(o) > 0)
  BY <1>1 DEF Remove_Name_Component
<1>. QED BY <1>2, <1>3, <1>4

\* Iterations that go on keep the names they began with, within the names left.
LEMMA NamesKept ==
  ASSUME CInv, NRest, GoodNames(names'), Len(calls') \in Nat, Len(calls') <= Len(calls),
         \A i \in 1..Len(calls') : /\ calls'[i].entry = calls[i].entry
                                   /\ Within(calls[i].entry, names')
  PROVE  NRest'
<1>1. Len(calls) \in Nat
  BY StateFacts
<1>2. ASSUME NEW i \in 1..Len(calls')
      PROVE  /\ GoodNames(calls'[i].entry) /\ Within(calls'[i].entry, names')
             /\ \A j \in i..Len(calls') : Within(calls'[i].entry, calls'[j].entry)
  <2>1. i \in 1..Len(calls) /\ \A j \in i..Len(calls') : j \in i..Len(calls) /\ j \in 1..Len(calls')
    BY <1>1, <1>2
  <2>2. /\ GoodNames(calls[i].entry)
        /\ \A j \in i..Len(calls) : Within(calls[i].entry, calls[j].entry)
    BY <2>1 DEF NRest
  <2>. QED BY <1>2, <2>1, <2>2
<1>. QED BY <1>2 DEF NRest, GoodNames, Within, CodeUpTo

LEMMA NamesPushed ==
  ASSUME CInv, NRest, GoodNames(names'), Within(names, names'),
         NEW c \in CallType, c.entry = names, calls' = Append(calls, c)
  PROVE  NRest'
<1>1. /\ Len(calls) \in Nat /\ calls \in Seq(CallType) /\ names \in Names /\ GoodNames(names)
      /\ names' \in Names
  BY StateFacts DEF NRest, GoodNames
<1>2. /\ Len(calls') = Len(calls) + 1 /\ calls'[Len(calls) + 1] = c
      /\ \A i \in 1..Len(calls) : calls'[i] = calls[i]
  BY <1>1, AppendProperties
<1>3. ASSUME NEW i \in 1..Len(calls')
      PROVE  /\ GoodNames(calls'[i].entry) /\ Within(calls'[i].entry, names')
             /\ \A j \in i..Len(calls') : Within(calls'[i].entry, calls'[j].entry)
  <2>1. CASE i = Len(calls) + 1
    <3>1. \A j \in i..Len(calls') : j = i
      BY <1>1, <1>2, <2>1
    <3>. QED BY <1>1, <1>2, <2>1, <3>1, WithinSelf
  <2>2. CASE i \in 1..Len(calls)
    <3>1. /\ GoodNames(calls[i].entry) /\ Within(calls[i].entry, names)
          /\ \A j \in i..Len(calls) : Within(calls[i].entry, calls[j].entry)
      BY <2>2 DEF NRest
    <3>2. Within(calls[i].entry, names')
      BY <1>1, <3>1, WithinTrans DEF GoodNames
    <3>3. \A j \in i..Len(calls') : j \in i..Len(calls) \/ j = Len(calls) + 1
      BY <1>1, <1>2, <2>2
    <3>4. \A j \in i..Len(calls) : calls'[j] = calls[j]
      BY <1>1, <1>2, <2>2
    <3>. QED BY <1>2, <2>2, <3>1, <3>2, <3>3, <3>4
  <2>. QED BY <1>1, <1>2, <1>3, <2>1, <2>2
<1>. QED BY <1>3 DEF NRest, GoodNames, Within, CodeUpTo

\* The names when an iteration of the callers goes on.
LEMMA OuterEntry ==
  ASSUME CInv, NRest, calls # <<>>
  PROVE  /\ Len(Outer) = Len(calls) - 1 /\ Len(calls) \in Nat
         /\ GoodNames(Call.entry) /\ Within(Call.entry, names)
         /\ \A i \in 1..Len(calls) :
              /\ calls[i].entry \in Names /\ Within(calls[i].entry, names)
              /\ Len(calls[i].entry.open) <= Len(Call.entry.open)
              /\ Len(calls[i].entry.open) \in Nat
         /\ \A i \in 1..Len(Outer) : Outer[i] = calls[i]
<1>1. /\ Len(calls) \in 1..Len(calls) /\ Call = calls[Len(calls)] /\ AllGood(calls, frames)
      /\ Len(calls) # 0
  BY LeaveFacts DEF CInv, CRest
<1>2. Len(Outer) = Len(calls) - 1 /\ \A i \in 1..(Len(calls) - 1) : Outer[i] = calls[i]
  BY <1>1, CallsPopped DEF Outer
<1>3. GoodNames(Call.entry) /\ Within(Call.entry, names)
  BY <1>1 DEF NRest
<1>4. ASSUME NEW i \in 1..Len(calls)
      PROVE  /\ calls[i].entry \in Names /\ Within(calls[i].entry, names)
             /\ Len(calls[i].entry.open) <= Len(Call.entry.open)
             /\ Len(calls[i].entry.open) \in Nat
  <2>1. Len(calls) \in i..Len(calls)
    BY <1>1, <1>4
  <2>2. GoodNames(calls[i].entry) /\ Within(calls[i].entry, Call.entry)
        /\ Within(calls[i].entry, names)
    BY <1>1, <1>4, <2>1 DEF NRest
  <2>3. calls[i].entry \in Names
    BY <2>2 DEF GoodNames
  <2>. QED BY <2>2, <2>3, LenProperties DEF Within, Names
<1>. QED BY <1>1, <1>2, <1>3, <1>4

LEMMA EnteredWithin ==
  ASSUME NEW base, NEW t, NEW p, NEW n \in Names, NEW fs, Entered(base, t, p, n, fs)
  PROVE  Within(n, names')
<1>1. PICK f \in Frames :
        /\ f.added => KeyAt(t, p) \in Named
        /\ names' = IF f.added THEN Add_Name_Component(n, Label[KeyAt(t, p)]) ELSE n
  BY DEF Entered
<1>. QED BY <1>1, WithinAdd, WithinSelf, ConstantsOK DEF ConstantsOK

LEMMA AppendTurn ==
  ASSUME NEW S, NEW s \in Seq(S), NEW e, NEW l \in Nat, Len(s) = l - 1
  PROVE  /\ Len(Append(s, e)) = l /\ Append(s, e)[l] = e
         /\ \A i \in 1..(l - 1) : Append(s, e)[i] = s[i]
OBVIOUS

LEMMA ClientNames ==
  ASSUME PlainLabels, CInv, NRest, CInv', [CNext]_cvars
  PROVE  NRest'
<1>1. /\ GoodNames(names') /\ GoodNames(names) /\ names \in Names
      /\ names.depth = Len(names.open) /\ Len(names.open) \in Nat
      /\ Len(calls) \in Nat /\ TypeOK
  <2>1. GoodNames(names')
    BY StepIsStep, NextNames DEF CInv, NRest
  <2>. QED BY <2>1, StateFacts DEF NRest, CInv
<1>2. CASE UNCHANGED <<names, calls>>
  <2>1. \A i \in 1..Len(calls') : Within(calls[i].entry, names')
    BY <1>2 DEF NRest
  <2>. QED BY <1>1, <1>2, <2>1, NamesKept
<1>3. CASE Lookup_Here \/ Local_Here \/ Handle_Here \/ Configure_Here
  <2>1. CASE Lookup_Here
    BY <1>2, <2>1 DEF Lookup_Here, Key, Lookup, LookupConditional, Lacks, Undefined,
       Named_Local, Indexed_Local, Named_Local_Conditional, Indexed_Local_Conditional
  <2>2. CASE Local_Here
    BY <1>2, <2>2 DEF Local_Here, Local, Local_Conditional, Lacks, Undefined
  <2>3. CASE Handle_Here \/ Configure_Here
    BY <1>2, <2>3 DEF Handle_Here, Client_Handles, Configure_Here, Configuration,
       Set_Lua, Set_File
  <2>. QED BY <1>3, <2>1, <2>2, <2>3
<1>4. CASE Start_Here
  <2>1. PICK k \in Asked : Table_Start(k) /\ UNCHANGED calls
    BY <1>4 DEF Start_Here
  <2>2. CASE names' = Add_Name_Component(names, Label[k])
    <3>1. Within(names, names')
      BY <1>1, <2>2, WithinAdd, ConstantsOK DEF ConstantsOK
    <3>2. ASSUME NEW i \in 1..Len(calls) PROVE Within(calls[i].entry, names')
      BY <1>1, <3>1, <3>2, WithinTrans DEF NRest, GoodNames
    <3>. QED BY <1>1, <2>1, <3>2, NamesKept
  <2>3. UNCHANGED names \/ names' = Add_Name_Component(names, Label[k])
    BY <2>1 DEF Table_Start, Lacks, Undefined
  <2>. QED BY <1>2, <2>1, <2>2, <2>3
<1>5. CASE End_Here
  <2>1. UNCHANGED calls /\ (names' = names \/ names' = Remove_Name_Component(names))
    BY <1>5 DEF End_Here, Table_End, Lacks, Undefined
  <2>2. CASE names' = Remove_Name_Component(names)
    <3>1. ASSUME NEW i \in 1..Len(calls) PROVE Within(calls[i].entry, names')
      <4>1. calls # <<>> /\ calls[i].entry \in Names /\ Within(calls[i].entry, names)
            /\ Len(calls[i].entry.open) <= Len(Call.entry.open)
        <5>1. calls # <<>>
          BY <1>1, <3>1
        <5>. QED BY <3>1, <5>1, OuterEntry
      <4>2. Mark = Len(Call.entry.open) + Added(Innermost) /\ Len(Call.entry.open) \in Nat
            /\ Len(calls[i].entry.open) \in Nat
        BY <3>1, <4>1, LeaveFacts, OuterEntry
      <4>3. Added(Innermost) \in Nat
        BY DEF Added
      <4>4. Len(calls[i].entry.open) <= Len(names.open) - 1 /\ Len(names.open) > 0
        <5>1. Len(names.open) - Mark > 0
          BY <1>5 DEF End_Here, OpenHere
        <5>2. Len(Call.entry.open) <= Mark /\ Mark \in Nat
          BY <4>2, <4>3
        <5>3. \A a, b, m, o \in Nat : a <= b /\ b <= m /\ o - m > 0 => a <= o - 1 /\ o > 0
          OBVIOUS
        <5>. QED BY <1>1, <4>1, <4>2, <5>1, <5>2, <5>3, Zenon
      <4>5. Len(names'.open) = Len(names.open) \/ Len(names'.open) = Len(names.open) - 1
        BY <1>1, <2>2, <4>4, RemoveOpen
      <4>. QED BY <1>1, <2>2, <4>1, <4>2, <4>4, <4>5, WithinRemove
    <3>. QED BY <1>1, <2>1, <3>1, NamesKept
  <2>. QED BY <1>2, <2>1, <2>2
<1>6. CASE Iterate_Here
  <2>1. CASE Entered(stack, Top, 1, names, frames) /\ calls' = Append(calls, Begin)
    <3>1. Begin.entry = names
      BY DEF Begin
    <3>2. Begin \in CallType
      <4>1. calls' \in Seq(CallType)
        BY DEF CInv, CRest, AllGood
      <4>2. calls'[Len(calls) + 1] = Begin /\ Len(calls') = Len(calls) + 1
        BY <1>1, <2>1
      <4>. QED BY <1>1, <4>1, <4>2, ElementOfSeq
    <3>3. Within(names, names')
      BY <1>1, <2>1, EnteredWithin
    <3>. QED BY <1>1, <2>1, <3>1, <3>2, <3>3, NamesPushed
  <2>. QED BY <1>2, <1>6, <2>1, IterateCases DEF Finished
<1>7. CASE Return_Here
  <2>. DEFINE n == NamesAfter
  <2>1. /\ n \in Names /\ Len(Call.entry.open) <= Len(n.open) /\ Len(n.open) \in Nat
        /\ calls # <<>>
    BY <1>7, ReturnFacts, LenProperties DEF Names, Return_Here, AtEntry
  <2>2. ASSUME NEW i \in 1..Len(calls) PROVE Within(calls[i].entry, n)
    <3>1. /\ calls[i].entry \in Names /\ Within(calls[i].entry, names)
          /\ Len(calls[i].entry.open) <= Len(Call.entry.open)
          /\ Len(calls[i].entry.open) \in Nat /\ Len(Call.entry.open) \in Nat
      BY <1>7, <2>1, <2>2, OuterEntry, LeaveFacts
    <3>2. Len(calls[i].entry.open) <= Len(n.open)
      BY <2>1, <3>1
    <3>. QED BY <1>1, <3>1, <3>2, WithinRemove DEF NamesAfter
  <2>3. Within(n, names')
    BY <1>7, <2>1, ReturnCases, WithinSelf, EnteredWithin DEF Finished, Stopped
  <2>4. ASSUME NEW i \in 1..Len(calls) PROVE Within(calls[i].entry, names')
    <3>1. calls[i].entry \in Names /\ names' \in Names
      BY <1>1, <2>1, <2>4, OuterEntry DEF GoodNames
    <3>. QED BY <2>1, <2>2, <2>3, <2>4, <3>1, WithinTrans
  <2>5. /\ Len(calls') \in Nat /\ Len(calls') <= Len(calls)
        /\ \A i \in 1..Len(calls') : calls'[i].entry = calls[i].entry
    <3>1. CASE calls' = Outer
      BY <2>1, <3>1, OuterEntry, LenProperties
    <3>2. CASE calls' = Append(Outer, Turn)
      <4>1. Turn.entry = Call.entry /\ Call = calls[Len(calls)]
        <5>1. Call \in CallType
          BY <1>7, ReturnFacts
        <5>. QED BY <5>1 DEF Turn, CallType, Call
      <4>2. /\ Outer \in Seq(CallType) /\ Len(Outer) = Len(calls) - 1 /\ Len(calls) \in Nat
            /\ \A i \in 1..Len(Outer) : Outer[i] = calls[i]
        BY <2>1, OuterEntry, LeaveFacts DEF AllGood
      <4>3. /\ Len(calls') = Len(calls) /\ calls'[Len(calls)] = Turn
            /\ \A i \in 1..(Len(calls) - 1) : calls'[i] = calls[i]
        BY <3>2, <4>2, AppendTurn
      <4>. QED BY <4>1, <4>2, <4>3
    <3>. QED BY <1>7, <3>1, <3>2, ReturnCases
  <2>. QED BY <1>1, <2>4, <2>5, NamesKept
<1>8. CASE Raise_Here
  <2>1. /\ calls' = Outer /\ calls # <<>>
        /\ names' = names \/ names' = Remove_Name_Component(names)
    <3>1. frames # <<>> /\ calls' = Outer
          /\ (names' = names \/ names' = Remove_Name_Component(names))
      BY <1>8 DEF Raise_Here, Process_Raises
    <3>2. calls # <<>>
      BY <1>1, <3>1, StateFacts, EmptySeq, LenProperties
    <3>. QED BY <3>1, <3>2
  <2>2. ASSUME NEW i \in 1..Len(calls') PROVE Within(calls[i].entry, names')
    <3>1. /\ i \in 1..Len(calls) /\ calls[i].entry \in Names /\ Within(calls[i].entry, names)
          /\ Len(calls[i].entry.open) <= Len(Call.entry.open)
          /\ Len(calls[i].entry.open) \in Nat /\ Len(Call.entry.open) \in Nat
      BY <2>1, <2>2, OuterEntry, LeaveFacts
    <3>2. Len(Call.entry.open) <= Len(names'.open) /\ Len(names'.open) \in Nat
      BY <1>1, <1>8, RaiseFacts
    <3>3. Len(calls[i].entry.open) <= Len(names'.open)
      <4>1. \A a, b, c \in Nat : a <= b /\ b <= c => a <= c
        OBVIOUS
      <4>. QED BY <3>1, <3>2, <4>1
    <3>4. CASE names' = names
      BY <3>1, <3>4
    <3>5. CASE names' = Remove_Name_Component(names)
      BY <1>1, <3>1, <3>3, <3>5, WithinRemove
    <3>. QED BY <2>1, <3>4, <3>5
  <2>. QED BY <1>1, <2>1, <2>2, OuterEntry, NamesKept
<1>9. CASE (Client_Stops /\ UNCHANGED <<calls, harmless>>) \/ UNCHANGED cvars
  BY <1>2, <1>9 DEF Client_Stops, cvars
<1>. QED BY <1>3, <1>4, <1>5, <1>6, <1>7, <1>8, <1>9 DEF CNext

LEMMA NamesInvariant ==
  ASSUME PlainLabels
  PROVE  CSpec => [](CInv /\ NRest)
<1>1. CInit => NRest
  <2>1. CInit => GoodNames(names) /\ calls = <<>>
    BY InitNames DEF CInit
  <2>. QED BY <2>1 DEF NRest
<1>2. CInv /\ CInv' /\ NRest /\ [CNext]_cvars => NRest'
  BY ClientNames
<1>. QED BY <1>1, <1>2, ClientInvariant, PTL DEF CSpec

LEMMA NamedEntry ==
  ASSUME CInv, NRest, calls # <<>>
  PROVE  Innermost.added => ~RemoveRaises(names)
<1>1. /\ names \in Names /\ names.depth = Len(names.open) /\ Len(names.open) \in Nat
      /\ Mark <= Len(names.open) /\ Mark = Len(Call.entry.open) + Added(Innermost)
      /\ Len(Call.entry.open) \in Nat /\ GoodNames(names)
  BY StateFacts, LeaveFacts DEF NRest
<1>2. CASE Innermost.added
  <2>1. Len(names.open) > 0
    BY <1>1, <1>2 DEF Added
  <2>. QED BY <1>1, <2>1, EmptyName DEF RemoveRaises
<1>. QED BY <1>2

\* The component of the entry is removed, and nothing else.
LEMMA NamesReturned ==
  ASSUME CInv, NRest, Return_Here
  PROVE  NamesAfter = Call.entry
<1>1. /\ calls # <<>> /\ Len(NamesAfter.open) = Len(Call.entry.open)
      /\ Len(Call.entry.open) <= Len(NamesAfter.open)
  BY ReturnFacts, NamedEntry DEF Return_Here, AtEntry
<1>2. GoodNames(Call.entry) /\ GoodNames(names) /\ Within(Call.entry, names)
  BY <1>1, OuterEntry DEF NRest
<1>3. GoodNames(NamesAfter)
  BY <1>2, RemoveGood DEF NamesAfter
<1>4. Within(Call.entry, NamesAfter)
  <2>1. names \in Names /\ names.depth = Len(names.open) /\ Call.entry \in Names
    BY <1>2 DEF GoodNames
  <2>. QED BY <1>1, <1>2, <2>1, WithinRemove DEF NamesAfter
<1>. QED BY <1>1, <1>2, <1>3, <1>4, WithinSame

\* When every key is plain, a Table_Iterate that returns has called Process once
\* for every entry, in order, and leaves the stack and the names it found.
THEOREM IterationCompletes ==
  ASSUME PlainLabels
  PROVE  CSpec => IterationIsComplete
<1>1. ASSUME CInv, NRest, CInv', NRest', Return_Here, ctl' = "client", Len(calls') < Len(calls)
      PROVE  /\ Call.seen = [i \in Indices(Call.table) |-> KeyAt(Call.table, i)]
             /\ stack' = Call.base /\ names' = Call.entry
  <2>1. /\ calls # <<>> /\ Call \in CallType /\ TypeOK /\ Iterating(Call)
        /\ Len(Call.entry.open) \in Nat /\ Call.table \in Tables
    BY <1>1, ReturnFacts DEF Return_Here, AtEntry
  <2>2. /\ Finished(Call.base, NamesAfter, Callers) /\ lua' = lua
        /\ Len(Call.seen) = Len(Entries[Call.table])
        /\ ~(Innermost.added /\ RemoveRaises(names))
    <3>1. CASE calls' = Append(Outer, Turn)
      <4>1. /\ Outer \in Seq(CallType) /\ Len(Outer) = Len(calls) - 1 /\ Len(calls) \in Nat
        BY <1>1, <2>1, OuterEntry, LeaveFacts DEF AllGood
      <4>2. Len(calls') = Len(calls)
        BY <3>1, <4>1, AppendTurn
      <4>. QED BY <1>1, <4>1, <4>2
    <3>. QED BY <1>1, <3>1, ReturnCases DEF Stopped
  <2>3. stack' = Call.base
    BY <2>1, <2>2, StackSet DEF Finished
  <2>4. names' = Call.entry
    BY <1>1, <2>2, NamesReturned DEF Finished
  <2>5. Call.seen = [i \in Indices(Call.table) |-> KeyAt(Call.table, i)]
    <3>1. Call.seen \in Seq(Values)
      BY <2>1, Zenon DEF CallType
    <3>2. /\ Len(Call.seen) \in Nat /\ Indices(Call.table) = 1..Len(Call.seen)
          /\ \A j \in 1..Len(Call.seen) : Call.seen[j] = KeyAt(Call.table, j)
      BY <2>1, <2>2, <3>1, LenProperties DEF Iterating, Indices
    <3>3. Call.seen = [i \in 1..Len(Call.seen) |-> Call.seen[i]]
      BY <3>1, LenProperties
    <3>. QED BY <3>2, <3>3
  <2>. QED BY <2>3, <2>4, <2>5
<1>2. CInv /\ NRest /\ (CInv /\ NRest)' /\ [CNext]_cvars =>
        [(Return_Here /\ ctl' = "client" /\ Len(calls') < Len(calls))
           => /\ Call.seen = [i \in Indices(Call.table) |-> KeyAt(Call.table, i)]
              /\ stack' = Call.base
              /\ names' = Call.entry]_cvars
  BY <1>1
<1>. QED BY <1>2, NamesInvariant, PTL DEF CSpec, IterationIsComplete

\* When every key is plain, a Load_Error that leaves a Process which has ended
\* the tables it started finds the names as they were at Table_Iterate.
THEOREM HandlerRestores ==
  ASSUME PlainLabels
  PROVE  CSpec => HandlerRestoresNames
<1>1. ASSUME CInv, NRest, Raise_Here, exc = "Load_Error", OpenHere = 0
      PROVE  names' = Call.entry /\ exc' = exc
  <2>1. /\ calls # <<>> /\ names'.depth = Len(names'.open)
    BY <1>1, RaiseFacts
  <2>2. /\ names \in Names /\ names.depth = Len(names.open) /\ Len(names.open) \in Nat
        /\ Len(Call.entry.open) \in Nat
        /\ Len(names.open) = Len(Call.entry.open) + Added(Innermost)
    BY <1>1, <2>1, StateFacts, LeaveFacts DEF OpenHere
  <2>3. GoodNames(Call.entry) /\ GoodNames(names) /\ Within(Call.entry, names)
    BY <1>1, <2>1, OuterEntry DEF NRest
  <2>4. CASE Innermost.added
    <3>1. Len(names.open) = Len(Call.entry.open) + 1
      BY <2>2, <2>4 DEF Added
    <3>2. names.code # <<>> /\ names.depth # 0
      BY <2>2, <2>3, <3>1, EmptyName
    <3>3. names' = Remove_Name_Component(names) /\ exc' = exc
      BY <1>1, <2>4, <3>2 DEF Raise_Here, Process_Raises, Handler, RemoveRaises
    <3>4. Len(Remove_Name_Component(names).open) = Len(Call.entry.open)
      BY <2>2, <3>1, <3>2, RemoveDrops
    <3>5. GoodNames(Remove_Name_Component(names))
      BY <2>3, RemoveGood
    <3>6. Within(Call.entry, Remove_Name_Component(names))
      BY <2>2, <2>3, <3>4, WithinRemove DEF GoodNames
    <3>. QED BY <2>3, <3>3, <3>4, <3>5, <3>6, WithinSame
  <2>5. CASE ~ Innermost.added
    <3>1. names' = names /\ exc' = exc
      BY <1>1, <2>5 DEF Raise_Here, Process_Raises, Handler
    <3>2. Len(names.open) = Len(Call.entry.open)
      BY <2>2, <2>5 DEF Added
    <3>. QED BY <2>3, <3>1, <3>2, WithinSame
  <2>. QED BY <2>4, <2>5
<1>2. CInv /\ NRest /\ [CNext]_cvars =>
        [(Raise_Here /\ exc = "Load_Error" /\ OpenHere = 0)
           => names' = Call.entry /\ exc' = exc]_cvars
  BY <1>1
<1>. QED BY <1>2, NamesInvariant, PTL DEF CSpec, HandlerRestoresNames

----------------------------------------------------------------------------
(* What an exception leaves behind *)

LeftType == [entry : Names, own : Nat, tables : Int]
Behind(l) == l.tables + IF exc = "Load_Error" THEN 0 ELSE l.own
ERest ==
  /\ left \in LeftType /\ GoodNames(left.entry)
  /\ ctl = "raising" => /\ Within(left.entry, names)
                        /\ names.depth = left.entry.depth + Behind(left)

LEMMA Reached ==
  ASSUME NEW e \in Names, GoodNames(e), Reaches(e), ctl' = "raising" => names' = e
  PROVE  ERest'
<1>1. left' \in LeftType /\ left'.entry = e /\ left'.own = 0 /\ left'.tables = 0
  BY DEF Reaches, LeftType
<1>2. e.depth \in Nat /\ Behind(left)' = 0
  BY <1>1 DEF Names, Behind
<1>3. GoodNames(left'.entry)
  BY <1>1
<1>. QED BY <1>1, <1>2, <1>3, WithinSelf DEF ERest, GoodNames, CodeUpTo, Within

LEMMA ErrorLeaves ==
  ASSUME CInv, NRest, ERest, Raise_Here
  PROVE  ERest'
<1>1. /\ calls # <<>> /\ ctl = "raising" /\ Len(Call.entry.open) <= Len(names'.open)
  BY RaiseFacts DEF Raise_Here, Process_Raises
<1>2. /\ names \in Names /\ names.depth = Len(names.open) /\ Len(names.open) \in Nat
      /\ Call.entry \in Names /\ Call.entry.depth = Len(Call.entry.open)
      /\ Len(Call.entry.open) \in Nat /\ Mark = Len(Call.entry.open) + Added(Innermost)
      /\ GoodNames(Call.entry) /\ Within(Call.entry, names)
  BY <1>1, StateFacts, LeaveFacts, OuterEntry DEF GoodNames
<1>3. /\ left \in LeftType /\ names.depth = left.entry.depth + Behind(left)
      /\ left.entry.depth = Len(left.entry.open) /\ Len(left.entry.open) \in Nat
  BY <1>1, LenProperties DEF ERest, GoodNames, LeftType, Names
<1>4. /\ left'.entry = Call.entry /\ left'.own = left.own + Added(Innermost)
      /\ left'.tables = left.tables + Len(left.entry.open) - Mark
      /\ left' \in LeftType
  <2>1. left' = [entry |-> Call.entry, own |-> left.own + Added(Innermost),
                 tables |-> left.tables + Len(left.entry.open) - Mark]
    BY DEF Raise_Here, Added
  <2>2. Added(Innermost) \in Nat /\ left.own \in Nat /\ left.tables \in Int
    BY <1>3 DEF Added, LeftType
  <2>3. left.own + Added(Innermost) \in Nat
    BY <2>2
  <2>4. left.tables + Len(left.entry.open) - Mark \in Int
    <3>1. Mark \in Int
      <4>1. Mark = Len(Call.entry.open) + Added(Innermost) /\ Len(Call.entry.open) \in Nat
        BY <1>2
      <4>. QED BY <4>1, <2>2
    <3>2. Len(left.entry.open) \in Int
      BY <1>3
    <3>. QED BY <3>1, <3>2, <2>2
  <2>5. \A e \in Names, o \in Nat, t \in Int :
          [entry |-> e, own |-> o, tables |-> t] \in LeftType
    BY DEF LeftType
  <2>6. [entry |-> Call.entry, own |-> left.own + Added(Innermost),
         tables |-> left.tables + Len(left.entry.open) - Mark] \in LeftType
    <3>1. Call.entry \in Names
      BY <1>2
    <3>. QED BY <3>1, <2>3, <2>4, <2>5, Zenon
  <2>7. left' \in LeftType
    BY <2>1, <2>6, Zenon
  <2>. QED BY <2>1, <2>7
<1>5. Within(Call.entry, names')
  <2>1. names' = names \/ names' = Remove_Name_Component(names)
    BY DEF Raise_Here, Process_Raises
  <2>. QED BY <1>1, <1>2, <2>1, WithinRemove
<1>6. exc' = exc /\ names'.depth = names.depth - IF Handler THEN 1 ELSE 0
  <2>1. CASE Handler
    <3>1. ~RemoveRaises(names)
      BY <1>1, <2>1, NamedEntry DEF Handler
    <3>. QED BY <1>2, <2>1, <3>1 DEF Raise_Here, Process_Raises, RemoveRaises,
            Remove_Name_Component
  <2>2. CASE ~Handler
    BY <1>2, <2>2 DEF Raise_Here, Process_Raises
  <2>. QED BY <2>1, <2>2
<1>7. names'.depth = Call.entry.depth + Behind(left)'
  <2>1. left.own \in Nat /\ left.tables \in Int
    BY <1>3 DEF LeftType
  <2>2. Call.entry.depth \in Nat /\ left.entry.depth \in Nat
    BY <1>2, <1>3
  <2>3. Behind(left)' = left'.tables + IF exc = "Load_Error" THEN 0 ELSE left'.own
    BY <1>6 DEF Behind
  <2>4. left'.tables = left.tables + left.entry.depth - Call.entry.depth - Added(Innermost)
    BY <1>2, <1>3, <1>4, <2>1, <2>2 DEF Added
  <2>5. Added(Innermost) \in Int
    BY DEF Added
  <2>6. names.depth = left.entry.depth + left.tables
                       + IF exc = "Load_Error" THEN 0 ELSE left.own
    BY <1>3, <2>1, <2>2 DEF Behind
  <2>7. CASE exc = "Load_Error"
    <3>1. names'.depth = names.depth - Added(Innermost)
      BY <1>6, <2>7 DEF Handler, Added
    <3>2. Behind(left)' = left'.tables /\ names.depth = left.entry.depth + left.tables
      BY <1>4, <2>1, <2>2, <2>3, <2>4, <2>5, <2>6, <2>7
    <3>. QED BY <2>1, <2>2, <2>4, <2>5, <3>1, <3>2
  <2>8. CASE exc # "Load_Error"
    <3>1. names'.depth = names.depth
      BY <1>2, <1>6, <2>8 DEF Handler
    <3>2. Behind(left)' = left'.tables + left'.own
      BY <2>3, <2>8
    <3>. QED BY <1>4, <2>1, <2>2, <2>4, <2>5, <2>6, <2>8, <3>1, <3>2
  <2>. QED BY <2>7, <2>8
<1>8. GoodNames(left'.entry)
  BY <1>2, <1>4
<1>. QED BY <1>4, <1>5, <1>7, <1>8 DEF ERest, GoodNames, CodeUpTo, Within

LEMMA ErrorNext ==
  ASSUME PlainLabels, CInv, NRest, ERest, CInv', NRest', [CNext]_cvars
  PROVE  ERest'
<1>1. GoodNames(names') /\ names' \in Names
  BY DEF NRest, GoodNames, CodeUpTo
<1>2. CASE Reaches(names')
  BY <1>1, <1>2, Reached
<1>3. CASE Return_Here
  <2>1. GoodNames(Call.entry) /\ Call.entry \in Names /\ NamesAfter = Call.entry
    BY <1>3, OuterEntry, NamesReturned DEF GoodNames, Return_Here, AtEntry
  <2>2. ctl' = "raising" => names' = NamesAfter
    BY <1>3, ReturnCases DEF Stopped, Finished, Entered
  <2>. QED BY <1>3, <2>1, <2>2, Reached DEF Return_Here
<1>4. CASE Raise_Here
  BY <1>4, ErrorLeaves
<1>5. CASE Client_Stops /\ UNCHANGED <<calls, harmless, left>>
  BY <1>5 DEF ERest, Client_Stops, GoodNames, CodeUpTo
<1>6. CASE UNCHANGED cvars
  BY <1>6 DEF ERest, cvars, Within, Behind, GoodNames, CodeUpTo
<1>. QED BY <1>2, <1>3, <1>4, <1>5, <1>6 DEF CNext, Lookup_Here, Local_Here, Start_Here,
       End_Here, Iterate_Here, Handle_Here, Configure_Here

\* When every key is plain, an exception, however many iterations it has left,
\* has taken no component of the code it reaches, and has left there one for each
\* table a Process had open and, only if it is not a Load_Error, one for each
\* named entry.
THEOREM ExceptionPath ==
  ASSUME PlainLabels
  PROVE  CSpec => []ExceptionLeavesPath
<1>1. CInit => ERest
  <2>1. ASSUME CInit PROVE ERest
    <3>1. GoodNames(names) /\ ctl = "client" /\ names \in Names
      BY <2>1, InitNames DEF CInit, Init, GoodNames
    <3>. QED BY <2>1, <3>1 DEF CInit, ERest, LeftType
  <2>. QED BY <2>1
<1>2. CInv /\ NRest /\ (CInv /\ NRest)' /\ ERest /\ [CNext]_cvars => ERest'
  BY ErrorNext
<1>3. ERest => ExceptionLeavesPath
  <2>1. ASSUME ERest, ctl = "raising"
        PROVE  names.depth = left.entry.depth + left.tables
                              + IF exc = "Load_Error" THEN 0 ELSE left.own
    BY <2>1 DEF ERest, Behind, LeftType, Names
  <2>. QED BY <2>1 DEF ERest, ExceptionLeavesPath
<1>. QED BY <1>1, <1>2, <1>3, NamesInvariant, PTL DEF CSpec
============================================================================
