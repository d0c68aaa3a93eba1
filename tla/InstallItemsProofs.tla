------------------------- MODULE InstallItemsProofs -------------------------
(***************************************************************************)
(* Theorems of InstallItems, for any items, names and lengths: what        *)
(* becomes of the identities of an item on every way out of its operation, *)
(* that no name overruns its buffer, and that each operation uses the      *)
(* names meant for its item, inside the item's directory.                  *)
(***************************************************************************)
EXTENDS InstallItems, SequenceTheorems, WellFoundedInduction, TLAPS

Item == {"uid", "gid"}

\* What the step of an operation says of its identities: those of the item are
\* there from their lookup to the end, those of the file that is checked are
\* not there when the check is over.
IdsOfStep ==
  /\ step \in {"next", "uid", "gid", "act", "free", "undefined"}
  /\ step \in {"next", "uid"} => ids = Unset
  /\ step = "gid" => ids = Looked(Unset, {"uid"})
  /\ step = "act" => ids = Looked(Unset, Item)
  /\ step = "free" => /\ \A i \in Item : ids[i] = Looked(Unset, Item)[i]
                      /\ \A i \in Ids \ Item : ids[i] # "live"
IInv == IdsOfStep /\ IdsReleased

\* An operation that returns loses what it has not freed.
LEMMA ReturnsClean ==
  ASSUME IInv, NEW v, NEW lost \in SUBSET {"sid"}, NEW fatal, Returns(v, lost, fatal),
         \A i \in Ids \ {"link uid", "link gid"} : v[i] # "live"
  PROVE  IInv'
<1>1. step' = "next" /\ ids' = Unset
  BY DEF Returns
<1>2. leaked' \subseteq {"sid", "link uid", "link gid"}
  BY DEF Returns, IInv, IdsReleased, Ids
<1>. QED BY <1>1, <1>2 DEF IInv, IdsOfStep, IdsReleased, Unset

LEMMA NextIInv ==
  ASSUME IInv, [Next]_vars
  PROVE  IInv'
<1>. USE DEF Ids, Item
<1>a. SidLost \subseteq SUBSET {"sid"}
  BY DEF SidLost
<1>1. CASE UNCHANGED vars
  <2>1. /\ step' = step /\ ids' = ids /\ leaked' = leaked /\ env' = env
        /\ \A S : Looked(Unset, S)' = Looked(Unset, S)
    BY <1>1 DEF vars, Looked, Unset
  <2>2. IdsOfStep'
    BY <2>1 DEF IInv, IdsOfStep
  <2>3. IdsReleased'
    BY <2>1 DEF IInv, IdsReleased
  <2>. QED BY <2>2, <2>3 DEF IInv
<1>2. CASE Translate
  <2>1. ids' = Unset /\ step' \in {"next", "uid"} /\ leaked' = leaked
    BY <1>2 DEF Translate, IInv, IdsOfStep
  <2>. QED BY <2>1 DEF IInv, IdsOfStep, IdsReleased, Unset
<1>3. CASE LookupUser
  <2>1. ids = Unset /\ \A i \in Ids : ids[i] # "live"
    BY <1>3 DEF LookupUser, IInv, IdsOfStep, Unset
  <2>2. CASE Goto("gid", Looked(ids, {"uid"}))
    <3>1. step' = "gid" /\ ids' = Looked(Unset, {"uid"})' /\ leaked' = leaked
      BY <2>1, <2>2 DEF Goto, Looked, Unset
    <3>. QED BY <3>1 DEF IInv, IdsOfStep, IdsReleased
  <2>3. ASSUME NEW lost \in SidLost, Returns(ids, lost, FALSE) PROVE IInv'
    BY <1>a, <2>1, <2>3, ReturnsClean
  <2>. QED BY <1>3, <2>2, <2>3 DEF LookupUser
<1>4. CASE LookupGroup
  <2>1. ids = Looked(Unset, {"uid"})
    BY <1>4 DEF LookupGroup, IInv, IdsOfStep
  <2>2. CASE Goto("act", Looked(ids, {"gid"}))
    <3>1. step' = "act" /\ ids' = Looked(Unset, Item)' /\ leaked' = leaked
      BY <2>1, <2>2 DEF Goto, Looked, Unset
    <3>. QED BY <3>1 DEF IInv, IdsOfStep, IdsReleased
  <2>3. ASSUME NEW lost \in SidLost, Returns(GroupUnknown(ids), lost, FALSE) PROVE IInv'
    <3>1. \A i \in Ids : GroupUnknown(ids)[i] # "live"
      BY <2>1 DEF GroupUnknown, Freed, Looked, Unset
    <3>. QED BY <1>a, <2>3, <3>1, ReturnsClean
  <2>. QED BY <1>4, <2>2, <2>3 DEF LookupGroup
<1>5. CASE Install
  <2>1. ids = Looked(Unset, Item) /\ Goto("free", ids)
    BY <1>5 DEF Install, IInv, IdsOfStep
  <2>. QED BY <2>1 DEF IInv, IdsOfStep, IdsReleased, Goto, Looked, Unset
<1>6. CASE Check
  <2>1. ids = Looked(Unset, Item) /\ env.prog = "instchk"
    BY <1>6 DEF Check, IInv, IdsOfStep
  <2>2. CASE Goto("free", ids)
    BY <2>1, <2>2 DEF IInv, IdsOfStep, IdsReleased, Goto, Looked, Unset
  <2>3. ASSUME NEW got \in GotOwnership
        PROVE LET v == Looked(ids, got) IN
              /\ (FreeUndefined(v, {"uid_got", "gid_got"}) /\ Goto("undefined", v)) => IInv'
              /\ (~FreeUndefined(v, {"uid_got", "gid_got"})
                    /\ Goto("free", Freed(v, {"uid_got", "gid_got"}))) => IInv'
    <3>. DEFINE v == Looked(ids, got)
    <3>1. got \in {{}, {"uid_got"}, {"uid_got", "gid_got"}}
      BY DEF GotOwnership
    <3>2. /\ v["uid"] = Looked(Unset, Item)["uid"] /\ v["gid"] = Looked(Unset, Item)["gid"]
          /\ \A i \in Ids \ {"uid", "gid", "uid_got", "gid_got"} : v[i] = "unset"
          /\ "gid_got" \notin got => v["gid_got"] = "unset"
      BY <2>1, <3>1 DEF Looked, Unset
    <3>3. ASSUME FreeUndefined(v, {"uid_got", "gid_got"}), Goto("undefined", v) PROVE IInv'
      <4>1. env.os = "win32" /\ env' = env /\ leaked' = leaked /\ step' = "undefined" /\ ids' = v
        BY <3>3 DEF FreeUndefined, Goto
      <4>2. "gid_got" \notin got
        BY <3>1, <3>3 DEF FreeUndefined, Looked
      <4>3. v["uid"] = "live" /\ v["gid"] = "live" /\ v["gid_got"] = "unset"
        BY <3>2, <4>1, <4>2 DEF Looked
      <4>. QED BY <2>1, <4>1, <4>3 DEF IInv, IdsOfStep, IdsReleased
    <3>4. ASSUME ~FreeUndefined(v, {"uid_got", "gid_got"}),
                 Goto("free", Freed(v, {"uid_got", "gid_got"}))
          PROVE IInv'
      <4>1. env' = env /\ leaked' = leaked /\ step' = "free"
            /\ ids' = Freed(v, {"uid_got", "gid_got"})
        BY <3>4 DEF Goto
      <4>2. \A i \in Item : ids'[i] = Looked(Unset, Item)'[i]
        BY <3>2, <4>1 DEF Freed, Looked, Unset
      <4>3. \A i \in Ids \ Item : ids'[i] # "live"
        <5>1. env.os # "win32" => \A i \in Ids : v[i] # "live"
          BY <2>1 DEF Looked, Unset
        <5>. QED BY <3>2, <4>1, <5>1 DEF Freed
      <4>. QED BY <4>1, <4>2, <4>3 DEF IInv, IdsOfStep, IdsReleased
    <3>. QED BY <3>3, <3>4
  <2>. QED BY <1>6, <2>2, <2>3 DEF Check
<1>7. CASE FreeIds
  <2>1. /\ \A i \in Item : ids[i] = Looked(Unset, Item)[i]
        /\ \A i \in Ids \ Item : ids[i] # "live"
    BY <1>7 DEF FreeIds, IInv, IdsOfStep
  <2>2. ~FreeUndefined(ids, {"uid", "gid"})
    BY <2>1 DEF FreeUndefined, Looked
  <2>3. \A i \in Ids : Freed(ids, {"uid", "gid"})[i] # "live"
    BY <2>1 DEF Freed, Looked, Unset
  <2>4. Returns(Freed(ids, {"uid", "gid"}), {}, FALSE)
    BY <1>7, <2>2 DEF FreeIds
  <2>. QED BY <2>3, <2>4, ReturnsClean
<1>8. CASE Link
  <2>1. ids = Unset
    BY <1>8 DEF Link, IInv, IdsOfStep
  <2>2. PICK got \in {{}, {"link uid"}, {"link uid", "link gid"}}, fatal \in BOOLEAN :
          Returns(Looked(ids, got), {}, fatal)
    BY <1>8 DEF Link
  <2>3. \A i \in Ids \ {"link uid", "link gid"} : Looked(ids, got)[i] # "live"
    BY <2>1, <2>2 DEF Looked, Unset
  <2>. QED BY <2>2, <2>3, ReturnsClean
<1>9. CASE Deinstall
  <2>1. ids = Unset /\ Returns(ids, {}, FALSE)
    BY <1>9 DEF Deinstall, IInv, IdsOfStep
  <2>. QED BY <2>1, ReturnsClean DEF Unset
<1>. QED BY <1>1, <1>2, <1>3, <1>4, <1>5, <1>6, <1>7, <1>8, <1>9 DEF Next

\* Whatever lookups fail, on either system and in each of the three programs,
\* every identity of an item is freed once: what is lost are the buffers of
\* failed lookups and the identities of a copied link, and what is undefined is
\* the free of an owner that install_file_check could not get.
THEOREM Releases == Spec => []IdsReleased
<1>1. Init => IInv
  BY DEF Init, IInv, IdsOfStep, IdsReleased
<1>2. IInv /\ [Next]_vars => IInv'
  BY NextIInv
<1>3. IInv => IdsReleased
  BY DEF IInv
<1>. QED BY <1>1, <1>2, <1>3, PTL DEF Spec

----------------------------------------------------------------------------
(* Names: what base_name, snprintf and the suffix give. *)

\* Numbers have a least one.
LEMMA Least ==
  ASSUME NEW T \in SUBSET Nat, T # {}
  PROVE  \E x \in T : \A y \in T : x <= y
<1>1. PICK x \in T : \A y \in T : ~(<<y, x>> \in OpToRel(<, Nat))
  BY NatLessThanWellFounded, WFMin, Zenon
<1>2. \A y \in T : ~(y < x)
  BY <1>1, Zenon DEF OpToRel
<1>3. \A y \in T : y \in Nat
  OBVIOUS
<1>. QED BY <1>2, <1>3

\* One part alone is a name.
LEMMA OnePart ==
  ASSUME NEW c \in Parts
  PROVE  <<c>> \in Names /\ Len(<<c>>) = 1 /\ <<c>>[1] = c /\ <<c>> # <<>>
BY DEF Names

LEMMA Marks == "/" \in Parts /\ "." \in Parts /\ ".exe" \in Parts
BY ItemsOK

\* A set of numbers up to n that is not empty has a latest one.
LEMMA LatestIn ==
  ASSUME NEW n \in Nat, NEW S \in SUBSET (0..n), S # {}
  PROVE  Latest(S) \in S /\ \A j \in S : j <= Latest(S)
<1>. DEFINE T == {n - k : k \in S}
<1>0. \A k \in S : k \in Nat /\ k <= n /\ n - k \in Nat
  OBVIOUS
<1>1. T \subseteq Nat /\ T # {}
  BY <1>0
<1>2. PICK x \in T : \A y \in T : x <= y
  <2>. HIDE DEF T
  <2>. QED BY <1>1, Least
<1>4. PICK k \in S : x = n - k
  BY <1>2
<1>5. \A j \in S : j <= k
  <2>1. \A j \in S : n - k <= n - j
    BY <1>2, <1>4
  <2>. QED BY <2>1, <1>0
<1>. QED BY <1>4, <1>5 DEF Latest

\* base_name returns one part of the name and what belongs to it, never longer
\* than the name.
LEMMA BaseNameOfName ==
  ASSUME NEW n \in Names
  PROVE  /\ base_name(n) \in Names
         /\ base_name(n) # <<>>
         /\ Len(base_name(n)) <= Len(n) \/ Len(base_name(n)) = 1
         /\ NamesAFile(n) =>
              /\ base_name(n) # <<".">>
              /\ \A k \in 1..Len(base_name(n)) : base_name(n)[k] # "/"
<1>. DEFINE ends == {k \in 1..Len(n) : n[k] # "/"}
            t    == Latest(ends)
            cuts == {0} \cup {k \in 1..t : n[k] = "/"}
            u    == Latest(cuts)
<1>0. Len(n) \in Nat /\ \A k \in 1..Len(n) : n[k] \in Parts
  BY DEF Names
<1>1. CASE n = <<>>
  <2>1. base_name(n) = <<".">>
    BY <1>1 DEF base_name
  <2>2. ~NamesAFile(n)
    BY <1>1 DEF NamesAFile
  <2>. QED BY <2>1, <2>2, OnePart, Marks
<1>2. CASE n # <<>> /\ ends = {}
  <2>1. base_name(n) = <<"/">>
    BY <1>2 DEF base_name
  <2>2. ~NamesAFile(n)
    BY <1>2 DEF NamesAFile
  <2>. QED BY <2>1, <2>2, OnePart, Marks
<1>3. CASE n # <<>> /\ ends # {}
  <2>1. base_name(n) = SubSeq(n, u + 1, t)
    BY <1>3 DEF base_name
  <2>2. t \in 1..Len(n) /\ n[t] # "/" /\ \A j \in (t + 1)..Len(n) : n[j] = "/"
    <3>1. ends \in SUBSET (0..Len(n))
      BY <1>0
    <3>2. t \in ends /\ \A j \in ends : j <= t
      <4>. HIDE DEF ends
      <4>. QED BY <1>0, <1>3, <3>1, LatestIn
    <3>. HIDE DEF t
    <3>. QED BY <3>2, <1>0
  <2>3. u \in 0..(t - 1) /\ \A k \in (u + 1)..t : n[k] # "/"
    <3>0. t \in Nat
      BY <2>2, <1>0
    <3>. HIDE DEF t
    <3>1. cuts \in SUBSET (0..t) /\ cuts # {}
      BY <3>0
    <3>2. u \in cuts /\ \A j \in cuts : j <= u
      <4>. HIDE DEF cuts
      <4>. QED BY <3>0, <3>1, LatestIn
    <3>. HIDE DEF u
    <3>. QED BY <2>2, <3>0, <3>2, <1>0
  <2>. HIDE DEF t, u, ends
  <2>4. /\ SubSeq(n, u + 1, t) \in Seq(Parts)
        /\ Len(SubSeq(n, u + 1, t)) = t - u
        /\ \A i \in 1..(t - u) : SubSeq(n, u + 1, t)[i] = n[u + i]
    <3>1. u + 1 \in Int /\ t \in Int /\ u + 1 <= t /\ t - (u + 1) + 1 = t - u
          /\ \A i \in 1..(t - u) : (u + 1) + i - 1 = u + i
      BY <2>2, <2>3, <1>0
    <3>2. \A i \in (u + 1)..t : n[i] \in Parts
      BY <2>2, <2>3, <1>0
    <3>. QED BY <3>1, <3>2, SubSeqProperties
  <2>. DEFINE b == SubSeq(n, u + 1, t)
  <2>. HIDE DEF b
  <2>5. b \in Names /\ Len(b) = t - u /\ \A i \in 1..(t - u) : b[i] = n[u + i]
    BY <2>4 DEF b, Names
  <2>6. Len(b) >= 1 /\ Len(b) <= Len(n) /\ b # <<>>
    BY <2>2, <2>3, <2>5, <1>0
  <2>7. \A k \in 1..Len(b) : b[k] # "/"
    BY <2>2, <2>3, <2>5, <1>0
  <2>8. NamesAFile(n) => b # <<".">>
    <3>1. ASSUME NamesAFile(n) PROVE n[t] # "."
      <4>1. PICK k \in 1..Len(n) : n[k] \notin {"/", "."} /\ \A j \in (k + 1)..Len(n) : n[j] = "/"
        BY <3>1 DEF NamesAFile
      <4>2. k = t
        BY <4>1, <2>2, <1>0
      <4>. QED BY <4>1, <4>2
    <3>2. b = <<".">> => n[t] = "."
      <4>1. ASSUME b = <<".">> PROVE n[t] = "."
        <5>1. Len(b) = 1 /\ b[1] = "."
          BY <4>1
        <5>2. t - u = 1 /\ u + 1 = t
          <6>1. t - u = 1
            BY <5>1, <2>5
          <6>2. t \in Int /\ u \in Int
            BY <2>2, <2>3, <1>0
          <6>. QED BY <6>1, <6>2
        <5>. QED BY <5>1, <5>2, <2>5
      <4>. QED BY <4>1
    <3>. QED BY <3>1, <3>2
  <2>. QED BY <2>1, <2>5, <2>6, <2>7, <2>8 DEF b
<1>. QED BY <1>1, <1>2, <1>3

\* snprintf gives a name that fits, and a name that fits as it is.
LEMMA SnprintfFits ==
  ASSUME NEW n \in Names
  PROVE  snprintf(n) \in Names /\ Fits(snprintf(n)) /\ (Fits(n) => snprintf(n) = n)
<1>1. MaxPath \in Nat \ {0, 1}
  BY ItemsOK
<1>2. CASE Len(n) < MaxPath
  BY <1>2 DEF snprintf, Fits
<1>3. CASE ~(Len(n) < MaxPath)
  <2>1. MaxPath - 1 <= Len(n) /\ MaxPath - 1 >= 1 /\ Len(n) \in Nat
    BY <1>1, <1>3 DEF Names
  <2>2. \A i \in 1..(MaxPath - 1) : n[i] \in Parts
    BY <2>1, <1>1 DEF Names
  <2>3. /\ SubSeq(n, 1, MaxPath - 1) \in Seq(Parts)
        /\ Len(SubSeq(n, 1, MaxPath - 1)) = (MaxPath - 1) - 1 + 1
    BY <1>1, <2>1, <2>2, SubSeqProperties
  <2>. QED BY <1>1, <1>3, <2>3 DEF snprintf, Fits, Names
<1>. QED BY <1>2, <1>3

\* A name and what comes after it: an operator, so that the provers see names
\* as wholes.
Suffixed(n, x) == n \o x

LEMMA Appended ==
  ASSUME NEW n \in Names, NEW x \in Names
  PROVE  Suffixed(n, x) \in Names
BY ConcatProperties DEF Names, Suffixed

LEMMA JoinName ==
  ASSUME NEW d \in Names, NEW n \in Names
  PROVE  Join(d, n) \in Names
<1>1. Suffixed(d, <<"/">>) \in Names
  BY OnePart, Marks, Appended
<1>2. Join(d, n) = Suffixed(Suffixed(d, <<"/">>), n)
  BY DEF Join, Suffixed
<1>. QED BY <1>1, <1>2, Appended

\* Names are put together in any order.
LEMMA Associated ==
  ASSUME NEW d \in Seq(Parts), NEW n \in Seq(Parts), NEW x \in Seq(Parts)
  PROVE  (d \o n) \o x = d \o (n \o x)
OBVIOUS

\* A suffix after a name that is joined to a directory is one after the name.
LEMMA Joined ==
  ASSUME NEW d \in Names, NEW n \in Names, NEW x \in Names
  PROVE  /\ Suffixed(Join(d, n), x) = Join(d, Suffixed(n, x))
         /\ Fits(Suffixed(Join(d, n), x)) => Fits(Join(d, n)) /\ Fits(Suffixed(n, x))
         /\ Fits(Suffixed(n, x)) => Fits(n)
<1>. DEFINE s == <<"/">>
<1>0. s \in Seq(Parts) /\ Len(s) = 1 /\ d \in Seq(Parts) /\ n \in Seq(Parts) /\ x \in Seq(Parts)
  BY OnePart, Marks DEF Names
<1>. HIDE DEF s
<1>1. d \o s \in Seq(Parts) /\ n \o x \in Seq(Parts) /\ (d \o s) \o n \in Seq(Parts)
  <2>1. d \o s \in Seq(Parts) /\ n \o x \in Seq(Parts)
    BY <1>0, Appended DEF Names, Suffixed
  <2>2. (d \o s) \o n \in Seq(Parts)
    BY <1>0, <2>1, Appended DEF Names, Suffixed
  <2>. QED BY <2>1, <2>2
<1>2. ((d \o s) \o n) \o x = (d \o s) \o (n \o x)
  <2>. DEFINE e == d \o s
  <2>1. e \in Seq(Parts)
    BY <1>1
  <2>. HIDE DEF e
  <2>2. (e \o n) \o x = e \o (n \o x)
    BY <1>0, <2>1, Associated, Zenon
  <2>. QED BY <2>2, Zenon DEF e
<1>3. /\ Len(d \o s) = Len(d) + 1 /\ Len(n \o x) = Len(n) + Len(x)
      /\ Len((d \o s) \o n) = Len(d) + 1 + Len(n)
      /\ Len(((d \o s) \o n) \o x) = Len(d) + 1 + Len(n) + Len(x)
      /\ Len(d) \in Nat /\ Len(n) \in Nat /\ Len(x) \in Nat
  <2>1. Len(d \o s) = Len(d) + Len(s) /\ Len(n \o x) = Len(n) + Len(x)
    BY <1>0, ConcatProperties
  <2>2. Len((d \o s) \o n) = Len(d \o s) + Len(n)
    BY <1>0, <1>1, ConcatProperties
  <2>3. Len(((d \o s) \o n) \o x) = Len((d \o s) \o n) + Len(x)
    BY <1>0, <1>1, ConcatProperties
  <2>4. Len(d) \in Nat /\ Len(n) \in Nat /\ Len(x) \in Nat
    BY <1>0, LenProperties
  <2>. QED BY <1>0, <2>1, <2>2, <2>3, <2>4
<1>4. Join(d, n) = (d \o s) \o n /\ Join(d, n \o x) = (d \o s) \o (n \o x)
  BY DEF Join, s
<1>5. MaxPath \in Nat
  BY ItemsOK
<1>6. Suffixed(Join(d, n), x) = Join(d, Suffixed(n, x))
  BY <1>2, <1>4 DEF Suffixed
<1>7. /\ Len(Join(d, n) \o x) = Len(d) + 1 + Len(n) + Len(x)
      /\ Len(Join(d, n)) = Len(d) + 1 + Len(n)
  BY <1>3, <1>4
<1>. QED BY <1>3, <1>5, <1>6, <1>7 DEF Fits, Suffixed

\* The suffixes: that of a library has no slash in it when the letters have none.
LEMMA Suffixes ==
  /\ inst_exec_suffix \in Names
  /\ \A k \in 1..Len(inst_exec_suffix) : inst_exec_suffix[k] # "/"
  /\ inst_dlib_suffix \in Names /\ inst_dlib_suffix # <<>>
  /\ Nameable => \A k \in 1..Len(inst_dlib_suffix) : inst_dlib_suffix[k] # "/"
<1>1. /\ inst_exec_suffix \in Names
      /\ \A k \in 1..Len(inst_exec_suffix) : inst_exec_suffix[k] # "/"
  <2>1. CASE env.os = "win32"
    <3>1. inst_exec_suffix = <<".exe">> /\ ".exe" # "/"
      BY <2>1 DEF inst_exec_suffix
    <3>. QED BY <3>1, OnePart, Marks
  <2>2. CASE env.os # "win32"
    <3>1. inst_exec_suffix = <<>>
      BY <2>2 DEF inst_exec_suffix
    <3>2. <<>> \in Seq(Parts) /\ Len(<<>>) = 0
      BY EmptySeq
    <3>. QED BY <3>1, <3>2 DEF Names
  <2>. QED BY <2>1, <2>2
<1>2. Sosuffix \in Seq(Parts) /\ Len(Sosuffix) \in Nat
  BY ItemsOK DEF Names
<1>. DEFINE bad == {k \in 1..Len(Sosuffix) : Sosuffix[k] \notin Clean}
            min == CHOOSE k \in bad : \A j \in bad : k <= j
            z   == IF bad = {} THEN Len(Sosuffix) ELSE min - 1
<1>3. z \in 0..Len(Sosuffix) /\ \A k \in 1..z : Sosuffix[k] \in Clean
  <2>1. CASE bad = {}
    BY <1>2, <2>1
  <2>2. CASE bad # {}
    <3>1. bad \subseteq Nat
      BY <1>2
    <3>2. min \in bad /\ \A y \in bad : min <= y
      <4>. HIDE DEF bad
      <4>. QED BY <2>2, <3>1, Least
    <3>. HIDE DEF min
    <3>. QED BY <1>2, <2>2, <3>2
  <2>. QED BY <2>1, <2>2
<1>4. install_suffix_sanitize(Sosuffix) = SubSeq(Sosuffix, 1, z)
  BY DEF install_suffix_sanitize
<1>. HIDE DEF z
<1>. DEFINE s == SubSeq(Sosuffix, 1, z)
<1>5. s \in Seq(Parts) /\ Len(s) = z /\ \A i \in 1..z : s[i] = Sosuffix[i]
  <2>1. z \in Int /\ z - 1 + 1 = z /\ (1 <= z \/ z = 0) /\ \A i \in 1..z : 1 + i - 1 = i
    BY <1>2, <1>3
  <2>2. \A i \in 1..z : Sosuffix[i] \in Parts
    BY <1>2, <1>3
  <2>. QED BY <2>1, <2>2, SubSeqProperties
<1>. HIDE DEF s
<1>. DEFINE p == <<".">>
<1>6. p \in Seq(Parts) /\ Len(p) = 1 /\ p[1] = "."
  BY OnePart, Marks DEF Names
<1>. HIDE DEF p
<1>7. /\ p \o s \in Seq(Parts) /\ Len(p \o s) = 1 + z
      /\ \A i \in 1..(1 + z) : (p \o s)[i] = IF i <= 1 THEN p[i] ELSE s[i - 1]
  <2>1. /\ p \o s \in Seq(Parts) /\ Len(p \o s) = Len(p) + Len(s)
        /\ \A i \in 1..(Len(p) + Len(s)) :
             (p \o s)[i] = IF i <= Len(p) THEN p[i] ELSE s[i - Len(p)]
    BY <1>5, <1>6, ConcatProperties
  <2>2. Len(p) = 1 /\ Len(s) = z
    BY <1>5, <1>6
  <2>. QED BY <2>1, <2>2
<1>8. inst_dlib_suffix = p \o s
  BY <1>4 DEF inst_dlib_suffix, p, s
<1>9. p \o s # <<>>
  BY <1>3, <1>7
<1>10. Nameable => \A i \in 1..(1 + z) : (p \o s)[i] # "/"
  <2>1. Nameable => "/" \notin Clean
    BY DEF Nameable
  <2>2. \A i \in 1..(1 + z) : i <= 1 => i = 1
    BY <1>3
  <2>3. \A i \in 1..(1 + z) : i <= 1 \/ i - 1 \in 1..z
    BY <1>3
  <2>. QED BY <1>3, <1>5, <1>6, <1>7, <2>1, <2>2, <2>3
<1>. QED BY <1>1, <1>7, <1>8, <1>9, <1>10 DEF Names

----------------------------------------------------------------------------
(* Buffers: what each step of a translation leaves in them. *)

Fields == {"src", "dst"}
Static == Buffers \ {"null", "item.src", "item.dst"}
Mem    == [src : Buffers, dst : Buffers, buf : [Buffers -> Names], ok : BOOLEAN]

\* A null pointer has no name, and nothing longer than a buffer is in one.
Sound(r) ==
  /\ r \in Mem
  /\ r.buf["null"] = <<>>
  /\ \A b \in Static : Fits(r.buf[b])

\* From r to s only ins->f has moved and only buffer b is written, unless
\* something has failed.
Moved(r, s, f, b) ==
  /\ Sound(s)
  /\ s.ok => /\ r.ok
             /\ \A g \in Fields : g # f => /\ s[g] = r[g]
                                           /\ r[g] # b => At(s, g) = At(r, g)

LEMMA AtName ==
  ASSUME NEW r, Sound(r), NEW f \in Fields
  PROVE  At(r, f) \in Names /\ r[f] \in Buffers
BY DEF Sound, Mem, At, Fields

LEMMA SetMoves ==
  ASSUME NEW r, Sound(r), NEW f \in Fields, NEW b \in Static, NEW n \in Names,
         r.ok => Fits(n)
  PROVE  /\ Moved(r, Set(r, f, b, n), f, b)
         /\ Set(r, f, b, n).ok = r.ok
         /\ r.ok => Set(r, f, b, n)[f] = b /\ At(Set(r, f, b, n), f) = n
<1>. DEFINE s == Set(r, f, b, n)
<1>1. CASE ~r.ok
  <2>1. s = r
    BY <1>1 DEF Set
  <2>. QED BY <1>1, <2>1 DEF Moved
<1>2. CASE r.ok
  <2>1. s = [r EXCEPT !.buf[b] = n, ![f] = b]
    BY <1>2 DEF Set
  <2>2. r \in Mem /\ b \in Buffers /\ b # "null" /\ r.ok = TRUE
    BY <1>2 DEF Sound, Static, Mem
  <2>3. CASE f = "src"
    <3>1. s = [src |-> b, dst |-> r.dst, buf |-> [r.buf EXCEPT ![b] = n], ok |-> r.ok]
      BY <2>1, <2>2, <2>3 DEF Mem
    <3>2. s.buf["null"] = <<>> /\ \A c \in Static : Fits(s.buf[c])
      BY <3>1, <2>2, <1>2 DEF Sound, Mem, Static
    <3>3. Sound(s)
      BY <3>1, <3>2, <2>2 DEF Sound, Mem
    <3>. QED BY <2>2, <2>3, <3>1, <3>3 DEF Moved, At, Fields, Mem
  <2>4. CASE f = "dst"
    <3>1. s = [src |-> r.src, dst |-> b, buf |-> [r.buf EXCEPT ![b] = n], ok |-> r.ok]
      BY <2>1, <2>2, <2>4 DEF Mem
    <3>2. s.buf["null"] = <<>> /\ \A c \in Static : Fits(s.buf[c])
      BY <3>1, <2>2, <1>2 DEF Sound, Mem, Static
    <3>3. Sound(s)
      BY <3>1, <3>2, <2>2 DEF Sound, Mem
    <3>. QED BY <2>2, <2>4, <3>1, <3>3 DEF Moved, At, Fields, Mem
  <2>. QED BY <2>3, <2>4 DEF Fields
<1>. QED BY <1>1, <1>2

LEMMA RequireKeeps ==
  ASSUME NEW r, Sound(r), NEW c \in BOOLEAN
  PROVE  /\ Sound(Require(r, c))
         /\ Require(r, c).ok = (r.ok /\ c)
         /\ \A f \in Fields : Require(r, c)[f] = r[f] /\ At(Require(r, c), f) = At(r, f)
<1>1. Require(r, c) = [src |-> r.src, dst |-> r.dst, buf |-> r.buf, ok |-> r.ok /\ c]
  BY DEF Require, Sound, Mem
<1>. QED BY <1>1 DEF Sound, Mem, Fields, At

LEMMA DefaultsKeep ==
  ASSUME NEW r, Sound(r)
  PROVE  /\ Sound(ItemDefaults(r)) /\ ItemDefaults(r).ok = r.ok
         /\ ItemDefaults(r).src = r.src /\ At(ItemDefaults(r), "src") = At(r, "src")
         /\ ItemDefaults(r).dst = IF r.dst = "null" THEN r.src ELSE r.dst
         /\ At(ItemDefaults(r), "dst") = IF r.dst = "null" THEN At(r, "src") ELSE At(r, "dst")
<1>1. CASE r.dst = "null"
  <2>1. ItemDefaults(r) = [src |-> r.src, dst |-> r.src, buf |-> r.buf, ok |-> r.ok]
    BY <1>1 DEF ItemDefaults, Defined, Sound, Mem
  <2>. QED BY <1>1, <2>1 DEF Sound, Mem, At
<1>2. CASE r.dst # "null"
  BY <1>2 DEF ItemDefaults, Defined
<1>. QED BY <1>1, <1>2

\* What a name stands for, and whether it can be read.
Read(n)  == IF str_ends(n, ".vlb") THEN Words[n] ELSE n
Known(n) == str_ends(n, ".vlb") => n \in DOMAIN Words

LEMMA ReadName ==
  ASSUME NEW n \in Names, Known(n)
  PROVE  Read(n) \in Names
BY ItemsOK DEF Read, Known

LEMMA LibraryMoves ==
  ASSUME NEW r, Sound(r), NEW f \in Fields, NEW b \in Static
  PROVE  /\ Moved(r, Library(r, f, b), f, b)
         /\ Library(r, f, b).ok => /\ Known(At(r, f))
                                   /\ Library(r, f, b)[f] \in {r[f], b}
                                   /\ At(Library(r, f, b), f) = Read(At(r, f))
<1>1. CASE ~str_ends(At(r, f), ".vlb")
  <2>1. Library(r, f, b) = r
    BY <1>1 DEF Library
  <2>. QED BY <1>1, <2>1 DEF Moved, Known, Read
<1>2. CASE str_ends(At(r, f), ".vlb") /\ At(r, f) \in DOMAIN Words
  <2>. DEFINE w == Words[At(r, f)]
  <2>1. Library(r, f, b) = Set(r, f, b, w)
    BY <1>2 DEF Library
  <2>2. w \in Names /\ Fits(w)
    BY <1>2, ItemsOK, WordsFit DEF Fits
  <2>3. Read(At(r, f)) = w /\ Known(At(r, f))
    BY <1>2 DEF Read, Known
  <2>. HIDE DEF w
  <2>4. /\ Moved(r, Set(r, f, b, w), f, b)
        /\ Set(r, f, b, w).ok = r.ok
        /\ r.ok => Set(r, f, b, w)[f] = b /\ At(Set(r, f, b, w), f) = w
    BY <2>2, SetMoves
  <2>. QED BY <2>1, <2>3, <2>4
<1>3. CASE str_ends(At(r, f), ".vlb") /\ At(r, f) \notin DOMAIN Words
  <2>1. Library(r, f, b) = Require(r, FALSE)
    BY <1>3 DEF Library
  <2>2. Sound(Require(r, FALSE)) /\ ~Require(r, FALSE).ok
    BY RequireKeeps
  <2>. QED BY <2>1, <2>2 DEF Moved
<1>. QED BY <1>1, <1>2, <1>3

LEMMA BaseNameMoves ==
  ASSUME NEW r, Sound(r), NEW f \in Fields
  PROVE  /\ Moved(r, BaseName(r, f), f, "base_name.path_buf")
         /\ BaseName(r, f).ok => /\ BaseName(r, f)[f] = "base_name.path_buf"
                                 /\ At(BaseName(r, f), f) = base_name(At(r, f))
<1>. DEFINE n == At(r, f)
            b == "base_name.path_buf"
            w == base_name(n)
<1>0. b \in Static
  BY DEF Static, Buffers
<1>1. CASE Len(n) < MaxPath
  <2>1. BaseName(r, f) = Set(r, f, b, w)
    BY <1>1 DEF BaseName
  <2>2. n \in Names
    BY AtName
  <2>. HIDE DEF n
  <2>3. w \in Names /\ (Len(w) <= Len(n) \/ Len(w) = 1)
    BY <2>2, BaseNameOfName
  <2>. HIDE DEF w
  <2>4. Fits(w)
    <3>1. Len(w) \in Nat /\ Len(n) \in Nat /\ MaxPath \in Nat \ {0, 1}
      BY <2>2, <2>3, ItemsOK DEF Names
    <3>. QED BY <1>1, <2>3, <3>1 DEF Fits
  <2>. HIDE DEF b
  <2>5. /\ Moved(r, Set(r, f, b, w), f, b)
        /\ Set(r, f, b, w).ok = r.ok
        /\ r.ok => Set(r, f, b, w)[f] = b /\ At(Set(r, f, b, w), f) = w
    BY <1>0, <2>3, <2>4, SetMoves
  <2>6. Set(r, f, b, w).ok => Set(r, f, b, w)[f] = b /\ At(Set(r, f, b, w), f) = w
    BY <2>5
  <2>. QED BY <2>1, <2>5, <2>6 DEF n, b, w
<1>2. CASE ~(Len(n) < MaxPath)
  <2>1. BaseName(r, f) = Require(r, FALSE)
    BY <1>2 DEF BaseName
  <2>2. Sound(Require(r, FALSE)) /\ ~Require(r, FALSE).ok
    BY RequireKeeps
  <2>. QED BY <2>1, <2>2 DEF Moved
<1>. QED BY <1>1, <1>2

----------------------------------------------------------------------------
(* Translations: the names each of them gives. *)

\* What a translation starts from: the pointers of an item.
Ready(r) == Sound(r) /\ r.ok /\ {r.src, r.dst} \subseteq {"null", "item.src", "item.dst"}
DstOf(r) == IF r.dst = "null" THEN At(r, "src") ELSE At(r, "dst")

\* The names of ntran_copy, before a suffix.
Copied(r, s, d) ==
  /\ Sound(s)
  /\ s.ok => /\ r.src # "null" /\ Known(At(r, "src")) /\ Known(DstOf(r))
             /\ At(s, "src") = Read(At(r, "src"))
             /\ At(s, "dst") = snprintf(Join(d, base_name(Read(DstOf(r)))))
             /\ s.dst = "ntran_copy.dst_tmp"

LEMMA CopyNames ==
  ASSUME NEW r, Ready(r), NEW d \in Names
  PROVE  Copied(r, ntran_copy(r, d), d)
<1>. DEFINE r0 == Require(r, Defined(r, "src"))
            r1 == ItemDefaults(r0)
            r2 == Library(r1, "src", "ntran_copy.src_name")
            r3 == Library(r2, "dst", "ntran_copy.dst_name")
            r4 == BaseName(r3, "dst")
            n  == snprintf(Join(d, At(r4, "dst")))
            r5 == Set(r4, "dst", "ntran_copy.dst_tmp", n)
<1>0. /\ "src" \in Fields /\ "dst" \in Fields /\ "src" # "dst"
      /\ {"ntran_copy.src_name", "ntran_copy.dst_name", "ntran_copy.dst_tmp"} \subseteq Static
  BY DEF Fields, Static, Buffers
<1>1. /\ Sound(r0) /\ r0.ok = (r.src # "null")
      /\ r0.src = r.src /\ r0.dst = r.dst
      /\ At(r0, "src") = At(r, "src") /\ At(r0, "dst") = At(r, "dst")
  <2>. DEFINE c == Defined(r, "src")
  <2>1. c \in BOOLEAN /\ Sound(r)
    BY DEF Defined, Ready
  <2>0. c = (r.src # "null") /\ r.ok
    BY DEF Defined, Ready
  <2>. HIDE DEF c
  <2>2. /\ Sound(r0) /\ r0.ok = (r.ok /\ c)
        /\ \A f \in Fields : r0[f] = r[f] /\ At(r0, f) = At(r, f)
    <3>1. r0 = Require(r, c)
      BY DEF c
    <3>. HIDE DEF r0
    <3>2. /\ Sound(Require(r, c)) /\ Require(r, c).ok = (r.ok /\ c)
          /\ \A f \in Fields : Require(r, c)[f] = r[f] /\ At(Require(r, c), f) = At(r, f)
      BY <2>1, RequireKeeps
    <3>. QED BY <3>1, <3>2
  <2>. QED BY <1>0, <2>0, <2>2
<1>. HIDE DEF r0
<1>2. /\ Sound(r1) /\ r1.ok = (r.src # "null")
      /\ r1.src \in {"null", "item.src", "item.dst"} /\ r1.dst \in {"null", "item.src", "item.dst"}
      /\ At(r1, "src") = At(r, "src") /\ At(r1, "dst") = DstOf(r)
  BY <1>1, DefaultsKeep DEF Ready, DstOf
<1>. HIDE DEF r1
<1>3. /\ Sound(r2)
      /\ r2.ok => /\ r.src # "null" /\ Known(At(r, "src"))
                  /\ r2.src \in {"null", "item.src", "item.dst", "ntran_copy.src_name"}
                  /\ r2.dst \in {"null", "item.src", "item.dst"}
                  /\ At(r2, "src") = Read(At(r, "src")) /\ At(r2, "dst") = DstOf(r)
  <2>1. /\ Moved(r1, r2, "src", "ntran_copy.src_name")
        /\ r2.ok => /\ Known(At(r1, "src"))
                    /\ r2.src \in {r1.src, "ntran_copy.src_name"}
                    /\ At(r2, "src") = Read(At(r1, "src"))
    BY <1>0, <1>2, LibraryMoves
  <2>. HIDE DEF r2
  <2>2. Sound(r2) /\ (r2.ok => r1.ok /\ r2.dst = r1.dst
                               /\ (r1.dst # "ntran_copy.src_name" => At(r2, "dst") = At(r1, "dst")))
    BY <1>0, <2>1 DEF Moved
  <2>. QED BY <1>2, <2>1, <2>2
<1>. HIDE DEF r2
<1>4. /\ Sound(r3)
      /\ r3.ok => /\ r2.ok /\ Known(DstOf(r))
                  /\ r3.src \in {"null", "item.src", "item.dst", "ntran_copy.src_name"}
                  /\ At(r3, "src") = Read(At(r, "src")) /\ At(r3, "dst") = Read(DstOf(r))
  <2>1. /\ Moved(r2, r3, "dst", "ntran_copy.dst_name")
        /\ r3.ok => Known(At(r2, "dst")) /\ At(r3, "dst") = Read(At(r2, "dst"))
    BY <1>0, <1>3, LibraryMoves
  <2>. HIDE DEF r3
  <2>2. Sound(r3) /\ (r3.ok => r2.ok /\ r3.src = r2.src
                               /\ (r2.src # "ntran_copy.dst_name" => At(r3, "src") = At(r2, "src")))
    BY <1>0, <2>1 DEF Moved
  <2>. QED BY <1>3, <2>1, <2>2
<1>. HIDE DEF r3
<1>5. /\ Sound(r4)
      /\ r4.ok => /\ r3.ok
                  /\ r4.src \in {"null", "item.src", "item.dst", "ntran_copy.src_name"}
                  /\ At(r4, "src") = Read(At(r, "src"))
                  /\ At(r4, "dst") = base_name(Read(DstOf(r)))
  BY <1>0, <1>4, BaseNameMoves DEF Moved
<1>. HIDE DEF r4
<1>6. n \in Names /\ Fits(n)
  <2>1. At(r4, "dst") \in Names
    BY <1>0, <1>5, AtName
  <2>2. Join(d, At(r4, "dst")) \in Names
    BY <2>1, JoinName
  <2>. QED BY <2>2, SnprintfFits
<1>7. r4.ok => n = snprintf(Join(d, base_name(Read(DstOf(r)))))
  BY <1>5
<1>. HIDE DEF n
<1>8. /\ Sound(r5)
      /\ r5.ok => /\ r4.ok /\ r5.dst = "ntran_copy.dst_tmp"
                  /\ At(r5, "src") = Read(At(r, "src")) /\ At(r5, "dst") = n
  BY <1>0, <1>5, <1>6, SetMoves DEF Moved
<1>9. ntran_copy(r, d) = r5
  BY DEF ntran_copy, r0, r1, r2, r3, r4, n
<1>. HIDE DEF r5
<1>. QED BY <1>3, <1>4, <1>5, <1>7, <1>8, <1>9 DEF Copied

\* ntran_copy_exec puts the suffix of the system after both.
LEMMA ExecNames ==
  ASSUME NEW r, Ready(r), NEW d \in Names
  PROVE  LET s == ntran_copy_exec(r, d)
             x == inst_exec_suffix
             j == Join(d, base_name(Read(DstOf(r))))
         IN /\ Sound(s)
            /\ s.ok => /\ r.src # "null" /\ Known(At(r, "src")) /\ Known(DstOf(r))
                       /\ At(s, "src") = snprintf(Suffixed(Read(At(r, "src")), x))
                       /\ At(s, "dst") = snprintf(Suffixed(snprintf(j), x))
<1>. DEFINE x  == inst_exec_suffix
            j  == Join(d, base_name(Read(DstOf(r))))
            r1 == ntran_copy(r, d)
            a  == snprintf(Suffixed(At(r1, "src"), x))
            b  == snprintf(Suffixed(At(r1, "dst"), x))
            r2 == Set(r1, "src", "ntran_copy_exec.src_name", a)
            r3 == Set(r2, "dst", "ntran_copy_exec.dst_name", b)
<1>0. /\ "src" \in Fields /\ "dst" \in Fields /\ "src" # "dst"
      /\ {"ntran_copy_exec.src_name", "ntran_copy_exec.dst_name"} \subseteq Static
  BY DEF Fields, Static, Buffers
<1>1. Copied(r, r1, d)
  BY CopyNames
<1>2. ntran_copy_exec(r, d) = r3
  BY DEF ntran_copy_exec, Suffixed
<1>. HIDE DEF r1
<1>3. Sound(r1) /\ At(r1, "src") \in Names /\ At(r1, "dst") \in Names
  BY <1>0, <1>1, AtName DEF Copied
<1>4. x \in Names
  BY Suffixes
<1>. HIDE DEF x
<1>5. a \in Names /\ Fits(a) /\ b \in Names /\ Fits(b)
  <2>1. Suffixed(At(r1, "src"), x) \in Names /\ Suffixed(At(r1, "dst"), x) \in Names
    BY <1>3, <1>4, Appended
  <2>. QED BY <2>1, SnprintfFits
<1>6. r1.ok => /\ a = snprintf(Suffixed(Read(At(r, "src")), x))
               /\ b = snprintf(Suffixed(snprintf(j), x))
               /\ r.src # "null" /\ Known(At(r, "src")) /\ Known(DstOf(r))
  BY <1>1 DEF Copied
<1>. HIDE DEF a, b
<1>7. /\ Sound(r2)
      /\ r2.ok => r1.ok /\ r2.src = "ntran_copy_exec.src_name" /\ At(r2, "src") = a
  BY <1>0, <1>3, <1>5, SetMoves DEF Moved
<1>. HIDE DEF r2
<1>8. /\ Sound(r3)
      /\ r3.ok => r2.ok /\ At(r3, "src") = a /\ At(r3, "dst") = b
  <2>1. /\ Moved(r2, r3, "dst", "ntran_copy_exec.dst_name") /\ r3.ok = r2.ok
        /\ r2.ok => At(r3, "dst") = b
    BY <1>0, <1>5, <1>7, SetMoves
  <2>. HIDE DEF r3
  <2>2. Sound(r3) /\ (r3.ok => r2.ok
                      /\ (r2.src # "ntran_copy_exec.dst_name" => At(r3, "src") = At(r2, "src")))
    BY <1>0, <2>1 DEF Moved
  <2>. QED BY <1>7, <2>1, <2>2
<1>. HIDE DEF r3
<1>. QED BY <1>2, <1>6, <1>7, <1>8 DEF x

\* ntran_link wants both names and leaves them as they are.
LEMMA LinkNames ==
  ASSUME NEW r, Ready(r), NEW d
  PROVE  /\ Ready(ntran_link(r, d)) \/ ~ntran_link(r, d).ok
         /\ Sound(ntran_link(r, d))
         /\ ntran_link(r, d).ok => r.src # "null" /\ r.dst # "null"
         /\ ntran_link(r, d).src = r.src /\ ntran_link(r, d).dst = r.dst
         /\ \A f \in Fields : At(ntran_link(r, d), f) = At(r, f)
<1>1. /\ Sound(ntran_link(r, d))
      /\ ntran_link(r, d).ok = (r.ok /\ r.src # "null" /\ r.dst # "null")
      /\ \A f \in Fields : /\ ntran_link(r, d)[f] = r[f]
                           /\ At(ntran_link(r, d), f) = At(r, f)
  <2>. DEFINE c == Defined(r, "src") /\ Defined(r, "dst")
  <2>1. c \in BOOLEAN /\ ntran_link(r, d) = Require(r, c) /\ Sound(r)
    BY DEF ntran_link, Ready
  <2>2. c = (r.src # "null" /\ r.dst # "null")
    BY DEF Defined
  <2>. HIDE DEF c
  <2>3. /\ Sound(Require(r, c)) /\ Require(r, c).ok = (r.ok /\ c)
        /\ \A f \in Fields : Require(r, c)[f] = r[f] /\ At(Require(r, c), f) = At(r, f)
    BY <2>1, RequireKeeps
  <2>. QED BY <2>1, <2>2, <2>3
<1>. QED BY <1>1 DEF Ready, Fields

\* ntran_liblink gives a link the suffix of shared libraries, and one to a
\* library the last part of its name.
LEMMA LiblinkNames ==
  ASSUME NEW r, Ready(r), NEW d
  PROVE  LET s == ntran_liblink(r, d)
             n == At(r, "src")
         IN /\ Sound(s)
            /\ s.ok => /\ r.src # "null" /\ r.dst # "null"
                       /\ At(s, "src") = IF str_ends(n, ".vlb") THEN base_name(Words[n]) ELSE n
                       /\ At(s, "dst") = snprintf(Suffixed(base_name(At(r, "dst")), inst_dlib_suffix))
                       /\ s.src # "ntran_chk_liblink.dst_name"
<1>. DEFINE n  == At(r, "src")
            x  == inst_dlib_suffix
            r0 == ntran_link(r, d)
            ra == Library(r0, "src", "ntran_liblink.src_tmp")
            r1 == BaseName(ra, "src")
            rb == Set(r1, "src", "ntran_liblink.src_name", At(r1, "src"))
            r2 == IF str_ends(At(r0, "src"), ".vlb") THEN rb ELSE r0
            r3 == BaseName(r2, "dst")
            a  == snprintf(Suffixed(At(r3, "dst"), x))
            r4 == Set(r3, "dst", "ntran_liblink.dst_tmp", a)
            Src == IF str_ends(n, ".vlb") THEN base_name(Words[n]) ELSE n
<1>a. ntran_liblink(r, d) = r4
  BY DEF ntran_liblink, Suffixed
<1>0. /\ "src" \in Fields /\ "dst" \in Fields /\ "src" # "dst"
      /\ {"base_name.path_buf", "ntran_liblink.src_tmp", "ntran_liblink.src_name",
          "ntran_liblink.dst_tmp"} \subseteq Static
  BY DEF Fields, Static, Buffers
<1>1. /\ Sound(r0) /\ At(r0, "src") = n /\ At(r0, "dst") = At(r, "dst")
      /\ {r0.src, r0.dst} \subseteq {"null", "item.src", "item.dst"}
      /\ r0.ok => r.src # "null" /\ r.dst # "null"
  BY <1>0, LinkNames DEF Ready
<1>. HIDE DEF r0
<1>2. /\ Sound(ra)
      /\ ra.ok => /\ r0.ok /\ ra.dst = r0.dst /\ At(ra, "dst") = At(r, "dst")
                  /\ At(ra, "src") = Read(n)
  <2>1. /\ Moved(r0, ra, "src", "ntran_liblink.src_tmp")
        /\ ra.ok => At(ra, "src") = Read(n)
    BY <1>0, <1>1, LibraryMoves
  <2>. HIDE DEF ra
  <2>2. Sound(ra) /\ (ra.ok => r0.ok /\ ra.dst = r0.dst
                               /\ (r0.dst # "ntran_liblink.src_tmp" => At(ra, "dst") = At(r0, "dst")))
    BY <1>0, <2>1 DEF Moved
  <2>. QED BY <1>1, <2>1, <2>2
<1>. HIDE DEF ra
<1>3. /\ Sound(r1)
      /\ r1.ok => /\ r0.ok /\ r1.dst = r0.dst /\ At(r1, "dst") = At(r, "dst")
                  /\ At(r1, "src") = base_name(Read(n))
                  /\ r1.src = "base_name.path_buf"
  <2>1. /\ Moved(ra, r1, "src", "base_name.path_buf")
        /\ r1.ok => r1.src = "base_name.path_buf" /\ At(r1, "src") = base_name(At(ra, "src"))
    BY <1>0, <1>2, BaseNameMoves
  <2>. HIDE DEF r1
  <2>2. Sound(r1) /\ (r1.ok => ra.ok /\ r1.dst = ra.dst
                               /\ (ra.dst # "base_name.path_buf" => At(r1, "dst") = At(ra, "dst")))
    BY <1>0, <2>1 DEF Moved
  <2>. QED BY <1>1, <1>2, <2>1, <2>2
<1>. HIDE DEF r1
<1>4. /\ Sound(rb)
      /\ rb.ok => /\ r0.ok /\ rb.dst = r0.dst /\ At(rb, "dst") = At(r, "dst")
                  /\ At(rb, "src") = base_name(Read(n))
                  /\ rb.src = "ntran_liblink.src_name"
  <2>1. At(r1, "src") \in Names /\ (r1.ok => Fits(At(r1, "src")))
    <3>1. r1.ok => Fits(r1.buf["base_name.path_buf"])
      BY <1>0, <1>3 DEF Sound
    <3>. QED BY <1>0, <1>3, <3>1, AtName DEF At
  <2>2. /\ Moved(r1, rb, "src", "ntran_liblink.src_name")
        /\ rb.ok = r1.ok
        /\ r1.ok => rb.src = "ntran_liblink.src_name" /\ At(rb, "src") = At(r1, "src")
    BY <1>0, <1>3, <2>1, SetMoves
  <2>. HIDE DEF rb
  <2>3. Sound(rb) /\ (rb.ok => r1.ok /\ rb.dst = r1.dst
                               /\ (r1.dst # "ntran_liblink.src_name" => At(rb, "dst") = At(r1, "dst")))
    BY <1>0, <2>2 DEF Moved
  <2>. QED BY <1>1, <1>3, <2>2, <2>3
<1>. HIDE DEF rb
<1>5. /\ Sound(r2)
      /\ r2.ok => /\ r0.ok /\ At(r2, "dst") = At(r, "dst") /\ At(r2, "src") = Src
                  /\ r2.src \in {"null", "item.src", "item.dst", "ntran_liblink.src_name"}
  <2>1. CASE str_ends(n, ".vlb")
    <3>1. r2 = rb /\ Src = base_name(Read(n))
      BY <1>1, <2>1 DEF Read
    <3>. QED BY <3>1, <1>4
  <2>2. CASE ~str_ends(n, ".vlb")
    <3>1. r2 = r0 /\ Src = n
      BY <1>1, <2>2
    <3>. QED BY <3>1, <1>1
  <2>. QED BY <2>1, <2>2
<1>. HIDE DEF r2, Src
<1>6. /\ Sound(r3)
      /\ r3.ok => /\ r2.ok /\ At(r3, "src") = Src
                  /\ At(r3, "dst") = base_name(At(r, "dst"))
                  /\ r3.src \in {"null", "item.src", "item.dst", "ntran_liblink.src_name"}
  <2>1. /\ Moved(r2, r3, "dst", "base_name.path_buf")
        /\ r3.ok => At(r3, "dst") = base_name(At(r2, "dst"))
    BY <1>0, <1>5, BaseNameMoves
  <2>. HIDE DEF r3
  <2>2. Sound(r3) /\ (r3.ok => r2.ok /\ r3.src = r2.src
                               /\ (r2.src # "base_name.path_buf" => At(r3, "src") = At(r2, "src")))
    BY <1>0, <2>1 DEF Moved
  <2>. QED BY <1>5, <2>1, <2>2
<1>. HIDE DEF r3
<1>7. a \in Names /\ Fits(a)
  <2>1. At(r3, "dst") \in Names /\ x \in Names
    BY <1>0, <1>6, AtName, Suffixes
  <2>2. Suffixed(At(r3, "dst"), x) \in Names
    BY <2>1, Appended
  <2>. QED BY <2>2, SnprintfFits
<1>8. r3.ok => a = snprintf(Suffixed(base_name(At(r, "dst")), x))
  BY <1>6
<1>. HIDE DEF a
<1>9. /\ Sound(r4)
      /\ r4.ok => r3.ok /\ At(r4, "dst") = a /\ At(r4, "src") = Src /\ r4.src = r3.src
  <2>1. /\ Moved(r3, r4, "dst", "ntran_liblink.dst_tmp") /\ r4.ok = r3.ok
        /\ r3.ok => At(r4, "dst") = a
    BY <1>0, <1>6, <1>7, SetMoves
  <2>. HIDE DEF r4
  <2>2. Sound(r4) /\ (r4.ok => r3.ok /\ r4.src = r3.src
                               /\ (r3.src # "ntran_liblink.dst_tmp" => At(r4, "src") = At(r3, "src")))
    BY <1>0, <2>1 DEF Moved
  <2>. QED BY <1>6, <2>1, <2>2
<1>. HIDE DEF r4
<1>10. r4.ok => r0.ok /\ r4.src # "ntran_chk_liblink.dst_name"
  BY <1>5, <1>6, <1>9
<1>. QED BY <1>a, <1>1, <1>8, <1>9, <1>10 DEF Src, x, n

\* instchk joins the name of a link to its directory.
LEMMA Checked ==
  ASSUME NEW r, Sound(r), NEW d \in Names, NEW b \in Static, r.src # b \/ ~r.ok
  PROVE  LET s == Set(r, "dst", b, snprintf(Join(d, At(r, "dst"))))
         IN /\ Sound(s) /\ s.ok = r.ok
            /\ s.ok => /\ At(s, "src") = At(r, "src")
                       /\ At(s, "dst") = snprintf(Join(d, At(r, "dst")))
<1>. DEFINE a == snprintf(Join(d, At(r, "dst")))
            s == Set(r, "dst", b, a)
<1>0. "src" \in Fields /\ "dst" \in Fields /\ "src" # "dst"
  BY DEF Fields
<1>1. a \in Names /\ Fits(a)
  <2>1. At(r, "dst") \in Names
    BY <1>0, AtName
  <2>2. Join(d, At(r, "dst")) \in Names
    BY <2>1, JoinName
  <2>. QED BY <2>2, SnprintfFits
<1>. HIDE DEF a
<1>2. Moved(r, s, "dst", b) /\ s.ok = r.ok /\ (r.ok => At(s, "dst") = a)
  BY <1>0, <1>1, SetMoves
<1>. HIDE DEF s
<1>3. Sound(s) /\ (s.ok => r.ok /\ (r.src # b => At(s, "src") = At(r, "src")))
  BY <1>0, <1>2 DEF Moved
<1>. QED BY <1>2, <1>3 DEF s, a

----------------------------------------------------------------------------
(* An item: its translation gives the names that are meant. *)

\* The pointers r are those of item i, before it is translated.
Given(r, i) ==
  /\ Ready(r)
  /\ r.src = "null" <=> i.src = Missing
  /\ r.dst = "null" <=> i.dst = Missing
  /\ i.src # Missing => At(r, "src") = i.src
  /\ i.src = Missing => At(r, "src") = <<>>
  /\ i.dst # Missing => At(r, "dst") = i.dst

\* The target of item i when its pointers are r.
TargetOf(r, i) ==
  IF i.op = "mkdir" THEN i.dir
  ELSE IF i.op \in {"copy", "exec"} \/ env.prog = "instchk" THEN At(r, "dst")
  ELSE IF env.prog = "installer" THEN From(i.dir, At(r, "dst"))
  ELSE deinst_link(i.dir, At(r, "dst"))

\* A name of one part, that can be that of a file.
Single(n) ==
  n \in Names /\ n \notin {<<>>, <<".">>} /\ \A k \in 1..Len(n) : n[k] # "/"

AsMeant(r, i) ==
  /\ Meant(i) = [src |-> Meant(i).src, target |-> Meant(i).target]
  /\ Fits(Meant(i).src) => At(r, "src") = Meant(i).src
  /\ Fits(Meant(i).target) => TargetOf(r, i) = Meant(i).target
  /\ i.op \in {"copy", "exec", "liblink"} =>
       \E n \in Names : Meant(i).target = Join(i.dir, n) /\ Single(n)

\* The last part of the name of a file, with a suffix, is one part of a name.
LEMMA LastPart ==
  ASSUME NEW n \in Names, NamesAFile(n), NEW x \in Names, \A k \in 1..Len(x) : x[k] # "/"
  PROVE  Single(Suffixed(base_name(n), x))
<1>. DEFINE b == base_name(n)
<1>1. /\ b \in Seq(Parts) /\ b # <<>> /\ b # <<".">> /\ x \in Seq(Parts)
      /\ \A k \in 1..Len(b) : b[k] # "/"
  BY BaseNameOfName DEF Names
<1>. HIDE DEF b
<1>2. /\ b \o x \in Seq(Parts) /\ Len(b \o x) = Len(b) + Len(x)
      /\ \A i \in 1..(Len(b) + Len(x)) : (b \o x)[i] = IF i <= Len(b) THEN b[i] ELSE x[i - Len(b)]
  BY <1>1, ConcatProperties
<1>3. Len(b) \in Nat /\ Len(b) # 0 /\ Len(x) \in Nat
  BY <1>1, EmptySeq
<1>4. \A k \in 1..Len(b \o x) : (b \o x)[k] # "/"
  <2>1. ASSUME NEW k \in 1..(Len(b) + Len(x)) PROVE (b \o x)[k] # "/"
    <3>1. k \in 1..Len(b) \/ (k - Len(b) \in 1..Len(x) /\ ~(k <= Len(b)))
      BY <1>3
    <3>. QED BY <3>1, <1>1, <1>2, <1>3
  <2>. QED BY <2>1, <1>2
<1>5. b \o x # <<>>
  BY <1>2, <1>3
<1>6. b \o x # <<".">>
  <2>1. ASSUME b \o x = <<".">> PROVE FALSE
    <3>1. Len(b \o x) = 1
      BY <2>1
    <3>2. Len(x) = 0
      BY <3>1, <1>2, <1>3
    <3>3. x = <<>>
      BY <3>2, <1>1, EmptySeq
    <3>4. b \o x = b
      BY <3>3, <1>1, ConcatEmptySeq
    <3>. QED BY <3>4, <2>1, <1>1
  <2>. QED BY <2>1
<1>. QED BY <1>2, <1>4, <1>5, <1>6 DEF Single, Names, Suffixed, b

\* A name that does not begin with a slash is found from the directory.
LEMMA FromDirectory ==
  ASSUME NEW d, NEW n \in Names, n # <<>> => n[1] # "/"
  PROVE  From(d, n) = Join(d, n)
BY DEF From

LEMMA ItemType ==
  ASSUME NEW i \in Items
  PROVE  /\ i.op \in Ops /\ i.dir \in Names
         /\ i.src # Missing => i.src \in Names
         /\ i.dst # Missing => i.dst \in Names
BY ItemsOK

LEMMA NameableItem ==
  ASSUME Nameable, NEW i \in Items
  PROVE  /\ i.op \in {"copy", "exec"} =>
              LET dst == IF i.dst = Missing THEN i.src ELSE i.dst
              IN dst # Missing /\ ~str_ends(dst, ".vlb") => NamesAFile(dst)
         /\ i.op = "liblink" => (i.dst # Missing => NamesAFile(i.dst))
         /\ i.op = "link" => (i.dst # Missing /\ i.dst # <<>> => i.dst[1] # "/")
<1>1. CASE i.op \in {"copy", "exec"}
  <2>1. i.op # "liblink" /\ i.op # "link"
    BY <1>1
  <2>2. LET dst == IF i.dst = Missing /\ i.op # "liblink" THEN i.src ELSE i.dst
        IN dst # Missing /\ ~str_ends(dst, ".vlb") => NamesAFile(dst)
    BY <1>1 DEF Nameable
  <2>. QED BY <2>1, <2>2
<1>2. CASE i.op = "liblink"
  BY <1>2 DEF Nameable
<1>3. CASE i.op = "link"
  BY <1>3 DEF Nameable
<1>. QED BY <1>1, <1>2, <1>3

\* ntran_copy and ntran_copy_exec.
LEMMA CopyMeant ==
  ASSUME NEW i \in Items, i.op \in {"copy", "exec"}, NEW r, Given(r, i)
  PROVE  /\ Sound(trans(r, i))
         /\ trans(r, i).ok /\ Nameable => AsMeant(trans(r, i), i)
<1>. DEFINE s == trans(r, i)
            x == IF i.op = "exec" THEN inst_exec_suffix ELSE <<>>
            n == DstOf(r)
            b == base_name(Read(n))
            j == Join(i.dir, b)
<1>0. i.dir \in Names /\ x \in Names /\ \A k \in 1..Len(x) : x[k] # "/"
  <2>1. <<>> \in Names /\ Len(<<>>) = 0
    BY EmptySeq DEF Names
  <2>2. \A k \in 1..0 : <<>>[k] # "/"
    OBVIOUS
  <2>. QED BY <2>1, <2>2, ItemType, Suffixes
<1>1. /\ Sound(s)
      /\ s.ok => /\ r.src # "null" /\ Known(At(r, "src")) /\ Known(n)
                 /\ Fits(Suffixed(Read(At(r, "src")), x)) => At(s, "src") = Suffixed(Read(At(r, "src")), x)
                 /\ Fits(Suffixed(j, x)) => At(s, "dst") = Suffixed(j, x)
                 /\ Suffixed(b, x) \in Names /\ Suffixed(j, x) = Join(i.dir, Suffixed(b, x))
  <2>0. At(r, "src") \in Names /\ n \in Names
    BY AtName DEF Given, Ready, DstOf, Fields
  <2>1. Known(n) => /\ b \in Names /\ j \in Names /\ Suffixed(j, x) \in Names
                    /\ Fits(Suffixed(j, x)) => Fits(j)
                    /\ Suffixed(b, x) \in Names /\ Suffixed(j, x) = Join(i.dir, Suffixed(b, x))
    <3>1. ASSUME Known(n) PROVE b \in Names
      BY <2>0, <3>1, ReadName, BaseNameOfName
    <3>. HIDE DEF b, x
    <3>2. ASSUME Known(n) PROVE Suffixed(b, x) \in Names /\ Join(i.dir, b) \in Names
      BY <1>0, <3>1, <3>2, Appended, JoinName
    <3>3. ASSUME Known(n) PROVE /\ Suffixed(Join(i.dir, b), x) = Join(i.dir, Suffixed(b, x))
                                /\ Fits(Suffixed(Join(i.dir, b), x)) => Fits(Join(i.dir, b))
                                /\ Suffixed(Join(i.dir, b), x) \in Names
      <4>1. i.dir \in Names /\ x \in Names /\ b \in Names /\ Join(i.dir, b) \in Names
        BY <1>0, <3>1, <3>2, <3>3
      <4>2. /\ Suffixed(Join(i.dir, b), x) = Join(i.dir, Suffixed(b, x))
            /\ Fits(Suffixed(Join(i.dir, b), x)) => Fits(Join(i.dir, b))
        BY <4>1, Joined
      <4>3. Suffixed(Join(i.dir, b), x) \in Names
        BY <4>1, Appended
      <4>. QED BY <4>2, <4>3
    <3>. QED BY <3>1, <3>2, <3>3
  <2>. HIDE DEF b
  <2>2. CASE i.op = "copy"
    <3>1. s = ntran_copy(r, i.dir) /\ x = <<>>
      BY <2>2 DEF trans
    <3>2. Copied(r, s, i.dir)
      BY <1>0, <3>1, CopyNames DEF Given
    <3>. HIDE DEF s
    <3>3. /\ Sound(s)
          /\ s.ok => /\ r.src # "null" /\ Known(At(r, "src")) /\ Known(n)
                     /\ At(s, "src") = Read(At(r, "src")) /\ At(s, "dst") = snprintf(j)
      BY <3>2 DEF Copied, b
    <3>4. Known(At(r, "src")) => Suffixed(Read(At(r, "src")), x) = Read(At(r, "src"))
      <4>1. Known(At(r, "src")) => Read(At(r, "src")) \in Seq(Parts)
        BY <2>0, ReadName DEF Names
      <4>. QED BY <3>1, <4>1, ConcatEmptySeq DEF Suffixed
    <3>. HIDE DEF n
    <3>5. Known(n) => Suffixed(j, x) = j /\ (Fits(j) => snprintf(j) = j)
      <4>. HIDE DEF j
      <4>1. Known(n) => j \in Seq(Parts) /\ j \in Names
        BY <2>1 DEF Names
      <4>. QED BY <3>1, <4>1, ConcatEmptySeq, SnprintfFits DEF Suffixed
    <3>. QED BY <2>1, <3>3, <3>4, <3>5
  <2>3. CASE i.op = "exec"
    <3>1. s = ntran_copy_exec(r, i.dir) /\ x = inst_exec_suffix
      BY <2>3 DEF trans
    <3>2. /\ Sound(s)
          /\ s.ok => /\ r.src # "null" /\ Known(At(r, "src")) /\ Known(n)
                     /\ At(s, "src") = snprintf(Suffixed(Read(At(r, "src")), x))
                     /\ At(s, "dst") = snprintf(Suffixed(snprintf(j), x))
      BY <1>0, <3>1, ExecNames DEF Given, b
    <3>. HIDE DEF s, x, n
    <3>3. Known(At(r, "src")) => (Fits(Suffixed(Read(At(r, "src")), x)) =>
            snprintf(Suffixed(Read(At(r, "src")), x)) = Suffixed(Read(At(r, "src")), x))
      <4>1. ASSUME Known(At(r, "src")) PROVE Read(At(r, "src")) \in Names
        BY <2>0, <4>1, ReadName
      <4>. DEFINE a == Read(At(r, "src"))
      <4>. HIDE DEF a
      <4>2. ASSUME a \in Names PROVE Fits(Suffixed(a, x)) => snprintf(Suffixed(a, x)) = Suffixed(a, x)
        <5>1. Suffixed(a, x) \in Names
          BY <1>0, <4>2, Appended
        <5>. QED BY <5>1, SnprintfFits
      <4>. QED BY <4>1, <4>2 DEF a
    <3>4. Known(n) => (Fits(Suffixed(j, x)) => snprintf(Suffixed(snprintf(j), x)) = Suffixed(j, x))
      <4>. HIDE DEF j
      <4>1. ASSUME Known(n), Fits(Suffixed(j, x)) PROVE snprintf(j) = j
        BY <2>1, <4>1, SnprintfFits
      <4>. QED BY <2>1, <4>1, SnprintfFits
    <3>. QED BY <2>1, <3>2, <3>3, <3>4
  <2>. QED BY <2>2, <2>3
<1>2. ASSUME s.ok, Nameable PROVE AsMeant(s, i)
  <2>1. /\ i.src # Missing /\ At(r, "src") = i.src
        /\ n = IF i.dst = Missing THEN i.src ELSE i.dst
    BY <1>1, <1>2 DEF Given, DstOf
  <2>2. /\ Meant(i) = [src |-> Suffixed(Read(i.src), x), target |-> Suffixed(j, x)]
        /\ Meant(i).src = Suffixed(Read(i.src), x) /\ Meant(i).target = Suffixed(j, x)
    BY <2>1 DEF Meant, Read, Suffixed
  <2>3. TargetOf(s, i) = At(s, "dst")
    BY DEF TargetOf
  <2>4. n \in Names /\ n # Missing
    BY <2>1, ItemType, ItemsOK
  <2>5. Read(n) \in Names /\ NamesAFile(Read(n))
    <3>1. Known(n) /\ Read(n) \in Names
      BY <1>1, <1>2, <2>4, ReadName
    <3>2. CASE str_ends(n, ".vlb")
      BY <1>2, <3>1, <3>2 DEF Known, Read, Nameable
    <3>3. CASE ~str_ends(n, ".vlb")
      <4>1. NamesAFile(n)
        BY <1>2, <2>1, <2>4, <3>3, NameableItem
      <4>. QED BY <3>1, <3>3, <4>1 DEF Read
    <3>. QED BY <3>1, <3>2, <3>3
  <2>6. \E z \in Names : Suffixed(j, x) = Join(i.dir, z) /\ Single(z)
    <3>1. Single(Suffixed(b, x))
      BY <1>0, <2>5, LastPart
    <3>. HIDE DEF b, x, s, j
    <3>. QED BY <1>1, <1>2, <3>1
  <2>. HIDE DEF j, x, s, n
  <2>7. /\ Fits(Meant(i).src) => At(s, "src") = Meant(i).src
        /\ Fits(Meant(i).target) => TargetOf(s, i) = Meant(i).target
    BY <1>1, <1>2, <2>1, <2>2, <2>3
  <2>. QED BY <2>2, <2>6, <2>7 DEF AsMeant
<1>. QED BY <1>1, <1>2

\* ntran_link and ntran_chk_link: the name of the link in its directory.
LEMMA LinkMeant ==
  ASSUME NEW i \in Items, i.op = "link", NEW r, Given(r, i)
  PROVE  /\ Sound(trans(r, i))
         /\ trans(r, i).ok /\ Nameable => AsMeant(trans(r, i), i)
<1>. DEFINE s == trans(r, i)
            l == ntran_link(r, i.dir)
            j == Join(i.dir, i.dst)
<1>0. /\ "ntran_chk_link.dst_name" \in Static /\ "src" \in Fields /\ "dst" \in Fields
      /\ i.dir \in Names
  BY ItemType DEF Static, Buffers, Fields
<1>1. /\ Sound(l) /\ l.src \in {"null", "item.src", "item.dst"}
      /\ l.ok => i.src # Missing /\ i.dst # Missing
      /\ At(l, "src") = At(r, "src") /\ At(l, "dst") = At(r, "dst")
  BY <1>0, LinkNames DEF Given, Ready
<1>2. /\ Sound(s) /\ s.ok = l.ok
      /\ s.ok => /\ At(s, "src") = At(r, "src")
                 /\ At(s, "dst") = IF env.prog = "instchk" THEN snprintf(Join(i.dir, At(r, "dst")))
                                   ELSE At(r, "dst")
  <2>1. CASE env.prog = "instchk"
    <3>. DEFINE c == Set(l, "dst", "ntran_chk_link.dst_name", snprintf(Join(i.dir, At(l, "dst"))))
    <3>1. s = c
      BY <2>1 DEF trans, ntran_chk_link
    <3>. HIDE DEF l, s
    <3>2. /\ Sound(c) /\ c.ok = l.ok
          /\ c.ok => /\ At(c, "src") = At(l, "src")
                     /\ At(c, "dst") = snprintf(Join(i.dir, At(l, "dst")))
      BY <1>0, <1>1, Checked
    <3>. HIDE DEF c
    <3>. QED BY <1>1, <2>1, <3>1, <3>2
  <2>2. CASE env.prog # "instchk"
    <3>1. s = l
      BY <2>2 DEF trans
    <3>. HIDE DEF l, s
    <3>. QED BY <1>1, <2>2, <3>1
  <2>. QED BY <2>1, <2>2
<1>. HIDE DEF l, s
<1>3. ASSUME s.ok, Nameable PROVE AsMeant(s, i)
  <2>1. i.src # Missing /\ i.dst # Missing /\ At(r, "src") = i.src /\ At(r, "dst") = i.dst
    BY <1>1, <1>2, <1>3 DEF Given
  <2>2. /\ Meant(i) = [src |-> i.src, target |-> j]
        /\ Meant(i).src = i.src /\ Meant(i).target = j
    BY DEF Meant
  <2>3. i.dst \in Names /\ (i.dst # <<>> => i.dst[1] # "/")
    BY <1>3, <2>1, ItemType, NameableItem
  <2>4. j \in Names /\ From(i.dir, i.dst) = j
    BY <1>0, <2>3, JoinName, FromDirectory
  <2>. HIDE DEF j
  <2>5. Fits(j) => snprintf(j) = j
    BY <2>4, SnprintfFits
  <2>6. Fits(j) => TargetOf(s, i) = j
    <3>1. deinst_link(i.dir, i.dst) = snprintf(j)
      BY DEF deinst_link, j
    <3>2. env.prog = "instchk" => At(s, "dst") = snprintf(j)
      BY <1>2, <1>3, <2>1 DEF j
    <3>3. env.prog # "instchk" => At(s, "dst") = i.dst
      BY <1>2, <1>3, <2>1
    <3>. QED BY <2>4, <2>5, <3>1, <3>2, <3>3 DEF TargetOf
  <2>7. At(s, "src") = i.src
    BY <1>2, <1>3, <2>1
  <2>. QED BY <2>2, <2>6, <2>7 DEF AsMeant
<1>. QED BY <1>2, <1>3 DEF s

\* ntran_liblink and ntran_chk_liblink.
LEMMA LiblinkMeant ==
  ASSUME NEW i \in Items, i.op = "liblink", NEW r, Given(r, i)
  PROVE  /\ Sound(trans(r, i))
         /\ trans(r, i).ok /\ Nameable => AsMeant(trans(r, i), i)
<1>. DEFINE s == trans(r, i)
            l == ntran_liblink(r, i.dir)
            x == inst_dlib_suffix
            b == base_name(i.dst)
            j == Join(i.dir, b)
            a == IF str_ends(i.src, ".vlb") THEN base_name(Words[i.src]) ELSE i.src
<1>0. "ntran_chk_liblink.dst_name" \in Static /\ i.dir \in Names
  BY ItemType DEF Static, Buffers
<1>1. /\ Sound(l)
      /\ l.ok => /\ i.src # Missing /\ i.dst # Missing
                 /\ At(l, "src") = a /\ At(l, "dst") = snprintf(Suffixed(b, x))
                 /\ l.src # "ntran_chk_liblink.dst_name"
  <2>1. /\ r.src # "null" => i.src # Missing /\ At(r, "src") = i.src
        /\ r.dst # "null" => i.dst # Missing /\ At(r, "dst") = i.dst
    BY DEF Given
  <2>. QED BY <2>1, LiblinkNames DEF Given
<1>2. /\ Sound(s) /\ s.ok = l.ok
      /\ s.ok => /\ At(s, "src") = a
                 /\ At(s, "dst") = IF env.prog = "instchk" THEN snprintf(Join(i.dir, snprintf(Suffixed(b, x))))
                                   ELSE snprintf(Suffixed(b, x))
  <2>1. CASE env.prog = "instchk"
    <3>. DEFINE c == Set(l, "dst", "ntran_chk_liblink.dst_name", snprintf(Join(i.dir, At(l, "dst"))))
    <3>1. s = c
      BY <2>1 DEF trans, ntran_chk_liblink
    <3>. HIDE DEF l, s, a, b, x
    <3>2. /\ Sound(c) /\ c.ok = l.ok
          /\ c.ok => /\ At(c, "src") = At(l, "src")
                     /\ At(c, "dst") = snprintf(Join(i.dir, At(l, "dst")))
      BY <1>0, <1>1, Checked
    <3>. HIDE DEF c
    <3>. QED BY <1>1, <2>1, <3>1, <3>2
  <2>2. CASE env.prog # "instchk"
    <3>1. s = l
      BY <2>2 DEF trans
    <3>. HIDE DEF l, s, a, b, x
    <3>. QED BY <1>1, <2>2, <3>1
  <2>. QED BY <2>1, <2>2
<1>. HIDE DEF l, s
<1>3. ASSUME s.ok, Nameable PROVE AsMeant(s, i)
  <2>1. i.dst \in Names /\ NamesAFile(i.dst)
    BY <1>1, <1>2, <1>3, ItemType, NameableItem
  <2>2. x \in Names /\ \A k \in 1..Len(x) : x[k] # "/"
    BY <1>3, Suffixes
  <2>3. b \in Names
    BY <2>1, BaseNameOfName
  <2>4. Single(Suffixed(b, x))
    BY <2>1, <2>2, LastPart
  <2>5. /\ Meant(i) = [src |-> a, target |-> Suffixed(j, x)]
        /\ Meant(i).src = a /\ Meant(i).target = Suffixed(j, x)
    BY DEF Meant, Suffixed
  <2>. HIDE DEF b, x, a
  <2>. DEFINE n == Suffixed(b, x)
  <2>6. /\ n \in Names /\ Suffixed(Join(i.dir, b), x) = Join(i.dir, n)
        /\ Fits(Suffixed(Join(i.dir, b), x)) => Fits(n)
    <3>0. i.dir \in Names /\ x \in Names /\ b \in Names
      BY <1>0, <2>2, <2>3
    <3>1. n \in Names
      BY <3>0, Appended
    <3>2. /\ Suffixed(Join(i.dir, b), x) = Join(i.dir, n)
          /\ Fits(Suffixed(Join(i.dir, b), x)) => Fits(n)
      BY <3>0, Joined
    <3>. QED BY <3>1, <3>2
  <2>7. n # <<>> /\ n[1] # "/"
    <3>1. Len(n) \in Nat /\ n # <<>> /\ n \in Seq(Parts) /\ \A k \in 1..Len(n) : n[k] # "/"
      BY <2>4, <2>6 DEF Single, Names
    <3>. HIDE DEF n
    <3>2. 1 \in 1..Len(n)
      BY <3>1, EmptySeq
    <3>. QED BY <3>1, <3>2
  <2>. HIDE DEF n
  <2>8. Join(i.dir, n) \in Names /\ From(i.dir, n) = Join(i.dir, n)
    BY <1>0, <2>6, <2>7, JoinName, FromDirectory
  <2>9. ASSUME Fits(Join(i.dir, n))
        PROVE  snprintf(n) = n /\ snprintf(Join(i.dir, n)) = Join(i.dir, n)
    BY <2>6, <2>8, <2>9, SnprintfFits
  <2>10. Meant(i).target = Join(i.dir, n)
    BY <2>5, <2>6
  <2>11. At(s, "dst") = IF env.prog = "instchk" THEN snprintf(Join(i.dir, snprintf(n))) ELSE snprintf(n)
    BY <1>2, <1>3 DEF n
  <2>12. ASSUME Fits(Join(i.dir, n)) PROVE TargetOf(s, i) = Join(i.dir, n)
    <3>1. deinst_link(i.dir, n) = Join(i.dir, n)
      BY <2>9, <2>12 DEF deinst_link
    <3>. QED BY <2>8, <2>9, <2>11, <2>12, <3>1 DEF TargetOf
  <2>13. Single(n)
    BY <2>4 DEF n
  <2>14. At(s, "src") = Meant(i).src
    BY <1>2, <1>3, <2>5
  <2>15. Meant(i) = [src |-> Meant(i).src, target |-> Meant(i).target]
    BY <2>5
  <2>. QED BY <2>6, <2>10, <2>12, <2>13, <2>14, <2>15 DEF AsMeant
<1>. QED BY <1>2, <1>3 DEF s

\* ntran_mkdir leaves the names as they are.
LEMMA MkdirMeant ==
  ASSUME NEW i \in Items, i.op = "mkdir", NEW r, Given(r, i)
  PROVE  /\ Sound(trans(r, i))
         /\ AsMeant(trans(r, i), i)
<1>1. trans(r, i) = ItemDefaults(r)
  BY DEF trans, ntran_mkdir
<1>2. Sound(ItemDefaults(r)) /\ At(ItemDefaults(r), "src") = At(r, "src")
  BY DefaultsKeep DEF Given, Ready
<1>3. /\ Meant(i) = [src |-> IF i.src = Missing THEN <<>> ELSE i.src, target |-> i.dir]
      /\ Meant(i).src = IF i.src = Missing THEN <<>> ELSE i.src
      /\ Meant(i).target = i.dir
  BY DEF Meant
<1>. QED BY <1>1, <1>2, <1>3 DEF AsMeant, TargetOf, Given

LEMMA TransMeant ==
  ASSUME NEW i \in Items, NEW r, Given(r, i)
  PROVE  /\ Sound(trans(r, i))
         /\ trans(r, i).ok /\ Nameable => AsMeant(trans(r, i), i)
<1>1. i.op \in {"copy", "exec", "mkdir", "link", "liblink"}
  BY ItemType DEF Ops
<1>. QED BY <1>1, CopyMeant, LinkMeant, LiblinkMeant, MkdirMeant

----------------------------------------------------------------------------
(* The state of the program: types, and the names of the item in hand. *)

Types ==
  /\ env.os \in {"posix", "win32"} /\ env.prog \in {"installer", "instchk", "deinstaller"}
  /\ todo \in Seq(Items) /\ Len(todo) <= MaxItems /\ it \in Items
  /\ Sound(m)
  /\ step \in {"next", "uid", "gid", "act", "free", "undefined"}
  /\ ids \in [Ids -> {"unset", "number", "live", "freed"}]
  /\ leaked \subseteq Ids \cup {"sid"}

\* From the translation to the use of the names they are those meant.
Translated == step \in {"uid", "gid", "act"} => AsMeant(m, it)

\* The pointers an item begins with.
Start(i) ==
  [src |-> IF i.src = Missing THEN "null" ELSE "item.src",
   dst |-> IF i.dst = Missing THEN "null" ELSE "item.dst",
   buf |-> [m.buf EXCEPT !["item.src"] = IF i.src = Missing THEN <<>> ELSE i.src,
                         !["item.dst"] = IF i.dst = Missing THEN <<>> ELSE i.dst],
   ok |-> TRUE]

LEMMA StartGiven ==
  ASSUME Sound(m), NEW i \in Items
  PROVE  Given(Start(i), i)
<1>. DEFINE a == IF i.src = Missing THEN <<>> ELSE i.src
            b == IF i.dst = Missing THEN <<>> ELSE i.dst
            r == Start(i)
<1>1. a \in Names /\ b \in Names
  BY ItemType, EmptySeq DEF Names
<1>2. (i.src # Missing => a = i.src) /\ (i.dst # Missing => b = i.dst) /\ (i.src = Missing => a = <<>>)
  OBVIOUS
<1>3. /\ r.src = (IF i.src = Missing THEN "null" ELSE "item.src")
      /\ r.dst = (IF i.dst = Missing THEN "null" ELSE "item.dst")
      /\ r.buf = [m.buf EXCEPT !["item.src"] = a, !["item.dst"] = b] /\ r.ok = TRUE
      /\ r = [src |-> r.src, dst |-> r.dst, buf |-> r.buf, ok |-> r.ok]
  BY DEF Start
<1>. HIDE DEF a, b, r
<1>4. /\ m.buf \in [Buffers -> Names] /\ m.buf["null"] = <<>> /\ \A c \in Static : Fits(m.buf[c])
      /\ {"null", "item.src", "item.dst"} \subseteq Buffers
  BY DEF Sound, Mem, Buffers
<1>5. /\ r.buf \in [Buffers -> Names] /\ r.buf["null"] = <<>>
      /\ r.buf["item.src"] = a /\ r.buf["item.dst"] = b
      /\ \A c \in Static : r.buf[c] = m.buf[c]
  BY <1>1, <1>3, <1>4 DEF Static
<1>6. Sound(r)
  <2>1. r.src \in Buffers /\ r.dst \in Buffers /\ r.ok \in BOOLEAN
    BY <1>3, <1>4
  <2>2. r \in Mem
    BY <1>3, <1>5, <2>1 DEF Mem
  <2>. QED BY <1>4, <1>5, <2>2 DEF Sound
<1>7. Ready(r)
  BY <1>3, <1>6 DEF Ready
<1>. QED BY <1>2, <1>3, <1>5, <1>7 DEF Given, At, r

\* What Translate does, in these words.
LEMMA TranslateStarts ==
  ASSUME Types, Translate
  PROVE  LET i == Head(todo)
             s == trans(Start(i), i)
         IN /\ i \in Items /\ Tail(todo) \in Seq(Items) /\ Len(Tail(todo)) <= Len(todo)
            /\ it' = i /\ m' = s
            /\ step' = (IF s.ok THEN "uid" ELSE "next")
            /\ todo' = (IF s.ok THEN Tail(todo) ELSE <<>>)
            /\ UNCHANGED <<env, ids, leaked, used>>
<1>1. todo \in Seq(Items) /\ todo # <<>>
  BY DEF Types, Translate
<1>2. Head(todo) \in Items /\ Tail(todo) \in Seq(Items) /\ Len(Tail(todo)) <= Len(todo)
  BY <1>1, HeadTailProperties, LenProperties
<1>. QED BY <1>2 DEF Translate, Start

LEMMA IdsTypes ==
  ASSUME NEW v \in [Ids -> {"unset", "number", "live", "freed"}], NEW S
  PROVE  /\ Looked(v, S) \in [Ids -> {"unset", "number", "live", "freed"}]
         /\ Freed(v, S) \in [Ids -> {"unset", "number", "live", "freed"}]
BY DEF Looked, Freed

LEMMA ReturnsTypes ==
  ASSUME Types, NEW v, NEW lost, lost \subseteq {"sid"}, NEW fatal, Returns(v, lost, fatal)
  PROVE  Types'
<1>1. Unset \in [Ids -> {"unset", "number", "live", "freed"}]
  BY DEF Unset
<1>2. /\ step' = "next" /\ ids' = Unset /\ UNCHANGED <<env, it, m>>
      /\ leaked' \subseteq Ids \cup {"sid"}
      /\ todo' \in {<<>>, todo}
  BY DEF Returns, Types
<1>3. todo' \in Seq(Items) /\ Len(todo') <= MaxItems
  <2>1. <<>> \in Seq(Items) /\ Len(<<>>) = 0 /\ 0 <= MaxItems
    BY EmptySeq, ItemsOK
  <2>. QED BY <1>2, <2>1 DEF Types
<1>4. Sound(m')
  BY <1>2 DEF Types
<1>5. Sound(m)'
  BY <1>4 DEF Sound, Mem
<1>. QED BY <1>1, <1>2, <1>3, <1>5 DEF Types

LEMMA GotoTypes ==
  ASSUME Types, NEW s \in {"gid", "act", "free", "undefined"},
         NEW v \in [Ids -> {"unset", "number", "live", "freed"}], Goto(s, v)
  PROVE  Types'
BY DEF Goto, Types, Sound, Mem

LEMMA TypesNext ==
  ASSUME Types, [Next]_vars
  PROVE  Types'
<1>. DEFINE IdVals == [Ids -> {"unset", "number", "live", "freed"}]
<1>0. /\ ids \in IdVals
      /\ \A v \in IdVals : \A S : Looked(v, S) \in IdVals /\ Freed(v, S) \in IdVals
  BY IdsTypes DEF Types
<1>. HIDE DEF IdVals
<1>a. \A lost \in SidLost : lost \subseteq {"sid"}
  BY DEF SidLost
<1>1. CASE UNCHANGED vars
  BY <1>1 DEF vars, Types, Sound, Mem
<1>2. CASE Translate
  <2>. DEFINE i == Head(todo)
              s == trans(Start(i), i)
  <2>1. /\ i \in Items /\ Tail(todo) \in Seq(Items) /\ Len(Tail(todo)) <= Len(todo)
        /\ it' = i /\ m' = s /\ UNCHANGED <<env, ids, leaked>>
        /\ step' \in {"uid", "next"} /\ todo' \in {Tail(todo), <<>>}
    BY <1>2, TranslateStarts
  <2>2. Sound(s)
    BY <2>1, StartGiven, TransMeant DEF Types
  <2>. HIDE DEF i, s
  <2>3. todo' \in Seq(Items) /\ Len(todo') <= MaxItems
    <3>1. <<>> \in Seq(Items) /\ Len(<<>>) = 0 /\ 0 <= MaxItems
      BY EmptySeq, ItemsOK
    <3>2. Len(Tail(todo)) <= MaxItems
      <4>1. Len(Tail(todo)) \in Nat /\ Len(todo) \in Nat /\ Len(todo) <= MaxItems /\ MaxItems \in Nat
        BY <2>1, LenProperties, ItemsOK DEF Types
      <4>. QED BY <2>1, <4>1
    <3>. QED BY <2>1, <3>1, <3>2
  <2>4. Sound(m)'
    BY <2>1, <2>2 DEF Sound, Mem
  <2>. QED BY <2>1, <2>3, <2>4 DEF Types
<1>3. CASE LookupUser
  BY <1>0, <1>a, <1>3, ReturnsTypes, GotoTypes DEF LookupUser, IdVals
<1>4. CASE LookupGroup
  BY <1>0, <1>a, <1>4, ReturnsTypes, GotoTypes DEF LookupGroup, IdVals
<1>5. CASE Install
  BY <1>0, <1>5, GotoTypes DEF Install, IdVals
<1>6. CASE Check
  <2>1. CASE Goto("free", ids)
    BY <1>0, <2>1, GotoTypes DEF IdVals
  <2>2. ASSUME NEW got, NEW v, v = Looked(ids, got),
               Goto("undefined", v) \/ Goto("free", Freed(v, {"uid_got", "gid_got"}))
        PROVE  Types'
    <3>1. v \in IdVals /\ Freed(v, {"uid_got", "gid_got"}) \in IdVals
      BY <1>0, <2>2
    <3>. QED BY <2>2, <3>1, GotoTypes DEF IdVals
  <2>. QED BY <1>6, <2>1, <2>2 DEF Check
<1>7. CASE FreeIds
  BY <1>0, <1>7, ReturnsTypes, GotoTypes DEF FreeIds, IdVals
<1>8. CASE Link
  BY <1>8, ReturnsTypes DEF Link
<1>9. CASE Deinstall
  BY <1>9, ReturnsTypes DEF Deinstall
<1>. QED BY <1>1, <1>2, <1>3, <1>4, <1>5, <1>6, <1>7, <1>8, <1>9 DEF Next

LEMMA InitTypes ==
  ASSUME Init
  PROVE  Types
<1>1. PICK k \in 1..MaxItems : todo \in [1..k -> Items]
  BY DEF Init
<1>2. k \in Nat /\ k >= 1 /\ k <= MaxItems
  BY <1>1, ItemsOK
<1>3. todo \in Seq(Items) /\ Len(todo) = k /\ todo[1] \in Items
  BY <1>1, <1>2
<1>4. Sound(m)
  <2>1. /\ m = [src |-> "null", dst |-> "null", buf |-> [b \in Buffers |-> <<>>], ok |-> TRUE]
        /\ "null" \in Buffers
    BY DEF Init, Buffers
  <2>2. <<>> \in Names /\ Fits(<<>>)
    BY EmptySeq, ItemsOK DEF Names, Fits
  <2>. QED BY <2>1, <2>2 DEF Sound, Mem, Static
<1>5. /\ env.os \in {"posix", "win32"} /\ env.prog \in {"installer", "instchk", "deinstaller"}
      /\ it = todo[1] /\ step = "next" /\ ids = Unset /\ leaked = {}
  BY DEF Init
<1>. QED BY <1>2, <1>3, <1>4, <1>5 DEF Types, Unset

\* The type of every variable: in particular nothing that a translation writes
\* is longer than the buffer it is written to, whatever the names of the items
\* and of the libraries are.
THEOREM TypeCorrect == Spec => []TypeOK
<1>1. Init => Types
  BY InitTypes
<1>2. Types /\ [Next]_vars => Types'
  BY TypesNext
<1>3. Types => TypeOK
  <2>1. ASSUME Sound(m) PROVE /\ m.src \in Buffers /\ m.dst \in Buffers /\ DOMAIN m.buf = Buffers
                              /\ \A b \in Buffers \ {"item.src", "item.dst"} : Len(m.buf[b]) < MaxPath
    <3>1. Len(<<>>) = 0 /\ 0 < MaxPath
      BY EmptySeq, ItemsOK
    <3>. QED BY <2>1, <3>1 DEF Sound, Mem, Static, Fits
  <2>. QED BY <2>1 DEF Types, TypeOK
<1>. QED BY <1>1, <1>2, <1>3, PTL DEF Spec

\* The names stay those meant while the item is in hand.
LEMMA StaysMeant ==
  ASSUME NEW r, NEW i, AsMeant(r, i), env' = env, m' = r, it' = i
  PROVE  AsMeant(m, it)'
<1>1. inst_exec_suffix' = inst_exec_suffix
  BY DEF inst_exec_suffix
<1>2. Meant(it)' = Meant(i)
  BY <1>1 DEF Meant
<1>3. TargetOf(m, it)' = TargetOf(r, i)
  BY DEF TargetOf, At
<1>4. At(m, "src")' = At(r, "src")
  BY DEF At
<1>. QED BY <1>2, <1>3, <1>4 DEF AsMeant

LEMMA TranslatedNext ==
  ASSUME Types, Translated, Nameable, [Next]_vars
  PROVE  Translated'
<1>1. ASSUME UNCHANGED <<env, it, m>>, step' \in {"uid", "gid", "act"} => step \in {"uid", "gid", "act"}
      PROVE  Translated'
  BY <1>1, StaysMeant DEF Translated
<1>2. CASE Translate
  <2>. DEFINE i == Head(todo)
              s == trans(Start(i), i)
  <2>1. /\ i \in Items /\ it' = i /\ m' = s /\ env' = env
        /\ step' = (IF s.ok THEN "uid" ELSE "next")
    BY <1>2, TranslateStarts
  <2>2. s.ok => AsMeant(s, i)
    BY <2>1, StartGiven, TransMeant DEF Types
  <2>. HIDE DEF i, s
  <2>. QED BY <2>1, <2>2, StaysMeant DEF Translated
<1>3. CASE UNCHANGED vars
  BY <1>1, <1>3 DEF vars
<1>4. CASE LookupUser
  BY <1>1, <1>4 DEF LookupUser, Goto, Returns
<1>5. CASE LookupGroup
  BY <1>1, <1>5 DEF LookupGroup, Goto, Returns
<1>6. CASE Install
  BY <1>1, <1>6 DEF Install, Goto
<1>7. CASE Check
  BY <1>1, <1>7 DEF Check, Goto
<1>8. CASE FreeIds
  BY <1>1, <1>8 DEF FreeIds, Goto, Returns
<1>9. CASE Link
  BY <1>1, <1>9 DEF Link, Returns
<1>10. CASE Deinstall
  BY <1>1, <1>10 DEF Deinstall, Returns
<1>. QED BY <1>2, <1>3, <1>4, <1>5, <1>6, <1>7, <1>8, <1>9, <1>10 DEF Next

\* An operation that uses names uses those of its pointers.
LEMMA UsesTarget ==
  ASSUME [Next]_vars, used' # used
  PROVE  step \in {"uid", "act"} /\ used' = [src |-> At(m, "src"), target |-> TargetOf(m, it)]
<1>1. Target = TargetOf(m, it)
  BY DEF Target, TargetOf
<1>2. ~UNCHANGED vars /\ ~Translate /\ ~LookupUser /\ ~LookupGroup /\ ~FreeIds
  BY DEF vars, Translate, LookupUser, LookupGroup, FreeIds
<1>3. Install \/ Check \/ Link \/ Deinstall
  BY <1>2 DEF Next
<1>. QED BY <1>1, <1>3 DEF Install, Check, Link, Deinstall, Uses

LEMMA AlwaysTranslated ==
  ASSUME Nameable
  PROVE  Spec => [](Types /\ Translated)
<1>1. Init => Types /\ Translated
  BY InitTypes DEF Init, Translated
<1>2. Types /\ Translated /\ [Next]_vars => (Types /\ Translated)'
  BY TypesNext, TranslatedNext
<1>. QED BY <1>1, <1>2, PTL DEF Spec

\* Each operation uses the names of its own item, whatever items were before it
\* and whichever of the three programs it is, when they fit the buffers.
THEOREM NamesAreMeant ==
  ASSUME Nameable
  PROVE  Spec => NamesAsMeant
<1>1. ASSUME Translated, [Next]_vars
      PROVE  [(used' # used /\ Fits(Meant(it).src) /\ Fits(Meant(it).target)) =>
                 used' = Meant(it)]_vars
  <2>1. ASSUME used' # used, Fits(Meant(it).src), Fits(Meant(it).target)
        PROVE  used' = Meant(it)
    <3>1. step \in {"uid", "act"} /\ used' = [src |-> At(m, "src"), target |-> TargetOf(m, it)]
      BY <1>1, <2>1, UsesTarget
    <3>2. AsMeant(m, it)
      BY <1>1, <3>1 DEF Translated
    <3>. QED BY <2>1, <3>1, <3>2 DEF AsMeant
  <2>. QED BY <2>1
<1>. QED BY <1>1, AlwaysTranslated, PTL DEF Spec, NamesAsMeant

\* A name joined to a directory is found again behind it.
LEMMA Behind ==
  ASSUME NEW d \in Names, NEW n \in Names, n # <<>>
  PROVE  /\ SubSeq(Join(d, n), 1, Len(d) + 1) = d \o <<"/">>
         /\ SubSeq(Join(d, n), Len(d) + 2, Len(Join(d, n))) = n
<1>. DEFINE p == d \o <<"/">>
<1>1. p \in Seq(Parts) /\ Len(p) = Len(d) + 1 /\ n \in Seq(Parts) /\ Len(d) \in Nat
  <2>. DEFINE s == <<"/">>
  <2>1. s \in Seq(Parts) /\ Len(s) = 1 /\ d \in Seq(Parts)
    BY OnePart, Marks DEF Names
  <2>. HIDE DEF s
  <2>2. d \o s \in Seq(Parts) /\ Len(d \o s) = Len(d) + Len(s)
    BY <2>1, ConcatProperties
  <2>. QED BY <2>1, <2>2 DEF s, Names
<1>. HIDE DEF p
<1>2. Join(d, n) = p \o n
  BY DEF Join, p
<1>3. Len(n) \in Nat /\ Len(n) # 0
  BY <1>1, EmptySeq
<1>4. Len(p \o n) = Len(p) + Len(n)
  BY <1>1, ConcatProperties
<1>5. SubSeq(p \o n, 1, Len(p)) = p
  <2>1. 1 \in 1..Len(p) /\ Len(p) \in 1..Len(p)
    BY <1>1
  <2>2. SubSeq(p \o n, 1, Len(p)) = SubSeq(p, 1, Len(p))
    BY <1>1, <2>1, SubSeqOfConcat1
  <2>. QED BY <1>1, <2>2, SubSeqFull
<1>6. SubSeq(p \o n, Len(p) + 1, Len(p) + Len(n)) = n
  <2>1. /\ Len(p) + 1 \in Len(p) + 1 .. Len(p) + Len(n)
        /\ Len(p) + Len(n) \in Len(p) + 1 .. Len(p) + Len(n)
        /\ (Len(p) + 1) - Len(p) = 1 /\ (Len(p) + Len(n)) - Len(p) = Len(n)
    BY <1>1, <1>3
  <2>2. SubSeq(p \o n, Len(p) + 1, Len(p) + Len(n))
          = SubSeq(n, (Len(p) + 1) - Len(p), (Len(p) + Len(n)) - Len(p))
    BY <1>1, <2>1, SubSeqOfConcat2
  <2>. QED BY <1>1, <2>1, <2>2, SubSeqFull
<1>7. Len(d) + 2 = Len(p) + 1 /\ Len(d) + 1 = Len(p)
  BY <1>1
<1>. QED BY <1>2, <1>4, <1>5, <1>6, <1>7 DEF p

\* A copy goes into the directory of its item, under one part of a name: not
\* into the directory's place, and not past it.
THEOREM CopiesStayInside ==
  ASSUME Nameable
  PROVE  Spec => StaysInDirectory
<1>1. ASSUME Types, Translated, [Next]_vars
      PROVE  [(used' # used /\ it.op \in {"copy", "exec", "liblink"} /\ Fits(Meant(it).target)) =>
                 LET n == SubSeq(used'.target, Len(it.dir) + 2, Len(used'.target))
                 IN /\ SubSeq(used'.target, 1, Len(it.dir) + 1) = it.dir \o <<"/">>
                    /\ n \notin {<<>>, <<".">>} /\ \A k \in 1..Len(n) : n[k] # "/"]_vars
  <2>1. ASSUME used' # used, it.op \in {"copy", "exec", "liblink"}, Fits(Meant(it).target)
        PROVE  LET n == SubSeq(used'.target, Len(it.dir) + 2, Len(used'.target))
               IN /\ SubSeq(used'.target, 1, Len(it.dir) + 1) = it.dir \o <<"/">>
                  /\ n \notin {<<>>, <<".">>} /\ \A k \in 1..Len(n) : n[k] # "/"
    <3>1. step \in {"uid", "act"} /\ used' = [src |-> At(m, "src"), target |-> TargetOf(m, it)]
      BY <1>1, <2>1, UsesTarget
    <3>2. AsMeant(m, it)
      BY <1>1, <3>1 DEF Translated
    <3>3. used'.target = Meant(it).target
      BY <2>1, <3>1, <3>2 DEF AsMeant
    <3>4. PICK n \in Names : Meant(it).target = Join(it.dir, n) /\ Single(n)
      BY <2>1, <3>2 DEF AsMeant
    <3>5. it.dir \in Names /\ n # <<>>
      BY <1>1, <3>4, ItemType DEF Types, Single
    <3>6. /\ SubSeq(used'.target, 1, Len(it.dir) + 1) = it.dir \o <<"/">>
          /\ SubSeq(used'.target, Len(it.dir) + 2, Len(used'.target)) = n
      <4>. DEFINE d == it.dir
                  t == used'.target
      <4>1. t = Join(d, n) /\ d \in Names
        BY <3>3, <3>4, <3>5
      <4>. HIDE DEF d, t
      <4>2. /\ SubSeq(Join(d, n), 1, Len(d) + 1) = d \o <<"/">>
            /\ SubSeq(Join(d, n), Len(d) + 2, Len(Join(d, n))) = n
        BY <3>5, <4>1, Behind
      <4>3. SubSeq(t, 1, Len(d) + 1) = d \o <<"/">> /\ SubSeq(t, Len(d) + 2, Len(t)) = n
        BY <4>1, <4>2
      <4>. QED BY <4>3 DEF d, t
    <3>. QED BY <3>4, <3>6 DEF Single
  <2>. QED BY <2>1
<1>. QED BY <1>1, AlwaysTranslated, PTL DEF Spec, StaysInDirectory
=============================================================================
