--------------------------- MODULE InstallerProofs ---------------------------
(***************************************************************************)
(* For any items, file system, faults and interruptions: the types, and    *)
(* that whoever uses the installed files sees each of them replaced or     *)
(* removed in one step.                                                    *)
(***************************************************************************)
EXTENDS Installer, TLAPS

\* The temporary file is whole before its mode is set, and what the item wants
\* from then on until it is renamed.
TmpReady ==
  It.op = "copy" =>
    /\ step = "chmod" => fs[TmpOf(It)].kind = "file" /\ fs[TmpOf(It)].data = "new"
    /\ step \in {"chown", "close", "rename"} => fs[TmpOf(It)] = New(It)

\* install_rmkdir looks at one of the prefixes of the item's directory.
PrefixInRange ==
  (It.op = "mkdir" /\ step = "mkdir") => prefix \in 1..Len(Prefixes[It.dir])

IInv == TypeOK /\ TmpReady /\ PrefixInRange

Acts == Copying \/ Making \/ Linking \/ install_file_check \/ deinst

\* The paths of a copy: the destination and its temporary file are different,
\* and no temporary file is a destination.
LEMMA CopyPaths ==
  ASSUME item \in Items, It.op = "copy"
  PROVE  /\ item \in Copies /\ It.dst \in Dsts /\ It.dst \in Paths
         /\ TmpOf(It) \in Paths /\ TmpOf(It) \in Tmps /\ TmpOf(It) \notin Dsts
<1>1. item \in Copies
  BY DEF Copies, It
<1>2. It.dst \in Dsts
  BY <1>1 DEF Dsts, It
<1>3. TmpOf(It) \in Tmps /\ TmpOf(It) \in Paths
  BY <1>2, ItemsOK DEF TmpOf, Tmps, ItemsOK
<1>. QED BY <1>1, <1>2, <1>3, ItemsOK DEF ItemsOK

LEMMA ItemTyped ==
  ASSUME item \in Items
  PROVE  It \in ItemType
BY ItemsOK DEF ItemsOK, Items, It

\* The nodes the actions write.
LEMMA NodesTyped ==
  /\ Absent \in Nodes /\ Link \in Nodes
  /\ \A m \in SUBSET Bits :
       /\ Dir(m) \in Nodes
       /\ \A d \in {"none", "old", "part", "new"} : File(d, m) \in Nodes
BY DEF Absent, Link, Dir, File, Nodes

\* A program that ends leaves main's variables in their types.
LEMMA StopTyped ==
  ASSUME MainOK, prog \in Programs, faults' \in 0..MaxFaults,
         NEW exit \in Exits, NEW rep \in [Items -> Statuses], Stop(exit, rep)
  PROVE  MainOK'
<1>1. [prog |-> prog, dry |-> dry, exit |-> exit,
       faults |-> faults', report |-> rep] \in Runs
  BY DEF Runs, MainOK
<1>2. log' \in Seq(Runs)
  BY <1>1 DEF Stop, MainOK
<1>. QED BY <1>2 DEF Stop, MainOK, Steps

\* So does the return of an item to main.
LEMMA ReturnTyped ==
  ASSUME MainOK, prog \in Programs, faults' \in 0..MaxFaults, NEW n \in Nat,
         NEW s \in {"OK", "ERROR", "FATAL"}, ReturnsWith(s, n)
  PROVE  MainOK' /\ failed' \in Nat
<1>. DEFINE rep == [report EXCEPT ![item] = s]
<1>1. rep \in [Items -> Statuses]
  BY DEF MainOK, Statuses
<1>2. CASE Stop("exit 112", rep) \/ Stop("exit 1", rep) \/ Stop("exit 0", rep)
  <2>. HIDE DEF rep
  <2>. QED BY <1>1, <1>2, StopTyped DEF ReturnsWith, Exits
<1>3. CASE /\ Advance # 0 /\ report' = rep /\ item' = Advance /\ step' = "start"
           /\ UNCHANGED <<prog, dry, prefix, log>>
  <2>1. Advance \in Items
    BY <1>3, ItemsOK DEF Advance, Items, MainOK, ItemsOK
  <2>. QED BY <1>1, <1>3, <2>1 DEF MainOK, Steps, ReturnsWith
<1>. QED BY <1>2, <1>3 DEF ReturnsWith

\* The faults of a run stay within their bound.
LEMMA FaultsTyped ==
  ASSUME faults \in 0..MaxFaults, Holds \/ Faults
  PROVE  faults' \in 0..MaxFaults
BY ItemsOK DEF Holds, Faults, ItemsOK

\* Going to another step of the same item keeps main's variables typed.
LEMMA GotoTyped ==
  ASSUME MainOK, NEW s \in Steps, Goto(s), UNCHANGED <<prog, dry>>, prefix' \in Nat
  PROVE  MainOK'
BY DEF MainOK, Goto

\* Every system call of a copy keeps the types.
LEMMA CopyingTyped ==
  ASSUME TypeOK, Copying
  PROVE  TypeOK'
<1>. USE NodesTyped DEF here
<1>1. /\ prog \in Programs /\ It.op = "copy" /\ item \in Items
      /\ faults \in 0..MaxFaults /\ MainOK /\ fs \in [Paths -> Nodes]
      /\ cwd \in Paths \cup {Top} /\ failed \in Nat /\ prefix \in Nat
  BY DEF Copying, inst_copy, OpenSource, CreateTmp, WriteTmp, SetMode, SetOwnership,
         CloseBoth, Rename, CopyFails, At, Programs, TypeOK, MainOK
<1>2. It \in ItemType
  BY <1>1, ItemTyped
<1>3. It.dst \in Paths /\ TmpOf(It) \in Paths
  BY <1>1, CopyPaths
<1>4. faults' \in 0..MaxFaults
  <2>1. Holds \/ Faults
    BY DEF Copying, inst_copy, OpenSource, CreateTmp, WriteTmp, SetMode, SetOwnership,
           CloseBoth, Rename, CopyFails, NoSuchOwner, Fails
  <2>. QED BY <1>1, <2>1, FaultsTyped
<1>5. cwd' \in Paths \cup {Top}
  BY <1>1 DEF Copying, inst_copy, OpenSource, CreateTmp, WriteTmp, SetMode, SetOwnership,
              CloseBoth, Rename, CopyFails
<1>6. fs' \in [Paths -> Nodes]
  <2>1. CASE UNCHANGED fs \/ Put(TmpOf(It), Absent)
    BY <1>1, <2>1 DEF Put
  <2>2. CASE CreateTmp
    <3>1. (IF Exists(TmpOf(It)) THEN fs[TmpOf(It)].mode ELSE Created \ Umask) \in SUBSET Bits
      BY <1>1, <1>3, ItemsOK DEF Nodes, ItemsOK
    <3>. QED BY <1>1, <2>2, <3>1 DEF CreateTmp, Put
  <2>3. CASE WriteTmp
    BY <1>1, <1>3, <2>3 DEF WriteTmp, Put, Nodes
  <2>4. CASE SetMode
    <3>1. It.mode \in SUBSET Bits
      BY <1>2 DEF ItemType
    <3>2. File(fs[TmpOf(It)].data, It.mode) \in Nodes
      BY <1>1, <1>3, <3>1 DEF Nodes
    <3>. QED BY <1>1, <2>4, <3>2 DEF SetMode, Put
  <2>5. CASE Rename
    BY <1>1, <1>3, <2>5 DEF Rename
  <2>. QED BY <2>1, <2>2, <2>3, <2>4, <2>5
           DEF Copying, inst_copy, OpenSource, SetOwnership, CloseBoth, CopyFails
<1>7. MainOK' /\ failed' \in Nat
  <2>1. CASE \/ Returns("OK") \/ Returns("ERROR")
    BY <1>1, <1>4, <2>1, ReturnTyped DEF Returns
  <2>2. CASE /\ \E s \in Steps : Goto(s)
             /\ UNCHANGED here
    BY <1>1, <2>2, GotoTyped DEF Goto
  <2>3. CASE Stop("undefined", report) /\ UNCHANGED failed
    <3>1. report \in [Items -> Statuses]
      BY <1>1 DEF MainOK
    <3>. QED BY <1>1, <1>4, <2>3, <3>1, StopTyped DEF Exits
  <2>. QED BY <2>1, <2>2, <2>3
           DEF Copying, inst_copy, OpenSource, CreateTmp, WriteTmp, SetMode, SetOwnership,
               CloseBoth, Rename, CopyFails, NoSuchOwner, Steps
<1>. QED BY <1>4, <1>5, <1>6, <1>7 DEF TypeOK

\* Every system call of a mkdir keeps the types, and install_rmkdir in range.
LEMMA MakingTyped ==
  ASSUME TypeOK, PrefixInRange, Making
  PROVE  TypeOK' /\ PrefixInRange'
<1>. USE NodesTyped DEF here
<1>1. /\ prog \in Programs /\ It.op = "mkdir" /\ item \in Items
      /\ faults \in 0..MaxFaults /\ MainOK /\ fs \in [Paths -> Nodes]
      /\ cwd \in Paths \cup {Top} /\ failed \in Nat /\ prefix \in Nat
  BY DEF Making, inst_mkdir, install_rmkdir, OwnDir, At, Programs, TypeOK, MainOK
<1>2. It \in ItemType /\ item \in Mkdirs
  BY <1>1, ItemTyped DEF Mkdirs, It
<1>3. faults' \in 0..MaxFaults
  <2>1. Holds \/ Faults
    BY DEF Making, inst_mkdir, install_rmkdir, OwnDir, NoSuchOwner, Fails
  <2>. QED BY <1>1, <2>1, FaultsTyped
<1>4. cwd' = cwd
  BY DEF Making, inst_mkdir, install_rmkdir, OwnDir
<1>5. fs' \in [Paths -> Nodes]
  <2>1. CASE UNCHANGED fs
    BY <1>1, <2>1
  <2>2. CASE install_rmkdir /\ fs' # fs
    <3>1. Dir(It.mode \ Umask) \in Nodes
      BY <1>2 DEF ItemType
    <3>. QED BY <1>1, <2>2, <3>1 DEF install_rmkdir, Put
  <2>. QED BY <2>1, <2>2 DEF Making, inst_mkdir, OwnDir
<1>6. Len(Prefixes[It.dir]) \in Nat \ {0}
  BY <1>2, ItemsOK DEF ItemsOK, It
<1>7. MainOK' /\ failed' \in Nat
  <2>1. CASE \/ Returns("OK") \/ Returns("ERROR")
    BY <1>1, <1>3, <2>1, ReturnTyped DEF Returns
  <2>2. CASE /\ Goto("mkdir") \/ Goto("own")
             /\ prefix' \in {1, prefix + 1} /\ UNCHANGED <<prog, dry>>
    <3>1. prefix' \in Nat
      BY <1>1, <2>2
    <3>2. "mkdir" \in Steps /\ "own" \in Steps
      BY DEF Steps
    <3>3. MainOK'
      BY <1>1, <2>2, <3>1, <3>2, GotoTyped
    <3>. QED BY <1>1, <2>2, <3>3 DEF Goto
  <2>. QED BY <2>1, <2>2 DEF Making, inst_mkdir, install_rmkdir, OwnDir, NoSuchOwner
<1>8. PrefixInRange'
  <2>1. CASE step' # "mkdir"
    BY <2>1 DEF PrefixInRange
  <2>2. CASE step' = "mkdir"
    <3>1. /\ item' = item
          /\ \/ prefix' = 1
             \/ step = "mkdir" /\ prefix' = prefix + 1 /\ prefix # Len(Prefixes[It.dir])
      BY <2>2 DEF Making, inst_mkdir, install_rmkdir, OwnDir, NoSuchOwner, At, Goto,
                  Returns, ReturnsWith, Stop
    <3>2. It' = It
      BY <3>1 DEF It
    <3>. QED BY <1>1, <1>6, <3>1, <3>2 DEF PrefixInRange
  <2>. QED BY <2>1, <2>2
<1>. QED BY <1>1, <1>3, <1>4, <1>5, <1>7, <1>8 DEF TypeOK

\* Every system call of a link, a check and a removal keeps the types.
LEMMA OthersTyped ==
  ASSUME TypeOK, Linking \/ install_file_check \/ deinst
  PROVE  TypeOK'
<1>. USE NodesTyped DEF here
<1>1. /\ prog \in Programs /\ item \in Items
      /\ faults \in 0..MaxFaults /\ MainOK /\ fs \in [Paths -> Nodes]
      /\ cwd \in Paths \cup {Top} /\ failed \in Nat /\ prefix \in Nat
  BY DEF Linking, inst_link, MakeLink, BackToStart, install_file_check, deinst, At,
         Programs, TypeOK, MainOK
<1>2. It \in ItemType
  BY <1>1, ItemTyped
<1>3. faults' \in 0..MaxFaults
  <2>1. Holds \/ Faults
    BY DEF Linking, inst_link, MakeLink, BackToStart, install_file_check, deinst,
           NoSuchOwner, Fails
  <2>. QED BY <1>1, <2>1, FaultsTyped
<1>4. cwd' \in Paths \cup {Top}
  <2>1. It.dir \in Paths \cup {Top}
    BY <1>2 DEF ItemType
  <2>. QED BY <1>1, <2>1 DEF Linking, inst_link, MakeLink, BackToStart, install_file_check,
                             deinst, Unmade
<1>5. fs' \in [Paths -> Nodes]
  BY <1>1 DEF Linking, inst_link, MakeLink, BackToStart, install_file_check, deinst, Put
<1>6. MainOK' /\ failed' \in Nat
  <2>1. CASE \E s \in {"OK", "ERROR", "FATAL"}, n \in {failed, failed + 1} : ReturnsWith(s, n)
    BY <1>1, <1>3, <2>1, ReturnTyped
  <2>2. CASE /\ \E s \in Steps : Goto(s)
             /\ UNCHANGED <<prog, dry, prefix>>
    BY <1>1, <2>2, GotoTyped DEF Goto
  <2>. QED BY <2>1, <2>2 DEF Linking, inst_link, MakeLink, BackToStart, install_file_check,
                             deinst, NoSuchOwner, Returns, Unmade, Steps
<1>. QED BY <1>3, <1>4, <1>5, <1>6 DEF TypeOK

\* The start and the end of a program keep the types.
LEMMA ProgramsTyped ==
  ASSUME TypeOK, Killed \/ \E p \in Programs, d \in BOOLEAN : InitFails(p, d) \/ Main(p, d)
  PROVE  TypeOK'
<1>1. CASE Killed
  <2>1. prog \in Programs /\ faults' \in 0..MaxFaults /\ report \in [Items -> Statuses] /\ MainOK
    BY <1>1 DEF Killed, Holds, TypeOK, MainOK
  <2>2. MainOK'
    BY <1>1, <2>1, StopTyped DEF Killed, Exits
  <2>. QED BY <1>1, <2>1, <2>2 DEF Killed, TypeOK
<1>2. CASE \E p \in Programs, d \in BOOLEAN : Main(p, d)
  <2>1. PICK p \in Programs, d \in BOOLEAN : Main(p, d)
    BY <1>2
  <2>2. First(p) \in Items /\ 0 \in 0..MaxFaults
    BY ItemsOK DEF First, Items, ItemsOK
  <2>. QED BY <2>1, <2>2 DEF Main, TypeOK, MainOK, Steps, Statuses
<1>3. CASE \E p \in Programs, d \in BOOLEAN : InitFails(p, d)
  <2>1. PICK p \in Programs, d \in BOOLEAN : InitFails(p, d)
    BY <1>3
  <2>. DEFINE run == [prog |-> p, dry |-> d, exit |-> "exit 112", faults |-> 0,
                      report |-> [i \in Items |-> "none"]]
  <2>2. run \in Runs
    BY ItemsOK DEF Runs, Exits, Statuses, ItemsOK
  <2>3. log' = Append(log, run)
    BY <2>1, Zenon DEF InitFails
  <2>4. UNCHANGED <<fs, prog, dry, prefix, cwd, item, step, faults, report, failed>>
    BY <2>1 DEF InitFails, here
  <2>5. log' \in Seq(Runs)
    <3>. HIDE DEF run
    <3>. QED BY <2>2, <2>3 DEF TypeOK, MainOK
  <2>. QED BY <2>4, <2>5 DEF TypeOK, MainOK
<1>. QED BY <1>1, <1>2, <1>3

LEMMA InitTyped ==
  ASSUME Init
  PROVE  IInv
<1>. USE NodesTyped DEF Init
<1>1. fs \in [Paths -> Nodes]
  <2>1. \A p \in Paths : InitialNodes(p) \subseteq Nodes
    <3>1. Created \in SUBSET Bits
      BY ItemsOK DEF ItemsOK
    <3>. QED BY <3>1 DEF InitialNodes
  <2>. QED BY <2>1
<1>2. 1 \in Items /\ 0 \in 0..MaxFaults
  BY ItemsOK DEF Items, ItemsOK
<1>3. log \in Seq(Runs)
  OBVIOUS
<1>. QED BY <1>1, <1>2, <1>3
         DEF IInv, TypeOK, MainOK, TmpReady, PrefixInRange, Steps, Statuses

\* What has been written stays in the temporary file while the copy goes on.
LEMMA TmpStaysReady ==
  ASSUME TypeOK, TmpReady, Copying
  PROVE  TmpReady'
<1>1. CASE step' \notin {"chmod", "chown", "close", "rename"}
  BY <1>1 DEF TmpReady
<1>2. CASE step' \in {"chmod", "chown", "close", "rename"}
  <2>1. Goto(step') /\ It.op = "copy" /\ item \in Items /\ fs \in [Paths -> Nodes]
    BY <1>2 DEF Copying, inst_copy, OpenSource, CreateTmp, WriteTmp, SetMode, SetOwnership,
                CloseBoth, Rename, CopyFails, NoSuchOwner, Goto, Returns, ReturnsWith, Stop,
                At, TypeOK, MainOK
  <2>2. It' = It /\ TmpOf(It)' = TmpOf(It) /\ New(It)' = New(It)
    BY <2>1 DEF Goto, It, TmpOf, New, File
  <2>3. TmpOf(It) \in Paths
    BY <2>1, CopyPaths
  <2>4. CASE WriteTmp
    BY <2>1, <2>2, <2>3, <2>4 DEF WriteTmp, Goto, Put, File, TmpReady
  <2>5. CASE SetMode
    BY <2>1, <2>2, <2>3, <2>5 DEF SetMode, At, Goto, Put, File, New, TmpReady
  <2>6. CASE SetOwnership \/ CloseBoth
    BY <2>1, <2>2, <2>6 DEF SetOwnership, CloseBoth, At, Goto, TmpReady, here
  <2>. QED BY <1>2, <2>4, <2>5, <2>6
           DEF Copying, inst_copy, OpenSource, CreateTmp, Rename, CopyFails, NoSuchOwner,
               Goto, Returns, ReturnsWith, Stop
<1>. QED BY <1>1, <1>2

LEMMA NextIInv ==
  ASSUME IInv, [Next]_vars
  PROVE  IInv'
<1>1. CASE UNCHANGED vars
  BY <1>1 DEF vars, IInv, TypeOK, MainOK, TmpReady, PrefixInRange, It, TmpOf, New
<1>2. CASE Copying
  <2>1. step' # "mkdir"
    BY <1>2 DEF Copying, inst_copy, OpenSource, CreateTmp, WriteTmp, SetMode, SetOwnership,
                CloseBoth, Rename, CopyFails, NoSuchOwner, Goto, Returns, ReturnsWith, Stop
  <2>. QED BY <1>2, <2>1, CopyingTyped, TmpStaysReady DEF IInv, PrefixInRange
<1>3. CASE Making
  <2>1. step' \notin {"chmod", "chown", "close", "rename"}
    BY <1>3 DEF Making, inst_mkdir, install_rmkdir, OwnDir, NoSuchOwner, Goto, Returns,
                ReturnsWith, Stop
  <2>. QED BY <1>3, <2>1, MakingTyped DEF IInv, TmpReady
<1>4. CASE Linking \/ install_file_check \/ deinst
  <2>1. step' \notin {"mkdir", "chmod", "chown", "close", "rename"}
    BY <1>4 DEF Linking, inst_link, MakeLink, BackToStart, install_file_check, deinst, Unmade,
                NoSuchOwner, Goto, Returns, ReturnsWith, Stop
  <2>. QED BY <1>4, <2>1, OthersTyped DEF IInv, TmpReady, PrefixInRange
<1>5. CASE Killed \/ \E p \in Programs, d \in BOOLEAN : InitFails(p, d) \/ Main(p, d)
  <2>1. CASE step' \notin {"mkdir", "chmod", "chown", "close", "rename"}
    BY <1>5, <2>1, ProgramsTyped DEF IInv, TmpReady, PrefixInRange
  <2>2. CASE UNCHANGED <<fs, item, step, prefix>>
    BY <1>5, <2>2, ProgramsTyped DEF IInv, TmpReady, PrefixInRange, It, TmpOf, New
  <2>. QED BY <1>5, <2>1, <2>2 DEF Killed, InitFails, Main, Stop, here
<1>. QED BY <1>1, <1>2, <1>3, <1>4, <1>5 DEF Next

THEOREM Invariance == Spec => []IInv
<1>1. Init => IInv
  BY InitTyped
<1>2. IInv /\ [Next]_vars => IInv'
  BY NextIInv
<1>. QED BY <1>1, <1>2, PTL DEF Spec

\* Every variable has its type in every reachable state, whatever the items, the
\* faults and the interruptions (the main programs and install-core.c).
THEOREM TypeCorrect == Spec => []TypeOK
BY Invariance, PTL DEF IInv

----------------------------------------------------------------------------
(* The refinement *)

\* Writing to a path that is no destination changes no destination.
LEMMA OtherPaths ==
  ASSUME NEW p \in Paths \ Dsts, NEW n, fs \in [Paths -> Nodes], Put(p, n)
  PROVE  \A i \in Copies : fs'[insthier[i].dst] = fs[insthier[i].dst]
<1>1. \A i \in Copies : insthier[i].dst \in Dsts /\ insthier[i].dst \in Paths
  BY ItemsOK DEF ItemsOK, Dsts
<1>. QED BY <1>1 DEF Put

Same == [i \in Copies |-> fs[insthier[i].dst]]' = [i \in Copies |-> fs[insthier[i].dst]]

\* A copy replaces its destination when it renames the temporary file, which is
\* then what the item wants, and touches no destination before.
LEMMA CopyingRefines ==
  ASSUME IInv, Copying
  PROVE  AR!Next \/ Same
<1>1. /\ It.op = "copy" /\ item \in Items /\ fs \in [Paths -> Nodes]
  BY DEF Copying, inst_copy, OpenSource, CreateTmp, WriteTmp, SetMode, SetOwnership,
         CloseBoth, Rename, CopyFails, At, IInv, TypeOK, MainOK
<1>2. /\ item \in Copies /\ It.dst \in Dsts /\ It.dst \in Paths
      /\ TmpOf(It) \in Paths \ Dsts
  BY <1>1, CopyPaths
<1>3. CASE UNCHANGED fs
  BY <1>3 DEF Same
<1>4. CASE \E n : Put(TmpOf(It), n)
  BY <1>1, <1>2, <1>4, OtherPaths DEF Same
<1>5. CASE Rename
  <2>1. fs[TmpOf(It)] = New(insthier[item])
    BY <1>1, <1>5 DEF Rename, At, IInv, TmpReady, It
  <2>2. \A i \in Copies : /\ insthier[i].dst \in Paths \ {TmpOf(It)}
                          /\ insthier[i].dst = It.dst => i = item
    BY <1>2, ItemsOK DEF ItemsOK, Dsts, It
  <2>3. fs' = [fs EXCEPT ![It.dst] = fs[TmpOf(It)], ![TmpOf(It)] = Absent]
    BY <1>5 DEF Rename
  <2>4. \A i \in Copies : fs'[insthier[i].dst] =
          IF i = item THEN New(insthier[item]) ELSE fs[insthier[i].dst]
    BY <1>1, <1>2, <2>1, <2>2, <2>3 DEF It
  <2>5. [i \in Copies |-> fs[insthier[i].dst]]' =
          [[i \in Copies |-> fs[insthier[i].dst]] EXCEPT
             ![item] = [i \in Copies |-> New(insthier[i])][item]]
    BY <1>2, <2>4
  <2>. QED BY <1>2, <2>5 DEF AR!Next, AR!Replace
<1>. QED BY <1>3, <1>4, <1>5
         DEF Copying, inst_copy, OpenSource, CreateTmp, WriteTmp, SetMode, SetOwnership,
             CloseBoth, CopyFails

\* Making directories and links touches no destination.
LEMMA OthersRefine ==
  ASSUME IInv, Making \/ Linking
  PROVE  Same
<1>1. item \in Items /\ fs \in [Paths -> Nodes]
  BY DEF IInv, TypeOK, MainOK
<1>2. CASE UNCHANGED fs
  BY <1>2 DEF Same
<1>3. CASE install_rmkdir /\ fs' # fs
  <2>1. item \in Mkdirs /\ prefix \in 1..Len(Prefixes[It.dir])
    BY <1>1, <1>3 DEF install_rmkdir, At, Mkdirs, It, IInv, PrefixInRange
  <2>2. Prefixes[It.dir] \in Seq(Paths \ (Dsts \cup Tmps))
    BY <2>1, ItemsOK DEF ItemsOK, It
  <2>3. Prefixes[It.dir][prefix] \in Paths \ Dsts
    BY <2>1, <2>2
  <2>4. Put(Prefixes[It.dir][prefix], Dir(It.mode \ Umask))
    BY <1>3 DEF install_rmkdir
  <2>. QED BY <1>1, <2>3, <2>4, OtherPaths DEF Same
<1>4. CASE MakeLink /\ fs' # fs
  <2>1. item \in Links
    BY <1>1, <1>4 DEF MakeLink, At, Links, It
  <2>2. It.dst \in Paths \ Dsts
    BY <2>1, ItemsOK DEF ItemsOK, It
  <2>3. Put(It.dst, Link)
    BY <1>4 DEF MakeLink
  <2>. QED BY <1>1, <2>2, <2>3, OtherPaths DEF Same
<1>. QED BY <1>2, <1>3, <1>4 DEF Making, Linking, inst_mkdir, OwnDir, inst_link, BackToStart

\* The deinstaller removes the destination of a copy, or no destination.
LEMMA DeinstRefines ==
  ASSUME IInv, deinst
  PROVE  AR!Next \/ Same
<1>1. item \in Items /\ fs \in [Paths -> Nodes] /\ It \in ItemType
  BY ItemTyped DEF IInv, TypeOK, MainOK
<1>2. CASE UNCHANGED fs
  BY <1>2 DEF Same
<1>3. CASE Put(CheckedPath, Absent) /\ It.op = "copy"
  <2>1. item \in Copies /\ It.dst \in Paths /\ CheckedPath = It.dst
    BY <1>1, <1>3, CopyPaths DEF CheckedPath
  <2>2. \A i \in Copies : insthier[i].dst = It.dst => i = item
    BY <2>1, ItemsOK DEF ItemsOK, It
  <2>3. \A i \in Copies : insthier[i].dst \in Paths
    BY ItemsOK DEF ItemsOK, Dsts
  <2>4. \A i \in Copies : fs'[insthier[i].dst] =
          IF i = item THEN Absent ELSE fs[insthier[i].dst]
    BY <1>1, <1>3, <2>1, <2>2, <2>3 DEF Put, It
  <2>5. [i \in Copies |-> fs[insthier[i].dst]]' =
          [[i \in Copies |-> fs[insthier[i].dst]] EXCEPT ![item] = Absent]
    BY <2>1, <2>4
  <2>. QED BY <2>1, <2>5 DEF AR!Next, AR!Remove
<1>4. CASE Put(CheckedPath, Absent) /\ It.op # "copy"
  <2>1. CheckedPath \in Paths \ Dsts
    <3>1. CASE It.op = "link"
      <4>1. item \in Links /\ CheckedPath = It.dst
        BY <1>1, <3>1 DEF Links, It, CheckedPath
      <4>. QED BY <4>1, ItemsOK DEF ItemsOK, It
    <3>2. CASE It.op = "mkdir"
      <4>1. item \in Mkdirs /\ CheckedPath = It.dir
        BY <1>1, <3>2 DEF Mkdirs, It, CheckedPath
      <4>. DEFINE ps == Prefixes[It.dir]
      <4>2. ps \in Seq(Paths \ (Dsts \cup Tmps)) /\ ps # <<>> /\ ps[Len(ps)] = It.dir
        BY <4>1, ItemsOK DEF ItemsOK, It
      <4>3. Len(ps) \in 1..Len(ps)
        BY <4>2
      <4>. QED BY <4>1, <4>2, <4>3
    <3>. QED BY <1>1, <1>4, <3>1, <3>2 DEF ItemType
  <2>. QED BY <1>1, <1>4, <2>1, OtherPaths DEF Same
<1>. QED BY <1>2, <1>3, <1>4 DEF deinst

LEMMA InitRefines ==
  ASSUME Init
  PROVE  AR!Init
<1>1. \A i \in Copies : insthier[i].dst \in Dsts /\ insthier[i].dst \in Paths
  BY ItemsOK DEF ItemsOK, Dsts
<1>2. \A i \in Copies : insthier[i].dst \notin Tmps
  BY <1>1, ItemsOK DEF ItemsOK
<1>3. \A i \in Copies : fs[insthier[i].dst] \in {Absent, File("old", Created)}
  BY <1>1, <1>2 DEF Init, InitialNodes
<1>. QED BY <1>3 DEF AR!Init

\* Every step replaces one destination, removes one or changes none.
LEMMA NextRefines ==
  ASSUME IInv, [Next]_vars
  PROVE  AR!Next \/ Same
<1>1. CASE UNCHANGED fs
  BY <1>1 DEF Same
<1>2. CASE Copying
  BY <1>2, CopyingRefines
<1>3. CASE Making \/ Linking
  BY <1>3, OthersRefine
<1>4. CASE deinst
  BY <1>4, DeinstRefines
<1>. QED BY <1>1, <1>2, <1>3, <1>4 DEF Next, vars, install_file_check, Killed, InitFails, Main

\* Each installed file is replaced by a whole one with its mode, or removed, in
\* one step, whatever fails and wherever a program is interrupted (dst.tmp and
\* rename in install_file_copy).
THEOREM Replacement == Spec => ReplacesAtomically
<1>1. Init => AR!Init
  BY InitRefines
<1>2. IInv /\ [Next]_vars => [AR!Next]_([i \in Copies |-> fs[insthier[i].dst]])
  BY NextRefines DEF Same
<1>. QED BY <1>1, <1>2, Invariance, PTL DEF Spec, ReplacesAtomically, AR!Spec
============================================================================
