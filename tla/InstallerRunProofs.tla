------------------------- MODULE InstallerRunProofs -------------------------
(***************************************************************************)
(* Theorems of Installer about a whole run, for any items that do not      *)
(* share paths, any failures and interruptions: the directory each item    *)
(* starts in, and what the statuses of a run say of the file system.       *)
(***************************************************************************)
EXTENDS InstallerProofs

----------------------------------------------------------------------------
(* The working directory *)

\* The steps of inst_link between the way there and the way back.
Away == {"symlink", "back", "back after error"}
AtTop == step \notin Away \cup {"none"} => cwd = Top

LEMMA NextAtTop ==
  ASSUME AtTop, [Next]_vars
  PROVE  AtTop'
<1>. USE DEF AtTop, Away
<1>a. ASSUME NEW s, NEW n, ReturnsWith(s, n), cwd' = Top \/ s = "FATAL" PROVE AtTop'
  BY <1>a DEF ReturnsWith, Stop
<1>b. ASSUME NEW s, Returns(s), cwd' = Top \/ s = "FATAL" PROVE AtTop'
  BY <1>a, <1>b DEF Returns
<1>c. ASSUME NoSuchOwner, cwd' = Top PROVE AtTop'
  BY <1>b, <1>c DEF NoSuchOwner
<1>1. CASE UNCHANGED vars
  BY <1>1 DEF vars
<1>2. CASE Copying
  <2>1. cwd = Top /\ cwd' = Top
    BY <1>2 DEF Copying, inst_copy, OpenSource, CreateTmp, WriteTmp, SetMode, SetOwnership,
                CloseBoth, Rename, CopyFails, At, here
  <2>. QED BY <2>1
<1>3. CASE Making
  <2>1. cwd = Top /\ cwd' = Top
    BY <1>3 DEF Making, inst_mkdir, install_rmkdir, OwnDir, At, here
  <2>. QED BY <2>1
<1>4. CASE inst_link
  BY <1>4, <1>b DEF inst_link, At, Goto
<1>5. CASE MakeLink
  BY <1>5 DEF MakeLink, Unmade, Goto
<1>6. CASE BackToStart
  BY <1>6, <1>b DEF BackToStart
<1>7. CASE install_file_check \/ deinst
  <2>1. cwd = Top /\ cwd' = Top
    BY <1>7 DEF install_file_check, deinst
  <2>. QED BY <2>1
<1>8. CASE Killed \/ \E p \in Programs, d \in BOOLEAN : InitFails(p, d) \/ Main(p, d)
  BY <1>8 DEF Killed, Stop, InitFails, Main, here
<1>. QED BY <1>1, <1>2, <1>3, <1>4, <1>5, <1>6, <1>7, <1>8 DEF Next, Linking

\* Every item is begun in the directory the program was started in, whatever
\* failed before it: inst_link comes back, or the run is over.
THEOREM StartsThere == Spec => []StartsAtTop
<1>1. Init => AtTop
  BY DEF Init, AtTop
<1>2. AtTop /\ [Next]_vars => AtTop'
  BY NextAtTop
<1>3. AtTop => StartsAtTop
  BY DEF AtTop, Away, StartsAtTop
<1>. QED BY <1>1, <1>2, <1>3, PTL DEF Spec

----------------------------------------------------------------------------
(* What is reported *)

Kept == \A i \in Items : Done(i) => Done(i)'

\* While the installer runs what it has reported so far is done, and a link
\* that it has made stays until it is back.
SoFar ==
  prog = "installer" /\ ~dry =>
    /\ \A i \in Items : report[i] = "OK" => Done(i)
    /\ step = "back" => Exists(It.dst)
Honest == SoFar /\ OKMeansDone

LEMMA Places ==
  /\ \A i \in Items : Place(i) \in Paths \ Tmps
  /\ \A i \in Items \ Copies : Place(i) \notin Dsts
  /\ \A i \in Copies : i \notin Mkdirs /\ Place(i) = insthier[i].dst /\ Place(i) \in Dsts
  /\ \A i \in Links : i \in Items \ Copies /\ i \notin Mkdirs
<1>1. \A i \in Items : i \in Copies \/ i \in Mkdirs \/ i \in Links
  <2>. SUFFICES ASSUME NEW i \in Items PROVE insthier[i].op \in {"copy", "mkdir", "link"}
    BY DEF Copies, Mkdirs, Links
  <2>1. insthier[i] \in ItemType
    BY ItemsOK DEF ItemsOK, Items
  <2>. QED BY <2>1 DEF ItemType
<1>2. \A i \in Copies : i \notin Mkdirs /\ i \notin Links /\ insthier[i].dst \in Dsts
  BY DEF Copies, Mkdirs, Links, Dsts
<1>3. \A i \in Links : i \notin Mkdirs /\ i \notin Copies /\ i \in Items
  BY DEF Copies, Mkdirs, Links
<1>4. \A i \in Mkdirs : insthier[i].dir \in Paths \ (Dsts \cup Tmps)
  <2>. SUFFICES ASSUME NEW i \in Mkdirs PROVE insthier[i].dir \in Paths \ (Dsts \cup Tmps)
    OBVIOUS
  <2>. DEFINE ps == Prefixes[insthier[i].dir]
  <2>1. ps \in Seq(Paths \ (Dsts \cup Tmps)) /\ ps # <<>> /\ ps[Len(ps)] = insthier[i].dir
    BY ItemsOK DEF ItemsOK
  <2>. HIDE DEF ps
  <2>. QED BY <2>1
<1>5. \A i \in Links : insthier[i].dst \in Paths \ (Dsts \cup Tmps)
  BY ItemsOK DEF ItemsOK
<1>6. Dsts \subseteq Paths /\ Tmps \cap Dsts = {}
  BY ItemsOK DEF ItemsOK
<1>. QED BY <1>1, <1>2, <1>3, <1>4, <1>5, <1>6 DEF Place, Items, Copies

\* Whether an item is done depends on the node at its place.
LEMMA DoneAt ==
  ASSUME NEW i \in Items, Done(i),
         fs'[Place(i)] = fs[Place(i)] \/ (i \notin Copies /\ fs'[Place(i)].kind # "absent")
  PROVE  Done(i)'
BY Places DEF Done, Place, Exists

\* A temporary file is at no item's place.
LEMMA TmpWritten ==
  ASSUME IInv, item \in Items, It.op = "copy", NEW n, Put(TmpOf(It), n)
  PROVE  Kept
<1>1. fs \in [Paths -> Nodes] /\ TmpOf(It) \in Tmps
  BY CopyPaths DEF IInv, TypeOK
<1>2. \A i \in Items : fs'[Place(i)] = fs[Place(i)]
  BY <1>1, Places DEF Put
<1>. QED BY <1>2, DoneAt DEF Kept

\* A node made where nothing was undoes no item.
LEMMA NewNode ==
  ASSUME IInv, NEW p \in Paths \ Dsts, NEW n, Put(p, n), n.kind # "absent"
  PROVE  Kept
<1>1. fs \in [Paths -> Nodes]
  BY DEF IInv, TypeOK
<1>2. \A i \in Items : \/ fs'[Place(i)] = fs[Place(i)]
                       \/ i \notin Copies /\ fs'[Place(i)].kind # "absent"
  BY <1>1, Places DEF Put
<1>. QED BY <1>2, DoneAt DEF Kept

LEMMA SameFiles ==
  ASSUME UNCHANGED fs
  PROVE  Kept
BY DEF Kept, Done, Exists

LEMMA Stopped ==
  ASSUME IInv, prog \in Programs, NEW exit, NEW rep, Stop(exit, rep),
         prog = "installer" /\ ~dry => \A i \in Items : rep[i] = "OK" => Done(i)'
  PROVE  Honest'
<1>. DEFINE run == [prog |-> prog, dry |-> dry, exit |-> exit,
                    faults |-> faults', report |-> rep]
<1>1. log \in Seq(Runs) /\ log' = Append(log, run) /\ prog' = "none"
  BY DEF Stop, IInv, TypeOK, MainOK
<1>2. log'[Len(log')] = run
  BY <1>1
<1>3. OKMeansDone'
  BY <1>2 DEF OKMeansDone, Ran, LastRun
<1>. QED BY <1>1, <1>3 DEF Honest, SoFar

LEMMA Reported ==
  ASSUME IInv, SoFar, prog \in Programs, NEW s, NEW n, ReturnsWith(s, n),
         prog = "installer" /\ ~dry => Kept /\ \A i \in Items : i = item /\ s = "OK" => Done(i)'
  PROVE  Honest'
<1>. DEFINE rep == [report EXCEPT ![item] = s]
<1>1. prog = "installer" /\ ~dry => \A i \in Items : rep[i] = "OK" => Done(i)'
  <2>1. report \in [Items -> Statuses] /\ item \in Items
    BY DEF IInv, TypeOK, MainOK
  <2>2. ASSUME prog = "installer", ~dry, NEW i \in Items, rep[i] = "OK" PROVE Done(i)'
    <3>1. CASE i = item
      BY <2>1, <2>2, <3>1
    <3>2. CASE i # item
      <4>1. Done(i)
        BY <2>1, <2>2, <3>2 DEF SoFar
      <4>. QED BY <2>2, <4>1 DEF Kept
    <3>. QED BY <3>1, <3>2
  <2>. QED BY <2>2
<1>2. CASE \E exit : Stop(exit, rep)
  BY <1>1, <1>2, Stopped
<1>3. CASE report' = rep /\ step' = "start" /\ UNCHANGED <<prog, dry>>
  BY <1>1, <1>3 DEF Honest, SoFar, OKMeansDone, Ran, Ended, Programs
<1>. QED BY <1>2, <1>3 DEF ReturnsWith

LEMMA GoneOn ==
  ASSUME SoFar, prog \in Programs, NEW s, Goto(s), UNCHANGED <<prog, dry>>, Kept,
         s = "back" => Exists(It.dst)'
  PROVE  Honest'
<1>1. step' = s /\ item' = item /\ report' = report
  BY DEF Goto
<1>2. OKMeansDone'
  BY DEF OKMeansDone, Ran, Ended, Programs
<1>3. SoFar'
  BY <1>1 DEF SoFar, Kept, It
<1>. QED BY <1>2, <1>3 DEF Honest

LEMMA NextHonest ==
  ASSUME IInv, Honest, [Next]_vars
  PROVE  Honest'
<1>0. /\ SoFar /\ item \in Items /\ fs \in [Paths -> Nodes] /\ step \in Steps
      /\ prog \in Programs \cup {"none"}
  BY DEF Honest, IInv, TypeOK, MainOK
<1>a. ASSUME NoSuchOwner, UNCHANGED fs, prog \in Programs PROVE Honest'
  BY <1>0, <1>a, SameFiles, Reported DEF NoSuchOwner, Returns
<1>1. CASE UNCHANGED vars
  BY <1>1 DEF vars, Honest, SoFar, OKMeansDone, Ran, Ended, LastRun, Done, Exists, It
<1>2. CASE Copying
  <2>1. prog \in Programs /\ prog = "installer" /\ It.op = "copy" /\ TmpOf(It) \in Paths
    <3>1. prog = "installer" /\ It.op = "copy"
      BY <1>2 DEF Copying, inst_copy, OpenSource, CreateTmp, WriteTmp, SetMode, SetOwnership,
                  CloseBoth, Rename, CopyFails, At
    <3>. QED BY <1>0, <3>1, CopyPaths DEF Programs
  <2>a. ASSUME NEW s, s # "back", Goto(s), UNCHANGED here, Kept PROVE Honest'
    BY <1>0, <2>1, <2>a, GoneOn DEF here
  <2>2. CASE inst_copy
    <3>1. ASSUME dry, Returns("OK") PROVE Honest'
      BY <1>0, <2>1, <3>1, Reported DEF Returns
    <3>. QED BY <1>a, <2>1, <2>2, <2>a, <3>1, SameFiles DEF inst_copy
  <2>3. CASE OpenSource
    <3>1. ASSUME Returns("ERROR"), UNCHANGED fs PROVE Honest'
      BY <1>0, <2>1, <3>1, SameFiles, Reported DEF Returns
    <3>. QED BY <2>3, <2>a, <3>1, SameFiles DEF OpenSource
  <2>4. CASE CreateTmp \/ WriteTmp \/ SetMode
    <3>1. Kept
      BY <1>0, <2>1, <2>4, TmpWritten DEF CreateTmp, WriteTmp, SetMode
    <3>. QED BY <2>4, <2>a, <3>1 DEF CreateTmp, WriteTmp, SetMode
  <2>5. CASE SetOwnership \/ CloseBoth
    BY <2>5, <2>a, SameFiles DEF SetOwnership, CloseBoth, here
  <2>6. CASE Rename
    <3>1. /\ It.dst \in Dsts /\ It.dst \in Paths /\ TmpOf(It) \in Tmps /\ item \in Copies
          /\ TmpOf(It) # It.dst
      BY <1>0, <2>1, CopyPaths
    <3>2. fs[TmpOf(It)] = New(It) /\ Returns("OK")
          /\ fs' = [fs EXCEPT ![It.dst] = fs[TmpOf(It)], ![TmpOf(It)] = Absent]
      BY <2>6 DEF Rename, At, IInv, TmpReady
    <3>3. fs'[It.dst] = New(It)
      BY <1>0, <2>1, <3>1, <3>2
    <3>4. \A i \in Items : i = item => Done(i)'
      BY <3>1, <3>3 DEF Done, It, New
    <3>5. \A i \in Items : i # item => Place(i) # It.dst
      BY <3>1, Places, ItemsOK DEF ItemsOK, It
    <3>6. \A i \in Items : i # item => fs'[Place(i)] = fs[Place(i)]
      BY <1>0, <3>1, <3>2, <3>5, Places
    <3>7. Kept
      BY <3>4, <3>6, DoneAt DEF Kept
    <3>. QED BY <1>0, <2>1, <3>2, <3>4, <3>7, Reported DEF Returns
  <2>7. CASE CopyFails
    <3>1. ASSUME Put(TmpOf(It), Absent), Returns("ERROR") PROVE Honest'
      BY <1>0, <2>1, <3>1, TmpWritten, Reported DEF Returns
    <3>2. ASSUME Stop("undefined", report), UNCHANGED fs PROVE Honest'
      <4>1. prog = "installer" /\ ~dry => \A i \in Items : report[i] = "OK" => Done(i)'
        BY <1>0, <3>2, SameFiles DEF SoFar, Kept
      <4>. QED BY <2>1, <3>2, <4>1, Stopped
    <3>. QED BY <2>7, <3>1, <3>2 DEF CopyFails
  <2>. QED BY <1>2, <2>2, <2>3, <2>4, <2>5, <2>6, <2>7 DEF Copying
<1>3. CASE Making
  <2>1. prog \in Programs /\ prog = "installer" /\ It.op = "mkdir" /\ item \in Mkdirs
    <3>1. prog = "installer" /\ It.op = "mkdir"
      BY <1>3 DEF Making, inst_mkdir, install_rmkdir, OwnDir, At
    <3>. QED BY <1>0, <3>1 DEF Programs, Mkdirs, It
  <2>a. ASSUME NEW s, s # "back", Goto(s), UNCHANGED <<prog, dry>>, Kept PROVE Honest'
    BY <1>0, <2>1, <2>a, GoneOn
  <2>2. CASE inst_mkdir
    <3>1. ASSUME dry, Returns("OK") PROVE Honest'
      BY <1>0, <2>1, <3>1, Reported DEF Returns
    <3>. QED BY <1>a, <2>1, <2>2, <2>a, <3>1, SameFiles DEF inst_mkdir
  <2>3. CASE install_rmkdir
    <3>. DEFINE p == Prefixes[It.dir][prefix]
    <3>1. p \in Paths \ (Dsts \cup Tmps)
      <4>1. /\ Prefixes[It.dir] \in Seq(Paths \ (Dsts \cup Tmps))
            /\ prefix \in 1..Len(Prefixes[It.dir])
        BY <2>1, <2>3, ItemsOK DEF ItemsOK, It, IInv, PrefixInRange, install_rmkdir, At
      <4>. DEFINE ps == Prefixes[It.dir]
      <4>. HIDE DEF ps
      <4>2. ps[prefix] \in Paths \ (Dsts \cup Tmps)
        BY <4>1 DEF ps
      <4>. QED BY <4>2 DEF ps
    <3>2. UNCHANGED fs \/ Put(p, Dir(It.mode \ Umask))
      BY <2>3 DEF install_rmkdir
    <3>3. Dir(It.mode \ Umask).kind # "absent"
      BY DEF Dir
    <3>4. Kept
      <4>. HIDE DEF p
      <4>. QED BY <3>1, <3>2, <3>3, NewNode, SameFiles
    <3>. QED BY <2>3, <2>a, <3>4 DEF install_rmkdir
  <2>4. CASE OwnDir
    <3>1. ASSUME Owns, Returns("OK"), UNCHANGED fs PROVE Honest'
      <4>1. \A i \in Items : i = item => Done(i)'
        BY <2>1, <3>1, Places DEF Done, Owns, It, Exists
      <4>. QED BY <1>0, <2>1, <3>1, <4>1, SameFiles, Reported DEF Returns
    <3>2. ASSUME Returns("ERROR"), UNCHANGED fs PROVE Honest'
      BY <1>0, <2>1, <3>2, SameFiles, Reported DEF Returns
    <3>. QED BY <2>4, <3>1, <3>2 DEF OwnDir
  <2>. QED BY <1>3, <2>2, <2>3, <2>4 DEF Making
<1>4. CASE Linking
  <2>1. prog \in Programs /\ prog = "installer" /\ It.op = "link" /\ item \in Links
    <3>1. prog = "installer" /\ It.op = "link"
      BY <1>4 DEF Linking, inst_link, MakeLink, BackToStart, At
    <3>. QED BY <1>0, <3>1 DEF Programs, Links, It
  <2>2. CASE inst_link
    <3>1. ASSUME cwd' = It.dir, Goto(IF dry THEN "back" ELSE "symlink") PROVE Honest'
      <4>1. UNCHANGED <<fs, prog, dry>>
        BY <2>2 DEF inst_link
      <4>2. CASE dry
        BY <2>1, <3>1, <4>1, <4>2 DEF Goto, Honest, SoFar, OKMeansDone, Ran, Ended, Programs
      <4>3. CASE ~dry
        BY <1>0, <2>1, <3>1, <4>1, <4>3, SameFiles, GoneOn
      <4>. QED BY <4>2, <4>3
    <3>2. ASSUME Returns("ERROR") PROVE Honest'
      BY <1>0, <2>1, <2>2, <3>2, SameFiles, Reported DEF Returns, inst_link
    <3>. QED BY <2>2, <3>1, <3>2 DEF inst_link
  <2>3. CASE MakeLink
    <3>1. CASE Put(It.dst, Link) /\ ~Exists(It.dst) /\ Goto("back") /\ UNCHANGED here
      <4>1. It.dst \in Paths \ (Dsts \cup Tmps)
        BY <2>1, ItemsOK DEF ItemsOK, It
      <4>2. Kept
        BY <3>1, <4>1, NewNode DEF Link
      <4>3. Exists(It.dst)'
        BY <1>0, <3>1, <4>1 DEF Put, Exists, Link, Goto, It
      <4>. QED BY <1>0, <2>1, <3>1, <4>2, <4>3, GoneOn DEF here
    <3>2. CASE Unmade /\ UNCHANGED fs
      BY <1>0, <2>1, <3>2, SameFiles, GoneOn DEF Unmade, here
    <3>. QED BY <2>3, <3>1, <3>2 DEF MakeLink
  <2>4. CASE BackToStart
    <3>1. ASSUME step = "back", ~dry, NEW i \in Items, i = item PROVE Done(i)'
      BY <1>0, <2>1, <2>4, <3>1, Places DEF SoFar, Done, Exists, It, BackToStart
    <3>2. ASSUME NEW s, Returns(s), s = "OK" => step = "back" PROVE Honest'
      BY <1>0, <2>1, <2>4, <3>1, <3>2, SameFiles, Reported DEF Returns, BackToStart
    <3>. QED BY <2>4, <3>2 DEF BackToStart
  <2>. QED BY <1>4, <2>2, <2>3, <2>4 DEF Linking
<1>5. CASE install_file_check
  <2>1. prog \in Programs /\ prog = "instchk" /\ UNCHANGED fs
    BY <1>5 DEF install_file_check, Programs
  <2>2. ASSUME NEW s, NEW n, ReturnsWith(s, n) PROVE Honest'
    BY <1>0, <2>1, <2>2, Reported
  <2>. QED BY <1>5, <1>a, <2>1, <2>2 DEF install_file_check, Returns
<1>6. CASE deinst
  <2>1. prog \in Programs /\ prog = "deinstaller"
    BY <1>6 DEF deinst, Programs
  <2>2. ASSUME NEW s, Returns(s) PROVE Honest'
    BY <1>0, <2>1, <2>2, Reported DEF Returns
  <2>. QED BY <1>6, <2>2 DEF deinst
<1>7. CASE Killed
  <2>1. prog \in Programs /\ Stop("killed", report) /\ UNCHANGED fs
    BY <1>0, <1>7 DEF Killed
  <2>2. prog = "installer" /\ ~dry => \A i \in Items : report[i] = "OK" => Done(i)'
    BY <1>0, <2>1, SameFiles DEF SoFar, Kept
  <2>. QED BY <2>1, <2>2, Stopped
<1>8. ASSUME NEW p \in Programs, NEW d \in BOOLEAN, InitFails(p, d) PROVE Honest'
  <2>. DEFINE run == [prog |-> p, dry |-> d, exit |-> "exit 112", faults |-> 0,
                      report |-> [i \in Items |-> "none"]]
  <2>1. log \in Seq(Runs) /\ log' = Append(log, run) /\ prog' = "none"
    BY <1>8 DEF InitFails, Starts, here, IInv, TypeOK, MainOK
  <2>2. log'[Len(log')] = run
    <3>. HIDE DEF run
    <3>. QED BY <2>1
  <2>3. \A i \in Items : run.report[i] = "none"
    OBVIOUS
  <2>4. \A i \in Items : LastRun'.report[i] # "OK"
    <3>. HIDE DEF run
    <3>. QED BY <2>2, <2>3 DEF LastRun
  <2>. QED BY <2>1, <2>4 DEF Honest, SoFar, OKMeansDone
<1>9. ASSUME NEW p \in Programs, NEW d \in BOOLEAN, Main(p, d) PROVE Honest'
  <2>1. prog' = p /\ step' = "start" /\ report' = [i \in Items |-> "none"]
    BY <1>9 DEF Main
  <2>. QED BY <2>1 DEF Honest, SoFar, OKMeansDone, Ran, Ended, Programs
<1>. QED BY <1>1, <1>2, <1>3, <1>4, <1>5, <1>6, <1>7, <1>8, <1>9 DEF Next

\* Every item that a run of the installer has reported as OK is in its place
\* when the run is over, however it ended and whatever was there before.
THEOREM OKIsDone == Spec => []OKMeansDone
<1>1. Init => Honest
  BY DEF Init, Honest, SoFar, OKMeansDone, Ran, Ended
<1>2. IInv /\ Honest /\ [Next]_vars => Honest'
  BY NextHonest
<1>3. Honest => OKMeansDone
  BY DEF Honest
<1>. QED BY <1>1, <1>2, <1>3, Invariance, PTL DEF Spec
----------------------------------------------------------------------------
(* Two runs *)

\* A record added to the log is the last, and the last is now the one before.
LEMMA Logged ==
  ASSUME IInv, NEW run, log' = Append(log, run)
  PROVE  /\ LastRun' = run /\ log' # <<>> /\ Len(log') = Len(log) + 1 /\ Len(log) \in Nat
         /\ log = <<>> <=> Len(log) = 0
         /\ log # <<>> => log'[Len(log') - 1] = LastRun
<1>1. log \in Seq(Runs)
  BY DEF IInv, TypeOK, MainOK
<1>. QED BY <1>1 DEF LastRun

\* The records of a step that ends a program.
Record(exit, rep) ==
  [prog |-> prog, dry |-> dry, exit |-> exit, faults |-> faults', report |-> rep]
Ends(exit, rep) == prog' = "none" /\ log' = Append(log, Record(exit, rep))
Halts == \E exit, rep : Ends(exit, rep)
GoesOn == UNCHANGED <<prog, dry, log>>

\* What main does with the status of an item.
LEMMA MainLoop ==
  ASSUME IInv, prog \in Programs, NEW s, NEW n, ReturnsWith(s, n)
  PROVE  /\ failed' = n
         /\ \/ s = "FATAL" /\ Ends("exit 112", [report EXCEPT ![item] = s])
            \/ /\ s # "FATAL" /\ Advance = 0
               /\ Ends(IF n > 0 THEN "exit 1" ELSE "exit 0", [report EXCEPT ![item] = s])
            \/ /\ s # "FATAL" /\ Advance # 0 /\ GoesOn
               /\ item' = Advance /\ step' = "start" /\ report' = [report EXCEPT ![item] = s]
BY DEF ReturnsWith, Stop, Ends, Record, GoesOn

\* A step of a program: it goes on, or ends and leaves its record.
LEMMA ProgramStep ==
  ASSUME IInv, Acts
  PROVE  prog \in Programs /\ (GoesOn \/ Halts)
<1>1. prog \in Programs
  BY DEF Acts, Copying, inst_copy, OpenSource, CreateTmp, WriteTmp, SetMode, SetOwnership,
         CloseBoth, Rename, CopyFails, Making, inst_mkdir, install_rmkdir, OwnDir, Linking,
         inst_link, MakeLink, BackToStart, install_file_check, deinst, At, Programs
<1>a. ASSUME NEW s, NEW n, ReturnsWith(s, n) PROVE GoesOn \/ Halts
  BY <1>1, <1>a, MainLoop DEF Halts
<1>b. ASSUME NEW s, Returns(s) PROVE GoesOn \/ Halts
  BY <1>a, <1>b DEF Returns
<1>c. ASSUME NEW s, Goto(s), UNCHANGED <<prog, dry>> PROVE GoesOn
  BY <1>c DEF Goto, GoesOn
<1>d. ASSUME NoSuchOwner PROVE GoesOn \/ Halts
  BY <1>b, <1>d DEF NoSuchOwner
<1>2. CASE CopyFails
  <2>1. ASSUME NEW exit, NEW rep, Stop(exit, rep) PROVE Halts
    BY <2>1 DEF Stop, Halts, Ends, Record
  <2>. QED BY <1>1, <1>2, <1>b, <2>1 DEF CopyFails
<1>3. CASE Copying /\ ~CopyFails
  BY <1>1, <1>3, <1>b, <1>c, <1>d DEF Copying, inst_copy, OpenSource, CreateTmp, WriteTmp, SetMode,
                                SetOwnership, CloseBoth, Rename, here
<1>4. CASE Making
  BY <1>1, <1>4, <1>b, <1>c, <1>d DEF Making, inst_mkdir, install_rmkdir, OwnDir, here
<1>5. CASE Linking
  BY <1>1, <1>5, <1>b, <1>c DEF Linking, inst_link, MakeLink, BackToStart, Unmade, here
<1>6. CASE install_file_check \/ deinst
  BY <1>1, <1>6, <1>a, <1>b, <1>d DEF install_file_check, deinst
<1>. QED BY <1>1, <1>2, <1>3, <1>4, <1>5, <1>6 DEF Acts

\* The last run has installed every item.
Installed(r) == r.prog = "installer" /\ ~r.dry /\ AllOK(r)
AfterInstall == log # <<>> /\ Installed(LastRun)

LEMMA InstalledIsDone ==
  ASSUME IInv, OKMeansDone, AfterInstall, prog = "none"
  PROVE  \A i \in Items : Done(i)
<1>1. Len(log) > 0 /\ log[Len(log) - 0] = LastRun
  <2>1. log \in Seq(Runs) /\ log # <<>>
    BY DEF IInv, TypeOK, MainOK, AfterInstall
  <2>. QED BY <2>1 DEF LastRun
<1>2. Ran(0, "installer")
  BY <1>1 DEF Ran, Ended, AfterInstall, Installed
<1>. QED BY <1>2 DEF OKMeansDone, AfterInstall, Installed, AllOK

\* A directory the check finds fault with.
BadDir(i) == i \in Mkdirs /\ GetMode(fs[insthier[i].dir]) # insthier[i].mode

\* While the check runs after an installation, and nothing fails, it has found
\* fault with the bad directories so far.
CheckedSoFar ==
  (prog = "instchk" /\ AfterInstall /\ faults = 0) =>
    /\ \A i \in Items : Done(i)
    /\ \A i \in Items : i < item => report[i] = IF BadDir(i) THEN "ERROR" ELSE "OK"
    /\ failed > 0 <=> \E i \in Items : i < item /\ BadDir(i)
Checked == CheckedSoFar /\ CheckAgrees

LEMMA PassesInstalled ==
  ASSUME Checkable, item \in Items, \A i \in Items : Done(i), NEW same_size \in BOOLEAN
  PROVE  Passes(same_size) <=> ~BadDir(item)
<1>1. It.op \in {"copy", "mkdir", "link"}
  BY ItemTyped DEF ItemType
<1>2. ASSUME NEW i \in Copies
      PROVE  /\ i \in Items /\ i \notin Mkdirs
             /\ fs[insthier[i].dst].kind = "file" /\ fs[insthier[i].dst].data = "new"
             /\ GetMode(fs[insthier[i].dst]) = insthier[i].mode
  <2>1. i \in Items /\ i \notin Mkdirs
    BY DEF Copies, Mkdirs
  <2>2. fs[insthier[i].dst] = [kind |-> "file", data |-> "new", mode |-> insthier[i].mode]
    BY <2>1 DEF Done, New, File
  <2>3. insthier[i].mode \cap Seen = insthier[i].mode
    BY DEF Checkable
  <2>. QED BY <2>1, <2>2, <2>3 DEF GetMode
<1>3. CASE It.op = "copy"
  <2>1. item \in Copies
    BY <1>3 DEF Copies, It
  <2>2. CheckedPath = It.dst /\ StatPath = It.dst
    BY <1>3 DEF CheckedPath, StatPath
  <2>. QED BY <1>2, <2>1, <2>2 DEF Passes, BadDir, It, Exists
<1>4. CASE It.op = "link"
  <2>1. item \in Links /\ item \notin Mkdirs /\ item \notin Copies
    BY <1>4 DEF Links, Mkdirs, Copies, It
  <2>2. CheckedPath = It.dst /\ StatPath = It.target
    BY <1>4 DEF CheckedPath, StatPath
  <2>3. PICK j \in Copies : insthier[j].dst = It.target /\ insthier[j].mode = It.mode
    BY <2>1 DEF Checkable, It
  <2>4. Exists(It.dst)
    BY <2>1 DEF Done, It
  <2>5. Exists(It.target) /\ GetMode(fs[It.target]) = It.mode
    BY <1>2, <2>3 DEF Exists
  <2>. QED BY <1>4, <2>1, <2>2, <2>4, <2>5 DEF Passes, BadDir
<1>5. CASE It.op = "mkdir"
  <2>1. item \in Mkdirs /\ item \notin Copies
    BY <1>5 DEF Mkdirs, Copies, It
  <2>2. CheckedPath = It.dir /\ StatPath = It.dir
    BY <1>5 DEF CheckedPath, StatPath
  <2>3. Exists(It.dir)
    BY <2>1 DEF Done, It
  <2>. QED BY <1>5, <2>1, <2>2, <2>3 DEF Passes, BadDir, It
<1>. QED BY <1>1, <1>3, <1>4, <1>5
\* A record of another program, or of a run that did not complete, says nothing
\* of the check.
LEMMA NoCheckEnded ==
  ASSUME IInv, NEW run, log' = Append(log, run), run.prog # "instchk" \/ ~Completed(run)
  PROVE  CheckAgrees'
<1>1. LastRun' = run /\ log'[Len(log') - 0] = run
  BY Logged DEF LastRun, IInv, TypeOK, MainOK
<1>. QED BY <1>1 DEF CheckAgrees, Ran

\* One item is checked.
LEMMA CheckOne ==
  ASSUME Checkable, IInv, Checked, install_file_check
  PROVE  Checked'
<1>0. /\ prog = "instchk" /\ prog \in Programs /\ item \in Items /\ UNCHANGED fs
      /\ report \in [Items -> Statuses] /\ failed \in Nat /\ faults \in Nat
      /\ Len(insthier) \in Nat /\ Items = 1..Len(insthier)
  BY ItemsOK DEF install_file_check, Programs, IInv, TypeOK, MainOK, ItemsOK, Items
<1>a. \A i \in Items : Done(i)' = Done(i) /\ BadDir(i)' = BadDir(i)
  BY <1>0 DEF Done, BadDir, Exists
\* The step fails for a reason of its own, or an earlier one did.
<1>1. CASE faults' # 0
  <2>1. CASE GoesOn
    BY <1>0, <1>1, <2>1 DEF GoesOn, Checked, CheckedSoFar, CheckAgrees, Ran, Ended
  <2>2. CASE Halts
    <3>1. PICK exit, rep : Ends(exit, rep)
      BY <2>2 DEF Halts
    <3>2. ~Completed(Record(exit, rep))
      BY <1>1 DEF Completed, Record
    <3>. QED BY <3>1, <3>2, NoCheckEnded DEF Ends, Checked, CheckedSoFar
  <2>. QED BY <2>1, <2>2, ProgramStep DEF Acts
<1>2. CASE faults' = 0 /\ AfterInstall
  <2>1. faults = 0 /\ ~Faults
    BY <1>0, <1>2 DEF install_file_check, NoSuchOwner, Faults, Holds, Fails
  <2>2. /\ \A i \in Items : Done(i)
        /\ \A i \in Items : i < item => report[i] = IF BadDir(i) THEN "ERROR" ELSE "OK"
        /\ failed > 0 <=> \E i \in Items : i < item /\ BadDir(i)
    BY <1>0, <1>2, <2>1 DEF Checked, CheckedSoFar
  <2>. DEFINE s == IF BadDir(item) THEN "ERROR" ELSE "OK"
              n == IF BadDir(item) THEN failed + 1 ELSE failed
              rep == [report EXCEPT ![item] = s]
  <2>3. ReturnsWith(s, n)
    <3>1. \A same_size \in BOOLEAN : Passes(same_size) <=> ~BadDir(item)
      BY <1>0, <2>2, PassesInstalled
    <3>. QED BY <2>1, <3>1 DEF install_file_check, NoSuchOwner, Fails, Returns
  <2>4. /\ failed' = n
        /\ \/ Advance = 0 /\ Ends(IF n > 0 THEN "exit 1" ELSE "exit 0", rep)
           \/ Advance # 0 /\ GoesOn /\ item' = Advance /\ report' = rep
    <3>1. s # "FATAL"
      OBVIOUS
    <3>2. rep = [report EXCEPT ![item] = s]
      OBVIOUS
    <3>. HIDE DEF s, n, rep
    <3>3. /\ failed' = n
          /\ \/ /\ s # "FATAL" /\ Advance = 0
                /\ Ends(IF n > 0 THEN "exit 1" ELSE "exit 0", [report EXCEPT ![item] = s])
             \/ /\ s # "FATAL" /\ Advance # 0 /\ GoesOn
                /\ item' = Advance /\ report' = [report EXCEPT ![item] = s]
      BY <1>0, <2>3, <3>1, MainLoop
    <3>. QED BY <3>2, <3>3
  <2>5. \A i \in Items : i <= item => rep[i] = IF BadDir(i) THEN "ERROR" ELSE "OK"
    <3>1. rep[item] = s
      BY <1>0
    <3>2. \A i \in Items : i # item => rep[i] = report[i]
      BY <1>0
    <3>3. \A i \in Items : i <= item => i < item \/ i = item
      BY <1>0
    <3>. HIDE DEF rep
    <3>. QED BY <2>2, <3>1, <3>2, <3>3
  <2>6. n > 0 <=> \E i \in Items : i <= item /\ BadDir(i)
    BY <1>0, <2>2
  <2>7. Advance = IF item = Len(insthier) THEN 0 ELSE item + 1
    BY <1>0 DEF Advance, Backwards
  <2>. HIDE DEF n, s, rep
  <2>8. CASE Advance = 0 /\ Ends(IF n > 0 THEN "exit 1" ELSE "exit 0", rep)
    <3>1. \A i \in Items : i <= item
      <4>1. item = Len(insthier)
        <5>1. Advance = 0
          BY <2>8
        <5>2. item \in 1..Len(insthier)
          BY <1>0
        <5>3. item + 1 # 0
          BY <5>2
        <5>. QED BY <2>7, <5>1, <5>3
      <4>. QED BY <1>0, <4>1
    <3>. DEFINE run == Record(IF n > 0 THEN "exit 1" ELSE "exit 0", rep)
    <3>2. run.report = rep /\ run.exit = IF n > 0 THEN "exit 1" ELSE "exit 0"
      BY DEF Record
    <3>3. LastRun' = run
      <4>1. log' = Append(log, run)
        BY <2>8 DEF Ends
      <4>. HIDE DEF run
      <4>. QED BY <4>1, Logged
    <3>4. \A i \in Copies : LastRun'.report[i] = "OK"
      BY <2>5, <3>1, <3>2, <3>3 DEF BadDir, Copies, Mkdirs
    <3>5. LastRun'.exit = "exit 1" <=> \E i \in Mkdirs : GetMode(fs[insthier[i].dir]) # insthier[i].mode
      <4>1. Mkdirs \subseteq Items
        BY DEF Mkdirs
      <4>. QED BY <2>6, <3>1, <3>2, <3>3, <4>1 DEF BadDir
    <3>. QED BY <1>0, <2>8, <3>4, <3>5 DEF Ends, Checked, CheckedSoFar, CheckAgrees, GetMode
  <2>9. CASE Advance # 0 /\ GoesOn /\ item' = Advance /\ report' = rep
    <3>1. \A i \in Items : i < item' <=> i <= item
      BY <1>0, <2>7, <2>9
    <3>2. CheckedSoFar'
      BY <1>a, <2>2, <2>4, <2>5, <2>6, <2>9, <3>1 DEF CheckedSoFar
    <3>. QED BY <1>0, <2>9, <3>2 DEF GoesOn, Checked, CheckAgrees, Ran, Ended
  <2>. QED BY <2>4, <2>8, <2>9
\* What was installed before is not known to be everything.
<1>3. CASE ~AfterInstall
  <2>1. CASE GoesOn
    BY <1>0, <1>3, <2>1
    DEF GoesOn, Checked, CheckedSoFar, CheckAgrees, Ran, Ended, AfterInstall, LastRun, Installed
  <2>2. CASE Halts
    <3>1. PICK exit, rep : Ends(exit, rep)
      BY <2>2 DEF Halts
    <3>2. /\ LastRun' = Record(exit, rep) /\ Len(log') = Len(log) + 1 /\ Len(log) \in Nat
          /\ log = <<>> <=> Len(log) = 0
          /\ log # <<>> => log'[Len(log') - 1] = LastRun
      BY <3>1, Logged DEF Ends
    <3>3. ~(Ran(1, "installer") /\ AllOK(log[Len(log) - 1]))'
      BY <1>3, <3>2 DEF Ran, AfterInstall, Installed, AllOK
    <3>. QED BY <3>1, <3>3 DEF Ends, Checked, CheckedSoFar, CheckAgrees
  <2>. QED BY <2>1, <2>2, ProgramStep DEF Acts
<1>. QED BY <1>1, <1>2, <1>3

LEMMA NextChecked ==
  ASSUME Checkable, IInv, OKMeansDone, Checked, [Next]_vars
  PROVE  Checked'
<1>1. CASE UNCHANGED vars
  BY <1>1 DEF vars, Checked, CheckedSoFar, CheckAgrees, AfterInstall, Installed, AllOK, LastRun,
              Done, Exists, BadDir, GetMode, Ran, Ended, Completed
<1>2. CASE install_file_check
  BY <1>2, CheckOne
<1>3. CASE Acts /\ ~install_file_check
  <2>1. prog \in Programs /\ prog # "instchk"
    BY <1>3, ProgramStep
    DEF Acts, Copying, inst_copy, OpenSource, CreateTmp, WriteTmp, SetMode, SetOwnership,
        CloseBoth, Rename, CopyFails, Making, inst_mkdir, install_rmkdir, OwnDir, Linking,
        inst_link, MakeLink, BackToStart, deinst, At
  <2>2. CASE GoesOn
    BY <2>1, <2>2 DEF GoesOn, Checked, CheckedSoFar, CheckAgrees, Ran, Ended, Programs
  <2>3. CASE Halts
    <3>1. PICK exit, rep : Ends(exit, rep)
      BY <2>3 DEF Halts
    <3>2. Record(exit, rep).prog # "instchk"
      BY <2>1 DEF Record
    <3>. QED BY <3>1, <3>2, NoCheckEnded DEF Ends, Checked, CheckedSoFar
  <2>. QED BY <1>3, <2>2, <2>3, ProgramStep
<1>4. CASE Killed
  <2>1. Ends("killed", report)
    BY <1>4 DEF Killed, Stop, Ends, Record
  <2>2. ~Completed(Record("killed", report))
    BY DEF Completed, Record
  <2>. QED BY <2>1, <2>2, NoCheckEnded DEF Ends, Checked, CheckedSoFar
<1>5. ASSUME NEW p \in Programs, NEW d \in BOOLEAN, InitFails(p, d) PROVE Checked'
  <2>. DEFINE run == [prog |-> p, dry |-> d, exit |-> "exit 112", faults |-> 0,
                      report |-> [i \in Items |-> "none"]]
  <2>1. prog' = "none" /\ log' = Append(log, run) /\ ~Completed(run)
    BY <1>5 DEF InitFails, Starts, here, Completed
  <2>. HIDE DEF run
  <2>. QED BY <2>1, NoCheckEnded DEF Checked, CheckedSoFar
<1>6. ASSUME NEW p \in Programs, NEW d \in BOOLEAN, Main(p, d) PROVE Checked'
  <2>1. /\ prog = "none" /\ prog' = p /\ item' = First(p) /\ failed' = 0 /\ UNCHANGED <<fs, log>>
    BY <1>6 DEF Main, Starts
  <2>2. ASSUME p = "instchk", AfterInstall PROVE \A i \in Items : Done(i)' /\ ~(i < item')
    <3>1. item' = 1
      BY <2>1, <2>2 DEF First, Backwards
    <3>. QED BY <2>1, <2>2, <3>1, InstalledIsDone DEF Done, Exists, Items
  <2>3. AfterInstall' = AfterInstall
    BY <2>1 DEF AfterInstall, LastRun, Installed, AllOK
  <2>4. CheckedSoFar'
    BY <2>1, <2>2, <2>3 DEF CheckedSoFar
  <2>. QED BY <2>1, <2>4 DEF Checked, CheckAgrees, Ran, Ended, Programs
<1>. QED BY <1>1, <1>2, <1>3, <1>4, <1>5, <1>6 DEF Next, Acts

\* For any items whose modes the check can see: after an installation without
\* error a check in which nothing fails finds fault with no file and no link, and
\* ends with 1 exactly when the mode of a directory is not its item's.
THEOREM CheckAgreesAlways ==
  ASSUME Checkable
  PROVE  Spec => []CheckAgrees
<1>1. Init => Checked
  BY DEF Init, Checked, CheckedSoFar, CheckAgrees, Ran, Ended
<1>2. IInv /\ OKMeansDone /\ Checked /\ [Next]_vars => Checked'
  BY NextChecked
<1>3. Checked => CheckAgrees
  BY DEF Checked
<1>. QED BY <1>1, <1>2, <1>3, Invariance, OKIsDone, PTL DEF Spec

----------------------------------------------------------------------------
(* What can be where *)

LinkNames == {insthier[i].dst : i \in Links}
DirPaths  == {p \in Paths : \E i \in Mkdirs : \E k \in 1..Len(Prefixes[insthier[i].dir]) :
                p = Prefixes[insthier[i].dir][k]}

LEMMA DirsOfMkdir ==
  ASSUME NEW i \in Mkdirs
  PROVE  /\ Len(Prefixes[insthier[i].dir]) \in Nat \ {0}
         /\ \A k \in 1..Len(Prefixes[insthier[i].dir]) : Prefixes[insthier[i].dir][k] \in DirPaths
         /\ insthier[i].dir = Prefixes[insthier[i].dir][Len(Prefixes[insthier[i].dir])]
<1>. DEFINE ps == Prefixes[insthier[i].dir]
<1>1. ps \in Seq(Paths \ (Dsts \cup Tmps)) /\ ps # <<>> /\ ps[Len(ps)] = insthier[i].dir
  BY ItemsOK DEF ItemsOK
<1>2. Len(ps) \in Nat \ {0} /\ \A k \in 1..Len(ps) : ps[k] \in Paths
  <2>. HIDE DEF ps
  <2>. QED BY <1>1
<1>. QED BY <1>1, <1>2 DEF DirPaths

LEMMA Apart ==
  /\ LinkNames \subseteq Paths /\ DirPaths \subseteq Paths
  /\ Dsts \subseteq Paths /\ Tmps \subseteq Paths
  /\ Dsts \cap Tmps = {} /\ LinkNames \cap (Dsts \cup Tmps) = {}
  /\ DirPaths \cap (Dsts \cup Tmps \cup LinkNames) = {}
<1>1. LinkNames \subseteq Paths \ (Dsts \cup Tmps)
  BY ItemsOK DEF ItemsOK, LinkNames
<1>2. Dsts \subseteq Paths /\ Tmps \subseteq Paths /\ Dsts \cap Tmps = {}
  BY ItemsOK DEF ItemsOK, Tmps
<1>3. ASSUME NEW p \in DirPaths PROVE p \in Paths \ (Dsts \cup Tmps \cup LinkNames)
  <2>1. PICK i \in Mkdirs : \E k \in 1..Len(Prefixes[insthier[i].dir]) :
                              p = Prefixes[insthier[i].dir][k]
    BY DEF DirPaths
  <2>. DEFINE ps == Prefixes[insthier[i].dir]
  <2>2. PICK k \in 1..Len(ps) : p = ps[k]
    BY <2>1
  <2>3. ps \in Seq(Paths \ (Dsts \cup Tmps))
    BY ItemsOK DEF ItemsOK
  <2>4. p \in Paths \ (Dsts \cup Tmps)
    <3>. HIDE DEF ps
    <3>. QED BY <2>2, <2>3
  <2>5. \A j \in Links : p # insthier[j].dst
    BY <2>2, LayoutOK DEF LayoutOK
  <2>. QED BY <2>4, <2>5 DEF LinkNames
<1>. QED BY <1>1, <1>2, <1>3

\* The nodes that can be at a path: files at the temporary names, which the
\* installer can open again if the items are such that it can, files at the
\* destinations and links at their names.
Fits(p, n) ==
  /\ p \in Tmps => /\ n.kind \in {"absent", "file"}
                   /\ Recoverable /\ n.kind = "file" => Privileged \/ Writable \in n.mode
  /\ p \in Dsts => n.kind \in {"absent", "file"}
  /\ p \in LinkNames => n.kind \in {"absent", "link"}
  /\ p \in DirPaths => n.kind # "link"
Kinds ==
  /\ \A p \in Paths : Fits(p, fs[p])
  /\ It.op = "copy" /\ step = "write" => fs[TmpOf(It)].kind = "file"

\* The installer puts nothing where something is, but for the files it copies.
Stays == \A p \in Paths \ (Dsts \cup Tmps) : Exists(p) => fs'[p] = fs[p]

LEMMA PathOfCopy ==
  ASSUME IInv, It.op = "copy"
  PROVE  /\ It.dst \in Dsts /\ TmpOf(It) \in Tmps /\ Parent[TmpOf(It)] = Parent[It.dst]
         /\ It.mode \in SUBSET Bits /\ item \in Copies /\ item \in Items
<1>1. item \in Items
  BY DEF IInv, TypeOK, MainOK
<1>2. It \in ItemType
  BY <1>1, ItemTyped
<1>3. It.dst \in Dsts /\ TmpOf(It) \in Tmps /\ item \in Copies
  BY <1>1, CopyPaths
<1>4. Parent[TmpOf(It)] = Parent[It.dst]
  BY <1>3, LayoutOK DEF LayoutOK, TmpOf
<1>. QED BY <1>1, <1>2, <1>3, <1>4 DEF ItemType

LEMMA PathOfMkdir ==
  ASSUME IInv, It.op = "mkdir"
  PROVE  /\ item \in Mkdirs /\ It.dir \in DirPaths
         /\ Len(Prefixes[It.dir]) \in Nat \ {0}
         /\ It.dir = Prefixes[It.dir][Len(Prefixes[It.dir])]
         /\ \A k \in 1..Len(Prefixes[It.dir]) : Prefixes[It.dir][k] \in DirPaths
<1>1. item \in Mkdirs
  BY DEF IInv, TypeOK, MainOK, Mkdirs, It
<1>2. Len(Prefixes[It.dir]) \in 1..Len(Prefixes[It.dir])
  BY <1>1, DirsOfMkdir DEF It
<1>. QED BY <1>1, <1>2, DirsOfMkdir DEF It

LEMMA PathOfLink ==
  ASSUME IInv, It.op = "link"
  PROVE  item \in Links /\ It.dst \in LinkNames
<1>1. item \in Links
  BY DEF IInv, TypeOK, MainOK, Links, It
<1>. QED BY <1>1 DEF LinkNames, It

\* What a step of the installer does to the files.
LEMMA InstallerWrites ==
  ASSUME IInv, Copying \/ Making \/ Linking
  PROVE  \/ UNCHANGED fs
         \/ It.op = "copy" /\ (CreateTmp \/ WriteTmp \/ SetMode \/ Rename)
         \/ /\ It.op = "copy" /\ Put(TmpOf(It), Absent)
         \/ /\ It.op = "mkdir" /\ prefix \in 1..Len(Prefixes[It.dir])
            /\ ~Exists(Prefixes[It.dir][prefix]) /\ IsDir(Parent[Prefixes[It.dir][prefix]])
            /\ Put(Prefixes[It.dir][prefix], Dir(It.mode \ Umask))
         \/ /\ It.op = "link" /\ step = "symlink" /\ ~Exists(It.dst) /\ Put(It.dst, Link)
<1>1. CASE Copying
  BY <1>1 DEF Copying, inst_copy, OpenSource, CreateTmp, WriteTmp, SetMode, SetOwnership,
              CloseBoth, Rename, CopyFails, At
<1>2. CASE Making
  <2>1. CASE install_rmkdir
    <3>1. It.op = "mkdir" /\ prefix \in 1..Len(Prefixes[It.dir])
      BY <2>1 DEF install_rmkdir, At, IInv, PrefixInRange
    <3>. QED BY <2>1, <3>1 DEF install_rmkdir
  <2>. QED BY <1>2, <2>1 DEF Making, inst_mkdir, OwnDir
<1>3. CASE Linking
  BY <1>3 DEF Linking, inst_link, MakeLink, BackToStart, At
<1>. QED BY <1>1, <1>2, <1>3

LEMMA InstallerStays ==
  ASSUME IInv, Copying \/ Making \/ Linking
  PROVE  Stays
<1>0. fs \in [Paths -> Nodes]
  BY DEF IInv, TypeOK
<1>1. CASE UNCHANGED fs
  BY <1>1 DEF Stays
<1>2. CASE It.op = "copy" /\ (CreateTmp \/ WriteTmp \/ SetMode \/ Rename \/ Put(TmpOf(It), Absent))
  <2>1. TmpOf(It) \in Tmps /\ It.dst \in Dsts
    BY <1>2, PathOfCopy
  <2>2. (\E n : Put(TmpOf(It), n)) \/ \E n : fs' = [fs EXCEPT ![It.dst] = n, ![TmpOf(It)] = Absent]
    BY <1>2 DEF CreateTmp, WriteTmp, SetMode, Rename
  <2>. QED BY <1>0, <2>1, <2>2 DEF Stays, Put
<1>3. ASSUME NEW p \in Paths, ~Exists(p), NEW n, Put(p, n) PROVE Stays
  BY <1>0, <1>3 DEF Stays, Put
<1>4. It.op = "mkdir" => \A k \in 1..Len(Prefixes[It.dir]) : Prefixes[It.dir][k] \in Paths
  BY PathOfMkdir, Apart
<1>5. It.op = "link" => It.dst \in Paths
  BY PathOfLink, Apart
<1>6. CASE \/ It.op = "link" /\ ~Exists(It.dst) /\ Put(It.dst, Link)
           \/ /\ It.op = "mkdir" /\ prefix \in 1..Len(Prefixes[It.dir])
              /\ ~Exists(Prefixes[It.dir][prefix])
              /\ Put(Prefixes[It.dir][prefix], Dir(It.mode \ Umask))
  <2>1. CASE It.op = "link" /\ ~Exists(It.dst) /\ Put(It.dst, Link)
    BY <1>3, <1>5, <2>1
  <2>2. CASE /\ It.op = "mkdir" /\ prefix \in 1..Len(Prefixes[It.dir])
             /\ ~Exists(Prefixes[It.dir][prefix])
             /\ Put(Prefixes[It.dir][prefix], Dir(It.mode \ Umask))
    <3>1. Prefixes[It.dir][prefix] \in Paths
      BY <1>4, <2>2
    <3>. QED BY <1>3, <2>2, <3>1
  <2>. QED BY <1>6, <2>1, <2>2
<1>. QED BY <1>1, <1>2, <1>6, InstallerWrites

LEMMA CheckedIsPath ==
  ASSUME IInv
  PROVE  /\ item \in Items /\ CheckedPath \in Paths
         /\ CheckedPath = Place(item)
         /\ It.op = "copy" => CheckedPath \in Dsts
         /\ It.op = "link" => CheckedPath \in LinkNames
         /\ It.op = "mkdir" => CheckedPath \in DirPaths
<1>1. item \in Items /\ It.op \in {"copy", "mkdir", "link"}
  BY ItemTyped DEF IInv, TypeOK, MainOK, ItemType
<1>2. CheckedPath = Place(item)
  BY <1>1 DEF CheckedPath, Place, Mkdirs, It
<1>. QED BY <1>1, <1>2, PathOfCopy, PathOfMkdir, PathOfLink, Apart DEF CheckedPath

\* A node that fits is put at one path.
LEMMA PutFits ==
  ASSUME IInv, \A p \in Paths : Fits(p, fs[p]), NEW q \in Paths, NEW n, Put(q, n), Fits(q, n)
  PROVE  \A p \in Paths : Fits(p, fs'[p])
<1>1. fs \in [Paths -> Nodes]
  BY DEF IInv, TypeOK
<1>2. \A p \in Paths : fs'[p] = IF p = q THEN n ELSE fs[p]
  BY <1>1 DEF Put
<1>3. ASSUME NEW p \in Paths PROVE Fits(p, fs'[p])
  <2>1. CASE p = q
    BY <1>2, <2>1
  <2>2. CASE p # q
    BY <1>2, <2>2
  <2>. QED BY <2>1, <2>2
<1>. QED BY <1>3

LEMMA TmpFits ==
  ASSUME NEW p \in Tmps, NEW n, n.kind = "absent" \/ n.kind = "file",
         Recoverable /\ n.kind = "file" => Privileged \/ Writable \in n.mode
  PROVE  p \in Paths /\ Fits(p, n)
BY Apart DEF Fits

LEMMA CopyingFits ==
  ASSUME IInv, Kinds, Copying
  PROVE  \A p \in Paths : Fits(p, fs'[p])
<1>0. It.op = "copy" /\ fs \in [Paths -> Nodes]
  BY DEF Copying, inst_copy, OpenSource, CreateTmp, WriteTmp, SetMode, SetOwnership,
         CloseBoth, Rename, CopyFails, At, IInv, TypeOK
<1>1. /\ TmpOf(It) \in Tmps /\ TmpOf(It) \in Paths /\ It.dst \in Dsts /\ It.dst \in Paths
      /\ item \in Copies /\ Fits(TmpOf(It), fs[TmpOf(It)])
  BY <1>0, PathOfCopy, Apart DEF Kinds
<1>2. Recoverable => Privileged \/ (Writable \in Created \ Umask /\ Writable \in It.mode)
  BY <1>1 DEF Recoverable, It
<1>a. ASSUME NEW d, NEW m, Put(TmpOf(It), File(d, m)),
             Recoverable => Privileged \/ Writable \in m
      PROVE  \A p \in Paths : Fits(p, fs'[p])
  <2>1. Fits(TmpOf(It), File(d, m))
    BY <1>1, <1>a, TmpFits DEF File
  <2>. QED BY <1>1, <1>a, <2>1, PutFits DEF Kinds
<1>3. CASE UNCHANGED fs
  BY <1>3 DEF Kinds
<1>4. CASE CreateTmp
  <2>. DEFINE m == IF Exists(TmpOf(It)) THEN fs[TmpOf(It)].mode ELSE Created \ Umask
  <2>1. Put(TmpOf(It), File("part", m)) /\ CanCreate
    BY <1>4 DEF CreateTmp
  <2>2. Recoverable => Privileged \/ Writable \in m
    BY <1>1, <1>2, <2>1 DEF CanCreate, Exists
  <2>. HIDE DEF m
  <2>. QED BY <1>a, <2>1, <2>2
<1>5. CASE WriteTmp
  <2>1. fs[TmpOf(It)].kind = "file"
    BY <1>0, <1>5 DEF Kinds, WriteTmp, At
  <2>2. Recoverable => Privileged \/ Writable \in fs[TmpOf(It)].mode
    BY <1>1, <2>1 DEF Fits
  <2>. QED BY <1>5, <1>a, <2>2 DEF WriteTmp
<1>6. CASE SetMode
  BY <1>2, <1>6, <1>a DEF SetMode
<1>7. CASE Rename
  <2>1. fs[TmpOf(It)] = New(It) /\ New(It).kind = "file"
    BY <1>0, <1>7 DEF Rename, At, IInv, TmpReady, New, File
  <2>2. Fits(It.dst, New(It))
    BY <1>1, <2>1, Apart DEF Fits
  <2>3. Fits(TmpOf(It), Absent)
    BY <1>1, TmpFits DEF Absent
  <2>4. fs' = [fs EXCEPT ![It.dst] = New(It), ![TmpOf(It)] = Absent]
    BY <1>7, <2>1 DEF Rename
  <2>5. \A p \in Paths : fs'[p] = IF p = TmpOf(It) THEN Absent
                                  ELSE IF p = It.dst THEN New(It) ELSE fs[p]
    BY <1>0, <2>4
  <2>6. ASSUME NEW p \in Paths PROVE Fits(p, fs'[p])
    <3>1. CASE p = TmpOf(It)
      BY <2>3, <2>5, <3>1
    <3>2. CASE p = It.dst /\ p # TmpOf(It)
      BY <2>2, <2>5, <3>2
    <3>3. CASE p # It.dst /\ p # TmpOf(It)
      BY <2>5, <3>3 DEF Kinds
    <3>. QED BY <3>1, <3>2, <3>3
  <2>. QED BY <2>6
<1>8. CASE Put(TmpOf(It), Absent)
  <2>1. Fits(TmpOf(It), Absent)
    BY <1>1, TmpFits DEF Absent
  <2>. QED BY <1>1, <1>8, <2>1, PutFits DEF Kinds
<1>. QED BY <1>3, <1>4, <1>5, <1>6, <1>7, <1>8
         DEF Copying, inst_copy, OpenSource, SetOwnership, CloseBoth, CopyFails

LEMMA NextKinds ==
  ASSUME IInv, Kinds, [Next]_vars
  PROVE  Kinds'
<1>1. \A p \in Paths : Fits(p, fs'[p])
  <2>1. CASE UNCHANGED fs
    BY <2>1 DEF Kinds
  <2>2. CASE Copying
    BY <2>2, CopyingFits
  <2>3. CASE Making /\ fs' # fs
    <3>1. It.op = "mkdir" /\ install_rmkdir /\ prefix \in 1..Len(Prefixes[It.dir])
      BY <2>3 DEF Making, inst_mkdir, install_rmkdir, OwnDir, At, IInv, PrefixInRange
    <3>2. Prefixes[It.dir][prefix] \in DirPaths
      BY <3>1, PathOfMkdir
    <3>3. Put(Prefixes[It.dir][prefix], Dir(It.mode \ Umask))
      BY <2>3, <3>1 DEF install_rmkdir
    <3>4. Fits(Prefixes[It.dir][prefix], Dir(It.mode \ Umask))
      BY <3>2, Apart DEF Fits, Dir
    <3>. QED BY <3>2, <3>3, <3>4, Apart, PutFits DEF Kinds
  <2>4. CASE Linking /\ fs' # fs
    <3>1. It.op = "link" /\ Put(It.dst, Link)
      BY <2>4 DEF Linking, inst_link, MakeLink, BackToStart, At
    <3>2. It.dst \in LinkNames
      BY <3>1, PathOfLink
    <3>3. Fits(It.dst, Link)
      BY <3>2, Apart DEF Fits, Link
    <3>. QED BY <3>1, <3>2, <3>3, Apart, PutFits DEF Kinds
  <2>5. CASE deinst /\ fs' # fs
    <3>1. Put(CheckedPath, Absent)
      BY <2>5 DEF deinst
    <3>2. Fits(CheckedPath, Absent)
      BY DEF Fits, Absent
    <3>. QED BY <3>1, <3>2, CheckedIsPath, PutFits DEF Kinds
  <2>. QED BY <2>1, <2>2, <2>3, <2>4, <2>5
           DEF Next, vars, install_file_check, Killed, InitFails, Main
<1>2. It'.op = "copy" /\ step' = "write" => fs'[TmpOf(It)'].kind = "file"
  <2>1. CASE step' # "write"
    BY <2>1
  <2>2. CASE step' = "write" /\ UNCHANGED <<fs, item, step>>
    BY <2>2 DEF Kinds, It, TmpOf
  <2>3. CASE step' = "write" /\ CreateTmp
    <3>1. It' = It /\ TmpOf(It)' = TmpOf(It)
      BY <2>3 DEF CreateTmp, Goto, It, TmpOf
    <3>2. It.op = "copy" /\ fs \in [Paths -> Nodes] /\ TmpOf(It) \in Paths
      BY <2>3, PathOfCopy, Apart DEF CreateTmp, At, IInv, TypeOK
    <3>. QED BY <2>3, <3>1, <3>2 DEF CreateTmp, Put, File
  <2>. QED BY <2>1, <2>2, <2>3
           DEF Next, vars, Copying, inst_copy, OpenSource, WriteTmp, SetMode, SetOwnership,
               CloseBoth, Rename, CopyFails, Making, inst_mkdir, install_rmkdir, OwnDir,
               Linking, inst_link, MakeLink, Unmade, BackToStart, install_file_check, deinst,
               Killed, InitFails, Main, NoSuchOwner, Goto, Returns, ReturnsWith, Stop, here
<1>. QED BY <1>1, <1>2 DEF Kinds

LEMMA InitKinds ==
  ASSUME Init
  PROVE  Kinds
<1>1. ASSUME NEW p \in Paths PROVE Fits(p, fs[p])
  <2>1. fs[p] \in InitialNodes(p)
    BY DEF Init
  <2>. QED BY <2>1, Apart DEF InitialNodes, Fits, Absent, File, Dir, LinkNames
<1>. QED BY <1>1 DEF Init, Kinds

----------------------------------------------------------------------------
(* Recovery *)

\* A link that could not be made because its name is taken is reported as an
\* error, and is there.
InPlace(i) == report[i] = "OK" \/ (i \in Links /\ Exists(insthier[i].dst))

Recovering == prog = "installer" /\ ~dry /\ faults = 0 /\ Clear

\* While nothing fails and no file is where a directory has to be, the installer
\* has every item before the one in hand in its place, and has made or found the
\* prefixes of the directory in hand up to this one.
Underway ==
  /\ \A i \in Items : i < item => InPlace(i)
  /\ It.op = "mkdir" => \A k \in 1..Len(Prefixes[It.dir]) :
       (step = "mkdir" /\ k < prefix) \/ step = "own" => fs[Prefixes[It.dir][k]].kind = "dir"
  /\ step = "back after error" => Exists(It.dst)

Recovered ==
  /\ prog = "installer" => failed = 0
  /\ Recovering => Underway
  /\ Recovers

\* The directories are clear after a step of the installer only if they were
\* before: it removes nothing that is in the way.
LEMMA ClearBefore ==
  ASSUME IInv, Stays, Clear'
  PROVE  Clear
<1>. SUFFICES ASSUME NEW i \in Mkdirs, NEW k \in 1..Len(Prefixes[insthier[i].dir])
              PROVE  fs[Prefixes[insthier[i].dir][k]].kind # "file"
  BY DEF Clear
<1>. DEFINE p == Prefixes[insthier[i].dir][k]
<1>1. p \in Paths \ (Dsts \cup Tmps)
  BY DirsOfMkdir, Apart
<1>2. fs'[p].kind # "file"
  BY DEF Clear
<1>. HIDE DEF p
<1>3. fs[p].kind # "file"
  BY <1>1, <1>2 DEF Stays, Exists
<1>. QED BY <1>3 DEF p

\* A record of a run that Recovers does not speak of.
LEMMA NothingToRecover ==
  ASSUME IInv, NEW run, log' = Append(log, run), prog' = "none",
         run.prog # "installer" \/ run.dry \/ ~Completed(run) \/ ~Clear'
  PROVE  Recovered'
<1>1. LastRun' = run /\ log'[Len(log') - 0] = run
  BY Logged DEF LastRun, IInv, TypeOK, MainOK
<1>. QED BY <1>1 DEF Recovered, Recovering, Recovers, Ran

\* The installer is done with an item, which is in its place.
LEMMA ItemRecovered ==
  ASSUME IInv, Recovered, OKMeansDone', Recovering, Recovering' \/ prog' = "none", faults' = 0,
         Copying \/ Making \/ Linking,
         NEW s \in {"OK", "ERROR"}, Returns(s),
         s = "OK" \/ (item \in Links /\ fs'[It.dst].kind # "absent")
  PROVE  Recovered'
<1>0. /\ prog \in Programs /\ prog = "installer" /\ ~dry /\ failed = 0 /\ Underway
      /\ report \in [Items -> Statuses] /\ item \in Items
      /\ Len(insthier) \in Nat /\ Items = 1..Len(insthier)
  BY ItemsOK DEF Recovered, Recovering, Programs, IInv, TypeOK, MainOK, ItemsOK, Items
<1>. DEFINE rep == [report EXCEPT ![item] = s]
<1>1. \A i \in Items : i <= item => rep[i] = "OK" \/ (i \in Links /\ Exists(insthier[i].dst)')
  <2>1. rep[item] = s
    BY <1>0
  <2>2. \A i \in Items : i # item => rep[i] = report[i]
    BY <1>0
  <2>3. \A i \in Items : i <= item => i < item \/ i = item
    BY <1>0
  <2>4. ASSUME NEW i \in Links, Exists(insthier[i].dst) PROVE Exists(insthier[i].dst)'
    <3>1. insthier[i].dst \in Paths \ (Dsts \cup Tmps)
      BY Apart DEF LinkNames
    <3>. QED BY <2>4, <3>1, InstallerStays DEF Stays, Exists
  <2>5. \A i \in Items : i < item =>
          report[i] = "OK" \/ (i \in Links /\ Exists(insthier[i].dst)')
    BY <1>0, <2>4 DEF Underway, InPlace
  <2>. HIDE DEF rep
  <2>6. ASSUME NEW i \in Items, i <= item
        PROVE  rep[i] = "OK" \/ (i \in Links /\ Exists(insthier[i].dst)')
    <3>1. CASE i = item
      BY <2>1, <3>1 DEF Exists, It
    <3>2. CASE i < item
      <4>1. i # item
        BY <1>0, <3>2
      <4>. QED BY <2>2, <2>5, <3>2, <4>1
    <3>. QED BY <2>3, <2>6, <3>1, <3>2
  <2>. QED BY <2>6
<1>2. Advance = IF item = Len(insthier) THEN 0 ELSE item + 1
  BY <1>0 DEF Advance, Backwards
<1>3. /\ failed' = 0
      /\ \/ Advance = 0 /\ Ends("exit 0", rep)
         \/ Advance # 0 /\ GoesOn /\ item' = Advance /\ step' = "start" /\ report' = rep
  <2>1. rep = [report EXCEPT ![item] = s] /\ s # "FATAL" /\ ~(0 > 0)
    OBVIOUS
  <2>. HIDE DEF rep
  <2>. QED BY <1>0, <2>1, MainLoop DEF Returns
<1>. HIDE DEF rep
<1>4. CASE Advance = 0 /\ Ends("exit 0", rep)
  <2>1. \A i \in Items : i <= item
    <3>1. Advance = 0
      BY <1>4
    <3>2. item \in 1..Len(insthier)
      BY <1>0
    <3>3. item = Len(insthier)
      BY <1>2, <3>1, <3>2
    <3>. QED BY <1>0, <3>3
  <2>. DEFINE run == Record("exit 0", rep)
  <2>2. run.report = rep /\ run.exit = "exit 0" /\ run.prog = "installer" /\ ~run.dry
    BY <1>0 DEF Record
  <2>3. prog' = "none" /\ log' = Append(log, run)
    BY <1>4 DEF Ends
  <2>. HIDE DEF run
  <2>4. LastRun' = run /\ log' # <<>> /\ Len(log') = Len(log) + 1 /\ Len(log) \in Nat
    BY <2>3, Logged
  <2>5. Ran(0, "installer")'
    <3>1. log'[Len(log') - 0] = run /\ Len(log') > 0
      BY <2>4 DEF LastRun
    <3>. QED BY <2>2, <2>3, <2>4, <3>1 DEF Ran, Ended
  <2>6. \A i \in Items : rep[i] = "OK" => Done(i)'
    BY <2>2, <2>4, <2>5 DEF OKMeansDone
  <2>7. \A i \in Links : i \notin Copies /\ i \notin Mkdirs
    BY DEF Links, Copies, Mkdirs
  <2>8. \A i \in Items : Done(i)'
    BY <1>1, <2>1, <2>6, <2>7 DEF Done
  <2>. QED BY <1>3, <2>2, <2>3, <2>4, <2>8 DEF Recovered, Recovering, Recovers
<1>5. CASE Advance # 0 /\ GoesOn /\ item' = Advance /\ step' = "start" /\ report' = rep
  <2>1. \A i \in Items : i < item' => i <= item
    BY <1>0, <1>2, <1>5
  <2>2. Underway'
    BY <1>1, <1>5, <2>1 DEF Underway, InPlace
  <2>. QED BY <1>0, <1>3, <1>5, <2>2 DEF GoesOn, Recovered, Recovers, Ran, Ended
<1>. QED BY <1>3, <1>4, <1>5

\* The installer goes on with the item.
LEMMA StillUnderway ==
  ASSUME IInv, Recovered, Recovering, Recovering', Copying \/ Making \/ Linking,
         NEW s, Goto(s), UNCHANGED <<prog, dry>>,
         It.op = "mkdir" => \A k \in 1..Len(Prefixes[It.dir]) :
           (s = "mkdir" /\ k < prefix') \/ s = "own" => fs'[Prefixes[It.dir][k]].kind = "dir",
         s = "back after error" => fs'[It.dst].kind # "absent"
  PROVE  Recovered'
<1>1. /\ prog = "installer" /\ failed = 0 /\ Underway
      /\ step' = s /\ It' = It /\ UNCHANGED <<item, report, failed, log, prog>>
  BY DEF Recovered, Recovering, Goto, It
<1>2. ASSUME NEW i \in Links, Exists(insthier[i].dst) PROVE Exists(insthier[i].dst)'
  <2>1. insthier[i].dst \in Paths \ (Dsts \cup Tmps)
    BY Apart DEF LinkNames
  <2>. QED BY <1>2, <2>1, InstallerStays DEF Stays, Exists
<1>3. \A i \in Items : i < item' => InPlace(i)'
  BY <1>1, <1>2 DEF Underway, InPlace
<1>4. Underway'
  BY <1>1, <1>3 DEF Underway, Exists
<1>5. Recovers'
  BY <1>1 DEF Recovers, Ran, Ended
<1>. QED BY <1>1, <1>4, <1>5 DEF Recovered

\* Every item in place is done.
LEMMA InPlaceIsDone ==
  ASSUME Honest, Recovering, NEW i \in Items, InPlace(i)
  PROVE  Done(i)
<1>1. i \in Links => i \notin Copies /\ i \notin Mkdirs
  BY DEF Links, Copies, Mkdirs
<1>. QED BY <1>1 DEF Honest, SoFar, InPlace, Recovering, Done

\* What a directory goes into, and what copies and links go into, is a directory
\* while the installer recovers.
LEMMA DirMade ==
  ASSUME Recoverable, IInv, Kinds, Honest, Recovered, Recovering,
         NEW d, MadeBefore(d, item)
  PROVE  IsDir(d)
<1>1. CASE d = Top
  BY <1>1 DEF IsDir
<1>2. CASE d # Top
  <2>1. PICK j \in Mkdirs : j < item /\ insthier[j].dir = d
    BY <1>2 DEF MadeBefore
  <2>2. j \in Items /\ j \notin Copies
    BY DEF Mkdirs, Copies
  <2>3. Exists(d)
    BY <2>1, <2>2, InPlaceIsDone DEF Done, Recovered, Underway
  <2>. DEFINE len == Len(Prefixes[insthier[j].dir])
  <2>4. len \in 1..len /\ d = Prefixes[insthier[j].dir][len]
    BY <2>1, DirsOfMkdir
  <2>5. d \in DirPaths /\ fs[d].kind # "file"
    BY <2>4, DirsOfMkdir DEF Recovering, Clear
  <2>6. fs[d] \in Nodes /\ fs[d].kind # "link"
    <3>1. d \in Paths
      BY <2>5, Apart
    <3>. QED BY <2>5, <3>1 DEF Kinds, Fits, IInv, TypeOK
  <2>. QED BY <2>3, <2>5, <2>6 DEF Nodes, Exists, IsDir
<1>. QED BY <1>1, <1>2

LEMMA CopyingRecovers ==
  ASSUME Recoverable, IInv, AtTop, Kinds, Honest, Recovered, OKMeansDone', Recovering,
         Recovering' \/ prog' = "none", faults' = 0, Copying
  PROVE  Recovered'
<1>0. /\ prog = "installer" /\ ~dry /\ faults = 0 /\ It.op = "copy" /\ item \in Copies
      /\ It.dst \in Dsts /\ TmpOf(It) \in Tmps /\ Parent[TmpOf(It)] = Parent[It.dst]
  <2>1. It.op = "copy"
    BY DEF Copying, inst_copy, OpenSource, CreateTmp, WriteTmp, SetMode, SetOwnership,
           CloseBoth, Rename, CopyFails, At
  <2>. QED BY <2>1, PathOfCopy DEF Recovering
<1>1. ~Faults
  BY <1>0 DEF Faults
<1>a. ASSUME Returns("OK") PROVE Recovered'
  BY <1>a, ItemRecovered
<1>b. ASSUME NEW s, s \notin {"mkdir", "own", "back after error"}, Goto(s), UNCHANGED <<prog, dry>>
      PROVE  Recovered'
  <2>1. Recovering'
    BY <1>0, <1>b
  <2>. QED BY <1>0, <1>b, <2>1, StillUnderway
<1>2. CASE inst_copy
  BY <1>0, <1>1, <1>2, <1>b DEF inst_copy, NoSuchOwner, here
<1>3. CASE OpenSource
  <2>1. cwd = Top
    BY <1>3 DEF OpenSource, At, AtTop, Away
  <2>. QED BY <1>1, <1>3, <1>b, <2>1 DEF OpenSource, Fails, here
<1>4. CASE CreateTmp \/ WriteTmp \/ SetMode \/ SetOwnership \/ CloseBoth
  BY <1>4, <1>b DEF CreateTmp, WriteTmp, SetMode, SetOwnership, CloseBoth, here
<1>5. CASE Rename
  BY <1>5, <1>a DEF Rename
<1>6. CASE CopyFails
  <2>1. \/ step = "create" /\ ~CanCreate
        \/ step = "rename" /\ fs[It.dst].kind = "dir"
    BY <1>1, <1>6 DEF CopyFails, Fails
  <2>2. Fits(It.dst, fs[It.dst]) /\ Fits(TmpOf(It), fs[TmpOf(It)])
    BY <1>0, Apart DEF Kinds
  <2>3. fs[It.dst].kind # "dir"
    BY <1>0, <2>2 DEF Fits
  <2>4. IsDir(Parent[TmpOf(It)])
    <3>1. MadeBefore(Parent[It.dst], item)
      BY <1>0 DEF Recoverable, It
    <3>. QED BY <1>0, <3>1, DirMade
  <2>5. CanCreate
    BY <1>0, <2>2, <2>4 DEF CanCreate, Fits
  <2>. QED BY <2>1, <2>3, <2>5
<1>. QED BY <1>2, <1>3, <1>4, <1>5, <1>6 DEF Copying

LEMMA MakingRecovers ==
  ASSUME IInv, Kinds, Recovered, OKMeansDone', Recovering,
         Recovering' \/ prog' = "none", faults' = 0, Making
  PROVE  Recovered'
<1>0. /\ prog = "installer" /\ ~dry /\ faults = 0 /\ Underway /\ prefix \in Nat
      /\ It.op = "mkdir" /\ item \in Mkdirs /\ It.dir \in DirPaths
      /\ Len(Prefixes[It.dir]) \in Nat \ {0} /\ fs \in [Paths -> Nodes]
      /\ It.dir = Prefixes[It.dir][Len(Prefixes[It.dir])]
      /\ \A k \in 1..Len(Prefixes[It.dir]) : Prefixes[It.dir][k] \in DirPaths
  <2>1. It.op = "mkdir"
    BY DEF Making, inst_mkdir, install_rmkdir, OwnDir, At
  <2>. QED BY <2>1, PathOfMkdir DEF Recovered, Recovering, IInv, TypeOK, MainOK
<1>. DEFINE ps == Prefixes[It.dir]
<1>1. ~Faults
  BY <1>0 DEF Faults
<1>2. CASE inst_mkdir
  <2>1. Goto("mkdir") /\ prefix' = 1 /\ UNCHANGED <<prog, dry>>
    BY <1>0, <1>1, <1>2 DEF inst_mkdir, NoSuchOwner
  <2>2. Recovering'
    BY <1>0, <2>1
  <2>3. \A k \in 1..Len(ps) : ~(k < prefix')
    BY <2>1
  <2>. QED BY <1>0, <2>1, <2>2, <2>3, StillUnderway
<1>3. CASE install_rmkdir
  <2>. DEFINE s == IF prefix = Len(ps) THEN "own" ELSE "mkdir"
  <2>1. /\ step = "mkdir" /\ prefix \in 1..Len(ps) /\ prefix' = prefix + 1
        /\ Goto(s) /\ UNCHANGED <<prog, dry>>
    BY <1>0, <1>3 DEF install_rmkdir, At, IInv, PrefixInRange
  <2>2. Recovering'
    BY <1>0, <2>1
  \* The prefix in hand is there already, or its directory is and it is made.
  <2>3. fs'[ps[prefix]].kind = "dir"
    <3>. DEFINE p == ps[prefix]
    <3>1. p \in Paths /\ fs[p] \in Nodes /\ fs[p].kind \notin {"link", "file"}
      <4>1. p \in DirPaths
        BY <1>0, <2>1
      <4>2. fs[p].kind # "file"
        BY <1>0, <2>1 DEF Recovering, Clear, It
      <4>. HIDE DEF p
      <4>. QED BY <1>0, <4>1, <4>2, Apart DEF Kinds, Fits
    <3>2. IsDir(Parent[p])
      <4>1. Parent[p] = IF prefix = 1 THEN Top ELSE ps[prefix - 1]
        BY <1>0, <2>1, LayoutOK DEF LayoutOK, It
      <4>2. CASE prefix = 1
        BY <4>1, <4>2 DEF IsDir
      <4>3. CASE prefix # 1
        <5>1. prefix - 1 \in 1..Len(ps) /\ prefix - 1 < prefix
          BY <1>0, <2>1, <4>3
        <5>2. fs[ps[prefix - 1]].kind = "dir"
          BY <1>0, <2>1, <5>1 DEF Underway
        <5>. QED BY <4>1, <4>3, <5>2 DEF IsDir
      <4>. QED BY <4>2, <4>3
    <3>3. \/ Put(p, Dir(It.mode \ Umask))
          \/ Exists(p) /\ UNCHANGED fs
      BY <1>1, <1>3, <3>2 DEF install_rmkdir, Fails
    <3>. HIDE DEF p
    <3>4. fs'[p].kind = "dir"
      BY <1>0, <3>1, <3>3 DEF Put, Dir, Exists, Nodes
    <3>. QED BY <3>4 DEF p
  <2>4. \A k \in 1..Len(ps) : k < prefix' => fs'[ps[k]].kind = "dir"
    <3>1. ASSUME NEW k \in 1..Len(ps), k < prefix PROVE fs'[ps[k]].kind = "dir"
      <4>1. fs[ps[k]].kind = "dir"
        BY <1>0, <2>1, <3>1 DEF Underway
      <4>2. ps[k] \in Paths \ (Dsts \cup Tmps) /\ Exists(ps[k])
        BY <1>0, <3>1, <4>1, Apart DEF Exists
      <4>. QED BY <4>1, <4>2, InstallerStays DEF Stays
    <3>2. \A k \in 1..Len(ps) : k < prefix' => k < prefix \/ k = prefix
      BY <1>0, <2>1
    <3>. HIDE DEF ps
    <3>. QED BY <2>3, <3>1, <3>2
  <2>5. s = "own" => \A k \in 1..Len(ps) : k < prefix'
    BY <1>0, <2>1
  <2>6. s # "back after error"
    OBVIOUS
  <2>. HIDE DEF s
  <2>. QED BY <2>1, <2>2, <2>4, <2>5, <2>6, StillUnderway
<1>4. CASE OwnDir
  <2>1. fs[It.dir].kind = "dir"
    <3>1. Len(ps) \in 1..Len(ps) /\ step = "own"
      BY <1>0, <1>4 DEF OwnDir, At
    <3>. QED BY <1>0, <3>1 DEF Underway
  <2>2. Returns("OK")
    BY <1>1, <1>4, <2>1 DEF OwnDir, Owns, Exists, Fails
  <2>. QED BY <2>2, ItemRecovered
<1>. QED BY <1>2, <1>3, <1>4 DEF Making

LEMMA LinkingRecovers ==
  ASSUME Recoverable, IInv, AtTop, Kinds, Honest, Recovered, OKMeansDone', Recovering,
         Recovering' \/ prog' = "none", faults' = 0, Linking
  PROVE  Recovered'
<1>0. /\ prog = "installer" /\ ~dry /\ faults = 0 /\ Underway /\ fs \in [Paths -> Nodes]
      /\ It.op = "link" /\ item \in Links /\ It.dst \in Paths
  <2>1. It.op = "link"
    BY DEF Linking, inst_link, MakeLink, BackToStart, At
  <2>. QED BY <2>1, PathOfLink, Apart DEF Recovered, Recovering, IInv, TypeOK
<1>1. ~Faults
  BY <1>0 DEF Faults
<1>a. ASSUME NEW s, Goto(s), UNCHANGED <<prog, dry>>, s \notin {"mkdir", "own"},
             s = "back after error" => fs'[It.dst].kind # "absent"
      PROVE  Recovered'
  <2>1. Recovering'
    BY <1>0, <1>a
  <2>. QED BY <1>0, <1>a, <2>1, StillUnderway
<1>2. CASE inst_link
  <2>1. IsDir(It.dir)
    <3>1. MadeBefore(It.dir, item)
      BY <1>0 DEF Recoverable, It
    <3>. QED BY <3>1, DirMade
  <2>2. Goto("symlink") /\ UNCHANGED <<prog, dry>>
    BY <1>0, <1>1, <1>2, <2>1 DEF inst_link, Fails
  <2>. QED BY <1>a, <2>2
<1>3. CASE MakeLink
  <2>1. CASE Goto("back") /\ UNCHANGED here
    BY <1>a, <2>1 DEF here
  <2>2. CASE Exists(It.dst) /\ Unmade /\ UNCHANGED fs
    BY <1>a, <2>2 DEF Unmade, Exists, here
  <2>. QED BY <1>1, <1>3, <2>1, <2>2 DEF MakeLink, Fails
<1>4. CASE BackToStart
  <2>1. Returns("OK") \/ (Returns("ERROR") /\ step = "back after error")
    BY <1>1, <1>4 DEF BackToStart
  <2>2. step = "back after error" => fs'[It.dst].kind # "absent"
    BY <1>0, <1>4 DEF BackToStart, Underway, Exists
  <2>. QED BY <1>0, <2>1, <2>2, ItemRecovered
<1>. QED BY <1>2, <1>3, <1>4 DEF Linking

LEMMA NextRecovered ==
  ASSUME Recoverable, IInv, AtTop, Kinds, Honest, Recovered, OKMeansDone', [Next]_vars
  PROVE  Recovered'
<1>1. CASE UNCHANGED vars
  BY <1>1 DEF vars, Recovered, Recovering, Underway, InPlace, It, Recovers, Ran, Ended,
              Completed, LastRun, Clear, Done, Exists
<1>2. CASE Copying \/ Making \/ Linking
  <2>0. prog = "installer"
    BY <1>2 DEF Copying, inst_copy, OpenSource, CreateTmp, WriteTmp, SetMode, SetOwnership,
                CloseBoth, Rename, CopyFails, Making, inst_mkdir, install_rmkdir, OwnDir,
                Linking, inst_link, MakeLink, BackToStart, At
  <2>1. CASE ~dry /\ faults' = 0 /\ Clear'
    <3>1. faults = 0
      <4>1. Holds \/ Faults
        BY <1>2 DEF Copying, inst_copy, OpenSource, CreateTmp, WriteTmp, SetMode, SetOwnership,
                    CloseBoth, Rename, CopyFails, Making, inst_mkdir, install_rmkdir, OwnDir,
                    Linking, inst_link, MakeLink, BackToStart, NoSuchOwner, Fails
      <4>. QED BY <2>1, <4>1 DEF Holds, Faults, IInv, TypeOK
    <3>2. Recovering
      BY <1>2, <2>0, <2>1, <3>1, InstallerStays, ClearBefore DEF Recovering
    <3>3. Recovering' \/ prog' = "none"
      BY <1>2, <2>0, <2>1, ProgramStep DEF Acts, GoesOn, Halts, Ends, Recovering
    <3>. QED BY <1>2, <2>1, <3>2, <3>3, CopyingRecovers, MakingRecovers, LinkingRecovers
  <2>2. CASE ~(~dry /\ faults' = 0 /\ Clear')
    <3>1. CASE GoesOn
      <4>1. failed' = 0
        <5>1. failed' = failed
          BY <1>2, <2>0, <3>1
          DEF Copying, inst_copy, OpenSource, CreateTmp, WriteTmp, SetMode, SetOwnership,
              CloseBoth, Rename, CopyFails, Making, inst_mkdir, install_rmkdir, OwnDir,
              Linking, inst_link, MakeLink, BackToStart, Unmade, NoSuchOwner, Goto, Returns,
              ReturnsWith, Stop
        <5>. QED BY <2>0, <5>1 DEF Recovered
      <4>. QED BY <2>0, <2>2, <3>1, <4>1 DEF GoesOn, Recovered, Recovering, Recovers, Ran, Ended
    <3>2. CASE Halts
      <4>1. PICK exit, rep : Ends(exit, rep)
        BY <3>2 DEF Halts
      <4>2. LET run == Record(exit, rep) IN run.dry = dry /\ run.faults = faults'
        BY DEF Record
      <4>. QED BY <2>2, <4>1, <4>2, NothingToRecover DEF Ends, Completed
    <3>. QED BY <1>2, <3>1, <3>2, ProgramStep DEF Acts
  <2>. QED BY <2>1, <2>2
<1>3. CASE install_file_check \/ deinst
  <2>1. prog \in {"instchk", "deinstaller"}
    BY <1>3 DEF install_file_check, deinst
  <2>2. CASE GoesOn
    BY <2>1, <2>2 DEF GoesOn, Recovered, Recovering, Recovers, Ran, Ended
  <2>3. CASE Halts
    <3>1. PICK exit, rep : Ends(exit, rep)
      BY <2>3 DEF Halts
    <3>2. Record(exit, rep).prog # "installer"
      BY <2>1 DEF Record
    <3>. QED BY <3>1, <3>2, NothingToRecover DEF Ends
  <2>. QED BY <1>3, <2>2, <2>3, ProgramStep DEF Acts
<1>4. CASE Killed
  <2>1. Ends("killed", report)
    BY <1>4 DEF Killed, Stop, Ends, Record
  <2>2. ~Completed(Record("killed", report))
    BY DEF Completed, Record
  <2>. QED BY <2>1, <2>2, NothingToRecover DEF Ends
<1>5. ASSUME NEW p \in Programs, NEW d \in BOOLEAN, InitFails(p, d) PROVE Recovered'
  <2>. DEFINE run == [prog |-> p, dry |-> d, exit |-> "exit 112", faults |-> 0,
                      report |-> [i \in Items |-> "none"]]
  <2>1. prog' = "none" /\ log' = Append(log, run) /\ ~Completed(run)
    BY <1>5 DEF InitFails, Starts, here, Completed
  <2>. HIDE DEF run
  <2>. QED BY <2>1, NothingToRecover
<1>6. ASSUME NEW p \in Programs, NEW d \in BOOLEAN, Main(p, d) PROVE Recovered'
  <2>1. prog' = p /\ item' = First(p) /\ failed' = 0 /\ step' = "start"
    BY <1>6 DEF Main
  <2>2. p = "installer" => \A i \in Items : ~(i < item')
    BY <2>1, ItemsOK DEF First, Backwards, Items, ItemsOK
  <2>. QED BY <2>1, <2>2 DEF Recovered, Recovering, Underway, Recovers, Ran, Ended, Programs
<1>. QED BY <1>1, <1>2, <1>3, <1>4, <1>5, <1>6 DEF Next

\* For items in order, whose files the installer can open again: a run of the
\* installer in which nothing fails for a reason of its own puts every item in its
\* place and ends with 0, whatever earlier runs of the programs did, failed to do
\* or were interrupted in, where no file is in the place of a directory.
THEOREM RecoversAlways ==
  ASSUME Recoverable
  PROVE  Spec => []Recovers
<1>1. Init => AtTop /\ Kinds /\ Honest /\ Recovered
  BY InitKinds DEF Init, AtTop, Honest, SoFar, OKMeansDone, Recovered, Recovering, Recovers,
                   Ran, Ended
<1>2. /\ IInv /\ AtTop /\ Kinds /\ Honest /\ Recovered /\ OKMeansDone' /\ [Next]_vars
      => AtTop' /\ Kinds' /\ Honest' /\ Recovered'
  BY NextAtTop, NextKinds, NextHonest, NextRecovered
<1>3. Recovered => Recovers
  BY DEF Recovered
<1>. QED BY <1>1, <1>2, <1>3, Invariance, OKIsDone, PTL DEF Spec

----------------------------------------------------------------------------
(* The tree *)

\* What exists is in a directory, and so is the link that is about to be made.
Tree == \A p \in Paths : Exists(p) => IsDir(Parent[p])
InTree == Tree /\ (step = "symlink" => IsDir(It.dir))

LEMMA NothingIn ==
  ASSUME Tree, NEW p \in Paths, fs[p].kind # "dir"
  PROVE  \A q \in Paths : Parent[q] = p => ~Exists(q)
BY ItemsOK DEF Tree, IsDir, ItemsOK

LEMMA PutInTree ==
  ASSUME IInv, Tree, NEW p \in Paths, NEW n, Put(p, n),
         n.kind # "absent" => IsDir(Parent[p]),
         n.kind = "dir" \/ \A q \in Paths : Parent[q] = p => ~Exists(q)
  PROVE  Tree'
<1>1. \A q \in Paths : fs'[q] = IF q = p THEN n ELSE fs[q]
  BY DEF IInv, TypeOK, Put
<1>2. p # Top /\ \A q \in Paths : Parent[q] \in Paths \/ Parent[q] = Top
  BY ItemsOK DEF ItemsOK
<1>. SUFFICES ASSUME NEW q \in Paths, fs'[q].kind # "absent", Parent[q] # Top
              PROVE  fs'[Parent[q]].kind = "dir"
  BY DEF Tree, Exists, IsDir
<1>3. fs[Parent[q]].kind = "dir"
  <2>1. CASE q = p
    BY <1>1, <2>1 DEF IsDir
  <2>2. CASE q # p
    BY <1>1, <2>2 DEF Tree, Exists, IsDir
  <2>. QED BY <2>1, <2>2
<1>4. CASE Parent[q] # p
  BY <1>1, <1>2, <1>3, <1>4
<1>5. CASE Parent[q] = p
  <2>1. n.kind = "dir"
    <3>1. q # p => Exists(q)
      BY <1>1 DEF Exists
    <3>2. q = p => Exists(q)
      BY <1>3, <1>5 DEF Exists
    <3>. QED BY <1>5, <3>1, <3>2
  <2>. QED BY <1>1, <1>5, <2>1
<1>. QED BY <1>4, <1>5

LEMMA CopyingInTree ==
  ASSUME IInv, Kinds, Tree, Copying
  PROVE  Tree'
<1>0. It.op = "copy" /\ fs \in [Paths -> Nodes]
  BY DEF Copying, inst_copy, OpenSource, CreateTmp, WriteTmp, SetMode, SetOwnership,
         CloseBoth, Rename, CopyFails, At, IInv, TypeOK
<1>1. /\ TmpOf(It) \in Paths /\ It.dst \in Paths /\ Parent[TmpOf(It)] = Parent[It.dst]
      /\ fs[TmpOf(It)].kind # "dir" /\ fs[It.dst].kind # "dir" /\ TmpOf(It) # It.dst
  <2>1. TmpOf(It) \in Tmps /\ It.dst \in Dsts
    BY <1>0, PathOfCopy
  <2>2. Fits(TmpOf(It), fs[TmpOf(It)]) /\ Fits(It.dst, fs[It.dst])
    BY <2>1, Apart DEF Kinds
  <2>. QED BY <1>0, <2>1, <2>2, PathOfCopy, Apart DEF Fits
<1>a. ASSUME NEW n, Put(TmpOf(It), n), n.kind # "absent" => IsDir(Parent[TmpOf(It)])
      PROVE  Tree'
  <2>1. \A q \in Paths : Parent[q] = TmpOf(It) => ~Exists(q)
    BY <1>1, NothingIn
  <2>. QED BY <1>1, <1>a, <2>1, PutInTree
<1>2. CASE UNCHANGED fs
  BY <1>2 DEF Tree, Exists, IsDir
<1>3. CASE CreateTmp
  BY <1>3, <1>a DEF CreateTmp, CanCreate
<1>4. CASE WriteTmp \/ SetMode
  <2>1. fs[TmpOf(It)].kind = "file"
    BY <1>0, <1>4 DEF WriteTmp, SetMode, At, Kinds, IInv, TmpReady
  <2>2. IsDir(Parent[TmpOf(It)])
    BY <1>1, <2>1 DEF Tree, Exists
  <2>. QED BY <1>4, <1>a, <2>2 DEF WriteTmp, SetMode
<1>5. CASE Rename
  <2>1. \A q \in Paths : fs'[q] = IF q = TmpOf(It) THEN Absent
                                  ELSE IF q = It.dst THEN fs[TmpOf(It)] ELSE fs[q]
    BY <1>0, <1>5 DEF Rename
  <2>2. IsDir(Parent[TmpOf(It)])
    <3>1. fs[TmpOf(It)].kind = "file"
      BY <1>0, <1>5 DEF Rename, At, IInv, TmpReady, New, File
    <3>. QED BY <1>1, <3>1 DEF Tree, Exists
  <2>3. ASSUME NEW q \in Paths, fs'[q].kind # "absent", Parent[q] # Top
        PROVE  fs'[Parent[q]].kind = "dir"
    <3>1. q # TmpOf(It)
      BY <2>1, <2>3 DEF Absent
    <3>2. fs[Parent[q]].kind = "dir"
      <4>1. CASE q = It.dst
        BY <1>1, <2>2, <2>3, <4>1 DEF IsDir
      <4>2. CASE q # It.dst
        BY <2>1, <2>3, <3>1, <4>2 DEF Tree, Exists, IsDir
      <4>. QED BY <4>1, <4>2
    <3>3. Parent[q] \in Paths /\ Parent[q] # TmpOf(It) /\ Parent[q] # It.dst
      BY <1>1, <2>3, <3>2, ItemsOK DEF ItemsOK
    <3>. QED BY <2>1, <3>2, <3>3
  <2>. QED BY <2>3 DEF Tree, Exists, IsDir
<1>6. CASE Put(TmpOf(It), Absent)
  BY <1>6, <1>a DEF Absent
<1>. QED BY <1>2, <1>3, <1>4, <1>5, <1>6
         DEF Copying, inst_copy, OpenSource, SetOwnership, CloseBoth, CopyFails

LEMMA NextInTree ==
  ASSUME Undoable, IInv, Kinds, InTree, [Next]_vars
  PROVE  InTree'
<1>0. fs \in [Paths -> Nodes] /\ Tree
  BY DEF IInv, TypeOK, InTree
<1>1. Tree'
  <2>1. CASE UNCHANGED fs
    BY <1>0, <2>1 DEF Tree, Exists, IsDir
  <2>2. CASE Copying
    BY <1>0, <2>2, CopyingInTree
  <2>3. CASE Making /\ fs' # fs
    <3>1. It.op = "mkdir" /\ install_rmkdir /\ prefix \in 1..Len(Prefixes[It.dir])
      BY <2>3 DEF Making, inst_mkdir, install_rmkdir, OwnDir, At, IInv, PrefixInRange
    <3>2. Prefixes[It.dir][prefix] \in Paths
      BY <3>1, PathOfMkdir, Apart
    <3>3. /\ Put(Prefixes[It.dir][prefix], Dir(It.mode \ Umask))
          /\ IsDir(Parent[Prefixes[It.dir][prefix]])
      BY <2>3, <3>1 DEF install_rmkdir
    <3>4. Dir(It.mode \ Umask).kind = "dir"
      BY DEF Dir
    <3>. QED BY <1>0, <3>2, <3>3, <3>4, PutInTree
  <2>4. CASE Linking /\ fs' # fs
    <3>1. It.op = "link" /\ Put(It.dst, Link) /\ step = "symlink" /\ ~Exists(It.dst)
      BY <2>4 DEF Linking, inst_link, MakeLink, BackToStart, At
    <3>2. It.dst \in Paths /\ Parent[It.dst] = It.dir
      BY <3>1, PathOfLink, Apart DEF Undoable, It
    <3>3. IsDir(Parent[It.dst])
      BY <3>1, <3>2 DEF InTree
    <3>4. \A q \in Paths : Parent[q] = It.dst => ~Exists(q)
      <4>1. fs[It.dst].kind # "dir"
        BY <3>1 DEF Exists
      <4>. QED BY <1>0, <3>2, <4>1, NothingIn
    <3>. QED BY <1>0, <3>1, <3>2, <3>3, <3>4, PutInTree
  <2>5. CASE deinst /\ fs' # fs
    <3>1. Put(CheckedPath, Absent) /\ Removable(CheckedPath)
      BY <2>5 DEF deinst
    <3>2. CheckedPath \in Paths
      BY CheckedIsPath
    <3>3. \A q \in Paths : Parent[q] = CheckedPath => ~Exists(q)
      <4>1. CASE It.op = "mkdir"
        BY <3>1, <4>1 DEF Removable
      <4>2. CASE It.op # "mkdir"
        <5>1. fs[CheckedPath].kind # "dir"
          BY <3>1, <4>2 DEF Removable
        <5>. QED BY <1>0, <3>2, <5>1, NothingIn
      <4>. QED BY <4>1, <4>2
    <3>4. Absent.kind = "absent"
      BY DEF Absent
    <3>. QED BY <1>0, <3>1, <3>2, <3>3, <3>4, PutInTree
  <2>. QED BY <2>1, <2>2, <2>3, <2>4, <2>5
           DEF Next, vars, install_file_check, Killed, InitFails, Main
<1>2. step' = "symlink" => (step = "symlink" \/ inst_link) /\ UNCHANGED <<fs, item>>
  BY DEF Next, vars, Copying, inst_copy, OpenSource, CreateTmp, WriteTmp, SetMode, SetOwnership,
         CloseBoth, Rename, CopyFails, Making, inst_mkdir, install_rmkdir, OwnDir, Linking,
         MakeLink, Unmade, BackToStart, install_file_check, deinst, inst_link, Killed, InitFails,
         Main, NoSuchOwner, Goto, Returns, ReturnsWith, Stop, here
<1>3. inst_link /\ step' = "symlink" => IsDir(It.dir)
  BY DEF inst_link, Goto, Returns, ReturnsWith, Stop
<1>4. step' = "symlink" => IsDir(It.dir)'
  BY <1>2, <1>3 DEF InTree, IsDir, It
<1>. QED BY <1>1, <1>4 DEF InTree

----------------------------------------------------------------------------
(* Nothing of an installation is left *)

TmpGone(i) == fs[Tmp[insthier[i].dst]].kind = "absent"
NoTmps == \A i \in Copies : TmpGone(i)

\* The installer has no status yet for the item in hand, and no temporary file
\* of the copies that it reported as OK; after an installation of all there is
\* none of any.
Tidy ==
  /\ prog = "installer" => \A i \in Items : i >= item => report[i] = "none"
  /\ prog = "installer" /\ ~dry => \A i \in Copies : report[i] = "OK" => TmpGone(i)
  /\ prog # "installer" /\ AfterInstall => NoTmps

\* The temporary file of another item stays as it is.
TmpsKept == \A i \in Copies : i # item /\ TmpGone(i) => TmpGone(i)'

LEMMA InstallerTmps ==
  ASSUME IInv, Copying \/ Making \/ Linking
  PROVE  TmpsKept
<1>0. fs \in [Paths -> Nodes] /\ item \in Items
  BY DEF IInv, TypeOK, MainOK
<1>1. ASSUME NEW i \in Copies
      PROVE  insthier[i].dst \in Dsts /\ Tmp[insthier[i].dst] \in Tmps
  BY DEF Dsts, Tmps
<1>2. CASE UNCHANGED fs
  BY <1>2 DEF TmpsKept, TmpGone
<1>3. CASE It.op = "copy" /\ (CreateTmp \/ WriteTmp \/ SetMode \/ Rename \/ Put(TmpOf(It), Absent))
  <2>1. TmpOf(It) \in Tmps /\ It.dst \in Dsts /\ item \in Copies
    BY <1>3, PathOfCopy
  <2>2. (\E n : Put(TmpOf(It), n)) \/ \E n : fs' = [fs EXCEPT ![It.dst] = n, ![TmpOf(It)] = Absent]
    BY <1>3 DEF CreateTmp, WriteTmp, SetMode, Rename
  <2>3. ASSUME NEW i \in Copies, i # item
        PROVE  Tmp[insthier[i].dst] # TmpOf(It) /\ Tmp[insthier[i].dst] # It.dst
    <3>1. insthier[i].dst # It.dst
      BY <2>1, <2>3, ItemsOK DEF ItemsOK, It
    <3>. QED BY <1>1, <2>1, <3>1, ItemsOK DEF ItemsOK, TmpOf
  <2>. QED BY <1>0, <1>1, <2>2, <2>3, Apart DEF TmpsKept, TmpGone, Put
<1>4. ASSUME NEW p \in Paths \ Tmps, NEW n, Put(p, n) PROVE TmpsKept
  BY <1>0, <1>1, <1>4, Apart DEF TmpsKept, TmpGone, Put
<1>5. CASE It.op = "link" /\ Put(It.dst, Link)
  BY <1>4, <1>5, PathOfLink, Apart
<1>6. CASE /\ It.op = "mkdir" /\ prefix \in 1..Len(Prefixes[It.dir])
           /\ Put(Prefixes[It.dir][prefix], Dir(It.mode \ Umask))
  <2>1. Prefixes[It.dir][prefix] \in Paths \ Tmps
    BY <1>6, PathOfMkdir, Apart
  <2>. QED BY <1>4, <1>6, <2>1
<1>. QED BY <1>2, <1>3, <1>5, <1>6, InstallerWrites

\* The installer ends: a run that reports every item as OK has no temporary file.
LEMMA TidyStop ==
  ASSUME IInv, prog = "installer", NEW exit, NEW rep, Ends(exit, rep),
         (~dry /\ \A i \in Items : rep[i] = "OK") => NoTmps'
  PROVE  Tidy'
<1>. DEFINE run == Record(exit, rep)
<1>1. run.report = rep /\ run.dry = dry
  BY DEF Record
<1>2. log' = Append(log, run) /\ prog' = "none"
  BY DEF Ends
<1>. HIDE DEF run
<1>3. LastRun' = run
  BY <1>2, Logged
<1>. QED BY <1>1, <1>2, <1>3 DEF Tidy, AfterInstall, Installed, AllOK

LEMMA TidyReturn ==
  ASSUME IInv, Tidy, prog = "installer", NEW s, Returns(s), TmpsKept,
         ~dry /\ item \in Copies /\ s = "OK" => fs'[TmpOf(It)].kind = "absent"
  PROVE  Tidy'
<1>0. /\ report \in [Items -> Statuses] /\ item \in Items /\ prog \in Programs
      /\ Len(insthier) \in Nat /\ Items = 1..Len(insthier) /\ Copies \subseteq Items
  BY ItemsOK DEF IInv, TypeOK, MainOK, ItemsOK, Items, Programs, Copies
<1>. DEFINE rep == [report EXCEPT ![item] = s]
<1>1. rep[item] = s /\ \A i \in Items : i # item => rep[i] = report[i]
  BY <1>0
<1>2. /\ failed' = failed
      /\ \/ Ends("exit 112", rep) /\ s = "FATAL"
         \/ s # "FATAL" /\ Advance = 0 /\ Ends(IF failed > 0 THEN "exit 1" ELSE "exit 0", rep)
         \/ Advance # 0 /\ GoesOn /\ item' = Advance /\ report' = rep
  <2>1. rep = [report EXCEPT ![item] = s]
    OBVIOUS
  <2>. HIDE DEF rep
  <2>. QED BY <1>0, <2>1, MainLoop DEF Returns
<1>. HIDE DEF rep
<1>3. ~dry => \A i \in Copies : rep[i] = "OK" => TmpGone(i)'
  <2>. SUFFICES ASSUME ~dry, NEW i \in Copies, rep[i] = "OK" PROVE TmpGone(i)'
    OBVIOUS
  <2>1. CASE i = item
    BY <1>1, <2>1 DEF TmpGone, TmpOf, It
  <2>2. CASE i # item
    BY <1>0, <1>1, <2>2 DEF Tidy, TmpsKept
  <2>. QED BY <2>1, <2>2
<1>4. CASE \E exit : Ends(exit, rep)
  <2>1. (~dry /\ \A i \in Items : rep[i] = "OK") => NoTmps'
    BY <1>0, <1>3 DEF NoTmps
  <2>. QED BY <1>4, <2>1, TidyStop
<1>5. CASE Advance # 0 /\ GoesOn /\ item' = Advance /\ report' = rep
  <2>1. \A i \in Items : i >= item' => i >= item /\ i # item
    BY <1>0, <1>5 DEF Advance, Backwards
  <2>2. \A i \in Items : i >= item' => rep[i] = "none"
    BY <1>0, <1>1, <2>1 DEF Tidy
  <2>. QED BY <1>0, <1>3, <1>5, <2>2 DEF Tidy, GoesOn
<1>. QED BY <1>2, <1>4, <1>5

\* A step that goes on with the item, or ends the program before the item has
\* its status.
LEMMA TidyOn ==
  ASSUME IInv, Tidy, prog = "installer", NEW s, Goto(s), UNCHANGED <<prog, dry>>, TmpsKept
  PROVE  Tidy'
<1>1. UNCHANGED <<item, report, log>> /\ item \in Items /\ item >= item
  BY ItemsOK DEF Goto, IInv, TypeOK, MainOK, ItemsOK, Items
<1>2. ~dry => \A i \in Copies : report[i] = "OK" => TmpGone(i)'
  BY <1>1 DEF Tidy, TmpsKept, Copies
<1>. QED BY <1>1, <1>2 DEF Tidy

LEMMA TidyBreak ==
  ASSUME IInv, Tidy, prog = "installer", NEW exit, Stop(exit, report)
  PROVE  Tidy'
<1>1. item \in Items /\ item >= item
  BY ItemsOK DEF IInv, TypeOK, MainOK, ItemsOK, Items
<1>2. report[item] # "OK"
  BY <1>1 DEF Tidy
<1>3. Ends(exit, report)
  BY DEF Stop, Ends, Record
<1>. QED BY <1>1, <1>2, <1>3, TidyStop

LEMMA NextTidy ==
  ASSUME IInv, Tidy, [Next]_vars
  PROVE  Tidy'
<1>0. fs \in [Paths -> Nodes] /\ item \in Items
  BY DEF IInv, TypeOK, MainOK
<1>1. CASE UNCHANGED vars
  BY <1>1 DEF vars, Tidy, TmpGone, NoTmps, AfterInstall, Installed, AllOK, LastRun
<1>2. CASE Copying \/ Making \/ Linking
  <2>0. prog = "installer" /\ TmpsKept
    BY <1>2, InstallerTmps
    DEF Copying, inst_copy, OpenSource, CreateTmp, WriteTmp, SetMode, SetOwnership, CloseBoth,
        Rename, CopyFails, Making, inst_mkdir, install_rmkdir, OwnDir, Linking, inst_link,
        MakeLink, BackToStart, At
  <2>a. ASSUME NEW s, Returns(s), s # "OK" PROVE Tidy'
    BY <2>0, <2>a, TidyReturn
  <2>b. ASSUME NEW s, Goto(s), UNCHANGED <<prog, dry>> PROVE Tidy'
    BY <2>0, <2>b, TidyOn
  <2>c. ASSUME NoSuchOwner PROVE Tidy'
    BY <2>a, <2>c DEF NoSuchOwner
  <2>1. CASE inst_copy
    <3>1. CASE dry /\ Returns("OK")
      BY <2>0, <3>1, TidyReturn
    <3>. QED BY <2>1, <2>b, <2>c, <3>1 DEF inst_copy, here
  <2>2. CASE OpenSource \/ CreateTmp \/ WriteTmp \/ SetMode \/ SetOwnership \/ CloseBoth
    BY <2>2, <2>a, <2>b DEF OpenSource, CreateTmp, WriteTmp, SetMode, SetOwnership, CloseBoth, here
  <2>3. CASE Rename
    <3>1. It.op = "copy" /\ Returns("OK")
          /\ fs' = [fs EXCEPT ![It.dst] = fs[TmpOf(It)], ![TmpOf(It)] = Absent]
      BY <2>3 DEF Rename, At
    <3>2. fs'[TmpOf(It)].kind = "absent"
      BY <1>0, <3>1, PathOfCopy, Apart DEF Absent
    <3>. QED BY <2>0, <3>1, <3>2, TidyReturn
  <2>4. CASE CopyFails
    BY <2>0, <2>4, <2>a, TidyBreak DEF CopyFails
  <2>5. CASE Making \/ Linking
    <3>1. item \notin Copies
      BY <2>5 DEF Making, inst_mkdir, install_rmkdir, OwnDir, Linking, inst_link, MakeLink,
                  BackToStart, At, Copies, It
    <3>2. ASSUME NEW s, Returns(s) PROVE Tidy'
      BY <2>0, <3>1, <3>2, TidyReturn
    <3>. QED BY <2>5, <2>b, <2>c, <3>2
             DEF Making, inst_mkdir, install_rmkdir, OwnDir, Linking, inst_link, MakeLink,
                 BackToStart, Unmade, here
  <2>. QED BY <1>2, <2>1, <2>2, <2>3, <2>4, <2>5 DEF Copying
<1>3. CASE install_file_check \/ deinst
  <2>1. prog # "installer" /\ prog \in Programs
    BY <1>3 DEF install_file_check, deinst, Programs
  <2>2. CASE GoesOn
    <3>1. NoTmps => NoTmps'
      <4>1. UNCHANGED fs \/ Put(CheckedPath, Absent)
        BY <1>3 DEF install_file_check, deinst
      <4>2. \A i \in Copies : Tmp[insthier[i].dst] \in Paths
        BY Apart DEF Tmps, Dsts
      <4>. QED BY <1>0, <4>1, <4>2 DEF NoTmps, TmpGone, Put, Absent
    <3>2. AfterInstall' = AfterInstall
      BY <2>2 DEF GoesOn, AfterInstall, Installed, AllOK, LastRun
    <3>. QED BY <2>1, <2>2, <3>1, <3>2 DEF GoesOn, Tidy
  <2>3. CASE Halts
    <3>1. PICK exit, rep : Ends(exit, rep)
      BY <2>3 DEF Halts
    <3>2. LastRun' = Record(exit, rep) /\ prog' = "none" /\ Record(exit, rep).prog = prog
      BY <3>1, Logged DEF Ends, Record
    <3>. QED BY <2>1, <3>2 DEF Tidy, AfterInstall, Installed
  <2>. QED BY <1>3, <2>2, <2>3, ProgramStep DEF Acts
<1>4. CASE Killed
  <2>1. CASE prog = "installer"
    BY <1>4, <2>1, TidyBreak DEF Killed
  <2>2. CASE prog # "installer"
    <3>1. LastRun' = Record("killed", report) /\ prog' = "none"
      BY <1>4, Logged DEF Killed, Stop, Record
    <3>2. Record("killed", report).prog = prog
      BY DEF Record
    <3>. QED BY <2>2, <3>1, <3>2 DEF Tidy, AfterInstall, Installed
  <2>. QED BY <2>1, <2>2
<1>5. ASSUME NEW p \in Programs, NEW d \in BOOLEAN, InitFails(p, d) PROVE Tidy'
  <2>. DEFINE run == [prog |-> p, dry |-> d, exit |-> "exit 112", faults |-> 0,
                      report |-> [i \in Items |-> "none"]]
  <2>1. prog' = "none" /\ log' = Append(log, run) /\ \A i \in Items : run.report[i] = "none"
    BY <1>5 DEF InitFails, Starts, here
  <2>. HIDE DEF run
  <2>2. LastRun' = run
    BY <2>1, Logged
  <2>3. ~AfterInstall'
    BY <1>0, <2>1, <2>2 DEF AfterInstall, Installed, AllOK
  <2>. QED BY <2>1, <2>3 DEF Tidy
<1>6. ASSUME NEW p \in Programs, NEW d \in BOOLEAN, Main(p, d) PROVE Tidy'
  <2>1. /\ prog = "none" /\ prog' = p /\ report' = [i \in Items |-> "none"]
        /\ UNCHANGED <<fs, log>>
    BY <1>6 DEF Main, Starts
  <2>2. AfterInstall' = AfterInstall /\ NoTmps' = NoTmps
    BY <2>1 DEF AfterInstall, LastRun, Installed, AllOK, NoTmps, TmpGone
  <2>3. \A i \in Items : report'[i] = "none"
    BY <2>1
  <2>. QED BY <2>1, <2>2, <2>3 DEF Tidy, Copies
<1>. QED BY <1>1, <1>2, <1>3, <1>4, <1>5, <1>6 DEF Next

----------------------------------------------------------------------------
(* Removal *)

\* While the deinstaller runs after an installation, and nothing fails, the items
\* up to the one in hand are still there, directories as directories, and those
\* after it are gone.
Undoing == prog = "deinstaller" /\ ~dry /\ AfterInstall /\ faults = 0 /\ NoMistake
StillThere(i) == Done(i) /\ (i \in Mkdirs => fs[insthier[i].dir].kind = "dir")
UndoneSoFar ==
  /\ \A i \in Items : i <= item => StillThere(i)
  /\ \A i \in Items : i > item => ~Exists(Place(i)) /\ report[i] = "OK"
Undone == (Undoing => UndoneSoFar) /\ UndoesInstall

LEMMA DoneIsThere ==
  ASSUME NEW i \in Items, Done(i)
  PROVE  Exists(Place(i))
BY Places DEF Done, Place, Exists, New, File, Mkdirs, Copies

\* A record that says nothing of a removal.
LEMMA NothingUndone ==
  ASSUME IInv, NEW run, log' = Append(log, run), prog' = "none",
         run.prog # "deinstaller" \/ run.dry \/ ~Completed(run) \/ ~AfterInstall
  PROVE  Undone'
<1>1. /\ LastRun' = run /\ log'[Len(log') - 0] = run /\ Len(log') = Len(log) + 1
      /\ Len(log) \in Nat /\ log = <<>> <=> Len(log) = 0
      /\ log # <<>> => log'[Len(log') - 1] = LastRun
  BY Logged DEF LastRun, IInv, TypeOK, MainOK
<1>2. ~AfterInstall => ~(Ran(1, "installer") /\ AllOK(log[Len(log) - 1]))'
  BY <1>1 DEF Ran, AfterInstall, Installed, AllOK
<1>3. UndoesInstall'
  <2>1. CASE ~AfterInstall
    BY <1>2, <2>1 DEF UndoesInstall
  <2>2. CASE run.prog # "deinstaller" \/ run.dry \/ ~Completed(run)
    BY <1>1, <2>2 DEF UndoesInstall, Ran
  <2>. QED BY <2>1, <2>2
<1>. QED BY <1>3 DEF Undone, Undoing

\* The item in hand can be removed: a directory has nothing in it any more.
LEMMA CanRemove ==
  ASSUME Undoable, IInv, Kinds, Tidy, Undoing, UndoneSoFar
  PROVE  Removable(CheckedPath)
<1>0. /\ item \in Items /\ StillThere(item) /\ CheckedPath \in Paths /\ NoTmps
      /\ CheckedPath = Place(item) /\ It.op \in {"copy", "mkdir", "link"}
  <2>1. item \in Items /\ item <= item
    BY ItemsOK DEF IInv, TypeOK, MainOK, ItemsOK, Items
  <2>2. NoTmps
    BY DEF Undoing, Tidy
  <2>. QED BY <2>1, <2>2, CheckedIsPath, ItemTyped DEF UndoneSoFar, ItemType
<1>1. Exists(CheckedPath) /\ fs[CheckedPath] \in Nodes /\ Fits(CheckedPath, fs[CheckedPath])
  BY <1>0, DoneIsThere DEF StillThere, IInv, TypeOK, Kinds
<1>2. CASE It.op = "copy" \/ It.op = "link"
  BY <1>1, <1>2, CheckedIsPath DEF Fits, Exists, Removable
<1>3. CASE It.op = "mkdir"
  <2>1. item \in Mkdirs /\ CheckedPath = It.dir
    BY <1>0, <1>3 DEF Mkdirs, It, CheckedPath
  <2>2. fs[CheckedPath].kind = "dir"
    BY <1>0, <2>1 DEF StillThere, It
  <2>3. ASSUME NEW q \in Paths, Parent[q] = CheckedPath PROVE ~Exists(q)
    <3>1. q \in Tmps \/ \E j \in Items : j > item /\ Place(j) = q
      BY <2>1, <2>3 DEF Undoable, It
    <3>2. CASE q \in Tmps
      <4>1. PICK i \in Copies : q = Tmp[insthier[i].dst]
        BY <3>2 DEF Tmps, Dsts
      <4>. QED BY <1>0, <4>1 DEF NoTmps, TmpGone, Exists
    <3>3. CASE \E j \in Items : j > item /\ Place(j) = q
      BY <3>3 DEF UndoneSoFar
    <3>. QED BY <3>1, <3>2, <3>3
  <2>. QED BY <1>3, <2>2, <2>3 DEF Removable
<1>. QED BY <1>0, <1>2, <1>3

\* The deinstaller does not remove a file that stands for a directory: rmdir does
\* not, and no other item has the place.
LEMMA MistakeStays ==
  ASSUME Undoable, IInv, deinst, NoMistake'
  PROVE  NoMistake
<1>. SUFFICES ASSUME NEW i \in Mkdirs, ~Filled(i), fs[insthier[i].dir].kind = "file"
              PROVE  FALSE
  BY DEF NoMistake
<1>1. fs'[insthier[i].dir].kind # "file"
  BY DEF NoMistake, Filled
<1>2. /\ CheckedPath = Place(item) /\ CheckedPath \in Paths /\ item \in Items
      /\ i \in Items /\ Place(i) = insthier[i].dir
  BY CheckedIsPath DEF deinst, Mkdirs, Place, IInv, TypeOK, MainOK
<1>3. Removable(CheckedPath) /\ Put(CheckedPath, Absent)
  BY <1>1 DEF deinst
<1>4. CheckedPath = insthier[i].dir
  BY <1>1, <1>3 DEF Put
<1>5. item = i
  BY <1>2, <1>4 DEF Undoable
<1>6. It.op = "mkdir"
  BY <1>5 DEF It, Mkdirs
<1>. QED BY <1>3, <1>4, <1>6 DEF Removable

\* One item is removed.
LEMMA RemoveOne ==
  ASSUME Undoable, IInv, Kinds, Tidy, Undone, deinst
  PROVE  Undone'
<1>0. /\ prog = "deinstaller" /\ prog \in Programs /\ item \in Items /\ fs \in [Paths -> Nodes]
      /\ report \in [Items -> Statuses] /\ failed \in Nat /\ faults \in Nat
      /\ Len(insthier) \in Nat /\ Items = 1..Len(insthier)
  BY ItemsOK DEF deinst, Programs, IInv, TypeOK, MainOK, ItemsOK, Items
<1>a. CASE ~NoMistake'
  <2>1. ~UndoesInstall' => FALSE
    BY <1>a DEF UndoesInstall
  <2>. QED BY <1>a, <2>1 DEF Undone, Undoing
<1>1. CASE faults' # 0 \/ dry \/ ~AfterInstall
  <2>1. CASE GoesOn
    <3>1. AfterInstall' = AfterInstall
      BY <2>1 DEF GoesOn, AfterInstall, Installed, AllOK, LastRun
    <3>. QED BY <1>0, <1>1, <2>1, <3>1 DEF GoesOn, Undone, Undoing, UndoesInstall, Ran, Ended
  <2>2. CASE Halts
    <3>1. PICK exit, rep : Ends(exit, rep)
      BY <2>2 DEF Halts
    <3>2. Record(exit, rep).faults = faults' /\ Record(exit, rep).dry = dry
      BY DEF Record
    <3>. QED BY <1>1, <3>1, <3>2, NothingUndone DEF Ends, Completed
  <2>. QED BY <2>1, <2>2, ProgramStep DEF Acts
<1>2. CASE faults' = 0 /\ ~dry /\ AfterInstall /\ NoMistake'
  <2>1. faults = 0 /\ ~Faults
    BY <1>0, <1>2 DEF deinst, Faults, Holds, Fails
  <2>a. NoMistake
    BY <1>0, <1>2, MistakeStays
  <2>2. Undoing /\ UndoneSoFar
    BY <1>0, <1>2, <2>1, <2>a DEF Undoing, Undone
  <2>3. Put(CheckedPath, Absent) /\ Returns("OK")
    BY <1>2, <2>1, <2>2, CanRemove DEF deinst, Fails
  <2>4. CheckedPath = Place(item) /\ CheckedPath \in Paths
    BY CheckedIsPath
  <2>5. \A p \in Paths : fs'[p] = IF p = Place(item) THEN Absent ELSE fs[p]
    BY <1>0, <2>3, <2>4 DEF Put
  <2>6. \A i \in Items : i # item => fs'[Place(i)] = fs[Place(i)]
    BY <1>0, <2>5, Places DEF Undoable
  <2>7. \A i \in Items : i < item => StillThere(i)'
    <3>. SUFFICES ASSUME NEW i \in Items, i < item PROVE StillThere(i)'
      OBVIOUS
    <3>1. i <= item /\ i # item
      BY <1>0
    <3>2. StillThere(i) /\ fs'[Place(i)] = fs[Place(i)]
      BY <2>2, <2>6, <3>1 DEF UndoneSoFar
    <3>3. Done(i)'
      BY <3>2, DoneAt DEF StillThere
    <3>4. i \in Mkdirs => fs'[insthier[i].dir].kind = "dir"
      BY <3>2 DEF StillThere, Place
    <3>. QED BY <3>3, <3>4 DEF StillThere
  <2>. DEFINE rep == [report EXCEPT ![item] = "OK"]
  <2>8. \A i \in Items : i >= item => fs'[Place(i)].kind = "absent" /\ rep[i] = "OK"
    <3>. SUFFICES ASSUME NEW i \in Items, i >= item
                  PROVE  fs'[Place(i)].kind = "absent" /\ rep[i] = "OK"
      OBVIOUS
    <3>1. CASE i = item
      BY <1>0, <2>4, <2>5, <3>1 DEF Absent
    <3>2. CASE i # item
      <4>1. i > item
        BY <1>0, <3>2
      <4>2. ~Exists(Place(i)) /\ report[i] = "OK"
        BY <2>2, <4>1 DEF UndoneSoFar
      <4>. QED BY <1>0, <2>6, <3>2, <4>2 DEF Exists
    <3>. QED BY <3>1, <3>2
  <2>9. \/ Advance = 0 /\ \E exit : Ends(exit, rep)
        \/ Advance # 0 /\ GoesOn /\ item' = Advance /\ report' = rep
    <3>. DEFINE s == "OK"
              n == failed
    <3>1. rep = [report EXCEPT ![item] = s] /\ ReturnsWith(s, n) /\ s # "FATAL"
      BY <2>3 DEF Returns
    <3>. HIDE DEF rep, s, n
    <3>2. \/ /\ s # "FATAL" /\ Advance = 0
             /\ Ends(IF n > 0 THEN "exit 1" ELSE "exit 0", [report EXCEPT ![item] = s])
          \/ /\ s # "FATAL" /\ Advance # 0 /\ GoesOn
             /\ item' = Advance /\ report' = [report EXCEPT ![item] = s]
      BY <1>0, <3>1, MainLoop
    <3>. QED BY <3>1, <3>2
  <2>10. Advance = item - 1
    BY <1>0 DEF Advance, Backwards
  <2>. HIDE DEF rep
  <2>11. CASE Advance = 0 /\ \E exit : Ends(exit, rep)
    <3>1. \A i \in Items : i >= item
      <4>1. item - 1 = 0
        BY <2>10, <2>11
      <4>. QED BY <1>0, <4>1
    <3>2. PICK exit : Ends(exit, rep)
      BY <2>11
    <3>3. Record(exit, rep).report = rep
      BY DEF Record
    <3>4. LastRun' = Record(exit, rep) /\ prog' = "none"
      BY <3>2, Logged DEF Ends
    <3>5. AllOK(LastRun)'
      BY <2>8, <3>1, <3>3, <3>4 DEF AllOK
    <3>6. \A i \in Items : ~Done(i)'
      <4>. SUFFICES ASSUME NEW i \in Items, Done(i)' PROVE FALSE
        OBVIOUS
      <4>1. fs'[Place(i)].kind = "absent"
        BY <2>8, <3>1
      <4>2. fs'[Place(i)].kind # "absent"
        BY Places DEF Done, Place, Exists, New, File, Mkdirs, Copies
      <4>. QED BY <4>1, <4>2
    <3>. QED BY <3>4, <3>5, <3>6 DEF Undone, Undoing, UndoesInstall
  <2>12. CASE Advance # 0 /\ GoesOn /\ item' = Advance /\ report' = rep
    <3>1. \A i \in Items : (i <= item' => i < item) /\ (i > item' => i >= item)
      BY <1>0, <2>10, <2>12
    <3>2. UndoneSoFar'
      BY <2>7, <2>8, <2>12, <3>1 DEF UndoneSoFar, Exists
    <3>. QED BY <1>0, <2>12, <3>2 DEF GoesOn, Undone, UndoesInstall, Ran, Ended
  <2>. QED BY <2>9, <2>11, <2>12
<1>. QED BY <1>a, <1>1, <1>2

LEMMA NextUndone ==
  ASSUME Undoable, IInv, OKMeansDone, Kinds, InTree, Tidy, Undone, [Next]_vars
  PROVE  Undone'
<1>1. CASE UNCHANGED vars
  BY <1>1 DEF vars, Undone, Undoing, UndoneSoFar, StillThere, UndoesInstall, NoMistake, AfterInstall,
              Installed, AllOK, LastRun, Done, Exists, Ran, Ended, Completed
<1>2. CASE deinst
  BY <1>2, RemoveOne
<1>3. CASE Acts /\ ~deinst
  <2>1. prog \in Programs /\ prog # "deinstaller"
    BY <1>3, ProgramStep
    DEF Acts, Copying, inst_copy, OpenSource, CreateTmp, WriteTmp, SetMode, SetOwnership,
        CloseBoth, Rename, CopyFails, Making, inst_mkdir, install_rmkdir, OwnDir, Linking,
        inst_link, MakeLink, BackToStart, install_file_check, At
  <2>2. CASE GoesOn
    BY <2>1, <2>2 DEF GoesOn, Undone, Undoing, UndoesInstall, Ran, Ended, Programs
  <2>3. CASE Halts
    <3>1. PICK exit, rep : Ends(exit, rep)
      BY <2>3 DEF Halts
    <3>2. Record(exit, rep).prog # "deinstaller"
      BY <2>1 DEF Record
    <3>. QED BY <3>1, <3>2, NothingUndone DEF Ends
  <2>. QED BY <1>3, <2>2, <2>3, ProgramStep
<1>4. CASE Killed
  <2>1. Ends("killed", report)
    BY <1>4 DEF Killed, Stop, Ends, Record
  <2>2. ~Completed(Record("killed", report))
    BY DEF Completed, Record
  <2>. QED BY <2>1, <2>2, NothingUndone DEF Ends
<1>5. ASSUME NEW p \in Programs, NEW d \in BOOLEAN, InitFails(p, d) PROVE Undone'
  <2>. DEFINE run == [prog |-> p, dry |-> d, exit |-> "exit 112", faults |-> 0,
                      report |-> [i \in Items |-> "none"]]
  <2>1. prog' = "none" /\ log' = Append(log, run) /\ ~Completed(run)
    BY <1>5 DEF InitFails, Starts, here, Completed
  <2>. HIDE DEF run
  <2>. QED BY <2>1, NothingUndone
<1>6. ASSUME NEW p \in Programs, NEW d \in BOOLEAN, Main(p, d) PROVE Undone'
  <2>1. /\ prog = "none" /\ prog' = p /\ item' = First(p) /\ UNCHANGED <<fs, log>>
    BY <1>6 DEF Main, Starts
  <2>2. AfterInstall' = AfterInstall
    BY <2>1 DEF AfterInstall, LastRun, Installed, AllOK
  <2>3. ASSUME p = "deinstaller", AfterInstall, NoMistake PROVE UndoneSoFar'
    <3>1. item' = Len(insthier) /\ \A i \in Items : ~(i > Len(insthier))
      BY <2>1, <2>3, ItemsOK DEF First, Backwards, Items, ItemsOK
    <3>2. \A i \in Items : Done(i)
      BY <2>1, <2>3, InstalledIsDone
    <3>3. ASSUME NEW i \in Mkdirs PROVE fs[insthier[i].dir].kind = "dir"
      <4>1. insthier[i].dir \in Paths /\ insthier[i].dir \in DirPaths
        <5>1. Len(Prefixes[insthier[i].dir]) \in 1..Len(Prefixes[insthier[i].dir])
          BY DirsOfMkdir
        <5>. QED BY <5>1, DirsOfMkdir, Apart
      <4>2. CASE Filled(i)
        <5>1. PICK j \in Items : Parent[Place(j)] = insthier[i].dir
          BY <4>2 DEF Filled
        <5>2. Exists(Place(j)) /\ Place(j) \in Paths
          BY <3>2, DoneIsThere, Places
        <5>3. insthier[i].dir # Top
          BY <4>1, ItemsOK DEF ItemsOK
        <5>. QED BY <5>1, <5>2, <5>3 DEF InTree, Tree, IsDir
      <4>3. CASE ~Filled(i)
        <5>1. fs[insthier[i].dir].kind # "file"
          BY <2>1, <2>3, <4>3 DEF NoMistake
        <5>2. Place(i) = insthier[i].dir /\ Exists(Place(i))
          BY <3>2, DoneIsThere DEF Place, Mkdirs
        <5>3. fs[insthier[i].dir].kind # "link"
          BY <4>1 DEF Kinds, Fits
        <5>4. fs[insthier[i].dir].kind \in {"absent", "file", "dir", "link"}
          BY <4>1 DEF IInv, TypeOK, Nodes
        <5>. QED BY <5>1, <5>2, <5>3, <5>4 DEF Exists
      <4>. QED BY <4>2, <4>3
    <3>4. \A i \in Items : StillThere(i)'
      BY <2>1, <3>2, <3>3 DEF StillThere, Done, Exists
    <3>. QED BY <3>1, <3>4 DEF UndoneSoFar
  <2>4. NoMistake' => NoMistake
    BY <2>1 DEF NoMistake
  <2>. QED BY <2>1, <2>2, <2>3, <2>4 DEF Undone, Undoing, UndoesInstall, Ran, Ended, Programs
<1>. QED BY <1>1, <1>2, <1>3, <1>4, <1>5, <1>6 DEF Next, Acts

\* For items that have their own places: after an
\* installation without error a run of the deinstaller in which nothing fails
\* reports OK for every item and leaves none of them.
THEOREM UndoesAlways ==
  ASSUME Undoable
  PROVE  Spec => []UndoesInstall
<1>1. Init => Kinds /\ InTree /\ Tidy /\ Undone
  BY InitKinds DEF Init, InTree, Tree, Tidy, AfterInstall, Undone, Undoing, UndoesInstall,
                   Ran, Ended
<1>2. /\ IInv /\ OKMeansDone /\ Kinds /\ InTree /\ Tidy /\ Undone /\ [Next]_vars
      => Kinds' /\ InTree' /\ Tidy' /\ Undone'
  BY NextKinds, NextInTree, NextTidy, NextUndone
<1>3. Undone => UndoesInstall
  BY DEF Undone
<1>. QED BY <1>1, <1>2, <1>3, Invariance, OKIsDone, PTL DEF Spec
=============================================================================
