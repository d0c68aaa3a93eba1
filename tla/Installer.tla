------------------------------ MODULE Installer ------------------------------
(***************************************************************************)
(* The installation engine (install-core.c over install-posix.c) and the   *)
(* three programs that drive it over the items of insthier.c: installer,   *)
(* instchk and deinstaller, run one after the other over one file system.  *)
(* A step is a system call.  Any of them may fail, and a program may be    *)
(* killed between two of them.  Names are as ntran_* leaves them.          *)
(***************************************************************************)
EXTENDS Naturals, Sequences

CONSTANTS
  insthier,    \* the items, a sequence of ItemType; paths not used are Top,
               \* named says that owner or group is given by name
  Paths,       \* the paths of the items, their directories, temporary files
  Top,         \* the directory above them all, which exists
  Parent,      \* [Paths -> Paths \cup {Top}]
  Prefixes,    \* [Paths -> Seq(Paths)]: what install_rmkdir makes, in order
  Tmp,         \* [destinations -> Paths]: dst.tmp
  Bits,        \* permission bits
  Seen,        \* the bits of 0755, those iposix_file_get_mode returns
  Created,     \* the mode of a file that fopen creates, before the umask
  Umask,       \* the bits the umask takes away
  Writable,    \* the bit that lets the owner open a file for writing
  Privileged,  \* whether the programs run as root
  MaxRuns,     \* bound on the number of programs run
  MaxFaults,   \* bound on the system calls that fail for no other reason, per run
  MaxKills     \* bound on the number of programs killed

Items  == 1..Len(insthier)
Copies == {i \in Items : insthier[i].op = "copy"}   \* INST_COPY, INST_COPY_EXEC
Mkdirs == {i \in Items : insthier[i].op = "mkdir"}  \* INST_MKDIR
Links  == {i \in Items : insthier[i].op = "link"}   \* INST_SYMLINK, INST_LIBLINK
Dsts   == {insthier[i].dst : i \in Copies}
Tmps   == {Tmp[d] : d \in Dsts}

\* One item: what is done, in which directory, to which file, with which mode.
ItemType == [op : {"copy", "mkdir", "link"}, dir : Paths \cup {Top},
             dst : Paths \cup {Top}, mode : SUBSET Bits,
             target : Paths \cup {Top}, named : BOOLEAN]

\* No two items install the same file, and no item the directories, links and
\* temporary files of another.
ASSUME ItemsOK ==
  /\ insthier \in Seq(ItemType) /\ insthier # <<>>
  /\ Top \notin Paths /\ Dsts \subseteq Paths
  /\ \A i \in Links : /\ insthier[i].dst \in Paths \ (Dsts \cup Tmps)
                      /\ insthier[i].target \in Paths
  /\ \A i \in Mkdirs :
       LET ps == Prefixes[insthier[i].dir] IN
         /\ ps \in Seq(Paths \ (Dsts \cup Tmps)) /\ ps # <<>>
         /\ ps[Len(ps)] = insthier[i].dir
  /\ \A i, j \in Copies : insthier[i].dst = insthier[j].dst => i = j
  /\ Tmp \in [Dsts -> Paths] /\ Tmps \cap Dsts = {}
  /\ \A d, e \in Dsts : Tmp[d] = Tmp[e] => d = e
  /\ Parent \in [Paths -> Paths \cup {Top}]
  /\ Created \subseteq Bits /\ Umask \subseteq Bits
  /\ MaxRuns \in Nat /\ MaxFaults \in Nat /\ MaxKills \in Nat

\* A temporary file is beside its destination.  The prefixes of a directory lead
\* to it from Top, and none of them is the name of a link.
ASSUME LayoutOK ==
  /\ \A d \in Dsts : Parent[Tmp[d]] = Parent[d]
  /\ \A i \in Mkdirs :
       LET ps == Prefixes[insthier[i].dir] IN
         /\ \A k \in 1..Len(ps) : Parent[ps[k]] = IF k = 1 THEN Top ELSE ps[k - 1]
         /\ \A k \in 1..Len(ps), j \in Links : ps[k] # insthier[j].dst

VARIABLES
  fs,      \* [Paths -> Nodes]
  prog,    \* the program that runs, or "none"
  dry,     \* INSTALL_DRYRUN
  item,    \* i of main: the item in hand
  step,    \* the next system call for it
  prefix,  \* how far install_rmkdir is
  cwd,     \* the working directory; Top is where the programs start
  faults,  \* the system calls that failed for no other reason in this run
  report,  \* the status of each item in this run
  failed,  \* install_failed: the items instchk found at fault
  log      \* history: the runs that have ended

vars == <<fs, prog, dry, item, step, prefix, cwd, faults, report, failed, log>>
here == <<prog, dry, prefix, cwd>>

Absent      == [kind |-> "absent", data |-> "none", mode |-> {}]
Dir(m)      == [kind |-> "dir", data |-> "none", mode |-> m]
File(d, m)  == [kind |-> "file", data |-> d, mode |-> m]
Link        == [kind |-> "link", data |-> "none", mode |-> {}]
New(it)     == File("new", it.mode)   \* the source's data, the item's mode

It       == insthier[item]
Exists(p) == fs[p].kind # "absent"
IsDir(p) == p # Top => fs[p].kind = "dir"
Put(p, n) == fs' = [fs EXCEPT ![p] = n]
Tmp_Same(it) == it.dst     \* mutant: the destination is written in place
TmpOf(it) == Tmp[it.dst]

Holds  == UNCHANGED faults
Faults == faults < MaxFaults /\ faults' = faults + 1
Fails(reason) == (reason /\ Holds) \/ Faults

At(p, op, s) == prog = p /\ It.op = op /\ step = s
Goto(s) == step' = s /\ UNCHANGED <<item, report, failed, log>>

\* The program ends.
Stop(exit, rep) ==
  /\ prog' = "none" /\ step' = "none"
  /\ report' = rep
  /\ log' = Append(log, [prog |-> prog, dry |-> dry, exit |-> exit,
                         faults |-> faults', report |-> rep])
  /\ UNCHANGED <<dry, item, prefix>>

\* The loop of main; the deinstaller goes from the last item to the first.
Backwards_Never(p) == FALSE                                     \* mutant
Backwards(p) == p = "deinstaller"
First(p) == IF Backwards(p) THEN Len(insthier) ELSE 1
Advance_PastEnd == IF Backwards(prog) THEN item - 1 ELSE item + 1  \* mutant
Advance == IF Backwards(prog) THEN item - 1
           ELSE IF item = Len(insthier) THEN 0 ELSE item + 1   \* 0: no more

\* The status of an item is back in main, which goes on after OK and ERROR; n
\* is install_failed by then, which only instchk looks at, at its end.
ReturnsWith(s, n) ==
  LET rep == [report EXCEPT ![item] = s] IN
  /\ failed' = n
  /\ \/ s = "FATAL" /\ Stop("exit 112", rep)
     \/ s # "FATAL" /\ Advance = 0 /\ Stop(IF n > 0 THEN "exit 1" ELSE "exit 0", rep)
     \/ /\ s # "FATAL" /\ Advance # 0
        /\ report' = rep /\ item' = Advance /\ step' = "start"
        /\ UNCHANGED <<prog, dry, prefix, log>>
Returns(s) == ReturnsWith(s, failed)

\* install_uidgid_lookup, before anything else is done for a copy or a mkdir:
\* an item that names no owner and no group takes those of the process.
NoSuchOwner == It.named /\ Faults /\ Returns("ERROR")

----------------------------------------------------------------------------
(* install_file_copy *)

inst_copy ==
  /\ At("installer", "copy", "start") /\ UNCHANGED <<fs, cwd>>
  /\ \/ NoSuchOwner
     \/ dry /\ Holds /\ Returns("OK")
     \/ ~dry /\ Holds /\ Goto("open") /\ UNCHANGED here

\* fopen (src): the source is named relative to where the program started.
OpenSource ==
  /\ At("installer", "copy", "open") /\ UNCHANGED fs
  /\ \/ cwd = Top /\ Holds /\ Goto("create") /\ UNCHANGED here
     \/ Fails(cwd # Top) /\ Returns("ERROR") /\ UNCHANGED cwd

\* fopen (dst_tmp, "wb") truncates a file that is there and keeps its mode.
\* Mutant: it must not be there ("wbx").
CanCreate_New ==
  IsDir(Parent[TmpOf(It)]) /\ fs[TmpOf(It)].kind = "absent"
CanCreate ==
  /\ IsDir(Parent[TmpOf(It)])
  /\ \/ fs[TmpOf(It)].kind = "absent"
     \/ fs[TmpOf(It)].kind = "file" /\ (Privileged \/ Writable \in fs[TmpOf(It)].mode)

CreateTmp ==
  /\ At("installer", "copy", "create") /\ CanCreate /\ Holds
  /\ Put(TmpOf(It), File("part", IF Exists(TmpOf(It)) THEN fs[TmpOf(It)].mode
                                 ELSE Created \ Umask))
  /\ Goto("write") /\ UNCHANGED here

\* The loop of fread and fwrite, and fflush.
WriteTmp ==
  /\ At("installer", "copy", "write") /\ Holds
  /\ Put(TmpOf(It), File("new", fs[TmpOf(It)].mode))
  /\ Goto("chmod") /\ UNCHANGED here

SetMode ==
  /\ At("installer", "copy", "chmod") /\ Holds
  /\ Put(TmpOf(It), File(fs[TmpOf(It)].data, It.mode))
  /\ Goto("chown") /\ UNCHANGED here

SetOwnership ==
  /\ At("installer", "copy", "chown") /\ Holds
  /\ Goto("close") /\ UNCHANGED <<fs, here>>

CloseBoth ==
  /\ At("installer", "copy", "close") /\ Holds
  /\ Goto("rename") /\ UNCHANGED <<fs, here>>

Rename ==
  /\ At("installer", "copy", "rename") /\ Holds
  /\ fs[It.dst].kind # "dir"
  /\ fs' = [fs EXCEPT ![It.dst] = fs[TmpOf(It)], ![TmpOf(It)] = Absent]
  /\ Returns("OK") /\ UNCHANGED cwd

\* The label ERR.  Both streams are closed again and dst.tmp is unlinked; when
\* one was never opened or is closed already, fclose has no defined behaviour:
\* it may end the program.
CopyFails ==
  /\ prog = "installer" /\ It.op = "copy"
  /\ \/ step = "create" /\ Fails(~CanCreate)
     \/ step = "rename" /\ Fails(fs[It.dst].kind = "dir")
     \/ step \in {"write", "chmod", "chown", "close"} /\ Faults
  /\ UNCHANGED cwd
  /\ \/ Put(TmpOf(It), Absent) /\ Returns("ERROR")
     \/ /\ step \in {"create", "close", "rename"}
        /\ Stop("undefined", report) /\ UNCHANGED <<fs, failed>>

----------------------------------------------------------------------------
(* inst_mkdir *)

inst_mkdir ==
  /\ At("installer", "mkdir", "start") /\ UNCHANGED <<fs, cwd>>
  /\ \/ NoSuchOwner
     \/ dry /\ Holds /\ Returns("OK")
     \/ /\ ~dry /\ Holds /\ Goto("mkdir")
        /\ prefix' = 1 /\ UNCHANGED <<prog, dry>>

\* One turn of the loop of install_rmkdir.  iposix_mkdir returns 0 when mkdir
\* fails and the loop tests for -1, so that it goes on whatever happens.
install_rmkdir ==
  /\ At("installer", "mkdir", "mkdir")
  /\ LET p == Prefixes[It.dir][prefix] IN
       \/ /\ ~Exists(p) /\ IsDir(Parent[p]) /\ Holds
          /\ Put(p, Dir(It.mode \ Umask))
       \/ /\ Fails(Exists(p) \/ ~IsDir(Parent[p]))
          /\ UNCHANGED fs
  /\ prefix' = prefix + 1
  /\ Goto(IF prefix = Len(Prefixes[It.dir]) THEN "own" ELSE "mkdir")
  /\ UNCHANGED <<prog, dry, cwd>>

\* chown fails when there is nothing of that name (mutant: its result is not
\* looked at, like that of mkdir).
Owns_Always == TRUE
Owns == Exists(It.dir)
OwnDir ==
  /\ At("installer", "mkdir", "own") /\ UNCHANGED <<fs, cwd>>
  /\ \/ Owns /\ Holds /\ Returns("OK")
     \/ Fails(~Owns) /\ Returns("ERROR")

----------------------------------------------------------------------------
(* inst_link *)

\* getcwd and chdir, also in a dry run.
inst_link ==
  /\ At("installer", "link", "start") /\ UNCHANGED <<fs, prog, dry, prefix>>
  /\ \/ /\ cwd = Top /\ IsDir(It.dir) /\ Holds
        /\ cwd' = It.dir /\ Goto(IF dry THEN "back" ELSE "symlink")
     \/ Fails(~IsDir(It.dir)) /\ Returns("ERROR") /\ UNCHANGED cwd

\* symlink fails when the name is taken; the way back is the same.
Unmade_Returns == Returns("ERROR") /\ UNCHANGED cwd             \* mutant
Unmade == Goto("back after error") /\ UNCHANGED here
MakeLink ==
  /\ At("installer", "link", "symlink")
  /\ \/ ~Exists(It.dst) /\ Holds /\ Put(It.dst, Link) /\ Goto("back") /\ UNCHANGED here
     \/ Fails(Exists(It.dst)) /\ Unmade /\ UNCHANGED fs

BackToStart ==
  /\ prog = "installer" /\ It.op = "link" /\ step \in {"back", "back after error"}
  /\ UNCHANGED fs
  /\ \/ /\ Holds /\ cwd' = Top
        /\ Returns(IF step = "back" THEN "OK" ELSE "ERROR")
     \/ Faults /\ Returns("FATAL") /\ UNCHANGED cwd

----------------------------------------------------------------------------
(* instchk and deinstaller: one item at a time, nothing happens in between *)

\* install_file_check.  The type is looked up and, where there are symbolic
\* links, compared with nothing; the size of files is compared with that of
\* the source; the mode is that of what a link points to.
GetMode_Unmasked(n) == n.mode \cup {n.kind}  \* mutant: the bits of the type, too
GetMode(n) == n.mode \cap Seen
CheckedPath == IF It.op = "mkdir" THEN It.dir ELSE It.dst
StatPath    == IF It.op = "link" THEN It.target ELSE CheckedPath
Passes(same_size) ==
  /\ Exists(CheckedPath) /\ Exists(StatPath)
  /\ It.op = "copy" => fs[CheckedPath].data = "new" \/ same_size
  /\ GetMode(fs[StatPath]) = It.mode

\* instchk_copy, instchk_link, instchk_mkdir: an item whose owner cannot be
\* looked up is not checked and not counted.
install_file_check ==
  /\ prog = "instchk" /\ step = "start" /\ UNCHANGED <<fs, cwd>>
  /\ \/ NoSuchOwner
     \/ \E same_size \in BOOLEAN :
          \/ Passes(same_size) /\ Holds /\ Returns("OK")
          \/ Fails(~Passes(same_size)) /\ ReturnsWith("ERROR", failed + 1)

\* unlink takes anything but a directory, rmdir an empty directory.
Removable(p) ==
  IF It.op = "mkdir" THEN fs[p].kind = "dir" /\ \A q \in Paths : Parent[q] = p => ~Exists(q)
                     ELSE fs[p].kind \in {"file", "link"}

deinst ==
  /\ prog = "deinstaller" /\ step = "start" /\ UNCHANGED cwd
  /\ LET p == CheckedPath IN
       \/ dry /\ Holds /\ Returns("OK") /\ UNCHANGED fs
       \/ ~dry /\ Removable(p) /\ Holds /\ Put(p, Absent) /\ Returns("OK")
       \/ ~dry /\ Fails(~Removable(p)) /\ Returns("ERROR") /\ UNCHANGED fs

----------------------------------------------------------------------------
(* The programs *)

Programs == {"installer", "instchk", "deinstaller"}

Starts(p, d) == prog = "none" /\ Len(log) < MaxRuns /\ (p = "instchk" => ~d)

\* install_init fails: there is no conf-sosuffix, or nothing in it.
InitFails(p, d) ==
  /\ Starts(p, d)
  /\ log' = Append(log, [prog |-> p, dry |-> d, exit |-> "exit 112", faults |-> 0,
                         report |-> [i \in Items |-> "none"]])
  /\ UNCHANGED <<fs, here, item, step, faults, report, failed>>

\* install_init, then the first item.
Main(p, d) ==
  /\ Starts(p, d)
  /\ prog' = p /\ dry' = d
  /\ item' = First(p) /\ step' = "start" /\ prefix' = 1
  /\ cwd' = Top /\ faults' = 0 /\ failed' = 0
  /\ report' = [i \in Items |-> "none"]
  /\ UNCHANGED <<fs, log>>

\* Interrupted by a signal.
Killed ==
  /\ prog # "none"
  /\ Len(SelectSeq(log, LAMBDA r : r.exit = "killed")) < MaxKills
  /\ Holds /\ Stop("killed", report)
  /\ UNCHANGED <<fs, cwd, failed>>

\* Before the first run: nothing, an earlier version, or something else of the
\* same name.
InitialNodes(p) ==
  IF p \in Tmps THEN {Absent}
  ELSE IF p \in Dsts THEN {Absent, File("old", Created)}
  ELSE IF \E i \in Links : insthier[i].dst = p THEN {Absent}
  ELSE {Absent, Dir(Bits), File("old", Bits)}

Init ==
  /\ fs \in [Paths -> UNION {InitialNodes(p) : p \in Paths}]
  /\ \A p \in Paths : fs[p] \in InitialNodes(p) /\ (Exists(p) => IsDir(Parent[p]))
  /\ prog = "none" /\ dry = FALSE
  /\ item = 1 /\ step = "none" /\ prefix = 1
  /\ cwd = Top /\ faults = 0 /\ failed = 0
  /\ report = [i \in Items |-> "none"]
  /\ log = <<>>

Copying == \/ inst_copy \/ OpenSource \/ CreateTmp \/ WriteTmp \/ SetMode
           \/ SetOwnership \/ CloseBoth \/ Rename \/ CopyFails
Making  == inst_mkdir \/ install_rmkdir \/ OwnDir
Linking == inst_link \/ MakeLink \/ BackToStart

Next == \/ \E p \in Programs, d \in BOOLEAN : InitFails(p, d) \/ Main(p, d)
        \/ Copying \/ Making \/ Linking
        \/ install_file_check \/ deinst \/ Killed

Spec == Init /\ [][Next]_vars

----------------------------------------------------------------------------
(* Properties *)

Statuses == {"none", "OK", "ERROR", "FATAL"}
Exits    == {"exit 0", "exit 1", "exit 112", "killed", "undefined"}
Nodes    == [kind : {"absent", "file", "dir", "link"},
             data : {"none", "old", "part", "new"}, mode : SUBSET Bits]

Steps    == {"none", "start", "open", "create", "write", "chmod", "chown", "close",
             "rename", "mkdir", "own", "symlink", "back", "back after error"}
Runs     == [prog : Programs, dry : BOOLEAN, exit : Exits,
             faults : 0..MaxFaults, report : [Items -> Statuses]]

MainOK ==
  /\ prog \in Programs \cup {"none"} /\ dry \in BOOLEAN
  /\ item \in Items /\ step \in Steps /\ prefix \in Nat
  /\ report \in [Items -> Statuses]
  /\ log \in Seq(Runs)

\* The type of every variable.
TypeOK ==
  /\ fs \in [Paths -> Nodes]
  /\ cwd \in Paths \cup {Top}
  /\ faults \in 0..MaxFaults /\ failed \in Nat
  /\ MainOK

Ended   == prog = "none" /\ log # <<>>
LastRun == log[Len(log)]
Ran(k, p) == /\ Ended /\ Len(log) > k
             /\ log[Len(log) - k].prog = p /\ ~log[Len(log) - k].dry
Completed(r) == r.exit \notin {"killed", "exit 112"} /\ r.faults = 0
AllOK(r) == \A i \in Items : r.report[i] = "OK"

Done(i) == IF i \in Copies THEN fs[insthier[i].dst] = New(insthier[i])
           ELSE IF i \in Mkdirs THEN Exists(insthier[i].dir)
           ELSE Exists(insthier[i].dst)

\* What the installer reports as installed is installed, also when mkdir has
\* failed, whose result install_rmkdir loses, and when the run ends early.
OKMeansDone ==
  Ran(0, "installer") => \A i \in Items : LastRun.report[i] = "OK" => Done(i)

\* The path that is there when an item is done.
Place(i) == IF i \in Mkdirs THEN insthier[i].dir ELSE insthier[i].dst

\* What the items have to be for Recovers: a directory comes before what goes
\* into it, and a temporary file that was left behind can be opened.
MadeBefore(d, i) == d = Top \/ \E j \in Mkdirs : j < i /\ insthier[j].dir = d
Recoverable ==
  /\ \A i \in Copies : MadeBefore(Parent[insthier[i].dst], i)
  /\ \A i \in Links : MadeBefore(insthier[i].dir, i)
  /\ \/ Privileged
     \/ Writable \in Created \ Umask /\ \A i \in Copies : Writable \in insthier[i].mode

\* For CheckAgrees: the modes are ones that iposix_file_get_mode can return, and
\* a link has the mode of the copy it leads to.
Checkable ==
  /\ \A i \in Copies : insthier[i].mode \subseteq Seen
  /\ \A i \in Links : \E j \in Copies : /\ insthier[j].dst = insthier[i].target
                                        /\ insthier[j].mode = insthier[i].mode

\* For UndoesInstall: no two items have one place, a link is in its directory,
\* and what is in a directory are places of later items and temporary files.
Undoable ==
  /\ \A i, j \in Items : Place(i) = Place(j) => i = j
  /\ \A i \in Links : Parent[insthier[i].dst] = insthier[i].dir
  /\ \A i \in Mkdirs, p \in Paths : Parent[p] = insthier[i].dir =>
       p \in Tmps \/ \E j \in Items : j > i /\ Place(j) = p

\* Nothing of another kind is where a directory has to be.
Clear == \A i \in Mkdirs : \A k \in 1..Len(Prefixes[insthier[i].dir]) :
           fs[Prefixes[insthier[i].dir][k]].kind # "file"

\* A run of the installer in which no system call fails for a reason of its
\* own installs everything, whatever earlier runs left half done.
Recovers ==
  (Ran(0, "installer") /\ Completed(LastRun) /\ Clear) =>
    LastRun.exit = "exit 0" /\ \A i \in Items : Done(i)

\* After an installation without error the check finds fault with exactly the
\* directories whose mode was not the item's before, or is not after the umask.
CheckAgrees ==
  (Ran(1, "installer") /\ AllOK(log[Len(log) - 1]) /\ Ran(0, "instchk") /\ Completed(LastRun))
    => /\ \A i \in Copies : LastRun.report[i] = "OK"
       /\ (LastRun.exit = "exit 1") <=>
            (\E i \in Mkdirs : GetMode(fs[insthier[i].dir]) # insthier[i].mode)

\* No file is where a directory has to be into which nothing goes: the installer
\* would take it for the directory.
Filled(i) == \E j \in Items : Parent[Place(j)] = insthier[i].dir
NoMistake == \A i \in Mkdirs : Filled(i) \/ fs[insthier[i].dir].kind # "file"

\* After an installation without error the deinstaller removes every item,
\* each directory after what is in it.
UndoesInstall ==
  (/\ Ran(1, "installer") /\ AllOK(log[Len(log) - 1]) /\ Ran(0, "deinstaller")
   /\ Completed(LastRun) /\ NoMistake)
    => AllOK(LastRun) /\ \A i \in Items : ~Done(i)

\* Each item is begun where the program started, so that the relative names of
\* the sources mean the same for all of them (inst_link goes away and back).
StartsAtTop == step = "start" => cwd = Top

\* "could not open destination file" (install-core.c:333): a copy that fails is
\* reported and the installer goes on with the next item, certainly where every
\* directory can be made.  The code does not keep it: it closes a stream that it
\* does not have, for one when an interrupted run left a read-only dst.tmp.
FailureIsReported ==
  (Ended /\ Clear) => \A k \in 1..Len(log) : log[k].exit # "undefined"

\* "could not create directory" (install-core.c:858): a directory that could not
\* be made is an error, so one reported as made is there.  The code does not
\* keep it: install_rmkdir does not see that mkdir failed, and chown takes
\* whatever has the name.
DirectoriesAreMade ==
  Ran(0, "installer") => \A i \in Mkdirs :
    LastRun.report[i] = "OK" => fs[insthier[i].dir].kind = "dir"

\* What the programs do to the destinations, as AtomicReplace sees it.
AR == INSTANCE AtomicReplace WITH
        Dests <- Copies,
        Wanted <- [i \in Copies |-> New(insthier[i])], Gone <- Absent,
        Earlier <- [i \in Copies |-> {File("old", Created)}],
        dest <- [i \in Copies |-> fs[insthier[i].dst]]
\* Seen from outside a destination is replaced in one step, by a whole file
\* with the mode it should have, or removed: an interruption leaves the old one
\* or the new one (dst.tmp and rename in install_file_copy).
ReplacesAtomically == AR!Spec
============================================================================
