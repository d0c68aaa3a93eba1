# Verification of coreland-lua-ada-load

TLA+ models of the code in this repository, the TLC runs that check them on
small instances, and TLAPS proofs of what matters most for every instance.
`PROJECT.json` lists the components, the runs, the lines each definition
models, the hazards and the theorems; this file explains them.

To check a module: `tlc -config <run>.cfg <module>` for a run of the table
below, `tlapm <module>Proofs.tla` for the proofs.

## The system

The repository is an Ada library that walks the tables a Lua script leaves on
the Lua stack, plus the machinery it is built and installed with: a C
installer and the SYSDEPS shell and C programs that probe the host.

| component | state | operations | interacts with |
|---|---|---|---|
| Lua loader (`lua-load.adb`) | `State_t`: the interpreter, the dotted name of the current position, its depth, the file name, the last error; and the Lua stack itself | `Set_Lua`, `Set_File`, `Key`, `Local`, `Named_Local`, `Indexed_Local` and their conditional forms, `Table_Start`, `Table_End`, `Table_Iterate` | the Lua C library (through the lua-ada binding, outside the repository) and the client, which is called back by `Table_Iterate` |
| sd-locker (`SYSDEPS/sd-locker*.c`), POSIX and Windows | one `sd_locker_state_t` per process, the system's file locks | open, lock, fork and exec or `CreateProcess`, wait, unlock, close | every SYSDEPS script that compiles or runs a probe |
| installer engine (`install-core.c`, `install-posix.c`, `install-win32.c`) | the file system; static buffers for names; identities looked up and freed; `install_failed` | `install`, `install_check`, `deinstall` over the items of `insthier.c` | the three programs `installer`, `instchk`, `deinstaller`, run one after the other, possibly interrupted |
| SYSDEPS build (`sysdep-boot`, `sysdep-system`, `sd-compile`, `sysdep-mod-exec`, ...) | files in `SYSDEPS/`: `sd-locker`, probes, objects, status files, `sd-adaversion.out` | compile under a lock, run under a lock, record a module's status | run once per module, in parallel under `make -j`; serialised by sd-locker |
| host probes (`sd-cctype.c`, `sd-ccversion.c`, `sd-cpuidx86.c`, ...) | the macros of the compiler; four global registers and `struct cpu_info` | print the type and version of the compiler, one fact of the processor | compiled and run by the SYSDEPS build; what one prints is compiled into the next, and goes into `sd-sysinfo.h` |
| `lua-ada-load-conf`, `install-error.c` | none | print flags; an error code as text | the builds of clients |
| build scripts, SYSDEPS modules, unit tests, context strings | none that outlives a step | | |

### What is hard, and what makes each part correct

* **Loader.** The name is one string: a component is found again by the last
  dot. Calls interleave with callbacks, and exceptions leave a callback at any
  point; `Table_Iterate` handles one of the two exceptions that can. The Lua
  stack is shared with the callback, which can leave more or less on it than it
  found. Correct means: the name is always the path of the tables entered and
  not left; the depth counts it; an iteration visits each entry once and
  restores the stack and the name, on return and on a `Load_Error`; an exception
  that leaves several iterations at once leaves in the name what a client can
  count, and takes nothing of the code it reaches; the C
  library is never used outside its contract by a client that leaves what it
  enters.
* **sd-locker.** Several processes and their children interleave; any system
  call may fail; the command or sd-locker itself may be killed. Correct means:
  of the commands under one lock one runs at a time, the exit code that is
  returned is the command's, and no failure leaves the others waiting. Where an
  sd-locker dies, or gives up, before its command has ended, that command alone
  may run beside the next.
* **Installer.** It is interrupted between any two system calls, and items fail
  one by one while the rest go on. Correct means: a destination is never seen
  half written or with the wrong mode, an item reported installed is installed,
  the check agrees with the installation, and the deinstallation undoes it. The
  names of an item are built by three programs in three ways, through static
  buffers that the next item writes again; on Windows its owner and group are
  allocated, and an operation has many ways out. Correct means: all three
  programs use the same names, those of the item in hand, inside the item's
  directory, and every identity is freed once.
* **SYSDEPS build.** Runs of `sysdep-system` in parallel create the locker
  before there is a locker, share compiled probes, a header, a cache file and a
  status directory. Correct means: no run uses a program that is not complete,
  a status says what the last run of its module did, and no build stops without
  a command that failed.
* **Host probes.** The type and the version of the compiler come from two lists
  written apart, of which the last section that holds decides, and compilers
  define the macros of others. The processor is asked through global registers
  that keep what was last in them. Correct means: type and version are of one
  compiler, and a feature or a size that is printed is one the processor
  reports, in a leaf that it has.

`PROJECT.json` gives these as hazards, each at its line.

## Modules

| module | what it is |
|---|---|
| `LuaLoad` | the loader over the Lua stack, with an arbitrary client |
| `LuaClient` | the same steps restricted to a careful client, with history variables |
| `LuaLoadProofs` | theorems of `LuaLoad` |
| `LuaClientProofs` | theorems of `LuaClient`: the stack, the iterations and the names |
| `CommandLock` | what sd-locker promises: the abstract specification |
| `SdLocker` | sd-locker over either back end, its command and the system's locks |
| `SdLockerProofs` | theorems of `SdLocker`: types, exclusion, the refinement of `CommandLock`, who waits for whom and how long, what a result says |
| `AtomicReplace` | what an installation promises of each file: the abstract specification |
| `Installer` | the installation engine and its three programs over a file system |
| `InstallerProofs` | theorems of `Installer`: types, the refinement of `AtomicReplace` |
| `InstallerRunProofs` | theorems of `Installer` about a run, and about one run after another |
| `InstallItems` | the same programs in memory: names in static buffers, identities |
| `InstallItemsProofs` | theorems of `InstallItems`: names that fit, names that are meant, identities |
| `SysdepsBuild` | runs of sd-run in parallel over the files they share |
| `SysdepsBuildProofs` | theorems of `SysdepsBuild`: types, the probes, sd-locker, the end of a run, the status, who waits for whom and how long, the Ada compiler |
| `CcProbes` | sd-cctype and sd-ccversion as functions of the compiler's macros |
| `CpuId` | the probes in a row: compiler, then sd-cpuidx86 step by step |
| `CpuIdProofs` | theorems of `CpuId`: types, the features, the sizes of the caches, the version |
| `MC*` | the constants of the TLC runs |

### LuaLoad

`names` is `Name_Code` and `Name_Depth`; a name is a sequence over `Chars`,
where a component is one or a few members and `Dot` is the separator, because
what can go wrong is which dot is found. `names.open` is a ghost: the
components added and not yet removed, with the text before each; no guard
reads it. `stacks` has one sequence of values for each interpreter. `frames`
is the stack of running `Table_Iterate` calls (whether each `Added` a
component), `ctl` says whether client code runs, an exception is in flight, the
program has ended or Lua has been used outside its contract ("undefined": a
missing stack slot, a field of a non-table, `lua_next` after something that is
not a key). Each action is one call, up to the point where client code runs
again: `Table_Iterate` runs to the first call of `Process`,
`Process_Returns` from the return of `Process` to its next call or to the end
of the loop, `Process_Raises` is the handler.

Numbers too large for an `Integer` or a `Long_Integer` are members of `Values`
outside `FitsInteger` or `FitsLong`; the conversions raise `Constraint_Error`
for them. A default of a conditional lookup of a `Long_Integer` goes through
`Long_Float`; `edge` is the choice of a default that does not survive it.

External, modelled from how the code uses it: the Lua stack and `lua_next`
(`Get`, `IsKey`, `NextAfter`, `Iterable`, `Undefined`). Tables are not changed
while they are iterated, and a string has no metatable (the tests open only the
base library), so indexing anything but a table is a Lua error outside a
protected call.

### LuaClient

The client the unit tests follow: it ends every table it starts before its
callback returns, asks tables only for fields, reads key and value where the
iteration put them, and handles an exception where a lookup raised it.
`calls` remembers for each iteration its table, the stack and the names at the
call, and the keys `Process` was called for. `left` counts what an exception has
gone through on its way: the named entries of iterations (`own`) and the tables
their `Process` had open (`tables`), with the names at the last iteration it has
left (`entry`). `ExceptionLeavesPath` says that these counts are what remains in
`names`, although the handler of `Table_Iterate` removes a component without
looking which, and handles one of the two exceptions only. `Mirrors` says of one iteration what
the stack of the code inside it is; `StackMirrorsPath` says it of the code that
runs and of every stack an iteration was called on.

### SdLocker and CommandLock

`os` says which back end was compiled. One action per system call of `main`; on
POSIX the child of `fork` is an actor of its own, on Windows `CreateProcess`
starts the command in one step and its exit code may be the value that means
"still active". `holder` is the system's table of locks, which drops a process's
locks when it ends, however it ends. `sd_locker_fatal` is enabled wherever a
system call may fail, `WaitFails` where the Windows back end goes on to release
the lock without the command having ended, `Killed` everywhere (`Kills`).
`CommandLock` has one call with the phases waiting, running, abandoned, ended
and returned. It allows what the code does with a command ended by a signal: it
has no exit code, and the call may return success. An abandoned command is one
whose sd-locker was killed or gave up: the lock is free while it runs on, so
exclusion is about the commands that are attended.

### Installer and AtomicReplace

`fs` maps paths to nodes (kind, data, mode); `prog`, `item`, `step` and
`prefix` are the control of `main`, of the callback of the item and of
`install_rmkdir`. A step is one system call, except that the read and write
loop of a copy is one step, and so is the check of one item: nothing else runs
between its calls. A call fails when the file system says so (`Fails(reason)`),
or, `MaxFaults` times per run, for a reason of its own. `Killed` interrupts a
program anywhere; `log` keeps how each run ended, with the status of each item.
Permissions are sets of bits; `GetMode` masks them as `iposix_file_get_mode`
does. A plain `fclose` of a stream that is not open may do nothing or end the
program ("undefined").

Names are those `ntran_*` makes; the size comparison of `install_file_check` is
a free choice for a file that is not the new one; ownership is not modelled
beyond its system calls failing, since the items name no owner. Before the
first run a directory may be absent, there, or a plain file.

`AtomicReplace` has one variable, the destinations; a step replaces one by
what it should be or removes it.

### InstallItems

`Installer` takes the path of an item as given; `InstallItems` is where it comes
from. A name is a sequence of `Parts` ("/", the texts between, suffixes).
`m` has the two pointers of the item and the contents of every static buffer the
code hands names on in; `ntran_*` are translated buffer by buffer, with
`libname`, `base_name`, `install_suffix_sanitize` and the truncation of
`snprintf`, and `trans` chooses by the tables `install_opers`, `instchk_opers`
and `deinst_opers`. `used` is what the operation then takes as source and
target. `Meant` says the same names without buffers and without regard to the
program. `ids` are the identities of an item, numbers on POSIX and allocated on
Windows (`install-win32.c`): "live" until freed; `leaked` collects those that go
out of scope, and a free of one that was never set is "undefined". The effects
on the file system are a free choice of success or failure here.

### SysdepsBuild

One process for each module under `SYSDEPS/modules`, as `make -j` starts them:
sysdep-boot, sysdep-system, sysdep-mod-exec. `task` is where the run is in
`Tasks`, the compilations and runs of probes in sysdep-system and the question
about the Ada compiler, and the header sd-cpuidx86.h; `pc` is the command it is at. Shared: sd-locker
(`locker`), the probes, sd-adaversion.out (`adaOut`), the status directory, the
locks (`holder`, with what `CommandLock` promises: sd-locker and its command
are one here). `probe` says how far a linker has come. `Opened` is what its output
may be before it is done: external, a linker makes it executable when it opens it
(`"partial-program"`) or when it is done (`"partial-file"`), and removes it when
it fails; a killed one leaves it. `Faulty` names the commands that may fail, up to `MaxFaults` times.
`Failed` is what a failure leads to, which differs between the kinds of tasks:
fatal, marked unknown by the caller of `...`, or noticed by nobody. The header has no variable: sd-mk-cpuidx86-h writes it to another
name and moves it, under the lock of its own (a task "header"), with the same text
whoever makes it, so that no run sees a part of it. What can go wrong is that it
refuses to be made without the values of sd-arch and sd-cctype (`Valued`, of
those a run has in `known`): when one of them fails, the script says that the
value "will be marked 'unknown'" (sysdep-system:208 and 215), and a few lines
later the header stops the run. The search
of sysdep-mod-exec is one step, since it reads and writes files of its module
only, and moves one file. Left out: cross compilation (it reads files only),
sysdeps.out, the texts. `Clean` is `make sysdeps_clean` when nothing runs.

### CcProbes and CpuId

`CcTypes` and `CcVersions` are the `#if` sections of sd-cctype.c and
sd-ccversion.c in their order; what a program prints is decided by the last
section that holds (of `TypeSections`, of `VersionSections`). `CpuId` runs both on one compiler, compiles their answer and
that of sd-arch into sd-cpuidx86, and follows it: `regs` are its four global
registers, as bytes, `cpu` its `struct cpu_info`, and each action is one call
that asks the processor for leaves. The tables of cache descriptors are those of
the source. `Answer` is the end of `main` for any name, with the width of
`unsigned long` of the compiler.

## Runs

| run | module, cfg | question | result |
|---|---|---|---|
| loader_any_client | MCLuaLoad, LuaLoad_any | is the name the path, whatever the client does? | yes, when no key is empty or holds a dot |
| loader_careful_client | MCLuaClient, LuaClient | is the discipline enough for Lua, the stack and the iteration? | yes |
| locker | MCSdLocker, SdLocker | exclusion, exit codes, progress, refinement of `CommandLock`, over either back end, any sd-locker killed anywhere | yes |
| locker_signalled_command | MCSdLocker, SdLocker_signal | does success mean the command succeeded? | no: finding |
| installer | MCInstaller, Installer | two programs in a row with failures and interruption: atomic replacement, honest statuses, recovery, check, deinstallation | yes |
| installer_retry | MCInstaller, Installer_retry | is a copy that fails reported, and the next item done? | no: finding |
| installer_mkdir | MCInstaller, Installer_mkdir | is a directory reported as made there? | no: finding |
| install_names | MCInstallItems, InstallItems | does every operation use its own item's names, in its directory, and free every identity once? | yes |
| build | MCSysdepsBuild, SysdepsBuild | whole probes, built once, sd-locker there when called, honest status, no fatal end without cause, with any one command failing | yes |
| build_killed | MCSysdepsBuild, SysdepsBuild_kills | do the other runs end when one fails or is killed, whom do they wait for, and is what a killed linker leaves taken for a probe? | yes |
| build_ada | MCSysdepsBuild, SysdepsBuild_ada | does every run know the Ada compiler? | no: finding |
| probes | MCCpuId, CpuId | are the version and the type of one compiler, and features and sizes those of the processor? | yes |

Bounds. `LuaLoad_any` bounds the height of the stack (5), the depth of the name
(3) and the nesting of iterations (2): enough for an iteration inside a started
table inside an iteration with an exception at each level, on a tree with every
kind of key (string, number that fits, number that does not, other) and value.
The bounds are guards (`MaxHeight`, `MaxDepth`, `MaxCalls`) of the calls that
push. `LuaClient` runs over a tree of tables four deep, with an empty one and keys that
are neither number nor string, and a second script whose key no `Integer` holds
(16078 states): an exception passes two iterations, with and without named entries
and with tables of the client's own open. `SdLocker` has three processes,
two of them on one lock file: exclusion and progress are about pairs, the third
shows that lock files are independent; failures and kills are not bounded.
`Installer` has two nested directories, a file in each, one of them read-only as `lua-load.ali` is, a directory with nothing in it, and a
link, which `insthier.c` has none of but the engine handles; two runs, one failure in each
and one interruption over both: the promises are about one run or one run after
another, and with three runs (six million states without the empty directory, tried once)
nothing new
appears. The umask takes a bit of 0755 away, so that the check does find
directories at fault. `InstallItems` runs any two of ten items in a row,
enough for a buffer to hold what the item before left there: every kind of item,
`.vlb` files that name a library and one that cannot be read, a destination that
ends in a slash, an item that has none and may not, and a name that does not
fit. `SysdepsBuild` has two modules, one with `custom` and one
without, because its races are between pairs; two probes with the header between them, so
that a run may be ahead of the other in one and behind in the other; two runs of each module, for
what an earlier run leaves; one failure anywhere, and one kill in
`build_killed`, which has one probe less and linkers that make their output
executable when it is done (with the others a killed linker does leave a file that
the next run takes for a probe; nothing in the repository promises otherwise). `CpuId` has sixteen compilers, most of which define the macros of
another, each on some two hundred processors: three vendors, with
and without each leaf, descriptors of every level, and bits everywhere (`Noise`) in the
answers to leaves that a processor does not have, the first extended leaf of one
that has none included; and, on a processor without cpuid, the macros of any two of
the types of sd-cctype together, which are over a thousand compilers. `CHECK_DEADLOCK FALSE`
everywhere: all these programs end.

Fairness. `FairSpec` of `SdLocker` assumes that the scheduler runs every
process and its child (weak fairness of each one's next step, lock grants
included, which is what F_SETLKW gives a lock that stays free) and that commands end. With
finitely many calls a lock is released finitely often, so weak fairness is
enough. `FairSpec` of `SysdepsBuild` assumes the same of the scripts, and that
the commands they call end; each module is executed finitely often. No failure
and no signal is fair: nothing has to go wrong.

Violations. Each of the four runs that must fail checks one sentence of the
repository the code does not keep; `findings` quotes it. The models also have
the following, which no run asks about.

* Loader: `NamesMatchPath` fails as soon as a key holds a dot (after
  `Table_Start` on a field t.y, `Table_End` leaves t in the name); `Table_Start`
  on something that is no table raises with the field left on the stack, where
  every other lookup pops first.
* Installer: an item whose owner cannot be looked up is an error that the exit
  status of instchk does not count; the check of a directory accepts a plain
  file; a copy of a destination whose name fills the buffer would write the
  destination itself, since the `.tmp` is cut off; a word in a `.vlb` file that
  fills the buffer makes `libname` write one character past it, and an empty
  file gives the name `.`. On Windows `iwin32_mkdir` returns -1 for a directory
  that exists, which makes an item for it an error; the identities of a copied
  link and the buffer of a failed lookup are lost; and `install_file_check`
  frees an owner that it could not get.
* Build: `FatalHasCause` is as weak as it is because sysdep-boot tests for the
  status directory and then makes it: of two first runs in parallel the later
  one stops the build. A module is marked as succeeded when the copy of its file
  fails, since the return code is that of the rm after it. A failure of sd-arch or
  of sd-cctype is fatal in the end, whatever its message says.
* Probes: the sizes of the L3 descriptors from 0xD0 on are bytes in a table of
  kilobytes, so that `sd-cpuidx86` prints 1024 times too much, or 0 with an
  `unsigned long` of 32 bits (`modules/sd-sysinfo/description.ud:29` shows 8 GB);
  a compiler other than GCC, MINGW32 and Sun C is taken to have no cpuid; GCC on
  IRIX is typed MIPSPRO, and Comeau's version is that of EDG, which
  `VersionIsOfType` excepts; `max_basic_param` is read and not looked at.

## Proofs

`LuaLoadProofs`, for every script, client and bound: `TypeCorrect`, the types;
`NamesCorrect`, that the name and its depth are the components added and not
removed, under `PlainLabels` (no key's text is empty or holds a dot), by
induction on the invariant itself, with lemmas on `Cut` and `Extend` (cutting at
the last dot undoes an extension by a plain component), without which it is
false; `DepthCorrect`, the half of `NamesCorrect` about `Name_Depth`.

`LuaClientProofs`, for every script and bound. `IsClient`: a careful client's
steps are steps of `LuaLoad`, whose theorems therefore hold of it.
`ClientIsDefined` (`NeverUndefined`) and `StackIsPath` (`StackMirrorsPath`),
whatever the keys are. The property is not inductive, for two reasons. An
exception on its way leaves values on the stack, and the code it reaches may
handle it only if a lookup raised it: the invariant `CInv` claims the stack where
client code runs and for such an exception (`Calm`), and claims always that each
running iteration is in the middle of its table and was called on a stack as it
should be (`Good`). And code inside an iteration must not take the components of
its callers: `Counted` keeps the names at least as long as they were at entry,
which the handler needs too, as it removes a component without looking which.
`LoopStep` is what one turn of the loop does when what lies below it is a table
and one of its keys. `IterationCompletes` (`IterationIsComplete`) and
`HandlerRestores` (`HandlerRestoresNames`), under `PlainLabels`: the invariant
adds that the names at each call are a beginning of the names now (`Within`), and
two names of the same length, one of them a beginning of the other, are equal
because the text is determined by the components. `ExceptionPath`
(`ExceptionLeavesPath`), under the same assumption: while an exception is on its
way, the names are those at the last call it has left and what it has counted
since (`ERest`); a step of `Process_Raises` adds the tables of one callback
and its entry, and takes one component, which is there to take because the names are at
least as long as at entry.

`SdLockerProofs`, for any number of processes and files, over either back end,
whatever fails and whoever is killed: `TypeCorrect`; `Exclusion`; `Refinement`,
that sd-locker implements `CommandLock`. `MutualExclusion` alone is not
inductive: the invariant adds `ChildOf` (what the child has done is what the
parent's control says: a command that is attended runs while its parent waits)
and `LockOf` (a process has its lock exactly between grant and release). No
exclusion is claimed for a command that was abandoned: the system drops the lock
of a killed sd-locker while its command goes on. From the same invariant:
`NoDeadlock`, that a process that waits for its lock waits for another that has
it, which waits for no lock itself; and `CallsAreBounded`, that a call and its
command are at most nine steps (`StepsLeft`), that every step of the system lowers
the number of one process and leaves those of the others alone. Together they are
what liveness adds fairness to. `ResultsOfCommands`: an exit code that is neither
failure nor a status of sd-locker's own is that of a command that was waited for
to its end (`ResultIsKnown`), and on Windows, where no command ends by a signal,
`SuccessIsTheCommands` holds: the violation of the run
`locker_signalled_command` is all there is of it.

`InstallerProofs`, for any items that do not share paths (`ItemsOK`), any file
system, failures and interruptions: `TypeCorrect`; `Replacement`, that every
destination is replaced in one step by a whole file with its mode, or removed.
The invariant adds `TmpReady` (from the chmod to the rename the temporary file
is what the item wants) and `PrefixInRange` (`install_rmkdir` looks at a prefix
of the item's directory, which is no destination). Replacing a file is one step
only because the rename is the only action that writes to a destination.

`InstallerRunProofs`, under the same assumptions and that paths are a tree
(`LayoutOK`: a temporary file is beside its destination, the prefixes of a
directory lead to it and none of them is a link): `StartsThere`
(`StartsAtTop`), since only the steps between the two changes of directory of
`inst_link` are elsewhere; and `OKIsDone` (`OKMeansDone`). The latter needs, in
addition to `TmpReady`, that what the running installer has reported so far is
done (`SoFar`, with the link that is made and not yet reported) and stays done:
no item's place is another's temporary file or prefix of a directory, and
install_rmkdir and symlink only make what is not there. It holds although the
result of mkdir is lost, because the chown after it fails without a directory
or, as the run `installer_mkdir` shows, succeeds on whatever has the name.

Three theorems relate two runs, and each has hypotheses about the items, which
those of `insthier.c` meet when they are installed into directories of their
own by root (`ItemsAreOrdered` checks them for the TLC instance):

- `CheckAgreesAlways` (`CheckAgrees`), for modes `iposix_file_get_mode` can
  return and links with the mode of what they lead to (`Checkable`). What
  instchk has reported so far (`CheckedSoFar`) is right because it changes
  nothing, so that what `OKMeansDone` says of the run before it is still true.
- `RecoversAlways` (`Recovers`), for items whose directories are made by earlier
  items, and a user that is privileged or whose new files are writable
  (`Recoverable`; with the 0444 of `lua-load.ali` another user meets the finding of
  the run `installer_retry` instead). `Kinds` says what can be where in a file system that earlier
  runs have left at any step: at a temporary path a file or nothing, at a link's a
  link or nothing, and an unprivileged user's leftovers can be opened again;
  `AtTop` says where the program is between its changes of directory, `Honest`
  that what it has reported is so. Then no call of a run can fail but for a
  reason of its own (`Recovered`), and a run without such failures reports every
  item OK and by `Honest` every item is done.
- `UndoesAlways` (`UndoesInstall`), for items that do not share places and where
  what goes into a directory comes from later items (`Undoable`).
  `InTree`: what is there has its directory above it. `Tidy`: an installation
  without error leaves no temporary file. `Undone`: the deinstaller, going down, has removed every later
  item, so that the directory it comes to is empty. The
  property excepts a file in the place of a directory into which nothing goes
  (`NoMistake`; `ctxt_dlibdir` is one in `insthier.c`): the installer reports it as a directory
  made, rmdir does not remove it, and `MistakeStays` says that it then stays.

`InstallItemsProofs`, for any items, names and lengths, on either system and in
each program (`ItemsOK` has only the types of the constants): `Releases`
(`IdsReleased`), from what each step of an operation says of its identities
(`IdsOfStep`); and `TypeCorrect`, of which the part to prove is that no name is
longer than the buffer it is written to, with every `snprintf` and `base_name`
of the translation. Under `Nameable` (what becomes the name of a file has a part
that is neither "/" nor "." and nothing but slashes after it, a link's name is
relative, and sanitizing leaves no slash in a suffix) `NamesAreMeant` (`NamesAsMeant`) and
`CopiesStayInside` (`StaysInDirectory`). The names are handed on in buffers that
the next item writes again; the invariant `Translated` says that from the end of the translation to the use of the names
the pointers of the item lead to what is meant, which each `ntran_*` is shown to
establish whatever the buffers held before (`CopyMeant`, `LinkMeant`,
`LiblinkMeant`). The lemmas on `base_name` rest on the last part that is no slash,
which is found as the least element of a set and not by induction over the
name. `WordsFit` (no word of a `.vlb` file fills the buffer) is assumed of
all of them; the hazard is listed without a property.

`SysdepsBuildProofs`, for any modules, probes and order of tasks in which a
probe is compiled before it is run, whatever fails and whichever runs are killed:
`TypeCorrect`; `ProbesStay` (`NeverRebuilt`); and `CompleteProbes`
(`CompleteWhenUsed`), when no run is killed or a linker makes its output
executable only when it is done. A probe is run under another lock than it is
linked under, so exclusion alone does not give it. The invariant adds
`HolderMatches` (a run in a command has the lock of its task), `LinkersOutput` and
`PartialIsOwned` (an incomplete executable file belongs to a linker that is at
work) and `BuiltSoFar` (the probes a run has been through are whole): the step
that needs all of it is the test of sd-compile, which takes an executable file for
a whole one because the only run that could still be writing it would hold the
lock. A killed linker leaves a file that belongs to nobody: the assumption is that
it is then not executable, and without it the theorem is false.

In the same module: `LockerThere` (`LockerExistsWhenUsed`): no run takes the common sd-locker away, and each run
looks for it before it uses it. `FatalIsCaused` (`FatalHasCause`): the invariant
says that a run that has ended is idle (`GoingOn`) and, as long as nothing has
failed, that the status directory comes from another run, which is not stopped
by it (`Quiet`), and that each run has the values of the probes it has run
(`ValuedSoFar`), without which the header would stop it. `StatusIsOfRun` (`StatusOfRun`), if neither the copy of a file
nor the writing of a status fails, which sysdep-mod-exec does not look at: what
is written before the end of a run is what it has found (`Recorded`), in the two
orders in which modules with and without `custom` do it.

About waiting: `WaitsEndAtWork` (`WaitsForWork`), by the invariant that a lock is
kept only by a run that is in a command of the task it is for (`LocksInUse`), so
that none outlives its command, its end or its death; and `RunsAreBounded`, that a
run is at most eight steps for each task and five more (`StepsLeft`, from the `Rank`
of the command it is at), that each step of a run lowers what it has left, also
when a command fails or the run is killed, and that only its next start raises it.
So no runs wait for each other, and one that is not waiting comes to its end in
so many steps. `AdaKnownAlone` (`AdaTypeKnown`), when there is one module and no run
is killed: the invariant `AdaKept` says that sd-adaversion.out is empty only
between the two halves of the `echo` of the one run there is. The run `build_ada` shows
that with two modules the property is false, so that this is where the line is.

`CpuIdProofs`, for any compilers and any processor, also one that answers noise to
leaves it does not have; the one assumption is that a register is four bytes
(`HostsOK`): `TypeCorrect`, `FeaturesAlways` (`FeaturesAreTheCpus`) and
`SizesAlways` (`SizesAreTheCpus`); and `VersionOfType` (below). The program hands what it has asked for from
step to step in global registers. The invariant says nothing of these but their
type, since each step asks again before it reads: it says which vendor leads to
which step (`Stages`), which leaves the flags and the sizes come from so far
(`Flags`, `AllSizes`), and that an answer is printed from all of them (`Final`).
For the sizes of an Intel processor `SearchedAt` says which byte of which
register is looked at, after registers with the high bit set are cleared. Then
a size that is found is that of a descriptor of the processor
(`FoundIsDescribed`), because neither the 0 of a cleared register nor the 1 that
is the number of rounds is in a table (`TablesTyped`), and a descriptor of the
processor is found (`DescribedIsFound`). As in the property, that is for
processors that ask for one round and, where `unsigned long` has 32 bits, for sizes that
fit it after the shift. The table is the code's own: the entries of it that are in bytes
(see above) are descriptors like the others here, and their sizes count as right.

`VersionOfType` (`VersionIsOfType`), for any set of macros, with no assumption:
what the type and the version do not agree on is named in the property, and is
nothing that is computed from the two lists. `Unversioned` are the types for which
sd-ccversion.c has no section. `Announced` says that a compiler defines the
macros that tell its type if and only if it defines those that tell its version,
for the ten types where the two programs ask for different ones. `Exchanged` are
the 21 pairs of types of which the two files have the sections in different
orders: CodeWarrior, which sd-cctype tests among the first and
sd-ccversion late, with seventeen others, IAR and IBM XL, Keil's CARM with
the other two of Keil, and PCC and Pelles C. The proof reduces both programs to the
greatest section that holds (`TypeDecided`, `VersionDecided`), and shows from the
contents of the lists that what tells a version tells its type
(`VersionsIncluded`, but for four types that `Announced` is for), that a type has no
version, or one told by the same macros, or is of those with a condition of their own
(`TypesKnown`), and that any pair in different orders is one of those
named (`ExchangedOnly`); so that the two greatest are of one name (`ListsAgree`). A pair missing from
`Exchanged`, a type missing from `Unversioned` or a section moved in either list
makes a lemma fail. That no exception is made without cause is for TLC:
`UnversionedAre` and `ExchangedDisagree`, evaluated by the run, say that a type excepted
has no section, and that a compiler that is both of an exchanged pair is given the type of the
one and the version of the other.

Only model-checked: the progress of sd-locker and of the build
(`EveryCallReturns`, `EveryRunEnds`), since liveness under fairness is out of the
prover's reach; their safety halves are the theorems about waiting and bounds above.
Of the four properties whose violation a run shows, `FailureIsReported` and
`DirectoriesAreMade` have no theorem that says where they do hold. No theorem is about a recursively
defined value.

## Plan

Done, in this order: the loader, sd-locker, the installer, the parallel build;
then the Windows back end of sd-locker and kills in its contract, the names and
identities of the installer, the probes of compiler and processor; theorems for
each; last, who waits for whom and for how long, what the two violated promises of
the build and of sd-locker still hold of, the version of the compiler, what an
exception leaves of the names, and the header the builds share. Left,
most important first:

1. The searches of sysdep-mod-exec in the order the files of a module ask for
   them, and `sysdeps.out` with the flags that are gathered from it.
2. The effects of the Windows back end on the file system, once there is a
   statement of what they should be.

## Not modelled

What the Windows back end of the installer does to files (modes, owners, links
as copies): nothing in the repository says what it should be there; only its
allocations and names are modelled. `install-error.c` is a table from error
codes to text. `lua-ada-load-conf.c`, the compile and link scripts, the scripts
of the SYSDEPS modules and `ctxt.h` are straight-line programs that print or run
one command; what can go wrong in them is text. Of the host probes: the digits
of a version (`sd-ccversion` decodes them, `hex_decode_tri` for one), the lists
of sd-os and sd-arch, which have the form of sd-cctype, and the scripts that ask
one command of the host. Of the installer: the messages, and the reading of
user and group numbers from text, which no program calls. The unit tests are used as evidence of what
a client does. The lua-ada binding, Lua, the compilers and the kernel are outside
the repository and modelled only as far as the code uses them.
