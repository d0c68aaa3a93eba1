---------------------------- MODULE InstallItems ----------------------------
(***************************************************************************)
(* What one program of the installer does in memory, item by item, with    *)
(* either back end (install-posix.c or install-win32.c): the names of an   *)
(* item are translated by ntran_*, through static buffers that the next    *)
(* item writes again, and the owner and the group it is installed or       *)
(* checked with are looked up, used and freed.  What is done to the file   *)
(* system is Installer's; here it only succeeds or fails.                  *)
(***************************************************************************)
EXTENDS Naturals, Sequences

CONSTANTS
  Parts,     \* the texts a name is made of
  Items,     \* the items to choose from: records op, src, dst, dir of Names
  Missing,   \* no name: a null pointer in an item
  Words,     \* what libname reads: [names of .vlb files -> Names]
  Sosuffix,  \* what conf-sosuffix holds, a Name
  Clean,     \* the parts of it that are letters, digits and dots
  MaxPath,   \* INSTALL_MAX_PATHLEN, in parts of a name
  MaxItems   \* bound on the number of items of a program

\* A name is the sequence of its parts: "/", the texts between them, suffixes.
\* Words are shorter than the buffers: libname writes past a full one.
ASSUME WordsFit == \A n \in DOMAIN Words : Len(Words[n]) < MaxPath

Names == Seq(Parts)
Ops   == {"copy", "exec", "mkdir", "link", "liblink"}
ASSUME ItemsOK ==
  /\ {"/", ".", ".exe", ".vlb"} \subseteq Parts
  /\ Items \subseteq [op : Ops, src : Names \cup {Missing}, dst : Names \cup {Missing}, dir : Names]
  /\ Missing \notin Names
  /\ Words \in [DOMAIN Words -> Names] /\ Sosuffix \in Names
  /\ MaxPath \in Nat \ {0, 1} /\ MaxItems \in Nat

VARIABLES
  env,     \* os, program and INSTALL_DRYRUN, fixed
  todo,    \* the items not begun
  it,      \* the item in hand
  m,       \* its pointers src and dst, and all static buffers
  step,    \* where its operation is
  ids,     \* the identities it has looked up
  leaked,  \* identities that went out of scope allocated
  used     \* the names its operation has used: source and target

vars == <<env, todo, it, m, step, ids, leaked, used>>

----------------------------------------------------------------------------
(* Names *)

Latest(S) == CHOOSE k \in S : \A j \in S : j <= k
Join(d, n) == d \o <<"/">> \o n
\* A name that does not fit is cut, and nobody looks at the length.
snprintf_Uncut(n) == n   \* mutant
snprintf(n) == IF Len(n) < MaxPath THEN n ELSE SubSeq(n, 1, MaxPath - 1)

\* The last part of a path, without slashes (mutant: those at the end stay).
base_name_Slash(n) ==
  IF n = <<>> THEN <<".">>
  ELSE SubSeq(n, Latest({0} \cup {k \in 1..Len(n) : n[k] = "/"}) + 1, Len(n))
base_name(n) ==
  LET ends == {k \in 1..Len(n) : n[k] # "/"}
      t    == Latest(ends)
  IN IF n = <<>> THEN <<".">>
     ELSE IF ends = {} THEN <<"/">>
     ELSE SubSeq(n, Latest({0} \cup {k \in 1..t : n[k] = "/"}) + 1, t)

str_ends(n, end) == n # <<>> /\ n[Len(n)] = end

\* The value of ins->src or ins->dst; a null pointer is a buffer of its own.
At(r, f) == r.buf[r[f]]
\* Name n goes into static buffer b, and ins->f to it; every ntran_* returns
\* at its first failure, and writes nothing after it.
Set(r, f, b, n) == IF r.ok THEN [r EXCEPT !.buf[b] = n, ![f] = b] ELSE r
Require(r, cond) == [r EXCEPT !.ok = @ /\ cond]

\* A name of a .vlb file stands for the first word in it.
Library(r, f, b) ==
  IF ~str_ends(At(r, f), ".vlb") THEN r
  ELSE IF At(r, f) \in DOMAIN Words THEN Set(r, f, b, Words[At(r, f)])
  ELSE Require(r, FALSE)

BaseName(r, f) ==
  IF Len(At(r, f)) < MaxPath THEN Set(r, f, "base_name.path_buf", base_name(At(r, f)))
  ELSE Require(r, FALSE)

Defined(r, f) == r[f] # "null"
ItemDefaults(r) == IF Defined(r, "dst") THEN r ELSE [r EXCEPT !.dst = r.src]

\* Mutant: the copy of a library's name shares a buffer with its destination's.
ntran_copy_Shared(r, dir) ==
  LET r1 == ItemDefaults(Require(r, Defined(r, "src")))
      r2 == Library(r1, "src", "ntran_copy.dst_name")
      r3 == BaseName(Library(r2, "dst", "ntran_copy.dst_name"), "dst")
  IN Set(r3, "dst", "ntran_copy.dst_tmp", snprintf(Join(dir, At(r3, "dst"))))
ntran_copy(r, dir) ==
  LET r1 == ItemDefaults(Require(r, Defined(r, "src")))
      r2 == Library(r1, "src", "ntran_copy.src_name")
      r3 == BaseName(Library(r2, "dst", "ntran_copy.dst_name"), "dst")
  IN Set(r3, "dst", "ntran_copy.dst_tmp", snprintf(Join(dir, At(r3, "dst"))))

\* install_suffix_sanitize cuts the suffix at what does not belong in a name.
install_suffix_sanitize(n) ==
  LET bad == {k \in 1..Len(n) : n[k] \notin Clean}
  IN SubSeq(n, 1, IF bad = {} THEN Len(n) ELSE (CHOOSE k \in bad : \A j \in bad : k <= j) - 1)
inst_dlib_suffix == <<".">> \o install_suffix_sanitize(Sosuffix)

\* iposix_install_init, iwin32_install_init
inst_exec_suffix == IF env.os = "win32" THEN <<".exe">> ELSE <<>>

ntran_copy_exec(r, dir) ==
  LET r1 == ntran_copy(r, dir)
      r2 == Set(r1, "src", "ntran_copy_exec.src_name", snprintf(At(r1, "src") \o inst_exec_suffix))
  IN Set(r2, "dst", "ntran_copy_exec.dst_name", snprintf(At(r1, "dst") \o inst_exec_suffix))

ntran_link(r, dir) == Require(r, Defined(r, "src") /\ Defined(r, "dst"))

\* base_name twice: its first result is copied out of its buffer.
ntran_liblink(r, dir) ==
  LET r0 == ntran_link(r, dir)
      r1 == BaseName(Library(r0, "src", "ntran_liblink.src_tmp"), "src")
      r2 == IF str_ends(At(r0, "src"), ".vlb")
              THEN Set(r1, "src", "ntran_liblink.src_name", At(r1, "src")) ELSE r0
      r3 == BaseName(r2, "dst")
  IN Set(r3, "dst", "ntran_liblink.dst_tmp", snprintf(At(r3, "dst") \o inst_dlib_suffix))

ntran_mkdir(r, dir) == ItemDefaults(r)

ntran_chk_link(r, dir) ==
  LET r1 == ntran_link(r, dir)
  IN Set(r1, "dst", "ntran_chk_link.dst_name", snprintf(Join(dir, At(r1, "dst"))))

ntran_chk_liblink(r, dir) ==
  LET r1 == ntran_liblink(r, dir)
  IN Set(r1, "dst", "ntran_chk_liblink.dst_name", snprintf(Join(dir, At(r1, "dst"))))

\* install_opers, instchk_opers, deinst_opers
trans(r, i) ==
  CASE i.op = "copy" -> ntran_copy(r, i.dir)
    [] i.op = "exec" -> ntran_copy_exec(r, i.dir)
    [] i.op = "mkdir" -> ntran_mkdir(r, i.dir)
    [] i.op = "link" -> IF env.prog = "instchk" THEN ntran_chk_link(r, i.dir)
                        ELSE ntran_link(r, i.dir)
    [] i.op = "liblink" -> IF env.prog = "instchk" THEN ntran_chk_liblink(r, i.dir)
                           ELSE ntran_liblink(r, i.dir)

\* The path an operation touches: inst_link changes to ins->dir and uses
\* ins->dst there, deinst_link joins the two.
deinst_link(d, n) == snprintf(Join(d, n))
From(d, n) == IF n # <<>> /\ n[1] = "/" THEN n ELSE Join(d, n)
Target ==
  IF it.op = "mkdir" THEN it.dir
  ELSE IF it.op \in {"copy", "exec"} \/ env.prog = "instchk" THEN At(m, "dst")
  ELSE IF env.prog = "installer" THEN From(it.dir, At(m, "dst"))
  ELSE deinst_link(it.dir, At(m, "dst"))

----------------------------------------------------------------------------
(* Identities: numbers on POSIX, allocated on Windows *)

Ids == {"uid", "gid", "uid_got", "gid_got", "link uid", "link gid"}
Unset == [i \in Ids |-> "unset"]
Looked(v, S) == [i \in Ids |-> IF i \notin S THEN v[i]
                               ELSE IF env.os = "win32" THEN "live" ELSE "number"]
\* free of an identity that was never set, or is freed already, is undefined.
FreeUndefined(v, S) == env.os = "win32" /\ \E i \in S : v[i] # "live"
Freed(v, S) == [i \in Ids |-> IF i \in S /\ env.os = "win32" THEN "freed" ELSE v[i]]

\* The operation returns with identities v; after FATAL main stops.
Returns(v, lost, fatal) ==
  /\ step' = "next" /\ ids' = Unset
  /\ leaked' = leaked \cup lost \cup {i \in Ids : v[i] = "live"}
  /\ todo' = IF fatal THEN <<>> ELSE todo
  /\ UNCHANGED <<env, it, m>>

Goto(s, v) == step' = s /\ ids' = v /\ UNCHANGED <<env, todo, it, m, leaked>>

\* install, install_check, deinstall: the translation.
Translate ==
  /\ step = "next" /\ todo # <<>>
  /\ it' = Head(todo)
  /\ LET Pointer(f, b) == IF Head(todo)[f] = Missing THEN "null" ELSE b
         Name(f) == IF Head(todo)[f] = Missing THEN <<>> ELSE Head(todo)[f]
         r == trans([src |-> Pointer("src", "item.src"), dst |-> Pointer("dst", "item.dst"),
                     buf |-> [m.buf EXCEPT !["item.src"] = Name("src"), !["item.dst"] = Name("dst")],
                     ok |-> TRUE], Head(todo))
     IN /\ m' = r
        /\ step' = IF r.ok THEN "uid" ELSE "next"
        /\ todo' = IF r.ok THEN Tail(todo) ELSE <<>>
  /\ UNCHANGED <<env, ids, leaked, used>>

\* instchk_* and inst_copy, inst_mkdir look the two up first.
LooksUp == env.prog = "instchk" \/ (env.prog = "installer" /\ it.op \in {"copy", "exec", "mkdir"})

\* install_uidgid_lookup.  iwin32_get_sid loses its buffer when the account is
\* not known.
SidLost == IF env.os = "win32" THEN {{}, {"sid"}} ELSE {{}}
LookupUser ==
  /\ step = "uid" /\ LooksUp /\ UNCHANGED used
  /\ \/ Goto("gid", Looked(ids, {"uid"}))
     \/ \E lost \in SidLost : Returns(ids, lost, FALSE)

\* Mutant: the user found before is not freed.
GroupUnknown_Kept(v) == v
GroupUnknown(v) == Freed(v, {"uid"})
LookupGroup ==
  /\ step = "gid" /\ UNCHANGED used
  /\ \/ Goto("act", Looked(ids, {"gid"}))
     \/ \E lost \in SidLost : Returns(GroupUnknown(ids), lost, FALSE)

Uses == used' = [src |-> At(m, "src"), target |-> Target]

\* inst_copy, inst_mkdir: whatever comes of it, to the label END.
Install ==
  /\ step = "act" /\ env.prog = "installer" /\ Uses
  /\ Goto("free", ids)

\* iwin32_file_get_owner and iwin32_file_get_group: a failure leaves what it
\* should have set as it was.
GotOwnership == {{}, {"uid_got"}, {"uid_got", "gid_got"}}

\* install_file_check: it returns before the owner is asked for, or frees at END
\* what it got, and what it did not get.
Check ==
  /\ step = "act" /\ env.prog = "instchk" /\ Uses
  /\ \/ Goto("free", ids)
     \/ \E got \in GotOwnership :
          LET v == Looked(ids, got) IN
          IF FreeUndefined(v, {"uid_got", "gid_got"}) THEN Goto("undefined", v)
          ELSE Goto("free", Freed(v, {"uid_got", "gid_got"}))

\* The end of inst_copy, inst_mkdir, instchk_*.
FreeIds ==
  /\ step = "free" /\ UNCHANGED used
  /\ IF FreeUndefined(ids, {"uid", "gid"}) THEN Goto("undefined", ids)
     ELSE Returns(Freed(ids, {"uid", "gid"}), {}, FALSE)

\* inst_link: iwin32_file_link makes a copy with the identities of the source,
\* and never frees them; a directory that cannot be restored is fatal.
Link ==
  /\ step = "uid" /\ ~LooksUp /\ env.prog = "installer" /\ Uses
  /\ \E got \in {{}, {"link uid"}, {"link uid", "link gid"}}, fatal \in BOOLEAN :
       /\ env.dry => got = {}
       /\ Returns(Looked(ids, got), {}, fatal)

\* deinst_copy, deinst_mkdir, deinst_link look nothing up.
Deinstall ==
  /\ step = "uid" /\ env.prog = "deinstaller" /\ Uses
  /\ Returns(ids, {}, FALSE)

----------------------------------------------------------------------------
Buffers == {"null", "item.src", "item.dst", "base_name.path_buf",
            "ntran_copy.src_name", "ntran_copy.dst_name", "ntran_copy.dst_tmp",
            "ntran_copy_exec.src_name", "ntran_copy_exec.dst_name",
            "ntran_liblink.src_tmp", "ntran_liblink.src_name", "ntran_liblink.dst_tmp",
            "ntran_chk_link.dst_name", "ntran_chk_liblink.dst_name"}
Nothing == [src |-> <<>>, target |-> <<>>]

Init ==
  /\ env \in [os : {"posix", "win32"}, prog : {"installer", "instchk", "deinstaller"},
              dry : BOOLEAN]
  /\ env.prog = "instchk" => ~env.dry
  /\ \E k \in 1..MaxItems : todo \in [1..k -> Items]
  /\ it = todo[1]
  /\ m = [src |-> "null", dst |-> "null", buf |-> [b \in Buffers |-> <<>>], ok |-> TRUE]
  /\ step = "next" /\ ids = Unset /\ leaked = {} /\ used = Nothing

Next == \/ Translate \/ LookupUser \/ LookupGroup
        \/ Install \/ Check \/ FreeIds \/ Link \/ Deinstall

Spec == Init /\ [][Next]_vars

----------------------------------------------------------------------------
(* Properties *)

\* The type of every variable.
TypeOK ==
  /\ env.os \in {"posix", "win32"} /\ env.prog \in {"installer", "instchk", "deinstaller"}
  /\ Len(todo) <= MaxItems /\ it \in Items
  /\ m.src \in Buffers /\ m.dst \in Buffers /\ DOMAIN m.buf = Buffers
  /\ step \in {"next", "uid", "gid", "act", "free", "undefined"}
  /\ ids \in [Ids -> {"unset", "number", "live", "freed"}]
  /\ leaked \subseteq Ids \cup {"sid"}
  /\ \A b \in Buffers \ {"item.src", "item.dst"} : Len(m.buf[b]) < MaxPath

\* The names of an item, said without buffers and for the three programs alike.
Meant(i) ==
  LET Read(n) == IF str_ends(n, ".vlb") THEN Words[n] ELSE n
      dst == IF i.dst = Missing THEN i.src ELSE i.dst
      suffix == IF i.op = "exec" THEN inst_exec_suffix ELSE <<>>
  IN CASE i.op \in {"copy", "exec"} ->
            [src |-> Read(i.src) \o suffix, target |-> Join(i.dir, base_name(Read(dst))) \o suffix]
       [] i.op = "link" -> [src |-> i.src, target |-> Join(i.dir, i.dst)]
       [] i.op = "liblink" ->
            [src |-> IF str_ends(i.src, ".vlb") THEN base_name(Words[i.src]) ELSE i.src,
             target |-> Join(i.dir, base_name(i.dst)) \o inst_dlib_suffix]
       [] i.op = "mkdir" -> [src |-> IF i.src = Missing THEN <<>> ELSE i.src, target |-> i.dir]

Fits(n) == Len(n) < MaxPath

\* For the two below: what comes to be the name of a file does not end in a
\* directory, a link's name is relative, and a suffix has no slash.
NamesAFile(n) == \E k \in 1..Len(n) : n[k] \notin {"/", "."} /\ \A j \in (k + 1)..Len(n) : n[j] = "/"
Nameable ==
  /\ "/" \notin Clean
  /\ \A n \in DOMAIN Words : NamesAFile(Words[n])
  /\ \A i \in Items :
       LET dst == IF i.dst = Missing /\ i.op # "liblink" THEN i.src ELSE i.dst IN
       CASE i.op \in {"copy", "exec"} ->
              dst # Missing /\ ~str_ends(dst, ".vlb") => NamesAFile(dst)
         [] i.op = "liblink" -> dst # Missing => NamesAFile(dst)
         [] i.op = "link" -> i.dst # Missing /\ i.dst # <<>> => i.dst[1] # "/"
         [] OTHER -> TRUE

\* Each operation uses the names of its own item, whatever items were before it
\* and whichever of the three programs it is, so that what is checked and
\* removed is what was installed; names that fit the buffers (install_opers,
\* instchk_opers, deinst_opers over ntran_*).
NamesAsMeant ==
  [][(used' # used /\ Fits(Meant(it).src) /\ Fits(Meant(it).target)) =>
       used' = Meant(it)]_vars

\* A copy goes into the directory of its item, under one part of a name: not
\* into the directory's place, and not past it (base_name in ntran_copy).
StaysInDirectory ==
  [][(used' # used /\ it.op \in {"copy", "exec", "liblink"} /\ Fits(Meant(it).target)) =>
       LET n == SubSeq(used'.target, Len(it.dir) + 2, Len(used'.target))
       IN /\ SubSeq(used'.target, 1, Len(it.dir) + 1) = it.dir \o <<"/">>
          /\ n \notin {<<>>, <<".">>} /\ \A k \in 1..Len(n) : n[k] # "/"]_vars

\* Every identity install_uidgid_lookup and install_file_check got is freed, once,
\* on every way out; what is lost are the buffers of failed lookups and the
\* identities of a copied link, and what is undefined is the free of an owner
\* that install_file_check could not get, on Windows.
IdsReleased ==
  /\ leaked \subseteq {"sid", "link uid", "link gid"}
  /\ step = "undefined" =>
       /\ env.os = "win32" /\ env.prog = "instchk"
       /\ ids["gid_got"] = "unset" /\ ids["uid"] = "live" /\ ids["gid"] = "live"
============================================================================
