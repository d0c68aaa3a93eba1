---------------------------- MODULE MCInstaller ----------------------------
(* Two nested directories made by two items, a file in each, one of them     *)
(* read-only like lua-load.ali, a link to the other, and a directory that    *)
(* gets nothing inside, like ctxt_dlibdir.                                   *)
EXTENDS Installer

x755 == {"uw", "r", "x"}
x644 == {"uw", "r"}
x444 == {"r"}

MCBits == {"uw", "gw", "r", "x"}
MCSeen == {"uw", "r", "x"}
MCPaths == {"usr", "usr/inc", "usr/a", "usr/a.tmp", "usr/inc/b", "usr/inc/b.tmp", "usr/l",
            "usr/lib"}
MCParent == [p \in MCPaths |->
  CASE p = "usr" -> "/"
    [] p \in {"usr/inc", "usr/lib", "usr/a", "usr/a.tmp", "usr/l"} -> "usr"
    [] OTHER -> "usr/inc"]
MCPrefixes == [p \in MCPaths |-> IF p = "usr" THEN <<"usr">> ELSE <<"usr", p>>]
MCTmp == [d \in {"usr/a", "usr/inc/b"} |->
            IF d = "usr/a" THEN "usr/a.tmp" ELSE "usr/inc/b.tmp"]

Mkdir(d) == [op |-> "mkdir", dir |-> d, dst |-> "/", mode |-> x755, target |-> "/", named |-> FALSE]
Copy(d, f, m) == [op |-> "copy", dir |-> d, dst |-> f, mode |-> m, target |-> "/", named |-> FALSE]
Symlink(d, f, t) == [op |-> "link", dir |-> d, dst |-> f, mode |-> x644, target |-> t, named |-> FALSE]
Named(it) == [it EXCEPT !.named = TRUE]

MCinsthier == <<Mkdir("usr"), Mkdir("usr/inc"), Mkdir("usr/lib"), Copy("usr", "usr/a", x644),
                Symlink("usr", "usr/l", "usr/a"),
                Named(Copy("usr/inc", "usr/inc/b", x444))>>
\* The items of insthier.c have no links and name no owner.
MCplain == <<Mkdir("usr"), Mkdir("usr/inc"), Copy("usr", "usr/a", x644),
             Copy("usr/inc", "usr/inc/b", x444)>>
MCCreated == {"uw", "r", "gw"}

\* The items with a link are such that the theorems about several runs hold of
\* them; without it nothing says what is at usr/l.
ASSUME ItemsAreOrdered ==
  insthier = MCinsthier => Recoverable /\ Checkable /\ Undoable
============================================================================
