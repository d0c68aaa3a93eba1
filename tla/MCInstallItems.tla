--------------------------- MODULE MCInstallItems ---------------------------
(* Items of every kind, with and without a destination, a path in it and a   *)
(* slash at its end; libraries named by .vlb files, one of which cannot be   *)
(* read; an item without its destination and a name that does not fit.       *)
EXTENDS InstallItems

MCParts == {"/", ".", ".exe", ".vlb", ".ads", ".ali", ".a", ".so", "usr", "inc", "lua", "load",
            "lib", "slib", "bin", "conf", "libload", "libv", "libv1", "libv2", "v1", "v2", "v3",
            "so", "newline"}
D    == <<"usr", "/", "inc">>
Deep == <<"usr", "/", "inc", "/", "lua", "/", "load">>
Vlb1 == <<"lib", "/", "v1", ".vlb">>
Vlb2 == <<"v2", ".vlb">>
MCSosuffix == <<"so", "newline">>
MCWords == [n \in {Vlb1, Vlb2} |->
  IF n = Vlb1 THEN <<"lib", "/", "libv1", ".so">> ELSE <<"libv2", ".so">>]

Item(op, src, dst, dir) == [op |-> op, src |-> src, dst |-> dst, dir |-> dir]
MCItems == {
  Item("copy", <<"load", ".ads">>, Missing, D),
  Item("copy", Vlb1, Vlb2, D),
  Item("copy", <<"load", ".a">>, <<"slib", "/", "libload", ".a", "/">>, D),
  Item("copy", <<"load", ".ali">>, Missing, Deep),
  Item("copy", <<"v3", ".vlb">>, Missing, D),
  Item("exec", <<"bin", "/", "conf">>, Missing, D),
  Item("link", <<"libv1", ".so">>, <<"libv", ".so">>, D),
  Item("liblink", Vlb1, <<"slib", "/", "libv">>, D),
  Item("liblink", Vlb2, Missing, D),
  Item("mkdir", Missing, Missing, D)}

\* The theorems about names hold of these items.
ASSUME NamesOK == Nameable
============================================================================
