------------------------------ MODULE MCCpuId ------------------------------
EXTENDS CpuId

\* The macros of compilers that stand in for others, or are built on them.
MCCompilers ==
  {{"__GNUC__"}, {"__GNUC__", "__llvm__"}, {"__GNUC__", "__INTEL_COMPILER", "__ICC"},
   {"__GNUC__", "__MINGW32__"}, {"__GNUC__", "__PATHCC__"}, {"__GNUC__", "__DJGPP__"},
   {"__GNUC__", "__PCC__"}, {"__EDG__", "__COMO__", "__COMO_VERSION__"},
   {"__GNUC__", "__sgi"}, {"__sgi", "_COMPILER_VERSION"}, {"__EDG__", "__HP_aCC"},
   {"__xlC__", "__IBMCPP__"}, {"__SUNPRO_C"}, {"__TINYC__"}, {"__WATCOMC__"}, {"_FUTURE"}}

None == <<0, 0, 0, 0>>
Regs(a, b, c, d) == [eax |-> a, ebx |-> b, ecx |-> c, edx |-> d]

\* Answers to a leaf the processor does not have: of another leaf, with all bits.
Noise == Regs(<<127, 6, 10, 1>>, <<33, 34, 6, 10>>, <<255, 255, 255, 255>>, <<255, 255, 255, 255>>)

Vendors == {vendors.intel, vendors.amd, <<105, 114, 121, 67>>}
InfoAnswers == {Regs(None, None, None, <<0, 128, 0, 0>>),
                Regs(None, None, <<0, 24, 0, 1>>, <<6, 128, 0, 0>>)}
\* An L1 pair and an L2; an L3 in kilobytes; one in bytes; one register invalid.
CacheAnswers == {Regs(<<6, 0, 10, 1>>, <<0, 33, 0, 0>>, None, None),
                 Regs(<<0, 0, 0, 1>>, <<0, 34, 67, 66>>, None, <<0, 0, 44, 48>>),
                 Regs(<<0, 0, 44, 1>>, <<0, 96, 0, 125>>, <<0, 216, 0, 0>>, None),
                 Regs(<<0, 0, 0, 1>>, <<128, 6, 10, 33>>, <<0, 0, 8, 0>>, <<0, 9, 0, 0>>)}
ExtMax == {None, Ext(1), Ext(5), Ext(8)}
ExtAnswers == {Regs(None, None, None, <<192, 192, 0, 0>>), Regs(None, None, None, None)}
L1 == Regs(None, None, <<64, 2, 1, 64>>, <<32, 2, 1, 64>>)
L2 == Regs(None, None, <<16, 0, 129, 64>>, None)

MCCpus ==
  {[has_cpuid |-> TRUE,
    leaf |-> [basic |-> Regs(<<0, 0, 0, basic>>, id, None, None), info |-> info,
              cache |-> IF basic >= 2 THEN cache ELSE Noise,
              ext |-> IF max = None THEN Noise ELSE Regs(max, None, None, None),
              alt |-> Noise,
              ext_info |-> IF AtLeast(max, Ext(1)) THEN ext ELSE Noise,
              l1 |-> IF AtLeast(max, Ext(5)) THEN L1 ELSE Noise,
              l2 |-> IF AtLeast(max, Ext(6)) THEN L2 ELSE Noise]] :
    basic \in {1, 2}, id \in Vendors, info \in InfoAnswers, cache \in CacheAnswers,
    max \in ExtMax, ext \in ExtAnswers}
  \cup {[has_cpuid |-> FALSE, leaf |-> [l \in Leaves |-> Noise]]}

\* Any two types: the macros of both, but for the one that Compaq's C and C++ share
\* and the second of MIPSpro's two versions.
MacrosOf(type) ==
  UNION ({CcTypes[j][2] : j \in {j \in 1..Len(CcTypes) : CcTypes[j][1] = type}}
         \cup {CcVersions[k][2] : k \in {k \in 1..Len(CcVersions) : CcVersions[k][1] = type}})
Both(p) == ((MacrosOf(p[1]) \cup MacrosOf(p[2])) \ {"__VAXC", "VAXC"})
           \cup {m \in {"_SGI_COMPILER_VERSION"} : "MIPSPRO" \in {p[1], p[2]}}
TypeNames == {CcTypes[j][1] : j \in 1..Len(CcTypes)}

MCHosts ==
  [cc : MCCompilers, processor : MCCpus]
  \cup [cc : {Both(p) : p \in TypeNames \X TypeNames},
        processor : {[has_cpuid |-> FALSE, leaf |-> [l \in Leaves |-> Noise]]}]

ASSUME UnversionedAre ==
  Unversioned = TypeNames \ {CcVersions[k][1] : k \in 1..Len(CcVersions)}

\* An exchanged pair is one on which the lists disagree, as announced as it is: no
\* pair is excepted without cause.
ASSUME ExchangedDisagree ==
  \A p \in Exchanged :
    /\ Announced(Both(p)) /\ sd_cctype(Both(p)) = p[2]
    /\ CcVersions[LastOf(VersionSections(Both(p)))][1] = p[1]
============================================================================
