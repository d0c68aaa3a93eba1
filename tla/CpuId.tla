------------------------------- MODULE CpuId --------------------------------
(***************************************************************************)
(* How a build learns what its processor has: sd-cctype and sd-ccversion   *)
(* are run, their answer and that of sd-arch are compiled into             *)
(* sd-cpuidx86, which fills one structure and four global registers from   *)
(* one cpuid instruction after another and prints the answer to one name.  *)
(* A register is the sequence of its bytes, the most significant first.    *)
(***************************************************************************)
EXTENDS CcProbes

CONSTANT
  Hosts   \* a compiler, the macros it defines, and a processor: its leaves

VARIABLES
  cc,        \* the macros of the compiler
  arch,      \* what sd-arch has printed
  probed,    \* what sd-cctype and sd-ccversion have printed
  processor, \* the processor it runs on
  pc,        \* where the program is
  regs,      \* static uint32_t eax, ebx, ecx, edx
  cpu,       \* static struct cpu_info cpu
  out        \* the name asked for and the number printed

vars == <<cc, arch, probed, processor, pc, regs, cpu, out>>

Leaves == {"basic", "info", "cache", "ext", "alt", "ext_info", "l1", "l2"}
Features == {"mmx", "mmx2", "3dnow", "3dnowext", "sse", "sse2", "sse3", "sse4.1", "sse4.2"}
Sizes == {"l1icachesize", "l1dcachesize", "l2cachesize", "l3cachesize"}
Names == Features \cup Sizes \cup {"cacheline"}
NotAName == "other"

Bytes     == 0..255
Words     == [1..4 -> Bytes]
Registers == [eax : Words, ebx : Words, ecx : Words, edx : Words]
ASSUME HostsOK ==
  \A h \in Hosts : h.processor \in [has_cpuid : BOOLEAN, leaf : [Leaves -> Registers]]

----------------------------------------------------------------------------
(* Registers *)

Bit(r, i) == (r[4 - i \div 8] \div 2^(i % 8)) % 2 = 1
AtLeast(r, s) == \A k \in 1..4 : r[k] < s[k] => \E j \in 1..(k - 1) : r[j] > s[j]
Ext(k) == <<128, 0, 0, k>>
cpuid(leaf) == processor.leaf[leaf]

\* <<val, size, line>>: sizes in kilobytes, but those of the second half of L3.
intel_L1i_caches ==
  {<<6, 8, 32>>, <<8, 16, 32>>, <<9, 32, 64>>, <<21, 16, 32>>, <<48, 32, 64>>, <<119, 16, 64>>}
intel_L1d_caches ==
  {<<10, 8, 32>>, <<12, 16, 32>>, <<13, 16, 64>>, <<16, 16, 32>>, <<44, 32, 64>>,
   <<96, 16, 64>>, <<102, 8, 64>>, <<103, 16, 64>>, <<104, 32, 64>>}
intel_L2_caches ==
  {<<33, 256, 64>>, <<57, 128, 64>>, <<58, 192, 64>>, <<59, 128, 64>>, <<60, 256, 64>>,
   <<61, 384, 64>>, <<62, 512, 64>>, <<65, 128, 32>>, <<66, 256, 32>>, <<67, 512, 32>>,
   <<68, 1024, 32>>, <<69, 2048, 32>>, <<72, 3072, 64>>, <<73, 4096, 64>>, <<78, 6144, 64>>,
   <<120, 1024, 64>>, <<121, 128, 64>>, <<122, 256, 64>>, <<123, 512, 64>>, <<124, 1024, 64>>,
   <<125, 2048, 64>>, <<127, 512, 64>>, <<130, 256, 32>>, <<131, 512, 32>>, <<132, 1024, 32>>,
   <<133, 2048, 32>>, <<134, 512, 64>>, <<135, 1024, 64>>}
intel_L3_caches ==
  {<<34, 512, 64>>, <<35, 1024, 64>>, <<37, 2048, 64>>, <<41, 4096, 64>>,
   <<208, 524288, 64>>, <<209, 1048576, 64>>, <<210, 2097152, 64>>, <<214, 1048576, 64>>,
   <<215, 2097152, 64>>, <<216, 8388608, 64>>, <<220, 1572864, 64>>, <<221, 3145728, 64>>,
   <<222, 6291456, 64>>, <<226, 2097152, 64>>, <<227, 4194304, 64>>, <<228, 8388608, 64>>,
   <<234, 12582912, 64>>, <<235, 18874368, 64>>, <<236, 25165824, 64>>}

vendors == [intel |-> <<117, 110, 101, 71>>, amd |-> <<104, 116, 117, 65>>]

\* The Intel bits; MMX2 and SSE have one.
InfoBits(r) ==
  {f \in {"mmx"} : Bit(r.edx, 23)} \cup {f \in {"mmx2", "sse"} : Bit(r.edx, 25)}
  \cup {f \in {"sse2"} : Bit(r.edx, 26)} \cup {f \in {"sse3"} : Bit(r.ecx, 0)}
  \cup {f \in {"sse4.1"} : Bit(r.ecx, 19)} \cup {f \in {"sse4.2"} : Bit(r.ecx, 20)}
ExtBits(r) ==
  {f \in {"mmx"} : Bit(r.edx, 23)} \cup {f \in {"mmx2"} : Bit(r.edx, 22)}
  \cup {f \in {"3dnow"} : Bit(r.edx, 31)} \cup {f \in {"3dnowext"} : Bit(r.edx, 30)}

----------------------------------------------------------------------------
(* The steps *)

Goto(p) == pc' = p /\ UNCHANGED <<cc, arch, processor>>

\* sysdep-system: sd-cctype, sd-ccversion, then the header of sd-cpuidx86.
ProbeCompiler ==
  /\ pc = "probe" /\ Goto("support")
  /\ probed' = [type |-> sd_cctype(cc), version |-> sd_ccversion(cc)]
  /\ UNCHANGED <<regs, cpu, out>>

\* On X86_64 it is assumed; with Sun C the variables compared are not those the
\* instructions write.
Support ==
  CASE arch = "X86_64" /\ probed.type \in {"GCC", "MINGW32"} -> {TRUE}
    [] arch = "X86" /\ probed.type \in {"GCC", "MINGW32"} -> {processor.has_cpuid}
    [] arch = "X86" /\ probed.type = "SUN_C" -> BOOLEAN
    [] OTHER -> {FALSE}

cpuid_check_support ==
  /\ pc = "support"
  /\ \/ TRUE \in Support /\ Goto("max") /\ UNCHANGED out
     \/ /\ FALSE \in Support /\ Goto("done")
        /\ \E name \in Names \cup {NotAName} : out' = [name |-> name, value |-> 0]
  /\ UNCHANGED <<probed, regs, cpu>>

\* main: the highest parameters; those of leaf 0 are not looked at again.
MaxParams ==
  /\ pc = "max" /\ Goto("vendor")
  /\ cpu' = [cpu EXCEPT !.max_extended_param = cpuid("ext").eax]
  /\ regs' = cpuid("alt") /\ UNCHANGED <<probed, out>>

cpu_detect_vendor ==
  /\ pc = "vendor"
  /\ regs' = cpuid("basic")
  /\ LET known == {v \in DOMAIN vendors : vendors[v] = regs'.ebx}
     IN Goto(IF known = {} THEN "common" ELSE CHOOSE v \in known : TRUE)
  /\ UNCHANGED <<probed, cpu, out>>

cpu_vendor_intel ==
  /\ pc = "intel" /\ Goto("l1i")
  /\ regs' = cpuid("info")
  /\ cpu' = [cpu EXCEPT !.flags = @ \cup InfoBits(regs')]
  /\ UNCHANGED <<probed, out>>

\* A register with bit 31 set holds no descriptors (mutant: it is read too).
Valid_All(r) == r
Valid(r) == IF Bit(r, 31) THEN <<0, 0, 0, 0>> ELSE r
\* The bytes searched, in order; eax has the number of rounds in its last.
Searched == LET r == cpuid("cache")
            IN Valid(r.eax) \o Valid(r.ebx) \o Valid(r.ecx) \o Valid(r.edx)
cpu_check_cache_list(ctab, b) == {c \in ctab : c[1] = b}

cpu_cache_size(here, ctab, field, next) ==
  /\ pc = here /\ Goto(next)
  /\ LET hits == {k \in 1..16 : cpu_check_cache_list(ctab, Searched[k]) # {}}
         k == CHOOSE k \in hits : \A j \in hits : k <= j
         c == CHOOSE c \in cpu_check_cache_list(ctab, Searched[k]) : TRUE
     IN cpu' = IF cpuid("cache").eax[4] = 0 \/ hits = {} THEN cpu
               ELSE [cpu EXCEPT ![field] = c[2], !.cacheline = c[3]]
  /\ UNCHANGED <<probed, regs, out>>

CacheSizes ==
  \/ cpu_cache_size("l1i", intel_L1i_caches, "l1icachesize", "l1d")
  \/ cpu_cache_size("l1d", intel_L1d_caches, "l1dcachesize", "l2")
  \/ cpu_cache_size("l2", intel_L2_caches, "l2cachesize", "l3")
  \/ cpu_cache_size("l3", intel_L3_caches, "l3cachesize", "common")

\* Mutant: the second size is taken from the first answer.
AmdL2_Stale(r, r1) == r1.ecx[1]
AmdL2(r, r1) == r.ecx[1]
cpu_vendor_amd ==
  /\ pc = "amd" /\ Goto("common")
  /\ LET max == cpu.max_extended_param
         r1 == IF AtLeast(max, Ext(5)) THEN cpuid("l1") ELSE cpuid("info")
     IN /\ regs' = IF AtLeast(max, Ext(6)) THEN cpuid("l2") ELSE r1
        /\ LET c1 == IF AtLeast(max, Ext(5))
                       THEN [cpu EXCEPT !.l1dcachesize = r1.ecx[1], !.cacheline = r1.ecx[4],
                                        !.l1icachesize = r1.edx[1]] ELSE cpu
           IN cpu' = IF AtLeast(max, Ext(6))
                       THEN [c1 EXCEPT !.l2cachesize = AmdL2(regs', r1)] ELSE c1
  /\ UNCHANGED <<probed, out>>

\* Mutant: the bits are read whether the leaf was asked for or not.
Asked_Always(r) == TRUE
Asked(r) == AtLeast(r.eax, Ext(1))
CommonFeatures ==
  /\ pc = "common" /\ Goto("answer")
  /\ LET max == cpuid("ext") IN
     /\ regs' = IF AtLeast(max.eax, Ext(1)) THEN cpuid("ext_info") ELSE max
     /\ cpu' = IF Asked(max) THEN [cpu EXCEPT !.flags = @ \cup ExtBits(regs')] ELSE cpu
  /\ UNCHANGED <<probed, out>>

\* (unsigned long) size << 10, in units of 1024.  Mutant: of any width.
LongBits == IF arch = "X86" \/ probed.type = "MINGW32" THEN 32 ELSE 64
Shifted_Wide(size) == size
Shifted(size) == IF LongBits = 32 THEN size % 2^22 ELSE size

Printed(name) ==
  CASE name \in Features -> IF name \in cpu.flags THEN 1 ELSE 0
    [] name \in Sizes -> Shifted(cpu[name])
    [] name = "cacheline" -> cpu.cacheline
    [] OTHER -> 0

\* The end of main.  The scripts that ask (sd-cpufeat, sd-cpul1icache, ...) take
\* what is printed; the exit code, 1 after a size, is not looked at.
Answer ==
  /\ pc = "answer" /\ Goto("done")
  /\ \E name \in Names \cup {NotAName} : out' = [name |-> name, value |-> Printed(name)]
  /\ UNCHANGED <<probed, regs, cpu>>

Zeroes == [eax |-> <<0, 0, 0, 0>>, ebx |-> <<0, 0, 0, 0>>,
           ecx |-> <<0, 0, 0, 0>>, edx |-> <<0, 0, 0, 0>>]
NoCpu == [max_extended_param |-> <<0, 0, 0, 0>>, flags |-> {}, cacheline |-> 0,
          l1icachesize |-> 0, l1dcachesize |-> 0, l2cachesize |-> 0, l3cachesize |-> 0]

Init ==
  /\ \E h \in Hosts : cc = h.cc /\ processor = h.processor
  /\ arch \in {"X86", "X86_64", "PPC"}
  /\ arch = "X86_64" => processor.has_cpuid
  /\ pc = "probe" /\ probed = [type |-> "UNKNOWN", version |-> "0.0.0"]
  /\ regs = Zeroes /\ cpu = NoCpu /\ out = [name |-> NotAName, value |-> 0]

Next == \/ ProbeCompiler \/ cpuid_check_support \/ MaxParams \/ cpu_detect_vendor
        \/ cpu_vendor_intel \/ CacheSizes \/ cpu_vendor_amd \/ CommonFeatures \/ Answer

Spec == Init /\ [][Next]_vars

----------------------------------------------------------------------------
(* Properties *)

\* The type of every variable; a size fits the unsigned long it is printed from.
TypeOK ==
  /\ processor.leaf \in [Leaves -> Registers]
  /\ pc \in {"probe", "support", "max", "vendor", "intel", "l1i", "l1d", "l2", "l3", "amd",
            "common", "answer", "done"}
  /\ regs \in Registers
  /\ cpu \in [max_extended_param : Words, flags : SUBSET Features, cacheline : Nat,
              l1icachesize : Nat, l1dcachesize : Nat, l2cachesize : Nat, l3cachesize : Nat]
  /\ out.name \in Names \cup {NotAName} /\ out.value \in Nat
  /\ (out.name \in Sizes /\ LongBits = 32) => out.value < 2^22

Intel == processor.leaf["basic"].ebx = vendors.intel
Amd == processor.leaf["basic"].ebx = vendors.amd
HasExt(k) == AtLeast(processor.leaf["ext"].eax, Ext(k))
Asks(names) == pc = "done" /\ out.name \in names

\* Where a processor says that it has a feature: leaf, register and bit.
Documented(feature) ==
  CASE feature = "mmx"      -> {<<"info", "edx", 23>>, <<"ext_info", "edx", 23>>}
    [] feature = "mmx2"     -> {<<"info", "edx", 25>>, <<"ext_info", "edx", 22>>}
    [] feature = "sse"      -> {<<"info", "edx", 25>>}
    [] feature = "sse2"     -> {<<"info", "edx", 26>>}
    [] feature = "sse3"     -> {<<"info", "ecx", 0>>}
    [] feature = "sse4.1"   -> {<<"info", "ecx", 19>>}
    [] feature = "sse4.2"   -> {<<"info", "ecx", 20>>}
    [] feature = "3dnow"    -> {<<"ext_info", "edx", 31>>}
    [] feature = "3dnowext" -> {<<"ext_info", "edx", 30>>}

\* A feature is reported when, and only when, the processor says so in a leaf it
\* has, whatever the registers held before; of the basic leaf an Intel processor
\* alone is believed (cpu_vendor_intel, the common features in main).
FeaturesAreTheCpus ==
  Asks(Features) =>
    LET says == {d \in Documented(out.name) :
                   /\ Bit(processor.leaf[d[1]][d[2]], d[3])
                   /\ IF d[1] = "info" THEN Intel ELSE HasExt(1)}
    IN /\ out.value = 1 => says # {}
       /\ (says # {} /\ Support = {TRUE}) => out.value = 1

\* The sizes of the descriptors of an Intel processor that are in ctab: bytes of
\* the registers of the cache leaf that are valid, but for the number of rounds.
Table == [l1icachesize |-> intel_L1i_caches, l1dcachesize |-> intel_L1d_caches,
          l2cachesize |-> intel_L2_caches, l3cachesize |-> intel_L3_caches]
Described(ctab) ==
  LET r == processor.leaf["cache"]
      valid == {n \in DOMAIN r : r[n][1] < 128}
      bytes == {r[p[1]][p[2]] : p \in (valid \X (1..4)) \ {<<"eax", 4>>}}
  IN {c[2] : c \in {d \in ctab : d[1] \in bytes}}
OneRound == processor.leaf["basic"].eax[4] >= 2 /\ processor.leaf["cache"].eax[4] = 1

\* A size is that of a descriptor of the processor's, or none; of an AMD
\* processor it is the byte of the leaf for it, if it has that leaf; on 32 bits,
\* for sizes that fit (cpu_cache_size, cpu_vendor_amd, the end of main).
SizesAreTheCpus ==
  (Asks(Sizes) /\ Support = {TRUE}) =>
    LET sizes == Described(Table[out.name])
        l1 == processor.leaf["l1"]
        l2 == processor.leaf["l2"]
    IN /\ (Intel /\ OneRound /\ (LongBits = 32 => \A s \in sizes : s < 2^22)) =>
            IF sizes = {} THEN out.value = 0 ELSE out.value \in sizes
       /\ Amd => out.value = CASE out.name = "l1icachesize" /\ HasExt(5) -> l1.edx[1]
                               [] out.name = "l1dcachesize" /\ HasExt(5) -> l1.ecx[1]
                               [] out.name = "l2cachesize" /\ HasExt(6) -> l2.ecx[1]
                               [] OTHER -> 0

\* The types for which sd-ccversion.c has no section.
Unversioned ==
  {"AMSTERDAM_KIT", "BORLAND_TURBO_C", "DIAB", "HP_C", "LCC", "LLVM", "METAWARE", "MICROTEC",
   "NORCROFT", "PACIFIC", "PORTLAND", "REALVIEW", "SAS", "SCO", "TENDRA", "TINYC", "USL_C",
   "VISUAL_CXX"}

\* The macros that tell a type and those that tell its version, where they are
\* not the same: a compiler defines some of both or none of either.
Announced(macros) ==
  \A p \in {<<{"__COMO__"}, {"__COMO_VERSION__"}>>,
            <<{"__DECC", "__VAXC", "VAXC"}, {"__DECC_VER"}>>,
            <<{"__DECCXX", "__VAXC", "VAXC"}, {"__DECCXX_VER"}>>,
            <<{"_CRAYC"}, {"_CRAY"}>>,
            <<{"__DMC__", "__SC__", "__ZTC__"}, {"__DMC__"}>>,
            <<{"__DJGPP__", "__GO32__"}, {"__DJGPP__"}>>,
            <<{"__INTEL_COMPILER", "__ICC", "__ECC", "__ICL"}, {"__INTEL_COMPILER"}>>,
            <<{"__C51__", "__CX51__"}, {"__C51__"}>>,
            <<{"__CA__", "__KEIL__"}, {"__CA__"}>>,
            <<{"__sgi", "sgi"}, {"_SGI_COMPILER_VERSION", "_COMPILER_VERSION"}>>} :
    p[1] \cap macros # {} <=> p[2] \cap macros # {}

\* The pairs of types whose sections sd-ccversion.c has in the other order: of a
\* compiler that is both, the type is the second and the version the first.
Exchanged ==
  ({"CODEWARRIOR"} \X
     {"COMEAU_CXX", "COMPAQ_C", "COMPAQ_CXX", "CRAY_C", "DIGITAL_MARS", "DJGPP", "EKOPATH",
      "GCC", "GREENHILL", "HP_ACC", "IAR", "IBM_XL", "INTEL", "KAI", "KEIL_C166",
      "KEIL_C51", "KEIL_CARM"})
  \cup {<<"IAR", "IBM_XL">>, <<"KEIL_C166", "KEIL_CARM">>, <<"KEIL_C51", "KEIL_CARM">>,
        <<"PCC", "PELLES">>}
InOrder(macros, type) ==
  \A i \in TypeSections(macros) : <<CcTypes[i][1], type>> \notin Exchanged

\* The version in sd-sysinfo.h is that of the compiler whose type stands there,
\* whatever other compilers it defines the macros of; or that of the front end
\* EDG, which is no type (sd-cctype.c, sd-ccversion.c).
VersionIsOfType ==
  (/\ pc # "probe" /\ probed.type \notin Unversioned
   /\ Announced(cc) /\ InOrder(cc, probed.type)) =>
    \/ probed.version \in {probed.type, "EDG"}
    \/ probed.type = "UNKNOWN" /\ probed.version = "0.0.0"
=============================================================================
