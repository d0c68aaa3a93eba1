------------------------------ MODULE CcProbes ------------------------------
(***************************************************************************)
(* The probes of the compiler, sd-cctype.c and sd-ccversion.c: each is a   *)
(* list of #if sections over the macros the compiler defines, of which the *)
(* last that holds decides.  The two lists were written apart; what they   *)
(* say of one compiler goes together into sd-sysinfo.h.  The numbers of a  *)
(* version are left out: the version is the section that decodes it.       *)
(***************************************************************************)
EXTENDS Naturals, Sequences

\* The section that decides, of those that hold; 0 if none does.
LastOf(holds) == IF holds = {} THEN 0 ELSE CHOOSE k \in holds : \A j \in holds : j <= k

\* sd-cctype.c: <<type, macros>>, one of which must be defined.
CcTypes == <<
  <<"AMSTERDAM_KIT", {"__ACK__"}>>, <<"BORLAND_CXX", {"__BORLANDC__"}>>,
  <<"BORLAND_TURBO_C", {"__TURBOC__"}>>, <<"CODEWARRIOR", {"__MWERKS__"}>>,
  <<"COMEAU_CXX", {"__COMO__"}>>, <<"COMPAQ_C", {"__DECC", "__VAXC", "VAXC"}>>,
  <<"COMPAQ_CXX", {"__DECCXX", "__VAXC", "VAXC"}>>, <<"CRAY_C", {"_CRAYC"}>>,
  <<"DIAB", {"__DCC__"}>>, <<"DIGITAL_MARS", {"__DMC__", "__SC__", "__ZTC__"}>>,
  <<"DJGPP", {"__DJGPP__", "__GO32__"}>>, <<"EKOPATH", {"__PATHCC__"}>>,
  <<"GCC", {"__GNUC__"}>>, <<"GREENHILL", {"__ghs__"}>>, <<"HP_ACC", {"__HP_aCC"}>>,
  <<"HP_C", {"__HP_cc"}>>, <<"IAR", {"__IAR_SYSTEMS_ICC__"}>>,
  <<"IBM_XL", {"__xlC__", "__IBMC__", "__IBMCPP__"}>>,
  <<"INTEL", {"__INTEL_COMPILER", "__ICC", "__ECC", "__ICL"}>>, <<"KAI", {"__KCC"}>>,
  <<"KEIL_C166", {"__C166__"}>>, <<"KEIL_C51", {"__C51__", "__CX51__"}>>,
  <<"KEIL_CARM", {"__CA__", "__KEIL__"}>>, <<"LCC", {"__LCC__"}>>, <<"LLVM", {"__llvm__"}>>,
  <<"METAWARE", {"__HIGHC__"}>>, <<"MICROTEC", {"_MRI"}>>, <<"MINGW32", {"__MINGW32__"}>>,
  <<"MIPSPRO", {"__sgi", "sgi"}>>, <<"MPW", {"__MRC__", "MPW_C", "MPW_CPLUS"}>>,
  <<"NORCROFT", {"__CC_NORCROFT"}>>, <<"PACIFIC", {"__PACIFIC__"}>>, <<"PALM", {"_PACC_VER"}>>,
  <<"PCC", {"__PCC__"}>>, <<"PELLES", {"__POCC__"}>>, <<"PORTLAND", {"__PGI"}>>,
  <<"REALVIEW", {"__CC_ARM"}>>, <<"SAS", {"SASC", "__SASC", "__SASC__"}>>, <<"SCO", {"_SCO_DS"}>>,
  <<"SMALLDEV", {"SDCC"}>>, <<"SUN_C", {"__SUNPRO_C"}>>, <<"SUN_CXX", {"__SUNPRO_CC"}>>,
  <<"SYSTEMS", {"__SYSC__"}>>, <<"TENDRA", {"__TenDRA__"}>>, <<"TINYC", {"__TINYC__"}>>,
  <<"ULTIMATE", {"_UCC"}>>, <<"USL_C", {"__USLC__"}>>, <<"VISUAL_CXX", {"_MSC_VER"}>>,
  <<"WATCOM", {"__WATCOMC__"}>> >>

TypeSections(macros) == {j \in 1..Len(CcTypes) : CcTypes[j][2] \cap macros # {}}
sd_cctype(macros) ==
  LET k == LastOf(TypeSections(macros))
  IN IF k = 0 THEN "UNKNOWN" ELSE CcTypes[k][1]

\* sd-ccversion.c: <<the type its comment names, macros>>; for MIPSpro also the
\* macro that must be defined besides.
Sgi(version) == <<"MIPSPRO", {"__sgi", "sgi"}, version>>
CcVersions == <<
  <<"BORLAND_CXX", {"__BORLANDC__"}>>, <<"COMEAU_CXX", {"__COMO_VERSION__"}>>,
  <<"COMPAQ_C", {"__DECC_VER"}>>, <<"COMPAQ_CXX", {"__DECCXX_VER"}>>, <<"CRAY_C", {"_CRAY"}>>,
  <<"DIGITAL_MARS", {"__DMC__"}>>, <<"DJGPP", {"__DJGPP__"}>>, <<"EKOPATH", {"__PATHCC__"}>>,
  <<"EDG", {"__EDG__"}>>, <<"GCC", {"__GNUC__"}>>, <<"GREENHILL", {"__ghs__"}>>,
  <<"HP_ACC", {"__HP_aCC"}>>, <<"IBM_XL", {"__xlC__"}>>, <<"IBM_XL", {"__IBMC__"}>>,
  <<"IBM_XL", {"__IBMCPP__"}>>, <<"IAR", {"__IAR_SYSTEMS_ICC__"}>>,
  <<"INTEL", {"__INTEL_COMPILER"}>>, <<"KAI", {"__KCC"}>>, <<"KEIL_CARM", {"__CA__"}>>,
  <<"KEIL_C166", {"__C166__"}>>, <<"KEIL_C51", {"__C51__"}>>, <<"CODEWARRIOR", {"__MWERKS__"}>>,
  <<"MINGW32", {"__MINGW32__"}>>, Sgi("_SGI_COMPILER_VERSION"), Sgi("_COMPILER_VERSION"),
  <<"MPW", {"__MRC__", "MPW_C", "MPW_CPLUS"}>>, <<"PALM", {"_PACC_VER"}>>,
  <<"PELLES", {"__POCC__"}>>, <<"PCC", {"__PCC__"}>>, <<"SMALLDEV", {"SDCC"}>>,
  <<"SUN_C", {"__SUNPRO_C"}>>, <<"SUN_CXX", {"__SUNPRO_CC"}>>, <<"SYSTEMS", {"__SYSC__"}>>,
  <<"ULTIMATE", {"_UCC"}>>, <<"WATCOM", {"__WATCOMC__"}>> >>

VersionSections(macros) ==
  {k \in 1..Len(CcVersions) : /\ CcVersions[k][2] \cap macros # {}
                              /\ Len(CcVersions[k]) = 3 => CcVersions[k][3] \in macros}

\* Mutant: the first section that holds decides.
sd_ccversion_First(macros) ==
  LET holds == VersionSections(macros)
  IN IF holds = {} THEN "0.0.0" ELSE CcVersions[CHOOSE k \in holds : \A j \in holds : k <= j][1]
sd_ccversion(macros) ==
  LET k == LastOf(VersionSections(macros))
  IN IF k = 0 THEN "0.0.0" ELSE CcVersions[k][1]
=============================================================================
