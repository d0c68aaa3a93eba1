---------------------------- MODULE CpuIdProofs ----------------------------
(***************************************************************************)
(* For any compilers and any processor, whatever it answers to leaves that *)
(* it does not have: the types, and that a feature or a size that          *)
(* sd-cpuidx86 prints is one that the processor reports; that the two      *)
(* probes of the compiler agree on any that is no exception named there.   *)
(***************************************************************************)
EXTENDS CpuId, SequenceTheorems, WellFoundedInduction, TLAPS

CpuInfo == [max_extended_param : Words, flags : SUBSET Features, cacheline : Nat,
            l1icachesize : Nat, l1dcachesize : Nat, l2cachesize : Nat, l3cachesize : Nat]
Typed == processor.leaf \in [Leaves -> Registers]

----------------------------------------------------------------------------
(* The tables and the registers *)

\* A descriptor is never 0, which stands for none, nor 1, the number of rounds.
Descriptors(ctab) == \A c \in ctab : c[1] \in 2..255 /\ c[2] \in Nat /\ c[3] \in Nat

LEMMA TablesTyped ==
  /\ Descriptors(intel_L1i_caches) /\ Descriptors(intel_L1d_caches)
  /\ Descriptors(intel_L2_caches) /\ Descriptors(intel_L3_caches)
<1>1. Descriptors(intel_L1i_caches)
  BY DEF Descriptors, intel_L1i_caches
<1>2. Descriptors(intel_L1d_caches)
  BY DEF Descriptors, intel_L1d_caches
<1>3. Descriptors(intel_L2_caches)
  BY DEF Descriptors, intel_L2_caches
<1>4. Descriptors(intel_L3_caches)
  BY DEF Descriptors, intel_L3_caches
<1>. QED BY <1>1, <1>2, <1>3, <1>4

LEMMA LeafTyped ==
  ASSUME Typed, NEW l \in Leaves
  PROVE  /\ cpuid(l) = processor.leaf[l] /\ cpuid(l) \in Registers
         /\ \A r \in {"eax", "ebx", "ecx", "edx"} :
              cpuid(l)[r] \in Words /\ \A k \in 1..4 : cpuid(l)[r][k] \in Bytes
<1>1. cpuid(l) = processor.leaf[l] /\ cpuid(l) \in Registers
  BY DEF Typed, cpuid
<1>2. /\ cpuid(l).eax \in Words /\ cpuid(l).ebx \in Words
      /\ cpuid(l).ecx \in Words /\ cpuid(l).edx \in Words
  BY <1>1 DEF Registers
<1>3. \A w \in Words : \A k \in 1..4 : w[k] \in Bytes
  BY DEF Words
<1>. HIDE DEF cpuid
<1>4. ASSUME NEW r \in {"eax", "ebx", "ecx", "edx"} PROVE cpuid(l)[r] \in Words
  BY <1>2
<1>. QED BY <1>1, <1>3, <1>4

\* Bit 31 is the highest of the first byte.
LEMMA HighBit ==
  ASSUME NEW w \in Words
  PROVE  Bit(w, 31) <=> w[1] >= 128
<1>1. w[1] \in 0..255
  BY DEF Words, Bytes
<1>2. Bit(w, 31) <=> (w[1] \div 128) % 2 = 1
  BY DEF Bit
<1>. QED BY <1>1, <1>2

LEMMA ValidWord ==
  ASSUME NEW w \in Words
  PROVE  /\ Valid(w) \in Words
         /\ \A k \in 1..4 : Valid(w)[k] = IF w[1] < 128 THEN w[k] ELSE 0
<1>1. w[1] \in 0..255
  BY DEF Words, Bytes
<1>2. w[1] < 128 <=> ~Bit(w, 31)
  BY <1>1, HighBit
<1>3. <<0, 0, 0, 0>> \in Words /\ \A k \in 1..4 : <<0, 0, 0, 0>>[k] = 0
  BY DEF Words, Bytes
<1>. QED BY <1>2, <1>3 DEF Valid

\* Two sequences after one another, as one term for the provers.
Joined(s, t) == s \o t
IsJoined(st, s, t) ==
  /\ Len(st) = Len(s) + Len(t)
  /\ \A k \in 1..Len(s) : st[k] = s[k]
  /\ \A k \in 1..Len(t) : st[Len(s) + k] = t[k]

LEMMA TwoParts ==
  ASSUME NEW S, NEW s \in Seq(S), NEW t \in Seq(S)
  PROVE  Joined(s, t) \in Seq(S) /\ IsJoined(Joined(s, t), s, t)
<1>. DEFINE st == s \o t
            m  == Len(s)
            n  == Len(t)
<1>1. /\ st \in Seq(S) /\ Len(st) = m + n
      /\ \A i \in 1..(m + n) : st[i] = IF i <= m THEN s[i] ELSE t[i - m]
  BY ConcatProperties
<1>2. m \in Nat /\ n \in Nat
  BY LenProperties
<1>. HIDE DEF st, m, n
<1>3. ASSUME NEW k \in 1..m PROVE st[k] = s[k]
  <2>1. k \in 1..(m + n) /\ k <= m
    BY <1>2
  <2>. QED BY <1>1, <2>1
<1>4. ASSUME NEW k \in 1..n PROVE st[m + k] = t[k]
  <2>1. m + k \in 1..(m + n) /\ ~(m + k <= m) /\ (m + k) - m = k
    BY <1>2
  <2>. QED BY <1>1, <2>1
<1>. QED BY <1>1, <1>3, <1>4, Zenon DEF Joined, IsJoined, st, m, n

LEMMA WordIsSeq ==
  ASSUME NEW w \in Words
  PROVE  w \in Seq(Bytes) /\ Len(w) = 4
<1>1. w \in Seq(Bytes)
  <2>1. w \in [1..4 -> Bytes] /\ 4 \in Nat
    BY DEF Words
  <2>. QED BY <2>1, SeqDef, Zenon
<1>2. DOMAIN w = 1..4 /\ DOMAIN w = 1..Len(w) /\ Len(w) \in Nat
  BY <1>1, LenProperties DEF Words
<1>. QED BY <1>1, <1>2

\* One more word.
WordAdded(st, s, w, m) ==
  /\ Len(st) = m + 4
  /\ \A k \in 1..m : st[k] = s[k]
  /\ \A k \in 1..4 : st[m + k] = w[k]

LEMMA AddWord ==
  ASSUME NEW s \in Seq(Bytes), NEW w \in Words, NEW m \in Nat, Len(s) = m
  PROVE  Joined(s, w) \in Seq(Bytes) /\ WordAdded(Joined(s, w), s, w, m)
<1>1. w \in Seq(Bytes) /\ Len(w) = 4
  BY WordIsSeq
<1>2. Joined(s, w) \in Seq(Bytes) /\ IsJoined(Joined(s, w), s, w)
  BY <1>1, TwoParts
<1>. QED BY <1>1, <1>2 DEF IsJoined, WordAdded

\* Four words after one another.
AreJoined(s, a, b, c, d) ==
  \A k \in 1..4 : s[k] = a[k] /\ s[4 + k] = b[k] /\ s[8 + k] = c[k] /\ s[12 + k] = d[k]
LEMMA FourWords ==
  ASSUME NEW a \in Words, NEW b \in Words, NEW c \in Words, NEW d \in Words,
         NEW s, s = Joined(Joined(Joined(a, b), c), d)
  PROVE  AreJoined(s, a, b, c, d)
<1>0. a \in Seq(Bytes) /\ Len(a) = 4
  BY WordIsSeq
<1>. DEFINE ab  == Joined(a, b)
            abc == Joined(ab, c)
<1>1. ab \in Seq(Bytes) /\ WordAdded(ab, a, b, 4)
  BY <1>0, AddWord
<1>. HIDE DEF ab
<1>2. abc \in Seq(Bytes) /\ WordAdded(abc, ab, c, 8)
  <2>1. Len(ab) = 8
    BY <1>1 DEF WordAdded
  <2>. QED BY <1>1, <2>1, AddWord
<1>. HIDE DEF abc
<1>3. s = Joined(abc, d)
  BY DEF abc, ab
<1>4. WordAdded(s, abc, d, 12)
  <2>1. Len(abc) = 12
    BY <1>2 DEF WordAdded
  <2>. QED BY <1>2, <1>3, <2>1, AddWord
<1>5. ASSUME NEW k \in 1..4
      PROVE  s[k] = a[k] /\ s[4 + k] = b[k] /\ s[8 + k] = c[k] /\ s[12 + k] = d[k]
  <2>1. /\ k \in 1..8 /\ 4 + k \in 1..8
        /\ k \in 1..12 /\ 4 + k \in 1..12 /\ 8 + k \in 1..12
    OBVIOUS
  <2>. QED BY <1>1, <1>2, <1>4, <2>1 DEF WordAdded
<1>. QED BY <1>5 DEF AreJoined

\* Where the byte is that is searched as the k-th.
RegOf(k) == IF k <= 4 THEN "eax" ELSE IF k <= 8 THEN "ebx" ELSE IF k <= 12 THEN "ecx" ELSE "edx"
ByteOf(k) == IF k <= 4 THEN k ELSE IF k <= 8 THEN k - 4 ELSE IF k <= 12 THEN k - 8 ELSE k - 12

LEMMA SearchedAt ==
  ASSUME Typed, NEW k \in 1..16
  PROVE  /\ RegOf(k) \in {"eax", "ebx", "ecx", "edx"} /\ ByteOf(k) \in 1..4
         /\ Searched[k] = IF cpuid("cache")[RegOf(k)][1] < 128
                          THEN cpuid("cache")[RegOf(k)][ByteOf(k)] ELSE 0
<1>. DEFINE r == cpuid("cache")
<1>1. r.eax \in Words /\ r.ebx \in Words /\ r.ecx \in Words /\ r.edx \in Words
  BY LeafTyped DEF Leaves
<1>2. RegOf(k) \in {"eax", "ebx", "ecx", "edx"} /\ ByteOf(k) \in 1..4
  BY DEF RegOf, ByteOf
<1>3. Searched = Valid(r.eax) \o Valid(r.ebx) \o Valid(r.ecx) \o Valid(r.edx)
  BY DEF Searched
<1>. HIDE DEF r
<1>4. Searched[k] = Valid(r[RegOf(k)])[ByteOf(k)]
  <2>1. /\ Valid(r.eax) \in Words /\ Valid(r.ebx) \in Words
        /\ Valid(r.ecx) \in Words /\ Valid(r.edx) \in Words
    BY <1>1, ValidWord
  <2>. DEFINE a == Valid(r.eax)
              b == Valid(r.ebx)
              c == Valid(r.ecx)
              d == Valid(r.edx)
              j == ByteOf(k)
  <2>2. Searched = Joined(Joined(Joined(a, b), c), d)
    BY <1>3, Zenon DEF Joined
  <2>. HIDE DEF a, b, c, d
  <2>a. a \in Words /\ b \in Words /\ c \in Words /\ d \in Words
    BY <2>1 DEF a, b, c, d
  <2>b. j \in 1..4
    BY <1>2
  <2>. HIDE DEF j
  <2>3. /\ Searched[j] = a[j] /\ Searched[4 + j] = b[j]
        /\ Searched[8 + j] = c[j] /\ Searched[12 + j] = d[j]
    <3>1. AreJoined(Searched, a, b, c, d)
      BY <2>a, <2>2, FourWords
    <3>. QED BY <2>b, <3>1 DEF AreJoined
  <2>4. CASE k <= 4
    BY <2>3, <2>4 DEF a, j, RegOf, ByteOf
  <2>5. CASE k > 4 /\ k <= 8
    <3>1. 4 + j = k
      BY <2>5 DEF j, ByteOf
    <3>. QED BY <2>3, <2>5, <3>1 DEF b, j, RegOf
  <2>6. CASE k > 8 /\ k <= 12
    <3>1. 8 + j = k
      BY <2>6 DEF j, ByteOf
    <3>. QED BY <2>3, <2>6, <3>1 DEF c, j, RegOf
  <2>7. CASE k > 12
    <3>1. 12 + j = k
      BY <2>7 DEF j, ByteOf
    <3>. QED BY <2>3, <2>7, <3>1 DEF d, j, RegOf
  <2>. QED BY <2>4, <2>5, <2>6, <2>7
<1>5. r[RegOf(k)] \in Words
  BY <1>1, <1>2
<1>. QED BY <1>2, <1>4, <1>5, ValidWord DEF r

----------------------------------------------------------------------------
(* One size *)

\* A set of numbers that is not empty has a least one.
LEMMA Least ==
  ASSUME NEW T \in SUBSET Nat, T # {}
  PROVE  \E x \in T : \A y \in T : x <= y
<1>1. PICK x \in T : \A y \in T : ~(<<y, x>> \in OpToRel(<, Nat))
  BY NatLessThanWellFounded, WFMin, Zenon
<1>2. \A y \in T : ~(y < x)
  BY <1>1, Zenon DEF OpToRel
<1>3. \A y \in T : y \in Nat
  OBVIOUS
<1>. QED BY <1>2, <1>3

Rounds == cpuid("cache").eax[4]
Hits(ctab) == {k \in 1..16 : cpu_check_cache_list(ctab, Searched[k]) # {}}
Found(ctab, c) == c \in ctab /\ \E k \in Hits(ctab) : c[1] = Searched[k]

\* What a step of cpu_cache_size does: nothing, or one descriptor that is found.
SizeTaken(ctab, field) ==
  \/ cpu' = cpu /\ (Rounds = 0 \/ Hits(ctab) = {})
  \/ /\ Rounds # 0 /\ Hits(ctab) # {}
     /\ \E c : Found(ctab, c) /\ cpu' = [cpu EXCEPT ![field] = c[2], !.cacheline = c[3]]

LEMMA OneSize ==
  ASSUME NEW here, NEW ctab, NEW field, NEW next, cpu_cache_size(here, ctab, field, next)
  PROVE  SizeTaken(ctab, field)
<1>. DEFINE hits == Hits(ctab)
            k == CHOOSE k \in hits : \A j \in hits : k <= j
            c == CHOOSE c \in cpu_check_cache_list(ctab, Searched[k]) : TRUE
<1>1. cpu' = IF Rounds = 0 \/ hits = {} THEN cpu
             ELSE [cpu EXCEPT ![field] = c[2], !.cacheline = c[3]]
  BY Zenon DEF cpu_cache_size, Rounds, Hits
<1>2. ASSUME hits # {} PROVE Found(ctab, c)
  <2>1. hits \in SUBSET Nat
    BY DEF Hits
  <2>2. \E x \in hits : \A y \in hits : x <= y
    BY <1>2, <2>1, Least
  <2>3. k \in hits
    BY <2>2
  <2>. HIDE DEF k
  <2>4. cpu_check_cache_list(ctab, Searched[k]) # {}
    BY <2>3 DEF Hits
  <2>5. c \in cpu_check_cache_list(ctab, Searched[k])
    BY <2>4
  <2>. HIDE DEF c
  <2>6. c \in ctab /\ c[1] = Searched[k]
    BY <2>5 DEF cpu_check_cache_list
  <2>. QED BY <2>3, <2>6 DEF Found
<1>. HIDE DEF c, k
<1>. QED BY <1>1, <1>2 DEF hits, SizeTaken

\* In one round, what is found is what the processor describes.
LEMMA FoundIsDescribed ==
  ASSUME Typed, OneRound, NEW ctab, Descriptors(ctab), NEW c, Found(ctab, c)
  PROVE  c[2] \in Described(ctab)
<1>. DEFINE r == processor.leaf["cache"]
            valid == {n \in DOMAIN r : r[n][1] < 128}
            bytes == {r[p[1]][p[2]] : p \in (valid \X (1..4)) \ {<<"eax", 4>>}}
<1>1. PICK k \in 1..16 : c \in ctab /\ c[1] = Searched[k]
  BY DEF Found, Hits
<1>2. Searched[k] \in 2..255
  BY <1>1 DEF Descriptors
<1>3. cpuid("cache") = r /\ r.eax[4] = 1
  BY DEF cpuid, OneRound
<1>. DEFINE n == RegOf(k)
            j == ByteOf(k)
<1>4. /\ n \in {"eax", "ebx", "ecx", "edx"} /\ j \in 1..4
      /\ Searched[k] = IF r[n][1] < 128 THEN r[n][j] ELSE 0
  BY <1>3, SearchedAt
<1>5. DOMAIN r = {"eax", "ebx", "ecx", "edx"}
  BY <1>3, LeafTyped DEF Leaves, Registers
<1>. HIDE DEF r, n, j
<1>6. r[n][1] < 128 /\ Searched[k] = r[n][j]
  BY <1>2, <1>4
<1>7. <<n, j>> # <<"eax", 4>>
  BY <1>2, <1>3, <1>6
<1>8. <<n, j>> \in (valid \X (1..4)) \ {<<"eax", 4>>}
  BY <1>4, <1>5, <1>6, <1>7
<1>9. r[n][j] \in bytes
  BY <1>8
<1>10. c \in {d \in ctab : d[1] \in bytes}
  BY <1>1, <1>6, <1>9
<1>. HIDE DEF bytes
<1>11. c[2] \in {e[2] : e \in {d \in ctab : d[1] \in bytes}}
  BY <1>10
<1>. QED BY <1>11 DEF Described, bytes, valid, r

\* And if the processor describes something, something is found.
LEMMA DescribedIsFound ==
  ASSUME Typed, OneRound, NEW ctab, Descriptors(ctab), Described(ctab) # {}
  PROVE  Rounds # 0 /\ Hits(ctab) # {}
<1>. DEFINE r == processor.leaf["cache"]
            valid == {n \in DOMAIN r : r[n][1] < 128}
<1>1. PICK d \in ctab : \E p \in valid \X (1..4) : d[1] = r[p[1]][p[2]]
  BY DEF Described
<1>2. PICK n \in valid, j \in 1..4 : d[1] = r[n][j]
  BY <1>1
<1>3. cpuid("cache") = r /\ r.eax[4] = 1
  BY DEF cpuid, OneRound
<1>4. n \in {"eax", "ebx", "ecx", "edx"} /\ r[n][1] < 128
  BY <1>2, <1>3, LeafTyped DEF Leaves, Registers
<1>. HIDE DEF r, valid
<1>5. PICK k \in 1..16 : RegOf(k) = n /\ ByteOf(k) = j
  <2>1. CASE n = "eax"
    <3>1. RegOf(j) = n /\ ByteOf(j) = j /\ j \in 1..16
      BY <2>1 DEF RegOf, ByteOf
    <3>. QED BY <3>1
  <2>2. CASE n = "ebx"
    <3>1. RegOf(4 + j) = n /\ ByteOf(4 + j) = j /\ 4 + j \in 1..16
      BY <2>2 DEF RegOf, ByteOf
    <3>. QED BY <3>1
  <2>3. CASE n = "ecx"
    <3>1. RegOf(8 + j) = n /\ ByteOf(8 + j) = j /\ 8 + j \in 1..16
      BY <2>3 DEF RegOf, ByteOf
    <3>. QED BY <3>1
  <2>4. CASE n = "edx"
    <3>1. RegOf(12 + j) = n /\ ByteOf(12 + j) = j /\ 12 + j \in 1..16
      BY <2>4 DEF RegOf, ByteOf
    <3>. QED BY <3>1
  <2>. QED BY <1>4, <2>1, <2>2, <2>3, <2>4
<1>6. Searched[k] = d[1]
  BY <1>2, <1>3, <1>4, <1>5, SearchedAt
<1>7. d \in cpu_check_cache_list(ctab, Searched[k])
  BY <1>6 DEF cpu_check_cache_list
<1>8. k \in Hits(ctab)
  BY <1>7 DEF Hits
<1>. QED BY <1>3, <1>8 DEF Rounds

\* One size is looked for in its table; the other sizes and the rest stay.
LEMMA SizeStep ==
  ASSUME TypeOK, NEW here, NEW field \in Sizes, NEW next,
         cpu_cache_size(here, Table[field], field, next)
  PROVE  /\ cpu' \in CpuInfo
         /\ \A f \in Sizes \ {field} : cpu'[f] = cpu[f]
         /\ cpu'.flags = cpu.flags
         /\ OneRound => IF Described(Table[field]) = {} THEN cpu'[field] = cpu[field]
                        ELSE cpu'[field] \in Described(Table[field])
<1>. DEFINE ctab == Table[field]
<1>0. field \in {"l1icachesize", "l1dcachesize", "l2cachesize", "l3cachesize"}
  BY DEF Sizes
<1>1. Descriptors(ctab)
  BY <1>0, TablesTyped DEF Table
<1>2. cpu \in CpuInfo /\ Typed
  BY DEF TypeOK, CpuInfo, Typed
<1>a. cpu_cache_size(here, ctab, field, next)
  OBVIOUS
<1>. HIDE DEF ctab
<1>3. \/ cpu' = cpu /\ (Rounds = 0 \/ Hits(ctab) = {})
      \/ /\ Rounds # 0 /\ Hits(ctab) # {}
         /\ \E c : Found(ctab, c) /\ cpu' = [cpu EXCEPT ![field] = c[2], !.cacheline = c[3]]
  <2>1. SizeTaken(ctab, field)
    BY <1>a, OneSize
  <2>. QED BY <2>1 DEF SizeTaken
<1>4. CASE cpu' = cpu /\ (Rounds = 0 \/ Hits(ctab) = {})
  <2>1. OneRound => Described(ctab) = {}
    BY <1>1, <1>2, <1>4, DescribedIsFound
  <2>. QED BY <1>2, <1>4, <2>1 DEF ctab
<1>5. ASSUME NEW c, Found(ctab, c), cpu' = [cpu EXCEPT ![field] = c[2], !.cacheline = c[3]]
      PROVE  /\ cpu' \in CpuInfo
             /\ \A f \in Sizes \ {field} : cpu'[f] = cpu[f]
             /\ cpu'.flags = cpu.flags
             /\ cpu'[field] = c[2]
  <2>1. c[2] \in Nat /\ c[3] \in Nat
    BY <1>1, <1>5 DEF Found, Descriptors
  <2>2. CASE field = "l1icachesize"
    BY <1>2, <1>5, <2>1, <2>2 DEF CpuInfo, Sizes
  <2>3. CASE field = "l1dcachesize"
    BY <1>2, <1>5, <2>1, <2>3 DEF CpuInfo, Sizes
  <2>4. CASE field = "l2cachesize"
    BY <1>2, <1>5, <2>1, <2>4 DEF CpuInfo, Sizes
  <2>5. CASE field = "l3cachesize"
    BY <1>2, <1>5, <2>1, <2>5 DEF CpuInfo, Sizes
  <2>. QED BY <1>0, <2>2, <2>3, <2>4, <2>5
<1>6. ASSUME NEW c, Found(ctab, c), OneRound PROVE c[2] \in Described(ctab) /\ Described(ctab) # {}
  BY <1>1, <1>2, <1>6, FoundIsDescribed
<1>. QED BY <1>3, <1>4, <1>5, <1>6 DEF ctab

----------------------------------------------------------------------------
(* What the program knows at each step *)

\* Up to the vendor nothing is known; the tables are searched for an Intel
\* processor only, and the leaves l1 and l2 read for one of AMD.
Stages ==
  /\ pc \in {"intel", "l1i", "l1d", "l2", "l3"} => Intel
  /\ pc = "amd" => Amd
  /\ pc # "done" => out.name = NotAName
  /\ pc \in {"vendor", "intel", "amd"} => cpu.max_extended_param = processor.leaf["ext"].eax

Info == IF Intel THEN InfoBits(processor.leaf["info"]) ELSE {}
Extended == IF HasExt(1) THEN ExtBits(processor.leaf["ext_info"]) ELSE {}
Flags ==
  /\ pc \in {"probe", "support", "max", "vendor", "intel", "amd"} => cpu.flags = {}
  /\ pc \in {"l1i", "l1d", "l2", "l3", "common"} => cpu.flags = Info
  /\ pc = "answer" => cpu.flags = Info \cup Extended

\* The size of f is the processor's.
Right(f) ==
  /\ (Intel /\ OneRound) => IF Described(Table[f]) = {} THEN cpu[f] = 0
                            ELSE cpu[f] \in Described(Table[f])
  /\ Amd => cpu[f] = CASE f = "l1icachesize" /\ HasExt(5) -> processor.leaf["l1"].edx[1]
                       [] f = "l1dcachesize" /\ HasExt(5) -> processor.leaf["l1"].ecx[1]
                       [] f = "l2cachesize" /\ HasExt(6) -> processor.leaf["l2"].ecx[1]
                       [] OTHER -> 0
Unset == CASE pc \in {"probe", "support", "max", "vendor", "intel", "l1i", "amd"} -> Sizes
           [] pc = "l1d" -> Sizes \ {"l1icachesize"}
           [] pc = "l2"  -> {"l2cachesize", "l3cachesize"}
           [] pc = "l3"  -> {"l3cachesize"}
           [] OTHER -> {}
AllSizes ==
  pc # "done" => /\ \A f \in Unset : cpu[f] = 0
                 /\ \A f \in Sizes \ Unset : Right(f)

\* The program ends with an answer from what it knows, or without asking.
Final ==
  pc = "done" =>
    \/ FALSE \in Support /\ out.value = 0
    \/ /\ out.value = Printed(out.name)
       /\ cpu.flags = Info \cup Extended
       /\ \A f \in Sizes : Right(f)

IInv == TypeOK /\ Stages /\ Flags /\ AllSizes /\ Final

LEMMA InitIInv == Init => IInv
<1>. SUFFICES ASSUME Init PROVE IInv
  OBVIOUS
<1>1. processor.leaf \in [Leaves -> Registers]
  BY HostsOK DEF Init, HostsOK
<1>2. <<0, 0, 0, 0>> \in Words
  BY DEF Words, Bytes
<1>3. TypeOK
  BY <1>1, <1>2 DEF TypeOK, Init, Zeroes, NoCpu, Registers, Names, NotAName, Sizes, Features
<1>4. Stages /\ Final
  BY DEF Init, Stages, Final
<1>5. Flags
  BY DEF Init, Flags, NoCpu
<1>6. AllSizes
  BY DEF Init, AllSizes, Unset, NoCpu, Sizes
<1>. QED BY <1>3, <1>4, <1>5, <1>6 DEF IInv

\* No step changes what the processor and the build are.
LEMMA Fixed ==
  ASSUME NEW p, Goto(p)
  PROVE  /\ pc' = p
         /\ Intel' = Intel /\ Amd' = Amd /\ OneRound' = OneRound
         /\ Info' = Info /\ Extended' = Extended
         /\ processor' = processor /\ arch' = arch /\ cc' = cc
         /\ cpu' = cpu => \A f \in Sizes : Right(f)' = Right(f)
         /\ \A k \in Nat : HasExt(k)' = HasExt(k)
<1>1. pc' = p /\ processor' = processor /\ arch' = arch /\ cc' = cc
  BY DEF Goto
<1>2. Intel' = Intel /\ Amd' = Amd /\ OneRound' = OneRound
  BY <1>1 DEF Intel, Amd, OneRound
<1>3. \A k \in Nat : HasExt(k)' = HasExt(k)
  BY <1>1 DEF HasExt
<1>4. Info' = Info
  BY <1>1, <1>2 DEF Info
<1>5. Extended' = Extended
  BY <1>1, <1>3 DEF Extended
<1>6. ASSUME NEW f \in Sizes, cpu' = cpu PROVE Right(f)' = Right(f)
  <2>1. Described(Table[f])' = Described(Table[f])
    BY <1>1, Zenon DEF Described
  <2>2. HasExt(5)' = HasExt(5) /\ HasExt(6)' = HasExt(6)
    BY <1>3
  <2>. QED BY <1>1, <1>2, <1>6, <2>1, <2>2 DEF Right
<1>. QED BY <1>1, <1>2, <1>3, <1>4, <1>5, <1>6, Zenon

LEMMA VendorsDiffer == ~(Intel /\ Amd)
BY DEF Intel, Amd, vendors

\* Before the answer the sizes of the last one do not matter.
LEMMA NoAnswerYet ==
  ASSUME IInv, pc # "done", out' = out
  PROVE  out'.name \in Names \cup {NotAName} /\ out'.value \in Nat /\ out'.name \notin Sizes
BY DEF IInv, TypeOK, Stages, NotAName, Sizes

LEMMA Probing ==
  ASSUME IInv, ProbeCompiler
  PROVE  IInv'
<1>1. /\ pc = "probe" /\ pc' = "support" /\ Goto("support")
      /\ UNCHANGED <<regs, cpu, out>>
  BY DEF ProbeCompiler, Goto
<1>2. TypeOK'
  BY <1>1, NoAnswerYet, Fixed DEF IInv, TypeOK
<1>3. Stages' /\ Flags' /\ Final'
  BY <1>1 DEF IInv, Stages, Flags, Final
<1>4. AllSizes'
  BY <1>1, Fixed DEF IInv, AllSizes, Unset
<1>. QED BY <1>2, <1>3, <1>4 DEF IInv

LEMMA Supported ==
  ASSUME IInv, cpuid_check_support
  PROVE  IInv'
<1>1. pc = "support" /\ UNCHANGED <<probed, regs, cpu>>
  BY DEF cpuid_check_support
<1>2. CASE Goto("max") /\ UNCHANGED out
  <2>1. TypeOK'
    BY <1>1, <1>2, NoAnswerYet, Fixed DEF IInv, TypeOK
  <2>2. Stages' /\ Flags' /\ Final'
    BY <1>1, <1>2 DEF IInv, Stages, Flags, Final, Goto
  <2>3. AllSizes'
    BY <1>1, <1>2, Fixed DEF IInv, AllSizes, Unset
  <2>. QED BY <2>1, <2>2, <2>3 DEF IInv
<1>3. ASSUME FALSE \in Support, Goto("done"), NEW name \in Names \cup {NotAName},
             out' = [name |-> name, value |-> 0]
      PROVE  IInv'
  <2>1. TypeOK'
    BY <1>1, <1>3, Fixed DEF IInv, TypeOK
  <2>2. Stages' /\ Flags' /\ AllSizes'
    BY <1>3 DEF Stages, Flags, AllSizes, Goto
  <2>3. Support' = Support
    BY <1>1, <1>3 DEF Support, Goto
  <2>4. Final'
    BY <1>3, <2>3 DEF Final
  <2>. QED BY <2>1, <2>2, <2>4 DEF IInv
<1>. QED BY <1>2, <1>3 DEF cpuid_check_support

LEMMA Parameters ==
  ASSUME IInv, MaxParams
  PROVE  IInv'
<1>1. /\ pc = "max" /\ pc' = "vendor" /\ Goto("vendor") /\ UNCHANGED <<probed, out>>
      /\ cpu' = [cpu EXCEPT !.max_extended_param = cpuid("ext").eax]
      /\ regs' = cpuid("alt")
  BY DEF MaxParams, Goto
<1>2. /\ cpuid("ext").eax \in Words /\ cpuid("alt") \in Registers
      /\ cpuid("ext") = processor.leaf["ext"]
  <2>1. Typed /\ "ext" \in Leaves /\ "alt" \in Leaves
    BY DEF IInv, TypeOK, Typed, Leaves
  <2>. QED BY <2>1, LeafTyped
<1>3. cpu \in CpuInfo
  BY DEF IInv, TypeOK, CpuInfo
<1>4. /\ cpu' \in CpuInfo /\ cpu'.flags = cpu.flags
      /\ cpu'.max_extended_param = cpuid("ext").eax
      /\ \A f \in Sizes : cpu'[f] = cpu[f]
  BY <1>1, <1>2, <1>3 DEF CpuInfo, Sizes
<1>5. TypeOK'
  BY <1>1, <1>2, <1>4, NoAnswerYet, Fixed DEF IInv, TypeOK, CpuInfo
<1>6. Stages' /\ Flags' /\ Final'
  BY <1>1, <1>2, <1>4 DEF IInv, Stages, Flags, Final, Goto
<1>7. AllSizes'
  BY <1>1, <1>4 DEF IInv, AllSizes, Unset
<1>. QED BY <1>5, <1>6, <1>7 DEF IInv

LEMMA Detected ==
  ASSUME IInv, cpu_detect_vendor
  PROVE  IInv'
<1>. DEFINE known == {v \in DOMAIN vendors : vendors[v] = cpuid("basic").ebx}
            next  == IF known = {} THEN "common" ELSE CHOOSE v \in known : TRUE
<1>1. /\ pc = "vendor" /\ UNCHANGED <<probed, cpu, out>> /\ regs' = cpuid("basic")
      /\ Goto(next)
  BY DEF cpu_detect_vendor
<1>2. cpuid("basic") = processor.leaf["basic"] /\ cpuid("basic") \in Registers
  <2>1. Typed /\ "basic" \in Leaves
    BY DEF IInv, TypeOK, Typed, Leaves
  <2>. QED BY <2>1, LeafTyped
<1>3. \/ next = "common" /\ ~Intel /\ ~Amd
      \/ next = "intel" /\ Intel
      \/ next = "amd" /\ Amd
  <2>1. known \subseteq {"intel", "amd"}
    BY DEF vendors
  <2>2. "intel" \in known <=> Intel
    BY <1>2 DEF vendors, Intel
  <2>3. "amd" \in known <=> Amd
    BY <1>2 DEF vendors, Amd
  <2>. HIDE DEF known
  <2>4. CASE known = {}
    BY <2>2, <2>3, <2>4
  <2>5. CASE known # {}
    <3>1. next \in known
      BY <2>5
    <3>. HIDE DEF next
    <3>. QED BY <2>1, <2>2, <2>3, <3>1
  <2>. QED BY <2>4, <2>5
<1>. HIDE DEF next
<1>4. pc' = next /\ Intel' = Intel /\ Amd' = Amd /\ Info' = Info
  BY <1>1, Fixed
<1>5. TypeOK'
  BY <1>1, <1>2, <1>3, NoAnswerYet, Fixed DEF IInv, TypeOK
<1>6. Stages' /\ Final'
  BY <1>1, <1>3, <1>4 DEF IInv, Stages, Final, Goto
<1>7. Flags'
  <2>1. cpu.flags = {} /\ cpu' = cpu
    BY <1>1 DEF IInv, Flags
  <2>2. ~Intel => Info = {}
    BY DEF Info
  <2>. QED BY <1>3, <1>4, <2>1, <2>2 DEF Flags
<1>8. AllSizes'
  <2>1. cpu' = cpu /\ \A f \in Sizes : cpu[f] = 0
    BY <1>1 DEF IInv, AllSizes, Unset
  <2>2. ASSUME ~Intel, ~Amd, NEW f \in Sizes PROVE Right(f)'
    BY <1>4, <2>2 DEF Right
  <2>. QED BY <1>3, <1>4, <2>1, <2>2 DEF AllSizes, Unset
<1>. QED BY <1>5, <1>6, <1>7, <1>8 DEF IInv

LEMMA IntelInfo ==
  ASSUME IInv, cpu_vendor_intel
  PROVE  IInv'
<1>1. /\ pc = "intel" /\ pc' = "l1i" /\ Goto("l1i") /\ UNCHANGED <<probed, out>>
      /\ regs' = cpuid("info")
      /\ cpu' = [cpu EXCEPT !.flags = @ \cup InfoBits(regs')]
  BY DEF cpu_vendor_intel, Goto
<1>2. cpuid("info") = processor.leaf["info"] /\ cpuid("info") \in Registers
  <2>1. Typed /\ "info" \in Leaves
    BY DEF IInv, TypeOK, Typed, Leaves
  <2>. QED BY <2>1, LeafTyped
<1>3. cpu \in CpuInfo /\ cpu.flags = {} /\ Intel
  BY <1>1 DEF IInv, TypeOK, CpuInfo, Flags, Stages
<1>4. InfoBits(regs') \subseteq Features /\ InfoBits(regs') = Info
  <2>1. InfoBits(regs') \subseteq Features
    BY DEF InfoBits, Features
  <2>. QED BY <1>1, <1>2, <1>3, <2>1 DEF Info
<1>5. /\ cpu' \in CpuInfo /\ cpu'.flags = Info
      /\ \A f \in Sizes : cpu'[f] = cpu[f]
  BY <1>1, <1>3, <1>4 DEF CpuInfo, Sizes
<1>6. TypeOK'
  BY <1>1, <1>2, <1>5, NoAnswerYet, Fixed DEF IInv, TypeOK, CpuInfo
<1>7. Intel' = Intel /\ Info' = Info
  BY <1>1, Fixed
<1>8. Stages' /\ Flags' /\ Final'
  BY <1>1, <1>3, <1>5, <1>7 DEF IInv, Stages, Flags, Final
<1>9. AllSizes'
  BY <1>1, <1>5 DEF IInv, AllSizes, Unset
<1>. QED BY <1>6, <1>8, <1>9 DEF IInv

\* One of the four searches, the stages around it and the size it is for.
Search(here, field, next) ==
  \/ here = "l1i" /\ field = "l1icachesize" /\ next = "l1d"
  \/ here = "l1d" /\ field = "l1dcachesize" /\ next = "l2"
  \/ here = "l2" /\ field = "l2cachesize" /\ next = "l3"
  \/ here = "l3" /\ field = "l3cachesize" /\ next = "common"

LEMMA Sized ==
  ASSUME IInv, NEW here, NEW field, NEW next, Search(here, field, next),
         cpu_cache_size(here, Table[field], field, next)
  PROVE  IInv'
<1>0. field \in Sizes
  BY DEF Search, Sizes
<1>1. pc = here /\ pc' = next /\ Goto(next) /\ UNCHANGED <<probed, regs, out>>
  BY DEF cpu_cache_size, Goto
<1>2. /\ cpu' \in CpuInfo
      /\ \A f \in Sizes \ {field} : cpu'[f] = cpu[f]
      /\ cpu'.flags = cpu.flags
      /\ OneRound => IF Described(Table[field]) = {} THEN cpu'[field] = cpu[field]
                     ELSE cpu'[field] \in Described(Table[field])
  BY <1>0, SizeStep DEF IInv
<1>3. Intel /\ ~Amd /\ Intel' /\ ~Amd' /\ OneRound' = OneRound /\ Info' = Info
  <2>1. Intel
    BY <1>1 DEF IInv, Stages, Search
  <2>. QED BY <1>1, <2>1, VendorsDiffer, Fixed
<1>4. TypeOK'
  <2>1. next \in {"l1d", "l2", "l3", "common"} /\ pc # "done"
    BY <1>1 DEF Search
  <2>. QED BY <1>1, <1>2, <2>1, NoAnswerYet, Fixed DEF IInv, TypeOK, CpuInfo
<1>5. Stages' /\ Flags' /\ Final'
  BY <1>1, <1>2, <1>3 DEF IInv, Stages, Flags, Final, Search
<1>6. \A S : Described(S)' = Described(S)
  BY <1>1 DEF Described, Goto
<1>7. AllSizes'
  <2>1. /\ Unset' = Unset \ {field} /\ field \in Unset /\ Unset \subseteq Sizes
    BY <1>1 DEF Search, Unset, Sizes
  <2>2. pc # "done"
    BY <1>1 DEF Search
  <2>3. \A f \in Unset' : cpu'[f] = 0
    BY <1>2, <2>1, <2>2 DEF IInv, AllSizes
  <2>4. ASSUME NEW f \in Sizes \ Unset' PROVE Right(f)'
    <3>1. CASE f = field
      <4>1. cpu[field] = 0
        BY <2>1, <2>2 DEF IInv, AllSizes
      <4>. QED BY <1>2, <1>3, <1>6, <3>1, <4>1 DEF Right
    <3>2. CASE f # field
      <4>1. Right(f) /\ cpu'[f] = cpu[f]
        BY <1>2, <2>1, <2>2, <3>2 DEF IInv, AllSizes
      <4>. QED BY <1>3, <1>6, <4>1 DEF Right
    <3>. QED BY <3>1, <3>2
  <2>. QED BY <2>3, <2>4 DEF AllSizes
<1>. QED BY <1>4, <1>5, <1>7 DEF IInv

LEMMA Searching ==
  ASSUME IInv, CacheSizes
  PROVE  IInv'
<1>1. CASE cpu_cache_size("l1i", intel_L1i_caches, "l1icachesize", "l1d")
  BY <1>1, Sized DEF Search, Table
<1>2. CASE cpu_cache_size("l1d", intel_L1d_caches, "l1dcachesize", "l2")
  BY <1>2, Sized DEF Search, Table
<1>3. CASE cpu_cache_size("l2", intel_L2_caches, "l2cachesize", "l3")
  BY <1>3, Sized DEF Search, Table
<1>4. CASE cpu_cache_size("l3", intel_L3_caches, "l3cachesize", "common")
  BY <1>4, Sized DEF Search, Table
<1>. QED BY <1>1, <1>2, <1>3, <1>4 DEF CacheSizes

LEMMA AmdSizes ==
  ASSUME IInv, cpu_vendor_amd
  PROVE  IInv'
<1>. DEFINE max == cpu.max_extended_param
            r1 == IF AtLeast(max, Ext(5)) THEN cpuid("l1") ELSE cpuid("info")
            c1 == IF AtLeast(max, Ext(5))
                    THEN [cpu EXCEPT !.l1dcachesize = r1.ecx[1], !.cacheline = r1.ecx[4],
                                     !.l1icachesize = r1.edx[1]] ELSE cpu
            l1 == processor.leaf["l1"]
            l2 == processor.leaf["l2"]
<1>1. /\ pc = "amd" /\ pc' = "common" /\ Goto("common") /\ UNCHANGED <<probed, out>>
      /\ regs' = IF AtLeast(max, Ext(6)) THEN cpuid("l2") ELSE r1
      /\ cpu' = IF AtLeast(max, Ext(6)) THEN [c1 EXCEPT !.l2cachesize = AmdL2(regs', r1)] ELSE c1
  BY DEF cpu_vendor_amd, Goto
<1>2. /\ cpuid("info") \in Registers /\ cpuid("l1") \in Registers /\ cpuid("l2") \in Registers
      /\ cpuid("l1") = l1 /\ cpuid("l2") = l2
      /\ l1.ecx[1] \in Nat /\ l1.ecx[4] \in Nat /\ l1.edx[1] \in Nat /\ l2.ecx[1] \in Nat
  <2>1. Typed /\ "info" \in Leaves /\ "l1" \in Leaves /\ "l2" \in Leaves
    BY DEF IInv, TypeOK, Typed, Leaves
  <2>2. /\ cpuid("info") \in Registers /\ cpuid("l1") \in Registers /\ cpuid("l2") \in Registers
        /\ cpuid("l1") = l1 /\ cpuid("l2") = l2
    BY <2>1, LeafTyped
  <2>3. l1.ecx \in Words /\ l1.edx \in Words /\ l2.ecx \in Words
    BY <2>2 DEF Registers
  <2>4. \A w \in Words : w[1] \in Nat /\ w[4] \in Nat
    BY DEF Words, Bytes
  <2>. QED BY <2>2, <2>3, <2>4
<1>3. /\ Amd /\ ~Intel /\ cpu \in CpuInfo /\ cpu.flags = {} /\ \A f \in Sizes : cpu[f] = 0
      /\ (AtLeast(max, Ext(5)) <=> HasExt(5)) /\ (AtLeast(max, Ext(6)) <=> HasExt(6))
  BY <1>1, VendorsDiffer
  DEF IInv, Stages, TypeOK, CpuInfo, Flags, AllSizes, Unset, HasExt
<1>4. /\ Amd' /\ ~Intel' /\ Info' = Info /\ Info = {}
      /\ HasExt(5)' = HasExt(5) /\ HasExt(6)' = HasExt(6) /\ processor' = processor
  BY <1>1, <1>3, Fixed DEF Info
<1>. HIDE DEF l1, l2
<1>5. /\ c1 \in CpuInfo /\ c1.flags = {} /\ c1.l2cachesize = 0 /\ c1.l3cachesize = 0
      /\ c1.l1icachesize = IF HasExt(5) THEN l1.edx[1] ELSE 0
      /\ c1.l1dcachesize = IF HasExt(5) THEN l1.ecx[1] ELSE 0
  <2>1. CASE HasExt(5)
    <3>1. c1 = [cpu EXCEPT !.l1dcachesize = l1.ecx[1], !.cacheline = l1.ecx[4],
                           !.l1icachesize = l1.edx[1]]
      BY <1>2, <1>3, <2>1
    <3>. HIDE DEF c1
    <3>. QED BY <1>2, <1>3, <2>1, <3>1 DEF CpuInfo, Sizes
  <2>2. CASE ~HasExt(5)
    BY <1>3, <2>2 DEF Sizes
  <2>. QED BY <2>1, <2>2
<1>6. regs' \in Registers
  BY <1>1, <1>2
<1>7. cpu' = IF HasExt(6) THEN [c1 EXCEPT !.l2cachesize = l2.ecx[1]] ELSE c1
  BY <1>1, <1>2, <1>3 DEF AmdL2
<1>. HIDE DEF c1, r1, max
<1>8. /\ cpu' \in CpuInfo /\ cpu'.flags = {} /\ cpu'.l3cachesize = 0
      /\ cpu'.l1icachesize = c1.l1icachesize /\ cpu'.l1dcachesize = c1.l1dcachesize
      /\ cpu'.l2cachesize = IF HasExt(6) THEN l2.ecx[1] ELSE 0
  BY <1>2, <1>5, <1>7 DEF CpuInfo
<1>9. TypeOK'
  BY <1>1, <1>6, <1>8, NoAnswerYet, Fixed DEF IInv, TypeOK, CpuInfo
<1>10. Stages' /\ Flags' /\ Final'
  BY <1>1, <1>4, <1>8 DEF IInv, Stages, Flags, Final
<1>11. \A f \in Sizes : Right(f)'
  BY <1>4, <1>5, <1>8 DEF Right, Sizes, l1, l2
<1>12. AllSizes'
  BY <1>1, <1>11 DEF AllSizes, Unset
<1>. QED BY <1>9, <1>10, <1>12 DEF IInv

LEMMA Common ==
  ASSUME IInv, CommonFeatures
  PROVE  IInv'
<1>. DEFINE max == cpuid("ext")
<1>1. /\ pc = "common" /\ pc' = "answer" /\ Goto("answer") /\ UNCHANGED <<probed, out>>
      /\ regs' = IF AtLeast(max.eax, Ext(1)) THEN cpuid("ext_info") ELSE max
      /\ cpu' = IF Asked(max) THEN [cpu EXCEPT !.flags = @ \cup ExtBits(regs')] ELSE cpu
  BY DEF CommonFeatures, Goto
<1>2. /\ max \in Registers /\ cpuid("ext_info") \in Registers
      /\ max = processor.leaf["ext"] /\ cpuid("ext_info") = processor.leaf["ext_info"]
  <2>1. Typed /\ "ext" \in Leaves /\ "ext_info" \in Leaves
    BY DEF IInv, TypeOK, Typed, Leaves
  <2>. QED BY <2>1, LeafTyped
<1>3. /\ cpu \in CpuInfo /\ cpu.flags = Info /\ \A f \in Sizes : Right(f)
  BY <1>1 DEF IInv, TypeOK, CpuInfo, Flags, AllSizes, Unset
<1>4. (Asked(max) <=> HasExt(1)) /\ (AtLeast(max.eax, Ext(1)) <=> HasExt(1))
  BY <1>2 DEF Asked, HasExt
<1>. HIDE DEF max
<1>5. /\ cpu' \in CpuInfo /\ cpu'.flags = Info \cup Extended
      /\ \A f \in Sizes : cpu'[f] = cpu[f]
  <2>1. CASE HasExt(1)
    <3>1. cpu' = [cpu EXCEPT !.flags = @ \cup Extended]
      BY <1>1, <1>2, <1>4, <2>1 DEF Extended
    <3>2. Extended \subseteq Features
      BY DEF Extended, ExtBits, Features
    <3>. QED BY <1>3, <3>1, <3>2 DEF CpuInfo, Sizes
  <2>2. CASE ~HasExt(1)
    BY <1>1, <1>3, <1>4, <2>2 DEF Extended
  <2>. QED BY <2>1, <2>2
<1>6. /\ Info' = Info /\ Extended' = Extended /\ regs' \in Registers
      /\ Intel' = Intel /\ Amd' = Amd /\ OneRound' = OneRound
      /\ HasExt(5)' = HasExt(5) /\ HasExt(6)' = HasExt(6) /\ processor' = processor
  BY <1>1, <1>2, Fixed
<1>7. TypeOK'
  BY <1>1, <1>5, <1>6, NoAnswerYet, Fixed DEF IInv, TypeOK, CpuInfo
<1>8. Stages' /\ Flags' /\ Final'
  BY <1>1, <1>5, <1>6 DEF IInv, Stages, Flags, Final
<1>9. \A f \in Sizes : Right(f)'
  <2>1. \A S : Described(S)' = Described(S)
    BY <1>6 DEF Described
  <2>. QED BY <1>3, <1>5, <1>6, <2>1 DEF Right
<1>10. AllSizes'
  BY <1>1, <1>9 DEF AllSizes, Unset
<1>. QED BY <1>7, <1>8, <1>10 DEF IInv

\* What is printed is a number that fits the type it is printed from.
LEMMA PrintedFits ==
  ASSUME TypeOK, NEW name \in Names \cup {NotAName}
  PROVE  /\ Printed(name) \in Nat
         /\ (name \in Sizes /\ LongBits = 32) => Printed(name) < 2^22
<1>1. cpu \in CpuInfo
  BY DEF TypeOK, CpuInfo
<1>2. CASE name \in Sizes
  <2>1. cpu[name] \in Nat
    BY <1>1, <1>2 DEF CpuInfo, Sizes
  <2>2. Printed(name) = Shifted(cpu[name])
    BY <1>2 DEF Printed, Sizes, Features
  <2>3. /\ cpu[name] % 2^22 \in Nat /\ cpu[name] % 2^22 < 2^22
    BY <2>1
  <2>. QED BY <2>1, <2>2, <2>3 DEF Shifted
<1>3. CASE name \notin Sizes
  BY <1>1, <1>3 DEF Printed, CpuInfo
<1>. QED BY <1>2, <1>3

LEMMA Answered ==
  ASSUME IInv, Answer
  PROVE  IInv'
<1>1. /\ pc = "answer" /\ pc' = "done" /\ Goto("done") /\ UNCHANGED <<probed, regs, cpu>>
      /\ \E name \in Names \cup {NotAName} : out' = [name |-> name, value |-> Printed(name)]
  BY DEF Answer, Goto
<1>2. PICK name \in Names \cup {NotAName} : out' = [name |-> name, value |-> Printed(name)]
  BY <1>1
<1>3. TypeOK'
  <2>1. Printed(name) \in Nat /\ ((name \in Sizes /\ LongBits = 32) => Printed(name) < 2^22)
    BY PrintedFits DEF IInv
  <2>2. LongBits' = LongBits
    BY <1>1 DEF LongBits, Goto
  <2>. QED BY <1>1, <1>2, <2>1, <2>2, Fixed DEF IInv, TypeOK
<1>4. Stages' /\ Flags' /\ AllSizes'
  BY <1>1 DEF Stages, Flags, AllSizes
<1>5. Final'
  <2>1. Printed(name)' = Printed(name)
    BY <1>1 DEF Printed, Shifted, LongBits, Goto
  <2>2. /\ cpu.flags = Info \cup Extended /\ \A f \in Sizes : Right(f)
    BY <1>1 DEF IInv, Flags, AllSizes, Unset
  <2>3. /\ cpu'.flags = (Info \cup Extended)' /\ \A f \in Sizes : Right(f)'
    BY <1>1, <2>2, Fixed
  <2>. QED BY <1>2, <2>1, <2>3 DEF Final
<1>. QED BY <1>3, <1>4, <1>5 DEF IInv

LEMMA Unchanged ==
  ASSUME IInv, UNCHANGED vars
  PROVE  IInv'
<1>. USE DEF vars
<1>1. TypeOK' /\ Stages' /\ Flags'
  BY DEF IInv, TypeOK, LongBits, Stages, Intel, Amd, Flags, Info, Extended, HasExt
<1>2. \A f \in Sizes : Right(f)' = Right(f)
  BY DEF Right, Intel, Amd, OneRound, Described, HasExt
<1>3. AllSizes'
  BY <1>2 DEF IInv, AllSizes, Unset
<1>4. Final'
  BY <1>2 DEF IInv, Final, Support, Printed, Shifted, LongBits, Info, Extended, HasExt, Intel
<1>. QED BY <1>1, <1>3, <1>4 DEF IInv

LEMMA NextIInv ==
  ASSUME IInv, [Next]_vars
  PROVE  IInv'
BY Probing, Supported, Parameters, Detected, IntelInfo, Searching, AmdSizes, Common, Answered,
   Unchanged DEF Next

----------------------------------------------------------------------------
(* Theorems *)

\* What sd-cpuidx86 knows at each of its steps, of this processor alone.
THEOREM Invariance == Spec => []IInv
BY InitIInv, NextIInv, PTL DEF Spec

\* The types, and that a size is printed from an unsigned long it fits.
THEOREM TypeCorrect == Spec => []TypeOK
<1>1. IInv => TypeOK
  BY DEF IInv
<1>. QED BY <1>1, Invariance, PTL

\* That a leaf the processor has sets the bit of a register.
Says(l, r, b) == Bit(processor.leaf[l][r], b) /\ IF l = "info" THEN Intel ELSE HasExt(1)
SaysOne(f) == \E d \in Documented(f) : Says(d[1], d[2], d[3])

LEMMA OnePlace ==
  ASSUME NEW f, NEW l, NEW r, NEW b, Documented(f) = {<<l, r, b>>}
  PROVE  SaysOne(f) <=> Says(l, r, b)
<1>1. <<l, r, b>>[1] = l /\ <<l, r, b>>[2] = r /\ <<l, r, b>>[3] = b
  OBVIOUS
<1>. QED BY <1>1 DEF SaysOne

LEMMA TwoPlaces ==
  ASSUME NEW f, NEW l, NEW r, NEW b, NEW m, NEW q, NEW c,
         Documented(f) = {<<l, r, b>>, <<m, q, c>>}
  PROVE  SaysOne(f) <=> Says(l, r, b) \/ Says(m, q, c)
<1>1. /\ <<l, r, b>>[1] = l /\ <<l, r, b>>[2] = r /\ <<l, r, b>>[3] = b
      /\ <<m, q, c>>[1] = m /\ <<m, q, c>>[2] = q /\ <<m, q, c>>[3] = c
  OBVIOUS
<1>2. SaysOne(f) <=> \E d \in {<<l, r, b>>, <<m, q, c>>} : Says(d[1], d[2], d[3])
  BY DEF SaysOne
<1>. DEFINE d == <<l, r, b>>
            e == <<m, q, c>>
<1>3. SaysOne(f) <=> Says(d[1], d[2], d[3]) \/ Says(e[1], e[2], e[3])
  BY <1>2, Zenon
<1>. QED BY <1>1, <1>3, Zenon

LEMMA Places ==
  /\ Documented("mmx")      = {<<"info", "edx", 23>>, <<"ext_info", "edx", 23>>}
  /\ Documented("mmx2")     = {<<"info", "edx", 25>>, <<"ext_info", "edx", 22>>}
  /\ Documented("sse")      = {<<"info", "edx", 25>>}
  /\ Documented("sse2")     = {<<"info", "edx", 26>>}
  /\ Documented("sse3")     = {<<"info", "ecx", 0>>}
  /\ Documented("sse4.1")   = {<<"info", "ecx", 19>>}
  /\ Documented("sse4.2")   = {<<"info", "ecx", 20>>}
  /\ Documented("3dnow")    = {<<"ext_info", "edx", 31>>}
  /\ Documented("3dnowext") = {<<"ext_info", "edx", 30>>}
<1>1. Documented("mmx") = {<<"info", "edx", 23>>, <<"ext_info", "edx", 23>>}
  BY DEF Documented
<1>2. Documented("mmx2") = {<<"info", "edx", 25>>, <<"ext_info", "edx", 22>>}
  BY DEF Documented
<1>3. Documented("sse") = {<<"info", "edx", 25>>} /\ Documented("sse2") = {<<"info", "edx", 26>>}
  BY DEF Documented
<1>4. Documented("sse3") = {<<"info", "ecx", 0>>} /\ Documented("sse4.1") = {<<"info", "ecx", 19>>}
  BY DEF Documented
<1>5. /\ Documented("sse4.2") = {<<"info", "ecx", 20>>}
      /\ Documented("3dnow") = {<<"ext_info", "edx", 31>>}
  BY DEF Documented
<1>6. Documented("3dnowext") = {<<"ext_info", "edx", 30>>}
  BY DEF Documented
<1>. QED BY <1>1, <1>2, <1>3, <1>4, <1>5, <1>6

\* What the flags mean, a feature at a time.
LEMMA FlagsSay ==
  ASSUME NEW f \in Features
  PROVE  f \in Info \cup Extended <=> SaysOne(f)
<1>. DEFINE info == processor.leaf["info"]
            ext  == processor.leaf["ext_info"]
<1>1. \A b : /\ Says("info", "edx", b) <=> Intel /\ Bit(info.edx, b)
             /\ Says("info", "ecx", b) <=> Intel /\ Bit(info.ecx, b)
             /\ Says("ext_info", "edx", b) <=> HasExt(1) /\ Bit(ext.edx, b)
  BY DEF Says
<1>2. f \in Info <=>
        \/ f = "mmx" /\ Says("info", "edx", 23)
        \/ f \in {"mmx2", "sse"} /\ Says("info", "edx", 25)
        \/ f = "sse2" /\ Says("info", "edx", 26)
        \/ f = "sse3" /\ Says("info", "ecx", 0)
        \/ f = "sse4.1" /\ Says("info", "ecx", 19)
        \/ f = "sse4.2" /\ Says("info", "ecx", 20)
  BY <1>1 DEF Info, InfoBits
<1>3. f \in Extended <=>
        \/ f = "mmx" /\ Says("ext_info", "edx", 23)
        \/ f = "mmx2" /\ Says("ext_info", "edx", 22)
        \/ f = "3dnow" /\ Says("ext_info", "edx", 31)
        \/ f = "3dnowext" /\ Says("ext_info", "edx", 30)
  BY <1>1 DEF Extended, ExtBits
<1>4. CASE f = "mmx"
  BY <1>2, <1>3, <1>4, Places, TwoPlaces
<1>5. CASE f = "mmx2"
  BY <1>2, <1>3, <1>5, Places, TwoPlaces
<1>6. CASE f = "sse"
  BY <1>2, <1>3, <1>6, Places, OnePlace
<1>7. CASE f = "sse2"
  BY <1>2, <1>3, <1>7, Places, OnePlace
<1>8. CASE f = "sse3"
  BY <1>2, <1>3, <1>8, Places, OnePlace
<1>9. CASE f = "sse4.1"
  BY <1>2, <1>3, <1>9, Places, OnePlace
<1>10. CASE f = "sse4.2"
  BY <1>2, <1>3, <1>10, Places, OnePlace
<1>11. CASE f = "3dnow"
  BY <1>2, <1>3, <1>11, Places, OnePlace
<1>12. CASE f = "3dnowext"
  BY <1>2, <1>3, <1>12, Places, OnePlace
<1>. QED BY <1>4, <1>5, <1>6, <1>7, <1>8, <1>9, <1>10, <1>11, <1>12 DEF Features

\* A feature is printed when, and only when, the processor says in a leaf it has
\* that it has it, whatever the registers held and its other leaves answer.
THEOREM FeaturesAlways == Spec => []FeaturesAreTheCpus
<1>1. IInv => FeaturesAreTheCpus
  <2>. SUFFICES ASSUME IInv, pc = "done", out.name \in Features
                PROVE  /\ out.value = 1 => SaysOne(out.name)
                       /\ (SaysOne(out.name) /\ Support = {TRUE}) => out.value = 1
    BY DEF FeaturesAreTheCpus, Asks, SaysOne, Says
  <2>. DEFINE name  == out.name
              value == out.value
  <2>1. SaysOne(name) <=> name \in Info \cup Extended
    BY FlagsSay
  <2>2. CASE FALSE \in Support /\ value = 0
    <3>1. Support # {TRUE}
      BY <2>2, Zenon
    <3>2. value # 1
      BY <2>2
    <3>. QED BY <3>1, <3>2, Zenon
  <2>3. CASE value = Printed(name) /\ cpu.flags = Info \cup Extended
    <3>1. Printed(name) = IF name \in cpu.flags THEN 1 ELSE 0
      BY DEF Printed, Features, Sizes
    <3>2. value = 1 <=> name \in Info \cup Extended
      <4>. HIDE DEF value, name
      <4>. QED BY <2>3, <3>1
    <3>. QED BY <2>1, <3>2, Zenon
  <2>. QED BY <2>2, <2>3 DEF IInv, Final
<1>. QED BY <1>1, Invariance, PTL

\* A size is printed as a descriptor of an Intel processor or a leaf of one of
\* AMD gives it, or it is zero, whichever other leaves answer what.
THEOREM SizesAlways == Spec => []SizesAreTheCpus
<1>1. ASSUME IInv, Asks(Sizes), Support = {TRUE} PROVE SizesAreTheCpus
  <2>. DEFINE name  == out.name
              sizes == Described(Table[name])
              l1    == processor.leaf["l1"]
              l2    == processor.leaf["l2"]
  <2>1. name \in Sizes /\ pc = "done"
    BY <1>1 DEF Asks
  <2>2. /\ out.value = Shifted(cpu[name]) /\ Right(name) /\ cpu[name] \in Nat
    <3>1. out.value = Printed(name) /\ Right(name)
      BY <1>1, <2>1 DEF IInv, Final
    <3>2. cpu[name] \in Nat
      BY <1>1, <2>1 DEF IInv, TypeOK, Sizes
    <3>3. Printed(name) = Shifted(cpu[name])
      BY <2>1 DEF Printed, Sizes, Features
    <3>. QED BY <3>1, <3>2, <3>3
  <2>3. LongBits # 32 \/ cpu[name] < 2^22 => out.value = cpu[name]
    BY <2>2 DEF Shifted
  <2>. DEFINE amd == CASE name = "l1icachesize" /\ HasExt(5) -> l1.edx[1]
                       [] name = "l1dcachesize" /\ HasExt(5) -> l1.ecx[1]
                       [] name = "l2cachesize" /\ HasExt(6) -> l2.ecx[1]
                       [] OTHER -> 0
  <2>4. ASSUME Intel, OneRound, LongBits = 32 => \A s \in sizes : s < 2^22
        PROVE  IF sizes = {} THEN out.value = 0 ELSE out.value \in sizes
    <3>1. IF sizes = {} THEN cpu[name] = 0 ELSE cpu[name] \in sizes
      BY <2>2, <2>4 DEF Right
    <3>. HIDE DEF sizes, name
    <3>2. sizes # {} => LongBits # 32 \/ cpu[name] < 2^22
      BY <2>4, <3>1
    <3>3. out.value = cpu[name]
      BY <2>3, <3>1, <3>2
    <3>. QED BY <3>1, <3>3
  <2>5. ASSUME Amd PROVE out.value = amd
    <3>1. cpu[name] = amd
      BY <2>2, <2>5 DEF Right
    <3>2. l1.edx[1] \in 0..255 /\ l1.ecx[1] \in 0..255 /\ l2.ecx[1] \in 0..255
      <4>. HIDE DEF amd
      <4>1. l1 \in Registers /\ l2 \in Registers
        BY <1>1 DEF IInv, TypeOK, Leaves
      <4>. HIDE DEF l1, l2
      <4>2. l1.edx \in Words /\ l1.ecx \in Words /\ l2.ecx \in Words
        BY <4>1 DEF Registers
      <4>3. \A w \in Words : w[1] \in 0..255
        BY DEF Words, Bytes
      <4>. QED BY <4>2, <4>3
    <3>. HIDE DEF l1, l2
    <3>3. amd \in 0..255
      BY <3>2
    <3>. HIDE DEF amd, name
    <3>4. cpu[name] < 2^22
      BY <3>1, <3>3
    <3>. QED BY <2>3, <3>1, <3>4
  <2>. QED BY <2>4, <2>5 DEF SizesAreTheCpus
<1>2. IInv => SizesAreTheCpus
  BY <1>1 DEF SizesAreTheCpus
<1>. QED BY <1>2, Invariance, PTL

----------------------------------------------------------------------------
(* The two probes of the compiler *)

\* The last section that holds, of a list of n.
LEMMA Greatest ==
  ASSUME NEW n \in Nat, NEW S, S \subseteq 1..n, S # {}
  PROVE  LastOf(S) \in S /\ \A j \in S : j <= LastOf(S)
<1>. DEFINE T == {n - x : x \in S}
<1>1. T \subseteq Nat /\ T # {}
  <2>1. \A x \in S : n - x \in Nat
    OBVIOUS
  <2>. QED BY <2>1
<1>2. PICK t \in T : \A y \in T : t <= y
  <2>. HIDE DEF T
  <2>. QED BY <1>1, Least
<1>3. PICK k \in S : t = n - k
  BY <1>2
<1>4. \A j \in S : j <= k
  <2>. SUFFICES ASSUME NEW j \in S PROVE j <= k
    OBVIOUS
  <2>1. n - k <= n - j
    BY <1>2, <1>3
  <2>2. j \in 1..n /\ k \in 1..n
    OBVIOUS
  <2>. QED BY <2>1, <2>2
<1>. QED BY <1>4 DEF LastOf

LEMMA ListLengths == Len(CcTypes) = 49 /\ Len(CcVersions) = 35
<1>1. Len(CcTypes) = 49
  BY DEF CcTypes
<1>2. Len(CcVersions) = 35
  BY DEF CcVersions, Sgi
<1>. QED BY <1>1, <1>2

LEMMA TypeDecided ==
  ASSUME NEW macros
  PROVE  LET T == TypeSections(macros)
             j == LastOf(T)
         IN IF T = {} THEN sd_cctype(macros) = "UNKNOWN"
            ELSE /\ j \in T /\ \A i \in T : i <= j
                 /\ sd_cctype(macros) = CcTypes[j][1]
<1>. DEFINE T == TypeSections(macros)
            j == LastOf(T)
<1>1. T \subseteq 1..49
  BY ListLengths DEF TypeSections
<1>2. CASE T = {}
  BY <1>2 DEF sd_cctype, LastOf
<1>3. CASE T # {}
  <2>. HIDE DEF T
  <2>1. j \in T /\ \A i \in T : i <= j
    BY <1>1, <1>3, Greatest
  <2>2. j # 0
    BY <1>1, <2>1
  <2>3. sd_cctype(macros) = CcTypes[j][1]
    BY <2>2 DEF sd_cctype, T
  <2>. QED BY <1>3, <2>1, <2>3 DEF T
<1>. QED BY <1>2, <1>3

LEMMA VersionDecided ==
  ASSUME NEW macros
  PROVE  LET V == VersionSections(macros)
             k == LastOf(V)
         IN IF V = {} THEN sd_ccversion(macros) = "0.0.0"
            ELSE /\ k \in V /\ \A l \in V : l <= k
                 /\ sd_ccversion(macros) = CcVersions[k][1]
<1>. DEFINE V == VersionSections(macros)
            k == LastOf(V)
<1>1. V \subseteq 1..35
  BY ListLengths DEF VersionSections
<1>2. CASE V = {}
  BY <1>2 DEF sd_ccversion, LastOf
<1>3. CASE V # {}
  <2>. HIDE DEF V
  <2>1. k \in V /\ \A l \in V : l <= k
    BY <1>1, <1>3, Greatest
  <2>2. k # 0
    BY <1>1, <2>1
  <2>3. sd_ccversion(macros) = CcVersions[k][1]
    BY <2>2 DEF sd_ccversion, V
  <2>. QED BY <1>3, <2>1, <2>3 DEF V
<1>. QED BY <1>2, <1>3

\* The type that a section of sd-ccversion.c is for; EDG is none.
TypeOf == <<2, 5, 6, 7, 8, 10, 11, 12, 0, 13, 14, 15, 18, 18, 18, 17, 19, 20, 23, 21, 22, 4, 28, 29,
            29, 30, 33, 35, 34, 40, 41, 42, 43, 46, 49>>
Edg == 9

\* The k-th version has the name of its type, and its macros tell the type.
Named(k)    == CcTypes[TypeOf[k]][1] = CcVersions[k][1]
Included(k) == CcVersions[k][2] \subseteq CcTypes[TypeOf[k]][2]

LEMMA VersionsNamed == \A k \in 1..35 : k # Edg => TypeOf[k] \in 1..49 /\ Named(k)
<1>1. /\ Named(1) /\ Named(2) /\ Named(3) /\ Named(4) /\ Named(5) /\ Named(6) /\ Named(7)
      /\ Named(8) /\ Named(10) /\ Named(11) /\ Named(12)
  BY DEF Named, TypeOf, CcTypes, CcVersions, Sgi
<1>2. /\ Named(13) /\ Named(14) /\ Named(15) /\ Named(16) /\ Named(17) /\ Named(18)
      /\ Named(19) /\ Named(20) /\ Named(21) /\ Named(22) /\ Named(23)
  BY DEF Named, TypeOf, CcTypes, CcVersions, Sgi
<1>3. /\ Named(24) /\ Named(25) /\ Named(26) /\ Named(27) /\ Named(28) /\ Named(29)
      /\ Named(30) /\ Named(31) /\ Named(32) /\ Named(33) /\ Named(34) /\ Named(35)
  BY DEF Named, TypeOf, CcTypes, CcVersions, Sgi
<1>4. \A k \in 1..35 : k # Edg => TypeOf[k] \in 1..49
  BY DEF TypeOf, Edg
<1>5. ASSUME NEW k \in 1..35, k # Edg PROVE Named(k)
  BY <1>1, <1>2, <1>3, <1>5 DEF Edg
<1>. QED BY <1>4, <1>5

LEMMA VersionsIncluded == \A k \in 1..35 : k \notin {2, 3, 4, 5, Edg} => Included(k)
<1>1. /\ Included(1) /\ Included(6) /\ Included(7) /\ Included(8) /\ Included(10)
      /\ Included(11) /\ Included(12) /\ Included(13) /\ Included(14) /\ Included(15)
  BY DEF Included, TypeOf, CcTypes, CcVersions, Sgi
<1>2. /\ Included(16) /\ Included(17) /\ Included(18) /\ Included(19) /\ Included(20)
      /\ Included(21) /\ Included(22) /\ Included(23) /\ Included(24) /\ Included(25)
  BY DEF Included, TypeOf, CcTypes, CcVersions, Sgi
<1>3. /\ Included(26) /\ Included(27) /\ Included(28) /\ Included(29) /\ Included(30)
      /\ Included(31) /\ Included(32) /\ Included(33) /\ Included(34) /\ Included(35)
  BY DEF Included, TypeOf, CcTypes, CcVersions, Sgi
<1>. QED BY <1>1, <1>2, <1>3 DEF Edg

\* The types by which a version of their own is found: of no section, of one whose
\* macros are theirs, or one of those that need a look.
Lacking(j)     == CcTypes[j][1] \in Unversioned
Apart          == {5, 6, 7, 8, 10, 11, 18, 19, 22, 23, 29}
SameMacros(k)  == Len(CcVersions[k]) = 2 /\ CcVersions[k][2] = CcTypes[TypeOf[k]][2]
Alike(j)       == \E k \in 1..35 : k # Edg /\ TypeOf[k] = j /\ SameMacros(k)

LEMMA TypesKnown == \A j \in 1..49 : Lacking(j) \/ Alike(j) \/ j \in Apart
<1>1. /\ Lacking(1) /\ Lacking(3) /\ Lacking(9) /\ Lacking(16) /\ Lacking(24) /\ Lacking(25)
      /\ Lacking(26) /\ Lacking(27) /\ Lacking(31)
  BY DEF Lacking, CcTypes, Unversioned
<1>2. /\ Lacking(32) /\ Lacking(36) /\ Lacking(37) /\ Lacking(38) /\ Lacking(39) /\ Lacking(44)
      /\ Lacking(45) /\ Lacking(47) /\ Lacking(48)
  BY DEF Lacking, CcTypes, Unversioned
<1>3. /\ SameMacros(1) /\ SameMacros(8) /\ SameMacros(10) /\ SameMacros(11) /\ SameMacros(12)
      /\ SameMacros(16) /\ SameMacros(18) /\ SameMacros(20) /\ SameMacros(22) /\ SameMacros(23)
  BY DEF SameMacros, TypeOf, CcTypes, CcVersions, Sgi
<1>4. /\ SameMacros(26) /\ SameMacros(27) /\ SameMacros(28) /\ SameMacros(29) /\ SameMacros(30)
      /\ SameMacros(31) /\ SameMacros(32) /\ SameMacros(33) /\ SameMacros(34) /\ SameMacros(35)
  BY DEF SameMacros, TypeOf, CcTypes, CcVersions, Sgi
<1>5. /\ Alike(2) /\ Alike(12) /\ Alike(13) /\ Alike(14) /\ Alike(15) /\ Alike(17) /\ Alike(20)
      /\ Alike(21) /\ Alike(4) /\ Alike(28)
  BY <1>3 DEF Alike, TypeOf, Edg
<1>6. /\ Alike(30) /\ Alike(33) /\ Alike(35) /\ Alike(34) /\ Alike(40) /\ Alike(41) /\ Alike(42)
      /\ Alike(43) /\ Alike(46) /\ Alike(49)
  BY <1>4 DEF Alike, TypeOf, Edg
<1>. QED BY <1>1, <1>2, <1>5, <1>6 DEF Apart

\* The sections that come in the other order.
LEMMA ExchangedOnly ==
  ASSUME NEW k \in 1..35, NEW l \in 1..35, l < k, k # Edg, l # Edg, TypeOf[k] < TypeOf[l]
  PROVE  <<CcVersions[k][1], CcVersions[l][1]>> \in Exchanged
<1>0. k \in {16, 20, 21, 22, 29}
  BY DEF TypeOf, Edg
<1>1. CASE k = 16
  <2>1. l \in {13, 14, 15}
    BY <1>1 DEF TypeOf, Edg
  <2>. QED BY <1>1, <2>1 DEF CcVersions, Sgi, Exchanged
<1>2. CASE k \in {20, 21}
  <2>1. l = 19
    BY <1>2 DEF TypeOf, Edg
  <2>. QED BY <1>2, <2>1 DEF CcVersions, Sgi, Exchanged
<1>3. CASE k = 22
  <2>1. l \in 2..21 \ {Edg}
    BY <1>3 DEF TypeOf, Edg
  <2>. QED BY <1>3, <2>1 DEF CcVersions, Sgi, Exchanged, Edg
<1>4. CASE k = 29
  <2>1. l = 28
    BY <1>4 DEF TypeOf, Edg
  <2>. QED BY <1>4, <2>1 DEF CcVersions, Sgi, Exchanged
<1>. QED BY <1>0, <1>1, <1>2, <1>3, <1>4

\* What Announced says of each of its pairs.
Pair(macros, s, t) == s \cap macros # {} <=> t \cap macros # {}
LEMMA AnnouncedPairs ==
  ASSUME NEW macros, Announced(macros)
  PROVE  /\ Pair(macros, {"__COMO__"}, {"__COMO_VERSION__"})
         /\ Pair(macros, {"__DECC", "__VAXC", "VAXC"}, {"__DECC_VER"})
         /\ Pair(macros, {"__DECCXX", "__VAXC", "VAXC"}, {"__DECCXX_VER"})
         /\ Pair(macros, {"_CRAYC"}, {"_CRAY"})
         /\ Pair(macros, {"__DMC__", "__SC__", "__ZTC__"}, {"__DMC__"})
         /\ Pair(macros, {"__DJGPP__", "__GO32__"}, {"__DJGPP__"})
         /\ Pair(macros, {"__INTEL_COMPILER", "__ICC", "__ECC", "__ICL"}, {"__INTEL_COMPILER"})
         /\ Pair(macros, {"__C51__", "__CX51__"}, {"__C51__"})
         /\ Pair(macros, {"__CA__", "__KEIL__"}, {"__CA__"})
         /\ Pair(macros, {"__sgi", "sgi"}, {"_SGI_COMPILER_VERSION", "_COMPILER_VERSION"})
BY DEF Announced, Pair

\* Of a version that holds, but EDG's, the type holds.
LEMMA TypeOfVersion ==
  ASSUME NEW macros, Announced(macros), NEW k \in VersionSections(macros), k # Edg
  PROVE  /\ k \in 1..35 /\ TypeOf[k] \in TypeSections(macros)
         /\ CcTypes[TypeOf[k]][1] = CcVersions[k][1]
<1>1. k \in 1..35 /\ CcVersions[k][2] \cap macros # {}
  BY ListLengths DEF VersionSections
<1>2. TypeOf[k] \in 1..49 /\ CcTypes[TypeOf[k]][1] = CcVersions[k][1]
  BY <1>1, VersionsNamed DEF Named
<1>3. SUFFICES CcTypes[TypeOf[k]][2] \cap macros # {}
  BY <1>1, <1>2, ListLengths DEF TypeSections
<1>4. CASE k \notin {2, 3, 4, 5}
  <2>1. CcVersions[k][2] \subseteq CcTypes[TypeOf[k]][2]
    BY <1>1, <1>4, VersionsIncluded DEF Included
  <2>. QED BY <1>1, <2>1
<1>5. CASE k = 2
  <2>1. CcVersions[2][2] = {"__COMO_VERSION__"} /\ CcTypes[TypeOf[2]][2] = {"__COMO__"}
    BY DEF TypeOf, CcTypes, CcVersions, Sgi
  <2>. QED BY <1>1, <1>5, <2>1, AnnouncedPairs DEF Pair
<1>6. CASE k = 3
  <2>1. CcVersions[3][2] = {"__DECC_VER"} /\ CcTypes[TypeOf[3]][2] = {"__DECC", "__VAXC", "VAXC"}
    BY DEF TypeOf, CcTypes, CcVersions, Sgi
  <2>. QED BY <1>1, <1>6, <2>1, AnnouncedPairs DEF Pair
<1>7. CASE k = 4
  <2>1. /\ CcVersions[4][2] = {"__DECCXX_VER"}
        /\ CcTypes[TypeOf[4]][2] = {"__DECCXX", "__VAXC", "VAXC"}
    BY DEF TypeOf, CcTypes, CcVersions, Sgi
  <2>. QED BY <1>1, <1>7, <2>1, AnnouncedPairs DEF Pair
<1>8. CASE k = 5
  <2>1. CcVersions[5][2] = {"_CRAY"} /\ CcTypes[TypeOf[5]][2] = {"_CRAYC"}
    BY DEF TypeOf, CcTypes, CcVersions, Sgi
  <2>. QED BY <1>1, <1>8, <2>1, AnnouncedPairs DEF Pair
<1>. QED BY <1>4, <1>5, <1>6, <1>7, <1>8

\* A section of two components holds when one of its macros is defined.
LEMMA Holds ==
  ASSUME NEW macros, NEW k \in 1..35, Len(CcVersions[k]) = 2, CcVersions[k][2] \cap macros # {}
  PROVE  k \in VersionSections(macros)
BY ListLengths DEF VersionSections

\* Of a type that holds and is not without, a version holds.
LEMMA VersionOfIt ==
  ASSUME NEW macros, Announced(macros), NEW j \in TypeSections(macros),
         CcTypes[j][1] \notin Unversioned
  PROVE  \E k \in VersionSections(macros) : k # Edg /\ TypeOf[k] = j
<1>1. j \in 1..49 /\ CcTypes[j][2] \cap macros # {}
  BY ListLengths DEF TypeSections
<1>2. Alike(j) \/ j \in Apart
  BY <1>1, TypesKnown DEF Lacking
<1>3. CASE Alike(j)
  <2>1. PICK k \in 1..35 : k # Edg /\ TypeOf[k] = j /\ SameMacros(k)
    BY <1>3 DEF Alike
  <2>2. Len(CcVersions[k]) = 2 /\ CcVersions[k][2] \cap macros # {}
    BY <1>1, <2>1 DEF SameMacros
  <2>. QED BY <2>1, <2>2, Holds
<1>4. CASE j = 5
  <2>1. /\ TypeOf[2] = 5 /\ Len(CcVersions[2]) = 2 /\ CcVersions[2][2] = {"__COMO_VERSION__"}
        /\ CcTypes[5][2] = {"__COMO__"}
    BY DEF TypeOf, CcTypes, CcVersions, Sgi
  <2>2. CcVersions[2][2] \cap macros # {}
    BY <1>1, <1>4, <2>1, AnnouncedPairs DEF Pair
  <2>3. 2 \in VersionSections(macros)
    BY <2>1, <2>2, Holds
  <2>. QED BY <1>4, <2>1, <2>3 DEF Edg
<1>5. CASE j = 6
  <2>1. /\ TypeOf[3] = 6 /\ Len(CcVersions[3]) = 2 /\ CcVersions[3][2] = {"__DECC_VER"}
        /\ CcTypes[6][2] = {"__DECC", "__VAXC", "VAXC"}
    BY DEF TypeOf, CcTypes, CcVersions, Sgi
  <2>2. CcVersions[3][2] \cap macros # {}
    BY <1>1, <1>5, <2>1, AnnouncedPairs DEF Pair
  <2>3. 3 \in VersionSections(macros)
    BY <2>1, <2>2, Holds
  <2>. QED BY <1>5, <2>1, <2>3 DEF Edg
<1>6. CASE j = 7
  <2>1. /\ TypeOf[4] = 7 /\ Len(CcVersions[4]) = 2 /\ CcVersions[4][2] = {"__DECCXX_VER"}
        /\ CcTypes[7][2] = {"__DECCXX", "__VAXC", "VAXC"}
    BY DEF TypeOf, CcTypes, CcVersions, Sgi
  <2>2. CcVersions[4][2] \cap macros # {}
    BY <1>1, <1>6, <2>1, AnnouncedPairs DEF Pair
  <2>3. 4 \in VersionSections(macros)
    BY <2>1, <2>2, Holds
  <2>. QED BY <1>6, <2>1, <2>3 DEF Edg
<1>7. CASE j = 8
  <2>1. /\ TypeOf[5] = 8 /\ Len(CcVersions[5]) = 2 /\ CcVersions[5][2] = {"_CRAY"}
        /\ CcTypes[8][2] = {"_CRAYC"}
    BY DEF TypeOf, CcTypes, CcVersions, Sgi
  <2>2. CcVersions[5][2] \cap macros # {}
    BY <1>1, <1>7, <2>1, AnnouncedPairs DEF Pair
  <2>3. 5 \in VersionSections(macros)
    BY <2>1, <2>2, Holds
  <2>. QED BY <1>7, <2>1, <2>3 DEF Edg
<1>8. CASE j = 10
  <2>1. /\ TypeOf[6] = 10 /\ Len(CcVersions[6]) = 2 /\ CcVersions[6][2] = {"__DMC__"}
        /\ CcTypes[10][2] = {"__DMC__", "__SC__", "__ZTC__"}
    BY DEF TypeOf, CcTypes, CcVersions, Sgi
  <2>2. CcVersions[6][2] \cap macros # {}
    BY <1>1, <1>8, <2>1, AnnouncedPairs DEF Pair
  <2>3. 6 \in VersionSections(macros)
    BY <2>1, <2>2, Holds
  <2>. QED BY <1>8, <2>1, <2>3 DEF Edg
<1>9. CASE j = 11
  <2>1. /\ TypeOf[7] = 11 /\ Len(CcVersions[7]) = 2 /\ CcVersions[7][2] = {"__DJGPP__"}
        /\ CcTypes[11][2] = {"__DJGPP__", "__GO32__"}
    BY DEF TypeOf, CcTypes, CcVersions, Sgi
  <2>2. CcVersions[7][2] \cap macros # {}
    BY <1>1, <1>9, <2>1, AnnouncedPairs DEF Pair
  <2>3. 7 \in VersionSections(macros)
    BY <2>1, <2>2, Holds
  <2>. QED BY <1>9, <2>1, <2>3 DEF Edg
<1>10. CASE j = 18
  <2>1. /\ CcTypes[18][2] = {"__xlC__", "__IBMC__", "__IBMCPP__"}
        /\ TypeOf[13] = 18 /\ Len(CcVersions[13]) = 2 /\ CcVersions[13][2] = {"__xlC__"}
        /\ TypeOf[14] = 18 /\ Len(CcVersions[14]) = 2 /\ CcVersions[14][2] = {"__IBMC__"}
        /\ TypeOf[15] = 18 /\ Len(CcVersions[15]) = 2 /\ CcVersions[15][2] = {"__IBMCPP__"}
    BY DEF TypeOf, CcTypes, CcVersions, Sgi
  <2>2. PICK k \in {13, 14, 15} : CcVersions[k][2] \cap macros # {}
    BY <1>1, <1>10, <2>1
  <2>3. k \in VersionSections(macros)
    BY <2>1, <2>2, Holds
  <2>. QED BY <1>10, <2>1, <2>2, <2>3 DEF Edg
<1>11. CASE j = 19
  <2>1. /\ TypeOf[17] = 19 /\ Len(CcVersions[17]) = 2 /\ CcVersions[17][2] = {"__INTEL_COMPILER"}
        /\ CcTypes[19][2] = {"__INTEL_COMPILER", "__ICC", "__ECC", "__ICL"}
    BY DEF TypeOf, CcTypes, CcVersions, Sgi
  <2>2. CcVersions[17][2] \cap macros # {}
    BY <1>1, <1>11, <2>1, AnnouncedPairs DEF Pair
  <2>3. 17 \in VersionSections(macros)
    BY <2>1, <2>2, Holds
  <2>. QED BY <1>11, <2>1, <2>3 DEF Edg
<1>12. CASE j = 22
  <2>1. /\ TypeOf[21] = 22 /\ Len(CcVersions[21]) = 2 /\ CcVersions[21][2] = {"__C51__"}
        /\ CcTypes[22][2] = {"__C51__", "__CX51__"}
    BY DEF TypeOf, CcTypes, CcVersions, Sgi
  <2>2. CcVersions[21][2] \cap macros # {}
    BY <1>1, <1>12, <2>1, AnnouncedPairs DEF Pair
  <2>3. 21 \in VersionSections(macros)
    BY <2>1, <2>2, Holds
  <2>. QED BY <1>12, <2>1, <2>3 DEF Edg
<1>13. CASE j = 23
  <2>1. /\ TypeOf[19] = 23 /\ Len(CcVersions[19]) = 2 /\ CcVersions[19][2] = {"__CA__"}
        /\ CcTypes[23][2] = {"__CA__", "__KEIL__"}
    BY DEF TypeOf, CcTypes, CcVersions, Sgi
  <2>2. CcVersions[19][2] \cap macros # {}
    BY <1>1, <1>13, <2>1, AnnouncedPairs DEF Pair
  <2>3. 19 \in VersionSections(macros)
    BY <2>1, <2>2, Holds
  <2>. QED BY <1>13, <2>1, <2>3 DEF Edg
<1>14. CASE j = 29
  <2>1. /\ CcTypes[29][2] = {"__sgi", "sgi"} /\ TypeOf[24] = 29 /\ TypeOf[25] = 29
        /\ CcVersions[24] = <<"MIPSPRO", {"__sgi", "sgi"}, "_SGI_COMPILER_VERSION">>
        /\ CcVersions[25] = <<"MIPSPRO", {"__sgi", "sgi"}, "_COMPILER_VERSION">>
    BY DEF TypeOf, CcTypes, CcVersions, Sgi
  <2>2. {"__sgi", "sgi"} \cap macros # {}
    BY <1>1, <1>14, <2>1
  <2>3. "_SGI_COMPILER_VERSION" \in macros \/ "_COMPILER_VERSION" \in macros
    BY <2>2, AnnouncedPairs DEF Pair
  <2>4. 24 \in VersionSections(macros) \/ 25 \in VersionSections(macros)
    BY <2>1, <2>2, <2>3, ListLengths DEF VersionSections
  <2>. QED BY <1>14, <2>1, <2>4 DEF Edg
<1>. QED BY <1>2, <1>3, <1>4, <1>5, <1>6, <1>7, <1>8, <1>9, <1>10, <1>11, <1>12, <1>13,
            <1>14 DEF Apart

\* What the lists say of a compiler that is announced and in order, and whose type
\* is not one without a section: of the sections that hold, the last of the one is
\* of the type of the last of the other.
LEMMA ListsAgree ==
  ASSUME NEW macros, Announced(macros), InOrder(macros, sd_cctype(macros)),
         sd_cctype(macros) \notin Unversioned
  PROVE  \/ sd_ccversion(macros) \in {sd_cctype(macros), "EDG"}
         \/ sd_cctype(macros) = "UNKNOWN" /\ sd_ccversion(macros) = "0.0.0"
<1>. DEFINE T == TypeSections(macros)
            V == VersionSections(macros)
            j == LastOf(T)
            k == LastOf(V)
<1>1. V # {} => k \in V /\ (\A l \in V : l <= k) /\ sd_ccversion(macros) = CcVersions[k][1]
  BY VersionDecided
<1>2. T # {} => j \in T /\ (\A i \in T : i <= j) /\ sd_cctype(macros) = CcTypes[j][1]
  BY TypeDecided
<1>3. CASE V # {} /\ k = Edg
  <2>1. CcVersions[Edg][1] = "EDG"
    BY DEF CcVersions, Sgi, Edg
  <2>. QED BY <1>1, <1>3, <2>1
<1>4. CASE V # {} /\ k # Edg
  <2>1. /\ k \in 1..35 /\ TypeOf[k] \in T /\ CcTypes[TypeOf[k]][1] = CcVersions[k][1]
    BY <1>1, <1>4, TypeOfVersion
  <2>2. j \in T /\ TypeOf[k] <= j /\ sd_cctype(macros) = CcTypes[j][1]
    BY <1>2, <2>1
  <2>3. PICK l \in V : l # Edg /\ TypeOf[l] = j
    BY <2>2, VersionOfIt
  <2>4. l <= k /\ l \in 1..35
    BY <1>1, <1>4, <2>3, TypeOfVersion
  <2>5. CASE TypeOf[k] = j
    BY <1>1, <1>4, <2>1, <2>2, <2>5
  <2>6. CASE TypeOf[k] # j
    <3>1. TypeOf[k] \in Int /\ TypeOf[l] \in Int
      BY <2>1, <2>3, <2>4, <1>4, VersionsNamed
    <3>. HIDE DEF k, j
    <3>2. l < k /\ TypeOf[k] < TypeOf[l]
      BY <2>1, <2>2, <2>3, <2>4, <2>6, <3>1
    <3>3. <<CcVersions[k][1], CcVersions[l][1]>> \in Exchanged
      BY <1>4, <2>1, <2>3, <2>4, <3>2, ExchangedOnly
    <3>4. CcVersions[l][1] = sd_cctype(macros)
      BY <2>2, <2>3, TypeOfVersion
    <3>5. <<CcTypes[TypeOf[k]][1], sd_cctype(macros)>> \in Exchanged
      BY <2>1, <3>3, <3>4, Zenon
    <3>. QED BY <2>1, <3>5, Zenon DEF InOrder
  <2>. QED BY <2>5, <2>6
<1>5. CASE V = {} /\ T # {}
  BY <1>2, <1>5, VersionOfIt
<1>6. CASE V = {} /\ T = {}
  BY <1>6, TypeDecided, VersionDecided
<1>. QED BY <1>3, <1>4, <1>5, <1>6

\* What the probes have printed is what the lists say of the compiler.
Probed ==
  pc # "probe" => probed = [type |-> sd_cctype(cc), version |-> sd_ccversion(cc)]

LEMMA NextProbed ==
  ASSUME Probed, [Next]_vars
  PROVE  Probed'
<1>1. CASE ProbeCompiler
  BY <1>1 DEF ProbeCompiler, Goto, Probed
<1>2. ASSUME pc # "probe", cc' = cc, probed' = probed PROVE Probed'
  BY <1>2 DEF Probed
<1>3. CASE cpuid_check_support
  BY <1>2, <1>3 DEF cpuid_check_support, Goto
<1>4. CASE MaxParams
  BY <1>2, <1>4 DEF MaxParams, Goto
<1>5. CASE cpu_detect_vendor
  BY <1>2, <1>5 DEF cpu_detect_vendor, Goto
<1>6. CASE cpu_vendor_intel \/ cpu_vendor_amd
  BY <1>2, <1>6 DEF cpu_vendor_intel, cpu_vendor_amd, Goto
<1>7. CASE CacheSizes
  BY <1>2, <1>7 DEF CacheSizes, cpu_cache_size, Goto
<1>8. CASE CommonFeatures \/ Answer
  BY <1>2, <1>8 DEF CommonFeatures, Answer, Goto
<1>9. CASE UNCHANGED vars
  BY <1>9 DEF vars, Probed
<1>. QED BY <1>1, <1>3, <1>4, <1>5, <1>6, <1>7, <1>8, <1>9 DEF Next

\* Of any compiler, whatever other compilers' macros it defines, that has a section
\* in sd-ccversion.c and defines the macros of both lists or of none: the version
\* that goes into sd-sysinfo.h is that of the type that goes there, unless it
\* defines the macros of a type of the pairs named in Exchanged, the only ones that
\* the two lists have in different orders, or ends in EDG's.
THEOREM VersionOfType == Spec => []VersionIsOfType
<1>1. Init => Probed
  BY DEF Init, Probed
<1>2. Probed => VersionIsOfType
  <2>. SUFFICES ASSUME Probed, pc # "probe" PROVE VersionIsOfType
    BY DEF VersionIsOfType
  <2>1. probed.type = sd_cctype(cc) /\ probed.version = sd_ccversion(cc)
    BY DEF Probed
  <2>. QED BY <2>1, ListsAgree, Zenon DEF VersionIsOfType
<1>. QED BY <1>1, <1>2, NextProbed, PTL DEF Spec
=============================================================================
