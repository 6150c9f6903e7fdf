---------------------------- MODULE LibraryProofs ---------------------------
(***************************************************************************)
(* The kernel's library on every input: the image an ELF file is loaded to, *)
(* the variable a name stands for, the program a command runs, the number a *)
(* string begins with, what snprintf() leaves in its buffer, the checksum.  *)
(***************************************************************************)
EXTENDS Library, Numbers, SequenceTheorems

-----------------------------------------------------------------------------
\* Least and greatest elements.
LEMMA MinIs ==
    ASSUME NEW T, T \subseteq Int, NEW x \in T, \A y \in T : x <= y
    PROVE  Min(T) = x
<1>1. \E z \in T : \A y \in T : z <= y
  OBVIOUS
<1> DEFINE m == Min(T)
<1>2. m \in T /\ \A y \in T : m <= y
  BY <1>1 DEF Min
<1> HIDE DEF m
<1>3. m \in Int /\ x \in Int /\ m <= x
  BY <1>2
<1>4. x <= m
  BY <1>2
<1> QED
  BY <1>3, <1>4 DEF m

LEMMA MaxIs ==
    ASSUME NEW T, T \subseteq Int, NEW x \in T, \A y \in T : y <= x
    PROVE  Max(T) = x
<1>1. \E z \in T : \A y \in T : z >= y
  OBVIOUS
<1> DEFINE m == Max(T)
<1>2. m \in T /\ \A y \in T : m >= y
  BY <1>1 DEF Max
<1> HIDE DEF m
<1>3. m \in Int /\ x \in Int /\ m >= x
  BY <1>2
<1>4. x >= m
  BY <1>2
<1> QED
  BY <1>3, <1>4 DEF m

LEMMA SmallerOfTwo ==
    ASSUME NEW a \in Int, NEW b \in Int
    PROVE  Min({a, b}) = IF a <= b THEN a ELSE b
<1>1. CASE a <= b
  <2>1. \A y \in {a, b} : a <= y
    BY <1>1
  <2> QED
    BY <1>1, <2>1, MinIs
<1>2. CASE ~(a <= b)
  <2>1. \A y \in {a, b} : b <= y
    BY <1>2
  <2> QED
    BY <1>2, <2>1, MinIs
<1> QED
  BY <1>1, <1>2

LEMMA LargerOfTwo ==
    ASSUME NEW a \in Int, NEW b \in Int
    PROVE  Max({a, b}) = IF b <= a THEN a ELSE b
<1>1. CASE b <= a
  <2>1. \A y \in {a, b} : y <= a
    BY <1>1
  <2> QED
    BY <1>1, <2>1, MaxIs
<1>2. CASE ~(b <= a)
  <2>1. \A y \in {a, b} : y <= b
    BY <1>2
  <2> QED
    BY <1>2, <2>1, MaxIs
<1> QED
  BY <1>1, <1>2

-----------------------------------------------------------------------------
\* The ELF loader.

\* kread() finds all that was asked for, or what the file has.
LEMMA AvailableIs ==
    ASSUME NEW file, IsFile(file), NEW o \in Nat, NEW n \in Nat
    PROVE  LET size == Cardinality(DOMAIN file)
           IN  /\ size \in Nat
               /\ Available(file, o, n) = IF o >= READ_END THEN 0
                                          ELSE IF o + n <= size THEN n
                                          ELSE IF o <= size THEN size - o ELSE 0
<1> DEFINE size == Cardinality(DOMAIN file)
<1>1. size \in Nat
  BY FS_CardinalityType DEF IsFile
<1> HIDE DEF size
<1> DEFINE least == Min({n, size - o})
<1>2. size - o \in Int /\ least = IF n <= size - o THEN n ELSE size - o
  BY <1>1, SmallerOfTwo
<1>3. least \in Int
  BY <1>1, <1>2
<1> HIDE DEF least
<1>4. Max({least, 0}) = IF 0 <= least THEN least ELSE 0
  BY <1>3, LargerOfTwo
<1>5. Available(file, o, n) = IF o >= READ_END THEN 0 ELSE Max({least, 0})
  BY DEF Available, least, size
<1>6. Available(file, o, n) = IF o >= READ_END THEN 0
                              ELSE IF o + n <= size THEN n
                              ELSE IF o <= size THEN size - o ELSE 0
  BY <1>1, <1>2, <1>4, <1>5
<1> QED
  BY <1>1, <1>6 DEF size

LEMMA ReachIs ==
    ASSUME NEW file, IsFile(file)
    PROVE  Reach(file) = IF Cardinality(DOMAIN file) <= MAPPED
                         THEN Cardinality(DOMAIN file) ELSE MAPPED
<1>1. Cardinality(DOMAIN file) \in Int /\ MAPPED \in Int
  BY FS_CardinalityType, ElfAssumption DEF IsFile
<1> QED
  BY <1>1, SmallerOfTwo DEF Reach

\* A section is complete if the file has all of it, where it can be read.
LEMMA CompleteIs ==
    ASSUME NEW file, IsFile(file), NEW sh \in Elf32_Shdr
    PROVE  Complete(file, sh) <=>
               (sh.type = "PROGBITS" =>
                    /\ sh.offset < READ_END
                    /\ sh.size > 0 => sh.offset + sh.size <= Reach(file))
<1> DEFINE size == Cardinality(DOMAIN file)
           found == Available(file, sh.offset, sh.size)
           r == Reach(file)
<1>1. sh.offset \in Nat /\ sh.size \in Nat /\ READ_END \in Nat /\ MAPPED \in Nat
  BY ElfAssumption DEF Elf32_Shdr
<1>2. /\ size \in Nat
      /\ found = IF sh.offset >= READ_END THEN 0
                 ELSE IF sh.offset + sh.size <= size THEN sh.size
                 ELSE IF sh.offset <= size THEN size - sh.offset ELSE 0
  BY <1>1, AvailableIs
<1>3. r = IF size <= MAPPED THEN size ELSE MAPPED
  BY ReachIs
<1>4. Complete(file, sh) <=>
          (sh.type = "PROGBITS" =>
              /\ (IF sh.offset >= READ_END THEN -1 ELSE found) = sh.size
              /\ ~(found > 0 /\ sh.offset + found > MAPPED))
  BY Zenon DEF Complete, ReadAnswer, ReadHangs
<1> HIDE DEF size, found, r
<1> DEFINE o == sh.offset
           n == sh.size
<1>5. /\ o \in Nat /\ n \in Nat
      /\ found = IF o >= READ_END THEN 0
                 ELSE IF o + n <= size THEN n ELSE IF o <= size THEN size - o ELSE 0
  BY <1>1, <1>2
<1> HIDE DEF o, n
<1>6. /\ (IF o >= READ_END THEN -1 ELSE found) = n
      /\ ~(found > 0 /\ o + found > MAPPED)
      <=> o < READ_END /\ (n > 0 => o + n <= r)
  BY <1>1, <1>2, <1>3, <1>5
<1> QED
  BY <1>4, <1>6, Zenon DEF o, n, r

\* The headers in the buffer are those of the file.
Table(hdr, file) ==
    Refilled(file, hdr.shoff, hdr.shnum * hdr.shentsize,
             Refilled(file, 0, ELF_BUFFER, [k \in 0 .. ELF_BUFFER - 1 |-> NoSection]))

LEMMA TableIsHeaders ==
    ASSUME NEW hdr, NEW file, IsFile(file), IsHeader(hdr), WellFormed(hdr, file)
    PROVE  \A k \in 0 .. hdr.shnum - 1 : /\ Table(hdr, file)[k] = file[hdr.shoff + k]
                                         /\ file[hdr.shoff + k] \in Elf32_Shdr
<1> DEFINE first == Refilled(file, 0, ELF_BUFFER, [k \in 0 .. ELF_BUFFER - 1 |-> NoSection])
           size == Cardinality(DOMAIN file)
<1>1. /\ hdr.shoff \in Nat /\ hdr.shnum \in Nat /\ hdr.shentsize = 1
      /\ hdr.shnum < ELF_BUFFER /\ hdr.shoff + hdr.shnum <= size /\ ELF_BUFFER \in Nat
      /\ hdr.shoff + hdr.shnum <= MAPPED /\ 0 < hdr.shnum
      /\ MAPPED \in Nat /\ READ_END \in Nat /\ MAPPED < READ_END
  <2>1. /\ hdr.shoff \in Nat /\ hdr.shnum \in Nat /\ hdr.shentsize = 1 /\ hdr.shstrndx \in Nat
        /\ hdr.shnum < ELF_BUFFER /\ hdr.shoff + hdr.shnum <= Reach(file)
        /\ hdr.shstrndx < hdr.shnum
    BY DEF IsHeader, WellFormed
  <2>2. size \in Nat /\ Reach(file) = IF size <= MAPPED THEN size ELSE MAPPED
    BY ReachIs, FS_CardinalityType DEF IsFile
  <2> HIDE DEF size
  <2> QED
    BY <2>1, <2>2, ElfAssumption
<1>2. DOMAIN first = 0 .. ELF_BUFFER - 1
  BY DEF Refilled
<1>3. hdr.shnum * hdr.shentsize = hdr.shnum
  BY <1>1
<1>4. Available(file, hdr.shoff, hdr.shnum) = hdr.shnum /\ size \in Nat
  <2>1. ~(hdr.shoff >= READ_END)
    BY <1>1
  <2> QED
    BY <1>1, <2>1, AvailableIs
<1>5. DOMAIN file = 0 .. size - 1 /\ \A k \in DOMAIN file : file[k] \in Elf32_Shdr
  BY DEF IsFile
<1> HIDE DEF first, size
<1> SUFFICES ASSUME NEW k \in 0 .. hdr.shnum - 1
             PROVE  Table(hdr, file)[k] = file[hdr.shoff + k]
                    /\ file[hdr.shoff + k] \in Elf32_Shdr
  OBVIOUS
<1>6. k \in DOMAIN first /\ k < hdr.shnum /\ hdr.shoff + k \in DOMAIN file
  BY <1>1, <1>2, <1>4, <1>5
<1>7. Table(hdr, file) =
          [n \in DOMAIN first |-> IF n < hdr.shnum THEN file[hdr.shoff + n] ELSE first[n]]
  BY <1>3, <1>4 DEF Table, Refilled, first
<1> QED
  BY <1>5, <1>6, <1>7

\* Where the loop over the headers is: loading, or stopped.
Images == [ret : {"1", "hung"}, memory : [Addresses -> Int]]

LEMMA SectionKeeps ==
    ASSUME NEW file, NEW sh \in Elf32_Shdr, NEW image \in Images
    PROVE  Section(file, sh, image) \in Images
<1>1. sh.offset \in Nat /\ sh.addr \in Nat /\ image.memory \in [Addresses -> Int]
      /\ Addresses \subseteq Nat
  BY ElfAssumption DEF Elf32_Shdr, Images
<1>2. Placed(file, sh, image.memory) \in [Addresses -> Int]
  <2> SUFFICES ASSUME NEW a \in Addresses
               PROVE  (IF ~Covers(sh, a) THEN image.memory[a]
                       ELSE IF sh.type = "NOBITS" THEN Zero ELSE sh.offset + a - sh.addr) \in Int
    BY DEF Placed
  <2> QED
    BY <1>1 DEF Zero
<1> QED
  BY <1>1, <1>2 DEF Section, Images

Loads(file, buffer, num, memory) ==
    {g \in [0 .. num -> Images] :
        /\ g[0] = [ret |-> "1", memory |-> memory]
        /\ \A k \in 1 .. num : g[k] = Section(file, buffer[k - 1], g[k - 1])
        /\ Sections(file, buffer, num, memory) = g[num]}

LEMMA SectionsHistory ==
    ASSUME NEW file, NEW buffer, NEW num \in Nat, NEW memory \in [Addresses -> Int],
           \A k \in 0 .. num - 1 : buffer[k] \in Elf32_Shdr
    PROVE  Loads(file, buffer, num, memory) # {}
<1> DEFINE base == [ret |-> "1", memory |-> memory]
           step == [k \in Nat |-> [a \in Images |->
                       IF k \in 1 .. num THEN Section(file, buffer[k - 1], a) ELSE a]]
           Loop(f) == f = [n \in 0 .. num |->
                              IF n = 0 THEN base ELSE Section(file, buffer[n - 1], f[n - 1])]
           after == CHOOSE f : Loop(f)
<1>1. base \in Images
  BY DEF Images
<1> HIDE DEF base
<1>2. \A k \in Nat : step[k] \in [Images -> Images]
  <2> SUFFICES ASSUME NEW k \in Nat
               PROVE  [a \in Images |-> IF k \in 1 .. num THEN Section(file, buffer[k - 1], a)
                                        ELSE a] \in [Images -> Images]
    BY Zenon
  <2>1. k \in 1 .. num => k - 1 \in 0 .. num - 1
    OBVIOUS
  <2>2. \A a \in Images : (IF k \in 1 .. num THEN Section(file, buffer[k - 1], a) ELSE a)
                              \in Images
    BY <2>1, SectionKeeps
  <2> QED
    BY <2>2
<1>3. \A k \in Nat : \A a \in Images :
          step[k][a] = IF k \in 1 .. num THEN Section(file, buffer[k - 1], a) ELSE a
  BY Zenon
<1> HIDE DEF step
<1>4. PICK g \in [0 .. num -> Images] :
          g[0] = base /\ \A k \in 1 .. num : g[k] = step[k][g[k - 1]]
  <2>1. Histories(Images, base, step, num) # {}
    BY <1>1, <1>2, Iterates
  <2> QED
    BY <2>1 DEF Histories
<1>5. ASSUME NEW k \in 1 .. num PROVE g[k] = Section(file, buffer[k - 1], g[k - 1])
  <2>1. k \in Nat /\ k - 1 \in 0 .. num
    OBVIOUS
  <2>2. g[k - 1] \in Images
    BY <2>1
  <2>3. step[k][g[k - 1]] = Section(file, buffer[k - 1], g[k - 1])
    BY <1>3, <2>1, <2>2
  <2> QED
    BY <1>4, <2>3
<1>6. Loop(g)
  <2>1. \A n \in 0 .. num :
            g[n] = IF n = 0 THEN base ELSE Section(file, buffer[n - 1], g[n - 1])
    <3> SUFFICES ASSUME NEW n \in 0 .. num
                 PROVE  g[n] = IF n = 0 THEN base ELSE Section(file, buffer[n - 1], g[n - 1])
      OBVIOUS
    <3>1. CASE n = 0
      BY <1>4, <3>1
    <3>2. CASE n # 0
      BY <1>5, <3>2
    <3> QED
      BY <3>1, <3>2
  <2> QED
    BY <2>1
<1>7. Loop(after)
  <2> HIDE DEF Loop
  <2> QED
    BY <1>6
<1>8. \A n \in 0 .. num :
          after[n] = IF n = 0 THEN base ELSE Section(file, buffer[n - 1], after[n - 1])
  <2> HIDE DEF after
  <2> QED
    BY <1>7, Zenon
<1>9. Sections(file, buffer, num, memory) = after[num]
  BY Zenon DEF Sections, after, Loop, base
<1> HIDE DEF after, Loop
<1>10. \A n \in 0 .. num : after[n] = g[n]
  <2> DEFINE T == {n \in Nat : n <= num => after[n] = g[n]}
  <2>1. 0 \in T
    BY <1>4, <1>8
  <2>2. ASSUME NEW n \in Nat, n \in T PROVE n + 1 \in T
    <3> DEFINE k == n + 1
    <3> SUFFICES ASSUME k <= num PROVE after[k] = g[k]
      OBVIOUS
    <3>1. k \in 0 .. num /\ k \in 1 .. num /\ k # 0 /\ k - 1 = n /\ n <= num
      OBVIOUS
    <3> HIDE DEF k
    <3>2. after[k - 1] = g[k - 1]
      BY <2>2, <3>1
    <3> QED
      BY <1>5, <1>8, <3>1, <3>2
  <2> HIDE DEF T
  <2>3. \A n \in Nat : n \in T
    BY <2>1, <2>2, Induct
  <2> QED
    BY <2>3 DEF T
<1>11. /\ g \in [0 .. num -> Images] /\ g[0] = [ret |-> "1", memory |-> memory]
       /\ \A k \in 1 .. num : g[k] = Section(file, buffer[k - 1], g[k - 1])
       /\ Sections(file, buffer, num, memory) = g[num]
  BY <1>4, <1>5, <1>9, <1>10 DEF base
<1> QED
  BY <1>11 DEF Loads

\* The image after the first n sections.
Covering(hdr, file, n, a) ==
    {k \in Wanted(hdr, file) : k < n /\ Covers(file[hdr.shoff + k], a)}
Newest(hdr, file, n, a) == file[hdr.shoff + Max(Covering(hdr, file, n, a))]
Content(sh, a) == IF sh.type = "NOBITS" THEN Zero ELSE sh.offset + a - sh.addr
Shown(hdr, file, n) ==
    [a \in Addresses |-> IF Covering(hdr, file, n, a) = {} THEN Untouched
                         ELSE Content(Newest(hdr, file, n, a), a)]

LEMMA ShownNext ==
    ASSUME NEW hdr, NEW file, IsHeader(hdr), NEW k \in 0 .. hdr.shnum - 1
    PROVE  Shown(hdr, file, k + 1) =
               IF k \in Wanted(hdr, file)
               THEN Placed(file, file[hdr.shoff + k], Shown(hdr, file, k))
               ELSE Shown(hdr, file, k)
<1> DEFINE sh == file[hdr.shoff + k]
<1>1. hdr.shnum \in Nat /\ k \in Nat /\ \A n \in Wanted(hdr, file) : n \in Nat
  BY DEF IsHeader, Wanted
<1>2. ASSUME NEW a \in Addresses, k \in Wanted(hdr, file), Covers(sh, a)
      PROVE  Covering(hdr, file, k + 1, a) # {} /\ Newest(hdr, file, k + 1, a) = sh
  <2> DEFINE over == Covering(hdr, file, k + 1, a)
  <2>1. over \subseteq Wanted(hdr, file) /\ \A n \in over : n < k + 1
    BY DEF Covering
  <2>2. k \in over
    <3>1. k < k + 1
      BY <1>1
    <3> QED
      BY <1>2, <3>1 DEF Covering
  <2> HIDE DEF over
  <2>3. over \subseteq Int /\ \A n \in over : n <= k
    BY <1>1, <2>1
  <2>4. Max(over) = k
    BY <2>2, <2>3, MaxIs
  <2> QED
    BY <2>2, <2>4 DEF over, Newest
<1>3. ASSUME NEW a \in Addresses, ~(k \in Wanted(hdr, file) /\ Covers(sh, a))
      PROVE  Covering(hdr, file, k + 1, a) = Covering(hdr, file, k, a)
  <2>1. \A n \in Wanted(hdr, file) : n < k + 1 <=> (n < k \/ n = k)
    BY <1>1
  <2> QED
    BY <1>3, <2>1 DEF Covering
<1>4. CASE k \in Wanted(hdr, file)
  <2> SUFFICES ASSUME NEW a \in Addresses
               PROVE  Shown(hdr, file, k + 1)[a] = Placed(file, sh, Shown(hdr, file, k))[a]
    BY <1>4 DEF Shown, Placed
  <2>1. CASE Covers(sh, a)
    BY <1>2, <1>4, <2>1 DEF Shown, Placed, Content
  <2>2. CASE ~Covers(sh, a)
    BY <1>3, <2>2 DEF Shown, Placed, Newest
  <2> QED
    BY <2>1, <2>2
<1>5. CASE k \notin Wanted(hdr, file)
  BY <1>3, <1>5 DEF Shown, Newest
<1> QED
  BY <1>4, <1>5

\* After them all it is what the file asks for.
LEMMA ShownImage ==
    ASSUME NEW hdr, NEW file, IsHeader(hdr),
           \A k \in 0 .. hdr.shnum - 1 : file[hdr.shoff + k] \in Elf32_Shdr
    PROVE  Shown(hdr, file, hdr.shnum) = Image(hdr, file)
<1> DEFINE Over(a) == {k \in Wanted(hdr, file) : Covers(file[hdr.shoff + k], a)}
           Sh(a) == file[hdr.shoff + Max(Over(a))]
<1>1. hdr.shnum \in Nat /\ Addresses \subseteq Nat
  BY ElfAssumption DEF IsHeader
<1>2. ASSUME NEW a \in Addresses
      PROVE  Covering(hdr, file, hdr.shnum, a) = Over(a)
  BY <1>1 DEF Covering, Wanted
<1>3. ASSUME NEW a \in Addresses, Over(a) # {}
      PROVE  Sh(a).offset + a - Sh(a).addr = Sh(a).offset + (a - Sh(a).addr)
  <2> DEFINE over == Over(a)
             m == Max(over)
  <2>1. over \subseteq 0 .. hdr.shnum - 1
    BY DEF Wanted
  <2>2. \E x \in over : \A y \in over : y <= x
    <3>1. CASE hdr.shnum = 0
      <4>1. 0 .. hdr.shnum - 1 = {}
        BY <3>1
      <4> QED
        BY <1>3, <2>1, <4>1
    <3>2. CASE hdr.shnum # 0
      <4>1. hdr.shnum - 1 \in Nat
        BY <1>1, <3>2
      <4> HIDE DEF over
      <4>2. over # {}
        BY <1>3 DEF over
      <4> QED
        BY <2>1, <4>1, <4>2, GreatestElement
    <3> QED
      BY <3>1, <3>2
  <2> HIDE DEF over
  <2>3. \E x \in over : \A y \in over : x >= y
    BY <1>1, <2>1, <2>2
  <2>4. m \in over
    BY <2>3 DEF Max
  <2> HIDE DEF m
  <2>5. file[hdr.shoff + m] \in Elf32_Shdr
    BY <2>1, <2>4
  <2>6. Sh(a) \in Elf32_Shdr
    BY <2>5 DEF m, over
  <2> HIDE DEF Sh
  <2>7. Sh(a).offset \in Nat /\ Sh(a).addr \in Nat /\ a \in Nat
    BY <1>1, <2>6 DEF Elf32_Shdr
  <2> QED
    BY <2>7
<1>4. \A a \in Addresses :
          Shown(hdr, file, hdr.shnum)[a] =
              IF Over(a) = {} THEN Untouched ELSE Content(Sh(a), a)
  BY <1>2 DEF Shown, Newest
<1>5. \A a \in Addresses :
          Image(hdr, file)[a] =
              IF Over(a) = {} THEN Untouched
              ELSE IF Sh(a).type = "NOBITS" THEN Zero ELSE Sh(a).offset + (a - Sh(a).addr)
  BY DEF Image
<1>6. ASSUME NEW a \in Addresses
      PROVE  Shown(hdr, file, hdr.shnum)[a] = Image(hdr, file)[a]
  <2> HIDE DEF Over, Sh
  <2> QED
    BY <1>3, <1>4, <1>5 DEF Content
<1> QED
  BY <1>6, Zenon DEF Shown, Image

\* The loop over the headers stops at the first section that is cut short.
LEMMA SectionsAre ==
    ASSUME NEW hdr, NEW file, NEW buffer, IsHeader(hdr),
           \A k \in 0 .. hdr.shnum - 1 : /\ buffer[k] = file[hdr.shoff + k]
                                         /\ file[hdr.shoff + k] \in Elf32_Shdr
    PROVE  LET loaded == Sections(file, buffer, hdr.shnum,
                                  [a \in Addresses |-> Untouched])
           IN  IF \A k \in Wanted(hdr, file) : Complete(file, file[hdr.shoff + k])
               THEN loaded = [ret |-> "1", memory |-> Shown(hdr, file, hdr.shnum)]
               ELSE loaded.ret = "hung"
<1> DEFINE num == hdr.shnum
           nothing == [a \in Addresses |-> Untouched]
           Whole(n) == \A k \in Wanted(hdr, file) :
                           k < n => Complete(file, file[hdr.shoff + k])
<1>1. num \in Nat /\ nothing \in [Addresses -> Int]
  BY DEF IsHeader, Untouched
<1>2. PICK g \in Loads(file, buffer, num, nothing) : TRUE
  <2>1. \A k \in 0 .. num - 1 : buffer[k] \in Elf32_Shdr
    OBVIOUS
  <2> HIDE DEF num, nothing
  <2>2. Loads(file, buffer, num, nothing) # {}
    BY <1>1, <2>1, SectionsHistory
  <2> QED
    BY <2>2
<1>10. /\ g \in [0 .. num -> Images] /\ g[0] = [ret |-> "1", memory |-> nothing]
       /\ \A k \in 1 .. num : g[k] = Section(file, buffer[k - 1], g[k - 1])
       /\ Sections(file, buffer, num, nothing) = g[num]
  BY DEF Loads
<1> DEFINE Right(n) == IF Whole(n) THEN g[n] = [ret |-> "1", memory |-> Shown(hdr, file, n)]
                       ELSE g[n].ret = "hung"
           T == {n \in Nat : n <= num => Right(n)}
<1>3. \A n \in Wanted(hdr, file) : n \in 0 .. num - 1
  BY DEF Wanted
<1>4. 0 \in T
  <2>1. Whole(0)
    BY <1>1, <1>3
  <2>2. Shown(hdr, file, 0) = nothing
    <3>1. \A a \in Addresses : Covering(hdr, file, 0, a) = {}
      BY <1>1, <1>3 DEF Covering
    <3> QED
      BY <3>1 DEF Shown
  <2> QED
    BY <1>10, <2>1, <2>2
<1>5. ASSUME NEW n \in Nat, n \in T PROVE n + 1 \in T
  <2> SUFFICES ASSUME n + 1 <= num PROVE Right(n + 1)
    OBVIOUS
  <2> DEFINE sh == file[hdr.shoff + n]
  <2>1. Right(n) /\ n \in 0 .. num - 1 /\ n + 1 \in 1 .. num /\ (n + 1) - 1 = n
    BY <1>1, <1>5
  <2>2. buffer[n] = sh /\ g[n + 1] = Section(file, sh, g[n])
    <3>1. g[n + 1] = Section(file, buffer[(n + 1) - 1], g[(n + 1) - 1])
      BY <1>10, <2>1
    <3> QED
      BY <2>1, <3>1
  <2>3. n \in Wanted(hdr, file) <=> Loadable(sh)
    BY <2>1 DEF Wanted, Loadable
  <2>4. Whole(n + 1) <=> (Whole(n) /\ (n \in Wanted(hdr, file) => Complete(file, sh)))
    <3>1. \A k \in Wanted(hdr, file) : k < n + 1 <=> (k < n \/ k = n)
      BY <1>1, <1>3
    <3>2. n < n + 1
      OBVIOUS
    <3> QED
      BY <3>1, <3>2
  <2>5. Shown(hdr, file, n + 1) = IF n \in Wanted(hdr, file)
                                  THEN Placed(file, sh, Shown(hdr, file, n))
                                  ELSE Shown(hdr, file, n)
    BY <2>1, ShownNext
  <2> HIDE DEF sh, Whole
  <2>6. CASE ~Whole(n)
    BY <2>1, <2>2, <2>4, <2>6 DEF Section
  <2>7. CASE Whole(n)
    <3>1. g[n] = [ret |-> "1", memory |-> Shown(hdr, file, n)]
      BY <2>1, <2>7
    <3>2. g[n].ret = "1" /\ g[n].memory = Shown(hdr, file, n)
      BY <3>1
    <3>3. CASE ~Loadable(sh)
      BY <2>2, <2>3, <2>4, <2>5, <2>7, <3>1, <3>2, <3>3 DEF Section
    <3>4. CASE Loadable(sh)
      BY <2>2, <2>3, <2>4, <2>5, <2>7, <3>1, <3>2, <3>4 DEF Section
    <3> QED
      BY <3>3, <3>4
  <2> QED
    BY <2>6, <2>7
<1>6. num \in T
  <2> HIDE DEF T
  <2> QED
    BY <1>1, <1>4, <1>5, Induct
<1>7. Whole(num) <=> \A k \in Wanted(hdr, file) : Complete(file, file[hdr.shoff + k])
  BY <1>1, <1>3
<1>8. Right(num)
  BY <1>1, <1>6
<1> HIDE DEF Whole
<1> QED
  BY <1>10, <1>7, <1>8

\* elf_load_binary(): what is whole is loaded, what is cut short is not run.
LEMMA Loaded ==
    ASSUME NEW hdr, NEW file, IsFile(file), IsHeader(hdr), WellFormed(hdr, file)
    PROVE  IF WholeFile(hdr, file)
           THEN elf_load_binary(hdr, file) = [ret |-> "1", memory |-> Image(hdr, file)]
           ELSE elf_load_binary(hdr, file).ret = "hung"
<1> DEFINE table == Table(hdr, file)
           size == Cardinality(DOMAIN file)
           nothing == [a \in Addresses |-> Untouched]
           strings == table[hdr.shstrndx]
<1>1. \A k \in 0 .. hdr.shnum - 1 : /\ table[k] = file[hdr.shoff + k]
                                    /\ file[hdr.shoff + k] \in Elf32_Shdr
  BY TableIsHeaders
<1>2. /\ hdr.shoff \in Nat /\ hdr.shnum \in Nat /\ hdr.shstrndx \in Nat
      /\ ident(hdr) /\ hdr.shentsize = 1 /\ hdr.shnum < ELF_BUFFER
      /\ hdr.shoff + hdr.shnum <= size /\ hdr.shstrndx < hdr.shnum
      /\ ELF_BUFFER \in Nat /\ STRINGS \in Nat /\ STRINGS < ELF_BUFFER /\ NO_OFFSET \in Nat
      /\ size \in Nat /\ size <= NO_OFFSET
      /\ MAPPED \in Nat /\ READ_END \in Nat /\ hdr.shoff + hdr.shnum <= MAPPED
  <2>1. /\ hdr.shoff \in Nat /\ hdr.shnum \in Nat /\ hdr.shstrndx \in Nat
        /\ ident(hdr) /\ hdr.shentsize = 1 /\ hdr.shnum < ELF_BUFFER
        /\ hdr.shoff + hdr.shnum <= Reach(file) /\ hdr.shstrndx < hdr.shnum
    BY DEF IsHeader, WellFormed
  <2>2. size \in Nat /\ size <= NO_OFFSET
    BY FS_CardinalityType DEF IsFile
  <2>3. Reach(file) = IF size <= MAPPED THEN size ELSE MAPPED
    BY ReachIs
  <2> HIDE DEF size
  <2> QED
    BY <2>1, <2>2, <2>3, ElfAssumption
<1>3. /\ strings = file[hdr.shoff + hdr.shstrndx] /\ strings \in Elf32_Shdr
      /\ strings.size <= STRINGS /\ strings.offset # NO_OFFSET
      /\ strings.offset + strings.size <= MAPPED
  BY <1>1, <1>2 DEF WellFormed
<1>4. strings.size \in Nat /\ strings.offset \in Nat
  BY <1>3 DEF Elf32_Shdr
<1>5. /\ ~(Available(file, strings.offset, strings.size) > STRINGS)
      /\ ~ReadHangs(file, strings.offset, strings.size)
  <2> HIDE DEF strings
  <2>1. Available(file, strings.offset, strings.size) =
            IF strings.offset >= READ_END THEN 0
            ELSE IF strings.offset + strings.size <= size THEN strings.size
            ELSE IF strings.offset <= size THEN size - strings.offset ELSE 0
    BY <1>4, AvailableIs
  <2> HIDE DEF size
  <2>2. Available(file, strings.offset, strings.size) \in Nat
        /\ Available(file, strings.offset, strings.size) <= strings.size
    BY <1>2, <1>4, <2>1
  <2> QED
    BY <1>2, <1>3, <1>4, <2>2 DEF ReadHangs
<1>11. ~ReadHangs(file, hdr.shoff, hdr.shnum * hdr.shentsize)
  <2> HIDE DEF strings, size
  <2>1. hdr.shnum * hdr.shentsize = hdr.shnum
    BY <1>2
  <2>2. Available(file, hdr.shoff, hdr.shnum) \in Nat
        /\ Available(file, hdr.shoff, hdr.shnum) <= hdr.shnum
    <3>1. Available(file, hdr.shoff, hdr.shnum) =
              IF hdr.shoff >= READ_END THEN 0
              ELSE IF hdr.shoff + hdr.shnum <= size THEN hdr.shnum
              ELSE IF hdr.shoff <= size THEN size - hdr.shoff ELSE 0
      BY <1>2, AvailableIs DEF size
    <3> QED
      BY <1>2, <3>1
  <2> QED
    BY <1>2, <2>1, <2>2 DEF ReadHangs
<1>6. ~(hdr.shnum * hdr.shentsize >= ELF_BUFFER) /\ hdr.shoff # NO_OFFSET
      /\ ~(strings.size >= ELF_BUFFER)
  <2> HIDE DEF strings, size
  <2> QED
    BY <1>2, <1>3, <1>4
<1>7. elf_load_binary(hdr, file) = Sections(file, table, hdr.shnum, nothing)
  <2> HIDE DEF strings
  <2>1. elf_load_binary(hdr, file) =
            IF ~ident(hdr) THEN [ret |-> "0", memory |-> nothing]
            ELSE IF hdr.shnum * hdr.shentsize >= ELF_BUFFER
            THEN [ret |-> "hung", memory |-> nothing]
            ELSE IF hdr.shoff = NO_OFFSET THEN [ret |-> "0", memory |-> nothing]
            ELSE IF ReadHangs(file, hdr.shoff, hdr.shnum * hdr.shentsize)
            THEN [ret |-> "hung", memory |-> nothing]
            ELSE IF strings.offset = NO_OFFSET THEN [ret |-> "0", memory |-> nothing]
            ELSE IF strings.size >= ELF_BUFFER THEN [ret |-> "hung", memory |-> nothing]
            ELSE IF ReadHangs(file, strings.offset, strings.size)
            THEN [ret |-> "hung", memory |-> nothing]
            ELSE IF Available(file, strings.offset, strings.size) > STRINGS
            THEN [ret |-> "lost", memory |-> nothing]
            ELSE Sections(file, table, hdr.shnum, nothing)
    BY Zenon DEF elf_load_binary, Table, strings
  <2> QED
    BY <1>2, <1>3, <1>5, <1>6, <1>11, <2>1
<1>8. WholeFile(hdr, file) <=> \A k \in Wanted(hdr, file) : Complete(file, file[hdr.shoff + k])
  <2> SUFFICES ASSUME NEW k \in Wanted(hdr, file)
               PROVE  Complete(file, file[hdr.shoff + k]) <=>
                          LET sh == file[hdr.shoff + k]
                          IN  sh.type = "PROGBITS" =>
                                  /\ sh.offset < READ_END
                                  /\ sh.size > 0 => sh.offset + sh.size <= Reach(file)
    BY Zenon DEF WholeFile
  <2>1. file[hdr.shoff + k] \in Elf32_Shdr
    BY <1>1 DEF Wanted
  <2> QED
    BY <2>1, CompleteIs
<1>9. Shown(hdr, file, hdr.shnum) = Image(hdr, file)
  BY <1>1, ShownImage
<1>10. IF \A k \in Wanted(hdr, file) : Complete(file, file[hdr.shoff + k])
       THEN Sections(file, table, hdr.shnum, nothing) =
                [ret |-> "1", memory |-> Shown(hdr, file, hdr.shnum)]
       ELSE Sections(file, table, hdr.shnum, nothing).ret = "hung"
  <2> HIDE DEF table
  <2> QED
    BY <1>1, SectionsAre
<1> HIDE DEF table, nothing
<1> QED
  BY <1>7, <1>8, <1>9, <1>10

-----------------------------------------------------------------------------
\* What has been answered, by the functions that depend on their arguments only.
Answered ==
    /\ call.fn = "boot" => call = [fn |-> "boot", left |-> call.left]
    /\ call.fn = "strtoul" =>
           /\ call.s \in Numerals /\ call.base \in Bases
           /\ call.result = kernel_strtoul(call.s, call.base)
    /\ call.fn = "printf" =>
           \E k \in 1 .. Len(Prints) : \E p \in Prints[k] : \E count \in Counts :
               /\ call.count = count
               /\ call.shown = kprintf(p.format, p.args)
               /\ call.passed = kernel_fctprintf(p.format, p.args)
               /\ call.counted = kernel_snprintf(NoBuffer, count, p.format, p.args)
               /\ call.whole = kernel_sprintf(Buffer(Len(call.shown)), p.format, p.args)
               /\ call.stored = kernel_snprintf(Buffer(count), count, p.format, p.args)
    /\ call.fn = "elf" =>
           /\ call.hdr \in Headers /\ call.file \in Files
           /\ call.loaded = elf_load_binary(call.hdr, call.file)

LEMMA AnsweredInit == Init => Answered
BY DEF Init, Answered

LEMMA AnsweredStep == Answered /\ [Next]_vars => Answered'
<1> SUFFICES ASSUME Answered, [Next]_vars PROVE Answered'
  OBVIOUS
<1>1. CASE UNCHANGED vars
  BY <1>1 DEF Answered, vars
<1>2. CASE Boot
  <2>1. PICK left : call = [fn |-> "boot", left |-> left]
    BY <1>2 DEF Boot, Answered
  <2>2. call' = [call EXCEPT !.left = Tail(@)]
    BY <1>2 DEF Boot
  <2>3. call' = [fn |-> "boot", left |-> Tail(left)]
    BY <2>1, <2>2
  <2>4. call'.fn = "boot" /\ call' = [fn |-> "boot", left |-> call'.left]
    BY <2>3
  <2> QED
    BY <2>4 DEF Answered
<1>3. CASE Started
  BY <1>3 DEF Started, Answered
<1>4. CASE Checksum
  <2>1. call'.fn = "none" \/ call'.fn = "fletcher16"
    BY <1>4 DEF Checksum
  <2> QED
    BY <2>1 DEF Answered
<1>5. CASE Leave
  BY <1>5 DEF Leave, Answered
<1>6. ASSUME NEW name \in Names, Getenv(name) PROVE Answered'
  BY <1>6 DEF Getenv, Answer, Answered
<1>7. ASSUME NEW s, NEW held, Search(s, held) PROVE Answered'
  <2>1. call'.fn = "search"
    BY <1>7 DEF Search, Answer
  <2> QED
    BY <2>1 DEF Answered
<1>8. ASSUME NEW s \in Numerals, NEW base \in Bases, Convert(s, base) PROVE Answered'
  BY <1>8 DEF Convert, Answer, Answered
<1>9. ASSUME NEW k \in 1 .. Len(Prints), NEW p \in Prints[k], NEW count \in Counts,
             Format(p, count)
      PROVE  Answered'
  <2> DEFINE shown == kprintf(p.format, p.args)
             passed == kernel_fctprintf(p.format, p.args)
             counted == kernel_snprintf(NoBuffer, count, p.format, p.args)
             whole == kernel_sprintf(Buffer(Len(shown)), p.format, p.args)
             stored == kernel_snprintf(Buffer(count), count, p.format, p.args)
  <2>1. call' = [fn |-> "printf", print |-> p, count |-> count, shown |-> shown,
                 passed |-> passed, counted |-> counted, whole |-> whole, stored |-> stored]
    BY <1>9, Zenon DEF Format, Answer
  <2>2. /\ call'.fn = "printf" /\ call'.count = count
        /\ call'.shown = kprintf(p.format, p.args)
        /\ call'.passed = kernel_fctprintf(p.format, p.args)
        /\ call'.counted = kernel_snprintf(NoBuffer, count, p.format, p.args)
        /\ call'.whole = kernel_sprintf(Buffer(Len(call'.shown)), p.format, p.args)
        /\ call'.stored = kernel_snprintf(Buffer(count), count, p.format, p.args)
    <3> HIDE DEF shown, passed, counted, whole, stored
    <3>1. /\ call'.fn = "printf" /\ call'.count = count /\ call'.shown = shown
          /\ call'.passed = passed /\ call'.counted = counted /\ call'.whole = whole
          /\ call'.stored = stored
      BY <2>1
    <3> QED
      BY <3>1, Zenon DEF shown, passed, counted, whole, stored
  <2> QED
    BY <2>2, Zenon DEF Answered
<1>10. ASSUME NEW hdr \in Headers, NEW file \in Files, LoadFile(hdr, file) PROVE Answered'
  BY <1>10 DEF LoadFile, Answer, Answered
<1> QED
  BY <1>1, <1>2, <1>3, <1>4, <1>5, <1>6, <1>7, <1>8, <1>9, <1>10 DEF Next, Ask

LEMMA AnswersKept == Spec => []Answered
BY AnsweredInit, AnsweredStep, PTL DEF Spec

\* elf_load_binary() loads what a file asks for, whatever sections it has, and
\* runs no file that is cut short in one of them.
THEOREM ImagesLoaded == Spec => []ImageLoaded
<1>1. Answered => ImageLoaded
  <2> SUFFICES ASSUME Answered, call.fn = "elf", WellFormed(call.hdr, call.file)
               PROVE  IF WholeFile(call.hdr, call.file)
                      THEN /\ call.loaded.ret = "1"
                           /\ call.loaded.memory = Image(call.hdr, call.file)
                      ELSE call.loaded.ret = "hung"
    BY DEF ImageLoaded
  <2>1. /\ call.hdr \in Headers /\ call.file \in Files
        /\ call.loaded = elf_load_binary(call.hdr, call.file)
    BY DEF Answered
  <2>2. IsHeader(call.hdr) /\ IsFile(call.file)
    BY <2>1, LibraryAssumption
  <2>3. IF WholeFile(call.hdr, call.file)
        THEN elf_load_binary(call.hdr, call.file) =
                 [ret |-> "1", memory |-> Image(call.hdr, call.file)]
        ELSE elf_load_binary(call.hdr, call.file).ret = "hung"
    BY <2>2, Loaded
  <2> QED
    BY <2>1, <2>3
<1> QED
  BY <1>1, AnswersKept, PTL

-----------------------------------------------------------------------------
\* fletcher16(): its reduction comes in time.  How far the sums can be after i
\* bytes:
Within(a, b, k) ==
    /\ a <= 254 + 255 * k
    /\ 2 * b <= 508 + 508 * k + 255 * (k * (k + 1))
Bounded == Within(c0, c1, i)
FType ==
    /\ c0 \in Nat /\ c1 \in Nat
    /\ i \in 0 .. CHUNK /\ len \in Nat
    /\ sum0 \in 0 .. 254 /\ sum1 \in 0 .. 254
    /\ i <= len
    /\ at \in {"idle", "summing", "returned"}
FInv == FType /\ Bounded /\ SumsCongruent /\ ChecksumExact

\* The constants of the code satisfy the assumption this module rests on.
THEOREM ChunkOfTheCode ==
    508 + 508 * 5802 + 255 * (5802 * (5802 + 1)) < 2 * 4294967296
OBVIOUS

LEMMA Square ==
    ASSUME NEW m \in Nat, NEW n \in Nat, m <= n
    PROVE  m * (m + 1) <= n * (n + 1)
<1>1. PICK d \in Nat : n = m + d
  <2>1. n - m \in Nat /\ n = m + (n - m)
    OBVIOUS
  <2> QED
    BY <2>1
<1>2. n * (n + 1) = m * (m + 1) + (2 * (m * d) + d * d + d)
  BY <1>1
<1>3. m * d \in Nat /\ d * d \in Nat
  BY <1>1
<1> QED
  BY <1>1, <1>2, <1>3

LEMMA NextSquare ==
    ASSUME NEW n \in Nat
    PROVE  (n + 1) * (n + 2) = n * (n + 1) + 2 * (n + 1)
OBVIOUS

\* Adding a byte to a bounded pair of sums: no sum wraps.
LEMMA AddFits ==
    ASSUME FInv, NEW b \in Byte, i < CHUNK
    PROVE  /\ c0 + b <= 254 + 255 * (i + 1)
           /\ 2 * (c1 + (c0 + b)) <= 508 + 508 * (i + 1) + 255 * ((i + 1) * (i + 2))
           /\ c0 + b < WORD32 /\ c1 + (c0 + b) < WORD32
<1>1. c0 \in Nat /\ c1 \in Nat /\ i \in Nat /\ b \in Nat /\ b <= 255 /\ CHUNK \in Nat
      /\ WORD32 \in Nat
  BY ChunkAssumption DEF FInv, FType, Byte
<1>2. c0 <= 254 + 255 * i /\ 2 * c1 <= 508 + 508 * i + 255 * (i * (i + 1))
  BY DEF FInv, Bounded, Within
<1>3. (i + 1) * (i + 2) = i * (i + 1) + 2 * (i + 1)
  BY <1>1, NextSquare
<1>4. i * (i + 1) \in Nat
  BY <1>1
<1>5. /\ c0 + b <= 254 + 255 * (i + 1)
      /\ 2 * (c1 + (c0 + b)) <= 508 + 508 * (i + 1) + 255 * ((i + 1) * (i + 2))
  BY <1>1, <1>2, <1>3, <1>4
<1>6. (i + 1) * (i + 2) <= CHUNK * (CHUNK + 1)
  <2>1. (i + 1) * ((i + 1) + 1) <= CHUNK * (CHUNK + 1)
    BY <1>1, Square
  <2> QED
    BY <1>1, <2>1
<1>7. CHUNK * (CHUNK + 1) \in Nat /\ (i + 1) * (i + 2) \in Nat
  BY <1>1
<1>8. 2 * (c1 + (c0 + b)) < 2 * WORD32
  <2>1. 508 + 508 * CHUNK + 255 * (CHUNK * (CHUNK + 1)) < 2 * WORD32
    BY ChunkAssumption
  <2> QED
    BY <1>1, <1>5, <1>6, <1>7, <2>1
<1> QED
  BY <1>1, <1>5, <1>8

LEMMA AddInv ==
    ASSUME FInv, NEW b \in Bytes, AddByte(b)
    PROVE  FInv'
<1>1. b \in Byte /\ i < CHUNK /\ i < len /\ at = "summing"
  BY ChunkAssumption DEF AddByte
<1>2. c0 \in Nat /\ c1 \in Nat /\ i \in Nat /\ b \in 0 .. 255 /\ CHUNK \in Nat
      /\ WORD32 \in Nat \ {0} /\ sum0 \in 0 .. 254 /\ sum1 \in 0 .. 254 /\ len \in Nat
  BY <1>1, ChunkAssumption DEF FInv, FType, Byte
<1>3. c0' = c0 + b /\ c1' = c1 + (c0 + b)
  <2>1. c0' = (c0 + b) % WORD32 /\ c1' = (c1 + c0') % WORD32
    BY DEF AddByte
  <2>2. c0 + b \in 0 .. WORD32 - 1 /\ c1 + (c0 + b) \in 0 .. WORD32 - 1
    BY <1>1, <1>2, AddFits
  <2>3. \A n \in 0 .. WORD32 - 1 : n % WORD32 = n
    BY <1>2
  <2> QED
    BY <2>1, <2>2, <2>3
<1>4. i' = i + 1 /\ len' = len /\ at' = at
      /\ sum0' = (sum0 + b) % 255 /\ sum1' = (sum1 + sum0') % 255
  BY DEF AddByte, MODULUS
<1>5. Bounded'
  <2>1. (i + 1) + 1 = i + 2
    BY <1>2
  <2> QED
    BY <1>1, <1>3, <1>4, <2>1, AddFits DEF Bounded, Within
<1>6. FType'
  BY <1>1, <1>2, <1>3, <1>4 DEF FInv, FType
<1>7. SumsCongruent'
  <2>1. c0 % 255 = sum0 /\ c1 % 255 = sum1
    BY DEF FInv, SumsCongruent, MODULUS
  <2>2. (c0 + b) % 255 = (sum0 + b) % 255
    BY <1>2, <2>1
  <2>3. (c1 + (c0 + b)) % 255 = (sum1 + sum0') % 255
    BY <1>2, <1>4, <2>1, <2>2
  <2> QED
    BY <1>3, <1>4, <2>2, <2>3 DEF SumsCongruent, MODULUS
<1> QED
  BY <1>1, <1>4, <1>5, <1>6, <1>7 DEF FInv, ChecksumExact

LEMMA Reduced ==
    ASSUME NEW n \in Nat
    PROVE  n % 255 \in 0 .. 254 /\ (n % 255) % 255 = n % 255
OBVIOUS

LEMMA SmallSums ==
    \A a, b \in 0 .. 254 : \A k \in Nat : Within(a, b, k)
<1> TAKE a, b \in 0 .. 254
<1> TAKE k \in Nat
<1>1. k * (k + 1) \in Nat
  OBVIOUS
<1> QED
  BY <1>1 DEF Within

LEMMA ReduceInv ==
    ASSUME FInv, Reduce \/ Return
    PROVE  FInv'
<1>1. c0 \in Nat /\ c1 \in Nat /\ i \in 0 .. CHUNK /\ len \in Nat /\ i <= len
      /\ CHUNK \in Nat \ {0} /\ at = "summing"
      /\ sum0 \in 0 .. 254 /\ sum1 \in 0 .. 254
  BY ChunkAssumption DEF FInv, FType, Reduce, Return
<1>2. c0' = c0 % 255 /\ c1' = c1 % 255 /\ sum0' = sum0 /\ sum1' = sum1
  BY DEF Reduce, Return, MODULUS
<1>3. c0' \in 0 .. 254 /\ c1' \in 0 .. 254 /\ c0' % 255 = sum0 /\ c1' % 255 = sum1
  BY <1>1, <1>2, Reduced DEF FInv, SumsCongruent, MODULUS
<1>4. i' \in 0 .. CHUNK /\ len' \in Nat /\ i' <= len' /\ at' \in {"summing", "returned"}
  <2>1. CASE Reduce
    <3>1. i = CHUNK /\ i' = 0 /\ len' = len - CHUNK /\ at' = at
      BY <2>1 DEF Reduce
    <3>2. len - CHUNK \in Nat
      BY <1>1, <3>1
    <3> QED
      BY <1>1, <3>1, <3>2
  <2>2. CASE Return
    <3>1. i' = i /\ len' = len /\ at' = "returned"
      BY <2>2 DEF Return
    <3> QED
      BY <1>1, <3>1
  <2> QED
    BY <2>1, <2>2
<1>5. FType'
  BY <1>1, <1>2, <1>3, <1>4 DEF FType
<1>6. Bounded'
  <2>1. i' \in Nat
    BY <1>1, <1>4
  <2>2. c0' \in 0 .. 254 /\ c1' \in 0 .. 254
    BY <1>3
  <2>3. Within(c0', c1', i')
    BY <2>1, <2>2, SmallSums, Zenon
  <2> QED
    BY <2>3, Zenon DEF Bounded
<1>7. SumsCongruent' /\ ChecksumExact'
  <2>1. c0' % 255 = c0' /\ c1' % 255 = c1'
    BY <1>1, <1>2, Reduced
  <2>2. c0' = sum0' /\ c1' = sum1'
    BY <1>2, <1>3, <2>1
  <2>3. c0' % 255 = sum0' /\ c1' % 255 = sum1'
    BY <1>2, <1>3
  <2> QED
    BY <2>2, <2>3 DEF SumsCongruent, ChecksumExact, MODULUS
<1> QED
  BY <1>5, <1>6, <1>7 DEF FInv

LEMMA Bounded0 == Within(0, 0, 0)
BY DEF Within

\* A call begins, and one ends, with sums of nothing.
LEMMA FreshInv ==
    ASSUME FInv,
           (\E n \in Lengths : Call(n)) \/ Forget
    PROVE  FInv'
<1>1. /\ c0' = 0 /\ c1' = 0 /\ i' = 0 /\ sum0' = 0 /\ sum1' = 0
      /\ len' \in Nat /\ at' \in {"summing", "idle"}
  BY ChunkAssumption DEF Call, Forget
<1>2. 0 \in 0 .. CHUNK /\ 0 \in 0 .. 254 /\ 0 % 255 = 0
  BY ChunkAssumption
<1>3. FType'
  <2>1. 0 <= len'
    BY <1>1
  <2> QED
    BY <1>1, <1>2, <2>1 DEF FType
<1>4. Bounded'
  BY <1>1, Bounded0, Zenon DEF Bounded
<1>5. SumsCongruent' /\ ChecksumExact'
  BY <1>1, <1>2 DEF SumsCongruent, ChecksumExact, MODULUS
<1> QED
  BY <1>3, <1>4, <1>5 DEF FInv

LEMMA FInitInv == FInit => FInv
<1> SUFFICES ASSUME FInit PROVE FInv
  OBVIOUS
<1>0. /\ c0 = 0 /\ c1 = 0 /\ i = 0 /\ len = 0 /\ sum0 = 0 /\ sum1 = 0 /\ at = "idle"
  BY DEF FInit
<1>2. 0 \in 0 .. CHUNK /\ 0 \in 0 .. 254 /\ 0 % 255 = 0
  BY ChunkAssumption
<1>3. FType
  BY <1>0, <1>2 DEF FType
<1>4. Bounded
  BY <1>0, Bounded0, Zenon DEF Bounded
<1>5. SumsCongruent /\ ChecksumExact
  BY <1>0, <1>2 DEF SumsCongruent, ChecksumExact, MODULUS
<1> QED
  BY <1>3, <1>4, <1>5 DEF FInv

LEMMA FNextInv == FInv /\ [FNext]_sums => FInv'
<1> SUFFICES ASSUME FInv, [FNext]_sums PROVE FInv'
  OBVIOUS
<1>1. CASE UNCHANGED sums
  BY <1>1 DEF sums, FInv, FType, Bounded, SumsCongruent, ChecksumExact
<1> QED
  BY <1>1, AddInv, ReduceInv, FreshInv DEF FNext

-----------------------------------------------------------------------------
\* The sums stay congruent to Fletcher's, for any data.
THEOREM DeferredReduction == FSpec => []SumsCongruent
<1>1. FInv => SumsCongruent
  BY DEF FInv
<1> QED
  BY <1>1, FInitInv, FNextInv, PTL DEF FSpec

\* What fletcher16() returns is the checksum, for any data.
THEOREM ChecksumIsFletchers == FSpec => []ChecksumExact
<1>1. FInv => ChecksumExact
  BY DEF FInv
<1> QED
  BY <1>1, FInitInv, FNextInv, PTL DEF FSpec

\* So it is when the kernel's other functions are called before and after it.
THEOREM ChecksumOfTheLibrary == Spec => []ChecksumExact
<1>1. Init => FInv
  BY FInitInv DEF Init
<1>2. FInv /\ [Next]_vars => FInv'
  <2> SUFFICES ASSUME FInv, [Next]_vars PROVE FInv'
    OBVIOUS
  <2>1. CASE UNCHANGED vars \/ Boot \/ Started \/ Leave
    <3>1. UNCHANGED sums
      BY <2>1 DEF vars, Boot, Started, Leave
    <3> QED
      BY <3>1, FNextInv
  <2>2. CASE Checksum
    BY <2>2, FNextInv DEF Checksum
  <2>3. CASE Ask
    <3>1. UNCHANGED sums
      <4>1. \A name : Getenv(name) => UNCHANGED sums
        BY DEF Getenv, Answer
      <4>2. \A s, held : Search(s, held) => UNCHANGED sums
        BY DEF Search, Answer
      <4>3. \A s, base : Convert(s, base) => UNCHANGED sums
        BY DEF Convert, Answer
      <4>4. \A p, count : Format(p, count) => UNCHANGED sums
        BY DEF Format, Answer
      <4>5. \A hdr, file : LoadFile(hdr, file) => UNCHANGED sums
        BY DEF LoadFile, Answer
      <4> QED
        BY <2>3, <4>1, <4>2, <4>3, <4>4, <4>5 DEF Ask
    <3> QED
      BY <3>1, FNextInv
  <2> QED
    BY <2>1, <2>2, <2>3 DEF Next
<1>3. FInv => ChecksumExact
  BY DEF FInv
<1> QED
  BY <1>1, <1>2, <1>3, PTL DEF Spec

-----------------------------------------------------------------------------
\* kernel_strtoul().

LEMMA CharIs ==
    ASSUME NEW s \in Seq(1 .. 255), NEW k \in Int
    PROVE  /\ Char(s, k) \in 0 .. 255
           /\ Len(s) \in Nat
           /\ k \in 1 .. Len(s) => Char(s, k) = s[k] /\ Char(s, k) # 0
           /\ k \notin 1 .. Len(s) => Char(s, k) = 0
<1>1. Len(s) \in Nat
  BY LenProperties
<1>2. \A j \in 1 .. Len(s) : s[j] \in 1 .. 255
  BY ElementOfSeq
<1> DEFINE length == Len(s)
<1> HIDE DEF length
<1>3. Char(s, k) = IF k \in 1 .. length THEN s[k] ELSE 0
  BY DEF Char, length
<1>4. length \in Nat /\ \A j \in 1 .. length : s[j] \in 1 .. 255
  BY <1>1, <1>2 DEF length
<1>5. ASSUME k \in 1 .. length
      PROVE  Char(s, k) \in 1 .. 255 /\ Char(s, k) = s[k]
  <2>1. s[k] \in 1 .. 255
    BY <1>4, <1>5
  <2> QED
    BY <1>3, <1>5, <2>1
<1>6. ASSUME k \notin 1 .. length PROVE Char(s, k) = 0
  BY <1>3, <1>6
<1>7. Char(s, k) \in 0 .. 255
  <2>1. \A x \in 1 .. 255 : x \in 0 .. 255
    OBVIOUS
  <2>2. 0 \in 0 .. 255
    OBVIOUS
  <2> QED
    BY <1>5, <1>6, <2>1, <2>2, Zenon
<1>8. k \in 1 .. length => Char(s, k) = s[k] /\ Char(s, k) # 0
  <2>1. 0 \notin 1 .. 255
    OBVIOUS
  <2> QED
    BY <1>5, <2>1, Zenon
<1> QED
  BY <1>1, <1>6, <1>7, <1>8, Zenon DEF length

LEMMA DigitValueIs ==
    ASSUME NEW c \in 0 .. 255
    PROVE  DigitValue(c) \in 0 .. 36 /\ DigitValue(0) = 36
BY DEF DigitValue, NotDigit, isascii, isdigit, isalpha, isupper

\* The first character that is not one of a set: the 0 behind the string is not.
LEMMA FirstOther ==
    ASSUME NEW s \in Seq(1 .. 255), NEW k \in 1 .. Len(s) + 1,
           NEW T, 0 \notin T
    PROVE  \E e \in k .. Len(s) + 1 : /\ \A j \in k .. e - 1 : Char(s, j) \in T
                                      /\ Char(s, e) \notin T
<1> DEFINE Others == {e \in k .. Len(s) + 1 : Char(s, e) \notin T}
<1>1. Len(s) \in Nat /\ Len(s) + 1 \in Others
  <2>1. Char(s, Len(s) + 1) = 0
    BY CharIs
  <2> QED
    BY <2>1
<1>2. PICK e \in Others : \A x \in Others : e <= x
  <2>1. Others \subseteq Nat /\ Others # {}
    BY <1>1
  <2> HIDE DEF Others
  <2> QED
    BY <2>1, LeastElement
<1>3. \A j \in k .. e - 1 : Char(s, j) \in T
  BY <1>1, <1>2
<1> QED
  BY <1>2, <1>3

\* Where the spaces end, as the loop and as the definition have it.
LEMMA SpacesEnd ==
    ASSUME NEW s \in Seq(1 .. 255)
    PROVE  \E n \in 0 .. Len(s) :
               /\ SkipSpace(s) = n + 1
               /\ n = CHOOSE m \in 0 .. Len(s) :
                          /\ \A j \in 1 .. m : isspace(s[j])
                          /\ m = Len(s) \/ ~isspace(s[m + 1])
<1> DEFINE Space == {32, 12, 10, 13, 9, 11}
           Loop(k) == /\ \A j \in 1 .. k - 1 : isspace(Char(s, j))
                      /\ ~isspace(Char(s, k))
           Ends(m) == /\ \A j \in 1 .. m : isspace(s[j])
                      /\ m = Len(s) \/ ~isspace(s[m + 1])
<1>1. Len(s) \in Nat
  OBVIOUS
<1>2. PICK e \in 1 .. Len(s) + 1 : Loop(e)
  <2>1. PICK e \in 1 .. Len(s) + 1 : /\ \A j \in 1 .. e - 1 : Char(s, j) \in Space
                                     /\ Char(s, e) \notin Space
    <3>1. 1 \in 1 .. Len(s) + 1 /\ 0 \notin Space
      BY <1>1
    <3> HIDE DEF Space
    <3> QED
      BY <3>1, FirstOther
  <2> QED
    BY <2>1 DEF isspace
<1>3. ASSUME NEW k \in 1 .. Len(s) + 1, Loop(k) PROVE k = e
  <2>1. ~(k < e)
    BY <1>1, <1>2, <1>3
  <2>2. ~(e < k)
    BY <1>1, <1>2, <1>3
  <2> QED
    BY <2>1, <2>2
<1>4. ASSUME NEW m \in 0 .. Len(s) PROVE Ends(m) <=> Loop(m + 1)
  <2>1. \A j \in 1 .. m : Char(s, j) = s[j]
    BY <1>1, CharIs
  <2>2. m # Len(s) => Char(s, m + 1) = s[m + 1]
    BY <1>1, CharIs
  <2>3. m = Len(s) => ~isspace(Char(s, m + 1))
    <3>1. m = Len(s) => Char(s, m + 1) = 0
      BY <1>1, CharIs
    <3> QED
      BY <3>1 DEF isspace
  <2>4. (m + 1) - 1 = m
    OBVIOUS
  <2>5. (\A j \in 1 .. m : isspace(s[j])) <=> \A j \in 1 .. (m + 1) - 1 : isspace(Char(s, j))
    BY <2>1, <2>4
  <2>6. (m = Len(s) \/ ~isspace(s[m + 1])) <=> ~isspace(Char(s, m + 1))
    BY <2>2, <2>3
  <2> QED
    BY <2>5, <2>6
<1> HIDE DEF Loop, Ends
<1>5. SkipSpace(s) = e
  <2>1. SkipSpace(s) = CHOOSE k \in 1 .. Len(s) + 1 : Loop(k)
    BY Zenon DEF SkipSpace, Loop
  <2> DEFINE chosen == CHOOSE k \in 1 .. Len(s) + 1 : Loop(k)
  <2>2. chosen \in 1 .. Len(s) + 1 /\ Loop(chosen)
    BY <1>2, Zenon
  <2> HIDE DEF chosen
  <2>3. chosen = e
    BY <1>3, <2>2
  <2> QED
    BY <2>1, <2>3 DEF chosen
<1> DEFINE n == CHOOSE m \in 0 .. Len(s) : Ends(m)
<1>6. n = CHOOSE m \in 0 .. Len(s) : /\ \A j \in 1 .. m : isspace(s[j])
                                     /\ m = Len(s) \/ ~isspace(s[m + 1])
  BY DEF Ends
<1>7. n \in 0 .. Len(s) /\ Ends(n)
  <2>1. e - 1 \in 0 .. Len(s) /\ (e - 1) + 1 = e
    BY <1>1
  <2>2. Ends(e - 1)
    BY <1>2, <1>4, <2>1
  <2> QED
    BY <2>1, <2>2, Zenon
<1> HIDE DEF n
<1>8. e = n + 1
  <2>1. n + 1 \in 1 .. Len(s) + 1
    BY <1>1, <1>7
  <2> QED
    BY <1>3, <1>4, <1>7, <2>1
<1> QED
  BY <1>5, <1>6, <1>7, <1>8

\* How far the digits go.
LEMMA NotLess == \A a, b \in 0 .. 36 : a >= b <=> ~(a < b)
OBVIOUS

DigitAt(s, j) == DigitValue(Char(s, j))

LEMMA DigitAtIs ==
    ASSUME NEW s \in Seq(1 .. 255), NEW j \in Int
    PROVE  /\ DigitAt(s, j) \in 0 .. 36
           /\ j \in 1 .. Len(s) => DigitAt(s, j) = DigitValue(s[j])
           /\ j \notin 1 .. Len(s) => DigitAt(s, j) = 36
<1>1. Char(s, j) \in 0 .. 255 /\ (j \in 1 .. Len(s) => Char(s, j) = s[j])
      /\ (j \notin 1 .. Len(s) => Char(s, j) = 0)
  BY CharIs
<1>2. DigitValue(Char(s, j)) \in 0 .. 36 /\ DigitValue(0) = 36
  BY <1>1, DigitValueIs
<1> QED
  BY <1>1, <1>2, Zenon DEF DigitAt

DigitsEnd(s, k, base, e) ==
    /\ e \in k .. Len(s) + 1
    /\ \A j \in k .. e - 1 : DigitAt(s, j) < base
    /\ DigitAt(s, e) >= base

LEMMA RunIs ==
    ASSUME NEW s \in Seq(1 .. 255), NEW k \in 1 .. Len(s) + 1, NEW base \in 1 .. 36
    PROVE  \E e : DigitsEnd(s, k, base, e) /\ (k <= Len(s) => RunEnd(s, k, base) = e - 1)
<1> DEFINE Run(n) == /\ \A j \in k .. n : DigitValue(s[j]) < base
                     /\ n = Len(s) \/ DigitValue(s[n + 1]) >= base
           length == Len(s)
<1>1. length \in Nat
  BY LenProperties
<1>2. PICK e \in k .. length + 1 : DigitsEnd(s, k, base, e)
  <2> DEFINE T == {c \in 0 .. 255 : DigitValue(c) < base}
  <2>1. 0 \notin T
    <3>1. DigitValue(0) = 36
      BY DigitValueIs
    <3> QED
      BY <3>1
  <2> HIDE DEF T
  <2>2. PICK e \in k .. Len(s) + 1 : /\ \A j \in k .. e - 1 : Char(s, j) \in T
                                     /\ Char(s, e) \notin T
    BY <2>1, FirstOther
  <2>3. Char(s, e) \in 0 .. 255 /\ DigitAt(s, e) \in 0 .. 36
    BY <1>1, <2>2, CharIs, DigitAtIs
  <2>4. DigitAt(s, e) >= base
    <3>1. ~(DigitValue(Char(s, e)) < base)
      BY <2>2, <2>3, Zenon DEF T
    <3>2. ~(DigitAt(s, e) < base)
      BY <3>1, Zenon DEF DigitAt
    <3>3. base \in 0 .. 36
      OBVIOUS
    <3> QED
      BY <2>3, <3>2, <3>3, NotLess, Zenon
  <2>5. \A j \in k .. e - 1 : DigitAt(s, j) < base
    BY <2>2 DEF T, DigitAt
  <2> QED
    BY <2>2, <2>4, <2>5 DEF DigitsEnd, length
<1>3. /\ \A j \in k .. e - 1 : DigitAt(s, j) < base
      /\ DigitAt(s, e) >= base
  BY <1>2 DEF DigitsEnd
<1>4. ASSUME NEW n \in k - 1 .. length
      PROVE  Run(n) <=> n = e - 1
  <2>1. \A j \in k .. n : DigitValue(s[j]) = DigitAt(s, j) /\ DigitAt(s, j) \in 0 .. 36
    BY <1>1, DigitAtIs DEF length
  <2>2. n # length => DigitValue(s[n + 1]) = DigitAt(s, n + 1)
    <3>1. n # length => n + 1 \in 1 .. length
      BY <1>1
    <3> QED
      BY <3>1, DigitAtIs DEF length
  <2>3. DigitAt(s, n + 1) \in 0 .. 36 /\ (n = length => DigitAt(s, n + 1) = 36)
    <3>1. n + 1 \in Int /\ (n = length => n + 1 \notin 1 .. length)
      BY <1>1
    <3> QED
      BY <3>1, DigitAtIs DEF length
  <2>4. Run(n) <=> (\A j \in k .. n : DigitAt(s, j) < base) /\ DigitAt(s, n + 1) >= base
    BY <2>1, <2>2, <2>3 DEF length
  <2> HIDE DEF Run
  <2>5. ASSUME n = e - 1 PROVE Run(n)
    <3>1. n + 1 = e
      BY <1>1, <1>2, <2>5
    <3> QED
      BY <1>3, <2>4, <2>5, <3>1
  <2>6. ASSUME Run(n) PROVE n = e - 1
    <3>1. ~(n < e - 1)
      <4> SUFFICES ASSUME n < e - 1 PROVE FALSE
        OBVIOUS
      <4>1. n + 1 \in k .. e - 1
        BY <1>1, <1>2
      <4>2. DigitAt(s, n + 1) < base
        BY <1>3, <4>1
      <4>3. DigitAt(s, n + 1) >= base
        BY <2>4, <2>6
      <4>4. base \in 0 .. 36
        OBVIOUS
      <4> QED
        BY <2>3, <4>2, <4>3, <4>4, NotLess, Zenon
    <3>2. ~(n > e - 1)
      <4> SUFFICES ASSUME n > e - 1 PROVE FALSE
        OBVIOUS
      <4>1. e \in k .. n /\ e \in Int
        BY <1>1, <1>2
      <4>2. DigitAt(s, e) \in 0 .. 36
        BY <4>1, DigitAtIs
      <4>3. DigitAt(s, e) < base
        BY <2>4, <2>6, <4>1
      <4>4. base \in 0 .. 36
        OBVIOUS
      <4> QED
        BY <1>3, <4>2, <4>3, <4>4, NotLess, Zenon
    <3> QED
      BY <1>1, <1>2, <3>1, <3>2
  <2> QED
    BY <2>5, <2>6
<1> HIDE DEF Run
<1>5. ASSUME k <= length PROVE RunEnd(s, k, base) = e - 1
  <2> DEFINE chosen == CHOOSE n \in k - 1 .. Len(s) : Run(n)
  <2>1. RunEnd(s, k, base) = chosen
    BY Zenon DEF RunEnd, Run
  <2>2. e - 1 \in k - 1 .. length /\ Run(e - 1)
    <3>1. e - 1 \in k - 1 .. length
      BY <1>1, <1>2
    <3> QED
      BY <1>4, <3>1
  <2>3. chosen \in k - 1 .. length /\ Run(chosen)
    BY <2>2, Zenon DEF length
  <2> HIDE DEF chosen
  <2> QED
    BY <1>4, <2>1, <2>3
<1> QED
  BY <1>2, <1>5 DEF length

\* Numbers only grow as digits are added.
LEMMA Grows ==
    ASSUME NEW v \in Nat, NEW base \in Nat \ {0}, NEW c \in Nat
    PROVE  v * base + c \in Nat /\ v <= v * base + c
<1>1. v * base \in Nat
  OBVIOUS
<1>2. 1 * v <= base * v
  <2>1. \A m \in Nat : m * v \in Nat
    OBVIOUS
  <2>2. (base - 1) * v \in Nat
    BY <2>1
  <2>3. (base - 1) * v = base * v - 1 * v
    OBVIOUS
  <2> QED
    BY <1>1, <2>2, <2>3
<1>3. base * v = v * base /\ 1 * v = v
  OBVIOUS
<1> QED
  BY <1>1, <1>2, <1>3

\* The last digit is looked at before it is added.
LEMMA OverflowsIs ==
    ASSUME NEW acc \in Nat, NEW base \in Nat \ {0}, NEW c \in 0 .. base - 1
    PROVE  Overflows(acc, c, base) <=> acc * base + c > ULONG_MAX
<1> DEFINE q == ULONG_MAX \div base
           r == ULONG_MAX % base
<1>1. q \in Nat /\ r \in 0 .. base - 1 /\ ULONG_MAX = q * base + r /\ ULONG_MAX \in Nat
  BY StrtoulAssumption, Division
<1>2. Overflows(acc, c, base) <=> acc > q \/ (acc = q /\ c > r)
  BY DEF Overflows
<1> HIDE DEF q, r
<1>3. acc * base \in Nat /\ q * base \in Nat
  BY <1>1
<1>4. CASE acc > q
  <2>1. q * base + base <= acc * base
    BY <1>1, <1>4, LessTimes
  <2> QED
    BY <1>1, <1>2, <1>3, <1>4, <2>1
<1>5. CASE acc < q
  <2>1. acc * base + base <= q * base
    BY <1>1, <1>5, LessTimes
  <2> QED
    BY <1>1, <1>2, <1>3, <1>5, <2>1
<1>6. CASE acc = q
  BY <1>1, <1>2, <1>3, <1>6
<1> QED
  BY <1>1, <1>4, <1>5, <1>6

\* The values of the first so many digits.
PrefixValues(s, from, base, n) ==
    {h \in [0 .. n -> Nat] :
        /\ h[0] = 0
        /\ \A m \in 1 .. n : h[m] = h[m - 1] * base + DigitAt(s, from + m - 1)}

LEMMA ValuesExist ==
    ASSUME NEW s \in Seq(1 .. 255), NEW from \in Nat, NEW base \in Nat \ {0}, NEW n \in Nat
    PROVE  PrefixValues(s, from, base, n) # {}
<1> DEFINE step == [k \in Nat |-> [v \in Nat |-> v * base + DigitAt(s, from + k - 1)]]
<1>1. ASSUME NEW k \in Nat PROVE DigitAt(s, from + k - 1) \in Nat
  <2>1. from + k - 1 \in Int
    OBVIOUS
  <2>2. DigitAt(s, from + k - 1) \in 0 .. 36
    BY <2>1, DigitAtIs
  <2>3. \A d \in 0 .. 36 : d \in Nat
    OBVIOUS
  <2> QED
    BY <2>2, <2>3, Zenon
<1>2. \A k \in Nat : step[k] \in [Nat -> Nat]
  <2> SUFFICES ASSUME NEW k \in Nat, NEW v \in Nat
               PROVE  v * base + DigitAt(s, from + k - 1) \in Nat
    BY Zenon
  <2> QED
    BY <1>1, Grows
<1>3. \A k \in Nat : \A v \in Nat : step[k][v] = v * base + DigitAt(s, from + k - 1)
  BY Zenon
<1> HIDE DEF step
<1>4. PICK h \in [0 .. n -> Nat] : h[0] = 0 /\ \A k \in 1 .. n : h[k] = step[k][h[k - 1]]
  <2>1. Histories(Nat, 0, step, n) # {}
    BY <1>2, Iterates
  <2> QED
    BY <2>1 DEF Histories
<1>5. ASSUME NEW m \in 1 .. n PROVE h[m] = h[m - 1] * base + DigitAt(s, from + m - 1)
  <2>1. m \in Nat /\ m - 1 \in 0 .. n
    OBVIOUS
  <2>2. h[m - 1] \in Nat
    BY <2>1
  <2>3. step[m][h[m - 1]] = h[m - 1] * base + DigitAt(s, from + m - 1)
    BY <1>3, <2>1, <2>2, Zenon
  <2> QED
    BY <1>4, <2>3
<1> QED
  BY <1>4, <1>5 DEF PrefixValues

\* The value of them all is what their positions say.
LEMMA PositionalIs ==
    ASSUME NEW s \in Seq(1 .. 255), NEW from \in Nat \ {0}, NEW base \in Nat \ {0},
           NEW n \in Nat, from + n - 1 <= Len(s), NEW h \in PrefixValues(s, from, base, n)
    PROVE  Positional(s, from, from + n - 1, base) = h[n]
<1> DEFINE to == from + n - 1
           Loop(f) == f = [k \in from - 1 .. to |->
                              IF k < from THEN 0 ELSE f[k - 1] * base + DigitValue(s[k])]
           place == CHOOSE f : Loop(f)
           g == [k \in from - 1 .. to |-> h[k - from + 1]]
<1>0. Len(s) \in Nat /\ to \in Int /\ to <= Len(s)
  BY LenProperties
<1>1. /\ h[0] = 0
      /\ \A m \in 1 .. n : h[m] = h[m - 1] * base + DigitAt(s, from + m - 1)
  BY DEF PrefixValues
<1>2. Loop(g)
  <2> SUFFICES ASSUME NEW k \in from - 1 .. to
               PROVE  h[k - from + 1] =
                          IF k < from THEN 0 ELSE g[k - 1] * base + DigitValue(s[k])
    BY Zenon
  <2>1. CASE k < from
    <3>1. k - from + 1 = 0
      BY <2>1
    <3> QED
      BY <1>1, <2>1, <3>1
  <2>2. CASE ~(k < from)
    <3> DEFINE m == k - from + 1
    <3>1. /\ m \in 1 .. n /\ from + m - 1 = k /\ k \in 1 .. Len(s)
          /\ k - 1 \in from - 1 .. to /\ (k - 1) - from + 1 = m - 1
      BY <1>0, <2>2
    <3>2. DigitAt(s, k) = DigitValue(s[k])
      BY <3>1, DigitAtIs
    <3>3. g[k - 1] = h[m - 1]
      BY <3>1
    <3>4. h[m] = h[m - 1] * base + DigitAt(s, from + m - 1)
      BY <1>1, <3>1
    <3> HIDE DEF m, g
    <3>5. h[m] = g[k - 1] * base + DigitValue(s[k])
      BY <3>1, <3>2, <3>3, <3>4
    <3> QED
      BY <2>2, <3>5 DEF m
  <2> QED
    BY <2>1, <2>2
<1>3. Loop(place)
  <2> HIDE DEF Loop
  <2> QED
    BY <1>2
<1>4. \A k \in from - 1 .. to :
          place[k] = IF k < from THEN 0 ELSE place[k - 1] * base + DigitValue(s[k])
  <2> HIDE DEF place
  <2> QED
    BY <1>3, Zenon
<1>5. \A k \in from - 1 .. to :
          g[k] = IF k < from THEN 0 ELSE g[k - 1] * base + DigitValue(s[k])
  <2> HIDE DEF g
  <2> QED
    BY <1>2, Zenon
<1>6. Positional(s, from, to, base) = place[to]
  BY Zenon DEF Positional, place, Loop
<1>7. g[to] = h[n]
  <2>1. to \in from - 1 .. to /\ to - from + 1 = n
    OBVIOUS
  <2> QED
    BY <2>1
<1> HIDE DEF place, g, Loop
<1>8. \A m \in Nat : m <= n => place[from - 1 + m] = g[from - 1 + m]
  <2> DEFINE T == {m \in Nat : m <= n => place[from - 1 + m] = g[from - 1 + m]}
  <2>1. 0 \in T
    <3>1. from - 1 \in from - 1 .. to /\ from - 1 < from /\ from - 1 + 0 = from - 1
      BY <1>0
    <3> QED
      BY <1>4, <1>5, <3>1
  <2>2. ASSUME NEW m \in Nat, m \in T PROVE m + 1 \in T
    <3> DEFINE k == from - 1 + (m + 1)
    <3> SUFFICES ASSUME m + 1 <= n PROVE place[k] = g[k]
      OBVIOUS
    <3>1. k \in from - 1 .. to /\ ~(k < from) /\ k - 1 = from - 1 + m /\ m <= n
      OBVIOUS
    <3>2. place[k - 1] = g[k - 1]
      BY <2>2, <3>1
    <3> HIDE DEF k
    <3> QED
      BY <1>4, <1>5, <3>1, <3>2
  <2> HIDE DEF T
  <2>3. \A m \in Nat : m \in T
    BY <2>1, <2>2, Induct
  <2> QED
    BY <2>3 DEF T
<1>9. place[to] = g[to]
  <2>1. from - 1 + n = to
    OBVIOUS
  <2>2. place[from - 1 + n] = g[from - 1 + n]
    BY <1>8
  <2> QED
    BY <2>1, <2>2
<1> QED
  BY <1>6, <1>7, <1>9

\* The loop over the digits has a history of any length.
Results == [acc : 0 .. ULONG_MAX, any : {-1, 0, 1}, at : Nat]
Adds(s, from, base) ==
    {g \in [0 .. Len(s) -> Results] :
        /\ g[0] = [acc |-> 0, any |-> 0, at |-> from]
        /\ \A k \in 1 .. Len(s) : g[k] = AddDigit(s, base, g[k - 1])
        /\ Accumulate(s, from, base) = g[Len(s)]}

LEMMA AddDigitKeeps ==
    ASSUME NEW s \in Seq(1 .. 255), NEW base \in 1 .. 36, NEW r \in Results
    PROVE  AddDigit(s, base, r) \in Results
<1> DEFINE c == DigitAt(s, r.at)
           more == (r.acc * base + c) % (ULONG_MAX + 1)
<1>1. r.acc \in 0 .. ULONG_MAX /\ r.at \in Nat /\ r.any \in {-1, 0, 1}
  BY DEF Results
<1>2. c \in 0 .. 36
  <2>1. r.at \in Int
    BY <1>1
  <2> QED
    BY <2>1, DigitAtIs
<1>3. AddDigit(s, base, r) =
          IF c >= base THEN r
          ELSE IF r.any < 0 \/ Overflows(r.acc, c, base)
          THEN [acc |-> r.acc, any |-> -1, at |-> r.at + 1]
          ELSE [acc |-> more, any |-> 1, at |-> r.at + 1]
  BY Zenon DEF AddDigit, DigitAt, c, more
<1>4. more \in 0 .. ULONG_MAX
  <2> HIDE DEF c
  <2>1. ULONG_MAX \in Nat /\ ULONG_MAX + 1 \in Nat \ {0}
    BY StrtoulAssumption
  <2>2. r.acc * base + c \in Nat
    <3>1. \A a, b \in Nat : a * b \in Nat
      OBVIOUS
    <3>2. r.acc \in Nat /\ base \in Nat /\ c \in Nat
      BY <1>1, <1>2, <2>1
    <3>3. r.acc * base \in Nat
      BY <3>1, <3>2
    <3> QED
      BY <3>2, <3>3
  <2>3. \A M \in Nat : \A n \in Nat : n % (M + 1) \in 0 .. M
    OBVIOUS
  <2> QED
    BY <2>1, <2>2, <2>3
<1> HIDE DEF c, more
<1>5. r.at + 1 \in Nat
  BY <1>1
<1>6. [acc |-> r.acc, any |-> -1, at |-> r.at + 1] \in Results
  BY <1>1, <1>5 DEF Results
<1>7. [acc |-> more, any |-> 1, at |-> r.at + 1] \in Results
  BY <1>4, <1>5 DEF Results
<1> QED
  BY <1>3, <1>6, <1>7, Zenon

LEMMA AddsExist ==
    ASSUME NEW s \in Seq(1 .. 255), NEW from \in Nat, NEW base \in 1 .. 36
    PROVE  Adds(s, from, base) # {}
<1> DEFINE num == Len(s)
           first == [acc |-> 0, any |-> 0, at |-> from]
           step == [k \in Nat |-> [r \in Results |-> AddDigit(s, base, r)]]
           Loop(f) == f = [n \in 0 .. num |->
                              IF n = 0 THEN first ELSE AddDigit(s, base, f[n - 1])]
           after == CHOOSE f : Loop(f)
<1>0. num \in Nat
  BY LenProperties
<1>1. first \in Results
  <2>1. 0 \in 0 .. ULONG_MAX
    BY StrtoulAssumption
  <2> QED
    BY <2>1 DEF Results
<1> HIDE DEF first
<1>2. \A k \in Nat : step[k] \in [Results -> Results]
  <2> SUFFICES ASSUME NEW k \in Nat, NEW r \in Results
               PROVE  AddDigit(s, base, r) \in Results
    BY Zenon
  <2> QED
    BY AddDigitKeeps
<1>3. \A k \in Nat : \A r \in Results : step[k][r] = AddDigit(s, base, r)
  BY Zenon
<1> HIDE DEF step, num
<1>4. PICK g \in [0 .. num -> Results] :
          g[0] = first /\ \A k \in 1 .. num : g[k] = step[k][g[k - 1]]
  <2>1. Histories(Results, first, step, num) # {}
    BY <1>0, <1>1, <1>2, Iterates
  <2> QED
    BY <2>1 DEF Histories
<1>5. ASSUME NEW k \in 1 .. num PROVE g[k] = AddDigit(s, base, g[k - 1])
  <2>1. k \in Nat /\ k - 1 \in 0 .. num
    BY <1>0
  <2>2. g[k - 1] \in Results
    BY <2>1
  <2>3. step[k][g[k - 1]] = AddDigit(s, base, g[k - 1])
    BY <1>3, <2>1, <2>2, Zenon
  <2> QED
    BY <1>4, <2>3
<1>6. Loop(g)
  <2>1. \A n \in 0 .. num :
            g[n] = IF n = 0 THEN first ELSE AddDigit(s, base, g[n - 1])
    <3> SUFFICES ASSUME NEW n \in 0 .. num
                 PROVE  g[n] = IF n = 0 THEN first ELSE AddDigit(s, base, g[n - 1])
      OBVIOUS
    <3>1. CASE n = 0
      BY <1>4, <3>1
    <3>2. CASE n # 0
      <4>1. n \in 1 .. num
        BY <1>0, <3>2
      <4> QED
        BY <1>5, <3>2, <4>1
    <3> QED
      BY <3>1, <3>2
  <2> QED
    BY <2>1
<1>7. Loop(after)
  <2> HIDE DEF Loop
  <2> QED
    BY <1>6
<1>8. \A n \in 0 .. num :
          after[n] = IF n = 0 THEN first ELSE AddDigit(s, base, after[n - 1])
  <2> HIDE DEF after
  <2> QED
    BY <1>7, Zenon
<1>9. Accumulate(s, from, base) = after[num]
  BY Zenon DEF Accumulate, after, Loop, first, num
<1> HIDE DEF after, Loop
<1>10. \A n \in 0 .. num : after[n] = g[n]
  <2> DEFINE T == {n \in Nat : n <= num => after[n] = g[n]}
  <2>1. 0 \in T
    BY <1>0, <1>4, <1>8
  <2>2. ASSUME NEW n \in Nat, n \in T PROVE n + 1 \in T
    <3> DEFINE k == n + 1
    <3> SUFFICES ASSUME k <= num PROVE after[k] = g[k]
      OBVIOUS
    <3>1. k \in 0 .. num /\ k \in 1 .. num /\ k # 0 /\ k - 1 = n /\ n <= num
      BY <1>0
    <3> HIDE DEF k
    <3>2. after[k - 1] = g[k - 1]
      BY <2>2, <3>1
    <3> QED
      BY <1>5, <1>8, <3>1, <3>2
  <2> HIDE DEF T
  <2>3. \A n \in Nat : n \in T
    BY <2>1, <2>2, Induct
  <2> QED
    BY <1>0, <2>3 DEF T
<1>11. after[num] = g[num]
  <2>1. num \in 0 .. num
    BY <1>0
  <2> QED
    BY <1>10, <2>1
<1>12. /\ g \in [0 .. num -> Results] /\ g[0] = first
       /\ \A k \in 1 .. num : g[k] = AddDigit(s, base, g[k - 1])
       /\ Accumulate(s, from, base) = g[num]
  BY <1>4, <1>5, <1>9, <1>11
<1> QED
  BY <1>12, Zenon DEF Adds, first, num

\* Where the loop is after m digits, whose value is v.
After(r, from, m, v) ==
    /\ r \in Results /\ r.at = from + m
    /\ IF v > ULONG_MAX THEN r.any = -1
       ELSE r.acc = v /\ r.any = IF m = 0 THEN 0 ELSE 1

LEMMA DigitAdded ==
    ASSUME NEW s \in Seq(1 .. 255), NEW from \in Nat, NEW base \in 1 .. 36, NEW m \in Nat,
           NEW v \in Nat, NEW r, After(r, from, m, v), DigitAt(s, from + m) < base
    PROVE  After(AddDigit(s, base, r), from, m + 1, v * base + DigitAt(s, from + m))
<1> DEFINE c == DigitAt(s, from + m)
           w == v * base + c
<1>1. c \in 0 .. 36 /\ c < base /\ from + m \in Int
  <2>1. from + m \in Int
    OBVIOUS
  <2> QED
    BY <2>1, DigitAtIs
<1>2. r.at = from + m /\ r \in Results /\ AddDigit(s, base, r) \in Results
      /\ (IF v > ULONG_MAX THEN r.any = -1 ELSE r.acc = v /\ r.any = IF m = 0 THEN 0 ELSE 1)
  BY AddDigitKeeps DEF After
<1>3. AddDigit(s, base, r) =
          IF c >= base THEN r
          ELSE IF r.any < 0 \/ Overflows(r.acc, c, base)
          THEN [acc |-> r.acc, any |-> -1, at |-> r.at + 1]
          ELSE [acc |-> (r.acc * base + c) % (ULONG_MAX + 1), any |-> 1, at |-> r.at + 1]
  <2>1. c = DigitValue(Char(s, r.at))
    BY <1>2 DEF DigitAt
  <2> QED
    BY <2>1, Zenon DEF AddDigit
<1> HIDE DEF c
<1>4. /\ c \in Nat /\ c \in 0 .. base - 1 /\ ~(c >= base) /\ base \in Nat \ {0}
      /\ ULONG_MAX \in Nat
  BY <1>1, StrtoulAssumption
<1>5. w \in Nat /\ v <= w
  BY <1>4, Grows
<1> HIDE DEF w
<1>6. (r.at + 1) = from + (m + 1) /\ m + 1 # 0
  BY <1>2
<1>7. CASE v > ULONG_MAX
  <2>1. AddDigit(s, base, r) = [acc |-> r.acc, any |-> -1, at |-> r.at + 1]
    BY <1>2, <1>3, <1>4, <1>7
  <2>2. w > ULONG_MAX
    BY <1>4, <1>5, <1>7
  <2> QED
    BY <1>2, <1>6, <2>1, <2>2 DEF After, w, c
<1>8. CASE ~(v > ULONG_MAX) /\ w > ULONG_MAX
  <2>1. Overflows(v, c, base)
    BY <1>4, <1>8, OverflowsIs DEF w
  <2>2. AddDigit(s, base, r) = [acc |-> r.acc, any |-> -1, at |-> r.at + 1]
    BY <1>2, <1>3, <1>4, <1>8, <2>1
  <2> QED
    BY <1>2, <1>6, <1>8, <2>2 DEF After, w, c
<1>9. CASE ~(v > ULONG_MAX) /\ ~(w > ULONG_MAX)
  <2>1. ~Overflows(v, c, base)
    BY <1>4, <1>9, OverflowsIs DEF w
  <2>2. r.acc = v /\ ~(r.any < 0)
    BY <1>2, <1>9
  <2>3. w % (ULONG_MAX + 1) = w
    <3> DEFINE R == ULONG_MAX + 1
    <3>1. R \in Nat \ {0} /\ w < R
      BY <1>4, <1>5, <1>9
    <3> HIDE DEF R
    <3>2. 0 * R = 0 /\ (0 + 1) * R = R
      BY <3>1
    <3>3. w - 0 * R = w % R
      <4>1. 0 \in Nat /\ 0 * R <= w /\ w < (0 + 1) * R
        BY <1>5, <3>1, <3>2
      <4> QED
        BY <1>5, <3>1, <4>1, QuotientUnique
    <3> QED
      BY <1>5, <3>2, <3>3 DEF R
  <2>4. AddDigit(s, base, r) = [acc |-> w, any |-> 1, at |-> r.at + 1]
    BY <1>3, <1>4, <2>1, <2>2, <2>3 DEF w
  <2> QED
    BY <1>2, <1>6, <1>9, <2>4 DEF After, w, c
<1> QED
  BY <1>7, <1>8, <1>9

LEMMA AccumulateIs ==
    ASSUME NEW s \in Seq(1 .. 255), NEW from \in 1 .. Len(s) + 1, NEW base \in 1 .. 36,
           NEW n \in Nat, DigitsEnd(s, from, base, from + n),
           NEW h \in PrefixValues(s, from, base, n)
    PROVE  After(Accumulate(s, from, base), from, n, h[n]) /\ h[n] \in Nat
<1> DEFINE length == Len(s)
           m(k) == IF k <= n THEN k ELSE n
<1>1. length \in Nat /\ from \in Nat /\ from + n <= length + 1
  BY LenProperties DEF DigitsEnd
<1>2. /\ \A j \in from .. from + n - 1 : DigitAt(s, j) < base
      /\ DigitAt(s, from + n) >= base
  BY DEF DigitsEnd
<1>3. /\ h \in [0 .. n -> Nat] /\ h[0] = 0
      /\ \A k \in 1 .. n : h[k] = h[k - 1] * base + DigitAt(s, from + k - 1)
  BY DEF PrefixValues
<1>4. PICK g \in Adds(s, from, base) : TRUE
  BY <1>1, AddsExist
<1>5. /\ g \in [0 .. length -> Results] /\ g[0] = [acc |-> 0, any |-> 0, at |-> from]
      /\ \A k \in 1 .. length : g[k] = AddDigit(s, base, g[k - 1])
      /\ Accumulate(s, from, base) = g[length]
  BY DEF Adds
<1> DEFINE T == {k \in Nat : k <= length => After(g[k], from, m(k), h[m(k)])}
<1>6. 0 \in T
  <2>1. m(0) = 0 /\ ~(0 > ULONG_MAX) /\ from + 0 = from
    BY <1>1, StrtoulAssumption
  <2>2. g[0] \in Results
    BY <1>1, <1>5
  <2>3. g[0].at = from /\ g[0].acc = 0 /\ g[0].any = 0
    BY <1>5
  <2>4. After(g[0], from, 0, 0)
    BY <2>1, <2>2, <2>3 DEF After
  <2> HIDE DEF m
  <2> QED
    BY <1>3, <2>1, <2>4
<1>7. ASSUME NEW k \in Nat, k \in T PROVE k + 1 \in T
  <2> SUFFICES ASSUME k + 1 <= length PROVE After(g[k + 1], from, m(k + 1), h[m(k + 1)])
    OBVIOUS
  <2>1. After(g[k], from, m(k), h[m(k)])
    BY <1>1, <1>7
  <2>2. g[k + 1] = AddDigit(s, base, g[k])
    <3>1. k + 1 \in 1 .. length /\ (k + 1) - 1 = k
      BY <1>1
    <3>2. g[k + 1] = AddDigit(s, base, g[(k + 1) - 1])
      BY <1>5, <3>1
    <3> QED
      BY <3>1, <3>2
  <2>3. CASE k < n
    <3>1. m(k) = k /\ m(k + 1) = k + 1 /\ k \in 0 .. n /\ from + k \in from .. from + n - 1
      BY <1>1, <2>3
    <3>2. h[k] \in Nat
      BY <1>3, <3>1
    <3>3. DigitAt(s, from + k) < base
      BY <1>2, <3>1
    <3>4. After(g[k], from, k, h[k])
      BY <2>1, <3>1
    <3>5. After(AddDigit(s, base, g[k]), from, k + 1, h[k] * base + DigitAt(s, from + k))
      BY <1>1, <3>2, <3>3, <3>4, DigitAdded
    <3>6. h[k + 1] = h[k] * base + DigitAt(s, from + k)
      <4>1. k + 1 \in 1 .. n /\ (k + 1) - 1 = k /\ from + (k + 1) - 1 = from + k
        BY <1>1, <2>3
      <4>2. h[k + 1] = h[(k + 1) - 1] * base + DigitAt(s, from + (k + 1) - 1)
        BY <1>3, <4>1
      <4> QED
        BY <4>1, <4>2
    <3>7. After(g[k + 1], from, k + 1, h[k + 1])
      BY <2>2, <3>5, <3>6
    <3> QED
      BY <3>1, <3>7
  <2>4. CASE ~(k < n)
    <3>1. m(k) = n /\ m(k + 1) = n
      BY <2>4
    <3>2. g[k].at = from + n
      BY <2>1, <3>1 DEF After
    <3>3. AddDigit(s, base, g[k]) = g[k]
      BY <1>2, <3>2 DEF AddDigit, DigitAt
    <3>4. g[k + 1] = g[k]
      BY <2>2, <3>3
    <3> HIDE DEF m
    <3> QED
      BY <2>1, <3>1, <3>4
  <2> QED
    BY <2>3, <2>4
<1>8. length \in T
  <2> HIDE DEF T
  <2> QED
    BY <1>1, <1>6, <1>7, Induct
<1>9. m(length) = n
  BY <1>1
<1>10. After(g[length], from, n, h[n])
  <2> HIDE DEF m
  <2> QED
    BY <1>1, <1>8, <1>9
<1>11. h[n] \in Nat
  BY <1>3
<1> QED
  BY <1>5, <1>10, <1>11

\* The number as the code takes it: 0x is a prefix whatever stands behind it.
Taken(s, base) ==
    LET spaces == CHOOSE m \in 0 .. Len(s) :
                      /\ \A j \in 1 .. m : isspace(s[j])
                      /\ m = Len(s) \/ ~isspace(s[m + 1])
        sign == IF Char(s, spaces + 1) \in {43, 45} THEN 1 ELSE 0
        k == spaces + sign + 1
        zerox == base \in {0, 16} /\ Char(s, k) = 48 /\ Char(s, k + 1) \in {88, 120}
        b == IF base # 0 THEN base
             ELSE IF zerox THEN 16 ELSE IF Char(s, k) = 48 THEN 8 ELSE 10
        from == IF zerox THEN k + 2 ELSE k
        to == IF from > Len(s) THEN from - 1 ELSE RunEnd(s, from, b)
    IN  [neg |-> sign = 1 /\ s[spaces + 1] = 45,
         value |-> IF to < from THEN 0 ELSE Positional(s, from, to, b),
         end |-> IF to < from THEN 1 ELSE to + 1]
Limited(n) ==
    [value |-> IF n.value > ULONG_MAX THEN ULONG_MAX
               ELSE IF n.neg THEN (-n.value) % (ULONG_MAX + 1) ELSE n.value,
     end |-> n.end]

\* Where the digits begin.
LEMMA StartIs ==
    ASSUME NEW s \in Seq(1 .. 255), NEW base \in 0 .. 36
    PROVE  \E neg \in BOOLEAN, from \in 1 .. Len(s) + 1, b \in 1 .. 36 :
               /\ Start(s, base) = [at |-> from, neg |-> neg, base |-> b]
               /\ Taken(s, base) =
                      LET to == IF from > Len(s) THEN from - 1 ELSE RunEnd(s, from, b)
                      IN  [neg |-> neg,
                           value |-> IF to < from THEN 0 ELSE Positional(s, from, to, b),
                           end |-> IF to < from THEN 1 ELSE to + 1]
<1> DEFINE n == CHOOSE m \in 0 .. Len(s) : /\ \A j \in 1 .. m : isspace(s[j])
                                           /\ m = Len(s) \/ ~isspace(s[m + 1])
           sign == IF Char(s, n + 1) \in {43, 45} THEN 1 ELSE 0
           neg == Char(s, n + 1) = 45
           k == n + sign + 1
           zerox == base \in {0, 16} /\ Char(s, k) = 48 /\ Char(s, k + 1) \in {88, 120}
           b == IF base # 0 THEN base
                ELSE IF zerox THEN 16 ELSE IF Char(s, k) = 48 THEN 8 ELSE 10
           from == IF zerox THEN k + 2 ELSE k
           to == IF from > Len(s) THEN from - 1 ELSE RunEnd(s, from, b)
           said == (sign = 1 /\ s[n + 1] = 45)
<1>0. Taken(s, base) =
          [neg |-> said,
           value |-> IF to < from THEN 0 ELSE Positional(s, from, to, b),
           end |-> IF to < from THEN 1 ELSE to + 1]
  BY Zenon DEF Taken
<1>1. n \in 0 .. Len(s) /\ SkipSpace(s) = n + 1
  BY SpacesEnd
<1> HIDE DEF n
<1>2. n \in Nat /\ Len(s) \in Nat /\ n <= Len(s)
  BY <1>1, LenProperties
<1>3. /\ Char(s, n + 1) # 0 => n + 1 \in 1 .. Len(s) /\ Char(s, n + 1) = s[n + 1]
      /\ Char(s, k + 1) # 0 => k + 1 \in 1 .. Len(s)
  <2>1. n + 1 \in Int /\ k + 1 \in Int
    BY <1>2
  <2> HIDE DEF k
  <2> QED
    BY <2>1, CharIs
<1>4. k \in 1 .. Len(s) + 1
  <2>1. sign = 1 => Char(s, n + 1) # 0
    OBVIOUS
  <2>2. sign \in {0, 1}
    OBVIOUS
  <2> HIDE DEF sign
  <2>3. CASE sign = 1
    <3>1. n + 1 <= Len(s)
      BY <1>2, <1>3, <2>1, <2>3
    <3> QED
      BY <1>2, <2>3, <3>1
  <2>4. CASE sign = 0
    BY <1>2, <2>4
  <2> QED
    BY <2>2, <2>3, <2>4
<1>5. from \in 1 .. Len(s) + 1
  <2>1. zerox => Char(s, k + 1) # 0
    OBVIOUS
  <2> HIDE DEF zerox, k
  <2>2. CASE zerox
    <3>1. k + 1 <= Len(s)
      BY <1>2, <1>3, <1>4, <2>1, <2>2
    <3> QED
      BY <1>2, <1>4, <2>2, <3>1
  <2>3. CASE ~zerox
    BY <1>4, <2>3
  <2> QED
    BY <2>2, <2>3
<1>6. b \in 1 .. 36
  <2> HIDE DEF zerox, k
  <2> QED
    OBVIOUS
<1>7. (sign = 1 /\ s[n + 1] = 45) <=> neg
  BY <1>3
<1>8. Start(s, base) = [at |-> from, neg |-> neg, base |-> b]
  <2> DEFINE first == SkipSpace(s)
             minus == Char(s, first) = 45
             j == IF minus \/ Char(s, first) = 43 THEN first + 1 ELSE first
             hex == /\ base \in {0, 16}
                    /\ Char(s, j) = 48 /\ Char(s, j + 1) \in {120, 88}
  <2>1. Start(s, base) = [at |-> IF hex THEN j + 2 ELSE j, neg |-> minus,
                          base |-> IF hex THEN 16
                                   ELSE IF base # 0 THEN base
                                   ELSE IF Char(s, j) = 48 THEN 8 ELSE 10]
    BY Zenon DEF Start
  <2> HIDE DEF first
  <2>0. first = n + 1
    BY <1>1 DEF first
  <2>2. j = k /\ minus = neg
    BY <1>2, <2>0
  <2> HIDE DEF j, k, minus, neg
  <2>3. hex <=> zerox
    BY <2>2
  <2>4. (IF hex THEN 16 ELSE IF base # 0 THEN base
         ELSE IF Char(s, j) = 48 THEN 8 ELSE 10) = b
    BY <2>2
  <2>5. (IF hex THEN j + 2 ELSE j) = from
    BY <2>2, <2>3
  <2> HIDE DEF hex, zerox, b, from
  <2> QED
    BY <2>1, <2>2, <2>4, <2>5
<1>9. Taken(s, base) =
          [neg |-> neg,
           value |-> IF to < from THEN 0 ELSE Positional(s, from, to, b),
           end |-> IF to < from THEN 1 ELSE to + 1]
  <2>1. said = neg
    BY <1>7
  <2> HIDE DEF said, neg, to, from, b
  <2> QED
    BY <1>0, <2>1
<1>10. neg \in BOOLEAN
  OBVIOUS
<1> HIDE DEF neg, from, b
<1> QED
  BY <1>5, <1>6, <1>8, <1>9, <1>10

\* kernel_strtoul() computes the number as it takes it.
LEMMA StrtoulIs ==
    ASSUME NEW s \in Seq(1 .. 255), NEW base \in 0 .. 36
    PROVE  kernel_strtoul(s, base) = Limited(Taken(s, base))
<1>1. PICK neg \in BOOLEAN, from \in 1 .. Len(s) + 1, b \in 1 .. 36 :
          /\ Start(s, base) = [at |-> from, neg |-> neg, base |-> b]
          /\ Taken(s, base) =
                 LET to == IF from > Len(s) THEN from - 1 ELSE RunEnd(s, from, b)
                 IN  [neg |-> neg,
                      value |-> IF to < from THEN 0 ELSE Positional(s, from, to, b),
                      end |-> IF to < from THEN 1 ELSE to + 1]
  BY StartIs
<1>2. Len(s) \in Nat /\ from \in Nat \ {0} /\ b \in Nat \ {0} /\ ULONG_MAX \in Nat
  BY LenProperties, StrtoulAssumption
<1>3. PICK e : DigitsEnd(s, from, b, e) /\ (from <= Len(s) => RunEnd(s, from, b) = e - 1)
  BY RunIs
<1>4. e \in from .. Len(s) + 1
  BY <1>3 DEF DigitsEnd
<1> DEFINE n == e - from
<1>5. n \in Nat /\ from + n = e /\ from + n - 1 <= Len(s)
  BY <1>2, <1>4
<1> HIDE DEF n
<1>6. PICK h \in PrefixValues(s, from, b, n) : TRUE
  BY <1>2, <1>5, ValuesExist
<1> DEFINE r == Accumulate(s, from, b)
           v == h[n]
<1>7. After(r, from, n, v) /\ v \in Nat
  <2>1. DigitsEnd(s, from, b, from + n)
    BY <1>3, <1>5
  <2> QED
    BY <1>5, <2>1, AccumulateIs
<1>8. h[0] = 0
  BY DEF PrefixValues
<1> DEFINE to == IF from > Len(s) THEN from - 1 ELSE RunEnd(s, from, b)
<1>9. to = from + n - 1
  <2>1. CASE from > Len(s)
    BY <1>2, <1>4, <1>5, <2>1
  <2>2. CASE ~(from > Len(s))
    BY <1>2, <1>3, <1>5, <2>2
  <2> QED
    BY <2>1, <2>2
<1>10. Positional(s, from, from + n - 1, b) = v
  BY <1>2, <1>5, PositionalIs
<1>11. (to < from <=> n = 0) /\ (n = 0 => v = 0) /\ to + 1 = from + n
  BY <1>2, <1>5, <1>8, <1>9
<1> HIDE DEF to, r, v
<1>12. Taken(s, base).value = v /\ Taken(s, base).neg = neg
       /\ Taken(s, base).end = IF n = 0 THEN 1 ELSE from + n
  <2>1. Taken(s, base) =
            [neg |-> neg,
             value |-> IF to < from THEN 0 ELSE Positional(s, from, to, b),
             end |-> IF to < from THEN 1 ELSE to + 1]
    BY <1>1 DEF to
  <2>2. Positional(s, from, to, b) = v
    BY <1>9, <1>10
  <2> QED
    BY <1>11, <2>1, <2>2
<1>13. Limited(Taken(s, base)) =
           [value |-> IF v > ULONG_MAX THEN ULONG_MAX
                      ELSE IF neg THEN (-v) % (ULONG_MAX + 1) ELSE v,
            end |-> IF n = 0 THEN 1 ELSE from + n]
  BY <1>12 DEF Limited
<1>14. kernel_strtoul(s, base) =
           [value |-> IF r.any < 0 THEN ULONG_MAX
                      ELSE IF neg THEN (-r.acc) % (ULONG_MAX + 1) ELSE r.acc,
            end |-> IF r.any = 0 THEN 1 ELSE r.at]
  <2>1. Start(s, base).at = from /\ Start(s, base).neg = neg /\ Start(s, base).base = b
    BY <1>1
  <2> QED
    BY <2>1, Zenon DEF kernel_strtoul, r
<1>15. CASE v > ULONG_MAX
  <2>1. r.any = -1 /\ r.at = from + n
    BY <1>7, <1>15 DEF After
  <2>2. n # 0
    BY <1>2, <1>11, <1>15
  <2> QED
    BY <1>13, <1>14, <1>15, <2>1, <2>2
<1>16. CASE ~(v > ULONG_MAX)
  <2>1. r.acc = v /\ r.at = from + n /\ r.any = IF n = 0 THEN 0 ELSE 1
    BY <1>7, <1>16 DEF After
  <2>2. ~(r.any < 0) /\ (r.any = 0 <=> n = 0)
    BY <2>1
  <2>3. kernel_strtoul(s, base) =
            [value |-> IF neg THEN (-v) % (ULONG_MAX + 1) ELSE v,
             end |-> IF n = 0 THEN 1 ELSE from + n]
    BY <1>14, <2>1, <2>2
  <2>4. Limited(Taken(s, base)) =
            [value |-> IF neg THEN (-v) % (ULONG_MAX + 1) ELSE v,
             end |-> IF n = 0 THEN 1 ELSE from + n]
    BY <1>13, <1>16
  <2> QED
    BY <2>3, <2>4
<1> QED
  BY <1>15, <1>16

\* A run of digits that ends where it begins, or behind one digit.
LEMMA NoRun ==
    ASSUME NEW s \in Seq(1 .. 255), NEW k \in 1 .. Len(s), NEW b \in 1 .. 36,
           ~(DigitAt(s, k) < b)
    PROVE  RunEnd(s, k, b) = k - 1
<1>1. Len(s) \in Nat /\ k \in 1 .. Len(s) + 1
  BY LenProperties
<1>2. PICK e : DigitsEnd(s, k, b, e) /\ (k <= Len(s) => RunEnd(s, k, b) = e - 1)
  BY <1>1, RunIs
<1>3. e \in k .. Len(s) + 1 /\ (k \in k .. e - 1 => DigitAt(s, k) < b)
  BY <1>2 DEF DigitsEnd
<1>4. e = k
  BY <1>1, <1>3
<1> QED
  BY <1>1, <1>2, <1>4

LEMMA RunOfOne ==
    ASSUME NEW s \in Seq(1 .. 255), NEW k \in 1 .. Len(s), NEW b \in 1 .. 36,
           DigitAt(s, k) = 0, ~(DigitAt(s, k + 1) < b)
    PROVE  RunEnd(s, k, b) = k /\ Positional(s, k, k, b) = 0
<1>1. Len(s) \in Nat /\ k \in 1 .. Len(s) + 1 /\ k \in Nat \ {0} /\ b \in Nat \ {0}
  BY LenProperties
<1>2. PICK e : DigitsEnd(s, k, b, e) /\ (k <= Len(s) => RunEnd(s, k, b) = e - 1)
  BY <1>1, RunIs
<1>3. /\ e \in k .. Len(s) + 1 /\ DigitAt(s, e) >= b
      /\ (k + 1 \in k .. e - 1 => DigitAt(s, k + 1) < b)
  BY <1>2 DEF DigitsEnd
<1>4. e # k
  BY <1>1, <1>3
<1>5. e = k + 1
  BY <1>1, <1>3, <1>4
<1>6. PICK h \in PrefixValues(s, k, b, 1) : TRUE
  BY <1>1, ValuesExist
<1>7. Positional(s, k, k + 1 - 1, b) = h[1]
  BY <1>1, PositionalIs
<1>8. h[1] = 0
  <2>1. h[0] = 0 /\ h[1] = h[1 - 1] * b + DigitAt(s, k + 1 - 1)
    BY DEF PrefixValues
  <2>2. 1 - 1 = 0 /\ k + 1 - 1 = k /\ 0 * b + 0 = 0
    BY <1>1
  <2> QED
    BY <2>1, <2>2
<1>9. k + 1 - 1 = k
  BY <1>1
<1> QED
  BY <1>1, <1>2, <1>5, <1>7, <1>8, <1>9

\* The number as the code takes it is that of the definition, but that of a bare
\* 0x it has the value only.
LEMMA TakenIs ==
    ASSUME NEW s \in Seq(1 .. 255), NEW base \in 0 .. 36
    PROVE  /\ Taken(s, base).value = Number(s, base).value
           /\ Taken(s, base).neg = Number(s, base).neg
           /\ ~BarePrefix(s, base) => Taken(s, base).end = Number(s, base).end
<1> DEFINE n == CHOOSE m \in 0 .. Len(s) : /\ \A j \in 1 .. m : isspace(s[j])
                                           /\ m = Len(s) \/ ~isspace(s[m + 1])
           sign == IF Char(s, n + 1) \in {43, 45} THEN 1 ELSE 0
           k == n + sign + 1
           zerox == base \in {0, 16} /\ Char(s, k) = 48 /\ Char(s, k + 1) \in {88, 120}
           prefixed == zerox /\ DigitValue(Char(s, k + 2)) < 16
           said == (sign = 1 /\ s[n + 1] = 45)
           b1 == IF base # 0 THEN base
                 ELSE IF zerox THEN 16 ELSE IF Char(s, k) = 48 THEN 8 ELSE 10
           from1 == IF zerox THEN k + 2 ELSE k
           to1 == IF from1 > Len(s) THEN from1 - 1 ELSE RunEnd(s, from1, b1)
           b2 == IF base # 0 THEN base
                 ELSE IF prefixed THEN 16 ELSE IF Char(s, k) = 48 THEN 8 ELSE 10
           from2 == IF prefixed THEN k + 2 ELSE k
           to2 == IF from2 > Len(s) THEN from2 - 1 ELSE RunEnd(s, from2, b2)
<1>1. Taken(s, base) =
          [neg |-> said,
           value |-> IF to1 < from1 THEN 0 ELSE Positional(s, from1, to1, b1),
           end |-> IF to1 < from1 THEN 1 ELSE to1 + 1]
  BY Zenon DEF Taken
<1>2. Number(s, base) =
          [neg |-> said, bare |-> zerox /\ ~prefixed,
           value |-> IF to2 < from2 THEN 0 ELSE Positional(s, from2, to2, b2),
           end |-> IF to2 < from2 THEN 1 ELSE to2 + 1]
  BY Zenon DEF Number
<1>3. n \in 0 .. Len(s)
  BY SpacesEnd
<1> HIDE DEF n
<1>4. k \in Nat \ {0} /\ Len(s) \in Nat
  BY <1>3, LenProperties
<1> HIDE DEF k, said
<1>5. BarePrefix(s, base) <=> zerox /\ ~prefixed
  <2> DEFINE bare == zerox /\ ~prefixed
  <2>1. bare \in BOOLEAN
    OBVIOUS
  <2> DEFINE v == IF to2 < from2 THEN 0 ELSE Positional(s, from2, to2, b2)
             e == IF to2 < from2 THEN 1 ELSE to2 + 1
  <2>2. Number(s, base) = [neg |-> said, bare |-> bare, value |-> v, end |-> e]
    BY <1>2
  <2> HIDE DEF bare, v, e
  <2>3. Number(s, base).bare = bare
    BY <2>2
  <2> QED
    BY <2>1, <2>3, Zenon DEF BarePrefix, bare
<1>6. CASE ~(zerox /\ ~prefixed)
  <2>1. zerox <=> prefixed
    BY <1>6
  <2> HIDE DEF zerox, prefixed
  <2>2. b1 = b2 /\ from1 = from2
    BY <2>1
  <2> HIDE DEF b1, b2, from1, from2
  <2>3. to1 = to2
    BY <2>2
  <2> HIDE DEF to1, to2
  <2> QED
    BY <1>1, <1>2, <2>2, <2>3
<1>7. CASE zerox /\ ~prefixed
  <2>1. /\ Char(s, k) = 48 /\ Char(s, k + 1) \in {88, 120}
        /\ ~(DigitValue(Char(s, k + 2)) < 16) /\ base \in {0, 16}
    BY <1>7
  <2>2. k \in 1 .. Len(s) /\ k + 1 \in 1 .. Len(s)
    BY <1>4, <2>1, CharIs
  <2>3. b1 = 16 /\ from1 = k + 2 /\ from2 = k /\ b2 \in {8, 16}
    BY <1>7, <2>1
  <2>4. to1 < from1
    <3>1. CASE k + 2 > Len(s)
      <4>1. to1 = from1 - 1
        BY <2>3, <3>1
      <4> HIDE DEF from1, to1
      <4> QED
        BY <1>4, <2>3, <4>1
    <3>2. CASE ~(k + 2 > Len(s))
      <4>1. k + 2 \in 1 .. Len(s)
        BY <1>4, <3>2
      <4>2. ~(DigitAt(s, k + 2) < 16)
        BY <2>1 DEF DigitAt
      <4> DEFINE f == k + 2
      <4>3. f \in 1 .. Len(s) /\ ~(DigitAt(s, f) < 16)
        BY <4>1, <4>2
      <4> HIDE DEF f
      <4>4. RunEnd(s, f, 16) = f - 1
        BY <4>3, NoRun
      <4>5. to1 = f - 1 /\ from1 = f
        <5> HIDE DEF from1, b1
        <5> QED
          BY <2>3, <3>2, <4>4 DEF f
      <4> HIDE DEF to1, from1
      <4> QED
        BY <4>3, <4>5
    <3> QED
      BY <3>1, <3>2
  <2>5. DigitAt(s, k) = 0 /\ DigitAt(s, k + 1) = 33
    <3>1. DigitValue(48) = 0 /\ DigitValue(88) = 33 /\ DigitValue(120) = 33
      BY DEF DigitValue, isascii, isdigit, isalpha, isupper
    <3> QED
      BY <2>1, <3>1 DEF DigitAt
  <2>6. RunEnd(s, k, b2) = k /\ Positional(s, k, k, b2) = 0
    <3> HIDE DEF b2
    <3>1. b2 \in 1 .. 36 /\ ~(DigitAt(s, k + 1) < b2)
      BY <2>3, <2>5
    <3> QED
      BY <2>2, <2>5, <3>1, RunOfOne
  <2>7. ~(from2 > Len(s))
    BY <1>4, <2>2, <2>3
  <2> HIDE DEF from1, to1, b1, from2, b2
  <2>8. to2 = k
    BY <2>3, <2>6, <2>7
  <2> HIDE DEF to2, zerox, prefixed
  <2>9. Taken(s, base).value = 0 /\ Taken(s, base).neg = said
    BY <1>1, <2>4
  <2>10. Number(s, base).value = 0 /\ Number(s, base).neg = said
    BY <1>2, <2>3, <2>6, <2>8
  <2> QED
    BY <1>5, <1>7, <2>9, <2>10
<1> QED
  BY <1>6, <1>7

\* kernel_strtoul() finds the value of C's strtoul() in every base and for every
\* string, and the end of the number too, but for a bare 0x.
THEOREM NumbersExact == Spec => []StrtoulExact
<1>1. Answered => StrtoulExact
  <2> SUFFICES ASSUME Answered, call.fn = "strtoul"
               PROVE  /\ call.result.value = Reference(call.s, call.base).value
                      /\ \/ BarePrefix(call.s, call.base)
                         \/ call.result.end = Reference(call.s, call.base).end
    BY Zenon DEF StrtoulExact
  <2>1. /\ call.s \in Numerals /\ call.base \in Bases
        /\ call.result = kernel_strtoul(call.s, call.base)
    BY DEF Answered
  <2>2. call.s \in Seq(1 .. 255) /\ call.base \in 0 .. 36
    BY <2>1, LibraryAssumption
  <2>3. kernel_strtoul(call.s, call.base) = Limited(Taken(call.s, call.base))
    BY <2>2, StrtoulIs
  <2> DEFINE t == Taken(call.s, call.base)
             n == Number(call.s, call.base)
  <2>4. t.value = n.value /\ t.neg = n.neg /\ (~BarePrefix(call.s, call.base) => t.end = n.end)
    BY <2>2, TakenIs
  <2>5. Limited(t) = [value |-> IF t.value > ULONG_MAX THEN ULONG_MAX
                                ELSE IF t.neg THEN (-t.value) % (ULONG_MAX + 1) ELSE t.value,
                      end |-> t.end]
    BY Zenon DEF Limited
  <2>6. Reference(call.s, call.base) =
            [value |-> IF n.value > ULONG_MAX THEN ULONG_MAX
                       ELSE IF n.neg THEN (-n.value) % (ULONG_MAX + 1) ELSE n.value,
             end |-> n.end]
    BY Zenon DEF Reference
  <2> DEFINE v == IF n.value > ULONG_MAX THEN ULONG_MAX
                  ELSE IF n.neg THEN (-n.value) % (ULONG_MAX + 1) ELSE n.value
  <2>7. Limited(t) = [value |-> v, end |-> t.end]
    <3> HIDE DEF t, n
    <3> QED
      BY <2>4, <2>5
  <2>8. Reference(call.s, call.base) = [value |-> v, end |-> n.end]
    BY <2>6
  <2>9. call.result = Limited(t)
    BY <2>1, <2>3
  <2> HIDE DEF t, n, v
  <2>10. call.result.value = v /\ call.result.end = t.end
    BY <2>7, <2>9
  <2>11. Reference(call.s, call.base).value = v /\ Reference(call.s, call.base).end = n.end
    BY <2>8
  <2> QED
    BY <2>4, <2>10, <2>11
<1> QED
  BY <1>1, AnswersKept, PTL

-----------------------------------------------------------------------------
\* The environment: the strings of the BDOS, one behind the other.  How many are
\* put there, and how long they are:
Puts == Len(BootStrings)
Size(j) == Len(BootStrings[j])

LEMMA BootFacts ==
    /\ Puts \in Nat
    /\ \A j \in 1 .. Puts :
           /\ BootStrings[j] \in Seq(STRING \ {NUL})
           /\ Size(j) \in Nat /\ 2 <= Size(j)
           /\ \A m \in 1 .. Size(j) : BootStrings[j][m] # NUL
           /\ BootStrings[j][1] # "="
           /\ \E m \in 1 .. Size(j) : BootStrings[j][m] = "="
<1> DEFINE S == STRING \ {NUL}
<1>1. BootStrings \in Seq(Seq(S))
  BY LibraryAssumption
<1>2. NUL \notin S
  OBVIOUS
<1> HIDE DEF S
<1>3. Puts \in Nat
  BY <1>1, LenProperties DEF Puts
<1>4. ASSUME NEW j \in 1 .. Puts
      PROVE  /\ BootStrings[j] \in Seq(S)
             /\ Size(j) \in Nat /\ 2 <= Size(j)
             /\ \A m \in 1 .. Size(j) : BootStrings[j][m] # NUL
             /\ BootStrings[j][1] # "="
             /\ \E m \in 1 .. Size(j) : BootStrings[j][m] = "="
  <2>1. BootStrings[j] \in Seq(S)
    BY <1>1, ElementOfSeq DEF Puts
  <2> DEFINE s == BootStrings[j]
  <2> HIDE DEF s
  <2>2. s \in Seq(S)
    BY <2>1 DEF s
  <2>3. Len(s) \in Nat
    BY <2>2, LenProperties
  <2>4. \A m \in 1 .. Len(s) : s[m] # NUL
    BY <1>2, <2>2, ElementOfSeq
  <2>5. s[1] # "=" /\ \E m \in 2 .. Len(s) : s[m] = "="
    BY LibraryAssumption DEF Puts, s
  <2> DEFINE length == Len(s)
  <2> HIDE DEF length
  <2>6. PICK m \in 2 .. length : s[m] = "="
    BY <2>5 DEF length
  <2>7. length \in Nat
    BY <2>3 DEF length
  <2>8. 2 <= length /\ m \in 1 .. length
    BY <2>6, <2>7
  <2> QED
    BY <2>2, <2>4, <2>5, <2>6, <2>7, <2>8 DEF length, s, Size
<1> QED
  BY <1>3, <1>4 DEF S

\* Where they begin.
LEMMA StartsAre ==
    /\ Starts[1] = 0
    /\ \A j \in 1 .. Puts : Starts[j + 1] = Starts[j] + Size(j) + 1
<1> DEFINE Loop(f) == f = [k \in 1 .. Puts + 1 |-> IF k = 1 THEN 0 ELSE f[k - 1] + Size(k - 1) + 1]
           step == [k \in Nat |-> [n \in Nat |-> IF k \in 1 .. Puts THEN n + Size(k) + 1 ELSE n]]
<1>1. \A k \in Nat : step[k] \in [Nat -> Nat]
  <2> SUFFICES ASSUME NEW k \in Nat, NEW n \in Nat
               PROVE  (IF k \in 1 .. Puts THEN n + Size(k) + 1 ELSE n) \in Nat
    BY Zenon
  <2> QED
    BY BootFacts
<1>2. \A k \in Nat : \A n \in Nat :
          step[k][n] = IF k \in 1 .. Puts THEN n + Size(k) + 1 ELSE n
  BY Zenon
<1> HIDE DEF step
<1>3. PICK g \in [0 .. Puts -> Nat] : g[0] = 0 /\ \A k \in 1 .. Puts : g[k] = step[k][g[k - 1]]
  <2>1. Histories(Nat, 0, step, Puts) # {}
    BY <1>1, BootFacts, Iterates
  <2> QED
    BY <2>1 DEF Histories
<1> DEFINE h == [k \in 1 .. Puts + 1 |-> g[k - 1]]
<1>4. Loop(h)
  <2> SUFFICES ASSUME NEW k \in 1 .. Puts + 1
               PROVE  g[k - 1] = IF k = 1 THEN 0 ELSE h[k - 1] + Size(k - 1) + 1
    BY Zenon
  <2>1. CASE k = 1
    BY <1>3, <2>1
  <2>2. CASE k # 1
    <3> DEFINE m == k - 1
    <3>1. m \in 1 .. Puts /\ m \in Nat /\ m - 1 \in 0 .. Puts /\ k - 1 \in 1 .. Puts + 1
      BY <2>2, BootFacts
    <3>2. h[k - 1] = g[m - 1]
      BY <3>1
    <3> HIDE DEF m, h
    <3>3. g[m] = step[m][g[m - 1]] /\ g[m - 1] \in Nat
      BY <1>3, <3>1
    <3>4. g[m] = g[m - 1] + Size(m) + 1
      BY <1>2, <3>1, <3>3
    <3> QED
      BY <2>2, <3>2, <3>4 DEF m
  <2> QED
    BY <2>1, <2>2
<1>5. Starts = CHOOSE f : Loop(f)
  BY Zenon DEF Starts, Puts, Size
<1>6. Loop(Starts)
  <2> HIDE DEF Loop
  <2> QED
    BY <1>4, <1>5
<1>7. \A k \in 1 .. Puts + 1 : Starts[k] = IF k = 1 THEN 0 ELSE Starts[k - 1] + Size(k - 1) + 1
  BY <1>6, Zenon
<1>8. Starts[1] = 0
  BY <1>7, BootFacts
<1>9. ASSUME NEW j \in 1 .. Puts PROVE Starts[j + 1] = Starts[j] + Size(j) + 1
  <2>1. j + 1 \in 1 .. Puts + 1 /\ j + 1 # 1 /\ (j + 1) - 1 = j
    BY BootFacts
  <2>2. Starts[j + 1] = Starts[(j + 1) - 1] + Size((j + 1) - 1) + 1
    BY <1>7, <2>1
  <2> QED
    BY <2>1, <2>2
<1> QED
  BY <1>8, <1>9

\* No two share a place, and they leave room.
LEMMA StartsGrow ==
    /\ \A j \in 1 .. Puts + 1 : Starts[j] \in Nat
    /\ \A k, j \in 1 .. Puts + 1 : k < j => Starts[k] + Size(k) + 1 <= Starts[j]
    /\ \A j \in 1 .. Puts + 1 : Starts[j] <= Starts[Puts + 1]
    /\ Starts[Puts + 1] < MAX_ENVIRON - 1
<1>1. Puts \in Nat /\ \A j \in 1 .. Puts : Size(j) \in Nat
  BY BootFacts
<1>2. \A j \in Nat : j <= Puts => Starts[j + 1] \in Nat
  <2> DEFINE T == {j \in Nat : j <= Puts => Starts[j + 1] \in Nat}
  <2>1. 0 \in T
    BY StartsAre
  <2>2. ASSUME NEW j \in Nat, j \in T PROVE j + 1 \in T
    <3> SUFFICES ASSUME j + 1 <= Puts PROVE Starts[(j + 1) + 1] \in Nat
      OBVIOUS
    <3>1. j + 1 \in 1 .. Puts /\ j <= Puts
      BY <1>1
    <3>2. Starts[j + 1] \in Nat /\ Size(j + 1) \in Nat
      BY <1>1, <2>2, <3>1
    <3>3. Starts[(j + 1) + 1] = Starts[j + 1] + Size(j + 1) + 1
      BY <3>1, StartsAre
    <3> QED
      BY <3>2, <3>3
  <2> HIDE DEF T
  <2>3. \A j \in Nat : j \in T
    BY <2>1, <2>2, Induct
  <2> QED
    BY <2>3 DEF T
<1>3. \A j \in 1 .. Puts + 1 : Starts[j] \in Nat
  <2> SUFFICES ASSUME NEW j \in 1 .. Puts + 1 PROVE Starts[j] \in Nat
    OBVIOUS
  <2>1. j - 1 \in Nat /\ j - 1 <= Puts /\ (j - 1) + 1 = j
    BY <1>1
  <2> QED
    BY <1>2, <2>1
<1>4. ASSUME NEW k \in 1 .. Puts
      PROVE  \A d \in Nat : k + 1 + d <= Puts + 1 => Starts[k + 1] <= Starts[k + 1 + d]
  <2> DEFINE T == {d \in Nat : k + 1 + d <= Puts + 1 => Starts[k + 1] <= Starts[k + 1 + d]}
  <2>1. 0 \in T
    <3>1. k + 1 + 0 = k + 1 /\ k + 1 \in 1 .. Puts + 1
      BY <1>1
    <3>2. Starts[k + 1] \in Nat
      BY <1>3, <3>1
    <3> QED
      BY <3>1, <3>2
  <2>2. ASSUME NEW d \in Nat, d \in T PROVE d + 1 \in T
    <3> DEFINE j == k + 1 + d
    <3> SUFFICES ASSUME k + 1 + (d + 1) <= Puts + 1
                 PROVE  Starts[k + 1] <= Starts[k + 1 + (d + 1)]
      OBVIOUS
    <3>1. j \in 1 .. Puts /\ j \in 1 .. Puts + 1 /\ k + 1 + (d + 1) = j + 1
          /\ k + 1 \in 1 .. Puts + 1 /\ k + 1 + d <= Puts + 1
      BY <1>1
    <3>2. Starts[k + 1] <= Starts[j]
      BY <2>2, <3>1
    <3> HIDE DEF j
    <3>3. Starts[j + 1] = Starts[j] + Size(j) + 1 /\ Size(j) \in Nat
          /\ Starts[j] \in Nat /\ Starts[k + 1] \in Nat
      BY <1>1, <1>3, <3>1, StartsAre
    <3>4. Starts[k + 1] <= Starts[j + 1]
      BY <3>2, <3>3
    <3> QED
      BY <3>1, <3>4
  <2> HIDE DEF T
  <2>3. \A d \in Nat : d \in T
    BY <2>1, <2>2, Induct
  <2> QED
    BY <2>3 DEF T
<1>5. ASSUME NEW k \in 1 .. Puts + 1, NEW j \in 1 .. Puts + 1, k < j
      PROVE  Starts[k] + Size(k) + 1 <= Starts[j]
  <2> DEFINE d == j - (k + 1)
  <2>1. k \in 1 .. Puts /\ d \in Nat /\ k + 1 + d <= Puts + 1 /\ k + 1 + d = j
    BY <1>1, <1>5
  <2>2. Starts[k + 1] <= Starts[k + 1 + d]
    BY <1>4, <2>1
  <2> HIDE DEF d
  <2>3. Starts[k + 1] = Starts[k] + Size(k) + 1
    BY <2>1, StartsAre
  <2> QED
    BY <2>1, <2>2, <2>3
<1>6. ASSUME NEW j \in 1 .. Puts + 1 PROVE Starts[j] <= Starts[Puts + 1]
  <2>1. Puts + 1 \in 1 .. Puts + 1
    BY <1>1
  <2>2. Starts[j] \in Nat /\ Starts[Puts + 1] \in Nat
    BY <1>3, <2>1
  <2>3. CASE j = Puts + 1
    BY <2>2, <2>3
  <2>4. CASE j # Puts + 1
    <3>1. j < Puts + 1 /\ j \in 1 .. Puts
      BY <1>1, <2>4
    <3>2. Starts[j] + Size(j) + 1 <= Starts[Puts + 1] /\ Size(j) \in Nat
      BY <1>1, <1>5, <2>1, <3>1
    <3> QED
      BY <2>2, <3>2
  <2> QED
    BY <2>3, <2>4
<1>7. Starts[Puts + 1] < MAX_ENVIRON - 1
  BY LibraryAssumption DEF Puts
<1> QED
  BY <1>3, <1>5, <1>6, <1>7

\* The block with the first n of the strings.
Laid(n) ==
    /\ DOMAIN environment = 0 .. MAX_ENVIRON - 1
    /\ off_ins = Starts[n + 1]
    /\ \A j \in 1 .. n : \A m \in 1 .. Size(j) :
           environment[Starts[j] + m - 1] = BootStrings[j][m]
    /\ \A j \in 1 .. n : environment[Starts[j] + Size(j)] = NUL
    /\ \A k \in Starts[n + 1] .. MAX_ENVIRON - 1 : environment[k] = NUL

LEMMA LaidFirst == EInit => Laid(0)
<1> SUFFICES ASSUME EInit PROVE Laid(0)
  OBVIOUS
<1>1. Starts[0 + 1] = 0
  BY StartsAre
<1>2. \A j \in 1 .. 0 : FALSE
  OBVIOUS
<1> QED
  BY <1>1, <1>2 DEF EInit, Laid

\* kputenv() puts one string behind the others.
LEMMA LaidNext ==
    ASSUME NEW n \in 0 .. Puts - 1, Laid(n), kputenv(BootStrings[n + 1])
    PROVE  Laid(n + 1)'
<1> DEFINE s == BootStrings[n + 1]
           length == Size(n + 1)
           begin == Starts[n + 1]
<1>1. /\ Puts \in Nat /\ n + 1 \in 1 .. Puts /\ length \in Nat /\ length = Len(s)
      /\ \A j \in 1 .. Puts : Size(j) \in Nat
  BY BootFacts DEF Size
<1>2. /\ begin \in Nat /\ begin + length + 1 = Starts[(n + 1) + 1]
      /\ begin + length + 1 < MAX_ENVIRON - 1 /\ MAX_ENVIRON \in Nat
  <2>1. n + 1 \in 1 .. Puts + 1 /\ (n + 1) + 1 \in 1 .. Puts + 1 /\ Puts + 1 \in 1 .. Puts + 1
    BY <1>1
  <2>2. begin \in Nat /\ begin + length + 1 = Starts[(n + 1) + 1]
    BY <1>1, <2>1, StartsAre, StartsGrow
  <2>3. Starts[(n + 1) + 1] <= Starts[Puts + 1] /\ Starts[Puts + 1] < MAX_ENVIRON - 1
        /\ Starts[(n + 1) + 1] \in Nat /\ Starts[Puts + 1] \in Nat
    BY <2>1, StartsGrow
  <2>4. begin + length + 1 < MAX_ENVIRON - 1
    <3> HIDE DEF begin, length
    <3> QED
      BY <2>2, <2>3, EnvironAssumption
  <2> QED
    BY <2>2, <2>4, EnvironAssumption
<1>3. /\ off_ins = begin /\ DOMAIN environment = 0 .. MAX_ENVIRON - 1
      /\ \A k \in begin .. MAX_ENVIRON - 1 : environment[k] = NUL
      /\ \A j \in 1 .. n : \A m \in 1 .. Size(j) :
             environment[Starts[j] + m - 1] = BootStrings[j][m]
      /\ \A j \in 1 .. n : environment[Starts[j] + Size(j)] = NUL
  BY DEF Laid
<1>4. ASSUME NEW j \in 1 .. n
      PROVE  /\ Starts[j] \in Nat /\ Size(j) \in Nat
             /\ Starts[j] + Size(j) + 1 <= begin
  <2>1. j \in 1 .. Puts + 1 /\ n + 1 \in 1 .. Puts + 1 /\ j < n + 1 /\ j \in 1 .. Puts
    BY <1>1
  <2> QED
    BY <1>1, <2>1, StartsGrow
<1> HIDE DEF s, length, begin
<1>5. ~NoRoom(s)
  <2>1. NoRoom(s) => length > MAX_ENVIRON - begin - 1
    BY <1>1, <1>3 DEF NoRoom
  <2> QED
    BY <1>1, <1>2, <2>1
<1>6. environment' = Copied(s) /\ off_ins' = off_ins + Len(s) + 1
  BY <1>5 DEF kputenv, s
<1>7. /\ DOMAIN environment' = 0 .. MAX_ENVIRON - 1
      /\ \A k \in 0 .. MAX_ENVIRON - 1 :
             environment'[k] = IF k - begin \in 0 .. length - 1 THEN s[k - begin + 1]
                               ELSE environment[k]
  BY <1>1, <1>3, <1>6 DEF Copied
<1>8. off_ins' = Starts[(n + 1) + 1]
  BY <1>1, <1>2, <1>3, <1>6
<1>9. ASSUME NEW k \in begin + length + 1 .. MAX_ENVIRON - 1 PROVE environment'[k] = NUL
  <2>1. k \in 0 .. MAX_ENVIRON - 1 /\ k \in begin .. MAX_ENVIRON - 1
        /\ ~(k - begin \in 0 .. length - 1)
    BY <1>1, <1>2
  <2> QED
    BY <1>3, <1>7, <2>1
<1>10. environment'[begin + length] = NUL
  <2> DEFINE k == begin + length
  <2>1. k \in 0 .. MAX_ENVIRON - 1 /\ k \in begin .. MAX_ENVIRON - 1
        /\ ~(k - begin \in 0 .. length - 1)
    BY <1>1, <1>2
  <2> HIDE DEF k
  <2>2. environment'[k] = NUL
    BY <1>3, <1>7, <2>1
  <2> QED
    BY <2>2 DEF k
<1>11. ASSUME NEW m \in 1 .. length PROVE environment'[begin + m - 1] = s[m]
  <2> DEFINE k == begin + m - 1
  <2>1. k \in 0 .. MAX_ENVIRON - 1 /\ k - begin \in 0 .. length - 1 /\ k - begin + 1 = m
    BY <1>1, <1>2
  <2> HIDE DEF k
  <2>2. environment'[k] = s[m]
    BY <1>7, <2>1
  <2> QED
    BY <2>2 DEF k
<1>12. ASSUME NEW j \in 1 .. n, NEW p \in 0 .. Size(j)
       PROVE  environment'[Starts[j] + p] = environment[Starts[j] + p]
  <2> DEFINE from == Starts[j]
             size == Size(j)
             k == from + p
  <2>1. from \in Nat /\ size \in Nat /\ from + size + 1 <= begin /\ p \in 0 .. size
    BY <1>4
  <2> HIDE DEF from, size
  <2>2. k \in 0 .. MAX_ENVIRON - 1 /\ ~(k - begin \in 0 .. length - 1)
    BY <1>1, <1>2, <2>1
  <2> HIDE DEF k
  <2>3. environment'[k] = environment[k]
    BY <1>7, <2>2
  <2> QED
    BY <2>3 DEF k, from
<1>13. ASSUME NEW j \in 1 .. n, NEW m \in 1 .. Size(j)
       PROVE  environment'[Starts[j] + m - 1] = BootStrings[j][m]
  <2>1. m - 1 \in 0 .. Size(j) /\ Starts[j] + (m - 1) = Starts[j] + m - 1
    BY <1>4
  <2>2. environment[Starts[j] + m - 1] = BootStrings[j][m]
    BY <1>3
  <2>3. environment'[Starts[j] + (m - 1)] = environment[Starts[j] + (m - 1)]
    BY <1>12, <2>1
  <2> QED
    BY <2>1, <2>2, <2>3
<1>14. ASSUME NEW j \in 1 .. n PROVE environment'[Starts[j] + Size(j)] = NUL
  <2>1. Size(j) \in 0 .. Size(j)
    BY <1>4
  <2>2. environment[Starts[j] + Size(j)] = NUL
    BY <1>3
  <2>3. environment'[Starts[j] + Size(j)] = environment[Starts[j] + Size(j)]
    BY <1>12, <2>1
  <2> QED
    BY <2>2, <2>3
<1>15. ASSUME NEW j \in 1 .. n + 1
       PROVE  /\ \A m \in 1 .. Size(j) : environment'[Starts[j] + m - 1] = BootStrings[j][m]
              /\ environment'[Starts[j] + Size(j)] = NUL
  <2>1. CASE j = n + 1
    BY <1>10, <1>11, <2>1 DEF begin, length, s
  <2>2. CASE j # n + 1
    <3>1. j \in 1 .. n
      BY <2>2
    <3> QED
      BY <1>13, <1>14, <3>1
  <2> QED
    BY <2>1, <2>2
<1>16. \A k \in Starts[(n + 1) + 1] .. MAX_ENVIRON - 1 : environment'[k] = NUL
  BY <1>2, <1>9
<1> QED
  BY <1>7, <1>8, <1>15, <1>16 DEF Laid

\* Booting, then booted.
Booting ==
    /\ call.fn = "boot" =>
           \E n \in 0 .. Puts :
               /\ Laid(n)
               /\ call.left \in Seq(Seq(STRING \ {NUL})) /\ Len(call.left) = Puts - n
               /\ \A k \in 1 .. Puts - n : call.left[k] = BootStrings[n + k]
    /\ call.fn # "boot" => Laid(Puts)

LEMMA LaidSame == \A n : Laid(n) /\ UNCHANGED block => Laid(n)'
BY DEF Laid, block

LEMMA BootingInit == Init => Booting
<1> SUFFICES ASSUME Init PROVE Booting
  OBVIOUS
<1>1. call = [fn |-> "boot", left |-> BootStrings] /\ Laid(0)
  BY LaidFirst DEF Init
<1>2. call.fn = "boot" /\ call.left = BootStrings
  BY <1>1
<1>3. BootStrings \in Seq(Seq(STRING \ {NUL})) /\ Puts \in Nat
  BY BootFacts, LibraryAssumption
<1>4. /\ 0 \in 0 .. Puts /\ Len(BootStrings) = Puts - 0
      /\ \A k \in 1 .. Puts - 0 : BootStrings[k] = BootStrings[0 + k]
  BY <1>3 DEF Puts
<1> QED
  BY <1>1, <1>2, <1>3, <1>4 DEF Booting

LEMMA BootingBoot ==
    ASSUME Booting, Answered, Boot
    PROVE  Booting'
<1> DEFINE S == Seq(STRING \ {NUL})
           Put(n, left) == /\ left \in Seq(S) /\ Len(left) = Puts - n
                           /\ \A k \in 1 .. Puts - n : left[k] = BootStrings[n + k]
<1>1. /\ call.fn = "boot" /\ call.left # <<>> /\ kputenv(Head(call.left))
      /\ call' = [call EXCEPT !.left = Tail(@)]
  BY DEF Boot
<1>2. PICK left : call = [fn |-> "boot", left |-> left]
  BY <1>1 DEF Answered
<1>3. call' = [fn |-> "boot", left |-> Tail(left)] /\ call.left = left
  BY <1>1, <1>2
<1>4. PICK n \in 0 .. Puts : Laid(n) /\ Put(n, left)
  BY <1>1, <1>3 DEF Booting
<1> HIDE DEF S
<1>5. left # <<>> /\ left \in Seq(S) /\ Puts \in Nat
  BY <1>1, <1>3, <1>4, BootFacts
<1>6. Len(left) \in Nat \ {0} /\ Head(left) = left[1]
  BY <1>5, EmptySeq
<1>7. n \in 0 .. Puts - 1 /\ 1 \in 1 .. Puts - n
  BY <1>4, <1>5, <1>6
<1>8. Laid(n + 1)'
  <2>1. Head(left) = BootStrings[n + 1]
    BY <1>4, <1>6, <1>7
  <2>2. kputenv(BootStrings[n + 1])
    BY <1>1, <1>3, <2>1
  <2> QED
    BY <1>4, <1>7, <2>2, LaidNext
<1> DEFINE rest == Tail(left)
<1>9. rest \in Seq(S) /\ Len(rest) = Len(left) - 1
      /\ \A k \in 1 .. Len(rest) : rest[k] = left[k + 1]
  BY <1>5, HeadTailProperties
<1> HIDE DEF rest
<1>10. Put(n + 1, rest)
  <2>1. Len(rest) = Puts - (n + 1)
    BY <1>4, <1>5, <1>7, <1>9
  <2>2. ASSUME NEW k \in 1 .. Puts - (n + 1) PROVE rest[k] = BootStrings[(n + 1) + k]
    <3>1. k + 1 \in 1 .. Puts - n /\ (n + 1) + k = n + (k + 1)
      BY <1>5, <1>7
    <3>2. rest[k] = left[k + 1]
      BY <1>9, <2>1
    <3> QED
      BY <1>4, <3>1, <3>2
  <2> QED
    BY <1>9, <2>1, <2>2
<1>11. n + 1 \in 0 .. Puts
  BY <1>5, <1>7
<1> HIDE DEF Put
<1>12. call'.fn = "boot" /\ Put(n + 1, call'.left)
  <2>1. call'.left = rest /\ call'.fn = "boot"
    BY <1>3 DEF rest
  <2> QED
    BY <1>10, <2>1
<1>13. \E m \in 0 .. Puts : Laid(m)' /\ Put(m, call'.left)
  BY <1>8, <1>11, <1>12
<1> QED
  BY <1>12, <1>13 DEF Booting, Put, S

LEMMA BootingStep == Booting /\ Answered /\ [Next]_vars => Booting'
<1> SUFFICES ASSUME Booting, Answered, [Next]_vars PROVE Booting'
  OBVIOUS
<1>1. CASE Boot
  BY <1>1, BootingBoot
<1>2. CASE UNCHANGED vars
  <2>1. UNCHANGED block /\ call' = call
    BY <1>2 DEF vars
  <2>2. \A n : Laid(n) => Laid(n)'
    BY <2>1, LaidSame
  <2> QED
    BY <2>1, <2>2 DEF Booting
<1>3. CASE Started
  <2>1. UNCHANGED block /\ call'.fn = "none"
    BY <1>3 DEF Started
  <2>2. PICK n \in 0 .. Puts : Laid(n) /\ call.left = <<>> /\ Len(call.left) = Puts - n
    BY <1>3 DEF Started, Booting
  <2>3. n = Puts
    <3>1. Len(call.left) = 0
      BY <2>2
    <3>2. Puts \in Nat
      BY BootFacts
    <3> QED
      BY <2>2, <3>1, <3>2
  <2>4. Laid(Puts)'
    BY <2>1, <2>2, <2>3, LaidSame
  <2> QED
    BY <2>1, <2>4 DEF Booting
<1>4. CASE Checksum \/ Leave \/ (call.fn = "none" /\ Ask)
  <2>1. UNCHANGED block /\ call'.fn # "boot"
    <3>1. CASE Checksum
      BY <3>1 DEF Checksum
    <3>2. CASE Leave
      BY <3>2 DEF Leave
    <3>3. CASE Ask
      <4>1. \A name : Getenv(name) => UNCHANGED block /\ call'.fn # "boot"
        BY DEF Getenv, Answer
      <4>2. \A s, held : Search(s, held) => UNCHANGED block /\ call'.fn # "boot"
        BY DEF Search, Answer
      <4>3. \A s, base : Convert(s, base) => UNCHANGED block /\ call'.fn # "boot"
        BY DEF Convert, Answer
      <4>4. \A p, count : Format(p, count) => UNCHANGED block /\ call'.fn # "boot"
        BY DEF Format, Answer
      <4>5. \A hdr, file : LoadFile(hdr, file) => UNCHANGED block /\ call'.fn # "boot"
        BY DEF LoadFile, Answer
      <4> QED
        BY <3>3, <4>1, <4>2, <4>3, <4>4, <4>5 DEF Ask
    <3> QED
      BY <1>4, <3>1, <3>2, <3>3
  <2>2. call.fn # "boot"
    BY <1>4 DEF Checksum, Leave
  <2>3. Laid(Puts)'
    BY <2>1, <2>2, LaidSame DEF Booting
  <2> QED
    BY <2>1, <2>3 DEF Booting
<1> QED
  BY <1>1, <1>2, <1>3, <1>4 DEF Next

\* Reading a string, from any of its characters on.
LEMMA CharsAre ==
    ASSUME Laid(Puts), NEW j \in 1 .. Puts
    PROVE  /\ \A m \in 1 .. Size(j) : At(Starts[j] + m - 1) = BootStrings[j][m]
           /\ At(Starts[j] + Size(j)) = NUL
<1> DEFINE from == Starts[j]
           size == Size(j)
<1>1. /\ from \in Nat /\ size \in Nat /\ from + size + 1 < MAX_ENVIRON /\ MAX_ENVIRON \in Nat
  <2>1. j \in 1 .. Puts + 1 /\ Puts + 1 \in 1 .. Puts + 1 /\ j < Puts + 1 /\ size \in Nat
    BY BootFacts
  <2>2. from + size + 1 <= Starts[Puts + 1] /\ Starts[Puts + 1] < MAX_ENVIRON - 1
        /\ from \in Nat /\ Starts[Puts + 1] \in Nat
    BY <2>1, StartsGrow
  <2> HIDE DEF from, size
  <2> QED
    BY <2>1, <2>2, EnvironAssumption
<1>2. /\ DOMAIN environment = 0 .. MAX_ENVIRON - 1
      /\ \A m \in 1 .. size : environment[from + m - 1] = BootStrings[j][m]
      /\ environment[from + size] = NUL
  BY DEF Laid
<1> HIDE DEF from, size
<1>3. ASSUME NEW m \in 1 .. size PROVE At(from + m - 1) = BootStrings[j][m]
  <2>1. from + m - 1 \in 0 .. MAX_ENVIRON - 1
    BY <1>1
  <2> QED
    BY <1>2, <2>1 DEF At
<1>4. At(from + size) = NUL
  <2>1. from + size \in 0 .. MAX_ENVIRON - 1
    BY <1>1
  <2> QED
    BY <1>2, <2>1 DEF At
<1> QED
  BY <1>3, <1>4 DEF from, size

LEMMA StrLenIs ==
    ASSUME Laid(Puts), NEW j \in 1 .. Puts, NEW p \in 0 .. Size(j)
    PROVE  /\ StrLen(Starts[j] + p) = Size(j) - p
           /\ Str(Starts[j] + p) = [n \in 1 .. Size(j) - p |-> BootStrings[j][p + n]]
<1> DEFINE from == Starts[j]
           size == Size(j)
           T == {n \in 0 .. MAX_ENVIRON : At(from + p + n) = NUL}
<1>1. /\ from \in Nat /\ size \in Nat /\ size < MAX_ENVIRON /\ MAX_ENVIRON \in Nat
      /\ p \in 0 .. size
  <2>1. j \in 1 .. Puts + 1 /\ Puts + 1 \in 1 .. Puts + 1 /\ j < Puts + 1 /\ size \in Nat
    BY BootFacts
  <2>2. from + size + 1 <= Starts[Puts + 1] /\ Starts[Puts + 1] < MAX_ENVIRON - 1
        /\ from \in Nat /\ Starts[Puts + 1] \in Nat
    BY <2>1, StartsGrow
  <2> HIDE DEF from, size
  <2>3. p \in 0 .. size
    BY DEF size
  <2> QED
    BY <2>1, <2>2, <2>3, EnvironAssumption
<1>2. /\ \A m \in 1 .. size : At(from + m - 1) = BootStrings[j][m]
      /\ At(from + size) = NUL
      /\ \A m \in 1 .. size : BootStrings[j][m] # NUL
  BY CharsAre, BootFacts
<1>3. StrLen(from + p) = Min(T)
  BY Zenon DEF StrLen
<1> HIDE DEF from, size
<1>4. ASSUME NEW n \in 0 .. size - p - 1
      PROVE  At(from + p + n) = BootStrings[j][p + n + 1] /\ At(from + p + n) # NUL
  <2>1. p + n + 1 \in 1 .. size /\ from + (p + n + 1) - 1 = from + p + n
    BY <1>1
  <2> QED
    BY <1>2, <2>1
<1>5. size - p \in T
  <2>1. size - p \in 0 .. MAX_ENVIRON /\ from + p + (size - p) = from + size
    BY <1>1
  <2> QED
    BY <1>2, <2>1
<1>6. \A n \in T : size - p <= n
  <2> SUFFICES ASSUME NEW n \in T, n < size - p PROVE FALSE
    BY <1>1
  <2>1. n \in 0 .. size - p - 1
    BY <1>1
  <2> QED
    BY <1>4, <2>1
<1>7. T \subseteq Int
  BY <1>1
<1> HIDE DEF T
<1>8. StrLen(from + p) = size - p
  BY <1>3, <1>5, <1>6, <1>7, MinIs
<1>9. ASSUME NEW n \in 1 .. size - p PROVE At(from + p + n - 1) = BootStrings[j][p + n]
  <2>1. n - 1 \in 0 .. size - p - 1 /\ p + (n - 1) + 1 = p + n
        /\ from + p + (n - 1) = from + p + n - 1
    BY <1>1
  <2> QED
    BY <1>4, <2>1
<1>10. Str(from + p) = [n \in 1 .. size - p |-> BootStrings[j][p + n]]
  BY <1>8, <1>9 DEF Str
<1> QED
  BY <1>8, <1>10 DEF from, size

\* A string from its beginning.
LEMMA StringIs ==
    ASSUME Laid(Puts), NEW j \in 1 .. Puts
    PROVE  StrLen(Starts[j]) = Size(j) /\ Str(Starts[j]) = BootStrings[j]
<1> DEFINE s == BootStrings[j]
           size == Size(j)
           from == Starts[j]
<1>1. size \in Nat /\ from \in Nat
  BY BootFacts, StartsGrow
<1>2. s = [n \in 1 .. size |-> s[n]]
  <2>1. s \in Seq(STRING \ {NUL})
    BY BootFacts
  <2>2. s \in [1 .. Len(s) -> STRING \ {NUL}]
    BY <2>1, LenProperties
  <2> QED
    BY <2>2 DEF Size
<1>3. 0 \in 0 .. Size(j)
  BY <1>1
<1>4. StrLen(from + 0) = size - 0 /\ Str(from + 0) = [n \in 1 .. size - 0 |-> s[0 + n]]
  BY <1>3, StrLenIs
<1> HIDE DEF s, size, from
<1>5. from + 0 = from /\ size - 0 = size /\ \A n \in 1 .. size : 0 + n = n
  BY <1>1
<1>6. [n \in 1 .. size |-> s[0 + n]] = [n \in 1 .. size |-> s[n]]
  BY <1>5
<1> QED
  BY <1>2, <1>4, <1>5, <1>6 DEF s, size, from

\* Behind the last there is none, and no offset leads farther than the block.
LEMMA StrLenEnd == Laid(Puts) => StrLen(Starts[Puts + 1]) = 0
<1> SUFFICES ASSUME Laid(Puts) PROVE StrLen(Starts[Puts + 1]) = 0
  OBVIOUS
<1> DEFINE end == Starts[Puts + 1]
           T == {n \in 0 .. MAX_ENVIRON : At(end + n) = NUL}
<1>1. end \in Nat /\ end < MAX_ENVIRON - 1 /\ MAX_ENVIRON \in Nat
  BY StartsGrow, BootFacts, EnvironAssumption
<1>2. environment[end] = NUL
  BY <1>1 DEF Laid
<1>3. StrLen(end) = Min(T)
  BY Zenon DEF StrLen
<1> HIDE DEF end
<1>4. 0 \in T /\ T \subseteq Int /\ \A n \in T : 0 <= n
  <2>1. end + 0 = end /\ 0 \in 0 .. MAX_ENVIRON
    BY <1>1
  <2> QED
    BY <1>2, <2>1 DEF At
<1> HIDE DEF T
<1>5. StrLen(end) = 0
  BY <1>3, <1>4, MinIs
<1> QED
  BY <1>5 DEF end

LEMMA StrLenBounded ==
    ASSUME DOMAIN environment = 0 .. MAX_ENVIRON - 1, NEW k \in Nat
    PROVE  StrLen(k) \in 0 .. MAX_ENVIRON
<1> DEFINE T == {n \in 0 .. MAX_ENVIRON : At(k + n) = NUL}
<1>1. StrLen(k) = Min(T)
  BY Zenon DEF StrLen
<1>2. MAX_ENVIRON \in T
  <2>1. MAX_ENVIRON \in 0 .. MAX_ENVIRON /\ k + MAX_ENVIRON \notin 0 .. MAX_ENVIRON - 1
    BY EnvironAssumption
  <2> QED
    BY <2>1 DEF At
<1>3. T \subseteq 0 .. MAX_ENVIRON
  OBVIOUS
<1> HIDE DEF T
<1>4. PICK x \in T : \A y \in T : x <= y
  <2>1. T \subseteq Nat /\ T # {}
    BY <1>2, <1>3, EnvironAssumption
  <2> QED
    BY <2>1, LeastElement
<1>5. T \subseteq Int
  BY <1>3, EnvironAssumption
<1>6. Min(T) = x
  BY <1>4, <1>5, MinIs
<1> QED
  BY <1>1, <1>3, <1>4, <1>6

-----------------------------------------------------------------------------
\* Looking for a variable.
LEMMA DefinesIs ==
    ASSUME NEW S, "=" \in S, NEW s \in Seq(S), NEW name \in Seq(S)
    PROVE  Defines(s, name) <=>
               /\ Len(name) + 1 <= Len(s)
               /\ \A k \in 1 .. Len(name) : s[k] = name[k]
               /\ s[Len(name) + 1] = "="
<1> DEFINE head == Append(name, "=")
           length == Len(name)
           n == length + 1
           front == SubSeq(s, 1, n)
<1>1. /\ length \in Nat /\ Len(s) \in Nat
      /\ head \in Seq(S) /\ Len(head) = length + 1
      /\ \A k \in 1 .. length : head[k] = name[k]
      /\ head[length + 1] = "="
  BY AppendProperties, LenProperties
<1>2. Defines(s, name) <=> n <= Len(s) /\ front = head
  BY <1>1 DEF Defines
<1>3. ASSUME n <= Len(s)
      PROVE  front \in Seq(S) /\ Len(front) = n /\ \A k \in 1 .. n : front[k] = s[k]
  <2>1. \A k \in 1 .. n : s[k] \in S
    <3>1. \A k \in 1 .. n : k \in 1 .. Len(s)
      BY <1>1, <1>3
    <3> QED
      BY <3>1, ElementOfSeq
  <2>2. 1 \in Int /\ n \in Int /\ 1 <= n
    BY <1>1
  <2> HIDE DEF n
  <2>3. /\ front \in Seq(S) /\ Len(front) = IF 1 <= n THEN n - 1 + 1 ELSE 0
        /\ \A k \in 1 .. n - 1 + 1 : front[k] = s[1 + k - 1]
    BY <2>1, <2>2, SubSeqProperties
  <2>4. n - 1 + 1 = n /\ \A k \in 1 .. n : 1 + k - 1 = k
    BY <2>2
  <2> QED
    BY <2>2, <2>3, <2>4
<1> HIDE DEF front, head, length
<1>4. ASSUME n <= Len(s)
      PROVE  front = head <=> \A k \in 1 .. n : s[k] = head[k]
  <2>1. (\A k \in 1 .. n : front[k] = head[k]) => front = head
    <3>1. front \in Seq(S) /\ head \in Seq(S) /\ Len(front) = Len(head) /\ Len(front) = n
      BY <1>1, <1>3, <1>4
    <3> QED
      BY <3>1, SeqEqual
  <2> QED
    BY <1>3, <1>4, <2>1
<1>5. (\A k \in 1 .. n : s[k] = head[k]) <=>
          (\A k \in 1 .. length : s[k] = name[k]) /\ s[length + 1] = "="
  <2>1. \A k \in 1 .. n : k \in 1 .. length \/ k = length + 1
    BY <1>1
  <2>2. length + 1 \in 1 .. n /\ \A k \in 1 .. length : k \in 1 .. n
    BY <1>1
  <2> QED
    BY <1>1, <2>1, <2>2
<1> QED
  BY <1>2, <1>4, <1>5 DEF length

\* Two strings are compared as far as the name goes.
LEMMA SameIs ==
    ASSUME NEW s, NEW v, Len(s) \in Nat, Len(v) \in Nat, 1 <= Len(v), Len(v) <= Len(s),
           \A k \in 1 .. Len(s) : s[k] # NUL
    PROVE  Same(s, v, Len(v)) <=> \A k \in 1 .. Len(v) : s[k] = v[k]
<1> DEFINE ls == Len(s)
           lv == Len(v)
           Ch(u, k) == IF k <= Len(u) THEN u[k] ELSE NUL
           T == {k \in 1 .. Len(s) + 1 : k = lv \/ Ch(s, k) # Ch(v, k) \/ Ch(s, k) = NUL}
           end == Min(T)
<1>1. Same(s, v, Len(v)) <=> Ch(s, end) = Ch(v, end)
  BY Zenon DEF Same
<1>2. ls \in Nat /\ lv \in Nat /\ 1 <= lv /\ lv <= ls
  OBVIOUS
<1>3. \A k \in 1 .. lv : Ch(s, k) = s[k] /\ Ch(v, k) = v[k] /\ s[k] # NUL
  BY <1>2
<1>4. \A k : k \in T <=> k \in 1 .. ls + 1 /\ (k = lv \/ Ch(s, k) # Ch(v, k) \/ Ch(s, k) = NUL)
  OBVIOUS
<1>5. T \subseteq Int
  BY <1>2
<1> HIDE DEF ls, lv, T, Ch
<1>6. CASE \A k \in 1 .. lv : s[k] = v[k]
  <2>1. lv \in T
    BY <1>2, <1>4
  <2>2. \A k \in T : lv <= k
    <3> SUFFICES ASSUME NEW k \in T, k < lv PROVE FALSE
      BY <1>2, <1>5
    <3>1. k \in 1 .. lv /\ k # lv
      BY <1>2, <1>4
    <3> QED
      BY <1>3, <1>4, <1>6, <3>1
  <2>3. end = lv
    BY <1>5, <2>1, <2>2, MinIs
  <2>4. lv \in 1 .. lv
    BY <1>2
  <2>5. Ch(s, lv) = Ch(v, lv)
    BY <1>3, <1>6, <2>4
  <2> QED
    BY <1>1, <1>6, <2>3, <2>5 DEF lv
<1>7. CASE ~\A k \in 1 .. lv : s[k] = v[k]
  <2> DEFINE D == {k \in 1 .. lv : s[k] # v[k]}
  <2>1. PICK d \in D : \A k \in D : d <= k
    <3>1. D \subseteq Nat /\ D # {}
      BY <1>2, <1>7
    <3> HIDE DEF D
    <3> QED
      BY <3>1, LeastElement
  <2>2. d \in 1 .. lv /\ s[d] # v[d] /\ \A k \in 1 .. lv : k < d => s[k] = v[k]
    BY <1>2, <2>1
  <2>3. Ch(s, d) # Ch(v, d)
    BY <1>3, <2>2
  <2>4. d \in T
    BY <1>2, <1>4, <2>2, <2>3
  <2>5. \A k \in T : d <= k
    <3> SUFFICES ASSUME NEW k \in T, k < d PROVE FALSE
      BY <1>5, <2>2
    <3>1. k \in 1 .. lv /\ k # lv
      BY <1>2, <1>4, <2>2
    <3>2. s[k] = v[k]
      BY <2>2, <3>1
    <3> QED
      BY <1>3, <1>4, <3>1, <3>2
  <2>6. end = d
    BY <1>5, <2>4, <2>5, MinIs
  <2> QED
    BY <1>1, <1>7, <2>3, <2>6 DEF lv
<1> QED
  BY <1>6, <1>7

\* matchenv() finds the variable with the name, and none that only begins so.
LEMMA MatchIs ==
    ASSUME Laid(Puts), NEW j \in 1 .. Puts, NEW name \in Seq(STRING \ {NUL})
    PROVE  matchenv(Starts[j], name) =
               IF Defines(BootStrings[j], name) THEN Starts[j] + Len(name) + 1 ELSE NULL
<1> DEFINE s == BootStrings[j]
           e == Starts[j]
           length == Len(name)
           S == STRING \ {NUL}
<1>1. /\ s \in Seq(S) /\ Len(s) \in Nat /\ length \in Nat /\ Size(j) = Len(s)
      /\ \A k \in 1 .. Len(s) : s[k] # NUL
      /\ s[1] # "="
  BY BootFacts, LenProperties DEF Size
<1>2. StrLen(e) = Len(s) /\ Str(e) = s
  BY <1>1, StringIs
<1>3. \A m \in 1 .. Len(s) : At(e + m - 1) = s[m]
  BY <1>1, CharsAre
<1>4. "=" \in S
  <2>1. \E m \in 1 .. Len(s) : s[m] = "="
    BY <1>1, BootFacts DEF Size
  <2> HIDE DEF s, S
  <2> QED
    BY <1>1, <2>1, ElementOfSeq
<1>5. Defines(s, name) <=> /\ length + 1 <= Len(s)
                           /\ \A k \in 1 .. length : s[k] = name[k]
                           /\ s[length + 1] = "="
  BY <1>1, <1>4, DefinesIs
<1>6. e \in Nat
  BY BootFacts, StartsGrow
<1>7. matchenv(e, name) = IF Len(s) >= length + 1 /\ Same(s, name, length) /\ At(e + length) = "="
                          THEN e + length + 1 ELSE NULL
  BY <1>2 DEF matchenv
<1> HIDE DEF S, s, e
<1>8. ASSUME length + 1 <= Len(s) PROVE At(e + length) = s[length + 1]
  <2>1. length + 1 \in 1 .. Len(s) /\ e + (length + 1) - 1 = e + length
    BY <1>1, <1>6, <1>8
  <2> QED
    BY <1>3, <2>1
<1>9. Len(s) >= length + 1 <=> length + 1 <= Len(s)
  BY <1>1
<1>10. CASE length = 0
  <2>1. ~Defines(s, name)
    BY <1>1, <1>5, <1>10
  <2>2. length + 1 <= Len(s) => At(e + length) # "="
    BY <1>1, <1>8, <1>10
  <2> QED
    BY <1>7, <1>9, <2>1, <2>2 DEF s, e
<1>11. CASE length # 0
  <2>1. length + 1 <= Len(s) =>
            (Same(s, name, length) <=> \A k \in 1 .. length : s[k] = name[k])
    <3> SUFFICES ASSUME length + 1 <= Len(s)
                 PROVE  Same(s, name, length) <=> \A k \in 1 .. length : s[k] = name[k]
      OBVIOUS
    <3>1. 1 <= Len(name) /\ Len(name) <= Len(s) /\ Len(name) \in Nat
      BY <1>1, <1>11
    <3> QED
      BY <1>1, <3>1, SameIs
  <2> HIDE DEF length
  <2>2. Defines(s, name) <=> Len(s) >= length + 1 /\ Same(s, name, length) /\ At(e + length) = "="
    BY <1>5, <1>8, <1>9, <2>1
  <2>3. matchenv(e, name) = IF Defines(s, name) THEN e + length + 1 ELSE NULL
    BY <1>7, <2>2
  <2> QED
    BY <2>3 DEF s, e, length
<1> QED
  BY <1>10, <1>11

-----------------------------------------------------------------------------
\* A function that looks only at larger arguments.
Tables(A, bound, stop, val, further) ==
    {f \in [0 .. bound -> A] :
        \A o \in 0 .. bound : f[o] = IF stop[o] THEN val[o] ELSE f[further[o]]}

LEMMA Descends ==
    ASSUME NEW A, NEW bound \in Nat, NEW stop, NEW val \in [0 .. bound -> A], NEW further,
           \A o \in 0 .. bound : stop[o] \/ further[o] \in o + 1 .. bound
    PROVE  Tables(A, bound, stop, val, further) # {}
<1> DEFINE Good(o, f) == f[o] = IF stop[o] THEN val[o] ELSE f[further[o]]
           Fits(d, f) == \A o \in 0 .. bound : bound - d <= o => Good(o, f)
           T == {d \in Nat : \E f \in [0 .. bound -> A] : Fits(d, f)}
<1>1. 0 \in T
  <2>1. \A o \in 0 .. bound : bound - 0 <= o => o = bound
    OBVIOUS
  <2>2. stop[bound]
    OBVIOUS
  <2>3. Fits(0, val)
    BY <2>1, <2>2
  <2> QED
    BY <2>3
<1>2. ASSUME NEW d \in Nat, d \in T PROVE d + 1 \in T
  <2>1. PICK f \in [0 .. bound -> A] : Fits(d, f)
    BY <1>2
  <2> DEFINE p == bound - (d + 1)
             h == [o \in 0 .. bound |->
                      IF o = p THEN IF stop[p] THEN val[p] ELSE f[further[p]] ELSE f[o]]
  <2>2. CASE p \notin 0 .. bound
    <3>1. \A o \in 0 .. bound : bound - (d + 1) <= o => bound - d <= o
      BY <2>2
    <3>2. Fits(d + 1, f)
      BY <2>1, <3>1
    <3> QED
      BY <3>2
  <2>3. CASE p \in 0 .. bound
    <3>1. h \in [0 .. bound -> A]
      <4>1. stop[p] \/ further[p] \in 0 .. bound
        <5>1. stop[p] \/ further[p] \in p + 1 .. bound
          BY <2>3
        <5>2. p + 1 \in 0 .. bound
          BY <2>3
        <5> HIDE DEF p
        <5> QED
          BY <2>3, <5>1, <5>2
      <4> HIDE DEF p
      <4> QED
        BY <2>3, <4>1
    <3>2. ASSUME NEW o \in 0 .. bound, bound - (d + 1) <= o PROVE Good(o, h)
      <4>1. o = p \/ (bound - d <= o /\ o # p)
        BY <2>3, <3>2
      <4>2. p \in Int
        BY <2>3
      <4>3. stop[o] \/ further[o] \in o + 1 .. bound
        OBVIOUS
      <4>4. p <= o
        BY <3>2
      <4> HIDE DEF p
      <4>5. stop[o] \/ (further[o] \in 0 .. bound /\ further[o] # p)
        BY <4>2, <4>3, <4>4
      <4>6. stop[o] \/ h[further[o]] = f[further[o]]
        BY <4>5
      <4>7. CASE o = p
        BY <4>6, <4>7
      <4>8. CASE bound - d <= o /\ o # p
        <5>1. Good(o, f)
          BY <2>1, <4>8
        <5>2. h[o] = f[o]
          BY <4>8
        <5> HIDE DEF h
        <5> QED
          BY <4>6, <5>1, <5>2
      <4> QED
        BY <4>1, <4>7, <4>8
    <3> HIDE DEF h
    <3>3. Fits(d + 1, h)
      BY <3>2
    <3> QED
      BY <3>1, <3>3
  <2> QED
    BY <2>2, <2>3
<1>3. bound \in T
  <2> HIDE DEF T
  <2> QED
    BY <1>1, <1>2, Induct
<1>4. PICK f \in [0 .. bound -> A] : Fits(bound, f)
  BY <1>3
<1>5. \A o \in 0 .. bound : Good(o, f)
  BY <1>4
<1> QED
  BY <1>5 DEF Tables

\* kgetenv() goes from string to string.
LEMMA GetenvLoops ==
    ASSUME DOMAIN environment = 0 .. MAX_ENVIRON - 1, NEW name, Len(name) \in Nat
    PROVE  \E f : /\ kgetenv(name) = f[0]
                  /\ \A o \in 0 .. 2 * MAX_ENVIRON :
                         f[o] = IF o >= MAX_ENVIRON - 1 THEN ASSERTS
                                ELSE IF StrLen(o) = 0 THEN NULL
                                ELSE IF matchenv(o, name) # NULL THEN matchenv(o, name)
                                ELSE f[o + StrLen(o) + 1]
<1> DEFINE bound == 2 * MAX_ENVIRON
           Loop(f) == f = [offset \in 0 .. 2 * MAX_ENVIRON |->
            IF offset >= MAX_ENVIRON - 1 THEN ASSERTS
            ELSE IF StrLen(offset) = 0 THEN NULL
            ELSE IF matchenv(offset, name) # NULL THEN matchenv(offset, name)
            ELSE f[offset + StrLen(offset) + 1]]
           stop == [o \in 0 .. bound |-> \/ o >= MAX_ENVIRON - 1 \/ StrLen(o) = 0
                                         \/ matchenv(o, name) # NULL]
           val == [o \in 0 .. bound |-> IF o >= MAX_ENVIRON - 1 THEN ASSERTS
                                        ELSE IF StrLen(o) = 0 THEN NULL ELSE matchenv(o, name)]
           further == [o \in 0 .. bound |-> o + StrLen(o) + 1]
<1>1. MAX_ENVIRON \in Nat /\ bound \in Nat
  BY EnvironAssumption
<1>2. \A o \in 0 .. bound : o \in Nat /\ StrLen(o) \in 0 .. MAX_ENVIRON
  <2>1. \A o \in 0 .. bound : o \in Nat
    OBVIOUS
  <2> QED
    BY <2>1, StrLenBounded
<1>3. \A o \in 0 .. bound : stop[o] \/ further[o] \in o + 1 .. bound
  <2> SUFFICES ASSUME NEW o \in 0 .. bound, ~stop[o]
               PROVE  further[o] \in o + 1 .. bound
    OBVIOUS
  <2>1. o < MAX_ENVIRON - 1
    BY <1>1
  <2>2. further[o] = o + StrLen(o) + 1
    OBVIOUS
  <2>3. StrLen(o) \in Nat /\ StrLen(o) <= MAX_ENVIRON
    BY <1>2, <1>1
  <2> HIDE DEF further, stop
  <2> QED
    BY <1>1, <2>1, <2>2, <2>3
<1>4. val \in [0 .. bound -> Int]
  <2> SUFFICES ASSUME NEW o \in 0 .. bound PROVE val[o] \in Int
    OBVIOUS
  <2>1. matchenv(o, name) \in Int
    BY DEF matchenv, NULL
  <2> QED
    BY <2>1 DEF ASSERTS, NULL
<1>5. PICK f : f \in Tables(Int, bound, stop, val, further)
  <2> HIDE DEF stop, val, further, bound
  <2>1. Tables(Int, bound, stop, val, further) # {}
    BY <1>1, <1>3, <1>4, Descends
  <2> QED
    BY <2>1
<1>6. f \in [0 .. bound -> Int]
      /\ \A o \in 0 .. bound : f[o] = IF stop[o] THEN val[o] ELSE f[further[o]]
  <2> HIDE DEF stop, val, further, bound
  <2> QED
    BY <1>5 DEF Tables
<1>7. Loop(f)
  <2>1. ASSUME NEW o \in 0 .. bound
        PROVE  f[o] = IF o >= MAX_ENVIRON - 1 THEN ASSERTS
                      ELSE IF StrLen(o) = 0 THEN NULL
                      ELSE IF matchenv(o, name) # NULL THEN matchenv(o, name)
                      ELSE f[o + StrLen(o) + 1]
    <3>1. stop[o] = (\/ o >= MAX_ENVIRON - 1 \/ StrLen(o) = 0 \/ matchenv(o, name) # NULL)
      BY Zenon
    <3>2. val[o] = IF o >= MAX_ENVIRON - 1 THEN ASSERTS
                   ELSE IF StrLen(o) = 0 THEN NULL ELSE matchenv(o, name)
      BY Zenon
    <3>3. further[o] = o + StrLen(o) + 1
      BY Zenon
    <3>4. f[o] = IF stop[o] THEN val[o] ELSE f[further[o]]
      BY <1>6
    <3> HIDE DEF stop, val, further
    <3> QED
      BY Zenon, <3>1, <3>2, <3>3, <3>4
  <2> QED
    BY <1>6, <2>1
<1>8. kgetenv(name) = (CHOOSE g : Loop(g))[0]
  BY Zenon DEF kgetenv
<1> DEFINE g == CHOOSE g1 : Loop(g1)
<1>9. Loop(g)
  <2> HIDE DEF Loop
  <2> QED
    BY <1>7
<1>10. kgetenv(name) = g[0]
  BY <1>8
<1> HIDE DEF g
<1> QED
  BY <1>9, <1>10, Zenon

\* The offset of the value.
Value(name) == IF Definitions(name) = {} THEN NULL
               ELSE Starts[Min(Definitions(name))] + Len(name) + 1

\* kgetenv() passes the strings that do not define the name.
LEMMA LookedUp ==
    ASSUME Laid(Puts), NEW name \in Seq(STRING \ {NUL})
    PROVE  kgetenv(name) = Value(name)
<1> DEFINE D == Definitions(name)
           end == IF D = {} THEN Puts + 1 ELSE Min(D)
<1>1. /\ Puts \in Nat /\ MAX_ENVIRON \in Nat /\ Len(name) \in Nat
      /\ DOMAIN environment = 0 .. MAX_ENVIRON - 1
  BY BootFacts, EnvironAssumption, LenProperties DEF Laid
<1>2. PICK f : /\ kgetenv(name) = f[0]
               /\ \A o \in 0 .. 2 * MAX_ENVIRON :
                      f[o] = IF o >= MAX_ENVIRON - 1 THEN ASSERTS
                             ELSE IF StrLen(o) = 0 THEN NULL
                             ELSE IF matchenv(o, name) # NULL THEN matchenv(o, name)
                             ELSE f[o + StrLen(o) + 1]
  BY <1>1, GetenvLoops
<1>3. \A j \in 1 .. Puts + 1 : /\ Starts[j] \in Nat /\ Starts[j] < MAX_ENVIRON - 1
                               /\ Starts[j] \in 0 .. 2 * MAX_ENVIRON
  <2> SUFFICES ASSUME NEW j \in 1 .. Puts + 1
               PROVE  /\ Starts[j] \in Nat /\ Starts[j] < MAX_ENVIRON - 1
                      /\ Starts[j] \in 0 .. 2 * MAX_ENVIRON
    OBVIOUS
  <2>1. /\ Starts[j] \in Nat /\ Starts[Puts + 1] \in Nat
        /\ Starts[j] <= Starts[Puts + 1] /\ Starts[Puts + 1] < MAX_ENVIRON - 1
    BY <1>1, StartsGrow
  <2> QED
    BY <1>1, <2>1
<1>4. D \subseteq 1 .. Puts
  BY DEF Definitions, Puts
<1>5. \A j \in 1 .. Puts : Defines(BootStrings[j], name) <=> j \in D
  BY DEF Definitions, Puts
<1> HIDE DEF D
<1>6. /\ end \in 1 .. Puts + 1
      /\ \A j \in 1 .. Puts : j < end => j \notin D
      /\ D # {} => end \in D
  <2>1. CASE D = {}
    BY <1>1, <2>1
  <2>2. CASE D # {}
    <3>1. D \subseteq Nat
      BY <1>1, <1>4
    <3>2. PICK x \in D : \A y \in D : x <= y
      BY <2>2, <3>1, LeastElement
    <3>3. D \subseteq Int
      BY <3>1
    <3>4. Min(D) = x
      BY <3>2, <3>3, MinIs
    <3>5. x \in 1 .. Puts
      BY <1>4
    <3>6. end = x
      BY <2>2, <3>4
    <3> HIDE DEF end
    <3>7. \A j \in 1 .. Puts : j < end => j \notin D
      BY <1>1, <3>2, <3>5, <3>6
    <3> QED
      BY <1>1, <3>5, <3>6, <3>7
  <2> QED
    BY <2>1, <2>2
<1>7. ASSUME NEW j \in 1 .. Puts
      PROVE  f[Starts[j]] = IF j \in D THEN Starts[j] + Len(name) + 1 ELSE f[Starts[j + 1]]
  <2>1. j \in 1 .. Puts + 1
    BY <1>1
  <2>2. /\ Starts[j] \in Nat /\ ~(Starts[j] >= MAX_ENVIRON - 1)
        /\ Starts[j] \in 0 .. 2 * MAX_ENVIRON
    BY <1>1, <1>3, <2>1
  <2>3. StrLen(Starts[j]) = Size(j) /\ Size(j) \in Nat /\ 2 <= Size(j)
    BY BootFacts, StringIs
  <2>4. matchenv(Starts[j], name) = IF j \in D THEN Starts[j] + Len(name) + 1 ELSE NULL
    BY <1>5, MatchIs
  <2>5. Starts[j + 1] = Starts[j] + Size(j) + 1
    BY StartsAre
  <2>6. f[Starts[j]] = IF matchenv(Starts[j], name) # NULL THEN matchenv(Starts[j], name)
                       ELSE f[Starts[j + 1]]
    <3>1. StrLen(Starts[j]) # 0
      BY <2>3
    <3> QED
      BY <1>2, <2>2, <2>3, <2>5, <3>1
  <2>7. Starts[j] + Len(name) + 1 # NULL
    BY <1>1, <2>2 DEF NULL
  <2> QED
    BY <2>4, <2>6, <2>7
<1>8. f[Starts[Puts + 1]] = NULL
  <2>1. Puts + 1 \in 1 .. Puts + 1
    BY <1>1
  <2>2. /\ Starts[Puts + 1] \in 0 .. 2 * MAX_ENVIRON /\ ~(Starts[Puts + 1] >= MAX_ENVIRON - 1)
    BY <1>1, <1>3, <2>1
  <2>3. StrLen(Starts[Puts + 1]) = 0
    BY StrLenEnd
  <2> QED
    BY <1>2, <2>2, <2>3
<1> DEFINE T == {n \in Nat : n < end => f[Starts[n + 1]] = f[Starts[1]]}
<1> HIDE DEF end
<1>9. 0 \in T
  OBVIOUS
<1>10. ASSUME NEW n \in Nat, n \in T PROVE n + 1 \in T
  <2> SUFFICES ASSUME n + 1 < end PROVE f[Starts[(n + 1) + 1]] = f[Starts[1]]
    OBVIOUS
  <2>1. n + 1 \in 1 .. Puts /\ n < end
    BY <1>1, <1>6
  <2>2. n + 1 \notin D
    BY <1>6, <2>1
  <2>3. f[Starts[n + 1]] = f[Starts[(n + 1) + 1]]
    BY <1>7, <2>1, <2>2
  <2>4. f[Starts[n + 1]] = f[Starts[1]]
    BY <1>10, <2>1
  <2> QED
    BY <2>3, <2>4
<1>11. f[Starts[end]] = f[Starts[1]]
  <2>1. \A n \in Nat : n \in T
    <3> HIDE DEF T
    <3> QED
      BY <1>9, <1>10, Induct
  <2>2. end - 1 \in Nat /\ end - 1 < end /\ (end - 1) + 1 = end
    BY <1>1, <1>6
  <2>3. f[Starts[(end - 1) + 1]] = f[Starts[1]]
    BY <2>1, <2>2
  <2> QED
    BY <2>2, <2>3
<1>12. kgetenv(name) = f[Starts[end]]
  BY <1>2, <1>11, StartsAre
<1>13. CASE D = {}
  BY <1>8, <1>12, <1>13 DEF end, D, Value
<1>14. CASE D # {}
  <2>1. end \in 1 .. Puts /\ end \in D
    BY <1>4, <1>6, <1>14
  <2>2. kgetenv(name) = Starts[end] + Len(name) + 1
    BY <1>7, <1>12, <2>1
  <2> QED
    BY <1>14, <2>2 DEF end, D, Value
<1> QED
  BY <1>13, <1>14

\* The value found is the rest of the string that defines the name.
LEMMA RestOfDefinition ==
    ASSUME Laid(Puts), NEW j \in 1 .. Puts, NEW name \in Seq(STRING \ {NUL}),
           Defines(BootStrings[j], name)
    PROVE  Append(name, "=") \o Str(Starts[j] + Len(name) + 1) = BootStrings[j]
<1> DEFINE S == STRING \ {NUL}
           s == BootStrings[j]
           size == Size(j)
           head == Append(name, "=")
           p == Len(name) + 1
           rest == Str(Starts[j] + Len(name) + 1)
<1>1. /\ s \in Seq(S) /\ Len(s) = size /\ size \in Nat /\ Len(name) \in Nat
      /\ Starts[j] \in Nat
  BY BootFacts, StartsGrow, LenProperties DEF Size
<1>2. "=" \in S
  <2>1. \E m \in 1 .. Len(s) : s[m] = "="
    BY <1>1, BootFacts DEF Size
  <2> HIDE DEF s, S
  <2> QED
    BY <1>1, <2>1, ElementOfSeq
<1>3. /\ p <= Len(s)
      /\ \A k \in 1 .. Len(name) : s[k] = name[k]
      /\ s[p] = "="
  BY <1>1, <1>2, DefinesIs
<1>4. /\ head \in Seq(S) /\ Len(head) = p
      /\ \A k \in 1 .. p : head[k] = s[k]
  <2>1. /\ head \in Seq(S) /\ Len(head) = Len(name) + 1
        /\ \A k \in 1 .. Len(name) : head[k] = name[k]
        /\ head[Len(name) + 1] = "="
    BY <1>2, AppendProperties
  <2>2. \A k \in 1 .. p : k \in 1 .. Len(name) \/ k = p
    BY <1>1
  <2> QED
    BY <1>3, <2>1, <2>2
<1>5. rest = [n \in 1 .. size - p |-> s[p + n]]
  <2>1. p \in 0 .. Size(j)
    BY <1>1, <1>3
  <2>2. Starts[j] + Len(name) + 1 = Starts[j] + p
    BY <1>1
  <2> HIDE DEF p
  <2> QED
    BY <2>1, <2>2, StrLenIs
<1>6. size - p \in Nat
  BY <1>1, <1>3
<1> HIDE DEF rest, head, p, s, size, S
<1>7. \A n \in 1 .. size - p : s[p + n] \in S
  <2>1. \A n \in 1 .. size - p : p + n \in 1 .. Len(s)
    BY <1>1, <1>6 DEF p
  <2> QED
    BY <1>1, <2>1, ElementOfSeq
<1>8. rest \in Seq(S) /\ Len(rest) = size - p
  <2>1. rest \in [1 .. size - p -> S]
    BY <1>5, <1>7
  <2> QED
    BY <1>6, <2>1
<1>9. /\ head \o rest \in Seq(S) /\ Len(head \o rest) = p + (size - p)
      /\ \A k \in 1 .. p + (size - p) :
             (head \o rest)[k] = IF k <= p THEN head[k] ELSE rest[k - p]
  BY <1>4, <1>8, ConcatProperties
<1>10. p + (size - p) = Len(s) /\ p \in Nat
  BY <1>1 DEF p
<1>11. ASSUME NEW k \in 1 .. Len(s) PROVE (head \o rest)[k] = s[k]
  <2>1. CASE k <= p
    BY <1>4, <1>9, <1>10, <2>1
  <2>2. CASE ~(k <= p)
    <3>1. k - p \in 1 .. size - p /\ p + (k - p) = k
      BY <1>1, <1>6, <1>10, <2>2
    <3>2. rest[k - p] = s[k]
      BY <1>5, <3>1
    <3> QED
      BY <1>9, <1>10, <2>2, <3>2
  <2> QED
    BY <2>1, <2>2
<1>12. head \o rest = s
  BY <1>1, <1>9, <1>10, <1>11, SeqEqual
<1> QED
  BY <1>12 DEF head, rest, s

\* What has been asked for.
Found == call.fn = "getenv" => call.name \in Names /\ call.value = Value(call.name)

LEMMA FoundStep == Found /\ Answered /\ Booting /\ [Next]_vars => Found'
<1> SUFFICES ASSUME Found, Answered, Booting, [Next]_vars PROVE Found'
  OBVIOUS
<1>1. CASE UNCHANGED vars
  BY <1>1 DEF Found, vars
<1>2. CASE Boot \/ Started \/ Checksum \/ Leave
  <2>1. CASE Boot
    <3>1. PICK left : call = [fn |-> "boot", left |-> left]
      BY <2>1 DEF Boot, Answered
    <3> QED
      BY <2>1, <3>1 DEF Boot, Found
  <2>2. CASE Started \/ Leave
    BY <2>2 DEF Started, Leave, Found
  <2>3. CASE Checksum
    <3>1. call'.fn = "none" \/ call'.fn = "fletcher16"
      BY <2>3 DEF Checksum
    <3> QED
      BY <3>1 DEF Found
  <2> QED
    BY <1>2, <2>1, <2>2, <2>3
<1>3. CASE call.fn = "none" /\ Ask
  <2>1. Laid(Puts)
    BY <1>3 DEF Booting
  <2>2. ASSUME NEW name \in Names, Getenv(name) PROVE Found'
    <3>1. name \in Seq(STRING \ {NUL})
      BY LibraryAssumption
    <3>2. call' = [fn |-> "getenv", name |-> name, value |-> Value(name)]
      BY <2>1, <2>2, <3>1, LookedUp DEF Getenv, Answer
    <3>3. call'.name = name /\ call'.value = Value(name)
      BY <3>2
    <3> QED
      BY <3>3 DEF Found
  <2>3. \A s, held : Search(s, held) => call'.fn = "search"
    BY DEF Search, Answer
  <2>4. \A s, base : Convert(s, base) => call'.fn = "strtoul"
    BY DEF Convert, Answer
  <2>5. \A p, count : Format(p, count) => call'.fn = "printf"
    BY DEF Format, Answer
  <2>6. \A hdr, file : LoadFile(hdr, file) => call'.fn = "elf"
    BY DEF LoadFile, Answer
  <2>7. call'.fn # "getenv" => Found'
    BY DEF Found
  <2> QED
    BY <1>3, <2>2, <2>3, <2>4, <2>5, <2>6, <2>7 DEF Ask
<1> QED
  BY <1>1, <1>2, <1>3 DEF Next

\* kgetenv() finds the first string that defines the name, whatever the BDOS puts
\* into the environment and whatever name is asked for.
THEOREM FirstIsFound == Spec => []FirstDefinition
<1>1. Found /\ Booting => FirstDefinition
  <2> SUFFICES ASSUME Found, Booting, call.fn = "getenv"
               PROVE  IF Definitions(call.name) = {} THEN call.value = NULL
                      ELSE /\ call.value >= 0
                           /\ Append(call.name, "=") \o Str(call.value) =
                                  BootStrings[Min(Definitions(call.name))]
    BY Zenon DEF FirstDefinition
  <2> DEFINE name == call.name
             D == Definitions(name)
  <2>1. name \in Seq(STRING \ {NUL}) /\ call.value = Value(name) /\ Laid(Puts)
    BY LibraryAssumption DEF Found, Booting
  <2> HIDE DEF name, D
  <2>2. CASE D = {}
    BY <2>1, <2>2 DEF D, name, Value
  <2>3. CASE D # {}
    <3>1. D \subseteq 1 .. Puts /\ Puts \in Nat
      BY BootFacts DEF D, Definitions, Puts
    <3>2. D \subseteq Nat /\ D \subseteq Int
      BY <3>1
    <3>3. PICK j \in D : \A y \in D : j <= y
      BY <2>3, <3>2, LeastElement
    <3>4. Min(D) = j
      BY <3>2, <3>3, MinIs
    <3>5. j \in 1 .. Puts /\ Defines(BootStrings[j], name)
      BY DEF D, Definitions, Puts
    <3>6. call.value = Starts[j] + Len(name) + 1
      BY <2>1, <2>3, <3>4 DEF D, Value
    <3>7. call.value >= 0
      <4>1. Starts[j] \in Nat /\ Len(name) \in Nat
        BY <2>1, <3>1, <3>5, StartsGrow, LenProperties
      <4> QED
        BY <3>6, <4>1
    <3>8. Append(name, "=") \o Str(call.value) = BootStrings[j]
      BY <2>1, <3>5, <3>6, RestOfDefinition
    <3> QED
      BY <2>3, <3>4, <3>7, <3>8 DEF name, D
  <2> QED
    BY <2>2, <2>3
<1>2. Init => Answered /\ Booting /\ Found
  <2>1. Init => Found
    BY DEF Init, Found
  <2> QED
    BY <2>1, AnsweredInit, BootingInit
<1>3. Answered /\ Booting /\ Found /\ [Next]_vars => (Answered /\ Booting /\ Found)'
  BY AnsweredStep, BootingStep, FoundStep
<1> QED
  BY <1>1, <1>2, <1>3, PTL DEF Spec

-----------------------------------------------------------------------------
\* Where printf's output goes.  What has been stored after n characters:
Filled(text, buffer, maxlen, n) ==
    [k \in DOMAIN buffer |-> IF k < n /\ k < maxlen THEN text[k + 1] ELSE buffer[k]]

LEMMA StoresOne ==
    ASSUME NEW text, NEW buffer, NEW m \in Nat, DOMAIN buffer = 0 .. m, NEW maxlen \in Nat,
           NEW n \in Nat \ {0}
    PROVE  out_buffer(text[n], Filled(text, buffer, maxlen, n - 1), n - 1, maxlen) =
               Filled(text, buffer, maxlen, n)
<1> DEFINE F(j) == Filled(text, buffer, maxlen, j)
           p == n - 1
           next == out_buffer(text[n], F(p), p, maxlen)
<1>1. /\ DOMAIN F(p) = 0 .. m
      /\ \A k \in 0 .. m : F(p)[k] = IF k < p /\ k < maxlen THEN text[k + 1] ELSE buffer[k]
  BY DEF Filled
<1>2. F(n) = [k \in 0 .. m |-> IF k < n /\ k < maxlen THEN text[k + 1] ELSE buffer[k]]
  BY DEF Filled
<1>3. F(p) = [k \in 0 .. m |-> F(p)[k]]
  BY DEF Filled
<1> HIDE DEF F
<1>4. CASE p < maxlen
  <2>1. next = [F(p) EXCEPT ![p] = text[n]]
    BY <1>4 DEF out_buffer
  <2>2. next = [k \in 0 .. m |-> IF k = p THEN text[n] ELSE F(p)[k]]
    BY <1>1, <2>1
  <2>3. \A k \in 0 .. m : (IF k = p THEN text[n] ELSE F(p)[k]) =
                          IF k < n /\ k < maxlen THEN text[k + 1] ELSE buffer[k]
    <3> SUFFICES ASSUME NEW k \in 0 .. m
                 PROVE  (IF k = p THEN text[n] ELSE F(p)[k]) =
                        IF k < n /\ k < maxlen THEN text[k + 1] ELSE buffer[k]
      OBVIOUS
    <3>1. CASE k = p
      <4>1. k < n /\ k < maxlen /\ k + 1 = n
        BY <1>4, <3>1
      <4> QED
        BY <3>1, <4>1
    <3>2. CASE k # p
      <4>1. k < n <=> k < p
        BY <3>2
      <4> QED
        BY <1>1, <3>2, <4>1
    <3> QED
      BY <3>1, <3>2
  <2> QED
    BY <1>2, <2>2, <2>3 DEF F
<1>5. CASE ~(p < maxlen)
  <2>1. next = F(p)
    BY <1>5 DEF out_buffer
  <2>2. \A k \in 0 .. m : F(p)[k] = IF k < n /\ k < maxlen THEN text[k + 1] ELSE buffer[k]
    <3>1. \A k \in 0 .. m : (k < n /\ k < maxlen) <=> (k < p /\ k < maxlen)
      BY <1>5
    <3> QED
      BY <1>1, <3>1
  <2> QED
    BY <1>2, <1>3, <2>1, <2>2 DEF F
<1> QED
  BY <1>4, <1>5 DEF F

LEMMA StoreIs ==
    ASSUME NEW text, Len(text) \in Nat, NEW V, NEW m \in Nat, NEW buffer \in [0 .. m -> V],
           NEW maxlen \in Nat
    PROVE  Store(text, buffer, maxlen) = Filled(text, buffer, maxlen, Len(text))
<1> DEFINE num == Len(text)
           Loop(f) == f = [n \in 0 .. Len(text) |->
            IF n = 0 THEN buffer ELSE out_buffer(text[n], f[n - 1], n - 1, maxlen)]
           after == CHOOSE f : Loop(f)
           g == [n \in 0 .. num |-> Filled(text, buffer, maxlen, n)]
<1>1. Filled(text, buffer, maxlen, 0) = buffer
  <2>1. \A k \in 0 .. m : ~(k < 0)
    OBVIOUS
  <2>2. DOMAIN buffer = 0 .. m /\ buffer = [k \in 0 .. m |-> buffer[k]]
    OBVIOUS
  <2> QED
    BY <2>1, <2>2 DEF Filled
<1>2. \A n \in 1 .. num : out_buffer(text[n], Filled(text, buffer, maxlen, n - 1), n - 1, maxlen)
                          = Filled(text, buffer, maxlen, n)
  <2>1. \A n \in 1 .. num : n \in Nat \ {0}
    OBVIOUS
  <2>2. DOMAIN buffer = 0 .. m
    OBVIOUS
  <2> QED
    BY <2>1, <2>2, StoresOne
<1>3. Loop(g)
  <2>1. ASSUME NEW n \in 0 .. num
        PROVE  Filled(text, buffer, maxlen, n) =
               IF n = 0 THEN buffer ELSE out_buffer(text[n], g[n - 1], n - 1, maxlen)
    <3>1. CASE n = 0
      BY <1>1, <3>1
    <3>2. CASE n # 0
      <4>1. n \in 1 .. num /\ n - 1 \in 0 .. num
        BY <3>2
      <4>2. g[n - 1] = Filled(text, buffer, maxlen, n - 1)
        BY <4>1, Zenon
      <4> QED
        BY <1>2, <3>2, <4>1, <4>2
    <3> QED
      BY <3>1, <3>2
  <2> HIDE DEF g
  <2>2. g = [n \in 0 .. num |->
                IF n = 0 THEN buffer ELSE out_buffer(text[n], g[n - 1], n - 1, maxlen)]
    BY <2>1, Zenon DEF g
  <2> QED
    BY <2>2
<1>4. Loop(after)
  <2> HIDE DEF Loop
  <2> QED
    BY <1>3
<1>5. \A n \in 0 .. num :
          after[n] = IF n = 0 THEN buffer ELSE out_buffer(text[n], after[n - 1], n - 1, maxlen)
  <2> HIDE DEF after
  <2> QED
    BY <1>4, Zenon
<1>6. Store(text, buffer, maxlen) = after[num]
  BY Zenon DEF Store
<1> HIDE DEF after, Loop, g
<1> DEFINE T == {n \in Nat : n <= num => after[n] = Filled(text, buffer, maxlen, n)}
<1>7. 0 \in T
  BY <1>1, <1>5
<1>8. ASSUME NEW n \in Nat, n \in T PROVE n + 1 \in T
  <2> DEFINE k == n + 1
  <2> SUFFICES ASSUME k <= num PROVE after[k] = Filled(text, buffer, maxlen, k)
    OBVIOUS
  <2>1. k \in 0 .. num /\ k \in 1 .. num /\ k # 0 /\ k - 1 = n /\ n <= num
    OBVIOUS
  <2> HIDE DEF k
  <2>2. after[k - 1] = Filled(text, buffer, maxlen, k - 1)
    BY <1>8, <2>1
  <2> QED
    BY <1>2, <1>5, <2>1, <2>2
<1>9. num \in T
  <2> HIDE DEF T
  <2> QED
    BY <1>7, <1>8, Induct
<1> QED
  BY <1>6, <1>9

\* The console shows all of a text that has no NUL.
LEMMA ShownWhole ==
    ASSUME NEW f, NEW args, Output(f, args) \in Seq(STRING \ {NUL})
    PROVE  kprintf(f, args) = Output(f, args)
<1> DEFINE text == Output(f, args)
           num == Len(text)
           Loop(h) == h = [n \in 0 .. Len(text) |->
            IF n = 0 THEN <<>>
            ELSE IF text[n] = "NUL" THEN h[n - 1] ELSE Append(h[n - 1], text[n])]
           shown == CHOOSE h : Loop(h)
           g == [n \in 0 .. num |-> [k \in 1 .. n |-> text[k]]]
<1>1. kprintf(f, args) = shown[num]
  BY Zenon DEF kprintf, Visible
<1> HIDE DEF text
<1>2. text \in Seq(STRING \ {NUL}) /\ num \in Nat
  BY LenProperties DEF text
<1>3. \A n \in 1 .. num : text[n] \in STRING \ {NUL} /\ text[n] # "NUL"
  <2> SUFFICES ASSUME NEW n \in 1 .. num PROVE text[n] \in STRING \ {NUL}
    BY DEF NUL
  <2> QED
    BY <1>2, ElementOfSeq
<1>4. ASSUME NEW n \in 1 .. num
      PROVE  Append([k \in 1 .. n - 1 |-> text[k]], text[n]) = [k \in 1 .. n |-> text[k]]
  <2> DEFINE front == [k \in 1 .. n - 1 |-> text[k]]
  <2>1. n - 1 \in Nat /\ (n - 1) + 1 = n
    OBVIOUS
  <2>2. front \in Seq(STRING) /\ Len(front) = n - 1
    <3>1. \A k \in 1 .. n - 1 : text[k] \in STRING
      BY <1>3
    <3>2. front \in [1 .. n - 1 -> STRING]
      BY <3>1
    <3> QED
      BY <2>1, <3>2
  <2>3. Append(front, text[n]) = [k \in 1 .. Len(front) + 1 |->
                                     IF k \in 1 .. Len(front) THEN front[k] ELSE text[n]]
    BY <2>2
  <2>4. \A k \in 1 .. n : (IF k \in 1 .. n - 1 THEN front[k] ELSE text[n]) = text[k]
    OBVIOUS
  <2> HIDE DEF front
  <2> QED
    BY <2>1, <2>2, <2>3, <2>4 DEF front
<1>5. Loop(g)
  <2>1. ASSUME NEW n \in 0 .. num
        PROVE  [k \in 1 .. n |-> text[k]] =
               IF n = 0 THEN <<>>
               ELSE IF text[n] = "NUL" THEN g[n - 1] ELSE Append(g[n - 1], text[n])
    <3>1. CASE n = 0
      BY <3>1
    <3>2. CASE n # 0
      <4>1. n \in 1 .. num /\ n - 1 \in 0 .. num
        BY <3>2
      <4>2. g[n - 1] = [k \in 1 .. n - 1 |-> text[k]]
        BY <4>1, Zenon
      <4> HIDE DEF g
      <4> QED
        BY <1>3, <1>4, <3>2, <4>1, <4>2
    <3> QED
      BY <3>1, <3>2
  <2>2. g = [n \in 0 .. num |->
                IF n = 0 THEN <<>>
                ELSE IF text[n] = "NUL" THEN g[n - 1] ELSE Append(g[n - 1], text[n])]
    BY <2>1, Zenon
  <2> HIDE DEF g
  <2> QED
    BY <2>2
<1>6. Loop(shown)
  <2> HIDE DEF Loop
  <2> QED
    BY <1>5
<1>7. \A n \in 0 .. num :
          shown[n] = IF n = 0 THEN <<>>
                     ELSE IF text[n] = "NUL" THEN shown[n - 1] ELSE Append(shown[n - 1], text[n])
  <2> HIDE DEF shown
  <2> QED
    BY <1>6, Zenon
<1> HIDE DEF shown, Loop, g
<1> DEFINE T == {n \in Nat : n <= num => shown[n] = [k \in 1 .. n |-> text[k]]}
<1>8. 0 \in T
  <2>1. [k \in 1 .. 0 |-> text[k]] = <<>>
    OBVIOUS
  <2>2. shown[0] = <<>>
    BY <1>2, <1>7
  <2> QED
    BY <2>1, <2>2
<1>9. ASSUME NEW n \in Nat, n \in T PROVE n + 1 \in T
  <2> DEFINE m == n + 1
  <2> SUFFICES ASSUME m <= num PROVE shown[m] = [k \in 1 .. m |-> text[k]]
    OBVIOUS
  <2>1. m \in 0 .. num /\ m \in 1 .. num /\ m # 0 /\ m - 1 = n /\ n <= num
    BY <1>2
  <2> HIDE DEF m
  <2>2. shown[m - 1] = [k \in 1 .. m - 1 |-> text[k]]
    BY <1>9, <2>1
  <2>3. shown[m] = Append(shown[m - 1], text[m])
    BY <1>3, <1>7, <2>1
  <2> QED
    BY <1>4, <2>1, <2>2, <2>3
<1>10. shown[num] = [k \in 1 .. num |-> text[k]]
  <2>1. num \in T
    <3> HIDE DEF T
    <3> QED
      BY <1>2, <1>8, <1>9, Induct
  <2> QED
    BY <1>2, <2>1
<1>11. text = [k \in 1 .. num |-> text[k]]
  <2>1. text \in [1 .. Len(text) -> STRING \ {NUL}]
    BY <1>2, LenProperties
  <2> QED
    BY <2>1
<1> QED
  BY <1>1, <1>10, <1>11 DEF text

\* snprintf() into a buffer of any size, and into none.
LEMMA SnprintfHolds ==
    ASSUME NEW f, NEW args, Output(f, args) \in Seq(STRING \ {NUL}), NEW count \in Nat,
           NEW n \in Nat, count <= n + 1
    PROVE  Holds(kernel_snprintf(Buffer(n), count, f, args), Output(f, args), count)
<1> DEFINE text == Output(f, args)
           num == Len(text)
           buffer == Buffer(n)
           stored == Filled(text, buffer, count, num)
           end == IF num < count THEN num ELSE count - 1
           kept == Min({num, count - 1})
           answer == kernel_snprintf(buffer, count, f, args)
<1>1. num \in Nat
  BY LenProperties
<1>2. buffer \in [0 .. n + 1 -> STRING] /\ buffer # NoBuffer
      /\ \A k \in 0 .. n + 1 : buffer[k] = "old"
  <2>1. buffer = [k \in 0 .. n + 1 |-> "old"]
    BY DEF Buffer
  <2>2. DOMAIN buffer = 0 .. n + 1
    BY <2>1
  <2>3. DOMAIN NoBuffer # 0 .. n + 1
    BY DEF NoBuffer
  <2> QED
    BY <2>1, <2>2, <2>3
<1> HIDE DEF text, num, buffer, end, kept, answer
<1>3. Store(text, buffer, count) = stored
  <2>1. n + 1 \in Nat /\ Len(text) \in Nat
    BY <1>1 DEF num
  <2>2. Store(text, buffer, count) = Filled(text, buffer, count, Len(text))
    BY <1>2, <2>1, StoreIs
  <2> QED
    BY <2>2 DEF num
<1>4. kept = IF num <= count - 1 THEN num ELSE count - 1
  BY <1>1, SmallerOfTwo DEF kept
<1>5. IF num < count THEN answer.ret = num ELSE answer.ret >= count
  <2>1. answer.ret = num
    BY Zenon DEF kernel_snprintf, answer, num, text
  <2> QED
    BY <1>1, <2>1
<1>6. answer.buffer = IF count = 0 THEN stored ELSE out_buffer("NUL", stored, end, count)
  <2>1. answer.buffer = IF buffer = NoBuffer \/ count = 0
                        THEN IF buffer = NoBuffer THEN NoBuffer ELSE Store(text, buffer, count)
                        ELSE out_buffer("NUL", IF buffer = NoBuffer THEN NoBuffer
                                               ELSE Store(text, buffer, count), end, count)
    BY Zenon DEF kernel_snprintf, answer, end, num, text
  <2> HIDE DEF stored
  <2> QED
    BY <1>2, <1>3, <2>1
<1>7. /\ DOMAIN stored = 0 .. n + 1
      /\ \A k \in 0 .. n + 1 : stored[k] = IF k < num /\ k < count THEN text[k + 1] ELSE "old"
  BY <1>2 DEF Filled
<1> HIDE DEF stored
<1>8. ASSUME NEW k \in DOMAIN answer.buffer
      PROVE  answer.buffer[k] = IF k < kept THEN text[k + 1]
                                ELSE IF k = kept THEN "NUL" ELSE "old"
  <2>1. CASE count = 0
    <3>1. answer.buffer = stored /\ k \in 0 .. n + 1
      BY <1>6, <1>7, <2>1
    <3>2. ~(k < kept) /\ k # kept /\ ~(k < count)
      BY <1>1, <1>4, <2>1, <3>1
    <3> QED
      BY <1>7, <3>1, <3>2
  <2>2. CASE count # 0
    <3>1. end < count /\ end = kept /\ end \in 0 .. n + 1
      BY <1>1, <1>4, <2>2 DEF end
    <3>2. answer.buffer = [stored EXCEPT ![end] = "NUL"]
      BY <1>6, <2>2, <3>1 DEF out_buffer
    <3>3. k \in 0 .. n + 1 /\ answer.buffer[k] = IF k = end THEN "NUL" ELSE stored[k]
      BY <1>7, <3>1, <3>2
    <3>4. k < num /\ k < count /\ k # end <=> k < kept
      BY <1>1, <1>4, <2>2, <3>1, <3>3
    <3>5. k = end => ~(k < kept)
      BY <1>1, <3>1
    <3> QED
      BY <1>7, <3>1, <3>3, <3>4, <3>5
  <2> QED
    BY <2>1, <2>2
<1>9. Holds(answer, text, count)
  BY <1>5, <1>8, Zenon DEF Holds, kept, num
<1> QED
  BY <1>9 DEF answer, text, buffer

\* snprintf(), and the other ways into printf, keep to their buffers, whatever is
\* printed and however small the buffer.
THEOREM BuffersHold == Spec => []BufferKept
<1>1. Answered => BufferKept
  <2> SUFFICES ASSUME Answered, call.fn = "printf"
               PROVE  /\ Holds(call.stored, call.shown, call.count)
                      /\ Holds(call.whole, call.shown, Len(call.shown) + 1)
                      /\ Holds(call.counted, call.shown, call.count)
                      /\ call.passed = Append(call.shown, "NUL")
    BY DEF BufferKept
  <2>1. PICK k \in 1 .. Len(Prints) : \E p \in Prints[k] : \E count \in Counts :
               /\ call.count = count
               /\ call.shown = kprintf(p.format, p.args)
               /\ call.passed = kernel_fctprintf(p.format, p.args)
               /\ call.counted = kernel_snprintf(NoBuffer, count, p.format, p.args)
               /\ call.whole = kernel_sprintf(Buffer(Len(call.shown)), p.format, p.args)
               /\ call.stored = kernel_snprintf(Buffer(count), count, p.format, p.args)
    BY DEF Answered
  <2>2. PICK p \in Prints[k], count \in Counts :
               /\ call.count = count
               /\ call.shown = kprintf(p.format, p.args)
               /\ call.passed = kernel_fctprintf(p.format, p.args)
               /\ call.counted = kernel_snprintf(NoBuffer, count, p.format, p.args)
               /\ call.whole = kernel_sprintf(Buffer(Len(call.shown)), p.format, p.args)
               /\ call.stored = kernel_snprintf(Buffer(count), count, p.format, p.args)
    BY <2>1
  <2> DEFINE text == Output(p.format, p.args)
  <2>3. text \in Seq(STRING \ {NUL}) /\ count \in Nat
    BY LibraryAssumption
  <2>4. call.shown = text
    BY <2>2, <2>3, ShownWhole
  <2>5. Len(text) \in Nat
    BY <2>3, LenProperties
  <2>6. Holds(call.stored, call.shown, call.count)
    BY <2>2, <2>3, <2>4, SnprintfHolds
  <2>7. Holds(call.whole, call.shown, Len(call.shown) + 1)
    <3>1. call.whole = kernel_snprintf(Buffer(Len(text)), Len(text) + 1, p.format, p.args)
      BY <2>2, <2>4 DEF kernel_sprintf
    <3>2. Len(text) + 1 \in Nat /\ Len(text) + 1 <= Len(text) + 1
      BY <2>5
    <3> QED
      BY <2>3, <2>4, <2>5, <3>1, <3>2, SnprintfHolds
  <2>8. Holds(call.counted, call.shown, call.count)
    <3>1. /\ call.counted.buffer = NoBuffer
          /\ IF Len(text) < count THEN call.counted.ret = Len(text) ELSE call.counted.ret >= count
      <4> DEFINE counted == kernel_snprintf(NoBuffer, count, p.format, p.args)
      <4>1. counted.buffer = NoBuffer /\ counted.ret = Len(text)
        BY DEF kernel_snprintf
      <4>2. call.counted.buffer = NoBuffer /\ call.counted.ret = Len(text)
        BY <2>2, <4>1
      <4> HIDE DEF text
      <4> QED
        BY <2>3, <2>5, <4>2
    <3>2. DOMAIN NoBuffer = {}
      BY DEF NoBuffer
    <3> HIDE DEF text
    <3> QED
      BY <2>2, <2>4, <3>1, <3>2, Zenon DEF Holds
  <2>9. call.passed = Append(call.shown, "NUL")
    BY <2>2, <2>4 DEF kernel_fctprintf
  <2> QED
    BY <2>6, <2>7, <2>8, <2>9
<1> QED
  BY <1>1, AnswersKept, PTL

-----------------------------------------------------------------------------
\* The directories of PATH.
Dirs == Len(PathDirs)
Signs == STRING \cup {":", "/", "=", "P", "A", "T", "H"}

LEMMA DirFacts ==
    /\ Dirs \in Nat \ {0}
    /\ \A k \in 1 .. Dirs :
           /\ PathDirs[k] \in Seq(Signs) /\ Len(PathDirs[k]) \in Nat \ {0}
           /\ \A m \in 1 .. Len(PathDirs[k]) : PathDirs[k][m] # NUL /\ PathDirs[k][m] # ":"
<1> DEFINE S == STRING \ {NUL}
<1>1. PathDirs \in Seq(Seq(S)) /\ Len(PathDirs) > 0
  BY SearchAssumption
<1>2. NUL \notin S /\ S \subseteq Signs
  BY DEF Signs
<1> HIDE DEF S
<1>3. Dirs \in Nat \ {0}
  BY <1>1, LenProperties DEF Dirs
<1>4. ASSUME NEW k \in 1 .. Dirs
      PROVE  /\ PathDirs[k] \in Seq(Signs) /\ Len(PathDirs[k]) \in Nat \ {0}
             /\ \A m \in 1 .. Len(PathDirs[k]) : PathDirs[k][m] # NUL /\ PathDirs[k][m] # ":"
  <2> DEFINE d == PathDirs[k]
  <2>1. d \in Seq(S)
    BY <1>1, ElementOfSeq DEF Dirs
  <2>2. Len(d) > 0 /\ \A m \in 1 .. Len(d) : d[m] # ":"
    BY SearchAssumption DEF Dirs
  <2> HIDE DEF d
  <2>3. Len(d) \in Nat /\ d \in [1 .. Len(d) -> S]
    BY <2>1, LenProperties
  <2>4. \A m \in 1 .. Len(d) : d[m] # NUL
    BY <1>2, <2>3
  <2>5. d \in Seq(Signs)
    <3>1. d \in [1 .. Len(d) -> Signs]
      BY <1>2, <2>3
    <3> QED
      BY <2>3, <3>1
  <2> QED
    BY <2>2, <2>3, <2>4, <2>5 DEF d
<1> QED
  BY <1>3, <1>4

LEMMA ColonsAre ==
    /\ Colons[1] = PathDirs[1]
    /\ \A k \in 1 .. Dirs - 1 : Colons[k + 1] = Colons[k] \o <<":">> \o PathDirs[k + 1]
    /\ \A k \in 1 .. Dirs : Colons[k] \in Seq(Signs)
<1> DEFINE A == Seq(Signs)
           base == PathDirs[1]
           step == [k \in Nat |-> [t \in A |-> IF k \in 1 .. Dirs - 1
                                               THEN t \o <<":">> \o PathDirs[k + 1] ELSE t]]
           Loop(f) == f = [k \in 1 .. Dirs |->
                IF k = 1 THEN PathDirs[1] ELSE f[k - 1] \o <<":">> \o PathDirs[k]]
<1>1. Dirs \in Nat /\ 1 \in 1 .. Dirs /\ Dirs - 1 \in Nat /\ base \in A
  BY DirFacts
<1>2. <<":">> \in A
  BY DEF Signs
<1> HIDE DEF A
<1>3. ASSUME NEW t \in A, NEW k \in 1 .. Dirs PROVE t \o <<":">> \o PathDirs[k] \in A
  <2>1. PathDirs[k] \in A
    BY DirFacts DEF A
  <2>2. t \o <<":">> \in A
    BY <1>2, ConcatProperties DEF A
  <2> QED
    BY <2>1, <2>2, ConcatProperties DEF A
<1>4. \A k \in Nat : step[k] \in [A -> A]
  <2> SUFFICES ASSUME NEW k \in Nat
               PROVE  [t \in A |-> IF k \in 1 .. Dirs - 1
                                   THEN t \o <<":">> \o PathDirs[k + 1] ELSE t] \in [A -> A]
    BY Zenon
  <2>1. k \in 1 .. Dirs - 1 => k + 1 \in 1 .. Dirs
    BY <1>1
  <2>2. \A t \in A : (IF k \in 1 .. Dirs - 1 THEN t \o <<":">> \o PathDirs[k + 1] ELSE t) \in A
    BY <1>3, <2>1
  <2> QED
    BY <2>2, Zenon
<1>5. \A k \in Nat : \A t \in A :
          step[k][t] = IF k \in 1 .. Dirs - 1 THEN t \o <<":">> \o PathDirs[k + 1] ELSE t
  BY Zenon
<1> HIDE DEF step, base
<1>6. PICK g \in [0 .. Dirs - 1 -> A] :
          g[0] = base /\ \A k \in 1 .. Dirs - 1 : g[k] = step[k][g[k - 1]]
  <2>1. Histories(A, base, step, Dirs - 1) # {}
    BY <1>1, <1>4, Iterates
  <2> QED
    BY <2>1 DEF Histories
<1>7. ASSUME NEW k \in 1 .. Dirs - 1 PROVE g[k] = g[k - 1] \o <<":">> \o PathDirs[k + 1]
  <2>1. k \in Nat /\ k - 1 \in 0 .. Dirs - 1
    BY <1>1
  <2>2. g[k - 1] \in A
    BY <2>1
  <2>3. step[k][g[k - 1]] = g[k - 1] \o <<":">> \o PathDirs[k + 1]
    BY <1>5, <2>1, <2>2, Zenon
  <2> QED
    BY <1>6, <2>3, Zenon
<1> DEFINE h == [k \in 1 .. Dirs |-> g[k - 1]]
<1>8. Loop(h)
  <2> SUFFICES ASSUME NEW k \in 1 .. Dirs
               PROVE  g[k - 1] = IF k = 1 THEN PathDirs[1] ELSE h[k - 1] \o <<":">> \o PathDirs[k]
    BY Zenon
  <2>1. CASE k = 1
    BY <1>6, <2>1 DEF base
  <2>2. CASE k # 1
    <3> DEFINE m == k - 1
    <3>1. m \in 1 .. Dirs - 1 /\ m \in 1 .. Dirs /\ m + 1 = k
      BY <1>1, <2>2
    <3> HIDE DEF m
    <3>2. g[m] = g[m - 1] \o <<":">> \o PathDirs[m + 1]
      BY <1>7, <3>1
    <3>3. h[m] = g[m - 1]
      BY <3>1, Zenon
    <3> HIDE DEF h
    <3>4. g[m] = h[m] \o <<":">> \o PathDirs[k]
      BY <3>1, <3>2, <3>3, Zenon
    <3> QED
      BY <2>2, <3>4, Zenon DEF m
  <2> QED
    BY <2>1, <2>2
<1>9. Colons = CHOOSE f : Loop(f)
  BY Zenon DEF Colons, Dirs
<1>10. Loop(Colons)
  <2> HIDE DEF Loop, h
  <2> QED
    BY <1>8, <1>9, Zenon
<1>11. \A k \in 1 .. Dirs :
           Colons[k] = IF k = 1 THEN PathDirs[1] ELSE Colons[k - 1] \o <<":">> \o PathDirs[k]
  BY <1>10, Zenon
<1>12. Colons[1] = PathDirs[1]
  BY <1>1, <1>11
<1>13. ASSUME NEW k \in 1 .. Dirs - 1
       PROVE  Colons[k + 1] = Colons[k] \o <<":">> \o PathDirs[k + 1]
  <2>1. k + 1 \in 1 .. Dirs /\ k + 1 # 1 /\ (k + 1) - 1 = k
    BY <1>1
  <2>2. Colons[k + 1] = Colons[(k + 1) - 1] \o <<":">> \o PathDirs[k + 1]
    BY <1>11, <2>1, Zenon
  <2> QED
    BY <2>1, <2>2, Zenon
<1> DEFINE T == {n \in Nat : n < Dirs => Colons[n + 1] \in A}
<1>14. 0 \in T
  BY <1>1, <1>12 DEF base
<1>15. ASSUME NEW n \in Nat, n \in T PROVE n + 1 \in T
  <2> DEFINE k == n + 1
  <2> SUFFICES ASSUME k < Dirs PROVE Colons[k + 1] \in A
    OBVIOUS
  <2>1. k \in 1 .. Dirs - 1 /\ k + 1 \in 1 .. Dirs /\ n < Dirs
    BY <1>1
  <2>2. Colons[k] \in A
    BY <1>15, <2>1
  <2> HIDE DEF k
  <2>3. Colons[k] \o <<":">> \o PathDirs[k + 1] \in A
    BY <1>3, <2>1, <2>2
  <2> QED
    BY <1>13, <2>1, <2>3
<1>16. \A n \in Nat : n \in T
  <2> HIDE DEF T
  <2> QED
    BY <1>14, <1>15, Induct
<1>17. ASSUME NEW k \in 1 .. Dirs PROVE Colons[k] \in A
  <2>1. k - 1 \in Nat /\ k - 1 < Dirs /\ (k - 1) + 1 = k
    BY <1>1
  <2> QED
    BY <1>16, <2>1
<1> QED
  BY <1>12, <1>13, <1>17 DEF A

\* Where the directories are in the value of PATH.
Here(n) == IF n = 0 THEN 0 ELSE Len(Colons[n]) + 1

LEMMA JoinedByColon ==
    ASSUME NEW k \in 1 .. Dirs - 1
    PROVE  /\ Len(Colons[k]) \in Nat /\ Here(k) = Len(Colons[k]) + 1
           /\ Here(k + 1) = Here(k) + Len(PathDirs[k + 1]) + 1
           /\ \A p \in 1 .. Here(k) - 1 : Colons[k + 1][p] = Colons[k][p]
           /\ Colons[k + 1][Here(k)] = ":"
           /\ \A m \in 1 .. Len(PathDirs[k + 1]) : Colons[k + 1][Here(k) + m] = PathDirs[k + 1][m]
<1> DEFINE t == Colons[k]
           d == PathDirs[k + 1]
           b == <<":">>
<1>1. /\ k \in 1 .. Dirs /\ k + 1 \in 1 .. Dirs /\ k \in Nat /\ k # 0 /\ k + 1 # 0
  BY DirFacts
<1>2. /\ t \in Seq(Signs) /\ Len(t) \in Nat
      /\ d \in Seq(Signs) /\ Len(d) \in Nat
      /\ Colons[k + 1] = t \o b \o d
  BY <1>1, DirFacts, ColonsAre, LenProperties
<1>3. b \in Seq(Signs) /\ Len(b) = 1 /\ b[1] = ":"
  BY DEF Signs
<1> HIDE DEF t, d, b
<1>4. /\ t \o b \in Seq(Signs) /\ Len(t \o b) = Len(t) + 1
      /\ \A p \in 1 .. Len(t) + 1 :
             (t \o b)[p] = IF p <= Len(t) THEN t[p] ELSE b[p - Len(t)]
  <2>1. /\ t \o b \in Seq(Signs) /\ Len(t \o b) = Len(t) + Len(b)
        /\ \A p \in 1 .. Len(t) + Len(b) :
               (t \o b)[p] = IF p <= Len(t) THEN t[p] ELSE b[p - Len(t)]
    BY <1>2, <1>3, ConcatProperties, Zenon
  <2> QED
    BY <1>3, <2>1
<1>5. /\ Len(t \o b \o d) = Len(t) + 1 + Len(d)
      /\ \A p \in 1 .. Len(t) + 1 + Len(d) :
             (t \o b \o d)[p] = IF p <= Len(t) + 1 THEN (t \o b)[p] ELSE d[p - (Len(t) + 1)]
  <2> DEFINE s == t \o b
  <2>1. s \in Seq(Signs) /\ Len(s) = Len(t) + 1
    BY <1>4
  <2> HIDE DEF s
  <2>2. /\ Len(s \o d) = Len(s) + Len(d)
        /\ \A p \in 1 .. Len(s) + Len(d) :
               (s \o d)[p] = IF p <= Len(s) THEN s[p] ELSE d[p - Len(s)]
    BY <1>2, <2>1, ConcatProperties, Zenon
  <2> QED
    BY <2>1, <2>2, Zenon DEF s
<1>6. Here(k) = Len(t) + 1 /\ Here(k + 1) = Here(k) + Len(d) + 1
  BY <1>1, <1>2, <1>5 DEF Here, t
<1>7. ASSUME NEW p \in 1 .. Here(k) - 1 PROVE (t \o b \o d)[p] = t[p]
  <2>1. p \in 1 .. Len(t) + 1 + Len(d) /\ p \in 1 .. Len(t) + 1 /\ p <= Len(t) + 1 /\ p <= Len(t)
    BY <1>2, <1>6
  <2> QED
    BY <1>4, <1>5, <2>1
<1>8. (t \o b \o d)[Len(t) + 1] = ":"
  <2> DEFINE p == Len(t) + 1
  <2>1. p \in 1 .. Len(t) + 1 + Len(d) /\ p \in 1 .. Len(t) + 1 /\ p <= Len(t) + 1
        /\ ~(p <= Len(t)) /\ p - Len(t) = 1
    BY <1>2
  <2> HIDE DEF p
  <2>2. (t \o b \o d)[p] = ":"
    BY <1>3, <1>4, <1>5, <2>1
  <2> QED
    BY <2>2 DEF p
<1>9. ASSUME NEW m \in 1 .. Len(d) PROVE (t \o b \o d)[Here(k) + m] = d[m]
  <2> DEFINE p == Here(k) + m
  <2>1. p \in 1 .. Len(t) + 1 + Len(d) /\ ~(p <= Len(t) + 1) /\ p - (Len(t) + 1) = m
    BY <1>2, <1>6
  <2> HIDE DEF p
  <2>2. (t \o b \o d)[p] = d[m]
    BY <1>5, <2>1
  <2> QED
    BY <2>2 DEF p
<1> QED
  BY <1>2, <1>6, <1>7, <1>8, <1>9 DEF t, d

Placing(l) ==
    \A n \in 0 .. l - 1 :
        /\ Here(n) \in Nat /\ n <= Here(n)
        /\ Here(n + 1) = Here(n) + Len(PathDirs[n + 1]) + 1 /\ Here(n + 1) <= Here(l)
        /\ \A m \in 1 .. Len(PathDirs[n + 1]) : Colons[l][Here(n) + m] = PathDirs[n + 1][m]
        /\ n + 1 < l => Here(n + 1) < Here(l) /\ Colons[l][Here(n + 1)] = ":"

LEMMA PlacingIs == Placing(Dirs) /\ Len(Colons[Dirs]) = Here(Dirs) - 1
<1>1. Dirs \in Nat /\ 1 <= Dirs
  BY DirFacts
<1>2. \A k \in 1 .. Dirs : Len(PathDirs[k]) \in Nat /\ 1 <= Len(PathDirs[k])
  BY DirFacts
<1>3. \A k \in 1 .. Dirs : Here(k) = Len(Colons[k]) + 1 /\ Len(Colons[k]) \in Nat
  <2> SUFFICES ASSUME NEW k \in 1 .. Dirs
               PROVE  Here(k) = Len(Colons[k]) + 1 /\ Len(Colons[k]) \in Nat
    OBVIOUS
  <2>1. Colons[k] \in Seq(Signs) /\ k # 0
    BY <1>1, ColonsAre
  <2> QED
    BY <2>1, LenProperties DEF Here
<1> DEFINE T == {l \in Nat : l + 1 <= Dirs => Placing(l + 1)}
<1>4. 0 \in T
  <2>1. Here(0) = 0 /\ Here(1) = Len(PathDirs[1]) + 1 /\ Colons[1] = PathDirs[1]
    BY <1>1, <1>3, ColonsAre DEF Here
  <2>2. \A n \in 0 .. (0 + 1) - 1 : n = 0
    OBVIOUS
  <2>3. 1 \in 1 .. Dirs
    BY <1>1
  <2>4. Len(PathDirs[1]) \in Nat
    BY <1>2, <2>3
  <2>5. \A m \in 1 .. Len(PathDirs[1]) : 0 + m = m
    OBVIOUS
  <2>6. Placing(1)
    <3> SUFFICES ASSUME NEW n \in 0 .. 1 - 1
                 PROVE  /\ Here(n) \in Nat /\ n <= Here(n)
                        /\ Here(n + 1) = Here(n) + Len(PathDirs[n + 1]) + 1 /\ Here(n + 1) <= Here(1)
                        /\ \A m \in 1 .. Len(PathDirs[n + 1]) :
                               Colons[1][Here(n) + m] = PathDirs[n + 1][m]
                        /\ n + 1 < 1 => Here(n + 1) < Here(1) /\ Colons[1][Here(n + 1)] = ":"
      BY DEF Placing
    <3>1. n = 0 /\ n + 1 = 1 /\ ~(n + 1 < 1)
      OBVIOUS
    <3> QED
      BY <2>1, <2>4, <2>5, <3>1
  <2> QED
    BY <2>6
<1>5. ASSUME NEW j \in Nat, j \in T PROVE j + 1 \in T
  <2> DEFINE l == j + 1
  <2> SUFFICES ASSUME l + 1 <= Dirs PROVE Placing(l + 1)
    OBVIOUS
  <2>1. l \in 1 .. Dirs - 1 /\ l \in 1 .. Dirs /\ l + 1 \in 1 .. Dirs /\ l <= Dirs
        /\ l \in Nat /\ 1 <= l
    BY <1>1
  <2>2. Placing(l)
    BY <1>5, <2>1
  <2> HIDE DEF l
  <2>3. /\ Len(Colons[l]) \in Nat /\ Here(l) = Len(Colons[l]) + 1
        /\ Here(l + 1) = Here(l) + Len(PathDirs[l + 1]) + 1
        /\ \A p \in 1 .. Here(l) - 1 : Colons[l + 1][p] = Colons[l][p]
        /\ Colons[l + 1][Here(l)] = ":"
        /\ \A m \in 1 .. Len(PathDirs[l + 1]) : Colons[l + 1][Here(l) + m] = PathDirs[l + 1][m]
    BY <2>1, JoinedByColon
  <2>4. ASSUME NEW n \in 0 .. (l + 1) - 1
        PROVE  /\ Here(n) \in Nat /\ n <= Here(n)
               /\ Here(n + 1) = Here(n) + Len(PathDirs[n + 1]) + 1 /\ Here(n + 1) <= Here(l + 1)
               /\ \A m \in 1 .. Len(PathDirs[n + 1]) :
                      Colons[l + 1][Here(n) + m] = PathDirs[n + 1][m]
               /\ n + 1 < l + 1 => Here(n + 1) < Here(l + 1) /\ Colons[l + 1][Here(n + 1)] = ":"
    <3>1. Len(PathDirs[l + 1]) \in Nat /\ Here(l) \in Nat /\ Here(l) < Here(l + 1)
          /\ Here(l + 1) \in Nat
      <4>1. Len(PathDirs[l + 1]) \in Nat
        BY <1>2, <2>1, Zenon
      <4>2. Here(l) \in Nat
        BY <2>3
      <4>3. Here(l + 1) = Here(l) + Len(PathDirs[l + 1]) + 1
        BY <2>3, Zenon
      <4> QED
        BY <4>1, <4>2, <4>3
    <3>2. CASE n = l
      <4>1. l - 1 \in 0 .. l - 1 /\ (l - 1) + 1 = l
        BY <2>1
      <4>2. Here(l - 1) \in Nat /\ l - 1 <= Here(l - 1)
            /\ Here(l) = Here(l - 1) + Len(PathDirs[l]) + 1
        BY <2>2, <4>1 DEF Placing
      <4>3. l <= Here(l)
        BY <1>2, <2>1, <4>2
      <4>4. ~(n + 1 < l + 1) /\ Here(l + 1) <= Here(l + 1)
        BY <3>1, <3>2, <2>1
      <4> QED
        BY <2>3, <3>1, <3>2, <4>3, <4>4
    <3>3. CASE n # l
      <4>1. n \in 0 .. l - 1 /\ n + 1 \in 1 .. Dirs /\ n + 1 <= l
        BY <1>1, <2>1, <3>3
      <4>2. /\ Here(n) \in Nat /\ n <= Here(n)
            /\ Here(n + 1) = Here(n) + Len(PathDirs[n + 1]) + 1 /\ Here(n + 1) <= Here(l)
            /\ \A m \in 1 .. Len(PathDirs[n + 1]) : Colons[l][Here(n) + m] = PathDirs[n + 1][m]
            /\ n + 1 < l => Here(n + 1) < Here(l) /\ Colons[l][Here(n + 1)] = ":"
        BY <2>2, <4>1 DEF Placing
      <4>3. Len(PathDirs[n + 1]) \in Nat /\ Here(n + 1) \in Nat /\ 1 <= Here(n + 1)
        BY <1>2, <4>1, <4>2
      <4>4. Here(n + 1) < Here(l + 1)
        BY <3>1, <4>2, <4>3
      <4>5. ASSUME NEW m \in 1 .. Len(PathDirs[n + 1])
            PROVE  Colons[l + 1][Here(n) + m] = PathDirs[n + 1][m]
        <5>1. Here(n) + m \in 1 .. Here(l) - 1
          BY <3>1, <4>2, <4>3
        <5> QED
          BY <2>3, <4>2, <5>1
      <4>6. Colons[l + 1][Here(n + 1)] = ":"
        <5>1. CASE n + 1 = l
          BY <2>3, <5>1
        <5>2. CASE n + 1 # l
          <6>1. n + 1 < l
            BY <4>1, <5>2, <2>1
          <6>2. Here(n + 1) \in 1 .. Here(l) - 1
            BY <3>1, <4>2, <4>3, <6>1
          <6> QED
            BY <2>3, <4>2, <6>1, <6>2
        <5> QED
          BY <5>1, <5>2
      <4>7. Here(n + 1) <= Here(l + 1)
        BY <3>1, <4>3, <4>4
      <4> QED
        BY <4>2, <4>4, <4>5, <4>6, <4>7
    <3> QED
      BY <3>2, <3>3
  <2> QED
    BY <2>4 DEF Placing
<1>6. Placing(Dirs)
  <2>1. Dirs - 1 \in Nat /\ (Dirs - 1) + 1 = Dirs /\ Dirs <= Dirs
    BY <1>1
  <2>2. Dirs - 1 \in T
    <3> HIDE DEF T
    <3> QED
      BY <1>4, <1>5, <2>1, Induct
  <2> QED
    BY <2>1, <2>2
<1>7. Dirs \in 1 .. Dirs
  BY <1>1
<1> QED
  BY <1>3, <1>6, <1>7

\* The string of PATH among the others.
PathIs(j) ==
    /\ j \in 1 .. Puts /\ PATH \in Seq(STRING \ {NUL}) /\ Len(PATH) = 4
    /\ Value(PATH) = Starts[j] + 5
    /\ Size(j) = 5 + Len(Colons[Dirs]) /\ Len(Colons[Dirs]) \in Nat
    /\ \A p \in 1 .. Len(Colons[Dirs]) : BootStrings[j][5 + p] = Colons[Dirs][p]
    /\ \A k \in j + 1 .. Puts : \A m \in 1 .. Size(k) : BootStrings[k][m] # ":"

LEMMA PathFound == \E j \in 1 .. Puts : PathIs(j)
<1> DEFINE S == STRING \ {NUL}
           t == Colons[Dirs]
           b == <<"=">>
<1>1. PICK j \in Definitions(PATH) :
           /\ BootStrings[j] = PATH \o b \o t
           /\ \A k \in Definitions(PATH) : j <= k
           /\ \A k \in j + 1 .. Len(BootStrings) :
                  \A m \in 1 .. Len(BootStrings[k]) : BootStrings[k][m] # ":"
  BY SearchAssumption DEF Dirs
<1> DEFINE s == BootStrings[j]
<1>2. /\ j \in 1 .. Puts /\ Puts \in Nat /\ s \in Seq(S) /\ Size(j) = Len(s)
      /\ Definitions(PATH) \subseteq 1 .. Puts
  BY BootFacts DEF Definitions, Puts, Size
<1>3. t \in Seq(Signs) /\ Len(t) \in Nat
  <2>1. Dirs \in 1 .. Dirs
    BY DirFacts
  <2> QED
    BY <2>1, ColonsAre, LenProperties
<1>4. b \in Seq(Signs) /\ Len(b) = 1 /\ b[1] = "="
  BY DEF Signs
<1>5. /\ PATH \in Seq(Signs) /\ Len(PATH) = 4
      /\ PATH[1] = "P" /\ PATH[2] = "A" /\ PATH[3] = "T" /\ PATH[4] = "H"
  <2>1. "P" \in Signs /\ "A" \in Signs /\ "T" \in Signs /\ "H" \in Signs
    BY DEF Signs
  <2> QED
    BY <2>1 DEF PATH
<1> HIDE DEF t, b, s, S
<1> DEFINE head == PATH \o b
<1>6. /\ head \in Seq(Signs) /\ Len(head) = 5
      /\ \A p \in 1 .. 4 : head[p] = PATH[p]
  <2>1. /\ head \in Seq(Signs) /\ Len(head) = Len(PATH) + Len(b)
        /\ \A p \in 1 .. Len(PATH) + Len(b) :
               head[p] = IF p <= Len(PATH) THEN PATH[p] ELSE b[p - Len(PATH)]
    BY <1>4, <1>5, ConcatProperties, Zenon
  <2> HIDE DEF head
  <2> QED
    BY <1>4, <1>5, <2>1
<1> HIDE DEF head
<1>7. /\ Len(head \o t) = 5 + Len(t)
      /\ \A p \in 1 .. 5 + Len(t) :
             (head \o t)[p] = IF p <= 5 THEN head[p] ELSE t[p - 5]
  <2>1. /\ Len(head \o t) = Len(head) + Len(t)
        /\ \A p \in 1 .. Len(head) + Len(t) :
               (head \o t)[p] = IF p <= Len(head) THEN head[p] ELSE t[p - Len(head)]
    BY <1>3, <1>6, ConcatProperties, Zenon
  <2> QED
    BY <1>6, <2>1
<1>8. s = head \o t
  BY <1>1, Zenon DEF s, head
<1>9. Size(j) = 5 + Len(t)
  BY <1>2, <1>7, <1>8
<1>10. ASSUME NEW p \in 1 .. Len(t) PROVE s[5 + p] = t[p]
  <2>1. 5 + p \in 1 .. 5 + Len(t) /\ ~(5 + p <= 5) /\ (5 + p) - 5 = p
    BY <1>3
  <2> QED
    BY <1>7, <1>8, <2>1
<1>11. PATH \in Seq(S)
  <2>1. \A p \in 1 .. 4 : s[p] = PATH[p]
    <3> SUFFICES ASSUME NEW p \in 1 .. 4 PROVE s[p] = PATH[p]
      OBVIOUS
    <3>1. p \in 1 .. 5 + Len(t) /\ p <= 5
      BY <1>3
    <3> QED
      BY <1>6, <1>7, <1>8, <3>1
  <2>2. \A p \in 1 .. 4 : p \in 1 .. Len(s)
    BY <1>2, <1>3, <1>9
  <2>3. \A p \in 1 .. 4 : PATH[p] \in S
    BY <1>2, <2>1, <2>2, ElementOfSeq
  <2>4. "P" \in S /\ "A" \in S /\ "T" \in S /\ "H" \in S
    BY <1>5, <2>3
  <2> QED
    BY <2>4 DEF PATH
<1>12. Value(PATH) = Starts[j] + 5
  <2>1. Definitions(PATH) # {} /\ Definitions(PATH) \subseteq Int
    BY <1>1, <1>2
  <2>2. Min(Definitions(PATH)) = j
    BY <1>1, <2>1, MinIs
  <2>3. Value(PATH) = Starts[j] + Len(PATH) + 1
    BY <2>1, <2>2 DEF Value
  <2>4. Starts[j] \in Nat
    BY <1>2, StartsGrow
  <2> QED
    BY <1>5, <2>3, <2>4
<1>13. \A k \in j + 1 .. Puts : \A m \in 1 .. Size(k) : BootStrings[k][m] # ":"
  BY <1>1 DEF Puts, Size
<1> QED
  BY <1>2, <1>3, <1>5, <1>9, <1>10, <1>11, <1>12, <1>13 DEF PathIs, s, t, S

\* Every place of the block is in a string, behind one, or behind all.
LEMMA EverySpot ==
    ASSUME NEW o \in Nat, o < Starts[Puts + 1]
    PROVE  \E j \in 1 .. Puts : Starts[j] <= o /\ o <= Starts[j] + Size(j)
<1> DEFINE T == {n \in Nat : n <= Puts =>
                     \/ Starts[n + 1] <= o
                     \/ \E j \in 1 .. n : Starts[j] <= o /\ o <= Starts[j] + Size(j)}
<1>1. Puts \in Nat /\ \A j \in 1 .. Puts : Size(j) \in Nat
  BY BootFacts
<1>2. /\ Starts[1] = 0 /\ \A j \in 1 .. Puts : Starts[j + 1] = Starts[j] + Size(j) + 1
      /\ \A j \in 1 .. Puts + 1 : Starts[j] \in Nat
  BY StartsAre, StartsGrow
<1>3. 0 \in T
  BY <1>2
<1>4. ASSUME NEW n \in Nat, n \in T PROVE n + 1 \in T
  <2> DEFINE k == n + 1
  <2> SUFFICES ASSUME k <= Puts
               PROVE  \/ Starts[k + 1] <= o
                      \/ \E j \in 1 .. k : Starts[j] <= o /\ o <= Starts[j] + Size(j)
    OBVIOUS
  <2>1. k \in 1 .. Puts /\ k + 1 \in 1 .. Puts + 1 /\ k \in 1 .. Puts + 1 /\ n <= Puts
        /\ k \in 1 .. k /\ \A j \in 1 .. n : j \in 1 .. k
    BY <1>1
  <2>2. \/ Starts[k] <= o
        \/ \E j \in 1 .. n : Starts[j] <= o /\ o <= Starts[j] + Size(j)
    BY <1>4, <2>1
  <2> HIDE DEF k
  <2>3. CASE Starts[k] <= o
    <3>1. Starts[k + 1] = Starts[k] + Size(k) + 1 /\ Starts[k] \in Nat /\ Size(k) \in Nat
      BY <1>1, <1>2, <2>1
    <3>2. Starts[k + 1] <= o \/ o <= Starts[k] + Size(k)
      BY <3>1
    <3> QED
      BY <2>1, <2>3, <3>2
  <2>4. CASE \E j \in 1 .. n : Starts[j] <= o /\ o <= Starts[j] + Size(j)
    BY <2>1, <2>4
  <2> QED
    BY <2>2, <2>3, <2>4
<1>5. Puts \in T
  <2> HIDE DEF T
  <2> QED
    BY <1>1, <1>3, <1>4, Induct
<1>6. ~(Starts[Puts + 1] <= o)
  BY <1>1, <1>2
<1> QED
  BY <1>1, <1>5, <1>6

\* What kgetenv() returns for PATH, and what is there: the directories with colons
\* between them, a NUL, and no colon behind it.
PathAt(v) ==
    /\ v \in Nat /\ kgetenv(PATH) = v
    /\ StrLen(v) = Here(Dirs) - 1 /\ Here(Dirs) \in Nat /\ Here(Dirs) <= MAX_ENVIRON
    /\ \A p \in 1 .. Here(Dirs) - 1 : At(v + p - 1) = Colons[Dirs][p]
    /\ At(v + Here(Dirs) - 1) = NUL
    /\ \A o \in Nat : o >= v + Here(Dirs) - 1 => At(o) # ":"

LEMMA ValueOfPath == Laid(Puts) => \E v : PathAt(v)
<1> SUFFICES ASSUME Laid(Puts) PROVE \E v : PathAt(v)
  OBVIOUS
<1>1. PICK j \in 1 .. Puts : PathIs(j)
  BY PathFound
<1> DEFINE from == Starts[j]
           size == Size(j)
           pl == Len(Colons[Dirs])
           v == from + 5
<1>2. /\ PATH \in Seq(STRING \ {NUL}) /\ Value(PATH) = v
      /\ size = 5 + pl /\ pl \in Nat
      /\ \A p \in 1 .. pl : BootStrings[j][5 + p] = Colons[Dirs][p]
      /\ \A k \in j + 1 .. Puts : \A m \in 1 .. Size(k) : BootStrings[k][m] # ":"
  BY <1>1 DEF PathIs
<1>3. /\ Puts \in Nat /\ MAX_ENVIRON \in Nat
      /\ from \in Nat /\ size \in Nat /\ from + size + 1 <= Starts[Puts + 1]
      /\ Starts[Puts + 1] \in Nat /\ Starts[Puts + 1] < MAX_ENVIRON - 1
  <2>1. j \in 1 .. Puts + 1 /\ Puts + 1 \in 1 .. Puts + 1 /\ j < Puts + 1 /\ size \in Nat
        /\ Puts \in Nat
    BY BootFacts
  <2> QED
    BY <2>1, StartsGrow, EnvironAssumption
<1>4. v = from + 5 /\ size = 5 + pl /\ pl \in Nat /\ from \in Nat /\ v + pl = from + size
  <2>1. size = 5 + pl /\ pl \in Nat /\ from \in Nat
    BY <1>2, <1>3
  <2> HIDE DEF from, size, pl
  <2> QED
    BY <2>1
<1>5. kgetenv(PATH) = v /\ StrLen(v) = pl
  <2>3. kgetenv(PATH) = v
    BY <1>2, LookedUp
  <2>1. 5 \in 0 .. Size(j)
    BY <1>2
  <2>2. StrLen(from + 5) = size - 5
    BY <2>1, StrLenIs
  <2> HIDE DEF from, size, pl
  <2>4. StrLen(v) = pl
    BY <1>4, <2>2
  <2> QED
    BY <2>3, <2>4
<1>6. Here(Dirs) - 1 = pl /\ Here(Dirs) \in Nat
  <2>1. Here(Dirs) = pl + 1
    <3>1. Dirs # 0
      BY DirFacts
    <3> QED
      BY <3>1 DEF Here
  <2> HIDE DEF pl
  <2> QED
    BY <1>2, <2>1
<1>7. /\ \A m \in 1 .. size : At(from + m - 1) = BootStrings[j][m]
      /\ At(from + size) = NUL
  BY CharsAre
<1>8. ASSUME NEW p \in 1 .. pl PROVE At(v + p - 1) = Colons[Dirs][p]
  <2> HIDE DEF from, size, pl
  <2> HIDE DEF v
  <2>1. 5 + p \in 1 .. size /\ from + (5 + p) - 1 = v + p - 1
    BY <1>4
  <2> QED
    BY <1>2, <1>7, <2>1
<1>9. ASSUME NEW o \in Nat, o >= v + pl PROVE At(o) # ":"
  <2>1. NUL # ":"
    BY DEF NUL
  <2>2. CASE o >= Starts[Puts + 1]
    <3>1. At(o) = NUL
      BY <1>3, <2>2 DEF Laid, At
    <3> QED
      BY <2>1, <3>1
  <2>3. CASE o < Starts[Puts + 1]
    <3>1. PICK k \in 1 .. Puts : Starts[k] <= o /\ o <= Starts[k] + Size(k)
      BY <2>3, EverySpot
    <3>2. Starts[k] \in Nat /\ Size(k) \in Nat
      BY <1>3, BootFacts, StartsGrow
    <3>3. /\ \A m \in 1 .. Size(k) : At(Starts[k] + m - 1) = BootStrings[k][m]
          /\ At(Starts[k] + Size(k)) = NUL
      BY CharsAre
    <3>4. o = Starts[k] + Size(k) \/ k > j
      <4>1. k < j => Starts[k] + Size(k) + 1 <= from
        BY <1>3, StartsGrow
      <4>2. k = j => Starts[k] + Size(k) = from + size
        OBVIOUS
      <4> HIDE DEF from, size, pl
      <4>3. k < j \/ k = j \/ k > j
        OBVIOUS
      <4> QED
        BY <1>4, <1>9, <3>1, <3>2, <4>1, <4>2, <4>3
    <3>5. CASE o = Starts[k] + Size(k)
      BY <2>1, <3>3, <3>5
    <3>6. CASE k > j /\ o # Starts[k] + Size(k)
      <4> DEFINE m == o - Starts[k] + 1
      <4>1. m \in 1 .. Size(k) /\ Starts[k] + m - 1 = o /\ k \in j + 1 .. Puts
        BY <1>3, <3>1, <3>2, <3>6
      <4> HIDE DEF m
      <4> QED
        BY <1>2, <3>3, <4>1
    <3> QED
      BY <3>4, <3>5, <3>6
  <2> QED
    BY <1>3, <2>2, <2>3
<1>10. v \in Nat /\ At(v + pl) = NUL /\ pl + 1 <= MAX_ENVIRON
  <2> HIDE DEF from, size, pl
  <2> QED
    BY <1>3, <1>4, <1>7
<1> HIDE DEF pl, v
<1>11. pl \in Nat /\ v \in Nat
  BY <1>2, <1>10
<1>12. /\ \A p \in 1 .. Here(Dirs) - 1 : At(v + p - 1) = Colons[Dirs][p]
       /\ v + Here(Dirs) - 1 = v + pl
       /\ \A o \in Nat : o >= v + Here(Dirs) - 1 => At(o) # ":"
  BY <1>6, <1>8, <1>9, <1>11
<1> QED
  BY <1>5, <1>6, <1>10, <1>12 DEF PathAt

\* The last character of a string that is no slash: what is cut begins behind it.
LEMMA ChompedAt ==
    ASSUME NEW p \in Seq(Signs), NEW m \in 1 .. Len(p), p[m] # "/",
           \A k \in m + 1 .. Len(p) : p[k] = "/"
    PROVE  Chomped(p) = SubSeq(p, 1, m)
<1>1. Len(p) \in Nat
  BY LenProperties
<1>2. CASE Len(p) <= 1
  <2>1. m = Len(p)
    BY <1>1, <1>2
  <2>2. SubSeq(p, 1, Len(p)) = p
    BY SubSeqFull
  <2>3. Chomped(p) = p
    BY <1>2, Zenon DEF Chomped
  <2> QED
    BY <2>1, <2>2, <2>3
<1>3. CASE ~(Len(p) <= 1)
  <2> DEFINE T == {0} \cup {k \in 1 .. Len(p) : p[k] # "/"}
  <2>1. T \subseteq Int /\ m \in T
    BY <1>1
  <2>2. \A k \in T : k <= m
    <3> SUFFICES ASSUME NEW k \in T, m < k PROVE FALSE
      BY <1>1
    <3>1. k \in m + 1 .. Len(p) /\ p[k] # "/"
      BY <1>1
    <3> QED
      BY <3>1
  <2>3. Chomped(p) = SubSeq(p, 1, Max(T))
    BY <1>3, Zenon DEF Chomped
  <2> HIDE DEF T
  <2> QED
    BY <2>1, <2>2, <2>3, MaxIs
<1> QED
  BY <1>2, <1>3

\* Every string but slashes alone has one.
LEMMA LastNoSlash ==
    ASSUME NEW p \in Seq(Signs), NEW j \in 1 .. Len(p), p[j] # "/"
    PROVE  \E m \in j .. Len(p) : p[m] # "/" /\ \A k \in m + 1 .. Len(p) : p[k] = "/"
<1> DEFINE T == {k \in 0 .. Len(p) - 1 : p[Len(p) - k] # "/"}
<1>1. Len(p) \in Nat
  BY LenProperties
<1>2. Len(p) - j \in T /\ T \subseteq Nat
  <2> DEFINE back == Len(p) - j
  <2>1. Len(p) - back = j /\ back \in 0 .. Len(p) - 1
    BY <1>1
  <2> HIDE DEF back
  <2>2. p[Len(p) - back] # "/"
    BY <2>1
  <2>3. back \in T
    BY <2>1, <2>2
  <2> QED
    BY <1>1, <2>3 DEF back
<1>3. PICK x \in T : \A y \in T : x <= y
  <2> HIDE DEF T
  <2> QED
    BY <1>2, LeastElement
<1> DEFINE m == Len(p) - x
<1>4. m \in j .. Len(p) /\ p[m] # "/" /\ x \in Nat
  <2>1. x \in 0 .. Len(p) - 1 /\ p[Len(p) - x] # "/"
    OBVIOUS
  <2>2. x <= Len(p) - j
    BY <1>2, <1>3
  <2> HIDE DEF T
  <2> QED
    BY <1>1, <2>1, <2>2
<1>5. ASSUME NEW k \in m + 1 .. Len(p) PROVE p[k] = "/"
  <2>1. /\ Len(p) - k \in 0 .. Len(p) - 1 /\ Len(p) - (Len(p) - k) = k
        /\ ~(x <= Len(p) - k)
    BY <1>1, <1>4
  <2> DEFINE y == Len(p) - k
  <2> HIDE DEF y
  <2>2. y \in 0 .. Len(p) - 1 /\ p[Len(p) - y] = p[k] /\ ~(x <= y)
    BY <2>1 DEF y
  <2> QED
    BY <1>3, <2>2
<1> HIDE DEF m
<1> QED
  BY <1>4, <1>5

\* Joining a directory and a command puts one slash between them.
LEMMA JoinedIs ==
    ASSUME NEW d \in Seq(Signs), NEW s \in Seq(Signs), 1 <= Len(d),
           d[1] = "/" => Len(d) > 1 /\ d[2] # "/"
    PROVE  Joined(d, s) = d \o <<"/">> \o s
<1> DEFINE b == <<"/">>
           p == d \o b \o s
           T == {n \in 1 .. Len(p) : \A l \in 1 .. n : p[l] = "/"}
<1>1. Len(d) \in Nat
  BY LenProperties
<1>4. b \in Seq(Signs) /\ Len(b) = 1 /\ SubSeq(b, 1, 1) = b
  <2>1. b \in Seq(Signs) /\ Len(b) = 1
    BY DEF Signs
  <2>2. SubSeq(b, 1, Len(b)) = b
    BY <2>1, SubSeqFull
  <2> HIDE DEF b
  <2> QED
    BY <2>1, <2>2
<1>5. Min({1, Len(b)}) = 1
  BY <1>4, SmallerOfTwo
<1>6. Min({Len(s), Len(s)}) = Len(s) /\ SubSeq(s, 1, Len(s)) = s /\ Len(s) \in Nat
  <2>1. Len(s) \in Nat
    BY LenProperties
  <2> QED
    BY <2>1, SmallerOfTwo, SubSeqFull
<1> HIDE DEF b
<1>7. kernel_strncat(d, b, 1) = d \o b /\ kernel_strncat(d \o b, s, Len(s)) = p
  BY <1>4, <1>5, <1>6, Zenon DEF kernel_strncat
<1>8. /\ d \o b \in Seq(Signs) /\ Len(d \o b) = Len(d) + Len(b)
      /\ \A n \in 1 .. Len(d) + Len(b) :
             (d \o b)[n] = IF n <= Len(d) THEN d[n] ELSE b[n - Len(d)]
  BY <1>1, <1>4, ConcatProperties, Zenon
<1>9. /\ p \in Seq(Signs) /\ Len(p) = Len(d \o b) + Len(s)
      /\ \A n \in 1 .. Len(d \o b) + Len(s) :
             p[n] = IF n <= Len(d \o b) THEN (d \o b)[n] ELSE s[n - Len(d \o b)]
  <2> DEFINE db == d \o b
  <2>1. db \in Seq(Signs) /\ p = db \o s
    BY <1>8, Zenon
  <2> HIDE DEF db, p
  <2>2. /\ db \o s \in Seq(Signs) /\ Len(db \o s) = Len(db) + Len(s)
        /\ \A n \in 1 .. Len(db) + Len(s) :
               (db \o s)[n] = IF n <= Len(db) THEN db[n] ELSE s[n - Len(db)]
    BY <2>1, ConcatProperties, Zenon
  <2> QED
    BY <2>1, <2>2, Zenon DEF db
<1> HIDE DEF p
<1>10. ASSUME NEW n \in 1 .. Len(d) PROVE p[n] = d[n]
  BY <1>1, <1>4, <1>6, <1>8, <1>9
<1>11. \A n \in T : n <= 1
  <2> SUFFICES ASSUME NEW n \in T, n > 1 PROVE FALSE
    BY <1>9, LenProperties
  <2>1. n \in Nat /\ 1 \in 1 .. n /\ 2 \in 1 .. n
    BY <1>9, LenProperties
  <2>2. p[1] = "/" /\ p[2] = "/"
    BY <2>1
  <2>3. d[1] = "/"
    BY <1>1, <1>10, <2>2
  <2>4. 2 \in 1 .. Len(d)
    BY <1>1, <2>3
  <2> QED
    BY <1>10, <2>2, <2>3, <2>4
<1>12. Max({1} \cup T) = 1
  <2>1. {1} \cup T \subseteq Int /\ 1 \in {1} \cup T /\ \A n \in {1} \cup T : n <= 1
    BY <1>9, <1>11, LenProperties
  <2> HIDE DEF T
  <2> QED
    BY <2>1, MaxIs
<1>13. OneSlash(p) = p
  <2>1. OneSlash(p) = SubSeq(p, Max({1} \cup T), Len(p))
    BY Zenon DEF OneSlash, T
  <2> HIDE DEF T
  <2> QED
    BY <1>9, <1>12, <2>1, SubSeqFull
<1> QED
  BY <1>7, <1>13, Zenon DEF Joined, p, b

\* A piece that is cut from the path goes as far as the colon, the last one beyond
\* its NUL, and the buffer holds the directory.
LEMMA SegmentIn ==
    ASSUME NEW p2 \in Nat, NEW pl \in Nat
    PROVE  Segment(p2, pl) \in 0 .. pl
<1> DEFINE T == {n \in 0 .. pl : n = pl \/ At(p2 + n) = ":"}
<1>1. Segment(p2, pl) = Min(T)
  BY Zenon DEF Segment
<1>2. pl \in T /\ T \subseteq 0 .. pl
  OBVIOUS
<1> HIDE DEF T
<1>3. PICK x \in T : \A y \in T : x <= y
  <2>1. T \subseteq Nat /\ T # {}
    BY <1>2
  <2> QED
    BY <2>1, LeastElement
<1>4. T \subseteq Int
  BY <1>2
<1>5. Min(T) = x
  BY <1>3, <1>4, MinIs
<1> QED
  BY <1>1, <1>2, <1>3, <1>5

LEMMA PieceIs ==
    ASSUME NEW v, PathAt(v), NEW n \in 0 .. Dirs - 1
    PROVE  /\ UpToNul(v + Here(n), Segment(v + Here(n), Here(Dirs) - 1)) = PathDirs[n + 1]
           /\ n + 1 < Dirs => Segment(v + Here(n), Here(Dirs) - 1) = Len(PathDirs[n + 1])
           /\ n + 1 = Dirs => Segment(v + Here(n), Here(Dirs) - 1) = Here(Dirs) - 1
<1> DEFINE d == PathDirs[n + 1]
           size == Len(d)
           h == Here(n)
           p2 == v + h
           pl == Here(Dirs) - 1
           seg == Segment(p2, pl)
           T == {m \in 0 .. pl : m = pl \/ At(p2 + m) = ":"}
<1>1. /\ n + 1 \in 1 .. Dirs /\ n \in Nat /\ Dirs \in Nat
      /\ d \in Seq(Signs) /\ size \in Nat /\ 1 <= size
      /\ \A m \in 1 .. size : d[m] # NUL /\ d[m] # ":"
  BY DirFacts
<1>2. /\ h \in Nat /\ Here(n + 1) = h + size + 1 /\ Here(n + 1) <= Here(Dirs)
      /\ \A m \in 1 .. size : Colons[Dirs][h + m] = d[m]
      /\ n + 1 < Dirs => Here(n + 1) < Here(Dirs) /\ Colons[Dirs][Here(n + 1)] = ":"
  BY PlacingIs DEF Placing
<1>3. /\ v \in Nat /\ Here(Dirs) \in Nat
      /\ \A p \in 1 .. pl : At(v + p - 1) = Colons[Dirs][p]
      /\ At(v + Here(Dirs) - 1) = NUL
      /\ \A o \in Nat : o >= v + Here(Dirs) - 1 => At(o) # ":"
  BY DEF PathAt
<1> DEFINE H == Here(Dirs)
<1>4. H \in Nat /\ h \in Nat /\ v \in Nat /\ size \in Nat /\ 1 <= size /\ h + size + 1 <= H
  BY <1>1, <1>2, <1>3
<1>5. seg = Min(T)
  BY Zenon DEF Segment
<1>6. (\A m \in 1 .. size : Colons[Dirs][h + m] = d[m] /\ d[m] # NUL /\ d[m] # ":")
      /\ (\A p \in 1 .. H - 1 : At(v + p - 1) = Colons[Dirs][p])
  BY <1>1, <1>2, <1>3
<1>7. (n + 1 < Dirs) => (h + size + 1 < H /\ Colons[Dirs][h + size + 1] = ":")
  BY <1>2
<1>8. (n + 1 = Dirs) => H = h + size + 1
  BY <1>2
<1> HIDE DEF d, size, h, H
<1>9. ASSUME NEW m \in 0 .. size - 1
      PROVE  At(p2 + m) = d[m + 1] /\ At(p2 + m) # NUL /\ At(p2 + m) # ":"
  <2>1. m + 1 \in 1 .. size /\ h + (m + 1) \in 1 .. H - 1 /\ v + (h + (m + 1)) - 1 = p2 + m
    BY <1>4
  <2>2. At(v + (h + (m + 1)) - 1) = Colons[Dirs][h + (m + 1)]
    BY <1>6, <2>1
  <2> HIDE DEF p2
  <2> QED
    BY <1>6, <2>1, <2>2
<1>10. pl \in Nat /\ size <= pl /\ p2 \in Nat /\ size \in Nat /\ pl = H - 1
  BY <1>4 DEF H
<1>11. T \subseteq Int
  BY <1>10
<1>12. CASE n + 1 < Dirs
  <2>1. At(p2 + size) = ":"
    <3> DEFINE p == h + size + 1
    <3>1. p \in 1 .. H - 1 /\ v + p - 1 = p2 + size
      BY <1>4, <1>7, <1>12
    <3>2. At(v + p - 1) = Colons[Dirs][p] /\ Colons[Dirs][p] = ":"
      BY <1>6, <1>7, <1>12, <3>1
    <3> HIDE DEF p, p2
    <3> QED
      BY <3>1, <3>2
  <2> HIDE DEF p2, pl
  <2>2. size \in T
    BY <1>10, <2>1
  <2>3. \A m \in T : size <= m
    <3> SUFFICES ASSUME NEW m \in T, m < size PROVE FALSE
      BY <1>10
    <3>1. m \in 0 .. size - 1 /\ m # pl
      BY <1>10
    <3> QED
      BY <1>9, <3>1
  <2> HIDE DEF T
  <2>4. Min(T) = size
    BY <1>11, <2>2, <2>3, MinIs
  <2>5. seg = size
    BY <1>5, <2>4
  <2>6. {k \in 0 .. size - 1 : At(p2 + k) = NUL} = {}
    BY <1>9
  <2>7. UpToNul(p2, size) = [k \in 1 .. size |-> At(p2 + k - 1)]
    BY <2>6 DEF UpToNul
  <2>8. UpToNul(p2, size) = [k \in 1 .. size |-> d[k]]
    <3>1. \A k \in 1 .. size : At(p2 + k - 1) = d[k]
      <4> SUFFICES ASSUME NEW k \in 1 .. size PROVE At(p2 + k - 1) = d[k]
        OBVIOUS
      <4>1. k - 1 \in 0 .. size - 1 /\ (k - 1) + 1 = k /\ p2 + (k - 1) = p2 + k - 1
        BY <1>10
      <4> QED
        BY <1>9, <4>1
    <3> QED
      BY <2>7, <3>1
  <2>9. d = [k \in 1 .. size |-> d[k]]
    BY <1>1 DEF d, size
  <2> HIDE DEF seg
  <2>10. UpToNul(p2, seg) = d /\ seg = size
    BY <2>5, <2>8, <2>9, Zenon
  <2>11. n + 1 # Dirs
    BY <1>1, <1>12
  <2> QED
    BY <2>10, <2>11, Zenon DEF seg, p2, pl, h, d, size
<1>13. CASE n + 1 = Dirs
  <2>1. pl = h + size /\ At(p2 + size) = NUL
    <3>1. H = h + size + 1 /\ At(v + H - 1) = NUL
      BY <1>3, <1>8, <1>13 DEF H
    <3>2. v + H - 1 = p2 + size
      BY <1>4, <3>1
    <3> HIDE DEF p2
    <3> QED
      BY <1>4, <1>10, <3>1, <3>2
  <2>2. ASSUME NEW m \in 0 .. pl, m # pl PROVE At(p2 + m) # ":"
    <3>1. CASE m < size
      <4>1. m \in 0 .. size - 1
        BY <1>10, <3>1
      <4> QED
        BY <1>9, <4>1
    <3>2. CASE m >= size
      <4>1. p2 + m \in Nat /\ p2 + m >= v + H - 1
        BY <1>4, <1>10, <2>1, <3>2
      <4> HIDE DEF p2, pl
      <4> QED
        BY <1>3, <4>1 DEF H
    <3> QED
      BY <1>10, <3>1, <3>2
  <2> HIDE DEF p2, pl
  <2>3. T = {pl}
    BY <1>10, <2>2
  <2>4. Min(T) = pl
    <3>1. {pl} \subseteq Int /\ pl \in {pl} /\ \A y \in {pl} : pl <= y
      BY <1>10
    <3> HIDE DEF T
    <3> QED
      BY <2>3, <3>1, MinIs
  <2>5. seg = pl
    BY <1>5, <2>4
  <2> DEFINE N == {k \in 0 .. pl - 1 : At(p2 + k) = NUL}
             cut == IF N = {} THEN pl ELSE Min(N)
  <2>6. \A k \in N : size <= k
    <3> SUFFICES ASSUME NEW k \in N, k < size PROVE FALSE
      BY <1>10
    <3>1. k \in 0 .. size - 1
      BY <1>10
    <3> QED
      BY <1>9, <3>1
  <2>7. cut = size
    <3>1. CASE size < pl
      <4>1. size \in N /\ N \subseteq Int
        BY <1>10, <2>1, <3>1
      <4> HIDE DEF N
      <4>2. Min(N) = size
        BY <2>6, <4>1, MinIs
      <4> QED
        BY <4>1, <4>2
    <3>2. CASE ~(size < pl)
      <4>1. size = pl
        BY <1>10, <3>2
      <4>2. N = {}
        BY <1>10, <2>6, <4>1
      <4> QED
        BY <4>1, <4>2
    <3> QED
      BY <3>1, <3>2
  <2>8. UpToNul(p2, pl) = [k \in 1 .. cut |-> At(p2 + k - 1)]
    BY Zenon DEF UpToNul
  <2> HIDE DEF N, cut, T, seg
  <2>9. UpToNul(p2, pl) = [k \in 1 .. size |-> d[k]]
    <3>1. \A k \in 1 .. size : At(p2 + k - 1) = d[k]
      <4> SUFFICES ASSUME NEW k \in 1 .. size PROVE At(p2 + k - 1) = d[k]
        OBVIOUS
      <4>1. k - 1 \in 0 .. size - 1 /\ (k - 1) + 1 = k /\ p2 + (k - 1) = p2 + k - 1
        BY <1>10
      <4> QED
        BY <1>9, <4>1
    <3> QED
      BY <2>7, <2>8, <3>1
  <2>10. d = [k \in 1 .. size |-> d[k]]
    BY <1>1 DEF d, size
  <2>11. UpToNul(p2, seg) = d /\ seg = pl
    BY <2>5, <2>9, <2>10, Zenon
  <2>12. ~(n + 1 < Dirs)
    BY <1>1, <1>13
  <2> QED
    BY <2>11, <2>12, Zenon DEF seg, p2, pl, h, d
<1> QED
  BY <1>1, <1>12, <1>13

\* Where the walk is after each turn.
Walks(found) == [pg : Nat, p2 : Nat, over : BOOLEAN, path : found \cup {<<>>}]

LEMMA TryDirKeeps ==
    ASSUME NEW found, NEW pl \in Nat, NEW s, NEW dirs, NEW walk \in Walks(found)
    PROVE  TryDir(walk, pl, s, dirs, found) \in Walks(found)
<1> DEFINE n == Segment(walk.p2, pl)
           pathbuf == UpToNul(walk.p2, n)
<1>1. walk.pg \in Nat /\ walk.p2 \in Nat
  BY DEF Walks
<1>2. n \in Nat
  <2>1. n \in 0 .. pl
    BY <1>1, SegmentIn
  <2> QED
    BY <2>1
<1> HIDE DEF n
<1>3. TryDir(walk, pl, s, dirs, found) =
          IF walk.over \/ walk.pg >= pl THEN walk
          ELSE IF Len(s) + Len(pathbuf) + 1 >= MAX_PATH THEN [walk EXCEPT !.over = TRUE]
          ELSE IF Chomped(pathbuf) \in dirs /\ Sought(pathbuf, s) \in found
          THEN [walk EXCEPT !.over = TRUE, !.path = Sought(pathbuf, s)]
          ELSE [walk EXCEPT !.pg = @ + n, !.p2 = @ + n + 1]
  BY Zenon DEF TryDir, n
<1> HIDE DEF pathbuf
<1>4. [walk EXCEPT !.over = TRUE] \in Walks(found)
  BY DEF Walks
<1>5. Sought(pathbuf, s) \in found =>
          [walk EXCEPT !.over = TRUE, !.path = Sought(pathbuf, s)] \in Walks(found)
  BY DEF Walks
<1>6. [walk EXCEPT !.pg = @ + n, !.p2 = @ + n + 1] \in Walks(found)
  <2>1. walk.pg + n \in Nat /\ walk.p2 + n + 1 \in Nat
    BY <1>1, <1>2
  <2> DEFINE pg == walk.pg + n
             p2 == walk.p2 + n + 1
  <2> HIDE DEF pg, p2
  <2>2. [walk EXCEPT !.pg = pg, !.p2 = p2] \in Walks(found)
    BY <2>1 DEF Walks, pg, p2
  <2> QED
    BY <2>2, Zenon DEF pg, p2
<1> QED
  BY <1>3, <1>4, <1>5, <1>6, Zenon

Walking(path, pl, s, dirs, found) ==
    {g \in [0 .. MAX_ENVIRON -> Walks(found)] :
        /\ g[0] = [pg |-> 0, p2 |-> path, over |-> FALSE, path |-> <<>>]
        /\ \A k \in 1 .. MAX_ENVIRON : g[k] = TryDir(g[k - 1], pl, s, dirs, found)
        /\ Walk(path, pl, s, dirs, found) = g[MAX_ENVIRON].path}

LEMMA WalkHistory ==
    ASSUME NEW path \in Nat, NEW pl \in Nat, NEW s, NEW dirs, NEW found
    PROVE  Walking(path, pl, s, dirs, found) # {}
<1> DEFINE A == Walks(found)
           num == MAX_ENVIRON
           base == [pg |-> 0, p2 |-> path, over |-> FALSE, path |-> <<>>]
           step == [k \in Nat |-> [a \in A |-> TryDir(a, pl, s, dirs, found)]]
           Loop(f) == f = [n \in 0 .. MAX_ENVIRON |->
                              IF n = 0 THEN [pg |-> 0, p2 |-> path, over |-> FALSE, path |-> <<>>]
                              ELSE TryDir(f[n - 1], pl, s, dirs, found)]
           after == CHOOSE f : Loop(f)
<1>1. base \in A /\ num \in Nat
  BY EnvironAssumption DEF Walks
<1>2. \A k \in Nat : step[k] \in [A -> A]
  <2>1. \A a \in A : TryDir(a, pl, s, dirs, found) \in A
    BY TryDirKeeps
  <2> HIDE DEF A
  <2> QED
    BY <2>1
<1> HIDE DEF A
<1>3. \A k \in Nat : \A a \in A : step[k][a] = TryDir(a, pl, s, dirs, found)
  BY Zenon
<1> HIDE DEF step, base, num
<1>4. PICK g \in [0 .. num -> A] :
          g[0] = base /\ \A k \in 1 .. num : g[k] = step[k][g[k - 1]]
  <2>1. Histories(A, base, step, num) # {}
    BY <1>1, <1>2, Iterates
  <2> QED
    BY <2>1 DEF Histories
<1>5. ASSUME NEW k \in 1 .. num PROVE g[k] = TryDir(g[k - 1], pl, s, dirs, found)
  <2>1. k \in Nat /\ k - 1 \in 0 .. num
    BY <1>1
  <2>2. g[k - 1] \in A
    BY <2>1
  <2>3. step[k][g[k - 1]] = TryDir(g[k - 1], pl, s, dirs, found)
    BY <1>3, <2>1, <2>2
  <2> QED
    BY <1>4, <2>3
<1>6. Loop(g)
  <2>1. \A n \in 0 .. num :
            g[n] = IF n = 0 THEN base ELSE TryDir(g[n - 1], pl, s, dirs, found)
    <3> SUFFICES ASSUME NEW n \in 0 .. num
                 PROVE  g[n] = IF n = 0 THEN base ELSE TryDir(g[n - 1], pl, s, dirs, found)
      OBVIOUS
    <3>1. CASE n = 0
      BY <1>4, <3>1
    <3>2. CASE n # 0
      <4>1. n \in 1 .. num
        BY <1>1, <3>2
      <4> QED
        BY <1>5, <3>2, <4>1
    <3> QED
      BY <3>1, <3>2
  <2>2. g = [n \in 0 .. num |-> IF n = 0 THEN base ELSE TryDir(g[n - 1], pl, s, dirs, found)]
    BY <2>1
  <2> QED
    BY <2>2, Zenon DEF base, num
<1>7. Loop(after)
  <2> HIDE DEF Loop
  <2> QED
    BY <1>6
<1>8. \A n \in 0 .. num :
          after[n] = IF n = 0 THEN base ELSE TryDir(after[n - 1], pl, s, dirs, found)
  <2> HIDE DEF after
  <2> QED
    BY <1>7, Zenon DEF base, num
<1>9. Walk(path, pl, s, dirs, found) = after[num].path
  BY Zenon DEF Walk, after, Loop, num
<1> HIDE DEF after, Loop
<1>10. \A n \in 0 .. num : after[n] = g[n]
  <2> DEFINE T == {n \in Nat : n <= num => after[n] = g[n]}
  <2>1. 0 \in T
    BY <1>1, <1>4, <1>8
  <2>2. ASSUME NEW n \in Nat, n \in T PROVE n + 1 \in T
    <3> DEFINE k == n + 1
    <3> SUFFICES ASSUME k <= num PROVE after[k] = g[k]
      OBVIOUS
    <3>1. k \in 0 .. num /\ k \in 1 .. num /\ k # 0 /\ k - 1 = n /\ n <= num
      BY <1>1
    <3> HIDE DEF k
    <3>2. after[k - 1] = g[k - 1]
      BY <2>2, <3>1
    <3> QED
      BY <1>5, <1>8, <3>1, <3>2
  <2> HIDE DEF T
  <2>3. \A n \in Nat : n \in T
    BY <2>1, <2>2, Induct
  <2> QED
    BY <2>3 DEF T
<1>11. /\ g \in [0 .. num -> A] /\ g[0] = base
       /\ \A k \in 1 .. num : g[k] = TryDir(g[k - 1], pl, s, dirs, found)
       /\ Walk(path, pl, s, dirs, found) = g[num].path
  <2>1. num \in 0 .. num
    BY <1>1
  <2> QED
    BY <1>4, <1>5, <1>9, <1>10, <2>1
<1> QED
  BY <1>11 DEF Walking, A, num, base

\* A directory without its slashes at the end is a directory still.
LEMMA CutDir ==
    ASSUME NEW k \in 1 .. Dirs
    PROVE  /\ Chomped(PathDirs[k]) \in Seq(Signs)
           /\ 1 <= Len(Chomped(PathDirs[k]))
           /\ Chomped(PathDirs[k])[1] = "/" =>
                  Len(Chomped(PathDirs[k])) > 1 /\ Chomped(PathDirs[k])[2] # "/"
<1> DEFINE d == PathDirs[k]
<1>1. d \in Seq(Signs) /\ Len(d) \in Nat /\ 1 <= Len(d)
  BY DirFacts
<1>2. d[1] = "/" => Len(d) > 1 /\ d[2] # "/"
  BY SearchAssumption DEF Dirs
<1> HIDE DEF d
<1> DEFINE j == IF d[1] = "/" THEN 2 ELSE 1
<1>3. j \in 1 .. Len(d) /\ d[j] # "/"
  BY <1>1, <1>2
<1>4. PICK m \in j .. Len(d) : d[m] # "/" /\ \A l \in m + 1 .. Len(d) : d[l] = "/"
  <2> HIDE DEF j
  <2> QED
    BY <1>1, <1>3, LastNoSlash
<1>5. m \in 1 .. Len(d) /\ (d[1] = "/" => m > 1)
  BY <1>1, <1>3, <1>4
<1>6. Chomped(d) = SubSeq(d, 1, m)
  BY <1>1, <1>4, <1>5, ChompedAt
<1>7. SubSeq(d, 1, m) \in Seq(Signs) /\ Len(SubSeq(d, 1, m)) = m
      /\ \A place \in 1 .. m : SubSeq(d, 1, m)[place] = d[place]
  BY <1>1, <1>5
<1>8. /\ Chomped(d) \in Seq(Signs) /\ 1 <= Len(Chomped(d))
      /\ Chomped(d)[1] = "/" => Len(Chomped(d)) > 1 /\ Chomped(d)[2] # "/"
  <2> DEFINE c == SubSeq(d, 1, m)
  <2>1. c \in Seq(Signs) /\ Len(c) = m /\ c[1] = d[1] /\ (m > 1 => c[2] = d[2])
    BY <1>5, <1>7
  <2> HIDE DEF c
  <2>2. Chomped(d) = c
    BY <1>6 DEF c
  <2> QED
    BY <1>2, <1>5, <2>1, <2>2
<1> QED
  BY <1>8 DEF d

\* The slashes at the end of a path are those at the end of the command.
LEMMA CutWhole ==
    ASSUME NEW d \in Seq(Signs), NEW s \in Seq(Signs), Len(s) > 0, s[1] # "/"
    PROVE  Chomped(d \o s) = d \o Chomped(s)
<1> DEFINE p == d \o s
<1>1. Len(d) \in Nat /\ Len(s) \in Nat /\ 1 \in 1 .. Len(s)
  BY LenProperties
<1>2. PICK m \in 1 .. Len(s) : s[m] # "/" /\ \A l \in m + 1 .. Len(s) : s[l] = "/"
  BY <1>1, LastNoSlash
<1>3. Chomped(s) = SubSeq(s, 1, m)
  BY <1>2, ChompedAt
<1>4. /\ p \in Seq(Signs) /\ Len(p) = Len(d) + Len(s)
      /\ \A place \in 1 .. Len(d) + Len(s) : p[place] = IF place <= Len(d) THEN d[place] ELSE s[place - Len(d)]
  BY ConcatProperties, Zenon
<1> HIDE DEF p
<1> DEFINE n == Len(d) + m
<1>5. n \in 1 .. Len(p) /\ p[n] = s[m]
  <2>1. n \in 1 .. Len(d) + Len(s) /\ ~(n <= Len(d)) /\ n - Len(d) = m
    BY <1>1
  <2> HIDE DEF n
  <2> QED
    BY <1>4, <2>1
<1>6. ASSUME NEW k \in n + 1 .. Len(p) PROVE p[k] = "/"
  <2>1. k \in 1 .. Len(d) + Len(s) /\ ~(k <= Len(d)) /\ k - Len(d) \in m + 1 .. Len(s)
    BY <1>1, <1>4
  <2>2. p[k] = s[k - Len(d)]
    BY <1>4, <2>1
  <2> QED
    BY <1>2, <2>1, <2>2
<1>7. Chomped(p) = SubSeq(p, 1, n)
  <2> HIDE DEF n
  <2> QED
    BY <1>2, <1>4, <1>5, <1>6, ChompedAt
<1>8. SubSeq(p, 1, n) = d \o SubSeq(s, 1, m)
  <2>1. SubSeq(d \o s, 1, Len(d) + m) = d \o SubSeq(s, 1, m)
    BY <1>1
  <2> QED
    BY <2>1, Zenon DEF p, n
<1> QED
  BY <1>3, <1>7, <1>8, Zenon DEF p

\* The directories that have a command, those that make the path too long, and the
\* path of the first that has it.
Cut(k) == Chomped(PathDirs[k])
CutPath(k, s) == PathOf(Cut(k), Chomped(s))
Has(s, held) == {k \in 1 .. Dirs : Cut(k) \in DOMAIN held /\ Chomped(s) \in held[Cut(k)]}
Long(s) == {k \in 1 .. Dirs : Len(PathDirs[k]) + 1 + Len(s) >= MAX_PATH}
FirstPath(s, held) ==
    IF Has(s, held) = {} \/ (\E k \in Long(s) : k <= Min(Has(s, held))) THEN <<>>
    ELSE CutPath(Min(Has(s, held)), s)

LEMMA CommandFacts ==
    ASSUME NEW s \in Commands
    PROVE  s \in Seq(Signs) /\ Len(s) \in Nat /\ Len(s) > 0 /\ s[1] # "/"
<1>1. s \in Seq(STRING \ {NUL}) /\ Len(s) > 0 /\ s[1] # "/"
  BY SearchAssumption
<1>2. STRING \ {NUL} \subseteq Signs
  BY DEF Signs
<1> QED
  BY <1>1, <1>2, LenProperties

LEMMA SoughtIs ==
    ASSUME NEW k \in 1 .. Dirs, NEW s \in Commands
    PROVE  Sought(PathDirs[k], s) = CutPath(k, s)
<1> DEFINE d == Cut(k)
           b == <<"/">>
<1>1. d \in Seq(Signs) /\ 1 <= Len(d) /\ (d[1] = "/" => Len(d) > 1 /\ d[2] # "/")
  BY CutDir DEF Cut
<1>2. s \in Seq(Signs) /\ Len(s) > 0 /\ s[1] # "/"
  BY CommandFacts
<1> HIDE DEF d
<1>3. Joined(d, s) = d \o b \o s
  BY <1>1, <1>2, JoinedIs
<1>4. b \in Seq(Signs)
  BY DEF Signs
<1> HIDE DEF b
<1>5. d \o b \in Seq(Signs)
  BY <1>1, <1>4, ConcatProperties
<1>6. Chomped((d \o b) \o s) = (d \o b) \o Chomped(s)
  BY <1>2, <1>5, CutWhole
<1> QED
  BY <1>3, <1>6, Zenon DEF Sought, CutPath, PathOf, b, d, Cut

LEMMA HitIs ==
    ASSUME NEW k \in 1 .. Dirs, NEW s \in Commands, NEW held \in Disks
    PROVE  /\ Chomped(PathDirs[k]) \in DOMAIN held /\ Sought(PathDirs[k], s) \in PathsIn(held)
               <=> k \in Has(s, held)
           /\ Sought(PathDirs[k], s) = CutPath(k, s)
<1>1. Sought(PathDirs[k], s) = CutPath(k, s)
  BY SoughtIs
<1>2. ASSUME k \in Has(s, held)
      PROVE  Cut(k) \in DOMAIN held /\ CutPath(k, s) \in PathsIn(held)
  <2>1. Cut(k) \in DOMAIN held /\ Chomped(s) \in held[Cut(k)]
    BY <1>2, Zenon DEF Has
  <2>2. CutPath(k, s) \in {PathOf(Cut(k), c) : c \in held[Cut(k)]}
    BY <2>1, Zenon DEF CutPath
  <2> QED
    BY <2>1, <2>2, Zenon DEF PathsIn
<1>3. ASSUME Cut(k) \in DOMAIN held, CutPath(k, s) \in PathsIn(held)
      PROVE  k \in Has(s, held)
  <2>1. PICK d \in DOMAIN held : \E c \in held[d] : CutPath(k, s) = PathOf(d, c)
    BY <1>3, Zenon DEF PathsIn
  <2>2. PICK c \in held[d] : CutPath(k, s) = PathOf(d, c)
    BY <2>1
  <2>3. PICK dirs \in SUBSET {Chomped(PathDirs[l]) : l \in 1 .. Len(PathDirs)} :
            held \in [dirs -> SUBSET {Chomped(t) : t \in Commands}]
    BY DEF Disks
  <2>4. PICK j \in 1 .. Dirs : d = Cut(j)
    BY <2>3 DEF Dirs, Cut
  <2>5. PICK t \in Commands : c = Chomped(t)
    BY <2>2, <2>3
  <2>6. \A m, n \in 1 .. Dirs : \A a, b \in Commands :
            PathOf(Cut(m), Chomped(a)) = PathOf(Cut(n), Chomped(b))
                => Cut(m) = Cut(n) /\ Chomped(a) = Chomped(b)
    BY SearchAssumption, Zenon DEF Dirs, Cut
  <2>7. PathOf(Cut(k), Chomped(s)) = PathOf(Cut(j), Chomped(t))
    BY <2>2, <2>4, <2>5, Zenon DEF CutPath
  <2>8. Cut(k) = d /\ Chomped(s) = c
    <3>1. Cut(k) = Cut(j) /\ Chomped(s) = Chomped(t)
      BY <2>6, <2>7
    <3> QED
      BY <2>4, <2>5, <3>1, Zenon
  <2>9. Cut(k) \in DOMAIN held /\ Chomped(s) \in held[Cut(k)]
    BY <2>2, <2>8
  <2> QED
    BY <2>9 DEF Has
<1> QED
  BY <1>1, <1>2, <1>3, Zenon DEF Cut

\* One turn of the walk, at the directory it has come to.
At0(v, n) == [pg |-> Here(n) - n, p2 |-> v + Here(n), over |-> FALSE, path |-> <<>>]

LEMMA TurnIs ==
    ASSUME NEW v, PathAt(v), NEW n \in 0 .. Dirs - 1, NEW s \in Commands,
           NEW held \in Disks
    PROVE  LET walk == TryDir(At0(v, n), Here(Dirs) - 1, s, DOMAIN held, PathsIn(held))
           IN  IF n + 1 \in Long(s)
               THEN walk.over = TRUE /\ walk.path = <<>>
               ELSE IF n + 1 \in Has(s, held)
               THEN walk.over = TRUE /\ walk.path = CutPath(n + 1, s)
               ELSE IF n + 1 < Dirs
               THEN walk = At0(v, n + 1)
               ELSE walk.over = FALSE /\ walk.path = <<>> /\ walk.pg >= Here(Dirs) - 1
<1> DEFINE w == At0(v, n)
           pl == Here(Dirs) - 1
           seg == Segment(v + Here(n), pl)
           pathbuf == PathDirs[n + 1]
           found == PathsIn(held)
           walk == TryDir(w, pl, s, DOMAIN held, found)
<1>1. /\ w.pg = Here(n) - n /\ w.p2 = v + Here(n) /\ w.over = FALSE /\ w.path = <<>>
  BY DEF At0
<1>2. /\ UpToNul(v + Here(n), seg) = pathbuf
      /\ n + 1 < Dirs => seg = Len(pathbuf)
      /\ n + 1 = Dirs => seg = pl
  BY PieceIs
<1>3. /\ n + 1 \in 1 .. Dirs /\ n \in Nat /\ Dirs \in Nat
      /\ Len(pathbuf) \in Nat /\ 1 <= Len(pathbuf)
  BY DirFacts
<1>4. /\ Here(n) \in Nat /\ n <= Here(n)
      /\ Here(n + 1) = Here(n) + Len(pathbuf) + 1 /\ Here(n + 1) <= Here(Dirs)
  BY PlacingIs DEF Placing
<1>5. v \in Nat /\ Here(Dirs) \in Nat /\ pl \in Nat
  <2>1. v \in Nat /\ Here(Dirs) \in Nat
    BY DEF PathAt
  <2> QED
    BY <1>3, <1>4, <2>1
<1>6. ~(w.pg >= pl)
  BY <1>1, <1>3, <1>4, <1>5
<1>7. Len(s) + Len(pathbuf) + 1 >= MAX_PATH <=> n + 1 \in Long(s)
  <2>1. Len(s) \in Nat /\ MAX_PATH \in Nat
    <3>1. s \in Seq(STRING \ {NUL})
      BY SearchAssumption
    <3> QED
      BY <3>1, LenProperties, EnvironAssumption
  <2>2. Len(s) + Len(pathbuf) + 1 >= MAX_PATH <=> Len(pathbuf) + 1 + Len(s) >= MAX_PATH
    BY <1>3, <2>1
  <2> QED
    BY <1>3, <2>2 DEF Long
<1>8. /\ Chomped(pathbuf) \in DOMAIN held /\ Sought(pathbuf, s) \in found
             <=> n + 1 \in Has(s, held)
      /\ Sought(pathbuf, s) = CutPath(n + 1, s)
  BY <1>3, HitIs
<1> HIDE DEF found, pathbuf
<1>9. walk = IF w.over \/ w.pg >= pl THEN w
             ELSE IF Len(s) + Len(UpToNul(w.p2, Segment(w.p2, pl))) + 1 >= MAX_PATH
             THEN [w EXCEPT !.over = TRUE]
             ELSE IF /\ Chomped(UpToNul(w.p2, Segment(w.p2, pl))) \in DOMAIN held
                     /\ Sought(UpToNul(w.p2, Segment(w.p2, pl)), s) \in found
             THEN [w EXCEPT !.over = TRUE, !.path = Sought(UpToNul(w.p2, Segment(w.p2, pl)), s)]
             ELSE [w EXCEPT !.pg = @ + Segment(w.p2, pl), !.p2 = @ + Segment(w.p2, pl) + 1]
  BY Zenon DEF TryDir
<1>10. UpToNul(w.p2, Segment(w.p2, pl)) = pathbuf /\ Segment(w.p2, pl) = seg
  BY <1>1, <1>2, Zenon
<1> HIDE DEF w, pl, seg, walk
<1>11. walk = IF n + 1 \in Long(s) THEN [w EXCEPT !.over = TRUE]
              ELSE IF n + 1 \in Has(s, held)
              THEN [w EXCEPT !.over = TRUE, !.path = CutPath(n + 1, s)]
              ELSE [w EXCEPT !.pg = @ + seg, !.p2 = @ + seg + 1]
  BY <1>1, <1>6, <1>7, <1>8, <1>9, <1>10, Zenon
<1>12. w = [pg |-> Here(n) - n, p2 |-> v + Here(n), over |-> FALSE, path |-> <<>>]
  BY Zenon DEF w, At0
<1>13. CASE n + 1 \in Long(s)
  <2>1. walk.over = TRUE /\ walk.path = <<>>
    BY <1>11, <1>12, <1>13
  <2> QED
    BY <1>13, <2>1, Zenon DEF walk, w, pl, found
<1>14. CASE n + 1 \notin Long(s) /\ n + 1 \in Has(s, held)
  <2> DEFINE p == CutPath(n + 1, s)
  <2> HIDE DEF p
  <2>1. walk = [w EXCEPT !.over = TRUE, !.path = p]
    BY <1>11, <1>14, Zenon DEF p
  <2>2. walk.over = TRUE /\ walk.path = p
    BY <1>12, <2>1
  <2> QED
    BY <1>14, <2>2, Zenon DEF walk, w, pl, found, p, pathbuf
<1>15. CASE n + 1 \notin Long(s) /\ n + 1 \notin Has(s, held)
  <2>1. walk = [w EXCEPT !.pg = @ + seg, !.p2 = @ + seg + 1]
    BY <1>11, <1>15, Zenon
  <2>2. walk = [pg |-> Here(n) - n + seg, p2 |-> v + Here(n) + seg + 1,
                over |-> FALSE, path |-> <<>>]
    BY <1>12, <2>1
  <2>3. CASE n + 1 < Dirs
    <3>1. seg = Len(pathbuf)
      BY <1>2, <2>3
    <3>2. Here(n) - n + seg = Here(n + 1) - (n + 1) /\ v + Here(n) + seg + 1 = v + Here(n + 1)
      BY <1>3, <1>4, <1>5, <3>1
    <3>3. walk = At0(v, n + 1)
      BY <2>2, <3>2, Zenon DEF At0
    <3> QED
      BY <1>15, <2>3, <3>3, Zenon DEF walk, w, pl, found
  <2>4. CASE ~(n + 1 < Dirs)
    <3>1. seg = pl
      BY <1>2, <1>3, <2>4
    <3>2. Here(n) - n + seg >= pl
      BY <1>3, <1>4, <1>5, <3>1
    <3>3. walk.over = FALSE /\ walk.path = <<>> /\ walk.pg = Here(n) - n + seg
      BY <2>2
    <3>4. walk.over = FALSE /\ walk.path = <<>> /\ walk.pg >= pl
      BY <3>2, <3>3, Zenon
    <3> QED
      BY <1>15, <2>4, <3>4, Zenon DEF walk, w, pl, found
  <2> QED
    BY <2>3, <2>4
<1> QED
  BY <1>13, <1>14, <1>15

\* After n turns: the directories so far are done with, or one has ended the walk.
Passed(f, s, held) == \A k \in 1 .. Dirs : k < f => k \notin Long(s) \cup Has(s, held)
Ended(f, w, s, held) ==
    /\ w.over = TRUE /\ Passed(f, s, held)
    /\ \/ f \in Long(s) /\ w.path = <<>>
       \/ /\ f \notin Long(s) /\ f \in Has(s, held)
          /\ w.path = CutPath(f, s)
Walked(n, w, v, s, held) ==
    \/ n < Dirs /\ w = At0(v, n) /\ Passed(n + 1, s, held)
    \/ /\ n >= Dirs /\ w.over = FALSE /\ w.path = <<>> /\ w.pg >= Here(Dirs) - 1
       /\ Passed(Dirs + 1, s, held)
    \/ \E f \in 1 .. Dirs : Ended(f, w, s, held)

LEMMA WalkedNext ==
    ASSUME NEW v, PathAt(v), NEW n \in Nat, NEW s \in Commands,
           NEW held \in Disks,
           NEW w, Walked(n, w, v, s, held)
    PROVE  Walked(n + 1, TryDir(w, Here(Dirs) - 1, s, DOMAIN held, PathsIn(held)),
                  v, s, held)
<1> DEFINE pl == Here(Dirs) - 1
           next == TryDir(w, pl, s, DOMAIN held, PathsIn(held))
<1>1. Dirs \in Nat
  BY DirFacts
<1>2. w.over \/ w.pg >= pl => next = w
  BY Zenon DEF TryDir
<1>3. CASE n < Dirs /\ w = At0(v, n) /\ Passed(n + 1, s, held)
  <2>1. n \in 0 .. Dirs - 1 /\ n + 1 \in 1 .. Dirs /\ n + 1 \in Nat
    BY <1>1, <1>3
  <2>2. IF n + 1 \in Long(s)
        THEN next.over = TRUE /\ next.path = <<>>
        ELSE IF n + 1 \in Has(s, held)
        THEN next.over = TRUE /\ next.path = CutPath(n + 1, s)
        ELSE IF n + 1 < Dirs
        THEN next = At0(v, n + 1)
        ELSE next.over = FALSE /\ next.path = <<>> /\ next.pg >= pl
    <3> DEFINE turn == TryDir(At0(v, n), Here(Dirs) - 1, s, DOMAIN held, PathsIn(held))
    <3>1. IF n + 1 \in Long(s)
          THEN turn.over = TRUE /\ turn.path = <<>>
          ELSE IF n + 1 \in Has(s, held)
          THEN turn.over = TRUE /\ turn.path = CutPath(n + 1, s)
          ELSE IF n + 1 < Dirs
          THEN turn = At0(v, n + 1)
          ELSE turn.over = FALSE /\ turn.path = <<>> /\ turn.pg >= Here(Dirs) - 1
      BY <2>1, TurnIs, Zenon
    <3>2. next = turn
      BY <1>3, Zenon
    <3> HIDE DEF turn, next
    <3> QED
      BY <3>1, <3>2, Zenon
  <2> HIDE DEF next
  <2>3. CASE n + 1 \in Long(s) \cup Has(s, held)
    <3>1. Ended(n + 1, next, s, held)
      BY <1>3, <2>2, <2>3, Zenon DEF Ended
    <3> QED
      BY <2>1, <3>1, Zenon DEF Walked, next, pl
  <2>4. CASE n + 1 \notin Long(s) \cup Has(s, held)
    <3>1. Passed((n + 1) + 1, s, held)
      <4> SUFFICES ASSUME NEW k \in 1 .. Dirs, k < (n + 1) + 1
                   PROVE  k \notin Long(s) \cup Has(s, held)
        BY Zenon DEF Passed
      <4>1. k < n + 1 \/ k = n + 1
        OBVIOUS
      <4> QED
        BY <1>3, <2>4, <4>1, Zenon DEF Passed
    <3>2. CASE n + 1 < Dirs
      <4>1. next = At0(v, n + 1)
        BY <2>2, <2>4, <3>2, Zenon
      <4> QED
        BY <3>1, <3>2, <4>1, Zenon DEF Walked, next, pl
    <3>3. CASE ~(n + 1 < Dirs)
      <4>1. n + 1 = Dirs /\ n + 1 >= Dirs
        BY <1>1, <2>1, <3>3
      <4>2. next.over = FALSE /\ next.path = <<>> /\ next.pg >= pl
        BY <2>2, <2>4, <3>3, Zenon
      <4>3. Passed(Dirs + 1, s, held)
        BY <3>1, <4>1, Zenon
      <4> QED
        BY <4>1, <4>2, <4>3, Zenon DEF Walked, next, pl
    <3> QED
      BY <3>2, <3>3
  <2> QED
    BY <2>3, <2>4, Zenon
<1>4. CASE /\ n >= Dirs /\ w.over = FALSE /\ w.path = <<>> /\ w.pg >= Here(Dirs) - 1
           /\ Passed(Dirs + 1, s, held)
  <2>1. next = w
    BY <1>2, <1>4, Zenon
  <2>2. n + 1 >= Dirs
    BY <1>1, <1>4
  <2> HIDE DEF next
  <2> QED
    BY <1>4, <2>1, <2>2, Zenon DEF Walked, next, pl
<1>5. CASE \E f \in 1 .. Dirs : Ended(f, w, s, held)
  <2>1. w.over
    BY <1>5, Zenon DEF Ended
  <2>2. next = w
    BY <1>2, <2>1, Zenon
  <2> HIDE DEF next
  <2> QED
    BY <1>5, <2>2, Zenon DEF Walked, next, pl
<1> QED
  BY <1>3, <1>4, <1>5, Zenon DEF Walked

LEMMA WalkIs ==
    ASSUME NEW v, PathAt(v), NEW s \in Commands, NEW held \in Disks
    PROVE  Walk(v, Here(Dirs) - 1, s, DOMAIN held, PathsIn(held)) = FirstPath(s, held)
<1> DEFINE found == PathsIn(held)
           pl == Here(Dirs) - 1
           H == Has(s, held)
           L == Long(s)
           Good(n, w) == Walked(n, w, v, s, held)
<1>1. /\ v \in Nat /\ pl \in Nat /\ Dirs \in Nat /\ 1 <= Dirs /\ Dirs <= MAX_ENVIRON
      /\ MAX_ENVIRON \in Nat
  <2>1. /\ Dirs \in Nat /\ 1 <= Dirs /\ Dirs - 1 \in 0 .. Dirs - 1 /\ (Dirs - 1) + 1 = Dirs
        /\ Dirs \in 1 .. Dirs
    BY DirFacts
  <2>2. Here(Dirs - 1) \in Nat /\ Dirs - 1 <= Here(Dirs - 1)
        /\ Here((Dirs - 1) + 1) = Here(Dirs - 1) + Len(PathDirs[(Dirs - 1) + 1]) + 1
    BY <2>1, PlacingIs DEF Placing
  <2>3. Len(PathDirs[Dirs]) \in Nat /\ 1 <= Len(PathDirs[Dirs])
    BY <2>1, DirFacts
  <2>4. v \in Nat /\ Here(Dirs) \in Nat /\ Here(Dirs) <= MAX_ENVIRON
    BY DEF PathAt
  <2>5. Here(Dirs) = Here(Dirs - 1) + Len(PathDirs[Dirs]) + 1
    BY <2>1, <2>2, Zenon
  <2> QED
    BY <2>1, <2>2, <2>3, <2>4, <2>5, EnvironAssumption
<1>2. PICK g : /\ g[0] = [pg |-> 0, p2 |-> v, over |-> FALSE, path |-> <<>>]
               /\ \A k \in 1 .. MAX_ENVIRON : g[k] = TryDir(g[k - 1], pl, s, DOMAIN held, found)
               /\ Walk(v, pl, s, DOMAIN held, found) = g[MAX_ENVIRON].path
  <2> HIDE DEF pl, found
  <2>1. Walking(v, pl, s, DOMAIN held, found) # {}
    BY <1>1, WalkHistory
  <2> QED
    BY <2>1 DEF Walking
<1>3. Good(0, g[0])
  <2>1. Here(0) = 0 /\ 0 - 0 = 0 /\ v + 0 = v
    BY <1>1 DEF Here
  <2>2. g[0] = At0(v, 0)
    BY <1>2, <2>1, Zenon DEF At0
  <2>3. Passed(0 + 1, s, held)
    <3>1. \A k \in 1 .. Dirs : ~(k < 0 + 1)
      BY <1>1
    <3> QED
      BY <3>1, Zenon DEF Passed
  <2>4. 0 < Dirs
    BY <1>1
  <2> QED
    BY <2>2, <2>3, <2>4, Zenon DEF Walked
<1>4. ASSUME NEW n \in Nat, n < MAX_ENVIRON, Good(n, g[n]) PROVE Good(n + 1, g[n + 1])
  <2>1. n + 1 \in 1 .. MAX_ENVIRON /\ (n + 1) - 1 = n
    BY <1>1, <1>4
  <2>2. g[n + 1] = TryDir(g[n], pl, s, DOMAIN held, found)
    <3> DEFINE k == n + 1
    <3> HIDE DEF k
    <3>1. k \in 1 .. MAX_ENVIRON /\ k - 1 = n
      BY <2>1 DEF k
    <3> HIDE DEF pl, found
    <3>2. g[k] = TryDir(g[n], pl, s, DOMAIN held, found)
      BY <1>2, <3>1, Zenon
    <3> QED
      BY <3>2 DEF k
  <2>3. Walked(n + 1, TryDir(g[n], pl, s, DOMAIN held, found), v, s, held)
    BY <1>4, WalkedNext
  <2> QED
    BY <2>2, <2>3, Zenon
<1>5. Good(MAX_ENVIRON, g[MAX_ENVIRON])
  <2> DEFINE T == {n \in Nat : n <= MAX_ENVIRON => Good(n, g[n])}
  <2> HIDE DEF Good
  <2>1. 0 \in T
    BY <1>3
  <2>2. ASSUME NEW n \in Nat, n \in T PROVE n + 1 \in T
    BY <1>1, <1>4, <2>2
  <2>3. MAX_ENVIRON \in T
    <3> HIDE DEF T
    <3> QED
      BY <1>1, <2>1, <2>2, Induct
  <2> QED
    BY <1>1, <2>3
<1> DEFINE w == g[MAX_ENVIRON]
<1> HIDE DEF w
<1>6. Walk(v, pl, s, DOMAIN held, found) = w.path /\ Walked(MAX_ENVIRON, w, v, s, held)
  BY <1>2, <1>5, Zenon DEF w
<1>7. H \subseteq 1 .. Dirs /\ L \subseteq 1 .. Dirs
  BY DEF Has, Long
<1>8. FirstPath(s, held) = IF H = {} \/ (\E k \in L : k <= Min(H)) THEN <<>>
                                 ELSE CutPath(Min(H), s)
  BY Zenon DEF FirstPath
<1>9. CASE w.path = <<>> /\ Passed(Dirs + 1, s, held)
  <2>1. H = {}
    <3> SUFFICES ASSUME NEW k \in H PROVE FALSE
      OBVIOUS
    <3>1. k \in 1 .. Dirs /\ k < Dirs + 1
      BY <1>1, <1>7
    <3> QED
      BY <1>9, <3>1, Zenon DEF Passed
  <2> QED
    BY <1>6, <1>8, <1>9, <2>1, Zenon
<1>10. CASE \E f \in 1 .. Dirs : Ended(f, w, s, held)
  <2>1. PICK f \in 1 .. Dirs : Ended(f, w, s, held)
    BY <1>10
  <2>2. \A k \in 1 .. Dirs : k < f => k \notin L /\ k \notin H
    BY <2>1, Zenon DEF Ended, Passed
  <2> HIDE DEF H, L
  <2>3. CASE f \in L /\ w.path = <<>>
    <3>1. CASE H = {}
      BY <1>6, <1>8, <2>3, <3>1, Zenon
    <3>2. CASE H # {}
      <4>1. PICK x \in H : \A y \in H : x <= y
        <5>1. H \subseteq Nat
          BY <1>7
        <5> QED
          BY <3>2, <5>1, LeastElement
      <4>2. Min(H) = x
        <5>1. H \subseteq Int
          BY <1>7
        <5> QED
          BY <4>1, <5>1, MinIs
      <4>3. f <= x
        <5>1. x \in 1 .. Dirs /\ ~(x < f)
          BY <1>7, <2>2, <4>1
        <5> QED
          BY <5>1
      <4> QED
        BY <1>6, <1>8, <2>3, <4>2, <4>3, Zenon
    <3> QED
      BY <3>1, <3>2
  <2>4. CASE f \notin L /\ f \in H /\ w.path = CutPath(f, s)
    <3>1. \A y \in H : f <= y
      <4> SUFFICES ASSUME NEW y \in H PROVE f <= y
        OBVIOUS
      <4>1. y \in 1 .. Dirs /\ ~(y < f)
        BY <1>7, <2>2
      <4> QED
        BY <4>1
    <3>2. Min(H) = f
      <4>1. H \subseteq Int
        BY <1>7
      <4> QED
        BY <2>4, <3>1, <4>1, MinIs
    <3>3. ~ \E k \in L : k <= f
      <4> SUFFICES ASSUME NEW k \in L, k <= f PROVE FALSE
        OBVIOUS
      <4>1. k \in 1 .. Dirs /\ ~(k < f)
        BY <1>7, <2>2
      <4>2. k = f
        BY <4>1
      <4> QED
        BY <2>4, <4>2
    <3>4. H # {}
      BY <2>4
    <3> QED
      BY <1>6, <1>8, <2>4, <3>2, <3>3, <3>4, Zenon
  <2> QED
    BY <2>1, <2>3, <2>4, Zenon DEF Ended, H, L
<1>11. ~(MAX_ENVIRON < Dirs)
  BY <1>1
<1> QED
  BY <1>6, <1>9, <1>10, <1>11, Zenon DEF Walked

LEMMA SearchIs ==
    ASSUME Laid(Puts), NEW s \in Commands, NEW held \in Disks
    PROVE  search_path(s, DOMAIN held, PathsIn(held)) = FirstPath(s, held)
<1>1. PICK v : PathAt(v)
  BY ValueOfPath
<1>2. kgetenv(PATH) = v /\ StrLen(v) = Here(Dirs) - 1 /\ v \in Nat
  BY <1>1 DEF PathAt
<1>3. ~(v < 0)
  BY <1>2
<1>4. search_path(s, DOMAIN held, PathsIn(held)) =
          IF kgetenv(PATH) < 0 THEN <<>>
          ELSE Walk(kgetenv(PATH), StrLen(kgetenv(PATH)), s, DOMAIN held, PathsIn(held))
  BY Zenon DEF search_path
<1>5. search_path(s, DOMAIN held, PathsIn(held)) =
          Walk(v, Here(Dirs) - 1, s, DOMAIN held, PathsIn(held))
  BY <1>2, <1>3, <1>4, Zenon
<1>6. Walk(v, Here(Dirs) - 1, s, DOMAIN held, PathsIn(held)) = FirstPath(s, held)
  BY <1>1, WalkIs
<1> QED
  BY <1>5, <1>6, Zenon

\* What has been searched for.
Searched ==
    call.fn = "search" =>
        call.path = FirstPath(call.command, call.held)

LEMMA SearchedStep == Searched /\ Answered /\ Booting /\ [Next]_vars => Searched'
<1> SUFFICES ASSUME Searched, Answered, Booting, [Next]_vars PROVE Searched'
  OBVIOUS
<1>1. CASE UNCHANGED vars
  BY <1>1 DEF Searched, vars
<1>2. CASE Boot \/ Started \/ Checksum \/ Leave
  <2>1. CASE Boot
    <3>1. PICK left : call = [fn |-> "boot", left |-> left]
      BY <2>1 DEF Boot, Answered
    <3> QED
      BY <2>1, <3>1 DEF Boot, Searched
  <2>2. CASE Started \/ Leave
    BY <2>2 DEF Started, Leave, Searched
  <2>3. CASE Checksum
    <3>1. call'.fn = "none" \/ call'.fn = "fletcher16"
      BY <2>3 DEF Checksum
    <3> QED
      BY <3>1 DEF Searched
  <2> QED
    BY <1>2, <2>1, <2>2, <2>3
<1>3. CASE call.fn = "none" /\ Ask
  <2>1. Laid(Puts)
    BY <1>3 DEF Booting
  <2>2. ASSUME NEW s \in Commands, NEW held \in Disks,
               Search(s, held)
        PROVE  Searched'
    <3>1. call' = [fn |-> "search", command |-> s, held |-> held,
                   path |-> search_path(s, DOMAIN held, PathsIn(held))]
      BY <2>2 DEF Search, Answer
    <3>2. search_path(s, DOMAIN held, PathsIn(held)) = FirstPath(s, held)
      BY <2>1, SearchIs
    <3>3. call'.path = FirstPath(s, held) /\ call'.command = s /\ call'.held = held
      BY <3>1, <3>2
    <3> QED
      BY <3>3, Zenon DEF Searched
  <2>3. \A name : Getenv(name) => call'.fn = "getenv"
    BY DEF Getenv, Answer
  <2>4. \A s, base : Convert(s, base) => call'.fn = "strtoul"
    BY DEF Convert, Answer
  <2>5. \A p, count : Format(p, count) => call'.fn = "printf"
    BY DEF Format, Answer
  <2>6. \A hdr, file : LoadFile(hdr, file) => call'.fn = "elf"
    BY DEF LoadFile, Answer
  <2>7. call'.fn # "search" => Searched'
    BY DEF Searched
  <2> QED
    BY <1>3, <2>2, <2>3, <2>4, <2>5, <2>6, <2>7 DEF Ask
<1> QED
  BY <1>1, <1>2, <1>3 DEF Next

\* The path search runs the command of the first directory of PATH that has it, or
\* ends at a directory whose path is too long, wherever PATH is in the environment
\* and although the last directory is copied beyond its end.
THEOREM FirstIsRun == Spec => []FirstOnPath
<1>1. Searched => FirstOnPath
  <2> SUFFICES ASSUME Searched, call.fn = "search"
               PROVE  call.path = FirstPath(call.command, call.held)
    BY Zenon DEF FirstOnPath, FirstPath, CutPath, Cut, Has, Long, Dirs
  <2> QED
    BY DEF Searched
<1>2. Init => Searched
  <2> SUFFICES ASSUME Init PROVE call.fn # "search"
    BY DEF Searched
  <2> QED
    BY DEF Init
<1> QED
  BY <1>1, <1>2, SearchedStep, BootingInit, BootingStep, AnsweredInit, AnsweredStep, PTL
     DEF Spec
=============================================================================
