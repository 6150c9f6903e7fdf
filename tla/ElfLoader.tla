------------------------------ MODULE ElfLoader -----------------------------
(***************************************************************************)
(* elf_load_binary(): from a file to an image in memory.  The unit of sizes *)
(* and offsets is a section header; what a file holds at an offset is read  *)
(* as a header wherever the loader looks for one, and as the content of a   *)
(* section it is known by its offset.  klseek() and kread() are FileTable's *)
(* and FileRead's.                                                          *)
(***************************************************************************)
EXTENDS Integers, Sequences, FiniteSetsExt

CONSTANTS ELF_BUFFER,    \* size of the buffer for headers (4096 bytes)
          STRINGS,       \* size of section_string_table (2048 bytes)
          NO_OFFSET,     \* (off_t) -1
          READ_END,      \* offset from which on kread() answers -1
          MAPPED,        \* bytes of a file that the block map reaches
          Addresses      \* memory programs are loaded to

\* The names of sections fit the buffer that their headers fit.
ASSUME ElfAssumption ==
    /\ ELF_BUFFER \in Nat /\ STRINGS \in Nat /\ STRINGS < ELF_BUFFER
    /\ NO_OFFSET \in Nat /\ Addresses \subseteq Nat
    /\ READ_END \in Nat /\ MAPPED \in Nat /\ ELF_BUFFER <= MAPPED /\ MAPPED < READ_END

Elf32_Shdr == [type : STRING, addr : Nat, offset : Nat, size : Nat]

\* A file, as a function from 0 to its length - 1, and its header.
IsFile(file) ==
    /\ IsFiniteSet(DOMAIN file) /\ Cardinality(DOMAIN file) <= NO_OFFSET
    /\ DOMAIN file = 0 .. Cardinality(DOMAIN file) - 1
    /\ \A k \in DOMAIN file : file[k] \in Elf32_Shdr
IsHeader(hdr) ==
    hdr.shoff \in Nat /\ hdr.shnum \in Nat /\ hdr.shentsize \in Nat /\ hdr.shstrndx \in Nat

NoSection == [type |-> "NULL", addr |-> 0, offset |-> 0, size |-> 0]
Untouched == -1
Zero == -2

\* What kread() stores of n units from o on, what it answers, and whether it comes
\* to a block that the block map's assertion stops it at.
Available(file, o, n) ==
    IF o >= READ_END THEN 0 ELSE Max({Min({n, Cardinality(DOMAIN file) - o}), 0})
ReadAnswer(file, o, n) == IF o >= READ_END THEN -1 ELSE Available(file, o, n)
ReadHangs(file, o, n) == Available(file, o, n) > 0 /\ o + Available(file, o, n) > MAPPED

\* The buffer after n headers have been read from o: behind what the file had,
\* what was there stays.
Refilled(file, o, n, buffer) ==
    [k \in DOMAIN buffer |->
        IF k < Available(file, o, n) THEN file[o + k] ELSE buffer[k]]

ident(hdr) ==
    /\ hdr.magic
    /\ hdr.class = "CLASS32"
    /\ hdr.data = "MSB"              \* is_big_endian()
    /\ hdr.version = "CURRENT"
    /\ hdr.machine = "68K"

Loadable(sh) == sh.type \in {"PROGBITS", "NOBITS"} /\ sh.addr # 0

Covers(sh, a) == a \in sh.addr .. sh.addr + sh.size - 1

\* Slip: what is to be zero is left as it is.
Placed_NoBss(file, sh, memory) ==
    [a \in Addresses |->
        IF Covers(sh, a) /\ sh.type = "PROGBITS" THEN sh.offset + a - sh.addr ELSE memory[a]]
Placed(file, sh, memory) ==
    [a \in Addresses |->
        IF ~Covers(sh, a) THEN memory[a]
        ELSE IF sh.type = "NOBITS" THEN Zero ELSE sh.offset + a - sh.addr]

Complete(file, sh) ==
    sh.type = "PROGBITS" =>
        /\ ReadAnswer(file, sh.offset, sh.size) = sh.size
        /\ ~ReadHangs(file, sh.offset, sh.size)

\* The loop over the section headers: what one does to the image.
Section(file, sh, image) ==
    IF image.ret = "hung" \/ ~Loadable(sh) THEN image
    ELSE IF Complete(file, sh)
    THEN [ret |-> "1", memory |-> Placed(file, sh, image.memory)]
    ELSE [ret |-> "hung", memory |-> image.memory]

Sections(file, buffer, num, memory) ==
    LET after[n \in 0 .. num] ==
            IF n = 0 THEN [ret |-> "1", memory |-> memory]
            ELSE Section(file, buffer[n - 1], after[n - 1])
    IN  after[num]

\* The first read fills the buffer with the file's beginning, the second with
\* the section headers; of neither is it checked how much it read.
elf_load_binary(hdr, file) ==
    LET nothing == [a \in Addresses |-> Untouched]
        Answer(ret) == [ret |-> ret, memory |-> nothing]
        empty == [k \in 0 .. ELF_BUFFER - 1 |-> NoSection]
        table == Refilled(file, hdr.shoff, hdr.shnum * hdr.shentsize,
                          Refilled(file, 0, ELF_BUFFER, empty))
        strings == table[hdr.shstrndx]
    IN  IF ~ident(hdr) THEN Answer("0")
        ELSE IF hdr.shnum * hdr.shentsize >= ELF_BUFFER THEN Answer("hung")
        ELSE IF hdr.shoff = NO_OFFSET THEN Answer("0")
        ELSE IF ReadHangs(file, hdr.shoff, hdr.shnum * hdr.shentsize) THEN Answer("hung")
        ELSE IF strings.offset = NO_OFFSET THEN Answer("0")
        ELSE IF strings.size >= ELF_BUFFER THEN Answer("hung")
        ELSE IF ReadHangs(file, strings.offset, strings.size) THEN Answer("hung")
        ELSE IF Available(file, strings.offset, strings.size) > STRINGS THEN Answer("lost")
        ELSE Sections(file, table, hdr.shnum, nothing)

-----------------------------------------------------------------------------
\* What a file asks for.

\* How far a file can be read.
Reach(file) == Min({Cardinality(DOMAIN file), MAPPED})

\* Files of this machine as linkers write them, cut off anywhere behind the
\* section headers, or longer than the block map.
WellFormed(hdr, file) ==
    /\ ident(hdr)
    /\ hdr.shentsize = 1
    /\ hdr.shnum < ELF_BUFFER
    /\ hdr.shoff + hdr.shnum <= Reach(file)
    /\ hdr.shstrndx < hdr.shnum
    /\ LET strings == file[hdr.shoff + hdr.shstrndx]
       IN  /\ strings.size <= STRINGS
           /\ strings.offset # NO_OFFSET
           /\ strings.offset + strings.size <= MAPPED

Wanted(hdr, file) ==
    {i \in 0 .. hdr.shnum - 1 :
        /\ file[hdr.shoff + i].type \in {"PROGBITS", "NOBITS"}
        /\ file[hdr.shoff + i].addr # 0}

\* Every part of every section that is to be in memory is in the file, where it
\* can be read.
WholeFile(hdr, file) ==
    \A i \in Wanted(hdr, file) :
        LET sh == file[hdr.shoff + i]
        IN  sh.type = "PROGBITS" =>
                /\ sh.offset < READ_END
                /\ sh.size > 0 => sh.offset + sh.size <= Reach(file)

\* The image: where sections overlap, the last one is seen.
Image(hdr, file) ==
    [a \in Addresses |->
        LET over == {i \in Wanted(hdr, file) :
                        Covers(file[hdr.shoff + i], a)}
            sh == file[hdr.shoff + Max(over)]
        IN  IF over = {} THEN Untouched
            ELSE IF sh.type = "NOBITS" THEN Zero ELSE sh.offset + (a - sh.addr)]
=============================================================================
