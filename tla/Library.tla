------------------------------- MODULE Library ------------------------------
(***************************************************************************)
(* The kernel's library: after the BDOS has put its strings into the        *)
(* environment, one function is called after the other.  call is the call   *)
(* that has been answered, with its arguments and its answer.               *)
(***************************************************************************)
EXTENDS Environ, Strtoul, Printf, ElfLoader, Fletcher16

CONSTANTS BootStrings,   \* what bdos_init() puts into the environment
          Names,         \* variables that are asked for
          PathDirs,      \* the directories of PATH, in their order
          Commands,      \* names of commands
          Numerals,      \* strings given to strtoul(), and bases
          Bases,
          Prints,        \* calls of snprintf(), [kind, format, args, ...], as a
                         \* sequence of sets with one type of arguments each
          Counts,        \* sizes of its buffers
          Headers,       \* ELF headers
          Files          \* and files, as functions from 0

\* Where the strings of the BDOS are in the environment.
Starts[k \in 1 .. Len(BootStrings) + 1] ==
    IF k = 1 THEN 0 ELSE Starts[k - 1] + Len(BootStrings[k - 1]) + 1

\* A string defines a name if it begins with all of it and an =.
Defines(s, name) ==
    LET head == Append(name, "=")
    IN  Len(head) <= Len(s) /\ SubSeq(s, 1, Len(head)) = head
Definitions(name) == {j \in 1 .. Len(BootStrings) : Defines(BootStrings[j], name)}

\* The first k directories of PATH.
Colons[k \in 1 .. Len(PathDirs)] ==
    IF k = 1 THEN PathDirs[1] ELSE Colons[k - 1] \o <<":">> \o PathDirs[k]

\* Variables have names, and all of them fit the block.  Nobody prints a NUL.
ASSUME LibraryAssumption ==
    /\ BootStrings \in Seq(Seq(STRING \ {NUL}))
    /\ \A k \in 1 .. Len(BootStrings) :
           /\ BootStrings[k][1] # "="
           /\ \E m \in 2 .. Len(BootStrings[k]) : BootStrings[k][m] = "="
    /\ Starts[Len(BootStrings) + 1] < MAX_ENVIRON - 1
    /\ \A name \in Names : name \in Seq(STRING \ {NUL})
    /\ \A s \in Numerals : s \in Seq(1 .. 255)
    /\ Bases \subseteq 0 .. 36
    /\ \A k \in 1 .. Len(Prints) : \A p \in Prints[k] :
           Output(p.format, p.args) \in Seq(STRING \ {NUL})
    /\ Counts \subseteq Nat /\ MANTISSA \in Nat \ {0}
    /\ \A hdr \in Headers : IsHeader(hdr)
    /\ \A file \in Files : IsFile(file)

PathOf(dir, command) == dir \o <<"/">> \o command

\* The paths of the files that the directories hold, each its own set of names.
PathsIn(held) == UNION {{PathOf(d, c) : c \in held[d]} : d \in DOMAIN held}

\* PATH names directories one by one, none of them by two slashes in front, and
\* no string behind it has a colon; a command that begins with a slash is not
\* looked for in PATH.  No path is that of two commands.
ASSUME SearchAssumption ==
    /\ PathDirs \in Seq(Seq(STRING \ {NUL})) /\ Len(PathDirs) > 0
    /\ \A k \in 1 .. Len(PathDirs) :
           /\ Len(PathDirs[k]) > 0
           /\ \A m \in 1 .. Len(PathDirs[k]) : PathDirs[k][m] # ":"
           /\ PathDirs[k][1] = "/" => Len(PathDirs[k]) > 1 /\ PathDirs[k][2] # "/"
    /\ \E j \in Definitions(PATH) :
           /\ BootStrings[j] = PATH \o <<"=">> \o Colons[Len(PathDirs)]
           /\ \A k \in Definitions(PATH) : j <= k
           /\ \A k \in j + 1 .. Len(BootStrings) :
                  \A m \in 1 .. Len(BootStrings[k]) : BootStrings[k][m] # ":"
    /\ \A s \in Commands : s \in Seq(STRING \ {NUL}) /\ Len(s) > 0 /\ s[1] # "/"
    /\ \A j, k \in 1 .. Len(PathDirs) : \A s, t \in Commands :
           PathOf(Chomped(PathDirs[j]), Chomped(s)) = PathOf(Chomped(PathDirs[k]), Chomped(t))
               => Chomped(PathDirs[j]) = Chomped(PathDirs[k]) /\ Chomped(s) = Chomped(t)

VARIABLE call

vars == <<block, sums, call>>

\* Boot: the strings still to be put.
Init ==
    /\ EInit /\ FInit
    /\ call = [fn |-> "boot", left |-> BootStrings]

Boot ==
    /\ call.fn = "boot" /\ call.left # <<>>
    /\ kputenv(Head(call.left))
    /\ call' = [call EXCEPT !.left = Tail(@)]
    /\ UNCHANGED sums

Started ==
    /\ call.fn = "boot" /\ call.left = <<>>
    /\ call' = [fn |-> "none"]
    /\ UNCHANGED <<block, sums>>

Answer(record) ==
    /\ call.fn = "none"
    /\ call' = record
    /\ UNCHANGED <<block, sums>>

Getenv(name) ==
    Answer([fn |-> "getenv", name |-> name, value |-> kgetenv(name)])

\* The disk: which directories of PATH there are, and what each of them holds.
Disks ==
    UNION {[dirs -> SUBSET {Chomped(s) : s \in Commands}] :
               dirs \in SUBSET {Chomped(PathDirs[k]) : k \in 1 .. Len(PathDirs)}}
Search(s, held) ==
    Answer([fn |-> "search", command |-> s, held |-> held,
            path |-> search_path(s, DOMAIN held, PathsIn(held))])

Convert(s, base) ==
    Answer([fn |-> "strtoul", s |-> s, base |-> base, result |-> kernel_strtoul(s, base)])

\* The ways into _vsnprintf().  The buffers are larger than the caller says.
Buffer(n) == [k \in 0 .. n + 1 |-> "old"]
Format(p, count) ==
    LET shown == kprintf(p.format, p.args)
    IN  Answer([fn |-> "printf", print |-> p, count |-> count,
                shown |-> shown,
                passed |-> kernel_fctprintf(p.format, p.args),
                counted |-> kernel_snprintf(NoBuffer, count, p.format, p.args),
                whole |-> kernel_sprintf(Buffer(Len(shown)), p.format, p.args),
                stored |-> kernel_snprintf(Buffer(count), count, p.format, p.args)])

LoadFile(hdr, file) ==
    Answer([fn |-> "elf", hdr |-> hdr, file |-> file,
            loaded |-> elf_load_binary(hdr, file)])

Checksum ==
    /\ call.fn \in {"none", "fletcher16"}
    /\ FNext
    /\ call' = [fn |-> IF at' = "idle" THEN "none" ELSE "fletcher16"]
    /\ UNCHANGED block

Leave ==
    /\ call.fn \notin {"boot", "none", "fletcher16"}
    /\ call' = [fn |-> "none"]
    /\ UNCHANGED <<block, sums>>

Ask ==
    \/ \E name \in Names : Getenv(name)
    \/ \E s \in Commands : \E held \in Disks : Search(s, held)
    \/ \E s \in Numerals : \E base \in Bases : Convert(s, base)
    \/ \E k \in 1 .. Len(Prints) : \E p \in Prints[k] : \E count \in Counts : Format(p, count)
    \/ \E hdr \in Headers : \E file \in Files : LoadFile(hdr, file)

Next ==
    \/ Boot \/ Started \/ Checksum \/ Leave
    \/ call.fn = "none" /\ Ask

Spec == Init /\ [][Next]_vars

-----------------------------------------------------------------------------
\* Properties.

\* kgetenv() finds the first string with the name, all of the name and nothing
\* but the name in front of its =, and always comes to the end of the block.
FirstDefinition ==
    call.fn = "getenv" =>
        LET defs == Definitions(call.name)
        IN  IF defs = {} THEN call.value = NULL
            ELSE /\ call.value >= 0
                 /\ Append(call.name, "=") \o Str(call.value) = BootStrings[Min(defs)]

\* The path search runs the command of the first directory of PATH that has it,
\* past directories that are not there and those that lack the command, and
\* although it copies the last directory beyond its end; it ends with nothing at
\* a directory that makes the path too long for the buffer.  The path has lost
\* the slashes its two parts ended with.
FirstOnPath ==
    call.fn = "search" =>
        LET has == {k \in 1 .. Len(PathDirs) :
                       /\ Chomped(PathDirs[k]) \in DOMAIN call.held
                       /\ Chomped(call.command) \in call.held[Chomped(PathDirs[k])]}
            long == {k \in 1 .. Len(PathDirs) :
                        Len(PathDirs[k]) + 1 + Len(call.command) >= MAX_PATH}
        IN  call.path = IF has = {} \/ (\E k \in long : k <= Min(has)) THEN <<>>
                        ELSE PathOf(Chomped(PathDirs[Min(has)]), Chomped(call.command))

\* strtoul() computes the value a C library does, at its largest one and beyond
\* too, and says where the number ends; but for 0x with no digit behind it, of
\* which it says that there was no number, and C that the zero was one.
StrtoulExact ==
    call.fn = "strtoul" =>
        LET C == Reference(call.s, call.base)
        IN  /\ call.result.value = C.value
            /\ BarePrefix(call.s, call.base) \/ call.result.end = C.end

\* snprintf() keeps to its buffer and ends it with a NUL; what it stores is what
\* kprintf() shows, all of it if it fits, and then the answer is its length.  An
\* answer not below the size of the buffer, and only that, says that it is cut
\* short; it is the length that was wanted, not the size as printf.h has it.  So
\* does a call without a buffer, and sprintf(), whose buffer is large enough.
Holds(stored, text, count) ==
    LET kept == Min({Len(text), count - 1})
    IN  /\ IF Len(text) < count THEN stored.ret = Len(text) ELSE stored.ret >= count
        /\ \A k \in DOMAIN stored.buffer :
               stored.buffer[k] = IF k < kept THEN text[k + 1]
                                  ELSE IF k = kept THEN "NUL" ELSE "old"
BufferKept ==
    call.fn = "printf" =>
        /\ Holds(call.stored, call.shown, call.count)
        /\ Holds(call.whole, call.shown, Len(call.shown) + 1)
        /\ Holds(call.counted, call.shown, call.count)
        /\ call.passed = Append(call.shown, "NUL")

\* Numbers, strings and characters look as C says, but for a negative number as
\* long as its field.
FormatsAsC ==
    call.fn = "printf" /\ call.print.kind # "decimal" =>
        call.shown =
            LET p == call.print
            IN  CASE p.kind = "number" -> CNumber(p.spec, p.args[1], p.d)
                  [] p.kind = "string" -> CString(p.args[1], p.d)
                  [] p.kind = "text" -> p.wanted

\* A percentage is shown by the decimal number nearest to it, as near as the
\* product with the power of ten is to what it should be, also where the carry
\* goes through all of the decimals.  It does not when exactly a half is behind
\* nothing but nines: then the carry is lost, and the text is neither.
DecimalsNearest ==
    LET p == call.print
    IN  call.fn = "printf" /\ p.kind = "decimal" /\ ~HalfOfNines(p.args[1], p.d.prec) =>
            Nearest(call.shown, p.args[1], p.d.prec)

\* The loader runs what is whole, and nothing that has been cut short; what it
\* runs is in memory as its file says, every section where it belongs, the rest
\* of it zero, and nothing written elsewhere.
ImageLoaded ==
    call.fn = "elf" /\ WellFormed(call.hdr, call.file) =>
        IF WholeFile(call.hdr, call.file)
        THEN /\ call.loaded.ret = "1"
             /\ call.loaded.memory = Image(call.hdr, call.file)
        ELSE call.loaded.ret = "hung"
=============================================================================
