------------------------------ MODULE Images ------------------------------
(***************************************************************************)
(* Programs on their way into the memory of a C64: read from a PRG file or *)
(* a T64 archive (c64/program.go, c64/t64.go), wrapped into a cartridge    *)
(* with a bootstrap that copies them to their place (c64/crt.go), which    *)
(* runs when the C64 is switched on. Raw cartridges are mapped only.       *)
(*                                                                         *)
(* Addresses are scaled: a page, a ROM bank and the memory have the sizes  *)
(* of the constants. Bytes are numbers; those of the bootstrap are zero.   *)
(***************************************************************************)
EXTENDS Integers, Sequences, SequencesExt, FiniteSetsExt

CONSTANTS
  Page, Size,             \* bytes per page and of the whole memory
  Bank, RomAt, HighRom,   \* bytes of a ROM bank, where the first and the Ultimax one lie
  BootLen,                \* bytes of the bootstrap
  Pointers,               \* the four bytes of the zero page it uses, $fb-$fe
  BasicAt, BasicEnd,      \* $0801, and $0900, the last link of a short first line
  DefaultEntry,           \* $080D
  File,                   \* PRG files: [prg, entry], the bytes and where the program starts
  Archive,                \* T64 files: [sig, size, max, recs, body, kept], see ParseT64
  RomData                 \* contents of raw cartridges

\* Memory is made of whole pages. The pointers lie below the ROM, and the two banks of a
\* 16K cartridge below the bank of an Ultimax one, where half a bank of I/O lies.
ASSUME LayoutAssumption ==
  /\ {Page, Size} \subseteq Nat \ {0}
  /\ Size % Page = 0
  /\ {Bank, RomAt, HighRom, BootLen, Pointers, BasicAt, BasicEnd, DefaultEntry} \subseteq Nat
  /\ Pointers + 3 < RomAt
  /\ RomAt + 2 * Bank <= HighRom - Bank \div 2
  /\ HighRom + Bank <= Size

Types == {"8K", "16K", "Ultimax"}

VARIABLES
  imgStage,   \* "choose", "program", "boot", "pages", "rest", "running", "raw", "refused"
  file,       \* what is put in: [at, bytes, entry], or the contents of a raw cartridge
  prog,       \* the Program: load address, low and high, and code
  crt,        \* the cartridge: its type and chips [at, data]
  ram,
  jumpTo, x, y \* where the bootstrap jumps; its registers

imgVars == <<imgStage, file, prog, crt, ram, jumpTo, x, y>>

-----------------------------------------------------------------------------
(* Programs and archives *)

NewProgram(code, address) == <<address % Page, address \div Page>> \o code
NewProgramFromPRG(data) == IF Len(data) < 2 THEN <<>> ELSE data
Code(p) == SubSeq(p, 3, Len(p))
LoadAddress(p) == IF Len(p) < 2 THEN 0 ELSE p[1] + Page * p[2]

\* ParseT64: the entries of an archive, <<>> for an error. The contents of the used
\* records lie in body behind the header of 64 bytes and max records of 32 bytes. An
\* end address that is not behind the start, or behind the end of the file, is
\* replaced by the end of the file.
ParseT64(a) ==
  LET head == 64 + 32 * a.max
      used == SelectSeq(a.recs, LAMBDA r : r.type # 0)
      length(r) == LET n == r.end - r.start
                   IN IF n <= 0 \/ r.offset + n > a.size THEN a.size - r.offset ELSE n
      entries == [i \in DOMAIN used |->
                    [start |-> used[i].start,
                     data |-> SubSeq(a.body, used[i].offset - head + 1,
                                     used[i].offset - head + length(used[i]))]]
  IN IF a.size < 64 \/ ~a.sig \/ a.size < head \/ \E i \in DOMAIN used : used[i].offset >= a.size
     THEN <<>> ELSE entries

-----------------------------------------------------------------------------
(* Cartridges *)

NoEntry == -1
Digits10 == 48 .. 57

\* parseSYSEntryPoint: the number behind the first SYS of the first line that has
\* one. It wraps like a uint16.
parseSYSEntryPoint(code) ==
  LET end == Min({i \in 5 .. Len(code) : code[i] = 0} \union {Len(code) + 1})
      stop(i) == Min({j \in i + 1 .. end - 1 : code[j] \notin Digits10 \union {32}} \union {end})
      digits(i) == SelectSeq(SubSeq(code, i + 1, stop(i) - 1), LAMBDA b : b \in Digits10)
      sys == {i \in 5 .. end - 1 : code[i] = 158 /\ digits(i) # <<>>}
      Value(s) == FoldLeft(LAMBDA n, b : (10 * n + b - 48) % Size, 0, s)
  IN IF Len(code) < 6 \/ code[1] + Page * code[2] = 0 \/ sys = {} THEN NoEntry
     ELSE Value(digits(Min(sys)))

hasBASICHeader(code) ==
  LET nextPtr == code[1] + Page * code[2]
  IN /\ Len(code) >= 6
     /\ nextPtr \in BasicAt + 4 .. BasicEnd
     /\ nextPtr - BasicAt <= Len(code)
     /\ code[nextPtr - BasicAt] = 0

Entry(p) ==
  LET basic == LoadAddress(p) = BasicAt
      sys == parseSYSEntryPoint(Code(p))
  IN CASE basic /\ sys # NoEntry -> sys
       [] basic /\ sys = NoEntry /\ hasBASICHeader(Code(p)) -> DefaultEntry
       [] OTHER -> LoadAddress(p)

Padded(data, n) == data \o [i \in 1 .. n - Len(data) |-> 255]

\* NewRawCartridge: the chips of a cartridge, each filled up to one or two banks.
Chips(type, rom) ==
  CASE type = "8K" -> <<[at |-> RomAt, data |-> Padded(rom, Bank)]>>
    [] type = "16K" -> <<[at |-> RomAt, data |-> Padded(rom, 2 * Bank)]>>
    [] type = "Ultimax" /\ Len(rom) <= Bank -> <<[at |-> HighRom, data |-> Padded(rom, Bank)]>>
    [] OTHER -> <<[at |-> RomAt, data |-> SubSeq(rom, 1, Bank)],
                  [at |-> HighRom, data |-> Padded(SubSeq(rom, Bank + 1, Len(rom)), Bank)]>>

\* A cartridge holds at most its banks, and at least one byte unless it is filled up
\* before the chips are written.
Fit(type, rom) ==
  Len(rom) \in (IF type = "16K" THEN 0 ELSE 1) .. (IF type = "8K" THEN Bank ELSE 2 * Bank)

\* The parts of the C64 that lie over the memory: BASIC where the second bank of a 16K
\* cartridge goes, the KERNAL where an Ultimax one goes, and the registers below it.
Basic == RomAt + Bank .. RomAt + 2 * Bank - 1
Registers == HighRom - Bank \div 2 .. HighRom - 1
Kernal == HighRom .. HighRom + Bank - 1
Foreign == -2   \* a byte that is of no program

\* What the CPU reads: the chips hide all below them, an Ultimax cartridge switches the
\* ROMs of the C64 off. What it writes goes to the memory below a ROM, or to a register.
Peeked(a) ==
  LET chips == {c \in ToSet(crt.chips) : a \in c.at .. c.at + Len(c.data) - 1}
  IN IF chips # {} THEN LET c == CHOOSE c \in chips : TRUE IN c.data[a - c.at + 1]
     ELSE IF a \in Registers \/ (crt.type # "Ultimax" /\ a \in Basic \union Kernal) THEN Foreign
     ELSE ram[a]

\* The bytes of files, and what the archives hold, are bytes behind addresses.
ASSUME FilesAssumption ==
  /\ \A f \in File : f.prg \in Seq(Nat)
  /\ \A a \in Archive : ParseT64(a) \in Seq([start : Nat, data : Seq(Nat)])
  /\ RomData \subseteq Seq(Nat)

\* The reference values beside the files say what they hold: where the program of a
\* PRG file starts, and what was saved in an archive and that it starts at its first
\* byte.
WellNamed ==
  /\ \A f \in File : f.entry = Entry(NewProgramFromPRG(f.prg))
  /\ \A a \in Archive : \A i \in DOMAIN ParseT64(a) :
       LET e == ParseT64(a)[i]
       IN a.kept[i] = e.data /\ Entry(NewProgram(e.data, e.start)) = e.start

-----------------------------------------------------------------------------
(* The way of a program *)

NoCrt == [type |-> "none", chips |-> <<>>]

ImgInit ==
  /\ imgStage = "choose"
  /\ file = [at |-> 0, bytes |-> <<>>, entry |-> 0]
  /\ prog = <<>> /\ crt = NoCrt
  /\ ram = [a \in 0 .. Size - 1 |-> 0]
  /\ jumpTo = 0 /\ x = 0 /\ y = 0

OpenPRG(f) ==
  /\ imgStage = "choose"
  /\ prog' = NewProgramFromPRG(f.prg)
  /\ file' = [at |-> LoadAddress(prog'), bytes |-> Code(prog'), entry |-> f.entry]
  /\ imgStage' = "program"
  /\ UNCHANGED <<crt, ram, jumpTo, x, y>>

\* One entry of an archive; kept is what was once saved in it.
OpenT64(a, i) ==
  /\ imgStage = "choose"
  /\ IF i \in DOMAIN ParseT64(a)
     THEN /\ prog' = NewProgram(ParseT64(a)[i].data, ParseT64(a)[i].start)
          /\ file' = [at |-> ParseT64(a)[i].start, bytes |-> a.kept[i], entry |-> ParseT64(a)[i].start]
          /\ imgStage' = "program"
     ELSE imgStage' = "refused" /\ UNCHANGED <<prog, file>>
  /\ UNCHANGED <<crt, ram, jumpTo, x, y>>

\* NewRAMCartridge: explicit is NoEntry or an entry point that overrides the one found.
\* A jump into the zero page is no instruction of the bootstrap's assembler.
NewRAMCartridge(type, explicit) ==
  LET rom == [i \in 1 .. BootLen |-> 0] \o Code(prog)
      entry == IF explicit # NoEntry THEN explicit ELSE Entry(prog)
      good == Code(prog) # <<>> /\ type # "Ultimax" /\ Fit(type, rom) /\ entry >= Page
  IN /\ imgStage = "program"
     /\ imgStage' = IF good THEN "boot" ELSE "refused"
     /\ crt' = IF good THEN [type |-> type, chips |-> Chips(type, rom)] ELSE NoCrt
     /\ jumpTo' = entry
     /\ file' = IF explicit # NoEntry THEN [file EXCEPT !.entry = explicit] ELSE file
     /\ UNCHANGED <<prog, ram, x, y>>

NewRawCartridge(type, rom) ==
  /\ imgStage = "choose"
  /\ imgStage' = IF Fit(type, rom) THEN "raw" ELSE "refused"
  /\ crt' = IF Fit(type, rom) THEN [type |-> type, chips |-> Chips(type, rom)] ELSE NoCrt
  /\ file' = [file EXCEPT !.bytes = rom]
  /\ UNCHANGED <<prog, ram, jumpTo, x, y>>

-----------------------------------------------------------------------------
(* The bootstrap *)

source == Pointers
dest == Pointers + 2

\* sta (p),y and lda (p),y
At(p) == (ram[p] + Page * ram[p + 1] + y) % Size
CopyByte ==
  IF At(dest) \in Registers THEN ram ELSE [ram EXCEPT ![At(dest)] = Peeked(At(source))]

ColdStart ==
  /\ imgStage = "boot"
  /\ ram' = [ram EXCEPT ![source] = (RomAt + BootLen) % Page, ![source + 1] = (RomAt + BootLen) \div Page,
                        ![dest] = LoadAddress(prog) % Page, ![dest + 1] = LoadAddress(prog) \div Page]
  /\ y' = 0
  /\ x' = Len(Code(prog)) \div Page
  /\ imgStage' = IF x' = 0 THEN "rest" ELSE "pages"
  /\ UNCHANGED <<file, prog, crt, jumpTo>>

NextPage(m, p) == [m EXCEPT ![p + 1] = (@ + 1) % (Size \div Page)]

\* Mutant of CopyPages: the high byte of the destination stays.
CopyPagesOver ==
  /\ imgStage = "pages"
  /\ y' = (y + 1) % Page
  /\ ram' = IF y' = 0 THEN NextPage(CopyByte, source) ELSE CopyByte
  /\ x' = IF y' = 0 THEN x - 1 ELSE x
  /\ imgStage' = IF x' = 0 THEN "rest" ELSE "pages"
  /\ UNCHANGED <<file, prog, crt, jumpTo>>

\* copy_page_loop: one byte, and behind the last one of a page the next page.
CopyPages ==
  /\ imgStage = "pages"
  /\ y' = (y + 1) % Page
  /\ ram' = IF y' = 0 THEN NextPage(NextPage(CopyByte, source), dest) ELSE CopyByte
  /\ x' = IF y' = 0 THEN x - 1 ELSE x
  /\ imgStage' = IF x' = 0 THEN "rest" ELSE "pages"
  /\ UNCHANGED <<file, prog, crt, jumpTo>>

\* copy_rem_loop, and the jump when y has reached the remaining bytes.
CopyRest ==
  /\ imgStage = "rest"
  /\ IF y = Len(Code(prog)) % Page
     THEN imgStage' = "running" /\ UNCHANGED <<ram, y>>
     ELSE imgStage' = "rest" /\ ram' = CopyByte /\ y' = (y + 1) % Page
  /\ UNCHANGED <<file, prog, crt, jumpTo, x>>

ImgNext ==
  \/ \E f \in File : OpenPRG(f)
  \/ \E a \in Archive : \E i \in 1 .. a.max : OpenT64(a, i)
  \/ \E type \in Types : \/ \E explicit \in {NoEntry, Page - 1, Page} : NewRAMCartridge(type, explicit)
                         \/ \E rom \in RomData : NewRawCartridge(type, rom)
  \/ ColdStart \/ CopyPages \/ CopyRest

ImgSpec == ImgInit /\ [][ImgNext]_imgVars

\* A program that fits into the memory: not over the port of the CPU and the pointers
\* of the bootstrap, not among the registers, not beyond the end of memory.
Clear ==
  LET place == file.at .. file.at + Len(Code(prog)) - 1
  IN /\ file.at + Len(Code(prog)) <= Size
     /\ place \cap ({0, 1} \union (Pointers .. Pointers + 3) \union Registers) = {}

\* When the bootstrap jumps, the program that was put in lies in memory where it
\* belongs, and the CPU sees it there unless a ROM lies over that address; the jump
\* goes where it starts, be it the address of its SYS line, the default behind one,
\* its first byte or an explicit one, and that is not in the zero page; and of a raw
\* cartridge the C64 sees every byte at the address its type promises.
\* Source: c64/crt.go:164-254, 339-454, c64/t64.go:44-124, c64/program.go:10-63.
Boots ==
  /\ imgStage = "running" /\ Clear
       => /\ \A i \in DOMAIN file.bytes :
               LET a == file.at + i - 1
                   hidden == \/ a \in Basic \union Kernal
                             \/ \E c \in ToSet(crt.chips) : a \in c.at .. c.at + Len(c.data) - 1
               IN /\ ram[a] = file.bytes[i]
                  /\ ~hidden => Peeked(a) = file.bytes[i]
          /\ jumpTo = file.entry /\ jumpTo >= Page
  /\ imgStage = "raw"
       => \A i \in DOMAIN file.bytes :
            Peeked(IF crt.type # "Ultimax" THEN RomAt + i - 1
                   ELSE IF Len(file.bytes) <= Bank THEN HighRom + i - 1
                   ELSE IF i <= Bank THEN RomAt + i - 1 ELSE HighRom + i - 1 - Bank) = file.bytes[i]
=============================================================================
