----------------------------- MODULE MCBuilders -----------------------------
(***************************************************************************)
(* The three builders of package c64 side by side: the disk image, the     *)
(* assembler, and program images with their cartridges. They share no      *)
(* state: one of them is chosen at the start and the others rest.          *)
(*                                                                         *)
(* Disk: four tracks; the directory track holds the map and three          *)
(* directory sectors of two entries, the data tracks three and five        *)
(* sectors of two bytes, and one track is reserved as on a D71. Up to      *)
(* seven files of one, two or three sectors fill the disk and the          *)
(* directory.                                                              *)
(*                                                                         *)
(* Assembler: every source of up to three of 31 lines, among them          *)
(* duplicate labels, constants on both sides of the zero page, a numeral   *)
(* as the name of one, two origins, one of them at the end of memory, and  *)
(* data that a branch just reaches, or just does not.                      *)
(*                                                                         *)
(* Images: pages of 8 bytes, banks of 16 and 128 addresses; programs of    *)
(* no to three pages with and without a rest, at, below and above the      *)
(* cartridge, below BASIC and the KERNAL, into the registers, over the     *)
(* pointers and into the zero page, with first lines of every kind;        *)
(* archives with free records, wrong end addresses and every error.        *)
(***************************************************************************)
EXTENDS DiskImage, Assembler, Images

VARIABLE part

\* The premise of the theorem about Boots holds of these files and archives.
ASSUME MCWellNamed == WellNamed

MCSectors == <<3, 4, 5, 2>>

Num(n) == [sel |-> "all", name |-> ToString(n), num |-> n]
Ref(s, n) == [sel |-> s, name |-> n, num |-> Bad]
Op(lbl, mn, form, e) == [k |-> "op", lbl |-> lbl, mnemonic |-> mn, form |-> form, e |-> e]
DataLine(lbl, word, items) ==
  [k |-> "data", lbl |-> lbl, word |-> word, closed |-> TRUE, items |-> items]
Str(n) == [str |-> TRUE, len |-> n, e |-> Num(0)]
Val(e) == [str |-> FALSE, len |-> 1, e |-> e]

MCLine == {
  [k |-> "const", name |-> "Z", val |-> 16],
  [k |-> "const", name |-> "Z", val |-> 4096],
  [k |-> "const", name |-> "Z", val |-> Bad], [k |-> "const", name |-> "16", val |-> 4096],
  [k |-> "org", val |-> 49152], [k |-> "org", val |-> 65534], [k |-> "org", val |-> Bad],
  [k |-> "basic", arg |-> <<Ref("all", "L")>>], [k |-> "basic", arg |-> <<>>],
  [k |-> "cart", arg |-> <<Ref("all", "L"), Ref("all", "Z")>>],
  [k |-> "none", lbl |-> {"L"}],
  [k |-> "enc", lbl |-> {}, known |-> TRUE, to |-> "petscii_upper"],
  [k |-> "enc", lbl |-> {}, known |-> FALSE, to |-> "ascii"],
  DataLine({"L"}, FALSE, <<Str(126)>>), DataLine({}, FALSE, <<Str(127)>>),
  DataLine({}, FALSE, <<Str(128)>>), DataLine({}, FALSE, <<Val(Ref("all", "L"))>>),
  DataLine({}, TRUE, <<Val(Ref("hi", "Z")), Val(Num(4096))>>), DataLine({}, TRUE, <<Str(1)>>),
  DataLine({}, FALSE, <<>>), [DataLine({}, FALSE, <<>>) EXCEPT !.closed = FALSE],
  Op({}, "NOP", "none", Num(0)), Op({"L"}, "ROL", "A", Num(0)),
  Op({}, "LDA", "plain", Ref("all", "Z")), Op({}, "INC", "x", Num(16)),
  Op({}, "LDA", "y", Ref("all", "Z")),
  Op({}, "STA", "indy", Ref("all", "Z")), Op({}, "LDA", "imm", Ref("lo", "L")),
  Op({}, "BNE", "plain", Ref("all", "L")), Op({}, "BNE", "x", Ref("all", "L")),
  Op({}, "JMP", "plain", Ref("all", "L"))}

Tag(n) == [i \in 1 .. n |-> 200 + i]
Prg(at, code, e) == [prg |-> NewProgram(code, at), entry |-> e]

MCFile == {
  Prg(40, Tag(3), 40), Prg(40, Tag(16), 40), Prg(16, Tag(27), 16), Prg(2, Tag(9), 2),
  Prg(60, Tag(9), 60), Prg(85, Tag(5), 85), Prg(100, Tag(9), 100), Prg(110, Tag(9), 110),
  Prg(1, Tag(3), 1), Prg(9, Tag(9), 9), Prg(9, <<1>>, 9), [prg |-> <<1>>, entry |-> 0],
  Prg(9, <<15, 1, 10, 0, 158, 32, 50, 51, 0, 0, 0, 1>>, 23),
  Prg(9, <<2, 2, 10, 0, 158, 52, 48, 58, 129>>, 40),
  Prg(9, <<7, 1, 10, 0, 143, 0, 0, 0, 3, 4>>, 14)}

Rec(t, s, e, o) == [type |-> t, start |-> s, end |-> e, offset |-> o]
Tape(max, recs, body, kept) ==
  [sig |-> TRUE, size |-> 64 + 32 * max + Len(body), max |-> max, recs |-> recs, body |-> body, kept |-> kept]

MCArchive == {
  Tape(2, <<Rec(0, 0, 0, 0), Rec(1, 40, 45, 128)>>, Tag(5), <<Tag(5)>>),
  Tape(2, <<Rec(1, 40, 45, 128), Rec(1, 30, 39, 133)>>, Tag(5) \o [i \in 1 .. 9 |-> i], <<Tag(5), [i \in 1 .. 9 |-> i]>>),
  Tape(1, <<Rec(1, 40, 40, 96)>>, Tag(5), <<Tag(5)>>), Tape(1, <<Rec(1, 40, 120, 96)>>, Tag(5), <<Tag(5)>>),
  Tape(1, <<Rec(1, 40, 45, 101)>>, Tag(5), <<Tag(5)>>), Tape(1, <<Rec(0, 0, 0, 0)>>, <<>>, <<>>),
  [Tape(1, <<Rec(1, 40, 45, 96)>>, Tag(5), <<Tag(5)>>) EXCEPT !.sig = FALSE],
  [Tape(2, <<Rec(1, 40, 45, 96)>>, Tag(5), <<Tag(5)>>) EXCEPT !.size = 100]}

MCRom == {Tag(n) : n \in {0, 5, 16, 17, 20, 32, 33}}

MCInit ==
  /\ Init /\ AsmInit /\ ImgInit
  /\ part \in {"disk", "assembler", "images"}
  /\ part # "disk" => files = <<>>

\* A builder that has returned.
MCOver ==
  /\ CASE part = "assembler" -> fate \notin {"reading", "emitting"}
       [] part = "images" -> imgStage \in {"running", "raw", "refused"}
       [] OTHER -> FALSE
  /\ UNCHANGED <<vars, asmVars, imgVars>>

MCNext ==
  /\ \/ part = "disk" /\ Next /\ UNCHANGED <<asmVars, imgVars>>
     \/ part = "assembler" /\ AsmNext /\ UNCHANGED <<vars, imgVars>>
     \/ part = "images" /\ ImgNext /\ UNCHANGED <<vars, asmVars>>
     \/ MCOver
  /\ UNCHANGED part

MCSpec == MCInit /\ [][MCNext]_<<vars, asmVars, imgVars, part>>
==============================================================================
