----------------------------- MODULE DebugView -----------------------------
(***************************************************************************)
(* The debug service of debug.go and the pictures of c64/c64.go: what the  *)
(* C64 shows, put together from several reads of memory and of the         *)
(* registers of VIC and CIA 2, between which a program on the C64 may      *)
(* change the registers and what is in memory. One read is one moment.     *)
(*                                                                         *)
(* Memory is one of several drawings: texts through the codec, bitmaps and *)
(* sprites from the dots Ink(w, x, y), a BASIC program as the interpreter  *)
(* links it. Where texts, bitmaps and sprites lie is the same in all.      *)
(***************************************************************************)
EXTENDS Codecs, Sequences, FiniteSets

CONSTANTS
  Setup,              \* settings of the registers: functions of the offset from $D000
  Drawing,            \* what the memory holds, one after the other
  TextPage, PokedPage,  \* text screens, printed and, with the second set, poked
  Text(_),            \* the ASCII text repeated on them
  BitmapPage,         \* addresses of bitmaps
  SpriteBlock,        \* blocks of 64 bytes with a sprite
  BASICProgram(_),    \* the lines of a program: [number, text], text as LIST shows it
  Ink(_, _, _),       \* the dots drawn
  Ram(_, _),          \* all other memory
  CharCell, Pixel, Dot, Glyph,   \* the cells, pixels, sprite dots and characters looked at
  MaxTurns            \* bound on the changes of registers and memory

VARIABLES
  regs, drawn,  \* the registers and the drawing now
  op,           \* the call that runs, "" before the first one
  got,          \* the moments [regs, drawn] of the reads it has done
  picture,      \* what the last call returned, "error" for an error
  turns         \* changes so far

viewVars == <<regs, drawn, op, got, picture, turns>>

Bit(v, i) == (v \div 2 ^ i) % 2 = 1
Low(v, n) == v % 2 ^ n

\* The offsets of the registers: $D011, $D016, $D018, $D021 and $DD00.
d011 == 17
d016 == 22
d018 == 24
d021 == 33
dd00 == 3328

-----------------------------------------------------------------------------
(* Memory *)

\* Eight dots to a byte, the first one in its highest bit.
Byte(d) ==
  128 * d[1] + 64 * d[2] + 32 * d[3] + 16 * d[4] + 8 * d[5] + 4 * d[6] + 2 * d[7] + d[8]
Dots(w, x, y) == [i \in 1 .. 8 |-> Ink(w, x + i - 1, y)]

\* encodeImageRaw: byte k of the sprite with the dots Ink, three bytes to a row.
encodeImageRaw(w, k) == IF k = 63 THEN 0 ELSE Byte(Dots(w, 8 * (k % 3), k \div 3))

\* encodeMulticolorImageRaw: the same from double dots of two bits.
encodeMulticolorImageRaw(w, k) ==
  LET pen(x) == 2 * Ink(w, 2 * x, k \div 3) + Ink(w, 2 * x + 1, k \div 3)
      left == 4 * (k % 3)
  IN IF k = 63 THEN 0 ELSE 64 * pen(left) + 16 * pen(left + 1) + 4 * pen(left + 2) + pen(left + 3)

\* The cells of a text screen and the bytes of a bitmap.
TextSize == 1000
BitmapSize == 8000

TextAt(w, c) == Text(w)[(c % Len(Text(w))) + 1]

\* A cell of a bitmap is eight bytes, a row of cells 320.
BitmapByte(w, o) == Byte(Dots(w, 8 * ((o % 320) \div 8), 8 * (o \div 320) + (o % 8)))

\* The bytes of the text of a line.
Bytes(text) == [i \in DOMAIN text |-> text[i][2]]

\* A line of a program at an address: the address of the next line, its number, its text.
LineBytes(l, at) ==
  LET next == at + Len(l.text) + 5
  IN <<Low(next, 8), next \div 256, Low(l.number, 8), l.number \div 256>>
     \o Bytes(l.text) \o <<0>>

\* The first n lines of the program, from $0801 on.
ProgramStart == 2049
ProgramLines(w) ==
  LET upTo[n \in 0 .. Len(BASICProgram(w))] ==
        IF n = 0 THEN <<>>
        ELSE upTo[n - 1] \o LineBytes(BASICProgram(w)[n], ProgramStart + Len(upTo[n - 1]))
  IN upTo
ProgramBytes(w) == ProgramLines(w)[Len(BASICProgram(w))] \o <<0, 0>>

\* What is drawn at an address.
TextsAt(a) == {p \in TextPage : a \in p .. p + TextSize - 1}
PokedAt(a) == {p \in PokedPage : a \in p .. p + TextSize - 1}
BitmapsAt(a) == {p \in BitmapPage : a \in p .. p + BitmapSize - 1}
InSprite(a) == a \div 64 \in SpriteBlock
InProgram(w, a) == a - ProgramStart + 1 \in DOMAIN ProgramBytes(w)

Memory(w, a) ==
  LET First(pages) == CHOOSE p \in pages : TRUE
  IN CASE TextsAt(a) # {} -> bsout(encodePETSCII(TextAt(w, a - First(TextsAt(a)))))
       [] TextsAt(a) = {} /\ PokedAt(a) # {} -> asciiToScreen(TextAt(w, a - First(PokedAt(a))), TRUE)
       [] TextsAt(a) \union PokedAt(a) = {} /\ BitmapsAt(a) # {} -> BitmapByte(w, a - First(BitmapsAt(a)))
       [] TextsAt(a) \union PokedAt(a) \union BitmapsAt(a) = {} /\ InSprite(a) ->
            IF (a \div 64) % 2 = 0 THEN encodeImageRaw(w, a % 64) ELSE encodeMulticolorImageRaw(w, a % 64)
       [] TextsAt(a) \union PokedAt(a) \union BitmapsAt(a) = {} /\ ~InSprite(a) /\ InProgram(w, a) ->
            ProgramBytes(w)[a - ProgramStart + 1]
       [] OTHER -> Ram(w, a)

-----------------------------------------------------------------------------
(* The decoders *)

\* Mutant of bankBase: the bits of the port are not inverted.
bankBasePlain(cia) == Low(cia[dd00], 2) * 16384
bankBase(cia) == (3 - Low(cia[dd00], 2)) * 16384

matrix(vic, cia) == bankBase(cia) + (vic[d018] \div 16) * 1024

ScreenMode(vic) ==
  LET ecm == Bit(vic[d011], 6)  bmm == Bit(vic[d011], 5)  mcm == Bit(vic[d016], 4)
  IN CASE ecm /\ ~bmm -> "extended color"
       [] bmm -> IF mcm THEN "multicolor bitmap" ELSE "bitmap"
       [] OTHER -> IF mcm THEN "multicolor text" ELSE "text"

\* The colors come with the registers, the characters later.
Screen(m) ==
  LET io == m[1].regs
      lowercase == Bit(io[d018], 1)
      code(c) == Memory(m[2].drawn, matrix(io, io) + c)
  IN [mode |-> ScreenMode(io), lowercase |-> lowercase,
      color |-> [c \in CharCell |-> Memory(m[1].drawn, 55296 + c)],
      petscii |-> [c \in CharCell |-> screenCodeToPETSCII(code(c))],
      rows |-> IF Bit(io[d011], 5) THEN <<>>
               ELSE [c \in CharCell |-> screenCodeToChar(code(c), lowercase)]]

\* DecodeBASICLine: tokens outside quotes, codes in guillemets, control characters
\* outside quotes left out.
Quoted(data, i) == Cardinality({j \in 1 .. i - 1 : data[j] = 34}) % 2 = 1
Atom(data, i) ==
  <<CASE data[i] \in 32 .. 126 -> "char"
      [] data[i] \in 128 .. 203 /\ ~Quoted(data, i) -> "token"
      [] data[i] > 203 \/ (data[i] \in (0 .. 31) \cup (127 .. 203) /\ Quoted(data, i)) -> "code"
      [] OTHER -> "skipped", data[i]>>

DecodeBASICLine(data) ==
  LET said[i \in 0 .. Len(data)] ==
        IF i = 0 THEN <<>>
        ELSE IF Atom(data, i)[1] = "skipped" THEN said[i - 1]
        ELSE Append(said[i - 1], Atom(data, i))
  IN said[Len(data)]

\* DecodeBASICProgram over the 4096 bytes from $0801.
ListSize == 4096
listByte(w, i) == Memory(w, ProgramStart + i)
Word(low, high) == low + 256 * high
listWord(w, i) == Word(listByte(w, i), listByte(w, i + 1))
LineEnd(w, i) ==
  CHOOSE e \in i .. ListSize : /\ e = ListSize \/ listByte(w, e) = 0
                               /\ \A j \in i .. e - 1 : listByte(w, j) # 0
BASICLine(w, pos) ==
  [number |-> listWord(w, pos + 2),
   text |-> DecodeBASICLine([i \in 1 .. LineEnd(w, pos + 4) - pos - 4 |-> listByte(w, pos + 3 + i)])]

\* The links must go forward.
DecodeBASICProgram(w) ==
  LET lines[pos \in 0 .. ListSize] ==
        IF pos >= ListSize - 4 \/ listWord(w, pos) = 0 THEN <<>>
        ELSE LET next == listWord(w, pos) - ProgramStart
             IN <<BASICLine(w, pos)>>
                \o IF next \in pos + 1 .. ListSize - 1 THEN lines[next] ELSE <<>>
  IN lines[0]

\* ImageMap: the sheet of 32 characters a row; the dots that are set.
ImageMap(w, addr) ==
  {<<(d[1] % 32) * 8 + d[2], (d[1] \div 32) * 8 + d[3]>> :
     d \in {d \in Glyph \X (0 .. 7) \X (0 .. 7) : Bit(Memory(w, addr + d[1] * 8 + d[3]), 7 - d[2])}}

Charset(m) == ImageMap(m[2].drawn, 2048 * ((m[1].regs[d018] \div 2) % 8))

\* Image of a sprite: the color of a dot, -1 where the sprite is transparent. Only dots of the
\* picture as it is expanded are looked at.
SpriteImage(w, vic, addr, i) ==
  LET wide == Bit(vic[29], i)  high == Bit(vic[23], i)
      bits(y) == LET at == addr + 3 * y
                 IN 65536 * Memory(w, at) + 256 * Memory(w, at + 1) + Memory(w, at + 2)
      mc == <<vic[37] % 16, vic[39 + i] % 16, vic[38] % 16>>
      dot(x, y) == IF Bit(vic[28], i)
                   THEN LET pair == Low(bits(y) \div 2 ^ (22 - x + (x % 2)), 2)
                        IN IF pair = 0 THEN -1 ELSE mc[pair]
                   ELSE IF Bit(bits(y), 23 - x) THEN vic[39 + i] % 16 ELSE -1
  IN [p \in {p \in Dot : p[1] < (IF wide THEN 48 ELSE 24) /\ p[2] < (IF high THEN 42 ELSE 21)} |->
        dot(IF wide THEN p[1] \div 2 ELSE p[1], IF high THEN p[2] \div 2 ELSE p[2])]

\* The pointers, the registers of the VIC, the bank, and a sprite after the other.
Sprites(m) ==
  [i \in 0 .. 7 |->
     [enabled |-> Bit(m[2].regs[21], i),
      image |-> SpriteImage(m[4 + i].drawn, m[2].regs,
                            bankBase(m[3].regs) + Memory(m[1].drawn, 2040 + i) * 64, i)]]

\* The dots, the colors of the screen memory and those of the color RAM.
DecodeBitmap(m, bitmap, screen, bg, multicolor) ==
  LET color(x, y) ==
        LET cell == (y \div 8) * 40 + x \div 8
            b == Memory(m[4].drawn, bitmap + cell * 8 + (y % 8))
            hi == Memory(m[5].drawn, screen + cell) \div 16
            lo == Memory(m[5].drawn, screen + cell) % 16
        IN IF multicolor
           THEN CASE Low(b \div 2 ^ (6 - (x % 8) + (x % 2)), 2) = 0 -> bg
                  [] Low(b \div 2 ^ (6 - (x % 8) + (x % 2)), 2) = 1 -> hi
                  [] Low(b \div 2 ^ (6 - (x % 8) + (x % 2)), 2) = 2 -> lo
                  [] OTHER -> Memory(m[6].drawn, 55296 + cell) % 16
           ELSE IF Bit(b, 7 - (x % 8)) THEN hi ELSE lo
  IN [p \in Pixel |-> color(p[1], p[2])]

Bitmap(m) ==
  LET vic == m[1].regs  cia == m[2].regs
  IN DecodeBitmap(m, bankBase(cia) + (IF Bit(vic[d018], 3) THEN 8192 ELSE 0), matrix(vic, cia),
                  m[3].regs[d021] % 16, Bit(vic[d016], 4))

-----------------------------------------------------------------------------
(* The calls *)

\* The reads of a call; the address of one may be computed from those before it.
ReadCount == [Screen |-> 2, ScreenMode |-> 1, BASIC |-> 1, Charset |-> 2, Sprites |-> 11, Bitmap |-> 6]

Decoded ==
  CASE op = "Screen" -> Screen(got)
    [] op = "ScreenMode" -> ScreenMode(got[1].regs)
    [] op = "BASIC" -> DecodeBASICProgram(got[1].drawn)
    [] op = "Charset" -> Charset(got)
    [] op = "Sprites" -> Sprites(got)
    [] OTHER -> Bitmap(got)

\* What is in memory lies apart; the texts can be printed, and the program listed.
Printable == (32 .. 91) \cup (93 .. 95) \cup (97 .. 122)
Regions(w) ==
  {<<"text", p, TextSize>> : p \in TextPage} \cup {<<"poked", p, TextSize>> : p \in PokedPage}
    \cup {<<"bitmap", p, BitmapSize>> : p \in BitmapPage} \cup {<<"sprite", 64 * b, 64>> : b \in SpriteBlock}
    \cup {<<"program", ProgramStart, Len(ProgramBytes(w))>>}

\* Atom i of a line of LIST: tokens are outside quotes, control characters inside.
Listable(text, i) ==
  LET kind == text[i][1]
      b == text[i][2]
      quoted == Quoted(Bytes(text), i)
  IN \/ kind = "char" /\ b \in 32 .. 126
     \/ kind = "token" /\ b \in 128 .. 203 /\ ~quoted
     \/ kind = "code" /\ b \in (1 .. 31) \cup (127 .. 203) /\ quoted
     \/ kind = "code" /\ b \in 204 .. 255

Octet == 0 .. 255
Address == 0 .. 65535
Atoms == {"char", "token", "code"} \X (1 .. 255)
ProgramLine == [number : Address, text : Seq(Atoms)]

Drawable ==
  /\ \A r \in Setup : \A o \in (0 .. 46) \cup {dd00} : r[o] \in Octet
  /\ TextPage \cup PokedPage \cup BitmapPage \cup SpriteBlock \subseteq Nat
  /\ \A w \in Drawing :
       /\ Text(w) \in Seq(Printable) /\ Text(w) # <<>>
       /\ \A m, n \in Regions(w) : m # n => m[2] + m[3] <= n[2] \/ n[2] + n[3] <= m[2]
       /\ BASICProgram(w) \in Seq(ProgramLine)
       /\ \A n \in DOMAIN BASICProgram(w) : \A i \in DOMAIN BASICProgram(w)[n].text :
            Listable(BASICProgram(w)[n].text, i)
       /\ Len(ProgramBytes(w)) <= ListSize
       /\ \A x \in 0 .. 319, y \in 0 .. 199 : Ink(w, x, y) \in {0, 1}
       /\ \A a \in Address : Ram(w, a) \in Octet
  /\ CharCell \subseteq 0 .. TextSize - 1 /\ Glyph \subseteq Nat
  /\ Pixel \subseteq (0 .. 319) \X (0 .. 199) /\ Dot \subseteq Nat \X Nat

ASSUME ViewAssumption == Drawable

ViewInit ==
  /\ regs \in Setup /\ drawn \in Drawing
  /\ op = "" /\ got = <<>>
  /\ picture = <<"none">>
  /\ turns = 0

Running == op # "" /\ picture = <<>>

CallDebug(o) ==
  /\ ~Running
  /\ op' = o
  /\ got' = <<>> /\ picture' = <<>>
  /\ UNCHANGED <<regs, drawn, turns>>

\* Bitmap gives up after its first read.
NotInBitmapMode == op = "Bitmap" /\ Len(got) = 1 /\ ~Bit(got[1].regs[d011], 5)

ReadBlock ==
  /\ Running /\ ~NotInBitmapMode
  /\ Len(got) < ReadCount[op]
  /\ got' = Append(got, [regs |-> regs, drawn |-> drawn])
  /\ UNCHANGED <<regs, drawn, op, picture, turns>>

GiveUp ==
  /\ Running
  /\ NotInBitmapMode \/ Len(got) < ReadCount[op]
  /\ picture' = <<"error">>
  /\ UNCHANGED <<regs, drawn, op, got, turns>>

Decode ==
  /\ Running
  /\ Len(got) = ReadCount[op]
  /\ picture' = <<"picture", Decoded>>
  /\ UNCHANGED <<regs, drawn, op, got, turns>>

\* A program on the C64 changes the registers, or what is in memory.
Turn ==
  /\ turns < MaxTurns
  /\ \/ regs' \in Setup \ {regs} /\ UNCHANGED drawn
     \/ drawn' \in Drawing \ {drawn} /\ UNCHANGED regs
  /\ turns' = turns + 1
  /\ UNCHANGED <<op, got, picture>>

ViewNext ==
  \/ \E o \in DOMAIN ReadCount : CallDebug(o)
  \/ ReadBlock \/ GiveUp \/ Decode \/ Turn

ViewSpec == ViewInit /\ [][ViewNext]_viewVars

-----------------------------------------------------------------------------
(* What the C64 shows *)

ShownBank(r) == <<49152, 32768, 16384, 0>>[Low(r[dd00], 2) + 1]
ShownMatrix(r) == ShownBank(r) + (r[d018] \div 16) * 1024

\* A printed character in one of the two character sets; the capital letters of the
\* first are graphics of the second.
Look(a, lowercase) ==
  IF lowercase THEN a ELSE CASE a \in Lower -> a - 32 [] a \in Upper -> 63 [] OTHER -> a

Pair(w, x, y) == <<Ink(w, 2 * (x \div 2), y), Ink(w, 2 * (x \div 2) + 1, y)>>

\* The text of moment m[2], on the screen, with the colors and in the way of moment m[1].
TextShown(m, screen) ==
  LET r == m[1].regs
      lowercase == Bit(r[d018], 1)
      at == ShownMatrix(r)
      said(c) == TextAt(m[2].drawn, c)
  IN /\ screen.mode = ScreenMode(r)
     /\ screen.color = [c \in CharCell |-> Memory(m[1].drawn, 55296 + c)]
     /\ IF Bit(r[d011], 5) THEN screen.rows = <<>>
        ELSE /\ ~Bit(r[d011], 6) /\ (at \in TextPage \/ (at \in PokedPage /\ lowercase))
                  => screen.rows = [c \in CharCell |-> Look(said(c), lowercase)]
             /\ at \in TextPage
                  => \A c \in CharCell : said(c) # 64 => decodePETSCII(screen.petscii[c]) = said(c)

\* Sprites with the pointers of m[1], the looks of m[2] and the bank of m[3], each with
\* the dots of its own moment.
SpritesShown(m, sprites) ==
  LET r == m[2].regs
  IN \A i \in 0 .. 7 :
    LET s == sprites[i]
        w == m[4 + i].drawn
        block == ShownBank(m[3].regs) \div 64 + Memory(m[1].drawn, ShownMatrix(m[1].regs) + 1016 + i)
        At(p) == <<IF Bit(r[29], i) THEN p[1] \div 2 ELSE p[1], IF Bit(r[23], i) THEN p[2] \div 2 ELSE p[2]>>
        Color(x, y) ==
          IF Bit(r[28], i)
          THEN CASE Pair(w, x, y) = <<0, 0>> -> -1 [] Pair(w, x, y) = <<0, 1>> -> r[37] % 16
                 [] Pair(w, x, y) = <<1, 0>> -> r[39 + i] % 16 [] OTHER -> r[38] % 16
          ELSE IF Ink(w, x, y) = 1 THEN r[39 + i] % 16 ELSE -1
    IN s.enabled /\ block \in SpriteBlock
       => \A p \in DOMAIN s.image : s.image[p] = Color(At(p)[1], At(p)[2])

\* A bitmap where the VIC had it at m[1], in the bank of m[2], with the background of m[3],
\* the dots of m[4] and the colors of m[5] and m[6].
BitmapShown(m, colors) ==
  LET r == m[1].regs
      bank == ShownBank(m[2].regs)
  IN bank + (IF Bit(r[d018], 3) THEN 8192 ELSE 0) \in BitmapPage => \A p \in Pixel :
    LET x == p[1]  y == p[2]
        w == m[4].drawn
        cell == (x \div 8) + 40 * (y \div 8)
        chosen == Memory(m[5].drawn, bank + (r[d018] \div 16) * 1024 + cell)
    IN colors[p] =
         IF Bit(r[d016], 4)
         THEN CASE Pair(w, x, y) = <<0, 0>> -> m[3].regs[d021] % 16
                [] Pair(w, x, y) = <<0, 1>> -> chosen \div 16
                [] Pair(w, x, y) = <<1, 0>> -> chosen % 16
                [] OTHER -> Memory(m[6].drawn, 55296 + cell) % 16
         ELSE IF Ink(w, x, y) = 1 THEN chosen \div 16 ELSE chosen % 16

\* The dots of a sheet of the characters the VIC uses, in bank 0 outside its ROM.
CharsetShown(m, dots) ==
  LET r == m[1].regs
      generator == (r[d018] \div 2) % 8
  IN ShownBank(r) = 0 /\ generator \notin {2, 3}
     => \A i \in Glyph, x, y \in 0 .. 7 :
          (<<(i % 32) * 8 + x, (i \div 32) * 8 + y>> \in dots)
            = Bit(Memory(m[2].drawn, generator * 2048 + i * 8 + y), 7 - x)

Agrees(m) ==
  LET result == picture[2]
  IN CASE op = "Screen" -> TextShown(m, result)
       [] op = "ScreenMode" -> result = ScreenMode(m[1].regs)
       [] op = "BASIC" -> result = BASICProgram(m[1].drawn)
       [] op = "Charset" -> CharsetShown(m, result)
       [] op = "Sprites" -> ShownMatrix(m[1].regs) = 1024 => SpritesShown(m, result)
       [] OTHER -> Bit(m[1].regs[d011], 5) /\ BitmapShown(m, result)

\* While a program changes the registers and the memory, every part of what a call
\* returns is what the C64 showed when the call read that part: a text is the text
\* that was printed on the screen the VIC displayed, a listing is the program, a bitmap
\* and the sprites are the dots that were drawn. If nothing changes during the call,
\* all of it was shown at once; if something does, a call of several reads may return
\* parts that were never shown together, which nothing in the code prevents. Sprites
\* are so only on the default screen, characters only in the first bank, and programs
\* only up to the 4096 bytes that are read. PETSCII bytes are those that were printed,
\* but for the at sign, 64, which the codec does not convert as the KERNAL does.
\* Source: debug.go:29-99, 103-151, 154-245.
PictureTrue == Len(picture) = 2 => Agrees(got)
=============================================================================
