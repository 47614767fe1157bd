------------------------------- MODULE Codecs -------------------------------
(***************************************************************************)
(* The byte encodings of c64/codec/codec.go: ASCII, PETSCII and the codes  *)
(* of screen memory in its two character sets. Bytes are numbers.          *)
(***************************************************************************)
EXTENDS Integers

Lower == 97 .. 122       \* a-z in ASCII
Upper == 65 .. 90        \* A-Z in ASCII

encodePETSCII(a) ==
  CASE a \in {10, 13} -> 13
    [] a \in {8, 127} -> 20
    [] a \in Lower -> a - 32
    [] a \in Upper -> a + 32
    [] OTHER -> a

decodePETSCII(p) ==
  CASE p = 13 -> 10
    [] p = 20 -> 8
    [] p \in 65 .. 90 -> p + 32
    [] p \in 97 .. 122 -> p - 32
    [] OTHER -> p

\* asciiToScreenCommon: "-", ":" and "=" are found among the codes 33 to 63, "/" is
\* not: it has the code of the pound sign.
asciiToScreenCommon(a) ==
  CASE a = 64 -> 0
    [] a \in {91, 93, 94, 95} -> a - 64
    [] a = 47 -> 28
    [] OTHER -> a

asciiToScreen(a, lowercase) ==
  CASE lowercase /\ a \in Lower -> a - 96
    [] ~lowercase /\ a \in Lower -> a - 96
    [] ~lowercase /\ a \in Upper -> a - 64
    [] OTHER -> asciiToScreenCommon(a)

\* screenCodeToPETSCII and back: bit 7, reverse video, is kept.
screenCodeToPETSCII(c) ==
  LET low == c % 128
  IN c - low + CASE low \in 1 .. 31 -> low + 64
                 [] low \in 65 .. 95 -> low + 32
                 [] OTHER -> low

petsciiToScreenCode(p) ==
  LET low == p % 128
  IN p - low + CASE low \in 65 .. 95 -> low - 64
                 [] low \in 97 .. 127 -> low - 32
                 [] OTHER -> low

\* What the KERNAL writes to the screen when it prints a character.
bsout(p) ==
  CASE p \in 64 .. 95 \cup 160 .. 191 -> p - 64
    [] p \in 96 .. 127 -> p - 32
    [] p \in 192 .. 254 -> p - 128
    [] OTHER -> p

\* screenCodeToChar: an ASCII character that looks like the glyph, the same for
\* reverse video. Graphics are "?" (63), in reverse video capital letters, and what
\* has no likeness is "." (46).
screenCodeToChar(c, lowercase) ==
  LET low == c % 128
      letter == IF lowercase THEN 96 ELSE 64
  IN CASE low = 0 -> 64
       [] low \in 1 .. 26 -> letter + low
       [] low \in {27, 29, 30, 31} -> low + 64
       [] low \in {28, 92} -> 47
       [] low \in 32 .. 63 -> low
       [] low = 64 -> 45
       [] low \in 65 .. 90 -> IF lowercase \/ c >= 128 THEN low ELSE 63
       [] low = 91 -> 58 [] low = 93 -> 61 [] low \in {94, 95} -> low
       [] low \in 97 .. 122 -> letter + low - 96
       [] OTHER -> 46
=============================================================================
