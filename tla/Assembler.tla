------------------------------ MODULE Assembler ------------------------------
(***************************************************************************)
(* Assemble of c64/asm.go. The first pass reads the source line by line,   *)
(* binds labels and constants, chooses the addressing mode of every        *)
(* instruction from the labels bound so far and counts its bytes; the      *)
(* second emits the bytes, filling the gaps between segments, and resolves *)
(* the operands with all labels. Addresses are uint16 and wrap around.     *)
(*                                                                         *)
(* A line is what parseLine and the tests before it make of its text: a    *)
(* record with a kind k; lbl is the set of its labels, one or none. An     *)
(* expression, whole or its low or high byte, is a text that is looked up  *)
(* as a name first and then read as a number, num: a numeral is the name   *)
(* of a label where a line binds it. Bytes are counted, not represented,   *)
(* except the operands of instructions.                                    *)
(***************************************************************************)
EXTENDS Opcodes, SequencesExt

CONSTANTS
  Line,       \* the lines a program is made of
  MaxLines    \* bound: its length

Word == 65536
Bad == -1                      \* no value: parseValue or resolveExpr fails
DefaultLoadAddress == 2049     \* $0801

Address == 0 .. Word - 1
Value == Address \cup {Bad}
Expr == [sel : {"all", "lo", "hi"}, name : STRING, num : Value]
ItemBytes(items) == FoldLeft(LAMBDA n, it : n + it.len, 0, items)

\* What the parsers of lines, expressions and data lists return.
ASSUME LineAssumption ==
  \A l \in Line :
    /\ l.k \in {"const", "org"} => l.val \in Value
    /\ l.k \in {"basic", "cart"} => l.arg \in Seq(Expr)
    /\ l.k = "data" => /\ l.items \in Seq([str : BOOLEAN, len : Nat, e : Expr])
                       /\ l.closed \in BOOLEAN
                       /\ ItemBytes(l.items) \in Nat
    /\ l.k = "op" => l.e \in Expr

VARIABLES
  fate,             \* "reading", "emitting", "done", or the class of the error
  lineNo, labels, startAddress, currentPC, firstOriginSet, currentEncoding,
  instructions,     \* the parsedInst of pass 1
  emitPC,
  prg               \* one record per instruction emitted: offset, bytes, operand

passVars == <<lineNo, labels, startAddress, currentPC, firstOriginSet,
              currentEncoding, instructions>>
asmVars == <<fate, passVars, emitPC, prg>>

AsmInit ==
  /\ fate = "reading"
  /\ lineNo = 0
  /\ labels = <<>>
  /\ startAddress = DefaultLoadAddress
  /\ currentPC = DefaultLoadAddress
  /\ firstOriginSet = FALSE
  /\ currentEncoding = "screencode_mixed"
  /\ instructions = <<>>
  /\ emitPC = 0
  /\ prg = <<>>

Bound == DOMAIN labels
Bind(names, value, map) == [n \in DOMAIN map \cup names |-> IF n \in names THEN value ELSE map[n]]

resolveExpr(e) ==
  LET v == IF e.name \in Bound THEN labels[e.name] ELSE e.num
  IN IF v = Bad THEN Bad
     ELSE CASE e.sel = "lo" -> v % 256
            [] e.sel = "hi" -> v \div 256
            [] OTHER -> v

\* A byte of a label is always short; a label not bound yet counts as long.
isZP(e) == e.sel # "all" \/ resolveExpr(e) \in 0 .. 255

parseAddressingMode(mnemonic, form, e) ==
  IF form = "none" THEN IF mnemonic \in Shift THEN "acc" ELSE "impl"
  ELSE IF form = "A" THEN "acc"
  ELSE IF mnemonic \in Branch THEN "rel"
  ELSE CASE form \in {"imm", "indx", "indy", "ind"} -> form
         [] form = "x" -> IF isZP(e) THEN "zpx" ELSE "absx"
         [] form = "y" -> IF isZP(e) THEN "zpy" ELSE "absy"
         [] OTHER -> IF isZP(e) THEN "zp" ELSE "abs"

-----------------------------------------------------------------------------
(* Pass 1.                                                                 *)

Read(l) == fate = "reading" /\ lineNo < MaxLines /\ lineNo' = lineNo + 1 /\ l \in Line

Reject(why) ==
  /\ fate' = why
  /\ UNCHANGED <<labels, startAddress, currentPC, firstOriginSet, currentEncoding,
                 instructions, emitPC, prg>>

\* A parsedInst at the current address, which moves behind it.
Place(inst) ==
  /\ instructions' = Append(instructions, inst)
  /\ currentPC' = (currentPC + inst.size) % Word
  /\ UNCHANGED <<fate, startAddress, firstOriginSet, currentEncoding, emitPC, prg>>

\* Mutant of Constant: a constant may be bound again.
ConstantAgain(l) ==
  /\ Read(l) /\ l.k = "const"
  /\ IF l.val = Bad THEN Reject("constant")
     ELSE /\ labels' = Bind({l.name}, l.val, labels)
          /\ UNCHANGED <<fate, startAddress, currentPC, firstOriginSet,
                         currentEncoding, instructions, emitPC, prg>>

\* NAME = value
Constant(l) ==
  /\ Read(l) /\ l.k = "const"
  /\ IF l.val = Bad THEN Reject("constant")
     ELSE IF l.name \in Bound THEN Reject("duplicate")
     ELSE /\ labels' = Bind({l.name}, l.val, labels)
          /\ UNCHANGED <<fate, startAddress, currentPC, firstOriginSet,
                         currentEncoding, instructions, emitPC, prg>>

\* * = address, .org address
Origin(l) ==
  /\ Read(l) /\ l.k = "org"
  /\ IF l.val = Bad THEN Reject("origin")
     ELSE /\ startAddress' = IF firstOriginSet THEN startAddress ELSE l.val
          /\ firstOriginSet' = TRUE
          /\ currentPC' = l.val
          /\ UNCHANGED <<fate, labels, currentEncoding, instructions, emitPC, prg>>

\* BASICHeader label; CartridgeHeader cold [, warm]
Header(l) ==
  /\ Read(l) /\ l.k \in {"basic", "cart"}
  /\ IF l.arg = <<>> THEN Reject("header")
     ELSE /\ Place([k |-> l.k, pc |-> currentPC, arg |-> l.arg, size |-> IF l.k = "basic" THEN 12 ELSE 9])
          /\ UNCHANGED labels

\* The other lines may begin with a label, bound before anything else.
DuplicateLabel(l) ==
  /\ Read(l) /\ l.k \in {"none", "enc", "data", "op"}
  /\ l.lbl \cap Bound # {}
  /\ Reject("duplicate")

Statement(l, k) ==
  /\ Read(l) /\ l.k = k
  /\ l.lbl \cap Bound = {}

Labelled(l) == labels' = Bind(l.lbl, currentPC, labels)

LabelLine(l) ==
  /\ Statement(l, "none")
  /\ Labelled(l)
  /\ UNCHANGED <<fate, startAddress, currentPC, firstOriginSet, currentEncoding,
                 instructions, emitPC, prg>>

\* .encoding
Encoding(l) ==
  /\ Statement(l, "enc")
  /\ IF l.known
     THEN /\ Labelled(l)
          /\ currentEncoding' = l.to
          /\ UNCHANGED <<fate, startAddress, currentPC, firstOriginSet, instructions,
                         emitPC, prg>>
     ELSE Reject("encoding")

\* .byte, .text, .word; the last string of a list may lack its closing quote.
DataDirective(l) ==
  /\ Statement(l, "data")
  /\ IF ~l.closed \/ (l.word /\ \E i \in DOMAIN l.items : l.items[i].str) THEN Reject("data")
     ELSE /\ Labelled(l)
          /\ Place([k |-> "data", pc |-> currentPC, items |-> l.items, word |-> l.word,
                    encoding |-> currentEncoding,
                    size |-> IF l.word THEN 2 * Len(l.items) ELSE ItemBytes(l.items)])

InstructionLine(l) ==
  /\ Statement(l, "op")
  /\ Labelled(l)
  /\ LET mode == parseAddressingMode(l.mnemonic, l.form, l.e)'
     IN Place([k |-> "op", pc |-> currentPC, mnemonic |-> l.mnemonic, form |-> l.form,
               e |-> l.e, mode |-> mode, size |-> getInstructionSize(mode)])

\* The source ends, or bufio.Scanner meets a line it cannot hold.
EndOfSource ==
  /\ fate = "reading"
  /\ fate' \in {"emitting", "scan"}
  /\ emitPC' = startAddress
  /\ UNCHANGED <<passVars, prg>>

-----------------------------------------------------------------------------
(* Pass 2.                                                                 *)

next == Len(prg) + 1
Emitted == IF prg = <<>> THEN 0 ELSE Last(prg).at + Last(prg).bytes

Digits(n) ==
  IF n < 10 THEN 1 ELSE IF n < 100 THEN 2 ELSE IF n < 1000 THEN 3 ELSE IF n < 10000 THEN 4 ELSE 5

Err(why) == [err |-> why, bytes |-> 0, operand |-> Bad]
Bytes(n, v) == [err |-> "nil", bytes |-> n, operand |-> v]

\* .byte, .text and .word. A directive without items is an instruction for this pass, with
\* no mnemonic and no mode; the table has one, and its byte is emitted ($02), although
\* pass 1 has counted none.
DataBytes(inst) ==
  LET value(i) == resolveExpr(inst.items[i].e)
      exprs == {i \in DOMAIN inst.items : ~inst.items[i].str}
  IN IF inst.items = <<>> THEN IF lookupOpcode("", "") THEN Bytes(1, Bad) ELSE Err("instruction")
     ELSE IF \E i \in exprs : value(i) = Bad THEN Err("unresolved")
     ELSE IF ~inst.word /\ \E i \in exprs : value(i) > 255 THEN Err("data")
     ELSE Bytes(IF inst.word THEN 2 * Len(inst.items) ELSE ItemBytes(inst.items), Bad)

\* basicHeader writes a stub whose length depends on the digits of the address.
HeaderBytes(inst) ==
  IF \E i \in DOMAIN inst.arg : resolveExpr(inst.arg[i]) = Bad THEN Err("unresolved")
  ELSE Bytes(IF inst.k = "basic" THEN 8 + Digits(resolveExpr(inst.arg[1])) ELSE 9, Bad)

\* Mutant of Operand: the branch is counted from its own address.
OperandFromPC(inst) ==
  LET v == IF inst.mode = "rel" /\ inst.form # "plain" THEN Bad ELSE resolveExpr(inst.e)
      offset == v - inst.pc
  IN IF v = Bad THEN Err("unresolved")
     ELSE IF inst.size = 3 THEN Bytes(3, v)
     ELSE IF inst.mode = "rel"
          THEN IF offset < -128 \/ offset > 127 THEN Err("branch") ELSE Bytes(2, offset % 256)
     ELSE IF v > 255 THEN Err("limit") ELSE Bytes(2, v)

\* The operand of an instruction of two or three bytes. stripModeMarkers leaves
\* the index of an indexed branch in place, and nothing resolves it.
Operand(inst) ==
  LET v == IF inst.mode = "rel" /\ inst.form # "plain" THEN Bad ELSE resolveExpr(inst.e)
      offset == v - (inst.pc + 2)
  IN IF v = Bad THEN Err("unresolved")
     ELSE IF inst.size = 3 THEN Bytes(3, v)
     ELSE IF inst.mode = "rel"
          THEN IF offset < -128 \/ offset > 127 THEN Err("branch") ELSE Bytes(2, offset % 256)
     ELSE IF v > 255 THEN Err("limit") ELSE Bytes(2, v)

Emission(inst) ==
  CASE inst.k = "data" -> DataBytes(inst)
    [] inst.k \in {"basic", "cart"} -> HeaderBytes(inst)
    [] OTHER -> IF ~lookupOpcode(inst.mnemonic, inst.mode) THEN Err("instruction")
                ELSE IF inst.size = 1 THEN Bytes(1, Bad)
                ELSE Operand(inst)

\* Mutant of Emit: emitPC moves by the size counted in pass 1.
EmitCounted ==
  /\ fate = "emitting" /\ next <= Len(instructions)
  /\ LET inst == instructions[next]
         e == Emission(inst)
     IN IF inst.pc < emitPC THEN fate' = "overlap" /\ UNCHANGED <<emitPC, prg>>
        ELSE IF e.err # "nil" THEN fate' = e.err /\ UNCHANGED <<emitPC, prg>>
        ELSE /\ prg' = Append(prg, [at |-> Emitted + inst.pc - emitPC,
                                    bytes |-> e.bytes, operand |-> e.operand])
             /\ emitPC' = (inst.pc + inst.size) % Word
             /\ UNCHANGED fate
  /\ UNCHANGED passVars

\* The next instruction: zeros up to its address, then its bytes.
Emit ==
  /\ fate = "emitting" /\ next <= Len(instructions)
  /\ LET inst == instructions[next]
         e == Emission(inst)
     IN IF inst.pc < emitPC THEN fate' = "overlap" /\ UNCHANGED <<emitPC, prg>>
        ELSE IF e.err # "nil" THEN fate' = e.err /\ UNCHANGED <<emitPC, prg>>
        ELSE /\ prg' = Append(prg, [at |-> Emitted + inst.pc - emitPC,
                                    bytes |-> e.bytes, operand |-> e.operand])
             /\ emitPC' = (inst.pc + e.bytes) % Word
             /\ UNCHANGED fate
  /\ UNCHANGED passVars

ReturnPRG ==
  /\ fate = "emitting" /\ next > Len(instructions)
  /\ fate' = "done"
  /\ UNCHANGED <<passVars, emitPC, prg>>

AsmNext ==
  \/ \E l \in Line :
       \/ Constant(l) \/ Origin(l) \/ Header(l) \/ DuplicateLabel(l)
       \/ LabelLine(l) \/ Encoding(l) \/ DataDirective(l) \/ InstructionLine(l)
  \/ EndOfSource \/ Emit \/ ReturnPRG

AsmSpec == AsmInit /\ [][AsmNext]_asmVars

-----------------------------------------------------------------------------
(* Properties.                                                             *)

\* Whatever gaps, headers and data precede it, also where pass 2 emits a byte that pass 1
\* has not counted, and wherever the addresses wrap around, an instruction lies in the
\* image where pass 1 put it and its label points (asm.go 345-462).
InPlace == \A i \in DOMAIN prg : (startAddress + prg[i].at) % Word = instructions[i].pc

\* The operand the processor will use is the value of the expression: a branch
\* that assembles reaches its label, forward or backward, and nothing is cut off
\* (asm.go 434-458).
OperandsReach ==
  \A i \in DOMAIN prg :
    LET inst == instructions[i]
    IN prg[i].operand # Bad =>
         resolveExpr(inst.e) = IF inst.mode = "rel" THEN BranchTarget(inst.pc, prg[i].operand)
                                                    ELSE prg[i].operand

\* The short modes chosen in pass 1 from the labels known by then hold in pass 2,
\* when all are: they never fail for a value that does not fit, unless a numeral
\* was made the name of a label (asm.go 330, 451, 527).
Renamed(e) == e.name \in Bound /\ e.num # Bad
ShortModesHold ==
  fate = "limit" => LET inst == instructions[next]
                    IN inst.mode \notin {"zp", "zpx", "zpy"} \/ Renamed(inst.e)

\* The image as the sweep of a disassembler meets it: the first byte of an instruction
\* tells its size, and its operand, if taken for an opcode, the longest one.
Assembled ==
  [p \in 1 .. Emitted |->
     LET first == {i \in DOMAIN prg : prg[i].at = p - 1}
     IN IF first = {} THEN 3 ELSE instructions[CHOOSE i \in first : TRUE].size]

\* Nothing but instructions, each behind the one before it.
OnlyCode ==
  \A i \in DOMAIN prg :
    /\ instructions[i].k = "op"
    /\ prg[i].at = IF i = 1 THEN 0 ELSE prg[i - 1].at + prg[i - 1].bytes

\* A finished image without data, headers and gaps reads back as its instructions:
\* the sweep of Disassemble finds each at its address, to the last one.
ReadsBack ==
  fate = "done" /\ OnlyCode
    => Disassemble(Assembled) = [i \in DOMAIN prg |-> [at |-> prg[i].at, len |-> prg[i].bytes]]

\* The doc of Assemble (asm.go 96-97): BASICHeader "Emits the 12-byte "10 SYS nnnn"
\* BASIC header".
HeaderTwelveBytes ==
  \A i \in DOMAIN prg : instructions[i].k = "basic" => prg[i].bytes = 12
==============================================================================
