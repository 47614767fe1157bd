------------------------------- MODULE Opcodes -------------------------------
(***************************************************************************)
(* The opcode table of c64/opcodes.go, by families of mnemonics with the   *)
(* same addressing modes, and the sweep of Disassemble (c64/disasm.go)     *)
(* over a memory image, of which only the size of the instruction each     *)
(* byte would begin matters.                                               *)
(***************************************************************************)
EXTENDS Integers, Sequences

Branch == {"BCC", "BCS", "BEQ", "BNE", "BPL", "BMI", "BVC", "BVS"}
Shift == {"ASL", "LSR", "ROL", "ROR"}

\* The slots of the table that are not filled in have neither a mnemonic nor a mode.
opcodes(mnemonic) ==
  CASE mnemonic \in {"ADC", "AND", "CMP", "EOR", "LDA", "ORA", "SBC"} ->
         {"imm", "zp", "zpx", "abs", "absx", "absy", "indx", "indy"}
    [] mnemonic = "STA" -> {"zp", "zpx", "abs", "absx", "absy", "indx", "indy"}
    [] mnemonic \in Shift -> {"acc", "zp", "zpx", "abs", "absx"}
    [] mnemonic \in Branch -> {"rel"}
    [] mnemonic \in {"DEC", "INC"} -> {"zp", "zpx", "abs", "absx"}
    [] mnemonic \in {"CPX", "CPY"} -> {"imm", "zp", "abs"}
    [] mnemonic = "LDX" -> {"imm", "zp", "zpy", "abs", "absy"}
    [] mnemonic = "LDY" -> {"imm", "zp", "zpx", "abs", "absx"}
    [] mnemonic = "STX" -> {"zp", "zpy", "abs"}
    [] mnemonic = "STY" -> {"zp", "zpx", "abs"}
    [] mnemonic = "BIT" -> {"zp", "abs"}
    [] mnemonic = "JMP" -> {"abs", "ind"}
    [] mnemonic = "JSR" -> {"abs"}
    [] mnemonic \in {"BRK", "CLC", "CLD", "CLI", "CLV", "DEX", "DEY", "INX", "INY",
                     "NOP", "PHA", "PHP", "PLA", "PLP", "RTI", "RTS", "SEC", "SED",
                     "SEI", "TAX", "TAY", "TSX", "TXA", "TXS", "TYA"} -> {"impl"}
    [] mnemonic = "" -> {""}
    [] OTHER -> {}

lookupOpcode(mnemonic, mode) == mode \in opcodes(mnemonic)

\* The bytes of an instruction follow from its mode, in the table and in the
\* guess for a pair that is not in it.
getInstructionSize(mode) ==
  CASE mode \in {"impl", "acc"} -> 1
    [] mode \in {"imm", "zp", "zpx", "zpy", "indx", "indy", "rel"} -> 2
    [] OTHER -> 3

\* Mutant of Disassemble: the last instruction is taken for a truncated one.
DisassembleShort(size) ==
  LET n == Len(size)
      from[p \in 1 .. n + 1] ==
        IF p > n THEN <<>>
        ELSE IF p + size[p] >= n + 1 /\ size[p] > 1
             THEN [i \in 1 .. n - p + 1 |-> [at |-> p - 1 + i - 1, len |-> 1]]
             ELSE <<[at |-> p - 1, len |-> size[p]]>> \o from[p + size[p]]
  IN from[1]

\* The items of a listing, as offset and length. When an instruction needs more
\* bytes than remain, each of them is listed on its own.
Disassemble(size) ==
  LET n == Len(size)
      from[p \in 1 .. n + 1] ==
        IF p > n THEN <<>>
        ELSE IF p + size[p] > n + 1
             THEN [i \in 1 .. n - p + 1 |-> [at |-> p - 1 + i - 1, len |-> 1]]
             ELSE <<[at |-> p - 1, len |-> size[p]]>> \o from[p + size[p]]
  IN from[1]

\* The target the listing shows for a branch at addr with operand byte b.
BranchTarget(addr, b) == (addr + 2 + (IF b < 128 THEN b ELSE b - 256)) % 65536
==============================================================================
