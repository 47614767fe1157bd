---------------------------- MODULE MCAssembler ----------------------------
(***************************************************************************)
(* Assembler with a program that is started from BASIC: the header names a *)
(* label, and the code behind it lies at $1000 or at $C000.                *)
(***************************************************************************)
EXTENDS Assembler

MCExpr(n) == [sel |-> "all", name |-> n, num |-> Bad]

MCLine == {
  [k |-> "basic", arg |-> <<MCExpr("L")>>],
  [k |-> "org", val |-> 4096],
  [k |-> "org", val |-> 49152],
  [k |-> "op", lbl |-> {"L"}, mnemonic |-> "RTS", form |-> "none", e |-> MCExpr("none")]}
==============================================================================
