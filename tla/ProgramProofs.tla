---------------------------- MODULE ProgramProofs ----------------------------
(***************************************************************************)
(* Proofs about the ways of a program: Assembler, for every set of lines   *)
(* and programs of every length, and Images, for every set of files and    *)
(* archives and every layout of the memory.                                *)
(*                                                                         *)
(* The two passes of the assembler agree on the place of every             *)
(* instruction, on the value of every operand and on the short addressing  *)
(* modes; and a program that is put into a cartridge lies in its place     *)
(* when the bootstrap jumps to it.                                         *)
(***************************************************************************)
EXTENDS Assembler, Images, SequenceTheorems, WellFoundedInduction, TLAPS

-----------------------------------------------------------------------------
(* The assembler.                                                          *)

ShortMode == {"zp", "zpx", "zpy"}

\* What the second pass needs of a parsedInst.
Placed(inst) ==
  /\ inst.k \in {"data", "basic", "cart", "op"}
  /\ inst.pc \in Address
  /\ inst.k = "data" => Len(inst.items) \in Nat /\ ItemBytes(inst.items) \in Nat
  /\ inst.k \in {"basic", "cart"} => inst.arg \in Seq(Expr) /\ inst.arg # <<>>
  /\ inst.k = "op" => inst.e \in Expr /\ inst.size = getInstructionSize(inst.mode)

\* What the first pass knew when it chose a short mode still holds.
Short(inst) ==
  inst.k = "op" /\ inst.mode \in ShortMode
    => \/ inst.e.sel # "all"
       \/ resolveExpr(inst.e) \in 0 .. 255
       \/ Renamed(inst.e)

LabelsTyped == \A n \in Bound : labels[n] \in Address

TypeInv ==
  /\ LabelsTyped
  /\ startAddress \in Address
  /\ currentPC \in Address
  /\ \E S : instructions \in Seq(S)
  /\ prg \in Seq([at : Nat, bytes : Nat, operand : Int])
  /\ fate = "reading" => prg = <<>>

Known == \A i \in DOMAIN instructions : Placed(instructions[i]) /\ Short(instructions[i])

\* The second pass is where the first one expects it, and what it has emitted is
\* what the first one has placed.
Agree ==
  /\ TypeInv
  /\ Known
  /\ Len(prg) <= Len(instructions)
  /\ fate = "emitting" => emitPC = (startAddress + Emitted) % Word
  /\ InPlace
  /\ OperandsReach
  /\ ShortModesHold

-----------------------------------------------------------------------------
(* Arithmetic of addresses.                                                *)

LEMMA AddressBounds ==
  ASSUME NEW a \in Address
  PROVE  a \in Int /\ 0 <= a /\ a <= 65535
BY DEF Word, Address

LEMMA AddressMember ==
  ASSUME NEW a \in Int, 0 <= a, a <= 65535
  PROVE  a \in Address
<1>1. Word - 1 = 65535
  BY DEF Word
<1> QED
  BY <1>1 DEF Address

LEMMA Wrap ==
  ASSUME NEW a \in Int
  PROVE  a % Word \in Address
<1>1. PICK b \in Int : b = a % 65536 /\ 0 <= b /\ b <= 65535
  OBVIOUS
<1>2. b \in Address
  BY <1>1, AddressMember
<1> QED
  BY <1>1, <1>2 DEF Word

LEMMA WrapSmall ==
  ASSUME NEW a \in Int, 0 <= a, a <= 65535
  PROVE  a % Word = a
BY DEF Word

\* A sum wraps around as if the first summand had been wrapped before.
LEMMA WrapSum ==
  ASSUME NEW a \in Int, NEW d \in Int
  PROVE  (a + d) % Word = ((a % Word) + d) % Word
BY DEF Word

LEMMA HighByte ==
  ASSUME NEW v \in Int, 0 <= v, v <= 65535
  PROVE  v \div 256 \in 0 .. 255
OBVIOUS

LEMMA LowByte ==
  ASSUME NEW v \in Int
  PROVE  v % 256 \in 0 .. 255
OBVIOUS

LEMMA SignedByte ==
  ASSUME NEW d \in Int, -128 <= d, d <= 127
  PROVE  (IF d % 256 < 128 THEN d % 256 ELSE (d % 256) - 256) = d
OBVIOUS

\* An offset of a branch that fits in a byte leads from behind the branch to
\* the value.
LEMMA BranchReaches ==
  ASSUME NEW pc \in Int, NEW v \in Int, 0 <= v, v <= 65535, NEW offset \in Int,
         offset = v - (pc + 2), -128 <= offset, offset <= 127
  PROVE  BranchTarget(pc, offset % 256) = v
<1> DEFINE b == IF offset % 256 < 128 THEN offset % 256 ELSE (offset % 256) - 256
<1>1. b = offset
  BY SignedByte
<1>2. BranchTarget(pc, offset % 256) = (pc + 2 + b) % 65536
  BY DEF BranchTarget
<1>3. pc + 2 + offset = v
  OBVIOUS
<1>4. (pc + 2 + offset) % 65536 = v
  BY <1>3, WrapSmall DEF Word
<1> QED
  BY <1>1, <1>2, <1>4

-----------------------------------------------------------------------------
(* Expressions and operands.                                               *)

Found(e) == IF e.name \in Bound THEN labels[e.name] ELSE e.num

LEMMA FoundType ==
  ASSUME LabelsTyped, NEW e \in Expr
  PROVE  Found(e) \in Int /\ (Found(e) # Bad => 0 <= Found(e) /\ Found(e) <= 65535)
<1>1. e.num \in Value
  BY DEF Expr
<1>2. Found(e) \in Value
  BY <1>1 DEF Found, LabelsTyped, Value
<1>3. CASE Found(e) \in Address
  BY <1>3, AddressBounds
<1>4. CASE Found(e) = Bad
  BY <1>4 DEF Bad
<1> QED
  BY <1>2, <1>3, <1>4 DEF Value

\* A value, and a byte of one, is an address or none.
LEMMA ResolveType ==
  ASSUME LabelsTyped, NEW e \in Expr
  PROVE  /\ resolveExpr(e) \in Int
         /\ resolveExpr(e) # Bad => 0 <= resolveExpr(e) /\ resolveExpr(e) <= 65535
         /\ e.sel # "all" /\ resolveExpr(e) # Bad => resolveExpr(e) <= 255
         /\ e.sel = "all" => resolveExpr(e) = Found(e)
<1>1. PICK v \in Int : v = Found(e) /\ (v # Bad => 0 <= v /\ v <= 65535)
  BY FoundType
<1>2. e.sel \in {"all", "lo", "hi"}
  BY DEF Expr
<1>3. resolveExpr(e) = IF v = Bad THEN Bad
                       ELSE CASE e.sel = "lo" -> v % 256
                              [] e.sel = "hi" -> v \div 256
                              [] OTHER -> v
  BY <1>1 DEF resolveExpr, Found
<1>4. CASE v = Bad
  BY <1>1, <1>3, <1>4 DEF Bad
<1>5. CASE v # Bad /\ e.sel = "lo"
  <2>1. resolveExpr(e) = v % 256
    BY <1>3, <1>5
  <2>2. v % 256 \in 0 .. 255
    BY LowByte
  <2> QED
    BY <1>5, <2>1, <2>2
<1>6. CASE v # Bad /\ e.sel = "hi"
  <2>1. resolveExpr(e) = v \div 256
    BY <1>3, <1>6
  <2>2. v \div 256 \in 0 .. 255
    BY <1>1, <1>6, HighByte
  <2> QED
    BY <1>6, <2>1, <2>2
<1>7. CASE v # Bad /\ e.sel = "all"
  BY <1>1, <1>3, <1>7
<1> QED
  BY <1>2, <1>4, <1>5, <1>6, <1>7

LEMMA SameLabels ==
  ASSUME labels' = labels, NEW CONSTANT e
  PROVE  resolveExpr(e)' = resolveExpr(e) /\ Renamed(e)' = Renamed(e)
BY DEF resolveExpr, Renamed, Bound

LEMMA SizeOfMode ==
  ASSUME NEW mode
  PROVE  /\ getInstructionSize(mode) \in {1, 2, 3}
         /\ mode = "rel" => getInstructionSize(mode) = 2
BY DEF getInstructionSize

\* The operand of an instruction that is not refused is the value of its
\* expression, and one that is cut off is refused only in a mode of one byte.
LEMMA OperandMeans ==
  ASSUME LabelsTyped, NEW inst, Placed(inst), inst.k = "op", inst.size # 1
  PROVE  LET o == Operand(inst)
         IN /\ o.bytes \in Nat
            /\ o.operand \in Int
            /\ o.operand # Bad =>
                 resolveExpr(inst.e) = IF inst.mode = "rel"
                                       THEN BranchTarget(inst.pc, o.operand)
                                       ELSE o.operand
            /\ o.err = "limit" => resolveExpr(inst.e) # Bad /\ resolveExpr(inst.e) > 255
<1>1. inst.e \in Expr /\ inst.size = getInstructionSize(inst.mode) /\ inst.pc \in Address
  BY DEF Placed
<1>2. inst.size \in {2, 3} /\ (inst.mode = "rel" => inst.size = 2)
  BY <1>1, SizeOfMode
<1>3. PICK r \in Int : r = resolveExpr(inst.e) /\ (r # Bad => 0 <= r /\ r <= 65535)
  BY <1>1, ResolveType
<1>4. PICK pc \in Int : pc = inst.pc
  BY <1>1, AddressBounds
<1> DEFINE v == IF inst.mode = "rel" /\ inst.form # "plain" THEN Bad ELSE r
           offset == v - (pc + 2)
<1>5. Operand(inst) =
        IF v = Bad THEN Err("unresolved")
        ELSE IF inst.size = 3 THEN Bytes(3, v)
        ELSE IF inst.mode = "rel"
             THEN IF offset < -128 \/ offset > 127 THEN Err("branch") ELSE Bytes(2, offset % 256)
        ELSE IF v > 255 THEN Err("limit") ELSE Bytes(2, v)
  BY <1>3, <1>4 DEF Operand
<1>6. CASE v = Bad
  <2>1. Operand(inst) = Err("unresolved")
    BY <1>5, <1>6
  <2> QED
    BY <2>1 DEF Err, Bad
<1>7. CASE v # Bad /\ inst.size = 3
  <2>1. Operand(inst) = Bytes(3, r) /\ inst.mode # "rel"
    BY <1>2, <1>5, <1>7
  <2> QED
    BY <1>3, <2>1 DEF Bytes
<1>8. CASE v # Bad /\ inst.size = 2 /\ inst.mode = "rel"
  <2>1. v = r /\ r # Bad /\ offset \in Int
    BY <1>8
  <2>2. CASE offset < -128 \/ offset > 127
    <3>1. Operand(inst) = Err("branch")
      BY <1>5, <1>8, <2>2
    <3> QED
      BY <3>1 DEF Err, Bad
  <2>3. CASE -128 <= offset /\ offset <= 127
    <3>1. Operand(inst) = Bytes(2, offset % 256)
      BY <1>5, <1>8, <2>1, <2>3
    <3>2. PICK d \in Int : d = offset /\ d = r - (pc + 2) /\ -128 <= d /\ d <= 127
      BY <2>1, <2>3
    <3>3. BranchTarget(pc, d % 256) = r
      BY <1>3, <2>1, <3>2, BranchReaches
    <3>4. d % 256 \in Int
      BY <3>2
    <3>5. Operand(inst) = Bytes(2, d % 256)
      BY <3>1, <3>2
    <3> HIDE DEF v, offset
    <3> QED
      BY <1>3, <1>4, <1>8, <3>3, <3>4, <3>5 DEF Bytes
  <2> QED
    BY <2>1, <2>2, <2>3
<1>9. CASE v # Bad /\ inst.size = 2 /\ inst.mode # "rel"
  <2>1. v = r /\ r # Bad
    BY <1>9
  <2>2. CASE r > 255
    <3>1. Operand(inst) = Err("limit")
      BY <1>5, <1>9, <2>1, <2>2
    <3> QED
      BY <1>3, <2>1, <2>2, <3>1 DEF Err, Bad
  <2>3. CASE ~(r > 255)
    <3>1. Operand(inst) = Bytes(2, r)
      BY <1>5, <1>9, <2>1, <2>3
    <3> QED
      BY <1>3, <1>9, <3>1 DEF Bytes
  <2> QED
    BY <2>2, <2>3
<1> QED
  BY <1>2, <1>6, <1>7, <1>8, <1>9

LEMMA DigitsType ==
  ASSUME NEW n \in Int
  PROVE  Digits(n) \in 1 .. 5
BY DEF Digits

\* The bytes of a line in the second pass, and when it is refused for its size.
LEMMA EmissionMeans ==
  ASSUME LabelsTyped, NEW inst, Placed(inst)
  PROVE  LET o == Emission(inst)
         IN /\ o.bytes \in Nat
            /\ o.operand \in Int
            /\ o.operand # Bad =>
                 resolveExpr(inst.e) = IF inst.mode = "rel"
                                       THEN BranchTarget(inst.pc, o.operand)
                                       ELSE o.operand
            /\ o.err = "limit" => /\ inst.k = "op"
                                  /\ resolveExpr(inst.e) # Bad /\ resolveExpr(inst.e) > 255
<1>1. CASE inst.k = "data"
  <2>1. Emission(inst) = DataBytes(inst)
    BY <1>1 DEF Emission
  <2>2. \/ DataBytes(inst) = Err("instruction")
        \/ DataBytes(inst) = Err("unresolved")
        \/ DataBytes(inst) = Err("data")
        \/ DataBytes(inst) = Bytes(1, Bad)
        \/ DataBytes(inst) = Bytes(2 * Len(inst.items), Bad)
        \/ DataBytes(inst) = Bytes(ItemBytes(inst.items), Bad)
    BY DEF DataBytes
  <2>3. 2 * Len(inst.items) \in Nat /\ ItemBytes(inst.items) \in Nat
    BY <1>1 DEF Placed
  <2> QED
    BY <2>1, <2>2, <2>3 DEF Err, Bytes, Bad
<1>2. CASE inst.k \in {"basic", "cart"}
  <2>1. Emission(inst) = HeaderBytes(inst)
    BY <1>2 DEF Emission
  <2>2. inst.arg[1] \in Expr
    BY <1>2 DEF Placed
  <2>3. resolveExpr(inst.arg[1]) \in Int
    BY <2>2, ResolveType
  <2>4. PICK n \in Nat : n = 8 + Digits(resolveExpr(inst.arg[1]))
    <3>1. Digits(resolveExpr(inst.arg[1])) \in 1 .. 5
      BY <2>3, DigitsType
    <3> QED
      BY <3>1
  <2>5. \/ HeaderBytes(inst) = Err("unresolved")
        \/ HeaderBytes(inst) = Bytes(n, Bad)
        \/ HeaderBytes(inst) = Bytes(9, Bad)
    BY <2>4 DEF HeaderBytes
  <2> QED
    BY <2>1, <2>4, <2>5 DEF Err, Bytes, Bad
<1>3. CASE inst.k = "op" /\ ~lookupOpcode(inst.mnemonic, inst.mode)
  <2>1. Emission(inst) = Err("instruction")
    BY <1>3 DEF Emission
  <2> QED
    BY <2>1 DEF Err, Bad
<1>4. CASE inst.k = "op" /\ lookupOpcode(inst.mnemonic, inst.mode) /\ inst.size = 1
  <2>1. Emission(inst) = Bytes(1, Bad)
    BY <1>4 DEF Emission
  <2> QED
    BY <2>1 DEF Bytes, Bad
<1>5. CASE inst.k = "op" /\ lookupOpcode(inst.mnemonic, inst.mode) /\ inst.size # 1
  <2>1. Emission(inst) = Operand(inst)
    BY <1>5 DEF Emission
  <2> QED
    BY <1>5, <2>1, OperandMeans
<1> QED
  BY <1>1, <1>2, <1>3, <1>4, <1>5 DEF Placed

LEMMA EmissionErr ==
  ASSUME NEW inst
  PROVE  Emission(inst).err \in {"nil", "unresolved", "instruction", "data", "branch", "limit"}
<1>1. \A why, n, v : Err(why).err = why /\ Bytes(n, v).err = "nil"
  BY DEF Err, Bytes
<1>2. DataBytes(inst).err \in {"nil", "unresolved", "instruction", "data"}
  BY <1>1 DEF DataBytes
<1>3. HeaderBytes(inst).err \in {"nil", "unresolved"}
  BY <1>1 DEF HeaderBytes
<1>4. Operand(inst).err \in {"nil", "unresolved", "branch", "limit"}
  BY <1>1 DEF Operand
<1> QED
  BY <1>1, <1>2, <1>3, <1>4 DEF Emission

-----------------------------------------------------------------------------
(* The first pass.                                                         *)

\* A label is bound once: what an expression was found to be is not changed by
\* binding other names, unless it was a numeral.
LEMMA BindKeeps ==
  ASSUME LabelsTyped, NEW names, NEW value \in Address, names \cap Bound = {},
         labels' = Bind(names, value, labels)
  PROVE  /\ LabelsTyped'
         /\ \A inst : Placed(inst) /\ Short(inst) => Short(inst)'
<1>1. Bound' = Bound \cup names
  BY DEF Bind, Bound
<1>2. \A n \in Bound : n \notin names /\ labels'[n] = labels[n]
  BY DEF Bind, Bound
<1>3. \A n \in names : labels'[n] = value
  BY DEF Bind, Bound
<1>4. LabelsTyped'
  BY <1>1, <1>2, <1>3 DEF LabelsTyped
<1>5. ASSUME NEW CONSTANT inst, Placed(inst), Short(inst) PROVE Short(inst)'
  <2> SUFFICES ASSUME inst.k = "op", inst.mode \in ShortMode, inst.e.sel = "all"
               PROVE  (resolveExpr(inst.e) \in 0 .. 255)' \/ Renamed(inst.e)'
    BY DEF Short
  <2>1. inst.e \in Expr
    BY <1>5 DEF Placed
  <2>2. CASE Renamed(inst.e)
    BY <1>1, <2>2 DEF Renamed
  <2>3. CASE inst.e.name \in Bound
    BY <1>1, <1>2, <1>5, <2>3 DEF Short, resolveExpr, Renamed
  <2>4. CASE inst.e.name \notin Bound' /\ ~Renamed(inst.e)
    BY <1>1, <1>5, <2>4 DEF Short, resolveExpr
  <2>5. CASE inst.e.name \notin Bound /\ inst.e.name \in Bound' /\ ~Renamed(inst.e)
    <3>1. resolveExpr(inst.e) = inst.e.num
      <4>1. resolveExpr(inst.e) = Found(inst.e)
        BY <2>1, ResolveType
      <4> QED
        BY <4>1, <2>5 DEF Found
    <3>2. inst.e.num \in 0 .. 255
      BY <1>5, <2>5, <3>1 DEF Short
    <3>3. inst.e.num # Bad
      BY <3>2 DEF Bad
    <3> QED
      BY <2>5, <3>3 DEF Renamed
  <2> QED
    BY <2>2, <2>3, <2>4, <2>5
<1> QED
  BY <1>4, <1>5

LEMMA ModeIsShort ==
  ASSUME NEW mnemonic, NEW form, NEW e,
         parseAddressingMode(mnemonic, form, e) \in ShortMode
  PROVE  e.sel # "all" \/ resolveExpr(e) \in 0 .. 255
<1>1. isZP(e)
  BY DEF parseAddressingMode, ShortMode
<1> QED
  BY <1>1 DEF isZP

LEMMA KnownLonger ==
  ASSUME Known, NEW S, instructions \in Seq(S), NEW inst, instructions' = Append(instructions, inst),
         \A z : Placed(z) /\ Short(z) => Short(z)',
         Placed(inst), Short(inst)'
  PROVE  Known' /\ (\E T : instructions \in Seq(T))'
<1> DEFINE T == S \cup {inst}
<1>1. instructions \in Seq(T) /\ inst \in T
  OBVIOUS
<1>2. /\ instructions' \in Seq(T)
      /\ DOMAIN instructions' = 1 .. Len(instructions) + 1
      /\ instructions'[Len(instructions) + 1] = inst
      /\ \A i \in 1 .. Len(instructions) : instructions'[i] = instructions[i]
  BY <1>1, AppendProperties
<1>3. DOMAIN instructions = 1 .. Len(instructions) /\ Len(instructions) \in Nat
  BY <1>1
<1>4. ASSUME NEW i \in DOMAIN instructions' PROVE (Placed(instructions[i]) /\ Short(instructions[i]))'
  <2>1. CASE i \in DOMAIN instructions
    <3>1. PICK z : z = instructions[i] /\ z = instructions'[i]
      BY <1>2, <1>3, <2>1
    <3>2. Placed(z) /\ Short(z)
      BY <2>1, <3>1 DEF Known
    <3>3. Short(z)'
      BY <3>2
    <3> QED
      BY <3>1, <3>2, <3>3 DEF Placed, Short
  <2>2. CASE i = Len(instructions) + 1
    <3>1. instructions'[i] = inst
      BY <1>2, <2>2
    <3> QED
      BY <3>1 DEF Placed, Short
  <2> QED
    BY <1>2, <1>3, <1>4, <2>1, <2>2
<1> QED
  BY <1>2, <1>4 DEF Known

LEMMA KnownKept ==
  ASSUME Known, instructions' = instructions,
         \A z : Placed(z) /\ Short(z) => Short(z)'
  PROVE  Known'
BY DEF Known, Placed

LEMMA KeepsShort ==
  ASSUME labels' = labels
  PROVE  \A z : Placed(z) /\ Short(z) => Short(z)'
<1> SUFFICES ASSUME NEW CONSTANT z, Short(z) PROVE Short(z)'
  OBVIOUS
<1>1. resolveExpr(z.e)' = resolveExpr(z.e) /\ Renamed(z.e)' = Renamed(z.e)
  BY SameLabels
<1> QED
  BY <1>1 DEF Short

\* While the source is read nothing is emitted, and there is little to show.
LEMMA ReadingKeeps ==
  ASSUME Agree, fate = "reading", prg' = prg, fate' # "limit", fate' # "emitting",
         LabelsTyped', Known', startAddress' \in Address, currentPC' \in Address,
         (\E S : instructions \in Seq(S))'
  PROVE  Agree'
<1>1. prg = <<>> /\ prg' = <<>>
  BY DEF Agree, TypeInv
<1>2. Len(prg') = 0 /\ DOMAIN prg' = {} /\ prg' \in Seq([at : Nat, bytes : Nat, operand : Int])
  BY <1>1
<1>3. Len(instructions') \in Nat
  BY DEF Agree
<1>4. TypeInv'
  BY <1>1, <1>2 DEF TypeInv
<1>5. InPlace' /\ OperandsReach' /\ ShortModesHold'
  BY <1>2 DEF InPlace, OperandsReach, ShortModesHold
<1> QED
  BY <1>2, <1>3, <1>4, <1>5 DEF Agree

LEMMA RejectKeeps ==
  ASSUME Agree, fate = "reading", NEW why, why # "limit", why # "emitting", Reject(why)
  PROVE  Agree'
<1>1. /\ fate' = why /\ labels' = labels /\ startAddress' = startAddress
      /\ currentPC' = currentPC /\ instructions' = instructions /\ prg' = prg
  BY DEF Reject
<1>2. LabelsTyped' /\ Known'
  BY <1>1, KeepsShort, KnownKept DEF Agree, TypeInv, LabelsTyped, Bound
<1>3. startAddress' \in Address /\ currentPC' \in Address /\ (\E S : instructions \in Seq(S))'
  BY <1>1 DEF Agree, TypeInv
<1> QED
  BY <1>1, <1>2, <1>3, ReadingKeeps

LEMMA PlaceKeeps ==
  ASSUME Agree, fate = "reading", NEW inst, Place(inst), Placed(inst), Short(inst)',
         inst.size \in Nat, LabelsTyped',
         \A z : Placed(z) /\ Short(z) => Short(z)'
  PROVE  Agree'
<1>1. /\ fate' = fate /\ startAddress' = startAddress /\ prg' = prg
      /\ instructions' = Append(instructions, inst)
      /\ currentPC' = (currentPC + inst.size) % Word
  BY DEF Place
<1>2. PICK S : instructions \in Seq(S)
  BY DEF Agree, TypeInv
<1>3. Known' /\ (\E T : instructions \in Seq(T))'
  BY <1>1, <1>2, KnownLonger DEF Agree
<1>4. currentPC' \in Address
  <2>1. currentPC \in Int
    BY AddressBounds DEF Agree, TypeInv
  <2>2. currentPC + inst.size \in Int
    BY <2>1
  <2> QED
    BY <1>1, <2>2, Wrap
<1>5. startAddress' \in Address
  BY <1>1 DEF Agree, TypeInv
<1> QED
  BY <1>1, <1>3, <1>4, <1>5, ReadingKeeps

LEMMA LabelledKeeps ==
  ASSUME Agree, NEW l, Labelled(l), l.lbl \cap Bound = {}
  PROVE  /\ LabelsTyped'
         /\ \A z : Placed(z) /\ Short(z) => Short(z)'
<1>1. currentPC \in Address /\ LabelsTyped
  BY DEF Agree, TypeInv
<1> QED
  BY <1>1, BindKeeps DEF Labelled

LEMMA ConstantKeeps ==
  ASSUME Agree, NEW l \in Line, Constant(l)
  PROVE  Agree'
<1>1. fate = "reading" /\ l.k = "const"
  BY DEF Constant, Read
<1>2. CASE Reject("constant") \/ Reject("duplicate")
  BY <1>1, <1>2, RejectKeeps
<1>3. CASE /\ l.val # Bad /\ l.name \notin Bound
           /\ labels' = Bind({l.name}, l.val, labels)
           /\ UNCHANGED <<fate, startAddress, currentPC, instructions, prg>>
  <2>1. l.val \in Address
    BY <1>1, <1>3, LineAssumption DEF Value
  <2>2. LabelsTyped' /\ \A z : Placed(z) /\ Short(z) => Short(z)'
    <3>1. {l.name} \cap Bound = {} /\ LabelsTyped
      BY <1>3 DEF Agree, TypeInv
    <3> QED
      BY <1>3, <2>1, <3>1, BindKeeps
  <2>3. Known'
    BY <1>3, <2>2, KnownKept DEF Agree
  <2>4. /\ fate' # "limit" /\ fate' # "emitting" /\ prg' = prg
        /\ startAddress' \in Address /\ currentPC' \in Address
        /\ (\E S : instructions \in Seq(S))'
    BY <1>1, <1>3 DEF Agree, TypeInv
  <2> QED
    BY <1>1, <2>2, <2>3, <2>4, ReadingKeeps
<1> QED
  BY <1>2, <1>3 DEF Constant

LEMMA OriginKeeps ==
  ASSUME Agree, NEW l \in Line, Origin(l)
  PROVE  Agree'
<1>1. fate = "reading" /\ l.k = "org"
  BY DEF Origin, Read
<1>2. CASE Reject("origin")
  BY <1>1, <1>2, RejectKeeps
<1>3. CASE /\ l.val # Bad
           /\ startAddress' = IF firstOriginSet THEN startAddress ELSE l.val
           /\ currentPC' = l.val
           /\ UNCHANGED <<fate, labels, instructions, prg>>
  <2>1. l.val \in Address
    BY <1>1, <1>3, LineAssumption DEF Value
  <2>2. LabelsTyped' /\ Known'
    BY <1>3, KeepsShort, KnownKept DEF Agree, TypeInv, LabelsTyped, Bound
  <2>3. /\ fate' # "limit" /\ fate' # "emitting" /\ prg' = prg
        /\ startAddress' \in Address /\ currentPC' \in Address
        /\ (\E S : instructions \in Seq(S))'
    BY <1>1, <1>3, <2>1 DEF Agree, TypeInv
  <2> QED
    BY <1>1, <2>2, <2>3, ReadingKeeps
<1> QED
  BY <1>2, <1>3 DEF Origin

LEMMA HeaderKeeps ==
  ASSUME Agree, NEW l \in Line, Header(l)
  PROVE  Agree'
<1>1. fate = "reading" /\ l.k \in {"basic", "cart"}
  BY DEF Header, Read
<1>2. CASE Reject("header")
  BY <1>1, <1>2, RejectKeeps
<1>3. CASE l.arg # <<>> /\ ~Reject("header")
  <2>1. PICK inst : /\ inst = [k |-> l.k, pc |-> currentPC, arg |-> l.arg,
                               size |-> IF l.k = "basic" THEN 12 ELSE 9]
                    /\ Place(inst) /\ labels' = labels
    BY <1>3 DEF Header
  <2>2. inst.k = l.k /\ inst.pc = currentPC /\ inst.arg = l.arg /\ inst.size \in Nat
    BY <2>1
  <2>3. Placed(inst)
    BY <1>1, <1>3, <2>2, LineAssumption DEF Placed, Agree, TypeInv
  <2>4. Short(inst)'
    BY <1>1, <2>2 DEF Short
  <2>5. LabelsTyped' /\ \A z : Placed(z) /\ Short(z) => Short(z)'
    BY <2>1, KeepsShort DEF Agree, TypeInv, LabelsTyped, Bound
  <2> QED
    BY <1>1, <2>1, <2>2, <2>3, <2>4, <2>5, PlaceKeeps
<1> QED
  BY <1>2, <1>3 DEF Header

LEMMA DuplicateLabelKeeps ==
  ASSUME Agree, NEW l \in Line, DuplicateLabel(l)
  PROVE  Agree'
BY RejectKeeps DEF DuplicateLabel, Read

LEMMA LabelLineKeeps ==
  ASSUME Agree, NEW l \in Line, LabelLine(l) \/ Encoding(l)
  PROVE  Agree'
<1>1. fate = "reading" /\ l.lbl \cap Bound = {}
  BY DEF LabelLine, Encoding, Statement, Read
<1>2. CASE Reject("encoding")
  BY <1>1, <1>2, RejectKeeps
<1>3. CASE Labelled(l) /\ UNCHANGED <<fate, startAddress, currentPC, instructions, prg>>
  <2>1. LabelsTyped' /\ \A z : Placed(z) /\ Short(z) => Short(z)'
    BY <1>1, <1>3, LabelledKeeps
  <2>2. Known'
    BY <1>3, <2>1, KnownKept DEF Agree
  <2>3. /\ fate' # "limit" /\ fate' # "emitting" /\ prg' = prg
        /\ startAddress' \in Address /\ currentPC' \in Address
        /\ (\E S : instructions \in Seq(S))'
    BY <1>1, <1>3 DEF Agree, TypeInv
  <2> QED
    BY <1>1, <2>1, <2>2, <2>3, ReadingKeeps
<1> QED
  BY <1>2, <1>3 DEF LabelLine, Encoding

LEMMA DataDirectiveKeeps ==
  ASSUME Agree, NEW l \in Line, DataDirective(l)
  PROVE  Agree'
<1>1. fate = "reading" /\ l.k = "data" /\ l.lbl \cap Bound = {}
  BY DEF DataDirective, Statement, Read
<1>2. CASE Reject("data")
  BY <1>1, <1>2, RejectKeeps
<1>3. CASE ~Reject("data")
  <2>1. PICK inst : /\ inst = [k |-> "data", pc |-> currentPC, items |-> l.items, word |-> l.word,
                               encoding |-> currentEncoding,
                               size |-> IF l.word THEN 2 * Len(l.items) ELSE ItemBytes(l.items)]
                    /\ Place(inst) /\ Labelled(l)
    BY <1>3 DEF DataDirective
  <2>2. Len(l.items) \in Nat /\ ItemBytes(l.items) \in Nat
    BY <1>1, LineAssumption
  <2>3. /\ inst.k = "data" /\ inst.pc = currentPC /\ inst.items = l.items
        /\ inst.size = IF l.word THEN 2 * Len(l.items) ELSE ItemBytes(l.items)
    BY <2>1
  <2>4. inst.size \in Nat
    BY <2>2, <2>3
  <2>5. Placed(inst)
    BY <2>2, <2>3 DEF Placed, Agree, TypeInv
  <2>6. Short(inst)'
    BY <2>3 DEF Short
  <2>7. LabelsTyped' /\ \A z : Placed(z) /\ Short(z) => Short(z)'
    BY <1>1, <2>1, LabelledKeeps
  <2> QED
    BY <1>1, <2>1, <2>4, <2>5, <2>6, <2>7, PlaceKeeps
<1> QED
  BY <1>2, <1>3

LEMMA InstructionLineKeeps ==
  ASSUME Agree, NEW l \in Line, InstructionLine(l)
  PROVE  Agree'
<1>1. fate = "reading" /\ l.k = "op" /\ l.lbl \cap Bound = {}
  BY DEF InstructionLine, Statement, Read
<1> DEFINE mode == parseAddressingMode(l.mnemonic, l.form, l.e)'
<1>2. PICK inst : /\ inst = [k |-> "op", pc |-> currentPC, mnemonic |-> l.mnemonic,
                             form |-> l.form, e |-> l.e, mode |-> mode,
                             size |-> getInstructionSize(mode)]
                  /\ Place(inst) /\ Labelled(l)
  BY DEF InstructionLine
<1>3. mode \in ShortMode => l.e.sel # "all" \/ resolveExpr(l.e)' \in 0 .. 255
  BY ModeIsShort DEF parseAddressingMode, isZP, ShortMode
<1>4. /\ inst.k = "op" /\ inst.pc = currentPC /\ inst.e = l.e
      /\ inst.mode = mode /\ inst.size = getInstructionSize(mode)
  BY <1>2
<1> HIDE DEF mode
<1>5. inst.size \in Nat
  BY <1>4, SizeOfMode
<1>6. Placed(inst)
  BY <1>1, <1>4, LineAssumption DEF Placed, Agree, TypeInv
<1>7. Short(inst)'
  BY <1>3, <1>4 DEF Short
<1>8. LabelsTyped' /\ \A z : Placed(z) /\ Short(z) => Short(z)'
  BY <1>1, <1>2, LabelledKeeps
<1> QED
  BY <1>1, <1>2, <1>5, <1>6, <1>7, <1>8, PlaceKeeps

-----------------------------------------------------------------------------
(* The second pass.                                                        *)

Image == [at : Nat, bytes : Nat, operand : Int]

LEMMA EmittedType ==
  ASSUME TypeInv
  PROVE  /\ Emitted \in Nat
         /\ prg = <<>> => Emitted = 0
<1>1. prg \in Seq(Image)
  BY DEF TypeInv, Image
<1>2. CASE prg = <<>>
  BY <1>2 DEF Emitted
<1>3. CASE prg # <<>>
  <2>1. prg[Len(prg)] \in Image
    BY <1>1, <1>3
  <2>2. Emitted = prg[Len(prg)].at + prg[Len(prg)].bytes
    BY <1>3 DEF Emitted, Last
  <2> QED
    BY <1>3, <2>1, <2>2 DEF Image
<1> QED
  BY <1>2, <1>3

LEMMA EndOfSourceKeeps ==
  ASSUME Agree, EndOfSource
  PROVE  Agree'
<1>1. /\ fate = "reading" /\ fate' \in {"emitting", "scan"}
      /\ UNCHANGED <<labels, startAddress, currentPC, instructions, prg>>
      /\ emitPC' = startAddress
  BY DEF EndOfSource, passVars
<1>2. LabelsTyped' /\ Known'
  BY <1>1, KeepsShort, KnownKept DEF Agree, TypeInv, LabelsTyped, Bound
<1>3. prg = <<>> /\ prg' = <<>>
  BY <1>1 DEF Agree, TypeInv
<1>4. TypeInv'
  BY <1>1, <1>2 DEF Agree, TypeInv
<1>5. InPlace' /\ OperandsReach' /\ ShortModesHold'
  BY <1>1, <1>3 DEF InPlace, OperandsReach, ShortModesHold
<1>6. emitPC' = (startAddress' + Emitted') % Word
  <2>1. Emitted' = 0
    BY <1>3 DEF Emitted
  <2>2. startAddress \in Int /\ 0 <= startAddress /\ startAddress <= 65535
    BY AddressBounds DEF Agree, TypeInv
  <2>3. startAddress + 0 = startAddress
    BY <2>2
  <2> QED
    BY <1>1, <2>1, <2>2, <2>3, WrapSmall
<1>7. Len(prg') <= Len(instructions')
  BY <1>1 DEF Agree
<1> QED
  BY <1>2, <1>4, <1>5, <1>6, <1>7 DEF Agree

\* A step of pass 2 that emits nothing.
LEMMA StopKeeps ==
  ASSUME Agree, fate = "emitting", fate' # "emitting", fate' # "reading",
         UNCHANGED <<passVars, prg>>,
         fate' = "limit" => ShortModesHold'
  PROVE  Agree'
<1>1. UNCHANGED <<labels, startAddress, currentPC, instructions, prg>>
  BY DEF passVars
<1>2. LabelsTyped' /\ Known'
  BY <1>1, KeepsShort, KnownKept DEF Agree, TypeInv, LabelsTyped, Bound
<1>3. TypeInv'
  BY <1>1, <1>2 DEF Agree, TypeInv
<1>4. InPlace'
  BY <1>1 DEF Agree, InPlace
<1>5. OperandsReach'
  BY <1>1 DEF Agree, OperandsReach, resolveExpr, Bound
<1>6. ShortModesHold'
  BY DEF ShortModesHold
<1>7. Len(prg') <= Len(instructions')
  BY <1>1 DEF Agree
<1> QED
  BY <1>2, <1>3, <1>4, <1>5, <1>6, <1>7 DEF Agree

\* The zeros up to the place of an instruction lead to it.
LEMMA GapLeads ==
  ASSUME NEW start \in Int, NEW emitted \in Nat, NEW pc \in Int, NEW epc \in Int,
         epc = (start + emitted) % Word, 0 <= pc, pc <= 65535
  PROVE  (start + (emitted + pc - epc)) % Word = pc
<1>1. PICK a \in Int : a = start + emitted
  OBVIOUS
<1>2. PICK d \in Int : d = pc - epc
  OBVIOUS
<1>3. (a + d) % Word = (epc + d) % Word
  BY <1>1, WrapSum
<1>4. epc + d = pc
  BY <1>2
<1>5. a + d = start + (emitted + pc - epc)
  BY <1>1, <1>2
<1> QED
  BY <1>3, <1>4, <1>5, WrapSmall

LEMMA Behind ==
  ASSUME NEW sum \in Int, NEW bytes \in Int, NEW pc, sum % Word = pc
  PROVE  (sum + bytes) % Word = (pc + bytes) % Word
BY WrapSum

LEMMA EmitKeeps ==
  ASSUME Agree, Emit
  PROVE  Agree'
<1>1. PICK n : n = next /\ n <= Len(instructions) /\ fate = "emitting" /\ UNCHANGED passVars
  BY DEF Emit
<1>2. Len(prg) \in Nat /\ Len(instructions) \in Nat /\ n = Len(prg) + 1
      /\ DOMAIN instructions = 1 .. Len(instructions) /\ DOMAIN prg = 1 .. Len(prg)
  BY <1>1 DEF Agree, TypeInv, next
<1>3. n \in DOMAIN instructions
  BY <1>1, <1>2
<1>4. PICK inst : inst = instructions[n] /\ Placed(inst) /\ Short(inst)
  BY <1>3 DEF Agree, Known
<1>5. PICK e : e = Emission(inst)
  OBVIOUS
<1>6. LabelsTyped
  BY DEF Agree, TypeInv
<1>7. /\ e.bytes \in Nat
      /\ e.operand \in Int
      /\ e.operand # Bad =>
           resolveExpr(inst.e) = IF inst.mode = "rel" THEN BranchTarget(inst.pc, e.operand)
                                                      ELSE e.operand
      /\ e.err = "limit" => inst.k = "op" /\ resolveExpr(inst.e) # Bad /\ resolveExpr(inst.e) > 255
  BY <1>4, <1>5, <1>6, EmissionMeans
<1>8. UNCHANGED <<labels, startAddress, currentPC, instructions>>
  BY <1>1 DEF passVars
<1>9. CASE inst.pc < emitPC /\ fate' = "overlap" /\ UNCHANGED <<emitPC, prg>>
  BY <1>1, <1>9, StopKeeps
<1>10. CASE ~(inst.pc < emitPC) /\ e.err # "nil" /\ fate' = e.err /\ UNCHANGED <<emitPC, prg>>
  <2>1. e.err # "emitting" /\ e.err # "reading"
    BY <1>4, <1>5, <1>10, EmissionErr
  <2>2. ASSUME e.err = "limit" PROVE ShortModesHold'
    <3>1. inst.k = "op" /\ resolveExpr(inst.e) # Bad /\ resolveExpr(inst.e) > 255
      BY <1>7, <2>2
    <3>2. inst.e \in Expr
      BY <1>4, <3>1 DEF Placed
    <3>3. inst.e.sel = "all"
      BY <1>6, <3>1, <3>2, ResolveType
    <3>4. resolveExpr(inst.e) \notin 0 .. 255
      BY <3>1
    <3>5. inst.mode \notin ShortMode \/ Renamed(inst.e)
      BY <1>4, <3>1, <3>3, <3>4 DEF Short
    <3>6. next' = n
      BY <1>1, <1>10 DEF next
    <3>7. Renamed(inst.e)' = Renamed(inst.e)
      BY <1>8 DEF Renamed, Bound
    <3> QED
      BY <1>4, <1>8, <3>5, <3>6, <3>7 DEF ShortModesHold, ShortMode
  <2> QED
    BY <1>1, <1>10, <2>1, <2>2, StopKeeps
<1>11. CASE /\ ~(inst.pc < emitPC)
            /\ prg' = Append(prg, [at |-> Emitted + inst.pc - emitPC,
                                   bytes |-> e.bytes, operand |-> e.operand])
            /\ emitPC' = (inst.pc + e.bytes) % Word
            /\ UNCHANGED fate
  <2>1. PICK pc \in Int : pc = inst.pc /\ 0 <= pc /\ pc <= 65535
    BY <1>4, AddressBounds DEF Placed
  <2>2. PICK start \in Int : start = startAddress
    BY AddressBounds DEF Agree, TypeInv
  <2>3. PICK emitted \in Nat : emitted = Emitted
    BY EmittedType DEF Agree
  <2>4. PICK epc \in Int : epc = emitPC /\ epc = (start + emitted) % Word /\ epc >= 0
    <3>1. (start + emitted) % Word \in Address
      BY Wrap
    <3>2. emitPC = (start + emitted) % Word
      BY <1>1, <2>2, <2>3 DEF Agree
    <3> QED
      BY <3>1, <3>2, AddressBounds
  <2>5. PICK at \in Nat : at = emitted + pc - epc
    BY <1>11, <2>1, <2>4
  <2>6. (start + at) % Word = pc
    BY <2>1, <2>4, <2>5, GapLeads
  <2>7. PICK p : p = [at |-> at, bytes |-> e.bytes, operand |-> e.operand]
    OBVIOUS
  <2>8. p \in Image /\ p.at = at /\ p.bytes = e.bytes /\ p.operand = e.operand
    BY <1>7, <2>5, <2>7 DEF Image
  <2>9. prg' = Append(prg, p) /\ prg \in Seq(Image)
    BY <1>11, <2>1, <2>3, <2>4, <2>5, <2>7 DEF Agree, TypeInv, Image
  <2>10. /\ prg' \in Seq(Image) /\ Len(prg') = n /\ prg'[n] = p
         /\ \A i \in 1 .. Len(prg) : prg'[i] = prg[i]
    BY <1>2, <2>8, <2>9, AppendProperties
  <2>11. DOMAIN prg' = 1 .. n
    BY <2>10
  <2>12. \A i \in DOMAIN prg' : (i \in DOMAIN prg /\ prg'[i] = prg[i]) \/ (i = n /\ prg'[i] = p)
    BY <1>2, <2>10, <2>11
  <2>13. LabelsTyped' /\ Known'
    BY <1>8, KeepsShort, KnownKept DEF Agree, TypeInv, LabelsTyped, Bound
  <2>14. TypeInv'
    BY <1>1, <1>8, <1>11, <2>10, <2>13 DEF Agree, TypeInv, Image
  <2>15. emitPC' = (startAddress' + Emitted') % Word
    <3>1. prg' # <<>>
      BY <1>2, <2>10
    <3>2. Emitted' = at + e.bytes
      <4>1. Emitted' = prg'[Len(prg')].at + prg'[Len(prg')].bytes
        BY <3>1 DEF Emitted, Last
      <4>2. prg'[Len(prg')] = p
        BY <2>10
      <4> HIDE DEF Image
      <4> QED
        BY <4>1, <4>2, <2>8
    <3>3. (start + (at + e.bytes)) % Word = (pc + e.bytes) % Word
      <4>1. PICK b \in Int : b = e.bytes
        BY <1>7
      <4>2. PICK sum \in Int : sum = start + at
        BY <2>2, <2>5
      <4>3. (sum + b) % Word = (pc + b) % Word
        BY <2>6, <4>1, <4>2, Behind
      <4>4. sum + b = start + (at + b)
        BY <2>2, <2>5, <4>1, <4>2
      <4> QED
        BY <4>1, <4>3, <4>4
    <3> QED
      BY <1>8, <1>11, <2>1, <2>2, <3>2, <3>3
  <2>16. InPlace'
    <3>1. ASSUME NEW i \in DOMAIN prg'
          PROVE  (startAddress' + prg'[i].at) % Word = instructions'[i].pc
      <4>1. CASE i \in DOMAIN prg /\ prg'[i] = prg[i]
        BY <1>8, <4>1 DEF Agree, InPlace
      <4>2. CASE i = n /\ prg'[i] = p
        BY <1>4, <1>8, <2>1, <2>2, <2>6, <2>8, <4>2
      <4> QED
        BY <3>1, <2>12, <4>1, <4>2
    <3> QED
      BY <3>1 DEF InPlace
  <2>17. OperandsReach'
    <3>1. ASSUME NEW i \in DOMAIN prg', prg'[i].operand # Bad
          PROVE  resolveExpr(instructions[i].e)
                   = IF instructions[i].mode = "rel"
                     THEN BranchTarget(instructions[i].pc, prg'[i].operand)
                     ELSE prg'[i].operand
      <4>1. CASE i \in DOMAIN prg /\ prg'[i] = prg[i]
        BY <3>1, <4>1 DEF Agree, OperandsReach
      <4>2. CASE i = n /\ prg'[i] = p
        BY <1>4, <1>7, <2>8, <3>1, <4>2
      <4> QED
        BY <3>1, <2>12, <4>1, <4>2
    <3> QED
      BY <1>8, <3>1 DEF OperandsReach, resolveExpr, Bound
  <2>18. ShortModesHold'
    BY <1>1, <1>11 DEF ShortModesHold
  <2>19. Len(prg') <= Len(instructions')
    BY <1>1, <1>8, <2>10
  <2> QED
    BY <2>13, <2>14, <2>15, <2>16, <2>17, <2>18, <2>19 DEF Agree
<1> QED
  BY <1>1, <1>4, <1>5, <1>9, <1>10, <1>11 DEF Emit

LEMMA ReturnPRGKeeps ==
  ASSUME Agree, ReturnPRG
  PROVE  Agree'
BY StopKeeps DEF ReturnPRG

-----------------------------------------------------------------------------
(* Results.                                                                *)

LEMMA AgreeInit == AsmInit => Agree
<1> SUFFICES ASSUME AsmInit PROVE Agree
  OBVIOUS
<1>1. /\ fate = "reading" /\ labels = <<>> /\ instructions = <<>> /\ prg = <<>>
      /\ startAddress = 2049 /\ currentPC = 2049
  BY DEF AsmInit, DefaultLoadAddress
<1>2. 2049 \in Address
  BY AddressMember
<1>3. LabelsTyped /\ Known
  BY <1>1 DEF LabelsTyped, Known, Bound
<1>4. TypeInv
  <2>1. instructions \in Seq({}) /\ prg \in Seq([at : Nat, bytes : Nat, operand : Int])
    BY <1>1
  <2> QED
    BY <1>1, <1>2, <1>3, <2>1 DEF TypeInv
<1>5. Len(prg) <= Len(instructions) /\ InPlace /\ OperandsReach /\ ShortModesHold
  BY <1>1 DEF InPlace, OperandsReach, ShortModesHold
<1> QED
  BY <1>1, <1>3, <1>4, <1>5 DEF Agree

LEMMA AgreeStep == Agree /\ [AsmNext]_asmVars => Agree'
<1> SUFFICES ASSUME Agree, [AsmNext]_asmVars PROVE Agree'
  OBVIOUS
<1>1. CASE \E l \in Line : Constant(l)
  BY <1>1, ConstantKeeps
<1>2. CASE \E l \in Line : Origin(l)
  BY <1>2, OriginKeeps
<1>3. CASE \E l \in Line : Header(l)
  BY <1>3, HeaderKeeps
<1>4. CASE \E l \in Line : DuplicateLabel(l)
  BY <1>4, DuplicateLabelKeeps
<1>5. CASE \E l \in Line : LabelLine(l) \/ Encoding(l)
  BY <1>5, LabelLineKeeps
<1>6. CASE \E l \in Line : DataDirective(l)
  BY <1>6, DataDirectiveKeeps
<1>7. CASE \E l \in Line : InstructionLine(l)
  BY <1>7, InstructionLineKeeps
<1>8. CASE EndOfSource
  BY <1>8, EndOfSourceKeeps
<1>9. CASE Emit
  BY <1>9, EmitKeeps
<1>10. CASE ReturnPRG
  BY <1>10, ReturnPRGKeeps
<1>11. CASE UNCHANGED asmVars
  <2>1. UNCHANGED <<fate, labels, startAddress, currentPC, instructions, emitPC, prg>>
    BY <1>11 DEF asmVars, passVars
  <2>2. LabelsTyped' /\ Known'
    BY <2>1, KeepsShort, KnownKept DEF Agree, TypeInv, LabelsTyped, Bound
  <2>3. TypeInv' /\ Len(prg') <= Len(instructions')
    BY <2>1, <2>2 DEF Agree, TypeInv
  <2>4. InPlace' /\ OperandsReach' /\ ShortModesHold'
    BY <2>1 DEF Agree, InPlace, OperandsReach, ShortModesHold, resolveExpr, Bound, Renamed, next
  <2>5. fate' = "emitting" => emitPC' = (startAddress' + Emitted') % Word
    BY <2>1 DEF Agree, Emitted, Last
  <2> QED
    BY <2>2, <2>3, <2>4, <2>5 DEF Agree
<1> QED
  BY <1>1, <1>2, <1>3, <1>4, <1>5, <1>6, <1>7, <1>8, <1>9, <1>10, <1>11 DEF AsmNext

LEMMA AgreeAlways == AsmSpec => []Agree
BY AgreeInit, AgreeStep, PTL DEF AsmSpec

\* The two passes agree on addresses: whatever headers, data and gaps come before
\* and wherever the addresses wrap around, an instruction is emitted at the address
\* pass 1 gave it, which is where its label points (Assemble, asm.go 345-462).
THEOREM AddressesAgree == AsmSpec => []InPlace
<1>1. Agree => InPlace
  BY DEF Agree
<1> QED
  BY <1>1, AgreeAlways, PTL

\* Every operand that is emitted is the value of its expression, and a branch
\* reaches it, for every program (Assemble, asm.go 434-458).
THEOREM OperandsAreReached == AsmSpec => []OperandsReach
<1>1. Agree => OperandsReach
  BY DEF Agree
<1> QED
  BY <1>1, AgreeAlways, PTL

\* A zero page mode chosen in pass 1 is never refused in pass 2 for a value that
\* does not fit, unless a numeral was made the name of a label (parseAddressingMode
\* and resolveExpr, asm.go 330, 451, 527).
THEOREM ShortModesAreKept == AsmSpec => []ShortModesHold
<1>1. Agree => ShortModesHold
  BY DEF Agree
<1> QED
  BY <1>1, AgreeAlways, PTL

-----------------------------------------------------------------------------
(* The disassembler reads the image back.                                  *)

\* Induction, stated for a set of numbers.
LEMMA Induction ==
  ASSUME NEW S, 0 \in S, \A n \in Nat : n \in S => n + 1 \in S
  PROVE  Nat \subseteq S
<1> SUFFICES ASSUME {n \in Nat : n \notin S} # {} PROVE FALSE
  OBVIOUS
<1> DEFINE T == {n \in Nat : n \notin S}
           R == {ss \in Nat \X Nat : ss[1] < ss[2]}
<1>1. IsWellFoundedOn(R, Nat)
  BY NatLessThanWellFounded DEF OpToRel
<1>2. T \subseteq Nat /\ T # {}
  OBVIOUS
<1>3. PICK z \in T : \A k \in T : ~ (<<k, z>> \in R)
  <2> HIDE DEF R, T
  <2> QED
    BY <1>1, <1>2, WFMin
<1>4. z \in Nat \ {0}
  OBVIOUS
<1>5. z - 1 \in Nat /\ <<z - 1, z>> \in R /\ (z - 1) + 1 = z
  BY <1>4
<1>6. z - 1 \in S
  BY <1>3, <1>5
<1> QED
  BY <1>4, <1>5, <1>6


\* The sweep is what its recursive definition says.
LEMMA SweepIs ==
  ASSUME NEW size, NEW n \in Nat, n = Len(size),
         \A p \in 1 .. n : size[p] \in Nat /\ size[p] >= 1
  PROVE  \E g : /\ Disassemble(size) = g[1]
                /\ g[n + 1] = <<>>
                /\ \A p \in 1 .. n : p + size[p] <= n + 1
                     => g[p] = <<[at |-> p - 1, len |-> size[p]]>> \o g[p + size[p]]
<1> DEFINE Body(g, p) ==
             IF p > n THEN <<>>
             ELSE IF p + size[p] > n + 1
                  THEN [i \in 1 .. n - p + 1 |-> [at |-> p - 1 + i - 1, len |-> 1]]
                  ELSE <<[at |-> p - 1, len |-> size[p]]>> \o g[p + size[p]]
           Def(g, m) == g = [p \in n + 1 - m .. n + 1 |-> Body(g, p)]
           S == {m \in Nat : m <= n => \E g : Def(g, m)}
<1>1. 0 \in S
  <2> DEFINE h == [p \in n + 1 - 0 .. n + 1 |-> <<>>]
  <2>1. Def(h, 0)
    <3>1. \A p \in n + 1 - 0 .. n + 1 : p > n
      OBVIOUS
    <3> QED
      BY <3>1
  <2> HIDE DEF Def
  <2> QED
    BY <2>1
<1>2. ASSUME NEW m \in Nat, m \in S PROVE m + 1 \in S
  <2> HIDE DEF Def
  <2> SUFFICES ASSUME m + 1 <= n PROVE \E g : Def(g, m + 1)
    OBVIOUS
  <2>1. PICK g : Def(g, m)
    BY <1>2
  <2> USE DEF Def
  <2> DEFINE h == [p \in n - m .. n + 1 |-> Body(g, p)]
  <2>2. DOMAIN g = n + 1 - m .. n + 1 /\ \A p \in n + 1 - m .. n + 1 : g[p] = Body(g, p)
    BY <2>1
  <2>3. \A p \in n + 1 - m .. n + 1 : p \in n - m .. n + 1 /\ h[p] = g[p]
    <3>1. \A p \in n + 1 - m .. n + 1 : p \in n - m .. n + 1 /\ h[p] = Body(g, p)
      OBVIOUS
    <3> HIDE DEF h, Body
    <3> QED
      BY <2>2, <3>1
  <2>4. ASSUME NEW p \in n - m .. n + 1 PROVE Body(h, p) = Body(g, p)
    <3>1. CASE p > n \/ p + size[p] > n + 1
      <4> HIDE DEF h
      <4> QED
        BY <3>1
    <3>2. CASE p <= n /\ p + size[p] <= n + 1
      <4>1. p \in 1 .. n
        BY <3>2
      <4>2. PICK q \in Int : q = p + size[p] /\ q \in n + 1 - m .. n + 1
        BY <3>2, <4>1
      <4>3. h[q] = g[q]
        BY <2>3, <4>2
      <4> HIDE DEF h
      <4> QED
        BY <4>2, <4>3
    <3>3. p > n \/ p <= n
      OBVIOUS
    <3>4. CASE p <= n
      <4>1. p \in 1 .. n
        BY <3>4
      <4>2. PICK z \in Nat : z = size[p]
        BY <4>1
      <4>3. p + z > n + 1 \/ p + z <= n + 1
        OBVIOUS
      <4> QED
        BY <3>1, <3>2, <3>4, <4>2, <4>3
    <3> QED
      BY <3>1, <3>3, <3>4
  <2>5. Def(h, m + 1)
    <3>1. n + 1 - (m + 1) = n - m
      OBVIOUS
    <3>2. h = [p \in n - m .. n + 1 |-> Body(h, p)]
      <4> HIDE DEF Body
      <4> QED
        BY <2>4
    <3> HIDE DEF h, Body
    <3> QED
      BY <3>1, <3>2
  <2> HIDE DEF h, Def
  <2> QED
    BY <2>5
<1>3. \E g : Def(g, n)
  <2>1. Nat \subseteq S
    <3> HIDE DEF S
    <3> QED
      BY <1>1, <1>2, Induction
  <2> HIDE DEF Def
  <2> QED
    BY <2>1
<1>4. \A g : Def(g, n) <=> g = [p \in 1 .. n + 1 |-> Body(g, p)]
  <2>1. n + 1 - n = 1
    OBVIOUS
  <2> HIDE DEF Body
  <2> QED
    BY <2>1
<1>5. Disassemble(size) = (CHOOSE g : g = [p \in 1 .. n + 1 |-> Body(g, p)])[1]
  BY DEF Disassemble
<1>6. PICK g : Disassemble(size) = g[1] /\ g = [p \in 1 .. n + 1 |-> Body(g, p)]
  <2> DEFINE Is(g) == g = [p \in 1 .. n + 1 |-> Body(g, p)]
  <2>1. \E g : Is(g)
    <3> HIDE DEF Body, Def
    <3> QED
      BY <1>3, <1>4
  <2>2. Disassemble(size) = (CHOOSE g : Is(g))[1]
    BY <1>5
  <2> HIDE DEF Is
  <2>3. Is(CHOOSE g : Is(g))
    BY <2>1
  <2>4. \E g : Disassemble(size) = g[1] /\ Is(g)
    BY <2>2, <2>3
  <2> USE DEF Is
  <2> HIDE DEF Body
  <2> QED
    BY <2>4
<1>7. \A p \in 1 .. n + 1 : g[p] = Body(g, p)
  <2> HIDE DEF Body
  <2> QED
    BY <1>6
<1>8. g[n + 1] = <<>>
  <2>1. n + 1 \in 1 .. n + 1 /\ n + 1 > n
    OBVIOUS
  <2>2. Body(g, n + 1) = <<>>
    BY <2>1
  <2> HIDE DEF Body
  <2> QED
    BY <1>7, <2>1, <2>2
<1>9. ASSUME NEW p \in 1 .. n, p + size[p] <= n + 1
      PROVE  g[p] = <<[at |-> p - 1, len |-> size[p]]>> \o g[p + size[p]]
  <2>1. p \in 1 .. n + 1 /\ ~(p > n) /\ ~(p + size[p] > n + 1)
    BY <1>9
  <2>2. Body(g, p) = <<[at |-> p - 1, len |-> size[p]]>> \o g[p + size[p]]
    BY <2>1
  <2> HIDE DEF Body
  <2> QED
    BY <1>7, <2>1, <2>2
<1> QED
  BY <1>6, <1>8, <1>9

\* The second pass emits as many bytes for an instruction as the first has counted.
Sized == \A i \in DOMAIN prg : instructions[i].k = "op" =>
           prg[i].bytes = instructions[i].size /\ instructions[i].size \in {1, 2, 3}

LEMMA SizeEmitted ==
  ASSUME NEW inst, Placed(inst), inst.k = "op", Emission(inst).err = "nil"
  PROVE  Emission(inst).bytes = inst.size /\ inst.size \in {1, 2, 3}
<1>1. \A why, n, v : Err(why).err = why /\ Bytes(n, v).bytes = n
  BY DEF Err, Bytes
<1>2. inst.size \in {1, 2, 3}
  BY DEF Placed, getInstructionSize
<1>3. CASE ~lookupOpcode(inst.mnemonic, inst.mode)
  <2>1. Emission(inst) = Err("instruction")
    BY <1>3 DEF Emission
  <2> QED
    BY <1>1, <2>1
<1>4. CASE lookupOpcode(inst.mnemonic, inst.mode) /\ inst.size = 1
  <2>1. Emission(inst) = Bytes(1, Bad)
    BY <1>4 DEF Emission
  <2> QED
    BY <1>1, <1>4, <2>1
<1>5. CASE lookupOpcode(inst.mnemonic, inst.mode) /\ inst.size = 3
  <2>1. Emission(inst) = Operand(inst)
    BY <1>5 DEF Emission
  <2>2. Operand(inst) = Err("unresolved") \/ \E v : Operand(inst) = Bytes(3, v)
    BY <1>5 DEF Operand
  <2> QED
    BY <1>1, <1>5, <2>1, <2>2
<1>6. CASE lookupOpcode(inst.mnemonic, inst.mode) /\ inst.size = 2
  <2>1. Emission(inst) = Operand(inst)
    BY <1>6 DEF Emission
  <2>2. Operand(inst).err # "nil" \/ \E v : Operand(inst) = Bytes(2, v)
    BY <1>1, <1>6 DEF Operand
  <2> QED
    BY <1>1, <1>6, <2>1, <2>2
<1> QED
  BY <1>2, <1>3, <1>4, <1>5, <1>6

LEMMA SizedStep == Agree /\ Sized /\ [AsmNext]_asmVars => Sized'
<1> SUFFICES ASSUME Agree, Sized, [AsmNext]_asmVars PROVE Sized'
  OBVIOUS
<1>1. CASE fate = "reading" /\ prg' = prg
  BY <1>1 DEF Sized, Agree, TypeInv
<1>2. CASE UNCHANGED <<instructions, prg>>
  BY <1>2 DEF Sized
<1>3. CASE Emit
  <2> USE DEF Emit
  <2>1. instructions' = instructions
    BY <1>3 DEF passVars
  <2>a. PICK S : prg \in Seq(S)
    BY DEF Agree, TypeInv
  <2>2. PICK n \in Nat : n = Len(prg) /\ DOMAIN prg = 1 .. n
    BY <2>a
  <2>3. PICK inst : inst = instructions[n + 1]
    OBVIOUS
  <2>4. Placed(inst)
    <3>1. n + 1 \in DOMAIN instructions
      BY <1>3, <2>2 DEF next, Agree, TypeInv
    <3> QED
      BY <2>3, <3>1 DEF Agree, Known
  <2>5. CASE prg' = prg
    BY <2>1, <2>5 DEF Sized
  <2>6. CASE prg' # prg
    <3>1. /\ Emission(inst).err = "nil"
          /\ prg' = Append(prg, [at |-> Emitted + inst.pc - emitPC, bytes |-> Emission(inst).bytes,
                                 operand |-> Emission(inst).operand])
      BY <1>3, <2>2, <2>3, <2>6 DEF next
    <3>2. PICK p : p = [at |-> Emitted + inst.pc - emitPC, bytes |-> Emission(inst).bytes,
                        operand |-> Emission(inst).operand]
      OBVIOUS
    <3>3. p.bytes = Emission(inst).bytes /\ prg' = Append(prg, p)
      BY <3>1, <3>2
    <3>4. DOMAIN prg' = 1 .. n + 1 /\ prg'[n + 1] = p /\ \A i \in 1 .. n : prg'[i] = prg[i]
      BY <2>2, <3>3
    <3>5. inst.k = "op" => p.bytes = inst.size /\ inst.size \in {1, 2, 3}
      BY <2>4, <3>1, <3>3, SizeEmitted
    <3> QED
      BY <2>1, <2>2, <2>3, <3>4, <3>5 DEF Sized
  <2> QED
    BY <2>5, <2>6
<1>4. CASE \E l \in Line : \/ Constant(l) \/ Origin(l) \/ Header(l) \/ DuplicateLabel(l)
                           \/ LabelLine(l) \/ Encoding(l) \/ DataDirective(l) \/ InstructionLine(l)
  <2>0. PICK l \in Line : \/ Constant(l) \/ Origin(l) \/ Header(l) \/ DuplicateLabel(l)
                        \/ LabelLine(l) \/ Encoding(l) \/ DataDirective(l) \/ InstructionLine(l)
    BY <1>4
  <2> DEFINE Still == fate = "reading" /\ prg' = prg
  <2>1. ASSUME NEW why, Reject(why) PROVE prg' = prg
    BY <2>1 DEF Reject
  <2>2. ASSUME NEW inst, Place(inst) PROVE prg' = prg
    BY <2>2 DEF Place
  <2>3. ASSUME Constant(l) PROVE Still
    BY <2>3, <2>1, <2>2 DEF Constant, Statement, Read
  <2>4. ASSUME Origin(l) PROVE Still
    BY <2>4, <2>1, <2>2 DEF Origin, Statement, Read
  <2>5. ASSUME Header(l) PROVE Still
    BY <2>5, <2>1, <2>2 DEF Header, Statement, Read
  <2>6. ASSUME DuplicateLabel(l) PROVE Still
    BY <2>6, <2>1, <2>2 DEF DuplicateLabel, Statement, Read
  <2>7. ASSUME LabelLine(l) PROVE Still
    BY <2>7, <2>1, <2>2 DEF LabelLine, Statement, Read
  <2>8. ASSUME Encoding(l) PROVE Still
    BY <2>8, <2>1, <2>2 DEF Encoding, Statement, Read
  <2>9. ASSUME DataDirective(l) PROVE Still
    BY <2>9, <2>1, <2>2 DEF DataDirective, Statement, Read
  <2>10. ASSUME InstructionLine(l) PROVE Still
    BY <2>10, <2>1, <2>2 DEF InstructionLine, Statement, Read
  <2>11. Still
    BY <2>0, <2>3, <2>4, <2>5, <2>6, <2>7, <2>8, <2>9, <2>10
  <2> QED
    BY <1>1, <2>11
<1>5. CASE EndOfSource
  BY <1>1, <1>5 DEF EndOfSource
<1>6. CASE ReturnPRG
  BY <1>2, <1>6 DEF ReturnPRG, passVars
<1>7. CASE UNCHANGED asmVars
  BY <1>2, <1>7 DEF asmVars, passVars
<1> QED
  BY <1>3, <1>4, <1>5, <1>6, <1>7 DEF AsmNext

LEMMA SizedAlways == AsmSpec => [](Agree /\ Sized)
<1>1. AsmInit => Sized
  BY DEF AsmInit, Sized
<1> QED
  BY <1>1, AgreeInit, AgreeStep, SizedStep, PTL DEF AsmSpec


\* An item in front of the items from k + 1 on.
LEMMA InFront ==
  ASSUME NEW T, NEW n \in Nat, NEW it \in [1 .. n -> T]
  PROVE  \A m \in Nat : m < n =>
           <<it[n - m]>> \o [j \in 1 .. m |-> it[n - m + j]]
             = [j \in 1 .. m + 1 |-> it[n - (m + 1) + j]]
<1> SUFFICES ASSUME NEW m \in Nat, m < n
             PROVE  <<it[n - m]>> \o [j \in 1 .. m |-> it[n - m + j]]
                      = [j \in 1 .. m + 1 |-> it[n - (m + 1) + j]]
  OBVIOUS
<1> DEFINE s == [j \in 1 .. m |-> it[n - m + j]]
           r == [j \in 1 .. m + 1 |-> it[n - (m + 1) + j]]
           h == <<it[n - m]>>
<1>1. n - m \in 1 .. n /\ it[n - m] \in T
  OBVIOUS
<1>2. \A j \in 1 .. m : n - m + j \in 1 .. n /\ it[n - m + j] \in T
  OBVIOUS
<1>3. s \in Seq(T) /\ Len(s) = m
  BY <1>2
<1>4. h \in Seq(T) /\ Len(h) = 1 /\ h[1] = it[n - m]
  BY <1>1
<1>5. \A j \in 1 .. m + 1 : n - (m + 1) + j \in 1 .. n
  OBVIOUS
<1>6. r \in Seq(T) /\ Len(r) = m + 1
  BY <1>5
<1>7. \A j \in 1 .. m : s[j] = it[n - m + j]
  OBVIOUS
<1>8. \A j \in 1 .. m + 1 : r[j] = it[n - (m + 1) + j]
  OBVIOUS
<1> HIDE DEF s, r, h
<1>9. /\ h \o s \in Seq(T)
      /\ Len(h \o s) = m + 1
      /\ \A j \in 1 .. m + 1 : (h \o s)[j] = IF j <= 1 THEN h[j] ELSE s[j - 1]
  <2>1. /\ h \o s \in Seq(T)
        /\ Len(h \o s) = Len(h) + Len(s)
        /\ \A j \in 1 .. Len(h) + Len(s) :
             (h \o s)[j] = IF j <= Len(h) THEN h[j] ELSE s[j - Len(h)]
    BY <1>3, <1>4, ConcatProperties
  <2>2. Len(h) + Len(s) = m + 1
    BY <1>3, <1>4
  <2> QED
    BY <2>1, <2>2, <1>3, <1>4
<1>10. ASSUME NEW j \in 1 .. m + 1 PROVE (h \o s)[j] = r[j]
  <2>1. CASE j = 1
    <3>1. (h \o s)[1] = h[1]
      BY <1>9, <2>1
    <3>2. r[1] = it[n - (m + 1) + 1] /\ n - (m + 1) + 1 = n - m
      BY <1>8, <2>1
    <3> QED
      BY <2>1, <3>1, <3>2, <1>4
  <2>2. CASE j # 1
    <3>1. PICK k \in 1 .. m : k = j - 1 /\ j = k + 1
      BY <2>2
    <3>2. (h \o s)[k + 1] = s[k]
      <4>1. ~(j <= 1) /\ j - 1 = k /\ k + 1 = j
        BY <3>1
      <4>2. (h \o s)[j] = IF j <= 1 THEN h[j] ELSE s[j - 1]
        BY <1>9
      <4> QED
        BY <4>1, <4>2
    <3>3. r[k + 1] = it[n - (m + 1) + (k + 1)] /\ n - (m + 1) + (k + 1) = n - m + k
      BY <1>8, <3>1
    <3> QED
      BY <3>1, <3>2, <3>3, <1>7
  <2> QED
    BY <2>1, <2>2
<1>11. h \o s = r
  BY <1>6, <1>9, <1>10, SeqEqual
<1> QED
  BY <1>11 DEF h, s, r

\* Items that lie one behind the other do not overlap.
LEMMA Consecutive ==
  ASSUME NEW n \in Nat, NEW start \in [1 .. n + 1 -> Nat], NEW len \in [1 .. n -> Nat],
         \A q \in 1 .. n : start[q + 1] = start[q] + len[q]
  PROVE  \A i \in 1 .. n : \A j \in 1 .. n + 1 : i < j => start[i] + len[i] <= start[j]
<1> SUFFICES ASSUME NEW i \in 1 .. n, NEW j \in 1 .. n + 1, i < j
             PROVE  start[i] + len[i] <= start[j]
  OBVIOUS
<1> DEFINE S == {d \in Nat : i + d + 1 <= n + 1 => start[i] + len[i] <= start[i + d + 1]}
<1>1. 0 \in S
  <2>1. i + 0 + 1 = i + 1 /\ start[i + 1] \in Nat /\ start[i] \in Nat /\ len[i] \in Nat
    OBVIOUS
  <2> QED
    BY <2>1
<1>2. ASSUME NEW d \in Nat, d \in S PROVE d + 1 \in S
  <2> SUFFICES ASSUME i + (d + 1) + 1 <= n + 1
               PROVE  start[i] + len[i] <= start[i + (d + 1) + 1]
    OBVIOUS
  <2>1. PICK k \in 1 .. n : k = i + d + 1 /\ k + 1 = i + (d + 1) + 1
    OBVIOUS
  <2>2. start[i] + len[i] <= start[k]
    BY <1>2, <2>1
  <2>3. start[k + 1] = start[k] + len[k]
    OBVIOUS
  <2>4. k \in 1 .. n + 1 /\ i \in 1 .. n + 1
    OBVIOUS
  <2>5. start[k] \in Nat /\ start[i] \in Nat
    BY <2>4
  <2>6. len[k] \in Nat /\ len[i] \in Nat
    OBVIOUS
  <2>7. PICK a \in Nat, b \in Nat, c \in Nat, e \in Nat :
          a = start[k] /\ b = start[i] /\ c = len[k] /\ e = len[i]
    BY <2>5, <2>6
  <2>8. b + e <= a /\ start[k + 1] = a + c
    BY <2>2, <2>3, <2>7
  <2>9. b + e <= start[k + 1]
    BY <2>8
  <2> QED
    BY <2>1, <2>7, <2>9
<1>3. Nat \subseteq S
  <2> HIDE DEF S
  <2> QED
    BY <1>1, <1>2, Induction
<1>4. PICK d \in Nat : j = i + d + 1
  <2>1. j - i - 1 \in Nat /\ j = i + (j - i - 1) + 1
    OBVIOUS
  <2> QED
    BY <2>1
<1>5. i + d + 1 <= n + 1 => start[i] + len[i] <= start[i + d + 1]
  <2>1. d \in S
    <3> HIDE DEF S
    <3> QED
      BY <1>3
  <2> QED
    BY <2>1
<1>6. i + d + 1 <= n + 1
  BY <1>4
<1>7. start[i] + len[i] <= start[i + d + 1]
  BY <1>5, <1>6
<1> HIDE DEF S
<1> QED
  BY <1>4, <1>7

\* The sizes of instructions.
LEMMA Sizes ==
  ASSUME NEW z \in {1, 2, 3}
  PROVE  z \in Nat /\ z >= 1
OBVIOUS

\* The sweep finds items of one to three bytes that lie one behind the other and fill
\* the image.
LEMMA SweepFinds ==
  ASSUME NEW n \in Nat, NEW start \in [1 .. n + 1 -> Nat], NEW len \in [1 .. n -> {1, 2, 3}],
         start[1] = 0,
         \A q \in 1 .. n : start[q + 1] = start[q] + len[q]
  PROVE  \A size : /\ Len(size) = start[n + 1]
                   /\ \A p \in 1 .. start[n + 1] : size[p] \in {1, 2, 3}
                   /\ \A i \in 1 .. n : size[start[i] + 1] = len[i]
           => Disassemble(size) = [i \in 1 .. n |-> [at |-> start[i], len |-> len[i]]]
<1> SUFFICES ASSUME NEW size, Len(size) = start[n + 1],
                    \A p \in 1 .. start[n + 1] : size[p] \in {1, 2, 3},
                    \A i \in 1 .. n : size[start[i] + 1] = len[i]
             PROVE  Disassemble(size) = [i \in 1 .. n |-> [at |-> start[i], len |-> len[i]]]
  OBVIOUS
<1>1. PICK z \in Nat : z = start[n + 1] /\ z = Len(size)
  OBVIOUS
<1>2. \A p \in 1 .. z : size[p] \in Nat /\ size[p] >= 1
  <2> TAKE p \in 1 .. z
  <2>1. size[p] \in {1, 2, 3}
    BY <1>1
  <2> QED
    BY <2>1, Sizes
<1>3. PICK g : /\ Disassemble(size) = g[1]
               /\ g[z + 1] = <<>>
               /\ \A p \in 1 .. z : p + size[p] <= z + 1
                    => g[p] = <<[at |-> p - 1, len |-> size[p]]>> \o g[p + size[p]]
  BY <1>1, <1>2, SweepIs
<1> DEFINE it == [i \in 1 .. n |-> [at |-> start[i], len |-> len[i]]]
           T == [at : Nat, len : Nat]
           S == {m \in Nat : m <= n => g[start[n + 1 - m] + 1] = [j \in 1 .. m |-> it[n - m + j]]}
<1>a. \A i \in 1 .. n : len[i] \in Nat /\ len[i] >= 1
  <2> TAKE i \in 1 .. n
  <2>1. len[i] \in {1, 2, 3}
    OBVIOUS
  <2> QED
    BY <2>1, Sizes
<1>b. \A i \in 1 .. n : start[i] \in Nat
  OBVIOUS
<1>4. it \in [1 .. n -> T]
  BY <1>a, <1>b
<1>5. \A i \in 1 .. n : it[i] = [at |-> start[i], len |-> len[i]]
  OBVIOUS
<1>6. len \in [1 .. n -> Nat]
  BY <1>a
<1>7. \A i \in 1 .. n : start[i] + len[i] <= z
  <2> HIDE DEF it, S, T
  <2>3. \A i \in 1 .. n : \A j \in 1 .. n + 1 : i < j => start[i] + len[i] <= start[j]
    BY <1>6, Consecutive
  <2> TAKE i \in 1 .. n
  <2>1. n + 1 \in 1 .. n + 1 /\ i < n + 1
    OBVIOUS
  <2>2. start[i] + len[i] <= start[n + 1]
    BY <2>1, <2>3
  <2> QED
    BY <1>1, <2>2
<1>8. 0 \in S
  <2>1. n + 1 - 0 = n + 1
    OBVIOUS
  <2>2. g[start[n + 1 - 0] + 1] = <<>>
    BY <1>1, <1>3, <2>1
  <2>3. [j \in 1 .. 0 |-> it[n - 0 + j]] = <<>>
    OBVIOUS
  <2> QED
    BY <2>2, <2>3
<1>9. ASSUME NEW m \in Nat, m \in S PROVE m + 1 \in S
  <2> SUFFICES ASSUME m + 1 <= n
               PROVE  g[start[n + 1 - (m + 1)] + 1] = [j \in 1 .. m + 1 |-> it[n - (m + 1) + j]]
    OBVIOUS
  <2>1. PICK i \in 1 .. n : i = n - m /\ i = n + 1 - (m + 1) /\ i + 1 = n + 1 - m
    OBVIOUS
  <2>2. PICK p \in 1 .. z : p = start[i] + 1 /\ p + len[i] = start[i + 1] + 1 /\ p + len[i] <= z + 1
    <3>1. /\ start[i] \in Nat /\ len[i] \in Nat /\ len[i] >= 1
          /\ start[i] + len[i] <= z
      BY <1>7, <1>a, <1>b
    <3>2. start[i + 1] = start[i] + len[i]
      OBVIOUS
    <3>3. PICK a \in Nat, b \in Nat : a = start[i] /\ b = len[i]
      BY <3>1
    <3>a. a + b <= z /\ b >= 1
      BY <3>1, <3>3
    <3>4. a + 1 \in 1 .. z /\ a + 1 + b = (a + b) + 1 /\ a + 1 + b <= z + 1
      BY ONLY <3>a, z \in Nat, a \in Nat, b \in Nat
    <3> HIDE DEF it, S, T
    <3> QED
      BY <3>2, <3>3, <3>4
  <2>3. size[p] = len[i] /\ p - 1 = start[i]
    BY <2>2
  <2>4. g[p] = <<[at |-> p - 1, len |-> size[p]]>> \o g[p + size[p]]
    BY <1>3, <2>2, <2>3
  <2>5. g[p + size[p]] = [j \in 1 .. m |-> it[n - m + j]]
    <3>1. g[start[n + 1 - m] + 1] = [j \in 1 .. m |-> it[n - m + j]]
      <4> HIDE DEF it
      <4> QED
        BY <1>9
    <3> HIDE DEF it, S
    <3> QED
      BY <2>1, <2>2, <2>3, <3>1
  <2>6. [at |-> p - 1, len |-> size[p]] = it[n - m]
    <3> HIDE DEF it
    <3> QED
      BY <1>5, <2>1, <2>3
  <2> HIDE DEF it, S, T
  <2>7. <<it[n - m]>> \o [j \in 1 .. m |-> it[n - m + j]]
          = [j \in 1 .. m + 1 |-> it[n - (m + 1) + j]]
    <3>1. m < n
      OBVIOUS
    <3>2. \A k \in Nat : k < n =>
            <<it[n - k]>> \o [j \in 1 .. k |-> it[n - k + j]]
              = [j \in 1 .. k + 1 |-> it[n - (k + 1) + j]]
      BY <1>4, InFront
    <3> QED
      BY <3>1, <3>2
  <2> QED
    BY <2>1, <2>2, <2>4, <2>5, <2>6, <2>7
<1>10. n \in S
  <2> HIDE DEF S
  <2> QED
    BY <1>8, <1>9, Induction
<1>11. g[start[n + 1 - n] + 1] = [j \in 1 .. n |-> it[n - n + j]]
  <2> HIDE DEF it
  <2> QED
    BY <1>10
<1>12. n + 1 - n = 1 /\ start[1] + 1 = 1
  OBVIOUS
<1>13. [j \in 1 .. n |-> it[n - n + j]] = it
  <2>1. \A j \in 1 .. n : n - n + j = j
    OBVIOUS
  <2> QED
    BY <2>1
<1> HIDE DEF it, S, T
<1>14. Disassemble(size) = it
  BY <1>3, <1>11, <1>12, <1>13
<1> QED
  BY <1>14 DEF it

\* What the state of a finished program gives the sweep.
LEMMA Listed ==
  ASSUME Agree, Sized, OnlyCode
  PROVE  Disassemble(Assembled) = [i \in DOMAIN prg |-> [at |-> prg[i].at, len |-> prg[i].bytes]]
<1>1. prg \in Seq([at : Nat, bytes : Nat, operand : Int])
  BY DEF Agree, TypeInv
<1>2. PICK n \in Nat : n = Len(prg) /\ DOMAIN prg = 1 .. n
  BY <1>1
<1>3. \A i \in 1 .. n : /\ prg[i].at \in Nat /\ prg[i].bytes \in {1, 2, 3}
                        /\ instructions[i].size = prg[i].bytes
  <2> TAKE i \in 1 .. n
  <2> DEFINE R == [at : Nat, bytes : Nat, operand : Int]
  <2>a. prg \in Seq(R) /\ i \in 1 .. Len(prg)
    BY <1>1, <1>2
  <2>1. prg[i] \in R
    <3> HIDE DEF R
    <3> QED
      BY <2>a, ElementOfSeq
  <2>2. instructions[i].k = "op"
    BY <1>2 DEF OnlyCode
  <2>3. prg[i].bytes = instructions[i].size /\ instructions[i].size \in {1, 2, 3}
    BY <1>2, <2>2 DEF Sized
  <2> QED
    BY <2>1, <2>3
<1>4. PICK z \in Nat : /\ z = Emitted
                       /\ n = 0 => z = 0
                       /\ n > 0 => z = prg[n].at + prg[n].bytes
  <2>1. CASE n = 0
    <3>1. prg = <<>>
      BY <1>1, <1>2, <2>1
    <3> QED
      BY <2>1, <3>1 DEF Emitted
  <2>2. CASE n > 0
    <3>1. prg # <<>> /\ Last(prg) = prg[n] /\ n \in 1 .. n
      BY <1>1, <1>2, <2>2 DEF Last
    <3>2. prg[n].at \in Nat /\ prg[n].bytes \in Nat
      BY <1>3, <3>1, Sizes
    <3> QED
      BY <2>2, <3>1, <3>2 DEF Emitted
  <2> QED
    BY <2>1, <2>2
<1> DEFINE start == [i \in 1 .. n + 1 |-> IF i <= n THEN prg[i].at ELSE z]
           len == [i \in 1 .. n |-> prg[i].bytes]
           first(p) == {i \in DOMAIN prg : prg[i].at = p - 1}
<1>5. len \in [1 .. n -> {1, 2, 3}] /\ \A i \in 1 .. n : len[i] = prg[i].bytes
  BY <1>3
<1>6. \A i \in 1 .. n : len[i] \in Nat /\ len[i] >= 1
  <2> TAKE i \in 1 .. n
  <2>1. len[i] \in {1, 2, 3}
    BY <1>3
  <2> HIDE DEF len
  <2> QED
    BY <2>1, Sizes
<1>7. start \in [1 .. n + 1 -> Nat]
  <2>1. ASSUME NEW i \in 1 .. n + 1, i <= n PROVE prg[i].at \in Nat
    BY <1>3, <2>1
  <2> QED
    BY <2>1
<1>8. (\A i \in 1 .. n : start[i] = prg[i].at) /\ start[n + 1] = z
  OBVIOUS
<1>9. start[1] = 0
  <2>1. CASE n = 0
    BY <1>4, <2>1
  <2>2. CASE n > 0
    <3>1. 1 \in 1 .. n
      BY <2>2
    <3>2. prg[1].at = 0
      BY <1>2, <3>1 DEF OnlyCode
    <3> HIDE DEF start
    <3> QED
      BY <1>8, <3>1, <3>2
  <2> QED
    BY <2>1, <2>2
<1> HIDE DEF start, len
<1>10. \A q \in 1 .. n : start[q + 1] = start[q] + len[q]
  <2> TAKE q \in 1 .. n
  <2>1. CASE q = n
    BY <1>4, <1>5, <1>8, <2>1
  <2>2. CASE q # n
    <3>1. PICK j \in 1 .. n : j = q + 1 /\ j # 1 /\ j - 1 = q
      BY <2>2
    <3>2. prg[j].at = prg[j - 1].at + prg[j - 1].bytes
      BY <1>2, <3>1 DEF OnlyCode
    <3> QED
      BY <1>5, <1>8, <3>1, <3>2
  <2> QED
    BY <2>1, <2>2
<1>11. \A i \in 1 .. n : \A j \in 1 .. n + 1 : i < j => start[i] + len[i] <= start[j]
  <2>1. len \in [1 .. n -> Nat]
    BY <1>5, <1>6
  <2> QED
    BY <1>7, <1>10, <2>1, Consecutive
<1>12. \A i, j \in 1 .. n : start[i] = start[j] => i = j
  <2>1. \A i, j \in 1 .. n : i < j => start[i] # start[j]
    <3> SUFFICES ASSUME NEW i \in 1 .. n, NEW j \in 1 .. n, i < j
                 PROVE  start[i] # start[j]
      OBVIOUS
    <3>1. j \in 1 .. n + 1 /\ i \in 1 .. n + 1
      OBVIOUS
    <3>2. start[i] + len[i] <= start[j]
      BY <1>11, <3>1
    <3>3. start[i] \in Nat /\ start[j] \in Nat /\ len[i] \in Nat /\ len[i] >= 1
      BY <1>6, <1>7, <3>1
    <3> QED
      BY <3>2, <3>3
  <2> SUFFICES ASSUME NEW i \in 1 .. n, NEW j \in 1 .. n, start[i] = start[j]
               PROVE  i = j
    OBVIOUS
  <2>2. ~(i < j) /\ ~(j < i)
    BY <2>1
  <2> QED
    BY <2>2
<1>13. Assembled = [p \in 1 .. z |-> IF first(p) = {} THEN 3
                                     ELSE instructions[CHOOSE i \in first(p) : TRUE].size]
  BY <1>4 DEF Assembled
<1>14. \A p \in 1 .. z : Assembled[p] = IF first(p) = {} THEN 3
                                        ELSE instructions[CHOOSE i \in first(p) : TRUE].size
  BY <1>13
<1>15. \A p \in 1 .. z : Assembled[p] \in {1, 2, 3}
  <2> TAKE p \in 1 .. z
  <2>1. CASE first(p) = {}
    <3> HIDE DEF first
    <3> QED
      BY <1>14, <2>1
  <2>2. CASE first(p) # {}
    <3>1. PICK i : i = CHOOSE q \in first(p) : TRUE
      OBVIOUS
    <3>2. i \in first(p)
      <4> HIDE DEF first
      <4> QED
        BY <2>2, <3>1
    <3>3. instructions[i].size \in {1, 2, 3}
      BY <1>2, <1>3, <3>2
    <3> HIDE DEF first
    <3> QED
      BY <1>14, <2>2, <3>1, <3>3
  <2> QED
    BY <2>1, <2>2
<1>16. \A i \in 1 .. n : Assembled[start[i] + 1] = len[i]
  <2> TAKE i \in 1 .. n
  <2>1. start[i] \in Nat /\ start[i] + len[i] <= z /\ len[i] \in Nat /\ len[i] >= 1
    <3>1. i \in 1 .. n + 1 /\ n + 1 \in 1 .. n + 1 /\ i < n + 1
      OBVIOUS
    <3> QED
      BY <1>6, <1>7, <1>8, <1>11, <3>1
  <2>2. PICK p \in 1 .. z : p = start[i] + 1 /\ p - 1 = start[i]
    <3>1. PICK a \in Nat, b \in Nat : a = start[i] /\ b = len[i]
      BY <2>1
    <3>2. a + b <= z /\ b >= 1
      BY <2>1, <3>1
    <3>3. a + 1 \in 1 .. z /\ (a + 1) - 1 = a
      BY ONLY <3>2, z \in Nat, a \in Nat, b \in Nat
    <3> QED
      BY <3>1, <3>3
  <2>3. \A q : q \in first(p) <=> q \in 1 .. n /\ start[q] = start[i]
    BY <1>2, <1>8, <2>2
  <2> HIDE DEF first
  <2>4. \A q : q \in first(p) <=> q = i
    BY <1>12, <2>3
  <2>5. first(p) = {i}
    BY <2>4
  <2>6. (CHOOSE q \in first(p) : TRUE) = i
    BY <2>5
  <2>7. Assembled[p] = instructions[i].size
    BY <1>14, <2>5, <2>6
  <2> QED
    BY <1>3, <1>5, <2>2, <2>7
<1>17. Len(Assembled) = start[n + 1]
  <2> HIDE DEF first
  <2>1. DOMAIN Assembled = 1 .. z
    BY <1>13
  <2>2. Assembled \in Seq({1, 2, 3})
    BY <1>13, <1>15, <2>1
  <2> QED
    BY <1>8, <2>1, <2>2
<1>18. \A p \in 1 .. start[n + 1] : Assembled[p] \in {1, 2, 3}
  BY <1>8, <1>15
<1>19. Disassemble(Assembled) = [i \in 1 .. n |-> [at |-> start[i], len |-> len[i]]]
  <2> HIDE DEF first
  <2>1. PICK image : image = Assembled
    OBVIOUS
  <2>2. /\ Len(image) = start[n + 1]
        /\ \A p \in 1 .. start[n + 1] : image[p] \in {1, 2, 3}
        /\ \A i \in 1 .. n : image[start[i] + 1] = len[i]
    BY <1>16, <1>17, <1>18, <2>1
  <2>3. \A size : /\ Len(size) = start[n + 1]
                  /\ \A p \in 1 .. start[n + 1] : size[p] \in {1, 2, 3}
                  /\ \A i \in 1 .. n : size[start[i] + 1] = len[i]
          => Disassemble(size) = [i \in 1 .. n |-> [at |-> start[i], len |-> len[i]]]
    <3>1. len \in [1 .. n -> {1, 2, 3}]
      BY <1>5
    <3> QED
      BY <1>7, <1>9, <1>10, <3>1, SweepFinds
  <2>4. Disassemble(image) = [i \in 1 .. n |-> [at |-> start[i], len |-> len[i]]]
    BY <2>2, <2>3
  <2> QED
    BY <2>1, <2>4
<1>20. \A i \in 1 .. n : [at |-> start[i], len |-> len[i]] = [at |-> prg[i].at, len |-> prg[i].bytes]
  BY <1>5, <1>8
<1> QED
  BY <1>2, <1>19, <1>20

\* The listing of an assembled program is the program: when there is nothing in the
\* image but instructions, each behind the one before it, the sweep of Disassemble
\* (disasm.go 25-102) finds every one of them where Assemble (asm.go 345-462) has put
\* it and with its size, and nothing else, for every set of lines and programs of
\* every length.
THEOREM ProgramsReadBack == AsmSpec => []ReadsBack
<1>1. Agree /\ Sized => ReadsBack
  BY Listed DEF ReadsBack
<1> QED
  BY <1>1, SizedAlways, PTL
-----------------------------------------------------------------------------
(* The bootstrap of a cartridge copies a program into the memory, page by  *)
(* page and then the rest. While it runs, the pointers are as many pages   *)
(* behind their start as are copied, and what is copied has arrived.       *)

\* The bytes that the bootstrap has copied.
Copied == (Len(Code(prog)) \div Page - x) * Page + y

\* The program in the ROM, behind the bootstrap.
Bootable(c) ==
  /\ c.at = RomAt
  /\ BootLen + Len(Code(prog)) <= Len(c.data)
  /\ RomAt + Len(c.data) <= Size
  /\ \A i \in 1 .. Len(Code(prog)) : c.data[BootLen + i] = Code(prog)[i]

\* The cartridge of a program is one chip with the program in it, which is what was
\* put in, and jumps to where it starts.
Loaded ==
  imgStage \in {"boot", "pages", "rest", "running"}
    => /\ Code(prog) # <<>>
       /\ jumpTo = file.entry /\ jumpTo >= Page
       /\ \E c : crt.chips = <<c>> /\ Bootable(c)

\* The pointers of the bootstrap are as many pages behind their start as are copied.
Pointing(p, start) ==
  LET n == Len(Code(prog)) \div Page - x
  IN ram[p] = start % Page /\ ram[p + 1] = (start \div Page + n) % (Size \div Page)

\* What the bootstrap has copied lies in its place.
Arrived == \A i \in 1 .. Copied : ram[file.at + i - 1] = Code(prog)[i]

Progress ==
  LET pages == Len(Code(prog)) \div Page
      rest == Len(Code(prog)) % Page
  IN /\ imgStage \in {"pages", "rest"}
          => /\ x \in 0 .. pages /\ y \in 0 .. Page - 1
             /\ Clear => Pointing(source, RomAt + BootLen) /\ Pointing(dest, file.at) /\ Arrived
     /\ imgStage = "pages" => x >= 1
     /\ imgStage = "rest" => x = 0 /\ y <= rest
     /\ imgStage = "running" /\ Clear
          => \A i \in DOMAIN Code(prog) : ram[file.at + i - 1] = Code(prog)[i]

Taken ==
  /\ DOMAIN ram = 0 .. Size - 1
  /\ prog \in Seq(Nat) /\ file.bytes \in Seq(Nat) /\ file.at \in Nat
  /\ imgStage \in {"choose", "program", "boot", "pages", "rest", "running", "raw", "refused"}
  /\ imgStage \in {"program", "boot", "pages", "rest", "running"}
        => /\ file.at = LoadAddress(prog)
           /\ file.bytes = Code(prog)
  /\ imgStage = "program" => file.entry = Entry(prog)
  /\ imgStage = "raw" => /\ crt.type \in Types /\ Fit(crt.type, file.bytes)
                         /\ crt.chips = Chips(crt.type, file.bytes)

BootInv == Taken /\ Loaded /\ Progress

-----------------------------------------------------------------------------
(* Arithmetic of addresses.                                                *)

LEMMA Times ==
  /\ \A a, b \in Int : a * b \in Int
  /\ \A a, b \in Nat : a * b \in Nat
  /\ \A a, b \in Int : a * b = b * a
  /\ \A a, b, c \in Int : a * (b + c) = a * b + a * c
  /\ \A a, b, c \in Int : a * (b * c) = (a * b) * c
  /\ \A a, b, n \in Nat : a <= b => n * a <= n * b
<1>1. \A a, b \in Int : a * b \in Int
  OBVIOUS
<1>2. \A a, b \in Nat : a * b \in Nat
  OBVIOUS
<1>3. \A a, b \in Int : a * b = b * a
  OBVIOUS
<1>4. \A a, b, c \in Int : a * (b + c) = a * b + a * c
  OBVIOUS
<1>5. \A a, b, c \in Int : a * (b * c) = (a * b) * c
  OBVIOUS
<1>6. \A a, b, n \in Nat : a <= b => n * a <= n * b
  OBVIOUS
<1> QED
  BY <1>1, <1>2, <1>3, <1>4, <1>5, <1>6

LEMMA Divided ==
  ASSUME NEW a \in Nat, NEW n \in Nat, n > 0
  PROVE  a \div n \in Nat /\ a % n \in 0 .. n - 1 /\ a = n * (a \div n) + (a % n)
<1>1. a \div n \in Nat
  OBVIOUS
<1>2. a % n \in 0 .. n - 1
  OBVIOUS
<1>3. a = n * (a \div n) + (a % n)
  OBVIOUS
<1> QED
  BY <1>1, <1>2, <1>3

LEMMA Unique ==
  ASSUME NEW n \in Nat, NEW q \in Nat, NEW r \in 0 .. n - 1
  PROVE  (n * q + r) % n = r /\ (n * q + r) \div n = q
<1>1. \E a \in Nat : a = n * q + r
  BY Times
<1>2. PICK a \in Nat : a = n * q + r
  BY <1>1
<1>3. n > 0
  OBVIOUS
<1>4. PICK p \in Nat, s \in 0 .. n - 1 : p = a \div n /\ s = a % n /\ a = n * p + s
  BY <1>3, Divided
<1>5. p = q
  <2>1. CASE p < q
    <3>1. n * (p + 1) <= n * q
      BY <2>1, Times, p + 1 <= q
    <3>2. n * (p + 1) = n * p + n
      OBVIOUS
    <3> QED
      BY <3>1, <3>2, <1>2, <1>4, Times
  <2>2. CASE q < p
    <3>1. n * (q + 1) <= n * p
      BY <2>2, Times, q + 1 <= p
    <3>2. n * (q + 1) = n * q + n
      OBVIOUS
    <3> QED
      BY <3>1, <3>2, <1>2, <1>4, Times
  <2> QED
    BY <2>1, <2>2
<1>6. r = s
  BY <1>2, <1>4, <1>5, Times
<1> QED
  BY <1>2, <1>4, <1>5, <1>6


LEMMA Layout ==
  /\ Page \in Nat /\ Page > 0 /\ Size \in Nat /\ Size > 0
  /\ Size \div Page \in Nat /\ Size \div Page > 0 /\ Size = Page * (Size \div Page)
  /\ Bank \in Nat /\ RomAt \in Nat /\ HighRom \in Nat /\ BootLen \in Nat /\ Pointers \in Nat
  /\ Pointers + 3 < RomAt /\ RomAt + 2 * Bank <= HighRom /\ HighRom + Bank <= Size
<1>1. Page \in Nat /\ Page > 0 /\ Size \in Nat /\ Size > 0 /\ Size % Page = 0
  BY LayoutAssumption
<1>2. PICK q \in Nat : q = Size \div Page /\ Size = Page * q
  BY <1>1, Divided, Times
<1>3. q > 0
  BY <1>1, <1>2, Times
<1>4. Bank \in Nat /\ RomAt \in Nat /\ HighRom \in Nat /\ RomAt + 2 * Bank <= HighRom - Bank \div 2
  BY LayoutAssumption
<1>5. Bank \div 2 \in Nat
  BY <1>4
<1>6. RomAt + 2 * Bank <= HighRom
  BY <1>4, <1>5
<1> QED
  BY <1>1, <1>2, <1>3, <1>6, LayoutAssumption

\* A pointer that is n pages behind its start points n pages behind it.
LEMMA PointsAt ==
  ASSUME NEW start \in Nat, NEW n \in Nat, NEW k \in 0 .. Page - 1, start + n * Page + k < Size
  PROVE  ((start % Page) + Page * ((start \div Page + n) % (Size \div Page)) + k) % Size
           = start + n * Page + k
<1>1. PICK P \in Nat : P = Size \div Page /\ P > 0 /\ Size = Page * P
  BY Layout
<1>2. PICK h \in Nat, l \in 0 .. Page - 1 : h = start \div Page /\ l = start % Page /\ start = Page * h + l
  BY Layout, Divided
<1>3. PICK u \in Nat, v \in 0 .. P - 1 : v = (h + n) % P /\ h + n = P * u + v
  <2>1. PICK w \in Nat : w = h + n
    OBVIOUS
  <2>2. w \div P \in Nat /\ w % P \in 0 .. P - 1 /\ w = P * (w \div P) + (w % P)
    BY <1>1, Divided
  <2> QED
    BY <2>1, <2>2
<1>4. PICK m \in Nat : m = l + Page * v + k
  BY Layout, Times
<1>5. start + n * Page + k = Size * u + m
  <2>1. n * Page = Page * n
    BY Layout, Times
  <2>2. Page * (h + n) = Page * h + Page * n
    BY Layout, Times
  <2>3. Page * (P * u + v) = Page * (P * u) + Page * v
    BY Layout, Times
  <2>4. Page * (P * u) = Size * u
    BY Layout, Times, <1>1
  <2>5. Page * h + Page * n = Size * u + Page * v
    BY <2>2, <2>3, <2>4, <1>3
  <2>6. PICK a, b, c, d \in Nat : a = Page * h /\ b = Page * n /\ c = Size * u /\ d = Page * v
    BY Layout, Times
  <2>7. start = a + l /\ n * Page = b /\ a + b = c + d /\ m = l + d + k
    BY <1>2, <1>4, <2>1, <2>5, <2>6
  <2>8. start + b + k = c + m
    BY <2>7
  <2> QED
    BY <2>6, <2>7, <2>8
<1>6. u = 0
  <2>1. SUFFICES ASSUME 1 <= u PROVE FALSE
    OBVIOUS
  <2>2. Size * 1 <= Size * u
    BY <2>1, Layout, Times
  <2> QED
    BY <2>2, <1>4, <1>5, Layout, Times
<1>7. m = start + n * Page + k /\ m \in 0 .. Size - 1
  BY <1>4, <1>5, <1>6, Layout
<1>8. m % Size = m
  <2>1. (Size * 0 + m) % Size = m
    BY <1>7, Layout, Unique
  <2> QED
    BY <2>1, <1>7, Layout
<1> QED
  BY <1>1, <1>2, <1>3, <1>4, <1>7, <1>8

\* A pointer on the next page is one page further behind its start.
LEMMA PointsFurther ==
  ASSUME NEW h \in Nat, NEW P \in Nat, P > 0
  PROVE  ((h % P) + 1) % P = (h + 1) % P
<1>1. PICK u \in Nat, v \in 0 .. P - 1 : v = h % P /\ h = P * u + v
  BY Divided
<1>2. CASE v + 1 < P
  <2>1. (P * u + (v + 1)) % P = v + 1 /\ (P * 0 + (v + 1)) % P = v + 1
    BY <1>2, Unique, v + 1 \in 0 .. P - 1
  <2>2. h + 1 = P * u + (v + 1) /\ v + 1 = P * 0 + (v + 1)
    BY <1>1, Times
  <2> QED
    BY <1>1, <2>1, <2>2
<1>3. CASE v + 1 = P
  <2>1. (P * (u + 1) + 0) % P = 0 /\ (P * 1 + 0) % P = 0
    BY Unique, 0 \in 0 .. P - 1
  <2>2. h + 1 = P * (u + 1) + 0 /\ v + 1 = P * 1 + 0
    BY <1>1, <1>3, Times
  <2> QED
    BY <1>1, <2>1, <2>2
<1> QED
  BY <1>1, <1>2, <1>3


-----------------------------------------------------------------------------
(* Programs and chips.                                                     *)

LEMMA CodeType ==
  ASSUME NEW p \in Seq(Nat)
  PROVE  Code(p) \in Seq(Nat) /\ Len(Code(p)) \in Nat
<1>1. Len(p) \in Nat /\ \A i \in 3 .. Len(p) : p[i] \in Nat
  OBVIOUS
<1>2. SubSeq(p, 3, Len(p)) \in Seq(Nat)
  BY <1>1, SubSeqProperties
<1> QED
  BY <1>2 DEF Code

LEMMA LoadAddressType ==
  ASSUME NEW p \in Seq(Nat)
  PROVE  LoadAddress(p) \in Nat
<1>1. CASE Len(p) < 2
  BY <1>1 DEF LoadAddress
<1>2. CASE ~(Len(p) < 2)
  <2>1. p[1] \in Nat /\ p[2] \in Nat
    BY <1>2
  <2>2. Page * p[2] \in Nat
    BY <2>1, Layout, Times
  <2>3. p[1] + Page * p[2] \in Nat
    BY <2>1, <2>2
  <2> QED
    BY <1>2, <2>3 DEF LoadAddress
<1> QED
  BY <1>1, <1>2

\* A program that is made of its code and its load address has them.
LEMMA Programmed ==
  ASSUME NEW code \in Seq(Nat), NEW start \in Nat
  PROVE  /\ NewProgram(code, start) \in Seq(Nat)
         /\ Code(NewProgram(code, start)) = code
         /\ LoadAddress(NewProgram(code, start)) = start
<1>1. PICK l, h \in Nat : l = start % Page /\ h = start \div Page /\ start = Page * h + l
  BY Layout, Divided
<1> DEFINE p == <<l, h>> \o code
<1>2. NewProgram(code, start) = p
  BY <1>1 DEF NewProgram
<1>3. <<l, h>> \in Seq(Nat) /\ Len(<<l, h>>) = 2 /\ <<l, h>>[1] = l /\ <<l, h>>[2] = h
  OBVIOUS
<1>4. /\ p \in Seq(Nat) /\ Len(p) = 2 + Len(code)
      /\ p[1] = l /\ p[2] = h
      /\ \A i \in 3 .. 2 + Len(code) : p[i] = code[i - 2]
  BY <1>3, ConcatProperties
<1> HIDE DEF p
<1>5. Code(p) = code
  <2>1. Len(p) \in Nat /\ Len(code) \in Nat /\ \A i \in 3 .. Len(p) : p[i] \in Nat
    BY <1>4
  <2>2. /\ SubSeq(p, 3, Len(p)) \in Seq(Nat)
        /\ Len(SubSeq(p, 3, Len(p))) = Len(code)
        /\ \A i \in 1 .. Len(p) - 2 : SubSeq(p, 3, Len(p))[i] = p[3 + i - 1]
    BY <1>4, <2>1, SubSeqProperties
  <2>3. \A i \in 1 .. Len(code) : SubSeq(p, 3, Len(p))[i] = code[i]
    BY <1>4, <2>1, <2>2
  <2>4. SubSeq(p, 3, Len(p)) = code
    BY <2>2, <2>3, SeqEqual
  <2> QED
    BY <2>4 DEF Code
<1>6. LoadAddress(p) = start
  <2>1. l + Page * h = start
    <3>1. PICK m \in Nat : m = Page * h
      BY Layout, Times
    <3> QED
      BY <3>1, <1>1
  <2>2. ~(Len(p) < 2)
    BY <1>4
  <2> QED
    BY <1>4, <2>1, <2>2 DEF LoadAddress
<1> QED
  BY <1>2, <1>4, <1>5, <1>6

LEMMA PaddedKeeps ==
  ASSUME NEW rom \in Seq(Nat), NEW n \in Nat, Len(rom) <= n
  PROVE  /\ Padded(rom, n) \in Seq(Nat)
         /\ Len(Padded(rom, n)) = n
         /\ \A i \in 1 .. Len(rom) : Padded(rom, n)[i] = rom[i]
<1>1. PICK m \in Nat : m = n - Len(rom)
  OBVIOUS
<1> DEFINE fill == [i \in 1 .. m |-> 255]
<1>2. fill \in Seq(Nat) /\ Len(fill) = m
  OBVIOUS
<1>3. Padded(rom, n) = rom \o fill
  BY <1>1 DEF Padded
<1> HIDE DEF fill
<1> QED
  BY <1>1, <1>2, <1>3, ConcatProperties

\* The rom of a program: the bootstrap and behind it the program, in one chip.
LEMMA RomIsBootable ==
  ASSUME NEW n \in {Bank, 2 * Bank}, Code(prog) \in Seq(Nat),
         NEW rom, rom = [i \in 1 .. BootLen |-> 0] \o Code(prog), Len(rom) <= n
  PROVE  Bootable([at |-> RomAt, data |-> Padded(rom, n)])
<1> DEFINE boot == [i \in 1 .. BootLen |-> 0]
<1>1. boot \in Seq(Nat) /\ Len(boot) = BootLen
  BY Layout
<1>2. rom = boot \o Code(prog)
  OBVIOUS
<1> HIDE DEF boot
<1>3. PICK l \in Nat : l = Len(Code(prog))
  OBVIOUS
<1>4. PICK b \in Nat : b = BootLen
  BY Layout
<1>5. rom \in Seq(Nat) /\ Len(rom) = b + l
  BY <1>1, <1>2, <1>3, <1>4, ConcatProperties
<1>6. \A i \in 1 .. Len(boot) + Len(Code(prog)) :
        rom[i] = IF i <= Len(boot) THEN boot[i] ELSE Code(prog)[i - Len(boot)]
  BY <1>1, <1>2, ConcatProperties
<1>7. \A i \in 1 .. l : b + i \in 1 .. b + l /\ ~(b + i <= b) /\ b + i - b = i
  OBVIOUS
<1>8. \A i \in 1 .. l : rom[b + i] = Code(prog)[i]
  BY <1>1, <1>3, <1>4, <1>6, <1>7
<1> DEFINE data == Padded(rom, n)
<1>9. /\ n \in Nat /\ RomAt + n <= Size /\ Len(data) = n
      /\ \A i \in 1 .. b + l : data[i] = rom[i]
  <2>1. n \in Nat /\ RomAt + n <= Size
    BY Layout
  <2> QED
    BY <1>5, <2>1, PaddedKeeps
<1>11. \A i \in 1 .. l : data[b + i] = Code(prog)[i]
  BY <1>7, <1>8, <1>9
<1> HIDE DEF data
<1> QED
  BY <1>3, <1>4, <1>5, <1>9, <1>11 DEF Bootable, data

\* What the CPU reads of a cartridge with one chip.
LEMMA PeekedAt ==
  ASSUME NEW c, crt.chips = <<c>>, NEW a
  PROVE  /\ a \in c.at .. c.at + Len(c.data) - 1 => Peeked(a) = c.data[a - c.at + 1]
         /\ a \notin (c.at .. c.at + Len(c.data) - 1) \union Basic \union Kernal \union Registers
              => Peeked(a) = ram[a]
<1>1. ToSet(crt.chips) = {c}
  BY DEF ToSet
<1>2. CASE a \in c.at .. c.at + Len(c.data) - 1
  <2>1. {d \in ToSet(crt.chips) : a \in d.at .. d.at + Len(d.data) - 1} = {c}
    BY <1>1, <1>2
  <2> QED
    BY <1>2, <2>1 DEF Peeked
<1>3. CASE a \notin (c.at .. c.at + Len(c.data) - 1) \union Basic \union Kernal \union Registers
  <2>1. {d \in ToSet(crt.chips) : a \in d.at .. d.at + Len(d.data) - 1} = {}
    BY <1>1, <1>3
  <2> QED
    BY <1>3, <2>1 DEF Peeked
<1> QED
  BY <1>2, <1>3


-----------------------------------------------------------------------------
(* The bootstrap.                                                          *)

LEMMA HighPage ==
  ASSUME NEW a \in Nat, a < Size
  PROVE  (a \div Page + 0) % (Size \div Page) = a \div Page
<1>1. PICK P \in Nat : P = Size \div Page /\ P > 0 /\ Size = Page * P
  BY Layout
<1>2. PICK h \in Nat, l \in Nat : h = a \div Page /\ a = Page * h + l
  <2>1. a \div Page \in Nat /\ a % Page \in Nat /\ a = Page * (a \div Page) + (a % Page)
    BY Layout, Divided
  <2> QED
    BY <2>1
<1>3. h < P
  <2>1. SUFFICES ASSUME P <= h PROVE FALSE
    BY <1>1, <1>2
  <2>2. Page * P <= Page * h
    BY <2>1, Layout, Times
  <2>3. PICK m \in Nat : m = Page * h
    BY Layout, Times
  <2>4. a = m + l /\ Size <= m
    BY <2>2, <2>3, <1>1, <1>2
  <2> QED
    BY <2>4, Layout
<1>4. (P * 0 + h) % P = h
  BY <1>1, <1>3, Unique, h \in 0 .. P - 1
<1> QED
  BY <1>1, <1>2, <1>4

\* How far a bootstrap is that has copied some pages and some bytes of the next.
LEMMA Distance ==
  ASSUME NEW l \in Nat, NEW k \in 0 .. l \div Page, NEW b \in 0 .. Page - 1,
         NEW c, c = (l \div Page - k) * Page + b
  PROVE  /\ l \div Page - k \in Nat /\ c \in Nat
         /\ k >= 1 => c < l
         /\ k = 0 => (c < l <=> b < l % Page) /\ (c = l <=> b = l % Page)
<1>1. PICK q \in Nat, r \in 0 .. Page - 1 : q = l \div Page /\ r = l % Page /\ l = Page * q + r
  BY Layout, Divided
<1>2. PICK m \in Nat : m = (q - k) * Page /\ m = Page * (q - k)
  BY <1>1, Layout, Times, q - k \in Nat
<1>3. c = m + b
  BY <1>1, <1>2
<1>4. PICK a \in Nat : a = Page * q
  BY <1>1, Layout, Times
<1>5. k >= 1 => m + Page <= a
  <2>1. SUFFICES ASSUME k >= 1 PROVE m + Page <= a
    OBVIOUS
  <2>2. Page * ((q - k) + 1) <= Page * q
    BY <1>1, <2>1, Layout, Times, (q - k) + 1 \in Nat, (q - k) + 1 <= q
  <2>3. Page * ((q - k) + 1) = Page * (q - k) + Page * 1
    BY <1>1, Layout, Times
  <2> QED
    BY <1>2, <1>4, <2>2, <2>3, Layout
<1>6. k = 0 => m = a
  <2>1. k = 0 => q - k = q
    BY <1>1
  <2> QED
    BY <1>2, <1>4, <2>1
<1> QED
  BY <1>1, <1>2, <1>3, <1>4, <1>5, <1>6, Layout

LEMMA CopyByteDomain == DOMAIN CopyByte = DOMAIN ram
<1>1. CASE At(dest) \in Registers
  BY <1>1 DEF CopyByte
<1>2. CASE At(dest) \notin Registers
  BY <1>2 DEF CopyByte
<1> QED
  BY <1>1, <1>2

\* The next byte is read behind the bootstrap and written into its place.
LEMMA CopyByteIs ==
  ASSUME Taken, Loaded, Progress, imgStage \in {"pages", "rest"}, Clear,
         Copied < Len(Code(prog))
  PROVE  /\ file.at + Copied \in 0 .. Size - 1
         /\ file.at + Copied \notin Pointers .. Pointers + 3
         /\ CopyByte = [ram EXCEPT ![file.at + Copied] = Code(prog)[Copied + 1]]
<1>1. PICK l \in Nat : l = Len(Code(prog)) /\ Code(prog) \in Seq(Nat)
  BY CodeType DEF Taken
<1>2. x \in 0 .. l \div Page /\ y \in 0 .. Page - 1
  BY <1>1 DEF Progress
<1>3. PICK n \in Nat, k \in Nat : n = l \div Page - x /\ k = Copied /\ k = n * Page + y
  BY <1>1, <1>2, Distance DEF Copied
<1>4. Pointing(source, RomAt + BootLen) /\ Pointing(dest, file.at)
  BY DEF Progress
<1>5. PICK c : crt.chips = <<c>> /\ Bootable(c)
  BY DEF Loaded
<1>6. PICK at \in Nat : at = file.at
  BY DEF Taken
<1>7. /\ at + l <= Size
      /\ (at .. at + l - 1) \cap (Pointers .. Pointers + 3) = {}
      /\ (at .. at + l - 1) \cap Registers = {}
  BY <1>1, <1>6 DEF Clear
<1>8. k < l /\ k + 1 \in 1 .. l
  BY <1>1, <1>3
<1>9. at + k \in at .. at + l - 1 /\ at + k \in 0 .. Size - 1
  BY <1>7, <1>8, Layout
<1>10. PICK s \in Nat : s = RomAt + BootLen
  BY Layout
<1>11. PICK d \in Nat : d = Len(c.data) /\ c.at = RomAt /\ BootLen + l <= d /\ RomAt + d <= Size
  <2>1. Len(c.data) \in Int
    BY <1>1, <1>5, Layout DEF Bootable
  <2> QED
    BY <1>1, <1>5, <2>1, Layout DEF Bootable
<1>12. s + k < Size /\ s + k \in RomAt .. RomAt + d - 1 /\ s + k - RomAt + 1 = BootLen + (k + 1)
  BY <1>8, <1>10, <1>11, Layout
<1>13. At(source) = s + k
  <2>1. s + n * Page + y = s + k
    BY <1>3, <1>2, Layout
  <2>2. ((s % Page) + Page * ((s \div Page + n) % (Size \div Page)) + y) % Size = s + n * Page + y
    BY <1>2, <1>12, <2>1, PointsAt
  <2> QED
    BY <1>1, <1>3, <1>4, <1>10, <2>1, <2>2 DEF At, Pointing
<1>14. At(dest) = at + k
  <2>1. at + n * Page + y = at + k
    BY <1>3, <1>2, Layout
  <2>2. at + k < Size
    BY <1>7, <1>8, Layout
  <2>3. ((at % Page) + Page * ((at \div Page + n) % (Size \div Page)) + y) % Size = at + n * Page + y
    BY <1>2, <2>1, <2>2, PointsAt
  <2> QED
    BY <1>1, <1>3, <1>4, <1>6, <2>1, <2>3 DEF At, Pointing
<1>15. Peeked(s + k) = Code(prog)[k + 1]
  <2>1. PICK e \in Nat : e = s + k /\ e \in c.at .. c.at + Len(c.data) - 1
    BY <1>11, <1>12
  <2>3. Peeked(e) = c.data[e - c.at + 1]
    BY <1>5, <2>1, PeekedAt
  <2>4. e - c.at + 1 = BootLen + (k + 1)
    BY <1>11, <1>12, <2>1, Layout
  <2>2. c.data[BootLen + (k + 1)] = Code(prog)[k + 1]
    BY <1>1, <1>5, <1>8 DEF Bootable
  <2> QED
    BY <2>1, <2>2, <2>3, <2>4
<1>16. at + k \notin Registers
  BY <1>7, <1>9
<1> QED
  BY <1>3, <1>6, <1>7, <1>9, <1>13, <1>14, <1>15, <1>16 DEF CopyByte


\* The bootstrap changes nothing of the program and its cartridge.
LEMMA BootKeeps ==
  ASSUME Taken, Loaded, imgStage \in {"boot", "pages", "rest"},
         imgStage' \in {"pages", "rest", "running"}, DOMAIN ram' = 0 .. Size - 1,
         UNCHANGED <<file, prog, crt, jumpTo>>
  PROVE  Taken' /\ Loaded' /\ (Clear' <=> Clear) /\ Code(prog)' = Code(prog)
<1>1. Code(prog)' = Code(prog) /\ LoadAddress(prog)' = LoadAddress(prog)
  BY DEF Code, LoadAddress
<1>2. Clear' <=> Clear
  BY <1>1 DEF Clear
<1>3. Taken'
  BY <1>1 DEF Taken
<1>4. Loaded'
  <2>1. PICK c : crt.chips = <<c>> /\ Bootable(c)
    BY DEF Loaded
  <2>2. crt'.chips = <<c>> /\ Bootable(c)'
    BY <1>1, <2>1 DEF Bootable
  <2> QED
    BY <1>1, <2>2 DEF Loaded
<1> QED
  BY <1>1, <1>2, <1>3, <1>4

LEMMA ColdStartKeeps ==
  ASSUME BootInv, ColdStart
  PROVE  BootInv'
<1> USE DEF BootInv, ColdStart
<1>1. PICK l \in Nat : l = Len(Code(prog)) /\ Code(prog) \in Seq(Nat) /\ l > 0
  BY CodeType DEF Taken, Loaded
<1>2. PICK q \in Nat, r \in 0 .. Page - 1 : q = l \div Page /\ r = l % Page
  BY Layout, Divided
<1>3. x' = q /\ y' = 0
  BY <1>1, <1>2
<1>4. imgStage' \in {"pages", "rest"} /\ (imgStage' = "pages" <=> q # 0)
  BY <1>3
<1>5. DOMAIN ram' = 0 .. Size - 1
  BY DEF Taken
<1>6. Taken' /\ Loaded' /\ (Clear' <=> Clear) /\ Code(prog)' = Code(prog)
  BY <1>4, <1>5, BootKeeps
<1>7. x' \in 0 .. q /\ y' \in 0 .. Page - 1 /\ y' <= r
  BY <1>2, <1>3, Layout
<1>8. q - x' = 0
  BY <1>3
<1>9. Copied' = 0
  BY <1>1, <1>2, <1>3, <1>6, <1>8, Layout DEF Copied
<1>10. Clear => Pointing(source, RomAt + BootLen)' /\ Pointing(dest, file.at)'
  <2> SUFFICES ASSUME Clear PROVE Pointing(source, RomAt + BootLen)' /\ Pointing(dest, file.at)'
    OBVIOUS
  <2>1. PICK s \in Nat : s = RomAt + BootLen /\ s < Size
    <3>1. PICK c : crt.chips = <<c>> /\ Bootable(c)
      BY DEF Loaded
    <3> QED
      BY <1>1, <3>1, Layout DEF Bootable
  <2>2. PICK at \in Nat : at = file.at /\ at < Size /\ at = LoadAddress(prog)
    BY <1>1, Layout DEF Taken, Clear
  <2>3. /\ Pointers \in 0 .. Size - 1 /\ Pointers + 1 \in 0 .. Size - 1
        /\ Pointers + 2 \in 0 .. Size - 1 /\ Pointers + 3 \in 0 .. Size - 1
        /\ Pointers + 2 + 1 = Pointers + 3
    BY Layout
  <2>4. PICK m : m = ram /\ DOMAIN m = 0 .. Size - 1
    BY DEF Taken
  <2>5. ram' = [m EXCEPT ![Pointers] = s % Page, ![Pointers + 1] = s \div Page,
                         ![Pointers + 2] = at % Page, ![Pointers + 3] = at \div Page]
    BY <2>1, <2>2, <2>3, <2>4 DEF source, dest
  <2>6. /\ ram'[Pointers] = s % Page /\ ram'[Pointers + 1] = s \div Page
        /\ ram'[Pointers + 2] = at % Page /\ ram'[Pointers + 3] = at \div Page
    BY <2>3, <2>4, <2>5, Layout
  <2>7. (s \div Page + 0) % (Size \div Page) = s \div Page
    BY <2>1, HighPage
  <2>8. (at \div Page + 0) % (Size \div Page) = at \div Page
    BY <2>2, HighPage
  <2>9. Pointing(source, RomAt + BootLen)'
    BY <1>1, <1>2, <1>6, <1>8, <2>1, <2>6, <2>7 DEF Pointing, source
  <2>10. Pointing(dest, file.at)'
    BY <1>1, <1>2, <1>6, <1>8, <2>2, <2>3, <2>6, <2>8 DEF Pointing, dest
  <2> QED
    BY <2>9, <2>10
<1>11. Arrived'
  BY <1>9 DEF Arrived
<1>12. Progress'
  BY <1>1, <1>2, <1>3, <1>4, <1>6, <1>7, <1>10, <1>11 DEF Progress
<1> QED
  BY <1>6, <1>12


\* The pointers stay when a byte is copied, and it arrives behind the others.
LEMMA ArrivesOne ==
  ASSUME Taken, Loaded, Progress, imgStage \in {"pages", "rest"}, Clear,
         Copied < Len(Code(prog)), Copied' = Copied + 1, UNCHANGED <<file, prog, crt>>,
         \A a \in 0 .. Size - 1 : a # Pointers + 1 /\ a # Pointers + 3 => ram'[a] = CopyByte[a]
  PROVE  /\ \A a \in Pointers .. Pointers + 3 : CopyByte[a] = ram[a]
         /\ Arrived'
<1>1. PICK l \in Nat : l = Len(Code(prog)) /\ Code(prog) \in Seq(Nat)
  BY CodeType DEF Taken
<1>2. PICK k \in Nat : k = Copied
  BY <1>1, Distance DEF Copied, Progress
<1>3. PICK at \in Nat : at = file.at
  BY DEF Taken
<1>4. PICK m : m = ram /\ DOMAIN m = 0 .. Size - 1
  BY DEF Taken
<1>5. /\ at + k \in 0 .. Size - 1
      /\ at + k \notin Pointers .. Pointers + 3
      /\ CopyByte = [m EXCEPT ![at + k] = Code(prog)[k + 1]]
  BY <1>2, <1>3, <1>4, CopyByteIs
<1>6. ASSUME NEW a \in Pointers .. Pointers + 3
      PROVE  CopyByte[a] = ram[a]
  <2>1. a \in 0 .. Size - 1 /\ a # at + k
    BY <1>5, Layout
  <2> QED
    BY <1>4, <1>5, <2>1
<1>7. ASSUME NEW i \in 1 .. k + 1
      PROVE  ram'[at + i - 1] = Code(prog)[i]
  <2>1. PICK a \in Int : a = at + i - 1
    OBVIOUS
  <2>2. a \in at .. at + l - 1 /\ at + l <= Size
    BY <1>1, <1>2, <1>3, <2>1 DEF Clear
  <2>3. (at .. at + l - 1) \cap (Pointers .. Pointers + 3) = {}
    BY <1>1, <1>3 DEF Clear
  <2>4. Pointers + 1 \in Pointers .. Pointers + 3 /\ Pointers + 3 \in Pointers .. Pointers + 3
    BY Layout
  <2>5. a # Pointers + 1 /\ a # Pointers + 3 /\ a \in 0 .. Size - 1
    BY <2>2, <2>3, <2>4, Layout
  <2>6. ram'[a] = CopyByte[a]
    BY <2>5
  <2>7. CASE i = k + 1
    <3>1. a = at + k
      BY <2>1, <2>7
    <3> QED
      BY <1>4, <1>5, <2>1, <2>6, <2>7, <3>1
  <2>8. CASE i # k + 1
    <3>1. i \in 1 .. k /\ a # at + k
      BY <2>1, <2>8
    <3>2. ram[at + i - 1] = Code(prog)[i]
      BY <1>2, <1>3, <3>1 DEF Arrived, Progress
    <3> QED
      BY <1>4, <1>5, <2>1, <2>5, <2>6, <3>1, <3>2
  <2> QED
    BY <2>7, <2>8
<1>8. Code(prog)' = Code(prog) /\ Copied' = k + 1 /\ file.at' = at
  BY <1>2, <1>3 DEF Code
<1> QED
  BY <1>6, <1>7, <1>8 DEF Arrived

LEMMA CopyPagesKeeps ==
  ASSUME BootInv, CopyPages
  PROVE  BootInv'
<1> USE DEF BootInv, CopyPages
<1>1. PICK l \in Nat : l = Len(Code(prog)) /\ Code(prog) \in Seq(Nat)
  BY CodeType DEF Taken
<1>2. PICK q \in Nat, r \in 0 .. Page - 1 : q = l \div Page /\ r = l % Page
  BY Layout, Divided
<1>3. x \in 1 .. q /\ y \in 0 .. Page - 1
  BY <1>1, <1>2 DEF Progress
<1>4. imgStage' \in {"pages", "rest"} /\ (imgStage' = "pages" <=> x' # 0)
  OBVIOUS
<1>5. PICK m : m = ram /\ DOMAIN m = 0 .. Size - 1
  BY DEF Taken
<1>6. DOMAIN CopyByte = 0 .. Size - 1
  BY <1>5, CopyByteDomain
<1>7. DOMAIN ram' = 0 .. Size - 1
  BY <1>6 DEF NextPage
<1>8. Taken' /\ Loaded' /\ (Clear' <=> Clear) /\ Code(prog)' = Code(prog)
  BY <1>4, <1>7, BootKeeps
<1>9. PICK n \in Nat, k \in Nat : n = q - x /\ k = Copied /\ k = n * Page + y /\ k < l
  BY <1>1, <1>2, <1>3, Distance DEF Copied
<1>10. \/ y + 1 < Page /\ y' = y + 1 /\ y' # 0 /\ x' = x
       \/ y + 1 = Page /\ y' = 0 /\ x' = x - 1
  <2>1. CASE y + 1 < Page
    <3>1. (Page * 0 + (y + 1)) % Page = y + 1
      BY <1>3, <2>1, Layout, Unique, y + 1 \in 0 .. Page - 1
    <3>2. y' = y + 1
      BY <1>3, <3>1, Layout
    <3> QED
      BY <1>3, <2>1, <3>2
  <2>2. CASE y + 1 = Page
    <3>1. (Page * 1 + 0) % Page = 0
      BY Layout, Unique, 0 \in 0 .. Page - 1
    <3>2. y' = 0
      BY <1>3, <2>2, <3>1, Layout
    <3> QED
      BY <2>2, <3>2
  <2> QED
    BY <1>3, <2>1, <2>2, Layout
<1>11. x' \in 0 .. q /\ y' \in 0 .. Page - 1 /\ (y' # 0 => x' >= 1)
  BY <1>3, <1>10, Layout
<1>12. Copied' = k + 1
  <2>1. Copied' = (q - x') * Page + y'
    BY <1>1, <1>2, <1>8 DEF Copied
  <2>2. CASE y + 1 < Page /\ y' = y + 1 /\ x' = x
    <3>1. PICK t \in Nat : t = n * Page
      BY Layout, Times
    <3> QED
      BY <1>3, <1>9, <2>1, <2>2, <3>1
  <2>3. CASE y + 1 = Page /\ y' = 0 /\ x' = x - 1
    <3>1. q - x' = n + 1
      BY <1>3, <1>9, <2>3
    <3>2. (n + 1) * Page = Page * n + Page * 1 /\ n * Page = Page * n
      BY Layout, Times
    <3>3. PICK t \in Nat : t = Page * n
      BY Layout, Times
    <3>4. Copied' = t + Page
      BY <2>1, <2>3, <3>1, <3>2, <3>3, Layout
    <3> QED
      BY <1>3, <1>9, <2>3, <3>2, <3>3, <3>4, Layout
  <2> QED
    BY <1>10, <2>2, <2>3
<1>13. ASSUME Clear
       PROVE  Pointing(source, RomAt + BootLen)' /\ Pointing(dest, file.at)' /\ Arrived'
  <2>1. \A a \in 0 .. Size - 1 : a # Pointers + 1 /\ a # Pointers + 3 => ram'[a] = CopyByte[a]
    BY <1>6, Layout DEF NextPage, source, dest
  <2>2. (\A a \in Pointers .. Pointers + 3 : CopyByte[a] = ram[a]) /\ Arrived'
    BY <1>1, <1>9, <1>12, <1>13, <2>1, ArrivesOne
  <2>3. /\ Pointers \in 0 .. Size - 1 /\ Pointers + 1 \in 0 .. Size - 1
        /\ Pointers + 2 \in 0 .. Size - 1 /\ Pointers + 3 \in 0 .. Size - 1
        /\ Pointers + 2 + 1 = Pointers + 3
        /\ Pointers + 1 # Pointers + 3 /\ Pointers # Pointers + 1 /\ Pointers # Pointers + 3
        /\ Pointers + 2 # Pointers + 1 /\ Pointers + 2 # Pointers + 3
    BY Layout
  <2>4. /\ CopyByte[Pointers] = ram[Pointers] /\ CopyByte[Pointers + 1] = ram[Pointers + 1]
        /\ CopyByte[Pointers + 2] = ram[Pointers + 2] /\ CopyByte[Pointers + 3] = ram[Pointers + 3]
    BY <2>2, Layout
  <2>5. PICK s \in Nat, at \in Nat : s = RomAt + BootLen /\ at = file.at
    <3>1. RomAt + BootLen \in Nat
      BY Layout
    <3>2. file.at \in Nat
      BY DEF Taken
    <3> QED
      BY <3>1, <3>2
  <2>6. PICK P \in Nat : P = Size \div Page /\ P > 0
    BY Layout
  <2>7. /\ ram[Pointers] = s % Page /\ ram[Pointers + 1] = (s \div Page + n) % P
        /\ ram[Pointers + 2] = at % Page /\ ram[Pointers + 3] = (at \div Page + n) % P
    BY <1>1, <1>2, <1>9, <1>13, <2>3, <2>5, <2>6 DEF Progress, Pointing, source, dest
  <2>8. ram'[Pointers] = s % Page /\ ram'[Pointers + 2] = at % Page
    BY <2>1, <2>3, <2>4, <2>7
  <2>9. /\ ram'[Pointers + 1] = (s \div Page + (q - x')) % P
        /\ ram'[Pointers + 3] = (at \div Page + (q - x')) % P
    <3>1. CASE y' # 0 /\ x' = x
      <4>1. ram' = CopyByte
        BY <3>1
      <4> QED
        BY <1>9, <2>4, <2>7, <3>1, <4>1
    <3>2. CASE y' = 0 /\ x' = x - 1
      <4>1. q - x' = n + 1
        BY <1>3, <1>9, <3>2
      <4>2. PICK a, b \in Nat : a = s \div Page /\ b = at \div Page
        BY <2>5, Layout, Divided
      <4>3. ram' = NextPage(NextPage(CopyByte, source), dest)
        BY <3>2
      <4>4. /\ ram'[Pointers + 1] = (CopyByte[Pointers + 1] + 1) % P
            /\ ram'[Pointers + 3] = (CopyByte[Pointers + 3] + 1) % P
        BY <1>6, <2>3, <2>6, <4>3 DEF NextPage, source, dest
      <4>5. /\ (((a + n) % P) + 1) % P = (a + n + 1) % P
            /\ (((b + n) % P) + 1) % P = (b + n + 1) % P
        BY <2>6, PointsFurther, a + n \in Nat, b + n \in Nat
      <4>6. a + n + 1 = a + (n + 1) /\ b + n + 1 = b + (n + 1)
        OBVIOUS
      <4> QED
        BY <2>4, <2>7, <4>1, <4>2, <4>4, <4>5, <4>6
    <3> QED
      BY <1>10, <3>1, <3>2
  <2>10. Len(Code(prog))' = l
    BY <1>1, <1>8
  <2>11. Pointing(source, RomAt + BootLen)'
    BY <1>2, <2>5, <2>6, <2>8, <2>9, <2>10 DEF Pointing, source
  <2>12. Pointing(dest, file.at)'
    BY <1>2, <2>3, <2>5, <2>6, <2>8, <2>9, <2>10 DEF Pointing, dest
  <2> QED
    BY <2>2, <2>11, <2>12
<1>14. imgStage' = "rest" => x' = 0 /\ y' = 0
  BY <1>4, <1>11
<1>15. Progress'
  BY <1>1, <1>2, <1>4, <1>8, <1>11, <1>13, <1>14, Layout DEF Progress
<1> QED
  BY <1>8, <1>15


LEMMA CopyRestKeeps ==
  ASSUME BootInv, CopyRest
  PROVE  BootInv'
<1> USE DEF BootInv, CopyRest
<1>1. PICK l \in Nat : l = Len(Code(prog)) /\ Code(prog) \in Seq(Nat)
  BY CodeType DEF Taken
<1>2. PICK q \in Nat, r \in 0 .. Page - 1 : q = l \div Page /\ r = l % Page
  BY Layout, Divided
<1>3. x = 0 /\ y \in 0 .. Page - 1 /\ y <= r
  BY <1>1, <1>2 DEF Progress
<1>4. imgStage' \in {"rest", "running"}
  OBVIOUS
<1>5. PICK m : m = ram /\ DOMAIN m = 0 .. Size - 1
  BY DEF Taken
<1>6. DOMAIN CopyByte = 0 .. Size - 1
  BY <1>5, CopyByteDomain
<1>7. DOMAIN ram' = 0 .. Size - 1
  BY <1>5, <1>6
<1>8. Taken' /\ Loaded' /\ (Clear' <=> Clear) /\ Code(prog)' = Code(prog)
  BY <1>4, <1>7, BootKeeps
<1>9. PICK k \in Nat : k = Copied /\ k = (q - x) * Page + y /\ (k < l <=> y < r) /\ (k = l <=> y = r)
  BY <1>1, <1>2, <1>3, Distance DEF Copied
<1>10. CASE y = r
  <2>1. imgStage' = "running" /\ ram' = ram
    BY <1>1, <1>2, <1>10
  <2>2. ASSUME Clear
        PROVE  \A i \in DOMAIN Code(prog) : ram[file.at + i - 1] = Code(prog)[i]
    <3>1. Arrived
      BY <2>2 DEF Progress
    <3>2. DOMAIN Code(prog) = 1 .. l
      BY <1>1
    <3> QED
      BY <1>9, <1>10, <3>1, <3>2 DEF Arrived
  <2>3. Progress'
    BY <1>8, <2>1, <2>2 DEF Progress
  <2> QED
    BY <1>8, <2>3
<1>11. CASE y # r
  <2>1. imgStage' = "rest" /\ ram' = CopyByte /\ y' = (y + 1) % Page /\ x' = 0
    BY <1>1, <1>2, <1>3, <1>11
  <2>2. y' = y + 1 /\ y' \in 0 .. Page - 1 /\ y' <= r
    <3>1. y + 1 \in 0 .. Page - 1 /\ y + 1 <= r
      BY <1>2, <1>3, <1>11, Layout
    <3>2. (Page * 0 + (y + 1)) % Page = y + 1
      BY <3>1, Layout, Unique
    <3> QED
      BY <1>3, <2>1, <3>1, <3>2, Layout
  <2>3. Copied' = k + 1
    <3>1. Copied' = (q - x) * Page + y'
      BY <1>1, <1>2, <1>3, <1>8, <2>1 DEF Copied
    <3>2. PICK t \in Nat : t = (q - x) * Page
      BY <1>3, Layout, Times, q - x \in Nat
    <3> QED
      BY <1>3, <1>9, <2>2, <3>1, <3>2
  <2>4. ASSUME Clear
        PROVE  Pointing(source, RomAt + BootLen)' /\ Pointing(dest, file.at)' /\ Arrived'
    <3>1. k < l
      BY <1>3, <1>9, <1>11
    <3>2. (\A a \in Pointers .. Pointers + 3 : CopyByte[a] = ram[a]) /\ Arrived'
      BY <1>1, <1>9, <2>1, <2>3, <2>4, <3>1, ArrivesOne
    <3>3. /\ Pointers \in Pointers .. Pointers + 3 /\ Pointers + 1 \in Pointers .. Pointers + 3
          /\ Pointers + 2 \in Pointers .. Pointers + 3 /\ Pointers + 2 + 1 \in Pointers .. Pointers + 3
      BY Layout
    <3>4. /\ ram'[source] = ram[source] /\ ram'[source + 1] = ram[source + 1]
          /\ ram'[dest] = ram[dest] /\ ram'[dest + 1] = ram[dest + 1]
      BY <2>1, <3>2, <3>3 DEF source, dest
    <3>5. Pointing(source, RomAt + BootLen) /\ Pointing(dest, file.at)
      BY <2>4 DEF Progress
    <3>6. x' = x /\ Len(Code(prog))' = Len(Code(prog))
      BY <1>8
    <3>7. Pointing(source, RomAt + BootLen)'
      BY <3>4, <3>5, <3>6 DEF Pointing, source
    <3>8. Pointing(dest, file.at)'
      BY <3>4, <3>5, <3>6 DEF Pointing, dest
    <3> QED
      BY <3>2, <3>7, <3>8
  <2>5. x' \in 0 .. q
    BY <2>1
  <2>6. Progress'
    BY <1>1, <1>2, <1>8, <2>1, <2>2, <2>4, <2>5 DEF Progress
  <2> QED
    BY <1>8, <2>6
<1> QED
  BY <1>10, <1>11

-----------------------------------------------------------------------------
(* Programs and cartridges are put in.                                     *)

LEMMA OpenPRGKeeps ==
  ASSUME WellNamed, BootInv, NEW f \in File, OpenPRG(f)
  PROVE  BootInv'
<1> USE DEF BootInv, OpenPRG
<1>1. f.prg \in Seq(Nat)
  BY FilesAssumption
<1>2. prog' = NewProgramFromPRG(f.prg) /\ NewProgramFromPRG(f.prg) \in Seq(Nat)
  BY <1>1 DEF NewProgramFromPRG
<1>3. LoadAddress(prog') \in Nat /\ Code(prog') \in Seq(Nat)
  BY <1>2, CodeType, LoadAddressType
<1>4. LoadAddress(prog)' = LoadAddress(prog') /\ Code(prog)' = Code(prog') /\ Entry(prog)' = Entry(prog')
  OBVIOUS
<1>5. f.entry = Entry(prog')
  BY <1>2 DEF WellNamed
<1>6. Taken'
  BY <1>2, <1>3, <1>4, <1>5 DEF Taken
<1>7. Loaded' /\ Progress'
  BY DEF Loaded, Progress
<1> QED
  BY <1>6, <1>7

LEMMA OpenT64Keeps ==
  ASSUME WellNamed, BootInv, NEW a \in Archive, NEW i \in 1 .. a.max, OpenT64(a, i)
  PROVE  BootInv'
<1> USE DEF BootInv
<1>1. CASE i \in DOMAIN ParseT64(a)
  <2>1. PICK e \in [start : Nat, data : Seq(Nat)] : e = ParseT64(a)[i]
    <3>1. \A T : \A s \in Seq(T) : \A j \in DOMAIN s : s[j] \in T
      OBVIOUS
    <3>2. ParseT64(a) \in Seq([start : Nat, data : Seq(Nat)])
      BY FilesAssumption
    <3>3. ParseT64(a)[i] \in [start : Nat, data : Seq(Nat)]
      BY <1>1, <3>1, <3>2
    <3> QED
      BY <3>3
  <2>2. a.kept[i] = e.data /\ Entry(NewProgram(e.data, e.start)) = e.start
    BY <1>1, <2>1 DEF WellNamed
  <2>3. PICK p : /\ p = NewProgram(e.data, e.start) /\ p \in Seq(Nat)
                 /\ Code(p) = e.data /\ LoadAddress(p) = e.start
    BY <2>1, Programmed
  <2>4. /\ prog' = p /\ file' = [at |-> e.start, bytes |-> e.data, entry |-> e.start]
        /\ imgStage' = "program" /\ UNCHANGED <<crt, ram, jumpTo, x, y>>
    BY <1>1, <2>1, <2>2, <2>3 DEF OpenT64
  <2>5. LoadAddress(prog)' = e.start /\ Code(prog)' = e.data /\ Entry(prog)' = e.start
    BY <2>2, <2>3, <2>4
  <2>6. Taken'
    BY <2>1, <2>3, <2>4, <2>5 DEF Taken
  <2>7. Loaded' /\ Progress'
    BY <2>4 DEF Loaded, Progress
  <2> QED
    BY <2>6, <2>7
<1>2. CASE i \notin DOMAIN ParseT64(a)
  <2>1. imgStage' = "refused" /\ UNCHANGED <<prog, file, crt, ram, jumpTo, x, y>>
    BY <1>2 DEF OpenT64
  <2> QED
    BY <2>1 DEF Taken, Loaded, Progress
<1> QED
  BY <1>1, <1>2

LEMMA NewRAMCartridgeKeeps ==
  ASSUME BootInv, NEW type \in Types, NEW explicit, NewRAMCartridge(type, explicit)
  PROVE  BootInv'
<1> USE DEF BootInv
<1> DEFINE rom == [i \in 1 .. BootLen |-> 0] \o Code(prog)
           entry == IF explicit # NoEntry THEN explicit ELSE Entry(prog)
           good == Code(prog) # <<>> /\ type # "Ultimax" /\ Fit(type, rom) /\ entry >= Page
<1>1. /\ imgStage = "program" /\ imgStage' \in {"boot", "refused"}
      /\ imgStage' = "boot" => good /\ crt' = [type |-> type, chips |-> Chips(type, rom)]
      /\ UNCHANGED <<prog, ram, x, y>>
      /\ file'.at = file.at /\ file'.bytes = file.bytes
      /\ jumpTo' = file'.entry /\ jumpTo' = entry
  <2>1. file.entry = Entry(prog)
    BY DEF NewRAMCartridge, Taken
  <2> QED
    BY <2>1 DEF NewRAMCartridge, Taken
<1>2. Code(prog)' = Code(prog) /\ LoadAddress(prog)' = LoadAddress(prog)
  BY <1>1 DEF Code, LoadAddress
<1>3. Taken'
  BY <1>1, <1>2 DEF Taken
<1>4. Progress'
  BY <1>1 DEF Progress
<1>5. Loaded'
  <2> SUFFICES ASSUME imgStage' = "boot" PROVE Loaded'
    BY <1>1 DEF Loaded
  <2>1. PICK n \in {Bank, 2 * Bank} : /\ Chips(type, rom) = <<[at |-> RomAt, data |-> Padded(rom, n)]>>
                                      /\ Len(rom) <= n
    <3>1. type # "Ultimax" /\ Fit(type, rom)
      BY <1>1
    <3> HIDE DEF rom, good
    <3>2. CASE type = "8K"
      <4>1. Len(rom) <= Bank
        BY <3>1, <3>2 DEF Fit
      <4>2. Chips(type, rom) = <<[at |-> RomAt, data |-> Padded(rom, Bank)]>>
        BY <3>2 DEF Chips
      <4> QED
        BY <4>1, <4>2
    <3>3. CASE type = "16K"
      <4>1. Len(rom) <= 2 * Bank
        BY <3>1, <3>3 DEF Fit
      <4>2. Chips(type, rom) = <<[at |-> RomAt, data |-> Padded(rom, 2 * Bank)]>>
        BY <3>3 DEF Chips
      <4> QED
        BY <4>1, <4>2
    <3> QED
      BY <3>1, <3>2, <3>3 DEF Types
  <2>2. Code(prog) \in Seq(Nat)
    BY CodeType DEF Taken
  <2>3. PICK c : c = [at |-> RomAt, data |-> Padded(rom, n)] /\ Bootable(c)
    BY <2>1, <2>2, RomIsBootable
  <2>4. crt'.chips = <<c>>
    <3>1. crt' = [type |-> type, chips |-> Chips(type, rom)]
      BY <1>1
    <3> HIDE DEF rom, good
    <3>2. crt'.chips = Chips(type, rom)
      BY <3>1
    <3> QED
      BY <2>1, <2>3, <3>2
  <2>5. Bootable(c)'
    BY <1>2, <2>3 DEF Bootable
  <2>6. jumpTo' >= Page /\ Code(prog) # <<>>
    BY <1>1
  <2> HIDE DEF rom, entry, good
  <2> QED
    BY <1>1, <1>2, <2>4, <2>5, <2>6 DEF Loaded
<1> QED
  BY <1>3, <1>4, <1>5

LEMMA NewRawCartridgeKeeps ==
  ASSUME BootInv, NEW type \in Types, NEW rom \in RomData, NewRawCartridge(type, rom)
  PROVE  BootInv'
<1> USE DEF BootInv
<1>1. rom \in Seq(Nat)
  BY FilesAssumption
<1>2. /\ imgStage' \in {"raw", "refused"}
      /\ imgStage' = "raw" => Fit(type, rom) /\ crt' = [type |-> type, chips |-> Chips(type, rom)]
      /\ file'.at = file.at /\ file'.bytes = rom
      /\ UNCHANGED <<prog, ram, jumpTo, x, y>>
  BY DEF NewRawCartridge, Taken
<1>3. Taken'
  BY <1>1, <1>2 DEF Taken
<1>4. Loaded' /\ Progress'
  BY <1>2 DEF Loaded, Progress
<1> QED
  BY <1>3, <1>4


-----------------------------------------------------------------------------
(* Boots.                                                                  *)

LEMMA BootInit == ImgInit => BootInv
<1> SUFFICES ASSUME ImgInit PROVE BootInv
  OBVIOUS
<1> USE DEF ImgInit
<1>1. Taken
  BY DEF Taken
<1>2. Loaded /\ Progress
  BY DEF Loaded, Progress
<1> QED
  BY <1>1, <1>2 DEF BootInv

LEMMA BootStep ==
  ASSUME WellNamed, BootInv, [ImgNext]_imgVars
  PROVE  BootInv'
<1>1. CASE \E f \in File : OpenPRG(f)
  BY <1>1, OpenPRGKeeps
<1>2. CASE \E a \in Archive : \E i \in 1 .. a.max : OpenT64(a, i)
  BY <1>2, OpenT64Keeps
<1>3. CASE \E type \in Types : \E explicit \in {NoEntry, Page - 1, Page} : NewRAMCartridge(type, explicit)
  BY <1>3, NewRAMCartridgeKeeps
<1>4. CASE \E type \in Types : \E rom \in RomData : NewRawCartridge(type, rom)
  BY <1>4, NewRawCartridgeKeeps
<1>5. CASE ColdStart
  BY <1>5, ColdStartKeeps
<1>6. CASE CopyPages
  BY <1>6, CopyPagesKeeps
<1>7. CASE CopyRest
  BY <1>7, CopyRestKeeps
<1>8. CASE UNCHANGED imgVars
  <2> USE <1>8 DEF imgVars
  <2>1. Code(prog)' = Code(prog) /\ LoadAddress(prog)' = LoadAddress(prog) /\ Entry(prog)' = Entry(prog)
    BY DEF Code, LoadAddress
  <2>2. (Clear' <=> Clear) /\ Copied' = Copied
    BY <2>1 DEF Clear, Copied
  <2>3. Taken'
    BY <2>1 DEF BootInv, Taken
  <2>4. Loaded'
    <3>1. ASSUME NEW c PROVE Bootable(c)' <=> Bootable(c)
      BY <2>1 DEF Bootable
    <3> QED
      BY <2>1, <3>1 DEF BootInv, Loaded
  <2>5. Progress'
    BY <2>1, <2>2 DEF BootInv, Progress, Pointing, Arrived
  <2> QED
    BY <2>3, <2>4, <2>5 DEF BootInv
<1> QED
  BY <1>1, <1>2, <1>3, <1>4, <1>5, <1>6, <1>7, <1>8 DEF ImgNext

\* Address a lies below a ROM.
Hidden(a) ==
  \/ a \in Basic \union Kernal
  \/ \E c \in ToSet(crt.chips) : a \in c.at .. c.at + Len(c.data) - 1

\* A program that has been copied lies where it belongs, and is read there.
LEMMA RunningBoots ==
  ASSUME BootInv, imgStage = "running", Clear
  PROVE  /\ \A i \in DOMAIN file.bytes :
              /\ ram[file.at + i - 1] = file.bytes[i]
              /\ ~Hidden(file.at + i - 1) => Peeked(file.at + i - 1) = file.bytes[i]
         /\ jumpTo = file.entry /\ jumpTo >= Page
<1>1. file.bytes = Code(prog) /\ jumpTo = file.entry /\ jumpTo >= Page
  BY DEF BootInv, Taken, Loaded
<1>2. PICK l \in Nat : l = Len(Code(prog)) /\ DOMAIN Code(prog) = 1 .. l
  BY CodeType DEF BootInv, Taken
<1>3. PICK c : crt.chips = <<c>>
  BY DEF BootInv, Loaded
<1>4. PICK at \in Nat : at = file.at
  BY DEF BootInv, Taken
<1>5. ASSUME NEW i \in DOMAIN Code(prog)
      PROVE  /\ ram[at + i - 1] = Code(prog)[i]
             /\ ~Hidden(at + i - 1) => Peeked(at + i - 1) = Code(prog)[i]
  <2>1. PICK a \in Int : a = at + i - 1 /\ a \in at .. at + l - 1
    BY <1>2, <1>5
  <2>2. ToSet(crt.chips) = {c}
    BY <1>3 DEF ToSet
  <2>3. (at .. at + l - 1) \cap Registers = {}
    BY <1>2, <1>4 DEF Clear
  <2>4. ~Hidden(a) => Peeked(a) = ram[a]
    BY <1>3, <2>1, <2>2, <2>3, PeekedAt DEF Hidden
  <2>5. ram[at + i - 1] = Code(prog)[i]
    BY <1>4, <1>5 DEF BootInv, Progress
  <2> QED
    BY <2>1, <2>4, <2>5
<1> QED
  BY <1>1, <1>4, <1>5

\* The address of byte i of a raw cartridge.
RawAt(i) ==
  IF crt.type # "Ultimax" THEN RomAt + i - 1
  ELSE IF Len(file.bytes) <= Bank THEN HighRom + i - 1
  ELSE IF i <= Bank THEN RomAt + i - 1 ELSE HighRom + i - 1 - Bank

LEMMA RawShown ==
  ASSUME BootInv, imgStage = "raw", NEW i \in DOMAIN file.bytes
  PROVE  Peeked(RawAt(i)) = file.bytes[i]
<1>1. PICK rom \in Seq(Nat), l \in Nat : rom = file.bytes /\ l = Len(rom)
  BY DEF BootInv, Taken
<1>2. i \in 1 .. l
  BY <1>1
<1>3. crt.type \in Types /\ Fit(crt.type, rom) /\ crt.chips = Chips(crt.type, rom)
  BY <1>1 DEF BootInv, Taken
<1>4. ASSUME NEW at \in Nat, NEW n \in Nat, l <= n, crt.chips = <<[at |-> at, data |-> Padded(rom, n)]>>,
             RawAt(i) = at + i - 1
      PROVE  Peeked(RawAt(i)) = file.bytes[i]
  <2> DEFINE d == Padded(rom, n)
  <2>1. Len(d) = n /\ d[i] = rom[i]
    <3>1. Len(rom) <= n /\ i \in 1 .. Len(rom)
      BY <1>1, <1>2, <1>4
    <3> QED
      BY <3>1, PaddedKeeps
  <2> DEFINE c == [at |-> at, data |-> d]
  <2>2. c.at = at /\ c.data = d /\ crt.chips = <<c>>
    BY <1>4
  <2> HIDE DEF c, d
  <2>3. PICK a \in Int : a = at + i - 1 /\ a \in c.at .. c.at + Len(c.data) - 1
    BY <1>2, <1>4, <2>1, <2>2
  <2>4. Peeked(a) = c.data[a - c.at + 1]
    BY <2>2, <2>3, PeekedAt
  <2>5. a - c.at + 1 = i
    BY <1>2, <2>2, <2>3
  <2> QED
    BY <1>1, <1>4, <2>1, <2>2, <2>3, <2>4, <2>5
<1>5. CASE crt.type = "8K"
  <2>1. l <= Bank
    BY <1>1, <1>3, <1>5 DEF Fit
  <2>2. crt.chips = <<[at |-> RomAt, data |-> Padded(rom, Bank)]>>
    BY <1>3, <1>5 DEF Chips
  <2>3. RawAt(i) = RomAt + i - 1
    BY <1>5 DEF RawAt
  <2> QED
    BY <1>4, <2>1, <2>2, <2>3, Layout
<1>6. CASE crt.type = "16K"
  <2>1. l <= 2 * Bank /\ 2 * Bank \in Nat
    BY <1>1, <1>3, <1>6, Layout DEF Fit
  <2>2. crt.chips = <<[at |-> RomAt, data |-> Padded(rom, 2 * Bank)]>>
    BY <1>3, <1>6 DEF Chips
  <2>3. RawAt(i) = RomAt + i - 1
    BY <1>6 DEF RawAt
  <2> QED
    BY <1>4, <2>1, <2>2, <2>3, Layout
<1>7. CASE crt.type = "Ultimax" /\ l <= Bank
  <2>1. crt.chips = <<[at |-> HighRom, data |-> Padded(rom, Bank)]>>
    BY <1>1, <1>3, <1>7 DEF Chips
  <2>2. RawAt(i) = HighRom + i - 1
    BY <1>1, <1>7 DEF RawAt
  <2> QED
    BY <1>4, <1>7, <2>1, <2>2, Layout
<1>8. CASE crt.type = "Ultimax" /\ ~(l <= Bank)
  <2>1. l <= 2 * Bank
    BY <1>1, <1>3, <1>8 DEF Fit
  <2> DEFINE low == SubSeq(rom, 1, Bank)
             high == SubSeq(rom, Bank + 1, Len(rom))
  <2>2. /\ Len(low) = Bank /\ \A j \in 1 .. Bank : low[j] = rom[j]
    <3>1. \A j \in 1 .. Bank : rom[j] \in Nat
      BY <1>1, <1>8, Layout
    <3>2. /\ Len(low) = IF 1 <= Bank THEN Bank - 1 + 1 ELSE 0
          /\ \A j \in 1 .. Bank - 1 + 1 : low[j] = rom[1 + j - 1]
      BY <3>1, Layout, SubSeqProperties
    <3> HIDE DEF low
    <3> QED
      BY <3>2, Layout
  <2>3. /\ high \in Seq(Nat) /\ Len(high) = l - Bank
        /\ \A j \in 1 .. l - Bank : high[j] = rom[Bank + j]
    <3>1. \A j \in Bank + 1 .. l : rom[j] \in Nat
      BY <1>1, Layout
    <3>2. /\ SubSeq(rom, Bank + 1, l) \in Seq(Nat)
          /\ Len(SubSeq(rom, Bank + 1, l)) = IF Bank + 1 <= l THEN l - (Bank + 1) + 1 ELSE 0
          /\ \A j \in 1 .. l - (Bank + 1) + 1 : SubSeq(rom, Bank + 1, l)[j] = rom[Bank + 1 + j - 1]
      BY <3>1, <1>1, Layout, SubSeqProperties
    <3>3. high = SubSeq(rom, Bank + 1, l)
      BY <1>1
    <3> HIDE DEF high
    <3> QED
      BY <3>2, <3>3, <1>8, Layout
  <2>4. crt.chips = <<[at |-> RomAt, data |-> low], [at |-> HighRom, data |-> Padded(high, Bank)]>>
    BY <1>1, <1>3, <1>8 DEF Chips
  <2> HIDE DEF low, high
  <2>5. PICK d : /\ d = Padded(high, Bank) /\ Len(d) = Bank
                 /\ \A j \in 1 .. l - Bank : d[j] = high[j]
    <3>1. Len(high) <= Bank /\ Bank \in Nat
      BY <2>1, <2>3, Layout
    <3>2. /\ Len(Padded(high, Bank)) = Bank
          /\ \A j \in 1 .. Len(high) : Padded(high, Bank)[j] = high[j]
      BY <2>3, <3>1, PaddedKeeps
    <3> QED
      BY <2>3, <3>2
  <2> DEFINE c == [at |-> RomAt, data |-> low]
             e == [at |-> HighRom, data |-> d]
  <2>6. /\ c.at = RomAt /\ c.data = low /\ e.at = HighRom /\ e.data = d
        /\ crt.chips = <<c, e>>
    BY <2>4, <2>5
  <2> HIDE DEF c, e
  <2>7. ToSet(crt.chips) = {c, e}
    BY <2>6 DEF ToSet
  <2>8. CASE i <= Bank
    <3>1. PICK a \in Int : a = RomAt + i - 1
      BY <1>2, Layout
    <3>2. a \in c.at .. c.at + Len(c.data) - 1 /\ a \notin e.at .. e.at + Len(e.data) - 1
      BY <1>2, <2>2, <2>5, <2>6, <2>8, <3>1, Layout
    <3>3. {f \in ToSet(crt.chips) : a \in f.at .. f.at + Len(f.data) - 1} = {c}
      BY <2>7, <3>2
    <3>4. Peeked(a) = c.data[a - c.at + 1]
      BY <3>3 DEF Peeked
    <3>5. a - c.at + 1 = i
      BY <2>6, <3>1, <1>2, Layout
    <3>6. RawAt(i) = a
      BY <1>1, <1>8, <2>8, <3>1 DEF RawAt
    <3> QED
      BY <1>1, <1>2, <2>2, <2>6, <2>8, <3>4, <3>5, <3>6
  <2>9. CASE ~(i <= Bank)
    <3>1. PICK a \in Int : a = HighRom + i - 1 - Bank
      BY <1>2, Layout
    <3>2. a \in e.at .. e.at + Len(e.data) - 1 /\ a \notin c.at .. c.at + Len(c.data) - 1
      BY <1>2, <2>1, <2>2, <2>5, <2>6, <2>9, <3>1, Layout
    <3>3. {f \in ToSet(crt.chips) : a \in f.at .. f.at + Len(f.data) - 1} = {e}
      BY <2>7, <3>2
    <3>4. Peeked(a) = e.data[a - e.at + 1]
      BY <3>3 DEF Peeked
    <3>5. PICK j \in 1 .. l - Bank : j = i - Bank /\ j = a - e.at + 1
      <4>1. a - e.at + 1 = i - Bank
        BY <2>6, <3>1, <1>2, Layout
      <4>2. i - Bank \in 1 .. l - Bank
        BY <1>2, <2>9, Layout
      <4> QED
        BY <4>1, <4>2
    <3>6. RawAt(i) = a
      BY <1>1, <1>8, <2>9, <3>1 DEF RawAt
    <3>7. d[j] = rom[i]
      <4>1. d[j] = high[j] /\ high[j] = rom[Bank + j]
        BY <2>3, <2>5, <3>5
      <4>2. Bank + j = i
        BY <1>2, <3>5, Layout
      <4> QED
        BY <4>1, <4>2
    <3> QED
      BY <1>1, <2>6, <3>4, <3>5, <3>6, <3>7
  <2> QED
    BY <1>2, <2>8, <2>9, Layout
<1> QED
  BY <1>3, <1>5, <1>6, <1>7, <1>8 DEF Types

LEMMA BootInvBoots == BootInv => Boots
<1> SUFFICES ASSUME BootInv PROVE Boots
  OBVIOUS
<1>1. imgStage = "running" /\ Clear
        => /\ \A i \in DOMAIN file.bytes :
                /\ ram[file.at + i - 1] = file.bytes[i]
                /\ ~Hidden(file.at + i - 1) => Peeked(file.at + i - 1) = file.bytes[i]
           /\ jumpTo = file.entry /\ jumpTo >= Page
  BY RunningBoots
<1>2. imgStage = "raw" => \A i \in DOMAIN file.bytes : Peeked(RawAt(i)) = file.bytes[i]
  BY RawShown
<1> QED
  BY <1>1, <1>2 DEF Boots, RawAt, Hidden

\* A program of any length on its way through a cartridge, unless it reaches over the
\* pointers of the bootstrap, the registers or the end of memory, lies in the memory of
\* the C64 as it lay in its file when the bootstrap jumps to where it starts, is seen
\* by the CPU where no ROM lies over it, and starts outside the zero page; and of a
\* raw cartridge the C64 sees every byte where its type promises it: the two loops
\* of NewRAMCartridge's bootstrap (c64/crt.go:339-454), the chips of NewRawCartridge
\* (c64/crt.go:164-254) and the readers of PRG and T64 files.
THEOREM ProgramsBoot ==
  ASSUME WellNamed
  PROVE  ImgSpec => []Boots
<1>1. BootInv /\ [ImgNext]_imgVars => BootInv'
  BY BootStep
<1> QED
  BY <1>1, BootInit, BootInvBoots, PTL DEF ImgSpec

==============================================================================
