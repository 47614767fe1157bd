---------------------------- MODULE KeyboardProofs ----------------------------
(***************************************************************************)
(* Proofs about Keyboard for every set of calls, every text, every size of *)
(* the buffer, and a C64 and its user that do what they like in between.   *)
(***************************************************************************)
EXTENDS Keyboard, FiniteSetTheorems, SequenceTheorems, TLAPS

-----------------------------------------------------------------------------
(* Types.                                                                  *)

Place == {"poll", "fill", "count", "save", "probe", "driveDDR", "drivePorts", "hold",
          "restore", "ok", "error"}
Over == {"ok", "error"}

\* The chunk that goes next, and what is left when it has gone.
LEMMA ChunkType ==
  ASSUME TypeOK, NEW c \in Call
  PROVE  /\ Chunk(c) \in Seq(Char)
         /\ Len(todo[c]) \in Nat
         /\ Len(Chunk(c)) \in 0 .. BufMax
         /\ Len(Chunk(c)) <= Len(todo[c])
         /\ SubSeq(todo[c], Len(Chunk(c)) + 1, Len(todo[c])) \in Seq(Char)
         /\ Len(SubSeq(todo[c], Len(Chunk(c)) + 1, Len(todo[c]))) = Len(todo[c]) - Len(Chunk(c))
<1> DEFINE n == Min2(BufMax, Len(todo[c]))
<1>1. todo[c] \in Seq(Char)
  BY DEF TypeOK
<1>2. Len(todo[c]) \in Nat
  BY <1>1
<1>3. n \in 0 .. BufMax /\ n \in 0 .. Len(todo[c])
  BY <1>2, KeyboardAssumption DEF Min2
<1>4. Chunk(c) = SubSeq(todo[c], 1, n)
  BY DEF Chunk
<1> HIDE DEF n
<1>5. SubSeq(todo[c], 1, n) \in Seq(Char) /\ Len(SubSeq(todo[c], 1, n)) = n
  BY <1>1, <1>2, <1>3, SubSeqProperties, ElementOfSeq
<1>6. Len(Chunk(c)) = n /\ Chunk(c) \in Seq(Char)
  BY <1>4, <1>5
<1>7. /\ SubSeq(todo[c], n + 1, Len(todo[c])) \in Seq(Char)
      /\ Len(SubSeq(todo[c], n + 1, Len(todo[c]))) = Len(todo[c]) - n
  BY <1>1, <1>2, <1>3, SubSeqProperties, ElementOfSeq
<1> QED
  BY <1>2, <1>3, <1>6, <1>7, KeyboardAssumption

\* A call moves on.
LEMMA GotoType ==
  ASSUME pc \in [Call -> Place], NEW c \in Call, NEW l \in Place, Goto(c, l)
  PROVE  /\ pc' \in [Call -> Place]
         /\ pc'[c] = l
         /\ \A d \in Call \ {c} : pc'[d] = pc[d]
BY DEF Goto

\* The step of feed of a call.
LEMMA FeedType ==
  ASSUME TypeOK, NEW c \in Call, Feed(c), round' = round
  PROVE  TypeOK'
<1>1. pc \in [Call -> Place] /\ FeedError(c) \in Place
  BY DEF TypeOK, Place, FeedError
<1>2. pc' \in [Call -> Place]
  <2>1. \E l \in Place : Goto(c, l)
    <3>1. CASE PollEmpty(c)
      BY <3>1 DEF PollEmpty, Place
    <3>2. CASE PollFails(c)
      BY <1>1, <3>2 DEF PollFails
    <3>3. CASE FeedEnds(c)
      BY <3>3 DEF FeedEnds, Place
    <3>4. CASE Fill(c)
      BY <1>1, <3>4 DEF Fill, Place
    <3>5. CASE Count(c)
      BY <1>1, <3>5 DEF Count, Place
    <3> QED
      BY <3>1, <3>2, <3>3, <3>4, <3>5 DEF Feed
  <2> QED
    BY <1>1, <2>1, GotoType
<1>3. cells' \in [1 .. BufMax -> Char \cup {None}]
  <2>1. CASE Fill(c)
    <3>1. \A i \in 1 .. BufMax : i <= Len(Chunk(c)) => Chunk(c)[i] \in Char
      BY ChunkType, ElementOfSeq
    <3>2. cells \in [1 .. BufMax -> Char \cup {None}]
      BY DEF TypeOK
    <3> QED
      BY <2>1, <3>1, <3>2 DEF Fill
  <2>2. CASE cells' = cells
    BY <2>2 DEF TypeOK
  <2> QED
    BY <2>1, <2>2 DEF Feed, PollEmpty, PollFails, FeedEnds, Count, c64Vars
<1>4. ndx' \in 0 .. BufMax /\ todo' \in [Call -> Seq(Char)]
  <2>1. CASE Count(c)
    <3>1. todo \in [Call -> Seq(Char)] /\ ndx \in 0 .. BufMax
      BY DEF TypeOK
    <3>2. ndx' = ndx \/ ndx' = Len(Chunk(c))
      BY <2>1 DEF Count
    <3>3. \/ todo' = todo
          \/ todo' = [todo EXCEPT ![c] = SubSeq(todo[c], Len(Chunk(c)) + 1, Len(todo[c]))]
      BY <2>1 DEF Count
    <3>4. ndx' \in 0 .. BufMax
      BY <3>1, <3>2, ChunkType
    <3>5. todo' \in [Call -> Seq(Char)]
      BY <3>1, <3>3, ChunkType
    <3> QED
      BY <3>4, <3>5
  <2>2. CASE ndx' = ndx /\ todo' = todo
    BY <2>2 DEF TypeOK
  <2> QED
    BY <2>1, <2>2 DEF Feed, PollEmpty, PollFails, FeedEnds, Fill, c64Vars
<1>5. UNCHANGED <<consumed, keys, scanning, ports, ddr, saved, canceled>>
  BY DEF Feed, PollEmpty, PollFails, FeedEnds, Fill, Count, c64Vars, ciaVars
<1> QED
  BY <1>2, <1>3, <1>4, <1>5 DEF TypeOK, Place, CiaNow

\* The steps of Press that are not feed's.
Drive(p) == Save(p) \/ Probe(p) \/ DriveDDR(p) \/ DrivePorts(p) \/ Hold(p) \/ Restore(p)

LEMMA CiaType == CiaNow \in Cia <=> ports \in Presser \cup {"idle"} /\ ddr \in {"idle", "driven"}
BY DEF CiaNow, Cia

LEMMA DriveType ==
  ASSUME TypeOK, NEW p \in Presser, Drive(p), round' = round
  PROVE  TypeOK'
<1>0. p \in Call
  BY DEF Call
<1>1. pc \in [Call -> Place]
  BY DEF TypeOK, Place
<1>2. pc' \in [Call -> Place]
  <2>1. \E l \in Place : Goto(p, l)
    <3>1. CASE Save(p)
      BY <3>1 DEF Save, Place
    <3>2. CASE Probe(p)
      BY <3>2 DEF Probe, Place
    <3>3. CASE DriveDDR(p)
      BY <3>3 DEF DriveDDR, Place
    <3>4. CASE DrivePorts(p)
      BY <3>4 DEF DrivePorts, Place
    <3>5. CASE Hold(p)
      BY <3>5 DEF Hold, Place
    <3>6. CASE Restore(p)
      BY <3>6 DEF Restore, Place
    <3> QED
      BY <3>1, <3>2, <3>3, <3>4, <3>5, <3>6 DEF Drive
  <2> QED
    BY <1>0, <1>1, <2>1, GotoType
<1>3. saved \in [Presser -> Cia] /\ saved[p].ports \in Presser \cup {"idle"}
        /\ saved[p].ddr \in {"idle", "driven"}
  BY DEF TypeOK, Cia
<1>4. ports \in Presser \cup {"idle"} /\ ddr \in {"idle", "driven"}
  BY CiaType DEF TypeOK
<1>5. ports' \in Presser \cup {"idle"}
  BY <1>3, <1>4 DEF Drive, Save, Probe, DriveDDR, DrivePorts, Hold, Restore, ciaVars
<1>6. ddr' \in {"idle", "driven"}
  BY <1>3, <1>4 DEF Drive, Save, Probe, DriveDDR, DrivePorts, Hold, Restore, ciaVars
<1>7. saved' \in [Presser -> Cia]
  <2>1. saved' = saved \/ saved' = [saved EXCEPT ![p] = CiaNow]
    BY DEF Drive, Save, Probe, DriveDDR, DrivePorts, Hold, Restore
  <2>2. CiaNow \in Cia
    BY DEF TypeOK
  <2> QED
    BY <1>3, <2>1, <2>2
<1>8. UNCHANGED <<cells, ndx, consumed, keys, scanning, todo, canceled>>
  BY DEF Drive, Save, Probe, DriveDDR, DrivePorts, Hold, Restore, c64Vars
<1>9. CiaNow' \in Cia
  BY <1>5, <1>6 DEF CiaNow, Cia
<1> QED
  BY <1>2, <1>7, <1>8, <1>9 DEF TypeOK, Place

\* The steps of the C64 and its user.
LEMMA C64Type ==
  ASSUME TypeOK, GetIn \/ UserPresses \/ SwitchIRQ, round' = round
  PROVE  TypeOK'
<1>1. cells \in [1 .. BufMax -> Char \cup {None}] /\ ndx \in 0 .. BufMax /\ keys \in 0 .. MaxKeys
  BY DEF TypeOK
<1>2. BufMax \in Nat \ {0} /\ MaxKeys \in Nat /\ UserKey \in Char
  <2>1. UserKey \in Char
    BY DEF Char
  <2> QED
    BY <2>1, KeyboardAssumption
<1>3. cells' \in [1 .. BufMax -> Char \cup {None}]
  <2>1. CASE GetIn
    BY <1>1, <1>2, <2>1 DEF GetIn
  <2>2. CASE UserPresses
    BY <1>1, <1>2, <2>2 DEF UserPresses
  <2>3. CASE SwitchIRQ
    BY <1>1, <2>3 DEF SwitchIRQ
  <2> QED
    BY <2>1, <2>2, <2>3
<1>4. ndx' \in 0 .. BufMax /\ keys' \in 0 .. MaxKeys
  BY <1>1, <1>2 DEF GetIn, UserPresses, SwitchIRQ
<1>5. consumed' \in Seq(Char \cup {None})
  <2>1. cells[1] \in Char \cup {None}
    BY <1>1, <1>2
  <2>2. consumed' = consumed \/ consumed' = Append(consumed, cells[1])
    BY DEF GetIn, UserPresses, SwitchIRQ
  <2>3. consumed \in Seq(Char \cup {None})
    BY DEF TypeOK
  <2> QED
    BY <2>1, <2>2, <2>3, AppendProperties
<1>6. scanning' \in BOOLEAN
  BY DEF GetIn, UserPresses, SwitchIRQ, TypeOK
<1>7. UNCHANGED <<ports, ddr, pc, todo, saved, canceled>>
  BY DEF GetIn, UserPresses, SwitchIRQ, ciaVars
<1> QED
  BY <1>3, <1>4, <1>5, <1>6, <1>7 DEF TypeOK, CiaNow, Cia

LEMMA CancelType ==
  ASSUME TypeOK, NEW c \in Call, Cancel(c), round' = round
  PROVE  TypeOK'
<1>1. canceled' \in [Call -> BOOLEAN]
  BY DEF Cancel, TypeOK
<1> QED
  BY <1>1 DEF Cancel, TypeOK, c64Vars, ciaVars, CiaNow

\* A step is a step of feed, of the rest of Press, of the C64, or a cancellation.
LEMMA StepCases ==
  ASSUME Next
  PROVE  /\ round' = round
         /\ \/ \E c \in Call : Feed(c)
            \/ \E p \in Presser : Drive(p)
            \/ GetIn \/ UserPresses \/ SwitchIRQ
            \/ \E c \in Call : Cancel(c)
BY DEF Next, CallStep, Press, Drive, Call

LEMMA InitType == Init => TypeOK
<1> SUFFICES ASSUME Init PROVE TypeOK
  OBVIOUS
<1>1. BufMax \in Nat \ {0} /\ MaxKeys \in Nat /\ Text \in [Call -> Seq(Char)]
  BY KeyboardAssumption
<1>2. pc \in [Call -> Place]
  BY DEF Init, Place
<1>3. saved \in [Presser -> Cia] /\ CiaNow \in Cia
  BY DEF Init, Cia, IdleCia, CiaNow
<1>4. consumed \in Seq(Char \cup {None})
  BY EmptySeq DEF Init
<1> QED
  BY <1>1, <1>2, <1>3, <1>4 DEF Init, TypeOK, Place

LEMMA TypeStep == TypeOK /\ [Next]_vars => TypeOK'
<1> SUFFICES ASSUME TypeOK, [Next]_vars PROVE TypeOK'
  OBVIOUS
<1>1. CASE UNCHANGED vars
  BY <1>1 DEF TypeOK, vars, CiaNow
<1>2. CASE Next
  BY <1>2, StepCases, FeedType, DriveType, C64Type, CancelType
<1> QED
  BY <1>1, <1>2

\* The memory of the C64 that Type and Press write, the registers of CIA #1 they read
\* and put back, and what every call has still to feed keep their types: above all, no
\* call, key of the user or read of the KERNAL brings $C6 past the size of the buffer
\* (KernalKeyBufMax), for every text and every size.
THEOREM TypeCorrect == Spec => []TypeOK
<1>1. Init => TypeOK
  BY InitType
<1>2. TypeOK /\ [Next]_vars => TypeOK'
  BY TypeStep
<1> QED
  BY <1>1, <1>2, PTL DEF Spec

-----------------------------------------------------------------------------
(* The registers of CIA #1.                                                *)

\* A Press that is the only one: what it will put back is what it found, and as long
\* as it has not driven them, and again when it has returned nil, the registers are
\* at rest.
Undone ==
  \A p \in Presser : Presser = {p} =>
    /\ saved[p] = IdleCia
    /\ pc[p] \in {"save", "probe", "poll", "fill", "count", "ok"} => CiaNow = IdleCia

\* Feeding leaves the registers alone, and a Press that feeds goes on feeding or ends.
LEMMA FeedUndone ==
  ASSUME TypeOK, Undone, NEW c \in Call, Feed(c)
  PROVE  Undone'
<1> SUFFICES ASSUME NEW p \in Presser, Presser = {p}
             PROVE  /\ saved'[p] = IdleCia
                    /\ pc'[p] \in {"save", "probe", "poll", "fill", "count", "ok"}
                         => CiaNow' = IdleCia
  BY DEF Undone, IdleCia
<1>1. UNCHANGED <<saved, ports, ddr>>
  BY DEF Feed, PollEmpty, PollFails, FeedEnds, Fill, Count, ciaVars
<1>2. CiaNow' = CiaNow
  BY <1>1 DEF CiaNow
<1>3. CASE c = p
  <2>1. pc[p] \in {"poll", "fill", "count"}
    BY <1>3 DEF Feed, PollEmpty, PollFails, FeedEnds, Fill, Count
  <2> QED
    BY <1>1, <1>2, <2>1 DEF Undone
<1>4. CASE c # p
  <2>1. p \in Call /\ pc \in [Call -> Place]
    BY DEF Call, TypeOK, Place
  <2>2. \E l : pc' = [pc EXCEPT ![c] = l]
    BY DEF Feed, PollEmpty, PollFails, FeedEnds, Fill, Count, Goto
  <2>3. pc'[p] = pc[p]
    BY <1>4, <2>1, <2>2
  <2> QED
    BY <1>1, <1>2, <2>3 DEF Undone
<1> QED
  BY <1>3, <1>4

\* The only Press saves registers at rest, drives them, and writes back what it saved.
LEMMA DriveUndone ==
  ASSUME TypeOK, Undone, NEW q \in Presser, Drive(q)
  PROVE  Undone'
<1> SUFFICES ASSUME NEW p \in Presser, Presser = {p}
             PROVE  /\ saved'[p] = IdleCia
                    /\ pc'[p] \in {"save", "probe", "poll", "fill", "count", "ok"}
                         => CiaNow' = IdleCia
  BY DEF Undone, IdleCia
<1>1. q = p /\ p \in Call
  BY DEF Call
<1>2. saved \in [Presser -> Cia] /\ pc \in [Call -> Place]
  BY DEF TypeOK, Place
<1>3. saved[p] = IdleCia
  BY DEF Undone
<1>4. CASE Save(p)
  <2>1. CiaNow = IdleCia
    BY <1>4 DEF Undone, Save
  <2>2. saved'[p] = IdleCia
    BY <1>2, <1>3, <1>4, <2>1 DEF Save
  <2>3. CiaNow' = CiaNow
    BY <1>4 DEF Save, ciaVars, CiaNow
  <2> QED
    BY <2>1, <2>2, <2>3
<1>5. CASE Probe(p)
  <2>1. CiaNow = IdleCia
    BY <1>5 DEF Undone, Probe
  <2>2. CiaNow' = CiaNow /\ saved' = saved
    BY <1>5 DEF Probe, ciaVars, CiaNow
  <2> QED
    BY <1>3, <2>1, <2>2
<1>6. CASE DriveDDR(p) \/ DrivePorts(p) \/ Hold(p)
  <2>1. saved' = saved /\ \E l \in {"drivePorts", "hold", "restore", "error"} : Goto(p, l)
    BY <1>6 DEF DriveDDR, DrivePorts, Hold
  <2>2. pc'[p] \in {"drivePorts", "hold", "restore", "error"}
    BY <1>1, <1>2, <2>1 DEF Goto
  <2> QED
    BY <1>3, <2>1, <2>2
<1>7. CASE Restore(p)
  <2>1. saved' = saved
    BY <1>7 DEF Restore
  <2>2. PICK ok, obeyed \in BOOLEAN :
          /\ ok => obeyed
          /\ IF obeyed THEN ports' = saved[p].ports /\ ddr' = saved[p].ddr
                       ELSE UNCHANGED ciaVars
          /\ Goto(p, IF ok THEN "ok" ELSE "error")
    BY <1>7 DEF Restore, Outcome
  <2>3. CASE ok
    <3>1. ports' = "idle" /\ ddr' = "idle"
      BY <1>3, <2>2, <2>3 DEF IdleCia
    <3> QED
      BY <1>3, <2>1, <3>1 DEF CiaNow, IdleCia
  <2>4. CASE ~ok
    <3>1. pc'[p] = "error"
      BY <1>1, <1>2, <2>2, <2>4 DEF Goto
    <3> QED
      BY <1>3, <2>1, <3>1
  <2> QED
    BY <2>3, <2>4
<1> QED
  BY <1>1, <1>4, <1>5, <1>6, <1>7 DEF Drive

LEMMA UndoneStep == TypeOK /\ Undone /\ [Next]_vars => Undone'
<1> SUFFICES ASSUME TypeOK, Undone, [Next]_vars PROVE Undone'
  OBVIOUS
<1>1. CASE UNCHANGED <<ports, ddr, saved, pc>>
  BY <1>1 DEF Undone, CiaNow
<1>2. CASE Next
  <2>1. CASE \E c \in Call : Feed(c)
    BY <2>1, FeedUndone
  <2>2. CASE \E p \in Presser : Drive(p)
    BY <2>2, DriveUndone
  <2>3. CASE \/ GetIn \/ UserPresses \/ SwitchIRQ
             \/ \E c \in Call : Cancel(c)
    <3>1. UNCHANGED <<ports, ddr, saved, pc>>
      BY <2>3 DEF GetIn, UserPresses, SwitchIRQ, Cancel, ciaVars
    <3> QED
      BY <1>1, <3>1
  <2> QED
    BY <1>2, <2>1, <2>2, <2>3, StepCases
<1> QED
  BY <1>1, <1>2 DEF vars

\* Press promises the registers of CIA #1 back (keyboard.go, "restoring the original
\* register values"): of a Press that is alone with any number of calls of Type, whatever
\* the C64 does in between, whichever request fails after it was obeyed and whenever its
\* context ends, a nil error does mean that all four are what they were.
THEOREM PressPutsBack == Spec => []PressRestores
<1>1. Init => Undone
  BY DEF Init, Undone, CiaNow, IdleCia
<1>2. TypeOK /\ Undone /\ [Next]_vars => Undone'
  BY UndoneStep
<1>3. Undone => PressRestores
  BY DEF Undone, PressRestores
<1> QED
  BY <1>1, <1>2, <1>3, TypeCorrect, PTL DEF Spec

-----------------------------------------------------------------------------
(* What is typed, and what is read.                                        *)

All == UNION {{c} \X DOMAIN Text[c] : c \in Call}

\* The characters the calls that are not over have still to feed, from the end of
\* the text.
Left == {x \in Call \X Nat : pc[x[1]] \notin Over /\ x[2] \in 1 .. Len(todo[x[1]])}

\* The last n characters of what call c has to feed.
Slice(c, n) == {c} \X (Len(todo[c]) - n + 1 .. Len(todo[c]))

\* Every character read, waiting in the buffer or still to feed is paid for: by the
\* text it is from, or by a key pressed on the C64.
Paid ==
  /\ IsFiniteSet(Left)
  /\ Len(consumed) + ndx + Cardinality(Left) <= keys + Cardinality(All)

LEMMA AllFinite == IsFiniteSet(All)
<1> DEFINE f == [c \in Call |-> {c} \X DOMAIN Text[c]]
           T == {{c} \X DOMAIN Text[c] : c \in Call}
<1>1. IsFiniteSet(Call)
  BY KeyboardAssumption, FS_Union DEF Call
<1>2. f \in Surjection(Call, T)
  BY DEF Surjection
<1>3. IsFiniteSet(T)
  <2> HIDE DEF f, T
  <2> QED
    BY <1>1, <1>2, FS_Surjection
<1>4. ASSUME NEW c \in Call PROVE IsFiniteSet({c} \X DOMAIN Text[c])
  <2>1. Text[c] \in Seq(Char)
    BY KeyboardAssumption
  <2>2. DOMAIN Text[c] = 1 .. Len(Text[c]) /\ Len(Text[c]) \in Nat
    BY <2>1
  <2>3. IsFiniteSet(1 .. Len(Text[c]))
    BY <2>2, FS_Interval
  <2> QED
    BY <2>2, <2>3, FS_Singleton, FS_Product
<1> QED
  BY <1>3, <1>4, FS_UNION DEF All

LEMMA PaidInit == Init => Paid
<1> SUFFICES ASSUME Init PROVE Paid
  OBVIOUS
<1>1. Left = All
  <2>1. Text \in [Call -> Seq(Char)]
    BY KeyboardAssumption
  <2>2. \A c \in Call : DOMAIN Text[c] = 1 .. Len(Text[c]) /\ todo[c] = Text[c] /\ pc[c] \notin Over
    BY <2>1 DEF Init, Over
  <2>3. Left = {x \in Call \X Nat : x[2] \in DOMAIN Text[x[1]]}
    BY <2>2 DEF Left
  <2>4. \A c \in Call : DOMAIN Text[c] \subseteq Nat
    BY <2>1
  <2> QED
    BY <2>3, <2>4 DEF All
<1>2. Len(consumed) = 0 /\ ndx = 0 /\ keys = 0
  BY EmptySeq DEF Init
<1>3. Cardinality(All) \in Nat
  BY AllFinite, FS_CardinalityType
<1> QED
  BY <1>1, <1>2, <1>3, AllFinite DEF Paid

\* A step that gives nothing more to feed, and pays for what it puts in the buffer.
LEMMA PaidFrame ==
  ASSUME TypeOK, TypeOK', Paid, Left' \subseteq Left,
         Len(consumed') + ndx' - keys' <= Len(consumed) + ndx - keys
  PROVE  Paid'
<1>1. IsFiniteSet(Left') /\ Cardinality(Left') <= Cardinality(Left)
  BY FS_Subset DEF Paid
<1>2. Cardinality(Left) \in Nat /\ Cardinality(Left') \in Nat
  BY <1>1, FS_CardinalityType DEF Paid
<1>3. Cardinality(All) \in Nat
  BY AllFinite, FS_CardinalityType
<1>4. /\ ndx \in Nat /\ ndx' \in Nat /\ keys \in Nat /\ keys' \in Nat
      /\ Len(consumed) \in Nat /\ Len(consumed') \in Nat
  BY KeyboardAssumption, LenProperties DEF TypeOK
<1>5. Len(consumed) + ndx + Cardinality(Left) <= keys + Cardinality(All)
  BY DEF Paid
<1>6. Len(consumed') + ndx' + Cardinality(Left') <= keys' + Cardinality(All)
  <2>1. PICK r \in Nat, q \in Nat, k \in Nat, f \in Nat, a \in Nat :
          /\ r = Len(consumed) /\ q = ndx /\ k = keys
          /\ f = Cardinality(Left) /\ a = Cardinality(All)
    BY <1>2, <1>3, <1>4
  <2>2. PICK r1 \in Nat, q1 \in Nat, k1 \in Nat, f1 \in Nat :
          r1 = Len(consumed') /\ q1 = ndx' /\ k1 = keys' /\ f1 = Cardinality(Left')
    BY <1>2, <1>4
  <2>3. f1 <= f /\ r + q + f <= k + a /\ r1 + q1 - k1 <= r + q - k
    BY <1>1, <1>5, <2>1, <2>2
  <2>4. r1 + q1 + f1 <= k1 + a
    BY <2>3
  <2> QED
    BY <2>1, <2>2, <2>4
<1> QED
  BY <1>1, <1>6 DEF Paid

\* Nothing is left to feed that was not.
LEMMA LeftShrinks ==
  ASSUME pc \in [Call -> Place], NEW c \in Call, NEW l \in Place,
         pc[c] \notin Over, Goto(c, l), todo' = todo
  PROVE  Left' \subseteq Left
BY DEF Left, Goto

LEMMA SliceSize ==
  ASSUME TypeOK, NEW c \in Call, pc[c] \notin Over, NEW n \in 0 .. Len(todo[c]), Paid
  PROVE  /\ Slice(c, n) \subseteq Left
         /\ IsFiniteSet(Slice(c, n))
         /\ Cardinality(Slice(c, n)) = n
<1>1. Len(todo[c]) \in Nat
  BY ChunkType
<1>2. Slice(c, n) \subseteq Left
  BY <1>1 DEF Slice, Left
<1> DEFINE a == Len(todo[c]) - n + 1
           b == Len(todo[c])
           I == a .. b
<1>3. IsFiniteSet(I) /\ Cardinality(I) = n
  <2>1. a \in Int /\ b \in Int /\ b - a + 1 = n /\ n \in Nat /\ (a > b => n = 0)
    BY <1>1
  <2> HIDE DEF a, b
  <2> QED
    BY <2>1, FS_Interval
<1> HIDE DEF I
<1>4. Slice(c, n) = {c} \X I
  BY DEF Slice, I
<1>5. IsFiniteSet({c}) /\ Cardinality({c}) = 1
  BY FS_Singleton
<1>6. IsFiniteSet({c} \X I) /\ Cardinality({c} \X I) = 1 * n
  BY <1>3, <1>5, FS_Product
<1> QED
  BY <1>1, <1>2, <1>4, <1>6

\* The length of a chunk replaces the length of the buffer; the chunk is off the text
\* or, if the request failed, the call is over.
LEMMA CountPaid ==
  ASSUME TypeOK, TypeOK', Paid, NEW c \in Call, Count(c)
  PROVE  Paid'
<1> DEFINE n == Len(Chunk(c))
           S == Slice(c, n)
<1>1. /\ Len(todo[c]) \in Nat
      /\ n \in 0 .. Len(todo[c])
      /\ Len(SubSeq(todo[c], n + 1, Len(todo[c]))) = Len(todo[c]) - n
  BY KeyboardAssumption, ChunkType
<1>2. pc \in [Call -> Place] /\ todo \in [Call -> Seq(Char)] /\ FeedError(c) \in Over
  BY DEF TypeOK, Place, FeedError, Over
<1>3. pc[c] \notin Over /\ UNCHANGED <<consumed, keys>>
  BY DEF Count, Over
<1>4. PICK ok, obeyed \in BOOLEAN :
        /\ ok => obeyed
        /\ ndx' = IF obeyed THEN n ELSE ndx
        /\ todo' = IF ok
                   THEN [todo EXCEPT ![c] = SubSeq(todo[c], n + 1, Len(todo[c]))]
                   ELSE todo
        /\ pc' = [pc EXCEPT ![c] = IF ok THEN "poll" ELSE FeedError(c)]
  BY DEF Count, Outcome, Goto
<1>5. Left' \subseteq Left \ S
  <2>1. CASE ok
    <3>1. \A d \in Call \ {c} : pc'[d] = pc[d] /\ todo'[d] = todo[d]
      BY <1>2, <1>4, <2>1
    <3>2. Len(todo'[c]) = Len(todo[c]) - n
      BY <1>1, <1>2, <1>4, <2>1
    <3> HIDE DEF n
    <3> QED
      BY <1>1, <1>3, <3>1, <3>2 DEF Left, Slice
  <2>2. CASE ~ok
    <3>1. todo' = todo /\ pc'[c] \in Over /\ \A d \in Call \ {c} : pc'[d] = pc[d]
      BY <1>2, <1>4, <2>2
    <3> QED
      BY <1>3, <3>1 DEF Left, Slice
  <2> QED
    BY <2>1, <2>2
<1>6. S \subseteq Left /\ IsFiniteSet(S) /\ Cardinality(S) = n
  BY <1>1, <1>3, SliceSize
<1> HIDE DEF n, S
<1>7. IsFiniteSet(Left) /\ IsFiniteSet(Left')
  BY <1>5, FS_Subset DEF Paid
<1>8. IsFiniteSet(Left \ S) /\ Cardinality(Left \ S) = Cardinality(Left) - n
  <2>1. Left \cap S = S
    BY <1>6
  <2> QED
    BY <1>6, <1>7, <2>1, FS_Difference
<1>9. Cardinality(Left') <= Cardinality(Left) - n
  BY <1>5, <1>8, FS_Subset
<1>10. /\ Cardinality(Left) \in Nat /\ Cardinality(Left') \in Nat /\ Cardinality(All) \in Nat
       /\ ndx \in Nat /\ keys \in Nat /\ Len(consumed) \in Nat /\ n \in Nat
  BY <1>1, <1>7, AllFinite, FS_CardinalityType, KeyboardAssumption, LenProperties DEF TypeOK
<1>11. ndx' = n \/ ndx' = ndx
  BY <1>4
<1> QED
  BY <1>3, <1>7, <1>9, <1>10, <1>11 DEF Paid

LEMMA PaidStep == TypeOK /\ TypeOK' /\ Paid /\ [Next]_vars => Paid'
<1> SUFFICES ASSUME TypeOK, TypeOK', Paid, [Next]_vars PROVE Paid'
  OBVIOUS
<1>0. /\ pc \in [Call -> Place] /\ ndx \in Nat /\ keys \in Nat /\ Len(consumed) \in Nat
  BY KeyboardAssumption, LenProperties DEF TypeOK, Place
<1>1. CASE UNCHANGED vars
  BY <1>1 DEF vars, Paid, Left
<1>2. CASE Next
  <2>1. ASSUME NEW c \in Call, Count(c) PROVE Paid'
    BY <2>1, CountPaid
  <2>2. ASSUME NEW c \in Call, PollEmpty(c) \/ PollFails(c) \/ FeedEnds(c) \/ Fill(c)
        PROVE  Paid'
    <3>1. /\ UNCHANGED <<todo, ndx, consumed, keys>>
          /\ pc[c] \notin Over
      BY <2>2 DEF PollEmpty, PollFails, FeedEnds, Fill, c64Vars, Over
    <3>2. \E l \in Place : Goto(c, l)
      BY <2>2 DEF PollEmpty, PollFails, FeedEnds, Fill, FeedError, Place
    <3> QED
      BY <1>0, <3>1, <3>2, LeftShrinks, PaidFrame
  <2>3. ASSUME NEW p \in Presser, Drive(p) PROVE Paid'
    <3>1. /\ UNCHANGED <<todo, ndx, consumed, keys>>
          /\ pc[p] \notin Over /\ p \in Call
      BY <2>3 DEF Drive, Save, Probe, DriveDDR, DrivePorts, Hold, Restore, c64Vars, Over, Call
    <3>2. \E l \in Place : Goto(p, l)
      BY <2>3 DEF Drive, Save, Probe, DriveDDR, DrivePorts, Hold, Restore, Place
    <3> QED
      BY <1>0, <3>1, <3>2, LeftShrinks, PaidFrame
  <2>4. CASE GetIn \/ UserPresses \/ SwitchIRQ
    <3>1. Left' = Left
      BY <2>4 DEF GetIn, UserPresses, SwitchIRQ, Left
    <3>2. Len(consumed') + ndx' - keys' <= Len(consumed) + ndx - keys
      <4>1. CASE GetIn
        <5>1. consumed \in Seq(Char \cup {None}) /\ cells[1] \in Char \cup {None}
          BY KeyboardAssumption DEF TypeOK
        <5>2. Len(consumed') = Len(consumed) + 1
          BY <4>1, <5>1, AppendProperties DEF GetIn
        <5> QED
          BY <1>0, <4>1, <5>2 DEF GetIn
      <4>2. CASE UserPresses
        BY <1>0, <4>2 DEF UserPresses
      <4>3. CASE SwitchIRQ
        BY <1>0, <4>3 DEF SwitchIRQ
      <4> QED
        BY <2>4, <4>1, <4>2, <4>3
    <3> QED
      BY <3>1, <3>2, PaidFrame
  <2>5. ASSUME NEW c \in Call, Cancel(c) PROVE Paid'
    BY <2>5 DEF Cancel, c64Vars, Paid, Left
  <2> QED
    BY <1>2, <2>1, <2>2, <2>3, <2>4, <2>5, StepCases DEF Feed
<1> QED
  BY <1>1, <1>2

\* Calls that fill the buffer at the same time, keys of the user that land in a chunk
\* being written, and requests that fail after they were obeyed may cost characters and
\* repeat others, but never make more of them: feed (keyboard.go) does not send a chunk
\* twice, and the length it writes to $C6 is that of characters it will not send again.
THEOREM NoExtraKeys == Spec => []NothingExtra
<1>1. Init => Paid
  BY PaidInit
<1>2. TypeOK /\ TypeOK' /\ Paid /\ [Next]_vars => Paid'
  BY PaidStep
<1>3. TypeOK /\ Paid => NothingExtra
  <2> SUFFICES ASSUME TypeOK, Paid PROVE NothingExtra
    OBVIOUS
  <2>1. /\ cells \in [1 .. BufMax -> Char \cup {None}]
        /\ ndx \in 0 .. BufMax /\ BufMax \in Nat
        /\ consumed \in Seq(Char \cup {None})
        /\ keys \in Nat
    BY KeyboardAssumption DEF TypeOK
  <2>2. Queue \in Seq(Char \cup {None}) /\ Len(Queue) = ndx
    <3>1. \A i \in 1 .. ndx : cells[i] \in Char \cup {None}
      BY <2>1
    <3> QED
      BY <2>1, <3>1, SubSeqProperties DEF Queue
  <2>3. Len(Received) = Len(consumed) + ndx
    BY <2>1, <2>2, ConcatProperties DEF Received
  <2>4. /\ Cardinality(Left) \in Nat /\ Cardinality(All) \in Nat
        /\ Len(consumed) \in Nat
    BY <2>1, AllFinite, FS_CardinalityType DEF Paid
  <2>5. Len(Received) <= keys + Cardinality(All)
    BY <2>1, <2>3, <2>4 DEF Paid
  <2> QED
    BY <2>5 DEF NothingExtra, All
<1> QED
  BY <1>1, <1>2, <1>3, TypeCorrect, PTL DEF Spec

-----------------------------------------------------------------------------
(* The texts arrive.                                                       *)

LEMMA JoinShape ==
  ASSUME NEW cs \in Seq(Char \cup {None}), NEW ce \in [1 .. BufMax -> Char \cup {None}],
         NEW n \in 0 .. BufMax
  PROVE  LET r == cs \o SubSeq(ce, 1, n)
         IN /\ r \in Seq(Char \cup {None})
            /\ Len(cs) \in Nat /\ n \in Nat
            /\ Len(r) = Len(cs) + n
            /\ DOMAIN r = 1 .. Len(r)
            /\ \A i \in 1 .. Len(r) : r[i] = IF i <= Len(cs) THEN cs[i] ELSE ce[i - Len(cs)]
<1>1. BufMax \in Nat /\ n \in Nat /\ n <= BufMax
  BY KeyboardAssumption
<1>2. \A i \in 1 .. n : ce[i] \in Char \cup {None}
  BY <1>1
<1>3. PICK q \in Seq(Char \cup {None}) :
        /\ q = SubSeq(ce, 1, n) /\ Len(q) = n /\ \A i \in 1 .. n : q[i] = ce[i]
  <2>1. /\ SubSeq(ce, 1, n) \in Seq(Char \cup {None})
        /\ Len(SubSeq(ce, 1, n)) = IF 1 <= n THEN n - 1 + 1 ELSE 0
        /\ \A i \in 1 .. n - 1 + 1 : SubSeq(ce, 1, n)[i] = ce[1 + i - 1]
    BY <1>1, <1>2, SubSeqProperties
  <2>2. n - 1 + 1 = n /\ (IF 1 <= n THEN n - 1 + 1 ELSE 0) = n
    BY <1>1
  <2>3. \A i \in 1 .. n : 1 + i - 1 = i
    BY <1>1
  <2>4. Len(SubSeq(ce, 1, n)) = n
    BY <2>1, <2>2
  <2>5. \A i \in 1 .. n : SubSeq(ce, 1, n)[i] = ce[i]
    BY <2>1, <2>2, <2>3
  <2> QED
    BY <2>1, <2>4, <2>5
<1>4. PICK m \in Nat : m = Len(cs)
  BY LenProperties
<1>5. PICK r \in Seq(Char \cup {None}) :
        /\ r = cs \o q /\ Len(r) = m + n
        /\ \A i \in 1 .. m + n : r[i] = IF i <= m THEN cs[i] ELSE q[i - m]
  <2>1. /\ cs \o q \in Seq(Char \cup {None})
        /\ Len(cs \o q) = Len(cs) + Len(q)
        /\ \A i \in 1 .. Len(cs) + Len(q) : (cs \o q)[i] = IF i <= Len(cs) THEN cs[i] ELSE q[i - Len(cs)]
    BY ConcatProperties
  <2> QED
    BY <1>3, <1>4, <2>1
<1>6. \A i \in 1 .. m + n : i > m => q[i - m] = ce[i - m]
  <2>1. \A i \in 1 .. m + n : i > m => i - m \in 1 .. n
    BY <1>1, <1>4
  <2> QED
    BY <1>3, <2>1
<1>7. DOMAIN r = 1 .. Len(r)
  BY LenProperties
<1>8. cs \o SubSeq(ce, 1, n) = r
  BY <1>3, <1>5
<1> QED
  BY <1>1, <1>4, <1>5, <1>6, <1>7, <1>8

LEMMA ReceivedShape ==
  ASSUME TypeOK
  PROVE  /\ Received \in Seq(Char \cup {None})
         /\ Len(consumed) \in Nat /\ ndx \in Nat
         /\ Len(Received) = Len(consumed) + ndx
         /\ DOMAIN Received = 1 .. Len(Received)
         /\ \A i \in 1 .. Len(Received) :
              Received[i] = IF i <= Len(consumed) THEN consumed[i] ELSE cells[i - Len(consumed)]
<1>1. /\ cells \in [1 .. BufMax -> Char \cup {None}]
      /\ ndx \in 0 .. BufMax
      /\ consumed \in Seq(Char \cup {None})
  BY DEF TypeOK
<1> QED
  BY <1>1, JoinShape DEF Received, Queue

LEMMA ReceivedNext ==
  ASSUME TypeOK'
  PROVE  /\ Received' \in Seq(Char \cup {None})
         /\ Len(consumed') \in Nat /\ ndx' \in Nat
         /\ Len(Received') = Len(consumed') + ndx'
         /\ DOMAIN Received' = 1 .. Len(Received')
         /\ \A i \in 1 .. Len(Received') :
              Received'[i] = IF i <= Len(consumed') THEN consumed'[i] ELSE cells'[i - Len(consumed')]
<1>1. /\ cells' \in [1 .. BufMax -> Char \cup {None}]
      /\ ndx' \in 0 .. BufMax
      /\ consumed' \in Seq(Char \cup {None})
  BY DEF TypeOK
<1> QED
  BY <1>1, JoinShape DEF Received, Queue

LEMMA GetInReceived ==
  ASSUME TypeOK, TypeOK', GetIn
  PROVE  Received' = Received
<1>1. /\ cells \in [1 .. BufMax -> Char \cup {None}] /\ consumed \in Seq(Char \cup {None})
      /\ BufMax \in Nat \ {0}
  BY KeyboardAssumption DEF TypeOK
<1>2. PICK m \in Nat, n \in Nat : m = Len(consumed) /\ n = ndx /\ n > 0 /\ n <= BufMax
  BY ReceivedShape DEF GetIn, TypeOK
<1>3. cells[1] \in Char \cup {None}
  BY <1>1
<1>4. /\ Len(consumed') = m + 1 /\ consumed'[m + 1] = cells[1]
      /\ \A i \in 1 .. m : consumed'[i] = consumed[i]
  BY <1>1, <1>2, <1>3, AppendProperties DEF GetIn
<1>5. ndx' = n - 1 /\ \A i \in 1 .. n - 1 : cells'[i] = cells[i + 1]
  BY <1>1, <1>2 DEF GetIn
<1>6. Len(Received) = m + n /\ Len(Received') = m + n
  <2>1. Len(Received') = Len(consumed') + ndx'
    BY ReceivedNext
  <2> QED
    BY <1>2, <1>4, <1>5, <2>1, ReceivedShape
<1>7. ASSUME NEW i \in Nat, 1 <= i, i <= m + n PROVE Received'[i] = Received[i]
  <2>0. i \in 1 .. m + n
    BY <1>2, <1>7
  <2>1. Received[i] = IF i <= m THEN consumed[i] ELSE cells[i - m]
    BY <1>2, <1>6, <2>0, ReceivedShape
  <2>2. Received'[i] = IF i <= m + 1 THEN consumed'[i] ELSE cells'[i - (m + 1)]
    <3>1. \A j \in 1 .. Len(Received') :
            Received'[j] = IF j <= Len(consumed') THEN consumed'[j] ELSE cells'[j - Len(consumed')]
      BY ReceivedNext
    <3> QED
      BY <1>4, <1>6, <2>0, <3>1
  <2>3. CASE i <= m
    BY <1>2, <1>4, <2>0, <2>1, <2>2, <2>3
  <2>4. CASE i = m + 1
    BY <1>2, <1>4, <2>1, <2>2, <2>4
  <2>5. CASE i > m + 1
    <3>1. PICK j \in Int : j = i - (m + 1)
      <4>1. i - (m + 1) \in Int
        BY <1>2, <1>7
      <4> QED
        BY <4>1
    <3>2. j \in 1 .. n - 1 /\ j + 1 = i - m
      BY <1>2, <1>7, <2>5, <3>1
    <3>3. cells'[j] = cells[j + 1]
      BY <1>5, <3>2
    <3>4. Received[i] = cells[i - m] /\ Received'[i] = cells'[i - (m + 1)]
      BY <1>2, <2>1, <2>2, <2>5
    <3> QED
      BY <3>1, <3>2, <3>3, <3>4
  <2> QED
    BY <1>2, <2>3, <2>4, <2>5
<1>8. Received \in Seq(Char \cup {None}) /\ Received' \in Seq(Char \cup {None})
  BY ReceivedShape, ReceivedNext
<1>9. \A i \in 1 .. Len(Received) : Received'[i] = Received[i]
  BY <1>2, <1>6, <1>7
<1> QED
  BY <1>6, <1>8, <1>9, SeqEqual

\* The length of the buffer was zero: what it covers now is behind all the rest.
LEMMA GrownReceived ==
  ASSUME TypeOK, TypeOK', ndx = 0, consumed' = consumed
  PROVE  /\ Len(Received') = Len(Received) + ndx'
         /\ \A i \in 1 .. Len(Received) : Received'[i] = Received[i]
         /\ \A i \in 1 .. ndx' : Received'[Len(Received) + i] = cells'[i]
<1>1. PICK m \in Nat, k \in Nat : m = Len(consumed) /\ k = ndx'
  BY ReceivedShape, ReceivedNext
<1>2. Len(Received) = m /\ \A i \in 1 .. m : Received[i] = consumed[i]
  <2>0. Len(Received) = Len(consumed) + ndx
    BY ReceivedShape
  <2>1. Len(Received) = m
    BY <1>1, <2>0
  <2> QED
    BY <1>1, <2>1, ReceivedShape
<1>3. /\ Len(Received') = m + k
      /\ \A i \in 1 .. m + k : Received'[i] = IF i <= m THEN consumed[i] ELSE cells'[i - m]
  <2>1. /\ Len(Received') = Len(consumed') + ndx'
        /\ \A i \in 1 .. Len(Received') :
             Received'[i] = IF i <= Len(consumed') THEN consumed'[i] ELSE cells'[i - Len(consumed')]
    BY ReceivedNext
  <2> QED
    BY <1>1, <2>1
<1>4. ASSUME NEW i \in 1 .. k PROVE Received'[m + i] = cells'[i]
  <2>1. m + i \in 1 .. m + k /\ ~(m + i <= m) /\ (m + i) - m = i
    BY <1>1
  <2> QED
    BY <1>3, <2>1
<1> QED
  BY <1>1, <1>2, <1>3, <1>4

\* Nothing is waiting before and after.
LEMMA SameReceived ==
  ASSUME TypeOK, TypeOK', ndx = 0, ndx' = 0, consumed' = consumed
  PROVE  Received' = Received
<1>1. Len(Received') = Len(Received) + 0 /\ \A i \in 1 .. Len(Received) : Received'[i] = Received[i]
  BY GrownReceived
<1>2. Received \in Seq(Char \cup {None}) /\ Received' \in Seq(Char \cup {None})
  BY ReceivedShape, ReceivedNext
<1>3. Len(Received) \in Nat
  BY <1>2, LenProperties
<1> QED
  BY <1>1, <1>2, <1>3, SeqEqual

\* How much of its text a call has sent, and whether its character n has arrived.
Sent(c) == Len(Text[c]) - Len(todo[c])
Arrived(c, n) == \E i \in DOMAIN Received : Received[i] = Text[c][n]

\* The calls before it are over.
ItsTurn(c) == \A d \in Call : round[d] < round[c] => pc[d] \in Over

\* A call that is not over: what it has sent has arrived, all of it and no more, and
\* is the last that has.
Feeding(c) ==
  /\ Len(todo[c]) <= Len(Text[c])
  /\ \A n \in 1 .. Len(todo[c]) : todo[c][n] = Text[c][Sent(c) + n]
  /\ \A n \in DOMAIN Text[c] : Arrived(c, n) <=> n <= Sent(c)
  /\ Sent(c) > 0 => Len(Received) > 0 /\ Received[Len(Received)] = Text[c][Sent(c)]

\* The chunk that is written does not count yet.
Writing(c) ==
  /\ pc[c] \in {"fill", "count"} => ndx = 0 /\ ItsTurn(c)
  /\ pc[c] = "count" => \A i \in 1 .. Len(Chunk(c)) : cells[i] = Chunk(c)[i]

Underway ==
  /\ \A c \in Call : Writing(c)
  /\ \A i \in DOMAIN Received : \E c \in Call : \E n \in DOMAIN Text[c] : Follows(i, c, n)
  /\ \A c \in Call : \A n \in DOMAIN Text[c] : Arrived(c, n) => ItsTurn(c)
  /\ \A c \in Call : pc[c] \notin Over => Feeding(c)
  /\ \A t \in Typist : pc[t] = "ok" => \A n \in DOMAIN Text[t] : Arrived(t, n)

\* One call after the other, and nobody at the C64's keyboard.
Undisturbed == Alone /\ Distinct /\ keys = 0

LEMMA TextType ==
  ASSUME NEW c \in Call
  PROVE  Text[c] \in Seq(Char) /\ Len(Text[c]) \in Nat /\ DOMAIN Text[c] = 1 .. Len(Text[c])
<1>1. Text[c] \in Seq(Char)
  BY KeyboardAssumption
<1> QED
  BY <1>1, LenProperties

\* While one call runs, the later ones have not begun.
LEMMA OnlyOne ==
  ASSUME Undisturbed, Underway, NEW c \in Call, pc[c] \notin Over, ItsTurn(c),
         round \in [Call -> Nat]
  PROVE  \A d \in Call \ {c} : pc[d] \notin Over =>
           /\ round[c] < round[d]
           /\ pc[d] \notin {"fill", "count"}
           /\ \A n \in DOMAIN Text[d] : ~Arrived(d, n)
<1> SUFFICES ASSUME NEW d \in Call, d # c, pc[d] \notin Over
             PROVE  /\ round[c] < round[d]
                    /\ pc[d] \notin {"fill", "count"}
                    /\ \A n \in DOMAIN Text[d] : ~Arrived(d, n)
  OBVIOUS
<1>1. round[c] # round[d]
  BY DEF Undisturbed, Alone
<1>2. ~(round[d] < round[c])
  BY DEF ItsTurn
<1>3. round[c] < round[d]
  <2>1. PICK a \in Nat, b \in Nat : a = round[c] /\ b = round[d]
    OBVIOUS
  <2> QED
    BY <1>1, <1>2, <2>1
<1>4. ~ItsTurn(d)
  BY <1>3 DEF ItsTurn
<1> QED
  BY <1>3, <1>4 DEF Underway, Writing

\* A step of a call after which nothing more, and nothing else, has arrived.
LEMMA UnderwayKept ==
  ASSUME Undisturbed, Underway, round \in [Call -> Nat], pc \in [Call -> Place],
         round' = round, todo' = todo, Received' = Received,
         NEW c \in Call, NEW l \in Place, pc[c] \notin Over, ItsTurn(c), Goto(c, l),
         l \in {"fill", "count"} => ndx' = 0,
         l = "count" => \A i \in 1 .. Len(Chunk(c)) : cells'[i] = Chunk(c)[i],
         l = "ok" /\ c \in Typist => \A n \in DOMAIN Text[c] : Arrived(c, n)
  PROVE  Underway'
<1>1. /\ pc'[c] = l
      /\ \A d \in Call \ {c} : pc'[d] = pc[d]
  BY GotoType
<1>2. \A d \in Call : ItsTurn(d) => ItsTurn(d)'
  BY <1>1 DEF ItsTurn
<1>3. \A d \in Call : Chunk(d)' = Chunk(d) /\ Sent(d)' = Sent(d)
  BY DEF Chunk, Sent
<1>4. \A d \in Call : \A n \in DOMAIN Text[d] : Arrived(d, n)' <=> Arrived(d, n)
  BY DEF Arrived
<1>5. ASSUME NEW d \in Call PROVE Writing(d)'
  <2>1. CASE d = c
    BY <1>1, <1>2, <1>3, <2>1 DEF Writing
  <2>2. CASE d # c /\ pc[d] \notin Over
    <3>1. pc[d] \notin {"fill", "count"} /\ pc'[d] = pc[d]
      BY <1>1, <2>2, OnlyOne
    <3> QED
      BY <3>1 DEF Writing
  <2>3. CASE d # c /\ pc[d] \in Over
    <3>1. pc'[d] \in Over
      BY <1>1, <2>3
    <3> QED
      BY <3>1 DEF Writing, Over
  <2> QED
    BY <2>1, <2>2, <2>3
<1>6. \A i \in DOMAIN Received' : \E d \in Call : \E n \in DOMAIN Text[d] : Follows(i, d, n)'
  <2>1. \A i, d, n : Follows(i, d, n) => Follows(i, d, n)'
    BY DEF Follows
  <2> QED
    BY <2>1 DEF Underway
<1>7. \A d \in Call : \A n \in DOMAIN Text[d] : Arrived(d, n)' => ItsTurn(d)'
  BY <1>2, <1>4 DEF Underway
<1>8. ASSUME NEW d \in Call, pc'[d] \notin Over PROVE Feeding(d)'
  <2>1. pc[d] \notin Over
    BY <1>1, <1>8
  <2>2. Feeding(d)
    BY <2>1 DEF Underway
  <2> QED
    BY <1>3, <1>4, <2>2 DEF Feeding
<1>9. ASSUME NEW t \in Typist, pc'[t] = "ok", NEW n \in DOMAIN Text[t] PROVE Arrived(t, n)'
  <2>1. t \in Call
    BY DEF Call
  <2>2. Arrived(t, n)
    BY <1>1, <1>9, <2>1 DEF Underway
  <2> QED
    BY <1>4, <2>1, <2>2
<1> QED
  BY <1>5, <1>6, <1>7, <1>8, <1>9 DEF Underway

\* A chunk is the head of what is left, and what is left then the rest.
LEMMA ChunkIsHead ==
  ASSUME TypeOK, NEW c \in Call
  PROVE  /\ \A i \in 1 .. Len(Chunk(c)) : Chunk(c)[i] = todo[c][i]
         /\ \A i \in 1 .. Len(todo[c]) - Len(Chunk(c)) :
              SubSeq(todo[c], Len(Chunk(c)) + 1, Len(todo[c]))[i] = todo[c][Len(Chunk(c)) + i]
<1>1. PICK n \in Nat, b \in Nat : n = Min2(BufMax, Len(todo[c])) /\ n <= b /\ b = Len(todo[c])
  BY ChunkType, KeyboardAssumption DEF Min2
<1>2. todo[c] \in Seq(Char)
  BY DEF TypeOK
<1>3. \A i \in 1 .. b : todo[c][i] \in Char
  BY <1>1, <1>2, ElementOfSeq
<1>4. Chunk(c) = SubSeq(todo[c], 1, n)
  BY <1>1 DEF Chunk
<1>5. /\ Len(SubSeq(todo[c], 1, n)) = IF 1 <= n THEN n - 1 + 1 ELSE 0
      /\ \A i \in 1 .. n - 1 + 1 : SubSeq(todo[c], 1, n)[i] = todo[c][1 + i - 1]
  <2>1. \A i \in 1 .. n : todo[c][i] \in Char
    BY <1>1, <1>3
  <2> QED
    BY <1>1, <2>1, SubSeqProperties
<1>6. n - 1 + 1 = n /\ (IF 1 <= n THEN n - 1 + 1 ELSE 0) = n
  BY <1>1
<1>7. \A i \in 1 .. n : 1 + i - 1 = i
  BY <1>1
<1>8. Len(Chunk(c)) = n
  BY <1>4, <1>5, <1>6
<1>9. \A i \in 1 .. n : Chunk(c)[i] = todo[c][i]
  BY <1>4, <1>5, <1>6, <1>7
<1>10. \A i \in 1 .. b - (n + 1) + 1 : SubSeq(todo[c], n + 1, b)[i] = todo[c][n + 1 + i - 1]
  <2>1. \A i \in n + 1 .. b : todo[c][i] \in Char
    BY <1>1, <1>3
  <2> QED
    BY <1>1, <2>1, SubSeqProperties
<1>11. b - (n + 1) + 1 = b - n
  BY <1>1
<1>12. \A i \in 1 .. b - n : n + 1 + i - 1 = n + i
  BY <1>1
<1>13. \A i \in 1 .. b - n : SubSeq(todo[c], n + 1, b)[i] = todo[c][n + i]
  BY <1>10, <1>11, <1>12
<1> QED
  BY <1>1, <1>8, <1>9, <1>13

\* What arrives when the length of a chunk is written.
LEMMA ChunkArrives ==
  ASSUME TypeOK, TypeOK', Underway, NEW c \in Call, pc[c] = "count",
         ndx' = Len(Chunk(c)), UNCHANGED <<cells, consumed>>
  PROVE  /\ Len(Received) \in Nat /\ Sent(c) \in Nat /\ ndx' \in Nat
         /\ Len(Received') = Len(Received) + ndx'
         /\ \A i \in 1 .. Len(Received) : Received'[i] = Received[i]
         /\ \A i \in 1 .. ndx' : /\ Received'[Len(Received) + i] = Text[c][Sent(c) + i]
                                 /\ Sent(c) + i \in DOMAIN Text[c]
<1>1. ndx = 0 /\ Feeding(c) /\ \A i \in 1 .. Len(Chunk(c)) : cells[i] = Chunk(c)[i]
  BY DEF Underway, Writing, Over
<1>2. PICK a \in Nat, b \in Nat : a = Len(Text[c]) /\ b = Len(todo[c])
  BY TextType, ChunkType
<1>3. Sent(c) \in Nat
  BY <1>1, <1>2 DEF Sent, Feeding
<1>4. PICK k \in Nat : k = ndx' /\ k = Len(Chunk(c)) /\ k <= b
  BY <1>2, ChunkType, KeyboardAssumption
<1>5. /\ Len(Received') = Len(Received) + k
      /\ \A i \in 1 .. Len(Received) : Received'[i] = Received[i]
      /\ \A i \in 1 .. k : Received'[Len(Received) + i] = cells[i]
  BY <1>1, <1>4, GrownReceived
<1>6. Len(Received) \in Nat
  <2>1. Received \in Seq(Char \cup {None})
    BY ReceivedShape
  <2> QED
    BY <2>1, LenProperties
<1>7. \A i \in 1 .. k : Chunk(c)[i] = todo[c][i]
  BY <1>4, ChunkIsHead
<1>8. \A i \in 1 .. k : i \in 1 .. b
  BY <1>4
<1>9. ASSUME NEW i \in Nat, 1 <= i, i <= k
      PROVE  Received'[Len(Received) + i] = Text[c][Sent(c) + i] /\ Sent(c) + i \in DOMAIN Text[c]
  <2>1. i \in 1 .. k /\ i \in 1 .. b
    BY <1>4, <1>9
  <2>2. todo[c][i] = Text[c][Sent(c) + i]
    BY <1>1, <1>2, <2>1 DEF Feeding
  <2>3. Sent(c) = a - b
    BY <1>2 DEF Sent
  <2>4. Sent(c) + i \in 1 .. a
    <3>1. PICK s \in Nat : s = Sent(c)
      BY <1>3
    <3>2. s = a - b
      BY <2>3, <3>1
    <3>3. 1 <= s + i /\ s + i <= a
      BY <1>2, <1>4, <1>9, <3>1, <3>2
    <3> QED
      BY <1>2, <1>9, <3>1, <3>3
  <2> QED
    BY <1>1, <1>2, <1>4, <1>5, <1>7, <2>1, <2>2, <2>4, TextType
<1> QED
  BY <1>3, <1>4, <1>5, <1>6, <1>9

\* A chunk of the call whose turn it is follows what has arrived.
LEMMA UnderwayGrows ==
  ASSUME TypeOK, TypeOK', Undisturbed, Underway, NEW c \in Call, pc[c] = "count",
         round' = round, ndx' = Len(Chunk(c)), UNCHANGED <<cells, consumed>>,
         NEW l \in {"poll", "ok", "error"}, Goto(c, l),
         \/ l = "poll" /\ todo' = [todo EXCEPT ![c] = SubSeq(@, Len(Chunk(c)) + 1, Len(@))]
         \/ (l = "error" \/ c \in Presser) /\ l \in Over /\ todo' = todo
  PROVE  Underway'
<1>0. round \in [Call -> Nat] /\ pc \in [Call -> Place]
  BY KeyboardAssumption DEF TypeOK, Place
<1>1. PICK L \in Nat, s \in Nat, k \in Nat :
        /\ L = Len(Received) /\ s = Sent(c) /\ k = ndx'
        /\ Len(Received') = L + k
        /\ \A i \in 1 .. L : Received'[i] = Received[i]
        /\ \A i \in 1 .. k : Received'[L + i] = Text[c][s + i] /\ s + i \in DOMAIN Text[c]
  BY ChunkArrives
<1>2. DOMAIN Received = 1 .. L /\ DOMAIN Received' = 1 .. L + k
  BY <1>1, ReceivedShape, ReceivedNext
<1>3. ItsTurn(c) /\ pc[c] \notin Over /\ Feeding(c)
  BY DEF Underway, Writing, Over
<1>4. /\ pc'[c] = l
      /\ \A d \in Call \ {c} : pc'[d] = pc[d]
  BY <1>0, GotoType DEF Place
<1>5. \A d \in Call : ItsTurn(d) => ItsTurn(d)'
  BY <1>3, <1>4 DEF ItsTurn
<1>6. \A d \in Call \ {c} : pc[d] \notin Over =>
           /\ round[c] < round[d]
           /\ pc[d] \notin {"fill", "count"}
           /\ \A n \in DOMAIN Text[d] : ~Arrived(d, n)
  BY <1>0, <1>3, OnlyOne
<1>7. \A i \in DOMAIN Received' :
        \/ i \in DOMAIN Received /\ Received'[i] = Received[i]
        \/ \E j \in 1 .. k : i = L + j /\ Received'[i] = Text[c][s + j]
  <2> SUFFICES ASSUME NEW i \in Nat, 1 <= i, i <= L + k
               PROVE  \/ i \in DOMAIN Received /\ Received'[i] = Received[i]
                      \/ \E j \in 1 .. k : i = L + j /\ Received'[i] = Text[c][s + j]
    BY <1>1, <1>2
  <2>1. CASE i <= L
    BY <1>1, <1>2, <2>1
  <2>2. CASE i > L
    <3>1. i - L \in 1 .. k /\ i = L + (i - L)
      BY <1>1, <2>2
    <3> QED
      BY <1>1, <3>1
  <2> QED
    BY <1>1, <2>1, <2>2
<1>8. \A d \in Call : \A n \in DOMAIN Text[d] :
        Arrived(d, n)' <=> Arrived(d, n) \/ (d = c /\ n \in s + 1 .. s + k)
  <2> SUFFICES ASSUME NEW d \in Call, NEW n \in DOMAIN Text[d]
               PROVE  Arrived(d, n)' <=> Arrived(d, n) \/ (d = c /\ n \in s + 1 .. s + k)
    OBVIOUS
  <2>1. ASSUME Arrived(d, n)' PROVE Arrived(d, n) \/ (d = c /\ n \in s + 1 .. s + k)
    <3>1. PICK i \in DOMAIN Received' : Received'[i] = Text[d][n]
      BY <2>1 DEF Arrived
    <3>2. CASE i \in DOMAIN Received /\ Received'[i] = Received[i]
      BY <3>1, <3>2 DEF Arrived
    <3>3. CASE \E j \in 1 .. k : i = L + j /\ Received'[i] = Text[c][s + j]
      <4>1. PICK j \in 1 .. k : Received'[i] = Text[c][s + j]
        BY <3>3
      <4>2. s + j \in DOMAIN Text[c]
        BY <1>1, <4>1
      <4>3. PICK m \in DOMAIN Text[c] : m = s + j
        BY <4>2
      <4>5. Text[d][n] = Text[c][m]
        BY <3>1, <4>1, <4>3
      <4>6. d = c /\ n = s + j
        BY <4>3, <4>5 DEF Undisturbed, Distinct
      <4>4. s + j \in s + 1 .. s + k
        BY <1>1, <4>1
      <4> QED
        BY <4>4, <4>6
    <3> QED
      BY <1>7, <3>1, <3>2, <3>3
  <2>2. ASSUME Arrived(d, n) PROVE Arrived(d, n)'
    <3>1. PICK i \in DOMAIN Received : Received[i] = Text[d][n]
      BY <2>2 DEF Arrived
    <3>2. i \in DOMAIN Received' /\ Received'[i] = Received[i]
      BY <1>1, <1>2, <3>1
    <3> QED
      BY <3>1, <3>2 DEF Arrived
  <2>3. ASSUME d = c, n \in s + 1 .. s + k PROVE Arrived(d, n)'
    <3>1. n - s \in 1 .. k /\ s + (n - s) = n /\ L + (n - s) \in 1 .. L + k
      BY <1>1, <2>3
    <3>2. Received'[L + (n - s)] = Text[c][n]
      BY <1>1, <3>1
    <3> QED
      BY <1>2, <2>3, <3>1, <3>2 DEF Arrived
  <2> QED
    BY <2>1, <2>2, <2>3
<1>9. ASSUME NEW d \in Call PROVE Writing(d)'
  <2>1. CASE d = c
    BY <1>4, <2>1 DEF Writing
  <2>2. CASE d # c /\ pc[d] \notin Over
    BY <1>4, <1>6, <2>2 DEF Writing
  <2>3. CASE d # c /\ pc[d] \in Over
    BY <1>4, <2>3 DEF Writing, Over
  <2> QED
    BY <2>1, <2>2, <2>3

<1>10. \A i \in DOMAIN Received' : \E d \in Call : \E n \in DOMAIN Text[d] : Follows(i, d, n)'
  <2>1. ASSUME NEW i \in 1 .. L
        PROVE  \E d \in Call : \E n \in DOMAIN Text[d] : Follows(i, d, n)'
    <3>0. PICK d \in Call : \E n \in DOMAIN Text[d] : Follows(i, d, n)
      BY <1>2, <2>1 DEF Underway
    <3>1. PICK n \in DOMAIN Text[d] : Follows(i, d, n)
      BY <3>0
    <3>2. \A j \in 1 .. i : Received'[j] = Received[j]
      BY <1>1, <2>1
    <3>3. i \in 1 .. i /\ i > 1 => i - 1 \in 1 .. i
      BY <2>1
    <3>4. \A j \in 1 .. i - 1 : j \in 1 .. i
      BY <2>1
    <3>5. Received'[i] = Text[d][n]
      BY <2>1, <3>1, <3>2 DEF Follows
    <3>6. n > 1 => i > 1 /\ Received'[i - 1] = Text[d][n - 1]
      BY <2>1, <3>1, <3>2, <3>3 DEF Follows
    <3>7. \A j \in 1 .. i - 1 : \A e \in Call : \A m \in DOMAIN Text[e] :
            Received'[j] = Text[e][m] => round'[e] <= round'[d] /\ <<e, m>> # <<d, n>>
      BY <3>1, <3>2, <3>4 DEF Follows
    <3> QED
      BY <3>5, <3>6, <3>7 DEF Follows
  <2>2. ASSUME NEW h \in Nat, 1 <= h, h <= k
        PROVE  \E d \in Call : \E n \in DOMAIN Text[d] : Follows(L + h, d, n)'
    <3>0. h \in 1 .. k
      BY <1>1, <2>2
    <3>1. Received'[L + h] = Text[c][s + h] /\ s + h \in DOMAIN Text[c]
      BY <1>1, <3>0
    <3>2. ASSUME s + h > 1
          PROVE  L + h > 1 /\ Received'[L + h - 1] = Text[c][s + h - 1]
      <4>1. CASE h > 1
        <5>1. h - 1 \in 1 .. k /\ L + (h - 1) = L + h - 1 /\ s + (h - 1) = s + h - 1 /\ L + h > 1
          BY <1>1, <2>2, <4>1
        <5> QED
          BY <1>1, <5>1
      <4>2. CASE h = 1
        <5>1. L > 0 /\ Received[L] = Text[c][s]
          BY <1>1, <1>3, <3>2, <4>2 DEF Feeding
        <5>2. Received'[L] = Received[L]
          BY <1>1, <5>1
        <5>3. L + h - 1 = L /\ s + h - 1 = s /\ L + h > 1
          BY <1>1, <4>2, <5>1
        <5> QED
          BY <5>1, <5>2, <5>3
      <4> QED
        BY <2>2, <4>1, <4>2
    <3>3. ASSUME NEW j \in 1 .. L + h - 1, NEW d \in Call, NEW m \in DOMAIN Text[d],
                 Received'[j] = Text[d][m]
          PROVE  round'[d] <= round'[c] /\ <<d, m>> # <<c, s + h>>
      <4>0. j \in 1 .. L + k /\ round[c] \in Nat /\ round[d] \in Nat
        BY <1>0, <1>1, <2>2, <3>3
      <4>1. CASE j \in DOMAIN Received /\ Received'[j] = Received[j]
        <5>1. Arrived(d, m)
          BY <3>3, <4>1 DEF Arrived
        <5>2. ItsTurn(d)
          BY <5>1 DEF Underway
        <5>3. ~(round[c] < round[d])
          BY <1>3, <5>2 DEF ItsTurn
        <5>4. round[d] <= round[c]
          BY <4>0, <5>3
        <5>5. d = c => m <= s
          BY <1>1, <1>3, <5>1 DEF Feeding
        <5>6. ~(s + h <= s)
          BY <1>1, <2>2
        <5> QED
          BY <5>4, <5>5, <5>6
      <4>2. CASE \E g \in 1 .. k : j = L + g /\ Received'[j] = Text[c][s + g]
        <5>1. PICK g \in 1 .. k : j = L + g /\ Received'[j] = Text[c][s + g]
          BY <4>2
        <5>2. s + g \in DOMAIN Text[c]
          BY <1>1, <5>1
        <5>3. d = c /\ m = s + g
          BY <3>3, <5>1, <5>2 DEF Undisturbed, Distinct
        <5>4. s + g # s + h
          BY <1>1, <2>2, <3>3, <5>1
        <5> QED
          BY <4>0, <5>3, <5>4
      <4> QED
        BY <1>2, <1>7, <4>0, <4>1, <4>2
    <3>4. PICK i \in Nat, n \in DOMAIN Text[c] : i = L + h /\ n = s + h
      BY <1>1, <2>2, <3>1
    <3>5. Follows(i, c, n)'
      BY <3>1, <3>2, <3>3, <3>4 DEF Follows
    <3> QED
      BY <3>4, <3>5
  <2>3. ASSUME NEW i \in Nat, 1 <= i, i <= L + k
        PROVE  \E d \in Call : \E n \in DOMAIN Text[d] : Follows(i, d, n)'
    <3>1. CASE i <= L
      <4>1. i \in 1 .. L
        BY <1>1, <2>3, <3>1
      <4> QED
        BY <2>1, <4>1
    <3>2. CASE i > L
      <4>1. PICK h \in Nat : h = i - L /\ 1 <= h /\ h <= k /\ L + h = i
        <5>1. i - L \in Nat /\ 1 <= i - L /\ i - L <= k /\ L + (i - L) = i
          BY <1>1, <2>3, <3>2
        <5> QED
          BY <5>1
      <4> QED
        BY <2>2, <4>1
    <3> QED
      BY <1>1, <2>3, <3>1, <3>2
  <2>4. \A i \in DOMAIN Received' : i \in Nat /\ 1 <= i /\ i <= L + k
    BY <1>1, <1>2
  <2> QED
    BY <2>3, <2>4
<1>11. \A d \in Call : \A n \in DOMAIN Text[d] : Arrived(d, n)' => ItsTurn(d)'
  BY <1>3, <1>5, <1>8 DEF Underway
<1>12. ASSUME NEW d \in Call, pc'[d] \notin Over PROVE Feeding(d)'
  <2>1. CASE d = c
    <3>1. l = "poll" /\ todo' = [todo EXCEPT ![c] = SubSeq(@, Len(Chunk(c)) + 1, Len(@))]
      BY <1>4, <1>12, <2>1 DEF Over
    <3>2. todo'[c] = SubSeq(todo[c], Len(Chunk(c)) + 1, Len(todo[c]))
      BY <3>1 DEF TypeOK
    <3>3. PICK a \in Nat, b \in Nat : /\ a = Len(Text[c]) /\ b = Len(todo[c])
                                      /\ k <= b /\ Len(todo'[c]) = b - k /\ s = a - b
      BY <1>1, <3>2, TextType, ChunkType, KeyboardAssumption DEF Sent
    <3>4. Sent(c)' = s + k
      BY <1>1, <3>3 DEF Sent
    <3>5. Len(todo'[c]) <= Len(Text[c])
      BY <1>1, <3>3
    <3>6. ASSUME NEW n \in Nat, 1 <= n, n <= b - k PROVE todo'[c][n] = Text[c][s + k + n]
      <4>1. n \in 1 .. b - k /\ k + n \in 1 .. b
        BY <1>1, <3>3, <3>6
      <4>2. todo'[c][n] = todo[c][k + n]
        BY <1>1, <3>2, <3>3, <4>1, ChunkIsHead
      <4>3. todo[c][k + n] = Text[c][Sent(c) + (k + n)]
        BY <1>3, <3>3, <4>1 DEF Feeding
      <4>4. Sent(c) + (k + n) = s + k + n
        BY <1>1, <3>6
      <4> QED
        BY <4>2, <4>3, <4>4
    <3>7. \A n \in DOMAIN Text[c] : Arrived(c, n)' <=> n <= s + k
      <4>1. \A n \in DOMAIN Text[c] : n \in Nat
        BY TextType
      <4>2. \A n \in DOMAIN Text[c] : Arrived(c, n) <=> n <= s
        BY <1>1, <1>3 DEF Feeding
      <4>3. \A n \in Nat : n <= s + k <=> n <= s \/ n \in s + 1 .. s + k
        BY <1>1
      <4> QED
        BY <1>8, <4>1, <4>2, <4>3
    <3>8. ASSUME s + k > 0
          PROVE  Len(Received') > 0 /\ Received'[Len(Received')] = Text[c][s + k]
      <4>1. CASE k > 0
        <5>1. k \in 1 .. k /\ L + k > 0
          BY <1>1, <4>1
        <5> QED
          BY <1>1, <5>1
      <4>2. CASE k = 0
        <5>1. L > 0 /\ Received[L] = Text[c][s]
          BY <1>1, <1>3, <3>8, <4>2 DEF Feeding
        <5>2. L \in 1 .. L /\ L + k = L /\ s + k = s
          BY <1>1, <4>2, <5>1
        <5> QED
          BY <1>1, <5>1, <5>2
      <4> QED
        BY <1>1, <4>1, <4>2
    <3>9. \A n \in 1 .. Len(todo'[c]) : n \in Nat /\ 1 <= n /\ n <= b - k
      BY <1>1, <3>3
    <3> QED
      BY <2>1, <3>4, <3>5, <3>6, <3>7, <3>8, <3>9 DEF Feeding
  <2>2. CASE d # c
    <3>1. pc[d] \notin Over /\ Feeding(d) /\ \A n \in DOMAIN Text[d] : ~Arrived(d, n)
      BY <1>4, <1>6, <1>12, <2>2 DEF Underway
    <3>2. todo'[d] = todo[d] /\ Sent(d)' = Sent(d)
      BY <2>2 DEF TypeOK, Sent
    <3>3. PICK a \in Nat, b \in Nat : a = Len(Text[d]) /\ b = Len(todo[d]) /\ b <= a
      BY <3>1, TextType, ChunkType DEF Feeding
    <3>4. \A n \in DOMAIN Text[d] : ~(n <= a - b)
      BY <3>1, <3>3 DEF Feeding, Sent
    <3>5. ~(a - b > 0)
      <4>0. SUFFICES ASSUME a - b > 0 PROVE FALSE
        OBVIOUS
      <4>1. \A x, y \in Nat : x - y > 0 => 1 <= x - y /\ 1 \in 1 .. x
        OBVIOUS
      <4>2. 1 <= a - b /\ 1 \in 1 .. a
        BY <4>0, <4>1
      <4>3. 1 \in DOMAIN Text[d]
        BY <3>3, <4>2, TextType
      <4> QED
        BY <3>4, <4>2, <4>3
    <3>6. ~(Sent(d) > 0)
      BY <3>3, <3>5 DEF Sent
    <3>7. \A n \in DOMAIN Text[d] : Arrived(d, n)' <=> Arrived(d, n)
      BY <1>8, <2>2
    <3> QED
      BY <3>1, <3>2, <3>6, <3>7 DEF Feeding
  <2> QED
    BY <2>1, <2>2
<1>13. ASSUME NEW t \in Typist, pc'[t] = "ok", NEW n \in DOMAIN Text[t] PROVE Arrived(t, n)'
  <2>1. t \in Call /\ t \notin Presser
    BY KeyboardAssumption DEF Call
  <2>2. t # c
    BY <1>4, <1>13, <2>1
  <2>3. Arrived(t, n)
    BY <1>4, <1>13, <2>1, <2>2 DEF Underway
  <2> QED
    BY <1>8, <2>1, <2>3
<1> QED
  BY <1>9, <1>10, <1>11, <1>12, <1>13 DEF Underway

\* A step of feed.
LEMMA FeedUnderway ==
  ASSUME TypeOK, TypeOK', Undisturbed, Underway, round' = round,
         NEW c \in Call, ItsTurn(c), Feed(c)
  PROVE  Underway'
<1>1. /\ round \in [Call -> Nat] /\ pc \in [Call -> Place]
      /\ pc[c] \in {"poll", "fill", "count"} /\ pc[c] \notin Over
      /\ FeedError(c) \in Over /\ (FeedError(c) = "ok" => c \in Presser)
      /\ (c \in Typist => c \notin Presser)
  BY KeyboardAssumption
  DEF TypeOK, Place, Feed, PollEmpty, PollFails, FeedEnds, Fill, Count, Over, FeedError
<1>2. CASE PollEmpty(c)
  <2>1. /\ todo' = todo /\ Received' = Received /\ ndx' = 0 /\ Goto(c, "fill")
    BY <1>2 DEF PollEmpty, c64Vars, Received, Queue
  <2> QED
    BY <1>1, <2>1, UnderwayKept DEF Place
<1>3. CASE PollFails(c)
  <2>1. /\ todo' = todo /\ Received' = Received /\ Goto(c, FeedError(c))
    BY <1>3 DEF PollFails, c64Vars, Received, Queue
  <2> QED
    BY <1>1, <2>1, UnderwayKept DEF Place, Over
<1>4. CASE FeedEnds(c)
  <2>1. /\ todo' = todo /\ Received' = Received /\ Goto(c, "ok") /\ todo[c] = <<>>
    BY <1>4 DEF FeedEnds, c64Vars, Received, Queue
  <2>2. Feeding(c) /\ Len(todo[c]) = 0
    BY <1>1, <2>1, EmptySeq DEF Underway
  <2>3. \A n \in DOMAIN Text[c] : Arrived(c, n)
    BY <2>2, TextType DEF Feeding, Sent
  <2> QED
    BY <1>1, <2>1, <2>3, UnderwayKept DEF Place
<1>5. CASE Fill(c)
  <2>1. PICK ok, obeyed \in BOOLEAN :
          /\ ok => obeyed
          /\ cells' = IF obeyed
                      THEN [i \in DOMAIN cells |->
                              IF i <= Len(Chunk(c)) THEN Chunk(c)[i] ELSE cells[i]]
                      ELSE cells
          /\ Goto(c, IF ok THEN "count" ELSE FeedError(c))
    BY <1>5 DEF Fill, Outcome
  <2>2. ndx = 0 /\ ndx' = 0 /\ consumed' = consumed /\ todo' = todo
    BY <1>5 DEF Fill, Underway, Writing
  <2>3. Received' = Received
    BY <2>2, SameReceived
  <2>4. CASE ok
    <3>1. DOMAIN cells = 1 .. BufMax
      BY DEF TypeOK
    <3>2. \A i \in 1 .. Len(Chunk(c)) : i \in 1 .. BufMax /\ i <= Len(Chunk(c))
      BY ChunkType, KeyboardAssumption
    <3>3. \A i \in 1 .. Len(Chunk(c)) : cells'[i] = Chunk(c)[i]
      BY <2>1, <2>4, <3>1, <3>2
    <3> QED
      BY <1>1, <2>1, <2>2, <2>3, <2>4, <3>3, UnderwayKept DEF Place
  <2>5. CASE ~ok
    BY <1>1, <2>1, <2>2, <2>3, <2>5, UnderwayKept DEF Place, Over
  <2> QED
    BY <2>4, <2>5
<1>6. CASE Count(c)
  <2>0. pc[c] = "count" /\ ndx = 0 /\ UNCHANGED <<cells, consumed>>
    BY <1>6 DEF Count, Underway, Writing
  <2>1. PICK ok, obeyed \in BOOLEAN :
          /\ ok => obeyed
          /\ ndx' = IF obeyed THEN Len(Chunk(c)) ELSE ndx
          /\ todo' = IF ok
                     THEN [todo EXCEPT ![c] = SubSeq(@, Len(Chunk(c)) + 1, Len(@))]
                     ELSE todo
          /\ Goto(c, IF ok THEN "poll" ELSE FeedError(c))
    BY <1>6 DEF Count, Outcome
  <2>2. CASE ok
    BY <2>0, <2>1, <2>2, UnderwayGrows
  <2>3. CASE ~ok /\ obeyed
    <3>1. Goto(c, FeedError(c)) /\ ndx' = Len(Chunk(c)) /\ todo' = todo
      BY <2>1, <2>3
    <3>2. FeedError(c) \in {"poll", "ok", "error"}
      BY <1>1 DEF Over
    <3>3. FeedError(c) = "error" \/ c \in Presser
      BY <1>1 DEF Over
    <3> QED
      BY <1>1, <2>0, <3>1, <3>2, <3>3, UnderwayGrows
  <2>4. CASE ~ok /\ ~obeyed
    <3>1. Received' = Received
      BY <2>0, <2>1, <2>4, SameReceived
    <3> QED
      BY <1>1, <2>0, <2>1, <2>4, <3>1, UnderwayKept DEF Place, Over
  <2> QED
    BY <2>2, <2>3, <2>4
<1> QED
  BY <1>2, <1>3, <1>4, <1>5, <1>6 DEF Feed

\* A step of a Press that does not feed.
LEMMA DriveUnderway ==
  ASSUME TypeOK, Undisturbed, Underway, round' = round,
         NEW p \in Presser, ItsTurn(p), Drive(p)
  PROVE  Underway'
<1>1. /\ round \in [Call -> Nat] /\ pc \in [Call -> Place]
      /\ p \in Call /\ p \notin Typist
  BY KeyboardAssumption DEF TypeOK, Place, Call
<1>2. pc[p] \notin Over
  BY DEF Drive, Save, Probe, DriveDDR, DrivePorts, Hold, Restore, Over
<1>3. todo' = todo /\ UNCHANGED <<cells, ndx, consumed>>
  BY DEF Drive, Save, Probe, DriveDDR, DrivePorts, Hold, Restore, c64Vars
<1>4. Received' = Received
  BY <1>3 DEF Received, Queue
<1>5. \E l \in Place \ {"fill", "count"} : Goto(p, l)
  BY DEF Drive, Save, Probe, DriveDDR, DrivePorts, Hold, Restore, Place
<1> QED
  BY <1>1, <1>2, <1>3, <1>4, <1>5, UnderwayKept

\* A step of nobody's, with what programs have received as it was.
LEMMA UnderwayFrame ==
  ASSUME Underway, UNCHANGED <<round, pc, todo>>, Received' = Received,
         \A c \in Call : Writing(c)'
  PROVE  Underway'
<1>1. \A c \in Call : \A n \in DOMAIN Text[c] : Arrived(c, n)' <=> Arrived(c, n)
  BY DEF Arrived
<1>2. \A c \in Call : ItsTurn(c) <=> ItsTurn(c)'
  BY DEF ItsTurn
<1>3. \A i, c, n : Follows(i, c, n) => Follows(i, c, n)'
  BY DEF Follows
<1>4. \A c \in Call : Feeding(c) => Feeding(c)'
  BY <1>1 DEF Feeding, Sent
<1>5. Typist \subseteq Call
  BY DEF Call
<1> QED
  BY <1>1, <1>2, <1>3, <1>4, <1>5 DEF Underway

LEMMA UnderwayInit == Init /\ Undisturbed => Underway
<1> SUFFICES ASSUME Init, Undisturbed PROVE Underway
  OBVIOUS
<1>1. Len(Received) = 0 /\ DOMAIN Received = {}
  <2>1. Len(consumed) = 0 /\ ndx = 0
    BY EmptySeq DEF Init
  <2>2. TypeOK
    BY InitType
  <2>3. Len(Received) = 0 + 0 /\ DOMAIN Received = 1 .. Len(Received)
    BY <2>1, <2>2, ReceivedShape
  <2> QED
    BY <2>3
<1>2. \A c \in Call : Writing(c) /\ pc[c] # "ok"
  BY DEF Init, Writing
<1>3. \A c \in Call : \A n \in DOMAIN Text[c] : ~Arrived(c, n)
  BY <1>1 DEF Arrived
<1>4. ASSUME NEW c \in Call PROVE Feeding(c)
  <2>1. todo[c] = Text[c]
    BY DEF Init
  <2>2. PICK a \in Nat : a = Len(Text[c]) /\ DOMAIN Text[c] = 1 .. a
    BY TextType
  <2>3. Sent(c) = 0
    BY <2>1, <2>2 DEF Sent
  <2>4. \A n \in 1 .. a : 0 + n = n /\ ~(n <= 0)
    BY <2>2
  <2> QED
    BY <1>3, <2>1, <2>2, <2>3, <2>4 DEF Feeding
<1>5. Typist \subseteq Call
  BY DEF Call
<1> QED
  BY <1>1, <1>2, <1>3, <1>4, <1>5 DEF Underway

\* A step of a call is one whose turn it is.
LEMMA TurnCases ==
  ASSUME Next, Alone
  PROVE  /\ round' = round
         /\ \/ \E c \in Call : ItsTurn(c) /\ Feed(c)
            \/ \E p \in Presser : ItsTurn(p) /\ Drive(p)
            \/ GetIn \/ UserPresses \/ SwitchIRQ
            \/ \E c \in Call : Cancel(c)
<1>1. \A c \in Call : Turn(c) => ItsTurn(c)
  BY DEF Turn, ItsTurn, Alone, Over
<1>2. CASE \E c \in Call : CallStep(c)
  <2>1. PICK c \in Call : CallStep(c)
    BY <1>2
  <2>2. ItsTurn(c)
    BY <1>1, <2>1 DEF CallStep
  <2>3. Feed(c) \/ (c \in Presser /\ Drive(c))
    BY <2>1 DEF CallStep, Press, Drive
  <2> QED
    BY <2>2, <2>3 DEF Next
<1> QED
  BY <1>2 DEF Next

LEMMA UnderwayStep ==
  TypeOK /\ TypeOK' /\ (Undisturbed => Underway) /\ [Next]_vars => (Undisturbed => Underway)'
<1> SUFFICES ASSUME TypeOK, TypeOK', Undisturbed => Underway, [Next]_vars, Undisturbed'
             PROVE  Underway'
  OBVIOUS
<1>1. CASE UNCHANGED <<round, keys, pc, todo, cells, ndx, consumed>>
  <2>1. Undisturbed
    BY <1>1 DEF Undisturbed, Alone, Distinct
  <2>2. Received' = Received
    BY <1>1 DEF Received, Queue
  <2>3. \A c \in Call : Writing(c)'
    BY <1>1, <2>1 DEF Underway, Writing, ItsTurn, Chunk
  <2> QED
    BY <1>1, <2>1, <2>2, <2>3, UnderwayFrame
<1>2. CASE Next
  <2>1. round' = round /\ keys \in Nat
    BY <1>2, StepCases, KeyboardAssumption DEF TypeOK
  <2>2. Alone /\ Distinct
    BY <2>1 DEF Undisturbed, Alone, Distinct
  <2>3. keys' = 0
    BY DEF Undisturbed
  <2>4. ~UserPresses
    BY <2>1, <2>3 DEF UserPresses
  <2>5. keys' = keys
    BY <1>2, <2>4, StepCases
    DEF Feed, PollEmpty, PollFails, FeedEnds, Fill, Count, Drive, Save, Probe, DriveDDR,
        DrivePorts, Hold, Restore, GetIn, SwitchIRQ, Cancel, c64Vars
  <2>6. Undisturbed /\ Underway
    BY <2>2, <2>3, <2>5 DEF Undisturbed
  <2>7. CASE \E c \in Call : ItsTurn(c) /\ Feed(c)
    BY <2>1, <2>6, <2>7, FeedUnderway
  <2>8. CASE \E p \in Presser : ItsTurn(p) /\ Drive(p)
    BY <2>1, <2>6, <2>8, DriveUnderway
  <2>9. CASE GetIn
    <3>1. UNCHANGED <<round, pc, todo>> /\ ndx # 0
      BY <2>1, <2>9, ReceivedShape DEF GetIn
    <3>2. Received' = Received
      BY <2>9, GetInReceived
    <3>3. \A c \in Call : Writing(c)'
      BY <2>6, <3>1 DEF Underway, Writing
    <3> QED
      BY <2>6, <3>1, <3>2, <3>3, UnderwayFrame
  <2>10. CASE SwitchIRQ \/ \E c \in Call : Cancel(c)
    <3>1. UNCHANGED <<round, keys, pc, todo, cells, ndx, consumed>>
      BY <2>1, <2>10 DEF SwitchIRQ, Cancel, c64Vars
    <3> QED
      BY <1>1, <3>1
  <2> QED
    BY <1>2, <2>2, <2>4, <2>7, <2>8, <2>9, <2>10, TurnCases
<1> QED
  BY <1>1, <1>2 DEF vars

\* Type promises that the C64 receives what is typed (keyboard.go, feed, lines 147-175):
\* calls made one after the other, with nobody at its keyboard and texts one can tell
\* apart, every character programs receive is the next of its text, right behind the one
\* before it and behind nothing of a later call, whichever request fails after it was
\* obeyed, whenever a context ends and however slowly the KERNAL empties the buffer; and
\* a Type that returned nil has had all of its text received.
THEOREM TextsArrive == Spec => []Delivered
<1>1. Init => (Undisturbed => Underway)
  BY UnderwayInit
<1>2. TypeOK /\ TypeOK' /\ (Undisturbed => Underway) /\ [Next]_vars => (Undisturbed => Underway)'
  BY UnderwayStep
<1>3. (Undisturbed => Underway) => Delivered
  BY DEF Delivered, Undisturbed, Underway, Arrived
<1> QED
  BY <1>1, <1>2, <1>3, TypeCorrect, PTL DEF Spec

=============================================================================
