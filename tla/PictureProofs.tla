---------------------------- MODULE PictureProofs ----------------------------
(***************************************************************************)
(* Proofs about the pictures a caller gets: VideoFrames, for every number  *)
(* of packets per picture and of pictures, whichever packets are lost, and *)
(* DebugView, for everything that can be drawn in the memory of the C64.   *)
(***************************************************************************)
EXTENDS VideoFrames, DebugView, FiniteSetTheorems, SequenceTheorems, WellFoundedInduction, TLAPS

(* What a picture of the video stream shows.                               *)

Strip == 1 .. Strips
Picture == 1 .. MaxPictures

\* The pictures whose last packet arrived, and those of them before another.
Ended == {n \in Picture : <<n, Strips>> \in arrived}
Earlier(n) == {e \in Ended : e < n}

\* What can be in strip s of picture n, of the packets A, when those of E have been handed
\* on before.
Candidates(A, n, s, E) == {Black} \union {m \in 1 .. n : <<m, s>> \in A /\ \A e \in E : m > e}
Newest(v, S) == v \in S /\ \A o \in S : o <= v

Typed ==
  /\ sending \in (1 .. MaxPictures + 1) \X Strip
  /\ currentFrame \in [Strip -> Nat]
  /\ frames \in Seq([Strip -> Nat])
  /\ arrived \subseteq Picture \X Strip

\* Only packets that have been sent arrive, so every picture that ended is an earlier one.
Sent == \A p \in arrived : p[1] <= sending[1] /\ (p[1] = sending[1] => p[2] < sending[2])

\* The buffer holds what came since the last picture was handed on; each picture what
\* had come since the one before.
Buffer == \A s \in Strip : Newest(currentFrame[s], Candidates(arrived, sending[1], s, Ended))

HandedOn ==
  /\ Len(frames) = Cardinality(Ended)
  /\ \A n \in Ended, s \in Strip :
       Newest(frames[Cardinality(Earlier(n)) + 1][s], Candidates(arrived, n, s, Earlier(n)))

Fresh == Typed /\ Sent /\ Buffer /\ HandedOn

-----------------------------------------------------------------------------

LEMMA Sizes == Strips \in Nat \ {0} /\ MaxPictures \in Nat
BY FramesAssumption

\* There is one newest element.
LEMMA OneNewest ==
  ASSUME NEW S, S \subseteq Nat, NEW v \in Nat, Newest(v, S)
  PROVE  (CHOOSE m \in S : \A o \in S : o <= m) = v
<1>1. \A m \in S : (\A o \in S : o <= m) => m = v
  BY DEF Newest
<1>2. \E m \in S : \A o \in S : o <= m
  BY DEF Newest
<1> QED
  BY <1>1, <1>2

LEMMA EndedBefore ==
  ASSUME Typed, Sent
  PROVE  /\ \A e \in Ended : e < sending[1]
         /\ IsFiniteSet(Ended) /\ Cardinality(Ended) \in Nat
         /\ \A n \in Ended : /\ IsFiniteSet(Earlier(n)) /\ Cardinality(Earlier(n)) \in Nat
                             /\ Cardinality(Earlier(n)) + 1 \in 1 .. Cardinality(Ended)
<1>1. ASSUME NEW e \in Ended PROVE e < sending[1]
  <2>1. PICK n, s : sending = <<n, s>> /\ n \in Nat /\ s \in 1 .. Strips
    BY Sizes DEF Typed, Strip
  <2>2. PICK p \in arrived : p = <<e, Strips>> /\ e \in Nat
    BY Sizes DEF Ended, Picture
  <2>3. e <= n /\ (e = n => Strips < s)
    BY <2>1, <2>2 DEF Sent
  <2> QED
    BY <2>1, <2>2, <2>3, Sizes
<1>2. IsFiniteSet(Ended)
  <2>1. IsFiniteSet(Picture)
    BY Sizes, FS_Interval DEF Picture
  <2> QED
    BY <2>1, FS_Subset DEF Ended
<1>3. ASSUME NEW n \in Ended
      PROVE  /\ IsFiniteSet(Earlier(n)) /\ Cardinality(Earlier(n)) \in Nat
             /\ Cardinality(Earlier(n)) + 1 \in 1 .. Cardinality(Ended)
  <2>1. Earlier(n) \subseteq Ended /\ n \notin Earlier(n) /\ n \in Ended
    <3>1. n \in Nat
      BY Sizes DEF Ended, Picture
    <3> QED
      BY <3>1 DEF Earlier
  <2>2. IsFiniteSet(Earlier(n)) /\ Cardinality(Earlier(n)) \in Nat /\ Cardinality(Ended) \in Nat
    BY <1>2, <2>1, FS_Subset, FS_CardinalityType
  <2>3. Cardinality(Earlier(n)) < Cardinality(Ended)
    BY <1>2, <2>1, <2>2, FS_Subset
  <2> QED
    BY <2>2, <2>3
<1> QED
  BY <1>1, <1>2, <1>3, FS_CardinalityType

LEMMA FreshInit == FramesInit => Fresh
<1> SUFFICES ASSUME FramesInit PROVE Fresh
  OBVIOUS
<1>1. sending = <<1, 1>> /\ arrived = {} /\ frames = <<>> /\ currentFrame = [s \in Strip |-> 0]
  BY DEF FramesInit, Cleared, Strip, Black
<1>2. Typed
  <2>1. sending \in (1 .. MaxPictures + 1) \X Strip
    BY <1>1, Sizes DEF Strip
  <2>2. frames \in Seq([Strip -> Nat])
    BY <1>1
  <2> QED
    BY <1>1, <2>1, <2>2 DEF Typed
<1>3. Sent /\ Ended = {}
  BY <1>1 DEF Sent, Ended
<1>4. Buffer
  <2>1. \A s \in Strip : Candidates(arrived, sending[1], s, Ended) = {0}
    BY <1>1 DEF Candidates, Black
  <2> QED
    BY <1>1, <2>1 DEF Buffer, Newest
<1>5. HandedOn
  BY <1>1, <1>3, FS_EmptySet DEF HandedOn
<1> QED
  BY <1>2, <1>3, <1>4, <1>5 DEF Fresh

LEMMA Advances ==
  ASSUME Typed, Advance
  PROVE  \E n \in Picture, s \in Strip :
           /\ sending = <<n, s>>
           /\ s # Strips => sending' = <<n, s + 1>> /\ s + 1 \in Strip
           /\ s = Strips => sending' = <<n + 1, 1>> /\ 1 \in Strip
<1>1. PICK n, s : sending = <<n, s>> /\ n \in 1 .. MaxPictures + 1 /\ s \in Strip
  BY DEF Typed
<1>2. n \in Picture
  BY <1>1, Sizes DEF Advance, Picture
<1>3. s # Strips => sending' = <<n, s + 1>> /\ s + 1 \in Strip
  BY <1>1, Sizes DEF Advance, Strip
<1>4. s = Strips => sending' = <<n + 1, 1>> /\ 1 \in Strip
  BY <1>1, Sizes DEF Advance, Strip
<1> QED
  BY <1>1, <1>2, <1>3, <1>4

\* A packet that has not been sent has not arrived.
LEMMA NotYet ==
  ASSUME Typed, Sent, NEW n \in Picture, NEW s \in Strip, sending = <<n, s>>
  PROVE  /\ \A m \in Nat, t \in Strip : m > n => <<m, t>> \notin arrived
         /\ \A t \in Strip : t >= s => <<n, t>> \notin arrived
<1>1. \A m, t : <<m, t>> \in arrived => m <= n /\ (m = n => t < s)
  BY DEF Sent
<1> QED
  BY <1>1, Sizes DEF Picture, Strip

LEMMA LoseFresh ==
  ASSUME Fresh, LosePacket
  PROVE  Fresh'
<1>0. Typed /\ Sent /\ Buffer /\ HandedOn
  BY DEF Fresh
<1>1. UNCHANGED <<currentFrame, frames, arrived>> /\ Advance
  BY DEF LosePacket
<1>2. PICK n \in Picture, s \in Strip :
        /\ sending = <<n, s>>
        /\ s # Strips => sending' = <<n, s + 1>> /\ s + 1 \in Strip
        /\ s = Strips => sending' = <<n + 1, 1>> /\ 1 \in Strip
  BY <1>0, <1>1, Advances
<1>3. Typed'
  <2>1. sending' \in (1 .. MaxPictures + 1) \X Strip
    BY <1>2, Sizes DEF Picture
  <2> QED
    BY <1>0, <1>1, <2>1 DEF Typed
<1>4. Sent'
  <2> SUFFICES ASSUME NEW p \in arrived
               PROVE  p[1] <= sending'[1] /\ (p[1] = sending'[1] => p[2] < sending'[2])
    BY <1>1 DEF Sent
  <2>1. p[1] \in Nat /\ p[2] \in Nat /\ p[1] <= n /\ (p[1] = n => p[2] < s)
    BY <1>0, <1>2, Sizes, SMTT(30) DEF Typed, Sent, Picture, Strip
  <2> QED
    BY <1>2, <2>1, Sizes DEF Picture, Strip
<1>5. Ended' = Ended /\ \A m : Earlier(m)' = Earlier(m)
  BY <1>1 DEF Ended, Earlier
<1>6. ASSUME NEW t \in Strip
      PROVE  Candidates(arrived, sending'[1], t, Ended) = Candidates(arrived, n, t, Ended)
  <2>1. \A m \in 1 .. n + 1 : m \in 1 .. n \/ <<m, t>> \notin arrived
    BY <1>0, <1>2, NotYet DEF Picture
  <2>2. CASE s # Strips
    BY <1>2, <2>2
  <2>3. CASE s = Strips
    <3>1. sending'[1] = n + 1
      BY <1>2, <2>3
    <3>2. \A m : m \in 1 .. n => m \in 1 .. n + 1
      BY DEF Picture
    <3>3. {m \in 1 .. n + 1 : <<m, t>> \in arrived /\ \A e \in Ended : m > e}
            = {m \in 1 .. n : <<m, t>> \in arrived /\ \A e \in Ended : m > e}
      BY <2>1, <3>2
    <3> QED
      BY <3>1, <3>3 DEF Candidates
  <2> QED
    BY <2>2, <2>3
<1>7. Buffer'
  <2>1. \A t \in Strip : Candidates(arrived, sending[1], t, Ended)' = Candidates(arrived, sending'[1], t, Ended)
    BY <1>1, <1>5 DEF Candidates
  <2> QED
    BY <1>0, <1>1, <1>2, <1>6, <2>1 DEF Buffer
<1>8. HandedOn'
  <2>1. \A m, t, E : Candidates(arrived, m, t, E)' = Candidates(arrived, m, t, E)
    BY <1>1 DEF Candidates
  <2> QED
    BY <1>0, <1>1, <1>5, <2>1 DEF HandedOn
<1> QED
  BY <1>3, <1>4, <1>7, <1>8 DEF Fresh


\* A packet is painted over what was in its strip.
Repainted(A, n) ==
  /\ Painted \in [Strip -> Nat]
  /\ \A t \in Strip : Newest(Painted[t], Candidates(A, n, t, Ended))
  /\ \A e \in Ended, t \in Strip :
       Candidates(A, e, t, Earlier(e)) = Candidates(arrived, e, t, Earlier(e))

LEMMA PaintedNewest ==
  ASSUME Fresh, NEW n \in Picture, NEW s \in Strip, sending = <<n, s>>,
         NEW A, A = arrived \union {<<n, s>>}
  PROVE  Repainted(A, n)
<1>0. Typed /\ Sent /\ Buffer /\ n \in Nat \ {0}
  BY Sizes DEF Fresh, Picture
<1>1. /\ Painted \in [Strip -> Nat] /\ Painted[s] = n
      /\ \A t \in Strip \ {s} : Painted[t] = currentFrame[t]
  BY <1>0 DEF Painted, Typed
<1>2. \A e \in Ended : e < n /\ e \in Nat
  BY <1>0, EndedBefore, Sizes DEF Ended, Picture
<1>3. Newest(n, Candidates(A, n, s, Ended))
  <2>1. n \in Candidates(A, n, s, Ended)
    BY <1>0, <1>2 DEF Candidates
  <2>2. \A o \in Candidates(A, n, s, Ended) : o <= n
    BY <1>0 DEF Candidates, Black
  <2> QED
    BY <2>1, <2>2 DEF Newest
<1>4. ASSUME NEW t \in Strip \ {s} PROVE Newest(currentFrame[t], Candidates(A, n, t, Ended))
  <2>1. \A m : <<m, t>> \in A <=> <<m, t>> \in arrived
    OBVIOUS
  <2>2. Candidates(A, n, t, Ended) = Candidates(arrived, n, t, Ended)
    BY <2>1 DEF Candidates
  <2> QED
    BY <1>0, <2>2 DEF Buffer
<1>5. ASSUME NEW e \in Ended, NEW t \in Strip
      PROVE  Candidates(A, e, t, Earlier(e)) = Candidates(arrived, e, t, Earlier(e))
  <2>1. \A m \in 1 .. e : m # n
    BY <1>0, <1>2
  <2>2. \A m \in 1 .. e : <<m, t>> \in A <=> <<m, t>> \in arrived
    BY <2>1
  <2> QED
    BY <2>2 DEF Candidates
<1> QED
  <2>1. ASSUME NEW t \in Strip PROVE Newest(Painted[t], Candidates(A, n, t, Ended))
    <3>1. CASE t = s
      BY <1>1, <1>3, <3>1
    <3>2. CASE t # s
      <4>1. t \in Strip \ {s}
        BY <3>2
      <4> QED
        BY <1>1, <1>4, <4>1
    <3> QED
      BY <3>1, <3>2
  <2> QED
    BY <1>1, <1>5, <2>1 DEF Repainted

LEMMA PaintFresh ==
  ASSUME Fresh, Paint
  PROVE  Fresh'
<1>0. Typed /\ Sent /\ Buffer /\ HandedOn
  BY DEF Fresh
<1>1. PICK n \in Picture, s \in Strip :
        /\ sending = <<n, s>>
        /\ s # Strips => sending' = <<n, s + 1>> /\ s + 1 \in Strip
        /\ s = Strips => sending' = <<n + 1, 1>> /\ 1 \in Strip
  BY <1>0, Advances DEF Paint
<1>2. PICK A : A = arrived \union {<<n, s>>} /\ arrived' = A
  BY <1>1 DEF Paint
<1>3. /\ Painted \in [Strip -> Nat]
      /\ \A t \in Strip : Newest(Painted[t], Candidates(A, n, t, Ended))
      /\ \A e \in Ended, t \in Strip :
           Candidates(A, e, t, Earlier(e)) = Candidates(arrived, e, t, Earlier(e))
  <2>1. Fresh /\ sending = <<n, s>> /\ A = arrived \union {<<n, s>>}
    BY <1>1, <1>2
  <2>2. Repainted(A, n)
    BY <2>1, PaintedNewest
  <2> QED
    BY <2>2 DEF Repainted
<1>4. \A e \in Ended : e < n /\ e \in Nat
  BY <1>0, <1>1, EndedBefore, Sizes DEF Ended, Picture
<1>5. sending' \in (1 .. MaxPictures + 1) \X Strip /\ A \subseteq Picture \X Strip
  BY <1>0, <1>1, <1>2, Sizes DEF Picture, Typed
<1>6. Sent'
  <2> SUFFICES ASSUME NEW p \in A
               PROVE  p[1] <= sending'[1] /\ (p[1] = sending'[1] => p[2] < sending'[2])
    BY <1>2 DEF Sent
  <2>1. CASE p = <<n, s>>
    BY <1>1, <2>1, Sizes DEF Picture, Strip
  <2>2. CASE p \in arrived
    <3>1. p[1] \in Nat /\ p[2] \in Nat /\ p[1] <= n /\ (p[1] = n => p[2] < s)
      BY <1>0, <1>1, <2>2, Sizes, SMTT(30) DEF Typed, Sent, Picture, Strip
    <3> QED
      BY <1>1, <3>1, Sizes DEF Picture, Strip
  <2> QED
    BY <1>2, <2>1, <2>2
<1>7. CASE s # Strips
  <2>1. frames' = frames /\ currentFrame' = Painted /\ sending' = <<n, s + 1>>
    BY <1>1, <1>7 DEF Paint
  <2>2. Ended' = Ended /\ \A m : Earlier(m)' = Earlier(m)
    BY <1>2, <1>7 DEF Ended, Earlier
  <2>3. Typed'
    BY <1>0, <1>2, <1>3, <1>5, <2>1 DEF Typed
  <2>4. Buffer'
    BY <1>2, <1>3, <2>1, <2>2 DEF Buffer
  <2>5. HandedOn'
    BY <1>0, <1>2, <1>3, <2>1, <2>2 DEF HandedOn
  <2> QED
    BY <1>6, <2>3, <2>4, <2>5 DEF Fresh
<1>8. CASE s = Strips
  <2>1. /\ frames' = Append(frames, Painted) /\ currentFrame' = [t \in Strip |-> 0]
        /\ sending' = <<n + 1, 1>>
    BY <1>1, <1>8 DEF Paint, Cleared, Strip, Black
  <2>2. Ended' = Ended \union {n} /\ n \notin Ended
    BY <1>2, <1>4, <1>8 DEF Ended
  <2>3. Earlier(n)' = Ended /\ \A e \in Ended : Earlier(e)' = Earlier(e)
    <3>1. n \in Nat
      BY Sizes DEF Picture
    <3> QED
      BY <1>4, <2>2, <3>1 DEF Earlier
  <2>4. PICK l : l = Len(frames) /\ l = Cardinality(Ended) /\ l \in Nat
    BY <1>0, EndedBefore DEF HandedOn
  <2>5. Cardinality(Ended') = l + 1
    BY <1>0, <2>2, <2>4, EndedBefore, FS_AddElement
  <2>6. /\ frames' \in Seq([Strip -> Nat]) /\ Len(frames') = l + 1
        /\ frames'[l + 1] = Painted
        /\ \A i \in 1 .. l : frames'[i] = frames[i]
    <3>1. frames \in Seq([Strip -> Nat]) /\ Painted \in [Strip -> Nat]
      BY <1>0, <1>3 DEF Typed
    <3>2. PICK S, w, x : /\ S = [Strip -> Nat] /\ w = frames /\ x = Painted
                         /\ w \in Seq(S) /\ x \in S
      BY <3>1
    <3>3. /\ Append(w, x) \in Seq(S) /\ Len(Append(w, x)) = Len(w) + 1
          /\ \A i \in 1 .. Len(w) : Append(w, x)[i] = w[i]
          /\ Append(w, x)[Len(w) + 1] = x
      BY <3>2, AppendProperties
    <3> QED
      BY <2>1, <2>4, <3>2, <3>3
  <2>7. Typed'
    BY <1>2, <1>5, <2>1, <2>6 DEF Typed
  <2>8. Buffer'
    <3> SUFFICES ASSUME NEW t \in Strip
                 PROVE  Newest(0, Candidates(A, n + 1, t, Ended \union {n}))
      BY <1>2, <2>1, <2>2 DEF Buffer
    <3>1. \A m \in 1 .. n + 1 : <<m, t>> \in A => ~(m > n)
      <4>1. n \in Nat
        BY Sizes DEF Picture
      <4>2. \A m \in 1 .. n + 1 : m > n => <<m, t>> \notin arrived
        BY <1>0, <1>1, <4>1, NotYet
      <4> QED
        BY <1>2, <4>1, <4>2
    <3>2. Candidates(A, n + 1, t, Ended \union {n}) = {0}
      BY <3>1 DEF Candidates, Black
    <3> QED
      BY <3>2 DEF Newest
  <2>9. HandedOn'
    <3>1. ASSUME NEW e \in Ended, NEW t \in Strip
          PROVE  Newest(frames'[Cardinality(Earlier(e)) + 1][t], Candidates(A, e, t, Earlier(e)))
      <4>1. PICK k \in 1 .. l : k = Cardinality(Earlier(e)) + 1
        BY <1>0, <2>4, EndedBefore
      <4>2. frames'[k] = frames[k]
        BY <2>6
      <4>3. Newest(frames[k][t], Candidates(arrived, e, t, Earlier(e)))
        BY <1>0, <4>1 DEF HandedOn
      <4> QED
        BY <1>3, <4>1, <4>2, <4>3
    <3>2. ASSUME NEW t \in Strip
          PROVE  Newest(frames'[Cardinality(Ended) + 1][t], Candidates(A, n, t, Ended))
      BY <1>3, <2>4, <2>6
    <3> QED
      BY <1>2, <2>2, <2>3, <2>5, <2>6, <3>1, <3>2 DEF HandedOn
  <2> QED
    BY <1>6, <2>7, <2>8, <2>9 DEF Fresh
<1> QED
  BY <1>7, <1>8

\* Whichever packets are lost, of pictures of any number of packets: Video (streams.go)
\* hands on a picture for every last packet that arrives, and each shows in every line the
\* newest one that has arrived for it since the picture before, and black where none has.
THEOREM FramesAreFresh == FramesSpec => []FramesFresh
<1>1. FramesInit => Fresh
  BY FreshInit
<1>2. Fresh /\ [FramesNext]_frameVars => Fresh'
  <2> SUFFICES ASSUME Fresh, [FramesNext]_frameVars PROVE Fresh'
    OBVIOUS
  <2>1. CASE UNCHANGED frameVars
    BY <2>1 DEF frameVars, Fresh, Typed, Sent, Buffer, HandedOn, Ended, Earlier
  <2> QED
    BY <2>1, LoseFresh, PaintFresh DEF FramesNext
<1>3. Fresh => FramesFresh
  <2> SUFFICES ASSUME Fresh
               PROVE  /\ Len(frames) = Cardinality(Ended)
                      /\ \A n \in Ended, s \in Strip :
                           frames[Cardinality(Earlier(n)) + 1][s]
                             = CHOOSE m \in Candidates(arrived, n, s, Earlier(n)) :
                                 \A o \in Candidates(arrived, n, s, Earlier(n)) : o <= m
    BY DEF FramesFresh, Candidates, Ended, Earlier, Picture, Strip
  <2>1. Typed /\ Sent /\ HandedOn
    BY DEF Fresh
  <2>2. ASSUME NEW n \in Ended, NEW s \in Strip
        PROVE  frames[Cardinality(Earlier(n)) + 1][s]
                 = CHOOSE m \in Candidates(arrived, n, s, Earlier(n)) :
                     \A o \in Candidates(arrived, n, s, Earlier(n)) : o <= m
    <3>1. PICK k \in 1 .. Len(frames) : k = Cardinality(Earlier(n)) + 1
      BY <2>1, EndedBefore DEF HandedOn
    <3>2. frames[k] \in [Strip -> Nat]
      BY <2>1, <3>1, ElementOfSeq DEF Typed
    <3>3. frames[k][s] \in Nat
      BY <3>2
    <3>4. Candidates(arrived, n, s, Earlier(n)) \subseteq Nat
      BY DEF Candidates, Black
    <3>5. Newest(frames[k][s], Candidates(arrived, n, s, Earlier(n)))
      BY <2>1, <3>1 DEF HandedOn
    <3> QED
      BY <3>1, <3>3, <3>4, <3>5, OneNewest
  <2> QED
    BY <2>1, <2>2 DEF HandedOn
<1> QED
  BY <1>1, <1>2, <1>3, PTL DEF FramesSpec

-----------------------------------------------------------------------------
(* What the debug service shows: arithmetic of bits and bytes.            *)

-----------------------------------------------------------------------------
(* Bits.                                                                   *)

\* Products of numbers.
LEMMA Times ==
  /\ \A a, b \in Int : a * b \in Int
  /\ \A a, b \in Nat : a * b \in Nat
  /\ \A a, b \in Int : a * b = b * a
  /\ \A a, b, c \in Int : a * (b + c) = a * b + a * c
  /\ \A a, b, c \in Int : a * (b * c) = (a * b) * c
  /\ \A a, b, n \in Nat : a <= b => n * a <= n * b
<1>1. \A a, b \in Int : a * b \in Int
  OBVIOUS
<1>2. \A a, b \in Nat : a * b \in Nat
  OBVIOUS
<1>3. \A a, b \in Int : a * b = b * a
  OBVIOUS
<1>4. \A a, b, c \in Int : a * (b + c) = a * b + a * c
  OBVIOUS
<1>5. \A a, b, c \in Int : a * (b * c) = (a * b) * c
  OBVIOUS
<1>6. \A a, b, n \in Nat : a <= b => n * a <= n * b
  OBVIOUS
<1> QED
  BY <1>1, <1>2, <1>3, <1>4, <1>5, <1>6

\* Quotient and rest give the number back.
LEMMA Divided ==
  ASSUME NEW a \in Nat, NEW n \in Nat, n > 0
  PROVE  a \div n \in Nat /\ a % n \in 0 .. n - 1 /\ a = n * (a \div n) + (a % n)
<1>1. a \div n \in Nat
  OBVIOUS
<1>2. a % n \in 0 .. n - 1
  OBVIOUS
<1>3. a = n * (a \div n) + (a % n)
  OBVIOUS
<1> QED
  BY <1>1, <1>2, <1>3

\* There is one quotient with a rest below the divisor.
LEMMA Unique ==
  ASSUME NEW n \in Nat, NEW q \in Nat, NEW r \in 0 .. n - 1
  PROVE  (n * q + r) % n = r /\ (n * q + r) \div n = q
<1>1. \E a \in Nat : a = n * q + r
  BY Times
<1>2. PICK a \in Nat : a = n * q + r
  BY <1>1
<1>3. n > 0
  OBVIOUS
<1>4. PICK p \in Nat, s \in 0 .. n - 1 : p = a \div n /\ s = a % n /\ a = n * p + s
  BY <1>3, Divided
<1>5. p = q
  <2>1. CASE p < q
    <3>1. n * (p + 1) <= n * q
      BY <2>1, Times, p + 1 <= q
    <3>2. n * (p + 1) = n * p + n
      OBVIOUS
    <3> QED
      BY <3>1, <3>2, <1>2, <1>4, Times
  <2>2. CASE q < p
    <3>1. n * (q + 1) <= n * p
      BY <2>2, Times, q + 1 <= p
    <3>2. n * (q + 1) = n * q + n
      OBVIOUS
    <3> QED
      BY <3>1, <3>2, <1>2, <1>4, Times
  <2> QED
    BY <2>1, <2>2
<1>6. r = s
  BY <1>2, <1>4, <1>5, Times
<1> QED
  BY <1>2, <1>4, <1>5, <1>6

\* Dividing twice is dividing by the product.
LEMMA TwoSteps ==
  ASSUME NEW w \in Nat, NEW n \in Nat, n > 0, NEW a \in Nat, NEW rest \in Nat, rest < w
  PROVE  (w * a + rest) \div (w * n) = a \div n
<1>1. PICK q \in Nat, r \in 0 .. n - 1 : q = a \div n /\ a = n * q + r
  BY Divided
<1>2. w * r + rest \in 0 .. w * n - 1 /\ w * n \in Nat
  <2>1. PICK k \in Nat : n = r + 1 + k
    <3>1. n - r - 1 \in Nat /\ n = r + 1 + (n - r - 1)
      OBVIOUS
    <3> QED
      BY <3>1
  <2>2. w * n = w * r + w + w * k
    BY <2>1
  <2>3. w * k \in Nat /\ w * r \in Nat
    BY Times
  <2> QED
    BY <2>2, <2>3
<1>3. w * a + rest = (w * n) * q + (w * r + rest)
  BY <1>1
<1> QED
  BY <1>1, <1>2, <1>3, Unique

\* Division of a multiple leaves no rest.
LEMMA Exact ==
  ASSUME NEW n \in Nat, n > 0, NEW c \in Nat, NEW a \in Nat
  PROVE  (n * c + a) \div n = c + (a \div n)
<1>1. PICK q \in Nat, r \in 0 .. n - 1 : q = a \div n /\ a = n * q + r
  BY Divided
<1>2. n * c + a = n * (c + q) + r
  BY <1>1
<1>3. c + q \in Nat
  OBVIOUS
<1> QED
  BY <1>1, <1>2, <1>3, Unique

\* A byte has the bits of the dots it is made of, one by one and in pairs.
LEMMA ByteBits ==
  ASSUME NEW d \in [1 .. 8 -> {0, 1}]
  PROVE  /\ Byte(d) \in 0 .. 255
         /\ \A j \in 0 .. 7 : Bit(Byte(d), 7 - j) <=> d[j + 1] = 1
<1>1. d[1] \in {0, 1} /\ d[2] \in {0, 1} /\ d[3] \in {0, 1} /\ d[4] \in {0, 1}
      /\ d[5] \in {0, 1} /\ d[6] \in {0, 1} /\ d[7] \in {0, 1} /\ d[8] \in {0, 1}
  OBVIOUS
<1>2. Byte(d) \in 0 .. 255
  BY <1>1 DEF Byte
<1>3. ASSUME NEW j \in 0 .. 7 PROVE Bit(Byte(d), 7 - j) <=> d[j + 1] = 1
  <2>1. CASE j = 0
    BY <1>1, <2>1 DEF Byte, Bit
  <2>2. CASE j = 1
    BY <1>1, <2>2 DEF Byte, Bit
  <2>3. CASE j = 2
    BY <1>1, <2>3 DEF Byte, Bit
  <2>4. CASE j = 3
    BY <1>1, <2>4 DEF Byte, Bit
  <2>5. CASE j = 4
    BY <1>1, <2>5 DEF Byte, Bit
  <2>6. CASE j = 5
    BY <1>1, <2>6 DEF Byte, Bit
  <2>7. CASE j = 6
    BY <1>1, <2>7 DEF Byte, Bit
  <2>8. CASE j = 7
    BY <1>1, <2>8 DEF Byte, Bit
  <2> QED
    BY <2>1, <2>2, <2>3, <2>4, <2>5, <2>6, <2>7, <2>8
<1> QED
  BY <1>2, <1>3

\* The same of the four double dots of a multicolor byte.
LEMMA BytePairs ==
  ASSUME NEW d \in [1 .. 8 -> {0, 1}], NEW j \in 0 .. 7
  PROVE  Low(Byte(d) \div 2 ^ ((6 - j) + (j % 2)), 2) = 2 * d[2 * (j \div 2) + 1] + d[2 * (j \div 2) + 2]
<1>1. d[1] \in {0, 1} /\ d[2] \in {0, 1} /\ d[3] \in {0, 1} /\ d[4] \in {0, 1}
      /\ d[5] \in {0, 1} /\ d[6] \in {0, 1} /\ d[7] \in {0, 1} /\ d[8] \in {0, 1}
  OBVIOUS
<1> DEFINE p == 2 * d[1] + d[2]
           q == 2 * d[3] + d[4]
           r == 2 * d[5] + d[6]
           s == 2 * d[7] + d[8]
<1>2. p \in 0 .. 3 /\ q \in 0 .. 3 /\ r \in 0 .. 3 /\ s \in 0 .. 3
  BY <1>1
<1>3. Byte(d) = 64 * p + 16 * q + 4 * r + s
  BY <1>1 DEF Byte
<1>4. CASE j \in {0, 1}
  <2>1. (6 - j) + (j % 2) = 6 /\ 2 * (j \div 2) + 1 = 1 /\ 2 * (j \div 2) + 2 = 2
    BY <1>4
  <2>2. Low(Byte(d) \div 2 ^ 6, 2) = p
    <3> HIDE DEF p, q, r, s
    <3> QED
      BY <1>2, <1>3 DEF Low
  <2> QED
    BY <2>1, <2>2
<1>5. CASE j \in {2, 3}
  <2>1. (6 - j) + (j % 2) = 4 /\ 2 * (j \div 2) + 1 = 3 /\ 2 * (j \div 2) + 2 = 4
    BY <1>5
  <2>2. Low(Byte(d) \div 2 ^ 4, 2) = q
    <3> HIDE DEF p, q, r, s
    <3> QED
      BY <1>2, <1>3 DEF Low
  <2> QED
    BY <2>1, <2>2
<1>6. CASE j \in {4, 5}
  <2>1. (6 - j) + (j % 2) = 2 /\ 2 * (j \div 2) + 1 = 5 /\ 2 * (j \div 2) + 2 = 6
    BY <1>6
  <2>2. Low(Byte(d) \div 2 ^ 2, 2) = r
    <3> HIDE DEF p, q, r, s
    <3> QED
      BY <1>2, <1>3 DEF Low
  <2> QED
    BY <2>1, <2>2
<1>7. CASE j \in {6, 7}
  <2>1. (6 - j) + (j % 2) = 0 /\ 2 * (j \div 2) + 1 = 7 /\ 2 * (j \div 2) + 2 = 8
    BY <1>7
  <2>2. Low(Byte(d) \div 2 ^ 0, 2) = s
    <3> HIDE DEF p, q, r, s
    <3> QED
      BY <1>2, <1>3 DEF Low
  <2> QED
    BY <2>1, <2>2
<1> QED
  BY <1>4, <1>5, <1>6, <1>7

\* The lower bits of a number do not see what is a multiple of 256.
LEMMA LowerBits ==
  ASSUME NEW c \in Nat, NEW a \in Nat, NEW v \in Nat, v = 256 * c + a
  PROVE  /\ \A n \in {1, 2, 4, 8, 16, 32, 64, 128} : (v \div n) % 2 = (a \div n) % 2
         /\ \A n \in {1, 4, 16, 64} : (v \div n) % 4 = (a \div n) % 4
<1>1. ASSUME NEW n \in {1, 2, 4, 8, 16, 32, 64, 128}
      PROVE  \E k \in Nat : v \div n = 2 * k + (a \div n)
  <2>1. PICK m \in Nat : 256 = n * (2 * m)
    <3>1. 128 \div n \in Nat /\ 256 = n * (2 * (128 \div n))
      OBVIOUS
    <3> QED
      BY <3>1
  <2>2. n * (2 * (m * c)) = 256 * c /\ m * c \in Nat /\ 2 * (m * c) \in Nat
    BY <2>1
  <2>3. (n * (2 * (m * c)) + a) \div n = 2 * (m * c) + (a \div n)
    BY <2>2, Exact
  <2> QED
    BY <2>2, <2>3
<1>2. ASSUME NEW n \in {1, 4, 16, 64}
      PROVE  \E k \in Nat : v \div n = 4 * k + (a \div n)
  <2>1. PICK m \in Nat : 256 = n * (4 * m)
    <3>1. 64 \div n \in Nat /\ 256 = n * (4 * (64 \div n))
      OBVIOUS
    <3> QED
      BY <3>1
  <2>2. n * (4 * (m * c)) = 256 * c /\ m * c \in Nat /\ 4 * (m * c) \in Nat
    BY <2>1
  <2>3. (n * (4 * (m * c)) + a) \div n = 4 * (m * c) + (a \div n)
    BY <2>2, Exact
  <2> QED
    BY <2>2, <2>3
<1>3. ASSUME NEW k \in Nat, NEW w \in Nat PROVE (2 * k + w) % 2 = w % 2 /\ (4 * k + w) % 4 = w % 4
  OBVIOUS
<1>4. \A n \in {1, 2, 4, 8, 16, 32, 64, 128} : a \div n \in Nat
  OBVIOUS
<1> QED
  BY <1>1, <1>2, <1>3, <1>4

\* The remainder modulo w of what is left when v is divided by n.
Field(v, n, w) == (v \div n) % w

Powers == {1, 2, 4, 8, 16, 32, 64, 128}
Fours == {1, 4, 16, 64}

\* Three bytes in a row are the bytes again, when the bits of the row are looked at.
Row(a, b, c) == 65536 * a + 256 * b + c
Of(a, b, c, x) == IF x < 8 THEN a ELSE IF x < 16 THEN b ELSE c

\* The bits of a row of a sprite, as Image shifts them out, are those of one of its bytes.
LEMMA RowBytes ==
  ASSUME NEW a \in Octet, NEW b \in Octet, NEW c \in Octet
  PROVE  /\ \A n \in Powers : /\ Field(Row(a, b, c), 65536 * n, 2) = Field(a, n, 2)
                              /\ Field(Row(a, b, c), 256 * n, 2) = Field(b, n, 2)
                              /\ Field(Row(a, b, c), n, 2) = Field(c, n, 2)
         /\ \A n \in Fours : /\ Field(Row(a, b, c), 65536 * n, 4) = Field(a, n, 4)
                                      /\ Field(Row(a, b, c), 256 * n, 4) = Field(b, n, 4)
                                      /\ Field(Row(a, b, c), n, 4) = Field(c, n, 4)
<1> DEFINE r == Row(a, b, c)
<1>1. a \in Nat /\ b \in Nat /\ c \in Nat /\ b < 256 /\ c < 256
  BY DEF Octet
<1>2. PICK u \in Nat : u = 256 * a + b
  BY <1>1, SMT
<1>3. r \in Nat /\ r = 256 * u + c
  BY <1>1, <1>2, SMT DEF Row
<1>4. PICK w \in Nat : w = 256 * b + c /\ w < 65536
  BY <1>1, SMT
<1>5. r = 65536 * a + w
  BY <1>1, <1>4, SMT DEF Row
<1> HIDE DEF r
<1>6. ASSUME NEW n \in Powers
      PROVE  r \div (65536 * n) = a \div n /\ r \div (256 * n) = u \div n
  <2>1. n \in Nat /\ n > 0
    BY DEF Powers, Fours
  <2>2. r \div (65536 * n) = a \div n
    BY <1>1, <1>4, <1>5, <2>1, TwoSteps, SMT
  <2>3. r \div (256 * n) = u \div n
    BY <1>1, <1>3, <2>1, TwoSteps, SMT
  <2> QED
    BY <2>2, <2>3
<1>7. /\ \A n \in Powers : (u \div n) % 2 = (b \div n) % 2
      /\ \A n \in Fours : (u \div n) % 4 = (b \div n) % 4
  BY <1>1, <1>2, LowerBits, SMT DEF Powers, Fours
<1>8. /\ \A n \in Powers : (r \div n) % 2 = (c \div n) % 2
      /\ \A n \in Fours : (r \div n) % 4 = (c \div n) % 4
  <2>1. c \in Nat
    BY <1>1
  <2> QED
    BY <1>3, <2>1, LowerBits, SMT DEF Powers, Fours
<1>9. Fours \subseteq Powers
  BY DEF Powers, Fours
<1>10. \A n \in Powers : /\ (r \div (65536 * n)) % 2 = (a \div n) % 2
                         /\ (r \div (256 * n)) % 2 = (b \div n) % 2
                         /\ (r \div n) % 2 = (c \div n) % 2
  BY ONLY <1>6, <1>7, <1>8
<1>11. \A n \in Fours : /\ (r \div (65536 * n)) % 4 = (a \div n) % 4
                    /\ (r \div (256 * n)) % 4 = (b \div n) % 4
                    /\ (r \div n) % 4 = (c \div n) % 4
  BY ONLY <1>6, <1>7, <1>8, <1>9
<1> QED
  BY ONLY <1>10, <1>11, SMT DEF r, Field

\* Powers of two.
Pow(i) == 2 ^ i

\* The powers of two that the decoders shift by.
LEMMA Shifts ==
  /\ \A j \in 0 .. 7 : Pow(j) \in Powers /\ Pow(8 + j) = 256 * Pow(j) /\ Pow(16 + j) = 65536 * Pow(j)
  /\ \A j \in {0, 2, 4, 6} : Pow(j) \in Fours
<1>1. ASSUME NEW j \in 0 .. 7
      PROVE  Pow(j) \in Powers /\ Pow(8 + j) = 256 * Pow(j) /\ Pow(16 + j) = 65536 * Pow(j)
  <2>1. CASE j = 0
    BY <2>1, SMT DEF Powers, Pow
  <2>2. CASE j = 1
    BY <2>2, SMT DEF Powers, Pow
  <2>3. CASE j = 2
    BY <2>3, SMT DEF Powers, Pow
  <2>4. CASE j = 3
    BY <2>4, SMT DEF Powers, Pow
  <2>5. CASE j = 4
    BY <2>5, SMT DEF Powers, Pow
  <2>6. CASE j = 5
    BY <2>6, SMT DEF Powers, Pow
  <2>7. CASE j = 6
    BY <2>7, SMT DEF Powers, Pow
  <2>8. CASE j = 7
    BY <2>8, SMT DEF Powers, Pow
  <2> QED
    BY <2>1, <2>2, <2>3, <2>4, <2>5, <2>6, <2>7, <2>8, SMT
<1>2. Pow(0) = 1 /\ Pow(2) = 4 /\ Pow(4) = 16 /\ Pow(6) = 64
  BY SMT DEF Pow, Fours
<1> QED
  BY <1>1, <1>2, SMT DEF Fours

\* The dot of a byte at a place, and the double dot; the same of a row of a sprite.
Spot(b, x) == Bit(b, 7 - (x % 8))
Shift(x) == 6 - (x % 8) + (x % 2)
Duo(b, x) == Low(b \div 2 ^ Shift(x), 2)
RowSpot(row, x) == Bit(row, 23 - x)
RowDuo(row, x) == Low(row \div 2 ^ (22 - x + (x % 2)), 2)

\* The dots across a sprite.
Across == 0 .. 23

\* A dot of a row of a sprite, or a double dot, is a dot of one of its three bytes.
LEMMA RowBits ==
  ASSUME NEW a \in Octet, NEW b \in Octet, NEW c \in Octet, NEW x \in Across
  PROVE  /\ RowSpot(Row(a, b, c), x) <=> Spot(Of(a, b, c, x), x)
         /\ RowDuo(Row(a, b, c), x) = Duo(Of(a, b, c, x), x)
<1>0. x \in 0 .. 23
  BY DEF Across
<1>1. PICK j \in 0 .. 7, k \in {0, 2, 4, 6} : j = 7 - (x % 8) /\ k = Shift(x)
  BY <1>0, SMT DEF Shift
<1>2. PICK n \in Powers, p \in Fours : n = Pow(j) /\ p = Pow(k)
  BY Shifts, SMT
<1>3. /\ Field(Row(a, b, c), 65536 * n, 2) = Field(a, n, 2)
      /\ Field(Row(a, b, c), 256 * n, 2) = Field(b, n, 2)
      /\ Field(Row(a, b, c), n, 2) = Field(c, n, 2)
      /\ Field(Row(a, b, c), 65536 * p, 4) = Field(a, p, 4)
      /\ Field(Row(a, b, c), 256 * p, 4) = Field(b, p, 4)
      /\ Field(Row(a, b, c), p, 4) = Field(c, p, 4)
  <2>1. \A z \in Powers : /\ Field(Row(a, b, c), 65536 * z, 2) = Field(a, z, 2)
                          /\ Field(Row(a, b, c), 256 * z, 2) = Field(b, z, 2)
                          /\ Field(Row(a, b, c), z, 2) = Field(c, z, 2)
    BY RowBytes, SMT
  <2>2. \A z \in Fours : /\ Field(Row(a, b, c), 65536 * z, 4) = Field(a, z, 4)
                         /\ Field(Row(a, b, c), 256 * z, 4) = Field(b, z, 4)
                         /\ Field(Row(a, b, c), z, 4) = Field(c, z, 4)
    BY RowBytes, SMT
  <2> QED
    BY <1>2, <2>1, <2>2, SMT
<1>4. Pow(8 + j) = 256 * n /\ Pow(16 + j) = 65536 * n /\ Pow(8 + k) = 256 * p /\ Pow(16 + k) = 65536 * p
  <2>1. k \in 0 .. 7
    OBVIOUS
  <2> QED
    BY <1>2, <2>1, Shifts, SMT
<1>5. ASSUME NEW v PROVE /\ RowSpot(v, x) <=> Field(v, Pow(23 - x), 2) = 1
                         /\ RowDuo(v, x) = Field(v, Pow(22 - x + (x % 2)), 4)
                         /\ Spot(v, x) <=> Field(v, Pow(j), 2) = 1
                         /\ Duo(v, x) = Field(v, Pow(k), 4)
  <2>1. \A i : (Bit(v, i) <=> Field(v, Pow(i), 2) = 1) /\ Low(v \div 2 ^ i, 2) = Field(v, Pow(i), 4)
    BY SMT DEF Bit, Low, Field, Pow
  <2> QED
    BY <1>1, <2>1 DEF RowSpot, RowDuo, Spot, Duo
<1>6. CASE x < 8
  <2>1. 23 - x = 16 + j /\ 22 - x + (x % 2) = 16 + k
    BY <1>0, <1>1, <1>6, SMT DEF Shift
  <2>2. Of(a, b, c, x) = a
    BY <1>6 DEF Of
  <2> QED
    BY <1>1, <1>2, <1>3, <1>4, <1>5, <2>1, <2>2, SMT
<1>7. CASE x >= 8 /\ x < 16
  <2>1. 23 - x = 8 + j /\ 22 - x + (x % 2) = 8 + k
    BY <1>0, <1>1, <1>7, SMT DEF Shift
  <2>2. Of(a, b, c, x) = b
    BY <1>0, <1>7 DEF Of
  <2> QED
    BY <1>1, <1>2, <1>3, <1>4, <1>5, <2>1, <2>2, SMT
<1>8. CASE x >= 16
  <2>1. 23 - x = j /\ 22 - x + (x % 2) = k
    BY <1>0, <1>1, <1>8, SMT DEF Shift
  <2>2. Of(a, b, c, x) = c
    BY <1>0, <1>8 DEF Of
  <2> QED
    BY <1>1, <1>2, <1>3, <1>4, <1>5, <2>1, <2>2, SMT
<1> QED
  BY <1>0, <1>6, <1>7, <1>8, SMT

-----------------------------------------------------------------------------
(* Functions defined by recursion.                                         *)

\* Induction, stated for a set of numbers.
LEMMA Induction ==
  ASSUME NEW S, 0 \in S, \A n \in Nat : n \in S => n + 1 \in S
  PROVE  Nat \subseteq S
<1> SUFFICES ASSUME {n \in Nat : n \notin S} # {} PROVE FALSE
  OBVIOUS
<1> DEFINE T == {n \in Nat : n \notin S}
           R == {ss \in Nat \X Nat : ss[1] < ss[2]}
<1>1. IsWellFoundedOn(R, Nat)
  BY NatLessThanWellFounded DEF OpToRel
<1>2. T \subseteq Nat /\ T # {}
  OBVIOUS
<1>3. PICK z \in T : \A k \in T : ~ (<<k, z>> \in R)
  <2> HIDE DEF R, T
  <2> QED
    BY <1>1, <1>2, WFMin
<1>4. z \in Nat \ {0}
  OBVIOUS
<1>5. z - 1 \in Nat /\ <<z - 1, z>> \in R /\ (z - 1) + 1 = z
  BY <1>4
<1>6. z - 1 \in S
  BY <1>3, <1>5
<1> QED
  BY <1>4, <1>5, <1>6

Recursive(T, base, grow, n, g) ==
  g \in [0 .. n -> T] /\ g[0] = base /\ \A i \in 1 .. n : g[i] = grow[<<i, g[i - 1]>>]

\* A function can be defined on the numbers up to n from its value at the one before.
LEMMA Recursion ==
  ASSUME NEW T, NEW base \in T, NEW grow \in [Nat \X T -> T]
  PROVE  \A n \in Nat : \E g : Recursive(T, base, grow, n, g)
<1> SUFFICES ASSUME NEW n \in Nat
             PROVE  \E g : Recursive(T, base, grow, n, g)
  OBVIOUS
<1> DEFINE Is(g, m) == g \in [0 .. m -> T] /\ g[0] = base /\ \A i \in 1 .. m : g[i] = grow[<<i, g[i - 1]>>]
           S == {m \in Nat : \E g : Is(g, m)}
<1>1. 0 \in S
  <2>1. Is([i \in 0 .. 0 |-> base], 0)
    OBVIOUS
  <2> HIDE DEF Is
  <2> QED
    BY <2>1
<1>2. ASSUME NEW m \in Nat, m \in S PROVE m + 1 \in S
  <2> HIDE DEF Is
  <2>1. PICK g : Is(g, m)
    BY <1>2
  <2> USE DEF Is
  <2>2. g \in [0 .. m -> T] /\ g[0] = base /\ \A i \in 1 .. m : g[i] = grow[<<i, g[i - 1]>>]
    BY <2>1
  <2> DEFINE new == grow[<<m + 1, g[m]>>]
             h == [i \in 0 .. m + 1 |-> IF i = m + 1 THEN new ELSE g[i]]
  <2>3. new \in T
    BY <2>2
  <2>4. h \in [0 .. m + 1 -> T]
    <3> HIDE DEF new
    <3>1. \A i \in 0 .. m + 1 : i # m + 1 => g[i] \in T
      BY <2>2
    <3> QED
      BY <2>3, <3>1
  <2>5. h[m + 1] = new /\ \A i \in 0 .. m : h[i] = g[i]
    OBVIOUS
  <2> HIDE DEF h
  <2>6. ASSUME NEW i \in 1 .. m + 1 PROVE h[i] = grow[<<i, h[i - 1]>>]
    <3>1. CASE i = m + 1
      <4>1. i - 1 = m /\ m \in 0 .. m
        BY <3>1
      <4> QED
        BY <2>5, <3>1, <4>1
    <3>2. CASE i # m + 1
      <4>1. i \in 1 .. m /\ i \in 0 .. m /\ i - 1 \in 0 .. m
        BY <3>2
      <4> QED
        BY <2>2, <2>5, <4>1
    <3> QED
      BY <3>1, <3>2
  <2>7. Is(h, m + 1)
    <3>1. 0 \in 0 .. m
      OBVIOUS
    <3> HIDE DEF new
    <3> QED
      BY <2>2, <2>4, <2>5, <2>6, <3>1
  <2> HIDE DEF Is
  <2> QED
    BY <2>7
<1>3. n \in S
  <2> HIDE DEF S
  <2> QED
    BY <1>1, <1>2, Induction
<1> QED
  BY <1>3 DEF Recursive

-----------------------------------------------------------------------------
(* The program in memory.                                                  *)

Lines(w) == Len(BASICProgram(w))

\* Two sequences of numbers in a row.
LEMMA Joined ==
  ASSUME NEW s \in Seq(Nat), NEW t \in Seq(Nat)
  PROVE  /\ s \o t \in Seq(Nat) /\ Len(s) \in Nat /\ Len(t) \in Nat /\ Len(s \o t) = Len(s) + Len(t)
         /\ \A i \in 1 .. Len(s) : (s \o t)[i] = s[i]
         /\ \A i \in 1 .. Len(t) : (s \o t)[Len(s) + i] = t[i]
<1>1. Len(s) \in Nat /\ Len(t) \in Nat
  OBVIOUS
<1>2. /\ s \o t \in Seq(Nat) /\ Len(s \o t) = Len(s) + Len(t)
      /\ \A i \in 1 .. Len(s) + Len(t) : (s \o t)[i] = IF i <= Len(s) THEN s[i] ELSE t[i - Len(s)]
  BY ConcatProperties
<1>3. \A i \in 1 .. Len(s) : i \in 1 .. Len(s) + Len(t) /\ i <= Len(s)
  BY <1>1, SMT
<1>4. \A i \in 1 .. Len(t) : Len(s) + i \in 1 .. Len(s) + Len(t) /\ ~(Len(s) + i <= Len(s)) /\ Len(s) + i - Len(s) = i
  BY <1>1, SMT
<1>5. \A i \in 1 .. Len(s) : (s \o t)[i] = s[i]
  BY <1>2, <1>3
<1>6. \A i \in 1 .. Len(t) : (s \o t)[Len(s) + i] = t[i]
  BY <1>2, <1>4
<1> QED
  BY <1>1, <1>2, <1>5, <1>6

\* Addresses are numbers.
LEMMA Addresses == \A u \in Address : u \in Nat
<1> DEFINE top == 65535
<1>1. top \in Nat
  OBVIOUS
<1>2. Address = 0 .. top
  BY DEF Address
<1> HIDE DEF top
<1> QED
  BY <1>1, <1>2

\* A line takes five bytes and its text, and all of them are bytes.
LEMMA LineBytesType ==
  ASSUME NEW l \in ProgramLine, NEW at \in Nat
  PROVE  /\ LineBytes(l, at) \in Seq(Nat)
         /\ Len(LineBytes(l, at)) = Len(l.text) + 5
         /\ Word(LineBytes(l, at)[1], LineBytes(l, at)[2]) = at + Len(l.text) + 5
         /\ Word(LineBytes(l, at)[3], LineBytes(l, at)[4]) = l.number
         /\ \A i \in 1 .. Len(l.text) : LineBytes(l, at)[i + 4] = l.text[i][2]
         /\ LineBytes(l, at)[Len(l.text) + 5] = 0
<1> DEFINE next == at + Len(l.text) + 5
           head == <<Low(next, 8), next \div 256, Low(l.number, 8), l.number \div 256>>
           text == Bytes(l.text)
           end == << 0 >>
<1>a. l.number \in Address /\ l.text \in Seq(Atoms)
  BY SMT DEF ProgramLine
<1>1. l.number \in Nat /\ l.text \in Seq(Atoms) /\ Len(l.text) \in Nat
  <2>1. \A u \in Address : u \in Nat
    BY Addresses
  <2>2. \A s \in Seq(Atoms) : Len(s) \in Nat
    BY SMT
  <2> QED
    BY <1>a, <2>1, <2>2
<1>2. next \in Nat
  BY <1>1, SMT
<1> HIDE DEF next
<1>3. /\ Low(next, 8) \in Nat /\ next \div 256 \in Nat
      /\ Low(l.number, 8) \in Nat /\ l.number \div 256 \in Nat
      /\ Low(next, 8) + 256 * (next \div 256) = next
      /\ Low(l.number, 8) + 256 * (l.number \div 256) = l.number
  <2>1. ASSUME NEW u \in Nat
        PROVE  Low(u, 8) \in Nat /\ u \div 256 \in Nat /\ Low(u, 8) + 256 * (u \div 256) = u
    <3>1. Low(u, 8) = u % 256
      BY SMT DEF Low
    <3>2. u \div 256 \in Nat /\ u % 256 \in 0 .. 256 - 1 /\ u = 256 * (u \div 256) + (u % 256)
      BY Divided, SMT
    <3> QED
      BY <3>1, <3>2, SMT
  <2> QED
    BY <1>1, <1>2, <2>1, ZenonT(60)
<1>4. /\ head \in Seq(Nat) /\ Len(head) = 4
      /\ head[1] + 256 * head[2] = next /\ head[3] + 256 * head[4] = l.number
  BY <1>3, SMT
<1>5. text \in Seq(Nat) /\ Len(text) = Len(l.text) /\ \A i \in 1 .. Len(l.text) : text[i] = l.text[i][2]
  <2>1. \A i \in 1 .. Len(l.text) : l.text[i] \in Atoms
    BY <1>1
  <2>2. \A v \in Atoms : v[2] \in Nat
    BY SMT DEF Atoms
  <2>3. \A i \in 1 .. Len(l.text) : l.text[i][2] \in Nat
    BY <2>1, <2>2
  <2>4. DOMAIN l.text = 1 .. Len(l.text)
    BY <1>1, SMT
  <2> QED
    BY <1>1, <2>3, <2>4, SMT DEF Bytes
<1>6. end \in Seq(Nat) /\ Len(end) = 1 /\ end[1] = 0
  OBVIOUS
<1>7. LineBytes(l, at) = (head \o text) \o end
  BY DEF LineBytes, next
<1> HIDE DEF head, text, end, next
<1>8. PICK n \in Nat : n = Len(l.text)
  BY <1>1
<1> DEFINE both == head \o text
<1>9. /\ both \in Seq(Nat) /\ Len(both) = 4 + n
      /\ \A i \in 1 .. 4 : both[i] = head[i]
      /\ \A i \in 1 .. n : both[4 + i] = text[i]
  <2>1. /\ both \in Seq(Nat) /\ Len(both) = Len(head) + Len(text)
        /\ \A i \in 1 .. Len(head) : both[i] = head[i]
        /\ \A i \in 1 .. Len(text) : both[Len(head) + i] = text[i]
    BY <1>4, <1>5, Joined
  <2> HIDE DEF both
  <2> QED
    BY <1>4, <1>5, <1>8, <2>1
<1> HIDE DEF both
<1>10. /\ LineBytes(l, at) \in Seq(Nat) /\ Len(LineBytes(l, at)) = 4 + n + 1
       /\ \A i \in 1 .. 4 + n : LineBytes(l, at)[i] = both[i]
       /\ LineBytes(l, at)[4 + n + 1] = 0
  <2> DEFINE all == both \o end
  <2>1. LineBytes(l, at) = all
    BY <1>7 DEF both
  <2>2. /\ all \in Seq(Nat) /\ Len(all) = Len(both) + Len(end)
        /\ \A i \in 1 .. Len(both) : all[i] = both[i]
        /\ \A i \in 1 .. Len(end) : all[Len(both) + i] = end[i]
    BY <1>6, <1>9, Joined
  <2> HIDE DEF all
  <2>3. 1 \in 1 .. 1
    OBVIOUS
  <2> QED
    BY <1>6, <1>9, <2>1, <2>2, <2>3
<1>11. /\ \A i \in 1 .. 4 : i \in 1 .. 4 + n
       /\ \A i \in 1 .. n : 4 + i \in 1 .. 4 + n /\ i + 4 = 4 + i
       /\ 4 + n + 1 = n + 5
  BY <1>8, SMT
<1>12. 1 \in 1 .. 4 /\ 2 \in 1 .. 4 /\ 3 \in 1 .. 4 /\ 4 \in 1 .. 4
  BY SMT
<1>13. \A i \in 1 .. 4 : LineBytes(l, at)[i] = head[i]
  BY <1>9, <1>10, <1>11
<1>14. \A i \in 1 .. n : LineBytes(l, at)[i + 4] = l.text[i][2]
  BY <1>5, <1>8, <1>9, <1>10, <1>11
<1>15. next = at + n + 5
  BY <1>8 DEF next
<1> QED
  <2>1. LineBytes(l, at)[1] = head[1] /\ LineBytes(l, at)[2] = head[2] /\ LineBytes(l, at)[3] = head[3] /\ LineBytes(l, at)[4] = head[4]
    BY <1>12, <1>13
  <2>2. Word(LineBytes(l, at)[1], LineBytes(l, at)[2]) = at + Len(l.text) + 5
    BY <1>4, <1>8, <1>15, <2>1, SMT DEF Word
  <2>3. Word(LineBytes(l, at)[3], LineBytes(l, at)[4]) = l.number
    BY <1>4, <2>1, SMT DEF Word
  <2>4. Len(LineBytes(l, at)) = Len(l.text) + 5 /\ LineBytes(l, at)[Len(l.text) + 5] = 0
    BY <1>8, <1>10, <1>11
  <2>5. \A i \in 1 .. Len(l.text) : LineBytes(l, at)[i + 4] = l.text[i][2]
    BY <1>8, <1>14
  <2> QED
    BY <1>10, <2>2, <2>3, <2>4, <2>5, Zenon

\* The program in memory grows line by line from nothing: what ProgramLines defines exists.
LEMMA ProgramIs ==
  ASSUME NEW w \in Drawing
  PROVE  /\ ProgramLines(w)[0] = <<>>
         /\ \A n \in 0 .. Lines(w) : ProgramLines(w)[n] \in Seq(Nat)
         /\ \A n \in 1 .. Lines(w) :
              ProgramLines(w)[n] = ProgramLines(w)[n - 1] \o LineBytes(BASICProgram(w)[n], ProgramStart + Len(ProgramLines(w)[n - 1]))
<1> DEFINE T == Seq(Nat)
           grow == [z \in Nat \X T |-> IF z[1] \in 1 .. Lines(w)
                                       THEN z[2] \o LineBytes(BASICProgram(w)[z[1]], ProgramStart + Len(z[2])) ELSE z[2]]
           Body(g, n) == IF n = 0 THEN <<>> ELSE g[n - 1] \o LineBytes(BASICProgram(w)[n], ProgramStart + Len(g[n - 1]))
           Is(g) == g = [n \in 0 .. Lines(w) |-> Body(g, n)]
<1>0. ProgramStart \in Nat
  BY SMT DEF ProgramStart
<1>1. Lines(w) \in Nat /\ \A n \in 1 .. Lines(w) : BASICProgram(w)[n] \in ProgramLine
  <2>1. BASICProgram(w) \in Seq(ProgramLine)
    BY ViewAssumption DEF Drawable
  <2> QED
    BY <2>1, SMT DEF Lines
<1>2. \A n \in 1 .. Lines(w), s \in T : s \o LineBytes(BASICProgram(w)[n], ProgramStart + Len(s)) \in T
  <2> SUFFICES ASSUME NEW n \in 1 .. Lines(w), NEW s \in T PROVE s \o LineBytes(BASICProgram(w)[n], ProgramStart + Len(s)) \in T
    OBVIOUS
  <2>1. LineBytes(BASICProgram(w)[n], ProgramStart + Len(s)) \in Seq(Nat)
    <3>1. ProgramStart + Len(s) \in Nat
      BY <1>0
    <3> QED
      BY <1>1, <3>1, LineBytesType
  <2> QED
    BY <2>1, ConcatProperties
<1>3. grow \in [Nat \X T -> T]
  <2>1. ASSUME NEW z \in Nat \X T
        PROVE  (IF z[1] \in 1 .. Lines(w)
                THEN z[2] \o LineBytes(BASICProgram(w)[z[1]], ProgramStart + Len(z[2])) ELSE z[2]) \in T
    <3>1. z[1] \in Nat /\ z[2] \in T
      OBVIOUS
    <3> HIDE DEF T
    <3> QED
      BY <1>2, <3>1
  <2> HIDE DEF T
  <2> QED
    BY <2>1
<1>4. \A n \in 1 .. Lines(w) : \A s \in T :
        grow[<<n, s>>] = s \o LineBytes(BASICProgram(w)[n], ProgramStart + Len(s))
  <2> TAKE n \in 1 .. Lines(w)
  <2> TAKE s \in T
  <2>1. <<n, s>> \in Nat \X T /\ <<n, s>>[1] = n /\ <<n, s>>[2] = s
    BY <1>1
  <2> HIDE DEF T
  <2> QED
    BY <2>1
<1>5. <<>> \in T
  OBVIOUS
<1> HIDE DEF grow, T
<1>6. PICK g : g \in [0 .. Lines(w) -> T] /\ g[0] = <<>> /\ \A i \in 1 .. Lines(w) : g[i] = grow[<<i, g[i - 1]>>]
  <2> HIDE DEF Body, Is
  <2>1. \A n \in Nat : \E g : Recursive(T, <<>>, grow, n, g)
    BY <1>3, <1>5, Recursion
  <2> QED
    BY <1>1, <2>1 DEF Recursive
<1>7. Is(g)
  <2>1. ASSUME NEW i \in 0 .. Lines(w) PROVE g[i] = Body(g, i)
    <3>1. CASE i = 0
      BY <1>6, <3>1
    <3>2. CASE i # 0
      <4>1. i \in 1 .. Lines(w) /\ i - 1 \in 0 .. Lines(w)
        BY <1>1, <3>2
      <4>2. g[i - 1] \in T
        BY <1>6, <4>1
      <4>3. g[i] = grow[<<i, g[i - 1]>>]
        BY <1>6, <4>1
      <4>4. g[i] = g[i - 1] \o LineBytes(BASICProgram(w)[i], ProgramStart + Len(g[i - 1]))
        BY <1>4, <4>1, <4>2, <4>3
      <4> QED
        BY <3>2, <4>4
    <3> QED
      BY <3>1, <3>2
  <2> HIDE DEF Body
  <2> QED
    BY <1>6, <2>1
<1>8. ProgramLines(w) = CHOOSE q : Is(q)
  BY DEF ProgramLines, Lines
<1>9. Is(ProgramLines(w))
  <2> HIDE DEF Is
  <2>1. Is(CHOOSE q : Is(q))
    BY <1>7
  <2> QED
    BY <1>8, <2>1
<1>10. \A n \in 0 .. Lines(w) : ProgramLines(w)[n] = Body(ProgramLines(w), n)
  <2> HIDE DEF Body
  <2> QED
    BY <1>9
<1>11. ProgramLines(w)[0] = <<>>
  <2>1. 0 \in 0 .. Lines(w)
    BY <1>1
  <2> QED
    BY <1>10, <2>1
<1>12. \A n \in 1 .. Lines(w) :
         /\ ProgramLines(w)[n] = ProgramLines(w)[n - 1] \o LineBytes(BASICProgram(w)[n], ProgramStart + Len(ProgramLines(w)[n - 1]))
  <2> TAKE n \in 1 .. Lines(w)
  <2>1. n \in 0 .. Lines(w) /\ n # 0
    BY <1>1, SMT
  <2> QED
    BY <1>10, <2>1
<1> DEFINE E == {n \in Nat : n <= Lines(w) => ProgramLines(w)[n] \in T}
<1>13. 0 \in E
  BY <1>5, <1>11
<1>14. ASSUME NEW n \in Nat, n \in E PROVE n + 1 \in E
  <2> SUFFICES ASSUME n + 1 <= Lines(w) PROVE ProgramLines(w)[n + 1] \in T
    OBVIOUS
  <2>1. n + 1 \in 1 .. Lines(w) /\ (n + 1) - 1 = n /\ ProgramLines(w)[n] \in T
    BY <1>1, <1>14
  <2>2. ProgramLines(w)[n + 1] = ProgramLines(w)[n] \o LineBytes(BASICProgram(w)[n + 1], ProgramStart + Len(ProgramLines(w)[n]))
    BY <1>12, <2>1
  <2> QED
    BY <1>2, <2>1, <2>2
<1>15. \A n \in 0 .. Lines(w) : ProgramLines(w)[n] \in T
  <2> HIDE DEF E
  <2>1. Nat \subseteq E
    BY <1>13, <1>14, Induction
  <2> USE DEF E
  <2> QED
    BY <1>1, <2>1
<1> QED
  BY <1>11, <1>12, <1>15 DEF T

-----------------------------------------------------------------------------
(* What is drawn can be read back: no address belongs to two regions.      *)

\* The regions an address is in.
RegionsAt(w, a) == {m \in Regions(w) : m[2] <= a /\ a < m[2] + m[3]}

\* A region has a place and a size.
LEMMA RegionType ==
  ASSUME NEW w \in Drawing
  PROVE  /\ TextPage \subseteq Nat /\ PokedPage \subseteq Nat /\ BitmapPage \subseteq Nat /\ SpriteBlock \subseteq Nat
         /\ TextSize \in Nat /\ BitmapSize \in Nat
         /\ \A m \in Regions(w) : m[2] \in Nat /\ m[3] \in Nat
<1>1. TextPage \subseteq Nat /\ PokedPage \subseteq Nat /\ BitmapPage \subseteq Nat /\ SpriteBlock \subseteq Nat
  BY ViewAssumption DEF Drawable
<1>2. Len(ProgramBytes(w)) \in Nat
  BY ProgramIs
<1>3. TextSize \in Nat /\ BitmapSize \in Nat
  BY SMT DEF TextSize, BitmapSize
<1> QED
  <2>1. ASSUME NEW m \in Regions(w) PROVE m[2] \in Nat /\ m[3] \in Nat
    <3>1. \A t, p, n : <<t, p, n>>[2] = p /\ <<t, p, n>>[3] = n
      OBVIOUS
    <3>2. PICK t, p, n : m = <<t, p, n>> /\ (p \in Nat \/ p = ProgramStart \/ \E b \in Nat : p = 64 * b) /\ n \in Nat
      <4>1. 64 \in Nat
        OBVIOUS
      <4> QED
        BY <1>1, <1>2, <1>3, <4>1, SMTT(30) DEF Regions
    <3>3. p \in Nat
      BY <3>2, ProgramStart \in Nat, SMT DEF ProgramStart
    <3> QED
      BY <3>1, <3>2, <3>3, Zenon
  <2> QED
    BY <1>1, <1>3, <2>1

\* The three parts of a region.
LEMMA Tuple ==
  \A t, p, n : <<t, p, n>>[1] = t /\ <<t, p, n>>[2] = p /\ <<t, p, n>>[3] = n
OBVIOUS

\* An address is in one region at most, for regions lie apart.
LEMMA OneRegion ==
  ASSUME NEW w \in Drawing, NEW a \in Nat, NEW m \in RegionsAt(w, a), NEW n \in RegionsAt(w, a)
  PROVE  m = n
<1>1. m # n => m[2] + m[3] <= n[2] \/ n[2] + n[3] <= m[2]
  BY ViewAssumption DEF Drawable, RegionsAt
<1>2. m[2] \in Nat /\ m[3] \in Nat /\ n[2] \in Nat /\ n[3] \in Nat
  BY RegionType DEF RegionsAt
<1>3. m[2] <= a /\ a < m[2] + m[3] /\ n[2] <= a /\ a < n[2] + n[3]
  BY DEF RegionsAt
<1> QED
  BY <1>1, <1>2, <1>3, SMT

\* Which of the regions an address is in says what is drawn there.
LEMMA WhoDraws ==
  ASSUME NEW w \in Drawing, NEW a \in Nat
  PROVE  /\ \A p \in TextsAt(a) : <<"text", p, TextSize>> \in RegionsAt(w, a)
         /\ \A p \in PokedAt(a) : <<"poked", p, TextSize>> \in RegionsAt(w, a)
         /\ \A p \in BitmapsAt(a) : <<"bitmap", p, BitmapSize>> \in RegionsAt(w, a)
         /\ InSprite(a) => \E p : <<"sprite", p, 64>> \in RegionsAt(w, a)
         /\ InProgram(w, a) => \E n : <<"program", ProgramStart, n>> \in RegionsAt(w, a)
<1>1. ASSUME NEW p \in TextsAt(a) PROVE <<"text", p, TextSize>> \in RegionsAt(w, a)
  <2>1. p \in TextPage /\ p \in Nat /\ a \in p .. p + TextSize - 1
    BY RegionType DEF TextsAt
  <2>2. <<"text", p, TextSize>> \in Regions(w)
    BY <2>1 DEF Regions
  <2>3. p <= a /\ a < p + TextSize
    BY <2>1, RegionType
  <2> QED
    BY <2>2, <2>3, Tuple DEF RegionsAt
<1>2. ASSUME NEW p \in PokedAt(a) PROVE <<"poked", p, TextSize>> \in RegionsAt(w, a)
  <2>1. p \in PokedPage /\ p \in Nat /\ a \in p .. p + TextSize - 1
    BY RegionType DEF PokedAt
  <2>2. <<"poked", p, TextSize>> \in Regions(w)
    BY <2>1 DEF Regions
  <2>3. p <= a /\ a < p + TextSize
    BY <2>1, RegionType
  <2> QED
    BY <2>2, <2>3, Tuple DEF RegionsAt
<1>3. ASSUME NEW p \in BitmapsAt(a) PROVE <<"bitmap", p, BitmapSize>> \in RegionsAt(w, a)
  <2>1. p \in BitmapPage /\ p \in Nat /\ a \in p .. p + BitmapSize - 1
    BY RegionType DEF BitmapsAt
  <2>2. <<"bitmap", p, BitmapSize>> \in Regions(w)
    BY <2>1 DEF Regions
  <2>3. p <= a /\ a < p + BitmapSize
    BY <2>1, RegionType
  <2> QED
    BY <2>2, <2>3, Tuple DEF RegionsAt
<1>4. ASSUME InSprite(a) PROVE \E p : <<"sprite", p, 64>> \in RegionsAt(w, a)
  <2>1. PICK b \in SpriteBlock : b = a \div 64
    BY <1>4 DEF InSprite
  <2>2. b \in Nat /\ <<"sprite", 64 * b, 64>> \in Regions(w)
    BY RegionType DEF Regions
  <2>3. 64 * b <= a /\ a < 64 * b + 64
    BY <2>1, <2>2, SMT
  <2>4. <<"sprite", 64 * b, 64>> \in RegionsAt(w, a)
    <3>1. PICK k \in Nat : k = 64 * b
      BY <2>2
    <3>2. <<"sprite", k, 64>> \in Regions(w) /\ k <= a /\ a < k + 64
      BY <2>2, <2>3, <3>1
    <3> QED
      BY <3>1, <3>2, Tuple DEF RegionsAt
  <2> QED
    BY <2>4
<1>5. ASSUME InProgram(w, a) PROVE \E n : <<"program", ProgramStart, n>> \in RegionsAt(w, a)
  <2>1. a - ProgramStart + 1 \in 1 .. Len(ProgramBytes(w)) /\ Len(ProgramBytes(w)) \in Nat
    BY <1>5, ProgramIs, SMT DEF InProgram
  <2>2. <<"program", ProgramStart, Len(ProgramBytes(w))>> \in Regions(w)
    BY DEF Regions
  <2>3. ProgramStart <= a /\ a < ProgramStart + Len(ProgramBytes(w))
    BY <2>1, SMT DEF ProgramStart
  <2> QED
    BY <2>2, <2>3, Tuple DEF RegionsAt
<1> QED
  BY <1>1, <1>2, <1>3, <1>4, <1>5

\* What is drawn at an address in one region is what that region draws there.
LEMMA Alone ==
  ASSUME NEW w \in Drawing, NEW a \in Nat
  PROVE  /\ \A p \in TextsAt(a) : TextsAt(a) = {p}
         /\ \A p \in PokedAt(a) : PokedAt(a) = {p} /\ TextsAt(a) = {}
         /\ \A p \in BitmapsAt(a) : BitmapsAt(a) = {p} /\ TextsAt(a) = {} /\ PokedAt(a) = {}
         /\ InSprite(a) => TextsAt(a) = {} /\ PokedAt(a) = {} /\ BitmapsAt(a) = {}
         /\ InProgram(w, a) => TextsAt(a) = {} /\ PokedAt(a) = {} /\ BitmapsAt(a) = {} /\ ~InSprite(a)
<1>1. \A m, n \in RegionsAt(w, a) : m = n
  BY OneRegion
<1>2. /\ \A p, q : <<"text", p, TextSize>> = <<"text", q, TextSize>> => p = q
      /\ \A p, q : <<"poked", p, TextSize>> = <<"poked", q, TextSize>> => p = q
      /\ \A p, q : <<"bitmap", p, BitmapSize>> = <<"bitmap", q, BitmapSize>> => p = q
  BY SMT
<1>3. /\ \A p, q : <<"text", p, TextSize>> # <<"poked", q, TextSize>>
      /\ \A p, q : <<"text", p, TextSize>> # <<"bitmap", q, BitmapSize>>
      /\ \A p, q : <<"text", p, TextSize>> # <<"sprite", q, 64>>
      /\ \A p, q : <<"text", p, TextSize>> # <<"program", ProgramStart, q>>
  BY SMT
<1>4. /\ \A p, q : <<"poked", p, TextSize>> # <<"bitmap", q, BitmapSize>>
      /\ \A p, q : <<"poked", p, TextSize>> # <<"sprite", q, 64>>
      /\ \A p, q : <<"poked", p, TextSize>> # <<"program", ProgramStart, q>>
      /\ \A p, q : <<"bitmap", p, BitmapSize>> # <<"sprite", q, 64>>
      /\ \A p, q : <<"bitmap", p, BitmapSize>> # <<"program", ProgramStart, q>>
      /\ \A p, q : <<"sprite", p, 64>> # <<"program", ProgramStart, q>>
  BY SMT
<1>5. ASSUME NEW p \in TextsAt(a), NEW q \in TextsAt(a) PROVE p = q
  <2>1. <<"text", p, TextSize>> \in RegionsAt(w, a) /\ <<"text", q, TextSize>> \in RegionsAt(w, a)
    BY WhoDraws, Zenon
  <2>2. <<"text", p, TextSize>> = <<"text", q, TextSize>>
    BY <1>1, <2>1, Zenon
  <2> QED
    BY <2>2, Zenon
<1>6. ASSUME NEW p \in PokedAt(a), NEW q \in PokedAt(a) PROVE p = q
  <2>1. <<"poked", p, TextSize>> \in RegionsAt(w, a) /\ <<"poked", q, TextSize>> \in RegionsAt(w, a)
    BY WhoDraws, Zenon
  <2>2. <<"poked", p, TextSize>> = <<"poked", q, TextSize>>
    BY <1>1, <2>1, Zenon
  <2> QED
    BY <2>2, Zenon
<1>7. ASSUME NEW p \in BitmapsAt(a), NEW q \in BitmapsAt(a) PROVE p = q
  <2>1. <<"bitmap", p, BitmapSize>> \in RegionsAt(w, a) /\ <<"bitmap", q, BitmapSize>> \in RegionsAt(w, a)
    BY WhoDraws, Zenon
  <2>2. <<"bitmap", p, BitmapSize>> = <<"bitmap", q, BitmapSize>>
    BY <1>1, <2>1, Zenon
  <2> QED
    BY <2>2, Zenon
<1>8. \A p \in TextsAt(a) : PokedAt(a) = {} /\ BitmapsAt(a) = {} /\ ~InSprite(a) /\ ~InProgram(w, a)
  BY <1>1, <1>3, WhoDraws
<1>9. \A p \in PokedAt(a) : BitmapsAt(a) = {} /\ ~InSprite(a) /\ ~InProgram(w, a)
  BY <1>1, <1>4, WhoDraws
<1>10. \A p \in BitmapsAt(a) : ~InSprite(a) /\ ~InProgram(w, a)
  BY <1>1, <1>4, WhoDraws
<1>11. InSprite(a) => ~InProgram(w, a)
  BY <1>1, <1>4, WhoDraws
<1> QED
  BY <1>5, <1>6, <1>7, <1>8, <1>9, <1>10, <1>11

\* A printed text is read back from the memory of its screen (Screen, debug.go:60-99).
LEMMA TextMemory ==
  ASSUME NEW w \in Drawing, NEW p \in TextPage, NEW c \in 0 .. TextSize - 1
  PROVE  Memory(w, p + c) = bsout(encodePETSCII(TextAt(w, c)))
<1> DEFINE a == p + c
<1>1. p \in Nat /\ TextSize \in Nat /\ BitmapSize \in Nat
  BY RegionType
<1>2. a \in Nat /\ p \in TextsAt(a) /\ a - p = c
  <2>1. a \in Nat /\ a \in p .. p + TextSize - 1 /\ a - p = c
    BY <1>1, RegionType, SMT
  <2> QED
    BY <2>1 DEF TextsAt
<1>3. TextsAt(a) = {p} /\ (CHOOSE q \in {p} : TRUE) = p
  BY <1>2, Alone
<1> HIDE DEF a
<1>4. Memory(w, a) = bsout(encodePETSCII(TextAt(w, a - p)))
  BY <1>3 DEF Memory
<1> QED
  BY <1>2, <1>4 DEF a

\* So is a text that was poked.
LEMMA PokedMemory ==
  ASSUME NEW w \in Drawing, NEW p \in PokedPage, NEW c \in 0 .. TextSize - 1
  PROVE  Memory(w, p + c) = asciiToScreen(TextAt(w, c), TRUE)
<1> DEFINE a == p + c
<1>1. p \in Nat /\ TextSize \in Nat /\ BitmapSize \in Nat
  BY RegionType
<1>2. a \in Nat /\ p \in PokedAt(a) /\ a - p = c
  <2>1. a \in Nat /\ a \in p .. p + TextSize - 1 /\ a - p = c
    BY <1>1, RegionType, SMT
  <2> QED
    BY <2>1 DEF PokedAt
<1>3. TextsAt(a) = {} /\ PokedAt(a) = {p} /\ (CHOOSE q \in {p} : TRUE) = p
  BY <1>2, Alone
<1> HIDE DEF a
<1>4. Memory(w, a) = asciiToScreen(TextAt(w, a - p), TRUE)
  <2>1. PokedAt(a) # {}
    BY <1>2
  <2> QED
    BY <1>3, <2>1 DEF Memory
<1> QED
  BY <1>2, <1>4 DEF a

\* The bytes of a bitmap are read back (Bitmap, debug.go:203-246).
LEMMA BitmapMemory ==
  ASSUME NEW w \in Drawing, NEW p \in BitmapPage, NEW o \in 0 .. BitmapSize - 1
  PROVE  Memory(w, p + o) = BitmapByte(w, o)
<1> DEFINE a == p + o
<1>1. p \in Nat /\ TextSize \in Nat /\ BitmapSize \in Nat
  BY RegionType
<1>2. a \in Nat /\ p \in BitmapsAt(a) /\ a - p = o
  <2>1. a \in Nat /\ a \in p .. p + BitmapSize - 1 /\ a - p = o
    BY <1>1, RegionType, SMT
  <2> QED
    BY <2>1 DEF BitmapsAt
<1>3. TextsAt(a) = {} /\ PokedAt(a) = {} /\ BitmapsAt(a) = {p} /\ (CHOOSE q \in {p} : TRUE) = p
  BY <1>2, Alone
<1> HIDE DEF a
<1>4. Memory(w, a) = BitmapByte(w, a - p)
  <2>1. BitmapsAt(a) # {} /\ TextsAt(a) \union PokedAt(a) = {}
    BY <1>2, <1>3
  <2> QED
    BY <1>3, <2>1 DEF Memory
<1> QED
  BY <1>2, <1>4 DEF a

\* The bytes of a sprite are read back (Sprites, debug.go:154-199).
LEMMA SpriteMemory ==
  ASSUME NEW w \in Drawing, NEW b \in SpriteBlock, NEW k \in 0 .. 63
  PROVE  Memory(w, 64 * b + k) = IF b % 2 = 0 THEN encodeImageRaw(w, k) ELSE encodeMulticolorImageRaw(w, k)
<1> DEFINE a == 64 * b + k
<1>1. b \in Nat
  BY RegionType
<1>2. a \in Nat /\ a \div 64 = b /\ a % 64 = k
  BY <1>1, SMT
<1> HIDE DEF a
<1>3. TextsAt(a) = {} /\ PokedAt(a) = {} /\ BitmapsAt(a) = {} /\ a \div 64 \in SpriteBlock
  BY <1>2, Alone DEF InSprite
<1>4. Memory(w, a) = IF (a \div 64) % 2 = 0 THEN encodeImageRaw(w, a % 64) ELSE encodeMulticolorImageRaw(w, a % 64)
  <2>1. TextsAt(a) \union PokedAt(a) \union BitmapsAt(a) = {}
    BY <1>3
  <2> QED
    BY <1>3, <2>1 DEF Memory, InSprite
<1> QED
  BY <1>2, <1>4 DEF a

\* The bytes of a program are read back (BASIC, debug.go:102-108).
LEMMA ProgramMemory ==
  ASSUME NEW w \in Drawing, NEW i \in 1 .. Len(ProgramBytes(w))
  PROVE  Memory(w, ProgramStart + i - 1) = ProgramBytes(w)[i]
<1> DEFINE a == ProgramStart + i - 1
<1>1. DOMAIN ProgramBytes(w) = 1 .. Len(ProgramBytes(w)) /\ Len(ProgramBytes(w)) \in Nat
  BY ProgramIs
<1>2. a \in Nat /\ a - ProgramStart + 1 = i
  BY <1>1, SMT DEF ProgramStart
<1> HIDE DEF a
<1>3. TextsAt(a) = {} /\ PokedAt(a) = {} /\ BitmapsAt(a) = {} /\ ~InSprite(a) /\ a - ProgramStart + 1 \in DOMAIN ProgramBytes(w)
  BY <1>1, <1>2, Alone DEF InProgram
<1>4. Memory(w, a) = ProgramBytes(w)[a - ProgramStart + 1]
  <2>1. TextsAt(a) \union PokedAt(a) \union BitmapsAt(a) = {}
    BY <1>3
  <2> QED
    BY <1>3, <2>1 DEF Memory, InProgram
<1> QED
  BY <1>2, <1>4 DEF a

\* Where line n + 1 of the program begins, counted from the start.
Offset(w, n) == Len(ProgramLines(w)[n])
TextOf(w, n) == BASICProgram(w)[n].text

\* Line n follows the lines before it.
LEMMA LinesGrow ==
  ASSUME NEW w \in Drawing, NEW n \in 1 .. Lines(w)
  PROVE  /\ BASICProgram(w)[n] \in ProgramLine /\ Len(TextOf(w, n)) \in Nat
         /\ Offset(w, n - 1) \in Nat
         /\ Offset(w, n) = Offset(w, n - 1) + Len(TextOf(w, n)) + 5
         /\ \A i \in 1 .. Offset(w, n - 1) : ProgramLines(w)[n][i] = ProgramLines(w)[n - 1][i]
         /\ \A i \in 1 .. Len(TextOf(w, n)) + 5 :
              ProgramLines(w)[n][Offset(w, n - 1) + i] = LineBytes(BASICProgram(w)[n], ProgramStart + Offset(w, n - 1))[i]
<1>1. BASICProgram(w)[n] \in ProgramLine
  <2>1. BASICProgram(w) \in Seq(ProgramLine)
    BY ViewAssumption DEF Drawable
  <2> QED
    BY <2>1 DEF Lines
<1>2. Lines(w) \in Nat /\ n - 1 \in 0 .. Lines(w) /\ ProgramStart \in Nat
  <2>1. BASICProgram(w) \in Seq(ProgramLine)
    BY ViewAssumption DEF Drawable
  <2> QED
    BY <2>1 DEF Lines, ProgramStart
<1>3. ProgramLines(w)[n - 1] \in Seq(Nat) /\ Offset(w, n - 1) \in Nat
  <2>1. ProgramLines(w)[n - 1] \in Seq(Nat)
    BY <1>2, ProgramIs
  <2> QED
    BY <2>1 DEF Offset
<1>4. PICK b : b = LineBytes(BASICProgram(w)[n], ProgramStart + Offset(w, n - 1))
  OBVIOUS
<1>5. b \in Seq(Nat) /\ Len(b) = Len(TextOf(w, n)) + 5
  <2>1. ProgramStart + Offset(w, n - 1) \in Nat
    BY <1>2, <1>3
  <2>2. b \in Seq(Nat) /\ Len(b) = Len(BASICProgram(w)[n].text) + 5
    BY <1>1, <1>4, <2>1, LineBytesType
  <2> QED
    BY <2>2 DEF TextOf
<1>6. Len(TextOf(w, n)) \in Nat
  BY <1>1 DEF ProgramLine, TextOf
<1>7. ProgramLines(w)[n] = ProgramLines(w)[n - 1] \o b
  BY <1>4, ProgramIs DEF Offset
<1>8. /\ Len(ProgramLines(w)[n]) = Len(ProgramLines(w)[n - 1]) + Len(b)
      /\ \A i \in 1 .. Len(ProgramLines(w)[n - 1]) : ProgramLines(w)[n][i] = ProgramLines(w)[n - 1][i]
      /\ \A i \in 1 .. Len(b) : ProgramLines(w)[n][Len(ProgramLines(w)[n - 1]) + i] = b[i]
  <2> DEFINE all == ProgramLines(w)[n - 1] \o b
  <2>1. /\ Len(all) = Len(ProgramLines(w)[n - 1]) + Len(b)
        /\ \A i \in 1 .. Len(ProgramLines(w)[n - 1]) : all[i] = ProgramLines(w)[n - 1][i]
        /\ \A i \in 1 .. Len(b) : all[Len(ProgramLines(w)[n - 1]) + i] = b[i]
    BY <1>3, <1>5, Joined
  <2>2. ProgramLines(w)[n] = all
    BY <1>7
  <2> HIDE DEF all
  <2> QED
    BY <2>1, <2>2
<1>9. Offset(w, n) = Offset(w, n - 1) + Len(TextOf(w, n)) + 5
  <2>1. Offset(w, n) = Offset(w, n - 1) + Len(b)
    BY <1>8 DEF Offset
  <2> QED
    BY <1>3, <1>5, <1>6, <2>1
<1> QED
  BY <1>1, <1>3, <1>4, <1>5, <1>6, <1>8, <1>9 DEF Offset

\* What is written for a line stays when others follow.
LEMMA LinesStay ==
  ASSUME NEW w \in Drawing, NEW m \in 0 .. Lines(w)
  PROVE  \A n \in m .. Lines(w) : /\ Offset(w, m) \in Nat /\ Offset(w, n) \in Nat /\ Offset(w, m) <= Offset(w, n)
                               /\ \A i \in 1 .. Offset(w, m) : ProgramLines(w)[n][i] = ProgramLines(w)[m][i]
<1> DEFINE Holds(n) == /\ Offset(w, m) \in Nat /\ Offset(w, n) \in Nat /\ Offset(w, m) <= Offset(w, n)
                       /\ \A i \in 1 .. Offset(w, m) : ProgramLines(w)[n][i] = ProgramLines(w)[m][i]
           S == {k \in Nat : m + k <= Lines(w) => Holds(m + k)}
<1>1. Lines(w) \in Nat /\ m \in Nat
  <2>1. BASICProgram(w) \in Seq(ProgramLine)
    BY ViewAssumption DEF Drawable
  <2> QED
    BY <2>1 DEF Lines
<1>2. \A n \in 0 .. Lines(w) : Offset(w, n) \in Nat
  BY ProgramIs DEF Offset
<1>3. 0 \in S
  <2>1. Holds(m)
    BY <1>2
  <2>2. m + 0 = m
    BY <1>1
  <2> HIDE DEF Holds
  <2> QED
    BY <2>1, <2>2
<1>4. ASSUME NEW k \in Nat, k \in S PROVE k + 1 \in S
  <2> SUFFICES ASSUME m + (k + 1) <= Lines(w) PROVE Holds(m + (k + 1))
    OBVIOUS
  <2>1. PICK n \in 1 .. Lines(w) : n = m + (k + 1) /\ n - 1 = m + k /\ n - 1 <= Lines(w)
    BY <1>1
  <2>2. Holds(n - 1)
    <3> HIDE DEF Holds
    <3> QED
      BY <1>4, <2>1
  <2>3. /\ Offset(w, n - 1) \in Nat /\ Len(TextOf(w, n)) \in Nat /\ Offset(w, n) = Offset(w, n - 1) + Len(TextOf(w, n)) + 5
        /\ \A i \in 1 .. Offset(w, n - 1) : ProgramLines(w)[n][i] = ProgramLines(w)[n - 1][i]
    BY LinesGrow
  <2>4. Offset(w, n) \in Nat /\ Offset(w, m) <= Offset(w, n)
    BY <2>2, <2>3
  <2>5. \A i \in 1 .. Offset(w, m) : ProgramLines(w)[n][i] = ProgramLines(w)[m][i]
    <3>1. \A i \in 1 .. Offset(w, m) : i \in 1 .. Offset(w, n - 1)
      BY <2>2
    <3> QED
      BY <2>2, <2>3, <3>1
  <2> QED
    BY <2>1, <2>2, <2>4, <2>5
<1>5. Nat \subseteq S
  <2> HIDE DEF S
  <2> QED
    BY <1>3, <1>4, Induction
<1>6. ASSUME NEW n \in m .. Lines(w) PROVE Holds(n)
  <2>1. n - m \in Nat /\ m + (n - m) = n /\ n <= Lines(w)
    BY <1>1
  <2>2. n - m \in S
    BY <1>5, <2>1
  <2> HIDE DEF Holds
  <2> QED
    BY <2>1, <2>2
<1> QED
  BY <1>6

\* Every line is in the program at its place.
LEMMA ProgramHolds ==
  ASSUME NEW w \in Drawing
  PROVE  /\ Offset(w, 0) = 0 /\ Lines(w) \in Nat
         /\ Offset(w, Lines(w)) \in Nat /\ Offset(w, Lines(w)) <= ListSize - 2
         /\ Len(ProgramBytes(w)) = Offset(w, Lines(w)) + 2
         /\ ProgramBytes(w)[Offset(w, Lines(w)) + 1] = 0 /\ ProgramBytes(w)[Offset(w, Lines(w)) + 2] = 0
         /\ \A n \in 1 .. Lines(w) :
              /\ Offset(w, n) <= Offset(w, Lines(w))
              /\ \A i \in 1 .. Len(TextOf(w, n)) + 5 :
                   ProgramBytes(w)[Offset(w, n - 1) + i] = LineBytes(BASICProgram(w)[n], ProgramStart + Offset(w, n - 1))[i]
<1> DEFINE end == << 0, 0 >>
           all == ProgramLines(w)[Lines(w)] \o end
<1>1. Lines(w) \in Nat /\ Lines(w) \in 0 .. Lines(w)
  <2>1. BASICProgram(w) \in Seq(ProgramLine)
    BY ViewAssumption DEF Drawable
  <2> QED
    BY <2>1 DEF Lines
<1>2. ProgramLines(w)[Lines(w)] \in Seq(Nat) /\ Offset(w, Lines(w)) \in Nat
  <2>1. ProgramLines(w)[Lines(w)] \in Seq(Nat)
    BY <1>1, ProgramIs
  <2> QED
    BY <2>1 DEF Offset
<1>3. end \in Seq(Nat) /\ Len(end) = 2 /\ end[1] = 0 /\ end[2] = 0
  OBVIOUS
<1>4. ProgramBytes(w) = all
  BY DEF ProgramBytes, Lines
<1> HIDE DEF end
<1>5. /\ Len(all) = Offset(w, Lines(w)) + 2
      /\ \A i \in 1 .. Offset(w, Lines(w)) : all[i] = ProgramLines(w)[Lines(w)][i]
      /\ \A i \in 1 .. 2 : all[Offset(w, Lines(w)) + i] = end[i]
  <2>1. /\ Len(all) = Len(ProgramLines(w)[Lines(w)]) + Len(end)
        /\ \A i \in 1 .. Len(ProgramLines(w)[Lines(w)]) : all[i] = ProgramLines(w)[Lines(w)][i]
        /\ \A i \in 1 .. Len(end) : all[Len(ProgramLines(w)[Lines(w)]) + i] = end[i]
    BY <1>2, <1>3, Joined
  <2> HIDE DEF all
  <2> QED
    BY <1>3, <2>1 DEF Offset
<1> HIDE DEF all
<1>6. 1 \in 1 .. 2 /\ 2 \in 1 .. 2
  OBVIOUS
<1>7. ProgramBytes(w)[Offset(w, Lines(w)) + 1] = 0 /\ ProgramBytes(w)[Offset(w, Lines(w)) + 2] = 0
  BY <1>3, <1>4, <1>5, <1>6
<1>8. Offset(w, 0) = 0
  <2>1. ProgramLines(w)[0] = <<>>
    BY ProgramIs
  <2> QED
    BY <2>1 DEF Offset
<1>9. Offset(w, Lines(w)) <= ListSize - 2
  <2>1. Len(ProgramBytes(w)) <= ListSize /\ ListSize \in Nat
    <3>1. Len(ProgramBytes(w)) <= ListSize
      BY ViewAssumption DEF Drawable
    <3> QED
      BY <3>1 DEF ListSize
  <2> QED
    BY <1>2, <1>4, <1>5, <2>1
<1>10. ASSUME NEW n \in 1 .. Lines(w)
       PROVE  /\ Offset(w, n) <= Offset(w, Lines(w))
              /\ \A i \in 1 .. Len(TextOf(w, n)) + 5 :
                   ProgramBytes(w)[Offset(w, n - 1) + i] = LineBytes(BASICProgram(w)[n], ProgramStart + Offset(w, n - 1))[i]
  <2>1. n \in 0 .. Lines(w) /\ Lines(w) \in n .. Lines(w)
    BY <1>1
  <2>2. /\ Offset(w, n) \in Nat /\ Offset(w, n) <= Offset(w, Lines(w))
        /\ \A i \in 1 .. Offset(w, n) : ProgramLines(w)[Lines(w)][i] = ProgramLines(w)[n][i]
    BY <2>1, LinesStay
  <2>3. /\ Len(TextOf(w, n)) \in Nat /\ Offset(w, n - 1) \in Nat /\ Offset(w, n) = Offset(w, n - 1) + Len(TextOf(w, n)) + 5
        /\ \A i \in 1 .. Len(TextOf(w, n)) + 5 :
             ProgramLines(w)[n][Offset(w, n - 1) + i] = LineBytes(BASICProgram(w)[n], ProgramStart + Offset(w, n - 1))[i]
    BY LinesGrow
  <2>4. ASSUME NEW i \in 1 .. Len(TextOf(w, n)) + 5
        PROVE  ProgramBytes(w)[Offset(w, n - 1) + i] = LineBytes(BASICProgram(w)[n], ProgramStart + Offset(w, n - 1))[i]
    <3>1. PICK k \in 1 .. Offset(w, n) : k = Offset(w, n - 1) + i
      BY <2>3
    <3>2. k \in 1 .. Offset(w, Lines(w))
      BY <1>2, <2>2
    <3> QED
      BY <1>4, <1>5, <2>2, <2>3, <3>1, <3>2
  <2> QED
    BY <2>2, <2>4
<1> QED
  BY <1>1, <1>2, <1>4, <1>5, <1>7, <1>8, <1>9, <1>10

\* The bytes of a line, as LIST finds them.
LEMMA LineListed ==
  ASSUME NEW w \in Drawing, NEW n \in 1 .. Lines(w)
  PROVE  /\ Offset(w, n - 1) \in Nat /\ Len(TextOf(w, n)) \in Nat
         /\ Offset(w, n) = Offset(w, n - 1) + Len(TextOf(w, n)) + 5 /\ Offset(w, n) <= ListSize - 2
         /\ listWord(w, Offset(w, n - 1)) = ProgramStart + Offset(w, n)
         /\ listWord(w, Offset(w, n - 1) + 2) = BASICProgram(w)[n].number
         /\ \A i \in 1 .. Len(TextOf(w, n)) : listByte(w, Offset(w, n - 1) + 3 + i) = TextOf(w, n)[i][2]
         /\ listByte(w, Offset(w, n)- 1) = 0
<1> DEFINE s == Offset(w, n - 1)
           k == Len(TextOf(w, n))
           b == LineBytes(BASICProgram(w)[n], ProgramStart + s)
<1>1. /\ s \in Nat /\ k \in Nat /\ Offset(w, n) = s + k + 5 /\ BASICProgram(w)[n] \in ProgramLine
  BY LinesGrow
<1>2. ProgramStart \in Nat /\ ListSize \in Nat
  BY DEF ProgramStart, ListSize
<1>3. /\ Word(b[1], b[2]) = ProgramStart + s + k + 5
      /\ Word(b[3], b[4]) = BASICProgram(w)[n].number
      /\ \A i \in 1 .. k : b[i + 4] = TextOf(w, n)[i][2]
      /\ b[k + 5] = 0
  <2>1. ProgramStart + s \in Nat
    BY <1>1, <1>2
  <2> QED
    BY <1>1, <2>1, LineBytesType DEF TextOf
<1> HIDE DEF s, k, b
<1>4. ASSUME NEW i \in 1 .. k + 5 PROVE listByte(w, s + i - 1) = b[i]
  <2>1. s + i \in 1 .. Len(ProgramBytes(w))
    <3>1. Len(ProgramBytes(w)) = Offset(w, Lines(w)) + 2 /\ Offset(w, n) <= Offset(w, Lines(w)) /\ Offset(w, Lines(w)) \in Nat
      BY ProgramHolds
    <3> QED
      BY <1>1, <3>1
  <2>2. Memory(w, ProgramStart + (s + i) - 1) = ProgramBytes(w)[s + i]
    BY <2>1, ProgramMemory
  <2>3. ProgramBytes(w)[s + i] = b[i]
    BY ProgramHolds DEF s, k, b
  <2>4. ProgramStart + (s + i - 1) = ProgramStart + (s + i) - 1
    BY <1>1, <1>2
  <2> QED
    BY <2>2, <2>3, <2>4 DEF listByte
<1>5. /\ listByte(w, s) = b[1] /\ listByte(w, s + 1) = b[2] /\ listByte(w, s + 2) = b[3] /\ listByte(w, s + 3) = b[4]
  <2>1. /\ s + 1 - 1 = s /\ s + 2 - 1 = s + 1 /\ s + 3 - 1 = s + 2 /\ s + 4 - 1 = s + 3
        /\ 1 \in 1 .. k + 5 /\ 2 \in 1 .. k + 5 /\ 3 \in 1 .. k + 5 /\ 4 \in 1 .. k + 5
    BY <1>1
  <2> QED
    BY <1>4, <2>1
<1>6. listWord(w, s) = ProgramStart + Offset(w, n) /\ listWord(w, s + 2) = BASICProgram(w)[n].number
  <2>1. s + 2 + 1 = s + 3
    BY <1>1
  <2>2. listWord(w, s) = Word(b[1], b[2]) /\ listWord(w, s + 2) = Word(b[3], b[4])
    BY <1>5, <2>1 DEF listWord
  <2>3. ProgramStart + Offset(w, n) = ProgramStart + s + k + 5
    BY <1>1, <1>2
  <2> QED
    BY <1>3, <2>2, <2>3
<1>7. ASSUME NEW i \in 1 .. k PROVE listByte(w, s + 3 + i) = TextOf(w, n)[i][2]
  <2>1. i + 4 \in 1 .. k + 5 /\ s + (i + 4) - 1 = s + 3 + i
    BY <1>1
  <2> QED
    BY <1>3, <1>4, <2>1
<1>8. listByte(w, Offset(w, n) - 1) = 0
  <2>1. k + 5 \in 1 .. k + 5 /\ s + (k + 5) - 1 = Offset(w, n) - 1
    BY <1>1
  <2> QED
    BY <1>3, <1>4, <2>1
<1>9. Offset(w, n) <= ListSize - 2
  <2>1. Offset(w, n) <= Offset(w, Lines(w)) /\ Offset(w, Lines(w)) \in Nat /\ Offset(w, Lines(w)) <= ListSize - 2
    BY ProgramHolds
  <2> QED
    BY <1>1, <1>2, <2>1
<1> QED
  BY <1>1, <1>6, <1>7, <1>8, <1>9 DEF s, k

\* A program ends with a link of zero.
LEMMA EndListed ==
  ASSUME NEW w \in Drawing
  PROVE  listWord(w, Offset(w, Lines(w))) = 0
<1> DEFINE s == Offset(w, Lines(w))
<1>1. s \in Nat /\ Len(ProgramBytes(w)) = s + 2 /\ ProgramBytes(w)[s + 1] = 0 /\ ProgramBytes(w)[s + 2] = 0
  BY ProgramHolds
<1> HIDE DEF s
<1>2. /\ s + 1 \in 1 .. Len(ProgramBytes(w)) /\ s + 2 \in 1 .. Len(ProgramBytes(w))
      /\ ProgramStart + (s + 1) - 1 = ProgramStart + s /\ ProgramStart + (s + 2) - 1 = ProgramStart + (s + 1)
  BY <1>1 DEF ProgramStart
<1>3. listByte(w, s) = 0 /\ listByte(w, s + 1) = 0
  BY <1>1, <1>2, ProgramMemory DEF listByte
<1> QED
  BY <1>3, SMT DEF listWord, Word, s

-----------------------------------------------------------------------------
(* A program is listed as it was entered.                                  *)

\* A byte of a line is shown as the atom it was written for.
LEMMA AtomIs ==
  ASSUME NEW text \in Seq(Atoms), NEW i \in 1 .. Len(text), Listable(text, i)
  PROVE  Atom(Bytes(text), i) = text[i] /\ text[i][1] # "skipped"
<1> DEFINE kind == text[i][1]
           b == text[i][2]
           quoted == Quoted(Bytes(text), i)
<1>1. kind \in {"char", "token", "code"} /\ b \in 1 .. 255 /\ text[i] = <<kind, b>>
  <2>1. text[i] \in Atoms
    OBVIOUS
  <2>2. \A v \in Atoms : v[1] \in {"char", "token", "code"} /\ v[2] \in 1 .. 255 /\ v = <<v[1], v[2]>>
    BY SMT DEF Atoms
  <2> QED
    BY <2>1, <2>2, Zenon
<1>2. Bytes(text)[i] = b
  BY SMT DEF Bytes
<1>3. \/ kind = "char" /\ b \in 32 .. 126
      \/ kind = "token" /\ b \in 128 .. 203 /\ ~quoted
      \/ kind = "code" /\ b \in (1 .. 31) \cup (127 .. 203) /\ quoted
      \/ kind = "code" /\ b \in 204 .. 255
  BY DEF Listable
<1>4. Atom(Bytes(text), i) =
        <<CASE b \in 32 .. 126 -> "char"
            [] b \in 128 .. 203 /\ ~quoted -> "token"
            [] b > 203 \/ (b \in (0 .. 31) \cup (127 .. 203) /\ quoted) -> "code"
            [] OTHER -> "skipped", b>>
  BY <1>2 DEF Atom
<1> HIDE DEF kind, b, quoted
<1>5. (CASE b \in 32 .. 126 -> "char"
         [] b \in 128 .. 203 /\ ~quoted -> "token"
         [] b > 203 \/ (b \in (0 .. 31) \cup (127 .. 203) /\ quoted) -> "code"
         [] OTHER -> "skipped") = kind
  <2> DEFINE c1 == b \in 32 .. 126
             c2 == b \in 128 .. 203 /\ ~quoted
             c3 == b > 203 \/ (b \in (0 .. 31) \cup (127 .. 203) /\ quoted)
  <2>1. \/ kind = "char" /\ c1 /\ ~c2 /\ ~c3
        \/ kind = "token" /\ ~c1 /\ c2 /\ ~c3
        \/ kind = "code" /\ ~c1 /\ ~c2 /\ c3
    <3>1. CASE kind = "char" /\ b \in 32 .. 126
      <4>1. c1 /\ ~c2 /\ ~c3
        BY <3>1, SMT
      <4> QED
        BY <3>1, <4>1, Zenon
    <3>2. CASE kind = "token" /\ b \in 128 .. 203 /\ ~quoted
      <4>1. ~c1 /\ c2 /\ ~c3
        BY <3>2, SMT
      <4> QED
        BY <3>2, <4>1, Zenon
    <3>3. CASE kind = "code" /\ b \in (1 .. 31) \cup (127 .. 203) /\ quoted
      <4>1. ~c1 /\ ~c2 /\ c3
        BY <3>3, SMT
      <4> QED
        BY <3>3, <4>1, Zenon
    <3>4. CASE kind = "code" /\ b \in 204 .. 255
      <4>1. ~c1 /\ ~c2 /\ c3
        BY <3>4, SMT
      <4> QED
        BY <3>4, <4>1, Zenon
    <3> QED
      BY <1>3, <3>1, <3>2, <3>3, <3>4, SMTT(30)
  <2> HIDE DEF c1, c2, c3
  <2>2. (CASE c1 -> "char" [] c2 -> "token" [] c3 -> "code" [] OTHER -> "skipped") = kind
    BY <2>1
  <2> QED
    BY <2>2, Zenon DEF c1, c2, c3
<1>6. kind # "skipped"
  BY <1>1
<1> QED
  <2>1. Atom(Bytes(text), i) = <<kind, b>>
    BY <1>4, <1>5
  <2> QED
    BY <1>1, <1>6, <2>1 DEF kind

\* DecodeBASICLine gives back the text of a line (c64/c64.go:20-70).
LEMMA LineIs ==
  ASSUME NEW text \in Seq(Atoms), \A i \in 1 .. Len(text) : Listable(text, i)
  PROVE  DecodeBASICLine(Bytes(text)) = text
<1> DEFINE n == Len(text)
           data == Bytes(text)
           Body(f, i) == IF i = 0 THEN <<>>
                         ELSE IF Atom(data, i)[1] = "skipped" THEN f[i - 1]
                         ELSE Append(f[i - 1], Atom(data, i))
           Is(f) == f = [i \in 0 .. n |-> Body(f, i)]
           Start(i) == [j \in 1 .. i |-> text[j]]
           g == [i \in 0 .. n |-> Start(i)]
<1>1. n \in Nat /\ DOMAIN data = 1 .. n /\ Len(data) = n
  BY DEF Bytes
<1>2. \A i \in 1 .. n : Atom(data, i) = text[i] /\ text[i][1] # "skipped" /\ text[i] \in Atoms
  BY AtomIs
<1> HIDE DEF data
<1>3. \A i \in 1 .. n : Append(Start(i - 1), text[i]) = Start(i)
  <2> TAKE i \in 1 .. n
  <2>1. Start(i - 1) \in Seq(Atoms) /\ Len(Start(i - 1)) = i - 1
    BY <1>1, <1>2
  <2>2. Append(Start(i - 1), text[i]) = [j \in 1 .. i |-> IF j = i THEN text[i] ELSE Start(i - 1)[j]]
    <3> HIDE DEF Start
    <3>1. i - 1 + 1 = i
      BY <1>1
    <3> QED
      BY <1>1, <2>1, <3>1
  <2>3. \A j \in 1 .. i : (IF j = i THEN text[i] ELSE Start(i - 1)[j]) = text[j]
    BY <1>1
  <2> QED
    BY <2>2, <2>3
<1>4. \A f, i : Is(f) /\ i \in 1 .. n => f[i] = Append(f[i - 1], text[i])
  <2> TAKE f, i
  <2> HAVE Is(f) /\ i \in 1 .. n
  <2>1. i \in 0 .. n /\ i # 0
    BY <1>1
  <2>2. f[i] = Body(f, i)
    <3> HIDE DEF Body
    <3> QED
      BY <2>1
  <2> QED
    BY <1>2, <2>1, <2>2
<1>5. \A f : Is(f) => f[0] = <<>>
  <2> TAKE f
  <2> HAVE Is(f)
  <2>1. 0 \in 0 .. n
    BY <1>1
  <2>2. f[0] = Body(f, 0)
    <3> HIDE DEF Body
    <3> QED
      BY <2>1
  <2> QED
    BY <2>2
<1>6. Is(g)
  <2>1. ASSUME NEW i \in 0 .. n PROVE Start(i) = Body(g, i)
    <3>1. CASE i = 0
      BY <3>1
    <3>2. CASE i # 0
      <4>1. i \in 1 .. n /\ i - 1 \in 0 .. n
        BY <1>1, <3>2
      <4>2. g[i - 1] = Start(i - 1)
        BY <4>1
      <4> HIDE DEF g, Start
      <4> QED
        BY <1>2, <1>3, <3>2, <4>1, <4>2
    <3> QED
      BY <3>1, <3>2
  <2> HIDE DEF Body, Start
  <2> QED
    BY <2>1
<1> DEFINE said == CHOOSE f : Is(f)
<1>7. Is(said)
  <2> HIDE DEF Is, g
  <2> QED
    BY <1>6
<1>8. DecodeBASICLine(data) = said[n]
  BY <1>1 DEF DecodeBASICLine
<1> HIDE DEF said
<1> DEFINE S == {i \in Nat : i <= n => said[i] = Start(i)}
<1>9. 0 \in S
  BY <1>5, <1>7
<1>10. ASSUME NEW i \in Nat, i \in S PROVE i + 1 \in S
  <2> SUFFICES ASSUME i + 1 <= n PROVE said[i + 1] = Start(i + 1)
    OBVIOUS
  <2>1. i + 1 \in 1 .. n /\ (i + 1) - 1 = i /\ said[i] = Start(i)
    BY <1>1, <1>10
  <2> HIDE DEF Is, Start
  <2> QED
    BY <1>3, <1>4, <1>7, <2>1, ZenonT(60)
<1>11. said[n] = Start(n)
  <2> HIDE DEF S
  <2>1. Nat \subseteq S
    BY <1>9, <1>10, Induction
  <2> USE DEF S
  <2> QED
    BY <1>1, <2>1
<1>12. Start(n) = text
  OBVIOUS
<1> QED
  BY <1>8, <1>11, <1>12 DEF data

\* A line ends at its zero.
LEMMA LineEnds ==
  ASSUME NEW w \in Drawing, NEW s \in Nat, NEW k \in Nat, s + k <= ListSize,
         \A i \in 1 .. k : listByte(w, s + i - 1) # 0,
         listByte(w, s + k) = 0
  PROVE  LineEnd(w, s) = s + k
<1> DEFINE Ends(e) == /\ e = ListSize \/ listByte(w, e) = 0
                      /\ \A j \in s .. e - 1 : listByte(w, j) # 0
<1>1. ListSize \in Nat
  BY DEF ListSize
<1>2. \A j \in s .. s + k - 1 : listByte(w, j) # 0
  <2> TAKE j \in s .. s + k - 1
  <2>1. j - s + 1 \in 1 .. k /\ s + (j - s + 1) - 1 = j
    OBVIOUS
  <2> QED
    BY <2>1
<1>3. s + k \in s .. ListSize /\ Ends(s + k)
  BY <1>1, <1>2
<1>4. ASSUME NEW e \in s .. ListSize, Ends(e) PROVE e = s + k
  <2>1. CASE e < s + k
    <3>1. e \in s .. s + k - 1 /\ e # ListSize
      BY <1>1, <2>1
    <3> QED
      BY <1>2, <1>4, <3>1
  <2>2. CASE e > s + k
    <3>1. s + k \in s .. e - 1
      BY <2>2
    <3> QED
      BY <1>4, <3>1
  <2> QED
    BY <1>1, <2>1, <2>2
<1>5. LineEnd(w, s) = CHOOSE e \in s .. ListSize : Ends(e)
  BY DEF LineEnd
<1> HIDE DEF Ends
<1> QED
  BY <1>3, <1>4, <1>5

\* BASICLine gives back the number and the text of a line, and its end is the next link.
LEMMA BASICLineIs ==
  ASSUME NEW w \in Drawing, NEW n \in 1 .. Lines(w)
  PROVE  BASICLine(w, Offset(w, n - 1)) = BASICProgram(w)[n]
<1> DEFINE s == Offset(w, n - 1)
           k == Len(TextOf(w, n))
<1>1. /\ s \in Nat /\ k \in Nat /\ Offset(w, n) = s + k + 5 /\ Offset(w, n) <= ListSize - 2 /\ ListSize \in Nat
      /\ listWord(w, s + 2) = BASICProgram(w)[n].number
      /\ \A i \in 1 .. k : listByte(w, s + 3 + i) = TextOf(w, n)[i][2]
      /\ listByte(w, Offset(w, n) - 1) = 0
  BY LineListed DEF ListSize
<1>2. /\ BASICProgram(w)[n] \in ProgramLine /\ TextOf(w, n) \in Seq(Atoms)
      /\ \A i \in 1 .. k : TextOf(w, n)[i] \in Atoms
  <2>1. BASICProgram(w)[n] \in ProgramLine
    BY LinesGrow
  <2> QED
    BY <2>1 DEF ProgramLine, TextOf
<1>3. \A i \in 1 .. k : Listable(TextOf(w, n), i)
  <2>1. BASICProgram(w) \in Seq(ProgramLine)
        /\ \A m \in DOMAIN BASICProgram(w) : \A i \in DOMAIN BASICProgram(w)[m].text : Listable(BASICProgram(w)[m].text, i)
    BY ViewAssumption DEF Drawable
  <2>2. n \in DOMAIN BASICProgram(w)
    BY <2>1 DEF Lines
  <2>3. DOMAIN TextOf(w, n) = 1 .. k
    BY <1>2
  <2> HIDE DEF k
  <2> QED
    BY <2>1, <2>2, <2>3 DEF TextOf
<1> HIDE DEF s, k
<1>4. LineEnd(w, s + 4) = s + 4 + k
  <2>1. \A i \in 1 .. k : listByte(w, s + 4 + i - 1) # 0
    <3> TAKE i \in 1 .. k
    <3>1. s + 4 + i - 1 = s + 3 + i
      BY <1>1
    <3>2. TextOf(w, n)[i][2] # 0
      <4>1. \A v \in Atoms : v[2] # 0
        BY SMT DEF Atoms
      <4> QED
        BY <1>2, <4>1
    <3> QED
      BY <1>1, <3>1, <3>2
  <2>2. listByte(w, s + 4 + k) = 0
    <3>1. Offset(w, n) - 1 = s + 4 + k
      BY <1>1
    <3> QED
      BY <1>1, <3>1
  <2>3. s + 4 \in Nat /\ s + 4 + k <= ListSize
    BY <1>1
  <2> QED
    BY <1>1, <2>1, <2>2, <2>3, LineEnds
<1>5. [i \in 1 .. LineEnd(w, s + 4) - s - 4 |-> listByte(w, s + 3 + i)] = Bytes(TextOf(w, n))
  <2>1. LineEnd(w, s + 4) - s - 4 = k
    BY <1>1, <1>4
  <2>2. Bytes(TextOf(w, n)) = [i \in 1 .. k |-> TextOf(w, n)[i][2]]
    <3>1. DOMAIN TextOf(w, n) = 1 .. k
      BY <1>2 DEF k
    <3> QED
      BY <3>1 DEF Bytes
  <2> QED
    BY <1>1, <2>1, <2>2
<1>6. DecodeBASICLine(Bytes(TextOf(w, n))) = TextOf(w, n)
  BY <1>2, <1>3, LineIs DEF k
<1>7. BASICLine(w, s) = [number |-> BASICProgram(w)[n].number, text |-> BASICProgram(w)[n].text]
  BY <1>1, <1>5, <1>6 DEF BASICLine, TextOf
<1>8. \A l \in ProgramLine : l = [number |-> l.number, text |-> l.text]
  BY DEF ProgramLine
<1> QED
  BY <1>2, <1>7, <1>8 DEF s

\* The links of a program.
Stop(w, pos) == pos >= ListSize - 4 \/ listWord(w, pos) = 0
Link(w, pos) == listWord(w, pos) - ProgramStart
Forward(w, pos) == Link(w, pos) \in pos + 1 .. ListSize - 1
Listed(w, f, pos) == IF Stop(w, pos) THEN <<>>
                  ELSE <<BASICLine(w, pos)>> \o IF Forward(w, pos) THEN f[Link(w, pos)] ELSE <<>>

\* The links go forward, so that the listing from every place exists.
LEMMA ListingExists ==
  ASSUME NEW w \in Drawing
  PROVE  \E f : f = [pos \in 0 .. ListSize |-> Listed(w, f, pos)]
<1> DEFINE From(m) == ListSize - m .. ListSize
           Is(f, m) == f = [pos \in From(m) |-> Listed(w, f, pos)]
           S == {m \in Nat : m <= ListSize => \E f : Is(f, m)}
<1>0. ListSize \in Nat
  BY DEF ListSize
<1>1. 0 \in S
  <2> DEFINE f == [pos \in From(0) |-> <<>>]
  <2>1. \A pos \in From(0) : Stop(w, pos)
    BY <1>0 DEF Stop
  <2>2. \A pos \in From(0) : Listed(w, f, pos) = <<>>
    <3> HIDE DEF f, From
    <3> QED
      BY <2>1 DEF Listed
  <2>3. Is(f, 0)
    <3> HIDE DEF From
    <3> QED
      BY <2>2
  <2> HIDE DEF f, Is
  <2> QED
    BY <2>3
<1>2. ASSUME NEW m \in Nat, m \in S PROVE m + 1 \in S
  <2> SUFFICES ASSUME m + 1 <= ListSize PROVE \E f : Is(f, m + 1)
    OBVIOUS
  <2> HIDE DEF Is
  <2>1. PICK g : Is(g, m)
    BY <1>0, <1>2
  <2> DEFINE q == ListSize - m - 1
             h == [pos \in From(m + 1) |-> IF pos = q THEN Listed(w, g, q) ELSE g[pos]]
  <2>2. \A pos \in From(m + 1) : pos # q => pos \in From(m)
    BY <1>0
  <2>3. \A pos \in From(m) : pos # q /\ pos \in From(m + 1)
    BY <1>0
  <2>4. \A pos \in From(m + 1) : Forward(w, pos) => Link(w, pos) \in From(m)
    BY <1>0 DEF Forward
  <2> HIDE DEF From, q
  <2>5. \A pos \in From(m) : h[pos] = g[pos]
    BY <2>3
  <2>6. \A pos \in From(m + 1) : Listed(w, h, pos) = Listed(w, g, pos)
    <3> TAKE pos \in From(m + 1)
    <3> HIDE DEF h
    <3>1. Forward(w, pos) => h[Link(w, pos)] = g[Link(w, pos)]
      BY <2>4, <2>5
    <3> QED
      BY <3>1 DEF Listed
  <2>7. \A pos \in From(m) : g[pos] = Listed(w, g, pos)
    <3> USE DEF Is
    <3>1. g = [pos \in From(m) |-> Listed(w, g, pos)]
      BY <2>1
    <3> QED
      BY <3>1
  <2>8. \A pos \in From(m + 1) : h[pos] = Listed(w, g, pos)
    BY <2>2, <2>7
  <2>9. h = [pos \in From(m + 1) |-> Listed(w, h, pos)]
    <3>1. h = [pos \in From(m + 1) |-> h[pos]]
      OBVIOUS
    <3> HIDE DEF h
    <3> QED
      BY <2>6, <2>8, <3>1
  <2>10. Is(h, m + 1)
    BY <2>9 DEF Is
  <2> HIDE DEF h
  <2> QED
    BY <2>10
<1>3. ListSize \in S
  <2> HIDE DEF S
  <2> QED
    BY <1>0, <1>1, <1>2, Induction
<1>4. \E f : Is(f, ListSize)
  <2> HIDE DEF Is
  <2> QED
    BY <1>3
<1>5. From(ListSize) = 0 .. ListSize
  BY <1>0
<1> QED
  BY <1>4, <1>5

\* A program of at most the 4096 bytes that are read is listed line by line, as it was entered.
LEMMA ProgramListed ==
  ASSUME NEW w \in Drawing
  PROVE  DecodeBASICProgram(w) = BASICProgram(w)
<1> DEFINE Is(f) == f = [pos \in 0 .. ListSize |-> Listed(w, f, pos)]
           lines == CHOOSE f : Is(f)
<1>1. Is(lines)
  <2> HIDE DEF Is
  <2>1. \E f : Is(f)
    BY ListingExists DEF Is
  <2> QED
    BY <2>1
<1>2. DecodeBASICProgram(w) = lines[0]
  BY DEF DecodeBASICProgram, Listed, Stop, Forward, Link
<1> HIDE DEF lines
<1>3. \A pos \in 0 .. ListSize : lines[pos] = Listed(w, lines, pos)
  BY <1>1
<1> HIDE DEF Is
<1>4. Lines(w) \in Nat /\ ListSize \in Nat /\ ProgramStart \in Nat /\ ProgramStart > 0
  BY ProgramHolds DEF ListSize, ProgramStart
<1> DEFINE Rest(n) == [j \in 1 .. Lines(w) - n |-> BASICProgram(w)[n + j]]
           S == {m \in Nat : m <= Lines(w) => lines[Offset(w, Lines(w) - m)] = Rest(Lines(w) - m)}
<1>5. 0 \in S
  <2>1. Lines(w) - 0 = Lines(w) /\ Offset(w, Lines(w)) \in 0 .. ListSize
    BY ProgramHolds, <1>4
  <2>2. Listed(w, lines, Offset(w, Lines(w))) = <<>>
    BY EndListed DEF Listed, Stop
  <2>3. Rest(Lines(w)) = <<>>
    <3>1. 1 .. Lines(w) - Lines(w) = {}
      BY <1>4
    <3> QED
      BY <3>1
  <2> HIDE DEF Rest
  <2> QED
    BY <1>3, <2>1, <2>2, <2>3
<1>6. ASSUME NEW m \in Nat, m \in S PROVE m + 1 \in S
  <2> SUFFICES ASSUME m + 1 <= Lines(w)
               PROVE  lines[Offset(w, Lines(w) - (m + 1))] = Rest(Lines(w) - (m + 1))
    OBVIOUS
  <2>1. PICK n \in 1 .. Lines(w) : n = Lines(w) - m /\ n - 1 = Lines(w) - (m + 1)
    BY <1>4
  <2> DEFINE s == Offset(w, n - 1)
  <2>2. lines[Offset(w, n)] = Rest(n)
    <3> HIDE DEF Rest
    <3> QED
      BY <1>4, <1>6, <2>1
  <2>3. s \in Nat /\ Offset(w, n) \in Nat /\ s + 5 <= Offset(w, n) /\ Offset(w, n) <= ListSize - 2
        /\ listWord(w, s) = ProgramStart + Offset(w, n)
    <3>1. s \in Nat /\ Len(TextOf(w, n)) \in Nat /\ Offset(w, n) = s + Len(TextOf(w, n)) + 5 /\ Offset(w, n) <= ListSize - 2
          /\ listWord(w, s) = ProgramStart + Offset(w, n)
      BY LineListed
    <3> HIDE DEF s
    <3> QED
      BY <3>1
  <2>4. s \in 0 .. ListSize /\ ~Stop(w, s) /\ Link(w, s) = Offset(w, n) /\ Forward(w, s)
    <3> HIDE DEF s
    <3>1. Link(w, s) = Offset(w, n)
      BY <1>4, <2>3 DEF Link
    <3>2. ~Stop(w, s)
      BY <1>4, <2>3 DEF Stop
    <3> QED
      BY <1>4, <2>3, <3>1, <3>2 DEF Forward
  <2>5. BASICLine(w, s) = BASICProgram(w)[n]
    BY BASICLineIs
  <2> HIDE DEF s, Rest
  <2>6. lines[s] = <<BASICProgram(w)[n]>> \o Rest(n)
    BY <1>3, <2>2, <2>4, <2>5 DEF Listed
  <2>7. <<BASICProgram(w)[n]>> \o Rest(n) = Rest(n - 1)
    <3>1. \A i \in 1 .. Lines(w) : BASICProgram(w)[i] \in ProgramLine
      BY LinesGrow
    <3>2. Rest(n) \in Seq(ProgramLine) /\ Len(Rest(n)) = Lines(w) - n /\ \A j \in 1 .. Lines(w) - n : Rest(n)[j] = BASICProgram(w)[n + j]
      BY <1>4, <3>1 DEF Rest
    <3>3. Rest(n - 1) \in Seq(ProgramLine) /\ Len(Rest(n - 1)) = Lines(w) - n + 1
          /\ \A j \in 1 .. Lines(w) - n + 1 : Rest(n - 1)[j] = BASICProgram(w)[n - 1 + j]
      BY <1>4, <3>1 DEF Rest
    <3> DEFINE one == <<BASICProgram(w)[n]>>
               all == one \o Rest(n)
    <3>4. one \in Seq(ProgramLine) /\ Len(one) = 1 /\ one[1] = BASICProgram(w)[n]
      BY <3>1
    <3> HIDE DEF one
    <3>5. /\ all \in Seq(ProgramLine) /\ Len(all) = 1 + (Lines(w) - n)
          /\ \A j \in 1 .. 1 + (Lines(w) - n) : all[j] = IF j <= 1 THEN one[j] ELSE Rest(n)[j - 1]
      <4>1. /\ all \in Seq(ProgramLine) /\ Len(all) = Len(one) + Len(Rest(n))
            /\ \A j \in 1 .. Len(one) + Len(Rest(n)) :
                 all[j] = IF j <= Len(one) THEN one[j] ELSE Rest(n)[j - Len(one)]
        BY <3>2, <3>4, ConcatProperties
      <4> HIDE DEF all
      <4>2. Len(one) = 1 /\ Len(Rest(n)) = Lines(w) - n
        BY <3>2, <3>4
      <4> QED
        BY <4>1, <4>2
    <3> HIDE DEF all
    <3>6. \A j \in 1 .. Lines(w) - n + 1 : all[j] = BASICProgram(w)[n - 1 + j]
      <4> TAKE j \in 1 .. Lines(w) - n + 1
      <4>1. CASE j = 1
        <5>1. n - 1 + j = n /\ 1 \in 1 .. 1 + (Lines(w) - n)
          BY <1>4, <4>1
        <5> QED
          BY <3>4, <3>5, <4>1, <5>1
      <4>2. CASE j # 1
        <5>1. j \in 1 .. 1 + (Lines(w) - n) /\ ~(j <= 1) /\ j - 1 \in 1 .. Lines(w) - n /\ n + (j - 1) = n - 1 + j
          BY <1>4, <4>2
        <5> QED
          BY <3>2, <3>5, <5>1
      <4> QED
        BY <4>1, <4>2
    <3>7. Len(all) = Len(Rest(n - 1)) /\ \A j \in 1 .. Len(all) : all[j] = Rest(n - 1)[j]
      BY <1>4, <3>3, <3>5, <3>6
    <3>8. all = Rest(n - 1)
      BY <3>3, <3>5, <3>7, SeqEqual
    <3> QED
      BY <3>8 DEF all, one
  <2> QED
    BY <2>1, <2>6, <2>7 DEF s
<1>7. Lines(w) \in S
  <2> HIDE DEF S
  <2> QED
    BY <1>4, <1>5, <1>6, Induction
<1>8. lines[0] = Rest(0)
  <2>1. Lines(w) - Lines(w) = 0
    BY <1>4
  <2> HIDE DEF Rest
  <2> QED
    BY <1>4, <1>7, <2>1, ProgramHolds
<1>9. Rest(0) = BASICProgram(w)
  <2>1. BASICProgram(w) \in Seq(ProgramLine)
    BY ViewAssumption DEF Drawable
  <2>2. BASICProgram(w) = [j \in 1 .. Lines(w) |-> BASICProgram(w)[j]]
    BY <2>1 DEF Lines
  <2>3. Lines(w) - 0 = Lines(w) /\ \A j \in 1 .. Lines(w) : 0 + j = j
    BY <1>4
  <2>4. Rest(0) = [j \in 1 .. Lines(w) |-> BASICProgram(w)[j]]
    BY <2>3
  <2> HIDE DEF Rest
  <2> QED
    BY <2>2, <2>4
<1> QED
  BY <1>2, <1>8, <1>9

-----------------------------------------------------------------------------
(* A text is read from the screen as it was printed on it.                 *)

\* The kinds of characters that can be printed.
Marks == {64, 91, 93, 94, 95}
Plain == (32 .. 63) \ {47}

\* A character that can be printed is a letter, a mark, the slash, or one with the same code everywhere.
LEMMA Kinds ==
  ASSUME NEW a \in Printable
  PROVE  /\ a \in Lower \/ a \in Upper \/ a \in Marks \/ a = 47 \/ a \in Plain
         /\ a \in Lower => a - 96 \in 1 .. 26 /\ a \notin Upper
         /\ a \in Upper => a \in 65 .. 90 /\ a \notin Lower
         /\ a \in Marks => a - 64 \in {0, 27, 29, 30, 31} /\ a \notin Lower /\ a \notin Upper
         /\ a = 47 \/ a \in Plain => a \in 32 .. 63 /\ a \notin Lower /\ a \notin Upper
BY SMT DEF Printable, Lower, Upper, Marks, Plain

\* The code a character has on the screen when it is printed, and when it is poked.
LEMMA ScreenCodes ==
  ASSUME NEW a \in Printable
  PROVE  /\ a \in Lower => bsout(encodePETSCII(a)) = a - 96 /\ asciiToScreen(a, TRUE) = a - 96
         /\ a \in Upper => bsout(encodePETSCII(a)) = a /\ asciiToScreen(a, TRUE) = a
         /\ a \in Marks => bsout(encodePETSCII(a)) = a - 64 /\ asciiToScreen(a, TRUE) = a - 64
         /\ a = 47 => bsout(encodePETSCII(a)) = 47 /\ asciiToScreen(a, TRUE) = 28
         /\ a \in Plain => bsout(encodePETSCII(a)) = a /\ asciiToScreen(a, TRUE) = a
<1>1. a \in Lower => bsout(encodePETSCII(a)) = a - 96 /\ asciiToScreen(a, TRUE) = a - 96
  BY SMT DEF Lower, Upper, bsout, encodePETSCII, asciiToScreen
<1>2. a \in Upper => bsout(encodePETSCII(a)) = a /\ asciiToScreen(a, TRUE) = a
  BY SMT DEF Lower, Upper, bsout, encodePETSCII, asciiToScreen, asciiToScreenCommon
<1>3. a \in Marks => bsout(encodePETSCII(a)) = a - 64 /\ asciiToScreen(a, TRUE) = a - 64
  BY SMT DEF Lower, Upper, Marks, bsout, encodePETSCII, asciiToScreen, asciiToScreenCommon
<1>4. a = 47 => bsout(encodePETSCII(a)) = 47 /\ asciiToScreen(a, TRUE) = 28
  BY SMT DEF Lower, Upper, bsout, encodePETSCII, asciiToScreen, asciiToScreenCommon
<1>5. a \in Plain => bsout(encodePETSCII(a)) = a /\ asciiToScreen(a, TRUE) = a
  BY SMT DEF Lower, Upper, Plain, bsout, encodePETSCII, asciiToScreen, asciiToScreenCommon
<1> QED
  BY <1>1, <1>2, <1>3, <1>4, <1>5

\* How a code is shown, and which PETSCII byte it has.
LEMMA CodesShown ==
  ASSUME NEW v \in 0 .. 127
  PROVE  /\ v \in 1 .. 26 => /\ screenCodeToChar(v, TRUE) = v + 96 /\ screenCodeToChar(v, FALSE) = v + 64
                             /\ decodePETSCII(screenCodeToPETSCII(v)) = v + 96
         /\ v \in {0, 27, 29, 30, 31} => /\ \A lc \in BOOLEAN : screenCodeToChar(v, lc) = v + 64
                                         /\ v # 0 => decodePETSCII(screenCodeToPETSCII(v)) = v + 64
         /\ v = 28 => screenCodeToChar(v, TRUE) = 47
         /\ v \in 32 .. 63 => /\ \A lc \in BOOLEAN : screenCodeToChar(v, lc) = v
                              /\ decodePETSCII(screenCodeToPETSCII(v)) = v
         /\ v \in 65 .. 90 => /\ screenCodeToChar(v, TRUE) = v /\ screenCodeToChar(v, FALSE) = 63
                              /\ decodePETSCII(screenCodeToPETSCII(v)) = v
<1>1. v % 128 = v /\ ~(v >= 128)
  BY SMT
<1>2. v \in 1 .. 26 => screenCodeToChar(v, TRUE) = v + 96 /\ screenCodeToChar(v, FALSE) = v + 64
  BY <1>1, SMT DEF screenCodeToChar
<1>3. v \in {0, 27, 29, 30, 31} => \A lc \in BOOLEAN : screenCodeToChar(v, lc) = v + 64
  BY <1>1, SMT DEF screenCodeToChar
<1>4. v = 28 => screenCodeToChar(v, TRUE) = 47
  BY <1>1, SMT DEF screenCodeToChar
<1>5. v \in 32 .. 63 => \A lc \in BOOLEAN : screenCodeToChar(v, lc) = v
  BY <1>1, SMT DEF screenCodeToChar
<1>6. v \in 65 .. 90 => screenCodeToChar(v, TRUE) = v /\ screenCodeToChar(v, FALSE) = 63
  <2> SUFFICES ASSUME v \in 65 .. 90 PROVE screenCodeToChar(v, TRUE) = v /\ screenCodeToChar(v, FALSE) = 63
    OBVIOUS
  <2>1. v # 0 /\ v \notin 1 .. 26 /\ v \notin {27, 29, 30, 31} /\ v \notin {28, 92} /\ v \notin 32 .. 63
        /\ v # 64 /\ v # 91 /\ v # 93 /\ v \notin {94, 95} /\ v \notin 97 .. 122
    BY SMT
  <2>2. \A lc \in BOOLEAN : screenCodeToChar(v, lc) = IF lc \/ v >= 128 THEN v ELSE 63
    BY <1>1, <2>1, SMT DEF screenCodeToChar
  <2> QED
    BY <1>1, <2>2
<1>7. /\ v \in 1 .. 31 => screenCodeToPETSCII(v) = v + 64
      /\ v \in 32 .. 63 => screenCodeToPETSCII(v) = v
      /\ v \in 65 .. 90 => screenCodeToPETSCII(v) = v + 32
  BY <1>1, SMT DEF screenCodeToPETSCII
<1>8. v \in 1 .. 26 => decodePETSCII(v + 64) = v + 96
  BY SMT DEF decodePETSCII
<1>9. v \in {27, 29, 30, 31} => decodePETSCII(v + 64) = v + 64
  BY SMT DEF decodePETSCII
<1>10. v \in 32 .. 63 => decodePETSCII(v) = v
  BY SMT DEF decodePETSCII
<1>11. v \in 65 .. 90 => decodePETSCII(v + 32) = v
  BY SMT DEF decodePETSCII
<1>12. /\ v \in 1 .. 26 => v \in 1 .. 31
       /\ v \in {0, 27, 29, 30, 31} /\ v # 0 => v \in {27, 29, 30, 31} /\ v \in 1 .. 31
  BY SMT
<1>13. v \in 1 .. 26 => decodePETSCII(screenCodeToPETSCII(v)) = v + 96
  BY <1>7, <1>8, <1>12
<1>14. v \in {0, 27, 29, 30, 31} /\ v # 0 => decodePETSCII(screenCodeToPETSCII(v)) = v + 64
  BY <1>7, <1>9, <1>12
<1>15. v \in 32 .. 63 => decodePETSCII(screenCodeToPETSCII(v)) = v
  BY <1>7, <1>10
<1>16. v \in 65 .. 90 => decodePETSCII(screenCodeToPETSCII(v)) = v
  BY <1>7, <1>11
<1> QED
  BY <1>2, <1>3, <1>4, <1>5, <1>6, <1>13, <1>14, <1>15, <1>16

\* Every character comes back in both character sets, and its PETSCII byte but for the at sign.
LEMMA CharactersComeBack ==
  ASSUME NEW a \in Printable
  PROVE  /\ \A lc \in BOOLEAN : screenCodeToChar(bsout(encodePETSCII(a)), lc) = Look(a, lc)
         /\ screenCodeToChar(asciiToScreen(a, TRUE), TRUE) = Look(a, TRUE)
         /\ a # 64 => decodePETSCII(screenCodeToPETSCII(bsout(encodePETSCII(a)))) = a
<1>1. /\ Look(a, TRUE) = a /\ (a \in Lower => Look(a, FALSE) = a - 32)
      /\ (a \in Upper => Look(a, FALSE) = 63) /\ (a \notin Lower /\ a \notin Upper => Look(a, FALSE) = a)
  BY SMT DEF Look, Lower, Upper
<1>2. CASE a \in Lower
  <2>1. PICK v \in 0 .. 127 : v = a - 96 /\ v \in 1 .. 26 /\ v + 96 = a /\ v + 64 = a - 32
    BY <1>2, Kinds, SMT DEF Lower
  <2>2. Look(a, TRUE) = v + 96 /\ Look(a, FALSE) = v + 64
    BY <1>1, <1>2, <2>1
  <2>3. bsout(encodePETSCII(a)) = v /\ asciiToScreen(a, TRUE) = v
    BY <1>2, <2>1, ScreenCodes
  <2>4. /\ screenCodeToChar(v, TRUE) = v + 96 /\ screenCodeToChar(v, FALSE) = v + 64
        /\ decodePETSCII(screenCodeToPETSCII(v)) = a
    BY <2>1, CodesShown, ZenonT(60)
  <2> QED
    BY <2>2, <2>3, <2>4
<1>3. CASE a \in Upper
  <2>1. a \in 0 .. 127 /\ a \in 65 .. 90
    BY <1>3, SMT DEF Upper
  <2>2. Look(a, TRUE) = a /\ Look(a, FALSE) = 63
    BY <1>1, <1>3
  <2>3. bsout(encodePETSCII(a)) = a /\ asciiToScreen(a, TRUE) = a
    BY <1>3, ScreenCodes
  <2>4. /\ screenCodeToChar(a, TRUE) = a /\ screenCodeToChar(a, FALSE) = 63
        /\ decodePETSCII(screenCodeToPETSCII(a)) = a
    BY <2>1, CodesShown
  <2> QED
    BY <2>2, <2>3, <2>4
<1>4. CASE a \in Marks
  <2>1. PICK v \in 0 .. 127 : v = a - 64 /\ v \in {0, 27, 29, 30, 31} /\ v + 64 = a /\ (a # 64 => v # 0)
    BY <1>4, SMT DEF Marks
  <2>2. Look(a, TRUE) = a /\ Look(a, FALSE) = a
    BY <1>1, <1>4, Kinds
  <2>3. bsout(encodePETSCII(a)) = v /\ asciiToScreen(a, TRUE) = v
    BY <1>4, <2>1, ScreenCodes
  <2> QED
    BY <2>1, <2>2, <2>3, CodesShown, ZenonT(60)
<1>5. CASE a = 47
  <2>1. a \in 0 .. 127 /\ a \in 32 .. 63 /\ 28 \in 0 .. 127
    BY <1>5, SMT
  <2>2. Look(a, TRUE) = a /\ Look(a, FALSE) = a
    BY <1>1, <1>5, Kinds
  <2>3. bsout(encodePETSCII(a)) = a /\ asciiToScreen(a, TRUE) = 28
    BY <1>5, ScreenCodes
  <2>4. /\ screenCodeToChar(a, TRUE) = a /\ screenCodeToChar(a, FALSE) = a /\ screenCodeToChar(28, TRUE) = a
        /\ decodePETSCII(screenCodeToPETSCII(a)) = a
    <3>1. screenCodeToChar(28, TRUE) = 47
      BY <2>1, CodesShown
    <3> QED
      BY <1>5, <2>1, <3>1, CodesShown
  <2> QED
    BY <2>2, <2>3, <2>4
<1>6. CASE a \in Plain
  <2>1. a \in 0 .. 127 /\ a \in 32 .. 63
    BY <1>6, SMT DEF Plain
  <2>2. Look(a, TRUE) = a /\ Look(a, FALSE) = a
    BY <1>1, <1>6, Kinds
  <2>3. bsout(encodePETSCII(a)) = a /\ asciiToScreen(a, TRUE) = a
    BY <1>6, ScreenCodes
  <2>4. /\ screenCodeToChar(a, TRUE) = a /\ screenCodeToChar(a, FALSE) = a
        /\ decodePETSCII(screenCodeToPETSCII(a)) = a
    BY <2>1, CodesShown
  <2> QED
    BY <2>2, <2>3, <2>4
<1> QED
  BY <1>2, <1>3, <1>4, <1>5, <1>6, Kinds

\* The codec for screen codes loses nothing but the upper quarter of the codes: a code that is
\* decoded to a PETSCII byte and encoded again is the same one, reverse video included, unless
\* its lower seven bits are above 96 (codec.go:229-287).
THEOREM CodesComeBack ==
  ASSUME NEW c \in 0 .. 255, c % 128 <= 96
  PROVE  petsciiToScreenCode(screenCodeToPETSCII(c)) = c
<1>1. PICK l \in 0 .. 127, h \in {0, 128} : l = c % 128 /\ c = h + l
  OBVIOUS
<1>2. PICK k \in 0 .. 127 : /\ screenCodeToPETSCII(c) = h + k
                            /\ (l \in 1 .. 31 /\ k = l + 64) \/ (l \in 65 .. 95 /\ k = l + 32)
                                 \/ (l \notin 1 .. 31 /\ l \notin 65 .. 95 /\ k = l)
  <2>1. CASE l \in 1 .. 31
    <3>1. screenCodeToPETSCII(c) = h + (l + 64) /\ l + 64 \in 0 .. 127
      BY <1>1, <2>1 DEF screenCodeToPETSCII
    <3> QED
      BY <2>1, <3>1
  <2>2. CASE l \in 65 .. 95
    <3>1. screenCodeToPETSCII(c) = h + (l + 32) /\ l + 32 \in 0 .. 127
      BY <1>1, <2>2 DEF screenCodeToPETSCII
    <3> QED
      BY <2>2, <3>1
  <2>3. CASE l \notin 1 .. 31 /\ l \notin 65 .. 95
    <3>1. screenCodeToPETSCII(c) = h + l
      BY <1>1, <2>3 DEF screenCodeToPETSCII
    <3> QED
      BY <2>3, <3>1
  <2> QED
    BY <2>1, <2>2, <2>3
<1>3. (h + k) % 128 = k /\ (h + k) - k = h
  BY <1>1
<1>4. CASE k \in 65 .. 95
  BY <1>1, <1>2, <1>3, <1>4 DEF petsciiToScreenCode
<1>5. CASE k \in 97 .. 127
  BY <1>1, <1>2, <1>3, <1>5 DEF petsciiToScreenCode
<1>6. CASE k \notin 65 .. 95 /\ k \notin 97 .. 127
  BY <1>1, <1>2, <1>3, <1>6 DEF petsciiToScreenCode
<1> QED
  BY <1>4, <1>5, <1>6

\* The registers of a setting are bytes.
LEMMA Registers ==
  ASSUME NEW r \in Setup
  PROVE  /\ \A o \in 0 .. 46 : r[o] \in Octet
         /\ r[dd00] \in Octet /\ r[d011] \in Octet /\ r[d016] \in Octet /\ r[d018] \in Octet /\ r[d021] \in Octet
<1>1. \A o \in (0 .. 46) \cup {dd00} : r[o] \in Octet
  BY ViewAssumption DEF Drawable
<1>2. d011 \in 0 .. 46 /\ d016 \in 0 .. 46 /\ d018 \in 0 .. 46 /\ d021 \in 0 .. 46
  BY SMT DEF d011, d016, d018, d021
<1> QED
  BY <1>1, <1>2, Zenon

\* The screen is looked for where the VIC has it.
LEMMA SameBank ==
  ASSUME NEW r \in Setup
  PROVE  /\ bankBase(r) = ShownBank(r) /\ matrix(r, r) = ShownMatrix(r)
         /\ ShownBank(r) \in {0, 16384, 32768, 49152} /\ ShownMatrix(r) \in Nat
<1>1. r[dd00] \in Octet /\ r[d018] \in Octet
  BY Registers
<1>2. PICK v \in 0 .. 3 : v = Low(r[dd00], 2)
  BY <1>1 DEF Low, Octet
<1>3. bankBase(r) = (3 - v) * 16384 /\ ShownBank(r) = <<49152, 32768, 16384, 0>>[v + 1]
  BY <1>2 DEF bankBase, ShownBank
<1>4. bankBase(r) = ShownBank(r) /\ ShownBank(r) \in {0, 16384, 32768, 49152}
  <2>1. CASE v = 0
    BY <1>3, <2>1, SMT
  <2>2. CASE v = 1
    BY <1>3, <2>2, SMT
  <2>3. CASE v = 2
    BY <1>3, <2>3, SMT
  <2>4. CASE v = 3
    BY <1>3, <2>4, SMT
  <2> QED
    BY <1>2, <2>1, <2>2, <2>3, <2>4, SMT
<1>5. matrix(r, r) = ShownMatrix(r)
  BY <1>4 DEF matrix, ShownMatrix
<1>6. ShownMatrix(r) \in Nat
  BY <1>1, <1>4, SMT DEF ShownMatrix, Octet
<1> QED
  BY <1>4, <1>5, <1>6

\* A printed or poked cell is shown as its character.
LEMMA Texts ==
  ASSUME NEW w \in Drawing, NEW c \in CharCell
  PROVE  TextAt(w, c) \in Printable /\ c \in 0 .. TextSize - 1
<1>1. Text(w) \in Seq(Printable) /\ Text(w) # <<>> /\ CharCell \subseteq 0 .. TextSize - 1
  BY ViewAssumption DEF Drawable
<1>2. c \in Nat
  BY <1>1
<1>3. PICK n \in Nat : n = Len(Text(w)) /\ n > 0
  BY <1>1
<1>4. (c % n) + 1 \in 1 .. n
  BY <1>2, <1>3
<1> QED
  BY <1>1, <1>3, <1>4 DEF TextAt

\* Screen: a text screen shows the text on it, and its PETSCII bytes are those that were
\* printed (debug.go:29-99).
LEMMA ScreenTrue ==
  ASSUME NEW r \in Setup, NEW w \in Drawing, NEW m, m[1].regs = r, m[2].drawn = w
  PROVE  TextShown(m, Screen(m))
<1> DEFINE at == ShownMatrix(r)
           lowercase == Bit(r[d018], 1)
<1>0. Screen(m).mode = ScreenMode(r) /\ Screen(m).color = [c \in CharCell |-> Memory(m[1].drawn, 55296 + c)]
  BY DEF Screen
<1>1. /\ Screen(m).rows = (IF Bit(r[d011], 5) THEN <<>>
                           ELSE [c \in CharCell |-> screenCodeToChar(Memory(w, at + c), lowercase)])
      /\ \A c \in CharCell : Screen(m).petscii[c] = screenCodeToPETSCII(Memory(w, at + c))
  BY SameBank DEF Screen
<1>2. lowercase \in BOOLEAN
  BY DEF Bit
<1>3. ASSUME at \in TextPage, NEW c \in CharCell
      PROVE  /\ screenCodeToChar(Memory(w, at + c), lowercase) = Look(TextAt(w, c), lowercase)
             /\ TextAt(w, c) # 64 => decodePETSCII(screenCodeToPETSCII(Memory(w, at + c))) = TextAt(w, c)
  <2>1. Memory(w, at + c) = bsout(encodePETSCII(TextAt(w, c)))
    BY <1>3, Texts, TextMemory
  <2> HIDE DEF at, lowercase
  <2> QED
    BY <1>2, <2>1, Texts, CharactersComeBack
<1>4. ASSUME at \in PokedPage, lowercase, NEW c \in CharCell
      PROVE  screenCodeToChar(Memory(w, at + c), lowercase) = Look(TextAt(w, c), lowercase)
  <2>1. Memory(w, at + c) = asciiToScreen(TextAt(w, c), TRUE)
    BY <1>4, Texts, PokedMemory
  <2>2. lowercase = TRUE
    BY <1>2, <1>4
  <2> HIDE DEF at, lowercase
  <2> QED
    BY <2>1, <2>2, Texts, CharactersComeBack
<1> HIDE DEF at, lowercase
<1>5. ASSUME ~Bit(r[d011], 5), at \in TextPage \/ (at \in PokedPage /\ lowercase)
      PROVE  Screen(m).rows = [c \in CharCell |-> Look(TextAt(w, c), lowercase)]
  <2>1. \A c \in CharCell : screenCodeToChar(Memory(w, at + c), lowercase) = Look(TextAt(w, c), lowercase)
    BY <1>3, <1>4, <1>5
  <2>2. Screen(m).rows = [c \in CharCell |-> screenCodeToChar(Memory(w, at + c), lowercase)]
    BY <1>1, <1>5
  <2> QED
    BY <2>1, <2>2
<1>6. ASSUME at \in TextPage, NEW c \in CharCell, TextAt(w, c) # 64
      PROVE  decodePETSCII(Screen(m).petscii[c]) = TextAt(w, c)
  BY <1>1, <1>3, <1>6
<1> QED
  BY <1>0, <1>1, <1>5, <1>6 DEF TextShown, at, lowercase

-----------------------------------------------------------------------------
(* The sheet of the characters has every dot in its own place.             *)

Eight == 0 .. 7
Sheet(i, x, y) == <<(i % 32) * 8 + x, (i \div 32) * 8 + y>>

\* No two dots of the characters share a place of the sheet.
LEMMA OwnPlace ==
  \A i, j \in Nat : \A x, y, u, v \in Eight : Sheet(i, x, y) = Sheet(j, u, v) => i = j /\ x = u /\ y = v
<1> SUFFICES ASSUME NEW i \in Nat, NEW j \in Nat, NEW x \in Eight, NEW y \in Eight, NEW u \in Eight, NEW v \in Eight,
                    Sheet(i, x, y) = Sheet(j, u, v)
             PROVE  i = j /\ x = u /\ y = v
  OBVIOUS
<1>0. x \in 0 .. 7 /\ y \in 0 .. 7 /\ u \in 0 .. 7 /\ v \in 0 .. 7
  BY DEF Eight
<1>1. (i % 32) * 8 + x = (j % 32) * 8 + u /\ (i \div 32) * 8 + y = (j \div 32) * 8 + v
  BY DEF Sheet
<1>2. PICK p \in Nat, q \in Nat, m \in Nat, n \in Nat :
        p = i % 32 /\ q = j % 32 /\ m = i \div 32 /\ n = j \div 32 /\ i = 32 * m + p /\ j = 32 * n + q
  BY Divided
<1>3. p = q /\ x = u /\ m = n /\ y = v
  BY <1>0, <1>1, <1>2, SMT
<1> QED
  BY <1>2, <1>3

\* Charset: the sheet has the dots of the characters the VIC uses (debug.go:139-151).
LEMMA CharsetTrue ==
  ASSUME NEW r \in Setup, NEW w \in Drawing, NEW m, m[1].regs = r, m[2].drawn = w
  PROVE  CharsetShown(m, Charset(m))
<1>1. PICK g \in Nat : g = (r[d018] \div 2) % 8
  <2>1. PICK v \in Nat : v = r[d018]
    <3>1. r[d018] \in Octet
      BY Registers
    <3>2. \A u \in Octet : u \in Nat
      BY SMT DEF Octet
    <3> QED
      BY <3>1, <3>2
  <2>2. (v \div 2) % 8 \in Nat
    OBVIOUS
  <2> QED
    BY <2>1, <2>2
<1>2. Charset(m) = ImageMap(w, 2048 * g)
  BY <1>1 DEF Charset
<1>3. Glyph \subseteq Nat
  BY ViewAssumption DEF Drawable
<1> DEFINE Set(i, x, y) == Bit(Memory(w, 2048 * g + i * 8 + y), 7 - x)
           Cell == Glyph \X Eight \X Eight
<1>4. ImageMap(w, 2048 * g) = {Sheet(d[1], d[2], d[3]) : d \in {d \in Cell : Set(d[1], d[2], d[3])}}
  BY DEF ImageMap, Sheet, Eight
<1>5. \A d \in Cell : d[1] \in Glyph /\ d[2] \in Eight /\ d[3] \in Eight
  OBVIOUS
<1>7. ASSUME NEW i \in Glyph, NEW x \in Eight, NEW y \in Eight
      PROVE  Sheet(i, x, y) \in ImageMap(w, 2048 * g) <=> Set(i, x, y)
  <2> HIDE DEF Set, Cell
  <2>1. ASSUME Set(i, x, y) PROVE Sheet(i, x, y) \in ImageMap(w, 2048 * g)
    <3> DEFINE e == <<i, x, y>>
    <3>0. e \in Cell /\ e[1] = i /\ e[2] = x /\ e[3] = y
      BY DEF Cell
    <3> HIDE DEF e
    <3>1. PICK d \in Cell : d[1] = i /\ d[2] = x /\ d[3] = y
      BY <3>0
    <3>2. Set(d[1], d[2], d[3]) /\ Sheet(d[1], d[2], d[3]) = Sheet(i, x, y)
      BY <2>1, <3>1
    <3> QED
      BY <1>4, <3>2
  <2>2. ASSUME Sheet(i, x, y) \in ImageMap(w, 2048 * g) PROVE Set(i, x, y)
    <3>1. PICK d \in Cell : Set(d[1], d[2], d[3]) /\ Sheet(i, x, y) = Sheet(d[1], d[2], d[3])
      BY <1>4, <2>2
    <3>2. PICK j \in Nat, u \in Eight, v \in Eight : j = d[1] /\ u = d[2] /\ v = d[3]
      BY <1>3, <1>5
    <3>3. i \in Nat /\ Sheet(i, x, y) = Sheet(j, u, v)
      BY <1>3, <3>1, <3>2
    <3>4. i = j /\ x = u /\ y = v
      BY <3>2, <3>3, OwnPlace
    <3>5. i = d[1] /\ x = d[2] /\ y = d[3]
      BY <3>2, <3>4
    <3> QED
      BY <3>1, <3>5
  <2> QED
    BY <2>1, <2>2
<1>8. ASSUME NEW i \in Glyph, NEW x \in Eight, NEW y \in Eight
      PROVE  (<<(i % 32) * 8 + x, (i \div 32) * 8 + y>> \in Charset(m)) = Bit(Memory(w, g * 2048 + i * 8 + y), 7 - x)
  <2>1. g * 2048 + i * 8 + y = 2048 * g + i * 8 + y
    BY <1>3
  <2>2. Bit(Memory(w, g * 2048 + i * 8 + y), 7 - x) = Set(i, x, y)
    BY <2>1
  <2>3. (Sheet(i, x, y) \in Charset(m)) <=> Set(i, x, y)
    BY <1>2, <1>7
  <2>4. Set(i, x, y) \in BOOLEAN
    BY DEF Bit
  <2> HIDE DEF Set
  <2> QED
    BY <2>2, <2>3, <2>4 DEF Sheet
<1> DEFINE generator == (r[d018] \div 2) % 8
           Shown(i, x, y) == <<(i % 32) * 8 + x, (i \div 32) * 8 + y>> \in Charset(m)
           Drawn(n, i, x, y) == Bit(Memory(w, n * 2048 + i * 8 + y), 7 - x)
<1>9. \A i \in Glyph, x, y \in Eight : Shown(i, x, y) = Drawn(g, i, x, y)
  BY <1>8
<1>10. generator = g
  BY <1>1
<1> HIDE DEF generator, Shown, Drawn
<1>11. \A i \in Glyph, x, y \in Eight : Shown(i, x, y) = Drawn(generator, i, x, y)
  BY <1>9, <1>10
<1> DEFINE mine == (m[1].regs[d018] \div 2) % 8
<1>12. mine = generator /\ m[2].drawn = w
  BY DEF generator
<1> HIDE DEF mine
<1>13. \A i \in Glyph, x, y \in Eight : Shown(i, x, y) = Bit(Memory(m[2].drawn, mine * 2048 + i * 8 + y), 7 - x)
  BY <1>11, <1>12 DEF Drawn
<1> QED
  BY <1>13, Zenon DEF CharsetShown, mine, Eight, Shown

-----------------------------------------------------------------------------
(* Dots are found again in the bytes they are put into.                    *)

\* The byte of the dots drawn around a place.
ByteAt(w, x, y) == Byte(Dots(w, 8 * (x \div 8), y))

\* The dots of the screen.
Columns == 0 .. 319
Rows == 0 .. 199

\* Dots are set or not.
LEMMA Inks ==
  ASSUME NEW w \in Drawing, NEW x \in Columns, NEW y \in Rows
  PROVE  Ink(w, x, y) \in {0, 1}
BY ViewAssumption DEF Drawable, Columns, Rows

\* A dot is a bit of the byte of the dots around it, and a double dot two of them.
LEMMA DotsAt ==
  ASSUME NEW w \in Drawing, NEW x \in Columns, NEW y \in Rows
  PROVE  /\ ByteAt(w, x, y) \in Octet
         /\ Spot(ByteAt(w, x, y), x) <=> Ink(w, x, y) = 1
         /\ Ink(w, 2 * (x \div 2), y) \in {0, 1} /\ Ink(w, 2 * (x \div 2) + 1, y) \in {0, 1}
         /\ Duo(ByteAt(w, x, y), x) = 2 * Ink(w, 2 * (x \div 2), y) + Ink(w, 2 * (x \div 2) + 1, y)
<1> DEFINE d == Dots(w, 8 * (x \div 8), y)
<1>1. PICK k \in 0 .. 39, j \in 0 .. 7 : k = x \div 8 /\ j = x % 8 /\ x = 8 * k + j
  BY SMT DEF Columns
<1>2. d = [i \in 1 .. 8 |-> Ink(w, 8 * k + i - 1, y)]
  BY <1>1 DEF Dots
<1>3. d \in [1 .. 8 -> {0, 1}]
  <2>1. ASSUME NEW i \in 1 .. 8 PROVE Ink(w, 8 * k + i - 1, y) \in {0, 1}
    <3>1. 8 * k + i - 1 \in Columns
      BY SMT DEF Columns
    <3> QED
      BY <3>1, Inks
  <2> QED
    BY <1>2, <2>1
<1>4. \A i \in 0 .. 7 : d[i + 1] = Ink(w, 8 * k + i, y)
  <2> TAKE i \in 0 .. 7
  <2>1. i + 1 \in 1 .. 8 /\ 8 * k + (i + 1) - 1 = 8 * k + i
    BY SMT
  <2> HIDE DEF d
  <2> QED
    BY <1>2, <2>1
<1> HIDE DEF d
<1>5. /\ Byte(d) \in Octet
      /\ Bit(Byte(d), 7 - j) <=> d[j + 1] = 1
      /\ Low(Byte(d) \div 2 ^ ((6 - j) + (j % 2)), 2) = 2 * d[2 * (j \div 2) + 1] + d[2 * (j \div 2) + 2]
  BY <1>3, ByteBits, BytePairs DEF Octet
<1>6. PICK h \in {0, 2, 4, 6} : h = 2 * (j \div 2)
  BY SMT
<1>7. 2 * (x \div 2) = 8 * k + h /\ 2 * (x \div 2) + 1 = 8 * k + (h + 1) /\ h \in 0 .. 7 /\ h + 1 \in 0 .. 7
  BY <1>1, <1>6, SMT
<1>8. d[h + 1] = Ink(w, 2 * (x \div 2), y) /\ d[h + 2] = Ink(w, 2 * (x \div 2) + 1, y)
  <2>1. h + 2 = (h + 1) + 1
    BY SMT
  <2> QED
    BY <1>4, <1>7, <2>1
<1>9. d[h + 1] \in {0, 1} /\ d[h + 2] \in {0, 1}
  BY <1>3, <1>6
<1>10. Shift(x) = (6 - j) + (j % 2)
  BY <1>1, SMT DEF Shift
<1>11. Duo(Byte(d), x) = 2 * d[h + 1] + d[h + 2]
  BY <1>5, <1>6, <1>10 DEF Duo
<1>12. Spot(Byte(d), x) <=> Ink(w, x, y) = 1
  BY <1>1, <1>4, <1>5 DEF Spot
<1>13. ByteAt(w, x, y) = Byte(d)
  BY DEF ByteAt, d
<1> QED
  BY <1>5, <1>8, <1>9, <1>11, <1>12, <1>13

-----------------------------------------------------------------------------
(* A bitmap is the dots that were drawn.                                   *)

CellOf(x, y) == (y \div 8) * 40 + (x \div 8)

\* The byte of a bitmap for a dot is the byte of the dots around it.
LEMMA BitmapAt ==
  ASSUME NEW w \in Drawing, NEW p \in BitmapPage, NEW x \in Columns, NEW y \in Rows
  PROVE  Memory(w, p + CellOf(x, y) * 8 + (y % 8)) = ByteAt(w, x, y)
<1>1. PICK k \in 0 .. 39, m \in 0 .. 24, j \in 0 .. 7 : k = x \div 8 /\ m = y \div 8 /\ j = y % 8 /\ y = 8 * m + j
  <2>1. x \div 8 \in 0 .. 39 /\ y \div 8 \in 0 .. 24 /\ y % 8 \in 0 .. 7
    BY SMT DEF Columns, Rows
  <2>2. y = 8 * (y \div 8) + (y % 8)
    BY SMT DEF Rows
  <2> QED
    BY <2>1, <2>2
<1>2. PICK o \in 0 .. BitmapSize - 1 : o = 320 * m + (8 * k + j)
  BY SMT DEF BitmapSize
<1>3. o % 320 = 8 * k + j /\ o \div 320 = m
  <2>1. 8 * k + j \in 0 .. 320 - 1
    BY SMT
  <2>2. PICK n \in Nat, t \in 0 .. 319 : n = 320 /\ t \in 0 .. n - 1 /\ t = 8 * k + j /\ o = n * m + t
    BY <1>2, <2>1
  <2>3. (n * m + t) % n = t /\ (n * m + t) \div n = m
    BY <2>2, Unique
  <2> QED
    BY <2>2, <2>3
<1>4. (o % 320) \div 8 = k
  BY <1>3, SMT
<1>5. o % 8 = j
  BY <1>2, SMT
<1>6. BitmapByte(w, o) = Byte(Dots(w, 8 * k, y))
  <2>1. BitmapByte(w, o) = Byte(Dots(w, 8 * k, 8 * m + j))
    BY <1>3, <1>4, <1>5, SMTT(30) DEF BitmapByte
  <2> QED
    BY <1>1, <2>1
<1>7. BitmapByte(w, o) = ByteAt(w, x, y)
  BY <1>1, <1>6 DEF ByteAt
<1>8. p + CellOf(x, y) * 8 + (y % 8) = p + o
  BY <1>1, <1>2, RegionType, SMT DEF CellOf
<1> QED
  BY <1>7, <1>8, BitmapMemory

\* The color of a dot of a bitmap.
Chosen(b, x, hi, lo, bg, color, multicolor) ==
  IF multicolor
  THEN CASE Duo(b, x) = 0 -> bg [] Duo(b, x) = 1 -> hi [] Duo(b, x) = 2 -> lo [] OTHER -> color
  ELSE IF Spot(b, x) THEN hi ELSE lo

\* Its color is that of the dot or of the double dot.
LEMMA ChosenIs ==
  ASSUME NEW w \in Drawing, NEW x \in Columns, NEW y \in Rows, NEW hi, NEW lo, NEW bg, NEW color, NEW multicolor \in BOOLEAN
  PROVE  Chosen(ByteAt(w, x, y), x, hi, lo, bg, color, multicolor)
           = IF multicolor
             THEN CASE Pair(w, x, y) = <<0, 0>> -> bg [] Pair(w, x, y) = <<0, 1>> -> hi
                    [] Pair(w, x, y) = <<1, 0>> -> lo [] OTHER -> color
             ELSE IF Ink(w, x, y) = 1 THEN hi ELSE lo
<1> DEFINE u == Ink(w, 2 * (x \div 2), y)
           v == Ink(w, 2 * (x \div 2) + 1, y)
           b == ByteAt(w, x, y)
<1>1. u \in {0, 1} /\ v \in {0, 1} /\ Duo(b, x) = 2 * u + v /\ (Spot(b, x) <=> Ink(w, x, y) = 1) /\ Pair(w, x, y) = <<u, v>>
  BY DotsAt DEF Pair
<1> HIDE DEF u, v, b
<1>2. CASE multicolor
  <2> DEFINE d == Duo(b, x)
             q == Pair(w, x, y)
  <2>1. \/ d = 0 /\ q = <<0, 0>>
        \/ d = 1 /\ q = <<0, 1>>
        \/ d = 2 /\ q = <<1, 0>>
        \/ d = 3 /\ q = <<1, 1>>
    BY <1>1
  <2>2. Chosen(b, x, hi, lo, bg, color, multicolor) = CASE d = 0 -> bg [] d = 1 -> hi [] d = 2 -> lo [] OTHER -> color
    BY <1>2 DEF Chosen
  <2> HIDE DEF d, q
  <2>3. (CASE d = 0 -> bg [] d = 1 -> hi [] d = 2 -> lo [] OTHER -> color)
          = CASE q = <<0, 0>> -> bg [] q = <<0, 1>> -> hi [] q = <<1, 0>> -> lo [] OTHER -> color
    BY <2>1, SMT
  <2> QED
    BY <1>2, <2>2, <2>3 DEF q, b
<1>3. CASE ~multicolor
  BY <1>1, <1>3 DEF Chosen, b
<1> QED
  BY <1>2, <1>3

\* Bitmap: the colors are those of the dots that were drawn (debug.go:203-246).
LEMMA BitmapTrue ==
  ASSUME NEW r \in Setup, NEW b \in Setup, NEW w \in Drawing,
         NEW m, m[1].regs = r, m[2].regs = b, m[4].drawn = w
  PROVE  BitmapShown(m, Bitmap(m))
<1> DEFINE page == ShownBank(b) + (IF Bit(r[d018], 3) THEN 8192 ELSE 0)
           screen == ShownBank(b) + (r[d018] \div 16) * 1024
           multicolor == Bit(r[d016], 4)
           bg == m[3].regs[d021] % 16
           Hi(c) == Memory(m[5].drawn, screen + c) \div 16
           Lo(c) == Memory(m[5].drawn, screen + c) % 16
           Own(c) == Memory(m[6].drawn, 55296 + c) % 16
<1>1. multicolor \in BOOLEAN
  BY DEF Bit
<1>2. Pixel \subseteq Columns \X Rows
  BY ViewAssumption DEF Drawable, Columns, Rows
<1>3. Bitmap(m) = DecodeBitmap(m, page, screen, bg, multicolor)
  BY SameBank DEF Bitmap, matrix
<1> HIDE DEF page, screen, bg, multicolor
<1> DEFINE Color(x, y) ==
             Chosen(Memory(w, page + CellOf(x, y) * 8 + (y % 8)), x, Hi(CellOf(x, y)), Lo(CellOf(x, y)), bg,
                    Own(CellOf(x, y)), multicolor)
           Right(x, y) ==
             IF multicolor
             THEN CASE Pair(w, x, y) = <<0, 0>> -> bg [] Pair(w, x, y) = <<0, 1>> -> Hi(CellOf(x, y))
                    [] Pair(w, x, y) = <<1, 0>> -> Lo(CellOf(x, y)) [] OTHER -> Own(CellOf(x, y))
             ELSE IF Ink(w, x, y) = 1 THEN Hi(CellOf(x, y)) ELSE Lo(CellOf(x, y))
<1>4. DecodeBitmap(m, page, screen, bg, multicolor) = [p \in Pixel |-> Color(p[1], p[2])]
  BY DEF DecodeBitmap, CellOf, Chosen, Duo, Shift, Spot
<1>5. ASSUME page \in BitmapPage, NEW x \in Columns, NEW y \in Rows PROVE Color(x, y) = Right(x, y)
  <2>1. Memory(w, page + CellOf(x, y) * 8 + (y % 8)) = ByteAt(w, x, y)
    BY <1>5, BitmapAt
  <2> HIDE DEF Hi, Lo, Own
  <2>2. Color(x, y) = Chosen(ByteAt(w, x, y), x, Hi(CellOf(x, y)), Lo(CellOf(x, y)), bg, Own(CellOf(x, y)), multicolor)
    BY <2>1, Zenon
  <2> DEFINE hi == Hi(CellOf(x, y))
             lo == Lo(CellOf(x, y))
             own == Own(CellOf(x, y))
  <2> HIDE DEF hi, lo, own
  <2>3. Chosen(ByteAt(w, x, y), x, hi, lo, bg, own, multicolor)
          = IF multicolor
            THEN CASE Pair(w, x, y) = <<0, 0>> -> bg [] Pair(w, x, y) = <<0, 1>> -> hi
                   [] Pair(w, x, y) = <<1, 0>> -> lo [] OTHER -> own
            ELSE IF Ink(w, x, y) = 1 THEN hi ELSE lo
    BY <1>1, ChosenIs
  <2> QED
    BY <2>2, <2>3, Zenon DEF hi, lo, own
<1>6. ASSUME page \in BitmapPage, NEW p \in Pixel PROVE Bitmap(m)[p] = Right(p[1], p[2])
  <2>1. p[1] \in Columns /\ p[2] \in Rows
    BY <1>2
  <2> HIDE DEF Color, Right
  <2>2. Bitmap(m)[p] = Color(p[1], p[2])
    BY <1>3, <1>4
  <2> QED
    BY <1>5, <1>6, <2>1, <2>2
<1>7. \A p \in Pixel : (p[1] \div 8) + 40 * (p[2] \div 8) = CellOf(p[1], p[2])
  <2> TAKE p \in Pixel
  <2> HIDE DEF Hi, Lo, Own, Color, Right
  <2>1. PICK x \in Nat, y \in Nat : x = p[1] /\ y = p[2]
    <3>1. p[1] \in Columns /\ p[2] \in Rows
      BY <1>2
    <3>2. Columns \subseteq Nat /\ Rows \subseteq Nat
      BY SMT DEF Columns, Rows
    <3> QED
      BY <3>1, <3>2
  <2>2. (x \div 8) + 40 * (y \div 8) = (y \div 8) * 40 + (x \div 8)
    BY SMT
  <2> QED
    BY <2>1, <2>2 DEF CellOf
<1>8. ASSUME page \in BitmapPage, NEW p \in Pixel
      PROVE  Bitmap(m)[p]
               = LET x == p[1]  y == p[2]
                     cell == (x \div 8) + 40 * (y \div 8)
                 IN IF multicolor
                    THEN CASE Pair(w, x, y) = <<0, 0>> -> bg [] Pair(w, x, y) = <<0, 1>> -> Hi(cell)
                           [] Pair(w, x, y) = <<1, 0>> -> Lo(cell) [] OTHER -> Own(cell)
                    ELSE IF Ink(w, x, y) = 1 THEN Hi(cell) ELSE Lo(cell)
  <2> HIDE DEF Hi, Lo, Own
  <2> QED
    BY <1>6, <1>7, <1>8, Zenon
<1> QED
  BY <1>8, SMT DEF BitmapShown, page, screen, bg, multicolor

-----------------------------------------------------------------------------
(* Sprites are the dots that were drawn.                                   *)

\* A byte of a sprite is the byte of the dots drawn in it.
LEMMA SpriteByte ==
  ASSUME NEW w \in Drawing, NEW k \in 0 .. 62
  PROVE  encodeImageRaw(w, k) = ByteAt(w, 8 * (k % 3), k \div 3) /\ encodeMulticolorImageRaw(w, k) = ByteAt(w, 8 * (k % 3), k \div 3)
<1>1. PICK j \in 0 .. 2, y \in 0 .. 20 : j = k % 3 /\ y = k \div 3
  <2>1. k % 3 \in 0 .. 2 /\ k \div 3 \in 0 .. 20
    BY SMT
  <2> QED
    BY <2>1
<1>2. k # 63 /\ (8 * j) \div 8 = j
  BY SMT
<1> DEFINE d == Dots(w, 8 * j, y)
<1>3. ByteAt(w, 8 * j, y) = Byte(d)
  BY <1>2 DEF ByteAt
<1>4. encodeImageRaw(w, k) = Byte(d)
  BY <1>1, <1>2 DEF encodeImageRaw
<1>5. d = [i \in 1 .. 8 |-> Ink(w, 8 * j + i - 1, y)]
  BY DEF Dots
<1>6. \A i \in 1 .. 8 : 8 * j + i - 1 \in Columns /\ y \in Rows
  BY SMT DEF Columns, Rows
<1>7. \A i \in 1 .. 8 : d[i] \in {0, 1} /\ d[i] = Ink(w, 8 * j + i - 1, y)
  BY <1>5, <1>6, Inks
<1> HIDE DEF d
<1>8. /\ d[1] = Ink(w, 2 * (4 * j), y) /\ d[2] = Ink(w, 2 * (4 * j) + 1, y)
      /\ d[3] = Ink(w, 2 * (4 * j + 1), y) /\ d[4] = Ink(w, 2 * (4 * j + 1) + 1, y)
      /\ d[5] = Ink(w, 2 * (4 * j + 2), y) /\ d[6] = Ink(w, 2 * (4 * j + 2) + 1, y)
      /\ d[7] = Ink(w, 2 * (4 * j + 3), y) /\ d[8] = Ink(w, 2 * (4 * j + 3) + 1, y)
  <2>1. /\ 8 * j + 1 - 1 = 2 * (4 * j) /\ 8 * j + 2 - 1 = 2 * (4 * j) + 1
        /\ 8 * j + 3 - 1 = 2 * (4 * j + 1) /\ 8 * j + 4 - 1 = 2 * (4 * j + 1) + 1
        /\ 8 * j + 5 - 1 = 2 * (4 * j + 2) /\ 8 * j + 6 - 1 = 2 * (4 * j + 2) + 1
        /\ 8 * j + 7 - 1 = 2 * (4 * j + 3) /\ 8 * j + 8 - 1 = 2 * (4 * j + 3) + 1
    BY SMT
  <2>2. /\ d[1] = Ink(w, 8 * j + 1 - 1, y) /\ d[2] = Ink(w, 8 * j + 2 - 1, y)
        /\ d[3] = Ink(w, 8 * j + 3 - 1, y) /\ d[4] = Ink(w, 8 * j + 4 - 1, y)
        /\ d[5] = Ink(w, 8 * j + 5 - 1, y) /\ d[6] = Ink(w, 8 * j + 6 - 1, y)
        /\ d[7] = Ink(w, 8 * j + 7 - 1, y) /\ d[8] = Ink(w, 8 * j + 8 - 1, y)
    BY <1>7
  <2> QED
    BY <2>1, <2>2
<1>9. encodeMulticolorImageRaw(w, k)
        = 64 * (2 * d[1] + d[2]) + 16 * (2 * d[3] + d[4]) + 4 * (2 * d[5] + d[6]) + (2 * d[7] + d[8])
  BY <1>1, <1>2, <1>8 DEF encodeMulticolorImageRaw
<1>10. encodeMulticolorImageRaw(w, k) = Byte(d)
  <2>1. d[1] \in {0, 1} /\ d[2] \in {0, 1} /\ d[3] \in {0, 1} /\ d[4] \in {0, 1}
        /\ d[5] \in {0, 1} /\ d[6] \in {0, 1} /\ d[7] \in {0, 1} /\ d[8] \in {0, 1}
    BY <1>7
  <2> QED
    BY <1>9, <2>1, SMT DEF Byte
<1> QED
  BY <1>1, <1>3, <1>4, <1>10

\* The rows of a sprite.
Down == 0 .. 20

\* The bytes of a row of a sprite are in memory at its block.
LEMMA SpriteAt ==
  ASSUME NEW w \in Drawing, NEW b \in SpriteBlock, NEW y \in Down, NEW j \in 0 .. 2
  PROVE  Memory(w, 64 * b + 3 * y + j) = ByteAt(w, 8 * j, y)
<1>0. y \in 0 .. 20
  BY DEF Down
<1>1. PICK k \in 0 .. 62 : k = 3 * y + j
  BY <1>0, SMT
<1>2. k % 3 = j /\ k \div 3 = y /\ k \in 0 .. 63
  BY <1>0, <1>1, SMT
<1>3. b \in Nat /\ 64 * b + 3 * y + j = 64 * b + k
  BY <1>0, <1>1, RegionType, SMT
<1>4. Memory(w, 64 * b + k) = IF b % 2 = 0 THEN encodeImageRaw(w, k) ELSE encodeMulticolorImageRaw(w, k)
  BY <1>2, SpriteMemory
<1>5. Memory(w, 64 * b + k) = ByteAt(w, 8 * (k % 3), k \div 3)
  BY <1>4, SpriteByte
<1> QED
  BY <1>2, <1>3, <1>5

\* A row of a sprite, the three bytes from an address on.
RowAt(w, at) == Row(Memory(w, at), Memory(w, at + 1), Memory(w, at + 2))

\* A dot of a row is a dot that was drawn.
LEMMA SpriteRow ==
  ASSUME NEW w \in Drawing, NEW b \in SpriteBlock, NEW x \in Across, NEW y \in Down
  PROVE  /\ Bit(RowAt(w, 64 * b + 3 * y), 23 - x) <=> Ink(w, x, y) = 1
         /\ Low(RowAt(w, 64 * b + 3 * y) \div 2 ^ (22 - x + (x % 2)), 2)
              = 2 * Ink(w, 2 * (x \div 2), y) + Ink(w, 2 * (x \div 2) + 1, y)
         /\ Ink(w, 2 * (x \div 2), y) \in {0, 1} /\ Ink(w, 2 * (x \div 2) + 1, y) \in {0, 1}
<1> DEFINE at == 64 * b + 3 * y
           m0 == ByteAt(w, 0, y)
           m1 == ByteAt(w, 8, y)
           m2 == ByteAt(w, 16, y)
<1>1. b \in Nat
  BY RegionType
<1>2. Memory(w, at) = m0 /\ Memory(w, at + 1) = m1 /\ Memory(w, at + 2) = m2
  <2>1. at + 0 = at /\ 8 * 0 = 0 /\ 8 * 1 = 8 /\ 8 * 2 = 16
    BY <1>1, SMT DEF Down
  <2>2. Memory(w, at + 0) = ByteAt(w, 8 * 0, y) /\ Memory(w, at + 1) = ByteAt(w, 8 * 1, y) /\ Memory(w, at + 2) = ByteAt(w, 8 * 2, y)
    <3>1. 0 \in 0 .. 2 /\ 1 \in 0 .. 2 /\ 2 \in 0 .. 2
      BY SMT
    <3> QED
      BY <3>1, SpriteAt
  <2> HIDE DEF at
  <2> QED
    BY <2>1, <2>2
<1>3. x \in Columns /\ y \in Rows /\ 0 \in Columns /\ 8 \in Columns /\ 16 \in Columns
  BY SMT DEF Columns, Rows, Across, Down
<1>4. m0 \in Octet /\ m1 \in Octet /\ m2 \in Octet
  BY <1>3, DotsAt
<1>5. Of(m0, m1, m2, x) = ByteAt(w, x, y)
  <2>1. 0 \div 8 = 0 /\ 8 \div 8 = 1 /\ 16 \div 8 = 2
    BY SMT
  <2>2. /\ x < 8 => x \div 8 = 0 /\ Of(m0, m1, m2, x) = m0
        /\ ~(x < 8) /\ x < 16 => x \div 8 = 1 /\ Of(m0, m1, m2, x) = m1
        /\ ~(x < 8) /\ ~(x < 16) => x \div 8 = 2 /\ Of(m0, m1, m2, x) = m2
    <3> HIDE DEF m0, m1, m2
    <3> QED
      BY SMT DEF Of, Across
  <2> QED
    BY <2>1, <2>2 DEF ByteAt
<1>6. RowAt(w, at) = Row(m0, m1, m2)
  BY <1>2 DEF RowAt
<1> HIDE DEF m0, m1, m2, at
<1>7. /\ RowSpot(Row(m0, m1, m2), x) <=> Spot(ByteAt(w, x, y), x)
      /\ RowDuo(Row(m0, m1, m2), x) = Duo(ByteAt(w, x, y), x)
  BY <1>4, <1>5, RowBits
<1> QED
  BY <1>3, <1>6, <1>7, DotsAt DEF at, RowSpot, RowDuo

\* Memory holds numbers.
LEMMA TextType ==
  ASSUME NEW w \in Drawing
  PROVE  \A c \in Nat : TextAt(w, c) \in Printable
<1> TAKE c \in Nat
<1>1. Text(w) \in Seq(Printable) /\ Text(w) # <<>>
  BY ViewAssumption DEF Drawable
<1>2. PICK n \in Nat : n = Len(Text(w)) /\ n > 0
  BY <1>1
<1>3. (c % n) + 1 \in 1 .. n
  BY <1>2
<1> QED
  BY <1>1, <1>2, <1>3 DEF TextAt

\* The codes of printed and of poked characters are numbers.
LEMMA CodeType ==
  ASSUME NEW a \in Printable
  PROVE  bsout(encodePETSCII(a)) \in Nat /\ asciiToScreen(a, TRUE) \in Nat
<1>1. /\ a \in Lower => a - 96 \in Nat
      /\ a \in Upper => a \in Nat
      /\ a \in Marks => a - 64 \in Nat
      /\ a \in Plain => a \in Nat
      /\ 47 \in Nat /\ 28 \in Nat
  BY SMT DEF Lower, Upper, Marks, Plain
<1>2. CASE a \in Lower
  <2>1. a - 96 \in Nat
    BY <1>1, <1>2
  <2>2. bsout(encodePETSCII(a)) = a - 96 /\ asciiToScreen(a, TRUE) = a - 96
    BY <1>2, ScreenCodes
  <2> QED
    BY <2>1, <2>2
<1>3. CASE a \in Upper
  BY <1>1, <1>3, ScreenCodes, ZenonT(60)
<1>4. CASE a \in Marks
  BY <1>1, <1>4, ScreenCodes
<1>5. CASE a = 47
  BY <1>1, <1>5, ScreenCodes, ZenonT(60)
<1>6. CASE a \in Plain
  BY <1>1, <1>6, ScreenCodes, ZenonT(60)
<1> QED
  BY <1>2, <1>3, <1>4, <1>5, <1>6, Kinds

\* So is the byte of eight dots.
LEMMA ByteType ==
  ASSUME NEW w \in Drawing, NEW x \in Columns, NEW y \in Rows
  PROVE  ByteAt(w, x, y) \in Nat
<1>1. ByteAt(w, x, y) \in Octet
  BY DotsAt
<1>2. \A v \in Octet : v \in Nat
  BY SMT DEF Octet
<1> QED
  BY <1>1, <1>2

\* So is what is read at every address.
LEMMA MemoryType ==
  ASSUME NEW w \in Drawing, NEW a \in Address
  PROVE  Memory(w, a) \in Nat
<1>1. a \in Nat
  BY Addresses
<1>2. CASE TextsAt(a) # {}
  <2>1. PICK p \in TextPage : p \in Nat /\ a \in p .. p + TextSize - 1
    BY <1>2, RegionType DEF TextsAt
  <2>2. a - p \in 0 .. TextSize - 1 /\ a - p \in Nat /\ p + (a - p) = a
    BY <1>1, <2>1, RegionType, SMT
  <2>3. Memory(w, p + (a - p)) = bsout(encodePETSCII(TextAt(w, a - p)))
    BY <2>2, TextMemory
  <2> QED
    BY <2>2, <2>3, TextType, CodeType
<1>3. CASE PokedAt(a) # {}
  <2>1. PICK p \in PokedPage : p \in Nat /\ a \in p .. p + TextSize - 1
    BY <1>3, RegionType DEF PokedAt
  <2>2. a - p \in 0 .. TextSize - 1 /\ a - p \in Nat /\ p + (a - p) = a
    BY <1>1, <2>1, RegionType, SMT
  <2>3. Memory(w, p + (a - p)) = asciiToScreen(TextAt(w, a - p), TRUE)
    BY <2>2, PokedMemory
  <2> QED
    BY <2>2, <2>3, TextType, CodeType
<1>4. CASE BitmapsAt(a) # {}
  <2>1. PICK p \in BitmapPage : p \in Nat /\ a \in p .. p + BitmapSize - 1
    BY <1>4, RegionType DEF BitmapsAt
  <2>2. PICK o \in 0 .. BitmapSize - 1 : o = a - p /\ p + o = a
    <3>1. a - p \in 0 .. BitmapSize - 1 /\ p + (a - p) = a
      BY <1>1, <2>1, RegionType, SMT
    <3> QED
      BY <3>1
  <2>3. Memory(w, a) = BitmapByte(w, o)
    BY <2>2, BitmapMemory
  <2>4. PICK x \in Columns, y \in Rows : x = 8 * ((o % 320) \div 8) /\ y = 8 * (o \div 320) + (o % 8) /\ 8 * (x \div 8) = x
    <3>1. 8 * ((o % 320) \div 8) \in Columns /\ 8 * ((8 * ((o % 320) \div 8)) \div 8) = 8 * ((o % 320) \div 8)
      <4>1. (o % 320) \div 8 \in 0 .. 39
        BY SMT
      <4>2. PICK k \in 0 .. 39 : k = (o % 320) \div 8
        BY <4>1
      <4>3. 8 * k \in Columns /\ 8 * ((8 * k) \div 8) = 8 * k
        BY SMT DEF Columns
      <4> QED
        BY <4>2, <4>3
    <3>2. 8 * (o \div 320) + (o % 8) \in Rows
      BY SMT DEF BitmapSize, Rows
    <3> QED
      BY <3>1, <3>2
  <2>5. BitmapByte(w, o) = ByteAt(w, x, y)
    BY <2>4 DEF BitmapByte, ByteAt
  <2> QED
    BY <2>3, <2>5, ByteType
<1> DEFINE Below == TextsAt(a) = {} /\ PokedAt(a) = {} /\ BitmapsAt(a) = {}
<1>5. Below => TextsAt(a) \union PokedAt(a) = {} /\ TextsAt(a) \union PokedAt(a) \union BitmapsAt(a) = {}
  OBVIOUS
<1>6. CASE Below /\ InSprite(a)
  <2>1. PICK b \in SpriteBlock : b = a \div 64
    BY <1>6 DEF InSprite
  <2>2. PICK k \in 0 .. 63 : k = a % 64 /\ a = 64 * b + k
    <3>1. a % 64 \in 0 .. 63 /\ a = 64 * (a \div 64) + (a % 64)
      BY <1>1, SMT
    <3> QED
      BY <2>1, <3>1
  <2>3. Memory(w, a) = IF b % 2 = 0 THEN encodeImageRaw(w, k) ELSE encodeMulticolorImageRaw(w, k)
    BY <2>2, SpriteMemory
  <2>4. CASE k = 63
    <3>1. Memory(w, a) = 0
      BY <2>3, <2>4 DEF encodeImageRaw, encodeMulticolorImageRaw
    <3> QED
      BY <3>1
  <2>5. CASE k # 63
    <3>1. k \in 0 .. 62 /\ 8 * (k % 3) \in Columns /\ k \div 3 \in Rows
      BY <2>5, SMT DEF Columns, Rows
    <3>2. Memory(w, a) = ByteAt(w, 8 * (k % 3), k \div 3)
      BY <2>3, <3>1, SpriteByte
    <3> QED
      BY <3>1, <3>2, ByteType
  <2> QED
    BY <2>4, <2>5
<1>7. CASE Below /\ ~InSprite(a) /\ InProgram(w, a)
  <2>1. PICK i \in DOMAIN ProgramBytes(w) : i = a - ProgramStart + 1
    BY <1>7 DEF InProgram
  <2>2. ProgramBytes(w) \in Seq(Nat)
    <3>1. ProgramLines(w)[Lines(w)] \in Seq(Nat)
      <4>1. Lines(w) \in 0 .. Lines(w)
        BY ProgramHolds
      <4> QED
        BY <4>1, ProgramIs
    <3>2. << 0, 0 >> \in Seq(Nat)
      OBVIOUS
    <3>3. ProgramBytes(w) = ProgramLines(w)[Lines(w)] \o << 0, 0 >>
      BY DEF ProgramBytes, Lines
    <3> QED
      BY <3>1, <3>2, <3>3, ConcatProperties
  <2>3. Memory(w, a) = ProgramBytes(w)[i]
    <3>1. i \in 1 .. Len(ProgramBytes(w)) /\ ProgramStart + i - 1 = a
      BY <1>1, <2>1, <2>2, SMT DEF ProgramStart
    <3> QED
      BY <3>1, ProgramMemory
  <2> QED
    BY <2>1, <2>2, <2>3
<1>8. CASE Below /\ ~InSprite(a) /\ ~InProgram(w, a)
  <2>1. Memory(w, a) = Ram(w, a)
    BY <1>5, <1>8 DEF Memory
  <2>2. Ram(w, a) \in Octet
    BY ViewAssumption DEF Drawable
  <2>3. \A v \in Octet : v \in Nat
    BY SMT DEF Octet
  <2> QED
    BY <2>1, <2>2, <2>3
<1> QED
  BY <1>2, <1>3, <1>4, <1>6, <1>7, <1>8

\* The color of a dot of a sprite, from its row.
DotColor(w, vic, addr, i, x, y) ==
  IF Bit(vic[28], i)
  THEN LET pair == RowDuo(RowAt(w, addr + 3 * y), x)
       IN IF pair = 0 THEN -1 ELSE <<vic[37] % 16, vic[39 + i] % 16, vic[38] % 16>>[pair]
  ELSE IF RowSpot(RowAt(w, addr + 3 * y), x) THEN vic[39 + i] % 16 ELSE -1

\* The same from the dots that were drawn.
ColorOf(w, vic, i, x, y) ==
  IF Bit(vic[28], i)
  THEN CASE Pair(w, x, y) = <<0, 0>> -> -1 [] Pair(w, x, y) = <<0, 1>> -> vic[37] % 16
         [] Pair(w, x, y) = <<1, 0>> -> vic[39 + i] % 16 [] OTHER -> vic[38] % 16
  ELSE IF Ink(w, x, y) = 1 THEN vic[39 + i] % 16 ELSE -1

\* The dot of a sprite that a dot of its picture shows, as the sprite is expanded.
AtOf(vic, i, p) ==
  <<IF Bit(vic[29], i) THEN p[1] \div 2 ELSE p[1], IF Bit(vic[23], i) THEN p[2] \div 2 ELSE p[2]>>

\* Image colors a dot as it was drawn.
LEMMA DotColorIs ==
  ASSUME NEW w \in Drawing, NEW vic, NEW i, NEW b \in SpriteBlock, NEW x \in Across, NEW y \in Down
  PROVE  DotColor(w, vic, 64 * b, i, x, y) = ColorOf(w, vic, i, x, y)
<1> DEFINE u == Ink(w, 2 * (x \div 2), y)
           v == Ink(w, 2 * (x \div 2) + 1, y)
           row == RowAt(w, 64 * b + 3 * y)
           c1 == vic[37] % 16
           c2 == vic[39 + i] % 16
           c3 == vic[38] % 16
           multicolor == Bit(vic[28], i)
           none == -1
<1>1. u \in {0, 1} /\ v \in {0, 1} /\ RowDuo(row, x) = 2 * u + v /\ (RowSpot(row, x) <=> Ink(w, x, y) = 1) /\ Pair(w, x, y) = <<u, v>>
  BY SpriteRow DEF Pair, RowDuo, RowSpot
<1>2. DotColor(w, vic, 64 * b, i, x, y)
        = IF multicolor THEN IF RowDuo(row, x) = 0 THEN none ELSE <<c1, c2, c3>>[RowDuo(row, x)]
          ELSE IF RowSpot(row, x) THEN c2 ELSE none
  BY Zenon DEF DotColor
<1> HIDE DEF u, v, row, c1, c2, c3, multicolor, none
<1>3. CASE multicolor
  <2> DEFINE d == RowDuo(row, x)
             q == Pair(w, x, y)
  <2>1. \/ d = 0 /\ q = <<0, 0>>
        \/ d = 1 /\ q = <<0, 1>>
        \/ d = 2 /\ q = <<1, 0>>
        \/ d = 3 /\ q = <<1, 1>>
    BY <1>1
  <2>2. DotColor(w, vic, 64 * b, i, x, y) = IF d = 0 THEN none ELSE <<c1, c2, c3>>[d]
    BY <1>2, <1>3
  <2> HIDE DEF d, q
  <2>3. (IF d = 0 THEN none ELSE <<c1, c2, c3>>[d])
          = CASE q = <<0, 0>> -> none [] q = <<0, 1>> -> c1 [] q = <<1, 0>> -> c2 [] OTHER -> c3
    BY <2>1, SMT
  <2>4. DotColor(w, vic, 64 * b, i, x, y)
          = CASE q = <<0, 0>> -> none [] q = <<0, 1>> -> c1 [] q = <<1, 0>> -> c2 [] OTHER -> c3
    BY <2>2, <2>3
  <2> QED
    BY <1>3, <2>4, Zenon DEF ColorOf, q, c1, c2, c3, none, multicolor
<1>4. CASE ~multicolor
  BY <1>1, <1>2, <1>4 DEF ColorOf, c2, none, multicolor
<1> QED
  BY <1>3, <1>4

\* The pointers to the sprites are in memory.
LEMMA Pointers == \A i \in 0 .. 7 : 2040 + i \in Address
<1> TAKE i \in 0 .. 7
<1> DEFINE top == 65535
<1>1. 2040 + i \in Int /\ 0 <= 2040 + i /\ 2040 + i <= top /\ top \in Int
  BY SMT
<1>2. Address = 0 .. top
  BY DEF Address
<1> HIDE DEF top
<1> QED
  BY <1>1, <1>2

\* Sprites: a sprite that is enabled shows the dots that were drawn in its block
\* (debug.go:154-199).
LEMMA SpritesTrue ==
  ASSUME NEW m, m[1].drawn \in Drawing, m[3].regs \in Setup, ShownMatrix(m[1].regs) = 1024,
         \A i \in 0 .. 7 : m[4 + i].drawn \in Drawing
  PROVE  SpritesShown(m, Sprites(m))
<1> DEFINE r == m[2].regs
           b3 == m[3].regs
           v == m[1].drawn
<1> SUFFICES ASSUME NEW i \in 0 .. 7,
                    ShownBank(b3) \div 64 + Memory(v, ShownMatrix(m[1].regs) + 1016 + i) \in SpriteBlock,
                    NEW p \in DOMAIN Sprites(m)[i].image
             PROVE  Sprites(m)[i].image[p] = ColorOf(m[4 + i].drawn, r, i, AtOf(r, i, p)[1], AtOf(r, i, p)[2])
  BY ZenonT(60) DEF SpritesShown, ColorOf, AtOf
<1> SUFFICES Sprites(m)[i].image[p]
               = ColorOf(m[4 + i].drawn, r, i, IF Bit(r[29], i) THEN p[1] \div 2 ELSE p[1], IF Bit(r[23], i) THEN p[2] \div 2 ELSE p[2])
  BY DEF AtOf
<1>0. 2040 + i \in Address
  BY Pointers
<1>w. PICK w \in Drawing : w = m[4 + i].drawn
  OBVIOUS
<1>v. v \in Drawing /\ b3 \in Setup /\ ShownMatrix(m[1].regs) = 1024
  OBVIOUS
<1> DEFINE wide == Bit(r[29], i)
           high == Bit(r[23], i)
           addr == bankBase(b3) + Memory(v, 2040 + i) * 64
           D == {q \in Dot : q[1] < (IF wide THEN 48 ELSE 24) /\ q[2] < (IF high THEN 42 ELSE 21)}
           X(q) == IF wide THEN q[1] \div 2 ELSE q[1]
           Y(q) == IF high THEN q[2] \div 2 ELSE q[2]
<1>1. Sprites(m)[i].image = SpriteImage(w, r, addr, i)
  BY <1>w DEF Sprites
<1> HIDE DEF r, b3, v
<1>2. SpriteImage(w, r, addr, i) = [q \in D |-> DotColor(w, r, addr, i, X(q), Y(q))]
  <2> HIDE DEF addr
  <2> QED
    BY DEF SpriteImage, DotColor, RowAt, Row, RowDuo, RowSpot
<1>3. PICK b \in SpriteBlock : addr = 64 * b
  <2>1. PICK n \in Nat : n = Memory(v, 2040 + i)
    BY <1>0, <1>v, MemoryType
  <2>2. 1024 + 1016 + i = 2040 + i
    BY SMT
  <2>3. ShownBank(b3) \div 64 + n \in SpriteBlock
    BY <1>v, <2>1, <2>2
  <2>4. addr = 64 * (ShownBank(b3) \div 64 + n)
    <3>1. bankBase(b3) = ShownBank(b3) /\ ShownBank(b3) \in {0, 16384, 32768, 49152}
      BY <1>v, SameBank
    <3> QED
      BY <2>1, <3>1, SMT
  <2> QED
    BY <2>3, <2>4
<1>4. p \in D /\ p \in Dot /\ Dot \subseteq Nat \X Nat
  <2>1. DOMAIN Sprites(m)[i].image = D
    <3> HIDE DEF addr, D, X, Y
    <3> QED
      BY <1>1, <1>2
  <2>2. Dot \subseteq Nat \X Nat
    BY ViewAssumption, ZenonT(60) DEF Drawable
  <2> QED
    BY <2>1, <2>2
<1>5. X(p) \in Across /\ Y(p) \in Down
  <2>1. PICK a \in Nat, c \in Nat : a = p[1] /\ c = p[2] /\ a < (IF wide THEN 48 ELSE 24) /\ c < (IF high THEN 42 ELSE 21)
    BY <1>4
  <2> HIDE DEF wide, high
  <2> QED
    BY <2>1, SMT DEF Across, Down
<1>6. Sprites(m)[i].image[p] = DotColor(w, r, 64 * b, i, X(p), Y(p))
  <2> HIDE DEF addr, D, X, Y
  <2> QED
    BY <1>1, <1>2, <1>3, <1>4
<1>7. DotColor(w, r, 64 * b, i, X(p), Y(p)) = ColorOf(w, r, i, X(p), Y(p))
  <2> HIDE DEF X, Y
  <2> QED
    BY <1>5, DotColorIs
<1> QED
  BY <1>6, <1>7, <1>w

-----------------------------------------------------------------------------
(* The invariant of the service.                                           *)

Moment == [regs : Setup, drawn : Drawing]

\* A call has met a moment at each of its reads; Bitmap goes on only when the first one
\* shows the bitmap mode.
Met ==
  /\ regs \in Setup /\ drawn \in Drawing
  /\ op # "" =>
       /\ op \in DOMAIN ReadCount /\ got \in Seq(Moment)
       /\ op = "Bitmap" /\ Len(got) >= 2 => Bit(got[1].regs[d011], 5)

\* A picture is what the moments of all reads decode to.
Pictured ==
  \/ picture \in {<<>>, <<"none">>, <<"error">>}
  \/ op # "" /\ Len(got) = ReadCount[op] /\ picture = <<"picture", Decoded>>

ViewInv == Met /\ Pictured

\* The reads of each call.
LEMMA Reads ==
  /\ DOMAIN ReadCount = {"Screen", "ScreenMode", "BASIC", "Charset", "Sprites", "Bitmap"}
  /\ ReadCount["Screen"] = 2 /\ ReadCount["ScreenMode"] = 1 /\ ReadCount["BASIC"] = 1
  /\ ReadCount["Charset"] = 2 /\ ReadCount["Sprites"] = 11 /\ ReadCount["Bitmap"] = 6
BY DEF ReadCount

\* Before the first call nothing has been read and no picture returned.
THEOREM ViewInitInv == ViewInit => ViewInv
BY DEF ViewInit, ViewInv, Met, Pictured

\* Every read of a call, its end, its failure, and every change of the registers and of memory by
\* a program on the C64 keeps the invariant (debug.go:29-246).
THEOREM ViewNextInv == ViewInv /\ [ViewNext]_viewVars => ViewInv'
<1> SUFFICES ASSUME ViewInv, [ViewNext]_viewVars PROVE ViewInv'
  OBVIOUS
<1>0. Met /\ Pictured
  BY DEF ViewInv
<1>1. ASSUME NEW o \in DOMAIN ReadCount, CallDebug(o) PROVE ViewInv'
  <2>1. op' = o /\ got' = <<>> /\ picture' = <<>> /\ regs' = regs /\ drawn' = drawn
    BY <1>1 DEF CallDebug
  <2>2. <<>> \in Seq(Moment) /\ ~(Len(<<>>) >= 2)
    OBVIOUS
  <2> QED
    BY <1>0, <2>1, <2>2 DEF ViewInv, Met, Pictured
<1>2. ASSUME ReadBlock PROVE ViewInv'
  <2>1. /\ op # "" /\ picture = <<>> /\ ~NotInBitmapMode
        /\ got' = Append(got, [regs |-> regs, drawn |-> drawn])
        /\ regs' = regs /\ drawn' = drawn /\ op' = op /\ picture' = picture
    BY <1>2 DEF ReadBlock, Running
  <2>2. PICK g \in Seq(Moment), n \in Moment : g = got /\ n = [regs |-> regs, drawn |-> drawn]
    BY <1>0, <2>1 DEF Met, Moment
  <2>3. /\ Append(g, n) \in Seq(Moment) /\ Len(Append(g, n)) = Len(g) + 1 /\ Len(g) \in Nat
        /\ \A k \in 1 .. Len(g) : Append(g, n)[k] = g[k]
    OBVIOUS
  <2>4. ASSUME op = "Bitmap", Len(Append(g, n)) >= 2 PROVE Bit(Append(g, n)[1].regs[d011], 5)
    <3>1. 1 \in 1 .. Len(g) /\ (Len(g) = 1 \/ Len(g) >= 2)
      <4>1. PICK l \in Nat : l = Len(g)
        BY <2>3
      <4>2. l + 1 >= 2
        BY <2>3, <2>4, <4>1
      <4> QED
        BY <4>1, <4>2
    <3>2. Bit(g[1].regs[d011], 5)
      BY <1>0, <2>1, <2>2, <2>4, <3>1 DEF Met, NotInBitmapMode
    <3> QED
      BY <2>3, <3>1, <3>2
  <2>5. Met'
    BY <1>0, <2>1, <2>2, <2>3, <2>4 DEF Met
  <2>6. Pictured'
    BY <2>1 DEF Pictured
  <2> QED
    BY <2>5, <2>6 DEF ViewInv
<1>3. ASSUME GiveUp PROVE ViewInv'
  BY <1>0, <1>3 DEF GiveUp, ViewInv, Met, Pictured
<1>4. ASSUME Decode PROVE ViewInv'
  <2>1. /\ picture' = <<"picture", Decoded>> /\ Len(got) = ReadCount[op] /\ op # ""
        /\ UNCHANGED <<regs, drawn, op, got>>
    BY <1>4 DEF Decode, Running
  <2>2. Decoded' = Decoded
    BY <2>1 DEF Decoded
  <2> QED
    BY <1>0, <2>1, <2>2 DEF ViewInv, Met, Pictured
<1>5. ASSUME Turn PROVE ViewInv'
  <2>1. regs' \in Setup /\ drawn' \in Drawing /\ UNCHANGED <<op, got, picture>>
    BY <1>0, <1>5 DEF Turn, Met
  <2>2. Decoded' = Decoded
    BY <2>1 DEF Decoded
  <2> QED
    BY <1>0, <2>1, <2>2 DEF ViewInv, Met, Pictured
<1>6. ASSUME UNCHANGED viewVars PROVE ViewInv'
  <2>1. UNCHANGED <<regs, drawn, op, got, picture>>
    BY <1>6 DEF viewVars
  <2>2. Decoded' = Decoded
    BY <2>1 DEF Decoded
  <2> QED
    BY <1>0, <2>1, <2>2 DEF ViewInv, Met, Pictured
<1> QED
  BY <1>1, <1>2, <1>3, <1>4, <1>5, <1>6 DEF ViewNext

\* Every part of what a call of the debug service returns is what the C64 showed when the call
\* read that part, for every text, bitmap and sprite in memory, every program of at most 4096
\* bytes and every setting of the registers, however often a program changes them between the
\* reads; sprites on the default screen, characters in the first bank (debug.go:29-246).
THEOREM PicturesAreTrue == ViewSpec => []PictureTrue
<1>1. ASSUME ViewInv PROVE PictureTrue
  <2> SUFFICES ASSUME Len(picture) = 2 PROVE Agrees(got)
    BY DEF PictureTrue
  <2>1. op # "" /\ Len(got) = ReadCount[op] /\ picture = <<"picture", Decoded>>
    <3>1. picture # <<>> /\ picture # <<"none">> /\ picture # <<"error">>
      BY SMT
    <3> QED
      BY <1>1, <3>1, Zenon DEF ViewInv, Pictured
  <2>2. /\ op \in DOMAIN ReadCount /\ got \in Seq(Moment)
        /\ op = "Bitmap" /\ Len(got) >= 2 => Bit(got[1].regs[d011], 5)
    BY <1>1, <2>1 DEF ViewInv, Met
  <2>3. picture[2] = Decoded
    BY <2>1
  <2>4. ASSUME NEW k \in 1 .. Len(got) PROVE got[k].regs \in Setup /\ got[k].drawn \in Drawing
    <3>1. got[k] \in Moment
      BY <2>2, <2>4
    <3> QED
      BY <3>1 DEF Moment
  <2>5. CASE op = "Screen"
    <3>1. 1 \in 1 .. Len(got) /\ 2 \in 1 .. Len(got)
      BY <2>1, <2>5, Reads
    <3>2. TextShown(got, Screen(got))
      BY <2>4, <3>1, ScreenTrue
    <3> QED
      BY <2>3, <2>5, <3>2 DEF Agrees, Decoded
  <2>6. CASE op = "ScreenMode"
    BY <2>3, <2>6, SMT DEF Agrees, Decoded
  <2>7. CASE op = "BASIC"
    <3>1. 1 \in 1 .. Len(got)
      BY <2>1, <2>7, Reads
    <3>2. DecodeBASICProgram(got[1].drawn) = BASICProgram(got[1].drawn)
      BY <2>4, <3>1, ProgramListed
    <3> QED
      BY <2>3, <2>7, <3>2, SMT DEF Agrees, Decoded
  <2>8. CASE op = "Charset"
    <3>1. 1 \in 1 .. Len(got) /\ 2 \in 1 .. Len(got)
      BY <2>1, <2>8, Reads
    <3>2. CharsetShown(got, Charset(got))
      BY <2>4, <3>1, CharsetTrue
    <3> QED
      BY <2>3, <2>8, <3>2, SMT DEF Agrees, Decoded
  <2>9. CASE op = "Sprites"
    <3>1. \A k \in 1 .. 11 : k \in 1 .. Len(got)
      BY <2>1, <2>9, Reads
    <3>2. got[1].drawn \in Drawing /\ got[3].regs \in Setup /\ \A i \in 0 .. 7 : got[4 + i].drawn \in Drawing
      BY <2>4, <3>1
    <3>3. ShownMatrix(got[1].regs) = 1024 => SpritesShown(got, Sprites(got))
      BY <3>2, SpritesTrue
    <3> QED
      BY <2>3, <2>9, <3>3, SMT DEF Agrees, Decoded
  <2>10. CASE op = "Bitmap"
    <3>1. Len(got) >= 2 /\ 1 \in 1 .. Len(got) /\ 2 \in 1 .. Len(got) /\ 4 \in 1 .. Len(got)
      BY <2>1, <2>10, Reads
    <3>2. BitmapShown(got, Bitmap(got))
      BY <2>4, <3>1, BitmapTrue
    <3>3. Bit(got[1].regs[d011], 5)
      BY <2>2, <2>10, <3>1
    <3> QED
      BY <2>3, <2>10, <3>2, <3>3, SMT DEF Agrees, Decoded
  <2> QED
    BY <2>2, <2>5, <2>6, <2>7, <2>8, <2>9, <2>10, Reads
<1> QED
  BY <1>1, ViewInitInv, ViewNextInv, PTL DEF ViewSpec

==============================================================================
