--------------------------- MODULE DirWalkerProofs ---------------------------
(***************************************************************************)
(* Proofs about DirWalker for every tree, every pool, every channel        *)
(* capacity, every batch size and every callback.                          *)
(***************************************************************************)
EXTENDS DirWalker, FiniteSetTheorems, SequenceTheorems, TLAPS

-----------------------------------------------------------------------------
(* Sequences as lists without repetition.                                  *)

\* What append does to a list without repetition.
LEMMA AppendRange ==
  ASSUME NEW S, NEW s \in Seq(S), NEW x \in S
  PROVE  /\ Append(s, x) \in Seq(S)
         /\ Len(Append(s, x)) = Len(s) + 1
         /\ Range(Append(s, x)) = Range(s) \cup {x}
         /\ IsInjective(s) /\ x \notin Range(s) => IsInjective(Append(s, x))
<1>1. /\ Append(s, x) \in Seq(S)
      /\ Len(Append(s, x)) = Len(s) + 1
      /\ DOMAIN Append(s, x) = 1 .. (Len(s) + 1)
      /\ DOMAIN s = 1 .. Len(s)
      /\ \A i \in 1 .. Len(s) : Append(s, x)[i] = s[i]
      /\ Append(s, x)[Len(s) + 1] = x
      /\ Len(s) \in Nat
  OBVIOUS
<1>2. Range(Append(s, x)) = Range(s) \cup {x}
  BY <1>1 DEF Range
<1>3. IsInjective(s) /\ x \notin Range(s) => IsInjective(Append(s, x))
  BY <1>1 DEF IsInjective, Range
<1> QED
  BY <1>1, <1>2, <1>3

\* Taking the head off a list.
LEMMA TailRange ==
  ASSUME NEW S, NEW s \in Seq(S), s # <<>>
  PROVE  /\ Head(s) \in S
         /\ Tail(s) \in Seq(S)
         /\ Len(Tail(s)) = Len(s) - 1
         /\ Head(s) \in Range(s)
         /\ Range(s) = {Head(s)} \cup Range(Tail(s))
         /\ IsInjective(s) => IsInjective(Tail(s)) /\ Head(s) \notin Range(Tail(s))
<1>1. /\ Head(s) \in S
      /\ Tail(s) \in Seq(S)
      /\ Len(s) \in Nat \ {0}
      /\ Len(Tail(s)) = Len(s) - 1
      /\ DOMAIN Tail(s) = 1 .. (Len(s) - 1)
      /\ DOMAIN s = 1 .. Len(s)
      /\ \A i \in 1 .. (Len(s) - 1) : Tail(s)[i] = s[i + 1]
      /\ Head(s) = s[1]
  OBVIOUS
<1>2. ASSUME NEW i \in 1 .. Len(s), i # 1
      PROVE  s[i] \in Range(Tail(s))
  <2>1. i - 1 \in DOMAIN Tail(s) /\ s[i] = Tail(s)[i - 1]
    BY <1>1, <1>2
  <2> QED
    BY <2>1 DEF Range
<1>3. Range(s) = {Head(s)} \cup Range(Tail(s))
  <2>1. Range(s) \subseteq {Head(s)} \cup Range(Tail(s))
    BY <1>1, <1>2 DEF Range
  <2>2. ASSUME NEW i \in DOMAIN Tail(s)
        PROVE  Tail(s)[i] \in Range(s)
    <3>1. i + 1 \in DOMAIN s /\ Tail(s)[i] = s[i + 1]
      BY <1>1
    <3> QED
      BY <3>1 DEF Range
  <2>3. Head(s) \in Range(s)
    BY <1>1 DEF Range
  <2> QED
    BY <2>1, <2>2, <2>3 DEF Range
<1>4. IsInjective(s) => IsInjective(Tail(s)) /\ Head(s) \notin Range(Tail(s))
  BY <1>1 DEF IsInjective, Range
<1> QED
  BY <1>1, <1>3, <1>4 DEF Range

\* Concatenating two lists.
LEMMA ConcatRange ==
  ASSUME NEW S, NEW s \in Seq(S), NEW t \in Seq(S)
  PROVE  /\ s \o t \in Seq(S)
         /\ Range(s \o t) = Range(s) \cup Range(t)
         /\ IsInjective(s) /\ IsInjective(t) /\ Range(s) \cap Range(t) = {}
            => IsInjective(s \o t)
<1>1. /\ s \o t \in Seq(S)
      /\ DOMAIN (s \o t) = 1 .. (Len(s) + Len(t))
      /\ DOMAIN s = 1 .. Len(s)
      /\ DOMAIN t = 1 .. Len(t)
      /\ Len(s) \in Nat
      /\ Len(t) \in Nat
      /\ \A i \in 1 .. Len(s) : (s \o t)[i] = s[i]
      /\ \A i \in 1 .. Len(t) : (s \o t)[Len(s) + i] = t[i]
  OBVIOUS
<1>2. \A i \in 1 .. (Len(s) + Len(t)) :
        \/ i \in 1 .. Len(s) /\ (s \o t)[i] = s[i]
        \/ i - Len(s) \in 1 .. Len(t) /\ (s \o t)[i] = t[i - Len(s)]
  <2> SUFFICES ASSUME NEW i \in 1 .. (Len(s) + Len(t)), i \notin 1 .. Len(s)
               PROVE  i - Len(s) \in 1 .. Len(t) /\ (s \o t)[i] = t[i - Len(s)]
    BY <1>1
  <2>1. i - Len(s) \in 1 .. Len(t) /\ i = Len(s) + (i - Len(s))
    BY <1>1
  <2> QED
    BY <1>1, <2>1
<1>3. Range(s \o t) = Range(s) \cup Range(t)
  <2>1. Range(s \o t) \subseteq Range(s) \cup Range(t)
    BY <1>1, <1>2 DEF Range
  <2>2. Range(s) \subseteq Range(s \o t)
    BY <1>1 DEF Range
  <2>3. ASSUME NEW i \in 1 .. Len(t)
        PROVE  t[i] \in Range(s \o t)
    <3>1. Len(s) + i \in DOMAIN (s \o t)
      BY <1>1
    <3> QED
      BY <1>1, <3>1 DEF Range
  <2> QED
    BY <1>1, <2>1, <2>2, <2>3 DEF Range
<1>4. ASSUME IsInjective(s), IsInjective(t), Range(s) \cap Range(t) = {}
      PROVE  IsInjective(s \o t)
  <2> SUFFICES ASSUME NEW i \in 1 .. (Len(s) + Len(t)), NEW j \in 1 .. (Len(s) + Len(t)),
                      (s \o t)[i] = (s \o t)[j]
               PROVE  i = j
    BY <1>1 DEF IsInjective
  <2>1. CASE i \in 1 .. Len(s) /\ j \in 1 .. Len(s)
    BY <1>1, <1>4, <2>1 DEF IsInjective
  <2>2. CASE i \notin 1 .. Len(s) /\ j \notin 1 .. Len(s)
    <3>1. t[i - Len(s)] = t[j - Len(s)] /\ i - Len(s) \in 1 .. Len(t)
          /\ j - Len(s) \in 1 .. Len(t)
      BY <1>2, <2>2
    <3>2. i - Len(s) = j - Len(s)
      BY <1>1, <1>4, <3>1 DEF IsInjective
    <3> QED
      BY <1>1, <3>2
  <2>3. CASE i \in 1 .. Len(s) /\ j \notin 1 .. Len(s)
    <3>1. (s \o t)[i] \in Range(s)
      BY <1>1, <2>3 DEF Range
    <3>2. (s \o t)[j] \in Range(t)
      BY <1>1, <1>2, <2>3 DEF Range
    <3> QED
      BY <1>4, <3>1, <3>2
  <2>4. CASE i \notin 1 .. Len(s) /\ j \in 1 .. Len(s)
    <3>1. (s \o t)[j] \in Range(s)
      BY <1>1, <2>4 DEF Range
    <3>2. (s \o t)[i] \in Range(t)
      BY <1>1, <1>2, <2>4 DEF Range
    <3> QED
      BY <1>4, <3>1, <3>2
  <2> QED
    BY <2>1, <2>2, <2>3, <2>4
<1> QED
  BY <1>1, <1>3, <1>4

-----------------------------------------------------------------------------
(* Types, and which of its variables a goroutine uses where.               *)

Idle == {"idle", "exited", "dead"}

MainShape ==
  /\ hold \in Root <=> main = "send"
  /\ main = "returned" => seeds = {}

CurShape ==
  \A w \in Worker :
    /\ pc[w] \in {"taken", "offer"} => cur[w] \in Dir
    /\ pc[w] \in {"file", "inlineFile"} => cur[w] \in File
    /\ pc[w] \notin {"taken", "offer", "file", "inlineFile"} => cur[w] = None

RestShape ==
  \A w \in Worker : pc[w] \notin {"loop", "offer", "file", "inlineFile", "batch"}
                    => rest[w] = {} /\ inl[w] = {}

LocalShape ==
  \A w \in Worker : pc[w] \in Idle \cup {"taken", "done", "lastDone"}
                    => local[w] = <<>>

Shape == MainShape /\ CurShape /\ RestShape /\ LocalShape

TypeInv == TypeOK /\ Shape

LEMMA TypeInit == Init => TypeInv
<1> SUFFICES ASSUME Init PROVE TypeInv
  OBVIOUS
<1> USE PoolAssumption, WalkTreeAssumption DEF Init, Node
<1>1. /\ <<>> \in Seq(Dir)
      /\ <<>> \in Seq(File)
      /\ Len(<<>>) = 0
  OBVIOUS
<1>2. TypeOK
  <2>1. dirs \in Seq(Dir) /\ Len(dirs) <= Capacity /\ results \in Seq(File)
    BY <1>1
  <2>2. local \in [Worker -> Seq(File)]
    BY <1>1
  <2>3. quit \in BOOLEAN
    BY Zenon
  <2>4. /\ wg \in Int
        /\ main \in {"seed", "send", "returned"}
        /\ seeds \subseteq Root
        /\ hold \in Root \cup {None}
        /\ pc \in [Worker -> Location]
        /\ cur \in [Worker -> Node \cup {None}]
        /\ rest \in [Worker -> SUBSET Node]
        /\ inl \in [Worker -> SUBSET Node]
        /\ opened \subseteq Dir
        /\ failed \subseteq Dir
    BY DEF Location, Working
  <2> QED
    BY <2>1, <2>2, <2>3, <2>4 DEF TypeOK
<1>3. Shape
  BY <1>1 DEF Shape, MainShape, CurShape, RestShape, LocalShape, Idle
<1> QED
  BY <1>2, <1>3 DEF TypeInv

\* The calling goroutine keeps the types.
LEMMA TypeMain == TypeInv /\ Main => TypeInv'
<1> SUFFICES ASSUME TypeInv, Main PROVE TypeInv'
  OBVIOUS
<1> USE PoolAssumption, WalkTreeAssumption
    DEF TypeInv, TypeOK, Shape, MainShape, CurShape, RestShape, LocalShape, Node
<1>1. CASE AddRoot
  BY <1>1 DEF AddRoot
<1>2. CASE SendRoot
  <2>1. /\ Append(dirs, hold) \in Seq(Dir)
        /\ Len(Append(dirs, hold)) = Len(dirs) + 1
    BY <1>2, AppendRange DEF SendRoot
  <2> QED
    BY <1>2, <2>1 DEF SendRoot
<1>3. CASE ReturnResults
  BY <1>3 DEF ReturnResults
<1> QED
  BY <1>1, <1>2, <1>3 DEF Main

\* So does every step of a worker.
LEMMA TypeWorker == ASSUME NEW w \in Worker, TypeInv, WorkerStep(w) PROVE TypeInv'
<1> USE PoolAssumption, WalkTreeAssumption
    DEF TypeInv, TypeOK, Shape, MainShape, CurShape, RestShape, LocalShape, Node,
        mainVars, readVars, Location, Working, Idle, Remove
<1>1. CASE Take(w)
  <2>1. /\ Head(dirs) \in Dir
        /\ Tail(dirs) \in Seq(Dir)
        /\ Len(Tail(dirs)) = Len(dirs) - 1
    BY <1>1, TailRange DEF Take
  <2> QED
    BY <1>1, <2>1 DEF Take
<1>2. CASE Exit(w)
  BY <1>2 DEF Exit
<1>3. CASE Drain(w)
  BY <1>3 DEF Drain
<1>4. CASE ReadTaken(w)
  BY <1>4 DEF ReadTaken
<1>5. CASE FailTaken(w)
  BY <1>5 DEF FailTaken
<1>6. CASE SkipEntry(w)
  BY <1>6 DEF SkipEntry
<1>7. CASE PickDir(w)
  BY <1>7 DEF PickDir
<1>8. CASE PickFile(w)
  BY <1>8 DEF PickFile
<1>9. CASE Abandon(w)
  BY <1>9 DEF Abandon
<1>10. CASE EndDir(w)
  BY <1>10 DEF EndDir
<1>11. CASE Offer(w)
  <2>1. /\ Append(dirs, cur[w]) \in Seq(Dir)
        /\ Len(Append(dirs, cur[w])) = Len(dirs) + 1
    BY <1>11, AppendRange DEF Offer
  <2> QED
    BY <1>11, <2>1 DEF Offer
<1>12. CASE ReadInline(w)
  BY <1>12 DEF ReadInline
<1>13. CASE FailInline(w)
  BY <1>13 DEF FailInline
<1>14. CASE Keep(w)
  <2>1. Append(local[w], cur[w]) \in Seq(File)
    BY <1>14, AppendRange DEF Keep
  <2> QED
    BY <1>14, <2>1 DEF Keep
<1>15. CASE Stop(w)
  BY <1>15 DEF Stop
<1>16. CASE Flush(w)
  <2>1. results \o local[w] \in Seq(File)
    BY <1>16, ConcatRange DEF Flush
  <2>2. /\ pc[w] \in {"batch", "flush", "lastFlush"}
        /\ pc' = [pc EXCEPT ![w] = pc'[w]]
        /\ pc[w] = "batch" => pc'[w] = "loop"
        /\ pc[w] = "flush" => pc'[w] = "done"
        /\ pc[w] = "lastFlush" => pc'[w] = "lastDone"
    BY <1>16 DEF Flush
  <2>3. /\ local' \in [Worker -> Seq(File)]
        /\ local'[w] = <<>>
        /\ \A v \in Worker \ {w} : local'[v] = local[v]
    BY <1>16 DEF Flush
  <2>4. TypeOK'
    BY <1>16, <2>1, <2>2, <2>3 DEF Flush
  <2>5. LocalShape'
    BY <1>16, <2>2, <2>3 DEF Flush
  <2>6. MainShape' /\ CurShape' /\ RestShape'
    BY <1>16, <2>2 DEF Flush
  <2> QED
    BY <2>4, <2>5, <2>6, Zenon
<1>17. CASE Done(w)
  <2>1. \/ pc[w] = "done" /\ pc' = [pc EXCEPT ![w] = "idle"]
        \/ pc[w] = "lastDone" /\ pc' = [pc EXCEPT ![w] = "dead"]
    BY <1>17 DEF Done
  <2>2. TypeOK'
    BY <1>17, <2>1 DEF Done
  <2>3. MainShape' /\ CurShape'
    BY <1>17, <2>1 DEF Done
  <2>4. RestShape' /\ LocalShape'
    BY <1>17, <2>1 DEF Done
  <2> QED
    BY <2>2, <2>3, <2>4, Zenon
<1> QED
  BY <1>1, <1>2, <1>3, <1>4, <1>5, <1>6, <1>7, <1>8, <1>9, <1>10, <1>11, <1>12,
     <1>13, <1>14, <1>15, <1>16, <1>17 DEF WorkerStep

LEMMA TypeNext == TypeInv /\ [Next]_vars => TypeInv'
<1> SUFFICES ASSUME TypeInv, [Next]_vars PROVE TypeInv'
  OBVIOUS
<1>1. CASE UNCHANGED vars
  BY <1>1 DEF TypeInv, TypeOK, Shape, MainShape, CurShape, RestShape, LocalShape, vars
<1> QED
  BY <1>1, TypeMain, TypeWorker DEF Next, Over

\* Every variable keeps its type: in particular the channel never holds more than
\* its capacity, and a worker flushes and forgets its work before it goes idle.
THEOREM TypeCorrect == Spec => []TypeInv
<1> QED
  BY TypeInit, TypeNext, PTL DEF Spec

\* The type invariant the runs check (Init and the actions of DirWalker).
THEOREM TypeOKCorrect == Spec => []TypeOK
<1>1. TypeInv => TypeOK
  BY DEF TypeInv
<1> QED
  BY <1>1, TypeCorrect, PTL

-----------------------------------------------------------------------------
(* The WaitGroup.                                                          *)

\* How much of wg a worker at location l accounts for.
Weight(l) == IF l = "offer" THEN 2 ELSE IF l \in Working THEN 1 ELSE 0

\* What all workers together account for.
Load == Cardinality(Busy) + Cardinality(Offering)

\* Moving one worker changes the load by the difference of the weights.
LEMMA LoadMove ==
  ASSUME TypeOK, NEW w \in Worker, NEW l \in Location, pc' = [pc EXCEPT ![w] = l]
  PROVE  /\ Load \in Nat
         /\ Load' = Load + Weight(l) - Weight(pc[w])
<1>1. \A T \in SUBSET Worker : IsFiniteSet(T) /\ Cardinality(T) \in Nat
  BY PoolAssumption, FS_Subset, FS_CardinalityType
<1>2. Busy \in SUBSET Worker /\ Offering \in SUBSET Worker
  BY DEF Busy, Offering
<1>3. /\ \A v \in Worker : pc'[v] = IF v = w THEN l ELSE pc[v]
      /\ w \in Busy <=> pc[w] \in Working
      /\ w \in Offering <=> pc[w] = "offer"
  BY DEF TypeOK, Busy, Offering
<1>4. /\ Busy' = IF l \in Working THEN Busy \cup {w} ELSE Busy \ {w}
      /\ Offering' = IF l = "offer" THEN Offering \cup {w} ELSE Offering \ {w}
  BY <1>3 DEF Busy, Offering
<1>5. /\ Cardinality(Busy \cup {w}) = IF w \in Busy THEN Cardinality(Busy) ELSE Cardinality(Busy) + 1
      /\ Cardinality(Busy \ {w}) = IF w \in Busy THEN Cardinality(Busy) - 1 ELSE Cardinality(Busy)
      /\ Cardinality(Offering \cup {w}) = IF w \in Offering THEN Cardinality(Offering) ELSE Cardinality(Offering) + 1
      /\ Cardinality(Offering \ {w}) = IF w \in Offering THEN Cardinality(Offering) - 1 ELSE Cardinality(Offering)
  BY <1>1, <1>2, FS_AddElement, FS_RemoveElement
<1>6. "offer" \in Working
  BY DEF Working
<1>7. CASE l = "offer"
  BY <1>1, <1>2, <1>3, <1>4, <1>5, <1>6, <1>7 DEF Load, Weight
<1>8. CASE l \in Working /\ l # "offer"
  BY <1>1, <1>2, <1>3, <1>4, <1>5, <1>6, <1>8 DEF Load, Weight
<1>9. CASE l \notin Working
  BY <1>1, <1>2, <1>3, <1>4, <1>5, <1>6, <1>9 DEF Load, Weight
<1> QED
  BY <1>7, <1>8, <1>9

LEMMA Balance ==
  ASSUME NEW q \in Int, NEW d \in Int, NEW t \in Int,
         NEW dq \in Int, NEW a \in Int, NEW b \in Int
  PROVE  q + d + t + (dq + a - b) = q + dq + (d + a - b) + t
  OBVIOUS

\* Worker w goes to l, the channel grows by dq and wg by dw, in balance.
Moves(w, l, dq, dw) ==
  /\ l \in Location
  /\ pc' = [pc EXCEPT ![w] = l]
  /\ Len(dirs') = Len(dirs) + dq
  /\ wg' = wg + dw
  /\ main' = main
  /\ dw = dq + Weight(l) - Weight(pc[w])

\* A balanced move keeps the counter exact.
LEMMA CounterMove ==
  ASSUME NEW w \in Worker, NEW l, NEW dq \in Int, NEW dw \in Int,
         TypeInv, CounterExact, Moves(w, l, dq, dw)
  PROVE  CounterExact'
<1>1. /\ Len(dirs) \in Nat
      /\ wg \in Int
      /\ TypeOK
  BY DEF TypeInv, TypeOK
<1>2. /\ Load \in Nat
      /\ Load' = Load + Weight(l) - Weight(pc[w])
  BY <1>1, LoadMove DEF Moves
<1>3. \A k : Weight(k) \in Nat
  BY DEF Weight
<1> DEFINE Sent == IF main = "send" THEN 1 ELSE 0
<1>4. /\ Cardinality(Busy) \in Nat
      /\ Cardinality(Offering) \in Nat
      /\ Cardinality(Busy') \in Nat
      /\ Cardinality(Offering') \in Nat
  BY PoolAssumption, FS_Subset, FS_CardinalityType DEF CounterExact, Busy, Offering
<1>5. wg = Len(dirs) + Load + Sent /\ Sent \in Nat
  BY <1>1, <1>4 DEF CounterExact, Load
<1>6. /\ Len(dirs') = Len(dirs) + dq
      /\ wg' = wg + dw
      /\ dw = dq + Weight(l) - Weight(pc[w])
      /\ Sent' = Sent
  BY DEF Moves
<1> HIDE DEF Sent
<1>7. wg' = Len(dirs') + Load' + Sent'
  <2>1. /\ Weight(l) \in Int
        /\ Weight(pc[w]) \in Int
        /\ Len(dirs) \in Int
        /\ Load \in Int
        /\ Sent \in Int
    BY <1>1, <1>2, <1>3, <1>5
  <2>2. Len(dirs) + Load + Sent + (dq + Weight(l) - Weight(pc[w]))
          = Len(dirs) + dq + (Load + Weight(l) - Weight(pc[w])) + Sent
    BY <2>1, Balance
  <2> QED
    BY <1>2, <1>5, <1>6, <2>2
<1>8. Len(dirs') \in Int /\ Sent' \in Int
  BY <1>1, <1>5, <1>6
<1> QED
  BY <1>4, <1>7, <1>8 DEF CounterExact, Load, Sent

\* A worker's step moves wg as it moves the work that wg stands for.
LEMMA CounterWorker ==
  ASSUME NEW w \in Worker, TypeInv, CounterExact, WorkerStep(w)
  PROVE  CounterExact'
<1>1. /\ Len(dirs) \in Nat
      /\ wg \in Int
      /\ pc[w] \in Location
  BY DEF TypeInv, TypeOK
<1>2. CASE Take(w)
  <2>1. Len(dirs') = Len(dirs) - 1
    BY <1>2, TailRange DEF Take, TypeInv, TypeOK
  <2>2. Moves(w, "taken", -1, 0)
    BY <1>1, <1>2, <2>1 DEF Take, Moves, Weight, Location, Working, mainVars
  <2> QED
    BY <2>2, CounterMove
<1>3. CASE Exit(w)
  <2>1. Moves(w, "exited", 0, 0)
    BY <1>1, <1>3 DEF Exit, Moves, Weight, Location, Working, mainVars
  <2> QED
    BY <2>1, CounterMove
<1>4. CASE Drain(w)
  <2>1. Moves(w, "flush", 0, 0)
    BY <1>1, <1>4 DEF Drain, Moves, Weight, Location, Working, mainVars
  <2> QED
    BY <2>1, CounterMove
<1>5. CASE ReadTaken(w)
  <2>1. Moves(w, "loop", 0, 0)
    BY <1>1, <1>5 DEF ReadTaken, Moves, Weight, Location, Working, mainVars
  <2> QED
    BY <2>1, CounterMove
<1>6. CASE FailTaken(w)
  <2>1. Moves(w, "flush", 0, 0)
    BY <1>1, <1>6 DEF FailTaken, Moves, Weight, Location, Working, mainVars
  <2> QED
    BY <2>1, CounterMove
<1>7. CASE SkipEntry(w)
  BY <1>7 DEF SkipEntry, CounterExact, Busy, Offering, mainVars
<1>8. CASE PickDir(w)
  <2>1. Moves(w, "offer", 0, 1)
    BY <1>1, <1>8 DEF PickDir, Moves, Weight, Location, Working, mainVars
  <2> QED
    BY <2>1, CounterMove
<1>9. CASE PickFile(w)
  <2>1. \/ pc[w] = "loop" /\ pc' = [pc EXCEPT ![w] = "file"]
        \/ pc[w] = "loop" /\ pc' = [pc EXCEPT ![w] = "inlineFile"]
    BY <1>9 DEF PickFile
  <2>2. \/ Moves(w, "file", 0, 0)
        \/ Moves(w, "inlineFile", 0, 0)
    BY <1>1, <1>9, <2>1 DEF PickFile, Moves, Weight, Location, Working, mainVars
  <2> QED
    BY <2>2, CounterMove
<1>10. CASE Abandon(w)
  <2>1. Moves(w, "flush", 0, 0)
    BY <1>1, <1>10 DEF Abandon, Moves, Weight, Location, Working, mainVars
  <2> QED
    BY <2>1, CounterMove
<1>11. CASE EndDir(w)
  <2>1. Moves(w, "flush", 0, 0)
    BY <1>1, <1>11 DEF EndDir, Moves, Weight, Location, Working, mainVars
  <2> QED
    BY <2>1, CounterMove
<1>12. CASE Offer(w)
  <2>1. Len(dirs') = Len(dirs) + 1
    BY <1>12, AppendRange DEF Offer, TypeInv, TypeOK, Shape, CurShape
  <2>2. Moves(w, "loop", 1, 0)
    BY <1>1, <1>12, <2>1 DEF Offer, Moves, Weight, Location, Working, mainVars
  <2> QED
    BY <2>2, CounterMove
<1>13. CASE ReadInline(w)
  <2>1. Moves(w, "loop", 0, -1)
    BY <1>1, <1>13 DEF ReadInline, Moves, Weight, Location, Working, mainVars
  <2> QED
    BY <2>1, CounterMove
<1>14. CASE FailInline(w)
  <2>1. Moves(w, "loop", 0, -1)
    BY <1>1, <1>14 DEF FailInline, Moves, Weight, Location, Working, mainVars
  <2> QED
    BY <2>1, CounterMove
<1>15. CASE Keep(w)
  <2>1. \/ pc[w] \in {"file", "inlineFile"} /\ pc' = [pc EXCEPT ![w] = "batch"]
        \/ pc[w] \in {"file", "inlineFile"} /\ pc' = [pc EXCEPT ![w] = "loop"]
    BY <1>15 DEF Keep
  <2>2. \/ Moves(w, "batch", 0, 0)
        \/ Moves(w, "loop", 0, 0)
    BY <1>1, <1>15, <2>1 DEF Keep, Moves, Weight, Location, Working, mainVars
  <2> QED
    BY <2>2, CounterMove
<1>16. CASE Stop(w)
  <2>1. \/ pc[w] = "file" /\ pc' = [pc EXCEPT ![w] = "lastFlush"]
        \/ pc[w] = "inlineFile" /\ pc' = [pc EXCEPT ![w] = "flush"]
    BY <1>16 DEF Stop
  <2>2. \/ Moves(w, "lastFlush", 0, 0)
        \/ Moves(w, "flush", 0, 0)
    BY <1>1, <1>16, <2>1 DEF Stop, Moves, Weight, Location, Working, mainVars
  <2> QED
    BY <2>2, CounterMove
<1>17. CASE Flush(w)
  <2>1. \/ pc[w] = "batch" /\ pc' = [pc EXCEPT ![w] = "loop"]
        \/ pc[w] = "flush" /\ pc' = [pc EXCEPT ![w] = "done"]
        \/ pc[w] = "lastFlush" /\ pc' = [pc EXCEPT ![w] = "lastDone"]
    BY <1>17 DEF Flush
  <2>2. Len(dirs') = Len(dirs) + 0 /\ wg' = wg + 0 /\ main' = main
    BY <1>1, <1>17 DEF Flush, mainVars
  <2>3. CASE pc[w] = "batch"
    <3>1. Moves(w, "loop", 0, 0)
      BY <2>1, <2>2, <2>3 DEF Moves, Weight, Location, Working
    <3> QED
      BY <3>1, CounterMove
  <2>4. CASE pc[w] = "flush"
    <3>1. Moves(w, "done", 0, 0)
      BY <2>1, <2>2, <2>4 DEF Moves, Weight, Location, Working
    <3> QED
      BY <3>1, CounterMove
  <2>5. CASE pc[w] = "lastFlush"
    <3>1. Moves(w, "lastDone", 0, 0)
      BY <2>1, <2>2, <2>5 DEF Moves, Weight, Location, Working
    <3> QED
      BY <3>1, CounterMove
  <2> QED
    BY <2>1, <2>3, <2>4, <2>5
<1>18. CASE Done(w)
  <2>1. \/ pc[w] = "done" /\ pc' = [pc EXCEPT ![w] = "idle"]
        \/ pc[w] = "lastDone" /\ pc' = [pc EXCEPT ![w] = "dead"]
    BY <1>18 DEF Done
  <2>2. \/ Moves(w, "idle", 0, -1)
        \/ Moves(w, "dead", 0, -1)
    BY <1>1, <1>18, <2>1 DEF Done, Moves, Weight, Location, Working, mainVars
  <2> QED
    BY <2>2, CounterMove
<1> QED
  BY <1>2, <1>3, <1>4, <1>5, <1>6, <1>7, <1>8, <1>9, <1>10, <1>11, <1>12, <1>13, <1>14, <1>15, <1>16, <1>17, <1>18
  DEF WorkerStep

LEMMA CounterInit == Init => CounterExact
<1> SUFFICES ASSUME Init PROVE CounterExact
  OBVIOUS
<1>1. Busy = {} /\ Offering = {}
  BY DEF Init, Busy, Offering, Working
<1> QED
  BY <1>1, FS_EmptySet DEF Init, CounterExact

LEMMA CounterNext == TypeInv /\ CounterExact /\ [Next]_vars => CounterExact'
<1> SUFFICES ASSUME TypeInv, CounterExact, [Next]_vars PROVE CounterExact'
  OBVIOUS
<1>1. /\ Len(dirs) \in Nat
      /\ wg \in Int
      /\ Cardinality(Busy) \in Nat
      /\ Cardinality(Offering) \in Nat
  BY PoolAssumption, FS_Subset, FS_CardinalityType DEF TypeInv, TypeOK, Busy, Offering
<1> USE DEF CounterExact, Busy, Offering
<1>2. CASE AddRoot
  BY <1>1, <1>2 DEF AddRoot
<1>3. CASE SendRoot
  <2>1. Len(dirs') = Len(dirs) + 1
    BY <1>3, AppendRange, WalkTreeAssumption DEF SendRoot, TypeInv, TypeOK, Shape, MainShape
  <2> QED
    BY <1>1, <1>3, <2>1 DEF SendRoot
<1>4. CASE ReturnResults
  BY <1>1, <1>4 DEF ReturnResults
<1>5. CASE UNCHANGED vars
  BY <1>5 DEF vars
<1> QED
  BY <1>2, <1>3, <1>4, <1>5, CounterWorker DEF Next, Main, Over

\* wg always equals the number of directories in flight, for any pool, channel
\* and tree, with or without a callback.
THEOREM CounterCorrect == Spec => []CounterExact
<1>1. Init => TypeInv /\ CounterExact
  BY TypeInit, CounterInit
<1>2. TypeInv /\ CounterExact /\ [Next]_vars => (TypeInv /\ CounterExact)'
  BY TypeNext, CounterNext
<1> QED
  BY <1>1, <1>2, PTL DEF Spec

-----------------------------------------------------------------------------
(* Nobody works after the return.                                          *)

Quiet == Returned => wg = 0

\* A zero counter means an empty channel and no worker at work.
LEMMA ZeroMeansIdle ==
  ASSUME TypeInv, CounterExact, wg = 0
  PROVE  /\ dirs = <<>>
         /\ main # "send"
         /\ \A w \in Worker : pc[w] \in Idle
<1>1. /\ Len(dirs) \in Nat
      /\ IsFiniteSet(Busy)
      /\ Cardinality(Busy) \in Nat
      /\ Cardinality(Offering) \in Nat
  BY PoolAssumption, FS_Subset, FS_CardinalityType DEF TypeInv, TypeOK, Busy, Offering
<1>2. Len(dirs) = 0 /\ Cardinality(Busy) = 0 /\ main # "send"
  BY <1>1 DEF CounterExact
<1>3. Busy = {}
  BY <1>1, <1>2, FS_EmptySet
<1>4. dirs = <<>>
  BY <1>2 DEF TypeInv, TypeOK
<1> QED
  BY <1>2, <1>3, <1>4 DEF TypeInv, TypeOK, Location, Working, Idle, Busy

LEMMA QuietNext == TypeInv /\ CounterExact /\ Quiet /\ [Next]_vars => Quiet'
<1> SUFFICES ASSUME TypeInv, CounterExact, Quiet, [Next]_vars, Returned'
             PROVE  wg' = 0
  BY DEF Quiet
<1>1. CASE Main
  BY <1>1 DEF Main, AddRoot, SendRoot, ReturnResults, Returned
<1>2. ASSUME NEW w \in Worker, WorkerStep(w)
      PROVE  wg' = 0
  <2>1. Returned
    BY <1>2 DEF WorkerStep, Take, Exit, Drain, ReadTaken, FailTaken, SkipEntry, PickDir,
                PickFile, Abandon, EndDir, Offer, ReadInline, FailInline, Keep, Stop,
                Flush, Done, mainVars, Returned
  <2>2. dirs = <<>> /\ pc[w] \in Idle
    BY <2>1, ZeroMeansIdle DEF Quiet
  <2>3. Exit(w)
    BY <1>2, <2>2 DEF WorkerStep, Take, Drain, ReadTaken, FailTaken, SkipEntry, PickDir,
                PickFile, Abandon, EndDir, Offer, ReadInline, FailInline, Keep, Stop,
                Flush, Done, Idle
  <2> QED
    BY <2>1, <2>3 DEF Exit, Quiet
<1>3. CASE UNCHANGED vars
  BY <1>3 DEF vars, Returned, Quiet
<1> QED
  BY <1>1, <1>2, <1>3 DEF Next, Over

QuietInv == TypeInv /\ CounterExact /\ Quiet

LEMMA QuietCorrect == Spec => []QuietInv
<1>1. Init => QuietInv
  BY TypeInit, CounterInit DEF QuietInv, Quiet, Init, Returned
<1>2. QuietInv /\ [Next]_vars => QuietInv'
  BY TypeNext, CounterNext, QuietNext DEF QuietInv
<1> QED
  BY <1>1, <1>2, PTL DEF Spec

\* The WaitGroup never goes negative, and nobody sends on the closed channel.
THEOREM NoPanicCorrect == Spec => []NoPanic
<1>1. QuietInv => NoPanic
  <2> SUFFICES ASSUME QuietInv PROVE NoPanic
    OBVIOUS
  <2>1. /\ Len(dirs) \in Nat
        /\ Cardinality(Busy) \in Nat
        /\ Cardinality(Offering) \in Nat
    BY PoolAssumption, FS_Subset, FS_CardinalityType DEF QuietInv, TypeInv, TypeOK, Busy, Offering
  <2>2. wg >= 0
    BY <2>1 DEF QuietInv, CounterExact
  <2>3. Returned => dirs = <<>> /\ Offering = {}
    BY ZeroMeansIdle DEF QuietInv, Quiet, Offering, Idle
  <2> QED
    BY <2>2, <2>3 DEF NoPanic
<1> QED
  BY <1>1, QuietCorrect, PTL

-----------------------------------------------------------------------------
(* WalkFiles loses no directory and no file, and reports none twice: where *)
(* every known node is, at every step. The inductive invariant tracks each *)
(* node through the places it can be in (a root not yet sent, the channel, *)
(* a worker's hands, its unread entries, its batch, the results); TLC's    *)
(* invariants Complete and NoDuplicate only look at the ends of the trip.  *)

(* Places.                                                                 *)

\* What the walk knows of: the roots and the relevant entries it has read.
DueNow == C!Due(opened)

\* Every entry it has read, the hidden and unwanted ones included.
Entries == UNION {Child[d] : d \in opened}

\* Waiting for a worker.
Queued == seeds \cup ({hold} \ {None}) \cup Range(dirs)

\* In the hands or in the batch of worker w.
Carried(w) == ({cur[w]} \ {None}) \cup Range(local[w])

\* Entries worker w has still to look at.
Todo(w) == rest[w] \cup inl[w]

\* Dealt with for good.
Settled == opened \cup failed \cup Range(results)

-----------------------------------------------------------------------------
(* The invariant.                                                          *)

Sound ==
  /\ Queued \cup Settled \subseteq DueNow
  /\ \A w \in Worker : Carried(w) \subseteq DueNow /\ Todo(w) \subseteq Entries

\* A node is in one place at a time.
Apart ==
  /\ Queued \cap Settled = {}
  /\ \A w \in Worker :
       /\ (Carried(w) \cup Todo(w)) \cap (Queued \cup Settled) = {}
       /\ Carried(w) \cap Todo(w) = {}
       /\ \A v \in Worker \ {w} : (Carried(w) \cup Todo(w)) \cap (Carried(v) \cup Todo(v)) = {}

\* Unless stopped, the walk never loses sight of a node it has to deal with.
Cover ==
  ~quit => \A n \in DueNow : \/ n \in Queued \cup Settled
                             \/ \E w \in Worker : n \in Carried(w) \cup Todo(w)

\* Within a place, a node is there once.
Once ==
  /\ seeds \cap Range(dirs) = {}
  /\ hold \notin seeds \cup Range(dirs)
  /\ IsInjective(dirs)
  /\ opened \cap failed = {}
  /\ IsInjective(results)
  /\ \A w \in Worker :
       /\ cur[w] \notin Range(local[w])
       /\ IsInjective(local[w])
       /\ rest[w] \cap inl[w] = {}

Track == Sound /\ Apart /\ Cover /\ Once

-----------------------------------------------------------------------------
(* Steps.                                                                  *)

\* The entries of a directory not read before are nodes nobody has met.
LEMMA FreshEntries ==
  ASSUME TypeInv, NEW d \in Dir, d \notin opened
  PROVE  /\ Child[d] \cap (DueNow \cup Entries) = {}
         /\ C!Relevant(d) \subseteq Child[d]
         /\ UNION {Child[e] : e \in opened \cup {d}} = Entries \cup Child[d]
         /\ C!Due(opened \cup {d}) = DueNow \cup C!Relevant(d)
<1>1. \A e \in Dir : C!Relevant(e) \subseteq Child[e]
  BY DEF C!Relevant
<1>2. Child[d] \cap Root = {}
  BY WalkTreeAssumption
<1>3. \A e \in opened : Child[d] \cap Child[e] = {} /\ e \in Dir
  BY WalkTreeAssumption DEF TypeInv, TypeOK
<1>4. Child[d] \cap (DueNow \cup Entries) = {}
  BY <1>1, <1>2, <1>3 DEF DueNow, Entries, C!Due
<1>5. UNION {Child[e] : e \in opened \cup {d}} = Entries \cup Child[d]
  BY DEF Entries
<1>6. C!Due(opened \cup {d}) = DueNow \cup C!Relevant(d)
  BY DEF DueNow, C!Due
<1> QED
  BY <1>1, <1>4, <1>5, <1>6

\* What worker w holds changes to cw and tw; no other worker's does.
WorkerMoves(w, cw, tw) ==
  \A v \in Worker : /\ Carried(v)' = IF v = w THEN cw ELSE Carried(v)
                    /\ Todo(v)' = IF v = w THEN tw ELSE Todo(v)

\* The tree known so far stays the same.
SameTree == DueNow' = DueNow /\ Entries' = Entries

Places == Sound /\ Apart /\ Cover

\* A queued node goes to a worker.
LEMMA Grab ==
  ASSUME Places, NEW w \in Worker, NEW n \in Queued, Queued' = Queued \ {n},
         WorkerMoves(w, Carried(w) \cup {n}, Todo(w)), Settled' = Settled, SameTree,
         quit' = quit
  PROVE  Places'
<1> USE DEF Places, WorkerMoves, SameTree
<1>1. Sound'
  BY DEF Sound
<1>2. Apart'
  BY DEF Apart
<1>3. Cover'
  BY DEF Cover
<1> QED
  BY <1>1, <1>2, <1>3

\* A worker queues a node it carries.
LEMMA Give ==
  ASSUME Places, NEW w \in Worker, NEW n \in Carried(w), Queued' = Queued \cup {n},
         WorkerMoves(w, Carried(w) \ {n}, Todo(w)), Settled' = Settled, SameTree,
         quit' = quit
  PROVE  Places'
<1> USE DEF Places, WorkerMoves, SameTree
<1>1. Sound'
  BY DEF Sound
<1>2. Apart'
  BY DEF Apart
<1>3. Cover'
  BY DEF Cover
<1> QED
  BY <1>1, <1>2, <1>3

\* A worker turns to a relevant entry.
LEMMA Pick ==
  ASSUME Places, NEW w \in Worker, NEW n \in Todo(w) \cap DueNow, Queued' = Queued,
         WorkerMoves(w, Carried(w) \cup {n}, Todo(w) \ {n}), Settled' = Settled, SameTree,
         quit' = quit
  PROVE  Places'
<1> USE DEF Places, WorkerMoves, SameTree
<1>1. Sound'
  BY DEF Sound
<1>2. Apart'
  BY DEF Apart
<1>3. Cover'
  BY DEF Cover
<1> QED
  BY <1>1, <1>2, <1>3

\* A worker lets go of nodes, because it must not look at them or of a stop.
LEMMA Drop ==
  ASSUME Places, NEW w \in Worker, NEW cw, NEW tw, Queued' = Queued,
         cw \subseteq Carried(w), tw \subseteq Todo(w), WorkerMoves(w, cw, tw),
         Settled' = Settled, SameTree, quit => quit',
         ~quit' => ((Carried(w) \cup Todo(w)) \ (cw \cup tw)) \cap DueNow = {}
  PROVE  Places'
<1> USE DEF Places, WorkerMoves, SameTree
<1>1. Sound'
  BY DEF Sound
<1>2. Apart'
  BY DEF Apart
<1>3. Cover'
  BY DEF Cover
<1> QED
  BY <1>1, <1>2, <1>3

\* A worker is done with nodes it carries.
LEMMA Settle ==
  ASSUME Places, NEW w \in Worker, NEW X, X \subseteq Carried(w), Queued' = Queued,
         WorkerMoves(w, Carried(w) \ X, Todo(w)), Settled' = Settled \cup X, SameTree,
         quit' = quit
  PROVE  Places'
<1> USE DEF Places, WorkerMoves, SameTree
<1>1. Sound'
  BY DEF Sound
<1>2. Apart'
  BY DEF Apart
<1>3. Cover'
  BY DEF Cover
<1> QED
  BY <1>1, <1>2, <1>3

\* A worker reads a directory it carries, and has its entries to look at.
LEMMA OpenDir ==
  ASSUME TypeInv, Places, NEW w \in Worker, NEW d \in Carried(w) \cap Dir, Queued' = Queued,
         opened' = opened \cup {d},
         WorkerMoves(w, Carried(w) \ {d}, Todo(w) \cup Child[d]),
         Settled' = Settled \cup {d}, quit' = quit
  PROVE  Places'
<1>1. d \notin opened
  BY DEF Places, Apart, Settled
<1>2. /\ Child[d] \cap (DueNow \cup Entries) = {}
      /\ C!Relevant(d) \subseteq Child[d]
      /\ Entries' = Entries \cup Child[d]
      /\ DueNow' = DueNow \cup C!Relevant(d)
  BY <1>1, FreshEntries DEF Entries, DueNow
<1> USE DEF Places, WorkerMoves
<1>3. Sound'
  BY <1>2 DEF Sound
<1>4. Apart'
  <2>1. /\ Child[d] \cap (Queued \cup Settled) = {}
        /\ \A v \in Worker : Child[d] \cap (Carried(v) \cup Todo(v)) = {}
    BY <1>2 DEF Sound
  <2> QED
    BY <2>1 DEF Apart
<1>5. Cover'
  BY <1>2 DEF Cover
<1> QED
  BY <1>3, <1>4, <1>5

\* An entry the worker has still to look at is due iff the walk wants it.
LEMMA EntryDue ==
  ASSUME TypeInv, NEW n \in Entries
  PROVE  n \in DueNow <=> n \notin Hidden /\ (n \in File => n \in Wanted)
<1>1. PICK d \in opened : n \in Child[d]
  BY DEF Entries
<1>2. d \in Dir
  BY DEF TypeInv, TypeOK
<1>3. n \notin Root
  BY <1>1, <1>2, WalkTreeAssumption
<1> QED
  BY <1>1, <1>3 DEF DueNow, C!Due, C!Relevant

\* A worker that sees the stop keeps only its batch.
LEMMA LetGo ==
  ASSUME Places, NEW w \in Worker, Queued' = Queued,
         WorkerMoves(w, Range(local[w]), {}), Settled' = Settled, SameTree, quit'
  PROVE  Places'
<1>1. Range(local[w]) \subseteq Carried(w)
  BY DEF Carried
<1> USE DEF Places, WorkerMoves, SameTree
<1>2. Sound'
  BY <1>1 DEF Sound
<1>3. Apart'
  BY <1>1 DEF Apart
<1>4. Cover'
  BY DEF Cover
<1> QED
  BY <1>2, <1>3, <1>4

TrackInv == QuietInv /\ Track

\* The calling goroutine only moves roots along.
LEMMA TrackMain == ASSUME TrackInv, Main PROVE Track'
<1> USE DEF TrackInv, QuietInv
<1>1. /\ TypeInv
      /\ Track
      /\ dirs \in Seq(Dir)
      /\ seeds \subseteq Root
      /\ None \notin Root
      /\ Root \subseteq Dir
  BY PoolAssumption, WalkTreeAssumption DEF TypeInv, TypeOK, Node
<1>2. CASE AddRoot
  <2>1. hold = None
    BY <1>1, <1>2 DEF AddRoot, TypeInv, TypeOK, Shape, MainShape
  <2>2. /\ Queued' = Queued
        /\ DueNow' = DueNow /\ Entries' = Entries
        /\ Settled' = Settled
        /\ \A v \in Worker : Carried(v)' = Carried(v) /\ Todo(v)' = Todo(v)
        /\ quit' = quit
    BY <1>1, <1>2, <2>1 DEF AddRoot, Queued, DueNow, Entries, Settled, Carried, Todo
  <2>3. Sound' /\ Apart' /\ Cover'
    BY <1>1, <2>2 DEF Track, Sound, Apart, Cover
  <2>4. Once'
    BY <1>1, <1>2 DEF AddRoot, Track, Once
  <2> QED
    BY <2>3, <2>4 DEF Track
<1>3. CASE SendRoot
  <2>1. hold \in Root
    BY <1>1, <1>3 DEF SendRoot, TypeInv, Shape, MainShape
  <2>2. /\ Range(dirs') = Range(dirs) \cup {hold}
        /\ IsInjective(dirs')
    BY <1>1, <1>3, <2>1, AppendRange DEF SendRoot, Track, Once
  <2>3. /\ Queued' = Queued
        /\ DueNow' = DueNow /\ Entries' = Entries
        /\ Settled' = Settled
        /\ \A v \in Worker : Carried(v)' = Carried(v) /\ Todo(v)' = Todo(v)
        /\ quit' = quit
    BY <1>1, <1>3, <2>1, <2>2 DEF SendRoot, Queued, DueNow, Entries, Settled, Carried, Todo
  <2>4. Sound' /\ Apart' /\ Cover'
    BY <1>1, <2>3 DEF Track, Sound, Apart, Cover
  <2>5. None \notin seeds \cup Range(dirs')
    BY <1>1, <2>1, <2>2, RangeOfSeq, PoolAssumption DEF Node
  <2>6. Once'
    BY <1>1, <1>3, <2>2, <2>5 DEF SendRoot, Track, Once
  <2> QED
    BY <2>4, <2>6 DEF Track
<1>4. CASE ReturnResults
  <2>1. /\ Queued' = Queued
        /\ DueNow' = DueNow /\ Entries' = Entries
        /\ Settled' = Settled
        /\ \A v \in Worker : Carried(v)' = Carried(v) /\ Todo(v)' = Todo(v)
        /\ quit' = quit
    BY <1>4 DEF ReturnResults, Queued, DueNow, Entries, Settled, Carried, Todo
  <2>2. Sound' /\ Apart' /\ Cover'
    BY <1>1, <2>1 DEF Track, Sound, Apart, Cover
  <2>3. Once'
    BY <1>1, <1>4 DEF ReturnResults, Track, Once
  <2> QED
    BY <2>2, <2>3 DEF Track
<1> QED
  BY <1>2, <1>3, <1>4 DEF Main

\* A worker's step moves each node to at most one place, and loses none.
LEMMA TrackWorker == ASSUME NEW w \in Worker, TrackInv, WorkerStep(w) PROVE Track'
<1>1. /\ TypeInv
      /\ Places
      /\ Once
      /\ dirs \in Seq(Dir)
      /\ results \in Seq(File)
      /\ local \in [Worker -> Seq(File)]
      /\ cur \in [Worker -> Node \cup {None}]
      /\ rest \in [Worker -> SUBSET Node]
      /\ inl \in [Worker -> SUBSET Node]
      /\ None \notin Node
  BY PoolAssumption DEF TrackInv, QuietInv, Track, Places, TypeInv, TypeOK
<1>2. CASE Take(w)
  <2> DEFINE n == Head(dirs)
  <2>1. /\ n \in Dir
        /\ n \in Range(dirs)
        /\ Range(dirs) = {n} \cup Range(dirs')
        /\ n \notin Range(dirs')
        /\ IsInjective(dirs')
    BY <1>1, <1>2, TailRange DEF Take, Once
  <2>2. /\ cur[w] = None
        /\ n # None
        /\ n \notin seeds /\ n # hold
    BY <1>1, <1>2, <2>1 DEF Take, TypeInv, Shape, CurShape, Once, Node
  <2>3. /\ n \in Queued
        /\ Queued' = Queued \ {n}
        /\ Settled' = Settled
        /\ SameTree
        /\ quit' = quit
    BY <1>1, <1>2, <2>1, <2>2 DEF Take, Queued, Settled, DueNow, Entries, SameTree, mainVars, readVars
  <2>4. WorkerMoves(w, Carried(w) \cup {n}, Todo(w))
    BY <1>1, <1>2, <2>1, <2>2 DEF Take, WorkerMoves, Carried, Todo
  <2>5. Places'
    BY <1>1, <2>3, <2>4, Grab
  <2>6. n \notin Range(local[w])
    BY <1>1, <2>3 DEF Places, Apart, Carried
  <2>7. Once'
    BY <1>1, <1>2, <2>1, <2>6, <2>2 DEF Take, Once, mainVars, readVars
  <2> QED
    BY <2>5, <2>7 DEF Track, Places
<1>3. CASE Exit(w)
  <2>1. /\ Queued' = Queued
        /\ SameTree
        /\ Settled' = Settled
        /\ \A v \in Worker : Carried(v)' = Carried(v) /\ Todo(v)' = Todo(v)
        /\ quit' = quit
    BY <1>3 DEF Exit, Queued, Carried, Todo, Settled, DueNow, Entries, SameTree, mainVars, readVars
  <2>2. Sound' /\ Apart' /\ Cover'
    BY <1>1, <2>1 DEF SameTree, Sound, Apart, Cover, Places
  <2>3. Once'
    BY <1>1, <1>3 DEF Exit, Once, mainVars, readVars
  <2> QED
    BY <2>2, <2>3 DEF Track
<1>4. CASE Drain(w)
  <2>1. cur[w] \notin Range(local[w])
    BY <1>1 DEF Once
  <2>2. /\ Queued' = Queued
        /\ Settled' = Settled
        /\ SameTree
        /\ quit'
    BY <1>4 DEF Drain, Queued, Settled, DueNow, Entries, SameTree, mainVars, readVars
  <2>3. WorkerMoves(w, Range(local[w]), Todo(w))
    BY <1>1, <1>4, <2>1 DEF Drain, WorkerMoves, Carried, Todo, TypeInv, Shape, CurShape
  <2>4. Range(local[w]) \subseteq Carried(w) /\ Todo(w) \subseteq Todo(w)
    BY DEF Carried
  <2>5. Places'
    BY <1>1, <2>2, <2>3, <2>4, Drop
  <2>6. None \notin Range(local[w])
    BY <1>1, RangeOfSeq DEF Node
  <2>7. Once'
    BY <1>1, <1>4, <2>6 DEF Drain, Once, mainVars, readVars
  <2> QED
    BY <2>5, <2>7 DEF Track, Places
<1>5. CASE ReadTaken(w)
  <2> DEFINE d == cur[w]
  <2>1. /\ d \in Dir
        /\ d # None
        /\ d \notin Range(local[w])
        /\ None \notin Range(local[w])
    BY <1>1, <1>5, RangeOfSeq DEF ReadTaken, TypeInv, Shape, CurShape, Once, Node
  <2>9. rest[w] = {} /\ inl[w] = {}
    BY <1>1, <1>5 DEF ReadTaken, TypeInv, Shape, RestShape
  <2>2. /\ d \in Carried(w) \cap Dir
        /\ Queued' = Queued
        /\ opened' = opened \cup {d}
        /\ Settled' = Settled \cup {d}
        /\ quit' = quit
    BY <1>1, <1>5, <2>1 DEF ReadTaken, Queued, Carried, Settled, mainVars
  <2>3. WorkerMoves(w, Carried(w) \ {d}, Todo(w) \cup Child[d])
    BY <1>1, <1>5, <2>1, <2>9 DEF ReadTaken, WorkerMoves, Carried, Todo
  <2>4. Places'
    BY <1>1, <2>2, <2>3, OpenDir
  <2>5. /\ d \notin opened \cup failed
        /\ Child[d] \cap Todo(w) = {}
    <3>1. d \notin Settled
      BY <1>1, <2>2 DEF Places, Apart
    <3>2. Child[d] \cap Entries = {}
      BY <1>1, <2>1, <3>1, FreshEntries DEF Settled
    <3> QED
      BY <1>1, <3>1, <3>2 DEF Places, Sound, Settled
  <2>6. Once'
    BY <1>1, <1>5, <2>1, <2>5, <2>9 DEF ReadTaken, Once, Todo, mainVars
  <2> QED
    BY <2>4, <2>6 DEF Track, Places
<1>6. CASE FailTaken(w)
  <2> DEFINE d == cur[w]
  <2>1. /\ d \in Dir
        /\ d # None
        /\ d \notin Range(local[w])
        /\ None \notin Range(local[w])
    BY <1>1, <1>6, RangeOfSeq DEF FailTaken, TypeInv, Shape, CurShape, Once, Node
  <2>2. /\ {d} \subseteq Carried(w)
        /\ Queued' = Queued
        /\ Settled' = Settled \cup {d}
        /\ SameTree
        /\ quit' = quit
    BY <1>1, <1>6, <2>1 DEF FailTaken, Queued, Carried, Settled, DueNow, Entries, SameTree, mainVars
  <2>3. WorkerMoves(w, Carried(w) \ {d}, Todo(w))
    BY <1>1, <1>6, <2>1 DEF FailTaken, WorkerMoves, Carried, Todo
  <2>4. Places'
    BY <1>1, <2>2, <2>3, Settle
  <2>5. d \notin opened \cup failed
    BY <1>1, <2>2 DEF Places, Apart, Settled
  <2>6. Once'
    BY <1>1, <1>6, <2>1, <2>5 DEF FailTaken, Once, mainVars
  <2> QED
    BY <2>4, <2>6 DEF Track, Places
<1>7. CASE SkipEntry(w)
  <2>1. PICK n \in Avail(w) : /\ n \in Hidden \/ n \in File \ Wanted
                              /\ Remove(w, n)
    BY <1>7 DEF SkipEntry
  <2>2. n \in Todo(w) /\ n \in Entries
    BY <1>1, <2>1 DEF Avail, Todo, Places, Sound
  <2>3. n \notin DueNow
    BY <1>1, <2>1, <2>2, EntryDue
  <2>4. /\ Queued' = Queued
        /\ Settled' = Settled
        /\ SameTree
        /\ quit' = quit
    BY <1>7 DEF SkipEntry, Queued, Settled, DueNow, Entries, SameTree, mainVars, readVars
  <2>5. WorkerMoves(w, Carried(w), Todo(w) \ {n})
    BY <1>1, <1>7, <2>1 DEF SkipEntry, Remove, WorkerMoves, Carried, Todo
  <2>6. Places'
    BY <1>1, <2>3, <2>4, <2>5, Drop
  <2>7. Once'
    BY <1>1, <1>7, <2>1 DEF SkipEntry, Remove, Once, mainVars, readVars
  <2> QED
    BY <2>6, <2>7 DEF Track, Places
<1>8. CASE PickDir(w)
  <2>1. PICK n \in Avail(w) : /\ n \in Dir \ Hidden
                              /\ Remove(w, n)
                              /\ cur' = [cur EXCEPT ![w] = n]
    BY <1>8 DEF PickDir
  <2>2. n \in Todo(w) /\ n \in Entries
    BY <1>1, <2>1 DEF Avail, Todo, Places, Sound
  <2>3. n \in DueNow
    BY <1>1, <2>1, <2>2, EntryDue, WalkTreeAssumption
  <2>4. cur[w] = None /\ n # None
    BY <1>1, <1>8, <2>1 DEF PickDir, TypeInv, Shape, CurShape, Node
  <2>5. /\ Queued' = Queued
        /\ Settled' = Settled
        /\ SameTree
        /\ quit' = quit
    BY <1>8 DEF PickDir, Queued, Settled, DueNow, Entries, SameTree, mainVars, readVars
  <2>6. WorkerMoves(w, Carried(w) \cup {n}, Todo(w) \ {n})
    BY <1>1, <1>8, <2>1, <2>4 DEF PickDir, Remove, WorkerMoves, Carried, Todo
  <2>7. Places'
    BY <1>1, <2>2, <2>3, <2>5, <2>6, Pick
  <2>8. n \notin Range(local[w])
    BY <1>1, <2>2 DEF Places, Apart, Carried
  <2>9. Once'
    BY <1>1, <1>8, <2>1, <2>8 DEF PickDir, Remove, Once, mainVars, readVars
  <2> QED
    BY <2>7, <2>9 DEF Track, Places
<1>9. CASE PickFile(w)
  <2>1. PICK n \in Avail(w) : /\ n \in (File \cap Wanted) \ Hidden
                              /\ Remove(w, n)
                              /\ cur' = [cur EXCEPT ![w] = n]
    BY <1>9 DEF PickFile
  <2>2. n \in Todo(w) /\ n \in Entries
    BY <1>1, <2>1 DEF Avail, Todo, Places, Sound
  <2>3. n \in DueNow
    BY <1>1, <2>1, <2>2, EntryDue, WalkTreeAssumption
  <2>4. cur[w] = None /\ n # None
    BY <1>1, <1>9, <2>1 DEF PickFile, TypeInv, Shape, CurShape, Node
  <2>5. /\ Queued' = Queued
        /\ Settled' = Settled
        /\ SameTree
        /\ quit' = quit
    BY <1>9 DEF PickFile, Queued, Settled, DueNow, Entries, SameTree, mainVars, readVars
  <2>6. WorkerMoves(w, Carried(w) \cup {n}, Todo(w) \ {n})
    BY <1>1, <1>9, <2>1, <2>4 DEF PickFile, Remove, WorkerMoves, Carried, Todo
  <2>7. Places'
    BY <1>1, <2>2, <2>3, <2>5, <2>6, Pick
  <2>8. n \notin Range(local[w])
    BY <1>1, <2>2 DEF Places, Apart, Carried
  <2>9. Once'
    BY <1>1, <1>9, <2>1, <2>8 DEF PickFile, Remove, Once, mainVars, readVars
  <2> QED
    BY <2>7, <2>9 DEF Track, Places
<1>10. CASE Abandon(w)
  <2>1. cur[w] \notin Range(local[w])
    BY <1>1 DEF Once
  <2>2. /\ Queued' = Queued
        /\ Settled' = Settled
        /\ SameTree
        /\ quit'
    BY <1>10 DEF Abandon, Queued, Settled, DueNow, Entries, SameTree, mainVars, readVars
  <2>3. WorkerMoves(w, Range(local[w]), {})
    BY <1>1, <1>10, <2>1 DEF Abandon, WorkerMoves, Carried, Todo, TypeInv, Shape, CurShape
  <2>5. Places'
    BY <1>1, <2>2, <2>3, LetGo
  <2>6. None \notin Range(local[w])
    BY <1>1, RangeOfSeq DEF Node
  <2>7. Once'
    BY <1>1, <1>10, <2>6 DEF Abandon, Once, mainVars, readVars
  <2> QED
    BY <2>5, <2>7 DEF Track, Places
<1>11. CASE EndDir(w)
  <2>1. /\ Queued' = Queued
        /\ SameTree
        /\ Settled' = Settled
        /\ \A v \in Worker : Carried(v)' = Carried(v) /\ Todo(v)' = Todo(v)
        /\ quit' = quit
    BY <1>11 DEF EndDir, Queued, Carried, Todo, Settled, DueNow, Entries, SameTree, mainVars, readVars
  <2>2. Sound' /\ Apart' /\ Cover'
    BY <1>1, <2>1 DEF SameTree, Sound, Apart, Cover, Places
  <2>3. Once'
    BY <1>1, <1>11 DEF EndDir, Once, mainVars, readVars
  <2> QED
    BY <2>2, <2>3 DEF Track
<1>12. CASE Offer(w)
  <2> DEFINE n == cur[w]
  <2>1. /\ n \in Dir
        /\ n # None
        /\ n \notin Range(local[w])
        /\ None \notin Range(local[w])
    BY <1>1, <1>12, RangeOfSeq DEF Offer, TypeInv, Shape, CurShape, Once, Node
  <2>2. n \in Carried(w) /\ n \notin Queued
    BY <1>1, <2>1 DEF Carried, Places, Apart
  <2>3. /\ Range(dirs') = Range(dirs) \cup {n}
        /\ IsInjective(dirs')
    BY <1>1, <1>12, <2>1, <2>2, AppendRange DEF Offer, Once, Queued
  <2>4. /\ Queued' = Queued \cup {n}
        /\ Settled' = Settled
        /\ SameTree
        /\ quit' = quit
    BY <1>1, <1>12, <2>3 DEF Offer, Queued, Settled, DueNow, Entries, SameTree, mainVars, readVars
  <2>5. WorkerMoves(w, Carried(w) \ {n}, Todo(w))
    BY <1>1, <1>12, <2>1 DEF Offer, WorkerMoves, Carried, Todo
  <2>6. Places'
    BY <1>1, <2>2, <2>4, <2>5, Give
  <2>7. Once'
    BY <1>1, <1>12, <2>1, <2>2, <2>3 DEF Offer, Once, Queued, mainVars, readVars
  <2> QED
    BY <2>6, <2>7 DEF Track, Places
<1>13. CASE ReadInline(w)
  <2> DEFINE d == cur[w]
  <2>1. /\ d \in Dir
        /\ d # None
        /\ d \notin Range(local[w])
        /\ None \notin Range(local[w])
    BY <1>1, <1>13, RangeOfSeq DEF ReadInline, TypeInv, Shape, CurShape, Once, Node
  <2>2. /\ d \in Carried(w) \cap Dir
        /\ Queued' = Queued
        /\ opened' = opened \cup {d}
        /\ Settled' = Settled \cup {d}
        /\ quit' = quit
    BY <1>1, <1>13, <2>1 DEF ReadInline, Queued, Carried, Settled, mainVars
  <2>3. WorkerMoves(w, Carried(w) \ {d}, Todo(w) \cup Child[d])
    BY <1>1, <1>13, <2>1 DEF ReadInline, WorkerMoves, Carried, Todo
  <2>4. Places'
    BY <1>1, <2>2, <2>3, OpenDir
  <2>5. /\ d \notin opened \cup failed
        /\ Child[d] \cap Todo(w) = {}
    <3>1. d \notin Settled
      BY <1>1, <2>2 DEF Places, Apart
    <3>2. Child[d] \cap Entries = {}
      BY <1>1, <2>1, <3>1, FreshEntries DEF Settled
    <3> QED
      BY <1>1, <3>1, <3>2 DEF Places, Sound, Settled
  <2>6. Once'
    BY <1>1, <1>13, <2>1, <2>5 DEF ReadInline, Once, Todo, mainVars
  <2> QED
    BY <2>4, <2>6 DEF Track, Places
<1>14. CASE FailInline(w)
  <2> DEFINE d == cur[w]
  <2>1. /\ d \in Dir
        /\ d # None
        /\ d \notin Range(local[w])
        /\ None \notin Range(local[w])
    BY <1>1, <1>14, RangeOfSeq DEF FailInline, TypeInv, Shape, CurShape, Once, Node
  <2>2. /\ {d} \subseteq Carried(w)
        /\ Queued' = Queued
        /\ Settled' = Settled \cup {d}
        /\ SameTree
        /\ quit' = quit
    BY <1>1, <1>14, <2>1 DEF FailInline, Queued, Carried, Settled, DueNow, Entries, SameTree, mainVars
  <2>3. WorkerMoves(w, Carried(w) \ {d}, Todo(w))
    BY <1>1, <1>14, <2>1 DEF FailInline, WorkerMoves, Carried, Todo
  <2>4. Places'
    BY <1>1, <2>2, <2>3, Settle
  <2>5. d \notin opened \cup failed
    BY <1>1, <2>2 DEF Places, Apart, Settled
  <2>6. Once'
    BY <1>1, <1>14, <2>1, <2>5 DEF FailInline, Once, mainVars
  <2> QED
    BY <2>4, <2>6 DEF Track, Places
<1>15. CASE Keep(w)
  <2> DEFINE n == cur[w]
  <2>1. /\ n \in File
        /\ n # None
        /\ n \notin Range(local[w])
        /\ None \notin Range(local[w])
    BY <1>1, <1>15, RangeOfSeq DEF Keep, TypeInv, Shape, CurShape, Once, Node
  <2>2. /\ Range(local'[w]) = Range(local[w]) \cup {n}
        /\ IsInjective(local'[w])
        /\ \A v \in Worker \ {w} : local'[v] = local[v]
    BY <1>1, <1>15, <2>1, AppendRange DEF Keep, Once
  <2>3. /\ Queued' = Queued
        /\ SameTree
        /\ Settled' = Settled
        /\ quit' = quit
    BY <1>15 DEF Keep, Queued, Settled, DueNow, Entries, SameTree, mainVars, readVars
  <2>4. \A v \in Worker : Carried(v)' = Carried(v) /\ Todo(v)' = Todo(v)
    BY <1>1, <1>15, <2>1, <2>2 DEF Keep, Carried, Todo
  <2>5. Sound' /\ Apart' /\ Cover'
    BY <1>1, <2>3, <2>4 DEF SameTree, Sound, Apart, Cover, Places
  <2>6. Once'
    BY <1>1, <1>15, <2>1, <2>2 DEF Keep, Once, mainVars, readVars
  <2> QED
    BY <2>5, <2>6 DEF Track
<1>16. CASE Stop(w)
  <2>1. cur[w] \notin Range(local[w])
    BY <1>1 DEF Once
  <2>2. /\ Queued' = Queued
        /\ Settled' = Settled
        /\ SameTree
        /\ quit'
    BY <1>16 DEF Stop, Queued, Settled, DueNow, Entries, SameTree, mainVars, readVars
  <2>3. WorkerMoves(w, Range(local[w]), {})
    BY <1>1, <1>16, <2>1 DEF Stop, WorkerMoves, Carried, Todo, TypeInv, Shape, CurShape
  <2>5. Places'
    BY <1>1, <2>2, <2>3, LetGo
  <2>6. None \notin Range(local[w])
    BY <1>1, RangeOfSeq DEF Node
  <2>7. Once'
    BY <1>1, <1>16, <2>6 DEF Stop, Once, mainVars, readVars
  <2> QED
    BY <2>5, <2>7 DEF Track, Places
<1>17. CASE Flush(w)
  <2>1. /\ Range(results') = Range(results) \cup Range(local[w])
        /\ IsInjective(results')
    <3>1. Range(results) \cap Range(local[w]) = {}
      BY <1>1 DEF Places, Apart, Carried, Settled
    <3> QED
      BY <1>1, <1>17, <3>1, ConcatRange DEF Flush, Once
  <2>2. /\ local'[w] = <<>>
        /\ \A v \in Worker \ {w} : local'[v] = local[v]
        /\ Range(<<>>) = {}
        /\ IsInjective(<<>>)
    BY <1>1, <1>17 DEF Flush, Range, IsInjective
  <2>3. cur[w] = None
    BY <1>1, <1>17 DEF Flush, TypeInv, Shape, CurShape
  <2>4. /\ Range(local[w]) \subseteq Carried(w)
        /\ Queued' = Queued
        /\ Settled' = Settled \cup Range(local[w])
        /\ SameTree
        /\ quit' = quit
    BY <1>17, <2>1 DEF Flush, Queued, Carried, Settled, DueNow, Entries, SameTree, mainVars, readVars
  <2>5. WorkerMoves(w, Carried(w) \ Range(local[w]), Todo(w))
    BY <1>1, <1>17, <2>2, <2>3 DEF Flush, WorkerMoves, Carried, Todo
  <2>6. Places'
    BY <1>1, <2>4, <2>5, Settle
  <2>7. Once'
    BY <1>1, <1>17, <2>1, <2>2 DEF Flush, Once, mainVars, readVars
  <2> QED
    BY <2>6, <2>7 DEF Track, Places
<1>18. CASE Done(w)
  <2>1. /\ Queued' = Queued
        /\ SameTree
        /\ Settled' = Settled
        /\ \A v \in Worker : Carried(v)' = Carried(v) /\ Todo(v)' = Todo(v)
        /\ quit' = quit
    BY <1>18 DEF Done, Queued, Carried, Todo, Settled, DueNow, Entries, SameTree, mainVars, readVars
  <2>2. Sound' /\ Apart' /\ Cover'
    BY <1>1, <2>1 DEF SameTree, Sound, Apart, Cover, Places
  <2>3. Once'
    BY <1>1, <1>18 DEF Done, Once, mainVars, readVars
  <2> QED
    BY <2>2, <2>3 DEF Track
<1> QED
  BY <1>2, <1>3, <1>4, <1>5, <1>6, <1>7, <1>8, <1>9, <1>10, <1>11, <1>12, <1>13, <1>14, <1>15, <1>16, <1>17, <1>18
  DEF WorkerStep

-----------------------------------------------------------------------------
(* The theorems.                                                           *)

LEMMA TrackInit == Init => Track
<1> SUFFICES ASSUME Init PROVE Track
  OBVIOUS
<1>1. /\ Range(<<>>) = {}
      /\ IsInjective(<<>>)
  BY DEF Range, IsInjective
<1>2. /\ dirs = <<>> /\ results = <<>> /\ opened = {} /\ failed = {} /\ ~quit
      /\ seeds = Root /\ hold = None /\ None \notin Root
      /\ \A w \in Worker : cur[w] = None /\ local[w] = <<>> /\ rest[w] = {} /\ inl[w] = {}
  BY PoolAssumption, WalkTreeAssumption DEF Init, Node
<1>3. /\ Queued = Root
      /\ Settled = {}
      /\ DueNow = Root
      /\ \A w \in Worker : Carried(w) = {} /\ Todo(w) = {}
  BY <1>1, <1>2 DEF Queued, Settled, DueNow, C!Due, Carried, Todo
<1>4. Sound /\ Apart /\ Cover
  BY <1>3 DEF Sound, Apart, Cover
<1>5. Once
  BY <1>1, <1>2 DEF Once
<1> QED
  BY <1>4, <1>5 DEF Track

LEMMA TrackNext == TrackInv /\ [Next]_vars => Track'
<1>1. ASSUME TrackInv, UNCHANGED vars PROVE Track'
  <2>1. /\ Queued' = Queued /\ Settled' = Settled
        /\ DueNow' = DueNow /\ Entries' = Entries
        /\ \A v \in Worker : Carried(v)' = Carried(v) /\ Todo(v)' = Todo(v)
        /\ quit' = quit
    BY <1>1 DEF vars, Queued, Settled, DueNow, Entries, Carried, Todo
  <2>2. Sound' /\ Apart' /\ Cover'
    BY <1>1, <2>1 DEF TrackInv, Track, Sound, Apart, Cover
  <2>3. Once'
    BY <1>1 DEF TrackInv, Track, Once, vars
  <2> QED
    BY <2>2, <2>3 DEF Track
<1> QED
  BY <1>1, TrackMain, TrackWorker DEF Next, Over

LEMMA TrackCorrect == Spec => []TrackInv
<1>1. Init => TrackInv
  BY TypeInit, CounterInit, TrackInit DEF TrackInv, QuietInv, Quiet, Init, Returned
<1>2. TrackInv /\ [Next]_vars => TrackInv'
  <2>1. QuietInv /\ [Next]_vars => QuietInv'
    BY TypeNext, CounterNext, QuietNext DEF QuietInv
  <2> QED
    BY <2>1, TrackNext DEF TrackInv
<1> QED
  BY <1>1, <1>2, PTL DEF Spec

\* Nothing is reported or collected twice, at any time.
THEOREM NoDuplicateCorrect == Spec => []NoDuplicate
<1>1. TrackInv => NoDuplicate
  <2> SUFFICES ASSUME TrackInv PROVE NoDuplicate
    OBVIOUS
  <2>1. /\ IsInjective(results)
        /\ \A w \in Worker : IsInjective(local[w])
    BY DEF TrackInv, Track, Once
  <2>2. \A w \in Worker :
          /\ Range(local[w]) \cap Range(results) = {}
          /\ \A v \in Worker \ {w} : Range(local[w]) \cap Range(local[v]) = {}
    <3>1. \A w \in Worker : Range(local[w]) \subseteq Carried(w)
      BY DEF Carried
    <3>2. Range(results) \subseteq Settled
      BY DEF Settled
    <3> QED
      BY <3>1, <3>2 DEF TrackInv, Track, Apart
  <2> QED
    BY <2>1, <2>2 DEF NoDuplicate
<1> QED
  BY <1>1, TrackCorrect, PTL

\* With the counter at zero and every root sent, the walk is complete.
LEMMA ZeroMeansComplete ==
  ASSUME TrackInv, wg = 0, seeds = {}
  PROVE  /\ \A w \in Worker : local[w] = <<>>
         /\ Range(results) \subseteq DueNow \cap File
         /\ ~quit => /\ DueNow \cap Dir = opened \cup failed
                     /\ DueNow \cap File = Range(results)
<1>1. /\ dirs = <<>>
      /\ main # "send"
      /\ \A w \in Worker : pc[w] \in Idle
  BY ZeroMeansIdle DEF TrackInv, QuietInv
<1>2. \A w \in Worker : local[w] = <<>> /\ cur[w] = None /\ Todo(w) = {}
  BY <1>1 DEF TrackInv, QuietInv, TypeInv, Shape, LocalShape, CurShape, RestShape, Idle, Todo
<1>3. Range(<<>>) = {}
  BY DEF Range
<1>4. Queued = {}
  <2>1. hold = None
    BY <1>1 DEF TrackInv, QuietInv, TypeInv, TypeOK, Shape, MainShape
  <2> QED
    BY <1>1, <1>3, <2>1 DEF Queued
<1>5. \A w \in Worker : Carried(w) = {}
  BY <1>2, <1>3 DEF Carried
<1>6. /\ opened \cup failed \subseteq Dir
      /\ Range(results) \subseteq File
      /\ Dir \cap File = {}
  BY WalkTreeAssumption, RangeOfSeq DEF TrackInv, QuietInv, TypeInv, TypeOK
<1>7. Settled \subseteq DueNow
  BY DEF TrackInv, Track, Sound
<1>8. ~quit => DueNow \subseteq Settled
  BY <1>2, <1>4, <1>5 DEF TrackInv, Track, Cover
<1> QED
  BY <1>2, <1>6, <1>7, <1>8 DEF Settled

\* The returned list is complete (and every collected file is in it).
THEOREM CompleteCorrect == Spec => []Complete
<1>1. TrackInv => Complete
  <2> SUFFICES ASSUME TrackInv, Returned PROVE Complete
    BY DEF Complete
  <2>1. wg = 0 /\ seeds = {}
    BY DEF TrackInv, QuietInv, Quiet, TypeInv, Shape, MainShape, Returned
  <2> QED
    BY <2>1, ZeroMeansComplete DEF Complete, DueNow
<1> QED
  BY <1>1, TrackCorrect, PTL

-----------------------------------------------------------------------------
(* Refinement.                                                             *)

StopsByVeto == quit => Veto # {}

LEMMA StopsByVetoNext == StopsByVeto /\ [Next]_vars => StopsByVeto'
<1> SUFFICES ASSUME StopsByVeto, [Next]_vars, quit' PROVE Veto # {}
  BY DEF StopsByVeto
<1>1. CASE Main
  BY <1>1 DEF Main, AddRoot, SendRoot, ReturnResults, StopsByVeto
<1>2. ASSUME NEW w \in Worker, WorkerStep(w) PROVE Veto # {}
  BY <1>2 DEF WorkerStep, Take, Exit, Drain, ReadTaken, FailTaken, SkipEntry, PickDir,
              PickFile, Abandon, EndDir, Offer, ReadInline, FailInline, Keep, Stop,
              Flush, Done, StopsByVeto
<1>3. CASE UNCHANGED vars
  BY <1>3 DEF vars, StopsByVeto
<1> QED
  BY <1>1, <1>2, <1>3 DEF Next, Over

WalkInv == TrackInv /\ StopsByVeto

\* A directory in a worker's hands is one the abstract walk may visit.
LEMMA InFrontier ==
  ASSUME TrackInv, NEW w \in Worker, pc[w] \in {"taken", "offer"}
  PROVE  /\ ~Returned
         /\ cur[w] \in Dir
         /\ cur[w] \in C!Frontier
<1>1. pc[w] \notin Idle
  BY DEF Idle
<1>2. wg # 0
  BY <1>1, ZeroMeansIdle DEF TrackInv, QuietInv
<1>3. cur[w] \in Dir /\ cur[w] # None
  BY PoolAssumption DEF TrackInv, QuietInv, TypeInv, Shape, CurShape, Node
<1>4. cur[w] \in Carried(w)
  BY <1>3 DEF Carried
<1>5. cur[w] \in DueNow /\ cur[w] \notin Settled
  BY <1>4 DEF TrackInv, Track, Sound, Apart
<1> QED
  BY <1>2, <1>3, <1>5 DEF TrackInv, QuietInv, Quiet, Settled, DueNow, C!Frontier

\* Steps that read no directory and return nothing are invisible above.
LEMMA Stutter ==
  ASSUME UNCHANGED <<readVars, main>>, Returned => results' = results
  PROVE  UNCHANGED C!vars
  BY DEF readVars, Returned, C!vars

LEMMA StepImplements == WalkInv /\ [Next]_vars => [C!Next]_(C!vars)
<1> SUFFICES ASSUME WalkInv, [Next]_vars PROVE [C!Next]_(C!vars)
  OBVIOUS
<1>1. TrackInv
  BY DEF WalkInv
<1>2. CASE AddRoot \/ SendRoot
  <2>1. /\ UNCHANGED readVars
        /\ ~Returned /\ ~Returned'
    BY <1>2 DEF AddRoot, SendRoot, readVars, Returned
  <2> QED
    BY <2>1 DEF readVars, C!vars, Returned
<1>3. CASE ReturnResults
  <2>1. /\ ~Returned /\ Returned'
        /\ wg = 0 /\ seeds = {}
        /\ results' = results /\ quit' = quit
        /\ opened' = opened /\ failed' = failed
    BY <1>3 DEF ReturnResults, Returned
  <2>2. IsInjective(results')
    BY <1>1, <2>1 DEF TrackInv, Track, Once
  <2>3. \/ C!Frontier = {} /\ Range(results') = C!Found
        \/ Veto # {} /\ Range(results') \subseteq C!Found
    BY <1>1, <2>1, ZeroMeansComplete DEF WalkInv, StopsByVeto, DueNow, C!Frontier, C!Found
  <2>4. /\ (IF Returned THEN results ELSE <<>>)' = results'
        /\ C!Range(results') = Range(results')
        /\ C!IsInjective(results')
    BY <2>1, <2>2 DEF C!Range, Range, C!IsInjective, IsInjective
  <2>5. C!Return
    BY <2>1, <2>3, <2>4 DEF C!Return, Returned
  <2> QED
    BY <2>5 DEF C!Next
<1>4. ASSUME NEW w \in Worker, WorkerStep(w) PROVE [C!Next]_(C!vars)
  <2>1. CASE ReadTaken(w) \/ ReadInline(w)
    <3>1. /\ pc[w] \in {"taken", "offer"}
          /\ opened' = opened \cup {cur[w]} /\ failed' = failed
          /\ main' = main /\ results' = results
      BY <2>1 DEF ReadTaken, ReadInline, mainVars
    <3>2. C!Visit(cur[w])
      BY <1>1, <3>1, InFrontier DEF C!Visit, Returned
    <3>3. cur[w] \in Dir
      BY <1>1, <3>1, InFrontier
    <3>4. C!Next
      BY <3>2, <3>3 DEF C!Next
    <3> QED
      BY <3>4
  <2>2. CASE FailTaken(w) \/ FailInline(w)
    <3>1. /\ pc[w] \in {"taken", "offer"}
          /\ failed' = failed \cup {cur[w]} /\ opened' = opened
          /\ main' = main /\ results' = results
      BY <2>2 DEF FailTaken, FailInline, mainVars
    <3>2. C!Visit(cur[w])
      BY <1>1, <3>1, InFrontier DEF C!Visit, Returned
    <3>3. cur[w] \in Dir
      BY <1>1, <3>1, InFrontier
    <3>4. C!Next
      BY <3>2, <3>3 DEF C!Next
    <3> QED
      BY <3>4
  <2>3. CASE Flush(w)
    <3>1. pc[w] \notin Idle /\ UNCHANGED <<readVars, main>>
      BY <2>3 DEF Flush, Idle, mainVars, readVars
    <3>2. ~Returned
      BY <1>1, <3>1, ZeroMeansIdle DEF TrackInv, QuietInv, Quiet
    <3> QED
      BY <3>1, <3>2, Stutter
  <2>4. CASE \/ Take(w) \/ Exit(w) \/ Drain(w) \/ SkipEntry(w) \/ PickDir(w)
             \/ PickFile(w) \/ Abandon(w) \/ EndDir(w) \/ Offer(w) \/ Keep(w)
             \/ Stop(w) \/ Done(w)
    <3>1. UNCHANGED <<readVars, main>> /\ results' = results
      BY <2>4 DEF Take, Exit, Drain, SkipEntry, PickDir, PickFile, Abandon, EndDir,
                  Offer, Keep, Stop, Done, mainVars, readVars
    <3> QED
      BY <3>1, Stutter
  <2> QED
    BY <1>4, <2>1, <2>2, <2>3, <2>4 DEF WorkerStep
<1>5. CASE UNCHANGED vars
  BY <1>5 DEF vars, C!vars, Returned
<1> QED
  BY <1>2, <1>3, <1>4, <1>5 DEF Next, Main, Over

\* The pool of workers implements the abstract walk, whatever the tree, the
\* number of workers, the capacity of the channel and the size of a batch.
THEOREM Refinement == Spec => ImplementsCrawl
<1>1. Init => WalkInv
  BY TypeInit, CounterInit, TrackInit
  DEF WalkInv, StopsByVeto, TrackInv, QuietInv, Quiet, Init, Returned
<1>2. WalkInv /\ [Next]_vars => WalkInv'
  <2>1. QuietInv /\ [Next]_vars => QuietInv'
    BY TypeNext, CounterNext, QuietNext DEF QuietInv
  <2> QED
    BY <2>1, TrackNext, StopsByVetoNext DEF WalkInv, TrackInv
<1>3. Init => C!Init
  BY DEF Init, C!Init, Returned
<1> QED
  BY <1>1, <1>2, <1>3, StepImplements, PTL DEF Spec, ImplementsCrawl, C!Spec
==============================================================================
