---------------------------- MODULE DiskImageProofs ----------------------------
(***************************************************************************)
(* Proofs about DiskImage for every geometry of a disk, every directory    *)
(* track and set of reserved tracks, and every list of files.              *)
(***************************************************************************)
EXTENDS DiskImage, FiniteSetTheorems, SequenceTheorems, WellFoundedInduction, TLAPS

-----------------------------------------------------------------------------
(* The data sectors in order.                                              *)

LEMMA SectorType ==
  /\ \A ts \in Sector : /\ ts = <<ts[1], ts[2]>>
                        /\ ts[1] \in Track /\ ts[2] \in 0 .. 255
                        /\ ts \in (0 .. 255) \X (0 .. 255)
  /\ Track \subseteq 0 .. 255
<1>1. LastTrack \in 1 .. 255
  BY DiskAssumption
<1>2. Track \subseteq 0 .. 255
  BY <1>1 DEF Track
<1>3. \A ts \in Sector : ts \in Track \X (0 .. 255)
  BY DEF Sector
<1> QED
  BY <1>2, <1>3

LEMMA SectorFinite == IsFiniteSet(Sector) /\ IsFiniteSet(DataSector)
<1>1. IsFiniteSet(Track) /\ IsFiniteSet(0 .. 255)
  <2>1. LastTrack \in Int /\ 0 \in Int /\ 1 \in Int /\ 255 \in Int
    BY DiskAssumption
  <2> QED
    BY <2>1, FS_Interval DEF Track
<1>2. IsFiniteSet(Track \X (0 .. 255))
  BY <1>1, FS_Product
<1>3. Sector \subseteq Track \X (0 .. 255) /\ DataSector \subseteq Sector
  BY DEF Sector, DataSector
<1> QED
  BY <1>2, <1>3, FS_Subset

LEMMA SectorInts == \A ts \in Sector : ts[1] \in Int /\ ts[2] \in Int
BY SectorType DEF Track

\* The data sectors before one.
Before(ts) == {us \in Sector : /\ IsDataTrack(us[1])
                               /\ \/ us[1] < ts[1]
                                  \/ us[1] = ts[1] /\ us[2] < ts[2]}

LEMMA BeforeFinite ==
  ASSUME NEW ts
  PROVE  IsFiniteSet(Before(ts)) /\ DataBefore(ts) = Cardinality(Before(ts))
BY SectorFinite, FS_Subset DEF Before, DataBefore

\* Of two data sectors, the one has fewer before it than the other.
LEMMA BeforeOrder ==
  ASSUME NEW ts \in DataSector, NEW us \in DataSector, ts # us
  PROVE  DataBefore(ts) # DataBefore(us)
<1>1. ASSUME NEW x \in DataSector, NEW y \in DataSector, x \in Before(y)
      PROVE  DataBefore(x) # DataBefore(y)
  <2>1. Before(x) \subseteq Before(y)
    <3>1. /\ x \in Sector /\ x[1] \in Int /\ x[2] \in Int /\ y[1] \in Int /\ y[2] \in Int
          /\ x[1] < y[1] \/ (x[1] = y[1] /\ x[2] < y[2])
      BY <1>1, SectorInts DEF Before, DataSector
    <3> QED
      BY <3>1, SectorInts DEF Before
  <2>2. x \notin Before(x)
    BY SectorInts DEF Before, DataSector
  <2>3. Before(x) # Before(y) /\ Before(x) \in SUBSET Before(y) /\ IsFiniteSet(Before(y))
    BY <1>1, <2>1, <2>2, BeforeFinite
  <2>4. Cardinality(Before(x)) # Cardinality(Before(y))
    BY ONLY <2>3, FS_Subset
  <2>5. DataBefore(x) = Cardinality(Before(x)) /\ DataBefore(y) = Cardinality(Before(y))
    BY BeforeFinite
  <2> QED
    BY <2>4, <2>5
<1>2. ts \in Before(us) \/ us \in Before(ts)
  <2>1. ts[1] # us[1] \/ ts[2] # us[2]
    BY SectorType DEF DataSector
  <2>2. /\ ts \in Sector /\ us \in Sector /\ IsDataTrack(ts[1]) /\ IsDataTrack(us[1])
        /\ ts[1] \in Int /\ ts[2] \in Int /\ us[1] \in Int /\ us[2] \in Int
    BY SectorType DEF DataSector, Track
  <2> QED
    BY <2>1, <2>2 DEF Before
<1> QED
  BY <1>1, <1>2

\* The n-th data sector is one, and the list of them repeats none.
LEMMA DataIs ==
  /\ Cardinality(DataSector) \in Nat
  /\ \A n \in 1 .. Cardinality(DataSector) : Data(n) \in DataSector /\ DataBefore(Data(n)) = n - 1
  /\ \A m, n \in 1 .. Cardinality(DataSector) : Data(m) = Data(n) => m = n
<1> DEFINE N == Cardinality(DataSector)
           f == [ts \in DataSector |-> DataBefore(ts)]
           T == 0 .. N - 1
<1>1. N \in Nat
  BY SectorFinite, FS_CardinalityType
<1>2. ASSUME NEW ts \in DataSector PROVE DataBefore(ts) \in T
  <2>1. Before(ts) \subseteq DataSector \ {ts}
    BY SectorType DEF Before, DataSector, Track
  <2>2. IsFiniteSet(DataSector \ {ts}) /\ Cardinality(DataSector \ {ts}) = N - 1
    BY SectorFinite, FS_RemoveElement
  <2>3. Cardinality(Before(ts)) <= N - 1 /\ Cardinality(Before(ts)) \in Nat
    BY <2>1, <2>2, BeforeFinite, FS_Subset, FS_CardinalityType
  <2> QED
    BY <1>1, <2>3, BeforeFinite
<1>3. f \in Injection(DataSector, T)
  <2>1. f \in [DataSector -> T]
    BY <1>2
  <2>2. \A ts, us \in DataSector : f[ts] = f[us] => ts = us
    <3>1. \A ts \in DataSector : f[ts] = DataBefore(ts)
      OBVIOUS
    <3> HIDE DEF f
    <3> SUFFICES ASSUME NEW ts \in DataSector, NEW us \in DataSector, ts # us
                 PROVE  f[ts] # f[us]
      OBVIOUS
    <3>2. DataBefore(ts) # DataBefore(us)
      BY BeforeOrder
    <3> QED
      BY <3>1, <3>2
  <2> HIDE DEF f, T
  <2> QED
    BY <2>1, <2>2 DEF Injection, IsInjective
<1>4. IsFiniteSet(T) /\ Cardinality(T) = N
  BY <1>1, FS_Interval
<1>5. f \in Surjection(DataSector, T)
  <2> HIDE DEF f, T
  <2> QED
    BY <1>3, <1>4, FS_Injection
<1>6. ASSUME NEW n \in 1 .. N PROVE Data(n) \in DataSector /\ DataBefore(Data(n)) = n - 1
  <2>1. n - 1 \in T
    BY <1>1
  <2>2. \E ts \in DataSector : DataBefore(ts) = n - 1
    BY <1>5, <2>1 DEF Surjection
  <2> QED
    BY <2>2 DEF Data
<1>7. ASSUME NEW m \in 1 .. N, NEW n \in 1 .. N, Data(m) = Data(n) PROVE m = n
  <2>1. m - 1 = n - 1
    BY <1>6, <1>7
  <2> QED
    BY <1>1, <2>1
<1> QED
  BY <1>1, <1>6, <1>7

\* Whole sectors, and what is left for the last one.
LEMMA Division ==
  ASSUME NEW len \in Nat, NEW p \in Nat \ {0}
  PROVE  LET q == (len + p - 1) \div p
         IN  q \in Nat /\ q * p <= len + p - 1 /\ len + p - 1 < q * p + p
OBVIOUS

\* A file takes at least one sector; the last is not empty but for an empty file, and
\* no fuller than a sector.
LEMMA SectorsOf ==
  ASSUME NEW len \in Nat
  PROVE  /\ NumSectors(len) \in Nat \ {0}
         /\ len - (NumSectors(len) - 1) * Payload \in 0 .. Payload
<1> DEFINE q == (len + Payload - 1) \div Payload
           n == NumSectors(len)
<1> SUFFICES n \in Nat \ {0} /\ len - (n - 1) * Payload \in 0 .. Payload
  OBVIOUS
<1>1. PICK p \in Nat : p = Payload /\ p # 0
  BY DiskAssumption
<1>2. q \in Nat /\ q * p <= len + p - 1 /\ len + p - 1 < q * p + p
  BY <1>1, Division
<1>3. n = IF q = 0 THEN 1 ELSE q
  BY DEF NumSectors
<1> HIDE DEF n, q
<1>4. CASE q = 0
  <2>1. q * p = 0
    BY <1>4
  <2>2. len + p - 1 < p
    BY <1>2, <2>1
  <2>3. len = 0
    BY <1>1, <2>2
  <2>4. n = 1 /\ (n - 1) * p = 0
    BY <1>3, <1>4
  <2> QED
    BY <1>1, <2>3, <2>4
<1>5. CASE q # 0
  <2>1. (n - 1) * p = q * p - p /\ n \in Nat \ {0}
    BY <1>1, <1>2, <1>3, <1>5
  <2>2. PICK m \in Int : m = q * p
    BY <1>1, <1>2
  <2>3. m <= len + p - 1 /\ len + p - 1 < m + p
    BY <1>2, <2>2
  <2>4. 0 <= len - (m - p) /\ len - (m - p) <= p /\ len - (m - p) \in Int
    BY <2>3
  <2>5. len - (n - 1) * p = len - (m - p)
    BY <2>1, <2>2
  <2> QED
    BY <1>1, <2>1, <2>4, <2>5
<1> QED
  BY <1>4, <1>5

-----------------------------------------------------------------------------
(* Types.                                                                  *)

Byte == 0 .. 255
Placed == [first : DataSector, sectors : Nat \ {0}]

Typed ==
  /\ files \in Seq(Nat)
  /\ pc \in {"place", "dir", "entries", "done", "error"}
  /\ free \subseteq Sector
  /\ link \in [Sector -> Byte \X Byte]
  /\ nextData \in 0 .. Cardinality(DataSector)
  /\ placed \in Seq(Placed)
  /\ Len(placed) <= Len(files)

\* The n data sectors behind the first a.
Run(a, n) == {Data(a + i) : i \in 1 .. n}

\* The file that is placed next.
Next1 == files[Len(placed) + 1]

\* What PlaceFile does to the links: those of the new chain, in order, and no other.
LEMMA PlaceFacts ==
  ASSUME Typed, PlaceFile,
         NEW len, len = Next1, NEW n, n = NumSectors(len), NEW used, used = Run(nextData, n)
  PROVE  /\ len \in Nat /\ n \in Nat \ {0}
         /\ nextData + n <= Cardinality(DataSector)
         /\ \A i \in 1 .. n : Data(nextData + i) \in DataSector
         /\ nextData' = nextData + n
         /\ free' = free \ used
         /\ count' = CountWithout(used)
         /\ placed' = Append(placed, [first |-> Data(nextData + 1), sectors |-> n])
         /\ DOMAIN link' = Sector
         /\ \A ts \in Sector \ used : link'[ts] = link[ts]
         /\ \A i \in 1 .. n - 1 : link'[Data(nextData + i)] = Data(nextData + i + 1)
         /\ link'[Data(nextData + n)] = EndLink(len - (n - 1) * Payload)
         /\ \E f : link' = [ts \in Sector |-> f[ts]]
<1> DEFINE list == [i \in 1 .. n |-> Data(nextData + i)]
           Pos(ts) == CHOOSE j \in 1 .. n : list[j] = ts
           L == [ts \in Sector |->
                  IF ts \notin used THEN link[ts]
                  ELSE IF Pos(ts) < n THEN list[Pos(ts) + 1]
                  ELSE EndLink(len - (n - 1) * Payload)]
<1>1. Len(placed) < Len(files) /\ Len(placed) \in Nat /\ files \in Seq(Nat)
  BY DEF PlaceFile, Typed
<1>2. len \in Nat
  BY <1>1 DEF Next1
<1>3. n \in Nat \ {0}
  BY <1>2, SectorsOf
<1>4. used = {list[i] : i \in 1 .. n}
  BY DEF Run
<1>5. /\ nextData + n <= Cardinality(DataSector)
      /\ nextData' = nextData + n
      /\ free' = free \ used
      /\ count' = CountWithout(used)
      /\ link' = L
      /\ placed' = Append(placed, [first |-> list[1], sectors |-> n])
  BY <1>4 DEF PlaceFile, Next1
<1>6. nextData \in Nat /\ Cardinality(DataSector) \in Nat
  BY DataIs DEF Typed
<1>7. \A i \in 1 .. n : nextData + i \in 1 .. Cardinality(DataSector)
  BY <1>3, <1>5, <1>6
<1>8. \A i \in 1 .. n : Data(nextData + i) \in DataSector /\ Data(nextData + i) \in Sector
  BY <1>7, DataIs DEF DataSector
<1>9. \A i, j \in 1 .. n : list[i] = list[j] => i = j
  <2>1. \A i, j \in 1 .. n : Data(nextData + i) = Data(nextData + j) => nextData + i = nextData + j
    BY <1>7, DataIs
  <2> QED
    BY <1>3, <1>6, <2>1
<1>10. ASSUME NEW i \in 1 .. n
       PROVE  L[Data(nextData + i)] = IF i < n THEN list[i + 1] ELSE EndLink(len - (n - 1) * Payload)
  <2>1. Data(nextData + i) = list[i] /\ Data(nextData + i) \in used /\ Data(nextData + i) \in Sector
    BY <1>4, <1>8
  <2>2. Pos(list[i]) = i
    <3>1. Pos(list[i]) \in 1 .. n /\ list[Pos(list[i])] = list[i]
      OBVIOUS
    <3> HIDE DEF Pos, list
    <3> QED
      BY <1>9, <3>1
  <2> HIDE DEF Pos, list
  <2>3. L[list[i]] = IF Pos(list[i]) < n THEN list[Pos(list[i]) + 1]
                     ELSE EndLink(len - (n - 1) * Payload)
    BY <2>1
  <2> HIDE DEF L
  <2> QED
    BY <2>1, <2>2, <2>3
<1>11. \A i \in 1 .. n - 1 : L[Data(nextData + i)] = Data(nextData + i + 1)
  <2> SUFFICES ASSUME NEW i \in 1 .. n - 1 PROVE L[Data(nextData + i)] = Data(nextData + i + 1)
    OBVIOUS
  <2>1. i \in 1 .. n /\ i + 1 \in 1 .. n /\ i < n /\ nextData + (i + 1) = nextData + i + 1
    BY <1>3, <1>6
  <2>2. list[i + 1] = Data(nextData + (i + 1))
    BY <2>1
  <2> HIDE DEF L, list
  <2> QED
    BY <1>10, <2>1, <2>2
<1>12. L[Data(nextData + n)] = EndLink(len - (n - 1) * Payload)
  <2>1. n \in 1 .. n /\ ~(n < n)
    BY <1>3
  <2> HIDE DEF L
  <2> QED
    BY <1>10, <2>1
<1>13. list[1] = Data(nextData + 1)
  BY <1>3
<1>14. /\ DOMAIN L = Sector
       /\ \A ts \in Sector \ used : L[ts] = link[ts]
       /\ \E f : L = [ts \in Sector |-> f[ts]]
  <2>1. L = [ts \in Sector |-> L[ts]]
    OBVIOUS
  <2> QED
    BY <2>1
<1> HIDE DEF L, list
<1> QED
  BY <1>2, <1>3, <1>5, <1>8, <1>11, <1>12, <1>13, <1>14

LEMMA DivMod ==
  ASSUME NEW w \in Nat, NEW p \in Nat \ {0}
  PROVE  \E q \in Nat, r \in Nat : q = w \div p /\ r = w % p /\ r < p /\ w = q * p + r
<1>1. w \div p \in Nat
  OBVIOUS
<1>2. w % p \in Nat /\ w % p < p
  OBVIOUS
<1>3. PICK q \in Nat, r \in Nat : q = w \div p /\ r = w % p
  BY <1>1, <1>2
<1>4. r = w - q * p
  BY <1>3
<1>5. PICK m \in Int : m = q * p
  OBVIOUS
<1>6. w = m + r
  BY <1>4, <1>5
<1> QED
  BY <1>2, <1>3, <1>5, <1>6

\* A multiple that is smaller has the smaller factor.
LEMMA Factor ==
  ASSUME NEW a \in Nat, NEW b \in Nat, NEW p \in Nat \ {0}, a * p < b * p
  PROVE  a < b
<1> SUFFICES ASSUME b <= a PROVE b * p <= a * p
  OBVIOUS
<1>1. PICK d \in Nat : a = b + d
  <2>1. a - b \in Nat /\ a = b + (a - b)
    OBVIOUS
  <2> QED
    BY <2>1
<1>2. a * p = b * p + d * p
  BY <1>1
<1>3. d * p \in Nat /\ b * p \in Nat
  OBVIOUS
<1> QED
  BY <1>2, <1>3

\* There are directory sectors for all the files.
LEMMA DirRoom ==
  ASSUME files \in Seq(Nat)
  PROVE  /\ Len(files) \in Nat
         /\ DirSectors \in Nat \ {0}
         /\ \A w \in 0 .. Len(files) - 1 : /\ w \div Entries \in Nat
                                           /\ w \div Entries + 1 \in 1 .. DirSectors
         /\ Len(files) <= Entries => DirSectors = 1
<1>1. PICK e \in Nat \ {0} : e = Entries
  BY DiskAssumption
<1>2. PICK l \in Nat : l = Len(files)
  OBVIOUS
<1>3. PICK n \in Nat : /\ n = (l + e - 1) \div e
                        /\ n * e <= l + e - 1 /\ l + e - 1 < n * e + e
  BY Division
<1>4. DirSectors = IF n = 0 THEN 1 ELSE n
  BY <1>1, <1>2, <1>3 DEF DirSectors
<1>5. l <= n * e
  <2>1. PICK m \in Int : m = n * e
    BY <1>1, <1>3
  <2>2. l + e - 1 < m + e
    BY <1>3, <2>1
  <2>3. l <= m
    BY <2>2
  <2> QED
    BY <2>1, <2>3
<1>6. ASSUME NEW w \in 0 .. l - 1
      PROVE  w \div e \in Nat /\ w \div e + 1 \in 1 .. DirSectors
  <2>0. w \in Nat
    OBVIOUS
  <2>1. PICK q \in Nat, r \in Nat : q = w \div e /\ w = q * e + r
    BY <2>0, DivMod
  <2>2. PICK m \in Int : m = n * e
    OBVIOUS
  <2>3. PICK h \in Int : h = q * e
    OBVIOUS
  <2>4. h < m
    <3>1. w = h + r
      BY <2>1, <2>3
    <3>2. l <= m
      BY <1>5, <2>2
    <3> QED
      BY <3>1, <3>2
  <2>5. q < n
    <3>1. q * e < n * e
      BY <2>2, <2>3, <2>4
    <3> QED
      BY <3>1, Factor
  <2>6. q + 1 \in 1 .. DirSectors
    <3>1. PICK k \in Nat : k = n
      BY <1>3
    <3>2. DirSectors = k
      BY <1>4, <2>1, <2>5, <3>1
    <3> QED
      BY <2>1, <2>5, <3>1, <3>2
  <2> QED
    BY <2>1, <2>6
<1>7. l <= e => DirSectors = 1
  <2> SUFFICES ASSUME l <= e, n > 1 PROVE FALSE
    BY <1>3, <1>4
  <2>1. PICK d \in Nat : n = 2 + d
    <3>1. n - 2 \in Nat /\ n = 2 + (n - 2)
      BY <1>3
    <3> QED
      BY <3>1
  <2>2. n * e = e + e + d * e /\ d * e \in Nat
    BY <1>1, <2>1
  <2> QED
    BY <1>1, <1>3, <2>2
<1> QED
  BY <1>1, <1>2, <1>3, <1>4, <1>6, <1>7

-----------------------------------------------------------------------------
(* Types and order: the directory's sectors follow each other from sector 1 *)
(* of its track, and entries are written into them in the order of files.  *)

Ordered ==
  /\ dir \in Seq(Sector)
  /\ \A i \in DOMAIN dir : dir[i] = <<DirTrack, i>>
  /\ pc = "place" => dir = <<>>
  /\ pc = "dir" => Len(dir) \in 1 .. DirSectors
  /\ pc \in {"entries", "done"} => Len(dir) = DirSectors
  /\ pc \in {"dir", "entries", "done"} => Len(placed) = Len(files)

Entered ==
  /\ IsFiniteSet(DOMAIN entry)
  /\ Written <= Len(placed)
  /\ DOMAIN entry = {SlotOf(i) : i \in 0 .. Written - 1}
  /\ \A i \in 0 .. Written - 1 : entry[SlotOf(i)] = i + 1
  /\ pc \in {"place", "dir"} => Written = 0
  /\ pc = "done" => Written = Len(placed)

\* The slot the next entry goes to is in the directory.
LEMMA SlotType ==
  ASSUME Typed, Ordered, pc \in {"entries", "done"}, NEW w \in 0 .. Len(placed) - 1
  PROVE  \E q \in Nat, r \in Nat :
           /\ q = w \div Entries /\ r = w % Entries /\ r < Entries /\ w = q * Entries + r
           /\ SlotOf(w) = <<<<DirTrack, q + 1>>, r>>
           /\ <<DirTrack, q + 1>> \in Sector
<1>1. w \in 0 .. Len(files) - 1 /\ w \in Nat
  BY DEF Typed, Ordered
<1>2. PICK q \in Nat, r \in Nat :
        q = w \div Entries /\ r = w % Entries /\ r < Entries /\ w = q * Entries + r
  BY <1>1, DivMod, DiskAssumption
<1>3. q + 1 \in 1 .. Len(dir)
  BY <1>1, <1>2, DirRoom DEF Typed, Ordered
<1>4. dir \in Seq(Sector) /\ \A i \in DOMAIN dir : dir[i] = <<DirTrack, i>>
  BY DEF Ordered
<1>5. dir[q + 1] = <<DirTrack, q + 1>> /\ dir[q + 1] \in Sector
  BY <1>3, <1>4, ElementOfSeq
<1> QED
  BY <1>2, <1>5 DEF SlotOf

\* No two files share a slot.
LEMMA SlotsDiffer ==
  ASSUME Typed, Ordered, pc \in {"entries", "done"},
         NEW v \in 0 .. Len(placed) - 1, NEW w \in 0 .. Len(placed) - 1, SlotOf(v) = SlotOf(w)
  PROVE  v = w
<1>1. PICK a \in Nat, c \in Nat :
        v = a * Entries + c /\ SlotOf(v) = <<<<DirTrack, a + 1>>, c>>
  BY SlotType
<1>2. PICK b \in Nat, d \in Nat :
        w = b * Entries + d /\ SlotOf(w) = <<<<DirTrack, b + 1>>, d>>
  BY SlotType
<1>3. a + 1 = b + 1 /\ c = d
  BY <1>1, <1>2
<1>4. a = b
  BY <1>3
<1> QED
  BY <1>1, <1>2, <1>3, <1>4

LEMMA WrittenType ==
  ASSUME Entered
  PROVE  Written \in Nat
BY FS_CardinalityType DEF Entered, Written

LEMMA InitTyped == Init => Typed /\ Ordered /\ Entered
<1> SUFFICES ASSUME Init PROVE Typed /\ Ordered /\ Entered
  OBVIOUS
<1>1. files \in Seq(Nat)
  <2>1. PICK n \in 0 .. MaxFiles : files \in [1 .. n -> Lengths]
    BY DEF Init
  <2>2. n \in Nat /\ Lengths \subseteq Nat
    BY DiskAssumption
  <2>3. files \in [1 .. n -> Nat]
    BY <2>1, <2>2
  <2> QED
    BY <2>2, <2>3
<1>2. free \subseteq Sector
  BY DEF Init
<1>3. link \in [Sector -> Byte \X Byte]
  <2>1. <<DirTrack, 1>> \in Byte \X Byte /\ NoLink \in Byte \X Byte
    BY DiskAssumption, SectorType DEF NoLink, Byte
  <2> QED
    BY <2>1 DEF Init
<1>4. nextData \in 0 .. Cardinality(DataSector)
  BY DataIs DEF Init
<1>5. placed = <<>> /\ dir = <<>> /\ pc = "place" /\ DOMAIN entry = {}
  BY DEF Init
<1>6. IsFiniteSet(DOMAIN entry) /\ Written = 0
  BY <1>5, FS_EmptySet DEF Written
<1>7. Typed
  BY <1>1, <1>2, <1>3, <1>4, <1>5, EmptySeq DEF Typed
<1>8. Ordered
  BY <1>5, EmptySeq DEF Ordered
<1>9. Entered
  BY <1>5, <1>6, EmptySeq DEF Entered
<1> QED
  BY <1>7, <1>8, <1>9

LEMMA TypedStep ==
  ASSUME Typed, Ordered, Entered, Next
  PROVE  Typed'
<1>1. CASE PlaceFile
  <2>1. PICK len, n, used : len = Next1 /\ n = NumSectors(len) /\ used = Run(nextData, n)
    OBVIOUS
  <2>2. /\ len \in Nat /\ n \in Nat \ {0}
        /\ nextData + n <= Cardinality(DataSector)
        /\ \A i \in 1 .. n : Data(nextData + i) \in DataSector
        /\ nextData' = nextData + n
        /\ free' = free \ used
        /\ placed' = Append(placed, [first |-> Data(nextData + 1), sectors |-> n])
        /\ DOMAIN link' = Sector
        /\ \A ts \in Sector \ used : link'[ts] = link[ts]
        /\ \A i \in 1 .. n - 1 : link'[Data(nextData + i)] = Data(nextData + i + 1)
        /\ link'[Data(nextData + n)] = EndLink(len - (n - 1) * Payload)
        /\ \E f : link' = [ts \in Sector |-> f[ts]]
    BY <1>1, <2>1, PlaceFacts
  <2>3. UNCHANGED <<files, pc>> /\ Len(placed) < Len(files)
    BY <1>1 DEF PlaceFile
  <2>4. nextData \in Nat /\ Cardinality(DataSector) \in Nat
    BY DataIs DEF Typed
  <2>5. nextData' \in 0 .. Cardinality(DataSector)
    BY <2>2, <2>4
  <2>6. free' \subseteq Sector
    BY <2>2 DEF Typed
  <2>7. placed' \in Seq(Placed) /\ Len(placed') = Len(placed) + 1
    <3>1. [first |-> Data(nextData + 1), sectors |-> n] \in Placed
      BY <2>2 DEF Placed
    <3> QED
      BY <2>2, <3>1, AppendProperties DEF Typed
  <2>8. Len(placed') <= Len(files')
    <3>1. Len(placed) \in Nat /\ Len(files) \in Nat
      BY DEF Typed
    <3> QED
      BY <2>3, <2>7, <3>1
  <2>9. \A ts \in Sector : link'[ts] \in Byte \X Byte
    <3> SUFFICES ASSUME NEW ts \in Sector PROVE link'[ts] \in Byte \X Byte
      OBVIOUS
    <3>1. CASE ts \notin used
      BY <2>2, <3>1 DEF Typed
    <3>2. CASE ts \in used
      <4>1. PICK i \in 1 .. n : ts = Data(nextData + i)
        BY <2>1, <3>2 DEF Run
      <4>2. CASE i = n
        <5>1. PICK r \in 0 .. Payload : r = len - (n - 1) * Payload
          BY <2>1, <2>2, SectorsOf
        <5>2. r + 1 \in Byte
          BY <5>1, DiskAssumption DEF Byte
        <5>3. link'[ts] = EndLink(r)
          BY <2>2, <4>1, <4>2, <5>1
        <5>4. EndLink(r) \in Byte \X Byte
          BY <5>2 DEF EndLink, Byte
        <5> QED
          BY <5>3, <5>4
      <4>3. CASE i # n
        <5>1. i \in 1 .. n - 1 /\ i + 1 \in 1 .. n /\ nextData + i + 1 = nextData + (i + 1)
          <6>1. n \in Nat \ {0} /\ nextData \in Nat
            BY <2>2, <2>4
          <6> QED
            BY ONLY <4>3, <6>1, i \in 1 .. n
        <5>2. link'[ts] = Data(nextData + (i + 1)) /\ Data(nextData + (i + 1)) \in Sector
          BY <2>2, <4>1, <5>1 DEF DataSector
        <5> QED
          BY <5>2, SectorType DEF Byte
      <4> QED
        BY <4>2, <4>3
    <3> QED
      BY <3>1, <3>2
  <2>10. link' \in [Sector -> Byte \X Byte]
    BY <2>2, <2>9
  <2> QED
    BY <2>3, <2>5, <2>6, <2>7, <2>8, <2>10 DEF Typed
<1>2. CASE LinkDir
  <2> DEFINE Pos(ts) == CHOOSE j \in DOMAIN dir : dir[j] = ts
             L == [ts \in Sector |-> IF \E i \in DOMAIN dir : dir[i] = ts
                    THEN IF Pos(ts) < Len(dir) THEN dir[Pos(ts) + 1] ELSE EndOfDir
                    ELSE link[ts]]
  <2>1. link' = L
    BY <1>2 DEF LinkDir
  <2>2. \A ts \in Sector : L[ts] \in Byte \X Byte
    <3> SUFFICES ASSUME NEW ts \in Sector PROVE L[ts] \in Byte \X Byte
      OBVIOUS
    <3>1. dir \in Seq(Sector) /\ Len(dir) \in Nat
      BY DEF Ordered
    <3>2. ASSUME NEW i \in DOMAIN dir, dir[i] = ts
          PROVE  L[ts] \in Byte \X Byte
      <4>1. Pos(ts) \in 1 .. Len(dir)
        BY <3>1, <3>2
      <4> HIDE DEF Pos
      <4>2. L[ts] = IF Pos(ts) < Len(dir) THEN dir[Pos(ts) + 1] ELSE EndOfDir
        BY <3>2
      <4>3. Pos(ts) < Len(dir) => dir[Pos(ts) + 1] \in Sector
        <5>1. Pos(ts) < Len(dir) => Pos(ts) + 1 \in 1 .. Len(dir)
          BY <3>1, <4>1
        <5> QED
          BY <3>1, <5>1, ElementOfSeq
      <4>4. EndOfDir \in Byte \X Byte
        BY DEF EndOfDir, Byte
      <4> HIDE DEF L
      <4> QED
        BY <4>2, <4>3, <4>4, SectorType DEF Byte
    <3>3. CASE ~ \E i \in DOMAIN dir : dir[i] = ts
      <4> HIDE DEF Pos
      <4> QED
        BY <3>3 DEF Typed
    <3> QED
      BY <3>2, <3>3
  <2>3. L \in [Sector -> Byte \X Byte]
    <3>1. L = [ts \in Sector |-> L[ts]]
      OBVIOUS
    <3> HIDE DEF L
    <3> QED
      BY <2>2, <3>1
  <2> HIDE DEF L
  <2>4. link' \in [Sector -> Byte \X Byte]
    BY <2>1, <2>3
  <2> QED
    BY <1>2, <2>4 DEF LinkDir, Typed
<1>3. CASE WriteEntry
  <2>1. Written + 1 \in 1 .. Len(placed)
    BY <1>3, WrittenType DEF WriteEntry, Typed
  <2>2. placed[Written + 1].sectors \in Nat
    <3>1. placed[Written + 1] \in Placed
      BY <2>1, ElementOfSeq DEF Typed
    <3> QED
      BY <3>1 DEF Placed
  <2>3. PICK n \in Nat : n = placed[Written + 1].sectors
    BY <2>2
  <2>4. n % 256 \in Byte /\ (n \div 256) % 256 \in Byte
    <3>1. n % 256 \in Byte
      BY DEF Byte
    <3>2. PICK k \in Nat : k = n \div 256
      OBVIOUS
    <3>3. k % 256 \in Byte
      BY DEF Byte
    <3> QED
      BY <3>1, <3>2, <3>3
  <2>5. \/ link' = link
        \/ \E ts : link' = [link EXCEPT ![ts] = <<n % 256, (n \div 256) % 256>>]
    BY <1>3, <2>3 DEF WriteEntry
  <2>6. link' \in [Sector -> Byte \X Byte]
    <3>1. PICK v \in Byte \X Byte : v = <<n % 256, (n \div 256) % 256>>
      BY <2>4
    <3>2. link' = link \/ \E ts : link' = [link EXCEPT ![ts] = v]
      BY <2>5, <3>1
    <3> QED
      BY <3>2 DEF Typed
  <2> QED
    BY <1>3, <2>6 DEF WriteEntry, Typed
<1>4. CASE AddDirSector
  BY <1>4 DEF AddDirSector, Typed
<1>5. CASE DiskFull \/ StartDir \/ DirFull \/ Finish \/ Over
  BY <1>5 DEF DiskFull, StartDir, DirFull, Finish, Over, vars, Typed
<1> QED
  BY <1>1, <1>2, <1>3, <1>4, <1>5 DEF Next

LEMMA OrderedStep ==
  ASSUME Typed, Ordered, Entered, Next
  PROVE  Ordered'
<1>0. files \in Seq(Nat) /\ Len(files) \in Nat /\ Len(placed) \in Nat
  BY DEF Typed
<1>1. DirSectors \in Nat \ {0}
  BY <1>0, DirRoom
<1>2. files' = files /\ DirSectors' = DirSectors
  <2>1. files' = files
    BY DEF Next, PlaceFile, DiskFull, StartDir, AddDirSector, DirFull, LinkDir, WriteEntry,
           Finish, Over, vars
  <2> QED
    BY <2>1 DEF DirSectors
<1>3. CASE PlaceFile
  BY <1>3 DEF PlaceFile, Ordered
<1>4. CASE StartDir
  <2>1. <<DirTrack, 1>> \in Sector
    BY DiskAssumption DEF Sector
  <2>2. dir' = <<<<DirTrack, 1>>>>
    BY <1>4 DEF StartDir
  <2>3. dir' \in Seq(Sector) /\ Len(dir') = 1 /\ \A i \in DOMAIN dir' : dir'[i] = <<DirTrack, i>>
    BY <2>1, <2>2
  <2> QED
    BY <1>1, <1>2, <1>4, <2>3 DEF StartDir, Ordered
<1>5. CASE AddDirSector
  <2>1. Len(dir) \in 1 .. DirSectors /\ Len(dir) < DirSectors /\ dir \in Seq(Sector)
    BY <1>5 DEF AddDirSector, Ordered
  <2>2. dir' = Append(dir, <<DirTrack, Len(dir) + 1>>) /\ <<DirTrack, Len(dir) + 1>> \in Sector
    BY <1>5 DEF AddDirSector
  <2>3. /\ dir' \in Seq(Sector) /\ Len(dir') = Len(dir) + 1
        /\ \A i \in 1 .. Len(dir) : dir'[i] = dir[i]
        /\ dir'[Len(dir) + 1] = <<DirTrack, Len(dir) + 1>>
    BY <2>1, <2>2, AppendProperties
  <2>4. \A i \in DOMAIN dir' : dir'[i] = <<DirTrack, i>>
    BY <2>1, <2>3 DEF Ordered
  <2>5. Len(dir') \in 1 .. DirSectors'
    BY <1>1, <1>2, <2>1, <2>3
  <2> QED
    BY <1>2, <1>5, <2>3, <2>4, <2>5 DEF AddDirSector, Ordered
<1>6. CASE DiskFull \/ DirFull \/ LinkDir \/ WriteEntry \/ Finish \/ Over
  BY <1>2, <1>6 DEF DiskFull, DirFull, LinkDir, WriteEntry, Finish, Over, vars, Ordered
<1> QED
  BY <1>3, <1>4, <1>5, <1>6 DEF Next

LEMMA EnteredStep ==
  ASSUME Typed, Ordered, Entered, Next
  PROVE  Entered'
<1>0. Written \in Nat /\ Len(placed) \in Nat
  BY WrittenType DEF Typed
<1>1. CASE WriteEntry
  <2> DEFINE slot == SlotOf(Written)
  <2>1. pc = "entries" /\ pc' = pc /\ UNCHANGED <<dir, placed>> /\ Written < Len(placed)
    BY <1>1 DEF WriteEntry
  <2>2. entry' = [s \in DOMAIN entry \cup {slot} |->
                    IF s = slot THEN Written + 1 ELSE entry[s]]
    BY <1>1 DEF WriteEntry
  <2>3. /\ IsFiniteSet(DOMAIN entry)
        /\ DOMAIN entry = {SlotOf(i) : i \in 0 .. Written - 1}
        /\ \A i \in 0 .. Written - 1 : entry[SlotOf(i)] = i + 1
    BY DEF Entered
  <2>4. \A i \in 0 .. Written - 1 : SlotOf(i) # slot
    <3> SUFFICES ASSUME NEW i \in 0 .. Written - 1, SlotOf(i) = SlotOf(Written) PROVE FALSE
      OBVIOUS
    <3>1. i \in 0 .. Len(placed) - 1 /\ Written \in 0 .. Len(placed) - 1
      BY <1>0, <2>1
    <3>2. i = Written
      BY <2>1, <3>1, SlotsDiffer
    <3> QED
      BY <1>0, <3>2
  <2>5. slot \notin DOMAIN entry
    BY <2>3, <2>4
  <2>6. \A i : SlotOf(i)' = SlotOf(i)
    BY <2>1 DEF SlotOf
  <2> HIDE DEF slot
  <2>7. DOMAIN entry' = DOMAIN entry \cup {slot}
    BY <2>2
  <2>8. IsFiniteSet(DOMAIN entry') /\ Written' = Written + 1
    BY <2>3, <2>5, <2>7, FS_AddElement DEF Written
  <2>9. DOMAIN entry' = {SlotOf(i) : i \in 0 .. Written}
    BY <1>0, <2>3, <2>7 DEF slot
  <2>10. ASSUME NEW i \in 0 .. Written PROVE entry'[SlotOf(i)] = i + 1
    <3>1. SlotOf(i) \in DOMAIN entry'
      BY <2>9
    <3>2. CASE i = Written
      BY <2>2, <2>7, <3>1, <3>2 DEF slot
    <3>3. CASE i # Written
      <4>1. i \in 0 .. Written - 1
        BY <1>0, <3>3
      <4> QED
        BY <2>2, <2>3, <2>4, <2>7, <3>1, <4>1
    <3> QED
      BY <3>2, <3>3
  <2>11. 0 .. Written' - 1 = 0 .. Written
    BY <1>0, <2>8
  <2>12. Written' <= Len(placed')
    BY <1>0, <2>1, <2>8
  <2>13. DOMAIN entry' = {SlotOf(i)' : i \in 0 .. Written' - 1}
    BY <2>6, <2>9, <2>11
  <2>14. \A i \in 0 .. Written' - 1 : entry'[SlotOf(i)'] = i + 1
    BY <2>6, <2>10, <2>11
  <2> QED
    BY <2>1, <2>8, <2>12, <2>13, <2>14 DEF Entered
<1>2. CASE PlaceFile \/ DiskFull \/ StartDir \/ AddDirSector
  <2>1. pc \in {"place", "dir"} /\ entry' = entry
    BY <1>2 DEF PlaceFile, DiskFull, StartDir, AddDirSector
  <2>2. Written = 0 /\ Written' = 0
    BY <2>1 DEF Entered, Written
  <2>3. DOMAIN entry = {}
    BY <2>2 DEF Entered
  <2>4. Len(placed') \in Nat
    <3>1. CASE PlaceFile
      BY <3>1 DEF PlaceFile, Typed
    <3>2. CASE placed' = placed
      BY <1>0, <3>2
    <3> QED
      BY <1>2, <3>1, <3>2 DEF DiskFull, StartDir, AddDirSector
  <2>5. pc' # "done"
    BY <1>2 DEF PlaceFile, DiskFull, StartDir, AddDirSector
  <2> QED
    BY <2>1, <2>2, <2>3, <2>4, <2>5, FS_EmptySet DEF Entered
<1>3. CASE DirFull \/ LinkDir \/ Finish \/ Over
  <2>1. UNCHANGED <<entry, dir, placed>>
    BY <1>3 DEF DirFull, LinkDir, Finish, Over, vars
  <2>2. Written' = Written /\ \A i : SlotOf(i)' = SlotOf(i)
    BY <2>1 DEF Written, SlotOf
  <2>3. pc' \in {"place", "dir"} => pc \in {"place", "dir"}
    BY <1>3 DEF DirFull, LinkDir, Finish, Over, vars
  <2>4. pc' = "done" => Written = Len(placed)
    BY <1>3 DEF DirFull, LinkDir, Finish, Over, vars, Entered
  <2> QED
    BY <2>1, <2>2, <2>3, <2>4 DEF Entered
<1> QED
  BY <1>1, <1>2, <1>3 DEF Next

-----------------------------------------------------------------------------
(* The block availability map.                                             *)

OnTrack(S, t) == {ts \in S : ts[1] = t}

Counted == count = [t \in Track |-> Cardinality(OnTrack(free, t))]

\* The sectors that are not free.
Taken == {<<DirTrack, 0>>, <<DirTrack, 1>>}
         \cup {ts \in Sector : ts[1] \in Reserved}
         \cup {dir[i] : i \in DOMAIN dir}
         \cup {Data(n) : n \in 1 .. nextData}

Mapped == Counted /\ Sector \ free = Taken

LEMMA TrackSize ==
  ASSUME NEW S \in SUBSET Sector, NEW t \in Track
  PROVE  IsFiniteSet(OnTrack(S, t)) /\ Cardinality(OnTrack(S, t)) \in 0 .. 256
<1>1. OnTrack(S, t) \subseteq {t} \X (0 .. 255)
  <2>1. \A ts \in OnTrack(S, t) : ts = <<ts[1], ts[2]>> /\ ts[1] = t /\ ts[2] \in 0 .. 255
    BY SectorType DEF OnTrack
  <2> QED
    BY <2>1
<1>2. IsFiniteSet({t}) /\ Cardinality({t}) = 1 /\ IsFiniteSet(0 .. 255) /\ Cardinality(0 .. 255) = 256
  <2>1. PICK a \in Int, b \in Int : a = 0 /\ b = 255
    OBVIOUS
  <2>2. IsFiniteSet(a .. b) /\ Cardinality(a .. b) = IF a > b THEN 0 ELSE b - a + 1
    BY FS_Interval
  <2>3. IsFiniteSet(0 .. 255) /\ Cardinality(0 .. 255) = 256
    BY <2>1, <2>2
  <2> QED
    BY <2>3, FS_Singleton
<1>3. IsFiniteSet({t} \X (0 .. 255)) /\ Cardinality({t} \X (0 .. 255)) = 256
  BY <1>2, FS_Product
<1> DEFINE A == OnTrack(S, t)
           B == {t} \X (0 .. 255)
<1>4. IsFiniteSet(A) /\ Cardinality(A) <= 256 /\ Cardinality(A) \in Nat
  <2> HIDE DEF A, B
  <2>1. A \subseteq B /\ IsFiniteSet(B) /\ Cardinality(B) = 256
    BY <1>1, <1>3 DEF A, B
  <2> QED
    BY <2>1, FS_Subset, FS_CardinalityType
<1> QED
  BY <1>4

\* Sectors that are taken out of the map are taken out of its counts.
LEMMA TakeOut ==
  ASSUME free \subseteq Sector, Counted, NEW S, free' = free \ S, count' = CountWithout(S)
  PROVE  Counted'
<1>1. ASSUME NEW t \in Track
      PROVE  count[t] - Cardinality({ts \in S \cap free : ts[1] = t}) = Cardinality(OnTrack(free', t))
  <2> DEFINE A == OnTrack(free, t)
             B == {ts \in S \cap free : ts[1] = t}
             C == OnTrack(free', t)
  <2> SUFFICES count[t] - Cardinality(B) = Cardinality(C)
    OBVIOUS
  <2>1. IsFiniteSet(A) /\ Cardinality(A) \in Nat
    BY TrackSize
  <2>2. B \subseteq A /\ C = A \ B /\ A \cap B = B
    BY DEF OnTrack
  <2>3. count[t] = Cardinality(A)
    BY DEF Counted
  <2> HIDE DEF A, B, C
  <2>4. Cardinality(C) = Cardinality(A) - Cardinality(B)
    <3>1. Cardinality(A \ B) = Cardinality(A) - Cardinality(A \cap B)
      BY <2>1, FS_Difference
    <3> QED
      BY <2>2, <3>1
  <2> QED
    BY <2>3, <2>4
<1>2. count' = [t \in Track |-> Cardinality(OnTrack(free', t))]
  BY <1>1 DEF CountWithout
<1> QED
  BY <1>2 DEF Counted, OnTrack

LEMMA InitMapped == Init => Mapped
<1> SUFFICES ASSUME Init PROVE Mapped
  OBVIOUS
<1> DEFINE R == {ts \in Sector : ts[1] \in Reserved}
<1>1. free = Sector \ ({<<DirTrack, 0>>, <<DirTrack, 1>>} \cup R)
  BY DEF Init
<1>2. count = [t \in Track |-> Cardinality({ts \in free : ts[1] = t})]
  BY <1>1 DEF Init
<1>3. <<DirTrack, 0>> \in Sector /\ <<DirTrack, 1>> \in Sector
  BY DiskAssumption DEF Sector
<1>4. {dir[i] : i \in DOMAIN dir} = {} /\ {Data(n) : n \in 1 .. nextData} = {}
  BY DEF Init
<1>5. Sector \ free = {<<DirTrack, 0>>, <<DirTrack, 1>>} \cup R
  BY <1>1, <1>3
<1>6. Taken = {<<DirTrack, 0>>, <<DirTrack, 1>>} \cup R
  BY <1>4 DEF Taken
<1> QED
  BY <1>2, <1>5, <1>6 DEF Mapped, Counted, OnTrack

LEMMA MappedStep ==
  ASSUME Typed, Ordered, Mapped, Next
  PROVE  Mapped'
<1>0. free \subseteq Sector /\ Counted /\ Sector \ free = Taken
  BY DEF Typed, Mapped
<1>1. CASE PlaceFile
  <2>1. PICK len, n, used : len = Next1 /\ n = NumSectors(len) /\ used = Run(nextData, n)
    OBVIOUS
  <2>2. /\ n \in Nat \ {0}
        /\ \A i \in 1 .. n : Data(nextData + i) \in DataSector
        /\ nextData' = nextData + n
        /\ free' = free \ used
        /\ count' = CountWithout(used)
    BY <1>1, <2>1, PlaceFacts
  <2>3. Counted'
    BY <1>0, <2>2, TakeOut
  <2>4. {Data(i) : i \in 1 .. nextData'} = {Data(i) : i \in 1 .. nextData} \cup used
    <3>1. nextData \in Nat
      BY DataIs DEF Typed
    <3>2. \A i \in 1 .. nextData + n : i \in 1 .. nextData \/ (i - nextData \in 1 .. n /\ i = nextData + (i - nextData))
      BY <2>2, <3>1
    <3>3. \A i \in 1 .. n : nextData + i \in 1 .. nextData + n
      BY <2>2, <3>1
    <3>4. 1 .. nextData \subseteq 1 .. nextData + n
      BY <2>2, <3>1
    <3> QED
      BY <2>1, <2>2, <3>2, <3>3, <3>4 DEF Run
  <2>5. dir' = dir
    BY <1>1 DEF PlaceFile
  <2>6. Taken' = Taken \cup used
    BY <2>4, <2>5 DEF Taken
  <2>7. used \subseteq Sector
    BY <2>1, <2>2 DEF Run, DataSector
  <2>8. Sector \ free' = (Sector \ free) \cup used
    BY <2>2, <2>7
  <2> QED
    BY <1>0, <2>3, <2>6, <2>8 DEF Mapped
<1>2. CASE AddDirSector
  <2> DEFINE ts == <<DirTrack, Len(dir) + 1>>
  <2>1. /\ ts \in Sector /\ dir' = Append(dir, ts) /\ free' = free \ {ts}
        /\ count' = CountWithout({ts}) /\ nextData' = nextData
    BY <1>2 DEF AddDirSector
  <2>2. Counted'
    BY <1>0, <2>1, TakeOut
  <2>3. {dir'[i] : i \in DOMAIN dir'} = {dir[i] : i \in DOMAIN dir} \cup {ts}
    <3> HIDE DEF ts
    <3>1. dir \in Seq(Sector) /\ Len(dir) \in Nat
      BY DEF Ordered
    <3>2. /\ Len(dir') = Len(dir) + 1 /\ DOMAIN dir' = 1 .. Len(dir) + 1 /\ DOMAIN dir = 1 .. Len(dir)
          /\ \A i \in 1 .. Len(dir) : dir'[i] = dir[i]
          /\ dir'[Len(dir) + 1] = ts
      BY <2>1, <3>1, AppendProperties
    <3> QED
      BY <3>1, <3>2
  <2>4. Taken' = Taken \cup {ts}
    BY <2>1, <2>3 DEF Taken
  <2>5. Sector \ free' = (Sector \ free) \cup {ts}
    BY <2>1
  <2> QED
    BY <1>0, <2>2, <2>4, <2>5 DEF Mapped
<1>3. CASE StartDir
  <2>1. dir = <<>> /\ dir' = <<<<DirTrack, 1>>>>
    BY <1>3 DEF StartDir, Ordered
  <2>2. UNCHANGED <<free, count, nextData>>
    BY <1>3 DEF StartDir
  <2>3. {dir[i] : i \in DOMAIN dir} = {} /\ {dir'[i] : i \in DOMAIN dir'} = {<<DirTrack, 1>>}
    BY <2>1
  <2>4. Taken' = Taken
    BY <2>2, <2>3 DEF Taken
  <2> QED
    BY <1>0, <2>2, <2>4 DEF Mapped, Counted, OnTrack
<1>4. CASE DiskFull \/ DirFull \/ LinkDir \/ WriteEntry \/ Finish \/ Over
  BY <1>4 DEF DiskFull, DirFull, LinkDir, WriteEntry, Finish, Over, vars,
              Mapped, Counted, OnTrack, Taken
<1> QED
  BY <1>1, <1>2, <1>3, <1>4 DEF Next

-----------------------------------------------------------------------------
(* Every finished or failed build.                                         *)

Build == Typed /\ Ordered /\ Entered /\ Mapped

LEMMA Built == Spec => []Build
<1>1. Init => Build
  BY InitTyped, InitMapped DEF Build
<1>2. Build /\ [Next]_vars => Build'
  <2> SUFFICES ASSUME Build, [Next]_vars PROVE Build'
    OBVIOUS
  <2>1. CASE Next
    BY <2>1, TypedStep, OrderedStep, EnteredStep, MappedStep DEF Build
  <2>2. CASE UNCHANGED vars
    <3>1. UNCHANGED <<files, pc, free, count, link, nextData, placed, dir, entry>>
      BY <2>2 DEF vars
    <3>2. Typed'
      BY <3>1 DEF Build, Typed
    <3>3. Ordered'
      BY <3>1 DEF Build, Ordered, DirSectors
    <3>4. Written' = Written /\ \A i : SlotOf(i)' = SlotOf(i)
      BY <3>1 DEF Written, SlotOf
    <3>5. Entered'
      BY <3>1, <3>4 DEF Build, Entered
    <3>6. Mapped'
      BY <3>1 DEF Build, Mapped, Counted, OnTrack, Taken
    <3> QED
      BY <3>2, <3>3, <3>5, <3>6 DEF Build
  <2> QED
    BY <2>1, <2>2
<1> QED
  BY <1>1, <1>2, PTL DEF Spec

\* The bytes buildDisk (c64/d64.go) puts into links and free counts are bytes, the
\* sectors of files are data sectors, those of the directory are on its track, and every
\* entry is of a file that has been placed, on a disk of any geometry.
THEOREM TypeCorrect == Spec => []TypeOK
<1>1. Build => TypeOK
  <2> SUFFICES ASSUME Build PROVE TypeOK
    OBVIOUS
  <2>1. count \in [Track -> 0 .. 256]
    <3>1. free \subseteq Sector /\ count = [t \in Track |-> Cardinality(OnTrack(free, t))]
      BY DEF Build, Typed, Mapped, Counted
    <3>2. \A t \in Track : Cardinality(OnTrack(free, t)) \in 0 .. 256
      BY <3>1, TrackSize
    <3> QED
      BY <3>1, <3>2
  <2>2. \A i \in DOMAIN placed : placed[i] \in [first : DataSector, sectors : Nat \ {0}]
    <3>1. placed \in Seq(Placed)
      BY DEF Build, Typed
    <3>2. \A i \in DOMAIN placed : placed[i] \in Placed
      BY <3>1, ElementOfSeq
    <3> QED
      BY <3>2 DEF Placed
  <2>3. \A i \in DOMAIN dir : dir[i] \in Sector
    BY ElementOfSeq DEF Build, Ordered
  <2>4. ASSUME NEW s \in DOMAIN entry
        PROVE  s[2] \in 0 .. Entries - 1 /\ entry[s] \in DOMAIN placed
    <3>1. Written \in Nat /\ Len(placed) \in Nat /\ Written <= Len(placed)
      BY WrittenType DEF Build, Typed, Entered
    <3>2. PICK i \in 0 .. Written - 1 : s = SlotOf(i) /\ entry[s] = i + 1
      BY DEF Build, Entered
    <3>3. Written # 0
      BY <3>1, <3>2
    <3>4. CASE pc \in {"entries", "done"}
      <4>1. i \in 0 .. Len(placed) - 1
        BY <3>1, <3>2
      <4>2. PICK q \in Nat, r \in Nat : r < Entries /\ s = <<<<DirTrack, q + 1>>, r>>
        BY <3>2, <3>4, <4>1, SlotType DEF Build
      <4>3. s[2] = r /\ r \in 0 .. Entries - 1
        BY <4>2, DiskAssumption
      <4>4. entry[s] \in 1 .. Len(placed)
        BY <3>1, <3>2
      <4> QED
        BY <4>3, <4>4 DEF Build, Typed
    <3>5. CASE pc \notin {"entries", "done"}
      <4>1. s[2] \in 0 .. Entries - 1
        <5>1. s[2] = i % Entries /\ i \in Nat
          BY <3>1, <3>2 DEF SlotOf
        <5> QED
          BY <5>1, DivMod, DiskAssumption
      <4>2. entry[s] \in 1 .. Len(placed)
        BY <3>1, <3>2
      <4> QED
        BY <4>1, <4>2 DEF Build, Typed
    <3> QED
      BY <3>4, <3>5
  <2> QED
    BY <2>1, <2>2, <2>3, <2>4 DEF Build, Typed, TypeOK, Byte
<1> QED
  BY <1>1, Built, PTL

\* At every step of buildDisk, of every list of files: a sector is marked free exactly if
\* neither the header, the directory, a reserved track nor a file has it, and the free
\* count of every track is the number of its free sectors: allocateSector, which is called
\* again for sectors that are taken, counts none twice.
THEOREM MapIsExact == Spec => []MapExact
<1>1. Build => MapExact
  BY DEF Build, Mapped, Counted, OnTrack, Taken, MapExact
<1> QED
  BY <1>1, Built, PTL

-----------------------------------------------------------------------------
(* Following links.                                                        *)

\* Induction, stated for a set of numbers.
LEMMA Induction ==
  ASSUME NEW S, 0 \in S, \A n \in Nat : n \in S => n + 1 \in S
  PROVE  Nat \subseteq S
<1> SUFFICES ASSUME {n \in Nat : n \notin S} # {} PROVE FALSE
  OBVIOUS
<1> DEFINE T == {n \in Nat : n \notin S}
           R == {ss \in Nat \X Nat : ss[1] < ss[2]}
<1>1. IsWellFoundedOn(R, Nat)
  BY NatLessThanWellFounded DEF OpToRel
<1>2. T \subseteq Nat /\ T # {}
  OBVIOUS
<1>3. PICK x \in T : \A y \in T : ~ (<<y, x>> \in R)
  <2> HIDE DEF R, T
  <2> QED
    BY <1>1, <1>2, WFMin
<1>4. x \in Nat \ {0}
  OBVIOUS
<1>5. x - 1 \in Nat /\ <<x - 1, x>> \in R /\ (x - 1) + 1 = x
  BY <1>4
<1>6. x - 1 \in S
  BY <1>3, <1>5
<1> QED
  BY <1>4, <1>5, <1>6

\* The link a drive follows from a sector, and the place it stays at elsewhere.
Follow(ts) == IF ts \in Sector THEN link[ts] ELSE ts

\* The walk is what its recursive definition says.
LEMMA WalkIs ==
  ASSUME NEW first
  PROVE  /\ Cardinality(Sector) \in Nat
         /\ DOMAIN Walk(first) = 0 .. Cardinality(Sector)
         /\ Walk(first)[0] = first
         /\ \A k \in 1 .. Cardinality(Sector) : Walk(first)[k] = Follow(Walk(first)[k - 1])
<1> DEFINE N == Cardinality(Sector)
           Def(g, m) == g = [k \in 0 .. m |-> IF k = 0 THEN first
                                              ELSE IF g[k - 1] \in Sector THEN link[g[k - 1]]
                                              ELSE g[k - 1]]
           S == {m \in Nat : \E g : Def(g, m)}
<1>1. N \in Nat
  BY SectorFinite, FS_CardinalityType
<1>2. 0 \in S
  <2>1. Def([k \in 0 .. 0 |-> first], 0)
    OBVIOUS
  <2> QED
    BY <2>1
<1>3. ASSUME NEW m \in Nat, m \in S PROVE m + 1 \in S
  <2>1. PICK g : Def(g, m)
    BY <1>3
  <2> DEFINE h == [k \in 0 .. m + 1 |-> IF k <= m THEN g[k]
                     ELSE IF g[m] \in Sector THEN link[g[m]] ELSE g[m]]
  <2>2. Def(h, m + 1)
    <3> SUFFICES ASSUME NEW k \in 0 .. m + 1
                 PROVE  h[k] = IF k = 0 THEN first ELSE IF h[k - 1] \in Sector THEN link[h[k - 1]] ELSE h[k - 1]
      OBVIOUS
    <3>1. CASE k = 0
      BY <2>1, <3>1
    <3>2. CASE k # 0
      <4>1. k - 1 \in 0 .. m /\ h[k - 1] = g[k - 1]
        BY <3>2
      <4>2. CASE k <= m
        <5>1. k \in 0 .. m /\ h[k] = g[k]
          BY <4>2
        <5> HIDE DEF h
        <5> QED
          BY <2>1, <3>2, <4>1, <5>1
      <4>3. CASE k = m + 1
        <5>1. k - 1 = m /\ ~(k <= m)
          BY <4>3
        <5>2. h[k] = IF g[m] \in Sector THEN link[g[m]] ELSE g[m]
          BY <5>1
        <5> HIDE DEF h
        <5> QED
          BY <3>2, <4>1, <5>1, <5>2
      <4> QED
        BY <4>2, <4>3
    <3> QED
      BY <3>1, <3>2
  <2> HIDE DEF h
  <2> QED
    BY <2>2
<1>4. \E g : Def(g, N)
  <2>1. Nat \subseteq S
    <3> HIDE DEF S
    <3> QED
      BY <1>2, <1>3, Induction
  <2> HIDE DEF N, Def
  <2> QED
    BY <1>1, <2>1
<1>5. Walk(first) = CHOOSE g : Def(g, N)
  BY DEF Walk
<1>6. Def(Walk(first), N)
  <2> HIDE DEF Def
  <2> QED
    BY <1>4, <1>5
<1> DEFINE w == Walk(first)
<1>7. w = [k \in 0 .. N |-> IF k = 0 THEN first
                            ELSE IF w[k - 1] \in Sector THEN link[w[k - 1]] ELSE w[k - 1]]
  BY <1>6
<1> HIDE DEF w, N
<1>8. DOMAIN w = 0 .. N /\ w[0] = first
  BY <1>1, <1>7
<1>9. \A k \in 1 .. N : w[k] = Follow(w[k - 1])
  BY <1>1, <1>7 DEF Follow
<1> QED
  BY <1>1, <1>8, <1>9 DEF w, N

-----------------------------------------------------------------------------
(* The chains of the files.                                                *)

\* The chain of the i-th file: its n sectors are those behind the first b, each links to
\* the next one, and the last says how many bytes it holds.
ChainAt(i, b, n) ==
  /\ b \in Nat
  /\ n = NumSectors(files[i])
  /\ b + n <= nextData
  /\ placed[i].first = Data(b + 1)
  /\ \A k \in 1 .. n - 1 : link[Data(b + k)] = Data(b + k + 1)
  /\ link[Data(b + n)] = EndLink(files[i] - (n - 1) * Payload)

Base(i) == DataBefore(placed[i].first)

Chains ==
  \A i \in DOMAIN placed :
    /\ ChainAt(i, Base(i), placed[i].sectors)
    /\ \A j \in DOMAIN placed : i < j => Base(i) + placed[i].sectors <= Base(j)

\* The files leave a slot of the directory's track free.
Roomy == Len(files) < Entries * (Sectors[DirTrack] - 1)

\* A data sector that is taken already, and one that is taken next.
LEMMA RunsDiffer ==
  ASSUME NEW a \in Nat, NEW k \in Nat \ {0}, k <= a, NEW n \in Nat,
         a + n <= Cardinality(DataSector)
  PROVE  Data(k) \in Sector \ Run(a, n)
<1>1. Cardinality(DataSector) \in Nat
  BY DataIs
<1>2. k \in 1 .. Cardinality(DataSector)
  BY <1>1
<1>3. Data(k) \in Sector
  BY <1>2, DataIs DEF DataSector
<1>4. ASSUME NEW i \in 1 .. n PROVE Data(a + i) # Data(k)
  <2>1. a + i \in 1 .. Cardinality(DataSector) /\ a + i # k
    BY <1>1
  <2> QED
    BY <1>2, <2>1, DataIs
<1> QED
  BY <1>3, <1>4 DEF Run

\* Nothing but the links of data sectors matters to a chain.
LEMMA ChainsKept ==
  ASSUME Typed, Chains, UNCHANGED <<files, nextData, placed>>,
         \A ts \in DataSector : link'[ts] = link[ts]
  PROVE  Chains'
<1>1. \A i : Base(i)' = Base(i)
  BY DEF Base
<1>2. ASSUME NEW i \in DOMAIN placed, NEW b, NEW n, n = placed[i].sectors, ChainAt(i, b, n)
      PROVE  ChainAt(i, b, n)'
  <2>1. placed \in Seq(Placed) /\ nextData \in Nat /\ nextData <= Cardinality(DataSector)
    BY DataIs DEF Typed
  <2>2. placed[i] \in Placed
    BY <2>1, ElementOfSeq
  <2>3. n \in Nat \ {0} /\ b \in Nat /\ b + n <= nextData
    BY <1>2, <2>2 DEF ChainAt, Placed
  <2>4. ASSUME NEW k \in 1 .. n PROVE link'[Data(b + k)] = link[Data(b + k)]
    <3>1. Cardinality(DataSector) \in Nat
      BY DataIs
    <3>2. b + k \in 1 .. Cardinality(DataSector)
      BY <2>1, <2>3, <3>1
    <3> QED
      BY <3>2, DataIs
  <2>5. \A k \in 1 .. n - 1 : k \in 1 .. n
    BY <2>3
  <2>6. n \in 1 .. n
    BY <2>3
  <2> QED
    BY <1>2, <2>4, <2>5, <2>6 DEF ChainAt
<1> QED
  BY <1>1, <1>2 DEF Chains

LEMMA ChainsPlace ==
  ASSUME Typed, Chains, PlaceFile
  PROVE  Chains'
<1>1. PICK len, n, used : len = Next1 /\ n = NumSectors(len) /\ used = Run(nextData, n)
  OBVIOUS
<1>2. /\ len \in Nat /\ n \in Nat \ {0}
      /\ nextData + n <= Cardinality(DataSector)
      /\ nextData' = nextData + n
      /\ placed' = Append(placed, [first |-> Data(nextData + 1), sectors |-> n])
      /\ \A ts \in Sector \ used : link'[ts] = link[ts]
      /\ \A i \in 1 .. n - 1 : link'[Data(nextData + i)] = Data(nextData + i + 1)
      /\ link'[Data(nextData + n)] = EndLink(len - (n - 1) * Payload)
  BY <1>1, PlaceFacts
<1>3. files' = files
  BY DEF PlaceFile
<1>4. PICK a \in Nat, N \in Nat : a = nextData /\ N = Cardinality(DataSector)
  <2>1. nextData \in Nat /\ Cardinality(DataSector) \in Nat
    BY DataIs DEF Typed
  <2> QED
    BY <2>1
<1>5. PICK m \in Nat \ {0} : m = Len(placed) + 1 /\ DOMAIN placed = 1 .. m - 1
  <2>1. placed \in Seq(Placed)
    BY DEF Typed
  <2>2. Len(placed) + 1 \in Nat \ {0} /\ DOMAIN placed = 1 .. Len(placed) + 1 - 1
    BY <2>1
  <2> QED
    BY <2>2
<1>6. /\ DOMAIN placed' = 1 .. m
      /\ \A i \in 1 .. m - 1 : placed'[i] = placed[i]
      /\ placed'[m] = [first |-> Data(a + 1), sectors |-> n]
  <2>1. PICK rec \in Placed : rec = [first |-> Data(a + 1), sectors |-> n]
    <3>1. a + 1 \in 1 .. N
      BY <1>2, <1>4
    <3> QED
      BY <1>2, <1>4, <3>1, DataIs DEF Placed
  <2>2. placed \in Seq(Placed) /\ placed' = Append(placed, rec)
    BY <1>2, <1>4, <2>1 DEF Typed
  <2> QED
    BY <1>5, <2>1, <2>2, AppendProperties
<1>7. len = files[m]
  BY <1>1, <1>5 DEF Next1
<1>8. \A i \in 1 .. m - 1 : Base(i)' = Base(i)
  BY <1>5, <1>6 DEF Base
<1>9. Base(m)' = a
  <2>1. a + 1 \in 1 .. Cardinality(DataSector)
    BY <1>2, <1>4
  <2>2. DataBefore(Data(a + 1)) = a + 1 - 1
    BY <2>1, DataIs
  <2>3. Base(m)' = DataBefore(Data(a + 1))
    BY <1>6 DEF Base
  <2> QED
    BY <2>2, <2>3
<1>10. ASSUME NEW i \in 1 .. m - 1
       PROVE  /\ ChainAt(i, Base(i), placed[i].sectors)'
              /\ Base(i)' + placed'[i].sectors <= a
  <2>1. PICK b, l : b = Base(i) /\ l = placed[i].sectors
    OBVIOUS
  <2>2. ChainAt(i, b, l)
    BY <1>5, <2>1 DEF Chains
  <2>3. placed[i] \in Placed
    BY <1>5, ElementOfSeq DEF Typed
  <2>4. l \in Nat \ {0} /\ b \in Nat /\ b + l <= a
    BY <1>4, <2>1, <2>2, <2>3 DEF ChainAt, Placed
  <2>5. ASSUME NEW k \in 1 .. l PROVE link'[Data(b + k)] = link[Data(b + k)]
    <3>1. b + k \in Nat \ {0} /\ b + k <= a
      BY <2>4
    <3>2. Data(b + k) \in Sector \ used
      BY <1>1, <1>2, <1>4, <3>1, RunsDiffer
    <3> QED
      BY <1>2, <3>2
  <2>6. (\A k \in 1 .. l - 1 : k \in 1 .. l) /\ l \in 1 .. l /\ b + l <= nextData'
    BY <1>2, <1>4, <2>4
  <2>7. ChainAt(i, b, l)'
    BY <1>3, <1>6, <2>2, <2>5, <2>6 DEF ChainAt
  <2> QED
    BY <1>6, <1>8, <2>1, <2>4, <2>7
<1>11. ChainAt(m, Base(m), placed[m].sectors)'
  <2>1. placed'[m].first = Data(a + 1)
    BY <1>6
  <2>2. a + n <= nextData'
    BY <1>2, <1>4
  <2>3. ChainAt(m, a, n)'
    BY <1>1, <1>2, <1>3, <1>4, <1>7, <2>1, <2>2 DEF ChainAt
  <2> QED
    BY <1>6, <1>9, <2>3
<1>12. ASSUME NEW i \in 1 .. m, NEW j \in 1 .. m, i < j
       PROVE  Base(i)' + placed'[i].sectors <= Base(j)'
  <2>1. i \in 1 .. m - 1
    BY <1>5, <1>12
  <2>2. CASE j = m
    BY <1>9, <1>10, <2>1, <2>2
  <2>3. CASE j # m
    <3>1. j \in 1 .. m - 1
      BY <1>5, <2>3
    <3>2. Base(i) + placed[i].sectors <= Base(j)
      BY <1>5, <1>12, <2>1, <3>1 DEF Chains
    <3> QED
      BY <1>6, <1>8, <2>1, <3>1, <3>2
  <2> QED
    BY <2>2, <2>3
<1>13. \A i \in 1 .. m : i = m \/ i \in 1 .. m - 1
  BY <1>5
<1> QED
  BY <1>6, <1>10, <1>11, <1>12, <1>13 DEF Chains

LEMMA ChainsLinkDir ==
  ASSUME Typed, Ordered, Chains, LinkDir
  PROVE  Chains'
<1>1. ASSUME NEW ts \in DataSector PROVE link'[ts] = link[ts]
  <2>1. ts \in Sector /\ ts[1] # DirTrack
    BY DEF DataSector, IsDataTrack
  <2>2. \A i \in DOMAIN dir : dir[i] # ts
    BY <2>1 DEF Ordered
  <2> DEFINE Pos(us) == CHOOSE j \in DOMAIN dir : dir[j] = us
  <2>3. link' = [us \in Sector |-> IF \E i \in DOMAIN dir : dir[i] = us
                    THEN IF Pos(us) < Len(dir) THEN dir[Pos(us) + 1] ELSE EndOfDir
                    ELSE link[us]]
    BY DEF LinkDir
  <2> HIDE DEF Pos
  <2> QED
    BY <2>1, <2>2, <2>3
<1> QED
  BY <1>1, ChainsKept DEF LinkDir

\* The directory track has a sector behind every one whose slots are all written.
LEMMA NextOnTrack ==
  ASSUME Typed, Ordered, Roomy, NEW w \in Nat, w < Len(files),
         NEW q \in Nat, NEW r \in Nat, w = q * Entries + r, r = Entries - 1
  PROVE  q + 2 < Sectors[DirTrack]
<1>1. PICK e \in Nat \ {0}, t \in Nat : e = Entries /\ t = Sectors[DirTrack]
  <2>1. Sectors[DirTrack] \in 1 .. 256
    BY DiskAssumption
  <2> QED
    BY <2>1, DiskAssumption
<1>2. t > 2
  BY <1>1, DiskAssumption
<1>3. PICK l \in Nat : l = Len(files)
  BY DEF Typed
<1>4. (q + 1) * e = q * e + e
  OBVIOUS
<1>5. (q + 1) * e <= l
  <2>1. PICK m \in Int : m = q * e
    OBVIOUS
  <2>2. w = m + r /\ r = e - 1 /\ w < l
    BY <1>1, <1>3, <2>1
  <2>3. m + e <= l
    BY <2>2
  <2> QED
    BY <1>4, <2>1, <2>3
<1>6. (q + 1) * e < (t - 1) * e
  <2>1. l < e * (t - 1)
    BY <1>1, <1>3 DEF Roomy
  <2>2. e * (t - 1) = (t - 1) * e
    OBVIOUS
  <2>3. PICK x \in Int, y \in Int : x = (q + 1) * e /\ y = (t - 1) * e
    OBVIOUS
  <2> QED
    BY <1>5, <2>1, <2>2, <2>3
<1>7. PICK a \in Nat, b \in Nat : a = q + 1 /\ b = t - 1
  BY <1>2
<1>8. a < b
  BY <1>6, <1>7, Factor
<1> QED
  BY <1>1, <1>7, <1>8

LEMMA ChainsWriteEntry ==
  ASSUME Typed, Ordered, Entered, Roomy, Chains, WriteEntry
  PROVE  Chains'
<1>1. Written \in 0 .. Len(placed) - 1 /\ pc = "entries"
  BY WrittenType DEF WriteEntry, Typed
<1>2. PICK q \in Nat, r \in Nat :
        /\ Written = q * Entries + r
        /\ SlotOf(Written) = <<<<DirTrack, q + 1>>, r>>
  BY <1>1, SlotType
<1>3. \/ link' = link
      \/ /\ r = Entries - 1
         /\ \E v : link' = [link EXCEPT ![After(<<DirTrack, q + 1>>)] = v]
  <2>1. PICK ts, c : SlotOf(Written) = <<ts, c>> /\ ts = <<DirTrack, q + 1>> /\ c = r
    BY <1>2
  <2>2. \/ link' = link
        \/ /\ SlotOf(Written)[2] = Entries - 1
           /\ \E v : link' = [link EXCEPT ![After(SlotOf(Written)[1])] = v]
    BY DEF WriteEntry
  <2>3. SlotOf(Written)[1] = ts /\ SlotOf(Written)[2] = c
    BY <2>1
  <2> QED
    BY <2>1, <2>2, <2>3
<1>4. r = Entries - 1 => After(<<DirTrack, q + 1>>) \notin DataSector
  <2> SUFFICES ASSUME r = Entries - 1 PROVE After(<<DirTrack, q + 1>>) \notin DataSector
    OBVIOUS
  <2>1. Written \in Nat /\ Written < Len(files)
    BY <1>1 DEF Typed, Ordered
  <2>2. q + 2 < Sectors[DirTrack]
    BY <1>2, <2>1, NextOnTrack
  <2>3. PICK t \in Nat : t = Sectors[DirTrack]
    BY DiskAssumption
  <2>4. (q + 1) + 1 < t
    BY <2>2, <2>3
  <2>5. After(<<DirTrack, q + 1>>) = <<DirTrack, (q + 1) + 1>>
    BY <2>3, <2>4 DEF After
  <2> QED
    BY <2>5 DEF DataSector, IsDataTrack
<1>5. \A ts \in DataSector : link'[ts] = link[ts]
  <2>1. DOMAIN link = Sector /\ DataSector \subseteq Sector
    BY DEF Typed, DataSector
  <2> QED
    BY <1>3, <1>4, <2>1
<1> QED
  BY <1>5, ChainsKept DEF WriteEntry

LEMMA ChainsStep ==
  ASSUME Typed, Ordered, Entered, Roomy, Chains, Next
  PROVE  Roomy' /\ Chains'
<1>1. files' = files
  BY DEF Next, PlaceFile, DiskFull, StartDir, AddDirSector, DirFull, LinkDir, WriteEntry,
         Finish, Over, vars
<1> SUFFICES Chains'
  BY <1>1 DEF Roomy
<1>2. CASE DiskFull \/ StartDir \/ AddDirSector \/ DirFull \/ Finish \/ Over
  <2>1. link' = link /\ UNCHANGED <<files, nextData, placed>>
    BY <1>2 DEF DiskFull, StartDir, AddDirSector, DirFull, Finish, Over, vars
  <2>2. \A ts \in DataSector : link'[ts] = link[ts]
    BY <2>1
  <2> QED
    BY <2>1, <2>2, ChainsKept
<1> QED
  BY <1>2, ChainsPlace, ChainsLinkDir, ChainsWriteEntry DEF Next

Linked == Roomy => Chains

LEMMA AlwaysLinked == Spec => [](Build /\ Linked)
<1>1. Init => Linked
  <2> SUFFICES ASSUME Init PROVE Chains
    BY DEF Linked
  <2>1. DOMAIN placed = {}
    BY DEF Init
  <2> QED
    BY <2>1 DEF Chains
<1>2. Build /\ Build' /\ Linked /\ [Next]_vars => Linked'
  <2> SUFFICES ASSUME Build, Linked, [Next]_vars, Roomy' PROVE Chains'
    BY DEF Linked
  <2>1. files' = files
    BY DEF Next, PlaceFile, DiskFull, StartDir, AddDirSector, DirFull, LinkDir, WriteEntry,
           Finish, Over, vars
  <2>2. Roomy /\ Chains
    BY <2>1 DEF Roomy, Linked
  <2>3. CASE Next
    BY <2>2, <2>3, ChainsStep DEF Build
  <2>4. CASE UNCHANGED vars
    <3>1. UNCHANGED <<files, nextData, placed>> /\ link' = link
      BY <2>4 DEF vars
    <3>2. \A ts \in DataSector : link'[ts] = link[ts]
      BY <3>1
    <3> QED
      BY <2>2, <3>1, <3>2, ChainsKept DEF Build
  <2> QED
    BY <2>3, <2>4
<1> QED
  BY <1>1, <1>2, Built, PTL DEF Spec

-----------------------------------------------------------------------------
(* Walking along a chain.                                                  *)

\* A run of data sectors has as many sectors as its length says.
LEMMA RunSize ==
  ASSUME NEW b \in Nat, NEW n \in Nat \ {0}, b + n <= Cardinality(DataSector)
  PROVE  Run(b, n) \subseteq DataSector /\ IsFiniteSet(Run(b, n)) /\ Cardinality(Run(b, n)) = n
<1> DEFINE D == 1 .. n
           f == [k \in D |-> Data(b + k)]
<1>1. PICK N \in Nat : N = Cardinality(DataSector)
  BY DataIs
<1>2. \A k \in D : b + k \in 1 .. N
  BY <1>1
<1>3. \A k \in D : f[k] = Data(b + k) /\ f[k] \in DataSector
  BY <1>1, <1>2, DataIs
<1>4. \A j, k \in D : f[j] = f[k] => j = k
  <2> SUFFICES ASSUME NEW j \in D, NEW k \in D, f[j] = f[k] PROVE j = k
    OBVIOUS
  <2>1. Data(b + j) = Data(b + k)
    BY <1>3
  <2>2. b + j = b + k
    BY <1>1, <1>2, <2>1, DataIs
  <2> QED
    BY <2>2
<1>5. IsFiniteSet(D) /\ Cardinality(D) = n
  <2>1. 1 \in Int /\ n \in Int
    OBVIOUS
  <2> QED
    BY <2>1, FS_Interval
<1>6. Run(b, n) = {f[k] : k \in D}
  BY DEF Run
<1>7. DOMAIN f = D
  OBVIOUS
<1>8. f \in [D -> Run(b, n)] /\ \A y \in Run(b, n) : \E k \in D : f[k] = y
  <2>1. f = [k \in D |-> f[k]]
    OBVIOUS
  <2> HIDE DEF f, D
  <2> QED
    BY <1>6, <2>1
<1> HIDE DEF f, D
<1>9. f \in Bijection(D, Run(b, n))
  BY <1>4, <1>8 DEF Bijection, Injection, Surjection, IsInjective
<1>10. IsFiniteSet(Run(b, n)) /\ Cardinality(Run(b, n)) = n
  BY <1>5, <1>9, FS_Bijection DEF ExistsBijection
<1> QED
  BY <1>3, <1>6, <1>10

\* A drive that follows a chain of sectors with a link to no sector at its end visits
\* exactly them and ends at that link.
LEMMA Followed ==
  ASSUME NEW first, NEW n \in Nat \ {0}, n <= Cardinality(Sector), NEW d, NEW e,
         first = d[1], e \notin Sector,
         \A k \in 1 .. n : d[k] \in Sector,
         \A k \in 1 .. n - 1 : link[d[k]] = d[k + 1],
         link[d[n]] = e
  PROVE  Visited(first) = {d[k] : k \in 1 .. n} /\ EndOf(first) = e
<1>1. PICK N \in Nat : N = Cardinality(Sector)
  BY WalkIs
<1>2. PICK w : w = Walk(first)
  OBVIOUS
<1>3. /\ DOMAIN w = 0 .. N /\ w[0] = d[1]
      /\ \A k \in 1 .. N : w[k] = Follow(w[k - 1])
  BY <1>1, <1>2, WalkIs
<1> DEFINE At(k) == IF k < n THEN d[k + 1] ELSE e
           S == {k \in Nat : k <= N => w[k] = At(k)}
<1>4. 0 \in S
  BY <1>3
<1>5. ASSUME NEW k \in Nat, k \in S PROVE k + 1 \in S
  <2> SUFFICES ASSUME k + 1 <= N PROVE w[k + 1] = At(k + 1)
    OBVIOUS
  <2>1. w[k] = At(k)
    BY <1>5
  <2>2. w[k + 1] = Follow(w[k])
    <3>1. k + 1 \in 1 .. N /\ k + 1 - 1 = k
      OBVIOUS
    <3> QED
      BY <1>3, <3>1
  <2>3. CASE k >= n
    BY <2>1, <2>2, <2>3 DEF Follow
  <2>4. CASE k < n
    <3>1. PICK j : j = k + 1 /\ j \in 1 .. n
      BY <2>4
    <3>2. w[k] = d[j] /\ d[j] \in Sector
      BY <2>1, <2>4, <3>1
    <3>3. w[k + 1] = link[d[j]]
      BY <2>2, <3>2 DEF Follow
    <3>4. CASE j = n
      BY <3>1, <3>3, <3>4
    <3>5. CASE j < n
      <4>1. j \in 1 .. n - 1
        BY <3>1, <3>5
      <4>2. w[k + 1] = d[j + 1]
        BY <3>3, <4>1
      <4> QED
        BY <3>1, <3>5, <4>2
    <3> QED
      BY <3>1, <3>4, <3>5
  <2> QED
    BY <2>3, <2>4
<1>6. \A k \in 0 .. N : w[k] = At(k)
  <2>1. Nat \subseteq S
    <3> HIDE DEF S
    <3> QED
      BY <1>4, <1>5, Induction
  <2> QED
    BY <2>1
<1>7. EndOf(first) = e
  <2>1. N \in 0 .. N /\ ~(N < n)
    BY <1>1
  <2> QED
    BY <1>1, <1>2, <1>6, <2>1 DEF EndOf
<1>8. Visited(first) = {w[k] : k \in 0 .. N} \cap Sector
  BY <1>2, <1>3 DEF Visited
<1>9. ASSUME NEW k \in 1 .. n PROVE d[k] \in {w[j] : j \in 0 .. N} \cap Sector
  <2>1. k - 1 \in 0 .. N /\ At(k - 1) = d[k]
    BY <1>1
  <2> QED
    BY <1>6, <2>1
<1>10. ASSUME NEW k \in 0 .. N, w[k] \in Sector PROVE w[k] \in {d[j] : j \in 1 .. n}
  <2>1. w[k] = At(k)
    BY <1>6
  <2>2. k < n /\ k + 1 \in 1 .. n
    BY <1>10, <2>1
  <2> QED
    BY <2>1, <2>2
<1> QED
  BY <1>7, <1>8, <1>9, <1>10

\* The chain of a file, as a drive reads it.
LEMMA ReadsFile ==
  ASSUME Build, NEW i \in DOMAIN placed, NEW b, NEW n, n = placed[i].sectors, ChainAt(i, b, n)
  PROVE  /\ Visited(placed[i].first) = Run(b, n)
         /\ EndOf(placed[i].first) = EndLink(files[i] - (n - 1) * Payload)
<1>1. placed \in Seq(Placed) /\ nextData \in 0 .. Cardinality(DataSector)
  BY DEF Build, Typed
<1>2. n \in Nat \ {0} /\ b \in Nat
  <2>1. placed[i] \in Placed
    BY <1>1, ElementOfSeq
  <2> QED
    BY <2>1 DEF Placed, ChainAt
<1>3. PICK a \in Nat, N \in Nat : a = Cardinality(DataSector) /\ N = Cardinality(Sector)
  BY DataIs, WalkIs
<1>4. a <= N
  <2>1. DataSector \in SUBSET Sector
    BY DEF DataSector
  <2> QED
    BY <1>3, <2>1, SectorFinite, FS_Subset
<1>5. b + n <= a
  <2>1. PICK m \in Nat : m = nextData /\ m <= a
    BY <1>1, <1>3
  <2>2. b + n <= m
    BY <2>1 DEF ChainAt
  <2> QED
    BY <1>2, <1>3, <2>1, <2>2
<1>6. n <= N
  BY <1>2, <1>3, <1>4, <1>5
<1> DEFINE d == [k \in 1 .. n |-> Data(b + k)]
           e == EndLink(files[i] - (n - 1) * Payload)
<1>7. \A k \in 1 .. n : d[k] = Data(b + k)
  OBVIOUS
<1>8. \A k \in 1 .. n : d[k] \in Sector
  <2> SUFFICES ASSUME NEW k \in 1 .. n PROVE Data(b + k) \in Sector
    OBVIOUS
  <2>1. b + k \in 1 .. a
    BY <1>2, <1>3, <1>5
  <2> QED
    BY <1>3, <2>1, DataIs DEF DataSector
<1>9. \A k \in 1 .. n - 1 : link[d[k]] = d[k + 1]
  <2> SUFFICES ASSUME NEW k \in 1 .. n - 1 PROVE link[d[k]] = d[k + 1]
    OBVIOUS
  <2>1. k \in 1 .. n /\ k + 1 \in 1 .. n /\ b + (k + 1) = b + k + 1
    BY <1>2
  <2>2. link[Data(b + k)] = Data(b + k + 1)
    BY DEF ChainAt
  <2> HIDE DEF d
  <2> QED
    BY <1>7, <2>1, <2>2
<1>10. link[d[n]] = e
  BY <1>2 DEF ChainAt
<1>11. e \notin Sector
  <2>1. e[1] = 0
    BY DEF EndLink
  <2>2. \A ts \in Sector : ts[1] # 0
    BY SectorType DEF Track
  <2> QED
    BY <2>1, <2>2
<1>12. placed[i].first = d[1]
  BY <1>2 DEF ChainAt
<1>13. Run(b, n) = {d[k] : k \in 1 .. n}
  BY <1>7 DEF Run
<1> HIDE DEF d, e
<1>14. Visited(placed[i].first) = {d[k] : k \in 1 .. n} /\ EndOf(placed[i].first) = e
  <2>1. PICK first : first = placed[i].first
    OBVIOUS
  <2>2. first = d[1] /\ n <= Cardinality(Sector)
    BY <1>3, <1>6, <1>12, <2>1
  <2>3. Visited(first) = {d[k] : k \in 1 .. n} /\ EndOf(first) = e
    BY <1>2, <1>8, <1>9, <1>10, <1>11, <2>2, Followed
  <2> QED
    BY <2>1, <2>3
<1> QED
  BY <1>13, <1>14 DEF e

\* What the chains of an image with room in its directory are.
LEMMA ChainFacts ==
  ASSUME Build, Chains, NEW i \in DOMAIN placed
  PROVE  \E b \in Nat, n \in Nat \ {0} :
           /\ b = Base(i) /\ n = placed[i].sectors /\ n = NumSectors(files[i])
           /\ b + n <= Cardinality(DataSector)
           /\ Visited(placed[i].first) = Run(b, n)
           /\ EndOf(placed[i].first) = EndLink(files[i] - (n - 1) * Payload)
<1>1. PICK b, n : b = Base(i) /\ n = placed[i].sectors
  OBVIOUS
<1>2. ChainAt(i, b, n)
  BY <1>1 DEF Chains
<1>3. b \in Nat /\ n = NumSectors(files[i]) /\ b + n <= nextData
  BY <1>2 DEF ChainAt
<1>4. n \in Nat \ {0}
  <2>1. placed[i] \in Placed
    BY ElementOfSeq DEF Build, Typed
  <2> QED
    BY <1>1, <2>1 DEF Placed
<1>5. b + n <= Cardinality(DataSector)
  <2>1. PICK a \in Nat : a = Cardinality(DataSector)
    BY DataIs
  <2>2. PICK m \in Nat : m = nextData /\ m <= a
    BY <2>1 DEF Build, Typed
  <2> QED
    BY <1>3, <1>4, <2>1, <2>2
<1> QED
  BY <1>1, <1>2, <1>3, <1>4, <1>5, ReadsFile

\* A chain that starts where another has ended, or behind, shares no sector with it.
LEMMA RunsApart ==
  ASSUME NEW a \in Nat, NEW m \in Nat \ {0}, NEW b \in Nat, NEW n \in Nat \ {0},
         a + m <= b, b + n <= Cardinality(DataSector)
  PROVE  Run(a, m) \cap Run(b, n) = {}
<1> SUFFICES ASSUME NEW k \in 1 .. m PROVE Data(a + k) \notin Run(b, n)
  BY DEF Run
<1>1. a + k \in Nat \ {0} /\ a + k <= b
  OBVIOUS
<1>2. PICK j \in Nat \ {0} : j = a + k /\ j <= b
  BY <1>1
<1> QED
  BY <1>2, RunsDiffer

\* On every finished image with a free slot on the directory's track, whatever its
\* geometry and the files given to Build (c64/d64.go): following the links from a file's
\* first sector visits as many sectors as the file needs, all of them data sectors and none
\* of another file, and the last link tells the length of the file.
THEOREM FilesAreReadable == Spec => []FilesReadable
<1>1. Build /\ Linked => FilesReadable
  <2> SUFFICES ASSUME Build, Linked, pc = "done", Roomy, NEW i \in DOMAIN files
               PROVE  /\ Cardinality(Visited(placed[i].first)) = NumSectors(files[i])
                      /\ EndOf(placed[i].first)[1] = 0
                      /\ (NumSectors(files[i]) - 1) * Payload
                           + EndOf(placed[i].first)[2] - 1 = files[i]
                      /\ \A j \in DOMAIN files \ {i} :
                           Visited(placed[i].first) \cap Visited(placed[j].first) = {}
                      /\ Visited(placed[i].first) \subseteq DataSector
    BY DEF FilesReadable, Roomy
  <2>1. Chains
    BY DEF Linked
  <2>2. DOMAIN placed = DOMAIN files
    BY DEF Build, Typed, Ordered
  <2>3. PICK b \in Nat, n \in Nat \ {0} :
          /\ b = Base(i) /\ n = placed[i].sectors /\ n = NumSectors(files[i])
          /\ b + n <= Cardinality(DataSector)
          /\ Visited(placed[i].first) = Run(b, n)
          /\ EndOf(placed[i].first) = EndLink(files[i] - (n - 1) * Payload)
    BY <2>1, <2>2, ChainFacts
  <2>4. Cardinality(Run(b, n)) = n /\ Run(b, n) \subseteq DataSector
    BY <2>3, RunSize
  <2>5. (n - 1) * Payload + EndLink(files[i] - (n - 1) * Payload)[2] - 1 = files[i]
    <3>1. PICK p \in Nat, len \in Nat : p = Payload /\ len = files[i]
      <4>1. Payload \in Nat
        BY DiskAssumption
      <4>2. files[i] \in Nat
        BY DEF Build, Typed
      <4> QED
        BY <4>1, <4>2
    <3>2. PICK m \in Int : m = (n - 1) * p
      BY <3>1
    <3>3. m + EndLink(len - m)[2] - 1 = len
      BY DEF EndLink
    <3> QED
      BY <3>1, <3>2, <3>3
  <2>6. ASSUME NEW j \in DOMAIN files \ {i}
        PROVE  Run(b, n) \cap Visited(placed[j].first) = {}
    <3>1. PICK c \in Nat, m \in Nat \ {0} :
            /\ c = Base(j) /\ m = placed[j].sectors
            /\ c + m <= Cardinality(DataSector)
            /\ Visited(placed[j].first) = Run(c, m)
      BY <2>1, <2>2, ChainFacts
    <3>2. i < j \/ j < i
      <4>1. DOMAIN files = 1 .. Len(files) /\ Len(files) \in Nat
        BY DEF Build, Typed
      <4> QED
        BY <4>1
    <3>3. b + n <= c \/ c + m <= b
      BY <2>1, <2>2, <2>3, <3>1, <3>2 DEF Chains
    <3>4. Run(b, n) \cap Run(c, m) = {}
      <4>1. CASE b + n <= c
        BY <2>3, <3>1, <4>1, RunsApart
      <4>2. CASE c + m <= b
        <5>1. Run(c, m) \cap Run(b, n) = {}
          BY <2>3, <3>1, <4>2, RunsApart
        <5> QED
          BY <5>1
      <4> QED
        BY <3>3, <4>1, <4>2
    <3> QED
      BY <3>1, <3>4
  <2>7. EndLink(files[i] - (n - 1) * Payload)[1] = 0
    BY DEF EndLink
  <2> QED
    BY <2>3, <2>4, <2>5, <2>6, <2>7
<1> QED
  BY <1>1, AlwaysLinked, PTL

-----------------------------------------------------------------------------
(* The directory.                                                          *)

Small == Len(files) <= Entries
Header == <<DirTrack, 0>>
First == <<DirTrack, 1>>

\* The header leads to the first directory sector, and with one sector of entries that is
\* where the directory ends.
Headed ==
  Small => /\ link[Header] = First
           /\ pc \in {"entries", "done"} => link[First] = EndOfDir

\* The sectors of the header and of the directory.
LEMMA DirTrackSectors ==
  /\ Header \in Sector /\ First \in Sector /\ After(First) = <<DirTrack, 2>>
  /\ Header \notin DataSector /\ First \notin DataSector
  /\ Header # First /\ After(First) # First /\ After(First) # Header
<1>1. PICK s \in Nat : s = Sectors[DirTrack] /\ s > 2
  <2>1. Sectors[DirTrack] \in 1 .. 256 /\ Sectors[DirTrack] > 2
    BY DiskAssumption
  <2> QED
    BY <2>1
<1>2. DirTrack \in Track
  BY DiskAssumption
<1>3. Header \in Sector /\ First \in Sector
  BY <1>1, <1>2 DEF Sector, Header, First
<1>4. After(First) = <<DirTrack, 2>>
  <2>1. First[1] = DirTrack /\ First[2] = 1
    BY DEF First
  <2>2. 1 + 1 < s
    BY <1>1
  <2> QED
    BY <1>1, <2>1, <2>2 DEF After
<1>5. Header \notin DataSector /\ First \notin DataSector
  BY DEF DataSector, IsDataTrack, Header, First
<1> QED
  BY <1>3, <1>4, <1>5 DEF Header, First

LEMMA HeadedStep ==
  ASSUME Build, Headed, Next, Small'
  PROVE  /\ link'[Header] = First
         /\ pc' \in {"entries", "done"} => link'[First] = EndOfDir
<1>1. files' = files
  BY DEF Next, PlaceFile, DiskFull, StartDir, AddDirSector, DirFull, LinkDir, WriteEntry,
         Finish, Over, vars
<1>2. Small /\ link[Header] = First
  BY <1>1 DEF Small, Headed
<1>3. CASE PlaceFile
  <2>1. PICK len, n, used : len = Next1 /\ n = NumSectors(len) /\ used = Run(nextData, n)
    OBVIOUS
  <2>2. /\ \A k \in 1 .. n : Data(nextData + k) \in DataSector
        /\ \A ts \in Sector \ used : link'[ts] = link[ts]
    BY <1>3, <2>1, PlaceFacts DEF Build
  <2>3. Header \in Sector \ used
    BY <2>1, <2>2, DirTrackSectors DEF Run
  <2>4. pc' = "place"
    BY <1>3 DEF PlaceFile
  <2> QED
    BY <1>2, <2>2, <2>3, <2>4
<1>4. CASE LinkDir
  <2>1. Len(dir) = 1 /\ dir \in Seq(Sector) /\ dir[1] = First
    <3>1. Len(dir) = DirSectors /\ dir \in Seq(Sector) /\ \A i \in DOMAIN dir : dir[i] = <<DirTrack, i>>
      BY <1>4 DEF LinkDir, Build, Ordered
    <3>2. DirSectors = 1
      BY <1>2, DirRoom DEF Small, Build, Typed
    <3> QED
      BY <3>1, <3>2 DEF First
  <2>2. DOMAIN dir = {1}
    BY <2>1
  <2> DEFINE Pos(ts) == CHOOSE j \in DOMAIN dir : dir[j] = ts
  <2>3. link' = [ts \in Sector |-> IF \E i \in DOMAIN dir : dir[i] = ts
                    THEN IF Pos(ts) < Len(dir) THEN dir[Pos(ts) + 1] ELSE EndOfDir
                    ELSE link[ts]]
    BY <1>4 DEF LinkDir
  <2>4. Pos(First) = 1
    BY <2>1, <2>2
  <2> HIDE DEF Pos
  <2>5. link'[First] = EndOfDir
    <3>1. \E i \in DOMAIN dir : dir[i] = First
      BY <2>1, <2>2
    <3>2. ~(Pos(First) < Len(dir))
      BY <2>1, <2>4
    <3> QED
      BY <2>3, <3>1, <3>2, DirTrackSectors
  <2>6. link'[Header] = link[Header]
    <3>1. ~ \E i \in DOMAIN dir : dir[i] = Header
      BY <2>1, <2>2, DirTrackSectors
    <3> QED
      BY <2>3, <3>1, DirTrackSectors
  <2> QED
    BY <1>2, <2>5, <2>6
<1>5. CASE WriteEntry
  <2>1. pc = "entries" /\ pc' = pc
    BY <1>5 DEF WriteEntry
  <2>2. link[First] = EndOfDir
    BY <1>2, <2>1 DEF Headed
  <2>3. Written \in 0 .. Len(placed) - 1
    BY <1>5, WrittenType DEF WriteEntry, Build, Typed
  <2>4. PICK q \in Nat, r \in Nat :
          /\ r < Entries /\ Written = q * Entries + r
          /\ SlotOf(Written) = <<<<DirTrack, q + 1>>, r>>
    BY <2>1, <2>3, SlotType DEF Build
  <2>5. q = 0
    <3>1. PICK e \in Nat \ {0}, w \in Nat, l \in Nat : e = Entries /\ w = Written /\ l = Len(files)
      <4>1. Len(files) \in Nat
        BY DEF Build, Typed
      <4>2. Written \in Nat
        BY WrittenType DEF Build
      <4> QED
        BY <4>1, <4>2, DiskAssumption
    <3>2. w < l /\ l <= e
      <4>1. Len(placed) = Len(files)
        BY <2>1 DEF Build, Ordered
      <4> QED
        BY <1>2, <2>3, <3>1, <4>1 DEF Small
    <3>3. q * e < 1 * e
      <4>1. PICK m \in Int : m = q * e
        OBVIOUS
      <4>2. w = m + r
        BY <2>4, <3>1, <4>1
      <4> QED
        BY <3>2, <4>1, <4>2
    <3>4. q < 1
      BY <3>3, Factor
    <3> QED
      BY <3>4
  <2>6. SlotOf(Written)[1] = First
    BY <2>4, <2>5 DEF First
  <2>7. \/ link' = link
        \/ \E v : link' = [link EXCEPT ![After(First)] = v]
    <3>1. \/ link' = link
          \/ \E v : link' = [link EXCEPT ![After(SlotOf(Written)[1])] = v]
      BY <1>5 DEF WriteEntry
    <3> QED
      BY <2>6, <3>1
  <2>8. link'[First] = link[First] /\ link'[Header] = link[Header]
    <3>1. DOMAIN link = Sector
      BY DEF Build, Typed
    <3> QED
      BY <2>7, <3>1, DirTrackSectors
  <2> QED
    BY <1>2, <2>2, <2>8
<1>6. CASE DiskFull \/ StartDir \/ AddDirSector \/ DirFull
  <2>1. link' = link /\ pc' \in {"error", "dir"}
    BY <1>6 DEF DiskFull, StartDir, AddDirSector, DirFull
  <2> QED
    BY <1>2, <2>1
<1>7. CASE Finish \/ Over
  <2>1. link' = link /\ (pc' = pc \/ pc = "entries")
    BY <1>7 DEF Finish, Over, vars
  <2> QED
    BY <1>2, <2>1 DEF Headed
<1> QED
  BY <1>3, <1>4, <1>5, <1>6, <1>7 DEF Next

LEMMA AlwaysHeaded == Spec => [](Build /\ Headed)
<1>1. Init => Headed
  <2> SUFFICES ASSUME Init PROVE link[Header] = First /\ pc = "place"
    BY DEF Headed
  <2> QED
    BY DirTrackSectors DEF Init, Header, First
<1>2. Build /\ Build' /\ Headed /\ [Next]_vars => Headed'
  <2> SUFFICES ASSUME Build, Headed, [Next]_vars, Small'
               PROVE  /\ link'[Header] = First
                      /\ pc' \in {"entries", "done"} => link'[First] = EndOfDir
    BY DEF Headed, Header, First
  <2>1. CASE Next
    BY <2>1, HeadedStep
  <2>2. CASE UNCHANGED vars
    <3>1. UNCHANGED <<files, pc, link>>
      BY <2>2 DEF vars
    <3> QED
      BY <3>1 DEF Headed, Small
  <2> QED
    BY <2>1, <2>2
<1> QED
  BY <1>1, <1>2, Built, PTL DEF Spec

\* A finished image of no more files than one directory sector has entries, whatever its
\* geometry: the directory that a drive follows from the header (c64/d64.go) lists every
\* file that was added, and ends there.
THEOREM OneSectorIsListed == Spec => []OneSectorListed
<1>1. Build /\ Headed => OneSectorListed
  <2> SUFFICES ASSUME Build, Headed, pc = "done", Small
               PROVE  Listed = DOMAIN files /\ EndOf(Header) = EndOfDir
    BY DEF OneSectorListed, Small, Header
  <2>1. link[Header] = First /\ link[First] = EndOfDir
    BY DEF Headed
  <2>2. Visited(Header) = {Header, First} /\ EndOf(Header) = EndOfDir
    <3> DEFINE d == <<Header, First>>
    <3>1. d[1] = Header /\ d[2] = First
      OBVIOUS
    <3> HIDE DEF d
    <3>2. EndOfDir \notin Sector
      <4>1. EndOfDir[1] = 0
        BY DEF EndOfDir
      <4>2. \A ts \in Sector : ts[1] # 0
        BY SectorType DEF Track
      <4> QED
        BY <4>1, <4>2
    <3>3. 2 <= Cardinality(Sector)
      <4>1. {Header, First} \in SUBSET Sector /\ Header # First
        BY DirTrackSectors
      <4>2. Cardinality({Header, First}) = 2
        <5>1. Cardinality({Header}) = 1 /\ IsFiniteSet({Header})
          BY FS_Singleton
        <5>2. First \notin {Header} /\ {Header} \cup {First} = {Header, First}
          BY <4>1
        <5>3. Cardinality({Header} \cup {First}) = 1 + 1
          BY <5>1, <5>2, FS_AddElement
        <5> QED
          BY <5>2, <5>3
      <4> QED
        BY <4>1, <4>2, SectorFinite, FS_Subset
    <3>4. \A k \in 1 .. 2 : d[k] \in Sector
      BY <3>1, DirTrackSectors
    <3>5. \A k \in 1 .. 2 - 1 : link[d[k]] = d[k + 1]
      BY <2>1, <3>1
    <3>6. link[d[2]] = EndOfDir
      BY <2>1, <3>1
    <3>7. Visited(Header) = {d[k] : k \in 1 .. 2} /\ EndOf(Header) = EndOfDir
      BY <3>1, <3>2, <3>3, <3>4, <3>5, <3>6, Followed
    <3> QED
      BY <3>1, <3>7
  <2>3. PICK l \in Nat : l = Len(files) /\ l = Len(placed) /\ l = Written /\ DOMAIN files = 1 .. l
    BY DEF Build, Typed, Ordered, Entered
  <2>4. ASSUME NEW w \in 0 .. l - 1 PROVE SlotOf(w)[1] = First
    <3>1. PICK q \in Nat, r \in Nat :
            w = q * Entries + r /\ SlotOf(w) = <<<<DirTrack, q + 1>>, r>>
      BY <2>3, SlotType DEF Build
    <3>2. PICK e \in Nat \ {0} : e = Entries
      BY DiskAssumption
    <3>3. q * e < 1 * e
      <4>1. PICK m \in Int : m = q * e
        OBVIOUS
      <4>2. w = m + r /\ l <= e
        BY <2>3, <3>1, <3>2, <4>1 DEF Small
      <4> QED
        BY <4>1, <4>2
    <3>4. q < 1
      BY <3>3, Factor
    <3> QED
      BY <3>1, <3>4 DEF First
  <2>5. /\ DOMAIN entry = {SlotOf(w) : w \in 0 .. l - 1}
        /\ \A w \in 0 .. l - 1 : entry[SlotOf(w)] = w + 1
    BY <2>3 DEF Build, Entered
  <2>6. Listed = {entry[SlotOf(w)] : w \in 0 .. l - 1}
    <3>1. \A s \in DOMAIN entry : s[1] \in Visited(Header)
      BY <2>2, <2>4, <2>5
    <3>2. Listed = {entry[s] : s \in DOMAIN entry}
      BY <3>1 DEF Listed, Header
    <3> QED
      BY <2>5, <3>2
  <2>7. {entry[SlotOf(w)] : w \in 0 .. l - 1} = 1 .. l
    <3>1. ASSUME NEW k \in 1 .. l PROVE k \in {entry[SlotOf(w)] : w \in 0 .. l - 1}
      <4>1. k - 1 \in 0 .. l - 1 /\ (k - 1) + 1 = k
        OBVIOUS
      <4> QED
        BY <2>5, <4>1
    <3>2. \A w \in 0 .. l - 1 : entry[SlotOf(w)] \in 1 .. l
      BY <2>5
    <3> QED
      BY <3>1, <3>2
  <2> QED
    BY <2>2, <2>3, <2>6, <2>7
<1> QED
  BY <1>1, AlwaysHeaded, PTL

================================================================================
