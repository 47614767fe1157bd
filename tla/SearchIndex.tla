----------------------------- MODULE SearchIndex -----------------------------
(***************************************************************************)
(* The search index of c64ctl (index.go, cmd_find.go): processes that      *)
(* search a collection through one index file, and build the file when     *)
(* they are asked to or find none they can open. The file is rewritten in  *)
(* place, without a lock, and is read in one piece at any moment.          *)
(*                                                                         *)
(* The file is a sequence of cells: a header of four (magic, version,      *)
(* count, reserved), a cell per entry for its type and its folder, the     *)
(* offsets, and the pool of the paths. Letters and ids are numbers.        *)
(***************************************************************************)
EXTENDS Integers, Sequences

CONSTANTS
  Proc,        \* processes: calls of c64ctl find and c64ctl build-cache
  Collection,  \* Collection[v]: the files found in the v-th state of the collection
  Options,     \* searches
  Cuts,        \* bound: where a write can be interrupted
  Workers,     \* goroutines of a search
  Spare        \* capacity of a file read beyond its length

Magic == 67
Version == 1
Missing == <<-1>>

VARIABLES
  version,     \* state of the collection
  disk,        \* the index file
  at,          \* where each process is
  opts,        \* what it has searched for
  tree,        \* the files it has walked
  done,        \* cells it has written
  data,        \* the index it has read
  result,      \* what it answers
  faulted,     \* history: a build was interrupted
  changed,     \* history: the collection has changed
  collided     \* history: two builds have written at once

procVars == <<at, opts, tree, done, data, result>>
findVars == <<version, disk, procVars, faulted, changed, collided>>

fold(c) == IF c \in 65 .. 90 THEN c + 32 ELSE c

ContainsIgnoreCase(s, t) ==
  \/ t = <<>>
  \/ \E i \in 1 .. Len(s) - Len(t) + 1 :
       /\ s[i] = t[1] \/ fold(s[i]) = fold(t[1])
       /\ \A j \in 2 .. Len(t) : s[i + j - 1] = t[j] \/ fold(s[i + j - 1]) = fold(t[j])

\* The paths of the first i files, one behind the other.
Pool(files) ==
  LET pool[i \in 0 .. Len(files)] == IF i = 0 THEN <<>> ELSE pool[i - 1] \o files[i].path
  IN pool

BuildIndexBytes(files) ==
  LET n == Len(files)
  IN <<Magic, Version, n, 0>>
     \o [i \in 1 .. n |-> files[i].ext] \o [i \in 1 .. n |-> files[i].folder]
     \o [i \in 1 .. n + 1 |-> Len(Pool(files)[i - 1])]
     \o Pool(files)[n]

\* OpenIndex looks at the header and at the room for the tables, not at the pool.
OpenIndex(d) ==
  /\ d # Missing
  /\ Len(d) >= 4
  /\ d[1] = Magic /\ d[2] = Version
  /\ Len(d) >= 4 + 2 * d[3] + d[3] + 1

\* What a slice of the pool gives: the cells between the end of the file and the
\* capacity of the buffer are zero, and beyond them the search panics.
PoolCell(d, k) == LET p == 4 + 3 * d[3] + 1 + k IN IF p <= Len(d) THEN d[p] ELSE 0
Offset(d, i) == d[4 + 2 * d[3] + i]
Sliceable(d, i) == /\ Offset(d, i) <= Offset(d, i + 1)
                   /\ 4 + 3 * d[3] + 1 + Offset(d, i + 1) <= Len(d) + Spare
Path(d, i) == [k \in 1 .. Offset(d, i + 1) - Offset(d, i) |-> PoolCell(d, Offset(d, i) + k)]

\* A query is a set of alternatives: none, one literal, or a regular expression.
Wants(o, path) == o.query = {} \/ \E t \in o.query : ContainsIgnoreCase(path, t)

Filtered(d, o, i) == /\ o.ext = 0 \/ d[4 + i] = o.ext
                     /\ o.folder = 0 \/ d[4 + d[3] + i] = o.folder

\* Mutant of Chunk: the entries are divided rounding down.
ChunkDown(n, w) ==
  LET size == n \div Workers IN [lo |-> w * size + 1, hi |-> (w + 1) * size]

\* The entries goroutine w (from 0) examines.
Chunk(n, w) ==
  LET size == (n + Workers - 1) \div Workers
      hi == (w + 1) * size
  IN [lo |-> w * size + 1, hi |-> IF hi > n THEN n ELSE hi]

\* The numbers from lo to hi that are in S, in their order.
UpTo(S, lo, hi) ==
  LET upTo[i \in 0 .. hi] ==
        IF i < lo THEN <<>> ELSE IF i \in S THEN Append(upTo[i - 1], i) ELSE upTo[i - 1]
  IN upTo
Sorted(S, lo, hi) == UpTo(S, lo, hi)[hi]

Found(d, o) == {i \in 1 .. d[3] : Filtered(d, o, i) /\ Wants(o, Path(d, i))}

\* What goroutine w finds, and what the first w of them have found.
Local(d, o, w) == Sorted(Found(d, o), Chunk(d[3], w).lo, Chunk(d[3], w).hi)
Joined(d, o) ==
  LET joined[w \in 0 .. Workers] == IF w = 0 THEN <<>> ELSE joined[w - 1] \o Local(d, o, w - 1)
  IN joined

Answer1(status, matches, total) == [status |-> status, matches |-> matches, total |-> total]
NoAnswer == Answer1("", <<>>, 0)

\* A type or folder that is not known (-1) has no matches; the other entries are
\* examined by all goroutines, and their matches joined in their order.
Find(d, o) ==
  IF o.ext = -1 \/ o.folder = -1 THEN Answer1("ok", <<>>, 0)
  ELSE IF o.bad THEN Answer1("error", <<>>, 0)
  ELSE IF \E i \in 1 .. d[3] : Filtered(d, o, i) /\ ~Sliceable(d, i)
       THEN Answer1("panic", <<>>, 0)
  ELSE LET all == Joined(d, o)[Workers]
           shown == IF o.limit > 0 /\ Len(all) > o.limit THEN SubSeq(all, 1, o.limit) ELSE all
       IN Answer1("ok", [k \in DOMAIN shown |-> Path(d, shown[k])], Len(all))

\* The orders a walk can find files in: its workers race, and nobody sorts what they
\* find (dirwalker.go 98-105, 184-195). Files of one directory keep their order there,
\* which makes no difference here.
Orders(files) ==
  {[i \in DOMAIN files |-> files[pi[i]]] :
     pi \in {f \in [DOMAIN files -> DOMAIN files] :
             \A i, j \in DOMAIN files : f[i] = f[j] => i = j}}

\* What a build can find, now and later, with the complete index of it.
Indexed(v) == {<<files, BuildIndexBytes(files)>> : files \in Orders(Collection[v])}
Built == UNION {Indexed(v) : v \in DOMAIN Collection}

ASSUME FindAssumption ==
  /\ Collection \in Seq(Seq([ext : Nat, folder : Nat, path : Seq(Nat)])) /\ Collection # <<>>
  /\ \A o \in Options : o.limit \in Int /\ o.query \subseteq Seq(Nat)
  /\ Cuts \subseteq Nat
  /\ Workers \in Nat \ {0} /\ Spare \in Nat

NoSearch == [ext |-> 0, folder |-> 0, query |-> {}, limit |-> 0, bad |-> FALSE]

FindInit ==
  /\ version = 1
  /\ LET image == BuildIndexBytes(Collection[1])
     IN disk \in {Missing, image, [image EXCEPT ![2] = Version + 1]}
  /\ at \in [Proc -> {"load", "walk only"}]
  /\ opts = [p \in Proc |-> NoSearch]
  /\ tree = [p \in Proc |-> <<>>]
  /\ done = [p \in Proc |-> 0]
  /\ data = [p \in Proc |-> Missing]
  /\ result = [p \in Proc |-> NoAnswer]
  /\ faulted = FALSE /\ changed = FALSE /\ collided = FALSE

Go(p, l) == at' = [at EXCEPT ![p] = l]
FindEnds(p, r) == Go(p, "returned") /\ result' = [result EXCEPT ![p] = r]

\* LoadIndex; the first failure leads to a build, the second to an error.
Load(p) ==
  /\ at[p] \in {"load", "reload"}
  /\ data' = [data EXCEPT ![p] = disk]
  /\ \/ OpenIndex(disk) /\ Go(p, "search") /\ UNCHANGED result
     \/ ~OpenIndex(disk) /\ at[p] = "load" /\ Go(p, "walk") /\ UNCHANGED result
     \/ ~OpenIndex(disk) /\ at[p] = "reload" /\ FindEnds(p, Answer1("error", <<>>, 0))
  /\ UNCHANGED <<version, disk, opts, tree, done, faulted, changed, collided>>

\* WalkCollection; BuildIndexBytes.
Walk(p) ==
  /\ at[p] \in {"walk", "walk only"}
  /\ \E files \in Orders(Collection[version]) : tree' = [tree EXCEPT ![p] = files]
  /\ Go(p, IF at[p] = "walk" THEN "open" ELSE "open only")
  /\ UNCHANGED <<version, disk, opts, done, data, result, faulted, changed, collided>>

\* os.WriteFile: the file is cut to nothing,
Truncate(p) ==
  /\ at[p] \in {"open", "open only"}
  /\ disk' = <<>>
  /\ done' = [done EXCEPT ![p] = 0]
  /\ Go(p, IF at[p] = "open" THEN "write" ELSE "write only")
  /\ collided' = (collided \/ \E q \in Proc : at[q] \in {"write", "write only"})
  /\ UNCHANGED <<version, opts, tree, data, result, faulted, changed>>

Image(p) == BuildIndexBytes(tree[p])
Pieces(p) == LET end == Len(Image(p)) IN {k \in Cuts \cup {end} : k > done[p] /\ k <= end}

\* Mutant of Write: a piece goes to the end of the file.
WriteAppends(p) ==
  /\ at[p] \in {"write", "write only"}
  /\ \E k \in Pieces(p) :
       /\ disk' = disk \o SubSeq(Image(p), done[p] + 1, k)
       /\ done' = [done EXCEPT ![p] = k]
       /\ Go(p, IF k < Len(Image(p)) THEN at[p]
                ELSE IF at[p] = "write" THEN "reload" ELSE "returned")
  /\ UNCHANGED <<version, opts, tree, data, result, faulted, changed, collided>>

\* and written, in one piece or several; what others write stays around it.
Write(p) ==
  /\ at[p] \in {"write", "write only"}
  /\ \E k \in Pieces(p) :
       /\ LET image == Image(p)
          IN disk' = [i \in 1 .. (IF Len(disk) > k THEN Len(disk) ELSE k) |->
                        IF i \in done[p] + 1 .. k THEN image[i]
                        ELSE IF i <= Len(disk) THEN disk[i] ELSE 0]
       /\ done' = [done EXCEPT ![p] = k]
       /\ Go(p, IF k < Len(Image(p)) THEN at[p]
                ELSE IF at[p] = "write" THEN "reload" ELSE "returned")
  /\ UNCHANGED <<version, opts, tree, data, result, faulted, changed, collided>>

\* The disk is full, or the process is killed.
Interrupted(p) ==
  /\ at[p] \in {"write", "write only"}
  /\ faulted' = TRUE
  /\ FindEnds(p, Answer1("error", <<>>, 0))
  /\ UNCHANGED <<version, disk, opts, tree, done, data, changed, collided>>

Search(p) ==
  /\ at[p] = "search"
  /\ \E o \in Options : opts' = [opts EXCEPT ![p] = o] /\ FindEnds(p, Find(data[p], o))
  /\ UNCHANGED <<version, disk, tree, done, data, faulted, changed, collided>>

\* The user adds files to the collection, or removes some.
Evolve ==
  /\ version < Len(Collection)
  /\ version' = version + 1
  /\ changed' = TRUE
  /\ UNCHANGED <<disk, procVars, faulted, collided>>

FindNext == \/ \E p \in Proc : \/ Load(p) \/ Walk(p) \/ Truncate(p) \/ Write(p)
                               \/ Interrupted(p) \/ Search(p)
            \/ Evolve

FindSpec == FindInit /\ [][FindNext]_findVars

-----------------------------------------------------------------------------
(* Properties.                                                             *)

\* The files a search is about, straight from what it asks for.
Matching(f, o) ==
  /\ o.ext = 0 \/ f.ext = o.ext
  /\ o.folder = 0 \/ f.folder = o.folder
  /\ o.query = {} \/ \E t \in o.query : \E i \in 0 .. Len(f.path) - Len(t) :
       [k \in 1 .. Len(t) |-> fold(f.path[i + k])] = [k \in DOMAIN t |-> fold(t[k])]
Expected(files, o) == Sorted({i \in DOMAIN files : Matching(files[i], o)}, 1, Len(files))

\* A search that has read a complete index answers with the matches among the files
\* the index was built from, in their order, and counts those the limit hides,
\* whatever part of them each goroutine found (index.go 270-380).
SearchExact ==
  \A p \in Proc : \A built \in Built :
    result[p].status \in {"ok", "panic"} /\ data[p] = built[2] =>
      LET e == Expected(built[1], opts[p])
          limit == opts[p].limit
      IN /\ result[p].status = "ok"
         /\ result[p].total = Len(e)
         /\ Len(result[p].matches) = (IF limit > 0 /\ Len(e) > limit THEN limit ELSE Len(e))
         /\ \A k \in DOMAIN result[p].matches : result[p].matches[k] = built[1][e[k]].path

\* When no build is under way and none was interrupted, the index file is as it was at
\* first, or: if no two builds wrote at once, the complete index of what the last one
\* found, whether or not the collection has changed and in whatever order its workers
\* found it. If some did, each with an order of its own, the file may be a mix of them
\* that no build wrote; but if the collection is still the same, it can be opened and
\* has an entry for every file (index.go 113-141, 180-200, cmd_find.go 95-105).
BuildsConverge ==
  (\A p \in Proc : at[p] \notin {"write", "write only"}) /\ ~faulted =>
    \/ \A p \in Proc : at[p] \in {"load", "walk", "walk only", "open", "open only"}
    \/ /\ ~collided => \E built \in Built : disk = built[2]
       /\ ~changed => OpenIndex(disk) /\ disk[3] = Len(Collection[1])
==============================================================================
