------------------------------- MODULE DiskImage -------------------------------
(***************************************************************************)
(* buildDisk of c64/d64.go: a D64 or D71 image is put together file by     *)
(* file. Sectors come off a list of the data tracks in order and are       *)
(* taken out of the block availability map; a file's sectors form a chain  *)
(* of links; the directory is a chain of sectors of its own track, with    *)
(* a fixed number of entries in each.                                      *)
(*                                                                         *)
(* A sector is the pair of its track and number. Of its bytes the model    *)
(* keeps the link (the first two) and the directory entries; of a file,    *)
(* its length. The geometry is a parameter.                                *)
(***************************************************************************)
EXTENDS FiniteSets, Integers, Sequences

CONSTANTS
  LastTrack,   \* tracks are 1 .. LastTrack (35, or 70 on a D71)
  Sectors,     \* Sectors[t]: the sectors of track t are 0 .. Sectors[t] - 1
  DirTrack,    \* 18: the map is in sector 0, the directory starts in sector 1
  Reserved,    \* tracks taken out of the map as a whole (53 on a D71)
  Payload,     \* bytes of a file in a sector (254)
  Entries,     \* entries in a directory sector (8)
  MaxFiles,    \* bound: files on an image
  Lengths      \* bound: the lengths of files

Track == 1 .. LastTrack
Sector == {ts \in Track \X (0 .. 255) : ts[2] < Sectors[ts[1]]}

ASSUME DiskAssumption ==
  /\ LastTrack \in 1 .. 255
  /\ Sectors \in [Track -> 1 .. 256]
  /\ DirTrack \in Track
  /\ Sectors[DirTrack] > 2
  /\ Reserved \subseteq Track \ {DirTrack}
  /\ Payload \in 1 .. 254
  /\ Entries \in Nat \ {0}
  /\ MaxFiles \in Nat
  /\ Lengths \subseteq Nat

VARIABLES
  files,       \* the lengths of the files given to Build
  pc,          \* where buildDisk is
  free,        \* the bits of the map
  count,       \* its free counts
  link,        \* the first two bytes of every sector
  nextData,    \* how many of the data sectors are taken
  placed,      \* allocatedFiles: first sector and number of sectors
  dir,         \* dirSectors
  entry        \* the directory entries written: <<sector, slot>> -> placed file

vars == <<files, pc, free, count, link, nextData, placed, dir, entry>>

\* The end of a file's chain tells how many bytes the last sector holds.
EndLink(n) == <<0, n + 1>>
EndOfDir == <<0, 255>>
NoLink == <<0, 0>>

\* Mutant of IsDataTrack: the directory track is not left out.
IsDataTrackAny(t) == t \in Track /\ t \notin Reserved

\* freeDataSectors: the data tracks in order, each from sector 0.
IsDataTrack(t) == t \in Track /\ t # DirTrack /\ t \notin Reserved

DataBefore(ts) ==
  Cardinality({us \in Sector : /\ IsDataTrack(us[1])
                               /\ \/ us[1] < ts[1]
                                  \/ us[1] = ts[1] /\ us[2] < ts[2]})

DataSector == {ts \in Sector : IsDataTrack(ts[1])}

\* The n-th data sector, from 1.
Data(n) == CHOOSE ts \in DataSector : DataBefore(ts) = n - 1

\* (len + 253) / 254, at least 1.
NumSectors(len) ==
  LET n == (len + Payload - 1) \div Payload IN IF n = 0 THEN 1 ELSE n

\* The map after allocateSector was called for the sectors of S.
CountWithout(S) ==
  [t \in Track |-> count[t] - Cardinality({ts \in S \cap free : ts[1] = t})]

Init ==
  /\ files \in UNION {[1 .. n -> Lengths] : n \in 0 .. MaxFiles}
  /\ LET taken == {<<DirTrack, 0>>, <<DirTrack, 1>>}
                   \cup {ts \in Sector : ts[1] \in Reserved}
     IN /\ free = Sector \ taken
        /\ count = [t \in Track |-> Cardinality({ts \in Sector \ taken : ts[1] = t})]
  /\ link = [ts \in Sector |-> IF ts = <<DirTrack, 0>> THEN <<DirTrack, 1>> ELSE NoLink]
  /\ nextData = 0
  /\ placed = <<>>
  /\ dir = <<>>
  /\ entry = [slot \in {} |-> 0]
  /\ pc = "place"

-----------------------------------------------------------------------------
(* Data.                                                                   *)

\* The next file takes its sectors, and they are linked.
PlaceFile ==
  /\ pc = "place"
  /\ Len(placed) < Len(files)
  /\ LET len == files[Len(placed) + 1]
         n == NumSectors(len)
         list == [i \in 1 .. n |-> Data(nextData + i)]
         used == {list[i] : i \in 1 .. n}
     IN /\ nextData + n <= Cardinality(DataSector)
        /\ nextData' = nextData + n
        /\ free' = free \ used
        /\ count' = CountWithout(used)
        /\ link' = [ts \in Sector |->
             IF ts \notin used THEN link[ts]
             ELSE LET i == CHOOSE j \in 1 .. n : list[j] = ts
                  IN IF i < n THEN list[i + 1] ELSE EndLink(len - (n - 1) * Payload)]
        /\ placed' = Append(placed, [first |-> list[1], sectors |-> n])
  /\ UNCHANGED <<files, pc, dir, entry>>

\* "disk full"
DiskFull ==
  /\ pc = "place"
  /\ Len(placed) < Len(files)
  /\ nextData + NumSectors(files[Len(placed) + 1]) > Cardinality(DataSector)
  /\ pc' = "error"
  /\ UNCHANGED <<files, free, count, link, nextData, placed, dir, entry>>

-----------------------------------------------------------------------------
(* Directory.                                                              *)

\* numDirSectors
DirSectors == LET n == (Len(files) + Entries - 1) \div Entries IN IF n = 0 THEN 1 ELSE n

\* The first directory sector, allocated from the start.
StartDir ==
  /\ pc = "place"
  /\ Len(placed) = Len(files)
  /\ dir' = <<<<DirTrack, 1>>>>
  /\ pc' = "dir"
  /\ UNCHANGED <<files, free, count, link, nextData, placed, entry>>

\* Mutant of AddDirSector: the sector is not taken out of the map.
AddDirSectorFree ==
  /\ pc = "dir"
  /\ Len(dir) < DirSectors
  /\ <<DirTrack, Len(dir) + 1>> \in Sector
  /\ dir' = Append(dir, <<DirTrack, Len(dir) + 1>>)
  /\ UNCHANGED <<files, pc, free, count, link, nextData, placed, entry>>

\* Mutant of AddDirSector: the end of the track is not checked.
AddDirSectorPast ==
  /\ pc = "dir"
  /\ Len(dir) < DirSectors
  /\ dir' = Append(dir, <<DirTrack, Len(dir) + 1>>)
  /\ free' = free \ {<<DirTrack, Len(dir) + 1>>}
  /\ count' = CountWithout({<<DirTrack, Len(dir) + 1>>})
  /\ UNCHANGED <<files, pc, link, nextData, placed, entry>>

\* The next directory sector: the sectors of the track in order.
AddDirSector ==
  /\ pc = "dir"
  /\ Len(dir) < DirSectors
  /\ LET ts == <<DirTrack, Len(dir) + 1>>
     IN /\ ts \in Sector
        /\ dir' = Append(dir, ts)
        /\ free' = free \ {ts}
        /\ count' = CountWithout({ts})
  /\ UNCHANGED <<files, pc, link, nextData, placed, entry>>

\* "directory full"
DirFull ==
  /\ pc = "dir"
  /\ Len(dir) < DirSectors
  /\ <<DirTrack, Len(dir) + 1>> \notin Sector
  /\ pc' = "error"
  /\ UNCHANGED <<files, free, count, link, nextData, placed, dir, entry>>

\* Mutant of LinkDir: the last sector gets no link.
LinkDirOpen ==
  /\ pc = "dir"
  /\ Len(dir) = DirSectors
  /\ link' = [ts \in Sector |->
       IF \E i \in 1 .. Len(dir) - 1 : dir[i] = ts
       THEN dir[(CHOOSE j \in DOMAIN dir : dir[j] = ts) + 1]
       ELSE link[ts]]
  /\ pc' = "entries"
  /\ UNCHANGED <<files, free, count, nextData, placed, dir, entry>>

\* The links of the directory.
LinkDir ==
  /\ pc = "dir"
  /\ Len(dir) = DirSectors
  /\ link' = [ts \in Sector |->
       IF \E i \in DOMAIN dir : dir[i] = ts
       THEN LET i == CHOOSE j \in DOMAIN dir : dir[j] = ts
            IN IF i < Len(dir) THEN dir[i + 1] ELSE EndOfDir
       ELSE link[ts]]
  /\ pc' = "entries"
  /\ UNCHANGED <<files, free, count, nextData, placed, dir, entry>>

Written == Cardinality(DOMAIN entry)

\* Where the entry of the i-th file (from 0) goes.
SlotOf(i) == <<dir[i \div Entries + 1], i % Entries>>

\* The sector that follows in the image.
After(ts) == IF ts[2] + 1 < Sectors[ts[1]] THEN <<ts[1], ts[2] + 1>> ELSE <<ts[1] + 1, 0>>

\* The entry is written. Its last two bytes, for the number of sectors, go to the
\* first two of the next slot; the last slot's to the link of the sector behind.
WriteEntry ==
  /\ pc = "entries"
  /\ Written < Len(placed)
  /\ LET slot == SlotOf(Written)
         n == placed[Written + 1].sectors
     IN /\ entry' = [s \in DOMAIN entry \cup {slot} |->
                       IF s = slot THEN Written + 1 ELSE entry[s]]
        /\ link' = IF slot[2] = Entries - 1
                   THEN [link EXCEPT ![After(slot[1])] = <<n % 256, (n \div 256) % 256>>]
                   ELSE link
  /\ UNCHANGED <<files, pc, free, count, nextData, placed, dir>>

Finish ==
  /\ pc = "entries"
  /\ Written = Len(placed)
  /\ pc' = "done"
  /\ UNCHANGED <<files, free, count, link, nextData, placed, dir, entry>>

Over == pc \in {"done", "error"} /\ UNCHANGED vars

Next == \/ PlaceFile \/ DiskFull \/ StartDir \/ AddDirSector \/ DirFull \/ LinkDir
        \/ WriteEntry \/ Finish \/ Over

Spec == Init /\ [][Next]_vars

-----------------------------------------------------------------------------
(* Properties.                                                             *)

\* Types: what the comments of the variables say.
TypeOK ==
  /\ pc \in {"place", "dir", "entries", "done", "error"}
  /\ free \subseteq Sector
  /\ count \in [Track -> 0 .. 256]
  /\ link \in [Sector -> (0 .. 255) \X (0 .. 255)]
  /\ nextData \in 0 .. Cardinality(DataSector)
  /\ Len(placed) <= Len(files)
  /\ \A i \in DOMAIN placed : placed[i] \in [first : DataSector, sectors : Nat \ {0}]
  /\ \A i \in DOMAIN dir : dir[i] \in Sector
  /\ \A s \in DOMAIN entry : s[2] \in 0 .. Entries - 1 /\ entry[s] \in DOMAIN placed

\* Following links from a sector, as a drive does, for at most as many steps as
\* there are sectors: the k-th link, or the last one when it names no sector.
Walk(first) ==
  LET at[k \in 0 .. Cardinality(Sector)] ==
        IF k = 0 THEN first
        ELSE IF at[k - 1] \in Sector THEN link[at[k - 1]] ELSE at[k - 1]
  IN at

Visited(first) == {Walk(first)[k] : k \in DOMAIN Walk(first)} \cap Sector
EndOf(first) == Walk(first)[Cardinality(Sector)]

\* The map is right at every step: the bits and the counts agree, and what is
\* taken is the header, the directory, the reserved tracks and the data sectors
\* given out so far (lines 207-239 and 289).
MapExact ==
  /\ \A t \in Track : count[t] = Cardinality({ts \in free : ts[1] = t})
  /\ Sector \ free = {<<DirTrack, 0>>, <<DirTrack, 1>>}
                     \cup {ts \in Sector : ts[1] \in Reserved}
                     \cup {dir[i] : i \in DOMAIN dir}
                     \cup {Data(n) : n \in 1 .. nextData}

\* Fewer files than the directory can hold: in the finished image the chain of
\* every file has its sectors, says its length, and shares no sector with another.
FilesReadable ==
  pc = "done" /\ Len(files) < Entries * (Sectors[DirTrack] - 1) =>
    \A i \in DOMAIN files :
      /\ Cardinality(Visited(placed[i].first)) = NumSectors(files[i])
      /\ EndOf(placed[i].first)[1] = 0
      /\ (NumSectors(files[i]) - 1) * Payload + EndOf(placed[i].first)[2] - 1 = files[i]
      /\ \A j \in DOMAIN files \ {i} :
           Visited(placed[i].first) \cap Visited(placed[j].first) = {}
      /\ Visited(placed[i].first) \subseteq DataSector

\* The files a drive lists that follows the directory from the header.
Listed == {entry[s] : s \in {s \in DOMAIN entry : s[1] \in Visited(<<DirTrack, 0>>)}}

\* The files of one directory sector are listed, and the directory ends there.
OneSectorListed ==
  pc = "done" /\ Len(files) <= Entries =>
    /\ Listed = DOMAIN files
    /\ EndOf(<<DirTrack, 0>>) = EndOfDir

\* A finished image has all its files in its directory, and the directory ends:
\* the error of line 320 promises room for 144 of them, and the comment of lines
\* 357-358 that each sector starts with a link and holds eight entries behind it.
AllListed ==
  pc = "done" => Listed = DOMAIN files /\ EndOf(<<DirTrack, 0>>) = EndOfDir
==============================================================================
