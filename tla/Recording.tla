------------------------------- MODULE Recording -------------------------------
(***************************************************************************)
(* What an AVI session (AVISession in streams.go) promises whoever reads   *)
(* its output: a header, then whole chunks; the frames and the audio       *)
(* packets each in the order they arrived, none twice and none skipped;    *)
(* and once the output is closed, nothing more.                            *)
(***************************************************************************)
EXTENDS FiniteSets, Naturals, Sequences

CONSTANT Kind       \* video and audio

VARIABLES
  chunks,           \* the whole chunks written: <<kind, number>>
  closed            \* has the output been closed?

vars == <<chunks, closed>>

Header == <<"header", 0>>

Count(k) == Cardinality({i \in DOMAIN chunks : chunks[i][1] = k})

Init == chunks = <<>> /\ closed = FALSE

WriteHeader ==
  /\ ~closed
  /\ chunks = <<>>
  /\ chunks' = <<Header>>
  /\ UNCHANGED closed

WriteChunk(k) ==
  /\ ~closed
  /\ chunks # <<>>
  /\ chunks' = Append(chunks, <<k, Count(k) + 1>>)
  /\ UNCHANGED closed

Close ==
  /\ ~closed
  /\ closed' = TRUE
  /\ UNCHANGED chunks

Next == WriteHeader \/ (\E k \in Kind : WriteChunk(k)) \/ Close

Spec == Init /\ [][Next]_vars
==============================================================================
