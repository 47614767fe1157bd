---------------------------- MODULE VideoFrames ----------------------------
(***************************************************************************)
(* The assembly of pictures in Video of streams.go: packets of a few lines *)
(* are painted into one buffer, which is handed on and cleared when the    *)
(* packet marked as the last of its picture arrives. The packets are UDP:  *)
(* any of them may be lost. A strip stands for the lines of a packet, a    *)
(* number for the picture it shows, Black for a cleared line. The packets  *)
(* come in order, as from one device in the same network.                  *)
(***************************************************************************)
EXTENDS Integers, Sequences, FiniteSets

CONSTANTS
  Strips,      \* packets per picture
  MaxPictures  \* bound on the pictures of the device

ASSUME FramesAssumption == Strips \in Nat \ {0} /\ MaxPictures \in Nat

Black == 0

VARIABLES
  sending,          \* the picture and the strip of the next packet
  currentFrame,  \* the buffer
  frames,        \* the pictures handed to the reader
  arrived        \* the packets that were not lost

frameVars == <<sending, currentFrame, frames, arrived>>

Cleared == [s \in 1 .. Strips |-> Black]

FramesInit ==
  /\ sending = <<1, 1>>
  /\ currentFrame = Cleared
  /\ frames = <<>>
  /\ arrived = {}

\* The device goes on, whatever becomes of the packet.
Advance ==
  /\ sending[1] <= MaxPictures
  /\ sending' = IF sending[2] < Strips THEN <<sending[1], sending[2] + 1>> ELSE <<sending[1] + 1, 1>>

LosePacket == Advance /\ UNCHANGED <<currentFrame, frames, arrived>>

Painted == [currentFrame EXCEPT ![sending[2]] = sending[1]]

\* Mutant of Paint: the buffer is not cleared.
PaintOver ==
  /\ Advance
  /\ arrived' = arrived \union {sending}
  /\ currentFrame' = Painted
  /\ frames' = IF sending[2] = Strips THEN Append(frames, Painted) ELSE frames

\* One packet: its lines are painted; the last one of a picture hands it on.
Paint ==
  /\ Advance
  /\ arrived' = arrived \union {sending}
  /\ IF sending[2] = Strips
     THEN frames' = Append(frames, Painted) /\ currentFrame' = Cleared
     ELSE frames' = frames /\ currentFrame' = Painted

FramesNext == LosePacket \/ Paint

FramesSpec == FramesInit /\ [][FramesNext]_frameVars

\* A picture handed on shows in every line the newest one that arrived for it since
\* the picture before was handed on, and black where nothing did: never a line of a
\* picture that was handed on already, however many packets are lost. When the last
\* packet of a picture is lost its lines fill the gaps of the next one, so a picture
\* need not be of one moment.
\* Source: streams.go:111-151.
FramesFresh ==
  LET ended == {n \in 1 .. MaxPictures : <<n, Strips>> \in arrived}
      Before(n) == {e \in ended : e < n}
      Largest(S) == CHOOSE m \in S : \A o \in S : o <= m
  IN /\ Len(frames) = Cardinality(ended)
     /\ \A n \in ended, s \in 1 .. Strips :
          frames[Cardinality(Before(n)) + 1][s]
            = Largest({Black} \union {m \in 1 .. n : <<m, s>> \in arrived /\ \A e \in Before(n) : m > e})
=============================================================================
