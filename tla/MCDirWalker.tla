----------------------------- MODULE MCDirWalker -----------------------------
(***************************************************************************)
(* A small tree for DirWalker: root r with two files and two levels of     *)
(* directories below it, one hidden and one unwanted entry, and a second   *)
(* root s. With a channel of one slot most subdirectories meet a full      *)
(* channel, and two files fill a batch.                                    *)
(***************************************************************************)
EXTENDS DirWalker

MCDir == {"r", "s", "a", "b", "hid"}
MCFile == {"f", "g", "h", "k", "x"}
MCRoot == {"r", "s"}
MCChild ==
  [d \in MCDir |->
     CASE d = "r" -> {"f", "g", "a"}
       [] d = "a" -> {"b", "x", "hid"}
       [] d = "b" -> {"h"}
       [] d = "s" -> {"k"}
       [] d = "hid" -> {}]
MCHidden == {"hid"}
MCWanted == {"f", "g", "h", "k"}
NoVeto == {}
MCVeto == {"f", "h"}
==============================================================================
