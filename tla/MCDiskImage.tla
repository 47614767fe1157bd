----------------------------- MODULE MCDiskImage -----------------------------
(***************************************************************************)
(* A disk of four tracks: the directory track holds the map and three      *)
(* directory sectors of two entries, the data tracks three and five        *)
(* sectors of two bytes, and one track is reserved as on a D71. Up to      *)
(* seven files of one, two or three sectors fill the disk and the          *)
(* directory.                                                              *)
(***************************************************************************)
EXTENDS DiskImage

MCSectors == <<3, 4, 5, 2>>
==============================================================================
