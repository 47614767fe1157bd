------------------------------ MODULE MCClients ------------------------------
(***************************************************************************)
(* The parts that talk to a device, a server or a file side by side: an    *)
(* FTP session, the raw socket, the services over HTTP, the search index,  *)
(* the debug service and the video receiver. They share no state: one of   *)
(* them is chosen at the start and the others rest.                        *)
(*                                                                         *)
(* FTP: one command of each kind over three files, two of which a pattern  *)
(* matches. Raw: two callers make three calls with payloads below and at   *)
(* what a length field of two bytes can hold and below what one of three   *)
(* can (4 and 8 here). HTTP: two of 38 commands. Find: two processes over a *)
(* collection of two, later three files, in any order, with four searches. *)
(* Debug: a change among seven settings of the registers or two drawings.  *)
(* Video: four pictures of three packets.                                  *)
(***************************************************************************)
EXTENDS FTPSession, RawSocket, SearchIndex, Device, DebugView, VideoFrames

VARIABLE part

\* The commands below name each file once, as the proofs about them ask.
ASSUME MCNamedOnce == NamedOnce

MCJobs ==
  [ls |-> <<<<"list", "">>, <<"list", "">>, <<"list", "">>>>,
   get |-> <<<<"list", "">>, <<"get", "h">>>>,
   put |-> <<<<"put", "f">>, <<"put", "h">>>>,
   rm |-> <<<<"rm", "h">>, <<"list", "">>>>]

MCRequest ==
  {<<"WriteMemory", 1>>, <<"WriteMemory", 2>>, <<"RunDiskImage", 7>>, <<"Identify", 0>>, <<"Wait", 2>>}

Entry(e, d, p) == [ext |-> e, folder |-> d, path |-> p]
MCCollection ==
  <<<<Entry(1, 1, <<97, 65>>), Entry(1, 2, <<66>>)>>,
    <<Entry(1, 1, <<97>>), Entry(0, 2, <<98, 97>>), Entry(2, 1, <<66, 97>>)>>>>
Opts(e, d, q, l, b) == [ext |-> e, folder |-> d, query |-> q, limit |-> l, bad |-> b]
MCOptions ==
  {Opts(1, 1, {<<97>>, <<98>>}, 0, FALSE), Opts(0, 0, {<<65>>}, 2, FALSE),
   Opts(-1, 0, {}, 0, FALSE), Opts(0, 1, {<<97>>, <<98>>}, 2, TRUE)}

MCKeys == [t \in {"LOAD RUN", "x", "y"} |-> CASE t = "x" -> 10 [] t = "y" -> 11 [] OTHER -> 17]
MCCategory == [s1 |-> "x", s2 |-> "y"]
MCCommand ==
  {Do("run", "d64", "d1", None), Do("run", "g64", "d2", None), Do("run", "", "p", None),
   Do("run", "tap", "t", None), Do("run", "t64", "t", <<0, 1>>), Do("run", "t64", "t", <<1, 1>>),
   Do("type", "", "x", None), Do("type", "", "y", None),
   Do("MountBytes", "b", "d2", None), Do("Unmount", "b", "", None), Do("LoadROM", "b", "r", None),
   Do("SetMode", "b", "", None), Do("drive-reset", "", "", None),
   Do("TurnOff", "a", "", None), Do("TurnOn", "a", "", None), Do("Drives", "b", "", None),
   Do("Set", "s1", "2", None), Do("Set", "s2", "true", None), Do("Get", "s1", "", None), Do("Get", "s2", "", None),
   Do("SaveToFlash", "", "", None), Do("SaveToFlash", "x", "", None), Do("LoadFromFlash", "", "", None),
   Do("LoadFromFlash", "y", "", None), Do("ResetToDefault", "x", "", None), Do("Apply", "", "", None),
   Do("Reboot", "", "", None), Do("Pause", "", "", None), Do("Resume", "", "", None), Do("PowerOff", "", "", None),
   Do("WriteMemory", "", "w", <<14, 2>>), Do("WriteMemory", "", "v", <<15, 2>>), Do("Peek", "", "", None),
   Do("MenuButton", "", "", None), Do("Unlink", "b", "", None),
   Do("Create", "dnp", "i", None), Do("Create", "d64", "i", <<35, 0>>), Do("List", "", "", None)}

\* Registers: the default screen in two ways of showing it and its sprites, text in
\* the last bank twice, a bitmap and a multicolor bitmap, text in extended colors.
Blank == [o \in (0 .. 46) \cup {dd00} |-> 0]
Sprite(enabled, wide, high, multi) ==
  [Blank EXCEPT ![21] = enabled, ![29] = wide, ![23] = high, ![28] = multi,
                ![37] = 241, ![38] = 18, ![39] = 7, ![40] = 248]
Regs(bank, r11, r16, r18, others) ==
  [o \in DOMAIN Blank |-> CASE o = d011 -> r11 [] o = d016 -> r16 [] o = d018 -> r18 [] o = d021 -> 246
                            [] o = dd00 -> 148 + 3 - bank [] OTHER -> others[o]]
MCSetup ==
  {Regs(0, 27, 200, 21, Sprite(3, 0, 1, 0)), Regs(0, 27, 216, 24, Sprite(3, 3, 2, 3)),
   Regs(3, 27, 200, 23, Blank), Regs(3, 27, 216, 54, Blank), Regs(3, 91, 200, 23, Blank),
   Regs(1, 59, 200, 128, Blank), Regs(2, 59, 216, 24, Blank)}
MCDrawing == {1, 2}
MCText(w) == IF w = 1 THEN <<97, 66, 49, 64, 47, 32, 46>> ELSE <<90, 64, 120>>
MCProgram(w) ==
  <<[number |-> 10, text |-> <<<<"token", 153>>, <<"char", 34>>, <<"code", 147>>, <<"char", 65>>, <<"char", 34>>, <<"char", 59>>>>],
    [number |-> 300 * w, text |-> <<<<"token", 158>>, <<"char", 50>>>>]>>
MCInk(w, h, v) == (w + h * h + 3 * v + h \div 5) % 2
MCRam(w, a) == IF a \in {2040, 2041} THEN 13 + ((a + w) % 2) ELSE (a * 7 + w * (a \div 256)) % 256
MCPixel == {0, 3, 160, 319} \X {0, 7, 100, 199}
MCDot == {0, 5, 23, 24, 47} \X {0, 20, 21, 41}

-----------------------------------------------------------------------------

FtpRests ==
  /\ tool = "ls" /\ todo = <<>> /\ stage = "closed" /\ dialed = 0 /\ stream = "none"
  /\ local = [n \in Name |-> "none"] /\ remote = local
  /\ reports = {} /\ broken = FALSE /\ cmds = <<>> /\ replies = <<>> /\ lost = TRUE
  /\ port = 0 /\ ports = 0 /\ serving = Idle

\* The callers are alike, and so are the processes that do the same at first. While
\* they are in like states, it is one of them that moves: any other would lead to
\* the same states with the names exchanged. After two calls of the raw socket have
\* overlapped nothing is promised any more, and no further call is made.
FirstCaller == CHOOSE c \in Caller : TRUE
CallersInTurn ==
  /\ overlapped => issued' = issued
  /\ (\A c \in Caller : call[c] = 0) => \A c \in Caller \ {FirstCaller} : call'[c] = 0

FirstProc == CHOOSE p \in Proc : TRUE
Alike(p, q) == /\ at[p] = at[q] /\ opts[p] = opts[q] /\ tree[p] = tree[q]
               /\ done[p] = done[q] /\ data[p] = data[q] /\ result[p] = result[q]
ProcsInTurn ==
  (\A p \in Proc : Alike(p, FirstProc)) =>
    \A p \in Proc \ {FirstProc} : at'[p] = at[p] /\ done'[p] = done[p]

MCInit ==
  /\ part \in {"ftp", "raw", "find", "http", "debug", "video"}
  /\ IF part = "ftp" THEN FtpInit ELSE FtpRests
  /\ RawInit /\ HttpInit /\ FramesInit
  /\ FindInit /\ (at[FirstProc] = "load" \/ \A p \in Proc : at[p] = "walk only")
  /\ (part # "find" => disk = Missing /\ at = [p \in Proc |-> "load"])
  /\ ViewInit /\ (part # "debug" => regs = Regs(0, 27, 200, 21, Sprite(3, 0, 1, 0)))

\* A part that has come to its end, or to its bound.
MCOver ==
  /\ CASE part = "ftp" -> stage = "closed"
       [] part = "raw" -> conn \in {"broken", "closed"} \/ Len(issued) = MaxCalls
       [] part = "find" -> \A p \in Proc : at[p] = "returned"
       [] part = "http" -> outcome \in {"nil", "failed"} /\ invoked = MaxCommands
       [] part = "video" -> sending[1] > MaxPictures
       [] OTHER -> FALSE
  /\ UNCHANGED <<ftpVars, rawVars, findVars, httpVars, viewVars, frameVars>>

MCNext ==
  /\ \/ part = "ftp" /\ FtpNext /\ UNCHANGED <<rawVars, findVars, httpVars, viewVars, frameVars>>
     \/ part = "raw" /\ RawNext /\ CallersInTurn /\ UNCHANGED <<ftpVars, findVars, httpVars, viewVars, frameVars>>
     \/ part = "find" /\ FindNext /\ ProcsInTurn /\ UNCHANGED <<ftpVars, rawVars, httpVars, viewVars, frameVars>>
     \/ part = "http" /\ HttpNext /\ UNCHANGED <<ftpVars, rawVars, findVars, viewVars, frameVars>>
     \/ part = "debug" /\ ViewNext /\ UNCHANGED <<ftpVars, rawVars, findVars, httpVars, frameVars>>
     \/ part = "video" /\ FramesNext /\ UNCHANGED <<ftpVars, rawVars, findVars, httpVars, viewVars>>
     \/ MCOver
  /\ UNCHANGED part

MCSpec ==
  /\ MCInit
  /\ [][MCNext]_<<ftpVars, rawVars, findVars, httpVars, viewVars, frameVars, part>>
  /\ FtpFair
==============================================================================
