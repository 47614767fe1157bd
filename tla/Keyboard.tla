------------------------------- MODULE Keyboard -------------------------------
(***************************************************************************)
(* KeyboardService of keyboard.go: Type feeds text to the KERNAL's         *)
(* keyboard buffer ($0277, its length at $C6) a chunk at a time, and Press *)
(* either feeds one character or drives the registers of CIA #1 for a      *)
(* while. Every access to the memory of the C64 is a request of its own    *)
(* (machine.go), and the C64 runs, and other calls do, between any two.    *)
(*                                                                         *)
(* The C64 is external: its KERNAL takes characters off the front of the   *)
(* buffer, appends the keys its user presses, and scans the keyboard or    *)
(* not.                                                                    *)
(***************************************************************************)
EXTENDS FiniteSets, Integers, Sequences

CONSTANTS
  Typist,      \* calls of Type
  Presser,     \* calls of Press
  Text,        \* Text[c]: what a Type encodes to, or the one character of a Press
               \* (<<>> if its keys have none)
  Rounds,      \* in which round each call is made: those of a round at the same time,
               \* one round after the other, those of round 0 never
  UserKey,     \* the character of a key pressed by the user of the C64
  BufMax,      \* KernalKeyBufMax (10)
  Faulty,      \* bound: may requests fail whose context is not over when they are sent?
  MaxKeys,     \* bound: keys the user presses
  None         \* no character

Call == Typist \cup Presser
Char == (UNION {{Text[c][i] : i \in DOMAIN Text[c]} : c \in Call}) \cup {UserKey}

ASSUME KeyboardAssumption ==
  /\ Typist \cap Presser = {}
  /\ IsFiniteSet(Typist) /\ IsFiniteSet(Presser)
  /\ BufMax \in Nat \ {0}
  /\ MaxKeys \in Nat
  /\ Faulty \in BOOLEAN
  /\ Text \in [Call -> Seq(Char)]
  /\ \A p \in Presser : Len(Text[p]) <= 1
  /\ None \notin Char
  /\ Rounds \subseteq [Call -> Nat]

VARIABLES
  round,       \* the member of Rounds this behavior is about
  cells,       \* $0277: the cells of the buffer
  ndx,         \* $C6: how many of them are waiting
  consumed,    \* history: the characters programs have read
  keys,        \* how many keys the user has pressed
  scanning,    \* is the KERNAL's interrupt running (does $A2 advance)?
  ports,       \* $DC00-$DC01: "idle", or the Press that drives them
  ddr,         \* $DC02-$DC03: "idle" or "driven"
  pc,          \* where each call is
  todo,        \* what it has still to feed
  saved,       \* the CIA registers it read
  canceled     \* is its context cancelled?

c64Vars == <<cells, ndx, consumed, keys, scanning>>
ciaVars == <<ports, ddr>>
vars == <<round, cells, ndx, consumed, keys, scanning, ports, ddr, pc, todo, saved, canceled>>

Min2(a, b) == IF a < b THEN a ELSE b
Chunk(c) == SubSeq(todo[c], 1, Min2(BufMax, Len(todo[c])))

Cia == [ports : Presser \cup {"idle"}, ddr : {"idle", "driven"}]
IdleCia == [ports |-> "idle", ddr |-> "idle"]
CiaNow == [ports |-> ports, ddr |-> ddr]

TypeOK ==
  /\ round \in Rounds
  /\ cells \in [1 .. BufMax -> Char \cup {None}]
  /\ ndx \in 0 .. BufMax
  /\ consumed \in Seq(Char \cup {None})
  /\ keys \in 0 .. MaxKeys
  /\ scanning \in BOOLEAN
  /\ CiaNow \in Cia
  /\ pc \in [Call -> {"poll", "fill", "count", "save", "probe", "driveDDR",
                      "drivePorts", "hold", "restore", "ok", "error"}]
  /\ todo \in [Call -> Seq(Char)]
  /\ saved \in [Presser -> Cia]
  /\ canceled \in [Call -> BOOLEAN]

Init ==
  /\ round \in Rounds
  /\ cells = [i \in 1 .. BufMax |-> None]
  /\ ndx = 0
  /\ consumed = <<>>
  /\ keys = 0
  /\ scanning \in BOOLEAN
  /\ ports = "idle"
  /\ ddr = "idle"
  /\ pc = [c \in Call |-> IF c \in Typist THEN "poll" ELSE "save"]
  /\ todo = Text
  /\ saved = [p \in Presser |-> IdleCia]
  /\ canceled = [c \in Call |-> FALSE]

\* How a request of call c may end. One whose context is over is not sent; one that fails,
\* be it that the context ends while it is under way, may have been obeyed.
Outcome(c, ok, obeyed) ==
  /\ ok => obeyed
  /\ obeyed => ~canceled[c]
  /\ ~ok => canceled[c] \/ Faulty

Goto(c, l) == pc' = [pc EXCEPT ![c] = l]

\* Press ignores what feed returns.
FeedError(c) == IF c \in Presser THEN "ok" ELSE "error"

-----------------------------------------------------------------------------
(* feed.                                                                   *)

\* Mutant of PollEmpty: the length is not looked at.
PollBlind(c) ==
  /\ pc[c] = "poll"
  /\ ~canceled[c]
  /\ todo[c] # <<>>
  /\ Goto(c, "fill")
  /\ UNCHANGED <<c64Vars, ciaVars, todo, saved, canceled>>

\* The buffer is empty: the next chunk can go.
PollEmpty(c) ==
  /\ pc[c] = "poll"
  /\ ~canceled[c]
  /\ todo[c] # <<>>
  /\ ndx = 0
  /\ Goto(c, "fill")
  /\ UNCHANGED <<c64Vars, ciaVars, todo, saved, canceled>>

\* Mutant of PollFails: a failed poll counts as a full buffer, for ever.
PollFailsAgain(c) ==
  /\ pc[c] = "poll"
  /\ todo[c] # <<>>
  /\ canceled[c] \/ Faulty
  /\ UNCHANGED vars

\* The poll fails, or the context ends while the buffer is not empty.
PollFails(c) ==
  /\ pc[c] = "poll"
  /\ todo[c] # <<>>
  /\ canceled[c] \/ Faulty
  /\ Goto(c, FeedError(c))
  /\ UNCHANGED <<c64Vars, ciaVars, todo, saved, canceled>>

FeedEnds(c) ==
  /\ pc[c] = "poll"
  /\ todo[c] = <<>>
  /\ Goto(c, "ok")
  /\ UNCHANGED <<c64Vars, ciaVars, todo, saved, canceled>>

\* The characters of the chunk are written.
Fill(c) ==
  /\ pc[c] = "fill"
  /\ \E ok, obeyed \in BOOLEAN :
       /\ Outcome(c, ok, obeyed)
       /\ cells' = IF obeyed
                   THEN [i \in DOMAIN cells |->
                           IF i <= Len(Chunk(c)) THEN Chunk(c)[i] ELSE cells[i]]
                   ELSE cells
       /\ Goto(c, IF ok THEN "count" ELSE FeedError(c))
  /\ UNCHANGED <<ndx, consumed, keys, scanning, ciaVars, todo, saved, canceled>>

\* Mutants of Count: the length of the whole text is written; that of the buffer is.
CountAll(c) ==
  /\ pc[c] = "count"
  /\ ndx' = Len(todo[c])
  /\ todo' = [todo EXCEPT ![c] = SubSeq(@, Len(Chunk(c)) + 1, Len(@))]
  /\ Goto(c, "poll")
  /\ UNCHANGED <<cells, consumed, keys, scanning, ciaVars, saved, canceled>>

CountMax(c) ==
  /\ pc[c] = "count"
  /\ ndx' = BufMax
  /\ todo' = [todo EXCEPT ![c] = SubSeq(@, Len(Chunk(c)) + 1, Len(@))]
  /\ Goto(c, "poll")
  /\ UNCHANGED <<cells, consumed, keys, scanning, ciaVars, saved, canceled>>

\* Its length is: the KERNAL sees it.
Count(c) ==
  /\ pc[c] = "count"
  /\ \E ok, obeyed \in BOOLEAN :
       /\ Outcome(c, ok, obeyed)
       /\ ndx' = IF obeyed THEN Len(Chunk(c)) ELSE ndx
       /\ todo' = IF ok
                  THEN [todo EXCEPT ![c] = SubSeq(@, Len(Chunk(c)) + 1, Len(@))]
                  ELSE todo
       /\ Goto(c, IF ok THEN "poll" ELSE FeedError(c))
  /\ UNCHANGED <<cells, consumed, keys, scanning, ciaVars, saved, canceled>>

Feed(c) == PollEmpty(c) \/ PollFails(c) \/ FeedEnds(c) \/ Fill(c) \/ Count(c)

-----------------------------------------------------------------------------
(* Press.                                                                  *)

\* Reads the four CIA registers.
Save(p) ==
  /\ pc[p] = "save"
  /\ \/ /\ ~canceled[p]
        /\ saved' = [saved EXCEPT ![p] = CiaNow]
        /\ Goto(p, "probe")
     \/ /\ canceled[p] \/ Faulty
        /\ Goto(p, "error")
        /\ UNCHANGED saved
  /\ UNCHANGED <<c64Vars, ciaVars, todo, canceled>>

\* Two reads of the jiffy clock. A read that fails counts as a clock at rest.
Probe(p) ==
  /\ pc[p] = "probe"
  /\ \/ ~canceled[p] /\ scanning /\ Goto(p, "poll")
     \/ (~scanning \/ canceled[p] \/ Faulty) /\ Goto(p, "driveDDR")
  /\ UNCHANGED <<c64Vars, ciaVars, todo, saved, canceled>>

DriveDDR(p) ==
  /\ pc[p] = "driveDDR"
  /\ \E ok, obeyed \in BOOLEAN :
       /\ Outcome(p, ok, obeyed)
       /\ ddr' = IF obeyed THEN "driven" ELSE ddr
       /\ Goto(p, IF ok THEN "drivePorts" ELSE "error")
  /\ UNCHANGED <<c64Vars, ports, todo, saved, canceled>>

DrivePorts(p) ==
  /\ pc[p] = "drivePorts"
  /\ \E ok, obeyed \in BOOLEAN :
       /\ Outcome(p, ok, obeyed)
       /\ ports' = IF obeyed THEN p ELSE ports
       /\ Goto(p, IF ok THEN "hold" ELSE "error")
  /\ UNCHANGED <<c64Vars, ddr, todo, saved, canceled>>

\* The end of the hold time, or of the context, whichever select meets.
Hold(p) ==
  /\ pc[p] = "hold"
  /\ \/ Goto(p, "restore")
     \/ canceled[p] /\ Goto(p, "error")
  /\ UNCHANGED <<c64Vars, ciaVars, todo, saved, canceled>>

\* Mutant of Restore: only the two ports are written back.
RestorePorts(p) ==
  /\ pc[p] = "restore"
  /\ ports' = saved[p].ports
  /\ Goto(p, "ok")
  /\ UNCHANGED <<c64Vars, ddr, todo, saved, canceled>>

Restore(p) ==
  /\ pc[p] = "restore"
  /\ \E ok, obeyed \in BOOLEAN :
       /\ Outcome(p, ok, obeyed)
       /\ IF obeyed THEN ports' = saved[p].ports /\ ddr' = saved[p].ddr
                    ELSE UNCHANGED ciaVars
       /\ Goto(p, IF ok THEN "ok" ELSE "error")
  /\ UNCHANGED <<c64Vars, todo, saved, canceled>>

Press(p) == \/ Save(p) \/ Probe(p) \/ DriveDDR(p) \/ DrivePorts(p)
            \/ Hold(p) \/ Restore(p) \/ Feed(p)

Cancel(c) ==
  /\ round[c] > 0 /\ ~canceled[c]
  /\ pc[c] \notin {"ok", "error"}
  /\ canceled' = [canceled EXCEPT ![c] = TRUE]
  /\ UNCHANGED <<c64Vars, ciaVars, pc, todo, saved>>

-----------------------------------------------------------------------------
(* The C64 (external).                                                     *)

\* A program reads a key: the KERNAL moves the waiting cells up by one.
GetIn ==
  /\ ndx > 0
  /\ consumed' = Append(consumed, cells[1])
  /\ cells' = [i \in DOMAIN cells |->
                 IF i <= ndx /\ i < BufMax THEN cells[i + 1] ELSE cells[i]]
  /\ ndx' = ndx - 1
  /\ UNCHANGED <<keys, scanning, ciaVars, pc, todo, saved, canceled>>

\* The user presses a key, and the KERNAL's scan queues it if there is room.
UserPresses ==
  /\ scanning
  /\ keys < MaxKeys
  /\ keys' = keys + 1
  /\ ndx < BufMax
  /\ cells' = [cells EXCEPT ![ndx + 1] = UserKey]
  /\ ndx' = ndx + 1
  /\ UNCHANGED <<consumed, scanning, ciaVars, pc, todo, saved, canceled>>

\* A program turns the KERNAL's interrupt off or on.
SwitchIRQ ==
  /\ scanning' = ~scanning
  /\ UNCHANGED <<cells, ndx, consumed, keys, ciaVars, pc, todo, saved, canceled>>

\* The calls of the rounds before have returned.
Turn(c) == /\ round[c] > 0
           /\ \A d \in Call : 0 < round[d] /\ round[d] < round[c] => pc[d] \in {"ok", "error"}

CallStep(c) ==
  /\ Turn(c)
  /\ \/ c \in Typist /\ Feed(c)
     \/ c \in Presser /\ Press(c)

Next ==
  /\ \/ \E c \in Call : CallStep(c)
     \/ \E c \in Call : Cancel(c)
     \/ GetIn \/ UserPresses \/ SwitchIRQ
  /\ UNCHANGED round

Spec == Init /\ [][Next]_vars

\* A request of call c fails though its context is not over; Press ignores it in feed.
Fault(c) ==
  /\ ~canceled[c]
  /\ \/ pc'[c] = "error"
     \/ pc[c] \in {"poll", "fill", "count"} /\ pc'[c] = "ok" /\ todo'[c] # <<>>

\* Calls go on as long as they can. No request has to fail, nobody has to read what is
\* typed, and no context has to end.
Fairness == \A c \in Call : WF_vars(CallStep(c) /\ ~Fault(c) /\ UNCHANGED round)

FairSpec == Spec /\ Fairness

-----------------------------------------------------------------------------
(* Properties.                                                             *)

Queue == SubSeq(cells, 1, ndx)

\* What programs have read or will find in the buffer.
Received == consumed \o Queue

\* Every call is made, and none at the same time as another.
Alone == \A c, d \in Call : round[c] > 0 /\ (c # d => round[c] # round[d])

\* No character is in two texts, or in two places of one: each tells where it is from.
Distinct ==
  \A c, d \in Call : \A n \in DOMAIN Text[c], m \in DOMAIN Text[d] :
    Text[c][n] = Text[d][m] => c = d /\ n = m

\* What is at i is character n of call c, comes right behind the one before it, and
\* is behind nothing of a later call, nor behind itself.
Follows(i, c, n) ==
  /\ Received[i] = Text[c][n]
  /\ n > 1 => i > 1 /\ Received[i - 1] = Text[c][n - 1]
  /\ \A j \in 1 .. i - 1 : \A d \in Call : \A m \in DOMAIN Text[d] :
       Received[j] = Text[d][m] => round[d] <= round[c] /\ <<d, m>> # <<c, n>>

\* Calls made one after the other, with nobody at the C64's keyboard: programs read
\* the text of each in order, once, without gaps and with nothing in between, whatever
\* fails, before any of the next call's; and when a Type returns nil, all of its text
\* has been read or is waiting (lines 147-175).
Delivered ==
  Alone /\ Distinct /\ keys = 0 =>
    /\ \A i \in DOMAIN Received : \E c \in Call : \E n \in DOMAIN Text[c] : Follows(i, c, n)
    /\ \A t \in Typist : pc[t] = "ok" =>
         \A n \in DOMAIN Text[t] : \E i \in DOMAIN Received : Received[i] = Text[t][n]

\* However calls, the user and the KERNAL interleave, no more characters are read
\* than were typed (characters may be lost, and others read twice in their place).
NothingExtra ==
  Len(Received) <= keys + Cardinality(UNION {{c} \X DOMAIN Text[c] : c \in Call})

\* A call polls a buffer that is not empty, with a context that is not over.
Unread(c) == pc[c] = "poll" /\ ndx > 0 /\ ~canceled[c]

\* Every call returns, unless one of them polls for ever, because programs stop reading the
\* buffer and its context never ends: nothing else in the loop (lines 152-165) or in Press
\* can keep a call, and no request has to fail for that.
CallsReturn ==
  \A c \in Call : round[c] > 0 =>
    <>(pc[c] \in {"ok", "error"}) \/ \E d \in Call : <>[]Unread(d)

\* A Press that is alone and returns nil has put the CIA's registers back.
PressRestores ==
  \A p \in Presser : Presser = {p} /\ pc[p] = "ok" => CiaNow = IdleCia

\* The comment on Press (lines 75-77): it modifies the registers "to simulate an active key
\* matrix signal for 40ms before restoring the original register values". So its key is not
\* held when it has returned.
PressReleases ==
  \A p \in Presser : Presser = {p} /\ pc[p] \in {"ok", "error"} => ports # p
==============================================================================
