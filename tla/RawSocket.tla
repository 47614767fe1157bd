------------------------------ MODULE RawSocket ------------------------------
(***************************************************************************)
(* RawConn of raw.go: commands on the DMA socket (TCP port 64), a header   *)
(* with the command and the length of its payload in one write and the     *)
(* payload in a second, without a lock and, but for two commands, without  *)
(* an answer. The device is external: it takes headers and as many bytes   *)
(* after each as the header says, and acts on them.                        *)
(*                                                                         *)
(* A header is one unit of the stream, and so is a byte of a payload, which*)
(* carries the number of the call it belongs to.                           *)
(***************************************************************************)
EXTENDS Integers, Sequences, SequencesExt

CONSTANTS
  Caller,      \* goroutines that share a connection
  Request,     \* what they ask for: pairs of method and length of its data
  Password,    \* is one configured?
  Short, Wide, \* numbers a length field of 2, of 3 bytes can hold (65536, 16777216)
  MaxCalls     \* bound: calls

Method ==
  {"WriteMemory", "WriteREU", "LoadKernal", "Reset", "LoadAndRun", "LoadAndJump", "RunCartridge",
   "RunDiskImage", "MountDiskImage", "Type", "Identify", "Wait", "PowerOff"}

ASSUME RawAssumption ==
  /\ Request \subseteq Method \X Nat
  /\ Short \in Nat \ {0} /\ Wide \in Nat \ {0}
  /\ MaxCalls \in Nat

VARIABLES
  conn,        \* "dialing", "authenticating", "open", "broken" or "closed"
  call,        \* call[c]: the number of the call c is in, or 0
  doing,       \* what it does: "header", "payload", "length", "title"
  issued,      \* the calls made: pairs of method and length
  returned,    \* returned[i]: "pending", "nil", "error" or a title
  wire,        \* to the device
  answers,     \* from the device
  obeyed,      \* history: method and payload, as the device understood them
  astray,      \* it met a byte of a payload where it expects a header
  overlapped   \* history: two callers have been in a call at once

rawVars == <<conn, call, doing, issued, returned, wire, answers, obeyed, astray, overlapped>>

\* A payload begins with an address (2 bytes), a REU offset (3) or nothing.
Prefix(method) ==
  CASE method \in {"WriteMemory", "LoadAndJump"} -> 2
    [] method = "WriteREU" -> 3
    [] OTHER -> 0

Bare == {"Reset", "Identify", "PowerOff"}

PayloadLen(r) == IF r[1] \in Bare \cup {"Wait"} THEN 0 ELSE Prefix(r[1]) + r[2]

\* The images of cartridges and disks have a length of three bytes.
Wide24 == {"RunCartridge", "RunDiskImage", "MountDiskImage"}

\* Mutant of LengthField: every command has a length of two bytes.
ShortField(r) == IF r[1] = "Wait" THEN r[2] ELSE PayloadLen(r) % Short

\* sendCommand and sendCommand24 cut the length to the field; Wait puts its ticks
\* there.
LengthField(r) ==
  IF r[1] = "Wait" THEN r[2]
  ELSE IF r[1] \in Wide24 THEN PayloadLen(r) % Wide
  ELSE PayloadLen(r) % Short

Fits(r) == PayloadLen(r) < IF r[1] \in Wide24 THEN Wide ELSE Short

HeaderUnit(i, r) == [of |-> i, method |-> r[1], len |-> LengthField(r)]
PayloadUnits(i, r) == [n \in 1 .. PayloadLen(r) |-> [of |-> i, method |-> "data", len |-> 0]]

RawInit ==
  /\ conn = "dialing"
  /\ call = [c \in Caller |-> 0]
  /\ doing = [c \in Caller |-> "header"]
  /\ issued = <<>> /\ returned = <<>>
  /\ wire = <<>> /\ answers = <<>> /\ obeyed = <<>>
  /\ astray = FALSE /\ overlapped = FALSE

-----------------------------------------------------------------------------

\* Dial: the connection, and the authentication command if there is a password.
Dial ==
  /\ conn = "dialing"
  /\ \/ conn' = "closed" /\ UNCHANGED wire
     \/ /\ conn' = IF Password THEN "authenticating" ELSE "open"
        /\ wire' = IF Password THEN <<[of |-> 0, method |-> "Authenticate", len |-> 1],
                                      [of |-> 0, method |-> "data", len |-> 0]>> ELSE wire
  /\ UNCHANGED <<call, doing, issued, returned, answers, obeyed, astray, overlapped>>

\* Mutant of Authenticated: the answer is not taken off the connection.
AuthenticatedUnread ==
  /\ conn = "authenticating"
  /\ answers # <<>>
  /\ conn' = "open"
  /\ UNCHANGED <<call, doing, issued, returned, wire, answers, obeyed, astray, overlapped>>

\* The answer, or the second write or the read fails and the connection is closed.
Authenticated ==
  /\ conn = "authenticating"
  /\ \/ /\ answers # <<>>
        /\ conn' = IF Head(answers) = 1 THEN "open" ELSE "closed"
        /\ answers' = Tail(answers)
        /\ UNCHANGED wire
     \/ conn' = "closed" /\ wire' = <<>> /\ answers' = <<>>
  /\ UNCHANGED <<call, doing, issued, returned, obeyed, astray, overlapped>>

Return(c, result) ==
  /\ call' = [call EXCEPT ![c] = 0]
  /\ doing' = [doing EXCEPT ![c] = "header"]
  /\ returned' = [returned EXCEPT ![call[c]] = result]

\* A call of one of the methods; calls are numbered.
Call(c, r) ==
  /\ conn = "open" /\ call[c] = 0 /\ Len(issued) < MaxCalls
  /\ issued' = Append(issued, r)
  /\ returned' = Append(returned, "pending")
  /\ call' = [call EXCEPT ![c] = Len(issued')]
  /\ overlapped' = (overlapped \/ \E d \in Caller : call[d] # 0)
  /\ UNCHANGED <<conn, doing, wire, answers, obeyed, astray>>

Request1(c) == issued[call[c]]

\* The first write. Most methods return when all is written.
WriteHeader(c) ==
  /\ call[c] # 0 /\ doing[c] = "header" /\ conn # "closed"
  /\ wire' = Append(wire, HeaderUnit(call[c], Request1(c)))
  /\ IF PayloadLen(Request1(c)) > 0
     THEN doing' = [doing EXCEPT ![c] = "payload"] /\ UNCHANGED <<call, returned>>
     ELSE IF Request1(c)[1] = "Identify"
     THEN doing' = [doing EXCEPT ![c] = "length"] /\ UNCHANGED <<call, returned>>
     ELSE Return(c, "nil")
  /\ UNCHANGED <<conn, issued, answers, obeyed, astray, overlapped>>

WritePayload(c) ==
  /\ doing[c] = "payload" /\ conn # "closed"
  /\ wire' = wire \o PayloadUnits(call[c], Request1(c))
  /\ Return(c, "nil")
  /\ UNCHANGED <<conn, issued, answers, obeyed, astray, overlapped>>

\* Identify: one byte with the length of the title, then as many bytes.
ReadLength(c) ==
  /\ doing[c] = "length" /\ answers # <<>>
  /\ answers' = Tail(answers)
  /\ IF Head(answers) = 0 THEN Return(c, "empty")
     ELSE doing' = [doing EXCEPT ![c] = "title"] /\ UNCHANGED <<call, returned>>
  /\ UNCHANGED <<conn, issued, wire, obeyed, astray, overlapped>>

ReadTitle(c) ==
  /\ doing[c] = "title" /\ answers # <<>>
  /\ answers' = Tail(answers)
  /\ Return(c, IF Head(answers) = 1 THEN "title" ELSE "garbage")
  /\ UNCHANGED <<conn, issued, wire, obeyed, astray, overlapped>>

\* A write or a read fails: the connection is broken, or closed (Close sets it to
\* nil, on which the call panics instead).
IOFails(c) ==
  /\ call[c] # 0
  /\ conn' = IF conn = "closed" THEN conn ELSE "broken"
  /\ Return(c, "error")
  /\ UNCHANGED <<issued, wire, answers, obeyed, astray, overlapped>>

\* Close, by whoever; what an answer has left in the buffer can still be read.
Close ==
  /\ conn \in {"open", "broken"}
  /\ conn' = "closed"
  /\ UNCHANGED <<call, doing, issued, returned, wire, answers, obeyed, astray, overlapped>>

-----------------------------------------------------------------------------
(* The device (external).                                                  *)

\* A command is complete when the bytes its header announces are there; Wait has
\* none. Authentication is answered with one byte, Identify with the length of a
\* title (1, or 0 if it has none) and the title (here the unit 1).
Obey ==
  /\ wire # <<>> /\ ~astray /\ Head(wire).method # "data"
  /\ LET h == Head(wire)
         n == IF h.method = "Wait" THEN 0 ELSE h.len
     IN /\ Len(wire) > n
        /\ wire' = SubSeq(wire, n + 2, Len(wire))
        /\ \/ /\ h.method = "Authenticate" /\ \E ok \in {0, 1} : answers' = Append(answers, ok)
              /\ UNCHANGED obeyed
           \/ /\ h.method # "Authenticate"
              /\ \E title \in IF h.method = "Identify" THEN {<<1, 1>>, <<0>>} ELSE {<<>>} :
                   answers' = answers \o title
              /\ obeyed' = Append(obeyed, [method |-> h.method, of |-> h.of, len |-> h.len,
                                           payload |-> SubSeq(wire, 2, n + 1)])
  /\ UNCHANGED <<conn, call, doing, issued, returned, astray, overlapped>>

\* Where it expects a header is a byte of a payload: it takes that for a command, and from
\* then on what is there for whatever follows from it. It may answer.
Stray ==
  /\ wire # <<>>
  /\ astray \/ Head(wire).method = "data"
  /\ astray' = TRUE
  /\ wire' = <<>>
  /\ \E answer \in {<<>>, <<0>>, <<1, 1>>} : answers' = answers \o answer
  /\ UNCHANGED <<conn, call, doing, issued, returned, obeyed, overlapped>>

RawNext ==
  \/ Dial \/ Authenticated \/ Close \/ Obey \/ Stray
  \/ \E c \in Caller : \/ \E r \in Request : Call(c, r)
                       \/ WriteHeader(c) \/ WritePayload(c)
                       \/ ReadLength(c) \/ ReadTitle(c) \/ IOFails(c)

RawSpec == RawInit /\ [][RawNext]_rawVars

-----------------------------------------------------------------------------
(* Properties.                                                             *)

\* Calls that do not overlap and whose payload the length field can count are
\* obeyed as they were made, in their order and with their payload, also the last
\* length that fits, and whatever mix of the two header formats, of commands
\* without a payload and of Wait, whose length counts none (raw.go 77-227).
Obeyed ==
  ~overlapped /\ (\A i \in DOMAIN issued : Fits(issued[i])) =>
    /\ ~astray
    /\ \A i \in DOMAIN obeyed :
         /\ obeyed[i].of = i /\ obeyed[i].method = issued[i][1]
         /\ obeyed[i].payload = PayloadUnits(i, issued[i])

\* Answers stay in step too: without overlap and cut lengths, a title Identify returns is
\* a title, and between calls nothing is left to be read (raw.go 51-61, 154-172).
AnswersOwn ==
  ~overlapped /\ (\A i \in DOMAIN issued : Fits(issued[i])) =>
    /\ \A i \in DOMAIN returned : returned[i] # "garbage"
    /\ conn = "open" /\ (\A c \in Caller : call[c] = 0) => answers = <<>>
==============================================================================
