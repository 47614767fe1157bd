------------------------------ MODULE FTPSession ------------------------------
(***************************************************************************)
(* FTPClient of tools/c64ctl/ftp_client.go and the commands ls, get, put   *)
(* and rm of cmd_ftp.go: a control connection on which every command takes *)
(* the next reply for its own, and a data connection per transfer, after   *)
(* which one more reply is due.                                            *)
(*                                                                         *)
(* The server is external: it answers the commands in order, listens on a  *)
(* new port after each PASV, and ends every transfer with a reply, before  *)
(* or after the client has noticed the end. Replies are their codes.       *)
(***************************************************************************)
EXTENDS Integers, Sequences, SequencesExt

CONSTANTS
  Name,      \* files, on the device and locally
  Pattern,   \* the files a pattern matches
  Jobs,      \* Jobs[t]: what command t is asked to do: pairs of operation and name
  NoFile     \* the name a listing is asked for

Tool == DOMAIN Jobs

\* What each command does: ls lists and put stores; get and rm list what a pattern
\* stands for, and fetch or delete files.
Does(t) == CASE t = "ls" -> {"list"} [] t = "put" -> {"put"}
             [] t = "get" -> {"list", "get"} [] t = "rm" -> {"list", "rm"}
JobsOf(t) == {j \in Does(t) \X (Name \cup {NoFile}) : j[1] = "list" <=> j[2] = NoFile}

ASSUME JobsAssumption ==
  /\ Tool \subseteq {"ls", "get", "put", "rm"}
  /\ \A t \in Tool : Jobs[t] \in Seq(JobsOf(t))
  /\ Pattern \subseteq Name /\ NoFile \notin Name /\ IsFiniteSet(Pattern)

VARIABLES
  tool, todo,        \* the command, and the jobs it has left
  stage,             \* which reply or data the client waits for
  dialed, stream,    \* its data connection: the port, and what has come of it
  local, remote,     \* files: "none", "part" or "whole"
  reports,           \* what it has printed: operation, name, what was transferred
  broken,            \* history: a transfer was broken off
  cmds, replies,     \* the control connection
  lost,              \* it is dead
  port, ports,       \* the server's listener (0: none) and how many it has had
  serving            \* the transfer it is busy with

clientVars == <<tool, todo, stage, dialed, stream, local, reports, broken>>
serverVars == <<remote, port, ports, serving>>
ftpVars == <<clientVars, serverVars, cmds, replies, lost>>

Job == Head(todo)
Idle == <<"idle", NoFile>>

FtpInit ==
  /\ tool \in Tool
  /\ todo = Jobs[tool]
  /\ stage = "greeting"
  /\ dialed = 0 /\ stream = "none"
  /\ local = [n \in Name |-> "none"]
  /\ remote \in [Name -> {"none", "whole"}]
  /\ reports = {}
  /\ broken = FALSE
  /\ cmds = <<>> /\ replies \in {<<<<220, 0>>>>, <<<<421, 0>>>>}
  /\ lost = FALSE
  /\ port = 0 /\ ports = 0
  /\ serving = Idle

-----------------------------------------------------------------------------
(* The client.                                                             *)

Code == Head(replies)[1]
Took == replies # <<>> /\ replies' = Tail(replies)

\* fmt.Fprintf of a command; the connection may have died.
Send(c, wait) == ~lost /\ cmds' = Append(cmds, c) /\ stage' = wait

\* The files a pattern stands for: what the listing shows of it.
Matched == SetToSeq({<<tool, n>> : n \in {m \in Pattern : remote[m] # "none"}})

\* What each command does after a job: ls reports the error and goes on with its
\* next argument, the others end at the first error.
LsGoesOn == Tail(todo)
PutGoesOn(ok) == IF ok THEN Tail(todo) ELSE <<>>
GetGoesOn(ok) == IF ~ok THEN <<>> ELSE IF Job[1] = "list" THEN Matched \o Tail(todo) ELSE Tail(todo)
RmGoesOn(ok) == IF ~ok THEN <<>> ELSE IF Job[1] = "list" THEN Matched \o Tail(todo) ELSE Tail(todo)

\* downloadSingleFile removes what a failed download has left.
Downloaded(ok) == [local EXCEPT ![Job[2]] = IF ok THEN stream ELSE "none"]

JobOver(ok) ==
  /\ stage' = "idle"
  /\ todo' = CASE tool = "ls" -> LsGoesOn
               [] tool = "put" -> PutGoesOn(ok)
               [] tool = "get" -> GetGoesOn(ok)
               [] tool = "rm" -> RmGoesOn(ok)
  /\ local' = IF Job[1] = "get" THEN Downloaded(ok) ELSE local
  /\ reports' = IF ok THEN reports \cup {<<Job[1], Job[2], stream>>} ELSE reports
  /\ dialed' = 0 /\ stream' = "none"
  /\ UNCHANGED tool

Stay == UNCHANGED <<tool, todo, local, reports, dialed, stream>>

\* newFTPClient: greeting, USER, PASS if asked, TYPE I whatever the answer.
Greeting ==
  /\ stage = "greeting" /\ Took
  /\ IF Code = 220 THEN Send(<<"USER", NoFile>>, "user") ELSE stage' = "closed" /\ UNCHANGED cmds
  /\ Stay /\ UNCHANGED <<broken, serverVars, lost>>

Login ==
  /\ stage \in {"user", "pass"} /\ Took
  /\ CASE stage = "user" /\ Code = 331 -> Send(<<"PASS", NoFile>>, "pass")
       [] Code \in {230, 200} -> Send(<<"TYPE", NoFile>>, "type")
       [] OTHER -> stage' = "closed" /\ UNCHANGED cmds
  /\ Stay /\ UNCHANGED <<broken, serverVars, lost>>

TypeSet ==
  /\ stage = "type" /\ Took
  /\ stage' = "idle"
  /\ Stay /\ UNCHANGED <<broken, serverVars, cmds, lost>>

\* The next job begins with PASV, or DELE; a download creates its file first.
StartJob ==
  /\ stage = "idle" /\ todo # <<>>
  /\ IF Job[1] = "rm" THEN Send(<<"DELE", Job[2]>>, "deleted") ELSE Send(<<"PASV", NoFile>>, "passive")
  /\ local' = IF Job[1] = "get" THEN [local EXCEPT ![Job[2]] = "part"] ELSE local
  /\ UNCHANGED <<tool, todo, reports, dialed, stream, broken, serverVars, replies, lost>>

\* pasv: the data connection, to the port the reply names.
Passive ==
  /\ stage = "passive" /\ Took
  /\ \/ /\ Code = 227 /\ Head(replies)[2] = port
        /\ Send(<<Job[1], Job[2]>>, "opening")
        /\ dialed' = port /\ stream' = "open"
        /\ UNCHANGED <<tool, todo, local, reports>>
     \/ JobOver(FALSE) /\ UNCHANGED cmds
  /\ UNCHANGED <<broken, serverVars, lost>>

\* Mutant of Opening: the answer to LIST, RETR or STOR is not looked at.
OpeningAnyway ==
  /\ stage = "opening" /\ Took
  /\ stage' = "data"
  /\ Stay /\ UNCHANGED <<broken, serverVars, cmds, lost>>

Opening ==
  /\ stage = "opening" /\ Took
  /\ IF Code \in {150, 125} THEN stage' = "data" /\ Stay ELSE JobOver(FALSE)
  /\ UNCHANGED <<broken, serverVars, cmds, lost>>

\* Mutant of Receive: the reply to the end of a transfer is not read.
ReceiveOnly ==
  /\ stage = "data" /\ Job[1] \in {"list", "get"}
  /\ stream \in {"whole", "part"}
  /\ JobOver(TRUE)
  /\ UNCHANGED <<broken, serverVars, cmds, replies, lost>>

\* io.Copy and the scanner: the data ends, or the transfer breaks off (a reset, a
\* line too long for the scanner, a local file that cannot be read or written),
\* and then the reply to it is not waited for.
Receive ==
  /\ stage = "data" /\ Job[1] \in {"list", "get"}
  /\ stream \in {"whole", "part"}
  /\ stage' = "completed"
  /\ Stay /\ UNCHANGED <<broken, serverVars, cmds, replies, lost>>

Upload ==
  /\ stage = "data" /\ Job[1] = "put"
  /\ stream = "open"
  /\ stream' = "whole"
  /\ stage' = "completed"
  /\ UNCHANGED <<tool, todo, local, reports, dialed, broken, serverVars, cmds, replies, lost>>

BreakOff ==
  /\ stage = "data"
  /\ broken' = TRUE
  /\ JobOver(FALSE)
  /\ UNCHANGED <<serverVars, cmds, replies, lost>>

\* Mutant of Completed: the code of the last reply is not looked at.
CompletedAnyway ==
  /\ stage = "completed" /\ Took
  /\ JobOver(TRUE)
  /\ UNCHANGED <<broken, serverVars, cmds, lost>>

Completed ==
  /\ stage = "completed" /\ Took
  /\ JobOver(Code \in {226, 250})
  /\ UNCHANGED <<broken, serverVars, cmds, lost>>

Deleted ==
  /\ stage = "deleted" /\ Took
  /\ JobOver(Code \in {250, 200})
  /\ UNCHANGED <<broken, serverVars, cmds, lost>>

\* Close: QUIT, whose reply may be another's.
Quit ==
  /\ stage = "idle" /\ todo = <<>>
  /\ Send(<<"QUIT", NoFile>>, "quitting")
  /\ Stay /\ UNCHANGED <<broken, serverVars, replies, lost>>

Closed ==
  /\ stage = "quitting" /\ Took
  /\ stage' = "closed"
  /\ Stay /\ UNCHANGED <<broken, serverVars, cmds, lost>>

\* A read or a write on a dead connection.
ControlFails ==
  /\ lost /\ stage \notin {"data", "closed"}
  /\ IF stage \in {"passive", "opening", "completed", "deleted"} \/ (stage = "idle" /\ todo # <<>>)
     THEN JobOver(FALSE)
     ELSE stage' = (IF stage = "type" THEN "idle" ELSE "closed") /\ Stay
  /\ UNCHANGED <<broken, serverVars, cmds, replies, lost>>

Client == \/ Greeting \/ Login \/ TypeSet \/ StartJob \/ Passive \/ Opening \/ Receive
          \/ Upload \/ Completed \/ Deleted \/ Quit \/ Closed \/ ControlFails

-----------------------------------------------------------------------------
(* The server (external).                                                  *)

Reply(r) == replies' = Append(replies, r)
Next1(c) == serving = Idle /\ cmds # <<>> /\ Head(cmds) = c /\ cmds' = Tail(cmds) /\ ~lost

Answer(c, codes) ==
  /\ Next1(c)
  /\ \E code \in codes : Reply(<<code, 0>>)
  /\ UNCHANGED <<clientVars, serverVars, lost>>

ServePasv ==
  /\ Next1(<<"PASV", NoFile>>)
  /\ ports' = ports + 1
  /\ \/ port' = ports' /\ Reply(<<227, ports'>>)
     \/ port' = 0 /\ Reply(<<425, 0>>)
  /\ UNCHANGED <<clientVars, remote, serving, lost>>

ServeDele(n) ==
  /\ Next1(<<"DELE", n>>)
  /\ \/ remote' = [remote EXCEPT ![n] = "none"] /\ Reply(<<250, 0>>)
     \/ Reply(<<550, 0>>) /\ UNCHANGED remote
  /\ UNCHANGED <<clientVars, port, ports, serving, lost>>

ServeTransfer(op, n) ==
  /\ Next1(<<op, n>>)
  /\ \/ /\ dialed = port /\ port # 0
        /\ op = "get" => remote[n] # "none"
        /\ serving' = <<op, n>> /\ port' = 0
        /\ remote' = IF op = "put" THEN [remote EXCEPT ![n] = "part"] ELSE remote
        /\ Reply(<<150, 0>>)
     \/ Reply(<<550, 0>>) /\ UNCHANGED <<remote, serving, port>>
  /\ UNCHANGED <<clientVars, ports, lost>>

\* The end of a transfer: in full, cut short, or with the client gone.
EndTransfer(how, code) ==
  /\ serving # Idle
  /\ serving' = Idle
  /\ IF serving[1] = "put"
     THEN /\ (dialed # 0 /\ code = 226) => stream = "whole"
          /\ remote' = IF dialed # 0 /\ code = 226 THEN [remote EXCEPT ![serving[2]] = how]
                       ELSE remote
          /\ UNCHANGED stream
     ELSE /\ stream' = IF dialed # 0 THEN how ELSE stream
          /\ UNCHANGED remote
  /\ (code = 226 /\ dialed # 0) <=> how = "whole"
  /\ IF lost THEN UNCHANGED replies ELSE Reply(<<code, 0>>)
  /\ UNCHANGED <<tool, todo, stage, dialed, local, reports, broken, port, ports, cmds, lost>>

Server ==
  \/ Answer(<<"USER", NoFile>>, {230, 331, 530}) \/ Answer(<<"PASS", NoFile>>, {230, 530})
  \/ Answer(<<"TYPE", NoFile>>, {200, 500}) \/ Answer(<<"QUIT", NoFile>>, {221})
  \/ ServePasv
  \/ \E n \in Name : ServeDele(n)
  \/ \E op \in {"list", "get", "put"}, n \in Name \cup {NoFile} : ServeTransfer(op, n)
  \/ \E how \in {"whole", "part", "reset"}, code \in {226, 426} : EndTransfer(how, code)

Lose == ~lost /\ stage # "closed" /\ lost' = TRUE
        /\ UNCHANGED <<clientVars, serverVars, cmds, replies>>

FtpNext == Client \/ BreakOff \/ Server \/ Lose

\* The client goes on as long as it can; data moves only while the server reads or sends
\* it, and a reset ends it. After its greeting the server may fall silent at any point.
FtpFair == /\ WF_ftpVars(Client /\ (stage = "data" => serving = Idle))
           /\ WF_ftpVars(stream = "reset" /\ BreakOff)

FtpSpec == FtpInit /\ [][FtpNext]_ftpVars

-----------------------------------------------------------------------------
(* Properties.                                                             *)

\* The client and the server stay in step: unless a transfer was broken off or the
\* connection died, no reply is left over between two jobs, however they ended
\* (ftp_client.go 130-303).
InStep ==
  stage = "idle" /\ ~broken /\ ~lost => cmds = <<>> /\ replies = <<>> /\ serving = Idle

\* What is reported is true, even out of step: listings are whole and their own, a
\* downloaded file is whole here, an uploaded one there, a deleted one is gone;
\* and no download that failed leaves a file (ftp_client.go 181-303,
\* cmd_ftp.go 261-279, 300-331).
ReportsTrue ==
  /\ \A r \in reports :
       CASE r[1] = "list" -> r[3] = "whole"
         [] r[1] = "get" -> local[r[2]] = "whole"
         [] r[1] = "put" -> remote[r[2]] = "whole"
         [] r[1] = "rm" -> remote[r[2]] = "none"
  /\ \A n \in Name : local[n] = "part" => todo # <<>> /\ Job = <<"get", n>> /\ stage # "idle"

\* What it takes for that to stay true of files: get and put name each file once. A
\* get that names one twice may report it, fail on it and remove it.
Files(j) == IF j[1] = "list" THEN Pattern ELSE {j[2]}
Once(s) == \A i, k \in 1 .. Len(s) : i # k => Files(s[i]) \cap Files(s[k]) = {}
NamedOnce == \A t \in Tool \cap {"get", "put"} : Once(Jobs[t])

\* The server has a command to answer or a transfer to end.
Owes == cmds # <<>> \/ serving # Idle

\* No read or write has a deadline (ftp_client.go 79-303), so a silent server keeps the
\* client for ever. But only that does: every command ends unless the server owes it
\* something from some time on. No stale reply, refusal, reset or lost connection makes
\* the client wait for a reply or for data that nobody is to send.
CommandEnds == <>(stage = "closed") \/ <>[]Owes
==============================================================================
