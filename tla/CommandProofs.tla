---------------------------- MODULE CommandProofs ----------------------------
(***************************************************************************)
(* Proofs about what commands of c64ctl hold with the world outside: the   *)
(* FTP session (FTPSession), for all jobs on any files; the run of a disk  *)
(* image over HTTP (Device), whatever the device refuses or loses; and the *)
(* index (SearchIndex), for every set of processes, every collection and   *)
(* every search: what a search answers, and what is in the file when the   *)
(* writes of several builds have met in it.                                *)
(***************************************************************************)
EXTENDS FTPSession, Device, SearchIndex, FiniteSetTheorems, SequenceTheorems,
        WellFoundedInduction, TLAPS

-----------------------------------------------------------------------------
(* FTP: what is under way on the control connection, by what the client    *)
(* waits for. A transfer has two replies, the first of which says whether  *)
(* there is a second.                                                      *)

Transfers == {"list", "get", "put"}
Opens == {150, 125}

One(s) == \E x : s = <<x>>
Two(s) == \E x, y : s = <<x, y>>

Quiet == serving = Idle /\ cmds = <<>> /\ replies = <<>>
Asking == serving = Idle /\ One(cmds) /\ replies = <<>>
Replied == serving = Idle /\ cmds = <<>> /\ One(replies)
Begun == serving # Idle /\ cmds = <<>> /\ One(replies) /\ Code \in Opens
BegunAndOver == serving = Idle /\ cmds = <<>> /\ Two(replies) /\ Code \in Opens
Moving == serving # Idle /\ cmds = <<>> /\ replies = <<>>

OneReply == {"greeting", "user", "pass", "type", "passive", "deleted", "quitting"}

Orderly ==
  /\ stage = "idle" => Quiet
  /\ stage \in OneReply => Replied \/ (Asking /\ Head(cmds)[1] \notin Transfers)
  /\ stage = "opening" => Asking \/ (Replied /\ Code \notin Opens) \/ Begun \/ BegunAndOver
  /\ stage \in {"data", "completed"} => Moving \/ Replied

InOrder == ~broken /\ ~lost => Orderly

LEMMA AppendedToOne ==
  ASSUME NEW S, NEW x \in S, NEW y \in S
  PROVE  Append(<<x>>, y) = <<x, y>>
<1>1. PICK s \in Seq(S) : s = <<x>> /\ Len(s) = 1 /\ s[1] = x
  <2>1. <<x>> \in Seq(S) /\ Len(<<x>>) = 1 /\ <<x>>[1] = x
    OBVIOUS
  <2> QED
    BY <2>1, Zenon
<1>2. PICK l \in Nat : l = Len(s)
  BY <1>1
<1>3. PICK a \in Seq(S) : a = Append(s, y) /\ Len(a) = l + 1
  BY <1>2, AppendProperties
<1>4. a[l + 1] = y /\ \A k \in 1 .. l : a[k] = s[k]
  BY <1>2, <1>3, AppendProperties
<1>5. Len(a) = 2 /\ a[1] = x /\ a[2] = y
  BY <1>1, <1>2, <1>3, <1>4
<1>6. PICK t \in Seq(S) : t = <<x, y>> /\ Len(t) = 2 /\ t[1] = x /\ t[2] = y
  <2>1. /\ <<x, y>> \in Seq(S) /\ Len(<<x, y>>) = 2
        /\ <<x, y>>[1] = x /\ <<x, y>>[2] = y
    OBVIOUS
  <2> QED
    BY <2>1, Zenon
<1>7. \A i \in 1 .. Len(a) : a[i] = t[i]
  BY <1>5, <1>6
<1>8. a = t
  BY <1>5, <1>6, <1>7, SeqEqual
<1> QED
  BY <1>1, <1>3, <1>6, <1>8

LEMMA Lists ==
  ASSUME NEW x, NEW y
  PROVE  /\ Append(<<>>, x) = <<x>> /\ Append(<<x>>, y) = <<x, y>>
         /\ Head(<<x>>) = x /\ Tail(<<x>>) = <<>> /\ <<x>> # <<>>
         /\ Head(<<x, y>>) = x /\ Tail(<<x, y>>) = <<y>> /\ <<x, y>> # <<>>
<1>1. Append(<<>>, x) = <<x>>
  OBVIOUS
<1>2. Append(<<x>>, y) = <<x, y>>
  BY x \in {x, y}, y \in {x, y}, AppendedToOne
<1>3. Head(<<x>>) = x /\ <<x>> # <<>> /\ Head(<<x, y>>) = x /\ <<x, y>> # <<>>
  OBVIOUS
<1>4. Tail(<<x>>) = <<>>
  OBVIOUS
<1>5. Tail(<<x, y>>) = <<y>>
  OBVIOUS
<1> QED
  BY <1>1, <1>2, <1>3, <1>4, <1>5

\* A client that takes the only reply and sends the next command, or none.
LEMMA SentNext ==
  ASSUME NEW c, NEW wait, Replied, Took, serving' = serving, Send(c, wait)
  PROVE  stage' = wait /\ Asking' /\ Head(cmds)' = c
<1>1. PICK x : replies = <<x>>
  BY DEF Replied, One
<1>2. cmds' = <<c>> /\ replies' = <<>>
  BY <1>1, Lists DEF Replied, Took, Send
<1> QED
  BY <1>2, Lists DEF Replied, Asking, Send, One, Idle

LEMMA TookLast ==
  ASSUME Replied, Took, serving' = serving, cmds' = cmds
  PROVE  Quiet'
<1>1. PICK x : replies = <<x>>
  BY DEF Replied, One
<1> QED
  BY <1>1, Lists DEF Replied, Took, Quiet, Idle

\* The server takes the command that waits.
LEMMA Served ==
  ASSUME Orderly, NEW c, Next1(c), UNCHANGED stage,
         stage \in OneReply \cup {"idle", "opening", "data", "completed"}
  PROVE  /\ cmds' = <<>> /\ replies = <<>> /\ Asking
         /\ stage \in OneReply => c[1] \notin Transfers
         /\ stage \in OneReply \cup {"opening"}
<1>1. cmds # <<>> /\ Head(cmds) = c /\ cmds' = Tail(cmds)
  BY DEF Next1
<1>2. Asking /\ stage \in OneReply \cup {"opening"}
  BY <1>1 DEF Orderly, Quiet, Replied, Begun, BegunAndOver, Moving
<1>3. PICK x : cmds = <<x>>
  BY <1>2 DEF Asking, One
<1>4. stage \in OneReply => c[1] \notin Transfers
  BY <1>1 DEF Orderly, Replied
<1> QED
  BY <1>1, <1>2, <1>3, <1>4, Lists DEF Asking

LEMMA Rest ==
  ASSUME Orderly, stage' = stage,
         stage \notin OneReply \cup {"idle", "opening", "data", "completed"}
  PROVE  Orderly'
  BY DEF Orderly, OneReply

-----------------------------------------------------------------------------
(* The client.                                                             *)

LEMMA ClientInOrder ==
  ASSUME Orderly, Client, ~lost
  PROVE  Orderly'
<1>1. ASSUME NEW c, NEW wait, wait \in OneReply, Replied, Took, serving' = serving,
             c[1] \notin Transfers, Send(c, wait)
      PROVE  Orderly'
  <2>1. stage' = wait /\ Asking' /\ Head(cmds)' = c
    BY <1>1, SentNext
  <2> QED
    BY <1>1, <2>1 DEF Orderly, OneReply
<1>2. ASSUME stage' = "idle", Quiet' PROVE Orderly'
  BY <1>2 DEF Orderly, OneReply
<1>3. ASSUME stage' = "closed" PROVE Orderly'
  BY <1>3 DEF Orderly, OneReply
<1>4. ASSUME Took, stage \in OneReply, UNCHANGED serving PROVE Replied
  BY <1>4 DEF Orderly, OneReply, Took, Asking
<1>5. ASSUME NEW ok, JobOver(ok) PROVE stage' = "idle"
  BY <1>5 DEF JobOver
<1>6. CASE Greeting
  <2>1. Replied /\ Took /\ serving' = serving
    BY <1>4, <1>6 DEF Greeting, serverVars, OneReply
  <2> QED
    BY <1>1, <1>3, <1>6, <2>1 DEF Greeting, OneReply, Transfers
<1>7. CASE Login
  <2>1. Replied /\ Took /\ serving' = serving
    BY <1>4, <1>7 DEF Login, serverVars, OneReply
  <2> QED
    BY <1>1, <1>3, <1>7, <2>1 DEF Login, OneReply, Transfers
<1>8. CASE TypeSet
  <2>1. Replied /\ Took /\ serving' = serving /\ cmds' = cmds /\ stage' = "idle"
    BY <1>4, <1>8 DEF TypeSet, serverVars, OneReply
  <2> QED
    BY <1>2, <2>1, TookLast
<1>9. CASE StartJob
  <2>1. Quiet /\ serving' = serving /\ replies' = replies
    BY <1>9 DEF StartJob, Orderly, serverVars
  <2>2. PICK c, wait : Send(c, wait) /\ wait \in {"passive", "deleted"} /\ c[1] \notin Transfers
    BY <1>9 DEF StartJob, Transfers
  <2>3. stage' = wait /\ Asking' /\ Head(cmds)' = c
    <3>1. cmds' = <<c>>
      BY <2>1, <2>2, Lists DEF Send, Quiet
    <3> QED
      BY <2>1, <2>2, <3>1, Lists DEF Send, Quiet, Asking, One, Idle
  <2> QED
    BY <2>2, <2>3 DEF Orderly, OneReply
<1>10. CASE Passive
  <2>1. Replied /\ Took /\ serving' = serving
    BY <1>4, <1>10 DEF Passive, serverVars, OneReply
  <2>2. CASE Send(<<Job[1], Job[2]>>, "opening")
    <3>1. stage' = "opening" /\ Asking'
      BY <2>1, <2>2, SentNext
    <3> QED
      BY <3>1 DEF Orderly, OneReply
  <2>3. CASE JobOver(FALSE) /\ UNCHANGED cmds
    BY <1>2, <1>5, <2>1, <2>3, TookLast
  <2> QED
    BY <1>10, <2>2, <2>3 DEF Passive
<1>11. CASE Opening
  <2>1. stage = "opening" /\ Took /\ serving' = serving /\ cmds' = cmds
    BY <1>11 DEF Opening, serverVars
  <2>2. CASE Code \in Opens
    <3>1. stage' = "data"
      BY <1>11, <2>2 DEF Opening, Opens
    <3>2. Begun \/ BegunAndOver
      BY <2>1, <2>2 DEF Orderly, OneReply, Took, Asking
    <3>3. Moving' \/ Replied'
      <4>1. CASE Begun
        <5>1. PICK x : replies = <<x>>
          BY <4>1 DEF Begun, One
        <5> QED
          BY <2>1, <4>1, <5>1, Lists DEF Begun, Took, Moving, Idle
      <4>2. CASE BegunAndOver
        <5>1. PICK x, y : replies = <<x, y>>
          BY <4>2 DEF BegunAndOver, Two
        <5> QED
          BY <2>1, <4>2, <5>1, Lists DEF BegunAndOver, Took, Replied, One, Idle
      <4> QED
        BY <3>2, <4>1, <4>2
    <3> QED
      BY <3>1, <3>3 DEF Orderly, OneReply
  <2>3. CASE Code \notin Opens
    <3>1. JobOver(FALSE)
      BY <1>11, <2>3 DEF Opening, Opens
    <3>2. Replied
      BY <2>1, <2>3 DEF Orderly, Took, Asking, Begun, BegunAndOver
    <3> QED
      BY <1>2, <1>5, <2>1, <3>1, <3>2, TookLast
  <2> QED
    BY <2>2, <2>3
<1>12. CASE Receive \/ Upload
  <2>1. /\ stage = "data" /\ stage' = "completed" /\ serving' = serving
        /\ cmds' = cmds /\ replies' = replies
    BY <1>12 DEF Receive, Upload, serverVars
  <2> QED
    BY <2>1 DEF Orderly, OneReply, Moving, Replied, One, Idle
<1>13. CASE Completed
  <2>1. stage = "completed" /\ Took /\ serving' = serving /\ cmds' = cmds /\ stage' = "idle"
    BY <1>5, <1>13 DEF Completed, serverVars
  <2>2. Replied
    BY <2>1 DEF Orderly, Took, Moving
  <2> QED
    BY <1>2, <2>1, <2>2, TookLast
<1>14. CASE Deleted
  <2>1. Replied /\ Took /\ serving' = serving /\ cmds' = cmds /\ stage' = "idle"
    BY <1>4, <1>5, <1>14 DEF Deleted, serverVars, OneReply
  <2> QED
    BY <1>2, <2>1, TookLast
<1>15. CASE Quit
  <2>1. Quiet /\ serving' = serving /\ replies' = replies /\ Send(<<"QUIT", NoFile>>, "quitting")
    BY <1>15 DEF Quit, Orderly, serverVars
  <2>2. cmds' = <<<<"QUIT", NoFile>>>> /\ stage' = "quitting"
    BY <2>1, Lists DEF Send, Quiet
  <2>3. Asking' /\ Head(cmds)' = <<"QUIT", NoFile>>
    BY <2>1, <2>2, Lists DEF Quiet, Asking, One, Idle
  <2> QED
    BY <2>2, <2>3 DEF Orderly, OneReply, Transfers
<1>16. CASE Closed
  BY <1>3, <1>16 DEF Closed
<1>17. CASE ControlFails
  BY <1>17 DEF ControlFails
<1> QED
  BY <1>6, <1>7, <1>8, <1>9, <1>10, <1>11, <1>12, <1>13, <1>14, <1>15, <1>16, <1>17 DEF Client

-----------------------------------------------------------------------------
(* The server.                                                             *)

LEMMA ServerInOrder ==
  ASSUME Orderly, Server, ~lost
  PROVE  Orderly'
<1>0. stage' = stage
  BY DEF Server, Answer, ServePasv, ServeDele, ServeTransfer, EndTransfer, clientVars
<1> SUFFICES ASSUME stage \in OneReply \cup {"idle", "opening", "data", "completed"}
             PROVE  Orderly'
  BY <1>0, Rest
\* One reply that opens nothing.
<1>1. ASSUME NEW c, NEW code, NEW number, Next1(c), Reply(<<code, number>>),
             code \notin Opens, serving' = serving
      PROVE  Orderly'
  <2>1. cmds' = <<>> /\ replies = <<>> /\ Asking /\ stage \in OneReply \cup {"opening"}
    BY <1>0, <1>1, Served
  <2>2. replies' = <<<<code, number>>>>
    BY <1>1, <2>1, Lists DEF Reply
  <2>3. Replied' /\ Code' = code
    BY <1>1, <2>1, <2>2, Lists DEF Replied, One, Asking, Idle, Code
  <2> QED
    BY <1>0, <1>1, <2>1, <2>3 DEF Orderly, OneReply
<1>2. CASE \/ Answer(<<"USER", NoFile>>, {230, 331, 530}) \/ Answer(<<"PASS", NoFile>>, {230, 530})
           \/ Answer(<<"TYPE", NoFile>>, {200, 500}) \/ Answer(<<"QUIT", NoFile>>, {221})
  <2>1. ASSUME NEW c, NEW codes, Answer(c, codes), codes \cap Opens = {} PROVE Orderly'
    <3>1. PICK code \in codes : Reply(<<code, 0>>)
      BY <2>1 DEF Answer
    <3>2. Next1(c) /\ code \notin Opens /\ serving' = serving
      BY <2>1 DEF Answer, serverVars
    <3> QED
      BY <1>1, <3>1, <3>2
  <2> QED
    BY <1>2, <2>1 DEF Opens
<1>3. CASE ServePasv
  <2>1. Next1(<<"PASV", NoFile>>) /\ serving' = serving /\ 227 \notin Opens /\ 425 \notin Opens
    BY <1>3 DEF ServePasv, Opens
  <2>2. Reply(<<227, ports'>>) \/ Reply(<<425, 0>>)
    BY <1>3 DEF ServePasv
  <2> QED
    BY <1>1, <2>1, <2>2
<1>4. ASSUME NEW n \in Name, ServeDele(n) PROVE Orderly'
  <2>1. PICK c, code : Next1(c) /\ Reply(<<code, 0>>) /\ code \notin Opens /\ serving' = serving
    BY <1>4 DEF ServeDele, Opens
  <2> QED
    BY <1>1, <2>1
<1>5. ASSUME NEW op \in Transfers, NEW n \in Name \cup {NoFile}, ServeTransfer(op, n) PROVE Orderly'
  <2>1. CASE Reply(<<550, 0>>) /\ UNCHANGED <<remote, serving, port>>
    <3>1. Next1(<<op, n>>) /\ 550 \notin Opens
      BY <1>5 DEF ServeTransfer, Opens
    <3> QED
      BY <1>1, <2>1, <3>1
  <2>2. CASE serving' = <<op, n>> /\ Reply(<<150, 0>>)
    <3>1. Next1(<<op, n>>)
      BY <1>5 DEF ServeTransfer
    <3>2. cmds' = <<>> /\ replies = <<>> /\ stage = "opening"
      BY <1>0, <3>1, Served
    <3>3. replies' = <<<<150, 0>>>>
      BY <2>2, <3>2, Lists DEF Reply
    <3>4. Code' = 150 /\ One(replies')
      BY <3>3, Lists DEF Code, One
    <3>5. serving' # Idle
      BY <2>2 DEF Idle, Transfers
    <3>6. Begun'
      BY <3>2, <3>4, <3>5 DEF Begun, Opens, Idle
    <3> QED
      BY <1>0, <3>2, <3>6 DEF Orderly, OneReply
  <2> QED
    BY <1>5, <2>1, <2>2 DEF ServeTransfer
<1>6. ASSUME NEW how, NEW code, EndTransfer(how, code) PROVE Orderly'
  <2>1. serving # Idle /\ serving' = Idle /\ cmds' = cmds /\ Reply(<<code, 0>>)
    BY <1>6 DEF EndTransfer
  <2>2. CASE Moving
    <3>1. replies' = <<<<code, 0>>>>
      BY <2>1, <2>2, Lists DEF Moving, Reply
    <3>2. Replied'
      BY <2>1, <2>2, <3>1 DEF Moving, Replied, One, Idle
    <3>3. stage \in {"data", "completed"}
      BY <2>1, <2>2, Lists DEF Orderly, Quiet, Replied, Asking, Begun, One, BegunAndOver, Moving
    <3> QED
      BY <1>0, <3>2, <3>3 DEF Orderly, OneReply
  <2>3. CASE Begun /\ stage = "opening"
    <3>1. PICK x : replies = <<x>>
      BY <2>3 DEF Begun, One
    <3>2. replies' = <<x, <<code, 0>>>>
      BY <2>1, <3>1, Lists DEF Reply
    <3>3. Code' = x[1] /\ Code = x[1]
      BY <3>1, <3>2, Lists DEF Code
    <3>4. BegunAndOver'
      BY <2>1, <2>3, <3>2, <3>3 DEF Begun, BegunAndOver, Two, Idle
    <3> QED
      BY <1>0, <2>3, <3>4 DEF Orderly, OneReply
  <2>4. Moving \/ (Begun /\ stage = "opening")
    BY <2>1 DEF Orderly, Quiet, Replied, Asking, BegunAndOver
  <2> QED
    BY <2>2, <2>3, <2>4
<1> QED
  BY <1>2, <1>3, <1>4, <1>5, <1>6 DEF Server, Transfers

LEMMA InOrderInit == FtpInit => InOrder
<1> SUFFICES ASSUME FtpInit PROVE Replied /\ stage = "greeting"
  BY DEF InOrder, Orderly, OneReply
<1> QED
  BY DEF FtpInit, Replied, One

LEMMA InOrderStep == InOrder /\ [FtpNext]_ftpVars => InOrder'
<1> SUFFICES ASSUME InOrder, [FtpNext]_ftpVars, ~broken', ~lost' PROVE Orderly'
  BY DEF InOrder
<1>1. CASE Client
  <2>1. broken' = broken /\ lost' = lost
    BY <1>1 DEF Client, Greeting, Login, TypeSet, StartJob, Passive, Opening, Receive, Upload,
                Completed, Deleted, Quit, Closed, ControlFails
  <2>2. ~broken /\ ~lost
    BY <2>1
  <2> QED
    BY <1>1, <2>2, ClientInOrder DEF InOrder
<1>2. CASE BreakOff
  BY <1>2 DEF BreakOff
<1>3. CASE Server
  <2>1. broken' = broken /\ lost' = lost
    BY <1>3 DEF Server, Answer, ServePasv, ServeDele, ServeTransfer, EndTransfer, clientVars
  <2>2. ~broken /\ ~lost
    BY <2>1
  <2> QED
    BY <1>3, <2>2, ServerInOrder DEF InOrder
<1>4. CASE Lose
  BY <1>4 DEF Lose
<1>5. CASE UNCHANGED ftpVars
  <2>1. ~broken /\ ~lost
    BY <1>5 DEF ftpVars, clientVars
  <2> QED
    BY <1>5, <2>1 DEF InOrder, Orderly, OneReply, Quiet, Asking, Replied, Begun, BegunAndOver,
                      Moving, One, Two, Code, ftpVars, clientVars, serverVars, Idle
<1> QED
  BY <1>1, <1>2, <1>3, <1>4, <1>5 DEF FtpNext

\* The client and the server stay in step: after a job that ended in any way but a
\* transfer broken off, no command, reply or transfer is left over that the next job
\* could take for its own, whatever the server refuses and whenever its second reply
\* comes (ftp_client.go 130-303).
THEOREM StaysInStep == FtpSpec => []InStep
<1>1. InOrder => InStep
  BY DEF InOrder, Orderly, Quiet, InStep
<1> QED
  BY <1>1, InOrderInit, InOrderStep, PTL DEF FtpSpec

-----------------------------------------------------------------------------
(* FTP: what is reported is true. After a transfer broken off there is     *)
(* one reply too many for the rest of the session: a job may dial the port *)
(* that an earlier reply names, but its PASV is served before its command, *)
(* and moves the port. So whatever transfers is in step.                   *)

Said(t) ==
  {<<c, NoFile>> : c \in {"USER", "PASS", "TYPE", "PASV", "QUIT"}}
    \cup {j \in JobsOf(t) : j[1] \in Transfers}
    \cup {<<"DELE", j[2]>> : j \in {k \in JobsOf(t) : k[1] = "rm"}}

Pasv == <<"PASV", NoFile>>
Free == serving = Idle
NoMore == Free /\ cmds = <<>>

Codes == {150, 200, 220, 221, 226, 227, 230, 250, 331, 421, 425, 426, 500, 530, 550}
Answers == {r \in Codes \X (0 .. ports) : r[1] = 227 => r[2] # 0}
PasvReply(r) == \/ r = <<227, ports>> /\ port = ports /\ ports # 0
                \/ r = <<425, 0>> /\ port = 0

\* What the last reply to a transfer says of it.
Outcome(code) ==
  code = 226 => stream = "whole" /\ (Job[1] = "put" => remote[Job[2]] = "whole")

\* In step: a transfer that is moving or has ended, the answer to the command for it,
\* the answer to PASV, and to DELE.
Busy ==
  /\ cmds = <<>> /\ ~broken /\ dialed # 0
  /\ \/ serving = Job /\ replies = <<>>
     \/ Free /\ \E code \in {226, 426} : replies = <<<<code, 0>>>> /\ Outcome(code)
     \/ Free /\ lost /\ replies = <<>>
Opened ==
  \/ Free /\ cmds = <<Job>> /\ replies = <<>>
  \/ NoMore /\ replies = <<<<550, 0>>>>
  \/ /\ cmds = <<>> /\ dialed # 0
     /\ \/ serving = Job /\ replies = <<<<150, 0>>>>
        \/ Free /\ \E code \in {226, 426} : replies = <<<<150, 0>>, <<code, 0>>>> /\ Outcome(code)
        \/ Free /\ lost /\ replies = <<<<150, 0>>>>
PasvOwn ==
  \/ Free /\ cmds = <<Pasv>> /\ replies = <<>>
  \/ NoMore /\ \E r \in Answers : replies = <<r>> /\ PasvReply(r)
Deleting ==
  /\ ~broken
  /\ \/ Free /\ cmds = <<<<"DELE", Job[2]>>>> /\ replies = <<>>
     \/ NoMore /\ replies = <<<<250, 0>>>> /\ remote[Job[2]] = "none"
     \/ NoMore /\ replies = <<<<550, 0>>>>

\* Out of step: one reply more is due, or is there.
OneDue ==
  \/ serving # Idle /\ cmds = <<>> /\ replies = <<>>
  \/ Free /\ (\E c \in Said(tool) : cmds = <<c>>) /\ replies = <<>>
  \/ NoMore /\ \E r \in Answers : replies = <<r>> /\ r[1] # 150
PasvDue ==
  \/ serving # Idle /\ cmds = <<Pasv>> /\ replies = <<>>
  \/ Free /\ (\E c \in Said(tool) : cmds = <<c, Pasv>>) /\ replies = <<>>
  \/ Free /\ cmds = <<Pasv>> /\ \E r \in Answers : replies = <<r>> /\ r[1] # 150
  \/ NoMore /\ \E r, q \in Answers : /\ replies = <<r, q>> /\ PasvReply(q)
                                     /\ r[1] # 150 /\ (r[1] = 227 => r[2] # ports)
Doomed ==
  \/ Free /\ cmds = <<Pasv, Job>> /\ replies = <<>> /\ dialed \in 0 .. ports
  \/ /\ Free /\ cmds = <<Job>> /\ (dialed = port => port = 0)
     /\ \E r \in Answers : replies = <<r>> /\ r[1] \in {227, 425}
  \/ NoMore /\ \E r \in Answers : replies = <<r, <<550, 0>>>> /\ r[1] \in {227, 425}

Logging == {"greeting", "user", "pass", "type"}
Working == {"passive", "opening", "data", "completed"}

InShape ==
  /\ stage \in Logging => ~broken
  /\ stage = "idle" /\ ~lost => IF broken THEN OneDue ELSE Quiet
  /\ stage = "passive" /\ ~lost => IF broken THEN PasvDue ELSE PasvOwn
  /\ stage = "opening" => IF broken THEN Doomed ELSE Opened
  /\ stage \in {"data", "completed"} => Busy
  /\ stage = "deleted" => Deleting
  /\ dialed # 0 => stage \in {"opening", "data", "completed"}
  /\ broken => tool = "ls" \/ todo = <<>>
  /\ stage \in Working \cup {"deleted"} => todo # <<>> /\ (Job[1] = "rm" <=> stage = "deleted")
  /\ ports \in Nat /\ port \in 0 .. ports

Progress == {"none", "open", "part", "whole", "reset"}

InTypes ==
  /\ tool \in Tool
  /\ todo \in Seq(JobsOf(tool))
  /\ cmds \in Seq(Said(tool))
  /\ serving \in {Idle} \cup {j \in JobsOf(tool) : j[1] \in Transfers}
  /\ remote \in [Name -> Progress] /\ local \in [Name -> Progress]
  /\ stream \in Progress

StillTodo(n) == \E i \in 1 .. Len(todo) : n \in Files(todo[i])

KeptTrue(r) ==
  /\ r[1] \in Does(tool) /\ (r[1] # "list" => r[2] \in Name)
  /\ r[1] = "list" => r[3] = "whole"
  /\ r[1] = "get" => local[r[2]] = "whole" /\ ~StillTodo(r[2])
  /\ r[1] = "put" => remote[r[2]] = "whole" /\ ~StillTodo(r[2]) /\ serving # <<"put", r[2]>>
  /\ r[1] = "rm" => remote[r[2]] = "none"

Kept ==
  /\ tool \in {"get", "put"} => Once(todo)
  /\ \A n \in Name : local[n] = "part" => Job = <<"get", n>> /\ stage \in Working
  /\ \A r \in reports : KeptTrue(r)

-----------------------------------------------------------------------------
(* Jobs.                                                                   *)

LEMMA JobKinds ==
  ASSUME NEW t \in Tool, NEW j \in JobsOf(t)
  PROVE  /\ j = <<j[1], j[2]>> /\ j[1] \in Does(t)
         /\ j[1] = "list" \/ (j[1] \in {"get", "put", "rm"} /\ j[2] \in Name)
         /\ j[1] = "list" => j[2] = NoFile
         /\ j[1] = "rm" => t = "rm"
         /\ j[1] = "put" => t = "put"
         /\ j[1] = "get" => t = "get"
         /\ j # Idle
<1>1. t \in {"ls", "get", "put", "rm"}
  BY JobsAssumption
<1>2. j \in Does(t) \X (Name \cup {NoFile}) /\ (j[1] = "list" <=> j[2] = NoFile)
  BY DEF JobsOf
<1>3. j = <<j[1], j[2]>> /\ j[1] \in Does(t) /\ j[2] \in Name \cup {NoFile}
  BY <1>2
<1>4. j[1] \in {"list", "get", "put", "rm"} /\ (j[1] = "rm" => t = "rm")
      /\ (j[1] = "put" => t = "put") /\ (j[1] = "get" => t = "get")
  BY <1>1, <1>3 DEF Does
<1> QED
  BY <1>2, <1>3, <1>4 DEF Idle

\* The files that match, each once.
LEMMA MatchedOnce ==
  ASSUME tool \in {"get", "rm"}
  PROVE  /\ Matched \in Seq(JobsOf(tool))
         /\ \A i \in 1 .. Len(Matched) : Matched[i][1] = tool /\ Matched[i][2] \in Pattern
         /\ \A i, k \in 1 .. Len(Matched) : i # k => Matched[i][2] # Matched[k][2]
<1> DEFINE S == {m \in Pattern : remote[m] # "none"}
           M == {<<tool, n>> : n \in S}
<1>1. IsFiniteSet(S)
  BY JobsAssumption, FS_Subset
<1>2. IsFiniteSet(M)
  <2> DEFINE f == [m \in S |-> <<tool, m>>]
  <2>1. f \in Surjection(S, M)
    <3>1. f \in [S -> M] /\ \A z \in M : \E m \in S : f[m] = z
      OBVIOUS
    <3> HIDE DEF f, S, M
    <3> QED
      BY <3>1 DEF Surjection
  <2> HIDE DEF f, S, M
  <2> QED
    BY <1>1, <2>1, FS_Surjection DEF ExistsSurjection
<1>3. PICK c \in Nat : c = Cardinality(M) /\ ExistsBijection(1 .. c, M)
  <2> HIDE DEF M
  <2> QED
    BY <1>2, FS_CardinalityType
<1>4. \E f \in [1 .. c -> M] : IsInjective(f)
  <2> HIDE DEF M
  <2> QED
    BY <1>3 DEF ExistsBijection, Bijection, Injection, IsInjective
<1>5. Matched \in [1 .. c -> M] /\ IsInjective(Matched)
  <2>1. Matched = SetToSeq(M)
    BY DEF Matched
  <2> HIDE DEF M
  <2> QED
    BY <1>3, <1>4, <2>1 DEF SetToSeq
<1>6. \A z \in M : z \in JobsOf(tool) /\ z[1] = tool /\ z[2] \in Pattern /\ z = <<tool, z[2]>>
  BY JobsAssumption DEF JobsOf, Does
<1>7. DOMAIN Matched = 1 .. c /\ Len(Matched) = c /\ Matched \in Seq(M)
  <2> HIDE DEF M
  <2> QED
    BY <1>5
<1>8. \A i \in 1 .. c : Matched[i] \in M
  BY <1>5
<1>9. Matched \in Seq(JobsOf(tool))
  <2> HIDE DEF M
  <2> QED
    BY <1>5, <1>6, <1>7, <1>8
<1> HIDE DEF M
<1>10. ASSUME NEW i \in 1 .. c, NEW k \in 1 .. c, i # k PROVE Matched[i][2] # Matched[k][2]
  <2>1. Matched[i] # Matched[k]
    BY <1>5, <1>7, <1>10 DEF IsInjective
  <2> QED
    BY <1>6, <1>8, <2>1
<1> QED
  BY <1>6, <1>7, <1>8, <1>9, <1>10

\* What is left to do after a job: the files of the jobs behind it, or some of its own
\* before them.
LEMMA JobsAfter ==
  ASSUME InTypes, todo # <<>>, NEW ok \in BOOLEAN, JobOver(ok)
  PROVE  /\ todo' \in Seq(JobsOf(tool)) /\ tool' = tool
         /\ \A n : ~StillTodo(n) => ~StillTodo(n)'
         /\ Once(todo) => Once(todo')
         /\ Once(todo) /\ Job[1] # "list" => \A n \in {Job[2]} : ~StillTodo(n)'
         /\ ~ok => tool = "ls" \/ todo' = <<>>
<1> DEFINE J == JobsOf(tool)
           rest == Tail(todo)
<1>1. tool \in {"ls", "get", "put", "rm"} /\ tool' = tool
  BY JobsAssumption DEF InTypes, JobOver
<1>2. PICK l \in Nat : l = Len(todo) /\ l > 0
  <2>1. Len(todo) \in Nat /\ Len(todo) > 0
    BY EmptySeq, LenProperties DEF InTypes
  <2> QED
    BY <2>1
<1>3. rest \in Seq(J) /\ Len(rest) = l - 1 /\ \A i \in 1 .. l - 1 : rest[i] = todo[i + 1]
  BY <1>2, HeadTailProperties DEF InTypes
<1>4. Job = todo[1] /\ Job \in J
  BY <1>2, ElementOfSeq DEF Job, InTypes
\* The jobs behind it.
<1>5. ASSUME todo' = rest
      PROVE  /\ todo' \in Seq(J) /\ \A n : ~StillTodo(n) => ~StillTodo(n)'
             /\ Once(todo) => Once(todo')
             /\ Once(todo) /\ Job[1] # "list" => \A n \in {Job[2]} : ~StillTodo(n)'
  <2>0. Len(todo') = l - 1 /\ \A i \in 1 .. l - 1 : todo'[i] = todo[i + 1]
    BY <1>3, <1>5
  <2> HIDE DEF rest
  <2>9. \A i \in 1 .. l - 1 : i + 1 \in 2 .. l /\ i + 1 \in 1 .. l
    BY <1>2
  <2>1. \A n : ~StillTodo(n) => ~StillTodo(n)'
    <3> SUFFICES ASSUME NEW n, NEW i \in 1 .. l - 1, n \in Files(todo'[i])
                 PROVE  \E k \in 1 .. l : n \in Files(todo[k])
      BY <1>2, <2>0 DEF StillTodo
    <3>1. i + 1 \in 1 .. l /\ n \in Files(todo[i + 1])
      BY <2>0, <2>9
    <3> QED
      BY <3>1
  <2>2. Once(todo) => Once(todo')
    <3> SUFFICES ASSUME Once(todo), NEW i \in 1 .. l - 1, NEW k \in 1 .. l - 1, i # k
                 PROVE  Files(todo'[i]) \cap Files(todo'[k]) = {}
      BY <1>2, <2>0 DEF Once
    <3>1. PICK a \in 1 .. l : a = i + 1 /\ todo'[i] = todo[a]
      BY <2>0, <2>9
    <3>2. PICK b \in 1 .. l : b = k + 1 /\ todo'[k] = todo[b]
      BY <2>0, <2>9
    <3>3. a # b
      BY <3>1, <3>2
    <3> QED
      BY <1>2, <3>1, <3>2, <3>3 DEF Once
  <2>3. ASSUME Once(todo), Job[1] # "list", NEW n \in {Job[2]} PROVE ~StillTodo(n)'
    <3>1. Files(todo[1]) = {Job[2]}
      BY <1>4, <2>3 DEF Files
    <3>2. \A k \in 2 .. l : Files(todo[1]) \cap Files(todo[k]) = {}
      BY <1>2, <2>3 DEF Once
    <3>3. ASSUME NEW i \in 1 .. l - 1 PROVE Job[2] \notin Files(todo'[i])
      <4>1. i + 1 \in 2 .. l /\ todo'[i] = todo[i + 1]
        BY <2>0, <2>9
      <4> QED
        BY <3>1, <3>2, <4>1
    <3> QED
      BY <2>0, <3>3 DEF StillTodo
  <2> QED
    BY <1>3, <1>5, <2>1, <2>2, <2>3
\* Nothing.
<1>6. ASSUME todo' = <<>>
      PROVE  /\ todo' \in Seq(J) /\ \A n : ~StillTodo(n)' 
             /\ Once(todo')
  BY <1>6 DEF StillTodo, Once
\* What matches its pattern, and the jobs behind it.
<1>7. ASSUME todo' = Matched \o rest, tool \in {"get", "rm"}, Job[1] = "list"
      PROVE  /\ todo' \in Seq(J) /\ \A n : ~StillTodo(n) => ~StillTodo(n)'
             /\ Once(todo) => Once(todo')
  <2>1. /\ Matched \in Seq(J)
        /\ \A i \in 1 .. Len(Matched) : Matched[i][1] = tool /\ Matched[i][2] \in Pattern
        /\ \A i, k \in 1 .. Len(Matched) : i # k => Matched[i][2] # Matched[k][2]
    BY <1>7, MatchedOnce
  <2>2. PICK m \in Nat : m = Len(Matched)
    BY <2>1, LenProperties
  <2>3. /\ todo' \in Seq(J) /\ Len(todo') = m + (l - 1)
        /\ \A i \in 1 .. m + (l - 1) : todo'[i] = IF i <= m THEN Matched[i] ELSE rest[i - m]
    <3>1. PICK k \in Nat : k = l - 1
      BY <1>2
    <3>2. Len(rest) = k /\ Len(Matched) = m
      BY <1>3, <2>2, <3>1
    <3> HIDE DEF rest, J
    <3>3. /\ Matched \o rest \in Seq(J) /\ Len(Matched \o rest) = Len(Matched) + Len(rest)
          /\ \A i \in 1 .. Len(Matched) + Len(rest) :
               (Matched \o rest)[i] = IF i <= Len(Matched) THEN Matched[i] ELSE rest[i - Len(Matched)]
      BY <1>3, <2>1, ConcatProperties
    <3> QED
      BY <1>7, <3>1, <3>2, <3>3
  <2>4. \A i \in 1 .. m : Files(todo'[i]) = {Matched[i][2]} /\ Matched[i][2] \in Files(todo[1])
    <3>1. \A i \in 1 .. m : todo'[i] = Matched[i] /\ Matched[i][1] = tool /\ Matched[i][2] \in Pattern
      BY <1>2, <2>1, <2>2, <2>3
    <3> QED
      BY <1>4, <1>7, <3>1 DEF Files
  <2>5. \A i \in m + 1 .. m + (l - 1) : i - m + 1 \in 2 .. l /\ todo'[i] = todo[i - m + 1]
    <3>1. ASSUME NEW i \in m + 1 .. m + (l - 1) PROVE i - m + 1 \in 2 .. l /\ todo'[i] = todo[i - m + 1]
      <4>1. i \in 1 .. m + (l - 1) /\ ~(i <= m) /\ i - m \in 1 .. l - 1 /\ i - m + 1 \in 2 .. l
        BY <1>2, <2>2
      <4> QED
        BY <1>3, <2>3, <4>1
    <3> QED
      BY <3>1
  <2> HIDE DEF rest
  <2>6. \A n : ~StillTodo(n) => ~StillTodo(n)'
    <3> SUFFICES ASSUME NEW n, NEW i \in 1 .. Len(todo'), n \in Files(todo'[i])
                 PROVE  \E k \in 1 .. l : n \in Files(todo[k])
      BY <1>2 DEF StillTodo
    <3>1. CASE i \in 1 .. m
      BY <1>2, <2>4, <3>1
    <3>2. CASE i \in m + 1 .. m + (l - 1)
      <4>1. PICK k \in 2 .. l : todo'[i] = todo[k]
        BY <2>5, <3>2
      <4> QED
        BY <1>2, <4>1
    <3> QED
      BY <1>2, <2>2, <2>3, <3>1, <3>2
  <2>7. ASSUME Once(todo) PROVE Once(todo')
    <3>0. \A k \in 2 .. l : Files(todo[1]) \cap Files(todo[k]) = {}
      BY <1>2, <2>7 DEF Once
    <3>1. ASSUME NEW i \in 1 .. m, NEW k \in 1 .. m, i # k PROVE Files(todo'[i]) \cap Files(todo'[k]) = {}
      <4>1. Files(todo'[i]) = {Matched[i][2]} /\ Files(todo'[k]) = {Matched[k][2]}
        BY <2>4
      <4>2. Matched[i][2] # Matched[k][2]
        BY <2>1, <2>2, <3>1
      <4> QED
        BY <4>1, <4>2
    <3>2. \A i \in 1 .. m : \A k \in m + 1 .. m + (l - 1) : Files(todo'[i]) \cap Files(todo'[k]) = {}
      BY <2>4, <2>5, <3>0
    <3>3. ASSUME NEW i \in m + 1 .. m + (l - 1), NEW k \in m + 1 .. m + (l - 1), i # k
          PROVE  Files(todo'[i]) \cap Files(todo'[k]) = {}
      <4>1. PICK a \in 2 .. l : a = i - m + 1 /\ todo'[i] = todo[a]
        BY <2>5
      <4>2. PICK b \in 2 .. l : b = k - m + 1 /\ todo'[k] = todo[b]
        BY <2>5
      <4>3. a # b
        BY <2>2, <3>3, <4>1, <4>2
      <4>4. \A u, v \in 1 .. l : u # v => Files(todo[u]) \cap Files(todo[v]) = {}
        BY <1>2, <2>7 DEF Once
      <4>5. a \in 1 .. l /\ b \in 1 .. l
        BY <1>2
      <4> QED
        BY <4>1, <4>2, <4>3, <4>4, <4>5
    <3>4. 1 .. Len(todo') = 1 .. m \cup m + 1 .. m + (l - 1)
      BY <1>2, <2>2, <2>3
    <3> QED
      BY <3>1, <3>2, <3>3, <3>4 DEF Once
  <2> QED
    BY <2>3, <2>6, <2>7
<1>8. CASE tool = "ls"
  <2>1. todo' = rest
    BY <1>8 DEF JobOver, LsGoesOn
  <2> QED
    BY <1>1, <1>5, <1>8, <2>1
<1>9. CASE tool # "ls" /\ ~ok
  <2>1. todo' = <<>>
    BY <1>1, <1>9 DEF JobOver, PutGoesOn, GetGoesOn, RmGoesOn
  <2> QED
    BY <1>1, <1>6, <2>1
<1>10. CASE tool # "ls" /\ ok
  <2>1. \/ todo' = rest
        \/ todo' = Matched \o rest /\ tool \in {"get", "rm"} /\ Job[1] = "list"
    BY <1>1, <1>10 DEF JobOver, PutGoesOn, GetGoesOn, RmGoesOn
  <2> QED
    BY <1>1, <1>5, <1>7, <1>10, <2>1
<1> QED
  BY <1>8, <1>9, <1>10

-----------------------------------------------------------------------------
(* The types.                                                              *)

LEMMA JobNow ==
  ASSUME InTypes, todo # <<>>
  PROVE  Job \in JobsOf(tool) /\ Job = <<Job[1], Job[2]>>
<1>1. Job \in JobsOf(tool)
  BY HeadTailProperties DEF InTypes, Job
<1> QED
  BY <1>1, JobKinds DEF InTypes

LEMMA TypesInit == FtpInit => InTypes
<1> SUFFICES ASSUME FtpInit PROVE InTypes
  OBVIOUS
<1>1. todo \in Seq(JobsOf(tool))
  BY JobsAssumption DEF FtpInit
<1>2. cmds \in Seq(Said(tool))
  BY DEF FtpInit
<1>3. remote \in [Name -> Progress] /\ local \in [Name -> Progress]
  BY DEF FtpInit, Progress
<1> QED
  BY <1>1, <1>2, <1>3 DEF FtpInit, InTypes, Progress

\* What a job that is over leaves.
LEMMA OverTypes ==
  ASSUME InTypes, NEW ok \in BOOLEAN, JobOver(ok), todo # <<>>
  PROVE  /\ tool' = tool /\ todo' \in Seq(JobsOf(tool))
         /\ local' \in [Name -> Progress] /\ stream' \in Progress
         /\ stage' = "idle" /\ dialed' = 0
<1>1. tool' = tool /\ todo' \in Seq(JobsOf(tool))
  BY JobsAfter
<1>2. local' \in [Name -> Progress]
  BY DEF JobOver, Downloaded, InTypes, Progress
<1> QED
  BY <1>1, <1>2 DEF JobOver, Progress

\* A job is over, for good or ill, by the code of its last reply.
LEMMA OverAfterReply ==
  /\ Completed => IF Code \in {226, 250} THEN JobOver(TRUE) ELSE JobOver(FALSE)
  /\ Deleted => IF Code \in {250, 200} THEN JobOver(TRUE) ELSE JobOver(FALSE)
<1>1. ASSUME NEW ok \in BOOLEAN, JobOver(ok) PROVE IF ok THEN JobOver(TRUE) ELSE JobOver(FALSE)
  <2>1. CASE ok
    <3>1. ok = TRUE
      BY <2>1
    <3> QED
      BY <1>1, <3>1
  <2>2. CASE ~ok
    <3>1. ok = FALSE
      BY <2>2
    <3> QED
      BY <1>1, <3>1
  <2> QED
    BY <2>1, <2>2
<1>2. Completed => IF Code \in {226, 250} THEN JobOver(TRUE) ELSE JobOver(FALSE)
  <2> DEFINE ok == Code \in {226, 250}
  <2>1. Completed => JobOver(ok)
    BY Zenon DEF Completed
  <2>2. ok \in BOOLEAN
    OBVIOUS
  <2>3. Completed => IF ok THEN JobOver(TRUE) ELSE JobOver(FALSE)
    <3> HIDE DEF ok
    <3> QED
      BY <1>1, <2>1, <2>2, Zenon
  <2> QED
    BY <2>3
<1>3. Deleted => IF Code \in {250, 200} THEN JobOver(TRUE) ELSE JobOver(FALSE)
  <2> DEFINE ok == Code \in {250, 200}
  <2>1. Deleted => JobOver(ok)
    BY Zenon DEF Deleted
  <2>2. ok \in BOOLEAN
    OBVIOUS
  <2>3. Deleted => IF ok THEN JobOver(TRUE) ELSE JobOver(FALSE)
    <3> HIDE DEF ok
    <3> QED
      BY <1>1, <2>1, <2>2, Zenon
  <2> QED
    BY <2>3
<1> QED
  BY <1>2, <1>3

LEMMA ClientTypes ==
  ASSUME InTypes, InShape, Client \/ BreakOff
  PROVE  InTypes'
<1>1. serving' = serving /\ remote' = remote
  BY DEF Client, BreakOff, Greeting, Login, TypeSet, StartJob, Passive, Opening, Receive, Upload,
         Completed, Deleted, Quit, Closed, ControlFails, serverVars
<1>2. ASSUME tool' = tool, todo' \in Seq(JobsOf(tool)), cmds' \in Seq(Said(tool)),
             local' \in [Name -> Progress], stream' \in Progress
      PROVE  InTypes'
  BY <1>1, <1>2 DEF InTypes
<1>3. ASSUME NEW c \in Said(tool), cmds' = Append(cmds, c) PROVE cmds' \in Seq(Said(tool))
  BY <1>3, AppendProperties DEF InTypes
<1>4. ASSUME NEW ok \in BOOLEAN, JobOver(ok), todo # <<>>, cmds' = cmds PROVE InTypes'
  BY <1>2, <1>4, OverTypes DEF InTypes
<1>5. ASSUME Stay, cmds' \in Seq(Said(tool)) PROVE InTypes'
  BY <1>2, <1>5 DEF Stay, InTypes
<1>6. \A c \in {"USER", "PASS", "TYPE", "PASV", "QUIT"} : <<c, NoFile>> \in Said(tool)
  BY DEF Said
<1>7. cmds \in Seq(Said(tool))
  BY DEF InTypes
<1>8. CASE Greeting
  <2>1. Stay /\ (cmds' = cmds \/ cmds' = Append(cmds, <<"USER", NoFile>>))
    BY <1>8 DEF Greeting, Send
  <2> QED
    BY <1>3, <1>5, <1>6, <1>7, <2>1
<1>9. CASE Login
  <2>1. Stay /\ (cmds' = cmds \/ \E c \in {"PASS", "TYPE"} : cmds' = Append(cmds, <<c, NoFile>>))
    BY <1>9 DEF Login, Send
  <2> QED
    BY <1>3, <1>5, <1>6, <1>7, <2>1
<1>10. CASE TypeSet \/ Closed \/ Receive
  BY <1>5, <1>7, <1>10 DEF TypeSet, Closed, Receive
<1>11. CASE StartJob
  <2>1. Job \in JobsOf(tool) /\ Job = <<Job[1], Job[2]>> /\ todo # <<>>
    BY <1>11, JobNow DEF StartJob
  <2>2. PICK c \in Said(tool) : cmds' = Append(cmds, c)
    <3>1. CASE Job[1] = "rm"
      <4>1. cmds' = Append(cmds, <<"DELE", Job[2]>>)
        BY <1>11, <3>1 DEF StartJob, Send
      <4>2. <<"DELE", Job[2]>> \in Said(tool)
        BY <2>1, <3>1 DEF Said
      <4> QED
        BY <4>1, <4>2
    <3>2. CASE Job[1] # "rm"
      BY <1>6, <1>11, <3>2 DEF StartJob, Send
    <3> QED
      BY <3>1, <3>2
  <2>3. cmds' \in Seq(Said(tool))
    BY <1>3, <2>2
  <2>4. tool' = tool /\ todo' = todo /\ stream' = stream
        /\ (local' = local \/ local' = [local EXCEPT ![Job[2]] = "part"])
    BY <1>11 DEF StartJob
  <2>5. local' \in [Name -> Progress]
    BY <2>4 DEF InTypes, Progress
  <2> QED
    BY <1>2, <2>3, <2>4, <2>5 DEF InTypes
<1>12. CASE Passive
  <2>1. stage = "passive" /\ todo # <<>> /\ Job \in JobsOf(tool) /\ Job = <<Job[1], Job[2]>> /\ Job[1] # "rm"
    BY <1>12, JobNow DEF Passive, InShape, Working
  <2>2. CASE Send(<<Job[1], Job[2]>>, "opening") /\ stream' = "open" /\ UNCHANGED <<tool, todo, local, reports>>
    <3>1. Job \in Said(tool)
      <4>1. Job[1] \in Transfers
        BY <2>1, JobKinds DEF InTypes, Transfers
      <4> QED
        BY <2>1, <4>1 DEF Said
    <3>2. cmds' \in Seq(Said(tool))
      BY <1>3, <2>1, <2>2, <3>1 DEF Send
    <3> QED
      BY <1>2, <2>2, <3>2 DEF InTypes, Progress
  <2>3. CASE JobOver(FALSE) /\ UNCHANGED cmds
    BY <1>4, <2>1, <2>3
  <2> QED
    BY <1>12, <2>2, <2>3 DEF Passive
<1>13. CASE Opening
  <2>1. todo # <<>> /\ cmds' = cmds
    BY <1>13 DEF Opening, InShape, Working
  <2>2. Stay \/ JobOver(FALSE)
    BY <1>13 DEF Opening
  <2> QED
    BY <1>4, <1>5, <1>7, <2>1, <2>2
<1>14. CASE Upload
  <2>1. tool' = tool /\ todo' = todo /\ local' = local /\ cmds' = cmds /\ stream' = "whole"
    BY <1>14 DEF Upload
  <2> QED
    BY <1>2, <2>1 DEF InTypes, Progress
<1>15. CASE Completed \/ Deleted \/ BreakOff
  <2>1. todo # <<>> /\ cmds' = cmds
    BY <1>15 DEF Completed, Deleted, BreakOff, InShape, Working
  <2>2. CASE Completed
    BY <1>4, <2>1, <2>2, OverAfterReply
  <2>3. CASE Deleted
    BY <1>4, <2>1, <2>3, OverAfterReply
  <2>4. CASE BreakOff
    BY <1>4, <2>1, <2>4 DEF BreakOff
  <2> QED
    BY <1>15, <2>2, <2>3, <2>4
<1>16. CASE Quit
  <2>1. Stay /\ cmds' = Append(cmds, <<"QUIT", NoFile>>)
    BY <1>16 DEF Quit, Send
  <2> QED
    BY <1>3, <1>5, <1>6, <2>1
<1>17. CASE ControlFails
  <2>1. cmds' = cmds /\ (Stay \/ (JobOver(FALSE) /\ todo # <<>>))
    BY <1>17 DEF ControlFails, InShape, Working
  <2> QED
    BY <1>4, <1>5, <1>7, <2>1
<1> QED
  BY <1>8, <1>9, <1>10, <1>11, <1>12, <1>13, <1>14, <1>15, <1>16, <1>17 DEF Client

LEMMA ServerTypes ==
  ASSUME InTypes, Server
  PROVE  InTypes'
<1>1. tool' = tool /\ todo' = todo /\ local' = local
  BY DEF Server, Answer, ServePasv, ServeDele, ServeTransfer, EndTransfer, clientVars
<1>2. ASSUME NEW c, Next1(c) PROVE cmds' \in Seq(Said(tool)) /\ c \in Said(tool)
  BY <1>2, HeadTailProperties DEF Next1, InTypes
<1>3. ASSUME cmds' \in Seq(Said(tool)), remote' \in [Name -> Progress], stream' \in Progress,
             serving' \in {Idle} \cup {j \in JobsOf(tool) : j[1] \in Transfers}
      PROVE  InTypes'
  BY <1>1, <1>3 DEF InTypes
<1>4. ASSUME NEW c, NEW codes, Answer(c, codes) PROVE InTypes'
  BY <1>2, <1>3, <1>4 DEF Answer, InTypes, clientVars, serverVars
<1>5. CASE ServePasv
  BY <1>2, <1>3, <1>5 DEF ServePasv, InTypes, clientVars
<1>6. ASSUME NEW n \in Name, ServeDele(n) PROVE InTypes'
  <2>1. remote' = remote \/ remote' = [remote EXCEPT ![n] = "none"]
    BY <1>6 DEF ServeDele
  <2>2. remote' \in [Name -> Progress]
    BY <2>1 DEF InTypes, Progress
  <2> QED
    BY <1>2, <1>3, <1>6, <2>2 DEF ServeDele, InTypes, clientVars
<1>7. ASSUME NEW op \in {"list", "get", "put"}, NEW n \in Name \cup {NoFile}, ServeTransfer(op, n) PROVE InTypes'
  <2>1. <<op, n>> \in Said(tool) /\ cmds' \in Seq(Said(tool))
    BY <1>2, <1>7 DEF ServeTransfer
  <2>2. <<op, n>> \in {j \in JobsOf(tool) : j[1] \in Transfers}
    BY <2>1 DEF Said, Transfers
  <2>3. remote' = remote \/ remote' = [remote EXCEPT ![n] = "part"]
    BY <1>7 DEF ServeTransfer
  <2>4. remote' \in [Name -> Progress]
    BY <2>3 DEF InTypes, Progress
  <2>5. stream' = stream /\ (serving' = serving \/ serving' = <<op, n>>)
    BY <1>7 DEF ServeTransfer, clientVars
  <2> QED
    BY <1>3, <2>1, <2>2, <2>4, <2>5 DEF InTypes
<1>8. ASSUME NEW how \in {"whole", "part", "reset"}, NEW code, EndTransfer(how, code) PROVE InTypes'
  <2>1. remote' = remote \/ remote' = [remote EXCEPT ![serving[2]] = how]
    BY <1>8 DEF EndTransfer
  <2>2. remote' \in [Name -> Progress]
    BY <2>1 DEF InTypes, Progress
  <2>3. serving' = Idle /\ cmds' = cmds /\ (stream' = stream \/ stream' = how)
    BY <1>8 DEF EndTransfer
  <2> QED
    BY <1>3, <2>2, <2>3 DEF InTypes, Progress
<1> QED
  BY <1>4, <1>5, <1>6, <1>7, <1>8 DEF Server

LEMMA TypesStep ==
  ASSUME InTypes, InShape, [FtpNext]_ftpVars
  PROVE  InTypes'
<1>1. CASE Lose \/ UNCHANGED ftpVars
  BY <1>1 DEF Lose, InTypes, ftpVars, clientVars, serverVars
<1> QED
  BY <1>1, ClientTypes, ServerTypes DEF FtpNext

-----------------------------------------------------------------------------
(* The shapes: the client.                                                 *)

LEMMA ShapesInit == FtpInit => InShape
BY DEF FtpInit, InShape, Logging, Working

\* Nothing is asked of a client that logs in or closes.
LEMMA ShapeElsewhere ==
  ASSUME InShape, stage' \in {"user", "pass", "type", "quitting", "closed"},
         stage' \in Logging => ~broken',
         UNCHANGED <<dialed, broken, tool, todo, port, ports>>, dialed = 0
  PROVE  InShape'
BY DEF InShape, Logging, Working

LEMMA ShapeIdle ==
  ASSUME stage' = "idle", dialed' = 0, broken' => tool' = "ls" \/ todo' = <<>>,
         ~lost' => IF broken' THEN OneDue' ELSE Quiet',
         ports' \in Nat, port' \in 0 .. ports'
  PROVE  InShape'
BY DEF InShape, Logging, Working

\* A job is over: what is left on the connection decides.
LEMMA OverShape ==
  ASSUME InTypes, InShape, NEW ok \in BOOLEAN, JobOver(ok), todo # <<>>,
         ok => ~broken', UNCHANGED <<port, ports>>,
         ~lost' => IF broken' THEN OneDue' ELSE Quiet'
  PROVE  InShape'
<1>1. stage' = "idle" /\ dialed' = 0
  BY OverTypes
<1>2. ~ok => tool' = "ls" \/ todo' = <<>>
  BY JobsAfter
<1>3. ports' \in Nat /\ port' \in 0 .. ports'
  BY DEF InShape
<1> QED
  BY <1>1, <1>2, <1>3, ShapeIdle

LEMMA StartShape ==
  ASSUME InTypes, InShape, StartJob
  PROVE  InShape'
<1>1. /\ stage = "idle" /\ todo # <<>> /\ ~lost /\ dialed = 0
      /\ UNCHANGED <<tool, todo, dialed, stream, broken, remote, serving, port, ports, replies, lost>>
  BY DEF StartJob, Send, InShape, serverVars
<1>2. Job \in JobsOf(tool) /\ tool \in Tool
  BY <1>1, JobNow DEF InTypes
<1>3. Job' = Job
  BY <1>1 DEF Job
<1>4. CASE Job[1] = "rm"
  <2>1. tool = "rm"
    BY <1>2, <1>4, JobKinds
  <2>2. ~broken /\ Quiet
    BY <1>1, <2>1 DEF InShape
  <2>3. stage' = "deleted" /\ cmds' = <<<<"DELE", Job[2]>>>>
    <3>1. stage' = "deleted" /\ cmds' = Append(cmds, <<"DELE", Job[2]>>)
      BY <1>4 DEF StartJob, Send
    <3> QED
      BY <2>2, <3>1, Lists DEF Quiet
  <2>4. Deleting'
    BY <1>1, <1>3, <2>2, <2>3 DEF Deleting, Quiet, Free, Idle
  <2> QED
    BY <1>1, <1>3, <1>4, <2>2, <2>3, <2>4 DEF InShape, Logging, Working
<1>5. CASE Job[1] # "rm"
  <2>1. stage' = "passive" /\ cmds' = Append(cmds, Pasv)
    BY <1>5 DEF StartJob, Send, Pasv
  <2>2. ASSUME ~broken PROVE PasvOwn'
    <3>1. Quiet
      BY <1>1, <2>2 DEF InShape
    <3>2. cmds' = <<Pasv>>
      BY <2>1, <3>1, Lists DEF Quiet
    <3> QED
      BY <1>1, <3>1, <3>2 DEF Quiet, PasvOwn, Free, Idle, Pasv
  <2>3. ASSUME broken PROVE PasvDue'
    <3>1. OneDue
      BY <1>1, <2>3 DEF InShape
    <3>2. Answers' = Answers /\ Said(tool)' = Said(tool) /\ Pasv' = Pasv /\ Idle' = Idle
      BY <1>1 DEF Answers, Said, Pasv, Idle
    <3>3. CASE cmds = <<>>
      <4>1. cmds' = <<Pasv>>
        BY <2>1, <3>3, Lists
      <4>2. \/ serving # Idle /\ replies = <<>>
            \/ Free /\ \E r \in Answers : replies = <<r>> /\ r[1] # 150
        BY <3>1, <3>3, Lists DEF OneDue, NoMore
      <4> QED
        BY <1>1, <3>2, <4>1, <4>2 DEF PasvDue, Free
    <3>4. CASE cmds # <<>>
      <4>1. PICK c \in Said(tool) : cmds = <<c>> /\ Free /\ replies = <<>>
        BY <3>1, <3>4 DEF OneDue, NoMore
      <4>2. cmds' = <<c, Pasv>>
        BY <2>1, <4>1, Lists
      <4> QED
        BY <1>1, <3>2, <4>1, <4>2 DEF PasvDue, Free
    <3> QED
      BY <3>3, <3>4
  <2> QED
    BY <1>1, <1>3, <1>5, <2>1, <2>2, <2>3 DEF InShape, Logging, Working
<1> QED
  BY <1>4, <1>5

LEMMA PassiveShape ==
  ASSUME InTypes, InShape, Passive
  PROVE  InShape'
<1>1. /\ stage = "passive" /\ Took /\ todo # <<>> /\ Job[1] # "rm"
      /\ UNCHANGED <<broken, remote, serving, port, ports, lost>>
  BY DEF Passive, InShape, Working, serverVars
<1>2. Answers' = Answers /\ Idle' = Idle /\ replies # <<>> /\ replies' = Tail(replies)
  BY <1>1 DEF Answers, Idle, Took
\* What the client may find, and what it leaves.
<1>3. ASSUME ~lost, broken
      PROVE  \/ /\ Free /\ cmds = <<Pasv>> /\ replies' = <<>>
                /\ Head(replies) \in Answers /\ Head(replies)[1] # 150
             \/ NoMore /\ \E q \in Answers : /\ replies' = <<q>> /\ PasvReply(q) /\ Head(replies) \in Answers
                                             /\ (Head(replies)[1] = 227 => Head(replies)[2] # ports)
  <2>1. PasvDue
    BY <1>1, <1>3 DEF InShape
  <2>2. CASE Free /\ cmds = <<Pasv>>
    <3>1. PICK r \in Answers : replies = <<r>> /\ r[1] # 150
      BY <1>2, <2>1, <2>2, Lists DEF PasvDue, NoMore, Free
    <3> QED
      BY <1>2, <2>2, <3>1, Lists
  <2>3. CASE ~(Free /\ cmds = <<Pasv>>)
    <3>1. PICK r \in Answers, q \in Answers : /\ NoMore /\ replies = <<r, q>> /\ PasvReply(q)
                                              /\ (r[1] = 227 => r[2] # ports)
      BY <1>2, <2>1, <2>3 DEF PasvDue
    <3> QED
      BY <1>2, <3>1, Lists
  <2> QED
    BY <2>2, <2>3
<1>4. ASSUME ~lost, ~broken
      PROVE  NoMore /\ replies' = <<>> /\ PasvReply(Head(replies))
  <2>1. PasvOwn
    BY <1>1, <1>4 DEF InShape
  <2>2. PICK r \in Answers : NoMore /\ replies = <<r>> /\ PasvReply(r)
    BY <1>2, <2>1 DEF PasvOwn
  <2> QED
    BY <1>2, <2>2, Lists
<1>5. CASE JobOver(FALSE) /\ UNCHANGED cmds
  <2>1. ASSUME ~lost' PROVE IF broken' THEN OneDue' ELSE Quiet'
    <3>1. CASE broken
      <4>1. tool' = tool /\ Pasv \in Said(tool)
        BY <1>5 DEF JobOver, Said, Pasv
      <4>2. \A q \in Answers : PasvReply(q) => q[1] # 150
        BY DEF PasvReply
      <4>3. CASE Free /\ cmds = <<Pasv>> /\ replies' = <<>>
        <5>1. cmds' = <<Pasv>> /\ Free' /\ Said(tool)' = Said(tool)
          BY <1>1, <1>2, <1>5, <4>1, <4>3 DEF Free
        <5> QED
          BY <1>1, <3>1, <4>1, <4>3, <5>1 DEF OneDue
      <4>4. CASE NoMore /\ \E q \in Answers : replies' = <<q>> /\ q[1] # 150
        BY <1>1, <1>2, <1>5, <3>1, <4>4 DEF OneDue, NoMore, Free
      <4> QED
        BY <1>1, <1>3, <2>1, <3>1, <4>2, <4>3, <4>4
    <3>2. CASE ~broken
      BY <1>1, <1>2, <1>4, <1>5, <2>1, <3>2 DEF NoMore, Free, Quiet
    <3> QED
      BY <3>1, <3>2
  <2> QED
    BY <1>1, <1>5, <2>1, OverShape
<1>6. CASE /\ Code = 227 /\ Head(replies)[2] = port /\ Send(<<Job[1], Job[2]>>, "opening")
           /\ dialed' = port /\ UNCHANGED <<tool, todo>>
  <2>1. ~lost /\ stage' = "opening" /\ Job' = Job /\ cmds' = Append(cmds, Job)
    BY <1>1, <1>6, JobNow DEF Send, Job
  <2>2. CASE broken
    <3>1. Free /\ cmds = <<Pasv>> /\ replies' = <<>>
      BY <1>3, <1>6, <2>1, <2>2 DEF PasvReply, Code, Answers
    <3>2. cmds' = <<Pasv, Job>>
      BY <2>1, <3>1, Lists
    <3>3. Doomed'
      BY <1>1, <1>2, <1>6, <2>1, <3>1, <3>2 DEF Doomed, Free, InShape, Pasv
    <3> QED
      BY <1>1, <1>6, <2>1, <2>2, <3>3 DEF InShape, Logging, Working
  <2>3. CASE ~broken
    <3>1. NoMore /\ replies' = <<>>
      BY <1>4, <2>1, <2>3
    <3>2. cmds' = <<Job>>
      BY <2>1, <3>1, Lists DEF NoMore
    <3>3. Opened'
      BY <1>1, <1>2, <2>1, <3>1, <3>2 DEF Opened, NoMore, Free
    <3> QED
      BY <1>1, <1>6, <2>1, <2>3, <3>3 DEF InShape, Logging, Working
  <2> QED
    BY <2>2, <2>3
<1> QED
  BY <1>5, <1>6 DEF Passive

LEMMA OpeningShape ==
  ASSUME InTypes, InShape, Opening
  PROVE  InShape'
<1>1. /\ stage = "opening" /\ Took /\ todo # <<>> /\ Job[1] # "rm"
      /\ UNCHANGED <<broken, remote, serving, port, ports, cmds, lost>>
  BY DEF Opening, InShape, Working, serverVars
<1>2. Answers' = Answers /\ Idle' = Idle /\ replies # <<>> /\ replies' = Tail(replies)
  BY <1>1 DEF Answers, Idle, Took
<1>3. CASE broken
  <2>1. Doomed
    BY <1>1, <1>3 DEF InShape
  <2>2. PICK r \in Answers : /\ Free /\ r[1] \in {227, 425}
                             /\ \/ cmds = <<Job>> /\ replies = <<r>>
                                \/ cmds = <<>> /\ replies = <<r, <<550, 0>>>>
    BY <1>2, <2>1 DEF Doomed, NoMore
  <2>3. JobOver(FALSE)
    <3>1. Code \notin {150, 125}
      BY <2>2, Lists DEF Code
    <3> QED
      BY <3>1 DEF Opening
  <2>4. OneDue'
    <3>1. tool' = tool /\ Said(tool)' = Said(tool) /\ Free'
      BY <1>1, <1>2, <2>2, <2>3 DEF JobOver, Said, Free
    <3>2. CASE cmds = <<Job>> /\ replies = <<r>>
      <4>1. Job \in Said(tool)
        <5>1. Job \in JobsOf(tool) /\ Job[1] \in Transfers
          BY <1>1, JobNow, JobKinds DEF InTypes, Transfers
        <5> QED
          BY <5>1 DEF Said
      <4>2. replies' = <<>> /\ cmds' = <<Job>>
        BY <1>1, <1>2, <3>2, Lists
      <4> QED
        BY <3>1, <4>1, <4>2 DEF OneDue
    <3>3. CASE cmds = <<>> /\ replies = <<r, <<550, 0>>>>
      <4>1. replies' = <<<<550, 0>>>> /\ cmds' = <<>>
        BY <1>1, <1>2, <3>3, Lists
      <4>2. <<550, 0>> \in Answers'
        BY <1>2 DEF Answers, Codes, InShape
      <4> QED
        BY <3>1, <4>1, <4>2 DEF OneDue, NoMore, Free
    <3> QED
      BY <2>2, <3>2, <3>3
  <2> QED
    BY <1>1, <1>3, <2>3, <2>4, OverShape
<1>4. CASE ~broken
  <2>1. Opened
    BY <1>1, <1>4 DEF InShape
  <2>2. CASE NoMore /\ replies = <<<<550, 0>>>>
    <3>1. JobOver(FALSE) /\ replies' = <<>>
      <4>1. Code \notin {150, 125}
        BY <2>2, Lists DEF Code
      <4>2. JobOver(FALSE)
        BY <4>1 DEF Opening
      <4>3. Tail(<<<<550, 0>>>>) = <<>>
        BY Lists
      <4> QED
        BY <1>2, <2>2, <4>2, <4>3
    <3>2. Quiet'
      BY <1>1, <1>2, <2>2, <3>1 DEF Quiet, NoMore, Free
    <3> QED
      BY <1>1, <1>4, <3>1, <3>2, OverShape
  <2>3. CASE ~(NoMore /\ replies = <<<<550, 0>>>>)
    <3>1. /\ cmds = <<>> /\ dialed # 0
          /\ \/ serving = Job /\ replies = <<<<150, 0>>>>
             \/ Free /\ \E code \in {226, 426} : replies = <<<<150, 0>>, <<code, 0>>>> /\ Outcome(code)
             \/ Free /\ lost /\ replies = <<<<150, 0>>>>
      BY <1>2, <2>1, <2>3 DEF Opened
    <3>2. stage' = "data" /\ Stay
      <4>1. Code = 150
        BY <3>1, Lists DEF Code
      <4> QED
        BY <4>1 DEF Opening
    <3>3. Job' = Job /\ dialed' = dialed /\ stream' = stream /\ tool' = tool /\ todo' = todo
      BY <3>2 DEF Stay, Job
    <3>4. \A code : Outcome(code)' <=> Outcome(code)
      BY <1>1, <3>3 DEF Outcome
    <3>5. \/ serving = Job /\ replies' = <<>>
          \/ Free /\ \E code \in {226, 426} : replies' = <<<<code, 0>>>> /\ Outcome(code)
          \/ Free /\ lost /\ replies' = <<>>
      <4>1. CASE replies = <<<<150, 0>>>>
        <5>1. replies' = <<>>
          BY <1>2, <4>1, Lists
        <5>2. \A x, y : <<x>> # <<x, y>>
          OBVIOUS
        <5> QED
          BY <3>1, <4>1, <5>1, <5>2
      <4>2. ASSUME NEW code \in {226, 426}, Free, replies = <<<<150, 0>>, <<code, 0>>>>, Outcome(code)
            PROVE  Free /\ replies' = <<<<code, 0>>>> /\ Outcome(code)
        <5>1. replies' = <<<<code, 0>>>>
          BY <1>2, <4>2, Lists
        <5> QED
          BY <4>2, <5>1
      <4> QED
        BY <3>1, <4>1, <4>2
    <3>6. Busy'
      BY <1>1, <1>2, <1>4, <3>1, <3>3, <3>4, <3>5 DEF Busy, Free
    <3> QED
      BY <1>1, <1>4, <3>2, <3>3, <3>6 DEF InShape, Logging, Working
  <2> QED
    BY <2>2, <2>3
<1> QED
  BY <1>3, <1>4

LEMMA MovingShape ==
  ASSUME InTypes, InShape, Receive \/ Upload
  PROVE  InShape'
<1>1. /\ stage = "data" /\ stage' = "completed" /\ Job' = Job
      /\ UNCHANGED <<tool, todo, dialed, broken, remote, serving, port, ports, cmds, replies, lost>>
      /\ stream' = stream \/ (Job[1] = "put" /\ stream' = "whole")
  BY DEF Receive, Upload, Stay, serverVars, Job
<1>2. Busy
  BY <1>1 DEF InShape
<1>3. \A code : Outcome(code) => Outcome(code)'
  BY <1>1 DEF Outcome
<1>4. Busy'
  BY <1>1, <1>2, <1>3 DEF Busy, Free, Idle
<1> QED
  BY <1>1, <1>4 DEF InShape, Logging, Working

LEMMA BreakOffShape ==
  ASSUME InTypes, InShape, BreakOff
  PROVE  InShape'
<1>1. /\ stage = "data" /\ todo # <<>> /\ broken' /\ JobOver(FALSE) /\ Busy
      /\ UNCHANGED <<remote, serving, port, ports, cmds, replies, lost>>
  BY DEF BreakOff, InShape, Working, serverVars
<1>2. ASSUME ~lost PROVE OneDue'
  <2>1. Answers' = Answers /\ Idle' = Idle
    BY <1>1 DEF Answers, Idle
  <2>2. CASE serving = Job /\ replies = <<>>
    <3>1. Job # Idle
      BY <1>1, JobNow, JobKinds DEF InTypes
    <3> QED
      BY <1>1, <2>1, <2>2, <3>1 DEF Busy, OneDue
  <2>3. CASE Free /\ \E code \in {226, 426} : replies = <<<<code, 0>>>>
    <3>1. \A code \in {226, 426} : <<code, 0>> \in Answers
      BY DEF Answers, Codes, InShape
    <3> QED
      BY <1>1, <2>1, <2>3, <3>1 DEF Busy, OneDue, NoMore, Free
  <2> QED
    BY <1>1, <1>2, <2>2, <2>3 DEF Busy
<1> QED
  BY <1>1, <1>2, OverShape

\* The reply to the end of a transfer of its own, or to DELE, is the last one.
LEMMA EndedShape ==
  ASSUME InTypes, InShape, Completed \/ Deleted
  PROVE  InShape'
<1>1. /\ stage \in {"completed", "deleted"} /\ Took /\ todo # <<>>
      /\ UNCHANGED <<broken, remote, serving, port, ports, cmds, lost>>
  BY DEF Completed, Deleted, InShape, Working, serverVars
<1>2. ~broken /\ Quiet'
  <2>1. replies # <<>> /\ replies' = Tail(replies)
    BY <1>1 DEF Took
  <2>2. PICK x : ~broken /\ NoMore /\ replies = <<x>>
    BY <1>1, <2>1 DEF InShape, Busy, Deleting, NoMore
  <2> QED
    BY <1>1, <2>1, <2>2, Lists DEF Quiet, NoMore, Free, Idle
<1>3. JobOver(TRUE) \/ JobOver(FALSE)
  BY OverAfterReply
<1> QED
  BY <1>1, <1>2, <1>3, OverShape

LEMMA ClientShape ==
  ASSUME InTypes, InShape, InOrder, Client
  PROVE  InShape'
<1>1. CASE Greeting \/ Login \/ Closed
  <2>1. /\ stage \in Logging \cup {"quitting"} /\ dialed = 0
        /\ UNCHANGED <<dialed, broken, tool, todo, port, ports>>
        /\ stage' \in {"user", "pass", "type", "closed"} /\ (stage = "quitting" => stage' = "closed")
    BY <1>1 DEF Greeting, Login, Closed, Send, Stay, serverVars, Logging, InShape
  <2> QED
    BY <2>1, ShapeElsewhere DEF InShape, Logging
<1>2. CASE TypeSet
  <2>1. /\ stage = "type" /\ stage' = "idle" /\ dialed = 0 /\ ~broken /\ Took
        /\ UNCHANGED <<dialed, broken, tool, todo, port, ports, serving, cmds, lost>>
    BY <1>2 DEF TypeSet, Stay, serverVars, InShape, Logging
  <2>2. ASSUME ~lost PROVE Quiet'
    <3>1. Replied
      BY <2>1, <2>2 DEF InOrder, Orderly, OneReply, Took, Asking
    <3> QED
      BY <2>1, <3>1, TookLast
  <2> QED
    BY <2>1, <2>2, ShapeIdle DEF InShape
<1>3. CASE Quit
  <2>1. /\ stage = "idle" /\ stage' = "quitting" /\ dialed = 0
        /\ UNCHANGED <<dialed, broken, tool, todo, port, ports>>
    BY <1>3 DEF Quit, Send, Stay, serverVars, InShape
  <2> QED
    BY <2>1, ShapeElsewhere DEF Logging
<1>4. CASE ControlFails
  <2>1. lost /\ lost' /\ UNCHANGED <<broken, port, ports, serving, cmds, replies>> /\ stage \notin {"data", "closed"}
    BY <1>4 DEF ControlFails, serverVars
  <2>2. CASE JobOver(FALSE) /\ todo # <<>>
    BY <2>1, <2>2, OverShape
  <2>3. CASE Stay /\ stage' \in {"idle", "closed"}
            /\ stage \notin {"passive", "opening", "completed", "deleted"}
    <3>1. dialed = 0 /\ UNCHANGED <<dialed, tool, todo>>
      BY <2>1, <2>3 DEF InShape, Stay
    <3> QED
      BY <2>1, <2>3, <3>1, ShapeElsewhere, ShapeIdle DEF InShape, Logging
  <2> QED
    BY <1>4, <2>2, <2>3 DEF ControlFails, InShape, Working
<1> QED
  BY <1>1, <1>2, <1>3, <1>4, StartShape, PassiveShape, OpeningShape, MovingShape, EndedShape DEF Client

-----------------------------------------------------------------------------
(* The shapes: the server.                                                 *)

\* What the server changes none of.
ClientRests == UNCHANGED <<tool, todo, stage, dialed, local, reports, broken, lost>>

\* A command is served where one waits, and then the next one waits.
LEMMA PasvShape ==
  ASSUME InTypes, InShape, ServePasv
  PROVE  InShape'
<1>1. /\ Free /\ cmds # <<>> /\ Head(cmds) = Pasv /\ cmds' = Tail(cmds) /\ ~lost
      /\ ClientRests /\ UNCHANGED <<stream, remote, serving>> /\ ports' = ports + 1
  BY DEF ServePasv, Next1, Free, Pasv, ClientRests, clientVars
<1>2. /\ ports \in Nat /\ ports' \in Nat /\ port' \in {0, ports'} /\ port' \in 0 .. ports'
      /\ port \in 0 .. ports
  BY <1>1 DEF ServePasv, InShape
<1>3. PICK q \in Answers' : PasvReply(q)' /\ q[1] \in {227, 425} /\ replies' = Append(replies, q)
  <2>1. CASE port' = ports' /\ Reply(<<227, ports'>>)
    <3>1. <<227, ports'>> \in Answers'
      BY <1>1, <1>2 DEF Answers, Codes
    <3> QED
      BY <1>1, <1>2, <2>1, <3>1 DEF Reply, PasvReply
  <2>2. CASE port' = 0 /\ Reply(<<425, 0>>)
    <3>1. <<425, 0>> \in Answers'
      BY <1>2 DEF Answers, Codes
    <3> QED
      BY <2>2, <3>1 DEF Reply, PasvReply
  <2> QED
    BY <2>1, <2>2 DEF ServePasv
<1>4. \A r \in Answers : r \in Answers' /\ (r[1] = 227 => r[2] # ports')
  <2> SUFFICES ASSUME NEW r \in Answers PROVE r \in Answers' /\ (r[1] = 227 => r[2] # ports')
    OBVIOUS
  <2>1. r = <<r[1], r[2]>> /\ r[1] \in Codes /\ r[2] \in 0 .. ports /\ (r[1] = 227 => r[2] # 0)
    BY DEF Answers
  <2> QED
    BY <1>1, <1>2, <2>1 DEF Answers
<1>5. Job' = Job /\ Free' /\ Said(tool)' = Said(tool) /\ Pasv' = Pasv /\ Idle' = Idle
  BY <1>1 DEF ClientRests, Job, Said, Free, Idle, Pasv
<1>6. ASSUME stage = "idle" PROVE IF broken THEN OneDue' ELSE Quiet'
  <2>1. broken /\ replies = <<>> /\ \E c \in Said(tool) : cmds = <<c>>
    BY <1>1, <1>6 DEF InShape, OneDue, Quiet, NoMore, Free
  <2>2. cmds' = <<>> /\ replies' = <<q>>
    BY <1>1, <1>3, <2>1, Lists
  <2> QED
    BY <1>3, <1>5, <2>1, <2>2 DEF OneDue, NoMore
<1>7. ASSUME stage = "passive" PROVE IF broken THEN PasvDue' ELSE PasvOwn'
  <2>1. CASE ~broken
    <3>1. replies = <<>> /\ cmds = <<Pasv>>
      BY <1>1, <1>7, <2>1 DEF InShape, PasvOwn, NoMore, Free
    <3>2. cmds' = <<>> /\ replies' = <<q>>
      BY <1>1, <1>3, <3>1, Lists
    <3> QED
      BY <1>3, <1>5, <2>1, <3>2 DEF PasvOwn, NoMore
  <2>2. CASE broken /\ replies = <<>>
    <3>1. PICK c \in Said(tool) : cmds = <<c, Pasv>>
      <4>1. PasvDue
        BY <1>1, <1>7, <2>2 DEF InShape
      <4> QED
        BY <1>1, <2>2, <4>1, Lists DEF PasvDue, NoMore, Free
    <3>2. cmds' = <<Pasv>> /\ replies' = <<q>>
      BY <1>1, <1>3, <2>2, <3>1, Lists
    <3> QED
      BY <1>3, <1>5, <2>2, <3>2 DEF PasvDue
  <2>3. CASE broken /\ replies # <<>>
    <3>1. PICK r \in Answers : cmds = <<Pasv>> /\ replies = <<r>> /\ r[1] # 150
      <4>1. PasvDue
        BY <1>1, <1>7, <2>3 DEF InShape
      <4> QED
        BY <1>1, <2>3, <4>1 DEF PasvDue, NoMore, Free
    <3>2. cmds' = <<>> /\ replies' = <<r, q>>
      <4>1. Tail(<<Pasv>>) = <<>> /\ Append(<<r>>, q) = <<r, q>>
        BY Lists, Zenon
      <4> QED
        BY <1>1, <1>3, <3>1, <4>1
    <3>3. r \in Answers' /\ r[1] # 150 /\ (r[1] = 227 => r[2] # ports')
      BY <1>4, <3>1
    <3> QED
      BY <1>3, <1>5, <2>3, <3>2, <3>3 DEF PasvDue, NoMore
  <2> QED
    BY <2>1, <2>2, <2>3
<1>8. ASSUME stage = "opening" PROVE broken /\ Doomed'
  <2>1. todo # <<>> /\ Job # Pasv
    <3>1. todo # <<>> /\ Job \in JobsOf(tool) /\ tool \in Tool
      BY <1>8, JobNow DEF InShape, Working, InTypes
    <3> QED
      BY <3>1, JobKinds DEF Pasv
  <2>2. broken
    <3>1. ~Opened
      BY <1>1, <2>1, Lists DEF Opened, NoMore
    <3> QED
      BY <1>8, <3>1 DEF InShape
  <2>3. cmds = <<Pasv, Job>> /\ replies = <<>> /\ dialed \in 0 .. ports
    <3>1. Doomed
      BY <1>8, <2>2 DEF InShape
    <3> QED
      BY <1>1, <2>1, <3>1, Lists DEF Doomed, NoMore
  <2>4. cmds' = <<Job>> /\ replies' = <<q>>
    BY <1>1, <1>3, <2>3, Lists
  <2>5. dialed' = port' => port' = 0
    BY <1>1, <1>2, <2>3 DEF ClientRests
  <2> QED
    BY <1>3, <1>5, <2>2, <2>4, <2>5 DEF Doomed
<1>9. stage \notin {"data", "completed", "deleted"}
  <2>1. stage # "deleted"
    <3>1. Pasv # <<"DELE", Job[2]>>
      BY DEF Pasv
    <3> QED
      BY <1>1, <3>1, Lists DEF InShape, Deleting, NoMore
  <2> QED
    BY <1>1, <2>1 DEF InShape, Busy
<1> QED
  BY <1>1, <1>2, <1>5, <1>6, <1>7, <1>8, <1>9 DEF InShape, ClientRests, Logging, Working

LEMMA Pairs ==
  \A e, f : /\ Head(<<e>>) = e /\ Tail(<<e>>) = <<>> /\ Append(<<e>>, f) = <<e, f>>
            /\ Head(<<e, f>>) = e /\ Tail(<<e, f>>) = <<f>>
BY Lists

\* Any other command has one reply that opens nothing.
LEMMA AnswerShape ==
  ASSUME InTypes, InShape, NEW c, Next1(c), c # Pasv,
         ClientRests, UNCHANGED <<stream, serving, port, ports>>,
         NEW r \in Answers, r[1] \notin {150, 227}, replies' = Append(replies, r),
         stage = "deleted" => r = <<550, 0>> \/ (r = <<250, 0>> /\ remote'[Job[2]] = "none"),
         stage = "opening" => r = <<550, 0>>
  PROVE  InShape'
<1>1. Free /\ cmds # <<>> /\ Head(cmds) = c /\ cmds' = Tail(cmds) /\ ~lost
  BY DEF Next1, Free
<1>2. /\ Job' = Job /\ Free' /\ Said(tool)' = Said(tool) /\ Pasv' = Pasv /\ Idle' = Idle
      /\ Answers' = Answers /\ broken' = broken /\ stage' = stage /\ lost' = lost
  BY <1>1 DEF ClientRests, Job, Said, Free, Idle, Pasv, Answers
<1>3. ASSUME NEW d, cmds = <<d>> PROVE cmds' = <<>> /\ c = d
  BY <1>1, <1>3, Lists
<1>4. ASSUME replies = <<>> PROVE replies' = <<r>>
  BY <1>4, Lists
<1>5. ASSUME stage = "idle" PROVE IF broken THEN OneDue' ELSE Quiet'
  <2>1. broken /\ replies = <<>> /\ \E d \in Said(tool) : cmds = <<d>>
    BY <1>1, <1>5 DEF InShape, OneDue, Quiet, NoMore, Free
  <2>2. cmds' = <<>> /\ replies' = <<r>>
    BY <1>3, <1>4, <2>1
  <2> QED
    BY <1>2, <2>1, <2>2 DEF OneDue, NoMore
<1>6. ASSUME stage = "passive" PROVE IF broken THEN PasvDue' ELSE PasvOwn'
  <2>1. broken
    <3>1. ASSUME ~broken PROVE cmds = <<Pasv>>
      BY <1>1, <1>6, <3>1 DEF InShape, PasvOwn, NoMore
    <3> QED
      BY <1>3, <3>1
  <2>2. PICK d : cmds = <<d, Pasv>> /\ replies = <<>>
    <3>1. PasvDue /\ cmds # <<Pasv>>
      BY <1>1, <1>3, <1>6, <2>1 DEF InShape
    <3> QED
      BY <1>1, <3>1 DEF PasvDue, NoMore
  <2>3. cmds' = <<Pasv>> /\ replies' = <<r>>
    <3>1. Tail(<<d, Pasv>>) = <<Pasv>>
      BY Pairs
    <3> QED
      BY <1>1, <1>4, <2>2, <3>1
  <2> QED
    BY <1>2, <2>1, <2>3 DEF PasvDue
<1>7. ASSUME stage = "opening" PROVE IF broken THEN Doomed' ELSE Opened'
  <2>1. CASE ~broken
    <3>1. cmds = <<Job>> /\ replies = <<>>
      BY <1>1, <1>7, <2>1 DEF InShape, Opened, NoMore
    <3>2. cmds' = <<>> /\ replies' = <<r>>
      BY <1>3, <1>4, <3>1
    <3> QED
      BY <1>2, <1>7, <2>1, <3>2 DEF Opened, NoMore
  <2>2. CASE broken
    <3>0. Doomed
      BY <1>7, <2>2 DEF InShape
    <3>1. cmds # <<Pasv, Job>>
      <4>1. Head(<<Pasv, Job>>) = Pasv
        BY Pairs
      <4> QED
        BY <1>1, <4>1
    <3>2. PICK a \in Answers : cmds = <<Job>> /\ replies = <<a>> /\ a[1] \in {227, 425}
      BY <1>1, <3>0, <3>1 DEF Doomed, NoMore
    <3>3. cmds' = <<>> /\ replies' = <<a, <<550, 0>>>>
      <4>1. Append(<<a>>, r) = <<a, r>>
        BY Pairs
      <4> QED
        BY <1>3, <1>7, <3>2, <4>1
    <3>4. a \in Answers' /\ NoMore'
      BY <1>2, <3>2, <3>3 DEF NoMore
    <3>5. \E b \in Answers' : replies' = <<b, <<550, 0>>>> /\ b[1] \in {227, 425}
      <4>1. a \in Answers' /\ replies' = <<a, <<550, 0>>>> /\ a[1] \in {227, 425}
        BY <3>2, <3>3, <3>4
      <4>2. \A S : a \in S => \E b \in S : b = a
        OBVIOUS
      <4>3. PICK b \in Answers' : b = a
        BY <4>1, <4>2
      <4> QED
        BY <4>1, <4>3
    <3> QED
      BY <2>2, <3>4, <3>5 DEF Doomed
  <2> QED
    BY <2>1, <2>2
<1>8. ASSUME stage = "deleted" PROVE Deleting'
  <2>1. /\ ~broken /\ cmds = <<<<"DELE", Job[2]>>>> /\ replies = <<>>
    BY <1>1, <1>8 DEF InShape, Deleting, NoMore
  <2>2. cmds' = <<>> /\ replies' = <<r>>
    BY <1>3, <1>4, <2>1
  <2> QED
    BY <1>2, <1>8, <2>1, <2>2 DEF Deleting, NoMore
<1>9. stage \notin {"data", "completed"}
  BY <1>1 DEF InShape, Busy
<1> QED
  BY <1>2, <1>5, <1>6, <1>7, <1>8, <1>9 DEF InShape, ClientRests, Logging, Working

LEMMA ServeTransferShape ==
  ASSUME InTypes, InShape, NEW op \in Transfers, NEW n \in Name \cup {NoFile}, ServeTransfer(op, n)
  PROVE  /\ InShape'
         /\ serving' # serving \/ remote' # remote
              => Job = <<op, n>> /\ todo # <<>> /\ serving' = Job
<1>1. Next1(<<op, n>>) /\ ClientRests /\ UNCHANGED <<stream, ports>> /\ <<op, n>> # Pasv
  BY DEF ServeTransfer, ClientRests, clientVars, Pasv, Transfers
<1>2. CASE Reply(<<550, 0>>) /\ UNCHANGED <<remote, serving, port>>
  <2>1. <<550, 0>> \in Answers /\ replies' = Append(replies, <<550, 0>>)
    BY <1>2 DEF Reply, Answers, Codes, InShape
  <2>2. stage # "deleted"
    <3>1. Head(cmds) = <<op, n>> /\ cmds # <<>> /\ <<op, n>> # <<"DELE", Job[2]>>
      BY <1>1 DEF Next1, Transfers
    <3> QED
      BY <3>1, Lists DEF InShape, Deleting, NoMore
  <2> QED
    BY <1>1, <1>2, <2>1, <2>2, AnswerShape
<1>3. CASE /\ dialed = port /\ port # 0 /\ serving' = <<op, n>> /\ port' = 0 /\ Reply(<<150, 0>>)
  <2>1. Free /\ cmds # <<>> /\ Head(cmds) = <<op, n>> /\ cmds' = Tail(cmds) /\ ~lost
    BY <1>1 DEF Next1, Free
  <2>2. stage = "opening" /\ todo # <<>>
    BY <1>3, <2>1 DEF InShape, Busy, Working
  <2>3. ~broken
    <3>1. ASSUME broken PROVE FALSE
      <4>1. Doomed
        BY <2>2, <3>1 DEF InShape
      <4>2. cmds = <<Pasv, Job>>
        BY <1>3, <2>1, <4>1 DEF Doomed, NoMore
      <4>3. Head(<<Pasv, Job>>) = Pasv
        BY Pairs
      <4> QED
        BY <1>1, <2>1, <4>2, <4>3
    <3> QED
      BY <3>1
  <2>4. cmds = <<Job>> /\ replies = <<>>
    BY <2>1, <2>2, <2>3 DEF InShape, Opened, NoMore
  <2>5. cmds' = <<>> /\ Job = <<op, n>> /\ replies' = <<<<150, 0>>>>
    BY <1>3, <2>1, <2>4, Lists DEF Reply
  <2>6. Job' = Job /\ stage' = stage /\ broken' = broken /\ todo' = todo /\ dialed' = dialed /\ lost' = lost
    BY <1>1 DEF ClientRests, Job
  <2>7. Opened'
    BY <1>3, <2>5, <2>6 DEF Opened, InShape
  <2>8. InShape'
    BY <1>1, <1>3, <2>2, <2>3, <2>5, <2>6, <2>7 DEF InShape, Logging, Working, ClientRests
  <2> QED
    BY <1>3, <2>2, <2>5, <2>8
<1> QED
  BY <1>2, <1>3 DEF ServeTransfer

LEMMA EndTransferShape ==
  ASSUME InTypes, InShape, NEW how \in {"whole", "part", "reset"}, NEW code \in {226, 426},
         EndTransfer(how, code)
  PROVE  InShape'
<1>1. /\ serving # Idle /\ serving' = Idle
      /\ UNCHANGED <<tool, todo, stage, dialed, broken, port, ports, cmds, lost>>
  BY DEF EndTransfer
<1>2. /\ Job' = Job /\ Free' /\ ~Free /\ Said(tool)' = Said(tool) /\ Pasv' = Pasv /\ Idle' = Idle
      /\ Answers' = Answers /\ <<code, 0>> \in Answers
  BY <1>1 DEF Job, Said, Free, Idle, Pasv, Answers, Codes, InShape
<1>3. IF lost THEN replies' = replies ELSE replies' = Append(replies, <<code, 0>>)
  BY DEF EndTransfer, Reply
<1>4. ASSUME replies = <<>>, ~lost PROVE replies' = <<<<code, 0>>>>
  BY <1>3, <1>4, Lists
<1>5. ASSUME stage = "idle", ~lost PROVE IF broken THEN OneDue' ELSE Quiet'
  <2>1. broken /\ replies = <<>> /\ cmds = <<>>
    BY <1>2, <1>5 DEF InShape, OneDue, Quiet, NoMore, Free
  <2> QED
    BY <1>1, <1>2, <1>4, <1>5, <2>1 DEF OneDue, NoMore
<1>6. ASSUME stage = "passive", ~lost PROVE IF broken THEN PasvDue' ELSE PasvOwn'
  <2>1. broken /\ replies = <<>> /\ cmds = <<Pasv>>
    BY <1>2, <1>6 DEF InShape, PasvDue, PasvOwn, NoMore
  <2> QED
    BY <1>1, <1>2, <1>4, <1>6, <2>1 DEF PasvDue
\* How a transfer of its own ends.
<1>7. ASSUME serving = Job, dialed # 0, todo # <<>> PROVE Outcome(code)'
  <2>1. Job \in JobsOf(tool) /\ tool \in Tool
    BY <1>7, JobNow DEF InTypes
  <2>2. ASSUME code = 226 PROVE stream' = "whole" /\ (Job[1] = "put" => remote'[Job[2]] = "whole")
    <3>1. how = "whole"
      BY <1>7, <2>2 DEF EndTransfer
    <3>2. CASE Job[1] = "put"
      <4>1. stream' = "whole" /\ remote' = [remote EXCEPT ![Job[2]] = "whole"]
        BY <1>7, <2>2, <3>1, <3>2 DEF EndTransfer
      <4>2. Job[2] \in Name
        BY <2>1, <3>2, JobKinds
      <4> QED
        BY <4>1, <4>2 DEF InTypes
    <3>3. CASE Job[1] # "put"
      BY <1>7, <3>1, <3>3 DEF EndTransfer
    <3> QED
      BY <3>2, <3>3
  <2> QED
    BY <1>2, <2>2 DEF Outcome
<1>8. ASSUME stage = "opening" PROVE ~broken /\ Opened'
  <2>1. ~broken /\ cmds = <<>> /\ dialed # 0 /\ serving = Job /\ replies = <<<<150, 0>>>> /\ todo # <<>>
    BY <1>2, <1>8 DEF InShape, Doomed, Opened, NoMore, Working
  <2>2. CASE lost
    BY <1>1, <1>2, <1>3, <2>1, <2>2 DEF Opened
  <2>3. CASE ~lost
    <3>1. replies' = <<<<150, 0>>, <<code, 0>>>>
      BY <1>3, <2>1, <2>3, Lists
    <3> QED
      BY <1>1, <1>2, <1>7, <2>1, <3>1 DEF Opened
  <2> QED
    BY <2>1, <2>2, <2>3
<1>9. ASSUME stage \in {"data", "completed"} PROVE Busy'
  <2>1. ~broken /\ cmds = <<>> /\ dialed # 0 /\ serving = Job /\ replies = <<>> /\ todo # <<>>
    BY <1>2, <1>9 DEF InShape, Busy, Working
  <2>2. CASE lost
    BY <1>1, <1>2, <1>3, <2>1, <2>2 DEF Busy
  <2>3. CASE ~lost
    BY <1>1, <1>2, <1>4, <1>7, <2>1, <2>3 DEF Busy
  <2> QED
    BY <2>2, <2>3
<1>10. stage # "deleted"
  BY <1>2 DEF InShape, Deleting, NoMore
<1> QED
  BY <1>1, <1>2, <1>5, <1>6, <1>8, <1>9, <1>10 DEF InShape, Logging, Working

LEMMA ShapesStep ==
  ASSUME InTypes, InShape, InOrder, [FtpNext]_ftpVars
  PROVE  InShape'
<1>1. CASE Server
  <2>1. ASSUME NEW c \in {<<"USER", NoFile>>, <<"PASS", NoFile>>, <<"TYPE", NoFile>>, <<"QUIT", NoFile>>},
               NEW codes \in SUBSET (Codes \ {150, 227, 550}), Answer(c, codes)
        PROVE  InShape'
    <3>1. PICK code \in codes : Next1(c) /\ replies' = Append(replies, <<code, 0>>)
      BY <2>1 DEF Answer, Reply
    <3>2. c # Pasv /\ c[1] \notin Transfers \cup {"DELE", "PASV"}
      BY <2>1 DEF Pasv, Transfers
    <3>3. ClientRests /\ UNCHANGED <<stream, serving, port, ports>>
      BY <2>1 DEF Answer, clientVars, serverVars, ClientRests
    <3>4. <<code, 0>> \in Answers /\ code \notin {150, 227}
      BY <2>1 DEF Answers, InShape
    <3>5. Head(cmds) = c /\ cmds # <<>> /\ Free
      BY <3>1 DEF Next1, Free
    <3>6. stage # "deleted"
      <4>1. c # <<"DELE", Job[2]>>
        BY <3>2
      <4> QED
        BY <3>5, <4>1, Lists DEF InShape, Deleting, NoMore
    <3>7. stage # "opening"
      <4>1. ASSUME stage = "opening" PROVE FALSE
        <5>1. Job \in JobsOf(tool) /\ tool \in Tool /\ Job[1] # "rm"
          BY <4>1, JobNow DEF InShape, Working, InTypes
        <5>2. c # Job
          BY <3>2, <5>1, JobKinds DEF Transfers
        <5>3. Head(<<Pasv, Job>>) = Pasv /\ Head(<<Job>>) = Job
          BY Pairs
        <5> QED
          BY <3>2, <3>5, <4>1, <5>2, <5>3 DEF InShape, Doomed, Opened, NoMore
      <4> QED
        BY <4>1
    <3> QED
      BY <3>1, <3>2, <3>3, <3>4, <3>6, <3>7, AnswerShape
  <2>2. ASSUME NEW n \in Name, ServeDele(n) PROVE InShape'
    <3>1. /\ Next1(<<"DELE", n>>) /\ ClientRests /\ UNCHANGED <<stream, serving, port, ports>>
          /\ <<"DELE", n>> # Pasv
      BY <2>2 DEF ServeDele, clientVars, ClientRests, Pasv
    <3>2. PICK r : /\ replies' = Append(replies, r)
                   /\ r = <<550, 0>> \/ (r = <<250, 0>> /\ remote' = [remote EXCEPT ![n] = "none"])
      BY <2>2 DEF ServeDele, Reply
    <3>3. r \in Answers /\ r[1] \notin {150, 227}
      BY <3>2 DEF Answers, Codes, InShape
    <3>4. Head(cmds) = <<"DELE", n>> /\ cmds # <<>> /\ Free
      BY <3>1 DEF Next1, Free
    <3>5. stage = "deleted" => Job[2] = n
      BY <3>4, Lists DEF InShape, Deleting, NoMore
    <3>6. stage # "opening"
      <4>1. ASSUME stage = "opening" PROVE FALSE
        <5>1. Job \in JobsOf(tool) /\ tool \in Tool /\ Job[1] # "rm"
          BY <4>1, JobNow DEF InShape, Working, InTypes
        <5>2. <<"DELE", n>> # Job
          BY <5>1, JobKinds
        <5>3. Head(<<Pasv, Job>>) = Pasv /\ Head(<<Job>>) = Job
          BY Pairs
        <5> QED
          BY <3>1, <3>4, <4>1, <5>2, <5>3 DEF InShape, Doomed, Opened, NoMore
      <4> QED
        BY <4>1
    <3>7. remote' = [remote EXCEPT ![n] = "none"] => remote'[n] = "none"
      BY DEF InTypes
    <3> QED
      BY <3>1, <3>2, <3>3, <3>5, <3>6, <3>7, AnswerShape
  <2>3. \/ Answer(<<"USER", NoFile>>, {230, 331, 530}) \/ Answer(<<"PASS", NoFile>>, {230, 530})
        \/ Answer(<<"TYPE", NoFile>>, {200, 500}) \/ Answer(<<"QUIT", NoFile>>, {221})
        => InShape'
    <3>1. /\ {230, 331, 530} \subseteq Codes \ {150, 227, 550} /\ {230, 530} \subseteq Codes \ {150, 227, 550}
          /\ {200, 500} \subseteq Codes \ {150, 227, 550} /\ {221} \subseteq Codes \ {150, 227, 550}
      BY DEF Codes
    <3>2. /\ Answer(<<"USER", NoFile>>, {230, 331, 530}) => InShape'
          /\ Answer(<<"PASS", NoFile>>, {230, 530}) => InShape'
      BY <2>1, <3>1
    <3>3. /\ Answer(<<"TYPE", NoFile>>, {200, 500}) => InShape'
          /\ Answer(<<"QUIT", NoFile>>, {221}) => InShape'
      BY <2>1, <3>1
    <3> QED
      BY <3>2, <3>3
  <2> QED
    BY <1>1, <2>2, <2>3, PasvShape, ServeTransferShape, EndTransferShape DEF Server, Transfers
<1>2. CASE Lose
  <2>1. UNCHANGED <<tool, todo, stage, dialed, stream, broken, remote, serving, port, ports, cmds, replies>> /\ lost'
    BY <1>2 DEF Lose, clientVars, serverVars
  <2>2. Job' = Job /\ Answers' = Answers /\ \A code : Outcome(code)' <=> Outcome(code)
    BY <2>1 DEF Job, Answers, Outcome
  <2>3. (Busy => Busy') /\ (Opened => Opened') /\ (Deleting => Deleting') /\ (Doomed => Doomed')
    BY <2>1, <2>2 DEF Busy, Opened, Deleting, Doomed, Free, NoMore, Idle, Pasv
  <2> QED
    BY <2>1, <2>2, <2>3 DEF InShape
<1>3. CASE UNCHANGED ftpVars
  <2>1. UNCHANGED <<tool, todo, stage, dialed, stream, broken, remote, serving, port, ports, cmds, replies, lost>>
    BY <1>3 DEF ftpVars, clientVars, serverVars
  <2>2. Job' = Job /\ Answers' = Answers /\ \A code : Outcome(code)' <=> Outcome(code)
    BY <2>1 DEF Job, Answers, Outcome
  <2>3. /\ (Busy => Busy') /\ (Opened => Opened') /\ (Deleting => Deleting') /\ (Doomed => Doomed')
        /\ (OneDue => OneDue') /\ (Quiet => Quiet')
    BY <2>1, <2>2 DEF Busy, Opened, Deleting, Doomed, OneDue, Quiet, Free, NoMore, Idle, Pasv, Said
  <2>4. (PasvDue => PasvDue') /\ (PasvOwn => PasvOwn')
    BY <2>1, <2>2 DEF PasvDue, PasvOwn, PasvReply, Free, NoMore, Idle, Pasv, Said
  <2> QED
    BY <2>1, <2>2, <2>3, <2>4 DEF InShape
<1> QED
  BY <1>1, <1>2, <1>3, ClientShape, BreakOffShape DEF FtpNext

-----------------------------------------------------------------------------
(* What is reported stays true.                                            *)

LEMMA KeptInit == FtpInit /\ NamedOnce => Kept
<1> SUFFICES ASSUME FtpInit, NamedOnce PROVE Kept
  OBVIOUS
<1>1. tool \in Tool /\ todo = Jobs[tool] /\ local = [n \in Name |-> "none"] /\ reports = {}
  BY DEF FtpInit
<1>2. \A n \in Name : local[n] # "part"
  BY <1>1
<1> QED
  BY <1>1, <1>2 DEF Kept, NamedOnce

\* The job at hand is still to do.
LEMMA JobIsTodo ==
  ASSUME InTypes, todo # <<>>
  PROVE  \A n \in Files(Job) : StillTodo(n)
<1>1. 1 \in 1 .. Len(todo) /\ Job = todo[1]
  <2>1. Len(todo) \in Nat /\ Len(todo) > 0
    BY EmptySeq, LenProperties DEF InTypes
  <2> QED
    BY <2>1 DEF Job
<1> QED
  BY <1>1 DEF StillTodo

LEMMA SameKept ==
  ASSUME NEW r, KeptTrue(r), UNCHANGED <<tool, todo, local, remote, serving>>
  PROVE  KeptTrue(r)'
<1>1. StillTodo(r[2])' <=> StillTodo(r[2])
  BY DEF StillTodo
<1> QED
  BY <1>1 DEF KeptTrue

\* A job is over: nothing reported before is touched.
LEMMA OverKept ==
  ASSUME InTypes, InShape, Kept, NEW ok \in BOOLEAN, JobOver(ok), todo # <<>>,
         UNCHANGED <<remote, serving>>,
         ok => \A r \in {<<Job[1], Job[2], stream>>} : KeptTrue(r)',
         ok => stream = "whole" \/ Job[1] = "rm"
  PROVE  Kept'
<1>1. /\ todo' \in Seq(JobsOf(tool)) /\ tool' = tool
      /\ \A n : ~StillTodo(n) => ~StillTodo(n)'
      /\ Once(todo) => Once(todo')
  BY JobsAfter
<1>2. Job \in JobsOf(tool) /\ Job = <<Job[1], Job[2]>> /\ tool \in Tool
  BY JobNow DEF InTypes
<1>3. local' = IF Job[1] = "get" THEN [local EXCEPT ![Job[2]] = IF ok THEN stream ELSE "none"] ELSE local
  BY DEF JobOver, Downloaded
<1>4. \A n \in Name : local'[n] # "part"
  <2> SUFFICES ASSUME NEW n \in Name PROVE local'[n] # "part"
    OBVIOUS
  <2>1. CASE Job = <<"get", n>>
    <3>1. local'[n] = IF ok THEN stream ELSE "none"
      BY <1>3, <2>1 DEF InTypes
    <3>2. ok => stream = "whole"
      BY <2>1
    <3> QED
      BY <3>1, <3>2
  <2>2. CASE Job # <<"get", n>>
    <3>1. local[n] # "part"
      BY <2>2 DEF Kept
    <3>2. local'[n] = local[n]
      BY <1>2, <1>3, <2>2 DEF InTypes
    <3> QED
      BY <3>1, <3>2
  <2> QED
    BY <2>1, <2>2
<1>5. ASSUME NEW r, KeptTrue(r) PROVE KeptTrue(r)'
  <2>1. r[1] = "get" => local'[r[2]] = "whole"
    <3> SUFFICES ASSUME r[1] = "get" PROVE local'[r[2]] = "whole"
      OBVIOUS
    <3>1. local[r[2]] = "whole" /\ ~StillTodo(r[2]) /\ r[2] \in Name
      BY <1>5 DEF KeptTrue
    <3>2. Job[1] = "get" => Job[2] # r[2]
      BY <3>1, JobIsTodo DEF Files
    <3> QED
      BY <1>3, <3>1, <3>2 DEF InTypes
  <2> QED
    BY <1>1, <1>5, <2>1 DEF KeptTrue
<1>6. \A r \in reports' : r \in reports \/ (ok /\ r = <<Job[1], Job[2], stream>>)
  BY DEF JobOver
<1>7. \A r \in reports' : KeptTrue(r)'
  <2> SUFFICES ASSUME NEW r \in reports' PROVE KeptTrue(r)'
    OBVIOUS
  <2>1. CASE r \in reports
    BY <1>5, <2>1 DEF Kept
  <2>2. CASE ok /\ r = <<Job[1], Job[2], stream>>
    BY <2>2
  <2> QED
    BY <1>6, <2>1, <2>2
<1> QED
  BY <1>1, <1>4, <1>7 DEF Kept

LEMMA StartKept ==
  ASSUME InTypes, InShape, Kept, StartJob
  PROVE  Kept'
<1>1. /\ stage = "idle" /\ todo # <<>>
      /\ UNCHANGED <<tool, todo, reports, remote, serving>>
      /\ stage' = IF Job[1] = "rm" THEN "deleted" ELSE "passive"
      /\ local' = IF Job[1] = "get" THEN [local EXCEPT ![Job[2]] = "part"] ELSE local
  BY DEF StartJob, Send, serverVars
<1>2. Job' = Job /\ Job = <<Job[1], Job[2]>>
  BY <1>1, JobNow DEF Job
<1>3. ASSUME NEW n \in Name, local'[n] = "part" PROVE Job' = <<"get", n>> /\ stage' \in Working
  <2>1. local[n] # "part"
    BY <1>1 DEF Kept, Working
  <2>2. Job[1] = "get" /\ n = Job[2]
    BY <1>1, <1>3, <2>1 DEF InTypes
  <2> QED
    BY <1>1, <1>2, <2>2 DEF Working
<1>4. ASSUME NEW r, KeptTrue(r) PROVE KeptTrue(r)'
  <2>1. r[1] = "get" => local'[r[2]] = "whole"
    <3> SUFFICES ASSUME r[1] = "get" PROVE local'[r[2]] = "whole"
      OBVIOUS
    <3>1. local[r[2]] = "whole" /\ ~StillTodo(r[2]) /\ r[2] \in Name
      BY <1>4 DEF KeptTrue
    <3>2. Job[1] = "get" => Job[2] # r[2]
      BY <1>1, <3>1, JobIsTodo DEF Files
    <3> QED
      BY <1>1, <3>1, <3>2 DEF InTypes
  <2>2. StillTodo(r[2])' <=> StillTodo(r[2])
    BY <1>1 DEF StillTodo
  <2> QED
    BY <1>1, <1>4, <2>1, <2>2 DEF KeptTrue
<1>5. \A r \in reports' : KeptTrue(r)'
  BY <1>1, <1>4 DEF Kept
<1> QED
  BY <1>1, <1>3, <1>5 DEF Kept

\* The last reply to a transfer of its own, or to DELE, tells what has come of it.
LEMMA EndedKept ==
  ASSUME InTypes, InShape, Kept, Completed \/ Deleted
  PROVE  Kept'
<1>1. /\ todo # <<>> /\ Took /\ UNCHANGED <<remote, serving>>
      /\ stage = "completed" \/ stage = "deleted"
      /\ Job[1] = "rm" <=> stage = "deleted"
  BY DEF Completed, Deleted, InShape, Working, serverVars
<1>2. CASE JobOver(FALSE)
  BY <1>1, <1>2, OverKept
<1>3. CASE JobOver(TRUE) /\ (stage = "completed" => Code \in {226, 250}) /\ (stage = "deleted" => Code \in {250, 200})
  <2>1. Job \in JobsOf(tool) /\ tool \in Tool
    BY <1>1, JobNow DEF InTypes
  <2>2. /\ Job[1] \in Does(tool) /\ (Job[1] # "list" => Job[2] \in Name) /\ (Job[1] = "get" => tool = "get")
        /\ (Job[1] = "put" => tool = "put") /\ Job[1] \in {"list", "get", "put", "rm"}
    BY <2>1, JobKinds
  <2>3. tool' = tool /\ (Once(todo) /\ Job[1] # "list" => \A n \in {Job[2]} : ~StillTodo(n)')
    BY <1>1, <1>3, JobsAfter
  <2> DEFINE r == <<Job[1], Job[2], stream>>
  <2>4. CASE stage = "completed"
    <3>1. Free /\ stream = "whole" /\ (Job[1] = "put" => remote[Job[2]] = "whole")
      <4>1. PICK code \in {226, 426} : Free /\ replies = <<<<code, 0>>>> /\ Outcome(code)
        BY <1>1, <2>4 DEF InShape, Busy, Took
      <4>2. code = 226
        BY <1>3, <2>4, <4>1, Lists DEF Code
      <4> QED
        BY <4>1, <4>2 DEF Outcome
    <3>2. Job[1] = "get" => local'[Job[2]] = "whole"
      <4>1. Job[1] = "get" => local' = [local EXCEPT ![Job[2]] = stream]
        BY <1>3 DEF JobOver, Downloaded
      <4> QED
        BY <2>2, <3>1, <4>1 DEF InTypes
    <3>3. Job[1] \in {"get", "put"} => \A n \in {Job[2]} : ~StillTodo(n)'
      BY <2>2, <2>3 DEF Kept
    <3>4. \A q \in {r} : KeptTrue(q)'
      <4>1. \A n, m : serving' # <<"put", n>>
        BY <1>1, <3>1 DEF Free, Idle
      <4>2. \A e, f, g : <<e, f, g>>[1] = e /\ <<e, f, g>>[2] = f /\ <<e, f, g>>[3] = g
        OBVIOUS
      <4>3. \A q : /\ q[1] = Job[1] /\ q[2] = Job[2] /\ q[3] = stream => KeptTrue(q)'
        <5> SUFFICES ASSUME NEW q, q[1] = Job[1], q[2] = Job[2], q[3] = stream PROVE KeptTrue(q)'
          OBVIOUS
        <5> QED
          BY <1>1, <2>2, <2>3, <2>4, <3>1, <3>2, <3>3, <4>1 DEF KeptTrue
      <4> QED
        BY <4>2, <4>3
    <3> QED
      BY <1>1, <1>3, <3>1, <3>4, OverKept
  <2>5. CASE stage = "deleted"
    <3>1. remote[Job[2]] = "none"
      <4>1. (replies = <<<<250, 0>>>> /\ remote[Job[2]] = "none") \/ replies = <<<<550, 0>>>>
        BY <1>1, <2>5 DEF InShape, Deleting, Took
      <4>2. Code # 550
        BY <1>3, <2>5
      <4> QED
        BY <4>1, <4>2, Lists DEF Code
    <3>2. \A q \in {r} : KeptTrue(q)'
      <4>1. \A e, f, g : <<e, f, g>>[1] = e /\ <<e, f, g>>[2] = f
        OBVIOUS
      <4>2. \A q : q[1] = Job[1] /\ q[2] = Job[2] => KeptTrue(q)'
        BY <1>1, <2>2, <2>3, <2>5, <3>1 DEF KeptTrue
      <4> QED
        BY <4>1, <4>2
    <3> QED
      BY <1>1, <1>3, <2>5, <3>2, OverKept
  <2> QED
    BY <1>1, <2>4, <2>5
<1>4. \/ JobOver(FALSE)
      \/ JobOver(TRUE) /\ (stage = "completed" => Code \in {226, 250}) /\ (stage = "deleted" => Code \in {250, 200})
  <2>1. CASE Completed
    <3>1. stage = "completed"
      BY <2>1 DEF Completed
    <3>2. CASE Code \in {226, 250}
      BY <2>1, <3>1, <3>2, OverAfterReply
    <3>3. CASE Code \notin {226, 250}
      BY <2>1, <3>3, OverAfterReply
    <3> QED
      BY <3>2, <3>3
  <2>2. CASE Deleted
    <3>1. stage = "deleted"
      BY <2>2 DEF Deleted
    <3> QED
      BY <2>2, <3>1, OverAfterReply
  <2> QED
    BY <2>1, <2>2
<1> QED
  BY <1>2, <1>3, <1>4

LEMMA ClientKept ==
  ASSUME InTypes, InShape, Kept, Client \/ BreakOff
  PROVE  Kept'
<1>1. ASSUME UNCHANGED <<tool, todo, local, reports, remote, serving>>, stage \in Working => stage' \in Working
      PROVE  Kept'
  <2>1. Job' = Job /\ \A r \in reports' : KeptTrue(r)'
    BY <1>1, SameKept DEF Kept, Job
  <2> QED
    BY <1>1, <2>1 DEF Kept
<1>2. CASE Greeting \/ Login \/ TypeSet \/ Quit \/ Closed
  <2>1. UNCHANGED <<tool, todo, local, reports, remote, serving>> /\ stage \notin Working
    BY <1>2 DEF Greeting, Login, TypeSet, Quit, Closed, Stay, serverVars, Working
  <2> QED
    BY <1>1, <2>1
<1>3. CASE Receive \/ Upload
  <2>1. UNCHANGED <<tool, todo, local, reports, remote, serving>> /\ stage' = "completed"
    BY <1>3 DEF Receive, Upload, Stay, serverVars
  <2> QED
    BY <1>1, <2>1 DEF Working
<1>4. CASE Passive
  <2>1. UNCHANGED <<remote, serving>> /\ todo # <<>>
    BY <1>4 DEF Passive, serverVars, InShape, Working
  <2>2. CASE JobOver(FALSE)
    BY <2>1, <2>2, OverKept
  <2>3. CASE stage' = "opening" /\ UNCHANGED <<tool, todo, local, reports>>
    BY <1>1, <2>1, <2>3 DEF Working
  <2> QED
    BY <1>4, <2>2, <2>3 DEF Passive, Send
<1>5. CASE Opening
  <2>1. UNCHANGED <<remote, serving>> /\ todo # <<>>
    BY <1>5 DEF Opening, serverVars, InShape, Working
  <2>2. CASE JobOver(FALSE)
    BY <2>1, <2>2, OverKept
  <2>3. CASE stage' = "data" /\ Stay
    BY <1>1, <2>1, <2>3 DEF Working, Stay
  <2> QED
    BY <1>5, <2>2, <2>3 DEF Opening
<1>6. CASE BreakOff
  <2>1. UNCHANGED <<remote, serving>> /\ todo # <<>> /\ JobOver(FALSE)
    BY <1>6 DEF BreakOff, serverVars, InShape, Working
  <2> QED
    BY <2>1, OverKept
<1>7. CASE ControlFails
  <2>1. UNCHANGED <<remote, serving>> /\ stage # "data"
    BY <1>7 DEF ControlFails, serverVars
  <2>2. CASE JobOver(FALSE) /\ todo # <<>>
    BY <2>1, <2>2, OverKept
  <2>3. CASE Stay /\ stage \notin {"passive", "opening", "completed", "deleted"}
    BY <1>1, <2>1, <2>3 DEF Working, Stay
  <2> QED
    BY <1>7, <2>2, <2>3 DEF ControlFails, InShape, Working
<1> QED
  BY <1>2, <1>3, <1>4, <1>5, <1>6, <1>7, StartKept, EndedKept DEF Client

LEMMA ServerKept ==
  ASSUME InTypes, InShape, Kept, Server
  PROVE  Kept'
<1>1. UNCHANGED <<tool, todo, stage, local, reports>>
  BY DEF Server, Answer, ServePasv, ServeDele, ServeTransfer, EndTransfer, clientVars
<1>2. SUFFICES ASSUME NEW r \in reports PROVE KeptTrue(r)'
  <2>1. Job' = Job
    BY <1>1 DEF Job
  <2> QED
    BY <1>1, <2>1 DEF Kept
<1>3. KeptTrue(r) /\ (StillTodo(r[2])' <=> StillTodo(r[2])) /\ tool \in Tool
  BY <1>1 DEF Kept, StillTodo, InTypes
<1>4. ASSUME UNCHANGED <<remote, serving>> PROVE KeptTrue(r)'
  BY <1>1, <1>3, <1>4, SameKept
<1>5. ASSUME NEW c, NEW codes, Answer(c, codes) PROVE KeptTrue(r)'
  BY <1>4, <1>5 DEF Answer, serverVars
<1>6. CASE ServePasv
  BY <1>4, <1>6 DEF ServePasv
<1>7. ASSUME NEW n \in Name, ServeDele(n) PROVE KeptTrue(r)'
  <2>1. <<"DELE", n>> \in Said(tool)
    BY <1>7, HeadTailProperties DEF ServeDele, Next1, InTypes
  <2>2. tool = "rm"
    <3>1. PICK k \in JobsOf(tool) : k[1] = "rm"
      BY <2>1 DEF Said, Transfers
    <3> QED
      BY <1>3, <3>1, JobKinds
  <2>3. r[1] \in {"list", "rm"}
    BY <1>3, <2>2 DEF KeptTrue, Does
  <2>4. serving' = serving /\ (remote' = remote \/ remote' = [remote EXCEPT ![n] = "none"])
    BY <1>7 DEF ServeDele
  <2>5. r[1] = "rm" => remote'[r[2]] = "none"
    BY <1>3, <2>4 DEF KeptTrue, InTypes
  <2> QED
    BY <1>1, <1>3, <2>3, <2>5 DEF KeptTrue
<1>8. ASSUME NEW op \in Transfers, NEW n \in Name \cup {NoFile}, ServeTransfer(op, n) PROVE KeptTrue(r)'
  <2>1. CASE UNCHANGED <<remote, serving>>
    BY <1>4, <2>1
  <2>2. CASE Job = <<op, n>> /\ todo # <<>> /\ serving' = Job
    <3>1. Job \in JobsOf(tool)
      BY <2>2, JobNow
    <3>2. CASE op # "put"
      <4>1. remote' = remote /\ serving' # <<"put", r[2]>>
        BY <1>8, <2>2, <3>2 DEF ServeTransfer
      <4> QED
        BY <1>1, <1>3, <4>1 DEF KeptTrue
    <3>3. CASE op = "put"
      <4>1. tool = "put"
        BY <1>3, <2>2, <3>1, <3>3, JobKinds
      <4>2. r[1] = "put"
        BY <1>3, <4>1 DEF KeptTrue, Does
      <4>3. StillTodo(n)
        BY <2>2, <3>3, JobIsTodo DEF Files
      <4>4. n # r[2] /\ r[2] \in Name /\ remote[r[2]] = "whole" /\ ~StillTodo(r[2])
        BY <1>3, <4>2, <4>3 DEF KeptTrue
      <4>5. remote'[r[2]] = "whole" /\ serving' # <<"put", r[2]>>
        <5>1. remote' = remote \/ remote' = [remote EXCEPT ![n] = "part"]
          BY <1>8 DEF ServeTransfer
        <5>2. remote'[r[2]] = "whole"
          BY <4>4, <5>1 DEF InTypes
        <5>3. serving' = <<"put", n>>
          BY <2>2, <3>3
        <5> QED
          BY <4>4, <5>2, <5>3
      <4> QED
        BY <1>1, <1>3, <4>2, <4>4, <4>5 DEF KeptTrue
    <3> QED
      BY <3>2, <3>3
  <2> QED
    BY <1>8, <2>1, <2>2, ServeTransferShape
<1>9. ASSUME NEW how \in {"whole", "part", "reset"}, NEW code \in {226, 426}, EndTransfer(how, code)
      PROVE  KeptTrue(r)'
  <2>1. serving # Idle /\ serving' = Idle /\ \A n : Idle # <<"put", n>>
    BY <1>9 DEF EndTransfer, Idle
  <2>2. serving \in JobsOf(tool) /\ serving = <<serving[1], serving[2]>>
    BY <1>3, <2>1, JobKinds DEF InTypes
  <2>3. CASE remote' = remote
    BY <1>1, <1>3, <2>1, <2>3 DEF KeptTrue
  <2>4. CASE serving[1] = "put" /\ remote' = [remote EXCEPT ![serving[2]] = how]
    <3>1. tool = "put"
      BY <1>3, <2>2, <2>4, JobKinds
    <3>2. r[1] = "put"
      BY <1>3, <3>1 DEF KeptTrue, Does
    <3>3. remote[r[2]] = "whole" /\ serving # <<"put", r[2]>> /\ ~StillTodo(r[2])
      BY <1>3, <3>2 DEF KeptTrue
    <3>4. serving[2] # r[2]
      BY <2>2, <2>4, <3>3
    <3>5. remote'[r[2]] = "whole"
      BY <2>4, <3>3, <3>4 DEF InTypes
    <3> QED
      BY <1>1, <1>3, <2>1, <3>2, <3>3, <3>5 DEF KeptTrue
  <2> QED
    BY <1>9, <2>3, <2>4 DEF EndTransfer
<1> QED
  BY <1>5, <1>6, <1>7, <1>8, <1>9 DEF Server, Transfers

\* What is reported is true, and stays true for the whole command, whatever the server
\* answers and whenever the control connection dies: a listing was whole and its own, a
\* downloaded file is whole, an uploaded one is whole on the device, a deleted one is
\* gone, and no failed download leaves a part of a file (ftp_client.go 181-303,
\* cmd_ftp.go 261-279, 300-331). It is about get and put commands that name no file
\* twice: one that does may report a file, and then fail on it and remove it.
THEOREM ReportsAreTrue ==
  ASSUME NamedOnce
  PROVE  FtpSpec => []ReportsTrue
<1> DEFINE Inv == InTypes /\ InShape /\ InOrder /\ Kept
<1>1. FtpInit => Inv
  BY TypesInit, ShapesInit, InOrderInit, KeptInit
<1>2. Inv /\ [FtpNext]_ftpVars => Inv'
  <2> SUFFICES ASSUME Inv, [FtpNext]_ftpVars PROVE Inv'
    OBVIOUS
  <2>1. InTypes' /\ InShape' /\ InOrder'
    BY TypesStep, ShapesStep, InOrderStep
  <2>2. Kept'
    <3>1. CASE Lose \/ UNCHANGED ftpVars
      <4>1. UNCHANGED <<tool, todo, stage, local, reports, remote, serving>>
        BY <3>1 DEF Lose, ftpVars, clientVars, serverVars
      <4>2. Job' = Job /\ \A r \in reports' : KeptTrue(r)'
        BY <4>1, SameKept DEF Kept, Job
      <4> QED
        BY <4>1, <4>2 DEF Kept
    <3> QED
      BY <3>1, ClientKept, ServerKept DEF FtpNext
  <2> QED
    BY <2>1, <2>2
<1>3. Inv => ReportsTrue
  <2> SUFFICES ASSUME Inv PROVE ReportsTrue
    OBVIOUS
  <2>1. \A n \in Name : local[n] = "part" => todo # <<>> /\ Job = <<"get", n>> /\ stage # "idle"
    BY DEF Kept, InShape, Working
  <2>2. ASSUME NEW r \in reports
        PROVE  CASE r[1] = "list" -> r[3] = "whole"
                 [] r[1] = "get" -> local[r[2]] = "whole"
                 [] r[1] = "put" -> remote[r[2]] = "whole"
                 [] r[1] = "rm" -> remote[r[2]] = "none"
    <3>1. KeptTrue(r) /\ tool \in {"ls", "get", "put", "rm"}
      BY JobsAssumption DEF Kept, InTypes
    <3>2. r[1] \in {"list", "get", "put", "rm"}
      BY <3>1 DEF KeptTrue, Does
    <3> QED
      BY <3>1, <3>2 DEF KeptTrue
  <2> QED
    BY <2>1, <2>2 DEF ReportsTrue
<1> QED
  BY <1>1, <1>2, <1>3, PTL DEF FtpSpec

-----------------------------------------------------------------------------
(* HTTP: c64ctl run of a disk image, request by request. What a request    *)
(* leaves behind is told from where the command is: Stage(n) holds after n *)
(* requests, Stage(n + 1) from when the device has obeyed the next one,    *)
(* and after an error one of the two.                                      *)

\* The two chunks of keys.
First1 == <<"LOAD RUN", 1>>
Second1 == <<"LOAD RUN", 2>>

Typed0(d) == d.typed = <<>> /\ d.full = FALSE
Typed1(d) == \/ d.typed = <<First1>> /\ d.full = FALSE
             \/ d.typed = <<>> /\ d.full = TRUE /\ d.keys = First1
Typed2(d) == \/ d.typed = <<First1, Second1>> /\ d.full = FALSE
             \/ d.typed = <<First1>> /\ d.full = TRUE /\ d.keys = Second1

Stage(n, d) ==
  /\ n = 1 => Typed0(d)
  /\ n \in {2, 3, 4} => Typed0(d)
  /\ n = 4 => d.keys = First1
  /\ n \in {5, 6, 7} => Typed1(d)
  /\ n \in {6, 7} => d.full = FALSE
  /\ n = 7 => d.keys = Second1
  /\ n = 8 => Typed2(d)
  /\ n >= 2 => d.disk[DriveA] = command.value

IsDevice(d) ==
  /\ d = [ram |-> d.ram, flash |-> d.flash, disk |-> d.disk, rom |-> d.rom, power |-> d.power, cpu |-> d.cpu,
          program |-> d.program, memory |-> d.memory, image |-> d.image, keys |-> d.keys, full |-> d.full,
          typed |-> d.typed]
  /\ d.disk = [i \in DriveID |-> d.disk[i]]
  /\ d.full \in BOOLEAN

DiskRun == command.op = "run" /\ command.on \in DiskExt

\* A request that has been answered without an error has been obeyed; a poll found what
\* its answer says.
Passed == ~answer.errors /\ (Now.op = "Poll" => answer.value = "empty")

Staged ==
  /\ IsDevice(device)
  /\ at1 \in {"call", "sent", "answered"}
  /\ at1 # "call" => outcome = "running"
  /\ outcome \in {"none", "running", "nil", "failed"}
  /\ outcome = "none" => command.op = Nowhere
  /\ DiskRun =>
       /\ sofar \in 0 .. 8
       /\ outcome \in {"running", "failed"} => sofar \in 0 .. 7
       /\ outcome = "running" /\ at1 # "answered" => Stage(sofar, device)
       /\ at1 = "answered" => /\ answer.errors => answer.value = ErrorBody
                              /\ Stage(IF Passed THEN sofar + 1 ELSE sofar, device)
       /\ outcome = "nil" => Stage(sofar, device)
       /\ outcome = "failed" => Stage(sofar, device) \/ Stage(sofar + 1, device)

LEMMA TextOfRun == Chunks("LOAD RUN") = 2 /\ DriveA \in DriveID
<1>1. Keys["LOAD RUN"] = 17 /\ DriveA \in DriveID
  BY CommandAssumption
<1>2. (17 + 10 - 1) \div 10 = 2
  OBVIOUS
<1> QED
  BY <1>1, <1>2 DEF Chunks, KernalKeyBufMax

\* The eight requests.
LEMMA RunScript ==
  ASSUME DiskRun
  PROVE  /\ Len(Script(command)) = 8
         /\ Script(command)[1].op = "Reset"
         /\ Script(command)[2].op = "MountBytes" /\ Script(command)[2].on = DriveA
         /\ Script(command)[2].value = command.value
         /\ Script(command)[3].op = "Poll" /\ Script(command)[6].op = "Poll"
         /\ Script(command)[4].op = "PutKeys" /\ Script(command)[7].op = "PutKeys"
         /\ <<Script(command)[4].value, Script(command)[4].args[1]>> = First1
         /\ <<Script(command)[7].value, Script(command)[7].args[1]>> = Second1
         /\ Script(command)[5].op = "PutCount" /\ Script(command)[8].op = "PutCount"
<1> DEFINE reset == Do("Reset", Nowhere, Nowhere, None)
           mount == Do("MountBytes", DriveA, command.value, None)
           Part(k) == Do(<<"Poll", "PutKeys", "PutCount">>[((k - 1) % 3) + 1], Nowhere, "LOAD RUN", <<((k - 1) \div 3) + 1, 0>>)
           parts == [k \in 1 .. 6 |-> Part(k)]
           all == <<reset>> \o (<<mount>> \o parts)
<1>1. feed("LOAD RUN") = parts
  <2>1. 3 * Chunks("LOAD RUN") = 6
    <3>1. 3 * 2 = 6
      OBVIOUS
    <3> QED
      BY <3>1, TextOfRun
  <2> QED
    BY <2>1 DEF feed
<1>2. Script(command) = all
  <2> HIDE DEF reset, mount, parts
  <2>1. command.op = "run" /\ command.on \in DiskExt
    BY DEF DiskRun
  <2>2. Route(command) = <<mount>> \o parts
    <3>1. command.on # "tap" /\ command.on # "unreadable" /\ command.on # "t64"
      BY <2>1 DEF DiskExt
    <3> QED
      BY <1>1, <2>1, <3>1 DEF Route, mount
  <2> QED
    BY <2>1, <2>2 DEF Script, reset
<1>3. /\ Part(1).op = "Poll" /\ Part(4).op = "Poll" /\ Part(2).op = "PutKeys" /\ Part(5).op = "PutKeys"
      /\ Part(3).op = "PutCount" /\ Part(6).op = "PutCount"
      /\ <<Part(2).value, Part(2).args[1]>> = First1 /\ <<Part(5).value, Part(5).args[1]>> = Second1
  BY SMT DEF Do, First1, Second1
<1>4. /\ reset.op = "Reset" /\ mount.op = "MountBytes" /\ mount.on = DriveA /\ mount.value = command.value
  BY DEF Do
<1>5. /\ Len(all) = 8 /\ all[1] = reset /\ all[2] = mount
      /\ \A k \in 1 .. 6 : all[k + 2] = Part(k)
  <2> HIDE DEF Part, reset, mount
  <2>1. PICK s : s = parts
    OBVIOUS
  <2>3. PICK U : reset \in U /\ mount \in U /\ \A k \in 1 .. 6 : Part(k) \in U
    <3> DEFINE V == {reset, mount} \union {Part(k) : k \in 1 .. 6}
    <3>1. reset \in V /\ mount \in V /\ \A k \in 1 .. 6 : Part(k) \in V
      OBVIOUS
    <3> HIDE DEF V
    <3> QED
      BY <3>1
  <2>2. s \in Seq(U) /\ Len(s) = 6 /\ \A k \in 1 .. 6 : s[k] = Part(k)
    <3>1. s = [k \in 1 .. 6 |-> Part(k)]
      BY <2>1
    <3>2. s \in [1 .. 6 -> U] /\ 6 \in Nat
      BY <2>3, <3>1
    <3> QED
      BY <3>1, <3>2
  <2>4. s \in Seq(U) /\ <<mount>> \in Seq(U) /\ <<reset>> \in Seq(U)
    <3>1. \A x \in U : <<x>> \in Seq(U)
      OBVIOUS
    <3> QED
      BY <2>2, <2>3, <3>1
  <2>5. PICK u \in Seq(U) : u = <<mount>> \o s
    BY <2>4, ConcatProperties
  <2>a. ASSUME NEW x \in U, NEW q \in Seq(U)
        PROVE  /\ Len(<<x>> \o q) = 1 + Len(q) /\ (<<x>> \o q)[1] = x
               /\ \A k \in 1 .. Len(q) : (<<x>> \o q)[k + 1] = q[k]
    <3>1. <<x>> \in Seq(U) /\ Len(<<x>>) = 1 /\ <<x>>[1] = x /\ Len(q) \in Nat
      OBVIOUS
    <3>2. /\ Len(<<x>> \o q) = Len(<<x>>) + Len(q)
          /\ \A k \in 1 .. Len(<<x>>) + Len(q) :
               (<<x>> \o q)[k] = IF k <= Len(<<x>>) THEN <<x>>[k] ELSE q[k - Len(<<x>>)]
      BY <3>1, ConcatProperties
    <3>3. \A k \in 1 .. Len(q) : k + 1 \in 1 .. 1 + Len(q) /\ ~(k + 1 <= 1) /\ (k + 1) - 1 = k
      BY <3>1
    <3>4. 1 \in 1 .. 1 + Len(q)
      BY <3>1
    <3> QED
      BY <3>1, <3>2, <3>3, <3>4
  <2>6. Len(u) = 7 /\ u[1] = mount /\ \A k \in 1 .. 6 : u[k + 1] = s[k]
    <3>1. /\ Len(<<mount>> \o s) = 1 + Len(s) /\ (<<mount>> \o s)[1] = mount
          /\ \A k \in 1 .. Len(s) : (<<mount>> \o s)[k + 1] = s[k]
      BY <2>a, <2>2, <2>3
    <3> QED
      BY <2>2, <2>5, <3>1
  <2>7. Len(<<reset>> \o u) = 8 /\ (<<reset>> \o u)[1] = reset /\ \A k \in 1 .. 7 : (<<reset>> \o u)[k + 1] = u[k]
    BY <2>a, <2>3, <2>5, <2>6
  <2>8. all = <<reset>> \o u
    BY <2>1, <2>5
  <2>9. /\ 1 \in 1 .. 7 /\ 1 + 1 = 2 /\ \A k \in 1 .. 6 : k + 1 \in 1 .. 7 /\ (k + 1) + 1 = k + 2
    OBVIOUS
  <2> HIDE DEF all
  <2>10. all[2] = mount
    BY <2>6, <2>7, <2>8, <2>9
  <2>11. ASSUME NEW k \in 1 .. 6 PROVE all[k + 2] = Part(k)
    <3>1. all[(k + 1) + 1] = u[k + 1]
      BY <2>7, <2>8, <2>9
    <3> QED
      BY <2>2, <2>6, <2>9, <3>1
  <2> QED
    BY <2>7, <2>8, <2>10, <2>11
<1> HIDE DEF all, Part, reset, mount
<1>6. /\ all[3] = Part(1) /\ all[4] = Part(2) /\ all[5] = Part(3)
      /\ all[6] = Part(4) /\ all[7] = Part(5) /\ all[8] = Part(6)
  <2>1. 1 + 2 = 3 /\ 2 + 2 = 4 /\ 3 + 2 = 5 /\ 4 + 2 = 6 /\ 5 + 2 = 7 /\ 6 + 2 = 8
    OBVIOUS
  <2>2. {1, 2, 3, 4, 5, 6} \subseteq 1 .. 6
    OBVIOUS
  <2> QED
    BY <1>5, <2>1, <2>2
<1> QED
  BY <1>2, <1>3, <1>4, <1>5, <1>6

\* A request leaves a device.
LEMMA StaysDevice ==
  ASSUME NEW d, IsDevice(d), NEW r
  PROVE  IsDevice(Obeyed1(r, d))
<1>1. IsDevice(ConfigsCall(r, d))
  BY DEF IsDevice, ConfigsCall
<1>2. ASSUME NEW e, IsDevice(e) PROVE IsDevice(MachineCall(r, e))
  <2>1. CASE r.op = "Reboot"
    BY <1>2, <2>1 DEF IsDevice, MachineCall, Everywhere
  <2>2. CASE r.op # "Reboot"
    BY <1>2, <2>2 DEF IsDevice, MachineCall
  <2> QED
    BY <2>1, <2>2
<1>3. ASSUME NEW e, IsDevice(e) PROVE IsDevice(DrivesCall(r, e))
  BY <1>3 DEF IsDevice, DrivesCall
<1>4. ASSUME NEW e, IsDevice(e) PROVE IsDevice(FilesCall(r, RunnersCall(r, e)))
  BY <1>4 DEF IsDevice, FilesCall, RunnersCall
<1> QED
  BY <1>1, <1>2, <1>3, <1>4 DEF Obeyed1

\* The next request of the run, obeyed, brings it to its next stage.
LEMMA StageObeyed ==
  ASSUME DiskRun, IsDevice(device), sofar \in 0 .. 7, Stage(sofar, device),
         Now.op = "Poll" => device.full = FALSE
  PROVE  Stage(sofar + 1, Obeyed1(Now, device))
<1> DEFINE d == device
           n == sofar
<1>0. Now = Script(command)[n + 1] /\ n \in 0 .. 7
  BY DEF Now
<1>1. ASSUME Now.op = "Reset" PROVE Typed0(Obeyed1(Now, d))
  BY <1>1 DEF Obeyed1, MachineCall, DrivesCall, RunnersCall, FilesCall, IsDevice, Typed0
<1>2. ASSUME Now.op = "MountBytes", Now.on = DriveA, Now.value = command.value
      PROVE  /\ Obeyed1(Now, d).typed = d.typed /\ Obeyed1(Now, d).full = d.full
             /\ Obeyed1(Now, d).disk[DriveA] = command.value
  BY <1>2, TextOfRun DEF Obeyed1, MachineCall, DrivesCall, RunnersCall, FilesCall, IsDevice
<1>3. ASSUME Now.op = "Poll" PROVE Obeyed1(Now, d) = d
  BY <1>3 DEF Obeyed1, MachineCall, DrivesCall, RunnersCall, FilesCall
<1>4. ASSUME Now.op = "PutKeys"
      PROVE  /\ Obeyed1(Now, d).typed = d.typed /\ Obeyed1(Now, d).full = d.full
             /\ Obeyed1(Now, d).keys = <<Now.value, Now.args[1]>> /\ Obeyed1(Now, d).disk = d.disk
  BY <1>4 DEF Obeyed1, MachineCall, DrivesCall, RunnersCall, FilesCall, IsDevice
<1>5. ASSUME Now.op = "PutCount"
      PROVE  /\ Obeyed1(Now, d).typed = d.typed /\ Obeyed1(Now, d).full = TRUE
             /\ Obeyed1(Now, d).keys = d.keys /\ Obeyed1(Now, d).disk = d.disk
  BY <1>5 DEF Obeyed1, MachineCall, DrivesCall, RunnersCall, FilesCall, IsDevice
<1> DEFINE e == Obeyed1(Now, d)
<1> HIDE DEF e
<1>6. CASE n = 0
  <2>1. Typed0(e)
    BY <1>0, <1>1, <1>6, RunScript DEF e
  <2> QED
    BY <1>6, <2>1 DEF Stage, e
<1>7. CASE n = 1
  <2>1. Now.op = "MountBytes" /\ Now.on = DriveA /\ Now.value = command.value
    BY <1>0, <1>7, RunScript
  <2>2. Typed0(e) /\ e.disk[DriveA] = command.value
    BY <1>2, <1>7, <2>1 DEF Stage, Typed0, e
  <2> QED
    BY <1>7, <2>2 DEF Stage, e
<1>8. CASE n \in {2, 5}
  <2>1. Now.op = "Poll"
    BY <1>0, <1>8, RunScript
  <2>2. e = d /\ d.full = FALSE
    BY <1>3, <2>1 DEF e
  <2> QED
    BY <1>8, <2>2 DEF Stage, e
<1>9. CASE n \in {3, 6}
  <2>1. Now.op = "PutKeys" /\ <<Now.value, Now.args[1]>> = IF n = 3 THEN First1 ELSE Second1
    BY <1>0, <1>9, RunScript
  <2>2. /\ e.typed = d.typed /\ e.full = d.full /\ e.disk = d.disk
        /\ e.keys = IF n = 3 THEN First1 ELSE Second1
    BY <1>4, <2>1 DEF e
  <2>3. n = 3 => Typed0(d)
    BY DEF Stage
  <2>4. n = 6 => Typed1(d) /\ d.full = FALSE
    BY DEF Stage
  <2>5. d.disk[DriveA] = command.value
    BY <1>9 DEF Stage
  <2>6. n = 3 => Typed0(e)
    BY <2>2, <2>3 DEF Typed0
  <2>7. n = 6 => Typed1(e)
    BY <2>2, <2>4 DEF Typed1
  <2> QED
    BY <1>9, <2>2, <2>4, <2>5, <2>6, <2>7 DEF Stage, e
<1>10. CASE n \in {4, 7}
  <2>1. Now.op = "PutCount"
    BY <1>0, <1>10, RunScript
  <2>2. e.typed = d.typed /\ e.full = TRUE /\ e.keys = d.keys /\ e.disk = d.disk
    BY <1>5, <2>1 DEF e
  <2>3. n = 4 => Typed0(d) /\ d.keys = First1
    BY DEF Stage
  <2>4. n = 7 => Typed1(d) /\ d.full = FALSE /\ d.keys = Second1
    BY DEF Stage
  <2>5. d.disk[DriveA] = command.value
    BY <1>10 DEF Stage
  <2>6. n = 4 => Typed1(e)
    BY <2>2, <2>3 DEF Typed0, Typed1
  <2>7. n = 7 => Typed2(e)
    BY <2>2, <2>4 DEF Typed1, Typed2
  <2> QED
    BY <1>10, <2>2, <2>5, <2>6, <2>7 DEF Stage, e
<1> QED
  BY <1>0, <1>6, <1>7, <1>8, <1>9, <1>10

\* The KERNAL reads keys at any stage.
LEMMA StageTaken ==
  ASSUME NEW n \in Nat, NEW d, IsDevice(d), Stage(n, d), d.full
  PROVE  Stage(n, [d EXCEPT !.typed = Append(@, d.keys), !.full = FALSE])
<1> DEFINE e == [d EXCEPT !.typed = Append(@, d.keys), !.full = FALSE]
<1>1. e.typed = Append(d.typed, d.keys) /\ e.full = FALSE /\ e.keys = d.keys /\ e.disk = d.disk
  BY DEF IsDevice
<1> HIDE DEF e
<1>2. \A x, y : Append(<<>>, x) = <<x>> /\ Append(<<x>>, y) = <<x, y>>
  <2> TAKE x, y
  <2>1. PICK U : x \in U /\ y \in U
    <3>1. x \in {x, y} /\ y \in {x, y}
      OBVIOUS
    <3> QED
      BY <3>1
  <2>2. Append(<<>>, x) = <<x>>
    BY <2>1
  <2>3. <<x>> \in Seq(U) /\ Len(<<x>>) = 1 /\ <<x>>[1] = x
    BY <2>1
  <2>4. Append(<<x>>, y) = <<x, y>>
    <3>1. PICK s : s = Append(<<x>>, y)
      OBVIOUS
    <3>2. s \in Seq(U) /\ Len(s) = 2 /\ s[1] = x /\ s[2] = y
      BY <2>1, <2>3, <3>1, AppendProperties
    <3>3. <<x, y>> \in Seq(U) /\ Len(<<x, y>>) = 2 /\ <<x, y>>[1] = x /\ <<x, y>>[2] = y
      BY <2>1
    <3>4. \A i \in 1 .. 2 : s[i] = <<x, y>>[i]
      BY <3>2, <3>3
    <3> QED
      BY <3>1, <3>2, <3>3, <3>4, SeqEqual
  <2> QED
    BY <2>2, <2>4
<1>3. ASSUME Typed0(d) PROVE FALSE
  BY <1>3 DEF Typed0
<1>4. ASSUME Typed1(d) PROVE Typed1(e)
  BY <1>1, <1>2, <1>4 DEF Typed1
<1>5. ASSUME Typed2(d) PROVE Typed2(e)
  BY <1>1, <1>2, <1>5 DEF Typed2
<1> QED
  BY <1>1, <1>3, <1>4, <1>5 DEF Stage, e

LEMMA StagedInit == HttpInit => Staged
<1> SUFFICES ASSUME HttpInit PROVE Staged
  OBVIOUS
<1>1. device.disk = Everywhere(Nowhere) /\ device.full = FALSE /\ IsDevice(device)
  BY DEF HttpInit, IsDevice, Everywhere
<1>2. command.op = Nowhere /\ Nowhere # "run"
  BY DEF HttpInit, Do, Nowhere
<1> QED
  BY <1>1, <1>2 DEF HttpInit, Staged, DiskRun

LEMMA StagedNext == Staged /\ [HttpNext]_httpVars => Staged'
<1> SUFFICES ASSUME Staged, [HttpNext]_httpVars PROVE Staged'
  OBVIOUS
<1>0. /\ IsDevice(device) /\ at1 \in {"call", "sent", "answered"}
      /\ at1 # "call" => outcome = "running"
      /\ outcome \in {"none", "running", "nil", "failed"}
      /\ outcome = "none" => command.op = Nowhere
  BY DEF Staged
<1>1. ASSUME NEW c \in Command, Invoke(c) PROVE Staged'
  <2>1. /\ command' = c /\ sofar' = 0 /\ outcome' = "running" /\ device' = device /\ at1' = at1 /\ at1 = "call"
    BY <1>0, <1>1 DEF Invoke, Running1
  <2>2. Stage(0, device)'
    BY <2>1 DEF Stage
  <2> QED
    BY <1>0, <2>1, <2>2 DEF Staged, IsDevice
<1>2. CASE Reject
  <2>1. /\ command' = command /\ sofar' = sofar /\ outcome = "running" /\ outcome' = "failed"
        /\ device' = device /\ at1' = at1 /\ at1 = "call"
    BY <1>2 DEF Reject, Running1
  <2>2. DiskRun' <=> DiskRun
    BY <2>1 DEF DiskRun
  <2>3. ASSUME DiskRun PROVE Stage(sofar, device)' /\ sofar \in 0 .. 8 /\ sofar \in 0 .. 7
    BY <2>1, <2>3 DEF Staged, Stage
  <2> QED
    BY <1>0, <2>1, <2>2, <2>3 DEF Staged, IsDevice
<1>3. CASE SendRequest
  <2>1. /\ command' = command /\ sofar' = sofar /\ outcome = "running" /\ outcome' = "running"
        /\ device' = device /\ at1' = "sent" /\ at1 = "call"
    BY <1>3 DEF SendRequest, Running1
  <2>2. DiskRun' <=> DiskRun
    BY <2>1 DEF DiskRun
  <2>3. ASSUME DiskRun PROVE Stage(sofar, device)' /\ sofar \in 0 .. 7 /\ sofar \in 0 .. 8
    BY <2>1, <2>3 DEF Staged, Stage
  <2> QED
    BY <1>0, <2>1, <2>2, <2>3 DEF Staged, IsDevice
<1>4. CASE ObeyRequest
  <2>1. /\ command' = command /\ sofar' = sofar /\ outcome = "running" /\ outcome' = "running"
        /\ device' = Obeyed1(Now, device) /\ at1' = "answered" /\ at1 = "sent"
        /\ Now' = Now
        /\ answer'.errors = FALSE
        /\ Now.op = "Poll" => answer'.value = Held(Now, device)
    BY <1>0, <1>4 DEF ObeyRequest, Answer2, Now, Reads
  <2>2. DiskRun' <=> DiskRun
    BY <2>1 DEF DiskRun
  <2>3. IsDevice(device')
    BY <1>0, <2>1, StaysDevice
  <2>4. ASSUME DiskRun PROVE sofar \in 0 .. 7 /\ Stage(sofar, device)
    BY <2>1, <2>4 DEF Staged
  <2>5. Now.op = "Poll" => (answer'.value = "empty" <=> device.full = FALSE)
    <3>1. ASSUME Now.op = "Poll" PROVE Held(Now, device) = IF device.full THEN "keys" ELSE "empty"
      BY <3>1 DEF Held
    <3> QED
      BY <1>0, <2>1, <3>1 DEF IsDevice
  <2>6. ASSUME DiskRun PROVE Stage(IF Passed THEN sofar + 1 ELSE sofar, device)'
    <3>1. CASE Now.op = "Poll" => device.full = FALSE
      <4>1. Passed'
        BY <2>1, <2>5, <3>1 DEF Passed
      <4>2. Stage(sofar + 1, Obeyed1(Now, device))
        BY <1>0, <2>4, <2>6, <3>1, StageObeyed
      <4> QED
        BY <2>1, <4>1, <4>2 DEF Stage
    <3>2. CASE Now.op = "Poll" /\ device.full # FALSE
      <4>1. ~Passed'
        BY <2>1, <2>5, <3>2 DEF Passed
      <4>2. device' = device
        BY <2>1, <3>2 DEF Obeyed1, MachineCall, DrivesCall, RunnersCall, FilesCall
      <4> QED
        BY <2>1, <2>4, <2>6, <4>1, <4>2 DEF Stage
    <3> QED
      BY <3>1, <3>2
  <2>7. IsDevice(device)'
    BY <2>3 DEF IsDevice
  <2> QED
    BY <2>1, <2>2, <2>4, <2>6, <2>7 DEF Staged
<1>5. CASE Refuse
  <2>1. /\ command' = command /\ sofar' = sofar /\ outcome = "running" /\ outcome' = "running"
        /\ device' = device /\ at1' = "answered" /\ at1 = "sent" /\ Now' = Now
        /\ answer'.errors = TRUE /\ answer'.value = ErrorBody
    BY <1>0, <1>5 DEF Refuse, Answer2, Now
  <2>2. DiskRun' <=> DiskRun
    BY <2>1 DEF DiskRun
  <2>3. ~Passed'
    BY <2>1 DEF Passed
  <2>4. ASSUME DiskRun PROVE sofar \in 0 .. 7 /\ sofar \in 0 .. 8 /\ Stage(sofar, device)'
    BY <2>1, <2>4 DEF Staged, Stage
  <2> QED
    BY <1>0, <2>1, <2>2, <2>3, <2>4 DEF Staged, IsDevice
<1>6. CASE Evaluate
  <2>1. /\ command' = command /\ device' = device /\ at1' = "call" /\ at1 = "answered" /\ outcome = "running"
    BY <1>0, <1>6 DEF Evaluate
  <2>2. DiskRun' <=> DiskRun
    BY <2>1 DEF DiskRun
  <2>3. ASSUME DiskRun
        PROVE  /\ sofar \in 0 .. 7 /\ (answer.errors => answer.value = ErrorBody)
               /\ Stage(IF Passed THEN sofar + 1 ELSE sofar, device)
    BY <2>1, <2>3 DEF Staged
  <2>4. \A n : Stage(n, device) => Stage(n, device)'
    BY <2>1 DEF Stage
  <2>5. CASE Outcome1(Now, answer) # "nil"
    <3>1. outcome' = "failed" /\ sofar' = sofar
      BY <1>6, <2>5 DEF Evaluate
    <3>2. ASSUME DiskRun PROVE sofar \in 0 .. 7 /\ sofar \in 0 .. 8 /\ (Stage(sofar, device)' \/ Stage(sofar + 1, device)')
      BY <2>3, <2>4, <3>1, <3>2
    <3> QED
      BY <1>0, <2>1, <2>2, <3>1, <3>2 DEF Staged, IsDevice
  <2>6. CASE Outcome1(Now, answer) = "nil" /\ Now.op = "Poll" /\ answer.value # "empty"
    <3>1. outcome' = outcome /\ sofar' = sofar
      BY <1>6, <2>6 DEF Evaluate
    <3>2. ~Passed
      BY <2>6 DEF Passed
    <3>3. ASSUME DiskRun PROVE sofar \in 0 .. 8 /\ Stage(sofar, device)'
      BY <2>3, <2>4, <3>1, <3>2, <3>3
    <3> QED
      BY <1>0, <2>1, <2>2, <2>3, <3>1, <3>3 DEF Staged, IsDevice
  <2>7. CASE Outcome1(Now, answer) = "nil" /\ ~(Now.op = "Poll" /\ answer.value # "empty")
    <3>1. sofar' = sofar + 1 /\ outcome' = IF sofar + 1 = Len(Script(command)) THEN "nil" ELSE "running"
      BY <1>6, <2>7 DEF Evaluate
    <3>2. ASSUME DiskRun PROVE Passed
      <4>1. CASE Now.op = "Poll"
        <5>1. answer.value = "empty" /\ ErrorBody # "empty"
          BY <2>7, <4>1 DEF ErrorBody
        <5>2. ~answer.errors
          BY <2>3, <3>2, <5>1
        <5> QED
          BY <5>1, <5>2 DEF Passed
      <4>2. CASE Now.op # "Poll"
        <5>1. Now.op \notin {"Get", "Peek", "Poll"}
          BY <2>3, <3>2, <4>2, RunScript DEF Now
        <5>2. Outcome1(Now, answer) = getJSON(answer, Now.op \in Reads)
          BY <5>1 DEF Outcome1
        <5>3. ~answer.errors
          BY <2>7, <5>2 DEF getJSON
        <5> QED
          BY <4>2, <5>3 DEF Passed
      <4> QED
        BY <4>1, <4>2
    <3>3. ASSUME DiskRun PROVE sofar + 1 \in 0 .. 8 /\ Stage(sofar + 1, device) /\ (outcome' = "running" => sofar + 1 \in 0 .. 7)
      BY <2>3, <3>1, <3>2, <3>3, RunScript
    <3>4. ASSUME DiskRun PROVE Stage(sofar, device)'
      BY <2>1, <3>1, <3>3, <3>4 DEF Stage
    <3> QED
      BY <1>0, <2>1, <2>2, <3>1, <3>3, <3>4 DEF Staged, IsDevice
  <2> QED
    BY <2>5, <2>6, <2>7
<1>7. CASE RequestFails
  <2>1. /\ command' = command /\ sofar' = sofar /\ outcome = "running" /\ outcome' = "failed"
        /\ device' = device /\ at1' = "call" /\ at1 \in {"sent", "answered"}
    BY <1>0, <1>7 DEF RequestFails
  <2>2. DiskRun' <=> DiskRun
    BY <2>1 DEF DiskRun
  <2>3. ASSUME DiskRun PROVE sofar \in 0 .. 7 /\ sofar \in 0 .. 8 /\ (Stage(sofar, device) \/ Stage(sofar + 1, device))
    BY <2>1, <2>3 DEF Staged
  <2>4. \A n : Stage(n, device) => Stage(n, device)'
    BY <2>1 DEF Stage
  <2>5. ASSUME DiskRun PROVE Stage(sofar, device)' \/ Stage(sofar + 1, device)'
    BY <2>1, <2>3, <2>4, <2>5
  <2> QED
    BY <1>0, <2>1, <2>2, <2>3, <2>5 DEF Staged, IsDevice
<1>8. CASE TakeKeys
  <2>1. /\ command' = command /\ sofar' = sofar /\ outcome' = outcome /\ at1' = at1 /\ answer' = answer /\ Now' = Now
        /\ device.full /\ device' = [device EXCEPT !.typed = Append(@, device.keys), !.full = FALSE]
    BY <1>8 DEF TakeKeys, Now
  <2>2. DiskRun' <=> DiskRun
    BY <2>1 DEF DiskRun
  <2>3. Passed' <=> Passed
    BY <2>1 DEF Passed
  <2>4. IsDevice(device')
    BY <1>0, <2>1 DEF IsDevice
  <2>5. ASSUME NEW n \in Nat, Stage(n, device) PROVE Stage(n, device)'
    <3>1. Stage(n, [device EXCEPT !.typed = Append(@, device.keys), !.full = FALSE])
      BY <1>0, <2>1, <2>5, StageTaken
    <3> QED
      BY <2>1, <3>1 DEF Stage
  <2>6. ASSUME DiskRun
        PROVE  /\ sofar \in 0 .. 8 /\ sofar \in Nat /\ sofar + 1 \in Nat
               /\ outcome \in {"running", "failed"} => sofar \in 0 .. 7
               /\ outcome = "running" /\ at1 # "answered" => Stage(sofar, device)
               /\ at1 = "answered" => /\ answer.errors => answer.value = ErrorBody
                                      /\ Stage(IF Passed THEN sofar + 1 ELSE sofar, device)
               /\ outcome = "nil" => Stage(sofar, device)
               /\ outcome = "failed" => Stage(sofar, device) \/ Stage(sofar + 1, device)
    BY <2>6 DEF Staged
  <2>7. ASSUME DiskRun, at1 = "answered" PROVE Stage(IF Passed THEN sofar + 1 ELSE sofar, device)'
    <3>1. CASE Passed
      <4>1. Stage(sofar + 1, device)
        BY <2>6, <2>7, <3>1
      <4> QED
        BY <2>1, <2>3, <2>5, <2>6, <2>7, <3>1, <4>1 DEF Stage
    <3>2. CASE ~Passed
      <4>1. Stage(sofar, device)
        BY <2>6, <2>7, <3>2
      <4> QED
        BY <2>1, <2>3, <2>5, <2>6, <2>7, <3>2, <4>1 DEF Stage
    <3> QED
      BY <3>1, <3>2
  <2>8. ASSUME DiskRun, Stage(sofar, device) PROVE Stage(sofar, device)'
    BY <2>1, <2>5, <2>6, <2>8 DEF Stage
  <2>9. ASSUME DiskRun, Stage(sofar + 1, device) PROVE Stage(sofar + 1, device)'
    BY <2>1, <2>5, <2>6, <2>9 DEF Stage
  <2>10. IsDevice(device)'
    BY <2>4 DEF IsDevice
  <2> QED
    BY <1>0, <2>1, <2>2, <2>6, <2>7, <2>8, <2>9, <2>10 DEF Staged
<1>9. CASE UNCHANGED httpVars
  <2>1. /\ command' = command /\ sofar' = sofar /\ outcome' = outcome /\ at1' = at1 /\ answer' = answer /\ Now' = Now
        /\ device' = device
    BY <1>9 DEF httpVars, Now
  <2>2. DiskRun' <=> DiskRun
    BY <2>1 DEF DiskRun
  <2>3. Passed' <=> Passed
    BY <2>1 DEF Passed
  <2>4. ASSUME DiskRun, at1 = "answered" PROVE Stage(IF Passed THEN sofar + 1 ELSE sofar, device)'
    <3>1. Stage(IF Passed THEN sofar + 1 ELSE sofar, device)
      BY <2>4 DEF Staged
    <3> QED
      BY <2>1, <2>3, <3>1 DEF Stage
  <2>5. (Stage(sofar, device) => Stage(sofar, device)') /\ (Stage(sofar + 1, device) => Stage(sofar + 1, device)')
    BY <2>1 DEF Stage
  <2>6. IsDevice(device)'
    BY <1>0, <2>1 DEF IsDevice
  <2> QED
    BY <2>1, <2>2, <2>4, <2>5, <2>6 DEF Staged
<1> QED
  BY <1>1, <1>2, <1>3, <1>4, <1>5, <1>6, <1>7, <1>8, <1>9 DEF HttpNext

LEMMA Beginnings ==
  /\ IsPrefix(<<>>, Text1("LOAD RUN"))
  /\ IsPrefix(<<First1>>, Text1("LOAD RUN"))
  /\ IsPrefix(<<First1, Second1>>, Text1("LOAD RUN"))
<1>t. PICK t : t = Text1("LOAD RUN")
  OBVIOUS
<1>1. PICK U : First1 \in U /\ Second1 \in U
  <2>1. First1 \in {First1, Second1} /\ Second1 \in {First1, Second1}
    OBVIOUS
  <2> QED
    BY <2>1
<1> DEFINE K(i) == <<"LOAD RUN", i>>
<1>2. t = [i \in 1 .. 2 |-> K(i)] /\ K(1) = First1 /\ K(2) = Second1
  BY <1>t, TextOfRun DEF Text1, First1, Second1
<1> HIDE DEF K
<1>3. t \in Seq(U) /\ Len(t) = 2 /\ t[1] = First1 /\ t[2] = Second1
  <2>1. t[1] = First1 /\ t[2] = Second1 /\ DOMAIN t = 1 .. 2
    BY <1>2
  <2>2. t \in [1 .. 2 -> U] /\ 2 \in Nat
    <3>1. \A i \in 1 .. 2 : i = 1 \/ i = 2
      OBVIOUS
    <3> QED
      BY <1>1, <1>2, <3>1
  <2>3. t \in Seq(U) /\ Len(t) = 2
    <3>1. t = [i \in 1 .. 2 |-> K(i)] /\ \A i \in 1 .. 2 : K(i) \in U
      BY <1>2, <2>2
    <3> QED
      BY <3>1
  <2> QED
    BY <2>1, <2>3
<1>4. ASSUME NEW s \in Seq(U), Len(s) <= 2, \A i \in 1 .. Len(s) : s[i] = t[i] PROVE IsPrefix(s, t)
  <2>1. Len(s) \in Nat
    OBVIOUS
  <2>2. SubSeq(s, 1, Len(s)) = s
    BY SubSeqFull
  <2>3. \A i \in 1 .. Len(s) : t[i] \in U
    BY <1>1, <1>3, <1>4, <2>1
  <2>4. /\ SubSeq(t, 1, Len(s)) \in Seq(U) /\ Len(SubSeq(t, 1, Len(s))) = Len(s)
        /\ \A i \in 1 .. Len(s) : SubSeq(t, 1, Len(s))[i] = t[i]
    <3>1. /\ SubSeq(t, 1, Len(s)) \in Seq(U)
          /\ Len(SubSeq(t, 1, Len(s))) = IF 1 <= Len(s) THEN Len(s) - 1 + 1 ELSE 0
          /\ \A i \in 1 .. Len(s) - 1 + 1 : SubSeq(t, 1, Len(s))[i] = t[1 + i - 1]
      BY <2>1, <2>3, SubSeqProperties
    <3>2. Len(s) - 1 + 1 = Len(s) /\ (~(1 <= Len(s)) => Len(s) = 0) /\ \A i \in 1 .. Len(s) : 1 + i - 1 = i
      BY <2>1
    <3> QED
      BY <3>1, <3>2
  <2>5. SubSeq(t, 1, Len(s)) = s
    BY <1>4, <2>4, SeqEqual
  <2> QED
    BY <1>3, <1>4, <2>2, <2>5 DEF IsPrefix
<1>5. /\ <<First1>> \in Seq(U) /\ Len(<<First1>>) = 1 /\ <<First1>>[1] = First1
      /\ <<First1, Second1>> \in Seq(U) /\ Len(<<First1, Second1>>) = 2
      /\ <<First1, Second1>>[1] = First1 /\ <<First1, Second1>>[2] = Second1
  BY <1>1
<1>6. IsPrefix(<<>>, t)
  <2>1. <<>> \in Seq(U) /\ Len(<<>>) = 0
    OBVIOUS
  <2>2. Len(<<>>) <= 2 /\ \A i \in 1 .. Len(<<>>) : <<>>[i] = t[i]
    BY <2>1
  <2> QED
    BY <1>4, <2>1, <2>2
<1>7. IsPrefix(<<First1>>, t)
  <2>1. PICK s \in Seq(U) : s = <<First1>>
    BY <1>5
  <2>2. Len(s) = 1 /\ s[1] = t[1] /\ \A i \in 1 .. 1 : i = 1
    BY <1>3, <1>5, <2>1
  <2>3. Len(s) <= 2 /\ \A i \in 1 .. Len(s) : s[i] = t[i]
    BY <2>2
  <2> QED
    BY <1>4, <2>1, <2>3
<1>8. IsPrefix(<<First1, Second1>>, t)
  <2>1. PICK s \in Seq(U) : s = <<First1, Second1>>
    BY <1>5
  <2>2. Len(s) = 2 /\ s[1] = t[1] /\ s[2] = t[2] /\ \A i \in 1 .. 2 : i = 1 \/ i = 2
    BY <1>3, <1>5, <2>1
  <2>3. Len(s) <= 2 /\ \A i \in 1 .. Len(s) : s[i] = t[i]
    BY <2>2
  <2> QED
    BY <1>4, <2>1, <2>3
<1> QED
  BY <1>t, <1>6, <1>7, <1>8

\* What a run of a disk image has typed, and waits in the buffer.
LEMMA EnteredIs ==
  /\ Typed0(device) => Entered(device) = <<>>
  /\ Typed1(device) => Entered(device) = <<First1>>
  /\ Typed2(device) => Entered(device) = <<First1, Second1>>
<1>1. PICK U : First1 \in U /\ Second1 \in U
  <2>1. First1 \in {First1, Second1} /\ Second1 \in {First1, Second1}
    OBVIOUS
  <2> QED
    BY <2>1
<1>2. \A s \in Seq(U) : s \o <<>> = s /\ <<>> \o s = s
  BY ConcatEmptySeq
<1>3. <<>> \in Seq(U) /\ <<First1>> \in Seq(U) /\ <<First1, Second1>> \in Seq(U)
  BY <1>1
<1>4. <<First1>> \o <<Second1>> = <<First1, Second1>>
  <2>1. <<Second1>> \in Seq(U) /\ Len(<<First1>>) = 1 /\ Len(<<Second1>>) = 1 /\ <<First1>>[1] = First1 /\ <<Second1>>[1] = Second1
    BY <1>1
  <2>2. PICK s : s = <<First1>> \o <<Second1>>
    OBVIOUS
  <2>3. /\ s \in Seq(U) /\ Len(s) = 1 + 1
        /\ \A i \in 1 .. 1 + 1 : s[i] = IF i <= 1 THEN <<First1>>[i] ELSE <<Second1>>[i - 1]
    BY <1>3, <2>1, <2>2, ConcatProperties
  <2>4. Len(s) = 2 /\ s[1] = First1 /\ s[2] = Second1
    BY <2>1, <2>3
  <2>5. Len(<<First1, Second1>>) = 2 /\ <<First1, Second1>>[1] = First1 /\ <<First1, Second1>>[2] = Second1
    BY <1>1
  <2>6. \A i \in 1 .. 2 : s[i] = <<First1, Second1>>[i]
    BY <2>4, <2>5
  <2> QED
    BY <1>3, <2>2, <2>3, <2>4, <2>5, <2>6, SeqEqual
<1>5. /\ device.full = FALSE => Entered(device) = device.typed \o <<>>
      /\ device.full = TRUE => Entered(device) = device.typed \o <<device.keys>>
  BY DEF Entered
<1>6. ASSUME Typed0(device) PROVE Entered(device) = <<>>
  BY <1>2, <1>3, <1>5, <1>6 DEF Typed0
<1>7. ASSUME Typed1(device) PROVE Entered(device) = <<First1>>
  BY <1>2, <1>3, <1>5, <1>7 DEF Typed1
<1>8. ASSUME Typed2(device) PROVE Entered(device) = <<First1, Second1>>
  BY <1>2, <1>3, <1>4, <1>5, <1>8 DEF Typed2
<1> QED
  BY <1>6, <1>7, <1>8

\* Wherever c64ctl run stops with a disk image after its reset, for every sequence of commands
\* before it and whatever the device refuses or fails to answer: what is typed is a beginning of
\* LOAD and RUN, and nothing is typed before the image is in the drive (cmd_loading.go:47-57,
\* cmd_disk.go:115-128, keyboard.go:147-175).
THEOREM RunsType == HttpSpec => []RunTypes
<1>1. ASSUME Staged PROVE RunTypes
  <2> SUFFICES ASSUME DiskRun, sofar > 0
               PROVE  /\ IsPrefix(Entered(device), Text1("LOAD RUN"))
                      /\ Entered(device) # <<>> => device.disk[DriveA] = command.value
    BY DEF RunTypes, DiskRun
  <2>1. PICK n \in 1 .. 8 : Stage(n, device)
    <3>1. /\ sofar \in 0 .. 8 /\ (outcome \in {"running", "failed"} => sofar \in 0 .. 7)
          /\ outcome = "running" /\ at1 # "answered" => Stage(sofar, device)
          /\ at1 = "answered" => Stage(IF Passed THEN sofar + 1 ELSE sofar, device) /\ outcome = "running"
          /\ outcome = "nil" => Stage(sofar, device)
          /\ outcome = "failed" => Stage(sofar, device) \/ Stage(sofar + 1, device)
          /\ outcome \in {"none", "running", "nil", "failed"}
      BY <1>1 DEF Staged
    <3>2. outcome # "none"
      <4>1. command.op = "run" /\ Nowhere # "run"
        BY DEF DiskRun, Nowhere
      <4> QED
        BY <1>1, <4>1 DEF Staged
    <3>3. sofar \in 1 .. 8 /\ (outcome \in {"running", "failed"} => sofar + 1 \in 1 .. 8)
      BY <3>1
    <3> QED
      BY <3>1, <3>2, <3>3
  <2>2. /\ Typed0(device) \/ Typed1(device) \/ Typed2(device)
        /\ Typed0(device) \/ n >= 2
        /\ n >= 2 => device.disk[DriveA] = command.value
    BY <2>1 DEF Stage
  <2>3. IsPrefix(Entered(device), Text1("LOAD RUN"))
    BY <2>2, EnteredIs, Beginnings
  <2> QED
    BY <2>2, <2>3, EnteredIs
<1> QED
  BY <1>1, StagedInit, StagedNext, PTL DEF HttpSpec

-----------------------------------------------------------------------------
(* Find: functions defined by recursion, and what a search finds.          *)

\* Induction, stated for a set of numbers.
LEMMA Induction ==
  ASSUME NEW S, 0 \in S, \A n \in Nat : n \in S => n + 1 \in S
  PROVE  Nat \subseteq S
<1> SUFFICES ASSUME {n \in Nat : n \notin S} # {} PROVE FALSE
  OBVIOUS
<1> DEFINE T == {n \in Nat : n \notin S}
           R == {ss \in Nat \X Nat : ss[1] < ss[2]}
<1>1. IsWellFoundedOn(R, Nat)
  BY NatLessThanWellFounded DEF OpToRel
<1>2. T \subseteq Nat /\ T # {}
  OBVIOUS
<1>3. PICK z \in T : \A k \in T : ~ (<<k, z>> \in R)
  <2> HIDE DEF R, T
  <2> QED
    BY <1>1, <1>2, WFMin
<1>4. z \in Nat \ {0}
  OBVIOUS
<1>5. z - 1 \in Nat /\ <<z - 1, z>> \in R /\ (z - 1) + 1 = z
  BY <1>4
<1>6. z - 1 \in S
  BY <1>3, <1>5
<1> QED
  BY <1>4, <1>5, <1>6

Recursive(T, base, step, n, g) ==
  g \in [0 .. n -> T] /\ g[0] = base /\ \A i \in 1 .. n : g[i] = step[<<i, g[i - 1]>>]

\* A function can be defined on the numbers up to n from its value at the one before.
LEMMA Recursion ==
  ASSUME NEW T, NEW base \in T, NEW step \in [Nat \X T -> T]
  PROVE  \A n \in Nat : \E g : Recursive(T, base, step, n, g)
<1> SUFFICES ASSUME NEW n \in Nat
             PROVE  \E g : Recursive(T, base, step, n, g)
  OBVIOUS
<1> DEFINE Is(g, m) == g \in [0 .. m -> T] /\ g[0] = base /\ \A i \in 1 .. m : g[i] = step[<<i, g[i - 1]>>]
           S == {m \in Nat : \E g : Is(g, m)}
<1>1. 0 \in S
  <2>1. Is([i \in 0 .. 0 |-> base], 0)
    OBVIOUS
  <2> HIDE DEF Is
  <2> QED
    BY <2>1
<1>2. ASSUME NEW m \in Nat, m \in S PROVE m + 1 \in S
  <2> HIDE DEF Is
  <2>1. PICK g : Is(g, m)
    BY <1>2
  <2> USE DEF Is
  <2>2. g \in [0 .. m -> T] /\ g[0] = base /\ \A i \in 1 .. m : g[i] = step[<<i, g[i - 1]>>]
    BY <2>1
  <2> DEFINE new == step[<<m + 1, g[m]>>]
             h == [i \in 0 .. m + 1 |-> IF i = m + 1 THEN new ELSE g[i]]
  <2>3. new \in T
    BY <2>2
  <2>4. h \in [0 .. m + 1 -> T]
    <3> HIDE DEF new
    <3>1. \A i \in 0 .. m + 1 : i # m + 1 => g[i] \in T
      BY <2>2
    <3> QED
      BY <2>3, <3>1
  <2>5. h[m + 1] = new /\ \A i \in 0 .. m : h[i] = g[i]
    OBVIOUS
  <2> HIDE DEF h
  <2>6. ASSUME NEW i \in 1 .. m + 1 PROVE h[i] = step[<<i, h[i - 1]>>]
    <3>1. CASE i = m + 1
      <4>1. i - 1 = m /\ m \in 0 .. m
        BY <3>1
      <4> QED
        BY <2>5, <3>1, <4>1
    <3>2. CASE i # m + 1
      <4>1. i \in 1 .. m /\ i \in 0 .. m /\ i - 1 \in 0 .. m
        BY <3>2
      <4> QED
        BY <2>2, <2>5, <4>1
    <3> QED
      BY <3>1, <3>2
  <2>7. Is(h, m + 1)
    <3>1. 0 \in 0 .. m
      OBVIOUS
    <3> HIDE DEF new
    <3> QED
      BY <2>2, <2>4, <2>5, <2>6, <3>1
  <2> HIDE DEF Is
  <2> QED
    BY <2>7
<1>3. n \in S
  <2> HIDE DEF S
  <2> QED
    BY <1>1, <1>2, Induction
<1> QED
  BY <1>3 DEF Recursive

\* What Sorted goes through.
LEMMA UpToIs ==
  ASSUME NEW S, NEW lo \in Nat \ {0}, NEW hi \in Nat
  PROVE  /\ UpTo(S, lo, hi)[0] = <<>>
         /\ \A i \in 1 .. hi :
              UpTo(S, lo, hi)[i] = IF i < lo THEN <<>>
                                   ELSE IF i \in S THEN Append(UpTo(S, lo, hi)[i - 1], i)
                                   ELSE UpTo(S, lo, hi)[i - 1]
<1> DEFINE T == Seq(Nat)
           step == [z \in Nat \X T |-> IF z[1] < lo THEN <<>>
                                       ELSE IF z[1] \in S THEN Append(z[2], z[1]) ELSE z[2]]
           Body(g, i) == IF i < lo THEN <<>> ELSE IF i \in S THEN Append(g[i - 1], i) ELSE g[i - 1]
           Is(g) == g = [i \in 0 .. hi |-> Body(g, i)]
<1>1. step \in [Nat \X T -> T]
  <2>1. ASSUME NEW z \in Nat \X T
        PROVE  (IF z[1] < lo THEN <<>> ELSE IF z[1] \in S THEN Append(z[2], z[1]) ELSE z[2]) \in T
    <3>1. z[1] \in Nat /\ z[2] \in T
      OBVIOUS
    <3>2. Append(z[2], z[1]) \in T
      BY <3>1
    <3> QED
      BY <3>1, <3>2
  <2> QED
    BY <2>1
<1>2. \A i \in Nat : \A s \in T :
        step[<<i, s>>] = IF i < lo THEN <<>> ELSE IF i \in S THEN Append(s, i) ELSE s
  <2> TAKE i \in Nat
  <2> TAKE s \in T
  <2>1. <<i, s>> \in Nat \X T /\ <<i, s>>[1] = i /\ <<i, s>>[2] = s
    OBVIOUS
  <2> HIDE DEF T
  <2> QED
    BY <2>1
<1>3. <<>> \in T
  OBVIOUS
<1> HIDE DEF step, T
<1>4. PICK g : g \in [0 .. hi -> T] /\ g[0] = <<>> /\ \A i \in 1 .. hi : g[i] = step[<<i, g[i - 1]>>]
  <2> HIDE DEF Body, Is
  <2>1. \A n \in Nat : \E g : Recursive(T, <<>>, step, n, g)
    BY <1>1, <1>3, Recursion
  <2> QED
    BY <2>1 DEF Recursive
<1>5. Is(g)
  <2>1. ASSUME NEW i \in 0 .. hi PROVE g[i] = Body(g, i)
    <3>1. CASE i = 0
      BY <1>4, <3>1
    <3>2. CASE i # 0
      <4>1. i \in 1 .. hi /\ i \in Nat /\ i - 1 \in 0 .. hi
        BY <3>2
      <4>2. g[i - 1] \in T
        BY <1>4, <4>1
      <4> QED
        BY <1>2, <1>4, <4>1, <4>2
    <3> QED
      BY <3>1, <3>2
  <2> HIDE DEF Body
  <2> QED
    BY <1>4, <2>1
<1>6. PICK f : f = UpTo(S, lo, hi) /\ Is(f)
  <2>1. UpTo(S, lo, hi) = CHOOSE q : Is(q)
    BY DEF UpTo
  <2> HIDE DEF Is
  <2>2. Is(CHOOSE q : Is(q))
    BY <1>5
  <2> QED
    BY <2>1, <2>2
<1>7. \A i \in 0 .. hi : f[i] = Body(f, i)
  <2>1. f = [i \in 0 .. hi |-> Body(f, i)]
    BY <1>6
  <2> HIDE DEF Body
  <2> QED
    BY <2>1
<1>8. f[0] = <<>>
  <2>1. 0 \in 0 .. hi /\ 0 < lo
    OBVIOUS
  <2> QED
    BY <1>7, <2>1
<1>9. \A i \in 1 .. hi : f[i] = Body(f, i)
  <2> HIDE DEF Body
  <2> QED
    BY <1>7
<1>10. f = UpTo(S, lo, hi)
  <2> HIDE DEF Is
  <2> QED
    BY <1>6
<1> HIDE DEF Is
<1> QED
  BY <1>8, <1>9, <1>10

\* From one number to the next.
LEMMA SortedStart ==
  ASSUME NEW S, NEW lo \in Nat \ {0}
  PROVE  Sorted(S, lo, 0) = <<>>
<1>1. 0 \in Nat
  OBVIOUS
<1>2. UpTo(S, lo, 0)[0] = <<>>
  BY <1>1, UpToIs
<1> QED
  BY <1>2 DEF Sorted

LEMMA SortedGrows ==
  ASSUME NEW S, NEW lo \in Nat \ {0}, NEW hi \in Nat
  PROVE  Sorted(S, lo, hi + 1) = IF hi + 1 < lo THEN <<>>
                                  ELSE IF hi + 1 \in S THEN Append(Sorted(S, lo, hi), hi + 1)
                                  ELSE Sorted(S, lo, hi)
<1> DEFINE Step(g, i) == IF i < lo THEN <<>> ELSE IF i \in S THEN Append(g[i - 1], i) ELSE g[i - 1]
<1> DEFINE g == UpTo(S, lo, hi)
           f == UpTo(S, lo, hi + 1)
<1>1. Sorted(S, lo, hi) = g[hi] /\ g[0] = <<>> /\ \A i \in 1 .. hi : g[i] = Step(g, i)
  <2>1. hi \in Nat
    OBVIOUS
  <2> QED
    BY <2>1, UpToIs DEF Sorted
<1>2. Sorted(S, lo, hi + 1) = f[hi + 1] /\ f[0] = <<>> /\ \A i \in 1 .. hi + 1 : f[i] = Step(f, i)
  <2>1. hi + 1 \in Nat
    OBVIOUS
  <2> QED
    BY <2>1, UpToIs DEF Sorted
<1> HIDE DEF g, f
<1> DEFINE E == {i \in Nat : i <= hi => f[i] = g[i]}
<1>3. 0 \in E
  BY <1>1, <1>2
<1>4. ASSUME NEW i \in Nat, i \in E PROVE i + 1 \in E
  <2> SUFFICES ASSUME i + 1 <= hi PROVE f[i + 1] = g[i + 1]
    OBVIOUS
  <2>1. f[i] = g[i]
    BY <1>4
  <2>2. i + 1 \in 1 .. hi /\ i + 1 \in 1 .. hi + 1 /\ (i + 1) - 1 = i
    OBVIOUS
  <2>3. Step(f, i + 1) = Step(g, i + 1)
    BY <2>1, <2>2
  <2> HIDE DEF Step
  <2> QED
    BY <1>1, <1>2, <2>2, <2>3
<1>5. hi \in E
  <2> HIDE DEF E
  <2> QED
    BY <1>3, <1>4, Induction
<1>6. f[hi] = g[hi]
  BY <1>5
<1>7. hi + 1 \in 1 .. hi + 1 /\ (hi + 1) - 1 = hi
  OBVIOUS
<1> QED
  BY <1>1, <1>2, <1>6, <1>7

\* Sorted yields a sequence, which is empty when there is nothing between its ends.
LEMMA SortedType ==
  ASSUME NEW S, NEW lo \in Nat \ {0}
  PROVE  \A hi \in Nat : Sorted(S, lo, hi) \in Seq(1 .. hi) /\ (hi < lo => Sorted(S, lo, hi) = <<>>)
<1> DEFINE E == {hi \in Nat : Sorted(S, lo, hi) \in Seq(1 .. hi) /\ (hi < lo => Sorted(S, lo, hi) = <<>>)}
<1>1. 0 \in E
  <2>1. Sorted(S, lo, 0) = <<>>
    BY SortedStart
  <2>2. <<>> \in Seq(1 .. 0)
    OBVIOUS
  <2> QED
    BY <2>1, <2>2
<1>2. ASSUME NEW hi \in Nat, hi \in E PROVE hi + 1 \in E
  <2>1. PICK s : s = Sorted(S, lo, hi)
    OBVIOUS
  <2>2. s \in Seq(1 .. hi) /\ (hi < lo => s = <<>>)
    BY <1>2, <2>1
  <2>3. s \in Seq(1 .. hi + 1)
    <3>1. \A i \in 1 .. Len(s) : s[i] \in 1 .. hi + 1
      <4> TAKE i \in 1 .. Len(s)
      <4>1. s[i] \in 1 .. hi
        BY <2>2, ElementOfSeq
      <4> QED
        BY <4>1
    <3>2. s = [i \in 1 .. Len(s) |-> s[i]] /\ Len(s) \in Nat
      BY <2>2
    <3> QED
      BY <3>1, <3>2
  <2>4. hi + 1 \in 1 .. hi + 1
    OBVIOUS
  <2>5. Append(s, hi + 1) \in Seq(1 .. hi + 1)
    BY <2>3, <2>4
  <2>6. Sorted(S, lo, hi + 1) = IF hi + 1 < lo THEN <<>>
                                 ELSE IF hi + 1 \in S THEN Append(s, hi + 1) ELSE s
    BY <2>1, SortedGrows
  <2>7. Sorted(S, lo, hi + 1) \in Seq(1 .. hi + 1)
    <3>1. <<>> \in Seq(1 .. hi + 1)
      OBVIOUS
    <3> QED
      BY <2>3, <2>5, <2>6, <3>1
  <2>8. hi + 1 < lo => Sorted(S, lo, hi + 1) = <<>>
    BY <2>6
  <2> QED
    BY <2>7, <2>8
<1>3. Nat \subseteq E
  <2> HIDE DEF E
  <2> QED
    BY <1>1, <1>2, Induction
<1> QED
  BY <1>3

\* An append behind a concatenation.
LEMMA AppendConcat ==
  ASSUME NEW T, NEW s \in Seq(T), NEW t \in Seq(T), NEW z \in T
  PROVE  s \o Append(t, z) = Append(s \o t, z)
BY AppendIsConcat, ConcatAssociative, <<z>> \in Seq(T), s \o t \in Seq(T)

\* The numbers up to one and those behind it.
LEMMA SortedSplits ==
  ASSUME NEW S, NEW a \in Nat, NEW lo \in Nat \ {0}, lo = a + 1
  PROVE  \A b \in Nat : a <= b => Sorted(S, 1, a) \o Sorted(S, lo, b) = Sorted(S, 1, b)
<1> DEFINE E == {d \in Nat : Sorted(S, 1, a) \o Sorted(S, lo, a + d) = Sorted(S, 1, a + d)}
<1>1. 1 \in Nat \ {0}
  OBVIOUS
<1>2. \A b \in Nat : Sorted(S, 1, b) \in Seq(Nat) /\ Sorted(S, lo, b) \in Seq(Nat)
  <2> TAKE b \in Nat
  <2>1. Sorted(S, 1, b) \in Seq(1 .. b) /\ Sorted(S, lo, b) \in Seq(1 .. b)
    BY <1>1, SortedType
  <2>2. \A s : s \in Seq(1 .. b) => s \in Seq(Nat)
    OBVIOUS
  <2> QED
    BY <2>1, <2>2
<1>3. 0 \in E
  <2>1. a + 0 = a /\ a < lo
    OBVIOUS
  <2>2. Sorted(S, lo, a) = <<>>
    BY <2>1, SortedType
  <2>3. Sorted(S, 1, a) \o <<>> = Sorted(S, 1, a)
    BY <1>2, ConcatEmptySeq
  <2> QED
    BY <2>1, <2>2, <2>3
<1>4. ASSUME NEW d \in Nat, d \in E PROVE d + 1 \in E
  <2>1. PICK b \in Nat : b = a + d /\ b + 1 = a + (d + 1) /\ ~(b + 1 < lo) /\ ~(b + 1 < 1)
    OBVIOUS
  <2>2. PICK s \in Seq(Nat), t \in Seq(Nat), u \in Seq(Nat) :
          s = Sorted(S, 1, a) /\ t = Sorted(S, lo, b) /\ u = Sorted(S, 1, b)
    BY <1>2
  <2>3. s \o t = u
    BY <1>4, <2>1, <2>2
  <2>4. Sorted(S, lo, b + 1) = IF b + 1 \in S THEN Append(t, b + 1) ELSE t
    <3>1. Sorted(S, lo, b + 1) = IF b + 1 < lo THEN <<>>
                                  ELSE IF b + 1 \in S THEN Append(Sorted(S, lo, b), b + 1)
                                  ELSE Sorted(S, lo, b)
      BY SortedGrows
    <3> QED
      BY <2>1, <2>2, <3>1
  <2>5. Sorted(S, 1, b + 1) = IF b + 1 \in S THEN Append(u, b + 1) ELSE u
    <3>1. Sorted(S, 1, b + 1) = IF b + 1 < 1 THEN <<>>
                                 ELSE IF b + 1 \in S THEN Append(Sorted(S, 1, b), b + 1)
                                 ELSE Sorted(S, 1, b)
      BY <1>1, SortedGrows
    <3> QED
      BY <2>1, <2>2, <3>1
  <2>6. s \o Append(t, b + 1) = Append(u, b + 1)
    <3>1. b + 1 \in Nat
      OBVIOUS
    <3>2. s \o Append(t, b + 1) = Append(s \o t, b + 1)
      BY <3>1, AppendConcat
    <3> QED
      BY <2>3, <3>2
  <2>7. s \o Sorted(S, lo, b + 1) = Sorted(S, 1, b + 1)
    BY <2>3, <2>4, <2>5, <2>6
  <2> QED
    BY <2>1, <2>2, <2>7
<1>5. Nat \subseteq E
  <2> HIDE DEF E
  <2> QED
    BY <1>3, <1>4, Induction
<1> SUFFICES ASSUME NEW b \in Nat, a <= b
             PROVE  Sorted(S, 1, a) \o Sorted(S, lo, b) = Sorted(S, 1, b)
  OBVIOUS
<1>6. b - a \in Nat /\ a + (b - a) = b
  OBVIOUS
<1>7. b - a \in E
  <2> HIDE DEF E
  <2> QED
    BY <1>5, <1>6
<1> QED
  BY <1>6, <1>7

\* The chunks reach to the end.
LEMMA ChunksCover ==
  ASSUME NEW n \in Nat, NEW w \in Nat \ {0}
  PROVE  (n + w - 1) \div w \in Nat /\ w * ((n + w - 1) \div w) >= n
<1>1. PICK a \in Nat : a = n + w - 1
  OBVIOUS
<1>2. PICK q \in Int, r \in Int : q = a \div w /\ r = a % w /\ a = w * q + r /\ 0 <= r /\ r < w
  OBVIOUS
<1>3. q >= 0
  <2> SUFFICES ASSUME q < 0 PROVE FALSE
    OBVIOUS
  <2>1. q <= -1
    OBVIOUS
  <2>2. w * q <= w * (-1)
    BY <2>1
  <2> QED
    BY <1>2, <2>2
<1> QED
  BY <1>1, <1>2, <1>3

\* The matches of an index, in the order of its entries.
LEMMA JoinedIs ==
  ASSUME NEW d, NEW o, d[3] \in Nat
  PROVE  /\ Joined(d, o)[0] = <<>>
         /\ \A w \in 1 .. Workers : Joined(d, o)[w] = Joined(d, o)[w - 1] \o Local(d, o, w - 1)
<1> DEFINE T == Seq(Nat)
           step == [z \in Nat \X T |-> IF z[1] \in 1 .. Workers THEN z[2] \o Local(d, o, z[1] - 1) ELSE z[2]]
           Body(g, w) == IF w = 0 THEN <<>> ELSE g[w - 1] \o Local(d, o, w - 1)
           Is(g) == g = [w \in 0 .. Workers |-> Body(g, w)]
<1>0. Workers \in Nat \ {0}
  BY FindAssumption
<1>1. \A w \in 1 .. Workers : Local(d, o, w - 1) \in T
  <2> TAKE w \in 1 .. Workers
  <2>1. PICK n \in Nat, v \in Nat, size \in Nat : n = d[3] /\ v = w - 1 /\ size = (n + Workers - 1) \div Workers
    <3>1. (d[3] + Workers - 1) \div Workers \in Nat
      BY <1>0, ChunksCover
    <3>2. w - 1 \in Nat
      OBVIOUS
    <3> QED
      BY <3>1, <3>2
  <2>2. PICK lo \in Nat \ {0}, hi \in Nat : lo = v * size + 1 /\ hi = IF (v + 1) * size > n THEN n ELSE (v + 1) * size
    OBVIOUS
  <2>3. Chunk(n, v) = [lo |-> lo, hi |-> hi]
    BY <2>1, <2>2 DEF Chunk
  <2>4. Local(d, o, v) = Sorted(Found(d, o), lo, hi)
    BY <2>1, <2>3 DEF Local
  <2>5. Local(d, o, v) \in Seq(1 .. hi)
    BY <2>4, SortedType
  <2> QED
    BY <2>1, <2>5
<1>2. step \in [Nat \X T -> T]
  <2>1. ASSUME NEW z \in Nat \X T
        PROVE  (IF z[1] \in 1 .. Workers THEN z[2] \o Local(d, o, z[1] - 1) ELSE z[2]) \in T
    <3>1. z[1] \in Nat /\ z[2] \in T
      OBVIOUS
    <3>2. CASE z[1] \in 1 .. Workers
      <4>1. Local(d, o, z[1] - 1) \in T
        BY <1>1, <3>2
      <4>2. z[2] \o Local(d, o, z[1] - 1) \in T
        BY <3>1, <4>1, ConcatProperties
      <4> QED
        BY <3>2, <4>2
    <3>3. CASE z[1] \notin 1 .. Workers
      BY <3>1, <3>3
    <3> QED
      BY <3>2, <3>3
  <2> HIDE DEF T
  <2> QED
    BY <2>1
<1>3. \A w \in Nat : \A s \in T :
        step[<<w, s>>] = IF w \in 1 .. Workers THEN s \o Local(d, o, w - 1) ELSE s
  <2> TAKE w \in Nat
  <2> TAKE s \in T
  <2>1. <<w, s>> \in Nat \X T /\ <<w, s>>[1] = w /\ <<w, s>>[2] = s
    OBVIOUS
  <2> HIDE DEF T
  <2> QED
    BY <2>1
<1>4. <<>> \in T
  OBVIOUS
<1> HIDE DEF step, T
<1>5. PICK g : g \in [0 .. Workers -> T] /\ g[0] = <<>> /\ \A w \in 1 .. Workers : g[w] = step[<<w, g[w - 1]>>]
  <2> HIDE DEF Body, Is
  <2>1. \A n \in Nat : \E g : Recursive(T, <<>>, step, n, g)
    BY <1>2, <1>4, Recursion
  <2> QED
    BY <1>0, <2>1 DEF Recursive
<1>6. Is(g)
  <2>1. ASSUME NEW w \in 0 .. Workers PROVE g[w] = Body(g, w)
    <3>1. CASE w = 0
      BY <1>5, <3>1
    <3>2. CASE w # 0
      <4>1. w \in 1 .. Workers /\ w \in Nat /\ w - 1 \in 0 .. Workers
        BY <1>0, <3>2
      <4>2. g[w - 1] \in T
        BY <1>5, <4>1
      <4> QED
        BY <1>3, <1>5, <4>1, <4>2
    <3> QED
      BY <3>1, <3>2
  <2> HIDE DEF Body
  <2> QED
    BY <1>5, <2>1
<1>7. PICK f : f = Joined(d, o) /\ Is(f)
  <2>1. Joined(d, o) = CHOOSE q : Is(q)
    BY DEF Joined
  <2> HIDE DEF Is
  <2>2. Is(CHOOSE q : Is(q))
    BY <1>6
  <2> QED
    BY <2>1, <2>2
<1>8. \A w \in 0 .. Workers : f[w] = Body(f, w)
  <2>1. f = [w \in 0 .. Workers |-> Body(f, w)]
    BY <1>7
  <2> HIDE DEF Body
  <2> QED
    BY <2>1
<1>9. f[0] = <<>>
  <2>1. 0 \in 0 .. Workers
    BY <1>0
  <2> QED
    BY <1>8, <2>1
<1>10. \A w \in 1 .. Workers : f[w] = f[w - 1] \o Local(d, o, w - 1)
  <2> TAKE w \in 1 .. Workers
  <2>1. w \in 0 .. Workers /\ w # 0
    BY <1>0
  <2> QED
    BY <1>8, <2>1
<1>11. f = Joined(d, o)
  <2> HIDE DEF Is
  <2> QED
    BY <1>7
<1> HIDE DEF Is
<1> QED
  BY <1>9, <1>10, <1>11

\* All goroutines together find what there is to find, in the order of the entries.
LEMMA AllFound ==
  ASSUME NEW d, NEW o, d[3] \in Nat
  PROVE  Joined(d, o)[Workers] = Sorted(Found(d, o), 1, d[3])
<1>1. PICK n \in Nat, m \in Nat \ {0}, size \in Nat :
        n = d[3] /\ m = Workers /\ size = (n + m - 1) \div m /\ m * size >= n
  <2>1. Workers \in Nat \ {0}
    BY FindAssumption
  <2>2. (d[3] + Workers - 1) \div Workers \in Nat /\ Workers * ((d[3] + Workers - 1) \div Workers) >= d[3]
    BY <2>1, ChunksCover
  <2> QED
    BY <2>1, <2>2
<1>2. PICK S : S = Found(d, o)
  OBVIOUS
<1> DEFINE Reach(w) == IF w * size > n THEN n ELSE w * size
           E == {w \in Nat : w <= m => Joined(d, o)[w] = Sorted(S, 1, Reach(w))}
<1>3. 0 \in E
  <2>1. 0 * size = 0
    OBVIOUS
  <2>2. Reach(0) = 0
    BY <2>1
  <2>3. Sorted(S, 1, 0) = <<>>
    BY SortedStart, 1 \in Nat \ {0}
  <2> QED
    BY <2>2, <2>3, JoinedIs
<1>4. ASSUME NEW w \in Nat, w \in E PROVE w + 1 \in E
  <2> SUFFICES ASSUME w + 1 <= m PROVE Joined(d, o)[w + 1] = Sorted(S, 1, Reach(w + 1))
    OBVIOUS
  <2>1. PICK a \in Nat, b \in Nat : a = w * size /\ b = (w + 1) * size /\ a <= b
    <3>1. w * size \in Nat /\ (w + 1) * size = w * size + size
      OBVIOUS
    <3> QED
      BY <3>1
  <2>2. PICK hi \in Nat : hi = Reach(w + 1) /\ hi = IF b > n THEN n ELSE b
    BY <2>1
  <2>3. PICK lo \in Nat \ {0} : lo = a + 1 /\ lo = w * size + 1
    BY <2>1
  <2>4. Local(d, o, w) = Sorted(S, lo, hi)
    <3>1. Chunk(n, w) = [lo |-> lo, hi |-> hi]
      BY <1>1, <2>1, <2>2, <2>3 DEF Chunk
    <3> QED
      BY <1>1, <1>2, <3>1 DEF Local
  <2>5. Joined(d, o)[w + 1] = Joined(d, o)[w] \o Local(d, o, w)
    <3>1. w + 1 \in 1 .. Workers /\ (w + 1) - 1 = w
      BY <1>1
    <3> QED
      BY <3>1, JoinedIs
  <2>6. Joined(d, o)[w] = Sorted(S, 1, IF a > n THEN n ELSE a)
    BY <1>4, <2>1
  <2>7. CASE a <= n
    <3>1. a <= hi /\ ~(a > n)
      BY <2>1, <2>2, <2>7
    <3>2. Sorted(S, 1, a) \o Sorted(S, lo, hi) = Sorted(S, 1, hi)
      BY <2>3, <3>1, SortedSplits
    <3> HIDE DEF Reach
    <3> QED
      BY <2>2, <2>4, <2>5, <2>6, <3>1, <3>2
  <2>8. CASE a > n
    <3>1. hi = n /\ hi < lo
      BY <2>1, <2>2, <2>3, <2>8
    <3>2. Sorted(S, lo, hi) = <<>>
      BY <3>1, SortedType
    <3>3. Sorted(S, 1, n) \in Seq(1 .. n)
      BY SortedType, 1 \in Nat \ {0}
    <3>4. Sorted(S, 1, n) \o <<>> = Sorted(S, 1, n)
      BY <3>3, ConcatEmptySeq
    <3> HIDE DEF Reach
    <3> QED
      BY <2>2, <2>4, <2>5, <2>6, <2>8, <3>1, <3>2, <3>4
  <2>9. a <= n \/ a > n
    BY <2>1
  <2> QED
    BY <2>7, <2>8, <2>9
<1>5. m \in E
  <2> HIDE DEF E
  <2> QED
    BY <1>3, <1>4, Induction
<1>6. Reach(m) = n
  <2>1. PICK c \in Nat : c = m * size /\ c >= n
    BY <1>1
  <2> QED
    BY <2>1
<1>7. Joined(d, o)[m] = Sorted(S, 1, Reach(m))
  <2> HIDE DEF Reach
  <2> QED
    BY <1>5
<1> QED
  BY <1>1, <1>2, <1>6, <1>7

-----------------------------------------------------------------------------
(* What is written is read back.                                           *)

FileOf == [ext : Nat, folder : Nat, path : Seq(Nat)]

LEMMA PoolIs ==
  ASSUME NEW files \in Seq(FileOf)
  PROVE  /\ Pool(files)[0] = <<>>
         /\ \A i \in 1 .. Len(files) : Pool(files)[i] = Pool(files)[i - 1] \o files[i].path
         /\ \A i \in 0 .. Len(files) : Pool(files)[i] \in Seq(Nat)
<1> DEFINE T == Seq(Nat)
           n == Len(files)
           step == [z \in Nat \X T |-> IF z[1] \in 1 .. n THEN z[2] \o files[z[1]].path ELSE z[2]]
           Body(g, i) == IF i = 0 THEN <<>> ELSE g[i - 1] \o files[i].path
           Is(g) == g = [i \in 0 .. n |-> Body(g, i)]
<1>0. n \in Nat
  OBVIOUS
<1>1. \A i \in 1 .. n : files[i].path \in T
  <2> TAKE i \in 1 .. n
  <2>1. files[i] \in FileOf
    BY ElementOfSeq
  <2> QED
    BY <2>1 DEF FileOf
<1> HIDE DEF n
<1>2. step \in [Nat \X T -> T]
  <2>1. ASSUME NEW z \in Nat \X T
        PROVE  (IF z[1] \in 1 .. n THEN z[2] \o files[z[1]].path ELSE z[2]) \in T
    <3>1. z[1] \in Nat /\ z[2] \in T
      OBVIOUS
    <3>2. CASE z[1] \in 1 .. n
      <4>1. files[z[1]].path \in T
        BY <1>1, <3>2
      <4>2. z[2] \o files[z[1]].path \in T
        BY <3>1, <4>1, ConcatProperties
      <4> QED
        BY <3>2, <4>2
    <3>3. CASE z[1] \notin 1 .. n
      BY <3>1, <3>3
    <3> QED
      BY <3>2, <3>3
  <2> HIDE DEF T
  <2> QED
    BY <2>1
<1>3. \A i \in Nat : \A s \in T :
        step[<<i, s>>] = IF i \in 1 .. n THEN s \o files[i].path ELSE s
  <2> TAKE i \in Nat
  <2> TAKE s \in T
  <2>1. <<i, s>> \in Nat \X T /\ <<i, s>>[1] = i /\ <<i, s>>[2] = s
    OBVIOUS
  <2> HIDE DEF T
  <2> QED
    BY <2>1
<1>4. <<>> \in T
  OBVIOUS
<1> HIDE DEF step, T
<1>5. PICK g : g \in [0 .. n -> T] /\ g[0] = <<>> /\ \A i \in 1 .. n : g[i] = step[<<i, g[i - 1]>>]
  <2> HIDE DEF Body, Is
  <2>1. \A k \in Nat : \E g : Recursive(T, <<>>, step, k, g)
    BY <1>2, <1>4, Recursion
  <2> QED
    BY <1>0, <2>1 DEF Recursive
<1>6. Is(g)
  <2>1. ASSUME NEW i \in 0 .. n PROVE g[i] = Body(g, i)
    <3>1. CASE i = 0
      BY <1>5, <3>1
    <3>2. CASE i # 0
      <4>1. i \in 1 .. n /\ i \in Nat /\ i - 1 \in 0 .. n
        BY <1>0, <3>2
      <4>2. g[i - 1] \in T
        BY <1>5, <4>1
      <4> QED
        BY <1>3, <1>5, <4>1, <4>2
    <3> QED
      BY <3>1, <3>2
  <2> HIDE DEF Body
  <2> QED
    BY <1>5, <2>1
<1>7. PICK f : f = Pool(files) /\ Is(f)
  <2>1. Pool(files) = CHOOSE q : Is(q)
    BY DEF Pool, n
  <2> HIDE DEF Is
  <2>2. Is(CHOOSE q : Is(q))
    BY <1>6
  <2> QED
    BY <2>1, <2>2
<1>8. \A i \in 0 .. n : f[i] = Body(f, i)
  <2>1. f = [i \in 0 .. n |-> Body(f, i)]
    BY <1>7
  <2> HIDE DEF Body
  <2> QED
    BY <2>1
<1>9. f[0] = <<>>
  <2>1. 0 \in 0 .. n
    BY <1>0
  <2> QED
    BY <1>8, <2>1
<1>10. \A i \in 1 .. n : f[i] = f[i - 1] \o files[i].path
  <2> TAKE i \in 1 .. n
  <2>1. i \in 0 .. n /\ i # 0
    BY <1>0
  <2> QED
    BY <1>8, <2>1
<1>11. f = Pool(files)
  <2> HIDE DEF Is
  <2> QED
    BY <1>7
<1> DEFINE E == {i \in Nat : i <= n => f[i] \in T}
<1>12. 0 \in E
  BY <1>4, <1>9
<1>13. ASSUME NEW i \in Nat, i \in E PROVE i + 1 \in E
  <2> SUFFICES ASSUME i + 1 <= n PROVE f[i + 1] \in T
    OBVIOUS
  <2>1. f[i] \in T
    BY <1>0, <1>13
  <2>2. i + 1 \in 1 .. n /\ (i + 1) - 1 = i
    BY <1>0
  <2>3. files[i + 1].path \in T
    BY <1>1, <2>2
  <2>4. f[i] \o files[i + 1].path \in T
    BY <2>1, <2>3, ConcatProperties DEF T
  <2> QED
    BY <1>10, <2>2, <2>4
<1>14. Nat \subseteq E
  <2> HIDE DEF E
  <2> QED
    BY <1>12, <1>13, Induction
<1>15. \A i \in 0 .. n : f[i] \in T
  BY <1>14
<1> HIDE DEF Is, E
<1> QED
  BY <1>9, <1>10, <1>11, <1>15 DEF n, T

\* What has been put into the pool stays where it is.
LEMMA PoolKeeps ==
  ASSUME NEW files \in Seq(FileOf), NEW i \in 0 .. Len(files)
  PROVE  \A j \in i .. Len(files) :
           /\ Len(Pool(files)[i]) <= Len(Pool(files)[j])
           /\ \A k \in 1 .. Len(Pool(files)[i]) : Pool(files)[j][k] = Pool(files)[i][k]
<1>0. PICK n \in Nat : n = Len(files)
  OBVIOUS
<1>1. PICK P : P = Pool(files)
  OBVIOUS
<1>2. /\ P[0] = <<>>
      /\ \A j \in 1 .. n : P[j] = P[j - 1] \o files[j].path
      /\ \A j \in 0 .. n : P[j] \in Seq(Nat)
  BY <1>0, <1>1, PoolIs
<1>3. \A j \in 1 .. n : files[j].path \in Seq(Nat)
  <2> TAKE j \in 1 .. n
  <2>1. files[j] \in FileOf
    BY <1>0, ElementOfSeq
  <2> QED
    BY <2>1 DEF FileOf
<1>4. PICK z \in Nat, s \in Seq(Nat) : z = Len(P[i]) /\ s = P[i]
  <2>1. P[i] \in Seq(Nat)
    BY <1>0, <1>2
  <2> QED
    BY <2>1
<1> DEFINE Keeps(t) == z <= Len(t) /\ \A k \in 1 .. z : t[k] = s[k]
           E == {m \in Nat : i + m <= n => Keeps(P[i + m])}
<1>5. 0 \in E
  <2>1. i + 0 = i
    OBVIOUS
  <2>2. Keeps(P[i])
    BY <1>4
  <2> HIDE DEF Keeps
  <2> QED
    BY <2>1, <2>2
<1>6. ASSUME NEW m \in Nat, m \in E PROVE m + 1 \in E
  <2> SUFFICES ASSUME i + (m + 1) <= n PROVE Keeps(P[i + (m + 1)])
    OBVIOUS
  <2>1. PICK j \in 1 .. n : j = i + (m + 1) /\ j - 1 = i + m
    BY <1>0
  <2>2. Keeps(P[i + m])
    <3> HIDE DEF Keeps
    <3>1. i + m <= n
      BY <1>0
    <3> QED
      BY <1>6, <3>1
  <2>3. PICK t \in Seq(Nat), u \in Seq(Nat) : t = P[j - 1] /\ u = files[j].path
    <3>1. j - 1 \in 0 .. n
      BY <2>1, <1>0
    <3> QED
      BY <1>2, <1>3, <3>1
  <2>4. P[j] = t \o u
    BY <1>2, <2>3
  <2>5. z <= Len(t) /\ \A k \in 1 .. z : t[k] = s[k]
    BY <2>1, <2>2, <2>3
  <2>6. /\ Len(t \o u) = Len(t) + Len(u)
        /\ \A k \in 1 .. Len(t) + Len(u) : (t \o u)[k] = IF k <= Len(t) THEN t[k] ELSE u[k - Len(t)]
    BY ConcatProperties
  <2>7. PICK a \in Nat, b \in Nat : a = Len(t) /\ b = Len(u)
    OBVIOUS
  <2>8. z <= a + b /\ Len(t \o u) = a + b
    BY <2>5, <2>6, <2>7
  <2>9. \A k \in 1 .. z : (t \o u)[k] = s[k]
    <3> TAKE k \in 1 .. z
    <3>1. k \in 1 .. a + b /\ k <= a
      BY <2>5, <2>7
    <3> QED
      BY <2>5, <2>6, <2>7, <3>1
  <2> QED
    BY <2>1, <2>4, <2>8, <2>9
<1>7. Nat \subseteq E
  <2> HIDE DEF E
  <2> QED
    BY <1>5, <1>6, Induction
<1>8. ASSUME NEW j \in i .. n PROVE Keeps(P[j])
  <2>1. j - i \in Nat /\ i + (j - i) = j /\ j <= n
    BY <1>0
  <2>2. j - i \in E
    BY <1>7, <2>1
  <2> HIDE DEF Keeps
  <2> QED
    BY <2>1, <2>2
<1> QED
  BY <1>0, <1>1, <1>4, <1>8

\* Where the path of a file lies in the pool.
LEMMA PathInPool ==
  ASSUME NEW files \in Seq(FileOf), NEW i \in 1 .. Len(files)
  PROVE  /\ files[i].path \in Seq(Nat)
         /\ Len(Pool(files)[i - 1]) \in Nat
         /\ Len(Pool(files)[i]) = Len(Pool(files)[i - 1]) + Len(files[i].path)
         /\ Len(Pool(files)[i]) <= Len(Pool(files)[Len(files)])
         /\ \A k \in 1 .. Len(files[i].path) :
              Pool(files)[Len(files)][Len(Pool(files)[i - 1]) + k] = files[i].path[k]
<1>0. PICK n \in Nat : n = Len(files)
  OBVIOUS
<1>1. PICK P : P = Pool(files)
  OBVIOUS
<1>2. files[i] \in FileOf
  BY ElementOfSeq
<1>3. i - 1 \in 0 .. n /\ i \in 0 .. n /\ n \in i .. n
  BY <1>0
<1>4. PICK t \in Seq(Nat), u \in Seq(Nat), v \in Seq(Nat) :
        t = P[i - 1] /\ u = files[i].path /\ v = P[n]
  <2>1. P[i - 1] \in Seq(Nat) /\ P[n] \in Seq(Nat)
    <3>1. \A j \in 0 .. n : P[j] \in Seq(Nat)
      BY <1>0, <1>1, PoolIs
    <3>2. n \in 0 .. n
      OBVIOUS
    <3> QED
      BY <1>3, <3>1, <3>2
  <2> QED
    BY <1>2, <2>1 DEF FileOf
<1>5. P[i] = t \o u
  BY <1>1, <1>4, PoolIs
<1>6. PICK a \in Nat, b \in Nat : a = Len(t) /\ b = Len(u)
  OBVIOUS
<1>7. /\ Len(t \o u) = a + b
      /\ \A k \in 1 .. a + b : (t \o u)[k] = IF k <= a THEN t[k] ELSE u[k - a]
  BY <1>6, ConcatProperties
<1>8. Len(P[i]) <= Len(P[n]) /\ \A k \in 1 .. Len(P[i]) : P[n][k] = P[i][k]
  BY <1>0, <1>1, <1>3, PoolKeeps
<1>9. \A k \in 1 .. b : v[a + k] = u[k]
  <2> TAKE k \in 1 .. b
  <2>1. PICK q \in 1 .. a + b : q = a + k /\ ~(q <= a) /\ q - a = k
    OBVIOUS
  <2>2. v[q] = (t \o u)[q]
    BY <1>4, <1>5, <1>7, <1>8
  <2> QED
    BY <1>7, <2>1, <2>2
<1> QED
  BY <1>0, <1>1, <1>4, <1>5, <1>6, <1>7, <1>8, <1>9

\* The cells of a concatenation.
LEMMA Cells ==
  ASSUME NEW s \in Seq(Nat), NEW t \in Seq(Nat)
  PROVE  /\ s \o t \in Seq(Nat) /\ Len(s \o t) = Len(s) + Len(t)
         /\ \A i \in 1 .. Len(s) : (s \o t)[i] = s[i]
         /\ \A i \in 1 .. Len(t) : (s \o t)[Len(s) + i] = t[i]
<1>0. PICK a \in Nat, b \in Nat : a = Len(s) /\ b = Len(t)
  OBVIOUS
<1>1. /\ s \o t \in Seq(Nat) /\ Len(s \o t) = a + b
      /\ \A i \in 1 .. a + b : (s \o t)[i] = IF i <= a THEN s[i] ELSE t[i - a]
  BY <1>0, ConcatProperties
<1>2. \A i \in 1 .. a : (s \o t)[i] = s[i]
  <2> TAKE i \in 1 .. a
  <2>1. i \in 1 .. a + b /\ i <= a
    OBVIOUS
  <2> QED
    BY <1>1, <2>1
<1>3. \A i \in 1 .. b : (s \o t)[a + i] = t[i]
  <2> TAKE i \in 1 .. b
  <2>1. i \in Int /\ 1 <= i /\ i <= b
    OBVIOUS
  <2>2. a + i \in Int /\ 1 <= a + i /\ a + i <= a + b
    BY ONLY <2>1, a \in Nat, b \in Nat
  <2>3. a + i \in 1 .. a + b
    BY <2>2
  <2>4. ~(a + i <= a) /\ (a + i) - a = i
    BY <2>1
  <2> QED
    BY <1>1, <2>3, <2>4
<1> QED
  BY <1>0, <1>1, <1>2, <1>3

\* The tables of an index of n files, whose paths have z letters, and where they lie.
Layout(files, d, n, z) ==
  /\ d \in Seq(Nat) /\ Len(d) = 4 + 3 * n + 1 + z
  /\ d[1] = Magic /\ d[2] = Version /\ d[3] = n
  /\ \A i \in 1 .. n : d[4 + i] = files[i].ext /\ d[4 + n + i] = files[i].folder
  /\ \A i \in 1 .. n + 1 : Offset(d, i) = Len(Pool(files)[i - 1])
  /\ \A k \in 1 .. z : d[4 + 3 * n + 1 + k] = Pool(files)[n][k]

LEMMA ImageIs ==
  ASSUME NEW files \in Seq(FileOf), NEW d, d = BuildIndexBytes(files),
         NEW n \in Nat, n = Len(files), NEW z \in Nat, z = Len(Pool(files)[n])
  PROVE  Layout(files, d, n, z)
<1> DEFINE h == <<Magic, Version, n, 0>>
           e == [i \in 1 .. n |-> files[i].ext]
           f == [i \in 1 .. n |-> files[i].folder]
           o == [i \in 1 .. n + 1 |-> Len(Pool(files)[i - 1])]
           p == Pool(files)[n]
<1>1. h \in Seq(Nat) /\ Len(h) = 4 /\ h[1] = Magic /\ h[2] = Version /\ h[3] = n
  BY DEF Magic, Version
<1>2. \A i \in 1 .. n : files[i].ext \in Nat /\ files[i].folder \in Nat
  <2> TAKE i \in 1 .. n
  <2>1. files[i] \in FileOf
    BY ElementOfSeq
  <2> QED
    BY <2>1 DEF FileOf
<1>3. e \in Seq(Nat) /\ Len(e) = n /\ f \in Seq(Nat) /\ Len(f) = n
  BY <1>2
<1>4. \A i \in 0 .. n : Pool(files)[i] \in Seq(Nat)
  BY PoolIs
<1>5. o \in Seq(Nat) /\ Len(o) = n + 1
  <2>1. \A i \in 1 .. n + 1 : Len(Pool(files)[i - 1]) \in Nat
    <3> TAKE i \in 1 .. n + 1
    <3>1. i - 1 \in 0 .. n
      OBVIOUS
    <3>2. Pool(files)[i - 1] \in Seq(Nat)
      BY <1>4, <3>1
    <3> QED
      BY <3>2
  <2> QED
    BY <2>1
<1>6. p \in Seq(Nat) /\ Len(p) = z
  <2>1. n \in 0 .. n
    OBVIOUS
  <2> QED
    BY <1>4, <2>1
<1>7. d = h \o e \o f \o o \o p
  BY DEF BuildIndexBytes
<1>8. /\ \A i \in 1 .. n : e[i] = files[i].ext /\ f[i] = files[i].folder
      /\ \A i \in 1 .. n + 1 : o[i] = Len(Pool(files)[i - 1])
  OBVIOUS
<1>9. p = Pool(files)[n]
  OBVIOUS
<1> HIDE DEF h, e, f, o, p
<1> DEFINE he == h \o e
           hef == he \o f
           hefo == hef \o o
<1>10. /\ he \in Seq(Nat) /\ Len(he) = 4 + n
       /\ \A i \in 1 .. 4 : he[i] = h[i]
       /\ \A i \in 1 .. n : he[4 + i] = e[i]
  <2>1. /\ h \o e \in Seq(Nat) /\ Len(h \o e) = Len(h) + Len(e)
        /\ \A i \in 1 .. Len(h) : (h \o e)[i] = h[i]
        /\ \A i \in 1 .. Len(e) : (h \o e)[Len(h) + i] = e[i]
    BY <1>1, <1>3, Cells
  <2> QED
    BY <1>1, <1>3, <2>1
<1> HIDE DEF he
<1>11. /\ hef \in Seq(Nat) /\ Len(hef) = 4 + n + n
       /\ \A i \in 1 .. 4 + n : hef[i] = he[i]
       /\ \A i \in 1 .. n : hef[4 + n + i] = f[i]
  <2>1. /\ he \o f \in Seq(Nat) /\ Len(he \o f) = Len(he) + Len(f)
        /\ \A i \in 1 .. Len(he) : (he \o f)[i] = he[i]
        /\ \A i \in 1 .. Len(f) : (he \o f)[Len(he) + i] = f[i]
    BY <1>3, <1>10, Cells
  <2> QED
    BY <1>3, <1>10, <2>1
<1> HIDE DEF hef
<1>12. /\ hefo \in Seq(Nat) /\ Len(hefo) = 4 + n + n + (n + 1)
       /\ \A i \in 1 .. 4 + n + n : hefo[i] = hef[i]
       /\ \A i \in 1 .. n + 1 : hefo[4 + n + n + i] = o[i]
  <2>1. /\ hef \o o \in Seq(Nat) /\ Len(hef \o o) = Len(hef) + Len(o)
        /\ \A i \in 1 .. Len(hef) : (hef \o o)[i] = hef[i]
        /\ \A i \in 1 .. Len(o) : (hef \o o)[Len(hef) + i] = o[i]
    BY <1>5, <1>11, Cells
  <2> QED
    BY <1>5, <1>11, <2>1
<1> HIDE DEF hefo
<1>13. d = hefo \o p
  BY <1>7 DEF he, hef, hefo
<1>14. /\ d \in Seq(Nat) /\ Len(d) = 4 + n + n + (n + 1) + z
       /\ \A i \in 1 .. 4 + n + n + (n + 1) : d[i] = hefo[i]
       /\ \A i \in 1 .. z : d[4 + n + n + (n + 1) + i] = p[i]
  <2>1. /\ hefo \o p \in Seq(Nat) /\ Len(hefo \o p) = Len(hefo) + Len(p)
        /\ \A i \in 1 .. Len(hefo) : (hefo \o p)[i] = hefo[i]
        /\ \A i \in 1 .. Len(p) : (hefo \o p)[Len(hefo) + i] = p[i]
    BY <1>6, <1>12, Cells
  <2> QED
    BY <1>6, <1>12, <1>13, <2>1
<1>15. \A i \in 1 .. 4 : d[i] = h[i]
  <2> TAKE i \in 1 .. 4
  <2>1. i \in 1 .. 4 + n /\ i \in 1 .. 4 + n + n /\ i \in 1 .. 4 + n + n + (n + 1)
    OBVIOUS
  <2>2. he[i] = h[i]
    BY <1>10
  <2>3. hef[i] = he[i]
    BY <1>11, <2>1
  <2>4. hefo[i] = hef[i]
    BY <1>12, <2>1
  <2>5. d[i] = hefo[i]
    BY <1>14, <2>1
  <2> QED
    BY <2>2, <2>3, <2>4, <2>5
<1>16. d[1] = Magic /\ d[2] = Version /\ d[3] = n
  BY <1>1, <1>15
<1>17. \A i \in 1 .. n : d[4 + i] = files[i].ext /\ d[4 + n + i] = files[i].folder
  <2> TAKE i \in 1 .. n
  <2>1. /\ 4 + i \in 1 .. 4 + n /\ 4 + i \in 1 .. 4 + n + n /\ 4 + i \in 1 .. 4 + n + n + (n + 1)
        /\ 4 + n + i \in 1 .. 4 + n + n /\ 4 + n + i \in 1 .. 4 + n + n + (n + 1)
    OBVIOUS
  <2>2. d[4 + i] = he[4 + i] /\ d[4 + n + i] = hef[4 + n + i]
    BY <1>11, <1>12, <1>14, <2>1
  <2>3. he[4 + i] = e[i] /\ hef[4 + n + i] = f[i]
    BY <1>10, <1>11
  <2> QED
    BY <1>8, <2>2, <2>3
<1>18. \A i \in 1 .. n + 1 : Offset(d, i) = Len(Pool(files)[i - 1])
  <2> TAKE i \in 1 .. n + 1
  <2>1. 4 + n + n + i \in 1 .. 4 + n + n + (n + 1)
    OBVIOUS
  <2>2. 4 + 2 * n + i = 4 + n + n + i
    OBVIOUS
  <2>3. d[4 + n + n + i] = o[i]
    BY <1>12, <1>14, <2>1
  <2> QED
    BY <1>8, <1>16, <2>2, <2>3 DEF Offset
<1>19. \A k \in 1 .. z : d[4 + 3 * n + 1 + k] = Pool(files)[n][k]
  <2> TAKE k \in 1 .. z
  <2>1. 4 + 3 * n + 1 + k = 4 + n + n + (n + 1) + k
    OBVIOUS
  <2> QED
    BY <1>9, <1>14, <2>1
<1>20. Len(d) = 4 + 3 * n + 1 + z
  <2>1. 4 + n + n + (n + 1) = 4 + 3 * n + 1
    OBVIOUS
  <2> QED
    BY <1>14, <2>1
<1> QED
  BY <1>14, <1>16, <1>17, <1>18, <1>19, <1>20 DEF Layout

\* A literal is found where the letters are the same but for their case.
LEMMA ContainsIs ==
  ASSUME NEW s \in Seq(Nat), NEW t \in Seq(Nat)
  PROVE  ContainsIgnoreCase(s, t)
           <=> \E i \in 0 .. Len(s) - Len(t) :
                 [k \in 1 .. Len(t) |-> fold(s[i + k])] = [k \in DOMAIN t |-> fold(t[k])]
<1>1. PICK a \in Nat, b \in Nat : a = Len(s) /\ b = Len(t) /\ DOMAIN t = 1 .. b
  OBVIOUS
<1> DEFINE Here(i) == \A k \in 1 .. b : fold(s[i + k]) = fold(t[k])
<1>2. ASSUME NEW i \in Int
      PROVE  [k \in 1 .. Len(t) |-> fold(s[i + k])] = [k \in DOMAIN t |-> fold(t[k])] <=> Here(i)
  <2> HIDE DEF fold
  <2> DEFINE f == [k \in 1 .. b |-> fold(s[i + k])]
             g == [k \in 1 .. b |-> fold(t[k])]
  <2>1. \A k \in 1 .. b : f[k] = fold(s[i + k]) /\ g[k] = fold(t[k])
    OBVIOUS
  <2>2. DOMAIN f = 1 .. b /\ DOMAIN g = 1 .. b
    OBVIOUS
  <2>3. f = g <=> \A k \in 1 .. b : f[k] = g[k]
    OBVIOUS
  <2>4. [k \in 1 .. Len(t) |-> fold(s[i + k])] = f /\ [k \in DOMAIN t |-> fold(t[k])] = g
    BY <1>1
  <2> HIDE DEF f, g
  <2> QED
    BY <2>1, <2>3, <2>4
<1>3. ASSUME ContainsIgnoreCase(s, t) PROVE \E i \in 0 .. a - b : Here(i)
  <2>1. CASE t = <<>>
    <3>1. b = 0 /\ 0 \in 0 .. a - b
      BY <1>1, <2>1
    <3>2. Here(0)
      BY <3>1
    <3> QED
      BY <3>1, <3>2
  <2>2. CASE t # <<>>
    <3>0. b >= 1
      BY <1>1, <2>2
    <3>1. PICK i \in 1 .. a - b + 1 :
            /\ s[i] = t[1] \/ fold(s[i]) = fold(t[1])
            /\ \A j \in 2 .. b : s[i + j - 1] = t[j] \/ fold(s[i + j - 1]) = fold(t[j])
      BY <1>1, <1>3, <2>2 DEF ContainsIgnoreCase
    <3>2. PICK q \in 0 .. a - b : q = i - 1 /\ i = q + 1
      OBVIOUS
    <3>3. ASSUME NEW k \in 1 .. b PROVE fold(s[q + k]) = fold(t[k])
      <4>1. CASE k = 1
        BY <3>1, <3>2, <4>1
      <4>2. CASE k # 1
        <5>1. k \in 2 .. b /\ i + k - 1 = q + k
          BY <3>2, <4>2
        <5> QED
          BY <3>1, <5>1
      <4> QED
        BY <4>1, <4>2
    <3> QED
      BY <3>3
  <2> QED
    BY <2>1, <2>2
<1>4. ASSUME NEW q \in 0 .. a - b, Here(q) PROVE ContainsIgnoreCase(s, t)
  <2>1. CASE t = <<>>
    BY <2>1 DEF ContainsIgnoreCase
  <2>2. CASE t # <<>>
    <3>0. 1 \in 1 .. b
      BY <1>1, <2>2
    <3>1. PICK i \in 1 .. a - b + 1 : i = q + 1
      OBVIOUS
    <3>2. fold(s[i]) = fold(t[1])
      BY <1>4, <3>0, <3>1
    <3>3. ASSUME NEW j \in 2 .. b PROVE fold(s[i + j - 1]) = fold(t[j])
      <4>1. j \in 1 .. b /\ i + j - 1 = q + j
        BY <3>1
      <4> QED
        BY <1>4, <4>1
    <3> QED
      BY <1>1, <3>2, <3>3 DEF ContainsIgnoreCase
  <2> QED
    BY <2>1, <2>2
<1>5. 0 .. a - b \subseteq Int
  OBVIOUS
<1> HIDE DEF Here
<1> QED
  BY <1>1, <1>2, <1>3, <1>4, <1>5

\* A query that the path of a file answers.
AsksFor(f, o) ==
  o.query = {} \/ \E t \in o.query : \E i \in 0 .. Len(f.path) - Len(t) :
    [k \in 1 .. Len(t) |-> fold(f.path[i + k])] = [k \in DOMAIN t |-> fold(t[k])]

LEMMA WantsIs ==
  ASSUME NEW f \in FileOf, NEW o \in Options
  PROVE  Wants(o, f.path) <=> AsksFor(f, o)
<1>1. f.path \in Seq(Nat) /\ \A t \in o.query : t \in Seq(Nat)
  BY FindAssumption DEF FileOf
<1>2. \A t \in o.query :
        ContainsIgnoreCase(f.path, t)
          <=> \E i \in 0 .. Len(f.path) - Len(t) :
                [k \in 1 .. Len(t) |-> fold(f.path[i + k])] = [k \in DOMAIN t |-> fold(t[k])]
  BY <1>1, ContainsIs
<1> QED
  BY <1>2 DEF Wants, AsksFor

\* What a walk finds, in whatever order, and a complete index of it.
LEMMA OrderIs ==
  ASSUME NEW v \in DOMAIN Collection, NEW files \in Orders(Collection[v])
  PROVE  files \in Seq(FileOf) /\ Len(files) = Len(Collection[v])
<1>1. Collection[v] \in Seq(FileOf)
  <2>1. Collection \in Seq(Seq(FileOf)) /\ DOMAIN Collection = 1 .. Len(Collection)
    BY FindAssumption DEF FileOf
  <2> QED
    BY <2>1, ElementOfSeq
<1>2. PICK n \in Nat : n = Len(Collection[v]) /\ DOMAIN Collection[v] = 1 .. n
  BY <1>1
<1>3. \A i \in 1 .. n : Collection[v][i] \in FileOf
  BY <1>1, <1>2, ElementOfSeq
<1>4. PICK pi \in [1 .. n -> 1 .. n] : files = [i \in 1 .. n |-> Collection[v][pi[i]]]
  BY <1>2 DEF Orders
<1>5. files \in [1 .. n -> FileOf]
  BY <1>3, <1>4
<1> QED
  BY <1>2, <1>5

LEMMA BuiltIs ==
  ASSUME NEW built \in Built
  PROVE  built[1] \in Seq(FileOf) /\ built[2] = BuildIndexBytes(built[1])
<1>1. PICK v \in DOMAIN Collection :
        \E files \in Orders(Collection[v]) : built = <<files, BuildIndexBytes(files)>>
  BY DEF Built, Indexed
<1> QED
  BY <1>1, OrderIs

\* What an index says of an entry is what the file is.
LEMMA EntryIs ==
  ASSUME NEW files \in Seq(FileOf), NEW d, d = BuildIndexBytes(files)
  PROVE  /\ d[3] = Len(files)
         /\ \A i \in 1 .. Len(files) :
              /\ d[4 + i] = files[i].ext /\ d[4 + d[3] + i] = files[i].folder
              /\ Sliceable(d, i)
              /\ Path(d, i) = files[i].path
<1>1. PICK n \in Nat : n = Len(files)
  OBVIOUS
<1>2. PICK z \in Nat : z = Len(Pool(files)[n])
  <2>1. n \in 0 .. n
    OBVIOUS
  <2>2. Pool(files)[n] \in Seq(Nat)
    BY <1>1, <2>1, PoolIs
  <2> QED
    BY <2>2
<1>3. /\ d \in Seq(Nat) /\ Len(d) = 4 + 3 * n + 1 + z
      /\ d[1] = Magic /\ d[2] = Version /\ d[3] = n
      /\ \A i \in 1 .. n : d[4 + i] = files[i].ext /\ d[4 + n + i] = files[i].folder
      /\ \A i \in 1 .. n + 1 : Offset(d, i) = Len(Pool(files)[i - 1])
      /\ \A k \in 1 .. z : d[4 + 3 * n + 1 + k] = Pool(files)[n][k]
  <2>1. Layout(files, d, n, z)
    BY <1>1, <1>2, ImageIs
  <2> QED
    BY <2>1 DEF Layout
<1>4. ASSUME NEW i \in 1 .. n PROVE Sliceable(d, i) /\ Path(d, i) = files[i].path
  <2>1. /\ files[i].path \in Seq(Nat)
        /\ Len(Pool(files)[i - 1]) \in Nat
        /\ Len(Pool(files)[i]) = Len(Pool(files)[i - 1]) + Len(files[i].path)
        /\ Len(Pool(files)[i]) <= z
        /\ \A k \in 1 .. Len(files[i].path) :
             Pool(files)[n][Len(Pool(files)[i - 1]) + k] = files[i].path[k]
    BY <1>1, <1>2, PathInPool
  <2>2. PICK s \in Seq(Nat), a \in Nat, b \in Nat :
          s = files[i].path /\ a = Len(Pool(files)[i - 1]) /\ b = Len(s)
    BY <2>1
  <2>3. Offset(d, i) = a /\ Offset(d, i + 1) = a + b
    <3>1. i \in 1 .. n + 1 /\ i + 1 \in 1 .. n + 1 /\ (i + 1) - 1 = i
      OBVIOUS
    <3>2. Offset(d, i) = Len(Pool(files)[i - 1]) /\ Offset(d, i + 1) = Len(Pool(files)[(i + 1) - 1])
      BY <1>3, <3>1
    <3> QED
      BY <2>1, <2>2, <3>1, <3>2
  <2>4. a + b <= z
    BY <2>1, <2>2
  <2>5. Sliceable(d, i)
    <3>1. Spare \in Nat
      BY FindAssumption
    <3>2. a <= a + b /\ 4 + 3 * n + 1 + (a + b) <= 4 + 3 * n + 1 + z + Spare
      BY <2>4, <3>1
    <3> QED
      BY <1>3, <2>3, <3>2 DEF Sliceable
  <2>6. Path(d, i) = [k \in 1 .. b |-> PoolCell(d, a + k)]
    <3>1. (a + b) - a = b
      OBVIOUS
    <3> QED
      BY <2>3, <3>1 DEF Path
  <2>7. \A k \in 1 .. b : PoolCell(d, a + k) = s[k]
    <3> TAKE k \in 1 .. b
    <3>1. k \in Int /\ 1 <= k /\ k <= b
      OBVIOUS
    <3>2. a + k \in Int /\ 1 <= a + k /\ a + k <= z
      BY <2>4, <3>1
    <3>3. a + k \in 1 .. z
      BY <3>2
    <3>4. d[4 + 3 * n + 1 + (a + k)] = Pool(files)[n][a + k]
      BY <1>3, <3>3
    <3>5. 4 + 3 * n + 1 + (a + k) <= Len(d)
      BY <1>3, <3>2
    <3>6. PoolCell(d, a + k) = d[4 + 3 * n + 1 + (a + k)]
      BY <1>3, <3>5 DEF PoolCell
    <3>7. Pool(files)[n][a + k] = s[k]
      BY <2>1, <2>2
    <3> QED
      BY <3>4, <3>6, <3>7
  <2>8. s = [k \in 1 .. b |-> s[k]]
    BY <2>2
  <2>9. [k \in 1 .. b |-> PoolCell(d, a + k)] = [k \in 1 .. b |-> s[k]]
    BY <2>7
  <2> QED
    BY <2>2, <2>5, <2>6, <2>8, <2>9
<1> QED
  BY <1>1, <1>3, <1>4

\* What a search of a complete index finds is what it is about.
LEMMA FoundIs ==
  ASSUME NEW files \in Seq(FileOf), NEW d, d = BuildIndexBytes(files), NEW o \in Options
  PROVE  Found(d, o) = {i \in DOMAIN files : Matching(files[i], o)}
<1>0. /\ d[3] = Len(files)
      /\ \A i \in 1 .. Len(files) : /\ d[4 + i] = files[i].ext
                                     /\ d[4 + d[3] + i] = files[i].folder
                                     /\ Path(d, i) = files[i].path
  BY EntryIs
<1>1. PICK n \in Nat : n = Len(files) /\ DOMAIN files = 1 .. n /\ d[3] = n
  BY <1>0
<1>2. ASSUME NEW i \in 1 .. n
      PROVE  Filtered(d, o, i) /\ Wants(o, Path(d, i)) <=> Matching(files[i], o)
  <2>1. d[4 + i] = files[i].ext /\ d[4 + d[3] + i] = files[i].folder /\ Path(d, i) = files[i].path
    BY <1>0, <1>1
  <2>2. files[i] \in FileOf
    BY <1>1, ElementOfSeq
  <2>3. Wants(o, Path(d, i)) <=> AsksFor(files[i], o)
    BY <2>1, <2>2, WantsIs
  <2>4. Filtered(d, o, i) <=> /\ o.ext = 0 \/ files[i].ext = o.ext
                              /\ o.folder = 0 \/ files[i].folder = o.folder
    BY <2>1 DEF Filtered
  <2>5. Matching(files[i], o) <=> /\ o.ext = 0 \/ files[i].ext = o.ext
                                  /\ o.folder = 0 \/ files[i].folder = o.folder
                                  /\ AsksFor(files[i], o)
    BY DEF Matching, AsksFor
  <2> QED
    BY <2>3, <2>4, <2>5
<1> QED
  BY <1>1, <1>2 DEF Found

LEMMA NothingSorted == \A hi \in Nat : Sorted({}, 1, hi) = <<>>
<1> DEFINE E == {hi \in Nat : Sorted({}, 1, hi) = <<>>}
<1>0. 1 \in Nat \ {0}
  OBVIOUS
<1>1. 0 \in E
  BY <1>0, SortedStart
<1>2. ASSUME NEW hi \in Nat, hi \in E PROVE hi + 1 \in E
  <2>1. Sorted({}, 1, hi + 1) = IF hi + 1 < 1 THEN <<>>
                                 ELSE IF hi + 1 \in {} THEN Append(Sorted({}, 1, hi), hi + 1)
                                 ELSE Sorted({}, 1, hi)
    BY <1>0, SortedGrows
  <2> QED
    BY <1>2, <2>1
<1>3. Nat \subseteq E
  <2> HIDE DEF E
  <2> QED
    BY <1>1, <1>2, Induction
<1> QED
  BY <1>3

\* The answer of a search that has read a complete index.
LEMMA AnswerIs ==
  ASSUME NEW files \in Seq(FileOf), NEW d, d = BuildIndexBytes(files), NEW o \in Options,
         NEW r, r = Find(d, o), r.status \in {"ok", "panic"}, NEW e, e = Expected(files, o)
  PROVE  /\ r.status = "ok"
         /\ r.total = Len(e)
         /\ Len(r.matches) = (IF o.limit > 0 /\ Len(e) > o.limit THEN o.limit ELSE Len(e))
         /\ \A k \in DOMAIN r.matches : r.matches[k] = files[e[k]].path
<1>1. PICK n \in Nat : n = Len(files) /\ DOMAIN files = 1 .. n
  OBVIOUS
<1>2. /\ d[3] = n
      /\ \A i \in 1 .. n : Sliceable(d, i) /\ Path(d, i) = files[i].path
  BY <1>1, EntryIs
<1>3. e = Sorted({i \in DOMAIN files : Matching(files[i], o)}, 1, n)
  BY <1>1 DEF Expected
<1>4. e \in Seq(1 .. n)
  BY <1>3, SortedType, 1 \in Nat \ {0}
<1>5. PICK m \in Nat : m = Len(e) /\ DOMAIN e = 1 .. m
  BY <1>4
<1>6. \A i \in 1 .. m : e[i] \in 1 .. n
  BY <1>4, <1>5
<1>7. o.limit \in Int
  BY FindAssumption
<1>8. \A s, ms, t : /\ Answer1(s, ms, t).status = s
                     /\ Answer1(s, ms, t).matches = ms
                     /\ Answer1(s, ms, t).total = t
  BY DEF Answer1
<1>9. CASE o.ext = -1 \/ o.folder = -1
  <2>1. r = Answer1("ok", <<>>, 0)
    BY <1>9 DEF Find
  <2>2. {i \in DOMAIN files : Matching(files[i], o)} = {}
    <3>1. ASSUME NEW i \in DOMAIN files PROVE ~Matching(files[i], o)
      <4>1. files[i] \in FileOf
        BY <1>1, ElementOfSeq
      <4>2. files[i].ext \in Nat /\ files[i].folder \in Nat
        BY <4>1 DEF FileOf
      <4>3. files[i].ext # -1 /\ files[i].folder # -1
        BY <4>2
      <4> QED
        BY <1>9, <4>3 DEF Matching
    <3> QED
      BY <3>1
  <2>3. e = <<>>
    BY <1>3, <2>2, NothingSorted
  <2>4. m = 0
    BY <1>5, <2>3
  <2>5. r.status = "ok" /\ r.matches = <<>> /\ r.total = 0
    BY <1>8, <2>1
  <2>6. ~(m > o.limit /\ o.limit > 0)
    BY <1>7, <2>4
  <2> QED
    BY <1>5, <2>4, <2>5, <2>6
<1>10. CASE ~(o.ext = -1 \/ o.folder = -1) /\ o.bad
  <2>1. r = Answer1("error", <<>>, 0)
    BY <1>10 DEF Find
  <2> QED
    BY <1>8, <2>1
<1>11. CASE ~(o.ext = -1 \/ o.folder = -1) /\ ~o.bad
  <2> DEFINE all == Joined(d, o)[Workers]
             shown(a) == IF o.limit > 0 /\ Len(a) > o.limit THEN SubSeq(a, 1, o.limit) ELSE a
  <2>1. ~\E i \in 1 .. d[3] : Filtered(d, o, i) /\ ~Sliceable(d, i)
    BY <1>2
  <2>2. r = Answer1("ok", [k \in DOMAIN shown(all) |-> Path(d, shown(all)[k])], Len(all))
    BY <1>11, <2>1 DEF Find
  <2>3. all = e
    <3>1. Found(d, o) = {i \in DOMAIN files : Matching(files[i], o)}
      BY FoundIs
    <3>2. all = Sorted(Found(d, o), 1, d[3])
      BY <1>2, AllFound
    <3> QED
      BY <1>2, <1>3, <3>1, <3>2
  <2> HIDE DEF all, shown
  <2>4. PICK s : s = shown(e)
    OBVIOUS
  <2>5. r.status = "ok" /\ r.total = m /\ r.matches = [k \in DOMAIN s |-> Path(d, s[k])]
    BY <1>5, <1>8, <2>2, <2>3, <2>4
  <2>6. PICK l \in Nat : /\ l = (IF o.limit > 0 /\ m > o.limit THEN o.limit ELSE m) /\ l <= m
    BY <1>7
  <2>7. DOMAIN s = 1 .. l /\ \A k \in 1 .. l : s[k] = e[k]
    <3>1. CASE o.limit > 0 /\ m > o.limit
      <4>1. s = SubSeq(e, 1, l)
        BY <1>5, <2>4, <2>6, <3>1 DEF shown
      <4>2. SubSeq(e, 1, l) = [i \in 1 .. l |-> e[i]]
        BY <1>4, <1>5, <2>6
      <4> QED
        BY <4>1, <4>2
    <3>2. CASE ~(o.limit > 0 /\ m > o.limit)
      <4>1. s = e /\ l = m
        BY <1>5, <2>4, <2>6, <3>2 DEF shown
      <4> QED
        BY <1>5, <4>1
    <3> QED
      BY <3>1, <3>2
  <2>8. r.matches = [k \in 1 .. l |-> Path(d, s[k])]
    BY <2>5, <2>7
  <2>9. DOMAIN r.matches = 1 .. l
    BY <2>8
  <2>10. \A k \in 1 .. l : r.matches[k] = files[e[k]].path
    <3> TAKE k \in 1 .. l
    <3>1. k \in 1 .. m
      BY <2>6
    <3>2. e[k] \in 1 .. n
      BY <1>6, <3>1
    <3>3. r.matches[k] = Path(d, e[k])
      BY <2>7, <2>8
    <3> QED
      BY <1>2, <3>2, <3>3
  <2>11. Len(r.matches) = l
    <3>1. \A k \in 1 .. l : r.matches[k] \in Seq(Nat)
      <4> TAKE k \in 1 .. l
      <4>1. e[k] \in 1 .. n
        BY <1>6, <2>6
      <4>2. files[e[k]] \in FileOf
        BY <1>1, <4>1, ElementOfSeq
      <4> QED
        BY <2>10, <4>2 DEF FileOf
    <3>2. r.matches = [k \in 1 .. l |-> r.matches[k]]
      BY <2>8
    <3>3. r.matches \in Seq(Seq(Nat))
      BY <3>1, <3>2
    <3> QED
      BY <2>9, <3>3
  <2> QED
    BY <1>5, <2>5, <2>6, <2>9, <2>10, <2>11
<1> QED
  BY <1>9, <1>10, <1>11

\* A search ends with the answer to what it was asked, from the index it has read.
Told ==
  /\ DOMAIN at = Proc /\ DOMAIN opts = Proc /\ DOMAIN data = Proc /\ DOMAIN result = Proc
  /\ \A p \in Proc : result[p].status \in {"ok", "panic"} =>
       at[p] = "returned" /\ opts[p] \in Options /\ result[p] = Find(data[p], opts[p])

LEMMA NoneTold == NoAnswer.status \notin {"ok", "panic"}
BY Zenon DEF NoAnswer, Answer1

LEMMA ErrorTold == Answer1("error", <<>>, 0).status \notin {"ok", "panic"}
BY DEF Answer1

LEMMA ToldStep == Told /\ [FindNext]_findVars => Told'
<1> SUFFICES ASSUME Told, [FindNext]_findVars PROVE Told'
  OBVIOUS
<1>1. CASE UNCHANGED <<at, opts, data, result>>
  BY <1>1 DEF Told
<1> DEFINE Same(p) == /\ DOMAIN at' = Proc /\ DOMAIN opts' = Proc /\ DOMAIN data' = Proc /\ DOMAIN result' = Proc
                      /\ at[p] # "returned"
                      /\ \A q \in Proc \ {p} : at'[q] = at[q] /\ opts'[q] = opts[q] /\ data'[q] = data[q]
                                               /\ result'[q] = result[q]
<1>2. ASSUME NEW p \in Proc, Same(p), result'[p] = result[p] \/ result'[p].status \notin {"ok", "panic"}
      PROVE  Told'
  BY <1>2 DEF Told
<1>3. ASSUME NEW p \in Proc, Load(p) PROVE Told'
  <2>1. /\ at[p] \in {"load", "reload"} /\ data' = [data EXCEPT ![p] = disk] /\ opts' = opts
        /\ \E l : at' = [at EXCEPT ![p] = l]
        /\ result' = result \/ result' = [result EXCEPT ![p] = Answer1("error", <<>>, 0)]
    BY <1>3 DEF Load, Go, FindEnds
  <2>2. Same(p)
    BY <2>1 DEF Told
  <2>3. result'[p] = result[p] \/ result'[p].status \notin {"ok", "panic"}
    BY <2>1, ErrorTold DEF Told
  <2> QED
    BY <1>2, <2>2, <2>3
<1>4. ASSUME NEW p \in Proc, Walk(p) \/ Truncate(p) \/ Write(p) PROVE Told'
  <2>1. /\ at[p] # "returned" /\ \E l : at' = [at EXCEPT ![p] = l]
        /\ opts' = opts /\ data' = data /\ result' = result
    BY <1>4 DEF Walk, Truncate, Write, Go
  <2>2. Same(p)
    BY <2>1 DEF Told
  <2> QED
    BY <1>2, <2>1, <2>2
<1>5. ASSUME NEW p \in Proc, Interrupted(p) PROVE Told'
  <2>1. /\ at[p] # "returned" /\ at' = [at EXCEPT ![p] = "returned"]
        /\ opts' = opts /\ data' = data /\ result' = [result EXCEPT ![p] = Answer1("error", <<>>, 0)]
    BY <1>5 DEF Interrupted, FindEnds, Go
  <2>2. Same(p)
    BY <2>1 DEF Told
  <2>3. result'[p].status \notin {"ok", "panic"}
    BY <2>1, ErrorTold DEF Told
  <2> QED
    BY <1>2, <2>2, <2>3
<1>6. ASSUME NEW p \in Proc, Search(p) PROVE Told'
  <2>1. PICK o \in Options : /\ opts' = [opts EXCEPT ![p] = o] /\ data' = data
                             /\ at' = [at EXCEPT ![p] = "returned"]
                             /\ result' = [result EXCEPT ![p] = Find(data[p], o)]
    BY <1>6 DEF Search, FindEnds, Go
  <2>2. /\ DOMAIN at' = Proc /\ DOMAIN opts' = Proc /\ DOMAIN data' = Proc /\ DOMAIN result' = Proc
        /\ at'[p] = "returned" /\ opts'[p] = o /\ data'[p] = data[p] /\ result'[p] = Find(data[p], o)
    BY <2>1 DEF Told
  <2>3. \A q \in Proc \ {p} : at'[q] = at[q] /\ opts'[q] = opts[q] /\ data'[q] = data[q] /\ result'[q] = result[q]
    BY <2>1 DEF Told
  <2>4. result'[p] = Find(data'[p], opts'[p])
    BY <2>2
  <2> QED
    BY <2>2, <2>3, <2>4 DEF Told
<1>7. CASE Evolve
  BY <1>1, <1>7 DEF Evolve, procVars
<1>8. CASE UNCHANGED findVars
  BY <1>1, <1>8 DEF findVars, procVars
<1> QED
  BY <1>3, <1>4, <1>5, <1>6, <1>7, <1>8 DEF FindNext

\* A search that has read a complete index answers with exactly those of the files the
\* index was built from that match, in their order, and with their number, for every
\* collection, every order a walk may find it in, every search and every number of
\* goroutines; what a search answers that has read half an index is not its subject
\* (BuildIndexBytes and Find, index.go 220-380).
THEOREM SearchesAreExact == FindSpec => []SearchExact
<1>1. FindInit => Told
  <2> SUFFICES ASSUME FindInit PROVE Told
    OBVIOUS
  <2>1. /\ at \in [Proc -> {"load", "walk only"}] /\ opts = [p \in Proc |-> NoSearch]
        /\ data = [p \in Proc |-> Missing] /\ result = [p \in Proc |-> NoAnswer]
    BY DEF FindInit
  <2> QED
    BY <2>1, NoneTold DEF Told
<1>2. Told => SearchExact
  <2> SUFFICES ASSUME Told, NEW p \in Proc, NEW built \in Built,
                      result[p].status \in {"ok", "panic"}, data[p] = built[2], NEW e,
                      e = Expected(built[1], opts[p])
               PROVE  /\ result[p].status = "ok"
                      /\ result[p].total = Len(e)
                      /\ Len(result[p].matches) = (IF opts[p].limit > 0 /\ Len(e) > opts[p].limit
                                                   THEN opts[p].limit ELSE Len(e))
                      /\ \A k \in DOMAIN result[p].matches : result[p].matches[k] = built[1][e[k]].path
    BY DEF SearchExact
  <2>0. PICK r : r = result[p]
    OBVIOUS
  <2>1. PICK o \in Options : o = opts[p] /\ r = result[p] /\ r = Find(built[2], o)
    BY <2>0 DEF Told
  <2>2. /\ r.status = "ok"
        /\ r.total = Len(e)
        /\ Len(r.matches) = (IF o.limit > 0 /\ Len(e) > o.limit THEN o.limit ELSE Len(e))
        /\ \A k \in DOMAIN r.matches : r.matches[k] = built[1][e[k]].path
    BY <2>1, BuiltIs, AnswerIs
  <2> QED
    BY <2>1, <2>2
<1> QED
  BY <1>1, <1>2, ToldStep, PTL DEF FindSpec

-----------------------------------------------------------------------------
(* Find: the file of the index, written by several processes at once.     *)

Early == {"load", "walk", "walk only", "open", "open only"}
Writing == {"write", "write only"}
Place == Early \cup Writing \cup {"reload", "search", "returned"}

\* What an index of the collection as it is at first has in the cells that are looked at
\* when it is opened, in whatever order the files were found, and how long it is at least.
Count == Len(Collection[1])
Tables == 4 + 2 * Count + Count + 1
Head3 == <<Magic, Version, Count>>

\* What the processes have in hand.
Ready ==
  /\ version \in DOMAIN Collection
  /\ at \in [Proc -> Place] /\ done \in [Proc -> Nat] /\ DOMAIN tree = Proc
  /\ \A p \in Proc : at[p] \in {"open", "open only"} \cup Writing =>
       <<tree[p], Image(p)>> \in Built
  /\ ~changed =>
       /\ version = 1
       /\ \A p \in Proc : at[p] \in {"open", "open only"} \cup Writing => tree[p] \in Orders(Collection[1])

\* Nobody has begun to write a file that cannot be opened.
Fresh == ~OpenIndex(disk) /\ \A p \in Proc : at[p] \in Early

\* Every cell of the tables is there and right, or somebody has yet to write it.
Right(i) == i \in 1 .. Len(disk) /\ (i \in 1 .. 3 => disk[i] = Head3[i])
Due(i) == \E p \in Proc : at[p] \in Writing /\ done[p] < i
Rewritten == \A i \in 1 .. Tables : Right(i) \/ Due(i)

\* The file is complete and nobody is writing, or the only one who is has written the
\* beginning of his image.
Complete == \E built \in Built : disk = built[2]
Part(p) == /\ done[p] <= Len(Image(p)) /\ disk = SubSeq(Image(p), 1, done[p])
Sole ==
  \/ Complete /\ \A p \in Proc : at[p] \notin Writing
  \/ \E p \in Proc : /\ at[p] \in Writing /\ Part(p)
                     /\ \A q \in Proc \ {p} : at[q] \notin Writing

Converging ==
  ~faulted => \/ Fresh
              \/ /\ disk \in Seq(Nat)
                 /\ ~changed => Rewritten
                 /\ ~collided => Sole

LEMMA FirstIs == 1 \in DOMAIN Collection /\ Count \in Nat /\ Tables \in Nat /\ Tables >= 5
<1>1. Collection \in Seq(Seq(FileOf)) /\ Collection # <<>>
  BY FindAssumption DEF FileOf
<1>2. 1 \in DOMAIN Collection /\ Collection[1] \in Seq(FileOf)
  BY <1>1
<1> QED
  BY <1>2 DEF Count, Tables

LEMMA ImageType ==
  ASSUME NEW files \in Seq(FileOf), NEW image, image = BuildIndexBytes(files)
  PROVE  /\ image \in Seq(Nat) /\ Len(image) \in Nat
         /\ Len(image) >= 4 + 2 * Len(files) + Len(files) + 1
         /\ image[1] = Magic /\ image[2] = Version /\ image[3] = Len(files)
<1>1. PICK n \in Nat : n = Len(files)
  OBVIOUS
<1>2. n \in 0 .. n
  OBVIOUS
<1>3. Pool(files)[n] \in Seq(Nat)
  BY <1>1, <1>2, PoolIs
<1>4. PICK z \in Nat : z = Len(Pool(files)[n])
  BY <1>3
<1>5. Layout(files, image, n, z)
  BY <1>1, <1>4, ImageIs
<1>6. /\ image \in Seq(Nat) /\ Len(image) = 4 + 3 * n + 1 + z
      /\ image[1] = Magic /\ image[2] = Version /\ image[3] = n
  BY <1>5 DEF Layout
<1>7. Len(image) \in Nat /\ Len(image) >= 4 + 2 * n + n + 1
  <2>1. PICK len : len = Len(image)
    OBVIOUS
  <2>2. len = 4 + 3 * n + 1 + z
    BY <1>6, <2>1
  <2>3. len \in Nat /\ len >= 4 + 2 * n + n + 1
    BY <2>2
  <2> QED
    BY <2>1, <2>3
<1> QED
  BY <1>1, <1>6, <1>7

\* An image of the collection as it is at first.
LEMMA FirstImage ==
  ASSUME NEW files \in Orders(Collection[1]), NEW image, image = BuildIndexBytes(files)
  PROVE  /\ image \in Seq(Nat) /\ Len(image) \in Nat /\ Len(image) >= Tables
         /\ image[1] = Magic /\ image[2] = Version /\ image[3] = Count
BY FirstIs, OrderIs, ImageType DEF Count, Tables

\* The collection as it is is one of the orders it can be found in.
LEMMA AsItIs == Collection[1] \in Orders(Collection[1])
<1>1. Collection \in Seq(Seq(FileOf)) /\ Collection # <<>>
  BY FindAssumption DEF FileOf
<1>2. Collection[1] \in Seq(FileOf)
  BY <1>1
<1>3. PICK files : files \in Seq(FileOf) /\ files = Collection[1]
  BY <1>2
<1>d. PICK D : D = DOMAIN files
  OBVIOUS
<1>4. files = [i \in D |-> files[i]]
  BY <1>3, <1>d
<1> DEFINE same == [i \in D |-> i]
<1>5. same \in {f \in [D -> D] : \A i, j \in D : f[i] = f[j] => i = j}
  OBVIOUS
<1>6. [i \in D |-> files[same[i]]] = files
  BY <1>4
<1> HIDE DEF same
<1>7. files \in {[i \in D |-> files[pi[i]]] :
                  pi \in {f \in [D -> D] : \A i, j \in D : f[i] = f[j] => i = j}}
  BY <1>5, <1>6
<1> QED
  BY <1>3, <1>d, <1>7 DEF Orders

LEMMA OrderBuilt ==
  ASSUME NEW v \in DOMAIN Collection, NEW files \in Orders(Collection[v])
  PROVE  <<files, BuildIndexBytes(files)>> \in Built
BY DEF Built, Indexed

LEMMA ConvergingInit == FindInit => Ready /\ Converging
<1> SUFFICES ASSUME FindInit PROVE Ready /\ Converging
  OBVIOUS
<1>1. /\ at \in [Proc -> {"load", "walk only"}] /\ done = [p \in Proc |-> 0]
      /\ tree = [p \in Proc |-> <<>>] /\ version = 1
  BY DEF FindInit
<1>2. Ready
  BY <1>1, FirstIs DEF Ready, Place, Early, Writing
<1>3. PICK whole : whole = BuildIndexBytes(Collection[1])
  OBVIOUS
<1>4. /\ whole \in Seq(Nat) /\ Len(whole) \in Nat /\ Len(whole) >= Tables
      /\ whole[1] = Magic /\ whole[2] = Version /\ whole[3] = Count
  BY <1>3, AsItIs, FirstImage
<1>5. CASE disk = whole
  <2>1. Rewritten
    <3>1. \A i \in 1 .. Tables : i \in 1 .. Len(disk)
      BY <1>4, <1>5, FirstIs
    <3>2. \A i \in 1 .. 3 : disk[i] = Head3[i]
      <4>1. \A i \in 1 .. 3 : i = 1 \/ i = 2 \/ i = 3
        OBVIOUS
      <4> QED
        BY <1>4, <1>5, <4>1 DEF Head3
    <3> QED
      BY <3>1, <3>2 DEF Rewritten, Right
  <2>2. Complete
    <3>1. <<Collection[1], whole>> \in Built
      BY <1>3, AsItIs, OrderBuilt, FirstIs
    <3> QED
      BY <1>5, <3>1 DEF Complete
  <2>3. \A p \in Proc : at[p] \notin Writing
    BY <1>1 DEF Writing
  <2> QED
    BY <1>2, <1>4, <1>5, <2>1, <2>2, <2>3 DEF Converging, Sole
<1>6. CASE disk # whole
  <2>1. disk = Missing \/ disk[2] = Version + 1
    <3>1. disk \in {Missing, whole, [whole EXCEPT ![2] = Version + 1]}
      BY <1>3 DEF FindInit
    <3>2. [whole EXCEPT ![2] = Version + 1][2] = Version + 1
      <4>1. 2 \in DOMAIN whole
        BY <1>4, FirstIs, LenProperties
      <4> QED
        BY <4>1
    <3> QED
      BY <1>6, <3>1, <3>2
  <2>2. ~OpenIndex(disk)
    BY <2>1 DEF OpenIndex, Version
  <2>3. Fresh
    BY <1>1, <2>2 DEF Fresh, Early
  <2> QED
    BY <1>2, <2>3 DEF Converging
<1> QED
  BY <1>5, <1>6

\* A process goes from one place to another.
LEMMA Goes ==
  ASSUME Ready, NEW p \in Proc, NEW l \in Place, Go(p, l)
  PROVE  /\ at' \in [Proc -> Place] /\ at'[p] = l
         /\ \A q \in Proc \ {p} : at'[q] = at[q]
BY DEF Ready, Go

\* The file stays as it is, and so do the writers.
LEMMA StaysConverging ==
  ASSUME Ready, Converging, at' \in [Proc -> Place],
         UNCHANGED <<disk, done, faulted, changed, collided>>,
         \A q \in Proc : at[q] \in Writing <=> at'[q] \in Writing,
         \A q \in Proc : at[q] \in Writing => tree'[q] = tree[q],
         Fresh => \A q \in Proc : at'[q] \in Early
  PROVE  Converging'
<1>1. Fresh => Fresh'
  BY DEF Fresh
<1>2. Rewritten => Rewritten'
  <2>1. ASSUME Rewritten PROVE \A i \in 1 .. Tables : Right(i)' \/ Due(i)'
    BY <2>1 DEF Rewritten, Right, Due
  <2> QED
    BY <2>1 DEF Rewritten
<1>3. Sole => Sole'
  <2>1. ASSUME Complete, \A p \in Proc : at[p] \notin Writing PROVE Sole'
    BY <2>1 DEF Sole, Complete
  <2>2. ASSUME NEW p \in Proc, at[p] \in Writing, Part(p), \A q \in Proc \ {p} : at[q] \notin Writing
        PROVE  Sole'
    <3>1. Part(p)'
      BY <2>2 DEF Part, Image
    <3> QED
      BY <2>2, <3>1 DEF Sole
  <2> QED
    BY <2>1, <2>2 DEF Sole
<1> QED
  BY <1>1, <1>2, <1>3 DEF Converging

\* A process writes the piece of its image up to k around what is there.
LEMMA PieceWritten ==
  ASSUME Ready, NEW p \in Proc, at[p] \in Writing, disk \in Seq(Nat),
         NEW k \in Nat, k > done[p], k <= Len(Image(p)),
         disk' = [i \in 1 .. (IF Len(disk) > k THEN Len(disk) ELSE k) |->
                    IF i \in done[p] + 1 .. k THEN Image(p)[i] ELSE IF i <= Len(disk) THEN disk[i] ELSE 0]
  PROVE  /\ disk' \in Seq(Nat)
         /\ \A i \in 1 .. Len(disk) : i \in 1 .. Len(disk') /\ (i \notin done[p] + 1 .. k => disk'[i] = disk[i])
         /\ \A i \in done[p] + 1 .. k : i \in 1 .. Len(disk') /\ disk'[i] = Image(p)[i]
         /\ Len(disk) = done[p] => Len(disk') = k
<1>1. Image(p) \in Seq(Nat)
  <2>1. <<tree[p], Image(p)>> \in Built
    BY DEF Ready
  <2>2. tree[p] \in Seq(FileOf)
    BY <2>1, BuiltIs
  <2> QED
    BY <2>2, ImageType DEF Image
<1>2. PICK l, m, d, e, image :
        /\ l = Len(disk) /\ l \in Nat
        /\ m = (IF l > k THEN l ELSE k) /\ m \in Nat
        /\ d = done[p] /\ d \in Nat /\ d < k
        /\ e = disk' /\ image = Image(p) /\ image \in Seq(Nat) /\ k <= Len(image)
  <2>1. Len(disk) \in Nat /\ done[p] \in Nat
    BY LenProperties DEF Ready
  <2> QED
    BY <1>1, <2>1
<1>3. e = [i \in 1 .. m |-> IF i \in d + 1 .. k THEN image[i] ELSE IF i <= l THEN disk[i] ELSE 0]
  BY <1>2
<1>4. \A i \in 1 .. l : disk[i] \in Nat
  BY <1>2, ElementOfSeq
<1>5. \A i \in 1 .. k : image[i] \in Nat
  BY <1>2, ElementOfSeq
<1>6. e \in Seq(Nat) /\ Len(e) = m
  <2>1. \A i \in 1 .. m : (IF i \in d + 1 .. k THEN image[i] ELSE IF i <= l THEN disk[i] ELSE 0) \in Nat
    <3> SUFFICES ASSUME NEW i \in 1 .. m
                 PROVE  (IF i \in d + 1 .. k THEN image[i] ELSE IF i <= l THEN disk[i] ELSE 0) \in Nat
      OBVIOUS
    <3>1. (i \in d + 1 .. k => i \in 1 .. k) /\ (i <= l => i \in 1 .. l)
      BY <1>2
    <3> QED
      BY <1>4, <1>5, <3>1
  <2> QED
    BY <1>2, <1>3, <2>1
<1>7. \A i \in 1 .. l : i \in 1 .. m /\ (i \notin d + 1 .. k => e[i] = disk[i])
  BY <1>2, <1>3
<1>8. \A i \in d + 1 .. k : i \in 1 .. m /\ e[i] = image[i]
  BY <1>2, <1>3
<1>9. l = d => m = k
  BY <1>2
<1>10. /\ e \in Seq(Nat)
       /\ \A i \in 1 .. l : i \in 1 .. Len(e) /\ (i \notin d + 1 .. k => e[i] = disk[i])
       /\ \A i \in d + 1 .. k : i \in 1 .. Len(e) /\ e[i] = image[i]
       /\ l = d => Len(e) = k
  BY <1>6, <1>7, <1>8, <1>9
<1>11. l = Len(disk) /\ d = done[p] /\ e = disk' /\ image = Image(p)
  BY <1>2
<1> QED
  BY <1>10, <1>11

LEMMA WriteConverging ==
  ASSUME Ready, Converging, NEW p \in Proc, Write(p)
  PROVE  Ready' /\ Converging'
<1>1. at[p] \in Writing /\ UNCHANGED <<version, tree, faulted, changed, collided>>
  BY DEF Write, Writing
<1>2. PICK k \in Pieces(p) :
        /\ disk' = [i \in 1 .. (IF Len(disk) > k THEN Len(disk) ELSE k) |->
                      IF i \in done[p] + 1 .. k THEN Image(p)[i]
                      ELSE IF i <= Len(disk) THEN disk[i] ELSE 0]
        /\ done' = [done EXCEPT ![p] = k]
        /\ Go(p, IF k < Len(Image(p)) THEN at[p]
                 ELSE IF at[p] = "write" THEN "reload" ELSE "returned")
  BY DEF Write
<1>3. PICK l \in Place :
        /\ Go(p, l) /\ l \in Writing \cup {"reload", "returned"}
        /\ k < Len(Image(p)) => l = at[p]
        /\ ~(k < Len(Image(p))) => l \notin Writing
  <2>1. PICK l : l = IF k < Len(Image(p)) THEN at[p]
                     ELSE IF at[p] = "write" THEN "reload" ELSE "returned"
    OBVIOUS
  <2>2. /\ l \in Writing \cup {"reload", "returned"} /\ l \in Place
        /\ k < Len(Image(p)) => l = at[p]
        /\ ~(k < Len(Image(p))) => l \notin Writing
    BY <1>1, <2>1 DEF Place, Writing
  <2>3. Go(p, l)
    BY <1>2, <2>1
  <2> QED
    BY <2>2, <2>3
<1>4. at' \in [Proc -> Place] /\ at'[p] = l /\ \A q \in Proc \ {p} : at'[q] = at[q]
  BY <1>3, Goes
<1>5. <<tree[p], Image(p)>> \in Built
  BY <1>1 DEF Ready
<1>6. PICK image \in Seq(Nat) : image = Image(p) /\ Len(image) \in Nat
  <2>1. tree[p] \in Seq(FileOf)
    BY <1>5, BuiltIs
  <2> QED
    BY <2>1, ImageType DEF Image
<1>7. k \in Nat /\ k > done[p] /\ k <= Len(image)
  BY <1>2, <1>6, FindAssumption DEF Pieces
<1>8. done' \in [Proc -> Nat] /\ done'[p] = k /\ \A q \in Proc \ {p} : done'[q] = done[q]
  BY <1>2, <1>7 DEF Ready
<1>9. \A q \in Proc : Image(q)' = Image(q)
  BY <1>1 DEF Image
<1>10. Ready'
  <2>1. \A q \in Proc : at'[q] \in {"open", "open only"} \cup Writing => at[q] \in {"open", "open only"} \cup Writing
    BY <1>1, <1>4
  <2> QED
    BY <1>1, <1>4, <1>8, <1>9, <2>1 DEF Ready
<1>11. CASE faulted
  BY <1>1, <1>10, <1>11 DEF Converging
<1>12. CASE ~faulted
  <2>1. disk \in Seq(Nat) /\ (~changed => Rewritten) /\ (~collided => Sole)
    BY <1>1, <1>12 DEF Converging, Fresh, Early, Writing
  <2>2. /\ disk' \in Seq(Nat)
        /\ \A i \in 1 .. Len(disk) : i \in 1 .. Len(disk') /\ (i \notin done[p] + 1 .. k => disk'[i] = disk[i])
        /\ \A i \in done[p] + 1 .. k : i \in 1 .. Len(disk') /\ disk'[i] = image[i]
        /\ Len(disk) = done[p] => Len(disk') = k
    BY <1>1, <1>2, <1>6, <1>7, <2>1, PieceWritten
  <2>3. ASSUME ~changed PROVE Rewritten'
    <3>1. Len(image) >= Tables /\ image[1] = Magic /\ image[2] = Version /\ image[3] = Count
      BY <1>1, <1>6, <2>3, FirstImage DEF Ready, Image
    <3>2. \A i \in 1 .. 3 : image[i] = Head3[i]
      <4>1. \A i \in 1 .. 3 : i = 1 \/ i = 2 \/ i = 3
        OBVIOUS
      <4> QED
        BY <3>1, <4>1 DEF Head3
    <3>3. ASSUME NEW i \in 1 .. Tables PROVE Right(i)' \/ Due(i)'
      <4>0. i \in Nat \ {0} /\ i <= Tables /\ done[p] \in Nat
        <5>1. done[p] \in Nat
          BY DEF Ready
        <5> QED
          BY <5>1, FirstIs
      <4>1. CASE i \in done[p] + 1 .. k
        BY <2>2, <3>2, <4>1 DEF Right
      <4>2. CASE i \notin done[p] + 1 .. k /\ Right(i)
        <5>1. i \in 1 .. Len(disk) /\ (i \in 1 .. 3 => disk[i] = Head3[i])
          BY <4>2 DEF Right
        <5>2. i \in 1 .. Len(disk') /\ disk'[i] = disk[i]
          BY <2>2, <4>2, <5>1
        <5> QED
          BY <5>1, <5>2 DEF Right
      <4>3. CASE i \notin done[p] + 1 .. k /\ ~Right(i)
        <5>1. PICK q \in Proc : at[q] \in Writing /\ done[q] < i
          BY <2>1, <2>3, <4>3 DEF Rewritten, Due
        <5>2. CASE q = p
          <6>1. k < i
            BY <1>7, <4>0, <4>3, <5>1, <5>2
          <6>2. k < Len(image)
            BY <1>6, <1>7, <3>1, <4>0, <6>1, FirstIs
          <6> QED
            BY <1>1, <1>3, <1>4, <1>6, <1>8, <6>1, <6>2 DEF Due
        <5>3. CASE q # p
          BY <1>4, <1>8, <5>1, <5>3 DEF Due
        <5> QED
          BY <5>2, <5>3
      <4> QED
        BY <4>1, <4>2, <4>3
    <3> QED
      BY <3>3 DEF Rewritten
  <2>4. ASSUME ~collided PROVE Sole'
    <3>1. Part(p) /\ \A q \in Proc \ {p} : at[q] \notin Writing
      BY <1>1, <2>1, <2>4 DEF Sole
    <3>2. PICK d \in Nat : d = done[p] /\ d < k /\ d <= Len(image) /\ disk = SubSeq(image, 1, d)
      BY <1>6, <1>7, <3>1 DEF Part, Ready
    <3>3. Len(disk) = d /\ \A i \in 1 .. d : disk[i] = image[i]
      BY <1>6, <3>2
    <3>4. \A i \in 1 .. k : disk'[i] = image[i]
      <4> TAKE i \in 1 .. k
      <4>1. CASE i \in d + 1 .. k
        BY <2>2, <3>2, <4>1
      <4>2. CASE i \notin d + 1 .. k
        <5>1. i \in 1 .. d
          BY <1>7, <3>2, <4>2
        <5> QED
          BY <2>2, <3>2, <3>3, <4>2, <5>1
      <4> QED
        BY <4>1, <4>2
    <3>5. disk' = SubSeq(image, 1, k)
      <4>1. Len(disk') = k
        BY <2>2, <3>2, <3>3
      <4>2. PICK s : s = SubSeq(image, 1, k)
        OBVIOUS
      <4>3. s \in Seq(Nat) /\ Len(s) = k /\ \A i \in 1 .. k : s[i] = image[i]
        BY <1>6, <1>7, <4>2
      <4> QED
        BY <2>2, <3>4, <4>1, <4>2, <4>3, SeqEqual
    <3>6. CASE k < Len(image)
      <4>1. at'[p] \in Writing
        BY <1>1, <1>3, <1>4, <1>6, <3>6
      <4>2. Part(p)'
        BY <1>6, <1>7, <1>8, <1>9, <3>5 DEF Part
      <4> QED
        BY <1>4, <3>1, <4>1, <4>2 DEF Sole
    <3>7. CASE ~(k < Len(image))
      <4>1. k = Len(image)
        BY <1>6, <1>7, <3>7
      <4>2. disk' = image
        <5>1. Len(disk') = k
          BY <2>2, <3>2, <3>3
        <5> QED
          BY <1>6, <2>2, <3>4, <4>1, <5>1, SeqEqual
      <4>3. Complete'
        BY <1>5, <1>6, <4>2 DEF Complete
      <4>4. \A q \in Proc : at'[q] \notin Writing
        BY <1>3, <1>4, <1>6, <3>1, <3>7
      <4> QED
        BY <4>3, <4>4 DEF Sole
    <3> QED
      BY <3>6, <3>7
  <2> QED
    BY <1>1, <1>10, <2>2, <2>3, <2>4 DEF Converging
<1> QED
  BY <1>11, <1>12

\* No step of any process makes a cell of the tables wrong that nobody has yet to write, and
\* only a second writer makes the file differ from what one of them has written.
LEMMA ConvergingStep ==
  ASSUME Ready, Converging, [FindNext]_findVars
  PROVE  Ready' /\ Converging'
<1>1. CASE Evolve
  <2>1. /\ version < Len(Collection) /\ version' = version + 1 /\ changed' = TRUE
        /\ UNCHANGED <<disk, at, tree, done, faulted, collided>>
    BY <1>1 DEF Evolve, procVars
  <2>2. version' \in DOMAIN Collection
    <3>1. Collection \in Seq(Seq(FileOf))
      BY FindAssumption DEF FileOf
    <3>2. DOMAIN Collection = 1 .. Len(Collection) /\ Len(Collection) \in Nat
      BY <3>1
    <3>3. version \in DOMAIN Collection
      BY DEF Ready
    <3> QED
      BY <2>1, <3>2, <3>3
  <2>3. Ready'
    BY <2>1, <2>2 DEF Ready, Image
  <2>4. Converging'
    BY <2>1 DEF Converging, Fresh, Sole, Complete, Part, Image
  <2> QED
    BY <2>3, <2>4
<1>2. CASE UNCHANGED findVars
  <2>1. UNCHANGED <<version, disk, at, tree, done, faulted, changed, collided>>
    BY <1>2 DEF findVars, procVars
  <2>2. Ready'
    BY <2>1 DEF Ready, Image
  <2> QED
    BY <2>1, <2>2, StaysConverging DEF Fresh, Ready
<1>3. ASSUME NEW p \in Proc, Load(p) PROVE Ready' /\ Converging'
  <2>1. /\ at[p] \in {"load", "reload"}
        /\ UNCHANGED <<version, disk, tree, done, faulted, changed, collided>>
        /\ \E l \in {"search", "walk", "returned"} :
             /\ Go(p, l)
             /\ l # "walk" /\ at[p] = "load" => OpenIndex(disk)
    BY <1>3 DEF Load, FindEnds
  <2>2. PICK l \in {"search", "walk", "returned"} : Go(p, l) /\ (l # "walk" /\ at[p] = "load" => OpenIndex(disk))
    BY <2>1
  <2>3. at' \in [Proc -> Place] /\ at'[p] = l /\ \A q \in Proc \ {p} : at'[q] = at[q]
    BY <2>2, Goes DEF Place, Early
  <2>4. Ready'
    BY <2>1, <2>2, <2>3 DEF Ready, Writing, Image
  <2>5. Fresh => \A q \in Proc : at'[q] \in Early
    BY <2>1, <2>2, <2>3 DEF Fresh, Early
  <2>6. \A q \in Proc : at[q] \in Writing <=> at'[q] \in Writing
    BY <2>1, <2>2, <2>3 DEF Writing
  <2> QED
    BY <2>1, <2>3, <2>4, <2>5, <2>6, StaysConverging
<1>4. ASSUME NEW p \in Proc, Walk(p) PROVE Ready' /\ Converging'
  <2>1. /\ at[p] \in {"walk", "walk only"} /\ UNCHANGED <<version, disk, done, faulted, changed, collided>>
        /\ \E files \in Orders(Collection[version]) : tree' = [tree EXCEPT ![p] = files]
        /\ \E l \in {"open", "open only"} : Go(p, l)
    BY <1>4 DEF Walk
  <2>2. PICK files \in Orders(Collection[version]), l \in {"open", "open only"} :
          tree' = [tree EXCEPT ![p] = files] /\ Go(p, l)
    BY <2>1
  <2>3. at' \in [Proc -> Place] /\ at'[p] = l /\ \A q \in Proc \ {p} : at'[q] = at[q]
    BY <2>2, Goes DEF Place, Early
  <2>4. DOMAIN tree' = Proc /\ tree'[p] = files /\ \A q \in Proc \ {p} : tree'[q] = tree[q]
    BY <2>2 DEF Ready
  <2>5. Image(p)' = BuildIndexBytes(files) /\ \A q \in Proc \ {p} : Image(q)' = Image(q)
    BY <2>4 DEF Image
  <2>6. <<files, BuildIndexBytes(files)>> \in Built
    BY OrderBuilt DEF Ready
  <2>7. Ready'
    BY <2>1, <2>2, <2>3, <2>4, <2>5, <2>6 DEF Ready
  <2>8. /\ Fresh => \A q \in Proc : at'[q] \in Early
        /\ \A q \in Proc : at[q] \in Writing <=> at'[q] \in Writing
        /\ \A q \in Proc : at[q] \in Writing => tree'[q] = tree[q]
    BY <2>1, <2>2, <2>3, <2>4 DEF Fresh, Early, Writing
  <2> QED
    BY <2>1, <2>3, <2>7, <2>8, StaysConverging
<1>5. ASSUME NEW p \in Proc, Truncate(p) PROVE Ready' /\ Converging'
  <2>1. /\ at[p] \in {"open", "open only"} /\ UNCHANGED <<version, tree, faulted, changed>>
        /\ disk' = <<>> /\ done' = [done EXCEPT ![p] = 0]
        /\ collided' = (collided \/ \E q \in Proc : at[q] \in Writing)
        /\ \E l \in Writing : Go(p, l)
    BY <1>5 DEF Truncate, Writing
  <2>2. PICK l \in Writing : Go(p, l)
    BY <2>1
  <2>3. at' \in [Proc -> Place] /\ at'[p] = l /\ \A q \in Proc \ {p} : at'[q] = at[q]
    BY <2>2, Goes DEF Place
  <2>4. done' \in [Proc -> Nat] /\ done'[p] = 0
    BY <2>1 DEF Ready
  <2>5. Ready'
    BY <2>1, <2>2, <2>3, <2>4 DEF Ready, Image
  <2>6. Rewritten'
    <3>1. \A i \in 1 .. Tables : Due(i)'
      BY <2>2, <2>3, <2>4, FirstIs DEF Due
    <3> QED
      BY <3>1 DEF Rewritten
  <2>7. ASSUME ~collided' PROVE Sole'
    <3>1. \A q \in Proc \ {p} : at'[q] \notin Writing
      BY <2>1, <2>3, <2>7
    <3>2. PICK image : image \in Seq(Nat) /\ Len(image) \in Nat /\ image = Image(p)'
      <4>1. <<tree[p], Image(p)>> \in Built
        BY <2>1 DEF Ready
      <4>2. tree[p] \in Seq(FileOf) /\ Image(p)' = Image(p)
        BY <2>1, <4>1, BuiltIs DEF Image
      <4> QED
        BY <4>2, ImageType DEF Image
    <3>3. SubSeq(image, 1, 0) = <<>>
      BY <3>2
    <3>4. Part(p)'
      <4>1. 0 <= Len(image)
        BY <3>2
      <4> QED
        BY <2>1, <2>4, <3>2, <3>3, <4>1 DEF Part
    <3> QED
      BY <2>2, <2>3, <3>1, <3>4 DEF Sole
  <2>8. disk' \in Seq(Nat)
    BY <2>1, EmptySeq
  <2> QED
    BY <2>5, <2>6, <2>7, <2>8 DEF Converging
<1>6. ASSUME NEW p \in Proc, Write(p) PROVE Ready' /\ Converging'
  BY <1>6, WriteConverging
<1>7. ASSUME NEW p \in Proc, Interrupted(p) PROVE Ready' /\ Converging'
  <2>1. Go(p, "returned") /\ faulted' /\ UNCHANGED <<version, tree, done, changed>>
    BY <1>7 DEF Interrupted, FindEnds
  <2>2. at' \in [Proc -> Place] /\ at'[p] = "returned" /\ \A q \in Proc \ {p} : at'[q] = at[q]
    BY <2>1, Goes DEF Place
  <2> QED
    BY <2>1, <2>2 DEF Ready, Writing, Converging, Image
<1>8. ASSUME NEW p \in Proc, Search(p) PROVE Ready' /\ Converging'
  <2>1. /\ Go(p, "returned") /\ at[p] = "search"
        /\ UNCHANGED <<version, disk, tree, done, faulted, changed, collided>>
    BY <1>8 DEF Search, FindEnds
  <2>2. at' \in [Proc -> Place] /\ at'[p] = "returned" /\ \A q \in Proc \ {p} : at'[q] = at[q]
    BY <2>1, Goes DEF Place
  <2>3. Ready'
    BY <2>1, <2>2 DEF Ready, Writing, Image
  <2>4. ~Fresh
    BY <2>1 DEF Fresh, Early
  <2>5. \A q \in Proc : at[q] \in Writing <=> at'[q] \in Writing
    BY <2>1, <2>2 DEF Writing
  <2> QED
    BY <2>1, <2>2, <2>3, <2>4, <2>5, StaysConverging
<1> QED
  BY <1>1, <1>2, <1>3, <1>4, <1>5, <1>6, <1>7, <1>8 DEF FindNext

\* However many processes build the index file, each from the files as its walk finds them,
\* each cutting the file to nothing and writing it in pieces cut anywhere, without a lock
\* (os.WriteFile in index.go): when none is writing and none was interrupted, the file is a
\* complete index if no two have written at once, and if the collection has not changed it
\* can be opened and counts every file even if they have.
THEOREM BuildsDoConverge == FindSpec => []BuildsConverge
<1>1. FindInit => Ready /\ Converging
  BY ConvergingInit
<1>2. Ready /\ Converging /\ [FindNext]_findVars => Ready' /\ Converging'
  BY ConvergingStep
<1>3. Ready /\ Converging => BuildsConverge
  <2> SUFFICES ASSUME Ready, Converging, \A p \in Proc : at[p] \notin Writing, ~faulted,
                      ~\A p \in Proc : at[p] \in Early
               PROVE  /\ ~collided => Complete
                      /\ ~changed => OpenIndex(disk) /\ disk[3] = Count
    BY DEF BuildsConverge, Writing, Early, Complete, Count
  <2>1. disk \in Seq(Nat) /\ (~changed => Rewritten) /\ (~collided => Sole)
    BY DEF Converging, Fresh
  <2>2. ~collided => Complete
    BY <2>1 DEF Sole
  <2>3. ASSUME ~changed PROVE OpenIndex(disk) /\ disk[3] = Count
    <3>1. \A i \in 1 .. Tables : i \in 1 .. Len(disk) /\ (i \in 1 .. 3 => disk[i] = Head3[i])
      BY <2>1, <2>3 DEF Rewritten, Right, Due
    <3>2. Tables \in 1 .. Tables /\ 1 \in 1 .. Tables /\ 2 \in 1 .. Tables /\ 3 \in 1 .. Tables
      BY FirstIs
    <3>3. Len(disk) \in Nat /\ Len(disk) >= Tables
      BY <2>1, <3>1, <3>2, FirstIs
    <3>4. disk[1] = Magic /\ disk[2] = Version /\ disk[3] = Count
      BY <3>1, <3>2 DEF Head3
    <3>5. disk # Missing
      BY <3>4 DEF Missing, Magic
    <3> QED
      BY <3>3, <3>4, <3>5, FirstIs DEF OpenIndex, Tables
  <2> QED
    BY <2>2, <2>3
<1> QED
  BY <1>1, <1>2, <1>3, PTL DEF FindSpec

================================================================================
