------------------------------ MODULE AVISession ------------------------------
(***************************************************************************)
(* StreamsService.AVISession and AVISession.Close of streams.go, with the  *)
(* goroutines they start and the muxer of streams_avi.go: for each of the  *)
(* two streams a receiver that moves what arrives on a UDP socket into an  *)
(* io.Pipe, a watcher that closes both when the context is cancelled, and  *)
(* a copier that takes items out of the pipe and writes them as chunks     *)
(* under the muxer's mutex; and one goroutine that writes the header,      *)
(* waits for the copiers and closes the output.                            *)
(*                                                                         *)
(* An item is a video frame or an audio packet; its number is its place in *)
(* the order of arrival. A chunk reaches the output in two parts, between  *)
(* which the writer may fail. The writer is one that can be closed.        *)
(***************************************************************************)
EXTENDS FiniteSets, Integers, Sequences

CONSTANTS
  Closer,      \* goroutines that call Close on the session
  MaxItems,    \* bound: items of each kind that arrive
  Reliable,    \* bound: do requests with a live context always succeed?
  None

Kind == {"video", "audio"}

ASSUME SessionAssumption == /\ MaxItems \in Nat
                               /\ Reliable \in BOOLEAN
                               /\ None \notin Kind

VARIABLES
  start,       \* where AVISession() is
  device,      \* is the device sending this stream?
  misled,      \* history: with a live context, did a Stop have no effect, or a Start that failed one?
  parent,      \* has the caller's context been cancelled?
  canceled,    \* has cancelStream been called?
  conn,        \* the UDP sockets
  readerShut,  \* is the read end of this pipe closed (pr.Close)?
  writerShut,  \* is its write end closed (pw.Close)?
  recv,        \* where the receivers are
  watch,       \* where the watchers are
  got,         \* items received so far; a receiver that writes holds the last
  copy,        \* where the copiers are
  held,        \* the item a copier read last
  mux,         \* where the goroutine of the session is
  mu,          \* the copier that holds the muxer's mutex
  merr,        \* has the muxer met an error (m.err)?
  out,         \* what the output was given: <<kind, number, part>>
  sink,        \* is the output open?
  once,        \* closeOnce
  closer,      \* where the calls of Close are
  verdict      \* what they return

deviceVars == <<device, misled>>
contextVars == <<parent, canceled>>
pipeVars == <<conn, readerShut, writerShut>>
recvVars == <<recv, watch, got>>
muxVars == <<mux, mu, merr, out, sink>>
copyVars == <<copy, held>>
closeVars == <<once, closer, verdict>>
vars == <<start, device, misled, parent, canceled, conn, readerShut, writerShut,
          recv, watch, got, copy, held, mux, mu, merr, out, sink, once, closer, verdict>>

TypeOK ==
  /\ start \in {"startVideo", "startAudio", "undoVideo", "bindVideo", "bindAudio",
                "undoBoth", "undoAudio", "failed", "open"}
  /\ device \in [Kind -> BOOLEAN]
  /\ misled \in BOOLEAN /\ parent \in BOOLEAN /\ canceled \in BOOLEAN /\ merr \in BOOLEAN
  /\ conn \in [Kind -> {"none", "open", "closed"}]
  /\ readerShut \in [Kind -> BOOLEAN]
  /\ writerShut \in [Kind -> BOOLEAN]
  /\ recv \in [Kind -> {"none", "read", "write", "shutPipe", "shutConn", "ended"}]
  /\ watch \in [Kind -> {"none", "wait", "shutReader", "ended"}]
  /\ got \in [Kind -> 0 .. MaxItems]
  /\ copy \in [Kind -> {"none", "read", "lock", "head", "body", "ended"}]
  /\ held \in [Kind -> 0 .. MaxItems]
  /\ mux \in {"none", "header", "wait", "undo", "undoVideo", "undoAudio", "sink", "ended"}
  /\ mu \in Kind \cup {None}
  /\ out \in Seq((Kind \cup {"header"}) \X (0 .. MaxItems) \X {"head", "body"})
  /\ sink \in {"open", "closed"}
  /\ once \in {"new", "running", "done"}
  /\ closer \in [Closer -> {"idle", "cancel", "shutVideo", "shutAudio", "stopVideo",
                            "stopAudio", "wait", "returned"}]
  /\ verdict \in [Closer -> {"nil", "error"}]

Init ==
  /\ start = "startVideo"
  /\ device = [k \in Kind |-> FALSE]
  /\ misled = FALSE /\ parent = FALSE /\ canceled = FALSE
  /\ conn = [k \in Kind |-> "none"]
  /\ readerShut = [k \in Kind |-> FALSE]
  /\ writerShut = [k \in Kind |-> FALSE]
  /\ recv = [k \in Kind |-> "none"]
  /\ watch = [k \in Kind |-> "none"]
  /\ got = [k \in Kind |-> 0]
  /\ copy = [k \in Kind |-> "none"]
  /\ held = [k \in Kind |-> 0]
  /\ mux = "none" /\ mu = None /\ merr = FALSE /\ out = <<>> /\ sink = "open"
  /\ once = "new"
  /\ closer = [c \in Closer |-> "idle"]
  /\ verdict = [c \in Closer |-> "nil"]

-----------------------------------------------------------------------------
(* Requests to the device.                                                 *)

\* Start or Stop of stream k. With a live context the request may succeed, or
\* fail before or after the device has obeyed; with a cancelled one it fails.
Ask(k, on, live, ok) ==
  \/ /\ ok /\ live
     /\ device' = [device EXCEPT ![k] = on]
     /\ UNCHANGED misled
  \/ /\ ~ok /\ live /\ ~Reliable
     /\ device' = [device EXCEPT ![k] = on]
     /\ misled' = (misled \/ on)
  \/ /\ ~ok /\ (live => ~Reliable)
     /\ misled' = (misled \/ (live /\ ~on))
     /\ UNCHANGED device

-----------------------------------------------------------------------------
(* AVISession().                                                           *)

StartVideo ==
  /\ start = "startVideo"
  /\ \E ok \in BOOLEAN :
       /\ Ask("video", TRUE, ~parent, ok)
       /\ start' = IF ok THEN "startAudio" ELSE "failed"
  /\ UNCHANGED <<contextVars, pipeVars, recvVars, muxVars, copyVars, closeVars>>

StartAudio ==
  /\ start = "startAudio"
  /\ \E ok \in BOOLEAN :
       /\ Ask("audio", TRUE, ~parent, ok)
       /\ start' = IF ok THEN "bindVideo" ELSE "undoVideo"
  /\ UNCHANGED <<contextVars, pipeVars, recvVars, muxVars, copyVars, closeVars>>

\* s.Video binds its port and starts the receiver and its watcher.
BindVideo ==
  /\ start = "bindVideo"
  /\ conn' = [conn EXCEPT !["video"] = "open"]
  /\ recv' = [recv EXCEPT !["video"] = "read"]
  /\ watch' = [watch EXCEPT !["video"] = "wait"]
  /\ start' = "bindAudio"
  /\ UNCHANGED <<deviceVars, contextVars, readerShut, writerShut, got, muxVars,
                 copyVars, closeVars>>

\* The port is taken.
BindVideoFails ==
  /\ start = "bindVideo"
  /\ canceled' = TRUE
  /\ start' = "undoBoth"
  /\ UNCHANGED <<deviceVars, parent, pipeVars, recvVars, muxVars, copyVars, closeVars>>

\* s.Audio does as s.Video, and AVISession() returns the session.
BindAudio ==
  /\ start = "bindAudio"
  /\ conn' = [conn EXCEPT !["audio"] = "open"]
  /\ recv' = [recv EXCEPT !["audio"] = "read"]
  /\ watch' = [watch EXCEPT !["audio"] = "wait"]
  /\ mux' = "header"
  /\ start' = "open"
  /\ UNCHANGED <<deviceVars, contextVars, readerShut, writerShut, got, mu, merr, out,
                 sink, copyVars, closeVars>>

BindAudioFails ==
  /\ start = "bindAudio"
  /\ readerShut' = [readerShut EXCEPT !["video"] = TRUE]
  /\ canceled' = TRUE
  /\ start' = "undoBoth"
  /\ UNCHANGED <<deviceVars, parent, conn, writerShut, recvVars, muxVars, copyVars, closeVars>>

\* Mutant of UndoVideo: the audio stream is forgotten.
UndoVideoOnly ==
  /\ start \in {"undoVideo", "undoBoth"}
  /\ \E ok \in BOOLEAN : Ask("video", FALSE, ~parent, ok)
  /\ start' = "failed"
  /\ UNCHANGED <<contextVars, pipeVars, recvVars, muxVars, copyVars, closeVars>>

\* The cleanup of a failed start asks with the caller's context.
UndoVideo ==
  /\ start \in {"undoVideo", "undoBoth"}
  /\ \E ok \in BOOLEAN : Ask("video", FALSE, ~parent, ok)
  /\ start' = IF start = "undoVideo" THEN "failed" ELSE "undoAudio"
  /\ UNCHANGED <<contextVars, pipeVars, recvVars, muxVars, copyVars, closeVars>>

UndoAudio ==
  /\ start = "undoAudio"
  /\ \E ok \in BOOLEAN : Ask("audio", FALSE, ~parent, ok)
  /\ start' = "failed"
  /\ UNCHANGED <<contextVars, pipeVars, recvVars, muxVars, copyVars, closeVars>>

Starter == \/ StartVideo \/ StartAudio \/ BindVideo \/ BindVideoFails
           \/ BindAudio \/ BindAudioFails \/ UndoVideo \/ UndoAudio

-----------------------------------------------------------------------------
(* Receivers and watchers.                                                 *)

\* The context of the streams, derived from the caller's.
StreamDone == parent \/ canceled

\* ReadFromUDP completes an item, which goes to pw.Write.
Receive(k) ==
  /\ recv[k] = "read"
  /\ conn[k] = "open"
  /\ got[k] < MaxItems
  /\ got' = [got EXCEPT ![k] = @ + 1]
  /\ recv' = [recv EXCEPT ![k] = "write"]
  /\ UNCHANGED <<start, deviceVars, contextVars, pipeVars, watch, muxVars, copyVars, closeVars>>

\* ReadFromUDP fails on the closed socket.
ReceiveFails(k) ==
  /\ recv[k] = "read"
  /\ conn[k] = "closed"
  /\ recv' = [recv EXCEPT ![k] = "shutPipe"]
  /\ UNCHANGED <<start, deviceVars, contextVars, pipeVars, watch, got, muxVars, copyVars, closeVars>>

\* Mutant of Transfer: the copier skips what it has read.
TransferSkips(k) ==
  /\ recv[k] = "write"
  /\ copy[k] = "read"
  /\ ~readerShut[k]
  /\ recv' = [recv EXCEPT ![k] = "read"]
  /\ UNCHANGED <<start, deviceVars, contextVars, pipeVars, watch, got, muxVars, copyVars, closeVars>>

\* pw.Write meets the copier's Read.
Transfer(k) ==
  /\ recv[k] = "write"
  /\ copy[k] = "read"
  /\ ~readerShut[k]
  /\ held' = [held EXCEPT ![k] = got[k]]
  /\ recv' = [recv EXCEPT ![k] = "read"]
  /\ copy' = [copy EXCEPT ![k] = "lock"]
  /\ UNCHANGED <<start, deviceVars, contextVars, pipeVars, watch, got, muxVars, closeVars>>

\* pw.Write fails: nobody will read.
WriteFails(k) ==
  /\ recv[k] = "write"
  /\ readerShut[k]
  /\ recv' = [recv EXCEPT ![k] = "shutPipe"]
  /\ UNCHANGED <<start, deviceVars, contextVars, pipeVars, watch, got, muxVars, copyVars, closeVars>>

\* The deferred calls of a receiver, last first.
ShutPipe(k) ==
  /\ recv[k] = "shutPipe"
  /\ writerShut' = [writerShut EXCEPT ![k] = TRUE]
  /\ recv' = [recv EXCEPT ![k] = "shutConn"]
  /\ UNCHANGED <<start, deviceVars, contextVars, conn, readerShut, watch, got, muxVars,
                 copyVars, closeVars>>

ShutConn(k) ==
  /\ recv[k] = "shutConn"
  /\ conn' = [conn EXCEPT ![k] = "closed"]
  /\ recv' = [recv EXCEPT ![k] = "ended"]
  /\ UNCHANGED <<start, deviceVars, contextVars, readerShut, writerShut, watch, got,
                 muxVars, copyVars, closeVars>>

Receiver(k) == ReceiveFails(k) \/ WriteFails(k) \/ ShutPipe(k) \/ ShutConn(k)

\* Mutant of WatchConn: the socket stays open.
WatchConnKeeps(k) ==
  /\ watch[k] = "wait"
  /\ StreamDone
  /\ watch' = [watch EXCEPT ![k] = "shutReader"]
  /\ UNCHANGED <<start, deviceVars, contextVars, pipeVars, recv, got, muxVars, copyVars, closeVars>>

\* <-ctx.Done(), conn.Close()
WatchConn(k) ==
  /\ watch[k] = "wait"
  /\ StreamDone
  /\ conn' = [conn EXCEPT ![k] = "closed"]
  /\ watch' = [watch EXCEPT ![k] = "shutReader"]
  /\ UNCHANGED <<start, deviceVars, contextVars, readerShut, writerShut, recv, got,
                 muxVars, copyVars, closeVars>>

\* pr.Close()
WatchReader(k) ==
  /\ watch[k] = "shutReader"
  /\ readerShut' = [readerShut EXCEPT ![k] = TRUE]
  /\ watch' = [watch EXCEPT ![k] = "ended"]
  /\ UNCHANGED <<start, deviceVars, contextVars, conn, writerShut, recv, got,
                 muxVars, copyVars, closeVars>>

Watcher(k) == WatchConn(k) \/ WatchReader(k)

-----------------------------------------------------------------------------
(* Copiers and muxer.                                                      *)

\* Read of a pipe one of whose ends is closed.
CopyEnds(k) ==
  /\ copy[k] = "read"
  /\ readerShut[k] \/ writerShut[k]
  /\ copy' = [copy EXCEPT ![k] = "ended"]
  /\ UNCHANGED <<start, deviceVars, contextVars, pipeVars, recvVars, muxVars, held, closeVars>>

\* Mutant of Lock: there is no mutex.
LockFreely(k) ==
  /\ copy[k] = "lock"
  /\ IF merr
     THEN copy' = [copy EXCEPT ![k] = "ended"] /\ UNCHANGED mu
     ELSE copy' = [copy EXCEPT ![k] = "head"] /\ mu' = k
  /\ UNCHANGED <<start, deviceVars, contextVars, pipeVars, recvVars, mux, merr, out, sink,
                 held, closeVars>>

\* writeVideoChunk or writeAudioChunk locks, and returns the error of before.
Lock(k) ==
  /\ copy[k] = "lock"
  /\ mu = None
  /\ IF merr
     THEN copy' = [copy EXCEPT ![k] = "ended"] /\ UNCHANGED mu
     ELSE copy' = [copy EXCEPT ![k] = "head"] /\ mu' = k
  /\ UNCHANGED <<start, deviceVars, contextVars, pipeVars, recvVars, mux, merr, out, sink,
                 held, closeVars>>

\* The next part of the chunk reaches the output; the last one unlocks.
WritePart(k) ==
  /\ copy[k] \in {"head", "body"}
  /\ out' = Append(out, <<k, held[k], copy[k]>>)
  /\ copy' = [copy EXCEPT ![k] = IF @ = "head" THEN "body" ELSE "read"]
  /\ mu' = IF copy[k] = "head" THEN mu ELSE None
  /\ UNCHANGED <<start, deviceVars, contextVars, pipeVars, recvVars, mux, merr, sink,
                 held, closeVars>>

\* The output fails: the error is kept, the copier ends.
WritePartFails(k) ==
  /\ copy[k] \in {"head", "body"}
  /\ merr' = TRUE
  /\ mu' = None
  /\ copy' = [copy EXCEPT ![k] = "ended"]
  /\ UNCHANGED <<start, deviceVars, contextVars, pipeVars, recvVars, mux, out, sink,
                 held, closeVars>>

Copier(k) == CopyEnds(k) \/ Lock(k) \/ WritePart(k) \/ WritePartFails(k)

\* writeHeader succeeds, and the copiers start.
WriteHeader ==
  /\ mux = "header"
  /\ out' = <<<<"header", 0, "body">>>>
  /\ copy' = [k \in Kind |-> "read"]
  /\ mux' = "wait"
  /\ UNCHANGED <<start, deviceVars, contextVars, pipeVars, recvVars, mu, merr, sink,
                 held, closeVars>>

WriteHeaderFails ==
  /\ mux = "header"
  /\ merr' = TRUE
  /\ mux' = "undo"
  /\ UNCHANGED <<start, deviceVars, contextVars, pipeVars, recvVars, mu, out, sink,
                 copyVars, closeVars>>

\* rgb.Close(); pcm.Close(); cancelStream()
MuxShuts ==
  /\ mux = "undo"
  /\ readerShut' = [k \in Kind |-> TRUE]
  /\ canceled' = TRUE
  /\ mux' = "undoVideo"
  /\ UNCHANGED <<start, deviceVars, parent, conn, writerShut, recvVars, mu, merr, out,
                 sink, copyVars, closeVars>>

\* Both Stop requests, whose errors are ignored.
MuxStops ==
  /\ mux \in {"undoVideo", "undoAudio"}
  /\ \E ok \in BOOLEAN :
       Ask(IF mux = "undoVideo" THEN "video" ELSE "audio", FALSE, TRUE, ok)
  /\ mux' = IF mux = "undoVideo" THEN "undoAudio" ELSE "sink"
  /\ UNCHANGED <<start, contextVars, pipeVars, recvVars, mu, merr, out, sink,
                 copyVars, closeVars>>

\* Mutant of MuxWaits: only one copier is waited for.
MuxWaitsForOne ==
  /\ mux = "wait"
  /\ \E k \in Kind : copy[k] = "ended"
  /\ mux' = "sink"
  /\ UNCHANGED <<start, deviceVars, contextVars, pipeVars, recvVars, mu, merr, out, sink,
                 copyVars, closeVars>>

\* wg.Wait returns; every chunk was flushed already.
MuxWaits ==
  /\ mux = "wait"
  /\ \A k \in Kind : copy[k] = "ended"
  /\ mux' = "sink"
  /\ UNCHANGED <<start, deviceVars, contextVars, pipeVars, recvVars, mu, merr, out, sink,
                 copyVars, closeVars>>

MuxCloses ==
  /\ mux = "sink"
  /\ sink' = "closed"
  /\ mux' = "ended"
  /\ UNCHANGED <<start, deviceVars, contextVars, pipeVars, recvVars, mu, merr, out,
                 copyVars, closeVars>>

Mux == WriteHeader \/ WriteHeaderFails \/ MuxShuts \/ MuxStops \/ MuxWaits \/ MuxCloses

-----------------------------------------------------------------------------
(* Close.                                                                  *)

\* closeOnce.Do runs its function for the first caller only.
CallClose(c) ==
  /\ start = "open"
  /\ closer[c] = "idle"
  /\ closer' = [closer EXCEPT ![c] = IF once = "new" THEN "cancel" ELSE "wait"]
  /\ once' = IF once = "new" THEN "running" ELSE once
  /\ UNCHANGED <<start, deviceVars, contextVars, pipeVars, recvVars, muxVars, copyVars, verdict>>

CloseCancels(c) ==
  /\ closer[c] = "cancel"
  /\ canceled' = TRUE
  /\ closer' = [closer EXCEPT ![c] = "shutVideo"]
  /\ UNCHANGED <<start, deviceVars, parent, pipeVars, recvVars, muxVars, copyVars, once, verdict>>

\* s.Video.Close(), then s.Audio.Close(): the read ends of the pipes.
CloseShuts(c) ==
  /\ closer[c] \in {"shutVideo", "shutAudio"}
  /\ readerShut' = [readerShut EXCEPT
       ![IF closer[c] = "shutVideo" THEN "video" ELSE "audio"] = TRUE]
  /\ closer' = [closer EXCEPT ![c] = IF @ = "shutVideo" THEN "shutAudio" ELSE "stopVideo"]
  /\ UNCHANGED <<start, deviceVars, contextVars, conn, writerShut, recvVars, muxVars,
                 copyVars, once, verdict>>

CloseStopsVideo(c) ==
  /\ closer[c] = "stopVideo"
  /\ \E ok \in BOOLEAN :
       /\ Ask("video", FALSE, TRUE, ok)
       /\ verdict' = [verdict EXCEPT ![c] = IF ok THEN @ ELSE "error"]
  /\ closer' = [closer EXCEPT ![c] = "stopAudio"]
  /\ UNCHANGED <<start, contextVars, pipeVars, recvVars, muxVars, copyVars, once>>

\* Mutant of CloseStopsAudio: the error of the second Stop is not reported.
CloseStopsAudioSilently(c) ==
  /\ closer[c] = "stopAudio"
  /\ \E ok \in BOOLEAN : Ask("audio", FALSE, TRUE, ok)
  /\ closer' = [closer EXCEPT ![c] = "returned"]
  /\ once' = "done"
  /\ UNCHANGED <<start, contextVars, pipeVars, recvVars, muxVars, copyVars, verdict>>

CloseStopsAudio(c) ==
  /\ closer[c] = "stopAudio"
  /\ \E ok \in BOOLEAN :
       /\ Ask("audio", FALSE, TRUE, ok)
       /\ verdict' = [verdict EXCEPT ![c] = IF ok THEN @ ELSE "error"]
  /\ closer' = [closer EXCEPT ![c] = "returned"]
  /\ once' = "done"
  /\ UNCHANGED <<start, contextVars, pipeVars, recvVars, muxVars, copyVars>>

\* A later caller waits for the first, and returns nil.
CloseWaits(c) ==
  /\ closer[c] = "wait"
  /\ once = "done"
  /\ closer' = [closer EXCEPT ![c] = "returned"]
  /\ UNCHANGED <<start, deviceVars, contextVars, pipeVars, recvVars, muxVars, copyVars,
                 once, verdict>>

Closing(c) == \/ CloseCancels(c) \/ CloseShuts(c) \/ CloseStopsVideo(c)
              \/ CloseStopsAudio(c) \/ CloseWaits(c)

\* The caller cancels the context it gave.
CancelParent ==
  /\ ~parent
  /\ parent' = TRUE
  /\ UNCHANGED <<start, deviceVars, canceled, pipeVars, recvVars, muxVars, copyVars, closeVars>>

\* Everything the session started has ended and is released.
Released ==
  /\ start \in {"failed", "open"}
  /\ \A k \in Kind : /\ conn[k] # "open"
                     /\ recv[k] \in {"none", "ended"}
                     /\ watch[k] \in {"none", "ended"}
                     /\ copy[k] \in {"none", "ended"}
  /\ start = "open" => mux = "ended" /\ sink = "closed"
  /\ \A c \in Closer : closer[c] \in {"idle", "returned"}

Over == Released /\ UNCHANGED vars

Next ==
  \/ Starter \/ Mux \/ CancelParent \/ Over
  \/ \E k \in Kind : Receive(k) \/ Receiver(k) \/ Transfer(k) \/ Watcher(k) \/ Copier(k)
  \/ \E c \in Closer : CallClose(c) \/ Closing(c)

Spec == Init /\ [][Next]_vars

\* Every goroutine that can run does; nobody has to close the session, cancel
\* its context or send it anything; requests and writes return.
Fairness ==
  /\ WF_vars(Starter) /\ WF_vars(Mux)
  /\ \A k \in Kind : WF_vars(Receiver(k)) /\ WF_vars(Watcher(k)) /\ WF_vars(Copier(k))
  /\ \A c \in Closer : WF_vars(Closing(c))

FairSpec == Spec /\ Fairness

-----------------------------------------------------------------------------
(* Properties.                                                             *)

\* The chunks of the two copiers never mix: a header part is followed by its own
\* body, unless it is the last thing written and its copier is still at it or the
\* output failed; after a failure nothing is written (m.mu and m.err,
\* streams_avi.go 164-232).
ChunksWhole ==
  \A i \in DOMAIN out :
    /\ out[i][3] = "head" =>
         \/ i < Len(out) /\ out[i + 1] = <<out[i][1], out[i][2], "body">>
         \/ i = Len(out) /\ (merr \/ mu = out[i][1])
    /\ out[i][3] = "body" => i = 1 \/ out[i - 1] = <<out[i][1], out[i][2], "head">>

\* The whole chunks in the output: the header is one part and every later chunk two,
\* so they end at the odd places (ChunksWhole).
Whole == [i \in 1 .. (Len(out) + 1) \div 2 |-> <<out[2 * i - 1][1], out[2 * i - 1][2]>>]

\* How many of them are of kind k.
Written(k) == Cardinality({i \in DOMAIN Whole : Whole[i][1] = k})

R == INSTANCE Recording WITH chunks <- Whole, closed <- sink = "closed"

\* What reaches the output is the recording of module Recording: frames and
\* packets in order and without gaps, and nothing after the output was closed
\* (wg.Wait before Close, streams.go 311-315).
ImplementsRecording == R!Spec

\* Between the socket and the file nothing gets lost: until the output fails or
\* the pipe is shut, what was received is in the file, in a copier's hands or in
\* the receiver's.
NothingLost ==
  \A k \in Kind : ~merr /\ ~readerShut[k] =>
    got[k] = Written(k)
             + (IF copy[k] \in {"lock", "head", "body"} THEN 1 ELSE 0)
             + (IF recv[k] = "write" THEN 1 ELSE 0)

\* When any call of Close has returned the readers are shut, and unless one of the
\* calls reports an error neither stream is being sent (streams.go 186-205).
CloseHonest ==
  (\E c \in Closer : closer[c] = "returned") =>
    /\ \A k \in Kind : readerShut[k]
    /\ (\A c \in Closer : verdict[c] = "nil") => \A k \in Kind : ~device[k]

\* A failed start has stopped what it started, if the device did what it was asked. The one
\* exception is the code's own doing: the cleanup asks with the caller's context, and when
\* that is over a stream goes on (streams.go 230-255).
FailedStartClean ==
  start = "failed" /\ ~misled => \A k \in Kind : device[k] => parent

\* After a Close, a failed start or a cancelled context everything ends: both
\* ports are free again, the output is closed and no goroutine is left.
ReleasedInTheEnd == (parent \/ canceled) ~> Released

\* The comment on Close (streams.go 185): it "closes both connections".
CloseClosesConnections ==
  \A c \in Closer : closer[c] = "returned" => \A k \in Kind : conn[k] = "closed"
==============================================================================
