-------------------------- MODULE AVISessionProofs --------------------------
(***************************************************************************)
(* Proofs about AVISession for every number of items, every set of callers *)
(* of Close and a device that may answer wrongly at any time.              *)
(***************************************************************************)
EXTENDS AVISession, FiniteSetTheorems, SequenceTheorems, TLAPS

-----------------------------------------------------------------------------
(* The inductive invariant, in parts.                                      *)

Busy == {"lock", "head", "body"}      \* a copier with an item in its hands
Inside == {"head", "body"}            \* and with the mutex
Past == {"shutPipe", "shutConn", "ended"}  \* a receiver that reads no more

\* The goroutine of the session, the copiers it starts and the output.
MuxOrder ==
  /\ start = "open" <=> mux # "none"
  /\ mux \in {"none", "header", "undo", "undoVideo", "undoAudio"} =>
       out = <<>> /\ \A k \in Kind : copy[k] = "none"
  /\ mux = "wait" => out # <<>> /\ \A k \in Kind : copy[k] # "none"
  /\ mux \in {"sink", "ended"} => \A k \in Kind : copy[k] \in {"none", "ended"}
  /\ sink = "closed" <=> mux = "ended"
  /\ mux \in {"none", "header"} => ~merr

\* m.mu is held by the copier that writes, and by nobody after a failure.
Mutex ==
  /\ \A k \in Kind : mu = k <=> copy[k] \in Inside
  /\ merr => mu = None

\* Heads stand at even places, bodies at odd ones; a part that its copier is still
\* at is the last.
Alternate ==
  /\ \A i \in DOMAIN out : out[i][3] = "body" <=> i % 2 = 1
  /\ \A i \in DOMAIN out : i # 1 /\ out[i][3] = "body" =>
       out[i - 1] = <<out[i][1], out[i][2], "head">>
  /\ \A i \in DOMAIN out : out[i][3] = "head" /\ i < Len(out) =>
       out[i + 1] = <<out[i][1], out[i][2], "body">>
  /\ \A k \in Kind : copy[k] = "body" => /\ out # <<>>
                                         /\ out[Len(out)] = <<k, held[k], "head">>
  /\ out # <<>> /\ out[Len(out)][3] = "head" =>
       merr \/ \E k \in Kind : copy[k] = "body" /\ out[Len(out)][1] = k

\* An item in a copier's hands is the next of its kind, and until one of the two
\* gives an item up, what a receiver got is written, in those hands or in its own.
LedgerOf(k) ==
  /\ copy[k] \in Busy => held[k] = Written(k) + 1
  /\ ~(copy[k] = "ended" /\ merr) /\ ~(recv[k] \in Past /\ readerShut[k]) =>
       got[k] = Written(k) + (IF copy[k] \in Busy THEN 1 ELSE 0)
                           + (IF recv[k] = "write" THEN 1 ELSE 0)

Ledger == \A k \in Kind : LedgerOf(k)

\* A stream's receiver exists once its port is bound.
RecvOrder ==
  /\ start \in {"startVideo", "startAudio", "bindVideo"} => recv["video"] = "none"
  /\ start # "open" => recv["audio"] = "none"

\* The one call of Close that does the work, and how far it is.
Working == {"cancel", "shutVideo", "shutAudio", "stopVideo", "stopAudio"}

CloserOf(c) ==
  /\ closer[c] # "idle" => once # "new"
  /\ closer[c] \in Working => once = "running"
  /\ closer[c] = "returned" => once = "done"
  /\ closer[c] \in {"shutAudio", "stopVideo", "stopAudio"} => readerShut["video"]
  /\ closer[c] \in {"stopVideo", "stopAudio"} => readerShut["audio"]
  /\ closer[c] = "stopAudio" /\ verdict[c] = "nil" => ~device["video"]

CloseOrder ==
  /\ once # "new" => start = "open"
  /\ \A c \in Closer : CloserOf(c)
  /\ \A c, d \in Closer : closer[c] \in Working /\ closer[d] \in Working => c = d
  /\ once = "done" =>
       /\ \A k \in Kind : readerShut[k]
       /\ (\A c \in Closer : verdict[c] = "nil") => \A k \in Kind : ~device[k]

\* How far a start and its cleanup are, if the device does as it answers and the context
\* the cleanup uses is not over.
StartOrder ==
  ~misled /\ ~parent =>
    /\ start \in {"startVideo", "failed"} => \A k \in Kind : ~device[k]
    /\ start \in {"startAudio", "undoVideo"} => ~device["audio"]
    /\ start = "undoAudio" => ~device["video"]

-----------------------------------------------------------------------------
(* Types.                                                                  *)

\* A request to the device switches one stream or nothing.
LEMMA AskType ==
  ASSUME device \in [Kind -> BOOLEAN], misled \in BOOLEAN,
         NEW k \in Kind, NEW on \in BOOLEAN, NEW live \in BOOLEAN,
         NEW ok \in BOOLEAN, Ask(k, on, live, ok)
  PROVE  /\ device' \in [Kind -> BOOLEAN]
         /\ misled' \in BOOLEAN
         /\ device' = device \/ device' = [device EXCEPT ![k] = on]
         /\ ok => device' = [device EXCEPT ![k] = on] /\ misled' = misled
         /\ ~misled' => ~misled
         /\ on /\ ~ok /\ ~misled' => device' = device
         /\ ~on /\ live /\ ~misled' => device' = [device EXCEPT ![k] = on]
<1>1. CASE ok /\ live
  BY <1>1 DEF Ask
<1>2. CASE ~ok /\ device' = [device EXCEPT ![k] = on] /\ misled' = (misled \/ on)
  BY <1>2
<1>3. CASE ~ok /\ misled' = (misled \/ (live /\ ~on)) /\ UNCHANGED device
  BY <1>3
<1> QED
  BY <1>1, <1>2, <1>3 DEF Ask

LEMMA TypeInit == Init => TypeOK
<1>1. ASSUME Init
      PROVE  /\ device \in [Kind -> BOOLEAN]
             /\ conn \in [Kind -> {"none", "open", "closed"}]
             /\ readerShut \in [Kind -> BOOLEAN] /\ writerShut \in [Kind -> BOOLEAN]
             /\ recv \in [Kind -> {"none", "read", "write", "shutPipe", "shutConn", "ended"}]
             /\ watch \in [Kind -> {"none", "wait", "shutReader", "ended"}]
             /\ copy \in [Kind -> {"none", "read", "lock", "head", "body", "ended"}]
             /\ closer \in [Closer -> {"idle", "cancel", "shutVideo", "shutAudio", "stopVideo",
                                       "stopAudio", "wait", "returned"}]
             /\ verdict \in [Closer -> {"nil", "error"}]
  BY <1>1 DEF Init
<1>2. ASSUME Init
      PROVE  /\ got \in [Kind -> 0 .. MaxItems] /\ held \in [Kind -> 0 .. MaxItems]
             /\ out \in Seq((Kind \cup {"header"}) \X (0 .. MaxItems) \X {"head", "body"})
  BY <1>2, SessionAssumption DEF Init
<1> QED
  BY <1>1, <1>2 DEF Init, TypeOK

LEMMA StarterType ==
  ASSUME TypeOK, Starter
  PROVE  TypeOK'
<1> USE DEF deviceVars, contextVars, pipeVars, recvVars, muxVars, copyVars, closeVars
<1>0. device \in [Kind -> BOOLEAN] /\ misled \in BOOLEAN /\ parent \in BOOLEAN
      /\ "video" \in Kind /\ "audio" \in Kind
  BY DEF TypeOK, Kind
<1>1. CASE StartVideo
  <2>1. device' \in [Kind -> BOOLEAN] /\ misled' \in BOOLEAN
    BY <1>0, <1>1, AskType DEF StartVideo
  <2> QED
    BY <1>1, <2>1 DEF StartVideo, TypeOK
<1>2. CASE StartAudio
  <2>1. device' \in [Kind -> BOOLEAN] /\ misled' \in BOOLEAN
    BY <1>0, <1>2, AskType DEF StartAudio
  <2> QED
    BY <1>2, <2>1 DEF StartAudio, TypeOK
<1>3. CASE BindVideo
  <2>1. conn' \in [Kind -> {"none", "open", "closed"}]
    BY <1>3 DEF BindVideo, TypeOK
  <2>2. recv' \in [Kind -> {"none", "read", "write", "shutPipe", "shutConn", "ended"}]
    BY <1>3 DEF BindVideo, TypeOK
  <2>3. watch' \in [Kind -> {"none", "wait", "shutReader", "ended"}]
    BY <1>3 DEF BindVideo, TypeOK
  <2> QED
    BY <1>3, <2>1, <2>2, <2>3 DEF BindVideo, TypeOK
<1>4. CASE BindVideoFails
  BY <1>4 DEF BindVideoFails, TypeOK
<1>5. CASE BindAudio
  <2>1. conn' \in [Kind -> {"none", "open", "closed"}]
    BY <1>5 DEF BindAudio, TypeOK
  <2>2. recv' \in [Kind -> {"none", "read", "write", "shutPipe", "shutConn", "ended"}]
    BY <1>5 DEF BindAudio, TypeOK
  <2>3. watch' \in [Kind -> {"none", "wait", "shutReader", "ended"}]
    BY <1>5 DEF BindAudio, TypeOK
  <2> QED
    BY <1>5, <2>1, <2>2, <2>3 DEF BindAudio, TypeOK
<1>6. CASE BindAudioFails
  BY <1>6 DEF BindAudioFails, TypeOK
<1>7. CASE UndoVideo
  <2>1. device' \in [Kind -> BOOLEAN] /\ misled' \in BOOLEAN
    BY <1>0, <1>7, AskType DEF UndoVideo
  <2>2. start' \in {"failed", "undoAudio"}
    BY <1>7 DEF UndoVideo
  <2> QED
    BY <1>7, <2>1, <2>2 DEF UndoVideo, TypeOK
<1>8. CASE UndoAudio
  <2>1. device' \in [Kind -> BOOLEAN] /\ misled' \in BOOLEAN
    BY <1>0, <1>8, AskType DEF UndoAudio
  <2> QED
    BY <1>8, <2>1 DEF UndoAudio, TypeOK
<1> QED
  BY <1>1, <1>2, <1>3, <1>4, <1>5, <1>6, <1>7, <1>8 DEF Starter

LEMMA MuxType ==
  ASSUME TypeOK, Mux
  PROVE  TypeOK'
<1> USE DEF deviceVars, contextVars, pipeVars, recvVars, muxVars, copyVars, closeVars
<1>1. CASE WriteHeader
  <2>1. out' \in Seq((Kind \cup {"header"}) \X (0 .. MaxItems) \X {"head", "body"})
    <3>1. <<"header", 0, "body">> \in (Kind \cup {"header"}) \X (0 .. MaxItems) \X {"head", "body"}
      BY SessionAssumption
    <3> QED
      BY <1>1, <3>1 DEF WriteHeader
  <2>2. copy' \in [Kind -> {"none", "read", "lock", "head", "body", "ended"}]
    BY <1>1 DEF WriteHeader
  <2> QED
    BY <1>1, <2>1, <2>2 DEF WriteHeader, TypeOK
<1>2. CASE WriteHeaderFails
  BY <1>2 DEF WriteHeaderFails, TypeOK
<1>3. CASE MuxShuts
  BY <1>3 DEF MuxShuts, TypeOK
<1>4. CASE MuxStops
  <2>0. device \in [Kind -> BOOLEAN] /\ misled \in BOOLEAN
        /\ "video" \in Kind /\ "audio" \in Kind
    BY DEF TypeOK, Kind
  <2>1. device' \in [Kind -> BOOLEAN] /\ misled' \in BOOLEAN
    BY <1>4, <2>0, AskType DEF MuxStops
  <2>2. mux' \in {"undoAudio", "sink"}
    BY <1>4 DEF MuxStops
  <2> QED
    BY <1>4, <2>1, <2>2 DEF MuxStops, TypeOK
<1>5. CASE MuxWaits
  BY <1>5 DEF MuxWaits, TypeOK
<1>6. CASE MuxCloses
  BY <1>6 DEF MuxCloses, TypeOK
<1> QED
  BY <1>1, <1>2, <1>3, <1>4, <1>5, <1>6 DEF Mux

LEMMA ReceiverType ==
  ASSUME TypeOK, NEW k \in Kind, Receive(k) \/ Receiver(k) \/ Transfer(k)
  PROVE  TypeOK'
<1> USE DEF deviceVars, contextVars, pipeVars, muxVars, copyVars, closeVars
<1>1. CASE Receive(k)
  <2>1. got' \in [Kind -> 0 .. MaxItems]
    BY <1>1, SessionAssumption DEF Receive, TypeOK
  <2>2. recv' \in [Kind -> {"none", "read", "write", "shutPipe", "shutConn", "ended"}]
    BY <1>1 DEF Receive, TypeOK
  <2> QED
    BY <1>1, <2>1, <2>2 DEF Receive, TypeOK
<1>2. CASE ReceiveFails(k)
  BY <1>2 DEF ReceiveFails, TypeOK
<1>3. CASE WriteFails(k)
  BY <1>3 DEF WriteFails, TypeOK
<1>4. CASE ShutPipe(k)
  <2>1. recv' \in [Kind -> {"none", "read", "write", "shutPipe", "shutConn", "ended"}]
    BY <1>4 DEF ShutPipe, TypeOK
  <2>2. writerShut' \in [Kind -> BOOLEAN]
    BY <1>4 DEF ShutPipe, TypeOK
  <2> QED
    BY <1>4, <2>1, <2>2 DEF ShutPipe, TypeOK
<1>5. CASE ShutConn(k)
  <2>1. recv' \in [Kind -> {"none", "read", "write", "shutPipe", "shutConn", "ended"}]
    BY <1>5 DEF ShutConn, TypeOK
  <2>2. conn' \in [Kind -> {"none", "open", "closed"}]
    BY <1>5 DEF ShutConn, TypeOK
  <2> QED
    BY <1>5, <2>1, <2>2 DEF ShutConn, TypeOK
<1>6. CASE Transfer(k)
  <2>1. held' \in [Kind -> 0 .. MaxItems]
    BY <1>6 DEF Transfer, TypeOK
  <2>2. recv' \in [Kind -> {"none", "read", "write", "shutPipe", "shutConn", "ended"}]
    BY <1>6 DEF Transfer, TypeOK
  <2>3. copy' \in [Kind -> {"none", "read", "lock", "head", "body", "ended"}]
    BY <1>6 DEF Transfer, TypeOK
  <2> QED
    BY <1>6, <2>1, <2>2, <2>3 DEF Transfer, TypeOK
<1> QED
  BY <1>1, <1>2, <1>3, <1>4, <1>5, <1>6 DEF Receiver

LEMMA WatcherType ==
  ASSUME TypeOK, NEW k \in Kind, Watcher(k)
  PROVE  TypeOK'
<1> USE DEF deviceVars, contextVars, muxVars, copyVars, closeVars
<1>1. watch' \in [Kind -> {"none", "wait", "shutReader", "ended"}]
  <2>1. PICK x \in {"shutReader", "ended"} : watch' = [watch EXCEPT ![k] = x]
    BY DEF Watcher, WatchConn, WatchReader
  <2> QED
    BY <2>1 DEF TypeOK
<1>2. CASE WatchConn(k)
  <2>1. conn' \in [Kind -> {"none", "open", "closed"}]
    BY <1>2 DEF WatchConn, TypeOK
  <2> QED
    BY <1>1, <1>2, <2>1 DEF WatchConn, TypeOK
<1>3. CASE WatchReader(k)
  <2>1. readerShut' \in [Kind -> BOOLEAN]
    BY <1>3 DEF WatchReader, TypeOK
  <2> QED
    BY <1>1, <1>3, <2>1 DEF WatchReader, TypeOK
<1> QED
  BY <1>2, <1>3 DEF Watcher

LEMMA CopierType ==
  ASSUME TypeOK, NEW k \in Kind, Copier(k)
  PROVE  TypeOK'
<1> USE DEF deviceVars, contextVars, pipeVars, recvVars, muxVars, closeVars
<1>1. CASE CopyEnds(k)
  BY <1>1 DEF CopyEnds, TypeOK
<1>2. CASE Lock(k)
  <2>1. copy' \in [Kind -> {"none", "read", "lock", "head", "body", "ended"}]
    <3>1. PICK x \in {"head", "ended"} : copy' = [copy EXCEPT ![k] = x]
      BY <1>2 DEF Lock
    <3> QED
      BY <3>1 DEF TypeOK
  <2>2. mu' \in Kind \cup {None}
    BY <1>2 DEF Lock, TypeOK
  <2> QED
    BY <1>2, <2>1, <2>2 DEF Lock, TypeOK
<1>3. CASE WritePart(k)
  <2>1. out' \in Seq((Kind \cup {"header"}) \X (0 .. MaxItems) \X {"head", "body"})
    <3>1. <<k, held[k], copy[k]>> \in (Kind \cup {"header"}) \X (0 .. MaxItems) \X {"head", "body"}
      BY <1>3 DEF WritePart, TypeOK
    <3> QED
      BY <1>3, <3>1 DEF WritePart, TypeOK
  <2>2. copy' \in [Kind -> {"none", "read", "lock", "head", "body", "ended"}]
    BY <1>3 DEF WritePart, TypeOK
  <2>3. mu' \in Kind \cup {None}
    BY <1>3 DEF WritePart, TypeOK
  <2> QED
    BY <1>3, <2>1, <2>2, <2>3 DEF WritePart, TypeOK
<1>4. CASE WritePartFails(k)
  BY <1>4 DEF WritePartFails, TypeOK
<1> QED
  BY <1>1, <1>2, <1>3, <1>4 DEF Copier

LEMMA CloserType ==
  ASSUME TypeOK, NEW c \in Closer, CallClose(c) \/ Closing(c)
  PROVE  TypeOK'
<1> USE DEF deviceVars, contextVars, pipeVars, recvVars, muxVars, copyVars
<1>0. device \in [Kind -> BOOLEAN] /\ misled \in BOOLEAN
      /\ "video" \in Kind /\ "audio" \in Kind
  BY DEF TypeOK, Kind
<1>1. closer' \in [Closer -> {"idle", "cancel", "shutVideo", "shutAudio", "stopVideo",
                              "stopAudio", "wait", "returned"}]
  <2>1. PICK x \in {"cancel", "shutVideo", "shutAudio", "stopVideo", "stopAudio", "wait",
                    "returned"} :
          closer' = [closer EXCEPT ![c] = x]
    BY DEF CallClose, Closing, CloseCancels, CloseShuts, CloseStopsVideo, CloseStopsAudio,
           CloseWaits
  <2> QED
    BY <2>1 DEF TypeOK
<1>2. CASE CallClose(c)
  <2>1. once' \in {"new", "running", "done"}
    BY <1>2 DEF CallClose, TypeOK
  <2> QED
    BY <1>1, <1>2, <2>1 DEF CallClose, TypeOK
<1>3. CASE CloseCancels(c)
  BY <1>1, <1>3 DEF CloseCancels, TypeOK
<1>4. CASE CloseShuts(c)
  <2>1. readerShut' \in [Kind -> BOOLEAN]
    BY <1>4 DEF CloseShuts, TypeOK
  <2> QED
    BY <1>1, <1>4, <2>1 DEF CloseShuts, TypeOK
<1>5. CASE CloseStopsVideo(c)
  <2>1. PICK ok \in BOOLEAN : /\ Ask("video", FALSE, TRUE, ok)
                              /\ verdict' = [verdict EXCEPT ![c] = IF ok THEN @ ELSE "error"]
    BY <1>5 DEF CloseStopsVideo
  <2>2. device' \in [Kind -> BOOLEAN] /\ misled' \in BOOLEAN
    BY <1>0, <2>1, AskType
  <2>3. verdict' \in [Closer -> {"nil", "error"}]
    BY <2>1 DEF TypeOK
  <2> QED
    BY <1>1, <1>5, <2>2, <2>3 DEF CloseStopsVideo, TypeOK
<1>6. CASE CloseStopsAudio(c)
  <2>1. PICK ok \in BOOLEAN : /\ Ask("audio", FALSE, TRUE, ok)
                              /\ verdict' = [verdict EXCEPT ![c] = IF ok THEN @ ELSE "error"]
    BY <1>6 DEF CloseStopsAudio
  <2>2. device' \in [Kind -> BOOLEAN] /\ misled' \in BOOLEAN
    BY <1>0, <2>1, AskType
  <2>3. verdict' \in [Closer -> {"nil", "error"}]
    BY <2>1 DEF TypeOK
  <2> QED
    BY <1>1, <1>6, <2>2, <2>3 DEF CloseStopsAudio, TypeOK
<1>7. CASE CloseWaits(c)
  BY <1>1, <1>7 DEF CloseWaits, TypeOK
<1> QED
  BY <1>2, <1>3, <1>4, <1>5, <1>6, <1>7 DEF Closing

LEMMA TypeNext == TypeOK /\ [Next]_vars => TypeOK'
<1> SUFFICES ASSUME TypeOK, [Next]_vars
             PROVE  TypeOK'
  OBVIOUS
<1>1. CASE CancelParent
  BY <1>1 DEF CancelParent, deviceVars, pipeVars, recvVars, muxVars, copyVars, closeVars, TypeOK
<1>2. CASE UNCHANGED vars
  BY <1>2 DEF vars, TypeOK
<1> QED
  BY <1>1, <1>2, StarterType, MuxType, ReceiverType, WatcherType, CopierType, CloserType
  DEF Next, Over

\* Every variable of the session keeps its type, for every bound.
THEOREM TypeCorrect == Spec => []TypeOK
BY TypeInit, TypeNext, PTL DEF Spec

-----------------------------------------------------------------------------
(* The muxer.                                                              *)

\* Which steps touch the muxer and its copiers: the other goroutines leave them alone,
\* and AVISession() does until it returns the session.
LEMMA MuxFrame ==
  ASSUME [Next]_vars
  PROVE  \/ UNCHANGED <<start, mux, mu, merr, out, sink, copy, held>>
         \/ /\ start # "open"
            /\ \/ start' # "open" /\ UNCHANGED mux
               \/ start' = "open" /\ mux' = "header"
            /\ UNCHANGED <<mu, merr, out, sink, copy, held>>
         \/ Mux
         \/ \E k \in Kind : Transfer(k) \/ Copier(k)
<1>1. CASE UNCHANGED vars
  BY <1>1 DEF vars
<1>2. CASE Starter
  BY <1>2 DEF Starter, StartVideo, StartAudio, BindVideo, BindVideoFails, BindAudio,
              BindAudioFails, UndoVideo, UndoAudio, muxVars, copyVars
<1>3. CASE CancelParent
  BY <1>3 DEF CancelParent, muxVars, copyVars
<1>4. ASSUME NEW k \in Kind, Receive(k) \/ Receiver(k) \/ Watcher(k)
      PROVE  UNCHANGED <<start, mux, mu, merr, out, sink, copy, held>>
  BY <1>4 DEF Receive, Receiver, ReceiveFails, WriteFails, ShutPipe, ShutConn, Watcher,
              WatchConn, WatchReader, muxVars, copyVars
<1>5. ASSUME NEW c \in Closer, CallClose(c) \/ Closing(c)
      PROVE  UNCHANGED <<start, mux, mu, merr, out, sink, copy, held>>
  BY <1>5 DEF CallClose, Closing, CloseCancels, CloseShuts, CloseStopsVideo,
              CloseStopsAudio, CloseWaits, muxVars, copyVars
<1> QED
  BY <1>1, <1>2, <1>3, <1>4, <1>5 DEF Next, Over

LEMMA MuxOrderInit == Init => MuxOrder /\ Mutex /\ Alternate
BY SessionAssumption DEF Init, MuxOrder, Mutex, Alternate, Inside, Kind

LEMMA MuxOrderNext ==
  ASSUME TypeOK, MuxOrder, [Next]_vars
  PROVE  MuxOrder'
<1> USE DEF MuxOrder
<1>1. CASE UNCHANGED <<start, mux, mu, merr, out, sink, copy, held>>
  BY <1>1
<1>2. CASE /\ start # "open"
           /\ \/ start' # "open" /\ UNCHANGED mux
              \/ start' = "open" /\ mux' = "header"
           /\ UNCHANGED <<mu, merr, out, sink, copy, held>>
  BY <1>2
<1>3. CASE Mux
  <2>1. CASE WriteHeader
    BY <2>1 DEF WriteHeader
  <2>2. CASE WriteHeaderFails
    BY <2>2 DEF WriteHeaderFails, copyVars
  <2>3. CASE MuxShuts
    BY <2>3 DEF MuxShuts, copyVars
  <2>4. CASE MuxStops
    BY <2>4 DEF MuxStops, copyVars
  <2>5. CASE MuxWaits
    BY <2>5 DEF MuxWaits, copyVars
  <2>6. CASE MuxCloses
    BY <2>6 DEF MuxCloses, copyVars
  <2> QED
    BY <1>3, <2>1, <2>2, <2>3, <2>4, <2>5, <2>6 DEF Mux
<1>4. ASSUME NEW k \in Kind, Transfer(k) \/ Copier(k)
      PROVE  MuxOrder'
  <2>1. copy[k] \notin {"none", "ended"}
    BY <1>4 DEF Transfer, Copier, CopyEnds, Lock, WritePart, WritePartFails
  <2>2. mux = "wait"
    BY <2>1 DEF TypeOK
  <2>3. UNCHANGED <<start, mux, sink>> /\ (out' = out \/ out' = Append(out, <<k, held[k], copy[k]>>))
    BY <1>4 DEF Transfer, Copier, CopyEnds, Lock, WritePart, WritePartFails, muxVars
  <2>4. out' # <<>>
    BY <2>2, <2>3 DEF TypeOK
  <2>5. PICK x \in {"read", "lock", "head", "body", "ended"} : copy' = [copy EXCEPT ![k] = x]
    BY <1>4 DEF Transfer, Copier, CopyEnds, Lock, WritePart, WritePartFails
  <2>6. \A j \in Kind : copy'[j] # "none"
    BY <2>2, <2>5 DEF TypeOK
  <2> QED
    BY <2>2, <2>3, <2>4, <2>6
<1> QED
  BY <1>1, <1>2, <1>3, <1>4, MuxFrame

LEMMA MutexNext ==
  ASSUME TypeOK, MuxOrder, Mutex, [Next]_vars
  PROVE  Mutex'
<1>1. CASE UNCHANGED <<mu, merr, copy>>
  BY <1>1 DEF Mutex
<1>2. CASE WriteHeader
  <2>1. mu = None /\ UNCHANGED <<mu, merr>>
    BY <1>2 DEF WriteHeader, MuxOrder, Mutex, TypeOK, Inside
  <2> QED
    BY <1>2, <2>1, SessionAssumption DEF WriteHeader, Mutex, Inside
<1>3. CASE WriteHeaderFails
  <2>1. mu = None /\ UNCHANGED <<mu, copy>>
    BY <1>3 DEF WriteHeaderFails, MuxOrder, Mutex, TypeOK, Inside, copyVars
  <2> QED
    BY <2>1 DEF Mutex
<1>4. ASSUME NEW k \in Kind, Transfer(k) \/ CopyEnds(k)
      PROVE  Mutex'
  <2>1. PICK x \in {"lock", "ended"} : copy' = [copy EXCEPT ![k] = x]
    BY <1>4 DEF Transfer, CopyEnds
  <2>2. copy[k] = "read" /\ UNCHANGED <<mu, merr>>
    BY <1>4 DEF Transfer, CopyEnds, muxVars
  <2> QED
    BY <2>1, <2>2 DEF Mutex, Inside, TypeOK
<1>5. ASSUME NEW k \in Kind, Lock(k)
      PROVE  Mutex'
  <2>1. CASE merr
    BY <1>5, <2>1 DEF Lock, Mutex, Inside, TypeOK
  <2>2. CASE ~merr
    <3>1. \A j \in Kind : copy[j] \notin Inside
      BY <1>5, SessionAssumption DEF Lock, Mutex
    <3> QED
      BY <1>5, <2>2, <3>1 DEF Lock, Mutex, Inside, TypeOK
  <2> QED
    BY <2>1, <2>2
<1>6. ASSUME NEW k \in Kind, WritePart(k) \/ WritePartFails(k)
      PROVE  Mutex'
  <2>1. mu = k /\ ~merr /\ \A j \in Kind \ {k} : copy[j] \notin Inside
    BY <1>6, SessionAssumption DEF WritePart, WritePartFails, Mutex, Inside
  <2>2. CASE WritePart(k) /\ copy[k] = "head"
    BY <2>1, <2>2 DEF WritePart, Mutex, Inside, TypeOK
  <2>3. CASE WritePart(k) /\ copy[k] = "body"
    BY <2>1, <2>3, SessionAssumption DEF WritePart, Mutex, Inside, TypeOK
  <2>4. CASE WritePartFails(k)
    BY <2>1, <2>4, SessionAssumption DEF WritePartFails, Mutex, Inside, TypeOK
  <2> QED
    BY <1>6, <2>2, <2>3, <2>4 DEF WritePart
<1>7. Mux => UNCHANGED <<mu, merr, copy>> \/ WriteHeader \/ WriteHeaderFails
  BY DEF Mux, MuxShuts, MuxStops, MuxWaits, MuxCloses, copyVars
<1> QED
  BY <1>1, <1>2, <1>3, <1>4, <1>5, <1>6, <1>7, MuxFrame DEF Copier

\* What a part at the end of the output does to what was there.
LEMMA PartAppended ==
  ASSUME NEW S, NEW s \in Seq(S), NEW x \in S
  PROVE  /\ Len(s) \in Nat
         /\ DOMAIN s = 1 .. Len(s)
         /\ Len(Append(s, x)) = Len(s) + 1
         /\ DOMAIN Append(s, x) = 1 .. (Len(s) + 1)
         /\ \A i \in 1 .. Len(s) : Append(s, x)[i] = s[i]
         /\ Append(s, x)[Len(s) + 1] = x
         /\ Append(s, x) # <<>>
OBVIOUS

LEMMA Parity ==
  ASSUME NEW n \in Nat
  PROVE  n % 2 = 1 <=> (n + 1) % 2 # 1
OBVIOUS

LEMMA AlternateNext ==
  ASSUME TypeOK, MuxOrder, Mutex, Alternate, [Next]_vars
  PROVE  Alternate'
<1>0. /\ out \in Seq((Kind \cup {"header"}) \X (0 .. MaxItems) \X {"head", "body"})
      /\ Len(out) \in Nat /\ DOMAIN out = 1 .. Len(out)
      /\ out # <<>> => Len(out) \in 1 .. Len(out)
      /\ \A i \in DOMAIN out : out[i][3] \in {"head", "body"}
  <2>1. out \in Seq((Kind \cup {"header"}) \X (0 .. MaxItems) \X {"head", "body"})
    BY DEF TypeOK
  <2> QED
    BY <2>1
<1>1. CASE UNCHANGED <<merr, out, copy, held>>
  BY <1>1 DEF Alternate
<1>2. CASE WriteHeader
  BY <1>2 DEF WriteHeader, Alternate
<1>3. CASE WriteHeaderFails
  BY <1>3 DEF WriteHeaderFails, copyVars, Alternate
<1>4. ASSUME NEW k \in Kind, Transfer(k)
      PROVE  Alternate'
  <2>1. UNCHANGED <<out, merr>> /\ copy[k] # "body"
        /\ \A j \in Kind : copy'[j] = "body" <=> copy[j] = "body"
    BY <1>4 DEF Transfer, muxVars, TypeOK
  <2>2. \A j \in Kind : copy[j] = "body" => held'[j] = held[j]
    BY <1>4, <2>1 DEF Transfer, TypeOK
  <2> QED
    BY <2>1, <2>2 DEF Alternate
<1>5. ASSUME NEW k \in Kind, CopyEnds(k) \/ Lock(k)
      PROVE  Alternate'
  <2>1. UNCHANGED <<out, held, merr>> /\ copy[k] # "body"
    BY <1>5 DEF CopyEnds, Lock, muxVars
  <2>2. PICK x \in {"head", "ended"} : copy' = [copy EXCEPT ![k] = x]
    BY <1>5 DEF CopyEnds, Lock
  <2>3. \A j \in Kind : copy'[j] = "body" <=> copy[j] = "body"
    BY <2>1, <2>2 DEF TypeOK
  <2> QED
    BY <2>1, <2>3 DEF Alternate
<1>6. ASSUME NEW k \in Kind, WritePartFails(k)
      PROVE  Alternate'
  <2>1. UNCHANGED <<out, held>> /\ merr' /\ \A j \in Kind : copy'[j] = "body" => copy[j] = "body"
    BY <1>6 DEF WritePartFails, TypeOK
  <2> QED
    BY <2>1 DEF Alternate
<1>7. ASSUME NEW k \in Kind, WritePart(k)
      PROVE  Alternate'
  <2>1. /\ out # <<>>
        /\ ~merr /\ UNCHANGED <<held, merr>>
        /\ \A j \in Kind : j # k => copy[j] \notin Inside
        /\ copy[k] \in Inside
        /\ out' = Append(out, <<k, held[k], copy[k]>>)
        /\ copy' = [copy EXCEPT ![k] = IF copy[k] = "head" THEN "body" ELSE "read"]
    BY <1>7, SessionAssumption DEF WritePart, Mutex, MuxOrder, Inside, TypeOK
  <2>2. <<k, held[k], copy[k]>> \in (Kind \cup {"header"}) \X (0 .. MaxItems) \X {"head", "body"}
    BY <2>1 DEF TypeOK, Inside
  <2>3. /\ Len(out') = Len(out) + 1
        /\ DOMAIN out' = 1 .. (Len(out) + 1)
        /\ \A i \in 1 .. Len(out) : out'[i] = out[i]
        /\ out'[Len(out) + 1] = <<k, held[k], copy[k]>>
        /\ out' # <<>>
    BY <1>0, <2>1, <2>2, PartAppended
  <2>4. \A j \in Kind : copy'[j] = "body" => j = k /\ copy[k] = "head"
    BY <2>1 DEF Inside, TypeOK
  <2>5. CASE copy[k] = "head"
    <3>1. Len(out) \in DOMAIN out /\ out[Len(out)][3] = "body"
      BY <1>0, <2>1, <2>5 DEF Alternate, Inside
    <3>2. Len(out) % 2 = 1
      BY <3>1 DEF Alternate
    <3>3. (Len(out) + 1) % 2 # 1
      BY <1>0, <3>2, Parity
    <3>4. copy'[k] = "body"
      BY <2>1, <2>5 DEF TypeOK
    <3>5. out'[Len(out) + 1] = <<k, held[k], "head">>
      BY <2>3, <2>5
    <3>6. out'[Len(out) + 1][3] = "head" /\ out'[Len(out) + 1][1] = k
      BY <3>5
    <3>7. ASSUME NEW i \in DOMAIN out'
          PROVE  out'[i][3] = "body" <=> i % 2 = 1
      <4>1. CASE i \in DOMAIN out
        BY <1>0, <2>3, <4>1 DEF Alternate
      <4>2. CASE i = Len(out) + 1
        BY <3>3, <3>6, <4>2
      <4> QED
        BY <1>0, <2>3, <4>1, <4>2
    <3>8. ASSUME NEW i \in DOMAIN out', i # 1, out'[i][3] = "body"
          PROVE  out'[i - 1] = <<out'[i][1], out'[i][2], "head">>
      <4>1. i \in DOMAIN out /\ i - 1 \in DOMAIN out
        BY <1>0, <2>3, <3>6, <3>8
      <4> QED
        BY <1>0, <2>3, <3>8, <4>1 DEF Alternate
    <3>9. ASSUME NEW i \in DOMAIN out', out'[i][3] = "head", i < Len(out')
          PROVE  out'[i + 1] = <<out'[i][1], out'[i][2], "body">>
      <4>1. i \in DOMAIN out /\ out'[i] = out[i]
        BY <1>0, <2>3, <3>9
      <4>2. i < Len(out)
        BY <1>0, <3>1, <3>9, <4>1
      <4>3. i + 1 \in DOMAIN out
        BY <1>0, <4>1, <4>2
      <4> QED
        BY <1>0, <2>3, <3>9, <4>1, <4>2, <4>3 DEF Alternate
    <3>10. out'[Len(out')] = <<k, held'[k], "head">>
      BY <2>1, <2>3, <3>5
    <3> QED
      BY <2>3, <2>4, <3>4, <3>7, <3>8, <3>9, <3>10 DEF Alternate
  <2>6. CASE copy[k] = "body"
    <3>1. Len(out) \in DOMAIN out /\ out[Len(out)] = <<k, held[k], "head">>
      BY <1>0, <2>1, <2>6 DEF Alternate
    <3>2. Len(out) % 2 # 1
      BY <3>1 DEF Alternate
    <3>3. (Len(out) + 1) % 2 = 1
      BY <1>0, <3>2, Parity
    <3>4. out'[Len(out) + 1] = <<k, held[k], "body">>
      BY <2>3, <2>6
    <3>5. out'[Len(out) + 1][3] = "body" /\ out'[Len(out) + 1][1] = k
          /\ out'[Len(out) + 1][2] = held[k]
      BY <3>4
    <3>6. ASSUME NEW i \in DOMAIN out'
          PROVE  out'[i][3] = "body" <=> i % 2 = 1
      <4>1. CASE i \in DOMAIN out
        BY <1>0, <2>3, <4>1 DEF Alternate
      <4>2. CASE i = Len(out) + 1
        BY <3>3, <3>5, <4>2
      <4> QED
        BY <1>0, <2>3, <4>1, <4>2
    <3>7. ASSUME NEW i \in DOMAIN out', i # 1, out'[i][3] = "body"
          PROVE  out'[i - 1] = <<out'[i][1], out'[i][2], "head">>
      <4>1. CASE i \in DOMAIN out
        <5>1. i - 1 \in DOMAIN out
          BY <1>0, <3>7, <4>1
        <5> QED
          BY <1>0, <2>3, <3>7, <4>1, <5>1 DEF Alternate
      <4>2. CASE i = Len(out) + 1
        <5>1. i - 1 = Len(out)
          BY <1>0, <4>2
        <5> QED
          BY <1>0, <2>3, <3>1, <3>5, <4>2, <5>1
      <4> QED
        BY <1>0, <2>3, <4>1, <4>2
    <3>8. ASSUME NEW i \in DOMAIN out', out'[i][3] = "head", i < Len(out')
          PROVE  out'[i + 1] = <<out'[i][1], out'[i][2], "body">>
      <4>1. i \in DOMAIN out /\ out'[i] = out[i]
        BY <1>0, <2>3, <3>8
      <4>2. CASE i < Len(out)
        <5>1. i + 1 \in DOMAIN out
          BY <1>0, <4>1, <4>2
        <5> QED
          BY <1>0, <2>3, <3>8, <4>1, <4>2, <5>1 DEF Alternate
      <4>3. CASE i = Len(out)
        <5>1. out'[i][1] = k /\ out'[i][2] = held[k]
          BY <3>1, <4>1, <4>3
        <5> QED
          BY <3>4, <4>3, <5>1
      <4> QED
        BY <1>0, <4>1, <4>2, <4>3
    <3>9. out'[Len(out')][3] = "body" /\ \A j \in Kind : copy'[j] # "body"
      BY <2>3, <2>4, <2>6, <3>5
    <3> QED
      BY <2>3, <3>6, <3>7, <3>8, <3>9 DEF Alternate
  <2> QED
    BY <2>1, <2>5, <2>6 DEF Inside
<1>8. Mux => UNCHANGED <<merr, out, copy, held>> \/ WriteHeader \/ WriteHeaderFails
  BY DEF Mux, MuxShuts, MuxStops, MuxWaits, MuxCloses, copyVars
<1> QED
  BY <1>1, <1>2, <1>3, <1>4, <1>5, <1>6, <1>7, <1>8, MuxFrame DEF Copier

\* What the muxer and its copiers keep.
MuxInv == TypeOK /\ MuxOrder /\ Mutex /\ Alternate

LEMMA MuxInvariant == Spec => []MuxInv
<1>1. Init => MuxInv
  BY TypeInit, MuxOrderInit DEF MuxInv
<1>2. MuxInv /\ [Next]_vars => MuxInv'
  BY TypeNext, MuxOrderNext, MutexNext, AlternateNext DEF MuxInv
<1> QED
  BY <1>1, <1>2, PTL DEF Spec

\* The chunks of the two copiers never mix: m.mu keeps a copier inside a chunk alone,
\* and m.err keeps everyone out after a failure (streams_avi.go 164-232).
THEOREM ChunksAreWhole == Spec => []ChunksWhole
<1>1. MuxInv => ChunksWhole
  <2> SUFFICES ASSUME MuxInv, NEW i \in DOMAIN out
               PROVE  /\ out[i][3] = "head" =>
                           \/ i < Len(out) /\ out[i + 1] = <<out[i][1], out[i][2], "body">>
                           \/ i = Len(out) /\ (merr \/ mu = out[i][1])
                      /\ out[i][3] = "body" =>
                           i = 1 \/ out[i - 1] = <<out[i][1], out[i][2], "head">>
    BY DEF ChunksWhole
  <2>1. Len(out) \in Nat /\ DOMAIN out = 1 .. Len(out)
    <3>1. out \in Seq((Kind \cup {"header"}) \X (0 .. MaxItems) \X {"head", "body"})
      BY DEF MuxInv, TypeOK
    <3> QED
      BY <3>1
  <2>2. out[i][3] = "head" /\ i < Len(out) => out[i + 1] = <<out[i][1], out[i][2], "body">>
    BY DEF MuxInv, Alternate
  <2>3. out[i][3] = "head" /\ i = Len(out) => merr \/ mu = out[i][1]
    <3>1. out # <<>>
      BY <2>1
    <3> QED
      BY <3>1 DEF MuxInv, Alternate, Mutex, Inside
  <2>4. out[i][3] = "body" /\ i # 1 => out[i - 1] = <<out[i][1], out[i][2], "head">>
    BY DEF MuxInv, Alternate
  <2> QED
    BY <2>1, <2>2, <2>3, <2>4
<1> QED
  BY <1>1, MuxInvariant, PTL

-----------------------------------------------------------------------------
(* What is in the output.                                                  *)

Chunk == (Kind \cup {"header"}) \X (0 .. MaxItems)

\* How many members of a sequence of chunks are of kind k: Written, of any sequence.
CountOf(s, k) == Cardinality({i \in DOMAIN s : s[i][1] = k})

LEMMA SubsetFinite ==
  ASSUME NEW n \in Nat, NEW T, T \subseteq 1 .. n
  PROVE  IsFiniteSet(T)
<1> DEFINE D == 1 .. n
<1>1. IsFiniteSet(D)
  BY FS_Interval
<1>2. T \in SUBSET D
  OBVIOUS
<1> HIDE DEF D
<1> QED
  BY <1>1, <1>2, FS_Subset

\* One more chunk is one more of its kind.
LEMMA OneMore ==
  ASSUME NEW S, NEW s \in Seq(S), NEW x \in S, NEW k
  PROVE  /\ CountOf(s, k) \in Nat
         /\ CountOf(Append(s, x), k) = CountOf(s, k) + (IF x[1] = k THEN 1 ELSE 0)
<1> DEFINE old == {i \in DOMAIN s : s[i][1] = k}
           new == {i \in DOMAIN Append(s, x) : Append(s, x)[i][1] = k}
<1> SUFFICES /\ Cardinality(old) \in Nat
             /\ Cardinality(new) = Cardinality(old) + (IF x[1] = k THEN 1 ELSE 0)
  BY DEF CountOf
<1>1. /\ Len(s) \in Nat /\ DOMAIN s = 1 .. Len(s)
      /\ DOMAIN Append(s, x) = 1 .. (Len(s) + 1)
      /\ \A i \in 1 .. Len(s) : Append(s, x)[i] = s[i]
      /\ Append(s, x)[Len(s) + 1] = x
  OBVIOUS
<1>2. IsFiniteSet(old)
  <2>1. old \subseteq 1 .. Len(s) /\ Len(s) \in Nat
    BY <1>1
  <2> HIDE DEF old
  <2> QED
    BY <2>1, SubsetFinite
<1>3. Cardinality(old) \in Nat
  BY <1>2, FS_CardinalityType
<1>4. CASE x[1] = k
  <2>1. new = old \cup {Len(s) + 1} /\ Len(s) + 1 \notin old
    BY <1>1, <1>4
  <2>2. Cardinality(new) = Cardinality(old) + 1
    BY <1>2, <2>1, FS_AddElement
  <2> QED
    BY <1>3, <1>4, <2>2
<1>5. CASE x[1] # k
  <2>1. new = old
    BY <1>1, <1>5
  <2> HIDE DEF old, new
  <2> QED
    BY <1>3, <1>5, <2>1
<1> QED
  BY <1>4, <1>5

LEMMA Halves ==
  ASSUME NEW n \in Nat
  PROVE  /\ (n + 1) \div 2 \in Nat
         /\ n % 2 = 1 => (n + 2) \div 2 = (n + 1) \div 2
         /\ n % 2 # 1 => (n + 2) \div 2 = (n + 1) \div 2 + 1
                         /\ 2 * ((n + 1) \div 2 + 1) - 1 = n + 1
         /\ \A i \in 1 .. (n + 1) \div 2 : 2 * i - 1 \in 1 .. n
OBVIOUS

LEMMA WholeType ==
  ASSUME TypeOK
  PROVE  /\ Whole \in Seq(Chunk)
         /\ Len(Whole) = (Len(out) + 1) \div 2
         /\ out = <<>> => Whole = <<>>
         /\ out # <<>> => Whole # <<>>
<1>1. /\ out \in Seq((Kind \cup {"header"}) \X (0 .. MaxItems) \X {"head", "body"})
      /\ Len(out) \in Nat
  <2>1. out \in Seq((Kind \cup {"header"}) \X (0 .. MaxItems) \X {"head", "body"})
    BY DEF TypeOK
  <2> QED
    BY <2>1
<1>2. \A i \in 1 .. (Len(out) + 1) \div 2 : <<out[2 * i - 1][1], out[2 * i - 1][2]>> \in Chunk
  <2> SUFFICES ASSUME NEW i \in 1 .. (Len(out) + 1) \div 2
               PROVE  <<out[2 * i - 1][1], out[2 * i - 1][2]>> \in Chunk
    OBVIOUS
  <2>1. 2 * i - 1 \in 1 .. Len(out)
    BY <1>1, Halves
  <2>2. out[2 * i - 1] \in (Kind \cup {"header"}) \X (0 .. MaxItems) \X {"head", "body"}
    BY <1>1, <2>1, ElementOfSeq
  <2> QED
    BY <2>2 DEF Chunk
<1>3. (Len(out) + 1) \div 2 \in Nat
  BY <1>1, Halves
<1>4. Whole \in Seq(Chunk) /\ Len(Whole) = (Len(out) + 1) \div 2
  BY <1>2, <1>3 DEF Whole
<1>5. out = <<>> => (Len(out) + 1) \div 2 = 0
  OBVIOUS
<1>6. out # <<>> => (Len(out) + 1) \div 2 # 0
  BY <1>1
<1> QED
  BY <1>4, <1>5, <1>6

\* A head leaves the whole chunks as they are.
LEMMA HeadWritten ==
  ASSUME TypeOK, Len(out) % 2 = 1,
         NEW p \in (Kind \cup {"header"}) \X (0 .. MaxItems) \X {"head", "body"},
         out' = Append(out, p)
  PROVE  Whole' = Whole
<1>1. /\ out \in Seq((Kind \cup {"header"}) \X (0 .. MaxItems) \X {"head", "body"})
      /\ Len(out) \in Nat
  <2>1. out \in Seq((Kind \cup {"header"}) \X (0 .. MaxItems) \X {"head", "body"})
    BY DEF TypeOK
  <2> QED
    BY <2>1
<1>2. /\ Len(out') = Len(out) + 1
      /\ \A i \in 1 .. Len(out) : out'[i] = out[i]
  BY <1>1, PartAppended
<1>3. (Len(out') + 1) \div 2 = (Len(out) + 1) \div 2
  <2>1. Len(out') + 1 = Len(out) + 2
    BY <1>1, <1>2
  <2> QED
    BY <1>1, <2>1, Halves
<1>4. \A i \in 1 .. (Len(out) + 1) \div 2 : out'[2 * i - 1] = out[2 * i - 1]
  BY <1>1, <1>2, Halves
<1> QED
  BY <1>3, <1>4 DEF Whole

\* A body makes one more whole chunk.
LEMMA BodyWritten ==
  ASSUME TypeOK, Len(out) % 2 # 1,
         NEW p \in (Kind \cup {"header"}) \X (0 .. MaxItems) \X {"head", "body"},
         out' = Append(out, p)
  PROVE  /\ <<p[1], p[2]>> \in Chunk
         /\ Whole' = Append(Whole, <<p[1], p[2]>>)
<1> DEFINE n == (Len(out) + 1) \div 2
<1>1. /\ out \in Seq((Kind \cup {"header"}) \X (0 .. MaxItems) \X {"head", "body"})
      /\ Len(out) \in Nat
  <2>1. out \in Seq((Kind \cup {"header"}) \X (0 .. MaxItems) \X {"head", "body"})
    BY DEF TypeOK
  <2> QED
    BY <2>1
<1>2. /\ Len(out') = Len(out) + 1
      /\ \A i \in 1 .. Len(out) : out'[i] = out[i]
      /\ out'[Len(out) + 1] = p
  BY <1>1, PartAppended
<1>3. (Len(out') + 1) \div 2 = n + 1 /\ 2 * (n + 1) - 1 = Len(out) + 1 /\ n \in Nat
  <2>1. Len(out') + 1 = Len(out) + 2
    BY <1>1, <1>2
  <2> QED
    BY <1>1, <2>1, Halves
<1>4. \A i \in 1 .. n : out'[2 * i - 1] = out[2 * i - 1]
  BY <1>1, <1>2, Halves
<1>5. out'[2 * (n + 1) - 1] = p
  BY <1>2, <1>3
<1>6. <<p[1], p[2]>> \in Chunk
  BY DEF Chunk
<1>7. Whole \in Seq(Chunk) /\ Len(Whole) = n
  BY WholeType
<1>8. Whole' = [i \in 1 .. (n + 1) |-> <<out'[2 * i - 1][1], out'[2 * i - 1][2]>>]
  BY <1>3 DEF Whole
<1>9. Whole = [i \in 1 .. n |-> <<out[2 * i - 1][1], out[2 * i - 1][2]>>]
  BY DEF Whole
<1> HIDE DEF n
<1>10. Append(Whole, <<p[1], p[2]>>)
         = [i \in 1 .. (n + 1) |-> IF i = n + 1 THEN <<p[1], p[2]>> ELSE Whole[i]]
  BY <1>6, <1>7, <1>3
<1>11. ASSUME NEW i \in 1 .. (n + 1)
       PROVE  <<out'[2 * i - 1][1], out'[2 * i - 1][2]>>
                = IF i = n + 1 THEN <<p[1], p[2]>> ELSE Whole[i]
  <2>1. CASE i = n + 1
    BY <1>5, <2>1
  <2>2. CASE i # n + 1
    <3>1. i \in 1 .. n
      BY <1>3, <2>2
    <3> QED
      BY <1>4, <1>9, <2>2, <3>1
  <2> QED
    BY <2>1, <2>2
<1> QED
  BY <1>6, <1>8, <1>10, <1>11

-----------------------------------------------------------------------------
(* From the socket to the file.                                            *)

LEMMA RecvOrderNext ==
  ASSUME TypeOK, RecvOrder, [Next]_vars
  PROVE  RecvOrder'
<1> USE DEF RecvOrder
<1>1. CASE UNCHANGED <<start, recv>>
  BY <1>1
<1>2. CASE Starter
  <2>1. CASE BindVideo
    BY <2>1 DEF BindVideo, TypeOK, Kind
  <2>2. CASE BindAudio
    BY <2>2 DEF BindAudio
  <2>3. CASE StartVideo \/ StartAudio \/ BindVideoFails \/ BindAudioFails \/ UndoVideo \/ UndoAudio
    BY <2>3 DEF StartVideo, StartAudio, BindVideoFails, BindAudioFails, UndoVideo, UndoAudio,
                recvVars
  <2> QED
    BY <1>2, <2>1, <2>2, <2>3 DEF Starter
<1>3. ASSUME NEW k \in Kind, Receive(k) \/ Receiver(k) \/ Transfer(k)
      PROVE  RecvOrder'
  <2>1. UNCHANGED start /\ recv[k] # "none"
        /\ \E x \in {"read", "write", "shutPipe", "shutConn", "ended"} : recv' = [recv EXCEPT ![k] = x]
    BY <1>3 DEF Receive, Receiver, ReceiveFails, WriteFails, ShutPipe, ShutConn, Transfer
  <2> QED
    BY <2>1 DEF TypeOK, Kind
<1>4. ASSUME NEW k \in Kind, Watcher(k) \/ Copier(k)
      PROVE  UNCHANGED <<start, recv>>
  BY <1>4 DEF Watcher, WatchConn, WatchReader, Copier, CopyEnds, Lock, WritePart,
              WritePartFails, recvVars
<1>5. Mux \/ CancelParent => UNCHANGED <<start, recv>>
  BY DEF Mux, WriteHeader, WriteHeaderFails, MuxShuts, MuxStops, MuxWaits, MuxCloses,
         CancelParent, recvVars
<1>6. ASSUME NEW c \in Closer, CallClose(c) \/ Closing(c)
      PROVE  UNCHANGED <<start, recv>>
  BY <1>6 DEF CallClose, Closing, CloseCancels, CloseShuts, CloseStopsVideo,
              CloseStopsAudio, CloseWaits, recvVars
<1>7. UNCHANGED vars => UNCHANGED <<start, recv>>
  BY DEF vars
<1> QED
  BY <1>1, <1>2, <1>3, <1>4, <1>5, <1>6, <1>7 DEF Next, Over

\* Which steps move items, or make what was received be given up: all others at most
\* close the read end of a pipe.
LEMMA LedgerFrame ==
  ASSUME TypeOK, [Next]_vars
  PROVE  \/ /\ UNCHANGED <<merr, out, copy, held, recv, got>>
            /\ \A k \in Kind : readerShut[k] => readerShut'[k]
         \/ BindVideo \/ BindAudio \/ WriteHeader \/ WriteHeaderFails
         \/ \E k \in Kind : Receive(k) \/ Receiver(k) \/ Transfer(k) \/ Copier(k)
<1>1. CASE UNCHANGED vars
  BY <1>1 DEF vars
<1>2. CASE StartVideo \/ StartAudio \/ BindVideoFails \/ BindAudioFails \/ UndoVideo \/ UndoAudio
  <2>1. UNCHANGED <<merr, out, copy, held, recv, got>>
    BY <1>2 DEF StartVideo, StartAudio, BindVideoFails, BindAudioFails, UndoVideo, UndoAudio,
                recvVars, muxVars, copyVars
  <2>2. \A k \in Kind : readerShut[k] => readerShut'[k]
    BY <1>2 DEF StartVideo, StartAudio, BindVideoFails, BindAudioFails, UndoVideo, UndoAudio,
                pipeVars, TypeOK
  <2> QED
    BY <2>1, <2>2
<1>3. CASE MuxShuts \/ MuxStops \/ MuxWaits \/ MuxCloses
  BY <1>3 DEF MuxShuts, MuxStops, MuxWaits, MuxCloses, pipeVars, recvVars, copyVars
<1>4. CASE CancelParent
  BY <1>4 DEF CancelParent, pipeVars, recvVars, muxVars, copyVars
<1>5. ASSUME NEW k \in Kind, Watcher(k)
      PROVE  /\ UNCHANGED <<merr, out, copy, held, recv, got>>
             /\ \A j \in Kind : readerShut[j] => readerShut'[j]
  BY <1>5 DEF Watcher, WatchConn, WatchReader, muxVars, copyVars, TypeOK
<1>6. ASSUME NEW c \in Closer, CallClose(c) \/ Closing(c)
      PROVE  /\ UNCHANGED <<merr, out, copy, held, recv, got>>
             /\ \A j \in Kind : readerShut[j] => readerShut'[j]
  <2>1. UNCHANGED <<merr, out, copy, held, recv, got>>
    BY <1>6 DEF CallClose, Closing, CloseCancels, CloseShuts, CloseStopsVideo,
                CloseStopsAudio, CloseWaits, recvVars, muxVars, copyVars
  <2>2. UNCHANGED readerShut \/ \E k \in Kind : readerShut' = [readerShut EXCEPT ![k] = TRUE]
    BY <1>6 DEF CallClose, Closing, CloseCancels, CloseShuts, CloseStopsVideo,
                CloseStopsAudio, CloseWaits, pipeVars, Kind
  <2> QED
    BY <2>1, <2>2 DEF TypeOK
<1> QED
  BY <1>1, <1>2, <1>3, <1>4, <1>5, <1>6 DEF Next, Over, Starter, Mux

LEMMA WrittenSame ==
  ASSUME NEW k, UNCHANGED out
  PROVE  Written(k)' = Written(k)
BY DEF Written, Whole

LEMMA WrittenMore ==
  ASSUME TypeOK, NEW c \in Chunk, Whole' = Append(Whole, c), NEW k \in Kind
  PROVE  /\ Written(k) \in Nat
         /\ Written(k)' = Written(k) + (IF c[1] = k THEN 1 ELSE 0)
<1>1. Whole \in Seq(Chunk)
  BY WholeType
<1>2. Written(k) = CountOf(Whole, k) /\ Written(k)' = CountOf(Whole', k)
  BY DEF Written, CountOf
<1>3. CountOf(Whole, k) \in Nat
      /\ CountOf(Append(Whole, c), k) = CountOf(Whole, k) + (IF c[1] = k THEN 1 ELSE 0)
  BY <1>1, OneMore
<1> QED
  BY <1>2, <1>3

LEMMA WrittenType ==
  ASSUME TypeOK, NEW k \in Kind
  PROVE  Written(k) \in Nat
<1>1. Whole \in Seq(Chunk) /\ <<"header", 0>> \in Chunk
  BY WholeType, SessionAssumption DEF Chunk
<1>2. CountOf(Whole, k) \in Nat
  BY <1>1, OneMore
<1> QED
  BY <1>2 DEF Written, CountOf

\* A step that leaves the items of kind j where they are keeps their account.
LEMMA LedgerKept ==
  ASSUME Ledger, NEW j \in Kind, Written(j)' = Written(j),
         copy'[j] = copy[j], held'[j] = held[j], recv'[j] = recv[j], got'[j] = got[j],
         merr => merr', readerShut[j] => readerShut'[j]
  PROVE  LedgerOf(j)'
BY DEF Ledger, LedgerOf, Busy, Past

LEMMA LedgerInit == Init => Ledger /\ RecvOrder
<1> SUFFICES ASSUME Init PROVE Ledger /\ RecvOrder
  OBVIOUS
<1>1. RecvOrder
  BY DEF Init, RecvOrder, Kind
<1>2. ASSUME NEW k \in Kind
      PROVE  LedgerOf(k)
  <2>1. Whole = <<>>
    BY TypeInit, WholeType DEF Init
  <2>2. Written(k) = 0
    <3>1. {i \in DOMAIN Whole : Whole[i][1] = k} = {}
      BY <2>1
    <3> QED
      BY <3>1, FS_EmptySet DEF Written
  <2> QED
    BY <2>2 DEF Init, LedgerOf, Busy
<1> QED
  BY <1>1, <1>2 DEF Ledger

LEMMA LedgerBinds ==
  ASSUME TypeOK, RecvOrder, Ledger, BindVideo \/ BindAudio
  PROVE  Ledger'
<1>1. UNCHANGED <<out, copy, held, merr, got, readerShut>>
  BY DEF BindVideo, BindAudio, copyVars, muxVars
<1>2. \A k \in Kind : \/ recv'[k] = recv[k]
                      \/ recv[k] = "none" /\ recv'[k] = "read"
  <2>0. recv \in [Kind -> {"none", "read", "write", "shutPipe", "shutConn", "ended"}]
    BY DEF TypeOK
  <2>1. CASE BindVideo
    <3>1. recv["video"] = "none" /\ recv' = [recv EXCEPT !["video"] = "read"]
      BY <2>1 DEF BindVideo, RecvOrder
    <3> QED
      BY <2>0, <3>1
  <2>2. CASE BindAudio
    <3>1. recv["audio"] = "none" /\ recv' = [recv EXCEPT !["audio"] = "read"]
      BY <2>2 DEF BindAudio, RecvOrder
    <3> QED
      BY <2>0, <3>1
  <2> QED
    BY <2>1, <2>2
<1>3. \A k \in Kind : Written(k)' = Written(k)
  BY <1>1, WrittenSame
<1>4. ASSUME NEW k \in Kind
      PROVE  LedgerOf(k)'
  <2>1. CASE recv'[k] = recv[k]
    BY <1>1, <1>3, <2>1, LedgerKept
  <2>2. CASE recv[k] = "none" /\ recv'[k] = "read"
    BY <1>1, <1>3, <2>2 DEF Ledger, LedgerOf, Busy, Past
  <2> QED
    BY <1>2, <2>1, <2>2
<1> QED
  BY <1>4 DEF Ledger

LEMMA LedgerReceives ==
  ASSUME TypeOK, Ledger, NEW k \in Kind, Receive(k) \/ Receiver(k) \/ Transfer(k)
  PROVE  Ledger'
<1>0. UNCHANGED <<out, merr, readerShut>>
  BY DEF Receive, Receiver, ReceiveFails, WriteFails, ShutPipe, ShutConn, Transfer, pipeVars,
         muxVars
<1>1. \A j \in Kind : Written(j)' = Written(j) /\ Written(j) \in Nat
  BY <1>0, WrittenSame, WrittenType
<1>2. ASSUME NEW j \in Kind, j # k
      PROVE  LedgerOf(j)'
  <2>1. copy'[j] = copy[j] /\ held'[j] = held[j] /\ recv'[j] = recv[j] /\ got'[j] = got[j]
    BY <1>2 DEF Receive, Receiver, ReceiveFails, WriteFails, ShutPipe, ShutConn, Transfer,
                copyVars, TypeOK
  <2> QED
    BY <1>0, <1>1, <2>1, LedgerKept
<1>3. CASE Receive(k)
  <2>1. /\ recv[k] = "read" /\ recv'[k] = "write" /\ got'[k] = got[k] + 1
        /\ UNCHANGED <<copy, held>>
    BY <1>3 DEF Receive, copyVars, TypeOK
  <2>2. got[k] \in Nat /\ Written(k) \in Nat /\ Written(k)' = Written(k)
    BY <1>1, SessionAssumption DEF TypeOK
  <2>3. (copy[k] \in Busy => held[k] = Written(k) + 1) /\ UNCHANGED <<copy, held>>
    BY <2>1 DEF Ledger, LedgerOf
  <2>4. ~(copy[k] = "ended" /\ merr) =>
          got[k] = Written(k) + (IF copy[k] \in Busy THEN 1 ELSE 0)
    BY <2>1, <2>2 DEF Ledger, LedgerOf, Past
  <2>5. LedgerOf(k)'
    BY <1>0, <2>1, <2>2, <2>3, <2>4 DEF LedgerOf, Busy
  <2> QED
    BY <1>2, <2>5 DEF Ledger
<1>4. CASE ReceiveFails(k)
  <2>1. /\ recv[k] = "read" /\ recv'[k] = "shutPipe" /\ UNCHANGED <<copy, held, got>>
    BY <1>4 DEF ReceiveFails, copyVars, TypeOK
  <2>2. LedgerOf(k)'
    BY <1>0, <1>1, <2>1 DEF Ledger, LedgerOf, Busy, Past
  <2> QED
    BY <1>2, <2>2 DEF Ledger
<1>5. CASE WriteFails(k)
  <2>1. /\ readerShut[k] /\ recv'[k] = "shutPipe" /\ UNCHANGED <<copy, held, got>>
    BY <1>5 DEF WriteFails, copyVars, TypeOK
  <2>2. LedgerOf(k)'
    BY <1>0, <1>1, <2>1 DEF Ledger, LedgerOf, Busy, Past
  <2> QED
    BY <1>2, <2>2 DEF Ledger
<1>6. CASE ShutPipe(k) \/ ShutConn(k)
  <2>1. /\ recv[k] \in {"shutPipe", "shutConn"} /\ recv'[k] \in {"shutConn", "ended"}
        /\ UNCHANGED <<copy, held, got>>
    BY <1>6 DEF ShutPipe, ShutConn, copyVars, TypeOK
  <2>2. LedgerOf(k)'
    BY <1>0, <1>1, <2>1 DEF Ledger, LedgerOf, Busy, Past
  <2> QED
    BY <1>2, <2>2 DEF Ledger
<1>7. CASE Transfer(k)
  <2>1. /\ recv[k] = "write" /\ recv'[k] = "read" /\ copy[k] = "read" /\ copy'[k] = "lock"
        /\ held'[k] = got[k] /\ UNCHANGED got
    BY <1>7 DEF Transfer, TypeOK
  <2>2. LedgerOf(k)'
    BY <1>0, <1>1, <2>1 DEF Ledger, LedgerOf, Busy, Past
  <2> QED
    BY <1>2, <2>2 DEF Ledger
<1> QED
  BY <1>3, <1>4, <1>5, <1>6, <1>7 DEF Receiver

LEMMA LedgerHeader ==
  ASSUME MuxInv, Ledger, WriteHeader \/ WriteHeaderFails
  PROVE  Ledger'
<1> SUFFICES ASSUME NEW k \in Kind
             PROVE  LedgerOf(k)'
  BY DEF Ledger
<1>0. /\ out = <<>> /\ copy[k] = "none"
      /\ UNCHANGED <<held, recv, got, readerShut>>
  BY DEF WriteHeader, WriteHeaderFails, MuxInv, MuxOrder, pipeVars, recvVars, copyVars
<1>1. CASE WriteHeaderFails
  <2>1. UNCHANGED <<out, copy>> /\ merr'
    BY <1>1 DEF WriteHeaderFails, copyVars
  <2> QED
    BY <1>0, <2>1, WrittenSame DEF Ledger, LedgerOf, Busy
<1>2. CASE WriteHeader
  <2>1. copy'[k] = "read" /\ UNCHANGED merr
    BY <1>2 DEF WriteHeader
  <2>2. out' = Append(out, <<"header", 0, "body">>)
    BY <1>0, <1>2 DEF WriteHeader
  <2>3. Whole' = Append(Whole, <<"header", 0>>) /\ <<"header", 0>> \in Chunk
    <3>1. <<"header", 0, "body">> \in (Kind \cup {"header"}) \X (0 .. MaxItems) \X {"head", "body"}
      BY SessionAssumption
    <3>2. Len(out) % 2 # 1
      BY <1>0
    <3> QED
      BY <2>2, <3>1, <3>2, BodyWritten DEF MuxInv
  <2>4. Written(k) \in Nat /\ Written(k)' = Written(k)
    <3>1. <<"header", 0>>[1] # k
      BY DEF Kind
    <3> QED
      BY <2>3, <3>1, WrittenMore DEF MuxInv
  <2> QED
    BY <1>0, <2>1, <2>4 DEF Ledger, LedgerOf, Busy
<1> QED
  BY <1>1, <1>2

LEMMA LedgerCopies ==
  ASSUME MuxInv, Ledger, NEW k \in Kind, Copier(k)
  PROVE  Ledger'
<1>0. UNCHANGED <<held, recv, got, readerShut>> /\ (merr => merr') /\ TypeOK
  BY DEF Copier, CopyEnds, Lock, WritePart, WritePartFails, pipeVars, recvVars, muxVars, MuxInv
<1>1. ASSUME NEW j \in Kind, j # k, Written(j)' = Written(j)
      PROVE  LedgerOf(j)'
  <2>1. copy'[j] = copy[j]
    BY <1>0, <1>1 DEF Copier, CopyEnds, Lock, WritePart, WritePartFails, TypeOK
  <2> QED
    BY <1>0, <1>1, <2>1, LedgerKept
<1>2. CASE CopyEnds(k) \/ Lock(k) \/ WritePartFails(k)
  <2>1. UNCHANGED out
    BY <1>2 DEF CopyEnds, Lock, WritePartFails, muxVars
  <2>2. \A j \in Kind : Written(j)' = Written(j) /\ Written(j) \in Nat
    BY <1>0, <2>1, WrittenSame, WrittenType
  <2>3. \/ copy[k] = "read" /\ copy'[k] = "ended" /\ merr' = merr
        \/ copy'[k] = "ended" /\ merr'
        \/ copy[k] = "lock" /\ copy'[k] = "head" /\ merr' = merr
    BY <1>0, <1>2 DEF CopyEnds, Lock, WritePartFails, muxVars, TypeOK
  <2>4. LedgerOf(k)'
    BY <1>0, <2>2, <2>3 DEF Ledger, LedgerOf, Busy, Past
  <2> QED
    BY <1>1, <2>2, <2>4 DEF Ledger
<1>3. CASE WritePart(k)
  <2>0. /\ out # <<>> /\ out \in Seq((Kind \cup {"header"}) \X (0 .. MaxItems) \X {"head", "body"})
        /\ mu = k /\ ~merr /\ UNCHANGED merr
        /\ copy[k] \in {"head", "body"}
        /\ out' = Append(out, <<k, held[k], copy[k]>>)
        /\ copy' = [copy EXCEPT ![k] = IF copy[k] = "head" THEN "body" ELSE "read"]
    BY <1>3, SessionAssumption DEF WritePart, MuxInv, Mutex, MuxOrder, Inside, TypeOK
  <2>1. <<k, held[k], copy[k]>> \in (Kind \cup {"header"}) \X (0 .. MaxItems) \X {"head", "body"}
    BY <2>0 DEF MuxInv, TypeOK
  <2>2. Len(out) \in DOMAIN out
    BY <2>0
  <2>3. CASE copy[k] = "head"
    <3>1. out[Len(out)][3] = "body"
      <4>1. out[Len(out)][3] \in {"head", "body"}
        BY <2>0, <2>2
      <4> QED
        BY <2>0, <2>3, <4>1, SessionAssumption DEF MuxInv, Alternate, Mutex, Inside
    <3>2. Len(out) % 2 = 1
      BY <2>2, <3>1 DEF MuxInv, Alternate
    <3>3. Whole' = Whole
      BY <1>0, <2>0, <2>1, <3>2, HeadWritten
    <3>4. \A j \in Kind : Written(j)' = Written(j)
      BY <3>3 DEF Written
    <3>5. copy'[k] = "body"
      BY <1>0, <2>0, <2>3 DEF TypeOK
    <3>6. LedgerOf(k)'
      BY <1>0, <2>0, <2>3, <3>4, <3>5 DEF Ledger, LedgerOf, Busy, Past
    <3> QED
      BY <1>1, <3>4, <3>6 DEF Ledger
  <2>4. CASE copy[k] = "body"
    <3>1. out[Len(out)] = <<k, held[k], "head">>
      BY <2>4 DEF MuxInv, Alternate
    <3>2. Len(out) % 2 # 1
      BY <2>2, <3>1 DEF MuxInv, Alternate
    <3>3. Whole' = Append(Whole, <<k, held[k]>>) /\ <<k, held[k]>> \in Chunk
      <4>1. /\ <<k, held[k], copy[k]>>[1] = k
            /\ <<k, held[k], copy[k]>>[2] = held[k]
        OBVIOUS
      <4> QED
        BY <1>0, <2>0, <2>1, <3>2, <4>1, BodyWritten
    <3>4. /\ \A j \in Kind : j # k => Written(j)' = Written(j)
          /\ Written(k)' = Written(k) + 1
          /\ Written(k) \in Nat
      <4>1. <<k, held[k]>>[1] = k
        OBVIOUS
      <4>2. \A j \in Kind : /\ Written(j) \in Nat
                            /\ Written(j)' = Written(j) + (IF k = j THEN 1 ELSE 0)
        BY <1>0, <3>3, <4>1, WrittenMore
      <4> QED
        BY <4>2
    <3>5. copy'[k] = "read"
      BY <1>0, <2>0, <2>4 DEF TypeOK
    <3>6. LedgerOf(k)'
      BY <1>0, <2>0, <2>4, <3>4, <3>5 DEF Ledger, LedgerOf, Busy, Past
    <3> QED
      BY <1>1, <3>4, <3>6 DEF Ledger
  <2> QED
    BY <2>0, <2>3, <2>4
<1> QED
  BY <1>2, <1>3 DEF Copier

LEMMA LedgerNext ==
  ASSUME MuxInv, RecvOrder, Ledger, [Next]_vars
  PROVE  Ledger'
<1>0. TypeOK
  BY DEF MuxInv
<1>1. CASE /\ UNCHANGED <<merr, out, copy, held, recv, got>>
           /\ \A k \in Kind : readerShut[k] => readerShut'[k]
  <2>1. \A k \in Kind : Written(k)' = Written(k)
    BY <1>1, WrittenSame
  <2>2. \A k \in Kind : LedgerOf(k)'
    BY <1>1, <2>1, LedgerKept
  <2> QED
    BY <2>2 DEF Ledger
<1> QED
  BY <1>0, <1>1, LedgerFrame, LedgerBinds, LedgerHeader, LedgerReceives, LedgerCopies

\* What the session keeps between the sockets and the output.
StreamInv == MuxInv /\ RecvOrder /\ Ledger

LEMMA StreamInvariant == Spec => []StreamInv
<1>1. Init => StreamInv
  BY TypeInit, MuxOrderInit, LedgerInit DEF StreamInv, MuxInv
<1>2. StreamInv /\ [Next]_vars => StreamInv'
  BY TypeNext, MuxOrderNext, MutexNext, AlternateNext, RecvOrderNext, LedgerNext
  DEF StreamInv, MuxInv
<1> QED
  BY <1>1, <1>2, PTL DEF Spec

\* Between the socket and the file nothing gets lost: the pipe hands items over one by
\* one, and a copier takes the next only when it has written the last (streams.go
\* 283-310, streams_avi.go 164-232).
THEOREM NothingIsLost == Spec => []NothingLost
<1>1. StreamInv => NothingLost
  BY DEF StreamInv, Ledger, LedgerOf, Busy, NothingLost
<1> QED
  BY <1>1, StreamInvariant, PTL

-----------------------------------------------------------------------------
(* The session makes a recording.                                          *)

LEMMA RecordingInit ==
  ASSUME Init
  PROVE  R!Init
<1>1. Whole = <<>>
  BY TypeInit, WholeType DEF Init
<1> QED
  BY <1>1 DEF Init, R!Init

LEMMA RecordingNext ==
  ASSUME StreamInv, [Next]_vars
  PROVE  [R!Next]_R!vars
<1>0. TypeOK
  BY DEF StreamInv, MuxInv
<1>1. CASE UNCHANGED <<out, sink>>
  BY <1>1 DEF R!vars, Whole
<1>2. CASE WriteHeader
  <2>1. out = <<>> /\ sink # "closed" /\ UNCHANGED sink
    BY <1>2, <1>0 DEF WriteHeader, StreamInv, MuxInv, MuxOrder
  <2>2. out' = Append(out, <<"header", 0, "body">>)
    BY <1>2, <2>1 DEF WriteHeader
  <2>3. Whole' = Append(Whole, <<"header", 0>>)
    <3>1. <<"header", 0, "body">> \in (Kind \cup {"header"}) \X (0 .. MaxItems) \X {"head", "body"}
      BY SessionAssumption
    <3>2. Len(out) % 2 # 1
      BY <2>1
    <3> QED
      BY <1>0, <2>2, <3>1, <3>2, BodyWritten
  <2>4. Whole = <<>> /\ Whole' = <<R!Header>>
    BY <1>0, <2>1, <2>3, WholeType DEF R!Header
  <2> QED
    BY <2>1, <2>4 DEF R!Next, R!WriteHeader
<1>3. ASSUME NEW k \in Kind, WritePart(k)
      PROVE  [R!Next]_R!vars
  <2>0. /\ out # <<>> /\ out \in Seq((Kind \cup {"header"}) \X (0 .. MaxItems) \X {"head", "body"})
        /\ mu = k /\ ~merr /\ copy[k] \in {"head", "body"}
        /\ sink # "closed" /\ UNCHANGED sink
        /\ out' = Append(out, <<k, held[k], copy[k]>>)
    BY <1>3, SessionAssumption
    DEF WritePart, StreamInv, MuxInv, Mutex, MuxOrder, Inside, TypeOK
  <2>1. <<k, held[k], copy[k]>> \in (Kind \cup {"header"}) \X (0 .. MaxItems) \X {"head", "body"}
    BY <1>0, <2>0 DEF TypeOK
  <2>2. Len(out) \in DOMAIN out
    BY <2>0
  <2>3. CASE copy[k] = "head"
    <3>1. out[Len(out)][3] = "body"
      <4>1. out[Len(out)][3] \in {"head", "body"}
        BY <2>0, <2>2
      <4> QED
        BY <2>0, <2>3, <4>1, SessionAssumption DEF StreamInv, MuxInv, Alternate, Mutex, Inside
    <3>2. Len(out) % 2 = 1
      BY <2>2, <3>1 DEF StreamInv, MuxInv, Alternate
    <3>3. Whole' = Whole
      BY <1>0, <2>0, <2>1, <3>2, HeadWritten
    <3> QED
      BY <2>0, <3>3 DEF R!vars
  <2>4. CASE copy[k] = "body"
    <3>1. out[Len(out)] = <<k, held[k], "head">>
      BY <2>4 DEF StreamInv, MuxInv, Alternate
    <3>2. Len(out) % 2 # 1
      BY <2>2, <3>1 DEF StreamInv, MuxInv, Alternate
    <3>3. Whole' = Append(Whole, <<k, held[k]>>)
      <4>1. /\ <<k, held[k], copy[k]>>[1] = k
            /\ <<k, held[k], copy[k]>>[2] = held[k]
        OBVIOUS
      <4> QED
        BY <1>0, <2>0, <2>1, <3>2, <4>1, BodyWritten
    <3>4. held[k] = Written(k) + 1
      BY <2>4 DEF StreamInv, Ledger, LedgerOf, Busy
    <3>5. R!Count(k) = Written(k)
      BY DEF R!Count, Written, R!Cardinality, Cardinality
    <3>6. Whole # <<>>
      BY <1>0, <2>0, WholeType
    <3> QED
      <4>1. Whole' = Append(Whole, <<k, R!Count(k) + 1>>)
        BY <3>3, <3>4, <3>5
      <4>2. R!WriteChunk(k)
        BY <2>0, <3>6, <4>1 DEF R!WriteChunk
      <4> QED
        BY <4>2 DEF R!Next
  <2> QED
    BY <2>0, <2>3, <2>4
<1>4. CASE MuxCloses
  <2>1. mux = "sink" /\ sink # "closed" /\ UNCHANGED out /\ sink' = "closed"
    BY <1>4 DEF MuxCloses, StreamInv, MuxInv, MuxOrder
  <2> QED
    BY <2>1 DEF R!Next, R!Close, Whole
<1>5. Mux => UNCHANGED <<out, sink>> \/ WriteHeader \/ MuxCloses
  BY DEF Mux, WriteHeaderFails, MuxShuts, MuxStops, MuxWaits, MuxCloses
<1>6. ASSUME NEW k \in Kind, Transfer(k) \/ Copier(k)
      PROVE  UNCHANGED <<out, sink>> \/ WritePart(k)
  BY <1>6 DEF Transfer, Copier, CopyEnds, Lock, WritePartFails, muxVars
<1> QED
  BY <1>1, <1>2, <1>3, <1>4, <1>5, <1>6, MuxFrame

\* What reaches the output is the recording of module Recording: the two copiers write
\* one chunk at a time, each the next of its kind, and the output is closed when both
\* have ended (streams.go 293-318).
THEOREM SessionImplementsRecording == Spec => ImplementsRecording
<1>1. Init => R!Init
  BY RecordingInit
<1>2. StreamInv /\ [Next]_vars => [R!Next]_R!vars
  BY RecordingNext
<1> QED
  BY <1>1, <1>2, StreamInvariant, PTL DEF Spec, ImplementsRecording, R!Spec

-----------------------------------------------------------------------------
(* Close.                                                                  *)

\* Whoever does not close the session leaves its calls of Close alone, reopens no
\* pipe, and starts no stream of a session that is open.
LEMMA CloseFrame ==
  ASSUME TypeOK, MuxOrder, [Next]_vars
  PROVE  \/ /\ UNCHANGED closeVars
            /\ start = "open" => start' = "open"
            /\ \A k \in Kind : readerShut[k] => readerShut'[k]
            /\ start = "open" => \A k \in Kind : device'[k] => device[k]
         \/ \E c \in Closer : CallClose(c) \/ Closing(c)
<1>1. CASE UNCHANGED vars
  BY <1>1 DEF vars, closeVars
<1>2. CASE Starter
  <2>1. start # "open" /\ UNCHANGED closeVars
    BY <1>2 DEF Starter, StartVideo, StartAudio, BindVideo, BindVideoFails, BindAudio,
                BindAudioFails, UndoVideo, UndoAudio
  <2>2. UNCHANGED readerShut \/ readerShut' = [readerShut EXCEPT !["video"] = TRUE]
    BY <1>2 DEF Starter, StartVideo, StartAudio, BindVideo, BindVideoFails, BindAudio,
                BindAudioFails, UndoVideo, UndoAudio, pipeVars
  <2> QED
    BY <2>1, <2>2 DEF TypeOK
<1>3. CASE MuxStops
  <2>1. start = "open" /\ UNCHANGED <<start, readerShut, closeVars>>
    BY <1>3 DEF MuxStops, MuxOrder, pipeVars
  <2>2. /\ device \in [Kind -> BOOLEAN] /\ misled \in BOOLEAN
        /\ "video" \in Kind /\ "audio" \in Kind
    BY DEF TypeOK, Kind
  <2>3. PICK k \in Kind : device' = device \/ device' = [device EXCEPT ![k] = FALSE]
    BY <1>3, <2>2, AskType DEF MuxStops
  <2> QED
    BY <2>1, <2>2, <2>3
<1>4. CASE WriteHeader \/ WriteHeaderFails \/ MuxShuts \/ MuxWaits \/ MuxCloses \/ CancelParent
  <2>1. UNCHANGED <<start, device, closeVars>>
    BY <1>4 DEF WriteHeader, WriteHeaderFails, MuxShuts, MuxWaits, MuxCloses, CancelParent,
                deviceVars
  <2>2. UNCHANGED readerShut \/ readerShut' = [k \in Kind |-> TRUE]
    BY <1>4 DEF WriteHeader, WriteHeaderFails, MuxShuts, MuxWaits, MuxCloses, CancelParent,
                pipeVars
  <2> QED
    BY <2>1, <2>2
<1>5. ASSUME NEW k \in Kind, Receive(k) \/ Receiver(k) \/ Transfer(k) \/ Copier(k)
      PROVE  UNCHANGED <<start, device, readerShut, closeVars>>
  BY <1>5 DEF Receive, Receiver, ReceiveFails, WriteFails, ShutPipe, ShutConn, Transfer,
              Copier, CopyEnds, Lock, WritePart, WritePartFails, deviceVars, pipeVars
<1>6. ASSUME NEW k \in Kind, Watcher(k)
      PROVE  /\ UNCHANGED <<start, device, closeVars>>
             /\ \A j \in Kind : readerShut[j] => readerShut'[j]
  BY <1>6 DEF Watcher, WatchConn, WatchReader, deviceVars, TypeOK
<1> QED
  BY <1>1, <1>2, <1>3, <1>4, <1>5, <1>6 DEF Next, Over, Mux

LEMMA CloseOrderNext ==
  ASSUME TypeOK, MuxOrder, CloseOrder, [Next]_vars
  PROVE  CloseOrder'
<1>0. "video" \in Kind /\ "audio" \in Kind
  BY DEF Kind
<1>1. CASE /\ UNCHANGED closeVars
           /\ start = "open" => start' = "open"
           /\ \A k \in Kind : readerShut[k] => readerShut'[k]
           /\ start = "open" => \A k \in Kind : device'[k] => device[k]
  <2>1. UNCHANGED <<once, closer, verdict>>
    BY <1>1 DEF closeVars
  <2>2. \A c \in Closer : CloserOf(c)'
    BY <1>0, <1>1, <2>1 DEF CloseOrder, CloserOf, Working
  <2> QED
    BY <1>1, <2>1, <2>2 DEF CloseOrder
<1>2. ASSUME NEW c \in Closer, CallClose(c)
      PROVE  CloseOrder'
  <2>1. /\ start = "open" /\ UNCHANGED <<start, device, readerShut, verdict>>
        /\ closer[c] = "idle"
        /\ closer' = [closer EXCEPT ![c] = IF once = "new" THEN "cancel" ELSE "wait"]
        /\ once' = IF once = "new" THEN "running" ELSE once
    BY <1>2 DEF CallClose, deviceVars, pipeVars
  <2>2. \A d \in Closer : d # c => closer'[d] = closer[d]
    BY <2>1 DEF TypeOK
  <2>3. CASE once = "new"
    <3>1. \A d \in Closer : closer[d] = "idle"
      BY <2>3 DEF CloseOrder, CloserOf
    <3>2. closer'[c] = "cancel" /\ once' = "running"
      BY <2>1, <2>3 DEF TypeOK
    <3>3. \A d \in Closer : CloserOf(d)'
      BY <2>2, <3>1, <3>2 DEF CloserOf, Working
    <3> QED
      BY <2>1, <2>2, <3>1, <3>2, <3>3 DEF CloseOrder, Working
  <2>4. CASE once # "new"
    <3>1. closer'[c] = "wait" /\ UNCHANGED once
      BY <2>1, <2>4 DEF TypeOK
    <3>2. \A d \in Closer : CloserOf(d)'
      BY <2>1, <2>2, <2>4, <3>1 DEF CloseOrder, CloserOf, Working
    <3> QED
      BY <2>1, <2>2, <3>1, <3>2 DEF CloseOrder, Working
  <2> QED
    BY <2>3, <2>4
<1>3. ASSUME NEW c \in Closer, CloseWaits(c)
      PROVE  CloseOrder'
  <2>1. /\ UNCHANGED <<start, device, readerShut, verdict, once>> /\ once = "done"
        /\ closer' = [closer EXCEPT ![c] = "returned"]
    BY <1>3 DEF CloseWaits, deviceVars, pipeVars
  <2>2. closer'[c] = "returned" /\ \A d \in Closer : d # c => closer'[d] = closer[d]
    BY <2>1 DEF TypeOK
  <2>3. \A d \in Closer : CloserOf(d)'
    BY <2>1, <2>2 DEF CloseOrder, CloserOf, Working
  <2> QED
    BY <2>1, <2>2, <2>3 DEF CloseOrder, Working
<1>4. ASSUME NEW c \in Closer, closer[c] \in Working,
             CloseCancels(c) \/ CloseShuts(c) \/ CloseStopsVideo(c) \/ CloseStopsAudio(c)
      PROVE  CloseOrder'
  <2>1. /\ start = "open" /\ once = "running" /\ UNCHANGED start
        /\ \A d \in Closer : d # c => closer[d] \notin Working /\ closer[d] # "returned"
    BY <1>4 DEF CloseCancels, CloseShuts, CloseStopsVideo, CloseStopsAudio, CloseOrder, CloserOf
  <2>2. \A d \in Closer : d # c => closer'[d] = closer[d]
    BY <1>4 DEF CloseCancels, CloseShuts, CloseStopsVideo, CloseStopsAudio, TypeOK
  <2>3. \A d \in Closer : d # c => CloserOf(d)'
    <3>1. once' # "new"
      BY <1>4, <2>1 DEF CloseCancels, CloseShuts, CloseStopsVideo, CloseStopsAudio
    <3> QED
      BY <2>1, <2>2, <3>1 DEF CloserOf, Working
  <2>4. CASE CloseCancels(c)
    <3>1. closer'[c] = "shutVideo" /\ UNCHANGED once
      BY <2>4 DEF CloseCancels, TypeOK
    <3>2. CloserOf(c)'
      BY <2>1, <3>1 DEF CloserOf, Working
    <3> QED
      BY <2>1, <2>2, <2>3, <3>1, <3>2 DEF CloseOrder
  <2>5. CASE CloseShuts(c)
    <3>1. /\ closer[c] = "shutVideo" => closer'[c] = "shutAudio" /\ readerShut'["video"]
          /\ closer[c] = "shutAudio" =>
               closer'[c] = "stopVideo" /\ readerShut'["audio"] /\ readerShut'["video"]
          /\ closer[c] \in {"shutVideo", "shutAudio"} /\ UNCHANGED once
      BY <1>0, <2>5 DEF CloseShuts, TypeOK, CloseOrder, CloserOf
    <3>2. CloserOf(c)'
      BY <2>1, <3>1 DEF CloserOf, Working
    <3> QED
      BY <2>1, <2>2, <2>3, <3>1, <3>2 DEF CloseOrder
  <2>6. CASE CloseStopsVideo(c)
    <3>1. PICK ok \in BOOLEAN :
            /\ Ask("video", FALSE, TRUE, ok)
            /\ verdict' = [verdict EXCEPT ![c] = IF ok THEN @ ELSE "error"]
      BY <2>6 DEF CloseStopsVideo
    <3>2. /\ closer[c] = "stopVideo" /\ closer'[c] = "stopAudio" /\ UNCHANGED <<once, readerShut>>
      BY <2>6 DEF CloseStopsVideo, TypeOK, pipeVars
    <3>3. ok => device' = [device EXCEPT !["video"] = FALSE]
      BY <1>0, <3>1, AskType DEF TypeOK
    <3>4. verdict'[c] = "nil" => ok
      BY <3>1 DEF TypeOK
    <3>5. verdict'[c] = "nil" => ~device'["video"]
      BY <1>0, <3>3, <3>4 DEF TypeOK
    <3>6. CloserOf(c)'
      BY <2>1, <3>2, <3>5 DEF CloseOrder, CloserOf, Working
    <3> QED
      BY <2>1, <2>2, <2>3, <3>2, <3>6 DEF CloseOrder
  <2>7. CASE CloseStopsAudio(c)
    <3>1. PICK ok \in BOOLEAN :
            /\ Ask("audio", FALSE, TRUE, ok)
            /\ verdict' = [verdict EXCEPT ![c] = IF ok THEN @ ELSE "error"]
      BY <2>7 DEF CloseStopsAudio
    <3>2. /\ closer[c] = "stopAudio" /\ closer'[c] = "returned" /\ once' = "done"
          /\ UNCHANGED readerShut
      BY <2>7 DEF CloseStopsAudio, TypeOK, pipeVars
    <3>3. ok => device' = [device EXCEPT !["audio"] = FALSE]
      BY <1>0, <3>1, AskType DEF TypeOK
    <3>4. verdict'[c] = "nil" => ok /\ verdict[c] = "nil"
      BY <3>1 DEF TypeOK
    <3>5. \A k \in Kind : readerShut'[k]
      BY <3>2 DEF CloseOrder, CloserOf, Kind
    <3>6. verdict'[c] = "nil" => \A k \in Kind : ~device'[k]
      <4>1. verdict'[c] = "nil" => ~device["video"] /\ device' = [device EXCEPT !["audio"] = FALSE]
        BY <3>2, <3>3, <3>4 DEF CloseOrder, CloserOf
      <4>2. device \in [Kind -> BOOLEAN]
        BY DEF TypeOK
      <4> QED
        BY <4>1, <4>2 DEF Kind
    <3>7. CloserOf(c)'
      BY <3>2 DEF CloserOf, Working
    <3> QED
      BY <2>1, <2>2, <2>3, <3>2, <3>5, <3>6, <3>7 DEF CloseOrder, Working
  <2> QED
    BY <1>4, <2>4, <2>5, <2>6, <2>7
<1>5. ASSUME NEW c \in Closer, Closing(c)
      PROVE  \/ CloseWaits(c)
             \/ /\ closer[c] \in Working
                /\ CloseCancels(c) \/ CloseShuts(c) \/ CloseStopsVideo(c) \/ CloseStopsAudio(c)
  BY <1>5 DEF Closing, CloseCancels, CloseShuts, CloseStopsVideo, CloseStopsAudio, Working
<1> QED
  BY <1>1, <1>2, <1>3, <1>4, <1>5, CloseFrame

LEMMA StartOrderNext ==
  ASSUME TypeOK, MuxOrder, CloseOrder, StartOrder, [Next]_vars
  PROVE  StartOrder'
<1>0. /\ device \in [Kind -> BOOLEAN] /\ misled \in BOOLEAN /\ parent \in BOOLEAN
      /\ "video" \in Kind /\ "audio" \in Kind
  BY DEF TypeOK, Kind
<1>1. CASE UNCHANGED <<start, device, misled>> /\ (parent => parent')
  BY <1>1 DEF StartOrder
<1>2. CASE start' = "open"
  BY <1>2 DEF StartOrder
<1>3. CASE Starter
  <2>0. parent' = parent
    BY <1>3 DEF Starter, StartVideo, StartAudio, BindVideo, BindVideoFails, BindAudio, BindAudioFails,
                UndoVideo, UndoAudio, contextVars
  <2>1. CASE StartVideo
    <3>1. PICK ok \in BOOLEAN : /\ Ask("video", TRUE, ~parent, ok)
                                /\ start' = IF ok THEN "startAudio" ELSE "failed"
      BY <2>1 DEF StartVideo
    <3>2. /\ ok => device' = [device EXCEPT !["video"] = TRUE]
          /\ ~misled' => ~misled
          /\ ~ok /\ ~misled' => device' = device
      BY <1>0, <3>1, AskType
    <3>3. ~misled' /\ ~parent => \A k \in Kind : ~device[k]
      BY <2>1, <3>2 DEF StartVideo, StartOrder
    <3>4. ok /\ ~misled' /\ ~parent => ~device'["audio"]
      BY <1>0, <3>2, <3>3
    <3> QED
      BY <1>0, <2>0, <3>1, <3>2, <3>3, <3>4 DEF StartOrder
  <2>2. CASE StartAudio
    <3>1. PICK ok \in BOOLEAN : /\ Ask("audio", TRUE, ~parent, ok)
                                /\ start' = IF ok THEN "bindVideo" ELSE "undoVideo"
      BY <2>2 DEF StartAudio
    <3>2. /\ ~misled' => ~misled
          /\ ~ok /\ ~misled' => device' = device
      BY <1>0, <3>1, AskType
    <3>3. ~misled' /\ ~parent => ~device["audio"]
      BY <2>2, <3>2 DEF StartAudio, StartOrder
    <3> QED
      BY <2>0, <3>1, <3>2, <3>3 DEF StartOrder
  <2>3. CASE BindVideo \/ BindVideoFails \/ BindAudioFails
    BY <2>0, <2>3 DEF BindVideo, BindVideoFails, BindAudioFails, StartOrder
  <2>4. CASE BindAudio
    BY <1>2, <2>4 DEF BindAudio
  <2>5. CASE UndoVideo
    <3>1. PICK ok \in BOOLEAN : Ask("video", FALSE, ~parent, ok)
      BY <2>5 DEF UndoVideo
    <3>2. ~misled' /\ ~parent => ~misled /\ device' = [device EXCEPT !["video"] = FALSE]
      BY <1>0, <3>1, AskType
    <3>3. \/ start = "undoVideo" /\ start' = "failed"
          \/ start = "undoBoth" /\ start' = "undoAudio"
      BY <2>5 DEF UndoVideo
    <3>4. ~misled' /\ ~parent => ~device'["video"]
      BY <1>0, <3>2
    <3>5. ~misled' /\ ~parent /\ start = "undoVideo" => ~device'["audio"]
      BY <1>0, <3>2 DEF StartOrder
    <3> QED
      BY <2>0, <3>3, <3>4, <3>5 DEF StartOrder, Kind
  <2>6. CASE UndoAudio
    <3>1. PICK ok \in BOOLEAN : Ask("audio", FALSE, ~parent, ok)
      BY <2>6 DEF UndoAudio
    <3>2. ~misled' /\ ~parent => ~misled /\ device' = [device EXCEPT !["audio"] = FALSE]
      BY <1>0, <3>1, AskType
    <3>3. start = "undoAudio" /\ start' = "failed"
      BY <2>6 DEF UndoAudio
    <3>4. ~misled' /\ ~parent => ~device'["video"] /\ ~device'["audio"]
      BY <1>0, <3>2, <3>3 DEF StartOrder
    <3> QED
      BY <2>0, <3>3, <3>4 DEF StartOrder, Kind
  <2> QED
    BY <1>3, <2>1, <2>2, <2>3, <2>4, <2>5, <2>6 DEF Starter
<1>4. Mux => start' = "open"
  BY DEF Mux, WriteHeader, WriteHeaderFails, MuxShuts, MuxStops, MuxWaits, MuxCloses, MuxOrder
<1>5. ASSUME NEW c \in Closer, CallClose(c) \/ Closing(c)
      PROVE  start' = "open"
  <2>1. UNCHANGED start
    BY <1>5 DEF CallClose, Closing, CloseCancels, CloseShuts, CloseStopsVideo, CloseStopsAudio,
                CloseWaits
  <2>2. start = "open"
    BY <1>5 DEF CallClose, Closing, CloseCancels, CloseShuts, CloseStopsVideo, CloseStopsAudio,
                CloseWaits, CloseOrder, CloserOf
  <2> QED
    BY <2>1, <2>2
<1>6. ASSUME NEW k \in Kind, Receive(k) \/ Receiver(k) \/ Transfer(k) \/ Watcher(k) \/ Copier(k)
      PROVE  UNCHANGED <<start, device, misled>> /\ (parent => parent')
  BY <1>6 DEF Receive, Receiver, ReceiveFails, WriteFails, ShutPipe, ShutConn, Transfer,
              Watcher, WatchConn, WatchReader, Copier, CopyEnds, Lock, WritePart,
              WritePartFails, deviceVars, contextVars
<1>7. CancelParent \/ UNCHANGED vars => UNCHANGED <<start, device, misled>> /\ (parent => parent')
  BY DEF CancelParent, vars, deviceVars
<1> QED
  BY <1>1, <1>2, <1>3, <1>4, <1>5, <1>6, <1>7 DEF Next, Over

\* What the session keeps of the device, the pipes and the calls of Close.
DeviceInv == TypeOK /\ MuxOrder /\ CloseOrder /\ StartOrder

LEMMA DeviceInvariant == Spec => []DeviceInv
<1>1. Init => DeviceInv
  <2> SUFFICES ASSUME Init PROVE CloseOrder /\ StartOrder
    BY TypeInit, MuxOrderInit DEF DeviceInv
  <2>1. \A c \in Closer : CloserOf(c)
    BY DEF Init, CloserOf, Working
  <2> QED
    BY <2>1 DEF Init, CloseOrder, StartOrder, Working, Kind
<1>2. DeviceInv /\ [Next]_vars => DeviceInv'
  BY TypeNext, MuxOrderNext, CloseOrderNext, StartOrderNext DEF DeviceInv
<1> QED
  BY <1>1, <1>2, PTL DEF Spec

\* A Close that has returned has shut both readers, whoever did the work, and when no
\* call reports an error neither stream is being sent: sync.Once makes the others wait
\* for the one that works, and nothing starts a stream again (streams.go 186-205).
THEOREM CloseIsHonest == Spec => []CloseHonest
<1>1. DeviceInv => CloseHonest
  BY DEF DeviceInv, CloseOrder, CloserOf, CloseHonest
<1> QED
  BY <1>1, DeviceInvariant, PTL

\* A failed start has stopped what it started when the device did what it was asked, unless the
\* caller's context, with which the cleanup asks, is over (streams.go 230-255).
THEOREM FailedStartIsClean == Spec => []FailedStartClean
<1>1. DeviceInv => FailedStartClean
  BY DEF DeviceInv, StartOrder, FailedStartClean
<1> QED
  BY <1>1, DeviceInvariant, PTL

=============================================================================
