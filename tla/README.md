# Verification of go-ultimate

TLA+ models of the client library for the Ultimate 64 / 1541 Ultimate and of its
command line tool `c64ctl`, the TLC configurations that check them on small
instances, and TLAPS proofs of the results that hold for every instance. Paths
below are relative to the repository; line numbers are those of the modelled
commit.

## 1. Inventory

| part | source | state it keeps | operations | modelled in |
|---|---|---|---|---|
| HTTP client | `client.go`, `errors.go` | base URL, password, transport; no state between requests | `do`, `doChecked`, `getJSON`, `getRaw` | `Device`; its outcomes also in `AVISession`, `Keyboard` |
| Machine, configuration, drives, files, runners | `machine.go`, `configs.go`, `drives.go`, `files.go`, `runners.go` | none here, all of it in the device | one request a call | `Device` |
| Keyboard injection | `keyboard.go`, `c64/keyboard.go`, `c64/keys.go` | none here; the KERNAL's buffer, CIA #1 and jiffy clock over there | `Type`, `Press`, `feed` | `Keyboard` |
| Streams and AVI session | `streams.go`, `streams_avi.go` | sockets, pipes, context, mutex, sticky error, `closeOnce`, the frame buffer | `Video`, `Audio`, `AVISession`, `Close`, muxer | `AVISession`, `Recording`, `VideoFrames` |
| Debug service and decoders | `debug.go`, `c64/c64.go`, `c64/codec/codec.go` | none; registers and memory over there | `Screen`, `BASIC`, `ScreenMode`, `Charset`, `Sprites`, `Bitmap` | `DebugView`, `Codecs` |
| Raw DMA socket | `raw.go` | one TCP connection, no lock | `Dial`, `sendCommand`, `sendCommand24`, `Identify`, `Wait`, ... | `RawSocket` |
| Directory walker | `tools/c64ctl/dirwalker.go` | channel, WaitGroup, quit flag, shared results, a slice per worker | `WalkFiles`, `walkDirInline` | `DirWalker`, `Crawl` |
| Search index | `tools/c64ctl/index.go`, `cmd_find.go` | an index file, read in one piece | build, open, parallel `Find` | `SearchIndex` |
| FTP client | `tools/c64ctl/ftp_client.go`, `cmd_ftp.go` | a control connection, replies buffered | `cmd`, `pasv`, `List`, `Get`, `Put`, `Remove` | `FTPSession` |
| Disk image builder | `c64/d64.go` | the image: map, links, directory | `Build` | `DiskImage` |
| Assembler, disassembler | `c64/asm.go`, `opcodes.go`, `disasm.go` | labels, program counter, segments | two passes, a sweep | `Assembler`, `Opcodes` |
| Programs, tapes, cartridges | `c64/program.go`, `t64.go`, `crt.go` | none: parsers and builders; a boot routine that runs on the C64 | `ParseT64`, `NewRAMCartridge`, `NewRawCartridge` | `Images` |
| Commands | `tools/c64ctl/*.go` | flags | callers of the above | in part, in the modules above |
| Examples, end-to-end tests | `examples/`, `tests/` | | callers of the above | not modelled |

How they interact. Every service is a thin layer over the HTTP client, so a call
of the library is a sequence of requests, each of which may fail before or after
the device obeyed, with the C64 running in between. Video and audio do not come
over HTTP but as UDP packets: `AVISession` starts both streams with two requests,
binds two sockets and runs seven goroutines which meet in two pipes, one mutex
and one output. The DMA socket and FTP have a connection each, on which commands,
payloads and replies only stay in step by their order. The walker and the index search
are goroutine pools over the local file system; the index file is shared by processes. The image builders and the assembler are sequential and pure.

What is hard in it, and what makes each part correct:

- **Directory walker.** The workers are both the consumers and the producers of a
  bounded channel. It is correct if the WaitGroup counts exactly what is in flight
  (one too few: results are lost and a send on a closed channel panics; one too
  many: the walk never ends), each file is reported once, no batch is left behind,
  and the walk ends although the channel overflows, directories cannot be read and
  a callback stops it.
- **AVI session.** Starts, cancellation, `Close` (twice, from two goroutines), the
  failure of the output and the end of the caller's context can all happen in any
  order. It is correct if the file is an ordered, gapless interleaving of whole
  chunks, nobody writes after the output was closed, a failed start leaves nothing
  streaming, `Close` tells the truth, and in the end no goroutine and no port is held.
- **Keyboard.** The buffer is shared with an interrupt handler on another computer,
  the access is read-then-write in separate requests. It is correct if a text
  arrives in order, once, without gaps, and a key that is pressed is let go.
- **Disk image.** It is correct if the map agrees with the chains, the chains are
  whole and disjoint, and a drive that follows the links finds every file.
- **Raw socket, FTP.** Commands, lengths and replies on one connection must stay in step;
  what is reported as transferred must be; a command must not wait for anything that nobody owes it.
- **HTTP services.** A command of several requests that returns nil must have done all it is
  for, with refusals in the body of a success, answers that are lost and commands that failed before
  it; one that stops in the middle must leave nothing that spoils the next.
- **Debug service.** A picture is put together from several reads while the C64 runs; each
  part must be what the C64 showed when it was read.
- **Video frames.** A lost packet must not bring back a line of a picture that was handed on.
- **Assembler.** Pass 1 and pass 2 must agree on every address, mode and branch.
- **Images.** What is in a program, tape or cartridge must be in memory when it starts.
- **Index.** The parallel search must agree with a sequential one, and builds that meet in the
  file must leave one that can be used.

`PROJECT.json` lists the hazards one by one, at the line where they bite, with
the properties that watch them.

## 2. Modules

| module | what it is |
|---|---|
| `Crawl` | what `WalkFiles` promises: directories read one by one, then the list |
| `DirWalker` | the worker pool, one action per access to shared state |
| `Recording` | what the output of an AVI session is |
| `AVISession` | starts, receivers, watchers, copiers, muxer and `Close` |
| `Keyboard` | `Type`, `Press` and `feed` against the KERNAL |
| `VideoFrames` | the frame buffer of `Video` and lost packets |
| `RawSocket` | the DMA socket and the device that reads it |
| `FTPSession` | the FTP client, the loops of `ls`, `get`, `put`, `rm`, and a server |
| `SearchIndex` | building, opening and searching the index, several processes at once |
| `Device` | the calls over HTTP, the device they change, what their answers tell |
| `Codecs` | PETSCII, screen codes and ASCII |
| `DebugView` | the debug service, the decoders, and what the C64 shows |
| `DiskImage` | `buildDisk` |
| `Opcodes` | the instruction table by families, sizes, the sweep of `Disassemble` |
| `Assembler` | the two passes of `Assemble` |
| `Images` | programs, tapes, cartridges and the boot routine on the C64 |
| `MCDirWalker`, `MCAVISession`, `MCAVISessionEnds`, `MCKeyboard`, `MCAssembler`, `MCDiskImage` | instances of one part |
| `MCClients` | FTP, raw socket, HTTP, index, debug and video side by side |
| `MCBuilders` | disk image, assembler and program images side by side |
| `DirWalkerProofs` | proofs: types, the WaitGroup, no panic, no duplicates, completeness, refinement of `Crawl` |
| `AVISessionProofs` | proofs: types, whole chunks, nothing lost, `Close`, failed starts, refinement of `Recording` |
| `KeyboardProofs` | proofs: types, texts that arrive, no extra characters, registers put back |
| `DiskImageProofs` | proofs: types, the map, the chains, a directory of one sector |
| `ProgramProofs` | proofs about `Assembler` and `Images`: the two passes agree, the disassembler reads the image back, a program in a cartridge boots |
| `RawSocketProofs` | proofs: calls are obeyed, answers are one's own |
| `PictureProofs` | proofs about `VideoFrames` and `DebugView`: what a picture shows |
| `CommandProofs` | proofs about `FTPSession`, `Device` and `SearchIndex` |

`MCClients` and `MCBuilders` put together modules that share no state and no action: a
variable `part` says at the start which of them moves, so that each is checked with its
whole state space and none is multiplied by another.

A few definitions stand next to the one they vary, under a comment "Mutant of ...":
each is a bug the code could have had, and shows that the property it is listed
with in `PROJECT.json` notices it. No specification uses them.

### DirWalker (`tools/c64ctl/dirwalker.go`)

`dirs` is the channel, `wg` the WaitGroup, `quit` the flag under `quitMu`, `results`
the slice under `mu`, `local[w]` is `localResults`. The calling goroutine is at
`main` (seeding, sending a root, returned), a worker at `pc[w]`. `Take`, `Drain`,
`ReadTaken` and `FailTaken` are the head of the loop of lines 107-119;
`SkipEntry`, `PickDir` and `PickFile` the loop over the entries; `Offer` and
`ReadInline`/`FailInline` the two branches of the `select` (the second calls
`walkDirInline`, which does the same to the entries below); `Keep`, `Stop`, `Flush` and
`Done` the rest. `opened` and `failed` are history variables for the refinement.

Abstractions. The order of the entries of a directory is any order. The frames of
the inline recursion are kept as the set of their remaining entries, consumed before
those of the directory taken from the channel; since their order is free anyway, no
interleaving is lost. A node is an occurrence of a path below one root: nested roots
are two disjoint trees, as the code, which does not look for overlaps, treats them.
That a symbolic link is not followed makes the tree a tree.

### AVISession (`streams.go`, `streams_avi.go`)

For each kind, `recv`, `watch` and `copy` say where the receiver, its watcher and the
copier are; `conn`, `readerShut` and `writerShut` are the socket and the two ends of
the pipe. `mux` is the goroutine of lines 259-316 with its failure path, `mu` and
`merr` are the mutex and the sticky error of the muxer, `out` what the output was
given, `once`, `closer` and `verdict` the calls of `Close`. `parent` and `canceled` are
the two contexts. `device` says whether the device sends a stream; `misled` is a
history variable that remembers that, with a live context, the device did not stop a stream it was
asked to stop, or started one although the request failed. What a request fails of because the caller's context is over
is not excused by it: the cleanup of a failed start uses that context (lines 234, 243, 252), so that a
stream goes on when the context ends between the two. `FailedStartClean` names this exception, the only one;
no document says what the code promises there.

Abstractions. An item passes the pipe in one step (`io.Pipe` copies synchronously, so
that the receiver's buffer may be reused when `Write` returns). A chunk is two writes
of the output, which stand for the two to four of the code. The header is one write.
The assembly of a frame from packets and losses on the network come before `Receive`, in
`VideoFrames`.
The output is one that has a `Close`. The device sends nothing when the session is
started.

### Keyboard (`keyboard.go`)

`cells` and `ndx` are the KERNAL's buffer and its length, `ports` and `ddr` the registers
of CIA #1, `scanning` whether the interrupt that advances the jiffy clock runs. Every
request is an action: `PollEmpty`, `Fill`, `Count` are the three of `feed`; `Save`,
`Probe`, `DriveDDR`, `DrivePorts`, `Hold`, `Restore` those of `Press` (the four reads of
`Save` and the two of `Probe` are one step each). A request whose context is over is not sent
and fails; if `Faulty`, one may fail for another reason, or because its context ends under way, and then
may have been obeyed.
`GetIn`, `UserPresses` and `SwitchIRQ` are the C64, which is external: the KERNAL's GETIN
takes the first cell and moves the waiting ones up, its scan appends a key. What programs
receive is `Received`: what they have read and what waits in the buffer. `Delivered` speaks of
calls made one after the other (`Alone`) with texts in which no character occurs twice
(`Distinct`), so that each character tells where it is from; `Follows` then says that it comes
right behind the one before it in its text and behind nothing of a later call.

### DiskImage (`c64/d64.go`)

The map is `free` and `count`, `link` the first two bytes of every sector, `entry` the
directory entries by sector and slot. `PlaceFile` is one turn of the loop of
lines 274-310, `AddDirSector`, `LinkDir` and `WriteEntry` those of lines 330-367. The
geometry (tracks, sectors per track, bytes per sector, entries per sector) is a
parameter; D64 and D71 are two values of it. `WriteEntry` writes what the code writes:
the size goes behind the slot, and for the last slot behind the sector.

### VideoFrames (`streams.go` 109-153)

`currentFrame` is the buffer, a strip the lines of a packet; any packet can be lost, and
they come in order. A picture whose last packet is lost is not handed on and stays in the
buffer, under the next one: that is what the code does, and `FramesFresh` says how much
of it a reader can see.

### RawSocket (`raw.go`)

`wire` and `answers` are the two directions of the connection. A header is one unit and
so is each byte of a payload, which carries the number of its call. `WriteHeader` and
`WritePayload` are the two writes of `sendCommand` and `sendCommand24`; `Short` and `Wide`
stand for 2^16 and 2^24. The device (`Obey`, external) takes a header, then as many units
as it announces. Where it wants a header and meets a byte of a payload (`Stray`, `astray`), as it does
behind a length that was cut, it takes that for a command, may answer it, and from then on is promised to do
nothing right: `Obeyed` and `AnswersOwn` are about payloads that their length fields can count. `Close` may come
at any time; a call on a closed connection, which panics in the code, is an error here.

### FTPSession (`tools/c64ctl/ftp_client.go`, `cmd_ftp.go`)

`stage` is the reply or the data the client waits for, `todo` the jobs a command has left,
`stream` what has come through the data connection. `Greeting`, `Login`, `TypeSet` are
`newFTPClient`; `Passive`, `Opening`, `Receive` or `Upload`, `Completed` a transfer. A reply
is taken by whoever waits for one, as `readResponse` does. The server is external: it
listens on one port after each `PASV`, may refuse any command, break a transfer off, and
reply to its end before or after the client has seen it, and may fall silent at any point. File names are
values; what a pattern matches is a set.

### SearchIndex (`tools/c64ctl/index.go`, `cmd_find.go`)

The file is a sequence of cells (header, types, folders, offsets, pool). `Walk`, `Truncate`
and `Write` are `BuildIndexFile`: `os.WriteFile` empties the file and fills it in pieces, and
two builders write into the same file. Each has the files in an order of its own (`Orders`): the workers of
the walk race and nobody sorts what they find, so that the pieces of two builds can leave a mix
that is no build's index. `BuildsConverge` says what holds nevertheless. `Load` is `LoadIndex` with the checks of `OpenIndex`,
which look at the header and the tables, not at the pool. `Find` divides the entries among
`Workers` goroutines with `Chunk`, each searching for itself (`Local`), and puts the answers
together in their order; the goroutines share nothing they write, so one step stands for
all of them. A slice reaches behind the length of a file read into a larger buffer
(`Spare`); a search that meets half a file, or a mix, can answer wrongly or panic, which nothing in the code
prevents: `SearchExact` is about searches that have read a complete index.

### Device (`client.go`, `machine.go`, `configs.go`, `drives.go`, `files.go`, `runners.go`, `c64ctl`)

`device` is a record of what the device holds (settings in RAM and flash, disks, ROMs, CPU, program,
memory, the keyboard buffer and what was typed, ...); it is external, obeys one request at a time, and its
KERNAL reads the buffer at any moment (`TakeKeys`). `Script` is the sequence of requests of a `command`, with
`Route` for `c64ctl run` and `feed` for a text, in chunks of ten keys, each of them a poll and two writes.
`SendRequest`, `Evaluate` and `RequestFails` are `do` with what the callers make of its answer;
`Reject` the errors before a request. A refusal is a status or errors in the body of a success, which
`getJSON` and `parseConfigMap` look at and `getRaw` does not: a poll that is refused like that reads a byte that is
not zero and polls again, a read of memory returns the refusal as its contents, and `NilIsDone` says so.
A reset empties the keyboard buffer (the KERNAL does, as a part of the request that is obeyed). The type of a disk
image is not told apart from its name; it is a query parameter.

### DebugView and Codecs (`debug.go`, `c64/c64.go`, `c64/codec/codec.go`)

A call does its reads (`ReadCount`) one by one; `Turn`, a program on the C64, changes the
registers, or what is in memory, between any two. Texts, bitmaps, sprites and a BASIC program are drawn into
memory, in one of several ways at a time (`Drawing`). `got` is the moments of the reads, and each part of a picture
is compared with what was drawn, and what the registers were, at the moment of its own read. `TextShown`, `SpritesShown`, `BitmapShown` and `CharsetShown` say, from the
manual's view of the VIC and from what was drawn, what is on the screen; they use none
of the decoders. A printed text gets onto the screen through `bsout`, the conversion of the
KERNAL, which is external and not the one of the code (they differ in the at sign, see section 3). What is drawn does not overlap and can be
drawn, and a program is one that `LIST` shows (`Drawable`, assumed as `ViewAssumption`). Colors are their numbers,
BASIC tokens their codes.

### Opcodes and Assembler (`c64/asm.go`, `opcodes.go`, `disasm.go`)

A line is what `parseLine` and the tests before it make of its text, at most one label
included. An expression is a text that is looked up among the labels first and read as a
number only if there is none (lines 514-545): since a constant or a label may be named by a
numeral, the same literal can mean one thing before that line and another behind it.
`ShortModesHold`, which says that pass 2 never refuses the value of a zero page operand that
pass 1 found short, therefore excepts the texts that were made the name of a label (`Renamed`):
there the code can refuse. A data directive without items (`.byte` alone) has no items for pass 2 either, which
takes it for an instruction without a name; unused slots of the opcode table have that name, so that it emits a byte
pass 1 has not counted (lines 370 and 429, `DataBytes`). What follows it is refused as an overlap: `InPlace`
holds, since nothing is emitted at another address than its own. (The comment of `opcodes.go:3` calls the table one of
documented opcodes.) Each kind of line is an action of pass 1, with its errors; `Emit` is one turn of pass 2, with `Emission` for the
bytes. Addresses are taken modulo 2^16. Bytes are counted; operands of instructions are
kept. The check `inst.pc < emitPC` is an integer comparison of two wrapped numbers, as in the
code.

### Images (`c64/program.go`, `t64.go`, `crt.go`)

`OpenPRG`, `OpenT64`, `NewRAMCartridge` and `NewRawCartridge` are the library; `ColdStart`,
`CopyPages` and `CopyRest` the boot routine a cartridge carries, run on a memory with ROM over
RAM (`Peeked`): BASIC, the KERNAL and the registers lie where the C64 has them, so that a program
below a ROM is copied but not seen, and one among the registers is not copied. An entry in the zero page is refused,
because the assembler makes of `jmp` with such an address a mode that it does not have. Pages, banks and the memory
are scaled; `Fit` keeps the sizes the code lists.

## 3. Runs

| run | expected | checks | instance |
|---|---|---|---|
| `walk` | pass | `TypeOK` `CounterExact` `NoPanic` `NoDuplicate` `Complete` `ImplementsCrawl` `WalkReturns` | 2 workers, channel of 1, batches of 2, two roots, 5 directories, 5 files |
| `walk_stopped` | pass | `Complete` `SurvivorDrains` | the same tree, a callback that stops at two files |
| `walk_hangs` | violation | `NeverHangs` | the same |
| `record` | pass | `ChunksWhole` `NothingLost` `ImplementsRecording` | 2 frames, 2 packets, a call of `Close` at any time, one at the end |
| `record_ends` | pass | `CloseHonest` `FailedStartClean` `ReleasedInTheEnd` | two calls of `Close` and requests that fail; or 1 frame and 1 packet |
| `record_close` | violation | `CloseClosesConnections` | the same |
| `type` | pass | `TypeOK` `Delivered` `NothingExtra` `PressRestores` `CallsReturn` | Type, Press, Type in turn, or Type and Press together with a key of the user; requests fail |
| `press_cancelled` | violation | `PressReleases` | one Press |
| `disk_dir` | violation | `AllListed` | 4 tracks, 8 data sectors, up to 7 files |
| `basic_header` | violation | `HeaderTwelveBytes` | a header, an origin, a label |
| `builders` | pass | `TypeOK` `MapExact` `FilesReadable` `OneSectorListed` | the same disk, files of 3 lengths |
| | | `InPlace` `OperandsReach` `ShortModesHold` `ReadsBack` | every source of up to 3 of 31 lines |
| | | `Boots` | programs of up to 3 pages, under ROM and I/O too, archives, cartridges of 3 types |
| `clients` | pass | `InStep` `ReportsTrue` `CommandEnds` | one FTP command over 3 files |
| | | `Obeyed` `AnswersOwn` | 2 callers, 3 of 5 commands on the raw socket |
| | | `SearchExact` `BuildsConverge` | 2 processes, a collection that changes, every order, 4 searches |
| | | `RunTypes` `NilIsDone` | 2 of 38 commands |
| | | `PictureTrue` | 6 calls, 7 settings of the registers, 2 drawings, a change |
| | | `FramesFresh` | 4 pictures of 3 packets |

Why the bounds are enough. *Walker:* with one slot the channel is full as soon as a
directory waits, so both branches of the `select` are taken at every level, and the
calling goroutine blocks on the second root; two files fill a batch, so that flushes
happen within a directory, at its end and across directories; two workers are the
fewest of which one can die and the other drain. *Session:* with two items of each
kind a receiver can have the next one while the copier still writes the last, which is
all the room between socket and file. *Keyboard:* three characters and a buffer of two
need two chunks, of which the last is not full. *Disk:* the lengths end in, with and
behind a sector; seven files are more than the directory takes and can be more than the
disk takes, so both errors and both full images occur; one track is reserved.
*Assembler:* with three lines a label can be bound before, at and after its use, behind a
gap, a header or data, and the data puts a branch just within and just out of reach.
*Images:* no page, one, several, with and without a rest, below, at and above the
cartridge's ROM, below BASIC and the KERNAL, beside and among the registers. *FTP:* a pattern that matches two files makes a command of four
transfers, so that what one leaves behind meets the next. *Raw:* payloads of one byte less
than a field holds, and of one that is cut to nothing; three calls are the fewest in which a
stray unit can be taken for the header of a call that was made correctly after it. *Index:*
two writers and a reader that became one; writes are cut in the header, right before
the pool and within it (`Cuts`). *Device:* two commands, the first of which fails anywhere and leaves what it has
done to the second; texts of one full chunk and of two.
Callers of the raw socket and processes at the index are interchangeable: while they are in
like states `MCClients` lets only one of them move, which leaves out nothing but exchanged names
(`CommandEnds`, a liveness property, forbids `SYMMETRY`), and after an overlap, of which no
property says anything, it makes no further calls on the raw socket. *Debug:* one change, between any two reads of a call.

Fairness. `DirWalker` and `AVISession` assume weak fairness of every goroutine: Go
runs every goroutine that can run, and `ReadDir`, callbacks, requests and writes return.
Nothing is assumed of what the outside may never do: closing, cancelling, sending a
packet. In `AVISession` two scenes share the run `record_ends`: what the outside does is
restricted in each, what the goroutines do is not. `FtpFair` assumes that the client goes
on when it can and that a reset or lost connection is noticed (`ControlFails` is a step of the client), and nothing of
the server but its greeting: since no read has a deadline, `CommandEnds` says that every command ends unless
the server owes it a reply or the end of a transfer for ever. `Keyboard` assumes that calls go on when they can,
without the steps in which a request fails (a call that ends only because requests must fail some day is not counted
as one that ends), and nothing of programs, which may leave the buffer unread: `CallsReturn` says
that every call returns unless one polls for ever. Where the system stops, the
action `Over` stutters, so that TLC's deadlock check means a real one; the two runs with
a stopping callback switch it off, because the code does stop there.

### What the violations show

- `NeverHangs`. The header of `dirwalker.go` calls the walk deadlock-safe. The worker
  whose callback returns false leaves the pool (line 166). If it happens to every worker,
  the directories left in the channel are never accounted for and `wg.Wait` never
  returns. `SurvivorDrains` is what does hold. No caller in the repository sets
  `Callback` yet.
- `CloseClosesConnections`. `Close` is documented to close both connections; it cancels
  the context and returns without waiting for the watchers that close them.
- `PressReleases`. `Press` is documented to restore the registers; when its context
  ends in the hold (line 126), it does not.
- `AllListed`. The size of a directory entry is written two bytes too far. From nine
  files on, this destroys the link of the second directory sector; with 144 files, the
  link of sector 0 of track 19.
- `HeaderTwelveBytes`. The header of a program that starts at a five-digit address has
  thirteen bytes, pass 1 counts twelve. Code right behind it is then refused as an
  overlapping segment; behind a gap (as in the usual `* = $1000`, four digits) all is well.

One divergence has no run of its own. The comments of `codec.go` (229-230, 264-265) call the
conversion of screen codes to PETSCII the reverse of the KERNAL's; the at sign is screen code 0 and
PETSCII 64, but line 237 makes it PETSCII 0, and line 280 does not turn 64 into 0. `Screen.PETSCII` has
a zero where an at sign was printed, and `PictureTrue` says nothing about it there; the rows of the
screen, which are read by another table, are right.

## 4. Proofs

Eight modules of theorems, all of the form "for every value of the constants that satisfies
the assumption the model states". Of the 39 properties of the passing runs 33 are
proved and listed in `PROJECT.json`, with the type invariant of the session, which no run checks. Each
was checked by TLC first, and so was, on small instances, every invariant below that TLC can evaluate.

**DirWalker** (`DirWalkerProofs`), for every tree that satisfies `WalkTreeAssumption` (the
children of different directories are different, no root is a child; it may be infinite),
every finite pool and every positive channel capacity and batch size (`PoolAssumption`).

1. `TypeOKCorrect`, by the inductive invariant `TypeInv`: the type invariant and, for each
   goroutine, which of its variables are in use where (`CurShape`: a worker holds a node
   exactly where it deals with one; `RestShape` and `LocalShape`: it is idle with nothing
   left).
2. `CounterCorrect`: `CounterExact` is inductive together with `TypeInv`. Each worker carries
   a load of 0, 1 or 2; `LoadMove` says how the cardinalities change when one worker moves,
   `Balance` that the counter, the queue and the load move together.
3. `NoPanicCorrect`: the counter is a sum of naturals; once `WalkFiles` has returned
   it is zero (`Quiet`), so nothing is queued and nobody is offering.
4. `NoDuplicateCorrect` and `CompleteCorrect` rest on `Track`, which says where every
   node is: `Sound` (what is anywhere is due), `Apart` (no node is in two places),
   `Cover` (what is due is somewhere) and `Once` (the lists are injective). One
   lemma for each way a node moves (`Grab`, `Give`, `Pick`, `Drop`, `Settle`,
   `OpenDir`, `LetGo`) keeps the cases of the actions short. Completeness follows: when the
   counter is zero all places but `opened`, `failed` and `results` are empty.
5. `Refinement`: `Spec => ImplementsCrawl`. The mapping is the identity on `opened`
   and `failed`; the answer appears at the return. A read directory was due and not yet
   settled (`Track`), which is the guard of `Crawl!Visit`; the return is complete, or
   a callback vetoed (`StopsByVeto`).

**AVISession** (`AVISessionProofs`), for every number of items (`MaxItems`), every set of
callers of `Close`, and a device that may or may not be reliable (`SessionAssumption`).

1. `ChunksAreWhole`, by `MuxInv`: `Mutex` (a copier is inside a chunk exactly if it holds `m.mu`,
   and after the sticky error nobody does), `MuxOrder` (which copiers exist while the session's
   goroutine is where), and `Alternate` (in the output heads and bodies alternate, and only the
   last one can be a head that waits for its body). `ChunksWhole` alone is not inductive: it
   does not say who may append.
2. `NothingIsLost`, by `Ledger`: what a receiver got is what was written, plus the item in the
   copier's hands, plus the one in its own, until one of the two gives an item up.
3. `SessionImplementsRecording`: the abstract chunks are the bodies of the output. Writing
   a body appends the next chunk of its kind (`Ledger`), closing closes, everything else stutters.
4. `CloseIsHonest` and `FailedStartIsClean`, by `CloseOrder` (one caller does the work of
   `closeOnce`, how far it is tells which reader is shut and which stream is stopped) and
   `StartOrder` (how far a start or its cleanup is tells which stream is not sent). Both are about the streams that
   `misled` does not excuse; where the cleanup asks with a context that is over, `parent` says so, and the
   theorem claims nothing.

**Keyboard** (`KeyboardProofs`), for every finite set of calls, every text, every size of the
buffer and every number of keys the user presses (`KeyboardAssumption`).

1. `PressPutsBack`, by `Undone`: what the only `Press` has saved are registers at rest, and they
   are at rest wherever it has not driven them yet or has put them back.
2. `NoExtraKeys`, by `Paid`: what was read, what waits and what is still to feed are together
   no more than texts and keys. Counting what is still to feed makes the sum move by one step
   at a time; it is what `NothingExtra` lacks to be inductive.
3. `TextsArrive`, by `Underway`, assumed as `Undisturbed => Underway`: a call that writes found
   the buffer empty and it is its turn; what it writes is the head of what it has left; of a call
   that is not over exactly the characters sent have arrived and the last of them is the last
   of all; nothing of a call arrives before its turn. `GetInReceived` says that a program that
   reads a key does not change what has been received, `GrownReceived` that a new length only
   puts characters behind it, `UnderwayGrows` is the step that writes the length.

**DiskImage** (`DiskImageProofs`), for every geometry that fits the bytes of a link
(`DiskAssumption`) and every list of files.

1. `MapIsExact`: a sector is free if and only if it is not among `Taken` (header, directory, reserved
   tracks, the data sectors up to `nextData`), and the count of a track is the cardinality of
   its free sectors; `Data` enumerates the data sectors without repetition (`Before`).
2. `FilesAreReadable`: each placed file has a block of data sectors of its own, in order, behind those
   of the files before (`ChainAt`); what is written later, the size behind its slot included, does
   not touch a data sector as long as the directory has a free slot (`Roomy`). That a drive
   that follows the links visits exactly the block is a natural induction, done with the least
   counterexample (the library's theorems on well-founded orders need no operator for that).
3. `OneSectorIsListed`, by `Headed`: with no more files than a sector has entries the header
   links to the first directory sector and that one is the end.

**Assembler** (`ProgramProofs`), for every set of lines and every length of a source.
`LineAssumption` gives the fields of a line their types; that the bytes of the items of a data line are a
number, which is a sum over a sequence, is part of it, because the provers cannot
unfold a fold. The inductive invariant `Agree` says of every `parsedInst` that it is
well formed (`Placed`) and that what made its mode a short one still holds (`Short`), and
that while pass 2 runs, the address it is at is the start plus the bytes emitted. The
first three properties of the builder are its consequences: `AddressesAgree`, `OperandsAreReached`
and `ShortModesAreKept`. For `Short` the proof needs that a name, once bound, keeps its value, and that is how
the exception for numerals came to light: a literal is not bound when pass 1 looks at it and may
be when pass 2 does.

`ProgramsReadBack` says that `Disassemble` finds in a finished image without data and gaps exactly the
instructions that were assembled, by address and length: their modes and operands are not compared. `Sized` is the invariant: pass 2 emits as many bytes as pass 1
counted, which is one, two or three. Then the instructions lie one behind the other (`Consecutive`), the
sweep from one of them reaches the next (`SweepFinds`, by `InFront` nothing lies between), and by
induction on their number what is listed is the program (`Listed`). `SweepIs` unfolds the recursive function
of the sweep once.

**Images** (`ProgramProofs`), for every layout of the memory in whole pages in which the pointers of the
bootstrap lie below the ROMs and the registers between the banks of a 16K and of an Ultimax cartridge
(`LayoutAssumption`), every set of files and archives
(`FilesAssumption`), and reference values that say what the files hold (`WellNamed`). The
property itself is about programs that lie `Clear` of the pointers, the registers and the end of memory; below a
ROM the program is there but not seen.
`ProgramsBoot` rests on `BootInv`: the cartridge of a program is one chip with the program
behind the bootstrap (`Loaded`); while the two loops run, both pointers are as many pages behind their
start as are copied (`Pointing`), and what is copied has arrived (`Arrived`). The arithmetic is in a few lemmas:
`Unique` (page and rest determine an address), `PointsAt` and `PointsFurther` (the high byte of a pointer wraps),
`CopyByteIs` (one byte goes where the pointer says). A raw cartridge is a case by type and
bank (`RawShown`).

**RawSocket** (`RawSocketProofs`), for every set of callers, any number of calls of the methods
of `raw.go` (`RawAssumption`), as long as calls do not overlap and each payload is one its length field can
count, which is the precondition of both properties.

1. `CallsAreObeyed`: `Stream` says that the wire is made of the blocks of the calls not
   yet obeyed, header and whole payload, in order, of which only the last may be cut short, and
   then its caller is about to write the payload. Taking one block off the front leaves blocks (`Rest`).
2. `AnswersAreOwn`, by `Waiting`: an `Identify` on the wire is the last unit and its caller waits for
   the length; an answer is there only while a caller is at `length` or `title`. `Stream` is needed here too: the
   wire never begins with a byte of a payload, so that the device does not go astray (`Stray`) and answer what
   nobody asked.

**VideoFrames** (`PictureProofs`), for every number of strips and pictures
(`FramesAssumption`). `Buffer` is the strengthening: each line of the buffer is the newest of
the packets that came for it since the last picture that was handed on (`Candidates`).
Painting a packet and handing on a picture each change the candidates of every line in a way a
lemma states.

**DebugView** (`PictureProofs`), for every text, screen, bitmap, sprite and BASIC program of at most 4096 bytes
that lie apart in memory and can be drawn, every set of register settings, every set of drawings and any
number of changes of both (`ViewAssumption`). `PicturesAreTrue` says of each part of a picture that it is right for
the moment of its own read; that the moments are one is not promised. Its limits are those the property states: sprites
on the default screen, characters of the first bank outside its ROM, PETSCII but for the at sign.
The inductive invariant, `ViewInv`, is small: a call has one moment, of the settings and drawings there
are, for each of its reads (`Met`), and a picture is what these decode to (`Pictured`).
The rest is that the decoders invert what was drawn:

1. No address is in two regions (`OneRegion`), so what is drawn at an address is read
   back there (`TextMemory`, `BitmapMemory`, `SpriteMemory`, `ProgramMemory`).
2. `ProgramListed`: what follows a line in memory does not touch it (`LinesStay`); a line ends at its
   zero because no byte of a text is one (`LineEnds`); its atoms come back by induction over the line, with
   the quotes counted so far (`LineIs`); the links lead from line to line (`ListingExists` is an
   induction downwards, from the end of the 4096 bytes), and by induction over the lines the listing is the program.
3. `ScreenTrue`: a character that can be printed comes back in both character sets and, but for
   the at sign, as its PETSCII byte (`CharactersComeBack`); `SameBank` is the inversion of the
   bits of the port. `CodesComeBack` says of the codec for screen codes, whose way back no call of the
   service takes, that it loses no code but those of the last quarter of the table.
4. `CharsetTrue`: no two dots share a place on the sheet (`OwnPlace`).
5. `BitmapTrue`, `SpritesTrue`: the bits of a byte are its dots, one by one and in pairs (`ByteBits`,
   `BytePairs`), also when three bytes are shifted as one row (`RowBits`), and the byte of a dot is at its
   place in the bitmap or the sprite (`BitmapAt`, `SpriteAt`).

**FTPSession, Device, SearchIndex** (`CommandProofs`).

1. `StaysInStep`, for all jobs on any files (`JobsAssumption`): for each place the client can be at,
   which replies, commands and transfers can be under way.
2. `ReportsAreTrue`, for every command that names a file once (`NamedOnce`; a `get` that names one
   twice may report it, fail on it and remove it). After a transfer that was broken off the session is out
   of step by exactly one reply. `InShape` says what that can lead to: a job may take an older reply for its own and
   dial the port it names, but the server serves its `PASV` before its command and moves the port,
   so that such a job cannot transfer anything; whatever does transfer is in step (`Opened`, `Busy`,
   `Doomed`). `Kept` is the part about the files: what is reported is true and no job that is
   left will undo it.
3. `RunsType`, for every set of commands that are built as `Do` builds them (`CommandAssumption`), any number of
   them one after the other, and every other text: `Staged` says how far a run of a disk image is, by what has been
   obeyed (`Typed0`, `Typed1`, `Typed2`: nothing, one, two chunks are typed or wait in the buffer). The writes come after a poll that
   has seen the buffer empty and nobody else fills it, so that the KERNAL can only take what waits (`StageTaken`); an
   answer that is lost stops the command one stage further than it knows (`StageObeyed`). The reset is what
   makes it independent of the commands before.
4. `BuildsDoConverge`, for every set of processes, every collection and every way to cut the
   writes (`FindAssumption`): as long as no two builds write at once, what is in the file is the beginning of
   the one image that is being written, or all of the last one. When builds do collide, each
   with an order of its own, they agree on the header and none is shorter than its tables, and
   that is what remains (`Rewritten`).
5. `SearchesAreExact`, for every collection, order of the walk, query, limit and number of goroutines, of searches that
   have read a complete index. What is written is read back:
   the offsets and the pool of an image give each entry its path (`Layout`). The chunks of the goroutines
   are consecutive and cover the entries (`ChunksCover`), so their matches joined in order are those of
   one search of the whole (`SortedSplits`, `AllFound`). The comparison letter by letter, with its shortcut for
   the first one, is containment of the folded query (`ContainsIs`). `Told` is the invariant: an answer is
   what `Find` makes of the index that was read and of what was asked.

Recursive functions. The induction theorems of the library take an operator as parameter, which the
provers cannot instantiate. `Induction` is the same fact about a set of numbers, and
`Recursion` (a function given by its first value and a step exists) follows from it; with both, a recursive
function on an interval can be unfolded and reasoned about. RECURSIVE operators cannot.

Only model-checked, and why: the liveness properties (`WalkReturns`, `SurvivorDrains`,
`ReleasedInTheEnd`, `CallsReturn`, `CommandEnds`), because the prover has no ENABLED, so that fairness
cannot be used; and `NilIsDone`, of which every command has its own clause. Every other invariant and every
refinement the passing runs check is proved.

## 5. Plan

1. `DirWalker` with `Crawl`, checked and proved (done).
2. `AVISession` with `Recording`, `Keyboard`, `DiskImage`, checked and proved (done).
3. `RawSocket`, `VideoFrames`, `FTPSession`, `SearchIndex`, `Device`, `DebugView`,
   checked and proved (done).
4. `Assembler`, `Images`, checked and proved (done).
5. Left: the parts of section 6, none of which has state of its own that a step could spoil.

## 6. Not modelled

- The fields of the AVI header and an `Audio` or `Video` reader used without a session.
- The matrix positions of `c64/keys.go`, the numbers of the opcodes, the words of the BASIC
  tokens, the palette: tables of data without state.
- The text of a listing of the disassembler, of `HexDump` and `Dump`; the wording of errors.
- The bytes of cartridge and tape headers, disk names, file names.
- URLs, headers and passwords of requests; measurements, the debug register and version
  calls, which only read.
- Flag parsing, printing, path handling and shell completion of the commands.
- The examples and the end-to-end tests, which were read for how the library is used.
