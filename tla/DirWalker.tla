------------------------------ MODULE DirWalker ------------------------------
(***************************************************************************)
(* WalkFiles and walkDirInline of tools/c64ctl/dirwalker.go: the calling   *)
(* goroutine seeds a bounded channel with the roots and waits on a         *)
(* WaitGroup; a fixed pool of workers takes directories off the channel,   *)
(* reads them, offers their subdirectories to the channel (or descends     *)
(* into them inline when it is full), and collects matching files in a     *)
(* slice of its own that it appends to the shared results in batches.      *)
(*                                                                         *)
(* One step is one access to shared state: the channel, the WaitGroup, the *)
(* quit flag (quitMu) or the results (mu). The order of the entries of a   *)
(* directory is abstracted to any order, and the frames of the inline      *)
(* recursion to the set of their remaining entries: they are consumed      *)
(* before the entries of the directory the worker took from the channel.   *)
(***************************************************************************)
EXTENDS FiniteSets, Functions, Integers, Sequences

CONSTANTS
  Worker,    \* opts.Workers goroutines
  Dir, File, Root, Child, Hidden, Wanted,   \* the tree: see module Crawl
  Veto,      \* the files for which opts.Callback returns false ({} if it is nil)
  Capacity,  \* capacity of the dirs channel (4096)
  Batch,     \* files a worker collects before it flushes (4096)
  None       \* no node

Node == Dir \cup File

ASSUME PoolAssumption ==
  /\ IsFiniteSet(Worker)
  /\ Capacity \in Nat \ {0}
  /\ Batch \in Nat \ {0}
  /\ None \notin Node

ASSUME WalkTreeAssumption ==
  /\ Dir \cap File = {}
  /\ Root \subseteq Dir
  /\ Child \in [Dir -> SUBSET Node]
  /\ \A d, e \in Dir : d # e => Child[d] \cap Child[e] = {}
  /\ \A d \in Dir : Child[d] \cap Root = {}

VARIABLES
  dirs,      \* the channel
  wg,        \* the counter of the WaitGroup
  quit,      \* the stop flag
  results,   \* the shared slice of paths
  main,      \* where WalkFiles is: seeding or waiting, sending a root, returned
  seeds,     \* roots not yet seeded
  hold,      \* the root being sent
  pc,        \* where each worker is
  cur,       \* the directory or file a worker is dealing with
  rest,      \* entries left of the directory a worker took from the channel
  inl,       \* entries left of the directories it is reading inline
  local,     \* its localResults
  opened,    \* history: the directories read so far
  failed     \* history: the directories whose ReadDir failed

mainVars == <<main, seeds, hold>>
readVars == <<opened, failed>>
vars == <<dirs, wg, quit, results, main, seeds, hold,
          pc, cur, rest, inl, local, opened, failed>>

\* Worker locations that count as work in progress, for which wg holds one.
Working == {"taken", "loop", "offer", "file", "inlineFile",
            "batch", "flush", "lastFlush", "done", "lastDone"}

Location == Working \cup {"idle", "exited", "dead"}

TypeOK ==
  /\ dirs \in Seq(Dir)
  /\ Len(dirs) <= Capacity
  /\ wg \in Int
  /\ quit \in BOOLEAN
  /\ results \in Seq(File)
  /\ main \in {"seed", "send", "returned"}
  /\ seeds \subseteq Root
  /\ hold \in Root \cup {None}
  /\ pc \in [Worker -> Location]
  /\ cur \in [Worker -> Node \cup {None}]
  /\ rest \in [Worker -> SUBSET Node]
  /\ inl \in [Worker -> SUBSET Node]
  /\ local \in [Worker -> Seq(File)]
  /\ opened \subseteq Dir
  /\ failed \subseteq Dir

Init ==
  /\ dirs = <<>>
  /\ wg = 0
  /\ quit = FALSE
  /\ results = <<>>
  /\ main = "seed"
  /\ seeds = Root
  /\ hold = None
  /\ pc = [w \in Worker |-> "idle"]
  /\ cur = [w \in Worker |-> None]
  /\ rest = [w \in Worker |-> {}]
  /\ inl = [w \in Worker |-> {}]
  /\ local = [w \in Worker |-> <<>>]
  /\ opened = {}
  /\ failed = {}

-----------------------------------------------------------------------------
(* The calling goroutine.                                                  *)

\* wg.Add(1) for the next root.
AddRoot ==
  /\ main = "seed"
  /\ \E r \in seeds : seeds' = seeds \ {r} /\ hold' = r
  /\ wg' = wg + 1
  /\ main' = "send"
  /\ UNCHANGED <<dirs, quit, results, pc, cur, rest, inl, local, opened, failed>>

\* dirs <- root, which blocks while the channel is full.
SendRoot ==
  /\ main = "send"
  /\ Len(dirs) < Capacity
  /\ dirs' = Append(dirs, hold)
  /\ hold' = None
  /\ main' = "seed"
  /\ UNCHANGED <<wg, quit, results, seeds, pc, cur, rest, inl, local, opened, failed>>

\* Mutant of ReturnResults: the WaitGroup is not waited for.
ReturnEarly ==
  /\ main = "seed"
  /\ seeds = {}
  /\ main' = "returned"
  /\ UNCHANGED <<dirs, wg, quit, results, seeds, hold, pc, cur, rest, inl, local,
                 opened, failed>>

\* wg.Wait returns; close(dirs); return results.
ReturnResults ==
  /\ main = "seed"
  /\ seeds = {}
  /\ wg = 0
  /\ main' = "returned"
  /\ UNCHANGED <<dirs, wg, quit, results, seeds, hold, pc, cur, rest, inl, local,
                 opened, failed>>

Main == AddRoot \/ SendRoot \/ ReturnResults

-----------------------------------------------------------------------------
(* A worker.                                                               *)

\* for dir := range dirs
Take(w) ==
  /\ pc[w] = "idle"
  /\ dirs # <<>>
  /\ cur' = [cur EXCEPT ![w] = Head(dirs)]
  /\ dirs' = Tail(dirs)
  /\ pc' = [pc EXCEPT ![w] = "taken"]
  /\ UNCHANGED <<wg, quit, results, mainVars, rest, inl, local, readVars>>

\* The range ends when the channel is closed and empty.
Exit(w) ==
  /\ pc[w] = "idle"
  /\ main = "returned"
  /\ dirs = <<>>
  /\ pc' = [pc EXCEPT ![w] = "exited"]
  /\ UNCHANGED <<dirs, wg, quit, results, mainVars, cur, rest, inl, local, readVars>>

\* Mutant of Drain: wg.Done is forgotten.
DrainForgets(w) ==
  /\ pc[w] = "taken"
  /\ quit
  /\ cur' = [cur EXCEPT ![w] = None]
  /\ pc' = [pc EXCEPT ![w] = "idle"]
  /\ UNCHANGED <<dirs, wg, quit, results, mainVars, rest, inl, local, readVars>>

\* A directory taken after the stop is only accounted for.
Drain(w) ==
  /\ pc[w] = "taken"
  /\ quit
  /\ cur' = [cur EXCEPT ![w] = None]
  /\ pc' = [pc EXCEPT ![w] = "flush"]
  /\ UNCHANGED <<dirs, wg, quit, results, mainVars, rest, inl, local, readVars>>

\* ReadDir of a directory taken from the channel succeeds.
ReadTaken(w) ==
  /\ pc[w] = "taken"
  /\ ~quit
  /\ opened' = opened \cup {cur[w]}
  /\ rest' = [rest EXCEPT ![w] = Child[cur[w]]]
  /\ cur' = [cur EXCEPT ![w] = None]
  /\ pc' = [pc EXCEPT ![w] = "loop"]
  /\ UNCHANGED <<dirs, wg, quit, results, mainVars, inl, local, failed>>

\* Mutant of FailTaken: wg.Done is forgotten.
FailTakenForgets(w) ==
  /\ pc[w] = "taken"
  /\ ~quit
  /\ failed' = failed \cup {cur[w]}
  /\ cur' = [cur EXCEPT ![w] = None]
  /\ pc' = [pc EXCEPT ![w] = "idle"]
  /\ UNCHANGED <<dirs, wg, quit, results, mainVars, rest, inl, local, opened>>

\* ReadDir of a directory taken from the channel fails.
FailTaken(w) ==
  /\ pc[w] = "taken"
  /\ ~quit
  /\ failed' = failed \cup {cur[w]}
  /\ cur' = [cur EXCEPT ![w] = None]
  /\ pc' = [pc EXCEPT ![w] = "flush"]
  /\ UNCHANGED <<dirs, wg, quit, results, mainVars, rest, inl, local, opened>>

\* The entries the innermost running loop of w may turn to next.
Avail(w) == IF inl[w] # {} THEN inl[w] ELSE rest[w]

Remove(w, n) ==
  /\ rest' = [rest EXCEPT ![w] = @ \ {n}]
  /\ inl' = [inl EXCEPT ![w] = @ \ {n}]

\* A hidden entry, or a file whose extension is not asked for.
SkipEntry(w) ==
  /\ pc[w] = "loop"
  /\ ~quit
  /\ \E n \in Avail(w) :
       /\ n \in Hidden \/ n \in File \ Wanted
       /\ Remove(w, n)
  /\ UNCHANGED <<dirs, wg, quit, results, mainVars, pc, cur, local, readVars>>

\* Mutant of PickDir: wg.Add is forgotten.
PickDirUncounted(w) ==
  /\ pc[w] = "loop"
  /\ ~quit
  /\ \E n \in Avail(w) :
       /\ n \in Dir \ Hidden
       /\ Remove(w, n)
       /\ cur' = [cur EXCEPT ![w] = n]
  /\ pc' = [pc EXCEPT ![w] = "offer"]
  /\ UNCHANGED <<dirs, wg, quit, results, mainVars, local, readVars>>

\* A subdirectory: wg.Add(1) before it is offered.
PickDir(w) ==
  /\ pc[w] = "loop"
  /\ ~quit
  /\ \E n \in Avail(w) :
       /\ n \in Dir \ Hidden
       /\ Remove(w, n)
       /\ cur' = [cur EXCEPT ![w] = n]
  /\ wg' = wg + 1
  /\ pc' = [pc EXCEPT ![w] = "offer"]
  /\ UNCHANGED <<dirs, quit, results, mainVars, local, readVars>>

\* A matching file.
PickFile(w) ==
  /\ pc[w] = "loop"
  /\ ~quit
  /\ \E n \in Avail(w) :
       /\ n \in (File \cap Wanted) \ Hidden
       /\ Remove(w, n)
       /\ cur' = [cur EXCEPT ![w] = n]
  /\ pc' = [pc EXCEPT ![w] = IF inl[w] = {} THEN "file" ELSE "inlineFile"]
  /\ UNCHANGED <<dirs, wg, quit, results, mainVars, local, readVars>>

\* Mutant of Abandon: the worker does not flush.
AbandonUnflushed(w) ==
  /\ pc[w] = "loop"
  /\ quit
  /\ rest[w] \cup inl[w] # {}
  /\ rest' = [rest EXCEPT ![w] = {}]
  /\ inl' = [inl EXCEPT ![w] = {}]
  /\ pc' = [pc EXCEPT ![w] = "done"]
  /\ UNCHANGED <<dirs, wg, quit, results, mainVars, cur, local, readVars>>

\* Every running loop of w sees quit before its next entry.
Abandon(w) ==
  /\ pc[w] = "loop"
  /\ quit
  /\ rest[w] \cup inl[w] # {}
  /\ rest' = [rest EXCEPT ![w] = {}]
  /\ inl' = [inl EXCEPT ![w] = {}]
  /\ pc' = [pc EXCEPT ![w] = "flush"]
  /\ UNCHANGED <<dirs, wg, quit, results, mainVars, cur, local, readVars>>

\* Mutant of EndDir: the worker does not flush.
EndDirUnflushed(w) ==
  /\ pc[w] = "loop"
  /\ rest[w] \cup inl[w] = {}
  /\ pc' = [pc EXCEPT ![w] = "done"]
  /\ UNCHANGED <<dirs, wg, quit, results, mainVars, cur, rest, inl, local, readVars>>

EndDir(w) ==
  /\ pc[w] = "loop"
  /\ rest[w] \cup inl[w] = {}
  /\ pc' = [pc EXCEPT ![w] = "flush"]
  /\ UNCHANGED <<dirs, wg, quit, results, mainVars, cur, rest, inl, local, readVars>>

\* Mutant of Offer: the bound of the queue is ignored.
OfferPastCapacity(w) ==
  /\ pc[w] = "offer"
  /\ dirs' = Append(dirs, cur[w])
  /\ cur' = [cur EXCEPT ![w] = None]
  /\ pc' = [pc EXCEPT ![w] = "loop"]
  /\ UNCHANGED <<wg, quit, results, mainVars, rest, inl, local, readVars>>

\* case dirs <- fullPath
Offer(w) ==
  /\ pc[w] = "offer"
  /\ Len(dirs) < Capacity
  /\ dirs' = Append(dirs, cur[w])
  /\ cur' = [cur EXCEPT ![w] = None]
  /\ pc' = [pc EXCEPT ![w] = "loop"]
  /\ UNCHANGED <<wg, quit, results, mainVars, rest, inl, local, readVars>>

\* default: wg.Done and walkDirInline, whose ReadDir succeeds.
ReadInline(w) ==
  /\ pc[w] = "offer"
  /\ Len(dirs) = Capacity
  /\ wg' = wg - 1
  /\ opened' = opened \cup {cur[w]}
  /\ inl' = [inl EXCEPT ![w] = @ \cup Child[cur[w]]]
  /\ cur' = [cur EXCEPT ![w] = None]
  /\ pc' = [pc EXCEPT ![w] = "loop"]
  /\ UNCHANGED <<dirs, quit, results, mainVars, rest, local, failed>>

\* Mutant of FailInline: wg.Done is forgotten.
FailInlineForgets(w) ==
  /\ pc[w] = "offer"
  /\ Len(dirs) = Capacity
  /\ failed' = failed \cup {cur[w]}
  /\ cur' = [cur EXCEPT ![w] = None]
  /\ pc' = [pc EXCEPT ![w] = "loop"]
  /\ UNCHANGED <<dirs, wg, quit, results, mainVars, rest, inl, local, opened>>

\* default: wg.Done and walkDirInline, whose ReadDir fails.
FailInline(w) ==
  /\ pc[w] = "offer"
  /\ Len(dirs) = Capacity
  /\ wg' = wg - 1
  /\ failed' = failed \cup {cur[w]}
  /\ cur' = [cur EXCEPT ![w] = None]
  /\ pc' = [pc EXCEPT ![w] = "loop"]
  /\ UNCHANGED <<dirs, quit, results, mainVars, rest, inl, local, opened>>

\* No callback, or it returns true: localResults grows.
Keep(w) ==
  /\ pc[w] \in {"file", "inlineFile"}
  /\ cur[w] \notin Veto
  /\ local' = [local EXCEPT ![w] = Append(@, cur[w])]
  /\ cur' = [cur EXCEPT ![w] = None]
  /\ pc' = [pc EXCEPT ![w] = IF Len(local'[w]) >= Batch THEN "batch" ELSE "loop"]
  /\ UNCHANGED <<dirs, wg, quit, results, mainVars, rest, inl, readVars>>

\* Mutant of Stop: the worker ends without wg.Done.
StopForgets(w) ==
  /\ pc[w] \in {"file", "inlineFile"}
  /\ cur[w] \in Veto
  /\ quit' = TRUE
  /\ rest' = [rest EXCEPT ![w] = {}]
  /\ inl' = [inl EXCEPT ![w] = {}]
  /\ cur' = [cur EXCEPT ![w] = None]
  /\ pc' = [pc EXCEPT ![w] = IF @ = "file" THEN "dead" ELSE "flush"]
  /\ UNCHANGED <<dirs, wg, results, mainVars, local, readVars>>

\* The callback returns false. The loop over a directory from the channel ends
\* the worker; walkDirInline only returns, and its callers see quit.
Stop(w) ==
  /\ pc[w] \in {"file", "inlineFile"}
  /\ cur[w] \in Veto
  /\ quit' = TRUE
  /\ rest' = [rest EXCEPT ![w] = {}]
  /\ inl' = [inl EXCEPT ![w] = {}]
  /\ cur' = [cur EXCEPT ![w] = None]
  /\ pc' = [pc EXCEPT ![w] = IF @ = "file" THEN "lastFlush" ELSE "flush"]
  /\ UNCHANGED <<dirs, wg, results, mainVars, local, readVars>>

\* Mutant of Flush: the batch is not emptied.
FlushKeeps(w) ==
  /\ pc[w] \in {"batch", "flush", "lastFlush"}
  /\ results' = results \o local[w]
  /\ pc' = [pc EXCEPT ![w] = CASE @ = "batch" -> "loop"
                               [] @ = "flush" -> "done"
                               [] @ = "lastFlush" -> "lastDone"]
  /\ UNCHANGED <<dirs, wg, quit, mainVars, cur, rest, inl, local, readVars>>

\* flushLocal
Flush(w) ==
  /\ pc[w] \in {"batch", "flush", "lastFlush"}
  /\ results' = results \o local[w]
  /\ local' = [local EXCEPT ![w] = <<>>]
  /\ pc' = [pc EXCEPT ![w] = CASE @ = "batch" -> "loop"
                               [] @ = "flush" -> "done"
                               [] @ = "lastFlush" -> "lastDone"]
  /\ UNCHANGED <<dirs, wg, quit, mainVars, cur, rest, inl, readVars>>

\* wg.Done, then the next directory; or, after a stop, the end of the goroutine.
Done(w) ==
  /\ pc[w] \in {"done", "lastDone"}
  /\ wg' = wg - 1
  /\ pc' = [pc EXCEPT ![w] = IF @ = "done" THEN "idle" ELSE "dead"]
  /\ UNCHANGED <<dirs, quit, results, mainVars, cur, rest, inl, local, readVars>>

WorkerStep(w) ==
  \/ Take(w) \/ Exit(w) \/ Drain(w) \/ ReadTaken(w) \/ FailTaken(w)
  \/ SkipEntry(w) \/ PickDir(w) \/ PickFile(w) \/ Abandon(w) \/ EndDir(w)
  \/ Offer(w) \/ ReadInline(w) \/ FailInline(w)
  \/ Keep(w) \/ Stop(w) \/ Flush(w) \/ Done(w)

\* The walk is over when its caller has the results and every worker has ended.
Over ==
  /\ main = "returned"
  /\ \A w \in Worker : pc[w] \in {"exited", "dead"}
  /\ UNCHANGED vars

Next == Main \/ (\E w \in Worker : WorkerStep(w)) \/ Over

Spec == Init /\ [][Next]_vars

\* The Go scheduler runs every goroutine that can run, and ReadDir and the
\* callback return.
FairSpec == Spec /\ WF_vars(Main) /\ \A w \in Worker : WF_vars(WorkerStep(w))

-----------------------------------------------------------------------------
(* Properties.                                                             *)

Returned == main = "returned"
Busy == {w \in Worker : pc[w] \in Working}
Offering == {w \in Worker : pc[w] = "offer"}

\* The WaitGroup counts exactly the directories in flight: the queued ones, the
\* ones a worker is in, the subdirectories being offered and the root being
\* sent. One too few and WalkFiles returns before the walk is over; one too many
\* and it never returns (wg.Add and wg.Done, lines 110-188 and 232-236).
CounterExact ==
  wg = Len(dirs) + Cardinality(Busy) + Cardinality(Offering)
       + (IF main = "send" THEN 1 ELSE 0)

\* No run-time panic: the WaitGroup counter never goes below zero and nobody is
\* about to send on the closed channel (lines 136, 193 and 234).
NoPanic ==
  /\ wg >= 0
  /\ Returned => dirs = <<>> /\ Offering = {}

\* No file is reported twice, whichever workers read its directory and its
\* ancestors, and however the batches are flushed (lines 98-105 and 170-173).
NoDuplicate ==
  /\ IsInjective(results)
  /\ \A w \in Worker :
       /\ IsInjective(local[w])
       /\ Range(local[w]) \cap Range(results) = {}
       /\ \A v \in Worker \ {w} : Range(local[w]) \cap Range(local[v]) = {}

C == INSTANCE Crawl WITH
       MayStop <- Veto # {},
       returned <- Returned,
       answer <- IF Returned THEN results ELSE <<>>

\* When WalkFiles returns, nothing a worker collected is still in its own slice
\* (flushLocal runs before wg.Done on every path, lines 109, 115, 164 and 176),
\* and unless a callback stopped it, it has read every reachable directory and
\* reports exactly the matching files of those that could be read.
Complete ==
  Returned => /\ \A w \in Worker : local[w] = <<>>
              /\ ~quit => /\ C!Due(opened) \cap Dir = opened \cup failed
                          /\ C!Due(opened) \cap File = Range(results)

\* The pool implements the one-directory-at-a-time walk of module Crawl: every
\* directory is read at most once, only after its parent, and the returned list
\* is never touched after the return.
ImplementsCrawl == C!Spec

\* Without a callback that stops it, WalkFiles returns, and its workers end.
WalkReturns == <>(Returned /\ \A w \in Worker : pc[w] = "exited")

\* The header's claim of a deadlock-safe walk (lines 11-13): WalkFiles returns,
\* whatever the callback says.
NeverHangs == <>Returned

\* What does hold when a callback stops the walk: it hangs only if every worker
\* of the pool has died (line 166); a single survivor drains the channel.
SurvivorDrains == <>(Returned \/ \A w \in Worker : pc[w] = "dead")
==============================================================================
