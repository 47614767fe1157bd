-------------------------------- MODULE Crawl --------------------------------
(***************************************************************************)
(* What WalkFiles (tools/c64ctl/dirwalker.go) promises its caller, without *)
(* workers, channel, counter or batches: the directories reachable from    *)
(* the roots are read one by one, each at most once, and when none is left *)
(* the wanted files of the directories that could be read are returned,    *)
(* each listed once, in no particular order.                               *)
(*                                                                         *)
(* A node stands for one occurrence of a path below one root, so nested    *)
(* roots are two disjoint trees here: the code lists such a path twice.    *)
(***************************************************************************)
EXTENDS Functions, Naturals, Sequences

CONSTANTS
  Dir,       \* directories
  File,      \* every entry that is not a directory (symbolic links included)
  Root,      \* the roots that exist, made absolute and without repetition
  Child,     \* Child[d] is the set of entries of d
  Hidden,    \* the entries whose name starts with "." (empty if IncludeHidden)
  Wanted,    \* the files whose extension passes the filter
  MayStop    \* whether the caller's callback may end the walk early

Node == Dir \cup File

\* The entries of a directory that the walk descends into or reports.
Relevant(d) == {n \in Child[d] \ Hidden : n \in File => n \in Wanted}

VARIABLES
  opened,    \* directories read so far
  failed,    \* directories whose ReadDir failed
  returned,  \* has WalkFiles returned?
  answer     \* the list it returned

vars == <<opened, failed, returned, answer>>

\* Everything the walk has come to know of and must read or report.
Due(op) == Root \cup UNION {Relevant(d) : d \in op}

Frontier == (Due(opened) \cap Dir) \ (opened \cup failed)

Found == Due(opened) \cap File

Init ==
  /\ opened = {}
  /\ failed = {}
  /\ returned = FALSE
  /\ answer = <<>>

Visit(d) ==
  /\ ~returned
  /\ d \in Frontier
  /\ \/ opened' = opened \cup {d} /\ UNCHANGED failed
     \/ failed' = failed \cup {d} /\ UNCHANGED opened
  /\ UNCHANGED <<returned, answer>>

Return ==
  /\ ~returned
  /\ returned' = TRUE
  /\ IsInjective(answer')
  /\ \/ Frontier = {} /\ Range(answer') = Found
     \/ MayStop /\ Range(answer') \subseteq Found
  /\ UNCHANGED <<opened, failed>>

Next == (\E d \in Dir : Visit(d)) \/ Return

Spec == Init /\ [][Next]_vars
==============================================================================
