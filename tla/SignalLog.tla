------------------------------ MODULE SignalLog ------------------------------
(***************************************************************************)
(* What the dispatcher promises, without its queue, batch or goroutine:    *)
(* accepted signals form one log, every output reads that log from its     *)
(* beginning, in order, without a gap and without repetition, at most      *)
(* Chunk signals at a time; outputs advance in lockstep (no output is more *)
(* than Chunk ahead of another) and the log is never more than Backlog     *)
(* ahead of any of them.                                                   *)
(***************************************************************************)
EXTENDS Naturals, Sequences

CONSTANTS
  Item,      \* what is logged: the signals
  Readers,   \* the outputs
  Chunk,     \* the most one read delivers
  Backlog    \* the most the log may be ahead of a reader

VARIABLES
  log,       \* every accepted item, oldest first
  read       \* read[r]: what reader r has been handed so far

vars == <<log, read>>

TypeOK ==
  /\ log \in Seq(Item)
  /\ read \in [Readers -> Seq(Item)]

Init ==
  /\ log = <<>>
  /\ read = [r \in Readers |-> <<>>]

Accept(i) ==
  /\ \A r \in Readers : Len(log) - Len(read[r]) < Backlog
  /\ log' = Append(log, i)
  /\ UNCHANGED read

Read(r) ==
  \E n \in 1..Chunk :
    LET upto == Len(read[r]) + n IN
    /\ upto <= Len(log)
    /\ \A q \in Readers : upto <= Len(read[q]) + Chunk
    /\ read' = [read EXCEPT ![r] = SubSeq(log, 1, upto)]
    /\ UNCHANGED log

Next ==
  \/ \E i \in Item : Accept(i)
  \/ \E r \in Readers : Read(r)

Spec == Init /\ [][Next]_vars
=============================================================================
