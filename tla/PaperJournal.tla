---------------------------- MODULE PaperJournal ----------------------------
(***************************************************************************)
(* What the paper store promises to whoever reads it later: every run is   *)
(* the journal of one book.  The stored book only moves forward, a row of  *)
(* the audit tells the book that was stored when it was written, and a run *)
(* that another one has followed is never touched again.                   *)
(***************************************************************************)
EXTENDS Sequences, Naturals

CONSTANT None

VARIABLE runs   \* the stored runs, oldest first: the book and the audit of each

Latest == Len(runs)

JournalInit == runs = <<>>

Open == runs' = Append(runs, [book |-> None, audit |-> <<>>])

\* The stored book is replaced by a later state of the same book.
Save ==
  LET old == runs[Latest].book
      new == runs'[Latest].book
  IN  /\ runs # <<>>
      /\ runs' = [runs EXCEPT ![Latest].book = new]
      /\ old # None => new.load = old.load /\ new.version >= old.version

\* One row more, which tells the book that is stored.
Record ==
  LET stored == runs[Latest].book
  IN  /\ runs # <<>>
      /\ stored # None
      /\ runs' = [runs EXCEPT ![Latest].audit = Append(@, stored.version)]

JournalSpec == JournalInit /\ [][Open \/ Save \/ Record]_runs
=============================================================================
