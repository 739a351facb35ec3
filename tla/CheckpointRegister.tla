------------------------- MODULE CheckpointRegister -------------------------
(***************************************************************************)
(* What a checkpoint directory promises: it holds at most one readable     *)
(* checkpoint, always one that some save offered as a whole.  The readable *)
(* one changes only while a save runs, and is the save's own when the save *)
(* returns.  A save that dies leaves what there is.                        *)
(***************************************************************************)
CONSTANT None

VARIABLES
  offered,   \* every checkpoint a save has begun to write
  pending,   \* the checkpoint being saved, or None
  readable   \* the checkpoint a reader of its lineage gets, or None

vars == <<offered, pending, readable>>

RegisterInit == offered = {} /\ pending = None /\ readable = None

Begin ==
  /\ pending = None /\ pending' # None
  /\ offered' = offered \cup {pending'}
  /\ UNCHANGED readable

\* In the middle of a save nothing may be readable, or something offered.
Disturb ==
  /\ pending # None /\ UNCHANGED <<offered, pending>>
  /\ readable' \in offered \cup {None}

Return ==
  /\ pending # None /\ pending' = None
  /\ readable' = pending
  /\ UNCHANGED offered

Die ==
  /\ pending # None /\ pending' = None
  /\ UNCHANGED <<offered, readable>>

RegisterSpec == RegisterInit /\ [][Begin \/ Disturb \/ Return \/ Die]_vars
=============================================================================
