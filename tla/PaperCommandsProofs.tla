------------------------- MODULE PaperCommandsProofs -------------------------
(***************************************************************************)
(* The stored runs are journals: proofs about PaperCommands for any keys   *)
(* and bounds.                                                             *)
(***************************************************************************)
EXTENDS PaperCommands, Integers, TLAPS

\* The running command is not in the table, and where it stands tells what the
\* store has: the run before the book, the book before its row and its event.
HandlerOK ==
  handler # None =>
    /\ handler.key \notin table
    /\ handler.step = "create" => run = 0
    /\ handler.step \in {"save", "audit"} => run # 0
    /\ handler.left > 0 => run # 0
    /\ (run # 0 /\ (handler.step = "audit" \/ (handler.step = "emit" /\ handler.audited)))
         => runs[run].book = book

\* The session writes to the latest run, whose stored book is an earlier state
\* of the book in memory.
RunOK ==
  run # 0 =>
    /\ run = Len(runs)
    /\ runs[run].book # None =>
         /\ runs[run].book.load = book.load
         /\ runs[run].book.version <= book.version

\* A key counts as answered only while it is in the table.
KeysOK == \A k \in Keys : answered[k] <= IF k \in table THEN 1 ELSE 0

CInv == /\ CommandsTypeOK
        /\ HandlerOK
        /\ RunOK
        /\ KeysOK
        /\ AcknowledgedIsStored
-----------------------------------------------------------------------------
(* The store *)

\* What each transaction commits.
LEMMA CommittedCreate ==
  ASSUME At("create")
  PROVE  Committed = Append(runs, [book |-> None, audit |-> <<>>])
BY DEF At, Committed

LEMMA CommittedSave ==
  ASSUME At("save")
  PROVE  Committed = [runs EXCEPT ![run].book = book]
BY DEF At, Committed

LEMMA CommittedAudit ==
  ASSUME At("audit")
  PROVE  Committed = [runs EXCEPT ![run].audit = Append(@, book.version)]
BY DEF At, Committed

\* A new run leaves the others as they are.
LEMMA RunAdded ==
  ASSUME CInv, At("create"), runs' = Committed
  PROVE  /\ runs' \in Seq(Run)
         /\ Len(runs') = Len(runs) + 1
         /\ \A r \in 1 .. Len(runs) : runs'[r] = runs[r]
         /\ runs'[Len(runs) + 1] = [book |-> None, audit |-> <<>>]
         /\ Len(runs) \in Nat
<1>1. [book |-> None, audit |-> <<>>] \in Run
  BY DEF Run
<1>2. runs \in Seq(Run)
  BY DEF CInv, CommandsTypeOK
<1>3. runs' = Append(runs, [book |-> None, audit |-> <<>>])
  BY CommittedCreate
<1> HIDE DEF Run
<1> QED BY <1>1, <1>2, <1>3

\* A saved book is the book of its run, whose audit stays.
LEMMA BookSaved ==
  ASSUME CInv, At("save"), runs' = Committed
  PROVE  /\ runs' \in Seq(Run)
         /\ Len(runs') = Len(runs)
         /\ run \in 1 .. Len(runs)
         /\ \A r \in 1 .. Len(runs) : r # run => runs'[r] = runs[r]
         /\ runs'[run] = [runs[run] EXCEPT !.book = book]
         /\ runs'[run].book = book
<1>1. runs \in Seq(Run) /\ book \in Book /\ run \in 0 .. Len(runs) /\ Len(runs) \in Nat
  BY DEF CInv, CommandsTypeOK
<1>2. run \in 1 .. Len(runs)
  BY <1>1 DEF CInv, HandlerOK, At
<1>3. runs[run] \in Run
  BY <1>1, <1>2
<1>4. /\ [runs[run] EXCEPT !.book = book] \in Run
      /\ [runs[run] EXCEPT !.book = book].book = book
  BY <1>1, <1>3 DEF Run
<1>5. runs' = [runs EXCEPT ![run] = [runs[run] EXCEPT !.book = book]]
  BY CommittedSave
<1> HIDE DEF Run
<1> QED BY <1>1, <1>2, <1>4, <1>5

\* A row is appended to the audit of the run, whose book stays.
LEMMA RowAdded ==
  ASSUME CInv, At("audit"), runs' = Committed
  PROVE  /\ runs' \in Seq(Run)
         /\ Len(runs') = Len(runs)
         /\ run \in 1 .. Len(runs)
         /\ \A r \in 1 .. Len(runs) : r # run => runs'[r] = runs[r]
         /\ runs'[run].book = runs[run].book
<1>1. runs \in Seq(Run) /\ book \in Book /\ run \in 0 .. Len(runs) /\ Len(runs) \in Nat
  BY DEF CInv, CommandsTypeOK
<1>2. run \in 1 .. Len(runs)
  BY <1>1 DEF CInv, HandlerOK, At
<1>3. runs[run] \in Run /\ book.version \in Nat
  BY <1>1, <1>2 DEF Book
<1> DEFINE next == [runs[run] EXCEPT !.audit = Append(runs[run].audit, book.version)]
<1>4. next \in Run /\ next.book = runs[run].book
  <2>1. runs[run].audit \in Seq(Nat) /\ runs[run].book \in Book \cup {None}
    BY <1>3 DEF Run
  <2>2. Append(runs[run].audit, book.version) \in Seq(Nat)
    BY <1>3, <2>1
  <2>3. \A a : [runs[run] EXCEPT !.audit = a] = [book |-> runs[run].book, audit |-> a]
    BY <1>3 DEF Run
  <2> QED BY <2>1, <2>2, <2>3 DEF Run
<1>5. runs' = [runs EXCEPT ![run] = next]
  BY CommittedAudit
<1> HIDE DEF Run, next
<1> QED BY <1>1, <1>2, <1>4, <1>5

\* Whichever transaction is committed, the runs stay runs, none is lost, and a
\* stored book never goes back.
LEMMA StoreMovesForward ==
  ASSUME CInv, handler # None, handler.step # "emit", runs' = Committed
  PROVE  /\ runs' \in Seq(Run)
         /\ Len(runs') >= Len(runs)
         /\ Len(runs) \in Nat /\ Len(runs') \in Nat
         /\ \A r \in 1 .. Len(runs) : runs[r].book # None =>
              /\ runs'[r].book # None
              /\ runs'[r].book.version >= runs[r].book.version
<1>1. handler.step \in {"create", "save", "audit"}
  BY DEF CInv, CommandsTypeOK, Handler
<1>2. /\ runs \in Seq(Run) /\ Len(runs) \in Nat /\ book \in Book
      /\ \A r \in 1 .. Len(runs) : runs[r] \in Run
  BY DEF CInv, CommandsTypeOK
<1>3. \A r \in 1 .. Len(runs) : runs[r].book # None => runs[r].book.version \in Nat
  BY <1>2 DEF Run, Book
<1>4. CASE At("create")
  BY <1>2, <1>3, <1>4, RunAdded
<1>5. CASE At("save")
  <2>1. /\ runs' \in Seq(Run) /\ Len(runs') = Len(runs) /\ run \in 1 .. Len(runs)
        /\ \A r \in 1 .. Len(runs) : r # run => runs'[r] = runs[r]
        /\ runs'[run].book = book
    BY <1>5, BookSaved
  <2>2. book # None
    BY <1>2, CommandsAssumption
  <2>3. runs[run].book # None => book.version >= runs[run].book.version
    BY <1>2, <1>3, <2>1 DEF CInv, RunOK, Book
  <2> QED BY <1>2, <1>3, <2>1, <2>2, <2>3
<1>6. CASE At("audit")
  BY <1>2, <1>3, <1>6, RowAdded
<1> QED BY <1>1, <1>4, <1>5, <1>6 DEF At
\* So what was acknowledged stays in the store.
LEMMA StoreStaysAhead ==
  ASSUME CInv, handler # None, handler.step # "emit", runs' = Committed, acked' = acked
  PROVE  AcknowledgedIsStored'
<1> SUFFICES ASSUME acked # None
             PROVE  /\ runs'[acked.run].book # None
                    /\ runs'[acked.run].book.version >= acked.version
  BY DEF AcknowledgedIsStored
<1>1. acked.run \in 1 .. Len(runs) /\ acked.version \in Nat
  BY DEF CInv, CommandsTypeOK
<1>2. runs[acked.run].book # None /\ runs[acked.run].book.version >= acked.version
  BY DEF CInv, AcknowledgedIsStored
<1>3. /\ runs'[acked.run].book # None
      /\ runs'[acked.run].book.version >= runs[acked.run].book.version
  BY <1>1, <1>2, StoreMovesForward
<1>4. /\ runs' \in Seq(Run) /\ runs \in Seq(Run) /\ Len(runs) \in Nat
      /\ Len(runs') \in Nat /\ Len(runs') >= Len(runs)
  BY StoreMovesForward DEF CInv, CommandsTypeOK
<1>5. runs[acked.run] \in Run /\ runs'[acked.run] \in Run
  BY <1>1, <1>4
<1>6. runs[acked.run].book.version \in Nat /\ runs'[acked.run].book.version \in Nat
  BY <1>2, <1>3, <1>5 DEF Run, Book
<1> QED BY <1>1, <1>2, <1>3, <1>6
-----------------------------------------------------------------------------
(* The invariant holds at first *)

LEMMA CInvInit == Init => CInv
<1> SUFFICES ASSUME Init PROVE CInv
  OBVIOUS
<1>1. table = {} /\ run = 0 /\ handler = None /\ acked = None
  BY Zenon DEF Init
<1>2. book = [load |-> 0, version |-> 0] /\ events = <<>> /\ runs = <<>>
      /\ answered = [k \in Keys |-> 0]
  BY Zenon DEF Init
<1>3. CommandsTypeOK
  <2>1. book \in Book /\ events \in Seq(Event) /\ runs \in Seq(Run)
    BY <1>2 DEF Book
  <2>2. run \in 0 .. Len(runs)
    BY <1>1, <1>2
  <2>3. answered \in [Keys -> Nat]
    BY <1>2
  <2> QED BY <1>1, <2>1, <2>2, <2>3, Zenon DEF CommandsTypeOK
<1>4. HandlerOK /\ RunOK /\ AcknowledgedIsStored
  BY <1>1, Zenon DEF HandlerOK, RunOK, AcknowledgedIsStored
<1>5. KeysOK
  <2> SUFFICES ASSUME NEW k \in Keys
               PROVE  answered[k] <= IF k \in table THEN 1 ELSE 0
    BY Zenon DEF KeysOK
  <2>1. answered[k] = 0
    BY <1>2, Zenon
  <2>2. (IF k \in table THEN 1 ELSE 0) \in {0, 1}
    OBVIOUS
  <2> QED BY <2>1, <2>2
<1> QED BY <1>3, <1>4, <1>5 DEF CInv

(***************************************************************************)
(* Steps that leave the store alone                                        *)
(***************************************************************************)

\* A command that begins has its own key, and its first step fits the run.
LEMMA BeginKeeps ==
  ASSUME CInv, NEW d \in 0 .. 1, book' = [book EXCEPT !.version = @ + d],
         handler' \in Handler, handler'.key \notin table,
         \/ handler'.step = "save" /\ run # 0
         \/ handler'.step = "emit" /\ (~handler'.audited \/ run = 0),
         handler'.left > 0 => run # 0,
         UNCHANGED <<table, run, events, runs, answered, acked>>
  PROVE  CInv'
<1>1. CommandsTypeOK
  BY DEF CInv
<1>3. /\ book' \in Book /\ book'.load = book.load
      /\ book'.version >= book.version /\ book.version \in Nat /\ book'.version \in Nat
  BY <1>1 DEF CommandsTypeOK, Book
<1>4. CommandsTypeOK'
  BY <1>1, <1>3 DEF CommandsTypeOK
<1>5. HandlerOK'
  BY DEF HandlerOK
<1>6. RunOK'
  <2>1. run # 0 => run \in 1 .. Len(runs) /\ runs[run] \in Run
    BY <1>1 DEF CommandsTypeOK
  <2>2. run # 0 /\ runs[run].book # None => runs[run].book.version \in Nat
    BY <2>1 DEF Run, Book
  <2> QED BY <1>3, <2>1, <2>2 DEF CInv, RunOK
<1>7. KeysOK' /\ AcknowledgedIsStored'
  BY DEF CInv, KeysOK, AcknowledgedIsStored
<1> QED BY <1>4, <1>5, <1>6, <1>7 DEF CInv

\* A new book, an empty stream and no run, whatever becomes of the handler.
LEMMA ResetKeeps ==
  ASSUME CInv, book' = [load |-> book.load + 1, version |-> 0], events' = <<>>, run' = 0,
         handler' \in Handler \cup {None},
         handler' # None => /\ handler'.key \notin table'
                            /\ handler'.step = "create" /\ handler'.left = 0,
         \/ table' = table /\ answered' = answered
         \/ table' = {} /\ answered' = [k \in Keys |-> 0],
         UNCHANGED <<runs, acked>>
  PROVE  CInv'
<1>1. CommandsTypeOK
  BY DEF CInv
<1>2. book' \in Book
  BY <1>1 DEF CommandsTypeOK, Book
<1>3. events' \in Seq(Event) /\ run' \in 0 .. Len(runs')
  BY <1>1 DEF CommandsTypeOK
<1>4. table' \subseteq Keys /\ answered' \in [Keys -> Nat]
  BY <1>1 DEF CommandsTypeOK
<1>5. CommandsTypeOK'
  BY <1>1, <1>2, <1>3, <1>4 DEF CommandsTypeOK
<1>6. HandlerOK' /\ RunOK'
  BY DEF HandlerOK, RunOK
<1>7. KeysOK'
  BY DEF CInv, KeysOK
<1>8. AcknowledgedIsStored'
  BY DEF CInv, AcknowledgedIsStored
<1> QED BY <1>5, <1>6, <1>7, <1>8 DEF CInv

(***************************************************************************)
(* Steps that write to the store                                           *)
(***************************************************************************)

LEMMA CreateRunKeeps == CInv /\ CreateRun => CInv'
<1> SUFFICES ASSUME CInv, CreateRun PROVE CInv'
  OBVIOUS
<1>1. CommandsTypeOK
  BY DEF CInv
<1>2. /\ At("create") /\ runs' = Committed /\ run' = Len(runs')
      /\ handler' = [handler EXCEPT !.step = "save"]
      /\ table' = table /\ book' = book /\ events' = events
      /\ answered' = answered /\ acked' = acked
  BY DEF CreateRun
<1>3. /\ runs' \in Seq(Run) /\ Len(runs') = Len(runs) + 1 /\ Len(runs) \in Nat
      /\ \A r \in 1 .. Len(runs) : runs'[r] = runs[r]
      /\ runs'[run'].book = None
  BY <1>2, RunAdded
<1>4. /\ handler \in Handler /\ handler.step = "create"
  BY <1>1, <1>2 DEF At, CommandsTypeOK
<1>5. /\ handler' \in Handler /\ handler'.step = "save"
      /\ handler'.key = handler.key /\ handler'.left = handler.left
  BY <1>2, <1>4 DEF Handler
<1>6. acked \in [run : 1 .. Len(runs), version : Nat] \cup {None}
  BY <1>1 DEF CommandsTypeOK
<1>7. acked' \in [run : 1 .. Len(runs'), version : Nat] \cup {None}
  BY <1>2, <1>3, <1>6
<1>8. CommandsTypeOK'
  BY <1>1, <1>2, <1>3, <1>5, <1>7 DEF CommandsTypeOK
<1>9. HandlerOK'
  <2>1. handler.key \notin table
    BY <1>2 DEF CInv, HandlerOK, At
  <2>2. run' # 0
    BY <1>2, <1>3
  <2> QED BY <1>2, <1>5, <2>1, <2>2 DEF HandlerOK
<1>10. RunOK'
  BY <1>2, <1>3 DEF RunOK
<1>11. KeysOK'
  BY <1>2 DEF CInv, KeysOK
<1>12. AcknowledgedIsStored'
  BY <1>2, <1>3, <1>6 DEF CInv, AcknowledgedIsStored
<1> QED BY <1>8, <1>9, <1>10, <1>11, <1>12 DEF CInv

LEMMA SaveBookKeeps == CInv /\ SaveBook => CInv'
<1> SUFFICES ASSUME CInv, SaveBook PROVE CInv'
  OBVIOUS
<1>1. CommandsTypeOK
  BY DEF CInv
<1>2. /\ At("save") /\ runs' = Committed
      /\ handler' = [handler EXCEPT !.step = "audit"]
      /\ table' = table /\ run' = run /\ book' = book /\ events' = events
      /\ answered' = answered /\ acked' = acked
  BY DEF SaveBook
<1>3. /\ runs' \in Seq(Run) /\ Len(runs') = Len(runs)
      /\ run \in 1 .. Len(runs) /\ runs'[run].book = book
  BY <1>2, BookSaved
<1>4. handler \in Handler /\ handler # None
  BY <1>1, <1>2 DEF At, CommandsTypeOK
<1>5. /\ handler' \in Handler /\ handler'.step = "audit"
      /\ handler'.key = handler.key /\ handler'.left = handler.left
  BY <1>2, <1>4 DEF Handler
<1>6. CommandsTypeOK'
  BY <1>1, <1>2, <1>3, <1>5 DEF CommandsTypeOK
<1>7. HandlerOK'
  BY <1>2, <1>3, <1>4, <1>5 DEF CInv, HandlerOK
<1>8. RunOK'
  <2>1. book.version \in Nat
    BY <1>1 DEF CommandsTypeOK, Book
  <2> QED BY <1>2, <1>3, <2>1 DEF CInv, RunOK
<1>9. KeysOK'
  BY <1>2 DEF CInv, KeysOK
<1>10. AcknowledgedIsStored'
  BY <1>1, <1>2, StoreStaysAhead DEF At
<1> QED BY <1>6, <1>7, <1>8, <1>9, <1>10 DEF CInv

LEMMA AppendAuditKeeps == CInv /\ AppendAudit => CInv'
<1> SUFFICES ASSUME CInv, AppendAudit PROVE CInv'
  OBVIOUS
<1>1. CommandsTypeOK
  BY DEF CInv
<1>2. /\ At("audit") /\ runs' = Committed
      /\ handler' = [handler EXCEPT !.step = "emit"]
      /\ table' = table /\ run' = run /\ book' = book /\ events' = events
      /\ answered' = answered /\ acked' = acked
  BY DEF AppendAudit
<1>3. /\ runs' \in Seq(Run) /\ Len(runs') = Len(runs)
      /\ run \in 1 .. Len(runs) /\ runs'[run].book = runs[run].book
  BY <1>2, RowAdded
<1>4. handler \in Handler /\ handler # None /\ handler.step = "audit"
  BY <1>1, <1>2 DEF At, CommandsTypeOK
<1>5. /\ handler' \in Handler /\ handler'.step = "emit"
      /\ handler'.key = handler.key /\ handler'.left = handler.left
  BY <1>2, <1>4 DEF Handler
<1>6. CommandsTypeOK'
  BY <1>1, <1>2, <1>3, <1>5 DEF CommandsTypeOK
<1>7. HandlerOK'
  BY <1>2, <1>3, <1>4, <1>5 DEF CInv, HandlerOK
<1>8. RunOK'
  BY <1>2, <1>3 DEF CInv, RunOK
<1>9. KeysOK'
  BY <1>2 DEF CInv, KeysOK
<1>10. AcknowledgedIsStored'
  BY <1>1, <1>2, StoreStaysAhead DEF At
<1> QED BY <1>6, <1>7, <1>8, <1>9, <1>10 DEF CInv

LEMMA StoreFailsKeeps ==
  ASSUME CInv, NEW committed \in BOOLEAN, StoreFails(committed)
  PROVE  CInv'
<1>1. CommandsTypeOK
  BY DEF CInv
<1>2. /\ handler # None /\ handler.step # "emit" /\ handler' = None
      /\ runs' = (IF committed THEN Committed ELSE runs)
      /\ table' = table /\ run' = run /\ book' = book /\ events' = events
      /\ answered' = answered /\ acked' = acked
  BY DEF StoreFails
<1>3. CASE ~committed
  BY <1>1, <1>2, <1>3 DEF CInv, CommandsTypeOK, HandlerOK, RunOK, KeysOK, AcknowledgedIsStored
<1>4. CASE committed
  <2>1. runs' = Committed
    BY <1>2, <1>4
  <2>2. /\ runs' \in Seq(Run) /\ Len(runs') >= Len(runs)
        /\ Len(runs) \in Nat /\ Len(runs') \in Nat
    BY <1>2, <2>1, StoreMovesForward
  <2>3. acked \in [run : 1 .. Len(runs), version : Nat] \cup {None}
    BY <1>1 DEF CommandsTypeOK
  <2>4. run' \in 0 .. Len(runs') /\ acked' \in [run : 1 .. Len(runs'), version : Nat] \cup {None}
    BY <1>1, <1>2, <2>2, <2>3 DEF CommandsTypeOK
  <2>5. CommandsTypeOK'
    BY <1>1, <1>2, <2>2, <2>4 DEF CommandsTypeOK
  <2>6. HandlerOK'
    BY <1>2 DEF HandlerOK
  <2>7. RunOK'
    <3>1. handler.step \in {"create", "save", "audit"}
      BY <1>1, <1>2 DEF CommandsTypeOK, Handler
    <3>2. CASE At("create")
      BY <1>2, <3>2 DEF CInv, HandlerOK, RunOK, At
    <3>3. CASE At("save")
      <4>1. Len(runs') = Len(runs) /\ runs'[run].book = book
        BY <2>1, <3>3, BookSaved
      <4>2. book.version \in Nat
        BY <1>1 DEF CommandsTypeOK, Book
      <4> QED BY <1>2, <4>1, <4>2 DEF CInv, RunOK
    <3>4. CASE At("audit")
      <4>1. Len(runs') = Len(runs) /\ runs'[run].book = runs[run].book
        BY <2>1, <3>4, RowAdded
      <4> QED BY <1>2, <4>1 DEF CInv, RunOK
    <3> QED BY <1>2, <3>1, <3>2, <3>3, <3>4 DEF At
  <2>8. KeysOK'
    BY <1>2 DEF CInv, KeysOK
  <2>9. AcknowledgedIsStored'
    BY <1>2, <2>1, StoreStaysAhead
  <2> QED BY <2>5, <2>6, <2>7, <2>8, <2>9 DEF CInv
<1> QED BY <1>3, <1>4

(***************************************************************************)
(* Steps that emit                                                         *)
(***************************************************************************)

\* The emitted event is an event.
LEMMA EmitTyped ==
  ASSUME CInv, Emit
  PROVE  /\ events' \in Seq(Event)
         /\ handler \in Handler /\ handler # None /\ handler.step = "emit"
<1>1. handler \in Handler /\ handler # None /\ handler.step = "emit"
  BY DEF CInv, CommandsTypeOK, Emit, At
<1>2. [version |-> book.version, audited |-> handler.audited /\ run # 0] \in Event
  <2>1. book.version \in Nat
    BY DEF CInv, CommandsTypeOK, Book
  <2>2. (handler.audited /\ run # 0) \in BOOLEAN
    OBVIOUS
  <2> QED BY <2>1, <2>2 DEF Event
<1>3. events \in Seq(Event)
  BY DEF CInv, CommandsTypeOK
<1> HIDE DEF Event
<1> QED BY <1>1, <1>2, <1>3 DEF Emit

LEMMA EmitAndContinueKeeps ==
  ASSUME CInv, NEW d \in 0 .. 1, EmitAndContinue(d)
  PROVE  CInv'
<1>1. CommandsTypeOK
  BY DEF CInv
<1>2. /\ Emit /\ handler.left > 0 /\ book' = [book EXCEPT !.version = @ + d]
      /\ handler' = [handler EXCEPT !.step = "save", !.left = @ - 1]
      /\ table' = table /\ run' = run /\ runs' = runs
      /\ answered' = answered /\ acked' = acked
  BY DEF EmitAndContinue, Change
<1>3. /\ events' \in Seq(Event)
      /\ handler \in Handler /\ handler # None /\ handler.step = "emit"
  BY <1>2, EmitTyped
<1>4. /\ handler' \in Handler /\ handler'.step = "save" /\ handler'.key = handler.key
  <2>1. handler.left \in Nat /\ handler.left - 1 \in Nat
    BY <1>2, <1>3 DEF Handler
  <2> QED BY <1>2, <1>3, <2>1 DEF Handler
<1>5. /\ book' \in Book /\ book'.load = book.load
      /\ book'.version >= book.version /\ book.version \in Nat /\ book'.version \in Nat
  BY <1>1, <1>2 DEF CommandsTypeOK, Book
<1>6. CommandsTypeOK'
  BY <1>1, <1>2, <1>3, <1>4, <1>5 DEF CommandsTypeOK
<1>7. HandlerOK'
  BY <1>2, <1>3, <1>4 DEF CInv, HandlerOK
<1>8. RunOK'
  <2>1. run # 0 => run \in 1 .. Len(runs) /\ runs[run] \in Run
    BY <1>1 DEF CommandsTypeOK
  <2>2. run # 0 /\ runs[run].book # None => runs[run].book.version \in Nat
    BY <2>1 DEF Run, Book
  <2> QED BY <1>2, <1>5, <2>1, <2>2 DEF CInv, RunOK
<1>9. KeysOK' /\ AcknowledgedIsStored'
  BY <1>2 DEF CInv, KeysOK, AcknowledgedIsStored
<1> QED BY <1>6, <1>7, <1>8, <1>9 DEF CInv

LEMMA EmitAndAnswerKeeps == CInv /\ EmitAndAnswer => CInv'
<1> SUFFICES ASSUME CInv, EmitAndAnswer PROVE CInv'
  OBVIOUS
<1>1. CommandsTypeOK
  BY DEF CInv
<1>2. /\ Emit /\ table' = table \cup {handler.key}
      /\ answered' = [answered EXCEPT ![handler.key] = @ + 1]
      /\ handler' = None
      /\ run' = run /\ book' = book /\ runs' = runs
  BY DEF EmitAndAnswer
<1>3. acked' = (IF handler.audited /\ run # 0
                THEN [run |-> run, version |-> book.version] ELSE acked)
  BY DEF EmitAndAnswer
<1>4. /\ events' \in Seq(Event)
      /\ handler \in Handler /\ handler # None /\ handler.step = "emit"
  BY <1>2, EmitTyped
<1>5. handler.key \in Keys /\ handler.key \notin table
  BY <1>4 DEF Handler, CInv, HandlerOK
<1>6. /\ run \in 0 .. Len(runs) /\ Len(runs) \in Nat
      /\ book \in Book /\ book.version \in Nat /\ book # None
  BY <1>1, CommandsAssumption DEF CommandsTypeOK, Book
<1>7. acked' \in [run : 1 .. Len(runs'), version : Nat] \cup {None}
  BY <1>1, <1>2, <1>3, <1>6 DEF CommandsTypeOK
<1>8. table' \subseteq Keys /\ answered' \in [Keys -> Nat]
  BY <1>1, <1>2, <1>5 DEF CommandsTypeOK
<1>9. CommandsTypeOK'
  BY <1>1, <1>2, <1>4, <1>7, <1>8 DEF CommandsTypeOK
<1>10. HandlerOK' /\ RunOK'
  BY <1>2 DEF CInv, HandlerOK, RunOK
<1>11. KeysOK'
  <2> SUFFICES ASSUME NEW k \in Keys
               PROVE  answered'[k] <= IF k \in table' THEN 1 ELSE 0
    BY DEF KeysOK
  <2>1. answered[k] <= IF k \in table THEN 1 ELSE 0
    BY DEF CInv, KeysOK
  <2>2. answered \in [Keys -> Nat]
    BY <1>1 DEF CommandsTypeOK
  <2>3. CASE k = handler.key
    BY <1>2, <1>5, <2>1, <2>2, <2>3
  <2>4. CASE k # handler.key
    BY <1>2, <1>5, <2>1, <2>2, <2>4
  <2> QED BY <2>3, <2>4
<1>12. AcknowledgedIsStored'
  <2>1. CASE handler.audited /\ run # 0
    <3>1. acked' = [run |-> run, version |-> book.version]
      BY <1>3, <2>1
    <3>2. runs[run].book = book
      BY <1>4, <2>1 DEF CInv, HandlerOK
    <3> QED BY <1>2, <1>6, <3>1, <3>2 DEF AcknowledgedIsStored
  <2>2. CASE ~(handler.audited /\ run # 0)
    BY <1>2, <1>3, <2>2 DEF CInv, AcknowledgedIsStored
  <2> QED BY <2>1, <2>2
<1> QED BY <1>9, <1>10, <1>11, <1>12 DEF CInv

LEMMA EmitAndRejectKeeps == CInv /\ EmitAndReject => CInv'
<1> SUFFICES ASSUME CInv, EmitAndReject PROVE CInv'
  OBVIOUS
<1>1. /\ Emit /\ handler' = None
      /\ table' = table /\ run' = run /\ book' = book /\ runs' = runs
      /\ answered' = answered /\ acked' = acked
  BY DEF EmitAndReject
<1>2. events' \in Seq(Event)
  BY <1>1, EmitTyped
<1>3. CommandsTypeOK'
  BY <1>1, <1>2 DEF CInv, CommandsTypeOK
<1> QED
  BY <1>1, <1>3 DEF CInv, HandlerOK, RunOK, KeysOK, AcknowledgedIsStored

-----------------------------------------------------------------------------
(* The invariant is inductive *)

\* A command begins: with a step of its own, or with a reset.
LEMMA ExecuteKeeps ==
  ASSUME CInv, NEW key \in Keys, Execute(key)
  PROVE  CInv'
<1>1. CASE BeginUnaudited(key)
  <2>1. /\ handler' \in Handler /\ handler'.key = key /\ handler'.left = 0
        /\ handler'.step = "emit" /\ ~handler'.audited
    BY <1>1 DEF BeginUnaudited, Handler
  <2>2. book' = [book EXCEPT !.version = @ + 0]
    BY <1>1 DEF BeginUnaudited, CInv, CommandsTypeOK, Book
  <2>3. key \notin table /\ UNCHANGED <<table, run, events, runs, answered, acked>>
    BY <1>1 DEF BeginUnaudited, Fresh
  <2> QED BY <2>1, <2>2, <2>3, BeginKeeps
<1>2. CASE BeginRefused(key)
  <2>1. /\ handler' \in Handler /\ handler'.key = key /\ handler'.left = 0
        /\ (handler'.step = "save" /\ run # 0) \/ (handler'.step = "emit" /\ run = 0)
    BY <1>2 DEF BeginRefused, FirstStep, Handler
  <2>2. book' = [book EXCEPT !.version = @ + 0]
    BY <1>2 DEF BeginRefused, CInv, CommandsTypeOK, Book
  <2>3. key \notin table /\ UNCHANGED <<table, run, events, runs, answered, acked>>
    BY <1>2 DEF BeginRefused, Fresh
  <2> QED BY <2>1, <2>2, <2>3, BeginKeeps
<1>3. ASSUME NEW d \in 0 .. 1, BeginAudited(key, d) PROVE CInv'
  <2>1. /\ handler' \in Handler /\ handler'.key = key /\ handler'.left = 0
        /\ (handler'.step = "save" /\ run # 0) \/ (handler'.step = "emit" /\ run = 0)
    BY <1>3 DEF BeginAudited, FirstStep, Handler
  <2>2. /\ book' = [book EXCEPT !.version = @ + d]
        /\ key \notin table /\ UNCHANGED <<table, run, events, runs, answered, acked>>
    BY <1>3 DEF BeginAudited, Change, Fresh
  <2> QED BY <2>1, <2>2, BeginKeeps
<1>4. ASSUME NEW n \in 0 .. MaxBatch, NEW d \in 0 .. 1, BeginTick(key, n, d) PROVE CInv'
  <2>1. /\ handler' \in Handler /\ handler'.key = key
        /\ handler'.step = "save" /\ run # 0
    BY <1>4 DEF BeginTick, Handler
  <2>2. /\ book' = [book EXCEPT !.version = @ + d]
        /\ key \notin table /\ UNCHANGED <<table, run, events, runs, answered, acked>>
    BY <1>4 DEF BeginTick, Change, Fresh
  <2> QED BY <2>1, <2>2, BeginKeeps
<1>5. CASE BeginLoad(key)
  <2>1. handler' \in Handler /\ handler'.key = key
        /\ handler'.step = "create" /\ handler'.left = 0
    BY <1>5 DEF BeginLoad, Handler
  <2> QED BY <1>5, <2>1, ResetKeeps DEF BeginLoad, Reset, Fresh
<1>6. CASE LoadRefused(key)
  BY <1>6, ResetKeeps DEF LoadRefused, Reset, Fresh
<1> QED BY <1>1, <1>2, <1>3, <1>4, <1>5, <1>6 DEF Execute

LEMMA CInvStep == CInv /\ [Next]_vars => CInv'
<1> SUFFICES ASSUME CInv, [Next]_vars PROVE CInv'
  OBVIOUS
<1>1. ASSUME NEW key \in Keys, Execute(key) PROVE CInv'
  BY <1>1, ExecuteKeeps
<1>2. CASE CreateRun \/ SaveBook \/ AppendAudit
  BY <1>2, CreateRunKeeps, SaveBookKeeps, AppendAuditKeeps
<1>3. ASSUME NEW committed \in BOOLEAN, StoreFails(committed) PROVE CInv'
  BY <1>3, StoreFailsKeeps
<1>4. ASSUME NEW d \in 0 .. 1, EmitAndContinue(d) PROVE CInv'
  BY <1>4, EmitAndContinueKeeps
<1>5. CASE EmitAndAnswer \/ EmitAndReject
  BY <1>5, EmitAndAnswerKeeps, EmitAndRejectKeeps
<1>6. CASE Crash
  BY <1>6, ResetKeeps DEF Crash
<1>7. CASE UNCHANGED vars
  BY <1>7 DEF vars, CInv, CommandsTypeOK, HandlerOK, RunOK, KeysOK, AcknowledgedIsStored
<1> QED BY <1>1, <1>2, <1>3, <1>4, <1>5, <1>6, <1>7 DEF Next

LEMMA CInvAlways == Spec => []CInv
BY CInvInit, CInvStep, PTL DEF Spec

\* Every reachable state has the shape the code gives it, for any keys and bounds.
THEOREM CommandsTypeCorrect == Spec => []CommandsTypeOK
<1>1. CInv => CommandsTypeOK
  BY DEF CInv
<1> QED BY <1>1, CInvAlways, PTL

\* Whatever fails and whatever is retried, between two starts of the process a
\* key is answered by at most one execution.
THEOREM AnsweredOnce == Spec => []KeyAnsweredOnce
<1>1. CInv => KeyAnsweredOnce
  <2> SUFFICES ASSUME CInv, NEW k \in Keys PROVE answered[k] <= 1
    BY DEF KeyAnsweredOnce
  <2>1. answered[k] <= IF k \in table THEN 1 ELSE 0
    BY DEF CInv, KeysOK
  <2>2. answered[k] \in Nat
    BY DEF CInv, CommandsTypeOK
  <2> QED BY <2>1, <2>2
<1> QED BY <1>1, CInvAlways, PTL

\* What was acknowledged is in the store for good.
THEOREM AcknowledgedForGood == Spec => []AcknowledgedIsStored
<1>1. CInv => AcknowledgedIsStored
  BY DEF CInv
<1> QED BY <1>1, CInvAlways, PTL

-----------------------------------------------------------------------------
(* The audit has every audited event of the stream *)

\* The audit tells the events of T, each in a row of its own among the first n.
Backed(T, stream, audit, n) ==
  \E row \in [T -> 1 .. n] :
    \A i, j \in T : /\ audit[row[i]] = stream[i].version
                    /\ i < j => row[i] < row[j]

\* The row of the event about to be emitted is written.
RowWaits == handler # None /\ handler.step = "emit" /\ handler.audited

\* Between the commit of a row and its event the last row is nobody's yet; it
\* tells the book in memory, so it is the row of the event that comes.
AuditInv ==
  /\ run = 0 => Told = {}
  /\ run # 0 =>
       LET audit == runs[run].audit
       IN  /\ Backed(Told, events, audit, IF RowWaits THEN Len(audit) - 1 ELSE Len(audit))
           /\ RowWaits => audit # <<>> /\ audit[Len(audit)] = book.version

\* More rows behind those that tell the events change nothing.
LEMMA MoreRows ==
  ASSUME NEW T, NEW stream, NEW audit, NEW longer, NEW m \in Int, NEW n \in Int, m <= n,
         Backed(T, stream, audit, m), \A r \in 1 .. m : longer[r] = audit[r]
  PROVE  Backed(T, stream, longer, n)
<1>1. PICK row \in [T -> 1 .. m] :
        \A i, j \in T : /\ audit[row[i]] = stream[i].version
                        /\ i < j => row[i] < row[j]
  BY DEF Backed
<1>2. row \in [T -> 1 .. n]
  OBVIOUS
<1>3. \A i \in T : longer[row[i]] = audit[row[i]]
  BY <1>1
<1> QED BY <1>1, <1>2, <1>3 DEF Backed

\* No event needs no row.
LEMMA NothingToBack ==
  ASSUME NEW stream, NEW audit, NEW n
  PROVE  Backed({}, stream, audit, n)
<1>1. [i \in {} |-> 0] \in [{} -> 1 .. n]
  OBVIOUS
<1> QED BY <1>1 DEF Backed

\* The audit of the session's run is a sequence of book versions.
LEMMA AuditTyped ==
  ASSUME CInv, run # 0
  PROVE  /\ run \in 1 .. Len(runs) /\ runs[run] \in Run
         /\ runs[run].audit \in Seq(Nat) /\ Len(runs[run].audit) \in Nat
<1>1. run \in 1 .. Len(runs) /\ runs[run] \in Run
  BY DEF CInv, CommandsTypeOK
<1>2. runs[run].audit \in Seq(Nat)
  BY <1>1 DEF Run
<1> QED BY <1>1, <1>2

\* A step that leaves the stream and the audit alone, and emits nothing next.
LEMMA AuditLeftAlone ==
  ASSUME CInv, AuditInv, run' = run, events' = events, RowWaits' => run = 0,
         run # 0 => runs'[run].audit = runs[run].audit
  PROVE  AuditInv'
<1>1. Told' = Told
  BY DEF Told
<1>2. CASE run = 0
  BY <1>1, <1>2 DEF AuditInv
<1>3. CASE run # 0
  <2> DEFINE audit == runs[run].audit
             n == IF RowWaits THEN Len(audit) - 1 ELSE Len(audit)
  <2>1. Len(audit) \in Nat /\ n \in Int /\ n <= Len(audit)
    BY <1>3, AuditTyped
  <2>2. Backed(Told, events, audit, n)
    BY <1>3 DEF AuditInv
  <2> HIDE DEF n
  <2>3. Backed(Told, events, audit, Len(audit))
    BY <2>1, <2>2, MoreRows
  <2> QED BY <1>1, <1>3, <2>3 DEF AuditInv
<1> QED BY <1>2, <1>3

\* An appended row leaves the rows before it.
LEMMA RowAppended ==
  ASSUME CInv, At("audit"), runs' = Committed
  PROVE  /\ run # 0
         /\ runs'[run].audit = Append(runs[run].audit, book.version)
         /\ runs'[run].audit # <<>>
         /\ Len(runs'[run].audit) = Len(runs[run].audit) + 1
         /\ runs'[run].audit[Len(runs[run].audit) + 1] = book.version
         /\ \A r \in 1 .. Len(runs[run].audit) : runs'[run].audit[r] = runs[run].audit[r]
<1>1. run # 0
  BY DEF CInv, HandlerOK, At
<1>2. /\ run \in 1 .. Len(runs) /\ runs[run] \in Run /\ runs \in Seq(Run)
      /\ runs[run].audit \in Seq(Nat) /\ book.version \in Nat
  BY <1>1, AuditTyped DEF CInv, CommandsTypeOK, Book
<1>3. runs'[run].audit = Append(runs[run].audit, book.version)
  <2>1. runs'[run] = [runs[run] EXCEPT !.audit = Append(@, book.version)]
    <3>1. runs' = [runs EXCEPT ![run].audit = Append(@, book.version)]
      BY CommittedAudit
    <3>2. run \in DOMAIN runs
      BY <1>2
    <3> QED BY <3>1, <3>2
  <2> QED BY <1>2, <2>1 DEF Run
<1> HIDE DEF Run
<1> QED BY <1>1, <1>2, <1>3

\* An audited event takes the last row, an unaudited one needs none.
LEMMA EmitTells ==
  ASSUME CInv, AuditInv, Emit, run' = run, runs' = runs, ~RowWaits'
  PROVE  AuditInv'
<1>1. /\ events \in Seq(Event) /\ Len(events) \in Nat
      /\ handler # None /\ handler.step = "emit"
      /\ handler.audited \in BOOLEAN /\ book.version \in Nat
  BY EmitTyped DEF CInv, CommandsTypeOK, Handler, Book
<1> DEFINE new == Len(events) + 1
           e == [version |-> book.version, audited |-> handler.audited /\ run # 0]
<1>2. e \in Event /\ events' = Append(events, e)
  BY <1>1 DEF Event, Emit
<1>3. /\ DOMAIN events = 1 .. Len(events) /\ DOMAIN events' = 1 .. new /\ new \notin DOMAIN events
      /\ \A i \in DOMAIN events : events'[i] = events[i]
      /\ events'[new] = e
  BY <1>1, <1>2
<1>4. Told' = IF handler.audited /\ run # 0 THEN Told \cup {new} ELSE Told
  <2>1. \A i : i \in Told' <=> i \in Told \/ (i = new /\ e.audited)
    <3>1. \A i : i \in Told' <=> i \in DOMAIN events' /\ events'[i].audited
      BY DEF Told
    <3>2. \A i : i \in Told <=> i \in DOMAIN events /\ events[i].audited
      BY DEF Told
    <3>3. \A i : i \in DOMAIN events' <=> i \in DOMAIN events \/ i = new
      BY <1>1, <1>3
    <3> HIDE DEF new, e
    <3> QED BY <1>3, <3>1, <3>2, <3>3, Zenon
  <2>2. e.audited <=> handler.audited /\ run # 0
    OBVIOUS
  <2> HIDE DEF new, e
  <2>3. CASE e.audited
    BY <2>1, <2>2, <2>3
  <2>4. CASE ~e.audited
    BY <2>1, <2>2, <2>4
  <2> QED BY <2>3, <2>4
<1>5. CASE run = 0
  BY <1>4, <1>5 DEF AuditInv
<1>6. CASE run # 0
  <2> DEFINE audit == runs[run].audit
  <2>1. /\ Len(audit) \in Nat /\ audit \in Seq(Nat)
        /\ Backed(Told, events, audit, IF RowWaits THEN Len(audit) - 1 ELSE Len(audit))
        /\ RowWaits => audit # <<>> /\ audit[Len(audit)] = book.version
    BY <1>6, AuditTyped DEF AuditInv
  <2>2. \A i \in Told : i \in DOMAIN events /\ i \in Nat /\ i < new /\ events'[i] = events[i]
    BY <1>1, <1>3 DEF Told
  <2> HIDE DEF audit
  <2>3. Backed(Told', events', audit, Len(audit))
    <3>1. CASE ~handler.audited
      <4>1. Told' = Told /\ Backed(Told, events, audit, Len(audit))
        BY <1>1, <1>4, <2>1, <3>1 DEF RowWaits
      <4> QED BY <2>2, <4>1 DEF Backed
    <3>2. CASE handler.audited
      <4>1. /\ Told' = Told \cup {new}
            /\ Len(audit) # 0 /\ audit[Len(audit)] = book.version
            /\ Backed(Told, events, audit, Len(audit) - 1)
        BY <1>1, <1>4, <1>6, <2>1, <3>2 DEF RowWaits
      <4>2. PICK row \in [Told -> 1 .. Len(audit) - 1] :
              \A i, j \in Told : /\ audit[row[i]] = events[i].version
                                 /\ i < j => row[i] < row[j]
        BY <4>1 DEF Backed
      <4> DEFINE next == [i \in Told' |-> IF i = new THEN Len(audit) ELSE row[i]]
      <4>3. next \in [Told' -> 1 .. Len(audit)]
        BY <2>1, <4>1, <4>2
      <4>4. ASSUME NEW i \in Told', NEW j \in Told'
            PROVE  /\ audit[next[i]] = events'[i].version
                   /\ i < j => next[i] < next[j]
        <5>1. audit[next[i]] = events'[i].version
          BY <1>3, <2>2, <4>1, <4>2
        <5>2. ASSUME i < j
              PROVE  next[i] < next[j]
          <6>1. i \in Told /\ i # new
            BY <2>2, <4>1, <5>2
          <6>2. CASE j = new
            BY <2>1, <4>2, <6>1, <6>2
          <6>3. CASE j # new
            BY <4>1, <4>2, <5>2, <6>1, <6>3
          <6> QED BY <6>2, <6>3
        <5> QED BY <5>1, <5>2
      <4> HIDE DEF next
      <4> QED BY <4>3, <4>4 DEF Backed
    <3> QED BY <1>1, <3>1, <3>2
  <2> QED BY <1>6, <2>3 DEF AuditInv, audit
<1> QED BY <1>5, <1>6

\* Every step keeps it.
LEMMA AuditStep ==
  ASSUME CInv, AuditInv, [Next]_vars
  PROVE  AuditInv'
<1>1. ASSUME NEW key \in Keys, Execute(key)
      PROVE  AuditInv'
  <2>1. CASE BeginLoad(key) \/ LoadRefused(key)
    <3>1. run' = 0 /\ events' = <<>>
      BY <2>1 DEF BeginLoad, LoadRefused, Reset
    <3> QED BY <3>1 DEF AuditInv, Told
  <2>2. ASSUME \/ BeginUnaudited(key) \/ BeginRefused(key)
               \/ \E d \in 0 .. 1 : BeginAudited(key, d)
               \/ \E n \in 0 .. MaxBatch, d \in 0 .. 1 : BeginTick(key, n, d)
        PROVE  AuditInv'
    <3>1. /\ run' = run /\ events' = events /\ runs' = runs
          /\ handler' # None /\ handler'.step = "emit" => ~handler'.audited \/ run = 0
      BY <2>2 DEF BeginUnaudited, BeginRefused, BeginAudited, BeginTick, FirstStep
    <3> QED BY <3>1, AuditLeftAlone DEF RowWaits
  <2> QED BY <1>1, <2>1, <2>2 DEF Execute
<1>2. CASE CreateRun
  <2>1. run = 0 /\ Told' = {}
    BY <1>2 DEF CreateRun, CInv, HandlerOK, At, AuditInv, Told
  <2>2. /\ runs' = Committed /\ run' = Len(runs')
        /\ handler' = [handler EXCEPT !.step = "save"]
        /\ handler \in Handler
    BY <1>2 DEF CreateRun, CInv, CommandsTypeOK, At
  <2>3. ~RowWaits'
    BY <2>2 DEF RowWaits, Handler
  <2>4. runs'[run'].audit = <<>>
    BY <1>2, <2>2, RunAdded DEF CreateRun
  <2> QED BY <2>1, <2>3, <2>4, NothingToBack DEF AuditInv
<1>3. CASE SaveBook
  <2>1. /\ At("save") /\ runs' = Committed /\ run' = run /\ events' = events
        /\ handler' = [handler EXCEPT !.step = "audit"]
        /\ handler \in Handler
    BY <1>3 DEF SaveBook, CInv, CommandsTypeOK, At
  <2>2. ~RowWaits'
    BY <2>1 DEF RowWaits, Handler
  <2>3. run # 0 => runs'[run].audit = runs[run].audit
    BY <2>1, BookSaved, AuditTyped DEF Run
  <2> QED BY <2>1, <2>2, <2>3, AuditLeftAlone
<1>4. ASSUME At("audit"), runs' = Committed, run' = run, events' = events, book' = book
      PROVE  AuditInv'
  <2> DEFINE audit == runs[run].audit
  <2>1. /\ run # 0 /\ ~RowWaits /\ Len(audit) \in Nat
        /\ Len(runs'[run].audit) = Len(audit) + 1
        /\ runs'[run].audit # <<>>
        /\ runs'[run].audit[Len(audit) + 1] = book.version
        /\ \A r \in 1 .. Len(audit) : runs'[run].audit[r] = audit[r]
    BY <1>4, RowAppended, AuditTyped DEF At, RowWaits
  <2>2. Backed(Told, events, audit, Len(audit))
    BY <2>1 DEF AuditInv
  <2>3. Told' = Told
    BY <1>4 DEF Told
  <2> HIDE DEF audit
  <2>4. \A n \in Int : n >= Len(audit) => Backed(Told, events, runs'[run].audit, n)
    BY <2>1, <2>2, MoreRows
  <2>5. /\ Len(runs'[run].audit) \in Int /\ Len(runs'[run].audit) - 1 \in Int
        /\ Len(runs'[run].audit) >= Len(audit) /\ Len(runs'[run].audit) - 1 >= Len(audit)
        /\ runs'[run].audit[Len(runs'[run].audit)] = book.version
    BY <2>1
  <2> QED BY <1>4, <2>1, <2>3, <2>4, <2>5 DEF AuditInv
<1>5. CASE AppendAudit
  BY <1>4, <1>5 DEF AppendAudit
<1>6. ASSUME NEW committed \in BOOLEAN, StoreFails(committed)
      PROVE  AuditInv'
  <2>1. /\ run' = run /\ events' = events /\ book' = book /\ ~RowWaits'
        /\ handler # None /\ handler.step # "emit"
        /\ runs' = (IF committed THEN Committed ELSE runs)
    BY <1>6 DEF StoreFails, RowWaits
  <2>2. CASE ~committed
    BY <2>1, <2>2, AuditLeftAlone
  <2>3. CASE committed
    <3>1. runs' = Committed
      BY <2>1, <2>3
    <3>2. CASE At("create")
      BY <2>1, <3>2, AuditLeftAlone DEF CInv, HandlerOK, At
    <3>3. CASE At("save")
      <4>1. run # 0 => runs'[run].audit = runs[run].audit
        BY <3>1, <3>3, BookSaved, AuditTyped DEF Run
      <4> QED BY <2>1, <4>1, AuditLeftAlone
    <3>4. CASE At("audit")
      BY <1>4, <2>1, <3>1, <3>4
    <3>5. handler.step \in {"create", "save", "audit"}
      BY <2>1 DEF CInv, CommandsTypeOK, Handler
    <3> QED BY <2>1, <3>2, <3>3, <3>4, <3>5 DEF At
  <2> QED BY <2>2, <2>3
<1>7. ASSUME NEW d \in 0 .. 1, EmitAndContinue(d)
      PROVE  AuditInv'
  <2>1. /\ Emit /\ run' = run /\ runs' = runs /\ handler \in Handler
        /\ handler' = [handler EXCEPT !.step = "save", !.left = @ - 1]
    BY <1>7, EmitTyped DEF EmitAndContinue
  <2>2. ~RowWaits'
    BY <2>1 DEF RowWaits, Handler
  <2> QED BY <2>1, <2>2, EmitTells
<1>8. CASE EmitAndAnswer \/ EmitAndReject
  <2>1. Emit /\ run' = run /\ runs' = runs /\ ~RowWaits'
    BY <1>8 DEF EmitAndAnswer, EmitAndReject, RowWaits
  <2> QED BY <2>1, EmitTells
<1>9. CASE Crash
  BY <1>9 DEF Crash, AuditInv, Told
<1>10. CASE UNCHANGED vars
  BY <1>10 DEF vars, AuditInv, Told, RowWaits
<1> QED BY <1>1, <1>2, <1>3, <1>5, <1>6, <1>7, <1>8, <1>9, <1>10 DEF Next

\* Every audited event of the stream has its row in the audit of the stored
\* run, in order, whatever failed between a row and its event.
THEOREM StreamTold == Spec => []StreamIsAudited
<1>1. Init => AuditInv
  BY DEF Init, AuditInv, Told
<1>2. CInv /\ AuditInv => StreamIsAudited
  <2> SUFFICES ASSUME CInv, AuditInv, Told # {} PROVE StreamIsAudited
    BY DEF StreamIsAudited
  <2> DEFINE audit == runs[run].audit
             n == IF RowWaits THEN Len(audit) - 1 ELSE Len(audit)
  <2>1. /\ run # 0 /\ Len(audit) \in Nat /\ DOMAIN audit = 1 .. Len(audit)
        /\ n \in Int /\ n <= Len(audit)
        /\ Backed(Told, events, audit, n)
    BY AuditTyped DEF AuditInv
  <2> HIDE DEF n
  <2>2. Backed(Told, events, audit, Len(audit))
    BY <2>1, MoreRows
  <2> QED BY <2>1, <2>2 DEF StreamIsAudited, Backed
<1> QED BY <1>1, <1>2, CInvAlways, AuditStep, PTL DEF Spec

-----------------------------------------------------------------------------
(* Every stored run is the journal of one book *)

\* What a transaction commits is a step of the journal.
LEMMA CommitIsJournalled ==
  ASSUME CInv, handler # None, handler.step # "emit", runs' = Committed
  PROVE  Journal!Open \/ Journal!Save \/ Journal!Record
<1>1. handler.step \in {"create", "save", "audit"}
  BY DEF CInv, CommandsTypeOK, Handler
<1>2. CASE At("create")
  BY <1>2, CommittedCreate DEF Journal!Open
<1>3. CASE At("save")
  <2>1. run \in 1 .. Len(runs) /\ runs'[run].book = book
    BY <1>3, BookSaved
  <2>2. run = Len(runs) /\ runs # <<>>
    BY <2>1 DEF CInv, RunOK
  <2>3. runs' = [runs EXCEPT ![run].book = book]
    BY <1>3, CommittedSave
  <2>4. runs[run].book # None => /\ book.load = runs[run].book.load
                                 /\ book.version >= runs[run].book.version
    <3>1. runs[run] \in Run /\ book.version \in Nat
      BY <2>1 DEF CInv, CommandsTypeOK, Book
    <3>2. runs[run].book # None => runs[run].book.version \in Nat
      BY <3>1 DEF Run, Book
    <3> QED BY <2>1, <3>1, <3>2 DEF CInv, RunOK
  <2> QED BY <2>1, <2>2, <2>3, <2>4 DEF Journal!Save, Journal!Latest
<1>4. CASE At("audit")
  <2>1. run \in 1 .. Len(runs)
    BY <1>4, RowAdded
  <2>2. run = Len(runs) /\ runs # <<>>
    BY <2>1 DEF CInv, RunOK
  <2>3. runs[run].book = book
    BY <1>4, <2>1 DEF CInv, HandlerOK, At
  <2>4. book # None
    BY CommandsAssumption DEF CInv, CommandsTypeOK
  <2>5. runs' = [runs EXCEPT ![run].audit = Append(@, book.version)]
    BY <1>4, CommittedAudit
  <2> QED BY <2>2, <2>3, <2>4, <2>5 DEF Journal!Record, Journal!Latest
<1> QED BY <1>1, <1>2, <1>3, <1>4 DEF At

\* The store implements the journal: whatever fails or dies, and wherever,
\* every stored run tells the life of one book.
THEOREM ImplementsJournal == Spec => JournalRefinement
<1>1. Init => Journal!JournalInit
  BY Zenon DEF Init, Journal!JournalInit
<1>2. CInv /\ [Next]_vars => [Journal!Open \/ Journal!Save \/ Journal!Record]_runs
  <2> SUFFICES ASSUME CInv, [Next]_vars, runs' # runs
               PROVE  Journal!Open \/ Journal!Save \/ Journal!Record
    OBVIOUS
  <2>1. CASE CreateRun \/ SaveBook \/ AppendAudit
    BY <2>1, CommitIsJournalled DEF CreateRun, SaveBook, AppendAudit, At
  <2>2. ASSUME NEW committed \in BOOLEAN, StoreFails(committed)
        PROVE  Journal!Open \/ Journal!Save \/ Journal!Record
    BY <2>2, CommitIsJournalled DEF StoreFails
  <2>3. ASSUME NEW key \in Keys, Execute(key) PROVE FALSE
    BY <2>3 DEF Execute, BeginUnaudited, BeginRefused, BeginAudited, BeginTick, BeginLoad,
                LoadRefused
  <2>4. ASSUME NEW d \in 0 .. 1, EmitAndContinue(d) PROVE FALSE
    BY <2>4 DEF EmitAndContinue
  <2>5. CASE EmitAndAnswer \/ EmitAndReject \/ Crash \/ UNCHANGED vars
    BY <2>5 DEF EmitAndAnswer, EmitAndReject, Crash, vars
  <2> QED BY <2>1, <2>2, <2>3, <2>4, <2>5 DEF Next
<1> QED BY <1>1, <1>2, CInvAlways, PTL DEF Spec, JournalRefinement, Journal!JournalSpec
=============================================================================
