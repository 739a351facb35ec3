---------------------------- MODULE PaperCommands ----------------------------
(***************************************************************************)
(* How a command of the paper session is executed, whatever it does to the *)
(* book: the idempotency table, the event stream in memory, and the store  *)
(* behind it, which takes the book and the audit in two transactions.      *)
(* Models: paper/session.py (execute, load, tick, _reset_book,             *)
(* _persist_and_emit, _emit), persistence/paper_sql_store.py.              *)
(*                                                                         *)
(* Commands run one at a time in the event loop.  A command is cut at its  *)
(* transactions: the store may fail, with or without having committed, and *)
(* the process may die.  It comes back empty, since no code reads the      *)
(* store again.  A request whose key is in the table changes nothing: it   *)
(* gets the old answer, or an error if its payload is another.             *)
(***************************************************************************)
EXTENDS Sequences, Naturals

CONSTANTS
  Keys,        \* idempotency keys
  MaxBatch,    \* journalled steps of one tick, besides its own event
  MaxLoads,    \* bounds the books
  MaxVersion,  \* bounds the changes of a book
  MaxEvents,   \* bounds the event stream and the audit of a run
  None

VARIABLES
  table,    \* the keys in the idempotency table
  run,      \* the run the session writes to, 0 for none
  book,     \* the book in memory: of which load, and how often changed since
  events,   \* the event stream
  handler,  \* the command that is running
  runs,     \* the stored runs: the book and the audit of each
  answered, \* history: per key, the requests executed to an answer since the start
  acked     \* history: run and book version of the last answer that was audited

vars == <<table, run, book, events, handler, runs, answered, acked>>
-----------------------------------------------------------------------------
Book == [load : Nat, version : Nat]

\* None is no book.
ASSUME CommandsAssumption ==
  /\ {MaxBatch, MaxLoads, MaxVersion, MaxEvents} \subseteq Nat
  /\ None \notin Book

Event == [version : Nat, audited : BOOLEAN]
Run == [book : Book \cup {None}, audit : Seq(Nat)]

\* create: the run is to be created; save, audit, emit: the next thing
\* _persist_and_emit does; left: journalled steps a tick has yet to make.
Handler == [key : Keys, step : {"create", "save", "audit", "emit"},
            audited : BOOLEAN, rejects : BOOLEAN, left : Nat]

Init ==
  /\ table = {}
  /\ run = 0 /\ book = [load |-> 0, version |-> 0] /\ events = <<>>
  /\ handler = None
  /\ runs = <<>>
  /\ answered = [k \in Keys |-> 0] /\ acked = None

-----------------------------------------------------------------------------
(* execute: a key the table does not know *)

Fresh(key) == handler = None /\ key \notin table

\* _persist_and_emit reaches for the store only while there is a run.
FirstStep == IF run # 0 THEN "save" ELSE "emit"

\* Bounds a behaviour: n more events and rows, and one.
Room(n) == /\ Len(events) + n < MaxEvents
           /\ run # 0 => Len(runs[run].audit) + n < MaxEvents

\* A changed book has the next version.
Change(d) ==
  /\ book.version + d <= MaxVersion
  /\ book' = [book EXCEPT !.version = @ + d]

\* start, pause, resume, stop, enable: an event of the stream alone.
BeginUnaudited(key) ==
  /\ Fresh(key)
  /\ Room(0)
  /\ handler' = [key |-> key, step |-> "emit",
                 audited |-> FALSE, rejects |-> FALSE, left |-> 0]
  /\ UNCHANGED <<table, run, book, events, runs, answered, acked>>

\* Any other command but load and tick; it may leave the book as it is.
BeginAudited(key, d) ==
  /\ Fresh(key)
  /\ Room(0)
  /\ Change(d)
  /\ handler' = [key |-> key, step |-> FirstStep,
                 audited |-> TRUE, rejects |-> FALSE, left |-> 0]
  /\ UNCHANGED <<table, run, events, runs, answered, acked>>

\* Mode, budget, bind or promotion refused: the refusal is journalled, then raised.
BeginRefused(key) ==
  /\ Fresh(key)
  /\ Room(0)
  /\ handler' = [key |-> key, step |-> FirstStep,
                 audited |-> TRUE, rejects |-> TRUE, left |-> 0]
  /\ UNCHANGED <<table, run, book, events, runs, answered, acked>>

\* tick: n steps, each journalled with the book it leaves, and the tick itself.
BeginTick(key, n, d) ==
  /\ Fresh(key)
  /\ run # 0
  /\ Room(n)
  /\ Change(d)
  /\ handler' = [key |-> key, step |-> "save",
                 audited |-> TRUE, rejects |-> FALSE, left |-> n]
  /\ UNCHANGED <<table, run, events, runs, answered, acked>>

\* _reset_book: a new book, an empty stream, no run.  The table stays.
Reset ==
  /\ book.load < MaxLoads
  /\ book' = [load |-> book.load + 1, version |-> 0]
  /\ events' = <<>>

\* Mutant of BeginLoad: the session keeps its run until it has another.
BeginLoadKeepsRun(key) ==
  /\ Fresh(key)
  /\ Reset
  /\ handler' = [key |-> key, step |-> "create",
                 audited |-> TRUE, rejects |-> FALSE, left |-> 0]
  /\ UNCHANGED <<table, run, runs, answered, acked>>

\* Mutant of BeginLoad: a new run, a new table.
BeginLoadClearsTable(key) ==
  /\ Fresh(key)
  /\ Reset
  /\ run' = 0
  /\ table' = {}
  /\ handler' = [key |-> key, step |-> "create",
                 audited |-> TRUE, rejects |-> FALSE, left |-> 0]
  /\ UNCHANGED <<runs, answered, acked>>

BeginLoad(key) ==
  /\ Fresh(key)
  /\ Reset
  /\ run' = 0
  /\ handler' = [key |-> key, step |-> "create",
                 audited |-> TRUE, rejects |-> FALSE, left |-> 0]
  /\ UNCHANGED <<table, runs, answered, acked>>

\* The clock refuses the speed after the reset.
LoadRefused(key) ==
  /\ Fresh(key)
  /\ Reset
  /\ run' = 0
  /\ UNCHANGED <<table, handler, runs, answered, acked>>

-----------------------------------------------------------------------------
(* The transactions *)

At(step) == handler # None /\ handler.step = step

\* What the transaction the handler is at leaves in the store.
Committed ==
  CASE handler.step = "create" -> Append(runs, [book |-> None, audit |-> <<>>])
    [] handler.step = "save" -> [runs EXCEPT ![run].book = book]
    [] handler.step = "audit" -> [runs EXCEPT ![run].audit = Append(@, book.version)]

CreateRun ==
  /\ At("create")
  /\ runs' = Committed
  /\ run' = Len(runs')
  /\ handler' = [handler EXCEPT !.step = "save"]
  /\ UNCHANGED <<table, book, events, answered, acked>>

\* Mutant of SaveBook: the book is written when the command is answered.
SaveBookLater ==
  /\ At("save")
  /\ handler' = [handler EXCEPT !.step = "audit"]
  /\ UNCHANGED <<table, run, book, events, runs, answered, acked>>

SaveBook ==
  /\ At("save")
  /\ runs' = Committed
  /\ handler' = [handler EXCEPT !.step = "audit"]
  /\ UNCHANGED <<table, run, book, events, answered, acked>>

AppendAudit ==
  /\ At("audit")
  /\ runs' = Committed
  /\ handler' = [handler EXCEPT !.step = "emit"]
  /\ UNCHANGED <<table, run, book, events, answered, acked>>

\* Mutant of StoreFails: the event is emitted whatever the store does.
StoreFailsAfterEmit(committed) ==
  /\ handler # None /\ handler.step # "emit"
  /\ runs' = (IF committed THEN Committed ELSE runs)
  /\ handler' = None
  /\ events' = Append(events, [version |-> book.version, audited |-> run # 0])
  /\ UNCHANGED <<table, run, book, answered, acked>>

\* The transaction raises, or the handler did before it got there, and the
\* caller gets an error; committed: only the acknowledgement was lost.
StoreFails(committed) ==
  /\ handler # None /\ handler.step # "emit"
  /\ runs' = (IF committed THEN Committed ELSE runs)
  /\ handler' = None
  /\ UNCHANGED <<table, run, book, events, answered, acked>>

Emit ==
  /\ At("emit")
  /\ events' = Append(events, [version |-> book.version,
                               audited |-> handler.audited /\ run # 0])

\* The tick goes on to its next step, which may change the book.
EmitAndContinue(d) ==
  /\ Emit /\ handler.left > 0
  /\ Change(d)
  /\ handler' = [handler EXCEPT !.step = "save", !.left = @ - 1]
  /\ UNCHANGED <<table, run, runs, answered, acked>>

\* The command has its answer, and its key with it.
EmitAndAnswer ==
  /\ Emit /\ handler.left = 0 /\ ~handler.rejects
  /\ table' = table \cup {handler.key}
  /\ answered' = [answered EXCEPT ![handler.key] = @ + 1]
  /\ acked' = (IF handler.audited /\ run # 0
               THEN [run |-> run, version |-> book.version] ELSE acked)
  /\ handler' = None
  /\ UNCHANGED <<run, book, runs>>

\* A refusal raises: the key stays free.
EmitAndReject ==
  /\ Emit /\ handler.rejects
  /\ handler' = None
  /\ UNCHANGED <<table, run, book, runs, answered, acked>>

\* The process dies and is started again.
Crash ==
  /\ book.load < MaxLoads
  /\ book' = [load |-> book.load + 1, version |-> 0]
  /\ table' = {}
  /\ run' = 0
  /\ events' = <<>>
  /\ handler' = None
  /\ answered' = [k \in Keys |-> 0]
  /\ UNCHANGED <<runs, acked>>

-----------------------------------------------------------------------------
Execute(key) ==
  \/ BeginUnaudited(key) \/ BeginRefused(key)
  \/ \E d \in 0 .. 1 : BeginAudited(key, d)
  \/ \E n \in 0 .. MaxBatch, d \in 0 .. 1 : BeginTick(key, n, d)
  \/ BeginLoad(key) \/ LoadRefused(key)

Next ==
  \/ \E key \in Keys : Execute(key)
  \/ CreateRun \/ SaveBook \/ AppendAudit
  \/ \E committed \in BOOLEAN : StoreFails(committed)
  \/ \E d \in 0 .. 1 : EmitAndContinue(d)
  \/ EmitAndAnswer \/ EmitAndReject
  \/ Crash

Spec == Init /\ [][Next]_vars
-----------------------------------------------------------------------------
(* Properties *)

\* Every variable keeps the shape the code gives it.
CommandsTypeOK ==
  /\ table \subseteq Keys
  /\ run \in 0 .. Len(runs)
  /\ book \in Book
  /\ events \in Seq(Event)
  /\ handler \in Handler \cup {None}
  /\ runs \in Seq(Run)
  /\ answered \in [Keys -> Nat]
  /\ acked \in [run : 1 .. Len(runs), version : Nat] \cup {None}

\* Until the process dies a key is answered by one execution, whatever is
\* loaded, refused or retried in between (session.py, execute).
KeyAnsweredOnce == \A k \in Keys : answered[k] <= 1

\* The events of the stream that go through the audit.
Told == {i \in DOMAIN events : events[i].audited}

\* The stream is what the audit says, as far as it is audited: every audited
\* event has its row, in the same order, whichever transactions failed; rows
\* whose acknowledgement was lost are the only ones the stream does not have
\* (session.py, _persist_and_emit).
StreamIsAudited ==
  Told # {} =>
    /\ run # 0
    /\ \E row \in [Told -> DOMAIN runs[run].audit] :
         \A i, j \in Told :
           /\ runs[run].audit[row[i]] = events[i].version
           /\ i < j => row[i] < row[j]

\* What a client was told is done is in the store, and stays there through
\* failures, other runs and restarts (_persist_and_emit before the answer).
AcknowledgedIsStored ==
  acked # None =>
    /\ runs[acked.run].book # None
    /\ runs[acked.run].book.version >= acked.version

Journal == INSTANCE PaperJournal

\* Whatever fails or dies between the transactions, each stored run is the
\* journal of one book: nobody writes to a run after the next one, the stored
\* book never goes back, and no audit row tells a book that is not stored.
JournalRefinement == Journal!JournalSpec
=============================================================================
