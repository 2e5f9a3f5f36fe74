----------------------------- MODULE WriterLock ------------------------------
(* backend/catalog_writer_lock.py: the connections of the catalogue database *)
(* take an advisory flock before a statement that may write and give it back *)
(* when their transaction ends. A step of this module is one call of the     *)
(* connection's methods, or one of the two halves of a statement that needs  *)
(* the lock: the wait for the flock and the execution under it.              *)
(*                                                                           *)
(* SQLite has a write lock of its own: `tx[c]` says whether connection c has *)
(* no transaction, one that has begun (BEGIN, nothing written yet) or one    *)
(* that holds SQLite's write lock ("write"). `in_transaction` is the test    *)
(* tx[c] # "none".                                                           *)
EXTENDS Naturals

CONSTANTS
  Conns,          \* connection objects that may exist at one time
  Processes,      \* the processes that open the file
  ProcessOf,      \* the process of each connection
  Patience,       \* ticks until `deadline`: the timeout of connect()
  NoConn

ASSUME LockAssumption ==
  /\ Patience \in Nat
  /\ ProcessOf \in [Conns -> Processes]
  /\ Conns \cap Processes = {}
  /\ NoConn \notin Conns \cup Processes

(* dml: INSERT, UPDATE, DELETE, REPLACE; begin: BEGIN IMMEDIATE; auto: every  *)
(* other statement that is not known to be read-only; script: executescript.  *)
Locked == {"dml", "begin", "auto", "script"}
Kinds == Locked \cup {"select"}

VARIABLES
  flock,    \* who holds the lock file: a connection, NoConn, or a process, for
            \* a descriptor that no connection object refers to any more
  conn,     \* conn[c]: the fields of connection c
  waited    \* waited[c]: ticks left of c's deadline

lockVars == <<flock, conn, waited>>

(* open: the object exists; fd: `_writer_lock_fd is not None`; doing: the kind *)
(* of the statement being executed; at: where execute() is; failedEnd: history, *)
(* a commit or rollback of the transaction now open has raised.                *)
Conn == [open : BOOLEAN, fd : BOOLEAN, tx : {"none", "begun", "write"},
         doing : Kinds, at : {"idle", "acquire", "locked"}, failedEnd : BOOLEAN]

ClosedConn == [open |-> FALSE, fd |-> FALSE, tx |-> "none", doing |-> "select",
           at |-> "idle", failedEnd |-> FALSE]

LockType ==
  /\ flock \in Conns \cup Processes \cup {NoConn}
  /\ conn \in [Conns -> Conn]
  /\ waited \in [Conns -> 0 .. Patience]

LockInit ==
  /\ flock = NoConn
  /\ conn = [c \in Conns |-> ClosedConn]
  /\ waited = [c \in Conns |-> 0]

--------------------------------------------------------------------------------
(* SQLite admits one writer. *)
AnotherWrites(c) == \E d \in Conns \ {c} : conn[d].tx = "write"

NeedsWriterLock(kind) == kind \in Locked

(* `_release_writer_lock`: c's descriptor, if it has one, is unlocked and closed. *)
FlockAfterRelease(c) == IF flock = c THEN NoConn ELSE flock

(* The connection after its call returned or raised in transaction state `tx`. *)
Settled(c, tx, keepsFd) ==
  [conn[c] EXCEPT !.tx = tx, !.at = "idle", !.doing = "select", !.fd = keepsFd,
                  !.failedEnd = (@ /\ tx # "none")]

Connect(c) ==
  /\ ~conn[c].open
  /\ conn' = [conn EXCEPT ![c] = [ClosedConn EXCEPT !.open = TRUE]]
  /\ UNCHANGED <<flock, waited>>

(* execute, executemany, executescript and their cursor forms: a statement that *)
(* needs the lock waits for it unless the connection has it already.            *)
Call(c, kind) ==
  /\ conn[c].open /\ conn[c].at = "idle"
  /\ LET waits == NeedsWriterLock(kind) /\ ~conn[c].fd IN
     /\ conn' = [conn EXCEPT ![c].doing = kind,
                             ![c].at = IF waits THEN "acquire" ELSE "locked"]
     /\ waited' = IF waits THEN [waited EXCEPT ![c] = Patience] ELSE waited
  /\ UNCHANGED flock

\* Mutation of Acquire: the flock is a shared one.
AcquireShared(c) ==
  /\ conn[c].at = "acquire"
  /\ flock' = c
  /\ conn' = [conn EXCEPT ![c].fd = TRUE, ![c].at = "locked"]
  /\ waited' = [waited EXCEPT ![c] = 0]

(* One successful round of the loop around flock(LOCK_EX | LOCK_NB). *)
Acquire(c) ==
  /\ conn[c].at = "acquire"
  /\ flock = NoConn
  /\ flock' = c
  /\ conn' = [conn EXCEPT ![c].fd = TRUE, ![c].at = "locked"]
  /\ waited' = [waited EXCEPT ![c] = 0]

\* Mutation of AcquireTimesOut: the deadline is computed anew in every round.
AcquireTriesAgain(c) ==
  /\ conn[c].at = "acquire" /\ flock # NoConn /\ waited[c] = 0
  /\ waited' = [waited EXCEPT ![c] = Patience]
  /\ UNCHANGED <<flock, conn>>

(* BlockingIOError after the deadline: the descriptor is closed and "database is *)
(* locked" is raised; the statement was not executed.                            *)
AcquireTimesOut(c) ==
  /\ conn[c].at = "acquire"
  /\ flock # NoConn
  /\ waited[c] = 0
  /\ conn' = [conn EXCEPT ![c].at = "idle", ![c].doing = "select"]
  /\ UNCHANGED <<flock, waited>>

(* The transaction states a statement of this kind can leave behind. A failing *)
(* DML statement leaves the implicit BEGIN open, with SQLite's write lock if it *)
(* got that far. A script first commits what is open and may begin anew.        *)
TxAfter(c, kind) ==
  LET free == ~AnotherWrites(c)
      old == conn[c].tx IN
  CASE kind = "select" -> {old}
    [] kind = "auto" -> {old}
    [] kind = "dml" -> (IF old = "write" THEN {} ELSE {"begun"})
                       \cup (IF free THEN {"write"} ELSE {})
    [] kind = "begin" -> {old} \cup (IF free THEN {"write"} ELSE {})
    [] kind = "script" -> {old, "none"} \cup (IF free THEN {"write"} ELSE {})

\* Mutation of ReleaseUnlessOpen: released after every statement.
ReleaseAlways(c, tx) == conn[c].fd

(* The statement runs, successfully or not: both branches release the lock when *)
(* no transaction is open afterwards, and keep it otherwise.                    *)
ReleaseUnlessOpen(c, tx) == conn[c].fd /\ tx = "none"

Execute(c) ==
  /\ conn[c].at = "locked"
  /\ \E tx \in TxAfter(c, conn[c].doing) :
       /\ conn' = [conn EXCEPT ![c] =
                     Settled(c, tx, conn[c].fd /\ ~ReleaseUnlessOpen(c, tx))]
       /\ flock' = IF ReleaseUnlessOpen(c, tx) THEN FlockAfterRelease(c) ELSE flock
  /\ UNCHANGED waited

(* commit, rollback and __exit__: the lock is released in a `finally`. A COMMIT *)
(* that raises may leave the transaction as it was or rolled back.              *)
EndTransaction(c) ==
  /\ conn[c].open /\ conn[c].at = "idle"
  /\ \E fails \in BOOLEAN, tx \in {"none", conn[c].tx} :
       /\ ~fails => tx = "none"
       /\ conn' = [conn EXCEPT ![c] = [Settled(c, tx, FALSE) EXCEPT
                                         !.failedEnd = fails /\ tx # "none"]]
  /\ flock' = FlockAfterRelease(c)
  /\ UNCHANGED waited

(* close: SQLite rolls the transaction back. *)
Close(c) ==
  /\ conn[c].open /\ conn[c].at = "idle"
  /\ conn' = [conn EXCEPT ![c] = ClosedConn]
  /\ flock' = FlockAfterRelease(c)
  /\ UNCHANGED waited

(* A caller that closes its connection outside a `finally` (_set_sync_state,    *)
(* sync_all) leaves on an exception: the object is collected, SQLite rolls back, *)
(* and the descriptor, a plain integer, stays open and locked.                  *)
Abandon(c) ==
  /\ conn[c].open /\ conn[c].at = "idle"
  /\ conn' = [conn EXCEPT ![c] = ClosedConn]
  /\ flock' = IF conn[c].fd THEN ProcessOf[c] ELSE flock
  /\ UNCHANGED waited

(* The system closes the descriptors of a process that ends. *)
Exit(p) ==
  /\ conn' = [c \in Conns |-> IF ProcessOf[c] = p THEN ClosedConn ELSE conn[c]]
  /\ flock' = IF flock = p \/ (flock \in Conns /\ ProcessOf[flock] = p)
              THEN NoConn ELSE flock
  /\ waited' = [c \in Conns |-> IF ProcessOf[c] = p THEN 0 ELSE waited[c]]

(* Time passes for the connections that wait. *)
LockTick ==
  /\ \E c \in Conns : conn[c].at = "acquire" /\ waited[c] > 0
  /\ waited' = [c \in Conns |-> IF conn[c].at = "acquire" /\ waited[c] > 0
                                THEN waited[c] - 1 ELSE waited[c]]
  /\ UNCHANGED <<flock, conn>>

LockNext ==
  \/ \E c \in Conns :
       \/ Connect(c) \/ Acquire(c) \/ AcquireTimesOut(c) \/ Execute(c)
       \/ EndTransaction(c) \/ Close(c) \/ Abandon(c)
       \/ \E kind \in Kinds : Call(c, kind)
  \/ \E p \in Processes : Exit(p)
  \/ LockTick

LockSpec == LockInit /\ [][LockNext]_lockVars

(* The clock runs, and a connection that waits looks at the lock file often enough  *)
(* to take it or to see that its time is over. Nothing is assumed of the holder.    *)
LockFairness ==
  /\ WF_lockVars(LockTick)
  /\ \A c \in Conns : WF_lockVars(Acquire(c) \/ AcquireTimesOut(c))

--------------------------------------------------------------------------------
(* A connection believes it has the lock exactly when it has it, never while it *)
(* waits for it, and a call that has returned keeps it only for a transaction.  *)
LockBelief ==
  \A c \in Conns :
    /\ conn[c].fd <=> flock = c
    /\ conn[c].at = "acquire" => ~conn[c].fd
    /\ conn[c].fd /\ conn[c].at = "idle" => conn[c].tx # "none"
    /\ conn[c].at = "locked" /\ NeedsWriterLock(conn[c].doing) => conn[c].fd
    /\ ~conn[c].open => conn[c] = ClosedConn

(* Safety: a transaction that is open without the lock is one whose COMMIT or   *)
(* ROLLBACK has raised; no other path (a failed statement, a time-out, a script, *)
(* a read in between) gives the lock up while a transaction is open.            *)
OpenTransactionIsLocked ==
  \A c \in Conns : conn[c].tx # "none" /\ ~conn[c].fd => conn[c].failedEnd

(* Safety: two connections in a write transaction never both hold their lock for *)
(* it, and SQLite's own lock is not what separates two transactions unless a     *)
(* COMMIT or ROLLBACK raised.                                                    *)
WritersAreSerial ==
  \A c, d \in Conns :
    c # d /\ conn[c].tx # "none" /\ conn[d].tx # "none"
      => conn[c].failedEnd \/ conn[d].failedEnd

LockInv == LockType /\ LockBelief /\ OpenTransactionIsLocked /\ WritersAreSerial

(* The lock is one turn: what WriterMutex promises. *)
LostTurn == "lost"
Mutex == INSTANCE WriterMutex WITH
           turn <- IF flock \in Processes THEN LostTurn ELSE flock
LockIsATurn == Mutex!TurnSpec

(* A statement never waits for ever, also when the holder is the same thread on     *)
(* another connection or a descriptor that nobody will close.                       *)
WaitEnds == \A c \in Conns : conn[c].at = "acquire" ~> conn[c].at # "acquire"

(* Safety, violated: the lock is held "until COMMIT/ROLLBACK", that is, by a     *)
(* connection with a transaction to end and not by a forgotten descriptor.       *)
LockHasAHolder == flock \in Conns \cup {NoConn}
================================================================================
