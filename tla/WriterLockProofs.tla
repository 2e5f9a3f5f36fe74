--------------------------- MODULE WriterLockProofs ---------------------------
(* Proofs about the writer lock. LockInv is inductive once it is said of one    *)
(* connection at a time; the serial order of the writers follows from the rest: *)
(* two descriptors cannot both have the flock. With it, the lock implements     *)
(* WriterMutex.                                                                 *)
EXTENDS WriterLock, TLAPS

(* What LockBelief and OpenTransactionIsLocked say of connection c, whose fields *)
(* are k, when f has the lock file.                                              *)
ConnOK(c, k, f) ==
  /\ k.fd <=> f = c
  /\ k.at = "acquire" => ~k.fd
  /\ k.fd /\ k.at = "idle" => k.tx # "none"
  /\ k.at = "locked" /\ NeedsWriterLock(k.doing) => k.fd
  /\ ~k.open => k = ClosedConn
  /\ k.tx # "none" /\ ~k.fd => k.failedEnd

LockIInv == LockType /\ \A c \in Conns : ConnOK(c, conn[c], flock)

\* The inductive invariant implies the one the runs check.
LEMMA LockIInvImplies == LockIInv => LockInv
<1> SUFFICES ASSUME LockIInv PROVE LockInv
  OBVIOUS
<1>1. \A c \in Conns : conn[c].fd <=> flock = c
  BY DEF LockIInv, ConnOK
<1>2. LockBelief /\ OpenTransactionIsLocked
  BY DEF LockIInv, ConnOK, LockBelief, OpenTransactionIsLocked
<1>3. WritersAreSerial
  BY <1>1, <1>2 DEF WritersAreSerial, OpenTransactionIsLocked
<1> QED
  BY <1>2, <1>3 DEF LockIInv, LockInv

\* A step of connection c that leaves the lock of the others alone.
LEMMA OneConn ==
  ASSUME LockIInv, NEW c \in Conns, NEW k \in Conn,
         conn' = [conn EXCEPT ![c] = k],
         flock' \in Conns \cup Processes \cup {NoConn},
         \A d \in Conns \ {c} : flock' = d <=> flock = d,
         ConnOK(c, k, flock'),
         waited' \in [Conns -> 0 .. Patience]
  PROVE  LockIInv'
<1>1. conn' \in [Conns -> Conn]
  BY DEF LockIInv, LockType
<1>2. ASSUME NEW d \in Conns PROVE ConnOK(d, conn'[d], flock')
  <2>1. CASE d = c
    BY <2>1 DEF LockIInv, LockType
  <2>2. CASE d # c
    <3>1. conn'[d] = conn[d] /\ (flock' = d <=> flock = d)
      BY <2>2 DEF LockIInv, LockType
    <3>2. ConnOK(d, conn[d], flock)
      BY DEF LockIInv
    <3> QED
      BY <3>1, <3>2 DEF ConnOK
  <2> QED
    BY <2>1, <2>2
<1> QED
  BY <1>1, <1>2 DEF LockIInv, LockType

\* What is known of connection c.
LEMMA ConnFacts ==
  ASSUME LockIInv, NEW c \in Conns
  PROVE  /\ conn[c] \in Conn /\ ConnOK(c, conn[c], flock)
         /\ flock \in Conns \cup Processes \cup {NoConn}
         /\ waited \in [Conns -> 0 .. Patience]
         /\ 0 \in 0 .. Patience /\ Patience \in 0 .. Patience
         /\ c \notin Processes /\ c # NoConn
  BY LockAssumption DEF LockIInv, LockType

LEMMA SettledConn ==
  ASSUME LockIInv, NEW c \in Conns, NEW tx \in {"none", "begun", "write"}, NEW keeps \in BOOLEAN
  PROVE  /\ Settled(c, tx, keeps) \in Conn
         /\ Settled(c, tx, keeps).fd = keeps /\ Settled(c, tx, keeps).at = "idle"
         /\ Settled(c, tx, keeps).tx = tx /\ Settled(c, tx, keeps).open = conn[c].open
         /\ Settled(c, tx, keeps).failedEnd = (conn[c].failedEnd /\ tx # "none")
  BY ConnFacts DEF Settled, Conn, Kinds, Locked

LEMMA ClosedConnOK ==
  ASSUME NEW c \in Conns, NEW f, f # c
  PROVE  ClosedConn \in Conn /\ ConnOK(c, ClosedConn, f)
  BY DEF ClosedConn, Conn, ConnOK, Kinds, Locked

LEMMA ReleasedByOthers ==
  ASSUME LockIInv, NEW c \in Conns
  PROVE  /\ FlockAfterRelease(c) \in Conns \cup Processes \cup {NoConn}
         /\ FlockAfterRelease(c) # c
         /\ \A d \in Conns \ {c} : FlockAfterRelease(c) = d <=> flock = d
  BY ConnFacts, LockAssumption DEF FlockAfterRelease

-----------------------------------------------------------------------------
LEMMA ConnectOK ==
  ASSUME LockIInv, NEW c \in Conns, Connect(c) PROVE LockIInv'
<1> DEFINE k == [ClosedConn EXCEPT !.open = TRUE]
<1>1. ~conn[c].fd /\ flock # c
  BY ConnFacts DEF Connect, ConnOK, ClosedConn
<1>2. k \in Conn /\ ConnOK(c, k, flock)
  BY <1>1 DEF ClosedConn, Conn, ConnOK, Kinds, Locked
<1> QED
  BY <1>2, OneConn, ConnFacts DEF Connect

LEMMA CallOK ==
  ASSUME LockIInv, NEW c \in Conns, NEW kind \in Kinds, Call(c, kind) PROVE LockIInv'
<1> DEFINE waits == NeedsWriterLock(kind) /\ ~conn[c].fd
           k == [conn[c] EXCEPT !.doing = kind, !.at = IF waits THEN "acquire" ELSE "locked"]
<1>1. conn' = [conn EXCEPT ![c] = k]
  BY ConnFacts DEF Call, LockIInv, LockType
<1>2. k \in Conn
  BY ConnFacts DEF Conn
<1>3. ConnOK(c, k, flock)
  BY ConnFacts DEF ConnOK, Conn, Call
<1>4. waited' \in [Conns -> 0 .. Patience]
  BY ConnFacts DEF Call
<1> QED
  BY <1>1, <1>2, <1>3, <1>4, OneConn, ConnFacts DEF Call

LEMMA AcquireOK ==
  ASSUME LockIInv, NEW c \in Conns, Acquire(c) PROVE LockIInv'
<1> DEFINE k == [conn[c] EXCEPT !.fd = TRUE, !.at = "locked"]
<1>1. conn' = [conn EXCEPT ![c] = k]
  BY DEF Acquire, LockIInv, LockType
<1>2. conn[c].open /\ conn[c] \in Conn
  BY ConnFacts DEF Acquire, ConnOK, ClosedConn
<1>5. /\ k \in Conn /\ k.fd = TRUE /\ k.at = "locked" /\ k.open /\ k.tx = conn[c].tx
  BY <1>2 DEF Conn
<1>6. ConnOK(c, k, c)
  BY <1>5 DEF ConnOK
<1>3. waited' \in [Conns -> 0 .. Patience]
  BY ConnFacts DEF Acquire
<1>4. \A d \in Conns \ {c} : flock' = d <=> flock = d
  BY LockAssumption DEF Acquire
<1> QED
  BY <1>1, <1>5, <1>6, <1>3, <1>4, OneConn, ConnFacts DEF Acquire

LEMMA AcquireTimesOutOK ==
  ASSUME LockIInv, NEW c \in Conns, AcquireTimesOut(c) PROVE LockIInv'
<1> DEFINE k == [conn[c] EXCEPT !.at = "idle", !.doing = "select"]
<1>1. conn' = [conn EXCEPT ![c] = k]
  BY DEF AcquireTimesOut, LockIInv, LockType
<1>2. conn[c].open /\ conn[c] \in Conn /\ ~conn[c].fd /\ flock # c
  BY ConnFacts DEF AcquireTimesOut, ConnOK, ClosedConn
<1>3. /\ k \in Conn /\ k.fd = conn[c].fd /\ k.at = "idle" /\ k.open /\ k.tx = conn[c].tx
      /\ k.failedEnd = conn[c].failedEnd
  BY <1>2 DEF Conn, Kinds, Locked
<1>4. ConnOK(c, k, flock)
  BY <1>2, <1>3, ConnFacts DEF ConnOK
<1> QED
  BY <1>1, <1>3, <1>4, OneConn, ConnFacts DEF AcquireTimesOut

LEMMA ExecuteOK ==
  ASSUME LockIInv, NEW c \in Conns, Execute(c) PROVE LockIInv'
<1>1. PICK tx \in TxAfter(c, conn[c].doing) :
        /\ conn' = [conn EXCEPT ![c] = Settled(c, tx, conn[c].fd /\ ~ReleaseUnlessOpen(c, tx))]
        /\ flock' = IF ReleaseUnlessOpen(c, tx) THEN FlockAfterRelease(c) ELSE flock
  BY DEF Execute
<1> DEFINE keeps == conn[c].fd /\ ~ReleaseUnlessOpen(c, tx)
           k == Settled(c, tx, keeps)
<1>2. tx \in {"none", "begun", "write"}
  BY <1>1, ConnFacts DEF TxAfter, Conn, Kinds, Locked
<1>3. conn[c].doing = "select" => tx = conn[c].tx
  BY <1>1 DEF TxAfter
<1>4. keeps \in BOOLEAN /\ (keeps <=> conn[c].fd /\ tx # "none")
  BY ConnFacts DEF Conn, ReleaseUnlessOpen
<1>5. k \in Conn /\ k.fd = keeps /\ k.at = "idle" /\ k.tx = tx /\ k.open = conn[c].open
      /\ k.failedEnd = (conn[c].failedEnd /\ tx # "none")
  <2> HIDE DEF keeps
  <2> QED
    BY <1>2, <1>4, SettledConn
<1>6. conn[c].open
  BY ConnFacts DEF Execute, ConnOK, ClosedConn
<1>7. tx # "none" /\ ~keeps => conn[c].failedEnd
  <2>1. SUFFICES ASSUME tx # "none", ~keeps PROVE conn[c].failedEnd
    OBVIOUS
  <2>2. ~conn[c].fd
    BY <2>1, <1>4
  <2>3. conn[c].doing = "select"
    BY <2>2, ConnFacts DEF Execute, ConnOK, Conn, Kinds, NeedsWriterLock
  <2> QED
    BY <2>1, <2>2, <2>3, <1>3, ConnFacts DEF ConnOK
<1>8. keeps <=> flock' = c
  BY <1>1, <1>4, ConnFacts, ReleasedByOthers DEF ConnOK, ReleaseUnlessOpen
<1>9. ConnOK(c, k, flock')
  BY <1>5, <1>6, <1>7, <1>8, <1>4 DEF ConnOK
<1>10. /\ flock' \in Conns \cup Processes \cup {NoConn}
       /\ \A d \in Conns \ {c} : flock' = d <=> flock = d
  BY <1>1, ConnFacts, ReleasedByOthers
<1>11. waited' = waited
  BY DEF Execute
<1> QED
  BY <1>1, <1>5, <1>9, <1>10, <1>11, OneConn, ConnFacts

LEMMA EndTransactionOK ==
  ASSUME LockIInv, NEW c \in Conns, EndTransaction(c) PROVE LockIInv'
<1>1. PICK fails \in BOOLEAN, tx \in {"none", conn[c].tx} :
        /\ ~fails => tx = "none"
        /\ conn' = [conn EXCEPT ![c] = [Settled(c, tx, FALSE) EXCEPT !.failedEnd = fails /\ tx # "none"]]
  BY DEF EndTransaction
<1> DEFINE s == Settled(c, tx, FALSE)
           k == [s EXCEPT !.failedEnd = fails /\ tx # "none"]
<1>2. tx \in {"none", "begun", "write"}
  BY <1>1, ConnFacts DEF Conn
<1>7. s \in Conn /\ s.fd = FALSE /\ s.at = "idle" /\ s.tx = tx /\ s.open = conn[c].open
  BY <1>2, SettledConn
<1>3. /\ k \in Conn /\ k.fd = FALSE /\ k.at = "idle" /\ k.tx = tx /\ k.open = conn[c].open
      /\ k.failedEnd <=> fails /\ tx # "none"
  <2> HIDE DEF s
  <2> QED
    BY <1>7 DEF Conn
<1>6. tx # "none" => fails
  BY <1>1
<1>5. /\ conn[c].open /\ FlockAfterRelease(c) # c /\ (tx # "none" => k.failedEnd)
  <2> HIDE DEF k
  <2>1. conn[c].open /\ FlockAfterRelease(c) # c
    BY ReleasedByOthers DEF EndTransaction
  <2>2. tx # "none" => k.failedEnd
    BY <1>3, <1>6
  <2> QED
    BY <2>1, <2>2
<1>4. ConnOK(c, k, FlockAfterRelease(c))
  BY <1>3, <1>5 DEF ConnOK
<1> QED
  BY <1>1, <1>3, <1>4, OneConn, ConnFacts, ReleasedByOthers DEF EndTransaction

LEMMA CloseOK ==
  ASSUME LockIInv, NEW c \in Conns, Close(c) PROVE LockIInv'
  BY OneConn, ConnFacts, ReleasedByOthers, ClosedConnOK DEF Close

LEMMA AbandonOK ==
  ASSUME LockIInv, NEW c \in Conns, Abandon(c) PROVE LockIInv'
<1>1. /\ flock' \in Conns \cup Processes \cup {NoConn}
      /\ flock' # c
      /\ \A d \in Conns \ {c} : flock' = d <=> flock = d
  BY ConnFacts, LockAssumption DEF Abandon, ConnOK
<1>2. ClosedConn \in Conn /\ ConnOK(c, ClosedConn, flock')
  BY <1>1, ClosedConnOK
<1> QED
  BY <1>1, <1>2, OneConn, ConnFacts DEF Abandon

LEMMA ExitOK ==
  ASSUME LockIInv, NEW p \in Processes, Exit(p) PROVE LockIInv'
<1>1. /\ flock' \in Conns \cup Processes \cup {NoConn}
      /\ \A c \in Conns : flock' = c <=> flock = c /\ ProcessOf[c] # p
  BY LockAssumption DEF Exit, LockIInv, LockType
<1>2. waited' \in [Conns -> 0 .. Patience]
  BY LockAssumption DEF Exit, LockIInv, LockType
<1>3. ClosedConn \in Conn
  BY DEF ClosedConn, Conn, Kinds, Locked
<1>4. conn' \in [Conns -> Conn]
  BY <1>3 DEF Exit, LockIInv, LockType
<1>5. ASSUME NEW c \in Conns PROVE ConnOK(c, conn'[c], flock')
  <2>1. CASE ProcessOf[c] = p
    BY <2>1, <1>1, ClosedConnOK DEF Exit
  <2>2. CASE ProcessOf[c] # p
    <3>1. conn'[c] = conn[c] /\ (flock' = c <=> flock = c)
      BY <2>2, <1>1 DEF Exit
    <3> QED
      BY <3>1, ConnFacts DEF ConnOK
  <2> QED
    BY <2>1, <2>2
<1> QED
  BY <1>1, <1>2, <1>4, <1>5 DEF LockIInv, LockType

LEMMA LockTickOK ==
  ASSUME LockIInv, LockTick PROVE LockIInv'
<1>1. waited' \in [Conns -> 0 .. Patience]
  BY LockAssumption DEF LockTick, LockIInv, LockType
<1> QED
  BY <1>1 DEF LockTick, LockIInv, LockType

LEMMA LockInitOK == LockInit => LockIInv
<1> SUFFICES ASSUME LockInit PROVE LockIInv
  OBVIOUS
<1>1. \A c \in Conns : ClosedConn \in Conn /\ ConnOK(c, ClosedConn, NoConn)
  BY ClosedConnOK, LockAssumption
<1>2. ClosedConn \in Conn
  BY DEF ClosedConn, Conn, Kinds, Locked
<1> QED
  BY <1>1, <1>2, LockAssumption DEF LockInit, LockIInv, LockType

LEMMA LockNextOK == LockIInv /\ [LockNext]_lockVars => LockIInv'
<1> SUFFICES ASSUME LockIInv, [LockNext]_lockVars PROVE LockIInv'
  OBVIOUS
<1>1. CASE UNCHANGED lockVars
  BY <1>1 DEF lockVars, LockIInv, LockType
<1>2. ASSUME NEW c \in Conns,
             \/ Connect(c) \/ Acquire(c) \/ AcquireTimesOut(c) \/ Execute(c)
             \/ EndTransaction(c) \/ Close(c) \/ Abandon(c)
      PROVE  LockIInv'
  BY <1>2, ConnectOK, AcquireOK, AcquireTimesOutOK, ExecuteOK, EndTransactionOK, CloseOK, AbandonOK
<1>3. ASSUME NEW c \in Conns, NEW kind \in Kinds, Call(c, kind) PROVE LockIInv'
  BY <1>3, CallOK
<1>4. ASSUME NEW p \in Processes, Exit(p) PROVE LockIInv'
  BY <1>4, ExitOK
<1>5. CASE LockTick
  BY <1>5, LockTickOK
<1> QED
  BY <1>1, <1>2, <1>3, <1>4, <1>5 DEF LockNext

-----------------------------------------------------------------------------
(* For any number of connections and processes: a connection knows whether it has  *)
(* the lock, keeps it for as long as its transaction is open unless a commit or     *)
(* rollback has raised, and two transactions are never open together otherwise      *)
(* (catalog_writer_lock.py:145-246).                                                *)
THEOREM LockInvariant == LockSpec => []LockInv
<1>1. LockSpec => []LockIInv
  BY LockInitOK, LockNextOK, PTL DEF LockSpec
<1> QED
  BY <1>1, LockIInvImplies, PTL

(* A step of a connection, of a process that ends or of the clock is a step of the  *)
(* mutex or leaves the turn where it was.                                           *)
LEMMA TurnStep ==
  ASSUME LockIInv, [LockNext]_lockVars
  PROVE  [Mutex!TurnNext]_(IF flock \in Processes THEN LostTurn ELSE flock)
<1> DEFINE turn == IF flock \in Processes THEN LostTurn ELSE flock
<1>0. flock \in Conns \cup Processes \cup {NoConn} /\ NoConn \notin Processes
      /\ Conns \cap Processes = {} /\ NoConn \notin Conns
  BY LockAssumption DEF LockIInv, LockType
<1>1. ASSUME flock' = flock PROVE turn' = turn
  BY <1>1
<1>2. ASSUME NEW c \in Conns, Acquire(c) PROVE Mutex!Take(c)
  BY <1>2, <1>0 DEF Acquire, Mutex!Take
<1>3. ASSUME NEW c \in Conns, flock' = FlockAfterRelease(c) PROVE turn' = turn \/ Mutex!Give(c)
  BY <1>3, <1>0 DEF FlockAfterRelease, Mutex!Give
<1>4. ASSUME NEW c \in Conns, Abandon(c) PROVE turn' = turn \/ Mutex!Lose(c)
  <2>1. conn[c].fd <=> flock = c
    BY DEF LockIInv, ConnOK
  <2> QED
    BY <2>1, <1>4, <1>0, LockAssumption DEF Abandon, Mutex!Lose
<1>5. ASSUME NEW p \in Processes, Exit(p)
      PROVE  turn' = turn \/ Mutex!Recover \/ \E c \in Conns : Mutex!Give(c)
  <2>1. CASE flock = p
    BY <2>1, <1>5, <1>0 DEF Exit, Mutex!Recover
  <2>2. CASE flock \in Conns /\ ProcessOf[flock] = p
    BY <2>2, <1>5, <1>0 DEF Exit, Mutex!Give
  <2>3. CASE flock # p /\ ~(flock \in Conns /\ ProcessOf[flock] = p)
    BY <2>3, <1>5 DEF Exit
  <2> QED
    BY <2>1, <2>2, <2>3
<1>6. ASSUME NEW c \in Conns, Execute(c) PROVE turn' = turn \/ Mutex!Give(c)
  BY <1>6, <1>1, <1>3 DEF Execute
<1>7. ASSUME NEW c \in Conns, Connect(c) \/ AcquireTimesOut(c) PROVE turn' = turn
  BY <1>7, <1>1 DEF Connect, AcquireTimesOut
<1>8. ASSUME NEW c \in Conns, NEW kind \in Kinds, Call(c, kind) PROVE turn' = turn
  BY <1>8, <1>1 DEF Call
<1>9. ASSUME NEW c \in Conns, EndTransaction(c) \/ Close(c) PROVE turn' = turn \/ Mutex!Give(c)
  BY <1>9, <1>3 DEF EndTransaction, Close
<1>10. LockTick \/ UNCHANGED lockVars => turn' = turn
  BY <1>1 DEF LockTick, lockVars
<1> QED
  BY <1>2, <1>4, <1>5, <1>6, <1>7, <1>8, <1>9, <1>10 DEF LockNext, Mutex!TurnNext

(* The lock is one turn, taken when it is free and given back or lost by its holder  *)
(* only, and got back when the process that lost it has ended.                       *)
THEOREM LockImplementsMutex == LockSpec => LockIsATurn
<1>1. LockSpec => []LockIInv
  BY LockInitOK, LockNextOK, PTL DEF LockSpec
<1>2. LockInit => Mutex!TurnInit
  BY LockAssumption DEF LockInit, Mutex!TurnInit
<1> QED
  BY <1>1, <1>2, TurnStep, PTL DEF LockSpec, LockIsATurn, Mutex!TurnSpec
===============================================================================
