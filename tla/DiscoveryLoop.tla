---------------------------- MODULE DiscoveryLoop ----------------------------
(* catalog_discovery_loop of backend/catalog_engine.py: the thread that visits *)
(* one store per interval, in turn, Deloox after every two other stores, never *)
(* while a user's search is running or has just ended. What a visit does is    *)
(* DiscoveryRuns; here it is one step. The thread shows other processes what   *)
(* it is doing by its name in /proc.                                           *)
EXTENDS Naturals

CONSTANTS
  Others,    \* non_deloox_stores, from 0
  NOthers,
  Deloox, Notino

ASSUME LoopAssumption ==
  /\ NOthers \in Nat \ {0}
  /\ Others \in [0 .. NOthers - 1 -> STRING \ {Deloox}]
  /\ \E i \in 0 .. NOthers - 1 : Others[i] = Notino

VARIABLES
  search,   \* foreground searches: running, within their idle grace, or none
  turn,     \* the loop's local variables that choose the next store
  loop,     \* where the loop is, and the store it visits
  comm,     \* its name in /proc
  unserved  \* history: visits to other stores since Deloox, or since a start

loopVars == <<search, turn, loop, comm, unserved>>
turnVars == <<turn, loop, comm, unserved>>

FirstTurn == [notino |-> TRUE, deloox |-> TRUE, next |-> 0, since |-> 0]
NoStore == "-"
LoopStores == {Others[i] : i \in 0 .. NOthers - 1} \cup {Deloox}

LoopType ==
  /\ search \in {"none", "grace", "running"}
  /\ turn \in [notino : BOOLEAN, deloox : BOOLEAN, next : 0 .. NOthers - 1, since : 0 .. 2]
  /\ loop \in [at : {"down", "gate", "visiting", "resting"},
               store : LoopStores \cup {NoStore}]
  /\ comm \in {"sh-catalog-idle", "sh-catalog-disc"}
  /\ unserved \in 0 .. 3

LoopInit ==
  /\ search = "none" /\ turn = FirstTurn
  /\ loop = [at |-> "down", store |-> NoStore]
  /\ comm = "sh-catalog-idle" /\ unserved = 0

--------------------------------------------------------------------------------
(* Users, and the end of the grace period. *)
SearchChanges ==
  /\ search' \in {"none", "grace", "running"} \ {search}
  /\ search = "none" => search' = "running"
  /\ search = "running" => search' = "grace"
  /\ UNCHANGED turnVars

StartLoop ==
  /\ loop.at = "down"
  /\ loop' = [at |-> "gate", store |-> NoStore]
  /\ comm' = "sh-catalog-idle"
  /\ UNCHANGED <<search, turn, unserved>>

\* Mutation of Choice: Deloox counts as one of its two predecessors.
ChoiceCountsDeloox ==
  CASE turn.notino -> [store |-> Notino, turn |-> [turn EXCEPT !.notino = FALSE]]
    [] ~turn.notino /\ turn.deloox ->
         [store |-> Deloox, turn |-> [turn EXCEPT !.deloox = FALSE, !.since = 0]]
    [] ~turn.notino /\ ~turn.deloox /\ turn.since >= 2 ->
         [store |-> Deloox, turn |-> [turn EXCEPT !.since = 1]]
    [] OTHER ->
         [store |-> Others[turn.next],
          turn |-> [turn EXCEPT !.next = (turn.next + 1) % NOthers, !.since = @ + 1]]

\* Mutation of Choice: the first two stores after a start do not end being first.
ChoiceStuck ==
  [store |-> IF turn.since >= 2 THEN Deloox ELSE Others[0],
   turn |-> [turn EXCEPT !.since = IF @ >= 2 THEN 0 ELSE @ + 1]]

(* The order of the tests of the loop: the two stores served first after a start, *)
(* then Deloox when it is due, then the next of the others.                       *)
Choice ==
  CASE turn.notino -> [store |-> Notino, turn |-> [turn EXCEPT !.notino = FALSE]]
    [] ~turn.notino /\ turn.deloox ->
         [store |-> Deloox, turn |-> [turn EXCEPT !.deloox = FALSE, !.since = 0]]
    [] ~turn.notino /\ ~turn.deloox /\ turn.since >= 2 ->
         [store |-> Deloox, turn |-> [turn EXCEPT !.since = 0]]
    [] OTHER ->
         [store |-> Others[turn.next],
          turn |-> [turn EXCEPT !.next = (turn.next + 1) % NOthers, !.since = @ + 1]]

Visit ==
  /\ loop.at = "gate" /\ search = "none"
  /\ loop' = [at |-> "visiting", store |-> Choice.store]
  /\ turn' = Choice.turn
  /\ comm' = "sh-catalog-disc"
  /\ unserved' = IF Choice.store = Deloox THEN 0
                 ELSE IF unserved < 3 THEN unserved + 1 ELSE unserved
  /\ UNCHANGED search

\* Mutation of EndVisit: the idle name is not set again.
EndVisitNamed ==
  /\ loop.at = "visiting"
  /\ loop' = [at |-> "resting", store |-> NoStore]
  /\ UNCHANGED <<search, turn, comm, unserved>>

(* discover_store returned or raised: both end with the idle name. *)
EndVisit ==
  /\ loop.at = "visiting"
  /\ loop' = [at |-> "resting", store |-> NoStore]
  /\ comm' = "sh-catalog-idle"
  /\ UNCHANGED <<search, turn, unserved>>

Rested ==
  /\ loop.at = "resting"
  /\ loop' = [loop EXCEPT !.at = "gate"]
  /\ UNCHANGED <<search, turn, comm, unserved>>

(* The process ends: its threads disappear from /proc and its variables are lost. *)
LoopCrash ==
  /\ loop' = [at |-> "down", store |-> NoStore]
  /\ turn' = FirstTurn /\ comm' = "sh-catalog-idle" /\ search' = "none"
  /\ unserved' = 0

LoopStep == StartLoop \/ Visit \/ EndVisit \/ Rested
LoopNext == LoopStep \/ SearchChanges \/ LoopCrash

LoopSpec == LoopInit /\ [][LoopNext]_loopVars

(* Users do not search, one within the grace period of the other, for ever; a loop  *)
(* at its gate polls, and does not miss every pause; a visit has its hard time-out;  *)
(* at some point the process is no longer restarted.                                 *)
LoopFairness ==
  /\ []<>(loop.at # "gate" \/ search = "none") /\ SF_loopVars(Visit)
  /\ WF_loopVars(StartLoop) /\ WF_loopVars(EndVisit) /\ WF_loopVars(Rested)
  /\ <>[][~LoopCrash]_loopVars

--------------------------------------------------------------------------------
(* "Visit it after every two other retailers": never later, and never earlier    *)
(* than that but for the repair after a start.                                    *)
DelooxIsServed ==
  /\ unserved <= 2
  /\ loop.at = "gate" /\ Choice.store = Deloox => unserved = 2 \/ turn.deloox

(* "Other retailers retain their own round-robin progress": none is left out.     *)
EveryStoreVisited ==
  \A s \in LoopStores : []<>(loop.at = "visiting" /\ loop.store = s)
==============================================================================
