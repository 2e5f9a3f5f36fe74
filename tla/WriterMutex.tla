----------------------------- MODULE WriterMutex -----------------------------
(* What the writer lock of the catalogue promises, whatever it is made of:   *)
(* one turn, taken by one connection at a time and only when it is free. The *)
(* turn can be lost: its holder goes away without giving it back, and nobody *)
(* has it until the process that lost it ends.                               *)
CONSTANTS Conns, NoConn, LostTurn

VARIABLE turn

TurnType == turn \in Conns \cup {NoConn, LostTurn}

Take(c) == turn = NoConn /\ turn' = c
Give(c) == turn = c /\ turn' = NoConn
Lose(c) == turn = c /\ turn' = LostTurn
Recover == turn = LostTurn /\ turn' = NoConn

TurnInit == turn = NoConn
TurnNext == Recover \/ \E c \in Conns : Take(c) \/ Give(c) \/ Lose(c)
TurnSpec == TurnInit /\ [][TurnNext]_turn
==============================================================================
