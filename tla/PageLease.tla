------------------------------ MODULE PageLease ------------------------------
(* What a leased queue promises, whatever table it is kept in. A holder takes *)
(* a page when nobody has a live lease on it; the lease may run out while the *)
(* holder is still at work; a page whose lease has run out can be swept or    *)
(* taken over. A holder that ends gives the page back only if it still has    *)
(* it: one that comes late changes nothing. Holders may be lost (a crash, an  *)
(* abandoned batch); then the lease runs out. A step moves any number of      *)
(* pages, each of them in one of these ways.                                  *)
CONSTANTS Items, Holders, Nobody

VARIABLES
  holder,   \* whose token a page carries
  live,     \* its lease has not run out
  working   \* who is at work on it

leaseVars == <<holder, live, working>>

LeaseType ==
  /\ holder \in [Items -> Holders \cup {Nobody}]
  /\ live \in [Items -> BOOLEAN]
  /\ working \in [Items -> SUBSET Holders]

LeaseInit ==
  /\ holder = [i \in Items |-> Nobody]
  /\ live = [i \in Items |-> FALSE]
  /\ working = [i \in Items |-> {}]

Take(i, h) ==
  /\ ~live[i] /\ h \notin working[i]
  /\ holder'[i] = h /\ live'[i] /\ working'[i] = working[i] \cup {h}

GiveBack(i, h) ==
  /\ h \in working[i] /\ working'[i] = working[i] \ {h}
  /\ IF holder[i] = h THEN holder'[i] = Nobody /\ ~live'[i]
     ELSE holder'[i] = holder[i] /\ live'[i] = live[i]

RunOut(i) ==
  live[i] /\ ~live'[i] /\ holder'[i] = holder[i] /\ working'[i] = working[i]

Sweep(i) ==
  ~live[i] /\ ~live'[i] /\ holder'[i] = Nobody /\ working'[i] = working[i]

Keep(i) ==
  working'[i] \subseteq working[i] /\ holder'[i] = holder[i] /\ live'[i] = live[i]

LeaseNext ==
  \A i \in Items :
    \/ Keep(i) \/ RunOut(i) \/ Sweep(i)
    \/ \E h \in Holders : Take(i, h) \/ GiveBack(i, h)

LeaseSpec == LeaseInit /\ [][LeaseNext]_leaseVars
==============================================================================
