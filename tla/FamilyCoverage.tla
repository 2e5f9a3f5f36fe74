---------------------------- MODULE FamilyCoverage ---------------------------
(* backend/catalog_family_coverage.py: a process of its own that searches      *)
(* Deloox for every family of the registry and writes the product urls to the  *)
(* catalogue the web process writes to as well. It watches the names of        *)
(* threads in /proc to keep out of the way: this module composes it with       *)
(* DiscoveryLoop, the one thread that sets such a name. On Python 3.12 (the    *)
(* version of Dockerfile) a Thread's name is not its name in /proc, so neither *)
(* a search thread nor the hydration thread shows.                             *)
EXTENDS DiscoveryLoop

CONSTANTS
  NFamilies,       \* families of the registry that have queries
  NAliases,        \* NAliases[f]: queries of family f
  PersistRetries   \* PERSIST_RETRIES

ASSUME FamilyAssumption ==
  /\ NFamilies \in Nat \ {0}
  /\ NAliases \in [1 .. NFamilies -> Nat \ {0}]
  /\ PersistRetries \in Nat \ {0}

VARIABLE fam

familyVars == <<search, turn, loop, comm, unserved, fam>>

(* next: at the loop over families; waiting: _wait_for_foreground_idle before a    *)
(* query; querying; settling: the same wait before the write; writing: attempt     *)
(* `tries` of _deloox_persist_products; backoff: asleep after a locked database.   *)
FamilyPhases == {"resting", "next", "waiting", "querying", "settling", "writing",
                 "backoff", "stopped"}
RestingFamily == [at |-> "resting", family |-> 1, alias |-> 1, tries |-> 0]

FamilyType ==
  /\ fam.at \in FamilyPhases
  /\ fam.family \in 1 .. NFamilies + 1
  /\ fam.alias \in Nat
  /\ fam.tries \in 0 .. PersistRetries

FamilyInit == LoopInit /\ fam = RestingFamily

(* _active_catalog_writer: what the scan of /proc finds. *)
ActiveCatalogWriter == comm = "sh-catalog-disc"

--------------------------------------------------------------------------------
FamilyGoto(phase) == fam' = [fam EXCEPT !.at = phase] /\ UNCHANGED loopVars

StartCycle ==
  /\ fam.at = "resting"
  /\ fam' = [RestingFamily EXCEPT !.at = "next"]
  /\ UNCHANGED loopVars

NextFamily ==
  /\ fam.at = "next" /\ fam.family <= NFamilies
  /\ fam' = [fam EXCEPT !.at = "waiting", !.alias = 1]
  /\ UNCHANGED loopVars

EndCycle ==
  /\ fam.at = "next" /\ fam.family > NFamilies
  /\ fam' = RestingFamily
  /\ UNCHANGED loopVars

ForegroundIdle ==
  /\ fam.at = "waiting" /\ ~ActiveCatalogWriter
  /\ FamilyGoto("querying")

(* The query finds admissible product urls: the other aliases are not tried. *)
QueryFinds ==
  /\ fam.at = "querying"
  /\ FamilyGoto("settling")

(* It finds none, or raises: the next alias, or, after the last, the next family  *)
(* (_persist_with_retry has nothing to write).                                    *)
NextFamilyRow == [fam EXCEPT !.at = "next", !.family = @ + 1, !.tries = 0]

QueryFindsNothing ==
  /\ fam.at = "querying"
  /\ fam' = IF fam.alias < NAliases[fam.family]
            THEN [fam EXCEPT !.at = "waiting", !.alias = @ + 1]
            ELSE NextFamilyRow
  /\ UNCHANGED loopVars

Settled ==
  /\ fam.at = "settling" /\ ~ActiveCatalogWriter
  /\ fam' = [fam EXCEPT !.at = "writing", !.tries = 0]
  /\ UNCHANGED loopVars

(* The transaction commits, or fails in a way that is not worth a retry. *)
Write ==
  /\ fam.at = "writing"
  /\ fam' = NextFamilyRow
  /\ UNCHANGED loopVars

(* "database is locked": sleep and try again, without waiting for idle again. *)
WriteLocked ==
  /\ fam.at = "writing"
  /\ fam' = IF fam.tries + 1 >= PersistRetries THEN NextFamilyRow
            ELSE [fam EXCEPT !.at = "backoff", !.tries = @ + 1]
  /\ UNCHANGED loopVars

Retry == fam.at = "backoff" /\ FamilyGoto("writing")

(* SIGTERM while it waits, rests or is between two families; a wait before the     *)
(* write then gives the urls up. A kill has the same effect at any point.         *)
Stop == fam.at # "stopped" /\ FamilyGoto("stopped")

RestartFamily == fam.at = "stopped" /\ fam' = RestingFamily /\ UNCHANGED loopVars

(* An exception in run_once (the registry cannot be read) ends the cycle. *)
CycleError ==
  /\ fam.at = "next" /\ fam.family <= NFamilies
  /\ fam' = RestingFamily
  /\ UNCHANGED loopVars

FamilyStep ==
  \/ StartCycle \/ NextFamily \/ EndCycle \/ ForegroundIdle \/ QueryFinds
  \/ QueryFindsNothing \/ Settled \/ Write \/ WriteLocked \/ Retry \/ RestartFamily

FamilyNext ==
  \/ FamilyStep \/ Stop \/ CycleError
  \/ LoopNext /\ UNCHANGED fam

FamilySpec == FamilyInit /\ [][FamilyNext]_familyVars

(* The discovery thread is idle between visits, and a poll falls into that pause  *)
(* (it is at least a second long, a poll comes every half second).                *)
FamilyFairness ==
  /\ LoopFairness
  /\ WF_familyVars(FamilyStep) /\ SF_familyVars(ForegroundIdle) /\ SF_familyVars(Settled)
  /\ <>[][~Stop /\ ~CycleError]_familyVars

--------------------------------------------------------------------------------
FamilyInv == LoopType /\ FamilyType /\ DelooxIsServed

(* "leaving the discovery name set for the lifetime of this loop starves          *)
(* coverage": every family is searched for again and again.                       *)
EveryFamilySearched ==
  \A f \in 1 .. NFamilies : []<>(fam.at = "querying" /\ fam.family = f)

(* Violated: "Pause background coverage during search or catalog discovery        *)
(* writes". A running search does not show in /proc, and a retry does not look.   *)
NoWriteStartsInSearch ==
  [][fam'.at = "writing" /\ fam.at = "settling" => search # "running"]_familyVars
==============================================================================
