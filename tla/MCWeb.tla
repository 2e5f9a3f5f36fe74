-------------------------------- MODULE MCWeb --------------------------------
(* Instances of what runs beside the catalogue's queues: search jobs, resync  *)
(* and bootstrap, the coverage queue that yields to searches, the discovery   *)
(* loop with the family process, and the baseline jobs. A behaviour is one of *)
(* one part, chosen at the start.                                             *)
EXTENDS SearchJobs, ControlledJobs, CoverageQueue, FamilyCoverage, Phase0Jobs, TLC

VARIABLE part

MCOthers == (0 :> "notino") @@ (1 :> "a") @@ (2 :> "b")
MCAliases == <<2, 1>>

webVars == <<part, jobsVars, controlVars, coverageVars, familyVars, phase0Vars>>

WebInit ==
  /\ part \in {"search", "control", "coverage", "family", "phase0"}
  /\ JobsInit /\ ControlInit /\ CoverageInit /\ FamilyInit /\ Phase0Init

WebNext ==
  \/ /\ part = "search" /\ JobsNext
     /\ UNCHANGED <<part, controlVars, coverageVars, familyVars, phase0Vars>>
  \/ /\ part = "control" /\ ControlNext
     /\ UNCHANGED <<part, jobsVars, coverageVars, familyVars, phase0Vars>>
  \/ /\ part = "coverage" /\ CoverageNext
     /\ UNCHANGED <<part, jobsVars, controlVars, familyVars, phase0Vars>>
  \/ /\ part = "family" /\ FamilyNext
     /\ UNCHANGED <<part, jobsVars, controlVars, coverageVars, phase0Vars>>
  \/ /\ part = "phase0" /\ Phase0Next
     /\ UNCHANGED <<part, jobsVars, controlVars, coverageVars, familyVars>>

WebSpec == WebInit /\ [][WebNext]_webVars

(* The part that runs is scheduled fairly. *)
WebFairSpec ==
  /\ WebSpec
  /\ \/ part = "search" /\ JobsFairness
     \/ part = "control" /\ ControlFairness
     \/ part = "coverage" /\ CoverageFairness
     \/ part = "family" /\ FamilyFairness
     \/ part = "phase0" /\ Phase0Fairness

(* The liveness properties of a part, of its behaviours. *)
StoresAreVisited == part = "family" => EveryStoreVisited
FamiliesAreSearched == part = "family" => EveryFamilySearched
LoopsGetStarted == part = "control" => LoopsAreStarted
BaselinesEnd == part = "phase0" => BaselineEnds
==============================================================================
