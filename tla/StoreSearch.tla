----------------------------- MODULE StoreSearch ------------------------------
(* What a retailer module of backend/scrapers promises to the search that runs *)
(* it: it asks its sources, hears answers and failures, and returns one report. *)
(* An empty report is verified only if a source has answered; rows come only    *)
(* from an answer.                                                              *)
VARIABLES phase, heard, answer

storeVars == <<phase, heard, answer>>

NoAnswer == [verified |-> FALSE, rows |-> FALSE]

StoreInit == phase = "idle" /\ heard = {} /\ answer = NoAnswer

Ask == phase \in {"idle", "done"} /\ phase' = "asking" /\ heard' = {} /\ answer' = NoAnswer

(* One or several sources answer, or fail. *)
Hear ==
  /\ phase = "asking" /\ phase' = "asking"
  /\ heard \subseteq heard' /\ heard' \subseteq {"answer", "failure"}
  /\ UNCHANGED answer

(* A blank query is answered at once. *)
AnswerBlank ==
  /\ phase \in {"idle", "done"} /\ phase' = "done"
  /\ heard' = {"blank"} /\ answer' = [verified |-> TRUE, rows |-> FALSE]

Return ==
  /\ phase = "asking" /\ phase' = "done"
  /\ UNCHANGED heard
  /\ \E verified, rows \in BOOLEAN :
       /\ verified \/ rows => "answer" \in heard
       /\ answer' = [verified |-> verified, rows |-> rows]

StoreNext == Ask \/ Hear \/ AnswerBlank \/ Return
StoreStep == [StoreNext]_storeVars
StoreSpec == StoreInit /\ [][StoreNext]_storeVars
===============================================================================
