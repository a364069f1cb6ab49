------------------------------ MODULE JobLife ------------------------------
(***************************************************************************)
(* How a job of a worker lives and ends (internal/workerd/job.go): its     *)
(* states come in their order, one verdict is reached by what had happened *)
(* until then, a cancel before a failure, and nothing that happens after   *)
(* the verdict changes it.  Processes, uploads and streams are left to     *)
(* WorkerJob and EventHub, which implement this specification.             *)
(***************************************************************************)
VARIABLES state,
          cancel,      \* the first cancel requested
          failing,     \* the push pipeline has failed
          verdict      \* the end the job will have, or "no"

vars == <<state, cancel, failing, verdict>>

Cancels == {"CANCELLED", "LOST"}
Ends    == {"COMPLETED", "FAILED"} \union Cancels

Init == state = "PENDING" /\ cancel = "no" /\ failing = FALSE /\ verdict = "no"

Advance ==
  /\ verdict = "no"
  /\ <<state, state'>> \in {<<"PENDING", "PREPARING">>, <<"PREPARING", "RUNNING">>,
                            <<"RUNNING", "DRAINING">>}
  /\ UNCHANGED <<cancel, failing, verdict>>

Cancel(target) ==
  /\ cancel = "no" /\ state \notin Ends
  /\ cancel' = target
  /\ UNCHANGED <<state, failing, verdict>>

Fail ==
  /\ state \notin Ends
  /\ failing' = TRUE
  /\ UNCHANGED <<state, cancel, verdict>>

(* The first cancel decides; without one, a job may always fail, and completes
   only if it has come to its last stage and nothing has failed. *)
Verdicts ==
  IF cancel # "no" THEN {cancel}
  ELSE IF state = "DRAINING" /\ ~failing THEN {"COMPLETED", "FAILED"} ELSE {"FAILED"}

(* The job takes the state at once, or later. *)
Decide ==
  /\ verdict = "no" /\ state \in {"PREPARING", "DRAINING"}
  /\ verdict' \in Verdicts
  /\ state' \in {state, verdict'}
  /\ UNCHANGED <<cancel, failing>>

End ==
  /\ verdict # "no" /\ state \notin Ends
  /\ state' = verdict
  /\ UNCHANGED <<cancel, failing, verdict>>

Next == Advance \/ Fail \/ Decide \/ End \/ \E target \in Cancels : Cancel(target)

Spec == Init /\ [][Next]_vars
=============================================================================
