---------------------------- MODULE RunLifecycle ----------------------------
(***************************************************************************)
(* What a caller of microhook may rely on, with no mention of processes,   *)
(* goroutines, locks or restarts: how the record of a run may evolve in    *)
(* the history, and what the answer to the invocation says about it.       *)
(***************************************************************************)
CONSTANT Runs

VARIABLES
    record,  \* record[r]: the run's status in the history
    answer   \* answer[r]: what the invocation that asked for r was told

Terminal == {"succeeded", "failed", "timed_out", "cancelled"}

Init ==
    /\ record = [r \in Runs |-> "absent"]
    /\ answer = [r \in Runs |-> "none"]

(* A run enters the history running, and only while its caller still waits. *)
Create(r) ==
    /\ record[r] = "absent" /\ answer[r] = "none"
    /\ record' = [record EXCEPT ![r] = "running"]
    /\ UNCHANGED answer

(* It gets one terminal status, and keeps it until retention deletes it. *)
Settle(r) ==
    /\ record[r] = "running"
    /\ \E s \in Terminal : record' = [record EXCEPT ![r] = s]
    /\ UNCHANGED answer

(* Retention deletes any set of settled runs at once. *)
Prune ==
    /\ \E S \in SUBSET {r \in Runs : record[r] \in Terminal} :
          record' = [r \in Runs |-> IF r \in S THEN "pruned" ELSE record[r]]
    /\ UNCHANGED answer

Tell(r, a) ==
    /\ answer[r] = "none"
    /\ answer' = [answer EXCEPT ![r] = a]
    /\ UNCHANGED record

(* A caller who is turned away leaves no trace in the history. *)
TurnAway(r) == record[r] = "absent" /\ \E a \in {"refused", "conflict"} : Tell(r, a)

(* 202: the run is in the history, running. *)
Accept(r) == record[r] = "running" /\ Tell(r, "accepted")

(* 200: the status reported is the status recorded. *)
Report(r) == record[r] \in Terminal /\ Tell(r, record[r])

(* 500: nothing is promised about the run. *)
Apologise(r) == Tell(r, "error")

Next ==
    \/ Prune
    \/ \E r \in Runs : Create(r) \/ Settle(r) \/ TurnAway(r) \/ Accept(r)
                       \/ Report(r) \/ Apologise(r)

Spec == Init /\ [][Next]_<<record, answer>>
=============================================================================
