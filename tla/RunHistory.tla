----------------------------- MODULE RunHistory -----------------------------
(***************************************************************************)
(* What internal/storage promises its callers: the run history changes by  *)
(* whole calls only, one at a time.  Execution and HttpApi take each call  *)
(* for one step on the strength of this specification; module Storage is   *)
(* shown to implement it.                                                  *)
(***************************************************************************)
EXTENDS RunStore

CONSTANT MaxRuns  \* storage.max_runs; 0 is no limit

VARIABLE db       \* the run history

Init == db = [r \in Runs |-> NoRow]

Create(r, now) == r \notin Present(db) /\ db' = CreateRow(db, r, now)

Update(r, status, restarted) ==
    r \in Present(db) /\ db' = UpdateRow(db, r, status, restarted)

(* The cutoff of a policy with an age limit: any instant up to the present;
   0 is a policy without. *)
Cutoffs == {0} \cup (UNION {0..now : now \in Times})

Prune(cutoff) == db' = Retain(db, cutoff, MaxRuns)

Next ==
    \/ \E r \in Runs, now \in Times : Create(r, now)
    \/ \E r \in Runs, status \in Terminal, restarted \in BOOLEAN :
          Update(r, status, restarted)
    \/ \E cutoff \in Cutoffs : Prune(cutoff)

Spec == Init /\ [][Next]_db
=============================================================================
