------------------------------ MODULE RunStore ------------------------------
(***************************************************************************)
(* The run history that internal/storage keeps in SQLite, as operators on  *)
(* a function from run ids to rows.  Every operator is the effect of one   *)
(* committed statement or transaction; who calls it, when, and how it can  *)
(* fail is the business of the modules that use it.                        *)
(*                                                                         *)
(* A row keeps what the service's control depends on: the status, the      *)
(* creation time that orders listings and retention, and whether the       *)
(* error summary is restartedRunSummary.  Output tails, exit code,         *)
(* metadata and the action snapshot travel with the row and are left out.  *)
(***************************************************************************)
EXTENDS Naturals, FiniteSets

CONSTANTS
    Runs,   \* run ids; their order is the order of the id column
    Times   \* readings of the wall clock (created_at_unix_nano)

ASSUME RunsAssumption == Runs \subseteq Nat
ASSUME TimesAssumption == Times \subseteq Nat \ {0}  \* 0 is no time

(* RunStatusSucceeded ... RunStatusCancelled; RunStatusRunning is the only
   other status validateRunStatus lets through. *)
Terminal == {"succeeded", "failed", "timed_out", "cancelled"}

(* "absent" is a run that was never inserted, "pruned" one that retention
   deleted.  No statement can tell the two apart: both are "no such row". *)
Row == [status : {"absent", "running", "pruned"} \cup Terminal,
        created : Times \cup {0}, restarted : BOOLEAN]

NoRow == [status |-> "absent", created |-> 0, restarted |-> FALSE]

Present(db) == {r \in Runs : db[r].status \notin {"absent", "pruned"}}

(* CreateRun: the run row and its snapshot, inserted in one transaction. *)
CreateRow(db, r, now) ==
    [db EXCEPT ![r] = [status |-> "running", created |-> now, restarted |-> FALSE]]

(* UpdateRun: UPDATE ... WHERE id = ?.  Whatever status the row has is
   overwritten, the error summary with it. *)
UpdateRow(db, r, status, restarted) ==
    [db EXCEPT ![r] = [status |-> status, created |-> db[r].created, restarted |-> restarted]]

(* ListRuns with RunFilter{Status: running}. *)
RunningRows(db) == {r \in Runs : db[r].status = "running"}

(* ORDER BY created_at_unix_nano DESC, id DESC: q comes before r. *)
Newer(db, q, r) ==
    \/ db[q].created > db[r].created
    \/ db[q].created = db[r].created /\ q > r

(* Mutant: retention without the excluded status. *)
FinishedOrRunning(db) == Present(db)

(* The rows both retention statements select from: status <> 'running'. *)
Finished(db) == {r \in Runs : db[r].status \in Terminal}

Delete(db, S) == [r \in Runs |-> IF r \in S THEN [db[r] EXCEPT !.status = "pruned"] ELSE db[r]]

(* A cutoff of 0 is retention_days: 0, the policy without an age limit. *)
DeleteRunsOlderThan(db, cutoff) ==
    Delete(db, {r \in Finished(db) : db[r].created < cutoff})

DeleteRunsOverflow(db, maxRuns) ==
    Delete(db, {r \in Finished(db) :
                  Cardinality({q \in Finished(db) : Newer(db, q, r)}) >= maxRuns})

(* ApplyRetention: one transaction, age first; max_runs: 0 keeps any number. *)
Retain(db, cutoff, maxRuns) ==
    LET aged == DeleteRunsOlderThan(db, cutoff)
    IN  IF maxRuns > 0 THEN DeleteRunsOverflow(aged, maxRuns) ELSE aged
=============================================================================
