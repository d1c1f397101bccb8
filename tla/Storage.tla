------------------------------ MODULE Storage -------------------------------
(***************************************************************************)
(* internal/storage under load: the calls of several goroutines and of     *)
(* several `microhook serve` processes on one SQLite file, statement by    *)
(* statement, each free to fail, time out on the write lock or die with    *)
(* its process.                                                            *)
(*                                                                         *)
(* SQLite (WAL) is external and modelled from the DSN and the way the code *)
(* drives it: one writer at a time, readers that see what is committed, a  *)
(* writer that waits busy_timeout for the lock and gives up, and a         *)
(* transaction that vanishes with its process.  A worker is one call in    *)
(* flight with its connection.                                             *)
(***************************************************************************)
EXTENDS RunStore, Integers

CONSTANTS
    Processes,  \* `microhook serve` processes
    Workers,    \* goroutines that may be inside a call
    Owner,      \* Owner[w]: the process of worker w
    Outcomes,   \* statuses UpdateRun is called with
    NoWorker,   \* nobody holds the write lock
    MaxAge,     \* retention_days, as a span of Times; 0 is no limit
    MaxRuns     \* max_runs; 0 is no limit

ASSUME WorkersAssumption == Owner \in [Workers -> Processes] /\ NoWorker \notin Workers
ASSUME OutcomesAssumption == Outcomes \subseteq Terminal
ASSUME PolicyAssumption == MaxAge \in Nat /\ MaxRuns \in Nat

VARIABLES
    disk,    \* the committed database
    work,    \* the database as the holder of the write lock sees it
    lock,    \* the connection that holds the write lock
    handle,  \* handle[p]: the Store of process p and how far Bootstrap has got
    op,      \* op[w]: the call w is in and the time it read on entry
    pc,      \* pc[w]: the statement w executes next
    now      \* the wall clock

vars == <<disk, work, lock, handle, op, pc, now>>

(* The three tables; schema: they and the view exist. *)
Image == [schema : BOOLEAN, runs : [Runs -> Row], snapshots : SUBSET Runs,
          prunedAt : Times \cup {0}]

Call ==
    [kind : {"open"}] \cup [kind : {"prune"}, at : Times]
    \cup [kind : {"create"}, run : Runs, at : Times]
    \cup [kind : {"update"}, run : Runs, status : Outcomes]
NoCall == [kind |-> "none"]
InTx == {"begun", "inserted", "aged", "trimmed", "written"}

TypeOK ==
    /\ disk \in Image /\ work \in Image
    /\ lock \in Workers \cup {NoWorker}
    /\ handle \in [Processes -> {"down", "opening", "opened", "retaining", "serving",
                               "closed"}]
    /\ op \in [Workers -> Call \cup {NoCall}]
    /\ pc \in [Workers -> InTx \cup {"idle", "reading"}]
    /\ now \in Times

Init ==
    /\ disk = [schema |-> FALSE, runs |-> [r \in Runs |-> NoRow],
               snapshots |-> {}, prunedAt |-> 0]
    /\ work = disk
    /\ lock = NoWorker
    /\ handle = [p \in Processes |-> "down"]
    /\ op = [w \in Workers |-> NoCall]
    /\ pc = [w \in Workers |-> "idle"]
    /\ now \in {t \in Times : \A u \in Times : t <= u}

Goto(w, l) == pc' = [pc EXCEPT ![w] = l]
SetHandle(p, h) == handle' = [handle EXCEPT ![p] = h]

-----------------------------------------------------------------------------
(* Entering a call.  Arguments the validation at its top refuses touch     *)
(* nothing and are left out.  BeginTx is deferred: it takes no lock.       *)

Enter(w, call) ==
    /\ pc[w] = "idle"
    /\ op' = [op EXCEPT ![w] = call]
    /\ Goto(w, "begun")
    /\ UNCHANGED <<disk, work, lock, now>>

(* app.Bootstrap calls Open, then ApplyRetention; only then is there anybody
   else to use the Store. *)
Open(w) ==
    /\ handle[Owner[w]] = "down"
    /\ SetHandle(Owner[w], "opening")
    /\ Enter(w, [kind |-> "open"])

ApplyRetention(w) ==
    /\ handle[Owner[w]] = "opened"
    /\ SetHandle(Owner[w], "retaining")
    /\ Enter(w, [kind |-> "prune", at |-> now])

(* generateRunID: never an id that was used before.  Two calls with one id at
   the same time are allowed here, so that the primary key has work to do. *)
CreateRun(w, r) ==
    /\ handle[Owner[w]] = "serving"
    /\ disk.runs[r].status = "absent"
    /\ Enter(w, [kind |-> "create", run |-> r, at |-> now])
    /\ UNCHANGED handle

(* finishRun and cancelInterruptedRuns call it for a run they saw running. *)
UpdateRun(w, r, status) ==
    /\ handle[Owner[w]] = "serving"
    /\ r \in RunningRows(disk.runs)
    /\ Enter(w, [kind |-> "update", run |-> r, status |-> status])
    /\ UNCHANGED handle

-----------------------------------------------------------------------------
(* Statements.                                                             *)

Seen(w) == IF lock = w THEN work ELSE disk

(* A statement of the transaction of w writes: the first one takes the lock. *)
Execute(w, image, l) ==
    /\ lock \in {NoWorker, w}
    /\ lock' = w
    /\ work' = image
    /\ Goto(w, l)
    /\ UNCHANGED <<disk, handle, op, now>>

(* The transaction goes on without a write. *)
Skip(w, l) == Goto(w, l) /\ UNCHANGED <<disk, work, lock, handle, op, now>>

At(w, kind, l) == op[w].kind = kind /\ pc[w] = l

(* CREATE ... IF NOT EXISTS, all of it in one Exec. *)
ApplySchema(w) ==
    /\ At(w, "open", "begun")
    /\ IF disk.schema THEN Skip(w, "written")
       ELSE Execute(w, [disk EXCEPT !.schema = TRUE], "written")

(* An id that exists violates the primary key: see PrimaryKeyViolated. *)
InsertRun(w) ==
    /\ At(w, "create", "begun")
    /\ op[w].run \notin Present(Seen(w).runs)
    /\ Execute(w, [Seen(w) EXCEPT !.runs = CreateRow(@, op[w].run, op[w].at)], "inserted")

InsertSnapshot(w) ==
    /\ At(w, "create", "inserted")
    /\ Execute(w, [work EXCEPT !.snapshots = @ \cup {op[w].run}], "written")

(* Mutant: foreign_keys is off, as it is by default. *)
DeletedNoCascade(image, runs) == [image EXCEPT !.runs = runs]

(* foreign_keys(ON): a deleted run takes its snapshot along. *)
Deleted(image, runs) ==
    [image EXCEPT !.runs = runs, !.snapshots = @ \cap Present(runs)]

(* The cutoff belongs to the time ApplyRetention was entered. *)
Cutoff(w) == IF op[w].at > MaxAge THEN op[w].at - MaxAge ELSE 0

(* Mutant: pruning by age is a statement of its own, outside the transaction. *)
PruneByAgeAutocommit(w) ==
    /\ At(w, "prune", "begun") /\ lock = NoWorker
    /\ disk' = IF MaxAge > 0 THEN Deleted(disk, DeleteRunsOlderThan(disk.runs, Cutoff(w)))
               ELSE disk
    /\ work' = disk'
    /\ Goto(w, "aged")
    /\ UNCHANGED <<lock, handle, op, now>>

PruneByAge(w) ==
    /\ At(w, "prune", "begun")
    /\ IF MaxAge > 0
       THEN Execute(w, Deleted(Seen(w), DeleteRunsOlderThan(Seen(w).runs, Cutoff(w))), "aged")
       ELSE Skip(w, "aged")

PruneByMaxRuns(w) ==
    /\ At(w, "prune", "aged")
    /\ IF MaxRuns > 0
       THEN Execute(w, Deleted(Seen(w), DeleteRunsOverflow(Seen(w).runs, MaxRuns)), "trimmed")
       ELSE Skip(w, "trimmed")

(* Mutant: the stamp is the time the next pruning is due. *)
SetMetadataDue(w) ==
    /\ At(w, "prune", "trimmed")
    /\ Execute(w, [Seen(w) EXCEPT !.prunedAt = op[w].at + MaxAge], "written")

SetMetadata(w) ==
    /\ At(w, "prune", "trimmed")
    /\ Execute(w, [Seen(w) EXCEPT !.prunedAt = op[w].at], "written")

(* Leaving a call: the Store of a process is what Bootstrap makes of it. *)
Return(w, ok) ==
    LET p == Owner[w]
    IN  /\ Goto(w, "idle")
        /\ op' = [op EXCEPT ![w] = NoCall]
        /\ CASE op[w].kind = "open" -> SetHandle(p, IF ok THEN "opened" ELSE "down")
             [] op[w].kind = "prune" -> SetHandle(p, IF ok THEN "serving" ELSE "down")
             [] OTHER -> UNCHANGED handle

(* Mutant: the update does not wait for the transaction of another writer. *)
UpdateStatementUnlocked(w) ==
    /\ At(w, "update", "begun")
    /\ disk' = IF op[w].run \in Present(disk.runs)
               THEN [disk EXCEPT !.runs = UpdateRow(@, op[w].run, op[w].status, FALSE)]
               ELSE disk
    /\ work' = IF lock = NoWorker THEN disk' ELSE work
    /\ Return(w, op[w].run \in Present(disk.runs))
    /\ UNCHANGED <<lock, now>>

(* UPDATE outside a transaction; no row with that id is ErrRunNotFound. *)
UpdateStatement(w) ==
    /\ At(w, "update", "begun")
    /\ lock = NoWorker
    /\ disk' = IF op[w].run \in Present(disk.runs)
               THEN [disk EXCEPT !.runs = UpdateRow(@, op[w].run, op[w].status, FALSE)]
               ELSE disk
    /\ work' = disk'
    /\ Return(w, op[w].run \in Present(disk.runs))
    /\ UNCHANGED <<lock, now>>

Release(w) == lock' = IF lock = w THEN NoWorker ELSE lock

(* CreateRun goes on to read the row back; for the others it was the end. *)
Commit(w) ==
    /\ pc[w] = "written"
    /\ disk' = Seen(w)
    /\ work' = IF lock = w THEN disk' ELSE work
    /\ Release(w)
    /\ IF op[w].kind = "create" THEN Goto(w, "reading") /\ UNCHANGED <<op, handle>>
       ELSE Return(w, TRUE)
    /\ UNCHANGED now

(* The SELECT at the end of CreateRun, on another connection: it finds the
   row, or fails with the context, with a Store that was closed meanwhile, or
   because the row is gone.  The row stays either way. *)
GetRun(w) ==
    /\ pc[w] = "reading"
    /\ Return(w, TRUE)
    /\ UNCHANGED <<disk, work, lock, now>>

(* Mutant: the error paths leave the transaction open. *)
RollbackForgotten(w) == UNCHANGED <<disk, work, lock, now>> /\ Return(w, FALSE)

(* The deferred Rollback. *)
Rollback(w) ==
    /\ Release(w)
    /\ work' = IF lock = w THEN disk ELSE work
    /\ Return(w, FALSE)
    /\ UNCHANGED <<disk, now>>

(* INSERT of an id that is in the table. *)
PrimaryKeyViolated(w) ==
    /\ At(w, "create", "begun")
    /\ lock = NoWorker /\ op[w].run \in Present(disk.runs)
    /\ Rollback(w)

(* A statement or the COMMIT fails: a full disk, a context that
   ends while it runs. *)
StatementFails(w) == pc[w] \in InTx /\ Rollback(w)

(* The next statement of w writes. *)
Writes(w) ==
    \/ At(w, "create", "begun") \/ At(w, "update", "begun")
    \/ At(w, "open", "begun") /\ ~disk.schema
    \/ At(w, "prune", "begun") /\ MaxAge > 0
    \/ At(w, "prune", "aged") /\ MaxRuns > 0
    \/ At(w, "prune", "trimmed")

(* Mutant: a writer waits for the lock for as long as it takes. *)
NoBusyTimeout(w) == FALSE

(* busy_timeout(5000): SQLITE_BUSY. *)
BusyTimeout(w) == Writes(w) /\ lock \notin {NoWorker, w} /\ Rollback(w)

-----------------------------------------------------------------------------
(* The process around the calls.                                           *)

(* Store.Close: no statement starts on a new connection; a transaction that
   is open runs to its end on the connection it has. *)
Close(p) ==
    /\ handle[p] = "serving"
    /\ SetHandle(p, "closed")
    /\ UNCHANGED <<disk, work, lock, op, pc, now>>

(* The process ends: SQLite drops what it had not committed. *)
Die(p) ==
    LET gone == {w \in Workers : Owner[w] = p}
    IN  /\ handle[p] # "down"
        /\ SetHandle(p, "down")
        /\ pc' = [w \in Workers |-> IF w \in gone THEN "idle" ELSE pc[w]]
        /\ op' = [w \in Workers |-> IF w \in gone THEN NoCall ELSE op[w]]
        /\ lock' = IF lock \in gone THEN NoWorker ELSE lock
        /\ work' = IF lock \in gone THEN disk ELSE work
        /\ UNCHANGED <<disk, now>>

Tick ==
    /\ now + 1 \in Times
    /\ now' = now + 1
    /\ UNCHANGED <<disk, work, lock, handle, op, pc>>

(* What a call that has been entered does next, short of failing. *)
Step(w) ==
    \/ ApplySchema(w)
    \/ InsertRun(w) \/ PrimaryKeyViolated(w) \/ InsertSnapshot(w)
    \/ PruneByAge(w) \/ PruneByMaxRuns(w) \/ SetMetadata(w)
    \/ UpdateStatement(w) \/ Commit(w) \/ GetRun(w) \/ BusyTimeout(w)

Caller(w) ==
    \/ Open(w) \/ ApplyRetention(w)
    \/ \E r \in Runs : CreateRun(w, r)
    \/ \E r \in Runs, status \in Outcomes : UpdateRun(w, r, status)

Next ==
    \/ \E w \in Workers : Step(w) \/ Caller(w) \/ StatementFails(w)
    \/ \E p \in Processes : Close(p) \/ Die(p)
    \/ Tick

Spec == Init /\ [][Next]_vars

(* A goroutine inside a call is scheduled until the call returns; SQLite
   answers every statement, with SQLITE_BUSY when it must.  Nobody has to
   call, and nothing has to fail. *)
FairSpec == Spec /\ \A w \in Workers :
    WF_vars(Step(w))

-----------------------------------------------------------------------------
(* The view microhook_run_records joins runs and snapshots: a run without its
   snapshot would be in the history and in no listing, a snapshot without its
   run would block its id for good.  Neither is ever committed, whichever
   statement of CreateRun or ApplyRetention fails or dies. *)
RowsHaveSnapshots == disk.snapshots = Present(disk.runs)

(* The write lock belongs to a call that is still in its transaction, of a
   process that is alive: no error path, timeout, Close or crash leaves the
   database locked against every other writer. *)
LockHasHolder ==
    lock # NoWorker => pc[lock] \in InTx /\ handle[Owner[lock]] # "down"

(* The calls of all workers take effect one at a time and as a whole: what
   every other module assumes of the Store. *)
History == INSTANCE RunHistory WITH db <- disk.runs
ImplementsHistory == History!Spec

(* ApplyRetention is all or nothing and says when: a step that deletes a run
   stamps the metadata, leaves at most max_runs finished runs and none older
   than retention_days, and takes no run that is both young enough and among
   the newest max_runs of the finished ones. *)
RetentionStep ==
    LET old == disk.runs
        new == disk'.runs
        oldest == disk'.prunedAt - MaxAge
        kept == Finished(new)
        pruned == Finished(old) \ Present(new)
    IN  pruned # {} \/ disk'.prunedAt # disk.prunedAt =>
           /\ disk'.prunedAt \in 1..now
           /\ MaxAge > 0 => \A r \in kept : new[r].created >= oldest
           /\ MaxRuns > 0 => Cardinality(kept) <= MaxRuns
           /\ \A r \in pruned :
                 \/ MaxAge > 0 /\ old[r].created < oldest
                 \/ MaxRuns > 0 /\ Cardinality({q \in kept : Newer(old, q, r)}) = MaxRuns
RetentionComplete == [][RetentionStep]_vars

(* Every call returns, or its process dies: busy_timeout bounds the wait for
   a lock that other calls and other processes may pass among themselves for
   ever. *)
CallReturns == \A w \in Workers : pc[w] # "idle" ~> pc[w] = "idle"
=============================================================================
