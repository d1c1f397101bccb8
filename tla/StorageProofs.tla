--------------------------- MODULE StorageProofs ----------------------------
(***************************************************************************)
(* Theorems about Storage, for any number of processes, goroutines and     *)
(* runs, any retention policy, and every statement free to fail.           *)
(***************************************************************************)
EXTENDS Storage, RunStoreProofs

(* Where a call can be, and what its process looks like meanwhile. *)
Placed(w) ==
    /\ op[w].kind = "none" => pc[w] = "idle"
    /\ op[w].kind = "open" => /\ pc[w] \in {"begun", "written"}
                              /\ handle[Owner[w]] = "opening"
    /\ op[w].kind = "prune" => /\ pc[w] \in {"begun", "aged", "trimmed", "written"}
                               /\ handle[Owner[w]] = "retaining"
                               /\ op[w].at <= now
    /\ op[w].kind = "create" => /\ pc[w] \in {"begun", "inserted", "written", "reading"}
                                /\ handle[Owner[w]] \in {"serving", "closed"}
    /\ op[w].kind = "update" => /\ pc[w] = "begun"
                                /\ handle[Owner[w]] \in {"serving", "closed"}

(* Bootstrap has the Store to itself. *)
Alone ==
    \A v, w \in Workers :
        (op[v].kind \in {"open", "prune"} /\ Owner[v] = Owner[w] /\ op[w].kind # "none")
        => v = w

(* From which statement on a call holds the write lock. *)
Locks(w) ==
    /\ pc[w] \in {"idle", "begun", "reading"} => lock # w
    /\ pc[w] = "inserted" => lock = w
    /\ pc[w] = "aged" /\ MaxAge > 0 => lock = w
    /\ pc[w] = "trimmed" /\ (MaxAge > 0 \/ MaxRuns > 0) => lock = w
    /\ pc[w] = "written" => lock = w \/ op[w].kind = "open"

Calls == Alone /\ \A w \in Workers : Placed(w) /\ Locks(w)

(* The cutoff ApplyRetention works with, in the terms of Retain. *)
AgeCutoff(w) == IF MaxAge > 0 THEN Cutoff(w) ELSE 0

(* What the holder of the lock has made of the committed database so far. *)
Transaction(w) ==
    /\ op[w].kind = "open" => work.runs = disk.runs /\ work.prunedAt = disk.prunedAt
    /\ op[w].kind = "create" =>
          /\ op[w].run \notin Present(disk.runs)
          /\ work.runs = CreateRow(disk.runs, op[w].run, op[w].at)
          /\ work.prunedAt = disk.prunedAt
    /\ op[w].kind = "prune" =>
          /\ work.runs = IF pc[w] = "aged" THEN DeleteRunsOlderThan(disk.runs, AgeCutoff(w))
                         ELSE Retain(disk.runs, AgeCutoff(w), MaxRuns)
          /\ work.prunedAt = IF pc[w] = "written" THEN op[w].at ELSE disk.prunedAt

(* The snapshot of the one run whose INSERT is half way. *)
Snapshots ==
    IF lock \in Workers /\ pc[lock] = "inserted"
    THEN work.snapshots = Present(work.runs) \ {op[lock].run}
    ELSE work.snapshots = Present(work.runs)

Contents ==
    /\ lock = NoWorker => work = disk
    /\ \A w \in Workers : lock = w => Transaction(w)
    /\ Snapshots /\ RowsHaveSnapshots
    /\ IsFiniteSet(Present(disk.runs))

StoreInv == Calls /\ Contents

-----------------------------------------------------------------------------
(* Typing. *)

(* The fields of an image, one replaced at a time. *)
LEMMA ImageFields ==
    ASSUME NEW I \in Image
    PROVE  /\ I.runs \in [Runs -> Row] /\ I.snapshots \in SUBSET Runs
           /\ I.prunedAt \in Times \cup {0}
           /\ \A b \in BOOLEAN :
                LET J == [I EXCEPT !.schema = b]
                IN  /\ J \in Image /\ J.runs = I.runs /\ J.snapshots = I.snapshots
                    /\ J.prunedAt = I.prunedAt
           /\ \A R \in [Runs -> Row] :
                LET J == [I EXCEPT !.runs = R]
                IN  /\ J \in Image /\ J.runs = R /\ J.snapshots = I.snapshots
                    /\ J.prunedAt = I.prunedAt
           /\ \A S \in SUBSET Runs :
                LET J == [I EXCEPT !.snapshots = S]
                IN  /\ J \in Image /\ J.runs = I.runs /\ J.snapshots = S
                    /\ J.prunedAt = I.prunedAt
           /\ \A t \in Times \cup {0} :
                LET J == [I EXCEPT !.prunedAt = t]
                IN  /\ J \in Image /\ J.runs = I.runs /\ J.snapshots = I.snapshots
                    /\ J.prunedAt = t
           /\ \A R \in [Runs -> Row] :
                LET J == Deleted(I, R)
                IN  /\ J \in Image /\ J.runs = R
                    /\ J.snapshots = I.snapshots \cap Present(R)
                    /\ J.prunedAt = I.prunedAt
  BY DEF Image, Deleted

(* The arguments of a call, by its kind. *)
LEMMA CallFields ==
    ASSUME TypeOK, NEW w \in Workers
    PROVE  /\ op[w].kind \in {"none", "open", "prune", "create", "update"}
           /\ op[w].kind = "none" => op[w] = NoCall
           /\ op[w].kind = "prune" => op[w].at \in Times
           /\ op[w].kind = "create" => op[w].run \in Runs /\ op[w].at \in Times
           /\ op[w].kind = "update" => op[w].run \in Runs /\ op[w].status \in Outcomes
  BY DEF TypeOK, Call, NoCall

(* The two retention statements keep rows rows. *)
LEMMA PruneStatements ==
    ASSUME NEW D \in [Runs -> Row], NEW n
    PROVE  /\ DeleteRunsOlderThan(D, n) \in [Runs -> Row]
           /\ Present(DeleteRunsOlderThan(D, n)) \subseteq Present(D)
           /\ DeleteRunsOverflow(D, n) \in [Runs -> Row]
           /\ Present(DeleteRunsOverflow(D, n)) \subseteq Present(D)
  <1>1. \A S : Delete(D, S) \in [Runs -> Row] /\ Present(Delete(D, S)) \subseteq Present(D)
    BY DeleteType DEF Present
  <1> QED
    BY <1>1 DEF DeleteRunsOlderThan, DeleteRunsOverflow

(* What a worker sees is an image. *)
LEMMA SeenType == ASSUME TypeOK, NEW w \in Workers
                  PROVE  Seen(w) \in Image
  BY DEF TypeOK, Seen

(* The empty database of processes that are all down. *)
LEMMA StorageTypeInit == Init => TypeOK
  <1> SUFFICES ASSUME Init
               PROVE  TypeOK
    OBVIOUS
  <1>1. NoRow \in Row
    BY DEF NoRow, Row
  <1>2. disk \in Image /\ work \in Image
    BY <1>1 DEF Init, Image
  <1> QED
    BY <1>2 DEF Init, TypeOK, NoCall

(* Leaving a call. *)
LEMMA ReturnType ==
    ASSUME TypeOK, NEW w \in Workers, NEW ok \in BOOLEAN, Return(w, ok)
    PROVE  /\ pc' = [pc EXCEPT ![w] = "idle"] /\ op' = [op EXCEPT ![w] = NoCall]
           /\ handle' = IF op[w].kind = "open"
                        THEN [handle EXCEPT ![Owner[w]] = IF ok THEN "opened" ELSE "down"]
                        ELSE IF op[w].kind = "prune"
                        THEN [handle EXCEPT ![Owner[w]] = IF ok THEN "serving" ELSE "down"]
                        ELSE handle
           /\ pc' \in [Workers -> InTx \cup {"idle", "reading"}]
           /\ op' \in [Workers -> Call \cup {NoCall}]
           /\ handle' \in [Processes -> {"down", "opening", "opened", "retaining", "serving",
                                         "closed"}]
  <1>1. /\ pc' = [pc EXCEPT ![w] = "idle"] /\ op' = [op EXCEPT ![w] = NoCall]
        /\ handle' = IF op[w].kind = "open"
                     THEN [handle EXCEPT ![Owner[w]] = IF ok THEN "opened" ELSE "down"]
                     ELSE IF op[w].kind = "prune"
                     THEN [handle EXCEPT ![Owner[w]] = IF ok THEN "serving" ELSE "down"]
                     ELSE handle
    BY DEF Return, Goto, SetHandle
  <1>2. Owner[w] \in Processes
    BY WorkersAssumption
  <1> QED
    BY <1>1, <1>2 DEF TypeOK

(* Every statement. *)
LEMMA StorageTypeStep ==
    ASSUME TypeOK, NEW w \in Workers, Step(w) \/ StatementFails(w)
    PROVE  TypeOK'
  <1>0. /\ disk \in Image /\ work \in Image /\ Seen(w) \in Image
        /\ lock \in Workers \cup {NoWorker}
        /\ pc \in [Workers -> InTx \cup {"idle", "reading"}] /\ now \in Times
    BY SeenType DEF TypeOK
  <1>1. ASSUME NEW image \in Image, NEW l \in InTx, Execute(w, image, l)
        PROVE  TypeOK'
    BY <1>1 DEF Execute, Goto, TypeOK
  <1>2. ASSUME NEW l \in InTx, Skip(w, l)
        PROVE  TypeOK'
    BY <1>2 DEF Skip, Goto, TypeOK
  <1>3. ASSUME Rollback(w)
        PROVE  TypeOK'
    BY <1>0, <1>3, ReturnType DEF Rollback, Release, TypeOK
  <1>4. CASE ApplySchema(w)
    <2>1. [disk EXCEPT !.schema = TRUE] \in Image /\ "written" \in InTx
      BY <1>0, ImageFields DEF InTx
    <2> QED
      BY <1>1, <1>2, <1>4, <2>1 DEF ApplySchema
  <1>5. CASE InsertRun(w)
    <2> DEFINE R == CreateRow(Seen(w).runs, op[w].run, op[w].at)
    <2>1. R \in [Runs -> Row] /\ "inserted" \in InTx
      BY <1>0, <1>5, CallFields, ImageFields, CreateRowType DEF InsertRun, At, InTx
    <2>2. [Seen(w) EXCEPT !.runs = R] \in Image
      BY <1>0, <2>1, ImageFields
    <2> QED
      BY <1>1, <1>5, <2>1, <2>2 DEF InsertRun
  <1>6. CASE InsertSnapshot(w)
    <2>1. work.snapshots \cup {op[w].run} \in SUBSET Runs /\ "written" \in InTx
      BY <1>0, <1>6, CallFields, ImageFields DEF InsertSnapshot, At, InTx
    <2>2. [work EXCEPT !.snapshots = work.snapshots \cup {op[w].run}] \in Image
      BY <1>0, <2>1, ImageFields
    <2> QED
      BY <1>1, <1>6, <2>1, <2>2 DEF InsertSnapshot
  <1>7. CASE PruneByAge(w)
    <2>1. /\ Deleted(Seen(w), DeleteRunsOlderThan(Seen(w).runs, Cutoff(w))) \in Image
          /\ "aged" \in InTx
      BY <1>0, ImageFields, PruneStatements DEF InTx
    <2> QED
      BY <1>1, <1>2, <1>7, <2>1 DEF PruneByAge
  <1>8. CASE PruneByMaxRuns(w)
    <2>1. /\ Deleted(Seen(w), DeleteRunsOverflow(Seen(w).runs, MaxRuns)) \in Image
          /\ "trimmed" \in InTx
      BY <1>0, ImageFields, PruneStatements DEF InTx
    <2> QED
      BY <1>1, <1>2, <1>8, <2>1 DEF PruneByMaxRuns
  <1>9. CASE SetMetadata(w)
    <2>1. [Seen(w) EXCEPT !.prunedAt = op[w].at] \in Image /\ "written" \in InTx
      BY <1>0, <1>9, CallFields, ImageFields DEF SetMetadata, At, InTx
    <2> QED
      BY <1>1, <1>9, <2>1 DEF SetMetadata
  <1>10. CASE UpdateStatement(w)
    <2>1. disk' \in Image
      <3> DEFINE R == UpdateRow(disk.runs, op[w].run, op[w].status, FALSE)
      <3>1. R \in [Runs -> Row]
        BY <1>0, <1>10, CallFields, ImageFields, UpdateRowType, OutcomesAssumption
           DEF UpdateStatement, At
      <3>2. disk' \in {disk, [disk EXCEPT !.runs = R]}
        BY <1>10 DEF UpdateStatement
      <3> HIDE DEF R
      <3> QED
        BY <1>0, <3>1, <3>2, ImageFields
    <2>2. work' = disk' /\ UNCHANGED <<lock, now>>
      BY <1>10 DEF UpdateStatement
    <2> DEFINE found == op[w].run \in Present(disk.runs)
    <2>3. Return(w, found) /\ found \in BOOLEAN
      BY <1>10 DEF UpdateStatement
    <2> HIDE DEF found
    <2> QED
      BY <1>0, <2>1, <2>2, <2>3, ReturnType DEF TypeOK
  <1>11. CASE Commit(w)
    <2>1. disk' \in Image /\ work' \in Image /\ lock' \in Workers \cup {NoWorker} /\ now' = now
      BY <1>0, <1>11 DEF Commit, Release
    <2>2. CASE op[w].kind = "create"
      <3>1. pc' = [pc EXCEPT ![w] = "reading"] /\ UNCHANGED <<op, handle>>
        BY <1>11, <2>2 DEF Commit, Goto
      <3> QED
        BY <2>1, <3>1 DEF TypeOK
    <2>3. CASE op[w].kind # "create"
      <3>1. Return(w, TRUE)
        BY <1>11, <2>3 DEF Commit
      <3> QED
        BY <2>1, <3>1, ReturnType DEF TypeOK
    <2> QED
      BY <2>2, <2>3
  <1>12. CASE GetRun(w)
    BY <1>0, <1>12, ReturnType DEF GetRun, TypeOK
  <1>13. CASE PrimaryKeyViolated(w) \/ BusyTimeout(w) \/ StatementFails(w)
    BY <1>3, <1>13 DEF PrimaryKeyViolated, BusyTimeout, StatementFails
  <1> QED
    BY <1>4, <1>5, <1>6, <1>7, <1>8, <1>9, <1>10, <1>11, <1>12, <1>13 DEF Step

(* Entering a call, and the process around the calls. *)
LEMMA StorageTypeNext == TypeOK /\ [Next]_vars => TypeOK'
  <1> SUFFICES ASSUME TypeOK, [Next]_vars
               PROVE  TypeOK'
    OBVIOUS
  <1>1. ASSUME NEW w \in Workers, Caller(w)
        PROVE  TypeOK'
    <2>0. /\ handle' \in [Processes -> {"down", "opening", "opened", "retaining", "serving",
                                        "closed"}]
          /\ \E call \in Call : Enter(w, call)
      <3>1. CASE Open(w)
        BY <1>1, <3>1 DEF Open, SetHandle, TypeOK, Call
      <3>2. CASE ApplyRetention(w)
        BY <1>1, <3>2 DEF ApplyRetention, SetHandle, TypeOK, Call
      <3>3. CASE \E r \in Runs : CreateRun(w, r)
        BY <1>1, <3>3 DEF CreateRun, TypeOK, Call
      <3>4. CASE \E r \in Runs, status \in Outcomes : UpdateRun(w, r, status)
        BY <1>1, <3>4 DEF UpdateRun, TypeOK, Call
      <3> QED
        BY <1>1, <3>1, <3>2, <3>3, <3>4 DEF Caller
    <2> QED
      BY <2>0 DEF Enter, Goto, TypeOK, InTx
  <1>2. ASSUME NEW p \in Processes, Close(p) \/ Die(p)
        PROVE  TypeOK'
    BY <1>2 DEF Close, Die, SetHandle, TypeOK
  <1>3. CASE Tick
    BY <1>3 DEF Tick, TypeOK
  <1>4. CASE UNCHANGED vars
    BY <1>4 DEF vars, TypeOK
  <1> QED
    BY <1>1, <1>2, <1>3, <1>4, StorageTypeStep DEF Next

(* Every reachable state of the store is well typed. *)
THEOREM StorageTypeCorrect == Spec => []TypeOK
  BY StorageTypeInit, StorageTypeNext, PTL DEF Spec

-----------------------------------------------------------------------------
(* The write lock. *)

(* A statement that writes has the lock, and nobody else had it. *)
LEMMA CallsExecute ==
    ASSUME TypeOK, Calls, NEW w \in Workers, NEW image, NEW l, Execute(w, image, l),
           \/ op[w].kind = "open" /\ l = "written"
           \/ op[w].kind = "create" /\ l \in {"inserted", "written"}
           \/ op[w].kind = "prune" /\ l \in {"aged", "trimmed", "written"}
    PROVE  Calls'
  <1>1. /\ lock \in {NoWorker, w} /\ lock' = w
        /\ UNCHANGED <<op, handle, now>>
        /\ pc'[w] = l /\ \A v \in Workers \ {w} : pc'[v] = pc[v]
    BY DEF Execute, Goto, TypeOK
  <1>2. Alone'
    BY <1>1 DEF Calls, Alone
  <1>3. \A v \in Workers : Placed(v)'
    BY <1>1 DEF Calls, Placed
  <1>4. \A v \in Workers : Locks(v)'
    BY <1>1, WorkersAssumption DEF Calls, Locks
  <1> QED
    BY <1>2, <1>3, <1>4 DEF Calls

(* A statement that does not need to write leaves the lock alone. *)
LEMMA CallsSkip ==
    ASSUME TypeOK, Calls, NEW w \in Workers, NEW l, Skip(w, l),
           \/ op[w].kind = "open" /\ l = "written"
           \/ op[w].kind = "prune" /\ pc[w] = "begun" /\ l = "aged" /\ ~(MaxAge > 0)
           \/ op[w].kind = "prune" /\ pc[w] = "aged" /\ l = "trimmed" /\ ~(MaxRuns > 0)
    PROVE  Calls'
  <1>1. /\ UNCHANGED <<op, handle, now, lock>>
        /\ pc'[w] = l /\ \A v \in Workers \ {w} : pc'[v] = pc[v]
    BY DEF Skip, Goto, TypeOK
  <1>2. Alone'
    BY <1>1 DEF Calls, Alone
  <1>3. \A v \in Workers : Placed(v)'
    BY <1>1 DEF Calls, Placed
  <1>4. \A v \in Workers : Locks(v)'
    BY <1>1 DEF Calls, Locks
  <1> QED
    BY <1>2, <1>3, <1>4 DEF Calls

(* A call that ends gives the lock back. *)
LEMMA CallsReturn ==
    ASSUME TypeOK, Calls, NEW w \in Workers, NEW ok \in BOOLEAN, Return(w, ok),
           lock' = (IF lock = w THEN NoWorker ELSE lock), now' = now
    PROVE  Calls'
  <1>1. /\ pc'[w] = "idle" /\ op'[w].kind = "none"
        /\ \A v \in Workers \ {w} : pc'[v] = pc[v] /\ op'[v] = op[v]
    BY ReturnType DEF TypeOK, NoCall
  <1>2. \A v \in Workers \ {w} :
           op[v].kind # "none" => handle'[Owner[v]] = handle[Owner[v]]
    <2>1. handle' = handle \/ op[w].kind \in {"open", "prune"}
      BY ReturnType
    <2>2. \A p \in Processes : p # Owner[w] => handle'[p] = handle[p]
      BY ReturnType, WorkersAssumption DEF TypeOK
    <2>3. \A v \in Workers : Owner[v] \in Processes
      BY WorkersAssumption
    <2> QED
      BY <2>1, <2>2, <2>3 DEF Calls, Alone
  <1>3. Alone'
    BY <1>1 DEF Calls, Alone
  <1>4. \A v \in Workers : Placed(v)'
    BY <1>1, <1>2 DEF Calls, Placed
  <1>5. \A v \in Workers : Locks(v)'
    BY <1>1, WorkersAssumption DEF Calls, Locks
  <1> QED
    BY <1>3, <1>4, <1>5 DEF Calls

(* A new call begins without the lock; Bootstrap starts with nobody else there. *)
LEMMA CallsCaller ==
    ASSUME TypeOK, Calls, NEW w \in Workers, Caller(w)
    PROVE  Calls'
  <1>1. /\ pc[w] = "idle" /\ pc'[w] = "begun" /\ UNCHANGED <<lock, now>>
        /\ \A v \in Workers \ {w} : pc'[v] = pc[v] /\ op'[v] = op[v]
    BY DEF Caller, Open, ApplyRetention, CreateRun, UpdateRun, Enter, Goto, TypeOK
  <1>2. op[w].kind = "none"
    BY <1>1, CallFields DEF Calls, Placed
  <1>3. \A v \in Workers : Owner[v] \in Processes
    BY WorkersAssumption
  <1>4. \/ /\ op'[w].kind = "open" /\ handle[Owner[w]] = "down"
           /\ handle' = [handle EXCEPT ![Owner[w]] = "opening"]
        \/ /\ op'[w].kind = "prune" /\ handle[Owner[w]] = "opened" /\ op'[w].at = now
           /\ handle' = [handle EXCEPT ![Owner[w]] = "retaining"]
        \/ /\ op'[w].kind \in {"create", "update"} /\ handle[Owner[w]] = "serving"
           /\ handle' = handle
    BY DEF Caller, Open, ApplyRetention, CreateRun, UpdateRun, Enter, SetHandle, TypeOK
  <1>5. handle[Owner[w]] \in {"down", "opened"} =>
           \A v \in Workers : Owner[v] = Owner[w] => op[v].kind = "none"
    BY CallFields DEF Calls, Placed
  <1>6. \A v \in Workers \ {w} :
           op[v].kind # "none" => handle'[Owner[v]] = handle[Owner[v]]
    BY <1>3, <1>4, <1>5 DEF TypeOK
  <1>7. Alone'
    <2>1. handle[Owner[w]] = "serving" =>
             \A v \in Workers : Owner[v] = Owner[w] => op[v].kind \notin {"open", "prune"}
      BY DEF Calls, Placed
    <2> QED
      BY <1>1, <1>4, <1>5, <2>1 DEF Calls, Alone
  <1>8. \A v \in Workers \ {w} : Placed(v)'
    BY <1>1, <1>6 DEF Calls, Placed
  <1>9. Placed(w)'
    <2>1. handle'[Owner[w]] = IF op'[w].kind = "open" THEN "opening"
                              ELSE IF op'[w].kind = "prune" THEN "retaining" ELSE "serving"
      BY <1>3, <1>4 DEF TypeOK
    <2>2. op'[w].kind = "prune" => op'[w].at <= now
      BY <1>4, TimesAssumption DEF TypeOK
    <2> QED
      BY <1>1, <1>4, <2>1, <2>2 DEF Placed
  <1>10. \A v \in Workers : Locks(v)'
    BY <1>1 DEF Calls, Locks
  <1> QED
    BY <1>7, <1>8, <1>9, <1>10 DEF Calls

(* Every statement keeps the lock with the call that took it. *)
LEMMA CallsStep ==
    ASSUME TypeOK, Calls, NEW w \in Workers, Step(w) \/ StatementFails(w)
    PROVE  Calls'
  <1>1. ASSUME Rollback(w)
        PROVE  Calls'
    BY <1>1, CallsReturn DEF Rollback, Release
  <1>2. CASE ApplySchema(w)
    BY <1>2, CallsExecute, CallsSkip DEF ApplySchema, At
  <1>3. CASE InsertRun(w)
    BY <1>3, CallsExecute DEF InsertRun, At
  <1>4. CASE InsertSnapshot(w)
    BY <1>4, CallsExecute DEF InsertSnapshot, At
  <1>5. CASE PruneByAge(w)
    BY <1>5, CallsExecute, CallsSkip DEF PruneByAge, At
  <1>6. CASE PruneByMaxRuns(w)
    BY <1>6, CallsExecute, CallsSkip DEF PruneByMaxRuns, At
  <1>7. CASE SetMetadata(w)
    BY <1>7, CallsExecute DEF SetMetadata, At
  <1>8. CASE UpdateStatement(w)
    <2> DEFINE found == op[w].run \in Present(disk.runs)
    <2>1. Return(w, found) /\ found \in BOOLEAN /\ UNCHANGED <<lock, now>> /\ lock = NoWorker
      BY <1>8 DEF UpdateStatement
    <2> HIDE DEF found
    <2> QED
      BY <2>1, CallsReturn, WorkersAssumption
  <1>9. CASE Commit(w)
    <2>1. /\ pc[w] = "written" /\ now' = now
          /\ lock' = IF lock = w THEN NoWorker ELSE lock
      BY <1>9 DEF Commit, Release
    <2>2. CASE op[w].kind # "create"
      BY <1>9, <2>1, <2>2, CallsReturn DEF Commit
    <2>3. CASE op[w].kind = "create"
      <3>1. /\ UNCHANGED <<op, handle>>
            /\ pc'[w] = "reading" /\ \A v \in Workers \ {w} : pc'[v] = pc[v]
        BY <1>9, <2>3 DEF Commit, Goto, TypeOK
      <3>2. Alone' /\ \A v \in Workers : Placed(v)'
        BY <2>1, <2>3, <3>1 DEF Calls, Alone, Placed
      <3>3. \A v \in Workers : Locks(v)'
        BY <2>1, <3>1, WorkersAssumption DEF Calls, Locks
      <3> QED
        BY <3>2, <3>3 DEF Calls
    <2> QED
      BY <2>2, <2>3
  <1>10. CASE GetRun(w)
    BY <1>10, CallsReturn DEF GetRun, Calls, Locks
  <1>11. CASE PrimaryKeyViolated(w) \/ BusyTimeout(w) \/ StatementFails(w)
    BY <1>1, <1>11 DEF PrimaryKeyViolated, BusyTimeout, StatementFails
  <1> QED
    BY <1>2, <1>3, <1>4, <1>5, <1>6, <1>7, <1>8, <1>9, <1>10, <1>11 DEF Step

(* Nobody is in a call before the first process starts. *)
LEMMA CallsInit == Init => Calls
  <1> SUFFICES ASSUME Init
               PROVE  Calls
    OBVIOUS
  <1>1. \A w \in Workers : op[w].kind = "none" /\ pc[w] = "idle" /\ lock # w
    BY WorkersAssumption DEF Init, NoCall
  <1> QED
    BY <1>1 DEF Calls, Alone, Placed, Locks

(* A process that dies takes its calls and their lock along. *)
LEMMA CallsNext == TypeOK /\ Calls /\ [Next]_vars => Calls'
  <1> SUFFICES ASSUME TypeOK, Calls, [Next]_vars
               PROVE  Calls'
    OBVIOUS
  <1>0. \A v \in Workers : Owner[v] \in Processes
    BY WorkersAssumption
  <1>1. ASSUME NEW p \in Processes, Close(p)
        PROVE  Calls'
    <2>1. /\ UNCHANGED <<lock, op, pc, now>> /\ handle[p] = "serving" /\ handle'[p] = "closed"
          /\ \A q \in Processes \ {p} : handle'[q] = handle[q]
      BY <1>1 DEF Close, SetHandle, TypeOK
    <2>2. \A v \in Workers : Placed(v)'
      BY <1>0, <2>1 DEF Calls, Placed
    <2> QED
      BY <2>1, <2>2 DEF Calls, Alone, Locks
  <1>2. ASSUME NEW p \in Processes, Die(p)
        PROVE  Calls'
    <2>1. /\ now' = now
          /\ \A q \in Processes \ {p} : handle'[q] = handle[q]
          /\ \A v \in Workers : IF Owner[v] = p THEN pc'[v] = "idle" /\ op'[v].kind = "none"
                                ELSE pc'[v] = pc[v] /\ op'[v] = op[v]
          /\ \A v \in Workers : lock' = v => lock = v /\ Owner[v] # p
          /\ \A v \in Workers : lock = v /\ Owner[v] # p => lock' = v
      BY <1>2, WorkersAssumption DEF Die, SetHandle, TypeOK, NoCall
    <2>2. Alone'
      BY <2>1 DEF Calls, Alone
    <2>3. \A v \in Workers : Placed(v)'
      BY <1>0, <2>1 DEF Calls, Placed
    <2>4. \A v \in Workers : Locks(v)'
      BY <2>1 DEF Calls, Locks
    <2> QED
      BY <2>2, <2>3, <2>4 DEF Calls
  <1>3. CASE Tick
    <2>1. now \in Nat /\ \A v \in Workers : op[v].kind = "prune" => op[v].at \in Nat
      BY CallFields, TimesAssumption DEF TypeOK
    <2>2. \A v \in Workers : op[v].kind = "prune" => op'[v].at <= now'
      BY <1>3, <2>1 DEF Tick, Calls, Placed
    <2> QED
      BY <1>3, <2>2 DEF Tick, Calls, Alone, Placed, Locks
  <1>4. CASE UNCHANGED vars
    BY <1>4 DEF vars, Calls, Alone, Placed, Locks
  <1> QED
    BY <1>1, <1>2, <1>3, <1>4, CallsStep, CallsCaller DEF Next

(* No error path, timeout, Close or crash leaves the database locked against
   every other writer: Storage.LockHasHolder. *)
THEOREM LockNeverLeaks == Spec => []LockHasHolder
  <1>1. TypeOK /\ Calls => LockHasHolder
    <2> SUFFICES ASSUME TypeOK, Calls, lock # NoWorker
                 PROVE  pc[lock] \in InTx /\ handle[Owner[lock]] # "down"
      BY DEF LockHasHolder
    <2>1. lock \in Workers
      BY DEF TypeOK
    <2>2. pc[lock] \in InTx
      BY <2>1 DEF TypeOK, Calls, Locks, InTx
    <2>3. op[lock].kind \in {"open", "prune", "create", "update"}
      BY <2>1, <2>2, CallFields DEF Calls, Placed, InTx
    <2> QED
      BY <2>1, <2>2, <2>3 DEF Calls, Placed
  <1> QED
    BY <1>1, StorageTypeInit, StorageTypeNext, CallsInit, CallsNext, PTL DEF Spec

-----------------------------------------------------------------------------
(* The database, as committed and as the holder of the lock sees it. *)

(* What does not concern the holder of the lock changes nothing. *)
LEMMA ContentsFrame ==
    ASSUME TypeOK, Contents, UNCHANGED <<disk, work, lock>>,
           \A v \in Workers : lock = v => pc'[v] = pc[v] /\ op'[v] = op[v]
    PROVE  Contents'
  <1>1. \A v \in Workers : lock' = v => Transaction(v)'
    BY DEF Contents, Transaction, AgeCutoff, Cutoff
  <1>2. Snapshots'
    BY DEF Contents, Snapshots
  <1> QED
    BY <1>1, <1>2 DEF Contents, RowsHaveSnapshots

(* A write of w, judged by the image it leaves. *)
LEMMA ContentsExecute ==
    ASSUME TypeOK, Contents, NEW w \in Workers, NEW image \in Image, NEW l,
           Execute(w, image, l), Transaction(w)',
           image.snapshots = IF l = "inserted" THEN Present(image.runs) \ {op[w].run}
                             ELSE Present(image.runs)
    PROVE  Contents'
  <1>1. disk' = disk /\ work' = image /\ lock' = w /\ op' = op /\ pc'[w] = l
    BY DEF Execute, Goto, TypeOK
  <1>2. Snapshots'
    BY <1>1 DEF Snapshots
  <1> QED
    BY <1>1, <1>2, WorkersAssumption DEF Contents, RowsHaveSnapshots

(* The database without a transaction. *)
LEMMA ContentsSettled ==
    ASSUME lock' = NoWorker, work' = disk', disk'.snapshots = Present(disk'.runs),
           IsFiniteSet(Present(disk'.runs))
    PROVE  Contents'
  <1>1. lock' \notin Workers
    BY WorkersAssumption
  <1> QED
    BY <1>1 DEF Contents, Snapshots, RowsHaveSnapshots

(* Retention without a limit selects nothing. *)
LEMMA RetainNothing ==
    ASSUME NEW D \in [Runs -> Row]
    PROVE  Retain(D, 0, 0) = D
  BY NothingOlderThanZero DEF Retain

(* What the statements of a transaction find, with or without the lock. *)
LEMMA SeenSoFar ==
    ASSUME TypeOK, StoreInv, NEW w \in Workers
    PROVE  /\ pc[w] = "begun" => Seen(w) = disk /\ lock # w
           /\ op[w].kind = "prune" =>
                /\ Seen(w).snapshots = Present(Seen(w).runs)
                /\ pc[w] = "aged" =>
                      Seen(w).runs = DeleteRunsOlderThan(disk.runs, AgeCutoff(w))
                /\ pc[w] \in {"trimmed", "written"} =>
                      Seen(w).runs = Retain(disk.runs, AgeCutoff(w), MaxRuns)
                /\ Seen(w).prunedAt = IF pc[w] = "written" THEN op[w].at ELSE disk.prunedAt
           /\ op[w].kind = "create" /\ pc[w] # "begun" /\ pc[w] # "reading" =>
                /\ op[w].run \notin Present(disk.runs)
                /\ Seen(w).runs = CreateRow(disk.runs, op[w].run, op[w].at)
                /\ Seen(w).prunedAt = disk.prunedAt
           /\ op[w].kind = "open" => /\ Seen(w).runs = disk.runs
                                     /\ Seen(w).prunedAt = disk.prunedAt
           /\ pc[w] = "written" => Seen(w).snapshots = Present(Seen(w).runs)
  <1>1. Locks(w) /\ Placed(w)
    BY DEF StoreInv, Calls
  <1>2. disk.runs \in [Runs -> Row] /\ disk.snapshots = Present(disk.runs)
    BY ImageFields DEF TypeOK, StoreInv, Contents, RowsHaveSnapshots
  <1>3. /\ DeleteRunsOlderThan(disk.runs, 0) = disk.runs
        /\ Retain(disk.runs, 0, 0) = disk.runs
    BY <1>2, NothingOlderThanZero, RetainNothing
  <1>4. MaxAge \in Nat /\ MaxRuns \in Nat
    BY PolicyAssumption
  <1>5. CASE lock = w
    <2>1. Seen(w) = work /\ Transaction(w) /\ pc[w] \notin {"idle", "begun", "reading"}
      BY <1>1, <1>5 DEF Seen, StoreInv, Contents, Locks
    <2>2. pc[w] # "inserted" => work.snapshots = Present(work.runs)
      BY <1>5 DEF StoreInv, Contents, Snapshots
    <2> QED
      BY <1>1, <2>1, <2>2 DEF Transaction, Placed
  <1>6. CASE lock # w
    <2>1. Seen(w) = disk
      BY <1>6 DEF Seen
    <2>2. pc[w] = "aged" => ~(MaxAge > 0)
      BY <1>1, <1>6 DEF Locks
    <2>3. pc[w] = "trimmed" => ~(MaxAge > 0) /\ MaxRuns = 0
      BY <1>1, <1>4, <1>6 DEF Locks
    <2>4. pc[w] = "written" => op[w].kind = "open"
      BY <1>1, <1>6 DEF Locks
    <2>5. pc[w] # "inserted"
      BY <1>1, <1>6 DEF Locks
    <2>6. ~(MaxAge > 0) => AgeCutoff(w) = 0
      BY DEF AgeCutoff
    <2> QED
      BY <1>1, <1>2, <1>3, <1>6, <2>1, <2>2, <2>3, <2>4, <2>5, <2>6 DEF Placed
  <1> QED
    BY <1>5, <1>6

(* A transaction that is rolled back leaves what was committed. *)
LEMMA ContentsRollback ==
    ASSUME TypeOK, Contents, NEW w \in Workers, Rollback(w)
    PROVE  Contents'
  <1>1. CASE lock = w
    BY <1>1, ContentsSettled DEF Rollback, Release, Contents, RowsHaveSnapshots
  <1>2. CASE lock # w
    <2>1. UNCHANGED <<disk, work, lock>>
      BY <1>2 DEF Rollback, Release
    <2>2. \A v \in Workers \ {w} : pc'[v] = pc[v] /\ op'[v] = op[v]
      BY ReturnType, ZenonT(60) DEF Rollback, TypeOK
    <2> QED
      BY <1>2, <2>1, <2>2, ContentsFrame
  <1> QED
    BY <1>1, <1>2

(* The transaction of CreateRun. *)
LEMMA ContentsCreate ==
    ASSUME TypeOK, StoreInv, NEW w \in Workers, InsertRun(w) \/ InsertSnapshot(w)
    PROVE  Contents'
  <1>0. /\ disk \in Image /\ work \in Image /\ Seen(w) \in Image
        /\ op[w].run \in Runs /\ op[w].at \in Times /\ Contents
        /\ disk.snapshots = Present(disk.runs)
    BY SeenType, CallFields
       DEF TypeOK, InsertRun, InsertSnapshot, At, StoreInv, Contents, RowsHaveSnapshots
  <1> DEFINE r == op[w].run
             R == CreateRow(disk.runs, r, op[w].at)
  <1>1. R \in [Runs -> Row] /\ Present(R) = Present(disk.runs) \cup {r}
    BY <1>0, ImageFields, CreateRowType
  <1>2. CASE InsertRun(w)
    <2> DEFINE image == [disk EXCEPT !.runs = R]
    <2>1. /\ Execute(w, image, "inserted") /\ op[w].kind = "create"
          /\ r \notin Present(disk.runs)
      BY <1>2, SeenSoFar DEF InsertRun, At
    <2> HIDE DEF R, r
    <2>2. /\ image \in Image /\ image.runs = R /\ image.snapshots = disk.snapshots
          /\ image.prunedAt = disk.prunedAt
      BY <1>0, <1>1, ImageFields
    <2> HIDE DEF image
    <2>3. disk' = disk /\ work' = image /\ op' = op
      BY <2>1 DEF Execute
    <2>4. Transaction(w)'
      BY <2>1, <2>2, <2>3 DEF Transaction, R, r
    <2>5. image.snapshots = Present(image.runs) \ {op[w].run}
      BY <1>0, <1>1, <2>1, <2>2 DEF r
    <2> QED
      BY <1>0, <2>1, <2>2, <2>4, <2>5, ContentsExecute
  <1>3. CASE InsertSnapshot(w)
    <2> DEFINE T == work.snapshots \cup {r}
               image == [work EXCEPT !.snapshots = T]
    <2>1. Execute(w, image, "written") /\ op[w].kind = "create" /\ pc[w] = "inserted"
      BY <1>3 DEF InsertSnapshot, At
    <2>2. lock = w /\ Transaction(w) /\ work.snapshots = Present(work.runs) \ {r}
      BY <2>1 DEF StoreInv, Calls, Locks, Contents, Snapshots
    <2>3. work.runs = R /\ r \notin Present(disk.runs) /\ work.prunedAt = disk.prunedAt
      BY <2>1, <2>2 DEF Transaction
    <2> HIDE DEF R, r
    <2>4. T \in SUBSET Runs
      BY <1>0, ImageFields DEF r
    <2> HIDE DEF T
    <2>5. /\ image \in Image /\ image.runs = R /\ image.prunedAt = disk.prunedAt
          /\ image.snapshots = T
      <3>1. /\ image \in Image /\ image.runs = work.runs /\ image.prunedAt = work.prunedAt
            /\ image.snapshots = T
        <4>1. work \in Image
          BY <1>0
        <4> QED
          BY <2>4, <4>1 DEF Image
      <3> QED
        BY <2>3, <3>1
    <2> HIDE DEF image
    <2>6. disk' = disk /\ work' = image /\ op' = op
      BY <2>1 DEF Execute
    <2>7. Transaction(w)'
      BY <2>1, <2>3, <2>5, <2>6 DEF Transaction, R, r
    <2>8. image.snapshots = Present(image.runs)
      BY <1>1, <2>2, <2>3, <2>5 DEF T
    <2> QED
      BY <1>0, <2>1, <2>5, <2>7, <2>8, ContentsExecute
  <1> QED
    BY <1>2, <1>3

(* A DELETE with its cascade, as a statement of ApplyRetention. *)
LEMMA ContentsDelete ==
    ASSUME TypeOK, StoreInv, NEW w \in Workers, op[w].kind = "prune", pc[w] # "written",
           NEW R \in [Runs -> Row], Present(R) \subseteq Present(Seen(w).runs),
           NEW l \in {"aged", "trimmed"}, Execute(w, Deleted(Seen(w), R), l),
           R = IF l = "aged" THEN DeleteRunsOlderThan(disk.runs, AgeCutoff(w))
               ELSE Retain(disk.runs, AgeCutoff(w), MaxRuns)
    PROVE  Contents'
  <1> DEFINE image == Deleted(Seen(w), R)
  <1>1. Seen(w).snapshots = Present(Seen(w).runs) /\ Seen(w).prunedAt = disk.prunedAt
    BY SeenSoFar
  <1>2. /\ image \in Image /\ image.runs = R /\ image.prunedAt = disk.prunedAt
        /\ image.snapshots = Present(R)
    <2> DEFINE I == Seen(w)
    <2>1. I \in Image
      BY SeenType
    <2> HIDE DEF I
    <2>2. LET J == Deleted(I, R)
          IN  /\ J \in Image /\ J.runs = R /\ J.prunedAt = I.prunedAt
              /\ J.snapshots = I.snapshots \cap Present(R)
      BY <2>1, ImageFields
    <2> QED
      BY <1>1, <2>2 DEF I
  <1> HIDE DEF image
  <1>3. disk' = disk /\ work' = image /\ op' = op /\ pc'[w] = l
    BY DEF Execute, Goto, TypeOK, image
  <1>4. Transaction(w)'
    BY <1>2, <1>3 DEF Transaction, AgeCutoff, Cutoff
  <1>5. Contents /\ Execute(w, image, l)
    BY DEF StoreInv, image
  <1> QED
    BY <1>2, <1>4, <1>5, ContentsExecute

(* The transaction of ApplyRetention. *)
LEMMA ContentsPrune ==
    ASSUME TypeOK, StoreInv, NEW w \in Workers,
           PruneByAge(w) \/ PruneByMaxRuns(w) \/ SetMetadata(w)
    PROVE  Contents'
  <1> DEFINE S == Seen(w).runs
  <1>0. /\ disk \in Image /\ disk.runs \in [Runs -> Row]
        /\ Seen(w) \in Image /\ S \in [Runs -> Row]
        /\ op[w].kind = "prune" /\ op[w].at \in Times /\ Contents
        /\ MaxAge \in Nat /\ MaxRuns \in Nat
    BY SeenType, CallFields, ImageFields, PolicyAssumption
       DEF TypeOK, PruneByAge, PruneByMaxRuns, SetMetadata, At, StoreInv
  <1> HIDE DEF S
  <1>1. CASE PruneByAge(w)
    <2>1. pc[w] = "begun" /\ lock # w /\ Seen(w) = disk
      BY <1>1, SeenSoFar DEF PruneByAge, At
    <2>2. CASE MaxAge > 0
      <3> DEFINE R == DeleteRunsOlderThan(S, Cutoff(w))
      <3>1. Execute(w, Deleted(Seen(w), R), "aged")
        BY <1>1, <2>2 DEF PruneByAge, S
      <3>2. R \in [Runs -> Row] /\ Present(R) \subseteq Present(S)
        BY <1>0, PruneStatements
      <3>3. R = DeleteRunsOlderThan(disk.runs, AgeCutoff(w))
        BY <2>1, <2>2 DEF AgeCutoff, S
      <3> HIDE DEF R
      <3> QED
        BY <1>0, <2>1, <3>1, <3>2, <3>3, ContentsDelete DEF S
    <2>3. CASE ~(MaxAge > 0)
      <3>1. Skip(w, "aged")
        BY <1>1, <2>3 DEF PruneByAge
      <3>2. /\ UNCHANGED <<disk, work, lock, op>>
            /\ \A v \in Workers \ {w} : pc'[v] = pc[v]
        BY <3>1 DEF Skip, Goto, TypeOK
      <3> QED
        BY <1>0, <2>1, <3>2, ContentsFrame
    <2> QED
      BY <2>2, <2>3
  <1>2. CASE PruneByMaxRuns(w)
    <2>1. pc[w] = "aged" /\ S = DeleteRunsOlderThan(disk.runs, AgeCutoff(w))
      BY <1>2, SeenSoFar DEF PruneByMaxRuns, At, S
    <2>2. CASE MaxRuns > 0
      <3> DEFINE R == DeleteRunsOverflow(S, MaxRuns)
      <3>1. Execute(w, Deleted(Seen(w), R), "trimmed")
        BY <1>2, <2>2 DEF PruneByMaxRuns, S
      <3>2. R \in [Runs -> Row] /\ Present(R) \subseteq Present(S)
        BY <1>0, PruneStatements
      <3>3. R = Retain(disk.runs, AgeCutoff(w), MaxRuns)
        BY <2>1, <2>2 DEF Retain
      <3> HIDE DEF R
      <3> QED
        BY <1>0, <2>1, <3>1, <3>2, <3>3, ContentsDelete DEF S
    <2>3. CASE ~(MaxRuns > 0)
      <3>1. Skip(w, "trimmed")
        BY <1>2, <2>3 DEF PruneByMaxRuns
      <3>2. /\ UNCHANGED <<disk, work, lock, op>> /\ pc'[w] = "trimmed"
            /\ \A v \in Workers \ {w} : pc'[v] = pc[v]
        BY <3>1 DEF Skip, Goto, TypeOK
      <3>3. Retain(disk.runs, AgeCutoff(w), MaxRuns) = S
        BY <2>1, <2>3 DEF Retain
      <3>4. lock = w => Transaction(w)'
        <4> SUFFICES ASSUME lock = w
                     PROVE  Transaction(w)'
          OBVIOUS
        <4>1. work.runs = S /\ work.prunedAt = disk.prunedAt
          BY <1>0, <2>1 DEF StoreInv, Contents, Transaction
        <4> QED
          BY <1>0, <3>2, <3>3, <4>1 DEF Transaction, AgeCutoff, Cutoff
      <3>5. Snapshots'
        BY <1>0, <2>1, <3>2 DEF Contents, Snapshots
      <3>6. \A v \in Workers : lock' = v => Transaction(v)'
        BY <1>0, <3>2, <3>4 DEF Contents, Transaction, AgeCutoff, Cutoff
      <3> QED
        BY <1>0, <3>2, <3>5, <3>6 DEF Contents, RowsHaveSnapshots
    <2> QED
      BY <2>2, <2>3
  <1>3. CASE SetMetadata(w)
    <2> DEFINE image == [Seen(w) EXCEPT !.prunedAt = op[w].at]
    <2>1. Execute(w, image, "written") /\ pc[w] = "trimmed"
      BY <1>3 DEF SetMetadata, At
    <2>2. /\ S = Retain(disk.runs, AgeCutoff(w), MaxRuns)
          /\ Seen(w).snapshots = Present(S)
      BY <1>0, <2>1, SeenSoFar DEF S
    <2>3. /\ image \in Image /\ image.runs = S /\ image.snapshots = Present(S)
          /\ image.prunedAt = op[w].at
      BY <1>0, <2>2, ImageFields DEF S
    <2> HIDE DEF image
    <2>4. disk' = disk /\ work' = image /\ op' = op /\ pc'[w] = "written"
      BY <2>1 DEF Execute, Goto, TypeOK
    <2>5. Transaction(w)'
      BY <1>0, <2>2, <2>3, <2>4 DEF Transaction, AgeCutoff, Cutoff
    <2> QED
      BY <1>0, <2>1, <2>3, <2>5, ContentsExecute
  <1> QED
    BY <1>1, <1>2, <1>3

(* COMMIT and the UPDATE outside a transaction, by what becomes of the run
   history: the steps of RunHistory. *)
LEMMA Committed ==
    ASSUME TypeOK, StoreInv, NEW w \in Workers, Commit(w)
    PROVE  /\ disk' = Seen(w) /\ disk'.snapshots = Present(disk'.runs)
           /\ \/ disk'.runs = disk.runs /\ disk'.prunedAt = disk.prunedAt
              \/ /\ op[w].run \in Runs /\ op[w].at \in Times
                 /\ op[w].run \notin Present(disk.runs)
                 /\ disk'.runs = CreateRow(disk.runs, op[w].run, op[w].at)
                 /\ disk'.prunedAt = disk.prunedAt
              \/ /\ op[w].at \in Times /\ op[w].at <= now
                 /\ disk'.runs = Retain(disk.runs, AgeCutoff(w), MaxRuns)
                 /\ disk'.prunedAt = op[w].at
  <1>1. pc[w] = "written" /\ disk' = Seen(w)
    BY DEF Commit
  <1>2. op[w].kind \in {"open", "prune", "create"}
    BY <1>1, CallFields DEF StoreInv, Calls, Placed
  <1>3. op[w].kind = "prune" => op[w].at <= now
    BY DEF StoreInv, Calls, Placed
  <1> QED
    BY <1>1, <1>2, <1>3, SeenSoFar, CallFields

LEMMA Updated ==
    ASSUME TypeOK, NEW w \in Workers, UpdateStatement(w)
    PROVE  /\ disk'.snapshots = disk.snapshots /\ disk'.prunedAt = disk.prunedAt
           /\ Present(disk'.runs) = Present(disk.runs)
           /\ \/ disk'.runs = disk.runs
              \/ /\ op[w].run \in Present(disk.runs) /\ op[w].status \in Terminal
                 /\ disk'.runs = UpdateRow(disk.runs, op[w].run, op[w].status, FALSE)
  <1> DEFINE D == disk.runs
             r == op[w].run
             s == op[w].status
             R == UpdateRow(D, r, s, FALSE)
  <1>1. disk \in Image /\ D \in [Runs -> Row]
    BY ImageFields DEF TypeOK
  <1>2. r \in Runs /\ s \in Terminal
    BY CallFields, OutcomesAssumption DEF UpdateStatement, At
  <1>3. disk' = disk \/ (r \in Present(D) /\ disk' = [disk EXCEPT !.runs = R])
    BY DEF UpdateStatement
  <1> HIDE DEF D, r, s
  <1>4. R \in [Runs -> Row] /\ R[r].status = s /\ \A q \in Runs \ {r} : R[q] = D[q]
    <2>1. R \in [Runs -> Row]
      BY <1>1, <1>2, UpdateRowType
    <2> QED
      BY <1>1, <1>2, <2>1 DEF UpdateRow
  <1> HIDE DEF R
  <1>5. LET J == [disk EXCEPT !.runs = R]
        IN  J.runs = R /\ J.snapshots = disk.snapshots /\ J.prunedAt = disk.prunedAt
    BY <1>1, <1>4 DEF Image
  <1>6. r \in Present(D) => Present(R) = Present(D)
    BY <1>2, <1>4 DEF Present, Terminal
  <1>7. CASE disk' = disk
    BY <1>7
  <1>8. CASE r \in Present(D) /\ disk' = [disk EXCEPT !.runs = R]
    BY <1>2, <1>5, <1>6, <1>8 DEF R, D, r, s
  <1> QED
    BY <1>3, <1>7, <1>8

(* A history with finitely many rows stays one. *)
LEMMA FiniteHistory ==
    ASSUME NEW D \in [Runs -> Row], IsFiniteSet(Present(D))
    PROVE  /\ \A r \in Runs, t \in Times : IsFiniteSet(Present(CreateRow(D, r, t)))
           /\ \A cutoff, keep : IsFiniteSet(Present(Retain(D, cutoff, keep)))
           /\ IsFiniteSet(Finished(D))
  <1>1. ASSUME NEW r \in Runs, NEW t \in Times
        PROVE  IsFiniteSet(Present(CreateRow(D, r, t)))
    <2> DEFINE P == Present(D)
    <2>1. Present(CreateRow(D, r, t)) = P \cup {r} /\ IsFiniteSet(P)
      BY CreateRowType
    <2> HIDE DEF P
    <2> QED
      BY <2>1, FS_AddElement
  <1>2. ASSUME NEW cutoff, NEW keep
        PROVE  IsFiniteSet(Present(Retain(D, cutoff, keep)))
    <2>1. Present(Retain(D, cutoff, keep)) \subseteq Present(D)
      BY RetainType DEF Present, Terminal
    <2> QED
      BY <2>1, FS_Subset
  <1>3. Finished(D) \subseteq Present(D)
    BY DEF Finished, Present, Terminal
  <1> QED
    BY <1>1, <1>2, <1>3, FS_Subset

(* Every statement leaves the database consistent. *)
LEMMA ContentsStep ==
    ASSUME TypeOK, StoreInv, NEW w \in Workers, Step(w) \/ StatementFails(w)
    PROVE  Contents'
  <1>0. /\ Contents /\ disk \in Image /\ disk.runs \in [Runs -> Row]
        /\ disk.snapshots = Present(disk.runs) /\ IsFiniteSet(Present(disk.runs))
    BY ImageFields DEF StoreInv, Contents, RowsHaveSnapshots, TypeOK
  <1>1. CASE ApplySchema(w)
    <2>1. pc[w] = "begun" /\ lock # w /\ op[w].kind = "open"
      BY <1>1, SeenSoFar DEF ApplySchema, At
    <2>2. CASE disk.schema
      <3>1. /\ UNCHANGED <<disk, work, lock, op>>
            /\ \A v \in Workers \ {w} : pc'[v] = pc[v]
        BY <1>1, <2>2 DEF ApplySchema, Skip, Goto, TypeOK
      <3> QED
        BY <1>0, <2>1, <3>1, ContentsFrame
    <2>3. CASE ~disk.schema
      <3> DEFINE image == [disk EXCEPT !.schema = TRUE]
      <3>1. Execute(w, image, "written")
        BY <1>1, <2>3 DEF ApplySchema
      <3>2. /\ image \in Image /\ image.runs = disk.runs /\ image.snapshots = disk.snapshots
            /\ image.prunedAt = disk.prunedAt
        BY <1>0, ImageFields
      <3> HIDE DEF image
      <3>3. disk' = disk /\ work' = image /\ op' = op
        BY <3>1 DEF Execute
      <3>4. Transaction(w)'
        BY <2>1, <3>2, <3>3 DEF Transaction
      <3> QED
        BY <1>0, <3>1, <3>2, <3>4, ContentsExecute
    <2> QED
      BY <2>2, <2>3
  <1>2. CASE UpdateStatement(w)
    <2>1. lock' = NoWorker /\ work' = disk'
      BY <1>2 DEF UpdateStatement
    <2> QED
      BY <1>0, <1>2, <2>1, Updated, ContentsSettled
  <1>3. CASE Commit(w)
    <2>1. CASE lock = w
      <3>1. lock' = NoWorker /\ work' = disk'
        BY <1>3, <2>1 DEF Commit, Release
      <3>2. IsFiniteSet(Present(disk'.runs))
        BY <1>0, <1>3, Committed, FiniteHistory
      <3> QED
        BY <1>3, <3>1, <3>2, Committed, ContentsSettled
    <2>2. CASE lock # w
      <3>1. UNCHANGED <<disk, work, lock>>
        BY <1>3, <2>2 DEF Commit, Release, Seen
      <3>2. \A v \in Workers \ {w} : pc'[v] = pc[v] /\ op'[v] = op[v]
        BY <1>3, ReturnType, ZenonT(60) DEF Commit, Goto, TypeOK
      <3> QED
        BY <1>0, <2>2, <3>1, <3>2, ContentsFrame
    <2> QED
      BY <2>1, <2>2
  <1>4. CASE GetRun(w)
    <2>1. lock # w /\ UNCHANGED <<disk, work, lock>>
      BY <1>4 DEF GetRun, StoreInv, Calls, Locks
    <2>2. \A v \in Workers \ {w} : pc'[v] = pc[v] /\ op'[v] = op[v]
      BY <1>4, ReturnType, ZenonT(60) DEF GetRun, TypeOK
    <2> QED
      BY <1>0, <2>1, <2>2, ContentsFrame
  <1>5. CASE PrimaryKeyViolated(w) \/ BusyTimeout(w) \/ StatementFails(w)
    BY <1>0, <1>5, ContentsRollback DEF PrimaryKeyViolated, BusyTimeout, StatementFails
  <1> QED
    BY <1>1, <1>2, <1>3, <1>4, <1>5, ContentsCreate, ContentsPrune DEF Step

(* The inductive invariant of the store. *)
LEMMA StoreInvInit == Init => StoreInv
  <1> SUFFICES ASSUME Init
               PROVE  Contents
    BY CallsInit DEF StoreInv
  <1>1. /\ disk.runs = [r \in Runs |-> NoRow] /\ disk.snapshots = {} /\ work = disk
        /\ lock = NoWorker /\ lock \notin Workers
    BY WorkersAssumption DEF Init
  <1>2. Present(disk.runs) = {}
    BY <1>1 DEF Present, NoRow
  <1> QED
    BY <1>1, <1>2, FS_EmptySet DEF Contents, Snapshots, RowsHaveSnapshots

LEMMA StoreInvNext == TypeOK /\ StoreInv /\ [Next]_vars => StoreInv'
  <1> SUFFICES ASSUME TypeOK, StoreInv, [Next]_vars
               PROVE  Contents'
    BY CallsNext DEF StoreInv
  <1>0. Contents /\ Calls
    BY DEF StoreInv
  <1>1. ASSUME NEW w \in Workers, Caller(w)
        PROVE  Contents'
    <2>1. /\ pc[w] = "idle" /\ UNCHANGED <<disk, work, lock>>
          /\ \A v \in Workers \ {w} : pc'[v] = pc[v] /\ op'[v] = op[v]
      BY <1>1 DEF Caller, Open, ApplyRetention, CreateRun, UpdateRun, Enter, Goto, TypeOK
    <2>2. lock # w
      BY <1>0, <2>1 DEF Calls, Locks
    <2> QED
      BY <1>0, <2>1, <2>2, ContentsFrame
  <1>2. ASSUME NEW p \in Processes, Close(p)
        PROVE  Contents'
    BY <1>0, <1>2, ContentsFrame DEF Close
  <1>3. ASSUME NEW p \in Processes, Die(p)
        PROVE  Contents'
    <2>1. disk' = disk
      BY <1>3 DEF Die
    <2>2. CASE lock \in {w \in Workers : Owner[w] = p}
      BY <1>0, <1>3, <2>1, <2>2, ContentsSettled DEF Die, Contents, RowsHaveSnapshots
    <2>3. CASE lock \notin {w \in Workers : Owner[w] = p}
      <3>1. UNCHANGED <<work, lock>>
        BY <1>3, <2>3 DEF Die
      <3>2. \A v \in Workers : Owner[v] # p => pc'[v] = pc[v] /\ op'[v] = op[v]
        BY <1>3 DEF Die
      <3> QED
        BY <1>0, <2>1, <2>3, <3>1, <3>2, ContentsFrame
    <2> QED
      BY <2>2, <2>3
  <1>4. CASE Tick
    BY <1>0, <1>4, ContentsFrame DEF Tick
  <1>5. CASE UNCHANGED vars
    BY <1>0, <1>5, ContentsFrame DEF vars
  <1> QED
    BY <1>1, <1>2, <1>3, <1>4, <1>5, ContentsStep DEF Next

LEMMA StoreInvariant == Spec => [](TypeOK /\ StoreInv)
  BY StorageTypeInit, StorageTypeNext, StoreInvInit, StoreInvNext, PTL DEF Spec

(* A run is committed with its snapshot or not at all, and deleted with it,
   whichever statement of which call fails or dies: Storage.RowsHaveSnapshots. *)
THEOREM SnapshotsMatchRuns == Spec => []RowsHaveSnapshots
  <1>1. StoreInv => RowsHaveSnapshots
    BY DEF StoreInv, Contents
  <1> QED
    BY <1>1, StoreInvariant, PTL

-----------------------------------------------------------------------------
(* The store implements RunHistory, and what it promises of retention. *)

(* Nothing but a COMMIT and a lone UPDATE changes what is committed. *)
LEMMA DiskChanges ==
    ASSUME [Next]_vars
    PROVE  disk' = disk \/ \E w \in Workers : Commit(w) \/ UpdateStatement(w)
  <1>1. ASSUME NEW w \in Workers, Step(w) \/ StatementFails(w), ~Commit(w), ~UpdateStatement(w)
        PROVE  disk' = disk
    BY <1>1 DEF Step, StatementFails, ApplySchema, InsertRun, PrimaryKeyViolated, InsertSnapshot,
                PruneByAge, PruneByMaxRuns, SetMetadata, GetRun, BusyTimeout, Execute, Skip,
                Rollback
  <1>2. ASSUME NEW w \in Workers, Caller(w)
        PROVE  disk' = disk
    BY <1>2 DEF Caller, Open, ApplyRetention, CreateRun, UpdateRun, Enter
  <1> QED
    BY <1>1, <1>2 DEF Next, Close, Die, Tick, vars

(* The cutoff of a policy is one RunHistory knows. *)
LEMMA AgeCutoffType ==
    ASSUME NEW w \in Workers, op[w].at \in Times
    PROVE  AgeCutoff(w) \in Nat /\ AgeCutoff(w) \in History!Cutoffs
  <1> DEFINE t == op[w].at
  <1>1. t \in Times /\ t \in Nat /\ MaxAge \in Nat
    BY TimesAssumption, PolicyAssumption
  <1>2. AgeCutoff(w) = IF MaxAge > 0 /\ t > MaxAge THEN t - MaxAge ELSE 0
    BY DEF AgeCutoff, Cutoff
  <1> HIDE DEF t
  <1>3. AgeCutoff(w) \in 0..t
    BY <1>1, <1>2
  <1> QED
    BY <1>1, <1>3 DEF History!Cutoffs

(* RunHistory and the store read the same statement the same way. *)
LEMMA SameRetention ==
    ASSUME NEW D, NEW cutoff, NEW keep
    PROVE  History!Retain(D, cutoff, keep) = Retain(D, cutoff, keep)
  <1>1. \A E : History!Finished(E) = Finished(E)
    BY DEF History!Finished, History!Terminal, Finished, Terminal
  <1>2. \A E, S : History!Delete(E, S) = Delete(E, S)
    BY DEF History!Delete, Delete
  <1>3. \A E, q, r : History!Newer(E, q, r) <=> Newer(E, q, r)
    BY DEF History!Newer, Newer
  <1>4. \A E : History!DeleteRunsOlderThan(E, cutoff) = DeleteRunsOlderThan(E, cutoff)
    BY <1>1, <1>2 DEF History!DeleteRunsOlderThan, DeleteRunsOlderThan
  <1>5. \A S : History!Cardinality(S) = Cardinality(S)
    BY DEF History!Cardinality, Cardinality
  <1>6. \A E : History!DeleteRunsOverflow(E, keep) = DeleteRunsOverflow(E, keep)
    <2> TAKE E
    <2> DEFINE above(r) == {q \in Finished(E) : Newer(E, q, r)}
               over == {r \in Finished(E) : Cardinality(above(r)) >= keep}
    <2>1. \A r : {q \in History!Finished(E) : History!Newer(E, q, r)} = above(r)
      BY <1>1, <1>3
    <2>2. {r \in History!Finished(E) :
             History!Cardinality({q \in History!Finished(E) : History!Newer(E, q, r)})
             >= keep} = over
      BY <1>1, <1>5, <2>1
    <2> QED
      BY <1>2, <2>2 DEF History!DeleteRunsOverflow, DeleteRunsOverflow
  <1> QED
    BY <1>4, <1>6 DEF History!Retain, Retain

(* A step of the store is a step of RunHistory or changes no row. *)
LEMMA HistoryStep ==
    ASSUME TypeOK, StoreInv, [Next]_vars
    PROVE  [History!Next]_(disk.runs)
  <1>1. CASE disk' = disk
    BY <1>1
  <1>2. ASSUME NEW w \in Workers, Commit(w)
        PROVE  [History!Next]_(disk.runs)
    <2>1. CASE disk'.runs = disk.runs
      BY <2>1
    <2>2. CASE /\ op[w].run \in Runs /\ op[w].at \in Times
               /\ op[w].run \notin Present(disk.runs)
               /\ disk'.runs = CreateRow(disk.runs, op[w].run, op[w].at)
      <3>1. History!Create(op[w].run, op[w].at)
        BY <2>2 DEF History!Create, History!CreateRow, History!Present, CreateRow, Present
      <3> QED
        BY <2>2, <3>1 DEF History!Next
    <2>3. CASE /\ op[w].at \in Times
               /\ disk'.runs = Retain(disk.runs, AgeCutoff(w), MaxRuns)
      <3>1. History!Prune(AgeCutoff(w))
        BY <2>3, SameRetention DEF History!Prune
      <3>2. AgeCutoff(w) \in History!Cutoffs
        BY <2>3, AgeCutoffType
      <3> QED
        BY <3>1, <3>2 DEF History!Next
    <2> QED
      BY <1>2, <2>1, <2>2, <2>3, Committed
  <1>3. ASSUME NEW w \in Workers, UpdateStatement(w)
        PROVE  [History!Next]_(disk.runs)
    <2>1. CASE disk'.runs = disk.runs
      BY <2>1
    <2>2. CASE /\ op[w].run \in Present(disk.runs) /\ op[w].status \in Terminal
               /\ disk'.runs = UpdateRow(disk.runs, op[w].run, op[w].status, FALSE)
      <3>1. History!Update(op[w].run, op[w].status, FALSE)
        BY <2>2 DEF History!Update, History!UpdateRow, History!Present, UpdateRow, Present
      <3>2. op[w].run \in Runs /\ op[w].status \in History!Terminal
        BY <2>2 DEF Present, Terminal, History!Terminal
      <3> QED
        BY <3>1, <3>2 DEF History!Next
    <2> QED
      BY <1>3, <2>1, <2>2, Updated
  <1> QED
    BY <1>1, <1>2, <1>3, DiskChanges

(* The calls of all workers of all processes take effect one at a time and as
   a whole, which is what Execution and HttpApi assume of the Store:
   Storage.ImplementsHistory. *)
THEOREM StorageImplementsHistory == Spec => ImplementsHistory
  <1>1. Init => History!Init
    BY DEF Init, History!Init, History!NoRow, NoRow
  <1>2. TypeOK /\ StoreInv /\ [Next]_vars => [History!Next]_(disk.runs)
    BY HistoryStep
  <1> QED
    BY <1>1, <1>2, StoreInvariant, PTL DEF Spec, ImplementsHistory, History!Spec

(* A step that does not prune takes no row and leaves the stamp alone. *)
LEMMA NotPruning ==
    ASSUME Present(disk.runs) \subseteq Present(disk'.runs), disk'.prunedAt = disk.prunedAt
    PROVE  RetentionStep
  <1>1. Finished(disk.runs) \subseteq Present(disk.runs)
    BY DEF Finished, Present, Terminal
  <1> QED
    BY <1>1 DEF RetentionStep

(* The commit of ApplyRetention. *)
LEMMA Pruning ==
    ASSUME TypeOK, StoreInv, NEW w \in Workers, op[w].at \in Times, op[w].at <= now,
           disk'.runs = Retain(disk.runs, AgeCutoff(w), MaxRuns), disk'.prunedAt = op[w].at
    PROVE  RetentionStep
  <1> DEFINE D == disk.runs
             N == disk'.runs
             t == op[w].at
             c == AgeCutoff(w)
  <1>1. D \in [Runs -> Row] /\ IsFiniteSet(Finished(D))
    BY ImageFields, FiniteHistory DEF TypeOK, StoreInv, Contents
  <1>2. c \in Nat /\ MaxAge \in Nat /\ MaxRuns \in Nat /\ t \in Nat \ {0} /\ now \in Nat
    BY AgeCutoffType, PolicyAssumption, TimesAssumption DEF TypeOK
  <1>3. c = IF MaxAge > 0 /\ t > MaxAge THEN t - MaxAge ELSE 0
    BY DEF AgeCutoff, Cutoff
  <1>4. N = Retain(D, c, MaxRuns) /\ disk'.prunedAt = t /\ t <= now
    OBVIOUS
  <1> HIDE DEF D, N, t, c
  <1>5. /\ \A r \in Finished(N) : N[r].created >= c
        /\ MaxRuns > 0 => Cardinality(Finished(N)) <= MaxRuns
        /\ \A r \in Finished(D) \ Present(N) :
              \/ D[r].created < c
              \/ MaxRuns > 0 /\ Cardinality(Before(D, Finished(N), r)) = MaxRuns
    BY <1>1, <1>2, <1>4, RetainExactly
  <1>6. t \in 1..now
    BY <1>2, <1>4
  <1>7. N \in [Runs -> Row]
    BY <1>1, <1>4, RetainType
  <1>8. \A r \in Runs : N[r].created \in Nat /\ D[r].created \in Nat
    BY <1>1, <1>7, CreatedType
  <1>9. MaxAge > 0 => \A r \in Finished(N) : N[r].created >= t - MaxAge
    <2>1. c >= t - MaxAge \/ ~(MaxAge > 0)
      BY <1>2, <1>3
    <2>2. \A r \in Finished(N) : N[r].created >= c /\ N[r].created \in Nat
      BY <1>5, <1>8 DEF Finished
    <2> QED
      BY <1>2, <2>1, <2>2
  <1>10. \A r \in Finished(D) \ Present(N) :
              \/ MaxAge > 0 /\ D[r].created < t - MaxAge
              \/ MaxRuns > 0 /\ Cardinality(Before(D, Finished(N), r)) = MaxRuns
    <2> TAKE r \in Finished(D) \ Present(N)
    <2>1. D[r].created \in Nat
      BY <1>8 DEF Finished
    <2>2. D[r].created < c => MaxAge > 0 /\ D[r].created < t - MaxAge
      BY <1>2, <1>3, <2>1
    <2> QED
      BY <1>5, <2>2
  <1>11. \A r : Before(D, Finished(N), r) = {q \in Finished(N) : Newer(D, q, r)}
    BY DEF Before
  <1> QED
    BY <1>4, <1>5, <1>6, <1>9, <1>10, <1>11 DEF RetentionStep, D, N

(* Retention is all or nothing, says when, and keeps exactly the newest
   finished runs the policy allows: Storage.RetentionComplete. *)
THEOREM RetentionIsComplete == Spec => RetentionComplete
  <1>1. ASSUME TypeOK, StoreInv, [Next]_vars
        PROVE  RetentionStep
    <2>1. CASE disk' = disk
      BY <2>1, NotPruning
    <2>2. ASSUME NEW w \in Workers, UpdateStatement(w)
          PROVE  RetentionStep
      BY <1>1, <2>2, Updated, NotPruning
    <2>3. ASSUME NEW w \in Workers, Commit(w)
          PROVE  RetentionStep
      <3>1. CASE disk'.runs = disk.runs /\ disk'.prunedAt = disk.prunedAt
        BY <3>1, NotPruning
      <3>2. CASE /\ op[w].run \in Runs /\ op[w].at \in Times
                 /\ disk'.runs = CreateRow(disk.runs, op[w].run, op[w].at)
                 /\ disk'.prunedAt = disk.prunedAt
        <4>1. disk.runs \in [Runs -> Row]
          BY <1>1, ImageFields DEF TypeOK
        <4>2. Present(disk'.runs) = Present(disk.runs) \cup {op[w].run}
          BY <3>2, <4>1, CreateRowType
        <4> QED
          BY <3>2, <4>2, NotPruning
      <3>3. CASE /\ op[w].at \in Times /\ op[w].at <= now
                 /\ disk'.runs = Retain(disk.runs, AgeCutoff(w), MaxRuns)
                 /\ disk'.prunedAt = op[w].at
        BY <1>1, <3>3, Pruning
      <3> QED
        BY <1>1, <2>3, <3>1, <3>2, <3>3, Committed
    <2> QED
      BY <1>1, <2>1, <2>2, <2>3, DiskChanges
  <1>2. TypeOK /\ StoreInv /\ [Next]_vars => [RetentionStep]_vars
    BY <1>1
  <1> QED
    BY <1>2, StoreInvariant, PTL DEF Spec, RetentionComplete
=============================================================================
