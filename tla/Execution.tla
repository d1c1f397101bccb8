----------------------------- MODULE Execution ------------------------------
(***************************************************************************)
(* The core of microhook: the execution service (internal/execution), the  *)
(* life of the process around it (internal/app, internal/cli runServe) and *)
(* the run history both write to (RunStore).                               *)
(*                                                                         *)
(* An invocation r is one POST /v1/actions/{name}/runs; the run it creates *)
(* has the id r.  Its handler, and for an asynchronous run the goroutine   *)
(* startAsyncInvocation starts, is one thread of control, pc[r].  Threads  *)
(* interleave with each other, with their child processes, with clients    *)
(* that disconnect, and with the service dying and booting again.  Several *)
(* service processes may share one database file (Instances).              *)
(***************************************************************************)
EXTENDS RunStore

CONSTANTS
    Instances,       \* `microhook serve` processes configured alike
    Actions,         \* names in the action registry
    RejectActions,   \* concurrency_policy: reject
    TimedActions,    \* timeout > 0
    EnabledActions,  \* enabled: true
    MaxRuns,         \* storage.max_runs; 0 is no limit
    StorageFaults,   \* TRUE: any statement may fail (disk full, busy timeout)
    Supervised,      \* TRUE: a supervisor kills the children of a dead service
    StubbornChildren \* TRUE: SIGKILL may fail to end the wait for a child

ASSUME ActionsAssumption ==
    RejectActions \subseteq Actions /\ TimedActions \subseteq Actions
    /\ EnabledActions \subseteq Actions
ASSUME MaxRunsAssumption == MaxRuns \in Nat
ASSUME FlagsAssumption ==
    StorageFaults \in BOOLEAN /\ Supervised \in BOOLEAN /\ StubbornChildren \in BOOLEAN

VARIABLES
    phase,  \* phase[i]: how far `microhook serve` i has got
    gate,   \* gate[i]: the keys of Service.rejectRunning
    todo,   \* todo[i]: interrupted runs cancelInterruptedRuns has yet to cancel
    req,    \* req[r]: the service asked, the action and the mode
    pc,     \* pc[r]: where the thread of r is
    ctx,    \* ctx[r]: the request context
    proc,   \* proc[r]: the child process
    res,    \* res[r]: the outcome the thread carries to its next step
    reply,  \* reply[r]: what Invoke has returned
    db      \* the run history

service == <<phase, gate, todo>>
vars == <<phase, gate, todo, req, pc, ctx, proc, res, reply, db>>

Phases == {"down", "opened", "retained", "recovering", "serving", "draining", "closed"}
Request == [owner : Instances, action : Actions, mode : {"sync", "async"}]
NoRequest == [mode |-> "none"]
Exited == {"ok", "nonzero", "signalled"}
PCs == {"idle", "received", "creating", "reading", "starting", "waiting", "killed",
        "updating", "rereading", "finishing", "done", "lost"}

TypeOK ==
    /\ phase \in [Instances -> Phases]
    /\ gate \in [Instances -> SUBSET RejectActions]
    /\ todo \in [Instances -> SUBSET Runs]
    /\ req \in [Runs -> Request \cup {NoRequest}]
    /\ pc \in [Runs -> PCs]
    /\ \A r \in Runs : req[r] = NoRequest <=> pc[r] = "idle"
    /\ ctx \in [Runs -> {"live", "cancelled"}]
    /\ proc \in [Runs -> {"none", "alive"} \cup Exited]
    /\ res \in [Runs -> {"none", "running", "error"} \cup Terminal]
    /\ reply \in [Runs -> {"none", "refused", "conflict", "accepted", "running", "error"}
                          \cup Terminal]
    /\ db \in [Runs -> Row]

Init ==
    /\ phase = [i \in Instances |-> "down"]
    /\ gate = [i \in Instances |-> {}]
    /\ todo = [i \in Instances |-> {}]
    /\ req = [r \in Runs |-> NoRequest]
    /\ pc = [r \in Runs |-> "idle"]
    /\ ctx = [r \in Runs |-> "live"]
    /\ proc = [r \in Runs |-> "none"]
    /\ res = [r \in Runs |-> "none"]
    /\ reply = [r \in Runs |-> "none"]
    /\ db = [r \in Runs |-> NoRow]

StoreOpen(i) == phase[i] \notin {"down", "closed"}

(* The handler of r has not returned, so r counts as active for
   http.Server.Shutdown and its context can still be cancelled. *)
HandlerActive(r) == pc[r] \notin {"idle", "lost"} /\ reply[r] = "none"

(* The thread of r is between beginRejectAction and finishRejectAction. *)
InFlight(r) == pc[r] \in PCs \ {"idle", "received", "done", "lost"}

(* runCtx.Err() # nil: an asynchronous run has context.Background(). *)
RunCancelled(r) == req[r].mode = "sync" /\ ctx[r] = "cancelled"

Goto(r, l) == pc' = [pc EXCEPT ![r] = l]
Carry(r, v) == res' = [res EXCEPT ![r] = v]

-----------------------------------------------------------------------------
(* Invocation: httpapi.invokeAction and Service.Invoke.                    *)

(* net/http starts a handler for a request of action a. *)
Receive(i, r, a, m) ==
    /\ phase[i] = "serving"
    /\ pc[r] = "idle"
    /\ req' = [req EXCEPT ![r] = [owner |-> i, action |-> a, mode |-> m]]
    /\ Goto(r, "received")
    /\ UNCHANGED <<service, ctx, proc, res, reply, db>>

(* Invoke returns a; what its frames held is gone. *)
Answer(r, a) ==
    /\ reply' = [reply EXCEPT ![r] = a]
    /\ Carry(r, "none")
    /\ Goto(r, "done")

(* 401, 403, 404, 413 and 400, the disabled action included. *)
Refuse(r) ==
    /\ pc[r] = "received"
    /\ Answer(r, "refused")
    /\ UNCHANGED <<service, req, ctx, proc, db>>

(* Mutant: the gate is taken whatever the policy. *)
InvokeAllowGated(r) ==
    /\ pc[r] = "received"
    /\ req[r].action \in EnabledActions \ RejectActions
    /\ gate' = [gate EXCEPT ![req[r].owner] = @ \cup {req[r].action}]
    /\ Goto(r, "creating")
    /\ UNCHANGED <<phase, todo, req, ctx, proc, res, reply, db>>

InvokeAllow(r) ==
    /\ pc[r] = "received"
    /\ req[r].action \in EnabledActions \ RejectActions
    /\ Goto(r, "creating")
    /\ UNCHANGED <<service, req, ctx, proc, res, reply, db>>

(* beginRejectAction, under Service.mu. *)
InvokeReject(r) ==
    LET i == req[r].owner
        a == req[r].action
    IN  /\ pc[r] = "received"
        /\ a \in EnabledActions \cap RejectActions
        /\ IF a \in gate[i]
           THEN Answer(r, "conflict") /\ UNCHANGED gate
           ELSE Goto(r, "creating") /\ gate' = [gate EXCEPT ![i] = @ \cup {a}]
                /\ UNCHANGED <<res, reply>>
        /\ UNCHANGED <<phase, todo, req, ctx, proc, db>>

(* The request context ends under the handler: the client is gone. *)
CancelRequest(r) ==
    /\ HandlerActive(r)
    /\ ctx' = [ctx EXCEPT ![r] = "cancelled"]
    /\ UNCHANGED <<service, req, pc, proc, res, reply, db>>

-----------------------------------------------------------------------------
(* createRun: the insert is committed, then the row is read back, both     *)
(* under the request context.                                              *)

CreateRun(r, now) ==
    /\ pc[r] = "creating"
    /\ StoreOpen(req[r].owner) /\ ctx[r] = "live"
    /\ db' = CreateRow(db, r, now)
    /\ Goto(r, "reading")
    /\ UNCHANGED <<service, req, ctx, proc, res, reply>>

Fail(r) ==
    /\ Carry(r, "error")
    /\ Goto(r, "finishing")
    /\ UNCHANGED <<service, req, ctx, proc, reply, db>>

(* Mutant: the error path of invokeReject forgets finishRejectAction. *)
CreateRunFailsLeaks(r) ==
    /\ pc[r] = "creating"
    /\ ~StoreOpen(req[r].owner) \/ ctx[r] = "cancelled" \/ StorageFaults
    /\ Answer(r, "error")
    /\ UNCHANGED <<service, req, ctx, proc, db>>

CreateRunFails(r) ==
    /\ pc[r] = "creating"
    /\ ~StoreOpen(req[r].owner) \/ ctx[r] = "cancelled" \/ StorageFaults
    /\ Fail(r)

(* Mutant: the handler, not the goroutine, deletes the key of an async run. *)
ReadCreatedEarlyRelease(r) ==
    /\ pc[r] = "reading"
    /\ StoreOpen(req[r].owner) /\ ctx[r] = "live" /\ r \in Present(db)
    /\ Goto(r, "starting")
    /\ reply' = [reply EXCEPT ![r] = IF req[r].mode = "async" THEN "accepted" ELSE @]
    /\ gate' = [gate EXCEPT ![req[r].owner] =
                  IF req[r].mode = "async" THEN @ \ {req[r].action} ELSE @]
    /\ UNCHANGED <<phase, todo, req, ctx, proc, res, db>>

(* From here an asynchronous run is its own goroutine's: the handler returns
   the row that was read. *)
ReadCreated(r) ==
    /\ pc[r] = "reading"
    /\ StoreOpen(req[r].owner) /\ ctx[r] = "live" /\ r \in Present(db)
    /\ Goto(r, "starting")
    /\ reply' = [reply EXCEPT ![r] = IF req[r].mode = "async" THEN "accepted" ELSE @]
    /\ UNCHANGED <<service, req, ctx, proc, res, db>>

ReadCreatedFails(r) ==
    /\ pc[r] = "reading"
    /\ \/ ~StoreOpen(req[r].owner) \/ ctx[r] = "cancelled"
       \/ r \notin Present(db) \/ StorageFaults
    /\ Fail(r)

-----------------------------------------------------------------------------
(* execute: the child process.  Module Runner has the details.             *)

Start(r) ==
    /\ pc[r] = "starting"
    /\ proc' = [proc EXCEPT ![r] = "alive"]
    /\ Goto(r, "waiting")
    /\ UNCHANGED <<service, req, ctx, res, reply, db>>

StartFails(r) ==
    /\ pc[r] = "starting"
    /\ Carry(r, "failed")
    /\ Goto(r, "updating")
    /\ UNCHANGED <<service, req, ctx, proc, reply, db>>

(* The child ends by itself, or a signal from elsewhere ends it. *)
ProcessExit(r, how) ==
    /\ proc[r] = "alive"
    /\ proc' = [proc EXCEPT ![r] = how]
    /\ UNCHANGED <<service, req, pc, ctx, res, reply, db>>

Completion(r) == IF proc[r] = "ok" THEN "succeeded" ELSE "failed"

(* waitCh delivers: finishCompletion. *)
Complete(r) ==
    /\ pc[r] = "waiting" /\ proc[r] \in Exited
    /\ Carry(r, Completion(r))
    /\ Goto(r, "updating")
    /\ UNCHANGED <<service, req, ctx, proc, reply, db>>

(* execCtx is done, by its deadline or because runCtx is: the process group
   gets SIGKILL.  The child may have exited before the signal; a stubborn one
   keeps the thread waiting (see Runner). *)
Interrupt(r, cause) ==
    /\ \/ proc' = [proc EXCEPT ![r] = IF @ = "alive" THEN "signalled" ELSE @]
       \/ StubbornChildren /\ UNCHANGED proc
    /\ Carry(r, cause)
    /\ Goto(r, "killed")
    /\ UNCHANGED <<service, req, ctx, reply, db>>

(* Mutant: only asynchronous runs get the timeout. *)
DeadlineAsyncOnly(r) ==
    /\ pc[r] = "waiting" /\ req[r].mode = "async" /\ req[r].action \in TimedActions
    /\ Interrupt(r, "timed_out")

Deadline(r) ==
    pc[r] = "waiting" /\ req[r].action \in TimedActions /\ Interrupt(r, "timed_out")
Disconnected(r) ==
    pc[r] = "waiting" /\ RunCancelled(r) /\ Interrupt(r, "cancelled")

(* Mutant: whatever the wait says, an interrupted run is interrupted. *)
ClassifyIgnoringExit(r) ==
    /\ pc[r] = "killed" /\ proc[r] \in Exited
    /\ Carry(r, IF RunCancelled(r) THEN "cancelled" ELSE res[r])
    /\ Goto(r, "updating")
    /\ UNCHANGED <<service, req, ctx, proc, reply, db>>

(* Mutant: nobody waits for the child after the kill. *)
ClassifyWithoutWait(r) ==
    /\ pc[r] = "killed"
    /\ Carry(r, IF proc[r] \in {"ok", "nonzero"} THEN Completion(r)
                ELSE IF RunCancelled(r) THEN "cancelled" ELSE res[r])
    /\ Goto(r, "updating")
    /\ UNCHANGED <<service, req, ctx, proc, reply, db>>

(* waitCh delivers after the kill, and an exit code still wins.  Only now
   does interruptedStatus look at runCtx, so a late disconnect turns a
   deadline into a cancellation. *)
Classify(r) ==
    /\ pc[r] = "killed" /\ proc[r] \in Exited
    /\ Carry(r, IF proc[r] \in {"ok", "nonzero"} THEN Completion(r)
                ELSE IF RunCancelled(r) THEN "cancelled" ELSE res[r])
    /\ Goto(r, "updating")
    /\ UNCHANGED <<service, req, ctx, proc, reply, db>>

-----------------------------------------------------------------------------
(* finishRun, under a context that is never cancelled, and the return.     *)

UpdateRun(r) ==
    /\ pc[r] = "updating"
    /\ StoreOpen(req[r].owner) /\ r \in Present(db)
    /\ db' = UpdateRow(db, r, res[r], FALSE)
    /\ Goto(r, "rereading")
    /\ UNCHANGED <<service, req, ctx, proc, res, reply>>

(* A kill that failed is returned as an error although the run is settled. *)
ReadUpdated(r) ==
    /\ pc[r] = "rereading"
    /\ StoreOpen(req[r].owner) /\ r \in Present(db)
    /\ \/ Carry(r, db[r].status)
       \/ StubbornChildren /\ res[r] \in {"timed_out", "cancelled"} /\ Carry(r, "error")
    /\ Goto(r, "finishing")
    /\ UNCHANGED <<service, req, ctx, proc, reply, db>>

(* Mutant: a failed update is reported as if it had been stored. *)
FinishRunFailsSilently(r) ==
    /\ pc[r] \in {"updating", "rereading"}
    /\ ~StoreOpen(req[r].owner) \/ r \notin Present(db) \/ StorageFaults
    /\ Goto(r, "finishing")
    /\ UNCHANGED <<service, req, ctx, proc, res, reply, db>>

(* Mutant: a failed update returns past finish(). *)
FinishRunFailsLeaks(r) ==
    /\ pc[r] \in {"updating", "rereading"}
    /\ ~StoreOpen(req[r].owner) \/ r \notin Present(db) \/ StorageFaults
    /\ Answer(r, IF reply[r] = "none" THEN "error" ELSE reply[r])
    /\ UNCHANGED <<service, req, ctx, proc, db>>

FinishRunFails(r) ==
    /\ pc[r] \in {"updating", "rereading"}
    /\ ~StoreOpen(req[r].owner) \/ r \notin Present(db) \/ StorageFaults
    /\ Fail(r)

(* finishRejectAction (of an allow action the gate holds nothing), and Invoke
   returns unless the handler did so before: startAsyncInvocation drops
   whatever execute returned. *)
Finish(r) ==
    LET i == req[r].owner
    IN  /\ pc[r] = "finishing"
        /\ gate' = [gate EXCEPT ![i] = @ \ {req[r].action}]
        /\ Answer(r, IF reply[r] = "none" THEN res[r] ELSE reply[r])
        /\ UNCHANGED <<phase, todo, req, ctx, proc, db>>

-----------------------------------------------------------------------------
(* `microhook serve`: app.Bootstrap, net.Listen, and the two ways to stop. *)

SetPhase(i, p) == phase' = [phase EXCEPT ![i] = p]
threads == <<gate, req, pc, ctx, proc, res, reply>>

Open(i) ==
    /\ phase[i] = "down"
    /\ SetPhase(i, "opened")
    /\ UNCHANGED <<todo, threads, db>>

(* The cutoff is now() - retention_days, wherever the wall clock stands. *)
Cutoffs == {0} \cup {t + 1 : t \in Times}

ApplyRetention(i, cutoff) ==
    /\ phase[i] = "opened"
    /\ db' = Retain(db, cutoff, MaxRuns)
    /\ SetPhase(i, "retained")
    /\ UNCHANGED <<todo, threads>>

(* Mutant: recovery lists without the status filter. *)
ListInterruptedAll(i) ==
    /\ phase[i] = "retained"
    /\ todo' = [todo EXCEPT ![i] = Present(db)]
    /\ SetPhase(i, "recovering")
    /\ UNCHANGED <<threads, db>>

(* Mutant: recovery looks at the newest interrupted run only. *)
ListInterruptedNewest(i) ==
    /\ phase[i] = "retained"
    /\ todo' = [todo EXCEPT ![i] =
                  {r \in RunningRows(db) : \A q \in RunningRows(db) \ {r} : Newer(db, r, q)}]
    /\ SetPhase(i, "recovering")
    /\ UNCHANGED <<threads, db>>

ListInterrupted(i) ==
    /\ phase[i] = "retained"
    /\ todo' = [todo EXCEPT ![i] = RunningRows(db)]
    /\ SetPhase(i, "recovering")
    /\ UNCHANGED <<threads, db>>

(* The loop of cancelInterruptedRuns follows the listing, newest run first. *)
NextInterrupted(i) == {r \in todo[i] : \A q \in todo[i] \ {r} : Newer(db, r, q)}

CancelInterrupted(i, r) ==
    /\ phase[i] = "recovering"
    /\ r \in NextInterrupted(i) \cap Present(db)
    /\ db' = UpdateRow(db, r, "cancelled", TRUE)
    /\ todo' = [todo EXCEPT ![i] = @ \ {r}]
    /\ UNCHANGED <<phase, threads>>

(* Any error of Bootstrap closes the store and ends the process.  A read
   that fails after its update leaves the update behind: that is this
   action after a CancelInterrupted.  A signal ends a process that boots as
   a Crash does: its handler is installed only after net.Listen. *)
BootstrapFails(i) ==
    /\ \/ phase[i] \in {"opened", "retained", "recovering"} /\ StorageFaults
       \/ phase[i] = "recovering" /\ NextInterrupted(i) \ Present(db) # {}
    /\ SetPhase(i, "down")
    /\ todo' = [todo EXCEPT ![i] = {}]
    /\ UNCHANGED <<threads, db>>

(* Mutant: the listener opens while recovery goes on. *)
ListenEarly(i) ==
    /\ phase[i] = "recovering"
    /\ \A j \in Instances : phase[j] # "serving"
    /\ SetPhase(i, "serving")
    /\ UNCHANGED <<todo, threads, db>>

(* net.Listen runs after Bootstrap; one process holds the address. *)
Listen(i) ==
    /\ phase[i] = "recovering" /\ todo[i] = {}
    /\ \A j \in Instances : phase[j] # "serving"
    /\ SetPhase(i, "serving")
    /\ UNCHANGED <<todo, threads, db>>

ListenFails(i) ==
    /\ phase[i] = "recovering" /\ todo[i] = {}
    /\ SetPhase(i, "down")
    /\ UNCHANGED <<todo, threads, db>>

(* SIGINT or SIGTERM: no new requests, and the handlers get ten seconds. *)
Shutdown(i) ==
    /\ phase[i] = "serving"
    /\ SetPhase(i, "draining")
    /\ UNCHANGED <<todo, threads, db>>

ActiveHandlers(i) == {r \in Runs : HandlerActive(r) /\ req[r].owner = i}

(* App.Close closes the store after the drain, when the drain times out, or
   at once when Serve fails; Service.Close waits for no run. *)
Drained(i) ==
    /\ phase[i] = "draining" /\ ActiveHandlers(i) = {}
    /\ SetPhase(i, "closed")
    /\ UNCHANGED <<todo, threads, db>>

DrainTimesOut(i) ==
    /\ phase[i] = "draining" /\ ActiveHandlers(i) # {}
    /\ SetPhase(i, "closed")
    /\ UNCHANGED <<todo, threads, db>>

ServeFails(i) ==
    /\ phase[i] = "serving"
    /\ SetPhase(i, "closed")
    /\ UNCHANGED <<todo, threads, db>>

(* The process is gone: its threads stop where they are, its memory is
   lost, and its children go on unless a supervisor kills them. *)
Die(i) ==
    /\ SetPhase(i, "down")
    /\ gate' = [gate EXCEPT ![i] = {}]
    /\ todo' = [todo EXCEPT ![i] = {}]
    /\ pc' = [r \in Runs |-> IF pc[r] \notin {"idle", "done"} /\ req[r].owner = i
                             THEN "lost" ELSE pc[r]]
    /\ proc' = [r \in Runs |-> IF /\ Supervised /\ proc[r] = "alive"
                                  /\ req[r].owner = i
                               THEN "signalled" ELSE proc[r]]
    /\ res' = [r \in Runs |-> IF pc'[r] = "lost" THEN "none" ELSE res[r]]
    /\ UNCHANGED <<req, ctx, reply, db>>

Exit(i) == phase[i] = "closed" /\ Die(i)
Crash(i) == phase[i] \notin {"down", "closed"} /\ Die(i)

-----------------------------------------------------------------------------
(* One step of the thread of r. *)
Thread(r) ==
    \/ Refuse(r) \/ InvokeAllow(r) \/ InvokeReject(r)
    \/ \E now \in Times : CreateRun(r, now)
    \/ CreateRunFails(r) \/ ReadCreated(r) \/ ReadCreatedFails(r)
    \/ Start(r) \/ StartFails(r)
    \/ Complete(r) \/ Deadline(r) \/ Disconnected(r) \/ Classify(r)
    \/ UpdateRun(r) \/ ReadUpdated(r) \/ FinishRunFails(r) \/ Finish(r)

(* What a client or a child process does. *)
Environment(r) ==
    \/ \E i \in Instances, a \in Actions, m \in {"sync", "async"} : Receive(i, r, a, m)
    \/ CancelRequest(r)
    \/ \E how \in Exited : ProcessExit(r, how)

Serve(i) ==
    \/ Open(i) \/ \E cutoff \in Cutoffs : ApplyRetention(i, cutoff)
    \/ ListInterrupted(i) \/ \E r \in Runs : CancelInterrupted(i, r)
    \/ BootstrapFails(i) \/ Listen(i) \/ ListenFails(i)
    \/ Shutdown(i) \/ Drained(i) \/ DrainTimesOut(i) \/ ServeFails(i)
    \/ Exit(i) \/ Crash(i)

Next ==
    \/ \E r \in Runs : Thread(r) \/ Environment(r)
    \/ \E i \in Instances : Serve(i)

Spec == Init /\ [][Next]_vars

(* The Go scheduler runs every goroutine that can run, SQLite answers every
   statement (busy_timeout bounds the wait) and timers fire: nothing is
   assumed of clients, of child processes or of the service staying up. *)
FairSpec == Spec /\ \A r \in Runs : WF_vars(Thread(r))
-----------------------------------------------------------------------------
(* Safety.                                                                 *)

(* At most one invocation of a reject action is in flight in a service: from
   beginRejectAction until finishRejectAction no second one passes the gate,
   whichever of them fails, is cancelled or runs on as a goroutine. *)
RejectExclusive ==
    \A q, r \in Runs :
        (/\ q # r /\ InFlight(q) /\ InFlight(r)
         /\ req[q].owner = req[r].owner /\ req[q].action = req[r].action)
        => req[r].action \notin RejectActions

(* rejectRunning never outlives its invocation: a key that no thread will
   delete would answer 409 until the next restart. *)
GateHasHolder ==
    \A i \in Instances : \A a \in gate[i] :
        \E r \in Runs : InFlight(r) /\ req[r].owner = i /\ req[r].action = a

(* Two child processes of one reject action never run side by side, not even
   when the service that started the first one has died and been restarted:
   the gate is in memory only, so this rests on Supervised. *)
NoOverlap ==
    \A q, r \in Runs :
        (q # r /\ proc[q] = "alive" /\ proc[r] = "alive")
        => \/ req[q].action # req[r].action
           \/ req[r].action \notin RejectActions

(* UpdateRun has no guard on the status it overwrites, so it is the order of
   the steps that keeps a terminal status until retention deletes the row. *)
TerminalIsFinal ==
    [][\A r \in Runs : db[r].status \in Terminal
                       => db'[r].status \in {db[r].status, "pruned"}]_vars

(* restartedRunSummary tells the truth: the run it is written to has no
   thread left, and no caller was given a final status for it. *)
RestartSummaryTruthful ==
    \A r \in Runs : db[r].restarted =>
        pc[r] \in {"lost", "done"} /\ reply[r] \notin Terminal

(* A service that serves has cancelled everything its predecessors left
   running, however often they died on the way, in recovery included. *)
RecoveredBeforeServing ==
    \A r \in Runs : (pc[r] = "lost" /\ db[r].status = "running")
                    => \A i \in Instances : phase[i] # "serving"

(* The recorded status says how the child really ended: an exit code beats an
   interruption, and only a signalled child is timed out or cancelled. *)
StatusMatchesProcess ==
    \A r \in Runs :
        /\ db[r].status = "succeeded" => proc[r] = "ok"
        /\ db[r].status = "failed" => proc[r] \in {"none", "nonzero", "signalled"}
        /\ db[r].status = "timed_out" =>
              proc[r] = "signalled" /\ req[r].action \in TimedActions
        /\ db[r].status = "cancelled" /\ ~db[r].restarted =>
              proc[r] = "signalled" /\ RunCancelled(r)

(* One service on its database keeps the promises of RunLifecycle: what it
   answers agrees with the history, and the history only moves forward. *)
Lifecycle == INSTANCE RunLifecycle
             WITH record <- [r \in Runs |-> db[r].status], answer <- reply
ImplementsLifecycle == Lifecycle!Spec

-----------------------------------------------------------------------------
(* Liveness, under FairSpec.                                               *)

Timed(r) == pc[r] # "idle" /\ req[r].action \in TimedActions

(* A timeout is enough to get every invocation answered, whatever the client and
   the store do and as long as the child may want to run, if SIGKILL ends the
   wait for it (StubbornChildren is FALSE) and unless the service dies first. *)
TimedInvocationReturns ==
    \A r \in Runs : (HandlerActive(r) /\ Timed(r)) ~> ~HandlerActive(r)

(* A reject action with a timeout does not answer 409 for ever. *)
GateReleased ==
    \A i \in Instances : \A a \in RejectActions \cap TimedActions :
        (a \in gate[i]) ~> (a \notin gate[i])

(* The last write of r failed although the store was open. *)
LastWriteFailed(r) ==
    /\ pc[r] = "finishing" /\ res[r] = "error" /\ db[r].status = "running"
    /\ StoreOpen(req[r].owner)

(* A run reported as accepted gets a terminal status, from its own goroutine
   or from the recovery of a later service, once some service stays up: only a
   fault in its very last write, which nobody hears of, can leave it running. *)
AcceptedSettles ==
    (\E i \in Instances : <>[](phase[i] = "serving")) =>
        \A r \in Runs : [](~LastWriteFailed(r)) =>
                         ((reply[r] = "accepted" /\ Timed(r)) ~> (db[r].status # "running"))

(* The same for every row in the history, accepted or not. *)
EveryRowSettles ==
    (\E i \in Instances : <>[](phase[i] = "serving")) =>
        \A r \in Runs : (db[r].status = "running" /\ Timed(r))
                        ~> (db[r].status # "running")
=============================================================================
