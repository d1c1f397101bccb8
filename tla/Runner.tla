------------------------------- MODULE Runner -------------------------------
(***************************************************************************)
(* Service.execute (internal/execution/runner.go) for one run, in detail:  *)
(* the thread that selects between waitCh and the execution context, the   *)
(* goroutine in cmd.Wait, the goroutines that copy the output into the     *)
(* tail buffers (one stands for both), the child that leads a process      *)
(* group and its descendants.                                              *)
(*                                                                         *)
(* cmd.Wait returns when the child has been reaped AND every descriptor of *)
(* the output pipes is closed and drained, so a descendant that outlives   *)
(* the child matters, and more so one that has left the process group.     *)
(* (Input larger than a pipe buffer makes stdin a third such pipe; `the    *)
(* pipe' below is whichever of them a descendant still holds.)             *)
(***************************************************************************)
EXTENDS TailBuffer

CONSTANTS
    Kin,         \* descendants the child may fork
    Escapes,     \* TRUE: descendants may leave the process group (setsid)
    UserChanges  \* TRUE: processes may change their user (sudo), and SIGKILL not reach them

(* The n-th byte of the output is n, so that the tail tells where it is from. *)
ASSUME OutputAssumption == Bytes = 1..MaxOutput
ASSUME KillAssumption == Escapes \in BOOLEAN /\ UserChanges \in BOOLEAN

(* "child" names the leader of the group among its members. *)
ASSUME KinAssumption == "child" \notin Kin

VARIABLES
    timed,    \* the action's timeout is positive
    sync,     \* runCtx is the request context, not context.Background()
    pc,       \* the thread in execute
    child,    \* the process cmd.Start started, leader of its group
    kin,      \* kin[k]: a descendant
    written,  \* bytes written to the output pipe
    waitCh,   \* the channel the cmd.Wait goroutine sends on
    runCtx,   \* the caller's context
    execErr,  \* execCtx.Err(): what ended the execution context first
    spared,   \* whom the kill could not signal, and whom they forked since
    status,   \* the status finishRun stored
    tail      \* the tail finishRun stored

family == <<child, kin, spared, written>>
contexts == <<runCtx, execErr>>
result == <<status, tail>>
vars == <<timed, sync, pc, child, kin, spared, written, buffer, waitCh, runCtx, execErr,
          status, tail>>

Exited == {"ok", "nonzero", "signalled"}

(* A descendant in the process group, or out of it, with the output pipe
   ("group", "away") or with its output redirected ("quiet", "gone"). *)
InGroup == {"group", "quiet"}
HoldsPipe == {"group", "away"}
Living == InGroup \cup HoldsPipe \cup {"gone"}

TypeOK ==
    /\ timed \in BOOLEAN /\ sync \in BOOLEAN
    /\ pc \in {"starting", "selecting", "polling", "killing", "joining", "done"}
    /\ child \in {"none", "alive"} \cup Exited
    /\ kin \in [Kin -> {"unborn", "dead"} \cup Living]
    /\ BufferTypeOK
    /\ written \in Len(stream)..MaxOutput
    /\ waitCh \in {"empty", "full", "taken"}
    /\ runCtx \in {"live", "cancelled"}
    /\ execErr \in {"none", "deadline", "cancelled"}
    /\ spared \subseteq Kin \cup {"child"}
    /\ status \in {"running", "succeeded", "failed", "timed_out", "cancelled"}
    /\ tail \in Seq(Bytes)

Init ==
    /\ timed \in BOOLEAN /\ sync \in BOOLEAN
    /\ pc = "starting"
    /\ child = "none"
    /\ kin = [k \in Kin |-> "unborn"]
    /\ BufferInit /\ written = 0
    /\ waitCh = "empty"
    /\ runCtx = "live" /\ execErr = "none"
    /\ spared = {}
    /\ status = "running" /\ tail = <<>>

-----------------------------------------------------------------------------
(* The child and its descendants. *)

family_rest == <<timed, sync, pc, buffer, waitCh, contexts, result>>

ChildExits(how) ==
    /\ child = "alive"
    /\ child' = how
    /\ UNCHANGED <<kin, spared, written, family_rest>>

(* A fork inherits the group and the descriptors of its parent, and is a
   consequence of sparing the parent if that was spared. *)
Fork(k) ==
    /\ kin[k] = "unborn"
    /\ \E p \in Kin \cup {"child"} :
          /\ IF p = "child" THEN child = "alive" ELSE kin[p] \in Living
          /\ kin' = [kin EXCEPT ![k] = IF p = "child" THEN "group" ELSE kin[p]]
          /\ spared' = IF p \in spared THEN spared \cup {k} ELSE spared
    /\ UNCHANGED <<child, written, family_rest>>

Redirect(k) ==
    /\ kin[k] \in HoldsPipe
    /\ kin' = [kin EXCEPT ![k] = IF @ = "group" THEN "quiet" ELSE "gone"]
    /\ UNCHANGED <<child, spared, written, family_rest>>

Escape(k) ==
    /\ Escapes /\ kin[k] \in InGroup
    /\ kin' = [kin EXCEPT ![k] = IF @ = "group" THEN "away" ELSE "gone"]
    /\ UNCHANGED <<child, spared, written, family_rest>>

KinExits(k) ==
    /\ kin[k] \in Living
    /\ kin' = [kin EXCEPT ![k] = "dead"]
    /\ UNCHANGED <<child, spared, written, family_rest>>

PipeOpen == child = "alive" \/ \E k \in Kin : kin[k] \in HoldsPipe

WriteOutput ==
    /\ PipeOpen /\ written < MaxOutput
    /\ written' = written + 1
    /\ UNCHANGED <<child, kin, spared, family_rest>>

-----------------------------------------------------------------------------
(* os/exec and context. *)

(* A copy goroutine hands what it read from the pipe to tailBuffer.Write. *)
CopyOutput ==
    /\ \E n \in 1..MaxWrite :
          /\ Len(stream) + n <= written
          /\ Write([k \in 1..n |-> Len(stream) + k])
    /\ UNCHANGED <<timed, sync, pc, family, waitCh, contexts, result>>

(* Mutant: the wait ends with the child, the copies run on (cmd.WaitDelay). *)
WaitReturnsWithChild ==
    /\ waitCh = "empty" /\ child \in Exited
    /\ waitCh' = "full"
    /\ UNCHANGED <<timed, sync, pc, family, buffer, contexts, result>>

(* cmd.Wait: the child is reaped and both copies have seen end of file. *)
WaitReturns ==
    /\ waitCh = "empty" /\ child \in Exited
    /\ ~PipeOpen /\ Len(stream) = written
    /\ waitCh' = "full"
    /\ UNCHANGED <<timed, sync, pc, family, buffer, contexts, result>>

(* Mutant: executionContext without its test for a missing timeout. *)
DeadlineFiresUntimed ==
    /\ execErr = "none" /\ pc # "done"
    /\ execErr' = "deadline"
    /\ UNCHANGED <<timed, sync, pc, family, buffer, waitCh, runCtx, result>>

(* executionContext: a timeout that is not positive is no timeout. *)
DeadlineFires ==
    /\ timed /\ execErr = "none" /\ pc # "done"
    /\ execErr' = "deadline"
    /\ UNCHANGED <<timed, sync, pc, family, buffer, waitCh, runCtx, result>>

(* The client of a synchronous run is gone; execCtx is a child of runCtx. *)
CallerCancels ==
    /\ sync /\ runCtx = "live" /\ pc # "done"
    /\ runCtx' = "cancelled"
    /\ execErr' = IF execErr = "none" THEN "cancelled" ELSE execErr
    /\ UNCHANGED <<timed, sync, pc, family, buffer, waitCh, result>>

-----------------------------------------------------------------------------
(* The thread. *)

thread_rest == <<timed, sync, kin, written, buffer, contexts>>

Record(s) ==
    /\ status' = s /\ tail' = buf
    /\ pc' = "done"

StartProcess ==
    /\ pc = "starting"
    /\ child' = "alive"
    /\ pc' = "selecting"
    /\ UNCHANGED <<waitCh, spared, result, thread_rest>>

(* Mutant: a status that validateRunStatus does not know. *)
StartFailsUnknownStatus ==
    /\ pc = "starting"
    /\ Record("error")
    /\ UNCHANGED <<child, waitCh, spared, thread_rest>>

StartFails ==
    /\ pc = "starting"
    /\ Record("failed")
    /\ UNCHANGED <<child, waitCh, spared, thread_rest>>

(* finishCompletion: waitErr is nil exactly when the exit code is 0. *)
completionStatus == IF child = "ok" THEN "succeeded" ELSE "failed"

(* The first select, and the non-blocking one that follows it. *)
Received ==
    /\ pc \in {"selecting", "polling"} /\ waitCh = "full"
    /\ waitCh' = "taken"
    /\ Record(completionStatus)
    /\ UNCHANGED <<child, spared, thread_rest>>

ContextDone ==
    /\ pc = "selecting" /\ execErr # "none"
    /\ pc' = "polling"
    /\ UNCHANGED <<child, waitCh, spared, result, thread_rest>>

NothingReceived ==
    /\ pc = "polling" /\ waitCh # "full"
    /\ pc' = "killing"
    /\ UNCHANGED <<child, waitCh, spared, result, thread_rest>>

Kill(p) == IF p = "alive" THEN "signalled" ELSE p

(* The living members of the process group. *)
Members ==
    {k \in Kin : kin[k] \in InGroup} \cup (IF child = "alive" THEN {"child"} ELSE {})

(* SIGKILL ends the members of the group other than S. *)
KillAllBut(S) ==
    /\ child' = IF "child" \in S THEN child ELSE Kill(child)
    /\ kin' = [k \in Kin |-> IF k \in Members \ S THEN "dead" ELSE kin[k]]
    /\ spared' = S
    /\ pc' = "joining"
    /\ UNCHANGED <<timed, sync, written, buffer, waitCh, contexts, result>>

(* Mutant: the child alone is killed, not its group. *)
TerminateChildOnly ==
    /\ pc = "killing"
    /\ child' = Kill(child)
    /\ pc' = "joining"
    /\ UNCHANGED <<timed, sync, kin, spared, written, buffer, waitCh, contexts, result>>

(* terminateProcessGroup returns nil: kill(-pid) reached at least one member,
   which may be the leader that has exited and is not reaped yet, or found the
   group empty (ESRCH).  It says nothing of members that belong to another
   user, which it leaves alone. *)
terminateProcessGroup ==
    /\ pc = "killing"
    /\ \E S \in SUBSET Members :
          /\ UserChanges \/ S = {}
          /\ S = Members => S = {} \/ child \in Exited
          /\ KillAllBut(S)

(* EPERM: there are members and kill(-pid) may signal none of them.
   process.Kill is tried on the child, which by now may have changed back, and
   an error is returned whatever that does. *)
terminateFails ==
    /\ UserChanges /\ pc = "killing" /\ Members # {}
    /\ \E S \in {Members, Members \ {"child"}} : KillAllBut(S)

interruptedStatus ==
    IF timed /\ execErr = "deadline" /\ runCtx = "live" THEN "timed_out" ELSE "cancelled"

(* Mutant: the context decides even when there is an exit code. *)
JoinedIgnoringExit ==
    /\ pc = "joining" /\ waitCh = "full"
    /\ waitCh' = "taken"
    /\ Record(interruptedStatus)
    /\ UNCHANGED <<child, spared, thread_rest>>

(* <-waitCh after the kill: an exit code still means completion. *)
Joined ==
    /\ pc = "joining" /\ waitCh = "full"
    /\ waitCh' = "taken"
    /\ Record(IF child = "signalled" THEN interruptedStatus ELSE completionStatus)
    /\ UNCHANGED <<child, spared, thread_rest>>

-----------------------------------------------------------------------------
Thread ==
    \/ StartProcess \/ StartFails \/ Received \/ ContextDone \/ NothingReceived
    \/ terminateProcessGroup \/ terminateFails \/ Joined

Family ==
    \/ \E how \in Exited : ChildExits(how)
    \/ \E k \in Kin : Fork(k) \/ Redirect(k) \/ Escape(k) \/ KinExits(k)
    \/ WriteOutput

Next == Thread \/ Family \/ CopyOutput \/ WaitReturns \/ DeadlineFires \/ CallerCancels

Spec == Init /\ [][Next]_vars

(* Goroutines run and timers fire; the processes owe nothing. *)
FairSpec ==
    /\ Spec
    /\ WF_vars(Thread) /\ WF_vars(CopyOutput)
    /\ WF_vars(WaitReturns) /\ WF_vars(DeadlineFires)
-----------------------------------------------------------------------------
(* The stored status is decided by how the child ended; the contexts only
   name the cause of a signal.  Checked against every order in which the
   exit, the deadline, the disconnect and the kill can meet. *)
OutcomeSound ==
    pc = "done" =>
        /\ child = "none" => status = "failed"
        /\ child = "ok" => status = "succeeded"
        /\ child = "nonzero" => status = "failed"
        /\ status = "timed_out" => timed /\ child = "signalled" /\ execErr = "deadline"
        /\ status = "cancelled" => child = "signalled" /\ runCtx = "cancelled"

(* Whoever is in the process group of a run recorded as timed out or cancelled
   ran as another user when the group was killed, or descends from one who did:
   a process of the service's own user does not survive its run, however forks,
   exits and redirections meet the kill. *)
NoGroupSurvivor ==
    status \in {"timed_out", "cancelled"} =>
        \A k \in Kin : kin[k] \in InGroup => k \in spared

(* The tail buffers have no lock: execute reads them only when no copy is
   under way and no process can write any more, so what is stored is the end of
   the whole output, max_output_bytes of it, and not of what had been copied. *)
TailsComplete ==
    status # "running" =>
        /\ ~PipeOpen \/ child = "none"
        /\ Len(tail) = IF limit <= 0 THEN 0 ELSE IF written < limit THEN written ELSE limit
        /\ \A k \in 1..Len(tail) : tail[k] = written - Len(tail) + k

(* A positive timeout bounds the run of execute, whatever the descendants do. *)
TimeoutBoundsRun == timed ~> (pc = "done")

(* Somebody SIGKILL did not reach holds the pipe: a process that left the group,
   or one in it that the kill had to spare. *)
PipeHeldOutOfReach ==
    \/ \E k \in Kin : kin[k] = "away" \/ (kin[k] = "group" /\ k \in spared)
    \/ child = "alive" /\ "child" \in spared

(* A positive timeout ends the run whatever the processes do, unless one that
   SIGKILL did not reach holds the pipe for ever: killing the group is what
   makes the unbounded wait on waitCh return. *)
TimeoutBoundsGroup == timed => <>(pc = "done") \/ []<>PipeHeldOutOfReach

(* A child that its deadline got killed is reported as timed out. *)
DeadlineKillIsTimedOut ==
    (pc = "done" /\ execErr = "deadline" /\ status \in {"timed_out", "cancelled"})
        => status = "timed_out"

(* execute is what Execution says it is: every step here is a step of the
   thread, the child or the client of run 1 there, or invisible there.  What
   Execution calls the child's exit is the moment waitCh has its result. *)
Service == INSTANCE Execution WITH
    Runs <- {1}, Times <- {1}, Instances <- {"service"},
    Actions <- {"timed", "untimed"}, EnabledActions <- {"timed", "untimed"},
    RejectActions <- {}, TimedActions <- {"timed"},
    MaxRuns <- 0, StorageFaults <- FALSE, Supervised <- TRUE, StubbornChildren <- TRUE,
    phase <- [i \in {"service"} |-> "serving"],
    gate <- [i \in {"service"} |-> {}],
    todo <- [i \in {"service"} |-> {}],
    req <- [r \in {1} |-> [owner |-> "service",
                           action |-> IF timed THEN "timed" ELSE "untimed",
                           mode |-> IF sync THEN "sync" ELSE "async"]],
    pc <- [r \in {1} |-> CASE pc = "starting" -> "starting"
                           [] pc \in {"selecting", "polling", "killing"} -> "waiting"
                           [] pc = "joining" -> "killed"
                           [] pc = "done" -> "updating"],
    ctx <- [r \in {1} |-> runCtx],
    proc <- [r \in {1} |-> IF waitCh = "empty" /\ child # "none" THEN "alive" ELSE child],
    res <- [r \in {1} |-> CASE pc = "joining" -> IF execErr = "deadline" THEN "timed_out"
                                                                        ELSE "cancelled"
                            [] pc = "done" -> status
                            [] OTHER -> "none"],
    reply <- [r \in {1} |-> IF sync THEN "none" ELSE "accepted"],
    db <- [r \in {1} |-> [status |-> "running", created |-> 1, restarted |-> FALSE]]

ImplementsExecution == [][Service!Next]_(Service!vars)
=============================================================================
