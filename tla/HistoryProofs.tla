--------------------------- MODULE HistoryProofs ----------------------------
(***************************************************************************)
(* Theorems about the run history of a single service: with one `microhook *)
(* serve` per database its records only move forward, recovery is complete *)
(* before anything is served, and what callers are told agrees with them.  *)
(* None of this survives a second process on the same file.                *)
(***************************************************************************)
EXTENDS ExecutionProofs

SingleInstance == \A i, j \in Instances : i = j

Booting == {"down", "opened", "retained", "recovering"}
Stopped == {"idle", "done", "lost"}

(* How the row and the answer of one run follow the step its thread is at. *)
Local(r) ==
    /\ pc[r] \in {"idle", "received", "creating"} => db[r].status = "absent"
    /\ pc[r] \in {"reading", "starting", "waiting", "killed", "updating"}
          => db[r].status = "running"
    /\ pc[r] = "rereading" => db[r].status = res[r]
    /\ pc[r] = "finishing" => \/ res[r] = "error"
                              \/ res[r] \in Terminal /\ db[r].status = res[r]
    /\ pc[r] \in {"idle", "received", "creating", "reading"} => reply[r] = "none"
    /\ reply[r] \in {"refused", "conflict"} => pc[r] = "done" /\ db[r].status = "absent"
    /\ reply[r] = "accepted" => db[r].status # "absent"
    /\ reply[r] \in Terminal => pc[r] = "done" /\ db[r].status \in {reply[r], "pruned"}
    /\ reply[r] # "running"
    /\ db[r].restarted => pc[r] \in {"lost", "done"} /\ reply[r] \notin Terminal

(* While a process boots nothing runs, and every row that a dead process left
   running is either still on the recovery list or settled. *)
Recovery ==
    \A i \in Instances :
        /\ phase[i] \in Booting => \A r \in Runs : pc[r] \in Stopped
        /\ phase[i] # "recovering" => todo[i] = {}
        /\ \A r \in todo[i] : db[r].status = "running"
        /\ phase[i] = "recovering" =>
              \A r \in Runs : pc[r] = "lost" /\ db[r].status = "running" => r \in todo[i]
        /\ phase[i] \notin Booting =>
              \A r \in Runs : pc[r] = "lost" => db[r].status # "running"

HistoryInv == Recovery /\ \A r \in Runs : Local(r)

(* The empty history of services that are all down. *)
LEMMA HistoryInit == Init => HistoryInv
  BY DEF Init, HistoryInv, Recovery, Local, Stopped, Booting, NoRow, Terminal

(* A thread at work disturbs only what concerns its own run: while it works
   no service is booting. *)
LEMMA ThreadFrame ==
    ASSUME TypeInv, HistoryInv, NEW r \in Runs, pc[r] \notin Stopped,
           pc'[r] \notin {"idle", "lost"},
           UNCHANGED <<phase, todo>>,
           \A q \in Runs \ {r} : /\ pc'[q] = pc[q] /\ res'[q] = res[q]
                                 /\ reply'[q] = reply[q] /\ db'[q] = db[q],
           Local(r)'
    PROVE  HistoryInv'
  <1>1. \A i \in Instances : phase[i] \notin Booting /\ todo[i] = {}
    BY DEF HistoryInv, Recovery, Booting
  <1>2. Recovery'
    BY <1>1 DEF HistoryInv, Recovery, Booting
  <1>3. \A q \in Runs \ {r} : Local(q)'
    BY DEF HistoryInv, Local
  <1> QED
    BY <1>2, <1>3 DEF HistoryInv

(* Every step of a thread. *)
LEMMA HistoryThread ==
    ASSUME TypeInv, HistoryInv, NEW r \in Runs, Thread(r)
    PROVE  HistoryInv'
  <1> DEFINE Frame == /\ pc[r] \notin Stopped /\ pc'[r] \notin {"idle", "lost"}
                      /\ UNCHANGED <<phase, todo>>
                      /\ \A q \in Runs \ {r} : /\ pc'[q] = pc[q] /\ res'[q] = res[q]
                                               /\ reply'[q] = reply[q] /\ db'[q] = db[q]
                      /\ Local(r)'
  <1>0. SUFFICES Frame
    BY ThreadFrame
  <1>t. /\ Local(r)
        /\ phase \in [Instances -> Phases] /\ pc \in [Runs -> PCs] /\ db \in [Runs -> Row]
        /\ res \in [Runs -> {"none", "running", "error"} \cup Terminal]
        /\ reply \in [Runs -> {"none", "refused", "conflict", "accepted", "running", "error"}
                              \cup Terminal]
        /\ pc[r] = "killed" => res[r] \in {"timed_out", "cancelled"}
        /\ pc[r] \in {"updating", "rereading"} => res[r] \in Terminal
    BY DEF HistoryInv, TypeInv, TypeOK, CarriesOutcome
  <1> USE DEF Goto, Carry, service, Terminal, Stopped, Local
  <1>1. CASE Refuse(r)
    BY <1>1, <1>t DEF Refuse, Answer
  <1>2. CASE InvokeAllow(r)
    BY <1>2, <1>t DEF InvokeAllow
  <1>3. CASE InvokeReject(r)
    BY <1>3, <1>t DEF InvokeReject, Answer
  <1>4. CASE \E now \in Times : CreateRun(r, now)
    BY <1>4, <1>t DEF CreateRun, CreateRow
  <1>5. CASE CreateRunFails(r) \/ ReadCreatedFails(r) \/ FinishRunFails(r)
    BY <1>5, <1>t DEF CreateRunFails, ReadCreatedFails, FinishRunFails, Fail
  <1>6. CASE ReadCreated(r)
    BY <1>6, <1>t DEF ReadCreated
  <1>7. CASE Start(r) \/ StartFails(r)
    BY <1>7, <1>t DEF Start, StartFails
  <1>8. CASE Complete(r)
    BY <1>8, <1>t DEF Complete, Completion
  <1>9. CASE Deadline(r) \/ Disconnected(r)
    BY <1>9, <1>t DEF Deadline, Disconnected, Interrupt
  <1>10. CASE Classify(r)
    BY <1>10, <1>t DEF Classify, Completion
  <1>11. CASE UpdateRun(r)
    <2>1. /\ db'[r].status = res[r] /\ db'[r].restarted = FALSE
          /\ \A q \in Runs \ {r} : db'[q] = db[q]
      BY <1>11, <1>t DEF UpdateRun, UpdateRow
    <2> QED
      BY <1>11, <1>t, <2>1 DEF UpdateRun
  <1>12. CASE ReadUpdated(r)
    BY <1>12, <1>t DEF ReadUpdated
  <1>13. CASE Finish(r)
    BY <1>13, <1>t DEF Finish, Answer
  <1> QED
    BY <1>1, <1>2, <1>3, <1>4, <1>5, <1>6, <1>7, <1>8, <1>9, <1>10, <1>11, <1>12,
       <1>13 DEF Thread

(* Clients and children touch neither rows nor answers. *)
LEMMA HistoryEnvironment ==
    ASSUME SingleInstance, TypeInv, HistoryInv, NEW r \in Runs, Environment(r)
    PROVE  HistoryInv'
  <1>1. CASE CancelRequest(r) \/ \E how \in Exited : ProcessExit(r, how)
    <2>1. UNCHANGED <<phase, todo, pc, res, reply, db>>
      BY <1>1 DEF CancelRequest, ProcessExit, service
    <2> QED
      BY <2>1 DEF HistoryInv, Recovery, Local
  <1>2. ASSUME NEW i \in Instances, NEW a \in Actions, NEW m \in {"sync", "async"},
               Receive(i, r, a, m)
        PROVE  HistoryInv'
    <2>1. /\ UNCHANGED <<phase, todo, res, reply, db>>
          /\ phase[i] = "serving"
          /\ pc[r] = "idle" /\ pc' = [pc EXCEPT ![r] = "received"]
      BY <1>2 DEF Receive, Goto, service
    <2>2. \A q \in Runs : Local(q)'
      BY <2>1 DEF HistoryInv, Local, TypeInv, TypeOK
    <2>3. \A j \in Instances : j = i
      BY DEF SingleInstance
    <2>4. Recovery'
      BY <2>1, <2>3 DEF HistoryInv, Recovery, Booting, TypeInv, TypeOK
    <2> QED
      BY <2>2, <2>4 DEF HistoryInv
  <1> QED
    BY <1>1, <1>2 DEF Environment

(* A process that dies turns its threads into lost ones; the next one finds
   their rows. *)
LEMMA HistoryDie ==
    ASSUME SingleInstance, TypeInv, HistoryInv, NEW i \in Instances, Die(i)
    PROVE  HistoryInv'
  <1>1. \A j \in Instances : j = i
    BY DEF SingleInstance
  <1>2. \A r \in Runs : pc[r] # "idle" => req[r].owner = i
    BY <1>1 DEF TypeInv, TypeOK, Request
  <1>3. \A r \in Runs : /\ pc'[r] = IF pc[r] \in {"idle", "done"} THEN pc[r] ELSE "lost"
                        /\ reply'[r] = reply[r] /\ db'[r] = db[r]
    BY <1>2 DEF Die
  <1>4. phase'[i] = "down" /\ todo'[i] = {}
    BY DEF Die, SetPhase, TypeInv, TypeOK
  <1>5. Recovery'
    BY <1>1, <1>3, <1>4 DEF Recovery, Booting, Stopped
  <1>6. \A r \in Runs : Local(r)'
    BY <1>3 DEF HistoryInv, Local, Terminal
  <1> QED
    BY <1>5, <1>6 DEF HistoryInv

(* Booting, serving and stopping. *)
LEMMA HistoryServe ==
    ASSUME SingleInstance, TypeInv, HistoryInv, NEW i \in Instances, Serve(i)
    PROVE  HistoryInv'
  <1>0. /\ \A j \in Instances : j = i
        /\ phase \in [Instances -> Phases] /\ todo \in [Instances -> SUBSET Runs]
        /\ db \in [Runs -> Row]
    BY DEF SingleInstance, TypeInv, TypeOK
  <1>1. CASE Die(i)
    BY <1>1, HistoryDie
  <1>2. CASE Open(i) \/ Listen(i) \/ ListenFails(i) \/ BootstrapFails(i)
    <2>1. UNCHANGED <<pc, res, reply, db>>
      BY <1>2 DEF Open, Listen, ListenFails, BootstrapFails, threads
    <2>2. Recovery'
      BY <1>0, <1>2, <2>1 DEF Open, Listen, ListenFails, BootstrapFails, SetPhase,
            HistoryInv, Recovery, Booting
    <2> QED
      BY <2>1, <2>2 DEF HistoryInv, Local
  <1>3. CASE Shutdown(i) \/ Drained(i) \/ DrainTimesOut(i) \/ ServeFails(i)
    <2>1. UNCHANGED <<pc, res, reply, db>>
      BY <1>3 DEF Shutdown, Drained, DrainTimesOut, ServeFails, threads
    <2>2. Recovery'
      BY <1>0, <1>3, <2>1 DEF Shutdown, Drained, DrainTimesOut, ServeFails, SetPhase,
            HistoryInv, Recovery, Booting
    <2> QED
      BY <2>1, <2>2 DEF HistoryInv, Local
  <1>4. CASE ListInterrupted(i)
    <2>1. UNCHANGED <<pc, res, reply, db>>
      BY <1>4 DEF ListInterrupted, threads
    <2>2. phase[i] = "retained" /\ phase'[i] = "recovering" /\ todo'[i] = RunningRows(db)
      BY <1>0, <1>4 DEF ListInterrupted, SetPhase
    <2>3. Recovery'
      BY <1>0, <2>1, <2>2 DEF RunningRows, HistoryInv, Recovery, Booting
    <2> QED
      BY <2>1, <2>3 DEF HistoryInv, Local
  <1>5. CASE \E cutoff \in Cutoffs : ApplyRetention(i, cutoff)
    <2>1. PICK cutoff \in Cutoffs : ApplyRetention(i, cutoff)
      BY <1>5
    <2>2. /\ UNCHANGED <<pc, res, reply, todo>>
          /\ db' = Retain(db, cutoff, MaxRuns)
          /\ phase[i] = "opened" /\ phase'[i] = "retained"
      BY <1>0, <2>1 DEF ApplyRetention, SetPhase, threads
    <2>3. \A r \in Runs : /\ db'[r].restarted = db[r].restarted
                          /\ \/ db'[r].status = db[r].status
                             \/ db[r].status \in Terminal /\ db'[r].status = "pruned"
      BY <1>0, <2>2, RetainType
    <2>4. \A r \in Runs : pc[r] \in Stopped
      BY <2>2 DEF HistoryInv, Recovery, Booting
    <2>5. Recovery'
      BY <1>0, <2>2, <2>3, <2>4 DEF HistoryInv, Recovery, Booting
    <2>6. \A r \in Runs : Local(r)'
      BY <2>2, <2>3, <2>4 DEF HistoryInv, Local, Stopped, Terminal
    <2> QED
      BY <2>5, <2>6 DEF HistoryInv
  <1>6. CASE \E r \in Runs : CancelInterrupted(i, r)
    <2>1. PICK r \in Runs : CancelInterrupted(i, r)
      BY <1>6
    <2>2. /\ UNCHANGED <<pc, res, reply, phase>>
          /\ todo' = [todo EXCEPT ![i] = @ \ {r}]
          /\ phase[i] = "recovering" /\ r \in todo[i]
      BY <2>1 DEF CancelInterrupted, NextInterrupted, threads
    <2>3. /\ db'[r].status = "cancelled"
          /\ \A q \in Runs \ {r} : db'[q] = db[q]
      BY <1>0, <2>1 DEF CancelInterrupted, UpdateRow
    <2>4. db[r].status = "running" /\ \A q \in Runs : pc[q] \in Stopped
      BY <2>2 DEF HistoryInv, Recovery, Booting
    <2>5. Recovery'
      BY <1>0, <2>2, <2>3, <2>4 DEF HistoryInv, Recovery, Booting
    <2>6. Local(r)'
      BY <2>2, <2>3, <2>4 DEF HistoryInv, Local, Stopped, Terminal
    <2>7. \A q \in Runs \ {r} : Local(q)'
      BY <2>2, <2>3 DEF HistoryInv, Local
    <2> QED
      BY <2>5, <2>6, <2>7 DEF HistoryInv
  <1> QED
    BY <1>1, <1>2, <1>3, <1>4, <1>5, <1>6 DEF Serve, Exit, Crash

(* Every step. *)
LEMMA HistoryNext ==
    ASSUME SingleInstance
    PROVE  TypeInv /\ HistoryInv /\ [Next]_vars => HistoryInv'
  <1> SUFFICES ASSUME TypeInv, HistoryInv, [Next]_vars
               PROVE  HistoryInv'
    OBVIOUS
  <1>1. CASE UNCHANGED vars
    BY <1>1 DEF vars, HistoryInv, Recovery, Local
  <1>2. CASE Next
    BY <1>2, HistoryThread, HistoryEnvironment, HistoryServe DEF Next
  <1> QED
    BY <1>1, <1>2

(* The invariant of a single service. *)
LEMMA HistoryInvariant == ASSUME SingleInstance
                          PROVE  Spec => [](TypeInv /\ HistoryInv)
  BY HistoryInit, HistoryNext, TypeInit, TypeNext, PTL DEF Spec

-----------------------------------------------------------------------------
(* A single service never serves while a row of a dead predecessor is still
   running, however many attempts at recovery failed or were cut short. *)
THEOREM RecoveryPrecedesServing == ASSUME SingleInstance
                                   PROVE  Spec => []RecoveredBeforeServing
  <1>1. HistoryInv => RecoveredBeforeServing
    BY DEF HistoryInv, Recovery, RecoveredBeforeServing, Booting
  <1> QED
    BY <1>1, HistoryInvariant, PTL

(* restartedRunSummary is only written to runs whose thread is gone and whose
   caller was never given a final status. *)
THEOREM RestartSummaryIsTrue == ASSUME SingleInstance
                                PROVE  Spec => []RestartSummaryTruthful
  <1>1. HistoryInv => RestartSummaryTruthful
    BY DEF HistoryInv, Local, RestartSummaryTruthful
  <1> QED
    BY <1>1, HistoryInvariant, PTL

(* What a step may do to a row: only CreateRun, UpdateRun, ApplyRetention and
   CancelInterrupted write, the first two to their own run's row. *)
LEMMA RowStep ==
    ASSUME SingleInstance, TypeInv, HistoryInv, Next
    PROVE  \/ UNCHANGED db
           \/ \E r \in Runs : /\ \/ db[r].status = "absent" /\ db'[r].status = "running"
                                   /\ reply[r] = "none"
                                 \/ db[r].status = "running" /\ db'[r].status \in Terminal
                              /\ \A q \in Runs \ {r} : db'[q] = db[q]
                              /\ UNCHANGED reply
           \/ /\ \A r \in Runs : \/ db'[r].status = db[r].status
                                 \/ db[r].status \in Terminal /\ db'[r].status = "pruned"
              /\ UNCHANGED reply
  <1>0. db \in [Runs -> Row]
    BY DEF TypeInv, TypeOK
  <1>1. ASSUME NEW r \in Runs, NEW now \in Times, CreateRun(r, now)
        PROVE  /\ db[r].status = "absent" /\ db'[r].status = "running" /\ reply[r] = "none"
               /\ \A q \in Runs \ {r} : db'[q] = db[q]
               /\ UNCHANGED reply
    BY <1>0, <1>1 DEF CreateRun, CreateRow, HistoryInv, Local
  <1>2. ASSUME NEW r \in Runs, UpdateRun(r)
        PROVE  /\ db[r].status = "running" /\ db'[r].status \in Terminal
               /\ \A q \in Runs \ {r} : db'[q] = db[q]
               /\ UNCHANGED reply
    BY <1>0, <1>2 DEF UpdateRun, UpdateRow, HistoryInv, Local, TypeInv, CarriesOutcome
  <1>3. ASSUME NEW i \in Instances, NEW cutoff \in Cutoffs, ApplyRetention(i, cutoff)
        PROVE  /\ \A r \in Runs : \/ db'[r].status = db[r].status
                                  \/ db[r].status \in Terminal /\ db'[r].status = "pruned"
               /\ UNCHANGED reply
    BY <1>0, <1>3, RetainType DEF ApplyRetention, threads
  <1>4. ASSUME NEW i \in Instances, NEW r \in Runs, CancelInterrupted(i, r)
        PROVE  /\ db[r].status = "running" /\ db'[r].status \in Terminal
               /\ \A q \in Runs \ {r} : db'[q] = db[q]
               /\ UNCHANGED reply
    <2>1. r \in todo[i]
      BY <1>4 DEF CancelInterrupted, NextInterrupted
    <2>2. db[r].status = "running"
      BY <2>1 DEF HistoryInv, Recovery
    <2>3. db'[r].status = "cancelled" /\ \A q \in Runs \ {r} : db'[q] = db[q]
      BY <1>0, <1>4 DEF CancelInterrupted, UpdateRow
    <2>4. UNCHANGED reply
      BY <1>4 DEF CancelInterrupted, threads
    <2> QED
      BY <2>2, <2>3, <2>4 DEF Terminal
  <1>5. ASSUME NEW r \in Runs, Thread(r), ~(\E now \in Times : CreateRun(r, now)), ~UpdateRun(r)
        PROVE  UNCHANGED db
    BY <1>5 DEF Thread, Refuse, InvokeAllow, InvokeReject, CreateRunFails, ReadCreated,
          ReadCreatedFails, Start, StartFails, Complete, Deadline, Disconnected, Interrupt,
          Classify, ReadUpdated, FinishRunFails, Finish, Fail
  <1>6. ASSUME NEW r \in Runs, Environment(r)
        PROVE  UNCHANGED db
    BY <1>6 DEF Environment, Receive, CancelRequest, ProcessExit
  <1>7. ASSUME NEW i \in Instances, Serve(i),
               ~(\E cutoff \in Cutoffs : ApplyRetention(i, cutoff)),
               ~(\E r \in Runs : CancelInterrupted(i, r))
        PROVE  UNCHANGED db
    BY <1>7 DEF Serve, Open, ListInterrupted, BootstrapFails, Listen, ListenFails, Shutdown,
          Drained, DrainTimesOut, ServeFails, Exit, Crash, Die
  <1> QED
    BY <1>1, <1>2, <1>3, <1>4, <1>5, <1>6, <1>7 DEF Next

(* A terminal status stays until retention deletes the row, although the
   UPDATE statement would overwrite it. *)
THEOREM HistoryMovesForward == ASSUME SingleInstance
                               PROVE  Spec => TerminalIsFinal
  <1> DEFINE Final == \A r \in Runs : db[r].status \in Terminal
                                      => db'[r].status \in {db[r].status, "pruned"}
  <1>1. TypeInv /\ HistoryInv /\ [Next]_vars => [Final]_vars
    <2>1. ASSUME TypeInv, HistoryInv, Next
          PROVE  Final
      BY <2>1, RowStep DEF Terminal
    <2> QED
      BY <2>1
  <1> QED
    BY <1>1, HistoryInvariant, PTL DEF Spec, TerminalIsFinal

-----------------------------------------------------------------------------
(* Children.  A child that is alive has a thread waiting for it, because a
   thread leaves execute only after waitCh and a supervisor ends the children
   of a dead service. *)
ChildInv == \A r \in Runs : proc[r] = "alive" => pc[r] \in {"waiting", "killed"}

(* Only Start makes a child alive, and only a dead child lets its thread on. *)
LEMMA ChildNext ==
    ASSUME Supervised
    PROVE  TypeInv /\ ChildInv /\ [Next]_vars => ChildInv'
  <1> SUFFICES ASSUME TypeInv, ChildInv, [Next]_vars
               PROVE  ChildInv'
    OBVIOUS
  <1>0. pc \in [Runs -> PCs] /\ proc \in [Runs -> {"none", "alive"} \cup Exited]
    BY DEF TypeInv, TypeOK
  <1> USE DEF ChildInv, Goto, service, threads, Exited
  <1>1. ASSUME NEW r \in Runs, Thread(r)
        PROVE  ChildInv'
    <2>1. CASE Start(r)
      BY <1>0, <2>1 DEF Start
    <2>2. CASE Complete(r) \/ Classify(r)
      BY <1>0, <2>2 DEF Complete, Classify
    <2>3. CASE Deadline(r) \/ Disconnected(r)
      BY <1>0, <2>3 DEF Deadline, Disconnected, Interrupt
    <2>4. CASE \/ Refuse(r) \/ InvokeAllow(r) \/ InvokeReject(r) \/ ReadCreated(r)
               \/ \E now \in Times : CreateRun(r, now)
      BY <1>0, <2>4 DEF Refuse, InvokeAllow, InvokeReject, Answer, ReadCreated, CreateRun
    <2>5. CASE CreateRunFails(r) \/ ReadCreatedFails(r) \/ FinishRunFails(r) \/ StartFails(r)
      BY <1>0, <2>5 DEF CreateRunFails, ReadCreatedFails, FinishRunFails, Fail, StartFails
    <2>6. CASE UpdateRun(r) \/ ReadUpdated(r) \/ Finish(r)
      BY <1>0, <2>6 DEF UpdateRun, ReadUpdated, Finish, Answer
    <2> QED
      BY <1>1, <2>1, <2>2, <2>3, <2>4, <2>5, <2>6 DEF Thread
  <1>2. ASSUME NEW r \in Runs, Environment(r)
        PROVE  ChildInv'
    BY <1>0, <1>2 DEF Environment, Receive, CancelRequest, ProcessExit
  <1>3. ASSUME NEW i \in Instances, Serve(i)
        PROVE  ChildInv'
    <2>1. CASE Die(i)
      BY <1>0, <2>1 DEF Die
    <2>2. CASE ~Die(i)
      <3>1. UNCHANGED <<pc, proc>>
        BY <1>3, <2>2 DEF Serve, Exit, Crash, Open, ApplyRetention, ListInterrupted,
              CancelInterrupted, BootstrapFails, Listen, ListenFails, Shutdown, Drained,
              DrainTimesOut, ServeFails
      <3> QED
        BY <3>1
    <2> QED
      BY <2>1, <2>2
  <1>4. CASE UNCHANGED vars
    BY <1>4 DEF vars
  <1> QED
    BY <1>1, <1>2, <1>3, <1>4 DEF Next

(* Under a supervisor, two children of a reject action never overlap, across
   crashes and restarts too: the gate excludes two threads, and every living
   child has one. *)
THEOREM ChildrenNeverOverlap == ASSUME SingleInstance, Supervised
                                PROVE  Spec => []NoOverlap
  <1>1. Init => ChildInv
    BY DEF Init, ChildInv
  <1>2. TypeInv /\ GateInv /\ ChildInv => NoOverlap
    <2> SUFFICES ASSUME TypeInv, GateInv, ChildInv,
                        NEW q \in Runs, NEW r \in Runs, q # r,
                        proc[q] = "alive", proc[r] = "alive"
                 PROVE  req[q].action # req[r].action \/ req[r].action \notin RejectActions
      BY DEF NoOverlap
    <2>1. InFlight(q) /\ InFlight(r)
      BY DEF ChildInv, InFlight, PCs
    <2>2. req[q].owner = req[r].owner
      BY <2>1 DEF SingleInstance, TypeInv, TypeOK, Request, InFlight, PCs
    <2> QED
      BY <2>1, <2>2 DEF GateInv, RejectExclusive
  <1> QED
    BY <1>1, <1>2, ChildNext, GateInvariant, PTL DEF Spec

-----------------------------------------------------------------------------
(* What a step may tell a caller. *)
LEMMA AnswerStep ==
    ASSUME SingleInstance, TypeInv, HistoryInv, Next
    PROVE  \/ UNCHANGED reply
           \/ /\ UNCHANGED db
              /\ \E r \in Runs :
                   \E a \in {"refused", "conflict", "accepted", "error"} \cup Terminal :
                     /\ reply[r] = "none" /\ reply' = [reply EXCEPT ![r] = a]
                     /\ a \in {"refused", "conflict"} => db[r].status = "absent"
                     /\ a = "accepted" => db[r].status = "running"
                     /\ a \in Terminal => db[r].status = a
  <1> DEFINE Told(r) ==
                /\ UNCHANGED db
                /\ \E a \in {"refused", "conflict", "accepted", "error"} \cup Terminal :
                     /\ reply[r] = "none" /\ reply' = [reply EXCEPT ![r] = a]
                     /\ a \in {"refused", "conflict"} => db[r].status = "absent"
                     /\ a = "accepted" => db[r].status = "running"
                     /\ a \in Terminal => db[r].status = a
  <1>0. /\ reply \in [Runs -> {"none", "refused", "conflict", "accepted", "running", "error"}
                              \cup Terminal]
        /\ \A r \in Runs : Local(r)
    BY DEF TypeInv, TypeOK, HistoryInv
  <1>1. ASSUME NEW r \in Runs, Refuse(r) \/ InvokeReject(r)
        PROVE  UNCHANGED reply \/ Told(r)
    <2>1. /\ UNCHANGED db
          /\ \/ UNCHANGED reply
             \/ reply' = [reply EXCEPT ![r] = "refused"]
             \/ reply' = [reply EXCEPT ![r] = "conflict"]
      BY <1>1 DEF Refuse, InvokeReject, Answer
    <2>2. reply[r] = "none" /\ db[r].status = "absent"
      BY <1>0, <1>1 DEF Refuse, InvokeReject, Local
    <2> QED
      BY <2>1, <2>2 DEF Terminal
  <1>2. ASSUME NEW r \in Runs, ReadCreated(r)
        PROVE  UNCHANGED reply \/ Told(r)
    <2>1. CASE req[r].mode = "async"
      <3>1. UNCHANGED db /\ reply' = [reply EXCEPT ![r] = "accepted"]
        BY <1>2, <2>1 DEF ReadCreated
      <3>2. reply[r] = "none" /\ db[r].status = "running"
        BY <1>0, <1>2 DEF ReadCreated, Local
      <3> QED
        BY <3>1, <3>2 DEF Terminal
    <2>2. CASE req[r].mode # "async"
      BY <1>0, <1>2, <2>2 DEF ReadCreated
    <2> QED
      BY <2>1, <2>2
  <1>3. ASSUME NEW r \in Runs, Finish(r)
        PROVE  UNCHANGED reply \/ Told(r)
    <2>1. CASE reply[r] = "none"
      <3>1. /\ UNCHANGED db /\ reply' = [reply EXCEPT ![r] = res[r]]
            /\ \/ res[r] = "error"
               \/ res[r] \in Terminal /\ db[r].status = res[r]
        BY <1>0, <1>3, <2>1 DEF Finish, Answer, Local
      <3> QED
        BY <2>1, <3>1 DEF Terminal
    <2>2. CASE reply[r] # "none"
      BY <1>0, <1>3, <2>2 DEF Finish, Answer
    <2> QED
      BY <2>1, <2>2
  <1>4. ASSUME NEW r \in Runs, Thread(r),
               ~Refuse(r), ~InvokeReject(r), ~ReadCreated(r), ~Finish(r)
        PROVE  UNCHANGED reply
    BY <1>4 DEF Thread, InvokeAllow, CreateRun, CreateRunFails, ReadCreatedFails, Start,
          StartFails, Complete, Deadline, Disconnected, Interrupt, Classify, UpdateRun,
          ReadUpdated, FinishRunFails, Fail
  <1>5. ASSUME NEW r \in Runs, Environment(r)
        PROVE  UNCHANGED reply
    BY <1>5 DEF Environment, Receive, CancelRequest, ProcessExit
  <1>6. ASSUME NEW i \in Instances, Serve(i)
        PROVE  UNCHANGED reply
    BY <1>6 DEF Serve, Open, ApplyRetention, ListInterrupted, CancelInterrupted,
          BootstrapFails, Listen, ListenFails, Shutdown, Drained, DrainTimesOut, ServeFails,
          Exit, Crash, Die, threads
  <1> QED
    BY <1>1, <1>2, <1>3, <1>4, <1>5, <1>6 DEF Next

(* A single service implements RunLifecycle. *)
THEOREM ServiceImplementsLifecycle == ASSUME SingleInstance
                                      PROVE  Spec => ImplementsLifecycle
  <1> DEFINE record == [r \in Runs |-> db[r].status]
  <1>1. Init => Lifecycle!Init
    BY DEF Init, Lifecycle!Init, NoRow
  <1>2. ASSUME TypeInv, HistoryInv, Next
        PROVE  Lifecycle!Next \/ UNCHANGED <<record, reply>>
    <2>0. Lifecycle!Terminal = Terminal
      BY DEF Lifecycle!Terminal, Terminal
    <2>1. CASE UNCHANGED db /\ UNCHANGED reply
      BY <2>1
    <2>2. ASSUME UNCHANGED db, ~(UNCHANGED reply)
          PROVE  Lifecycle!Next
      <3>1. PICK r \in Runs : \E a \in {"refused", "conflict", "accepted", "error"} \cup Terminal :
                     /\ reply[r] = "none" /\ reply' = [reply EXCEPT ![r] = a]
                     /\ a \in {"refused", "conflict"} => db[r].status = "absent"
                     /\ a = "accepted" => db[r].status = "running"
                     /\ a \in Terminal => db[r].status = a
        BY <1>2, <2>2, AnswerStep
      <3>2. /\ record[r] = db[r].status /\ UNCHANGED record
        BY <2>2
      <3>3. \/ Lifecycle!TurnAway(r) \/ Lifecycle!Accept(r) \/ Lifecycle!Report(r)
            \/ Lifecycle!Apologise(r)
        BY <2>0, <3>1, <3>2 DEF Lifecycle!TurnAway, Lifecycle!Accept, Lifecycle!Report,
              Lifecycle!Apologise, Lifecycle!Tell
      <3> QED
        BY <3>3 DEF Lifecycle!Next
    <2>3. ASSUME NEW r \in Runs, UNCHANGED reply,
                 \A q \in Runs \ {r} : db'[q] = db[q],
                 \/ db[r].status = "absent" /\ db'[r].status = "running" /\ reply[r] = "none"
                 \/ db[r].status = "running" /\ db'[r].status \in Terminal
          PROVE  Lifecycle!Next
      <3>1. record' = [record EXCEPT ![r] = db'[r].status]
        BY <2>3
      <3>2. Lifecycle!Create(r) \/ Lifecycle!Settle(r)
        BY <2>0, <2>3, <3>1 DEF Lifecycle!Create, Lifecycle!Settle
      <3> QED
        BY <3>2 DEF Lifecycle!Next
    <2>4. ASSUME UNCHANGED reply,
                 \A r \in Runs : \/ db'[r].status = db[r].status
                                 \/ db[r].status \in Terminal /\ db'[r].status = "pruned"
          PROVE  Lifecycle!Next
      <3> DEFINE S == {r \in Runs : db[r].status \in Terminal /\ db'[r].status = "pruned"}
      <3>1. S \in SUBSET {r \in Runs : record[r] \in Terminal}
        OBVIOUS
      <3>2. record' = [r \in Runs |-> IF r \in S THEN "pruned" ELSE record[r]]
        BY <2>4
      <3>3. Lifecycle!Prune
        BY <2>0, <2>4, <3>1, <3>2 DEF Lifecycle!Prune
      <3> QED
        BY <3>3 DEF Lifecycle!Next
    <2> QED
      BY <1>2, <2>1, <2>2, <2>3, <2>4, RowStep
  <1>3. TypeInv /\ HistoryInv /\ [Next]_vars => [Lifecycle!Next]_<<record, reply>>
    <2>1. UNCHANGED vars => UNCHANGED <<record, reply>>
      BY DEF vars
    <2> QED
      BY <1>2, <2>1
  <1> QED
    BY <1>1, <1>3, HistoryInvariant, PTL DEF Spec, ImplementsLifecycle, Lifecycle!Spec
=============================================================================
