-------------------------- MODULE ExecutionProofs ---------------------------
(***************************************************************************)
(* Theorems about Execution, for any number of services, runs and actions. *)
(***************************************************************************)
EXTENDS Execution, RunStoreProofs

(* What a thread carries fits the step it is at: the part of the typing that
   makes UpdateRun store a status. *)
CarriesOutcome ==
    \A r \in Runs :
        /\ pc[r] = "killed" => res[r] \in {"timed_out", "cancelled"}
        /\ pc[r] \in {"updating", "rereading"} => res[r] \in Terminal
        /\ pc[r] = "finishing" => res[r] # "none"

TypeInv == TypeOK /\ CarriesOutcome

(* The initial state is well typed. *)
LEMMA TypeInit == Init => TypeInv
  BY DEF Init, TypeInv, TypeOK, CarriesOutcome, NoRow, Row, Terminal, Phases, PCs, Request,
         NoRequest, Exited

(* A step of a thread keeps the typing. *)
LEMMA TypeThread ==
    ASSUME TypeInv, NEW r \in Runs, Thread(r)
    PROVE  TypeInv'
  <1> USE DEF TypeInv, TypeOK, CarriesOutcome, Goto, Carry, service, Exited, PCs, Terminal
  <1>1. CASE Refuse(r)
    BY <1>1 DEF Refuse, Answer
  <1>2. CASE InvokeAllow(r)
    BY <1>2 DEF InvokeAllow
  <1>3. CASE InvokeReject(r)
    <2>1. req[r] \in Request
      BY <1>3 DEF InvokeReject
    <2>2. gate' \in [Instances -> SUBSET RejectActions]
      BY <1>3, <2>1 DEF InvokeReject, Request
    <2>3. /\ UNCHANGED <<phase, todo, req, ctx, proc, db>>
          /\ \/ Answer(r, "conflict")
             \/ Goto(r, "creating") /\ UNCHANGED <<res, reply>>
      BY <1>3 DEF InvokeReject
    <2>4. pc[r] # "idle"
      BY <1>3 DEF InvokeReject
    <2>5. CASE Answer(r, "conflict")
      BY <2>2, <2>3, <2>4, <2>5 DEF Answer
    <2>6. CASE Goto(r, "creating") /\ UNCHANGED <<res, reply>>
      BY <2>2, <2>3, <2>4, <2>6
    <2> QED
      BY <2>3, <2>5, <2>6
  <1>4. CASE \E now \in Times : CreateRun(r, now)
    BY <1>4 DEF CreateRun, CreateRow, Row
  <1>5. CASE CreateRunFails(r)
    BY <1>5 DEF CreateRunFails, Fail
  <1>6. CASE ReadCreated(r)
    BY <1>6 DEF ReadCreated
  <1>7. CASE ReadCreatedFails(r)
    BY <1>7 DEF ReadCreatedFails, Fail
  <1>8. CASE Start(r)
    BY <1>8 DEF Start
  <1>9. CASE StartFails(r)
    BY <1>9 DEF StartFails
  <1>10. CASE Complete(r)
    BY <1>10 DEF Complete, Completion
  <1>11. CASE Deadline(r)
    BY <1>11 DEF Deadline, Interrupt
  <1>12. CASE Disconnected(r)
    BY <1>12 DEF Disconnected, Interrupt
  <1>13. CASE Classify(r)
    BY <1>13 DEF Classify, Completion
  <1>14. CASE UpdateRun(r)
    <2>1. db' \in [Runs -> Row]
      BY <1>14, UpdateRowType DEF UpdateRun
    <2> QED
      BY <1>14, <2>1 DEF UpdateRun
  <1>15. CASE ReadUpdated(r)
    <2>1. db[r].status \in {"running"} \cup Terminal
      BY <1>15 DEF ReadUpdated, Present, Row
    <2>2. res'[r] \in {"running", "error"} \cup Terminal
      BY <1>15, <2>1 DEF ReadUpdated
    <2> QED
      BY <1>15, <2>2 DEF ReadUpdated
  <1>16. CASE FinishRunFails(r)
    BY <1>16 DEF FinishRunFails, Fail
  <1>17. CASE Finish(r)
    BY <1>17 DEF Finish, Answer, Request, NoRequest
  <1> QED
    BY <1>1, <1>2, <1>3, <1>4, <1>5, <1>6, <1>7, <1>8, <1>9, <1>10, <1>11, <1>12,
       <1>13, <1>14, <1>15, <1>16, <1>17 DEF Thread

(* A step of a client or of a child process keeps the typing. *)
LEMMA TypeEnvironment ==
    ASSUME TypeInv, NEW r \in Runs, Environment(r)
    PROVE  TypeInv'
  <1> USE DEF TypeInv, TypeOK, CarriesOutcome, Goto, service, Exited, PCs, Terminal
  <1>1. CASE \E i \in Instances, a \in Actions, m \in {"sync", "async"} : Receive(i, r, a, m)
    <2>1. PICK i \in Instances, a \in Actions, m \in {"sync", "async"} : Receive(i, r, a, m)
      BY <1>1
    <2>2. [owner |-> i, action |-> a, mode |-> m] \in Request
      BY DEF Request
    <2>3. [owner |-> i, action |-> a, mode |-> m] # NoRequest
      BY DEF NoRequest
    <2> QED
      BY <2>1, <2>2, <2>3 DEF Receive
  <1>2. CASE CancelRequest(r)
    BY <1>2 DEF CancelRequest
  <1>3. CASE \E how \in Exited : ProcessExit(r, how)
    BY <1>3 DEF ProcessExit
  <1> QED
    BY <1>1, <1>2, <1>3 DEF Environment

(* A step of a booting, serving or dying process keeps the typing. *)
LEMMA TypeServe ==
    ASSUME TypeInv, NEW i \in Instances, Serve(i)
    PROVE  TypeInv'
  <1> USE DEF TypeInv, TypeOK, CarriesOutcome, SetPhase, threads, Phases
  <1>1. CASE Open(i)
    BY <1>1 DEF Open
  <1>2. CASE \E cutoff \in Cutoffs : ApplyRetention(i, cutoff)
    <2>1. db' \in [Runs -> Row]
      BY <1>2, RetainType DEF ApplyRetention
    <2> QED
      BY <1>2, <2>1 DEF ApplyRetention
  <1>3. CASE ListInterrupted(i)
    BY <1>3 DEF ListInterrupted, RunningRows
  <1>4. CASE \E r \in Runs : CancelInterrupted(i, r)
    <2>1. PICK r \in Runs : CancelInterrupted(i, r)
      BY <1>4
    <2>2. db' \in [Runs -> Row]
      BY <2>1, UpdateRowType DEF CancelInterrupted, Terminal
    <2> QED
      BY <2>1, <2>2 DEF CancelInterrupted
  <1>5. CASE BootstrapFails(i)
    BY <1>5 DEF BootstrapFails
  <1>6. CASE Listen(i) \/ ListenFails(i)
    BY <1>6 DEF Listen, ListenFails
  <1>7. CASE Shutdown(i) \/ Drained(i) \/ DrainTimesOut(i) \/ ServeFails(i)
    BY <1>7 DEF Shutdown, Drained, DrainTimesOut, ServeFails
  <1>8. CASE Die(i)
    BY <1>8 DEF Die, PCs, Exited
  <1> QED
    BY <1>1, <1>2, <1>3, <1>4, <1>5, <1>6, <1>7, <1>8 DEF Serve, Exit, Crash

(* Every step keeps the typing. *)
LEMMA TypeNext == TypeInv /\ [Next]_vars => TypeInv'
  <1> SUFFICES ASSUME TypeInv, [Next]_vars
               PROVE  TypeInv'
    OBVIOUS
  <1>1. CASE UNCHANGED vars
    BY <1>1 DEF vars, TypeInv, TypeOK, CarriesOutcome
  <1>2. CASE Next
    BY <1>2, TypeThread, TypeEnvironment, TypeServe DEF Next
  <1> QED
    BY <1>1, <1>2

(* Every reachable state is well typed; in particular gates are taken for
   reject actions only and only known statuses reach the database. *)
THEOREM TypeCorrect == Spec => []TypeOK
  <1>1. Spec => []TypeInv
    BY TypeInit, TypeNext, PTL DEF Spec
  <1>2. TypeInv => TypeOK
    BY DEF TypeInv
  <1> QED
    BY <1>1, <1>2, PTL

-----------------------------------------------------------------------------
(* The reject gate.  RejectExclusive is not inductive: beginRejectAction only
   looks at the gate, so every invocation in flight must be seen to hold it. *)
HoldsGate ==
    \A r \in Runs : InFlight(r) /\ req[r].action \in RejectActions
                    => req[r].action \in gate[req[r].owner]

GateInv == HoldsGate /\ RejectExclusive /\ GateHasHolder

(* Only a step that changes the gate or who is in flight can disturb it. *)
LEMMA GateFrame ==
    ASSUME TypeInv, GateInv, UNCHANGED gate,
           \A q \in Runs : InFlight(q)' <=> InFlight(q),
           \A q \in Runs : InFlight(q) => req'[q] = req[q]
    PROVE  GateInv'
  <1> USE DEF TypeInv, TypeOK
  <1>1. HoldsGate'
    BY DEF GateInv, HoldsGate
  <1>2. RejectExclusive'
    BY DEF GateInv, RejectExclusive
  <1>3. GateHasHolder'
    BY DEF GateInv, GateHasHolder
  <1> QED
    BY <1>1, <1>2, <1>3 DEF GateInv

(* An allow invocation in flight is none of the gate's business. *)
LEMMA GateInvokeAllow ==
    ASSUME TypeInv, GateInv, NEW r \in Runs, InvokeAllow(r)
    PROVE  GateInv'
  <1>1. /\ UNCHANGED <<gate, req>>
        /\ req[r].action \notin RejectActions
        /\ \A q \in Runs \ {r} : InFlight(q)' <=> InFlight(q)
        /\ ~InFlight(r)
    BY DEF InvokeAllow, Goto, InFlight, service, TypeInv, TypeOK
  <1>2. HoldsGate'
    BY <1>1 DEF GateInv, HoldsGate
  <1>3. RejectExclusive'
    BY <1>1 DEF GateInv, RejectExclusive
  <1>4. GateHasHolder'
    BY <1>1 DEF GateInv, GateHasHolder
  <1> QED
    BY <1>2, <1>3, <1>4 DEF GateInv

(* beginRejectAction lets an invocation in only when nobody is. *)
LEMMA GateInvokeReject ==
    ASSUME TypeInv, GateInv, NEW r \in Runs, InvokeReject(r)
    PROVE  GateInv'
  <1> DEFINE i == req[r].owner
             a == req[r].action
  <1>1. i \in Instances /\ a \in RejectActions
    BY DEF InvokeReject, TypeInv, TypeOK, Request
  <1>2. CASE a \in gate[i]
    <2>1. UNCHANGED <<gate, req>> /\ \A q \in Runs : InFlight(q)' <=> InFlight(q)
      BY <1>2 DEF InvokeReject, Answer, Goto, InFlight, TypeInv, TypeOK, PCs
    <2> QED
      BY <2>1, GateFrame
  <1>3. CASE a \notin gate[i]
    <2>1. /\ UNCHANGED req
          /\ gate' = [gate EXCEPT ![i] = @ \cup {a}]
          /\ \A q \in Runs \ {r} : InFlight(q)' <=> InFlight(q)
          /\ ~InFlight(r) /\ InFlight(r)'
      BY <1>3 DEF InvokeReject, Goto, InFlight, TypeInv, TypeOK, PCs
    <2>2. \A q \in Runs : InFlight(q) => ~(req[q].owner = i /\ req[q].action = a)
      BY <1>1, <1>3 DEF GateInv, HoldsGate
    <2>3. \A j \in Instances : gate'[j] = IF j = i THEN gate[j] \cup {a} ELSE gate[j]
      BY <1>1, <2>1 DEF TypeInv, TypeOK
    <2>4. \A q \in Runs : InFlight(q)' => req[q].owner \in Instances
      <3>1. \A q \in Runs : InFlight(q) => req[q].owner \in Instances
        BY DEF InFlight, TypeInv, TypeOK, Request, PCs
      <3> QED
        BY <1>1, <2>1, <3>1
    <2>5. HoldsGate'
      BY <2>1, <2>3, <2>4 DEF GateInv, HoldsGate
    <2>6. RejectExclusive'
      BY <2>1, <2>2 DEF GateInv, RejectExclusive
    <2>7. GateHasHolder'
      <3> SUFFICES ASSUME NEW j \in Instances, NEW b \in gate'[j]
                   PROVE  \E q \in Runs : InFlight(q)' /\ req'[q].owner = j /\ req'[q].action = b
        BY DEF GateHasHolder
      <3>1. CASE b \in gate[j]
        <4>1. PICK q \in Runs : InFlight(q) /\ req[q].owner = j /\ req[q].action = b
          BY <3>1 DEF GateInv, GateHasHolder
        <4> QED
          BY <2>1, <4>1
      <3>2. CASE j = i /\ b = a
        BY <2>1, <3>2
      <3> QED
        BY <2>3, <3>1, <3>2
    <2> QED
      BY <2>5, <2>6, <2>7 DEF GateInv
  <1> QED
    BY <1>2, <1>3

(* finishRejectAction frees nobody's place but its own. *)
LEMMA GateFinish ==
    ASSUME TypeInv, GateInv, NEW r \in Runs, Finish(r)
    PROVE  GateInv'
  <1> DEFINE i == req[r].owner
             a == req[r].action
  <1>1. i \in Instances /\ InFlight(r)
    BY DEF Finish, InFlight, TypeInv, TypeOK, Request, PCs
  <1>2. /\ UNCHANGED req
        /\ gate' = [gate EXCEPT ![i] = @ \ {a}]
        /\ \A q \in Runs \ {r} : InFlight(q)' <=> InFlight(q)
        /\ ~InFlight(r)'
    BY DEF Finish, Answer, Goto, InFlight, TypeInv, TypeOK, PCs
  <1>3. \A j \in Instances : gate'[j] = IF j = i THEN gate[j] \ {a} ELSE gate[j]
    BY <1>1, <1>2 DEF TypeInv, TypeOK
  <1>4. \A q \in Runs \ {r} : InFlight(q) /\ req[q].action \in RejectActions
                              => ~(req[q].owner = i /\ req[q].action = a)
    BY <1>1 DEF GateInv, RejectExclusive
  <1>5. \A q \in Runs : InFlight(q) => req[q].owner \in Instances
    BY DEF InFlight, TypeInv, TypeOK, Request, PCs
  <1>6. HoldsGate'
    BY <1>2, <1>3, <1>4, <1>5 DEF GateInv, HoldsGate
  <1>7. RejectExclusive'
    BY <1>2 DEF GateInv, RejectExclusive
  <1>8. GateHasHolder'
    <2> SUFFICES ASSUME NEW j \in Instances, NEW b \in gate'[j]
                 PROVE  \E q \in Runs : InFlight(q)' /\ req'[q].owner = j /\ req'[q].action = b
      BY DEF GateHasHolder
    <2>1. b \in gate[j] /\ ~(j = i /\ b = a)
      BY <1>3
    <2>2. PICK q \in Runs : InFlight(q) /\ req[q].owner = j /\ req[q].action = b
      BY <2>1 DEF GateInv, GateHasHolder
    <2> QED
      BY <1>2, <2>1, <2>2
  <1> QED
    BY <1>6, <1>7, <1>8 DEF GateInv

(* A process takes its gate and its threads with it. *)
LEMMA GateDie ==
    ASSUME TypeInv, GateInv, NEW i \in Instances, Die(i)
    PROVE  GateInv'
  <1>1. UNCHANGED req /\ gate' = [gate EXCEPT ![i] = {}]
    BY DEF Die
  <1>2. \A q \in Runs : InFlight(q)' <=> InFlight(q) /\ req[q].owner # i
    BY DEF Die, InFlight, PCs
  <1>3. \A j \in Instances : gate'[j] = IF j = i THEN {} ELSE gate[j]
    BY <1>1 DEF TypeInv, TypeOK
  <1>4. \A q \in Runs : InFlight(q) => req[q].owner \in Instances
    BY DEF InFlight, TypeInv, TypeOK, Request, PCs
  <1>5. HoldsGate'
    BY <1>1, <1>2, <1>3, <1>4 DEF GateInv, HoldsGate
  <1>6. RejectExclusive'
    BY <1>1, <1>2 DEF GateInv, RejectExclusive
  <1>7. GateHasHolder'
    BY <1>1, <1>2, <1>3 DEF GateInv, GateHasHolder
  <1> QED
    BY <1>5, <1>6, <1>7 DEF GateInv

(* Every other step leaves the gate and who is in flight alone. *)
LEMMA GateNext == TypeInv /\ GateInv /\ [Next]_vars => GateInv'
  <1> SUFFICES ASSUME TypeInv, GateInv, [Next]_vars
               PROVE  GateInv'
    OBVIOUS
  <1> DEFINE Same == /\ UNCHANGED gate
                     /\ \A q \in Runs : InFlight(q)' <=> InFlight(q)
                     /\ \A q \in Runs : InFlight(q) => req'[q] = req[q]
  <1> USE DEF InFlight, Goto, service, threads, TypeInv, TypeOK, PCs
  <1>1. ASSUME NEW r \in Runs, Thread(r)
        PROVE  GateInv'
    <2>1. CASE InvokeAllow(r) \/ InvokeReject(r) \/ Finish(r)
      BY <2>1, GateInvokeAllow, GateInvokeReject, GateFinish
    <2>2. CASE Refuse(r)
      <3>1. Same
        BY <2>2 DEF Refuse, Answer
      <3> QED
        BY <3>1, GateFrame
    <2>3. CASE \/ \E now \in Times : CreateRun(r, now)
               \/ ReadCreated(r) \/ Start(r) \/ StartFails(r) \/ Complete(r)
      <3>1. Same
        BY <2>3 DEF CreateRun, ReadCreated, Start, StartFails, Complete
      <3> QED
        BY <3>1, GateFrame
    <2>4. CASE CreateRunFails(r) \/ ReadCreatedFails(r) \/ FinishRunFails(r)
      <3>1. Same
        BY <2>4 DEF CreateRunFails, ReadCreatedFails, FinishRunFails, Fail
      <3> QED
        BY <3>1, GateFrame
    <2>5. CASE Deadline(r) \/ Disconnected(r) \/ Classify(r)
      <3>1. Same
        BY <2>5 DEF Deadline, Disconnected, Interrupt, Classify
      <3> QED
        BY <3>1, GateFrame
    <2>6. CASE UpdateRun(r) \/ ReadUpdated(r)
      <3>1. Same
        BY <2>6 DEF UpdateRun, ReadUpdated
      <3> QED
        BY <3>1, GateFrame
    <2> QED
      BY <1>1, <2>1, <2>2, <2>3, <2>4, <2>5, <2>6 DEF Thread
  <1>2. ASSUME NEW r \in Runs, Environment(r)
        PROVE  GateInv'
    <2>1. Same
      BY <1>2 DEF Environment, Receive, CancelRequest, ProcessExit
    <2> QED
      BY <2>1, GateFrame
  <1>3. ASSUME NEW i \in Instances, Serve(i)
        PROVE  GateInv'
    <2>1. CASE Die(i)
      BY <2>1, GateDie
    <2>2. CASE ~Die(i)
      <3>1. Same
        BY <1>3, <2>2 DEF Serve, Exit, Crash, Open, ApplyRetention, ListInterrupted,
              CancelInterrupted, BootstrapFails, Listen, ListenFails, Shutdown, Drained,
              DrainTimesOut, ServeFails
      <3> QED
        BY <3>1, GateFrame
    <2> QED
      BY <2>1, <2>2
  <1>4. CASE UNCHANGED vars
    <2>1. Same
      BY <1>4 DEF vars
    <2> QED
      BY <2>1, GateFrame
  <1> QED
    BY <1>1, <1>2, <1>3, <1>4 DEF Next

(* With no invocation in flight and an empty gate there is nothing to hold. *)
LEMMA GateInit == Init => GateInv
  BY DEF Init, GateInv, HoldsGate, RejectExclusive, GateHasHolder, InFlight

(* Typing and the gate invariant hold together. *)
LEMMA GateInvariant == Spec => [](TypeInv /\ GateInv)
  BY TypeInit, TypeNext, GateInit, GateNext, PTL DEF Spec

(* In every service at most one invocation of a reject action is in flight,
   for any number of services, invocations and actions. *)
THEOREM RejectIsExclusive == Spec => []RejectExclusive
  <1>1. GateInv => RejectExclusive
    BY DEF GateInv
  <1> QED
    BY <1>1, GateInvariant, PTL

(* No path through invokeReject and execute, and no crash, leaves a key in
   rejectRunning without a thread that will delete it. *)
THEOREM GateNeverLeaks == Spec => []GateHasHolder
  <1>1. GateInv => GateHasHolder
    BY DEF GateInv
  <1> QED
    BY <1>1, GateInvariant, PTL

-----------------------------------------------------------------------------
(* Outcomes.  This holds however many services share the database: a second
   one may cancel the run of a living thread, but it marks what it wrote, and
   the thread writes over it what it saw. *)

(* The status s says how the child of r ended. *)
Fits(s, r) ==
    /\ s = "succeeded" => proc[r] = "ok"
    /\ s = "failed" => proc[r] \in {"none", "nonzero", "signalled"}
    /\ s = "timed_out" => proc[r] = "signalled" /\ req[r].action \in TimedActions
    /\ s = "cancelled" => proc[r] = "signalled" /\ RunCancelled(r)

(* From the start of the child to the row: what the thread knows, and that
   nothing written in its name can be overtaken by its child. *)
Outcome(r) ==
    /\ pc[r] \in {"idle", "received", "creating"} => db[r].status = "absent"
    /\ pc[r] \in {"idle", "received", "creating", "reading", "starting"} => proc[r] = "none"
    /\ pc[r] = "killed" => /\ res[r] = "timed_out" => req[r].action \in TimedActions
                           /\ res[r] = "cancelled" => RunCancelled(r)
    /\ pc[r] = "updating" => Fits(res[r], r) /\ proc[r] # "alive"
    /\ db[r].restarted => db[r].status \in {"cancelled", "pruned"}
    /\ db[r].status \in Terminal /\ ~db[r].restarted =>
          /\ Fits(db[r].status, r) /\ proc[r] # "alive"
          /\ pc[r] \in {"rereading", "finishing", "done", "lost"}

OutcomeInv == \A r \in Runs : Outcome(r)

(* A thread disturbs only the outcome of its own run. *)
LEMMA OutcomeThread ==
    ASSUME TypeInv, OutcomeInv, NEW r \in Runs, Thread(r)
    PROVE  OutcomeInv'
  <1> DEFINE Frame == /\ UNCHANGED <<req, ctx>>
                      /\ \A q \in Runs \ {r} : /\ pc'[q] = pc[q] /\ res'[q] = res[q]
                                               /\ proc'[q] = proc[q] /\ db'[q] = db[q]
                      /\ Outcome(r)'
  <1>0. SUFFICES Frame
    BY DEF OutcomeInv, Outcome, Fits, RunCancelled
  <1>t. /\ Outcome(r)
        /\ pc \in [Runs -> PCs] /\ db \in [Runs -> Row]
        /\ proc \in [Runs -> {"none", "alive"} \cup Exited]
        /\ res \in [Runs -> {"none", "running", "error"} \cup Terminal]
        /\ pc[r] = "killed" => res[r] \in {"timed_out", "cancelled"}
        /\ pc[r] \in {"updating", "rereading"} => res[r] \in Terminal
    BY DEF OutcomeInv, TypeInv, TypeOK, CarriesOutcome
  <1> USE DEF Goto, Carry, service, Terminal, Outcome, Fits, RunCancelled, Exited
  <1>1. CASE Refuse(r) \/ InvokeAllow(r) \/ InvokeReject(r)
    BY <1>1, <1>t DEF Refuse, InvokeAllow, InvokeReject, Answer
  <1>2. CASE \E now \in Times : CreateRun(r, now)
    BY <1>2, <1>t DEF CreateRun, CreateRow
  <1>3. CASE CreateRunFails(r) \/ ReadCreatedFails(r) \/ FinishRunFails(r)
    BY <1>3, <1>t DEF CreateRunFails, ReadCreatedFails, FinishRunFails, Fail
  <1>4. CASE ReadCreated(r)
    BY <1>4, <1>t DEF ReadCreated
  <1>5. CASE Start(r)
    BY <1>5, <1>t DEF Start
  <1>6. CASE StartFails(r)
    BY <1>6, <1>t DEF StartFails
  <1>7. CASE Complete(r)
    BY <1>7, <1>t DEF Complete, Completion
  <1>8. CASE Deadline(r)
    BY <1>8, <1>t DEF Deadline, Interrupt
  <1>9. CASE Disconnected(r)
    BY <1>9, <1>t DEF Disconnected, Interrupt
  <1>10. CASE Classify(r)
    BY <1>10, <1>t DEF Classify, Completion
  <1>11. CASE UpdateRun(r)
    <2>1. /\ db'[r].status = res[r] /\ db'[r].restarted = FALSE
          /\ \A q \in Runs \ {r} : db'[q] = db[q]
      BY <1>11, <1>t DEF UpdateRun, UpdateRow
    <2> QED
      BY <1>11, <1>t, <2>1 DEF UpdateRun
  <1>12. CASE ReadUpdated(r)
    BY <1>12, <1>t DEF ReadUpdated
  <1>13. CASE Finish(r)
    BY <1>13, <1>t DEF Finish, Answer
  <1> QED
    BY <1>1, <1>2, <1>3, <1>4, <1>5, <1>6, <1>7, <1>8, <1>9, <1>10, <1>11, <1>12,
       <1>13 DEF Thread

(* Clients only ever add a reason to cancel, children end once. *)
LEMMA OutcomeEnvironment ==
    ASSUME TypeInv, OutcomeInv, NEW r \in Runs, Environment(r)
    PROVE  OutcomeInv'
  <1>0. /\ pc \in [Runs -> PCs] /\ ctx \in [Runs -> {"live", "cancelled"}]
        /\ proc \in [Runs -> {"none", "alive"} \cup Exited]
        /\ req \in [Runs -> Request \cup {NoRequest}]
    BY DEF TypeInv, TypeOK
  <1> USE DEF Outcome, Fits, RunCancelled, Exited
  <1>1. CASE CancelRequest(r)
    BY <1>0, <1>1 DEF CancelRequest, OutcomeInv, service
  <1>2. ASSUME NEW how \in Exited, ProcessExit(r, how)
        PROVE  OutcomeInv'
    BY <1>0, <1>2 DEF ProcessExit, OutcomeInv, service
  <1>3. ASSUME NEW i \in Instances, NEW a \in Actions, NEW m \in {"sync", "async"},
               Receive(i, r, a, m)
        PROVE  OutcomeInv'
    <2>1. /\ UNCHANGED <<ctx, proc, res, db>> /\ pc[r] = "idle" /\ pc'[r] = "received"
          /\ \A q \in Runs \ {r} : pc'[q] = pc[q] /\ req'[q] = req[q]
      BY <1>0, <1>3 DEF Receive, Goto, service
    <2> QED
      BY <2>1 DEF OutcomeInv, Terminal
  <1> QED
    BY <1>1, <1>2, <1>3 DEF Environment

(* Recovery marks what it writes, retention writes no outcome, and a service
   that dies takes at most the living children along. *)
LEMMA OutcomeServe ==
    ASSUME TypeInv, OutcomeInv, NEW i \in Instances, Serve(i)
    PROVE  OutcomeInv'
  <1>0. db \in [Runs -> Row] /\ proc \in [Runs -> {"none", "alive"} \cup Exited]
    BY DEF TypeInv, TypeOK
  <1> USE DEF Outcome, Fits, RunCancelled, Exited
  <1>1. CASE Die(i)
    <2>1. /\ UNCHANGED <<req, ctx, db>>
          /\ \A r \in Runs : \/ pc'[r] = pc[r]
                             \/ pc'[r] = "lost" /\ pc[r] \notin {"idle", "done"}
      BY <1>1 DEF Die
    <2>2. \A r \in Runs : pc'[r] # "lost" => res'[r] = res[r]
      BY <1>1 DEF Die
    <2>3. \A r \in Runs : \/ proc'[r] = proc[r]
                          \/ proc[r] = "alive" /\ proc'[r] = "signalled"
      BY <1>1 DEF Die
    <2>4. ASSUME NEW r \in Runs
          PROVE  Outcome(r)'
      <3>1. Outcome(r)
        BY DEF OutcomeInv
      <3> QED
        BY <2>1, <2>2, <2>3, <3>1
    <2> QED
      BY <2>4 DEF OutcomeInv
  <1>2. ASSUME NEW cutoff \in Cutoffs, ApplyRetention(i, cutoff)
        PROVE  OutcomeInv'
    <2>1. UNCHANGED threads /\ db' = Retain(db, cutoff, MaxRuns)
      BY <1>2 DEF ApplyRetention
    <2>2. \A r \in Runs : /\ db'[r].restarted = db[r].restarted
                          /\ \/ db'[r].status = db[r].status
                             \/ db[r].status \in Terminal /\ db'[r].status = "pruned"
      BY <1>0, <2>1, RetainType
    <2> QED
      BY <2>1, <2>2 DEF OutcomeInv, threads, Terminal
  <1>3. ASSUME NEW r \in Runs, CancelInterrupted(i, r)
        PROVE  OutcomeInv'
    <2>1. UNCHANGED threads /\ r \in Present(db)
      BY <1>3 DEF CancelInterrupted
    <2>2. /\ db'[r].status = "cancelled" /\ db'[r].restarted = TRUE
          /\ \A q \in Runs \ {r} : db'[q] = db[q]
      BY <1>0, <1>3 DEF CancelInterrupted, UpdateRow
    <2> QED
      BY <2>1, <2>2 DEF OutcomeInv, threads, Present
  <1>4. CASE /\ ~Die(i) /\ ~(\E cutoff \in Cutoffs : ApplyRetention(i, cutoff))
             /\ ~(\E r \in Runs : CancelInterrupted(i, r))
    <2>1. UNCHANGED <<threads, db>>
      BY <1>4 DEF Serve, Exit, Crash, Open, ListInterrupted, BootstrapFails, Listen,
            ListenFails, Shutdown, Drained, DrainTimesOut, ServeFails
    <2> QED
      BY <2>1 DEF OutcomeInv, threads
  <1> QED
    BY <1>1, <1>2, <1>3, <1>4

(* The history says of every child how it ended, with any number of services
   on one database: Execution.StatusMatchesProcess. *)
THEOREM StatusTellsOutcome == Spec => []StatusMatchesProcess
  <1>1. Init => OutcomeInv
    BY DEF Init, OutcomeInv, Outcome, NoRow, Terminal
  <1>2. TypeInv /\ OutcomeInv /\ [Next]_vars => OutcomeInv'
    <2>1. UNCHANGED vars /\ OutcomeInv => OutcomeInv'
      BY DEF vars, OutcomeInv, Outcome, Fits, RunCancelled
    <2> QED
      BY <2>1, OutcomeThread, OutcomeEnvironment, OutcomeServe DEF Next
  <1>3. OutcomeInv => StatusMatchesProcess
    BY DEF OutcomeInv, Outcome, Fits, StatusMatchesProcess, Terminal
  <1> QED
    BY <1>1, <1>2, <1>3, TypeInit, TypeNext, PTL DEF Spec
=============================================================================
