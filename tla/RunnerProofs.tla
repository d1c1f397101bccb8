---------------------------- MODULE RunnerProofs ----------------------------
(***************************************************************************)
(* Theorems about execute, for any number of descendants, any output and   *)
(* any limit on its tail, whichever way exit, deadline, disconnect and     *)
(* kill meet.                                                              *)
(***************************************************************************)
EXTENDS Runner, TailBufferProofs

(* What the copies have handed over is a prefix of the output. *)
Stream == \A k \in 1..Len(stream) : stream[k] = k

(* Where the thread is tells what there is to wait for. *)
Place ==
    /\ status = "running" <=> pc # "done"
    /\ pc = "starting" => child = "none"
    /\ pc \notin {"starting", "done"} => child # "none"
    /\ waitCh = "taken" => pc = "done"
    /\ pc = "done" => child # "alive" /\ (child = "none" \/ waitCh = "taken")
    /\ child = "none" => /\ \A k \in Kin : kin[k] = "unborn"
                         /\ written = 0 /\ waitCh = "empty" /\ spared = {}

(* waitCh delivers when the output is complete, and it stays complete: whoever
   is left has no descriptor to pass on. *)
Drained ==
    waitCh # "empty" => child \in Exited /\ ~PipeOpen /\ Len(stream) = written

(* What ended the execution context. *)
Cause ==
    /\ execErr = "deadline" => timed
    /\ execErr = "cancelled" => runCtx = "cancelled"
    /\ runCtx = "cancelled" => sync /\ execErr # "none"
    /\ pc \in {"polling", "killing", "joining"} => execErr # "none"

(* After the kill only those it spared are left to fork into the group. *)
Killed ==
    pc = "joining" \/ status \in {"timed_out", "cancelled"} =>
        /\ child = "alive" => "child" \in spared
        /\ \A k \in Kin : kin[k] \in InGroup => k \in spared

(* What was stored is what the buffer holds for good. *)
Stored == status # "running" => tail = buf

RunnerInv ==
    /\ TailIsSuffix /\ Stream /\ Place /\ Drained /\ Cause /\ Killed /\ Stored
    /\ OutcomeSound

-----------------------------------------------------------------------------
(* Nothing has been started. *)
LEMMA RunnerInit == Init => TypeOK /\ RunnerInv
  <1> SUFFICES ASSUME Init
               PROVE  TypeOK /\ RunnerInv
    OBVIOUS
  <1>1. Len(stream) = 0 /\ buf = <<>> /\ stream = <<>> /\ limit \in Limits
    BY DEF Init, BufferInit
  <1>2. TailIsSuffix /\ Stream
    BY <1>1, LimitsAssumption DEF TailIsSuffix, Stream
  <1>3. TypeOK
    <2>1. BufferTypeOK /\ tail \in Seq(Bytes)
      BY <1>1 DEF Init, BufferTypeOK
    <2>2. written \in Len(stream)..MaxOutput
      BY <1>1, BoundsAssumption DEF Init
    <2> QED
      BY <2>1, <2>2, Zenon DEF Init, TypeOK
  <1>4. Place /\ Drained /\ Cause /\ Killed /\ Stored /\ OutcomeSound
    BY DEF Init, Place, Drained, Cause, Killed, Stored, OutcomeSound
  <1> QED
    BY <1>2, <1>3, <1>4 DEF RunnerInv

(* The bytes of a copy. *)
LEMMA CopiedBytes ==
    ASSUME TypeOK, NEW n \in 1..MaxWrite, Len(stream) + n <= written
    PROVE  LET p == [k \in 1..n |-> Len(stream) + k] IN p \in Seq(Bytes) /\ Len(p) = n
  <1> DEFINE N == Len(stream)
             p == [k \in 1..n |-> N + k]
  <1>1. N \in Nat /\ n \in Nat /\ written \in N..MaxOutput /\ MaxOutput \in Nat
    BY BoundsAssumption DEF TypeOK, BufferTypeOK
  <1> HIDE DEF N
  <1>2. \A k \in 1..n : N + k \in Bytes
    BY <1>1, OutputAssumption DEF N
  <1>3. p \in [1..n -> Bytes]
    BY <1>2
  <1>4. p \in Seq(Bytes) /\ Len(p) = n
    BY <1>1, <1>3
  <1> QED
    BY <1>4 DEF N

(* A copy goroutine at work; it has nothing to do once waitCh has delivered. *)
LEMMA RunnerCopy ==
    ASSUME TypeOK, RunnerInv, CopyOutput
    PROVE  TypeOK' /\ RunnerInv'
  <1>1. PICK n \in 1..MaxWrite : /\ Len(stream) + n <= written
                                 /\ Write([k \in 1..n |-> Len(stream) + k])
    BY DEF CopyOutput
  <1> DEFINE N == Len(stream)
             p == [k \in 1..n |-> N + k]
  <1>2. /\ N \in Nat /\ n \in Nat \ {0} /\ written \in N..MaxOutput /\ MaxOutput \in Nat
        /\ N + n <= written
    BY <1>1, BoundsAssumption DEF TypeOK, BufferTypeOK
  <1>3. p \in Seq(Bytes) /\ Len(p) = n
    BY <1>1, CopiedBytes
  <1>4. UNCHANGED <<timed, sync, pc, family, waitCh, contexts, result>>
    BY DEF CopyOutput
  <1>5. BufferTypeOK' /\ TailIsSuffix'
    BY <1>1, <1>3, WriteKeepsSuffix DEF TypeOK, RunnerInv
  <1>6. stream \in Seq(Bytes) /\ stream' = stream \o p
    BY <1>1 DEF Write, TypeOK, BufferTypeOK
  <1>7. \A k \in 1..n : p[k] = N + k
    OBVIOUS
  <1> HIDE DEF p
  <1>8. Len(stream') = N + n /\ Stream'
    <2>1. /\ Len(stream') = N + n /\ \A k \in 1..N : stream'[k] = stream[k]
          /\ \A k \in 1..n : stream'[N + k] = p[k]
      <3>1. \A b, c \in Seq(Bytes) : /\ Len(b \o c) = Len(b) + Len(c)
                                     /\ \A k \in 1..Len(b) : (b \o c)[k] = b[k]
                                     /\ \A k \in 1..Len(c) : (b \o c)[Len(b) + k] = c[k]
        BY AppendFacts
      <3> QED
        BY <1>3, <1>6, <3>1, Zenon
    <2> HIDE DEF N
    <2>2. ASSUME NEW k \in 1..(N + n)
          PROVE  stream'[k] = k
      <3>1. CASE k \in 1..N
        BY <2>1, <3>1 DEF RunnerInv, Stream, N
      <3>2. CASE k \notin 1..N
        <4>1. k - N \in 1..n /\ k = N + (k - N)
          BY <1>2, <3>2
        <4> QED
          BY <1>7, <2>1, <4>1
      <3> QED
        BY <3>1, <3>2
    <2> QED
      BY <2>1, <2>2 DEF Stream
  <1>9. waitCh = "empty" /\ child # "none"
    <2>1. Len(stream) # written /\ written # 0
      BY <1>2
    <2> QED
      BY <2>1 DEF RunnerInv, Drained, Place
  <1>10. status = "running"
    BY <1>9 DEF RunnerInv, Place
  <1>11. TypeOK'
    BY <1>2, <1>4, <1>5, <1>8 DEF TypeOK, family, contexts, result
  <1> QED
    BY <1>4, <1>5, <1>8, <1>9, <1>10, <1>11 DEF RunnerInv, Place, Drained, Cause, Killed, Stored,
       OutcomeSound, family, contexts, result

(* Without a copy the buffer stays as it is. *)
LEMMA BufferFrame ==
    ASSUME TypeOK, RunnerInv, UNCHANGED buffer
    PROVE  BufferTypeOK' /\ TailIsSuffix' /\ Stream' /\ stream' = stream /\ buf' = buf
  BY DEF TypeOK, RunnerInv, BufferTypeOK, TailIsSuffix, Stream, buffer

(* The processes.  A fork multiplies what its parent is, so a group that has
   been killed and a pipe that has been closed stay that way. *)
LEMMA RunnerFamily ==
    ASSUME TypeOK, RunnerInv, Family
    PROVE  TypeOK' /\ RunnerInv'
  <1>0. /\ Place /\ Drained /\ Cause /\ Killed /\ Stored /\ OutcomeSound
        /\ spared \subseteq Kin \cup {"child"}
        /\ child \in {"none", "alive"} \cup Exited
        /\ kin \in [Kin -> {"unborn", "dead"} \cup Living]
        /\ pc \in {"starting", "selecting", "polling", "killing", "joining", "done"}
    BY DEF RunnerInv, TypeOK
  <1>1. UNCHANGED family_rest
    BY DEF Family, ChildExits, Fork, Redirect, Escape, KinExits, WriteOutput
  <1>2. BufferTypeOK' /\ TailIsSuffix' /\ Stream' /\ stream' = stream /\ buf' = buf
    BY <1>1, BufferFrame DEF family_rest
  <1>3. UNCHANGED <<timed, sync, pc, waitCh, runCtx, execErr, status, tail>>
    BY <1>1 DEF family_rest, contexts, result
  <1>4. Cause' /\ Stored'
    BY <1>0, <1>2, <1>3 DEF Cause, Stored
  <1>5. SUFFICES /\ child' \in {"none", "alive"} \cup Exited
                 /\ kin' \in [Kin -> {"unborn", "dead"} \cup Living]
                 /\ spared' \subseteq Kin \cup {"child"}
                 /\ written' \in Len(stream)..MaxOutput
                 /\ Place' /\ Drained' /\ Killed' /\ OutcomeSound'
    <2>1. TypeOK'
      BY <1>2, <1>3, <1>5 DEF TypeOK
    <2> QED
      BY <1>2, <1>4, <1>5, <2>1 DEF RunnerInv
  <1> USE DEF Exited, Living, InGroup, HoldsPipe
  <1>6. ASSUME NEW how \in Exited, ChildExits(how)
        PROVE  /\ child' \in {"none", "alive"} \cup Exited
               /\ kin' = kin /\ written' = written /\ spared' = spared
               /\ Place' /\ Drained' /\ Killed' /\ OutcomeSound'
    BY <1>0, <1>2, <1>3, <1>6 DEF ChildExits, Place, Drained, Killed, OutcomeSound, PipeOpen
  <1>7. ASSUME NEW k \in Kin, Fork(k) \/ Redirect(k) \/ Escape(k) \/ KinExits(k)
        PROVE  /\ child' = child /\ written' = written
               /\ kin' \in [Kin -> {"unborn", "dead"} \cup Living]
               /\ spared' \subseteq Kin \cup {"child"}
               /\ Place' /\ Drained' /\ Killed' /\ OutcomeSound'
    <2>1. child' = child /\ written' = written
      BY <1>7 DEF Fork, Redirect, Escape, KinExits
    <2>2. \E v \in {"unborn", "dead"} \cup Living :
             /\ kin' = [kin EXCEPT ![k] = v]
             /\ spared' \in {spared, spared \cup {k}}
             /\ v \in InGroup => \/ child = "alive" /\ ("child" \in spared => k \in spared')
                                \/ \E q \in Kin : kin[q] \in InGroup /\ (q \in spared => k \in spared')
             /\ v \in HoldsPipe => child = "alive" \/ \E q \in Kin : kin[q] \in HoldsPipe
             /\ child = "alive" \/ \E q \in Kin : kin[q] # "unborn"
      <3>1. CASE Fork(k)
        <4>1. PICK p \in Kin \cup {"child"} :
                 /\ IF p = "child" THEN child = "alive" ELSE kin[p] \in Living
                 /\ kin' = [kin EXCEPT ![k] = IF p = "child" THEN "group" ELSE kin[p]]
                 /\ spared' = IF p \in spared THEN spared \cup {k} ELSE spared
          BY <3>1 DEF Fork
        <4>2. CASE p = "child"
          BY <4>1, <4>2
        <4>3. CASE p # "child"
          BY <4>1, <4>3
        <4> QED
          BY <4>2, <4>3
      <3>2. CASE Redirect(k)
        BY <3>2 DEF Redirect
      <3>3. CASE Escape(k)
        BY <3>3 DEF Escape
      <3>4. CASE KinExits(k)
        BY <3>4 DEF KinExits
      <3> QED
        BY <1>7, <3>1, <3>2, <3>3, <3>4
    <2>3. PICK v \in {"unborn", "dead"} \cup Living :
             /\ kin' = [kin EXCEPT ![k] = v]
             /\ spared' \in {spared, spared \cup {k}}
             /\ v \in InGroup => \/ child = "alive" /\ ("child" \in spared => k \in spared')
                                \/ \E q \in Kin : kin[q] \in InGroup /\ (q \in spared => k \in spared')
             /\ v \in HoldsPipe => child = "alive" \/ \E q \in Kin : kin[q] \in HoldsPipe
             /\ child = "alive" \/ \E q \in Kin : kin[q] # "unborn"
      BY <2>2
    <2>4. /\ kin' \in [Kin -> {"unborn", "dead"} \cup Living]
          /\ kin'[k] = v /\ \A q \in Kin \ {k} : kin'[q] = kin[q]
      BY <1>0, <2>3
    <2>5. child # "none"
      BY <1>0, <2>3 DEF Place
    <2>6. Place'
      BY <1>0, <1>3, <2>1, <2>5 DEF Place
    <2>7. Drained'
      BY <1>0, <1>2, <1>3, <2>1, <2>3, <2>4 DEF Drained, PipeOpen
    <2>8. Killed'
      BY <1>0, <1>3, <2>1, <2>3, <2>4 DEF Killed
    <2>9. OutcomeSound'
      BY <1>0, <1>3, <2>1 DEF OutcomeSound
    <2>10. spared' \subseteq Kin \cup {"child"}
      BY <1>0, <2>3
    <2> QED
      BY <2>1, <2>4, <2>6, <2>7, <2>8, <2>9, <2>10
  <1>8. ASSUME WriteOutput
        PROVE  /\ child' = child /\ kin' = kin /\ spared' = spared /\ written' \in Len(stream)..MaxOutput
               /\ Place' /\ Drained' /\ Killed' /\ OutcomeSound'
    <2>1. /\ child' = child /\ kin' = kin /\ spared' = spared /\ written' = written + 1
          /\ PipeOpen /\ written < MaxOutput
      BY <1>8 DEF WriteOutput
    <2>2. written' \in Len(stream)..MaxOutput
      BY <2>1, BoundsAssumption DEF TypeOK, BufferTypeOK
    <2>3. waitCh = "empty" /\ child # "none"
      BY <1>0, <2>1 DEF Drained, Place, PipeOpen
    <2> QED
      BY <1>0, <1>3, <2>1, <2>2, <2>3 DEF Place, Drained, Killed, OutcomeSound
  <1>9. written \in Len(stream)..MaxOutput
    BY DEF TypeOK
  <1> QED
    BY <1>0, <1>6, <1>7, <1>8, <1>9 DEF Family

(* cmd.Wait and the contexts. *)
LEMMA RunnerContexts ==
    ASSUME TypeOK, RunnerInv, WaitReturns \/ DeadlineFires \/ CallerCancels
    PROVE  TypeOK' /\ RunnerInv'
  <1>1. /\ UNCHANGED <<timed, sync, pc, family, buffer, result>>
        /\ Place /\ Drained /\ Cause /\ Killed /\ Stored /\ OutcomeSound
    BY DEF WaitReturns, DeadlineFires, CallerCancels, RunnerInv, contexts
  <1>2. BufferTypeOK' /\ TailIsSuffix' /\ Stream' /\ stream' = stream /\ buf' = buf
    BY <1>1, BufferFrame
  <1>3. UNCHANGED <<timed, sync, pc, child, kin, spared, written, status, tail>>
    BY <1>1 DEF family, result
  <1>4. /\ Killed' /\ Stored'
    BY <1>1, <1>2, <1>3 DEF Killed, Stored
  <1>5. CASE WaitReturns
    <2>1. /\ waitCh = "empty" /\ waitCh' = "full" /\ UNCHANGED <<runCtx, execErr>>
          /\ child \in Exited /\ ~PipeOpen /\ Len(stream) = written
      BY <1>5 DEF WaitReturns, contexts
    <2>2. TypeOK'
      BY <1>2, <1>3, <2>1 DEF TypeOK
    <2>3. Place' /\ Drained' /\ Cause' /\ OutcomeSound'
      BY <1>1, <1>2, <1>3, <2>1 DEF Place, Drained, Cause, OutcomeSound, PipeOpen, Exited
    <2> QED
      BY <1>2, <1>4, <2>2, <2>3 DEF RunnerInv
  <1>6. CASE DeadlineFires \/ CallerCancels
    <2>1. /\ UNCHANGED waitCh /\ pc # "done" /\ execErr' # "none"
          /\ \/ timed /\ execErr' = "deadline" /\ runCtx' = runCtx /\ execErr = "none"
             \/ /\ sync /\ runCtx' = "cancelled"
                /\ execErr' = IF execErr = "none" THEN "cancelled" ELSE execErr
      BY <1>6 DEF DeadlineFires, CallerCancels
    <2>2. TypeOK'
      BY <1>2, <1>3, <2>1 DEF TypeOK
    <2>3. Place' /\ Drained' /\ Cause' /\ OutcomeSound'
      BY <1>1, <1>2, <1>3, <2>1 DEF Place, Drained, Cause, OutcomeSound, PipeOpen
    <2> QED
      BY <1>2, <1>4, <2>2, <2>3 DEF RunnerInv
  <1> QED
    BY <1>5, <1>6

(* The thread. *)
LEMMA RunnerThread ==
    ASSUME TypeOK, RunnerInv, Thread
    PROVE  TypeOK' /\ RunnerInv'
  <1>0. /\ Place /\ Drained /\ Cause /\ Killed /\ Stored /\ OutcomeSound
        /\ pc \in {"starting", "selecting", "polling", "killing", "joining", "done"}
        /\ child \in {"none", "alive"} \cup Exited
        /\ kin \in [Kin -> {"unborn", "dead"} \cup Living]
        /\ execErr \in {"none", "deadline", "cancelled"} /\ runCtx \in {"live", "cancelled"}
    BY DEF RunnerInv, TypeOK
  <1>1. UNCHANGED <<timed, sync, written, buffer, runCtx, execErr>>
    BY DEF Thread, StartProcess, StartFails, Received, ContextDone, NothingReceived,
           terminateProcessGroup, terminateFails, KillAllBut, Joined, thread_rest, contexts
  <1>2. BufferTypeOK' /\ TailIsSuffix' /\ Stream' /\ stream' = stream /\ buf' = buf
    BY <1>1, BufferFrame
  <1>3. buf \in Seq(Bytes) /\ tail \in Seq(Bytes)
    BY DEF TypeOK, BufferTypeOK
  <1>4. SUFFICES /\ pc' \in {"starting", "selecting", "polling", "killing", "joining", "done"}
                 /\ child' \in {"none", "alive"} \cup Exited
                 /\ kin' \in [Kin -> {"unborn", "dead"} \cup Living]
                 /\ waitCh' \in {"empty", "full", "taken"} /\ spared' \subseteq Kin \cup {"child"}
                 /\ status' \in {"running", "succeeded", "failed", "timed_out", "cancelled"}
                 /\ tail' \in {tail, buf}
                 /\ Place' /\ Drained' /\ Cause' /\ Killed' /\ Stored' /\ OutcomeSound'
    <2>1. TypeOK'
      BY <1>1, <1>2, <1>3, <1>4 DEF TypeOK
    <2> QED
      BY <1>2, <1>4, <2>1 DEF RunnerInv
  <1>5. /\ waitCh \in {"empty", "full", "taken"} /\ spared \subseteq Kin \cup {"child"}
        /\ status \in {"running", "succeeded", "failed", "timed_out", "cancelled"}
    BY DEF TypeOK
  <1> USE DEF Exited, Living, InGroup, HoldsPipe, thread_rest, result, contexts,
              Place, Drained, Cause, Killed, Stored, OutcomeSound, PipeOpen
  <1>6. CASE StartProcess
    BY <1>0, <1>1, <1>2, <1>5, <1>6 DEF StartProcess
  <1>7. CASE StartFails
    BY <1>0, <1>1, <1>2, <1>5, <1>7 DEF StartFails, Record
  <1>8. CASE Received
    BY <1>0, <1>1, <1>2, <1>5, <1>8 DEF Received, Record, completionStatus
  <1>9. CASE ContextDone \/ NothingReceived
    BY <1>0, <1>1, <1>2, <1>5, <1>9 DEF ContextDone, NothingReceived
  <1>10. CASE terminateProcessGroup \/ terminateFails
    <2>1. PICK S \in SUBSET Members : pc = "killing" /\ KillAllBut(S)
      BY <1>10 DEF terminateProcessGroup, terminateFails
    <2>2. /\ pc = "killing" /\ pc' = "joining" /\ spared' = S
          /\ child' = IF "child" \in S THEN child ELSE Kill(child)
          /\ kin' = [q \in Kin |-> IF q \in Members \ S THEN "dead" ELSE kin[q]]
          /\ UNCHANGED <<waitCh, status, tail>>
      BY <2>1 DEF KillAllBut
    <2>3. /\ S \subseteq Kin \cup {"child"}
          /\ "child" \in S => child = "alive"
          /\ \A q \in Kin : q \in Members <=> kin[q] \in InGroup
      BY KinAssumption DEF Members
    <2>4. /\ kin' \in [Kin -> {"unborn", "dead"} \cup Living]
          /\ \A q \in Kin : kin'[q] = kin[q] \/ kin'[q] = "dead"
          /\ \A q \in Kin : kin'[q] \in InGroup => q \in S
      BY <1>0, <2>2, <2>3
    <2>5. /\ child # "none" /\ child' # "none" /\ child' \in {"alive"} \cup Exited
          /\ child' = child \/ (child = "alive" /\ child' = "signalled")
          /\ child' = "alive" => "child" \in S
      BY <1>0, <2>2 DEF Kill
    <2>6. Place' /\ Drained' /\ Cause' /\ Stored' /\ OutcomeSound'
      BY <1>0, <1>1, <1>2, <1>5, <2>2, <2>4, <2>5
    <2>7. Killed'
      BY <2>2, <2>4, <2>5
    <2> QED
      BY <1>5, <2>2, <2>3, <2>4, <2>5, <2>6, <2>7
  <1>11. CASE Joined
    BY <1>0, <1>1, <1>2, <1>5, <1>11 DEF Joined, Record, completionStatus, interruptedStatus
  <1> QED
    BY <1>6, <1>7, <1>8, <1>9, <1>10, <1>11 DEF Thread

LEMMA RunnerInvariant == Spec => [](TypeOK /\ RunnerInv)
  <1>1. TypeOK /\ RunnerInv /\ [Next]_vars => TypeOK' /\ RunnerInv'
    <2>1. ASSUME TypeOK, RunnerInv, UNCHANGED vars
          PROVE  TypeOK' /\ RunnerInv'
      <3>1. BufferTypeOK' /\ TailIsSuffix' /\ Stream' /\ stream' = stream /\ buf' = buf
        BY <2>1, BufferFrame DEF vars
      <3>2. TypeOK'
        BY <2>1, <3>1 DEF vars, TypeOK
      <3> QED
        BY <2>1, <3>1, <3>2 DEF vars, RunnerInv, Place, Drained, Cause, Killed, Stored,
           OutcomeSound, PipeOpen
    <2> QED
      BY <2>1, RunnerCopy, RunnerFamily, RunnerContexts, RunnerThread DEF Next
  <1> QED
    BY <1>1, RunnerInit, PTL DEF Spec

-----------------------------------------------------------------------------
(* Every reachable state of execute is well typed: Runner.TypeOK. *)
THEOREM RunnerTypeCorrect == Spec => []TypeOK
  BY RunnerInvariant, PTL

(* An exit code beats an interruption and an interruption is told from another
   by its cause, in every order of events: Runner.OutcomeSound. *)
THEOREM OutcomeIsSound == Spec => []OutcomeSound
  <1>1. RunnerInv => OutcomeSound
    BY DEF RunnerInv
  <1> QED
    BY <1>1, RunnerInvariant, PTL

(* Whoever is left in the process group of a run recorded as timed out or
   cancelled ran as another user when the group was killed, or descends from one
   who did, whether or not kill(-pid) reported it: Runner.NoGroupSurvivor. *)
THEOREM OwnGroupIsDead == Spec => []NoGroupSurvivor
  <1>1. RunnerInv => NoGroupSurvivor
    BY DEF RunnerInv, Killed, NoGroupSurvivor
  <1> QED
    BY <1>1, RunnerInvariant, PTL

(* The tail that is stored is the end of the whole output, byte for byte:
   Runner.TailsComplete. *)
THEOREM TailsAreComplete == Spec => []TailsComplete
  <1>1. ASSUME TypeOK, RunnerInv, status # "running"
        PROVE  /\ ~PipeOpen \/ child = "none"
               /\ Len(tail) = IF limit <= 0 THEN 0 ELSE IF written < limit THEN written ELSE limit
               /\ \A k \in 1..Len(tail) : tail[k] = written - Len(tail) + k
    <2>1. pc = "done" /\ tail = buf
      BY <1>1 DEF RunnerInv, Place, Stored
    <2>2. (~PipeOpen \/ child = "none") /\ Len(stream) = written
      <3>1. CASE child = "none"
        <4>1. written = 0 /\ written \in Len(stream)..MaxOutput /\ Len(stream) \in Nat
          BY <1>1, <3>1 DEF RunnerInv, Place, TypeOK, BufferTypeOK
        <4> QED
          BY <3>1, <4>1
      <3>2. CASE child # "none"
        BY <1>1, <2>1, <3>2 DEF RunnerInv, Place, Drained
      <3> QED
        BY <3>1, <3>2
    <2>3. Len(tail) = IF limit <= 0 THEN 0 ELSE IF written < limit THEN written ELSE limit
      BY <1>1, <2>1, <2>2 DEF RunnerInv, TailIsSuffix
    <2>4. limit \in Int /\ written \in Nat /\ Len(tail) \in Nat
      BY <1>1, <2>1, <2>2, LimitsAssumption DEF TypeOK, BufferTypeOK
    <2>5. ASSUME NEW k \in 1..Len(tail)
          PROVE  tail[k] = written - Len(tail) + k
      <3>1. tail[k] = stream[written - Len(tail) + k]
        BY <1>1, <2>1, <2>2 DEF RunnerInv, TailIsSuffix
      <3>2. written - Len(tail) + k \in 1..written
        BY <2>3, <2>4
      <3> QED
        BY <1>1, <2>2, <3>1, <3>2 DEF RunnerInv, Stream
    <2> QED
      BY <2>2, <2>3, <2>5
  <1>2. TypeOK /\ RunnerInv => TailsComplete
    BY <1>1 DEF TailsComplete
  <1> QED
    BY <1>2, RunnerInvariant, PTL

(* The buffer behind the pipe of a child is the end of what was copied:
   TailBuffer.TailIsSuffix, in Runner. *)
THEOREM RunnerTailIsSuffix == Spec => []TailIsSuffix
  <1>1. RunnerInv => TailIsSuffix
    BY DEF RunnerInv
  <1> QED
    BY <1>1, RunnerInvariant, PTL

-----------------------------------------------------------------------------
(* execute implements the thread of Execution: the steps of the thread, of
   waitCh and of the client, under the refinement mapping of Service. *)

LEMMA MapStart ==
    ASSUME RunnerInv, StartProcess
    PROVE  Service!Start(1)
  <1>1. /\ pc = "starting" /\ pc' = "selecting" /\ child' = "alive" /\ child = "none"
        /\ waitCh = "empty"
        /\ UNCHANGED <<timed, sync, waitCh, runCtx>>
    BY DEF StartProcess, RunnerInv, Place, thread_rest, contexts
  <1> QED
    BY <1>1 DEF Service!Start, Service!Goto, Service!service

LEMMA MapStartFails ==
    ASSUME RunnerInv, StartFails
    PROVE  Service!StartFails(1)
  <1>1. /\ pc = "starting" /\ pc' = "done" /\ child = "none" /\ child' = "none"
        /\ status' = "failed"
        /\ UNCHANGED <<timed, sync, waitCh, runCtx>>
    BY DEF StartFails, Record, RunnerInv, Place, thread_rest, contexts
  <1> QED
    BY <1>1 DEF Service!StartFails, Service!Goto, Service!Carry, Service!service

(* What Execution takes for the exit of the child. *)
LEMMA MapWait ==
    ASSUME RunnerInv, WaitReturns
    PROVE  Service!ProcessExit(1, child) /\ child \in Service!Exited
  <1>1. /\ waitCh = "empty" /\ waitCh' = "full" /\ child \in Exited
        /\ UNCHANGED <<timed, sync, pc, child, runCtx, execErr, status>>
    BY DEF WaitReturns, family, contexts, result
  <1> QED
    BY <1>1 DEF Exited, Service!Exited, Service!ProcessExit, Service!service

LEMMA MapReceived ==
    ASSUME RunnerInv, Received
    PROVE  Service!Complete(1)
  <1>1. /\ pc \in {"selecting", "polling"} /\ pc' = "done"
        /\ waitCh = "full" /\ waitCh' = "taken" /\ child \in Exited
        /\ status' = IF child = "ok" THEN "succeeded" ELSE "failed"
        /\ UNCHANGED <<timed, sync, child, runCtx>>
    BY DEF Received, Record, completionStatus, RunnerInv, Drained, thread_rest, contexts
  <1> QED
    BY <1>1 DEF Exited, Service!Exited, Service!Complete, Service!Completion, Service!Carry,
       Service!Goto, Service!service

(* The kill: whether or not it has ended the child, waitCh has not said so. *)
LEMMA MapKill ==
    ASSUME TypeOK, RunnerInv, terminateProcessGroup \/ terminateFails
    PROVE  Service!Deadline(1) \/ Service!Disconnected(1)
  <1>1. /\ pc = "killing" /\ pc' = "joining"
        /\ UNCHANGED <<timed, sync, waitCh, runCtx, execErr, status>>
        /\ child' \in {child, Kill(child)}
    BY DEF terminateProcessGroup, terminateFails, KillAllBut, contexts, result
  <1>2. child # "none" /\ execErr \in {"deadline", "cancelled"}
    BY <1>1 DEF TypeOK, RunnerInv, Place, Cause
  <1>3. child' # "none" /\ (waitCh = "empty" \/ child' = child)
    BY <1>1, <1>2 DEF Kill, RunnerInv, Drained, Exited
  <1>4. CASE execErr = "deadline"
    <2>1. timed
      BY <1>4 DEF RunnerInv, Cause
    <2> QED
      BY <1>1, <1>2, <1>3, <1>4, <2>1 DEF Service!Deadline, Service!Interrupt, Service!Carry,
         Service!Goto, Service!service
  <1>5. CASE execErr = "cancelled"
    <2>1. sync /\ runCtx = "cancelled"
      BY <1>5 DEF RunnerInv, Cause
    <2> QED
      BY <1>1, <1>2, <1>3, <1>5, <2>1 DEF Service!Disconnected, Service!RunCancelled,
         Service!Interrupt, Service!Carry, Service!Goto, Service!service
  <1> QED
    BY <1>2, <1>4, <1>5

LEMMA MapJoined ==
    ASSUME TypeOK, RunnerInv, Joined
    PROVE  Service!Classify(1)
  <1>1. /\ pc = "joining" /\ pc' = "done"
        /\ waitCh = "full" /\ waitCh' = "taken" /\ child \in Exited
        /\ status' = IF child = "signalled"
                     THEN IF timed /\ execErr = "deadline" /\ runCtx = "live"
                          THEN "timed_out" ELSE "cancelled"
                     ELSE IF child = "ok" THEN "succeeded" ELSE "failed"
        /\ UNCHANGED <<timed, sync, child, runCtx>>
    BY DEF Joined, Record, completionStatus, interruptedStatus, RunnerInv, Drained,
           thread_rest, contexts
  <1>2. /\ execErr = "deadline" => timed
        /\ execErr = "cancelled" => runCtx = "cancelled"
        /\ runCtx = "cancelled" => sync
        /\ execErr \in {"deadline", "cancelled"} /\ runCtx \in {"live", "cancelled"}
    BY <1>1 DEF TypeOK, RunnerInv, Cause
  <1> QED
    BY <1>1, <1>2 DEF Exited, Service!Exited, Service!Classify, Service!RunCancelled,
       Service!Completion, Service!Carry, Service!Goto, Service!service

LEMMA MapCancel ==
    ASSUME TypeOK, RunnerInv, CallerCancels
    PROVE  Service!CancelRequest(1)
  <1>1. /\ sync /\ runCtx' = "cancelled" /\ pc # "done"
        /\ UNCHANGED <<timed, sync, pc, child, waitCh, status>>
        /\ execErr' = IF execErr = "none" THEN "cancelled" ELSE execErr
    BY DEF CallerCancels, family, result
  <1>2. /\ pc \in {"starting", "selecting", "polling", "killing", "joining", "done"}
        /\ pc = "joining" => execErr # "none"
    BY DEF TypeOK, RunnerInv, Cause
  <1> QED
    BY <1>1, <1>2 DEF Service!CancelRequest, Service!HandlerActive, Service!service

(* What Execution does not see. *)
LEMMA MapStutter ==
    ASSUME TypeOK, RunnerInv,
           ContextDone \/ NothingReceived \/ Family \/ CopyOutput \/ DeadlineFires \/ UNCHANGED vars
    PROVE  UNCHANGED Service!vars
  <1>1. /\ UNCHANGED <<timed, sync, waitCh, runCtx, status>>
        /\ child' = child \/ (waitCh = "empty" /\ child # "none" /\ child' # "none")
        /\ \/ pc' = pc /\ (execErr' = execErr \/ execErr = "none")
           \/ {pc, pc'} \subseteq {"selecting", "polling", "killing"} /\ execErr' = execErr
    <2>1. CASE ContextDone \/ NothingReceived
      BY <2>1 DEF ContextDone, NothingReceived, thread_rest, contexts, result
    <2>2. CASE Family
      BY <2>2 DEF Family, ChildExits, Fork, Redirect, Escape, KinExits, WriteOutput, family_rest,
         contexts, result, RunnerInv, Drained, Exited
    <2>3. CASE CopyOutput \/ DeadlineFires \/ UNCHANGED vars
      BY <2>3 DEF CopyOutput, DeadlineFires, vars, family, contexts, result
    <2> QED
      BY <2>1, <2>2, <2>3
  <1>2. pc = "joining" => execErr # "none"
    BY DEF RunnerInv, Cause
  <1>3. pc \in {"starting", "selecting", "polling", "killing", "joining", "done"}
    BY DEF TypeOK
  <1> QED
    BY <1>1, <1>2, <1>3 DEF Service!vars

(* What Execution assumes of execute in one step or two is what execute does,
   whatever its goroutines, its child and the descendants of it interleave:
   Runner.ImplementsExecution. *)
THEOREM RunnerImplementsExecution == Spec => ImplementsExecution
  <1>1. ASSUME TypeOK, RunnerInv, [Next]_vars
        PROVE  [Service!Next]_(Service!vars)
    <2>1. Service!Thread(1) \/ Service!Environment(1) => Service!Next
      BY DEF Service!Next
    <2>2. CASE Thread /\ ~ContextDone /\ ~NothingReceived
      <3>1. \/ Service!Start(1) \/ Service!StartFails(1) \/ Service!Complete(1)
            \/ Service!Deadline(1) \/ Service!Disconnected(1) \/ Service!Classify(1)
        BY <1>1, <2>2, MapStart, MapStartFails, MapReceived, MapKill, MapJoined DEF Thread
      <3> QED
        BY <2>1, <3>1 DEF Service!Thread
    <2>3. CASE WaitReturns \/ CallerCancels
      BY <1>1, <2>1, <2>3, MapWait, MapCancel DEF Service!Environment
    <2>4. CASE \/ ContextDone \/ NothingReceived \/ Family \/ CopyOutput \/ DeadlineFires
               \/ UNCHANGED vars
      BY <1>1, <2>4, MapStutter
    <2> QED
      BY <1>1, <2>2, <2>3, <2>4 DEF Next
  <1>2. TypeOK /\ RunnerInv /\ [Next]_vars => [Service!Next]_(Service!vars)
    BY <1>1
  <1> QED
    BY <1>2, RunnerInvariant, PTL DEF Spec, ImplementsExecution
=============================================================================
