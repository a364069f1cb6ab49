---------------------------- MODULE WakeupProofs ----------------------------
(***************************************************************************)
(* WorkerJob's waits on j.cond, proved for any number of announces, upload *)
(* workers and chunks: run() in drainUploads and the handlers in gateWait  *)
(* never sleep once what they wait for has happened.                       *)
(***************************************************************************)
EXTENDS WorkerJobProofs

-----------------------------------------------------------------------------
(* NoLostWakeup, one waiter at a time. *)

RunAsleep == run = "asleep" => pending > 0 /\ ~failing /\ ~deadline

GatesAsleep ==
  \A a \in Announces : gate[a] = "asleep" =>
    names[a][pos[a]] \in disk \ acked /\ ~gateBroken

(* The two halves are the whole. *)
LEMMA Halves == NoLostWakeup <=> RunAsleep /\ GatesAsleep
  BY DEF NoLostWakeup, RunAsleep, GatesAsleep

-----------------------------------------------------------------------------
(* The three ways a step keeps the waits sound: it wakes the waiters, it leaves
   what they test alone, or it is the waiter that looks before it sleeps. *)

(* After a broadcast no handler is asleep. *)
LEMMA GatesWoken == WakeGates => GatesAsleep'
  BY DEF WakeGates, GatesAsleep

(* After a broadcast run() is not asleep either. *)
LEMMA AllWoken == Broadcast => RunAsleep' /\ GatesAsleep'
  <1>1. Broadcast => RunAsleep'
    BY DEF Broadcast, RunAsleep
  <1> QED
    BY <1>1, GatesWoken DEF Broadcast

(* run() goes on waiting for what it waited for. *)
LEMMA RunFrame ==
  ASSUME RunAsleep, run' = "asleep" => run = "asleep",
         UNCHANGED <<failing, deadline>>, pending > 0 => pending' > 0
  PROVE  RunAsleep'
  BY DEF RunAsleep

(* The handlers go on waiting while no chunk is deleted or ACKed and the job
   neither fails nor is cancelled nor ends. *)
LEMMA GatesFrame ==
  ASSUME GatesAsleep, UNCHANGED <<gate, names, pos, acked, state, failing, cancelState>>,
         disk \subseteq disk'
  PROVE  GatesAsleep'
  BY DEF GatesAsleep, gateBroken

(* abortFail and requestCancel change nothing, or wake everybody. *)
LEMMA AbortWakes ==
  ASSUME RunAsleep, GatesAsleep, abortFail,
         UNCHANGED <<names, pos, acked, state, cancelState, disk, pending, deadline>>
  PROVE  RunAsleep' /\ GatesAsleep'
  <1>1. CASE UNCHANGED <<failing, gate, run>>
    BY <1>1, RunFrame, GatesFrame
  <1>2. CASE Broadcast
    BY <1>2, AllWoken
  <1> QED
    BY <1>1, <1>2, Zenon DEF abortFail

(* A cancel request. *)
LEMMA CancelWakes ==
  ASSUME RunAsleep, GatesAsleep, NEW s, requestCancel(s),
         UNCHANGED <<names, pos, acked, state, failing, disk, pending, deadline>>
  PROVE  RunAsleep' /\ GatesAsleep'
  <1>1. CASE UNCHANGED <<cancelState, gate, run>>
    BY <1>1, RunFrame, GatesFrame
  <1>2. CASE Broadcast
    BY <1>2, AllWoken
  <1> QED
    BY <1>1, <1>2, Zenon DEF requestCancel

-----------------------------------------------------------------------------
(* run(): it sleeps only after it found uploads pending, and every state it
   publishes wakes the handlers. *)
LEMMA RunWaits == ASSUME IInv, RunAsleep, GatesAsleep, Run PROVE RunAsleep' /\ GatesAsleep'
  <1> USE DEF runFrame
  <1>1. CASE RunPreparing \/ RunRunning \/ RunSettle
    <2>1. RunAsleep'
      BY <1>1 DEF RunPreparing, RunRunning, RunSettle, RunAsleep
    <2>2. setState("PREPARING") \/ setState("RUNNING") \/ setState("DRAINING")
      BY <1>1 DEF RunPreparing, RunRunning, RunSettle
    <2>3. UNCHANGED <<state, gate>> \/ WakeGates
      BY <2>2 DEF setState
    <2>4. UNCHANGED <<names, pos, acked, failing, cancelState, disk>>
      BY <1>1 DEF RunPreparing, RunRunning, RunSettle
    <2> QED
      BY <2>1, <2>3, <2>4, GatesFrame, GatesWoken
  <1>2. CASE \/ RunPrepare \/ RunAbortCheck \/ RunStartPushers \/ RunStartProcess
             \/ RunWait \/ RunCloseIntake \/ RunDrain \/ RunVerdict
    <2>1. UNCHANGED <<gate, names, pos, acked, state, failing, cancelState, disk>>
      BY <1>2 DEF RunPrepare, RunAbortCheck, RunStartPushers, RunStartProcess,
                  RunWait, RunCloseIntake, RunDrain, RunVerdict
    <2>2. GatesAsleep'
      BY <2>1, GatesFrame
    <2>3. CASE RunDrain
      <3>1. /\ UNCHANGED <<pending, failing, deadline>>
            /\ run' = "asleep" => pending > 0 /\ ~failing /\ ~deadline
        BY <2>3 DEF RunDrain
      <3> QED
        BY <3>1, <2>2 DEF RunAsleep
    <2>4. CASE ~RunDrain
      <3>1. run' # "asleep"
        BY <1>2, <2>4 DEF RunPrepare, RunAbortCheck, RunStartPushers, RunStartProcess,
                          RunWait, RunCloseIntake, RunVerdict, finalizeWith
      <3> QED
        BY <3>1, <2>2 DEF RunAsleep
    <2> QED
      BY <2>2, <2>3, <2>4
  <1>3. CASE RunFinalize
    <2>1. WakeGates /\ run' = "close"
      BY <1>3 DEF RunFinalize
    <2> QED
      BY <2>1, GatesWoken DEF RunAsleep
  <1>4. CASE RunClose
    (* The job dir of a cancelled job is removed: its gate is broken already. *)
    <2>1. run' # "asleep" /\ UNCHANGED <<gate, names, pos, acked, state, failing, cancelState>>
      BY <1>4 DEF RunClose, jobVars, gateVars
    <2>2. CASE state \in Cancels
      <3>1. gateBroken
        BY <2>2 DEF gateBroken, isTerminal, Terminal, Cancels
      <3> QED
        BY <2>1, <3>1 DEF RunAsleep, GatesAsleep
    <2>3. CASE state \notin Cancels
      <3>1. disk' = disk
        BY <1>4, <2>3 DEF RunClose
      <3> QED
        BY <2>1, <3>1, GatesFrame DEF RunAsleep
    <2> QED
      BY <2>2, <2>3
  <1> QED
    BY <1>1, <1>2, <1>3, <1>4 DEF Run

(* The drain's timer, the watcher's consumer and the cancels. *)
LEMMA OtherWaits ==
  ASSUME IInv, RunAsleep, GatesAsleep,
         DrainDeadline \/ Consumer \/ MonitorLost \/ DeleteJob
  PROVE  RunAsleep' /\ GatesAsleep'
  <1>1. CASE DrainDeadline
    BY <1>1, AllWoken DEF DrainDeadline
  <1>2. CASE enqueue
    <2>1. UNCHANGED <<run, deadline, gate, names, pos, acked, state, failing, cancelState, disk>>
      BY <1>2 DEF enqueue, runVars, gateVars
    <2>2. pending' = pending \/ pending' = pending + 1
      BY <1>2 DEF enqueue
    <2>3. pending > 0 => pending' > 0
      BY <2>2 DEF IInv, TypeOK
    <2> QED
      BY <2>1, <2>3, RunFrame, GatesFrame
  <1>3. CASE Overflow \/ WatcherError
    BY <1>3, AbortWakes DEF Overflow, WatcherError, diskVars
  <1>4. CASE WatcherDrained
    BY <1>4, RunFrame, GatesFrame DEF WatcherDrained, jobVars, runVars, gateVars
  <1>5. CASE DeleteJob
    BY <1>5, CancelWakes DEF DeleteJob, diskVars
  <1>6. CASE MonitorLost
    BY <1>6, CancelWakes DEF MonitorLost, diskVars
  <1> QED
    BY <1>1, <1>2, <1>3, <1>4, <1>5, <1>6 DEF Consumer

(* The upload workers: an ACK or a failed upload wakes everybody, and the local
   copy that is deleted is of an ACKed chunk, which nobody waits for. *)
LEMMA UploaderWaits ==
  ASSUME IInv, RunAsleep, GatesAsleep, NEW u \in Uploaders, Uploader(u)
  PROVE  RunAsleep' /\ GatesAsleep'
  <1> USE DEF uploadFrame
  <1>1. CASE Dequeue(u)
    BY <1>1, RunFrame, GatesFrame DEF Dequeue
  <1>2. CASE putOnce(u)
    <2>1. UNCHANGED <<uploadFrame, failing, acked, pending, run, disk, gate>>
      BY <1>2, Zenon DEF putOnce
    <2> QED
      BY <2>1, RunFrame, GatesFrame
  <1>3. CASE Resolve(u)
    BY <1>3, AllWoken DEF Resolve
  <1>4. CASE RemoveLocal(u)
    <2>1. /\ UNCHANGED <<uploadFrame, failing, acked, pending, run, gate>>
          /\ disk' = disk \ {uploader[u].name} /\ uploader[u].at = "remove"
      BY <1>4 DEF RemoveLocal
    <2>2. uploader[u].name \in acked
      BY <2>1 DEF IInv, UploaderInv
    <2>3. GatesAsleep'
      BY <2>1, <2>2 DEF GatesAsleep, gateBroken
    <2> QED
      BY <2>1, <2>3, RunFrame
  <1>5. CASE AbortPush(u)
    BY <1>5, AbortWakes DEF AbortPush
  <1>6. CASE UploaderStop(u)
    BY <1>6, RunFrame, GatesFrame DEF UploaderStop
  <1> QED
    BY <1>1, <1>2, <1>3, <1>4, <1>5, <1>6 DEF Uploader

(* The transcoder writes chunks and posts announces; it deletes nothing. *)
LEMMA TranscoderWaits ==
  ASSUME IInv, RunAsleep, GatesAsleep, Transcoder
  PROVE  RunAsleep' /\ GatesAsleep'
  <1> USE DEF tcFrame, jobVars, runVars, diskVars, gateVars
  <1>1. CASE \/ \E c \in Chunks : OpenChunk(c) \/ FinishChunk(c) \/ TruncateChunk(c)
             \/ \E code \in Codes : Exit(code)
    <2>1. UNCHANGED <<tcFrame, gateVars>> /\ disk \subseteq disk'
      BY <1>1 DEF OpenChunk, FinishChunk, TruncateChunk, Exit
    <2> QED
      BY <2>1, RunFrame, GatesFrame
  <1>2. ASSUME NEW a \in Announces, NEW body \in AnnounceNames, PostAnnounce(a, body)
        PROVE  RunAsleep' /\ GatesAsleep'
    <2>1. /\ UNCHANGED <<gateFrame, pos>>
          /\ \A b \in Announces : gate'[b] = "asleep" =>
               gate[b] = "asleep" /\ names'[b] = names[b]
      BY <1>2 DEF PostAnnounce, IInv, TypeOK
    <2> QED
      BY <2>1, RunFrame DEF gateFrame, GatesAsleep, gateBroken
  <1> QED
    BY <1>1, <1>2 DEF Transcoder

(* A handler sleeps on a name only after it saw its chunk in the out dir,
   without ACK, in a job that may still upload it. *)
LEMMA HandlerWaits ==
  ASSUME IInv, RunAsleep, GatesAsleep, NEW a \in Announces, Handler(a)
  PROVE  RunAsleep' /\ GatesAsleep'
  <1>1. /\ UNCHANGED <<tcFrame, diskVars, names>>
        /\ \A b \in Announces \ {a} : gate'[b] = gate[b] /\ pos'[b] = pos[b]
    BY DEF Handler, GateCheck, AnnounceGone, Relay, passName, gateFrame, IInv, TypeOK
  <1> USE <1>1 DEF tcFrame, jobVars, runVars, diskVars
  <1>2. RunAsleep'
    BY RunFrame
  <1>3. gate'[a] = "asleep" => names[a][pos'[a]] \in disk \ acked /\ ~gateBroken
    <2>1. CASE GateCheck(a)
      <3> DEFINE name == names[a][pos[a]]
      <3>1. CASE name \in disk \ acked /\ ~gateBroken
        <4>1. UNCHANGED pos
          BY <2>1, <3>1, Zenon DEF GateCheck
        <4> QED
          BY <3>1, <4>1
      <3>2. CASE ~(name \in disk \ acked /\ ~gateBroken)
        <4>1. passName(a) \/ gate' = [gate EXCEPT ![a] = "refused"]
          BY <2>1, <3>2, Zenon DEF GateCheck
        <4>2. gate'[a] # "asleep"
          BY <2>1, <4>1 DEF GateCheck, passName, IInv, TypeOK
        <4> QED
          BY <4>2
      <3> QED
        BY <3>1, <3>2
    <2>2. CASE AnnounceGone(a) \/ Relay(a)
      BY <2>2 DEF AnnounceGone, Relay, IInv, TypeOK
    <2> QED
      BY <2>1, <2>2 DEF Handler
  <1> QED
    BY <1>2, <1>3 DEF GatesAsleep, gateBroken

-----------------------------------------------------------------------------
(* Every step keeps the waits sound. *)
LEMMA StepWaits == IInv /\ NoLostWakeup /\ [Next]_vars => NoLostWakeup'
  <1> SUFFICES ASSUME IInv, RunAsleep, GatesAsleep, [Next]_vars
               PROVE  RunAsleep' /\ GatesAsleep'
    BY Halves DEF NoLostWakeup, RunAsleep, GatesAsleep, gateBroken
  <1>1. CASE UNCHANGED vars
    BY <1>1, RunFrame, GatesFrame DEF vars, jobVars, runVars, diskVars, gateVars
  <1>2. CASE Next
    BY <1>2, RunWaits, OtherWaits, UploaderWaits, TranscoderWaits, HandlerWaits DEF Next
  <1> QED
    BY <1>1, <1>2

(* No wakeup of j.cond is lost: whoever sleeps in drainUploads still has an
   upload pending in a job that is not failing, and whoever sleeps in gateWait
   still waits for a chunk that is in the out dir and not ACKed.  With
   PendingExact an upload worker or the queue holds what run() waits for, which
   is the safety half of DrainEnds and HeldAnswered. *)
THEOREM NobodyOversleeps == Spec => []NoLostWakeup
  <1>1. Init => NoLostWakeup
    BY DEF Init, NoLostWakeup
  <1> QED
    BY <1>1, StepWaits, Invariant, PTL DEF Spec
=============================================================================
