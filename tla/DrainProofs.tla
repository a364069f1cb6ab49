---------------------------- MODULE DrainProofs ----------------------------
(***************************************************************************)
(* WorkerJob's accounting of uploads, proved for any finite set of upload  *)
(* workers: pending is exact, and a COMPLETED job has nothing queued or in *)
(* flight and, if its settle delay sufficed, every finished chunk is with  *)
(* masterd or was given up on.                                             *)
(***************************************************************************)
EXTENDS WorkerJobProofs, FiniteSetTheorems

-----------------------------------------------------------------------------
(* The inductive invariant, on top of WorkerJobProofs' IInv. *)

InFlight == {u \in Uploaders : uploader[u].at \in {"put", "ok", "err"}}

BeforeStart  == {"new", "prepare", "abortcheck", "pushers"}
BeforeSettle == BeforeStart \union {"spawn", "started", "wait", "settle"}

(* The upload workers and the transcoder live between the start of the pushers
   and the settle delay; before it the watcher is not closed. *)
StartInv ==
  /\ run \in BeforeStart => \A u \in Uploaders : uploader[u].at = "none"
  /\ run \in BeforeSettle => watcher # "closed" /\ ~intakeClosed
  /\ run \in BeforeSettle \ BeforeStart => watcher = "open"
  /\ tc = "running" => run \in {"started", "wait"}

(* drainUploads closes the intake before it looks at pending, and COMPLETED
   needs a drain that found nothing pending. *)
DrainInv ==
  /\ run \in {"drain", "asleep", "drained", "drainfailed"} => intakeClosed
  /\ run = "drained" => pending = 0
  /\ run \notin {"finalize", "close", "done"} => verdict.state # "COMPLETED"
  /\ verdict.state = "COMPLETED" => intakeClosed /\ pending = 0
  /\ run \in {"close", "done"} => state = verdict.state

(* After a settle delay that sufficed no event is left and none comes. *)
SettledInv ==
  settled => /\ run \notin BeforeSettle
             /\ events = <<>> /\ watcher = "closed"

(* The chunks in the hands of the upload workers. *)
InHand == {uploader[u].name : u \in InFlight}

(* Where a finished chunk may be. *)
Held == stored \union lost \union rangeOf(events) \union rangeOf(queue)
        \union InHand

(* Only a failing job drops the events of finished chunks, and a job that was
   failing when the uploads had drained is not COMPLETED. *)
HeldInv ==
  (settled \/ run \in BeforeSettle) /\ (~failing \/ verdict.state = "COMPLETED")
    => produced \subseteq Held

UploadInv == StartInv /\ PendingExact /\ DrainInv /\ SettledInv /\ HeldInv

-----------------------------------------------------------------------------
(* newJob: nothing is queued, nothing is finished. *)
LEMMA InitUploadInv == Init => UploadInv
  <1> SUFFICES ASSUME Init PROVE UploadInv
    OBVIOUS
  <1>1. StartInv /\ DrainInv /\ SettledInv /\ HeldInv
    BY DEF Init, StartInv, BeforeStart, BeforeSettle, DrainInv, SettledInv, HeldInv, Idle
  <1>2. InFlight = {}
    BY DEF Init, InFlight, Idle
  <1>3. pending = Len(queue) + Cardinality(InFlight)
    BY <1>2, FS_EmptySet DEF Init
  <1>4. PendingExact
    BY <1>3 DEF PendingExact, InFlight
  <1> QED
    BY <1>1, <1>4 DEF UploadInv

(* The workers that hold an upload are finitely many. *)
LEMMA FlightFinite ==
  \A S \in SUBSET Uploaders : IsFiniteSet(S) /\ Cardinality(S) \in Nat
  BY UploadersAssumption, FS_Subset, FS_CardinalityType

(* Once pending is exact it counts a finite set: it never goes below zero. *)
LEMMA PendingNat == IInv /\ PendingExact => pending \in Nat
  <1> SUFFICES ASSUME IInv, PendingExact PROVE pending \in Nat
    OBVIOUS
  <1>1. InFlight \subseteq Uploaders /\ pending = Len(queue) + Cardinality(InFlight)
    BY DEF PendingExact, InFlight
  <1>2. Len(queue) \in Nat
    BY DEF IInv, TypeOK
  <1> QED
    BY <1>1, <1>2, FlightFinite

(* Steps that move no upload. *)
LEMMA HeldFrame ==
  ASSUME PendingExact, UNCHANGED <<pending, queue, uploader, events, stored, lost>>
  PROVE  PendingExact' /\ Held' = Held
  BY DEF PendingExact, Held, InFlight, InHand, rangeOf

(* Steps that only wake waiters or make the job fail. *)
LEMMA UploadFrame ==
  ASSUME IInv, UploadInv, failing => failing', run' = run \/ (run = "asleep" /\ run' = "drain"),
         UNCHANGED <<verdict, state, pending, queue, uploader, intakeClosed, events, watcher,
                     tc, produced, stored, lost, settled>>
  PROVE  UploadInv'
  <1> USE DEF UploadInv
  <1>1. PendingExact' /\ Held' = Held
    BY HeldFrame
  <1>2. StartInv' /\ DrainInv' /\ SettledInv'
    BY DEF StartInv, DrainInv, SettledInv, BeforeStart, BeforeSettle
  <1>3. HeldInv'
    BY <1>1 DEF HeldInv, BeforeStart, BeforeSettle
  <1> QED
    BY <1>1, <1>2, <1>3

-----------------------------------------------------------------------------
(* run(): it starts the pushers, closes the intake, and takes COMPLETED only
   from a drain that found nothing pending. *)
LEMMA RunUploads == ASSUME IInv, UploadInv, Run PROVE UploadInv'
  <1> USE DEF IInv, UploadInv, EndInv, runFrame, setState, finalizeWith, terminalFor, isTerminal
  <1>1. CASE RunPreparing
    <2> USE <1>1 DEF RunPreparing
    <2>1. PendingExact' /\ Held' = Held
      BY HeldFrame
    <2>2. StartInv'
      BY DEF StartInv, BeforeStart, BeforeSettle
    <2>3. DrainInv'
      BY DEF DrainInv, PendingExact, TypeOK, Cancels, NoCancel
    <2>4. SettledInv'
      BY DEF SettledInv, StartInv, BeforeStart, BeforeSettle
    <2>5. HeldInv'
      BY <2>1, <2>3 DEF HeldInv, DrainInv, SettledInv, BeforeStart, BeforeSettle, TypeOK
    <2> QED
      BY <2>1, <2>2, <2>3, <2>4, <2>5
  <1>2. CASE RunPrepare
    <2> USE <1>2 DEF RunPrepare
    <2>1. PendingExact' /\ Held' = Held
      BY HeldFrame
    <2>2. StartInv'
      BY DEF StartInv, BeforeStart, BeforeSettle
    <2>3. DrainInv'
      BY DEF DrainInv, PendingExact, TypeOK, Cancels, NoCancel
    <2>4. SettledInv'
      BY DEF SettledInv, StartInv, BeforeStart, BeforeSettle
    <2>5. HeldInv'
      BY <2>1, <2>3 DEF HeldInv, DrainInv, SettledInv, BeforeStart, BeforeSettle, TypeOK
    <2> QED
      BY <2>1, <2>2, <2>3, <2>4, <2>5
  <1>3. CASE RunAbortCheck
    <2> USE <1>3 DEF RunAbortCheck
    <2>1. PendingExact' /\ Held' = Held
      BY HeldFrame
    <2>2. StartInv'
      BY DEF StartInv, BeforeStart, BeforeSettle
    <2>3. DrainInv'
      BY DEF DrainInv, PendingExact, TypeOK, Cancels, NoCancel
    <2>4. SettledInv'
      BY DEF SettledInv, StartInv, BeforeStart, BeforeSettle
    <2>5. HeldInv'
      BY <2>1, <2>3 DEF HeldInv, DrainInv, SettledInv, BeforeStart, BeforeSettle, TypeOK
    <2> QED
      BY <2>1, <2>2, <2>3, <2>4, <2>5
  <1>4. CASE RunStartPushers
    <2> USE <1>4 DEF RunStartPushers
    <2>1. \A u \in Uploaders : uploader'[u].at \in {"none", "idle"} /\ uploader[u].at = "none"
      BY DEF StartInv, BeforeStart, TypeOK
    <2>2. InFlight' = {} /\ InFlight = {}
      BY <2>1 DEF InFlight
    <2>3. PendingExact' /\ (produced \subseteq Held => (produced \subseteq Held)')
      BY <2>2 DEF PendingExact, InFlight, InHand, Held
    <2>4. StartInv'
      BY <2>1 DEF StartInv, BeforeStart, BeforeSettle
    <2>5. DrainInv' /\ SettledInv'
      BY DEF DrainInv, SettledInv, BeforeStart, BeforeSettle, TypeOK, Cancels, NoCancel
    <2>6. HeldInv'
      BY <2>3, <2>5 DEF HeldInv, DrainInv, SettledInv, BeforeStart, BeforeSettle
    <2> QED
      BY <2>3, <2>4, <2>5, <2>6
  <1>5. CASE RunStartProcess
    <2> USE <1>5 DEF RunStartProcess
    <2>1. PendingExact' /\ Held' = Held
      BY HeldFrame
    <2>2. StartInv'
      BY DEF StartInv, BeforeStart, BeforeSettle
    <2>3. DrainInv'
      BY DEF DrainInv, PendingExact, TypeOK, Cancels, NoCancel
    <2>4. SettledInv'
      BY DEF SettledInv, StartInv, BeforeStart, BeforeSettle
    <2>5. HeldInv'
      BY <2>1, <2>3 DEF HeldInv, DrainInv, SettledInv, BeforeStart, BeforeSettle, TypeOK
    <2> QED
      BY <2>1, <2>2, <2>3, <2>4, <2>5
  <1>6. CASE RunRunning
    <2> USE <1>6 DEF RunRunning
    <2>1. PendingExact' /\ Held' = Held
      BY HeldFrame
    <2>2. StartInv'
      BY DEF StartInv, BeforeStart, BeforeSettle
    <2>3. DrainInv'
      BY DEF DrainInv, PendingExact, TypeOK, Cancels, NoCancel
    <2>4. SettledInv'
      BY DEF SettledInv, StartInv, BeforeStart, BeforeSettle
    <2>5. HeldInv'
      BY <2>1, <2>3 DEF HeldInv, DrainInv, SettledInv, BeforeStart, BeforeSettle, TypeOK
    <2> QED
      BY <2>1, <2>2, <2>3, <2>4, <2>5
  <1>7. CASE RunWait
    <2> USE <1>7 DEF RunWait
    <2>1. PendingExact' /\ Held' = Held
      BY HeldFrame
    <2>2. StartInv'
      BY DEF StartInv, BeforeStart, BeforeSettle
    <2>3. DrainInv'
      BY DEF DrainInv, PendingExact, TypeOK, Cancels, NoCancel
    <2>4. SettledInv'
      BY DEF SettledInv, StartInv, BeforeStart, BeforeSettle
    <2>5. HeldInv'
      BY <2>1, <2>3 DEF HeldInv, DrainInv, SettledInv, BeforeStart, BeforeSettle, TypeOK
    <2> QED
      BY <2>1, <2>2, <2>3, <2>4, <2>5
  <1>8. CASE RunSettle
    <2> USE <1>8 DEF RunSettle
    <2>1. PendingExact' /\ Held' = Held
      BY HeldFrame
    <2>2. StartInv'
      BY DEF StartInv, BeforeStart, BeforeSettle
    <2>3. DrainInv'
      BY DEF DrainInv, PendingExact, TypeOK, Cancels, NoCancel
    <2>4. SettledInv'
      BY DEF SettledInv, StartInv, BeforeStart, BeforeSettle
    <2>5. HeldInv'
      BY <2>1, <2>3 DEF HeldInv, DrainInv, SettledInv, BeforeStart, BeforeSettle, TypeOK
    <2> QED
      BY <2>1, <2>2, <2>3, <2>4, <2>5
  <1>9. CASE RunCloseIntake
    <2> USE <1>9 DEF RunCloseIntake
    <2>1. PendingExact' /\ Held' = Held
      BY HeldFrame
    <2>2. StartInv'
      BY DEF StartInv, BeforeStart, BeforeSettle
    <2>3. DrainInv'
      BY DEF DrainInv, PendingExact, TypeOK, Cancels, NoCancel
    <2>4. SettledInv'
      BY DEF SettledInv, StartInv, BeforeStart, BeforeSettle
    <2>5. HeldInv'
      BY <2>1, <2>3 DEF HeldInv, DrainInv, SettledInv, BeforeStart, BeforeSettle, TypeOK
    <2> QED
      BY <2>1, <2>2, <2>3, <2>4, <2>5
  <1>10. CASE RunDrain
    <2> USE <1>10 DEF RunDrain
    <2>1. PendingExact' /\ Held' = Held
      BY HeldFrame
    <2>2. StartInv'
      BY DEF StartInv, BeforeStart, BeforeSettle
    <2>0. pending \in Nat
      BY PendingNat
    <2>3. DrainInv'
      BY <2>0 DEF DrainInv, TypeOK
    <2>4. SettledInv'
      BY DEF SettledInv, StartInv, BeforeStart, BeforeSettle
    <2>5. HeldInv'
      BY <2>1, <2>3 DEF HeldInv, DrainInv, SettledInv, BeforeStart, BeforeSettle, TypeOK
    <2> QED
      BY <2>1, <2>2, <2>3, <2>4, <2>5
  <1>11. CASE RunVerdict
    <2> USE <1>11 DEF RunVerdict
    <2>1. PendingExact' /\ Held' = Held
      BY HeldFrame
    <2>2. StartInv'
      BY DEF StartInv, BeforeStart, BeforeSettle
    <2>3. DrainInv'
      BY DEF DrainInv, PendingExact, TypeOK, Cancels, NoCancel
    <2>4. SettledInv'
      BY DEF SettledInv, StartInv, BeforeStart, BeforeSettle
    <2>a. verdict'.state = "COMPLETED" => ~failing
      BY DEF TypeOK, Cancels, NoCancel
    <2>5. HeldInv'
      BY <2>1, <2>a DEF HeldInv, BeforeStart, BeforeSettle
    <2> QED
      BY <2>1, <2>2, <2>3, <2>4, <2>5
  <1>12. CASE RunFinalize
    <2> USE <1>12 DEF RunFinalize
    <2>1. PendingExact' /\ Held' = Held
      BY HeldFrame
    <2>2. StartInv'
      BY DEF StartInv, BeforeStart, BeforeSettle
    <2>3. DrainInv'
      BY DEF DrainInv, PendingExact, TypeOK, Cancels, NoCancel
    <2>4. SettledInv'
      BY DEF SettledInv, StartInv, BeforeStart, BeforeSettle
    <2>5. HeldInv'
      BY <2>1, <2>3 DEF HeldInv, DrainInv, SettledInv, BeforeStart, BeforeSettle, TypeOK
    <2> QED
      BY <2>1, <2>2, <2>3, <2>4, <2>5
  <1>13. CASE RunClose
    <2> USE <1>13 DEF RunClose, jobVars, tcVars, gateVars
    <2>1. PendingExact' /\ Held' = Held
      BY HeldFrame
    <2>2. StartInv'
      BY DEF StartInv, BeforeStart, BeforeSettle
    <2>3. DrainInv'
      BY DEF DrainInv, PendingExact, TypeOK, Cancels, NoCancel
    <2>4. SettledInv'
      BY DEF SettledInv, StartInv, BeforeStart, BeforeSettle
    <2>5. HeldInv'
      BY <2>1, <2>3 DEF HeldInv, DrainInv, SettledInv, BeforeStart, BeforeSettle, TypeOK
    <2> QED
      BY <2>1, <2>2, <2>3, <2>4, <2>5
  <1> QED
    BY <1>1, <1>2, <1>3, <1>4, <1>5, <1>6, <1>7, <1>8, <1>9, <1>10, <1>11, <1>12, <1>13 DEF Run

-----------------------------------------------------------------------------
(* Sequences. *)
LEMMA RangeAppend ==
  ASSUME NEW q \in Seq(Chunks), NEW c \in Chunks
  PROVE  rangeOf(Append(q, c)) = rangeOf(q) \union {c}
  <1>1. /\ Len(Append(q, c)) = Len(q) + 1 /\ Len(q) \in Nat
        /\ \A i \in 1..Len(q) : Append(q, c)[i] = q[i]
        /\ Append(q, c)[Len(q) + 1] = c
    OBVIOUS
  <1> QED
    BY <1>1 DEF rangeOf

(* Receiving from the upload channel takes out the head and nothing else. *)
LEMMA RangeTail ==
  ASSUME NEW q \in Seq(Chunks), q # <<>>
  PROVE  rangeOf(q) \subseteq {Head(q)} \union rangeOf(Tail(q))
  <1>1. /\ Len(Tail(q)) = Len(q) - 1 /\ Len(q) \in Nat \ {0}
        /\ \A i \in 1..Len(Tail(q)) : Tail(q)[i] = q[i + 1]
        /\ Head(q) = q[1]
    OBVIOUS
  <1>2. ASSUME NEW i \in 1..Len(q), i # 1
        PROVE  i - 1 \in 1..Len(Tail(q)) /\ Tail(q)[i - 1] = q[i]
    <2>1. i - 1 \in 1..Len(Tail(q)) /\ i - 1 + 1 = i
      BY <1>1, <1>2
    <2> QED
      BY <1>1, <2>1
  <1>3. ASSUME NEW i \in 1..Len(q)
        PROVE  q[i] = Head(q) \/ q[i] \in rangeOf(Tail(q))
    BY <1>1, <1>2 DEF rangeOf
  <1> QED
    BY <1>3, Zenon DEF rangeOf

(* The watcher's consumer: what enqueue takes from the events is queued, lost
   or not wanted, and a job that is not failing wants all that is not ACKed. *)
LEMMA EnqueueUploads == ASSUME IInv, UploadInv, enqueue PROVE UploadInv'
  <1> USE DEF IInv, UploadInv, enqueue, runVars, tcVars, gateVars
  <1> DEFINE name == Head(events)
  <1>1. /\ name \in Chunks /\ queue \in Seq(Chunks) /\ events \in Seq(Chunks)
        /\ events # <<>> /\ events' = Tail(events)
    BY DEF TypeOK
  <1>2. rangeOf(events) \subseteq {name} \union rangeOf(events')
    BY <1>1, RangeTail
  <1>3. InFlight' = InFlight /\ InHand' = InHand
    BY DEF InFlight, InHand
  <1>4. CASE notWanted(name) /\ UNCHANGED <<queue, pending, consumer, lost>>
    <2>1. PendingExact'
      BY <1>4 DEF PendingExact
    <2>2. StartInv' /\ DrainInv' /\ SettledInv'
      BY <1>1, <1>4 DEF StartInv, DrainInv, SettledInv
    <2>3. ASSUME run \in BeforeSettle, ~failing, produced \subseteq Held
          PROVE  (produced \subseteq Held)'
      <3>1. name \in acked /\ acked \subseteq stored
        BY <1>4, <2>3 DEF notWanted, StartInv, EndInv, BeforeStart, BeforeSettle
      <3>2. rangeOf(queue') = rangeOf(queue) /\ UNCHANGED <<stored, lost, produced>>
        BY <1>4 DEF rangeOf
      <3> QED
        BY <1>2, <1>3, <2>3, <3>1, <3>2 DEF Held
    <2>4. HeldInv'
      BY <1>1, <2>3 DEF HeldInv, SettledInv, DrainInv, BeforeStart, BeforeSettle
    <2> QED
      BY <2>1, <2>2, <2>4
  <1>5. CASE /\ ~notWanted(name) /\ queue' = Append(queue, name) /\ pending' = pending + 1
             /\ UNCHANGED <<consumer, lost>>
    <2>1. Len(queue') = Len(queue) + 1 /\ Len(queue) \in Nat
      BY <1>1, <1>5
    <2>2. PendingExact'
      <3>1. pending' = Len(queue') + Cardinality(InFlight')
        <4>1. pending = Len(queue) + Cardinality(InFlight) /\ Cardinality(InFlight) \in Nat
          BY FlightFinite DEF PendingExact, InFlight
        <4> QED
          BY <1>3, <1>5, <2>1, <4>1
      <3> QED
        BY <3>1 DEF PendingExact, InFlight
    <2>3. StartInv' /\ DrainInv' /\ SettledInv'
      BY <1>1, <1>5 DEF StartInv, DrainInv, SettledInv, notWanted
    <2>4. produced \subseteq Held => (produced \subseteq Held)'
      BY <1>1, <1>2, <1>3, <1>5, RangeAppend DEF Held
    <2>5. HeldInv'
      BY <2>4 DEF HeldInv
    <2> QED
      BY <2>2, <2>3, <2>5
  <1>6. CASE /\ consumer' = "overflow" /\ lost' = lost \union {name}
             /\ UNCHANGED <<queue, pending>>
    <2>1. PendingExact'
      BY <1>6 DEF PendingExact
    <2>2. StartInv' /\ DrainInv' /\ SettledInv'
      BY <1>1, <1>6 DEF StartInv, DrainInv, SettledInv
    <2>3. produced \subseteq Held => (produced \subseteq Held)'
      <3>1. rangeOf(queue') = rangeOf(queue)
        BY <1>6 DEF rangeOf
      <3> QED
        BY <1>2, <1>3, <1>6, <3>1 DEF Held
    <2>4. HeldInv'
      BY <2>3 DEF HeldInv
    <2> QED
      BY <2>1, <2>2, <2>4
  <1> QED
    BY <1>4, <1>5, <1>6

(* The others that wake waiters or abort the job move no upload; events are
   thrown away only once the watcher is closed. *)
LEMMA OtherUploads ==
  ASSUME IInv, UploadInv, DrainDeadline \/ Consumer \/ MonitorLost \/ DeleteJob
  PROVE  UploadInv'
  <1>1. CASE DrainDeadline
    BY <1>1, UploadFrame DEF DrainDeadline, Broadcast, jobVars, diskVars, tcVars
  <1>2. CASE MonitorLost \/ DeleteJob
    BY <1>2, UploadFrame DEF MonitorLost, DeleteJob, requestCancel, Broadcast, diskVars
  <1>3. CASE enqueue
    BY <1>3, EnqueueUploads
  <1>4. CASE Overflow \/ WatcherError
    BY <1>4, UploadFrame DEF Overflow, WatcherError, abortFail, Broadcast, diskVars
  <1>5. CASE WatcherDrained
    <2> USE <1>5 DEF WatcherDrained, jobVars, runVars, tcVars, UploadInv
    <2>1. PendingExact'
      BY DEF PendingExact
    <2>2. StartInv' /\ DrainInv' /\ SettledInv'
      BY DEF StartInv, DrainInv, SettledInv
    <2>3. run \notin BeforeSettle
      BY DEF StartInv
    <2>4. settled => Held' = Held
      BY DEF SettledInv, Held, InFlight, InHand, rangeOf
    <2>5. HeldInv'
      BY <2>3, <2>4 DEF HeldInv
    <2> QED
      BY <2>1, <2>2, <2>5
  <1> QED
    BY <1>1, <1>2, <1>3, <1>4, <1>5 DEF Consumer

-----------------------------------------------------------------------------
(* The upload workers. *)

(* What a step of worker u owes when it leaves the queue alone: the count goes
   with the set of busy workers, and the chunk in its hands stays accounted. *)
LEMMA WorkerFrame ==
  ASSUME IInv, UploadInv, failing => failing',
         run' = run \/ (run = "asleep" /\ run' = "drain"),
         UNCHANGED <<verdict, state, intakeClosed, events, watcher, tc, produced, settled>>,
         stored \subseteq stored', lost \subseteq lost',
         PendingExact', pending' <= pending,
         run \notin BeforeStart,
         rangeOf(queue) \union InHand
           \subseteq rangeOf(queue') \union InHand'
                     \union stored' \union lost',
         IInv'
  PROVE  UploadInv'
  <1>1. pending \in Nat
    BY PendingNat DEF UploadInv
  <1>2. pending' \in Nat
    <2>1. InFlight' \subseteq Uploaders /\ pending' = Len(queue') + Cardinality(InFlight')
      BY DEF PendingExact, InFlight
    <2>2. Len(queue') \in Nat
      BY DEF IInv, TypeOK
    <2> QED
      BY <2>1, <2>2, FlightFinite
  <1>3. StartInv'
    BY DEF UploadInv, StartInv, BeforeStart, BeforeSettle
  <1>4. DrainInv'
    BY <1>1, <1>2 DEF UploadInv, DrainInv
  <1>5. SettledInv'
    BY DEF UploadInv, SettledInv, BeforeStart, BeforeSettle
  <1>6. rangeOf(events') = rangeOf(events)
    BY DEF rangeOf
  <1>7. produced \subseteq Held => (produced \subseteq Held)'
    BY <1>6 DEF Held
  <1>8. HeldInv'
    BY <1>7 DEF UploadInv, HeldInv, BeforeStart, BeforeSettle
  <1> QED
    BY <1>3, <1>4, <1>5, <1>8 DEF UploadInv

(* An upload worker: its chunk is in one place, in the channel, in its hands
   or resolved, and pending falls by one when it is resolved. *)
LEMMA UploaderUploads ==
  ASSUME IInv, UploadInv, NEW u \in Uploaders, Uploader(u), IInv'
  PROVE  UploadInv'
  <1>t. /\ uploader \in [Uploaders -> [at : UploaderPcs, name : Chunks \union {"no"}, attempt : Nat]]
        /\ queue \in Seq(Chunks) /\ pending \in Int
    BY DEF IInv, TypeOK
  <1>s. run \notin BeforeStart
    <2>1. uploader[u].at # "none"
      BY DEF Uploader, Dequeue, putOnce, Resolve, RemoveLocal, AbortPush, UploaderStop
    <2> QED
      BY <2>1 DEF UploadInv, StartInv
  <1>n. pending = Len(queue) + Cardinality(InFlight) /\ Cardinality(InFlight) \in Nat
        /\ IsFiniteSet(InFlight) /\ Len(queue) \in Nat
    BY <1>t, FlightFinite DEF UploadInv, PendingExact, InFlight
  <1>1. CASE Dequeue(u)
    <2> USE <1>1 DEF Dequeue, uploadFrame
    <2>1. /\ uploader'[u] = [at |-> "put", name |-> Head(queue), attempt |-> 0]
          /\ \A v \in Uploaders : v # u => uploader'[v] = uploader[v]
      BY <1>t
    <2>2. InFlight' = InFlight \union {u} /\ u \notin InFlight
      BY <2>1 DEF InFlight
    <2>3. Cardinality(InFlight') = Cardinality(InFlight) + 1
      BY <1>n, <2>2, FS_AddElement
    <2>4. Len(queue') = Len(queue) - 1
      BY <1>t
    <2>5. pending' = Len(queue') + Cardinality(InFlight')
      BY <1>n, <2>3, <2>4
    <2>6. PendingExact'
      BY <2>5 DEF PendingExact, InFlight
    <2>7. rangeOf(queue) \subseteq {Head(queue)} \union rangeOf(queue')
      BY <1>t, RangeTail
    <2>8. InHand \union {Head(queue)} \subseteq InHand'
      BY <2>1, <2>2 DEF InFlight, InHand
    <2> QED
      BY <1>t, <1>s, <2>6, <2>7, <2>8, WorkerFrame
  <1>2. CASE putOnce(u)
    <2>1. /\ \A v \in Uploaders : v # u => uploader'[v] = uploader[v]
          /\ uploader'[u].name = uploader[u].name /\ uploader'[u].at \in {"put", "ok", "err"}
          /\ uploader[u].at = "put" /\ stored \subseteq stored'
      BY <1>2, <1>t DEF putOnce, resolved, retry
    <2>2. InFlight' = InFlight /\ InHand' = InHand
      BY <2>1 DEF InFlight, InHand
    <2>3. UNCHANGED <<pending, queue, lost, failing, run>> /\ rangeOf(queue') = rangeOf(queue)
      BY <1>2 DEF putOnce, rangeOf
    <2>4. PendingExact'
      <3>1. pending' = Len(queue') + Cardinality(InFlight')
        BY <1>n, <2>2, <2>3
      <3> QED
        BY <3>1 DEF PendingExact, InFlight
    <2> QED
      BY <1>2, <1>t, <1>s, <2>1, <2>2, <2>3, <2>4, WorkerFrame DEF putOnce, uploadFrame
  <1>3. CASE Resolve(u)
    <2> USE <1>3 DEF Resolve, uploadFrame
    <2>1. /\ \A v \in Uploaders : v # u => uploader'[v] = uploader[v]
          /\ uploader'[u].at \in {"remove", "abort"}
      BY <1>t DEF resolved
    <2>2. InFlight' = InFlight \ {u} /\ u \in InFlight
      BY <2>1 DEF InFlight
    <2>3. Cardinality(InFlight') = Cardinality(InFlight) - 1
      BY <1>n, <2>2, FS_RemoveElement
    <2>4. pending' = Len(queue') + Cardinality(InFlight')
      BY <1>n, <2>3
    <2>5. PendingExact'
      BY <2>4 DEF PendingExact, InFlight
    <2>6. uploader[u].name \in stored' \union lost'
      BY DEF IInv, UploaderInv
    <2>7. InHand \subseteq InHand' \union {uploader[u].name}
      BY <2>1, <2>2 DEF InFlight, InHand
    <2>8. rangeOf(queue') = rangeOf(queue)
      BY DEF rangeOf
    <2> QED
      BY <1>t, <1>s, <2>5, <2>6, <2>7, <2>8, WorkerFrame DEF Broadcast
  <1>4. CASE RemoveLocal(u) \/ AbortPush(u) \/ UploaderStop(u)
    <2>1. /\ \A v \in Uploaders : v # u => uploader'[v] = uploader[v]
          /\ uploader[u].at \in {"remove", "abort", "idle"}
          /\ uploader'[u].at \in {"idle", "stopped"}
      BY <1>4, <1>t DEF RemoveLocal, AbortPush, UploaderStop, resolved, Idle
    <2>2. InFlight' = InFlight /\ InHand' = InHand
      BY <2>1 DEF InFlight, InHand
    <2>3. UNCHANGED <<pending, queue, lost, stored>> /\ rangeOf(queue') = rangeOf(queue)
      BY <1>4 DEF RemoveLocal, AbortPush, UploaderStop, rangeOf
    <2>4. PendingExact'
      <3>1. pending' = Len(queue') + Cardinality(InFlight')
        BY <1>n, <2>2, <2>3
      <3> QED
        BY <3>1 DEF PendingExact, InFlight
    <2>5. (failing => failing') /\ (run' = run \/ (run = "asleep" /\ run' = "drain"))
      BY <1>4 DEF RemoveLocal, AbortPush, UploaderStop, abortFail, Broadcast
    <2>6. UNCHANGED <<verdict, state, intakeClosed, events, watcher, tc, produced, settled>>
      BY <1>4 DEF RemoveLocal, AbortPush, UploaderStop, uploadFrame
    <2> QED
      BY <1>t, <1>s, <2>2, <2>3, <2>4, <2>5, <2>6, WorkerFrame
  <1> QED
    BY <1>1, <1>2, <1>3, <1>4 DEF Uploader

-----------------------------------------------------------------------------
(* The transcoder writes while the watcher is open: the close of a finished
   chunk is an event. *)
LEMMA TranscoderUploads ==
  ASSUME IInv, UploadInv, Transcoder
  PROVE  UploadInv'
  <1> USE DEF tcFrame, jobVars, runVars, gateVars, diskVars
  <1>1. ASSUME NEW c \in Chunks, OpenChunk(c) PROVE UploadInv'
    BY <1>1, UploadFrame DEF OpenChunk
  <1>2. ASSUME NEW c \in Chunks, FinishChunk(c) PROVE UploadInv'
    <2> USE <1>2 DEF FinishChunk, closeWrite, UploadInv
    <2>1. run \in {"started", "wait"} /\ watcher = "open"
      BY DEF StartInv, BeforeStart, BeforeSettle
    <2>2. events \in Seq(Chunks) /\ events' = Append(events, c)
      BY <2>1 DEF IInv, TypeOK
    <2>3. rangeOf(events') = rangeOf(events) \union {c}
      BY <2>2, RangeAppend
    <2>4. PendingExact'
      BY DEF PendingExact
    <2>5. StartInv' /\ DrainInv' /\ SettledInv'
      BY <2>1 DEF StartInv, DrainInv, SettledInv
    <2>6. rangeOf(queue') = rangeOf(queue)
          /\ InHand' = InHand
      BY DEF rangeOf, InFlight, InHand
    <2>7. produced \subseteq Held => (produced \subseteq Held)'
      BY <2>3, <2>6 DEF Held
    <2>8. HeldInv'
      BY <2>7 DEF HeldInv
    <2> QED
      BY <2>4, <2>5, <2>8
  <1>3. ASSUME NEW c \in Chunks, TruncateChunk(c) PROVE UploadInv'
    <2> USE <1>3 DEF TruncateChunk, closeWrite, UploadInv
    <2>1. events \in Seq(Chunks)
      BY DEF IInv, TypeOK
    <2>2. rangeOf(events) \subseteq rangeOf(events')
      BY <2>1, RangeAppend
    <2>3. PendingExact'
      BY DEF PendingExact
    <2>4. StartInv' /\ DrainInv' /\ SettledInv'
      BY DEF StartInv, DrainInv, SettledInv
    <2>5. rangeOf(queue') = rangeOf(queue)
          /\ InHand' = InHand
      BY DEF rangeOf, InFlight, InHand
    <2>6. produced \subseteq Held => (produced \subseteq Held)'
      BY <2>2, <2>5 DEF Held
    <2>7. HeldInv'
      BY <2>6 DEF HeldInv
    <2> QED
      BY <2>3, <2>4, <2>7
  <1>4. ASSUME NEW code \in Codes, Exit(code) PROVE UploadInv'
    <2> USE <1>4 DEF Exit, UploadInv
    <2>1. PendingExact' /\ Held' = Held
      BY HeldFrame
    <2>2. StartInv' /\ DrainInv' /\ SettledInv' /\ HeldInv'
      BY <2>1 DEF StartInv, DrainInv, SettledInv, HeldInv
    <2> QED
      BY <2>1, <2>2
  <1>5. ASSUME NEW a \in Announces, NEW body \in AnnounceNames, PostAnnounce(a, body)
        PROVE  UploadInv'
    BY <1>5, UploadFrame DEF PostAnnounce, gateFrame
  <1> QED
    BY <1>1, <1>2, <1>3, <1>4, <1>5 DEF Transcoder

(* Every step of the job keeps the invariant of the uploads. *)
LEMMA StepUploadInv == IInv /\ IInv' /\ UploadInv /\ [Next]_vars => UploadInv'
  <1> SUFFICES ASSUME IInv, IInv', UploadInv, [Next]_vars PROVE UploadInv'
    OBVIOUS
  <1>1. CASE UNCHANGED vars
    BY <1>1, UploadFrame DEF vars, jobVars, runVars, diskVars, tcVars
  <1>2. CASE Run
    BY <1>2, RunUploads
  <1>3. CASE DrainDeadline \/ Consumer \/ MonitorLost \/ DeleteJob
    BY <1>3, OtherUploads
  <1>4. CASE Transcoder
    BY <1>4, TranscoderUploads
  <1>5. ASSUME NEW u \in Uploaders, Uploader(u) PROVE UploadInv'
    BY <1>5, UploaderUploads
  <1>6. ASSUME NEW a \in Announces, Handler(a) PROVE UploadInv'
    BY <1>6, UploadFrame DEF Handler, GateCheck, AnnounceGone, Relay, gateFrame, tcFrame,
       jobVars, runVars, diskVars
  <1> QED
    BY <1>1, <1>2, <1>3, <1>4, <1>5, <1>6 DEF Next

-----------------------------------------------------------------------------
(* The accounting of uploads holds throughout, through failures, cancels and
   deadlines (enqueue, uploadWorker, drainUploads). *)
THEOREM UploadInvariant == Spec => []UploadInv
  BY Invariant, InitUploadInv, StepUploadInv, PTL DEF Spec

(* j.pending is the number of uploads queued or in the hands of a worker, in
   every state (enqueue, uploadWorker): the drain waits for all of them and for
   nothing else. *)
THEOREM PendingIsExact == Spec => []PendingExact
  <1>1. UploadInv => PendingExact
    BY DEF UploadInv
  <1> QED
    BY <1>1, UploadInvariant, PTL

(* A COMPLETED job has nothing pending, so nothing queued or in flight. *)
LEMMA CompletedEmpty ==
  ASSUME IInv, UploadInv, state = "COMPLETED"
  PROVE  queue = <<>> /\ InFlight = {} /\ verdict.state = "COMPLETED"
  <1>1. verdict.state = "COMPLETED" /\ pending = 0
    BY DEF IInv, EndInv, isTerminal, Terminal, UploadInv, DrainInv
  <1>2. pending = Len(queue) + Cardinality(InFlight) /\ InFlight \subseteq Uploaders
    BY DEF UploadInv, PendingExact, InFlight
  <1>3. Len(queue) \in Nat /\ Cardinality(InFlight) \in Nat /\ IsFiniteSet(InFlight)
    BY <1>2, FlightFinite DEF IInv, TypeOK
  <1>4. Len(queue) = 0 /\ Cardinality(InFlight) = 0
    BY <1>1, <1>2, <1>3
  <1>5. queue = <<>>
    BY <1>4 DEF IInv, TypeOK
  <1>6. InFlight = {}
    BY <1>3, <1>4, FS_EmptySet
  <1> QED
    BY <1>1, <1>5, <1>6

(* COMPLETED means drained, whatever the watcher delivers after the intake is
   closed (drainUploads, finalize). *)
THEOREM CompletedIsDrained == Spec => []CompletedDrained
  <1>1. IInv /\ UploadInv => CompletedDrained
    BY CompletedEmpty DEF CompletedDrained, InFlight
  <1> QED
    BY <1>1, Invariant, UploadInvariant, PTL

(* A COMPLETED job whose settle delay sufficed has every finished chunk with
   masterd, but for those it gave up on (run, enqueue, uploadWorker). *)
THEOREM CompletedIsAccounted == Spec => []CompletedAccounted
  <1>1. IInv /\ UploadInv => CompletedAccounted
    <2> SUFFICES ASSUME IInv, UploadInv, state = "COMPLETED", settled
                 PROVE  produced \subseteq stored \union lost
      BY DEF CompletedAccounted
    <2>1. queue = <<>> /\ InFlight = {} /\ verdict.state = "COMPLETED" /\ events = <<>>
      BY CompletedEmpty DEF UploadInv, SettledInv
    <2>2. produced \subseteq Held
      BY <2>1 DEF UploadInv, HeldInv
    <2>3. rangeOf(queue) = {} /\ rangeOf(events) = {} /\ InHand = {}
      BY <2>1 DEF rangeOf, InHand
    <2> QED
      BY <2>2, <2>3 DEF Held
  <1> QED
    BY <1>1, Invariant, UploadInvariant, PTL
=============================================================================
