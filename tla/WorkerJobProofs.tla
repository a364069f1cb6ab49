-------------------------- MODULE WorkerJobProofs --------------------------
(***************************************************************************)
(* WorkerJob, proved for any set of chunks, upload workers and announces,  *)
(* and any queue capacity and number of retries: its types, the            *)
(* chunk-before-announce invariant, that no chunk is deleted before its    *)
(* ACK, and that the worker implements ChunkGate and JobLife.              *)
(***************************************************************************)
EXTENDS WorkerJob, SequenceTheorems, TLAPS

-----------------------------------------------------------------------------
(* The inductive invariant.  ChunkBeforeAnnounce speaks of handlers that are
   through; gateWait's loop keeps it true name by name, because a finished
   chunk without ACK is still in the out dir, where the loop sees it. *)

(* An upload worker past Dequeue holds a chunk; it reports "ok" only what
   masterd stored, and deletes only what is ACKed. *)
UploaderInv ==
  \A u \in Uploaders :
    /\ uploader[u].at \in {"put", "ok", "err", "remove", "abort"}
         => uploader[u].name \in Chunks
    /\ uploader[u].at = "ok" => uploader[u].name \in stored
    /\ uploader[u].at = "remove" => uploader[u].name \in acked

(* Chunks without ACK, finished or still open, are in the out dir until a
   cancel removes it. *)
DiskInv == state \notin Cancels => (produced \union open) \ acked \subseteq disk

(* finalize runs once, at the very end: no state follows a terminal one, and
   the channel is closed only after the state that enqueue checks is terminal. *)
EndInv == isTerminal(state) <=> run \in {"close", "done"}

(* The names a handler has passed are ACKed, if they were finished when the
   announce was posted. *)
PassedInv ==
  \A a \in Announces :
    /\ need[a] \subseteq produced
    /\ gate[a] = "none" => pos[a] = 1
    /\ gate[a] # "none" => need[a] \subseteq rangeOf(names[a])
    /\ gate[a] \in {"check", "asleep"} => pos[a] \in 1..Len(names[a])
    /\ gate[a] \in {"passed", "relayed"} => pos[a] > Len(names[a])
    /\ \A i \in 1..Len(names[a]) :
         i < pos[a] /\ names[a][i] \in need[a] => names[a][i] \in acked

IInv == /\ TypeOK
        /\ UploaderInv
        /\ acked \subseteq stored
        /\ DiskInv
        /\ EndInv
        /\ PassedInv

-----------------------------------------------------------------------------
(* A new job has uploaded, announced and deleted nothing. *)
LEMMA InitIInv == Init => IInv
  <1> SUFFICES ASSUME Init PROVE IInv
    OBVIOUS
  <1>1. TypeOK
    <2>1. uploader \in [Uploaders -> [at : UploaderPcs, name : Chunks \union {"no"},
                                     attempt : Nat]]
      BY DEF Init, Idle, UploaderPcs
    <2>2. verdict \in [state : Terminal, code : Codes]
      BY DEF Init, Terminal, Codes
    <2>3. gate \in [Announces -> GatePcs] /\ names \in [Announces -> Seq(Chunks)]
      BY DEF Init, GatePcs
    <2>4. queue \in Seq(Chunks) /\ events \in Seq(Chunks)
      BY DEF Init
    <2>5. pos \in [Announces -> Nat] /\ need \in [Announces -> SUBSET Chunks]
      BY DEF Init
    <2>6. state \in States /\ run \in RunPcs /\ tcCode \in Codes /\ pending \in Int
          /\ cancelState \in Cancels \union {NoCancel}
      BY DEF Init, States, Cancels, NoCancel, RunPcs, Codes
    <2>7. /\ failing \in BOOLEAN /\ intakeClosed \in BOOLEAN
          /\ queueClosed \in BOOLEAN /\ deadline \in BOOLEAN /\ settled \in BOOLEAN
          /\ consumer \in {"none", "recv", "overflow", "stopped"}
          /\ watcher \in {"none", "open", "closed"}
          /\ tc \in {"none", "running", "exited"}
      BY DEF Init
    <2>8. /\ acked \subseteq Chunks /\ disk \subseteq Chunks /\ open \subseteq Chunks
          /\ produced \subseteq Chunks /\ stored \subseteq Chunks /\ lost \subseteq Chunks
      BY DEF Init
    <2> QED
      BY <2>1, <2>2, <2>3, <2>4, <2>5, <2>6, <2>7, <2>8 DEF TypeOK
  <1>2. UploaderInv
    BY DEF Init, UploaderInv, Idle
  <1>3. DiskInv /\ EndInv /\ acked \subseteq stored
    BY DEF Init, DiskInv, EndInv, isTerminal, Terminal, Cancels
  <1>4. PassedInv
    BY DEF Init, PassedInv
  <1> QED
    BY <1>1, <1>2, <1>3, <1>4 DEF IInv

-----------------------------------------------------------------------------
(* Frames.  Most steps leave the handlers where they are or wake them, and
   acked, stored and produced only grow. *)

(* Broadcast wakes handlers to where they look again. *)
LEMMA WakeType ==
  ASSUME TypeOK, UNCHANGED gate \/ WakeGates
  PROVE  gate' \in [Announces -> GatePcs]
  BY DEF TypeOK, WakeGates, GatePcs

(* abortFail sets failing, and wakes whoever waits on j.cond. *)
LEMMA AbortType ==
  ASSUME TypeOK, abortFail
  PROVE  /\ failing' \in BOOLEAN
         /\ run' \in RunPcs
         /\ UNCHANGED gate \/ WakeGates
  <1>1. CASE UNCHANGED <<failing, gate, run>>
    BY <1>1 DEF TypeOK
  <1>2. CASE failing' = TRUE /\ Broadcast
    BY <1>2 DEF TypeOK, Broadcast, RunPcs
  <1> QED
    BY <1>1, <1>2 DEF abortFail

(* What a handler has passed stays ACKed while it keeps its place. *)
LEMMA PassedFrame ==
  ASSUME TypeOK, PassedInv,
         UNCHANGED gate \/ WakeGates,
         UNCHANGED <<names, pos, need>>,
         acked \subseteq acked', produced \subseteq produced'
  PROVE  PassedInv'
  BY DEF TypeOK, PassedInv, WakeGates

(* What the upload workers hold stays true while stored and acked grow. *)
LEMMA UploaderFrame ==
  ASSUME UploaderInv, UNCHANGED uploader,
         acked \subseteq acked', stored \subseteq stored'
  PROVE  UploaderInv'
  BY DEF UploaderInv

-----------------------------------------------------------------------------
(* run() itself: it changes no upload, no chunk and no handler, but for
   waking the handlers and for the removal of a cancelled job's directory. *)
LEMMA RunStep == ASSUME IInv, Run PROVE IInv'
  <1> USE DEF IInv, runFrame, setState, finalizeWith, terminalFor, isTerminal
  <1>1. CASE RunPreparing
    <2> USE <1>1 DEF RunPreparing
    <2>1. TypeOK'
      BY WakeType DEF TypeOK, States, Terminal, Cancels, RunPcs
    <2>2. UploaderInv'
      BY UploaderFrame
    <2>3. DiskInv' /\ EndInv' /\ (acked \subseteq stored)'
      BY DEF DiskInv, EndInv, TypeOK, Terminal, Cancels, NoCancel
    <2>4. PassedInv'
      BY PassedFrame
    <2> QED
      BY <2>1, <2>2, <2>3, <2>4
  <1>2. CASE RunPrepare
    <2> USE <1>2 DEF RunPrepare
    <2>1. TypeOK'
      BY WakeType DEF TypeOK, States, Terminal, Cancels, RunPcs, NoCancel, Codes
    <2>2. UploaderInv'
      BY UploaderFrame
    <2>3. DiskInv' /\ EndInv' /\ (acked \subseteq stored)'
      BY DEF DiskInv, EndInv, TypeOK, Terminal, Cancels, NoCancel
    <2>4. PassedInv'
      BY PassedFrame
    <2> QED
      BY <2>1, <2>2, <2>3, <2>4
  <1>3. CASE RunAbortCheck
    <2> USE <1>3 DEF RunAbortCheck
    <2>1. TypeOK'
      BY WakeType DEF TypeOK, States, Terminal, Cancels, RunPcs, NoCancel, Codes
    <2>2. UploaderInv'
      BY UploaderFrame
    <2>3. DiskInv' /\ EndInv' /\ (acked \subseteq stored)'
      BY DEF DiskInv, EndInv, TypeOK, Terminal, Cancels, NoCancel
    <2>4. PassedInv'
      BY PassedFrame
    <2> QED
      BY <2>1, <2>2, <2>3, <2>4
  <1>4. CASE RunStartPushers
    <2> USE <1>4 DEF RunStartPushers
    <2>0. uploader' \in [Uploaders -> [at : UploaderPcs, name : Chunks \union {"no"},
                                      attempt : Nat]]
      <3>1. CASE UNCHANGED uploader
        BY <3>1 DEF TypeOK
      <3>2. CASE uploader' = [u \in Uploaders |-> [uploader[u] EXCEPT !.at = "idle"]]
        BY <3>2 DEF TypeOK, UploaderPcs
      <3> QED
        BY <3>1, <3>2
    <2>1. TypeOK'
      BY <2>0 DEF TypeOK, States, Terminal, Cancels, RunPcs, NoCancel, Codes
    <2>2. UploaderInv'
      BY DEF TypeOK, UploaderInv
    <2>3. DiskInv' /\ EndInv' /\ (acked \subseteq stored)'
      BY DEF DiskInv, EndInv, TypeOK, Terminal, Cancels, NoCancel
    <2>4. PassedInv'
      BY PassedFrame
    <2> QED
      BY <2>1, <2>2, <2>3, <2>4
  <1>5. CASE RunStartProcess
    <2> USE <1>5 DEF RunStartProcess
    <2>1. TypeOK'
      BY WakeType DEF TypeOK, States, Terminal, Cancels, RunPcs, NoCancel, Codes
    <2>2. UploaderInv'
      BY UploaderFrame
    <2>3. DiskInv' /\ EndInv' /\ (acked \subseteq stored)'
      BY DEF DiskInv, EndInv, TypeOK, Terminal, Cancels, NoCancel
    <2>4. PassedInv'
      BY PassedFrame
    <2> QED
      BY <2>1, <2>2, <2>3, <2>4
  <1>6. CASE RunRunning
    <2> USE <1>6 DEF RunRunning
    <2>1. TypeOK'
      BY WakeType DEF TypeOK, States, Terminal, Cancels, RunPcs
    <2>2. UploaderInv'
      BY UploaderFrame
    <2>3. DiskInv' /\ EndInv' /\ (acked \subseteq stored)'
      BY DEF DiskInv, EndInv, TypeOK, Terminal, Cancels, NoCancel
    <2>4. PassedInv'
      BY PassedFrame
    <2> QED
      BY <2>1, <2>2, <2>3, <2>4
  <1>7. CASE RunWait
    <2> USE <1>7 DEF RunWait
    <2>1. TypeOK'
      BY WakeType DEF TypeOK, States, Terminal, Cancels, RunPcs
    <2>2. UploaderInv'
      BY UploaderFrame
    <2>3. DiskInv' /\ EndInv' /\ (acked \subseteq stored)'
      BY DEF DiskInv, EndInv, TypeOK, Terminal, Cancels, NoCancel
    <2>4. PassedInv'
      BY PassedFrame
    <2> QED
      BY <2>1, <2>2, <2>3, <2>4
  <1>8. CASE RunSettle
    <2> USE <1>8 DEF RunSettle
    <2>1. TypeOK'
      BY WakeType DEF TypeOK, States, Terminal, Cancels, RunPcs
    <2>2. UploaderInv'
      BY UploaderFrame
    <2>3. DiskInv' /\ EndInv' /\ (acked \subseteq stored)'
      BY DEF DiskInv, EndInv, TypeOK, Terminal, Cancels, NoCancel
    <2>4. PassedInv'
      BY PassedFrame
    <2> QED
      BY <2>1, <2>2, <2>3, <2>4
  <1>9. CASE RunCloseIntake
    <2> USE <1>9 DEF RunCloseIntake
    <2>1. TypeOK'
      BY WakeType DEF TypeOK, States, Terminal, Cancels, RunPcs
    <2>2. UploaderInv'
      BY UploaderFrame
    <2>3. DiskInv' /\ EndInv' /\ (acked \subseteq stored)'
      BY DEF DiskInv, EndInv, TypeOK, Terminal, Cancels, NoCancel
    <2>4. PassedInv'
      BY PassedFrame
    <2> QED
      BY <2>1, <2>2, <2>3, <2>4
  <1>10. CASE RunDrain
    <2> USE <1>10 DEF RunDrain
    <2>1. TypeOK'
      BY WakeType DEF TypeOK, States, Terminal, Cancels, RunPcs
    <2>2. UploaderInv'
      BY UploaderFrame
    <2>3. DiskInv' /\ EndInv' /\ (acked \subseteq stored)'
      BY DEF DiskInv, EndInv, TypeOK, Terminal, Cancels, NoCancel
    <2>4. PassedInv'
      BY PassedFrame
    <2> QED
      BY <2>1, <2>2, <2>3, <2>4
  <1>11. CASE RunVerdict
    <2> USE <1>11 DEF RunVerdict
    <2>1. TypeOK'
      BY WakeType DEF TypeOK, States, Terminal, Cancels, RunPcs, NoCancel, Codes
    <2>2. UploaderInv'
      BY UploaderFrame
    <2>3. DiskInv' /\ EndInv' /\ (acked \subseteq stored)'
      BY DEF DiskInv, EndInv, TypeOK, Terminal, Cancels, NoCancel
    <2>4. PassedInv'
      BY PassedFrame
    <2> QED
      BY <2>1, <2>2, <2>3, <2>4
  <1>12. CASE RunFinalize
    <2> USE <1>12 DEF RunFinalize
    <2>1. TypeOK'
      BY WakeType DEF TypeOK, States, Terminal, Cancels, RunPcs
    <2>2. UploaderInv'
      BY UploaderFrame
    <2>3. DiskInv' /\ EndInv' /\ (acked \subseteq stored)'
      BY DEF DiskInv, EndInv, TypeOK, Terminal, Cancels, NoCancel
    <2>4. PassedInv'
      BY PassedFrame
    <2> QED
      BY <2>1, <2>2, <2>3, <2>4
  <1>13. CASE RunClose
    <2> USE <1>13 DEF RunClose, jobVars, tcVars, gateVars
    <2>1. TypeOK'
      BY WakeType DEF TypeOK, States, Terminal, Cancels, RunPcs
    <2>2. UploaderInv'
      BY UploaderFrame
    <2>3. DiskInv' /\ EndInv' /\ (acked \subseteq stored)'
      BY DEF DiskInv, EndInv, TypeOK, Terminal, Cancels, NoCancel
    <2>4. PassedInv'
      BY PassedFrame
    <2> QED
      BY <2>1, <2>2, <2>3, <2>4
  <1> QED
    BY <1>1, <1>2, <1>3, <1>4, <1>5, <1>6, <1>7, <1>8, <1>9, <1>10, <1>11, <1>12, <1>13 DEF Run

(* The drain timer, the watcher's consumer, the lifeline monitor and DELETE: they
   wake the waiters, and only enqueue touches the queue. *)
LEMMA OtherStep == ASSUME IInv, DrainDeadline \/ Consumer \/ MonitorLost \/ DeleteJob PROVE IInv'
  <1> USE DEF IInv, jobVars, runVars, diskVars, tcVars, gateVars,
             Broadcast, abortFail, requestCancel, isTerminal
  <1>1. CASE DrainDeadline
    <2> USE <1>1 DEF DrainDeadline
    <2>1. TypeOK'
      BY WakeType DEF TypeOK, RunPcs
    <2>2. UploaderInv'
      BY UploaderFrame
    <2>3. DiskInv' /\ EndInv' /\ (acked \subseteq stored)'
      BY DEF DiskInv, EndInv, TypeOK, Terminal, Cancels
    <2>4. PassedInv'
      BY PassedFrame
    <2> QED
      BY <2>1, <2>2, <2>3, <2>4
  <1>2. CASE enqueue
    <2> USE <1>2 DEF enqueue
    <2>1. TypeOK'
      <3> DEFINE name == Head(events)
      <3>1. name \in Chunks /\ events' \in Seq(Chunks)
        BY DEF TypeOK
      <3>2. CASE UNCHANGED <<queue, pending, consumer, lost>>
        BY <3>1, <3>2 DEF TypeOK
      <3>3. CASE queue' = Append(queue, name) /\ pending' = pending + 1
                 /\ UNCHANGED <<consumer, lost>>
        BY <3>1, <3>3 DEF TypeOK
      <3>4. CASE consumer' = "overflow" /\ lost' = lost \union {name}
                 /\ UNCHANGED <<queue, pending>>
        BY <3>1, <3>4 DEF TypeOK
      <3> QED
        BY <3>2, <3>3, <3>4
    <2>2. UploaderInv'
      BY UploaderFrame
    <2>3. DiskInv' /\ EndInv' /\ (acked \subseteq stored)'
      BY DEF DiskInv, EndInv, TypeOK, Terminal, Cancels
    <2>4. PassedInv'
      BY PassedFrame
    <2> QED
      BY <2>1, <2>2, <2>3, <2>4
  <1>3. CASE Overflow
    <2> USE <1>3 DEF Overflow
    <2>1. TypeOK'
      BY AbortType, WakeType DEF TypeOK
    <2>2. UploaderInv'
      BY UploaderFrame
    <2>3. DiskInv' /\ EndInv' /\ (acked \subseteq stored)'
      BY DEF DiskInv, EndInv, TypeOK, Terminal, Cancels
    <2>4. PassedInv'
      BY PassedFrame
    <2> QED
      BY <2>1, <2>2, <2>3, <2>4
  <1>4. CASE WatcherError
    <2> USE <1>4 DEF WatcherError
    <2>1. TypeOK'
      BY AbortType, WakeType DEF TypeOK
    <2>2. UploaderInv'
      BY UploaderFrame
    <2>3. DiskInv' /\ EndInv' /\ (acked \subseteq stored)'
      BY DEF DiskInv, EndInv, TypeOK, Terminal, Cancels
    <2>4. PassedInv'
      BY PassedFrame
    <2> QED
      BY <2>1, <2>2, <2>3, <2>4
  <1>5. CASE WatcherDrained
    <2> USE <1>5 DEF WatcherDrained
    <2>1. TypeOK'
      BY WakeType DEF TypeOK, RunPcs
    <2>2. UploaderInv'
      BY UploaderFrame
    <2>3. DiskInv' /\ EndInv' /\ (acked \subseteq stored)'
      BY DEF DiskInv, EndInv, TypeOK, Terminal, Cancels
    <2>4. PassedInv'
      BY PassedFrame
    <2> QED
      BY <2>1, <2>2, <2>3, <2>4
  <1>6. CASE MonitorLost
    <2> USE <1>6 DEF MonitorLost
    <2>1. TypeOK'
      BY WakeType DEF TypeOK, RunPcs, Cancels
    <2>2. UploaderInv'
      BY UploaderFrame
    <2>3. DiskInv' /\ EndInv' /\ (acked \subseteq stored)'
      BY DEF DiskInv, EndInv, TypeOK, Terminal, Cancels
    <2>4. PassedInv'
      BY PassedFrame
    <2> QED
      BY <2>1, <2>2, <2>3, <2>4
  <1>7. CASE DeleteJob
    <2> USE <1>7 DEF DeleteJob
    <2>1. TypeOK'
      BY WakeType DEF TypeOK, RunPcs, Cancels
    <2>2. UploaderInv'
      BY UploaderFrame
    <2>3. DiskInv' /\ EndInv' /\ (acked \subseteq stored)'
      BY DEF DiskInv, EndInv, TypeOK, Terminal, Cancels
    <2>4. PassedInv'
      BY PassedFrame
    <2> QED
      BY <2>1, <2>2, <2>3, <2>4
  <1> QED
    BY <1>1, <1>2, <1>3, <1>4, <1>5, <1>6, <1>7 DEF Consumer

UploaderStates == [at : UploaderPcs, name : Chunks \union {"no"}, attempt : Nat]

(* An upload worker that moves on keeps its type. *)
LEMMA AtType ==
  ASSUME TypeOK, NEW u \in Uploaders, NEW at \in UploaderPcs, resolved(u, at)
  PROVE  uploader' \in [Uploaders -> UploaderStates]
  BY DEF TypeOK, resolved, UploaderStates

(* An upload worker that tries again keeps its type. *)
LEMMA AttemptType ==
  ASSUME TypeOK, NEW u \in Uploaders,
         uploader' = [uploader EXCEPT ![u].attempt = @ + 1]
  PROVE  uploader' \in [Uploaders -> UploaderStates]
  <1>1. uploader[u].attempt \in Nat /\ uploader[u] \in UploaderStates
        /\ uploader \in [Uploaders -> UploaderStates]
    BY DEF TypeOK, UploaderStates
  <1>2. [uploader[u] EXCEPT !.attempt = uploader[u].attempt + 1] \in UploaderStates
    BY <1>1 DEF UploaderStates
  <1> QED
    BY <1>1, <1>2

(* What a PUT does to its upload worker. *)
LEMMA PutCases ==
  ASSUME NEW u \in Uploaders, putOnce(u)
  PROVE  /\ uploader[u].at = "put"
         /\ stored' = stored \/ stored' = stored \union {uploader[u].name}
         /\ \/ resolved(u, "ok") /\ uploader[u].name \in stored'
            \/ resolved(u, "err")
            \/ uploader' = [uploader EXCEPT ![u].attempt = @ + 1]
  <1>1. retry(u) => \/ resolved(u, "err")
                    \/ uploader' = [uploader EXCEPT ![u].attempt = @ + 1]
    BY Zenon DEF retry
  <1>2. \/ resolved(u, "ok") /\ stored' = stored \union {uploader[u].name}
        \/ retry(u) /\ stored' = stored \union {uploader[u].name}
        \/ retry(u) /\ stored' = stored
        \/ resolved(u, "err") /\ stored' = stored
    BY Zenon DEF putOnce
  <1>3. uploader[u].at = "put"
    BY Zenon DEF putOnce
  <1> QED
    BY <1>1, <1>2, <1>3, Zenon

(* An upload worker u: what it acknowledges masterd stored, what it deletes is
   acknowledged. *)
LEMMA UploaderStep == ASSUME IInv, NEW u \in Uploaders, Uploader(u) PROVE IInv'
  <1> USE DEF IInv, uploadFrame, isTerminal
  <1>1. CASE Dequeue(u)
    <2> USE <1>1 DEF Dequeue
    <2>1. TypeOK'
      <3>1. uploader' \in [Uploaders -> [at : UploaderPcs, name : Chunks \union {"no"},
                                        attempt : Nat]]
        BY DEF TypeOK, UploaderPcs
      <3>2. queue' \in Seq(Chunks)
        BY DEF TypeOK
      <3> QED
        BY <3>1, <3>2 DEF TypeOK
    <2>2. UploaderInv'
      <3>1. Head(queue) \in Chunks
        BY DEF TypeOK
      <3>2. uploader' = [uploader EXCEPT
              ![u] = [at |-> "put", name |-> Head(queue), attempt |-> 0]]
        OBVIOUS
      <3> QED
        BY <3>1, <3>2 DEF TypeOK, UploaderInv
    <2>3. DiskInv' /\ EndInv' /\ (acked \subseteq stored)'
      BY DEF DiskInv, EndInv, TypeOK, UploaderInv, Terminal, Cancels
    <2>4. PassedInv'
      BY PassedFrame
    <2> QED
      BY <2>1, <2>2, <2>3, <2>4
  <1>2. CASE putOnce(u)
    <2>0. UNCHANGED <<uploadFrame, failing, acked, pending, run, queue, disk, lost, gate>>
      BY <1>2 DEF putOnce
    <2>1. TypeOK'
      <3>1. uploader' \in [Uploaders -> UploaderStates]
        BY <1>2, PutCases, AtType, AttemptType DEF UploaderPcs
      <3>2. stored' \subseteq Chunks
        BY <1>2, PutCases DEF TypeOK, UploaderInv
      <3> QED
        BY <2>0, <3>1, <3>2 DEF TypeOK, UploaderStates
    <2>2. UploaderInv'
      <3>0. uploader[u].at = "put" /\ stored \subseteq stored'
        BY <1>2, PutCases
      <3>1. CASE resolved(u, "ok") /\ uploader[u].name \in stored'
        BY <3>0, <2>0, <3>1 DEF TypeOK, UploaderInv, resolved
      <3>2. CASE resolved(u, "err")
        BY <3>0, <2>0, <3>2 DEF TypeOK, UploaderInv, resolved
      <3>3. CASE uploader' = [uploader EXCEPT ![u].attempt = @ + 1]
        BY <3>0, <2>0, <3>3 DEF TypeOK, UploaderInv, resolved
      <3> QED
        BY <1>2, <3>1, <3>2, <3>3, PutCases
    <2>3. DiskInv' /\ EndInv' /\ (acked \subseteq stored)'
      BY <1>2, <2>0, PutCases DEF DiskInv, EndInv
    <2>4. PassedInv'
      BY <2>0, PassedFrame
    <2> QED
      BY <2>1, <2>2, <2>3, <2>4
  <1>3. CASE Resolve(u)
    <2> USE <1>3 DEF Resolve, Broadcast
    <2>1. TypeOK'
      <3>1. uploader' \in [Uploaders -> UploaderStates]
        BY AtType DEF UploaderPcs
      <3>2. acked' \subseteq Chunks /\ lost' \subseteq Chunks /\ pending' \in Int
        BY DEF TypeOK, UploaderInv
      <3>3. run' \in RunPcs
        BY DEF TypeOK, RunPcs
      <3> QED
        BY <3>1, <3>2, <3>3, WakeType DEF TypeOK, UploaderStates
    <2> USE DEF resolved
    <2>2. UploaderInv'
      BY DEF TypeOK, UploaderInv
    <2>3. DiskInv' /\ EndInv' /\ (acked \subseteq stored)'
      BY DEF DiskInv, EndInv, TypeOK, UploaderInv, Terminal, Cancels
    <2>4. PassedInv'
      BY PassedFrame
    <2> QED
      BY <2>1, <2>2, <2>3, <2>4
  <1>4. CASE RemoveLocal(u)
    <2> USE <1>4 DEF RemoveLocal, Idle
    <2>1. TypeOK'
      <3>1. uploader' \in [Uploaders -> [at : UploaderPcs, name : Chunks \union {"no"},
                                        attempt : Nat]]
        BY DEF TypeOK, UploaderPcs
      <3> QED
        BY <3>1, WakeType DEF TypeOK, RunPcs, UploaderInv
    <2>2. UploaderInv'
      BY DEF TypeOK, UploaderInv
    <2>3. DiskInv' /\ EndInv' /\ (acked \subseteq stored)'
      BY DEF DiskInv, EndInv, TypeOK, UploaderInv, Terminal, Cancels
    <2>4. PassedInv'
      BY PassedFrame
    <2> QED
      BY <2>1, <2>2, <2>3, <2>4
  <1>5. CASE AbortPush(u)
    <2> USE <1>5 DEF AbortPush, Idle
    <2>1. TypeOK'
      <3>1. uploader' \in [Uploaders -> UploaderStates]
        BY DEF TypeOK, UploaderStates, UploaderPcs
      <3> QED
        BY <3>1, AbortType, WakeType DEF TypeOK, UploaderStates
    <2> USE DEF abortFail, Broadcast
    <2>2. UploaderInv'
      BY DEF TypeOK, UploaderInv
    <2>3. DiskInv' /\ EndInv' /\ (acked \subseteq stored)'
      BY DEF DiskInv, EndInv, TypeOK, UploaderInv, Terminal, Cancels
    <2>4. PassedInv'
      BY PassedFrame
    <2> QED
      BY <2>1, <2>2, <2>3, <2>4
  <1>6. CASE UploaderStop(u)
    <2> USE <1>6 DEF UploaderStop, resolved
    <2>1. TypeOK'
      <3>1. uploader' \in [Uploaders -> [at : UploaderPcs, name : Chunks \union {"no"},
                                        attempt : Nat]]
        BY DEF TypeOK, UploaderPcs
      <3> QED
        BY <3>1, WakeType DEF TypeOK, RunPcs, UploaderInv
    <2>2. UploaderInv'
      BY DEF TypeOK, UploaderInv
    <2>3. DiskInv' /\ EndInv' /\ (acked \subseteq stored)'
      BY DEF DiskInv, EndInv, TypeOK, UploaderInv, Terminal, Cancels
    <2>4. PassedInv'
      BY PassedFrame
    <2> QED
      BY <2>1, <2>2, <2>3, <2>4
  <1> QED
    BY <1>1, <1>2, <1>3, <1>4, <1>5, <1>6 DEF Uploader

-----------------------------------------------------------------------------
(* The transcoder: a chunk it finishes is on disk already, and an announce it
   posts starts at its first name. *)
LEMMA TranscoderStep == ASSUME IInv, Transcoder PROVE IInv'
  <1> USE DEF IInv, tcFrame, jobVars, runVars, diskVars, tcVars, gateVars, closeWrite
  <1>1. CASE \E c \in Chunks : OpenChunk(c)
    <2> USE <1>1 DEF OpenChunk
    <2>1. TypeOK'
      BY DEF TypeOK
    <2>2. UploaderInv'
      BY UploaderFrame
    <2>3. DiskInv' /\ EndInv' /\ (acked \subseteq stored)'
      BY DEF DiskInv, EndInv, TypeOK
    <2>4. PassedInv'
      BY PassedFrame
    <2> QED
      BY <2>1, <2>2, <2>3, <2>4
  <1>2. CASE \E c \in Chunks : FinishChunk(c)
    <2> USE <1>2 DEF FinishChunk
    <2>1. TypeOK'
      <3>1. events' \in Seq(Chunks)
        BY DEF TypeOK
      <3> QED
        BY <3>1 DEF TypeOK, Codes
    <2>2. UploaderInv'
      BY UploaderFrame
    <2>3. DiskInv' /\ EndInv' /\ (acked \subseteq stored)'
      BY DEF DiskInv, EndInv, TypeOK
    <2>4. PassedInv'
      BY PassedFrame
    <2> QED
      BY <2>1, <2>2, <2>3, <2>4
  <1>3. CASE \E c \in Chunks : TruncateChunk(c)
    <2> USE <1>3 DEF TruncateChunk
    <2>1. TypeOK'
      <3>1. events' \in Seq(Chunks)
        BY DEF TypeOK
      <3> QED
        BY <3>1 DEF TypeOK, Codes
    <2>2. UploaderInv'
      BY UploaderFrame
    <2>3. DiskInv' /\ EndInv' /\ (acked \subseteq stored)'
      BY DEF DiskInv, EndInv, TypeOK
    <2>4. PassedInv'
      BY PassedFrame
    <2> QED
      BY <2>1, <2>2, <2>3, <2>4
  <1>4. CASE \E code \in Codes : Exit(code)
    <2> USE <1>4 DEF Exit
    <2>1. TypeOK'
      BY DEF TypeOK
    <2>2. UploaderInv'
      BY UploaderFrame
    <2>3. DiskInv' /\ EndInv' /\ (acked \subseteq stored)'
      BY DEF DiskInv, EndInv, TypeOK
    <2>4. PassedInv'
      BY PassedFrame
    <2> QED
      BY <2>1, <2>2, <2>3, <2>4
  <1>5. ASSUME NEW a \in Announces, NEW body \in AnnounceNames, PostAnnounce(a, body)
        PROVE  IInv'
    <2> USE <1>5 DEF PostAnnounce
    <2>0. body \in Seq(Chunks) /\ Len(body) \in Nat /\ Len(body) > 0
      <3>1. body \in Seq(Chunks) /\ body # <<>>
        BY NamesAssumption
      <3> QED
        BY <3>1, EmptySeq
    <2>1. TypeOK'
      <3>1. gate' \in [Announces -> GatePcs] /\ names' \in [Announces -> Seq(Chunks)]
        BY <2>0 DEF TypeOK, GatePcs
      <3>2. need' \in [Announces -> SUBSET Chunks]
        BY DEF TypeOK
      <3> QED
        BY <3>1, <3>2 DEF TypeOK, gateFrame
    <2>2. UploaderInv'
      BY UploaderFrame DEF gateFrame
    <2>3. DiskInv' /\ EndInv' /\ (acked \subseteq stored)'
      BY DEF DiskInv, EndInv, gateFrame
    <2>4. PassedInv'
      <3>0. UNCHANGED <<acked, produced>>
        BY DEF gateFrame
      <3>1. need'[a] \subseteq produced /\ need'[a] \subseteq rangeOf(names'[a])
        BY <3>0 DEF TypeOK
      <3>2. pos'[a] = 1 /\ pos'[a] \in 1..Len(names'[a]) /\ gate'[a] = "check"
        BY <2>0 DEF TypeOK, PassedInv
      <3>3. \A b \in Announces \ {a} : /\ gate'[b] = gate[b] /\ names'[b] = names[b]
                                       /\ pos'[b] = pos[b] /\ need'[b] = need[b]
        BY DEF TypeOK
      <3> QED
        BY <3>0, <3>1, <3>2, <3>3 DEF PassedInv
    <2> QED
      BY <2>1, <2>2, <2>3, <2>4
  <1> QED
    BY <1>1, <1>2, <1>3, <1>4, <1>5 DEF Transcoder

(* gateWait passes a name that is ACKed or, in a job that may still COMPLETE,
   one that is not in the out dir: such a name is not finished (DiskInv). *)
LEMMA NameSkipped ==
  ASSUME IInv, NEW c \in produced, c \notin acked, c \notin disk
  PROVE  gateBroken
  BY DEF IInv, DiskInv, gateBroken, isTerminal, Terminal, Cancels

(* What one look of gateWait does. *)
LEMMA GateCases ==
  ASSUME IInv, NEW a \in Announces, GateCheck(a)
  PROVE  /\ gate[a] = "check" /\ UNCHANGED <<gateFrame, names, need>>
         /\ \/ /\ passName(a)
               /\ names[a][pos[a]] \in need[a] => names[a][pos[a]] \in acked
            \/ gate' = [gate EXCEPT ![a] = "refused"] /\ UNCHANGED pos
            \/ gate' = [gate EXCEPT ![a] = "asleep"] /\ UNCHANGED pos
  <1> DEFINE name == names[a][pos[a]]
  <1>1. name \in need[a] => name \in produced
    BY DEF IInv, PassedInv
  <1>2. CASE name \in acked
    BY <1>2, Zenon DEF GateCheck
  <1>3. CASE name \notin acked /\ gateBroken
    BY <1>3, Zenon DEF GateCheck
  <1>4. CASE name \notin acked /\ ~gateBroken /\ name \notin disk
    <2>1. name \notin need[a]
      BY <1>1, <1>4, NameSkipped
    <2> QED
      BY <1>4, <2>1, Zenon DEF GateCheck
  <1>5. CASE name \notin acked /\ ~gateBroken /\ name \in disk
    BY <1>5, Zenon DEF GateCheck
  <1> QED
    BY <1>2, <1>3, <1>4, <1>5

(* A step of an announce handler keeps the invariant. *)
LEMMA HandlerStep == ASSUME IInv, NEW a \in Announces, Handler(a) PROVE IInv'
  <1>x. /\ UNCHANGED <<gateFrame, names, need>>
        /\ \/ UNCHANGED gate
           \/ \E at \in GatePcs : gate' = [gate EXCEPT ![a] = at]
        /\ UNCHANGED pos \/ pos' = [pos EXCEPT ![a] = @ + 1]
    BY DEF Handler, GateCheck, AnnounceGone, Relay, passName, GatePcs
  <1>0. /\ UNCHANGED <<tcFrame, tcVars, diskVars, names, need>>
        /\ \A b \in Announces \ {a} : gate'[b] = gate[b] /\ pos'[b] = pos[b]
    BY <1>x DEF IInv, TypeOK, gateFrame, tcVars
  <1>1. UploaderInv' /\ DiskInv' /\ EndInv' /\ (acked \subseteq stored)'
    BY <1>0, UploaderFrame DEF IInv, DiskInv, EndInv, tcFrame, jobVars, runVars, diskVars
  <1>2. gate' \in [Announces -> GatePcs] /\ pos' \in [Announces -> Nat]
    <2>1. gate' \in [Announces -> GatePcs]
      BY <1>x DEF IInv, TypeOK
    <2>2. pos \in [Announces -> Nat] /\ pos[a] + 1 \in Nat
      BY DEF IInv, TypeOK
    <2>3. pos' \in [Announces -> Nat]
      BY <1>x, <2>2
    <2> QED
      BY <2>1, <2>3
  <1>3. TypeOK'
    BY <1>0, <1>2 DEF IInv, TypeOK, tcFrame, jobVars, runVars, diskVars, tcVars
  <1>4. PassedInv'
    <2> USE DEF IInv, TypeOK
    <2>0. UNCHANGED <<acked, produced>>
      BY <1>0 DEF tcFrame, jobVars, diskVars
    <2> SUFFICES
          /\ gate'[a] # "none"
          /\ gate'[a] \in {"check", "asleep"} => pos'[a] \in 1..Len(names[a])
          /\ gate'[a] \in {"passed", "relayed"} => pos'[a] > Len(names[a])
          /\ gate[a] # "none"
          /\ \A i \in 1..Len(names[a]) :
               i < pos'[a] /\ names[a][i] \in need[a] => names[a][i] \in acked
      BY <1>0, <2>0 DEF PassedInv
    <2>1. CASE GateCheck(a)
      <3>1. gate[a] = "check" /\ pos[a] \in 1..Len(names[a])
        BY <2>1, GateCases DEF PassedInv
      <3>2. CASE passName(a) /\ (names[a][pos[a]] \in need[a] => names[a][pos[a]] \in acked)
        <4>1. pos'[a] = pos[a] + 1
          BY <3>2 DEF passName
        <4>2. gate'[a] = IF pos[a] < Len(names[a]) THEN "check" ELSE "passed"
          BY <3>1, <3>2 DEF passName
        <4> QED
          BY <3>1, <3>2, <4>1, <4>2 DEF PassedInv
      <3>3. CASE gate' = [gate EXCEPT ![a] = "refused"] /\ UNCHANGED pos
        BY <3>1, <3>3 DEF PassedInv
      <3>4. CASE gate' = [gate EXCEPT ![a] = "asleep"] /\ UNCHANGED pos
        BY <3>1, <3>4 DEF PassedInv
      <3> QED
        BY <2>1, <3>2, <3>3, <3>4, GateCases
    <2>2. CASE AnnounceGone(a)
      BY <2>2 DEF AnnounceGone, PassedInv
    <2>3. CASE Relay(a)
      BY <2>3 DEF Relay, PassedInv
    <2> QED
      BY <2>1, <2>2, <2>3 DEF Handler
  <1> QED
    BY <1>1, <1>3, <1>4 DEF IInv

-----------------------------------------------------------------------------
(* Every step keeps the invariant. *)
LEMMA StepIInv == IInv /\ [Next]_vars => IInv'
  <1> SUFFICES ASSUME IInv, [Next]_vars PROVE IInv'
    OBVIOUS
  <1>1. CASE Run
    BY <1>1, RunStep
  <1>2. CASE DrainDeadline \/ Consumer \/ MonitorLost \/ DeleteJob
    BY <1>2, OtherStep
  <1>3. CASE Transcoder
    BY <1>3, TranscoderStep
  <1>4. ASSUME NEW u \in Uploaders, Uploader(u) PROVE IInv'
    BY <1>4, UploaderStep
  <1>5. ASSUME NEW a \in Announces, Handler(a) PROVE IInv'
    BY <1>5, HandlerStep
  <1>6. CASE UNCHANGED vars
    <2> USE <1>6 DEF vars, jobVars, runVars, diskVars, tcVars, gateVars
    <2>1. TypeOK'
      BY DEF IInv, TypeOK
    <2>2. UploaderInv' /\ DiskInv' /\ EndInv' /\ (acked \subseteq stored)'
      BY DEF IInv, UploaderInv, DiskInv, EndInv, isTerminal
    <2>3. PassedInv'
      BY DEF IInv, PassedInv
    <2> QED
      BY <2>1, <2>2, <2>3 DEF IInv
  <1> QED
    BY <1>1, <1>2, <1>3, <1>4, <1>5, <1>6 DEF Next

(* The inductive invariant holds in every state a job can reach: an ACK is
   recorded only for a chunk masterd stored, an upload worker holds a chunk from
   the queue until its outcome is recorded, the job is terminal exactly when
   run() is past finalize, and the names a gate has passed are stored or were not
   finished. *)
THEOREM Invariant == Spec => []IInv
  BY InitIInv, StepIInv, PTL DEF Spec

-----------------------------------------------------------------------------
(* The results. *)

(* Every field keeps its type: no goroutine leaves a phase that another does
   not know, and terminalFor always names a terminal state. *)
THEOREM TypeCorrect == Spec => []TypeOK
  <1>1. IInv => TypeOK
    BY DEF IInv
  <1> QED
    BY <1>1, Invariant, PTL

(* The invariant says that no announce is ahead of its chunks. *)
LEMMA GateHolds == IInv => ChunkBeforeAnnounce
  <1> SUFFICES ASSUME IInv, NEW a \in Announces, gate[a] \in {"passed", "relayed"},
                      NEW c \in need[a]
               PROVE  c \in stored
    BY DEF ChunkBeforeAnnounce
  <1>1. PICK i \in 1..Len(names[a]) : names[a][i] = c
    BY DEF IInv, PassedInv, rangeOf
  <1>2. pos[a] > Len(names[a]) /\ pos[a] \in Nat /\ Len(names[a]) \in Nat
    BY DEF IInv, TypeOK, PassedInv
  <1>3. c \in acked
    BY <1>1, <1>2 DEF IInv, PassedInv
  <1> QED
    BY <1>3 DEF IInv

(* The invariant of gateWait: what an announce that went through names, and was
   finished when it was posted, masterd holds. *)
THEOREM GateCorrect == Spec => []ChunkBeforeAnnounce
  BY GateHolds, Invariant, PTL

(* uploadWorker deletes no finished chunk that masterd has not ACKed. *)
THEOREM UnackedNeverDeleted == Spec => []UnackedKept
  <1>1. IInv => UnackedKept
    BY DEF IInv, DiskInv, UnackedKept
  <1> QED
    BY <1>1, Invariant, PTL

(* enqueue checks the state under j.mu before it sends, so it never sends on the
   channel finalize closed. *)
THEOREM NeverSendOnClosed == Spec => NoSendOnClosed
  <1>1. ASSUME IInv, [Next]_vars, Len(queue') > Len(queue) PROVE ~ChanClosed
    <2>1. CASE enqueue
      <3>1. CASE notWanted(Head(events))
        <4>1. queue' = queue
          BY <2>1, <3>1 DEF enqueue
        <4> QED
          BY <1>1, <4>1 DEF IInv, TypeOK
      <3>2. CASE ~notWanted(Head(events))
        BY <1>1, <3>2 DEF notWanted, ChanClosed, IInv, EndInv
      <3> QED
        BY <3>1, <3>2
    <2>2. CASE UNCHANGED queue
      BY <1>1, <2>2 DEF IInv, TypeOK
    <2>3. CASE queue # <<>> /\ queue' = Tail(queue)
      BY <1>1, <2>3 DEF IInv, TypeOK
    <2>4. enqueue \/ UNCHANGED queue \/ (queue # <<>> /\ queue' = Tail(queue))
      <3>1. CASE Run
        BY <3>1 DEF Run, RunPreparing, RunPrepare, RunAbortCheck, RunStartPushers,
           RunStartProcess, RunRunning, RunWait, RunSettle, RunCloseIntake, RunDrain,
           RunVerdict, RunFinalize, RunClose, runFrame, jobVars
      <3>2. CASE DrainDeadline \/ Consumer \/ MonitorLost \/ DeleteJob
        BY <3>2 DEF DrainDeadline, Consumer, Overflow, WatcherError, WatcherDrained,
           MonitorLost, DeleteJob, jobVars
      <3>3. CASE Transcoder
        BY <3>3 DEF Transcoder, OpenChunk, FinishChunk, TruncateChunk, Exit,
           PostAnnounce, gateFrame, tcFrame, jobVars
      <3>4. ASSUME NEW u \in Uploaders, Uploader(u)
            PROVE  UNCHANGED queue \/ (queue # <<>> /\ queue' = Tail(queue))
        BY <3>4 DEF Uploader, Dequeue, putOnce, Resolve, RemoveLocal, AbortPush,
           UploaderStop
      <3>5. ASSUME NEW a \in Announces, Handler(a) PROVE UNCHANGED queue
        BY <3>5 DEF Handler, GateCheck, AnnounceGone, Relay, gateFrame, tcFrame, jobVars
      <3>6. CASE UNCHANGED vars
        BY <3>6 DEF vars, jobVars
      <3> QED
        BY <1>1, <3>1, <3>2, <3>3, <3>4, <3>5, <3>6 DEF Next
    <2> QED
      BY <2>1, <2>2, <2>3, <2>4
  <1>2. IInv /\ [Next]_vars => [Len(queue') > Len(queue) => ~ChanClosed]_vars
    BY <1>1
  <1> QED
    BY <1>2, Invariant, PTL DEF Spec, NoSendOnClosed

-----------------------------------------------------------------------------
(* WorkerJob implements ChunkGate: only FinishChunk produces, only a PUT stores,
   and of the handlers' steps only the last one counts. *)

Phase == [a \in Announces |-> phaseOf(a)]

(* The initial state is one of the abstract segment plane. *)
LEMMA PromiseInit == Init => Promise!Init
  BY DEF Init, Promise!Init, phaseOf

(* Waking the handlers is not a step of the promise. *)
LEMMA PhaseFrame ==
  ASSUME TypeOK, UNCHANGED gate \/ WakeGates
  PROVE  Phase' = Phase
  <1>1. ASSUME NEW a \in Announces PROVE phaseOf(a)' = phaseOf(a)
    BY DEF TypeOK, WakeGates, phaseOf
  <1> QED
    BY <1>1 DEF Phase

(* A handler that moves changes its own phase only. *)
LEMMA PhaseChange ==
  ASSUME TypeOK, NEW a \in Announces, NEW at \in GatePcs,
         gate' = [gate EXCEPT ![a] = at]
  PROVE  /\ Phase' = [Phase EXCEPT ![a] = phaseOf(a)']
         /\ gate'[a] = at
  <1>1. ASSUME NEW b \in Announces, b # a PROVE phaseOf(b)' = phaseOf(b)
    BY <1>1 DEF TypeOK, phaseOf
  <1> QED
    BY <1>1 DEF Phase, TypeOK

(* run(), the watcher, the monitor and DELETE are stutters of the promise. *)
LEMMA Quiet ==
  ASSUME IInv, Run \/ DrainDeadline \/ Consumer \/ MonitorLost \/ DeleteJob
  PROVE  UNCHANGED <<produced, stored, Phase, need>>
  <1>1. UNCHANGED <<produced, stored, need>> /\ (UNCHANGED gate \/ WakeGates)
    <2>1. CASE Run
      BY <2>1 DEF Run, RunPreparing, RunPrepare, RunAbortCheck, RunStartPushers,
         RunStartProcess, RunRunning, RunWait, RunSettle, RunCloseIntake, RunDrain,
         RunVerdict, RunFinalize, RunClose, runFrame, setState, gateVars
    <2>2. CASE DrainDeadline \/ DeleteJob
      BY <2>2 DEF DrainDeadline, DeleteJob, requestCancel, Broadcast, diskVars
    <2>3. CASE Consumer
      BY <2>3 DEF Consumer, enqueue, Overflow, WatcherError, WatcherDrained,
         abortFail, Broadcast, diskVars, gateVars
    <2>4. CASE MonitorLost
      BY <2>4 DEF MonitorLost, requestCancel, Broadcast,
         diskVars, gateVars
    <2> QED
      BY <2>1, <2>2, <2>3, <2>4
  <1> QED
    BY <1>1, PhaseFrame DEF IInv

(* An upload worker stores a chunk or does nothing the promise can tell. *)
LEMMA UploadPromise ==
  ASSUME IInv, NEW u \in Uploaders, Uploader(u)
  PROVE  \/ UNCHANGED <<produced, stored, Phase, need>>
         \/ \E c \in Chunks : /\ stored' = stored \union {c}
                             /\ UNCHANGED <<produced, Phase, need>>
  <1>1. UNCHANGED <<produced, need>> /\ (UNCHANGED gate \/ WakeGates)
    BY DEF Uploader, Dequeue, putOnce, Resolve, RemoveLocal, AbortPush,
       UploaderStop, uploadFrame, abortFail, Broadcast
  <1>2. UNCHANGED Phase
    BY <1>1, PhaseFrame DEF IInv
  <1>3. CASE putOnce(u)
    BY <1>1, <1>2, <1>3, PutCases DEF IInv, UploaderInv
  <1>4. CASE ~putOnce(u)
    BY <1>1, <1>2, <1>4 DEF Uploader, Dequeue, Resolve, RemoveLocal, AbortPush,
       UploaderStop
  <1> QED
    BY <1>3, <1>4

(* Every step of the job is a step of the promise or a stutter of it. *)
LEMMA PromiseStep == IInv /\ [Next]_vars => [Promise!Next]_<<produced, stored, Phase, need>>
  <1> SUFFICES ASSUME IInv, [Next]_vars
               PROVE  [Promise!Next]_<<produced, stored, Phase, need>>
    OBVIOUS
  <1> USE DEF Promise!Next
  <1>1. CASE Run \/ DrainDeadline \/ Consumer \/ MonitorLost \/ DeleteJob
    BY <1>1, Quiet
  <1>2. ASSUME NEW u \in Uploaders, Uploader(u)
        PROVE  [Promise!Next]_<<produced, stored, Phase, need>>
    BY <1>2, UploadPromise DEF Promise!Store, Phase
  <1>3. ASSUME NEW c \in Chunks, OpenChunk(c) \/ TruncateChunk(c)
        PROVE  UNCHANGED <<produced, stored, Phase, need>>
    BY <1>3, PhaseFrame DEF IInv, OpenChunk, TruncateChunk, tcFrame, gateVars
  <1>4. ASSUME NEW code \in Codes, Exit(code)
        PROVE  UNCHANGED <<produced, stored, Phase, need>>
    BY <1>4, PhaseFrame DEF IInv, Exit, tcFrame, gateVars, diskVars
  <1>5. ASSUME NEW c \in Chunks, FinishChunk(c)
        PROVE  [Promise!Next]_<<produced, stored, Phase, need>>
    <2>1. Phase' = Phase /\ UNCHANGED <<stored, need>> /\ produced' = produced \union {c}
      BY <1>5, PhaseFrame DEF IInv, FinishChunk, tcFrame, gateVars
    <2> QED
      BY <2>1 DEF Promise!Produce, Phase
  <1>6. ASSUME NEW a \in Announces, NEW body \in AnnounceNames, PostAnnounce(a, body)
        PROVE  [Promise!Next]_<<produced, stored, Phase, need>>
    <2>1. /\ Phase' = [Phase EXCEPT ![a] = "held"]
          /\ Phase[a] = "none"
      <3>1. gate' = [gate EXCEPT ![a] = "check"] /\ gate[a] = "none"
        BY <1>6 DEF PostAnnounce
      <3> QED
        BY <3>1, PhaseChange DEF IInv, Phase, phaseOf, GatePcs
    <2>2. need' = [need EXCEPT ![a] = rangeOf(body) \intersect produced]
          /\ UNCHANGED <<produced, stored>>
          /\ rangeOf(body) \intersect produced \in SUBSET Chunks
      BY <1>6 DEF PostAnnounce, gateFrame, tcFrame, diskVars, IInv, TypeOK
    <2>3. Promise!Post(a, rangeOf(body) \intersect produced)
      BY <2>1, <2>2 DEF Promise!Post, Phase
    <2> QED
      BY <2>2, <2>3
  <1>7. ASSUME NEW a \in Announces, Handler(a)
        PROVE  [Promise!Next]_<<produced, stored, Phase, need>>
    <2>0. UNCHANGED <<produced, stored, need>>
      BY <1>7 DEF Handler, GateCheck, AnnounceGone, Relay, gateFrame, tcFrame, diskVars
    <2>1. CASE \E at \in {"asleep", "relayed"} :
                 /\ gate' = [gate EXCEPT ![a] = at]
                 /\ gate[a] = IF at = "asleep" THEN "check" ELSE "passed"
      <3>1. UNCHANGED Phase
        BY <2>1, PhaseChange DEF IInv, TypeOK, Phase, phaseOf, GatePcs
      <3> QED
        BY <2>0, <3>1
    <2>2. CASE gate' = [gate EXCEPT ![a] = "refused"] /\ gate[a] \in {"check", "asleep"}
      <3>1. Phase' = [Phase EXCEPT ![a] = "refused"] /\ Phase[a] = "held"
        BY <2>2, PhaseChange DEF IInv, Phase, phaseOf, GatePcs
      <3> QED
        BY <2>0, <3>1 DEF Promise!Refuse, Phase
    <2>3. CASE UNCHANGED gate
      BY <2>0, <2>3, PhaseFrame DEF IInv
    <2>4. CASE GateCheck(a) /\ gate' = [gate EXCEPT ![a] = "passed"]
      <3>1. Phase' = [Phase EXCEPT ![a] = "passed"] /\ Phase[a] = "held"
        BY <2>4, PhaseChange DEF GateCheck, IInv, Phase, phaseOf, GatePcs
      <3>2. gate'[a] = "passed"
        BY <2>4, PhaseChange DEF IInv, GatePcs
      <3>3. ChunkBeforeAnnounce'
        <4>1. IInv'
          BY <1>7, HandlerStep
        <4> QED
          BY <4>1, GateHolds, PTL
      <3>4. need[a] \subseteq stored
        BY <2>0, <3>2, <3>3 DEF ChunkBeforeAnnounce
      <3> QED
        BY <2>0, <3>1, <3>4 DEF Promise!Pass, Phase
    <2>5. \/ GateCheck(a) /\ gate' = [gate EXCEPT ![a] = "passed"]
          \/ UNCHANGED gate
          \/ gate' = [gate EXCEPT ![a] = "refused"] /\ gate[a] \in {"check", "asleep"}
          \/ \E at \in {"asleep", "relayed"} :
               /\ gate' = [gate EXCEPT ![a] = at]
               /\ gate[a] = IF at = "asleep" THEN "check" ELSE "passed"
      BY <1>7, GateCases DEF Handler, AnnounceGone, Relay, passName
    <2> QED
      BY <2>1, <2>2, <2>3, <2>4, <2>5
  <1>8. CASE UNCHANGED vars
    BY <1>8, PhaseFrame DEF IInv, vars, diskVars, gateVars
  <1> QED
    BY <1>1, <1>2, <1>3, <1>4, <1>5, <1>6, <1>7, <1>8 DEF Next, Transcoder

(* The worker keeps the promise of ChunkGate: the watcher, the queue, the upload
   workers, the retries and the waiters of j.cond are steps of that abstract
   segment plane, or steps it does not see. *)
THEOREM Implementation == Spec => ImplementsChunkGate
  BY PromiseInit, PromiseStep, Invariant, PTL
     DEF Spec, ImplementsChunkGate, Promise!Spec, Promise!vars, Phase

-----------------------------------------------------------------------------
(* WorkerJob implements JobLife. *)

(* Where run() is tells the state, and the verdict once there is one. *)
LifeInv ==
  /\ run = "new" => state = "PENDING"
  /\ run \in {"prepare", "abortcheck", "pushers", "spawn", "started"}
       => state = "PREPARING"
  /\ run \in {"wait", "settle"} => state = "RUNNING"
  /\ run \in {"intake", "drain", "asleep", "drained", "drainfailed"}
       => state = "DRAINING"
  /\ run = "finalize" => state \in {"PREPARING", "DRAINING"}
  /\ run \in {"close", "done"} => state = verdict.state

VerdictOf == IF run \in {"finalize", "close", "done"} THEN verdict.state ELSE "no"

lifeVars == <<state, cancelState, failing, VerdictOf>>

(* What the rest of the worker does to run() is to wake it. *)
LEMMA LifeFrame ==
  ASSUME LifeInv, UNCHANGED <<state, verdict>>,
         run' = run \/ (run = "asleep" /\ run' = "drain")
  PROVE  LifeInv' /\ UNCHANGED VerdictOf
  BY DEF LifeInv, VerdictOf

(* A job that ends early ends CANCELLED or LOST if it was told so, else FAILED. *)
LEMMA EarlyEnd ==
  ASSUME LifeInv, TypeOK, NEW s \in Terminal, NEW code, finalizeWith(s, code),
         VerdictOf = "no", state \in {"PREPARING", "DRAINING"}, s \in Life!Verdicts,
         UNCHANGED <<state, cancelState, failing>>
  PROVE  LifeInv' /\ Life!Decide
  <1>1. run' = "finalize" /\ verdict' = [state |-> s, code |-> code]
    BY DEF finalizeWith
  <1>2. VerdictOf' = s
    BY <1>1 DEF VerdictOf
  <1>3. LifeInv'
    BY <1>1 DEF LifeInv
  <1> QED
    BY <1>2, <1>3 DEF Life!Decide, VerdictOf

(* run() goes through the states in order, decides once and ends as decided. *)
LEMMA LifeRun ==
  ASSUME IInv, LifeInv, Run
  PROVE  LifeInv' /\ [Life!Next]_lifeVars
  <1> USE DEF runFrame, Life!Next
  <1>1. CASE RunPreparing \/ RunRunning \/ RunSettle
    <2>1. /\ <<state, state'>> \in {<<"PENDING", "PREPARING">>, <<"PREPARING", "RUNNING">>,
                                    <<"RUNNING", "DRAINING">>}
          /\ UNCHANGED <<cancelState, failing, verdict>>
      BY <1>1 DEF RunPreparing, RunRunning, RunSettle, setState, LifeInv, isTerminal,
                  Terminal, Cancels
    <2>2. LifeInv' /\ VerdictOf = "no" /\ UNCHANGED VerdictOf
      BY <1>1, <2>1 DEF RunPreparing, RunRunning, RunSettle, LifeInv, VerdictOf
    <2> QED
      BY <2>1, <2>2 DEF Life!Advance, VerdictOf
  <1>2. CASE RunPrepare \/ RunAbortCheck \/ RunStartPushers \/ RunStartProcess
    <2>1. /\ state = "PREPARING" /\ VerdictOf = "no"
          /\ UNCHANGED <<state, cancelState, failing>>
      BY <1>2 DEF RunPrepare, RunAbortCheck, RunStartPushers, RunStartProcess, LifeInv,
                  VerdictOf
    <2>2. \/ run' \in {"abortcheck", "pushers", "spawn", "started"} /\ UNCHANGED verdict
          \/ finalizeWith(terminalFor, 1)
      BY <1>2 DEF RunPrepare, RunAbortCheck, RunStartPushers, RunStartProcess, terminalFor
    <2>3. CASE run' \in {"abortcheck", "pushers", "spawn", "started"} /\ UNCHANGED verdict
      BY <2>1, <2>3 DEF LifeInv, VerdictOf, lifeVars
    <2>4. CASE finalizeWith(terminalFor, 1)
      <3>1. terminalFor \in Terminal /\ terminalFor \in Life!Verdicts
        BY <2>1 DEF terminalFor, Terminal, IInv, TypeOK, NoCancel, Life!Verdicts
      <3> QED
        BY <2>1, <2>4, <3>1, EarlyEnd DEF IInv
    <2> QED
      BY <2>2, <2>3, <2>4
  <1>3. CASE RunWait \/ RunCloseIntake \/ RunDrain
    BY <1>3 DEF RunWait, RunCloseIntake, RunDrain, LifeInv, VerdictOf, lifeVars
  <1>4. CASE RunVerdict
    <2>1. /\ state = "DRAINING" /\ VerdictOf = "no"
          /\ UNCHANGED <<state, cancelState, failing>>
      BY <1>4 DEF RunVerdict, LifeInv, VerdictOf
    <2> DEFINE s == IF cancelState # NoCancel THEN cancelState
                    ELSE IF failing \/ run = "drainfailed" \/ tcCode # 0 THEN "FAILED"
                    ELSE "COMPLETED"
    <2>2. s \in Terminal /\ s \in Life!Verdicts
      BY <2>1 DEF Terminal, IInv, TypeOK, NoCancel, Life!Verdicts
    <2>3. finalizeWith(s, tcCode)
      BY <1>4 DEF RunVerdict
    <2> HIDE DEF s
    <2> QED
      BY <2>1, <2>2, <2>3, EarlyEnd DEF IInv
  <1>5. CASE RunFinalize
    <2>1. /\ run = "finalize" /\ run' = "close" /\ state' = verdict.state
          /\ UNCHANGED <<cancelState, failing, verdict>>
      BY <1>5 DEF RunFinalize
    <2>2. verdict.state \in Terminal
      BY DEF IInv, TypeOK
    <2>3. LifeInv' /\ UNCHANGED VerdictOf /\ VerdictOf = verdict.state
      BY <2>1 DEF LifeInv, VerdictOf
    <2> QED
      BY <2>1, <2>2, <2>3 DEF Life!End, Life!Ends, Life!Cancels, LifeInv, Terminal, Cancels
  <1>6. CASE RunClose
    BY <1>6 DEF RunClose, jobVars, LifeInv, VerdictOf, lifeVars
  <1> QED
    BY <1>1, <1>2, <1>3, <1>4, <1>5, <1>6 DEF Run

(* Nobody else sets the state; cancels and failures are recorded until there
   is a terminal state. *)
LEMMA LifeOthers ==
  ASSUME IInv, LifeInv, Next, ~Run
  PROVE  LifeInv' /\ [Life!Next]_lifeVars
  <1>1. /\ UNCHANGED <<state, verdict>>
        /\ run' = run \/ (run = "asleep" /\ run' = "drain")
        /\ \/ UNCHANGED <<cancelState, failing>>
           \/ failing' = TRUE /\ ~isTerminal(state) /\ UNCHANGED cancelState
           \/ /\ cancelState = NoCancel /\ ~isTerminal(state)
              /\ cancelState' \in Cancels /\ UNCHANGED failing
    <2>1. CASE DrainDeadline \/ MonitorLost \/ DeleteJob
      BY <2>1 DEF DrainDeadline, MonitorLost, DeleteJob, requestCancel, Broadcast, jobVars,
                  Cancels
    <2>2. CASE Consumer
      BY <2>2 DEF Consumer, enqueue, Overflow, WatcherError, WatcherDrained, abortFail,
                  Broadcast, jobVars, runVars
    <2>3. CASE \E u \in Uploaders : Uploader(u)
      BY <2>3 DEF Uploader, Dequeue, putOnce, Resolve, RemoveLocal, AbortPush, UploaderStop,
                  uploadFrame, abortFail, Broadcast
    <2>4. CASE Transcoder
      BY <2>4 DEF Transcoder, OpenChunk, FinishChunk, TruncateChunk, Exit, PostAnnounce,
                  gateFrame, tcFrame, jobVars, runVars
    <2>5. CASE \E a \in Announces : Handler(a)
      BY <2>5 DEF Handler, GateCheck, AnnounceGone, Relay, gateFrame, tcFrame, jobVars, runVars
    <2> QED
      BY <2>1, <2>2, <2>3, <2>4, <2>5 DEF Next
  <1>2. LifeInv' /\ UNCHANGED VerdictOf
    BY <1>1, LifeFrame
  <1>3. ~isTerminal(state) => state \notin Life!Ends
    BY DEF isTerminal, Terminal, Cancels, Life!Ends, Life!Cancels
  <1> QED
    BY <1>1, <1>2, <1>3 DEF Life!Next, Life!Fail, Life!Cancel, Life!Cancels, Cancels, NoCancel,
                            VerdictOf, lifeVars

(* The worker keeps the promise of JobLife: what happened before run() read
   cancelState, failing and the exit code decides how the job ends, the cancel
   first; nothing that happens between that look and finalize does, and no state
   follows the last. *)
THEOREM LifeImplementation == Spec => ImplementsJobLife
  <1>1. Init => LifeInv /\ Life!Init
    BY DEF Init, LifeInv, Life!Init, NoCancel
  <1>2. IInv /\ LifeInv /\ [Next]_vars => LifeInv' /\ [Life!Next]_lifeVars
    <2>1. ASSUME LifeInv, UNCHANGED vars PROVE LifeInv' /\ UNCHANGED lifeVars
      BY <2>1 DEF vars, jobVars, runVars, LifeInv, VerdictOf, lifeVars
    <2> QED
      BY <2>1, LifeRun, LifeOthers
  <1> QED
    BY <1>1, <1>2, Invariant, PTL
       DEF Spec, ImplementsJobLife, Life!Spec, Life!vars, lifeVars, VerdictOf
=============================================================================
