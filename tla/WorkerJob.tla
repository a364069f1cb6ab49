----------------------------- MODULE WorkerJob -----------------------------
(***************************************************************************)
(* One dispatched transcode on a worker (internal/workerd/job.go,          *)
(* pusher.go, watcher_linux.go and the gate of proxy.go): the run()        *)
(* goroutine, the watcher's consumer, the upload workers, the announce     *)
(* handlers blocked in gateWait, the lifeline monitor, and the transcoder  *)
(* they serve.  Every critical section of j.mu is one step; what a         *)
(* goroutine does between two of them is a step of its own whenever        *)
(* another goroutine can tell.  Time is abstracted: a timer may fire as    *)
(* soon as it is armed.                                                    *)
(***************************************************************************)
EXTENDS Integers, Sequences, FiniteSets

CONSTANTS
  Chunks,          \* basenames the transcoder may write in the out dir
  Uploaders,       \* the upload workers, cfg.push_parallel of them
  Announces,       \* announce requests the transcoder may post
  AnnounceNames,   \* the name lists an announce body may reference
  QueueCap,        \* cfg.push_queue_cap
  PushRetries      \* retries of a failed PUT

ASSUME ChunksAssumption == IsFiniteSet(Chunks)
ASSUME UploadersAssumption == IsFiniteSet(Uploaders)
(* An announce that references no chunk is forwarded like any other request. *)
ASSUME NamesAssumption == AnnounceNames \subseteq Seq(Chunks) \ {<<>>}
ASSUME BoundsAssumption ==
  /\ QueueCap \in Nat
  /\ PushRetries \in Nat

VARIABLES
  (* fields of the job struct, guarded by j.mu *)
  state, failing, cancelState, acked, pending,
  intakeClosed, queueClosed,
  queue,           \* the upload channel
  (* goroutines *)
  run,             \* where run() is
  verdict,         \* the arguments run() passes to finalize
  deadline,        \* the drain deadline has passed
  settled,         \* settleDelay sufficed: no event was left when it ended
  consumer,        \* the goroutine between the watcher and the queue
  uploader,        \* the upload workers
  (* the watcher, the out dir, the transcoder, the master *)
  watcher,         \* "none", "open" or "closed"
  events,          \* inotify events not yet consumed
  disk,            \* chunk files in the out dir
  open,            \* chunk files the transcoder has open for writing
  produced,        \* chunks the transcoder finished
  tc,              \* the transcoder process
  tcCode,          \* its exit code
  stored,          \* chunks masterd answered 2xx for, or stored unheard
  lost,            \* chunks given up on: no upload, or no room for one
  (* the gate: one handler goroutine for each announce *)
  gate,            \* where the handler is
  names,           \* the chunk names its body references, in order
  pos,             \* the name gateWait is at
  need             \* those of them finished when the announce was posted

jobVars  == <<state, failing, cancelState, acked, pending, intakeClosed,
              queueClosed, queue>>
runVars  == <<run, verdict, deadline, settled>>
diskVars == <<events, disk, open, produced>>
tcVars   == <<tc, tcCode>>
gateVars == <<gate, names, pos, need>>
vars == <<jobVars, runVars, consumer, uploader, watcher, diskVars,
          tcVars, stored, lost, gateVars>>

-----------------------------------------------------------------------------
(* Types *)

Cancels  == {"CANCELLED", "LOST"}
Terminal == {"COMPLETED", "FAILED"} \union Cancels
States   == {"PENDING", "PREPARING", "RUNNING", "DRAINING"} \union Terminal
NoCancel == "no"

RunPcs == {"new", "prepare", "abortcheck", "pushers", "spawn", "started",
           "wait", "settle", "intake", "drain", "asleep", "drained",
           "drainfailed", "finalize", "close", "done"}
UploaderPcs == {"none", "idle", "put", "ok", "err", "remove", "abort", "stopped"}
GatePcs == {"none", "check", "asleep", "passed", "refused", "relayed"}

Codes == {0, 1}  \* success and failure; signal deaths are failures

isTerminal(s) == s \in Terminal

TypeOK ==
  /\ state \in States
  /\ failing \in BOOLEAN
  /\ cancelState \in Cancels \union {NoCancel}
  /\ acked \subseteq Chunks
  /\ pending \in Int
  /\ intakeClosed \in BOOLEAN
  /\ queueClosed \in BOOLEAN
  /\ queue \in Seq(Chunks)
  /\ run \in RunPcs
  /\ verdict \in [state : Terminal, code : Codes]
  /\ deadline \in BOOLEAN
  /\ settled \in BOOLEAN
  /\ consumer \in {"none", "recv", "overflow", "stopped"}
  /\ uploader \in [Uploaders -> [at : UploaderPcs, name : Chunks \union {"no"},
                                 attempt : Nat]]
  /\ watcher \in {"none", "open", "closed"}
  /\ events \in Seq(Chunks)
  /\ disk \subseteq Chunks
  /\ open \subseteq Chunks
  /\ produced \subseteq Chunks
  /\ tc \in {"none", "running", "exited"}
  /\ tcCode \in Codes
  /\ stored \subseteq Chunks
  /\ lost \subseteq Chunks
  /\ gate \in [Announces -> GatePcs]
  /\ names \in [Announces -> Seq(Chunks)]
  /\ pos \in [Announces -> Nat]
  /\ need \in [Announces -> SUBSET Chunks]

-----------------------------------------------------------------------------
(* newJob: dirs created, PENDING published, run() about to start. *)

Idle == [at |-> "none", name |-> "no", attempt |-> 0]

Init ==
  /\ state = "PENDING" /\ failing = FALSE /\ cancelState = NoCancel
  /\ acked = {} /\ pending = 0 /\ intakeClosed = FALSE
  /\ queueClosed = FALSE
  /\ queue = <<>>
  /\ run = "new" /\ verdict = [state |-> "FAILED", code |-> 1]
  /\ deadline = FALSE /\ settled = FALSE
  /\ consumer = "none"
  /\ uploader = [u \in Uploaders |-> Idle]
  /\ watcher = "none" /\ events = <<>>
  /\ disk = {} /\ open = {} /\ produced = {}
  /\ tc = "none" /\ tcCode = 0
  /\ stored = {} /\ lost = {}
  /\ gate = [a \in Announces |-> "none"]
  /\ names = [a \in Announces |-> <<>>]
  /\ pos = [a \in Announces |-> 1]
  /\ need = [a \in Announces |-> {}]

(* The upload channel is closed by finalize, after it leaves j.mu. *)
ChanClosed == queueClosed /\ run = "done"

(* Waiters on j.cond: the announce handlers and run() in drainUploads. *)
WakeGates_RunOnly == UNCHANGED gate  \* mutant: Signal, which only run() hears

WakeGates ==
  gate' = [a \in Announces |-> IF gate[a] = "asleep" THEN "check" ELSE gate[a]]

Broadcast ==
  /\ WakeGates
  /\ run' = IF run = "asleep" THEN "drain" ELSE run

(* killProcess cancels procCtx: done by abortFail and requestCancel alone. *)
procCancelled == failing \/ cancelState # NoCancel

(* abortFail: the job is failing, its waiters wake, the transcoder is killed. *)
abortFail ==
  IF failing \/ isTerminal(state)
  THEN UNCHANGED <<failing, gate, run>>
  ELSE failing' = TRUE /\ Broadcast

(* terminalFor(true): the state an early failure path ends in. *)
terminalFor == IF cancelState # NoCancel THEN cancelState ELSE "FAILED"

-----------------------------------------------------------------------------
(* requestCancel, from DELETE /v1/jobs/<id> or from the lifeline monitor. *)

requestCancel(target) ==
  IF cancelState # NoCancel \/ isTerminal(state)
  THEN UNCHANGED <<cancelState, gate, run>>
  ELSE cancelState' = target /\ Broadcast

DeleteJob ==
  /\ requestCancel("CANCELLED")
  /\ UNCHANGED <<state, failing, acked, pending, intakeClosed, queueClosed,
                 queue, verdict, deadline, settled, consumer, uploader,
                 watcher, diskVars, tc, tcCode, stored, lost, names, pos, need>>

(* monitorLifeline: a tick finds the lifeline lost while the job is RUNNING, and
   requests the cancel once it has left j.mu, when the job may be DRAINING
   already.  Whether a client is connected is left open: any tick may find the
   lifeline lost (EventHub and Dispatch model the clients). *)
MonitorLost ==
  /\ state \in {"RUNNING", "DRAINING"}
  /\ cancelState = NoCancel
  /\ requestCancel("LOST")
  /\ UNCHANGED <<state, failing, acked, pending, intakeClosed, queueClosed,
                 queue, verdict, deadline, settled, consumer, uploader,
                 watcher, diskVars, tc, tcCode, stored, lost, names, pos, need>>

-----------------------------------------------------------------------------
(* run() *)

setState(s) == IF isTerminal(state) THEN UNCHANGED <<state, gate>>
               ELSE state' = s /\ WakeGates

(* Everything run() never touches directly. *)
runFrame == <<failing, cancelState, acked, pending, queue, deadline,
              events, disk, open, produced, tcCode, stored, lost,
              names, pos, need>>

finalizeWith(s, c) == verdict' = [state |-> s, code |-> c] /\ run' = "finalize"

RunPreparing ==
  /\ run = "new"
  /\ run' = "prepare"
  /\ setState("PREPARING")
  /\ UNCHANGED <<runFrame, settled, verdict, intakeClosed, queueClosed, consumer,
                 uploader, watcher, tc>>

(* Codec sync (best effort), spooling and argv substitution: any of them may
   fail, with or without a cancelled procCtx. *)
RunPrepare ==
  /\ run = "prepare"
  /\ \/ run' = "abortcheck" /\ UNCHANGED verdict
     \/ finalizeWith(terminalFor, 1)
  /\ UNCHANGED <<runFrame, settled, state, intakeClosed, queueClosed, consumer,
                 uploader, watcher, tc, gate>>

RunAbortCheck ==
  /\ run = "abortcheck"
  /\ IF cancelState # NoCancel THEN finalizeWith(cancelState, 1)
     ELSE IF failing THEN finalizeWith("FAILED", 1)
     ELSE run' = "pushers" /\ UNCHANGED verdict
  /\ UNCHANGED <<runFrame, settled, state, intakeClosed, queueClosed, consumer,
                 uploader, watcher, tc, gate>>

RunStartPushers ==
  /\ run = "pushers"
  /\ \/ /\ watcher' = "open" /\ consumer' = "recv"
        /\ uploader' = [u \in Uploaders |-> [uploader[u] EXCEPT !.at = "idle"]]
        /\ run' = "spawn" /\ UNCHANGED verdict
     \/ finalizeWith(terminalFor, 1) /\ UNCHANGED <<watcher, consumer, uploader>>
  /\ UNCHANGED <<runFrame, settled, state, intakeClosed, queueClosed,
                 tc, gate>>

(* cmd.Start refuses a context already done, unless the cancel comes late. *)
RunStartProcess ==
  /\ run = "spawn"
  /\ \/ tc' = "running" /\ run' = "started" /\ UNCHANGED verdict
     \/ finalizeWith(terminalFor, 1) /\ UNCHANGED tc
  /\ UNCHANGED <<runFrame, settled, state, intakeClosed, queueClosed, consumer,
                 uploader, watcher, gate>>

RunRunning ==
  /\ run = "started"
  /\ run' = "wait"
  /\ setState("RUNNING")
  /\ UNCHANGED <<runFrame, settled, verdict, intakeClosed, queueClosed, consumer,
                 uploader, watcher, tc>>

(* cmd.Wait returns once the process is gone, and with it its open files. *)
RunWait ==
  /\ run = "wait"
  /\ tc = "exited" /\ open = {}
  /\ run' = "settle"
  /\ UNCHANGED <<runFrame, settled, verdict, state, intakeClosed, queueClosed, consumer,
                 uploader, watcher, tc, gate>>

(* settleDelay, then watcher.Close and DRAINING. *)
RunSettle ==
  /\ run = "settle"
  /\ settled' = (events = <<>>)
  /\ watcher' = "closed"
  /\ setState("DRAINING")
  /\ run' = "intake"
  /\ UNCHANGED <<runFrame, verdict, intakeClosed, queueClosed, consumer,
                 uploader, tc>>

(* drainUploads: close the intake, then wait on j.cond. *)
RunCloseIntake ==
  /\ run = "intake"
  /\ intakeClosed' = TRUE
  /\ run' = "drain"
  /\ UNCHANGED <<runFrame, settled, verdict, state, queueClosed, consumer,
                 uploader, watcher, tc, gate>>

RunDrain_NoPending ==  \* mutant: does not wait for the uploads
  /\ run = "drain"
  /\ run' = IF failing THEN "drainfailed" ELSE "drained"
  /\ UNCHANGED <<runFrame, settled, verdict, state, intakeClosed, queueClosed,
                 consumer, uploader, watcher, tc, gate>>

RunDrain_NoDeadline ==  \* mutant: waits for the uploads without a bound
  /\ run = "drain"
  /\ run' = IF pending > 0 /\ ~failing THEN "asleep"
            ELSE IF failing THEN "drainfailed" ELSE "drained"
  /\ UNCHANGED <<runFrame, settled, verdict, state, intakeClosed, queueClosed,
                 consumer, uploader, watcher, tc, gate>>

RunDrain ==
  /\ run = "drain"
  /\ run' = IF pending > 0 /\ ~failing /\ ~deadline THEN "asleep"
            ELSE IF failing \/ pending > 0 THEN "drainfailed"
            ELSE "drained"
  /\ UNCHANGED <<runFrame, settled, verdict, state, intakeClosed, queueClosed,
                 consumer, uploader, watcher, tc, gate>>

(* The timer of drainUploads: the deadline passes and it broadcasts. *)
DrainDeadline_Silent ==  \* mutant: the timer does not broadcast
  /\ run \in {"drain", "asleep"} /\ ~deadline
  /\ deadline' = TRUE
  /\ UNCHANGED <<jobVars, run, verdict, settled, consumer, uploader,
                 watcher, diskVars, tcVars, stored, lost, gateVars>>

DrainDeadline ==
  /\ run \in {"drain", "asleep"} /\ ~deadline
  /\ deadline' = TRUE
  /\ Broadcast
  /\ UNCHANGED <<jobVars, verdict, settled, consumer, uploader, watcher,
                 diskVars, tcVars, stored, lost, names, pos, need>>

RunVerdict_FailureFirst ==  \* mutant: a cancelled transcoder, killed, has failed
  /\ run \in {"drained", "drainfailed"}
  /\ finalizeWith(
       IF failing \/ run = "drainfailed" \/ tcCode # 0 THEN "FAILED"
       ELSE IF cancelState # NoCancel THEN cancelState
       ELSE "COMPLETED", tcCode)
  /\ UNCHANGED <<runFrame, settled, state, intakeClosed, queueClosed, consumer,
                 uploader, watcher, tc, gate>>

RunVerdict ==
  /\ run \in {"drained", "drainfailed"}
  /\ finalizeWith(
       IF cancelState # NoCancel THEN cancelState
       ELSE IF failing \/ run = "drainfailed" \/ tcCode # 0 THEN "FAILED"
       ELSE "COMPLETED", tcCode)
  /\ UNCHANGED <<runFrame, settled, state, intakeClosed, queueClosed, consumer,
                 uploader, watcher, tc, gate>>

(* finalize: under j.mu, then the rest.  run() is its only caller, once. *)
RunFinalize_KeepQueue ==  \* mutant: the queue is never closed
  /\ run = "finalize"
  /\ state' = verdict.state
  /\ intakeClosed' = TRUE
  /\ WakeGates
  /\ run' = "close"
  /\ UNCHANGED <<runFrame, settled, verdict, queueClosed, consumer, uploader,
                 watcher, tc>>

RunFinalize ==
  /\ run = "finalize"
  /\ state' = verdict.state
  /\ intakeClosed' = TRUE
  /\ queueClosed' = (watcher # "none")
  /\ WakeGates
  /\ run' = "close"
  /\ UNCHANGED <<runFrame, settled, verdict, consumer, uploader,
                 watcher, tc>>

RunClose ==
  /\ run = "close"
  /\ run' = "done"
  /\ watcher' = IF watcher = "none" THEN "none" ELSE "closed"
  /\ disk' = IF state \in Cancels THEN {} ELSE disk
  /\ UNCHANGED <<jobVars, verdict, deadline, settled, consumer, uploader,
                 events, open, produced, tcVars, stored, lost, gateVars>>

-----------------------------------------------------------------------------
(* The watcher's consumer goroutine and enqueue. *)

notWanted_IntakeOpen(name) ==  \* mutant: enqueues during the drain
  failing \/ isTerminal(state) \/ name \in acked

notWanted_Always(name) == name \in acked  \* mutant: enqueues whatever the state

notWanted(name) ==
  intakeClosed \/ failing \/ isTerminal(state) \/ name \in acked

enqueue ==
  /\ consumer = "recv" /\ events # <<>>
  /\ events' = Tail(events)
  /\ LET name == Head(events) IN
     IF notWanted(name) THEN UNCHANGED <<queue, pending, consumer, lost>>
     ELSE IF Len(queue) < QueueCap
     THEN /\ queue' = Append(queue, name)
          /\ pending' = pending + 1
          /\ UNCHANGED <<consumer, lost>>
     ELSE /\ consumer' = "overflow"
          /\ lost' = lost \union {name}
          /\ UNCHANGED <<queue, pending>>
  /\ UNCHANGED <<state, failing, cancelState, acked, intakeClosed, queueClosed,
                 runVars, uploader, watcher, disk,
                 open, produced, tcVars, stored, gateVars>>

(* The queue was full: the job fails. *)
Overflow ==
  /\ consumer = "overflow"
  /\ consumer' = "recv"
  /\ abortFail
  /\ UNCHANGED <<state, cancelState, acked, pending, intakeClosed, queueClosed,
                 queue, verdict, deadline, settled, uploader,
                 watcher, diskVars, tc, tcCode, stored, lost, names, pos, need>>

(* A fatal watcher error (kernel queue overflow, read error); one still pending
   when the watcher is closed is not forgotten. *)
WatcherError ==
  /\ consumer = "recv"
  /\ consumer' = "stopped"
  /\ abortFail
  /\ UNCHANGED <<state, cancelState, acked, pending, intakeClosed, queueClosed,
                 queue, verdict, deadline, settled, uploader,
                 watcher, diskVars, tc, tcCode, stored, lost, names, pos, need>>

(* The watcher is closed: events still in the kernel are gone, and once the
   channel is drained the consumer returns. *)
WatcherDrained ==
  /\ consumer = "recv" /\ watcher = "closed"
  /\ events' = <<>>
  /\ consumer' = "stopped"
  /\ UNCHANGED <<jobVars, runVars, uploader, watcher, disk, open,
                 produced, tcVars, stored, lost, gateVars>>

-----------------------------------------------------------------------------
(* uploadWorker, pushFile and putOnce *)

uploadFrame == <<state, cancelState, intakeClosed, queueClosed,
                 verdict, deadline, settled, consumer, watcher, events, open,
                 produced, tc, tcCode, names, pos, need>>

Dequeue(u) ==
  /\ uploader[u].at = "idle" /\ queue # <<>>
  /\ uploader' = [uploader EXCEPT
       ![u] = [at |-> "put", name |-> Head(queue), attempt |-> 0]]
  /\ queue' = Tail(queue)
  /\ UNCHANGED <<uploadFrame, failing, acked, pending, run, disk, stored,
                 lost, gate>>

(* One PUT.  The file may be gone; masterd may answer 2xx, 410 or an error,
   and may have stored the chunk when its answer is lost. *)
resolved(u, at) == uploader' = [uploader EXCEPT ![u].at = at]

retry(u) ==
  IF uploader[u].attempt < PushRetries
  THEN uploader' = [uploader EXCEPT ![u].attempt = @ + 1]
  ELSE resolved(u, "err")

putOnce(u) ==
  LET name == uploader[u].name IN
  /\ uploader[u].at = "put"
  /\ \/ name \in disk /\ resolved(u, "ok") /\ stored' = stored \union {name}
     \/ name \in disk /\ retry(u) /\ stored' = stored \union {name}
     \/ name \in disk /\ retry(u) /\ UNCHANGED stored
     \/ resolved(u, "err") /\ UNCHANGED stored
  /\ UNCHANGED <<uploadFrame, failing, acked, pending, run, queue, disk,
                 lost, gate>>

(* Under j.mu: the upload is resolved, and recorded when masterd ACKed it. *)
Resolve_AlwaysAck(u) ==  \* mutant: records the ACK of a failed PUT
  /\ uploader[u].at \in {"ok", "err"}
  /\ pending' = pending - 1
  /\ acked' = acked \union {uploader[u].name}
  /\ resolved(u, IF uploader[u].at = "ok" THEN "remove" ELSE "abort")
  /\ Broadcast
  /\ UNCHANGED <<uploadFrame, failing, queue, disk, stored, lost>>

Resolve_AlwaysRemove(u) ==  \* mutant: deletes the local copy of a failed PUT
  LET ok == uploader[u].at = "ok" IN
  /\ uploader[u].at \in {"ok", "err"}
  /\ pending' = pending - 1
  /\ acked' = IF ok THEN acked \union {uploader[u].name} ELSE acked
  /\ lost' = IF ok THEN lost ELSE lost \union {uploader[u].name}
  /\ resolved(u, "remove")
  /\ Broadcast
  /\ UNCHANGED <<uploadFrame, failing, queue, disk, stored>>

Resolve_LeakPending(u) ==  \* mutant: a failed PUT stays pending
  LET ok == uploader[u].at = "ok" IN
  /\ uploader[u].at \in {"ok", "err"}
  /\ pending' = IF ok THEN pending - 1 ELSE pending
  /\ acked' = IF ok THEN acked \union {uploader[u].name} ELSE acked
  /\ lost' = IF ok THEN lost ELSE lost \union {uploader[u].name}
  /\ resolved(u, IF ok THEN "remove" ELSE "abort")
  /\ Broadcast
  /\ UNCHANGED <<uploadFrame, failing, queue, disk, stored>>

Resolve(u) ==
  LET ok == uploader[u].at = "ok" IN
  /\ uploader[u].at \in {"ok", "err"}
  /\ pending' = pending - 1
  /\ acked' = IF ok THEN acked \union {uploader[u].name} ELSE acked
  /\ lost' = IF ok THEN lost ELSE lost \union {uploader[u].name}
  /\ resolved(u, IF ok THEN "remove" ELSE "abort")
  /\ Broadcast
  /\ UNCHANGED <<uploadFrame, failing, queue, disk, stored>>

(* Then the local copy is deleted, or the job fails. *)
RemoveLocal(u) ==
  /\ uploader[u].at = "remove"
  /\ disk' = disk \ {uploader[u].name}
  /\ uploader' = [uploader EXCEPT ![u] = [Idle EXCEPT !.at = "idle"]]
  /\ UNCHANGED <<uploadFrame, failing, acked, pending, run, queue, stored,
                 lost, gate>>

AbortPush(u) ==
  /\ uploader[u].at = "abort"
  /\ uploader' = [uploader EXCEPT ![u] = [Idle EXCEPT !.at = "idle"]]
  /\ abortFail
  /\ UNCHANGED <<uploadFrame, acked, pending, queue, disk, stored, lost>>

UploaderStop(u) ==
  /\ uploader[u].at = "idle" /\ queue = <<>> /\ ChanClosed
  /\ resolved(u, "stopped")
  /\ UNCHANGED <<uploadFrame, failing, acked, pending, run, queue, disk,
                 stored, lost, gate>>

-----------------------------------------------------------------------------
(* The transcoder (external): it writes each chunk once, in its out dir, posts
   announces without waiting for earlier ones, and exits on its own or when it
   is killed.  The kernel reports every close of a file open for writing, the
   ones at process exit included. *)

tcFrame == <<jobVars, runVars, consumer, uploader, watcher,
             stored, lost>>

closeWrite(c) ==
  /\ c \in open
  /\ open' = open \ {c}
  /\ events' = IF watcher = "open" THEN Append(events, c) ELSE events

OpenChunk(c) ==
  /\ tc = "running"
  /\ c \notin open \union produced
  /\ disk' = disk \union {c}
  /\ open' = open \union {c}
  /\ UNCHANGED <<tcFrame, tc, tcCode, events, produced, gateVars>>

FinishChunk(c) ==
  /\ tc = "running"
  /\ closeWrite(c)
  /\ produced' = produced \union {c}
  /\ UNCHANGED <<tcFrame, tc, tcCode, disk, gateVars>>

Exit(code) ==
  /\ tc = "running"
  /\ tc' = "exited"
  /\ tcCode' = code
  /\ UNCHANGED <<tcFrame, diskVars, gateVars>>

TruncateChunk(c) ==
  /\ tc = "exited"
  /\ closeWrite(c)
  /\ UNCHANGED <<tcFrame, tc, tcCode, disk, produced, gateVars>>

-----------------------------------------------------------------------------
(* relayAnnounce and gateWait.  The handler looks at one name at a time; the
   names it has passed are never looked at again. *)

gateFrame == <<tcFrame, tc, tcCode, diskVars>>

gateBroken ==
  failing \/ cancelState # NoCancel \/ (isTerminal(state) /\ state # "COMPLETED")

rangeOf(s) == {s[i] : i \in 1..Len(s)}

PostAnnounce(a, body) ==
  /\ tc = "running"
  /\ gate[a] = "none"
  /\ gate' = [gate EXCEPT ![a] = "check"]
  /\ names' = [names EXCEPT ![a] = body]
  /\ need' = [need EXCEPT ![a] = rangeOf(body) \intersect produced]
  /\ UNCHANGED <<gateFrame, pos>>

passName(a) ==
  /\ pos' = [pos EXCEPT ![a] = @ + 1]
  /\ gate' = IF pos[a] < Len(names[a]) THEN gate
             ELSE [gate EXCEPT ![a] = "passed"]

GateCheck_LastOnly(a) ==  \* mutant: waits for the last chunk of the list only
  /\ gate[a] = "check"
  /\ LET name == names[a][pos[a]] IN
     IF name \in acked \/ pos[a] < Len(names[a]) THEN passName(a)
     ELSE IF gateBroken THEN gate' = [gate EXCEPT ![a] = "refused"] /\ UNCHANGED pos
     ELSE IF name \notin disk THEN passName(a)
     ELSE gate' = [gate EXCEPT ![a] = "asleep"] /\ UNCHANGED pos
  /\ UNCHANGED <<gateFrame, names, need>>

GateCheck(a) ==
  /\ gate[a] = "check"
  /\ LET name == names[a][pos[a]] IN
     IF name \in acked THEN passName(a)
     ELSE IF gateBroken THEN gate' = [gate EXCEPT ![a] = "refused"] /\ UNCHANGED pos
     ELSE IF name \notin disk THEN passName(a)
     ELSE gate' = [gate EXCEPT ![a] = "asleep"] /\ UNCHANGED pos
  /\ UNCHANGED <<gateFrame, names, need>>

(* The transcoder went away: its connection's context wakes the handler,
   which gives up at the name it waits for. *)
AnnounceGone(a) ==
  /\ tc = "exited"
  /\ gate[a] \in {"check", "asleep"}
  /\ names[a][pos[a]] \notin acked
  /\ gate' = [gate EXCEPT ![a] = "refused"]
  /\ UNCHANGED <<gateFrame, names, pos, need>>

(* relay: the announce is sent on.  Whether the hop succeeds is for the
   transcoder to see; the worker keeps nothing of it. *)
Relay(a) ==
  /\ gate[a] = "passed"
  /\ gate' = [gate EXCEPT ![a] = "relayed"]
  /\ UNCHANGED <<gateFrame, names, pos, need>>

-----------------------------------------------------------------------------
Run == \/ RunPreparing \/ RunPrepare \/ RunAbortCheck \/ RunStartPushers
       \/ RunStartProcess \/ RunRunning \/ RunWait \/ RunSettle
       \/ RunCloseIntake \/ RunDrain \/ RunVerdict \/ RunFinalize \/ RunClose

Consumer == enqueue \/ Overflow \/ WatcherError \/ WatcherDrained

Uploader(u) == Dequeue(u) \/ putOnce(u) \/ Resolve(u) \/ RemoveLocal(u)
               \/ AbortPush(u) \/ UploaderStop(u)

Handler(a) == GateCheck(a) \/ AnnounceGone(a) \/ Relay(a)

Transcoder ==
  \/ \E c \in Chunks : OpenChunk(c) \/ FinishChunk(c) \/ TruncateChunk(c)
  \/ \E code \in Codes : Exit(code)
  \/ \E a \in Announces : \E body \in AnnounceNames : PostAnnounce(a, body)

Next == \/ Run \/ DrainDeadline \/ Consumer \/ MonitorLost \/ DeleteJob \/ Transcoder
        \/ \E u \in Uploaders : Uploader(u)
        \/ \E a \in Announces : Handler(a)

Spec == Init /\ [][Next]_vars

-----------------------------------------------------------------------------
(* Safety *)

(* THE invariant of gateWait (job.go): an announce let through names no chunk
   that was finished when it was posted and that masterd does not hold. *)
ChunkBeforeAnnounce ==
  \A a \in Announces :
    gate[a] \in {"passed", "relayed"} => need[a] \subseteq stored

(* uploadWorker deletes a chunk only after masterd ACKed it: a finished chunk
   without ACK is in the out dir until a cancel removes the whole job dir. *)
UnackedKept == state \notin Cancels => produced \ acked \subseteq disk

(* j.pending counts the uploads queued or in the hands of a worker: an upload
   counted twice or forgotten would stall or cut short the drain. *)
PendingExact ==
  pending = Len(queue)
            + Cardinality({u \in Uploaders : uploader[u].at \in {"put", "ok", "err"}})

(* A job is COMPLETED only when no upload is queued or in flight, whatever
   events the watcher still delivers after the drain began. *)
CompletedDrained ==
  state = "COMPLETED" =>
    /\ queue = <<>>
    /\ \A u \in Uploaders : uploader[u].at \notin {"put", "ok", "err"}

(* A COMPLETED job whose settle delay sufficed has every finished chunk at
   masterd, but for those a worker gave up on (see CompletedUploaded). *)
CompletedAccounted ==
  state = "COMPLETED" /\ settled => produced \subseteq stored \union lost

(* enqueue never sends on the channel finalize closed (a panic in Go). *)
NoSendOnClosed == [][Len(queue') > Len(queue) => ~ChanClosed]_vars

(* j.cond: whoever sleeps on it waits for something that has not happened yet.
   Every change of the state that drainUploads and gateWait test comes with a
   broadcast, so nobody sleeps through the one it waited for. *)
NoLostWakeup ==
  /\ run = "asleep" => pending > 0 /\ ~failing /\ ~deadline
  /\ \A a \in Announces : gate[a] = "asleep" =>
       names[a][pos[a]] \in disk \ acked /\ ~gateBroken

(* The worker implements the promise of the segment plane. *)
phaseOf(a) == CASE gate[a] \in {"check", "asleep"} -> "held"
                [] gate[a] \in {"passed", "relayed"} -> "passed"
                [] OTHER -> gate[a]

Promise == INSTANCE ChunkGate WITH phase <- [a \in Announces |-> phaseOf(a)]

ImplementsChunkGate == Promise!Spec

(* run() implements the life of a job: of a cancel, a failure and the exit of
   the transcoder, those that came before its verdict decide it, the cancel
   first, and those that come between the verdict and finalize do not. *)
Life == INSTANCE JobLife WITH
          cancel <- cancelState,
          verdict <- IF run \in {"finalize", "close", "done"} THEN verdict.state ELSE "no"

ImplementsJobLife == Life!Spec

(* What the sources say and the code does not keep: see the README. *)

(* "run() then finalizes with FAILED" (abortFail): a job that gave up on a
   chunk is never COMPLETED. *)
CompletedUploaded == state = "COMPLETED" => lost = {}

-----------------------------------------------------------------------------
(* Liveness.  Goroutines are scheduled, timers fire, a transcoder that runs
   finishes the chunk it writes, and one that is killed exits (SIGTERM, then
   SIGKILL).  Nothing else is fair: no transcoder has to exit on its own, and
   the uploads only where a property says so. *)

Scheduling ==
  /\ WF_vars(Run)
  /\ WF_vars(DrainDeadline)
  /\ WF_vars(enqueue) /\ WF_vars(Overflow) /\ WF_vars(WatcherDrained)
  /\ \A a \in Announces : WF_vars(GateCheck(a)) /\ WF_vars(AnnounceGone(a))
  /\ \A c \in Chunks : WF_vars(FinishChunk(c)) /\ WF_vars(TruncateChunk(c))
  /\ WF_vars(procCancelled /\ \E code \in Codes : Exit(code))

UploadsEnd == \A u \in Uploaders : WF_vars(Uploader(u))

FairSpec == Spec /\ Scheduling

(* The drain ends even when masterd answers no upload. *)
DrainEnds == run = "intake" ~> run = "done"

(* So does a failing or cancelled job, wherever it was. *)
AbortEnds == procCancelled ~> isTerminal(state)

(* As long as every PUT attempt ends, no announce is held forever. *)
HeldAnswered ==
  UploadsEnd => \A a \in Announces :
    gate[a] = "check" ~> gate[a] \notin {"check", "asleep"}

(* And once the job is over every upload worker that was started returns. *)
UploadersReturn ==
  UploadsEnd => run = "done" ~> \A u \in Uploaders : uploader[u].at \in {"none", "stopped"}
=============================================================================
