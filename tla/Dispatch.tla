------------------------------ MODULE Dispatch ------------------------------
(***************************************************************************)
(* One transcode dispatched by the shim (internal/shim/shim.go): register  *)
(* a session with masterd, pick a worker from the health masterd's prober  *)
(* has cached (internal/masterd/workers.go), POST the job, mirror its      *)
(* events stream, and exit with its code, or fall back to the local        *)
(* transcoder.                                                             *)
(* masterd's session (SegmentStore) and the worker's job and events stream *)
(* (WorkerJob, EventHub) are reduced to what the shim can tell.  Requests  *)
(* and answers may be lost, the stream's connection may go silent, the     *)
(* worker may crash and come back, and Plex Media Server may send SIGTERM  *)
(* or SIGKILL at any time.  Time is abstracted: a timeout may fire as soon *)
(* as it is armed, unless the comment of an action says otherwise.         *)
(***************************************************************************)
EXTENDS Naturals, Sequences

CONSTANTS
  WireCap,     \* bound: events on their way to the shim
  InboxCap     \* capacity of runEventLoop's events channel

ASSUME CapsAssumption == WireCap \in Nat \ {0} /\ InboxCap \in Nat \ {0}

VARIABLES
  (* the shim *)
  shim,        \* where tryRemote is
  todo, then,  \* cleanup calls left, and what the shim does after them
  outcome,     \* how the shim ended
  gotEvent,
  sigterm,     \* a SIGTERM waits in sigCh
  inbox,       \* results of ReadEvent not yet taken by the loop
  idle,        \* liveCtx is done
  (* masterd *)
  session,
  segment,     \* a chunk of the job was stored in the session directory
  offered,     \* the cached status passes pickWorker: healthy, with room
  (* the worker *)
  up,          \* prt-workerd runs
  known,       \* the job is in its table
  post,        \* POST /v1/jobs
  job, code, cancelState, failing,
  attached,    \* a handler of the events stream is counted in j.clients
  conn, wire   \* the stream's connection and what is on its way

shimVars   == <<shim, todo, then, outcome, gotEvent, sigterm, inbox, idle>>
healthVars == <<offered, up>>
masterVars == <<session, segment, healthVars>>
jobVars    == <<post, known, job, code, cancelState, failing>>
linkVars   == <<attached, conn, wire>>
vars == <<shimVars, masterVars, jobVars, linkVars>>

Cancels  == {"CANCELLED", "LOST"}
Terminal == {"COMPLETED", "FAILED"} \union Cancels
Active   == {"PENDING", "RUNNING", "DRAINING"}  \* PENDING stands for PREPARING too
Codes    == {"0", "1"}
Outcomes == Codes \union {"75", "143", "local", "killed"}

TypeOK ==
  /\ shim \in {"register", "workers", "dispatch", "posted", "open", "loop",
               "cleanup", "over"}
  /\ todo \in Seq({"cancel", "delete"}) /\ then \in Outcomes \union {"none"}
  /\ outcome \in Outcomes \union {"none"}
  /\ shim = "over" <=> outcome # "none"
  /\ gotEvent \in BOOLEAN /\ sigterm \in BOOLEAN /\ idle \in BOOLEAN
  /\ inbox \in Seq({"event", "0", "1", "error"}) /\ Len(inbox) <= InboxCap
  /\ session \in {"none", "live", "closing", "gone"} /\ segment \in BOOLEAN
  /\ offered \in BOOLEAN /\ up \in BOOLEAN /\ known \in BOOLEAN /\ (known => up)
  /\ post \in {"none", "sent", "accepted", "refused"}
  /\ job \in {"none", "crashed"} \union Active \union Terminal
  /\ code \in Codes /\ cancelState \in Cancels \union {"no"} /\ failing \in BOOLEAN
  /\ attached \in BOOLEAN /\ conn \in {"none", "up", "silent", "closed"}
  /\ wire \in Seq({"event", "0", "1", "eof"})

Init ==
  /\ shim = "register" /\ todo = <<>> /\ then = "none" /\ outcome = "none"
  /\ gotEvent = FALSE /\ sigterm = FALSE /\ inbox = <<>> /\ idle = FALSE
  /\ session = "none" /\ segment = FALSE
  /\ offered \in BOOLEAN /\ up \in BOOLEAN /\ known = FALSE
  /\ post = "none" /\ job = "none" /\ code = "1" /\ cancelState = "no"
  /\ failing = FALSE
  /\ attached = FALSE /\ conn = "none" /\ wire = <<>>

-----------------------------------------------------------------------------
(* The shim ends: its process, or the process image, and with it the stream. *)

hangUp == conn' = IF conn = "none" THEN "none" ELSE "closed"

finish(how) ==
  /\ shim' = "over" /\ outcome' = how
  /\ todo' = <<>> /\ then' = "none"
  /\ hangUp
  /\ UNCHANGED <<gotEvent, sigterm, inbox, idle, attached, wire>>

cleanup(calls, how) ==
  /\ shim' = "cleanup" /\ todo' = calls /\ then' = how
  /\ UNCHANGED <<outcome, gotEvent, sigterm, inbox, idle, linkVars>>

goOn(pc) ==
  /\ shim' = pc
  /\ UNCHANGED <<todo, then, outcome, gotEvent, sigterm, inbox, idle>>

-----------------------------------------------------------------------------
(* tryRemote, up to the dispatch *)

(* The session may be registered although the answer is lost; nothing then
   closes it but its TTL. *)
Register ==
  /\ shim = "register"
  /\ \/ session' = "live" /\ goOn("workers") /\ UNCHANGED linkVars
     \/ session' \in {"none", "live"} /\ finish("local")
  /\ UNCHANGED <<segment, healthVars, jobVars>>

(* The first worker of the list that is healthy and has room: here the only one. *)
pickWorker == offered

(* The cached status may be older than the worker's last crash or restart.
   The list may be empty, or the request for it fail. *)
PickWorker ==
  /\ shim = "workers"
  /\ \/ pickWorker /\ goOn("dispatch") /\ UNCHANGED linkVars
     \/ cleanup(<<"delete">>, "local")
  /\ UNCHANGED <<masterVars, jobVars>>

PostJob ==
  /\ shim = "dispatch"
  /\ goOn("posted")
  /\ post' = "sent"
  /\ UNCHANGED <<masterVars, known, job, code, cancelState, failing, linkVars>>

(* 2xx; or any other answer, a transport error or a timeout. *)
Posted ==
  /\ shim = "posted"
  /\ \/ post = "accepted" /\ goOn("open") /\ UNCHANGED linkVars
     \/ cleanup(<<"delete">>, "local")
  /\ UNCHANGED <<masterVars, jobVars>>

(* The subscriber's channel starts with the snapshot: at least PENDING, and
   the exit event of a job that is over. *)
OpenEvents ==
  /\ shim = "open"
  /\ known
  /\ goOn("loop")
  /\ conn' = "up"
  /\ attached' = (job \in Active)
  /\ wire' = IF job \in Active THEN <<"event">> ELSE <<"event", code, "eof">>
  /\ UNCHANGED <<masterVars, jobVars>>

OpenFails ==
  /\ shim = "open"
  /\ cleanup(<<"cancel", "delete">>, "local")
  /\ UNCHANGED <<masterVars, jobVars>>

-----------------------------------------------------------------------------
(* runEventLoop: the reader goroutine, the liveness watch and the loop. *)

readerDone == inbox # <<>> /\ inbox[Len(inbox)] = "error"

ReadEvent ==
  /\ shim = "loop" /\ conn = "up" /\ ~readerDone
  /\ wire # <<>> /\ Len(inbox) < InboxCap
  /\ wire' = Tail(wire)
  /\ inbox' = Append(inbox, IF Head(wire) = "eof" THEN "error" ELSE Head(wire))
  /\ conn' = IF Head(wire) = "eof" THEN "closed" ELSE "up"
  /\ UNCHANGED <<shim, todo, then, outcome, gotEvent, sigterm, idle, masterVars,
                 jobVars, attached>>

(* A line of stderr that passed mirrorStderr's limit but is longer than the
   reader's once encoded: the reader gives up on a healthy stream. *)
ReadTooLong ==
  /\ shim = "loop" /\ conn = "up" /\ ~readerDone
  /\ wire # <<>> /\ Head(wire) = "event" /\ Len(inbox) < InboxCap
  /\ wire' = Tail(wire)
  /\ inbox' = Append(inbox, "error")
  /\ UNCHANGED <<shim, todo, then, outcome, gotEvent, sigterm, idle, masterVars,
                 jobVars, attached, conn>>

(* PeerTimeout without a successful read.  Heartbeats keep a healthy stream
   alive, so the connection is silent, or the stream has ended, or the reader
   is blocked because the loop is (in a write to its stderr). *)
LivenessFires_OnlyClosed ==  \* mutant: a silent connection is not noticed
  /\ shim = "loop" /\ ~idle
  /\ conn = "closed"
  /\ idle' = TRUE
  /\ UNCHANGED <<shim, todo, then, outcome, gotEvent, sigterm, inbox, masterVars,
                 jobVars, linkVars>>

LivenessFires ==
  /\ shim = "loop" /\ ~idle
  /\ conn \in {"silent", "closed"} \/ Len(inbox) = InboxCap \/ readerDone
  /\ idle' = TRUE
  /\ UNCHANGED <<shim, todo, then, outcome, gotEvent, sigterm, inbox, masterVars,
                 jobVars, linkVars>>

(* The stream is lost: before the first event the job can still run locally. *)
lost_AsSuccess ==  \* mutant: the end of the stream is taken for the end of the job
  IF gotEvent THEN finish("0") ELSE cleanup(<<"cancel", "delete">>, "local")

lost ==
  IF gotEvent THEN finish("75") ELSE cleanup(<<"cancel", "delete">>, "local")

TakeEvent ==
  /\ shim = "loop" /\ inbox # <<>>
  /\ LET res == Head(inbox) IN
     \/ res = "error" /\ lost
     \/ /\ res = "event"
        /\ gotEvent' = TRUE
        /\ inbox' = Tail(inbox)
        /\ UNCHANGED <<shim, todo, then, outcome, sigterm, idle, linkVars>>
     \/ /\ res \in Codes
        /\ gotEvent' = TRUE
        /\ shim' = "cleanup" /\ todo' = <<"delete">> /\ then' = res
        /\ UNCHANGED <<outcome, sigterm, inbox, idle, linkVars>>
  /\ UNCHANGED <<masterVars, jobVars>>

TakeIdle ==
  /\ shim = "loop" /\ idle
  /\ lost
  /\ UNCHANGED <<masterVars, jobVars>>

TakeSigterm ==
  /\ shim = "loop" /\ sigterm
  /\ cleanup(<<"cancel">>, "143")
  /\ UNCHANGED <<masterVars, jobVars>>

-----------------------------------------------------------------------------
(* cancelRemoteJob and deleteSession are best effort: either may be lost. *)

requestCancel(target) ==
  IF job \in Active /\ cancelState = "no" THEN cancelState' = target
  ELSE UNCHANGED cancelState

CancelRemoteJob ==
  /\ shim = "cleanup" /\ todo # <<>> /\ Head(todo) = "cancel"
  /\ todo' = Tail(todo)
  /\ requestCancel("CANCELLED") \/ UNCHANGED cancelState
  /\ UNCHANGED <<shim, then, outcome, gotEvent, sigterm, inbox, idle, masterVars,
                 post, known, job, code, failing, linkVars>>

DeleteSession ==
  /\ shim = "cleanup" /\ todo # <<>> /\ Head(todo) = "delete"
  /\ todo' = Tail(todo)
  /\ session' \in {session, IF session = "live" THEN "closing" ELSE session}
  /\ UNCHANGED <<shim, then, outcome, gotEvent, sigterm, inbox, idle, segment,
                 healthVars, jobVars, linkVars>>

CleanedUp ==
  /\ shim = "cleanup" /\ todo = <<>>
  /\ finish(then)
  /\ UNCHANGED <<masterVars, jobVars>>

(* Plex Media Server stops the transcoder: SIGTERM kills the shim until
   tryRemote traps it, right before the dispatch. *)
Sigterm ==
  /\ shim # "over" /\ ~sigterm
  /\ IF shim \in {"register", "workers"} THEN finish("killed")
     ELSE /\ sigterm' = TRUE
          /\ UNCHANGED <<shim, todo, then, outcome, gotEvent, inbox, idle, linkVars>>
  /\ UNCHANGED <<masterVars, jobVars>>

Sigkill ==
  /\ shim # "over"
  /\ finish("killed")
  /\ UNCHANGED <<masterVars, jobVars>>

-----------------------------------------------------------------------------
(* masterd *)

(* The drain window of a closed session is over. *)
DrainOver ==
  /\ session = "closing"
  /\ session' = "gone"
  /\ UNCHANGED <<shimVars, segment, healthVars, jobVars, linkVars>>

(* No PUT for session_ttl, 600 s by default: longer than the spawn budget and
   the drain of a job take, not than a job may spool its input or be throttled. *)
Expire_Never ==  \* mutant: no reaper
  FALSE /\ UNCHANGED vars

Expire ==
  /\ session = "live"
  /\ shim \in {"loop", "over"} /\ job # "DRAINING"
  /\ session' = "gone"
  /\ UNCHANGED <<shimVars, segment, healthVars, jobVars, linkVars>>

(* What probeWorker makes of GET /v1/health, as pickWorker will see it: a worker
   that is up may be full or late; any failure is an unhealthy status. *)
probeWorker == IF up THEN BOOLEAN ELSE {FALSE}

(* One round of runProber: the result is stored, whatever it is.  What happens
   between the answer and its storing is what happens after it: nobody reads the
   cache in between but the shim, which may be late itself. *)
ProbeWorker_OnlyHealthy ==  \* mutant: a failed probe leaves the status it found
  /\ up
  /\ offered' \in BOOLEAN
  /\ UNCHANGED <<shimVars, session, segment, up, jobVars, linkVars>>

ProbeWorker ==
  /\ offered' \in probeWorker
  /\ UNCHANGED <<shimVars, session, segment, up, jobVars, linkVars>>

-----------------------------------------------------------------------------
(* The worker *)

(* The handler of POST /v1/jobs may run after the shim has given up on it. *)
HandlePost ==
  /\ up /\ post = "sent" /\ job = "none"
  /\ \/ post' = "accepted" /\ job' = "PENDING" /\ known' = TRUE
     \/ post' = "refused" /\ UNCHANGED <<job, known>>
  /\ UNCHANGED <<shimVars, masterVars, code, cancelState, failing, linkVars>>

(* finalize: the terminal state is published, then the exit event, and the
   stream ends. *)
finalize(s, c) ==
  /\ job' = s /\ code' = c
  /\ wire' = IF attached THEN wire \o <<c, "eof">> ELSE wire
  /\ attached' = FALSE
  /\ UNCHANGED <<post, known, cancelState, failing, conn>>

JobFailsEarly ==
  /\ job = "PENDING"
  /\ finalize(IF cancelState # "no" THEN cancelState ELSE "FAILED", "1")
  /\ UNCHANGED <<shimVars, masterVars>>

JobStarts ==
  /\ job = "PENDING"
  /\ job' = "RUNNING"
  /\ UNCHANGED <<shimVars, masterVars, post, known, code, cancelState, failing, linkVars>>

(* A chunk is pushed: stored, or refused with 410, which fails the job. *)
Push ==
  /\ job \in {"RUNNING", "DRAINING"}
  /\ IF session \in {"live", "closing"} THEN segment' = TRUE /\ UNCHANGED failing
     ELSE failing' = TRUE /\ UNCHANGED segment
  /\ UNCHANGED <<shimVars, session, healthVars, post, known, job, code, cancelState, linkVars>>

TranscoderExits(c) ==
  /\ job = "RUNNING"
  /\ job' = "DRAINING" /\ code' = c
  /\ UNCHANGED <<shimVars, masterVars, post, known, cancelState, failing, linkVars>>

JobEnds ==
  /\ job = "DRAINING"
  /\ \E s \in IF cancelState # "no" THEN {cancelState}
              ELSE IF failing \/ code # "0" THEN {"FAILED"} ELSE {"COMPLETED", "FAILED"} :
       finalize(s, code)
  /\ UNCHANGED <<shimVars, masterVars>>

(* States, stderr lines and heartbeats. *)
Publish ==
  /\ attached /\ conn = "up" /\ Len(wire) < WireCap
  /\ wire' = Append(wire, "event")
  /\ UNCHANGED <<shimVars, masterVars, jobVars, attached, conn>>

(* The hub drops a subscriber that is too slow for a state event. *)
DropSlow_Silent ==  \* mutant: the channel is not closed, the handler lingers
  /\ attached /\ conn = "up" /\ Len(wire) >= WireCap
  /\ attached' = FALSE
  /\ UNCHANGED <<shimVars, masterVars, jobVars, conn, wire>>

DropSlow ==
  /\ attached /\ conn = "up" /\ Len(wire) >= WireCap
  /\ wire' = Append(wire, "eof")
  /\ attached' = FALSE
  /\ UNCHANGED <<shimVars, masterVars, jobVars, conn>>

(* The handler notices that its client is gone (the connection is closed, or
   the TCP keepalive found it dead). *)
Detach_Never ==  \* mutant: a client that is gone stays counted
  FALSE /\ UNCHANGED vars

Detach ==
  /\ attached /\ conn # "up"
  /\ attached' = FALSE
  /\ UNCHANGED <<shimVars, masterVars, jobVars, conn, wire>>

(* monitorLifeline *)
LifelineLost ==
  /\ job = "RUNNING" /\ ~attached
  /\ cancelState = "no"
  /\ requestCancel("LOST")
  /\ UNCHANGED <<shimVars, masterVars, post, known, job, code, failing, linkVars>>

-----------------------------------------------------------------------------
(* Faults *)

ConnectionSilent ==
  /\ conn = "up"
  /\ conn' = "silent"
  /\ UNCHANGED <<shimVars, masterVars, jobVars, attached, wire>>

(* Its table is gone with it, and so are the streams. *)
WorkerCrash ==
  /\ up
  /\ up' = FALSE /\ known' = FALSE
  /\ job' = IF job \in Active THEN "crashed" ELSE job
  /\ wire' = IF attached THEN Append(wire, "eof") ELSE wire
  /\ attached' = FALSE
  /\ UNCHANGED <<shimVars, session, segment, offered, post, code, cancelState,
                 failing, conn>>

WorkerRestart ==
  /\ ~up
  /\ up' = TRUE
  /\ UNCHANGED <<shimVars, session, segment, offered, jobVars, linkVars>>

-----------------------------------------------------------------------------
Shim == Register \/ PickWorker \/ PostJob \/ Posted \/ OpenEvents \/ OpenFails
        \/ TakeEvent \/ TakeIdle \/ TakeSigterm \/ CancelRemoteJob
        \/ DeleteSession \/ CleanedUp

Worker == HandlePost \/ JobStarts \/ JobFailsEarly \/ JobEnds \/ DropSlow \/ Publish
          \/ Push \/ \E c \in Codes : TranscoderExits(c)

Next == \/ Shim \/ ReadEvent \/ ReadTooLong \/ LivenessFires \/ Sigterm \/ Sigkill
        \/ DrainOver \/ Expire \/ ProbeWorker
        \/ Worker \/ Detach \/ LifelineLost
        \/ ConnectionSilent \/ WorkerCrash \/ WorkerRestart

Spec == Init /\ [][Next]_vars

Over == Terminal \union {"none", "crashed"}

(* Processes and goroutines are scheduled and timers fire.  A transcoder exits
   only if it is killed, and a session expires only if nothing pushes to it. *)
Fairness ==
  /\ WF_vars(Shim) /\ WF_vars(ReadEvent) /\ WF_vars(LivenessFires)
  /\ WF_vars(ProbeWorker) /\ WF_vars(DrainOver) /\ WF_vars(job \in Over /\ Expire)
  /\ WF_vars(JobStarts \/ JobFailsEarly) /\ WF_vars(JobEnds)
  /\ WF_vars((cancelState # "no" \/ failing) /\ \E c \in Codes : TranscoderExits(c))
  /\ WF_vars(Detach) /\ WF_vars(LifelineLost)

FairSpec == Spec /\ Fairness

-----------------------------------------------------------------------------
(* Properties *)

(* The shim exits with the transcoder's code only when the remote job is over
   and that is its code, whatever is lost, late or dropped on the way. *)
ExitTruthful == outcome \in Codes => job \in Terminal /\ code = outcome

(* The event loop never waits for an event that cannot come: either a handler
   feeds its stream, on behalf of a job that still runs in the worker's table, or
   the end of the stream is on its way, or the loop will find it in its channel,
   or the connection is silent, which is what the liveness watch is for. *)
streamEnds == wire # <<>> /\ wire[Len(wire)] = "eof"

NobodyWaitsInVain ==
  /\ shim = "loop" => conn \in {"up", "silent", "closed"}
  /\ shim = "loop" /\ conn = "up" => attached \/ streamEnds \/ readerDone
  /\ shim = "loop" /\ conn = "closed" => readerDone
  /\ attached => job \in Active /\ known

(* A remote job nobody waits for ends: after a local fallback (even when the
   answer to the dispatch was lost), a kill, or a cancel that did not arrive. *)
OrphanEnds == (shim = "over" /\ job \in Active) ~> job \in Over

(* The shim outlives neither its job nor the worker, nor waits for ever on a
   stream that went silent; and where it picked a worker that is gone, a stale
   status costs a fallback and nothing more. *)
ShimEnds ==
  /\ (shim = "loop" /\ (job \in Over \/ conn = "silent")) ~> shim = "over"
  /\ (~up /\ shim # "over") ~> (up \/ shim = "over")

(* However the shim ended, the session does not stay open. *)
SessionEnds == shim = "over" ~> session \in {"none", "gone"}

(* The cache catches up: a worker that is down and stays down is not offered to
   the shims for ever, whatever the prober's last answers were. *)
DeadNotOffered == <>[](~up) => <>[](~offered)

(* What the sources say and the code does not keep: see the README. *)

(* "the TTL only reaps sessions whose shim vanished" (touch, sessions.go). *)
TTLOnlyVanished ==
  [][session = "live" /\ session' = "gone" => shim = "over"]_vars

(* "falls back to the local transcoder on any pre-segment failure" (README):
   the shim reports a failure of the remote side only after a chunk arrived. *)
PreSegmentFallback == outcome \in {"1", "75"} => segment
=============================================================================
