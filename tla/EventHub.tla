------------------------------ MODULE EventHub ------------------------------
(***************************************************************************)
(* The events stream of one job (internal/workerd/events.go, the handler   *)
(* of GET /v1/jobs/<id>/events in workerd.go, and of job.go what publishes *)
(* and what counts the clients).  The hub replays the history to a late    *)
(* subscriber, then feeds it live through a bounded channel; the handler   *)
(* writes to a client that may be slow or gone.  A job that runs without a *)
(* client for PeerTimeout is cancelled.  What the job does between two of  *)
(* its states is WorkerJob's.                                              *)
(***************************************************************************)
EXTENDS Integers, Sequences, FiniteSets, SequencesExt

CONSTANTS
  Clients,      \* requests for the events stream
  RingSize,     \* stderrRingSize
  SubBuffer,    \* subBuffer
  MaxLines      \* bound: lines on the transcoder's stderr

ASSUME HubAssumption == /\ RingSize \in Nat
                        /\ SubBuffer \in Nat
                        /\ MaxLines \in Nat
                        /\ IsFiniteSet(Clients)

(* subBuffer exceeds the ring by more than a history of states and an exit. *)
ASSUME BufferAssumption == RingSize + 6 <= SubBuffer

VARIABLES
  (* the job *)
  state, cancelState, failing,
  clients,      \* j.clients
  idle,         \* PeerTimeout has passed since j.clientGone
  running,      \* the transcoder
  toPublish,    \* what run() publishes next, having left j.mu
  abort,        \* abortFail: "no", "publish" (it has left j.mu) or "done"
  lines,        \* lines published by mirrorStderr
  monitor,
  (* the hub, guarded by h.mu *)
  subs, states, stderr, exit, closed,
  chan,         \* the subscribers' channels
  chanClosed,
  (* the handlers, and what each has written to its client so far *)
  handler,
  got

jobVars  == <<state, cancelState, failing, running, toPublish, abort, lines>>
lifeVars == <<clients, idle, monitor>>
histVars == <<states, stderr, exit>>
chanVars == <<subs, chan, chanClosed>>
hubVars  == <<histVars, chanVars, closed>>
connVars == <<handler, got>>
vars == <<jobVars, lifeVars, hubVars, connVars>>

Cancels  == {"CANCELLED", "LOST"}
Terminal == {"COMPLETED", "FAILED"} \union Cancels
States   == {"PENDING", "PREPARING", "RUNNING", "DRAINING"} \union Terminal

State(s)  == [type |-> "state", state |-> s]
Stderr(n) == [type |-> "stderr", line |-> n]
Exit      == [type |-> "exit"]
Prt       == Stderr(0)  \* a "prt: ..." line of abortFail or of run() itself
Close     == [type |-> "close"]  \* not an event: hub.close()

StateEvents == [type : {"state"}, state : States]
Lines       == [type : {"stderr"}, line : 0..MaxLines]
Events      == StateEvents \union Lines \union {Exit}

TypeOK ==
  /\ state \in States /\ cancelState \in Cancels \union {"no"}
  /\ failing \in BOOLEAN /\ running \in BOOLEAN
  /\ toPublish \in Seq(Events \union {Close}) /\ abort \in {"no", "publish", "done"}
  /\ lines \in 0..MaxLines
  /\ clients \in 0..Cardinality(Clients) /\ idle \in BOOLEAN
  /\ monitor \in {"none", "ticking", "lost", "returned"}
  /\ subs \subseteq Clients /\ closed \in BOOLEAN
  /\ states \in Seq(StateEvents)
  /\ stderr \in Seq(Lines) /\ exit \in Seq({Exit})
  /\ chan \in [Clients -> Seq(Events)] /\ chanClosed \in [Clients -> BOOLEAN]
  /\ handler \in [Clients -> {"none", "open", "subscribed", "stream", "unsub", "gone"}]
  /\ got \in [Clients -> Seq(Events)]

(* newJob publishes PENDING before anyone can subscribe. *)
Init ==
  /\ state = "PENDING" /\ cancelState = "no" /\ failing = FALSE /\ running = FALSE
  /\ toPublish = <<>> /\ abort = "no" /\ lines = 0
  /\ clients = 0 /\ idle = TRUE /\ monitor = "none"
  /\ subs = {} /\ closed = FALSE
  /\ states = <<State("PENDING")>> /\ stderr = <<>> /\ exit = <<>>
  /\ chan = [c \in Clients |-> <<>>]
  /\ chanClosed = [c \in Clients |-> FALSE]
  /\ handler = [c \in Clients |-> "none"]
  /\ got = [c \in Clients |-> <<>>]

-----------------------------------------------------------------------------
(* publish, under h.mu *)

full(c) == Len(chan[c]) >= SubBuffer

record_NoTrim(ev) ==  \* mutant: the ring grows without bound
  /\ states' = IF ev.type = "state" THEN Append(states, ev) ELSE states
  /\ stderr' = IF ev.type = "stderr" THEN Append(stderr, ev) ELSE stderr
  /\ exit' = IF ev.type = "exit" THEN <<ev>> ELSE exit

record_NewestFirst(ev) ==  \* mutant: the ring is replayed backwards
  /\ states' = IF ev.type = "state" THEN Append(states, ev) ELSE states
  /\ stderr' = IF ev.type # "stderr" THEN stderr
               ELSE LET s == <<ev>> \o stderr IN
                    IF Len(s) > RingSize THEN Front(s) ELSE s
  /\ exit' = IF ev.type = "exit" THEN <<ev>> ELSE exit

record(ev) ==
  /\ states' = IF ev.type = "state" THEN Append(states, ev) ELSE states
  /\ stderr' = IF ev.type # "stderr" THEN stderr
               ELSE LET s == Append(stderr, ev) IN
                    IF Len(s) > RingSize THEN Tail(s) ELSE s
  /\ exit' = IF ev.type = "exit" THEN <<ev>> ELSE exit

deliver_Silent(ev) ==  \* mutant: a slow subscriber misses states as well
  /\ chan' = [c \in Clients |->
       IF c \in subs /\ ~full(c) THEN Append(chan[c], ev) ELSE chan[c]]
  /\ UNCHANGED <<subs, chanClosed>>

(* A subscriber too slow for a state or exit event is dropped; one too slow
   for a line misses the line. *)
deliver(ev) ==
  LET dropped == IF ev.type = "stderr" THEN {} ELSE {c \in subs : full(c)} IN
  /\ chan' = [c \in Clients |->
       IF c \in subs /\ ~full(c) THEN Append(chan[c], ev) ELSE chan[c]]
  /\ chanClosed' = [c \in Clients |-> chanClosed[c] \/ c \in dropped]
  /\ subs' = subs \ dropped

publish(ev) ==
  /\ UNCHANGED closed
  /\ IF closed THEN UNCHANGED <<histVars, chanVars>> ELSE record(ev) /\ deliver(ev)

close_Unread ==  \* mutant: forgets the channels without closing them
  /\ closed' = TRUE
  /\ subs' = {}
  /\ UNCHANGED <<histVars, chan, chanClosed>>

close ==
  /\ closed' = TRUE
  /\ chanClosed' = [c \in Clients |-> chanClosed[c] \/ c \in subs]
  /\ subs' = {}
  /\ UNCHANGED <<histVars, chan>>

-----------------------------------------------------------------------------
(* run(): setState and finalize change j.state under j.mu and publish after. *)

setState(s) ==
  /\ state' = s
  /\ toPublish' = <<State(s)>>
  /\ idle' = IF s = "RUNNING" /\ clients = 0 THEN FALSE ELSE idle

finalize_ExitFirst(s) ==  \* mutant: the exit event overtakes the last state
  /\ state' = s
  /\ \E reports \in {<<>>, <<Prt>>} :
       toPublish' = reports \o <<Exit, State(s), Close>>

(* finalize: the terminal state, the exit event, then hub.close.  A failed
   preparation, spawn or drain has been reported on stderr before. *)
finalize(s) ==
  /\ state' = s
  /\ \E reports \in {<<>>, <<Prt>>} :
       toPublish' = reports \o <<State(s), Exit, Close>>

RunPreparing ==
  /\ state = "PENDING" /\ toPublish = <<>>
  /\ setState("PREPARING")
  /\ UNCHANGED <<cancelState, failing, running, abort, lines, clients, monitor,
                 hubVars, connVars>>

(* A cancel after the abort check may come too late to stop the process from
   starting. *)
RunRunning ==
  /\ state = "PREPARING" /\ toPublish = <<>>
  /\ running' = TRUE
  /\ setState("RUNNING")
  /\ UNCHANGED <<cancelState, failing, abort, lines, clients, monitor, hubVars,
                 connVars>>

StartMonitor ==
  /\ state = "RUNNING" /\ toPublish = <<>> /\ monitor = "none"
  /\ monitor' = "ticking"
  /\ UNCHANGED <<jobVars, clients, idle, hubVars, connVars>>

RunAborted ==
  /\ state = "PREPARING" /\ toPublish = <<>>
  /\ finalize(IF cancelState # "no" THEN cancelState ELSE "FAILED")
  /\ UNCHANGED <<cancelState, failing, running, abort, lines, lifeVars, hubVars,
                 connVars>>

TranscoderExit ==
  /\ running
  /\ running' = FALSE
  /\ UNCHANGED <<state, cancelState, failing, toPublish, abort, lines, lifeVars,
                 hubVars, connVars>>

RunDraining ==
  /\ state = "RUNNING" /\ toPublish = <<>> /\ monitor # "none"
  /\ ~running
  /\ setState("DRAINING")
  /\ UNCHANGED <<cancelState, failing, running, abort, lines, clients, monitor,
                 hubVars, connVars>>

RunFinal ==
  /\ state = "DRAINING" /\ toPublish = <<>>
  /\ \E s \in IF cancelState # "no" THEN {cancelState}
              ELSE IF failing THEN {"FAILED"} ELSE {"COMPLETED", "FAILED"} :
       finalize(s)
  /\ UNCHANGED <<cancelState, failing, running, abort, lines, lifeVars, hubVars,
                 connVars>>

RunPublish ==
  /\ toPublish # <<>>
  /\ toPublish' = Tail(toPublish)
  /\ IF Head(toPublish) = Close THEN close ELSE publish(Head(toPublish))
  /\ UNCHANGED <<state, cancelState, failing, running, abort, lines, lifeVars,
                 connVars>>

(* The other publishers: mirrorStderr, which may lag behind the process, and
   abortFail, from a goroutine of the push pipeline. *)
MirrorStderr ==
  /\ running \/ monitor # "none"  \* the process was started
  /\ lines < MaxLines
  /\ lines' = lines + 1
  /\ publish(Stderr(lines'))
  /\ UNCHANGED <<state, cancelState, failing, running, toPublish, abort, lifeVars,
                 connVars>>

AbortFail ==
  /\ ~failing /\ state \notin Terminal \union {"PENDING"}
  /\ failing' = TRUE
  /\ abort' = "publish"
  /\ UNCHANGED <<state, cancelState, running, toPublish, lines, lifeVars, hubVars,
                 connVars>>

AbortPublish ==
  /\ abort = "publish"
  /\ abort' = "done"
  /\ publish(Prt)
  /\ UNCHANGED <<state, cancelState, failing, running, toPublish, lines, lifeVars,
                 connVars>>

-----------------------------------------------------------------------------
(* Cancelling: DELETE, and the lifeline monitor. *)

requestCancel(target) ==
  IF cancelState # "no" \/ state \in Terminal THEN UNCHANGED cancelState
  ELSE cancelState' = target

DeleteJob ==
  /\ requestCancel("CANCELLED")
  /\ UNCHANGED <<state, failing, running, toPublish, abort, lines, lifeVars,
                 hubVars, connVars>>

PeerTimeoutPasses ==
  /\ ~idle
  /\ idle' = TRUE
  /\ UNCHANGED <<jobVars, clients, monitor, hubVars, connVars>>

(* One tick decides under j.mu and cancels after. *)
MonitorTick_AnyClient ==  \* mutant: does not look at j.clients
  /\ monitor = "ticking"
  /\ IF state \in Terminal \/ cancelState # "no" THEN monitor' = "returned"
     ELSE /\ state = "RUNNING" /\ idle
          /\ monitor' = "lost"
  /\ UNCHANGED <<jobVars, clients, idle, hubVars, connVars>>

MonitorTick ==
  /\ monitor = "ticking"
  /\ IF state \in Terminal \/ cancelState # "no" THEN monitor' = "returned"
     ELSE /\ state = "RUNNING" /\ clients = 0 /\ idle
          /\ monitor' = "lost"
  /\ UNCHANGED <<jobVars, clients, idle, hubVars, connVars>>

MonitorCancel ==
  /\ monitor = "lost"
  /\ monitor' = "returned"
  /\ requestCancel("LOST")
  /\ UNCHANGED <<state, failing, running, toPublish, abort, lines, clients, idle,
                 hubVars, connVars>>

-----------------------------------------------------------------------------
(* handleJobEvents *)

connFrame == <<jobVars, monitor, histVars, closed>>

Connect(c) ==
  /\ handler[c] = "none"
  /\ handler' = [handler EXCEPT ![c] = "open"]
  /\ UNCHANGED <<connFrame, clients, idle, chanVars, got>>

snapshot == states \o stderr \o exit

(* subscribe, under h.mu.  Were the snapshot larger than the channel, the
   handler would block here for ever, and every publisher behind it. *)
Subscribe(c) ==
  /\ handler[c] = "open"
  /\ Len(snapshot) <= SubBuffer
  /\ chan' = [chan EXCEPT ![c] = snapshot]
  /\ chanClosed' = [chanClosed EXCEPT ![c] = closed]
  /\ subs' = IF closed THEN subs ELSE subs \union {c}
  /\ handler' = [handler EXCEPT ![c] = "subscribed"]
  /\ UNCHANGED <<connFrame, clients, idle, got>>

CountClient(c) ==
  /\ handler[c] = "subscribed"
  /\ clients' = clients + 1
  /\ handler' = [handler EXCEPT ![c] = "stream"]
  /\ UNCHANGED <<connFrame, idle, chanVars, got>>

(* The handler hands one event to the connection; a slow client delays it. *)
WriteEvent(c) ==
  /\ handler[c] = "stream" /\ chan[c] # <<>>
  /\ got' = [got EXCEPT ![c] = Append(@, Head(chan[c]))]
  /\ chan' = [chan EXCEPT ![c] = Tail(@)]
  /\ UNCHANGED <<connFrame, clients, idle, subs, chanClosed, handler>>

(* The deferred unsub: first the hub forgets the channel, and nobody will read
   what it still holds; then the lifeline is told. *)
leave(c) ==
  /\ handler' = [handler EXCEPT ![c] = "unsub"]
  /\ subs' = subs \ {c}
  /\ chan' = [chan EXCEPT ![c] = <<>>]
  /\ got' = [got EXCEPT ![c] = <<>>]
  /\ UNCHANGED <<connFrame, clients, idle, chanClosed>>

(* The channel is closed and empty. *)
EndOfStream(c) ==
  /\ handler[c] = "stream" /\ chan[c] = <<>> /\ chanClosed[c]
  /\ leave(c)

(* The client is gone: the request's context is done, or the write fails. *)
ClientGone(c) ==
  /\ handler[c] = "stream"
  /\ leave(c)

UncountClient_Never(c) ==  \* mutant: the client stays counted
  /\ handler[c] = "unsub"
  /\ handler' = [handler EXCEPT ![c] = "gone"]
  /\ UNCHANGED <<connFrame, clients, idle, chanVars, got>>

UncountClient(c) ==
  /\ handler[c] = "unsub"
  /\ clients' = clients - 1
  /\ idle' = IF clients = 1 THEN FALSE ELSE idle
  /\ handler' = [handler EXCEPT ![c] = "gone"]
  /\ UNCHANGED <<connFrame, chanVars, got>>

-----------------------------------------------------------------------------
Run == RunPreparing \/ RunRunning \/ StartMonitor \/ RunAborted \/ RunDraining
       \/ RunFinal \/ RunPublish

Monitor == MonitorTick \/ MonitorCancel

Handler(c) == Subscribe(c) \/ CountClient(c) \/ WriteEvent(c) \/ EndOfStream(c)
              \/ UncountClient(c)

Next == \/ Run \/ TranscoderExit \/ MirrorStderr \/ AbortFail \/ AbortPublish
        \/ DeleteJob \/ PeerTimeoutPasses \/ Monitor
        \/ \E c \in Clients : Connect(c) \/ Handler(c) \/ ClientGone(c)

Spec == Init /\ [][Next]_vars

(* Goroutines are scheduled, PeerTimeout passes, and a transcoder that is
   killed exits.  A handler whose client does not read is not scheduled: its
   fairness is a premise where it is needed. *)
Fairness ==
  /\ WF_vars(Run) /\ WF_vars(AbortPublish)
  /\ WF_vars(PeerTimeoutPasses) /\ WF_vars(Monitor)
  /\ WF_vars((cancelState # "no" \/ failing) /\ TranscoderExit)
  /\ \A c \in Clients : WF_vars(UncountClient(c))

FairSpec == Spec /\ Fairness

-----------------------------------------------------------------------------
(* Properties *)

(* The events of s that are in S, in their order. *)
only(s, S) ==
  LET kept[i \in 0..Len(s)] ==
        IF i = 0 THEN <<>>
        ELSE IF s[i] \in S THEN Append(kept[i - 1], s[i]) ELSE kept[i - 1]
  IN kept[Len(s)]

Milestones == StateEvents \union {Exit}
Numbered   == [type : {"stderr"}, line : 1..MaxLines]  \* the transcoder's own lines

(* A client gets the states of the job in order, from the first, without gap
   or repetition, wherever the snapshot ends and the live events begin: what a
   subscriber has or will get is what the hub published, and one that was
   dropped or has left has a part from the start. *)
StatesComplete ==
  \A c \in Clients :
    LET all == only(got[c] \o chan[c], Milestones) IN
    /\ IsPrefix(all, states \o exit)
    /\ c \in subs => all = states \o exit

(* The hub and its handlers implement the promise of the stream: the history
   records each state once and the exit last, and each write of a handler
   tells its client the next milestone, or a line. *)
connOf(c) == CASE handler[c] \in {"none", "open"} -> "away"
               [] handler[c] \in {"subscribed", "stream"} -> "reading"
               [] OTHER -> "left"

Log == INSTANCE EventLog WITH
         Opening <- State("PENDING"), Ending <- Exit,
         log <- states \o exit,
         told <- [c \in Clients |-> only(got[c], Milestones)],
         conn <- [c \in Clients |-> connOf(c)]

ImplementsEventLog == Log!Spec

(* The lines a client gets are in order and none is repeated. *)
inOrder(s) ==
  \A i, k \in DOMAIN s :
    i < k /\ s[i] \in Numbered /\ s[k] \in Numbered => s[i].line < s[k].line

LinesInOrder == \A c \in Clients : inOrder(got[c] \o chan[c])

(* subscribe fills the channel under h.mu: the snapshot has to fit, or every
   publisher of the job blocks. *)
SnapshotFits == Len(snapshot) <= SubBuffer

(* The lifeline is found lost only while no client is attached. *)
LostUnattended ==
  [][monitor # "lost" /\ monitor' = "lost"
       => \A c \in Clients : handler[c] \notin {"stream", "unsub"}]_vars

(* The implicit cancel: a job ends once it has no client left, whatever the
   transcoder does. *)
LostJobEnds ==
  (\A c \in Clients : handler[c] = "gone") ~> state \in Terminal

(* A client that reads gets the end of the stream when the job is over. *)
StreamEnds ==
  (\A c \in Clients : WF_vars(Handler(c)))
    => \A c \in Clients : handler[c] = "stream" /\ closed ~> handler[c] = "gone"
=============================================================================
