---------------------------- MODULE EventHubProofs ----------------------------
(***************************************************************************)
(* EventHub, proved for any finite set of clients, any number of lines and *)
(* any ring that leaves a subscriber's channel room for the states of a    *)
(* job: the snapshot never blocks, a job with clients is never taken for   *)
(* abandoned, and the job keeps the promise of JobLife.                    *)
(***************************************************************************)
EXTENDS EventHub, FiniteSetTheorems, SequenceTheorems, TLAPS

-----------------------------------------------------------------------------
(* The inductive invariant. *)

(* j.clients counts the handlers between its increment and its decrement. *)
Attached == {c \in Clients : handler[c] \in {"stream", "unsub"}}

CountInv == clients = Cardinality(Attached)

(* The ring is trimmed, and a job exits once at most in the history. *)
RingInv == Len(stderr) <= RingSize /\ Len(exit) <= 1

(* run() publishes a state before it takes the next step: what it still owes
   holds one state at most. *)
OneState ==
  \A i, k \in 1..Len(toPublish) :
    toPublish[i].type = "state" /\ toPublish[k].type = "state" => i = k

Owed == IF \E i \in 1..Len(toPublish) : toPublish[i].type = "state" THEN 1 ELSE 0

(* A job passes five states at most, each published once. *)
Rank(s) == IF s = "PENDING" THEN 1
           ELSE IF s = "PREPARING" THEN 2
           ELSE IF s = "RUNNING" THEN 3
           ELSE IF s = "DRAINING" THEN 4
           ELSE 5

RankInv == Len(states) + Owed <= Rank(state)

IInv == TypeOK /\ CountInv /\ RingInv /\ OneState /\ RankInv

(* TypeOK in parts, for the steps that leave some of them alone. *)
JobTyped ==
  /\ state \in States /\ cancelState \in Cancels \union {"no"}
  /\ failing \in BOOLEAN /\ running \in BOOLEAN
  /\ toPublish \in Seq(Events \union {Close}) /\ abort \in {"no", "publish", "done"}
  /\ lines \in 0..MaxLines

LifeTyped ==
  /\ clients \in 0..Cardinality(Clients) /\ idle \in BOOLEAN
  /\ monitor \in {"none", "ticking", "lost", "returned"}

HubTyped ==
  /\ subs \subseteq Clients /\ closed \in BOOLEAN
  /\ states \in Seq(StateEvents)
  /\ stderr \in Seq(Lines) /\ exit \in Seq({Exit})
  /\ chan \in [Clients -> Seq(Events)] /\ chanClosed \in [Clients -> BOOLEAN]

ConnTyped ==
  /\ handler \in [Clients -> {"none", "open", "subscribed", "stream", "unsub", "gone"}]
  /\ got \in [Clients -> Seq(Events)]

(* TypeOK by parts: the job, the lifeline, the hub, the connections. *)
LEMMA TypeParts == TypeOK <=> JobTyped /\ LifeTyped /\ HubTyped /\ ConnTyped
  BY DEF TypeOK, JobTyped, LifeTyped, HubTyped, ConnTyped

-----------------------------------------------------------------------------
(* Events are told apart by their type. *)
LEMMA Kinds ==
  ASSUME NEW ev \in Events
  PROVE  /\ ev.type \in {"state", "stderr", "exit"} /\ ev # Close
         /\ ev.type = "state" => ev \in StateEvents
         /\ ev.type = "stderr" => ev \in Lines
         /\ ev.type = "exit" => ev = Exit
  <1>1. CASE ev \in StateEvents
    <2>1. ev.type = "state"
      BY <1>1 DEF StateEvents
    <2> QED
      BY <1>1, <2>1 DEF Close
  <1>2. CASE ev \in Lines
    <2>1. ev.type = "stderr"
      BY <1>2 DEF Lines
    <2> QED
      BY <1>2, <2>1 DEF Close
  <1>3. CASE ev = Exit
    BY <1>3 DEF Exit, Close
  <1> QED
    BY <1>1, <1>2, <1>3 DEF Events

(* What the hub publishes are events, each of its type. *)
LEMMA EventTypes ==
  /\ Prt \in Events /\ Exit \in Events /\ Prt.type = "stderr" /\ Exit.type = "exit"
  /\ Close.type = "close"
  /\ \A s \in States : State(s) \in Events /\ State(s) \in StateEvents /\ State(s).type = "state"
  /\ \A n \in 0..MaxLines : Stderr(n) \in Events /\ Stderr(n).type = "stderr"
  <1>1. \A s \in States : State(s) \in StateEvents /\ State(s).type = "state"
    BY DEF State, StateEvents
  <1>2. \A n \in 0..MaxLines : Stderr(n) \in Lines /\ Stderr(n).type = "stderr"
    BY DEF Stderr, Lines
  <1>3. 0 \in 0..MaxLines
    BY HubAssumption
  <1> QED
    BY <1>1, <1>2, <1>3 DEF Prt, Events, Exit, Close

(* What a publication does to the history and to the channels. *)
LEMMA PublishStep ==
  ASSUME HubTyped, RingInv, NEW ev \in Events, publish(ev)
  PROVE  /\ HubTyped' /\ RingInv'
         /\ IF ev.type = "state" THEN Len(states') <= Len(states) + 1 ELSE states' = states
  <1>l. Len(states) \in Nat /\ Len(stderr) \in Nat /\ Len(exit) \in Nat
    BY LenProperties DEF HubTyped
  <1>1. CASE closed
    <2>1. UNCHANGED <<subs, closed, states, stderr, exit, chan, chanClosed>>
      BY <1>1 DEF publish, histVars, chanVars
    <2> QED
      BY <1>l, <2>1 DEF HubTyped, RingInv
  <1>2. CASE ~closed
    <2>1. record(ev) /\ deliver(ev) /\ closed' = closed
      BY <1>2 DEF publish
    <2>2. /\ states' \in Seq(StateEvents)
          /\ IF ev.type = "state" THEN Len(states') <= Len(states) + 1 ELSE states' = states
      <3>1. CASE ev.type = "state"
        <4>1. states' = Append(states, ev) /\ ev \in StateEvents
          BY <2>1, <3>1, Kinds DEF record
        <4> QED
          BY <1>l, <3>1, <4>1 DEF HubTyped
      <3>2. CASE ev.type # "state"
        BY <2>1, <3>2 DEF record, HubTyped
      <3> QED
        BY <3>1, <3>2
    <2>3. stderr' \in Seq(Lines) /\ Len(stderr') <= RingSize
      <3>1. CASE ev.type = "stderr"
        <4> DEFINE s == Append(stderr, ev)
        <4>1. stderr' = IF Len(s) > RingSize THEN Tail(s) ELSE s
          BY <2>1, <3>1 DEF record
        <4>e. ev \in Lines /\ stderr \in Seq(Lines)
          BY <3>1, Kinds DEF HubTyped
        <4>l. s \in Seq(Lines) /\ Len(s) = Len(stderr) + 1
          BY <4>e
        <4> HIDE DEF s
        <4>2. s \in Seq(Lines) /\ Len(s) = Len(stderr) + 1 /\ s # <<>>
          BY <1>l, <4>l, EmptySeq
        <4>3. Tail(s) \in Seq(Lines) /\ Len(Tail(s)) = Len(s) - 1
          BY <4>2, HeadTailProperties
        <4> QED
          BY <1>l, <4>1, <4>2, <4>3, HubAssumption DEF RingInv
      <3>2. CASE ev.type # "stderr"
        BY <2>1, <3>2 DEF record, HubTyped, RingInv
      <3> QED
        BY <3>1, <3>2
    <2>4. exit' \in Seq({Exit}) /\ Len(exit') <= 1
      <3>1. CASE ev.type = "exit"
        <4>1. exit' = <<ev>> /\ ev = Exit
          BY <2>1, <3>1, Kinds DEF record
        <4> QED
          BY <4>1
      <3>2. CASE ev.type # "exit"
        BY <2>1, <3>2 DEF record, HubTyped, RingInv
      <3> QED
        BY <3>1, <3>2
    <2>5. chan' \in [Clients -> Seq(Events)]
      BY <2>1 DEF deliver, HubTyped
    <2>6. chanClosed' \in [Clients -> BOOLEAN] /\ subs' \subseteq Clients
      BY <2>1 DEF deliver, HubTyped
    <2> QED
      BY <2>1, <2>2, <2>3, <2>4, <2>5, <2>6 DEF HubTyped, RingInv
  <1> QED
    BY <1>1, <1>2 DEF HubTyped

-----------------------------------------------------------------------------
(* Frames *)

(* A step that does not touch the hub keeps its history in order. *)
LEMMA HubFrame ==
  ASSUME IInv, UNCHANGED hubVars
  PROVE  HubTyped' /\ RingInv' /\ UNCHANGED states
  BY TypeParts DEF IInv, HubTyped, RingInv, hubVars, histVars, chanVars

(* A step that does not touch the handlers keeps clients exact. *)
LEMMA ConnFrame ==
  ASSUME IInv, UNCHANGED <<handler, got, clients>>
  PROVE  ConnTyped' /\ CountInv'
  BY TypeParts DEF IInv, ConnTyped, CountInv, Attached

(* A step that does not touch the job owes the hub what it owed before. *)
LEMMA JobFrame ==
  ASSUME IInv, UNCHANGED jobVars
  PROVE  JobTyped' /\ OneState' /\ Owed' = Owed /\ UNCHANGED state
  BY TypeParts DEF IInv, JobTyped, OneState, Owed, jobVars

(* RankInv changes only with the state, its history and what is owed. *)
LEMMA RankFrame ==
  ASSUME IInv, UNCHANGED <<state, states>>, Owed' = Owed
  PROVE  RankInv'
  BY DEF IInv, RankInv

(* The parts of the invariant make the invariant. *)
LEMMA Assemble ==
  ASSUME JobTyped', LifeTyped', HubTyped', ConnTyped', CountInv', RingInv', OneState', RankInv'
  PROVE  IInv'
  BY DEF IInv, TypeOK, JobTyped, LifeTyped, HubTyped, ConnTyped

(* A new job has an empty hub and no client. *)
LEMMA InitIInv == Init => IInv
  <1> SUFFICES ASSUME Init PROVE IInv
    OBVIOUS
  <1>1. State("PENDING") \in StateEvents
    BY EventTypes DEF States
  <1>2. IsFiniteSet(Clients) /\ Cardinality(Clients) \in Nat
    BY HubAssumption, FS_CardinalityType
  <1>3. TypeOK
    <2>1. <<State("PENDING")>> \in Seq(StateEvents) /\ \A S : <<>> \in Seq(S)
      BY <1>1
    <2>2. 0 \in 0..MaxLines /\ 0 \in 0..Cardinality(Clients)
      BY <1>2, HubAssumption
    <2> QED
      BY <2>1, <2>2 DEF Init, TypeOK, States
  <1>4. CountInv
    <2>1. Attached = {}
      BY DEF Init, Attached
    <2> QED
      BY <2>1, FS_EmptySet DEF Init, CountInv
  <1>5. RingInv
    BY HubAssumption DEF Init, RingInv
  <1>6. OneState /\ RankInv
    <2>1. Len(toPublish) = 0 /\ Len(states) = 1 /\ state = "PENDING"
      BY DEF Init
    <2> QED
      BY <2>1 DEF OneState, RankInv, Owed, Rank
  <1> QED
    BY <1>3, <1>4, <1>5, <1>6 DEF IInv

-----------------------------------------------------------------------------
(* run() *)

(* A new state is owed once nothing else is. *)
LEMMA SetStep ==
  ASSUME IInv, NEW s \in States, setState(s), toPublish = <<>>, Rank(s) = Rank(state) + 1,
         UNCHANGED <<states, cancelState, failing, abort, lines>>, running' \in BOOLEAN
  PROVE  JobTyped' /\ OneState' /\ RankInv' /\ idle' \in BOOLEAN
  <1>1. /\ state' = s /\ toPublish' = <<State(s)>>
        /\ idle' = IF s = "RUNNING" /\ clients = 0 THEN FALSE ELSE idle
    BY DEF setState
  <1>2. toPublish' \in Seq(Events \union {Close}) /\ Len(toPublish') = 1
    BY <1>1, EventTypes
  <1>3. OneState'
    BY <1>2 DEF OneState
  <1>4. Owed = 0 /\ Owed' \in {0, 1}
    BY DEF Owed
  <1>5. Len(states) \in Nat /\ Rank(s) \in Nat /\ Rank(state) \in Nat
    BY LenProperties, TypeParts DEF IInv, HubTyped, Rank
  <1>6. RankInv'
    BY <1>1, <1>4, <1>5 DEF IInv, RankInv
  <1>7. JobTyped'
    BY <1>1, <1>2, TypeParts DEF IInv, JobTyped
  <1>8. idle' \in BOOLEAN
    BY <1>1 DEF IInv, TypeOK
  <1> QED
    BY <1>3, <1>6, <1>7, <1>8

(* What finalize publishes, with and without a report before it. *)
LEMMA Prefixed ==
  ASSUME NEW S, NEW a \in S, NEW b \in S, NEW c \in S, NEW d \in S
  PROVE  <<>> \o <<b, c, d>> = <<b, c, d>> /\ <<a>> \o <<b, c, d>> = <<a, b, c, d>>
  <1> DEFINE t == <<b, c, d>>
             w == <<a>>
             u == w \o t
             v == <<a, b, c, d>>
  <1>1. /\ t \in Seq(S) /\ Len(t) = 3 /\ t[1] = b /\ t[2] = c /\ t[3] = d
        /\ w \in Seq(S) /\ Len(w) = 1 /\ w[1] = a
        /\ v \in Seq(S) /\ Len(v) = 4 /\ v[1] = a /\ v[2] = b /\ v[3] = c /\ v[4] = d
    OBVIOUS
  <1> HIDE DEF t, v, w
  <1>2. /\ u \in Seq(S) /\ Len(u) = Len(w) + Len(t)
        /\ \A i \in 1..Len(w) + Len(t) : u[i] = IF i <= Len(w) THEN w[i] ELSE t[i - Len(w)]
    BY <1>1, ConcatProperties
  <1> HIDE DEF u
  <1>3. Len(u) = 4 /\ u[1] = a /\ u[2] = b /\ u[3] = c /\ u[4] = d
    BY <1>1, <1>2
  <1>4. \A i \in 1..4 : u[i] = v[i]
    BY <1>1, <1>3
  <1>5. u = v
    BY <1>1, <1>2, <1>3, <1>4, SeqEqual
  <1>6. <<>> \o t = t
    BY <1>1, ConcatEmptySeq
  <1> QED
    BY <1>5, <1>6 DEF t, u, v, w

(* finalize publishes the state, the exit event and the close, behind a report
   or not. *)
LEMMA FinalShape ==
  ASSUME NEW s \in Terminal, finalize(s)
  PROVE  toPublish' = <<State(s), Exit, Close>> \/ toPublish' = <<Prt, State(s), Exit, Close>>
  <1> DEFINE S == Events \union {Close}
  <1>1. PICK reports \in {<<>>, <<Prt>>} : toPublish' = reports \o <<State(s), Exit, Close>>
    BY DEF finalize
  <1>2. State(s) \in S /\ Exit \in S /\ Close \in S /\ Prt \in S
    BY EventTypes DEF States
  <1> HIDE DEF S
  <1>3. /\ <<>> \o <<State(s), Exit, Close>> = <<State(s), Exit, Close>>
        /\ <<Prt>> \o <<State(s), Exit, Close>> = <<Prt, State(s), Exit, Close>>
    BY <1>2, Prefixed
  <1> QED
    BY <1>1, <1>3

(* finalize owes the terminal state, the exit event and the close. *)
LEMMA FinalStep ==
  ASSUME IInv, NEW s \in Terminal, finalize(s), toPublish = <<>>, state \notin Terminal,
         UNCHANGED <<states, cancelState, failing, running, abort, lines>>
  PROVE  JobTyped' /\ OneState' /\ RankInv'
  <1>1. PICK reports \in {<<>>, <<Prt>>} :
          state' = s /\ toPublish' = reports \o <<State(s), Exit, Close>>
    BY DEF finalize
  <1>s. s \in States
    BY DEF States
  <1>2. ASSUME toPublish' = <<State(s), Exit, Close>>
        PROVE  toPublish' \in Seq(Events \union {Close}) /\ OneState'
    <2>1. toPublish' \in Seq(Events \union {Close}) /\ Len(toPublish') = 3
      BY <1>s, <1>2, EventTypes
    <2>2. toPublish'[2].type = "exit" /\ toPublish'[3].type = "close"
      BY <1>2, EventTypes
    <2>3. OneState'
      BY <2>1, <2>2 DEF OneState
    <2> QED
      BY <2>1, <2>3
  <1>3. ASSUME toPublish' = <<Prt, State(s), Exit, Close>>
        PROVE  toPublish' \in Seq(Events \union {Close}) /\ OneState'
    <2>1. toPublish' \in Seq(Events \union {Close}) /\ Len(toPublish') = 4
      BY <1>s, <1>3, EventTypes
    <2>2. toPublish'[1].type = "stderr" /\ toPublish'[3].type = "exit" /\ toPublish'[4].type = "close"
      BY <1>3, EventTypes
    <2>3. OneState'
      BY <2>1, <2>2 DEF OneState
    <2> QED
      BY <2>1, <2>3
  <1>4. toPublish' = <<State(s), Exit, Close>> \/ toPublish' = <<Prt, State(s), Exit, Close>>
    BY FinalShape
  <1>5. toPublish' \in Seq(Events \union {Close}) /\ OneState'
    BY <1>2, <1>3, <1>4
  <1>6. Owed = 0 /\ Owed' \in {0, 1}
    BY DEF Owed
  <1>7. Rank(state) \in {1, 2, 3, 4} /\ Rank(s) = 5
    BY DEF IInv, TypeOK, States, Rank, Terminal, Cancels
  <1>8. Len(states) \in Nat
    BY LenProperties, TypeParts DEF IInv, HubTyped
  <1>9. RankInv'
    BY <1>1, <1>6, <1>7, <1>8 DEF IInv, RankInv
  <1>10. JobTyped'
    BY <1>1, <1>5, <1>s, TypeParts DEF IInv, JobTyped
  <1> QED
    BY <1>5, <1>9, <1>10

(* RunPreparing, RunRunning and RunDraining set a state; RunAborted and RunFinal
   finalize. *)
LEMMA RunStep ==
  ASSUME IInv, RunPreparing \/ RunRunning \/ RunDraining \/ RunAborted \/ RunFinal
  PROVE  IInv'
  <1>1. /\ UNCHANGED <<clients, monitor, handler, got, hubVars, states>>
        /\ UNCHANGED <<cancelState, failing, abort, lines>> /\ toPublish = <<>>
    BY DEF RunPreparing, RunRunning, RunDraining, RunAborted, RunFinal, connVars, lifeVars, hubVars,
           histVars
  <1>2. JobTyped' /\ OneState' /\ RankInv' /\ idle' \in BOOLEAN
    <2>1. CASE RunPreparing
      <3>1. setState("PREPARING") /\ running' \in BOOLEAN /\ state = "PENDING"
        BY <2>1 DEF RunPreparing, IInv, TypeOK
      <3>2. "PREPARING" \in States /\ Rank("PREPARING") = Rank(state) + 1
        BY <3>1 DEF States, Rank
      <3> QED
        BY <1>1, <3>1, <3>2, SetStep
    <2>2. CASE RunRunning
      <3>1. setState("RUNNING") /\ running' \in BOOLEAN /\ state = "PREPARING"
        BY <2>2 DEF RunRunning
      <3>2. "RUNNING" \in States /\ Rank("RUNNING") = Rank(state) + 1
        BY <3>1 DEF States, Rank
      <3> QED
        BY <1>1, <3>1, <3>2, SetStep
    <2>3. CASE RunDraining
      <3>1. setState("DRAINING") /\ running' \in BOOLEAN /\ state = "RUNNING"
        BY <2>3 DEF RunDraining, IInv, TypeOK
      <3>2. "DRAINING" \in States /\ Rank("DRAINING") = Rank(state) + 1
        BY <3>1 DEF States, Rank
      <3> QED
        BY <1>1, <3>1, <3>2, SetStep
    <2>4. CASE RunAborted \/ RunFinal
      <3>1. UNCHANGED <<running, idle>> /\ state \in {"PREPARING", "DRAINING"}
        BY <2>4 DEF RunAborted, RunFinal, lifeVars
      <3>2. cancelState \in Cancels \union {"no"} /\ idle \in BOOLEAN
        BY DEF IInv, TypeOK
      <3>3. \E t \in Terminal : finalize(t)
        <4>1. CASE RunAborted
          BY <3>2, <4>1 DEF RunAborted, Terminal
        <4>2. CASE RunFinal
          BY <3>2, <4>2 DEF RunFinal, Terminal
        <4> QED
          BY <2>4, <4>1, <4>2
      <3>4. state \notin Terminal
        BY <3>1 DEF Terminal, Cancels
      <3>5. JobTyped' /\ OneState' /\ RankInv'
        BY <1>1, <3>1, <3>3, <3>4, FinalStep
      <3> QED
        BY <3>1, <3>2, <3>5
    <2> QED
      BY <2>1, <2>2, <2>3, <2>4
  <1>3. HubTyped' /\ RingInv' /\ ConnTyped' /\ CountInv'
    BY <1>1, HubFrame, ConnFrame
  <1>4. LifeTyped'
    BY <1>1, <1>2 DEF IInv, TypeOK, LifeTyped
  <1> QED
    BY <1>2, <1>3, <1>4, Assemble

(* What is owed shrinks as it is published. *)
LEMMA TailOwed ==
  ASSUME IInv, toPublish # <<>>, toPublish' = Tail(toPublish)
  PROVE  /\ toPublish' \in Seq(Events \union {Close}) /\ OneState'
         /\ Head(toPublish).type = "state" => Owed = 1 /\ Owed' = 0
         /\ Owed' = 0 \/ Owed' = Owed
  <1>1. toPublish \in Seq(Events \union {Close}) /\ OneState
    BY DEF IInv, TypeOK
  <1>2. /\ toPublish' \in Seq(Events \union {Close}) /\ Len(toPublish') = Len(toPublish) - 1
        /\ \A i \in 1..Len(toPublish') : toPublish'[i] = toPublish[i + 1]
        /\ Len(toPublish) \in Nat /\ Len(toPublish) # 0 /\ Head(toPublish) = toPublish[1]
    BY <1>1, HeadTailProperties, LenProperties, EmptySeq
  <1>3. \A i \in 1..Len(toPublish') : i + 1 \in 1..Len(toPublish) /\ i + 1 # 1
    BY <1>2
  <1>4. OneState'
    <2> SUFFICES ASSUME NEW i \in 1..Len(toPublish'), NEW k \in 1..Len(toPublish'),
                        toPublish'[i].type = "state", toPublish'[k].type = "state"
                 PROVE  i = k
      BY DEF OneState
    <2>1. i + 1 = k + 1
      BY <1>1, <1>2, <1>3 DEF OneState
    <2> QED
      BY <2>1
  <1>5. ASSUME toPublish[1].type = "state" PROVE Owed = 1 /\ Owed' = 0
    <2>1. Owed = 1
      BY <1>2, <1>5 DEF Owed
    <2>2. \A i \in 1..Len(toPublish') : toPublish'[i].type # "state"
      BY <1>1, <1>2, <1>3, <1>5 DEF OneState
    <2> QED
      BY <2>1, <2>2 DEF Owed
  <1>6. Owed' = 0 \/ Owed' = Owed
    <2> SUFFICES ASSUME NEW i \in 1..Len(toPublish'), toPublish'[i].type = "state"
                 PROVE  Owed' = Owed
      BY DEF Owed
    <2>1. toPublish[i + 1].type = "state" /\ i + 1 \in 1..Len(toPublish)
      BY <1>2, <1>3
    <2> QED
      BY <2>1 DEF Owed
  <1> QED
    BY <1>2, <1>4, <1>5, <1>6

(* close ends the channels and keeps the history. *)
LEMMA CloseStep ==
  ASSUME HubTyped, close
  PROVE  HubTyped' /\ UNCHANGED <<states, stderr, exit>>
  BY DEF HubTyped, close, histVars

(* run() publishes or closes what comes next: the history of states grows by
   at most what was owed. *)
LEMMA RunPublishStep == ASSUME IInv, RunPublish PROVE IInv'
  <1> DEFINE h == Head(toPublish)
  <1>1. /\ toPublish # <<>> /\ toPublish' = Tail(toPublish)
        /\ IF h = Close THEN close ELSE publish(h)
        /\ UNCHANGED <<state, cancelState, failing, running, abort, lines>>
        /\ UNCHANGED <<clients, idle, monitor, handler, got>>
    BY DEF RunPublish, lifeVars, connVars
  <1>2. /\ toPublish' \in Seq(Events \union {Close}) /\ OneState'
        /\ h.type = "state" => Owed = 1 /\ Owed' = 0
        /\ Owed' = 0 \/ Owed' = Owed
    BY <1>1, TailOwed
  <1>3. h \in Events \union {Close} /\ HubTyped /\ RingInv
    BY <1>1, TypeParts, HeadTailProperties DEF IInv, TypeOK
  <1>4. /\ HubTyped' /\ RingInv'
        /\ IF h.type = "state" THEN Len(states') <= Len(states) + 1 ELSE states' = states
    <2>1. CASE h = Close
      <3>1. h.type = "close" /\ HubTyped' /\ UNCHANGED <<states, stderr, exit>>
        BY <1>1, <1>3, <2>1, CloseStep, EventTypes
      <3> QED
        BY <1>3, <3>1 DEF RingInv
    <2>2. CASE h # Close
      <3>1. h \in Events /\ publish(h)
        BY <1>1, <1>3, <2>2
      <3> HIDE DEF h
      <3> QED
        BY <1>3, <3>1, PublishStep
    <2> QED
      BY <2>1, <2>2
  <1>5. RankInv'
    <2>1. Len(states) \in Nat /\ Len(states') \in Nat
      BY <1>3, <1>4, LenProperties DEF HubTyped
    <2>2. Rank(state) \in Nat /\ Rank(state') = Rank(state) /\ Owed \in {0, 1}
      BY <1>1 DEF Rank, Owed
    <2> HIDE DEF h
    <2>3. Len(states') + Owed' <= Len(states) + Owed
      BY <1>2, <1>4, <2>1, <2>2
    <2> QED
      BY <2>1, <2>2, <2>3, <1>2 DEF IInv, RankInv
  <1>6. JobTyped' /\ LifeTyped'
    BY <1>1, <1>2 DEF IInv, TypeOK, JobTyped, LifeTyped
  <1>7. ConnTyped' /\ CountInv'
    BY <1>1, ConnFrame
  <1> QED
    BY <1>2, <1>4, <1>5, <1>6, <1>7, Assemble

(* The other publishers publish lines. *)
LEMMA LineStep == ASSUME IInv, MirrorStderr \/ AbortPublish PROVE IInv'
  <1>1. /\ UNCHANGED <<state, cancelState, failing, running, toPublish>>
        /\ UNCHANGED <<clients, idle, monitor, handler, got>>
        /\ lines' \in 0..MaxLines /\ abort' \in {"no", "publish", "done"}
        /\ \E ev \in Events : ev.type = "stderr" /\ publish(ev)
    <2>1. CASE MirrorStderr
      <3>1. lines' \in 0..MaxLines
        BY <2>1, HubAssumption DEF MirrorStderr, IInv, TypeOK
      <3>2. \E ev \in Events : ev.type = "stderr" /\ publish(ev)
        BY <2>1, <3>1, EventTypes DEF MirrorStderr
      <3> QED
        BY <2>1, <3>1, <3>2 DEF MirrorStderr, lifeVars, connVars, IInv, TypeOK
    <2>2. CASE AbortPublish
      <3>1. \E ev \in Events : ev.type = "stderr" /\ publish(ev)
        BY <2>2, EventTypes DEF AbortPublish
      <3> QED
        BY <2>2, <3>1 DEF AbortPublish, lifeVars, connVars, IInv, TypeOK
    <2> QED
      BY <2>1, <2>2
  <1>2. HubTyped /\ RingInv
    BY TypeParts DEF IInv
  <1>3. HubTyped' /\ RingInv' /\ states' = states
    BY <1>1, <1>2, PublishStep
  <1>4. OneState' /\ Owed' = Owed
    BY <1>1 DEF IInv, OneState, Owed
  <1>5. RankInv'
    BY <1>1, <1>3, <1>4, RankFrame
  <1>6. JobTyped' /\ LifeTyped'
    BY <1>1 DEF IInv, TypeOK, JobTyped, LifeTyped
  <1>7. ConnTyped' /\ CountInv'
    BY <1>1, ConnFrame
  <1> QED
    BY <1>3, <1>4, <1>5, <1>6, <1>7, Assemble

(* The process, the failures, the cancels and the monitor publish nothing. *)
LEMMA QuietStep ==
  ASSUME IInv, StartMonitor \/ TranscoderExit \/ AbortFail \/ DeleteJob \/ PeerTimeoutPasses
               \/ Monitor
  PROVE  IInv'
  <1>1. /\ UNCHANGED <<state, toPublish, lines, clients, handler, got, hubVars>>
        /\ cancelState' \in Cancels \union {"no"} /\ abort' \in {"no", "publish", "done"}
        /\ monitor' \in {"none", "ticking", "lost", "returned"}
    BY DEF StartMonitor, TranscoderExit, AbortFail, DeleteJob, PeerTimeoutPasses, Monitor,
           MonitorTick, MonitorCancel, requestCancel, jobVars, lifeVars, connVars, hubVars, histVars,
           Cancels, IInv, TypeOK
  <1>2. failing' \in BOOLEAN /\ running' \in BOOLEAN /\ idle' \in BOOLEAN
    BY DEF StartMonitor, TranscoderExit, AbortFail, DeleteJob, PeerTimeoutPasses, Monitor,
           MonitorTick, MonitorCancel, jobVars, lifeVars, IInv, TypeOK
  <1>3. HubTyped' /\ RingInv' /\ UNCHANGED states
    BY <1>1, HubFrame
  <1>4. ConnTyped' /\ CountInv'
    BY <1>1, ConnFrame
  <1>5. OneState' /\ Owed' = Owed
    BY <1>1 DEF IInv, OneState, Owed
  <1>6. RankInv'
    BY <1>1, <1>3, <1>5, RankFrame
  <1>7. JobTyped' /\ LifeTyped'
    BY <1>1, <1>2 DEF IInv, TypeOK, JobTyped, LifeTyped
  <1> QED
    BY <1>3, <1>4, <1>5, <1>6, <1>7, Assemble

-----------------------------------------------------------------------------
(* The handlers *)

(* The attached clients can be counted. *)
LEMMA AttachedFinite == IsFiniteSet(Attached) /\ Cardinality(Attached) \in 0..Cardinality(Clients)
  <1>1. Attached \subseteq Clients
    BY DEF Attached
  <1>2. /\ IsFiniteSet(Attached) /\ Cardinality(Attached) \in Nat
        /\ Cardinality(Clients) \in Nat /\ Cardinality(Attached) <= Cardinality(Clients)
    BY <1>1, HubAssumption, FS_Subset, FS_CardinalityType
  <1> QED
    BY <1>2

(* A handler that is counted neither before nor after its step, or both. *)
LEMMA UncountedStep ==
  ASSUME IInv, NEW c \in Clients,
         NEW h \in {"none", "open", "subscribed", "stream", "unsub", "gone"},
         handler' = [handler EXCEPT ![c] = h],
         handler[c] \in {"stream", "unsub"} <=> h \in {"stream", "unsub"},
         UNCHANGED clients
  PROVE  CountInv'
  <1>1. handler \in [Clients -> {"none", "open", "subscribed", "stream", "unsub", "gone"}]
    BY DEF IInv, TypeOK
  <1>2. Attached' = Attached
    BY <1>1 DEF Attached
  <1> QED
    BY <1>2 DEF IInv, CountInv

(* connFrame: the job, the history and the monitor do not notice a client. *)
LEMMA JobUntouched ==
  ASSUME IInv, UNCHANGED connFrame
  PROVE  /\ JobTyped' /\ OneState' /\ RingInv' /\ RankInv'
         /\ UNCHANGED <<states, stderr, exit, closed, monitor>>
  <1>1. UNCHANGED <<jobVars, monitor, states, stderr, exit, closed>>
    BY DEF connFrame, histVars
  <1>2. JobTyped' /\ OneState' /\ Owed' = Owed /\ UNCHANGED state
    BY <1>1, JobFrame
  <1> QED
    BY <1>1, <1>2, RankFrame DEF IInv, RingInv

(* A handler that begins is not counted yet. *)
LEMMA ConnectStep == ASSUME IInv, NEW c \in Clients, Connect(c) PROVE IInv'
  <1>1. /\ UNCHANGED connFrame /\ UNCHANGED <<clients, idle, subs, chan, chanClosed, got>>
        /\ handler[c] = "none" /\ handler' = [handler EXCEPT ![c] = "open"]
    BY DEF Connect, chanVars, connFrame
  <1>2. JobTyped' /\ OneState' /\ RingInv' /\ RankInv' /\ UNCHANGED <<states, stderr, exit, closed, monitor>>
    BY <1>1, JobUntouched
  <1>3. CountInv'
    BY <1>1, UncountedStep
  <1>4. HubTyped' /\ LifeTyped'
    BY <1>1, <1>2 DEF IInv, TypeOK, HubTyped, LifeTyped
  <1>5. ConnTyped'
    BY <1>1 DEF IInv, TypeOK, ConnTyped
  <1> QED
    BY <1>2, <1>3, <1>4, <1>5, Assemble

(* A snapshot is the states, the ring and the exit event, one after the other. *)
LEMMA SnapshotTyped ==
  ASSUME HubTyped
  PROVE  snapshot \in Seq(Events) /\ Len(snapshot) = Len(states) + Len(stderr) + Len(exit)
  <1>1. states \in Seq(Events) /\ stderr \in Seq(Events) /\ exit \in Seq(Events)
    BY SeqMonotonic DEF HubTyped, Events
  <1>2. states \o stderr \in Seq(Events) /\ Len(states \o stderr) = Len(states) + Len(stderr)
    BY <1>1, ConcatProperties
  <1> QED
    BY <1>1, <1>2, ConcatProperties DEF snapshot

(* subscribe registers a channel that holds the snapshot. *)
LEMMA SubscribeStep == ASSUME IInv, NEW c \in Clients, Subscribe(c) PROVE IInv'
  <1>1. /\ UNCHANGED connFrame /\ UNCHANGED <<clients, idle, got>>
        /\ handler[c] = "open" /\ handler' = [handler EXCEPT ![c] = "subscribed"]
        /\ chan' = [chan EXCEPT ![c] = snapshot]
        /\ chanClosed' = [chanClosed EXCEPT ![c] = closed]
        /\ subs' = IF closed THEN subs ELSE subs \union {c}
    BY DEF Subscribe, connFrame
  <1>2. JobTyped' /\ OneState' /\ RingInv' /\ RankInv' /\ UNCHANGED <<states, stderr, exit, closed, monitor>>
    BY <1>1, JobUntouched
  <1>3. CountInv'
    BY <1>1, UncountedStep
  <1>4. HubTyped'
    <2>t. HubTyped /\ snapshot \in Seq(Events)
      BY TypeParts, SnapshotTyped DEF IInv
    <2>1. chan' \in [Clients -> Seq(Events)]
      BY <1>1, <2>t DEF HubTyped
    <2>2. chanClosed' \in [Clients -> BOOLEAN] /\ subs' \subseteq Clients
      BY <1>1, <2>t DEF HubTyped
    <2> QED
      BY <1>2, <2>t, <2>1, <2>2 DEF HubTyped
  <1>5. ConnTyped' /\ LifeTyped'
    BY <1>1, <1>2 DEF IInv, TypeOK, ConnTyped, LifeTyped
  <1> QED
    BY <1>2, <1>3, <1>4, <1>5, Assemble

(* A handler that writes takes one event from its channel. *)
LEMMA WriteStep == ASSUME IInv, NEW c \in Clients, WriteEvent(c) PROVE IInv'
  <1>1. /\ UNCHANGED connFrame /\ UNCHANGED <<clients, idle, subs, chanClosed, handler>>
        /\ chan[c] # <<>> /\ got' = [got EXCEPT ![c] = Append(@, Head(chan[c]))]
        /\ chan' = [chan EXCEPT ![c] = Tail(@)]
    BY DEF WriteEvent, connFrame
  <1>2. JobTyped' /\ OneState' /\ RingInv' /\ RankInv' /\ UNCHANGED <<states, stderr, exit, closed, monitor>>
    BY <1>1, JobUntouched
  <1>3. CountInv'
    BY <1>1 DEF IInv, CountInv, Attached
  <1>4. Head(chan[c]) \in Events /\ Tail(chan[c]) \in Seq(Events)
    BY <1>1, HeadTailProperties DEF IInv, TypeOK
  <1>5. HubTyped' /\ LifeTyped'
    BY <1>1, <1>2, <1>4 DEF IInv, TypeOK, HubTyped, LifeTyped
  <1>6. ConnTyped'
    <2>1. Append(got[c], Head(chan[c])) \in Seq(Events)
      BY <1>4 DEF IInv, TypeOK
    <2> QED
      BY <1>1, <2>1 DEF IInv, TypeOK, ConnTyped
  <1> QED
    BY <1>2, <1>3, <1>5, <1>6, Assemble

(* A handler that stops is still counted until it has unsubscribed. *)
LEMMA LeaveStep == ASSUME IInv, NEW c \in Clients, EndOfStream(c) \/ ClientGone(c) PROVE IInv'
  <1>1. /\ UNCHANGED connFrame /\ UNCHANGED <<clients, idle, chanClosed>>
        /\ handler[c] = "stream" /\ handler' = [handler EXCEPT ![c] = "unsub"]
        /\ subs' = subs \ {c}
        /\ chan' = [chan EXCEPT ![c] = <<>>] /\ got' = [got EXCEPT ![c] = <<>>]
    BY DEF EndOfStream, ClientGone, leave, connFrame
  <1>2. JobTyped' /\ OneState' /\ RingInv' /\ RankInv' /\ UNCHANGED <<states, stderr, exit, closed, monitor>>
    BY <1>1, JobUntouched
  <1>3. CountInv'
    BY <1>1, UncountedStep
  <1>4. HubTyped' /\ LifeTyped'
    BY <1>1, <1>2 DEF IInv, TypeOK, HubTyped, LifeTyped
  <1>5. ConnTyped'
    BY <1>1 DEF IInv, TypeOK, ConnTyped
  <1> QED
    BY <1>2, <1>3, <1>4, <1>5, Assemble

(* The lifeline counts up after the subscription and down after the unsub. *)
LEMMA CountStep == ASSUME IInv, NEW c \in Clients, CountClient(c) \/ UncountClient(c) PROVE IInv'
  <1>1. /\ UNCHANGED connFrame /\ UNCHANGED <<subs, chan, chanClosed, got>>
        /\ idle' \in {FALSE, idle}
    BY DEF CountClient, UncountClient, connFrame, chanVars
  <1>2. JobTyped' /\ OneState' /\ RingInv' /\ RankInv' /\ UNCHANGED <<states, stderr, exit, closed, monitor>>
    BY <1>1, JobUntouched
  <1>t. handler \in [Clients -> {"none", "open", "subscribed", "stream", "unsub", "gone"}]
    BY DEF IInv, TypeOK
  <1>c. clients = Cardinality(Attached) /\ IsFiniteSet(Attached) /\ Cardinality(Attached) \in Nat
    BY AttachedFinite, FS_CardinalityType DEF IInv, CountInv
  <1>3. CountInv' /\ ConnTyped'
    <2>1. CASE CountClient(c)
      <3>1. /\ handler[c] = "subscribed" /\ clients' = clients + 1
            /\ handler' = [handler EXCEPT ![c] = "stream"]
        BY <2>1 DEF CountClient
      <3>2. Attached' = Attached \union {c} /\ c \notin Attached
        BY <1>t, <3>1 DEF Attached
      <3>3. CountInv'
        BY <1>c, <3>1, <3>2, FS_AddElement DEF CountInv
      <3> QED
        BY <1>1, <3>1, <3>3 DEF IInv, TypeOK, ConnTyped
    <2>2. CASE UncountClient(c)
      <3>1. /\ handler[c] = "unsub" /\ clients' = clients - 1
            /\ handler' = [handler EXCEPT ![c] = "gone"]
        BY <2>2 DEF UncountClient
      <3>2. Attached' = Attached \ {c} /\ c \in Attached
        BY <1>t, <3>1 DEF Attached
      <3>3. CountInv'
        BY <1>c, <3>1, <3>2, FS_RemoveElement DEF CountInv
      <3> QED
        BY <1>1, <3>1, <3>3 DEF IInv, TypeOK, ConnTyped
    <2> QED
      BY <2>1, <2>2
  <1>4. Cardinality(Attached') \in 0..Cardinality(Clients)
    <2>1. Attached' \subseteq Clients
      BY DEF Attached
    <2>2. /\ Cardinality(Attached') \in Nat /\ Cardinality(Clients) \in Nat
          /\ Cardinality(Attached') <= Cardinality(Clients)
      BY <2>1, HubAssumption, FS_Subset, FS_CardinalityType
    <2> QED
      BY <2>2
  <1>5. LifeTyped'
    BY <1>1, <1>2, <1>3, <1>4 DEF IInv, TypeOK, LifeTyped, CountInv
  <1>6. HubTyped'
    BY <1>1, <1>2 DEF IInv, TypeOK, HubTyped
  <1> QED
    BY <1>2, <1>3, <1>5, <1>6, Assemble

-----------------------------------------------------------------------------
(* Every step of every goroutine keeps the invariant. *)
LEMMA StepIInv == IInv /\ [Next]_vars => IInv'
  <1> SUFFICES ASSUME IInv, [Next]_vars PROVE IInv'
    OBVIOUS
  <1>1. CASE Run
    BY <1>1, RunStep, RunPublishStep, QuietStep DEF Run
  <1>2. CASE TranscoderExit \/ MirrorStderr \/ AbortFail \/ AbortPublish \/ DeleteJob
             \/ PeerTimeoutPasses \/ Monitor
    BY <1>2, QuietStep, LineStep
  <1>3. ASSUME NEW c \in Clients, Connect(c) \/ Handler(c) \/ ClientGone(c) PROVE IInv'
    BY <1>3, ConnectStep, SubscribeStep, CountStep, WriteStep, LeaveStep DEF Handler
  <1>4. CASE UNCHANGED vars
    <2>1. UNCHANGED <<jobVars, hubVars, clients, idle, monitor, handler, got>>
      BY <1>4 DEF vars, lifeVars, connVars
    <2>2. JobTyped' /\ OneState' /\ Owed' = Owed /\ UNCHANGED state
      BY <2>1, JobFrame
    <2>3. HubTyped' /\ RingInv' /\ UNCHANGED states
      BY <2>1, HubFrame
    <2>4. RankInv'
      BY <2>2, <2>3, RankFrame
    <2>5. ConnTyped' /\ CountInv'
      BY <2>1, ConnFrame
    <2>6. LifeTyped'
      BY <2>1 DEF IInv, TypeOK, LifeTyped
    <2> QED
      BY <2>2, <2>3, <2>4, <2>5, <2>6, Assemble
  <1> QED
    BY <1>1, <1>2, <1>3, <1>4 DEF Next

(* The invariant holds throughout: however clients come, stall and go
   (publish, subscribe, handleJobEvents, monitorLifeline). *)
THEOREM HubInvariant == Spec => []IInv
  BY InitIInv, StepIInv, PTL DEF Spec

(* Every variable keeps its type; j.clients is never negative (handleJobEvents). *)
THEOREM HubTypeCorrect == Spec => []TypeOK
  <1>1. IInv => TypeOK
    BY DEF IInv
  <1> QED
    BY <1>1, HubInvariant, PTL

(* subBuffer exceeds the largest snapshot: five states, the ring and the exit
   event.  subscribe never blocks under h.mu. *)
THEOREM SnapshotAlwaysFits == Spec => []SnapshotFits
  <1>1. IInv => SnapshotFits
    <2> SUFFICES ASSUME IInv PROVE Len(snapshot) <= SubBuffer
      BY DEF SnapshotFits
    <2>1. HubTyped /\ Len(stderr) <= RingSize /\ Len(exit) <= 1 /\ Len(states) + Owed <= Rank(state)
      BY TypeParts DEF IInv, RingInv, RankInv
    <2>2. Len(states) \in Nat /\ Len(stderr) \in Nat /\ Len(exit) \in Nat
      BY <2>1, LenProperties DEF HubTyped
    <2>3. Owed \in {0, 1} /\ Rank(state) \in 1..5
      BY DEF Owed, Rank
    <2>4. Len(states) <= 5
      BY <2>1, <2>2, <2>3
    <2> QED
      BY <2>1, <2>2, <2>4, SnapshotTyped, HubAssumption, BufferAssumption
  <1> QED
    BY <1>1, HubInvariant, PTL

(* The monitor gives a job up only while no handler has a client: its count is
   exact between the subscription and the unsub (monitorLifeline). *)
THEOREM LostOnlyUnattended == Spec => LostUnattended
  <1>1. ASSUME IInv, [Next]_vars, monitor # "lost", monitor' = "lost", NEW c \in Clients
        PROVE  handler[c] \notin {"stream", "unsub"}
    <2>1. MonitorTick
      BY <1>1 DEF Next, Run, RunPreparing, RunRunning, StartMonitor, RunAborted, RunDraining, RunFinal,
                  RunPublish, TranscoderExit, MirrorStderr, AbortFail, AbortPublish, DeleteJob,
                  PeerTimeoutPasses, Monitor, MonitorCancel, Connect, Handler, Subscribe, CountClient,
                  WriteEvent, EndOfStream, ClientGone, leave, UncountClient, connFrame, lifeVars, vars
    <2>2. Cardinality(Attached) = 0 /\ IsFiniteSet(Attached)
      BY <1>1, <2>1, AttachedFinite DEF MonitorTick, IInv, CountInv
    <2>3. Attached = {}
      BY <2>2, FS_EmptySet
    <2> QED
      BY <2>3 DEF Attached
  <1>2. IInv /\ [Next]_vars =>
          [monitor # "lost" /\ monitor' = "lost"
             => \A c \in Clients : handler[c] \notin {"stream", "unsub"}]_vars
    BY <1>1
  <1> QED
    BY <1>2, HubInvariant, PTL DEF Spec, LostUnattended

-----------------------------------------------------------------------------
(* The job of EventHub is a job: it implements JobLife, as WorkerJob does. *)

(* Here a verdict and the state it leads to are one step. *)
Life == INSTANCE JobLife WITH
          cancel <- cancelState,
          verdict <- IF state \in Terminal THEN state ELSE "no"

ImplementsJobLife == Life!Spec

VerdictOf == IF state \in Terminal THEN state ELSE "no"

jobLifeVars == <<state, cancelState, failing, VerdictOf>>

(* The states, up to DRAINING. *)
LEMMA LifeStates ==
  ASSUME RunPreparing \/ RunRunning \/ RunDraining
  PROVE  Life!Advance
  BY DEF RunPreparing, RunRunning, RunDraining, setState, Life!Advance, Terminal, Cancels

(* The end. *)
LEMMA LifeEnd ==
  ASSUME TypeOK, RunAborted \/ RunFinal
  PROVE  Life!Decide
  <1>1. /\ state \in {"PREPARING", "DRAINING"}
        /\ UNCHANGED <<cancelState, failing>>
        /\ state' \in Life!Verdicts
    BY DEF RunAborted, RunFinal, finalize, Life!Verdicts
  <1>2. state' \in Terminal
    BY <1>1 DEF TypeOK, Terminal, Life!Verdicts
  <1> QED
    BY <1>1, <1>2 DEF Life!Decide, Terminal, Cancels

(* Cancels and failures are recorded until there is a terminal state. *)
LEMMA LifeMarks ==
  ASSUME AbortFail \/ DeleteJob \/ MonitorCancel
  PROVE  [Life!Next]_jobLifeVars
  <1> USE DEF Life!Next, VerdictOf, jobLifeVars, Terminal, Cancels, Life!Ends, Life!Cancels
  <1>1. CASE AbortFail
    BY <1>1 DEF AbortFail, Life!Fail
  <1>2. CASE DeleteJob \/ MonitorCancel
    BY <1>2 DEF DeleteJob, MonitorCancel, requestCancel, Life!Cancel
  <1> QED
    BY <1>1, <1>2

(* The job whose states the hub publishes keeps the promise of JobLife, the one
   WorkerJob's run() keeps: reduced as it is (setState, finalize, requestCancel,
   abortFail), it has no life that breaks the order or the verdict. *)
THEOREM HubLifeImplementation == Spec => ImplementsJobLife
  <1>1. Init => Life!Init
    BY DEF Init, Life!Init, Terminal, Cancels
  <1>2. ASSUME IInv, [Next]_vars PROVE [Life!Next]_jobLifeVars
    <2>1. CASE RunPreparing \/ RunRunning \/ RunDraining \/ RunAborted \/ RunFinal
      BY <1>2, <2>1, LifeStates, LifeEnd DEF Life!Next, IInv
    <2>2. CASE AbortFail \/ DeleteJob \/ MonitorCancel
      BY <2>2, LifeMarks
    <2>3. CASE \/ StartMonitor \/ RunPublish \/ TranscoderExit \/ MirrorStderr \/ AbortPublish
               \/ PeerTimeoutPasses \/ MonitorTick \/ UNCHANGED vars
               \/ \E c \in Clients : Connect(c) \/ Handler(c) \/ ClientGone(c)
      <3>1. UNCHANGED <<state, cancelState, failing>>
        BY <2>3 DEF StartMonitor, RunPublish, TranscoderExit, MirrorStderr, AbortPublish,
           PeerTimeoutPasses, MonitorTick, Connect, Handler, Subscribe, CountClient, WriteEvent,
           EndOfStream, UncountClient, ClientGone, leave, connFrame, jobVars, vars
      <3> QED
        BY <3>1 DEF VerdictOf, jobLifeVars
    <2> QED
      BY <1>2, <2>1, <2>2, <2>3 DEF Next, Run, Monitor
  <1> QED
    BY <1>1, <1>2, HubInvariant, PTL
       DEF Spec, ImplementsJobLife, Life!Spec, Life!vars, jobLifeVars, VerdictOf
=============================================================================
