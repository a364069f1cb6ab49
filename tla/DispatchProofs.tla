---------------------------- MODULE DispatchProofs ----------------------------
(***************************************************************************)
(* Dispatch, proved for any capacity of the event loop's channel and any   *)
(* number of events in flight: an exit code that the shim hands to Plex    *)
(* Media Server is the one its remote job ended with, the event loop never *)
(* waits in vain, and the first event decides who owns the transcode.      *)
(***************************************************************************)
EXTENDS Dispatch, SequenceTheorems, TLAPS

-----------------------------------------------------------------------------
(* The inductive invariant. *)

(* The exit codes anybody may have been told: none before the job is over, and
   from then on the one it ended with. *)
Told == IF job \in Terminal THEN {code} ELSE {}

(* Every code on its way, from the worker's stream to the exit of the shim, is
   one that was told. *)
ToldInv ==
  /\ wire \in Seq({"event", "eof"} \union Told)
  /\ inbox \in Seq({"event", "error"} \union Told)
  /\ then \in Codes => then \in Told
  /\ outcome \in Codes => outcome \in Told

(* A job that the worker's table still has did not crash with it. *)
KnownInv == known => job \in Active \union Terminal

(* The shim knows how it will exit before it cleans up. *)
ThenInv == shim = "cleanup" => then # "none"

IInv == TypeOK /\ ToldInv /\ KnownInv /\ ThenInv

-----------------------------------------------------------------------------
(* Nothing sent, nothing answered. *)
LEMMA InitIInv == Init => IInv
  <1> SUFFICES ASSUME Init PROVE IInv
    OBVIOUS
  <1>1. TypeOK
    <2>1. Len(inbox) <= InboxCap /\ \A S : <<>> \in Seq(S)
      BY CapsAssumption DEF Init
    <2>2. todo = <<>> /\ inbox = <<>> /\ wire = <<>>
      BY DEF Init
    <2> QED
      BY <2>1, <2>2 DEF Init, TypeOK, Outcomes, Codes, Cancels
  <1>2. ToldInv /\ KnownInv /\ ThenInv
    BY DEF Init, ToldInv, KnownInv, ThenInv, Codes
  <1> QED
    BY <1>1, <1>2 DEF IInv

(* What was told stays told: a job that is over changes no more. *)
LEMMA ToldGrows ==
  ASSUME \/ UNCHANGED <<job, code>>
         \/ job \notin Terminal
  PROVE  Told \subseteq Told'
  BY DEF Told

(* Steps that pass no code on. *)
LEMMA ToldFrame ==
  ASSUME IInv, UNCHANGED <<wire, inbox>>, Told \subseteq Told',
         then' \notin Codes \/ then' = then, outcome' \notin Codes \/ outcome' = outcome
  PROVE  ToldInv'
  <1>1. wire' \in Seq({"event", "eof"} \union Told')
    BY SeqMonotonic DEF IInv, ToldInv
  <1>2. inbox' \in Seq({"event", "error"} \union Told')
    BY SeqMonotonic DEF IInv, ToldInv
  <1> QED
    BY <1>1, <1>2 DEF IInv, ToldInv

(* TypeOK in two parts, for the steps that leave one of them alone. *)
ShimTyped ==
  /\ shim \in {"register", "workers", "dispatch", "posted", "open", "loop",
               "cleanup", "over"}
  /\ todo \in Seq({"cancel", "delete"}) /\ then \in Outcomes \union {"none"}
  /\ outcome \in Outcomes \union {"none"}
  /\ shim = "over" <=> outcome # "none"
  /\ gotEvent \in BOOLEAN /\ sigterm \in BOOLEAN /\ idle \in BOOLEAN
  /\ inbox \in Seq({"event", "0", "1", "error"}) /\ Len(inbox) <= InboxCap

FarTyped ==
  /\ session \in {"none", "live", "closing", "gone"} /\ segment \in BOOLEAN
  /\ offered \in BOOLEAN /\ up \in BOOLEAN /\ known \in BOOLEAN /\ (known => up)
  /\ post \in {"none", "sent", "accepted", "refused"}
  /\ job \in {"none", "crashed"} \union Active \union Terminal
  /\ code \in Codes /\ cancelState \in Cancels \union {"no"} /\ failing \in BOOLEAN
  /\ attached \in BOOLEAN /\ conn \in {"none", "up", "silent", "closed"}
  /\ wire \in Seq({"event", "0", "1", "eof"})

(* TypeOK in two halves: what the shim holds, and what is beyond it. *)
LEMMA TypeParts == TypeOK <=> ShimTyped /\ FarTyped
  BY DEF TypeOK, ShimTyped, FarTyped

(* A step that leaves the shim's own variables alone keeps their types. *)
LEMMA ShimFrame ==
  ASSUME IInv, UNCHANGED shimVars
  PROVE  ShimTyped'
  BY DEF IInv, TypeOK, ShimTyped, shimVars

-----------------------------------------------------------------------------
(* tryRemote up to the event loop, its cleanup, and the signals. *)
LEMMA ShimStep ==
  ASSUME IInv, \/ Register \/ PickWorker \/ PostJob \/ Posted \/ OpenFails \/ CancelRemoteJob
               \/ DeleteSession \/ CleanedUp \/ TakeIdle \/ TakeSigterm \/ LivenessFires
               \/ Sigterm \/ Sigkill
  PROVE  IInv'
  <1> USE DEF shimVars, masterVars, healthVars, jobVars, linkVars, finish, cleanup, goOn, hangUp
  <1>1. /\ UNCHANGED <<job, code, wire, inbox, known>>
        /\ then' \notin Codes \/ then' = then
        /\ outcome' \notin Codes \/ outcome' = outcome \/ outcome' = then
        /\ ThenInv'
    <2>1. CASE Register \/ PickWorker \/ PostJob \/ Posted \/ OpenFails
      BY <2>1 DEF Register, PickWorker, PostJob, Posted, OpenFails, IInv, ThenInv, Codes
    <2>2. CASE CancelRemoteJob \/ DeleteSession \/ CleanedUp
      BY <2>2 DEF CancelRemoteJob, DeleteSession, CleanedUp, IInv, ThenInv, Codes
    <2>3. CASE TakeIdle \/ TakeSigterm \/ LivenessFires \/ Sigterm \/ Sigkill
      BY <2>3 DEF TakeIdle, TakeSigterm, LivenessFires, Sigterm, Sigkill, lost, IInv, ThenInv, Codes
    <2> QED
      BY <2>1, <2>2, <2>3
  <1>2. ToldInv'
    <2>1. Told \subseteq Told' /\ Told' = Told
      BY <1>1 DEF Told
    <2>2. CASE outcome' \notin Codes \/ outcome' = outcome
      BY <1>1, <2>1, <2>2, ToldFrame
    <2>3. CASE outcome' = then
      BY <1>1, <2>1, <2>3 DEF IInv, ToldInv
    <2> QED
      BY <1>1, <2>2, <2>3
  <1>3. KnownInv'
    BY <1>1 DEF IInv, KnownInv
  <1>4. TypeOK'
    <2> USE DEF IInv, TypeOK, Outcomes, Codes
    <2>0. <<>> \in Seq({"cancel", "delete"}) /\ <<"delete">> \in Seq({"cancel", "delete"})
      OBVIOUS
    <2>1. CASE Register
      <3>1. CASE goOn("workers")
        BY <2>1, <3>1 DEF Register
      <3>2. CASE finish("local")
        BY <2>0, <2>1, <3>2 DEF Register
      <3> QED
        BY <2>1, <3>1, <3>2 DEF Register
    <2>2. CASE PickWorker
      <3>1. CASE goOn("dispatch")
        BY <2>2, <3>1 DEF PickWorker
      <3>2. CASE cleanup(<<"delete">>, "local")
        BY <2>0, <2>2, <3>2 DEF PickWorker
      <3> QED
        BY <2>2, <3>1, <3>2 DEF PickWorker
    <2>3. CASE PostJob
      BY <2>3 DEF PostJob
    <2>11. CASE Posted
      <3>1. CASE goOn("open")
        BY <2>11, <3>1 DEF Posted
      <3>2. CASE cleanup(<<"delete">>, "local")
        BY <2>0, <2>11, <3>2 DEF Posted
      <3> QED
        BY <2>11, <3>1, <3>2 DEF Posted
    <2>4. CASE OpenFails
      BY <2>4 DEF OpenFails
    <2>5. CASE CancelRemoteJob
      BY <2>5 DEF CancelRemoteJob, requestCancel, Cancels
    <2>6. CASE DeleteSession
      BY <2>6 DEF DeleteSession
    <2>7. CASE CleanedUp
      <3>1. then \in Outcomes /\ "none" \notin Outcomes
        BY <2>7 DEF CleanedUp, ThenInv
      <3> QED
        BY <2>0, <2>7, <3>1 DEF CleanedUp
    <2>8. CASE TakeIdle
      <3>1. CASE finish("75")
        BY <2>0, <2>8, <3>1 DEF TakeIdle
      <3>2. CASE cleanup(<<"cancel", "delete">>, "local")
        BY <2>8, <3>2 DEF TakeIdle
      <3> QED
        BY <2>8, <3>1, <3>2 DEF TakeIdle, lost
    <2>12. CASE TakeSigterm
      <3>1. <<"cancel">> \in Seq({"cancel", "delete"})
        OBVIOUS
      <3> QED
        BY <2>12, <3>1 DEF TakeSigterm
    <2>9. CASE LivenessFires
      BY <2>9 DEF LivenessFires
    <2>10. CASE Sigterm \/ Sigkill
      <3>1. CASE finish("killed") /\ UNCHANGED <<masterVars, jobVars>>
        BY <2>0, <3>1
      <3>2. CASE /\ sigterm' = TRUE /\ shim # "over"
                 /\ UNCHANGED <<shim, todo, then, outcome, gotEvent, inbox, idle, linkVars>>
                 /\ UNCHANGED <<masterVars, jobVars>>
        BY <3>2
      <3> QED
        BY <2>10, <3>1, <3>2 DEF Sigterm, Sigkill
    <2> QED
      BY <2>1, <2>2, <2>3, <2>4, <2>5, <2>6, <2>7, <2>8, <2>9, <2>10, <2>11, <2>12
  <1> QED
    BY <1>1, <1>2, <1>3, <1>4 DEF IInv

-----------------------------------------------------------------------------
(* The stream and the event loop *)

(* openEvents: the snapshot it receives carries only codes the job had told. *)
LEMMA OpenEventsStep == ASSUME IInv, OpenEvents PROVE IInv'
  <1>1. /\ UNCHANGED <<masterVars, jobVars, inbox, then, outcome, todo, idle, gotEvent, sigterm>>
        /\ UNCHANGED <<job, code, known>> /\ shim' = "loop" /\ shim = "open"
        /\ conn' = "up" /\ attached' = (job \in Active)
        /\ wire' = IF job \in Active THEN <<"event">> ELSE <<"event", code, "eof">>
    BY DEF OpenEvents, goOn, jobVars
  <1>2. job \in Active \/ job \in Terminal
    BY DEF OpenEvents, IInv, KnownInv
  <1>3. wire' \in Seq({"event", "eof"} \union Told)
    <2>1. CASE job \in Active
      <3>1. wire' = <<"event">>
        BY <1>1, <2>1
      <3> QED
        BY <3>1
    <2>2. CASE job \notin Active
      <3>1. wire' = <<"event", code, "eof">> /\ Told = {code}
        BY <1>1, <1>2, <2>2 DEF Told
      <3> QED
        BY <3>1
    <2> QED
      BY <2>1, <2>2
  <1>4. Told' = Told
    BY <1>1 DEF Told
  <1>5. ToldInv'
    BY <1>1, <1>3, <1>4 DEF IInv, ToldInv
  <1>6. TypeOK'
    <2>1. wire' \in Seq({"event", "0", "1", "eof"})
      <3>1. {"event", "eof"} \union Told \subseteq {"event", "0", "1", "eof"}
        BY DEF IInv, TypeOK, Codes, Told
      <3> QED
        BY <1>3, <3>1, SeqMonotonic
    <2>2. attached' \in BOOLEAN
      BY <1>1
    <2>3. ShimTyped'
      BY <1>1 DEF IInv, TypeOK, ShimTyped
    <2>4. FarTyped'
      BY <1>1, <2>1, <2>2 DEF IInv, TypeOK, FarTyped, masterVars, healthVars, jobVars
    <2> QED
      BY <2>3, <2>4 DEF TypeOK, ShimTyped, FarTyped
  <1> QED
    BY <1>1, <1>5, <1>6 DEF IInv, KnownInv, ThenInv

(* The reader passes on what it read, or an error. *)
LEMMA ReadStep == ASSUME IInv, ReadEvent \/ ReadTooLong PROVE IInv'
  <1>1. /\ UNCHANGED <<shim, todo, then, outcome, gotEvent, sigterm, idle, masterVars, jobVars,
                       attached, job, code, known>>
        /\ wire # <<>> /\ Len(inbox) < InboxCap /\ wire' = Tail(wire)
        /\ conn' \in {"closed", "up"}
    BY DEF ReadEvent, ReadTooLong, jobVars
  <1>2. PICK res : /\ inbox' = Append(inbox, res)
                   /\ res = "error" \/ (res = Head(wire) /\ res # "eof")
    BY DEF ReadEvent, ReadTooLong
  <1>3. /\ Tail(wire) \in Seq({"event", "eof"} \union Told)
        /\ Head(wire) \in {"event", "eof"} \union Told
    BY <1>1, HeadTailProperties DEF IInv, ToldInv
  <1>4. inbox' \in Seq({"event", "error"} \union Told)
    BY <1>2, <1>3 DEF IInv, ToldInv
  <1>5. Told' = Told /\ Told \subseteq Codes
    BY <1>1 DEF Told, IInv, TypeOK
  <1>6. ToldInv'
    BY <1>1, <1>3, <1>4, <1>5 DEF IInv, ToldInv
  <1>7. TypeOK'
    <2>1. inbox' \in Seq({"event", "0", "1", "error"}) /\ wire' \in Seq({"event", "0", "1", "eof"})
      BY <1>1, <1>3, <1>4, <1>5, SeqMonotonic DEF Codes
    <2>2. Len(inbox') <= InboxCap
      BY <1>1, <1>2, CapsAssumption DEF IInv, TypeOK
    <2> QED
      BY <1>1, <2>1, <2>2 DEF IInv, TypeOK, masterVars, healthVars, jobVars
  <1> QED
    BY <1>1, <1>6, <1>7 DEF IInv, KnownInv, ThenInv

(* The loop takes an event; an exit event ends it. *)
LEMMA TakeStep == ASSUME IInv, TakeEvent PROVE IInv'
  <1> USE DEF masterVars, healthVars, jobVars, linkVars
  <1>1. /\ UNCHANGED <<masterVars, jobVars, wire, attached, job, code, known>>
        /\ shim = "loop" /\ inbox # <<>>
    BY DEF TakeEvent, lost, finish, cleanup
  <1>2. /\ Head(inbox) \in {"event", "error"} \union Told
        /\ Tail(inbox) \in Seq({"event", "error"} \union Told) /\ Len(Tail(inbox)) = Len(inbox) - 1
        /\ Len(inbox) \in Nat
    BY <1>1, HeadTailProperties, LenProperties DEF IInv, ToldInv
  <1>3. Told' = Told /\ Told \subseteq Codes
    BY <1>1 DEF Told, IInv, TypeOK
  <1>t. outcome = "none" /\ shim # "over"
    BY <1>1 DEF IInv, TypeOK
  <1>4. CASE Head(inbox) = "error" /\ finish("75")
    <2>1. ToldInv'
      BY <1>1, <1>3, <1>4 DEF finish, IInv, ToldInv, Codes
    <2>2. TypeOK'
      BY <1>1, <1>4 DEF finish, hangUp, IInv, TypeOK, Outcomes, Codes
    <2> QED
      BY <1>1, <1>4, <2>1, <2>2 DEF finish, IInv, KnownInv, ThenInv
  <1>5. CASE Head(inbox) = "error" /\ cleanup(<<"cancel", "delete">>, "local")
    <2>1. ToldInv'
      BY <1>1, <1>3, <1>5 DEF cleanup, IInv, ToldInv, Codes
    <2>2. TypeOK'
      BY <1>1, <1>5 DEF cleanup, IInv, TypeOK, Outcomes, Codes
    <2> QED
      BY <1>1, <1>5, <2>1, <2>2 DEF cleanup, IInv, KnownInv, ThenInv
  <1>6. CASE /\ gotEvent' = TRUE /\ inbox' = Tail(inbox)
             /\ UNCHANGED <<shim, todo, then, outcome, sigterm, idle, linkVars>>
    <2>1. ToldInv'
      BY <1>1, <1>2, <1>3, <1>6 DEF IInv, ToldInv
    <2>2. TypeOK'
      <3>1. inbox' \in Seq({"event", "0", "1", "error"})
        BY <1>2, <1>3, <1>6, SeqMonotonic DEF Codes
      <3>2. Len(inbox') <= InboxCap
        BY <1>2, <1>6, CapsAssumption DEF IInv, TypeOK
      <3> QED
        BY <1>1, <1>6, <3>1, <3>2 DEF IInv, TypeOK
    <2> QED
      BY <1>1, <1>6, <2>1, <2>2 DEF IInv, KnownInv, ThenInv
  <1>7. CASE /\ Head(inbox) \in Codes
             /\ gotEvent' = TRUE
             /\ shim' = "cleanup" /\ todo' = <<"delete">> /\ then' = Head(inbox)
             /\ UNCHANGED <<outcome, sigterm, inbox, idle, linkVars>>
    <2>1. then' \in Told /\ then' \in Codes
      BY <1>2, <1>7 DEF Codes
    <2>2. ToldInv'
      BY <1>1, <1>3, <1>7, <2>1 DEF IInv, ToldInv
    <2>3. TypeOK'
      BY <1>1, <1>t, <1>7, <2>1 DEF IInv, TypeOK, Outcomes
    <2>4. ThenInv'
      BY <2>1 DEF ThenInv, Codes
    <2> QED
      BY <1>1, <2>2, <2>3, <2>4 DEF IInv, KnownInv
  <1> QED
    BY <1>4, <1>5, <1>6, <1>7 DEF TakeEvent, lost

-----------------------------------------------------------------------------
(* masterd and the worker *)

(* Steps that leave the shim and the stream's contents alone and do not touch a
   job that is over. *)
LEMMA FarFrame ==
  ASSUME IInv, UNCHANGED <<shimVars, wire>>, UNCHANGED <<job, code>> \/ job \notin Terminal
  PROVE  ToldInv' /\ ThenInv'
  <1>1. UNCHANGED <<shim, then, outcome, inbox>>
    BY DEF shimVars
  <1>2. ToldInv'
    BY <1>1, ToldGrows, ToldFrame
  <1> QED
    BY <1>1, <1>2 DEF IInv, ThenInv

(* A step that changes flags only keeps the types beyond the shim. *)
LEMMA FarKept ==
  ASSUME FarTyped, UNCHANGED <<session, post, job, code, cancelState, conn, wire>>,
         segment' \in BOOLEAN, offered' \in BOOLEAN, up' \in BOOLEAN, known' \in BOOLEAN,
         known' => up', failing' \in BOOLEAN, attached' \in BOOLEAN
  PROVE  FarTyped'
  <1>1. /\ session' = session /\ post' = post /\ job' = job /\ code' = code
        /\ cancelState' = cancelState /\ conn' = conn /\ wire' = wire
    OBVIOUS
  <1> QED
    BY <1>1, Zenon DEF FarTyped

(* Steps of the master, the worker and the network that keep what was told. *)
LEMMA MasterStep ==
  ASSUME IInv, DrainOver \/ Expire \/ ProbeWorker \/ ConnectionSilent \/ WorkerRestart \/ Detach
               \/ LifelineLost \/ HandlePost \/ JobStarts \/ Push
               \/ \E c \in Codes : TranscoderExits(c)
  PROVE  IInv'
  <1> USE DEF masterVars, healthVars, jobVars, linkVars
  <1>1. /\ UNCHANGED <<shimVars, wire>> /\ (UNCHANGED <<job, code>> \/ job \notin Terminal)
        /\ KnownInv'
    <2>1. CASE DrainOver \/ Expire \/ ProbeWorker \/ ConnectionSilent \/ WorkerRestart \/ Detach
      BY <2>1 DEF DrainOver, Expire, ProbeWorker, ConnectionSilent, WorkerRestart, Detach, IInv, KnownInv
    <2>2. CASE LifelineLost \/ HandlePost \/ JobStarts \/ Push
      BY <2>2 DEF LifelineLost, HandlePost, JobStarts, Push, IInv, KnownInv, Active, Terminal, Cancels
    <2>3. CASE \E c \in Codes : TranscoderExits(c)
      BY <2>3 DEF TranscoderExits, IInv, KnownInv, Active, Terminal, Cancels
    <2> QED
      BY <2>1, <2>2, <2>3
  <1>2. TypeOK'
    <2> SUFFICES FarTyped'
      BY <1>1, ShimFrame DEF TypeOK, ShimTyped, FarTyped
    <2>t. FarTyped
      BY TypeParts DEF IInv
    <2> USE DEF FarTyped
    <2>1. CASE DrainOver \/ Expire \/ ConnectionSilent
      BY <2>t, <2>1 DEF DrainOver, Expire, ConnectionSilent
    <2>2. CASE ProbeWorker
      <3>1. offered' \in BOOLEAN
        BY <2>2 DEF ProbeWorker, probeWorker
      <3> QED
        BY <2>t, <2>2, <3>1 DEF ProbeWorker
    <2>3. CASE WorkerRestart
      <3>1. up' \in BOOLEAN /\ (known' => up')
        BY <2>3 DEF WorkerRestart
      <3> QED
        BY <2>t, <2>3, <3>1, FarKept DEF WorkerRestart
    <2>9. CASE Detach
      <3>1. attached' \in BOOLEAN
        BY <2>9 DEF Detach
      <3> QED
        BY <2>t, <2>9, <3>1, FarKept DEF Detach
    <2>4. CASE LifelineLost
      BY <2>t, <2>4 DEF LifelineLost, requestCancel, Cancels
    <2>5. CASE HandlePost
      BY <2>t, <2>5 DEF HandlePost, Active
    <2>6. CASE JobStarts
      BY <2>t, <2>6 DEF JobStarts, Active
    <2>7. CASE Push
      <3>1. segment' \in BOOLEAN /\ failing' \in BOOLEAN
        BY <2>t, <2>7, Zenon DEF Push
      <3> QED
        BY <2>t, <2>7, <3>1, FarKept DEF Push
    <2>8. CASE \E c \in Codes : TranscoderExits(c)
      BY <2>t, <2>8 DEF TranscoderExits, Active
    <2> QED
      BY <2>1, <2>2, <2>3, <2>4, <2>5, <2>6, <2>7, <2>8, <2>9
  <1> QED
    BY <1>1, <1>2, FarFrame DEF IInv

(* finalize tells the code of a job that has just ended. *)
LEMMA FinalStep ==
  ASSUME IInv, NEW s \in Terminal, NEW c \in Codes, finalize(s, c),
         UNCHANGED <<shimVars, masterVars>>, job \in Active
  PROVE  IInv'
  <1>1. /\ job' = s /\ code' = c /\ attached' = FALSE
        /\ wire' = IF attached THEN wire \o <<c, "eof">> ELSE wire
        /\ UNCHANGED <<post, known, cancelState, failing, conn>>
        /\ UNCHANGED <<shim, todo, then, outcome, gotEvent, sigterm, inbox, idle>>
        /\ UNCHANGED <<session, segment, offered, up>>
    BY DEF finalize, shimVars, masterVars, healthVars
  <1>2. Told = {} /\ Told' = {c}
    BY <1>1 DEF Told, Active, Terminal, Cancels
  <1>3. wire \in Seq({"event", "eof"} \union {c}) /\ <<c, "eof">> \in Seq({"event", "eof"} \union {c})
    BY <1>2, SeqMonotonic DEF IInv, ToldInv
  <1>4. wire' \in Seq({"event", "eof"} \union {c})
    BY <1>1, <1>3, ConcatProperties
  <1>5. inbox \in Seq({"event", "error"} \union {c})
    BY <1>2, SeqMonotonic DEF IInv, ToldInv
  <1>6. ToldInv'
    BY <1>1, <1>2, <1>4, <1>5 DEF IInv, ToldInv
  <1>7. TypeOK'
    <2>1. wire' \in Seq({"event", "0", "1", "eof"})
      BY <1>4, SeqMonotonic DEF Codes
    <2>2. ShimTyped'
      BY ShimFrame
    <2>3. attached' \in BOOLEAN /\ (known' => up')
      BY <1>1 DEF IInv, TypeOK
    <2>4. FarTyped'
      BY <1>1, <2>1, <2>3 DEF IInv, TypeOK, FarTyped
    <2> QED
      BY <2>2, <2>4 DEF TypeOK, ShimTyped, FarTyped
  <1> QED
    BY <1>1, <1>6, <1>7 DEF IInv, KnownInv, ThenInv

(* The end of the job puts its exit code on the wire and among those told at
   once (finalize publishes the exit event under the hub's lock). *)
LEMMA EndStep == ASSUME IInv, JobFailsEarly \/ JobEnds PROVE IInv'
  <1>1. cancelState \in Cancels \union {"no"} /\ code \in Codes
    BY DEF IInv, TypeOK
  <1>2. CASE JobFailsEarly
    <2>1. PICK s \in Terminal : finalize(s, "1")
      BY <1>1, <1>2 DEF JobFailsEarly, Terminal
    <2> QED
      BY <1>2, <2>1, FinalStep DEF JobFailsEarly, Active, Codes
  <1>3. CASE JobEnds
    <2>1. PICK s \in Terminal : finalize(s, code)
      BY <1>1, <1>3 DEF JobEnds, Terminal
    <2> QED
      BY <1>1, <1>3, <2>1, FinalStep DEF JobEnds, Active
  <1> QED
    BY <1>2, <1>3

(* The hub and the crash add no code to the stream. *)
LEMMA StreamStep == ASSUME IInv, Publish \/ DropSlow \/ WorkerCrash PROVE IInv'
  <1> USE DEF masterVars, healthVars, jobVars
  <1>1. /\ UNCHANGED <<shimVars, session, segment, offered, post, code, cancelState, failing, conn>>
        /\ wire' = wire \/ \E e \in {"event", "eof"} : wire' = Append(wire, e)
        /\ attached' \in BOOLEAN
        /\ \/ UNCHANGED <<job, up, known>>
           \/ /\ up' = FALSE /\ known' = FALSE
              /\ job' = IF job \in Active THEN "crashed" ELSE job
    BY DEF Publish, DropSlow, WorkerCrash, IInv, TypeOK
  <1>2. Told' = Told /\ Told \subseteq Codes
    BY <1>1 DEF Told, Active, Terminal, Cancels, IInv, TypeOK
  <1>3. wire' \in Seq({"event", "eof"} \union Told)
    BY <1>1 DEF IInv, ToldInv
  <1>4. ToldInv'
    BY <1>1, <1>2, <1>3 DEF IInv, ToldInv, shimVars
  <1>5. TypeOK'
    <2>1. wire' \in Seq({"event", "0", "1", "eof"})
      BY <1>2, <1>3, SeqMonotonic DEF Codes
    <2>2. ShimTyped'
      BY <1>1, ShimFrame
    <2>3. /\ up' \in BOOLEAN /\ known' \in BOOLEAN /\ (known' => up')
          /\ job' \in {"none", "crashed"} \union Active \union Terminal
      <3>1. /\ up \in BOOLEAN /\ known \in BOOLEAN /\ (known => up)
            /\ job \in {"none", "crashed"} \union Active \union Terminal
        BY DEF IInv, TypeOK
      <3>2. CASE UNCHANGED <<job, up, known>>
        BY <3>1, <3>2
      <3>3. CASE /\ up' = FALSE /\ known' = FALSE
                 /\ job' = IF job \in Active THEN "crashed" ELSE job
        BY <3>1, <3>3
      <3> QED
        BY <1>1, <3>2, <3>3
    <2>4. FarTyped'
      BY <1>1, <2>1, <2>3 DEF IInv, TypeOK, FarTyped
    <2> QED
      BY <2>2, <2>4 DEF TypeOK, ShimTyped, FarTyped
  <1> QED
    BY <1>1, <1>4, <1>5 DEF IInv, KnownInv, ThenInv, shimVars

-----------------------------------------------------------------------------
(* Every step of every process keeps the invariant. *)
LEMMA StepIInv == IInv /\ [Next]_vars => IInv'
  <1> SUFFICES ASSUME IInv, [Next]_vars PROVE IInv'
    OBVIOUS
  <1>1. CASE Next
    BY <1>1, ShimStep, OpenEventsStep, ReadStep, TakeStep, MasterStep, EndStep, StreamStep
       DEF Next, Shim, Worker
  <1>2. CASE UNCHANGED vars
    <2>1. UNCHANGED <<shimVars, wire, job, code, known>> /\ TypeOK'
      BY <1>2 DEF vars, shimVars, masterVars, healthVars, jobVars, linkVars, IInv, TypeOK
    <2>2. KnownInv'
      BY <2>1 DEF IInv, KnownInv
    <2> QED
      BY <2>1, <2>2, FarFrame DEF IInv
  <1> QED
    BY <1>1, <1>2

(* The invariant holds throughout: whatever is lost, late or dropped, crashes or
   is killed on the way (tryRemote, runEventLoop, finalize). *)
THEOREM DispatchInvariant == Spec => []IInv
  BY InitIInv, StepIInv, PTL DEF Spec

(* Every variable keeps its type, and the events channel its capacity; the shim
   is over exactly when it has an outcome (tryRemote returns it). *)
THEOREM DispatchTypeCorrect == Spec => []TypeOK
  <1>1. IInv => TypeOK
    BY DEF IInv
  <1> QED
    BY <1>1, DispatchInvariant, PTL

(* The shim exits with a transcoder's code only when the remote job is over and
   that is the code it ended with (runEventLoop, finalize). *)
THEOREM ExitAlwaysTruthful == Spec => []ExitTruthful
  <1>1. IInv => ExitTruthful
    BY DEF IInv, ToldInv, Told, ExitTruthful
  <1> QED
    BY <1>1, DispatchInvariant, PTL

-----------------------------------------------------------------------------
(* Nobody waits in vain: the stream of a waiting shim is fed, ends, or is
   watched. *)

(* Steps that leave the stream and the loop's channel alone: the shim does not
   begin to wait, and the job of an attached handler goes on. *)
LEMMA VainFrame ==
  ASSUME NobodyWaitsInVain, UNCHANGED <<attached, wire, inbox>>,
         shim' # "loop" \/ UNCHANGED <<shim, conn>>,
         attached => job' \in Active /\ known'
  PROVE  NobodyWaitsInVain'
  BY DEF NobodyWaitsInVain, streamEnds, readerDone

(* The shim's own steps but those of the event loop's stream. *)
LEMMA VainShim ==
  ASSUME NobodyWaitsInVain,
         \/ Register \/ PickWorker \/ PostJob \/ Posted \/ OpenFails \/ CancelRemoteJob
         \/ DeleteSession \/ CleanedUp \/ TakeIdle \/ TakeSigterm \/ LivenessFires
         \/ Sigterm \/ Sigkill
  PROVE  NobodyWaitsInVain'
  <1> USE DEF masterVars, healthVars, jobVars, linkVars, finish, cleanup, goOn
  <1>1. /\ UNCHANGED <<attached, wire, inbox, job, known>>
        /\ shim' # "loop" \/ UNCHANGED <<shim, conn>>
    <2>1. CASE Register \/ PickWorker \/ PostJob \/ Posted \/ OpenFails
      BY <2>1 DEF Register, PickWorker, PostJob, Posted, OpenFails
    <2>2. CASE CancelRemoteJob \/ DeleteSession \/ CleanedUp
      BY <2>2 DEF CancelRemoteJob, DeleteSession, CleanedUp
    <2>3. CASE TakeIdle \/ TakeSigterm \/ LivenessFires \/ Sigterm \/ Sigkill
      BY <2>3 DEF TakeIdle, TakeSigterm, LivenessFires, Sigterm, Sigkill, lost
    <2> QED
      BY <2>1, <2>2, <2>3
  <1>2. attached => job' \in Active /\ known'
    BY <1>1 DEF NobodyWaitsInVain
  <1> QED
    BY <1>1, <1>2, VainFrame

(* A stream that is opened on a job that is over has its end on the way. *)
LEMMA VainOpen == ASSUME IInv, NobodyWaitsInVain, OpenEvents PROVE NobodyWaitsInVain'
  <1>1. /\ UNCHANGED <<job, known>> /\ known /\ conn' = "up" /\ attached' = (job \in Active)
        /\ wire' = IF job \in Active THEN <<"event">> ELSE <<"event", code, "eof">>
    BY DEF OpenEvents, jobVars
  <1>2. CASE job \in Active
    BY <1>1, <1>2 DEF NobodyWaitsInVain
  <1>3. CASE job \notin Active
    <2>0. ~attached'
      BY <1>1, <1>3
    <2>1. wire' = <<"event", code, "eof">>
      BY <1>1, <1>3
    <2>2. wire'[Len(wire')] = "eof" /\ wire' # <<>>
      BY <2>1
    <2> QED
      BY <1>1, <2>0, <2>1, <2>2 DEF NobodyWaitsInVain, streamEnds
  <1> QED
    BY <1>2, <1>3

(* The reader keeps the end of the stream where it is, until it has read it. *)
LEMMA VainRead == ASSUME IInv, NobodyWaitsInVain, ReadEvent \/ ReadTooLong PROVE NobodyWaitsInVain'
  <1>1. /\ UNCHANGED <<shim, attached, job, known>> /\ shim = "loop" /\ conn = "up" /\ ~readerDone
        /\ wire # <<>> /\ wire' = Tail(wire)
        /\ wire \in Seq({"event", "0", "1", "eof"}) /\ inbox \in Seq({"event", "0", "1", "error"})
    BY DEF ReadEvent, ReadTooLong, jobVars, IInv, TypeOK
  <1>2. PICK res : inbox' = Append(inbox, res) /\ (res = "error" \/ res = Head(wire))
    BY DEF ReadEvent, ReadTooLong
  <1>3. res = "error" => readerDone'
    <2> SUFFICES ASSUME res = "error" PROVE inbox' # <<>> /\ inbox'[Len(inbox')] = "error"
      BY DEF readerDone
    <2> QED
      BY <1>1, <1>2
  <1>4. CASE res = "error"
    BY <1>1, <1>2, <1>3, <1>4 DEF NobodyWaitsInVain, ReadEvent, ReadTooLong
  <1>5. CASE res # "error"
    <2>1. Head(wire) # "eof" /\ conn' = "up"
      BY <1>2, <1>5, <1>1 DEF ReadEvent, ReadTooLong
    <2>2. streamEnds => streamEnds'
      <3> SUFFICES ASSUME wire[Len(wire)] = "eof" PROVE wire' # <<>> /\ wire'[Len(wire')] = "eof"
        BY DEF streamEnds
      <3>1. wire[1] # "eof" /\ Len(wire) \in Nat /\ Len(wire) # 0
        BY <1>1, <2>1
      <3>2. Len(wire) > 1
        BY <3>1
      <3>3. Len(wire') = Len(wire) - 1 /\ wire'[Len(wire')] = wire[Len(wire)]
        BY <1>1, <3>2
      <3>4. Len(wire') # 0
        BY <3>1, <3>2, <3>3
      <3> QED
        BY <3>3, <3>4
    <2> QED
      BY <1>1, <2>1, <2>2 DEF NobodyWaitsInVain
  <1> QED
    BY <1>4, <1>5

(* An event that the loop takes and goes on is not the error it waits for. *)
LEMMA VainTake == ASSUME IInv, NobodyWaitsInVain, TakeEvent PROVE NobodyWaitsInVain'
  <1> USE DEF masterVars, healthVars, jobVars, linkVars
  <1>1. /\ UNCHANGED <<attached, wire, job, known>> /\ shim = "loop" /\ inbox # <<>>
        /\ inbox \in Seq({"event", "0", "1", "error"})
    BY DEF TakeEvent, lost, finish, cleanup, IInv, TypeOK
  <1>2. CASE shim' # "loop"
    BY <1>1, <1>2 DEF NobodyWaitsInVain
  <1>3. CASE /\ Head(inbox) = "event" /\ inbox' = Tail(inbox)
             /\ UNCHANGED <<shim, linkVars>>
    <2>1. readerDone => readerDone'
      <3> SUFFICES ASSUME inbox[Len(inbox)] = "error" PROVE inbox' # <<>> /\ inbox'[Len(inbox')] = "error"
        BY DEF readerDone
      <3>1. inbox[1] = "event" /\ Len(inbox) \in Nat /\ Len(inbox) # 0
        BY <1>1, <1>3
      <3>2. Len(inbox) > 1
        BY <3>1
      <3>3. Len(inbox') = Len(inbox) - 1 /\ inbox'[Len(inbox')] = inbox[Len(inbox)]
        BY <1>1, <1>3, <3>2
      <3> QED
        BY <1>1, <3>2, <3>3
    <2>2. UNCHANGED <<shim, conn, attached, wire, job, known>>
      BY <1>1, <1>3
    <2> QED
      BY <2>1, <2>2 DEF NobodyWaitsInVain, streamEnds
  <1> QED
    BY <1>2, <1>3 DEF TakeEvent, lost, finish, cleanup

(* masterd and a job that goes on. *)
LEMMA VainMaster ==
  ASSUME IInv, NobodyWaitsInVain,
         \/ DrainOver \/ Expire \/ ProbeWorker \/ WorkerRestart \/ LifelineLost
         \/ HandlePost \/ JobStarts \/ Push \/ \E c \in Codes : TranscoderExits(c)
  PROVE  NobodyWaitsInVain'
  <1> USE DEF masterVars, healthVars, jobVars, linkVars, shimVars
  <1>1. UNCHANGED <<attached, wire, inbox, shim, conn>>
    BY DEF DrainOver, Expire, ProbeWorker, WorkerRestart, LifelineLost, HandlePost, JobStarts,
           Push, TranscoderExits
  <1>2. job \in Active /\ known => job' \in Active /\ known'
    BY DEF DrainOver, Expire, ProbeWorker, WorkerRestart, LifelineLost, HandlePost, JobStarts,
           Push, TranscoderExits, Active
  <1> QED
    BY <1>1, <1>2, VainFrame DEF NobodyWaitsInVain

(* Whoever takes the handler away from a stream closes its channel: the hub,
   finalize and the crash put the stream's end on the wire. *)
LEMMA VainEof ==
  ASSUME IInv, NobodyWaitsInVain, UNCHANGED <<shim, conn, inbox>>,
         NEW told \in Seq({"event", "0", "1", "eof"}),
         attached' = FALSE, wire' = IF attached THEN told ELSE wire,
         told # <<>>, told[Len(told)] = "eof"
  PROVE  NobodyWaitsInVain'
  BY DEF NobodyWaitsInVain, streamEnds, readerDone

LEMMA VainStream ==
  ASSUME IInv, NobodyWaitsInVain,
         \/ Publish \/ DropSlow \/ WorkerCrash \/ JobFailsEarly \/ JobEnds
         \/ Detach \/ ConnectionSilent
  PROVE  NobodyWaitsInVain'
  <1> USE DEF masterVars, healthVars, jobVars, linkVars, shimVars
  <1>w. wire \in Seq({"event", "0", "1", "eof"}) /\ attached \in BOOLEAN /\ code \in Codes
    BY DEF IInv, TypeOK
  <1>1. CASE Publish
    BY <1>1 DEF Publish, NobodyWaitsInVain, readerDone
  <1>2. CASE DropSlow \/ WorkerCrash
    <2>1. /\ UNCHANGED <<shim, conn, inbox>> /\ attached' = FALSE
          /\ wire' = IF attached THEN Append(wire, "eof") ELSE wire
      BY <1>2 DEF DropSlow, WorkerCrash
    <2>2. /\ Append(wire, "eof") \in Seq({"event", "0", "1", "eof"})
          /\ Append(wire, "eof") # <<>>
          /\ Append(wire, "eof")[Len(Append(wire, "eof"))] = "eof"
      BY <1>w
    <2> QED
      BY <2>1, <2>2, VainEof
  <1>3. CASE JobFailsEarly \/ JobEnds
    <2>1. PICK c \in Codes : /\ UNCHANGED <<shim, conn, inbox>> /\ attached' = FALSE
                             /\ wire' = IF attached THEN wire \o <<c, "eof">> ELSE wire
      BY <1>3, <1>w DEF JobFailsEarly, JobEnds, finalize, Codes
    <2>2. /\ wire \o <<c, "eof">> \in Seq({"event", "0", "1", "eof"})
          /\ wire \o <<c, "eof">> # <<>>
          /\ (wire \o <<c, "eof">>)[Len(wire \o <<c, "eof">>)] = "eof"
      BY <1>w DEF Codes
    <2> QED
      BY <2>1, <2>2, VainEof
  <1>4. CASE Detach
    BY <1>4 DEF Detach, NobodyWaitsInVain, readerDone
  <1>5. CASE ConnectionSilent
    BY <1>5 DEF ConnectionSilent, NobodyWaitsInVain
  <1> QED
    BY <1>1, <1>2, <1>3, <1>4, <1>5

(* The event loop never waits for an event that cannot come, whoever crashes, is
   dropped as too slow or ends its job meanwhile (runEventLoop, openEvents; the
   hub's drop, finalize). *)
THEOREM NobodyEverWaitsInVain == Spec => []NobodyWaitsInVain
  <1>1. Init => NobodyWaitsInVain
    BY DEF Init, NobodyWaitsInVain
  <1>2. ASSUME IInv, NobodyWaitsInVain, [Next]_vars PROVE NobodyWaitsInVain'
    <2>1. CASE Next
      BY <1>2, <2>1, VainShim, VainOpen, VainRead, VainTake, VainMaster, VainStream
         DEF Next, Shim, Worker
    <2>2. CASE UNCHANGED vars
      <3>1. UNCHANGED <<shim, conn, attached, wire, inbox, job, known>>
        BY <2>2 DEF vars, shimVars, masterVars, healthVars, jobVars, linkVars
      <3> QED
        BY <1>2, <3>1, VainFrame DEF NobodyWaitsInVain
    <2> QED
      BY <1>2, <2>1, <2>2
  <1> QED
    BY <1>1, <1>2, DispatchInvariant, PTL DEF Spec

-----------------------------------------------------------------------------
(* Who owns the transcode. *)

(* Before the first event the shim may only run the transcode itself; from then
   on it belongs to the worker, and failures become exit codes.  A signal ends
   it at any time. *)
FirstEventDecides ==
  \A how \in {then, outcome} :
    /\ how \in Codes \union {"75"} => gotEvent
    /\ how = "local" => ~gotEvent

(* The shim knows how it will exit only in its cleanups, and nothing arrives
   before the event loop. *)
OwnerInv ==
  /\ FirstEventDecides
  /\ shim # "cleanup" => then = "none"
  /\ shim \in {"register", "workers", "dispatch", "posted", "open"} => ~gotEvent

(* What a step may do to the end of the shim: nothing, because the shim does not
   move, goes on or hears an event; decide to clean up first; end at once. *)
LEMMA OwnerStays == ASSUME OwnerInv, UNCHANGED <<shim, then, outcome, gotEvent>> PROVE OwnerInv'
  BY DEF OwnerInv, FirstEventDecides

LEMMA OwnerMoves ==
  ASSUME OwnerInv, shim # "cleanup", ~gotEvent, UNCHANGED <<then, outcome, gotEvent>>
  PROVE  OwnerInv'
  BY DEF OwnerInv, FirstEventDecides

LEMMA OwnerHears ==
  ASSUME OwnerInv, shim = "loop", outcome = "none", gotEvent', UNCHANGED <<shim, then, outcome>>
  PROVE  OwnerInv'
  BY DEF OwnerInv, FirstEventDecides, Codes

LEMMA OwnerCleansUp ==
  ASSUME OwnerInv, NEW calls, NEW how, outcome = "none",
         shim' = "cleanup", then' = how, outcome' = outcome,
         how \in Codes \union {"75"} => gotEvent', how = "local" => ~gotEvent'
  PROVE  OwnerInv'
  BY DEF OwnerInv, FirstEventDecides, Codes

LEMMA OwnerEnds ==
  ASSUME OwnerInv, NEW how, finish(how),
         how \in Codes \union {"75"} => gotEvent, how = "local" => ~gotEvent
  PROVE  OwnerInv'
  BY DEF OwnerInv, FirstEventDecides, finish, Codes

(* The stages before the event loop, and the cleanups. *)
LEMMA OwnerStages ==
  ASSUME IInv, OwnerInv,
         \/ Register \/ PickWorker \/ PostJob \/ Posted \/ OpenEvents \/ OpenFails
         \/ CancelRemoteJob \/ DeleteSession \/ CleanedUp
  PROVE  OwnerInv'
  <1>1. CASE CancelRemoteJob \/ DeleteSession
    BY <1>1, OwnerStays DEF CancelRemoteJob, DeleteSession
  <1>2. CASE CleanedUp
    BY <1>2, OwnerEnds DEF CleanedUp, OwnerInv, FirstEventDecides
  <1>3. CASE Register \/ PickWorker \/ PostJob \/ Posted \/ OpenEvents \/ OpenFails
    <2>1. ~gotEvent /\ shim # "cleanup" /\ outcome = "none"
      BY <1>3 DEF Register, PickWorker, PostJob, Posted, OpenEvents, OpenFails, OwnerInv, IInv,
                  TypeOK
    <2>2. \/ \E pc \in {"workers", "dispatch", "posted", "open", "loop"} : goOn(pc)
          \/ \E calls \in {<<"delete">>, <<"cancel", "delete">>} : cleanup(calls, "local")
          \/ finish("local")
      BY <1>3 DEF Register, PickWorker, PostJob, Posted, OpenEvents, OpenFails
    <2>3. CASE \E pc \in {"workers", "dispatch", "posted", "open", "loop"} : goOn(pc)
      BY <2>1, <2>3, OwnerMoves DEF goOn
    <2>4. CASE \E calls \in {<<"delete">>, <<"cancel", "delete">>} : cleanup(calls, "local")
      BY <2>1, <2>4, OwnerCleansUp DEF cleanup, Codes
    <2>5. CASE finish("local")
      BY <2>1, <2>5, OwnerEnds DEF Codes
    <2> QED
      BY <2>2, <2>3, <2>4, <2>5
  <1> QED
    BY <1>1, <1>2, <1>3

(* The event loop: select takes an event, the liveness watch or a signal. *)
LEMMA OwnerLoop ==
  ASSUME IInv, OwnerInv, TakeEvent \/ TakeIdle \/ TakeSigterm
  PROVE  OwnerInv'
  <1>1. shim = "loop" /\ outcome = "none" /\ then = "none"
    BY DEF TakeEvent, TakeIdle, TakeSigterm, OwnerInv, IInv, TypeOK
  <1>2. CASE lost
    <2>1. CASE gotEvent
      BY <1>2, <2>1, OwnerEnds DEF lost
    <2>2. CASE ~gotEvent
      BY <1>1, <1>2, <2>2, OwnerCleansUp DEF lost, cleanup, Codes
    <2> QED
      BY <2>1, <2>2
  <1>3. CASE cleanup(<<"cancel">>, "143")
    BY <1>1, <1>3, OwnerCleansUp DEF cleanup, Codes
  <1>4. CASE gotEvent' = TRUE /\ UNCHANGED <<shim, then, outcome>>
    BY <1>1, <1>4, OwnerHears
  <1>5. CASE \E res \in Codes : /\ gotEvent' = TRUE /\ shim' = "cleanup"
                                /\ then' = res /\ outcome' = outcome
    BY <1>1, <1>5, OwnerCleansUp DEF Codes
  <1> QED
    BY <1>2, <1>3, <1>4, <1>5 DEF TakeEvent, TakeIdle, TakeSigterm

(* After the first event a transcode is never run locally as well, and before it
   no failure of the remote side becomes an exit code: whatever is lost, late or
   silent, and whichever of its channels the select of the loop picks (tryRemote,
   runEventLoop; the comment of tryRemote says so). *)
THEOREM FirstEventAlwaysDecides == Spec => []FirstEventDecides
  <1>1. Init => OwnerInv
    BY DEF Init, OwnerInv, FirstEventDecides, Codes
  <1>2. ASSUME IInv, OwnerInv, [Next]_vars PROVE OwnerInv'
    <2>1. CASE Shim
      BY <1>2, <2>1, OwnerStages, OwnerLoop DEF Shim
    <2>2. CASE Sigterm \/ Sigkill
      <3>1. finish("killed") \/ UNCHANGED <<shim, then, outcome, gotEvent>>
        BY <2>2 DEF Sigterm, Sigkill
      <3> QED
        BY <1>2, <3>1, OwnerEnds, OwnerStays DEF Codes
    <2>3. CASE [Next]_vars /\ ~Shim /\ ~Sigterm /\ ~Sigkill
      <3>1. UNCHANGED <<shim, then, outcome, gotEvent>>
        BY <2>3 DEF Next, ReadEvent, ReadTooLong, LivenessFires, DrainOver, Expire, ProbeWorker,
           Worker, HandlePost, JobStarts, JobFailsEarly, JobEnds, DropSlow, Publish, Push,
           TranscoderExits, Detach, LifelineLost, ConnectionSilent, WorkerCrash, WorkerRestart,
           vars, shimVars
      <3> QED
        BY <1>2, <3>1, OwnerStays
    <2> QED
      BY <1>2, <2>1, <2>2, <2>3
  <1>3. OwnerInv => FirstEventDecides
    BY DEF OwnerInv
  <1> QED
    BY <1>1, <1>2, <1>3, DispatchInvariant, PTL DEF Spec
=============================================================================
