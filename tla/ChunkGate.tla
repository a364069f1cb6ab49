----------------------------- MODULE ChunkGate -----------------------------
(***************************************************************************)
(* What the segment plane of a worker promises to Plex Media Server: an    *)
(* announce (HLS seglist, DASH manifest) reaches the server only after     *)
(* every chunk it names that the transcoder had finished by then is stored *)
(* on the master.  How the worker achieves it (the inotify watcher, the    *)
(* upload queue, the retries, the condition variable of the gate) is left  *)
(* to WorkerJob, which implements this specification.                      *)
(***************************************************************************)
CONSTANTS Chunks,      \* the segment files a job may write
          Announces    \* the announce requests a job may issue

VARIABLES produced,    \* chunks the transcoder has finished writing
          stored,      \* chunks the master holds
          phase,       \* what became of each announce
          need         \* for each announce, the finished chunks it names

vars == <<produced, stored, phase, need>>

Phases == {"none", "held", "passed", "refused"}

Init ==
  /\ produced = {}
  /\ stored = {}
  /\ phase = [a \in Announces |-> "none"]
  /\ need = [a \in Announces |-> {}]

Produce(c) ==
  /\ produced' = produced \union {c}
  /\ UNCHANGED <<stored, phase, need>>

Store(c) ==
  /\ stored' = stored \union {c}
  /\ UNCHANGED <<produced, phase, need>>

Post(a, names) ==
  /\ phase[a] = "none"
  /\ names \subseteq produced
  /\ phase' = [phase EXCEPT ![a] = "held"]
  /\ need' = [need EXCEPT ![a] = names]
  /\ UNCHANGED <<produced, stored>>

Pass(a) ==
  /\ phase[a] = "held"
  /\ need[a] \subseteq stored
  /\ phase' = [phase EXCEPT ![a] = "passed"]
  /\ UNCHANGED <<produced, stored, need>>

Refuse(a) ==
  /\ phase[a] = "held"
  /\ phase' = [phase EXCEPT ![a] = "refused"]
  /\ UNCHANGED <<produced, stored, need>>

Next ==
  \/ \E c \in Chunks : Produce(c) \/ Store(c)
  \/ \E a \in Announces : \/ \E names \in SUBSET Chunks : Post(a, names)
                          \/ Pass(a)
                          \/ Refuse(a)

Spec == Init /\ [][Next]_vars
=============================================================================
