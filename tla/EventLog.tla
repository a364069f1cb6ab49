------------------------------ MODULE EventLog ------------------------------
(***************************************************************************)
(* What the events stream of a job promises to whoever follows it (the     *)
(* shim of a session): the milestones of the job form a log that only      *)
(* grows, holds no milestone twice and ends with the exit event, and each  *)
(* reader is told the log from its first entry on, one entry after the     *)
(* other, whenever it joined.  The ring of stderr lines, the snapshot a    *)
(* late subscriber gets, the bounded channels and the subscribers that are *)
(* too slow are left to EventHub, which implements this specification.     *)
(***************************************************************************)
EXTENDS Naturals, Sequences

CONSTANTS Clients,      \* those who may read the stream
          Milestones,   \* the states of the job, and its exit
          Opening, Ending  \* the first milestone of every log, and the exit

VARIABLES log,          \* the milestones so far
          told,         \* what each reader has been told of them
          conn          \* "away", "reading" or "left"

vars == <<log, told, conn>>

Init ==
  /\ log = <<Opening>>
  /\ told = [c \in Clients |-> <<>>]
  /\ conn = [c \in Clients |-> "away"]

Record(e) ==
  /\ \A i \in 1..Len(log) : log[i] \notin {e, Ending}
  /\ log' = Append(log, e)
  /\ UNCHANGED <<told, conn>>

Join(c) ==
  /\ conn[c] = "away"
  /\ conn' = [conn EXCEPT ![c] = "reading"]
  /\ UNCHANGED <<log, told>>

Tell(c) ==
  /\ conn[c] = "reading" /\ Len(told[c]) < Len(log)
  /\ told' = [told EXCEPT ![c] = Append(@, log[Len(@) + 1])]
  /\ UNCHANGED <<log, conn>>

(* Whoever leaves takes with it what it was told. *)
Leave(c) ==
  /\ conn[c] = "reading"
  /\ conn' = [conn EXCEPT ![c] = "left"]
  /\ told' = [told EXCEPT ![c] = <<>>]
  /\ UNCHANGED log

Next == \/ \E e \in Milestones : Record(e)
        \/ \E c \in Clients : Join(c) \/ Tell(c) \/ Leave(c)

Spec == Init /\ [][Next]_vars
=============================================================================
