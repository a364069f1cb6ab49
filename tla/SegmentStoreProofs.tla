------------------------- MODULE SegmentStoreProofs -------------------------
(***************************************************************************)
(* SegmentStore, proved for any finite set of session ids and any sets of  *)
(* directories and requests, any number of blocks, and any bounds on       *)
(* registrations, drain timers and restarts: what masterd answers and what *)
(* it leaves under the final and the temporary name of a chunk.            *)
(***************************************************************************)
EXTENDS SegmentStore, FiniteSetTheorems, TLAPS

-----------------------------------------------------------------------------
(* The inductive invariant. *)

Unopened == {"none", "arrived", "open"}

(* What a handler knows at each of its steps. *)
PutInv ==
  \A p \in Puts :
    /\ put[p].at # "none" => put[p].job \in Jobs /\ put[p].token <= minted[put[p].job]
    /\ put[p].at \in {"open", "touch"} \union Holding => put[p].dir \in Dirs
    /\ put[p].at \in {"touch"} \union Holding => put[p].inode \in Puts
    /\ put[p].at \in Unopened => put[p].inode = NoFile /\ put[p].wrote = 0
    /\ put[p].at = "copy" => put[p].wrote < Blocks
    /\ put[p].at = "rename" => put[p].wrote = Blocks
    /\ p \in overlapped => put[p].at \notin Unopened

(* A session that is live has a directory, and it is not one whose requests
   were answered 410: those are older, or it is a tombstone. *)
SessionInv ==
  /\ \A j \in Jobs : live(j) => sessions[j].target \in Dirs
  /\ \A r \in gone : /\ r[2] <= minted[r[1]]
                     /\ ~(live(r[1]) /\ sessions[r[1]].token = r[2])

(* An inode is created by the request it is named after, in the directory of
   that request, and has at most one name there. *)
BornIn(i, d) == put[i].at \notin Unopened /\ put[i].dir = d

InodeInv ==
  /\ \A d \in Dirs :
       /\ tmp[d] # NoFile => d \in dirs /\ BornIn(tmp[d], d) /\ tmp[d] # final[d]
       /\ final[d] # NoFile => BornIn(final[d], d)
  /\ \A p \in Puts : put[p].inode # NoFile => BornIn(put[p].inode, put[p].dir)

(* Two handlers between open and rename in one directory have met. *)
ShareInv ==
  \A p, q \in Puts :
    put[p].at \in Holding /\ put[q].at \in Holding /\ put[p].dir = put[q].dir /\ p # q
      => p \in overlapped

(* One that has met no other owns the temporary name, as long as there is a
   directory, and what it wrote is there. *)
OwnInv ==
  \A p \in Puts \ overlapped :
    /\ put[p].at \in Holding /\ put[p].dir \in dirs => tmp[put[p].dir] = put[p].inode
    /\ put[p].at \in {"copy", "rename"} =>
         \A b \in 1..put[p].wrote : data[put[p].inode][b] = put[p].job
    /\ put[p].at = "missing" => put[p].dir \notin dirs

(* Who still writes to a file under its final name has met another. *)
FinalInv ==
  \A p \in Puts : put[p].at \in Holding /\ put[p].inode = final[put[p].dir]
                    => p \in overlapped

FilesInv == /\ InodeInv
            /\ ShareInv
            /\ OwnInv
            /\ FinalInv
            /\ FinalIsWhole
            /\ TmpCleaned

IInv == TypeOK /\ PutInv /\ SessionInv /\ FilesInv /\ TombstoneJustified

-----------------------------------------------------------------------------
(* No session, no request, no file. *)
LEMMA InitIInv == Init => IInv
  <1> SUFFICES ASSUME Init PROVE IInv
    OBVIOUS
  <1>1. unknown \in Session /\ unsent \in Request /\ empty \in [1..Blocks -> Jobs \union {Hole}]
    BY StoreAssumption DEF unknown, Session, unsent, Request, empty
  <1>2. TypeOK
    BY <1>1, StoreAssumption DEF Init, TypeOK, Reasons
  <1>3. PutInv
    BY DEF Init, PutInv, Holding, unsent
  <1>4. SessionInv
    BY DEF Init, SessionInv, live, unknown
  <1>5. FilesInv
    BY DEF Init, FilesInv, InodeInv, ShareInv, OwnInv, FinalInv, FinalIsWhole, TmpCleaned,
           Holding, unsent
  <1>6. TombstoneJustified
    BY DEF Init, TombstoneJustified
  <1> QED
    BY <1>2, <1>3, <1>4, <1>5, <1>6 DEF IInv

-----------------------------------------------------------------------------
(* Frames *)

(* Steps that leave handlers and files alone. *)
LEMMA FilesFrame ==
  ASSUME IInv, UNCHANGED <<fileVars, put, overlapped, restarts>>
  PROVE  FilesInv'
  BY DEF IInv, fileVars, FilesInv, InodeInv, BornIn, ShareInv, OwnInv, FinalInv, FinalIsWhole,
         whole, TmpCleaned

(* Registrations elsewhere keep the handlers' part: tokens only grow. *)
LEMMA PutFrame ==
  ASSUME IInv, UNCHANGED <<put, overlapped>>, minted' \in [Jobs -> 0..MaxRegs],
         \A j \in Jobs : minted[j] <= minted'[j]
  PROVE  PutInv'
  <1>1. \A p \in Puts : put[p].at # "none" =>
          put[p].job \in Jobs /\ put[p].token <= minted'[put[p].job]
    <2> SUFFICES ASSUME NEW p \in Puts, put[p].at # "none"
                 PROVE  put[p].job \in Jobs /\ put[p].token <= minted'[put[p].job]
      OBVIOUS
    <2>1. /\ put[p].job \in Jobs /\ put[p].token <= minted[put[p].job]
          /\ put[p].token \in 0..MaxRegs
      BY DEF IInv, PutInv, TypeOK, Request
    <2>2. minted[put[p].job] \in 0..MaxRegs /\ minted'[put[p].job] \in 0..MaxRegs
      BY <2>1 DEF IInv, TypeOK
    <2> QED
      BY <2>1, <2>2, StoreAssumption
  <1> QED
    BY <1>1 DEF IInv, PutInv

(* The reasons of tombstones, when no request and no directory changes. *)
LEMMA ReasonFrame ==
  ASSUME IInv, UNCHANGED <<put, overlapped, dirs>>,
         \A j \in Jobs : why'[j] = "dirgone" => why[j] = "dirgone"
  PROVE  TombstoneJustified'
  BY DEF IInv, TombstoneJustified

-----------------------------------------------------------------------------
(* The session table *)

(* The bound on registrations bounds the tokens of each id. *)
LEMMA TokenBound ==
  ASSUME TypeOK, NEW j \in Jobs,
         Cardinality({r \in Jobs \X (1..MaxRegs) : r[2] <= minted[r[1]]}) < MaxRegs
  PROVE  minted[j] < MaxRegs
  <1> SUFFICES ASSUME minted[j] = MaxRegs PROVE FALSE
    BY StoreAssumption DEF TypeOK
  <1> DEFINE All == {r \in Jobs \X (1..MaxRegs) : r[2] <= minted[r[1]]}
             Own == {<<j, n>> : n \in 1..MaxRegs}
  <1>1. Own \subseteq All
    BY StoreAssumption
  <1>2. IsFiniteSet(1..MaxRegs) /\ Cardinality(1..MaxRegs) = MaxRegs
    BY StoreAssumption, FS_Interval
  <1>3. IsFiniteSet(Jobs \X (1..MaxRegs))
    BY <1>2, NamesAssumption, FS_Product
  <1>4. IsFiniteSet(All)
    BY <1>3, FS_Subset
  <1>5. ExistsBijection(1..MaxRegs, Own)
    <2> DEFINE f == [n \in 1..MaxRegs |-> <<j, n>>]
    <2>1. f \in Bijection(1..MaxRegs, Own)
      BY DEF Bijection, Injection, Surjection, IsInjective
    <2> QED
      BY <2>1 DEF ExistsBijection
  <1>6. Cardinality(Own) = MaxRegs
    BY <1>1, <1>2, <1>4, <1>5, FS_Subset, FS_Bijection
  <1>7. Cardinality(Own) <= Cardinality(All) /\ Cardinality(All) \in Nat
    BY <1>1, <1>4, FS_Subset, FS_CardinalityType
  <1> QED
    BY <1>6, <1>7, StoreAssumption

(* register: a fresh record under a freshly minted token, whatever was there. *)
LEMMA RegisterStep ==
  ASSUME IInv, NEW j \in Jobs, NEW d \in Dirs, register(j, d)
  PROVE  IInv'
  <1> USE DEF register, histVars
  <1>1. minted[j] \in 0..MaxRegs /\ minted[j] < MaxRegs
    BY TokenBound DEF IInv, TypeOK
  <1>2. minted' \in [Jobs -> 0..MaxRegs] /\ \A k \in Jobs : minted[k] <= minted'[k]
    BY <1>1, StoreAssumption DEF IInv, TypeOK
  <1>3. TypeOK'
    <2>1. sessions' \in [Jobs -> Session]
      BY <1>1, StoreAssumption DEF IInv, TypeOK, Session
    <2> QED
      BY <1>2, <2>1 DEF IInv, TypeOK, fileVars
  <1>4. SessionInv'
    <2>1. \A k \in Jobs : live(k)' => sessions'[k].target \in Dirs
      BY DEF IInv, TypeOK, SessionInv, live
    <2>2. ASSUME NEW r \in gone
          PROVE  r[2] <= minted'[r[1]] /\ ~(live(r[1])' /\ sessions'[r[1]].token = r[2])
      <3>1. r[1] \in Jobs /\ r[2] \in 0..MaxRegs /\ r[2] <= minted[r[1]]
        BY DEF IInv, TypeOK, SessionInv
      <3>2. minted[r[1]] \in 0..MaxRegs /\ minted'[r[1]] \in 0..MaxRegs
            /\ minted[r[1]] <= minted'[r[1]]
        BY <1>2, <3>1 DEF IInv, TypeOK
      <3>3. CASE r[1] = j
        BY <1>1, <3>1, <3>2, <3>3, StoreAssumption DEF IInv, TypeOK
      <3>4. CASE r[1] # j
        <4>1. sessions'[r[1]] = sessions[r[1]]
          BY <3>1, <3>4 DEF IInv, TypeOK
        <4> QED
          BY <3>1, <3>2, <4>1, StoreAssumption DEF IInv, SessionInv, live
      <3> QED
        BY <3>3, <3>4
    <2> QED
      BY <2>1, <2>2 DEF SessionInv
  <1> QED
    BY <1>2, <1>3, <1>4, FilesFrame, PutFrame, ReasonFrame DEF IInv, fileVars

(* Sessions only end: none becomes live, or changes hands. *)
OnlyEnds ==
  \A k \in Jobs : live(k)' => /\ live(k)
                              /\ sessions'[k].token = sessions[k].token
                              /\ sessions'[k].target = sessions[k].target

(* A session that is tombstoned stays a session. *)
LEMMA GoneSession ==
  ASSUME NEW s \in Session
  PROVE  [s EXCEPT !.state = "gone"] \in Session /\ [s EXCEPT !.state = "gone"].state = "gone"
  <1>1. [s EXCEPT !.state = "gone"]
          = [state |-> "gone", token |-> s.token, target |-> s.target, stale |-> s.stale]
    BY DEF Session
  <1>2. s.token \in 0..MaxRegs /\ s.target \in Dirs \union {NoDir} /\ s.stale \in BOOLEAN
    BY DEF Session
  <1> QED
    BY <1>1, <1>2 DEF Session

(* tombstone ends one session, with its reason, and no other. *)
LEMMA TombstoneStep ==
  ASSUME TypeOK, NEW j \in Jobs, NEW reason \in Reasons, tombstone(j, reason)
  PROVE  /\ sessions' \in [Jobs -> Session] /\ OnlyEnds /\ ~live(j)'
         /\ why' \in [Jobs -> Reasons]
         /\ \A k \in Jobs : why'[k] # why[k] => k = j /\ why'[k] = reason
  <1>1. CASE UNCHANGED <<sessions, why>> /\ ~live(j)
    BY <1>1 DEF TypeOK, OnlyEnds, live
  <1>2. CASE /\ sessions' = [sessions EXCEPT ![j].state = "gone"]
             /\ why' = [why EXCEPT ![j] = reason]
    <2>1. /\ \A k \in Jobs : k # j => sessions'[k] = sessions[k]
          /\ sessions'[j] = [sessions[j] EXCEPT !.state = "gone"]
      BY <1>2 DEF TypeOK
    <2>2. sessions[j] \in Session /\ sessions'[j] \in Session /\ sessions'[j].state = "gone"
      BY <2>1, GoneSession DEF TypeOK
    <2>3. sessions' \in [Jobs -> Session]
      BY <1>2, <2>1, <2>2 DEF TypeOK
    <2>4. OnlyEnds /\ ~live(j)'
      BY <2>1, <2>2 DEF OnlyEnds, live
    <2>5. why' \in [Jobs -> Reasons] /\ \A k \in Jobs : why'[k] # why[k] => k = j /\ why'[k] = reason
      BY <1>2 DEF TypeOK
    <2> QED
      BY <2>3, <2>4, <2>5
  <1> QED
    BY <1>1, <1>2 DEF tombstone

(* Drain timers, TTLs and the reaper: no tombstone becomes live again. *)
LEMMA TableStep ==
  ASSUME IInv, \/ \E j \in Jobs : close(j) \/ DrainOver(j) \/ Expire(j)
               \/ reap
  PROVE  IInv'
  <1>0. UNCHANGED <<minted, fileVars, put, heard, overlapped, gone, restarts>>
    BY DEF close, DrainOver, Expire, reap, histVars
  <1>1. /\ sessions' \in [Jobs -> Session] /\ timers' \in [Jobs -> 0..MaxCloses]
        /\ why' \in [Jobs -> Reasons] /\ OnlyEnds
        /\ \A k \in Jobs : why'[k] = "dirgone" => why[k] = "dirgone"
    <2>t. TypeOK
      BY DEF IInv
    <2>1. ASSUME NEW j \in Jobs, close(j) PROVE <1>1!:
      BY <2>t, <2>1, StoreAssumption DEF close, histVars, TypeOK, OnlyEnds, live
    <2>2. ASSUME NEW j \in Jobs, DrainOver(j) PROVE <1>1!:
      <3>1. timers' \in [Jobs -> 0..MaxCloses]
        BY <2>t, <2>2, StoreAssumption DEF DrainOver, TypeOK
      <3>2. tombstone(j, "closed") /\ "closed" \in Reasons
        BY <2>2 DEF DrainOver, Reasons
      <3> QED
        BY <2>t, <3>1, <3>2, TombstoneStep
    <2>3. ASSUME NEW j \in Jobs, Expire(j) PROVE <1>1!:
      BY <2>t, <2>3 DEF Expire, histVars, TypeOK, OnlyEnds, live, Session
    <2>4. CASE reap
      <3> DEFINE expired == {j \in Jobs : live(j) /\ sessions[j].stale}
      <3>1. PICK purged \in SUBSET {j \in Jobs : sessions[j].state = "gone"} :
              /\ sessions' = [j \in Jobs |->
                   IF j \in purged THEN unknown
                   ELSE IF j \in expired THEN [sessions[j] EXCEPT !.state = "gone"]
                   ELSE sessions[j]]
              /\ why' = [j \in Jobs |-> IF j \in expired THEN "expired" ELSE why[j]]
              /\ UNCHANGED timers
        BY <2>4 DEF reap
      <3>2. /\ unknown \in Session /\ unknown.state = "unknown"
            /\ \A j \in Jobs : /\ [sessions[j] EXCEPT !.state = "gone"] \in Session
                              /\ [sessions[j] EXCEPT !.state = "gone"].state = "gone"
        <4>1. unknown \in Session /\ unknown.state = "unknown"
          BY StoreAssumption DEF Session, unknown
        <4>2. \A j \in Jobs : sessions[j] \in Session
          BY <2>t DEF TypeOK
        <4> QED
          BY <4>1, <4>2, GoneSession
      <3>3. sessions' \in [Jobs -> Session]
        BY <2>t, <3>1, <3>2 DEF TypeOK
      <3>4. ASSUME NEW k \in Jobs, sessions'[k].state = "live" PROVE sessions'[k] = sessions[k]
        <4>1. CASE k \in purged
          <5>1. sessions'[k] = unknown
            BY <3>1, <4>1
          <5> QED
            BY <3>2, <3>4, <5>1
        <4>2. CASE k \notin purged /\ k \in expired
          <5>1. sessions'[k] = [sessions[k] EXCEPT !.state = "gone"]
            BY <3>1, <4>2
          <5> QED
            BY <3>2, <3>4, <5>1
        <4>3. CASE k \notin purged /\ k \notin expired
          BY <3>1, <4>3
        <4> QED
          BY <4>1, <4>2, <4>3
      <3>5. OnlyEnds
        BY <3>4 DEF OnlyEnds, live
      <3> QED
        BY <2>t, <3>1, <3>3, <3>5 DEF TypeOK, Reasons
    <2> QED
      BY <2>1, <2>2, <2>3, <2>4
  <1>2. TypeOK'
    BY <1>0, <1>1 DEF IInv, TypeOK, fileVars
  <1>3. SessionInv'
    BY <1>0, <1>1 DEF IInv, TypeOK, SessionInv, OnlyEnds
  <1>4. PutInv'
    <2>1. \A j \in Jobs : minted[j] <= minted'[j]
      BY <1>0, StoreAssumption DEF IInv, TypeOK
    <2> QED
      BY <1>0, <1>2, <2>1, PutFrame DEF TypeOK
  <1> QED
    BY <1>0, <1>1, <1>2, <1>3, <1>4, FilesFrame, ReasonFrame DEF IInv, fileVars

-----------------------------------------------------------------------------
(* The PUT handlers *)

Others(p) == \A q \in Puts : q # p => put'[q] = put[q]

(* A handler that moves on or answers keeps what it holds. *)
LEMMA AnswerStep ==
  ASSUME TypeOK, NEW p \in Puts, NEW a \in Active \union Answers, answer(p, a)
  PROVE  /\ put' \in [Puts -> Request] /\ Others(p)
         /\ put'[p].at = a /\ put'[p].job = put[p].job /\ put'[p].token = put[p].token
         /\ put'[p].dir = put[p].dir /\ put'[p].inode = put[p].inode
         /\ put'[p].wrote = put[p].wrote
  <1>1. put[p] \in Request /\ put'[p] = [put[p] EXCEPT !.at = a]
    BY DEF TypeOK, answer
  <1>2. [put[p] EXCEPT !.at = a]
          = [at |-> a, job |-> put[p].job, token |-> put[p].token, dir |-> put[p].dir,
             inode |-> put[p].inode, wrote |-> put[p].wrote]
    BY <1>1 DEF Request
  <1>3. /\ put[p].job \in Jobs \union {"nojob"} /\ put[p].token \in 0..MaxRegs
        /\ put[p].dir \in Dirs \union {NoDir} /\ put[p].inode \in Puts \union {NoFile}
        /\ put[p].wrote \in 0..Blocks
    BY <1>1 DEF Request
  <1>4. put'[p] \in Request
    BY <1>1, <1>2, <1>3 DEF Request
  <1>5. put' \in [Puts -> Request] /\ Others(p)
    BY <1>1, <1>4 DEF TypeOK, answer, Others
  <1> QED
    BY <1>1, <1>2, <1>5

(* One handler moves on and touches no file. *)
LEMMA AtFrame ==
  ASSUME IInv, NEW p \in Puts, UNCHANGED <<fileVars, overlapped, restarts>>, Others(p),
         put'[p].inode = put[p].inode, put'[p].wrote = put[p].wrote,
         put[p].at \in Holding <=> put'[p].at \in Holding,
         put'[p].at \in {"copy", "rename"} => put[p].at \in {"copy", "rename"},
         put'[p].at = "missing" => put[p].at = "missing" \/ put[p].dir \notin dirs \/ p \in overlapped,
         put[p].at \notin Unopened =>
           put'[p].at \notin Unopened /\ put'[p].dir = put[p].dir /\ put'[p].job = put[p].job
  PROVE  FilesInv'
  <1> USE DEF IInv, FilesInv, fileVars, Others
  <1>1. put[p].at \in Unopened => put[p].inode = NoFile
    BY DEF PutInv
  <1>2. \A i \in Puts, d \in Dirs \union {NoDir} : BornIn(i, d) => BornIn(i, d)'
    BY DEF BornIn
  <1>3. InodeInv'
    <2>1. \A d \in Dirs : tmp[d] \in Puts \union {NoFile} /\ final[d] \in Puts \union {NoFile}
      BY DEF TypeOK
    <2>2. \A q \in Puts : put[q].inode \in Puts \union {NoFile} /\ put[q].dir \in Dirs \union {NoDir}
      BY DEF TypeOK, Request
    <2>3. \A q \in Puts : put'[q].inode # NoFile =>
            put'[q].inode = put[q].inode /\ put'[q].dir = put[q].dir
      BY <1>1
    <2> QED
      BY <1>2, <2>1, <2>2, <2>3 DEF InodeInv
  <1>4. \A q \in Puts : put'[q].at \in Holding =>
          /\ put[q].at \in Holding /\ put'[q].dir = put[q].dir /\ put'[q].job = put[q].job
          /\ put'[q].inode = put[q].inode /\ put'[q].wrote = put[q].wrote
    BY DEF Holding, Unopened
  <1>5. ShareInv'
    BY <1>4 DEF ShareInv
  <1>6. OwnInv'
    <2>1. ASSUME NEW q \in Puts, q \notin overlapped, put'[q].at \in Holding, put[q].dir \in dirs
          PROVE  tmp[put'[q].dir] = put'[q].inode
      BY <1>4, <2>1 DEF OwnInv
    <2>2. ASSUME NEW q \in Puts, q \notin overlapped, put'[q].at \in {"copy", "rename"},
                 NEW b \in 1..put'[q].wrote
          PROVE  data[put'[q].inode][b] = put'[q].job
      <3>1. put[q].at \in {"copy", "rename"} /\ put'[q].at \in Holding
        BY <2>2 DEF Holding
      <3> QED
        BY <1>4, <2>2, <3>1 DEF OwnInv
    <2>3. ASSUME NEW q \in Puts, q \notin overlapped, put'[q].at = "missing"
          PROVE  put'[q].dir \notin dirs
      <3>1. put'[q].at \in Holding
        BY <2>3 DEF Holding
      <3> QED
        BY <1>4, <2>3, <3>1 DEF OwnInv
    <2> QED
      BY <1>4, <2>1, <2>2, <2>3 DEF OwnInv
  <1>7. FinalInv'
    BY <1>4 DEF FinalInv
  <1>8. TmpCleaned'
    <2>1. \A q \in Puts : put[q].at \in Holding =>
            put'[q].at \in Holding /\ put'[q].dir = put[q].dir
      BY DEF Holding, Unopened
    <2> QED
      BY <2>1 DEF TmpCleaned
  <1>9. FinalIsWhole'
    <2>1. \A q \in overlapped : q \in Puts /\ put'[q].dir = put[q].dir
      BY DEF PutInv, TypeOK
    <2> QED
      BY <2>1 DEF FinalIsWhole, whole
  <1> QED
    BY <1>3, <1>5, <1>6, <1>7, <1>8, <1>9

(* The handler's own knowledge is all that a step changes of PutInv. *)
LEMMA PutStep ==
  ASSUME IInv, NEW p \in Puts, Others(p), UNCHANGED minted,
         overlapped' = overlapped,
         put'[p].job \in Jobs /\ put'[p].token <= minted[put'[p].job],
         put'[p].at \in {"open", "touch"} \union Holding => put'[p].dir \in Dirs,
         put'[p].at \in {"touch"} \union Holding => put'[p].inode \in Puts,
         put'[p].at \in Unopened =>
           put'[p].inode = NoFile /\ put'[p].wrote = 0 /\ put[p].at \in Unopened,
         put'[p].at = "copy" => put'[p].wrote < Blocks,
         put'[p].at = "rename" => put'[p].wrote = Blocks
  PROVE  PutInv'
  BY DEF IInv, PutInv, Others

(* A tombstone for a removed directory comes with the 410 that explains it. *)
LEMMA ReasonStep ==
  ASSUME IInv, NEW p \in Puts, Others(p), put[p].at # "410",
         dirs' \subseteq dirs, overlapped \subseteq overlapped',
         \A k \in Jobs : why'[k] = "dirgone" =>
           \/ why[k] = "dirgone"
           \/ /\ put'[p].job = k /\ put'[p].at = "410"
              /\ put'[p].dir \notin dirs' \/ p \in overlapped'
  PROVE  TombstoneJustified'
  BY DEF IInv, TombstoneJustified, Others

(* Steps without effect on the table. *)
LEMMA SessionFrame ==
  ASSUME IInv, UNCHANGED <<sessions, minted, gone>>
  PROVE  SessionInv'
  BY DEF IInv, SessionInv, live

(* 410, with the session a tombstone from here on at the latest. *)
LEMMA GoneStep ==
  ASSUME IInv, NEW p \in Puts, put[p].at # "none", goneNow(p), UNCHANGED minted,
         OnlyEnds, NEW j, j = put[p].job, ~live(j)'
  PROVE  SessionInv' /\ gone' \subseteq Jobs \X (0..MaxRegs)
  <1>1. put[p].job \in Jobs /\ put[p].token \in 0..MaxRegs /\ put[p].token <= minted[put[p].job]
    BY DEF IInv, PutInv, TypeOK, Request
  <1>2. gone' \subseteq Jobs \X (0..MaxRegs)
    BY <1>1 DEF IInv, TypeOK, goneNow
  <1>3. \A r \in gone' : /\ r[2] <= minted[r[1]]
                        /\ ~(live(r[1])' /\ sessions'[r[1]].token = r[2])
    <2> TAKE r \in gone'
    <2>1. CASE r = <<put[p].job, put[p].token>>
      <3>1. r[1] = j /\ r[2] = put[p].token
        BY <2>1
      <3> QED
        BY <1>1, <3>1
    <2>2. CASE r \in gone
      <3>1. r[1] \in Jobs
        BY <2>2 DEF IInv, TypeOK
      <3> QED
        BY <2>2, <3>1 DEF IInv, SessionInv, OnlyEnds
    <2> QED
      BY <2>1, <2>2 DEF goneNow
  <1>4. \A k \in Jobs : live(k)' => sessions'[k].target \in Dirs
    BY DEF IInv, SessionInv, OnlyEnds
  <1> QED
    BY <1>2, <1>3, <1>4 DEF SessionInv

(* handlePutFile up to the open. *)
LEMMA LookupStep == ASSUME IInv, NEW p \in Puts, lookup(p) PROVE IInv'
  <1> USE DEF lookup
  <1>t. TypeOK /\ PutInv /\ SessionInv
    BY DEF IInv
  <1>a. /\ put[p].at = "arrived" /\ put[p].job \in Jobs /\ put[p].token <= minted[put[p].job]
        /\ put[p].inode = NoFile /\ put[p].wrote = 0
        /\ UNCHANGED <<tableVars, fileVars, heard, overlapped, why, restarts>>
    BY <1>t DEF PutInv, Unopened
  <1>1. CASE \E a \in {"410", "401"} : /\ answer(p, a)
                                       /\ IF a = "410" THEN ~live(put[p].job) /\ goneNow(p)
                                          ELSE UNCHANGED gone
    <2>1. PICK a \in {"410", "401"} : /\ answer(p, a)
                                      /\ IF a = "410" THEN ~live(put[p].job) /\ goneNow(p)
                                         ELSE UNCHANGED gone
      BY <1>1
    <2>2. /\ put' \in [Puts -> Request] /\ Others(p)
          /\ put'[p].at = a /\ put'[p].job = put[p].job /\ put'[p].token = put[p].token
          /\ put'[p].dir = put[p].dir /\ put'[p].inode = put[p].inode
          /\ put'[p].wrote = put[p].wrote
      BY <1>t, <2>1, AnswerStep DEF Answers
    <2>3. SessionInv' /\ gone' \subseteq Jobs \X (0..MaxRegs)
      <3>1. CASE a = "410"
        <4>0. sessions' = sessions /\ ~live(put[p].job) /\ goneNow(p)
          BY <1>a, <2>1, <3>1 DEF tableVars
        <4>1. OnlyEnds /\ \A j \in Jobs : j = put[p].job => ~live(j)'
          BY <4>0 DEF OnlyEnds, live
        <4> QED
          BY <1>a, <4>0, <4>1, GoneStep DEF tableVars
      <3>2. CASE a # "410"
        BY <1>a, <1>t, <2>1, <3>2, SessionFrame DEF tableVars, TypeOK
      <3> QED
        BY <3>1, <3>2
    <2>4. TypeOK'
      BY <1>t, <1>a, <2>2, <2>3 DEF TypeOK, tableVars, fileVars
    <2>5. PutInv'
      BY <1>a, <2>1, <2>2, PutStep DEF tableVars, Holding, Unopened
    <2>6. FilesInv'
      BY <1>a, <2>1, <2>2, AtFrame DEF Holding, Unopened
    <2>7. TombstoneJustified'
      BY <1>a, <2>2, ReasonStep DEF fileVars
    <2> QED
      BY <2>3, <2>4, <2>5, <2>6, <2>7 DEF IInv
  <1>2. CASE /\ live(put[p].job) /\ UNCHANGED gone
             /\ put' = [put EXCEPT ![p].at = "open", ![p].dir = sessions[put[p].job].target]
    <2>1. sessions[put[p].job].target \in Dirs
      BY <1>t, <1>a, <1>2 DEF SessionInv
    <2>2. put[p] \in Request
          /\ put'[p] = [put[p] EXCEPT !.at = "open", !.dir = sessions[put[p].job].target]
      BY <1>2, <1>t DEF TypeOK
    <2>3. [put[p] EXCEPT !.at = "open", !.dir = sessions[put[p].job].target]
            = [at |-> "open", job |-> put[p].job, token |-> put[p].token,
               dir |-> sessions[put[p].job].target, inode |-> put[p].inode, wrote |-> put[p].wrote]
      BY <2>2 DEF Request
    <2>4. /\ put[p].token \in 0..MaxRegs /\ put[p].inode \in Puts \union {NoFile}
          /\ put[p].wrote \in 0..Blocks
      BY <2>2 DEF Request
    <2>5. put'[p] \in Request
      BY <1>a, <2>1, <2>2, <2>3, <2>4 DEF Request, Active
    <2>6. put' \in [Puts -> Request] /\ Others(p)
      BY <1>2, <1>t, <2>2, <2>5 DEF TypeOK, Others
    <2>7. /\ put'[p].at = "open" /\ put'[p].job = put[p].job /\ put'[p].token = put[p].token
          /\ put'[p].dir \in Dirs /\ put'[p].inode = put[p].inode /\ put'[p].wrote = put[p].wrote
      BY <2>1, <2>2, <2>3
    <2>8. TypeOK'
      BY <1>2, <1>t, <1>a, <2>6 DEF TypeOK, tableVars, fileVars
    <2>9. PutInv'
      BY <1>a, <2>6, <2>7, PutStep DEF tableVars, Holding, Unopened
    <2>10. FilesInv'
      BY <1>a, <2>6, <2>7, AtFrame DEF Holding, Unopened
    <2>11. TombstoneJustified' /\ SessionInv'
      BY <1>2, <1>a, <2>6, ReasonStep, SessionFrame DEF fileVars, tableVars
    <2> QED
      BY <2>8, <2>9, <2>10, <2>11 DEF IInv
  <1> QED
    BY <1>1, <1>2 DEF live

(* Sessions that only end, or are only touched, stay clear of the 410s. *)
LEMMA EndsFrame ==
  ASSUME IInv, OnlyEnds, UNCHANGED <<minted, gone>>
  PROVE  SessionInv'
  BY DEF IInv, TypeOK, SessionInv, OnlyEnds

(* The steps of a handler that leave the files to the next one. *)
Moves(p, a) ==
  \/ put[p].at = "open" /\ a \in {"500", "410"}
  \/ put[p].at = "touch" /\ a = "200"
  \/ put[p].at \in {"copy", "rename"} /\ a = "discard"
  \/ put[p].at = "rename" /\ a = "missing" /\ tmp[put[p].dir] = NoFile

(* The moves of a handler that touch no file keep what is known of the files. *)
LEMMA MoveStep ==
  ASSUME IInv, NEW p \in Puts, NEW a, answer(p, a), Moves(p, a),
         UNCHANGED <<minted, fileVars, overlapped, restarts>>
  PROVE  /\ put' \in [Puts -> Request] /\ PutInv' /\ FilesInv' /\ Others(p)
         /\ put'[p].at = a /\ put'[p].job = put[p].job /\ put'[p].dir = put[p].dir
  <1>t. TypeOK /\ PutInv /\ OwnInv
    BY DEF IInv, FilesInv
  <1>0. a \in Active \union Answers
    BY DEF Moves, Active, Holding, Answers
  <1>1. /\ put' \in [Puts -> Request] /\ Others(p)
        /\ put'[p].at = a /\ put'[p].job = put[p].job /\ put'[p].token = put[p].token
        /\ put'[p].dir = put[p].dir /\ put'[p].inode = put[p].inode
        /\ put'[p].wrote = put[p].wrote
    BY <1>t, <1>0, AnswerStep
  <1>2. put[p].at # "none" /\ put[p].job \in Jobs /\ put[p].token <= minted[put[p].job]
    BY <1>t DEF Moves, PutInv
  <1>3. a \notin Unopened /\ a \notin {"open", "touch", "copy", "rename"}
    BY DEF Moves, Unopened
  <1>4. a \in Holding => put[p].at \in Holding /\ put[p].dir \in Dirs /\ put[p].inode \in Puts
    BY <1>t DEF Moves, Holding, PutInv
  <1>5. PutInv'
    BY <1>1, <1>2, <1>3, <1>4, PutStep
  <1>6. put[p].at \in Holding <=> a \in Holding
    BY DEF Moves, Holding
  <1>7. a = "missing" => put[p].dir \notin dirs \/ p \in overlapped
    <2> SUFFICES ASSUME a = "missing", put[p].dir \in dirs, p \notin overlapped PROVE FALSE
      OBVIOUS
    <2>1. put[p].at \in Holding /\ tmp[put[p].dir] = NoFile
      BY DEF Moves, Holding
    <2>2. tmp[put[p].dir] = put[p].inode
      BY <1>t, <2>1 DEF OwnInv
    <2>3. put[p].inode \in Puts
      BY <1>t, <2>1 DEF PutInv
    <2> QED
      BY <2>1, <2>2, <2>3, NamesAssumption
  <1>8. FilesInv'
    BY <1>1, <1>3, <1>6, <1>7, AtFrame
  <1> QED
    BY <1>1, <1>5, <1>8

(* A failed open, copy, close or rename. *)
LEMMA FailStep ==
  ASSUME IInv, NEW p \in Puts,
         OpenFails(p) \/ CopyFails(p) \/ RenameFails(p) \/ RenameNoEnt(p)
  PROVE  IInv'
  <1>1. /\ UNCHANGED <<tableVars, fileVars, heard, histVars>> /\ put[p].at # "410"
        /\ \E a \in {"500", "discard", "missing"} : answer(p, a) /\ Moves(p, a)
    BY DEF OpenFails, CopyFails, RenameFails, RenameNoEnt, Moves
  <1>2. /\ UNCHANGED <<sessions, minted, timers, dirs, tmp, final, data, fileVars, heard>>
        /\ UNCHANGED <<overlapped, why, gone, restarts>>
    BY <1>1 DEF tableVars, fileVars, histVars
  <1>3. put' \in [Puts -> Request] /\ PutInv' /\ FilesInv' /\ Others(p)
    BY <1>1, <1>2, MoveStep
  <1>4. TypeOK'
    BY <1>2, <1>3 DEF IInv, TypeOK
  <1>5. SessionInv' /\ TombstoneJustified'
    BY <1>1, <1>2, <1>3, SessionFrame, ReasonStep
  <1> QED
    BY <1>3, <1>4, <1>5 DEF IInv

(* touch resets the TTL of a session and nothing else. *)
LEMMA TouchedSession ==
  ASSUME NEW s \in Session, NEW t, t = [s EXCEPT !.stale = FALSE]
  PROVE  t \in Session /\ t.state = s.state /\ t.token = s.token /\ t.target = s.target
  <1>1. t.state = s.state /\ t.token = s.token /\ t.target = s.target
    BY DEF Session
  <1>2. PICK f \in BOOLEAN : f = FALSE
    OBVIOUS
  <1>3. [s EXCEPT !.stale = f]
          = [state |-> s.state, token |-> s.token, target |-> s.target, stale |-> f]
    BY DEF Session
  <1>4. s.state \in {"unknown", "live", "gone"} /\ s.token \in 0..MaxRegs
        /\ s.target \in Dirs \union {NoDir}
    BY DEF Session
  <1>5. [state |-> s.state, token |-> s.token, target |-> s.target, stale |-> f] \in Session
    BY <1>2, <1>4 DEF Session
  <1> QED
    BY <1>1, <1>2, <1>3, <1>5

(* The answer after the rename keeps the session alive, if it is. *)
LEMMA FinishStep == ASSUME IInv, NEW p \in Puts, Finish(p) PROVE IInv'
  <1> DEFINE j == put[p].job
  <1>1. /\ put[p].at = "touch" /\ answer(p, "200") /\ Moves(p, "200")
        /\ UNCHANGED <<minted, timers, dirs, tmp, final, data, fileVars, heard>>
        /\ UNCHANGED <<overlapped, why, gone, restarts>>
    BY DEF Finish, Moves, fileVars, histVars
  <1>2. put' \in [Puts -> Request] /\ PutInv' /\ FilesInv' /\ Others(p)
    BY <1>1, MoveStep
  <1>3. sessions' \in [Jobs -> Session] /\ OnlyEnds
    <2>1. CASE sessions' = sessions
      BY <2>1 DEF IInv, TypeOK, OnlyEnds, live
    <2>2. CASE sessions' = [sessions EXCEPT ![j].stale = FALSE]
      <3>1. j \in Jobs /\ sessions[j] \in Session
        BY <1>1 DEF IInv, PutInv, TypeOK
      <3>3. /\ sessions'[j] = [sessions[j] EXCEPT !.stale = FALSE]
            /\ \A k \in Jobs : k # j => sessions'[k] = sessions[k]
        BY <2>2, <3>1 DEF IInv, TypeOK
      <3>4. /\ sessions'[j] \in Session /\ sessions'[j].state = sessions[j].state
            /\ sessions'[j].token = sessions[j].token /\ sessions'[j].target = sessions[j].target
        BY <3>1, <3>3, TouchedSession
      <3>5. sessions' \in [Jobs -> Session]
        BY <2>2, <3>3, <3>4 DEF IInv, TypeOK
      <3>6. OnlyEnds
        BY <3>3, <3>4 DEF OnlyEnds, live
      <3> QED
        BY <3>5, <3>6
    <2> QED
      BY <2>1, <2>2 DEF Finish, touch
  <1>4. TypeOK'
    BY <1>1, <1>2, <1>3 DEF IInv, TypeOK
  <1>5. SessionInv' /\ TombstoneJustified'
    BY <1>1, <1>2, <1>3, EndsFrame, ReasonStep
  <1> QED
    BY <1>2, <1>4, <1>5 DEF IInv

(* putAfterDirRemoved: 410 for the request, a tombstone for its session. *)
LEMMA DirRemovedStep ==
  ASSUME IInv, NEW p \in Puts, put[p].at \notin {"none", "410"}, dirRemoved(p), Others(p),
         UNCHANGED <<minted, dirs, overlapped>>,
         put'[p].at = "410" /\ put'[p].job = put[p].job /\ put'[p].dir = put[p].dir,
         put[p].dir \notin dirs \/ p \in overlapped
  PROVE  /\ sessions' \in [Jobs -> Session] /\ why' \in [Jobs -> Reasons]
         /\ gone' \subseteq Jobs \X (0..MaxRegs)
         /\ SessionInv' /\ TombstoneJustified'
  <1>1. PICK j \in Jobs : j = put[p].job
    BY DEF IInv, PutInv
  <1>2. TypeOK /\ tombstone(j, "dirgone") /\ "dirgone" \in Reasons
    BY <1>1 DEF IInv, dirRemoved, Reasons
  <1>3. /\ sessions' \in [Jobs -> Session] /\ OnlyEnds /\ ~live(j)'
        /\ why' \in [Jobs -> Reasons]
        /\ \A k \in Jobs : why'[k] # why[k] => k = j /\ why'[k] = "dirgone"
    BY <1>2, TombstoneStep
  <1>4. SessionInv' /\ gone' \subseteq Jobs \X (0..MaxRegs)
    BY <1>1, <1>3, GoneStep DEF dirRemoved
  <1>5. TombstoneJustified'
    BY <1>1, <1>3, ReasonStep
  <1> QED
    BY <1>3, <1>4, <1>5

(* handlePutFile on a directory that is gone opens nothing. *)
LEMMA OpenNoDirStep == ASSUME IInv, NEW p \in Puts, OpenNoDir(p) PROVE IInv'
  <1>1. /\ put[p].at = "open" /\ put[p].dir \notin dirs /\ dirRemoved(p)
        /\ answer(p, "410") /\ Moves(p, "410")
        /\ UNCHANGED <<minted, timers, dirs, tmp, final, data, fileVars, heard>>
        /\ UNCHANGED <<overlapped, restarts>>
    BY DEF OpenNoDir, dirRemoved, Moves, fileVars
  <1>2. /\ put' \in [Puts -> Request] /\ PutInv' /\ FilesInv' /\ Others(p)
        /\ put'[p].at = "410" /\ put'[p].job = put[p].job /\ put'[p].dir = put[p].dir
    BY <1>1, MoveStep
  <1>3. /\ sessions' \in [Jobs -> Session] /\ why' \in [Jobs -> Reasons]
        /\ gone' \subseteq Jobs \X (0..MaxRegs)
        /\ SessionInv' /\ TombstoneJustified'
    BY <1>1, <1>2, DirRemovedStep
  <1>4. TypeOK'
    BY <1>1, <1>2, <1>3 DEF IInv, TypeOK
  <1> QED
    BY <1>2, <1>3, <1>4 DEF IInv

-----------------------------------------------------------------------------
(* Steps that change files *)

(* The temporary name is removed at the end of a handler. *)
LEMMA RemoveStep ==
  ASSUME IInv, NEW p \in Puts, NEW a \in {"500", "410"}, answer(p, a),
         put[p].at \in {"discard", "missing"}, removeTmp(put[p].dir),
         UNCHANGED <<minted, dirs, final, data, overlapped, restarts>>
  PROVE  /\ put' \in [Puts -> Request] /\ tmp' \in [Dirs -> Puts \union {NoFile}]
         /\ PutInv' /\ FilesInv' /\ Others(p)
         /\ put'[p].at = a /\ put'[p].job = put[p].job /\ put'[p].dir = put[p].dir
  <1> DEFINE d == put[p].dir
  <1>t. TypeOK /\ PutInv /\ InodeInv /\ ShareInv /\ OwnInv /\ FinalInv /\ FinalIsWhole /\ TmpCleaned
    BY DEF IInv, FilesInv
  <1>0. a \in Active \union Answers /\ a \notin Holding /\ a \notin Unopened
        /\ a \notin {"touch", "open", "copy", "rename"}
    BY DEF Answers, Holding, Unopened
  <1>1. /\ put' \in [Puts -> Request] /\ Others(p)
        /\ put'[p].at = a /\ put'[p].job = put[p].job /\ put'[p].token = put[p].token
        /\ put'[p].dir = put[p].dir /\ put'[p].inode = put[p].inode
        /\ put'[p].wrote = put[p].wrote
    BY <1>t, <1>0, AnswerStep
  <1>2. /\ put[p].at \in Holding /\ put[p].at \notin Unopened /\ put[p].at # "none"
        /\ d \in Dirs /\ put[p].job \in Jobs /\ put[p].token <= minted[put[p].job]
    BY <1>t DEF Holding, PutInv, Unopened
  <1>3. /\ tmp' \in [Dirs -> Puts \union {NoFile}] /\ tmp'[d] = NoFile
        /\ \A e \in Dirs : e # d => tmp'[e] = tmp[e]
    BY <1>t, <1>2 DEF removeTmp, TypeOK
  <1>4. PutInv'
    BY <1>0, <1>1, <1>2, PutStep
  <1>5. \A q \in Puts : put'[q].at \in Holding => q # p /\ put'[q] = put[q]
    BY <1>0, <1>1 DEF Others
  <1>6. InodeInv'
    <2>1. \A i \in Puts, e \in Dirs \union {NoDir} : BornIn(i, e) => BornIn(i, e)'
      BY <1>0, <1>1 DEF BornIn, Others
    <2>2. \A e \in Dirs : tmp[e] \in Puts \union {NoFile} /\ final[e] \in Puts \union {NoFile}
      BY <1>t DEF TypeOK
    <2>3. \A q \in Puts : /\ put[q].inode \in Puts \union {NoFile} /\ put[q].dir \in Dirs \union {NoDir}
                          /\ put'[q].inode = put[q].inode /\ put'[q].dir = put[q].dir
      BY <1>t, <1>1 DEF TypeOK, Request, Others
    <2> QED
      BY <1>t, <1>3, <2>1, <2>2, <2>3 DEF InodeInv
  <1>7. ShareInv'
    BY <1>t, <1>5 DEF ShareInv
  <1>8. OwnInv'
    <2> SUFFICES ASSUME NEW q \in Puts, q \notin overlapped
                 PROVE  /\ put'[q].at \in Holding /\ put'[q].dir \in dirs => tmp'[put'[q].dir] = put'[q].inode
                        /\ put'[q].at \in {"copy", "rename"} =>
                             \A b \in 1..put'[q].wrote : data[put'[q].inode][b] = put'[q].job
                        /\ put'[q].at = "missing" => put'[q].dir \notin dirs
      BY DEF OwnInv
    <2>1. CASE put'[q].at \notin Holding
      BY <2>1 DEF Holding
    <2>2. CASE put'[q].at \in Holding
      <3>1. q # p /\ put'[q] = put[q] /\ put[q].at \in Holding
        BY <1>5, <2>2
      <3>2. put[q].dir # d /\ put[q].dir \in Dirs
        BY <1>t, <1>2, <3>1 DEF ShareInv, PutInv
      <3>3. tmp'[put[q].dir] = tmp[put[q].dir]
        BY <1>3, <3>2
      <3> QED
        BY <1>t, <3>1, <3>3 DEF OwnInv
    <2> QED
      BY <2>1, <2>2
  <1>9. FinalInv'
    BY <1>t, <1>5 DEF FinalInv
  <1>10. FinalIsWhole'
    <2>1. \A q \in overlapped : q \in Puts /\ put'[q].dir = put[q].dir
      BY <1>t, <1>1 DEF TypeOK, Others
    <2> QED
      BY <1>t, <2>1 DEF FinalIsWhole, whole
  <1>11. TmpCleaned'
    <2> SUFFICES ASSUME restarts = 0, NEW e \in Dirs, tmp'[e] # NoFile
                 PROVE  \E q \in Puts : put'[q].at \in Holding /\ put'[q].dir = e
      BY DEF TmpCleaned
    <2>1. e # d /\ tmp[e] # NoFile
      BY <1>3
    <2>2. PICK q \in Puts : put[q].at \in Holding /\ put[q].dir = e
      BY <1>t, <2>1 DEF TmpCleaned
    <2>3. q # p
      BY <2>1, <2>2
    <2> QED
      BY <1>1, <2>2, <2>3 DEF Others
  <1> QED
    BY <1>1, <1>3, <1>4, <1>6, <1>7, <1>8, <1>9, <1>10, <1>11 DEF FilesInv

(* discard: a handler that gives up removes the temporary name and never the
   final one. *)
LEMMA DiscardStep == ASSUME IInv, NEW p \in Puts, Discard(p) PROVE IInv'
  <1>1. /\ put[p].at = "discard" /\ answer(p, "500") /\ removeTmp(put[p].dir)
        /\ UNCHANGED <<sessions, minted, timers, dirs, final, data, heard>>
        /\ UNCHANGED <<overlapped, why, gone, restarts>>
    BY DEF Discard, tableVars, histVars
  <1>2. /\ put' \in [Puts -> Request] /\ tmp' \in [Dirs -> Puts \union {NoFile}]
        /\ PutInv' /\ FilesInv' /\ Others(p)
    BY <1>1, RemoveStep
  <1>3. TypeOK'
    BY <1>1, <1>2 DEF IInv, TypeOK
  <1>4. SessionInv' /\ TombstoneJustified'
    BY <1>1, <1>2, SessionFrame, ReasonStep
  <1> QED
    BY <1>2, <1>3, <1>4 DEF IInv

(* ENOENT is a directory that is gone, or a name another request took. *)
LEMMA AfterNoEntStep == ASSUME IInv, NEW p \in Puts, AfterNoEnt(p) PROVE IInv'
  <1>1. /\ put[p].at = "missing" /\ answer(p, "410") /\ removeTmp(put[p].dir) /\ dirRemoved(p)
        /\ UNCHANGED <<minted, timers, dirs, final, data, heard, overlapped, restarts>>
    BY DEF AfterNoEnt, dirRemoved
  <1>2. /\ put' \in [Puts -> Request] /\ tmp' \in [Dirs -> Puts \union {NoFile}]
        /\ PutInv' /\ FilesInv' /\ Others(p)
        /\ put'[p].at = "410" /\ put'[p].job = put[p].job /\ put'[p].dir = put[p].dir
    BY <1>1, RemoveStep
  <1>3. put[p].dir \notin dirs \/ p \in overlapped
    BY <1>1 DEF IInv, FilesInv, OwnInv
  <1>4. /\ sessions' \in [Jobs -> Session] /\ why' \in [Jobs -> Reasons]
        /\ gone' \subseteq Jobs \X (0..MaxRegs)
        /\ SessionInv' /\ TombstoneJustified'
    BY <1>1, <1>2, <1>3, DirRemovedStep
  <1>5. TypeOK'
    BY <1>1, <1>2, <1>4 DEF IInv, TypeOK
  <1> QED
    BY <1>2, <1>4, <1>5 DEF IInv

(* What a handler that met no other renames is its own chunk, whole. *)
LEMMA RenamedWhole ==
  ASSUME IInv, NEW p \in Puts \ overlapped, put[p].at = "rename", tmp[put[p].dir] # NoFile
  PROVE  tmp[put[p].dir] \in Puts /\ whole(tmp[put[p].dir], put[p].job)
  <1>1. put[p].dir \in Dirs /\ put[p].wrote = Blocks /\ put[p].inode \in Puts
    BY DEF IInv, PutInv, Holding
  <1>2. put[p].dir \in dirs
    BY <1>1 DEF IInv, FilesInv, InodeInv
  <1>3. tmp[put[p].dir] = put[p].inode
    BY <1>2 DEF IInv, FilesInv, OwnInv, Holding
  <1>4. \A b \in 1..Blocks : data[put[p].inode][b] = put[p].job
    BY <1>1 DEF IInv, FilesInv, OwnInv
  <1>5. data[put[p].inode] \in [1..Blocks -> Jobs \union {Hole}]
    BY <1>1 DEF IInv, TypeOK
  <1> QED
    BY <1>1, <1>3, <1>4, <1>5 DEF whole

(* rename: what becomes the final name is an inode some handler has written to
   the end. *)
LEMMA RenameStep == ASSUME IInv, NEW p \in Puts, rename(p) PROVE IInv'
  <1> DEFINE d == put[p].dir
  <1>t. TypeOK /\ PutInv /\ InodeInv /\ ShareInv /\ OwnInv /\ FinalInv /\ FinalIsWhole /\ TmpCleaned
    BY DEF IInv, FilesInv
  <1>a. /\ put[p].at = "rename" /\ tmp[d] # NoFile /\ answer(p, "touch") /\ removeTmp(d)
        /\ final' = [final EXCEPT ![d] = tmp[d]]
        /\ UNCHANGED <<sessions, minted, timers, dirs, data, heard>>
        /\ UNCHANGED <<overlapped, why, gone, restarts>>
    BY DEF rename, tableVars, histVars
  <1>1. /\ put' \in [Puts -> Request] /\ Others(p)
        /\ put'[p].at = "touch" /\ put'[p].job = put[p].job /\ put'[p].token = put[p].token
        /\ put'[p].dir = put[p].dir /\ put'[p].inode = put[p].inode
        /\ put'[p].wrote = put[p].wrote
    BY <1>t, <1>a, AnswerStep DEF Active
  <1>2. /\ put[p].at \in Holding /\ put[p].at \notin Unopened /\ put[p].at # "none"
        /\ d \in Dirs /\ put[p].inode \in Puts
        /\ put[p].job \in Jobs /\ put[p].token <= minted[put[p].job]
    BY <1>t, <1>a DEF Holding, PutInv, Unopened
  <1>3. /\ tmp' \in [Dirs -> Puts \union {NoFile}] /\ tmp'[d] = NoFile
        /\ \A e \in Dirs : e # d => tmp'[e] = tmp[e]
        /\ final' \in [Dirs -> Puts \union {NoFile}] /\ final'[d] = tmp[d]
        /\ \A e \in Dirs : e # d => final'[e] = final[e]
    BY <1>t, <1>a, <1>2 DEF removeTmp, TypeOK
  <1>4. PutInv'
    BY <1>a, <1>1, <1>2, PutStep DEF Unopened
  <1>5. \A q \in Puts : put'[q].at \in Holding =>
          /\ q # p /\ put'[q] = put[q] /\ put[q].at \in Holding
          /\ put[q].dir \in Dirs /\ (put[q].dir = d => q \in overlapped)
    <2>1. \A q \in Puts : put'[q].at \in Holding => q # p /\ put'[q] = put[q]
      BY <1>1 DEF Others, Holding
    <2> QED
      BY <1>t, <1>2, <2>1 DEF ShareInv, PutInv
  <1>6. InodeInv'
    <2>1. \A i \in Puts, e \in Dirs \union {NoDir} : BornIn(i, e) => BornIn(i, e)'
      BY <1>1 DEF BornIn, Others, Unopened
    <2>2. \A e \in Dirs : tmp[e] \in Puts \union {NoFile} /\ final[e] \in Puts \union {NoFile}
      BY <1>t DEF TypeOK
    <2>3. \A q \in Puts : /\ put[q].inode \in Puts \union {NoFile} /\ put[q].dir \in Dirs \union {NoDir}
                          /\ put'[q].inode = put[q].inode /\ put'[q].dir = put[q].dir
      BY <1>t, <1>1 DEF TypeOK, Request, Others
    <2>4. ASSUME NEW e \in Dirs, tmp'[e] # NoFile
          PROVE  tmp'[e] = tmp[e] /\ e \in dirs /\ BornIn(tmp[e], e) /\ tmp[e] # final'[e]
      BY <1>t, <1>3, <2>4 DEF InodeInv
    <2>5. ASSUME NEW e \in Dirs, final'[e] # NoFile
          PROVE  \E i \in Puts : final'[e] = i /\ BornIn(i, e)
      BY <1>t, <1>3, <2>2, <2>5 DEF InodeInv
    <2> QED
      BY <1>t, <1>a, <2>1, <2>2, <2>3, <2>4, <2>5 DEF InodeInv
  <1>7. ShareInv'
    BY <1>t, <1>a, <1>5 DEF ShareInv
  <1>8. OwnInv'
    <2> SUFFICES ASSUME NEW q \in Puts, q \notin overlapped
                 PROVE  /\ put'[q].at \in Holding /\ put'[q].dir \in dirs => tmp'[put'[q].dir] = put'[q].inode
                        /\ put'[q].at \in {"copy", "rename"} =>
                             \A b \in 1..put'[q].wrote : data[put'[q].inode][b] = put'[q].job
                        /\ put'[q].at = "missing" => put'[q].dir \notin dirs
      BY <1>a DEF OwnInv
    <2>1. CASE put'[q].at \notin Holding
      BY <2>1 DEF Holding
    <2>2. CASE put'[q].at \in Holding
      <3>1. put'[q] = put[q] /\ put[q].at \in Holding /\ tmp'[put[q].dir] = tmp[put[q].dir]
        BY <1>3, <1>5, <2>2
      <3> QED
        BY <1>t, <3>1 DEF OwnInv
    <2> QED
      BY <2>1, <2>2
  <1>9. FinalInv'
    BY <1>t, <1>a, <1>3, <1>5 DEF FinalInv
  <1>10. FinalIsWhole'
    <2> SUFFICES ASSUME NEW e \in Dirs, final'[e] # NoFile,
                        ~ \E j \in Jobs : data[final'[e]] = [b \in 1..Blocks |-> j]
                 PROVE  \E q \in overlapped : put'[q].dir = e
      BY <1>a DEF FinalIsWhole, whole
    <2>1. \A q \in overlapped : q \in Puts /\ put'[q].dir = put[q].dir
      BY <1>t, <1>1 DEF TypeOK, Others
    <2>2. CASE e # d
      <3>1. final'[e] = final[e]
        BY <1>3, <2>2
      <3>2. final[e] # NoFile /\ ~ \E j \in Jobs : whole(final[e], j)
        BY <3>1 DEF whole
      <3>3. \E q \in overlapped : put[q].dir = e
        BY <1>t, <3>2 DEF FinalIsWhole
      <3> QED
        BY <2>1, <3>3
    <2>3. CASE e = d
      <3>1. p \in overlapped
        <4> SUFFICES ASSUME p \notin overlapped PROVE FALSE
          OBVIOUS
        <4>1. whole(tmp[d], put[p].job)
          BY <1>a, RenamedWhole
        <4> QED
          BY <1>2, <1>3, <2>3, <4>1 DEF whole
      <3> QED
        BY <2>1, <2>3, <3>1
    <2> QED
      BY <2>2, <2>3
  <1>11. TmpCleaned'
    <2> SUFFICES ASSUME restarts = 0, NEW e \in Dirs, tmp'[e] # NoFile
                 PROVE  \E q \in Puts : put'[q].at \in Holding /\ put'[q].dir = e
      BY <1>a DEF TmpCleaned
    <2>1. e # d /\ tmp[e] # NoFile
      BY <1>3
    <2>2. PICK q \in Puts : put[q].at \in Holding /\ put[q].dir = e
      BY <1>t, <2>1 DEF TmpCleaned
    <2>3. q # p
      BY <2>1, <2>2
    <2> QED
      BY <1>1, <2>2, <2>3 DEF Others
  <1>12. TypeOK'
    BY <1>t, <1>a, <1>1, <1>3 DEF TypeOK
  <1>13. SessionInv' /\ TombstoneJustified'
    BY <1>a, <1>1, SessionFrame, ReasonStep
  <1> QED
    BY <1>4, <1>6, <1>7, <1>8, <1>9, <1>10, <1>11, <1>12, <1>13 DEF IInv, FilesInv

(* Inodes named after requests that have opened are where they were. *)
LEMMA InodeDirs ==
  ASSUME IInv
  PROVE  /\ \A e \in Dirs : final[e] # NoFile => final[e] \in Puts /\ BornIn(final[e], e)
         /\ \A e \in Dirs : tmp[e] # NoFile => tmp[e] \in Puts /\ BornIn(tmp[e], e)
         /\ \A i, d, e : BornIn(i, d) /\ BornIn(i, e) => d = e
  BY DEF IInv, TypeOK, FilesInv, InodeInv, BornIn

(* One block of the body reaches the file the handler has open. *)
LEMMA CopyStep == ASSUME IInv, NEW p \in Puts, Copy(p) PROVE IInv'
  <1> DEFINE n == put[p].wrote + 1
             a == IF n = Blocks THEN "rename" ELSE "copy"
             i == put[p].inode
             j == put[p].job
  <1>t. TypeOK /\ PutInv /\ InodeInv /\ ShareInv /\ OwnInv /\ FinalInv /\ FinalIsWhole /\ TmpCleaned
    BY DEF IInv, FilesInv
  <1>a. /\ put[p].at = "copy" /\ data' = [data EXCEPT ![i][n] = j]
        /\ put' = [put EXCEPT ![p].wrote = n, ![p].at = a]
        /\ UNCHANGED <<sessions, minted, timers, dirs, tmp, final, heard>>
        /\ UNCHANGED <<overlapped, why, gone, restarts>>
    BY DEF Copy, tableVars, histVars
  <1>b. /\ put[p].at \in Holding /\ put[p].at \notin Unopened /\ put[p].dir \in Dirs
        /\ i \in Puts /\ j \in Jobs /\ put[p].token <= minted[j]
        /\ put[p].wrote < Blocks /\ put[p].wrote \in 0..Blocks
    BY <1>t, <1>a DEF Holding, PutInv, Unopened, TypeOK, Request
  <1>c. /\ n \in 1..Blocks /\ n \in 0..Blocks /\ a \in {"copy", "rename"}
        /\ (a = "copy" => n < Blocks) /\ (a = "rename" => n = Blocks)
    BY <1>b, StoreAssumption
  <1>1. /\ put' \in [Puts -> Request] /\ Others(p)
        /\ put'[p].at = a /\ put'[p].job = j /\ put'[p].token = put[p].token
        /\ put'[p].dir = put[p].dir /\ put'[p].inode = i /\ put'[p].wrote = n
    <2> HIDE DEF n, a
    <2>1. put[p] \in Request /\ put'[p] = [put[p] EXCEPT !.wrote = n, !.at = a]
      BY <1>t, <1>a DEF TypeOK
    <2>2. [put[p] EXCEPT !.wrote = n, !.at = a]
            = [at |-> a, job |-> put[p].job, token |-> put[p].token, dir |-> put[p].dir,
               inode |-> put[p].inode, wrote |-> n]
      BY <2>1 DEF Request
    <2>3. /\ put[p].token \in 0..MaxRegs /\ put[p].dir \in Dirs \union {NoDir}
          /\ put[p].inode \in Puts \union {NoFile}
      BY <2>1 DEF Request
    <2>4. put'[p] \in Request
      BY <1>b, <1>c, <2>1, <2>2, <2>3 DEF Request, Active, Holding
    <2>5. put' \in [Puts -> Request] /\ Others(p)
      BY <1>t, <1>a, <2>4 DEF TypeOK, Others
    <2> QED
      BY <2>1, <2>2, <2>5
  <1> HIDE DEF n, a
  <1>2. /\ data' \in [Puts -> [1..Blocks -> Jobs \union {Hole}]]
        /\ \A k \in Puts : k # i => data'[k] = data[k]
        /\ data'[i] = [data[i] EXCEPT ![n] = j]
    BY <1>t, <1>a, <1>b, <1>c DEF TypeOK
  <1>3. a \in Holding /\ a \notin Unopened
    BY <1>c DEF Holding, Unopened
  <1>4. PutInv'
    BY <1>a, <1>b, <1>c, <1>1, <1>3, PutStep
  <1>5. \A q \in Puts : /\ put'[q].at \in Holding <=> put[q].at \in Holding
                        /\ put'[q].dir = put[q].dir /\ put'[q].inode = put[q].inode
                        /\ put'[q].job = put[q].job
                        /\ put'[q].at \in Unopened <=> put[q].at \in Unopened
    BY <1>b, <1>1, <1>3 DEF Others
  <1>6. InodeInv'
    <2>1. \A k \in Puts, e \in Dirs \union {NoDir} : BornIn(k, e) => BornIn(k, e)'
      BY <1>5 DEF BornIn
    <2>2. \A e \in Dirs : tmp[e] \in Puts \union {NoFile} /\ final[e] \in Puts \union {NoFile}
      BY <1>t DEF TypeOK
    <2>3. \A q \in Puts : put[q].inode \in Puts \union {NoFile} /\ put[q].dir \in Dirs \union {NoDir}
      BY <1>t DEF TypeOK, Request
    <2>4. ASSUME NEW e \in Dirs
          PROVE  /\ tmp'[e] # NoFile => /\ e \in dirs' /\ BornIn(tmp[e], e)'
                                        /\ tmp'[e] # final'[e]
                 /\ final'[e] # NoFile => BornIn(final[e], e)'
      BY <1>t, <1>a, <2>1, <2>2 DEF InodeInv
    <2>5. ASSUME NEW q \in Puts, put'[q].inode # NoFile
          PROVE  BornIn(put[q].inode, put[q].dir)'
      <3>1. put[q].inode \in Puts /\ BornIn(put[q].inode, put[q].dir)
        BY <1>t, <1>5, <2>3, <2>5 DEF InodeInv
      <3> QED
        BY <1>5, <3>1 DEF BornIn
    <2> QED
      BY <2>4, <2>5 DEF InodeInv
  <1>7. ShareInv' /\ FinalInv' /\ TmpCleaned'
    <2>1. ShareInv'
      BY <1>t, <1>a, <1>5 DEF ShareInv
    <2>2. FinalInv'
      BY <1>t, <1>a, <1>5 DEF FinalInv
    <2>3. TmpCleaned'
      BY <1>t, <1>a, <1>5 DEF TmpCleaned
    <2> QED
      BY <2>1, <2>2, <2>3
  <1>8. OwnInv'
    <2> SUFFICES ASSUME NEW q \in Puts, q \notin overlapped
                 PROVE  /\ put'[q].at \in Holding /\ put'[q].dir \in dirs => tmp[put'[q].dir] = put'[q].inode
                        /\ put'[q].at \in {"copy", "rename"} =>
                             \A b \in 1..put'[q].wrote : data'[put'[q].inode][b] = put'[q].job
                        /\ put'[q].at = "missing" => put'[q].dir \notin dirs
      BY <1>a DEF OwnInv
    <2>1. put'[q].at \in Holding /\ put'[q].dir \in dirs => tmp[put'[q].dir] = put'[q].inode
      BY <1>t, <1>5 DEF OwnInv
    <2>2. CASE q = p
      <3>1. \A b \in 1..put[p].wrote : data[i][b] = j
        BY <1>t, <1>a, <2>2 DEF OwnInv
      <3>2. data[i] \in [1..Blocks -> Jobs \union {Hole}]
        BY <1>t, <1>b DEF TypeOK
      <3>3. \A b \in 1..n : b = n \/ b \in 1..put[p].wrote
        BY <1>b DEF n
      <3>4. \A b \in 1..n : b \in 1..Blocks
        BY <1>c, StoreAssumption
      <3>5. \A b \in 1..n : data'[i][b] = j
        BY <1>2, <3>1, <3>2, <3>3, <3>4
      <3>6. put'[q].at # "missing"
        BY <1>1, <1>c, <2>2
      <3> QED
        BY <1>1, <2>1, <2>2, <3>5, <3>6
    <2>3. CASE q # p
      <3>1. put'[q] = put[q]
        BY <1>1, <2>3 DEF Others
      <3>2. ASSUME put[q].at \in {"copy", "rename"} PROVE data'[put[q].inode] = data[put[q].inode]
        <4>1. put[q].at \in Holding
          BY <3>2 DEF Holding
        <4>2. put[q].dir # put[p].dir
          BY <1>t, <1>b, <2>3, <4>1 DEF ShareInv
        <4>3. put[q].inode \in Puts /\ i # NoFile /\ put[q].inode # NoFile
          BY <1>t, <1>b, <4>1, NamesAssumption DEF PutInv
        <4>4. BornIn(i, put[p].dir) /\ BornIn(put[q].inode, put[q].dir)
          BY <1>t, <4>3 DEF InodeInv
        <4>5. put[q].inode # i
          BY <4>2, <4>4 DEF BornIn
        <4> QED
          BY <1>2, <4>3, <4>5
      <3>3. ASSUME put[q].at \in {"copy", "rename"}, NEW b \in 1..put[q].wrote
            PROVE  data'[put[q].inode][b] = put[q].job
        BY <1>t, <3>2, <3>3 DEF OwnInv
      <3>4. put[q].at = "missing" => put[q].dir \notin dirs
        BY <1>t DEF OwnInv
      <3> QED
        BY <1>a, <2>1, <3>1, <3>3, <3>4
    <2> QED
      BY <2>2, <2>3
  <1>9. FinalIsWhole'
    <2>0. final' = final /\ overlapped' = overlapped
      BY <1>a
    <2> SUFFICES ASSUME NEW e \in Dirs, final[e] # NoFile,
                        ~ \E k \in Jobs : data'[final[e]] = [b \in 1..Blocks |-> k]
                 PROVE  \E q \in overlapped : put'[q].dir = e
      BY <2>0, Zenon DEF FinalIsWhole, whole
    <2>1. \A q \in overlapped : q \in Puts /\ put'[q].dir = put[q].dir
      BY <1>t, <1>5 DEF TypeOK
    <2>2. final[e] \in Puts /\ BornIn(final[e], e)
      BY InodeDirs
    <2>3. CASE final[e] # i
      <3>1. ~ \E k \in Jobs : whole(final[e], k)
        BY <1>2, <2>2, <2>3 DEF whole
      <3>2. \E q \in overlapped : put[q].dir = e
        BY <1>t, <3>1 DEF FinalIsWhole
      <3> QED
        BY <2>1, <3>2
    <2>4. CASE final[e] = i
      <3>1. BornIn(i, put[p].dir)
        BY <1>t, <1>b, NamesAssumption DEF InodeInv
      <3>2. put[p].dir = e
        BY <2>2, <2>4, <3>1 DEF BornIn
      <3>3. p \in overlapped
        BY <1>t, <1>b, <2>4, <3>2 DEF FinalInv
      <3> QED
        BY <2>1, <3>2, <3>3
    <2> QED
      BY <2>3, <2>4
  <1>10. TypeOK'
    BY <1>t, <1>a, <1>1, <1>2 DEF TypeOK
  <1>11. SessionInv' /\ TombstoneJustified'
    BY <1>a, <1>1, SessionFrame, ReasonStep
  <1> QED
    BY <1>4, <1>6, <1>7, <1>8, <1>9, <1>10, <1>11 DEF IInv, FilesInv

(* The handlers a request meets when it opens its temporary file. *)
Met(p) == {q \in Puts \ {p} : put[q].at \in Holding /\ put[q].dir = put[p].dir}

(* O_TRUNC empties the file of whoever is still writing to that name: from here
   on they have all met. *)
LEMMA OpenStep == ASSUME IInv, NEW p \in Puts, openTmp(p) PROVE IInv'
  <1> DEFINE d == put[p].dir
             i == IF tmp[d] = NoFile THEN p ELSE tmp[d]
  <1>t. TypeOK /\ PutInv /\ InodeInv /\ ShareInv /\ OwnInv /\ FinalInv /\ FinalIsWhole /\ TmpCleaned
    BY DEF IInv, FilesInv
  <1>a. /\ put[p].at = "open" /\ d \in dirs /\ tmp' = [tmp EXCEPT ![d] = i]
        /\ data' = [data EXCEPT ![i] = empty]
        /\ put' = [put EXCEPT ![p].at = "copy", ![p].inode = i]
        /\ overlapped' = IF Met(p) = {} THEN overlapped ELSE overlapped \union Met(p) \union {p}
        /\ UNCHANGED <<sessions, minted, timers, dirs, final, heard, why, gone, restarts>>
    BY DEF openTmp, tableVars, Met
  <1>b. /\ d \in Dirs /\ put[p].inode = NoFile /\ put[p].wrote = 0 /\ p \notin overlapped
        /\ put[p].at \notin Holding /\ put[p].at \in Unopened /\ put[p].job \in Jobs
        /\ put[p].token <= minted[put[p].job]
    BY <1>t, <1>a DEF PutInv, Unopened, Holding
  <1>c. /\ i \in Puts /\ i # NoFile
        /\ i = p \/ (i = tmp[d] /\ i # p /\ BornIn(i, d))
    <2>1. tmp[d] \in Puts \union {NoFile} /\ p # NoFile
      BY <1>t, <1>b, NamesAssumption DEF TypeOK
    <2>2. tmp[d] # NoFile => BornIn(tmp[d], d) /\ tmp[d] # p
      BY <1>t, <1>b DEF InodeInv, BornIn
    <2> QED
      BY <2>1, <2>2
  <1>d. i # final[d] /\ \A e \in Dirs : e # d => i # final[e]
    <2>1. \A e \in Dirs : final[e] # p
      BY <1>b, InodeDirs, NamesAssumption DEF BornIn
    <2>2. CASE i = p
      BY <1>b, <2>1, <2>2
    <2>3. CASE i = tmp[d] /\ BornIn(i, d)
      <3>1. i # final[d]
        BY <1>t, <1>b, <1>c, <2>3 DEF InodeInv
      <3>2. \A e \in Dirs : e # d => i # final[e]
        BY <1>c, <2>3, InodeDirs DEF BornIn
      <3> QED
        BY <3>1, <3>2
    <2> QED
      BY <1>c, <2>2, <2>3
  <1> HIDE DEF i
  <1>1. /\ put' \in [Puts -> Request] /\ Others(p)
        /\ put'[p].at = "copy" /\ put'[p].job = put[p].job /\ put'[p].token = put[p].token
        /\ put'[p].dir = d /\ put'[p].inode = i /\ put'[p].wrote = 0
    <2>1. put[p] \in Request /\ put'[p] = [put[p] EXCEPT !.at = "copy", !.inode = i]
      BY <1>t, <1>a DEF TypeOK
    <2>2. [put[p] EXCEPT !.at = "copy", !.inode = i]
            = [at |-> "copy", job |-> put[p].job, token |-> put[p].token, dir |-> put[p].dir,
               inode |-> i, wrote |-> put[p].wrote]
      BY <2>1 DEF Request
    <2>3. put[p].token \in 0..MaxRegs /\ put[p].wrote \in 0..Blocks
      BY <2>1 DEF Request
    <2>4. put'[p] \in Request
      BY <1>b, <1>c, <2>1, <2>2, <2>3 DEF Request, Active, Holding
    <2>5. put' \in [Puts -> Request] /\ Others(p)
      BY <1>t, <1>a, <2>4 DEF TypeOK, Others
    <2> QED
      BY <1>b, <2>1, <2>2, <2>5
  <1>2. /\ data' \in [Puts -> [1..Blocks -> Jobs \union {Hole}]]
        /\ \A k \in Puts : k # i => data'[k] = data[k]
    <2>1. empty \in [1..Blocks -> Jobs \union {Hole}]
      BY DEF empty
    <2> QED
      BY <1>t, <1>a, <1>c, <2>1 DEF TypeOK
  <1>3. /\ tmp' \in [Dirs -> Puts \union {NoFile}] /\ tmp'[d] = i
        /\ \A e \in Dirs : e # d => tmp'[e] = tmp[e]
    BY <1>t, <1>a, <1>b, <1>c DEF TypeOK
  <1>4. /\ overlapped \subseteq overlapped' /\ overlapped' \subseteq Puts
        /\ Met(p) \subseteq overlapped' /\ (Met(p) # {} => p \in overlapped')
        /\ \A q \in overlapped' : q \in overlapped \/ q = p \/ q \in Met(p)
    BY <1>t, <1>a DEF TypeOK, Met
  <1>5. \A q \in Puts : /\ put'[q].at \in Holding /\ q # p => put'[q] = put[q] /\ put[q].at \in Holding
                        /\ put[q].at \notin Unopened => q # p /\ put'[q] = put[q]
    BY <1>b, <1>1 DEF Others
  <1>6. PutInv'
    <2> SUFFICES ASSUME NEW q \in Puts
                 PROVE  /\ put'[q].at # "none" => put'[q].job \in Jobs /\ put'[q].token <= minted[put'[q].job]
                        /\ put'[q].at \in {"open", "touch"} \union Holding => put'[q].dir \in Dirs
                        /\ put'[q].at \in {"touch"} \union Holding => put'[q].inode \in Puts
                        /\ put'[q].at \in Unopened => put'[q].inode = NoFile /\ put'[q].wrote = 0
                        /\ put'[q].at = "copy" => put'[q].wrote < Blocks
                        /\ put'[q].at = "rename" => put'[q].wrote = Blocks
                        /\ q \in overlapped' => put'[q].at \notin Unopened
      BY <1>a DEF PutInv
    <2>1. CASE q = p
      <3>1. 0 < Blocks
        BY StoreAssumption
      <3> QED
        BY <1>b, <1>c, <1>1, <2>1, <3>1 DEF Unopened
    <2>2. CASE q # p
      <3>1. put'[q] = put[q]
        BY <1>1, <2>2 DEF Others
      <3>2. q \in overlapped' => put[q].at \notin Unopened
        BY <1>t, <1>4, <2>2 DEF PutInv, Met, Holding, Unopened
      <3> QED
        BY <1>t, <3>1, <3>2 DEF PutInv
    <2> QED
      BY <2>1, <2>2
  <1>7. InodeInv'
    <2>1. \A k \in Puts, e \in Dirs \union {NoDir} : BornIn(k, e) => BornIn(k, e)'
      BY <1>5 DEF BornIn
    <2>2. BornIn(i, d) \/ i = p
      BY <1>c
    <2>3. \A k \in Puts, e \in Dirs : k = i /\ e = d => BornIn(k, e)'
      BY <1>b, <1>1, <2>1, <2>2 DEF BornIn, Unopened
    <2>4. \A e \in Dirs : tmp[e] \in Puts \union {NoFile} /\ final[e] \in Puts \union {NoFile}
      BY <1>t DEF TypeOK
    <2>5. \A q \in Puts : q # p => put'[q] = put[q]
      BY <1>1 DEF Others
    <2>6. \A q \in Puts : put[q].inode \in Puts \union {NoFile} /\ put[q].dir \in Dirs \union {NoDir}
      BY <1>t DEF TypeOK, Request
    <2>7. \A e \in Dirs : final[e] # NoFile => final[e] \in Puts /\ BornIn(final[e], e)
      BY InodeDirs
    <2>8. ASSUME NEW e \in Dirs, tmp'[e] # NoFile
          PROVE  e \in dirs /\ tmp'[e] # final[e] /\ \E k \in Puts : k = tmp'[e] /\ BornIn(k, e)'
      <3>1. \E k \in Puts : k = tmp'[e] /\ (BornIn(k, e) \/ (k = i /\ e = d))
        BY <1>t, <1>c, <1>3, <2>4, <2>8 DEF InodeInv
      <3>2. e \in dirs /\ tmp'[e] # final[e]
        BY <1>t, <1>a, <1>d, <1>3, <2>8 DEF InodeInv
      <3> QED
        BY <2>1, <2>3, <3>1, <3>2
    <2>9. ASSUME NEW q \in Puts, put'[q].inode # NoFile
          PROVE  \E k \in Puts, e \in Dirs \union {NoDir} :
                   /\ k = put'[q].inode /\ e = put'[q].dir
                   /\ BornIn(k, e)'
      <3>1. CASE q = p
        BY <1>b, <1>c, <1>1, <2>3, <3>1
      <3>2. CASE q # p
        BY <1>t, <2>1, <2>5, <2>6, <2>9, <3>2 DEF InodeInv
      <3> QED
        BY <3>1, <3>2
    <2>10. \A e \in Dirs : final[e] # NoFile => \E k \in Puts : k = final[e] /\ BornIn(k, e)'
      BY <2>1, <2>7
    <2>11. dirs' = dirs /\ final' = final
      BY <1>a
    <2> QED
      BY <2>8, <2>9, <2>10, <2>11 DEF InodeInv, BornIn
  <1>8. ShareInv'
    <2> SUFFICES ASSUME NEW q \in Puts, NEW r \in Puts, put'[q].at \in Holding, put'[r].at \in Holding,
                        put'[q].dir = put'[r].dir, q # r
                 PROVE  q \in overlapped'
      BY DEF ShareInv
    <2>1. CASE q # p /\ r # p
      BY <1>t, <1>4, <1>5, <2>1 DEF ShareInv
    <2>2. CASE q = p
      <3>1. r \in Met(p)
        BY <1>1, <1>5, <2>2 DEF Met
      <3> QED
        BY <1>4, <2>2, <3>1
    <2>3. CASE r = p
      <3>1. q \in Met(p)
        BY <1>1, <1>5, <2>3 DEF Met
      <3> QED
        BY <1>4, <3>1
    <2> QED
      BY <2>1, <2>2, <2>3
  <1>9. OwnInv'
    <2> SUFFICES ASSUME NEW q \in Puts, q \notin overlapped'
                 PROVE  /\ put'[q].at \in Holding /\ put'[q].dir \in dirs => tmp'[put'[q].dir] = put'[q].inode
                        /\ put'[q].at \in {"copy", "rename"} =>
                             \A b \in 1..put'[q].wrote : data'[put'[q].inode][b] = put'[q].job
                        /\ put'[q].at = "missing" => put'[q].dir \notin dirs
      BY <1>a DEF OwnInv
    <2>1. CASE q = p
      BY <1>1, <1>3, <2>1
    <2>2. CASE q # p /\ put'[q].at \notin Holding
      BY <2>2 DEF Holding
    <2>3. CASE q # p /\ put'[q].at \in Holding
      <3>1. put'[q] = put[q] /\ put[q].at \in Holding /\ q \notin overlapped /\ q \notin Met(p)
        BY <1>4, <1>5, <2>3
      <3>2. put[q].dir # d /\ put[q].dir \in Dirs /\ put[q].inode \in Puts
        BY <1>t, <2>3, <3>1 DEF Met, PutInv
      <3>3. BornIn(put[q].inode, put[q].dir)
        BY <1>t, <3>2, NamesAssumption DEF InodeInv
      <3>4. put[q].inode # i
        BY <1>b, <1>c, <3>2, <3>3 DEF BornIn
      <3>5. tmp'[put[q].dir] = tmp[put[q].dir] /\ data'[put[q].inode] = data[put[q].inode]
        BY <1>2, <1>3, <3>2, <3>4
      <3> QED
        BY <1>t, <3>1, <3>5 DEF OwnInv
    <2> QED
      BY <2>1, <2>2, <2>3
  <1>10. FinalInv'
    <2> SUFFICES ASSUME NEW q \in Puts, put'[q].at \in Holding, put'[q].inode = final[put'[q].dir]
                 PROVE  q \in overlapped'
      BY <1>a DEF FinalInv
    <2>1. q # p
      BY <1>1, <1>d
    <2> QED
      BY <1>t, <1>4, <1>5, <2>1 DEF FinalInv
  <1>11. FinalIsWhole'
    <2>0. final' = final
      BY <1>a
    <2> SUFFICES ASSUME NEW e \in Dirs, final[e] # NoFile,
                        ~ \E k \in Jobs : data'[final[e]] = [b \in 1..Blocks |-> k]
                 PROVE  \E q \in overlapped' : put'[q].dir = e
      BY <2>0 DEF FinalIsWhole, whole
    <2>1. final[e] \in Puts /\ final[e] # i
      BY <1>d, InodeDirs
    <2>2. ~ \E k \in Jobs : whole(final[e], k)
      BY <1>2, <2>1 DEF whole
    <2>3. PICK q \in overlapped : put[q].dir = e
      BY <1>t, <2>2 DEF FinalIsWhole
    <2>4. q \in Puts /\ q # p
      BY <1>t, <1>b DEF TypeOK
    <2> QED
      BY <1>1, <1>4, <2>3, <2>4 DEF Others
  <1>12. TmpCleaned'
    <2> SUFFICES ASSUME restarts = 0, NEW e \in Dirs, tmp'[e] # NoFile
                 PROVE  \E q \in Puts : put'[q].at \in Holding /\ put'[q].dir = e
      BY <1>a DEF TmpCleaned
    <2>1. CASE e = d
      BY <1>1, <2>1 DEF Holding
    <2>2. CASE e # d
      <3>1. PICK q \in Puts : put[q].at \in Holding /\ put[q].dir = e
        BY <1>t, <1>3, <2>2 DEF TmpCleaned
      <3>2. q # p
        BY <1>b, <3>1
      <3> QED
        BY <1>1, <3>1, <3>2 DEF Others
    <2> QED
      BY <2>1, <2>2
  <1>13. TypeOK'
    BY <1>t, <1>a, <1>1, <1>2, <1>3, <1>4 DEF TypeOK
  <1>14. SessionInv' /\ TombstoneJustified'
    BY <1>a, <1>1, <1>4, SessionFrame, ReasonStep
  <1> QED
    BY <1>6, <1>7, <1>8, <1>9, <1>10, <1>11, <1>12, <1>13, <1>14 DEF IInv, FilesInv

-----------------------------------------------------------------------------
(* The worker, Plex Media Server and the restart *)

(* The worker sends a PUT only when it has none under way and no final answer. *)
LEMMA SendStep == ASSUME IInv, NEW p \in Puts, NEW j \in Jobs, Send(p, j) PROVE IInv'
  <1>t. TypeOK /\ PutInv
    BY DEF IInv
  <1>a. /\ put[p].at = "none" /\ heard' = heard \union {p}
        /\ put' = [put EXCEPT ![p] = [unsent EXCEPT !.at = "arrived", !.job = j,
                                                    !.token = minted[j]]]
        /\ UNCHANGED <<sessions, minted, timers, dirs, tmp, final, data, fileVars>>
        /\ UNCHANGED <<overlapped, why, gone, restarts>>
    BY DEF Send, tableVars, fileVars, histVars
  <1>1. /\ put' \in [Puts -> Request] /\ Others(p)
        /\ put'[p].at = "arrived" /\ put'[p].job = j /\ put'[p].token = minted[j]
        /\ put'[p].inode = NoFile /\ put'[p].wrote = 0
    <2>1. put'[p] = [at |-> "arrived", job |-> j, token |-> minted[j], dir |-> NoDir,
                     inode |-> NoFile, wrote |-> 0]
      BY <1>t, <1>a DEF TypeOK, unsent
    <2>2. minted[j] \in 0..MaxRegs /\ 0 \in 0..Blocks
      BY <1>t, StoreAssumption DEF TypeOK
    <2>3. put'[p] \in Request
      BY <2>1, <2>2 DEF Request, Active
    <2>4. put' \in [Puts -> Request] /\ Others(p)
      BY <1>t, <1>a, <2>3 DEF TypeOK, Others
    <2> QED
      BY <2>1, <2>4
  <1>2. put[p].inode = NoFile /\ put[p].wrote = 0 /\ put[p].at \in Unopened
    BY <1>t, <1>a DEF PutInv, Unopened
  <1>3. minted[j] <= minted[j]
    BY <1>t, StoreAssumption DEF TypeOK
  <1>4. PutInv'
    BY <1>a, <1>1, <1>2, <1>3, PutStep DEF Holding
  <1>5. FilesInv'
    BY <1>a, <1>1, <1>2, AtFrame DEF Holding, Unopened
  <1>6. SessionInv' /\ TombstoneJustified'
    BY <1>a, <1>1, SessionFrame, ReasonStep
  <1>7. TypeOK'
    BY <1>t, <1>a, <1>1 DEF TypeOK
  <1> QED
    BY <1>4, <1>5, <1>6, <1>7 DEF IInv

(* An attempt that times out leaves its handler running on its inode. *)
LEMMA GiveUpStep == ASSUME IInv, NEW p \in Puts, GiveUp(p) PROVE IInv'
  <1>1. /\ UNCHANGED <<sessions, minted, timers, dirs, tmp, final, data, fileVars, put>>
        /\ UNCHANGED <<overlapped, why, gone, restarts>> /\ heard' = heard \ {p}
    BY DEF GiveUp, tableVars, fileVars, histVars
  <1>2. TypeOK'
    BY <1>1 DEF IInv, TypeOK
  <1>3. \A j \in Jobs : minted[j] <= minted'[j]
    BY <1>1, StoreAssumption DEF IInv, TypeOK
  <1>4. PutInv'
    BY <1>1, <1>2, <1>3, PutFrame DEF TypeOK
  <1> QED
    BY <1>1, <1>2, <1>4, FilesFrame, SessionFrame, ReasonFrame DEF IInv

(* A removed directory takes both names with it; open files live on. *)
LEMMA RemoveDirStep == ASSUME IInv, NEW d \in Dirs, RemoveDir(d) PROVE IInv'
  <1>t. TypeOK /\ PutInv /\ InodeInv /\ ShareInv /\ OwnInv /\ FinalInv /\ FinalIsWhole /\ TmpCleaned
    BY DEF IInv, FilesInv
  <1>a. /\ dirs' = dirs \ {d}
        /\ tmp' = [tmp EXCEPT ![d] = NoFile] /\ final' = [final EXCEPT ![d] = NoFile]
        /\ UNCHANGED <<sessions, minted, timers, data, put, heard>>
        /\ UNCHANGED <<overlapped, why, gone, restarts>>
    BY DEF RemoveDir, tableVars, histVars
  <1>1. /\ tmp' \in [Dirs -> Puts \union {NoFile}] /\ tmp'[d] = NoFile
        /\ \A e \in Dirs : e # d => tmp'[e] = tmp[e]
        /\ final' \in [Dirs -> Puts \union {NoFile}] /\ final'[d] = NoFile
        /\ \A e \in Dirs : e # d => final'[e] = final[e]
    BY <1>t, <1>a DEF TypeOK
  <1>2. TypeOK'
    BY <1>t, <1>a, <1>1 DEF TypeOK
  <1>3. PutInv'
    <2>1. \A j \in Jobs : minted[j] <= minted'[j]
      BY <1>t, <1>a, StoreAssumption DEF TypeOK
    <2> QED
      BY <1>a, <1>2, <2>1, PutFrame DEF TypeOK
  <1>4. InodeInv'
    <2>1. ASSUME NEW e \in Dirs, tmp'[e] # NoFile
          PROVE  /\ e \in dirs' /\ tmp'[e] # final'[e]
                 /\ put[tmp'[e]].at \notin Unopened /\ put[tmp'[e]].dir = e
      BY <1>t, <1>a, <1>1, <2>1 DEF InodeInv, BornIn
    <2>2. ASSUME NEW e \in Dirs, final'[e] # NoFile
          PROVE  put[final'[e]].at \notin Unopened /\ put[final'[e]].dir = e
      BY <1>t, <1>1, <2>2 DEF InodeInv, BornIn
    <2> QED
      BY <1>t, <1>a, <2>1, <2>2 DEF InodeInv, BornIn
  <1>5. ShareInv'
    BY <1>t, <1>a DEF ShareInv
  <1>6. \A q \in Puts : put[q].at \in Holding =>
          put[q].dir \in Dirs /\ put[q].inode \in Puts /\ put[q].inode # NoFile
    BY <1>t, NamesAssumption DEF PutInv
  <1>7. OwnInv'
    <2> SUFFICES ASSUME NEW q \in Puts, q \notin overlapped
                 PROVE  /\ put[q].at \in Holding /\ put[q].dir \in dirs' => tmp'[put[q].dir] = put[q].inode
                        /\ put[q].at \in {"copy", "rename"} =>
                             \A b \in 1..put[q].wrote : data[put[q].inode][b] = put[q].job
                        /\ put[q].at = "missing" => put[q].dir \notin dirs'
      BY <1>a DEF OwnInv
    <2>1. put[q].at \in Holding /\ put[q].dir \in dirs' => tmp'[put[q].dir] = put[q].inode
      BY <1>t, <1>a, <1>1, <1>6 DEF OwnInv
    <2> QED
      BY <1>t, <1>a, <2>1 DEF OwnInv
  <1>8. FinalInv'
    BY <1>t, <1>a, <1>1, <1>6 DEF FinalInv
  <1>9. FinalIsWhole'
    <2> SUFFICES ASSUME NEW e \in Dirs, final'[e] # NoFile,
                        ~ \E j \in Jobs : data[final'[e]] = [b \in 1..Blocks |-> j]
                 PROVE  \E q \in overlapped : put[q].dir = e
      BY <1>a DEF FinalIsWhole, whole
    <2>1. final'[e] = final[e]
      BY <1>1
    <2>2. final[e] # NoFile /\ ~ \E j \in Jobs : whole(final[e], j)
      BY <2>1 DEF whole
    <2> QED
      BY <1>t, <2>2 DEF FinalIsWhole
  <1>10. TmpCleaned'
    BY <1>t, <1>a, <1>1 DEF TmpCleaned
  <1>11. SessionInv'
    BY <1>a, SessionFrame
  <1>12. TombstoneJustified'
    BY <1>a DEF IInv, TombstoneJustified
  <1> QED
    BY <1>2, <1>3, <1>4, <1>5, <1>7, <1>8, <1>9, <1>10, <1>11, <1>12 DEF IInv, FilesInv

(* A restart forgets the table and the handlers, and leaves the disk alone. *)
LEMMA RestartStep == ASSUME IInv, Restart PROVE IInv'
  <1>t. TypeOK /\ PutInv /\ InodeInv /\ FinalIsWhole /\ SessionInv /\ TombstoneJustified
    BY DEF IInv, FilesInv
  <1>a. /\ restarts < MaxRestarts /\ restarts' = restarts + 1
        /\ sessions' = [j \in Jobs |-> unknown] /\ timers' = [j \in Jobs |-> 0]
        /\ put' = [p \in Puts |-> IF put[p].at \in Active THEN [put[p] EXCEPT !.at = "lost"]
                                  ELSE put[p]]
        /\ UNCHANGED <<minted, dirs, tmp, final, data, heard, overlapped, why, gone>>
    BY DEF Restart, fileVars
  <1>1. ASSUME NEW p \in Puts
        PROVE  /\ put'[p] \in Request /\ put'[p].at \notin Active
               /\ put'[p].job = put[p].job /\ put'[p].token = put[p].token
               /\ put'[p].dir = put[p].dir /\ put'[p].inode = put[p].inode
               /\ put'[p].wrote = put[p].wrote
               /\ put[p].at \notin Unopened => put'[p].at \notin Unopened
               /\ put'[p].at = "none" <=> put[p].at = "none"
               /\ put[p].at = "410" => put'[p].at = "410"
    <2>t. put[p] \in Request
      BY <1>t DEF TypeOK
    <2>1. CASE put[p].at \notin Active
      BY <1>a, <2>t, <2>1
    <2>2. CASE put[p].at \in Active
      <3>1. put'[p] = [put[p] EXCEPT !.at = "lost"]
        BY <1>a, <2>2
      <3>2. [put[p] EXCEPT !.at = "lost"]
              = [at |-> "lost", job |-> put[p].job, token |-> put[p].token, dir |-> put[p].dir,
                 inode |-> put[p].inode, wrote |-> put[p].wrote]
        BY <2>t DEF Request
      <3>3. /\ put[p].job \in Jobs \union {"nojob"} /\ put[p].token \in 0..MaxRegs
            /\ put[p].dir \in Dirs \union {NoDir} /\ put[p].inode \in Puts \union {NoFile}
            /\ put[p].wrote \in 0..Blocks
        BY <2>t DEF Request
      <3>4. put'[p] \in Request
        BY <3>1, <3>2, <3>3 DEF Request, Answers
      <3>5. put'[p].at = "lost" /\ put[p].at # "none" /\ put[p].at # "410"
        BY <2>2, <3>1, <3>2 DEF Active, Holding
      <3> QED
        BY <3>1, <3>2, <3>4, <3>5 DEF Active, Holding, Unopened
    <2> QED
      BY <2>1, <2>2
  <1>2. put' \in [Puts -> Request]
    BY <1>a, <1>1
  <1>3. \A p \in Puts : /\ put'[p].at \notin Holding
                        /\ put'[p].at \notin {"arrived", "open", "touch", "copy", "rename", "missing"}
    BY <1>1 DEF Active, Holding
  <1>4. TypeOK'
    <2>1. unknown \in Session /\ 0 \in 0..MaxCloses
      BY StoreAssumption DEF unknown, Session
    <2>2. restarts' \in 0..MaxRestarts
      BY <1>t, <1>a, StoreAssumption DEF TypeOK
    <2> QED
      BY <1>t, <1>a, <1>2, <2>1, <2>2 DEF TypeOK
  <1>5. PutInv'
    <2>1. \A p \in Puts : put'[p].at \in Unopened =>
            put[p].at \in Unopened /\ put'[p].inode = NoFile /\ put'[p].wrote = 0
      BY <1>t, <1>1 DEF PutInv
    <2> QED
      BY <1>t, <1>a, <1>1, <1>3, <2>1 DEF PutInv
  <1>6. SessionInv'
    BY <1>t, <1>a DEF SessionInv, live, unknown, TypeOK
  <1>7. InodeInv'
    <2>1. \A i \in Puts, e \in Dirs \union {NoDir} : BornIn(i, e) => BornIn(i, e)'
      BY <1>1 DEF BornIn
    <2>2. \A e \in Dirs : tmp[e] \in Puts \union {NoFile} /\ final[e] \in Puts \union {NoFile}
      BY <1>t DEF TypeOK
    <2>3. \A q \in Puts : put[q].inode \in Puts \union {NoFile} /\ put[q].dir \in Dirs \union {NoDir}
      BY <1>t DEF TypeOK, Request
    <2> QED
      BY <1>t, <1>a, <1>1, <2>1, <2>2, <2>3 DEF InodeInv
  <1>8. ShareInv' /\ OwnInv' /\ FinalInv'
    BY <1>a, <1>3 DEF ShareInv, OwnInv, FinalInv
  <1>9. FinalIsWhole'
    <2>1. \A q \in overlapped : q \in Puts /\ put'[q].dir = put[q].dir
      BY <1>t, <1>1 DEF TypeOK
    <2>2. \A e \in Dirs : final[e] = NoFile \/ (\E j \in Jobs : data[final[e]] = [b \in 1..Blocks |-> j])
                         \/ \E q \in overlapped : put'[q].dir = e
      BY <1>t, <2>1 DEF FinalIsWhole, whole
    <2>3. final' = final /\ data' = data /\ overlapped' = overlapped
      BY <1>a
    <2> QED
      BY <2>2, <2>3 DEF FinalIsWhole, whole
  <1>10. TmpCleaned'
    BY <1>t, <1>a, StoreAssumption DEF TmpCleaned, TypeOK
  <1>11. TombstoneJustified'
    <2>1. \A p \in Puts : put'[p].job = put[p].job /\ put'[p].dir = put[p].dir
                          /\ (put[p].at = "410" => put'[p].at = "410")
      BY <1>1
    <2> QED
      BY <1>t, <1>a, <2>1 DEF TombstoneJustified
  <1> QED
    BY <1>4, <1>5, <1>6, <1>7, <1>8, <1>9, <1>10, <1>11 DEF IInv, FilesInv

-----------------------------------------------------------------------------
(* Every step of every actor keeps the invariant. *)
LEMMA StepIInv == IInv /\ [Next]_vars => IInv'
  <1> SUFFICES ASSUME IInv, [Next]_vars PROVE IInv'
    OBVIOUS
  <1>1. CASE Table
    BY <1>1, RegisterStep, TableStep DEF Table
  <1>2. CASE Restart
    BY <1>2, RestartStep
  <1>3. ASSUME NEW p \in Puts, Handler(p) PROVE IInv'
    BY <1>3, LookupStep, OpenStep, OpenNoDirStep, FailStep, CopyStep, DiscardStep, RenameStep,
       AfterNoEntStep, FinishStep DEF Handler
  <1>4. ASSUME NEW p \in Puts, Worker(p) PROVE IInv'
    BY <1>4, SendStep, GiveUpStep DEF Worker
  <1>5. ASSUME NEW d \in Dirs, RemoveDir(d) PROVE IInv'
    BY <1>5, RemoveDirStep
  <1>6. CASE UNCHANGED vars
    <2>1. /\ UNCHANGED <<sessions, minted, timers, dirs, tmp, final, data, fileVars, put, heard>>
          /\ UNCHANGED <<overlapped, why, gone, restarts>>
      BY <1>6 DEF vars, tableVars, fileVars, histVars
    <2>2. TypeOK'
      BY <2>1 DEF IInv, TypeOK
    <2>3. \A j \in Jobs : minted[j] <= minted'[j]
      BY <2>1, StoreAssumption DEF IInv, TypeOK
    <2>4. PutInv'
      BY <2>1, <2>2, <2>3, PutFrame DEF TypeOK
    <2> QED
      BY <2>1, <2>2, <2>4, FilesFrame, SessionFrame, ReasonFrame DEF IInv
  <1> QED
    BY <1>1, <1>2, <1>3, <1>4, <1>5, <1>6 DEF Next

(* The invariant holds throughout, for any interleaving of handlers, timers,
   directory removals and restarts (handlePutFile, reap, close). *)
THEOREM StoreInvariant == Spec => []IInv
  BY InitIInv, StepIInv, PTL DEF Spec

(* Every variable keeps its type: tokens stay within the registrations made. *)
THEOREM StoreTypeCorrect == Spec => []TypeOK
  <1>1. IInv => TypeOK
    BY DEF IInv
  <1> QED
    BY <1>1, StoreInvariant, PTL

(* Nobody reads part of a chunk under its final name, unless two requests shared
   a temporary file (handlePutFile: write, then rename). *)
THEOREM FinalAlwaysWhole == Spec => []FinalIsWhole
  <1>1. IInv => FinalIsWhole
    BY DEF IInv, FilesInv
  <1> QED
    BY <1>1, StoreInvariant, PTL

(* A session loses its directory only when the directory is gone, or when two of
   its requests shared a temporary file (putAfterDirRemoved). *)
THEOREM TombstonesJustified == Spec => []TombstoneJustified
  <1>1. IInv => TombstoneJustified
    BY DEF IInv
  <1> QED
    BY <1>1, StoreInvariant, PTL

(* While masterd runs, a temporary file belongs to a handler that is still at
   work on it (handlePutFile's error paths). *)
THEOREM TmpAlwaysCleaned == Spec => []TmpCleaned
  <1>1. IInv => TmpCleaned
    BY DEF IInv, FilesInv
  <1> QED
    BY <1>1, StoreInvariant, PTL

(* A request moves at its own handler's steps only, or is lost in a restart. *)
LEMMA OwnSteps ==
  ASSUME IInv, [Next]_vars, NEW p \in Puts, put[p].at # "none", put'[p].at # "lost"
  PROVE  Handler(p) \/ put'[p] = put[p]
  <1>t. put \in [Puts -> Request]
    BY DEF IInv, TypeOK
  <1>1. ASSUME NEW q \in Puts, q # p, Handler(q) PROVE put'[p] = put[p]
    <2>1. ASSUME NEW a, answer(q, a) PROVE put'[p] = put[p]
      BY <1>t, <1>1, <2>1 DEF answer
    <2>2. CASE OpenNoDir(q) \/ OpenFails(q) \/ CopyFails(q) \/ Discard(q) \/ rename(q)
               \/ RenameFails(q) \/ RenameNoEnt(q) \/ AfterNoEnt(q) \/ Finish(q)
      BY <2>1, <2>2 DEF OpenNoDir, dirRemoved, OpenFails, CopyFails, Discard, rename, RenameFails,
                        RenameNoEnt, AfterNoEnt, Finish
    <2>3. CASE lookup(q)
      <3>1. CASE \E a : answer(q, a)
        BY <2>1, <3>1
      <3>2. CASE put' = [put EXCEPT ![q].at = "open", ![q].dir = sessions[put[q].job].target]
        BY <1>t, <1>1, <3>2
      <3> QED
        BY <2>3, <3>1, <3>2 DEF lookup
    <2>4. CASE openTmp(q)
      BY <1>t, <1>1, <2>4 DEF openTmp
    <2>5. CASE Copy(q)
      BY <1>t, <1>1, <2>5 DEF Copy
    <2> QED
      BY <1>1, <2>2, <2>3, <2>4, <2>5 DEF Handler
  <1>2. ASSUME NEW q \in Puts, Worker(q) PROVE put'[p] = put[p]
    BY <1>t, <1>2 DEF Worker, GiveUp, Send
  <1>3. ASSUME Table PROVE put'[p] = put[p]
    BY <1>3 DEF Table, register, close, DrainOver, Expire, reap
  <1>4. ASSUME Restart PROVE put'[p].at = "lost" \/ put'[p] = put[p]
    <2>1. put'[p] = IF put[p].at \in Active THEN [put[p] EXCEPT !.at = "lost"] ELSE put[p]
      BY <1>4 DEF Restart
    <2>2. [put[p] EXCEPT !.at = "lost"].at = "lost"
      BY <1>t DEF Request
    <2> QED
      BY <2>1, <2>2
  <1>5. ASSUME NEW d \in Dirs, RemoveDir(d) PROVE put'[p] = put[p]
    BY <1>5 DEF RemoveDir
  <1> QED
    BY <1>1, <1>2, <1>3, <1>4, <1>5 DEF Next, vars

(* A registration that was answered 410 is never admitted again: its token is
   too old, or its session a tombstone (lookup, register, reap). *)
THEOREM GoneStaysGone == Spec => GoneIsFinal
  <1>1. ASSUME IInv, [Next]_vars, NEW p \in Puts, put[p].at = "arrived", put'[p].at = "open"
        PROVE  <<put[p].job, put[p].token>> \notin gone
    <2>1. lookup(p)
      <3>1. Handler(p)
        BY <1>1, OwnSteps
      <3> QED
        BY <1>1, <3>1 DEF Handler, openTmp, OpenNoDir, OpenFails, Copy, CopyFails, Discard, rename,
                          RenameFails, RenameNoEnt, AfterNoEnt, Finish
    <2>2. put[p].job \in Jobs /\ live(put[p].job) /\ sessions[put[p].job].token = put[p].token
      <3>1. ASSUME answer(p, "410") \/ answer(p, "401") PROVE FALSE
        BY <1>1, <3>1 DEF answer, IInv, TypeOK, Request
      <3> QED
        BY <1>1, <2>1, <3>1 DEF lookup, live, IInv, PutInv
    <2> QED
      BY <1>1, <2>2 DEF IInv, SessionInv
  <1>2. IInv /\ [Next]_vars =>
          [\A p \in Puts : put[p].at = "arrived" /\ put'[p].at = "open"
             => <<put[p].job, put[p].token>> \notin gone]_vars
    BY <1>1
  <1> QED
    BY <1>2, StoreInvariant, PTL DEF Spec, GoneIsFinal

(* The rename is the ACK boundary: a request that shared its temporary file with
   no other leaves exactly its own chunk behind (handlePutFile). *)
THEOREM AckLeavesOwnChunk == Spec => AckLeavesChunk
  <1>1. ASSUME IInv, [Next]_vars, NEW p \in Puts \ overlapped,
               put[p].at = "rename", put'[p].at = "touch"
        PROVE  data[final'[put[p].dir]] = [b \in 1..Blocks |-> put[p].job]
    <2>1. rename(p)
      <3>1. Handler(p)
        BY <1>1, OwnSteps
      <3>2. ~ answer(p, "discard") /\ ~ answer(p, "missing")
        BY <1>1 DEF answer, IInv, TypeOK, Request
      <3> QED
        BY <1>1, <3>1, <3>2 DEF Handler, lookup, openTmp, OpenNoDir, OpenFails, Copy, CopyFails,
                                Discard, RenameFails, RenameNoEnt, AfterNoEnt, Finish
    <2>2. put[p].dir \in Dirs /\ tmp[put[p].dir] # NoFile
      BY <1>1, <2>1 DEF rename, IInv, PutInv, Holding
    <2>3. final'[put[p].dir] = tmp[put[p].dir]
      BY <1>1, <2>1, <2>2 DEF rename, IInv, TypeOK
    <2>4. data[tmp[put[p].dir]] = [b \in 1..Blocks |-> put[p].job]
      BY <1>1, <2>2, RenamedWhole DEF whole
    <2> QED
      BY <2>2, <2>3, <2>4
  <1>2. IInv /\ [Next]_vars =>
          [\A p \in Puts \ overlapped :
             put[p].at = "rename" /\ put'[p].at = "touch"
               => whole(final'[put[p].dir], put[p].job)]_vars
    BY <1>1 DEF whole
  <1> QED
    BY <1>2, StoreInvariant, PTL DEF Spec, AckLeavesChunk

-----------------------------------------------------------------------------
(* What Plex Media Server reads under the final name changes, while that name
   stands for the same file, only at the hands of a request that shared its
   temporary file: it goes on writing to what another one has renamed. *)
PublishedFrozen ==
  [][\A d \in Dirs : final[d] # NoFile /\ data'[final[d]] # data[final[d]] =>
       \E p \in overlapped :
         put[p].at = "copy" /\ put[p].dir = d /\ put[p].inode = final[d]]_vars

(* Only a handler that opens or copies changes what an inode holds. *)
LEMMA WhoWrites ==
  ASSUME IInv, [Next]_vars, data' # data
  PROVE  \E p \in Puts : openTmp(p) \/ Copy(p)
  <1>1. ASSUME UNCHANGED vars \/ Table \/ Restart \/ (\E d \in Dirs : RemoveDir(d)) PROVE FALSE
    BY <1>1 DEF vars, fileVars, Table, register, close, DrainOver, Expire, reap, Restart, RemoveDir
  <1>2. PICK p \in Puts : Handler(p) \/ Worker(p)
    BY <1>1 DEF Next
  <1>3. CASE Worker(p)
    BY <1>3 DEF Worker, GiveUp, Send, fileVars
  <1>4. CASE Handler(p)
    BY <1>4 DEF Handler, lookup, OpenNoDir, OpenFails, CopyFails, Discard, rename, RenameFails,
                RenameNoEnt, AfterNoEnt, Finish, fileVars
  <1> QED
    BY <1>2, <1>3, <1>4

(* A chunk under its final name is not written to any more, by a request that
   opens its temporary file or by one that fills it, unless two of them met there
   (handlePutFile: O_TRUNC of the temporary name, and the copy after it). *)
THEOREM PublishedStaysFrozen == Spec => PublishedFrozen
  <1>1. ASSUME IInv, [Next]_vars, NEW d \in Dirs, final[d] # NoFile,
               data'[final[d]] # data[final[d]]
        PROVE  \E p \in overlapped :
                 put[p].at = "copy" /\ put[p].dir = d /\ put[p].inode = final[d]
    <2>1. PICK p \in Puts : openTmp(p) \/ Copy(p)
      BY <1>1, WhoWrites
    <2>2. /\ final[d] \in Puts /\ BornIn(final[d], d)
          /\ data \in [Puts -> [1..Blocks -> Jobs \union {Hole}]]
      BY <1>1, InodeDirs DEF IInv, TypeOK
    <2>3. CASE openTmp(p)
      <3> DEFINE e == put[p].dir
                 i == IF tmp[e] = NoFile THEN p ELSE tmp[e]
      <3>1. put[p].at = "open" /\ e \in Dirs /\ data' = [data EXCEPT ![i] = empty]
        <4>1. put[p].at = "open" /\ data' = [data EXCEPT ![i] = empty]
          BY <2>3 DEF openTmp
        <4>2. e \in Dirs
          BY <1>1, <4>1 DEF IInv, PutInv
        <4> QED
          BY <4>1, <4>2
      <3>2. i = final[d]
        BY <1>1, <2>2, <3>1
      <3>3. CASE tmp[e] = NoFile
        BY <2>2, <3>1, <3>2, <3>3 DEF BornIn, Unopened
      <3>4. CASE tmp[e] # NoFile
        <4>1. tmp[e] = final[d] /\ e = d
          BY <1>1, <2>2, <3>1, <3>2, <3>4, InodeDirs
        <4> QED
          BY <1>1, <3>4, <4>1 DEF IInv, FilesInv, InodeInv
      <3> QED
        BY <3>3, <3>4
    <2>4. CASE Copy(p)
      <3>1. put[p].at = "copy" /\ put[p].inode \in Puts
        <4>1. put[p].at = "copy"
          BY <2>4 DEF Copy
        <4> QED
          BY <1>1, <4>1 DEF IInv, PutInv, Holding
      <3>2. put[p].inode = final[d]
        <4> DEFINE written(k) == [data[k] EXCEPT ![put[p].wrote + 1] = put[p].job]
        <4>1. data' = [data EXCEPT ![put[p].inode] = written(put[p].inode)]
          BY <2>4 DEF Copy
        <4> HIDE DEF written
        <4> QED
          BY <1>1, <2>2, <4>1
      <3>3. BornIn(put[p].inode, put[p].dir)
        BY <1>1, <3>1, NamesAssumption DEF IInv, FilesInv, InodeInv
      <3>4. put[p].dir = d
        BY <1>1, <2>2, <3>2, <3>3, InodeDirs
      <3>5. p \in overlapped
        BY <1>1, <3>1, <3>2, <3>4 DEF IInv, FilesInv, FinalInv, Holding
      <3> QED
        BY <3>1, <3>2, <3>4, <3>5
    <2> QED
      BY <2>1, <2>3, <2>4
  <1>2. IInv /\ [Next]_vars =>
          [\A d \in Dirs : final[d] # NoFile /\ data'[final[d]] # data[final[d]] =>
             \E p \in overlapped :
               put[p].at = "copy" /\ put[p].dir = d /\ put[p].inode = final[d]]_vars
    BY <1>1
  <1> QED
    BY <1>2, StoreInvariant, PTL DEF Spec, PublishedFrozen
=============================================================================
