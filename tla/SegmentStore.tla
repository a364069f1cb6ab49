---------------------------- MODULE SegmentStore ----------------------------
(***************************************************************************)
(* The segment plane of the master (internal/masterd/sessions.go): the     *)
(* session table with its TTL, its drain timers and its tombstones, and    *)
(* the PUT handler that writes a chunk to a temporary file and renames it  *)
(* into the session's directory.  One file name is followed, in every      *)
(* target directory: handlers of different names share nothing but the     *)
(* table.  Files are inodes, as the handler's calls see them: a file open  *)
(* for writing keeps its inode whatever becomes of its name.               *)
(*                                                                         *)
(* Time is abstracted: a TTL, a drain window or a retention may end as     *)
(* soon as it began.                                                       *)
(***************************************************************************)
EXTENDS Naturals, FiniteSets

CONSTANTS
  Jobs,         \* session ids
  Dirs,         \* target directories, all under the transcode root
  Puts,         \* PUT requests; a request also names the inode it creates
  Blocks,       \* a chunk is written in Blocks writes
  MaxRegs,      \* registrations (bound)
  MaxCloses,    \* drain timers pending for one job id (bound)
  MaxRestarts   \* restarts of masterd (bound)

ASSUME StoreAssumption ==
  /\ Blocks \in Nat \ {0}
  /\ MaxRegs \in Nat /\ MaxCloses \in Nat /\ MaxRestarts \in Nat

VARIABLES
  sessions,     \* the table: the state, token, directory and TTL of each id
  minted,       \* push tokens minted for each id
  timers,       \* drain timers pending for each id
  dirs,         \* directories that exist
  tmp, final,   \* the inode behind each name, in each directory
  data,         \* what each inode holds, block by block
  put,          \* the PUT handlers
  heard,        \* requests whose client still waits for the answer
  overlapped,   \* requests that shared their temporary file (history)
  why,          \* the reason of each id's last tombstone (history)
  gone,         \* registrations a PUT was answered 410 for (history)
  restarts      \* restarts so far

tableVars == <<sessions, minted, timers>>
fileVars  == <<dirs, tmp, final, data>>
histVars  == <<overlapped, why, gone, restarts>>
vars == <<tableVars, fileVars, put, heard, histVars>>

-----------------------------------------------------------------------------
NoFile == "nofile"
Hole   == "hole"
NoDir  == "nodir"

ASSUME NamesAssumption == IsFiniteSet(Jobs) /\ NoFile \notin Puts

Holding == {"copy", "rename", "discard", "missing"}  \* may still touch the tmp name
Answers == {"200", "401", "410", "500", "lost"}
Active  == {"arrived", "open", "touch"} \union Holding
Reasons == {"none", "expired", "closed", "dirgone"}

Session == [state : {"unknown", "live", "gone"}, token : 0..MaxRegs,
            target : Dirs \union {NoDir}, stale : BOOLEAN]
Request == [at : {"none"} \union Active \union Answers, job : Jobs \union {"nojob"},
            token : 0..MaxRegs, dir : Dirs \union {NoDir},
            inode : Puts \union {NoFile}, wrote : 0..Blocks]

unknown == [state |-> "unknown", token |-> 0, target |-> NoDir, stale |-> FALSE]
unsent  == [at |-> "none", job |-> "nojob", token |-> 0, dir |-> NoDir,
            inode |-> NoFile, wrote |-> 0]
empty   == [b \in 1..Blocks |-> Hole]

TypeOK ==
  /\ sessions \in [Jobs -> Session]
  /\ minted \in [Jobs -> 0..MaxRegs]
  /\ timers \in [Jobs -> 0..MaxCloses]
  /\ dirs \subseteq Dirs
  /\ tmp \in [Dirs -> Puts \union {NoFile}]
  /\ final \in [Dirs -> Puts \union {NoFile}]
  /\ data \in [Puts -> [1..Blocks -> Jobs \union {Hole}]]
  /\ put \in [Puts -> Request]
  /\ heard \subseteq Puts
  /\ overlapped \subseteq Puts
  /\ why \in [Jobs -> Reasons]
  /\ gone \subseteq Jobs \X (0..MaxRegs)
  /\ restarts \in 0..MaxRestarts

Init ==
  /\ sessions = [j \in Jobs |-> unknown]
  /\ minted = [j \in Jobs |-> 0]
  /\ timers = [j \in Jobs |-> 0]
  /\ dirs = Dirs
  /\ tmp = [d \in Dirs |-> NoFile]
  /\ final = [d \in Dirs |-> NoFile]
  /\ data = [p \in Puts |-> empty]
  /\ put = [p \in Puts |-> unsent]
  /\ heard = {} /\ overlapped = {} /\ gone = {}
  /\ why = [j \in Jobs |-> "none"]
  /\ restarts = 0

-----------------------------------------------------------------------------
(* The session table *)

live(j) == sessions[j].state = "live"

(* register: a fresh record, whatever was there, under a freshly minted token.
   Two ids may share a directory: that is a quality switch. *)
register_SameToken(j, d) ==  \* mutant: registering again keeps the token
  /\ Cardinality({r \in Jobs \X (1..MaxRegs) : r[2] <= minted[r[1]]}) < MaxRegs
  /\ minted' = [minted EXCEPT ![j] = 1]
  /\ sessions' = [sessions EXCEPT ![j] =
       [state |-> "live", token |-> 1, target |-> d, stale |-> FALSE]]
  /\ UNCHANGED <<timers, fileVars, put, heard, histVars>>

register(j, d) ==
  /\ Cardinality({r \in Jobs \X (1..MaxRegs) : r[2] <= minted[r[1]]}) < MaxRegs
  /\ minted' = [minted EXCEPT ![j] = @ + 1]
  /\ sessions' = [sessions EXCEPT ![j] =
       [state |-> "live", token |-> minted[j] + 1, target |-> d, stale |-> FALSE]]
  /\ UNCHANGED <<timers, fileVars, put, heard, histVars>>

(* tombstone: only a live session, and for good. *)
tombstone(j, reason) ==
  IF live(j)
  THEN /\ sessions' = [sessions EXCEPT ![j].state = "gone"]
       /\ why' = [why EXCEPT ![j] = reason]
  ELSE UNCHANGED <<sessions, why>>

(* close: DELETE arms a timer for the id, not for the registration. *)
close(j) ==
  /\ live(j)
  /\ timers[j] < MaxCloses
  /\ timers' = [timers EXCEPT ![j] = @ + 1]
  /\ UNCHANGED <<sessions, minted, fileVars, put, heard, histVars>>

DrainOver(j) ==
  /\ timers[j] > 0
  /\ timers' = [timers EXCEPT ![j] = @ - 1]
  /\ tombstone(j, "closed")
  /\ UNCHANGED <<minted, fileVars, put, heard, overlapped, gone, restarts>>

(* The TTL of a live session ends untouched. *)
Expire(j) ==
  /\ live(j) /\ ~sessions[j].stale
  /\ sessions' = [sessions EXCEPT ![j].stale = TRUE]
  /\ UNCHANGED <<minted, timers, fileVars, put, heard, histVars>>

(* reap: expired sessions become tombstones; tombstones whose retention is over
   (any of them may be) are deleted. *)
reap ==
  LET expired == {j \in Jobs : live(j) /\ sessions[j].stale} IN
  \E purged \in SUBSET {j \in Jobs : sessions[j].state = "gone"} :
    /\ expired \union purged # {}
    /\ sessions' = [j \in Jobs |->
         IF j \in purged THEN unknown
         ELSE IF j \in expired THEN [sessions[j] EXCEPT !.state = "gone"]
         ELSE sessions[j]]
    /\ why' = [j \in Jobs |-> IF j \in expired THEN "expired" ELSE why[j]]
    /\ UNCHANGED <<minted, timers, fileVars, put, heard, overlapped, gone, restarts>>

touch(j) == IF live(j) THEN [sessions EXCEPT ![j].stale = FALSE] ELSE sessions

-----------------------------------------------------------------------------
(* The worker (pushFile): one PUT of the chunk at a time, sent again when the
   answer was an error or did not come in time.  Plex Media Server deletes the
   directory of a session it abandoned. *)

(* No retry while an answer is awaited, and none after an ACK or a 410. *)
mayRetry(j) ==
  \A p \in heard : put[p].job = j => put[p].at \in {"401", "500", "lost"}

Send(p, j) ==
  /\ put[p].at = "none"
  /\ minted[j] > 0
  /\ mayRetry(j)
  /\ put' = [put EXCEPT ![p] = [unsent EXCEPT !.at = "arrived", !.job = j,
                                              !.token = minted[j]]]
  /\ heard' = heard \union {p}
  /\ UNCHANGED <<tableVars, fileVars, histVars>>

(* The attempt times out at the worker; the handler does not know yet. *)
GiveUp(p) ==
  /\ p \in heard /\ put[p].at \in Active
  /\ heard' = heard \ {p}
  /\ UNCHANGED <<tableVars, fileVars, put, histVars>>

RemoveDir(d) ==
  /\ d \in dirs
  /\ dirs' = dirs \ {d}
  /\ tmp' = [tmp EXCEPT ![d] = NoFile]
  /\ final' = [final EXCEPT ![d] = NoFile]
  /\ UNCHANGED <<tableVars, data, put, heard, histVars>>

-----------------------------------------------------------------------------
(* handlePutFile *)

answer(p, a) == put' = [put EXCEPT ![p].at = a]
goneNow(p) == gone' = gone \union {<<put[p].job, put[p].token>>}

lookup(p) ==
  LET s == sessions[put[p].job] IN
  /\ put[p].at = "arrived"
  /\ IF s.state # "live" THEN answer(p, "410") /\ goneNow(p)
     ELSE IF s.token # put[p].token THEN answer(p, "401") /\ UNCHANGED gone
     ELSE /\ put' = [put EXCEPT ![p].at = "open", ![p].dir = s.target]
          /\ UNCHANGED gone
  /\ UNCHANGED <<tableVars, fileVars, heard, overlapped, why, restarts>>

(* putAfterDirRemoved *)
dirRemoved(p) ==
  /\ answer(p, "410")
  /\ goneNow(p)
  /\ tombstone(put[p].job, "dirgone")

openTmp_InPlace(p) ==  \* mutant: writes under the final name
  LET d == put[p].dir
      inode == IF final[d] = NoFile THEN p ELSE final[d] IN
  /\ put[p].at = "open" /\ d \in dirs
  /\ tmp' = [tmp EXCEPT ![d] = inode]
  /\ final' = [final EXCEPT ![d] = inode]
  /\ data' = [data EXCEPT ![inode] = empty]
  /\ put' = [put EXCEPT ![p].at = "copy", ![p].inode = inode]
  /\ UNCHANGED <<tableVars, dirs, heard, histVars>>

(* O_CREATE|O_TRUNC: a new inode, or the emptied one of the same name. *)
openTmp(p) ==
  LET d == put[p].dir
      inode == IF tmp[d] = NoFile THEN p ELSE tmp[d]
      others == {q \in Puts \ {p} : put[q].at \in Holding /\ put[q].dir = d}
  IN
  /\ put[p].at = "open" /\ d \in dirs
  /\ tmp' = [tmp EXCEPT ![d] = inode]
  /\ data' = [data EXCEPT ![inode] = empty]
  /\ put' = [put EXCEPT ![p].at = "copy", ![p].inode = inode]
  /\ overlapped' = IF others = {} THEN overlapped ELSE overlapped \union others \union {p}
  /\ UNCHANGED <<tableVars, dirs, final, heard, why, gone, restarts>>

OpenNoDir(p) ==
  /\ put[p].at = "open" /\ put[p].dir \notin dirs
  /\ dirRemoved(p)
  /\ UNCHANGED <<minted, timers, fileVars, heard, overlapped, restarts>>

OpenFails_AsGone(p) ==  \* mutant: every open error is a removed directory
  /\ put[p].at = "open"
  /\ dirRemoved(p)
  /\ UNCHANGED <<minted, timers, fileVars, heard, overlapped, restarts>>

OpenFails(p) ==
  /\ put[p].at = "open"
  /\ answer(p, "500")
  /\ UNCHANGED <<tableVars, fileVars, heard, histVars>>

Copy(p) ==
  LET b == put[p].wrote + 1 IN
  /\ put[p].at = "copy"
  /\ data' = [data EXCEPT ![put[p].inode][b] = put[p].job]
  /\ put' = [put EXCEPT ![p].wrote = b,
                        ![p].at = IF b = Blocks THEN "rename" ELSE "copy"]
  /\ UNCHANGED <<tableVars, dirs, tmp, final, heard, histVars>>

CopyFails_Ignored(p) ==  \* mutant: a failed copy is renamed all the same
  /\ put[p].at = "copy"
  /\ answer(p, "rename")
  /\ UNCHANGED <<tableVars, fileVars, heard, histVars>>

(* The body or the disk failed, or the client hung up: remove the name. *)
CopyFails(p) ==
  /\ put[p].at = "copy"
  /\ answer(p, "discard")
  /\ UNCHANGED <<tableVars, fileVars, heard, histVars>>

removeTmp(d) == tmp' = [tmp EXCEPT ![d] = NoFile]

Discard_Nothing(p) ==  \* mutant: a failed copy leaves its temporary file
  /\ put[p].at = "discard"
  /\ answer(p, "500")
  /\ UNCHANGED <<tableVars, fileVars, heard, histVars>>

Discard(p) ==
  /\ put[p].at = "discard"
  /\ removeTmp(put[p].dir)
  /\ answer(p, "500")
  /\ UNCHANGED <<tableVars, dirs, final, data, heard, histVars>>

rename(p) ==
  LET d == put[p].dir IN
  /\ put[p].at = "rename" /\ tmp[d] # NoFile
  /\ final' = [final EXCEPT ![d] = tmp[d]]
  /\ removeTmp(d)
  /\ answer(p, "touch")
  /\ UNCHANGED <<tableVars, dirs, data, heard, histVars>>

(* Any other error of the close or the rename ends like a failed copy. *)
RenameFails(p) ==
  /\ put[p].at = "rename"
  /\ answer(p, "discard")
  /\ UNCHANGED <<tableVars, fileVars, heard, histVars>>

(* ENOENT: the name is removed for good measure, and the error is taken for a
   deleted directory. *)
RenameNoEnt(p) ==
  /\ put[p].at = "rename" /\ tmp[put[p].dir] = NoFile
  /\ answer(p, "missing")
  /\ UNCHANGED <<tableVars, fileVars, heard, histVars>>

AfterNoEnt(p) ==
  /\ put[p].at = "missing"
  /\ removeTmp(put[p].dir)
  /\ dirRemoved(p)
  /\ UNCHANGED <<minted, timers, dirs, final, data, heard, overlapped, restarts>>

(* touch, then 200. *)
Finish(p) ==
  /\ put[p].at = "touch"
  /\ sessions' = touch(put[p].job)
  /\ answer(p, "200")
  /\ UNCHANGED <<minted, timers, fileVars, heard, histVars>>

(* masterd restarts: the table and its timers are in memory only. *)
Restart ==
  /\ restarts < MaxRestarts
  /\ restarts' = restarts + 1
  /\ sessions' = [j \in Jobs |-> unknown]
  /\ timers' = [j \in Jobs |-> 0]
  /\ put' = [p \in Puts |-> IF put[p].at \in Active THEN [put[p] EXCEPT !.at = "lost"]
                            ELSE put[p]]
  /\ UNCHANGED <<minted, fileVars, heard, overlapped, why, gone>>

-----------------------------------------------------------------------------
Handler(p) == \/ lookup(p) \/ openTmp(p) \/ OpenNoDir(p) \/ OpenFails(p) \/ Copy(p)
              \/ CopyFails(p) \/ Discard(p) \/ rename(p) \/ RenameFails(p)
              \/ RenameNoEnt(p) \/ AfterNoEnt(p) \/ Finish(p)

Worker(p) == GiveUp(p) \/ \E j \in Jobs : Send(p, j)

Table == \/ \E j \in Jobs : \/ \E d \in Dirs : register(j, d)
                            \/ close(j) \/ DrainOver(j) \/ Expire(j)
         \/ reap

Next == \/ Table \/ Restart
        \/ \E p \in Puts : Handler(p) \/ Worker(p)
        \/ \E d \in Dirs : RemoveDir(d)

Spec == Init /\ [][Next]_vars

-----------------------------------------------------------------------------
(* Safety *)

whole(inode, j) == data[inode] = [b \in 1..Blocks |-> j]

(* The rename is the ACK boundary: unless two requests shared a temporary file,
   a request that passes it leaves exactly its own chunk under the final name. *)
AckLeavesChunk ==
  [][\A p \in Puts \ overlapped :
       put[p].at = "rename" /\ put'[p].at = "touch"
         => whole(final'[put[p].dir], put[p].job)]_vars

(* The final name never shows part of a chunk, whatever fails in between, while
   no two requests shared a temporary file in that directory. *)
FinalIsWhole ==
  \A d \in Dirs :
    \/ final[d] = NoFile
    \/ \E j \in Jobs : whole(final[d], j)
    \/ \E p \in overlapped : put[p].dir = d

(* A session is tombstoned as "directory removed" only when it is, or when one
   of its requests lost its temporary file to another: ENOENT does not tell
   the two apart (see AckIsGroundTruth for what sharing it does). *)
TombstoneJustified ==
  \A j \in Jobs : why[j] = "dirgone" =>
    \E p \in Puts : /\ put[p].job = j /\ put[p].at = "410"
                    /\ put[p].dir \notin dirs \/ p \in overlapped

(* 410 is final: once a registration was answered 410, no later request of it
   is admitted, across reaping, purging, restarts and re-registration. *)
GoneIsFinal ==
  [][\A p \in Puts : put[p].at = "arrived" /\ put'[p].at = "open"
       => <<put[p].job, put[p].token>> \notin gone]_vars

(* A handler that ends, however it ends, leaves no temporary file behind (a
   restart of masterd may). *)
TmpCleaned ==
  restarts = 0 => \A d \in Dirs :
    tmp[d] # NoFile => \E p \in Puts : put[p].at \in Holding /\ put[p].dir = d

(* What the sources say and the code does not keep: see the README. *)

(* "that ACK is the chunk-before-announce ground truth" (handlePutFile): a
   request that passes the rename leaves its own chunk under the final name. *)
AckIsGroundTruth ==
  [][\A p \in Puts :
       put[p].at = "rename" /\ put'[p].at = "touch"
         => whole(final'[put[p].dir], put[p].job)]_vars
=============================================================================
