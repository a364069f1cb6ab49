------------------------------ MODULE JobTable ------------------------------
(***************************************************************************)
(* The daemon of internal/workerd/workerd.go around its jobs: admission,   *)
(* the job table, the job directories, the reaper, and the codec cache     *)
(* that admission looks at and every starting job tops up (CodecCache).    *)
(* The life of a job between PREPARING and its terminal state is           *)
(* WorkerJob's; here it is RUNNING.  FINISHED stands for COMPLETED and     *)
(* FAILED, whose directory is left to the reaper, and DROPPED for          *)
(* CANCELLED and LOST, whose directory finalize removes itself.            *)
(*                                                                         *)
(* Job ids are random (shim.go, randomJobID): each is posted once.  The    *)
(* answers 400, 409 and 429 change nothing and are no step.                *)
(***************************************************************************)
EXTENDS CodecCache, FiniteSets

CONSTANTS
  Jobs,       \* job ids
  MaxJobs,    \* cfg.MaxJobs
  MaxCrashes  \* bound: crashes of workerd

ASSUME TableAssumption == MaxJobs \in Nat \ {0} /\ MaxCrashes \in Nat

VARIABLES
  job,       \* d.jobs and the state of each job
  waits,     \* the run a starting job waits for
  dir,       \* the job directories that exist
  removing,  \* jobs whose finalize has yet to remove the directory
  old,       \* ids whose terminalAt, or directory, is reapAge old
  expired,   \* jobs taken out of the table, to be removed
  entries,   \* directories reapOnce has listed and not looked at
  crashes

tableVars == <<job, waits, dir, removing, old, crashes>>
reapVars  == <<expired, entries>>
vars == <<codecVars, tableVars, reapVars>>

Active   == {"PENDING", "PREPARING", "RUNNING"}
Terminal == {"FINISHED", "DROPPED"}
InTable  == Active \union Terminal

TypeOK ==
  /\ CodecTypeOK
  /\ job \in [Jobs -> InTable \union {"new", "gone"}]
  /\ waits \in [Jobs -> Runs \union {NoRun}]
  /\ dir \subseteq Jobs /\ removing \subseteq Jobs /\ old \subseteq Jobs
  /\ \A j \in Jobs : waits[j] # NoRun <=> job[j] = "PREPARING"
  /\ expired \subseteq Jobs /\ entries \subseteq Jobs
  /\ crashes \in 0..MaxCrashes

Init ==
  /\ CodecInit
  /\ job = [j \in Jobs |-> "new"] /\ waits = [j \in Jobs |-> NoRun]
  /\ dir = {} /\ removing = {} /\ old = {}
  /\ expired = {} /\ entries = {}
  /\ crashes = 0

-----------------------------------------------------------------------------
(* Admission *)

activeJobsLocked == Cardinality({j \in Jobs : job[j] \in Active})

AtCapacity == activeJobsLocked >= MaxJobs

(* handleCreateJob, 201: all of it happens under d.mu.  newJob first       *)
(* removes what is there under the id: with fresh ids, nothing.            *)
CreateJob(j) ==
  /\ job[j] = "new" /\ ~AtCapacity /\ final # NoDir
  /\ job' = [job EXCEPT ![j] = "PENDING"]
  /\ dir' = dir \union {j}
  /\ UNCHANGED <<codecVars, waits, removing, old, crashes, reapVars>>

(* 500: newJob made some of the directories and failed. *)
CreateFails(j) ==
  /\ job[j] = "new" /\ ~AtCapacity /\ final # NoDir
  /\ job' = [job EXCEPT ![j] = "gone"]
  /\ \E made \in {{}, {j}} : dir' = dir \union made
  /\ UNCHANGED <<codecVars, waits, removing, old, crashes, reapVars>>

(* 503: the cache is cold; a fetch is started in the background. *)
RefuseCold(r) ==
  /\ ~AtCapacity /\ final = NoDir
  /\ provisionBuild(r)
  /\ UNCHANGED <<onMaster, final, partial, tableVars, reapVars>>

(* POST /v1/provision *)
handleProvision(r) ==
  /\ provisionBuild(r)
  /\ UNCHANGED <<onMaster, final, partial, tableVars, reapVars>>

-----------------------------------------------------------------------------
(* A job *)

(* run: PREPARING, and the codec top-up. *)
JobSync(j, r) ==
  /\ job[j] = "PENDING"
  /\ job' = [job EXCEPT ![j] = "PREPARING"] /\ waits' = [waits EXCEPT ![j] = r]
  /\ provisionBuild(r)
  /\ UNCHANGED <<onMaster, final, partial, dir, removing, old, crashes, reapVars>>

HeldBy(r) == {j \in Jobs : waits[j] = r}

goOn(j) ==
  /\ job[j] = "PREPARING"
  /\ job' = [job EXCEPT ![j] = "RUNNING"] /\ waits' = [waits EXCEPT ![j] = NoRun]
  /\ run' = [r \in Runs |-> IF run[r].at = "done" /\ HeldBy(r) = {j} THEN Unused ELSE run[r]]
  /\ UNCHANGED <<onMaster, final, partial, prov, dir, removing, old, crashes, reapVars>>

(* provisionBuild returned nil *)
JobSynced(j) == goOn(j) /\ run[waits[j]].at = "done" /\ run[waits[j]].ok

(* It returned the fetch's error, or codecSyncWait or the job's context    *)
(* ended first: the job goes on with what is cached.                       *)
JobUnsynced(j) == goOn(j) /\ ~(run[waits[j]].at = "done" /\ run[waits[j]].ok)

(* finalize, up to the unlock: terminalAt is now. *)
Finalize(j, state) ==
  /\ job[j] = "RUNNING"
  /\ job' = [job EXCEPT ![j] = state]
  /\ removing' = IF state = "DROPPED" THEN removing \union {j} ELSE removing
  /\ old' = old \ {j}
  /\ UNCHANGED <<codecVars, waits, dir, crashes, reapVars>>

(* The end of finalize for CANCELLED and LOST. *)
RemoveDropped(j) ==
  /\ j \in removing
  /\ removing' = removing \ {j} /\ dir' = dir \ {j}
  /\ UNCHANGED <<codecVars, job, waits, old, crashes, reapVars>>

-----------------------------------------------------------------------------
(* The reaper *)

(* reapAge has passed since the job ended, or since its directory changed. *)
Ages(j) ==
  /\ j \notin old /\ (j \in dir \/ job[j] \in Terminal)
  /\ old' = old \union {j}
  /\ UNCHANGED <<codecVars, job, waits, dir, removing, crashes, reapVars>>

(* Mutant of Expired: CANCELLED and LOST jobs are forgotten. *)
ExpiredFinished == {j \in Jobs : job[j] = "FINISHED" /\ j \in old}

Expired == {j \in Jobs : job[j] \in Terminal /\ j \in old}

(* reapOnce: expired jobs leave the table, under d.mu.  Without any, the   *)
(* directories are listed at once; a round that finds nothing is no step.  *)
ReapTable ==
  /\ expired = {} /\ entries = {}
  /\ Expired # {} \/ dir # {}
  /\ expired' = Expired
  /\ job' = [j \in Jobs |-> IF j \in Expired THEN "gone" ELSE job[j]]
  /\ entries' = IF Expired = {} THEN dir ELSE {}
  /\ UNCHANGED <<codecVars, waits, dir, removing, old, crashes>>

(* After the unlock their directories are removed, and the others listed. *)
ReapRemove ==
  /\ expired # {}
  /\ dir' = dir \ expired /\ old' = old \ expired
  /\ expired' = {} /\ entries' = dir'
  /\ UNCHANGED <<codecVars, job, waits, removing, crashes>>

(* Mutant of Orphan: the table is not asked. *)
OldDir(j) == j \in dir /\ j \in old

(* One entry of the scan: no job in the table, and an old directory. *)
Orphan(j) == job[j] \notin InTable /\ j \in dir /\ j \in old

ReapEntry(j) ==
  /\ j \in entries
  /\ entries' = entries \ {j}
  /\ dir' = IF Orphan(j) THEN dir \ {j} ELSE dir
  /\ old' = IF Orphan(j) THEN old \ {j} ELSE old
  /\ UNCHANGED <<codecVars, job, waits, removing, crashes, expired>>

Reap == ReapTable \/ ReapRemove \/ \E j \in Jobs : ReapEntry(j)

-----------------------------------------------------------------------------
(* Crash and restart: the table is empty, the directories are still there. *)
Crash ==
  /\ crashes < MaxCrashes /\ crashes' = crashes + 1
  /\ CodecCrash
  /\ job' = [j \in Jobs |-> IF job[j] = "new" THEN "new" ELSE "gone"]
  /\ waits' = [j \in Jobs |-> NoRun] /\ removing' = {}
  /\ expired' = {} /\ entries' = {}
  /\ UNCHANGED <<dir, old>>

Fetch(r) == FetchStep(r) \/ EndRun(r, HeldBy(r) # {})

Codec(A) == A /\ UNCHANGED <<tableVars, reapVars>>

Next ==
  \/ \E f \in Libs : Codec(Download(f))
  \/ \E r \in Runs :
       \/ RefuseCold(r)
       \/ handleProvision(r)
       \/ Codec(Fetch(r))
  \/ \E j \in Jobs :
       \/ CreateJob(j)
       \/ CreateFails(j)
       \/ \E r \in Runs : JobSync(j, r)
       \/ JobSynced(j)
       \/ JobUnsynced(j)
       \/ \E state \in Terminal : Finalize(j, state)
       \/ RemoveDropped(j)
       \/ Ages(j)
  \/ Reap
  \/ Crash

Spec == Init /\ [][Next]_vars

(* Fairness: a fetch goes on, and ends by provisionTimeout at the latest;  *)
(* codecSyncWait ends a starting job's wait; the reaper's ticker and the   *)
(* clock run; finalize runs to its end.  Nothing says that a job ends.     *)
Fairness ==
  /\ \A r \in Runs : WF_vars(Codec(Fetch(r)))
  /\ \A j \in Jobs :
       /\ WF_vars(JobSynced(j) \/ JobUnsynced(j))
       /\ WF_vars(RemoveDropped(j))
       /\ WF_vars(Ages(j))
  /\ WF_vars(Reap)

FairSpec == Spec /\ Fairness

-----------------------------------------------------------------------------
(* Properties *)

(* The directory of an active job is there: neither the reaper, which      *)
(* removes directories after it has let go of d.mu and from a listing that *)
(* may be stale, nor another job's finalize takes it away (reapOnce).      *)
ActiveKeepsDir == \A j \in Jobs : job[j] \in Active => j \in dir

(* A starting job waits for a fetch that is over, or for the one in        *)
(* d.prov, which works: whatever ends a fetch, and whoever else gives up   *)
(* waiting for it, the jobs that share it are answered (provisionBuild).   *)
WaitAnswered ==
  \A j \in Jobs : waits[j] # NoRun =>
    \/ run[waits[j]].at = "done"
    \/ prov = waits[j] /\ run[prov].at # "unused"

(* A cold cache appears with every library of the manifest it was built    *)
(* from: callers that provision the build at the same time never publish   *)
(* each other's unfinished .partial (provisionBuild, fetchCodecs).         *)
ColdPublishWhole ==
  [][final = NoDir /\ final' # NoDir =>
       \E r \in Runs : run'[r].ok /\ \A f \in Libs : run'[r].manifest[f] <= final'[f]]_vars

(* A job that ended, failed to start or was lost in a crash leaves the     *)
(* table, and its directory goes (reapOnce, finalize).                     *)
LeftoversGo ==
  \A j \in Jobs : job[j] \in Terminal \/ (job[j] = "gone" /\ j \in dir)
                   ~> job[j] = "gone" /\ j \notin dir

(* No run stays in d.prov: a fetch that hung or failed does not keep later *)
(* callers waiting for it (provisionBuild).                                *)
RunEnds == \A r \in Runs : prov = r ~> prov # r
=============================================================================
