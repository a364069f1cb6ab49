----------------------------- MODULE CodecCache -----------------------------
(***************************************************************************)
(* The codec cache of workerd for one Plex build                           *)
(* (internal/workerd/provision.go): provisionBuild shares one fetch among  *)
(* all callers; fetchCodecs asks masterd for a manifest, assembles a cold  *)
(* cache in <build>.partial and renames it as one unit, or tops up a warm  *)
(* one in place, file by file.  Plex Media Server adds codec libraries to  *)
(* the master while all this goes on, and workerd may crash at any time.   *)
(*                                                                         *)
(* A library's contents are abstracted to how much of it there is, which   *)
(* stands for its size and its sha256 sum alike.  A download becomes       *)
(* visible under the library's own name only by the rename at its end, so  *)
(* it is one step; what a crash leaves under <name>.fetching is never      *)
(* read.  The manifest's files are fetched in any order.                   *)
(***************************************************************************)
EXTENDS Naturals

CONSTANTS
  Libs,     \* names of codec libraries
  Runs,     \* provisionRun values and the goroutines that serve them
  NoRun,    \* d.prov has no run for the build
  NoDir     \* the directory does not exist

VARIABLES
  onMaster, \* what the master's Codecs directory holds
  final,    \* <data_dir>/codecs/<build>
  partial,  \* <data_dir>/codecs/<build>.partial
  prov,     \* d.prov[build]
  run       \* the runs

codecVars == <<onMaster, final, partial, prov, run>>

Absent == 0
Part   == 1   \* Plex Media Server is still downloading it
Whole  == 2
Torn   == 3   \* a body cut short on the wire: matches no manifest

Published == {Absent, Part, Whole}
Dir       == [Libs -> Published \union {Torn}]
EmptyDir  == [f \in Libs |-> Absent]

ASSUME CodecAssumption == NoRun \notin Runs /\ NoDir \notin Dir

Run == [at: {"unused", "manifest", "decide", "files", "ending", "done"},
        manifest: [Libs -> Published], todo: SUBSET Libs, cold: BOOLEAN, ok: BOOLEAN]

Unused == [at |-> "unused", manifest |-> EmptyDir, todo |-> {}, cold |-> FALSE,
           ok |-> FALSE]

CodecTypeOK ==
  /\ onMaster \in [Libs -> Published]
  /\ final \in Dir \union {NoDir} /\ partial \in Dir \union {NoDir}
  /\ prov \in Runs \union {NoRun}
  /\ run \in [Runs -> Run]
  /\ prov # NoRun => run[prov].at \notin {"unused", "done"}

CodecInit ==
  /\ onMaster \in [Libs -> {Absent, Whole}]
  /\ final = NoDir /\ partial = NoDir
  /\ prov = NoRun /\ run = [r \in Runs |-> Unused]

-----------------------------------------------------------------------------
(* The master *)

(* Plex Media Server downloads a library it needs for the first time. *)
Download(f) ==
  /\ \E v \in {Part, Whole} : onMaster[f] < v /\ onMaster' = [onMaster EXCEPT ![f] = v]
  /\ UNCHANGED <<final, partial, prov, run>>

(* codecCache.manifest: a fresh scan of the directory.  The memoized sums  *)
(* are keyed by size and time, so they are the sums of what is there.      *)
Manifest == onMaster

-----------------------------------------------------------------------------
(* The shared fetch *)

(* A new provisionRun.  Any unused one will do. *)
NewRun == CHOOSE r \in Runs : run[r].at = "unused"

(* Mutant of provisionBuild: callers do not share a run. *)
provisionEach(r) ==
  /\ run[r].at = "unused" /\ r = NewRun
  /\ prov' = r
  /\ run' = [run EXCEPT ![r].at = "manifest"]

(* provisionBuild: the run a caller waits for, r.  A new one is registered *)
(* under provMu when there is none.                                        *)
provisionBuild(r) ==
  \/ prov = r /\ UNCHANGED <<prov, run>>
  \/ /\ prov = NoRun
     /\ run[r].at = "unused" /\ r = NewRun
     /\ prov' = r
     /\ run' = [run EXCEPT ![r].at = "manifest"]

(* Mutant of EndRun: a failed run is never taken out of d.prov. *)
EndRunOnSuccess(r, held) ==
  /\ run[r].at = "ending"
  /\ run' = [run EXCEPT ![r] = IF held THEN [@ EXCEPT !.at = "done"] ELSE Unused]
  /\ prov' = IF run[r].ok THEN NoRun ELSE prov
  /\ UNCHANGED <<onMaster, final, partial>>

(* Mutant of EndRun: the run is dropped, and its done is never closed. *)
EndRunUnannounced(r, held) ==
  /\ run[r].at = "ending"
  /\ run' = [run EXCEPT ![r] = Unused]
  /\ prov' = NoRun
  /\ UNCHANGED <<onMaster, final, partial>>

(* The goroutine of a run, once fetchCodecs is over, takes it out of       *)
(* d.prov and closes done.  A run that no caller holds is garbage.         *)
EndRun(r, held) ==
  /\ run[r].at = "ending"
  /\ run' = [run EXCEPT ![r] = IF held THEN [@ EXCEPT !.at = "done"] ELSE Unused]
  /\ prov' = NoRun
  /\ UNCHANGED <<onMaster, final, partial>>

GetManifest(r) ==
  /\ run[r].at = "manifest"
  /\ run' = [run EXCEPT ![r].at = "decide", ![r].manifest = Manifest,
                        ![r].todo = {f \in Libs : Manifest[f] # Absent}]
  /\ UNCHANGED <<onMaster, final, partial, prov>>

(* Warm or cold: a cold cache starts from an empty .partial. *)
Decide(r) ==
  /\ run[r].at = "decide"
  /\ run' = [run EXCEPT ![r].at = "files", ![r].cold = (final = NoDir)]
  /\ partial' = IF final = NoDir THEN EmptyDir ELSE partial
  /\ UNCHANGED <<onMaster, final, prov>>

(* Mutant of UpToDate: the size is not compared. *)
Present(r, f) == ~run[r].cold /\ final[f] # Absent

(* syncCodecs skips a library whose size is the manifest's. *)
UpToDate(r, f) == ~run[r].cold /\ final[f] = run[r].manifest[f]

SkipFile(r, f) ==
  /\ run[r].at = "files" /\ f \in run[r].todo /\ UpToDate(r, f)
  /\ run' = [run EXCEPT ![r].todo = @ \ {f}]
  /\ UNCHANGED <<onMaster, final, partial, prov>>

(* fetchCodecs returns nil or an error.  Only what a nil vouches for is    *)
(* remembered: the manifest.                                               *)
Ended(r, ok) ==
  [run EXCEPT ![r] = [Unused EXCEPT !.at = "ending", !.ok = ok,
                                    !.manifest = IF ok THEN run[r].manifest ELSE @]]

(* Mutant of Verified: the body is taken as it comes. *)
Unverified(r, f, got) == TRUE

(* Size and sum of the body against the manifest's. *)
Verified(r, f, got) == got = run[r].manifest[f]

(* The directory a file is renamed into; MkdirAll makes it if need be. *)
Dest(r) == IF ~run[r].cold THEN final ELSE IF partial = NoDir THEN EmptyDir ELSE partial

fetchCodecFile(r, f) ==
  /\ run[r].at = "files" /\ f \in run[r].todo /\ ~UpToDate(r, f)
  /\ \E got \in {onMaster[f], Torn} :
       LET into == [Dest(r) EXCEPT ![f] = got]
       IN IF Verified(r, f, got)
          THEN /\ run' = [run EXCEPT ![r].todo = @ \ {f}]
               /\ partial' = IF run[r].cold THEN into ELSE partial
               /\ final'   = IF run[r].cold THEN final ELSE into
          ELSE run' = Ended(r, FALSE) /\ UNCHANGED <<final, partial>>
  /\ UNCHANGED <<onMaster, prov>>

(* Every file is there: the cold cache appears under its name at once.  If *)
(* another fetch was first, its cache is kept.                             *)
Publish(r) ==
  /\ run[r].at = "files" /\ run[r].todo = {}
  /\ run' = Ended(r, TRUE)
  /\ final'   = IF run[r].cold /\ final = NoDir THEN partial ELSE final
  /\ partial' = IF run[r].cold THEN NoDir ELSE partial
  /\ UNCHANGED <<onMaster, prov>>

(* A request fails or provisionTimeout expires, or the file system refuses. *)
FetchFails(r) ==
  /\ run[r].at \in {"manifest", "decide", "files"}
  /\ run' = Ended(r, FALSE)
  /\ UNCHANGED <<onMaster, final, partial, prov>>

FetchStep(r) ==
  \/ GetManifest(r) \/ Decide(r) \/ Publish(r) \/ FetchFails(r)
  \/ \E f \in Libs : SkipFile(r, f) \/ fetchCodecFile(r, f)

(* The process is gone; its files stay. *)
CodecCrash ==
  /\ prov' = NoRun /\ run' = [r \in Runs |-> Unused]
  /\ UNCHANGED <<onMaster, final, partial>>

-----------------------------------------------------------------------------
(* Properties *)

(* What a transcoder may load from the cache is what the master had at     *)
(* some time: no body cut short on the wire is ever renamed into place     *)
(* (fetchCodecFile), in a cold cache or in one that is topped up while     *)
(* jobs run.                                                               *)
CacheClean == final # NoDir => \A f \in Libs : final[f] <= onMaster[f]

(* A fetch that returned nil (fetchCodecs, and through provisionBuild all  *)
(* who share it) vouches for its manifest: each library of it is cached,   *)
(* at least as much of it as the manifest listed, for as long as a caller  *)
(* may still look at the result.                                           *)
VouchedCached ==
  \A r \in Runs : run[r].ok =>
    final # NoDir /\ \A f \in Libs : run[r].manifest[f] <= final[f]
=============================================================================
