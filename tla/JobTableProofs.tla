--------------------------- MODULE JobTableProofs ---------------------------
(***************************************************************************)
(* JobTable and CodecCache, proved for any set of libraries, fetches and   *)
(* jobs, any cfg.MaxJobs and any number of crashes: types, what the codec  *)
(* cache holds and vouches for, and that no active job loses its directory.*)
(***************************************************************************)
EXTENDS JobTable, FiniteSetTheorems, TLAPS

-----------------------------------------------------------------------------
(* The inductive invariant of the codec cache.  CacheClean and VouchedCached
   speak of <build> alone; they last because one fetch at a time writes there,
   and because its manifest is younger than everything in the directory. *)

Working == {"manifest", "decide", "files", "ending"}

(* d.prov lets one fetch work at a time. *)
OneWorks == \A r \in Runs : run[r].at \in Working => prov = r

(* What has been listed, or assembled in .partial, the master had. *)
FromMaster ==
  /\ \A r \in Runs : \A f \in Libs : run[r].manifest[f] <= onMaster[f]
  /\ partial # NoDir => \A f \in Libs : partial[f] <= onMaster[f]

(* Only a fetch that is over has a result. *)
ResultAtEnd == \A r \in Runs : run[r].ok => run[r].at \in {"ending", "done"}

(* No library of <build> is more complete than the manifest of the fetch that
   works says: a top-up never takes back what an earlier fetch vouched for. *)
FreshManifest ==
  \A r \in Runs : run[r].at \in {"decide", "files"} /\ final # NoDir =>
    \A f \in Libs : final[f] <= run[r].manifest[f]

(* todo starts with the whole manifest; a fetch that is through with a library
   has it in the directory it fills, and <build> is there from the start or not
   before the end. *)
Assembled ==
  \A r \in Runs :
    /\ run[r].at = "decide" =>
         \A f \in Libs \ run[r].todo : run[r].manifest[f] = Absent
    /\ run[r].at = "files" /\ run[r].cold =>
         /\ final = NoDir /\ partial # NoDir
         /\ \A f \in Libs \ run[r].todo : run[r].manifest[f] <= partial[f]
    /\ run[r].at = "files" /\ ~run[r].cold =>
         /\ final # NoDir
         /\ \A f \in Libs \ run[r].todo : run[r].manifest[f] <= final[f]

CacheInv == /\ CodecTypeOK
            /\ OneWorks
            /\ FromMaster
            /\ ResultAtEnd
            /\ FreshManifest
            /\ Assembled
            /\ CacheClean
            /\ VouchedCached

(* The job table: whatever is on its way to be removed, by finalize or by the
   reaper, is the directory of a job that has ended. *)
Doomed == \A j \in removing \union expired : job[j] \in Terminal \union {"gone"}

TableInv == Doomed /\ ActiveKeepsDir

IInv == TypeOK /\ CacheInv /\ TableInv

-----------------------------------------------------------------------------
(* No file is there at the start, and no fetch has begun. *)
LEMMA InitIInv == Init => IInv
  <1> SUFFICES ASSUME Init PROVE IInv
    OBVIOUS
  <1>1. Unused \in Run
    BY DEF Unused, Run, EmptyDir, Published, Absent
  <1>2. CodecTypeOK
    BY <1>1 DEF Init, CodecInit, CodecTypeOK, Published, Absent, Part, Whole
  <1>3. TypeOK
    BY <1>2, TableAssumption, CodecAssumption DEF Init, TypeOK
  <1>4. OneWorks /\ ResultAtEnd /\ FreshManifest /\ Assembled /\ CacheClean /\ VouchedCached
    BY DEF Init, CodecInit, OneWorks, Working, ResultAtEnd, FreshManifest, Assembled,
           CacheClean, VouchedCached, Unused
  <1>5. FromMaster
    BY DEF Init, CodecInit, FromMaster, Unused, EmptyDir, Absent, Whole
  <1>6. TableInv
    BY DEF Init, TableInv, Doomed, ActiveKeepsDir, Active
  <1> QED
    BY <1>2, <1>3, <1>4, <1>5, <1>6 DEF IInv, CacheInv

-----------------------------------------------------------------------------
(* Steps of the codec cache. *)

(* A run that has not begun is a run. *)
LEMMA UnusedType == Unused \in Run
  BY DEF Unused, Run, EmptyDir, Published, Absent

(* Steps that leave the cache alone. *)
LEMMA CacheFrame == CacheInv /\ UNCHANGED codecVars => CacheInv'
  BY DEF CacheInv, codecVars, CodecTypeOK, OneWorks, FromMaster, ResultAtEnd, FreshManifest,
         Assembled, CacheClean, VouchedCached

(* The master only gains. *)
LEMMA DownloadStep == ASSUME CacheInv, NEW f \in Libs, Download(f) PROVE CacheInv'
  <1> USE DEF CacheInv, Download
  <1>1. PICK v \in {Part, Whole} : onMaster[f] < v /\ onMaster' = [onMaster EXCEPT ![f] = v]
    OBVIOUS
  <1>2. onMaster \in [Libs -> Published] /\ onMaster' \in [Libs -> Published]
    BY <1>1 DEF CodecTypeOK, Published, Part, Whole, Absent
  <1>3. \A g \in Libs : onMaster[g] <= onMaster'[g]
    BY <1>1, <1>2 DEF Published, Part, Whole, Absent
  <1>4. CodecTypeOK'
    BY <1>2 DEF CodecTypeOK
  <1>5. OneWorks' /\ ResultAtEnd' /\ FreshManifest' /\ Assembled' /\ VouchedCached'
    BY DEF OneWorks, ResultAtEnd, FreshManifest, Assembled, VouchedCached
  <1>6. \A n, m, k \in Published \union {Torn} : n <= m /\ m <= k => n <= k
    BY DEF Published, Absent, Part, Whole, Torn
  <1>7. FromMaster'
    <2>1. ASSUME NEW r \in Runs, NEW g \in Libs PROVE run[r].manifest[g] <= onMaster'[g]
      <3>1. run[r].manifest[g] \in Published
        BY DEF CodecTypeOK, Run
      <3> QED
        BY <1>2, <1>3, <1>6, <3>1 DEF FromMaster
    <2>2. ASSUME partial # NoDir, NEW g \in Libs PROVE partial[g] <= onMaster'[g]
      <3>1. partial[g] \in Published \union {Torn}
        BY <2>2 DEF CodecTypeOK, Dir
      <3> QED
        BY <1>2, <1>3, <1>6, <2>2, <3>1 DEF FromMaster
    <2> QED
      BY <2>1, <2>2 DEF FromMaster
  <1>8. CacheClean'
    <2> SUFFICES ASSUME final # NoDir, NEW g \in Libs PROVE final[g] <= onMaster'[g]
      BY DEF CacheClean
    <2>1. final[g] \in Published \union {Torn}
      BY DEF CodecTypeOK, Dir
    <2> QED
      BY <1>2, <1>3, <1>6, <2>1 DEF CacheClean
  <1> QED
    BY <1>4, <1>5, <1>7, <1>8

(* A caller joins the fetch of the build, or starts the only one. *)
LEMMA ProvisionStep ==
  ASSUME CacheInv, NEW r \in Runs, provisionBuild(r), UNCHANGED <<onMaster, final, partial>>
  PROVE  CacheInv'
  <1>1. CASE UNCHANGED <<prov, run>>
    BY <1>1, CacheFrame DEF codecVars
  <1>2. CASE /\ prov = NoRun /\ run[r].at = "unused" /\ prov' = r
             /\ run' = [run EXCEPT ![r].at = "manifest"]
    <2> USE <1>2 DEF CacheInv
    <2>1. run' \in [Runs -> Run]
      BY DEF CodecTypeOK, Run
    <2>2. CodecTypeOK'
      BY <2>1, CodecAssumption DEF CodecTypeOK
    <2>3. \A q \in Runs : q # r => run'[q] = run[q]
      BY DEF CodecTypeOK
    <2>4. /\ run'[r].at = "manifest" /\ run'[r].ok = run[r].ok
          /\ run'[r].manifest = run[r].manifest
      BY DEF CodecTypeOK, Run
    <2>5. OneWorks'
      BY <2>3, CodecAssumption DEF OneWorks
    <2>6. FromMaster' /\ ResultAtEnd' /\ FreshManifest' /\ Assembled' /\ CacheClean' /\ VouchedCached'
      BY <2>3, <2>4 DEF FromMaster, ResultAtEnd, FreshManifest, Assembled, CacheClean, VouchedCached
    <2> QED
      BY <2>2, <2>5, <2>6
  <1> QED
    BY <1>1, <1>2 DEF provisionBuild

(* What a step of a working fetch owes: n is the fetch after it.  The other
   fetches are over or not begun, so all they need is that the files of <build>
   only grow. *)
LEMMA FetchFrame ==
  ASSUME CacheInv, NEW r \in Runs, run[r].at \in Working,
         NEW n \in Run, run' = [run EXCEPT ![r] = n], n.at \in Working,
         UNCHANGED <<onMaster, prov>>,
         final' \in Dir \union {NoDir}, partial' \in Dir \union {NoDir},
         \A f \in Libs : n.manifest[f] <= onMaster[f],
         partial' # NoDir => \A f \in Libs : partial'[f] <= onMaster[f],
         CacheClean',
         final # NoDir => final' # NoDir /\ \A f \in Libs : final[f] <= final'[f],
         n.at \in {"decide", "files"} /\ final' # NoDir
           => \A f \in Libs : final'[f] <= n.manifest[f],
         n.at = "decide" => \A f \in Libs \ n.todo : n.manifest[f] = Absent,
         n.at = "files" /\ n.cold
           => /\ final' = NoDir /\ partial' # NoDir
              /\ \A f \in Libs \ n.todo : n.manifest[f] <= partial'[f],
         n.at = "files" /\ ~n.cold
           => /\ final' # NoDir
              /\ \A f \in Libs \ n.todo : n.manifest[f] <= final'[f],
         n.ok => /\ n.at = "ending" /\ final' # NoDir
                 /\ \A f \in Libs : n.manifest[f] <= final'[f]
  PROVE  CacheInv'
  <1>1. run' \in [Runs -> Run] /\ run'[r] = n
    BY DEF CacheInv, CodecTypeOK
  <1>2. \A q \in Runs : q # r => run'[q] = run[q]
    BY DEF CacheInv, CodecTypeOK
  <1>3. prov = r
    BY DEF CacheInv, OneWorks
  <1>4. \A q \in Runs : q # r => run[q].at \notin Working
    BY <1>3 DEF CacheInv, OneWorks
  <1>5. CodecTypeOK'
    BY <1>1, <1>3 DEF CacheInv, CodecTypeOK, Working
  <1>6. OneWorks' /\ FromMaster' /\ ResultAtEnd'
    BY <1>1, <1>2, <1>3 DEF CacheInv, OneWorks, FromMaster, ResultAtEnd
  <1>7. FreshManifest'
    BY <1>1, <1>2, <1>4 DEF FreshManifest, Working
  <1>8. Assembled'
    BY <1>1, <1>2, <1>4 DEF Assembled, Working
  <1>9. VouchedCached'
    <2> SUFFICES ASSUME NEW q \in Runs, run'[q].ok, q # r
                 PROVE  final' # NoDir /\ \A f \in Libs : run'[q].manifest[f] <= final'[f]
      BY <1>1 DEF VouchedCached
    <2>1. run'[q] = run[q] /\ run[q] \in Run
      BY <1>2 DEF CacheInv, CodecTypeOK
    <2>2. final # NoDir /\ \A f \in Libs : run[q].manifest[f] <= final[f]
      BY <2>1 DEF CacheInv, VouchedCached
    <2>3. ASSUME NEW f \in Libs PROVE run[q].manifest[f] <= final'[f]
      <3>1. /\ run[q].manifest[f] \in 0..3 /\ final[f] \in 0..3 /\ final'[f] \in 0..3
        BY <2>1, <2>2 DEF CacheInv, CodecTypeOK, Run, Dir, Published, Absent, Part, Whole, Torn
      <3> QED
        BY <2>2, <3>1
    <2> QED
      BY <2>1, <2>2, <2>3
  <1> QED
    BY <1>5, <1>6, <1>7, <1>8, <1>9 DEF CacheInv

(* A fetch that ends with an error promises nothing. *)
LEMMA FailedRun ==
  ASSUME CacheInv, NEW r \in Runs, run[r].at \in Working, run' = Ended(r, FALSE),
         UNCHANGED <<onMaster, final, partial, prov>>
  PROVE  CacheInv'
  <1> DEFINE n == [Unused EXCEPT !.at = "ending", !.ok = FALSE,
                                !.manifest = IF FALSE THEN run[r].manifest ELSE @]
  <1>1. n \in Run /\ n.at = "ending" /\ n.ok = FALSE /\ n.manifest = EmptyDir
    BY DEF Unused, Run, EmptyDir, Published, Absent
  <1>2. run' = [run EXCEPT ![r] = n]
    BY DEF Ended
  <1>3. \A f \in Libs : EmptyDir[f] <= onMaster[f]
    BY DEF CacheInv, CodecTypeOK, EmptyDir, Published, Absent, Part, Whole
  <1>4. final # NoDir => \A f \in Libs : final[f] <= final'[f]
    BY DEF CacheInv, CodecTypeOK, Dir, Published, Absent, Part, Whole, Torn
  <1>5. CacheClean' /\ (partial' # NoDir => \A f \in Libs : partial'[f] <= onMaster[f])
    BY DEF CacheInv, CacheClean, FromMaster
  <1>6. final' \in Dir \union {NoDir} /\ partial' \in Dir \union {NoDir}
    BY DEF CacheInv, CodecTypeOK
  <1>7. n.at \in Working
    BY <1>1 DEF Working
  <1> HIDE DEF n
  <1> QED
    BY <1>1, <1>2, <1>3, <1>4, <1>5, <1>6, <1>7, FetchFrame

(* Each step of fetchCodecs. *)
LEMMA FetchInv == ASSUME CacheInv, NEW r \in Runs, FetchStep(r) PROVE CacheInv'
  <1>t. /\ run \in [Runs -> Run] /\ run[r] \in Run
        /\ final \in Dir \union {NoDir} /\ partial \in Dir \union {NoDir}
        /\ onMaster \in [Libs -> Published]
    BY DEF CacheInv, CodecTypeOK
  <1>c. CacheClean /\ (partial # NoDir => \A f \in Libs : partial[f] <= onMaster[f])
    BY DEF CacheInv, FromMaster
  <1>m. \A f \in Libs : run[r].manifest[f] <= onMaster[f]
    BY DEF CacheInv, FromMaster
  <1>s. final # NoDir => \A f \in Libs : final[f] <= final[f]
    BY <1>t DEF Dir, Published, Absent, Part, Whole, Torn
  <1>o. run[r].ok => run[r].at \in {"ending", "done"}
    BY DEF CacheInv, ResultAtEnd
  <1>1. CASE GetManifest(r)
    <2> USE <1>1 DEF GetManifest
    <2> DEFINE n == [run[r] EXCEPT !.at = "decide", !.manifest = Manifest,
                                   !.todo = {f \in Libs : Manifest[f] # Absent}]
    <2>1. run' = [run EXCEPT ![r] = n]
      BY <1>t
    <2>2. n \in Run /\ n.at = "decide" /\ n.ok = run[r].ok /\ n.manifest = onMaster
          /\ \A f \in Libs \ n.todo : n.manifest[f] = Absent
      BY <1>t DEF Run, Manifest
    <2>3. \A f \in Libs : onMaster[f] <= onMaster[f]
      BY <1>t DEF Published, Absent, Part, Whole
    <2>4. run[r].at \in Working /\ n.at \in Working /\ ~n.ok
      BY <1>o, <2>2 DEF Working
    <2>5. CacheClean' /\ (final' # NoDir => \A f \in Libs : final'[f] <= n.manifest[f])
      BY <1>c, <2>2 DEF CacheClean
    <2> HIDE DEF n
    <2> QED
      BY <1>t, <1>c, <1>s, <2>1, <2>2, <2>3, <2>4, <2>5, FetchFrame
  <1>2. CASE Decide(r)
    <2> USE <1>2 DEF Decide
    <2> DEFINE n == [run[r] EXCEPT !.at = "files", !.cold = (final = NoDir)]
    <2>1. run' = [run EXCEPT ![r] = n]
      BY <1>t
    <2>2. /\ n \in Run /\ n.at = "files" /\ n.ok = run[r].ok
          /\ n.manifest = run[r].manifest /\ n.todo = run[r].todo
      BY <1>t DEF Run
    <2>b. n.cold <=> final = NoDir
      BY <1>t DEF Run
    <2>3. run[r].at \in Working /\ n.at \in Working /\ ~n.ok
      BY <1>o, <2>2 DEF Working
    <2>4. EmptyDir \in Dir /\ \A f \in Libs : EmptyDir[f] <= onMaster[f]
      BY <1>t DEF EmptyDir, Dir, Published, Absent, Part, Whole
    <2>5. /\ partial' \in Dir \union {NoDir}
          /\ partial' # NoDir => \A f \in Libs : partial'[f] <= onMaster[f]
          /\ n.cold => partial' # NoDir /\ partial' = EmptyDir
      BY <1>t, <1>c, <2>b, <2>4, CodecAssumption
    <2>6. CacheClean'
      BY <1>c DEF CacheClean
    <2>7. \A f \in Libs \ n.todo : n.manifest[f] = Absent
      BY <2>2 DEF CacheInv, Assembled
    <2>8. final # NoDir => \A f \in Libs : final[f] <= n.manifest[f]
      BY <2>2 DEF CacheInv, FreshManifest
    <2> HIDE DEF n
    <2>9. n.cold => \A f \in Libs \ n.todo : n.manifest[f] <= partial'[f]
      BY <2>5, <2>7 DEF EmptyDir, Absent
    <2>10. ~n.cold => \A f \in Libs \ n.todo : n.manifest[f] <= final'[f]
      BY <1>t, <2>b, <2>7 DEF Dir, Published, Absent, Part, Whole, Torn
    <2> QED
      BY <1>t, <1>m, <1>s, <2>1, <2>2, <2>3, <2>5, <2>6, <2>8, <2>b, <2>9, <2>10, FetchFrame
  <1>3. ASSUME NEW f \in Libs, SkipFile(r, f) PROVE CacheInv'
    <2> USE <1>3 DEF SkipFile
    <2> DEFINE n == [run[r] EXCEPT !.todo = @ \ {f}]
    <2>1. run' = [run EXCEPT ![r] = n]
      BY <1>t
    <2>2. /\ n \in Run /\ n.at = "files" /\ n.ok = run[r].ok
          /\ n.manifest = run[r].manifest /\ n.todo = run[r].todo \ {f} /\ n.cold = run[r].cold
      BY <1>t DEF Run
    <2>3. run[r].at \in Working /\ n.at \in Working /\ ~n.ok
      BY <1>o, <2>2 DEF Working
    <2>4. CacheClean'
      BY <1>c DEF CacheClean
    <2>5. ~n.cold /\ final # NoDir
      BY <2>2 DEF UpToDate, CacheInv, Assembled
    <2>6. \A g \in Libs : final[g] <= n.manifest[g]
      BY <2>2, <2>5 DEF CacheInv, FreshManifest
    <2>7. ASSUME NEW g \in Libs \ n.todo PROVE n.manifest[g] <= final[g]
      <3>1. CASE g = f
        BY <1>s, <2>2, <2>5, <3>1 DEF UpToDate
      <3>2. CASE g # f
        BY <2>2, <2>5, <3>2 DEF CacheInv, Assembled
      <3> QED
        BY <3>1, <3>2
    <2> HIDE DEF n
    <2> QED
      BY <1>t, <1>c, <1>m, <1>s, <2>1, <2>2, <2>3, <2>4, <2>5, <2>6, <2>7, FetchFrame
  <1>4. ASSUME NEW f \in Libs, fetchCodecFile(r, f) PROVE CacheInv'
    <2> DEFINE into(got) == [Dest(r) EXCEPT ![f] = got]
    <2>1. PICK got \in {onMaster[f], Torn} :
            \/ /\ Verified(r, f, got)
               /\ run' = [run EXCEPT ![r].todo = @ \ {f}]
               /\ partial' = IF run[r].cold THEN into(got) ELSE partial
               /\ final'   = IF run[r].cold THEN final ELSE into(got)
            \/ run' = Ended(r, FALSE) /\ UNCHANGED <<final, partial>>
      BY <1>4 DEF fetchCodecFile
    <2>a. run[r].at = "files" /\ run[r].at \in Working /\ UNCHANGED <<onMaster, prov>>
      BY <1>4 DEF fetchCodecFile, Working
    <2>2. CASE run' = Ended(r, FALSE) /\ UNCHANGED <<final, partial>>
      BY <2>a, <2>2, FailedRun
    <2>3. CASE /\ Verified(r, f, got)
               /\ run' = [run EXCEPT ![r].todo = @ \ {f}]
               /\ partial' = IF run[r].cold THEN into(got) ELSE partial
               /\ final'   = IF run[r].cold THEN final ELSE into(got)
      <3> DEFINE n == [run[r] EXCEPT !.todo = @ \ {f}]
      <3>1. run' = [run EXCEPT ![r] = n]
        BY <1>t, <2>3
      <3>2. /\ n \in Run /\ n.at = "files" /\ n.ok = run[r].ok
            /\ n.manifest = run[r].manifest /\ n.todo = run[r].todo \ {f} /\ n.cold = run[r].cold
        BY <1>t, <2>a DEF Run
      <3>3. n.at \in Working /\ ~n.ok
        BY <1>o, <2>a, <3>2 DEF Working
      <3>4. got = n.manifest[f] /\ got \in Published
        BY <1>t, <2>3, <3>2 DEF Verified, Run
      <3>5. \A v \in Published : v <= v
        BY DEF Published, Absent, Part, Whole
      <3> HIDE DEF n
      <3>6. CASE n.cold
        <4>1. final = NoDir /\ partial # NoDir /\ partial \in Dir
          BY <1>t, <2>a, <3>2, <3>6 DEF CacheInv, Assembled
        <4>2. partial' = [partial EXCEPT ![f] = got] /\ UNCHANGED final
          BY <2>3, <3>2, <3>6, <4>1 DEF Dest
        <4>3. partial' \in Dir /\ partial' # NoDir
          BY <3>4, <4>1, <4>2, CodecAssumption DEF Dir
        <4>4. \A g \in Libs : partial'[g] = IF g = f THEN got ELSE partial[g]
          BY <4>1, <4>2 DEF Dir
        <4>5. \A g \in Libs : partial'[g] <= onMaster[g]
          BY <1>c, <1>m, <3>2, <3>4, <4>1, <4>4
        <4>6. \A g \in Libs \ n.todo : n.manifest[g] <= partial'[g]
          BY <2>a, <3>2, <3>4, <3>5, <3>6, <4>4 DEF CacheInv, Assembled
        <4>7. CacheClean'
          BY <4>1, <4>2 DEF CacheClean
        <4> QED
          BY <1>t, <1>m, <2>a, <3>1, <3>2, <3>3, <3>6, <4>1, <4>2, <4>3, <4>5, <4>6, <4>7, FetchFrame
      <3>7. CASE ~n.cold
        <4>1. final # NoDir /\ final \in Dir
          BY <1>t, <2>a, <3>2, <3>7 DEF CacheInv, Assembled
        <4>2. final' = [final EXCEPT ![f] = got] /\ UNCHANGED partial
          BY <2>3, <3>2, <3>7 DEF Dest
        <4>3. final' \in Dir /\ final' # NoDir
          BY <3>4, <4>1, <4>2, CodecAssumption DEF Dir
        <4>4. \A g \in Libs : final'[g] = IF g = f THEN got ELSE final[g]
          BY <4>1, <4>2 DEF Dir
        <4>5. \A g \in Libs : final[g] <= n.manifest[g]
          BY <2>a, <3>2, <4>1 DEF CacheInv, FreshManifest
        <4>6. \A g \in Libs : final'[g] <= n.manifest[g]
          BY <3>4, <3>5, <4>4, <4>5
        <4>7. \A g \in Libs : final[g] <= final'[g]
          BY <1>s, <3>4, <4>1, <4>4, <4>5
        <4>8. CacheClean'
          <5>1. \A g \in Libs : final'[g] <= onMaster[g]
            BY <1>c, <1>m, <3>2, <3>4, <4>1, <4>4 DEF CacheClean
          <5> QED
            BY <2>a, <5>1 DEF CacheClean
        <4>9. \A g \in Libs \ n.todo : n.manifest[g] <= final'[g]
          BY <2>a, <3>2, <3>4, <3>5, <3>7, <4>4 DEF CacheInv, Assembled
        <4> QED
          BY <1>t, <1>c, <1>m, <2>a, <3>1, <3>2, <3>3, <3>7, <4>2, <4>3, <4>6, <4>7, <4>8, <4>9,
             FetchFrame
      <3> QED
        BY <3>6, <3>7
    <2> QED
      BY <2>1, <2>2, <2>3
  <1>5. CASE Publish(r)
    <2> USE <1>5 DEF Publish
    <2> DEFINE n == [Unused EXCEPT !.at = "ending", !.ok = TRUE,
                                  !.manifest = IF TRUE THEN run[r].manifest ELSE @]
    <2>1. run' = [run EXCEPT ![r] = n]
      BY DEF Ended
    <2>2. n \in Run /\ n.at = "ending" /\ n.ok = TRUE /\ n.manifest = run[r].manifest
      BY <1>t DEF Unused, Run
    <2>3. run[r].at \in Working /\ n.at \in Working
      BY <2>2 DEF Working
    <2>4. CASE run[r].cold
      <3>1. /\ final = NoDir /\ partial # NoDir
            /\ \A f \in Libs : run[r].manifest[f] <= partial[f]
        BY <2>4 DEF CacheInv, Assembled
      <3>2. final' = partial /\ partial' = NoDir
        BY <2>4, <3>1
      <3>3. CacheClean'
        BY <1>c, <3>1, <3>2 DEF CacheClean
      <3> HIDE DEF n
      <3> QED
        BY <1>t, <1>m, <2>1, <2>2, <2>3, <3>1, <3>2, <3>3, FetchFrame
    <2>5. CASE ~run[r].cold
      <3>1. final # NoDir /\ \A f \in Libs : run[r].manifest[f] <= final[f]
        BY <2>5 DEF CacheInv, Assembled
      <3>2. UNCHANGED <<final, partial>>
        BY <2>5
      <3>3. CacheClean'
        BY <1>c, <3>2 DEF CacheClean
      <3> HIDE DEF n
      <3> QED
        BY <1>t, <1>c, <1>m, <1>s, <2>1, <2>2, <2>3, <3>1, <3>2, <3>3, FetchFrame
    <2> QED
      BY <2>4, <2>5
  <1>6. CASE FetchFails(r)
    BY <1>6, FailedRun DEF FetchFails, Working
  <1> QED
    BY <1>1, <1>2, <1>3, <1>4, <1>5, <1>6 DEF FetchStep

(* A step that forgets fetches, or takes the one that ends out of d.prov: the
   fetches that are left are over and keep what they vouch for. *)
LEMMA ForgetFrame ==
  ASSUME CacheInv, UNCHANGED <<onMaster, final, partial>>,
         run' \in [Runs -> Run], prov' \in {prov, NoRun},
         \A r \in Runs : \/ run'[r] = Unused
                         \/ run'[r] = run[r]
                         \/ run[r].at = "ending" /\ run'[r] = [run[r] EXCEPT !.at = "done"],
         \A r \in Runs : prov' = r => run'[r] = run[r],
         \A r \in Runs : run'[r].at \in Working => prov' = r
  PROVE  CacheInv'
  <1>1. ASSUME NEW r \in Runs
        PROVE  \/ run'[r] = run[r]
               \/ /\ run'[r].at \in {"unused", "done"}
                  /\ run'[r].ok => run[r].ok /\ run'[r].manifest = run[r].manifest
                  /\ run'[r].manifest \in {EmptyDir, run[r].manifest}
    <2>1. run[r] \in Run
      BY DEF CacheInv, CodecTypeOK
    <2>2. CASE run'[r] = Unused
      BY <2>2 DEF Unused
    <2>3. CASE run[r].at = "ending" /\ run'[r] = [run[r] EXCEPT !.at = "done"]
      BY <2>1, <2>3 DEF Run
    <2> QED
      BY <2>2, <2>3
  <1>2. CodecTypeOK'
    BY CodecAssumption DEF CacheInv, CodecTypeOK
  <1>3. OneWorks'
    BY DEF OneWorks
  <1>4. FromMaster'
    <2>1. \A f \in Libs : EmptyDir[f] <= onMaster[f]
      BY DEF CacheInv, CodecTypeOK, EmptyDir, Published, Absent, Part, Whole
    <2> QED
      BY <1>1, <2>1 DEF CacheInv, FromMaster
  <1>5. ResultAtEnd'
    <2>1. ASSUME NEW r \in Runs, run'[r].ok PROVE run'[r].at \in {"ending", "done"}
      <3>1. CASE run'[r] = Unused
        BY <2>1, <3>1 DEF Unused
      <3>2. CASE run'[r] = run[r]
        BY <2>1, <3>2 DEF CacheInv, ResultAtEnd
      <3>3. CASE run[r].at = "ending" /\ run'[r] = [run[r] EXCEPT !.at = "done"]
        BY <3>3 DEF CacheInv, CodecTypeOK, Run
      <3> QED
        BY <3>1, <3>2, <3>3
    <2> QED
      BY <2>1 DEF ResultAtEnd
  <1>6. FreshManifest' /\ Assembled'
    BY <1>1 DEF CacheInv, FreshManifest, Assembled
  <1>7. CacheClean' /\ VouchedCached'
    BY <1>1 DEF CacheInv, CacheClean, VouchedCached
  <1> QED
    BY <1>2, <1>3, <1>4, <1>5, <1>6, <1>7 DEF CacheInv

(* The end of a fetch, with or without an error, leaves d.prov[build] empty and
   the directories as they are. *)
LEMMA EndRunStep ==
  ASSUME CacheInv, NEW r \in Runs, NEW held \in BOOLEAN, EndRun(r, held)
  PROVE  CacheInv'
  <1> USE DEF EndRun
  <1>t. run \in [Runs -> Run] /\ run[r] \in Run
    BY DEF CacheInv, CodecTypeOK
  <1>1. /\ \A q \in Runs : q # r => run'[q] = run[q]
        /\ run'[r] = Unused \/ run'[r] = [run[r] EXCEPT !.at = "done"]
    BY <1>t
  <1>2. run'[r].at \in {"unused", "done"}
    <2>1. CASE run'[r] = Unused
      BY <2>1 DEF Unused
    <2>2. CASE run'[r] = [run[r] EXCEPT !.at = "done"]
      BY <1>t, <2>2 DEF Run
    <2> QED
      BY <1>1, <2>1, <2>2
  <1>3. run' \in [Runs -> Run]
    <2>1. [run[r] EXCEPT !.at = "done"] \in Run
      BY <1>t DEF Run
    <2> QED
      BY <1>t, <2>1, UnusedType
  <1>4. prov = r
    BY DEF CacheInv, OneWorks, Working
  <1>5. \A q \in Runs : run'[q].at \notin Working
    BY <1>1, <1>2, <1>4 DEF CacheInv, OneWorks, Working
  <1> QED
    BY <1>1, <1>3, <1>5, ForgetFrame, CodecAssumption

(* A crash of workerd forgets the runs and keeps the directories. *)
LEMMA CrashStep == ASSUME CacheInv, CodecCrash PROVE CacheInv'
  <1> USE DEF CodecCrash
  <1>1. run' \in [Runs -> Run] /\ \A r \in Runs : run'[r] = Unused /\ run'[r].at \notin Working
    BY UnusedType DEF Unused, Working
  <1> QED
    BY <1>1, ForgetFrame, CodecAssumption

(* The last job that waited for a fetch goes on: the fetch is forgotten. *)
LEMMA GoOnCache == ASSUME CacheInv, NEW j \in Jobs, goOn(j) PROVE CacheInv'
  <1> USE DEF goOn
  <1>1. run \in [Runs -> Run]
    BY DEF CacheInv, CodecTypeOK
  <1>2. /\ run' \in [Runs -> Run]
        /\ \A r \in Runs : run'[r] = run[r] \/ (run[r].at = "done" /\ run'[r] = Unused)
    BY <1>1, UnusedType
  <1>3. \A r \in Runs : run'[r].at \in Working => run'[r] = run[r]
    BY <1>2 DEF Working, Unused
  <1>4. \A r \in Runs : run'[r].at \in Working => prov' = r
    BY <1>3 DEF CacheInv, OneWorks
  <1>5. \A r \in Runs : prov' = r => run'[r] = run[r]
    BY <1>2, CodecAssumption DEF CacheInv, CodecTypeOK
  <1> QED
    BY <1>2, <1>4, <1>5, ForgetFrame

-----------------------------------------------------------------------------
(* Steps of the job table. *)

(* Steps that leave the table and the reaper alone. *)
LEMMA TableFrame ==
  ASSUME IInv, CacheInv', UNCHANGED <<tableVars, reapVars>>
  PROVE  IInv'
  BY DEF IInv, CacheInv, TypeOK, TableInv, Doomed, ActiveKeepsDir, tableVars, reapVars

(* Admission: a new id is on no list of directories to remove. *)
LEMMA CreateStep ==
  ASSUME IInv, NEW j \in Jobs, CreateJob(j) \/ CreateFails(j)
  PROVE  IInv'
  <1>1. CacheInv'
    BY CacheFrame DEF IInv, CreateJob, CreateFails
  <1>2. TypeOK'
    BY <1>1 DEF IInv, CacheInv, TypeOK, CreateJob, CreateFails, InTable, Active, reapVars
  <1>3. TableInv'
    BY DEF IInv, TypeOK, TableInv, Doomed, ActiveKeepsDir, CreateJob, CreateFails, Active,
           Terminal, reapVars
  <1> QED
    BY <1>1, <1>2, <1>3 DEF IInv

(* A job from PENDING to its terminal state, and its finalize. *)
LEMMA JobStep ==
  ASSUME IInv, NEW j \in Jobs,
         \/ \E r \in Runs : JobSync(j, r)
         \/ goOn(j)
         \/ \E state \in Terminal : Finalize(j, state)
         \/ RemoveDropped(j)
         \/ Ages(j)
  PROVE  IInv'
  <1> USE DEF IInv, reapVars
  <1>1. ASSUME NEW r \in Runs, JobSync(j, r) PROVE IInv'
    <2> USE <1>1 DEF JobSync
    <2>1. CacheInv'
      BY ProvisionStep
    <2>2. TypeOK'
      BY <2>1, CodecAssumption DEF CacheInv, TypeOK, InTable, Active
    <2>3. TableInv'
      BY DEF TypeOK, TableInv, Doomed, ActiveKeepsDir, Active, Terminal
    <2> QED
      BY <2>1, <2>2, <2>3
  <1>2. CASE goOn(j)
    <2> USE <1>2 DEF goOn
    <2>1. CacheInv'
      BY GoOnCache
    <2>2. TypeOK'
      BY <2>1 DEF CacheInv, TypeOK, InTable, Active
    <2>3. TableInv'
      BY DEF TypeOK, TableInv, Doomed, ActiveKeepsDir, Active, Terminal
    <2> QED
      BY <2>1, <2>2, <2>3
  <1>3. ASSUME NEW state \in Terminal, Finalize(j, state) PROVE IInv'
    <2> USE <1>3 DEF Finalize
    <2>1. CacheInv'
      BY CacheFrame
    <2>2. TypeOK'
      BY <2>1 DEF CacheInv, TypeOK, InTable, Terminal
    <2>3. TableInv'
      BY DEF TypeOK, TableInv, Doomed, ActiveKeepsDir, Active, Terminal
    <2> QED
      BY <2>1, <2>2, <2>3
  <1>4. CASE RemoveDropped(j)
    <2> USE <1>4 DEF RemoveDropped
    <2>1. CacheInv'
      BY CacheFrame
    <2>2. TypeOK'
      BY <2>1 DEF CacheInv, TypeOK
    <2>3. TableInv'
      BY DEF TypeOK, TableInv, Doomed, ActiveKeepsDir, Active, Terminal
    <2> QED
      BY <2>1, <2>2, <2>3
  <1>5. CASE Ages(j)
    <2> USE <1>5 DEF Ages
    <2>1. CacheInv'
      BY CacheFrame
    <2>2. TypeOK'
      BY <2>1 DEF CacheInv, TypeOK
    <2>3. TableInv'
      BY DEF TableInv, Doomed, ActiveKeepsDir
    <2> QED
      BY <2>1, <2>2, <2>3
  <1> QED
    BY <1>1, <1>2, <1>3, <1>4, <1>5

(* The reaper works from lists made earlier, without d.mu: the expired jobs
   have left the table for good, and each entry of the listing is looked up
   again. *)
LEMMA ReapStep == ASSUME IInv, Reap PROVE IInv'
  <1> USE DEF IInv
  <1>1. CASE ReapTable
    <2> USE <1>1 DEF ReapTable
    <2>1. CacheInv'
      BY CacheFrame
    <2>2. job' \in [Jobs -> InTable \union {"new", "gone"}]
      BY DEF TypeOK
    <2>3. TypeOK'
      BY <2>1, <2>2 DEF CacheInv, TypeOK, Expired, Terminal
    <2>4. TableInv'
      BY DEF TypeOK, TableInv, Doomed, ActiveKeepsDir, Active, Expired
    <2> QED
      BY <2>1, <2>3, <2>4
  <1>2. CASE ReapRemove
    <2> USE <1>2 DEF ReapRemove
    <2>1. CacheInv'
      BY CacheFrame
    <2>2. TypeOK'
      BY <2>1 DEF CacheInv, TypeOK
    <2>3. TableInv'
      BY DEF TypeOK, TableInv, Doomed, ActiveKeepsDir, Active, Terminal
    <2> QED
      BY <2>1, <2>2, <2>3
  <1>3. ASSUME NEW j \in Jobs, ReapEntry(j) PROVE IInv'
    <2> USE <1>3 DEF ReapEntry
    <2>1. CacheInv'
      BY CacheFrame
    <2>2. TypeOK'
      BY <2>1 DEF CacheInv, TypeOK
    <2>3. TableInv'
      BY DEF TypeOK, TableInv, Doomed, ActiveKeepsDir, Orphan, InTable
    <2> QED
      BY <2>1, <2>2, <2>3
  <1> QED
    BY <1>1, <1>2, <1>3 DEF Reap

(* A crash empties the table and the lists; the files stay. *)
LEMMA RestartStep == ASSUME IInv, Crash PROVE IInv'
  <1> USE DEF IInv, Crash
  <1>1. CacheInv'
    BY CrashStep
  <1>2. TypeOK'
    BY <1>1, TableAssumption DEF CacheInv, TypeOK
  <1>3. TableInv'
    BY DEF TypeOK, TableInv, Doomed, ActiveKeepsDir, Active
  <1> QED
    BY <1>1, <1>2, <1>3

(* Every step keeps the invariant: the cache's part by CacheStep's lemmas, the
   table's part action by action. *)
LEMMA StepIInv == IInv /\ [Next]_vars => IInv'
  <1> SUFFICES ASSUME IInv, [Next]_vars PROVE IInv'
    OBVIOUS
  <1>0. CacheInv
    BY DEF IInv
  <1>1. CASE UNCHANGED vars
    BY <1>0, <1>1, CacheFrame, TableFrame DEF vars
  <1>2. ASSUME NEW f \in Libs, Codec(Download(f)) PROVE IInv'
    BY <1>0, <1>2, DownloadStep, TableFrame DEF Codec
  <1>3. ASSUME NEW r \in Runs, RefuseCold(r) \/ handleProvision(r) PROVE IInv'
    BY <1>0, <1>3, ProvisionStep, TableFrame DEF RefuseCold, handleProvision
  <1>4. ASSUME NEW r \in Runs, Codec(Fetch(r)) PROVE IInv'
    <2>1. CASE FetchStep(r)
      BY <1>0, <1>4, <2>1, FetchInv, TableFrame DEF Codec
    <2>2. CASE EndRun(r, HeldBy(r) # {})
      BY <1>0, <1>4, <2>2, EndRunStep, TableFrame DEF Codec
    <2> QED
      BY <1>4, <2>1, <2>2 DEF Codec, Fetch
  <1>5. ASSUME NEW j \in Jobs, CreateJob(j) \/ CreateFails(j) PROVE IInv'
    BY <1>5, CreateStep
  <1>6. ASSUME NEW j \in Jobs,
               \/ \E r \in Runs : JobSync(j, r)
               \/ JobSynced(j) \/ JobUnsynced(j)
               \/ \E state \in Terminal : Finalize(j, state)
               \/ RemoveDropped(j) \/ Ages(j)
        PROVE  IInv'
    BY <1>6, JobStep DEF JobSynced, JobUnsynced
  <1>7. CASE Reap
    BY <1>7, ReapStep
  <1>8. CASE Crash
    BY <1>8, RestartStep
  <1> QED
    BY <1>1, <1>2, <1>3, <1>4, <1>5, <1>6, <1>7, <1>8 DEF Next

-----------------------------------------------------------------------------
(* The inductive invariant holds throughout: of the provisioning of codecs, of
   the job table and of the reaper, and across crashes of workerd. *)
THEOREM TableInvariant == Spec => []IInv
  BY InitIInv, StepIInv, PTL DEF Spec

(* Every variable keeps its type; the run d.prov names is one that works, and
   a job waits for a fetch exactly while it is PREPARING. *)
THEOREM TableTypeCorrect == Spec => []TypeOK
  <1>1. IInv => TypeOK
    BY DEF IInv
  <1> QED
    BY <1>1, TableInvariant, PTL

(* No library is renamed into the cache that the master did not have
   (fetchCodecFile), whatever jobs, fetches and crashes happen. *)
THEOREM CacheAlwaysClean == Spec => []CacheClean
  <1>1. IInv => CacheClean
    BY DEF IInv, CacheInv
  <1> QED
    BY <1>1, TableInvariant, PTL

(* A fetch that returned nil vouches for its manifest as long as anybody can
   see its result: later top-ups never make a library less complete
   (fetchCodecs, provisionBuild). *)
THEOREM VouchedStaysCached == Spec => []VouchedCached
  <1>1. IInv => VouchedCached
    BY DEF IInv, CacheInv
  <1> QED
    BY <1>1, TableInvariant, PTL

(* Neither finalize nor the reaper removes the directory of an active job
   (reapOnce, finalize). *)
THEOREM ActiveDirKept == Spec => []ActiveKeepsDir
  <1>1. IInv => ActiveKeepsDir
    BY DEF IInv, TableInv
  <1> QED
    BY <1>1, TableInvariant, PTL

(* A cold cache appears complete: only Publish makes it, from a .partial that
   holds the manifest of the fetch that publishes it (fetchCodecs). *)
THEOREM ColdPublishedWhole == Spec => ColdPublishWhole
  <1> DEFINE Whole1 ==
        final = NoDir /\ final' # NoDir =>
          \E r \in Runs : run'[r].ok /\ \A f \in Libs : run'[r].manifest[f] <= final'[f]
  <1>1. IInv /\ [Next]_vars => [Whole1]_vars
    <2> SUFFICES ASSUME IInv, Next, final = NoDir, final' # NoDir
                 PROVE  \E r \in Runs : /\ run'[r].ok
                                        /\ \A f \in Libs : run'[r].manifest[f] <= final'[f]
      BY DEF vars
    <2>1. PICK r \in Runs : FetchStep(r)
      BY DEF Next, Codec, Fetch, Download, RefuseCold, handleProvision, CreateJob, CreateFails,
             JobSync, JobSynced, JobUnsynced, goOn, Finalize, RemoveDropped, Ages, Reap,
             ReapTable, ReapRemove, ReapEntry, Crash, CodecCrash, EndRun, codecVars
    <2>2. CASE Publish(r)
      <3>1. run'[r].ok
        BY <2>2 DEF Publish, Ended, Unused, IInv, TypeOK, CodecTypeOK
      <3>2. VouchedCached'
        BY StepIInv DEF IInv, CacheInv
      <3> QED
        BY <3>1, <3>2 DEF VouchedCached
    <2>3. ASSUME NEW f \in Libs, fetchCodecFile(r, f) PROVE FALSE
      <3>1. run[r].at = "files" /\ ~run[r].cold
        BY <2>3 DEF fetchCodecFile
      <3> QED
        BY <3>1 DEF IInv, CacheInv, Assembled
    <2> QED
      BY <2>1, <2>2, <2>3 DEF FetchStep, GetManifest, Decide, FetchFails, SkipFile
  <1> QED
    BY <1>1, TableInvariant, PTL DEF Spec, ColdPublishWhole

-----------------------------------------------------------------------------
(* Starting jobs are answered. *)

(* A run in d.prov has begun (CodecTypeOK), which leaves less of WaitAnswered. *)
LEMMA WaitMeans ==
  IInv => (WaitAnswered <=> \A j \in Jobs : waits[j] # NoRun =>
                              run[waits[j]].at = "done" \/ prov = waits[j])
  BY CodecAssumption DEF IInv, TypeOK, CodecTypeOK, WaitAnswered

(* It is enough that no fetch is lost that somebody waits for. *)
LEMMA WaitFrame ==
  ASSUME IInv, IInv', WaitAnswered,
         \A j \in Jobs : \/ waits'[j] \in {NoRun, waits[j]}
                         \/ prov' = waits'[j],
         \A r \in Runs : run[r].at = "done" \/ prov = r =>
                           \/ run'[r].at = "done" \/ prov' = r
                           \/ \A j \in Jobs : waits'[j] # r
  PROVE  WaitAnswered'
  <1>1. ASSUME NEW j \in Jobs, waits'[j] # NoRun
        PROVE  run'[waits'[j]].at = "done" \/ prov' = waits'[j]
    <2>1. CASE waits'[j] = waits[j]
      <3>1. waits[j] \in Runs
        BY <1>1, <2>1 DEF IInv, TypeOK
      <3>2. run[waits[j]].at = "done" \/ prov = waits[j]
        BY <1>1, <2>1, WaitMeans
      <3> QED
        BY <2>1, <3>1, <3>2
    <2> QED
      BY <1>1, <2>1
  <1>2. WaitAnswered' <=> \A j \in Jobs : waits'[j] # NoRun =>
                            run'[waits'[j]].at = "done" \/ prov' = waits'[j]
    BY CodecAssumption DEF IInv, TypeOK, CodecTypeOK, WaitAnswered
  <1> QED
    BY <1>1, <1>2

(* A step of a fetch changes that fetch only, which is not over. *)
LEMMA OneRunMoves ==
  ASSUME IInv, NEW r \in Runs, FetchStep(r)
  PROVE  UNCHANGED prov /\ \A q \in Runs : run[q].at = "done" => run'[q] = run[q]
  <1>1. run \in [Runs -> Run]
    BY DEF IInv, TypeOK, CodecTypeOK
  <1>2. run[r].at # "done" /\ \A q \in Runs \ {r} : run'[q] = run[q]
    BY <1>1 DEF FetchStep, GetManifest, Decide, Publish, FetchFails, SkipFile, fetchCodecFile, Ended
  <1>3. UNCHANGED prov
    BY DEF FetchStep, GetManifest, Decide, Publish, FetchFails, SkipFile, fetchCodecFile
  <1> QED
    BY <1>2, <1>3

(* Who calls provisionBuild waits for the run it leaves in d.prov, and takes no
   other one away. *)
LEMMA ProvisionKeeps ==
  ASSUME IInv, NEW r \in Runs, provisionBuild(r)
  PROVE  /\ prov' = r
         /\ \A q \in Runs : run[q].at = "done" => run'[q] = run[q]
         /\ \A q \in Runs : prov = q => prov' = q
  <1>1. run \in [Runs -> Run] /\ prov \in Runs \union {NoRun}
    BY DEF IInv, TypeOK, CodecTypeOK
  <1> QED
    BY <1>1, CodecAssumption DEF provisionBuild

(* Every step leaves the starting jobs with somebody who will answer. *)
LEMMA StepWait == IInv /\ WaitAnswered /\ [Next]_vars => WaitAnswered'
  <1> SUFFICES ASSUME IInv, WaitAnswered, [Next]_vars PROVE WaitAnswered'
    OBVIOUS
  <1>t. /\ run \in [Runs -> Run] /\ waits \in [Jobs -> Runs \union {NoRun}]
        /\ prov \in Runs \union {NoRun} /\ NoRun \notin Runs
    BY CodecAssumption DEF IInv, TypeOK, CodecTypeOK
  <1>i. IInv'
    BY StepIInv
  <1>f. ASSUME UNCHANGED <<run, prov, waits>> PROVE WaitAnswered'
    BY <1>f, <1>i, WaitFrame
  <1>1. CASE UNCHANGED vars
    BY <1>1, <1>f DEF vars, codecVars, tableVars
  <1>2. ASSUME NEW f \in Libs, Codec(Download(f)) PROVE WaitAnswered'
    BY <1>2, <1>f DEF Codec, Download, tableVars
  <1>3. ASSUME NEW r \in Runs, RefuseCold(r) \/ handleProvision(r) PROVE WaitAnswered'
    BY <1>3, <1>i, ProvisionKeeps, WaitFrame DEF RefuseCold, handleProvision, tableVars
  <1>4. ASSUME NEW r \in Runs, Codec(FetchStep(r)) PROVE WaitAnswered'
    BY <1>4, <1>i, OneRunMoves, WaitFrame DEF Codec, tableVars
  <1>5. ASSUME NEW r \in Runs, Codec(EndRun(r, HeldBy(r) # {})) PROVE WaitAnswered'
    <2>1. /\ UNCHANGED waits
          /\ run[r].at = "ending"
          /\ run' = [run EXCEPT ![r] = IF HeldBy(r) # {} THEN [@ EXCEPT !.at = "done"] ELSE Unused]
      BY <1>5 DEF Codec, EndRun, tableVars
    <2>2. prov = r
      BY <2>1 DEF IInv, CacheInv, OneWorks, Working
    <2>3. \A q \in Runs \ {r} : run'[q] = run[q]
      BY <1>t, <2>1
    <2>4. CASE HeldBy(r) # {}
      <3>1. run'[r].at = "done"
        BY <1>t, <2>1, <2>4 DEF Run
      <3> QED
        BY <1>i, <2>1, <2>2, <2>3, <3>1, WaitFrame
    <2>5. CASE HeldBy(r) = {}
      <3>1. \A j \in Jobs : waits'[j] # r
        BY <2>1, <2>5 DEF HeldBy
      <3> QED
        BY <1>i, <2>1, <2>2, <2>3, <3>1, WaitFrame
    <2> QED
      BY <2>4, <2>5
  <1>6. ASSUME NEW j \in Jobs, goOn(j) PROVE WaitAnswered'
    <2>1. /\ UNCHANGED prov /\ waits' = [waits EXCEPT ![j] = NoRun]
          /\ run' = [r \in Runs |-> IF run[r].at = "done" /\ HeldBy(r) = {j} THEN Unused ELSE run[r]]
      BY <1>6 DEF goOn
    <2>2. ASSUME NEW r \in Runs PROVE run'[r] = run[r] \/ \A i \in Jobs : waits'[i] # r
      BY <1>t, <2>1 DEF HeldBy
    <2>3. \A i \in Jobs : waits'[i] \in {NoRun, waits[i]}
      BY <1>t, <2>1
    <2> QED
      BY <1>i, <2>1, <2>2, <2>3, WaitFrame
  <1>7. ASSUME NEW j \in Jobs, NEW r \in Runs, JobSync(j, r) PROVE WaitAnswered'
    <2>1. waits' = [waits EXCEPT ![j] = r] /\ provisionBuild(r)
      BY <1>7 DEF JobSync
    <2>2. \A i \in Jobs : waits'[i] \in {NoRun, waits[i]} \/ prov' = waits'[i]
      BY <1>t, <2>1, ProvisionKeeps
    <2> QED
      BY <1>i, <2>1, <2>2, ProvisionKeeps, WaitFrame
  <1>8. ASSUME NEW j \in Jobs,
               \/ CreateJob(j) \/ CreateFails(j)
               \/ \E state \in Terminal : Finalize(j, state)
               \/ RemoveDropped(j) \/ Ages(j)
        PROVE  WaitAnswered'
    BY <1>8, <1>f DEF CreateJob, CreateFails, Finalize, RemoveDropped, Ages, codecVars
  <1>9. CASE Reap
    BY <1>9, <1>f DEF Reap, ReapTable, ReapRemove, ReapEntry, codecVars
  <1>10. CASE Crash
    BY <1>10, <1>i, WaitMeans DEF Crash, WaitAnswered
  <1> QED
    BY <1>1, <1>2, <1>3, <1>4, <1>5, <1>6, <1>7, <1>8, <1>9, <1>10
       DEF Next, Fetch, Codec, JobSynced, JobUnsynced

(* A starting job is answered by the fetch it waits for: none is dropped while a
   caller holds it, whoever else started it or gave up on it, and across crashes
   (provisionBuild, run). *)
THEOREM WaitersAnswered == Spec => []WaitAnswered
  <1>1. Init => WaitAnswered
    BY DEF Init, WaitAnswered
  <1> QED
    BY <1>1, StepWait, TableInvariant, PTL DEF Spec

-----------------------------------------------------------------------------
(* Admission. *)

Busy == {j \in Jobs : job[j] \in Active}

(* The daemon never runs more jobs than its configuration allows; counting them
   is right because they are finitely many, however many ids there are. *)
SlotsBounded == activeJobsLocked <= MaxJobs

SlotsInv == IsFiniteSet(Busy) /\ SlotsBounded

(* Whatever does not admit a job leaves no more of them. *)
LEMMA SlotsFrame == ASSUME SlotsInv, Busy' \subseteq Busy PROVE SlotsInv'
  <1>1. IsFiniteSet(Busy') /\ Cardinality(Busy') <= Cardinality(Busy)
    BY FS_Subset DEF SlotsInv
  <1>2. Cardinality(Busy') \in Nat /\ Cardinality(Busy) \in Nat
    BY <1>1, FS_CardinalityType DEF SlotsInv
  <1> QED
    BY <1>1, <1>2, TableAssumption DEF SlotsInv, SlotsBounded, activeJobsLocked, Busy

(* Every step keeps to cfg.MaxJobs: the count and the entry in the table are one
   critical section (d.mu). *)
LEMMA StepSlots == IInv /\ SlotsInv /\ [Next]_vars => SlotsInv'
  <1> SUFFICES ASSUME IInv, SlotsInv, [Next]_vars PROVE SlotsInv'
    OBVIOUS
  <1>t. job \in [Jobs -> InTable \union {"new", "gone"}]
    BY DEF IInv, TypeOK
  <1>1. ASSUME NEW j \in Jobs, CreateJob(j) PROVE SlotsInv'
    <2>1. job[j] = "new" /\ ~(activeJobsLocked >= MaxJobs) /\ job' = [job EXCEPT ![j] = "PENDING"]
      BY <1>1 DEF CreateJob, AtCapacity
    <2>2. Busy' = Busy \union {j} /\ j \notin Busy
      BY <1>t, <2>1 DEF Busy, Active
    <2>3. Cardinality(Busy) \in Nat /\ Cardinality(Busy) < MaxJobs
      BY <2>1, FS_CardinalityType, TableAssumption DEF SlotsInv, activeJobsLocked, Busy
    <2>4. IsFiniteSet(Busy') /\ Cardinality(Busy') = Cardinality(Busy) + 1
      BY <2>2, FS_AddElement DEF SlotsInv
    <2> QED
      BY <2>3, <2>4, TableAssumption DEF SlotsInv, SlotsBounded, activeJobsLocked, Busy
  <1>2. CASE ~(\E j \in Jobs : CreateJob(j))
    <2>1. UNCHANGED job \/ \A j \in Jobs : job[j] \in Active \/ job'[j] \notin Active
      <3>1. CASE UNCHANGED vars
        BY <3>1 DEF vars, tableVars
      <3>2. ASSUME NEW r \in Runs, RefuseCold(r) \/ handleProvision(r) \/ Codec(Fetch(r))
            PROVE  UNCHANGED job
        BY <3>2 DEF RefuseCold, handleProvision, Codec, tableVars
      <3>3. ASSUME NEW f \in Libs, Codec(Download(f)) PROVE UNCHANGED job
        BY <3>3 DEF Codec, tableVars
      <3>4. ASSUME NEW j \in Jobs,
                   \/ CreateFails(j) \/ (\E r \in Runs : JobSync(j, r))
                   \/ goOn(j) \/ (\E state \in Terminal : Finalize(j, state))
            PROVE  \A i \in Jobs : job[i] \in Active \/ job'[i] \notin Active
        BY <1>t, <3>4 DEF CreateFails, JobSync, goOn, Finalize, Active, Terminal
      <3>5. ASSUME NEW j \in Jobs, RemoveDropped(j) \/ Ages(j) PROVE UNCHANGED job
        BY <3>5 DEF RemoveDropped, Ages
      <3>6. CASE Reap \/ Crash
        BY <1>t, <3>6 DEF Reap, ReapTable, ReapRemove, ReapEntry, Crash, Active
      <3> QED
        BY <1>2, <3>1, <3>2, <3>3, <3>4, <3>5, <3>6 DEF Next, JobSynced, JobUnsynced
    <2>2. Busy' \subseteq Busy
      BY <2>1 DEF Busy
    <2> QED
      BY <2>2, SlotsFrame
  <1> QED
    BY <1>1, <1>2

(* No more than cfg.MaxJobs jobs are ever active, however admissions, ends, fetches
   and crashes interleave (handleCreateJob, activeJobsLocked). *)
THEOREM SlotsNeverExceeded == Spec => []SlotsBounded
  <1>1. Init => SlotsInv
    <2> SUFFICES ASSUME Init PROVE SlotsInv
      OBVIOUS
    <2>1. Busy = {}
      BY DEF Init, Busy, Active
    <2> QED
      BY <2>1, FS_EmptySet, TableAssumption DEF SlotsInv, SlotsBounded, activeJobsLocked, Busy
  <1>2. SlotsInv => SlotsBounded
    BY DEF SlotsInv
  <1> QED
    BY <1>1, <1>2, StepSlots, TableInvariant, PTL DEF Spec

-----------------------------------------------------------------------------
(* Topping up. *)

(* What a transcoder may have loaded from the cache stays there, and as complete
   as it was: the cache of a build only grows. *)
CacheGrows ==
  [][final # NoDir => final' # NoDir /\ \A f \in Libs : final[f] <= final'[f]]_vars

(* A warm cache is topped up in place, under the jobs that use it; no fetch, and
   no crash, takes a library back (fetchCodecFile, fetchCodecs). *)
THEOREM CacheOnlyGrows == Spec => CacheGrows
  <1> DEFINE Grows == final # NoDir => final' # NoDir /\ \A f \in Libs : final[f] <= final'[f]
  <1>1. IInv /\ [Next]_vars => [Grows]_vars
    <2> SUFFICES ASSUME IInv, Next PROVE Grows
      BY DEF vars
    <2>t. /\ final \in Dir \union {NoDir} /\ onMaster \in [Libs -> Published]
          /\ \A n \in Published \union {Torn} : n <= n
      BY DEF IInv, TypeOK, CodecTypeOK, Published, Absent, Part, Whole, Torn
    <2>1. CASE UNCHANGED final
      BY <2>t, <2>1 DEF Dir
    <2>2. CASE ~UNCHANGED final
      <3>1. PICK r \in Runs : FetchStep(r)
        BY <2>2 DEF Next, Codec, Fetch, Download, RefuseCold, handleProvision, CreateJob,
               CreateFails, JobSync, JobSynced, JobUnsynced, goOn, Finalize, RemoveDropped, Ages,
               Reap, ReapTable, ReapRemove, ReapEntry, Crash, CodecCrash, EndRun, codecVars
      <3>2. CASE Publish(r)
        BY <2>2, <3>2 DEF Publish
      <3>3. ASSUME NEW f \in Libs, fetchCodecFile(r, f) PROVE Grows
        <4>1. /\ run[r].at = "files" /\ ~run[r].cold
              /\ final' = [final EXCEPT ![f] = run[r].manifest[f]]
          BY <2>2, <3>3 DEF fetchCodecFile, Verified, Dest
        <4>2. final # NoDir /\ final[f] <= run[r].manifest[f]
          BY <4>1 DEF IInv, CacheInv, Assembled, FreshManifest
        <4>3. run[r].manifest[f] \in Published
          BY DEF IInv, TypeOK, CodecTypeOK, Run
        <4>4. final' \in Dir
          BY <2>t, <4>1, <4>2, <4>3 DEF Dir
        <4> QED
          BY <2>t, <4>1, <4>2, <4>4, CodecAssumption DEF Dir
      <3> QED
        BY <2>2, <3>1, <3>2, <3>3 DEF FetchStep, GetManifest, Decide, FetchFails, SkipFile
    <2> QED
      BY <2>1, <2>2
  <1> QED
    BY <1>1, TableInvariant, PTL DEF Spec, CacheGrows
=============================================================================
