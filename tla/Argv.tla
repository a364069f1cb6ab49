-------------------------------- MODULE Argv --------------------------------
(***************************************************************************)
(* The argument list of one transcode on its way from Plex Media Server to *)
(* the worker's transcoder: the shim classifies it and replaces every      *)
(* master path by a placeholder (internal/shim/classify.go, rewrite.go);   *)
(* the worker fetches the small files and fills in local values            *)
(* (internal/workerd/job.go prepare, subst.go).  The graphs of             *)
(* -filter_complex are Filtergraph's.  Paths and arguments are texts.      *)
(***************************************************************************)
EXTENDS Filtergraph, TLC

CONSTANTS
  Argvs,        \* the argument lists Plex Media Server may compose
  Bundles,      \* the lists of driver bundles a worker may hold
  MasterFiles,  \* regular files on the master
  Roots         \* masterd's media_roots and its transcode_root

VARIABLES
  args,         \* os.Args[1:] of the shim
  stage,
  argv, media,  \* JobRequest.Argv and .Media
  values,       \* what prepare() has found for each placeholder so far
  spooled,      \* the files in the job's spool dir, by the file they copy
  driver        \* LIBVA_DRIVERS_PATH of the transcoder

vars == <<args, stage, argv, media, values, spooled, driver>>

sessionDir == <<"/", "T", "/", "S">>
plexDir    == <<"/", "P">>
outDir     == <<"/", "J", "/", "out">>         \* the worker's
spoolDir   == <<"/", "J", "/", "spool">>
workerPlex == <<"/", "W">>
proxyBase  == <<"http", "://", "relay">>

PMSURLPrefix == "pms"  \* "http://127.0.0.1:32400"
PlaceholderPMS     == <<"{{PMS}}">>
PlaceholderOutDir  == <<"{{OUTDIR}}">>
PlaceholderPlexDir == <<"{{PLEXDIR}}">>

(* The ':' in it ends a filter value. *)
MediaPlaceholder(n) == <<"{{MEDIA", ":", ToString(n), "}}">>

-----------------------------------------------------------------------------
(* classifyLocal.  The symbols dvr, seglist and manifest include the slash before
   them, and %05d stands for every segment template. *)

ToLower(s) == [i \in DOMAIN s |-> IF s[i] = "LiveTV" THEN "livetv" ELSE s[i]]

classifyLocal(a) ==
  LET has(symbol) == \E i \in DOMAIN a : Has(ToLower(a[i]), symbol)
      inputs == {i \in DOMAIN a : a[i] = <<"-i">>}
  IN \/ has("loudness") \/ has("livetv") \/ has("dvr") \/ Has(a, <<"-re">>)
     \/ \E i \in inputs : i = Len(a) \/ a[i + 1] = <<"-">> \/ IsPrefix(<<"pipe:">>, a[i + 1])
     \/ inputs = {}
     \/ ~has("%05d") /\ ~has("seglist") /\ ~has("manifest")

-----------------------------------------------------------------------------
(* Paths *)

(* filepath.Clean of an absolute path *)
Clean(p) ==
  LET step(acc, c) == CASE c \in {<<>>, <<".">>} -> acc
                        [] c = <<"..">> -> IF acc = <<>> THEN acc ELSE Front(acc)
                        [] OTHER -> Append(acc, <<"/">> \o c)
  IN FlattenSeq(FoldLeft(step, <<>>, Split(p, "/")))

abs(p) == Clean(IF IsPrefix(<<"/">>, p) THEN p ELSE sessionDir \o <<"/">> \o p)

atOrUnder(root, p) == p = root \/ root = <<"/">> \/ IsPrefix(root \o <<"/">>, p)

underSessionDir(p) == p = sessionDir \/ IsPrefix(sessionDir \o <<"/">>, p)

(* filepath.Ext *)
Ext(p) ==
  LET from(dot) == IF dot > SelectLastInSeq(p, LAMBDA c : c = "/") THEN From(p, dot) ELSE <<>>
  IN from(SelectLastInSeq(p, LAMBDA c : c = "."))

Reserved == {"/", ":", "=", ",", "\\", "[", "]", ";"}

(* url.QueryEscape, and the way back *)
QueryEscape(p) == [i \in DOMAIN p |-> IF p[i] \in Reserved THEN "%" \o p[i] ELSE p[i]]
Unquote(q) ==
  [i \in DOMAIN q |-> IF \E r \in Reserved : "%" \o r = q[i]
                      THEN CHOOSE r \in Reserved : "%" \o r = q[i] ELSE q[i]]

MediaURL == <<"http", "://", "masterd", "/v1/media?path=">>

(* The signature and the expiry are left out. *)
signedMediaURL(p) == MediaURL \o QueryEscape(p)
pathOf(url) == Unquote(From(url, Len(MediaURL) + 1))

-----------------------------------------------------------------------------
(* The rewriter.  Its functions return the text they write and the media
   map, which they may extend. *)

Written(t, m) == [text |-> t, media |-> m]

(* Entry i of the map is the media input i - 1. *)
mediaEntry(ref, known, m) ==
  IF known # 0 THEN Written(MediaPlaceholder(known - 1), m)
  ELSE Written(MediaPlaceholder(Len(m)), Append(m, ref))

addMedia_ByPath(p, mode, m) ==  \* mutant: one placeholder per file, whatever the mode
  LET entry(ref) == mediaEntry(ref, First({i \in DOMAIN m : m[i].url = ref.url}), m)
  IN entry([url |-> signedMediaURL(p), mode |-> mode])

addMedia(p, mode, m) ==
  LET entry(ref) == mediaEntry(ref, First({i \in DOMAIN m : m[i] = ref}), m)
  IN entry([url |-> signedMediaURL(p), mode |-> mode])

(* Position i of a filter string follows a backslash that is not escaped. *)
escapedAt(s) ==
  LET e[i \in DOMAIN s] == i > 1 /\ s[i - 1] = "\\" /\ ~e[i - 1] IN e

Meta == {":", ",", ";", "[", "]"}

(* The length of the filter value s starts with *)
cutFilterValue(s) ==
  LET length(end) == IF end = 0 THEN Len(s) ELSE end - 1
      ends(e) == {i \in DOMAIN s : s[i] \in Meta /\ ~e[i]}
  IN length(First(ends(escapedAt(s))))

unescapeFilter(s) ==
  LET kept(e) == SelectSeq([i \in DOMAIN s |-> i], LAMBDA i : s[i] # "\\" \/ e[i] \/ i = Len(s))
      texts(k) == [i \in DOMAIN k |-> s[k[i]]]
  IN texts(kept(escapedAt(s)))

spoolRef(v, m) == addMedia(abs(unescapeFilter(v)), "spool", m)

(* One option of a subtitles filter *)
rewriteOption(val, first, m) ==
  LET named(key, ref) == Written(key \o <<"=">> \o ref.text, ref.media)
      at(eq) ==
        CASE SubSeq(val, 1, eq - 1) \in {<<"filename">>, <<"f">>, <<"fontsdir">>} ->
               named(SubSeq(val, 1, eq - 1), spoolRef(From(val, eq + 1), m))
          [] eq = 0 /\ first /\ val # <<>> -> spoolRef(val, m)
          [] OTHER -> Written(val, m)
  IN at(Index(val, <<"=">>))

(* The options up to the end of the filter; rest is what follows it. *)
RECURSIVE rewriteOptions(_, _, _)
rewriteOptions(s, first, m) ==
  LET goOn(n, opt) ==
        IF n < Len(s) /\ s[n + 1] = ":"
        THEN [rewriteOptions(From(s, n + 2), FALSE, opt.media) EXCEPT
                !.text = opt.text \o <<":">> \o @]
        ELSE [text |-> opt.text, media |-> opt.media, rest |-> From(s, n + 1)]
      cut(n) == goOn(n, rewriteOption(SubSeq(s, 1, n), first, m))
  IN cut(cutFilterValue(s))

(* More text behind what is written *)
After(text, more) == Written(text \o more.text, more.media)

RECURSIVE rewriteSubtitlesOpts(_, _)
rewriteSubtitlesOpts(s, m) ==
  LET goOn(before, opts) ==
        After(before \o opts.text, rewriteSubtitlesOpts(opts.rest, opts.media))
      at(i) == IF i = 0 THEN Written(s, m)
               ELSE goOn(SubSeq(s, 1, i + 1), rewriteOptions(From(s, i + 2), TRUE, m))
  IN at(Index(s, <<"subtitles", "=">>))

(* The values after every key that rewriteSubtitlesOpts has left alone *)
RECURSIVE rewriteKeyValues(_, _, _)
rewriteKeyValues(s, key, m) ==
  LET ref(val) == IF val = <<>> \/ val[1] = "{{MEDIA" THEN Written(val, m) ELSE spoolRef(val, m)
      goOn(before, new, rest) ==
        After(before \o new.text, rewriteKeyValues(rest, key, new.media))
      cut(before, tail, n) == goOn(before, ref(SubSeq(tail, 1, n)), From(tail, n + 1))
      value(before, tail) == cut(before, tail, cutFilterValue(tail))
      at(i) == IF i = 0 THEN Written(s, m)
               ELSE value(SubSeq(s, 1, i - 1) \o key, From(s, i + Len(key)))
  IN at(Index(s, key))

rewriteFilterRefs(s, m) ==
  LET fonts(subs) == rewriteKeyValues(subs.text, <<"fontsdir", "=">>, subs.media)
  IN fonts(rewriteSubtitlesOpts(s, m))

(* A value that follows -i *)
rewriteInput(v, m) ==
  LET file(p) == addMedia(p, IF underSessionDir(p) THEN "spool" ELSE "stream", m) IN
  CASE Has(v, PMSURLPrefix) -> Written(Replace(v, <<PMSURLPrefix>>, PlaceholderPMS), m)
    [] Has(v, "://") -> Written(v, m)
    [] OTHER -> file(abs(v))

(* Every other argument *)
rewriteToken(a, m) ==
  LET under(dir, t) == IsPrefix(dir \o <<"/">>, t)
      local(r) ==
        CASE under(sessionDir, r.text) ->
               Written(PlaceholderOutDir \o From(r.text, Len(sessionDir) + 1), r.media)
          [] under(plexDir, r.text) ->
               Written(PlaceholderPlexDir \o From(r.text, Len(plexDir) + 1), r.media)
          [] OTHER -> r
  IN local(rewriteFilterRefs(Replace(a, <<PMSURLPrefix>>, PlaceholderPMS), m))

isInput(a, i) == i > 1 /\ a[i - 1] = <<"-i">>  \* no value of an instance is "-i"

rewriteArgs(a) ==
  LET add(argvs, r) == [argv |-> Append(argvs, r.text), media |-> r.media]
      step(acc, i) == add(acc.argv, IF isInput(a, i) THEN rewriteInput(a[i], acc.media)
                                    ELSE rewriteToken(a[i], acc.media))
  IN FoldLeft(step, [argv |-> <<>>, media |-> <<>>], [i \in DOMAIN a |-> i])

-----------------------------------------------------------------------------
(* The worker: prepare() *)

(* handleMedia of masterd: 403 outside the roots, 404 for what is missing or a
   directory. *)
handleMedia(p) == p \in MasterFiles /\ \E root \in Roots : atOrUnder(root, p)

spoolName(n, path) == spoolDir \o <<"/", "m", ToString(n)>> \o Ext(path)

(* The bundle that matches the build, in the order of the listing, or the only
   one that holds a driver. *)
driverDriDir(list) ==
  LET among(have, match) ==
        CASE match > 0 -> have[match].name
          [] match = 0 /\ Len(have) = 1 -> have[1].name
          [] OTHER -> "none"
      of(have) == among(have, SelectInSeq(have, LAMBDA b : b.name \in {"build", "version"}))
  IN of(SelectSeq(list, LAMBDA b : b.ihd))

(* The code takes the placeholders in the random order of its map: no value
   holds a placeholder, so the order makes no difference. *)
substitute(token, vals) ==
  LET fill(acc, i) == Replace(acc, MediaPlaceholder(i - 1), vals[i])
  IN FoldLeft(fill, Replace(Replace(Replace(token, PlaceholderOutDir, outDir),
                                    PlaceholderPMS, proxyBase), PlaceholderPlexDir, workerPlex),
              [i \in DOMAIN vals |-> i])

unresolved(token) == Has(token, "{{MEDIA")

(* With a driver, the first -filter_complex is moved onto the worker's GPU. *)
rewriteFilterComplex(a, dri) ==
  LET at(i) == IF dri = "none" \/ i = 0 \/ i = Len(a) THEN a
               ELSE [a EXCEPT ![i + 1] = rewriteTonemapChain(@)]
  IN at(SelectInSeq(a, LAMBDA t : t = <<"-filter_complex">>))

-----------------------------------------------------------------------------
Init ==
  /\ args \in Argvs
  /\ stage = "classify"
  /\ argv = <<>> /\ media = <<>> /\ values = <<>> /\ spooled = <<>>
  /\ driver = "none"

Classify ==
  /\ stage = "classify"
  /\ stage' = IF classifyLocal(args) THEN "local" ELSE "rewrite"
  /\ UNCHANGED <<args, argv, media, values, spooled, driver>>

RewriteArgs ==
  /\ stage = "rewrite"
  /\ \E r \in {rewriteArgs(args)} : argv' = r.argv /\ media' = r.media
  /\ stage' = "prepare"
  /\ UNCHANGED <<args, values, spooled, driver>>

next == Len(values) + 1  \* the media input prepare() looks at

UseStream ==
  /\ stage = "prepare" /\ next <= Len(media) /\ media[next].mode = "stream"
  /\ values' = Append(values, media[next].url)
  /\ UNCHANGED <<args, stage, argv, media, spooled, driver>>

Spool ==
  /\ stage = "prepare" /\ next <= Len(media) /\ media[next].mode = "spool"
  /\ \E path \in {pathOf(media[next].url)} :
     /\ handleMedia(path)
     /\ values' = Append(values, spoolName(next - 1, path))
     /\ spooled' = (spoolName(next - 1, path) :> path) @@ spooled
  /\ UNCHANGED <<args, stage, argv, media, driver>>

(* Any answer but 200, a transport error, or spoolTimeout *)
SpoolFails ==
  /\ stage = "prepare" /\ next <= Len(media) /\ media[next].mode = "spool"
  /\ stage' = "failed"
  /\ UNCHANGED <<args, argv, media, values, spooled, driver>>

(* The end of prepare().  What it refuses first, an argv of one token, cannot
   come: a list that is not classified local has an -i and its value. *)
SubstituteArgv ==
  /\ stage = "prepare" /\ next > Len(media)
  /\ \E list \in Bundles, final \in {[i \in DOMAIN argv |-> substitute(argv[i], values)]} :
     IF \E i \in DOMAIN final : unresolved(final[i])
     THEN stage' = "failed" /\ UNCHANGED <<argv, driver>>
     ELSE /\ stage' = "ready"
          /\ driver' = driverDriDir(list)
          /\ argv' = rewriteFilterComplex(final, driver')
  /\ UNCHANGED <<args, media, values, spooled>>

Next == Classify \/ RewriteArgs \/ UseStream \/ Spool \/ SpoolFails \/ SubstituteArgv

Spec == Init /\ [][Next]_vars

-----------------------------------------------------------------------------
(* Reference: what ffmpeg opens, given its arguments.  A reader resolves the
   name of an input or of a filter's file to the file of the master it stands
   for, so that the original arguments and the worker's can be compared. *)

(* s cut at every separator that is not escaped *)
RECURSIVE ffSplit(_, _)
ffSplit(s, seps) ==
  LET at(i) == IF i = 0 THEN <<s>> ELSE <<SubSeq(s, 1, i - 1)>> \o ffSplit(From(s, i + 1), seps)
      cuts(e) == {i \in DOMAIN s : s[i] \in seps /\ ~e[i]}
  IN at(First(cuts(escapedAt(s))))

ffUnescape(s) ==
  LET kept(e) == SelectSeq([i \in DOMAIN s |-> i], LAMBDA i : s[i] # "\\" \/ e[i])
      texts(k) == [i \in DOMAIN k |-> s[k[i]]]
  IN texts(kept(escapedAt(s)))

ffOptions == {"f", "filename", "fontsdir", "si", "force_style"}
ffFiles   == {<<"f">>, <<"filename">>, <<"fontsdir">>}

(* One filter of a graph: its name and options; only subtitles takes a file
   without a name, and first. *)
ffFilter(f, file(_)) ==
  LET value(key, text) == IF key \in ffFiles THEN file(ffUnescape(text)) ELSE text
      read(name, o, i, e) ==
        CASE e = 2 /\ o[1] \in ffOptions -> <<<<o[1]>>, value(<<o[1]>>, From(o, 3))>>
          [] i = 1 /\ name = <<"subtitles">> -> <<<<>>, value(<<"filename">>, o)>>
          [] OTHER -> <<<<>>, o>>
      all(name, opts) ==
        <<<<name, <<>>>>>> \o [i \in DOMAIN opts |-> read(name, opts[i], i, Index(opts[i], <<"=">>))]
      at(eq) == IF eq = 0 THEN <<<<f, <<>>>>>>
                ELSE all(SubSeq(f, 1, eq - 1), ffSplit(From(f, eq + 1), {":"}))
  IN at(Index(f, <<"=">>))

ffGraph(g, file(_)) ==
  LET read(parts) == FlattenSeq([i \in DOMAIN parts |-> ffFilter(parts[i], file)])
  IN read(ffSplit(g, {",", ";", "[", "]"}))

isGraph(a, i) == i > 1 /\ a[i - 1] = <<"-filter_complex">>

(* What the transcoder does with each of its arguments *)
ffReads(a, input(_), file(_), text(_)) ==
  [i \in DOMAIN a |->
     CASE isInput(a, i) -> <<<<<<"input">>, input(a[i])>>>>
       [] isGraph(a, i) /\ (Has(a[i], "subtitles") \/ Has(a[i], "fontsdir")) -> ffGraph(a[i], file)
       [] isGraph(a, i) -> <<>>  \* opens no file: SameFrames
       [] OTHER -> <<<<<<"text">>, text(a[i])>>>>]

onMaster ==
  LET file(v)  == <<"file">> \o abs(v)
      input(v) == IF v = <<"-">> \/ v[1] = "pipe:" THEN <<"stdin">>
                  ELSE IF Has(v, "://") \/ Has(v, PMSURLPrefix) THEN v ELSE file(v)
      text(v)  == v
  IN ffReads(args, input, file, text)

onWorker(a, copies) ==
  LET pms(v)   == Replace(v, proxyBase, <<PMSURLPrefix>>)
      file(v)  == IF v \in DOMAIN copies THEN <<"file">> \o copies[v] ELSE <<"no such file">>
      input(v) == CASE IsPrefix(MediaURL, v) -> <<"file">> \o pathOf(v)
                    [] Has(v, "://") -> pms(v)
                    [] OTHER -> file(v)
      text(v)  == CASE IsPrefix(outDir \o <<"/">>, v) -> sessionDir \o From(v, Len(outDir) + 1)
                    [] IsPrefix(workerPlex \o <<"/">>, v) -> plexDir \o From(v, Len(workerPlex) + 1)
                    [] OTHER -> pms(v)
  IN ffReads(a, input, file, text)

-----------------------------------------------------------------------------
(* Properties *)

(* The transcoder the request describes, were every transfer to succeed *)
asRequested ==
  LET local(path, i) == IF media[i].mode = "stream" THEN media[i].url ELSE spoolName(i - 1, path)
      copies(vals) ==
        [v \in {vals[i] : i \in {k \in DOMAIN media : media[k].mode = "spool"}} |->
           pathOf(media[First({i \in DOMAIN media : vals[i] = v})].url)]
      with(vals) == onWorker([i \in DOMAIN argv |-> substitute(argv[i], vals)], copies(vals))
  IN with([i \in DOMAIN media |-> local(pathOf(media[i].url), i)])

(* What the rewriting does not carry over: a positional name with an equals sign,
   and a file in a filter whose extension holds what ends a value (README). *)
hardName(i, key, v) ==
  /\ isGraph(args, i) /\ IsPrefix(<<"file">>, v)
  /\ (key = <<>> /\ Has(v, "=")) \/ \E c \in Meta : Has(Ext(v), c)

hardNames ==
  LET among(reads) == \E i \in DOMAIN reads : \E k \in DOMAIN reads[i] :
                        hardName(i, reads[i][k][1], reads[i][k][2])
  IN among(onMaster)

(* The worker's transcoder opens the files the master's would have opened, at
   the same places of its arguments, with every other option as it was: the
   placeholders, the escapes, the shared entries of the media map and the local
   names all cancel out, in the request and in the process that is started. *)
ArgvFaithful ==
  /\ stage = "prepare" => asRequested = onMaster \/ hardNames
  /\ stage = "ready" => onWorker(argv, spooled) = onMaster \/ hardNames

(* A graph the worker rewrites computes the frames Plex Media Server asked for,
   from the same input to the same output, and only in a job whose environment
   names the driver that the filters of the GPU need. *)
SameFrames ==
  stage = "ready" => \A i \in DOMAIN args :
    isGraph(args, i) /\ argv[i] # args[i] /\ ~Has(args[i], "subtitles") /\ ~Has(args[i], "fontsdir")
      => frames(argv[i]) = frames(args[i]) /\ driver # "none"
=============================================================================
