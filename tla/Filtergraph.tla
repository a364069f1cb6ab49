----------------------------- MODULE Filtergraph -----------------------------
(***************************************************************************)
(* Argument texts and ffmpeg filtergraphs.  A text is a sequence of        *)
(* symbols, each standing for a piece of an argument: a name, a separator, *)
(* an escape.  The module holds the lexical helpers the shim's and the     *)
(* worker's rewriting share, the worker's rewriting of software tonemap    *)
(* graphs (internal/workerd/tonemap.go), and the frames a graph computes,  *)
(* against which the rewriting is checked.                                 *)
(***************************************************************************)
EXTENDS Integers, Sequences, SequencesExt

From(s, i) == SubSeq(s, i, Len(s))

Has(s, symbol) == \E i \in DOMAIN s : s[i] = symbol

First(at) == IF at = {} THEN 0 ELSE CHOOSE i \in at : \A k \in at : i <= k

(* strings.Index, from 1; 0 when key does not occur in s. *)
Index(s, key) ==
  First({i \in 1..(Len(s) - Len(key) + 1) : SubSeq(s, i, i + Len(key) - 1) = key})

(* strings.Split at every sep *)
RECURSIVE Split(_, _)
Split(s, sep) ==
  LET cut(i) == IF i = 0 THEN <<s>> ELSE <<SubSeq(s, 1, i - 1)>> \o Split(From(s, i + 1), sep)
  IN cut(Index(s, <<sep>>))

(* strings.ReplaceAll *)
RECURSIVE Replace(_, _, _)
Replace(s, old, new) ==
  LET splice(i) == IF i = 0 THEN s
                   ELSE SubSeq(s, 1, i - 1) \o new \o Replace(From(s, i + Len(old)), old, new)
  IN splice(Index(s, old))

-----------------------------------------------------------------------------
(* rewriteTonemapChain *)

Numbers == {"0", "720", "1280"}  \* the decimal numbers of the instances

isUint(s) == Len(s) = 1 /\ s[1] \in Numbers

isPositiveInt(s) == isUint(s) /\ s # <<"0">>

isVideoInputLabel(label) ==
  LET ok(p) == \/ Len(p) = 2 /\ isUint(p[1]) /\ (p[2] = <<"v">> \/ isUint(p[2]))
               \/ Len(p) = 3 /\ isUint(p[1]) /\ p[2] = <<"v">> /\ isUint(p[3])
  IN ok(Split(label, ":"))

NoChain == [in |-> <<>>, out |-> <<>>, filters |-> <<>>]

(* "[in]f1,f2[out]", or NoChain where parseFGChain refuses *)
parseFGChain(s) ==
  LET chain(in, body, out) ==
        IF in = <<>> \/ out = <<>> \/ body = <<>> \/ Has(body, "[") \/ Has(body, "]")
        THEN NoChain ELSE [in |-> in, out |-> out, filters |-> Split(body, ",")]
      after(in, rest, open) ==
        IF open = 0 \/ Last(rest) # "]" THEN NoChain
        ELSE chain(in, SubSeq(rest, 1, open - 1), SubSeq(rest, open + 1, Len(rest) - 1))
      from(end) ==
        IF end = 0 \/ s[1] # "[" THEN NoChain
        ELSE after(SubSeq(s, 2, end - 1), From(s, end + 1),
                   SelectLastInSeq(From(s, end + 1), LAMBDA c : c = "["))
  IN from(Index(s, <<"]">>))

(* The values of w and h, or <<>>: only w, h and force_divisible_by may be
   given, and the last of two values counts. *)
scaleDims(filter) ==
  LET named(o, k) == Len(o) > 1 /\ o[1] = k /\ o[2] = "="
      value(opts, k) == LET i == SelectLastInSeq(opts, LAMBDA o : named(o, k)) IN
                        IF i = 0 THEN <<>> ELSE From(opts[i], 3)
      known(o) == \E k \in {"w", "h", "force_divisible_by"} : named(o, k)
      dims(w, h) == IF isPositiveInt(w) /\ isPositiveInt(h) THEN <<w, h>> ELSE <<>>
      of(opts) == IF \A i \in DOMAIN opts : known(opts[i])
                  THEN dims(value(opts, "w"), value(opts, "h")) ELSE <<>>
  IN IF IsPrefix(<<"scale", "=">>, filter) THEN of(Split(From(filter, 3), ":")) ELSE <<>>

isCurve(filter) ==
  /\ IsPrefix(<<"tonemap", "=">>, filter) /\ Len(filter) > 2
  /\ \A i \in 3..Len(filter) : filter[i] \notin {":", "="}

knownShape(filters) ==
  /\ Len(filters) = 5
  /\ scaleDims(filters[1]) # <<>>
  /\ filters[2] = <<"format", "=", "p010">>
  /\ isCurve(filters[3])
  /\ filters[4] = <<"format", "=", "pix_fmts", "=", "nv12">>
  /\ filters[5] = <<"hwupload">>

linear_Any(chains) ==  \* mutant: the labels are not compared
  /\ NoChain \notin ToSet(chains)
  /\ isVideoInputLabel(chains[1].in)

(* Every chain parses, the first reads a video input, and each other one
   reads what the chain before it wrote. *)
linear(chains) ==
  /\ NoChain \notin ToSet(chains)
  /\ isVideoInputLabel(chains[1].in)
  /\ \A i \in 2..Len(chains) : chains[i].in = chains[i - 1].out

chainsOf(graph) ==
  LET parse(parts) == [i \in DOMAIN parts |-> parseFGChain(parts[i])] IN parse(Split(graph, ";"))

rewriteTonemapChain(graph) ==
  LET vaapi(in, dims, out) ==
        <<"[">> \o in \o <<"]", "hwupload", ",", "scale_vaapi", "=", "w", "=">>
        \o dims[1] \o <<":", "h", "=">> \o dims[2]
        \o <<",", "tonemap_vaapi", "=", "format", "=", "nv12", "[">> \o out \o <<"]">>
      rewrite(chains, filters) ==
        IF linear(chains) /\ knownShape(filters)
        THEN vaapi(chains[1].in, scaleDims(filters[1]), Last(chains).out) ELSE graph
      of(chains) == rewrite(chains, FlattenSeq([i \in DOMAIN chains |-> chains[i].filters]))
  IN of(chainsOf(graph))

-----------------------------------------------------------------------------
(* Reference: what ffmpeg makes of a graph whose chains have one input and
   one output each.  A filter on the wrong side of hwupload is an error. *)

Decoded(input) ==
  [src |-> input, mem |-> "sys", w |-> <<>>, h |-> <<>>, pix |-> "hdr", sdr |-> FALSE]

option(filter, k) ==
  LET at(i) == IF i = 0 THEN <<>> ELSE SubSeq(filter, i + 2, i + 2)
  IN at(Index(filter, <<k, "=">>))

sized(frame, filter) ==
  [frame EXCEPT !.w = option(filter, "w"), !.h = option(filter, "h")]

apply(frame, filter) ==
  CASE filter[1] = "scale" /\ frame.mem = "sys" -> sized(frame, filter)
    [] filter[1] = "scale_vaapi" /\ frame.mem = "gpu" -> sized(frame, filter)
    [] filter[1] = "format" /\ frame.mem = "sys" -> [frame EXCEPT !.pix = Last(filter)]
    [] filter[1] = "tonemap" /\ frame.mem = "sys" -> [frame EXCEPT !.sdr = TRUE]
    [] filter[1] = "tonemap_vaapi" /\ frame.mem = "gpu" ->
         [frame EXCEPT !.sdr = TRUE, !.pix = Last(filter)]
    [] filter[1] = "hwupload" /\ frame.mem = "sys" -> [frame EXCEPT !.mem = "gpu"]
    [] OTHER -> [frame EXCEPT !.mem = "error"]

(* The frame at a label: from the input, or from the chain that writes it. *)
RECURSIVE frameAt(_, _)
frameAt(label, chains) ==
  LET written(c) == IF c = 0 THEN Decoded(label)
                    ELSE FoldLeft(apply, frameAt(chains[c].in, chains), chains[c].filters)
  IN written(SelectInSeq(chains, LAMBDA x : x.out = label))

frames(graph) ==
  LET of(chains) == [out |-> Last(chains).out, frame |-> frameAt(Last(chains).out, chains)]
  IN of(chainsOf(graph))
=============================================================================
