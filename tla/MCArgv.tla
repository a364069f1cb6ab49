------------------------------- MODULE MCArgv -------------------------------
(* Instances of Argv for TLC: the argument lists Plex Media Server composes,
   with the names that are hard to carry through a filter string. *)
EXTENDS Argv

movie  == <<"/", "M", "/", "a", ".", "mkv">>
colon  == <<"/", "M", "/", "b", ":", ",", "b", ".", "srt">>
slash  == <<"/", "M", "/", "c", "\\", ".", "ass">>
odd    == <<"/", "M", "/", "z", ".", "a", ":", "b">>
equals == <<"/", "M", "/", "d", "=", "d", ".", "srt">>
aux    == <<"sub", ".", "srt">>
inSession == sessionDir \o <<"/">> \o aux
above  == <<"..", "/", "x", ".", "srt">>
fonts  == <<"/", "F", "/", "f", ":", "f">>
outside == <<"/", "X", "/", "e", ".", "srt">>

(* fonts is a directory. *)
MCFiles == {movie, colon, slash, odd, equals, inSession, abs(above), outside}
MCRoots == {<<"/", "M">>, <<"/", "T">>, <<"/", "F">>}

(* Plex Media Server escapes what ends a filter value. *)
Escaped(p) ==
  FlattenSeq([i \in DOMAIN p |-> IF p[i] \in Meta \union {"\\"} THEN <<"\\", p[i]>> ELSE <<p[i]>>])

Positional == {Escaped(p) : p \in {colon, slash, aux, movie, equals, odd}}
Named == {<<k, "=">> \o Escaped(p) : k \in {"f", "filename"},
                                     p \in {colon, equals, inSession, above, outside, movie}}
Further == {<<>>, <<":", "si", "=", "0">>, <<":", "fontsdir", "=", "F">>,
            <<":", "si", "=", "0", ":", "fontsdir", "=">> \o Escaped(fonts)}

Chain(in, filter, out) == <<"[">> \o in \o <<"]">> \o filter \o <<"[">> \o out \o <<"]">>
Subtitles(opts) == <<"subtitles", "=">> \o opts
Burn(filter) == Chain(<<"0", ":", "2">>, filter, <<"sub">>)

Subs == {Burn(Subtitles(o \o r)) : o \in Positional \union Named, r \in Further}
Twice == {Burn(Subtitles(o) \o <<",">> \o Subtitles(p)) : o \in Positional, p \in Named}
Fonts == {Burn(<<"inlineass", "=", "fontsdir", "=">> \o p \o r) :
            p \in {Escaped(fonts), <<"F">>}, r \in {<<>>, <<",">> \o Subtitles(aux)}}

scale  == <<"scale", "=", "w", "=", "1280", ":", "h", "=", "720">>
scales == {scale \o r : r \in {<<>>, <<":", "force_divisible_by", "=", "4">>, <<":", "flags", "=", "0">>}}
            \union {<<"scale", "=", "w", "=", "-2", ":", "h", "=", "720">>}
p010   == <<"format", "=", "p010">>
curves == {<<"tonemap", "=", "hable">>, <<"tonemap", "=", "hable", ":", "desat", "=", "0">>}
nv12   == <<"format", "=", "pix_fmts", "=", "nv12">>
upload == <<"hwupload">>

(* As Plex Media Server writes it; in one chain; with the last chains reading
   the label that has not been tonemapped; and with the filters reordered. *)
Tonemaps ==
  UNION {{Chain(v, s, <<"a">>) \o <<";">> \o Chain(<<"a">>, p010 \o <<",">> \o t, <<"b">>)
            \o <<";">> \o Chain(l, nv12, <<"c">>) \o <<";">> \o Chain(<<"c">>, upload, <<"out">>)
            : l \in {<<"a">>, <<"b">>}}
         \union {Chain(v, s \o <<",">> \o p010 \o <<",">> \o t \o <<",">> \o nv12 \o <<",">> \o upload, <<"out">>),
                 Chain(v, upload \o <<",">> \o s \o <<",">> \o p010 \o <<",">> \o t \o <<",">> \o nv12, <<"out">>)}
         : v \in {<<"0", ":", "0">>, <<"0", ":", "v", ":", "0">>, <<"x">>}, s \in scales, t \in curves}

Inputs == {movie, aux, above, <<"-">>, <<"pipe:", "0">>, <<"pms", "/", "p">>,
           <<"http", "://", "h", "/", "p">>, <<"pms", "/", "LiveTV">>,
           <<"pms", "dvr">>, <<"pms", "loudness">>}
Outputs == {<<"media-", "%05d", ".", "ts">>, sessionDir \o <<"/", "media-", "%05d", ".", "ts">>,
            <<"out", ".", "mp4">>, <<"pms", "seglist">>, <<"pms", "manifest">>}

Argv(i, g, o) ==
  << <<"-i">>, i, <<"-filter_complex">>, g, <<"-progressurl">>, <<"pms", "/", "progress">>,
     <<"-x">>, plexDir \o <<"/", "Resources">>, o>>

MCArgvs ==
  {Argv(movie, g, o) : g \in Subs \union Twice \union Fonts \union Tonemaps, o \in Outputs}
    \union {Argv(i, Burn(Subtitles(s)), o) : i \in Inputs, s \in Positional, o \in Outputs}
    \union {<< <<"-re">> >> \o Argv(movie, scale, <<"media-", "%05d">>),
            << <<"media-", "%05d">>, <<"-i">> >>, << <<"media-", "%05d">> >>}

Bundle(name, ihd) == [name |-> name, ihd |-> ihd]

MCBundles ==
  {<<>>, <<Bundle("other", TRUE)>>, <<Bundle("other", TRUE), Bundle("version", TRUE)>>,
   <<Bundle("other", TRUE), Bundle("build", FALSE)>>, <<Bundle("other", TRUE), Bundle("other", TRUE)>>}
=============================================================================
