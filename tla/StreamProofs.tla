---------------------------- MODULE StreamProofs ----------------------------
(***************************************************************************)
(* What a client of EventHub is told, proved for any number of clients and *)
(* lines: the states of the job without gap or repetition, the lines in    *)
(* order.  The first part is about the filter `only' alone; it rests on    *)
(* induction over the length of a sequence, for which the least element of *)
(* a set of naturals is taken from the theorems on well-founded relations. *)
(***************************************************************************)
EXTENDS EventHubProofs, WellFoundedInduction

-----------------------------------------------------------------------------
(* Induction, for a set in place of a predicate. *)

Less == {p \in Nat \X Nat : p[1] < p[2]}

(* The order of the naturals is well-founded. *)
LEMMA LessWellFounded == IsWellFoundedOn(Less, Nat)
  BY NatLessThanWellFounded DEF OpToRel, Less

(* Less is that order. *)
LEMMA LessPair ==
  ASSUME NEW m \in Nat, NEW n \in Nat, m < n
  PROVE  <<m, n>> \in Less
  <1>1. <<m, n>> \in Nat \X Nat /\ <<m, n>>[1] = m /\ <<m, n>>[2] = n
    OBVIOUS
  <1> QED
    BY <1>1 DEF Less

(* A set that holds zero and the successor of each of its members holds every
   natural number. *)
LEMMA NatSet ==
  ASSUME NEW T, 0 \in T, \A n \in Nat : n \in T => n + 1 \in T
  PROVE  Nat \subseteq T
  <1> SUFFICES ASSUME Nat \ T # {} PROVE FALSE
    OBVIOUS
  <1>1. PICK x \in Nat \ T : \A y \in Nat \ T : <<y, x>> \notin Less
    BY LessWellFounded, WFMin, Nat \ T \subseteq Nat
  <1>2. x \in Nat /\ x # 0 /\ x - 1 \in Nat /\ x - 1 < x /\ x - 1 + 1 = x
    BY <1>1
  <1>3. x - 1 \in T
    BY <1>1, <1>2, LessPair
  <1> QED
    BY <1>1, <1>2, <1>3

(* An element appended to the second of two sequences is appended to both. *)
LEMMA ConcatAppend ==
  ASSUME NEW R, NEW s \in Seq(R), NEW t \in Seq(R), NEW e \in R
  PROVE  s \o Append(t, e) = Append(s \o t, e) /\ s \o t \in Seq(R)
  <1>1. <<e>> \in Seq(R) /\ s \o t \in Seq(R)
    BY ConcatProperties
  <1>2. Append(t, e) = t \o <<e>> /\ Append(s \o t, e) = (s \o t) \o <<e>>
    BY <1>1, AppendIsConcat
  <1> QED
    BY <1>1, <1>2, ConcatAssociative

(* A set that holds the empty sequence, and each sequence once it holds it
   without its last element, holds every sequence. *)
LEMMA SeqSet ==
  ASSUME NEW R, NEW T, <<>> \in T,
         \A s \in Seq(R), e \in R : s \in T => Append(s, e) \in T
  PROVE  Seq(R) \subseteq T
  <1> DEFINE N == {n \in Nat : \A s \in Seq(R) : Len(s) = n => s \in T}
  <1>1. 0 \in N
    <2>1. \A s \in Seq(R) : Len(s) = 0 => s = <<>>
      BY EmptySeq
    <2> QED
      BY <2>1
  <1>2. ASSUME NEW n \in Nat, n \in N PROVE n + 1 \in N
    <2> SUFFICES ASSUME NEW s \in Seq(R), Len(s) = n + 1 PROVE s \in T
      OBVIOUS
    <2>1. s # <<>>
      BY EmptySeq
    <2>2. PICK u \in Seq(R), e \in R : s = Append(u, e)
      BY <2>1, SequenceEmptyOrAppend
    <2>3. Len(u) = n
      BY <2>2, AppendProperties, LenProperties
    <2> QED
      BY <1>2, <2>2, <2>3
  <1> HIDE DEF N
  <1>3. Nat \subseteq N
    BY <1>1, <1>2, NatSet
  <1>4. ASSUME NEW s \in Seq(R) PROVE s \in T
    BY <1>3, LenProperties DEF N
  <1> QED
    BY <1>4

-----------------------------------------------------------------------------
(* The filter `only'. *)

(* f holds what is kept of each of the first n prefixes of s. *)
IsKept(f, s, S, n) ==
  f = [i \in 0..n |->
         IF i = 0 THEN <<>>
         ELSE IF s[i] \in S THEN Append(f[i - 1], s[i]) ELSE f[i - 1]]

(* What it holds at one prefix. *)
LEMMA KeptAt ==
  ASSUME NEW f, NEW s, NEW S, NEW n \in Nat, IsKept(f, s, S, n), NEW i \in 0..n
  PROVE  f[i] = IF i = 0 THEN <<>>
                ELSE IF s[i] \in S THEN Append(f[i - 1], s[i]) ELSE f[i - 1]
  BY DEF IsKept

(* The recursion of `only' defines a function. *)
LEMMA KeptExists ==
  ASSUME NEW s, NEW S
  PROVE  \A n \in Nat : \E f : IsKept(f, s, S, n)
  <1> DEFINE T == {n \in Nat : \E f : IsKept(f, s, S, n)}
  <1>1. 0 \in T
    <2>1. IsKept([i \in 0..0 |-> <<>>], s, S, 0)
      BY DEF IsKept
    <2> QED
      BY <2>1
  <1>2. ASSUME NEW n \in Nat, n \in T PROVE n + 1 \in T
    <2>1. PICK f : IsKept(f, s, S, n)
      BY <1>2
    <2> DEFINE more == IF s[n + 1] \in S THEN Append(f[n], s[n + 1]) ELSE f[n]
    <2> DEFINE g == [i \in 0..(n + 1) |-> IF i = n + 1 THEN more ELSE f[i]]
    <2>2. ASSUME NEW i \in 0..(n + 1)
          PROVE  g[i] = IF i = 0 THEN <<>>
                        ELSE IF s[i] \in S THEN Append(g[i - 1], s[i]) ELSE g[i - 1]
      <3>1. CASE i = n + 1
        <4>1. i # 0 /\ i - 1 = n /\ n \in 0..(n + 1) /\ n # n + 1
          BY <3>1
        <4> QED
          BY <3>1, <4>1
      <3>2. CASE i # n + 1
        <4>1. i \in 0..n /\ (i # 0 => i - 1 \in 0..n /\ i - 1 \in 0..(n + 1) /\ i - 1 # n + 1)
          BY <3>2
        <4>2. f[i] = IF i = 0 THEN <<>>
                     ELSE IF s[i] \in S THEN Append(f[i - 1], s[i]) ELSE f[i - 1]
          BY <2>1, <4>1 DEF IsKept
        <4> HIDE DEF more
        <4> QED
          BY <3>2, <4>1, <4>2
      <3> QED
        BY <3>1, <3>2
    <2>3. IsKept(g, s, S, n + 1)
      <3>1. g = [i \in 0..(n + 1) |-> g[i]]
        OBVIOUS
      <3> HIDE DEF g
      <3> QED
        BY <2>2, <3>1 DEF IsKept
    <2> QED
      BY <2>3
  <1> HIDE DEF T
  <1>3. Nat \subseteq T
    BY <1>1, <1>2, NatSet
  <1> QED
    BY <1>3 DEF T

(* It reads no more of the sequence than the prefix it is about. *)
LEMMA KeptAgree ==
  ASSUME NEW S, NEW s, NEW t, NEW n \in Nat, NEW m \in Nat, n <= m,
         \A i \in 1..n : s[i] = t[i],
         NEW f, IsKept(f, s, S, n), NEW g, IsKept(g, t, S, m)
  PROVE  f[n] = g[n]
  <1> DEFINE T == {i \in Nat : i <= n => f[i] = g[i]}
  <1>1. 0 \in T
    BY DEF IsKept
  <1>2. ASSUME NEW i \in Nat, i \in T PROVE i + 1 \in T
    <2> SUFFICES ASSUME i + 1 <= n PROVE f[i + 1] = g[i + 1]
      OBVIOUS
    <2>1. /\ i + 1 \in 0..n /\ i + 1 \in 0..m /\ i + 1 # 0 /\ i + 1 - 1 = i
          /\ s[i + 1] = t[i + 1] /\ i <= n
      OBVIOUS
    <2>2. f[i] = g[i]
      BY <1>2, <2>1
    <2>3. f[i + 1] = IF s[i + 1] \in S THEN Append(f[i], s[i + 1]) ELSE f[i]
      <3> DEFINE j == i + 1
      <3>1. f[j] = IF j = 0 THEN <<>>
                   ELSE IF s[j] \in S THEN Append(f[j - 1], s[j]) ELSE f[j - 1]
        BY <2>1, KeptAt
      <3> QED
        BY <2>1, <3>1
    <2>4. g[i + 1] = IF t[i + 1] \in S THEN Append(g[i], t[i + 1]) ELSE g[i]
      <3> DEFINE j == i + 1
      <3>1. g[j] = IF j = 0 THEN <<>>
                   ELSE IF t[j] \in S THEN Append(g[j - 1], t[j]) ELSE g[j - 1]
        BY <2>1, KeptAt
      <3> QED
        BY <2>1, <3>1
    <2> QED
      BY <2>1, <2>2, <2>3, <2>4
  <1> HIDE DEF T
  <1>3. Nat \subseteq T
    BY <1>1, <1>2, NatSet
  <1> QED
    BY <1>3 DEF T

(* The choice in the definition of `only' is such a function. *)
LEMMA OnlyKept ==
  ASSUME NEW s, NEW S, Len(s) \in Nat
  PROVE  \E f : IsKept(f, s, S, Len(s)) /\ only(s, S) = f[Len(s)]
  <1> DEFINE k == CHOOSE f : IsKept(f, s, S, Len(s))
  <1>1. IsKept(k, s, S, Len(s))
    BY KeptExists
  <1>2. only(s, S) = k[Len(s)]
    BY DEF only, IsKept
  <1> QED
    BY <1>1, <1>2

(* Nothing is kept of nothing. *)
LEMMA OnlyEmpty == ASSUME NEW S PROVE only(<<>>, S) = <<>>
  <1>1. PICK f : IsKept(f, <<>>, S, 0) /\ only(<<>>, S) = f[0]
    BY OnlyKept
  <1> QED
    BY <1>1, KeptAt

(* A new last element is kept or not. *)
LEMMA OnlyAppend ==
  ASSUME NEW R, NEW s \in Seq(R), NEW e \in R, NEW S
  PROVE  only(Append(s, e), S) = IF e \in S THEN Append(only(s, S), e) ELSE only(s, S)
  <1> DEFINE t == Append(s, e)
             n == Len(s)
  <1>1. n \in Nat /\ Len(t) = n + 1 /\ t[n + 1] = e /\ \A i \in 1..n : s[i] = t[i]
    BY LenProperties, AppendProperties
  <1> HIDE DEF t, n
  <1>2. PICK f : IsKept(f, s, S, n) /\ only(s, S) = f[n]
    BY <1>1, OnlyKept DEF n
  <1>3. PICK g : IsKept(g, t, S, n + 1) /\ only(t, S) = g[n + 1]
    BY <1>1, OnlyKept
  <1>4. f[n] = g[n]
    BY <1>1, <1>2, <1>3, KeptAgree, n <= n + 1, n + 1 \in Nat
  <1>5. g[n + 1] = IF t[n + 1] \in S THEN Append(g[n], t[n + 1]) ELSE g[n]
    <2> DEFINE j == n + 1
    <2>1. j \in 0..j /\ j \in Nat /\ j # 0 /\ j - 1 = n
      BY <1>1
    <2>2. g[j] = IF j = 0 THEN <<>>
                 ELSE IF t[j] \in S THEN Append(g[j - 1], t[j]) ELSE g[j - 1]
      BY <1>3, <2>1, KeptAt
    <2> QED
      BY <2>1, <2>2
  <1> QED
    BY <1>1, <1>2, <1>3, <1>4, <1>5 DEF t

(* What is kept is a sequence of elements of s that are in S. *)
LEMMA OnlyType ==
  ASSUME NEW R, NEW S
  PROVE  \A s \in Seq(R) : only(s, S) \in Seq(R \cap S)
  <1> DEFINE T == {s \in Seq(R) : only(s, S) \in Seq(R \cap S)}
  <1>1. <<>> \in T
    BY OnlyEmpty, EmptySeq
  <1>2. ASSUME NEW s \in Seq(R), NEW e \in R, s \in T PROVE Append(s, e) \in T
    <2>1. Append(s, e) \in Seq(R)
      BY AppendProperties
    <2>2. only(Append(s, e), S) = IF e \in S THEN Append(only(s, S), e) ELSE only(s, S)
      BY OnlyAppend
    <2>3. only(s, S) \in Seq(R \cap S)
      BY <1>2
    <2>4. e \in S => Append(only(s, S), e) \in Seq(R \cap S)
      BY <2>3, AppendProperties
    <2> QED
      BY <2>1, <2>2, <2>3, <2>4
  <1> HIDE DEF T
  <1>3. Seq(R) \subseteq T
    BY <1>1, <1>2, SeqSet
  <1> QED
    BY <1>3 DEF T

(* A sequence of elements of S is kept whole. *)
LEMMA OnlyAll ==
  ASSUME NEW S
  PROVE  \A s \in Seq(S) : only(s, S) = s
  <1> DEFINE T == {s \in Seq(S) : only(s, S) = s}
  <1>1. <<>> \in T
    BY OnlyEmpty, EmptySeq
  <1>2. ASSUME NEW s \in Seq(S), NEW e \in S, s \in T PROVE Append(s, e) \in T
    <2>1. only(Append(s, e), S) = Append(only(s, S), e)
      BY OnlyAppend
    <2> QED
      BY <1>2, <2>1, AppendProperties
  <1> HIDE DEF T
  <1>3. Seq(S) \subseteq T
    BY <1>1, <1>2, SeqSet
  <1> QED
    BY <1>3 DEF T

(* Of a sequence without elements of S nothing is kept, behind whatever it
   stands. *)
LEMMA OnlyBefore ==
  ASSUME NEW R, NEW Q, Q \subseteq R, NEW S, Q \cap S = {}, NEW s \in Seq(R)
  PROVE  \A t \in Seq(Q) : only(s \o t, S) = only(s, S)
  <1> DEFINE T == {t \in Seq(Q) : only(s \o t, S) = only(s, S)}
  <1>1. <<>> \in T
    BY ConcatEmptySeq, EmptySeq
  <1>2. ASSUME NEW t \in Seq(Q), NEW e \in Q, t \in T PROVE Append(t, e) \in T
    <2>1. s \o Append(t, e) = Append(s \o t, e) /\ s \o t \in Seq(R)
      BY SeqMonotonic, ConcatAppend
    <2>2. only(Append(s \o t, e), S) = only(s \o t, S)
      BY <2>1, OnlyAppend
    <2> QED
      BY <1>2, <2>1, <2>2, AppendProperties
  <1> HIDE DEF T
  <1>3. Seq(Q) \subseteq T
    BY <1>1, <1>2, SeqSet
  <1> QED
    BY <1>3 DEF T

(* A tail of elements of S is kept whole. *)
LEMMA OnlyWith ==
  ASSUME NEW R, NEW S, NEW s \in Seq(R), NEW u, u \in Seq(R), u \in Seq(S)
  PROVE  only(s \o u, S) = only(s, S) \o u
  <1> DEFINE Q == R \cap S
  <1>q. Q \subseteq R /\ Q \subseteq S
    OBVIOUS
  <1>u. u \in Seq(Q)
    <2>1. Len(u) \in Nat /\ u = [i \in 1..Len(u) |-> u[i]] /\ \A i \in 1..Len(u) : u[i] \in Q
      BY LenProperties, ElementOfSeq
    <2> QED
      BY <2>1, IsASeq
  <1> HIDE DEF Q
  <1> DEFINE T == {t \in Seq(Q) : only(s \o t, S) = only(s, S) \o t}
  <1>0. only(s, S) \in Seq(R)
    BY OnlyType, SeqMonotonic, R \cap S \subseteq R
  <1>1. <<>> \in T
    BY <1>0, ConcatEmptySeq, EmptySeq
  <1>2. ASSUME NEW t \in Seq(Q), NEW e \in Q, t \in T PROVE Append(t, e) \in T
    <2>1. s \o Append(t, e) = Append(s \o t, e) /\ s \o t \in Seq(R)
      BY <1>q, SeqMonotonic, ConcatAppend
    <2>2. only(Append(s \o t, e), S) = Append(only(s \o t, S), e)
      BY <1>q, <2>1, OnlyAppend
    <2>3. only(s, S) \o Append(t, e) = Append(only(s, S) \o t, e)
      BY <1>q, <1>0, SeqMonotonic, ConcatAppend
    <2> QED
      BY <1>2, <2>1, <2>2, <2>3, AppendProperties
  <1> HIDE DEF T
  <1>3. Seq(Q) \subseteq T
    BY <1>1, <1>2, SeqSet
  <1> QED
    BY <1>3, <1>u DEF T

-----------------------------------------------------------------------------
(* The inductive invariant of the streams. *)

(* The exit event is the last thing published, and published once: no state
   follows it, and none is set any more.  run() itself publishes no line of the
   transcoder. *)
EndInv ==
  /\ exit # <<>> => /\ state \in Terminal
                    /\ \A i \in 1..Len(toPublish) : toPublish[i].type \notin {"state", "exit"}
  /\ \A i, k \in 1..Len(toPublish) :
       toPublish[i].type = "exit" => state \in Terminal /\ (i < k => toPublish[k].type = "close")
  /\ \A i \in 1..Len(toPublish) : toPublish[i] \notin Numbered

(* What client c has and will get of its channel. *)
stream(c) == got[c] \o chan[c]

(* A handler that is not subscribed has nothing, and the hub does not know it. *)
AwayInv ==
  \A c \in Clients :
    handler[c] \in {"none", "open", "unsub", "gone"}
      => got[c] = <<>> /\ chan[c] = <<>> /\ c \notin subs

(* The lines of s are in order and among the first n. *)
sorted(s, n) ==
  /\ inOrder(s)
  /\ \A i \in DOMAIN s : s[i] \in Numbered => s[i].line <= n

LinesInv == sorted(stderr, lines) /\ \A c \in Clients : sorted(stream(c), lines)

StreamInv == EndInv /\ AwayInv /\ StatesComplete /\ LinesInv

-----------------------------------------------------------------------------
(* The end of the job. *)

(* A numbered line is a line with a number. *)
LEMMA NumberedLine ==
  /\ \A x \in Numbered : x.line \in Nat /\ x.type = "stderr"
  /\ Prt \notin Numbered
  /\ \A n \in 0..MaxLines : Stderr(n).line = n
  BY DEF Numbered, Prt, Stderr

(* It depends on three variables. *)
LEMMA EndFrame == ASSUME EndInv, UNCHANGED <<exit, state, toPublish>> PROVE EndInv'
  BY DEF EndInv

(* A state is set before the end and while nothing is owed. *)
LEMMA SetEnd ==
  ASSUME EndInv, NEW s \in States, setState(s), state \notin Terminal, UNCHANGED exit
  PROVE  EndInv'
  <1>1. toPublish' = <<State(s)>> /\ exit' = <<>>
    BY DEF setState, EndInv
  <1>2. Len(toPublish') = 1 /\ \A i \in 1..1 : toPublish'[i].type = "state"
    BY <1>1, EventTypes
  <1> QED
    BY <1>1, <1>2, NumberedLine DEF EndInv

(* finalize puts the exit event before the close and behind all else. *)
LEMMA FinalEnd ==
  ASSUME EndInv, NEW s \in Terminal, finalize(s), state \notin Terminal, UNCHANGED exit
  PROVE  EndInv'
  <1>1. state' \in Terminal /\ exit' = <<>>
    BY DEF finalize, EndInv
  <1>s. s \in States
    BY DEF States
  <1>2. CASE toPublish' = <<State(s), Exit, Close>>
    <2>1. /\ Len(toPublish') = 3 /\ toPublish'[1].type = "state" /\ toPublish'[2].type = "exit"
          /\ toPublish'[3].type = "close"
      BY <1>2, <1>s, EventTypes
    <2>2. \A i \in 1..3 : toPublish'[i] \notin Numbered
      BY <2>1, NumberedLine
    <2> QED
      BY <1>1, <2>1, <2>2 DEF EndInv
  <1>3. CASE toPublish' = <<Prt, State(s), Exit, Close>>
    <2>1. /\ Len(toPublish') = 4 /\ toPublish'[1].type = "stderr" /\ toPublish'[2].type = "state"
          /\ toPublish'[3].type = "exit" /\ toPublish'[4].type = "close"
      BY <1>3, <1>s, EventTypes
    <2>2. \A i \in 1..4 : toPublish'[i] \notin Numbered
      BY <1>3, <2>1, NumberedLine
    <2> QED
      BY <1>1, <2>1, <2>2 DEF EndInv
  <1> QED
    BY <1>2, <1>3, FinalShape

(* What is published next leaves the queue; the history may gain an exit. *)
LEMMA TailEnd ==
  ASSUME IInv, EndInv, toPublish # <<>>, toPublish' = Tail(toPublish), UNCHANGED state,
         Head(toPublish).type # "exit" => UNCHANGED exit
  PROVE  EndInv'
  <1>1. toPublish \in Seq(Events \union {Close})
    BY DEF IInv, TypeOK
  <1>2. /\ Len(toPublish') = Len(toPublish) - 1
        /\ \A i \in 1..Len(toPublish') : toPublish'[i] = toPublish[i + 1]
        /\ Len(toPublish) \in Nat /\ Len(toPublish) # 0 /\ Head(toPublish) = toPublish[1]
    BY <1>1, HeadTailProperties, LenProperties, EmptySeq
  <1>3. \A i \in 1..Len(toPublish') : i + 1 \in 1..Len(toPublish) /\ 1 < i + 1
    BY <1>2
  <1>4. ASSUME NEW i \in 1..Len(toPublish'), NEW k \in 1..Len(toPublish'),
               toPublish'[i].type = "exit"
        PROVE  state' \in Terminal /\ (i < k => toPublish'[k].type = "close")
    BY <1>2, <1>3, <1>4 DEF EndInv
  <1>5. ASSUME exit' # <<>>
        PROVE  /\ state' \in Terminal
               /\ \A i \in 1..Len(toPublish') : toPublish'[i].type \notin {"state", "exit"}
    <2>1. CASE exit = <<>>
      <3>1. toPublish[1].type = "exit" /\ 1 \in 1..Len(toPublish)
        BY <1>2, <1>5, <2>1
      <3>2. state \in Terminal
        BY <3>1 DEF EndInv
      <3>3. ASSUME NEW i \in 1..Len(toPublish') PROVE toPublish'[i].type = "close"
        BY <1>2, <1>3, <3>1 DEF EndInv
      <3> QED
        BY <3>2, <3>3
    <2>2. CASE exit # <<>>
      BY <1>2, <1>3, <2>2 DEF EndInv
    <2> QED
      BY <2>1, <2>2
  <1>6. \A i \in 1..Len(toPublish') : toPublish'[i] \notin Numbered
    BY <1>2, <1>3 DEF EndInv
  <1> QED
    BY <1>4, <1>5, <1>6 DEF EndInv

-----------------------------------------------------------------------------
(* Publications and the streams. *)

(* Events are sequences' elements here: what a client has and will get. *)
LEMMA StreamType ==
  ASSUME HubTyped, ConnTyped, NEW c \in Clients
  PROVE  stream(c) \in Seq(Events) /\ got[c] \in Seq(Events) /\ chan[c] \in Seq(Events)
  BY ConcatProperties DEF HubTyped, ConnTyped, stream

(* A publication reaches a subscriber whose channel has room, and nobody else;
   a state or an exit event leaves only such subscribers. *)
LEMMA Delivered ==
  ASSUME HubTyped, ConnTyped, NEW ev \in Events, publish(ev), UNCHANGED got, NEW c \in Clients
  PROVE  /\ c \in subs' => c \in subs
         /\ c \notin subs => UNCHANGED chan[c]
         /\ stream(c)' = stream(c) \/ stream(c)' = Append(stream(c), ev)
         /\ ~closed /\ ev.type # "stderr" /\ c \in subs' => stream(c)' = Append(stream(c), ev)
  <1>1. CASE closed
    <2>1. UNCHANGED <<subs, chan>>
      BY <1>1 DEF publish, chanVars
    <2> QED
      BY <1>1, <2>1 DEF stream
  <1>2. CASE ~closed
    <2>1. deliver(ev)
      BY <1>2 DEF publish
    <2>2. /\ chan'[c] = IF c \in subs /\ ~full(c) THEN Append(chan[c], ev) ELSE chan[c]
          /\ subs' = subs \ (IF ev.type = "stderr" THEN {} ELSE {d \in subs : full(d)})
      BY <2>1 DEF deliver
    <2>3. got[c] \o Append(chan[c], ev) = Append(got[c] \o chan[c], ev)
      <3> DEFINE s == got[c]
                 t == chan[c]
      <3>1. s \in Seq(Events) /\ t \in Seq(Events)
        BY StreamType
      <3> HIDE DEF s, t
      <3>2. s \o Append(t, ev) = Append(s \o t, ev)
        BY <3>1, ConcatAppend
      <3> QED
        BY <3>2 DEF s, t
    <2>4. stream(c)' = got[c] \o chan'[c]
      BY DEF stream
    <2> QED
      BY <1>2, <2>2, <2>3, <2>4 DEF stream
  <1> QED
    BY <1>1, <1>2

(* A prefix stays one when the sequence grows. *)
LEMMA PrefixAppend ==
  ASSUME NEW R, NEW s \in Seq(R), NEW t \in Seq(R), NEW e \in R, IsPrefix(s, t)
  PROVE  IsPrefix(s, Append(t, e))
  <1> DEFINE u == Append(t, e)
  <1>1. /\ Len(s) \in Nat /\ Len(t) \in Nat /\ Len(u) = Len(t) + 1 /\ u \in Seq(R)
        /\ \A i \in 1..Len(t) : u[i] = t[i]
    BY LenProperties, AppendProperties
  <1>2. Len(s) <= Len(t) /\ SubSeq(s, 1, Len(s)) = SubSeq(t, 1, Len(s))
    BY DEF IsPrefix
  <1> HIDE DEF u
  <1>3. SubSeq(t, 1, Len(s)) = SubSeq(u, 1, Len(s))
    <2>1. SubSeq(t, 1, Len(s)) = [i \in 1..Len(s) |-> t[i]]
      BY <1>1
    <2>2. SubSeq(u, 1, Len(s)) = [i \in 1..Len(s) |-> u[i]]
      BY <1>1
    <2>3. \A i \in 1..Len(s) : u[i] = t[i]
      BY <1>1, <1>2
    <2> QED
      BY <2>1, <2>2, <2>3
  <1>4. Len(s) <= Len(u)
    BY <1>1, <1>2
  <1> QED
    BY <1>2, <1>3, <1>4 DEF IsPrefix, u

(* A sequence is a prefix of itself, and the empty one of each. *)
LEMMA PrefixEnds ==
  ASSUME NEW R, NEW s \in Seq(R)
  PROVE  IsPrefix(s, s) /\ IsPrefix(<<>>, s)
  <1>1. Len(s) \in Nat /\ Len(<<>>) = 0
    BY LenProperties
  <1>2. SubSeq(<<>>, 1, 0) = <<>> /\ SubSeq(s, 1, 0) = <<>>
    BY EmptySeq, SubSeqEmpty
  <1> QED
    BY <1>1, <1>2 DEF IsPrefix

(* What the hub keeps of the job's milestones grows by what is published. *)
LEMMA Recorded ==
  ASSUME HubTyped, NEW ev \in Events, publish(ev), ev.type # "stderr" => exit = <<>>
  PROVE  /\ closed \/ ev.type = "stderr" => UNCHANGED <<states, exit>>
         /\ ~closed /\ ev.type # "stderr" => (states \o exit)' = Append(states \o exit, ev)
         /\ states \o exit \in Seq(Milestones)
         /\ ev.type = "stderr" <=> ev \notin Milestones
  <1>1. closed => UNCHANGED <<states, exit>>
    BY DEF publish, histVars
  <1>2. ~closed => record(ev)
    BY DEF publish
  <1>3. ~closed /\ ev.type = "stderr" => UNCHANGED <<states, exit>>
    BY <1>2 DEF record
  <1>4. ASSUME ~closed, ev.type # "stderr"
        PROVE  (states \o exit)' = Append(states \o exit, ev)
    <2>1. exit = <<>> /\ states \o exit = states
      BY <1>4, ConcatEmptySeq DEF HubTyped
    <2>2. CASE ev.type = "state"
      <3>1. states' = Append(states, ev) /\ exit' = <<>>
        BY <1>2, <1>4, <2>1, <2>2 DEF record
      <3>2. Append(states, ev) \in Seq(StateEvents)
        BY <2>2, Kinds, AppendProperties DEF HubTyped
      <3> QED
        BY <2>1, <3>1, <3>2, ConcatEmptySeq
    <2>3. CASE ev.type = "exit"
      <3>1. states' = states /\ exit' = <<ev>>
        BY <1>2, <1>4, <2>3 DEF record
      <3>2. states \in Seq(Events)
        BY SeqMonotonic, StateEvents \subseteq Events DEF HubTyped, Events
      <3> QED
        BY <2>1, <3>1, <3>2, AppendIsConcat
    <2> QED
      BY <1>4, <2>2, <2>3, Kinds
  <1>5. states \o exit \in Seq(Milestones)
    <2>1. states \in Seq(Milestones) /\ exit \in Seq(Milestones)
      BY SeqMonotonic, StateEvents \subseteq Milestones, {Exit} \subseteq Milestones
         DEF HubTyped, Milestones
    <2> QED
      BY <2>1, ConcatProperties
  <1>6. ev.type = "stderr" <=> ev \notin Milestones
    BY Kinds, EventTypes DEF Milestones, StateEvents
  <1> QED
    BY <1>1, <1>3, <1>4, <1>5, <1>6

(* A publication keeps the milestones of every client complete. *)
LEMMA PublishComplete ==
  ASSUME HubTyped, ConnTyped, StatesComplete, NEW ev \in Events, publish(ev), UNCHANGED got,
         ev.type # "stderr" => exit = <<>>
  PROVE  StatesComplete'
  <1> SUFFICES ASSUME NEW c \in Clients
               PROVE  /\ IsPrefix(only(stream(c), Milestones)', (states \o exit)')
                      /\ c \in subs' => only(stream(c), Milestones)' = (states \o exit)'
    BY DEF StatesComplete, stream
  <1> DEFINE all  == only(stream(c), Milestones)
             told == states \o exit
  <1>1. IsPrefix(all, told) /\ (c \in subs => all = told)
    BY DEF StatesComplete, stream
  <1>2. /\ c \in subs' => c \in subs
        /\ stream(c)' = stream(c) \/ stream(c)' = Append(stream(c), ev)
        /\ c \notin subs => stream(c)' = stream(c)
        /\ ~closed /\ ev.type # "stderr" /\ c \in subs' => stream(c)' = Append(stream(c), ev)
    BY Delivered DEF stream
  <1>3. only(Append(stream(c), ev), Milestones) = IF ev \in Milestones THEN Append(all, ev) ELSE all
    BY StreamType, OnlyAppend
  <1>4. /\ closed \/ ev.type = "stderr" => told' = told
        /\ ~closed /\ ev.type # "stderr" => told' = Append(told, ev)
        /\ told \in Seq(Milestones) /\ (ev.type = "stderr" <=> ev \notin Milestones)
    BY Recorded
  <1>5. all \in Seq(Milestones)
    BY StreamType, OnlyType, SeqMonotonic, Events \cap Milestones \subseteq Milestones
  <1>6. all' = only(stream(c)', Milestones)
    OBVIOUS
  <1>7. CASE ev.type = "stderr"
    BY <1>1, <1>2, <1>3, <1>4, <1>6, <1>7
  <1>8. CASE closed
    <2>1. UNCHANGED <<subs, chan, chanClosed>>
      BY <1>8 DEF publish, chanVars
    <2>2. stream(c)' = stream(c)
      BY <2>1 DEF stream
    <2> QED
      BY <1>1, <1>4, <1>6, <1>8, <2>1, <2>2
  <1>9. CASE ~closed /\ ev.type # "stderr"
    <2>1. told' = Append(told, ev) /\ ev \in Milestones
      BY <1>4, <1>9
    <2>2. all' = all \/ all' = Append(all, ev)
      BY <1>2, <1>3, <1>6, <2>1
    <2>3. IsPrefix(all, Append(told, ev)) /\ IsPrefix(Append(told, ev), Append(told, ev))
      BY <1>1, <1>4, <1>5, <2>1, PrefixAppend, PrefixEnds, AppendProperties
    <2>4. all' = Append(all, ev) => c \in subs \/ all' = all
      BY <1>2, <1>6
    <2>5. c \in subs' => all' = Append(all, ev) /\ all = told
      BY <1>1, <1>2, <1>3, <1>6, <1>9, <2>1
    <2> HIDE DEF all, told
    <2> QED
      BY <1>1, <2>1, <2>2, <2>3, <2>4, <2>5 DEF all, told
  <1> QED
    BY <1>7, <1>8, <1>9

-----------------------------------------------------------------------------
(* The lines. *)

(* A later line goes behind the others. *)
LEMMA SortedAppend ==
  ASSUME NEW s \in Seq(Events), NEW e \in Events, NEW n \in Nat, NEW m \in Nat, n <= m,
         sorted(s, n), e \in Numbered => e.line = m /\ n < m
  PROVE  sorted(Append(s, e), m)
  <1> DEFINE t == Append(s, e)
  <1>1. /\ Len(s) \in Nat /\ DOMAIN s = 1..Len(s) /\ DOMAIN t = 1..(Len(s) + 1)
        /\ t[Len(s) + 1] = e /\ \A i \in 1..Len(s) : t[i] = s[i]
    BY LenProperties, AppendProperties
  <1> HIDE DEF t
  <1>2. ASSUME NEW i \in DOMAIN t, t[i] \in Numbered
        PROVE  /\ t[i].line \in Nat /\ t[i].line <= m
               /\ i # Len(s) + 1 => i \in DOMAIN s /\ t[i] = s[i] /\ t[i].line <= n
               /\ i = Len(s) + 1 => t[i].line = m /\ n < m
    <2>1. CASE i = Len(s) + 1
      BY <1>1, <1>2, <2>1
    <2>2. CASE i # Len(s) + 1
      <3>1. i \in DOMAIN s /\ t[i] = s[i]
        BY <1>1, <2>2
      <3>2. s[i].line \in Nat /\ s[i].line <= n
        BY <1>2, <3>1, NumberedLine DEF sorted
      <3> QED
        BY <2>2, <3>1, <3>2
    <2> QED
      BY <2>1, <2>2
  <1>3. ASSUME NEW i \in DOMAIN t, NEW k \in DOMAIN t, i < k, t[i] \in Numbered, t[k] \in Numbered
        PROVE  t[i].line < t[k].line
    <2>1. i # Len(s) + 1
      BY <1>1, <1>3
    <2>2. CASE k = Len(s) + 1
      BY <1>2, <1>3, <2>1, <2>2
    <2>3. CASE k # Len(s) + 1
      <3>1. i \in DOMAIN s /\ t[i] = s[i] /\ k \in DOMAIN s /\ t[k] = s[k]
        BY <1>2, <1>3, <2>1, <2>3
      <3> QED
        BY <1>3, <3>1 DEF sorted, inOrder
    <2> QED
      BY <2>2, <2>3
  <1> QED
    BY <1>2, <1>3 DEF sorted, inOrder, t

(* What stands in s stands in its tail in the same order. *)
LEMMA SortedTail ==
  ASSUME NEW s \in Seq(Events), NEW n \in Nat, s # <<>>, sorted(s, n)
  PROVE  sorted(Tail(s), n)
  <1> DEFINE t == Tail(s)
  <1>1. /\ Len(s) \in Nat \ {0} /\ DOMAIN s = 1..Len(s) /\ DOMAIN t = 1..(Len(s) - 1)
        /\ \A i \in 1..(Len(s) - 1) : t[i] = s[i + 1]
    BY LenProperties, HeadTailProperties, EmptySeq
  <1> HIDE DEF t
  <1>2. ASSUME NEW i \in DOMAIN t PROVE i \in Nat /\ i + 1 \in DOMAIN s /\ t[i] = s[i + 1]
    BY <1>1
  <1>3. ASSUME NEW i \in DOMAIN t, NEW k \in DOMAIN t, i < k, t[i] \in Numbered, t[k] \in Numbered
        PROVE  t[i].line < t[k].line
    <2>1. i + 1 < k + 1
      BY <1>2, <1>3
    <2> QED
      BY <1>2, <1>3, <2>1 DEF sorted, inOrder
  <1>4. ASSUME NEW i \in DOMAIN t, t[i] \in Numbered PROVE t[i].line <= n
    BY <1>2, <1>4 DEF sorted
  <1> QED
    BY <1>3, <1>4 DEF sorted, inOrder, t

(* Events that are no lines may stand before and behind. *)
LEMMA SortedConcat ==
  ASSUME NEW s \in Seq(Events), NEW u \in Seq(Events), NEW n \in Nat
  PROVE  /\ sorted(s, n) /\ (\A i \in DOMAIN u : u[i] \notin Numbered) => sorted(u \o s, n)
         /\ sorted(s, n) /\ (\A i \in DOMAIN u : u[i] \notin Numbered) => sorted(s \o u, n)
  <1>1. /\ Len(s) \in Nat /\ Len(u) \in Nat
        /\ DOMAIN s = 1..Len(s) /\ DOMAIN u = 1..Len(u)
    BY LenProperties
  <1>2. ASSUME sorted(s, n), \A i \in DOMAIN u : u[i] \notin Numbered
        PROVE  sorted(u \o s, n)
    <2> DEFINE t == u \o s
    <2>1. /\ DOMAIN t = 1..(Len(u) + Len(s))
          /\ \A i \in 1..(Len(u) + Len(s)) : t[i] = IF i <= Len(u) THEN u[i] ELSE s[i - Len(u)]
      BY <1>1, ConcatProperties, LenProperties
    <2> HIDE DEF t
    <2>2. ASSUME NEW i \in DOMAIN t, t[i] \in Numbered
          PROVE  i \in Nat /\ i - Len(u) \in DOMAIN s /\ t[i] = s[i - Len(u)]
      BY <1>1, <1>2, <2>1, <2>2
    <2>3. ASSUME NEW i \in DOMAIN t, NEW k \in DOMAIN t, i < k,
                 t[i] \in Numbered, t[k] \in Numbered
          PROVE  t[i].line < t[k].line
      <3>1. i - Len(u) < k - Len(u)
        BY <1>1, <2>2, <2>3
      <3> QED
        BY <1>2, <2>2, <2>3, <3>1 DEF sorted, inOrder
    <2>4. ASSUME NEW i \in DOMAIN t, t[i] \in Numbered PROVE t[i].line <= n
      BY <1>2, <2>2, <2>4 DEF sorted
    <2> QED
      BY <2>3, <2>4 DEF sorted, inOrder, t
  <1>3. ASSUME sorted(s, n), \A i \in DOMAIN u : u[i] \notin Numbered
        PROVE  sorted(s \o u, n)
    <2> DEFINE t == s \o u
    <2>1. /\ DOMAIN t = 1..(Len(s) + Len(u))
          /\ \A i \in 1..(Len(s) + Len(u)) : t[i] = IF i <= Len(s) THEN s[i] ELSE u[i - Len(s)]
      BY <1>1, ConcatProperties, LenProperties
    <2> HIDE DEF t
    <2>2. ASSUME NEW i \in DOMAIN t, t[i] \in Numbered
          PROVE  i \in DOMAIN s /\ t[i] = s[i]
      <3>1. i \in 1..(Len(s) + Len(u)) /\ t[i] = IF i <= Len(s) THEN s[i] ELSE u[i - Len(s)]
        BY <2>1, <2>2
      <3>2. ASSUME i > Len(s) PROVE FALSE
        <4>1. i - Len(s) \in DOMAIN u /\ t[i] = u[i - Len(s)]
          BY <1>1, <3>1, <3>2
        <4> QED
          BY <1>3, <2>2, <4>1
      <3>3. i <= Len(s)
        BY <1>1, <3>1, <3>2
      <3> QED
        BY <1>1, <3>1, <3>3
    <2>3. ASSUME NEW i \in DOMAIN t, NEW k \in DOMAIN t, i < k,
                 t[i] \in Numbered, t[k] \in Numbered
          PROVE  t[i].line < t[k].line
      BY <1>3, <2>2, <2>3 DEF sorted, inOrder
    <2>4. ASSUME NEW i \in DOMAIN t, t[i] \in Numbered PROVE t[i].line <= n
      BY <1>3, <2>2, <2>4 DEF sorted
    <2> QED
      BY <2>3, <2>4 DEF sorted, inOrder, t
  <1> QED
    BY <1>2, <1>3

(* A publication keeps the lines of the ring and of every client in order; a
   numbered line is numbered above all before it. *)
LEMMA PublishOrdered ==
  ASSUME HubTyped, ConnTyped, LinesInv, NEW ev \in Events, publish(ev), UNCHANGED got,
         lines \in Nat, lines' \in Nat, lines <= lines',
         ev \in Numbered => ev.line = lines' /\ lines < lines'
  PROVE  LinesInv'
  <1>1. ASSUME NEW s \in Seq(Events), sorted(s, lines)
        PROVE  sorted(s, lines') /\ sorted(Append(s, ev), lines')
    <2>1. sorted(Append(s, ev), lines')
      BY <1>1, SortedAppend
    <2>2. sorted(s, lines')
      <3>1. \A x \in Numbered : x.line \in Nat
        BY NumberedLine
      <3> QED
        BY <1>1, <3>1 DEF sorted
    <2> QED
      BY <2>1, <2>2
  <1>2. ASSUME NEW c \in Clients PROVE sorted(stream(c)', lines')
    <2>1. stream(c) \in Seq(Events) /\ sorted(stream(c), lines)
      BY StreamType DEF LinesInv
    <2>2. stream(c)' = stream(c) \/ stream(c)' = Append(stream(c), ev)
      BY Delivered
    <2> QED
      BY <1>1, <2>1, <2>2
  <1>3. sorted(stderr', lines')
    <2>1. stderr \in Seq(Events) /\ sorted(stderr, lines)
      BY SeqMonotonic, Lines \subseteq Events DEF HubTyped, Events, LinesInv
    <2>2. \/ stderr' = stderr
          \/ stderr' = Append(stderr, ev)
          \/ stderr' = Tail(Append(stderr, ev))
      BY DEF publish, record, histVars
    <2>3. Append(stderr, ev) \in Seq(Events) /\ Append(stderr, ev) # <<>>
      BY <2>1, AppendProperties
    <2>4. sorted(Append(stderr, ev), lines') /\ sorted(stderr, lines')
      BY <1>1, <2>1
    <2>5. sorted(Tail(Append(stderr, ev)), lines')
      BY <2>3, <2>4, SortedTail
    <2> QED
      BY <2>2, <2>4, <2>5
  <1>4. \A c \in Clients : sorted(stream(c), lines)'
    BY <1>2 DEF sorted, inOrder
  <1>5. sorted(stderr, lines)'
    BY <1>3 DEF sorted, inOrder
  <1> QED
    BY <1>4, <1>5 DEF LinesInv

(* A publication while the handlers stand still. *)
LEMMA PublishAway ==
  ASSUME HubTyped, ConnTyped, AwayInv, NEW ev \in Events, publish(ev), UNCHANGED <<handler, got>>
  PROVE  AwayInv'
  <1> SUFFICES ASSUME NEW c \in Clients, handler[c] \in {"none", "open", "unsub", "gone"}
               PROVE  got[c] = <<>> /\ chan'[c] = <<>> /\ c \notin subs'
    BY DEF AwayInv
  <1> QED
    BY Delivered DEF AwayInv

-----------------------------------------------------------------------------
(* Steps *)

(* A new job has published its first state and nobody listens. *)
LEMMA InitStreamInv == Init => StreamInv
  <1> SUFFICES ASSUME Init PROVE StreamInv
    OBVIOUS
  <1>1. EndInv /\ AwayInv
    BY DEF Init, EndInv, AwayInv
  <1>2. \A c \in Clients : stream(c) = <<>>
    BY ConcatEmptySeq, EmptySeq DEF Init, stream
  <1>3. StatesComplete
    <2>1. states \o exit \in Seq(Milestones)
      <3>1. State("PENDING") \in Milestones
        BY EventTypes DEF States, Milestones
      <3>2. states \in Seq(Milestones) /\ exit \in Seq(Milestones)
        BY <3>1 DEF Init
      <3> QED
        BY <3>2, ConcatProperties
    <2>2. IsPrefix(<<>>, states \o exit)
      BY <2>1, PrefixEnds
    <2>3. subs = {}
      BY DEF Init
    <2> QED
      BY <1>2, <2>2, <2>3, OnlyEmpty DEF StatesComplete, stream
  <1>4. LinesInv
    <2>1. sorted(<<>>, lines)
      BY DEF sorted, inOrder
    <2> QED
      BY <1>2, <2>1 DEF Init, LinesInv
  <1> QED
    BY <1>1, <1>3, <1>4 DEF StreamInv

(* Steps that touch neither hub nor handlers leave all but the end as it was. *)
LEMMA StreamFrame ==
  ASSUME StreamInv, UNCHANGED <<states, stderr, exit, subs, chan, got, handler, lines>>
  PROVE  AwayInv' /\ StatesComplete' /\ LinesInv'
  BY DEF StreamInv, AwayInv, StatesComplete, LinesInv, stream, sorted, inOrder

(* run() sets a state, finalizes, or publishes what it owes. *)
LEMMA RunStreams == ASSUME IInv, StreamInv, Run PROVE StreamInv'
  <1>t. HubTyped /\ ConnTyped /\ lines \in 0..MaxLines
    BY TypeParts DEF IInv, TypeOK
  <1>1. CASE ~RunPublish
    <2>1. UNCHANGED <<states, stderr, exit, subs, chan, got, handler, lines>>
      BY <1>1 DEF Run, RunPreparing, RunRunning, StartMonitor, RunAborted, RunDraining, RunFinal,
                  hubVars, histVars, chanVars, connVars, jobVars
    <2>2. EndInv'
      <3>1. CASE StartMonitor
        BY <2>1, <3>1, EndFrame DEF StartMonitor, jobVars, StreamInv
      <3>2. CASE RunPreparing \/ RunRunning \/ RunDraining
        <4>1. PICK s \in {"PREPARING", "RUNNING", "DRAINING"} : setState(s)
          BY <3>2 DEF RunPreparing, RunRunning, RunDraining
        <4>2. state \notin Terminal /\ s \in States
          BY <3>2 DEF RunPreparing, RunRunning, RunDraining, Terminal, Cancels, States
        <4> QED
          BY <2>1, <4>1, <4>2, SetEnd DEF StreamInv
      <3>3. CASE RunAborted \/ RunFinal
        <4>1. state \notin Terminal
          BY <3>3 DEF RunAborted, RunFinal, Terminal, Cancels
        <4>2. cancelState \in Cancels \union {"no"}
          BY DEF IInv, TypeOK
        <4>3. \E s \in Terminal : finalize(s)
          <5>1. CASE RunAborted
            BY <4>2, <5>1 DEF RunAborted, Terminal
          <5>2. CASE RunFinal
            BY <4>2, <5>2 DEF RunFinal, Terminal
          <5> QED
            BY <3>3, <5>1, <5>2
        <4> QED
          BY <2>1, <4>1, <4>3, FinalEnd DEF StreamInv
      <3> QED
        BY <1>1, <3>1, <3>2, <3>3 DEF Run
    <2> QED
      BY <2>1, <2>2, StreamFrame DEF StreamInv
  <1>2. CASE RunPublish
    <2> DEFINE h == Head(toPublish)
    <2>1. /\ toPublish # <<>> /\ toPublish' = Tail(toPublish) /\ UNCHANGED <<state, lines, handler, got>>
          /\ IF h = Close THEN close ELSE publish(h)
      BY <1>2 DEF RunPublish, connVars
    <2>2. h \in Events \union {Close} /\ h = toPublish[1] /\ 1 \in 1..Len(toPublish)
      BY <2>1, HeadTailProperties, LenProperties, EmptySeq DEF IInv, TypeOK
    <2>3. h.type \in {"state", "exit"} => exit = <<>>
      BY <2>2 DEF StreamInv, EndInv
    <2>4. CASE h = Close
      <3>1. UNCHANGED <<states, stderr, exit, chan>> /\ subs' = {}
        BY <2>1, <2>4 DEF close, histVars
      <3>2. EndInv'
        BY <2>1, <3>1, TailEnd DEF StreamInv
      <3>3. AwayInv' /\ StatesComplete' /\ LinesInv'
        BY <2>1, <3>1 DEF StreamInv, AwayInv, StatesComplete, LinesInv, stream, sorted, inOrder
      <3> QED
        BY <3>2, <3>3 DEF StreamInv
    <2>5. CASE h # Close
      <3>1. h \in Events /\ publish(h) /\ (h.type # "stderr" => exit = <<>>)
        BY <2>1, <2>2, <2>3, <2>5, Kinds
      <3>2. h.type # "exit" => UNCHANGED exit
        BY <3>1 DEF publish, record, histVars
      <3>3. EndInv'
        BY <2>1, <3>2, TailEnd DEF StreamInv
      <3>4. h \notin Numbered
        BY <2>2 DEF StreamInv, EndInv
      <3> HIDE DEF h
      <3>5. StatesComplete' /\ AwayInv'
        BY <1>t, <2>1, <3>1, PublishComplete, PublishAway DEF StreamInv
      <3>6. LinesInv'
        BY <1>t, <2>1, <3>1, <3>4, HubAssumption, PublishOrdered DEF StreamInv
      <3> QED
        BY <3>3, <3>5, <3>6 DEF StreamInv
    <2> QED
      BY <2>4, <2>5
  <1> QED
    BY <1>1, <1>2

(* mirrorStderr publishes the next line, abortFail a report; nothing else of
   the job publishes anything. *)
LEMMA JobStreams ==
  ASSUME IInv, StreamInv,
         TranscoderExit \/ MirrorStderr \/ AbortFail \/ AbortPublish \/ DeleteJob
           \/ PeerTimeoutPasses \/ Monitor
  PROVE  StreamInv'
  <1>t. HubTyped /\ ConnTyped /\ lines \in 0..MaxLines /\ MaxLines \in Nat
    BY TypeParts, HubAssumption DEF IInv, TypeOK
  <1>1. CASE MirrorStderr \/ AbortPublish
    <2>1. /\ UNCHANGED <<state, toPublish, handler, got>> /\ lines' \in Nat /\ lines <= lines'
          /\ \E ev \in Events : /\ publish(ev) /\ ev.type = "stderr"
                                /\ ev \in Numbered => ev.line = lines' /\ lines < lines'
      <3>1. CASE MirrorStderr
        <4>1. /\ publish(Stderr(lines')) /\ lines' = lines + 1 /\ lines < MaxLines
              /\ UNCHANGED <<state, toPublish, handler, got>>
          BY <3>1 DEF MirrorStderr, connVars
        <4>2. lines' \in 0..MaxLines /\ lines' \in Nat /\ lines < lines' /\ lines <= lines'
          BY <1>t, <4>1
        <4> DEFINE ev == Stderr(lines')
        <4>3. ev \in Events /\ ev.type = "stderr" /\ ev.line = lines' /\ publish(ev)
          BY <4>1, <4>2, EventTypes, NumberedLine
        <4> HIDE DEF ev
        <4> QED
          BY <4>1, <4>2, <4>3
      <3>2. CASE AbortPublish
        <4>1. publish(Prt) /\ UNCHANGED <<state, toPublish, handler, got, lines>>
          BY <3>2 DEF AbortPublish, connVars
        <4> QED
          BY <1>t, <4>1, EventTypes, NumberedLine
      <3> QED
        BY <1>1, <3>1, <3>2
    <2>2. PICK ev \in Events : /\ publish(ev) /\ ev.type = "stderr"
                               /\ ev \in Numbered => ev.line = lines' /\ lines < lines'
      BY <2>1
    <2>3. EndInv'
      <3>1. UNCHANGED exit
        BY <2>2 DEF publish, record, histVars
      <3> QED
        BY <2>1, <3>1, EndFrame DEF StreamInv
    <2>4. StatesComplete' /\ AwayInv'
      BY <1>t, <2>1, <2>2, PublishComplete, PublishAway DEF StreamInv
    <2>5. LinesInv'
      BY <1>t, <2>1, <2>2, PublishOrdered DEF StreamInv
    <2> QED
      BY <2>3, <2>4, <2>5 DEF StreamInv
  <1>2. CASE TranscoderExit \/ AbortFail \/ DeleteJob \/ PeerTimeoutPasses \/ Monitor
    <2>1. UNCHANGED <<states, stderr, exit, subs, chan, got, handler, lines, state, toPublish>>
      BY <1>2 DEF TranscoderExit, AbortFail, DeleteJob, PeerTimeoutPasses, Monitor, MonitorTick,
                  MonitorCancel, jobVars, hubVars, histVars, chanVars, connVars
    <2> QED
      BY <2>1, StreamFrame, EndFrame DEF StreamInv
  <1> QED
    BY <1>1, <1>2

(* Writing an event moves it from the channel to the client. *)
LEMMA MoveHead ==
  ASSUME NEW R, NEW s \in Seq(R), NEW t \in Seq(R), t # <<>>
  PROVE  Append(s, Head(t)) \o Tail(t) = s \o t
  <1> DEFINE h == <<Head(t)>>
             r == Tail(t)
  <1>1. Head(t) \in R /\ h \in Seq(R) /\ r \in Seq(R) /\ Append(s, Head(t)) = s \o h
    BY HeadTailProperties, AppendIsConcat
  <1>2. h \o r = t
    <2>1. /\ Len(t) \in Nat \ {0} /\ Len(h) = 1 /\ h[1] = t[1] /\ Len(r) = Len(t) - 1
          /\ \A i \in 1..(Len(t) - 1) : r[i] = t[i + 1]
      BY HeadTailProperties, LenProperties, EmptySeq
    <2> HIDE DEF h, r
    <2>2. /\ h \o r \in Seq(R) /\ Len(h \o r) = Len(t)
          /\ \A i \in 1..Len(t) : (h \o r)[i] = IF i <= 1 THEN h[i] ELSE r[i - 1]
      BY <1>1, <2>1, ConcatProperties
    <2>3. ASSUME NEW i \in 1..Len(t) PROVE (h \o r)[i] = t[i]
      <3>1. CASE i = 1
        BY <2>1, <2>2, <3>1
      <3>2. CASE i # 1
        <4>1. i - 1 \in 1..(Len(t) - 1) /\ i - 1 + 1 = i /\ ~(i <= 1)
          BY <2>1, <3>2
        <4> QED
          BY <2>1, <2>2, <4>1
      <3> QED
        BY <3>1, <3>2
    <2> QED
      BY <2>2, <2>3, SeqEqual
  <1> HIDE DEF h, r
  <1>3. (s \o h) \o r = s \o (h \o r)
    <2>1. h \in Seq(R) /\ r \in Seq(R)
      BY <1>1
    <2> QED
      BY <2>1, ConcatAssociative
  <1>4. Append(s, Head(t)) \o r = s \o t
    BY <1>1, <1>2, <1>3, Zenon
  <1> QED
    BY <1>4, Zenon DEF r

(* A snapshot holds the milestones so far and the lines of the ring. *)
LEMMA SnapshotStream ==
  ASSUME HubTyped, LinesInv, lines \in Nat
  PROVE  only(snapshot, Milestones) = states \o exit /\ sorted(snapshot, lines)
  <1>1. /\ states \in Seq(Events) /\ stderr \in Seq(Events) /\ exit \in Seq(Events)
        /\ states \in Seq(Milestones) /\ exit \in Seq({Exit}) /\ stderr \in Seq(Lines)
    <2>1. StateEvents \subseteq Events /\ Lines \subseteq Events /\ {Exit} \subseteq Events
          /\ StateEvents \subseteq Milestones
      BY DEF Events, Milestones
    <2> QED
      BY <2>1, SeqMonotonic DEF HubTyped
  <1>2. states \o stderr \in Seq(Events)
    BY <1>1, ConcatProperties
  <1>3. only(snapshot, Milestones) = states \o exit
    <2>1. Lines \subseteq Events /\ Lines \cap Milestones = {}
      BY Kinds, EventTypes DEF Events, Milestones, Lines, StateEvents
    <2>2. only(states \o stderr, Milestones) = only(states, Milestones)
      BY <1>1, <2>1, OnlyBefore
    <2>3. only(states, Milestones) = states
      BY <1>1, OnlyAll
    <2>4. {Exit} \subseteq Events /\ {Exit} \subseteq Milestones
      BY DEF Events, Milestones
    <2>5. only((states \o stderr) \o exit, Milestones) = only(states \o stderr, Milestones) \o exit
      <3> DEFINE s == states \o stderr
      <3>1. s \in Seq(Events) /\ exit \in Seq(Events)
        BY <1>1, <1>2
      <3>2. exit \in Seq(Milestones)
        BY <1>1, <2>4, SeqMonotonic
      <3> HIDE DEF s
      <3>3. only(s \o exit, Milestones) = only(s, Milestones) \o exit
        BY <3>1, <3>2, OnlyWith
      <3> QED
        BY <3>3 DEF s
    <2> QED
      BY <2>2, <2>3, <2>5 DEF snapshot
  <1>4. sorted(snapshot, lines)
    <2>1. sorted(stderr, lines)
      BY DEF LinesInv
    <2>2. \A i \in DOMAIN states : states[i] \notin Numbered
      <3>1. \A x \in StateEvents : x \notin Numbered
        BY NumberedLine DEF StateEvents
      <3> QED
        BY <3>1 DEF HubTyped
    <2>3. \A i \in DOMAIN exit : exit[i] \notin Numbered
      BY <1>1, EventTypes, NumberedLine
    <2>4. sorted(states \o stderr, lines)
      BY <1>1, <2>1, <2>2, SortedConcat
    <2>5. sorted((states \o stderr) \o exit, lines)
      BY <1>1, <1>2, <2>3, <2>4, SortedConcat
    <2> QED
      BY <2>5 DEF snapshot
  <1> QED
    BY <1>3, <1>4

(* A handler gets a whole snapshot, passes on what its channel holds, and has
   nothing once it leaves. *)
LEMMA ClientStreams ==
  ASSUME IInv, StreamInv, NEW c \in Clients, Connect(c) \/ Handler(c) \/ ClientGone(c)
  PROVE  StreamInv'
  <1>t. HubTyped /\ ConnTyped /\ lines \in Nat
    BY TypeParts, HubAssumption DEF IInv, TypeOK
  <1>f. UNCHANGED <<states, stderr, exit, lines, state, toPublish>>
    BY DEF Connect, Handler, Subscribe, CountClient, WriteEvent, EndOfStream, ClientGone, leave,
           UncountClient, connFrame, jobVars, histVars
  <1>e. EndInv'
    BY <1>f, EndFrame DEF StreamInv
  <1>1. CASE Connect(c) \/ CountClient(c) \/ UncountClient(c)
    <2>1. UNCHANGED <<subs, chan, got>>
      BY <1>1 DEF Connect, CountClient, UncountClient, chanVars
    <2>2. StatesComplete' /\ LinesInv'
      BY <1>f, <2>1 DEF StreamInv, StatesComplete, LinesInv, stream, sorted, inOrder
    <2>3. AwayInv'
      <3> SUFFICES ASSUME NEW d \in Clients, handler'[d] \in {"none", "open", "unsub", "gone"}
                   PROVE  handler[d] \in {"none", "open", "unsub", "gone"}
        BY <2>1 DEF StreamInv, AwayInv
      <3>1. \/ handler[c] = "none" /\ handler' = [handler EXCEPT ![c] = "open"]
            \/ handler[c] = "subscribed" /\ handler' = [handler EXCEPT ![c] = "stream"]
            \/ handler[c] = "unsub" /\ handler' = [handler EXCEPT ![c] = "gone"]
        BY <1>1 DEF Connect, CountClient, UncountClient
      <3>2. CASE d = c
        BY <1>t, <3>1, <3>2 DEF ConnTyped
      <3>3. CASE d # c
        BY <1>t, <3>1, <3>3 DEF ConnTyped
      <3> QED
        BY <3>2, <3>3
    <2> QED
      BY <1>e, <2>2, <2>3 DEF StreamInv
  <1>2. ASSUME NEW to, handler' = [handler EXCEPT ![c] = to],
               \A d \in Clients \ {c} : /\ chan'[d] = chan[d] /\ got'[d] = got[d]
                                        /\ d \in subs' <=> d \in subs,
               /\ IsPrefix(only(stream(c)', Milestones), states \o exit)
               /\ c \in subs' => only(stream(c)', Milestones) = states \o exit,
               sorted(stream(c)', lines),
               to \in {"subscribed", "stream"}
                 \/ (got'[c] = <<>> /\ chan'[c] = <<>> /\ c \notin subs')
        PROVE  StreamInv'
    <2>1. \A d \in Clients \ {c} : stream(d)' = stream(d)
      BY <1>2 DEF stream
    <2>2. StatesComplete'
      <3> SUFFICES ASSUME NEW d \in Clients
                   PROVE  /\ IsPrefix(only(stream(d)', Milestones), states \o exit)
                          /\ d \in subs' => only(stream(d)', Milestones) = states \o exit
        BY <1>f DEF StatesComplete, stream
      <3>1. CASE d = c
        BY <1>2, <3>1
      <3>2. CASE d # c
        BY <1>2, <2>1, <3>2 DEF StreamInv, StatesComplete, stream
      <3> QED
        BY <3>1, <3>2
    <2>3. LinesInv'
      <3>1. ASSUME NEW d \in Clients PROVE sorted(stream(d)', lines)
        <4>1. CASE d = c
          BY <1>2, <4>1
        <4>2. CASE d # c
          BY <2>1, <4>2 DEF StreamInv, LinesInv
        <4> QED
          BY <4>1, <4>2
      <3>2. \A d \in Clients : sorted(stream(d), lines)'
        BY <1>f, <3>1 DEF sorted, inOrder
      <3>3. sorted(stderr, lines)'
        BY <1>f DEF StreamInv, LinesInv, sorted, inOrder
      <3> QED
        BY <3>2, <3>3 DEF LinesInv
    <2>4. AwayInv'
      <3> SUFFICES ASSUME NEW d \in Clients, handler'[d] \in {"none", "open", "unsub", "gone"}
                   PROVE  got'[d] = <<>> /\ chan'[d] = <<>> /\ d \notin subs'
        BY DEF AwayInv
      <3>1. CASE d = c
        BY <1>t, <1>2, <3>1 DEF ConnTyped
      <3>2. CASE d # c
        BY <1>t, <1>2, <3>2 DEF ConnTyped, StreamInv, AwayInv
      <3> QED
        BY <3>1, <3>2
    <2> QED
      BY <1>e, <2>2, <2>3, <2>4 DEF StreamInv
  <1>h. states \o exit \in Seq(Events)
    <2>1. states \in Seq(Events) /\ exit \in Seq(Events)
      BY <1>t, SeqMonotonic, StateEvents \subseteq Events, {Exit} \subseteq Events DEF HubTyped, Events
    <2> QED
      BY <2>1, ConcatProperties
  <1>3. CASE Subscribe(c)
    <2>1. /\ handler[c] = "open" /\ handler' = [handler EXCEPT ![c] = "subscribed"]
          /\ chan' = [chan EXCEPT ![c] = snapshot] /\ UNCHANGED got
          /\ subs' = IF closed THEN subs ELSE subs \union {c}
      BY <1>3 DEF Subscribe
    <2>2. got[c] = <<>> /\ chan'[c] = snapshot /\ snapshot \in Seq(Events)
      BY <1>t, <2>1, SnapshotTyped DEF StreamInv, AwayInv, HubTyped
    <2>3. stream(c)' = snapshot
      BY <2>1, <2>2, ConcatEmptySeq DEF stream
    <2>4. only(snapshot, Milestones) = states \o exit /\ sorted(snapshot, lines)
      BY <1>t, SnapshotStream DEF StreamInv
    <2>5. IsPrefix(states \o exit, states \o exit)
      BY <1>h, PrefixEnds
    <2>6. \A d \in Clients \ {c} : /\ chan'[d] = chan[d] /\ got'[d] = got[d]
                                   /\ d \in subs' <=> d \in subs
      BY <1>t, <2>1 DEF HubTyped
    <2> QED
      BY <1>2, <2>1, <2>3, <2>4, <2>5, <2>6
  <1>4. CASE WriteEvent(c)
    <2>1. /\ handler[c] = "stream" /\ chan[c] # <<>> /\ UNCHANGED <<handler, subs>>
          /\ got' = [got EXCEPT ![c] = Append(got[c], Head(chan[c]))]
          /\ chan' = [chan EXCEPT ![c] = Tail(chan[c])]
      BY <1>4 DEF WriteEvent
    <2>2. got'[c] = Append(got[c], Head(chan[c])) /\ chan'[c] = Tail(chan[c])
      BY <1>t, <2>1 DEF HubTyped, ConnTyped
    <2>3. stream(c)' = stream(c)
      <3> DEFINE s == got[c]
                 t == chan[c]
      <3>1. s \in Seq(Events) /\ t \in Seq(Events) /\ t # <<>>
        BY <1>t, <2>1, StreamType
      <3>2. stream(c)' = Append(s, Head(t)) \o Tail(t) /\ stream(c) = s \o t
        BY <2>2 DEF stream
      <3> HIDE DEF s, t
      <3> QED
        BY <3>1, <3>2, MoveHead
    <2>4. handler' = [handler EXCEPT ![c] = "stream"]
      BY <1>t, <2>1 DEF ConnTyped
    <2>5. /\ IsPrefix(only(stream(c)', Milestones), states \o exit)
          /\ c \in subs' => only(stream(c)', Milestones) = states \o exit
      BY <2>1, <2>3 DEF StreamInv, StatesComplete, stream
    <2>6. sorted(stream(c)', lines)
      BY <2>3 DEF StreamInv, LinesInv
    <2>7. \A d \in Clients \ {c} : /\ chan'[d] = chan[d] /\ got'[d] = got[d]
                                   /\ d \in subs' <=> d \in subs
      BY <1>t, <2>1 DEF HubTyped, ConnTyped
    <2> QED
      BY <1>2, <2>4, <2>5, <2>6, <2>7
  <1>5. CASE EndOfStream(c) \/ ClientGone(c)
    <2>1. /\ handler' = [handler EXCEPT ![c] = "unsub"] /\ subs' = subs \ {c}
          /\ chan' = [chan EXCEPT ![c] = <<>>] /\ got' = [got EXCEPT ![c] = <<>>]
      BY <1>5 DEF EndOfStream, ClientGone, leave
    <2>2. got'[c] = <<>> /\ chan'[c] = <<>> /\ c \notin subs'
      BY <1>t, <2>1 DEF HubTyped, ConnTyped
    <2>3. stream(c)' = <<>>
      BY <2>2, ConcatEmptySeq, EmptySeq DEF stream
    <2>4. IsPrefix(only(<<>>, Milestones), states \o exit)
      BY <1>h, OnlyEmpty, PrefixEnds
    <2>5. sorted(<<>>, lines)
      BY DEF sorted, inOrder
    <2>6. \A d \in Clients \ {c} : /\ chan'[d] = chan[d] /\ got'[d] = got[d]
                                   /\ d \in subs' <=> d \in subs
      BY <1>t, <2>1 DEF HubTyped, ConnTyped
    <2> QED
      BY <1>2, <2>1, <2>2, <2>3, <2>4, <2>5, <2>6
  <1> QED
    BY <1>1, <1>3, <1>4, <1>5 DEF Handler

(* Every step keeps the invariant of the streams. *)
LEMMA StepStreamInv == IInv /\ StreamInv /\ [Next]_vars => StreamInv'
  <1> SUFFICES ASSUME IInv, StreamInv, [Next]_vars PROVE StreamInv'
    OBVIOUS
  <1>1. CASE UNCHANGED vars
    BY <1>1, StreamFrame, EndFrame
       DEF StreamInv, vars, jobVars, lifeVars, hubVars, histVars, chanVars, connVars
  <1> QED
    BY <1>1, RunStreams, JobStreams, ClientStreams DEF Next

(* The streams of all clients, however they come, stall and go, and whoever
   publishes in between (publish, subscribe, run, mirrorStderr, abortFail). *)
THEOREM StreamInvariant == Spec => []StreamInv
  BY InitStreamInv, StepStreamInv, HubInvariant, PTL DEF Spec

(* A client is told the states of the job from the first, without gap or
   repetition, and a subscriber all of them: subscribe takes the snapshot and
   registers the channel under one h.mu, and publish drops a subscriber rather
   than skip a state. *)
THEOREM StatesAlwaysComplete == Spec => []StatesComplete
  <1>1. StreamInv => StatesComplete
    BY DEF StreamInv
  <1> QED
    BY <1>1, StreamInvariant, PTL

(* The lines a client is told are in order and none comes twice, across the
   ring's replay and the live ones (publish, subscribe, mirrorStderr). *)
THEOREM LinesAlwaysInOrder == Spec => []LinesInOrder
  <1>1. StreamInv => LinesInOrder
    BY DEF StreamInv, LinesInv, LinesInOrder, sorted, stream
  <1> QED
    BY <1>1, StreamInvariant, PTL

-----------------------------------------------------------------------------
(* Each state is recorded once: run() owes the hub the state it is in, and what
   the hub has recorded is of lower rank. *)

OnceInv ==
  /\ \A i \in 1..Len(toPublish) :
       toPublish[i].type = "state" => toPublish[i] = State(state)
  /\ \A i \in 1..Len(states) : Rank(states[i].state) + Owed <= Rank(state)

(* A rank is a number, and what is owed is one state or none. *)
LEMMA RankType == (\A s : Rank(s) \in 1..5) /\ Owed \in {0, 1}
  BY DEF Rank, Owed

(* A new job has recorded PENDING. *)
LEMMA InitOnce == Init => OnceInv
  <1> SUFFICES ASSUME Init PROVE OnceInv
    OBVIOUS
  <1>1. toPublish = <<>> /\ Owed = 0 /\ state = "PENDING" /\ states = <<State("PENDING")>>
    BY DEF Init, Owed
  <1>2. State("PENDING").state = "PENDING"
    BY DEF State
  <1> QED
    BY <1>1, <1>2 DEF OnceInv, Rank

(* It depends on three variables. *)
LEMMA OnceFrame == ASSUME OnceInv, UNCHANGED <<states, state, toPublish>> PROVE OnceInv'
  BY DEF OnceInv, Owed

(* The steps that change the state come when nothing is owed, raise its rank,
   and owe the hub the new state and no other. *)
LEMMA StateSteps ==
  ASSUME IInv, RunPreparing \/ RunRunning \/ RunDraining \/ RunAborted \/ RunFinal
  PROVE  /\ toPublish = <<>> /\ UNCHANGED <<hubVars, handler, got>>
         /\ Rank(state) < Rank(state')
         /\ \A i \in 1..Len(toPublish') :
              toPublish'[i].type = "state" => toPublish'[i] = State(state')
  <1>1. toPublish = <<>> /\ UNCHANGED <<hubVars, handler, got>>
    BY DEF RunPreparing, RunRunning, RunDraining, RunAborted, RunFinal, connVars, hubVars,
           histVars, chanVars
  <1>2. CASE RunPreparing \/ RunRunning \/ RunDraining
    <2>1. PICK s \in {"PREPARING", "RUNNING", "DRAINING"} :
                 setState(s) /\ Rank(state) < Rank(s)
      BY <1>2 DEF RunPreparing, RunRunning, RunDraining, Rank
    <2>2. state' = s /\ toPublish' = <<State(s)>>
      BY <2>1 DEF setState
    <2> QED
      BY <1>1, <2>1, <2>2
  <1>3. CASE RunAborted \/ RunFinal
    <2>1. state \in {"PREPARING", "DRAINING"} /\ cancelState \in Cancels \union {"no"}
      BY <1>3 DEF RunAborted, RunFinal, IInv, TypeOK
    <2>2. PICK s \in Terminal : finalize(s)
      <3>1. CASE RunAborted
        BY <2>1, <3>1 DEF RunAborted, Terminal
      <3>2. CASE RunFinal
        BY <2>1, <3>2 DEF RunFinal, Terminal
      <3> QED
        BY <1>3, <3>1, <3>2
    <2>3. state' = s /\ Rank(state) < Rank(s)
      BY <2>1, <2>2 DEF finalize, Rank, Terminal, Cancels
    <2>4. toPublish' = <<State(s), Exit, Close>> \/ toPublish' = <<Prt, State(s), Exit, Close>>
      BY <2>2, FinalShape
    <2>5. Exit.type = "exit" /\ Close.type = "close" /\ Prt.type = "stderr"
      BY EventTypes
    <2>6. CASE toPublish' = <<State(s), Exit, Close>>
      BY <1>1, <2>3, <2>5, <2>6
    <2>7. CASE toPublish' = <<Prt, State(s), Exit, Close>>
      BY <1>1, <2>3, <2>5, <2>7
    <2> QED
      BY <2>4, <2>6, <2>7
  <1> QED
    BY <1>2, <1>3

(* The other steps leave the states as they are, or publish lines. *)
LEMMA Stateless ==
  ASSUME IInv,
         \/ StartMonitor \/ TranscoderExit \/ MirrorStderr \/ AbortFail \/ AbortPublish
         \/ DeleteJob \/ PeerTimeoutPasses \/ Monitor
         \/ \E c \in Clients : Connect(c) \/ Handler(c) \/ ClientGone(c)
         \/ UNCHANGED vars
  PROVE  UNCHANGED <<states, exit, state, toPublish>>
  <1>1. CASE MirrorStderr \/ AbortPublish
    <2>1. UNCHANGED <<state, toPublish>> /\ \E n : publish(Stderr(n))
      BY <1>1 DEF MirrorStderr, AbortPublish, Prt
    <2>2. PICK n : publish(Stderr(n))
      BY <2>1
    <2>3. Stderr(n).type = "stderr"
      BY DEF Stderr
    <2>4. UNCHANGED <<states, exit>>
      BY <2>2, <2>3 DEF publish, record, histVars
    <2> QED
      BY <2>1, <2>4
  <1>2. ASSUME NEW c \in Clients, Connect(c) \/ Handler(c) \/ ClientGone(c)
        PROVE  UNCHANGED <<states, exit, state, toPublish>>
    BY <1>2 DEF Connect, Handler, Subscribe, CountClient, WriteEvent, EndOfStream, ClientGone,
                leave, UncountClient, connFrame, jobVars, histVars
  <1>3. CASE \/ StartMonitor \/ TranscoderExit \/ AbortFail \/ DeleteJob \/ PeerTimeoutPasses
             \/ Monitor \/ UNCHANGED vars
    BY <1>3 DEF StartMonitor, TranscoderExit, AbortFail, DeleteJob, PeerTimeoutPasses, Monitor,
                MonitorTick, MonitorCancel, vars, jobVars, hubVars, histVars
  <1> QED
    BY <1>1, <1>2, <1>3

(* What run() publishes next: a state that is new to the history, the exit event,
   a line, or the close. *)
LEMMA PublishSteps ==
  ASSUME IInv, StreamInv, OnceInv, RunPublish
  PROVE  /\ OnceInv'
         /\ \/ UNCHANGED <<states, exit>>
            \/ \E ev \in Milestones :
                 /\ (states \o exit)' = Append(states \o exit, ev)
                 /\ exit = <<>>
                 /\ \A i \in 1..Len(states) : states[i] \notin {ev, Exit}
  <1> DEFINE h == Head(toPublish)
  <1>t. HubTyped /\ ConnTyped
    BY TypeParts DEF IInv
  <1>1. /\ toPublish # <<>> /\ toPublish' = Tail(toPublish) /\ UNCHANGED state
        /\ IF h = Close THEN close ELSE publish(h)
    BY DEF RunPublish
  <1>2. /\ toPublish \in Seq(Events \union {Close})
        /\ Len(toPublish) \in Nat /\ Len(toPublish') = Len(toPublish) - 1
        /\ \A i \in 1..Len(toPublish') : toPublish'[i] = toPublish[i + 1]
        /\ h = toPublish[1] /\ 1 \in 1..Len(toPublish) /\ h \in Events \union {Close}
    BY <1>1, HeadTailProperties, LenProperties, EmptySeq DEF IInv, TypeOK
  <1>3. /\ h.type = "state" => Owed = 1 /\ Owed' = 0
        /\ Owed' = 0 \/ Owed' = Owed
    BY <1>1, TailOwed
  <1>4. \A i \in 1..Len(toPublish') : toPublish'[i].type = "state" => toPublish'[i] = State(state')
    <2>1. \A i \in 1..Len(toPublish') : i + 1 \in 1..Len(toPublish)
      BY <1>2
    <2> QED
      BY <1>1, <1>2, <2>1 DEF OnceInv
  <1>5. ASSUME UNCHANGED states PROVE OnceInv'
    <2>1. \A i \in 1..Len(states) : Rank(states[i].state) + Owed' <= Rank(state)
      BY <1>3, RankType DEF OnceInv
    <2> QED
      BY <1>1, <1>4, <1>5, <2>1 DEF OnceInv
  <1>6. CASE h = Close \/ closed
    <2>1. h # Close => h \in Events /\ publish(h)
      BY <1>1, <1>2
    <2>2. UNCHANGED <<states, exit>>
      BY <1>1, <1>6, <2>1 DEF close, publish, histVars
    <2> QED
      BY <1>5, <2>2
  <1>7. CASE h # Close /\ ~closed
    <2>1. h \in Events /\ publish(h)
      BY <1>1, <1>2, <1>7
    <2>2. h.type # "stderr" => exit = <<>>
      BY <1>2, <2>1, Kinds DEF StreamInv, EndInv
    <2> HIDE DEF h
    <2>3. /\ h.type = "stderr" => UNCHANGED <<states, exit>>
          /\ h.type # "stderr" => (states \o exit)' = Append(states \o exit, h) /\ h \in Milestones
      BY <1>t, <1>7, <2>1, <2>2, Recorded
    <2>4. /\ h.type \in {"state", "stderr", "exit"} /\ (h.type = "exit" => h = Exit)
          /\ Exit.type = "exit"
      BY <2>1, Kinds, EventTypes
    <2>5. /\ states \in Seq(StateEvents) /\ Len(states) \in Nat
          /\ \A i \in 1..Len(states) : states[i].type = "state"
      <3>1. states \in Seq(StateEvents) /\ Len(states) \in Nat
        BY <1>t, LenProperties DEF HubTyped
      <3>2. \A i \in 1..Len(states) : states[i] \in StateEvents
        BY <3>1, ElementOfSeq
      <3> QED
        BY <3>1, <3>2 DEF StateEvents
    <2>6. CASE h.type = "stderr"
      BY <1>5, <2>3, <2>6
    <2>7. CASE h.type = "exit"
      <3>1. record(h)
        BY <1>7, <2>1 DEF publish
      <3>2. UNCHANGED states
        BY <2>7, <3>1 DEF record
      <3>3. \A i \in 1..Len(states) : states[i] \notin {h, Exit}
        BY <2>4, <2>5, <2>7
      <3> QED
        BY <1>5, <2>2, <2>3, <2>7, <3>2, <3>3
    <2>8. CASE h.type = "state"
      <3>1. h = State(state) /\ h.state = state
        BY <1>2, <2>8 DEF OnceInv, State
      <3>2. \A i \in 1..Len(states) : states[i] \notin {h, Exit}
        BY <1>3, <2>4, <2>5, <2>8, <3>1, RankType DEF OnceInv
      <3>3. states' = Append(states, h)
        BY <1>7, <2>1, <2>8 DEF publish, record
      <3>4. Len(states') = Len(states) + 1 /\ states'[Len(states) + 1] = h
            /\ \A i \in 1..Len(states) : states'[i] = states[i]
        BY <2>5, <2>1, <2>8, <3>3, Kinds, AppendProperties
      <3>5. ASSUME NEW i \in 1..Len(states') PROVE Rank(states'[i].state) + Owed' <= Rank(state')
        <4>1. CASE i = Len(states) + 1
          <5>1. states'[i].state = state
            BY <3>1, <3>4, <4>1
          <5> QED
            BY <1>1, <1>3, <2>8, <5>1, RankType
        <4>2. CASE i # Len(states) + 1
          <5>1. i \in 1..Len(states) /\ states'[i] = states[i]
            BY <2>5, <3>4, <4>2
          <5>2. Rank(states[i].state) + Owed <= Rank(state)
            BY <5>1 DEF OnceInv
          <5> QED
            BY <1>1, <1>3, <2>8, <5>1, <5>2, RankType
        <4> QED
          BY <4>1, <4>2
      <3> QED
        BY <1>4, <2>2, <2>3, <2>8, <3>2, <3>5 DEF OnceInv
    <2> QED
      BY <2>4, <2>6, <2>7, <2>8
  <1> QED
    BY <1>6, <1>7

(* Every step keeps the history free of repetitions. *)
LEMMA StepOnce == IInv /\ StreamInv /\ OnceInv /\ [Next]_vars => OnceInv'
  <1> SUFFICES ASSUME IInv, StreamInv, OnceInv, [Next]_vars PROVE OnceInv'
    OBVIOUS
  <1>1. CASE RunPublish
    BY <1>1, PublishSteps
  <1>2. CASE RunPreparing \/ RunRunning \/ RunDraining \/ RunAborted \/ RunFinal
    <2>1. /\ toPublish = <<>> /\ states' = states /\ Rank(state) < Rank(state')
          /\ \A i \in 1..Len(toPublish') :
               toPublish'[i].type = "state" => toPublish'[i] = State(state')
      BY <1>2, StateSteps DEF hubVars, histVars
    <2>2. Owed = 0
      BY <2>1 DEF Owed
    <2>3. Owed' \in {0, 1}
      BY DEF Owed
    <2>4. \A i \in 1..Len(states) : Rank(states[i].state) + Owed' <= Rank(state')
      BY <2>1, <2>2, <2>3, RankType DEF OnceInv
    <2> QED
      BY <2>1, <2>4 DEF OnceInv
  <1>3. CASE ~(RunPublish \/ RunPreparing \/ RunRunning \/ RunDraining \/ RunAborted \/ RunFinal)
    BY <1>3, Stateless, OnceFrame DEF Next, Run
  <1> QED
    BY <1>1, <1>2, <1>3

(* The history holds no state twice (setState and finalize publish after they
   left j.mu; run() is the only one to publish states). *)
THEOREM StatesOnce == Spec => []OnceInv
  BY InitOnce, StepOnce, HubInvariant, StreamInvariant, PTL DEF Spec

-----------------------------------------------------------------------------
(* EventHub implements EventLog: only run() records milestones, a handler joins
   when it subscribes and leaves when it unsubscribes, and of its writes those
   of milestones count. *)

Told == [c \in Clients |-> only(got[c], Milestones)]
Conn == [c \in Clients |-> connOf(c)]
Hist == states \o exit

(* What is kept of two sequences is kept of each. *)
LEMMA OnlyConcat ==
  ASSUME NEW R, NEW S, NEW s \in Seq(R)
  PROVE  \A t \in Seq(R) : only(s \o t, S) = only(s, S) \o only(t, S)
  <1> DEFINE T == {t \in Seq(R) : only(s \o t, S) = only(s, S) \o only(t, S)}
  <1>0. only(s, S) \in Seq(R)
    BY OnlyType, SeqMonotonic, R \cap S \subseteq R
  <1>1. <<>> \in T
    BY <1>0, OnlyEmpty, ConcatEmptySeq, EmptySeq
  <1>2. ASSUME NEW t \in Seq(R), NEW e \in R, t \in T PROVE Append(t, e) \in T
    <2>1. s \o Append(t, e) = Append(s \o t, e) /\ s \o t \in Seq(R)
      BY ConcatAppend
    <2>2. only(Append(s \o t, e), S) = IF e \in S THEN Append(only(s \o t, S), e)
                                       ELSE only(s \o t, S)
      BY <2>1, OnlyAppend
    <2>3. only(Append(t, e), S) = IF e \in S THEN Append(only(t, S), e) ELSE only(t, S)
      BY OnlyAppend
    <2>4. only(t, S) \in Seq(R)
      BY OnlyType, SeqMonotonic, R \cap S \subseteq R
    <2>5. only(s, S) \o Append(only(t, S), e) = Append(only(s, S) \o only(t, S), e)
      BY <1>0, <2>4, ConcatAppend
    <2> QED
      BY <1>2, <2>1, <2>2, <2>3, <2>5, AppendProperties
  <1> HIDE DEF T
  <1>3. Seq(R) \subseteq T
    BY <1>1, <1>2, SeqSet
  <1> QED
    BY <1>3 DEF T

(* A prefix that is longer than s by e, and perhaps more, has e behind s. *)
LEMMA PrefixNext ==
  ASSUME NEW R, NEW s \in Seq(R), NEW e \in R, NEW t \in Seq(R), NEW l \in Seq(R),
         IsPrefix(Append(s, e) \o t, l)
  PROVE  Len(s) < Len(l) /\ l[Len(s) + 1] = e
  <1> DEFINE a == Append(s, e)
             p == a \o t
  <1>1. /\ a \in Seq(R) /\ Len(a) = Len(s) + 1 /\ a[Len(s) + 1] = e
        /\ Len(s) \in Nat /\ Len(t) \in Nat /\ Len(l) \in Nat
    BY AppendProperties, LenProperties
  <1> HIDE DEF a
  <1>2. /\ p \in Seq(R) /\ Len(p) = Len(a) + Len(t)
        /\ \A i \in 1..Len(a) + Len(t) : p[i] = IF i <= Len(a) THEN a[i] ELSE t[i - Len(a)]
    BY <1>1, ConcatProperties
  <1>3. Len(p) <= Len(l) /\ SubSeq(p, 1, Len(p)) = SubSeq(l, 1, Len(p))
    BY DEF IsPrefix, a
  <1> HIDE DEF p
  <1>4. Len(p) \in Nat /\ Len(s) + 1 \in 1..Len(p) /\ p[Len(s) + 1] = e
    BY <1>1, <1>2
  <1>5. SubSeq(p, 1, Len(p))[Len(s) + 1] = p[Len(s) + 1]
        /\ SubSeq(l, 1, Len(p))[Len(s) + 1] = l[Len(s) + 1]
    BY <1>1, <1>2, <1>3, <1>4
  <1> QED
    BY <1>1, <1>3, <1>4, <1>5

(* A milestone that a handler writes is the first its client was not told. *)
LEMMA NextTold ==
  ASSUME IInv, StreamInv, NEW c \in Clients, chan[c] # <<>>, Head(chan[c]) \in Milestones
  PROVE  /\ Head(chan[c]) \in Events
         /\ Len(only(got[c], Milestones)) < Len(Hist)
         /\ Hist[Len(only(got[c], Milestones)) + 1] = Head(chan[c])
  <1> DEFINE g == got[c]
             q == chan[c]
             h == Head(q)
             r == Tail(q)
             M == Milestones
  <1>t. HubTyped /\ ConnTyped
    BY TypeParts DEF IInv
  <1>1. g \in Seq(Events) /\ q \in Seq(Events) /\ q # <<>>
    BY <1>t, StreamType
  <1>2. h \in Events /\ r \in Seq(Events) /\ Append(g, h) \in Seq(Events)
    BY <1>1, HeadTailProperties, AppendProperties
  <1>p. IsPrefix(only(g \o q, M), Hist)
    BY DEF StreamInv, StatesComplete, Hist
  <1>h. Hist \in Seq(Events)
    <2>1. states \in Seq(Events) /\ exit \in Seq(Events)
      BY <1>t, SeqMonotonic, StateEvents \subseteq Events, {Exit} \subseteq Events DEF HubTyped, Events
    <2> QED
      BY <2>1, ConcatProperties DEF Hist
  <1>m. h \in M
    OBVIOUS
  <1> HIDE DEF g, q, M
  <1>3. Append(g, h) \o r = g \o q
    BY <1>1, MoveHead
  <1> HIDE DEF h, r
  <1>4. only(g \o q, M) = only(Append(g, h), M) \o only(r, M)
    BY <1>2, <1>3, OnlyConcat
  <1>5. only(Append(g, h), M) = Append(only(g, M), h)
    BY <1>1, <1>2, <1>m, OnlyAppend
  <1>6. only(g, M) \in Seq(Events) /\ only(r, M) \in Seq(Events)
    BY <1>1, <1>2, OnlyType, SeqMonotonic, Events \cap M \subseteq Events
  <1>7. Len(only(g, M)) < Len(Hist) /\ Hist[Len(only(g, M)) + 1] = h
    BY <1>2, <1>6, <1>h, <1>p, <1>4, <1>5, PrefixNext
  <1> QED
    BY <1>2, <1>7 DEF g, q, h, M

(* The initial state is one of the abstract log. *)
LEMMA LogInit == Init => Log!Init
  <1> SUFFICES ASSUME Init PROVE Log!Init
    OBVIOUS
  <1>1. states \o exit = <<State("PENDING")>>
    BY ConcatEmptySeq DEF Init
  <1>2. \A c \in Clients : only(got[c], Milestones) = <<>> /\ connOf(c) = "away"
    BY OnlyEmpty DEF Init, connOf
  <1> QED
    BY <1>1, <1>2 DEF Log!Init

(* The steps of a handler. *)
LEMMA ClientLog ==
  ASSUME IInv, StreamInv, NEW c \in Clients, Connect(c) \/ Handler(c) \/ ClientGone(c)
  PROVE  [Log!Next]_<<Hist, Told, Conn>>
  <1>t. HubTyped /\ ConnTyped
    BY TypeParts DEF IInv
  <1>h. Hist' = Hist
    BY Stateless DEF Hist
  <1>1. CASE Connect(c) \/ CountClient(c) \/ UncountClient(c)
    <2>1. got' = got /\ \A d \in Clients : connOf(d)' = connOf(d)
      BY <1>t, <1>1 DEF Connect, CountClient, UncountClient, ConnTyped, connOf
    <2> QED
      BY <1>h, <2>1 DEF Told, Conn
  <1>2. CASE Subscribe(c)
    <2>1. /\ got' = got /\ connOf(c) = "away" /\ connOf(c)' = "reading"
          /\ \A d \in Clients \ {c} : connOf(d)' = connOf(d)
      BY <1>t, <1>2 DEF Subscribe, ConnTyped, connOf
    <2>2. Told' = Told /\ Conn' = [Conn EXCEPT ![c] = "reading"] /\ Conn[c] = "away"
      BY <2>1 DEF Told, Conn
    <2>3. Log!Join(c)
      BY <1>h, <2>2 DEF Log!Join, Told, Conn, Hist
    <2> QED
      BY <2>3 DEF Log!Next
  <1>3. CASE WriteEvent(c)
    <2> DEFINE h == Head(chan[c])
    <2>1. /\ handler[c] = "stream" /\ chan[c] # <<>> /\ handler' = handler
          /\ got' = [got EXCEPT ![c] = Append(got[c], h)]
      BY <1>3 DEF WriteEvent
    <2>2. Conn' = Conn /\ Conn[c] = "reading"
      BY <2>1 DEF Conn, connOf
    <2>3. h \in Events /\ got[c] \in Seq(Events)
      BY <1>t, <2>1, StreamType, HeadTailProperties
    <2>4. /\ got'[c] = Append(got[c], h) /\ \A d \in Clients \ {c} : got'[d] = got[d]
      BY <1>t, <2>1 DEF ConnTyped
    <2>n. h \in Milestones => Len(Told[c]) < Len(Hist) /\ Hist[Len(Told[c]) + 1] = h
      BY <2>1, NextTold DEF Told
    <2> HIDE DEF h
    <2>5. only(got'[c], Milestones) = IF h \in Milestones THEN Append(Told[c], h) ELSE Told[c]
      <3> DEFINE g == got[c]
      <3>1. g \in Seq(Events) /\ got'[c] = Append(g, h) /\ Told[c] = only(g, Milestones)
        BY <2>3, <2>4 DEF Told
      <3> HIDE DEF g
      <3>2. only(Append(g, h), Milestones) =
              IF h \in Milestones THEN Append(only(g, Milestones), h) ELSE only(g, Milestones)
        BY <2>3, <3>1, OnlyAppend
      <3> QED
        BY <3>1, <3>2
    <2>6. CASE h \in Milestones
      <3>1. Told' = [Told EXCEPT ![c] = Append(Told[c], Hist[Len(Told[c]) + 1])]
        BY <2>4, <2>5, <2>6, <2>n DEF Told
      <3>2. Log!Tell(c)
        BY <1>h, <2>2, <2>6, <2>n, <3>1 DEF Log!Tell, Told, Conn, Hist
      <3> QED
        BY <3>2 DEF Log!Next
    <2>7. CASE h \notin Milestones
      <3>1. Told' = Told
        BY <2>4, <2>5, <2>7 DEF Told
      <3> QED
        BY <1>h, <2>2, <3>1
    <2> QED
      BY <2>6, <2>7
  <1>4. CASE EndOfStream(c) \/ ClientGone(c)
    <2>1. /\ handler[c] = "stream" /\ handler' = [handler EXCEPT ![c] = "unsub"]
          /\ got' = [got EXCEPT ![c] = <<>>]
      BY <1>4 DEF EndOfStream, ClientGone, leave
    <2>2. /\ got'[c] = <<>> /\ connOf(c) = "reading" /\ connOf(c)' = "left"
          /\ \A d \in Clients \ {c} : got'[d] = got[d] /\ connOf(d)' = connOf(d)
      BY <1>t, <2>1 DEF ConnTyped, connOf
    <2>3. only(got'[c], Milestones) = <<>>
      BY <2>2, OnlyEmpty
    <2>4. Told' = [Told EXCEPT ![c] = <<>>]
      BY <2>2, <2>3 DEF Told
    <2>5. Conn' = [Conn EXCEPT ![c] = "left"] /\ Conn[c] = "reading"
      BY <2>2 DEF Conn
    <2>6. Log!Leave(c)
      BY <1>h, <2>4, <2>5 DEF Log!Leave, Told, Conn, Hist
    <2> QED
      BY <2>6 DEF Log!Next
  <1> QED
    BY <1>1, <1>2, <1>3, <1>4 DEF Handler

(* Every step of the hub is a step of the log or a stutter of it. *)
LEMMA LogStep ==
  IInv /\ StreamInv /\ OnceInv /\ [Next]_vars => [Log!Next]_<<Hist, Told, Conn>>
  <1> SUFFICES ASSUME IInv, StreamInv, OnceInv, [Next]_vars
               PROVE  [Log!Next]_<<Hist, Told, Conn>>
    OBVIOUS
  <1>1. ASSUME NEW c \in Clients, Connect(c) \/ Handler(c) \/ ClientGone(c)
        PROVE  [Log!Next]_<<Hist, Told, Conn>>
    BY <1>1, ClientLog
  <1>2. ASSUME UNCHANGED <<handler, got>> PROVE Told' = Told /\ Conn' = Conn
    BY <1>2 DEF Told, Conn, connOf
  <1>3. CASE RunPublish
    <2>1. UNCHANGED <<handler, got>>
      BY <1>3 DEF RunPublish, connVars
    <2>2. CASE UNCHANGED <<states, exit>>
      BY <1>2, <2>1, <2>2 DEF Hist
    <2>3. ASSUME NEW ev \in Milestones, Hist' = Append(Hist, ev), exit = <<>>,
                 \A i \in 1..Len(states) : states[i] \notin {ev, Exit}
          PROVE  Log!Record(ev)
      <3>1. Hist = states
        BY <2>3, TypeParts, ConcatEmptySeq DEF IInv, HubTyped, Hist
      <3>2. \A i \in 1..Len(Hist) : Hist[i] \notin {ev, Exit}
        BY <2>3, <3>1
      <3> QED
        BY <1>2, <2>1, <2>3, <3>2 DEF Log!Record, Hist, Told, Conn
    <2>4. \/ UNCHANGED <<states, exit>>
          \/ \E ev \in Milestones : /\ Hist' = Append(Hist, ev) /\ exit = <<>>
                                    /\ \A i \in 1..Len(states) : states[i] \notin {ev, Exit}
      BY <1>3, PublishSteps DEF Hist
    <2> QED
      BY <2>2, <2>3, <2>4 DEF Log!Next
  <1>4. CASE RunPreparing \/ RunRunning \/ RunDraining \/ RunAborted \/ RunFinal
    <2>1. UNCHANGED <<states, exit, handler, got>>
      BY <1>4, StateSteps DEF hubVars, histVars
    <2> QED
      BY <1>2, <2>1 DEF Hist
  <1>5. CASE \/ StartMonitor \/ TranscoderExit \/ MirrorStderr \/ AbortFail \/ AbortPublish
             \/ DeleteJob \/ PeerTimeoutPasses \/ Monitor \/ UNCHANGED vars
    <2>1. UNCHANGED <<states, exit>>
      BY <1>5, Stateless
    <2>2. UNCHANGED <<handler, got>>
      BY <1>5 DEF StartMonitor, TranscoderExit, MirrorStderr, AbortFail, AbortPublish, DeleteJob,
                  PeerTimeoutPasses, Monitor, MonitorTick, MonitorCancel, vars, connVars
    <2> QED
      BY <1>2, <2>1, <2>2 DEF Hist
  <1> QED
    BY <1>1, <1>3, <1>4, <1>5 DEF Next, Run

(* The hub keeps the promise of EventLog: the snapshot and the live channel, the
   ring, the drops and the closed hub are steps of that abstract log, or steps
   it does not see (publish, subscribe, close, handleJobEvents). *)
THEOREM LogImplementation == Spec => ImplementsEventLog
  BY LogInit, LogStep, HubInvariant, StreamInvariant, StatesOnce, PTL
     DEF Spec, ImplementsEventLog, Log!Spec, Log!vars, Hist, Told, Conn

-----------------------------------------------------------------------------
(* The safety halves of StreamEnds and LostJobEnds. *)

(* A handler that serves a client is one that publish and close still know, or
   its channel is closed; nobody sends on a closed channel (a panic in Go); and
   the hub closes only behind an exit event. *)
StreamsOwed ==
  /\ closed => subs = {} /\ exit # <<>>
  /\ \A c \in Clients :
       /\ c \in subs => ~chanClosed[c]
       /\ handler[c] \in {"subscribed", "stream"} => c \in subs \/ chanClosed[c]

(* finalize puts the exit event before the close. *)
CloseInv ==
  \A k \in 1..Len(toPublish) : toPublish[k].type = "close" =>
    exit # <<>> \/ \E i \in 1..(k - 1) : toPublish[i].type = "exit"

(* monitorLifeline returns only from a job that is over or being cancelled, and
   a job has its monitor before it drains. *)
LifelineWatched ==
  /\ monitor = "returned" => cancelState # "no" \/ state \in Terminal
  /\ state = "DRAINING" => monitor # "none"

(* They depend on these variables. *)
LEMMA OwedFrame ==
  /\ StreamsOwed /\ UNCHANGED <<closed, subs, exit, chanClosed, handler>> => StreamsOwed'
  /\ CloseInv /\ UNCHANGED <<exit, toPublish>> => CloseInv'
  /\ LifelineWatched /\ UNCHANGED <<monitor, cancelState, state>> => LifelineWatched'
  BY DEF StreamsOwed, CloseInv, LifelineWatched

(* A subscriber that a publication drops finds its channel closed. *)
LEMMA PublishOwed ==
  ASSUME HubTyped, StreamsOwed, NEW ev \in Events, publish(ev), UNCHANGED handler,
         exit # <<>> => exit' # <<>>
  PROVE  StreamsOwed'
  <1>1. CASE closed
    <2>1. UNCHANGED <<closed, subs, exit, chanClosed>>
      BY <1>1 DEF publish, histVars, chanVars
    <2> QED
      BY <2>1, OwedFrame
  <1>2. CASE ~closed
    <2>1. deliver(ev) /\ ~closed'
      BY <1>2 DEF publish
    <2> QED
      BY <2>1 DEF deliver, StreamsOwed
  <1> QED
    BY <1>1, <1>2

(* run() publishes the exit before it closes the hub. *)
LEMMA RunOwed ==
  ASSUME IInv, StreamInv, StreamsOwed, CloseInv, RunPublish
  PROVE  StreamsOwed' /\ CloseInv'
  <1> DEFINE h == Head(toPublish)
  <1>t. HubTyped
    BY TypeParts DEF IInv
  <1>1. /\ toPublish # <<>> /\ toPublish' = Tail(toPublish) /\ UNCHANGED <<state, handler>>
        /\ IF h = Close THEN close ELSE publish(h)
    BY DEF RunPublish, connVars
  <1>2. /\ toPublish \in Seq(Events \union {Close})
        /\ Len(toPublish) \in Nat /\ Len(toPublish') = Len(toPublish) - 1
        /\ \A i \in 1..Len(toPublish') : toPublish'[i] = toPublish[i + 1]
        /\ h = toPublish[1] /\ 1 \in 1..Len(toPublish) /\ h \in Events \union {Close}
    BY <1>1, HeadTailProperties, LenProperties, EmptySeq DEF IInv, TypeOK
  <1> HIDE DEF h
  <1>3. (exit # <<>> => exit' # <<>>) /\ (h.type = "exit" => exit' # <<>>)
    <2>1. CASE h = Close
      <3>1. exit' = exit /\ h.type = "close"
        BY <1>1, <2>1, EventTypes DEF close, histVars
      <3> QED
        BY <3>1
    <2>2. CASE h # Close /\ closed
      <3>1. exit' = exit /\ exit # <<>>
        BY <1>1, <2>2 DEF publish, histVars, StreamsOwed
      <3> QED
        BY <3>1
    <2>3. CASE h # Close /\ ~closed
      <3>1. exit' = IF h.type = "exit" THEN <<h>> ELSE exit
        BY <1>1, <2>3 DEF publish, record
      <3> QED
        BY <3>1
    <2> QED
      BY <2>1, <2>2, <2>3
  <1>4. CloseInv'
    <2> SUFFICES ASSUME NEW k \in 1..Len(toPublish'), toPublish'[k].type = "close", exit' = <<>>
                 PROVE  \E i \in 1..(k - 1) : toPublish'[i].type = "exit"
      BY DEF CloseInv
    <2>1. k + 1 \in 1..Len(toPublish) /\ toPublish[k + 1].type = "close" /\ exit = <<>>
      BY <1>2, <1>3
    <2>2. PICK i \in 1..(k + 1 - 1) : toPublish[i].type = "exit"
      BY <2>1 DEF CloseInv
    <2>3. i # 1
      BY <1>2, <1>3, <2>2
    <2>4. i - 1 \in 1..(k - 1) /\ i - 1 \in 1..Len(toPublish') /\ i - 1 + 1 = i
      BY <1>2, <2>2, <2>3
    <2>5. toPublish'[i - 1] = toPublish[i]
      BY <1>2, <2>4
    <2> QED
      BY <2>2, <2>4, <2>5
  <1>5. StreamsOwed'
    <2>1. CASE h = Close
      <3>1. h.type = "close" /\ close /\ exit' = exit
        BY <1>1, <2>1, EventTypes DEF close, histVars
      <3>2. exit # <<>>
        <4>1. \A i \in 1..(1 - 1) : FALSE
          OBVIOUS
        <4> QED
          BY <1>2, <3>1, <4>1 DEF CloseInv
      <3> QED
        BY <1>1, <1>t, <3>1, <3>2 DEF close, StreamsOwed, HubTyped
    <2>2. CASE h # Close
      <3>1. h \in Events /\ publish(h)
        BY <1>1, <1>2, <2>2
      <3> QED
        BY <1>1, <1>3, <1>t, <3>1, PublishOwed
    <2> QED
      BY <2>1, <2>2
  <1> QED
    BY <1>4, <1>5

(* A handler joins the subscribers, or finds the hub closed; it leaves them when
   it stops serving. *)
LEMMA ClientOwed ==
  ASSUME IInv, StreamInv, StreamsOwed, NEW c \in Clients, Connect(c) \/ Handler(c) \/ ClientGone(c)
  PROVE  StreamsOwed'
  <1>t. HubTyped /\ ConnTyped
    BY TypeParts DEF IInv
  <1>f. UNCHANGED <<closed, exit>>
    BY DEF Connect, Handler, Subscribe, CountClient, WriteEvent, EndOfStream, ClientGone, leave,
           UncountClient, connFrame, histVars
  <1>1. CASE Connect(c) \/ CountClient(c) \/ UncountClient(c)
    <2>1. /\ UNCHANGED <<subs, chanClosed>>
          /\ \A d \in Clients : handler'[d] \in {"subscribed", "stream"}
               => handler[d] \in {"subscribed", "stream"}
      BY <1>t, <1>1 DEF Connect, CountClient, UncountClient, chanVars, ConnTyped
    <2> QED
      BY <1>f, <2>1 DEF StreamsOwed
  <1>2. CASE Subscribe(c)
    BY <1>f, <1>t, <1>2 DEF Subscribe, StreamsOwed, HubTyped, ConnTyped, StreamInv, AwayInv
  <1>3. CASE WriteEvent(c)
    BY <1>f, <1>3, OwedFrame DEF WriteEvent
  <1>4. CASE EndOfStream(c) \/ ClientGone(c)
    BY <1>f, <1>t, <1>4 DEF EndOfStream, ClientGone, leave, StreamsOwed, HubTyped, ConnTyped
  <1> QED
    BY <1>1, <1>2, <1>3, <1>4 DEF Handler

(* Every step keeps every handler served. *)
LEMMA StepOwed ==
  IInv /\ StreamInv /\ StreamsOwed /\ CloseInv /\ [Next]_vars => StreamsOwed' /\ CloseInv'
  <1> SUFFICES ASSUME IInv, StreamInv, StreamsOwed, CloseInv, [Next]_vars
               PROVE  StreamsOwed' /\ CloseInv'
    OBVIOUS
  <1>1. CASE RunPublish
    BY <1>1, RunOwed
  <1>2. CASE RunPreparing \/ RunRunning \/ RunDraining \/ RunAborted \/ RunFinal
    <2>1. UNCHANGED <<closed, subs, exit, chanClosed, handler>>
      BY <1>2, StateSteps DEF hubVars, histVars, chanVars
    <2>2. CloseInv'
      <3>1. CASE RunPreparing \/ RunRunning \/ RunDraining
        <4>1. PICK s \in States : toPublish' = <<State(s)>>
          BY <3>1 DEF RunPreparing, RunRunning, RunDraining, setState, States
        <4>2. State(s).type = "state"
          BY DEF State
        <4> QED
          BY <4>1, <4>2 DEF CloseInv
      <3>2. CASE RunAborted \/ RunFinal
        <4>1. cancelState \in Cancels \union {"no"}
          BY DEF IInv, TypeOK
        <4>2. PICK s \in Terminal : finalize(s)
          <5>1. CASE RunAborted
            BY <4>1, <5>1 DEF RunAborted, Terminal
          <5>2. CASE RunFinal
            BY <4>1, <5>2 DEF RunFinal, Terminal
          <5> QED
            BY <3>2, <5>1, <5>2
        <4>3. State(s).type = "state" /\ Exit.type = "exit" /\ Prt.type = "stderr"
          BY EventTypes DEF State
        <4>4. CASE toPublish' = <<State(s), Exit, Close>>
          <5>1. Len(toPublish') = 3 /\ toPublish'[1].type = "state" /\ toPublish'[2].type = "exit"
            BY <4>3, <4>4
          <5> QED
            BY <5>1 DEF CloseInv
        <4>5. CASE toPublish' = <<Prt, State(s), Exit, Close>>
          <5>1. /\ Len(toPublish') = 4 /\ toPublish'[1].type = "stderr"
                /\ toPublish'[2].type = "state" /\ toPublish'[3].type = "exit"
            BY <4>3, <4>5
          <5> QED
            BY <5>1 DEF CloseInv
        <4> QED
          BY <4>2, <4>4, <4>5, FinalShape
      <3> QED
        BY <1>2, <3>1, <3>2
    <2> QED
      BY <2>1, <2>2, OwedFrame
  <1>3. CASE MirrorStderr \/ AbortPublish
    <2>1. UNCHANGED <<toPublish, handler, exit>>
      BY <1>3, Stateless DEF MirrorStderr, AbortPublish, connVars
    <2>2. \E ev \in Events : publish(ev)
      <3>1. CASE AbortPublish
        BY <3>1, EventTypes DEF AbortPublish
      <3>2. CASE MirrorStderr
        <4>1. lines' \in 0..MaxLines /\ publish(Stderr(lines'))
          BY <3>2, HubAssumption DEF MirrorStderr, IInv, TypeOK
        <4> QED
          BY <4>1, EventTypes
      <3> QED
        BY <1>3, <3>1, <3>2
    <2> QED
      BY <2>1, <2>2, PublishOwed, OwedFrame, TypeParts DEF IInv
  <1>4. ASSUME NEW c \in Clients, Connect(c) \/ Handler(c) \/ ClientGone(c)
        PROVE  StreamsOwed' /\ CloseInv'
    BY <1>4, ClientOwed, Stateless, OwedFrame
  <1>5. CASE \/ StartMonitor \/ TranscoderExit \/ AbortFail \/ DeleteJob
             \/ PeerTimeoutPasses \/ Monitor \/ UNCHANGED vars
    <2>1. UNCHANGED <<closed, subs, exit, chanClosed, handler, toPublish>>
      BY <1>5 DEF StartMonitor, TranscoderExit, AbortFail, DeleteJob, PeerTimeoutPasses, Monitor,
                  MonitorTick, MonitorCancel, vars, jobVars, hubVars, histVars, chanVars, connVars
    <2> QED
      BY <2>1, OwedFrame
  <1> QED
    BY <1>1, <1>2, <1>3, <1>4, <1>5 DEF Next, Run

(* Every handler that serves a client is fed or told that it is over: publish
   drops a subscriber only together with closing its channel, and close closes
   all of them, behind the exit event. *)
THEOREM NobodyForgotten == Spec => []StreamsOwed
  <1>1. Init => StreamsOwed /\ CloseInv
    BY DEF Init, StreamsOwed, CloseInv
  <1> QED
    BY <1>1, StepOwed, HubInvariant, StreamInvariant, PTL DEF Spec

(* Every step of the monitor or of run() keeps the lifeline watched. *)
LEMMA StepWatched == IInv /\ LifelineWatched /\ [Next]_vars => LifelineWatched'
  <1> SUFFICES ASSUME IInv, LifelineWatched, [Next]_vars PROVE LifelineWatched'
    OBVIOUS
  <1> USE DEF LifelineWatched
  <1>1. CASE RunPreparing \/ RunRunning \/ RunDraining
    BY <1>1 DEF RunPreparing, RunRunning, RunDraining, setState, Terminal, Cancels
  <1>2. CASE RunAborted \/ RunFinal
    <2>1. cancelState \in Cancels \union {"no"} /\ UNCHANGED <<monitor, cancelState>>
      BY <1>2 DEF RunAborted, RunFinal, IInv, TypeOK, lifeVars
    <2>2. state' \in Terminal
      BY <1>2, <2>1 DEF RunAborted, RunFinal, finalize, Terminal
    <2> QED
      BY <2>1, <2>2 DEF Terminal, Cancels
  <1>3. CASE StartMonitor
    BY <1>3 DEF StartMonitor, jobVars
  <1>4. CASE DeleteJob
    BY <1>4 DEF DeleteJob, requestCancel, lifeVars
  <1>5. CASE MonitorTick
    BY <1>5 DEF MonitorTick, jobVars
  <1>6. CASE MonitorCancel
    BY <1>6 DEF MonitorCancel, requestCancel
  <1>7. CASE \/ RunPublish \/ TranscoderExit \/ MirrorStderr \/ AbortFail \/ AbortPublish
             \/ PeerTimeoutPasses \/ UNCHANGED vars
    BY <1>7, OwedFrame
       DEF RunPublish, TranscoderExit, MirrorStderr, AbortFail, AbortPublish, PeerTimeoutPasses,
           vars, jobVars, lifeVars
  <1>8. ASSUME NEW c \in Clients, Connect(c) \/ Handler(c) \/ ClientGone(c)
        PROVE  LifelineWatched'
    BY <1>8, OwedFrame DEF Connect, Handler, Subscribe, CountClient, WriteEvent, EndOfStream,
              ClientGone, leave, UncountClient, connFrame, jobVars
  <1> QED
    BY <1>1, <1>2, <1>3, <1>4, <1>5, <1>6, <1>7, <1>8 DEF Next, Run, Monitor

(* A job that drains or runs with a monitor is watched until it is cancelled or
   over: the goroutine does not return early (monitorLifeline). *)
THEOREM LifelineAlwaysWatched == Spec => []LifelineWatched
  <1>1. Init => LifelineWatched
    BY DEF Init, LifelineWatched
  <1> QED
    BY <1>1, StepWatched, HubInvariant, PTL DEF Spec
=============================================================================
