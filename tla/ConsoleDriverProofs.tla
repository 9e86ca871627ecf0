-------------------------- MODULE ConsoleDriverProofs --------------------------
(***************************************************************************)
(* What an exit code of the console driver is worth, for any payload, any  *)
(* exit codes and any chatter of the guest.                                *)
(*                                                                         *)
(* Nothing the driver sends is acknowledged.  The proof rests on the one   *)
(* thing it learns of the guest without reading it: an echo that is off    *)
(* was turned off by the first line typed, so that line was not lost, nor  *)
(* was any typed after it.                                                 *)
(***************************************************************************)
EXTENDS ConsoleDriver, SequenceTheorems, WellFoundedInduction, TLAPS

TypedLine == [line : Lines, part : Nat]
Upto(k)   == IF k = 0 THEN NoFile ELSE [n \in 1 .. k |-> n]
Unmarked(s) == \A n \in DOMAIN s : s[n] # Marker

\* The types the other parts need.
KTypes ==
    /\ pc \in {"connect", "look", "relook", "nudge", "reset", "feed", "drain",
               "final", "wait", "reparse", "done"}
    /\ sent \in 0 .. Chunks
    /\ buf \in Seq(0 .. 12) /\ con \in Seq(0 .. 12)
    /\ typed \in Seq(TypedLine)
    /\ truth \in Seq(0 .. 9)
    /\ echo \in BOOLEAN /\ shown \in BOOLEAN
    /\ (pc = "done") = (exit # NoExit)
    /\ guest \in {"boot", "login", "shell"}
    /\ guest = "boot" => typed = <<>>
    /\ ~echo => guest = "shell"

\* Until the echo is turned off only newlines are typed.
BeforeInv ==
    pc \in {"connect", "look", "relook", "nudge", "reset"} =>
        /\ echo /\ script = "no"
        /\ Unmarked(con) /\ buf = <<>>
        /\ \A n \in DOMAIN typed : typed[n].line = "nudge"

\* Pieces k + 1 to n of the payload.
Pieces(k, n) == [j \in 1 .. n - k |-> [line |-> "chunk", part |-> k + j]]

\* While the payload is typed: with the echo off, the pieces are in the file or
\* on their way, in order; a line that will turn it off has all of them behind.
FeedingInv ==
    pc \in {"feed", "drain", "final"} =>
        /\ script = "no"
        /\ Unmarked(con) /\ buf = <<>>
        /\ pc = "final" => sent = Chunks
        /\ \A n \in DOMAIN typed : typed[n].line # "final"
        /\ ~echo => \E k \in 0 .. sent : file = Upto(k) /\ typed = Pieces(k, sent)
        /\ \A r \in DOMAIN typed : typed[r].line = "reset" =>
             /\ Len(typed) - r = sent
             /\ \A j \in 1 .. sent : typed[r + j] = [line |-> "chunk", part |-> j]

\* The answer, its code and what ends it stand in s, and no other marker.
Answered(s) ==
    \E p \in DOMAIN s :
        /\ \A n \in DOMAIN s : s[n] = Marker <=> n = p
        /\ p + Len(truth) < Len(s)
        /\ \A j \in 1 .. Len(truth) : s[p + j] = truth[j]
        /\ s[p + Len(truth) + 1] = Text

FinalLine == [line |-> "final", part |-> 0]

\* Without an answer, the last line was lost, or is on its way behind the
\* payload, or runs it.
Unanswered ==
    \/ script = "no" /\ typed = <<>> /\ Unmarked(buf \o con)
    \/ /\ script = "no" /\ Unmarked(buf \o con)
       /\ ~echo
       /\ \E k \in 0 .. Chunks : file = Upto(k) /\ typed = Append(Pieces(k, Chunks), FinalLine)
    \/ /\ script = "runs" /\ typed = <<>> /\ Unmarked(buf \o con)
       /\ truth \in Codes /\ file = Upto(Chunks)

\* While the driver waits, if its last line was not echoed.
WaitingInv ==
    pc \in {"wait", "reparse"} /\ ~shown =>
        /\ pc = "reparse" => Has(buf, Marker)
        /\ \/ Unanswered
           \/ /\ script = "over" /\ typed = <<>> /\ Answered(buf \o con)
              /\ truth \in Codes /\ file = Upto(Chunks)

\* A code is one of the answer.
CodeInv ==
    exit.how = "code" /\ ~shown =>
        /\ script = "over" /\ typed = <<>>
        /\ truth \in Codes /\ file = Upto(Chunks)
        /\ \E k \in 1 .. Len(truth) : exit.code = Status(SubSeq(truth, 1, k))

KInv == KTypes /\ BeforeInv /\ FeedingInv /\ WaitingInv /\ CodeInv

-----------------------------------------------------------------------------
(* Sequences.                                                              *)

\* The beginning of a stream and what is left of it.
LEMMA CutStream ==
    ASSUME NEW c \in Seq(0 .. 12), NEW k \in 0 .. Len(c)
    PROVE  /\ SubSeq(c, 1, k) \in Seq(0 .. 12) /\ Len(SubSeq(c, 1, k)) = k
           /\ \A n \in 1 .. k : SubSeq(c, 1, k)[n] = c[n]
           /\ SubSeq(c, k + 1, Len(c)) \in Seq(0 .. 12)
           /\ Len(SubSeq(c, k + 1, Len(c))) = Len(c) - k
           /\ \A n \in 1 .. Len(c) - k : SubSeq(c, k + 1, Len(c))[n] = c[k + n]
<1> DEFINE d == SubSeq(c, 1, k)
<1> DEFINE e == SubSeq(c, k + 1, Len(c))
<1>1. Len(c) \in Nat /\ k \in Int /\ \A n \in 1 .. Len(c) : c[n] \in 0 .. 12
    BY LenProperties, ElementOfSeq
<1>2. /\ d \in Seq(0 .. 12) /\ Len(d) = k
      /\ \A n \in 1 .. k : d[n] = c[n]
  <2>1. \A n \in 1 .. k : c[n] \in 0 .. 12
      BY <1>1
  <2> QED
      BY <1>1, <2>1, SubSeqProperties, 1 \in Int
<1>3. /\ e \in Seq(0 .. 12) /\ Len(e) = Len(c) - k
      /\ \A n \in 1 .. Len(c) - k : e[n] = c[k + n]
  <2>1. \A n \in k + 1 .. Len(c) : c[n] \in 0 .. 12
      BY <1>1
  <2>2. k + 1 \in Int /\ Len(c) \in Int
      BY <1>1
  <2>3. /\ e \in Seq(0 .. 12)
        /\ Len(e) = IF k + 1 <= Len(c) THEN Len(c) - (k + 1) + 1 ELSE 0
        /\ \A n \in 1 .. Len(c) - (k + 1) + 1 : e[n] = c[k + 1 + n - 1]
      BY <2>1, <2>2, SubSeqProperties
  <2> QED
      BY <1>1, <2>3
<1> QED
    BY <1>2, <1>3

\* What is read leaves the stream of tokens as it is.
LEMMA ReadKeepsStream ==
    ASSUME NEW b \in Seq(0 .. 12), NEW c \in Seq(0 .. 12), NEW k \in 0 .. Len(c)
    PROVE  /\ SubSeq(c, 1, k) \in Seq(0 .. 12)
           /\ SubSeq(c, k + 1, Len(c)) \in Seq(0 .. 12)
           /\ b \o SubSeq(c, 1, k) \in Seq(0 .. 12)
           /\ (b \o SubSeq(c, 1, k)) \o SubSeq(c, k + 1, Len(c)) = b \o c
           /\ Unmarked(c) => Unmarked(SubSeq(c, k + 1, Len(c)))
<1> DEFINE d == SubSeq(c, 1, k)
<1> DEFINE e == SubSeq(c, k + 1, Len(c))
<1>1. Len(c) \in Nat /\ k \in Int /\ \A n \in 1 .. Len(c) : c[n] \in 0 .. 12
    BY LenProperties, ElementOfSeq
<1>2. /\ d \in Seq(0 .. 12) /\ Len(d) = k
      /\ \A n \in 1 .. k : d[n] = c[n]
    BY CutStream
<1>3. /\ e \in Seq(0 .. 12) /\ Len(e) = Len(c) - k
      /\ \A n \in 1 .. Len(c) - k : e[n] = c[k + n]
    BY CutStream
<1> HIDE DEF d, e
<1>4. d \o e = c
  <2>1. /\ d \o e \in Seq(0 .. 12) /\ Len(d \o e) = Len(d) + Len(e)
        /\ \A n \in 1 .. Len(d) + Len(e) :
             (d \o e)[n] = IF n <= Len(d) THEN d[n] ELSE e[n - Len(d)]
      BY <1>2, <1>3, ConcatProperties
  <2>2. Len(d \o e) = Len(c)
      BY <1>1, <1>2, <1>3, <2>1
  <2>3. ASSUME NEW n \in 1 .. Len(c) PROVE (d \o e)[n] = c[n]
    <3>0. n <= k \/ n > k
        BY <1>1
    <3>1. CASE n <= k
        BY <1>1, <1>2, <1>3, <2>1, <3>1
    <3>2. CASE n > k
      <4>1. n - k \in 1 .. Len(c) - k /\ k + (n - k) = n
          BY <1>1, <3>2
      <4>2. e[n - k] = c[n]
          BY <1>3, <4>1
      <4> QED
          BY <1>1, <1>2, <1>3, <2>1, <3>2, <4>2
    <3> QED
        BY <3>0, <3>1, <3>2
  <2> QED
      BY <2>1, <2>2, <2>3, SeqEqual
<1>5. (b \o d) \o e = b \o (d \o e)
    BY <1>2, <1>3, ConcatAssociative, SMTT(30)
<1>6. b \o d \in Seq(0 .. 12)
    BY <1>2, ConcatProperties
<1>7. Unmarked(c) => Unmarked(e)
  <2>1. DOMAIN c = 1 .. Len(c) /\ DOMAIN e = 1 .. Len(c) - k
      BY <1>3, LenProperties
  <2>2. \A n \in DOMAIN e : k + n \in DOMAIN c /\ e[n] = c[k + n]
      BY <1>1, <1>3, <2>1
  <2> QED
      BY <2>2 DEF Unmarked
<1> QED
    BY <1>2, <1>3, <1>4, <1>5, <1>6, <1>7 DEF d, e

\* Tokens shown without a marker.
LEMMA ShowUnmarked ==
    ASSUME NEW s \in Seq(0 .. 12), NEW t \in Seq(0 .. 12), Unmarked(s), Unmarked(t)
    PROVE  s \o t \in Seq(0 .. 12) /\ Unmarked(s \o t)
<1>1. DOMAIN s = 1 .. Len(s) /\ DOMAIN t = 1 .. Len(t) /\ Len(s) \in Nat /\ Len(t) \in Nat
    BY LenProperties
<1>2. /\ s \o t \in Seq(0 .. 12) /\ Len(s \o t) = Len(s) + Len(t)
      /\ \A n \in 1 .. Len(s) + Len(t) :
            (s \o t)[n] = IF n <= Len(s) THEN s[n] ELSE t[n - Len(s)]
    BY ConcatProperties
<1>3. DOMAIN (s \o t) = 1 .. Len(s) + Len(t)
    BY <1>2, LenProperties
<1> QED
    BY <1>1, <1>2, <1>3 DEF Unmarked

\* The tokens an answer is looked for in are not moved by what follows them.
LEMMA ShowAnswered ==
    ASSUME NEW s \in Seq(0 .. 12), NEW t \in Seq(0 .. 12), Answered(s), Unmarked(t),
           truth \in Seq(0 .. 9)
    PROVE  Answered(s \o t)
<1>1. /\ DOMAIN s = 1 .. Len(s) /\ DOMAIN t = 1 .. Len(t) /\ Len(s) \in Nat
      /\ Len(t) \in Nat /\ Len(truth) \in Nat
    BY LenProperties
<1>2. /\ s \o t \in Seq(0 .. 12) /\ Len(s \o t) = Len(s) + Len(t)
      /\ \A n \in 1 .. Len(s) + Len(t) :
            (s \o t)[n] = IF n <= Len(s) THEN s[n] ELSE t[n - Len(s)]
    BY ConcatProperties
<1>3. DOMAIN (s \o t) = 1 .. Len(s) + Len(t)
    BY <1>2, LenProperties
<1>4. PICK p \in DOMAIN s :
        /\ \A n \in DOMAIN s : s[n] = Marker <=> n = p
        /\ p + Len(truth) < Len(s)
        /\ \A j \in 1 .. Len(truth) : s[p + j] = truth[j]
        /\ s[p + Len(truth) + 1] = Text
    BY DEF Answered
<1>5. p \in DOMAIN (s \o t)
    BY <1>1, <1>3
<1>6. \A n \in DOMAIN (s \o t) : (s \o t)[n] = Marker <=> n = p
    BY <1>1, <1>2, <1>3, <1>4 DEF Unmarked
<1>7. p + Len(truth) < Len(s \o t)
    BY <1>1, <1>2, <1>4
<1>8. \A j \in 1 .. Len(truth) : (s \o t)[p + j] = truth[j]
    BY <1>1, <1>2, <1>4
<1>9. (s \o t)[p + Len(truth) + 1] = Text
    BY <1>1, <1>2, <1>4
<1> QED
    BY <1>5, <1>6, <1>7, <1>8, <1>9 DEF Answered

\* A script that ends answers.
LEMMA AnswerShown ==
    ASSUME NEW s \in Seq(0 .. 12), Unmarked(s), truth \in Seq(0 .. 9)
    PROVE  /\ <<Marker>> \o truth \o <<Text, Prompt>> \in Seq(0 .. 12)
           /\ Answered(s \o (<<Marker>> \o truth \o <<Text, Prompt>>))
<1> DEFINE a == <<Marker>> \o truth
<1> DEFINE w == a \o <<Text, Prompt>>
<1>1. /\ Len(s) \in Nat /\ Len(truth) \in Nat /\ DOMAIN s = 1 .. Len(s)
      /\ \A j \in 1 .. Len(truth) : truth[j] \in 0 .. 9
      /\ \A n \in 1 .. Len(s) : s[n] \in 0 .. 12
    BY LenProperties, ElementOfSeq
<1>2. truth \in Seq(0 .. 12) /\ <<Marker>> \in Seq(0 .. 12) /\ <<Text, Prompt>> \in Seq(0 .. 12)
  <2>1. 0 .. 9 \subseteq 0 .. 12
      OBVIOUS
  <2> QED
      BY <2>1, SeqMonotonic DEF Marker, Text, Prompt
<1>3. /\ a \in Seq(0 .. 12) /\ Len(a) = Len(truth) + 1
      /\ a[1] = Marker /\ \A j \in 1 .. Len(truth) : a[j + 1] = truth[j]
  <2>1. /\ a \in Seq(0 .. 12) /\ Len(a) = Len(<<Marker>>) + Len(truth)
        /\ \A n \in 1 .. Len(<<Marker>>) + Len(truth) :
             a[n] = IF n <= Len(<<Marker>>) THEN <<Marker>>[n] ELSE truth[n - Len(<<Marker>>)]
      BY <1>2, ConcatProperties
  <2>2. Len(<<Marker>>) = 1 /\ <<Marker>>[1] = Marker
      OBVIOUS
  <2>3. ASSUME NEW j \in 1 .. Len(truth) PROVE a[j + 1] = truth[j]
    <3>1. j + 1 \in 1 .. 1 + Len(truth) /\ ~(j + 1 <= 1) /\ (j + 1) - 1 = j
        BY <1>1
    <3> QED
        BY <2>1, <2>2, <3>1
  <2>4. a[1] = Marker
      BY <1>1, <2>1, <2>2
  <2> QED
      BY <1>1, <2>1, <2>2, <2>3, <2>4
<1> HIDE DEF a
<1>4. /\ w \in Seq(0 .. 12) /\ Len(w) = Len(truth) + 3
      /\ w[1] = Marker /\ \A j \in 1 .. Len(truth) : w[j + 1] = truth[j]
      /\ w[Len(truth) + 2] = Text /\ w[Len(truth) + 3] = Prompt
  <2>1. /\ w \in Seq(0 .. 12) /\ Len(w) = Len(a) + Len(<<Text, Prompt>>)
        /\ \A n \in 1 .. Len(a) + Len(<<Text, Prompt>>) :
             w[n] = IF n <= Len(a) THEN a[n] ELSE <<Text, Prompt>>[n - Len(a)]
      BY <1>2, <1>3, ConcatProperties
  <2>2. Len(<<Text, Prompt>>) = 2 /\ <<Text, Prompt>>[1] = Text /\ <<Text, Prompt>>[2] = Prompt
      OBVIOUS
  <2>3. \A n \in 1 .. Len(truth) + 1 : w[n] = a[n]
      BY <1>1, <1>3, <2>1, <2>2
  <2>4. w[Len(truth) + 2] = Text /\ w[Len(truth) + 3] = Prompt
    <3>1. /\ Len(truth) + 2 \in 1 .. Len(truth) + 1 + 2
          /\ Len(truth) + 3 \in 1 .. Len(truth) + 1 + 2
          /\ ~(Len(truth) + 2 <= Len(truth) + 1) /\ ~(Len(truth) + 3 <= Len(truth) + 1)
          /\ (Len(truth) + 2) - (Len(truth) + 1) = 1 /\ (Len(truth) + 3) - (Len(truth) + 1) = 2
        BY <1>1
    <3> QED
        BY <1>3, <2>1, <2>2, <3>1, ZenonT(30)
  <2>5. 1 \in 1 .. Len(truth) + 1 /\ \A j \in 1 .. Len(truth) : j + 1 \in 1 .. Len(truth) + 1
      BY <1>1
  <2>6. Len(w) = Len(truth) + 3
      BY <1>1, <1>3, <2>1, <2>2
  <2> QED
      BY <1>3, <2>1, <2>3, <2>4, <2>5, <2>6
<1> HIDE DEF w
<1> DEFINE z == s \o w
<1>5. /\ z \in Seq(0 .. 12) /\ Len(z) = Len(s) + Len(truth) + 3
      /\ DOMAIN z = 1 .. Len(s) + Len(truth) + 3
      /\ \A n \in 1 .. Len(s) : z[n] = s[n]
      /\ \A n \in 1 .. Len(truth) + 3 : z[Len(s) + n] = w[n]
  <2>1. /\ z \in Seq(0 .. 12) /\ Len(z) = Len(s) + Len(w)
        /\ \A n \in 1 .. Len(s) + Len(w) :
             z[n] = IF n <= Len(s) THEN s[n] ELSE w[n - Len(s)]
      BY <1>4, ConcatProperties
  <2>2. DOMAIN z = 1 .. Len(z) /\ Len(z) = Len(s) + Len(truth) + 3
      BY <1>1, <1>4, <2>1, LenProperties
  <2>3. ASSUME NEW n \in 1 .. Len(truth) + 3 PROVE z[Len(s) + n] = w[n]
    <3>1. /\ Len(s) + n \in 1 .. Len(s) + (Len(truth) + 3)
          /\ ~(Len(s) + n <= Len(s)) /\ (Len(s) + n) - Len(s) = n
        BY <1>1
    <3> QED
        BY <1>4, <2>1, <3>1
  <2>4. \A n \in 1 .. Len(s) : z[n] = s[n]
      BY <1>1, <1>4, <2>1
  <2> QED
      BY <2>1, <2>2, <2>3, <2>4
<1> HIDE DEF z
<1> DEFINE p == Len(s) + 1
<1>6. p \in DOMAIN z /\ z[p] = Marker
    BY <1>1, <1>4, <1>5
<1>7. \A j \in 1 .. Len(truth) : z[p + j] = truth[j]
  <2> TAKE j \in 1 .. Len(truth)
  <2>1. j + 1 \in 1 .. Len(truth) + 3 /\ p + j = Len(s) + (j + 1)
      BY <1>1
  <2> QED
      BY <1>4, <1>5, <2>1
<1>8. z[p + Len(truth) + 1] = Text /\ z[p + Len(truth) + 2] = Prompt
  <2>1. /\ Len(truth) + 2 \in 1 .. Len(truth) + 3 /\ p + Len(truth) + 1 = Len(s) + (Len(truth) + 2)
        /\ Len(truth) + 3 \in 1 .. Len(truth) + 3 /\ p + Len(truth) + 2 = Len(s) + (Len(truth) + 3)
      BY <1>1
  <2> QED
      BY <1>4, <1>5, <2>1
<1>9. ASSUME NEW n \in DOMAIN z, n # p PROVE z[n] # Marker
  <2>1. CASE n <= Len(s)
      BY <1>1, <1>5, <2>1 DEF Unmarked
  <2>2. CASE n = p + Len(truth) + 1 \/ n = p + Len(truth) + 2
      BY <1>8, <2>2 DEF Marker, Text, Prompt
  <2>3. CASE n > p /\ n <= p + Len(truth)
    <3>1. n - p \in 1 .. Len(truth) /\ p + (n - p) = n
        BY <1>1, <1>5, <2>3
    <3>2. z[p + (n - p)] = truth[n - p] /\ truth[n - p] \in 0 .. 9
        BY <1>1, <1>7, <3>1
    <3> QED
        BY <3>1, <3>2 DEF Marker
  <2>0. n \in 1 .. Len(s) + Len(truth) + 3 /\ Len(s) \in Nat /\ Len(truth) \in Nat
      BY <1>1, <1>5
  <2>4. \/ n <= Len(s) \/ n = p + Len(truth) + 1 \/ n = p + Len(truth) + 2
        \/ n > p /\ n <= p + Len(truth)
      BY <1>9, <2>0, SMTT(30)
  <2> HIDE DEF p
  <2> QED
      BY <2>1, <2>2, <2>3, <2>4
<1>10. p + Len(truth) < Len(z)
    BY <1>1, <1>5
<1>11. Answered(z)
    BY <1>6, <1>7, <1>8, <1>9, <1>10 DEF Answered
<1> QED
    BY <1>4, <1>11 DEF a, w, z

\* Max and Min of a set with a known one.
LEMMA MaxIs == ASSUME NEW x \in Int PROVE Max({x}) = x
  BY DEF Max

LEMMA MinIs ==
    ASSUME NEW S, S \subseteq Int, NEW x \in S, \A y \in S : x <= y PROVE Min(S) = x
<1>1. \A y \in S : (\A v \in S : y <= v) => y = x
    OBVIOUS
<1>2. Min(S) \in S /\ \A v \in S : Min(S) <= v
    BY DEF Min
<1> QED
    BY <1>1, <1>2

\* The digits after the marker, wherever a read ended, are the first ones of the
\* code.
LEMMA DigitsOfAnswer ==
    ASSUME NEW b \in Seq(0 .. 12), NEW c \in Seq(0 .. 12), truth \in Seq(0 .. 9),
           truth # <<>>, Answered(b \o c), Has(b, Marker), Digits(b) # <<>>
    PROVE  \E k \in 1 .. Len(truth) : Digits(b) = SubSeq(truth, 1, k)
<1> DEFINE L == Len(truth)
<1>1. /\ DOMAIN b = 1 .. Len(b) /\ Len(b) \in Nat /\ Len(c) \in Nat /\ L \in Nat \ {0}
      /\ \A n \in 1 .. Len(b) : b[n] \in 0 .. 12
      /\ \A n \in 1 .. L : truth[n] \in 0 .. 9
    BY LenProperties, ElementOfSeq, EmptySeq
<1>2. /\ DOMAIN (b \o c) = 1 .. Len(b) + Len(c)
      /\ \A n \in 1 .. Len(b) : (b \o c)[n] = b[n]
  <2>1. /\ b \o c \in Seq(0 .. 12) /\ Len(b \o c) = Len(b) + Len(c)
        /\ \A n \in 1 .. Len(b) + Len(c) :
             (b \o c)[n] = IF n <= Len(b) THEN b[n] ELSE c[n - Len(b)]
      BY ConcatProperties
  <2> QED
      BY <1>1, <2>1, LenProperties
<1>3. PICK p \in DOMAIN (b \o c) :
        /\ \A n \in DOMAIN (b \o c) : (b \o c)[n] = Marker <=> n = p
        /\ p + L < Len(b \o c)
        /\ \A j \in 1 .. L : (b \o c)[p + j] = truth[j]
        /\ (b \o c)[p + L + 1] = Text
    BY DEF Answered
<1>4. {n \in DOMAIN b : b[n] = Marker} = {p} /\ p \in 1 .. Len(b)
  <2>1. \A n \in DOMAIN b : n \in DOMAIN (b \o c) /\ (b[n] = Marker <=> n = p)
      BY <1>1, <1>2, <1>3
  <2> QED
      BY <1>1, <2>1 DEF Has
<1> DEFINE t == SubSeq(b, p + 1, Len(b))
<1>5. AfterMarker(b) = t
  <2>1. Max({n \in DOMAIN b : b[n] = Marker}) = p
      BY <1>1, <1>4, MaxIs
  <2> QED
      BY <2>1, Zenon DEF AfterMarker
<1>6. /\ t \in Seq(0 .. 12) /\ Len(t) = Len(b) - p /\ DOMAIN t = 1 .. Len(b) - p
      /\ \A j \in 1 .. Len(b) - p : t[j] = (b \o c)[p + j]
  <2>1. /\ t \in Seq(0 .. 12) /\ Len(t) = Len(b) - p
        /\ \A n \in 1 .. Len(b) - p : t[n] = b[p + n]
    <3>1. p \in 0 .. Len(b)
        BY <1>1, <1>4
    <3> QED
        BY <3>1, CutStream
  <2>2. \A n \in 1 .. Len(b) - p : p + n \in 1 .. Len(b)
      BY <1>1, <1>4
  <2> QED
      BY <1>2, <2>1, <2>2, LenProperties
<1> HIDE DEF t
<1> DEFINE nums == {n \in DOMAIN t : t[n] < 10}
<1> DEFINE past == {n \in DOMAIN t : n \notin nums /\ n > Min(nums)}
<1> DEFINE low  == Min(nums)
<1> DEFINE high == Min(past \union {Len(t) + 1})
<1>7. Digits(b) = SubSeq(t, low, high - 1) /\ nums # {}
    BY <1>5 DEF Digits
<1>8. Len(t) \in Nat \ {0}
    BY <1>1, <1>4, <1>6, <1>7
<1>9. \A j \in 1 .. L : j <= Len(t) => j \in nums
  <2> TAKE j \in 1 .. L
  <2> HAVE j <= Len(t)
  <2>1. j \in 1 .. Len(b) - p /\ j \in DOMAIN t
      BY <1>1, <1>4, <1>6
  <2>2. t[j] = truth[j] /\ truth[j] \in 0 .. 9
      BY <1>1, <1>3, <1>6, <2>1
  <2> QED
      BY <2>1, <2>2
<1>10. low = 1
  <2>1. 1 \in nums /\ nums \subseteq Int /\ \A n \in nums : 1 <= n
      BY <1>1, <1>6, <1>8, <1>9
  <2> HIDE DEF nums
  <2> QED
      BY <2>1, MinIs
<1> DEFINE k == IF Len(t) <= L THEN Len(t) ELSE L
<1>11. k \in 1 .. L /\ k \in 1 .. Len(t)
    BY <1>1, <1>8
<1>12. high = k + 1
  <2>1. past \union {Len(t) + 1} \subseteq Int
      BY <1>6, <1>8
  <2>2. \A n \in past : n > L /\ n \in DOMAIN t
      BY <1>1, <1>6, <1>9, <1>10
  <2>3. ASSUME NEW n \in past \union {Len(t) + 1} PROVE k + 1 <= n
    <3>1. n = Len(t) + 1 \/ (n > L /\ n \in Int)
        BY <1>6, <2>2
    <3> QED
        BY <1>1, <1>8, <3>1
  <2>4. k + 1 \in past \union {Len(t) + 1}
    <3>1. CASE Len(t) <= L
        BY <3>1
    <3>2. CASE ~(Len(t) <= L)
      <4>1. L + 1 \in DOMAIN t /\ L + 1 > 1 /\ p + (L + 1) = p + L + 1
          BY <1>1, <1>4, <1>6, <1>8, <3>2
      <4>2. t[L + 1] = Text
          BY <1>3, <1>6, <4>1
      <4>3. L + 1 \notin nums
          BY <4>2 DEF Text
      <4> QED
          BY <1>10, <3>2, <4>1, <4>3
    <3> QED
        BY <3>1, <3>2
  <2> HIDE DEF past, nums
  <2> QED
      BY <2>1, <2>3, <2>4, MinIs
<1>13. Digits(b) = SubSeq(t, 1, k)
  <2>1. k \in Int
      BY <1>1, <1>11
  <2> HIDE DEF low, high, k
  <2>2. high - 1 = k
      BY <1>12, <2>1
  <2>3. Digits(b) = SubSeq(t, low, high - 1)
      BY <1>7
  <2> QED
      BY <1>10, <2>2, <2>3, Zenon
<1>14. SubSeq(t, 1, k) = SubSeq(truth, 1, k)
  <2> HIDE DEF k
  <2>1. /\ \A n \in 1 .. k : t[n] \in 0 .. 12
        /\ \A n \in 1 .. k : truth[n] \in 0 .. 12
        /\ k \in Int /\ 1 \in Int /\ 1 <= k
      BY <1>1, <1>6, <1>8, <1>11, ElementOfSeq, SMTT(30)
  <2>2. /\ SubSeq(t, 1, k) \in Seq(0 .. 12) /\ Len(SubSeq(t, 1, k)) = k - 1 + 1
        /\ \A n \in 1 .. k - 1 + 1 : SubSeq(t, 1, k)[n] = t[1 + n - 1]
      BY <2>1, SubSeqProperties
  <2>3. /\ SubSeq(truth, 1, k) \in Seq(0 .. 12) /\ Len(SubSeq(truth, 1, k)) = k - 1 + 1
        /\ \A n \in 1 .. k - 1 + 1 : SubSeq(truth, 1, k)[n] = truth[1 + n - 1]
      BY <2>1, SubSeqProperties
  <2>4. ASSUME NEW n \in 1 .. k - 1 + 1 PROVE t[1 + n - 1] = truth[1 + n - 1]
    <3>1. 1 + n - 1 = n /\ n \in 1 .. L /\ n \in 1 .. Len(b) - p
        BY <1>1, <1>6, <1>11, <2>1
    <3> QED
        BY <1>3, <1>6, <3>1
  <2> QED
      BY <2>2, <2>3, <2>4, SeqEqual
<1> HIDE DEF k
<1> QED
    BY <1>11, <1>13, <1>14

-----------------------------------------------------------------------------
(* Induction.  A property of all numbers up to n holds if no number is the *)
(* least that does not have it.                                            *)

\* A set of natural numbers has a least one.
LEMMA Least ==
    ASSUME NEW T \in SUBSET Nat, T # {}
    PROVE  \E x \in T : \A y \in T : x <= y
<1> DEFINE R == OpToRel(<, Nat)
<1>1. IsWellFoundedOn(R, Nat)
    BY ONLY NatLessThanWellFounded, Zenon
<1>2. \A p, q \in Nat : p < q => <<p, q>> \in R
    BY Z3 DEF OpToRel
<1>3. T \subseteq Nat /\ T # {}
    OBVIOUS
<1> HIDE DEF R
<1>4. PICK x \in T : \A y \in T : ~(<<y, x>> \in R)
    BY ONLY <1>1, <1>3, WFMin, Zenon
<1>5. ASSUME NEW y \in T PROVE x <= y
  <2>1. x \in Nat /\ y \in Nat
      BY <1>3
  <2>2. ~(y < x)
      BY ONLY <1>2, <1>4, <1>5, <2>1, Zenon
  <2> QED
      BY <2>1, <2>2
<1> QED
    BY <1>5

\* Min is it.
LEMMA MinIsLeast ==
    ASSUME NEW T \in SUBSET Nat, T # {}
    PROVE  Min(T) \in T /\ \A y \in T : Min(T) <= y
  BY Least DEF Min

\* The value of the digits read so far: for every prefix there is one, and it is
\* a number.  Otherwise there would be a shortest prefix without.
LEMMA PrefixValues ==
    ASSUME NEW d, NEW n \in Nat, \A k \in 1 .. n : d[k] \in Nat
    PROVE  \E f \in [0 .. n -> Nat] :
             f = [k \in 0 .. n |-> IF k = 0 THEN 0 ELSE 10 * f[k - 1] + d[k]]
<1> DEFINE Good(m) == \E f \in [0 .. m -> Nat] :
                        f[0] = 0 /\ \A k \in 1 .. m : f[k] = 10 * f[k - 1] + d[k]
<1> DEFINE T == {m \in 0 .. n : ~Good(m)}
<1>1. SUFFICES T = {}
  <2>1. Good(n)
    <3>1. n \in 0 .. n
        OBVIOUS
    <3> QED
        BY <1>1, <3>1
  <2>2. PICK f \in [0 .. n -> Nat] :
          f[0] = 0 /\ \A k \in 1 .. n : f[k] = 10 * f[k - 1] + d[k]
      BY <2>1
  <2>3. \A k \in 0 .. n : f[k] = IF k = 0 THEN 0 ELSE 10 * f[k - 1] + d[k]
      BY <2>2
  <2> QED
      BY <2>2, <2>3
<1>2. SUFFICES ASSUME T # {} PROVE FALSE
    OBVIOUS
<1>3. T \in SUBSET Nat
    OBVIOUS
<1>4. PICK m \in T : \A y \in T : m <= y
  <2> HIDE DEF T
  <2> QED
      BY <1>2, <1>3, Least
<1>5. m # 0
  <2>1. [k \in 0 .. 0 |-> 0] \in [0 .. 0 -> Nat] /\ [k \in 0 .. 0 |-> 0][0] = 0
      OBVIOUS
  <2>2. \A k \in 1 .. 0 : FALSE
      OBVIOUS
  <2>3. Good(0)
      BY <2>1, <2>2
  <2> QED
      BY <1>4, <2>3
<1>6. m \in 1 .. n /\ m - 1 \in 0 .. n /\ ~(m <= m - 1)
    BY <1>4, <1>5
<1>7. Good(m - 1)
  <2>1. m - 1 \notin T
    <3> HIDE DEF T
    <3> QED
        BY <1>4, <1>6
  <2> HIDE DEF Good
  <2> QED
      BY <1>6, <2>1
<1>8. PICK f \in [0 .. m - 1 -> Nat] :
        f[0] = 0 /\ \A k \in 1 .. m - 1 : f[k] = 10 * f[k - 1] + d[k]
    BY <1>7
<1> DEFINE g == [k \in 0 .. m |-> IF k = m THEN 10 * f[m - 1] + d[m] ELSE f[k]]
<1>9. g \in [0 .. m -> Nat] /\ g[0] = 0
    BY <1>6, <1>8
<1>10. \A k \in 1 .. m : g[k] = 10 * g[k - 1] + d[k]
    BY <1>6, <1>8
<1> HIDE DEF g
<1>11. Good(m)
    BY <1>9, <1>10
<1> QED
    BY <1>4, <1>11

\* What a parent process sees is a byte.
LEMMA StatusIsByte ==
    ASSUME NEW d \in Seq(0 .. 9)
    PROVE  Status(d) \in 0 .. 255
<1> DEFINE n == Len(d)
<1>1. n \in Nat /\ \A k \in 1 .. n : d[k] \in Nat
    BY LenProperties, ElementOfSeq
<1> DEFINE v == CHOOSE g : g = [k \in 0 .. n |-> IF k = 0 THEN 0 ELSE 10 * g[k - 1] + d[k]]
<1>2. Status(d) = v[n] % 256
    BY Zenon DEF Status
<1> HIDE DEF n
<1>3. PICK f \in [0 .. n -> Nat] :
        f = [k \in 0 .. n |-> IF k = 0 THEN 0 ELSE 10 * f[k - 1] + d[k]]
    BY <1>1, PrefixValues
<1>4. v = [k \in 0 .. n |-> IF k = 0 THEN 0 ELSE 10 * v[k - 1] + d[k]]
    BY <1>3, Zenon
<1> HIDE DEF v
<1> DEFINE T == {m \in 0 .. n : v[m] \notin Nat}
<1>5. ASSUME T # {} PROVE FALSE
  <2>1. PICK m \in T : \A y \in T : m <= y
    <3>1. T \in SUBSET Nat
        BY <1>1
    <3> HIDE DEF T
    <3> QED
        BY <1>5, <3>1, Least
  <2>2. m # 0
      BY <1>1, <1>4, <2>1
  <2>3. m \in 1 .. n /\ m - 1 \in 0 .. n /\ v[m - 1] \in Nat
      BY <1>1, <2>1, <2>2
  <2>4. v[m] = 10 * v[m - 1] + d[m] /\ d[m] \in Nat
      BY <1>1, <1>4, <2>3
  <2> QED
      BY <2>1, <2>3, <2>4
<1>6. v[n] \in Nat
    BY <1>1, <1>5
<1>7. \A x \in Nat : x % 256 \in 0 .. 255
    OBVIOUS
<1> QED
    BY <1>2, <1>6, <1>7, Zenon

\* Whatever has been read, the digits taken from it are digits.
LEMMA DigitsAreDigits ==
    ASSUME NEW b \in Seq(0 .. 12), Has(b, Marker)
    PROVE  Digits(b) \in Seq(0 .. 9)
<1> DEFINE marks == {n \in DOMAIN b : b[n] = Marker}
<1> DEFINE t == AfterMarker(b)
<1>1. DOMAIN b = 1 .. Len(b) /\ Len(b) \in Nat /\ \A n \in 1 .. Len(b) : b[n] \in 0 .. 12
    BY LenProperties, ElementOfSeq
<1>2. \E p \in marks : \A n \in marks : n <= p
  <2> DEFINE D == {Len(b) - n : n \in marks}
  <2>1. D \in SUBSET Nat /\ D # {}
      BY <1>1 DEF Has
  <2>2. PICK x \in D : \A y \in D : x <= y
    <3> HIDE DEF D
    <3> QED
        BY <2>1, Least
  <2>3. PICK p \in marks : x = Len(b) - p
      BY <2>2
  <2>4. \A n \in marks : Len(b) - p <= Len(b) - n
      BY <2>2, <2>3
  <2>5. \A n \in marks : n <= p
      BY <1>1, <2>4
  <2> QED
      BY <2>5
<1>3. Max(marks) \in marks
    BY <1>2 DEF Max
<1>4. t \in Seq(0 .. 12)
  <2>1. Max(marks) \in 0 .. Len(b)
      BY <1>1, <1>3
  <2>2. SubSeq(b, Max(marks) + 1, Len(b)) \in Seq(0 .. 12)
      BY <2>1, CutStream
  <2> QED
      BY <2>2, Zenon DEF AfterMarker
<1> HIDE DEF t
<1>5. DOMAIN t = 1 .. Len(t) /\ Len(t) \in Nat /\ \A n \in 1 .. Len(t) : t[n] \in 0 .. 12
    BY <1>4, LenProperties, ElementOfSeq
<1> DEFINE nums == {n \in DOMAIN t : t[n] < 10}
<1> DEFINE past == {n \in DOMAIN t : n \notin nums /\ n > Min(nums)}
<1> DEFINE low  == Min(nums)
<1> DEFINE high == Min(past \union {Len(t) + 1})
<1>6. Digits(b) = IF nums = {} THEN <<>> ELSE SubSeq(t, low, high - 1)
    BY Zenon DEF Digits, t
<1>7. CASE nums = {}
    BY <1>6, <1>7
<1>8. CASE nums # {}
  <2>1. low \in nums /\ \A n \in nums : low <= n
    <3>1. nums \in SUBSET Nat
        BY <1>5
    <3> HIDE DEF nums
    <3> QED
        BY <1>8, <3>1, MinIsLeast
  <2>2. /\ high \in past \union {Len(t) + 1}
        /\ \A n \in past \union {Len(t) + 1} : high <= n
    <3>1. past \union {Len(t) + 1} \in SUBSET Nat /\ past \union {Len(t) + 1} # {}
        BY <1>5
    <3> HIDE DEF past
    <3> QED
        BY <3>1, MinIsLeast
  <2> HIDE DEF low, high
  <2>3. low \in 1 .. Len(t) /\ high \in 1 .. Len(t) + 1
      BY <1>5, <2>1, <2>2
  <2>4. ASSUME NEW n \in low .. high - 1 PROVE t[n] \in 0 .. 9
    <3>1. n \in 1 .. Len(t) /\ n \notin past
        BY <1>5, <2>2, <2>3, SMTT(30)
    <3>2. n \in nums
        BY <1>5, <2>1, <2>3, <3>1 DEF low
    <3> QED
        BY <1>5, <3>1, <3>2
  <2>5. low \in Int /\ high - 1 \in Int
      BY <2>3
  <2>6. SubSeq(t, low, high - 1) \in Seq(0 .. 9)
      BY <2>4, <2>5, SubSeqProperties
  <2> QED
      BY <1>6, <1>8, <2>6 DEF low, high
<1> QED
    BY <1>7, <1>8

-----------------------------------------------------------------------------
(* Types.                                                                  *)

\* One read takes the beginning of what is there.
LEMMA PumpReads ==
    ASSUME KTypes, NEW k \in 0 .. Len(con), NEW connected \in BOOLEAN, Pump(k, connected)
    PROVE  /\ con' = SubSeq(con, k + 1, Len(con)) /\ con' \in Seq(0 .. 12)
           /\ buf \o SubSeq(con, 1, k) \in Seq(0 .. 12)
           /\ (buf \o SubSeq(con, 1, k)) \o con' = buf \o con
           /\ Unmarked(con) => Unmarked(con')
<1>1. con' = SubSeq(con, k + 1, Len(con))
  <2>1. CASE k \in 1 .. Len(con) /\ con' = SubSeq(con, k + 1, Len(con))
      BY <2>1
  <2>2. CASE k = 0 /\ con = <<>> /\ con' = con
    <3>1. SubSeq(con, 1, 0) = <<>>
        BY SubSeqEmpty, 0 < 1, 0 \in Int, 1 \in Int
    <3>2. Len(con) = 0 /\ k + 1 = 1
        BY <2>2
    <3> QED
        BY <2>2, <3>1, <3>2
  <2> QED
      BY <2>1, <2>2 DEF Pump
<1> QED
    BY <1>1, ReadKeepsStream DEF KTypes

\* Where a typed line goes.
LEMMA TypeAppends ==
    ASSUME KTypes, NEW line \in Lines, NEW n \in Nat, Type(line, n)
    PROVE  /\ typed' \in Seq(TypedLine)
           /\ guest = "boot" => typed' = <<>>
           /\ line # "nudge" /\ guest # "boot" =>
                typed' = Append(typed, [line |-> line, part |-> n])
           /\ typed' = typed \/ typed' = Append(typed, [line |-> line, part |-> n])
           /\ con' \in Seq(0 .. 12) /\ shown' \in BOOLEAN
           /\ line # "final" => con' = con /\ shown' = shown
           /\ ~shown' => ~shown /\ con' = con
           /\ line = "final" /\ guest # "boot" /\ ~shown' => ~echo
<1> USE DEF KTypes
<1>1. [line |-> line, part |-> n] \in TypedLine
    BY DEF TypedLine
<1>2. con \o <<Marker, Text>> \in Seq(0 .. 12)
  <2>1. <<Marker, Text>> \in Seq(0 .. 12)
      BY DEF Marker, Text
  <2> QED
      BY <2>1, ConcatProperties
<1>3. PICK e \in BOOLEAN :
        /\ guest # "boot" => e = echo
        /\ shown' = (shown \/ (e /\ line = "final"))
        /\ con' = IF e /\ line = "final" THEN con \o <<Marker, Text>> ELSE con
    BY DEF Type
<1>4. typed' = typed \/ typed' = Append(typed, [line |-> line, part |-> n])
    BY DEF Type
<1>5. Append(typed, [line |-> line, part |-> n]) \in Seq(TypedLine)
    BY <1>1
<1> QED
    BY <1>2, <1>3, <1>4, <1>5 DEF Type

\* Taking a line.
LEMMA TakeTakes ==
    ASSUME KTypes, Take
    PROVE  /\ typed' = Tail(typed) /\ typed' \in Seq(TypedLine) /\ typed # <<>>
           /\ Head(typed) = typed[1] /\ typed[1] \in TypedLine /\ Len(typed) \in Nat \ {0}
           /\ Len(typed') = Len(typed) - 1
           /\ \A n \in 1 .. Len(typed) - 1 : typed'[n] = typed[n + 1]
           /\ DOMAIN typed = 1 .. Len(typed) /\ DOMAIN typed' = 1 .. Len(typed) - 1
<1> USE DEF KTypes
<1>1. typed' = Tail(typed) /\ typed # <<>>
    BY DEF Take
<1>2. Len(typed) \in Nat \ {0} /\ Head(typed) = typed[1] /\ DOMAIN typed = 1 .. Len(typed)
    BY <1>1, EmptySeq, LenProperties
<1> QED
    BY <1>1, <1>2, HeadTailProperties, ElementOfSeq, LenProperties

\* Every step keeps the types.
LEMMA TypesNext == KTypes /\ [Next]_vars => KTypes'
<1> SUFFICES ASSUME KTypes, [Next]_vars PROVE KTypes'
    OBVIOUS
<1> USE DEF KTypes, Aside, Quiet, NoExit, Skip, Return, Host, inside
<1>1. CASE Connect \/ NoPrompt \/ SendRaises \/ Parse
    BY <1>1 DEF Connect, NoPrompt, SendRaises, Parse
<1>2. CASE Look
  <2>1. con' \in Seq(0 .. 12)
      BY <1>2, PumpReads DEF Look
  <2> QED
      BY <1>2, <2>1 DEF Look
<1>3. CASE Drain
  <2>1. con' \in Seq(0 .. 12)
      BY <1>3, PumpReads DEF Drain
  <2> QED
      BY <1>3, <2>1 DEF Drain
<1>4. CASE Wait
  <2>1. CASE late /\ Skip /\ UNCHANGED <<buf, con>>
      BY <1>4, <2>1 DEF Wait
  <2>2. CASE ~(late /\ Skip /\ UNCHANGED <<buf, con>>)
    <3>1. con' \in Seq(0 .. 12) /\ buf' \in Seq(0 .. 12)
        BY <1>4, <2>2, PumpReads DEF Wait, Read
    <3> QED
        BY <1>4, <2>2, <3>1 DEF Wait
  <2> QED
      BY <2>1, <2>2
<1>5. CASE Reparse
  <2>1. con' \in Seq(0 .. 12) /\ buf' \in Seq(0 .. 12)
      BY <1>5, PumpReads DEF Reparse, Read
  <2> QED
      BY <1>5, <2>1 DEF Reparse
<1>6. CASE Nudge
  <2>1. CASE Type("nudge", 0)
    <3>1. /\ typed' \in Seq(TypedLine) /\ con' \in Seq(0 .. 12) /\ shown' \in BOOLEAN
          /\ guest = "boot" => typed' = <<>>
        BY <2>1, TypeAppends, 0 \in Nat, "nudge" \in Lines DEF Lines
    <3> QED
        BY <1>6, <2>1, <3>1 DEF Nudge
  <2> QED
      BY <1>6, <2>1 DEF Nudge
<1>7. CASE Reset
  <2>1. /\ typed' \in Seq(TypedLine) /\ con' \in Seq(0 .. 12) /\ shown' \in BOOLEAN
        /\ guest = "boot" => typed' = <<>>
      BY <1>7, TypeAppends, 0 \in Nat, "reset" \in Lines DEF Reset, Lines
  <2> QED
      BY <1>7, <2>1, ChunksAssumption DEF Reset
<1>8. CASE Feed
  <2>1. CASE sent < Chunks /\ Type("chunk", sent + 1)
    <3>1. sent + 1 \in Nat /\ sent + 1 \in 0 .. Chunks /\ "chunk" \in Lines
        BY <2>1, ChunksAssumption DEF Lines
    <3>2. /\ typed' \in Seq(TypedLine) /\ con' \in Seq(0 .. 12) /\ shown' \in BOOLEAN
          /\ guest = "boot" => typed' = <<>>
        BY <2>1, <3>1, TypeAppends
    <3> QED
        BY <1>8, <2>1, <3>1, <3>2, ChunksAssumption DEF Feed
  <2>2. CASE sent = Chunks
      BY <1>8, <2>2, ChunksAssumption DEF Feed
  <2> QED
      BY <1>8, <2>1, <2>2 DEF Feed
<1>9. CASE Final
  <2>1. "final" \in Lines /\ <<>> \in Seq(0 .. 12)
      BY DEF Lines
  <2>2. /\ typed' \in Seq(TypedLine) /\ con' \in Seq(0 .. 12) /\ shown' \in BOOLEAN
        /\ guest = "boot" => typed' = <<>>
      BY <1>9, <2>1, TypeAppends, 0 \in Nat DEF Final
  <2> QED
      BY <1>9, <2>1, <2>2 DEF Final
<1>10. CASE Qemu \/ Tick
    BY <1>10 DEF Qemu, Tick, driver
<1>11. CASE Chat \/ LogIn
  <2>1. <<Prompt>> \in Seq(0 .. 12) /\ \A n \in Numbers : <<n, Text>> \in Seq(0 .. 12)
      BY ConsoleAssumption DEF Prompt, Text
  <2>2. PICK t \in Seq(0 .. 12) : con' = con \o t \/ con' = con
      BY <1>11, <2>1 DEF Chat, LogIn, Show
  <2>3. con' \in Seq(0 .. 12)
      BY <2>2, ConcatProperties, ZenonT(30)
  <2> QED
      BY <1>11, <2>3 DEF Chat, LogIn, driver
<1>12. CASE Take
  <2>1. typed' \in Seq(TypedLine) /\ typed # <<>>
      BY <1>12, TakeTakes
  <2>2. <<Prompt>> \in Seq(0 .. 12) /\ <<Marker, 1, Text, Prompt>> \in Seq(0 .. 12)
      BY DEF Prompt, Marker, Text
  <2>3. con' \in Seq(0 .. 12)
    <3>1. PICK t \in Seq(0 .. 12) : con' = con \o t \/ con' = con
        BY <1>12, <2>2 DEF Take, Show
    <3> QED
        BY <3>1, ConcatProperties, ZenonT(30)
  <2>4. truth' \in Seq(0 .. 9)
    <3>1. <<1>> \in Seq(0 .. 9)
        OBVIOUS
    <3> QED
        BY <1>12, <3>1, ConsoleAssumption DEF Take
  <2>5. echo' \in BOOLEAN /\ guest = "shell" /\ guest' = guest
      BY <1>12 DEF Take
  <2> QED
      BY <1>12, <2>1, <2>3, <2>4, <2>5 DEF Take, driver
<1>13. CASE ScriptEnds
  <2>1. con' \in Seq(0 .. 12)
    <3>1. truth \in Seq(0 .. 12)
        BY SeqMonotonic, 0 .. 9 \subseteq 0 .. 12
    <3>2. <<Marker>> \in Seq(0 .. 12) /\ <<Text, Prompt>> \in Seq(0 .. 12)
        BY DEF Marker, Text, Prompt
    <3> QED
        BY <1>13, <3>1, <3>2, ConcatProperties DEF ScriptEnds, Show
  <2> QED
      BY <1>13, <2>1 DEF ScriptEnds, driver
<1>14. CASE UNCHANGED vars
    BY <1>14 DEF vars
<1> QED
    BY <1>1, <1>2, <1>3, <1>4, <1>5, <1>6, <1>7, <1>8, <1>9, <1>10, <1>11, <1>12, <1>13, <1>14
       DEF Next, DriverStep

-----------------------------------------------------------------------------
(* What is typed and what is in the file.                                  *)

\* What the guest prints of its own accord has no marker.
LEMMA ChatterUnmarked ==
    ASSUME KTypes, Chat \/ LogIn
    PROVE  \E t \in Seq(0 .. 12) : Unmarked(t) /\ con' = con \o t
<1>1. /\ <<Prompt>> \in Seq(0 .. 12) /\ Unmarked(<<Prompt>>)
      /\ \A n \in Numbers : <<n, Text>> \in Seq(0 .. 12) /\ Unmarked(<<n, Text>>)
    BY ConsoleAssumption DEF Prompt, Text, Marker, Unmarked
<1>2. <<>> \in Seq(0 .. 12) /\ Unmarked(<<>>) /\ con \o <<>> = con
    BY ConcatEmptySeq DEF Unmarked, KTypes
<1> QED
    BY <1>1, <1>2 DEF Chat, LogIn, Show

\* Neither has the prompt after a line that runs nothing.
LEMMA TakeUnmarked ==
    ASSUME KTypes, Take, typed[1].line # "final"
    PROVE  /\ <<Prompt>> \in Seq(0 .. 12) /\ Unmarked(<<Prompt>>) /\ con' = con \o <<Prompt>>
           /\ script' = script
<1>1. Head(typed) = typed[1]
    BY TakeTakes
<1> QED
    BY <1>1 DEF Take, Show, Prompt, Marker, Unmarked

\* Before the echo is off.
LEMMA BeforeNext == KTypes /\ BeforeInv /\ [Next]_vars => BeforeInv'
<1> SUFFICES ASSUME KTypes, BeforeInv, [Next]_vars,
                    pc' \in {"connect", "look", "relook", "nudge", "reset"}
             PROVE  /\ echo' /\ script' = "no"
                    /\ Unmarked(con') /\ buf' = <<>>
                    /\ \A n \in DOMAIN typed' : typed'[n].line = "nudge"
    BY DEF BeforeInv, Unmarked
<1> USE DEF Aside, Quiet, Skip, Return, Host, inside, driver
<1>1. CASE Connect \/ NoPrompt \/ SendRaises \/ Parse
    BY <1>1 DEF Connect, NoPrompt, SendRaises, Parse, BeforeInv
<1>2. CASE Look
  <2>1. Unmarked(con) /\ Unmarked(con')
      BY <1>2, PumpReads DEF Look, BeforeInv
  <2> QED
      BY <1>2, <2>1 DEF Look, BeforeInv
<1>3. CASE Nudge
  <2>1. CASE Type("nudge", 0)
    <3>1. /\ con' = con /\ typed' \in Seq(TypedLine)
          /\ typed' = typed \/ typed' = Append(typed, [line |-> "nudge", part |-> 0])
        BY <2>1, TypeAppends, 0 \in Nat, "nudge" \in Lines DEF Lines
    <3>2. typed \in Seq(TypedLine) /\ [line |-> "nudge", part |-> 0] \in TypedLine
        BY DEF KTypes, TypedLine, Lines
    <3>3. \A n \in DOMAIN typed : typed[n].line = "nudge"
        BY <1>3 DEF Nudge, BeforeInv
    <3>4. \A n \in DOMAIN typed' : typed'[n].line = "nudge"
        BY <3>1, <3>2, <3>3
    <3> QED
        BY <1>3, <2>1, <3>1, <3>4 DEF Nudge, BeforeInv
  <2> QED
      BY <1>3, <2>1 DEF Nudge, BeforeInv
<1>4. CASE Reset \/ Feed \/ Drain \/ Final \/ Wait \/ Reparse
    BY <1>4 DEF Reset, Feed, Drain, Final, Wait, Reparse
<1>5. CASE Qemu \/ Tick
    BY <1>5 DEF Qemu, Tick, BeforeInv
<1>6. CASE Chat \/ LogIn
  <2>1. Unmarked(con)
      BY <1>6 DEF Chat, LogIn, BeforeInv
  <2>2. Unmarked(con')
      BY <1>6, <2>1, ChatterUnmarked, ShowUnmarked DEF KTypes
  <2> QED
      BY <1>6, <2>2 DEF Chat, LogIn, BeforeInv
<1>7. CASE Take
  <2>1. /\ Unmarked(con) /\ echo /\ script = "no" /\ buf = <<>>
        /\ \A n \in DOMAIN typed : typed[n].line = "nudge"
      BY <1>7 DEF Take, BeforeInv
  <2>2. /\ Len(typed) \in Nat \ {0} /\ Head(typed) = typed[1]
        /\ DOMAIN typed = 1 .. Len(typed) /\ DOMAIN typed' = 1 .. Len(typed) - 1
        /\ \A n \in 1 .. Len(typed) - 1 : typed'[n] = typed[n + 1]
      BY <1>7, TakeTakes
  <2>3. typed[1].line = "nudge"
      BY <2>1, <2>2
  <2>4. \A n \in DOMAIN typed' : typed'[n].line = "nudge"
    <3>1. \A n \in 1 .. Len(typed) - 1 : n + 1 \in 1 .. Len(typed)
        BY <2>2
    <3> QED
        BY <2>1, <2>2, <3>1
  <2>5. Unmarked(con') /\ script' = "no"
      BY <1>7, <2>1, <2>3, TakeUnmarked, ShowUnmarked DEF KTypes
  <2> QED
      BY <1>7, <2>1, <2>2, <2>3, <2>4, <2>5 DEF Take, KTypes
<1>8. CASE ScriptEnds
    BY <1>8 DEF ScriptEnds, BeforeInv
<1>9. CASE UNCHANGED vars
    BY <1>9 DEF vars, BeforeInv
<1> QED
    BY <1>1, <1>2, <1>3, <1>4, <1>5, <1>6, <1>7, <1>8, <1>9 DEF Next, DriverStep

\* Two queues of pieces.
LEMMA PiecesAre ==
    ASSUME NEW k \in Nat, NEW n \in Nat, k <= n
    PROVE  /\ Pieces(k, n) \in Seq(TypedLine) /\ Len(Pieces(k, n)) = n - k
           /\ \A j \in 1 .. n - k : Pieces(k, n)[j] = [line |-> "chunk", part |-> k + j]
<1>1. n - k \in Nat
    OBVIOUS
<1>2. \A j \in 1 .. n - k : [line |-> "chunk", part |-> k + j] \in TypedLine
    BY DEF TypedLine, Lines
<1>3. Pieces(k, n) \in [1 .. n - k -> TypedLine]
    BY <1>2 DEF Pieces
<1>4. Pieces(k, n) \in Seq(TypedLine) /\ DOMAIN Pieces(k, n) = 1 .. n - k
    BY <1>1, <1>3, SeqDef
<1>5. Len(Pieces(k, n)) = n - k
    BY <1>1, <1>4, LenProperties
<1> QED
    BY <1>4, <1>5 DEF Pieces

\* One piece more.
LEMMA PieceAdded ==
    ASSUME NEW k \in Nat, NEW n \in Nat, k <= n
    PROVE  Append(Pieces(k, n), [line |-> "chunk", part |-> n + 1]) = Pieces(k, n + 1)
<1> DEFINE a == Append(Pieces(k, n), [line |-> "chunk", part |-> n + 1])
<1>1. [line |-> "chunk", part |-> n + 1] \in TypedLine
    BY DEF TypedLine, Lines
<1>2. /\ Pieces(k, n) \in Seq(TypedLine) /\ Len(Pieces(k, n)) = n - k
      /\ \A j \in 1 .. n - k : Pieces(k, n)[j] = [line |-> "chunk", part |-> k + j]
    BY PiecesAre
<1>3. /\ Pieces(k, n + 1) \in Seq(TypedLine) /\ Len(Pieces(k, n + 1)) = n + 1 - k
      /\ \A j \in 1 .. n + 1 - k : Pieces(k, n + 1)[j] = [line |-> "chunk", part |-> k + j]
  <2>1. n + 1 \in Nat /\ k <= n + 1
      OBVIOUS
  <2> QED
      BY <2>1, PiecesAre
<1>4. /\ a \in Seq(TypedLine) /\ Len(a) = n - k + 1
      /\ \A j \in 1 .. n - k : a[j] = Pieces(k, n)[j]
      /\ a[n - k + 1] = [line |-> "chunk", part |-> n + 1]
    BY <1>1, <1>2, AppendProperties
<1> HIDE DEF a
<1>5. ASSUME NEW j \in 1 .. Len(a) PROVE a[j] = Pieces(k, n + 1)[j]
  <2>1. CASE j \in 1 .. n - k
    <3>1. j \in 1 .. n + 1 - k
        BY <2>1
    <3> QED
        BY <1>2, <1>3, <1>4, <2>1, <3>1
  <2>2. CASE j = n - k + 1
    <3>1. k + j = n + 1 /\ j \in 1 .. n + 1 - k
        BY <2>2
    <3> QED
        BY <1>3, <1>4, <2>2, <3>1
  <2> QED
      BY <1>4, <2>1, <2>2
<1>6. Len(a) = Len(Pieces(k, n + 1))
    BY <1>3, <1>4
<1> QED
    BY <1>3, <1>4, <1>5, <1>6, SeqEqual DEF a

\* One piece less.
LEMMA PieceTaken ==
    ASSUME NEW k \in Nat, NEW n \in Nat, k < n
    PROVE  /\ Pieces(k, n) \in Seq(TypedLine) /\ Pieces(k, n)[1] = [line |-> "chunk", part |-> k + 1]
           /\ Tail(Pieces(k, n)) = Pieces(k + 1, n)
<1>1. /\ Pieces(k, n) \in Seq(TypedLine) /\ Len(Pieces(k, n)) = n - k
      /\ \A j \in 1 .. n - k : Pieces(k, n)[j] = [line |-> "chunk", part |-> k + j]
    BY PiecesAre
<1>2. /\ Pieces(k + 1, n) \in Seq(TypedLine) /\ Len(Pieces(k + 1, n)) = n - (k + 1)
      /\ \A j \in 1 .. n - (k + 1) :
            Pieces(k + 1, n)[j] = [line |-> "chunk", part |-> (k + 1) + j]
  <2>1. k + 1 \in Nat /\ k + 1 <= n
      OBVIOUS
  <2> QED
      BY <2>1, PiecesAre
<1>3. Pieces(k, n) # <<>>
    BY <1>1, EmptySeq
<1> DEFINE a == Tail(Pieces(k, n))
<1>4. /\ a \in Seq(TypedLine) /\ Len(a) = n - k - 1
      /\ \A j \in 1 .. n - k - 1 : a[j] = Pieces(k, n)[j + 1]
    BY <1>1, <1>3, HeadTailProperties
<1> HIDE DEF a
<1>5. ASSUME NEW j \in 1 .. Len(a) PROVE a[j] = Pieces(k + 1, n)[j]
  <2>1. /\ j \in 1 .. n - k - 1 /\ j \in 1 .. n - (k + 1) /\ j + 1 \in 1 .. n - k
        /\ k + (j + 1) = (k + 1) + j
      BY <1>4
  <2> QED
      BY <1>1, <1>2, <1>4, <2>1
<1>6. Len(a) = Len(Pieces(k + 1, n))
    BY <1>2, <1>4
<1>7. a = Pieces(k + 1, n)
    BY <1>2, <1>4, <1>5, <1>6, SeqEqual
<1>8. Pieces(k, n)[1] = [line |-> "chunk", part |-> k + 1]
    BY <1>1
<1> QED
    BY <1>1, <1>7, <1>8 DEF a

\* A piece in the file.
LEMMA FileGrows ==
    ASSUME NEW k \in Nat
    PROVE  /\ (IF Upto(k) = NoFile THEN <<>> ELSE Upto(k)) \o <<k + 1>> = Upto(k + 1)
           /\ k > 0 => Upto(k) # NoFile
<1>1. \A n \in Nat : /\ [j \in 1 .. n |-> j] \in Seq(Nat)
                     /\ Len([j \in 1 .. n |-> j]) = n
  <2> TAKE n \in Nat
  <2>1. [j \in 1 .. n |-> j] \in [1 .. n -> Nat]
      OBVIOUS
  <2>2. [j \in 1 .. n |-> j] \in Seq(Nat)
      BY <2>1, SeqDef
  <2> QED
      BY <2>1, <2>2, LenProperties
<1> DEFINE f == [j \in 1 .. k |-> j]
<1> DEFINE g == [j \in 1 .. k + 1 |-> j]
<1>2. (IF Upto(k) = NoFile THEN <<>> ELSE Upto(k)) = f
  <2>1. CASE k = 0
    <3>1. f = <<>>
        BY <1>1, <2>1, EmptySeq
    <3> QED
        BY <2>1, <3>1 DEF Upto
  <2>2. CASE k > 0
    <3>1. f[1] = 1 /\ NoFile[1] = 0
        BY <2>2 DEF NoFile
    <3> QED
        BY <2>2, <3>1 DEF Upto
  <2> QED
      BY <2>1, <2>2
<1>3. f \in Seq(Nat) /\ Len(f) = k /\ g \in Seq(Nat) /\ Len(g) = k + 1
  <2>1. k + 1 \in Nat
      OBVIOUS
  <2> QED
      BY <1>1, <2>1
<1>4. <<k + 1>> \in Seq(Nat) /\ Len(<<k + 1>>) = 1 /\ <<k + 1>>[1] = k + 1
    OBVIOUS
<1>5. /\ f \o <<k + 1>> \in Seq(Nat) /\ Len(f \o <<k + 1>>) = k + 1
      /\ \A j \in 1 .. k + 1 :
           (f \o <<k + 1>>)[j] = IF j <= k THEN f[j] ELSE <<k + 1>>[j - k]
    BY <1>3, <1>4, ConcatProperties
<1>6. ASSUME NEW j \in 1 .. k + 1 PROVE (f \o <<k + 1>>)[j] = g[j]
  <2>1. CASE j <= k
      BY <1>5, <2>1
  <2>2. CASE j = k + 1
    <3>1. j - k = 1 /\ ~(j <= k)
        BY <2>2
    <3> QED
        BY <1>4, <1>5, <2>2, <3>1
  <2> QED
      BY <2>1, <2>2
<1>7. f \o <<k + 1>> = g
  <2> HIDE DEF f, g
  <2> QED
      BY <1>3, <1>5, <1>6, SeqEqual
<1>8. Upto(k + 1) = g
    BY DEF Upto
<1>9. k > 0 => Upto(k) # NoFile
  <2> HAVE k > 0
  <2>1. f[1] = 1 /\ NoFile[1] = 0
      BY DEF NoFile
  <2> QED
      BY <2>1 DEF Upto
<1> QED
    BY <1>2, <1>7, <1>8, <1>9

\* While the payload is typed.
LEMMA FeedingNext == KTypes /\ BeforeInv /\ FeedingInv /\ [Next]_vars => FeedingInv'
<1> SUFFICES ASSUME KTypes, BeforeInv, FeedingInv, [Next]_vars,
                    pc' \in {"feed", "drain", "final"}
             PROVE  /\ script' = "no"
                    /\ Unmarked(con') /\ buf' = <<>>
                    /\ pc' = "final" => sent' = Chunks
                    /\ \A n \in DOMAIN typed' : typed'[n].line # "final"
                    /\ ~echo' => \E k \in 0 .. sent' :
                                   file' = Upto(k) /\ typed' = Pieces(k, sent')
                    /\ \A r \in DOMAIN typed' : typed'[r].line = "reset" =>
                         /\ Len(typed') - r = sent'
                         /\ \A j \in 1 .. sent' :
                              typed'[r + j] = [line |-> "chunk", part |-> j]
    BY DEF FeedingInv, Unmarked, Upto, Pieces
<1> USE DEF Aside, Quiet, Skip, Return, Host, inside, driver
<1>0. /\ typed \in Seq(TypedLine) /\ Len(typed) \in Nat /\ DOMAIN typed = 1 .. Len(typed)
      /\ sent \in Nat /\ sent <= Chunks
    BY LenProperties, ChunksAssumption DEF KTypes
<1> DEFINE Queue(q, n) == \A r \in DOMAIN q : q[r].line = "reset" =>
                             /\ Len(q) - r = n
                             /\ \A j \in 1 .. n : q[r + j] = [line |-> "chunk", part |-> j]
<1>1. CASE Connect \/ Look \/ Nudge \/ NoPrompt \/ SendRaises \/ Final \/ Wait \/ Parse \/ Reparse
    BY <1>1 DEF Connect, Look, Nudge, NoPrompt, SendRaises, Final, Wait, Parse, Reparse
<1>2. CASE Reset
  <2>1. /\ echo /\ script = "no" /\ Unmarked(con) /\ buf = <<>>
        /\ \A n \in DOMAIN typed : typed[n].line = "nudge"
      BY <1>2 DEF Reset, BeforeInv
  <2>2. [line |-> "reset", part |-> 0] \in TypedLine
      BY DEF TypedLine, Lines
  <2>3. /\ con' = con
        /\ typed' = typed \/ typed' = Append(typed, [line |-> "reset", part |-> 0])
      BY <1>2, TypeAppends, 0 \in Nat, "reset" \in Lines DEF Reset, Lines
  <2>4. CASE typed' = typed
      BY <1>2, <2>1, <2>3, <2>4 DEF Reset
  <2>5. CASE typed' = Append(typed, [line |-> "reset", part |-> 0])
    <3>1. /\ DOMAIN typed' = 1 .. Len(typed) + 1 /\ Len(typed') = Len(typed) + 1
          /\ \A n \in 1 .. Len(typed) : typed'[n] = typed[n]
          /\ typed'[Len(typed) + 1].line = "reset"
        BY <1>0, <2>2, <2>5, AppendProperties, LenProperties
    <3>2. \A n \in DOMAIN typed' : /\ typed'[n].line # "final"
                                   /\ typed'[n].line = "reset" => n = Len(typed) + 1
        BY <1>0, <2>1, <3>1
    <3>3. Queue(typed', 0)
        BY <1>0, <3>1, <3>2
    <3> QED
        BY <1>2, <2>1, <2>3, <3>2, <3>3 DEF Reset
  <2> QED
      BY <2>3, <2>4, <2>5
<1>3. CASE Feed
  <2>0. /\ script = "no" /\ Unmarked(con) /\ buf = <<>>
        /\ \A n \in DOMAIN typed : typed[n].line # "final"
        /\ ~echo => \E k \in 0 .. sent : file = Upto(k) /\ typed = Pieces(k, sent)
        /\ Queue(typed, sent)
      BY <1>3 DEF Feed, FeedingInv
  <2>1. CASE sent < Chunks /\ Type("chunk", sent + 1) /\ sent' = sent + 1 /\ pc' = "drain"
    <3>1. /\ con' = con
          /\ guest = "boot" => typed' = <<>>
          /\ guest # "boot" => typed' = Append(typed, [line |-> "chunk", part |-> sent + 1])
      <4>1. sent + 1 \in Nat /\ "chunk" \in Lines /\ "chunk" # "nudge" /\ "chunk" # "final"
          BY <1>0 DEF Lines
      <4> QED
          BY <2>1, <4>1, TypeAppends
    <3>2. CASE guest = "boot"
      <4>1. echo
          BY <3>2 DEF KTypes
      <4> QED
          BY <1>3, <2>0, <2>1, <3>1, <3>2, <4>1 DEF Feed
    <3>3. CASE guest # "boot"
      <4>1. [line |-> "chunk", part |-> sent + 1] \in TypedLine
          BY <1>0 DEF TypedLine, Lines
      <4>2. /\ DOMAIN typed' = 1 .. Len(typed) + 1 /\ Len(typed') = Len(typed) + 1
            /\ \A n \in 1 .. Len(typed) : typed'[n] = typed[n]
            /\ typed'[Len(typed) + 1] = [line |-> "chunk", part |-> sent + 1]
          BY <1>0, <3>1, <3>3, <4>1, AppendProperties, LenProperties
      <4>3. \A n \in DOMAIN typed' : typed'[n].line # "final"
          BY <1>0, <2>0, <4>2
      <4>4. ASSUME NEW r \in DOMAIN typed', typed'[r].line = "reset"
            PROVE  /\ Len(typed') - r = sent + 1
                   /\ \A j \in 1 .. sent + 1 : typed'[r + j] = [line |-> "chunk", part |-> j]
        <5>1. r \in 1 .. Len(typed) /\ r # Len(typed) + 1 /\ typed[r].line = "reset"
            BY <1>0, <4>2, <4>4
        <5>2. /\ Len(typed) - r = sent
              /\ \A j \in 1 .. sent : typed[r + j] = [line |-> "chunk", part |-> j]
            BY <1>0, <2>0, <5>1
        <5>3. ASSUME NEW j \in 1 .. sent + 1 PROVE typed'[r + j] = [line |-> "chunk", part |-> j]
          <6>1. CASE j <= sent
            <7>1. r + j \in 1 .. Len(typed) /\ j \in 1 .. sent
                BY <1>0, <5>1, <5>2, <6>1
            <7> QED
                BY <4>2, <5>2, <7>1
          <6>2. CASE j = sent + 1
            <7>1. r + j = Len(typed) + 1
                BY <1>0, <5>1, <5>2, <6>2
            <7> QED
                BY <4>2, <6>2, <7>1
          <6> QED
              BY <1>0, <6>1, <6>2
        <5> QED
            BY <1>0, <4>2, <5>1, <5>2, <5>3
      <4>5. ~echo => \E k \in 0 .. sent + 1 : file = Upto(k) /\ typed' = Pieces(k, sent + 1)
        <5> HAVE ~echo
        <5>1. PICK k \in 0 .. sent : file = Upto(k) /\ typed = Pieces(k, sent)
            BY <2>0
        <5>2. k \in Nat /\ k <= sent /\ k \in 0 .. sent + 1
            BY <1>0
        <5>3. typed' = Pieces(k, sent + 1)
            BY <1>0, <3>1, <3>3, <5>1, <5>2, PieceAdded
        <5> QED
            BY <5>1, <5>2, <5>3
      <4> QED
          BY <1>3, <2>0, <2>1, <3>1, <4>3, <4>4, <4>5 DEF Feed
    <3> QED
        BY <3>2, <3>3
  <2>2. CASE sent = Chunks /\ pc' = "final" /\ Quiet /\ UNCHANGED sent
      BY <1>3, <2>0, <2>2 DEF Feed
  <2> QED
      BY <1>3, <2>1, <2>2 DEF Feed
<1>4. CASE Drain
  <2>1. Unmarked(con) /\ Unmarked(con')
      BY <1>4, PumpReads DEF Drain, FeedingInv
  <2> QED
      BY <1>4, <2>1 DEF Drain, FeedingInv
<1>5. CASE Qemu \/ Tick
    BY <1>5 DEF Qemu, Tick, FeedingInv
<1>6. CASE Chat \/ LogIn
  <2>1. Unmarked(con)
      BY <1>6 DEF Chat, LogIn, FeedingInv
  <2>2. Unmarked(con')
      BY <1>6, <2>1, ChatterUnmarked, ShowUnmarked DEF KTypes
  <2> QED
      BY <1>6, <2>2 DEF Chat, LogIn, FeedingInv
<1>7. CASE Take
  <2>0. /\ script = "no" /\ Unmarked(con) /\ buf = <<>> /\ (pc = "final" => sent = Chunks)
        /\ \A n \in DOMAIN typed : typed[n].line # "final"
        /\ ~echo => \E k \in 0 .. sent : file = Upto(k) /\ typed = Pieces(k, sent)
        /\ Queue(typed, sent)
        /\ pc' = pc /\ sent' = sent /\ buf' = buf
      BY <1>7 DEF Take, FeedingInv
  <2>1. /\ typed' = Tail(typed) /\ typed # <<>>
        /\ Len(typed) \in Nat \ {0} /\ Head(typed) = typed[1]
        /\ DOMAIN typed = 1 .. Len(typed) /\ DOMAIN typed' = 1 .. Len(typed) - 1
        /\ Len(typed') = Len(typed) - 1 /\ typed' \in Seq(TypedLine)
        /\ \A n \in 1 .. Len(typed) - 1 : typed'[n] = typed[n + 1]
      BY <1>7, TakeTakes
  <2>2. 1 \in DOMAIN typed /\ typed[1].line # "final"
      BY <2>0, <2>1
  <2>3. Unmarked(con') /\ script' = "no"
      BY <1>7, <2>0, <2>2, TakeUnmarked, ShowUnmarked DEF KTypes
  <2>4. \A n \in DOMAIN typed' : n + 1 \in DOMAIN typed /\ typed'[n] = typed[n + 1]
      BY <2>1
  <2>5. \A n \in DOMAIN typed' : typed'[n].line # "final"
      BY <2>0, <2>4
  <2>6. ASSUME NEW r \in DOMAIN typed', typed'[r].line = "reset"
        PROVE  /\ Len(typed') - r = sent
               /\ \A j \in 1 .. sent : typed'[r + j] = [line |-> "chunk", part |-> j]
    <3>1. r + 1 \in DOMAIN typed /\ typed[r + 1].line = "reset" /\ r \in Nat
        BY <2>1, <2>4, <2>6
    <3>2. /\ Len(typed) - (r + 1) = sent
          /\ \A j \in 1 .. sent : typed[r + 1 + j] = [line |-> "chunk", part |-> j]
        BY <2>0, <3>1
    <3>3. \A j \in 1 .. sent : r + j \in DOMAIN typed' /\ (r + j) + 1 = r + 1 + j
        BY <1>0, <2>1, <3>1, <3>2, SMTT(30)
    <3> QED
        BY <1>0, <2>1, <2>4, <3>1, <3>2, <3>3
  <2>7. ASSUME ~echo' PROVE \E k \in 0 .. sent : file' = Upto(k) /\ typed' = Pieces(k, sent)
    <3>1. CASE typed[1].line = "reset"
      <4>1. file' = Upto(0)
          BY <1>7, <2>1, <3>1 DEF Take, Upto
      <4>2. Len(typed) - 1 = sent /\ \A j \in 1 .. sent : typed[1 + j] = [line |-> "chunk", part |-> j]
          BY <2>0, <2>2, <3>1
      <4>3. /\ Pieces(0, sent) \in Seq(TypedLine) /\ Len(Pieces(0, sent)) = sent - 0
            /\ \A j \in 1 .. sent - 0 : Pieces(0, sent)[j] = [line |-> "chunk", part |-> 0 + j]
        <5>1. 0 \in Nat /\ 0 <= sent
            BY <1>0
        <5> QED
            BY <1>0, <5>1, PiecesAre
      <4>4. ASSUME NEW j \in 1 .. Len(typed') PROVE typed'[j] = Pieces(0, sent)[j]
        <5>1. j \in 1 .. sent /\ j \in 1 .. sent - 0 /\ 0 + j = j /\ j + 1 = 1 + j /\ j \in DOMAIN typed'
            BY <1>0, <2>1, <4>2
        <5>2. typed'[j] = typed[1 + j]
            BY <2>4, <5>1
        <5>3. typed[1 + j] = [line |-> "chunk", part |-> j]
            BY <4>2, <5>1
        <5>4. Pieces(0, sent)[j] = [line |-> "chunk", part |-> j]
            BY <4>3, <5>1
        <5> QED
            BY <5>2, <5>3, <5>4
      <4>5. Len(typed') = Len(Pieces(0, sent))
          BY <1>0, <2>1, <4>2, <4>3
      <4>6. typed' = Pieces(0, sent)
          BY <2>1, <4>3, <4>4, <4>5, SeqEqual
      <4>7. 0 \in 0 .. sent
          BY <1>0
      <4> QED
          BY <4>1, <4>6, <4>7
    <3>2. CASE typed[1].line # "reset"
      <4>1. ~echo
          BY <1>7, <2>1, <2>7, <3>2 DEF Take, KTypes
      <4>2. PICK k \in 0 .. sent : file = Upto(k) /\ typed = Pieces(k, sent)
          BY <2>0, <4>1
      <4>3. k \in Nat /\ k < sent
        <5>1. k \in Nat /\ k <= sent
            BY <1>0
        <5>2. Len(Pieces(k, sent)) = sent - k
            BY <1>0, <5>1, PiecesAre
        <5> QED
            BY <1>0, <2>1, <4>2, <5>1, <5>2
      <4>4. typed[1] = [line |-> "chunk", part |-> k + 1] /\ typed' = Pieces(k + 1, sent)
          BY <1>0, <2>1, <4>2, <4>3, PieceTaken
      <4>5. file' = (IF file = NoFile THEN <<>> ELSE file) \o <<k + 1>>
          BY <1>7, <2>1, <4>4 DEF Take
      <4>6. file' = Upto(k + 1)
          BY <4>2, <4>3, <4>5, FileGrows
      <4>7. k + 1 \in 0 .. sent
          BY <1>0, <4>3
      <4> QED
          BY <4>4, <4>6, <4>7
    <3> QED
        BY <3>1, <3>2
  <2> QED
      BY <2>0, <2>3, <2>5, <2>6, <2>7
<1>8. CASE ScriptEnds
    BY <1>8 DEF ScriptEnds, FeedingInv
<1>9. CASE UNCHANGED vars
    BY <1>9 DEF vars, FeedingInv
<1> QED
    BY <1>1, <1>2, <1>3, <1>4, <1>5, <1>6, <1>7, <1>8, <1>9 DEF Next, DriverStep

-----------------------------------------------------------------------------
(* The answer.                                                             *)

\* A marker that has been read.
LEMMA MarkerRead ==
    ASSUME NEW b \in Seq(0 .. 12), NEW c \in Seq(0 .. 12), Has(b, Marker)
    PROVE  ~Unmarked(b \o c) /\ Has(b \o c, Marker)
<1>1. /\ DOMAIN b = 1 .. Len(b) /\ Len(b) \in Nat /\ Len(c) \in Nat
      /\ DOMAIN (b \o c) = 1 .. Len(b) + Len(c)
      /\ \A n \in 1 .. Len(b) : (b \o c)[n] = b[n]
  <2>1. /\ b \o c \in Seq(0 .. 12) /\ Len(b \o c) = Len(b) + Len(c)
        /\ \A n \in 1 .. Len(b) + Len(c) :
             (b \o c)[n] = IF n <= Len(b) THEN b[n] ELSE c[n - Len(b)]
      BY ConcatProperties
  <2>2. Len(b) \in Nat /\ Len(c) \in Nat /\ DOMAIN b = 1 .. Len(b)
      BY LenProperties
  <2> QED
      BY <2>1, <2>2, LenProperties
<1>2. PICK n \in DOMAIN b : b[n] = Marker
    BY DEF Has
<1>3. n \in DOMAIN (b \o c) /\ (b \o c)[n] = Marker
    BY <1>1, <1>2
<1> QED
    BY <1>3 DEF Unmarked, Has

\* While it waits.
LEMMA WaitingNext == KTypes /\ FeedingInv /\ WaitingInv /\ [Next]_vars => WaitingInv'
<1> SUFFICES ASSUME KTypes, FeedingInv, WaitingInv, [Next]_vars,
                    pc' \in {"wait", "reparse"}, ~shown'
             PROVE  /\ pc' = "reparse" => Has(buf', Marker)
                    /\ \/ Unanswered'
                       \/ /\ script' = "over" /\ typed' = <<>> /\ Answered(buf \o con)'
                          /\ truth' \in Codes /\ file' = Upto(Chunks)
    BY DEF WaitingInv, Has, Upto, Marker
<1> USE DEF Aside, Quiet, Skip, Return, Host, inside, driver
<1>0. /\ typed \in Seq(TypedLine) /\ buf \in Seq(0 .. 12) /\ con \in Seq(0 .. 12)
      /\ truth \in Seq(0 .. 9) /\ buf \o con \in Seq(0 .. 12)
    BY ConcatProperties DEF KTypes
<1>1. CASE Connect \/ Look \/ Nudge \/ NoPrompt \/ SendRaises \/ Reset \/ Feed \/ Drain
    BY <1>1 DEF Connect, Look, Nudge, NoPrompt, SendRaises, Reset, Feed, Drain
<1> DEFINE Stays == \/ Unanswered
                    \/ /\ script = "over" /\ typed = <<>> /\ Answered(buf \o con)
                       /\ truth \in Codes /\ file = Upto(Chunks)
<1>2. pc \in {"wait", "reparse"} /\ ~shown => Stays
    BY DEF WaitingInv
<1>3. CASE Final
  <2>1. /\ script = "no" /\ Unmarked(con) /\ sent = Chunks
        /\ ~echo => \E k \in 0 .. Chunks : file = Upto(k) /\ typed = Pieces(k, Chunks)
      BY <1>3 DEF Final, FeedingInv
  <2>2. /\ con' = con
        /\ guest = "boot" => typed' = <<>>
        /\ guest # "boot" => ~echo /\ typed' = Append(typed, FinalLine)
    <3>1. "final" \in Lines /\ "final" # "nudge"
        BY DEF Lines
    <3> QED
        BY <1>3, <3>1, TypeAppends, 0 \in Nat DEF Final, FinalLine
  <2>3. buf' = <<>> /\ buf' \o con' = con
      BY <1>0, <1>3, <2>2, ConcatEmptySeq DEF Final
  <2>4. Unanswered'
      BY <1>3, <2>1, <2>2, <2>3 DEF Final, Unanswered
  <2> QED
      BY <1>3, <2>4 DEF Final
<1>4. CASE Wait
  <2>1. CASE late /\ Skip /\ UNCHANGED <<buf, con>>
      BY <1>4, <2>1 DEF Wait
  <2>2. PICK k \in 0 .. Len(con), connected \in BOOLEAN : Pump(k, connected) /\ Read(k)
      BY <1>4, <2>1 DEF Wait
  <2>3. buf' \o con' = buf \o con
      BY <2>2, PumpReads DEF Read
  <2>4. Stays /\ pc' # "reparse"
      BY <1>2, <1>4 DEF Wait
  <2>5. (buf \o con)' = buf \o con
      BY <2>3
  <2>6. UNCHANGED <<typed, script, echo, file, truth>>
      BY <1>4 DEF Wait
  <2>7. Answered(buf \o con) => Answered(buf \o con)'
      BY <2>5, <2>6 DEF Answered
  <2>8. Unanswered => Unanswered'
      BY <2>5, <2>6 DEF Unanswered, Unmarked
  <2> QED
      BY <2>4, <2>6, <2>7, <2>8
<1>5. CASE Reparse
  <2>1. PICK k \in 0 .. Len(con), connected \in BOOLEAN : Pump(k, connected) /\ Read(k)
      BY <1>5 DEF Reparse
  <2>2. buf' \o con' = buf \o con
      BY <2>1, PumpReads DEF Read
  <2>3. Stays /\ Has(buf, Marker)
      BY <1>2, <1>5 DEF Reparse, WaitingInv
  <2>4. Has(buf', Marker)
    <3>1. SubSeq(con, 1, k) \in Seq(0 .. 12)
        BY <1>0, ReadKeepsStream
    <3>2. buf' = buf \o SubSeq(con, 1, k)
        BY <2>1 DEF Read
    <3> QED
        BY <1>0, <2>3, <3>1, <3>2, MarkerRead
  <2>5. UNCHANGED <<typed, script, echo, file, truth>>
      BY <1>5 DEF Reparse
  <2>6. Answered(buf \o con) => Answered(buf \o con)'
      BY <2>2, <2>5 DEF Answered
  <2>7. Unanswered => Unanswered'
      BY <2>2, <2>5 DEF Unanswered, Unmarked
  <2> QED
      BY <2>3, <2>4, <2>5, <2>6, <2>7
<1>6. CASE Parse \/ Qemu \/ Tick \/ UNCHANGED vars
  <2>1. UNCHANGED <<typed, script, echo, file, truth, buf, con, shown>>
      BY <1>6 DEF Parse, Qemu, Tick, vars
  <2>2. pc \in {"wait", "reparse"} /\ (pc' = "reparse" => Has(buf, Marker))
    <3>1. CASE Parse
        BY <3>1 DEF Parse
    <3>2. CASE pc' = pc
        BY <2>1, <3>2 DEF WaitingInv
    <3> QED
        BY <1>6, <3>1, <3>2 DEF Qemu, Tick, vars
  <2>3. Stays
      BY <1>2, <2>1, <2>2
  <2>4. Answered(buf \o con) => Answered(buf \o con)'
      BY <2>1 DEF Answered
  <2>5. Has(buf, Marker) => Has(buf', Marker)
      BY <2>1
  <2>6. Unanswered => Unanswered'
      BY <2>1 DEF Unanswered, Unmarked
  <2> QED
      BY <2>1, <2>2, <2>3, <2>4, <2>5, <2>6
<1>7. CASE Chat \/ LogIn
  <2>1. /\ UNCHANGED <<typed, script, echo, file, truth, buf, shown, pc>>
      BY <1>7 DEF Chat, LogIn
  <2>2. PICK t \in Seq(0 .. 12) : Unmarked(t) /\ con' = con \o t
      BY <1>7, ChatterUnmarked
  <2>3. buf' \o con' = (buf \o con) \o t
      BY <1>0, <2>1, <2>2, ConcatAssociative, SMTT(30)
  <2>4. Unmarked(buf \o con) => Unmarked(buf' \o con')
      BY <1>0, <2>2, <2>3, ShowUnmarked
  <2>5. Answered(buf \o con) => Answered(buf \o con)'
    <3> SUFFICES ASSUME Answered(buf \o con) PROVE Answered(buf \o con)'
        OBVIOUS
    <3>1. Answered((buf \o con) \o t)
        BY <1>0, <2>2, ShowAnswered
    <3>2. truth' = truth /\ (buf \o con)' = (buf \o con) \o t
        BY <2>1, <2>3
    <3> DEFINE z == (buf \o con) \o t
    <3> HIDE DEF z
    <3>3. Answered(z) /\ (buf \o con)' = z
        BY <3>1, <3>2 DEF z
    <3> QED
        BY <3>2, <3>3 DEF Answered
  <2>6. Stays
      BY <1>2, <2>1
  <2>7. pc' = "reparse" => Has(buf', Marker)
    <3>1. pc = "reparse" => Has(buf, Marker)
        BY <2>1 DEF WaitingInv
    <3> QED
        BY <2>1, <3>1
  <2>8. Unanswered => Unanswered'
      BY <2>1, <2>4 DEF Unanswered, Unmarked
  <2> QED
      BY <2>1, <2>5, <2>6, <2>7, <2>8
<1>8. CASE Take
  <2>1. /\ UNCHANGED <<buf, shown, pc>> /\ typed # <<>> /\ script # "runs"
      BY <1>8 DEF Take
  <2>2. /\ script = "no" /\ Unmarked(buf \o con) /\ ~echo
        /\ pc = "reparse" => Has(buf, Marker)
      BY <1>2, <2>1 DEF Unanswered, WaitingInv
  <2>3. PICK k \in 0 .. Chunks : file = Upto(k) /\ typed = Append(Pieces(k, Chunks), FinalLine)
      BY <1>2, <2>1, <2>2 DEF Unanswered
  <2>4. k \in Nat /\ Chunks \in Nat \ {0} /\ k <= Chunks
      BY ChunksAssumption
  <2>5. pc' # "reparse"
      BY <1>0, <2>1, <2>2, MarkerRead
  <2>6. /\ Pieces(k, Chunks) \in Seq(TypedLine) /\ Len(Pieces(k, Chunks)) = Chunks - k
        /\ \A j \in 1 .. Chunks - k : Pieces(k, Chunks)[j] = [line |-> "chunk", part |-> k + j]
        /\ FinalLine \in TypedLine
    <3>1. FinalLine \in TypedLine
        BY DEF FinalLine, TypedLine, Lines
    <3> QED
        BY <2>4, <3>1, PiecesAre
  <2>7. /\ typed' = Tail(typed) /\ Head(typed) = typed[1]
        /\ Len(typed') = Len(typed) - 1 /\ typed' \in Seq(TypedLine)
        /\ \A n \in 1 .. Len(typed) - 1 : typed'[n] = typed[n + 1]
      BY <1>8, TakeTakes
  <2>8. /\ Len(typed) = Chunks - k + 1
        /\ \A j \in 1 .. Chunks - k : typed[j] = Pieces(k, Chunks)[j]
        /\ typed[Chunks - k + 1] = FinalLine
      BY <2>3, <2>6, AppendProperties
  <2>9. CASE k < Chunks
    <3>1. typed[1] = [line |-> "chunk", part |-> k + 1]
      <4>1. 1 \in 1 .. Chunks - k
          BY <2>4, <2>9
      <4> QED
          BY <2>6, <2>8, <4>1
    <3>2. /\ con' = con \o <<Prompt>> /\ <<Prompt>> \in Seq(0 .. 12) /\ Unmarked(<<Prompt>>)
          /\ script' = script
        BY <1>8, <3>1, TakeUnmarked
    <3>3. file' = Upto(k + 1) /\ echo' = echo
      <4>1. file' = (IF file = NoFile THEN <<>> ELSE file) \o <<k + 1>>
          BY <1>8, <2>7, <3>1 DEF Take
      <4>2. echo' = echo
          BY <1>8, <2>2, <2>7, <3>1 DEF Take, KTypes
      <4> QED
          BY <2>3, <2>4, <4>1, <4>2, FileGrows
    <3>4. typed' = Append(Pieces(k + 1, Chunks), FinalLine)
      <4>1. k + 1 \in Nat /\ k + 1 <= Chunks
          BY <2>4, <2>9
      <4>2. /\ Pieces(k + 1, Chunks) \in Seq(TypedLine)
            /\ Len(Pieces(k + 1, Chunks)) = Chunks - (k + 1)
            /\ \A j \in 1 .. Chunks - (k + 1) :
                 Pieces(k + 1, Chunks)[j] = [line |-> "chunk", part |-> (k + 1) + j]
          BY <2>4, <4>1, PiecesAre
      <4> DEFINE a == Append(Pieces(k + 1, Chunks), FinalLine)
      <4>3. /\ a \in Seq(TypedLine) /\ Len(a) = Chunks - (k + 1) + 1
            /\ \A j \in 1 .. Chunks - (k + 1) : a[j] = Pieces(k + 1, Chunks)[j]
            /\ a[Chunks - (k + 1) + 1] = FinalLine
          BY <2>6, <4>2, AppendProperties
      <4> HIDE DEF a
      <4>4. Len(a) = Len(typed')
          BY <2>4, <2>7, <2>8, <4>3
      <4>5. ASSUME NEW j \in 1 .. Len(a) PROVE typed'[j] = a[j]
        <5>1. CASE j <= Chunks - (k + 1)
          <6>1. /\ j \in 1 .. Chunks - (k + 1) /\ j + 1 \in 1 .. Chunks - k
                /\ (k + 1) + j = k + (j + 1) /\ j \in 1 .. Len(typed) - 1
            <7>1. j \in Nat \ {0} /\ Len(typed) - 1 = Chunks - k
                BY <2>4, <2>8, <4>3
            <7> QED
                BY <2>4, <5>1, <7>1
          <6>2. typed'[j] = Pieces(k, Chunks)[j + 1]
              BY <2>7, <2>8, <6>1
          <6>3. a[j] = Pieces(k + 1, Chunks)[j]
              BY <4>3, <6>1
          <6>4. Pieces(k, Chunks)[j + 1] = [line |-> "chunk", part |-> k + (j + 1)]
              BY <2>6, <6>1
          <6>5. Pieces(k + 1, Chunks)[j] = [line |-> "chunk", part |-> (k + 1) + j]
              BY <4>2, <6>1
          <6> QED
              BY <6>1, <6>2, <6>3, <6>4, <6>5
        <5>2. CASE j = Chunks - (k + 1) + 1
          <6>1. j \in 1 .. Len(typed) - 1 /\ j + 1 = Chunks - k + 1
              BY <2>4, <2>8, <2>9, <5>2
          <6> QED
              BY <2>7, <2>8, <4>3, <5>2, <6>1
        <5> QED
            BY <2>4, <4>3, <5>1, <5>2
      <4> QED
          BY <2>7, <4>3, <4>4, <4>5, SeqEqual DEF a
    <3>5. Unmarked(buf' \o con')
      <4>1. buf' \o con' = (buf \o con) \o <<Prompt>>
          BY <1>0, <2>1, <3>2, ConcatAssociative, SMTT(30)
      <4> QED
          BY <1>0, <2>2, <3>2, <4>1, ShowUnmarked
    <3>6. k + 1 \in 0 .. Chunks
        BY <2>4, <2>9
    <3>7. Unanswered'
        BY <2>2, <3>2, <3>3, <3>4, <3>5, <3>6 DEF Unanswered
    <3> QED
        BY <2>5, <3>7
  <2>10. CASE k = Chunks
    <3>1. typed[1] = FinalLine /\ Len(typed) = 1
        BY <2>4, <2>8, <2>10
    <3>2. typed' = <<>>
        BY <2>7, <3>1, EmptySeq
    <3>3. file # NoFile
      <4>1. k > 0
          BY <2>4, <2>10
      <4> QED
          BY <2>3, <2>4, <4>1, FileGrows
    <3>4. script' = "runs" /\ truth' \in Codes /\ con' = con /\ file' = file
        BY <1>8, <2>7, <3>1, <3>3 DEF Take, FinalLine
    <3>5. Unanswered'
        BY <2>1, <2>2, <2>3, <2>10, <3>2, <3>4 DEF Unanswered
    <3> QED
        BY <2>5, <3>5
  <2> QED
      BY <2>4, <2>9, <2>10
<1>9. CASE ScriptEnds
  <2>1. /\ UNCHANGED <<typed, file, truth, buf, shown, pc>> /\ script = "runs"
        /\ script' = "over" /\ con' = con \o (<<Marker>> \o truth \o <<Text, Prompt>>)
      BY <1>9 DEF ScriptEnds, Show
  <2>2. /\ typed = <<>> /\ Unmarked(buf \o con) /\ truth \in Codes /\ file = Upto(Chunks)
        /\ pc = "reparse" => Has(buf, Marker)
      BY <1>2, <2>1 DEF Unanswered, WaitingInv
  <2>3. pc' # "reparse"
      BY <1>0, <2>1, <2>2, MarkerRead
  <2>4. /\ <<Marker>> \o truth \o <<Text, Prompt>> \in Seq(0 .. 12)
        /\ Answered((buf \o con) \o (<<Marker>> \o truth \o <<Text, Prompt>>))
      BY <1>0, <2>2, AnswerShown
  <2>5. buf' \o con' = (buf \o con) \o (<<Marker>> \o truth \o <<Text, Prompt>>)
    <3> DEFINE a == <<Marker>> \o truth \o <<Text, Prompt>>
    <3>1. a \in Seq(0 .. 12) /\ buf' = buf /\ con' = con \o a
        BY <2>1, <2>4
    <3> HIDE DEF a
    <3>2. (buf \o con) \o a = buf \o (con \o a)
        BY <1>0, <3>1, ConcatAssociative, SMTT(30)
    <3>3. buf' \o con' = (buf \o con) \o a
        BY <3>1, <3>2
    <3> QED
        BY <3>3 DEF a
  <2>6. Answered(buf \o con)'
      BY <2>1, <2>4, <2>5, ZenonT(30) DEF Answered
  <2> QED
      BY <2>1, <2>2, <2>3, <2>6
<1> QED
    BY <1>1, <1>3, <1>4, <1>5, <1>6, <1>7, <1>8, <1>9 DEF Next, DriverStep

\* A code the driver takes from the answer it has read.
LEMMA CodeTaken ==
    ASSUME NEW b \in Seq(0 .. 12), NEW c \in Seq(0 .. 12), truth \in Seq(0 .. 9),
           truth \in Codes, Answered(b \o c), Has(b, Marker), Digits(b) # <<>>
    PROVE  \E k \in 1 .. Len(truth) : Status(Digits(b)) = Status(SubSeq(truth, 1, k))
<1>1. truth # <<>>
    BY ConsoleAssumption
<1>2. PICK k \in 1 .. Len(truth) : Digits(b) = SubSeq(truth, 1, k)
    BY <1>1, DigitsOfAnswer
<1> QED
    BY <1>2, Zenon

\* A code is one of the answer.
LEMMA CodeNext == KTypes /\ WaitingInv /\ CodeInv /\ [Next]_vars => CodeInv'
<1> SUFFICES ASSUME KTypes, WaitingInv, CodeInv, [Next]_vars, exit'.how = "code", ~shown'
             PROVE  /\ script' = "over" /\ typed' = <<>>
                    /\ truth' \in Codes /\ file' = Upto(Chunks)
                    /\ \E k \in 1 .. Len(truth') : exit'.code = Status(SubSeq(truth', 1, k))
    BY DEF CodeInv, Upto
<1> USE DEF Aside, Quiet, Host, inside, driver
<1>0. /\ buf \in Seq(0 .. 12) /\ con \in Seq(0 .. 12) /\ truth \in Seq(0 .. 9)
      /\ pc # "done" => exit = NoExit
    BY DEF KTypes
<1>1. CASE exit' = exit
  <2>1. exit.how = "code" /\ pc = "done"
      BY <1>0, <1>1 DEF NoExit
  <2>2. UNCHANGED <<typed, file, truth, script, shown>> \/ Take \/ ScriptEnds
      BY <2>1 DEF Next, DriverStep, Connect, Look, Nudge, NoPrompt, Reset, Feed, Drain, Final,
                  SendRaises, Wait, Parse, Reparse, Qemu, Chat, LogIn, Tick, vars, Skip, Return,
                  KTypes, NoExit
  <2>3. ~shown
      BY <2>2 DEF Take, ScriptEnds
  <2>4. CodeInv => /\ script = "over" /\ typed = <<>>
                   /\ truth \in Codes /\ file = Upto(Chunks)
                   /\ \E k \in 1 .. Len(truth) : exit.code = Status(SubSeq(truth, 1, k))
      BY <2>1, <2>3 DEF CodeInv
  <2>5. ~Take /\ ~ScriptEnds
      BY <2>4 DEF Take, ScriptEnds
  <2> QED
      BY <1>1, <2>2, <2>4, <2>5
<1>2. CASE exit' # exit
  <2>1. Parse \/ Reparse
    <3>1. ~UNCHANGED vars
        BY <1>2 DEF vars
    <3>2. ~(Connect \/ Look \/ Nudge \/ NoPrompt \/ Reset \/ Feed \/ Drain \/ Final)
        BY <1>2 DEF Connect, Look, Nudge, NoPrompt, Reset, Feed, Drain, Final, Skip, Return
    <3>3. ~(SendRaises \/ Wait)
        BY <1>2 DEF SendRaises, Wait, Skip, Return
    <3>4. ~(Qemu \/ Chat \/ LogIn \/ Take \/ ScriptEnds \/ Tick)
        BY <1>2 DEF Qemu, Chat, LogIn, Take, ScriptEnds, Tick
    <3> QED
        BY <3>1, <3>2, <3>3, <3>4 DEF Next, DriverStep
  <2>2. UNCHANGED <<typed, file, truth, script, shown>> /\ pc \in {"wait", "reparse"}
      BY <2>1 DEF Parse, Reparse
  <2>3. Has(buf, Marker)
      BY <2>1, <2>2 DEF Parse, Reparse, WaitingInv
  <2>4. ~Unmarked(buf \o con)
      BY <1>0, <2>3, MarkerRead
  <2>5. /\ script = "over" /\ typed = <<>> /\ Answered(buf \o con)
        /\ truth \in Codes /\ file = Upto(Chunks)
      BY <2>2, <2>4 DEF WaitingInv, Unanswered
  <2>6. \E k \in 1 .. Len(truth) : exit'.code = Status(SubSeq(truth, 1, k))
    <3>1. CASE Parse
      <4>1. Digits(buf) # <<>> /\ exit'.code = Status(Digits(buf))
          BY <1>2, <3>1 DEF Parse, Return
      <4> QED
          BY <1>0, <2>3, <2>5, <4>1, CodeTaken
    <3>2. CASE Reparse
      <4>1. PICK k \in 0 .. Len(con), connected \in BOOLEAN :
              /\ Pump(k, connected) /\ Read(k)
              /\ Digits(buf') # <<>> /\ exit'.code = Status(Digits(buf'))
          BY <1>2, <3>2 DEF Reparse, Skip, Return
      <4>2. /\ buf' = buf \o SubSeq(con, 1, k) /\ buf' \in Seq(0 .. 12) /\ con' \in Seq(0 .. 12)
            /\ buf' \o con' = buf \o con /\ SubSeq(con, 1, k) \in Seq(0 .. 12)
          BY <1>0, <4>1, PumpReads, ReadKeepsStream DEF Read
      <4>3. Has(buf', Marker)
          BY <1>0, <2>3, <4>2, MarkerRead
      <4>4. Answered(buf' \o con')
          BY <2>5, <4>2
      <4> QED
          BY <1>0, <2>5, <4>1, <4>2, <4>3, <4>4, CodeTaken
    <3> QED
        BY <2>1, <3>1, <3>2
  <2> QED
      BY <2>2, <2>5, <2>6
<1> QED
    BY <1>1, <1>2

\* At the start.
LEMMA KInvInit == Init => KInv
<1> SUFFICES ASSUME Init PROVE KInv
    OBVIOUS
<1>1. KTypes
  <2>1. 0 \in 0 .. Chunks
      BY ChunksAssumption
  <2>2. <<>> \in Seq(0 .. 12) /\ <<>> \in Seq(TypedLine) /\ <<>> \in Seq(0 .. 9)
      OBVIOUS
  <2>3. pc = "connect" /\ exit = NoExit /\ (pc = "done") = (exit # NoExit)
      BY DEF Init
  <2>4. sent = 0 /\ buf = <<>> /\ con = <<>> /\ typed = <<>> /\ truth = <<>>
        /\ echo = TRUE /\ shown = FALSE /\ guest = "boot"
      BY DEF Init
  <2> QED
      BY <2>1, <2>2, <2>3, <2>4 DEF KTypes
<1>2. BeforeInv /\ FeedingInv /\ WaitingInv /\ CodeInv
    BY DEF Init, BeforeInv, FeedingInv, WaitingInv, CodeInv, Unmarked, NoExit
<1> QED
    BY <1>1, <1>2 DEF KInv

-----------------------------------------------------------------------------
(* The theorems.                                                           *)

\* The inductive invariant of the driver and its guest.
THEOREM ConsoleInvariance == Spec => []KInv
<1>1. KInv /\ [Next]_vars => KInv'
    BY TypesNext, BeforeNext, FeedingNext, WaitingNext, CodeNext DEF KInv
<1> QED
    BY <1>1, KInvInit, PTL DEF Spec

\* The code of a driver that was not misled by an echo is a beginning of the one
\* the guest printed, and the script has run to its end.
THEOREM CodeIsAPrefixAlways == Spec => []CodeIsAPrefix
<1>1. KInv => CodeIsAPrefix
    BY DEF KInv, CodeInv, CodeIsAPrefix
<1> QED
    BY <1>1, ConsoleInvariance, PTL

\* A driver that ends with 0 and was not misled by an echo has had the whole
\* script run, and it has ended with 0.
THEOREM PassIsEarnedAlways == Spec => []PassIsEarned
<1>1. ASSUME KInv, exit = [how |-> "code", code |-> 0], ~shown
      PROVE  script = "over" /\ truth = <<0>> /\ file = [n \in 1 .. Chunks |-> n]
  <2>1. exit.how = "code" /\ exit.code = 0
      BY <1>1
  <2>2. /\ script = "over" /\ truth \in Codes /\ file = Upto(Chunks)
        /\ \E k \in 1 .. Len(truth) : Status(SubSeq(truth, 1, k)) = 0
      BY <1>1, <2>1 DEF KInv, CodeInv
  <2>3. truth = <<0>>
      BY <2>2, CodesAssumption
  <2> QED
      BY <2>2, <2>3, ChunksAssumption DEF Upto
<1>2. KInv => PassIsEarned
    BY <1>1 DEF PassIsEarned
<1> QED
    BY <1>2, ConsoleInvariance, PTL

-----------------------------------------------------------------------------
(* The type invariant.  What KTypes leaves out: the exit code, the pieces  *)
(* in the file, and the guest.                                             *)

ExitType  == [how : {"no", "skip", "raised", "code"}, code : 0 .. 255]
TypedPart == [line : Lines, part : 0 .. Chunks]

RestInv ==
    /\ exit \in ExitType
    /\ typed \in Seq(TypedPart)
    /\ file \in Seq(0 .. Chunks)
    /\ qemu \in {"absent", "up", "gone"}
    /\ script \in {"no", "missing", "runs", "over"}
    /\ truth \in Codes \union {<<>>, <<1>>}
    /\ talk \in 0 .. Chatter /\ late \in BOOLEAN
    /\ pc = "reparse" => Has(buf, Marker)

\* A line typed is of a piece there is.
LEMMA TypeKeepsParts ==
    ASSUME RestInv, NEW line \in Lines, NEW n \in 0 .. Chunks, Type(line, n)
    PROVE  typed' \in Seq(TypedPart)
<1>1. [line |-> line, part |-> n] \in TypedPart
    BY DEF TypedPart
<1>2. Append(typed, [line |-> line, part |-> n]) \in Seq(TypedPart)
    BY <1>1 DEF RestInv
<1> QED
    BY <1>2 DEF Type, RestInv

\* A driver that returns does so with a byte.
LEMMA ReturnsByte ==
    /\ Skip => exit' \in ExitType
    /\ Return("raised", 1) => exit' \in ExitType
    /\ \A code \in 0 .. 255 : Return("code", code) => exit' \in ExitType
<1>1. \A how \in {"no", "skip", "raised", "code"}, code \in 0 .. 255 :
        [how |-> how, code |-> code] \in ExitType
    BY Zenon DEF ExitType
<1>2. 77 \in 0 .. 255 /\ 1 \in 0 .. 255
    OBVIOUS
<1> HIDE DEF ExitType
<1> QED
    BY <1>1, <1>2, Zenon DEF Return, Skip

\* The code taken from what has been read is one.
LEMMA CodeIsByte ==
    ASSUME NEW b \in Seq(0 .. 12), Has(b, Marker)
    PROVE  Status(Digits(b)) \in 0 .. 255
  BY DigitsAreDigits, StatusIsByte

\* Every step keeps them.
LEMMA RestNext == KTypes /\ RestInv /\ [Next]_vars => RestInv'
<1> SUFFICES ASSUME KTypes, RestInv, [Next]_vars PROVE RestInv'
    OBVIOUS
<1> USE DEF RestInv, Aside, Quiet, Host, inside
<1>0. 0 \in 0 .. Chunks /\ Chunks \in Nat
    BY ChunksAssumption
<1>1. CASE Connect \/ Look \/ NoPrompt \/ Drain \/ SendRaises \/ Tick \/ Qemu
  <2>1. exit' \in ExitType
      BY <1>1, ReturnsByte DEF Connect, Look, NoPrompt, Drain, SendRaises, Tick, Qemu, driver
  <2> QED
      BY <1>1, <2>1 DEF Connect, Look, NoPrompt, Drain, SendRaises, Tick, Qemu, driver, Skip, Return
<1>2. CASE Nudge
  <2>1. typed' \in Seq(TypedPart)
      BY <1>0, <1>2, TypeKeepsParts, "nudge" \in Lines DEF Nudge, Lines
  <2>2. exit' \in ExitType
      BY <1>2, ReturnsByte DEF Nudge
  <2> QED
      BY <1>2, <2>1, <2>2 DEF Nudge, Type, Skip, Return
<1>3. CASE Reset
  <2>1. typed' \in Seq(TypedPart)
      BY <1>0, <1>3, TypeKeepsParts, "reset" \in Lines DEF Reset, Lines
  <2> QED
      BY <1>3, <2>1 DEF Reset
<1>4. CASE Feed
  <2>1. typed' \in Seq(TypedPart)
    <3>1. CASE sent < Chunks /\ Type("chunk", sent + 1)
      <4>1. sent + 1 \in 0 .. Chunks /\ "chunk" \in Lines
          BY <1>0, <3>1 DEF KTypes, Lines
      <4> QED
          BY <3>1, <4>1, TypeKeepsParts
    <3>2. CASE typed' = typed
        BY <3>2
    <3> QED
        BY <1>4, <3>1, <3>2 DEF Feed
  <2> QED
      BY <1>4, <2>1 DEF Feed
<1>5. CASE Final
  <2>1. typed' \in Seq(TypedPart)
      BY <1>0, <1>5, TypeKeepsParts, "final" \in Lines DEF Final, Lines
  <2> QED
      BY <1>5, <2>1 DEF Final
<1>6. CASE Wait
  <2>1. exit' \in ExitType
      BY <1>6, ReturnsByte DEF Wait
  <2>2. pc' # "reparse"
      BY <1>6 DEF Wait, Skip, Return
  <2> QED
      BY <1>6, <2>1, <2>2 DEF Wait
<1>7. CASE Parse
  <2>1. exit' \in ExitType
    <3>1. Status(Digits(buf)) \in 0 .. 255
        BY <1>7, CodeIsByte DEF Parse, KTypes
    <3> QED
        BY <1>7, <3>1, ReturnsByte DEF Parse
  <2> QED
      BY <1>7, <2>1 DEF Parse
<1>8. CASE Reparse
  <2>1. CASE Skip /\ UNCHANGED <<buf, con>>
    <3>1. exit' \in ExitType
        BY <2>1, ReturnsByte
    <3> QED
        BY <1>8, <2>1, <3>1 DEF Reparse
  <2>2. CASE ~(Skip /\ UNCHANGED <<buf, con>>)
    <3>1. PICK k \in 0 .. Len(con), connected \in BOOLEAN :
            /\ Pump(k, connected) /\ Read(k)
            /\ IF ~connected THEN Skip
               ELSE IF Digits(buf') = <<>> THEN UNCHANGED <<pc, exit>>
               ELSE Return("code", Status(Digits(buf')))
        BY <1>8, <2>2, Zenon DEF Reparse
    <3>2. SubSeq(con, 1, k) \in Seq(0 .. 12) /\ buf' \in Seq(0 .. 12) /\ buf' = buf \o SubSeq(con, 1, k)
        BY <3>1, CutStream, PumpReads DEF KTypes, Read
    <3>3. Has(buf', Marker)
        BY <1>8, <3>2, MarkerRead DEF Reparse, KTypes
    <3>4. exit' \in ExitType
        BY <3>1, <3>2, <3>3, CodeIsByte, ReturnsByte
    <3> QED
        BY <1>8, <3>3, <3>4 DEF Reparse
  <2> QED
      BY <2>1, <2>2
<1>9. CASE Chat \/ LogIn \/ ScriptEnds
  <2>1. talk' \in 0 .. Chatter
      BY <1>9, ConsoleAssumption DEF Chat, LogIn, ScriptEnds
  <2>2. UNCHANGED <<pc, buf, exit, late, typed, file, truth>>
      BY <1>9 DEF Chat, LogIn, ScriptEnds, driver
  <2>3. qemu' = qemu /\ script' \in {script, "over"}
      BY <1>9 DEF Chat, LogIn, ScriptEnds
  <2> QED
      BY <2>1, <2>2, <2>3
<1>10. CASE Take
  <2>1. typed' = Tail(typed) /\ typed # <<>>
      BY <1>10 DEF Take
  <2>2. Head(typed) \in TypedPart /\ typed' \in Seq(TypedPart)
      BY <2>1
  <2>3. file' \in Seq(0 .. Chunks)
    <3>1. <<0>> \in Seq(0 .. Chunks) /\ <<>> \in Seq(0 .. Chunks)
        BY <1>0
    <3>2. <<Head(typed).part>> \in Seq(0 .. Chunks)
        BY <2>2 DEF TypedPart
    <3> DEFINE old == IF file = NoFile THEN <<>> ELSE file
    <3>3. old \in Seq(0 .. Chunks)
        BY <3>1
    <3>4. file' \in {NoFile, old \o <<Head(typed).part>>, file}
        BY <1>10, Zenon DEF Take
    <3> HIDE DEF old
    <3>5. old \o <<Head(typed).part>> \in Seq(0 .. Chunks)
        BY <3>2, <3>3, ConcatProperties
    <3> QED
        BY <3>1, <3>4, <3>5 DEF NoFile
  <2>4. script' \in {script, "missing", "runs"} /\ truth' \in Codes \union {truth, <<1>>}
      BY <1>10 DEF Take
  <2> QED
      BY <1>10, <2>2, <2>3, <2>4 DEF Take, driver
<1>11. CASE UNCHANGED vars
    BY <1>11 DEF vars
<1> QED
    BY <1>1, <1>2, <1>3, <1>4, <1>5, <1>6, <1>7, <1>8, <1>9, <1>10, <1>11 DEF Next, DriverStep

\* The variables keep their types: among them, an exit code is a byte whatever
\* the guest prints, and no piece is typed or filed that is not of the payload.
THEOREM ConsoleTypeOK == Spec => []CTypeOK
<1>1. Init => RestInv
  <2>1. /\ <<>> \in Seq(TypedPart) /\ <<0>> \in Seq(0 .. Chunks)
        /\ Chatter \in 0 .. Chatter
      BY ChunksAssumption, ConsoleAssumption
  <2>2. [how |-> "no", code |-> 0] \in ExitType
      BY DEF ExitType
  <2>3. ASSUME Init PROVE exit \in ExitType /\ typed \in Seq(TypedPart) /\ file \in Seq(0 .. Chunks)
      BY <2>1, <2>2, <2>3 DEF Init, NoFile, NoExit
  <2>4. ASSUME Init PROVE truth = <<>> /\ talk = Chatter /\ pc = "connect" /\ late = FALSE
                         /\ qemu = "absent" /\ script = "no"
      BY <2>4 DEF Init
  <2> QED
      BY <2>1, <2>3, <2>4 DEF RestInv
<1>2. KTypes /\ RestInv => CTypeOK
  <2> SUFFICES ASSUME KTypes, RestInv PROVE CTypeOK
      OBVIOUS
  <2>1. {buf[n] : n \in DOMAIN buf} \union {con[n] : n \in DOMAIN con} \subseteq 0 .. 12
    <3>1. buf \in Seq(0 .. 12) /\ con \in Seq(0 .. 12)
        BY DEF KTypes
    <3> QED
        BY <3>1, ElementOfSeq, LenProperties
  <2>2. \A n \in DOMAIN typed : typed[n].line \in Lines
    <3>1. typed \in Seq(TypedLine) /\ DOMAIN typed = 1 .. Len(typed)
        BY LenProperties DEF KTypes
    <3>2. \A n \in 1 .. Len(typed) : typed[n] \in TypedLine
        BY <3>1, ElementOfSeq
    <3> QED
        BY <3>1, <3>2 DEF TypedLine
  <2>3. \A n \in DOMAIN file : file[n] \in 0 .. Chunks
      BY ElementOfSeq, LenProperties DEF RestInv
  <2> QED
      BY <2>1, <2>2, <2>3 DEF KTypes, RestInv, CTypeOK, ExitType
<1>3. KInv => KTypes
    BY DEF KInv
<1> QED
    BY <1>1, <1>2, <1>3, RestNext, ConsoleInvariance, PTL DEF Spec

-----------------------------------------------------------------------------
(* The end of a run.                                                       *)

\* The steps the driver has still to go once the deadline has passed, reads that
\* bring nothing not counted.
DriverLeft ==
    CASE pc = "done"                          -> 0
      [] pc \in {"connect", "look", "reparse"} -> 1
      [] pc \in {"nudge", "wait"}              -> 2
      [] pc = "final"                          -> 3
      [] pc = "feed"                           -> 4 + 2 * (Chunks - sent)
      [] pc = "drain"                          -> 5 + 2 * (Chunks - sent)
      [] pc = "reset"                          -> 5 + 2 * Chunks
      [] OTHER                                 -> 6 + 2 * Chunks

QemuLeft == CASE qemu = "absent" -> 2 [] qemu = "up" -> 1 [] OTHER -> 0
BootLeft == CASE guest = "boot" -> 2 [] guest = "login" -> 1 [] OTHER -> 0
RunLeft  == IF script = "runs" THEN 1 ELSE 0

\* The steps the guest and QEMU have still to go if nothing more is typed: a line
\* counts for its own and for the end of the script that it may start.
GuestLeft == QemuLeft + BootLeft + talk + 2 * Len(typed) + RunLeft

\* The driver comes nearer to its end; or it stays where it is, and the guest
\* comes nearer to its own, or less is left to read.
Nearer ==
    \/ DriverLeft' < DriverLeft
    \/ /\ DriverLeft' = DriverLeft
       /\ \/ GuestLeft' < GuestLeft
          \/ GuestLeft' = GuestLeft /\ Len(con') < Len(con)

\* What the counts rest on, of the types.
CountTypes ==
    /\ sent \in 0 .. Chunks /\ Chunks \in Nat
    /\ con \in Seq(0 .. 12) /\ typed \in Seq(TypedLine)
    /\ talk \in 0 .. Chatter /\ Chatter \in Nat
    /\ qemu \in {"absent", "up", "gone"}

\* They are natural numbers.
LEMMA LeftIsCounted ==
    ASSUME CountTypes
    PROVE  /\ DriverLeft \in Nat /\ GuestLeft \in Nat /\ Len(con) \in Nat
           /\ QemuLeft \in Nat /\ BootLeft \in Nat /\ RunLeft \in Nat /\ talk \in Nat
           /\ Len(typed) \in Nat
<1>1. Len(typed) \in Nat /\ Len(con) \in Nat /\ talk \in Nat
    BY LenProperties DEF CountTypes
<1>2. QemuLeft \in Nat /\ BootLeft \in Nat /\ RunLeft \in Nat
    BY DEF QemuLeft, BootLeft, RunLeft
<1>3. DriverLeft \in Nat
  <2>1. 2 * (Chunks - sent) \in Nat /\ Chunks \in Nat
      BY DEF CountTypes
  <2> QED
      BY <2>1 DEF DriverLeft
<1> QED
    BY <1>1, <1>2, <1>3 DEF GuestLeft

\* Past the deadline a step of the driver leads on, or only reads.
LEMMA DriverCounts ==
    ASSUME KTypes, CountTypes, late, DriverStep
    PROVE  late' /\ (Nearer \/ UNCHANGED vars)
<1>0. /\ sent \in 0 .. Chunks /\ Chunks \in Nat
      /\ late' = late
  <2>1. late' = late
      BY DEF DriverStep, Connect, Look, Nudge, NoPrompt, Reset, Feed, Drain, Final,
             SendRaises, Wait, Parse, Reparse, Aside
  <2> QED
      BY <2>1 DEF CountTypes
<1>1. CASE Connect \/ NoPrompt \/ Nudge \/ SendRaises \/ Parse \/ Wait
  <2>1. \/ pc \in {"connect", "look", "nudge", "reset", "final", "feed", "wait"} /\ pc' = "done"
        \/ pc = "nudge" /\ pc' = "look"
        \/ pc = "wait" /\ pc' = "reparse"
      BY <1>1 DEF Connect, NoPrompt, Nudge, SendRaises, Parse, Wait, Skip, Return
  <2>2. DriverLeft' < DriverLeft
      BY <1>0, <2>1 DEF DriverLeft
  <2> QED
      BY <1>0, <2>2 DEF Nearer
<1>2. CASE Look \/ Final
  <2>1. \/ pc = "relook" /\ (pc' = "reset" \/ pc' = "nudge")
        \/ pc = "final" /\ pc' = "wait"
      BY <1>2 DEF Look, Final
  <2>2. DriverLeft' < DriverLeft
      BY <1>0, <2>1 DEF DriverLeft
  <2> QED
      BY <1>0, <2>2 DEF Nearer
<1>3. CASE Reset
  <2>1. pc = "reset" /\ pc' = "feed" /\ sent' = 0
      BY <1>3 DEF Reset
  <2>2. DriverLeft = 5 + 2 * Chunks /\ DriverLeft' = 4 + 2 * (Chunks - 0)
      BY <2>1 DEF DriverLeft
  <2>3. DriverLeft' < DriverLeft
      BY <1>0, <2>2
  <2> QED
      BY <1>0, <2>3 DEF Nearer
<1>4. CASE Feed
  <2>1. /\ pc = "feed"
        /\ \/ pc' = "drain" /\ sent' = sent + 1
           \/ pc' = "final"
      BY <1>4 DEF Feed
  <2>2. /\ DriverLeft = 4 + 2 * (Chunks - sent)
        /\ DriverLeft' = 5 + 2 * (Chunks - (sent + 1)) \/ DriverLeft' = 3
      BY <2>1 DEF DriverLeft
  <2>3. DriverLeft' < DriverLeft
      BY <1>0, <2>2
  <2> QED
      BY <1>0, <2>3 DEF Nearer
<1>5. CASE Drain
  <2>1. pc = "drain" /\ pc' = "feed" /\ sent' = sent
      BY <1>5 DEF Drain
  <2>2. DriverLeft = 5 + 2 * (Chunks - sent) /\ DriverLeft' = 4 + 2 * (Chunks - sent)
      BY <2>1 DEF DriverLeft
  <2>3. DriverLeft' < DriverLeft
      BY <1>0, <2>2
  <2> QED
      BY <1>0, <2>3 DEF Nearer
<1>6. CASE Reparse
  <2>1. pc = "reparse"
      BY <1>6 DEF Reparse
  <2>2. CASE pc' = "done"
    <3>1. DriverLeft' < DriverLeft
        BY <2>1, <2>2 DEF DriverLeft
    <3> QED
        BY <1>0, <3>1 DEF Nearer
  <2>3. CASE pc' # "done"
    <3>1. PICK k \in 0 .. Len(con), connected \in BOOLEAN :
            Pump(k, connected) /\ Read(k) /\ pc' = pc /\ exit' = exit
        BY <1>6, <2>3 DEF Reparse, Skip, Return
    <3>2. /\ qemu' = qemu /\ guest' = guest /\ talk' = talk /\ typed' = typed
          /\ script' = script /\ sent' = sent
        BY <1>6 DEF Reparse, Aside, inside
    <3>3. DriverLeft' = DriverLeft
        BY <2>1, <3>1 DEF DriverLeft
    <3>4. GuestLeft' = GuestLeft
        BY <3>2 DEF GuestLeft, QemuLeft, BootLeft, RunLeft
    <3>5. CASE k = 0
      <4>1. con = <<>> /\ con' = con
          BY <3>1, <3>5 DEF Pump
      <4>2. buf' = buf
        <5>1. SubSeq(con, 1, 0) = <<>>
            BY SubSeqEmpty, 0 < 1, 0 \in Int, 1 \in Int
        <5>2. buf' = buf \o <<>>
            BY <3>1, <3>5, <5>1 DEF Read
        <5> QED
            BY <5>2, ConcatEmptySeq DEF KTypes
      <4>3. UNCHANGED vars
          BY <1>6, <3>1, <4>1, <4>2 DEF Reparse, Aside, vars, driver, inside
      <4> QED
          BY <1>0, <4>3
    <3>6. CASE k # 0
      <4>1. Len(con) \in Nat /\ k \in 1 .. Len(con) /\ con' = SubSeq(con, k + 1, Len(con))
          BY <3>1, <3>6, LenProperties DEF Pump, CountTypes
      <4>2. Len(con') < Len(con)
        <5>1. k + 1 \in Int /\ Len(con) \in Int /\ k + 1 \in 1 .. Len(con) + 1
            BY <4>1
        <5>2. con' \in Seq(0 .. 12) /\ Len(con') = Len(con) - k
            BY <4>1, <5>1, SubSeqProperties DEF CountTypes
        <5> QED
            BY <4>1, <5>2
      <4> QED
          BY <1>0, <3>3, <3>4, <4>2 DEF Nearer
    <3> QED
        BY <3>5, <3>6
  <2> QED
      BY <2>2, <2>3
<1> QED
    BY <1>1, <1>2, <1>3, <1>4, <1>5, <1>6 DEF DriverStep

\* A step of the guest is one less.
LEMMA GuestCounts ==
    ASSUME KTypes, CountTypes, CountTypes', Qemu \/ Chat \/ LogIn \/ Take \/ ScriptEnds
    PROVE  late' = late /\ DriverLeft' = DriverLeft /\ GuestLeft' < GuestLeft
<1>0. /\ QemuLeft \in Nat /\ BootLeft \in Nat /\ RunLeft \in Nat /\ talk \in Nat
      /\ Len(typed) \in Nat
    BY LeftIsCounted
<1>1. late' = late /\ DriverLeft' = DriverLeft
  <2>1. late' = late /\ pc' = pc /\ sent' = sent
      BY DEF Qemu, Chat, LogIn, Take, ScriptEnds, Host, driver
  <2> QED
      BY <2>1 DEF DriverLeft
<1>2. CASE Qemu
  <2>1. QemuLeft' < QemuLeft
      BY <1>2 DEF Qemu, QemuLeft, CountTypes
  <2>2. BootLeft' = BootLeft /\ talk' = talk /\ typed' = typed /\ RunLeft' = RunLeft
      BY <1>2 DEF Qemu, Quiet, inside, BootLeft, RunLeft
  <2>3. QemuLeft' \in Nat
      BY DEF QemuLeft
  <2> QED
      BY <1>0, <1>1, <2>1, <2>2, <2>3 DEF GuestLeft
<1>3. CASE Chat
  <2>1. talk' = talk - 1
      BY <1>3 DEF Chat
  <2>2. QemuLeft' = QemuLeft /\ BootLeft' = BootLeft /\ typed' = typed /\ RunLeft' = RunLeft
      BY <1>3 DEF Chat, inside, QemuLeft, BootLeft, RunLeft
  <2> QED
      BY <1>0, <1>1, <2>1, <2>2 DEF GuestLeft
<1>4. CASE LogIn
  <2>1. BootLeft' < BootLeft
      BY <1>4 DEF LogIn, BootLeft
  <2>2. QemuLeft' = QemuLeft /\ talk' = talk /\ typed' = typed /\ RunLeft' = RunLeft
      BY <1>4 DEF LogIn, inside, QemuLeft, RunLeft
  <2>3. BootLeft' \in Nat
      BY DEF BootLeft
  <2> QED
      BY <1>0, <1>1, <2>1, <2>2, <2>3 DEF GuestLeft
<1>5. CASE Take
  <2>1. Len(typed') = Len(typed) - 1
      BY <1>5, TakeTakes
  <2>2. QemuLeft' = QemuLeft /\ BootLeft' = BootLeft /\ talk' = talk
      BY <1>5 DEF Take, QemuLeft, BootLeft
  <2>3. RunLeft = 0 /\ RunLeft' \in {0, 1}
      BY <1>5 DEF Take, RunLeft
  <2> QED
      BY <1>0, <1>1, <2>1, <2>2, <2>3 DEF GuestLeft
<1>6. CASE ScriptEnds
  <2>1. RunLeft = 1 /\ RunLeft' = 0
      BY <1>6 DEF ScriptEnds, RunLeft
  <2>2. QemuLeft' = QemuLeft /\ BootLeft' = BootLeft /\ talk' = talk /\ typed' = typed
      BY <1>6 DEF ScriptEnds, QemuLeft, BootLeft
  <2> QED
      BY <1>0, <1>1, <2>1, <2>2 DEF GuestLeft
<1> QED
    BY <1>2, <1>3, <1>4, <1>5, <1>6

\* Once the deadline has passed the driver does not go on for ever, DriverEnds's
\* part that needs no fairness: whatever the guest and QEMU do, every step lowers
\* the first it changes of three natural numbers, and the deadline does not come
\* back.
THEOREM DeadlineCounts ==
    Spec => /\ [](DriverLeft \in Nat /\ GuestLeft \in Nat /\ Len(con) \in Nat)
            /\ [][late => late' /\ Nearer]_vars
<1>1. KTypes /\ CTypeOK => CountTypes
    BY ChunksAssumption, ConsoleAssumption DEF KTypes, CTypeOK, CountTypes
<1>2. CountTypes => DriverLeft \in Nat /\ GuestLeft \in Nat /\ Len(con) \in Nat
    BY LeftIsCounted
<1>3. KTypes /\ CountTypes /\ CountTypes' /\ [Next]_vars => [late => late' /\ Nearer]_vars
  <2> SUFFICES ASSUME KTypes, CountTypes, CountTypes', Next, late
               PROVE  (late' /\ Nearer) \/ UNCHANGED vars
      OBVIOUS
  <2>1. CASE DriverStep
      BY <2>1, DriverCounts
  <2>2. CASE Qemu \/ Chat \/ LogIn \/ Take \/ ScriptEnds
      BY <2>2, GuestCounts DEF Nearer
  <2>3. ~Tick
      BY DEF Tick
  <2> QED
      BY <2>1, <2>2, <2>3 DEF Next
<1>4. KInv => KTypes
    BY DEF KInv
<1> QED
    BY <1>1, <1>2, <1>3, <1>4, ConsoleInvariance, ConsoleTypeOK, PTL DEF Spec
===============================================================================
