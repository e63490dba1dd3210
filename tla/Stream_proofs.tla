---------------------------- MODULE Stream_proofs ----------------------------
(***************************************************************************)
(* Proofs about Stream, for every alphabet, every value, streams of any    *)
(* length of each surface.                                                 *)
(*                                                                         *)
(* First loops, texts and channels; then what one event says, and what     *)
(* joining and blanking do to it; then the two loops, followed together as *)
(* the stream grows by an event; and last the invariant, whose three parts *)
(* are Shaped, Faithful and Cut, and the properties it implies.            *)
(***************************************************************************)
EXTENDS Stream, SequenceTheorems, WellFoundedInduction, TLAPS

-----------------------------------------------------------------------------
(* Loops.                                                                  *)

\* A set of numbers that has 0 and, with a number, the next one has them all.
LEMMA Induction ==
  ASSUME NEW S \in SUBSET Nat, 0 \in S, \A n \in S : n + 1 \in S
  PROVE  \A n \in Nat : n \in S
<1>1. IsWellFoundedOn(OpToRel(<, Nat), Nat)
  BY NatLessThanWellFounded
<1>. DEFINE T == Nat \ S
<1>2. SUFFICES ASSUME T # {} PROVE FALSE
  OBVIOUS
<1>3. PICK x \in T : \A y \in T : ~(<<y, x>> \in OpToRel(<, Nat))
  BY <1>1, <1>2, WFMin
<1>4. x # 0 /\ x - 1 \in Nat /\ x - 1 < x /\ (x - 1) + 1 = x
  <2>1. x \in Nat /\ x # 0
    BY <1>3
  <2>. QED
    BY <2>1
<1>5. <<x - 1, x>> \in Nat \X Nat /\ <<x - 1, x>>[1] < <<x - 1, x>>[2]
  BY <1>4
<1>6. <<x - 1, x>> \in OpToRel(<, Nat)
  BY <1>5, Zenon DEF OpToRel
<1>7. QED
  BY <1>3, <1>4, <1>6

\* What the function of a loop is, and what it is up to some element.
IsFold(f, step, base, s) ==
  f = [n \in 0..Len(s) |-> IF n = 0 THEN base ELSE step[f[n - 1]][s[n]]]

Upto(f, m, step, base, s, X) ==
  /\ f \in [0..m -> X] /\ f[0] = base
  /\ \A n \in 1..m : f[n] = step[f[n - 1]][s[n]]

\* There is such a function: a step leaves a state of the loop.
LEMMA FoldExists ==
  ASSUME NEW X, NEW E, NEW step \in [X -> [E -> X]], NEW base \in X, NEW s \in Seq(E)
  PROVE  \E f \in [0..Len(s) -> X] : IsFold(f, step, base, s)
<1>. DEFINE S == {m \in Nat : m <= Len(s) => \E f : Upto(f, m, step, base, s, X)}
<1>1. 0 \in S
  <2>. DEFINE f == [n \in 0..0 |-> base]
  <2>1. Upto(f, 0, step, base, s, X)
    BY DEF Upto
  <2>. QED
    BY <2>1
<1>2. ASSUME NEW m \in S PROVE m + 1 \in S
  <2>1. SUFFICES ASSUME m + 1 <= Len(s) PROVE \E f : Upto(f, m + 1, step, base, s, X)
    BY <1>2
  <2>2. PICK g : Upto(g, m, step, base, s, X)
    BY <1>2, <2>1
  <2>3. s[m + 1] \in E /\ m \in Nat
    BY <1>2, <2>1
  <2>a. g[m] \in X
    BY <2>2, <2>3 DEF Upto
  <2>b. step[g[m]][s[m + 1]] \in X
    BY <2>3, <2>a
  <2>. DEFINE v == step[g[m]][s[m + 1]]
              f == [n \in 0..(m + 1) |-> IF n = m + 1 THEN v ELSE g[n]]
  <2>4. f \in [0..(m + 1) -> X]
    <3>. HIDE DEF v
    <3>. QED
      BY <2>2, <2>3, <2>b DEF Upto, v
  <2>5. f[0] = base
    BY <2>2, <2>3 DEF Upto
  <2>6. ASSUME NEW n \in 1..(m + 1) PROVE f[n] = step[f[n - 1]][s[n]]
    <3>1. CASE n = m + 1
      <4>1. f[n] = v /\ f[n - 1] = g[m]
        BY <2>3, <3>1
      <4>. QED
        BY <4>1, <3>1
    <3>2. CASE n # m + 1
      <4>1. n \in 1..m /\ f[n] = g[n] /\ f[n - 1] = g[n - 1]
        BY <2>3, <3>2
      <4>. QED
        BY <4>1, <2>2 DEF Upto
    <3>. QED
      BY <3>1, <3>2
  <2>7. Upto(f, m + 1, step, base, s, X)
    <3>. HIDE DEF f
    <3>. QED
      BY <2>4, <2>5, <2>6 DEF Upto
  <2>. QED
    BY <2>7
<1>3. Len(s) \in S
  <2>1. S \in SUBSET Nat /\ Len(s) \in Nat
    OBVIOUS
  <2>. HIDE DEF S
  <2>. QED
    BY <1>1, <1>2, <2>1, Induction
<1>4. PICK f : Upto(f, Len(s), step, base, s, X)
  BY <1>3
<1>5. f = [n \in 0..Len(s) |-> f[n]]
  BY <1>4 DEF Upto
<1>6. \A n \in 0..Len(s) : f[n] = IF n = 0 THEN base ELSE step[f[n - 1]][s[n]]
  BY <1>4 DEF Upto
<1>7. IsFold(f, step, base, s)
  BY <1>5, <1>6, Zenon DEF IsFold
<1>. QED
  BY <1>4, <1>7 DEF Upto

\* A step of a loop over elements of E, whose state is in X.
IsStep(step, base, X, E) == step \in [X -> [E -> X]] /\ base \in X

\* A loop over nothing leaves its state alone; one more element is one more step.
LEMMA FoldStep ==
  ASSUME NEW X, NEW E, NEW step, NEW base, IsStep(step, base, X, E)
  PROVE  /\ Folded(step, base, <<>>) = base
         /\ \A s \in Seq(E) : Folded(step, base, s) \in X
         /\ \A s \in Seq(E), e \in E :
              Folded(step, base, Append(s, e)) = step[Folded(step, base, s)][e]
<1>. DEFINE F(s) == CHOOSE f : IsFold(f, step, base, s)
<1>8. step \in [X -> [E -> X]] /\ base \in X
  BY DEF IsStep
<1>0. ASSUME NEW s \in Seq(E) PROVE \E f : IsFold(f, step, base, s)
  BY <1>8, FoldExists, Zenon
<1>1. ASSUME NEW s \in Seq(E) PROVE IsFold(F(s), step, base, s)
  BY <1>0, Zenon
<1>2. ASSUME NEW s \in Seq(E) PROVE Folded(step, base, s) = F(s)[Len(s)]
  BY Zenon DEF Folded, IsFold
<1>. HIDE DEF F
<1>3. ASSUME NEW s \in Seq(E)
      PROVE  /\ F(s)[0] = base
             /\ \A n \in 1..Len(s) : F(s)[n] = step[F(s)[n - 1]][s[n]]
  <2>1. 0 \in 0..Len(s) /\ \A n \in 1..Len(s) : n \in 0..Len(s) /\ n # 0
    OBVIOUS
  <2>. QED
    BY <1>1, <2>1 DEF IsFold
<1>4. ASSUME NEW s \in Seq(E), NEW e \in E
      PROVE  \A n \in 0..Len(s) : F(Append(s, e))[n] = F(s)[n]
  <2>. DEFINE S == {n \in Nat : n <= Len(s) => F(Append(s, e))[n] = F(s)[n]}
  <2>0. Append(s, e) \in Seq(E) /\ Len(Append(s, e)) = Len(s) + 1
        /\ \A n \in 1..Len(s) : Append(s, e)[n] = s[n]
    OBVIOUS
  <2>1. 0 \in S
    BY <1>3, <2>0
  <2>2. ASSUME NEW n \in S PROVE n + 1 \in S
    <3>1. SUFFICES ASSUME n + 1 <= Len(s) PROVE F(Append(s, e))[n + 1] = F(s)[n + 1]
      BY <2>2
    <3>2. /\ n + 1 \in 1..Len(s) /\ n + 1 \in 1..Len(Append(s, e)) /\ (n + 1) - 1 = n
          /\ F(Append(s, e))[n] = F(s)[n]
      BY <2>0, <2>2, <3>1
    <3>3. F(s)[n + 1] = step[F(s)[n]][s[n + 1]]
      BY <1>3, <3>2
    <3>4. F(Append(s, e))[n + 1] = step[F(Append(s, e))[n]][Append(s, e)[n + 1]]
      BY <1>3, <2>0, <3>2
    <3>. QED
      BY <2>0, <3>2, <3>3, <3>4
  <2>3. S \in SUBSET Nat
    OBVIOUS
  <2>. HIDE DEF S
  <2>4. \A n \in Nat : n \in S
    BY <2>1, <2>2, <2>3, Induction
  <2>. QED
    BY <2>4 DEF S
<1>5. ASSUME NEW s \in Seq(E) PROVE F(s)[Len(s)] \in X
  <2>. DEFINE S == {n \in Nat : n <= Len(s) => F(s)[n] \in X}
  <2>2. 0 \in S
    BY <1>3, <1>8
  <2>3. ASSUME NEW n \in S PROVE n + 1 \in S
    <3>1. SUFFICES ASSUME n + 1 <= Len(s) PROVE F(s)[n + 1] \in X
      BY <2>3
    <3>2. n + 1 \in 1..Len(s) /\ (n + 1) - 1 = n /\ F(s)[n] \in X
      BY <2>3, <3>1
    <3>3. s[n + 1] \in E
      BY <3>2
    <3>4. step[F(s)[n]] \in [E -> X]
      BY <1>8, <3>2
    <3>5. F(s)[n + 1] = step[F(s)[n]][s[n + 1]]
      BY <1>3, <3>2
    <3>. QED
      BY <3>3, <3>4, <3>5
  <2>4. S \in SUBSET Nat
    OBVIOUS
  <2>. HIDE DEF S
  <2>5. \A n \in Nat : n \in S
    BY <2>2, <2>3, <2>4, Induction
  <2>. QED
    BY <2>5 DEF S
<1>6. Folded(step, base, <<>>) = base
  <2>1. <<>> \in Seq(E) /\ Len(<<>>) = 0
    OBVIOUS
  <2>. QED
    BY <1>2, <1>3, <2>1
<1>7. ASSUME NEW s \in Seq(E), NEW e \in E
      PROVE  Folded(step, base, Append(s, e)) = step[Folded(step, base, s)][e]
  <2>1. /\ Append(s, e) \in Seq(E) /\ Len(Append(s, e)) = Len(s) + 1
        /\ Append(s, e)[Len(s) + 1] = e /\ Len(s) \in 0..Len(s)
        /\ Len(s) + 1 \in 1..Len(Append(s, e)) /\ (Len(s) + 1) - 1 = Len(s)
    OBVIOUS
  <2>2. F(Append(s, e))[Len(s) + 1] = step[F(Append(s, e))[Len(s)]][e]
    BY <1>3, <2>1
  <2>3. F(Append(s, e))[Len(s)] = F(s)[Len(s)]
    BY <1>4, <2>1
  <2>. QED
    BY <1>2, <2>1, <2>2, <2>3
<1>. QED
  BY <1>2, <1>5, <1>6, <1>7
\* What holds of the empty sequence and, with a sequence, of every longer one by
\* an element holds of all.
LEMMA SeqInduction ==
  ASSUME NEW E, NEW S, <<>> \in S, \A s \in Seq(E), e \in E : s \in S => Append(s, e) \in S
  PROVE  \A s \in Seq(E) : s \in S
<1>. DEFINE N == {n \in Nat : \A s \in Seq(E) : Len(s) = n => s \in S}
<1>1. 0 \in N
  <2>1. \A s \in Seq(E) : Len(s) = 0 => s = <<>>
    OBVIOUS
  <2>. QED
    BY <2>1
<1>2. ASSUME NEW n \in N PROVE n + 1 \in N
  <2>1. SUFFICES ASSUME NEW s \in Seq(E), Len(s) = n + 1 PROVE s \in S
    BY <1>2
  <2>2. s # <<>>
    BY <1>2, <2>1
  <2>3. PICK t \in Seq(E), e \in E : s = Append(t, e)
    BY <2>2, SequenceEmptyOrAppend
  <2>4. Len(t) = n
    BY <1>2, <2>1, <2>3
  <2>. QED
    BY <1>2, <2>3, <2>4
<1>3. N \in SUBSET Nat
  OBVIOUS
<1>4. ASSUME NEW s \in Seq(E) PROVE Len(s) \in N
  <2>. HIDE DEF N
  <2>. QED
    BY <1>1, <1>2, <1>3, Induction
<1>. QED
  BY <1>4

-----------------------------------------------------------------------------
(* Texts and channels.                                                     *)

\* Joining is concatenation.
LEMMA JoinedStep ==
  /\ Joined(<<>>) = <<>>
  /\ \A s \in Seq(Text) : Joined(s) \in Text
  /\ \A s \in Seq(Text), u \in Text : Joined(Append(s, u)) = Joined(s) \o u
<1>. DEFINE step == [t \in Text |-> [u \in Text |-> t \o u]]
<1>1. \A t, u \in Text : t \o u \in Text
  BY ConcatProperties DEF Text
<1>2. step \in [Text -> [Text -> Text]] /\ <<>> \in Text
  BY <1>1 DEF Text
<1>6. IsStep(step, <<>>, Text, Text)
  BY <1>2 DEF IsStep
<1>3. \A s : Joined(s) = Folded(step, <<>>, s)
  BY DEF Joined
<1>4. \A t, u \in Text : step[t][u] = t \o u
  OBVIOUS
<1>. HIDE DEF step
<1>5. /\ Folded(step, <<>>, <<>>) = <<>>
      /\ \A s \in Seq(Text) : Folded(step, <<>>, s) \in Text
      /\ \A s \in Seq(Text), u \in Text :
           Folded(step, <<>>, Append(s, u)) = step[Folded(step, <<>>, s)][u]
  BY <1>6, FoldStep
<1>. QED
  BY <1>3, <1>4, <1>5

\* One text joined, and two sequences of them.
LEMMA JoinedConcat ==
  /\ \A u \in Text : Joined(<<u>>) = u
  /\ \A s, t \in Seq(Text) : Joined(s \o t) = Joined(s) \o Joined(t)
<1>1. ASSUME NEW u \in Text PROVE Joined(<<u>>) = u
  <2>1. <<>> \in Seq(Text) /\ Append(<<>>, u) = <<u>>
    OBVIOUS
  <2>2. <<>> \o u = u
    BY ConcatEmptySeq DEF Text
  <2>. QED
    BY <2>1, <2>2, JoinedStep
<1>2. ASSUME NEW s \in Seq(Text)
      PROVE  \A t \in Seq(Text) : Joined(s \o t) = Joined(s) \o Joined(t)
  <2>. DEFINE S == {t \in Seq(Text) : Joined(s \o t) = Joined(s) \o Joined(t)}
  <2>1. <<>> \in S
    <3>1. <<>> \in Seq(Text) /\ s \o <<>> = s
      BY ConcatEmptySeq
    <3>2. Joined(s) \o <<>> = Joined(s)
      BY JoinedStep, ConcatEmptySeq DEF Text
    <3>. QED
      BY <3>1, <3>2, JoinedStep
  <2>2. ASSUME NEW t \in Seq(Text), NEW u \in Text, t \in S PROVE Append(t, u) \in S
    <3>1. s \o Append(t, u) = Append(s \o t, u) /\ s \o t \in Seq(Text) /\ Append(t, u) \in Seq(Text)
      BY AppendIsConcat, ConcatAssociative, ConcatProperties, AppendProperties
    <3>2. Joined(s \o Append(t, u)) = (Joined(s) \o Joined(t)) \o u
      BY <2>2, <3>1, JoinedStep
    <3>3. (Joined(s) \o Joined(t)) \o u = Joined(s) \o (Joined(t) \o u)
      BY JoinedStep, ConcatAssociative DEF Text
    <3>4. Joined(Append(t, u)) = Joined(t) \o u
      BY JoinedStep
    <3>. QED
      BY <3>1, <3>2, <3>3, <3>4
  <2>. HIDE DEF S
  <2>3. \A t \in Seq(Text) : t \in S
    BY <2>1, <2>2, SeqInduction
  <2>. QED
    BY <2>3 DEF S
<1>. QED
  BY <1>1, <1>2

\* What a sequence holds.
LEMMA Held ==
  ASSUME NEW S, NEW s \in Seq(S)
  PROVE  \A x \in ToSet(s) : x \in S /\ \E i \in 1..Len(s) : x = s[i]
<1>1. DOMAIN s = 1..Len(s) /\ \A i \in 1..Len(s) : s[i] \in S
  OBVIOUS
<1>. QED
  BY <1>1 DEF ToSet

\* What an event says in a channel is a text.
LEMMA PieceIsText ==
  ASSUME NEW e \in Events
  PROVE  /\ \A p \in Pieces(e) : p[2] \in Text
         /\ \A channel : Piece(e, channel) \in Text
<1>1. ASSUME NEW p \in Pieces(e) PROVE p[2] \in Text
  <2>1. CASE e = Other
    BY <2>1 DEF Pieces, Other
  <2>2. ASSUME NEW kind \in {"block", "item"}, e \in Deltas(kind) PROVE p[2] \in Text
    <3>1. e.kind \in {"block", "item"} /\ e.text \in Text
      BY <2>2 DEF Deltas
    <3>. QED
      BY <3>1 DEF Pieces
  <2>3. CASE e \in AllChunks
    <3>1. /\ e.kind = "chunk" /\ e.reasoning \in Seq(Text) /\ e.content \in Seq(Text)
          /\ e.calls \in Seq([index : Nat, args : Text])
      BY <2>3 DEF AllChunks, AtMostOne, Calls
    <3>2. /\ \A t \in ToSet(e.reasoning) : t \in Text
          /\ \A t \in ToSet(e.content) : t \in Text
          /\ \A c \in ToSet(e.calls) : c.args \in Text
      <4>1. \A t \in ToSet(e.reasoning) : t \in Text
        BY <3>1, Held
      <4>2. \A t \in ToSet(e.content) : t \in Text
        BY <3>1, Held
      <4>3. \A c \in ToSet(e.calls) : c \in [index : Nat, args : Text]
        BY <3>1, Held
      <4>. QED
        BY <4>1, <4>2, <4>3
    <3>3. Pieces(e) = {<<<<"chunk", "reasoning", 0>>, t>> : t \in ToSet(e.reasoning)}
            \cup {<<<<"chunk", "content", 0>>, t>> : t \in ToSet(e.content) \ {<<>>}}
            \cup {<<<<"chunk", "call", c.index>>, c.args>> : c \in ToSet(e.calls)}
      BY <3>1 DEF Pieces
    <3>. QED
      BY <3>2, <3>3
  <2>. QED
    BY <2>1, <2>2, <2>3 DEF Events
<1>2. <<>> \in Text
  BY DEF Text
<1>. QED
  BY <1>1, <1>2 DEF Piece

\* The pieces of a channel, event by event.
LEMMA PieceByPiece ==
  ASSUME NEW channel, NEW s \in Seq(Events), NEW t \in Seq(Events)
  PROVE  /\ [i \in DOMAIN s |-> Piece(s[i], channel)] \in Seq(Text)
         /\ [i \in DOMAIN (s \o t) |-> Piece((s \o t)[i], channel)] =
              [i \in DOMAIN s |-> Piece(s[i], channel)] \o [i \in DOMAIN t |-> Piece(t[i], channel)]
<1>. DEFINE P(x) == [i \in DOMAIN x |-> Piece(x[i], channel)]
<1>1. ASSUME NEW x \in Seq(Events)
      PROVE  P(x) \in Seq(Text) /\ Len(P(x)) = Len(x) /\ \A i \in 1..Len(x) : P(x)[i] = Piece(x[i], channel)
  <2>1. DOMAIN x = 1..Len(x) /\ Len(x) \in Nat /\ \A i \in 1..Len(x) : x[i] \in Events
    OBVIOUS
  <2>2. \A i \in 1..Len(x) : Piece(x[i], channel) \in Text
    BY <2>1, PieceIsText
  <2>. QED
    BY <2>1, <2>2
<1>2. /\ s \o t \in Seq(Events) /\ Len(s \o t) = Len(s) + Len(t)
      /\ \A i \in 1..(Len(s) + Len(t)) : (s \o t)[i] = IF i <= Len(s) THEN s[i] ELSE t[i - Len(s)]
  BY ConcatProperties
<1>. HIDE DEF P
<1>3. /\ P(s) \o P(t) \in Seq(Text) /\ Len(P(s) \o P(t)) = Len(s) + Len(t)
      /\ \A i \in 1..(Len(s) + Len(t)) : (P(s) \o P(t))[i] = IF i <= Len(s) THEN P(s)[i] ELSE P(t)[i - Len(s)]
  <2>1. P(s) \in Seq(Text) /\ P(t) \in Seq(Text) /\ Len(P(s)) = Len(s) /\ Len(P(t)) = Len(t)
    BY <1>1
  <2>2. ASSUME NEW a \in Seq(Text), NEW b \in Seq(Text)
        PROVE  /\ a \o b \in Seq(Text) /\ Len(a \o b) = Len(a) + Len(b)
               /\ \A i \in 1..(Len(a) + Len(b)) : (a \o b)[i] = IF i <= Len(a) THEN a[i] ELSE b[i - Len(a)]
    BY ConcatProperties
  <2>3. /\ P(s) \o P(t) \in Seq(Text) /\ Len(P(s) \o P(t)) = Len(P(s)) + Len(P(t))
        /\ \A i \in 1..(Len(P(s)) + Len(P(t))) :
             (P(s) \o P(t))[i] = IF i <= Len(P(s)) THEN P(s)[i] ELSE P(t)[i - Len(P(s))]
    BY <2>1, <2>2, Zenon
  <2>. QED
    BY <2>1, <2>3, Zenon
<1>4. \A i \in 1..(Len(s) + Len(t)) : P(s \o t)[i] = (P(s) \o P(t))[i]
  <2>1. TAKE i \in 1..(Len(s) + Len(t))
  <2>. s \o t \in Seq(Events) /\ Len(s \o t) = Len(s) + Len(t) /\ Len(s) \in Nat /\ Len(t) \in Nat
    BY <1>2
  <2>0. P(s \o t)[i] = Piece((s \o t)[i], channel)
    BY <1>1
  <2>2. CASE i <= Len(s)
    <3>1. i \in 1..Len(s)
      BY <2>2
    <3>. QED
      BY <1>1, <1>2, <1>3, <2>0, <2>2, <3>1
  <2>3. CASE ~(i <= Len(s))
    <3>1. i - Len(s) \in 1..Len(t)
      BY <2>3
    <3>. QED
      BY <1>1, <1>2, <1>3, <2>0, <2>3, <3>1
  <2>. QED
    BY <2>2, <2>3
<1>5. P(s \o t) = P(s) \o P(t)
  <2>1. P(s \o t) \in Seq(Text) /\ Len(P(s \o t)) = Len(s) + Len(t)
    BY <1>1, <1>2
  <2>. QED
    BY <1>3, <1>4, <2>1, SeqEqual
<1>. QED
  BY <1>1, <1>5 DEF P

\* The text of a channel in events one after the other.
LEMMA Saying ==
  ASSUME NEW channel
  PROVE  /\ ChannelText(<<>>, channel) = <<>>
         /\ \A e \in Events : ChannelText(<<e>>, channel) = Piece(e, channel)
         /\ \A s \in Seq(Events) : ChannelText(s, channel) \in Text
         /\ \A s, t \in Seq(Events) :
              ChannelText(s \o t, channel) = ChannelText(s, channel) \o ChannelText(t, channel)
<1>. DEFINE P(x) == [i \in DOMAIN x |-> Piece(x[i], channel)]
<1>0. \A x : ChannelText(x, channel) = Joined(P(x))
  BY DEF ChannelText
<1>1. P(<<>>) = <<>>
  OBVIOUS
<1>2. \A e \in Events : P(<<e>>) = <<Piece(e, channel)>> /\ Piece(e, channel) \in Text
  BY PieceIsText
<1>3. \A s, t \in Seq(Events) : P(s) \in Seq(Text) /\ P(s \o t) = P(s) \o P(t)
  BY PieceByPiece
<1>. HIDE DEF P
<1>4. ChannelText(<<>>, channel) = <<>>
  BY <1>0, <1>1, JoinedStep
<1>5. \A e \in Events : ChannelText(<<e>>, channel) = Piece(e, channel)
  BY <1>0, <1>2, JoinedConcat
<1>6. \A s \in Seq(Events) : ChannelText(s, channel) \in Text
  BY <1>0, <1>3, JoinedStep
<1>7. ASSUME NEW s \in Seq(Events), NEW t \in Seq(Events)
      PROVE  ChannelText(s \o t, channel) = ChannelText(s, channel) \o ChannelText(t, channel)
  <2>1. P(s) \in Seq(Text) /\ P(t) \in Seq(Text) /\ P(s \o t) = P(s) \o P(t)
    BY <1>3
  <2>2. Joined(P(s) \o P(t)) = Joined(P(s)) \o Joined(P(t))
    BY <2>1, JoinedConcat
  <2>. QED
    <3>1. /\ ChannelText(s, channel) = Joined(P(s)) /\ ChannelText(t, channel) = Joined(P(t))
          /\ ChannelText(s \o t, channel) = Joined(P(s \o t))
      BY <1>0, Zenon
    <3>2. Joined(P(s \o t)) = Joined(P(s) \o P(t))
      BY <2>1, Zenon
    <3>. QED
      BY <2>2, <3>1, <3>2, Zenon
<1>. QED
  BY <1>4, <1>5, <1>6, <1>7

\* The channels of events one after the other.
LEMMA Speaking ==
  /\ Channels(<<>>) = {}
  /\ \A e : Channels(<<e>>) = {p[1] : p \in Pieces(e)}
  /\ \A s, t \in Seq(Events) : Channels(s \o t) = Channels(s) \cup Channels(t)
<1>1. Channels(<<>>) = {}
  BY DEF Channels
<1>2. ASSUME NEW e PROVE Channels(<<e>>) = {p[1] : p \in Pieces(e)}
  BY DEF Channels
<1>3. ASSUME NEW s \in Seq(Events), NEW t \in Seq(Events)
      PROVE  Channels(s \o t) = Channels(s) \cup Channels(t)
  <2>. DEFINE C(e) == {p[1] : p \in Pieces(e)}
  <2>1. /\ DOMAIN s = 1..Len(s) /\ DOMAIN t = 1..Len(t) /\ Len(s) \in Nat /\ Len(t) \in Nat
        /\ DOMAIN (s \o t) = 1..(Len(s) + Len(t))
        /\ \A i \in 1..Len(s) : (s \o t)[i] = s[i]
        /\ \A i \in 1..Len(t) : (s \o t)[Len(s) + i] = t[i]
    OBVIOUS
  <2>2. \A x : Channels(x) = UNION {C(x[i]) : i \in DOMAIN x}
    BY DEF Channels
  <2>. HIDE DEF C
  <2>3. \A c : c \in Channels(s \o t) <=> \E i \in 1..(Len(s) + Len(t)) : c \in C((s \o t)[i])
    BY <2>1, <2>2
  <2>4. \A c : c \in Channels(s) <=> \E i \in 1..Len(s) : c \in C(s[i])
    BY <2>1, <2>2
  <2>5. \A c : c \in Channels(t) <=> \E i \in 1..Len(t) : c \in C(t[i])
    BY <2>1, <2>2
  <2>6. ASSUME NEW c \in Channels(s \o t) PROVE c \in Channels(s) \cup Channels(t)
    <3>1. PICK i \in 1..(Len(s) + Len(t)) : c \in C((s \o t)[i])
      BY <2>3, <2>6
    <3>2. CASE i <= Len(s)
      BY <2>1, <2>4, <3>1, <3>2
    <3>3. CASE ~(i <= Len(s))
      <4>1. i - Len(s) \in 1..Len(t) /\ Len(s) + (i - Len(s)) = i
        BY <2>1, <3>3
      <4>. QED
        BY <2>1, <2>5, <3>1, <4>1
    <3>. QED
      BY <3>2, <3>3
  <2>7. ASSUME NEW c \in Channels(s) PROVE c \in Channels(s \o t)
    <3>1. PICK i \in 1..Len(s) : c \in C(s[i])
      BY <2>4, <2>7
    <3>2. i \in 1..(Len(s) + Len(t))
      BY <2>1
    <3>. QED
      BY <2>1, <2>3, <3>1, <3>2
  <2>8. ASSUME NEW c \in Channels(t) PROVE c \in Channels(s \o t)
    <3>1. PICK i \in 1..Len(t) : c \in C(t[i])
      BY <2>5, <2>8
    <3>2. Len(s) + i \in 1..(Len(s) + Len(t))
      BY <2>1
    <3>. QED
      BY <2>1, <2>3, <3>1, <3>2
  <2>. QED
    BY <2>6, <2>7, <2>8
<1>. QED
  BY <1>1, <1>2, <1>3

\* Two sequences of events that say the same.
SayTheSame(s, t) ==
  /\ Channels(s) = Channels(t)
  /\ \A channel : ChannelText(s, channel) = ChannelText(t, channel)

\* A client has the same of them, and of what follows each of them.
LEMMA SayingTheSame ==
  /\ \A s, t : SayTheSame(s, t) => Had(s) = Had(t)
  /\ \A s, t, u \in Seq(Events) : SayTheSame(s, t) => SayTheSame(s \o u, t \o u)
  /\ \A s, t, u \in Seq(Events) : SayTheSame(s, t) => SayTheSame(u \o s, u \o t)
<1>1. ASSUME NEW s, NEW t, SayTheSame(s, t) PROVE Had(s) = Had(t)
  BY <1>1 DEF SayTheSame, Had
<1>2. ASSUME NEW s \in Seq(Events), NEW t \in Seq(Events), NEW u \in Seq(Events), SayTheSame(s, t)
      PROVE  SayTheSame(s \o u, t \o u) /\ SayTheSame(u \o s, u \o t)
  <2>1. /\ Channels(s \o u) = Channels(t \o u) /\ Channels(u \o s) = Channels(u \o t)
    <3>1. /\ Channels(s \o u) = Channels(s) \cup Channels(u)
          /\ Channels(t \o u) = Channels(t) \cup Channels(u)
          /\ Channels(u \o s) = Channels(u) \cup Channels(s)
          /\ Channels(u \o t) = Channels(u) \cup Channels(t)
      BY Speaking, Zenon
    <3>. QED
      BY <1>2, <3>1, Zenon DEF SayTheSame
  <2>2. ASSUME NEW c PROVE /\ ChannelText(s \o u, c) = ChannelText(t \o u, c)
                           /\ ChannelText(u \o s, c) = ChannelText(u \o t, c)
    <3>1. ChannelText(s, c) = ChannelText(t, c)
      BY <1>2 DEF SayTheSame
    <3>2. /\ ChannelText(s \o u, c) = ChannelText(s, c) \o ChannelText(u, c)
          /\ ChannelText(t \o u, c) = ChannelText(t, c) \o ChannelText(u, c)
          /\ ChannelText(u \o s, c) = ChannelText(u, c) \o ChannelText(s, c)
          /\ ChannelText(u \o t, c) = ChannelText(u, c) \o ChannelText(t, c)
      BY Saying
    <3>. QED
      BY <3>1, <3>2
  <2>. QED
    BY <2>1, <2>2 DEF SayTheSame
<1>. QED
  BY <1>1, <1>2

-----------------------------------------------------------------------------
(* Replacing a value.                                                      *)

Letter == Letters \cup {"#"}
OneValue(values) == values \in {{}, {Value}}

\* Where a value is, letter by letter.
IsAt(text, value, i) == \A j \in 1..Len(value) : text[i + j - 1] = value[j]

\* ... it is held.
LEMMA HoldsAt ==
  ASSUME NEW text \in Text, NEW value \in Text
  PROVE  Holds(text, value) <=> \E i \in 1..(Len(text) - Len(value) + 1) : IsAt(text, value, i)
<1>1. ASSUME NEW i \in 1..(Len(text) - Len(value) + 1)
      PROVE  SubSeq(text, i, i + Len(value) - 1) = value <=> IsAt(text, value, i)
  <2>. DEFINE part == SubSeq(text, i, i + Len(value) - 1)
  <2>1. /\ Len(text) \in Nat /\ Len(value) \in Nat /\ i \in Int /\ i + Len(value) - 1 \in Int
        /\ \A k \in i..(i + Len(value) - 1) : text[k] \in Letter
    BY DEF Text, Letter
  <2>2. /\ part \in Seq(Letter)
        /\ Len(part) = Len(value)
        /\ \A j \in 1..Len(value) : part[j] = text[i + j - 1]
    <3>1. /\ part \in Seq(Letter)
          /\ Len(part) = IF i <= i + Len(value) - 1 THEN (i + Len(value) - 1) - i + 1 ELSE 0
          /\ \A j \in 1..((i + Len(value) - 1) - i + 1) : part[j] = text[i + j - 1]
      BY <2>1, SubSeqProperties
    <3>2. (i + Len(value) - 1) - i + 1 = Len(value)
      BY <2>1
    <3>. HIDE DEF part
    <3>. QED
      BY <2>1, <3>1, <3>2
  <2>. HIDE DEF part
  <2>3. value \in Seq(Letter)
    BY DEF Text, Letter
  <2>4. ASSUME IsAt(text, value, i) PROVE part = value
    BY <2>2, <2>3, <2>4, SeqEqual DEF IsAt
  <2>5. ASSUME part = value PROVE IsAt(text, value, i)
    BY <2>2, <2>5 DEF IsAt
  <2>. QED
    BY <2>4, <2>5 DEF part
<1>. QED
  BY <1>1 DEF Holds

\* What a text holds, a text of which it is part holds too.
LEMMA HoldsOn ==
  ASSUME NEW a \in Text, NEW b \in Text, NEW value \in Text,
         Holds(a, value) \/ Holds(b, value)
  PROVE  Holds(a \o b, value)
<1>1. /\ a \o b \in Text /\ Len(a \o b) = Len(a) + Len(b)
      /\ Len(a) \in Nat /\ Len(b) \in Nat /\ Len(value) \in Nat
      /\ \A i \in 1..Len(a) : (a \o b)[i] = a[i]
      /\ \A i \in 1..Len(b) : (a \o b)[Len(a) + i] = b[i]
  BY DEF Text
<1>. DEFINE c == a \o b
<1>. HIDE DEF c
<1>2. CASE Holds(a, value)
  <2>1. PICK i \in 1..(Len(a) - Len(value) + 1) : IsAt(a, value, i)
    BY <1>2, HoldsAt
  <2>2. i \in 1..(Len(c) - Len(value) + 1)
    BY <1>1, <2>1 DEF c
  <2>3. \A j \in 1..Len(value) : i + j - 1 \in 1..Len(a)
    BY <1>1, <2>1
  <2>4. IsAt(c, value, i)
    BY <1>1, <2>1, <2>3 DEF IsAt, c
  <2>. QED
    BY <1>1, <2>2, <2>4, HoldsAt DEF c
<1>3. CASE Holds(b, value)
  <2>1. PICK i \in 1..(Len(b) - Len(value) + 1) : IsAt(b, value, i)
    BY <1>3, HoldsAt
  <2>2. Len(a) + i \in 1..(Len(c) - Len(value) + 1)
    BY <1>1, <2>1 DEF c
  <2>3. \A j \in 1..Len(value) : i + j - 1 \in 1..Len(b) /\ (Len(a) + i) + j - 1 = Len(a) + (i + j - 1)
    BY <1>1, <2>1
  <2>4. IsAt(c, value, Len(a) + i)
    BY <1>1, <2>1, <2>3 DEF IsAt, c
  <2>. QED
    BY <1>1, <2>2, <2>4, HoldsAt DEF c
<1>. QED
  BY <1>2, <1>3

\* A text that ends in a value holds it.
LEMMA SuffixHeld ==
  ASSUME NEW text \in Text, NEW value \in Text, IsSuffix(value, text)
  PROVE  Holds(text, value)
<1>. DEFINE n == Len(text)
            m == Len(value)
<1>1. n \in Nat /\ m \in Nat
  BY DEF Text
<1>2. /\ Len(Reverse(text)) = n /\ Len(Reverse(value)) = m
      /\ Reverse(text) \in Seq(Letter) /\ Reverse(value) \in Seq(Letter)
      /\ \A j \in 1..n : Reverse(text)[j] = text[n - j + 1]
      /\ \A j \in 1..m : Reverse(value)[j] = value[m - j + 1]
  <2>1. \A j \in 1..n : n - j + 1 \in 1..n /\ text[n - j + 1] \in Letter
    BY DEF Text, Letter
  <2>2. \A j \in 1..m : m - j + 1 \in 1..m /\ value[m - j + 1] \in Letter
    BY DEF Text, Letter
  <2>. QED
    BY <1>1, <2>1, <2>2 DEF Reverse
<1>3. m <= n /\ SubSeq(Reverse(value), 1, m) = SubSeq(Reverse(text), 1, m)
  BY <1>2 DEF IsSuffix, IsPrefix
<1>4. /\ \A j \in 1..m : SubSeq(Reverse(value), 1, m)[j] = Reverse(value)[j]
      /\ \A j \in 1..m : SubSeq(Reverse(text), 1, m)[j] = Reverse(text)[j]
  <2>1. \A i \in 1..m : Reverse(value)[i] \in Letter /\ Reverse(text)[i] \in Letter
    BY <1>1, <1>2, <1>3
  <2>2. \A j \in 1..m : j \in 1..(m - 1 + 1) /\ 1 + j - 1 = j
    BY <1>1
  <2>3. \A j \in 1..(m - 1 + 1) : SubSeq(Reverse(value), 1, m)[j] = Reverse(value)[1 + j - 1]
    BY <1>1, <2>1, SubSeqProperties
  <2>4. \A j \in 1..(m - 1 + 1) : SubSeq(Reverse(text), 1, m)[j] = Reverse(text)[1 + j - 1]
    BY <1>1, <2>1, SubSeqProperties
  <2>. QED
    BY <2>2, <2>3, <2>4
<1>5. \A j \in 1..m : value[m - j + 1] = text[n - j + 1]
  BY <1>1, <1>2, <1>3, <1>4
<1>6. ASSUME NEW j \in 1..m PROVE text[(n - m + 1) + j - 1] = value[j]
  <2>1. /\ m - j + 1 \in 1..m /\ m - (m - j + 1) + 1 = j
        /\ n - (m - j + 1) + 1 = (n - m + 1) + j - 1
    BY <1>1, <1>3
  <2>. QED
    BY <1>5, <2>1
<1>7. n - m + 1 \in 1..(n - m + 1) /\ IsAt(text, value, n - m + 1)
  BY <1>1, <1>3, <1>6 DEF IsAt
<1>. QED
  BY <1>7, HoldsAt

\* Replacing, letter by letter: something is left, as it was while no value is.
LEMMA BlankLetter ==
  ASSUME NEW values, OneValue(values)
  PROVE  /\ Blank(<<>>, values) = <<>>
         /\ \A t \in Text : Blank(t, values) \in Text
         /\ \A t \in Text, c \in Letter :
              /\ Blank(Append(t, c), values) # <<>>
              /\ (\A v \in values : ~IsSuffix(v, Append(Blank(t, values), c))) =>
                   Blank(Append(t, c), values) = Append(Blank(t, values), c)
<1>. DEFINE step == BlankStep(values)
            Found(longer) == \E v \in values : IsSuffix(v, longer)
            Cut(longer) == LET v == CHOOSE x \in values : IsSuffix(x, longer)
                           IN Append(SubSeq(longer, 1, Len(longer) - Len(v)), "#")
<1>1. ASSUME NEW t \in Text, NEW c \in Letter
      PROVE  /\ step[t][c] \in Text /\ step[t][c] # <<>>
             /\ ~Found(Append(t, c)) => step[t][c] = Append(t, c)
  <2>. DEFINE longer == Append(t, c)
  <2>1. step[t][c] = IF Found(longer) THEN Cut(longer) ELSE longer
    BY DEF BlankStep, Letter
  <2>2. longer \in Seq(Letter) /\ longer # <<>> /\ Len(longer) \in Nat
    BY DEF Text, Letter
  <2>3. CASE Found(longer)
    <3>. DEFINE v == CHOOSE x \in values : IsSuffix(x, longer)
                cut == SubSeq(longer, 1, Len(longer) - Len(v))
    <3>1. v \in values
      BY <2>3
    <3>2. v = Value /\ Len(v) \in Nat
      BY <3>1, StreamAssumption DEF OneValue
    <3>. HIDE DEF v
    <3>3. /\ 1 \in Int /\ Len(longer) - Len(v) \in Int
          /\ \A i \in 1..(Len(longer) - Len(v)) : longer[i] \in Letter
      BY <2>2, <3>2
    <3>4. cut \in Seq(Letter)
      BY <3>3, SubSeqProperties
    <3>. HIDE DEF cut
    <3>5. "#" \in Letter
      BY DEF Letter
    <3>6. Append(cut, "#") \in Seq(Letter) /\ Append(cut, "#") # <<>>
      BY <3>4, <3>5, AppendProperties
    <3>7. step[t][c] = Append(cut, "#")
      BY <2>1, <2>3 DEF cut, v
    <3>. QED
      BY <2>3, <3>6, <3>7 DEF Text, Letter
  <2>4. CASE ~Found(longer)
    BY <2>1, <2>2, <2>4 DEF Text, Letter
  <2>. QED
    BY <2>3, <2>4
<1>2. step \in [Text -> [Letter -> Text]]
  <2>1. \A t \in Text : step[t] = [c \in Letter |-> step[t][c]]
    BY DEF BlankStep, Letter
  <2>2. step = [t \in Text |-> step[t]]
    BY DEF BlankStep
  <2>. HIDE DEF step
  <2>3. \A t \in Text : step[t] \in [Letter -> Text]
    BY <1>1, <2>1
  <2>. QED
    BY <2>2, <2>3
<1>. HIDE DEF step, Found, Cut
<1>3. <<>> \in Text /\ Text = Seq(Letter)
  BY DEF Text, Letter
<1>4. \A t : Blank(t, values) = Folded(step, <<>>, t)
  BY DEF Blank, step
<1>7. IsStep(step, <<>>, Text, Letter)
  BY <1>2, <1>3 DEF IsStep
<1>5. /\ Folded(step, <<>>, <<>>) = <<>>
      /\ \A t \in Text : Folded(step, <<>>, t) \in Text
      /\ \A t \in Text, c \in Letter :
           Folded(step, <<>>, Append(t, c)) = step[Folded(step, <<>>, t)][c]
  BY <1>3, <1>7, FoldStep
<1>6. ASSUME NEW t \in Text, NEW c \in Letter
      PROVE  /\ Blank(Append(t, c), values) # <<>>
             /\ (\A v \in values : ~IsSuffix(v, Append(Blank(t, values), c))) =>
                  Blank(Append(t, c), values) = Append(Blank(t, values), c)
  <2>1. Blank(t, values) \in Text /\ Blank(Append(t, c), values) = step[Blank(t, values)][c]
    BY <1>4, <1>5
  <2>. QED
    BY <1>1, <2>1 DEF Found
<1>. QED
  BY <1>4, <1>5, <1>6

\* A text that holds no value stays as it is, and one that is not empty stays so.
LEMMA BlankOfNothing ==
  ASSUME NEW values, OneValue(values), NEW text \in Text
  PROVE  /\ (\A v \in values : ~Holds(text, v)) => Blank(text, values) = text
         /\ text # <<>> => Blank(text, values) # <<>>
<1>. DEFINE S == {t \in Text : (\A v \in values : ~Holds(t, v)) => Blank(t, values) = t}
<1>1. <<>> \in S
  BY BlankLetter DEF Text
<1>2. \A v \in values : v \in Text
  BY StreamAssumption DEF OneValue, Text
<1>3. ASSUME NEW t \in Seq(Letter), NEW c \in Letter, t \in S PROVE Append(t, c) \in S
  <2>1. t \in Text /\ <<c>> \in Text /\ Append(t, c) \in Text /\ Append(t, c) = t \o <<c>>
    BY DEF Text, Letter
  <2>2. SUFFICES ASSUME \A v \in values : ~Holds(Append(t, c), v)
                 PROVE  Blank(Append(t, c), values) = Append(t, c)
    BY <2>1
  <2>3. \A v \in values : ~Holds(t, v)
    BY <1>2, <2>1, <2>2, HoldsOn
  <2>4. Blank(t, values) = t
    BY <1>3, <2>3
  <2>5. \A v \in values : ~IsSuffix(v, Append(t, c))
    BY <1>2, <2>1, <2>2, SuffixHeld
  <2>6. \A v \in values : ~IsSuffix(v, Append(Blank(t, values), c))
    BY <2>4, <2>5
  <2>7. Blank(Append(t, c), values) = Append(Blank(t, values), c)
    BY <2>1, <2>6, BlankLetter
  <2>. QED
    BY <2>4, <2>7
<1>4. Text = Seq(Letter)
  BY DEF Text, Letter
<1>5. text \in S
  <2>. HIDE DEF S
  <2>. QED
    BY <1>1, <1>3, <1>4, SeqInduction
<1>6. ASSUME text # <<>> PROVE Blank(text, values) # <<>>
  <2>1. PICK t \in Seq(Letter), c \in Letter : text = Append(t, c)
    BY <1>4, <1>6, SequenceEmptyOrAppend
  <2>. QED
    BY <1>4, <2>1, BlankLetter
<1>. QED
  BY <1>5, <1>6

-----------------------------------------------------------------------------
(* Events.                                                                 *)

\* The channel of a fragment that is gathered, and of a piece of the answer.
ToolChannel(e) == IF e.kind = "chunk" THEN ToolKey(e) ELSE <<e.kind, e.field, e.index>>
TextChannel(e) == IF e.kind = "chunk" THEN <<"chunk", "content", 0>> ELSE <<e.kind, e.field, e.index>>

\* An event that says one text in one channel, and at which nobody acts.
Says(e, channel, text) ==
  e \in Events /\ ~IsMark(e) /\ Pieces(e) = {<<channel, text>>}

\* ... it says nothing in any other.
LEMMA SaysOne ==
  ASSUME NEW e, NEW channel, NEW text, Says(e, channel, text)
  PROVE  \A c : Piece(e, c) = IF c = channel THEN text ELSE <<>>
<1>. TAKE c
<1>. DEFINE p == <<channel, text>>
<1>1. Pieces(e) = {p} /\ p[1] = channel /\ p[2] = text
  BY DEF Says
<1>. HIDE DEF p
<1>2. CASE c = channel
  <2>1. (CHOOSE q \in Pieces(e) : q[1] = c) = p
    BY <1>1, <1>2
  <2>. QED
    BY <1>1, <1>2, <2>1 DEF Piece
<1>3. CASE c # channel
  <2>1. ~\E q \in Pieces(e) : q[1] = c
    BY <1>1, <1>3
  <2>. QED
    BY <1>3, <2>1 DEF Piece
<1>. QED
  BY <1>2, <1>3

\* A delta, of a block or of an item, and what is made of it.
LEMMA DeltaSays ==
  ASSUME NEW kind \in {"block", "item"}, NEW e \in Deltas(kind), NEW text \in Text
  PROVE  /\ Says(e, <<kind, e.field, e.index>>, e.text) /\ e.text \in Text
         /\ Says([e EXCEPT !.text = text], <<kind, e.field, e.index>>, text)
         /\ [e EXCEPT !.text = text] \in Deltas(kind)
<1>1. ASSUME NEW d \in Deltas(kind) PROVE Says(d, <<kind, d.field, d.index>>, d.text)
  <2>1. d.kind = kind /\ kind # "chunk" /\ kind # "other"
    BY DEF Deltas
  <2>2. d \in Events
    BY DEF Events
  <2>. QED
    BY <2>1, <2>2 DEF Says, IsMark, Pieces
<1>. DEFINE w == [e EXCEPT !.text = text]
<1>2. w \in Deltas(kind) /\ w.field = e.field /\ w.index = e.index /\ w.text = text /\ e.text \in Text
  BY DEF Deltas
<1>. HIDE DEF w
<1>3. Says(w, <<kind, e.field, e.index>>, text)
  BY <1>1, <1>2
<1>. QED
  BY <1>1, <1>2, <1>3 DEF w

\* A chunk that is no end and has one thing: reasoning, or a call.
LEMMA ChunkSays ==
  ASSUME NEW e \in AllChunks, ~e.finish, e.content \in {<<>>, <<<<>>>>}
  PROVE  /\ e.calls = <<>> => \A t \in Text : e.reasoning = <<t>> => Says(e, <<"chunk", "reasoning", 0>>, t)
         /\ e.reasoning = <<>> =>
              \A i \in Nat, t \in Text :
                e.calls = <<Call(i, t)>> => Says(e, <<"chunk", "call", i>>, t)
<1>1. /\ e.kind = "chunk" /\ e \in Events
  BY DEF AllChunks, Events
<1>2. ToSet(e.content) \ {<<>>} = {}
  BY DEF ToSet
<1>3. Pieces(e) = {<<<<"chunk", "reasoning", 0>>, t>> : t \in ToSet(e.reasoning)}
            \cup {<<<<"chunk", "call", c.index>>, c.args>> : c \in ToSet(e.calls)}
  BY <1>1, <1>2 DEF Pieces
<1>4. ~IsMark(e)
  BY <1>1 DEF IsMark
<1>5. \A x : ToSet(<<x>>) = {x}
  BY DEF ToSet
<1>6. ToSet(<<>>) = {}
  BY DEF ToSet
<1>7. ASSUME e.calls = <<>>, NEW t \in Text, e.reasoning = <<t>>
      PROVE  Says(e, <<"chunk", "reasoning", 0>>, t)
  <2>1. ToSet(e.reasoning) = {t} /\ ToSet(e.calls) = {}
    BY <1>5, <1>6, <1>7
  <2>. QED
    BY <1>1, <1>3, <1>4, <2>1 DEF Says
<1>8. ASSUME e.reasoning = <<>>, NEW i \in Nat, NEW t \in Text, e.calls = <<Call(i, t)>>
      PROVE  Says(e, <<"chunk", "call", i>>, t)
  <2>1. ToSet(e.calls) = {Call(i, t)} /\ ToSet(e.reasoning) = {}
    BY <1>5, <1>6, <1>8
  <2>2. Call(i, t).index = i /\ Call(i, t).args = t
    BY DEF Call
  <2>. QED
    BY <1>1, <1>3, <1>4, <2>1, <2>2 DEF Says
<1>. QED
  BY <1>7, <1>8

\* The events of a provider, of whose chunks those that are joined carry nothing else.
Sent(E) == E \in {Blocks, Items, Chunks} /\ ChunksAlone

\* ... which are events of its one kind, or others.
LEMMA SentEvents ==
  ASSUME NEW E, Sent(E)
  PROVE  /\ \A e \in E : \/ E = Blocks /\ e \in Deltas("block") /\ e.kind = "block"
                         \/ E = Items /\ e \in Deltas("item") /\ e.kind = "item"
                         \/ E = Chunks /\ e \in AllChunks /\ e.kind = "chunk"
         /\ E \cup {Other} \subseteq Events
         /\ Other \in Events /\ ~IsToolFragment(Other) /\ ~IsTextFragment(Other)
<1>1. \A e \in Deltas("block") : e.kind = "block"
  BY DEF Deltas
<1>2. \A e \in Deltas("item") : e.kind = "item"
  BY DEF Deltas
<1>3. \A e \in AllChunks : e.kind = "chunk"
  BY DEF AllChunks
<1>4. Blocks \subseteq Deltas("block") /\ Items \subseteq Deltas("item") /\ Chunks \subseteq AllChunks
  BY StreamAssumption
<1>5. Events = {Other} \cup Deltas("block") \cup Deltas("item") \cup AllChunks
  BY DEF Events
<1>6. Other \in Events /\ ~IsToolFragment(Other) /\ ~IsTextFragment(Other)
  <2>1. Other.kind = "other"
    BY DEF Other
  <2>. QED
    BY <1>5, <2>1 DEF IsToolFragment, IsTextFragment
<1>7. E = Blocks \/ E = Items \/ E = Chunks
  BY DEF Sent
<1>. QED
  BY <1>1, <1>2, <1>3, <1>4, <1>5, <1>6, <1>7

\* A sequence of one.
LEMMA OneOf ==
  ASSUME NEW S, NEW s \in Seq(S), s # <<>>, Len(s) <= 1
  PROVE  s = <<s[1]>> /\ s[1] \in S
<1>0. Len(s) = 1
  <2>1. Len(s) \in Nat /\ Len(s) # 0
    OBVIOUS
  <2>2. \A n \in Nat : n # 0 /\ n <= 1 => n = 1
    OBVIOUS
  <2>. QED
    BY <2>1, <2>2, Zenon
<1>1. Len(s) = 1 /\ s[1] \in S
  BY <1>0
<1>2. <<s[1]>> \in Seq(S) /\ Len(<<s[1]>>) = 1 /\ \A i \in 1..1 : <<s[1]>>[i] = s[i]
  BY <1>1
<1>. DEFINE t == <<s[1]>>
<1>3. t \in Seq(S) /\ Len(t) = Len(s) /\ \A i \in 1..Len(s) : t[i] = s[i]
  BY <1>1, <1>2
<1>. HIDE DEF t
<1>4. t = s
  BY <1>3, SeqEqual
<1>. QED
  BY <1>1, <1>4 DEF t

\* A fragment that is gathered says its text, and the joined text in its place.
LEMMA ToolSays ==
  ASSUME NEW E, Sent(E), NEW e \in E, IsToolFragment(e), NEW text \in Text
  PROVE  /\ ToolText(e) \in Text /\ Says(e, ToolChannel(e), ToolText(e)) /\ ~IsTextFragment(e)
         /\ Says(WithToolText(e, text), ToolChannel(e), text) /\ ~IsTextFragment(WithToolText(e, text))
<1>. DEFINE w == WithToolText(e, text)
<1>1. ASSUME NEW kind \in {"block", "item"}, e \in Deltas(kind)
      PROVE  /\ ToolText(e) \in Text /\ Says(e, ToolChannel(e), ToolText(e)) /\ ~IsTextFragment(e)
             /\ Says(w, ToolChannel(e), text) /\ ~IsTextFragment(w)
  <2>1. e.kind = kind /\ kind # "chunk" /\ e.field # "text"
    BY <1>1 DEF Deltas, IsToolFragment
  <2>2. w = [e EXCEPT !.text = text] /\ ToolText(e) = e.text /\ ToolChannel(e) = <<kind, e.field, e.index>>
    BY <2>1 DEF WithToolText, ToolText, ToolChannel
  <2>3. w.kind = kind /\ w.field = e.field
    BY <1>1, <2>1, <2>2 DEF Deltas
  <2>4. ~IsTextFragment(e) /\ ~IsTextFragment(w)
    BY <2>1, <2>3 DEF IsTextFragment
  <2>. HIDE DEF w
  <2>. QED
    BY <1>1, <2>2, <2>4, DeltaSays
<1>2. ASSUME E = Chunks, e \in AllChunks, e.kind = "chunk"
      PROVE  /\ ToolText(e) \in Text /\ Says(e, ToolChannel(e), ToolText(e)) /\ ~IsTextFragment(e)
             /\ Says(w, ToolChannel(e), text) /\ ~IsTextFragment(w)
  <2>1. /\ ~e.finish /\ (e.calls = <<>> \/ e.reasoning = <<>>)
        /\ IsTextFragment(e) => e.reasoning = <<>>
    BY <1>2 DEF Sent, ChunksAlone
  <2>2. /\ e.content \in {<<>>, <<<<>>>>}
        /\ Len(e.calls) = 1 \/ (e.calls = <<>> /\ e.reasoning # <<>>)
    BY <1>2 DEF IsToolFragment
  <2>3. /\ e.reasoning \in Seq(Text) /\ Len(e.reasoning) <= 1
        /\ e.calls \in Seq([index : Nat, args : Text])
    BY <1>2 DEF AllChunks, AtMostOne, Calls
  <2>4. CASE e.calls = <<>>
    <3>0. e.reasoning # <<>>
      BY <2>2, <2>4
    <3>1. e.reasoning # <<>> /\ e.reasoning = <<e.reasoning[1]>> /\ e.reasoning[1] \in Text
      BY <2>3, <3>0, OneOf
    <3>2. ~IsTextFragment(e) /\ e.content = <<>>
      BY <1>2, <2>1, <2>2, <2>4, <3>1 DEF IsTextFragment
    <3>3. /\ ToolText(e) = e.reasoning[1] /\ ToolChannel(e) = <<"chunk", "reasoning", 0>>
          /\ w = [e EXCEPT !.reasoning = <<text>>]
      BY <1>2, <2>4 DEF ToolText, ToolChannel, ToolKey, WithToolText
    <3>4. <<text>> \in AtMostOne(Text)
      BY DEF AtMostOne
    <3>5. /\ w \in AllChunks /\ w.kind = "chunk" /\ ~w.finish /\ w.content = <<>> /\ w.calls = <<>>
          /\ w.reasoning = <<text>>
      BY <1>2, <2>1, <2>4, <3>2, <3>3, <3>4 DEF AllChunks
    <3>. HIDE DEF w
    <3>6. Says(e, <<"chunk", "reasoning", 0>>, e.reasoning[1])
      BY <1>2, <2>1, <2>2, <2>4, <3>1, ChunkSays
    <3>7. Says(w, <<"chunk", "reasoning", 0>>, text)
      BY <3>5, ChunkSays
    <3>8. ~IsTextFragment(w)
      BY <3>5 DEF IsTextFragment
    <3>. QED
      BY <3>1, <3>2, <3>3, <3>6, <3>7, <3>8
  <2>5. CASE e.calls # <<>>
    <3>. DEFINE i == e.calls[1].index
                a == e.calls[1].args
    <3>0. e.reasoning = <<>> /\ Len(e.calls) <= 1
      <4>1. e.reasoning = <<>> /\ Len(e.calls) = 1
        BY <2>1, <2>2, <2>5, Zenon
      <4>. QED
        BY <4>1
    <3>1. /\ e.reasoning = <<>> /\ e.calls = <<e.calls[1]>>
          /\ e.calls[1] \in [index : Nat, args : Text]
      BY <2>3, <2>5, <3>0, OneOf
    <3>2. e.calls[1] = Call(i, a) /\ i \in Nat /\ a \in Text
      BY <3>1 DEF Call
    <3>3. /\ ToolText(e) = a /\ ToolChannel(e) = <<"chunk", "call", i>>
          /\ w = [e EXCEPT !.calls = <<Call(i, text)>>]
      BY <1>2, <2>5 DEF ToolText, ToolChannel, ToolKey, WithToolText
    <3>4. <<Call(i, text)>> \in Calls
      BY <3>2 DEF Calls, Call
    <3>5. /\ w \in AllChunks /\ w.kind = "chunk" /\ ~w.finish /\ w.content = e.content
          /\ w.reasoning = <<>> /\ w.calls = <<Call(i, text)>>
      BY <1>2, <2>1, <3>1, <3>3, <3>4 DEF AllChunks
    <3>. HIDE DEF w, i, a
    <3>6. Says(e, <<"chunk", "call", i>>, a)
      <4>1. e.calls = <<Call(i, a)>>
        BY <3>1, <3>2
      <4>. QED
        BY <1>2, <2>1, <2>2, <3>1, <3>2, <4>1, ChunkSays
    <3>7. Says(w, <<"chunk", "call", i>>, text)
      BY <2>2, <3>2, <3>5, ChunkSays
    <3>8. ~IsTextFragment(w) /\ ~IsTextFragment(e)
      BY <1>2, <2>5, <3>5 DEF IsTextFragment
    <3>. QED
      BY <3>2, <3>3, <3>6, <3>7, <3>8
  <2>. QED
    BY <2>4, <2>5
<1>. HIDE DEF w
<1>3. CASE E = Chunks
  <2>1. Chunks \subseteq AllChunks
    BY StreamAssumption
  <2>2. e \in AllChunks /\ e.kind = "chunk"
    BY <1>3, <2>1 DEF AllChunks
  <2>. QED
    BY <1>2, <1>3, <2>2 DEF w
<1>4. CASE E # Chunks
  <2>1. e \in Deltas("block") \/ e \in Deltas("item")
    BY <1>4, SentEvents
  <2>. QED
    BY <1>1, <2>1 DEF w
<1>. QED
  BY <1>3, <1>4

\* Fragments are of one run exactly if they are of one channel.
LEMMA ToolKeys ==
  ASSUME NEW E, Sent(E), NEW d \in E, NEW e \in E, IsToolFragment(d), IsToolFragment(e)
  PROVE  ToolKey(d) = ToolKey(e) <=> ToolChannel(d) = ToolChannel(e)
<1>1. CASE d.kind = "chunk"
  <2>1. e.kind = "chunk"
    <3>1. d \notin Deltas("block") /\ d \notin Deltas("item")
      BY <1>1 DEF Deltas
    <3>. QED
      BY <3>1, SentEvents, StreamAssumption
  <2>. QED
    BY <1>1, <2>1 DEF ToolChannel
<1>2. CASE E = Blocks
  <2>1. d.kind = "block" /\ e.kind = "block"
    BY <1>2, StreamAssumption DEF Deltas
  <2>2. d.index = e.index => d.field = e.field
    BY <1>2, BlockAssumption
  <2>. QED
    BY <2>1, <2>2 DEF ToolChannel, ToolKey
<1>3. CASE E = Items
  <2>1. d.kind = "item" /\ e.kind = "item"
    BY <1>3, StreamAssumption DEF Deltas
  <2>. QED
    BY <2>1 DEF ToolChannel, ToolKey
<1>4. CASE E = Chunks
  <2>1. d.kind = "chunk"
    BY <1>4, StreamAssumption DEF AllChunks
  <2>. QED
    BY <1>1, <2>1
<1>. QED
  BY <1>2, <1>3, <1>4 DEF Sent

\* A piece of the answer that says a text, or nothing at all for the empty one.
Adds(e, channel, text) ==
  /\ e \in Answer /\ ~IsMark(e) /\ text \in Text
  /\ \/ Pieces(e) = {<<channel, text>>}
     \/ text = <<>> /\ Pieces(e) = {}

\* ... it says nothing in any other channel.
LEMMA AddsOne ==
  ASSUME NEW e, NEW channel, NEW text, Adds(e, channel, text)
  PROVE  \A c : Piece(e, c) = IF c = channel THEN text ELSE <<>>
<1>1. CASE Pieces(e) = {<<channel, text>>}
  <2>1. Says(e, channel, text)
    BY <1>1 DEF Adds, Says, Answer
  <2>. QED
    BY <2>1, SaysOne
<1>2. CASE text = <<>> /\ Pieces(e) = {}
  BY <1>2 DEF Piece
<1>. QED
  BY <1>1, <1>2 DEF Adds

\* What the text of a piece of the answer is, and what another leaves it.
LEMMA AnswerIs ==
  ASSUME NEW e \in Answer, NEW text \in Text
  PROVE  TextOf(e) \in Text /\ WithTextOf(e, text) \in Answer
<1>. DEFINE w == WithTextOf(e, text)
<1>1. e \in Events /\ IsTextFragment(e)
  BY DEF Answer
<1>2. ASSUME NEW kind \in {"block", "item"}, e \in Deltas(kind) PROVE TextOf(e) \in Text /\ w \in Answer
  <2>1. e.kind = kind /\ kind # "chunk" /\ e.field = "text" /\ e.text \in Text
    BY <1>1, <1>2 DEF Deltas, IsTextFragment
  <2>2. w = [e EXCEPT !.text = text] /\ TextOf(e) = e.text
    BY <2>1 DEF WithTextOf, TextOf
  <2>3. w \in Deltas(kind) /\ w.kind = kind /\ w.field = "text"
    BY <1>2, <2>1, <2>2 DEF Deltas
  <2>. HIDE DEF w
  <2>. QED
    BY <2>1, <2>2, <2>3 DEF Answer, Events, IsTextFragment
<1>3. ASSUME e \in AllChunks PROVE TextOf(e) \in Text /\ w \in Answer
  <2>1. e.kind = "chunk" /\ ~e.finish /\ e.calls = <<>> /\ e.content # <<>>
    BY <1>1, <1>3 DEF AllChunks, IsTextFragment
  <2>2. e.content \in Seq(Text) /\ Len(e.content) <= 1
    BY <1>3 DEF AllChunks, AtMostOne
  <2>3. e.content[1] \in Text
    BY <2>1, <2>2, OneOf
  <2>4. w = [e EXCEPT !.content = <<text>>] /\ TextOf(e) = e.content[1]
    BY <2>1 DEF WithTextOf, TextOf
  <2>5. <<text>> \in AtMostOne(Text)
    BY DEF AtMostOne
  <2>6. w \in AllChunks /\ w.kind = "chunk" /\ ~w.finish /\ w.calls = <<>> /\ w.content = <<text>>
    BY <1>3, <2>1, <2>4, <2>5 DEF AllChunks
  <2>. HIDE DEF w
  <2>7. IsTextFragment(w)
    <3>1. <<text>> # <<>>
      OBVIOUS
    <3>. QED
      BY <2>6, <3>1 DEF IsTextFragment
  <2>8. w \in Events
    BY <2>6 DEF Events
  <2>. QED
    BY <2>3, <2>4, <2>7, <2>8 DEF Answer
<1>4. e # Other
  BY <1>1 DEF Other, IsTextFragment
<1>. HIDE DEF w
<1>. QED
  BY <1>1, <1>2, <1>3, <1>4 DEF Events, w

\* A piece of the answer says its text, and the joined text in its place.
LEMMA TextSays ==
  ASSUME NEW E, Sent(E), NEW e \in E, IsTextFragment(e), NEW text \in Text
  PROVE  /\ ~IsToolFragment(e)
         /\ Adds(e, TextChannel(e), TextOf(e))
         /\ Adds(WithTextOf(e, text), TextChannel(e), text)
<1>. DEFINE w == WithTextOf(e, text)
<1>0. e \in Answer /\ TextOf(e) \in Text /\ w \in Answer
  <2>1. e \in Answer
    BY SentEvents DEF Answer
  <2>. QED
    BY <2>1, AnswerIs
<1>1. ASSUME NEW kind \in {"block", "item"}, e \in Deltas(kind)
      PROVE  ~IsToolFragment(e) /\ Adds(e, TextChannel(e), TextOf(e)) /\ Adds(w, TextChannel(e), text)
  <2>1. e.kind = kind /\ kind # "chunk" /\ e.field = "text"
    BY <1>1 DEF Deltas, IsTextFragment
  <2>2. w = [e EXCEPT !.text = text] /\ TextOf(e) = e.text /\ TextChannel(e) = <<kind, e.field, e.index>>
    BY <2>1 DEF WithTextOf, TextOf, TextChannel
  <2>3. ~IsToolFragment(e)
    BY <2>1 DEF IsToolFragment
  <2>. HIDE DEF w
  <2>4. Says(e, TextChannel(e), TextOf(e)) /\ Says(w, TextChannel(e), text)
    BY <1>1, <2>2, DeltaSays
  <2>. QED
    BY <1>0, <2>3, <2>4 DEF Says, Adds
<1>2. ASSUME E = Chunks, e \in AllChunks, e.kind = "chunk"
      PROVE  ~IsToolFragment(e) /\ Adds(e, TextChannel(e), TextOf(e)) /\ Adds(w, TextChannel(e), text)
  <2>1. ~e.finish /\ e.calls = <<>> /\ e.content # <<>> /\ e.reasoning = <<>>
    BY <1>2 DEF Sent, ChunksAlone, IsTextFragment
  <2>2. ~IsToolFragment(e)
    BY <1>2, <2>1 DEF IsToolFragment
  <2>3. ASSUME NEW t \in Text, NEW x \in AllChunks, x.finish = e.finish, x.calls = e.calls,
               x.reasoning = e.reasoning, x.content = <<t>>, x \in Answer
        PROVE  Adds(x, TextChannel(e), t)
    <3>1. x.kind = "chunk"
      BY DEF AllChunks
    <3>2. ToSet(x.content) = {t} /\ ToSet(x.calls) = {} /\ ToSet(x.reasoning) = {}
      BY <2>1, <2>3 DEF ToSet
    <3>3. Pieces(x) = {<<<<"chunk", "content", 0>>, u>> : u \in {t} \ {<<>>}}
      BY <3>1, <3>2 DEF Pieces
    <3>4. TextChannel(e) = <<"chunk", "content", 0>>
      BY <1>2 DEF TextChannel
    <3>5. ~IsMark(x)
      BY <2>1, <2>3, <3>1 DEF IsMark
    <3>6. Pieces(x) = {<<TextChannel(e), t>>} \/ (t = <<>> /\ Pieces(x) = {})
      BY <3>3, <3>4
    <3>. QED
      BY <2>3, <3>5, <3>6 DEF Adds
  <2>4. e.content = <<TextOf(e)>>
    <3>1. e.content \in Seq(Text) /\ Len(e.content) <= 1
      BY <1>2 DEF AllChunks, AtMostOne
    <3>2. e.content = <<e.content[1]>>
      BY <2>1, <3>1, OneOf
    <3>3. TextOf(e) = e.content[1]
      BY <1>2 DEF TextOf
    <3>. QED
      BY <3>2, <3>3
  <2>5. /\ w \in AllChunks /\ w.finish = e.finish /\ w.calls = e.calls
        /\ w.reasoning = e.reasoning /\ w.content = <<text>>
    <3>1. w = [e EXCEPT !.content = <<text>>]
      BY <1>2 DEF WithTextOf
    <3>2. <<text>> \in AtMostOne(Text)
      BY DEF AtMostOne
    <3>. QED
      BY <1>2, <3>1, <3>2 DEF AllChunks
  <2>. HIDE DEF w
  <2>. QED
    BY <1>0, <1>2, <2>2, <2>3, <2>4, <2>5
<1>. HIDE DEF w
<1>3. CASE E = Chunks
  <2>1. e \in AllChunks /\ e.kind = "chunk"
    BY <1>3, StreamAssumption DEF AllChunks
  <2>. QED
    BY <1>2, <1>3, <2>1 DEF w
<1>4. CASE E # Chunks
  <2>1. e \in Deltas("block") \/ e \in Deltas("item")
    BY <1>4, SentEvents
  <2>. QED
    BY <1>1, <2>1 DEF w
<1>. QED
  BY <1>3, <1>4

\* Pieces of one run are of one channel.
LEMMA TextKeys ==
  ASSUME NEW E, Sent(E), NEW d \in E, NEW e \in E, IsTextFragment(d), IsTextFragment(e),
         TextKey(d) = TextKey(e)
  PROVE  TextChannel(d) = TextChannel(e)
<1>1. CASE d.kind = "chunk"
  <2>1. e.kind = "chunk"
    <3>1. d \notin Deltas("block") /\ d \notin Deltas("item")
      BY <1>1 DEF Deltas
    <3>. QED
      BY <3>1, SentEvents, StreamAssumption
  <2>. QED
    BY <1>1, <2>1 DEF TextChannel
<1>2. CASE d.kind # "chunk"
  <2>1. e.kind # "chunk"
    <3>1. d \notin AllChunks
      BY <1>2 DEF AllChunks
    <3>. QED
      BY <3>1, SentEvents, StreamAssumption
  <2>2. d.field = "text" /\ e.field = "text"
    BY <1>2, <2>1 DEF IsTextFragment
  <2>. QED
    BY <1>2, <2>1, <2>2 DEF TextChannel, TextKey
<1>. QED
  BY <1>1, <1>2

\* A sequence is its elements.
LEMMA Elements ==
  ASSUME NEW S, NEW s \in Seq(S)
  PROVE  DOMAIN s = 1..Len(s) /\ Len(s) \in Nat /\ \A i \in DOMAIN s : s[i] \in S
OBVIOUS

\* ... and elements are a sequence.
LEMMA IsSequence ==
  ASSUME NEW S, NEW n \in Nat, NEW f, DOMAIN f = 1..n, f = [i \in DOMAIN f |-> f[i]],
         \A i \in DOMAIN f : f[i] \in S
  PROVE  f \in Seq(S) /\ Len(f) = n
<1>1. f \in [1..n -> S]
  OBVIOUS
<1>. QED
  BY <1>1

\* What an event says, piece by piece.
PieceOf(e, channel, text) ==
  \/ \E i \in DOMAIN e.reasoning : channel = <<"chunk", "reasoning", 0>> /\ text = e.reasoning[i]
  \/ \E i \in DOMAIN e.content :
       e.content[i] # <<>> /\ channel = <<"chunk", "content", 0>> /\ text = e.content[i]
  \/ \E i \in DOMAIN e.calls :
       channel = <<"chunk", "call", e.calls[i].index>> /\ text = e.calls[i].args

\* ... of a chunk, which says one text in a channel at most.
LEMMA ChunkPieces ==
  ASSUME NEW e \in AllChunks
  PROVE  /\ \A c, t : <<c, t>> \in Pieces(e) <=> PieceOf(e, c, t)
         /\ \A p \in Pieces(e) : p = <<p[1], p[2]>>
         /\ \A c, t, u : PieceOf(e, c, t) /\ PieceOf(e, c, u) => t = u
<1>1. /\ e.kind = "chunk" /\ e.reasoning \in Seq(Text) /\ Len(e.reasoning) <= 1
      /\ e.content \in Seq(Text) /\ Len(e.content) <= 1
      /\ \A i, j \in DOMAIN e.calls : e.calls[i].index = e.calls[j].index => i = j
  BY DEF AllChunks, AtMostOne, Calls
<1>2. Pieces(e) = {<<<<"chunk", "reasoning", 0>>, t>> : t \in ToSet(e.reasoning)}
            \cup {<<<<"chunk", "content", 0>>, t>> : t \in ToSet(e.content) \ {<<>>}}
            \cup {<<<<"chunk", "call", c.index>>, c.args>> : c \in ToSet(e.calls)}
  BY <1>1 DEF Pieces
<1>3. \A s, x : x \in ToSet(s) <=> \E i \in DOMAIN s : x = s[i]
  BY DEF ToSet
<1>4. \A c, t : <<c, t>> \in Pieces(e) <=> PieceOf(e, c, t)
  <2>. TAKE c, t
  <2>1. <<c, t>> \in Pieces(e) <=>
          \/ c = <<"chunk", "reasoning", 0>> /\ t \in ToSet(e.reasoning)
          \/ c = <<"chunk", "content", 0>> /\ t \in ToSet(e.content) /\ t # <<>>
          \/ \E k \in ToSet(e.calls) : c = <<"chunk", "call", k.index>> /\ t = k.args
    BY <1>2
  <2>2. (\E k \in ToSet(e.calls) : c = <<"chunk", "call", k.index>> /\ t = k.args) <=>
          \E i \in DOMAIN e.calls : c = <<"chunk", "call", e.calls[i].index>> /\ t = e.calls[i].args
    BY <1>3
  <2>. QED
    BY <1>3, <2>1, <2>2 DEF PieceOf
<1>5. \A p \in Pieces(e) : p = <<p[1], p[2]>>
  BY <1>2
<1>6. ASSUME NEW c, NEW t, NEW u, PieceOf(e, c, t), PieceOf(e, c, u) PROVE t = u
  <2>1. /\ \A i, j \in DOMAIN e.reasoning : i = j
        /\ \A i, j \in DOMAIN e.content : i = j
    BY <1>1
  <2>2. CASE c = <<"chunk", "reasoning", 0>>
    BY <1>6, <2>1, <2>2 DEF PieceOf
  <2>3. CASE c = <<"chunk", "content", 0>>
    BY <1>6, <2>1, <2>3 DEF PieceOf
  <2>4. CASE c # <<"chunk", "reasoning", 0>> /\ c # <<"chunk", "content", 0>>
    <3>1. PICK i \in DOMAIN e.calls : c = <<"chunk", "call", e.calls[i].index>> /\ t = e.calls[i].args
      BY <1>6, <2>4 DEF PieceOf
    <3>2. PICK j \in DOMAIN e.calls : c = <<"chunk", "call", e.calls[j].index>> /\ u = e.calls[j].args
      BY <1>6, <2>4 DEF PieceOf
    <3>3. e.calls[i].index = e.calls[j].index
      BY <3>1, <3>2
    <3>. QED
      BY <1>1, <3>1, <3>2, <3>3
  <2>. QED
    BY <2>2, <2>3, <2>4
<1>. QED
  BY <1>4, <1>5, <1>6

\* ... and what it says in a channel.
LEMMA ChunkPiece ==
  ASSUME NEW e \in AllChunks
  PROVE  /\ \A c, t : PieceOf(e, c, t) => Piece(e, c) = t
         /\ \A c : (~\E t : PieceOf(e, c, t)) => Piece(e, c) = <<>>
<1>1. ASSUME NEW c, NEW t, PieceOf(e, c, t) PROVE Piece(e, c) = t
  <2>. DEFINE q == CHOOSE p \in Pieces(e) : p[1] = c
  <2>1. <<c, t>> \in Pieces(e) /\ <<c, t>>[1] = c
    BY <1>1, ChunkPieces
  <2>2. q \in Pieces(e) /\ q[1] = c
    BY <2>1
  <2>3. Piece(e, c) = q[2]
    BY <2>1 DEF Piece
  <2>. HIDE DEF q
  <2>4. <<c, q[2]>> \in Pieces(e)
    BY <2>2, ChunkPieces
  <2>5. PieceOf(e, c, q[2])
    BY <2>4, ChunkPieces
  <2>. QED
    BY <1>1, <2>3, <2>5, ChunkPieces
<1>2. ASSUME NEW c, ~\E t : PieceOf(e, c, t) PROVE Piece(e, c) = <<>>
  <2>1. ASSUME NEW p \in Pieces(e), p[1] = c PROVE FALSE
    <3>1. <<c, p[2]>> \in Pieces(e)
      BY <2>1, ChunkPieces
    <3>. QED
      BY <1>2, <3>1, ChunkPieces
  <2>. QED
    BY <2>1 DEF Piece
<1>. QED
  BY <1>1, <1>2

\* Replacing in the bytes of an event is replacing in what it says.
LEMMA BlankPiece ==
  ASSUME NEW values, OneValue(values), NEW e \in Events
  PROVE  /\ BlankEvent(e, values) \in Events
         /\ \A c : Piece(BlankEvent(e, values), c) = Blank(Piece(e, c), values)
<1>. DEFINE b == BlankEvent(e, values)
            B(t) == Blank(t, values)
<1>0. /\ \A t \in Text : B(t) \in Text /\ (t # <<>> => B(t) # <<>>)
      /\ B(<<>>) = <<>>
  BY BlankLetter, BlankOfNothing
<1>1. CASE e = Other
  <2>1. b = e /\ Pieces(e) = {}
    BY <1>1 DEF BlankEvent, Other, Pieces
  <2>. HIDE DEF b
  <2>. QED
    BY <1>0, <2>1 DEF Piece, b
<1>2. ASSUME NEW kind \in {"block", "item"}, e \in Deltas(kind)
      PROVE  b \in Events /\ \A c : Piece(b, c) = B(Piece(e, c))
  <2>1. e.kind = kind /\ kind # "chunk" /\ kind # "other" /\ e.text \in Text
    BY <1>2 DEF Deltas
  <2>2. b = [e EXCEPT !.text = B(e.text)]
    BY <2>1 DEF BlankEvent
  <2>. HIDE DEF b, B
  <2>3. B(e.text) \in Text
    BY <1>0, <2>1
  <2>4. Says(e, <<kind, e.field, e.index>>, e.text) /\ Says(b, <<kind, e.field, e.index>>, B(e.text))
    BY <1>2, <2>2, <2>3, DeltaSays
  <2>5. ASSUME NEW c PROVE Piece(b, c) = B(Piece(e, c))
    <3>1. Piece(e, c) = IF c = <<kind, e.field, e.index>> THEN e.text ELSE <<>>
      BY <2>4, SaysOne
    <3>2. Piece(b, c) = IF c = <<kind, e.field, e.index>> THEN B(e.text) ELSE <<>>
      BY <2>4, SaysOne
    <3>. QED
      BY <1>0, <3>1, <3>2
  <2>. QED
    BY <2>4, <2>5 DEF Says
<1>3. ASSUME e \in AllChunks
      PROVE  b \in Events /\ \A c : Piece(b, c) = B(Piece(e, c))
  <2>1. /\ e.kind = "chunk" /\ e.content \in Seq(Text) /\ Len(e.content) <= 1
        /\ e.reasoning \in Seq(Text) /\ Len(e.reasoning) <= 1
        /\ e.calls \in Seq([index : Nat, args : Text])
        /\ \A i, j \in DOMAIN e.calls : e.calls[i].index = e.calls[j].index => i = j
    BY <1>3 DEF AllChunks, AtMostOne, Calls
  <2>. DEFINE content == [i \in DOMAIN e.content |-> B(e.content[i])]
              reasoning == [i \in DOMAIN e.reasoning |-> B(e.reasoning[i])]
              calls == [i \in DOMAIN e.calls |-> Call(e.calls[i].index, B(e.calls[i].args))]
  <2>2. b = [e EXCEPT !.content = content, !.reasoning = reasoning, !.calls = calls]
    BY <2>1 DEF BlankEvent
  <2>. HIDE DEF B
  <2>3. ASSUME NEW s \in Seq(Text), Len(s) <= 1
        PROVE  /\ [i \in DOMAIN s |-> B(s[i])] \in AtMostOne(Text)
               /\ DOMAIN [i \in DOMAIN s |-> B(s[i])] = DOMAIN s
    <3>1. \A i \in DOMAIN s : s[i] \in Text /\ B(s[i]) \in Text
      BY <1>0
    <3>2. DOMAIN s = 1..Len(s) /\ Len(s) \in Nat
      OBVIOUS
    <3>3. /\ [i \in DOMAIN s |-> B(s[i])] \in Seq(Text)
          /\ Len([i \in DOMAIN s |-> B(s[i])]) = Len(s)
      BY <3>1, <3>2
    <3>. QED
      BY <2>3, <3>2, <3>3 DEF AtMostOne
  <2>4. calls \in Calls
    <3>. DEFINE Record == [index : Nat, args : Text]
    <3>1. \A i \in DOMAIN e.calls : e.calls[i] \in Record
      <4>. HIDE DEF Record
      <4>1. e.calls \in Seq(Record)
        BY <2>1 DEF Record
      <4>. QED
        BY <4>1, Elements
    <3>2. \A i \in DOMAIN e.calls : calls[i] \in [index : Nat, args : Text] /\ calls[i].index = e.calls[i].index
      BY <1>0, <3>1 DEF Call
    <3>3. DOMAIN e.calls = 1..Len(e.calls) /\ Len(e.calls) \in Nat /\ DOMAIN calls = DOMAIN e.calls
      BY <2>1
    <3>4. calls = [i \in DOMAIN calls |-> calls[i]]
      OBVIOUS
    <3>5. \A i \in DOMAIN calls : calls[i] \in Record
      BY <3>2, <3>3
    <3>. HIDE DEF calls
    <3>6. calls \in Seq(Record)
      <4>. HIDE DEF Record
      <4>. QED
        BY <3>3, <3>4, <3>5, IsSequence
    <3>. QED
      BY <2>1, <3>2, <3>3, <3>6 DEF Calls
  <2>. HIDE DEF content, reasoning, calls
  <2>5. content \in AtMostOne(Text) /\ reasoning \in AtMostOne(Text)
    BY <2>1, <2>3 DEF content, reasoning
  <2>6. b \in AllChunks /\ b.content = content /\ b.reasoning = reasoning /\ b.calls = calls
    BY <1>3, <2>2, <2>4, <2>5 DEF AllChunks
  <2>. HIDE DEF b
  <2>7. ASSUME NEW c, NEW t, PieceOf(e, c, t) PROVE PieceOf(b, c, B(t)) 
    <3>1. \A i \in DOMAIN e.reasoning : i \in DOMAIN reasoning /\ reasoning[i] = B(e.reasoning[i])
      BY DEF reasoning
    <3>2. \A i \in DOMAIN e.content : i \in DOMAIN content /\ content[i] = B(e.content[i])
      BY DEF content
    <3>3. \A i \in DOMAIN e.content : e.content[i] # <<>> => content[i] # <<>>
      BY <1>0, <2>1, <3>2
    <3>4. \A i \in DOMAIN e.calls : /\ i \in DOMAIN calls /\ calls[i].index = e.calls[i].index
                                   /\ calls[i].args = B(e.calls[i].args)
      BY DEF calls, Call
    <3>. QED
      BY <2>6, <2>7, <3>1, <3>2, <3>3, <3>4 DEF PieceOf
  <2>8. ASSUME NEW c, NEW u, PieceOf(b, c, u) PROVE \E t : PieceOf(e, c, t)
    <3>1. DOMAIN reasoning = DOMAIN e.reasoning
      BY DEF reasoning
    <3>2. DOMAIN content = DOMAIN e.content /\ \A i \in DOMAIN e.content : content[i] # <<>> => e.content[i] # <<>>
      <4>1. \A i \in DOMAIN e.content : content[i] = B(e.content[i])
        BY DEF content
      <4>. QED
        BY <1>0, <4>1 DEF content
    <3>3. DOMAIN calls = DOMAIN e.calls /\ \A i \in DOMAIN e.calls : calls[i].index = e.calls[i].index
      BY DEF calls, Call
    <3>. QED
      BY <2>6, <2>8, <3>1, <3>2, <3>3 DEF PieceOf
  <2>9. ASSUME NEW c PROVE Piece(b, c) = B(Piece(e, c))
    <3>1. CASE \E t : PieceOf(e, c, t)
      <4>1. PICK t : PieceOf(e, c, t)
        BY <3>1
      <4>2. Piece(e, c) = t
        BY <1>3, <4>1, ChunkPiece
      <4>3. Piece(b, c) = B(t)
        BY <2>6, <2>7, <4>1, ChunkPiece
      <4>. QED
        BY <4>2, <4>3
    <3>2. CASE ~\E t : PieceOf(e, c, t)
      <4>1. Piece(e, c) = <<>>
        BY <1>3, <3>2, ChunkPiece
      <4>2. Piece(b, c) = <<>>
        BY <2>6, <2>8, <3>2, ChunkPiece
      <4>. QED
        BY <1>0, <4>1, <4>2
    <3>. QED
      BY <3>1, <3>2
  <2>. QED
    BY <2>6, <2>9 DEF Events
<1>. HIDE DEF b, B
<1>. QED
  BY <1>1, <1>2, <1>3 DEF Events, b, B

-----------------------------------------------------------------------------
(* Sequences of events.                                                    *)

\* The events as they are stored, event by event.
LEMMA BlankedConcat ==
  ASSUME NEW values, OneValue(values), NEW s \in Seq(Events), NEW t \in Seq(Events)
  PROVE  /\ Blanked(s, values) \in Seq(Events)
         /\ Blanked(s \o t, values) = Blanked(s, values) \o Blanked(t, values)
<1>. DEFINE M(x) == Blanked(x, values)
            f(e) == BlankEvent(e, values)
<1>0. \A e \in Events : f(e) \in Events
  BY BlankPiece
<1>1. ASSUME NEW x \in Seq(Events)
      PROVE  M(x) \in Seq(Events) /\ Len(M(x)) = Len(x) /\ \A i \in 1..Len(x) : M(x)[i] = f(x[i])
  <2>1. DOMAIN x = 1..Len(x) /\ Len(x) \in Nat /\ \A i \in 1..Len(x) : x[i] \in Events
    OBVIOUS
  <2>. HIDE DEF f
  <2>2. \A i \in 1..Len(x) : f(x[i]) \in Events
    BY <1>0, <2>1
  <2>3. M(x) = [i \in DOMAIN x |-> f(x[i])]
    BY DEF Blanked, f
  <2>. QED
    BY <2>1, <2>2, <2>3
<1>. HIDE DEF f, M
<1>2. ASSUME NEW x \in Seq(Events), NEW y \in Seq(Events)
      PROVE  /\ x \o y \in Seq(Events) /\ Len(x \o y) = Len(x) + Len(y)
             /\ \A i \in 1..(Len(x) + Len(y)) : (x \o y)[i] = IF i <= Len(x) THEN x[i] ELSE y[i - Len(x)]
  BY ConcatProperties
<1>. DEFINE u == s \o t
            l == M(u)
            a == M(s)
            b == M(t)
            r == a \o b
<1>3. /\ a \in Seq(Events) /\ b \in Seq(Events) /\ Len(a) = Len(s) /\ Len(b) = Len(t)
      /\ \A i \in 1..Len(s) : a[i] = f(s[i])
      /\ \A i \in 1..Len(t) : b[i] = f(t[i])
  BY <1>1
<1>4. /\ u \in Seq(Events) /\ Len(u) = Len(s) + Len(t)
      /\ \A i \in 1..(Len(s) + Len(t)) : u[i] = IF i <= Len(s) THEN s[i] ELSE t[i - Len(s)]
  BY <1>2
<1>. HIDE DEF u, a, b
<1>5. l \in Seq(Events) /\ Len(l) = Len(s) + Len(t) /\ \A i \in 1..(Len(s) + Len(t)) : l[i] = f(u[i])
  BY <1>1, <1>4
<1>6. /\ r \in Seq(Events) /\ Len(r) = Len(a) + Len(b)
      /\ \A i \in 1..(Len(a) + Len(b)) : r[i] = IF i <= Len(a) THEN a[i] ELSE b[i - Len(a)]
  BY <1>2, <1>3
<1>. HIDE DEF l, r
<1>7. Len(a) = Len(s) /\ Len(b) = Len(t)
  BY <1>3
<1>8. \A i \in 1..(Len(s) + Len(t)) : r[i] = IF i <= Len(s) THEN a[i] ELSE b[i - Len(s)]
  BY <1>6, <1>7, Zenon
<1>9. ASSUME NEW i \in 1..(Len(s) + Len(t)) PROVE l[i] = r[i]
  <2>0. Len(s) \in Nat /\ Len(t) \in Nat
    OBVIOUS
  <2>1. CASE i <= Len(s)
    <3>1. i \in 1..Len(s)
      BY <2>0, <2>1
    <3>2. l[i] = f(u[i]) /\ u[i] = s[i] /\ a[i] = f(s[i])
      BY <1>3, <1>4, <1>5, <2>1, <3>1
    <3>3. r[i] = a[i]
      BY <1>8, <2>1
    <3>. QED
      BY <3>2, <3>3
  <2>2. CASE ~(i <= Len(s))
    <3>1. i - Len(s) \in 1..Len(t)
      BY <2>0, <2>2
    <3>2. l[i] = f(u[i]) /\ u[i] = t[i - Len(s)]
      BY <1>4, <1>5, <2>2
    <3>3. b[i - Len(s)] = f(t[i - Len(s)])
      BY <1>3, <3>1
    <3>4. r[i] = b[i - Len(s)]
      BY <1>8, <2>2
    <3>. QED
      BY <3>2, <3>3, <3>4
  <2>. QED
    BY <2>1, <2>2
<1>10. l = r
  <2>1. Len(l) = Len(s) + Len(t) /\ Len(r) = Len(s) + Len(t)
    BY <1>5, <1>6, <1>7
  <2>. QED
    BY <1>5, <1>6, <1>9, <2>1, SeqEqual
<1>. QED
  BY <1>3, <1>10 DEF l, r, a, b, u, M

\* ... of none, and of one.
LEMMA BlankedOne ==
  ASSUME NEW values, OneValue(values)
  PROVE  /\ Blanked(<<>>, values) = <<>>
         /\ \A e \in Events : Blanked(<<e>>, values) = <<BlankEvent(e, values)>>
<1>1. Blanked(<<>>, values) = <<>>
  BY DEF Blanked
<1>2. ASSUME NEW e \in Events PROVE Blanked(<<e>>, values) = <<BlankEvent(e, values)>>
  <2>. DEFINE b == BlankEvent(e, values)
              l == Blanked(<<e>>, values)
  <2>1. b \in Events
    BY BlankPiece
  <2>2. l = [i \in 1..1 |-> b]
    <3>1. DOMAIN <<e>> = 1..1 /\ \A i \in 1..1 : <<e>>[i] = e
      OBVIOUS
    <3>. QED
      BY <3>1 DEF Blanked
  <2>. HIDE DEF b, l
  <2>3. l \in Seq(Events) /\ Len(l) = 1 /\ l # <<>> /\ l[1] = b
    BY <2>1, <2>2
  <2>4. l = <<l[1]>>
    BY <2>3, OneOf
  <2>. QED
    BY <2>3, <2>4 DEF b, l
<1>. QED
  BY <1>1, <1>2

\* A channel of which no event, or one event only, says anything.
LEMMA OnePiece ==
  ASSUME NEW s \in Seq(Events), NEW c
  PROVE  /\ (\A i \in DOMAIN s : Piece(s[i], c) = <<>>) => ChannelText(s, c) = <<>>
         /\ \A i \in DOMAIN s :
              (\A j \in DOMAIN s : j # i => Piece(s[j], c) = <<>>) => ChannelText(s, c) = Piece(s[i], c)
<1>. DEFINE Silent(x) == \A i \in DOMAIN x : Piece(x[i], c) = <<>>
            Only(x, i) == \A j \in DOMAIN x : j # i => Piece(x[j], c) = <<>>
            S == {x \in Seq(Events) : Silent(x) => ChannelText(x, c) = <<>>}
            P == {x \in Seq(Events) : \A i \in DOMAIN x : Only(x, i) => ChannelText(x, c) = Piece(x[i], c)}
<1>1. ASSUME NEW x \in Seq(Events), NEW e \in Events
      PROVE  /\ Append(x, e) \in Seq(Events)
             /\ DOMAIN Append(x, e) = 1..(Len(x) + 1) /\ DOMAIN x = 1..Len(x) /\ Len(x) \in Nat
             /\ \A i \in 1..Len(x) : Append(x, e)[i] = x[i]
             /\ Append(x, e)[Len(x) + 1] = e
             /\ ChannelText(Append(x, e), c) = ChannelText(x, c) \o Piece(e, c)
             /\ ChannelText(x, c) \in Text /\ Piece(e, c) \in Text
  <2>1. Append(x, e) = x \o <<e>> /\ <<e>> \in Seq(Events)
    BY AppendIsConcat
  <2>2. /\ ChannelText(x \o <<e>>, c) = ChannelText(x, c) \o ChannelText(<<e>>, c)
        /\ ChannelText(<<e>>, c) = Piece(e, c) /\ ChannelText(x, c) \in Text
    BY <2>1, Saying
  <2>3. Piece(e, c) \in Text
    BY PieceIsText
  <2>4. /\ Append(x, e) \in Seq(Events)
        /\ DOMAIN Append(x, e) = 1..(Len(x) + 1) /\ DOMAIN x = 1..Len(x) /\ Len(x) \in Nat
        /\ \A i \in 1..Len(x) : Append(x, e)[i] = x[i]
        /\ Append(x, e)[Len(x) + 1] = e
    OBVIOUS
  <2>. QED
    BY <2>1, <2>2, <2>3, <2>4
<1>2. \A t \in Text : t \o <<>> = t /\ <<>> \o t = t
  BY ConcatEmptySeq DEF Text
<1>0. <<>> \in Text
  BY DEF Text
<1>3. <<>> \in S /\ <<>> \in P
  BY Saying
<1>4. ASSUME NEW x \in Seq(Events), NEW e \in Events, x \in S PROVE Append(x, e) \in S
  <2>1. SUFFICES ASSUME Silent(Append(x, e)) PROVE ChannelText(Append(x, e), c) = <<>>
    BY <1>1
  <2>2. Silent(x) /\ Piece(e, c) = <<>>
    <3>1. /\ \A i \in DOMAIN x : i \in DOMAIN Append(x, e) /\ Append(x, e)[i] = x[i]
          /\ Len(x) + 1 \in DOMAIN Append(x, e) /\ Append(x, e)[Len(x) + 1] = e
      OBVIOUS
    <3>. QED
      BY <2>1, <3>1
  <2>3. ChannelText(x, c) = <<>>
    BY <1>4, <2>2
  <2>. QED
    BY <1>0, <1>1, <1>2, <2>2, <2>3
<1>5. \A x \in Seq(Events) : x \in S
  <2>. HIDE DEF S
  <2>. QED
    BY <1>3, <1>4, SeqInduction
<1>6. ASSUME NEW x \in Seq(Events), NEW e \in Events, x \in P PROVE Append(x, e) \in P
  <2>1. SUFFICES ASSUME NEW i \in DOMAIN Append(x, e), Only(Append(x, e), i)
                 PROVE  ChannelText(Append(x, e), c) = Piece(Append(x, e)[i], c)
    BY <1>1
  <2>2. CASE i = Len(x) + 1
    <3>1. Silent(x)
      <4>1. \A j \in DOMAIN x : j \in DOMAIN Append(x, e) /\ j # i /\ Append(x, e)[j] = x[j]
        BY <1>1, <2>2
      <4>. QED
        BY <2>1, <4>1
    <3>2. ChannelText(x, c) = <<>>
      BY <1>5, <3>1
    <3>. QED
      BY <1>1, <1>2, <2>2, <3>2
  <2>3. CASE i # Len(x) + 1
    <3>0. i \in 1..(Len(x) + 1) /\ Len(x) \in Nat
      BY <1>1, <2>1
    <3>4. i \in 1..Len(x)
      BY <2>3, <3>0
    <3>1. i \in DOMAIN x /\ Append(x, e)[i] = x[i]
      BY <1>1, <3>4
    <3>2. Only(x, i) /\ Piece(e, c) = <<>>
      <4>1. /\ \A j \in DOMAIN x : j \in DOMAIN Append(x, e) /\ Append(x, e)[j] = x[j]
            /\ Len(x) + 1 \in DOMAIN Append(x, e) /\ Append(x, e)[Len(x) + 1] = e
        OBVIOUS
      <4>2. Only(x, i)
        BY <2>1, <4>1
      <4>3. Piece(e, c) = <<>>
        BY <2>1, <2>3, <4>1
      <4>. QED
        BY <4>2, <4>3
    <3>3. ChannelText(x, c) = Piece(x[i], c)
      BY <1>6, <3>1, <3>2
    <3>5. ChannelText(Append(x, e), c) = ChannelText(x, c) \o Piece(e, c) /\ ChannelText(x, c) \in Text
      BY <1>1
    <3>6. ChannelText(x, c) \o <<>> = ChannelText(x, c)
      BY <1>2, <3>5
    <3>. QED
      BY <3>1, <3>2, <3>3, <3>5, <3>6, Zenon
  <2>. QED
    BY <2>2, <2>3
<1>7. \A x \in Seq(Events) : x \in P
  <2>. HIDE DEF P
  <2>. QED
    BY <1>3, <1>6, SeqInduction
<1>. QED
  BY <1>5, <1>7

\* What is said is said in a channel.
LEMMA Heard ==
  ASSUME NEW s \in Seq(Events), NEW c, c \notin Channels(s)
  PROVE  ChannelText(s, c) = <<>>
<1>1. ASSUME NEW i \in DOMAIN s PROVE Piece(s[i], c) = <<>>
  <2>1. ASSUME NEW p \in Pieces(s[i]) PROVE p[1] # c
    BY <2>1 DEF Channels
  <2>. QED
    BY <2>1 DEF Piece
<1>. QED
  BY <1>1, OnePiece

\* Events that together say no value in a channel are stored as they are.
LEMMA BlankedOfNothing ==
  ASSUME NEW values, OneValue(values), NEW c, NEW s \in Seq(Events),
         \A v \in values : ~Holds(ChannelText(s, c), v)
  PROVE  ChannelText(Blanked(s, values), c) = ChannelText(s, c)
<1>. DEFINE Free(t) == \A v \in values : ~Holds(t, v)
            S == {x \in Seq(Events) :
                    Free(ChannelText(x, c)) => ChannelText(Blanked(x, values), c) = ChannelText(x, c)}
<1>1. <<>> \in S
  BY BlankedOne
<1>2. ASSUME NEW x \in Seq(Events), NEW e \in Events, x \in S PROVE Append(x, e) \in S
  <2>. DEFINE b == BlankEvent(e, values)
  <2>1. /\ Append(x, e) = x \o <<e>> /\ <<e>> \in Seq(Events) /\ Append(x, e) \in Seq(Events)
        /\ b \in Events /\ <<b>> \in Seq(Events)
    BY AppendIsConcat, BlankPiece
  <2>2. ChannelText(x \o <<e>>, c) = ChannelText(x, c) \o Piece(e, c)
    <3>. DEFINE u == <<e>>
    <3>1. u \in Seq(Events) /\ ChannelText(u, c) = Piece(e, c)
      BY <2>1, Saying
    <3>. HIDE DEF u
    <3>2. ChannelText(x \o u, c) = ChannelText(x, c) \o ChannelText(u, c)
      BY <3>1, Saying
    <3>. QED
      BY <3>1, <3>2 DEF u
  <2>3. SUFFICES ASSUME Free(ChannelText(x \o <<e>>, c))
                 PROVE  ChannelText(Blanked(x \o <<e>>, values), c) = ChannelText(x \o <<e>>, c)
    BY <2>1
  <2>4. ChannelText(x, c) \in Text /\ Piece(e, c) \in Text
    BY Saying, PieceIsText
  <2>5. \A v \in values : v \in Text
    BY StreamAssumption DEF OneValue, Text
  <2>6. Free(ChannelText(x, c)) /\ Free(Piece(e, c))
    BY <2>2, <2>3, <2>4, <2>5, HoldsOn
  <2>7. Piece(b, c) = Piece(e, c)
    <3>1. Piece(b, c) = Blank(Piece(e, c), values)
      BY BlankPiece
    <3>. QED
      BY <2>4, <2>6, <3>1, BlankOfNothing
  <2>. HIDE DEF b
  <2>. DEFINE y == <<e>>
              z == <<b>>
  <2>11. y \in Seq(Events) /\ z \in Seq(Events) /\ Blanked(y, values) = z /\ ChannelText(z, c) = Piece(b, c)
    <3>1. Blanked(y, values) = z
      BY BlankedOne DEF b
    <3>. QED
      BY <2>1, <3>1, Saying
  <2>. HIDE DEF y, z
  <2>8. Blanked(x \o y, values) = Blanked(x, values) \o z /\ Blanked(x, values) \in Seq(Events)
    <3>1. /\ Blanked(x, values) \in Seq(Events)
          /\ Blanked(x \o y, values) = Blanked(x, values) \o Blanked(y, values)
      BY <2>11, BlankedConcat
    <3>. QED
      BY <2>11, <3>1
  <2>9. ChannelText(Blanked(x, values) \o z, c) = ChannelText(Blanked(x, values), c) \o Piece(b, c)
    <3>1. ChannelText(Blanked(x, values) \o z, c) = ChannelText(Blanked(x, values), c) \o ChannelText(z, c)
      BY <2>11, <2>8, Saying
    <3>. QED
      BY <2>11, <3>1
  <2>10. ChannelText(Blanked(x, values), c) = ChannelText(x, c)
    BY <1>2, <2>6
  <2>. QED
    BY <2>2, <2>7, <2>8, <2>9, <2>10 DEF y
<1>. HIDE DEF S
<1>3. \A x \in Seq(Events) : x \in S
  BY <1>1, <1>2, SeqInduction
<1>. QED
  BY <1>3 DEF S

-----------------------------------------------------------------------------
(* Runs of fragments that are gathered.                                    *)

\* The open runs: fragments that were sent, one run to each key.
GoodRuns(runs, E) ==
  /\ runs \in Runs
  /\ \A i \in DOMAIN runs : runs[i].frame \in E /\ IsToolFragment(runs[i].frame)
  /\ \A i, j \in DOMAIN runs : ToolKey(runs[i].frame) = ToolKey(runs[j].frame) => i = j

\* An event for each, that says its text in its channel.
LEMMA RenderedIs ==
  ASSUME NEW E, Sent(E), NEW runs, GoodRuns(runs, E)
  PROVE  /\ Rendered(runs) \in Seq(Events) /\ DOMAIN Rendered(runs) = DOMAIN runs
         /\ Len(Rendered(runs)) = Len(runs)
         /\ \A i \in DOMAIN runs :
              /\ runs[i].text \in Text
              /\ Says(Rendered(runs)[i], ToolChannel(runs[i].frame), runs[i].text)
              /\ ~IsTextFragment(Rendered(runs)[i])
<1>1. runs \in Seq([frame : Input, text : Text])
  BY DEF GoodRuns, Runs
<1>. DEFINE Run == [frame : Input, text : Text]
<1>2. DOMAIN runs = 1..Len(runs) /\ Len(runs) \in Nat /\ \A i \in DOMAIN runs : runs[i] \in Run
  <2>1. runs \in Seq(Run)
    BY <1>1
  <2>. HIDE DEF Run
  <2>. QED
    BY <2>1, Elements
<1>3. ASSUME NEW i \in DOMAIN runs
      PROVE  /\ runs[i].text \in Text
             /\ Says(WithToolText(runs[i].frame, runs[i].text), ToolChannel(runs[i].frame), runs[i].text)
             /\ ~IsTextFragment(WithToolText(runs[i].frame, runs[i].text))
  <2>1. runs[i].frame \in E /\ IsToolFragment(runs[i].frame)
    BY DEF GoodRuns
  <2>2. runs[i].text \in Text
    BY <1>2
  <2>. QED
    BY <2>1, <2>2, ToolSays
<1>. DEFINE r == Rendered(runs)
<1>4. DOMAIN r = DOMAIN runs /\ \A i \in DOMAIN runs : r[i] = WithToolText(runs[i].frame, runs[i].text)
  BY DEF Rendered
<1>5. r = [i \in DOMAIN r |-> r[i]]
  BY DEF Rendered
<1>. HIDE DEF r
<1>6. \A i \in DOMAIN r : r[i] \in Events
  BY <1>3, <1>4 DEF Says
<1>7. r \in Seq(Events) /\ Len(r) = Len(runs)
  BY <1>2, <1>4, <1>5, <1>6, IsSequence
<1>. QED
  BY <1>3, <1>4, <1>7 DEF r

\* ... which nothing else says.
LEMMA RunOf ==
  ASSUME NEW E, Sent(E), NEW runs, GoodRuns(runs, E)
  PROVE  /\ \A i \in DOMAIN runs : ChannelText(Rendered(runs), ToolChannel(runs[i].frame)) = runs[i].text
         /\ \A c : c \in Channels(Rendered(runs)) <=> \E i \in DOMAIN runs : c = ToolChannel(runs[i].frame)
<1>. DEFINE r == Rendered(runs)
<1>1. /\ r \in Seq(Events) /\ DOMAIN r = DOMAIN runs
      /\ \A i \in DOMAIN runs : Says(r[i], ToolChannel(runs[i].frame), runs[i].text)
  BY RenderedIs
<1>. HIDE DEF r
<1>2. \A i, j \in DOMAIN runs : ToolChannel(runs[i].frame) = ToolChannel(runs[j].frame) => i = j
  BY ToolKeys DEF GoodRuns
<1>3. ASSUME NEW i \in DOMAIN runs PROVE ChannelText(r, ToolChannel(runs[i].frame)) = runs[i].text
  <2>. DEFINE c == ToolChannel(runs[i].frame)
  <2>. HIDE DEF c
  <2>1. ASSUME NEW j \in DOMAIN r, j # i PROVE Piece(r[j], c) = <<>>
    <3>1. ToolChannel(runs[j].frame) # c
      BY <1>1, <1>2, <2>1 DEF c
    <3>. QED
      BY <1>1, <2>1, <3>1, SaysOne
  <2>2. Piece(r[i], c) = runs[i].text
    BY <1>1, SaysOne DEF c
  <2>3. ChannelText(r, c) = Piece(r[i], c)
    BY <1>1, <2>1, OnePiece
  <2>. QED
    BY <2>2, <2>3 DEF c
<1>4. ASSUME NEW c PROVE c \in Channels(r) <=> \E i \in DOMAIN runs : c = ToolChannel(runs[i].frame)
  <2>1. c \in Channels(r) <=> \E i \in DOMAIN runs : \E p \in Pieces(r[i]) : c = p[1]
    BY <1>1 DEF Channels
  <2>2. ASSUME NEW i \in DOMAIN runs
        PROVE  (\E p \in Pieces(r[i]) : c = p[1]) <=> c = ToolChannel(runs[i].frame)
    <3>1. Pieces(r[i]) = {<<ToolChannel(runs[i].frame), runs[i].text>>}
      BY <1>1 DEF Says
    <3>. QED
      BY <3>1
  <2>. QED
    BY <2>1, <2>2
<1>. QED
  BY <1>3, <1>4 DEF r

\* Replacing in each of them is replacing in the whole of each.
LEMMA BlankedRuns ==
  ASSUME NEW values, OneValue(values), NEW E, Sent(E), NEW runs, GoodRuns(runs, E), NEW c
  PROVE  ChannelText(Blanked(Rendered(runs), values), c) = Blank(ChannelText(Rendered(runs), c), values)
<1>. DEFINE r == Rendered(runs)
            b == Blanked(r, values)
<1>1. /\ r \in Seq(Events) /\ DOMAIN r = DOMAIN runs
      /\ \A i \in DOMAIN runs : Says(r[i], ToolChannel(runs[i].frame), runs[i].text)
  BY RenderedIs
<1>2. \A i, j \in DOMAIN runs : ToolChannel(runs[i].frame) = ToolChannel(runs[j].frame) => i = j
  BY ToolKeys DEF GoodRuns
<1>. HIDE DEF r
<1>3. b \in Seq(Events) /\ DOMAIN b = DOMAIN r /\ \A i \in DOMAIN r : b[i] = BlankEvent(r[i], values)
  BY <1>1, BlankedConcat DEF Blanked
<1>4. \A i \in DOMAIN r : r[i] \in Events
  BY <1>1, Elements
<1>5. \A i \in DOMAIN r : Piece(b[i], c) = Blank(Piece(r[i], c), values)
  BY <1>3, <1>4, BlankPiece
<1>6. Blank(<<>>, values) = <<>>
  BY BlankLetter
<1>. HIDE DEF b
<1>7. CASE \E i \in DOMAIN runs : c = ToolChannel(runs[i].frame)
  <2>1. PICK i \in DOMAIN runs : c = ToolChannel(runs[i].frame)
    BY <1>7
  <2>2. ASSUME NEW j \in DOMAIN r, j # i PROVE Piece(r[j], c) = <<>> /\ Piece(b[j], c) = <<>>
    <3>1. ToolChannel(runs[j].frame) # c
      BY <1>1, <1>2, <2>1, <2>2
    <3>2. Piece(r[j], c) = <<>>
      BY <1>1, <2>2, <3>1, SaysOne
    <3>. QED
      BY <1>5, <1>6, <2>2, <3>2
  <2>3. ChannelText(r, c) = Piece(r[i], c)
    BY <1>1, <2>1, <2>2, OnePiece
  <2>4. ChannelText(b, c) = Piece(b[i], c)
    BY <1>1, <1>3, <2>1, <2>2, OnePiece
  <2>. QED
    BY <1>1, <1>5, <2>1, <2>3, <2>4 DEF b, r
<1>8. CASE ~\E i \in DOMAIN runs : c = ToolChannel(runs[i].frame)
  <2>1. \A j \in DOMAIN r : Piece(r[j], c) = <<>>
    BY <1>1, <1>8, SaysOne
  <2>2. \A j \in DOMAIN b : Piece(b[j], c) = <<>>
    BY <1>3, <1>5, <1>6, <2>1
  <2>3. ChannelText(r, c) = <<>> /\ ChannelText(b, c) = <<>>
    BY <1>1, <1>3, <2>1, <2>2, OnePiece
  <2>. QED
    BY <1>6, <2>3 DEF b, r
<1>. QED
  BY <1>7, <1>8

\* A fragment that is gathered is said as if it had stood at the end.
LEMMA GatheredIs ==
  ASSUME NEW E, Sent(E), NEW runs, GoodRuns(runs, E), NEW e \in E, IsToolFragment(e)
  PROVE  /\ GoodRuns(Gathered(runs, e), E) /\ Gathered(runs, e) # <<>>
         /\ SayTheSame(Rendered(Gathered(runs, e)), Rendered(runs) \o <<e>>)
<1>. DEFINE Run == [frame : Input, text : Text]
            n == Len(runs)
            C(i) == ToolChannel(runs[i].frame)
            T(c) == ChannelText(Rendered(runs), c)
            g == Gathered(runs, e)
            open == {i \in DOMAIN runs : ToolKey(runs[i].frame) = ToolKey(e)}
<1>1. /\ runs \in Seq(Run) /\ DOMAIN runs = 1..n /\ n \in Nat
      /\ \A i \in DOMAIN runs : runs[i] \in Run
  <2>1. runs \in Seq(Run)
    BY DEF GoodRuns, Runs
  <2>. HIDE DEF Run
  <2>. QED
    BY <2>1, Elements
<1>2. /\ \A i \in DOMAIN runs : runs[i].frame \in E /\ IsToolFragment(runs[i].frame)
      /\ \A i, j \in DOMAIN runs : ToolKey(runs[i].frame) = ToolKey(runs[j].frame) => i = j
  BY DEF GoodRuns
<1>3. /\ ToolText(e) \in Text /\ Says(e, ToolChannel(e), ToolText(e)) /\ e \in Events /\ e \in Input
  <2>1. <<>> \in Text
    BY DEF Text
  <2>. QED
    BY <2>1, ToolSays DEF Says, Input
<1>4. \A c : Piece(e, c) = IF c = ToolChannel(e) THEN ToolText(e) ELSE <<>>
  BY <1>3, SaysOne
<1>5. /\ \A i \in DOMAIN runs : T(C(i)) = runs[i].text
      /\ \A c : (~\E i \in DOMAIN runs : c = C(i)) => T(c) = <<>>
  <2>1. Rendered(runs) \in Seq(Events)
    BY RenderedIs
  <2>. QED
    BY <2>1, RunOf, Heard
<1>6. \A i \in DOMAIN runs : ToolKey(runs[i].frame) = ToolKey(e) <=> C(i) = ToolChannel(e)
  BY <1>2, ToolKeys
<1>7. \A t \in Text : t \o <<>> = t /\ <<>> \o t = t
  BY ConcatEmptySeq DEF Text
<1>8. /\ GoodRuns(g, E) /\ g # <<>>
      /\ \A c : (\E j \in DOMAIN g : c = ToolChannel(g[j].frame)) <=>
                  (\E i \in DOMAIN runs : c = C(i)) \/ c = ToolChannel(e)
      /\ \A j \in DOMAIN g :
           g[j].text = T(ToolChannel(g[j].frame)) \o Piece(e, ToolChannel(g[j].frame))
  <2>. HIDE DEF T
  <2>1. CASE open = {}
    <3>. DEFINE r == [frame |-> e, text |-> ToolText(e)]
    <3>1. g = Append(runs, r)
      BY <2>1 DEF Gathered
    <3>2. r \in Run /\ r.frame = e /\ r.text = ToolText(e)
      BY <1>3
    <3>. HIDE DEF g, r, Run
    <3>3. /\ g \in Seq(Run) /\ DOMAIN g = 1..(n + 1) /\ g # <<>>
          /\ \A i \in DOMAIN runs : i \in DOMAIN g /\ g[i] = runs[i]
          /\ n + 1 \in DOMAIN g /\ g[n + 1] = r
          /\ \A j \in DOMAIN g : j \in DOMAIN runs \/ j = n + 1
      BY <1>1, <3>1, <3>2
    <3>4. \A i \in DOMAIN runs : ToolKey(runs[i].frame) # ToolKey(e)
      BY <2>1
    <3>5. GoodRuns(g, E)
      <4>1. \A j \in DOMAIN g : g[j].frame \in E /\ IsToolFragment(g[j].frame)
        BY <1>2, <3>2, <3>3
      <4>2. \A i, j \in DOMAIN g : ToolKey(g[i].frame) = ToolKey(g[j].frame) => i = j
        BY <1>2, <3>2, <3>3, <3>4
      <4>. QED
        BY <3>3, <4>1, <4>2 DEF GoodRuns, Runs, Run
    <3>6. ASSUME NEW c
          PROVE  (\E j \in DOMAIN g : c = ToolChannel(g[j].frame)) <=>
                   (\E i \in DOMAIN runs : c = C(i)) \/ c = ToolChannel(e)
      BY <3>2, <3>3
    <3>7. ASSUME NEW j \in DOMAIN g
          PROVE  g[j].text = T(ToolChannel(g[j].frame)) \o Piece(e, ToolChannel(g[j].frame))
      <4>1. CASE j \in DOMAIN runs
        <5>1. g[j] = runs[j] /\ C(j) # ToolChannel(e) /\ T(C(j)) = runs[j].text /\ runs[j].text \in Text
          BY <1>1, <1>5, <1>6, <3>3, <3>4, <4>1 DEF Run
        <5>2. Piece(e, C(j)) = <<>>
          BY <1>4, <5>1
        <5>. QED
          BY <1>7, <5>1, <5>2
      <4>2. CASE j = n + 1
        <5>1. g[j].frame = e /\ g[j].text = ToolText(e)
          BY <3>2, <3>3, <4>2
        <5>2. T(ToolChannel(e)) = <<>>
          BY <1>5, <1>6, <3>4
        <5>. QED
          BY <1>3, <1>4, <1>7, <5>1, <5>2
      <4>. QED
        BY <3>3, <4>1, <4>2
    <3>. QED
      BY <3>3, <3>5, <3>6, <3>7
  <2>2. CASE open # {}
    <3>1. PICK o \in DOMAIN runs : ToolKey(runs[o].frame) = ToolKey(e)
      BY <2>2
    <3>2. open = {o}
      BY <1>2, <3>1
    <3>3. g = [i \in DOMAIN runs |->
                 IF i \in open THEN [runs[i] EXCEPT !.text = @ \o ToolText(e)] ELSE runs[i]]
      BY <2>2 DEF Gathered
    <3>. HIDE DEF open
    <3>4. /\ DOMAIN g = DOMAIN runs /\ g = [j \in DOMAIN g |-> g[j]]
          /\ \A i \in DOMAIN runs : i # o => g[i] = runs[i]
          /\ g[o] = [runs[o] EXCEPT !.text = @ \o ToolText(e)]
      BY <3>2, <3>3
    <3>. HIDE DEF g
    <3>5. runs[o].text \o ToolText(e) \in Text
      <4>1. runs[o].text \in Text
        BY <1>1
      <4>. QED
        BY <1>3, <4>1, ConcatProperties DEF Text
    <3>6. g[o] \in Run /\ g[o].frame = runs[o].frame /\ g[o].text = runs[o].text \o ToolText(e)
      <4>1. runs[o] \in Run
        BY <1>1
      <4>. QED
        BY <3>4, <3>5, <4>1
    <3>7. \A j \in DOMAIN g : g[j] \in Run /\ g[j].frame = runs[j].frame
      BY <1>1, <3>4, <3>6
    <3>. HIDE DEF Run
    <3>8. g \in Seq(Run) /\ g # <<>>
      BY <1>1, <3>1, <3>4, <3>7, IsSequence
    <3>9. GoodRuns(g, E)
      BY <1>2, <3>4, <3>7, <3>8 DEF GoodRuns, Runs, Run
    <3>10. ASSUME NEW c
           PROVE  (\E j \in DOMAIN g : c = ToolChannel(g[j].frame)) <=>
                    (\E i \in DOMAIN runs : c = C(i)) \/ c = ToolChannel(e)
      BY <1>6, <3>1, <3>4, <3>7
    <3>11. ASSUME NEW j \in DOMAIN g
           PROVE  g[j].text = T(ToolChannel(g[j].frame)) \o Piece(e, ToolChannel(g[j].frame))
      <4>1. CASE j = o
        <5>1. C(o) = ToolChannel(e) /\ T(C(o)) = runs[o].text
          BY <1>5, <1>6, <3>1
        <5>. QED
          BY <1>4, <3>6, <4>1, <5>1
      <4>2. CASE j # o
        <5>1. /\ g[j] = runs[j] /\ C(j) # ToolChannel(e) /\ T(C(j)) = runs[j].text
              /\ runs[j].text \in Text
          BY <1>1, <1>2, <1>5, <1>6, <3>1, <3>4, <4>2 DEF Run
        <5>2. Piece(e, C(j)) = <<>>
          BY <1>4, <5>1
        <5>. QED
          BY <1>7, <5>1, <5>2
      <4>. QED
        BY <4>1, <4>2
    <3>. QED
      BY <3>8, <3>9, <3>10, <3>11
  <2>. QED
    BY <2>1, <2>2
<1>. HIDE DEF g
<1>9. Rendered(g) \in Seq(Events) /\ Rendered(runs) \in Seq(Events) /\ <<e>> \in Seq(Events)
  BY <1>3, <1>8, RenderedIs
<1>10. Channels(Rendered(g)) = Channels(Rendered(runs) \o <<e>>)
  <2>1. Channels(<<e>>) = {ToolChannel(e)}
    <3>1. Pieces(e) = {<<ToolChannel(e), ToolText(e)>>}
      BY <1>3 DEF Says
    <3>2. Channels(<<e>>) = {p[1] : p \in Pieces(e)}
      BY Speaking
    <3>. QED
      BY <3>1, <3>2
  <2>2. Channels(Rendered(runs) \o <<e>>) = Channels(Rendered(runs)) \cup Channels(<<e>>)
    BY <1>9, Speaking
  <2>3. ASSUME NEW c PROVE c \in Channels(Rendered(g)) <=> c \in Channels(Rendered(runs)) \/ c = ToolChannel(e)
    <3>1. c \in Channels(Rendered(g)) <=> \E j \in DOMAIN g : c = ToolChannel(g[j].frame)
      BY <1>8, RunOf
    <3>2. c \in Channels(Rendered(runs)) <=> \E i \in DOMAIN runs : c = C(i)
      BY RunOf
    <3>. QED
      BY <1>8, <3>1, <3>2
  <2>. QED
    BY <2>1, <2>2, <2>3
<1>11. ASSUME NEW c PROVE ChannelText(Rendered(g), c) = ChannelText(Rendered(runs) \o <<e>>, c)
  <2>1. ChannelText(Rendered(runs) \o <<e>>, c) = T(c) \o Piece(e, c)
    <3>1. /\ ChannelText(Rendered(runs) \o <<e>>, c) = T(c) \o ChannelText(<<e>>, c)
          /\ ChannelText(<<e>>, c) = Piece(e, c)
      BY <1>3, <1>9, Saying
    <3>. QED
      BY <3>1
  <2>. HIDE DEF T
  <2>2. CASE \E j \in DOMAIN g : c = ToolChannel(g[j].frame)
    <3>1. PICK j \in DOMAIN g : c = ToolChannel(g[j].frame)
      BY <2>2
    <3>2. ChannelText(Rendered(g), c) = g[j].text
      BY <1>8, <3>1, RunOf
    <3>. QED
      BY <1>8, <2>1, <3>1, <3>2
  <2>3. CASE ~\E j \in DOMAIN g : c = ToolChannel(g[j].frame)
    <3>1. ChannelText(Rendered(g), c) = <<>>
      BY <1>8, <1>9, <2>3, RunOf, Heard
    <3>2. T(c) = <<>> /\ Piece(e, c) = <<>>
      BY <1>4, <1>5, <1>8, <2>3
    <3>3. <<>> \o <<>> = <<>>
      OBVIOUS
    <3>. QED
      BY <2>1, <3>1, <3>2, <3>3
  <2>. QED
    BY <2>2, <2>3
<1>. QED
  BY <1>8, <1>10, <1>11 DEF SayTheSame, g

-----------------------------------------------------------------------------
(* Runs of pieces of the answer.                                           *)

\* The pieces of the answer held back: events that were sent, all of one key.
GoodRaw(raw, E) ==
  /\ raw \in Seq(Answer)
  /\ \A i \in DOMAIN raw : raw[i] \in E /\ TextKey(raw[i]) = TextKey(raw[1])

\* The texts of pieces of the answer, and what joins them.
LEMMA AnswerTexts ==
  ASSUME NEW raw \in Seq(Answer)
  PROVE  /\ raw \in Seq(Events) /\ Texts(raw) \in Seq(Text) /\ Joined(Texts(raw)) \in Text
         /\ DOMAIN Texts(raw) = DOMAIN raw /\ \A i \in DOMAIN raw : Texts(raw)[i] = TextOf(raw[i])
<1>1. DOMAIN raw = 1..Len(raw) /\ Len(raw) \in Nat /\ \A i \in DOMAIN raw : raw[i] \in Answer
  BY Elements
<1>2. \A i \in DOMAIN raw : TextOf(raw[i]) \in Text
  <2>1. <<>> \in Text
    BY DEF Text
  <2>. QED
    BY <1>1, <2>1, AnswerIs
<1>. DEFINE t == Texts(raw)
<1>3. /\ DOMAIN t = DOMAIN raw /\ t = [i \in DOMAIN t |-> t[i]]
      /\ \A i \in DOMAIN raw : t[i] = TextOf(raw[i])
  BY DEF Texts
<1>4. raw \in Seq(Events)
  <2>1. \A i \in DOMAIN raw : raw[i] \in Events
    BY <1>1 DEF Answer
  <2>2. raw = [i \in DOMAIN raw |-> raw[i]]
    OBVIOUS
  <2>. QED
    BY <1>1, <2>1, <2>2, IsSequence
<1>. HIDE DEF t
<1>5. t \in Seq(Text)
  BY <1>1, <1>2, <1>3, IsSequence
<1>. QED
  BY <1>3, <1>4, <1>5, JoinedStep DEF t

\* They are the pieces of one channel, and of no other.
LEMMA RawText ==
  ASSUME NEW E, Sent(E), NEW raw, GoodRaw(raw, E), raw # <<>>
  PROVE  /\ ChannelText(raw, TextChannel(raw[1])) = Joined(Texts(raw))
         /\ \A c : c # TextChannel(raw[1]) => ChannelText(raw, c) = <<>>
         /\ Channels(raw) \subseteq {TextChannel(raw[1])}
         /\ \A i \in DOMAIN raw : Adds(raw[i], TextChannel(raw[1]), TextOf(raw[i])) /\ ~IsToolFragment(raw[i])
<1>. DEFINE tc == TextChannel(raw[1])
<1>1. /\ raw \in Seq(Answer) /\ raw \in Seq(Events) /\ 1 \in DOMAIN raw
      /\ \A i \in DOMAIN raw : raw[i] \in E /\ raw[i] \in Answer /\ TextKey(raw[i]) = TextKey(raw[1])
  BY AnswerTexts, Elements DEF GoodRaw
<1>2. \A i \in DOMAIN raw : IsTextFragment(raw[i])
  BY <1>1 DEF Answer
<1>3. \A i \in DOMAIN raw : TextChannel(raw[i]) = tc
  BY <1>1, <1>2, TextKeys
<1>4. \A i \in DOMAIN raw : Adds(raw[i], tc, TextOf(raw[i])) /\ ~IsToolFragment(raw[i])
  <2>1. <<>> \in Text
    BY DEF Text
  <2>. QED
    BY <1>1, <1>2, <1>3, <2>1, TextSays
<1>. HIDE DEF tc
<1>5. \A i \in DOMAIN raw : \A c : Piece(raw[i], c) = IF c = tc THEN TextOf(raw[i]) ELSE <<>>
  BY <1>4, AddsOne
<1>6. ChannelText(raw, tc) = Joined(Texts(raw))
  <2>1. [i \in DOMAIN raw |-> Piece(raw[i], tc)] = Texts(raw)
    BY <1>5 DEF Texts
  <2>. QED
    BY <2>1 DEF ChannelText
<1>7. ASSUME NEW c, c # tc PROVE ChannelText(raw, c) = <<>>
  <2>1. \A i \in DOMAIN raw : Piece(raw[i], c) = <<>>
    BY <1>5, <1>7
  <2>. QED
    BY <1>1, <2>1, OnePiece
<1>8. Channels(raw) \subseteq {tc}
  <2>1. \A i \in DOMAIN raw : \A p \in Pieces(raw[i]) : p[1] = tc
    BY <1>4 DEF Adds
  <2>. QED
    BY <2>1 DEF Channels
<1>. QED
  BY <1>4, <1>6, <1>7, <1>8 DEF tc

\* Only a text that is not empty holds a value.
LEMMA NothingHeld ==
  ASSUME NEW values, OneValue(values), NEW v \in values
  PROVE  v \in Text /\ ~Holds(<<>>, v)
<1>1. v = Value /\ v \in Text /\ Len(v) \in Nat /\ Len(v) # 0
  BY StreamAssumption DEF OneValue, Text
<1>2. Len(<<>>) = 0 /\ <<>> \in Text
  BY DEF Text
<1>3. 1..(Len(<<>>) - Len(v) + 1) = {}
  BY <1>1, <1>2
<1>. QED
  BY <1>1, <1>3 DEF Holds

\* What comes out for them is pieces of the answer.
LEMMA FlushedIsAnswer ==
  ASSUME NEW values, OneValue(values), NEW raw \in Seq(Answer)
  PROVE  /\ Flushed(raw, values) \in Seq(Answer) /\ (raw = <<>> => Flushed(raw, values) = <<>>)
         /\ Flushed(raw, values) = raw \/
              /\ raw # <<>> /\ \E v \in values : Holds(Joined(Texts(raw)), v)
              /\ Flushed(raw, values) = <<WithTextOf(raw[1], Joined(Texts(raw)))>>
<1>. DEFINE j == Joined(Texts(raw))
<1>1. j \in Text
  BY AnswerTexts
<1>2. raw = <<>> => j = <<>>
  <2>1. raw = <<>> => Texts(raw) = <<>>
    BY DEF Texts
  <2>. QED
    BY <2>1, JoinedStep
<1>3. Flushed(raw, values) = IF \E v \in values : Holds(j, v) THEN <<WithTextOf(raw[1], j)>> ELSE raw
  BY DEF Flushed
<1>. HIDE DEF j
<1>4. CASE \E v \in values : Holds(j, v)
  <2>1. raw # <<>>
    BY <1>2, <1>4, NothingHeld
  <2>2. raw[1] \in Answer
    <3>1. Len(raw) \in Nat /\ Len(raw) # 0
      BY <2>1
    <3>2. 1 \in DOMAIN raw
      BY <3>1
    <3>. QED
      BY <3>2, Elements
  <2>3. WithTextOf(raw[1], j) \in Answer
    BY <1>1, <2>2, AnswerIs
  <2>. QED
    BY <1>3, <1>4, <2>1, <2>3 DEF j
<1>5. CASE ~\E v \in values : Holds(j, v)
  BY <1>3, <1>5
<1>. QED
  BY <1>4, <1>5

\* ... which say what they said, and no value once each is stored.
LEMMA FlushedIs ==
  ASSUME NEW values, OneValue(values), NEW E, Sent(E), NEW raw, GoodRaw(raw, E)
  PROVE  /\ SayTheSame(Flushed(raw, values), raw)
         /\ \A i \in DOMAIN Flushed(raw, values) : ~IsMark(Flushed(raw, values)[i])
         /\ \A c : ChannelText(Blanked(Flushed(raw, values), values), c) = Blank(ChannelText(raw, c), values)
<1>. DEFINE j == Joined(Texts(raw))
            f == Flushed(raw, values)
            tc == TextChannel(raw[1])
            w == WithTextOf(raw[1], j)
<1>1. raw \in Seq(Answer) /\ raw \in Seq(Events) /\ j \in Text
  BY AnswerTexts DEF GoodRaw
<1>2. CASE raw = <<>>
  <2>1. f = <<>>
    BY <1>1, <1>2, FlushedIsAnswer
  <2>2. \A c : ChannelText(raw, c) = <<>>
    BY <1>2, Saying
  <2>3. Blanked(<<>>, values) = <<>> /\ Blank(<<>>, values) = <<>>
    BY BlankedOne, BlankLetter
  <2>. QED
    BY <1>2, <2>1, <2>2, <2>3 DEF SayTheSame
<1>3. CASE raw # <<>>
  <2>1. /\ ChannelText(raw, tc) = j
        /\ \A c : c # tc => ChannelText(raw, c) = <<>>
        /\ Channels(raw) \subseteq {tc}
        /\ \A i \in DOMAIN raw : Adds(raw[i], tc, TextOf(raw[i]))
    BY <1>3, RawText
  <2>2. 1 \in DOMAIN raw
    BY <1>1, <1>3, Elements
  <2>3. Adds(w, tc, j)
    <3>1. raw[1] \in E /\ IsTextFragment(raw[1])
      BY <1>1, <2>2, Elements DEF GoodRaw, Answer
    <3>. QED
      BY <1>1, <3>1, TextSays
  <2>4. \/ f = raw /\ \A v \in values : ~Holds(j, v)
        \/ f = <<w>> /\ \E v \in values : Holds(j, v)
    BY DEF Flushed
  <2>. HIDE DEF f, j, tc, w
  <2>5. CASE f = raw /\ \A v \in values : ~Holds(j, v)
    <3>1. SayTheSame(f, raw)
      BY <2>5 DEF SayTheSame
    <3>2. \A i \in DOMAIN f : ~IsMark(f[i])
      BY <2>1, <2>5 DEF Adds
    <3>3. ASSUME NEW c PROVE ChannelText(Blanked(f, values), c) = Blank(ChannelText(raw, c), values)
      <4>1. ChannelText(raw, c) \in Text
        BY <1>1, Saying
      <4>2. \A v \in values : ~Holds(ChannelText(raw, c), v)
        <5>1. ChannelText(raw, c) = j \/ ChannelText(raw, c) = <<>>
          BY <2>1
        <5>. QED
          BY <2>5, <5>1, NothingHeld
      <4>3. Blank(ChannelText(raw, c), values) = ChannelText(raw, c)
        BY <4>1, <4>2, BlankOfNothing
      <4>4. ChannelText(Blanked(raw, values), c) = ChannelText(raw, c)
        BY <1>1, <4>2, BlankedOfNothing
      <4>. QED
        BY <2>5, <4>3, <4>4
    <3>. QED
      BY <3>1, <3>2, <3>3 DEF f
  <2>6. CASE f = <<w>> /\ \E v \in values : Holds(j, v)
    <3>1. j # <<>>
      BY <2>6, NothingHeld
    <3>2. Pieces(w) = {<<tc, j>>} /\ w \in Events /\ ~IsMark(w)
      BY <2>3, <3>1 DEF Adds, Answer
    <3>3. \A c : ChannelText(f, c) = ChannelText(raw, c)
      <4>1. \A c : ChannelText(f, c) = Piece(w, c)
        BY <2>6, <3>2, Saying
      <4>2. \A c : Piece(w, c) = IF c = tc THEN j ELSE <<>>
        BY <2>3, AddsOne
      <4>. QED
        BY <2>1, <4>1, <4>2
    <3>4. Channels(f) = {tc}
      <4>1. Channels(f) = {p[1] : p \in Pieces(w)}
        BY <2>6, Speaking
      <4>. QED
        BY <3>2, <4>1
    <3>5. tc \in Channels(raw)
      BY <1>1, <2>1, <3>1, Heard
    <3>6. SayTheSame(f, raw)
      BY <2>1, <3>3, <3>4, <3>5 DEF SayTheSame
    <3>7. \A i \in DOMAIN f : ~IsMark(f[i])
      BY <2>6, <3>2
    <3>8. ASSUME NEW c PROVE ChannelText(Blanked(f, values), c) = Blank(ChannelText(raw, c), values)
      <4>. DEFINE b == BlankEvent(w, values)
      <4>1. b \in Events /\ Piece(b, c) = Blank(Piece(w, c), values)
        BY <3>2, BlankPiece
      <4>2. Blanked(f, values) = <<b>>
        BY <2>6, <3>2, BlankedOne
      <4>. HIDE DEF b
      <4>3. ChannelText(Blanked(f, values), c) = Piece(b, c)
        BY <4>1, <4>2, Saying
      <4>4. ChannelText(f, c) = Piece(w, c)
        BY <2>6, <3>2, Saying
      <4>. QED
        BY <3>3, <4>1, <4>3, <4>4
    <3>. QED
      BY <3>6, <3>7, <3>8 DEF f
  <2>. QED
    BY <2>4, <2>5, <2>6
<1>. QED
  BY <1>2, <1>3

-----------------------------------------------------------------------------
(* The loops of the code, step by step.                                    *)

\* What the text of a fragment is, and what another leaves it.
LEMMA InputIs ==
  ASSUME NEW e \in Input, NEW text \in Text
  PROVE  ToolText(e) \in Text /\ WithToolText(e, text) \in Events
<1>. DEFINE w == WithToolText(e, text)
<1>1. e \in Events /\ IsToolFragment(e)
  BY DEF Input
<1>2. ASSUME NEW kind \in {"block", "item"}, e \in Deltas(kind) PROVE ToolText(e) \in Text /\ w \in Events
  <2>1. e.kind = kind /\ kind # "chunk"
    BY <1>2 DEF Deltas
  <2>2. w = [e EXCEPT !.text = text] /\ ToolText(e) = e.text
    BY <2>1 DEF WithToolText, ToolText
  <2>. HIDE DEF w
  <2>. QED
    BY <1>2, <2>2, DeltaSays DEF Says
<1>3. ASSUME e \in AllChunks PROVE ToolText(e) \in Text /\ w \in Events
  <2>1. /\ e.kind = "chunk" /\ e.reasoning \in Seq(Text) /\ Len(e.reasoning) <= 1
        /\ e.calls \in Seq([index : Nat, args : Text])
    BY <1>3 DEF AllChunks, AtMostOne, Calls
  <2>2. Len(e.calls) = 1 \/ (e.calls = <<>> /\ e.reasoning # <<>>)
    BY <1>1, <2>1 DEF IsToolFragment
  <2>3. CASE e.calls = <<>>
    <3>1. e.reasoning # <<>>
      BY <2>2, <2>3
    <3>2. e.reasoning[1] \in Text
      BY <2>1, <3>1, OneOf
    <3>3. ToolText(e) = e.reasoning[1] /\ w = [e EXCEPT !.reasoning = <<text>>]
      BY <2>1, <2>3 DEF ToolText, WithToolText
    <3>4. <<text>> \in AtMostOne(Text)
      BY DEF AtMostOne
    <3>5. w \in AllChunks
      BY <1>3, <3>3, <3>4 DEF AllChunks
    <3>. QED
      BY <3>2, <3>3, <3>5 DEF Events
  <2>4. CASE e.calls # <<>>
    <3>1. e.calls[1] \in [index : Nat, args : Text]
      <4>1. Len(e.calls) = 1
        BY <2>2, <2>4, Zenon
      <4>2. Len(e.calls) <= 1
        BY <4>1
      <4>. QED
        BY <2>1, <2>4, <4>2, OneOf
    <3>2. ToolText(e) = e.calls[1].args /\ w = [e EXCEPT !.calls = <<Call(e.calls[1].index, text)>>]
      BY <2>1, <2>4 DEF ToolText, WithToolText
    <3>3. <<Call(e.calls[1].index, text)>> \in Calls
      BY <3>1 DEF Calls, Call
    <3>4. w \in AllChunks
      BY <1>3, <3>2, <3>3 DEF AllChunks
    <3>. QED
      BY <3>1, <3>2, <3>4 DEF Events
  <2>. QED
    BY <2>3, <2>4
<1>4. e # Other
  BY <1>1 DEF Other, IsToolFragment
<1>. HIDE DEF w
<1>. QED
  BY <1>1, <1>2, <1>3, <1>4 DEF Events, w

\* Runs lengthen to runs, and come out as events.
LEMMA RunsAre ==
  ASSUME NEW runs \in Runs
  PROVE  Rendered(runs) \in Seq(Events) /\ \A e \in Input : Gathered(runs, e) \in Runs
<1>. DEFINE Run == [frame : Input, text : Text]
            r == Rendered(runs)
<1>1. DOMAIN runs = 1..Len(runs) /\ Len(runs) \in Nat /\ \A i \in DOMAIN runs : runs[i] \in Run
  <2>1. runs \in Seq(Run)
    BY DEF Runs
  <2>. HIDE DEF Run
  <2>. QED
    BY <2>1, Elements
<1>2. \A i \in DOMAIN runs : runs[i].frame \in Input /\ runs[i].text \in Text
  BY <1>1
<1>3. DOMAIN r = DOMAIN runs /\ r = [i \in DOMAIN r |-> r[i]]
      /\ \A i \in DOMAIN runs : r[i] = WithToolText(runs[i].frame, runs[i].text)
  BY DEF Rendered
<1>. HIDE DEF r
<1>4. \A i \in DOMAIN r : r[i] \in Events
  BY <1>2, <1>3, InputIs
<1>5. r \in Seq(Events)
  BY <1>1, <1>3, <1>4, IsSequence
<1>6. ASSUME NEW e \in Input PROVE Gathered(runs, e) \in Runs
  <2>. DEFINE open == {i \in DOMAIN runs : ToolKey(runs[i].frame) = ToolKey(e)}
              g == Gathered(runs, e)
  <2>0. ToolText(e) \in Text
    <3>1. <<>> \in Text
      BY DEF Text
    <3>. QED
      BY <3>1, InputIs
  <2>1. CASE open = {}
    <3>1. g = Append(runs, [frame |-> e, text |-> ToolText(e)])
      BY <2>1 DEF Gathered
    <3>2. [frame |-> e, text |-> ToolText(e)] \in Run
      BY <2>0
    <3>3. runs \in Seq(Run)
      BY DEF Runs
    <3>. DEFINE x == [frame |-> e, text |-> ToolText(e)]
    <3>. HIDE DEF Run, x
    <3>4. Append(runs, x) \in Seq(Run)
      BY <3>2, <3>3, AppendProperties DEF x
    <3>. QED
      BY <3>1, <3>4 DEF Runs, Run, x
  <2>2. CASE open # {}
    <3>1. g = [i \in DOMAIN runs |->
                 IF i \in open THEN [runs[i] EXCEPT !.text = @ \o ToolText(e)] ELSE runs[i]]
      BY <2>2 DEF Gathered
    <3>2. ASSUME NEW i \in DOMAIN runs PROVE [runs[i] EXCEPT !.text = @ \o ToolText(e)] \in Run
      <4>1. runs[i].text \o ToolText(e) \in Text
        BY <1>2, <2>0, ConcatProperties DEF Text
      <4>2. runs[i] \in Run
        BY <1>1
      <4>. QED
        BY <4>1, <4>2
    <3>. HIDE DEF open
    <3>3. DOMAIN g = DOMAIN runs /\ g = [i \in DOMAIN g |-> g[i]]
      BY <3>1
    <3>4. \A i \in DOMAIN runs : g[i] = runs[i] \/ g[i] = [runs[i] EXCEPT !.text = @ \o ToolText(e)]
      BY <3>1
    <3>. HIDE DEF g, Run
    <3>5. ASSUME NEW i \in DOMAIN g PROVE g[i] \in Run
      <4>1. i \in DOMAIN runs
        BY <3>3
      <4>2. runs[i] \in Run
        BY <1>1, <4>1
      <4>. QED
        BY <3>2, <3>4, <4>1, <4>2, Zenon
    <3>6. g \in Seq(Run)
      BY <1>1, <3>3, <3>5, IsSequence
    <3>. QED
      BY <3>6 DEF Runs, Run, g
  <2>. QED
    BY <2>1, <2>2
<1>. QED
  BY <1>5, <1>6 DEF r

\* CoalesceToolInput, event by event.
LEMMA ToolFoldStep ==
  /\ ToolFold(<<>>) = [out |-> <<>>, runs |-> <<>>]
  /\ \A s \in Seq(Events) : ToolFold(s) \in [out : Seq(Events), runs : Runs]
  /\ \A s \in Seq(Events), e \in Events :
       ToolFold(Append(s, e)) =
         IF IsToolFragment(e)
         THEN [out |-> ToolFold(s).out, runs |-> Gathered(ToolFold(s).runs, e)]
         ELSE [out |-> Append(ToolFold(s).out \o Rendered(ToolFold(s).runs), e), runs |-> <<>>]
<1>. DEFINE State == [out : Seq(Events), runs : Runs]
            step == ToolStep
            base == [out |-> <<>>, runs |-> <<>>]
<1>1. ASSUME NEW s \in State, NEW e \in Events
      PROVE  /\ step[s][e] \in State
             /\ step[s][e] = IF IsToolFragment(e)
                             THEN [out |-> s.out, runs |-> Gathered(s.runs, e)]
                             ELSE [out |-> Append(s.out \o Rendered(s.runs), e), runs |-> <<>>]
  <2>1. s.out \in Seq(Events) /\ s.runs \in Runs
    OBVIOUS
  <2>2. Rendered(s.runs) \in Seq(Events) /\ <<>> \in Runs
    <3>1. <<>> \in Runs
      BY DEF Runs
    <3>. QED
      BY <2>1, <3>1, RunsAre
  <2>3. Append(s.out \o Rendered(s.runs), e) \in Seq(Events)
    BY <2>1, <2>2, ConcatProperties, AppendProperties
  <2>4. IsToolFragment(e) => Gathered(s.runs, e) \in Runs
    BY <2>1, RunsAre DEF Input
  <2>5. step[s][e] = IF IsToolFragment(e) THEN [s EXCEPT !.runs = Gathered(s.runs, e)]
                     ELSE [out |-> Append(s.out \o Rendered(s.runs), e), runs |-> <<>>]
    BY DEF ToolStep
  <2>6. [s EXCEPT !.runs = Gathered(s.runs, e)] = [out |-> s.out, runs |-> Gathered(s.runs, e)]
    OBVIOUS
  <2>. HIDE DEF step
  <2>7. CASE IsToolFragment(e)
    BY <2>1, <2>4, <2>5, <2>6, <2>7
  <2>8. CASE ~IsToolFragment(e)
    BY <2>2, <2>3, <2>5, <2>8
  <2>. QED
    BY <2>7, <2>8
<1>2. step \in [State -> [Events -> State]]
  <2>1. \A s \in State : step[s] = [e \in Events |-> step[s][e]]
    BY DEF ToolStep
  <2>2. step = [s \in State |-> step[s]]
    BY DEF ToolStep
  <2>. HIDE DEF step, State
  <2>3. \A s \in State : step[s] \in [Events -> State]
    BY <1>1, <2>1
  <2>. QED
    BY <2>2, <2>3
<1>3. base \in State
  BY DEF Runs
<1>. HIDE DEF step, State, base
<1>4. \A s : ToolFold(s) = Folded(step, base, s)
  BY DEF ToolFold, step, base
<1>8. IsStep(step, base, State, Events)
  BY <1>2, <1>3 DEF IsStep
<1>5. /\ Folded(step, base, <<>>) = base
      /\ \A s \in Seq(Events) : Folded(step, base, s) \in State
      /\ \A s \in Seq(Events), e \in Events :
           Folded(step, base, Append(s, e)) = step[Folded(step, base, s)][e]
  BY <1>8, FoldStep
<1>6. ToolFold(<<>>) = base /\ \A s \in Seq(Events) : ToolFold(s) \in State
  BY <1>4, <1>5
<1>7. ASSUME NEW s \in Seq(Events), NEW e \in Events
      PROVE  ToolFold(Append(s, e)) =
               IF IsToolFragment(e)
               THEN [out |-> ToolFold(s).out, runs |-> Gathered(ToolFold(s).runs, e)]
               ELSE [out |-> Append(ToolFold(s).out \o Rendered(ToolFold(s).runs), e), runs |-> <<>>]
  <2>1. ToolFold(Append(s, e)) = step[ToolFold(s)][e]
    BY <1>4, <1>5
  <2>2. ToolFold(s) \in State
    BY <1>6
  <2>. QED
    BY <1>1, <2>1, <2>2
<1>. QED
  BY <1>6, <1>7 DEF State, base

\* CoalesceTextSpanning, event by event.
LEMMA TextFoldStep ==
  ASSUME NEW values, OneValue(values)
  PROVE  /\ TextFold(<<>>, values) = [out |-> <<>>, raw |-> <<>>]
         /\ \A s \in Seq(Events) : TextFold(s, values) \in [out : Seq(Events), raw : Seq(Answer)]
         /\ \A s \in Seq(Events), e \in Events :
              LET x == TextFold(s, values)
              IN TextFold(Append(s, e), values) =
                   IF ~IsTextFragment(e)
                   THEN [out |-> Append(x.out \o Flushed(x.raw, values), e), raw |-> <<>>]
                   ELSE IF x.raw # <<>> /\ TextKey(x.raw[1]) # TextKey(e)
                   THEN [out |-> x.out \o Flushed(x.raw, values), raw |-> <<e>>]
                   ELSE [out |-> x.out, raw |-> Append(x.raw, e)]
<1>. DEFINE State == [out : Seq(Events), raw : Seq(Answer)]
            step == TextStep(values)
            base == [out |-> <<>>, raw |-> <<>>]
            Next1(x, e) == IF ~IsTextFragment(e)
                   THEN [out |-> Append(x.out \o Flushed(x.raw, values), e), raw |-> <<>>]
                   ELSE IF x.raw # <<>> /\ TextKey(x.raw[1]) # TextKey(e)
                   THEN [out |-> x.out \o Flushed(x.raw, values), raw |-> <<e>>]
                   ELSE [out |-> x.out, raw |-> Append(x.raw, e)]
<1>1. ASSUME NEW s \in State, NEW e \in Events
      PROVE  step[s][e] \in State /\ step[s][e] = Next1(s, e)
  <2>1. s.out \in Seq(Events) /\ s.raw \in Seq(Answer)
    OBVIOUS
  <2>2. Flushed(s.raw, values) \in Seq(Answer)
    BY <2>1, FlushedIsAnswer
  <2>3. Flushed(s.raw, values) \in Seq(Events)
    BY <2>2, AnswerTexts
  <2>4. s.out \o Flushed(s.raw, values) \in Seq(Events)
    BY <2>1, <2>3, ConcatProperties
  <2>5. Append(s.out \o Flushed(s.raw, values), e) \in Seq(Events)
    BY <2>4, AppendProperties
  <2>6. IsTextFragment(e) => Append(s.raw, e) \in Seq(Answer) /\ <<e>> \in Seq(Answer)
    <3>1. IsTextFragment(e) => e \in Answer
      BY DEF Answer
    <3>. QED
      BY <2>1, <3>1
  <2>7. <<>> \in Seq(Answer)
    OBVIOUS
  <2>8. step[s][e] =
     IF ~IsTextFragment(e)
     THEN [out |-> Append(s.out \o Flushed(s.raw, values), e), raw |-> <<>>]
     ELSE IF s.raw # <<>> /\ TextKey(s.raw[1]) # TextKey(e)
     THEN [out |-> s.out \o Flushed(s.raw, values), raw |-> <<e>>]
     ELSE [s EXCEPT !.raw = Append(s.raw, e)]
    BY DEF TextStep
  <2>9. ASSUME NEW r PROVE [s EXCEPT !.raw = r] = [out |-> s.out, raw |-> r]
    OBVIOUS
  <2>. HIDE DEF step
  <2>10. step[s][e] = Next1(s, e)
    BY <2>8, <2>9, Zenon
  <2>11. Next1(s, e) \in State
    <3>1. CASE ~IsTextFragment(e)
      BY <2>5, <2>7, <3>1
    <3>2. CASE IsTextFragment(e)
      BY <2>1, <2>4, <2>6, <3>2
    <3>. QED
      BY <3>1, <3>2
  <2>. QED
    BY <2>10, <2>11
<1>2. step \in [State -> [Events -> State]]
  <2>1. \A s \in State : step[s] = [e \in Events |-> step[s][e]]
    BY DEF TextStep
  <2>2. step = [s \in State |-> step[s]]
    BY DEF TextStep
  <2>. HIDE DEF step, State, Next1
  <2>3. \A s \in State : step[s] \in [Events -> State]
    BY <1>1, <2>1
  <2>. QED
    BY <2>2, <2>3
<1>3. base \in State
  OBVIOUS
<1>. HIDE DEF step, State, base, Next1
<1>4. \A s : TextFold(s, values) = Folded(step, base, s)
  BY DEF TextFold, step, base
<1>5. IsStep(step, base, State, Events)
  BY <1>2, <1>3 DEF IsStep
<1>6. /\ Folded(step, base, <<>>) = base
      /\ \A s \in Seq(Events) : Folded(step, base, s) \in State
      /\ \A s \in Seq(Events), e \in Events :
           Folded(step, base, Append(s, e)) = step[Folded(step, base, s)][e]
  BY <1>5, FoldStep
<1>7. TextFold(<<>>, values) = base /\ \A s \in Seq(Events) : TextFold(s, values) \in State
  BY <1>4, <1>6
<1>8. ASSUME NEW s \in Seq(Events), NEW e \in Events
      PROVE  TextFold(Append(s, e), values) = Next1(TextFold(s, values), e)
  <2>1. TextFold(Append(s, e), values) = step[TextFold(s, values)][e]
    BY <1>4, <1>6
  <2>2. TextFold(s, values) \in State
    BY <1>7
  <2>. QED
    BY <1>1, <2>1, <2>2
<1>. QED
  BY <1>7, <1>8 DEF State, base, Next1

\* What was sent up to each moment.
LEMMA MomentsStep ==
  /\ Moments(<<>>) = <<>>
  /\ \A s \in Seq(Events) : Moments(s) \in Seq(Seq(Events))
  /\ \A s \in Seq(Events), e \in Events :
       Moments(Append(s, e)) = IF IsMark(e) THEN Append(Moments(s), Append(s, e)) ELSE Moments(s)
<1>. DEFINE State == [seen : Seq(Events), moments : Seq(Seq(Events))]
            step == MomentStep
            base == [seen |-> <<>>, moments |-> <<>>]
            F(s) == Folded(step, base, s)
            Next1(s, e) == [seen |-> Append(s.seen, e),
                            moments |-> IF IsMark(e) THEN Append(s.moments, Append(s.seen, e)) ELSE s.moments]
<1>1. ASSUME NEW s \in State, NEW e \in Events PROVE step[s][e] = Next1(s, e) /\ Next1(s, e) \in State
  <2>1. step[s][e] = Next1(s, e)
    BY DEF MomentStep
  <2>2. s.seen \in Seq(Events) /\ s.moments \in Seq(Seq(Events))
    OBVIOUS
  <2>3. Append(s.seen, e) \in Seq(Events)
    BY <2>2, AppendProperties
  <2>4. Append(s.moments, Append(s.seen, e)) \in Seq(Seq(Events))
    BY <2>2, <2>3, AppendProperties
  <2>. QED
    BY <2>1, <2>2, <2>3, <2>4
<1>2. step \in [State -> [Events -> State]]
  <2>1. \A s \in State : step[s] = [e \in Events |-> step[s][e]]
    BY DEF MomentStep
  <2>2. step = [s \in State |-> step[s]]
    BY DEF MomentStep
  <2>. HIDE DEF step, State, Next1
  <2>3. \A s \in State : step[s] \in [Events -> State]
    BY <1>1, <2>1
  <2>. QED
    BY <2>2, <2>3
<1>3. base \in State
  OBVIOUS
<1>4. \A s : Moments(s) = F(s).moments
  BY DEF Moments
<1>. HIDE DEF step, base, State, Next1
<1>5. IsStep(step, base, State, Events)
  BY <1>2, <1>3 DEF IsStep
<1>6. /\ F(<<>>) = base
      /\ \A s \in Seq(Events) : F(s) \in State
      /\ \A s \in Seq(Events), e \in Events : F(Append(s, e)) = step[F(s)][e]
  BY <1>5, FoldStep
<1>. HIDE DEF F
<1>7. \A s \in Seq(Events), e \in Events : F(Append(s, e)) = Next1(F(s), e)
  BY <1>1, <1>6
<1>8. \A s \in Seq(Events) : F(s).seen = s
  <2>. DEFINE S == {s \in Seq(Events) : F(s).seen = s}
  <2>1. <<>> \in S
    BY <1>6 DEF base
  <2>2. ASSUME NEW s \in Seq(Events), NEW e \in Events, s \in S PROVE Append(s, e) \in S
    <3>1. F(Append(s, e)).seen = Append(F(s).seen, e)
      BY <1>7 DEF Next1
    <3>. QED
      BY <2>2, <3>1, AppendProperties
  <2>. HIDE DEF S
  <2>3. \A s \in Seq(Events) : s \in S
    BY <2>1, <2>2, SeqInduction
  <2>. QED
    BY <2>3 DEF S
<1>9. Moments(<<>>) = <<>>
  BY <1>4, <1>6 DEF base
<1>10. \A s \in Seq(Events) : Moments(s) \in Seq(Seq(Events))
  BY <1>4, <1>6 DEF State
<1>11. ASSUME NEW s \in Seq(Events), NEW e \in Events
       PROVE  Moments(Append(s, e)) = IF IsMark(e) THEN Append(Moments(s), Append(s, e)) ELSE Moments(s)
  <2>1. F(Append(s, e)).moments = IF IsMark(e) THEN Append(F(s).moments, Append(F(s).seen, e)) ELSE F(s).moments
    <3>1. F(Append(s, e)) = Next1(F(s), e)
      BY <1>7
    <3>2. Next1(F(s), e).moments = IF IsMark(e) THEN Append(F(s).moments, Append(F(s).seen, e)) ELSE F(s).moments
      BY DEF Next1
    <3>. QED
      BY <3>1, <3>2
  <2>2. F(s).seen = s
    BY <1>8
  <2>. QED
    BY <1>4, <2>1, <2>2
<1>. QED
  BY <1>9, <1>10, <1>11

\* The stretches of a stream, event by event.
LEMMA StretchesStep ==
  /\ Stretches(<<>>) = <<>>
  /\ \A s \in Seq(Events) : Stretches(s) \in Seq(Seq(Events))
  /\ \A s \in Seq(Events), e \in Events :
       LET ss == Stretches(s)
       IN Stretches(Append(s, e)) =
            IF ss # <<>> /\ SameStretch(Last(ss)[1], e)
            THEN [ss EXCEPT ![Len(ss)] = Append(@, e)] ELSE Append(ss, <<e>>)
<1>. DEFINE State == Seq(Seq(Events))
            step == StretchStep
            Next1(ss, e) == IF ss # <<>> /\ SameStretch(Last(ss)[1], e)
                            THEN [ss EXCEPT ![Len(ss)] = Append(@, e)] ELSE Append(ss, <<e>>)
<1>1. ASSUME NEW ss \in State, NEW e \in Events PROVE step[ss][e] = Next1(ss, e) /\ Next1(ss, e) \in State
  <2>1. step[ss][e] = Next1(ss, e)
    BY DEF StretchStep
  <2>. HIDE DEF step
  <2>2. CASE ss # <<>> /\ SameStretch(Last(ss)[1], e)
    <3>1. ss \in Seq(Seq(Events)) /\ Len(ss) \in DOMAIN ss
      <4>1. Len(ss) \in Nat /\ Len(ss) # 0 /\ DOMAIN ss = 1..Len(ss)
        BY <2>2
      <4>. QED
        BY <4>1
    <3>2. Append(ss[Len(ss)], e) \in Seq(Events)
      <4>1. ss[Len(ss)] \in Seq(Events)
        BY <3>1, Elements
      <4>. QED
        BY <4>1, AppendProperties
    <3>3. [ss EXCEPT ![Len(ss)] = Append(@, e)] \in Seq(Seq(Events))
      BY <3>1, <3>2
    <3>. QED
      BY <2>1, <2>2, <3>3
  <2>3. CASE ~(ss # <<>> /\ SameStretch(Last(ss)[1], e))
    <3>1. <<e>> \in Seq(Events)
      OBVIOUS
    <3>2. Append(ss, <<e>>) \in Seq(Seq(Events))
      BY <3>1, AppendProperties
    <3>. QED
      BY <2>1, <2>3, <3>2
  <2>. QED
    BY <2>2, <2>3
<1>2. step \in [State -> [Events -> State]]
  <2>1. \A s \in State : step[s] = [e \in Events |-> step[s][e]]
    BY DEF StretchStep
  <2>2. step = [s \in State |-> step[s]]
    BY DEF StretchStep
  <2>. HIDE DEF step, State, Next1
  <2>3. \A s \in State : step[s] \in [Events -> State]
    BY <1>1, <2>1
  <2>. QED
    BY <2>2, <2>3
<1>3. <<>> \in State
  OBVIOUS
<1>4. \A s : Stretches(s) = Folded(step, <<>>, s)
  BY DEF Stretches
<1>. HIDE DEF step, State, Next1
<1>5. IsStep(step, <<>>, State, Events)
  BY <1>2, <1>3 DEF IsStep
<1>6. /\ Folded(step, <<>>, <<>>) = <<>>
      /\ \A s \in Seq(Events) : Folded(step, <<>>, s) \in State
      /\ \A s \in Seq(Events), e \in Events :
           Folded(step, <<>>, Append(s, e)) = step[Folded(step, <<>>, s)][e]
  BY <1>5, FoldStep
<1>7. \A s \in Seq(Events), e \in Events : Stretches(Append(s, e)) = Next1(Stretches(s), e)
  BY <1>1, <1>4, <1>6
<1>. QED
  BY <1>4, <1>6, <1>7 DEF State, Next1

\* Events in sequence.
LEMMA InSequence ==
  /\ \A a, b \in Seq(Events) : a \o b \in Seq(Events)
  /\ \A a, b, c \in Seq(Events) : (a \o b) \o c = a \o (b \o c)
  /\ \A a \in Seq(Events) : a \o <<>> = a /\ <<>> \o a = a
  /\ \A a \in Seq(Events), e \in Events : Append(a, e) \in Seq(Events) /\ Append(a, e) # <<>>
  /\ \A a \in Seq(Events), e \in Events : Append(a, e) = a \o <<e>>
  /\ \A a, b \in Seq(Events), e \in Events : a \o Append(b, e) = Append(a \o b, e)
  /\ <<>> \in Seq(Events) /\ \A e \in Events : <<e>> \in Seq(Events)
<1>1. \A a, b \in Seq(Events) : a \o b \in Seq(Events)
  BY ConcatProperties
<1>2. \A a, b, c \in Seq(Events) : (a \o b) \o c = a \o (b \o c)
  BY ConcatAssociative
<1>3. \A a \in Seq(Events) : a \o <<>> = a /\ <<>> \o a = a
  BY ConcatEmptySeq
<1>4. \A a \in Seq(Events), e \in Events : Append(a, e) \in Seq(Events) /\ Append(a, e) # <<>>
  BY AppendProperties
<1>5. \A a \in Seq(Events), e \in Events : Append(a, e) = a \o <<e>>
  BY AppendIsConcat
<1>6. <<>> \in Seq(Events) /\ \A e \in Events : <<e>> \in Seq(Events)
  OBVIOUS
<1>7. ASSUME NEW a \in Seq(Events), NEW b \in Seq(Events), NEW e \in Events
      PROVE  a \o Append(b, e) = Append(a \o b, e)
  <2>. DEFINE c == <<e>>
  <2>1. c \in Seq(Events) /\ Append(b, e) = b \o c
    BY <1>5, <1>6
  <2>2. a \o b \in Seq(Events)
    BY <1>1
  <2>3. Append(a \o b, e) = (a \o b) \o c
    BY <1>5, <2>2
  <2>. HIDE DEF c
  <2>4. (a \o b) \o c = a \o (b \o c)
    BY <1>2, <2>1
  <2>. QED
    BY <2>1, <2>3, <2>4
<1>. QED
  BY <1>1, <1>2, <1>3, <1>4, <1>5, <1>6, <1>7

\* Events that are no pieces of the answer end a run of them, and follow it.
LEMMA TextOver ==
  ASSUME NEW values, OneValue(values), NEW s \in Seq(Events), NEW r \in Seq(Events),
         \A i \in DOMAIN r : ~IsTextFragment(r[i])
  PROVE  LET x == TextFold(s, values)
         IN TextFold(s \o r, values) =
              IF r = <<>> THEN x
              ELSE [out |-> (x.out \o Flushed(x.raw, values)) \o r, raw |-> <<>>]
<1>. DEFINE x == TextFold(s, values)
            q == x.out \o Flushed(x.raw, values)
            No(t) == \A i \in DOMAIN t : ~IsTextFragment(t[i])
            Ends(t) == TextFold(s \o t, values) = IF t = <<>> THEN x ELSE [out |-> q \o t, raw |-> <<>>]
            S == {t \in Seq(Events) : No(t) => Ends(t)}
<1>1. x.out \in Seq(Events) /\ x.raw \in Seq(Answer)
  BY TextFoldStep
<1>2. q \in Seq(Events)
  <2>1. Flushed(x.raw, values) \in Seq(Answer)
    BY <1>1, FlushedIsAnswer
  <2>2. Flushed(x.raw, values) \in Seq(Events)
    BY <2>1, AnswerTexts
  <2>. QED
    BY <1>1, <2>2, ConcatProperties
<1>3. Flushed(<<>>, values) = <<>>
  <2>1. <<>> \in Seq(Answer)
    OBVIOUS
  <2>. QED
    BY <2>1, FlushedIsAnswer
<1>4. <<>> \in S
  <2>1. s \o <<>> = s
    BY ConcatEmptySeq
  <2>. QED
    BY <2>1
<1>5. ASSUME NEW t \in Seq(Events), NEW e \in Events, t \in S PROVE Append(t, e) \in S
  <2>1. SUFFICES ASSUME No(Append(t, e)) PROVE Ends(Append(t, e))
    BY AppendProperties
  <2>2. No(t) /\ ~IsTextFragment(e)
    <3>1. /\ \A i \in DOMAIN t : i \in DOMAIN Append(t, e) /\ Append(t, e)[i] = t[i]
          /\ Len(t) + 1 \in DOMAIN Append(t, e) /\ Append(t, e)[Len(t) + 1] = e
      OBVIOUS
    <3>. QED
      BY <2>1, <3>1
  <2>3. Ends(t)
    BY <1>5, <2>2
  <2>4. s \o Append(t, e) = Append(s \o t, e) /\ s \o t \in Seq(Events) /\ Append(t, e) # <<>>
    <3>1. s \o Append(t, e) = Append(s \o t, e)
      BY InSequence
    <3>2. s \o t \in Seq(Events)
      BY InSequence
    <3>3. Append(t, e) # <<>>
      OBVIOUS
    <3>. QED
      BY <3>1, <3>2, <3>3
  <2>. DEFINE y == TextFold(s \o t, values)
  <2>5. TextFold(Append(s \o t, e), values) = [out |-> Append(y.out \o Flushed(y.raw, values), e), raw |-> <<>>]
    BY <2>2, <2>4, TextFoldStep
  <2>6. y.out \o Flushed(y.raw, values) = q \o t
    <3>1. CASE t = <<>>
      <4>1. y = x
        BY <2>3, <3>1
      <4>2. q \o <<>> = q
        BY <1>2, ConcatEmptySeq
      <4>. QED
        BY <3>1, <4>1, <4>2
    <3>2. CASE t # <<>>
      <4>1. y.out = q \o t /\ y.raw = <<>>
        <5>1. y = [out |-> q \o t, raw |-> <<>>]
          BY <2>3, <3>2
        <5>. HIDE DEF y, q
        <5>. QED
          BY <5>1
      <4>2. q \o t \in Seq(Events)
        BY <1>2, ConcatProperties
      <4>3. (q \o t) \o <<>> = q \o t
        BY <4>2, ConcatEmptySeq
      <4>. QED
        BY <1>3, <4>1, <4>3
    <3>. QED
      BY <3>1, <3>2
  <2>. HIDE DEF x, y, q
  <2>7. Append(q \o t, e) = q \o Append(t, e)
    <3>1. q \o Append(t, e) = Append(q \o t, e)
      BY <1>2, InSequence
    <3>. QED
      BY <3>1
  <2>. QED
    BY <2>4, <2>5, <2>6, <2>7
<1>. HIDE DEF S, x, q
<1>6. \A t \in Seq(Events) : t \in S
  BY <1>4, <1>5, SeqInduction
<1>7. Ends(r)
  BY <1>6 DEF S
<1>. QED
  BY <1>7 DEF x, q

\* Where there is no value, nothing is joined.
LEMMA TextWhole ==
  ASSUME NEW values, values = {}
  PROVE  /\ \A raw : Flushed(raw, values) = raw
         /\ \A s \in Seq(Events) : TextFold(s, values).out \o TextFold(s, values).raw = s
<1>1. ASSUME NEW raw PROVE Flushed(raw, values) = raw
  BY DEF Flushed
<1>2. OneValue(values)
  BY DEF OneValue
<1>. DEFINE S == {s \in Seq(Events) : TextFold(s, values).out \o TextFold(s, values).raw = s}
<1>3. <<>> \in S
  <2>1. TextFold(<<>>, values) = [out |-> <<>>, raw |-> <<>>] 
    BY <1>2, TextFoldStep
  <2>2. <<>> \o <<>> = <<>> /\ <<>> \in Seq(Events)
    OBVIOUS
  <2>3. TextFold(<<>>, values).out = <<>> /\ TextFold(<<>>, values).raw = <<>>
    BY <2>1
  <2>. QED
    BY <2>2, <2>3, Zenon
<1>4. ASSUME NEW s \in Seq(Events), NEW e \in Events, s \in S PROVE Append(s, e) \in S
  <2>. DEFINE x == TextFold(s, values)
              y == TextFold(Append(s, e), values)
              o == x.out
              r == x.raw
  <2>1. o \in Seq(Events) /\ r \in Seq(Events) /\ o \o r = s
    <3>1. x.out \in Seq(Events) /\ x.raw \in Seq(Answer)
      BY <1>2, TextFoldStep
    <3>2. x.raw \in Seq(Events)
      BY <3>1, AnswerTexts
    <3>. QED
      BY <1>4, <3>1, <3>2
  <2>2. y = IF ~IsTextFragment(e)
            THEN [out |-> Append(o \o Flushed(r, values), e), raw |-> <<>>]
            ELSE IF r # <<>> /\ TextKey(r[1]) # TextKey(e)
            THEN [out |-> o \o Flushed(r, values), raw |-> <<e>>]
            ELSE [out |-> o, raw |-> Append(r, e)]
    BY <1>2, TextFoldStep
  <2>3. Flushed(r, values) = r
    BY <1>1
  <2>4. \/ y.out = Append(s, e) /\ y.raw = <<>>
        \/ y.out = s /\ y.raw = <<e>>
        \/ y.out = o /\ y.raw = Append(r, e)
    <3>. HIDE DEF y, o, r
    <3>1. o \o Flushed(r, values) = s
      BY <2>1, <2>3, Zenon
    <3>2. y = IF ~IsTextFragment(e)
              THEN [out |-> Append(s, e), raw |-> <<>>]
              ELSE IF r # <<>> /\ TextKey(r[1]) # TextKey(e)
              THEN [out |-> s, raw |-> <<e>>]
              ELSE [out |-> o, raw |-> Append(r, e)]
      BY <2>2, <3>1, Zenon
    <3>. QED
      BY <3>2
  <2>. HIDE DEF y, o, r
  <2>5. Append(s, e) \in Seq(Events) /\ Append(s, e) \o <<>> = Append(s, e) /\ s \o <<e>> = Append(s, e)
    BY InSequence
  <2>6. o \o Append(r, e) = Append(s, e)
    <3>1. \A a, b \in Seq(Events), d \in Events : a \o Append(b, d) = Append(a \o b, d)
      BY InSequence
    <3>2. o \o Append(r, e) = Append(o \o r, e)
      BY <2>1, <3>1, Zenon
    <3>. QED
      BY <2>1, <3>2, Zenon
  <2>7. y.out \o y.raw = Append(s, e)
    BY <2>4, <2>5, <2>6
  <2>. QED
    BY <2>5, <2>7 DEF y
<1>. HIDE DEF S
<1>5. \A s \in Seq(Events) : s \in S
  BY <1>3, <1>4, SeqInduction
<1>. QED
  BY <1>1, <1>5 DEF S

-----------------------------------------------------------------------------
(* Both coalescings together: what is out for good, the pieces of the answer *)
(* held back behind it, and the runs held back behind those.               *)

\* Out for good, held back by CoalesceTextSpanning, and by CoalesceToolInput.
Out(s, values) == TextFold(ToolFold(s).out, values).out
Raw(s, values) == TextFold(ToolFold(s).out, values).raw
Open(s) == ToolFold(s).runs
\* What is held back is of the one provider, and all of it goes out at the end.
Shaped(s, values, E) ==
  s \in Seq(Events) /\ GoodRaw(Raw(s, values), E) /\ GoodRuns(Open(s), E)
All(s, values) == (Out(s, values) \o Flushed(Raw(s, values), values)) \o Rendered(Open(s))

\* All of these are sequences of events.
LEMMA Parts ==
  ASSUME NEW E, Sent(E), NEW values, OneValue(values), NEW s, Shaped(s, values, E)
  PROVE  /\ ToolFold(s).out \in Seq(Events) /\ Out(s, values) \in Seq(Events)
         /\ Raw(s, values) \in Seq(Events) /\ Raw(s, values) \in Seq(Answer)
         /\ Flushed(Raw(s, values), values) \in Seq(Events)
         /\ Rendered(Open(s)) \in Seq(Events)
         /\ (Rendered(Open(s)) = <<>> <=> Open(s) = <<>>)
         /\ \A i \in DOMAIN Rendered(Open(s)) : ~IsTextFragment(Rendered(Open(s))[i])
         /\ Out(s, values) \o Flushed(Raw(s, values), values) \in Seq(Events)
         /\ All(s, values) \in Seq(Events)
<1>1. s \in Seq(Events) /\ GoodRaw(Raw(s, values), E) /\ GoodRuns(Open(s), E)
  BY DEF Shaped
<1>2. ToolFold(s).out \in Seq(Events)
  BY <1>1, ToolFoldStep
<1>3. Out(s, values) \in Seq(Events) /\ Raw(s, values) \in Seq(Answer)
  BY <1>2, TextFoldStep DEF Out, Raw
<1>4. Raw(s, values) \in Seq(Events)
  BY <1>3, AnswerTexts
<1>5. Flushed(Raw(s, values), values) \in Seq(Events)
  <2>1. Flushed(Raw(s, values), values) \in Seq(Answer)
    BY <1>3, FlushedIsAnswer
  <2>. QED
    BY <2>1, AnswerTexts
<1>6. /\ Rendered(Open(s)) \in Seq(Events) /\ DOMAIN Rendered(Open(s)) = DOMAIN Open(s)
      /\ Len(Rendered(Open(s))) = Len(Open(s))
      /\ \A i \in DOMAIN Rendered(Open(s)) : ~IsTextFragment(Rendered(Open(s))[i])
  <2>. DEFINE runs == Open(s)
  <2>1. GoodRuns(runs, E)
    BY <1>1
  <2>. HIDE DEF runs
  <2>2. /\ Rendered(runs) \in Seq(Events) /\ DOMAIN Rendered(runs) = DOMAIN runs
        /\ Len(Rendered(runs)) = Len(runs)
        /\ \A i \in DOMAIN runs : ~IsTextFragment(Rendered(runs)[i])
    BY <2>1, RenderedIs
  <2>. QED
    BY <2>2 DEF runs
<1>7. Rendered(Open(s)) = <<>> <=> Open(s) = <<>>
  <2>1. Open(s) = [i \in 1..Len(Open(s)) |-> Open(s)[i]]
    BY <1>1 DEF GoodRuns, Runs
  <2>2. Len(Open(s)) = 0 <=> Open(s) = <<>>
    BY <1>1 DEF GoodRuns, Runs
  <2>3. Len(Rendered(Open(s))) = 0 <=> Rendered(Open(s)) = <<>>
    BY <1>6
  <2>. QED
    BY <1>6, <2>2, <2>3
<1>8. Out(s, values) \o Flushed(Raw(s, values), values) \in Seq(Events)
  BY <1>3, <1>5, InSequence
<1>9. All(s, values) \in Seq(Events)
  BY <1>6, <1>8, InSequence DEF All
<1>. QED
  BY <1>2, <1>3, <1>4, <1>5, <1>6, <1>7, <1>8, <1>9

\* What the second coalescing has of the events the first puts out.
LEMMA Emitted ==
  ASSUME NEW E, Sent(E), NEW values, OneValue(values), NEW s, Shaped(s, values, E)
  PROVE  /\ CoalesceToolInput(s) = ToolFold(s).out \o Rendered(Open(s))
         /\ CoalesceToolInput(s) \in Seq(Events)
         /\ Open(s) = <<>> =>
              /\ TextFold(CoalesceToolInput(s), values).out = Out(s, values)
              /\ TextFold(CoalesceToolInput(s), values).raw = Raw(s, values)
              /\ All(s, values) = Out(s, values) \o Flushed(Raw(s, values), values)
         /\ Open(s) # <<>> =>
              /\ TextFold(CoalesceToolInput(s), values).out = All(s, values)
              /\ TextFold(CoalesceToolInput(s), values).raw = <<>>
<1>. DEFINE o == ToolFold(s).out
            r == Rendered(Open(s))
            x == TextFold(o, values)
            q == Out(s, values) \o Flushed(Raw(s, values), values)
<1>1. /\ o \in Seq(Events) /\ r \in Seq(Events) /\ (r = <<>> <=> Open(s) = <<>>)
      /\ \A i \in DOMAIN r : ~IsTextFragment(r[i])
  BY Parts
<1>2. q \in Seq(Events) /\ All(s, values) = q \o r
  BY Parts DEF All
<1>3. CoalesceToolInput(s) = o \o r
  BY DEF CoalesceToolInput, Open
<1>4. x.out = Out(s, values) /\ x.raw = Raw(s, values) /\ q = x.out \o Flushed(x.raw, values)
  BY DEF Out, Raw
<1>. HIDE DEF o, r
<1>5. TextFold(o \o r, values) =
        IF r = <<>> THEN x ELSE [out |-> (x.out \o Flushed(x.raw, values)) \o r, raw |-> <<>>]
  BY <1>1, TextOver
<1>. HIDE DEF x, q
<1>6. o \o r \in Seq(Events)
  BY <1>1, InSequence
<1>7. CASE Open(s) = <<>>
  <2>1. TextFold(o \o r, values) = x
    BY <1>1, <1>5, <1>7
  <2>2. q \o <<>> = q
    BY <1>2, InSequence
  <2>3. All(s, values) = q
    BY <1>1, <1>2, <1>7, <2>2, Zenon
  <2>. QED
    BY <1>3, <1>4, <1>6, <1>7, <2>1, <2>3 DEF q, o, r
<1>8. CASE Open(s) # <<>>
  <2>1. TextFold(o \o r, values) = [out |-> q \o r, raw |-> <<>>]
    BY <1>1, <1>4, <1>5, <1>8
  <2>2. TextFold(o \o r, values).out = q \o r /\ TextFold(o \o r, values).raw = <<>>
    BY <2>1
  <2>. QED
    BY <1>2, <1>3, <1>6, <1>8, <2>2 DEF o, r
<1>. QED
  BY <1>7, <1>8

\* At the end of the stream all that is held back goes out.
LEMMA CoalescedIs ==
  ASSUME NEW E, Sent(E), NEW values, OneValue(values), NEW s, Shaped(s, values, E)
  PROVE  Coalesced(s, values) = All(s, values)
<1>. DEFINE a == CoalesceToolInput(s)
            y == TextFold(a, values)
<1>1. a \in Seq(Events) /\ a = ToolFold(s).out \o Rendered(Open(s))
  BY Emitted
<1>2. Coalesced(s, values) = IF values = {} THEN a ELSE y.out \o Flushed(y.raw, values)
  BY DEF Coalesced, CoalesceTextSpanning
<1>3. CASE values = {}
  <2>1. Flushed(Raw(s, values), values) = Raw(s, values)
    BY <1>3, TextWhole
  <2>2. ToolFold(s).out \in Seq(Events)
    BY Parts
  <2>3. Out(s, values) \o Raw(s, values) = ToolFold(s).out
    BY <1>3, <2>2, TextWhole DEF Out, Raw
  <2>4. All(s, values) = a
    BY <1>1, <2>1, <2>3, Zenon DEF All
  <2>. QED
    BY <1>2, <1>3, <2>4
<1>4. CASE values # {} /\ Open(s) = <<>>
  BY <1>2, <1>4, Emitted
<1>5. CASE values # {} /\ Open(s) # <<>>
  <2>1. Flushed(<<>>, values) = <<>>
    <3>1. <<>> \in Seq(Answer)
      OBVIOUS
    <3>. QED
      BY <3>1, FlushedIsAnswer
  <2>2. y.out = All(s, values) /\ y.raw = <<>>
    BY <1>5, Emitted
  <2>3. All(s, values) \in Seq(Events)
    BY Parts
  <2>4. All(s, values) \o <<>> = All(s, values)
    BY <2>3, InSequence
  <2>. HIDE DEF y
  <2>. QED
    BY <1>2, <1>5, <2>1, <2>2, <2>4
<1>. QED
  BY <1>3, <1>4, <1>5

\* One more event, in the four ways there are.
Gathers(s, e, values) ==
  /\ IsToolFragment(e)
  /\ Out(Append(s, e), values) = Out(s, values)
  /\ Raw(Append(s, e), values) = Raw(s, values)
  /\ Open(Append(s, e)) = Gathered(Open(s), e)
Continues(s, e, values) ==
  /\ ~IsToolFragment(e) /\ IsTextFragment(e)
  /\ Open(s) = <<>> /\ Raw(s, values) # <<>> /\ TextKey(Raw(s, values)[1]) = TextKey(e)
  /\ Out(Append(s, e), values) = Out(s, values)
  /\ Raw(Append(s, e), values) = Append(Raw(s, values), e)
  /\ Open(Append(s, e)) = <<>>
Starts(s, e, values) ==
  /\ ~IsToolFragment(e) /\ IsTextFragment(e)
  /\ (Open(s) = <<>> /\ Raw(s, values) # <<>>) => TextKey(Raw(s, values)[1]) # TextKey(e)
  /\ Out(Append(s, e), values) = All(s, values)
  /\ Raw(Append(s, e), values) = <<e>>
  /\ Open(Append(s, e)) = <<>>
Ends(s, e, values) ==
  /\ ~IsToolFragment(e) /\ ~IsTextFragment(e)
  /\ Out(Append(s, e), values) = Append(All(s, values), e)
  /\ Raw(Append(s, e), values) = <<>>
  /\ Open(Append(s, e)) = <<>>

\* ... and no other.
LEMMA Going ==
  ASSUME NEW E, Sent(E), NEW values, OneValue(values), NEW s, Shaped(s, values, E),
         NEW e \in E \cup {Other}
  PROVE  \/ Gathers(s, e, values)
         \/ Continues(s, e, values)
         \/ Starts(s, e, values)
         \/ Ends(s, e, values)
<1>1. e \in Events /\ s \in Seq(Events)
  BY SentEvents DEF Shaped
<1>. DEFINE t == Append(s, e)
            a == CoalesceToolInput(s)
            y == TextFold(a, values)
            raw == Raw(s, values)
            out == Out(s, values)
            all == All(s, values)
<1>2. ToolFold(t) =
        IF IsToolFragment(e) THEN [out |-> ToolFold(s).out, runs |-> Gathered(ToolFold(s).runs, e)]
        ELSE [out |-> Append(ToolFold(s).out \o Rendered(ToolFold(s).runs), e), runs |-> <<>>]
  BY <1>1, ToolFoldStep
<1>3. CASE IsToolFragment(e)
  <2>1. ToolFold(t).out = ToolFold(s).out /\ ToolFold(t).runs = Gathered(ToolFold(s).runs, e)
    BY <1>2, <1>3
  <2>. QED
    BY <1>3, <2>1 DEF Gathers, Out, Raw, Open
<1>4. CASE ~IsToolFragment(e)
  <2>1. a = ToolFold(s).out \o Rendered(ToolFold(s).runs) /\ a \in Seq(Events)
    BY Emitted DEF Open
  <2>. HIDE DEF a
  <2>2. ToolFold(t) = [out |-> Append(a, e), runs |-> <<>>]
    BY <1>2, <1>4, <2>1
  <2>3. ToolFold(t).out = Append(a, e) /\ Open(t) = <<>>
    BY <2>2 DEF Open
  <2>4. TextFold(Append(a, e), values) =
          IF ~IsTextFragment(e)
          THEN [out |-> Append(y.out \o Flushed(y.raw, values), e), raw |-> <<>>]
          ELSE IF y.raw # <<>> /\ TextKey(y.raw[1]) # TextKey(e)
          THEN [out |-> y.out \o Flushed(y.raw, values), raw |-> <<e>>]
          ELSE [out |-> y.out, raw |-> Append(y.raw, e)]
    BY <1>1, <2>1, TextFoldStep
  <2>5. /\ Open(s) = <<>> => y.out = out /\ y.raw = raw /\ all = out \o Flushed(raw, values)
        /\ Open(s) # <<>> => y.out = all /\ y.raw = <<>>
    BY Emitted DEF a
  <2>6. /\ Flushed(<<>>, values) = <<>> /\ out \o <<>> = out /\ all \o <<>> = all
        /\ Append(<<>>, e) = <<e>>
    <3>1. <<>> \in Seq(Answer) /\ Append(<<>>, e) = <<e>>
      OBVIOUS
    <3>2. out \in Seq(Events) /\ all \in Seq(Events)
      BY Parts
    <3>3. out \o <<>> = out /\ all \o <<>> = all
      BY <3>2, InSequence
    <3>4. Flushed(<<>>, values) = <<>>
      BY <3>1, FlushedIsAnswer
    <3>. QED
      BY <3>1, <3>3, <3>4
  <2>7. Out(t, values) = TextFold(Append(a, e), values).out /\ Raw(t, values) = TextFold(Append(a, e), values).raw
    BY <2>3 DEF Out, Raw
  <2>8. y.out \o Flushed(y.raw, values) = all
    BY <2>5, <2>6
  <2>. HIDE DEF y, t, out, all, raw
  <2>9. CASE ~IsTextFragment(e)
    <3>1. TextFold(Append(a, e), values) = [out |-> Append(all, e), raw |-> <<>>]
      BY <2>4, <2>8, <2>9
    <3>2. Out(t, values) = Append(all, e) /\ Raw(t, values) = <<>>
      BY <2>7, <3>1
    <3>. QED
      BY <1>4, <2>3, <2>9, <3>2 DEF Ends, t, all
  <2>10. CASE IsTextFragment(e) /\ y.raw # <<>> /\ TextKey(y.raw[1]) # TextKey(e)
    <3>1. TextFold(Append(a, e), values) = [out |-> all, raw |-> <<e>>]
      BY <2>4, <2>8, <2>10
    <3>2. Out(t, values) = all /\ Raw(t, values) = <<e>>
      BY <2>7, <3>1
    <3>3. Open(s) = <<>> => TextKey(raw[1]) # TextKey(e)
      BY <2>5, <2>10
    <3>. QED
      BY <1>4, <2>3, <2>10, <3>2, <3>3 DEF Starts, t, all, raw
  <2>11. CASE IsTextFragment(e) /\ ~(y.raw # <<>> /\ TextKey(y.raw[1]) # TextKey(e))
    <3>1. TextFold(Append(a, e), values) = [out |-> y.out, raw |-> Append(y.raw, e)]
      BY <2>4, <2>11
    <3>2. Out(t, values) = y.out /\ Raw(t, values) = Append(y.raw, e)
      BY <2>7, <3>1
    <3>3. CASE y.raw = <<>>
      <4>1. y.out = all
        <5>1. CASE Open(s) = <<>>
          BY <2>5, <2>6, <3>3, <5>1
        <5>2. CASE Open(s) # <<>>
          BY <2>5, <5>2
        <5>. QED
          BY <5>1, <5>2
      <4>2. Out(t, values) = all /\ Raw(t, values) = <<e>>
        BY <2>6, <3>2, <3>3, <4>1
      <4>3. (Open(s) = <<>> /\ raw # <<>>) => FALSE
        BY <2>5, <3>3
      <4>. QED
        BY <1>4, <2>3, <2>11, <4>2, <4>3 DEF Starts, t, all, raw
    <3>4. CASE y.raw # <<>>
      <4>1. Open(s) = <<>> /\ y.out = out /\ y.raw = raw
        BY <2>5, <3>4
      <4>2. TextKey(raw[1]) = TextKey(e)
        BY <2>11, <3>4, <4>1
      <4>. QED
        BY <1>4, <2>3, <2>11, <3>2, <3>4, <4>1, <4>2 DEF Continues, t, out, raw
    <3>. QED
      BY <3>3, <3>4
  <2>. QED
    BY <2>9, <2>10, <2>11
<1>. QED
  BY <1>3, <1>4

\* The shape is kept.
LEMMA ShapedStep ==
  ASSUME NEW E, Sent(E), NEW values, OneValue(values)
  PROVE  /\ Shaped(<<>>, values, E)
         /\ Out(<<>>, values) = <<>> /\ Raw(<<>>, values) = <<>> /\ Open(<<>>) = <<>>
         /\ \A s, e : Shaped(s, values, E) /\ e \in E \cup {Other} => Shaped(Append(s, e), values, E)
<1>1. Out(<<>>, values) = <<>> /\ Raw(<<>>, values) = <<>> /\ Open(<<>>) = <<>>
  <2>1. ToolFold(<<>>) = [out |-> <<>>, runs |-> <<>>]
    BY ToolFoldStep
  <2>2. ToolFold(<<>>).out = <<>> /\ ToolFold(<<>>).runs = <<>>
    BY <2>1
  <2>3. TextFold(<<>>, values) = [out |-> <<>>, raw |-> <<>>]
    BY TextFoldStep
  <2>4. TextFold(<<>>, values).out = <<>> /\ TextFold(<<>>, values).raw = <<>>
    BY <2>3
  <2>. QED
    BY <2>2, <2>4 DEF Out, Raw, Open
<1>2. GoodRaw(<<>>, E) /\ GoodRuns(<<>>, E)
  BY DEF GoodRaw, GoodRuns, Runs
<1>3. ASSUME NEW s, NEW e, Shaped(s, values, E), e \in E \cup {Other}
      PROVE  Shaped(Append(s, e), values, E)
  <2>. DEFINE t == Append(s, e)
  <2>1. e \in Events /\ t \in Seq(Events)
    <3>1. e \in Events /\ s \in Seq(Events)
      BY <1>3, SentEvents DEF Shaped
    <3>. QED
      BY <3>1, InSequence
  <2>2. GoodRaw(Raw(s, values), E) /\ GoodRuns(Open(s), E)
    BY <1>3 DEF Shaped
  <2>3. IsToolFragment(e) \/ IsTextFragment(e) => e \in E
    BY <1>3, SentEvents
  <2>4. CASE Gathers(s, e, values)
    <3>1. GoodRuns(Gathered(Open(s), e), E)
      BY <2>2, <2>3, <2>4, GatheredIs DEF Gathers
    <3>2. Raw(t, values) = Raw(s, values) /\ Open(t) = Gathered(Open(s), e)
      BY <2>4 DEF Gathers
    <3>. QED
      BY <2>1, <2>2, <3>1, <3>2 DEF Shaped
  <2>5. ASSUME IsTextFragment(e) PROVE GoodRaw(<<e>>, E)
    <3>1. e \in E /\ e \in Answer
      BY <2>1, <2>3, <2>5 DEF Answer
    <3>2. <<e>> \in Seq(Answer) /\ DOMAIN <<e>> = {1} /\ <<e>>[1] = e
      BY <3>1
    <3>. QED
      BY <3>1, <3>2 DEF GoodRaw
  <2>6. CASE Continues(s, e, values)
    <3>. DEFINE raw == Raw(s, values)
                more == Append(raw, e)
    <3>1. /\ e \in E /\ e \in Answer /\ raw \in Seq(Answer) /\ raw # <<>>
          /\ \A i \in DOMAIN raw : raw[i] \in E /\ TextKey(raw[i]) = TextKey(raw[1])
          /\ TextKey(raw[1]) = TextKey(e)
      BY <2>1, <2>2, <2>3, <2>6 DEF Answer, Continues, GoodRaw
    <3>. HIDE DEF raw
    <3>2. /\ more \in Seq(Answer) /\ DOMAIN more = DOMAIN raw \cup {Len(raw) + 1}
          /\ \A i \in DOMAIN raw : more[i] = raw[i]
          /\ more[Len(raw) + 1] = e /\ 1 \in DOMAIN raw
      BY <3>1
    <3>. HIDE DEF more
    <3>3. ASSUME NEW i \in DOMAIN more PROVE more[i] \in E /\ TextKey(more[i]) = TextKey(more[1])
      BY <3>1, <3>2
    <3>4. GoodRaw(more, E)
      BY <3>2, <3>3 DEF GoodRaw
    <3>5. Raw(t, values) = more /\ Open(t) = <<>>
      BY <2>6 DEF Continues, more, raw
    <3>. QED
      BY <1>2, <2>1, <3>4, <3>5 DEF Shaped
  <2>7. CASE Starts(s, e, values)
    BY <1>2, <2>1, <2>5, <2>7 DEF Starts, Shaped
  <2>8. CASE Ends(s, e, values)
    BY <1>2, <2>1, <2>8 DEF Ends, Shaped
  <2>. QED
    BY <1>3, <2>4, <2>6, <2>7, <2>8, Going
<1>. QED
  BY <1>1, <1>2, <1>3 DEF Shaped

-----------------------------------------------------------------------------
(* What a client reassembles.                                              *)

\* Nobody acts at a fragment: the moments are the ones before it.
LEMMA Unmarked ==
  ASSUME NEW s \in Seq(Events), NEW t \in Seq(Events), \A i \in DOMAIN t : ~IsMark(t[i])
  PROVE  Moments(s \o t) = Moments(s)
<1>. DEFINE No(x) == \A i \in DOMAIN x : ~IsMark(x[i])
            S == {x \in Seq(Events) : No(x) => Moments(s \o x) = Moments(s)}
<1>1. <<>> \in S
  <2>1. s \o <<>> = s /\ <<>> \in Seq(Events)
    BY InSequence
  <2>. QED
    BY <2>1
<1>2. ASSUME NEW x \in Seq(Events), NEW e \in Events, x \in S PROVE Append(x, e) \in S
  <2>1. SUFFICES ASSUME No(Append(x, e)) PROVE Moments(s \o Append(x, e)) = Moments(s)
    BY AppendProperties
  <2>2. No(x) /\ ~IsMark(e)
    <3>1. /\ \A i \in DOMAIN x : i \in DOMAIN Append(x, e) /\ Append(x, e)[i] = x[i]
          /\ Len(x) + 1 \in DOMAIN Append(x, e) /\ Append(x, e)[Len(x) + 1] = e
      OBVIOUS
    <3>. QED
      BY <2>1, <3>1
  <2>3. s \o Append(x, e) = Append(s \o x, e) /\ s \o x \in Seq(Events)
    BY InSequence
  <2>4. Moments(s \o x) = Moments(s)
    BY <1>2, <2>2
  <2>. HIDE DEF No
  <2>5. Moments(Append(s \o x, e)) = Moments(s \o x)
    BY <2>2, <2>3, MomentsStep
  <2>. QED
    BY <2>3, <2>4, <2>5, Zenon
<1>. HIDE DEF S
<1>3. t \in S
  BY <1>1, <1>2, SeqInduction
<1>. QED
  BY <1>3 DEF S

\* Fragments, joined or not, are such events; an event at which a client acts is
\* none.
LEMMA NobodyActs ==
  ASSUME NEW E, Sent(E), NEW values, OneValue(values), NEW s, Shaped(s, values, E)
  PROVE  /\ Moments(All(s, values)) = Moments(Out(s, values))
         /\ \A e \in E \cup {Other} : IsToolFragment(e) \/ IsTextFragment(e) => ~IsMark(e)
<1>. DEFINE f == Flushed(Raw(s, values), values)
            r == Rendered(Open(s))
            o == Out(s, values)
<1>1. GoodRaw(Raw(s, values), E) /\ GoodRuns(Open(s), E)
  BY DEF Shaped
<1>2. o \in Seq(Events) /\ f \in Seq(Events) /\ r \in Seq(Events) /\ o \o f \in Seq(Events)
  BY Parts
<1>3. \A i \in DOMAIN f : ~IsMark(f[i])
  BY <1>1, FlushedIs
<1>4. \A i \in DOMAIN r : ~IsMark(r[i])
  <2>. DEFINE runs == Open(s)
  <2>1. GoodRuns(runs, E)
    BY <1>1
  <2>. HIDE DEF runs
  <2>2. /\ DOMAIN Rendered(runs) = DOMAIN runs
        /\ \A i \in DOMAIN runs : Says(Rendered(runs)[i], ToolChannel(runs[i].frame), runs[i].text)
    BY <2>1, RenderedIs
  <2>3. \A i \in DOMAIN Rendered(runs) : ~IsMark(Rendered(runs)[i])
    BY <2>2 DEF Says
  <2>. QED
    BY <2>3 DEF runs
<1>5. All(s, values) = (o \o f) \o r
  BY DEF All
<1>. HIDE DEF o, f, r
<1>6. Moments(o \o f) = Moments(o)
  BY <1>2, <1>3, Unmarked
<1>7. Moments((o \o f) \o r) = Moments(o \o f)
  BY <1>2, <1>4, Unmarked
<1>8. ASSUME NEW e \in E \cup {Other}, IsToolFragment(e) \/ IsTextFragment(e) PROVE ~IsMark(e)
  <2>1. e \in E
    BY <1>8, SentEvents
  <2>2. <<>> \in Text
    BY DEF Text
  <2>3. CASE IsToolFragment(e)
    BY <2>1, <2>2, <2>3, ToolSays DEF Says
  <2>4. CASE IsTextFragment(e)
    BY <2>1, <2>2, <2>4, TextSays DEF Adds
  <2>. QED
    BY <1>8, <2>3, <2>4
<1>. QED
  BY <1>5, <1>6, <1>7, <1>8, Zenon DEF o

\* All there is of the stream, nothing joined but the runs.
Behind(s, values) == (Out(s, values) \o Raw(s, values)) \o Rendered(Open(s))

\* It says what the stream says, and so does what is out at each moment.
Faithful(s, values) ==
  /\ SayTheSame(Behind(s, values), s)
  /\ Len(Moments(Out(s, values))) = Len(Moments(s))
  /\ \A i \in DOMAIN Moments(s) : SayTheSame(Moments(Out(s, values))[i], Moments(s)[i])

\* Joining the pieces of the answer changes nothing of it.
LEMMA AllSays ==
  ASSUME NEW E, Sent(E), NEW values, OneValue(values), NEW s, Shaped(s, values, E)
  PROVE  SayTheSame(All(s, values), Behind(s, values))
<1>. DEFINE f == Flushed(Raw(s, values), values)
            r == Rendered(Open(s))
            o == Out(s, values)
            raw == Raw(s, values)
<1>1. GoodRaw(raw, E)
  BY DEF Shaped
<1>2. SayTheSame(f, raw)
  BY <1>1, FlushedIs
<1>3. o \in Seq(Events) /\ f \in Seq(Events) /\ r \in Seq(Events) /\ raw \in Seq(Events)
  BY Parts
<1>4. All(s, values) = (o \o f) \o r /\ Behind(s, values) = (o \o raw) \o r
  BY DEF All, Behind
<1>. HIDE DEF o, f, r, raw
<1>5. SayTheSame(o \o f, o \o raw) /\ o \o f \in Seq(Events) /\ o \o raw \in Seq(Events)
  BY <1>2, <1>3, SayingTheSame, InSequence
<1>6. SayTheSame((o \o f) \o r, (o \o raw) \o r)
  BY <1>3, <1>5, SayingTheSame
<1>. QED
  BY <1>4, <1>6

\* Events that say the same still do when the same event follows.
LEMMA Following ==
  ASSUME NEW s \in Seq(Events), NEW t \in Seq(Events), NEW u \in Seq(Events), NEW e \in Events,
         SayTheSame(s, t), SayTheSame(t, u)
  PROVE  SayTheSame(s, u) /\ SayTheSame(s \o <<e>>, u \o <<e>>) /\ SayTheSame(Append(s, e), Append(u, e))
<1>1. SayTheSame(s, u)
  BY DEF SayTheSame
<1>. DEFINE q == <<e>>
<1>2. q \in Seq(Events) /\ Append(s, e) = s \o q /\ Append(u, e) = u \o q
  BY InSequence
<1>. HIDE DEF q
<1>3. SayTheSame(s \o q, u \o q)
  BY <1>1, <1>2, SayingTheSame
<1>. QED
  BY <1>1, <1>2, <1>3, Zenon DEF q

\* One event more keeps what is out and what is held back faithful.
LEMMA FaithfulStep ==
  ASSUME NEW E, Sent(E), NEW values, OneValue(values), NEW s, Shaped(s, values, E),
         Faithful(s, values), NEW e \in E \cup {Other}
  PROVE  Faithful(Append(s, e), values)
<1>. DEFINE t == Append(s, e)
            o == Out(s, values)
            raw == Raw(s, values)
            r == Rendered(Open(s))
            all == All(s, values)
            w == Behind(s, values)
            ms == Moments(s)
            mo == Moments(o)
<1>1. e \in Events /\ s \in Seq(Events) /\ t \in Seq(Events) /\ t = s \o <<e>>
  <2>1. e \in Events /\ s \in Seq(Events)
    BY SentEvents DEF Shaped
  <2>. QED
    BY <2>1, InSequence
<1>2. /\ o \in Seq(Events) /\ raw \in Seq(Events) /\ r \in Seq(Events) /\ all \in Seq(Events)
      /\ w = (o \o raw) \o r /\ w \in Seq(Events) /\ o \o raw \in Seq(Events)
  <2>1. o \in Seq(Events) /\ raw \in Seq(Events) /\ r \in Seq(Events) /\ all \in Seq(Events)
    BY Parts
  <2>2. w = (o \o raw) \o r
    BY DEF Behind
  <2>. HIDE DEF o, raw, r, w
  <2>3. o \o raw \in Seq(Events)
    BY <2>1, InSequence
  <2>4. (o \o raw) \o r \in Seq(Events)
    BY <2>1, <2>3, InSequence
  <2>. QED
    BY <2>1, <2>2, <2>3, <2>4
<1>3. SayTheSame(all, w) /\ SayTheSame(w, s)
  BY AllSays DEF Faithful
<1>4. Moments(all) = mo /\ (IsToolFragment(e) \/ IsTextFragment(e) => ~IsMark(e))
  BY NobodyActs
<1>5. Moments(t) = IF IsMark(e) THEN Append(ms, t) ELSE ms
  BY <1>1, MomentsStep
<1>6. /\ ms \in Seq(Seq(Events)) /\ mo \in Seq(Seq(Events)) /\ Len(mo) = Len(ms)
      /\ \A i \in DOMAIN ms : SayTheSame(mo[i], ms[i])
  <2>1. ms \in Seq(Seq(Events)) /\ mo \in Seq(Seq(Events))
    BY <1>1, <1>2, MomentsStep
  <2>. QED
    BY <2>1 DEF Faithful
<1>7. Rendered(<<>>) = <<>>
  BY DEF Rendered
<1>8. SUFFICES /\ SayTheSame((Out(t, values) \o Raw(t, values)) \o Rendered(Open(t)), t)
               /\ Len(Moments(Out(t, values))) = Len(Moments(t))
               /\ \A i \in DOMAIN Moments(t) : SayTheSame(Moments(Out(t, values))[i], Moments(t)[i])
  BY DEF Faithful, Behind
<1>9. /\ \A a \in Seq(Events) : a \o <<>> = a
      /\ <<e>> \in Seq(Events)
      /\ \A a, b, c \in Seq(Events) : (a \o b) \o c = a \o (b \o c)
      /\ \A a, b \in Seq(Events) : a \o Append(b, e) = Append(a \o b, e)
      /\ \A a \in Seq(Events) : Append(a, e) = a \o <<e>> /\ Append(a, e) \in Seq(Events)
  <2>1. e \in Events
    BY <1>1
  <2>2. (\A a \in Seq(Events) : a \o <<>> = a) /\ <<e>> \in Seq(Events)
    BY <2>1, InSequence
  <2>3. \A a, b, c \in Seq(Events) : (a \o b) \o c = a \o (b \o c)
    BY InSequence
  <2>4. \A a, b \in Seq(Events) : a \o Append(b, e) = Append(a \o b, e)
    BY <2>1, InSequence
  <2>5. \A a \in Seq(Events) : Append(a, e) = a \o <<e>> /\ Append(a, e) \in Seq(Events)
    BY <2>1, InSequence
  <2>. QED
    BY <2>2, <2>3, <2>4, <2>5, Zenon
<1>10. SayTheSame(Append(w, e), t) /\ SayTheSame(Append(all, e), t)
  <2>. HIDE DEF w, all
  <2>1. SayTheSame(s, s)
    BY DEF SayTheSame
  <2>2. SayTheSame(Append(w, e), Append(s, e))
    BY <1>1, <1>2, <1>3, <2>1, Following
  <2>3. SayTheSame(Append(all, e), Append(s, e))
    BY <1>1, <1>2, <1>3, Following
  <2>. QED
    BY <2>2, <2>3
<1>11. CASE Gathers(s, e, values)
  <2>. DEFINE g == Rendered(Gathered(Open(s), e))
  <2>1. Out(t, values) = o /\ Raw(t, values) = raw /\ Open(t) = Gathered(Open(s), e) /\ IsToolFragment(e)
    BY <1>11 DEF Gathers
  <2>2. GoodRuns(Open(s), E) /\ e \in E
    BY <2>1, SentEvents DEF Shaped
  <2>3. SayTheSame(g, r \o <<e>>)
    BY <2>1, <2>2, GatheredIs
  <2>4. g \in Seq(Events)
    <3>. DEFINE runs == Gathered(Open(s), e)
    <3>1. GoodRuns(runs, E)
      BY <2>1, <2>2, GatheredIs
    <3>. HIDE DEF runs
    <3>2. Rendered(runs) \in Seq(Events)
      BY <3>1, RenderedIs
    <3>. QED
      BY <3>2 DEF runs
  <2>5. Moments(t) = ms
    BY <1>4, <1>5, <2>1
  <2>. DEFINE or == o \o raw
  <2>6. or \in Seq(Events) /\ w = or \o r
    BY <1>2
  <2>. HIDE DEF o, raw, r, w, g, or, t, ms, mo
  <2>7. r \o <<e>> \in Seq(Events) /\ or \o (r \o <<e>>) = Append(w, e)
    <3>1. r \o <<e>> \in Seq(Events)
      BY <1>2, <1>9, InSequence
    <3>. DEFINE u == <<e>>
    <3>4. u \in Seq(Events) /\ \A a, b, c \in Seq(Events) : (a \o b) \o c = a \o (b \o c)
      BY <1>9
    <3>. HIDE DEF u
    <3>5. (or \o r) \o u = or \o (r \o u)
      <4>1. or \in Seq(Events) /\ r \in Seq(Events)
        BY <1>2, <2>6
      <4>. QED
        BY <3>4, <4>1, Zenon
    <3>2. (or \o r) \o <<e>> = or \o (r \o <<e>>)
      BY <3>5 DEF u
    <3>3. Append(w, e) = w \o <<e>>
      BY <1>2, <1>9
    <3>. QED
      BY <2>6, <3>1, <3>2, <3>3, Zenon
  <2>8. SayTheSame(or \o g, or \o (r \o <<e>>))
    BY <2>3, <2>4, <2>6, <2>7, SayingTheSame
  <2>9. SayTheSame(or \o g, t)
    BY <1>10, <2>7, <2>8 DEF SayTheSame
  <2>10. Out(t, values) = o /\ Raw(t, values) = raw /\ Rendered(Open(t)) = g
    BY <2>1 DEF o, raw, g
  <2>11. (Out(t, values) \o Raw(t, values)) \o Rendered(Open(t)) = or \o g
    BY <2>10 DEF or
  <2>12. Moments(Out(t, values)) = mo
    BY <2>10 DEF mo
  <2>. QED
    BY <1>6, <2>5, <2>9, <2>11, <2>12
<1>12. CASE Continues(s, e, values)
  <2>1. /\ Out(t, values) = o /\ Raw(t, values) = Append(raw, e) /\ Rendered(Open(t)) = <<>>
        /\ r = <<>> /\ IsTextFragment(e)
    BY <1>7, <1>12 DEF Continues
  <2>2. Moments(t) = ms /\ Moments(Out(t, values)) = mo
    BY <1>4, <1>5, <2>1
  <2>. HIDE DEF o, raw, r, w, t, ms, mo
  <2>3. w = o \o raw
    BY <1>2, <1>9, <2>1
  <2>4. o \o Append(raw, e) = Append(o \o raw, e)
    BY <1>2, <1>9
  <2>5. Append(w, e) \in Seq(Events)
    BY <1>2, <1>9
  <2>6. o \o Append(raw, e) = Append(w, e)
    BY <2>3, <2>4, Zenon
  <2>7. Append(w, e) \o <<>> = Append(w, e)
    BY <1>9, <2>5
  <2>8. (Out(t, values) \o Raw(t, values)) \o Rendered(Open(t)) = Append(w, e)
    BY <2>1, <2>6, <2>7, Zenon
  <2>. QED
    BY <1>6, <1>10, <2>2, <2>8
<1>13. CASE Starts(s, e, values)
  <2>1. /\ Out(t, values) = all /\ Raw(t, values) = <<e>> /\ Rendered(Open(t)) = <<>>
        /\ IsTextFragment(e)
    BY <1>7, <1>13 DEF Starts
  <2>2. Moments(t) = ms /\ Moments(Out(t, values)) = mo
    BY <1>4, <1>5, <2>1
  <2>. HIDE DEF all, t, ms, mo
  <2>3. all \o <<e>> = Append(all, e) /\ Append(all, e) \in Seq(Events)
    BY <1>2, <1>9
  <2>4. Append(all, e) \o <<>> = Append(all, e)
    BY <1>9, <2>3
  <2>5. (Out(t, values) \o Raw(t, values)) \o Rendered(Open(t)) = Append(all, e)
    BY <2>1, <2>3, <2>4, Zenon
  <2>. QED
    BY <1>6, <1>10, <2>2, <2>5
<1>14. CASE Ends(s, e, values)
  <2>1. Out(t, values) = Append(all, e) /\ Raw(t, values) = <<>> /\ Rendered(Open(t)) = <<>>
    BY <1>7, <1>14 DEF Ends
  <2>2. Moments(Append(all, e)) = IF IsMark(e) THEN Append(mo, Append(all, e)) ELSE mo
    <3>1. Moments(Append(all, e)) = IF IsMark(e) THEN Append(Moments(all), Append(all, e)) ELSE Moments(all)
      BY <1>1, <1>2, MomentsStep
    <3>. QED
      BY <1>4, <3>1
  <2>. HIDE DEF all, t, ms, mo
  <2>3. Append(all, e) \o <<>> = Append(all, e) /\ Append(all, e) \in Seq(Events)
    BY <1>2, <1>9
  <2>4. (Out(t, values) \o Raw(t, values)) \o Rendered(Open(t)) = Append(all, e)
    BY <2>1, <2>3, Zenon
  <2>. DEFINE p == Append(all, e)
  <2>5. SayTheSame(p, t) /\ p \in Seq(Events)
    BY <1>10, <2>3
  <2>6. Moments(Out(t, values)) = IF IsMark(e) THEN Append(mo, p) ELSE mo
    BY <2>1, <2>2
  <2>. HIDE DEF p
  <2>7. /\ Len(Moments(Out(t, values))) = Len(Moments(t))
        /\ \A i \in DOMAIN Moments(t) : SayTheSame(Moments(Out(t, values))[i], Moments(t)[i])
    <3>1. CASE ~IsMark(e)
      BY <1>5, <1>6, <2>6, <3>1
    <3>2. CASE IsMark(e)
      <4>1. Moments(Out(t, values)) = Append(mo, p) /\ Moments(t) = Append(ms, t)
        BY <1>5, <2>6, <3>2
      <4>2. /\ Len(Append(mo, p)) = Len(ms) + 1 /\ Len(Append(ms, t)) = Len(ms) + 1
            /\ DOMAIN Append(ms, t) = 1..(Len(ms) + 1) /\ DOMAIN ms = 1..Len(ms) /\ Len(ms) \in Nat
            /\ \A i \in 1..Len(ms) : Append(mo, p)[i] = mo[i] /\ Append(ms, t)[i] = ms[i]
            /\ Append(mo, p)[Len(ms) + 1] = p /\ Append(ms, t)[Len(ms) + 1] = t
        BY <1>1, <1>6, <2>5
      <4>3. ASSUME NEW i \in 1..(Len(ms) + 1) PROVE SayTheSame(Append(mo, p)[i], Append(ms, t)[i])
        <5>1. CASE i = Len(ms) + 1
          BY <2>5, <4>2, <5>1
        <5>2. CASE i # Len(ms) + 1
          <6>1. i \in 1..Len(ms)
            BY <4>2, <5>2
          <6>. QED
            BY <1>6, <4>2, <6>1
        <5>. QED
          BY <5>1, <5>2
      <4>. QED
        BY <4>1, <4>2, <4>3
    <3>. QED
      BY <3>1, <3>2
  <2>. QED
    BY <1>10, <2>4, <2>7
<1>. QED
  BY <1>11, <1>12, <1>13, <1>14, Going

-----------------------------------------------------------------------------
(* Stretches.                                                              *)

\* Some stretches, and one more where there is any.
Then(ss, x) == IF x = <<>> THEN ss ELSE Append(ss, x)

\* What blanking the whole of each stretch gives, in a channel.
Wholes(ss, c, values) == Joined([i \in DOMAIN ss |-> Blank(ChannelText(ss[i], c), values)])

\* ... one stretch more.
LEMMA WholesThen ==
  ASSUME NEW values, OneValue(values), NEW c
  PROVE  /\ Wholes(<<>>, c, values) = <<>>
         /\ \A ss \in Seq(Seq(Events)), x \in Seq(Events) :
              /\ Then(ss, x) \in Seq(Seq(Events)) /\ Wholes(ss, c, values) \in Text
              /\ Wholes(Then(ss, x), c, values) = Wholes(ss, c, values) \o Blank(ChannelText(x, c), values)
<1>. DEFINE B(x) == Blank(ChannelText(x, c), values)
            P(ss) == [i \in DOMAIN ss |-> B(ss[i])]
<1>1. \A x \in Seq(Events) : B(x) \in Text
  BY Saying, BlankLetter
<1>2. \A ss : Wholes(ss, c, values) = Joined(P(ss))
  BY DEF Wholes
<1>3. B(<<>>) = <<>>
  BY Saying, BlankLetter
<1>. HIDE DEF B
<1>4. P(<<>>) = <<>>
  OBVIOUS
<1>5. ASSUME NEW ss \in Seq(Seq(Events)) PROVE P(ss) \in Seq(Text)
  <2>1. DOMAIN ss = 1..Len(ss) /\ Len(ss) \in Nat /\ \A i \in DOMAIN ss : ss[i] \in Seq(Events)
    BY Elements
  <2>. QED
    BY <1>1, <2>1
<1>6. ASSUME NEW ss \in Seq(Seq(Events)), NEW x \in Seq(Events)
      PROVE  P(Append(ss, x)) = Append(P(ss), B(x))
  <2>1. /\ DOMAIN Append(ss, x) = 1..(Len(ss) + 1) /\ DOMAIN ss = 1..Len(ss) /\ Len(ss) \in Nat
        /\ \A i \in 1..Len(ss) : Append(ss, x)[i] = ss[i]
        /\ Append(ss, x)[Len(ss) + 1] = x
    OBVIOUS
  <2>2. P(ss) \in Seq(Text) /\ Len(P(ss)) = Len(ss)
    <3>1. P(ss) \in Seq(Text) /\ DOMAIN P(ss) = DOMAIN ss
      BY <1>5
    <3>. HIDE DEF P
    <3>2. DOMAIN P(ss) = 1..Len(P(ss)) /\ Len(P(ss)) \in Nat
      BY <3>1
    <3>. QED
      BY <2>1, <3>1, <3>2
  <2>3. /\ DOMAIN P(Append(ss, x)) = 1..(Len(ss) + 1)
        /\ \A i \in 1..Len(ss) : P(Append(ss, x))[i] = B(ss[i])
        /\ P(Append(ss, x))[Len(ss) + 1] = B(x)
        /\ \A i \in 1..Len(ss) : P(ss)[i] = B(ss[i])
    BY <2>1
  <2>4. Append(ss, x) \in Seq(Seq(Events)) /\ B(x) \in Text
    BY <1>1
  <2>5. P(Append(ss, x)) \in Seq(Text)
    BY <1>5, <2>4
  <2>. DEFINE k == P(Append(ss, x))
              m == P(ss)
              u == B(x)
              l == Append(m, u)
  <2>. HIDE DEF P
  <2>6. /\ k \in Seq(Text) /\ m \in Seq(Text) /\ u \in Text /\ DOMAIN k = 1..(Len(m) + 1)
        /\ (\A i \in 1..Len(m) : k[i] = m[i]) /\ k[Len(m) + 1] = u
    BY <2>1, <2>2, <2>3, <2>4, <2>5
  <2>. HIDE DEF k, m, u
  <2>7. l \in Seq(Text) /\ Len(l) = Len(m) + 1 /\ (\A i \in 1..Len(m) : l[i] = m[i]) /\ l[Len(m) + 1] = u
    BY <2>6
  <2>8. Len(k) = Len(m) + 1 /\ Len(m) \in Nat
    BY <2>6
  <2>. HIDE DEF l
  <2>9. ASSUME NEW i \in 1..Len(k) PROVE k[i] = l[i]
    <3>1. i = Len(m) + 1 \/ i \in 1..Len(m)
      BY <2>8
    <3>. QED
      BY <2>6, <2>7, <3>1
  <2>10. k = l
    BY <2>6, <2>7, <2>8, <2>9, SeqEqual
  <2>. QED
    BY <2>10 DEF k, l, m, u
<1>. HIDE DEF P
<1>7. Wholes(<<>>, c, values) = <<>>
  BY <1>2, <1>4, JoinedStep
<1>8. ASSUME NEW ss \in Seq(Seq(Events)), NEW x \in Seq(Events)
      PROVE  /\ Then(ss, x) \in Seq(Seq(Events)) /\ Wholes(ss, c, values) \in Text
             /\ Wholes(Then(ss, x), c, values) = Wholes(ss, c, values) \o B(x)
  <2>1. Joined(P(ss)) \in Text
    BY <1>5, JoinedStep
  <2>2. CASE x = <<>>
    <3>1. Joined(P(ss)) \o <<>> = Joined(P(ss))
      BY <2>1, ConcatEmptySeq DEF Text
    <3>. QED
      BY <1>2, <1>3, <2>1, <2>2, <3>1 DEF Then
  <2>3. CASE x # <<>>
    <3>1. Then(ss, x) = Append(ss, x) /\ Append(ss, x) \in Seq(Seq(Events))
      BY <2>3 DEF Then
    <3>2. B(x) \in Text /\ P(ss) \in Seq(Text)
      BY <1>1, <1>5
    <3>3. Joined(Append(P(ss), B(x))) = Joined(P(ss)) \o B(x)
      BY <3>2, JoinedStep
    <3>. QED
      BY <1>2, <1>6, <2>1, <3>1, <3>3
  <2>. QED
    BY <2>2, <2>3
<1>. QED
  BY <1>7, <1>8 DEF B

\* The last stretch, and its lengthening.
LEMMA LastStretch ==
  ASSUME NEW ss \in Seq(Seq(Events)), NEW x \in Seq(Events), x # <<>>, NEW e \in Events
  PROVE  /\ Then(ss, x) # <<>> /\ Last(Then(ss, x)) = x
         /\ [Then(ss, x) EXCEPT ![Len(Then(ss, x))] = Append(@, e)] = Then(ss, Append(x, e))
         /\ Append(x, e)[1] = x[1] /\ Append(x, e) \in Seq(Events) /\ Append(x, e) # <<>>
<1>1. Then(ss, x) = Append(ss, x)
  BY DEF Then
<1>2. Append(x, e)[1] = x[1] /\ Append(x, e) \in Seq(Events) /\ Append(x, e) # <<>>
  OBVIOUS
<1>3. Then(ss, Append(x, e)) = Append(ss, Append(x, e))
  BY <1>2 DEF Then
<1>. DEFINE y == Append(x, e)
            l == Append(ss, x)
            k == Append(ss, y)
<1>4. y \in Seq(Events) /\ x \in Seq(Events)
  BY <1>2
<1>5. /\ l \in Seq(Seq(Events)) /\ Len(l) = Len(ss) + 1 /\ l # <<>> /\ l[Len(l)] = x
      /\ DOMAIN l = 1..(Len(ss) + 1) /\ \A i \in 1..Len(ss) : l[i] = ss[i]
  OBVIOUS
<1>. HIDE DEF y
<1>6. /\ k \in Seq(Seq(Events)) /\ Len(k) = Len(ss) + 1
      /\ (\A i \in 1..Len(ss) : k[i] = ss[i]) /\ k[Len(ss) + 1] = y
  BY <1>4
<1>. HIDE DEF l, k
<1>7. [l EXCEPT ![Len(l)] = y] = k
  <2>. DEFINE m == [l EXCEPT ![Len(l)] = y]
  <2>1. Len(ss) \in Nat /\ DOMAIN l = 1..Len(l)
    BY <1>5
  <2>2. m \in Seq(Seq(Events)) /\ Len(m) = Len(l)
    BY <1>4, <1>5
  <2>3. \A i \in 1..Len(l) : m[i] = IF i = Len(l) THEN y ELSE l[i]
    BY <1>5
  <2>. HIDE DEF m
  <2>4. ASSUME NEW i \in 1..Len(m) PROVE m[i] = k[i]
    <3>1. Len(l) = Len(ss) + 1 /\ i \in 1..Len(l) /\ (i = Len(ss) + 1 \/ i \in 1..Len(ss))
      BY <1>5, <2>1, <2>2
    <3>2. CASE i = Len(ss) + 1
      BY <1>6, <2>3, <3>1, <3>2
    <3>3. CASE i \in 1..Len(ss)
      <4>1. i # Len(l)
        BY <2>1, <3>1, <3>3
      <4>. QED
        BY <1>5, <1>6, <2>3, <3>1, <3>3, <4>1
    <3>. QED
      BY <3>1, <3>2, <3>3
  <2>. DEFINE Q == Seq(Events)
  <2>6. m \in Seq(Q) /\ k \in Seq(Q) /\ Len(m) = Len(k)
    BY <1>5, <1>6, <2>2
  <2>. HIDE DEF Q
  <2>5. m = k
    BY <2>4, <2>6, SeqEqual
  <2>. QED
    BY <2>5 DEF m
<1>8. [l EXCEPT ![Len(l)] = Append(@, e)] = k
  BY <1>5, <1>7 DEF y
<1>. QED
  BY <1>1, <1>2, <1>3, <1>5, <1>8 DEF l, k, y, Last

\* Events that are there one after the other.
Within(p, s) == \E a, b \in Seq(Events) : s = (a \o p) \o b

\* They stay, whatever comes before and after.
LEMMA StillWithin ==
  ASSUME NEW s \in Seq(Events), NEW t \in Seq(Events), NEW p \in Seq(Events)
  PROVE  /\ Within(p, s) => Within(p, s \o t)
         /\ Within(p, (s \o p) \o t)
<1>1. Within(p, (s \o p) \o t)
  BY DEF Within
<1>2. ASSUME Within(p, s) PROVE Within(p, s \o t)
  <2>1. PICK a \in Seq(Events), b \in Seq(Events) : s = (a \o p) \o b
    BY <1>2 DEF Within
  <2>2. \A x, y, z \in Seq(Events) : (x \o y) \o z = x \o (y \o z)
    BY InSequence
  <2>3. a \o p \in Seq(Events) /\ b \o t \in Seq(Events)
    BY InSequence
  <2>4. ((a \o p) \o b) \o t = (a \o p) \o (b \o t)
    <3>. DEFINE q == a \o p
    <3>1. q \in Seq(Events)
      BY <2>3
    <3>. HIDE DEF q
    <3>2. (q \o b) \o t = q \o (b \o t)
      BY <2>2, <3>1, Zenon
    <3>. QED
      BY <3>2 DEF q
  <2>5. s \o t = (a \o p) \o (b \o t)
    BY <2>1, <2>4, Zenon
  <2>. QED
    BY <2>3, <2>5 DEF Within
<1>. QED
  BY <1>1, <1>2

\* ... in their place.
LEMMA WithinAt ==
  ASSUME NEW s \in Seq(Events), NEW p \in Seq(Events), Within(p, s)
  PROVE  \E i \in 1..(Len(s) - Len(p) + 1) : SubSeq(s, i, i + Len(p) - 1) = p
<1>1. PICK a \in Seq(Events), b \in Seq(Events) : s = (a \o p) \o b
  BY DEF Within
<1>2. a \o p \in Seq(Events) /\ Len(a) \in Nat /\ Len(p) \in Nat /\ Len(b) \in Nat
  BY InSequence
<1>3. Len(s) = Len(a) + Len(p) + Len(b)
  BY <1>1, <1>2
<1>4. \A j \in 1..Len(p) : s[Len(a) + j] = p[j]
  BY <1>1, <1>2
<1>5. Len(a) + 1 \in 1..(Len(s) - Len(p) + 1)
  BY <1>2, <1>3
<1>6. SubSeq(s, Len(a) + 1, (Len(a) + 1) + Len(p) - 1) = p
  <2>. DEFINE q == SubSeq(s, Len(a) + 1, (Len(a) + 1) + Len(p) - 1)
  <2>1. (Len(a) + 1) + Len(p) - 1 = Len(a) + Len(p)
    BY <1>2
  <2>2. q \in Seq(Events) /\ Len(q) = Len(p) /\ \A j \in 1..Len(p) : q[j] = s[Len(a) + j]
    <3>1. q = SubSeq(s, Len(a) + 1, Len(a) + Len(p)) 
      BY <2>1
    <3>. HIDE DEF q
    <3>. QED
      BY <1>2, <1>3, <3>1
  <2>. HIDE DEF q
  <2>3. \A j \in 1..Len(q) : q[j] = p[j]
    BY <1>4, <2>2
  <2>4. q = p
    BY <2>2, <2>3, SeqEqual
  <2>. QED
    BY <2>4 DEF q
<1>. QED
  BY <1>5, <1>6

\* Each stretch is one of the some, or the one more.
LEMMA InThen ==
  ASSUME NEW ss \in Seq(Seq(Events)), NEW x \in Seq(Events), NEW i \in DOMAIN Then(ss, x)
  PROVE  \/ i \in DOMAIN ss /\ Then(ss, x)[i] = ss[i]
         \/ x # <<>> /\ Then(ss, x)[i] = x
<1>1. CASE x = <<>>
  BY <1>1 DEF Then
<1>2. CASE x # <<>>
  <2>1. Then(ss, x) = Append(ss, x)
    BY <1>2 DEF Then
  <2>2. /\ DOMAIN Append(ss, x) = 1..(Len(ss) + 1) /\ DOMAIN ss = 1..Len(ss) /\ Len(ss) \in Nat
        /\ \A j \in 1..Len(ss) : Append(ss, x)[j] = ss[j]
        /\ Append(ss, x)[Len(ss) + 1] = x
    OBVIOUS
  <2>3. i \in 1..(Len(ss) + 1)
    BY <2>1, <2>2
  <2>4. i \in 1..Len(ss) \/ i = Len(ss) + 1
    BY <2>2, <2>3
  <2>. QED
    BY <1>2, <2>1, <2>2, <2>4
<1>. QED
  BY <1>1, <1>2

\* The texts of blanked events one after the other.
LEMMA BlankedSays ==
  ASSUME NEW values, OneValue(values), NEW s \in Seq(Events), NEW t \in Seq(Events), NEW c
  PROVE  ChannelText(Blanked(s \o t, values), c) =
           ChannelText(Blanked(s, values), c) \o ChannelText(Blanked(t, values), c)
<1>. DEFINE a == Blanked(s, values)
            b == Blanked(t, values)
<1>1. a \in Seq(Events) /\ b \in Seq(Events) /\ Blanked(s \o t, values) = a \o b
  BY BlankedConcat
<1>. HIDE DEF a, b
<1>2. ChannelText(a \o b, c) = ChannelText(a, c) \o ChannelText(b, c)
  BY <1>1, Saying
<1>. QED
  BY <1>1, <1>2 DEF a, b

\* A stretch of the answer is there event by event, or holds a value.
Paced(p, out, values) ==
  IsTextFragment(p[1]) => (\E v \in values : Holds(Joined(Texts(p)), v)) \/ Within(p, out)

\* What is out of some stretches: the text blanking the whole of each gives.
Settles(ss, out, values) ==
  /\ \A c : ChannelText(Blanked(out, values), c) = Wholes(ss, c, values)
  /\ \A i \in DOMAIN ss : Paced(ss[i], out, values)

\* The stretches of the stream: the ones that are out, the pieces of the answer held
\* back, and the fragments the open runs gathered.
Parted(s, values, E, ss, last) ==
  /\ Stretches(s) = Then(Then(ss, Raw(s, values)), last)
  /\ last = <<>> <=> Open(s) = <<>>
  /\ last # <<>> => last[1] \in E /\ IsToolFragment(last[1])
  /\ last = <<>> /\ Raw(s, values) = <<>> /\ ss # <<>> =>
       ~IsToolFragment(Last(ss)[1]) /\ ~IsTextFragment(Last(ss)[1])
  /\ \A c : ChannelText(last, c) = ChannelText(Rendered(Open(s)), c)
  /\ Settles(ss, Out(s, values), values)
Cut(s, values, E) ==
  \E ss \in Seq(Seq(Events)), last \in Seq(Events) : Parted(s, values, E, ss, last)

\* Once all is out, it is out of all of them.
LEMMA Settled ==
  ASSUME NEW E, Sent(E), NEW values, OneValue(values), NEW s, Shaped(s, values, E),
         NEW ss \in Seq(Seq(Events)), NEW last \in Seq(Events), Parted(s, values, E, ss, last)
  PROVE  Settles(Stretches(s), All(s, values), values) /\ Stretches(s) \in Seq(Seq(Events))
<1>. DEFINE o == Out(s, values)
            raw == Raw(s, values)
            f == Flushed(raw, values)
            r == Rendered(Open(s))
            all == All(s, values)
            mid == Then(ss, raw)
<1>1. /\ o \in Seq(Events) /\ raw \in Seq(Events) /\ f \in Seq(Events) /\ r \in Seq(Events)
      /\ o \o f \in Seq(Events) /\ raw \in Seq(Answer)
  BY Parts
<1>2. all = (o \o f) \o r
  BY DEF All
<1>3. GoodRaw(raw, E) /\ GoodRuns(Open(s), E)
  BY DEF Shaped
<1>4. /\ Stretches(s) = Then(mid, last) /\ (last # <<>> => last[1] \in E /\ IsToolFragment(last[1]))
      /\ (\A c : ChannelText(last, c) = ChannelText(r, c))
      /\ Settles(ss, o, values)
  BY DEF Parted
<1>5. mid \in Seq(Seq(Events)) /\ Then(mid, last) \in Seq(Seq(Events))
  <2>. HIDE DEF raw
  <2>1. Then(ss, raw) \in Seq(Seq(Events))
    BY <1>1, WholesThen
  <2>. HIDE DEF mid
  <2>2. Then(mid, last) \in Seq(Seq(Events))
    BY <2>1, WholesThen DEF mid
  <2>. QED
    BY <2>1, <2>2 DEF mid
<1>6. ASSUME NEW c PROVE ChannelText(Blanked(all, values), c) = Wholes(Stretches(s), c, values)
  <2>. DEFINE B(x) == ChannelText(Blanked(x, values), c)
  <2>1. B(f) = Blank(ChannelText(raw, c), values)
    BY <1>3, FlushedIs
  <2>2. B(r) = Blank(ChannelText(last, c), values)
    <3>1. B(r) = Blank(ChannelText(r, c), values)
      BY <1>3, BlankedRuns
    <3>. QED
      BY <1>4, <3>1
  <2>3. B(o) = Wholes(ss, c, values)
    BY <1>4 DEF Settles
  <2>. HIDE DEF o, f, r, raw, all
  <2>4. B(o \o f) = B(o) \o B(f) /\ B((o \o f) \o r) = B(o \o f) \o B(r)
    <3>. DEFINE q == o \o f
    <3>1. \A x, y \in Seq(Events) : B(x \o y) = B(x) \o B(y)
      BY BlankedSays
    <3>2. q \in Seq(Events)
      BY <1>1
    <3>. HIDE DEF B
    <3>3. B(o \o f) = B(o) \o B(f)
      BY <1>1, <3>1, Zenon
    <3>. HIDE DEF q
    <3>4. B(q \o r) = B(q) \o B(r)
      BY <1>1, <3>1, <3>2, Zenon
    <3>. QED
      BY <3>3, <3>4, Zenon DEF q
  <2>5. Wholes(mid, c, values) = Wholes(ss, c, values) \o Blank(ChannelText(raw, c), values)
    BY <1>1, WholesThen
  <2>. HIDE DEF mid
  <2>6. Wholes(Then(mid, last), c, values) = Wholes(mid, c, values) \o Blank(ChannelText(last, c), values)
    BY <1>5, WholesThen
  <2>. HIDE DEF B
  <2>7. B(all) = Wholes(Stretches(s), c, values)
    BY <1>2, <1>4, <2>1, <2>2, <2>3, <2>4, <2>5, <2>6, Zenon
  <2>. QED
    BY <2>7 DEF B
<1>7. ASSUME NEW i \in DOMAIN Stretches(s) PROVE Paced(Stretches(s)[i], all, values)
  <2>. HIDE DEF o, f, r, all, mid, raw
  <2>1. \/ i \in DOMAIN mid /\ Stretches(s)[i] = mid[i]
        \/ last # <<>> /\ Stretches(s)[i] = last
    BY <1>4, <1>5, <1>7, InThen
  <2>2. CASE last # <<>> /\ Stretches(s)[i] = last
    <3>1. <<>> \in Text
      BY DEF Text
    <3>2. ~IsTextFragment(last[1])
      BY <1>4, <2>2, <3>1, ToolSays
    <3>. QED
      BY <2>2, <3>2 DEF Paced
  <2>3. CASE i \in DOMAIN mid /\ Stretches(s)[i] = mid[i]
    <3>1. \/ i \in DOMAIN ss /\ mid[i] = ss[i]
          \/ raw # <<>> /\ mid[i] = raw
      BY <1>1, <2>3, InThen DEF mid
    <3>2. CASE i \in DOMAIN ss /\ mid[i] = ss[i]
      <4>. DEFINE p == ss[i]
      <4>1. p \in Seq(Events) /\ Paced(p, o, values)
        <5>1. Paced(p, o, values)
          BY <1>4, <3>2 DEF Settles
        <5>. QED
          BY <3>2, <5>1, Elements
      <4>. HIDE DEF p
      <4>2. Within(p, o) => Within(p, (o \o f) \o r)
        BY <1>1, <4>1, StillWithin
      <4>3. Paced(p, all, values)
        BY <1>2, <4>1, <4>2 DEF Paced
      <4>. QED
        BY <2>3, <3>2, <4>3 DEF p
    <3>3. CASE raw # <<>> /\ mid[i] = raw
      <4>1. f = raw \/ \E v \in values : Holds(Joined(Texts(raw)), v)
        BY <1>1, FlushedIsAnswer DEF f
      <4>2. Within(raw, (o \o raw) \o r)
        BY <1>1, StillWithin
      <4>3. Paced(raw, all, values)
        BY <1>2, <4>1, <4>2 DEF Paced
      <4>. QED
        BY <2>3, <3>3, <4>3
    <3>. QED
      BY <3>1, <3>2, <3>3
  <2>. QED
    BY <2>1, <2>2, <2>3
<1>. QED
  BY <1>4, <1>5, <1>6, <1>7 DEF Settles

\* Where an event begins a stretch, and where it lengthens the last one.
LEMMA Breaks ==
  ASSUME NEW E, Sent(E), NEW values, OneValue(values), NEW s, Shaped(s, values, E),
         NEW ss \in Seq(Seq(Events)), NEW last \in Seq(Events), Parted(s, values, E, ss, last),
         NEW e \in E \cup {Other}
  PROVE  LET now == Stretches(s)
             new == Stretches(Append(s, e))
         IN /\ IsToolFragment(e) /\ last = <<>> => new = Append(now, <<e>>)
            /\ IsToolFragment(e) /\ last # <<>> =>
                 new = Then(Then(ss, Raw(s, values)), Append(last, e))
            /\ Continues(s, e, values) => new = Then(ss, Append(Raw(s, values), e))
            /\ Starts(s, e, values) \/ Ends(s, e, values) => new = Append(now, <<e>>)
<1>. DEFINE now == Stretches(s)
            new == Stretches(Append(s, e))
            raw == Raw(s, values)
            mid == Then(ss, raw)
<1>1. e \in Events /\ s \in Seq(Events)
  BY SentEvents DEF Shaped
<1>2. /\ now = Then(mid, last) /\ (last = <<>> <=> Open(s) = <<>>)
      /\ (last # <<>> => last[1] \in E /\ IsToolFragment(last[1]))
      /\ (last = <<>> /\ raw = <<>> /\ ss # <<>> => ~IsToolFragment(Last(ss)[1]) /\ ~IsTextFragment(Last(ss)[1]))
  BY DEF Parted
<1>3. new = IF now # <<>> /\ SameStretch(Last(now)[1], e)
            THEN [now EXCEPT ![Len(now)] = Append(@, e)] ELSE Append(now, <<e>>)
  BY <1>1, StretchesStep
<1>4. raw \in Seq(Events)
  BY Parts
<1>5. raw # <<>> => IsTextFragment(raw[1]) /\ ~IsToolFragment(raw[1])
  <2>1. GoodRaw(raw, E)
    BY DEF Shaped
  <2>. HIDE DEF raw
  <2>2. ASSUME raw # <<>> PROVE IsTextFragment(raw[1]) /\ ~IsToolFragment(raw[1])
    <3>1. 1 \in DOMAIN raw
      BY <1>4, <2>2
    <3>2. raw[1] \in Answer
      BY <2>1, <3>1, Elements DEF GoodRaw
    <3>3. ~IsToolFragment(raw[1])
      BY <2>1, <2>2, <3>1, RawText
    <3>. QED
      BY <3>2, <3>3 DEF Answer
  <2>. QED
    BY <2>2
<1>6. mid \in Seq(Seq(Events))
  <2>. HIDE DEF raw
  <2>1. Then(ss, raw) \in Seq(Seq(Events))
    BY <1>4, WholesThen
  <2>. QED
    BY <2>1 DEF mid
<1>. HIDE DEF now, new, raw
<1>7. ASSUME last = <<>> PROVE now = mid
  BY <1>2, <1>7 DEF Then
<1>8. ASSUME raw = <<>> PROVE mid = ss
  BY <1>8 DEF Then
<1>9. ASSUME raw # <<>>
      PROVE  mid # <<>> /\ Last(mid) = raw /\ [mid EXCEPT ![Len(mid)] = Append(@, e)] = Then(ss, Append(raw, e))
  BY <1>1, <1>4, <1>9, LastStretch
<1>. HIDE DEF mid
<1>10. ASSUME last # <<>>
       PROVE  now # <<>> /\ Last(now) = last /\ [now EXCEPT ![Len(now)] = Append(@, e)] = Then(mid, Append(last, e))
  BY <1>1, <1>2, <1>6, <1>10, LastStretch
<1>11. ASSUME IsToolFragment(e), last = <<>> PROVE new = Append(now, <<e>>)
  <2>1. ~(now # <<>> /\ SameStretch(Last(now)[1], e))
    <3>1. CASE raw # <<>>
      BY <1>5, <1>7, <1>9, <1>11, <3>1 DEF SameStretch
    <3>2. CASE raw = <<>>
      BY <1>2, <1>7, <1>8, <1>11, <3>2 DEF SameStretch
    <3>. QED
      BY <3>1, <3>2
  <2>. QED
    BY <1>3, <2>1
<1>12. ASSUME IsToolFragment(e), last # <<>> PROVE new = Then(mid, Append(last, e))
  <2>1. SameStretch(Last(now)[1], e)
    BY <1>2, <1>10, <1>12 DEF SameStretch
  <2>. QED
    BY <1>3, <1>10, <1>12, <2>1
<1>13. ASSUME Continues(s, e, values) PROVE new = Then(ss, Append(raw, e))
  <2>1. /\ ~IsToolFragment(e) /\ IsTextFragment(e) /\ last = <<>> /\ raw # <<>>
        /\ TextKey(raw[1]) = TextKey(e)
    BY <1>2, <1>13 DEF Continues, raw
  <2>2. now = mid /\ now # <<>> /\ Last(now) = raw
    BY <1>7, <1>9, <2>1
  <2>3. SameStretch(Last(now)[1], e)
    BY <1>5, <2>1, <2>2 DEF SameStretch
  <2>. QED
    BY <1>3, <1>9, <2>1, <2>2, <2>3
<1>14. ASSUME Starts(s, e, values) \/ Ends(s, e, values) PROVE new = Append(now, <<e>>)
  <2>1. /\ ~IsToolFragment(e)
        /\ IsTextFragment(e) /\ last = <<>> /\ raw # <<>> => TextKey(raw[1]) # TextKey(e)
    <3>1. CASE Starts(s, e, values)
      BY <1>2, <3>1 DEF Starts, raw
    <3>2. CASE Ends(s, e, values)
      BY <3>2 DEF Ends
    <3>. QED
      BY <1>14, <3>1, <3>2
  <2>2. ~(now # <<>> /\ SameStretch(Last(now)[1], e))
    <3>1. CASE last # <<>>
      BY <1>2, <1>10, <2>1, <3>1 DEF SameStretch
    <3>2. CASE last = <<>> /\ raw # <<>>
      BY <1>5, <1>7, <1>9, <2>1, <3>2 DEF SameStretch
    <3>3. CASE last = <<>> /\ raw = <<>>
      BY <1>2, <1>7, <1>8, <2>1, <3>3 DEF SameStretch
    <3>. QED
      BY <3>1, <3>2, <3>3
  <2>. QED
    BY <1>3, <2>2
<1>. QED
  BY <1>11, <1>12, <1>13, <1>14 DEF now, new, raw, mid

\* One event more keeps the stream cut into what is out and what is held back.
LEMMA CutStep ==
  ASSUME NEW E, Sent(E), NEW values, OneValue(values), NEW s, Shaped(s, values, E),
         Cut(s, values, E), NEW e \in E \cup {Other}
  PROVE  Cut(Append(s, e), values, E)
<1>1. PICK ss \in Seq(Seq(Events)), last \in Seq(Events) : Parted(s, values, E, ss, last)
  BY DEF Cut
<1>. DEFINE t == Append(s, e)
            now == Stretches(s)
            raw == Raw(s, values)
            o == Out(s, values)
            all == All(s, values)
<1>2. /\ now = Then(Then(ss, raw), last) /\ (last = <<>> <=> Open(s) = <<>>)
      /\ (last # <<>> => last[1] \in E /\ IsToolFragment(last[1]))
      /\ (last = <<>> /\ raw = <<>> /\ ss # <<>> => ~IsToolFragment(Last(ss)[1]) /\ ~IsTextFragment(Last(ss)[1]))
      /\ (\A c : ChannelText(last, c) = ChannelText(Rendered(Open(s)), c))
      /\ Settles(ss, o, values)
  BY <1>1 DEF Parted
<1>3. e \in Events /\ <<e>> \in Seq(Events) /\ <<e>> # <<>> /\ <<e>>[1] = e /\ <<>> \in Seq(Events)
  <2>1. e \in Events
    BY SentEvents
  <2>. QED
    BY <2>1
<1>4. /\ IsToolFragment(e) /\ last = <<>> => Stretches(t) = Append(now, <<e>>)
      /\ IsToolFragment(e) /\ last # <<>> => Stretches(t) = Then(Then(ss, raw), Append(last, e))
      /\ Continues(s, e, values) => Stretches(t) = Then(ss, Append(raw, e))
      /\ Starts(s, e, values) \/ Ends(s, e, values) => Stretches(t) = Append(now, <<e>>)
  BY <1>1, Breaks
<1>5. Settles(now, all, values) /\ now \in Seq(Seq(Events))
  BY <1>1, Settled
<1>6. /\ \A x : Then(x, <<>>) = x
      /\ \A x, y : y # <<>> => Then(x, y) = Append(x, y)
  BY DEF Then
<1>7. \A c : ChannelText(<<>>, c) = ChannelText(Rendered(<<>>), c)
  BY DEF Rendered
<1>. HIDE DEF t, now, raw, o, all
<1>8. CASE Gathers(s, e, values)
  <2>. DEFINE more == Append(last, e)
              r == Rendered(Open(s))
              g == Rendered(Gathered(Open(s), e))
  <2>1. IsToolFragment(e) /\ Out(t, values) = o /\ Raw(t, values) = raw /\ Open(t) = Gathered(Open(s), e)
    BY <1>8 DEF Gathers, t, o, raw
  <2>2. e \in E /\ GoodRuns(Open(s), E)
    BY <2>1, SentEvents DEF Shaped
  <2>3. Open(t) # <<>> /\ SayTheSame(g, r \o <<e>>)
    BY <2>1, <2>2, GatheredIs
  <2>4. more \in Seq(Events) /\ more # <<>> /\ more = last \o <<e>> /\ (last = <<>> => more = <<e>>)
        /\ (last # <<>> => more[1] = last[1])
    <3>1. more \in Seq(Events) /\ more # <<>> /\ more = last \o <<e>>
      BY <1>3, InSequence
    <3>2. Append(<<>>, e) = <<e>>
      OBVIOUS
    <3>3. last # <<>> => Append(last, e)[1] = last[1]
      BY <1>3
    <3>. QED
      BY <3>1, <3>2, <3>3
  <2>. HIDE DEF more
  <2>5. Stretches(t) = Then(Then(ss, raw), more)
    <3>1. CASE last = <<>>
      <4>1. now = Then(ss, raw)
        BY <1>2, <1>6, <3>1
      <4>2. Stretches(t) = Append(now, more)
        BY <1>4, <2>1, <2>4, <3>1
      <4>. QED
        BY <1>6, <2>4, <4>1, <4>2
    <3>2. CASE last # <<>>
      BY <1>4, <2>1, <3>2 DEF more
    <3>. QED
      BY <3>1, <3>2
  <2>6. more[1] \in E /\ IsToolFragment(more[1])
    BY <1>2, <1>3, <2>1, <2>2, <2>4
  <2>7. ASSUME NEW c PROVE ChannelText(more, c) = ChannelText(Rendered(Open(t)), c)
    <3>1. r \in Seq(Events)
      BY Parts
    <3>2. ChannelText(last, c) = ChannelText(r, c)
      BY <1>2
    <3>3. ChannelText(g, c) = ChannelText(r \o <<e>>, c)
      BY <2>3 DEF SayTheSame
    <3>. DEFINE u == <<e>>
    <3>. HIDE DEF r, g, more
    <3>4. u \in Seq(Events) /\ ChannelText(g, c) = ChannelText(r \o u, c) /\ more = last \o u
      BY <1>3, <2>4, <3>3
    <3>. HIDE DEF u
    <3>5. /\ ChannelText(r \o u, c) = ChannelText(r, c) \o ChannelText(u, c)
          /\ ChannelText(last \o u, c) = ChannelText(last, c) \o ChannelText(u, c)
      BY <3>1, <3>4, Saying
    <3>6. ChannelText(more, c) = ChannelText(g, c)
      BY <3>2, <3>4, <3>5, Zenon
    <3>. QED
      BY <2>1, <3>6 DEF g
  <2>. HIDE DEF more
  <2>8. Parted(t, values, E, ss, more)
    BY <1>2, <2>1, <2>3, <2>4, <2>5, <2>6, <2>7 DEF Parted
  <2>. QED
    BY <2>4, <2>8 DEF Cut, t
<1>9. CASE Continues(s, e, values)
  <2>1. /\ Out(t, values) = o /\ Raw(t, values) = Append(raw, e) /\ Open(t) = <<>> /\ Open(s) = <<>>
    BY <1>9 DEF Continues, t, o, raw
  <2>2. Append(raw, e) # <<>>
    <3>1. raw \in Seq(Events)
      BY Parts DEF raw
    <3>. QED
      BY <1>3, <3>1, InSequence
  <2>3. Stretches(t) = Then(Then(ss, Raw(t, values)), <<>>)
    BY <1>4, <1>6, <1>9, <2>1
  <2>4. Parted(t, values, E, ss, <<>>)
    BY <1>2, <1>7, <2>1, <2>2, <2>3 DEF Parted
  <2>. QED
    BY <1>3, <2>4 DEF Cut, t
<1>10. CASE Starts(s, e, values)
  <2>1. Out(t, values) = all /\ Raw(t, values) = <<e>> /\ Open(t) = <<>>
    BY <1>10 DEF Starts, t, all
  <2>2. Stretches(t) = Then(Then(now, Raw(t, values)), <<>>)
    BY <1>3, <1>4, <1>6, <1>10, <2>1
  <2>3. Parted(t, values, E, now, <<>>)
    BY <1>3, <1>5, <1>7, <2>1, <2>2 DEF Parted
  <2>. QED
    BY <1>3, <1>5, <2>3 DEF Cut, t
<1>11. CASE Ends(s, e, values)
  <2>. DEFINE u == <<e>>
              done == Append(now, u)
              out == Append(all, e)
  <2>1. /\ Out(t, values) = out /\ Raw(t, values) = <<>> /\ Open(t) = <<>>
        /\ ~IsToolFragment(e) /\ ~IsTextFragment(e)
    BY <1>11 DEF Ends, t, all
  <2>2. Stretches(t) = done /\ done = Then(now, u)
    BY <1>3, <1>4, <1>6, <1>11
  <2>3. all \in Seq(Events) /\ u \in Seq(Events) /\ out = all \o u /\ u # <<>>
    <3>1. all \in Seq(Events)
      BY Parts DEF all
    <3>. QED
      BY <1>3, <3>1, InSequence
  <2>4. done \in Seq(Seq(Events)) /\ done # <<>> /\ Last(done) = u
    <3>. HIDE DEF u
    <3>1. done \in Seq(Seq(Events))
      BY <1>5, <2>3
    <3>2. done # <<>> /\ Last(done) = u
      BY <1>3, <1>5, <2>2, <2>3, LastStretch
    <3>. QED
      BY <3>1, <3>2
  <2>5. ASSUME NEW c PROVE ChannelText(Blanked(out, values), c) = Wholes(done, c, values)
    <3>1. ChannelText(Blanked(all, values), c) = Wholes(now, c, values)
      BY <1>5 DEF Settles
    <3>2. ChannelText(Blanked(u, values), c) = Blank(ChannelText(u, c), values)
      <4>1. Blanked(u, values) = <<BlankEvent(e, values)>>
        BY <1>3, BlankedOne
      <4>2. BlankEvent(e, values) \in Events /\ Piece(BlankEvent(e, values), c) = Blank(Piece(e, c), values)
        BY <1>3, BlankPiece
      <4>3. ChannelText(u, c) = Piece(e, c)
        BY <1>3, Saying
      <4>4. ChannelText(<<BlankEvent(e, values)>>, c) = Piece(BlankEvent(e, values), c)
        BY <4>2, Saying
      <4>. QED
        BY <4>1, <4>2, <4>3, <4>4
    <3>. HIDE DEF u, done, out
    <3>3. ChannelText(Blanked(all \o u, values), c) =
            ChannelText(Blanked(all, values), c) \o ChannelText(Blanked(u, values), c)
      BY <2>3, BlankedSays
    <3>4. Wholes(Then(now, u), c, values) = Wholes(now, c, values) \o Blank(ChannelText(u, c), values)
      BY <1>5, <2>3, WholesThen
    <3>. QED
      BY <2>2, <2>3, <3>1, <3>2, <3>3, <3>4, Zenon
  <2>6. ASSUME NEW i \in DOMAIN done PROVE Paced(done[i], out, values)
    <3>. HIDE DEF u, done, out
    <3>1. \/ i \in DOMAIN now /\ done[i] = now[i]
          \/ done[i] = u
      BY <1>5, <2>2, <2>3, <2>6, InThen
    <3>2. CASE done[i] = u
      BY <1>3, <2>1, <3>2 DEF Paced, u
    <3>3. CASE i \in DOMAIN now /\ done[i] = now[i]
      <4>. DEFINE p == now[i]
      <4>1. p \in Seq(Events) /\ Paced(p, all, values)
        <5>1. Paced(p, all, values)
          BY <1>5, <3>3 DEF Settles
        <5>. QED
          BY <1>5, <3>3, <5>1, Elements
      <4>. HIDE DEF p
      <4>2. Within(p, all) => Within(p, all \o u)
        BY <2>3, <4>1, StillWithin
      <4>3. Paced(p, out, values)
        BY <2>3, <4>1, <4>2 DEF Paced
      <4>. QED
        BY <3>3, <4>3 DEF p
    <3>. QED
      BY <3>1, <3>2, <3>3
  <2>. HIDE DEF done, out
  <2>7. Settles(done, out, values)
    BY <2>5, <2>6 DEF Settles
  <2>8. Stretches(t) = Then(Then(done, Raw(t, values)), <<>>)
    BY <1>6, <2>1, <2>2
  <2>9. ~IsToolFragment(Last(done)[1]) /\ ~IsTextFragment(Last(done)[1])
    BY <1>3, <2>1, <2>4
  <2>10. Parted(t, values, E, done, <<>>)
    BY <1>3, <1>7, <2>1, <2>7, <2>8, <2>9 DEF Parted
  <2>. QED
    BY <1>3, <2>4, <2>10 DEF Cut, t
<1>. QED
  BY <1>8, <1>9, <1>10, <1>11, Going

-----------------------------------------------------------------------------
(* The specification.                                                      *)

\* Whatever was sent so far.
TypeOK ==
  /\ ChunksAlone
  /\ surface \in {Blocks, Items, Chunks} /\ captured \in {{}, {Value}}
  /\ stream \in Seq(surface \cup {Other})

\* ... with what is held back of it, what is out of it and what was held up to each
\* moment at which a client acts.
Inv ==
  /\ TypeOK
  /\ Shaped(stream, captured, surface)
  /\ Faithful(stream, captured)
  /\ Cut(stream, captured, surface)

\* Of nothing, nothing is held back or out.
LEMMA AtFirst ==
  ASSUME NEW E, Sent(E), NEW values, OneValue(values)
  PROVE  Shaped(<<>>, values, E) /\ Faithful(<<>>, values) /\ Cut(<<>>, values, E)
<1>1. /\ Shaped(<<>>, values, E)
      /\ Out(<<>>, values) = <<>> /\ Raw(<<>>, values) = <<>> /\ Open(<<>>) = <<>>
  BY ShapedStep
<1>2. Rendered(<<>>) = <<>> /\ <<>> \o <<>> = <<>> /\ <<>> \in Seq(Events) /\ <<>> \in Seq(Seq(Events))
  BY DEF Rendered
<1>3. Moments(<<>>) = <<>> /\ Stretches(<<>>) = <<>>
  BY MomentsStep, StretchesStep
<1>4. Faithful(<<>>, values)
  <2>1. SayTheSame(Behind(<<>>, values), <<>>)
    BY <1>1, <1>2 DEF Behind, SayTheSame
  <2>. QED
    BY <1>1, <1>3, <2>1 DEF Faithful
<1>5. Settles(<<>>, <<>>, values)
  <2>1. ASSUME NEW c PROVE ChannelText(Blanked(<<>>, values), c) = Wholes(<<>>, c, values)
    BY BlankedOne, Saying, WholesThen
  <2>. QED
    BY <2>1 DEF Settles
<1>6. Parted(<<>>, values, E, <<>>, <<>>)
  BY <1>1, <1>2, <1>3, <1>5 DEF Parted, Then
<1>. QED
  BY <1>1, <1>2, <1>4, <1>6 DEF Cut

\* Every stream a provider sends keeps it.
THEOREM Kept ==
  ASSUME ChunksAlone
  PROVE  Spec => []Inv
<1>1. Init => Inv
  <2>. SUFFICES ASSUME Init PROVE Inv
    OBVIOUS
  <2>1. TypeOK /\ Sent(surface) /\ OneValue(captured) /\ stream = <<>>
    BY DEF Init, TypeOK, Sent, OneValue
  <2>2. Shaped(<<>>, captured, surface) /\ Faithful(<<>>, captured) /\ Cut(<<>>, captured, surface)
    BY <2>1, AtFirst
  <2>. QED
    BY <2>1, <2>2 DEF Inv
<1>2. Inv /\ [Next]_vars => Inv'
  <2>. SUFFICES ASSUME Inv, [Next]_vars PROVE Inv'
    OBVIOUS
  <2>1. TypeOK /\ Sent(surface) /\ OneValue(captured)
    BY DEF Inv, TypeOK, Sent, OneValue
  <2>2. CASE Arrive
    <3>1. PICK e \in surface \cup {Other} : stream' = Append(stream, e)
      BY <2>2 DEF Arrive
    <3>2. surface' = surface /\ captured' = captured
      BY <2>2 DEF Arrive
    <3>3. Append(stream, e) \in Seq(surface \cup {Other})
      <4>. DEFINE U == surface \cup {Other}
      <4>1. stream \in Seq(U) /\ e \in U
        BY <2>1, <3>1 DEF TypeOK
      <4>. HIDE DEF U
      <4>2. Append(stream, e) \in Seq(U)
        BY <4>1
      <4>. QED
        BY <4>2 DEF U
    <3>4. TypeOK'
      BY <2>1, <3>1, <3>2, <3>3 DEF TypeOK
    <3>5. Shaped(Append(stream, e), captured, surface)
      BY <2>1, <3>1, ShapedStep DEF Inv
    <3>6. Faithful(Append(stream, e), captured)
      BY <2>1, <3>1, FaithfulStep DEF Inv
    <3>7. Cut(Append(stream, e), captured, surface)
      BY <2>1, <3>1, CutStep DEF Inv
    <3>. QED
      BY <3>1, <3>2, <3>4, <3>5, <3>6, <3>7 DEF Inv
  <2>3. CASE UNCHANGED vars
    BY <2>3 DEF Inv, TypeOK, vars
  <2>. QED
    BY <2>2, <2>3 DEF Next
<1>. QED
  BY <1>1, <1>2, PTL DEF Spec

\* Where a text was split is all a client cannot see of the joining: it reassembles
\* every text, and had of each what the provider had sent at every moment it acts;
\* if the chunks that are joined carry nothing beside. Chunks that do are joined
\* and lose it: the run StreamChunks.
THEOREM Reassembly ==
  ASSUME ChunksAlone
  PROVE  Spec => []SameReassembly
<1>1. Inv => SameReassembly
  <2>. SUFFICES ASSUME Inv PROVE SameReassembly
    OBVIOUS
  <2>. DEFINE s == stream
              all == All(stream, captured)
              ma == Moments(all)
              ms == Moments(s)
  <2>1. /\ Sent(surface) /\ OneValue(captured) /\ Shaped(s, captured, surface)
        /\ Faithful(s, captured) /\ s \in Seq(Events)
    BY DEF Inv, TypeOK, Sent, OneValue, Shaped
  <2>2. Coalesced(s, captured) = all
    BY <2>1, CoalescedIs
  <2>3. ma = Moments(Out(s, captured))
    BY <2>1, NobodyActs
  <2>4. Len(ma) = Len(ms) /\ \A i \in DOMAIN ms : SayTheSame(ma[i], ms[i])
    BY <2>1, <2>3 DEF Faithful
  <2>5. ms \in Seq(Seq(Events)) /\ ma \in Seq(Seq(Events))
    <3>1. all \in Seq(Events)
      BY <2>1, Parts
    <3>. HIDE DEF all
    <3>. QED
      BY <2>1, <3>1, MomentsStep
  <2>6. SayTheSame(all, s)
    <3>1. SayTheSame(all, Behind(s, captured))
      BY <2>1, AllSays
    <3>2. SayTheSame(Behind(s, captured), s)
      BY <2>1 DEF Faithful
    <3>. QED
      BY <3>1, <3>2 DEF SayTheSame
  <2>. HIDE DEF s, all, ma, ms
  <2>7. DOMAIN ma = DOMAIN ms
    BY <2>4, <2>5
  <2>8. \A i \in DOMAIN ms : Had(ma[i]) = Had(ms[i])
    BY <2>4, SayingTheSame
  <2>9. Had(all) = Had(s)
    BY <2>6, SayingTheSame
  <2>10. [i \in DOMAIN ma |-> Had(ma[i])] = [i \in DOMAIN ms |-> Had(ms[i])]
    BY <2>7, <2>8, Zenon
  <2>11. Reassembled(all) = Reassembled(s)
    BY <2>9, <2>10, Zenon DEF Reassembled, ma, ms
  <2>. QED
    BY <2>2, <2>11 DEF SameReassembly, s
<1>. QED
  BY <1>1, Kept, PTL

\* What is stored has, in each channel, what blanking the whole of each unbroken
\* stretch gives: a value is out of it however the pieces were split, of chunks that
\* carry nothing beside what is joined.
THEOREM OutOfWhatIsStored ==
  ASSUME ChunksAlone
  PROVE  Spec => []BlankedWhole
<1>1. Inv => BlankedWhole
  <2>. SUFFICES ASSUME Inv PROVE BlankedWhole
    OBVIOUS
  <2>1. /\ Sent(surface) /\ OneValue(captured) /\ Shaped(stream, captured, surface)
        /\ Cut(stream, captured, surface)
    BY DEF Inv, TypeOK, Sent, OneValue
  <2>2. Coalesced(stream, captured) = All(stream, captured)
    BY <2>1, CoalescedIs
  <2>3. Settles(Stretches(stream), All(stream, captured), captured)
    <3>1. PICK ss \in Seq(Seq(Events)), last \in Seq(Events) :
            Parted(stream, captured, surface, ss, last)
      BY <2>1 DEF Cut
    <3>. QED
      BY <2>1, <3>1, Settled
  <2>4. \A c : ChannelText(Stored(stream, captured), c) = Wholes(Stretches(stream), c, captured)
    BY <2>2, <2>3 DEF Settles, Stored
  <2>. QED
    BY <2>4 DEF BlankedWhole, Wholes
<1>. QED
  BY <1>1, Kept, PTL

\* The visible answer keeps the events it came in, in every stretch whose text holds
\* no captured value.
THEOREM Pacing ==
  ASSUME ChunksAlone
  PROVE  Spec => []PacedAnswer
<1>1. Inv => PacedAnswer
  <2>. SUFFICES ASSUME Inv PROVE PacedAnswer
    OBVIOUS
  <2>. DEFINE all == All(stream, captured)
              ss == Stretches(stream)
  <2>1. /\ Sent(surface) /\ OneValue(captured) /\ Shaped(stream, captured, surface)
        /\ Cut(stream, captured, surface)
    BY DEF Inv, TypeOK, Sent, OneValue
  <2>2. Coalesced(stream, captured) = all /\ all \in Seq(Events)
    BY <2>1, CoalescedIs, Parts
  <2>3. Settles(ss, all, captured) /\ ss \in Seq(Seq(Events))
    <3>1. PICK tt \in Seq(Seq(Events)), last \in Seq(Events) :
            Parted(stream, captured, surface, tt, last)
      BY <2>1 DEF Cut
    <3>. QED
      BY <2>1, <3>1, Settled
  <2>. HIDE DEF all, ss
  <2>4. ASSUME NEW p \in ToSet(ss), IsTextFragment(p[1])
        PROVE  \/ \E v \in captured : Holds(Joined(Texts(p)), v)
               \/ \E i \in 1..(Len(all) - Len(p) + 1) : SubSeq(all, i, i + Len(p) - 1) = p
    <3>1. p \in Seq(Events) /\ \E i \in 1..Len(ss) : p = ss[i]
      BY <2>3, Held
    <3>2. DOMAIN ss = 1..Len(ss)
      BY <2>3, Elements
    <3>3. Paced(p, all, captured)
      BY <2>3, <3>1, <3>2 DEF Settles
    <3>. QED
      BY <2>2, <2>4, <3>1, <3>3, WithinAt DEF Paced
  <2>. QED
    BY <2>2, <2>4 DEF PacedAnswer, ss
<1>. QED
  BY <1>1, Kept, PTL
=============================================================================
