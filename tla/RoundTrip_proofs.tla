---------------------------- MODULE RoundTrip_proofs ----------------------------
(***************************************************************************)
(* Proofs about RoundTrip, for every set of programs, any number of        *)
(* threads, any window and any number of answers asked for again.          *)
(***************************************************************************)
EXTENDS RoundTrip, Store_proofs

\* The types of IInv: what the counters and the histories range over.
LEMMA Types ==
  ASSUME IInv
  PROVE  /\ program \in [Threads -> Seq(Requests)]
         /\ \A t \in Threads : program[t] \in Seq(Requests) /\ Len(program[t]) \in Nat
         /\ sent \in [Threads -> Nat] /\ \A t \in Threads : sent[t] <= Len(program[t])
         /\ got \in [Threads -> Seq(Nat)]
         /\ script \in Seq(Requests) /\ Len(script) \in Nat /\ Steps = 1 .. Len(script)
         /\ recordOf \in Seq(Threads \X Nat) /\ DOMAIN recordOf = Steps
         /\ Len(recordOf) = Len(script)
<1>1. /\ program \in [Threads -> Seq(Requests)] /\ sent \in [Threads -> Nat]
      /\ got \in [Threads -> Seq(Nat)] /\ recordOf \in Seq(Threads \X Nat)
      /\ script \in Seq(Requests) /\ Len(recordOf) = Len(script)
      /\ \A t \in Threads : sent[t] \in 0 .. Len(program[t])
  BY ProgramsAssumption DEF IInv, TypeOK, StoreTypeOK
<1>2. \A t \in Threads : program[t] \in Seq(Requests) /\ Len(program[t]) \in Nat
  BY <1>1
<1>3. Len(script) \in Nat /\ Steps = 1 .. Len(script) /\ DOMAIN recordOf = 1 .. Len(recordOf)
  BY <1>1, StepsAreNumbers
<1>4. QED
  BY <1>1, <1>2, <1>3

-----------------------------------------------------------------------------
(* Recording.                                                              *)

\* A thread sends its next request, which was never made before.
LEMMA SendKeeps ==
  ASSUME IInv, NEW t \in Threads, Send(t)
  PROVE  IInv'
<1>. DEFINE n == sent[t] + 1
            e == <<t, n>>
<1>1. /\ phase = "recording" /\ sent[t] < Len(program[t])
      /\ sent' = [sent EXCEPT ![t] = n] /\ flying' = flying \cup {e}
      /\ UNCHANGED <<program, phase, ending, lost, recordOf, got, refused, retried,
                     script, lookahead, served, cursor, last, reply, order>>
  BY DEF Send, Ready, cassetteVars, storeVars
<1>2. n \in Nat /\ n \in 1 .. Len(program[t]) /\ sent[t] \in Nat
  BY <1>1, Types
<1>3. sent' \in [Threads -> Nat] /\ sent'[t] = n
      /\ \A u \in Threads \ {t} : sent'[u] = sent[u]
  BY <1>1, <1>2, Types
<1>4. TypeOK'
  <2>1. StoreTypeOK'
    BY <1>1 DEF IInv, TypeOK, StoreTypeOK, Steps
  <2>2. \A u \in Threads : sent'[u] \in 0 .. Len(program[u])
    <3>1. \A u \in Threads \ {t} : sent'[u] \in 0 .. Len(program[u])
      BY <1>3, Types
    <3>2. sent'[t] \in 0 .. Len(program[t])
      BY <1>2, <1>3, Types
    <3>3. QED
      BY <3>1, <3>2
  <2>3. QED
    BY <1>1, <2>1, <2>2 DEF IInv, TypeOK
<1>5. e \notin Accounted
  BY <1>1, <1>2 DEF IInv, Ledger, Made, Replaying
<1>6. Ledger'
  <2>1. /\ Recorded' = Recorded /\ ~Replaying /\ ~Replaying'
        /\ Accounted' = Accounted \cup {e}
    BY <1>1 DEF Recorded, Replaying, Accounted
  <2>2. \A u \in Threads : Made(u)' = IF u = t THEN n ELSE Made(u)
    BY <1>1, <1>3, <2>1 DEF Made
  <2>3. ASSUME NEW u \in Threads, NEW i \in 1 .. Made(u)'
        PROVE  <<u, i>> \in Accounted'
    <3>1. CASE u = t /\ i = n
      BY <3>1, <2>1
    <3>2. CASE ~(u = t /\ i = n)
      <4>1. i \in 1 .. Made(u)
        BY <1>1, <1>2, <2>1, <2>2, <2>3, <3>2 DEF Made
      <4>2. QED
        BY <1>1, <2>1, <4>1 DEF IInv, Ledger
    <3>3. QED
      BY <3>1, <3>2
  <2>4. ASSUME NEW f \in Accounted'
        PROVE  f \in Threads \X Nat /\ f[2] \in 1 .. Made(f[1])'
    <3>1. CASE f = e
      BY <3>1, <1>2, <2>2
    <3>2. CASE f \in Accounted
      <4>1. f \in Threads \X Nat /\ f[2] \in 1 .. Made(f[1])
        BY <3>2 DEF IInv, Ledger
      <4>2. Made(f[1]) \in Nat /\ Made(f[1])' \in Nat /\ Made(f[1]) <= Made(f[1])'
        BY <1>1, <1>2, <2>1, <2>2, <4>1, Types DEF Made
      <4>3. QED
        BY <4>1, <4>2
    <3>3. QED
      BY <1>1, <2>1, <2>4, <3>1, <3>2
  <2>5. \A p \in DOMAIN script' : script'[p] = RequestOf(recordOf[p])'
    BY <1>1 DEF IInv, Ledger, RequestOf
  <2>6. /\ (flying \cap ending = {})' /\ ((flying \cup ending) \cap (lost \cup Recorded) = {})'
        /\ (lost \cap Recorded = {})'
    BY <1>1, <1>5, <2>1 DEF IInv, Ledger, Accounted
  <2>7. QED
    BY <1>1, <2>3, <2>4, <2>5, <2>6 DEF IInv, Ledger
<1>7. AtTheEnd' /\ ~Replaying'
  BY <1>1 DEF IInv, AtTheEnd, Steps, Replaying
<1>8. QED
  BY <1>1, <1>3, <1>4, <1>6, <1>7 DEF IInv, NoMissWhenGapsFit, OwnAnswers, Followable

\* The client has its answer: the exchange passes from flying to ending.
LEMMA AnswerKeeps ==
  ASSUME IInv, NEW e \in flying, Answer(e)
  PROVE  IInv'
<1>1. /\ flying' = flying \ {e} /\ ending' = ending \cup {e}
      /\ UNCHANGED <<program, phase, sent, lost, recordOf, got, refused, retried,
                     script, lookahead, served, cursor, last, reply, order>>
  BY DEF Answer, cassetteVars, storeVars
<1>2. ~Replaying /\ ~Replaying' /\ AtTheEnd
  BY <1>1 DEF IInv, Rewound, Replaying
<1>3. TypeOK'
  <2>1. StoreTypeOK'
    BY <1>1 DEF IInv, TypeOK, StoreTypeOK, Steps
  <2>2. QED
    BY <1>1, <2>1 DEF IInv, TypeOK
<1>4. Ledger'
  <2>1. Recorded' = Recorded /\ \A u : Made(u)' = Made(u)
    BY <1>1, <1>2 DEF Recorded, Made
  <2>2. flying' \cup ending' = flying \cup ending /\ Accounted' = Accounted
    BY <1>1, <2>1 DEF Accounted
  <2>3. flying' \cap ending' = {}
    BY <1>1 DEF IInv, Ledger
  <2>4. \A p \in DOMAIN script' : script'[p] = RequestOf(recordOf[p])'
    BY <1>1 DEF IInv, Ledger, RequestOf
  <2>5. QED
    BY <1>1, <2>1, <2>2, <2>3, <2>4 DEF IInv, Ledger
<1>5. AtTheEnd'
  BY <1>1, <1>2 DEF AtTheEnd, Steps
<1>6. QED
  BY <1>1, <1>2, <1>3, <1>4, <1>5 DEF IInv, NoMissWhenGapsFit, OwnAnswers, Followable

\* A handler ends: its exchange is recorded behind all the others.
LEMMA RecordKeeps ==
  ASSUME IInv, NEW e \in ending, Record(e)
  PROVE  IInv'
<1>. DEFINE n == Len(script) + 1
            r == RequestOf(e)
<1>1. /\ ending' = ending \ {e} /\ recordOf' = Append(recordOf, e)
      /\ script' = Append(script, r) /\ served' = served \cup {n}
      /\ cursor' = n + 1 /\ last' = n
      /\ UNCHANGED <<program, phase, sent, flying, lost, got, refused, retried,
                     lookahead, reply, order>>
  BY Types DEF Record, CursorPastEnd
<1>2. ~Replaying /\ ~Replaying' /\ AtTheEnd
  BY <1>1 DEF IInv, Rewound, Replaying
<1>3. e \in Threads \X Nat /\ r \in Requests
  <2>1. e \in Threads \X Nat /\ e[2] \in 1 .. Made(e[1])
    BY DEF IInv, Ledger, Accounted
  <2>2. e[1] \in Threads /\ e[2] \in 1 .. Len(program[e[1]])
    BY <1>2, <2>1, Types DEF Made
  <2>3. QED
    BY <2>1, <2>2, Types DEF RequestOf
<1>4. /\ script' \in Seq(Requests) /\ Len(script') = n /\ Steps' = Steps \cup {n}
      /\ \A p \in Steps : script'[p] = script[p]
      /\ script'[n] = r /\ n \notin Steps
  <2>1. DOMAIN script = 1 .. Len(script)
    BY Types DEF Steps
  <2>2. QED
    BY <1>1, <1>3, <2>1, Types DEF Steps
<1>5. /\ recordOf' \in Seq(Threads \X Nat) /\ Len(recordOf') = n
      /\ DOMAIN recordOf' = DOMAIN recordOf \cup {n} /\ n \notin DOMAIN recordOf
      /\ DOMAIN recordOf = Steps
      /\ \A p \in Steps : recordOf'[p] = recordOf[p]
      /\ recordOf'[n] = e
  <2>. DEFINE E == Threads \X Nat
  <2>1. recordOf \in Seq(E) /\ e \in E
    BY <1>3, Types
  <2>2. DOMAIN recordOf = Steps /\ Steps = 1 .. Len(script) /\ Len(recordOf) = Len(script)
        /\ Len(script) \in Nat
    BY Types
  <2>. HIDE DEF E, r
  <2>3. recordOf' \in Seq(E) /\ Len(recordOf') = n /\ recordOf'[n] = e
    BY <1>1, <2>1, <2>2
  <2>4. DOMAIN recordOf' = 1 .. n /\ \A p \in 1 .. Len(recordOf) : recordOf'[p] = recordOf[p]
    BY <1>1, <2>1, <2>2
  <2>5. QED
    BY <2>2, <2>3, <2>4 DEF E
<1>6. TypeOK'
  <2>1. StoreTypeOK'
    BY <1>1, <1>2, <1>4, Types DEF IInv, TypeOK, StoreTypeOK, AtTheEnd, Steps
  <2>2. QED
    BY <1>1, <1>4, <1>5, <2>1 DEF IInv, TypeOK
<1>7. AtTheEnd'
  BY <1>1, <1>2, <1>4 DEF AtTheEnd
<1>8. Ledger'
  <2>1. Recorded' = Recorded \cup {e}
    BY <1>5 DEF Recorded
  <2>2. \A u : Made(u)' = Made(u)
    BY <1>1, <1>2 DEF Made
  <2>3. e \notin flying /\ e \notin Recorded /\ e \notin lost
    BY DEF IInv, Ledger
  <2>4. Accounted' = Accounted
    BY <1>1, <2>1 DEF Accounted
  <2>5. /\ flying' \cap ending' = {} /\ (flying' \cup ending') \cap (lost' \cup Recorded') = {}
        /\ lost' \cap Recorded' = {}
    BY <1>1, <2>1, <2>3 DEF IInv, Ledger
  <2>6. ASSUME NEW p \in DOMAIN recordOf', NEW q \in DOMAIN recordOf',
               recordOf'[p] = recordOf'[q]
        PROVE  p = q
    <3>1. \A k \in Steps : recordOf[k] # e
      BY <1>5, <2>3 DEF Recorded
    <3>2. QED
      BY <1>5, <2>6, <3>1 DEF IInv, Ledger
  <2>7. \A p \in DOMAIN script' : script'[p] = RequestOf(recordOf[p])'
    <3>1. \A x : RequestOf(x)' = RequestOf(x)
      BY <1>1 DEF RequestOf
    <3>2. ASSUME NEW p \in Steps'
          PROVE  script'[p] = RequestOf(recordOf[p])'
      <4>1. CASE p = n
        BY <1>1, <1>4, <1>5, <4>1 DEF RequestOf
      <4>2. CASE p \in Steps
        BY <1>1, <1>4, <1>5, <4>2 DEF RequestOf, IInv, Ledger, Steps
      <4>3. QED
        BY <1>4, <3>2, <4>1, <4>2
    <3>3. QED
      BY <3>2 DEF Steps
  <2>8. QED
    BY <2>2, <2>4, <2>5, <2>6, <2>7 DEF IInv, Ledger
<1>9. QED
  BY <1>1, <1>2, <1>5, <1>6, <1>7, <1>8 DEF IInv, NoMissWhenGapsFit, OwnAnswers, Followable

\* A handler ends of which nothing is kept: its exchange is one of the lost.
LEMMA KeepNothingKeeps ==
  ASSUME IInv, NEW e \in ending, KeepNothing(e)
  PROVE  IInv'
<1>1. /\ ending' = ending \ {e} /\ lost' = lost \cup {e}
      /\ UNCHANGED <<program, phase, sent, flying, recordOf, got, refused, retried,
                     script, lookahead, served, cursor, last, reply, order>>
  BY DEF KeepNothing, cassetteVars, storeVars
<1>2. ~Replaying /\ ~Replaying' /\ AtTheEnd
  BY <1>1 DEF IInv, Rewound, Replaying
<1>3. TypeOK'
  <2>1. StoreTypeOK'
    BY <1>1 DEF IInv, TypeOK, StoreTypeOK, Steps
  <2>2. QED
    BY <1>1, <2>1 DEF IInv, TypeOK
<1>4. Ledger'
  <2>1. Recorded' = Recorded /\ \A u : Made(u)' = Made(u)
    BY <1>1, <1>2 DEF Recorded, Made
  <2>2. Accounted' = Accounted
    BY <1>1, <2>1 DEF Accounted
  <2>3. e \notin flying /\ e \notin Recorded
    BY DEF IInv, Ledger
  <2>4. /\ flying' \cap ending' = {} /\ (flying' \cup ending') \cap (lost' \cup Recorded') = {}
        /\ lost' \cap Recorded' = {}
    BY <1>1, <2>1, <2>3 DEF IInv, Ledger
  <2>5. \A p \in DOMAIN script' : script'[p] = RequestOf(recordOf[p])'
    BY <1>1 DEF IInv, Ledger, RequestOf
  <2>6. QED
    BY <1>1, <2>1, <2>2, <2>4, <2>5 DEF IInv, Ledger
<1>5. AtTheEnd'
  BY <1>1, <1>2 DEF AtTheEnd, Steps
<1>6. QED
  BY <1>1, <1>2, <1>3, <1>4, <1>5 DEF IInv, NoMissWhenGapsFit, OwnAnswers, Followable

-----------------------------------------------------------------------------
(* Replaying.                                                              *)

\* The next session starts with no step served, and with every exchange recorded
\* or lost: those the agent never made, and those that were given up.
LEMMA ReopenedKeeps ==
  ASSUME IInv, Reopened, lost' = lost \cup Unsent \cup flying \cup ending
  PROVE  IInv'
<1>1. /\ phase = "recording" /\ phase' = "replaying"
      /\ flying' = {} /\ ending' = {}
      /\ sent' = [t \in Threads |-> 0]
      /\ served' = {} /\ cursor' = 1 /\ last' = 0 /\ reply' = NoReply /\ order' = <<>>
      /\ UNCHANGED <<program, recordOf, got, refused, retried, script, lookahead>>
  BY DEF Reopened
<1>2. ~Replaying /\ Replaying' /\ AtTheEnd
  BY <1>1 DEF IInv, Rewound, Replaying
<1>3. StoreInv'
  BY <1>1, Types DEF IInv, TypeOK, StoreInv, StoreTypeOK, Positions, InRecordedOrder,
       HandedOutOnce, HandedOutByRequest, ServedParsable, Steps
<1>4. TypeOK'
  BY <1>1, <1>3, Types DEF IInv, TypeOK, StoreInv
<1>5. Ledger'
  <2>1. Recorded' = Recorded /\ Accounted' = Accounted \cup Unsent
    BY <1>1 DEF Recorded, Accounted
  <2>2. \A t \in Threads : /\ Made(t) = sent[t] /\ Made(t)' = Len(program[t])
                           /\ sent[t] \in Nat /\ Len(program[t]) \in Nat
                           /\ sent[t] <= Len(program[t])
    BY <1>1, <1>2, Types DEF Made
  <2>3. \A e \in Unsent : /\ e \in Threads \X Nat
                          /\ e[2] > sent[e[1]] /\ e[2] \in 1 .. Len(program[e[1]])
    <3>. SUFFICES ASSUME NEW t \in Threads, NEW i \in (sent[t] + 1) .. Len(program[t])
                  PROVE  i \in Nat /\ i > sent[t] /\ i \in 1 .. Len(program[t])
      BY DEF Unsent
    <3>1. QED
      BY <2>2
  <2>4. \A e \in Accounted : e \in Threads \X Nat /\ e[2] \in 1 .. sent[e[1]]
    BY <2>2 DEF IInv, Ledger
  <2>5. ASSUME NEW t \in Threads, NEW i \in 1 .. Made(t)'
        PROVE  <<t, i>> \in Accounted'
    <3>1. CASE i <= sent[t]
      BY <2>1, <2>2, <3>1 DEF IInv, Ledger
    <3>2. CASE i > sent[t]
      <4>1. i \in (sent[t] + 1) .. Len(program[t])
        BY <2>2, <3>2
      <4>2. QED
        BY <2>1, <4>1 DEF Unsent
    <3>3. QED
      BY <2>2, <3>1, <3>2
  <2>6. ASSUME NEW e \in Accounted'
        PROVE  e \in Threads \X Nat /\ e[2] \in 1 .. Made(e[1])'
    <3>1. CASE e \in Unsent
      BY <2>2, <2>3, <3>1
    <3>2. CASE e \in Accounted
      <4>1. e[1] \in Threads /\ e[2] \in 1 .. sent[e[1]]
        BY <2>4, <3>2
      <4>2. QED
        BY <2>2, <2>4, <3>2, <4>1
    <3>3. QED
      BY <2>1, <3>1, <3>2
  <2>7. lost' \cap Recorded' = {}
    <3>1. Recorded \subseteq Accounted
      BY DEF Accounted
    <3>2. Unsent \cap Recorded = {}
      <4>1. ASSUME NEW e \in Unsent, e \in Recorded
            PROVE  FALSE
        <5>1. e[1] \in Threads /\ e[2] \in Nat /\ e[2] > sent[e[1]]
          BY <2>3
        <5>2. e[2] <= sent[e[1]]
          BY <2>4, <3>1, <4>1
        <5>3. QED
          BY <2>2, <5>1, <5>2
      <4>2. QED
        BY <4>1
    <3>3. (flying \cup ending \cup lost) \cap Recorded = {}
      BY DEF IInv, Ledger
    <3>4. QED
      BY <2>1, <3>2, <3>3
  <2>8. \A p \in DOMAIN script' : script'[p] = RequestOf(recordOf[p])'
    BY <1>1 DEF IInv, Ledger, RequestOf
  <2>9. QED
    BY <1>1, <2>5, <2>6, <2>7, <2>8 DEF IInv, Ledger
<1>6. got' = [t \in Threads |-> <<>>] /\ refused' = {}
  BY <1>1, <1>2 DEF AtTheEnd
<1>7. Rewound'
  BY <1>1, <1>3, <1>6 DEF Rewound
<1>8. Keeping'
  <2>1. \A p \in Steps' : recordOf'[p][1] \in Threads /\ recordOf'[p][2] \in Nat \ {0}
    <3>1. \A p \in Steps : recordOf[p] \in Accounted
      BY Types DEF Recorded, Accounted
    <3>2. \A p \in Steps : recordOf[p] \in Threads \X Nat
                           /\ recordOf[p][2] \in 1 .. Made(recordOf[p][1])
      BY <3>1 DEF IInv, Ledger
    <3>3. QED
      BY <1>1, <3>2 DEF Steps
  <2>2. QED
    BY <1>1, <2>1 DEF Keeping
<1>9. NoMissWhenGapsFit' /\ OwnAnswers'
  BY <1>6 DEF NoMissWhenGapsFit, OwnAnswers
<1>10. QED
  BY <1>1, <1>2, <1>4, <1>5, <1>7, <1>8, <1>9, Types DEF IInv

\* A session that drains leaves nothing in flight to be lost.
LEMMA ReopenKeeps ==
  ASSUME IInv, Reopen \/ GiveUp
  PROVE  IInv'
<1>1. Reopened /\ lost' = lost \cup Unsent \cup flying \cup ending
  BY DEF Reopen, GiveUp, Drained
<1>2. QED
  BY <1>1, ReopenedKeeps

\* Every request of a thread that was not lost is recorded in some step.
LEMMA RecordedSomewhere ==
  ASSUME IInv, Replaying, NEW t \in Threads, NEW i \in 1 .. Len(program[t]),
         <<t, i>> \notin lost
  PROVE  /\ RequestOf(<<t, i>>) \in Requests
         /\ \E p \in Steps : recordOf[p] = <<t, i>> /\ script[p] = RequestOf(<<t, i>>)
<1>1. <<t, i>> \in Recorded
  BY DEF IInv, Ledger, Accounted, Rewound, Made
<1>2. PICK p \in Steps : recordOf[p] = <<t, i>>
  BY <1>1, Types DEF Recorded
<1>3. script[p] = RequestOf(<<t, i>>)
  BY <1>2 DEF IInv, Ledger, Steps
<1>4. RequestOf(<<t, i>>) \in Requests
  BY Types DEF RequestOf
<1>5. QED
  BY <1>2, <1>3, <1>4

\* The step that records a thread's next request is in reach: the step before
\* it in the thread was served, and no more than the window lies between.
LEMMA NextInReach ==
  ASSUME IInv, Followable, NEW t \in Threads, NEW p \in Steps,
         recordOf[p] = <<t, sent[t] + 1>>
  PROVE  p <= Frontier + lookahead
<1>. DEFINE b == Before(recordOf[p])
<1>1. Replaying /\ Rewound /\ Keeping /\ StoreInv /\ lookahead \in Int
  BY DEF IInv, Followable, Rewound, StoreInv, StoreTypeOK
<1>2. p - b - 1 <= lookahead
  BY Types DEF Followable, GapsFit
<1>3. Frontier \in Int /\ Frontier >= 1 /\ \A q \in served : q < Frontier
  BY <1>1, ServedBehindFrontier
<1>4. sent[t] \in Nat /\ p \in Nat /\ sent[t] <= Len(program[t])
  BY Types
<1>5. CASE sent[t] = 0
  <2>1. b = 0
    BY <1>5 DEF Before
  <2>2. QED
    BY <1>1, <1>2, <1>3, <1>4, <2>1
<1>6. CASE sent[t] # 0
  <2>1. b = StepOf(<<t, sent[t]>>)
    <3>. DEFINE k == sent[t] + 1
    <3>1. k # 1 /\ k - 1 = sent[t]
      BY <1>4, <1>6
    <3>. HIDE DEF k
    <3>2. b = IF k = 1 THEN 0 ELSE StepOf(<<t, k - 1>>)
      BY DEF Before, k
    <3>3. QED
      BY <3>1, <3>2
  <2>2. sent[t] \in 1 .. Len(program[t])
    BY <1>4, <1>6, Types
  <2>3. \E q \in Steps : recordOf[q] = <<t, sent[t]>>
    BY <1>1, <2>2, RecordedSomewhere DEF Followable, Complete
  <2>4. b \in Steps /\ recordOf[b] = <<t, sent[t]>>
    BY <2>1, <2>3, Types DEF StepOf
  <2>5. recordOf[b][2] <= sent[recordOf[b][1]]
    BY <1>4, <2>4
  <2>6. b \in served
    BY <1>1, <2>4, <2>5 DEF Keeping
  <2>7. b \in Nat /\ b < Frontier
    BY <1>3, <2>4, <2>6, Types
  <2>. HIDE DEF b
  <2>8. QED
    BY <1>1, <1>2, <1>3, <1>4, <2>7
<1>7. QED
  BY <1>5, <1>6

\* Whether the recording can be followed is settled when it is opened.
LEMMA FollowableIsSettled ==
  ASSUME UNCHANGED <<program, phase, lost, recordOf, script, lookahead>>
  PROVE  /\ Followable' = Followable /\ Replaying' = Replaying
         /\ Distinct' = Distinct
BY DEF Followable, Complete, Replaying, GapsFit, Before, StepOf, Apart, InTurn, Parsable, Distinct

\* A request under a recording that can be followed is not refused, whether it
\* is the thread's next or its last once more, and the step that records it has
\* been served by then.  It is that step that answers, if its request was made
\* once or if it was not served before.
LEMMA FollowedAnswer ==
  ASSUME IInv, Followable, NEW t \in Threads, NEW i \in 1 .. Len(program[t]),
         i = sent[t] \/ i = sent[t] + 1,
         Serve(RequestOf(<<t, i>>)), UNCHANGED <<script, lookahead>>
  PROVE  \E p \in Steps :
           /\ recordOf[p] = <<t, i>>
           /\ reply'.kind # "miss" /\ reply'.step \in Steps
           /\ served' = served \cup {reply'.step} /\ p \in served'
           /\ Distinct \/ p \notin served => reply'.step = p
<1>. DEFINE r == RequestOf(<<t, i>>)
            m == reply'.step
<1>1. Replaying /\ Rewound /\ Keeping /\ StoreInv
  BY DEF IInv, Followable, Rewound
<1>2. PICK p \in Steps : recordOf[p] = <<t, i>> /\ script[p] = r
  BY <1>1, RecordedSomewhere DEF Followable, Complete
<1>3. r \in Requests /\ Aligns(p, r)
  BY <1>2, Types DEF Aligns, Followable, Parsable, Steps, RequestOf
<1>4. sent[t] \in Nat /\ i \in Nat
  BY Types
<1>5. i = sent[t] => p \in served
  BY <1>1, <1>2, <1>4 DEF Keeping
<1>6. p \notin served => Fits(r, lookahead) # {}
  <2>1. p \notin served => p <= Frontier + lookahead
    BY <1>2, <1>5, NextInReach
  <2>2. QED
    BY <1>1, <1>3, <2>1, FoundInReach
<1>7. /\ reply'.kind # "miss" /\ m \in Steps /\ script[m] = r
      /\ served' = served \cup {m}
      /\ Fits(r, lookahead) # {} => AtHead(m)
  <2>1. Fits(r, lookahead) # {} \/ Seen(r) # {}
    BY <1>1, <1>3, <1>6, FoundInReach
  <2>. HIDE DEF r
  <2>2. QED
    BY <1>1, <1>3, <2>1, Answered DEF r
<1>8. p \notin served => m = p
  <2>. SUFFICES ASSUME p \notin served, m # p PROVE FALSE
    OBVIOUS
  <2>. HIDE DEF m, r
  <2>1. AtHead(m)
    BY <1>6, <1>7
  <2>2. m \in Steps /\ m \notin served /\ m \in Nat /\ p \in Nat
    <3>1. m \in Steps /\ m \notin served
      BY <2>1 DEF AtHead, Unserved
    <3>2. \A q \in Steps : q \in Nat
      BY Types DEF Steps
    <3>3. QED
      BY <3>1, <3>2
  <2>3. m < p /\ script[m] = script[p]
    BY <1>2, <1>7, <2>1, <2>2 DEF AtHead
  <2>4. recordOf[m] \in Threads \X Nat /\ recordOf[m][1] = t /\ recordOf[m][2] < i
    BY <1>2, <2>2, <2>3, Types DEF Followable, Apart, InTurn, Steps
  <2>5. recordOf[m][2] <= sent[recordOf[m][1]]
    BY <1>4, <2>4
  <2>6. QED
    BY <1>1, <2>2, <2>5 DEF Keeping
<1>9. Distinct => m = p
  BY <1>2, <1>7 DEF Distinct, Steps
<1>10. QED
  BY <1>2, <1>7, <1>8, <1>9

\* What a request of a replaying thread leaves as it was, and that the store
\* keeps its own invariant.
LEMMA ReplayLeaves ==
  ASSUME IInv, Replaying, NEW t \in Threads, NEW i \in 1 .. Len(program[t]),
         Serve(RequestOf(<<t, i>>)),
         UNCHANGED <<program, phase, flying, ending, lost, recordOf, script, lookahead>>
  PROVE  /\ Ledger' /\ StoreInv' /\ reply'.step \in Nat
         /\ Replaying' /\ flying' = {} /\ ending' = {}
         /\ Followable' = Followable /\ Distinct' = Distinct
<1>1. StoreInv /\ RequestOf(<<t, i>>) \in Requests
  BY Types DEF IInv, Rewound, RequestOf
<1>2. StoreInv'
  BY <1>1, ServeKeepsInvariant
<1>3. reply'.step \in Nat
  BY <1>1, Handout DEF Replies
<1>4. Ledger'
  <2>1. Recorded' = Recorded /\ Accounted' = Accounted /\ \A u : Made(u)' = Made(u)
    BY DEF Recorded, Accounted, Made, Replaying
  <2>2. \A p \in DOMAIN script' : script'[p] = RequestOf(recordOf[p])'
    BY DEF IInv, Ledger, RequestOf
  <2>3. QED
    BY <2>1, <2>2 DEF IInv, Ledger
<1>5. QED
  BY <1>2, <1>3, <1>4, FollowableIsSettled DEF IInv, Rewound

\* A thread makes its next request.
LEMMA AskKeeps ==
  ASSUME IInv, NEW t \in Threads, Ask(t)
  PROVE  IInv'
<1>. DEFINE n == sent[t] + 1
            m == reply'.step
<1>1. /\ Replaying /\ Serve(RequestOf(<<t, n>>))
      /\ UNCHANGED <<program, phase, flying, ending, lost, recordOf, retried, script, lookahead>>
  BY DEF Ask, Replaying
<1>2. n \in 1 .. Len(program[t]) /\ n \in Nat /\ sent[t] \in Nat
  BY Types DEF Ask, Ready
<1>3. /\ Ledger' /\ StoreInv' /\ m \in Nat
      /\ Replaying' /\ flying' = {} /\ ending' = {}
      /\ Followable' = Followable /\ Distinct' = Distinct
  BY <1>1, <1>2, ReplayLeaves
<1>4. Rewound /\ StoreTypeOK'
  BY <1>1, <1>3 DEF IInv, StoreInv
<1>5. CASE reply'.kind = "miss"
  <2>1. refused' = refused \cup {t} /\ UNCHANGED <<sent, got>>
    BY <1>5 DEF Ask, Refuse
  <2>2. ~Followable
    BY <1>1, <1>2, <1>5, FollowedAnswer
  <2>3. TypeOK'
    BY <1>1, <1>4, <2>1 DEF IInv, TypeOK
  <2>4. Rewound'
    BY <1>3, <1>4, <2>1 DEF Rewound
  <2>5. NoMissWhenGapsFit' /\ OwnAnswers'
    BY <1>3, <2>2 DEF NoMissWhenGapsFit, OwnAnswers
  <2>6. QED
    BY <1>1, <1>3, <2>1, <2>2, <2>3, <2>4, <2>5 DEF IInv
<1>6. CASE reply'.kind # "miss"
  <2>1. /\ sent' = [sent EXCEPT ![t] = n] /\ got' = [got EXCEPT ![t] = Append(got[t], m)]
        /\ UNCHANGED refused
    BY <1>6 DEF Ask
  <2>2. /\ sent' \in [Threads -> Nat] /\ sent'[t] = n
        /\ \A u \in Threads \ {t} : sent'[u] = sent[u]
    BY <1>2, <2>1, Types
  <2>3. /\ got' \in [Threads -> Seq(Nat)] /\ got'[t] = Append(got[t], m)
        /\ \A u \in Threads \ {t} : got'[u] = got[u]
    BY <1>3, <2>1, Types
  <2>4. /\ Len(got'[t]) = n /\ DOMAIN got'[t] = 1 .. n /\ got'[t][n] = m
        /\ DOMAIN got[t] = 1 .. sent[t]
        /\ \A i \in 1 .. sent[t] : got'[t][i] = got[t][i]
    <3>1. got[t] \in Seq(Nat) /\ Len(got[t]) = sent[t]
      BY <1>4, Types DEF Rewound
    <3>2. QED
      BY <1>2, <1>3, <2>3, <3>1
  <2>5. TypeOK'
    <3>1. ASSUME NEW u \in Threads
          PROVE  sent'[u] \in 0 .. Len(program[u]) /\ Len(got'[u]) <= Len(program[u])
      <4>1. CASE u = t
        BY <1>2, <2>2, <2>4, <4>1
      <4>2. CASE u # t
        BY <2>2, <2>3, <4>2 DEF IInv, TypeOK
      <4>3. QED
        BY <4>1, <4>2
    <3>2. QED
      BY <1>1, <1>4, <2>1, <3>1 DEF IInv, TypeOK
  <2>6. Rewound'
    BY <1>3, <1>4, <2>2, <2>3, <2>4 DEF Rewound
  <2>7. ASSUME Followable
        PROVE  Keeping' /\ NoMissWhenGapsFit' /\ OwnAnswers'
    <3>1. PICK p \in Steps :
            /\ recordOf[p] = <<t, n>>
            /\ served' = served \cup {m} /\ p \in served'
            /\ Distinct \/ p \notin served => m = p
      BY <1>1, <1>2, <2>7, FollowedAnswer
    <3>2. Keeping /\ refused = {}
      BY <2>7 DEF IInv, NoMissWhenGapsFit
    <3>3. \A q \in Steps : recordOf[q] \in Threads \X Nat
      BY Types
    <3>4. ASSUME NEW q \in Steps, recordOf[q][2] <= sent'[recordOf[q][1]]
          PROVE  q \in served'
      <4>1. CASE recordOf[q] = <<t, n>>
        BY <3>1, <4>1, Types DEF IInv, Ledger
      <4>2. CASE recordOf[q] # <<t, n>>
        <5>1. recordOf[q][2] <= sent[recordOf[q][1]]
          BY <1>2, <2>2, <3>3, <3>4, <4>2
        <5>2. QED
          BY <3>1, <3>2, <5>1 DEF Keeping
      <4>3. QED
        BY <4>1, <4>2
    <3>5. retried = 0 => p \notin served /\ m = p
      BY <1>2, <3>1, <3>2 DEF Keeping
    <3>6. ASSUME retried = 0, NEW q \in served'
          PROVE  recordOf[q][2] <= sent'[recordOf[q][1]]
      <4>1. CASE q = m
        BY <1>2, <2>2, <3>1, <3>5, <3>6, <4>1
      <4>2. CASE q \in served
        <5>1. recordOf[q][2] <= sent[recordOf[q][1]] /\ q \in Steps
          BY <3>2, <3>6, <4>2 DEF Keeping, IInv, TypeOK, StoreTypeOK
        <5>2. QED
          BY <1>2, <2>2, <3>3, <5>1
      <4>3. QED
        BY <3>1, <3>6, <4>1, <4>2
    <3>7. Keeping'
      BY <1>1, <3>4, <3>6 DEF Keeping, Steps
    <3>8. OwnAnswers'
      <4>. SUFFICES ASSUME Distinct \/ retried = 0, NEW u \in Threads, NEW i \in DOMAIN got'[u]
                    PROVE  recordOf[got'[u][i]] = <<u, i>>
        BY <1>1, <1>3 DEF OwnAnswers
      <4>1. \A v \in Threads : \A j \in DOMAIN got[v] : recordOf[got[v][j]] = <<v, j>>
        BY <2>7 DEF IInv, OwnAnswers
      <4>2. CASE u = t /\ i = n
        BY <2>4, <3>1, <3>5, <4>2
      <4>3. CASE u = t /\ i # n
        <5>1. i \in 1 .. n /\ i # n
          BY <2>4, <4>3
        <5>2. i \in 1 .. sent[t]
          BY <1>2, <5>1
        <5>3. i \in DOMAIN got[t] /\ got'[t][i] = got[t][i]
          BY <2>4, <5>2
        <5>4. QED
          BY <4>1, <4>3, <5>3
      <4>4. CASE u # t
        BY <2>3, <4>1, <4>4
      <4>5. QED
        BY <4>2, <4>3, <4>4
    <3>9. QED
      BY <2>1, <3>2, <3>7, <3>8 DEF NoMissWhenGapsFit
  <2>8. QED
    BY <1>1, <1>3, <2>2, <2>3, <2>5, <2>6, <2>7 DEF IInv, NoMissWhenGapsFit, OwnAnswers
<1>7. QED
  BY <1>5, <1>6

\* A thread asks for its last answer again.
LEMMA RetryKeeps ==
  ASSUME IInv, NEW t \in Threads, Retry(t)
  PROVE  IInv'
<1>. DEFINE n == sent[t]
            m == reply'.step
<1>1. /\ Replaying /\ Serve(RequestOf(<<t, n>>)) /\ retried < Retries /\ retried' = retried + 1
      /\ UNCHANGED <<program, phase, sent, flying, ending, lost, recordOf, script, lookahead>>
  BY DEF Retry, Replaying
<1>2. n \in 1 .. Len(program[t]) /\ n \in Nat
  BY Types DEF Retry
<1>3. /\ Ledger' /\ StoreInv' /\ m \in Nat
      /\ Replaying' /\ flying' = {} /\ ending' = {}
      /\ Followable' = Followable /\ Distinct' = Distinct
  BY <1>1, <1>2, ReplayLeaves
<1>4. Rewound /\ StoreTypeOK' /\ retried' \in 0 .. Retries /\ retried' # 0
  BY <1>1, <1>3, ProgramsAssumption DEF IInv, StoreInv, TypeOK
<1>5. CASE reply'.kind = "miss"
  <2>1. refused' = refused \cup {t} /\ UNCHANGED got
    BY <1>5 DEF Retry, Refuse
  <2>2. ~Followable
    BY <1>1, <1>2, <1>5, FollowedAnswer
  <2>3. TypeOK'
    BY <1>1, <1>4, <2>1 DEF IInv, TypeOK
  <2>4. Rewound'
    BY <1>1, <1>3, <1>4, <2>1 DEF Rewound
  <2>5. NoMissWhenGapsFit' /\ OwnAnswers'
    BY <1>3, <2>2 DEF NoMissWhenGapsFit, OwnAnswers
  <2>6. QED
    BY <1>1, <1>3, <2>1, <2>2, <2>3, <2>4, <2>5 DEF IInv
<1>6. CASE reply'.kind # "miss"
  <2>1. got' = [got EXCEPT ![t] = [got[t] EXCEPT ![n] = m]] /\ UNCHANGED refused
    BY <1>6 DEF Retry
  <2>2. got[t] \in Seq(Nat) /\ Len(got[t]) = n
    BY <1>4, Types DEF Rewound
  <2>. DEFINE row == [got[t] EXCEPT ![n] = m]
  <2>3. /\ row \in Seq(Nat) /\ Len(row) = n /\ DOMAIN row = DOMAIN got[t] /\ row[n] = m
        /\ \A i \in DOMAIN got[t] : i # n => row[i] = got[t][i]
    BY <1>2, <1>3, <2>2
  <2>. HIDE DEF row
  <2>4. /\ got' \in [Threads -> Seq(Nat)] /\ got'[t] = row
        /\ \A u \in Threads \ {t} : got'[u] = got[u]
    BY <2>1, <2>3, Types DEF row
  <2>5. \A u \in Threads : Len(got'[u]) = Len(got[u])
    BY <2>2, <2>3, <2>4
  <2>6. TypeOK'
    BY <1>1, <1>4, <2>1, <2>5 DEF IInv, TypeOK
  <2>7. Rewound'
    BY <1>1, <1>3, <1>4, <2>5 DEF Rewound
  <2>8. ASSUME Followable
        PROVE  Keeping' /\ NoMissWhenGapsFit' /\ OwnAnswers'
    <3>1. PICK p \in Steps :
            /\ recordOf[p] = <<t, n>>
            /\ served' = served \cup {m}
            /\ Distinct => m = p
      BY <1>1, <1>2, <2>8, FollowedAnswer
    <3>2. Keeping /\ refused = {}
      BY <2>8 DEF IInv, NoMissWhenGapsFit
    <3>3. Keeping'
      BY <1>1, <1>4, <3>1, <3>2 DEF Keeping, Steps
    <3>4. OwnAnswers'
      <4>. SUFFICES ASSUME Distinct, NEW u \in Threads, NEW i \in DOMAIN got'[u]
                    PROVE  recordOf[got'[u][i]] = <<u, i>>
        BY <1>1, <1>3, <1>4 DEF OwnAnswers
      <4>1. \A v \in Threads : \A j \in DOMAIN got[v] : recordOf[got[v][j]] = <<v, j>>
        BY <2>8 DEF IInv, OwnAnswers
      <4>2. CASE u = t /\ i = n
        BY <2>3, <2>4, <3>1, <4>2
      <4>3. CASE u = t /\ i # n
        <5>1. i \in DOMAIN got[t] /\ got'[t][i] = got[t][i]
          BY <2>3, <2>4, <4>3
        <5>2. QED
          BY <4>1, <4>3, <5>1
      <4>4. CASE u # t
        BY <2>4, <4>1, <4>4
      <4>5. QED
        BY <4>2, <4>3, <4>4
    <3>5. QED
      BY <2>1, <3>2, <3>3, <3>4 DEF NoMissWhenGapsFit
  <2>9. QED
    BY <1>1, <1>3, <2>4, <2>6, <2>7, <2>8, Types DEF IInv, NoMissWhenGapsFit, OwnAnswers
<1>7. QED
  BY <1>5, <1>6

-----------------------------------------------------------------------------
(* The theorems.                                                           *)

\* The agent starts with nothing sent, before an empty cassette.
LEMMA InitInvariant == Init => IInv
<1>. SUFFICES ASSUME Init PROVE IInv
  OBVIOUS
<1>1. program \in [Threads -> Seq(Requests)] /\ lookahead \in Int
      /\ \A t \in Threads : Len(program[t]) \in Nat
  BY ProgramsAssumption DEF Init
<1>2. sent \in [Threads -> Nat] /\ got \in [Threads -> Seq(Nat)]
      /\ recordOf \in Seq(Threads \X Nat)
      /\ \A t \in Threads : Len(got[t]) = 0
  BY DEF Init
<1>3. ~Replaying /\ AtTheEnd
  BY DEF Init, Replaying, AtTheEnd, Steps
<1>4. TypeOK
  BY <1>1, <1>2, ProgramsAssumption DEF Init, TypeOK, StoreTypeOK, Steps
<1>5. Ledger
  BY <1>3 DEF Init, Ledger, Accounted, Recorded, Made
<1>6. QED
  BY <1>2, <1>3, <1>4, <1>5 DEF IInv, Followable, NoMissWhenGapsFit, OwnAnswers

\* The invariant is kept by every step of a thread, of the provider, of a handler
\* and of the operator who opens the cassette again.
LEMMA NextInvariant == IInv /\ [Next]_vars => IInv'
<1>. SUFFICES ASSUME IInv, [Next]_vars PROVE IInv'
  OBVIOUS
<1>1. CASE UNCHANGED vars
  <2>1. UNCHANGED <<program, phase, sent, flying, ending, lost, recordOf, got, refused, retried,
                    script, lookahead, served, cursor, last, reply, order>>
    BY <1>1 DEF vars, agentVars, cassetteVars, storeVars
  <2>2. Replaying' = Replaying /\ Followable' = Followable /\ Distinct' = Distinct
    BY <2>1, FollowableIsSettled
  <2>3. TypeOK'
    BY <2>1 DEF IInv, TypeOK, StoreTypeOK, Steps
  <2>4. Ledger'
    BY <2>1 DEF IInv, Ledger, Accounted, Recorded, Made, Replaying, RequestOf
  <2>5. Replaying => Rewound'
    <3>1. StoreInv => StoreInv'
      BY <2>1, StoreStutters DEF storeVars
    <3>2. QED
      BY <2>1, <3>1 DEF IInv, Rewound
  <2>6. ~Replaying => AtTheEnd'
    BY <2>1 DEF IInv, AtTheEnd, Steps
  <2>7. Keeping => Keeping'
    BY <2>1 DEF Keeping, Steps
  <2>8. NoMissWhenGapsFit' /\ OwnAnswers'
    BY <2>1, <2>2 DEF IInv, NoMissWhenGapsFit, OwnAnswers
  <2>9. QED
    BY <2>1, <2>2, <2>3, <2>4, <2>5, <2>6, <2>7, <2>8 DEF IInv
<1>2. ASSUME NEW t \in Threads, Send(t) PROVE IInv'
  BY <1>2, SendKeeps
<1>3. ASSUME NEW t \in Threads, Ask(t) PROVE IInv'
  BY <1>3, AskKeeps
<1>4. ASSUME NEW t \in Threads, Retry(t) PROVE IInv'
  BY <1>4, RetryKeeps
<1>5. ASSUME NEW e \in flying, Answer(e) PROVE IInv'
  BY <1>5, AnswerKeeps
<1>6. ASSUME NEW e \in ending, Record(e) PROVE IInv'
  BY <1>6, RecordKeeps
<1>7. ASSUME NEW e \in ending, KeepNothing(e) PROVE IInv'
  BY <1>7, KeepNothingKeeps
<1>8. CASE Reopen \/ GiveUp
  BY <1>8, ReopenKeeps
<1>9. QED
  BY <1>1, <1>2, <1>3, <1>4, <1>5, <1>6, <1>7, <1>8 DEF Next

\* The invariant holds in every reachable state: every exchange is recorded once,
\* and of a recording that can be followed the steps asked for have been served.
THEOREM Invariant == Spec => []IInv
BY InitInvariant, NextInvariant, PTL DEF Spec

\* The fields of the agent and of the store stay in range.
THEOREM TypeCorrect == Spec => []TypeOK
<1>1. IInv => TypeOK
  BY DEF IInv
<1>2. QED
  BY <1>1, Invariant, PTL

\* A complete recording whose gaps fit in the window, of threads that make no
\* request in common and whose polls were recorded in turn, replays without a
\* miss, for any number of threads, at any pace, and however often answers are
\* asked for again.
THEOREM NeverRefused == Spec => []NoMissWhenGapsFit
<1>1. IInv => NoMissWhenGapsFit
  BY DEF IInv
<1>2. QED
  BY <1>1, Invariant, PTL

\* Under such a recording each request is answered by the step that records it.
THEOREM AnsweredByItsOwn == Spec => []OwnAnswers
<1>1. IInv => OwnAnswers
  BY DEF IInv
<1>2. QED
  BY <1>1, Invariant, PTL

\* Every exchange of the program is in the cassette once, whatever order the
\* answers came and the handlers ended in, if record kept it before the session
\* ended; and else it is not there.
THEOREM EveryExchangeOnce == Spec => []RecordedOnce
<1>1. IInv => RecordedOnce
  <2>. SUFFICES ASSUME IInv, Replaying, NEW t \in Threads, NEW i \in 1 .. Len(program[t])
                PROVE  Cardinality({p \in DOMAIN recordOf : recordOf[p] = <<t, i>>}) =
                         IF <<t, i>> \in lost THEN 0 ELSE 1
    BY DEF RecordedOnce
  <2>. DEFINE S == {p \in DOMAIN recordOf : recordOf[p] = <<t, i>>}
  <2>1. CASE <<t, i>> \in lost
    <3>1. <<t, i>> \notin Recorded
      BY <2>1 DEF IInv, Ledger
    <3>2. S = {}
      BY <3>1 DEF Recorded
    <3>3. Cardinality({}) = 0
      BY FS_EmptySet
    <3>4. QED
      BY <2>1, <3>2, <3>3
  <2>2. CASE <<t, i>> \notin lost
    <3>1. PICK p \in DOMAIN recordOf : recordOf[p] = <<t, i>>
      BY <2>2, RecordedSomewhere, Types
    <3>2. S = {p}
      BY <3>1 DEF IInv, Ledger
    <3>3. Cardinality({p}) = 1
      BY FS_Singleton
    <3>4. QED
      BY <2>2, <3>2, <3>3
  <2>3. QED
    BY <2>1, <2>2
<1>2. QED
  BY <1>1, Invariant, PTL
=============================================================================
