-------------------------- MODULE ReplayStore_proofs --------------------------
(***************************************************************************)
(* Proofs about ReplayStore, for every script, window and set of requests. *)
(***************************************************************************)
EXTENDS ReplayStore, Store_proofs

\* Nothing is served when a session opens, so the strengthening holds.
LEMMA InitInvariant == Init => IInv
<1>. SUFFICES ASSUME Init PROVE IInv
  OBVIOUS
<1>1. StoreInv
  BY OpenInvariant, ScriptsAssumption DEF Init
<1>2. QED
  BY <1>1 DEF Init, IInv, StoreInv, TypeOK

\* Every way Next can answer a request keeps the strengthening.
LEMMA NextInvariant == IInv /\ [Next]_vars => IInv'
<1>. SUFFICES ASSUME IInv, [Next]_vars PROVE IInv'
  OBVIOUS
<1>1. StoreInv' /\ UNCHANGED <<script, lookahead>>
  <2>1. ASSUME NEW r \in Requests, Serve(r), UNCHANGED <<script, lookahead>>
        PROVE  StoreInv'
    BY <2>1, ServeKeepsInvariant DEF IInv
  <2>2. CASE UNCHANGED vars
    BY <2>2, StoreStutters DEF vars, IInv
  <2>3. QED
    BY <2>1, <2>2 DEF Next, vars
<1>2. QED
  BY <1>1 DEF IInv, StoreInv, TypeOK

\* The invariant holds in every reachable state: the cursor is the earliest
\* step owed, `last` the furthest served, and no request's steps are handed out
\* twice or out of recorded order.
THEOREM Invariant == Spec => []IInv
BY InitInvariant, NextInvariant, PTL DEF Spec

\* Types: the fields of the Store stay in range for every script and window.
THEOREM TypeCorrect == Spec => []TypeOK
<1>1. IInv => TypeOK
  BY DEF IInv, StoreInv
<1>2. QED
  BY <1>1, Invariant, PTL

\* Two steps recorded for one request are handed out in recorded order.
THEOREM RecordedOrder == Spec => []InRecordedOrder
<1>1. IInv => InRecordedOrder
  BY DEF IInv, StoreInv
<1>2. QED
  BY <1>1, Invariant, PTL

-----------------------------------------------------------------------------
(* What a call replies, from the invariant.                                *)

\* A repeat is the newest answer when it is given, and nothing changes it afterwards.
LEMMA StepKeepsRepeat == IInv /\ RepeatIsMostRecent /\ [Next]_vars => RepeatIsMostRecent'
<1>. SUFFICES ASSUME IInv, RepeatIsMostRecent, [Next]_vars PROVE RepeatIsMostRecent'
  OBVIOUS
<1>1. ASSUME NEW r \in Requests, Serve(r), UNCHANGED <<script, lookahead>>
      PROVE  RepeatIsMostRecent'
  <2>1. CASE Repeat(r)
    <3>. DEFINE p == Max(Seen(r))
    <3>1. IsNewest(p) /\ script[p] = r
      BY <2>1, SeenIsNewest DEF IInv, StoreInv, Repeat
    <3>2. order' = order /\ reply'.step = p /\ reply'.request = r
      BY <2>1 DEF Repeat, Reply
    <3>. HIDE DEF p
    <3>3. PICK i \in DOMAIN order : order[i] = p
      BY <3>1 DEF IInv, StoreInv, HandedOutOnce, IsNewest
    <3>4. ASSUME NEW j \in DOMAIN order, j > i, script[order[j]] = r
          PROVE  FALSE
      <4>1. order[i] < order[j] /\ order[j] \in served
        BY <3>1, <3>3, <3>4 DEF IInv, StoreInv, HandedOutByRequest, HandedOutOnce, TypeOK, StoreTypeOK
      <4>2. order[j] <= p /\ order[j] \in Nat /\ p \in Nat
        BY <3>1, <3>4, <4>1, StepsAreNumbers DEF IsNewest, IInv, StoreInv, TypeOK, StoreTypeOK
      <4>3. QED
        BY <3>3, <4>1, <4>2
    <3>5. QED
      BY <1>1, <3>1, <3>2, <3>3, <3>4 DEF RepeatIsMostRecent
  <2>2. CASE ~Repeat(r)
    <3>1. reply'.kind # "repeat"
      BY <1>1, <2>2, KindOfReply DEF Serve
    <3>2. QED
      BY <3>1 DEF RepeatIsMostRecent
  <2>3. QED
    BY <2>1, <2>2
<1>2. CASE UNCHANGED vars
  BY <1>2 DEF vars, storeVars, RepeatIsMostRecent
<1>3. QED
  BY <1>1, <1>2 DEF Next

\* SPEC R6 for every session: looking for the highest position finds, of the
\* steps the request aligns with, the one served most recently.
THEOREM RepeatsAreMostRecent == Spec => []RepeatIsMostRecent
<1>1. Init => RepeatIsMostRecent
  BY DEF Init, NoReply, RepeatIsMostRecent
<1>2. QED
  BY <1>1, StepKeepsRepeat, Invariant, PTL DEF Spec

\* A miss names an owed step and is justified when it is reported.
LEMMA StepKeepsMiss ==
  IInv /\ MissOnlyBeyondWindow /\ MissNamesOwedStep /\ [Next]_vars
  => MissOnlyBeyondWindow' /\ MissNamesOwedStep'
<1>. SUFFICES ASSUME IInv, MissOnlyBeyondWindow, MissNamesOwedStep, [Next]_vars
              PROVE  MissOnlyBeyondWindow' /\ MissNamesOwedStep'
  OBVIOUS
<1>1. ASSUME NEW r \in Requests, Serve(r), UNCHANGED <<script, lookahead>>
      PROVE  MissOnlyBeyondWindow' /\ MissNamesOwedStep'
  <2>1. CASE Miss(r)
    <3>1. /\ reply'.request = r /\ reply'.step = Closest(r)
          /\ UNCHANGED <<script, lookahead, served, cursor, last>>
          /\ Fits(r, lookahead) = {} /\ Seen(r) = {}
      BY <1>1, <2>1 DEF Miss, Reply, Refused, Unmatched
    <3>2. Steps \subseteq Nat /\ Steps = 1 .. Len(script) /\ Len(script) \in Nat
      BY StepsAreNumbers DEF IInv, StoreInv, TypeOK, StoreTypeOK
    <3>3. ASSUME NEW p \in Steps, Aligns(p, r)
          PROVE  p \notin served /\ p > Frontier + lookahead
      <4>1. p \notin served
        BY <3>1, <3>3 DEF Seen, IInv, StoreInv, Positions
      <4>2. p \in Nat /\ cursor <= p
        BY <3>2, <4>1 DEF IInv, StoreInv, Positions, TypeOK, StoreTypeOK
      <4>3. Frontier + lookahead \in Int
        BY ScriptsAssumption DEF Frontier, Larger, IInv, StoreInv, TypeOK, StoreTypeOK
      <4>4. ~(p <= Frontier + lookahead)
        BY <3>1, <3>3, <4>1, <4>2 DEF Fits, InWindow, Unserved
      <4>5. QED
        BY <4>1, <4>2, <4>3, <4>4
    <3>4. MissOnlyBeyondWindow'
      BY <3>1, <3>3 DEF MissOnlyBeyondWindow, Aligns, Steps, Frontier
    <3>5. CASE Closest(r) \in Unserved
      <4>1. Closest(r) # 0
        BY <3>2, <3>5 DEF Unserved
      <4>2. QED
        BY <3>1, <3>4, <3>5, <4>1 DEF MissNamesOwedStep, Unserved, Steps
    <3>6. CASE Closest(r) = 0 /\ cursor \notin Steps
      <4>1. served = Steps
        <5>1. cursor = Len(script) + 1 /\ served \subseteq Steps
          BY <3>2, <3>6 DEF IInv, StoreInv, TypeOK, StoreTypeOK
        <5>2. \A p \in Steps : p \in served
          BY <3>2, <5>1 DEF IInv, StoreInv, Positions
        <5>3. QED
          BY <5>1, <5>2
      <4>2. QED
        BY <3>1, <3>4, <3>6, <4>1 DEF MissNamesOwedStep, Steps
    <3>7. QED
      BY <3>5, <3>6, ClosestIsOwed DEF IInv, StoreInv
  <2>2. CASE ~Miss(r)
    <3>1. reply'.kind # "miss"
      BY <1>1, <2>2, KindOfReply DEF Serve
    <3>2. QED
      BY <3>1 DEF MissOnlyBeyondWindow, MissNamesOwedStep
  <2>3. QED
    BY <2>1, <2>2
<1>2. CASE UNCHANGED vars
  BY <1>2 DEF vars, storeVars, MissOnlyBeyondWindow, MissNamesOwedStep, Aligns,
       Frontier, Unserved, Steps
<1>3. QED
  BY <1>1, <1>2 DEF Next

\* A miss means that nothing recorded for the request was ever served or is in
\* reach, and it is reported against a step still owed (SPEC R8).
THEOREM MissesAreHonest == Spec => [](MissOnlyBeyondWindow /\ MissNamesOwedStep)
<1>1. Init => MissOnlyBeyondWindow /\ MissNamesOwedStep
  BY DEF Init, NoReply, MissOnlyBeyondWindow, MissNamesOwedStep
<1>2. QED
  BY <1>1, StepKeepsMiss, Invariant, PTL DEF Spec

\* Each call that is refused is refused for a step still owed (SPEC R8): no miss
\* names a step that was served, and none names no step while one is left.
THEOREM MissesNameOwedSteps == Spec => []MissNamesOwedStep
BY MissesAreHonest, PTL

\* A bookkeeping answer is one told apart when it is given, and no later call
\* changes the script it was told apart in.
LEMMA StepKeepsToldApart ==
  IInv /\ AuxiliaryToldApart /\ [Next]_vars => AuxiliaryToldApart'
<1>. SUFFICES ASSUME IInv, AuxiliaryToldApart, [Next]_vars PROVE AuxiliaryToldApart'
  OBVIOUS
<1>1. ASSUME NEW r \in Requests, Serve(r), UNCHANGED <<script, lookahead>>
      PROVE  AuxiliaryToldApart'
  <2>1. CASE ServeAuxiliary(r) \/ RepeatAuxiliary(r)
    <3>1. reply'.step \in Steps /\ AuxiliaryEntry(reply'.step)
      <4>1. CASE ServeAuxiliary(r)
        <5>1. reply'.step = Min(Spare)
          BY <4>1 DEF ServeAuxiliary, Reply
        <5>2. Min(Spare) \in Spare
          BY <4>1, SpareIsAtHead DEF IInv, StoreInv, ServeAuxiliary
        <5>3. QED
          BY <5>1, <5>2 DEF Spare, Unserved
      <4>2. CASE RepeatAuxiliary(r)
        <5>1. reply'.step = Max(Spent)
          BY <4>2 DEF RepeatAuxiliary, Reply
        <5>2. Max(Spent) \in Spent
          BY <4>2, SpentIsNewest DEF IInv, StoreInv, RepeatAuxiliary
        <5>3. QED
          BY <5>1, <5>2 DEF Spent, IInv, StoreInv, TypeOK, StoreTypeOK
      <4>3. QED
        BY <2>1, <4>1, <4>2
    <3>2. script \in Seq(Requests)
      BY DEF IInv, StoreInv, StoreTypeOK
    <3>3. QED
      BY <1>1, <3>1, <3>2, EntryIsToldApart DEF AuxiliaryToldApart, Steps
  <2>2. CASE ~(ServeAuxiliary(r) \/ RepeatAuxiliary(r))
    <3>1. reply'.kind \notin {"auxiliary", "auxiliary repeat"}
      BY <1>1, <2>2, KindOfReply DEF Serve
    <3>2. QED
      BY <3>1 DEF AuxiliaryToldApart
  <2>3. QED
    BY <2>1, <2>2
<1>2. CASE UNCHANGED vars
  BY <1>2 DEF vars, storeVars, AuxiliaryToldApart, Steps
<1>3. QED
  BY <1>1, <1>2 DEF Next

\* SPEC R8a for every session: a bookkeeping answer comes from a step shaped like
\* bookkeeping, in a cassette that is not bookkeeping alone.
THEOREM BookkeepingIsToldApart == Spec => []AuxiliaryToldApart
<1>1. Init => AuxiliaryToldApart
  BY DEF Init, NoReply, AuxiliaryToldApart
<1>2. QED
  BY <1>1, StepKeepsToldApart, Invariant, PTL DEF Spec

\* The window only moves forward: neither a straggler nor a repeat takes a step
\* out of reach.
THEOREM WindowKeepsOpen == Spec => WindowNeverCloses
<1>. DEFINE Kept == \A p \in Unserved : p <= Frontier + lookahead =>
                      p \in served' \/ p <= Frontier' + lookahead'
<1>1. IInv /\ [Next]_vars => [Kept]_vars
  <2>. SUFFICES ASSUME IInv, [Next]_vars PROVE [Kept]_vars
    OBVIOUS
  <2>1. ASSUME NEW r \in Requests, Serve(r), UNCHANGED <<script, lookahead>>
        PROVE  Kept
    <3>1. Frontier \in Int /\ lookahead \in Int /\ Unserved \subseteq Nat
      BY StepsAreNumbers DEF Frontier, Larger, IInv, StoreInv, StoreTypeOK, Unserved
    <3>2. CASE UNCHANGED <<served, cursor, last, order>>
      BY <2>1, <3>2 DEF Frontier
    <3>3. ASSUME NEW q \in Steps, Claim(q)
          PROVE  Kept
      <4>1. CursorPast(served \cup {q}) \in cursor .. Len(script) + 1
        BY CursorPastFacts DEF IInv, StoreInv, TypeOK, StoreTypeOK
      <4>2. cursor' \in Int /\ last' \in Int /\ cursor <= cursor' /\ last <= last'
        BY <3>3, <4>1, StepsAreNumbers DEF Claim, IInv, StoreInv, TypeOK, StoreTypeOK, Larger
      <4>3. cursor \in Int /\ last \in Int
        BY StepsAreNumbers DEF IInv, StoreInv, TypeOK, StoreTypeOK
      <4>4. ASSUME NEW p \in Unserved, p <= Frontier + lookahead
            PROVE  p <= Frontier' + lookahead'
        <5>1. p \in Int
          BY <3>1
        <5>2. p <= Larger(cursor, last + 1) + lookahead
          BY <4>4 DEF Frontier
        <5>3. p <= Larger(cursor', last' + 1) + lookahead
          BY <3>1, <4>2, <4>3, <5>1, <5>2, ReachGrows
        <5>4. QED
          BY <2>1, <5>3 DEF Frontier
      <4>5. QED
        BY <4>4
    <3>4. QED
      BY <2>1, <3>2, <3>3, Handout DEF IInv
  <2>2. QED
    BY <2>1 DEF Next
<1>2. QED
  BY <1>1, Invariant, PTL DEF Spec, WindowNeverCloses

-----------------------------------------------------------------------------
(* The script replay is implemented.                                       *)

\* What a call leaves in `answer`, by the kind of its reply.
LEMMA AnswerGiven ==
  ASSUME NEW r, NEW p, NEW e
  PROVE  /\ \A k \in Kinds \ {"miss"} : Reply(k, r, p, e) => Answer' = <<r, p>>
         /\ Reply("miss", r, p, e) => Answer' = <<r, 0>>
<1>1. ASSUME NEW k \in Kinds, Reply(k, r, p, e)
      PROVE  Answer' = <<r, IF k = "miss" THEN 0 ELSE p>>
  <2>1. reply'.kind = k /\ reply'.request = r /\ reply'.step = p
    BY <1>1 DEF Reply
  <2>2. reply' # NoReply
    <3>1. NoReply.kind = "none" /\ k # "none"
      BY DEF NoReply, Kinds
    <3>2. QED
      BY <2>1, <3>1
  <2>3. QED
    BY <2>1, <2>2 DEF Answer
<1>2. QED
  BY <1>1 DEF Kinds

\* A request that aligns with no served step was never answered.
LEMMA NeverAnswered ==
  ASSUME IInv, NEW r \in Requests, Seen(r) = {}
  PROVE  Abstract!Unanswered(r)
<1>1. ASSUME NEW p \in served, script[p] = r
      PROVE  FALSE
  BY <1>1 DEF IInv, StoreInv, Positions, ServedParsable, Seen, Aligns
<1>2. QED
  BY <1>1 DEF Abstract!Unanswered

\* Each way of answering a request is one the abstract replay allows.
LEMMA AskImplements ==
  ASSUME IInv, NEW r \in Requests, Serve(r)
  PROVE  Abstract!Take(r) \/ Abstract!Again(r) \/ Abstract!StandIn(r) \/ Abstract!Refuse(r)
<1>1. lookahead \in Int /\ cursor \in Nat /\ served \subseteq Steps
  BY StepsAreNumbers, ScriptsAssumption DEF IInv, StoreInv, TypeOK, StoreTypeOK
<1>2. CASE ServeFresh(r)
  <2>. DEFINE p == Min(Fits(r, lookahead))
  <2>1. AtHead(p) /\ script[p] = r
    BY <1>1, <1>2, FreshIsAtHead DEF IInv, StoreInv, ServeFresh
  <2>2. Claim(p) /\ Reply("fresh", r, p, cursor)
    BY <1>2 DEF ServeFresh
  <2>. HIDE DEF p
  <2>3. Answer' = <<r, p>> /\ served' = served \cup {p}
    BY <2>2, AnswerGiven DEF Claim, Kinds
  <2>4. QED
    BY <2>1, <2>3 DEF Abstract!Take, Abstract!AtHead, Abstract!Steps, AtHead, Unserved, Steps
<1>3. CASE Repeat(r)
  <2>. DEFINE p == Max(Seen(r))
  <2>1. IsNewest(p) /\ script[p] = r
    BY <1>3, SeenIsNewest DEF IInv, StoreInv, Repeat
  <2>2. Reply("repeat", r, p, cursor) /\ UNCHANGED served
    BY <1>3 DEF Repeat
  <2>. HIDE DEF p
  <2>3. Answer' = <<r, p>>
    BY <2>2, AnswerGiven DEF Kinds
  <2>4. QED
    BY <2>1, <2>2, <2>3 DEF Abstract!Again, Abstract!Newest, IsNewest
<1>4. CASE ServeAuxiliary(r)
  <2>. DEFINE p == Min(Spare)
              e == CursorPast(served \cup {p}) - 1
  <2>1. AtHead(p)
    BY <1>4, SpareIsAtHead DEF IInv, StoreInv, ServeAuxiliary
  <2>2. Claim(p) /\ Reply("auxiliary", r, p, e)
    BY <1>4 DEF ServeAuxiliary
  <2>3. Abstract!Unanswered(r)
    BY <1>4, NeverAnswered DEF ServeAuxiliary, Unmatched
  <2>. HIDE DEF p, e
  <2>4. Answer' = <<r, p>> /\ served' = served \cup {p}
    BY <2>2, AnswerGiven DEF Claim, Kinds
  <2>5. QED
    BY <2>1, <2>3, <2>4 DEF Abstract!StandIn, Abstract!AtHead, Abstract!Steps, AtHead,
         Unserved, Steps
<1>5. CASE RepeatAuxiliary(r)
  <2>. DEFINE p == Max(Spent)
  <2>1. IsNewest(p)
    BY <1>5, SpentIsNewest DEF IInv, StoreInv, RepeatAuxiliary
  <2>2. Reply("auxiliary repeat", r, p, cursor) /\ UNCHANGED served
    BY <1>5 DEF RepeatAuxiliary
  <2>3. Abstract!Unanswered(r)
    BY <1>5, NeverAnswered DEF RepeatAuxiliary, Unmatched
  <2>. HIDE DEF p
  <2>4. Answer' = <<r, p>>
    BY <2>2, AnswerGiven DEF Kinds
  <2>5. QED
    BY <1>1, <2>1, <2>2, <2>3, <2>4 DEF Abstract!StandIn, Abstract!Newest, Abstract!Steps,
         IsNewest, Steps
<1>6. CASE Miss(r)
  <2>1. Reply("miss", r, Closest(r), cursor) /\ UNCHANGED served
    BY <1>6 DEF Miss
  <2>2. Abstract!Unanswered(r)
    BY <1>6, NeverAnswered DEF Miss, Refused, Unmatched
  <2>3. Answer' = <<r, 0>>
    BY <2>1, AnswerGiven
  <2>4. QED
    BY <2>1, <2>2, <2>3 DEF Abstract!Refuse
<1>7. QED
  BY <1>2, <1>3, <1>4, <1>5, <1>6 DEF Serve

\* Store.Next answers as a queue per request would, whatever the window: it
\* takes the head, repeats the newest, stands in a bookkeeping step, or refuses.
THEOREM Implements == Spec => ImplementsScriptReplay
<1>1. Init => Abstract!Init
  BY DEF Init, Abstract!Init, Answer
<1>2. IInv /\ [Next]_vars => [Abstract!Next]_Abstract!vars
  <2>. SUFFICES ASSUME IInv, [Next]_vars PROVE [Abstract!Next]_Abstract!vars
    OBVIOUS
  <2>1. ASSUME NEW r \in Requests, Serve(r), UNCHANGED <<script, lookahead>>
        PROVE  Abstract!Next
    BY <2>1, AskImplements DEF Abstract!Next
  <2>2. CASE UNCHANGED vars
    BY <2>2 DEF vars, storeVars, Abstract!vars, Answer
  <2>3. QED
    BY <2>1, <2>2 DEF Next
<1>3. QED
  BY <1>1, <1>2, Invariant, PTL DEF Spec, ImplementsScriptReplay, Abstract!Spec
=============================================================================
