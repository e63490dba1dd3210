----------------------------- MODULE Store_proofs -----------------------------
(***************************************************************************)
(* What one call of Next finds, keeps and replies, for every script,       *)
(* window and set of requests: the lemmas the proofs about ReplayStore and *)
(* about RoundTrip rest on.                                                *)
(***************************************************************************)
EXTENDS Store, TLAPS, WellFoundedInduction, FiniteSetTheorems

\* A non-empty set of naturals has a least element, which Min names.
LEMMA MinIsLeast ==
  ASSUME NEW S \in SUBSET Nat, S # {}
  PROVE  Min(S) \in S /\ \A y \in S : Min(S) <= y
<1>1. IsWellFoundedOn(OpToRel(<, Nat), Nat)
  BY NatLessThanWellFounded
<1>2. PICK x \in S : \A y \in S : ~(<<y, x>> \in OpToRel(<, Nat))
  BY <1>1, WFMin
<1>3. ASSUME NEW y \in S
      PROVE  x <= y
  <2>1. y \in Nat /\ x \in Nat
    OBVIOUS
  <2>2. ASSUME y < x PROVE FALSE
    <3>1. <<y, x>> \in Nat \X Nat /\ <<y, x>>[1] < <<y, x>>[2]
      BY <2>1, <2>2
    <3>2. <<y, x>> \in OpToRel(<, Nat)
      BY <3>1, Zenon DEF OpToRel
    <3>3. QED
      BY <3>2, <1>2
  <2>3. QED
    BY <2>1, <2>2
<1>4. QED
  BY <1>3 DEF Min

\* A non-empty set of naturals with a bound has a greatest one: Max names it.
LEMMA MaxIsGreatest ==
  ASSUME NEW S \in SUBSET Nat, S # {}, NEW n \in Nat, \A y \in S : y <= n
  PROVE  Max(S) \in S /\ \A y \in S : y <= Max(S)
<1>. DEFINE T == {k \in Nat : n - k \in S}
<1>1. T # {}
  <2>1. PICK y \in S : TRUE
    OBVIOUS
  <2>2. n - y \in Nat /\ n - (n - y) = y
    BY <2>1
  <2>3. n - y \in T
    BY <2>2
  <2>4. QED
    BY <2>3
<1>2. Min(T) \in T /\ \A k \in T : Min(T) <= k
  BY <1>1, MinIsLeast
<1>3. \A y \in S : n - y \in T /\ n - (n - y) = y
  OBVIOUS
<1>4. n - Min(T) \in S /\ \A y \in S : y <= n - Min(T)
  <2>. HIDE DEF T
  <2>1. Min(T) \in Nat /\ n - Min(T) \in S
    BY <1>2 DEF T
  <2>2. ASSUME NEW y \in S PROVE y <= n - Min(T)
    BY <1>2, <1>3, <2>1
  <2>3. QED
    BY <2>1, <2>2
<1>5. QED
  BY <1>4 DEF Max

-----------------------------------------------------------------------------
(* What the scans find.                                                    *)

\* The step p is unserved, and every earlier step recorded for the same
\* request has been served.
AtHead(p) == /\ p \in Unserved
             /\ \A q \in Steps : (q < p /\ script[q] = script[p]) => q \in served

\* The step p is served, and no later step recorded for the same request is.
IsNewest(p) == /\ p \in served
               /\ \A q \in served : script[q] = script[p] => q <= p

\* The steps are the numbers of a finite script, each with its request.
LEMMA StepsAreNumbers ==
  ASSUME script \in Seq(Requests)
  PROVE  /\ script \in Seq(Requests) /\ Len(script) \in Nat
         /\ Steps = 1 .. Len(script) /\ Steps \subseteq Nat
         /\ \A p \in Steps : script[p] \in Requests
BY DEF Steps

\* The cursor comes to rest on a step not served, or past the end, and every
\* step it passes is served.
LEMMA CursorPastFacts ==
  ASSUME script \in Seq(Requests), cursor \in 1 .. Len(script) + 1, NEW s \in SUBSET Steps
  PROVE  /\ CursorPast(s) \in cursor .. Len(script) + 1
         /\ CursorPast(s) \notin s
         /\ \A p \in Steps : (cursor <= p /\ p < CursorPast(s)) => p \in s
<1>. DEFINE R == (cursor .. Len(script) + 1) \ s
<1>1. Len(script) \in Nat /\ Steps = 1 .. Len(script)
  BY StepsAreNumbers
<1>2. R \in SUBSET Nat /\ Len(script) + 1 \in R
  BY <1>1
<1>3. Min(R) \in R /\ \A y \in R : Min(R) <= y
  BY <1>2, MinIsLeast
<1>4. CursorPast(s) = Min(R)
  BY DEF CursorPast
<1>5. ASSUME NEW p \in Steps, cursor <= p, p < Min(R)
      PROVE  p \in s
  <2>1. p \in Nat /\ p \in cursor .. Len(script) + 1
    BY <1>1, <1>5
  <2>2. p \notin s => p \in R
    BY <2>1
  <2>3. Min(R) \in Nat
    BY <1>2, <1>3
  <2>. HIDE DEF R
  <2>4. QED
    BY <1>3, <1>5, <2>1, <2>2, <2>3
<1>6. QED
  BY <1>3, <1>4, <1>5

\* The forward scan stops at the head of the request's queue: it starts at the
\* cursor, below which nothing is owed.
LEMMA FreshIsAtHead ==
  ASSUME StoreTypeOK, Positions, NEW r \in Requests, NEW ahead \in Int, Fits(r, ahead) # {}
  PROVE  /\ Min(Fits(r, ahead)) \in Fits(r, ahead)
         /\ AtHead(Min(Fits(r, ahead)))
         /\ script[Min(Fits(r, ahead))] = r
<1>. DEFINE p == Min(Fits(r, ahead))
<1>1. Steps \subseteq Nat /\ cursor \in Nat /\ script \in Seq(Requests)
  BY StepsAreNumbers DEF StoreTypeOK
<1>2. Fits(r, ahead) \in SUBSET Nat
  BY <1>1 DEF Fits, InWindow, Unserved
<1>3. p \in Fits(r, ahead) /\ \A y \in Fits(r, ahead) : p <= y
  BY <1>2, MinIsLeast
<1>. HIDE DEF p
<1>4. p \in Unserved /\ p \in Nat /\ script[p] = r /\ r \notin Unparsable
      /\ cursor <= p /\ p <= Frontier + ahead
  BY <1>2, <1>3 DEF Fits, InWindow, Aligns
<1>7. Frontier \in Int
  BY DEF Frontier, Larger, StoreTypeOK
<1>5. ASSUME NEW q \in Steps, q < p, script[q] = script[p], q \notin served
      PROVE  FALSE
  <2>1. q \in Nat /\ cursor <= q
    BY <1>1, <1>5 DEF Positions
  <2>2. q <= Frontier + ahead
    BY <1>4, <1>5, <1>7, <2>1
  <2>3. q \in Fits(r, ahead)
    BY <1>4, <1>5, <2>1, <2>2 DEF Fits, InWindow, Aligns, Unserved
  <2>4. QED
    BY <2>3, <1>3, <1>5, <1>4, <2>1
<1>6. QED
  BY <1>3, <1>4, <1>5 DEF p, AtHead

\* The scan for a bookkeeping step stops at the head of a queue too: whether a
\* step is bookkeeping depends on its request alone.
LEMMA SpareIsAtHead ==
  ASSUME StoreTypeOK, Spare # {}
  PROVE  /\ Min(Spare) \in Spare
         /\ AtHead(Min(Spare))
<1>. DEFINE p == Min(Spare)
<1>1. Steps \subseteq Nat
  BY StepsAreNumbers DEF StoreTypeOK
<1>2. Spare \in SUBSET Nat
  BY <1>1 DEF Spare, Unserved
<1>3. p \in Spare /\ \A y \in Spare : p <= y
  BY <1>2, MinIsLeast
<1>. HIDE DEF p
<1>4. ASSUME NEW q \in Steps, q < p, script[q] = script[p], q \notin served
      PROVE  FALSE
  <2>1. q \in Spare
    BY <1>3, <1>4 DEF Spare, AuxiliaryEntry, Unserved
  <2>2. q \in Nat /\ p \in Nat /\ p <= q
    BY <1>1, <1>2, <1>3, <2>1
  <2>3. QED
    BY <1>4, <2>2
<1>5. p \in Unserved
  BY <1>3 DEF Spare
<1>6. QED
  BY <1>3, <1>4, <1>5 DEF p, AtHead

\* Looking back from `last` finds the newest served step of the request.
LEMMA SeenIsNewest ==
  ASSUME StoreTypeOK, Positions, NEW r \in Requests, Seen(r) # {}
  PROVE  /\ Max(Seen(r)) \in Seen(r)
         /\ IsNewest(Max(Seen(r)))
         /\ script[Max(Seen(r))] = r
<1>. DEFINE p == Max(Seen(r))
<1>1. Steps \subseteq Nat /\ last \in Nat /\ served \subseteq Steps
  BY StepsAreNumbers DEF StoreTypeOK
<1>2. Seen(r) \in SUBSET Nat /\ \A y \in Seen(r) : y <= last
  BY <1>1 DEF Seen
<1>3. p \in Seen(r) /\ \A y \in Seen(r) : y <= p
  BY <1>1, <1>2, MaxIsGreatest
<1>. HIDE DEF p
<1>4. p \in served /\ script[p] = r /\ r \notin Unparsable
  BY <1>3 DEF Seen, Aligns
<1>5. ASSUME NEW q \in served, script[q] = script[p]
      PROVE  q <= p
  BY <1>3, <1>4, <1>5 DEF Seen, Aligns, Positions
<1>6. QED
  BY <1>3, <1>4, <1>5 DEF p, IsNewest

\* A bookkeeping repeat gives the newest step served for its request too.
LEMMA SpentIsNewest ==
  ASSUME StoreTypeOK, Positions, Spent # {}
  PROVE  /\ Max(Spent) \in Spent
         /\ IsNewest(Max(Spent))
<1>. DEFINE p == Max(Spent)
<1>1. Steps \subseteq Nat /\ last \in Nat /\ served \subseteq Steps
  BY StepsAreNumbers DEF StoreTypeOK
<1>2. Spent \in SUBSET Nat /\ \A y \in Spent : y <= last
  BY <1>1 DEF Spent
<1>3. p \in Spent /\ \A y \in Spent : y <= p
  BY <1>1, <1>2, MaxIsGreatest
<1>. HIDE DEF p
<1>4. p \in served
  BY <1>3 DEF Spent
<1>5. ASSUME NEW q \in served, script[q] = script[p]
      PROVE  q <= p
  BY <1>3, <1>5 DEF Spent, AuxiliaryEntry, Positions
<1>6. QED
  BY <1>3, <1>4, <1>5 DEF p, IsNewest

\* A miss is reported against an unserved step, or against none (0) when the
\* cursor has passed the end.
LEMMA ClosestIsOwed ==
  ASSUME StoreTypeOK, Positions, NEW r \in Requests
  PROVE  \/ Closest(r) \in Unserved
         \/ Closest(r) = 0 /\ cursor \notin Steps
<1>1. Steps \subseteq Nat
  BY StepsAreNumbers DEF StoreTypeOK
<1>2. CASE Candidates(r) = {}
  BY <1>2 DEF Closest, Positions, Unserved
<1>3. CASE Candidates(r) # {}
  <2>. DEFINE C == Candidates(r)
              Costs == {Cost(p, r) : p \in C}
              Cheapest == {p \in C : Cost(p, r) = Min(Costs)}
  <2>1. C \subseteq Unserved /\ C \in SUBSET Nat
    BY <1>1 DEF Candidates, InWindow, Unserved
  <2>2. \A p \in C : Cost(p, r) \in Nat
    BY <2>1, StepsAreNumbers, RequestsAssumption DEF Cost, StoreTypeOK, Unserved
  <2>3. Costs \in SUBSET Nat /\ Costs # {}
    BY <2>2, <1>3
  <2>4. Min(Costs) \in Costs /\ \A c \in Costs : Min(Costs) <= c
    BY <2>3, MinIsLeast
  <2>5. Cheapest \in SUBSET Nat /\ Cheapest # {}
    BY <2>1, <2>4
  <2>6. Min(Cheapest) \in Cheapest /\ \A p \in Cheapest : Min(Cheapest) <= p
    BY <2>5, MinIsLeast
  <2>. DEFINE m == Min(Cheapest)
  <2>7. m \in C /\ Cost(m, r) = Min(Costs)
    BY <2>6
  <2>8. ASSUME NEW q \in C
        PROVE  Cost(m, r) < Cost(q, r) \/ (Cost(m, r) = Cost(q, r) /\ m <= q)
    <3>1. Min(Costs) <= Cost(q, r) /\ Cost(q, r) \in Nat /\ Cost(m, r) \in Nat
      BY <2>2, <2>4, <2>7
    <3>2. CASE Cost(q, r) = Min(Costs)
      <4>1. q \in Cheapest
        BY <3>2
      <4>2. QED
        BY <4>1, <2>6, <2>7, <3>2
    <3>3. CASE Cost(q, r) # Min(Costs)
      <4>. HIDE DEF m, Costs, Cheapest
      <4>1. QED
        BY <3>1, <3>3, <2>7
    <3>4. QED
      BY <3>2, <3>3
  <2>9. Closest(r) \in C
    <3>. HIDE DEF m, Costs, Cheapest
    <3>1. QED
      BY <1>3, <2>7, <2>8 DEF Closest
  <2>10. QED
    BY <2>1, <2>9
<1>4. QED
  BY <1>2, <1>3

-----------------------------------------------------------------------------
(* The inductive invariant.                                                *)

\* A call either hands out the head of some request's queue or changes only
\* the reply, and what it replies is well formed.
LEMMA Handout ==
  ASSUME StoreInv, NEW r \in Requests, Serve(r)
  PROVE  /\ \/ \E p \in Steps : /\ AtHead(p) /\ script[p] \notin Unparsable
                                /\ Claim(p)
            \/ UNCHANGED <<served, cursor, last, order>>
         /\ reply' \in Replies
<1>1. Steps \subseteq Nat /\ cursor \in Nat /\ lookahead \in Int /\ script \in Seq(Requests)
  BY StepsAreNumbers DEF StoreInv, StoreTypeOK
<1>2. CASE ServeFresh(r)
  <2>. DEFINE p == Min(Fits(r, lookahead))
  <2>1. p \in Fits(r, lookahead) /\ AtHead(p)
    BY <1>1, <1>2, FreshIsAtHead DEF StoreInv, ServeFresh
  <2>. HIDE DEF p
  <2>2. p \in Steps /\ script[p] \notin Unparsable
    BY <2>1 DEF Fits, Aligns, InWindow, Unserved
  <2>3. Claim(p) /\ Reply("fresh", r, p, cursor)
    BY <1>2 DEF ServeFresh, p
  <2>4. QED
    BY <1>1, <2>1, <2>2, <2>3 DEF Reply, Replies, Kinds
<1>3. CASE Repeat(r)
  <2>1. Max(Seen(r)) \in Nat
    BY <1>1, <1>3, SeenIsNewest DEF Repeat, StoreInv, IsNewest, StoreTypeOK
  <2>2. QED
    BY <1>1, <1>3, <2>1 DEF Repeat, Reply, Replies, Kinds
<1>4. CASE ServeAuxiliary(r)
  <2>. DEFINE p == Min(Spare)
  <2>1. p \in Spare /\ AtHead(p)
    BY <1>4, SpareIsAtHead DEF StoreInv, ServeAuxiliary
  <2>. HIDE DEF p
  <2>2. p \in Steps /\ script[p] \notin Unparsable
    BY <2>1, RequestsAssumption DEF Spare, AuxiliaryEntry, Unserved
  <2>3. Claim(p) /\ Reply("auxiliary", r, p, CursorPast(served \cup {p}) - 1)
    BY <1>4 DEF ServeAuxiliary, p
  <2>4. CursorPast(served \cup {p}) \in cursor .. Len(script) + 1
    BY <2>2, CursorPastFacts DEF StoreInv, StoreTypeOK
  <2>5. CursorPast(served \cup {p}) - 1 \in Nat
    BY <2>4, StepsAreNumbers DEF StoreInv, StoreTypeOK
  <2>6. QED
    BY <1>1, <2>1, <2>2, <2>3, <2>5 DEF Reply, Replies, Kinds
<1>5. CASE RepeatAuxiliary(r)
  <2>1. Max(Spent) \in Nat
    BY <1>1, <1>5, SpentIsNewest DEF RepeatAuxiliary, StoreInv, IsNewest, StoreTypeOK
  <2>2. QED
    BY <1>1, <1>5, <2>1 DEF RepeatAuxiliary, Reply, Replies, Kinds
<1>6. CASE Miss(r)
  <2>1. Closest(r) \in Nat
    <3>1. \/ Closest(r) \in Unserved
          \/ Closest(r) = 0 /\ cursor \notin Steps
      BY ClosestIsOwed DEF StoreInv
    <3>2. Unserved \subseteq Nat
      BY <1>1 DEF Unserved
    <3>3. CASE Closest(r) \in Unserved
      BY <3>2, <3>3
    <3>4. CASE Closest(r) = 0
      BY <3>4
    <3>5. QED
      BY <3>1, <3>3, <3>4
  <2>2. QED
    BY <1>1, <1>6, <2>1 DEF Miss, Reply, Replies, Kinds
<1>7. QED
  BY <1>2, <1>3, <1>4, <1>5, <1>6 DEF Serve

\* Handing out the head of a queue keeps the invariant.
LEMMA ClaimKeepsInvariant ==
  ASSUME StoreInv, UNCHANGED <<script, lookahead>>, reply' \in Replies,
         NEW p \in Steps, AtHead(p), script[p] \notin Unparsable, Claim(p)
  PROVE  StoreInv'
<1>. DEFINE n == Len(script)
<1>1. n \in Nat /\ Steps = 1 .. n /\ Steps \subseteq Nat /\ Steps' = Steps
  BY StepsAreNumbers DEF StoreInv, StoreTypeOK, Steps
<1>2. served' = served \cup {p} /\ last' = Larger(last, p) /\ order' = Append(order, p)
  BY DEF Claim
<1>3. p \in Nat /\ p \notin served
  BY <1>1 DEF AtHead, Unserved
<1>4. /\ cursor' \in cursor .. n + 1
      /\ cursor' \notin served'
      /\ \A q \in Steps : (cursor <= q /\ q < cursor') => q \in served'
  <2>1. served \cup {p} \in SUBSET Steps
    BY DEF StoreInv, StoreTypeOK
  <2>2. QED
    BY <1>2, <2>1, CursorPastFacts DEF StoreInv, StoreTypeOK, Claim
<1>5. StoreTypeOK'
  <2>1. order' \in Seq(Steps)
    BY <1>2 DEF StoreInv, StoreTypeOK
  <2>2. last' \in 0 .. n
    BY <1>1, <1>2, <1>3 DEF StoreInv, StoreTypeOK, Larger
  <2>3. cursor' \in 1 .. n + 1
    BY <1>1, <1>4 DEF StoreInv, StoreTypeOK
  <2>4. QED
    BY <1>1, <1>2, <2>1, <2>2, <2>3 DEF StoreInv, StoreTypeOK
<1>6. Positions'
  <2>1. \A q \in Steps : q < cursor' => q \in served'
    BY <1>1, <1>2, <1>4 DEF StoreInv, Positions, StoreTypeOK
  <2>2. \A q \in served' : q <= last'
    BY <1>1, <1>2, <1>3 DEF StoreInv, Positions, StoreTypeOK, Larger
  <2>3. last' # 0 => last' \in served'
    BY <1>2, <1>3 DEF StoreInv, Positions, Larger
  <2>4. QED
    BY <1>1, <1>4, <2>1, <2>2, <2>3 DEF Positions
<1>7. InRecordedOrder'
  <2>1. ASSUME NEW a \in Steps, NEW b \in Steps,
               a < b, script[a] = script[b], b \in served'
        PROVE  a \in served'
    BY <1>2, <2>1 DEF StoreInv, InRecordedOrder, AtHead
  <2>2. QED
    BY <1>1, <2>1 DEF InRecordedOrder
<1>8. /\ DOMAIN order' = DOMAIN order \cup {Len(order) + 1}
      /\ order'[Len(order) + 1] = p
      /\ \A i \in DOMAIN order : order'[i] = order[i] /\ order[i] \in served
      /\ DOMAIN order = 1 .. Len(order) /\ Len(order) \in Nat
  BY <1>2 DEF StoreInv, StoreTypeOK, HandedOutOnce
<1>9. HandedOutOnce'
  <2>1. served' = {order'[i] : i \in DOMAIN order'}
    BY <1>2, <1>8 DEF StoreInv, HandedOutOnce
  <2>2. ASSUME NEW i \in DOMAIN order', NEW j \in DOMAIN order', order'[i] = order'[j]
        PROVE  i = j
    BY <1>3, <1>8, <2>2 DEF StoreInv, HandedOutOnce
  <2>3. QED
    BY <2>1, <2>2 DEF HandedOutOnce
<1>10. HandedOutByRequest'
  <2>1. ASSUME NEW i \in DOMAIN order', NEW j \in DOMAIN order', i < j,
               script[order'[i]] = script[order'[j]]
        PROVE  order'[i] < order'[j]
    <3>1. i \in DOMAIN order
      BY <1>8, <2>1
    <3>2. CASE j \in DOMAIN order
      BY <1>8, <2>1, <3>1, <3>2 DEF StoreInv, HandedOutByRequest
    <3>3. CASE j = Len(order) + 1
      <4>1. order'[j] = p /\ order'[i] \in served /\ order'[i] \in Steps
        BY <1>8, <3>1, <3>3 DEF StoreInv, StoreTypeOK
      <4>2. ~(p < order'[i])
        BY <2>1, <4>1, <1>3 DEF StoreInv, InRecordedOrder
      <4>3. QED
        BY <1>1, <1>3, <4>1, <4>2
    <3>4. QED
      BY <1>8, <3>2, <3>3
  <2>2. QED
    BY <2>1 DEF HandedOutByRequest
<1>11. ServedParsable'
  BY <1>2 DEF StoreInv, ServedParsable
<1>12. QED
  BY <1>5, <1>6, <1>7, <1>9, <1>10, <1>11 DEF StoreInv

\* Every way of answering a request keeps it, and so does a step that leaves the
\* store alone.
LEMMA ServeKeepsInvariant ==
  ASSUME StoreInv, NEW r \in Requests, Serve(r), UNCHANGED <<script, lookahead>>
  PROVE  StoreInv'
<1>1. reply' \in Replies
  BY Handout
<1>2. CASE UNCHANGED <<served, cursor, last, order>>
  BY <1>1, <1>2 DEF StoreInv, StoreTypeOK, Positions, InRecordedOrder, HandedOutOnce,
       HandedOutByRequest, ServedParsable, Steps
<1>3. ASSUME NEW p \in Steps, AtHead(p), script[p] \notin Unparsable, Claim(p)
      PROVE  StoreInv'
  BY <1>1, <1>3, ClaimKeepsInvariant
<1>4. QED
  BY <1>2, <1>3, Handout

\* The invariant is about the store alone.
LEMMA StoreStutters ==
  ASSUME StoreInv, UNCHANGED <<script, lookahead, storeVars>>
  PROVE  StoreInv'
BY DEF storeVars, StoreInv, StoreTypeOK, Positions, InRecordedOrder, HandedOutOnce,
     HandedOutByRequest, ServedParsable, Steps

\* A cassette opens with nothing served, which the invariant allows.
LEMMA OpenInvariant ==
  ASSUME script \in Seq(Requests), lookahead \in Int,
         served = {}, cursor = 1, last = 0, reply = NoReply, order = <<>>
  PROVE  StoreInv
<1>1. Len(script) \in Nat /\ Steps = 1 .. Len(script)
  BY StepsAreNumbers
<1>2. QED
  BY <1>1 DEF StoreInv, StoreTypeOK, Positions, InRecordedOrder, HandedOutOnce,
       HandedOutByRequest, ServedParsable

\* Each outcome of a call is told by the kind of its reply.
LEMMA KindOfReply ==
  ASSUME NEW r
  PROVE  /\ ServeFresh(r) => reply'.kind = "fresh"
         /\ Repeat(r) => reply'.kind = "repeat"
         /\ ServeAuxiliary(r) => reply'.kind = "auxiliary"
         /\ RepeatAuxiliary(r) => reply'.kind = "auxiliary repeat"
         /\ Miss(r) => reply'.kind = "miss"
<1>1. ASSUME NEW k, NEW p, NEW e, Reply(k, r, p, e)
      PROVE  reply'.kind = k
  BY <1>1 DEF Reply
<1>2. QED
  BY <1>1 DEF ServeFresh, Repeat, ServeAuxiliary, RepeatAuxiliary, Miss

\* A request with a step in reach, or one that was answered before, is answered
\* with a step recorded for it: the head of its queue when one is in reach.
LEMMA Answered ==
  ASSUME StoreInv, NEW r \in Requests, Serve(r),
         Fits(r, lookahead) # {} \/ Seen(r) # {}
  PROVE  /\ reply'.kind # "miss"
         /\ reply'.step \in Steps /\ script[reply'.step] = r
         /\ served' = served \cup {reply'.step}
         /\ Fits(r, lookahead) # {} => AtHead(reply'.step)
<1>1. lookahead \in Int /\ StoreTypeOK /\ Positions
  BY DEF StoreInv, StoreTypeOK
<1>2. CASE Fits(r, lookahead) # {}
  <2>. DEFINE p == Min(Fits(r, lookahead))
  <2>1. ServeFresh(r)
    BY <1>2 DEF Serve, Repeat, ServeAuxiliary, RepeatAuxiliary, Miss, Refused, Unmatched
  <2>2. AtHead(p) /\ script[p] = r
    BY <1>1, <1>2, FreshIsAtHead
  <2>3. Claim(p) /\ reply'.step = p /\ reply'.kind = "fresh"
    BY <2>1 DEF ServeFresh, Reply
  <2>. HIDE DEF p
  <2>4. QED
    BY <2>2, <2>3 DEF Claim, AtHead, Unserved
<1>3. CASE Fits(r, lookahead) = {} /\ Seen(r) # {}
  <2>. DEFINE p == Max(Seen(r))
  <2>1. Repeat(r)
    BY <1>3 DEF Serve, ServeFresh, ServeAuxiliary, RepeatAuxiliary, Miss, Refused, Unmatched
  <2>2. IsNewest(p) /\ script[p] = r
    BY <1>1, <1>3, SeenIsNewest
  <2>3. reply'.step = p /\ reply'.kind = "repeat" /\ served' = served
    BY <2>1 DEF Repeat, Reply
  <2>. HIDE DEF p
  <2>4. QED
    BY <1>1, <1>3, <2>2, <2>3 DEF IsNewest, StoreTypeOK
<1>4. QED
  BY <1>2, <1>3

\* A step recorded for the request is found when it was served, or lies in reach.
LEMMA FoundInReach ==
  ASSUME StoreInv, NEW r \in Requests, NEW p \in Steps, Aligns(p, r)
  PROVE  /\ p \in served => Seen(r) # {}
         /\ p \notin served /\ p <= Frontier + lookahead => Fits(r, lookahead) # {}
<1>1. p \in Nat
  BY StepsAreNumbers DEF StoreInv, StoreTypeOK
<1>2. p \in served => p \in Seen(r)
  BY DEF Seen, StoreInv, Positions
<1>3. p \notin served => cursor <= p
  BY <1>1 DEF StoreInv, StoreTypeOK, Positions
<1>4. p \notin served /\ p <= Frontier + lookahead => p \in Fits(r, lookahead)
  BY <1>3 DEF Fits, InWindow, Unserved
<1>5. QED
  BY <1>2, <1>4

\* What was served is behind the frontier, and the frontier is past the start.
LEMMA ServedBehindFrontier ==
  ASSUME StoreInv
  PROVE  /\ Frontier \in Int /\ Frontier >= 1
         /\ \A p \in served : p < Frontier
<1>1. Len(script) \in Nat /\ served \subseteq Nat
  BY StepsAreNumbers DEF StoreInv, StoreTypeOK
<1>2. cursor \in Nat /\ cursor >= 1 /\ last \in Nat /\ \A p \in served : p <= last
  BY <1>1 DEF StoreInv, StoreTypeOK, Positions
<1>3. QED
  BY <1>1, <1>2 DEF Frontier, Larger

\* Of the models a script names one is the dominant one: the most frequent, the
\* first by name of equals.
LEMMA DominantIsNamed ==
  ASSUME script \in Seq(Requests), Models # {}
  PROVE  DominantModel \in Models
<1>. DEFINE Uses == {Naming(m) : m \in Models}
            Most == {m \in Models : Naming(m) = Max(Uses)}
<1>1. Len(script) \in Nat /\ Steps = 1 .. Len(script) /\ \A p \in Steps : script[p] \in Requests
  BY StepsAreNumbers
<1>2. Models \in SUBSET Nat
  BY <1>1, RequestsAssumption DEF Models
<1>3. IsFiniteSet(Steps)
  BY <1>1, FS_Interval
<1>4. Cardinality(Steps) \in Nat
  BY <1>3, FS_CardinalityType
<1>5. ASSUME NEW m
      PROVE  Naming(m) \in Nat /\ Naming(m) <= Cardinality(Steps)
  <2>. DEFINE S == {p \in Steps : ModelOf[script[p]] = m}
  <2>1. S \in SUBSET Steps
    OBVIOUS
  <2>. HIDE DEF S
  <2>2. IsFiniteSet(S) /\ Cardinality(S) <= Cardinality(Steps)
    BY <1>3, <2>1, FS_Subset
  <2>3. Cardinality(S) \in Nat
    BY <2>2, FS_CardinalityType
  <2>4. QED
    BY <2>2, <2>3 DEF Naming, S
<1>6. Uses \in SUBSET Nat /\ Uses # {} /\ \A y \in Uses : y <= Cardinality(Steps)
  BY <1>5
<1>7. Max(Uses) \in Uses /\ \A y \in Uses : y <= Max(Uses)
  <2>. HIDE DEF Uses
  <2>1. QED
    BY <1>4, <1>6, MaxIsGreatest
<1>8. Most \in SUBSET Nat /\ Most # {}
  BY <1>2, <1>7
<1>9. Min(Most) \in Most /\ \A m \in Most : Min(Most) <= m
  <2>. HIDE DEF Most
  <2>1. QED
    BY <1>8, MinIsLeast
<1>. DEFINE d == Min(Most)
<1>10. d \in Models /\ Naming(d) = Max(Uses)
  BY <1>9
<1>11. ASSUME NEW n \in Models
       PROVE  Naming(d) > Naming(n) \/ (Naming(d) = Naming(n) /\ d <= n)
  <2>1. Naming(n) <= Max(Uses) /\ Naming(n) \in Nat /\ Naming(d) \in Nat
    BY <1>5, <1>7
  <2>2. CASE Naming(n) = Max(Uses)
    BY <1>9, <1>10, <2>2
  <2>3. CASE Naming(n) # Max(Uses)
    <3>. HIDE DEF d, Uses
    <3>1. QED
      BY <1>10, <2>1, <2>3
  <2>4. QED
    BY <2>2, <2>3
<1>12. QED
  <2>. HIDE DEF d
  <2>1. QED
    BY <1>10, <1>11 DEF DominantModel

\* What AuxiliaryEntry admits is told apart from the rest of the cassette: were
\* its model the only one named, it would be the dominant one.
LEMMA EntryIsToldApart ==
  ASSUME script \in Seq(Requests), NEW p \in Steps, AuxiliaryEntry(p)
  PROVE  /\ Shape[script[p]] = "single"
         /\ \E q \in Steps : \/ Shape[script[q]] # "single"
                             \/ ModelOf[script[q]] \notin {0, ModelOf[script[p]]}
<1>1. CASE HasUnshapedStep
  BY <1>1 DEF HasUnshapedStep, AuxiliaryEntry
<1>2. CASE ModelOf[script[p]] # 0 /\ ModelOf[script[p]] # DominantModel
  <2>1. ModelOf[script[p]] \in Models
    BY <1>2 DEF Models
  <2>2. DominantModel \in Models
    BY <2>1, DominantIsNamed
  <2>3. QED
    BY <1>2, <2>2 DEF Models, AuxiliaryEntry
<1>3. QED
  BY <1>1, <1>2 DEF AuxiliaryEntry

\* What is in reach stays in reach when the cursor and the high-water mark move on.
LEMMA ReachGrows ==
  ASSUME NEW c \in Int, NEW l \in Int, NEW d \in Int, NEW m \in Int,
         NEW a \in Int, NEW p \in Int,
         c <= d, l <= m, p <= Larger(c, l + 1) + a
  PROVE  p <= Larger(d, m + 1) + a
BY DEF Larger
=============================================================================
