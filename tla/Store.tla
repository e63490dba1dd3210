-------------------------------- MODULE Store --------------------------------
(***************************************************************************)
(* An open cassette and one lookup in it: internal/cassette/store.go, the  *)
(* Store type and its method Next.                                         *)
(*                                                                         *)
(* This is what one call reads and leaves behind; ReplayStore and RoundTrip*)
(* say who calls.  An operator marked "slip" is the definition below it    *)
(* with a plausible mistake, which the properties must be able to tell     *)
(* from the code; no specification uses it.                                *)
(*                                                                         *)
(* A request is a model value standing for all canonical requests that     *)
(* align with one another under the volatile paths, its method and path    *)
(* included.  What Next reads of a body beyond that is given by constants: *)
(* its shape, its model, and how many differences Align counts.            *)
(*                                                                         *)
(* Positions start at 1 here and at 0 in the code, so a position is the    *)
(* entry's Seq and `cursor` is what the code reports as Expected.          *)
(***************************************************************************)
EXTENDS Integers, Sequences, FiniteSets, FiniteSetsExt

CONSTANTS
  Requests,        \* canonical requests, one per class of aligning ones
  Route,           \* Route[r]: the method and the path
  Unparsable,      \* the requests whose body is not JSON: they align with nothing
  Shape,           \* Shape[r]: "single": one message, no tools; "work": more
                   \* messages or some tool; "bare": neither (no body, not JSON)
  ModelOf,         \* ModelOf[r]: the model named, ordered by name; 0 when none is
  Differences,     \* Differences[q, r]: shape and leaf differences Align counts
  AuxiliaryTurns   \* the setting auxiliary_turns

ASSUME RequestsAssumption ==
  /\ Unparsable \subseteq Requests
  /\ Shape \in [Requests -> {"single", "work", "bare"}]
  /\ \A r \in Unparsable : Shape[r] = "bare"
  /\ ModelOf \in [Requests -> Nat]
  /\ Differences \in [Requests \X Requests -> Nat]
  /\ AuxiliaryTurns \in BOOLEAN

VARIABLES
  script,     \* the index, one request per step
  lookahead,  \* the window, fixed for the session; the code takes any integer
  served,     \* the steps handed out: served[i] of the code, as a set
  cursor,     \* the earliest unserved step, Len(script) + 1 when there is none
  last,       \* the furthest step served, 0 before the first
  reply,      \* what the last call returned: a Selection or a Miss
  order       \* history: the steps handed out fresh, in the order they were

storeVars == <<served, cursor, last, reply, order>>

NoReply == [kind |-> "none"]
Kinds == {"fresh", "repeat", "auxiliary", "auxiliary repeat", "miss"}
Replies == [kind : Kinds, request : Requests, step : Nat, expected : Nat]

Steps == DOMAIN script
Unserved == Steps \ served

Larger(m, n) == IF m >= n THEN m ELSE n

-----------------------------------------------------------------------------
(* What Next reads of the script.                                          *)

\* The step is this request: same method, same path, a body that aligns.
Aligns(p, r) == script[p] = r /\ r \notin Unparsable

Frontier == Larger(cursor, last + 1)

\* Slips: the window anchored at the cursor; the served marks not looked at.
InWindowFromCursor(ahead) ==
  {p \in Unserved : cursor <= p /\ p <= cursor + ahead}
InWindowServedToo(ahead) ==
  {p \in Steps : cursor <= p /\ p <= Frontier + ahead}

\* The unserved steps the forward scan reaches.
InWindow(ahead) == {p \in Unserved : cursor <= p /\ p <= Frontier + ahead}

\* Slips: a scan that starts at the frontier; a repeat that takes the oldest
\* step.
FitsPastFrontier(r, ahead) ==
  {p \in InWindow(ahead) : Frontier <= p /\ Aligns(p, r)}
SeenFirst(r) ==
  {p \in served : Aligns(p, r) /\ \A q \in served : Aligns(q, r) => p <= q}

\* The steps that could be served fresh, and those that could be repeated.
Fits(r, ahead) == {p \in InWindow(ahead) : Aligns(p, r)}
Seen(r) == {p \in served : p <= last /\ Aligns(p, r)}

\* The differences a step is scored by when a miss looks for the closest one.
Cost(p, r) == IF Route[script[p]] # Route[r] \/ {script[p], r} \cap Unparsable # {}
              THEN 0 ELSE Differences[script[p], r]

\* Slip: steps already served compared as well.
CandidatesServedToo(r) == {p \in Steps : Cost(p, r) > 0}

\* The step a miss is reported against: of those scanned on the same route the
\* one with the fewest differences, the earliest of equals; else the cursor's.
Candidates(r) == {p \in InWindow(lookahead) : Cost(p, r) > 0}
Closest(r) ==
  IF Candidates(r) # {}
  THEN CHOOSE p \in Candidates(r) : \A q \in Candidates(r) :
         Cost(p, r) < Cost(q, r) \/ (Cost(p, r) = Cost(q, r) /\ p <= q)
  ELSE IF cursor \in Steps THEN cursor ELSE 0

(* Bookkeeping calls.                                                      *)

\* The model most steps name; of equally frequent ones the first by name.
Naming(m) == Cardinality({p \in Steps : ModelOf[script[p]] = m})
Models == {ModelOf[script[p]] : p \in Steps} \ {0}
DominantModel ==
  IF Models = {} THEN 0
  ELSE CHOOSE m \in Models : \A n \in Models :
         Naming(m) > Naming(n) \/ (Naming(m) = Naming(n) /\ m <= n)

\* Slip: a cassette of bookkeeping alone absorbs too.
HasAnyStep == Steps # {}

HasUnshapedStep == \E p \in Steps : Shape[script[p]] # "single"

\* A live request that recorded bookkeeping may answer: by its shape alone.
Auxiliary(r) == Shape[r] = "single"

\* A recorded step that is bookkeeping.
AuxiliaryEntry(p) ==
  /\ Shape[script[p]] = "single"
  /\ \/ ModelOf[script[p]] # 0 /\ ModelOf[script[p]] # DominantModel
     \/ HasUnshapedStep

\* Slip: the last unserved bookkeeping step rather than the first.
SpareNewest == {p \in Unserved : /\ AuxiliaryEntry(p)
                               /\ \A q \in Unserved : AuxiliaryEntry(q) => q <= p}

Spare == {p \in Unserved : AuxiliaryEntry(p)}
Spent == {p \in served : p <= last /\ AuxiliaryEntry(p)}

-----------------------------------------------------------------------------
(* One call of Next.                                                       *)

\* Slips: the cursor moved by one step whatever was served; moved before the
\* served marks are looked at.
CursorOneOn(s) == IF cursor \in Steps THEN cursor + 1 ELSE cursor
CursorTooFar(s) == Min((cursor + 1 .. Len(script) + 2) \ s)

\* The cursor once the steps of s have been served.
CursorPast(s) == Min((cursor .. Len(script) + 1) \ s)

\* Slip: `last` follows the step served, forward or back.
ClaimRewinding(p) == /\ served' = served \cup {p}
                     /\ last' = p
                     /\ cursor' = CursorPast(served \cup {p})
                     /\ order' = Append(order, p)

\* Hand a step out for the first time.
Claim(p) == /\ served' = served \cup {p}
            /\ last' = Larger(last, p)
            /\ cursor' = CursorPast(served \cup {p})
            /\ order' = Append(order, p)

Reply(kind, r, p, expected) ==
  reply' = [kind |-> kind, request |-> r, step |-> p, expected |-> expected]

\* The earliest unserved step in the window that aligns.
ServeFresh(r) ==
  /\ Fits(r, lookahead) # {}
  /\ LET p == Min(Fits(r, lookahead))
     IN Claim(p) /\ Reply("fresh", r, p, cursor)

\* Else the newest served step that aligns, once more.
Repeat(r) ==
  /\ Fits(r, lookahead) = {}
  /\ Seen(r) # {}
  /\ Reply("repeat", r, Max(Seen(r)), cursor)
  /\ UNCHANGED <<served, cursor, last, order>>

Unmatched(r, ahead) == Fits(r, ahead) = {} /\ Seen(r) = {}
MayBeAuxiliary(r) == AuxiliaryTurns /\ Auxiliary(r)

\* Else, for a bookkeeping call, the earliest unserved bookkeeping step,
\* however far ahead.  The code has moved the cursor by the time it fills in
\* Expected, and fills in the position counted from 0.
ServeAuxiliary(r) ==
  /\ Unmatched(r, lookahead) /\ MayBeAuxiliary(r)
  /\ Spare # {}
  /\ LET p == Min(Spare)
     IN Claim(p) /\ Reply("auxiliary", r, p, CursorPast(served \cup {p}) - 1)

\* Else the newest served bookkeeping step.
RepeatAuxiliary(r) ==
  /\ Unmatched(r, lookahead) /\ MayBeAuxiliary(r)
  /\ Spare = {} /\ Spent # {}
  /\ Reply("auxiliary repeat", r, Max(Spent), cursor)
  /\ UNCHANGED <<served, cursor, last, order>>

\* Nothing in the cassette answers it.
Refused(r, ahead) == /\ Unmatched(r, ahead)
                     /\ MayBeAuxiliary(r) => Spare = {} /\ Spent = {}
Miss(r) ==
  /\ Refused(r, lookahead)
  /\ Reply("miss", r, Closest(r), cursor)
  /\ UNCHANGED <<served, cursor, last, order>>

\* The call, by the first of its answers that there is.
Serve(r) == \/ ServeFresh(r) \/ Repeat(r)
            \/ ServeAuxiliary(r) \/ RepeatAuxiliary(r)
            \/ Miss(r)

-----------------------------------------------------------------------------
(* What the fields of the store say of one another.                        *)

StoreTypeOK ==
  /\ script \in Seq(Requests) /\ lookahead \in Int
  /\ served \subseteq Steps
  /\ cursor \in 1 .. Len(script) + 1 /\ last \in 0 .. Len(script)
  /\ reply \in Replies \cup {NoReply}
  /\ order \in Seq(Steps)

\* The three fields agree: the cursor stands at the earliest step not served,
\* and `last` is the furthest step served, however late a straggler lands
\* (the rewinding `last` that Next's comment describes).
Positions ==
  /\ \A p \in Steps : p < cursor => p \in served
  /\ cursor \notin served
  /\ \A p \in served : p <= last
  /\ last # 0 => last \in served

\* Two steps recorded for one request are handed out in recorded order, the
\* look-ahead and the bookkeeping answers notwithstanding.
InRecordedOrder ==
  \A p, q \in Steps :
    (p < q /\ script[p] = script[q] /\ q \in served) => p \in served

\* Of two steps handed out for one request, the later in the script came later.
HandedOutByRequest ==
  \A i, j \in DOMAIN order :
    (i < j /\ script[order[i]] = script[order[j]]) => order[i] < order[j]

\* A step is handed out fresh at most once, and nothing is marked served that
\* was not handed out.
HandedOutOnce ==
  /\ served = {order[i] : i \in DOMAIN order}
  /\ \A i, j \in DOMAIN order : order[i] = order[j] => i = j

\* A step whose body is not JSON is never handed out.
ServedParsable == \A p \in served : script[p] \notin Unparsable

\* What is served, the two marks and the order of serving determine one another.
StoreInv == /\ StoreTypeOK /\ Positions /\ InRecordedOrder
            /\ HandedOutOnce /\ HandedOutByRequest /\ ServedParsable

=============================================================================
