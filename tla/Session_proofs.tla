--------------------------- MODULE Session_proofs ---------------------------
(***************************************************************************)
(* That the summary adds up, that misses decide the exit status and that a *)
(* cassette has one verdict, for every number of requests of every kind.   *)
(*                                                                         *)
(* Each counter is the number of handlers that a predicate on the place of *)
(* one handler holds of.  A step of one handler moves that one alone.      *)
(***************************************************************************)
EXTENDS Session, FiniteSetTheorems, TLAPS

Exchanged == {"answered", "upstream_error", "left"}
Rejections == {"no_prefix", "no_cassette", "unknown_provider", "cassette_miss",
               "cassette_corrupt"}
Untold == {"idle", "started", "tunnelling", "unanswered", "opening", "reading",
           "selecting", "fetching", "routing", "flying"}
Flying == {"flying", "storing", "counting", "leaving"}
Admitted == {"opening", "reading", "selecting", "fetching", "writing", "routing"} \cup Flying

\* What a client has been told, by the place of its handler, and whose exchange
\* is in the cassette.
PlacedAt(h) ==
  /\ pc[h] \in Untold => reply[h] = "none"
  /\ pc[h] = "writing" => reply[h] = "replayed"
  /\ pc[h] \in {"storing", "counting", "leaving"} => reply[h] \in Exchanged
  /\ pc[h] = "done" => reply[h] # "none"
  /\ h \in kept => pc[h] \in {"counting", "leaving", "done"} /\ reply[h] \in Exchanged
  /\ pc[h] = "counting" => h \in kept
Placed == \A h \in Handlers : PlacedAt(h)

\* Which handlers a counter counts.
Tracked == {"requests", "upstream", "replayed", "recorded", "misses", "rejected", "inFlight"}
In(c, h) ==
  /\ c = "requests" => \/ pc[h] \in Admitted
                       \/ pc[h] = "done" /\ reply[h] \in Rejections \cup Exchanged
                                                \cup {"replayed", "unreadable_body"}
  /\ c = "upstream" => pc[h] \in Flying \/ (pc[h] = "done" /\ reply[h] \in Exchanged)
  /\ c = "replayed" => reply[h] = "replayed"
  /\ c = "recorded" => h \in kept /\ pc[h] \in {"leaving", "done"}
  /\ c = "misses"   => reply[h] = "cassette_miss"
  /\ c = "rejected" => reply[h] \in Rejections
  /\ c = "inFlight" => pc[h] \in Flying
Tally(c) == {h \in Handlers : In(c, h)}
Accounted == \A c \in Tracked : stats[c] = Cardinality(Tally(c))

\* What is printed is what was counted when all was quiet, which it still is.
Settled ==
  /\ phase \in {"drained", "summarized", "over"} /\ ~timedOut => AllQuiet
  /\ Printed /\ ~timedOut =>
       /\ summary = stats
       /\ exit = 4 <=> offline /\ stats["misses"] > 0

\* What was printed beside handlers that go on: they only add to the lost.
Taken == Printed => NoneTwice(summary) /\ NoneMissing(summary)

\* A handler past the opening of its cassette found it open; one refused found
\* it refused; and a tunnel asked for none.
VerdictAt(h) ==
  /\ pc[h] # "idle" => call[h] \in Calls
  /\ pc[h] = "tunnelling" => call[h].route = "tunnel"
  /\ pc[h] \in {"unanswered"} \cup Admitted => call[h].route \in {"probe", "call"}
  /\ call[h].route \in {"probe", "call"} =>
       /\ \/ pc[h] \in Admitted \ {"opening"}
          \/ reply[h] \notin {"none", "probed", "no_cassette"}
          => opened[call[h].cassette] = "open"
       /\ reply[h] = "no_cassette" => opened[call[h].cassette] = "refused"
Verdicts == \A h \in Handlers : VerdictAt(h)

IInv == TypeOK /\ Placed /\ Accounted /\ Settled /\ Taken /\ Verdicts

-----------------------------------------------------------------------------
\* A counter's change, when one handler moves.
Moves(h) ==
  \A c \in Tracked :
    \/ In(c, h)' /\ ~In(c, h) /\ stats'[c] = stats[c] + 1
    \/ (In(c, h)' <=> In(c, h)) /\ stats'[c] = stats[c]
    \/ ~In(c, h)' /\ In(c, h) /\ stats'[c] = stats[c] - 1

\* The others stay where they are.
Alone(h) ==
  \A g \in Handlers \ {h} :
    /\ pc'[g] = pc[g] /\ reply'[g] = reply[g] /\ call'[g] = call[g]
    /\ g \in kept' <=> g \in kept

\* Any set of handlers is finite.
LEMMA TallyFinite ==
  ASSUME NEW S \in SUBSET Handlers
  PROVE  IsFiniteSet(S) /\ Cardinality(S) \in Nat
BY CallsAssumption, FS_Subset, FS_CardinalityType

\* Two sets with nothing in common.
LEMMA Disjoint ==
  ASSUME NEW S, NEW T, IsFiniteSet(S), IsFiniteSet(T), S \cap T = {}
  PROVE  /\ IsFiniteSet(S \cup T)
         /\ Cardinality(S \cup T) = Cardinality(S) + Cardinality(T)
<1>1. Cardinality(S) \in Nat /\ Cardinality(T) \in Nat /\ Cardinality(S \cap T) = 0
  BY FS_CardinalityType, FS_EmptySet
<1>2. /\ IsFiniteSet(S \cup T)
      /\ Cardinality(S \cup T) = Cardinality(S) + Cardinality(T) - Cardinality(S \cap T)
  BY FS_Union
<1>. QED  BY <1>1, <1>2

\* Two sets that may have something in common.
LEMMA UnionBound ==
  ASSUME NEW S, NEW T, IsFiniteSet(S), IsFiniteSet(T)
  PROVE  /\ IsFiniteSet(S \cup T)
         /\ Cardinality(S \cup T) <= Cardinality(S) + Cardinality(T)
<1>1. Cardinality(S) \in Nat /\ Cardinality(T) \in Nat
  BY FS_CardinalityType
<1>2. IsFiniteSet(S \cap T) /\ Cardinality(S \cap T) \in Nat
  BY FS_Intersection, FS_CardinalityType
<1>3. /\ IsFiniteSet(S \cup T)
      /\ Cardinality(S \cup T) = Cardinality(S) + Cardinality(T) - Cardinality(S \cap T)
  BY FS_Union
<1>. QED  BY <1>1, <1>2, <1>3

\* When one handler moves and is counted where it goes, the counters stay right.
LEMMA MovesCount ==
  ASSUME NEW h \in Handlers, Accounted, Alone(h), Moves(h)
  PROVE  Accounted'
<1>. SUFFICES ASSUME NEW c \in Tracked
              PROVE  stats'[c] = Cardinality(Tally(c)')
  BY DEF Accounted
<1>1. \A g \in Handlers \ {h} : In(c, g)' <=> In(c, g)
  BY DEF Alone, In, Tracked
<1>2. Tally(c) \subseteq Handlers /\ Tally(c)' \subseteq Handlers
  BY DEF Tally
<1>3. IsFiniteSet(Tally(c)) /\ Cardinality(Tally(c)) \in Nat
  BY <1>2, TallyFinite
<1>4. CASE In(c, h)' /\ ~In(c, h) /\ stats'[c] = stats[c] + 1
  <2>1. Tally(c)' = Tally(c) \cup {h} /\ h \notin Tally(c)
    BY <1>1, <1>4 DEF Tally
  <2>. QED  BY <1>3, <1>4, <2>1, FS_AddElement DEF Accounted
<1>5. CASE (In(c, h)' <=> In(c, h)) /\ stats'[c] = stats[c]
  <2>1. Tally(c)' = Tally(c)
    BY <1>1, <1>5 DEF Tally
  <2>. QED  BY <1>5, <2>1 DEF Accounted
<1>6. CASE ~In(c, h)' /\ In(c, h) /\ stats'[c] = stats[c] - 1
  <2>1. Tally(c)' = Tally(c) \ {h} /\ h \in Tally(c)
    BY <1>1, <1>6 DEF Tally
  <2>2. Cardinality(Tally(c) \ {h}) = Cardinality(Tally(c)) - 1
    BY <1>3, <2>1, FS_RemoveElement
  <2>3. stats[c] = Cardinality(Tally(c))
    BY DEF Accounted
  <2>. QED  BY <1>6, <2>1, <2>2, <2>3
<1>. QED  BY <1>4, <1>5, <1>6 DEF Moves

-----------------------------------------------------------------------------
\* A step of a handler moves that handler alone.
LEMMA HandleAlone ==
  ASSUME TypeOK, NEW h \in Handlers, Handle(h)
  PROVE  Alone(h)
BY DEF Handle, Arrive, Tunnel, TunnelEnds, Backend, Astray, Probe, Admit, OpenCassette,
       ReadBody, Select, Fetch, Written, Route, Forward, Record, CountRecorded, Leave,
       Finish, Go, Tell, Rest, Alone, TypeOK

\* Each step of a handler counts what it does.
LEMMA HandleMoves ==
  ASSUME TypeOK, Placed, NEW h \in Handlers, Handle(h)
  PROVE  Moves(h) /\ PlacedAt(h)'
<1>. USE DEF TypeOK, Placed, PlacedAt, At, Go, Tell, Finish, Count, Moves, In, Tracked,
             Counters, Untold, Flying, Admitted, Exchanged, Rejections
<1>1. CASE Arrive(h)
  BY <1>1 DEF Arrive
<1>2. CASE Tunnel(h)
  BY <1>2 DEF Tunnel, Unconnected
<1>3. CASE TunnelEnds(h)
  BY <1>3 DEF TunnelEnds
<1>4. CASE Backend(h)
  BY <1>4 DEF Backend
<1>5. CASE Astray(h)
  BY <1>5 DEF Astray
<1>6. CASE Probe(h)
  BY <1>6 DEF Probe
<1>7. CASE Admit(h)
  BY <1>7 DEF Admit
<1>8. CASE OpenCassette(h)
  BY <1>8 DEF OpenCassette
<1>9. CASE ReadBody(h)
  BY <1>9 DEF ReadBody
<1>10. CASE Select(h)
  BY <1>10 DEF Select
<1>11. CASE Fetch(h)
  BY <1>11 DEF Fetch
<1>12. CASE Written(h)
  BY <1>12 DEF Written
<1>13. CASE Route(h)
  BY <1>13 DEF Route
<1>14. CASE Forward(h)
  BY <1>14 DEF Forward
<1>15. CASE Record(h)
  BY <1>15 DEF Record
<1>16. CASE CountRecorded(h)
  BY <1>16 DEF CountRecorded
<1>17. CASE Leave(h)
  BY <1>17 DEF Leave
<1>. QED
  BY <1>1, <1>2, <1>3, <1>4, <1>5, <1>6, <1>7, <1>8, <1>9, <1>10, <1>11, <1>12, <1>13,
     <1>14, <1>15, <1>16, <1>17 DEF Handle

\* A cassette opens or is refused, as it was before if it was asked for before.
LEMMA VerdictIsFinal ==
  ASSUME TypeOK, NEW n \in Names
  PROVE  /\ Verdict(n) \in {"open", "refused"}
         /\ opened[n] # "unasked" => Verdict(n) = opened[n]
BY DEF Verdict, TypeOK

\* storeFor keeps the types, whatever it is asked for.
LEMMA StoreForType ==
  ASSUME TypeOK, NEW n, StoreFor(n)
  PROVE  /\ opened' \in [Names -> {"unasked", "open", "refused"}]
         /\ stored' \in [Names -> {"absent", "stale", "whole"}]
<1>1. CASE n \in Names
  BY <1>1, VerdictIsFinal DEF StoreFor, TypeOK
<1>2. CASE n \notin Names
  BY <1>2 DEF StoreFor, TypeOK
<1>. QED  BY <1>1, <1>2

\* A step of a handler keeps the types: nothing leaves that is not in flight.
LEMMA HandleType ==
  ASSUME TypeOK, Placed, Accounted, NEW h \in Handlers, Handle(h)
  PROVE  TypeOK'
<1>. USE DEF TypeOK, At, Go, Tell, Finish, Count, Stages, Replies, Own, Rest, session, cassettes
<1>1. CASE Leave(h)
  <2>1. pc[h] = "leaving" /\ "inFlight" \in Tracked
    BY <1>1 DEF Leave, Tracked
  <2>2. h \in Tally("inFlight")
    BY <2>1 DEF Tally, In, Flying
  <2>3. IsFiniteSet(Tally("inFlight")) /\ Cardinality(Tally("inFlight")) # 0
    BY <2>2, TallyFinite, FS_EmptySet DEF Tally
  <2>4. stats["inFlight"] \in Nat \ {0}
    BY <2>1, <2>3, TallyFinite DEF Accounted, Tally, Counters
  <2>5. stats' \in [Counters -> Nat]
    BY <1>1, <2>4 DEF Leave, Counters
  <2>. QED  BY <1>1, <2>5 DEF Leave
<1>2. CASE Arrive(h)
  BY <1>2 DEF Arrive
<1>3. CASE Tunnel(h) \/ TunnelEnds(h) \/ Backend(h) \/ Astray(h) \/ Admit(h)
  BY <1>3 DEF Tunnel, TunnelEnds, Backend, Astray, Admit
<1>4. CASE Probe(h)
  BY <1>4, StoreForType DEF Probe
<1>5. CASE OpenCassette(h)
  BY <1>5, StoreForType DEF OpenCassette
<1>6. CASE ReadBody(h) \/ Select(h) \/ Fetch(h) \/ Written(h)
  BY <1>6 DEF ReadBody, Select, Fetch, Written
<1>7. CASE Route(h) \/ Forward(h) \/ Record(h) \/ CountRecorded(h)
  BY <1>7 DEF Route, Forward, Record, CountRecorded
<1>. QED  BY <1>1, <1>2, <1>3, <1>4, <1>5, <1>6, <1>7 DEF Handle

\* Once all is quiet and connections are no longer accepted, only tunnels end.
LEMMA HandleSettled ==
  ASSUME TypeOK, Settled, NEW h \in Handlers, Handle(h)
  PROVE  Settled'
<1>1. UNCHANGED <<offline, phase, timedOut, summary, exit>>
  BY DEF Handle, Arrive, Tunnel, TunnelEnds, Backend, Astray, Probe, Admit, OpenCassette,
         ReadBody, Select, Fetch, Written, Route, Forward, Record, CountRecorded, Leave,
         Rest, session
<1>2. CASE phase \in {"drained", "summarized", "over"} /\ ~timedOut
  <2>1. pc[h] \in {"idle", "tunnelling", "done"}
    BY <1>2 DEF Settled, AllQuiet, Quiet
  <2>2. TunnelEnds(h)
    BY <1>2, <2>1 DEF Handle, Arrive, Tunnel, Backend, Astray, Probe, Admit, OpenCassette,
         ReadBody, Select, Fetch, Written, Route, Forward, Record, CountRecorded, Leave, At
  <2>3. stats' = stats /\ AllQuiet'
    BY <1>2, <2>2 DEF TunnelEnds, Finish, Go, Settled, AllQuiet, Quiet, TypeOK
  <2>. QED  BY <1>1, <2>3 DEF Settled, Printed
<1>3. CASE ~(phase \in {"drained", "summarized", "over"} /\ ~timedOut)
  BY <1>1, <1>3 DEF Settled, Printed
<1>. QED  BY <1>2, <1>3

\* A verdict stays for the session.
LEMMA HandleKeepsVerdict ==
  ASSUME TypeOK, NEW h \in Handlers, Handle(h), NEW n \in Names, opened[n] # "unasked"
  PROVE  opened'[n] = opened[n]
<1>1. CASE Probe(h) \/ OpenCassette(h)
  BY <1>1, VerdictIsFinal DEF Probe, OpenCassette, StoreFor, TypeOK, cassettes
<1>2. CASE ~(Probe(h) \/ OpenCassette(h))
  BY <1>2 DEF Handle, Arrive, Tunnel, TunnelEnds, Backend, Astray, Admit, ReadBody, Select,
         Fetch, Written, Route, Forward, Record, CountRecorded, Leave, cassettes
<1>. QED  BY <1>1, <1>2

\* A handler goes on only with a cassette that opened.
LEMMA HandleVerdicts ==
  ASSUME TypeOK, Placed, Verdicts, NEW h \in Handlers, Handle(h)
  PROVE  Verdicts'
<1>1. ASSUME NEW g \in Handlers \ {h}
      PROVE  VerdictAt(g)'
  <2>1. pc'[g] = pc[g] /\ reply'[g] = reply[g] /\ call'[g] = call[g] /\ VerdictAt(g)
    BY HandleAlone DEF Alone, Verdicts
  <2>2. ASSUME call[g].route \in {"probe", "call"}
        PROVE  call[g].cassette \in Names
    BY <2>2, CallsAssumption DEF TypeOK, NoCall, CallType
  <2>. QED  BY <2>1, <2>2, HandleKeepsVerdict DEF VerdictAt
<1>2. VerdictAt(h)'
  <2>. USE DEF TypeOK, Placed, PlacedAt, VerdictAt, At, Go, Tell, Finish, Untold, Admitted,
               Flying, Rest, cassettes, Exchanged
  <2>0. VerdictAt(h) /\ PlacedAt(h)
    BY DEF Verdicts
  <2>1. pc[h] # "idle" => call[h] \in CallType
    BY <2>0, CallsAssumption
  <2>2. CASE Arrive(h)
    BY <2>0, <2>2 DEF Arrive
  <2>3. CASE Tunnel(h) \/ TunnelEnds(h) \/ Backend(h) \/ Astray(h)
    BY <2>0, <2>1, <2>3 DEF Tunnel, TunnelEnds, Backend, Astray, CallType
  <2>4. CASE Probe(h)
    BY <2>0, <2>1, <2>4 DEF Probe, CallType
  <2>5. CASE Admit(h) \/ ReadBody(h)
    BY <2>0, <2>1, <2>5 DEF Admit, ReadBody, CallType
  <2>6. CASE OpenCassette(h)
    <3>1. call[h].cassette \in Names /\ opened'[call[h].cassette] = Verdict(call[h].cassette)
      BY <2>0, <2>1, <2>6 DEF OpenCassette, StoreFor, CallType
    <3>. QED  BY <2>0, <2>1, <2>6, <3>1, VerdictIsFinal DEF OpenCassette
  <2>7. CASE Select(h) \/ Fetch(h) \/ Written(h)
    BY <2>0, <2>1, <2>7 DEF Select, Fetch, Written
  <2>8. CASE Route(h) \/ Forward(h) \/ Record(h) \/ CountRecorded(h) \/ Leave(h)
    BY <2>0, <2>1, <2>8 DEF Route, Forward, Record, CountRecorded, Leave
  <2>. QED  BY <2>2, <2>3, <2>4, <2>5, <2>6, <2>7, <2>8 DEF Handle
<1>. QED  BY <1>1, <1>2 DEF Verdicts

\* The counters are never at odds, whenever they are read: an exchange that is
\* over and was not recorded is lost.
LEMMA NeverAtOdds ==
  ASSUME TypeOK, Placed, Accounted
  PROVE  NoneTwice(stats) /\ NoneMissing(stats)
<1>1. \A c \in Tracked : stats[c] = Cardinality(Tally(c))
  BY DEF Accounted
<1>2. \A h \in Handlers : PlacedAt(h) /\ pc[h] \in Stages /\ reply[h] \in Replies
  BY DEF Placed, TypeOK
<1>3. /\ Lost \subseteq Handlers
      /\ \A c \in Tracked : Tally(c) \subseteq Handlers
  BY DEF Lost, Told, Tally
<1>4. /\ IsFiniteSet(Lost) /\ Cardinality(Lost) \in Nat
      /\ \A c \in Tracked : IsFiniteSet(Tally(c)) /\ Cardinality(Tally(c)) \in Nat
  BY <1>3, TallyFinite
<1>. DEFINE Served == Tally("replayed") \cup Tally("rejected")
            Open == Tally("recorded") \cup Tally("inFlight")
<1>5. NoneTwice(stats)
  <2>1. /\ Tally("replayed") \cap Tally("rejected") = {}
        /\ Served \cap Tally("upstream") = {}
        /\ Served \cup Tally("upstream") \subseteq Tally("requests")
    BY <1>2 DEF Tally, In, Flying, Admitted, PlacedAt, Exchanged, Rejections, Untold, Stages
  <2>2. /\ Cardinality(Served) = Cardinality(Tally("replayed")) + Cardinality(Tally("rejected"))
        /\ IsFiniteSet(Served)
    BY <1>4, <2>1, Disjoint DEF Tracked
  <2>3. Cardinality(Served \cup Tally("upstream")) =
          Cardinality(Served) + Cardinality(Tally("upstream"))
    <3>. HIDE DEF Served
    <3>. QED  BY <1>4, <2>1, <2>2, Disjoint DEF Tracked
  <2>4. Cardinality(Served \cup Tally("upstream")) <= Cardinality(Tally("requests"))
    <3>. HIDE DEF Served
    <3>. QED  BY <1>4, <2>1, FS_Subset DEF Tracked
  <2>. HIDE DEF Served
  <2>. QED  BY <1>1, <1>4, <2>2, <2>3, <2>4 DEF NoneTwice, Tracked
<1>6. NoneMissing(stats)
  <2>1. Tally("upstream") \subseteq Open \cup Lost
    BY <1>2 DEF Tally, In, Flying, Lost, Told, PlacedAt, Exchanged, Untold, Stages
  <2>2. /\ IsFiniteSet(Open)
        /\ Cardinality(Open) <= Cardinality(Tally("recorded")) + Cardinality(Tally("inFlight"))
    BY <1>4, UnionBound DEF Tracked
  <2>3. /\ IsFiniteSet(Open \cup Lost)
        /\ Cardinality(Open \cup Lost) <= Cardinality(Open) + Cardinality(Lost)
    <3>. HIDE DEF Open
    <3>. QED  BY <1>4, <2>2, UnionBound
  <2>4. Cardinality(Tally("upstream")) <= Cardinality(Open \cup Lost)
    <3>. HIDE DEF Open
    <3>. QED  BY <2>1, <2>3, FS_Subset
  <2>5. Cardinality(Open) \in Nat /\ Cardinality(Open \cup Lost) \in Nat
    <3>. HIDE DEF Open
    <3>. QED  BY <2>2, <2>3, FS_CardinalityType
  <2>. HIDE DEF Open
  <2>. QED  BY <1>1, <1>4, <2>2, <2>3, <2>4, <2>5 DEF NoneMissing, Tracked
<1>. QED  BY <1>5, <1>6

\* Handlers that go on beside a printed summary only add to the lost.
LEMMA TakenStays ==
  ASSUME Taken, summary' = summary, phase' = phase \/ ~Printed' \/ Printed,
         Lost \subseteq Lost', TypeOK, TypeOK'
  PROVE  Taken'
<1>. SUFFICES ASSUME Printed, Printed'
              PROVE  NoneTwice(summary)' /\ NoneMissing(summary)'
  BY DEF Taken, Printed
<1>1. NoneTwice(summary)'
  BY DEF Taken, NoneTwice
<1>2. Cardinality(Lost) <= Cardinality(Lost') /\ Cardinality(Lost) \in Nat
      /\ Cardinality(Lost') \in Nat
  <2>1. IsFiniteSet(Lost') /\ IsFiniteSet(Lost)
    BY TallyFinite DEF Lost, Told
  <2>. QED  BY <2>1, FS_Subset, FS_CardinalityType
<1>3. \A c \in {"upstream", "recorded", "inFlight"} : summary[c] \in Nat
  BY DEF TypeOK, Counters
<1>4. NoneMissing(summary)
  BY DEF Taken
<1>5. summary'["upstream"] <= summary'["recorded"] + summary'["inFlight"] + Cardinality(Lost')
  BY <1>2, <1>3, <1>4 DEF NoneMissing
<1>. QED  BY <1>1, <1>5 DEF NoneMissing

\* A handler that is over stays over.
LEMMA HandleLosesMore ==
  ASSUME TypeOK, Placed, NEW h \in Handlers, Handle(h)
  PROVE  Lost \subseteq Lost' /\ UNCHANGED <<phase, summary>>
<1>1. Alone(h)
  BY HandleAlone
<1>2. pc[h] # "done" /\ UNCHANGED <<phase, summary>>
  BY DEF Handle, Arrive, Tunnel, TunnelEnds, Backend, Astray, Probe, Admit, OpenCassette,
         ReadBody, Select, Fetch, Written, Route, Forward, Record, CountRecorded, Leave,
         At, Rest, session
<1>. QED  BY <1>1, <1>2 DEF Alone, Lost, Told

-----------------------------------------------------------------------------
\* Nothing has been asked, told or counted when a session starts.
LEMMA InitInv == Init => IInv
<1>. SUFFICES ASSUME Init PROVE IInv
  OBVIOUS
<1>1. TypeOK
  BY DEF Init, TypeOK, Stages, Replies, Zero, Counters
<1>2. Placed /\ Verdicts
  BY DEF Init, Placed, PlacedAt, Verdicts, VerdictAt, NoCall, Untold, Admitted, Flying
<1>3. Settled /\ Taken
  BY DEF Init, Settled, Taken, Printed
<1>4. Accounted
  <2>. SUFFICES ASSUME NEW c \in Tracked PROVE stats[c] = Cardinality(Tally(c))
    BY DEF Accounted
  <2>1. Tally(c) = {}
    BY DEF Init, Tally, In, Tracked, Admitted, Flying, Rejections
  <2>. QED  BY <2>1, FS_EmptySet DEF Init, Zero, Tracked, Counters
<1>. QED  BY <1>1, <1>2, <1>3, <1>4 DEF IInv

\* Every step of a handler, of runServe and of whoever puts a cassette in place
\* keeps the strengthening.
LEMMA NextInv == IInv /\ [Next]_vars => IInv'
<1>. SUFFICES ASSUME IInv, [Next]_vars PROVE IInv'
  OBVIOUS
<1>. USE DEF IInv
<1>1. ASSUME NEW h \in Handlers, Handle(h)
      PROVE  IInv'
  <2>1. TypeOK' /\ Settled' /\ Verdicts'
    BY <1>1, HandleType, HandleSettled, HandleVerdicts
  <2>2. Alone(h) /\ Moves(h) /\ PlacedAt(h)'
    BY <1>1, HandleAlone, HandleMoves
  <2>3. Accounted'
    BY <1>1, <2>2, MovesCount
  <2>4. Placed'
    BY <2>2 DEF Alone, Placed, PlacedAt
  <2>5. Taken'
    BY <1>1, <2>1, HandleLosesMore, TakenStays
  <2>. QED  BY <2>1, <2>3, <2>4, <2>5
<1>2. ASSUME UNCHANGED <<pc, reply, kept, stats>>
      PROVE  Placed' /\ Accounted'
  BY <1>2 DEF Placed, PlacedAt, Accounted, Tally, In
<1>3. ASSUME UNCHANGED <<pc, call, reply, opened>>
      PROVE  Verdicts'
  BY <1>3 DEF Verdicts, VerdictAt
<1>0. ASSUME UNCHANGED <<pc, reply, kept, summary>>, phase' = phase \/ ~Printed' \/ Printed, TypeOK'
      PROVE  Taken'
  <2>1. Lost' = Lost
    BY <1>0 DEF Lost, Told
  <2>. QED  BY <1>0, <2>1, TakenStays
<1>4. CASE \E n \in Names : Appear(n)
  <2>1. UNCHANGED <<offline, session, pc, call, reply, opened, kept, stats>>
    BY <1>4 DEF Appear
  <2>2. stored' \in [Names -> {"absent", "stale", "whole"}]
    BY <1>4 DEF Appear, TypeOK
  <2>3. TypeOK'
    BY <2>1, <2>2 DEF TypeOK, session
  <2>4. Taken'
    BY <1>0, <2>1, <2>3 DEF session
  <2>. QED  BY <1>2, <1>3, <2>1, <2>3, <2>4 DEF Settled, Printed, AllQuiet, Quiet, session
<1>5. CASE Signal \/ Drained \/ TimeOut \/ Summarize \/ Exit \/ SecondSignal \/ ListenerFails
  <2>1. UNCHANGED Handling
    BY <1>5 DEF Signal, Drained, TimeOut, Summarize, Exit, SecondSignal, ListenerFails
  <2>2. TypeOK'
    BY <1>5 DEF Signal, Drained, TimeOut, Summarize, Exit, SecondSignal, ListenerFails,
                TypeOK, Handling, cassettes, Ended
  <2>3. Settled'
    BY <1>5 DEF Signal, Drained, TimeOut, Summarize, Exit, SecondSignal, ListenerFails,
                Settled, Printed, AllQuiet, Quiet, Handling
  <2>4. Taken'
    <3>1. CASE Summarize
      <4>1. summary' = stats /\ Lost' = Lost
        BY <2>1, <3>1 DEF Summarize, Handling, Lost, Told
      <4>2. NoneTwice(stats) /\ NoneMissing(stats)
        BY NeverAtOdds
      <4>. QED  BY <4>1, <4>2 DEF Taken, NoneTwice, NoneMissing
    <3>2. CASE ~Summarize
      <4>1. summary' = summary /\ (~Printed' \/ Printed)
        BY <1>5, <3>2 DEF Signal, Drained, TimeOut, Exit, SecondSignal, ListenerFails, Printed
      <4>. QED  BY <1>0, <2>1, <2>2, <4>1 DEF Handling
    <3>. QED  BY <3>1, <3>2
  <2>. QED  BY <1>2, <1>3, <2>1, <2>2, <2>3, <2>4 DEF Handling, cassettes
<1>6. CASE UNCHANGED vars
  <2>1. TypeOK'
    BY <1>6 DEF vars, session, cassettes, TypeOK
  <2>2. Taken'
    BY <1>0, <1>6, <2>1 DEF vars, session
  <2>. QED
    BY <1>2, <1>3, <1>6, <2>1, <2>2 DEF vars, session, cassettes, Settled, Printed, AllQuiet, Quiet
<1>. QED  BY <1>1, <1>4, <1>5, <1>6 DEF Next

\* The strengthening holds of every session.
THEOREM Invariant == Spec => []IInv
BY InitInv, NextInv, PTL DEF Spec

\* Types are kept: no counter goes below zero, however the handlers interleave.
THEOREM TypeCorrect == Spec => []TypeOK
<1>1. IInv => TypeOK
  BY DEF IInv
<1>. QED  BY <1>1, Invariant, PTL

\* The lines of the summary are never at odds, for any number of requests of any
\* kind, in any order of their steps and though the drain was given up; and once
\* everything was waited for they add up, but for the two kinds of requests that
\* SummaryAddsUp names (Snapshot, summarize).
THEOREM SummariesAddUp == Spec => []SummaryAddsUp
<1>1. IInv => SummaryAddsUp
  <2>. SUFFICES ASSUME IInv, Printed, ~timedOut
                PROVE  /\ summary["requests"] = summary["replayed"] + summary["recorded"]
                            + summary["rejected"] + Cardinality(Lost)
                            + Cardinality(Told({"unreadable_body"}))
                       /\ summary["upstream"] = summary["recorded"] + Cardinality(Lost)
                       /\ summary["inFlight"] = 0
    BY DEF SummaryAddsUp, IInv, Taken
  <2>1. AllQuiet /\ summary = stats
    BY DEF IInv, Settled, Printed
  <2>2. \A c \in Tracked : summary[c] = Cardinality(Tally(c))
    BY <2>1 DEF IInv, Accounted
  <2>3. \A h \in Handlers : PlacedAt(h) /\ pc[h] \in {"idle", "tunnelling", "done"}
                             /\ reply[h] \in Replies
    BY <2>1 DEF IInv, Placed, AllQuiet, Quiet, TypeOK
  <2>4. Tally("inFlight") = {}
    BY <2>3 DEF Tally, In, Flying
  <2>5. /\ Tally("upstream") = Tally("recorded") \cup Lost
        /\ Tally("recorded") \cap Lost = {}
    BY <2>3 DEF Tally, In, Flying, Lost, Told, PlacedAt, Exchanged, Untold, IInv, TypeOK
  <2>. DEFINE Unread == Told({"unreadable_body"})
              Kept == Tally("recorded") \cup Lost
              Answered == Tally("replayed") \cup Tally("rejected")
  <2>6. /\ Tally("requests") = (Answered \cup Unread) \cup Kept
        /\ (Answered \cup Unread) \cap Kept = {}
        /\ Answered \cap Unread = {}
        /\ Tally("replayed") \cap Tally("rejected") = {}
    BY <2>3 DEF Tally, In, Flying, Admitted, Lost, Told, PlacedAt, Exchanged, Rejections,
                Untold, IInv, TypeOK
  <2>7. /\ Lost \subseteq Handlers /\ Unread \subseteq Handlers
        /\ \A c \in Tracked : Tally(c) \subseteq Handlers
    BY DEF Lost, Told, Tally
  <2>8. /\ IsFiniteSet(Lost) /\ IsFiniteSet(Unread) /\ IsFiniteSet(Tally("recorded"))
        /\ IsFiniteSet(Tally("replayed")) /\ IsFiniteSet(Tally("rejected"))
    BY <2>7, TallyFinite DEF Tracked
  <2>9. /\ Cardinality(Kept) = Cardinality(Tally("recorded")) + Cardinality(Lost)
        /\ IsFiniteSet(Kept)
    BY <2>5, <2>8, Disjoint
  <2>10. /\ Cardinality(Answered) = Cardinality(Tally("replayed")) + Cardinality(Tally("rejected"))
         /\ IsFiniteSet(Answered)
    BY <2>6, <2>8, Disjoint
  <2>11. /\ Cardinality(Answered \cup Unread) = Cardinality(Answered) + Cardinality(Unread)
         /\ IsFiniteSet(Answered \cup Unread)
    <3>. HIDE DEF Answered, Unread
    <3>. QED  BY <2>6, <2>8, <2>10, Disjoint
  <2>12. Cardinality(Tally("requests")) = Cardinality(Answered \cup Unread) + Cardinality(Kept)
    <3>. HIDE DEF Answered, Unread, Kept
    <3>. QED  BY <2>6, <2>9, <2>11, Disjoint
  <2>13. /\ Cardinality(Tally("recorded")) \in Nat /\ Cardinality(Lost) \in Nat
         /\ Cardinality(Tally("replayed")) \in Nat /\ Cardinality(Tally("rejected")) \in Nat
         /\ Cardinality(Unread) \in Nat
    BY <2>8, FS_CardinalityType
  <2>14. summary["requests"] = summary["replayed"] + summary["recorded"] + summary["rejected"]
                               + Cardinality(Lost) + Cardinality(Unread)
    <3>1. /\ summary["requests"] = Cardinality(Tally("requests"))
          /\ summary["replayed"] = Cardinality(Tally("replayed"))
          /\ summary["recorded"] = Cardinality(Tally("recorded"))
          /\ summary["rejected"] = Cardinality(Tally("rejected"))
      BY <2>2 DEF Tracked
    <3>. HIDE DEF Answered, Unread, Kept
    <3>. QED  BY <3>1, <2>9, <2>10, <2>11, <2>12, <2>13
  <2>15. /\ summary["upstream"] = summary["recorded"] + Cardinality(Lost)
         /\ summary["inFlight"] = 0
    BY <2>2, <2>4, <2>5, <2>9, FS_EmptySet DEF Tracked
  <2>. QED  BY <2>14, <2>15
<1>. QED  BY <1>1, Invariant, PTL

\* A replay session that was waited for exits 4 exactly when a request was missed
\* (SPEC R33).
THEOREM MissesDecideTheExit == Spec => []MissesFailTheBuild
<1>1. IInv => MissesFailTheBuild
  <2>. SUFFICES ASSUME IInv, Printed, ~timedOut
                PROVE  exit = 4 <=> offline /\ Told({"cassette_miss"}) # {}
    BY DEF MissesFailTheBuild
  <2>1. Tally("misses") = Told({"cassette_miss"}) /\ "misses" \in Tracked
    BY DEF Tally, In, Told, Tracked
  <2>2. stats["misses"] = Cardinality(Told({"cassette_miss"}))
    BY <2>1 DEF IInv, Accounted
  <2>3. stats["misses"] > 0 <=> Told({"cassette_miss"}) # {}
    BY <2>2, TallyFinite, FS_EmptySet DEF Told
  <2>. QED  BY <2>3 DEF IInv, Settled
<1>. QED  BY <1>1, Invariant, PTL

\* A cassette opens for every request of a session or for none (storeFor).
THEOREM OneVerdictEach == Spec => []OneVerdict
<1>1. IInv => OneVerdict
  BY DEF IInv, Verdicts, VerdictAt, OneVerdict, Using, Naming, Told, Admitted, Flying
<1>. QED  BY <1>1, Invariant, PTL
=============================================================================
