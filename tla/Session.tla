------------------------------ MODULE Session ------------------------------
(***************************************************************************)
(* A record or replay session: runServe of internal/cli and ServeHTTP of   *)
(* internal/proxy, from the first request to the summary.                  *)
(*                                                                         *)
(* Each request is a handler of its own.  Between two of its steps others  *)
(* run: it holds a lock only to look a cassette up, to select a step, to   *)
(* append one, and to count.  Which step is selected is in ReplayStore,    *)
(* what an append does in CassetteDir; here they succeed or do not.        *)
(*                                                                         *)
(* An operator marked "slip" is the definition below it with a plausible   *)
(* mistake; no specification uses it.                                      *)
(***************************************************************************)
EXTENDS Naturals, FiniteSets

CONSTANTS
  Handlers,       \* the requests of the session, each with its handler
  Names,          \* cassettes
  Calls           \* the requests considered: see CallType

\* What a request is by its method and path; the cassette it names; whether the
\* provider it names is configured (of a tunnel, whether the host is refused);
\* whether its body can be read.
CallType == [route : {"tunnel", "backend", "astray", "probe", "call"},
             cassette : Names, known : BOOLEAN, readable : BOOLEAN]

ASSUME CallsAssumption ==
  /\ IsFiniteSet(Handlers) /\ Calls \subseteq CallType

VARIABLES
  offline,   \* replay, or record
  phase,     \* of runServe; "failed" and "killed" end it without a summary
  timedOut,  \* the drain was given up
  pc,        \* pc[h]: what the handler is to do next
  call,      \* call[h]: its request
  reply,     \* reply[h]: what the client was told, an error type where it is one
  opened,    \* opened[n]: Server.stores and Server.failed
  stored,    \* stored[n]: the directory: "absent", "stale" or "whole"
  kept,      \* the exchanges appended to a cassette
  stats,     \* Server.stats
  summary,   \* the Snapshot printed
  exit       \* the exit status

session == <<phase, timedOut, summary, exit>>
cassettes == <<opened, stored>>
vars == <<offline, session, pc, call, reply, cassettes, kept, stats>>

Counters == {"requests", "unknown", "upstream", "replayed", "recorded", "misses",
             "rejected", "probes", "inFlight", "tunnels", "backend"}

Ended == {"over", "failed", "killed"}
Alive == phase \notin Ended

At(h, stage) == Alive /\ pc[h] = stage
Go(h, stage) == pc' = [pc EXCEPT ![h] = stage]
Tell(h, what) == reply' = [reply EXCEPT ![h] = what]
Finish(h, what) == Go(h, "done") /\ Tell(h, what)
Count(C) == stats' = [c \in Counters |-> IF c \in C THEN stats[c] + 1 ELSE stats[c]]

\* What no step of a handler but the ones that say so changes.
Rest == <<offline, session, call>>

-----------------------------------------------------------------------------
(* A request, as far as its cassette.                                      *)

\* While connections are accepted, and on those accepted before.
Arrive(h) ==
  /\ phase \in {"serving", "draining"} /\ pc[h] = "idle"
  /\ \E c \in Calls : call' = [call EXCEPT ![h] = c]
  /\ Go(h, "started")
  /\ UNCHANGED <<offline, session, reply, cassettes, kept, stats>>

\* serveConnect: refused, or connected and from then on the tunnel's own; or the
\* host was not reached, or the connection could not be taken over.
Unconnected == {"tunnel_failed", "tunnel_unsupported", "hijack_failed"}
Tunnel(h) ==
  /\ At(h, "started") /\ call[h].route = "tunnel"
  /\ IF call[h].known
     THEN Count({"tunnels"}) /\ Finish(h, "tunnel_blocked")
     ELSE \/ Count({"tunnels"}) /\ Go(h, "tunnelling") /\ UNCHANGED reply
          \/ (\E what \in Unconnected : Finish(h, what)) /\ UNCHANGED stats
  /\ UNCHANGED <<Rest, cassettes, kept>>

TunnelEnds(h) ==
  /\ At(h, "tunnelling") /\ Finish(h, "tunnelled")
  /\ UNCHANGED <<Rest, cassettes, kept, stats>>

\* serveBackend answers or refuses.
Backend(h) ==
  /\ At(h, "started") /\ call[h].route = "backend"
  /\ Count({"backend"}) /\ Finish(h, "backend")
  /\ UNCHANGED <<Rest, cassettes, kept>>

\* RoutePrefix fails.
Astray(h) ==
  /\ At(h, "started") /\ call[h].route = "astray"
  /\ Count({"requests", "unknown", "rejected"}) /\ Finish(h, "no_prefix")
  /\ UNCHANGED <<Rest, cassettes, kept>>

\* Slip: a cassette that would not open is tried again.
VerdictAfresh(n) ==
  CASE opened[n] = "open" -> "open"
    [] stored[n] = "whole" \/ (stored[n] = "absent" /\ ~offline) -> "open"
    [] OTHER -> "refused"

\* storeFor: the answer given before; else whether the cassette opens.  record
\* creates what is not there.
Verdict(n) ==
  IF opened[n] # "unasked" THEN opened[n]
  ELSE IF stored[n] = "whole" \/ (stored[n] = "absent" /\ ~offline) THEN "open" ELSE "refused"

StoreFor(n) ==
  /\ opened' = [opened EXCEPT ![n] = Verdict(n)]
  /\ stored' = [stored EXCEPT ![n] = IF Verdict(n) = "open" THEN "whole" ELSE @]

\* answersProbe, serveProbe.  replay opens the cassette to find out; record
\* asks for the provider alone.
Probe(h) ==
  /\ At(h, "started") /\ call[h].route = "probe"
  /\ IF offline THEN StoreFor(call[h].cassette) ELSE UNCHANGED cassettes
  /\ IF IF offline THEN Verdict(call[h].cassette) = "open" ELSE call[h].known
     THEN Count({"probes"}) /\ Finish(h, "probed")
     ELSE Go(h, "unanswered") /\ UNCHANGED <<reply, stats>>
  /\ UNCHANGED <<Rest, kept>>

\* A request like any other, or a probe that is refused like any other.
Admit(h) ==
  /\ At(h, "unanswered") \/ (At(h, "started") /\ call[h].route = "call")
  /\ Count({"requests"}) /\ Go(h, "opening")
  /\ UNCHANGED <<Rest, reply, cassettes, kept>>

OpenCassette(h) ==
  /\ At(h, "opening")
  /\ StoreFor(call[h].cassette)
  /\ IF Verdict(call[h].cassette) = "open"
     THEN Go(h, "reading") /\ UNCHANGED <<reply, stats>>
     ELSE Count({"unknown", "rejected"}) /\ Finish(h, "no_cassette")
  /\ UNCHANGED <<Rest, kept>>

\* The one refusal that is not counted.
ReadBody(h) ==
  /\ At(h, "reading")
  /\ IF call[h].readable
     THEN Go(h, IF offline THEN "selecting" ELSE "routing") /\ UNCHANGED reply
     ELSE Finish(h, "unreadable_body")
  /\ UNCHANGED <<Rest, cassettes, kept, stats>>

-----------------------------------------------------------------------------
(* Replay.                                                                 *)

\* Slip: the miss counted as a refusal and no more.
SelectRefusing(h) ==
  /\ At(h, "selecting")
  /\ \/ Go(h, "fetching") /\ UNCHANGED <<reply, stats>>
     \/ Count({"rejected"}) /\ Finish(h, "cassette_miss")
  /\ UNCHANGED <<Rest, cassettes, kept>>

\* Store.Next finds a step, or misses.
Select(h) ==
  /\ At(h, "selecting")
  /\ \/ Go(h, "fetching") /\ UNCHANGED <<reply, stats>>
     \/ Count({"rejected", "misses"}) /\ Finish(h, "cassette_miss")
  /\ UNCHANGED <<Rest, cassettes, kept>>

\* serveFromCassette: the response file is read, or is not there.
Fetch(h) ==
  /\ At(h, "fetching")
  /\ \/ Count({"replayed"}) /\ Go(h, "writing") /\ Tell(h, "replayed")
     \/ Count({"rejected"}) /\ Finish(h, "cassette_corrupt")
  /\ UNCHANGED <<Rest, cassettes, kept>>

\* The client has read the answer.
Written(h) ==
  /\ At(h, "writing") /\ Go(h, "done")
  /\ UNCHANGED <<Rest, reply, cassettes, kept, stats>>

-----------------------------------------------------------------------------
(* Record.                                                                 *)

\* Slip: in flight only once the provider has been reached.
RouteUncounted(h) ==
  /\ At(h, "routing")
  /\ IF call[h].known
     THEN Count({"upstream"}) /\ Go(h, "flying") /\ UNCHANGED reply
     ELSE Count({"rejected"}) /\ Finish(h, "unknown_provider")
  /\ UNCHANGED <<Rest, cassettes, kept>>

\* The provider is one that is configured, and the request is sent.
Route(h) ==
  /\ At(h, "routing")
  /\ IF call[h].known
     THEN Count({"upstream", "inFlight"}) /\ Go(h, "flying") /\ UNCHANGED reply
     ELSE Count({"rejected"}) /\ Finish(h, "unknown_provider")
  /\ UNCHANGED <<Rest, cassettes, kept>>

\* forward: the provider's answer, whole or not, has gone to the client; or
\* cs-vcr's own error has; or the client had left before there was any.
Forward(h) ==
  /\ At(h, "flying") /\ Go(h, "storing")
  /\ \E what \in {"answered", "upstream_error", "left"} : Tell(h, what)
  /\ UNCHANGED <<Rest, cassettes, kept, stats>>

\* record, deferred: not what reached nobody; and a failed write is logged.
Record(h) ==
  /\ At(h, "storing")
  /\ \/ reply[h] # "left" /\ kept' = kept \cup {h} /\ Go(h, "counting")
     \/ Go(h, "leaving") /\ UNCHANGED kept
  /\ UNCHANGED <<Rest, reply, cassettes, stats>>

CountRecorded(h) ==
  /\ At(h, "counting") /\ Count({"recorded"}) /\ Go(h, "leaving")
  /\ UNCHANGED <<Rest, reply, cassettes, kept>>

\* ServeHTTP's own deferred call, after forward's.
Leave(h) ==
  /\ At(h, "leaving") /\ Go(h, "done")
  /\ stats' = [stats EXCEPT !["inFlight"] = @ - 1]
  /\ UNCHANGED <<Rest, reply, cassettes, kept>>

-----------------------------------------------------------------------------
(* The session.                                                            *)

Handling == <<offline, pc, call, reply, cassettes, kept, stats>>

\* Slip: no connection whose client has its answer is waited for.
QuietOnceTold(h) == pc[h] \in {"idle", "tunnelling", "done"} \/ reply[h] # "none"

\* A connection Shutdown does not wait for; one taken over for a tunnel is none.
Quiet(h) == pc[h] \in {"idle", "tunnelling", "done"}
AllQuiet == \A h \in Handlers : Quiet(h)

Signal == /\ phase = "serving" /\ phase' = "draining"
          /\ UNCHANGED <<timedOut, summary, exit, Handling>>

Drained == /\ phase = "draining" /\ AllQuiet /\ phase' = "drained"
           /\ UNCHANGED <<timedOut, summary, exit, Handling>>

\* Slip: a drain without a deadline.
TimeOutNever == FALSE /\ UNCHANGED vars

\* drainTimeout is over.  The handlers that are left go on.
TimeOut == /\ phase = "draining" /\ ~AllQuiet /\ phase' = "drained"
           /\ timedOut' = TRUE
           /\ UNCHANGED <<summary, exit, Handling>>

\* Snapshot and summarize, once the admin listener is closed too.
Summarize == /\ phase = "drained" /\ phase' = "summarized"
             /\ summary' = stats
             /\ exit' = IF offline /\ stats["misses"] > 0 THEN 4 ELSE 0
             /\ UNCHANGED <<timedOut, Handling>>

Exit == /\ phase = "summarized" /\ phase' = "over"
        /\ UNCHANGED <<timedOut, summary, exit, Handling>>

\* A second signal is not caught.
SecondSignal == /\ phase \in {"draining", "drained", "summarized"}
                /\ phase' = "killed"
                /\ UNCHANGED <<timedOut, summary, exit, Handling>>

\* Serve returns an error, and so does runServe.
ListenerFails == /\ phase = "serving" /\ phase' = "failed" /\ exit' = 1
                 /\ UNCHANGED <<timedOut, summary, Handling>>

\* Somebody puts a cassette into the store of a replay session.
Appear(n) == /\ Alive /\ offline /\ stored[n] = "absent"
             /\ stored' = [stored EXCEPT ![n] = "whole"]
             /\ UNCHANGED <<offline, session, pc, call, reply, opened, kept, stats>>

-----------------------------------------------------------------------------
NoCall == [route |-> "none"]
Zero == [c \in Counters |-> 0]

Init == /\ offline \in BOOLEAN
        /\ phase = "serving" /\ timedOut = FALSE
        /\ summary = Zero /\ exit = 0
        /\ pc = [h \in Handlers |-> "idle"] /\ call = [h \in Handlers |-> NoCall]
        /\ reply = [h \in Handlers |-> "none"]
        /\ opened = [n \in Names |-> "unasked"]
        /\ stored \in [Names -> {"absent", "stale", "whole"}]
        /\ kept = {} /\ stats = Zero

Handle(h) == \/ Arrive(h)
             \/ Tunnel(h) \/ TunnelEnds(h) \/ Backend(h) \/ Astray(h) \/ Probe(h)
             \/ Admit(h) \/ OpenCassette(h) \/ ReadBody(h)
             \/ Select(h) \/ Fetch(h) \/ Written(h)
             \/ Route(h) \/ Forward(h) \/ Record(h) \/ CountRecorded(h) \/ Leave(h)

Next == \/ \E h \in Handlers : Handle(h)
        \/ \E n \in Names : Appear(n)
        \/ Signal \/ Drained \/ TimeOut \/ Summarize \/ Exit
        \/ SecondSignal \/ ListenerFails

\* runServe goes on; of the handlers nothing is assumed.
Spec == Init /\ [][Next]_vars /\ WF_vars(Drained \/ TimeOut \/ Summarize \/ Exit)

-----------------------------------------------------------------------------
(* Properties.                                                             *)

Stages == {"idle", "started", "tunnelling", "unanswered", "opening", "reading",
           "selecting", "fetching", "writing", "routing", "flying", "storing",
           "counting", "leaving", "done"}
Own == {"no_prefix", "no_cassette", "unreadable_body", "unknown_provider",
        "cassette_miss", "cassette_corrupt", "upstream_error"}
Replies == Own \cup Unconnected \cup
           {"none", "probed", "backend", "tunnel_blocked", "tunnelled", "replayed",
            "answered", "left"}
Told(S) == {h \in Handlers : reply[h] \in S}

TypeOK ==
  /\ offline \in BOOLEAN /\ timedOut \in BOOLEAN /\ exit \in {0, 1, 4}
  /\ phase \in {"serving", "draining", "drained", "summarized"} \cup Ended
  /\ pc \in [Handlers -> Stages] /\ reply \in [Handlers -> Replies]
  /\ call \in [Handlers -> Calls \cup {NoCall}]
  /\ opened \in [Names -> {"unasked", "open", "refused"}]
  /\ stored \in [Names -> {"absent", "stale", "whole"}]
  /\ kept \subseteq Handlers
  /\ stats \in [Counters -> Nat] /\ summary \in [Counters -> Nat]

\* What the summary's counters say of each other. Whenever it is printed, beside
\* handlers that go on after a drain that was given up too, no request is in two
\* of replayed, rejected and upstream, and no exchange sent upstream is in none of
\* recorded and inFlight, unless it is over and was not kept. Once everything was
\* waited for nothing is in flight, and the counters make up the requests but for
\* two kinds that no counter has: unreadable bodies, which ReadBody refuses and
\* does not count as rejected, and exchanges that were not kept, upstream errors
\* among them. (The manual has `rejected` be the total of all refusals: README, 6.)
Lost == {h \in Told({"answered", "upstream_error", "left"}) : pc[h] = "done" /\ h \notin kept}
Printed == phase \in {"summarized", "over"}
NoneTwice(s) == s["replayed"] + s["rejected"] + s["upstream"] <= s["requests"]
NoneMissing(s) == s["upstream"] <= s["recorded"] + s["inFlight"] + Cardinality(Lost)
SummaryAddsUp ==
  Printed =>
    /\ NoneTwice(summary) /\ NoneMissing(summary)
    /\ ~timedOut =>
         /\ summary["requests"] = summary["replayed"] + summary["recorded"] + summary["rejected"]
                                  + Cardinality(Lost) + Cardinality(Told({"unreadable_body"}))
         /\ summary["upstream"] = summary["recorded"] + Cardinality(Lost)
         /\ summary["inFlight"] = 0

\* SPEC R33: a replay session in which a request was missed exits 4, and no
\* other does, once everything was waited for.
MissesFailTheBuild ==
  Printed /\ ~timedOut => (exit = 4 <=> offline /\ Told({"cassette_miss"}) # {})

\* storeFor: within a session a cassette opens for everyone who names it or is
\* refused to everyone, whatever happens to its directory meanwhile.
Naming(n) == {h \in Handlers : call[h].route \in {"probe", "call"} /\ call[h].cassette = n}
Using(n) == {h \in Naming(n) :
              \/ pc[h] \in {"reading", "selecting", "fetching", "routing", "flying"}
              \/ reply[h] \notin {"none", "probed", "no_cassette"}}
OneVerdict == \A n \in Names : Using(n) = {} \/ Naming(n) \cap Told({"no_cassette"}) = {}

\* A session told to stop stops, though its clients and providers do not.
Stops == phase = "draining" ~> phase \in Ended

=============================================================================
