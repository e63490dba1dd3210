----------------------------- MODULE RoundTrip -----------------------------
(***************************************************************************)
(* A session recorded by one run of a program and replayed by the next:    *)
(* forward and record of internal/proxy/proxy.go, Store.Append, and        *)
(* Store.Next.                                                             *)
(*                                                                         *)
(* The program is an agent of several threads, each making its requests    *)
(* one after the other.  A step is recorded when the handler of its        *)
(* request ends, which is after the client has read the answer, so the     *)
(* steps of different threads, and even of one, land in any order.  Not    *)
(* every exchange becomes a step: record may keep nothing, and the session *)
(* may be stopped, or given up, before all is recorded.  On replay the     *)
(* threads ask again, at a pace of their own.                              *)
(*                                                                         *)
(* A thread that is refused stops: a miss answers 400, which an agent does *)
(* not retry.  A thread may ask for an answer again that it had.  Every     *)
(* request of the agent is for a provider that is configured.              *)
(*                                                                         *)
(* An operator marked "slip" is the definition below it with a plausible   *)
(* mistake; no specification uses it.                                      *)
(***************************************************************************)
EXTENDS Store

CONSTANTS
  Threads,   \* of the agent
  Programs,  \* the programs considered, each in [Threads -> Seq(Requests)]
  Retries,   \* how often a replayed answer may be asked for again, in all
  Windows    \* the values of `lookahead` considered

ASSUME ProgramsAssumption ==
  /\ Programs \subseteq [Threads -> Seq(Requests)]
  /\ Retries \in Nat
  /\ Windows \subseteq Int

VARIABLES
  program,   \* the program the agent runs
  phase,     \* "recording" or "replaying"
  sent,      \* sent[t]: the requests the thread has sent in this phase
  flying,    \* the exchanges <<t, i>> the provider has still to answer
  ending,    \* those over whose handler has still to record them
  lost,      \* history: the exchanges of the program that left no step
  recordOf,  \* history: the exchange each step of the script records
  got,       \* history: got[t][i], the step that answered the thread's i-th
  refused,   \* the threads that were answered with a miss
  retried    \* the answers asked for again

agentVars == <<program, phase, sent, flying, ending, lost, recordOf, got, refused, retried>>
cassetteVars == <<script, lookahead, storeVars>>
vars == <<agentVars, cassetteVars>>

RequestOf(e) == program[e[1]][e[2]]

-----------------------------------------------------------------------------
(* Recording.                                                              *)

\* The thread has the answer to its last request, and a request to make.
Ready(t) == /\ sent[t] < Len(program[t])
            /\ \A e \in flying : e[1] # t

Send(t) ==
  /\ phase = "recording" /\ Ready(t)
  /\ sent' = [sent EXCEPT ![t] = @ + 1]
  /\ flying' = flying \cup {<<t, sent[t] + 1>>}
  /\ UNCHANGED <<program, phase, ending, lost, recordOf, got, refused, retried, cassetteVars>>

\* The client has read all it wants of the answer, or gave up waiting for one,
\* and goes on.
Answer(e) ==
  /\ e \in flying
  /\ flying' = flying \ {e} /\ ending' = ending \cup {e}
  /\ UNCHANGED <<program, phase, sent, lost, recordOf, got, refused, retried, cassetteVars>>

\* Where Append leaves the cursor: past the step it adds.
CursorPastEnd == Len(script) + 2

\* The deferred record, at the end of the handler: Store.Append.
Record(e) ==
  /\ e \in ending
  /\ ending' = ending \ {e}
  /\ recordOf' = Append(recordOf, e)
  /\ script' = Append(script, RequestOf(e))
  /\ served' = served \cup {Len(script) + 1}
  /\ cursor' = CursorPastEnd /\ last' = Len(script) + 1
  /\ UNCHANGED <<program, phase, sent, flying, lost, got, refused, retried,
                 lookahead, reply, order>>

\* record keeps nothing: no status was ever written; or cs-vcr's own error went
\* to a client that had left; or Append failed.
KeepNothing(e) ==
  /\ e \in ending
  /\ ending' = ending \ {e} /\ lost' = lost \cup {e}
  /\ UNCHANGED <<program, phase, sent, flying, recordOf, got, refused, retried, cassetteVars>>

-----------------------------------------------------------------------------
(* Replaying.                                                              *)

\* Slip: the handlers that have answered are not waited for.
DrainedOfAnswers == flying = {}

\* The session waits for the handlers in flight, their records included.
Drained == flying = {} /\ ending = {}

\* A new session opens the cassette as it was left.
Reopened ==
  /\ phase = "recording" /\ phase' = "replaying"
  /\ sent' = [t \in Threads |-> 0] /\ flying' = {} /\ ending' = {}
  /\ served' = {} /\ cursor' = 1 /\ last' = 0
  /\ reply' = NoReply /\ order' = <<>>
  /\ UNCHANGED <<program, recordOf, got, refused, retried, script, lookahead>>

\* The requests the agent never came to make, the session being over.
Unsent == UNION {{<<t, i>> : i \in (sent[t] + 1) .. Len(program[t])} : t \in Threads}

\* The recording session was stopped, and has drained.
Reopen ==
  /\ Drained
  /\ Reopened
  /\ lost' = lost \cup Unsent

\* The drain took too long, or a second signal came: the process is gone, and
\* with it what was in flight.
GiveUp ==
  /\ ~Drained
  /\ Reopened
  /\ lost' = lost \cup Unsent \cup flying \cup ending

\* Slip: a miss answered with a status the client retries.
TurnAway(t) == UNCHANGED refused

\* reportMiss: 400, which ends the thread.
Refuse(t) == refused' = refused \cup {t}

Ask(t) ==
  /\ phase = "replaying" /\ Ready(t) /\ t \notin refused
  /\ LET r == RequestOf(<<t, sent[t] + 1>>)
     IN Serve(r)
  /\ IF reply'.kind = "miss"
     THEN Refuse(t) /\ UNCHANGED <<sent, got>>
     ELSE /\ sent' = [sent EXCEPT ![t] = @ + 1]
          /\ got' = [got EXCEPT ![t] = Append(@, reply'.step)]
          /\ UNCHANGED refused
  /\ UNCHANGED <<program, phase, flying, ending, lost, recordOf, retried, script, lookahead>>

\* The answer to the thread's last request is lost, and it asks again.
Retry(t) ==
  /\ phase = "replaying" /\ sent[t] > 0 /\ t \notin refused
  /\ retried < Retries /\ retried' = retried + 1
  /\ Serve(RequestOf(<<t, sent[t]>>))
  /\ IF reply'.kind = "miss"
     THEN Refuse(t) /\ UNCHANGED got
     ELSE got' = [got EXCEPT ![t][sent[t]] = reply'.step] /\ UNCHANGED refused
  /\ UNCHANGED <<program, phase, sent, flying, ending, lost, recordOf, script, lookahead>>

-----------------------------------------------------------------------------
Init == /\ program \in Programs
        /\ phase = "recording"
        /\ sent = [t \in Threads |-> 0]
        /\ flying = {} /\ ending = {} /\ lost = {} /\ recordOf = <<>>
        /\ got = [t \in Threads |-> <<>>]
        /\ refused = {} /\ retried = 0
        /\ script = <<>> /\ lookahead \in Windows
        /\ served = {} /\ cursor = 1 /\ last = 0
        /\ reply = NoReply /\ order = <<>>

Next == \/ \E t \in Threads : Send(t) \/ Ask(t) \/ Retry(t)
        \/ \E e \in flying : Answer(e)
        \/ \E e \in ending : Record(e) \/ KeepNothing(e)
        \/ Reopen \/ GiveUp

Spec == Init /\ [][Next]_vars

\* A thread with a request to make makes it, the provider answers, a handler
\* ends, and the recording session is stopped and replayed.
FairSpec ==
  /\ Spec
  /\ \A t \in Threads : /\ WF_vars(Send(t)) /\ WF_vars(Ask(t))
                        /\ WF_vars(\E e \in flying : e[1] = t /\ Answer(e))
                        /\ WF_vars(\E e \in ending : e[1] = t /\ (Record(e) \/ KeepNothing(e)))
  /\ WF_vars(Reopen)

-----------------------------------------------------------------------------
(* Properties.                                                             *)

Replaying == phase = "replaying"
StepOf(e) == CHOOSE p \in DOMAIN recordOf : recordOf[p] = e
Before(e) == IF e[2] = 1 THEN 0 ELSE StepOf(<<e[1], e[2] - 1>>)

\* Between two steps of one thread no more steps of others were recorded than
\* the window is wide: how the recording must have gone for replay to follow.
GapsFit == \A p \in DOMAIN recordOf : p - Before(recordOf[p]) - 1 <= lookahead

\* No two threads make the same request; no two requests are the same at all;
\* the steps of a request made again are in the order it was made in; and no
\* body fails to parse.
Apart == \A p, q \in DOMAIN script :
           script[p] = script[q] => recordOf[p][1] = recordOf[q][1]
Distinct == \A p, q \in DOMAIN script : script[p] = script[q] => p = q
InTurn == \A p, q \in DOMAIN script :
            (p < q /\ script[p] = script[q]) => recordOf[p][2] < recordOf[q][2]
Parsable == \A p \in DOMAIN script : script[p] \notin Unparsable

TypeOK ==
  /\ program \in Programs /\ phase \in {"recording", "replaying"}
  /\ \A t \in Threads : /\ sent[t] \in 0 .. Len(program[t])
                        /\ Len(got[t]) <= Len(program[t])
  /\ Len(recordOf) = Len(script)
  /\ refused \subseteq Threads /\ retried \in 0 .. Retries
  /\ StoreTypeOK

\* Of each exchange of the program there is one step, whatever order the handlers
\* end in, and none only of one that left none by a way of its own: record kept
\* nothing of it, the session was stopped before it was made, or given up before
\* it was recorded.  A session that drains loses no other.
RecordedOnce ==
  Replaying => \A t \in Threads : \A i \in 1 .. Len(program[t]) :
    Cardinality({p \in DOMAIN recordOf : recordOf[p] = <<t, i>>}) =
      IF <<t, i>> \in lost THEN 0 ELSE 1

\* A complete recording, of which each exchange became a step, whose gaps fit in
\* the window, of threads that make no request in common and whose polls were
\* recorded in turn, replays without a miss: at any pace of the threads, whatever
\* order the other steps were recorded in, and with answers asked for again. Of
\* other recordings nothing is said: what is not there must be missed, and a gap
\* wider than the window may be answered by an older identical step instead.
Complete == lost = {}
Followable == Replaying /\ Complete /\ GapsFit /\ Apart /\ InTurn /\ Parsable
NoMissWhenGapsFit == Followable => refused = {}

\* And in the replay of such a recording each request is answered by the step that
\* records it, provided that it was made once or that no answer was asked for again: an agent that polls sees
\* the answers in the order it saw them.
OwnAnswers ==
  Followable /\ (Distinct \/ retried = 0) =>
    \A t \in Threads : \A i \in DOMAIN got[t] : recordOf[got[t][i]] = <<t, i>>

\* The inductive invariant of the proofs, in parts.  What was recorded, lost,
\* answered and is under way are the exchanges made, each once.
Recorded == {recordOf[p] : p \in DOMAIN recordOf}
Made(t) == IF Replaying THEN Len(program[t]) ELSE sent[t]
Accounted == flying \cup ending \cup lost \cup Recorded
Ledger ==
  /\ \A t \in Threads : \A i \in 1 .. Made(t) : <<t, i>> \in Accounted
  /\ \A e \in Accounted : e \in Threads \X Nat /\ e[2] \in 1 .. Made(e[1])
  /\ flying \cap ending = {} /\ (flying \cup ending) \cap (lost \cup Recorded) = {}
  /\ lost \cap Recorded = {}
  /\ \A p, q \in DOMAIN recordOf : recordOf[p] = recordOf[q] => p = q
  /\ \A p \in DOMAIN script : script[p] = RequestOf(recordOf[p])

\* A store being appended to has every step behind it; one that replays keeps
\* the invariant of the store, and one answer for each request of a thread.
AtTheEnd ==
  /\ refused = {} /\ retried = 0 /\ got = [t \in Threads |-> <<>>]
  /\ served = Steps /\ cursor = Len(script) + 1 /\ last = Len(script)
  /\ reply = NoReply /\ order = <<>>
Rewound ==
  /\ flying = {} /\ ending = {}
  /\ StoreInv /\ \A t \in Threads : Len(got[t]) = sent[t]

\* The steps a thread has asked for have been served, if not to it; and no
\* others, as long as nothing was asked for again.
Keeping ==
  /\ \A p \in Steps : recordOf[p][2] <= sent[recordOf[p][1]] => p \in served
  /\ retried = 0 => \A p \in served : recordOf[p][2] <= sent[recordOf[p][1]]

IInv ==
  /\ TypeOK /\ Ledger
  /\ sent \in [Threads -> Nat] /\ got \in [Threads -> Seq(Nat)]
  /\ recordOf \in Seq(Threads \X Nat)
  /\ IF Replaying THEN Rewound ELSE AtTheEnd
  /\ Followable => Keeping
  /\ NoMissWhenGapsFit /\ OwnAnswers

Finished(t) == sent[t] = Len(program[t])

\* Every thread gets to its end or is refused: no step is waited for.
Ends == <>(Replaying /\ \A t \in Threads : Finished(t) \/ t \in refused)

\* And in the replay of a complete recording with gaps that fit, to its end.
Replays == Followable ~> (\A t \in Threads : Finished(t))

=============================================================================
