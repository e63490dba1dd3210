------------------------------ MODULE Forward ------------------------------
(***************************************************************************)
(* One exchange of a recording session, from Server.forward to the step    *)
(* that Server.record keeps, and one replay of that step.                  *)
(*                                                                         *)
(* The reverse proxy answers the client through a tap, which copies what   *)
(* passes, up to a limit.  Either side may go away at any point; record    *)
(* runs from a defer on every way out.  The bytes of a response are known  *)
(* by their positions, so a copy, which is always a prefix, is a length.   *)
(* What record does to the bytes themselves is the subject of Stream and   *)
(* Conversation, and whether the step can be written that of CassetteDir.  *)
(***************************************************************************)
EXTENDS Naturals

CONSTANTS
  Statuses,     \* the final statuses a provider answers with
  MaxSize,      \* bound: length of the longest response
  MaxBody,      \* the limit of the copy, proxy.maxBody
  FrameField,   \* bytes it takes to tell that a body opens as a stream
  ErrorSize     \* length of the error cs-vcr answers with itself

ASSUME ForwardAssumption ==
  /\ Statuses \subseteq Nat
  /\ MaxSize \in Nat /\ MaxBody \in Nat /\ FrameField \in Nat /\ ErrorSize \in Nat

OK == 200
EarlyHints == 103
BadGateway == 502
ASSUME FinalStatuses == Statuses \cap {0, EarlyHints} = {}

VARIABLES
  answer,       \* what the provider means to answer
  at,           \* where the handler is, or the one that replays the step
  sent,         \* bytes of the answer the provider has sent
  tap,          \* the tap: its copy, and what it made of the header
  complete,     \* forward's `complete`: the copy loop reached its end
  client,       \* "reading", or "left"
  told,         \* the status the client was given, 0 before
  received,     \* bytes the client was given
  held,         \* bytes in the server's buffer, to be flushed at the end
  step,         \* what the cassette keeps
  again         \* what the client of the replay was given

forwardVars == <<answer, at, sent, tap, complete, client, told, received, held, step, again>>

NoStep == [status |-> 0, size |-> 0, streaming |-> FALSE]
NewTap == [status |-> 0, kept |-> 0, dropped |-> 0, sse |-> FALSE, own |-> FALSE]

Least(a, b) == IF a <= b THEN a ELSE b

-----------------------------------------------------------------------------
(* The tap. *)

\* tap.WriteHeader: the first one counts, and the others go nowhere.
Headed(t, code, sse) ==
  IF t.status # 0 THEN t ELSE [t EXCEPT !.status = code, !.sse = sse]

\* slip: the copy is not bounded
TappedUnbounded(t, n, unlabelled) ==
  [t EXCEPT !.kept = @ + n, !.sse = @ \/ (t.kept = 0 /\ unlabelled /\ n >= FrameField)]
\* slip: what the copy leaves out is not counted
TappedUncounted(t, n, unlabelled) ==
  [t EXCEPT !.kept = @ + Least(n, MaxBody - t.kept),
            !.sse = @ \/ (t.kept = 0 /\ unlabelled /\ n >= FrameField)]

\* tap.Write: every byte goes on, and the copy takes what it has room for.
\* `unlabelled`: no content type is set and the body opens as a stream does.
Tapped(t, n, unlabelled) ==
  LET kept == Least(n, MaxBody - t.kept)
  IN [t EXCEPT !.kept = @ + kept,
               !.dropped = @ + (n - kept),
               !.sse = @ \/ (t.kept = 0 /\ unlabelled /\ n >= FrameField)]

\* What the client is told. An interim status is not the end of the header: the
\* server adds a 200 of its own if no final one comes through the tap.
Wire(t) == IF t.status \in {0, EarlyHints} THEN OK ELSE t.status

-----------------------------------------------------------------------------
ForwardInit ==
  /\ answer \in [status : Statuses, size : 0..MaxSize,
                 type : {"stream", "other", "none"}, opens : BOOLEAN]
  /\ at = "sending"
  /\ sent = 0
  /\ tap = NewTap
  /\ complete = FALSE
  /\ client = "reading"
  /\ told = 0
  /\ received = 0
  /\ held = 0
  /\ step = NoStep
  /\ again = [status |-> 0, size |-> 0]

\* The client hangs up: it has read enough, timed out, or is gone.
Leave ==
  /\ at \in {"sending", "copying", "returned", "closing"}
  /\ client = "reading"
  /\ client' = "left"
  /\ UNCHANGED <<answer, at, sent, tap, complete, told, received, held, step, again>>

\* The provider sends an interim answer, which the reverse proxy passes on.
Interim ==
  /\ at = "sending"
  /\ tap' = Headed(tap, EarlyHints, FALSE)
  /\ UNCHANGED <<answer, at, sent, complete, client, told, received, held, step, again>>

\* The provider answers; the reverse proxy writes the header, into the server's
\* buffer, and starts to copy.
Respond ==
  /\ at = "sending"
  /\ tap' = Headed(tap, answer.status, answer.type = "stream")
  /\ at' = "copying"
  /\ UNCHANGED <<answer, sent, complete, client, told, received, held, step, again>>

\* The call fails, or net/http cancels it because the client left: the
\* ErrorHandler answers in the provider's place. Its few bytes stay in the
\* server's buffer until the handler is over.
Fail ==
  /\ at = "sending"
  /\ tap' = Tapped(Headed([tap EXCEPT !.own = (tap.status = 0)], BadGateway, FALSE),
                    ErrorSize, FALSE)
  /\ held' = ErrorSize
  /\ complete' = TRUE
  /\ at' = "returned"
  /\ UNCHANGED <<answer, sent, client, told, received, step, again>>

\* The header is flushed before there is a body to send with it (FlushInterval -1),
\* by a timer: it may come after the first bytes.
FlushHeader ==
  /\ at = "copying"
  /\ client = "reading"
  /\ told = 0
  /\ told' = Wire(tap)
  /\ UNCHANGED <<answer, at, sent, tap, complete, client, received, held, step, again>>

\* Some bytes arrive, and are copied, written and flushed. A write to a client
\* that left may still be taken by the kernel; or it fails, and the reverse proxy
\* abandons the handler with a panic.
Pass ==
  /\ at = "copying"
  /\ \E n \in 1..(answer.size - sent) :
       /\ sent' = sent + n
       /\ tap' = Tapped(tap, n, answer.type = "none" /\ answer.opens)
       /\ \/ /\ client = "reading"
             /\ told' = Wire(tap)
             /\ received' = received + n
             /\ UNCHANGED at
          \/ /\ client = "left"
             /\ at' \in {"copying", "aborted"}
             /\ UNCHANGED <<told, received>>
  /\ UNCHANGED <<answer, complete, client, held, step, again>>

\* The provider stops in the middle, or the call is cancelled because the client
\* left: the same panic.
Cut ==
  /\ at = "copying"
  /\ sent < answer.size \/ client = "left"
  /\ at' = "aborted"
  /\ UNCHANGED <<answer, sent, tap, complete, client, told, received, held, step, again>>

\* The response ends.
Finish ==
  /\ at = "copying"
  /\ sent = answer.size
  /\ complete' = TRUE
  /\ at' = "returned"
  /\ UNCHANGED <<answer, sent, tap, client, told, received, held, step, again>>

\* slip: an interrupted response is not recorded
KeepsComplete == tap.status # 0 /\ complete /\ ~(tap.own /\ client = "left")

\* Whether what the tap holds is a step of the session: not when there is no
\* response, nor when it is cs-vcr's own error to a client that had left.
Keeps == tap.status # 0 /\ ~(tap.own /\ client = "left")

\* Server.record, deferred by forward: on every way out, a panic included.
Record ==
  /\ at \in {"returned", "aborted"}
  /\ step' = IF Keeps
             THEN [status |-> tap.status, size |-> tap.kept, streaming |-> tap.sse]
             ELSE NoStep
  /\ at' = IF complete THEN "closing" ELSE "over"
  /\ UNCHANGED <<answer, sent, tap, complete, client, told, received, held, again>>

\* The handler is over and the server flushes what it still holds: an error of
\* cs-vcr's own, or the header of an empty response.
Close ==
  /\ at = "closing"
  /\ at' = "over"
  /\ IF client = "reading"
     THEN /\ told' = Wire(tap)
          /\ received' = received + held
     ELSE UNCHANGED <<told, received>>
  /\ UNCHANGED <<answer, sent, tap, complete, client, held, step, again>>

-----------------------------------------------------------------------------
(* A replay session serves the step: Server.serveFromCassette, once the step *)
(* is chosen and its response file is read.                                  *)

Serve ==
  /\ at = "over"
  /\ step # NoStep
  /\ again' = [again EXCEPT !.status = step.status]
  /\ at' = "replaying"
  /\ UNCHANGED <<answer, sent, tap, complete, client, told, received, held, step>>

\* A stream goes out event by event (replayStream), anything else in one write.
Play ==
  /\ at = "replaying"
  /\ \E n \in 1..(step.size - again.size) :
       /\ step.streaming \/ n = step.size
       /\ again' = [again EXCEPT !.size = @ + n]
  /\ UNCHANGED <<answer, at, sent, tap, complete, client, told, received, held, step>>

\* The end of the step; or the client of the replay left, and a write failed.
Played ==
  /\ at = "replaying"
  /\ at' = "replayed"
  /\ UNCHANGED <<answer, sent, tap, complete, client, told, received, held, step, again>>

\* slip: a client that leaves does not cancel a call whose answer has begun
AbandonUnsent == client = "left" /\ Fail

\* Either way a call ends because its client left.
Abandon == client = "left" /\ (Fail \/ Cut)

ForwardNext ==
  \/ Leave \/ Interim \/ Respond \/ FlushHeader \/ Fail \/ Pass \/ Cut \/ Finish \/ Record \/ Close
  \/ Serve \/ Play \/ Played

\* Cancellation reaches a call whose client has left (net/http cancels the
\* context), and a handler that has returned runs its deferred calls. Nothing is
\* assumed of the provider or of the clients.
ForwardFairness == WF_forwardVars(Abandon) /\ WF_forwardVars(Record) /\ WF_forwardVars(Close)
ForwardSpec == ForwardInit /\ [][ForwardNext]_forwardVars /\ ForwardFairness

-----------------------------------------------------------------------------
ForwardTypeOK ==
  /\ answer \in [status : Statuses, size : 0..MaxSize,
                 type : {"stream", "other", "none"}, opens : BOOLEAN]
  /\ at \in {"sending", "copying", "returned", "aborted", "closing", "over",
             "replaying", "replayed"}
  /\ sent \in 0..answer.size
  /\ tap \in [status : Nat, kept : 0..MaxBody, dropped : Nat, sse : BOOLEAN, own : BOOLEAN]
  /\ complete \in BOOLEAN
  /\ client \in {"reading", "left"}
  /\ told \in Nat
  /\ received \in Nat
  /\ held \in {0, ErrorSize}
  /\ step \in [status : Nat, size : 0..MaxBody, streaming : BOOLEAN]
  /\ again \in [status : Nat, size : 0..MaxBody]

Over == at \in {"over", "replaying", "replayed"}

\* Whatever goes wrong, and whenever: once a client was given any of an answer,
\* the answer is a step, and the step holds all of what the client was given, or
\* as much of it as the limit lets through, in which case it is reported as short
\* (SPEC 7, R22, R27). This is what the deferred call, the copy taken before the
\* write and the branch for cs-vcr's own errors come to together.
NothingLost ==
  Over /\ told # 0 =>
    /\ step # NoStep
    /\ step.size >= received \/ (step.size = MaxBody /\ tap.dropped > 0)

\* A client that reads a replay to its end is given what the recorded one was:
\* the status and every byte, if the recorded one stayed to the end, the answer
\* fit in the copy and no interim answer was passed on before it.
FaithfulReplay ==
  /\ at = "replayed" /\ again.size = step.size
  /\ complete /\ client = "reading"
  /\ tap.dropped = 0 /\ tap.status # EarlyHints
  => again.status = told /\ again.size = received

\* When a client leaves, the exchange comes to its end and is recorded or not,
\* whatever the provider does: a call is not left open for nobody.
Settles == client = "left" ~> Over
=============================================================================
