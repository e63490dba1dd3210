--------------------------- MODULE Forward_proofs ---------------------------
(***************************************************************************)
(* That no exchange is lost and that a replay is faithful, for every       *)
(* length of answer, limit of the copy, status, and way of splitting an    *)
(* answer into chunks.                                                     *)
(***************************************************************************)
EXTENDS Forward, TLAPS

\* Which values go with which place of the handler: only cs-vcr's own error is
\* held back, and everything past the call to the provider has a status.
Phases ==
  /\ at \in {"sending", "copying", "aborted"} => held = 0 /\ tap.own = FALSE
  /\ at = "sending" => sent = 0 /\ told = 0
  /\ at # "sending" => tap.status # 0
  /\ at \in {"returned", "closing"} => complete

\* The copy and what it leaves out are together what passed the tap.
Copied ==
  /\ tap.kept = Least(sent + held, MaxBody)
  /\ tap.kept + tap.dropped = sent + held

\* What the client has of it: all of it while it reads, and at the end also what
\* the server held back.
Given ==
  /\ received <= sent + held
  /\ client = "reading" /\ ~Over => received = sent
  /\ client = "reading" /\ Over /\ complete => received = sent + held /\ told = Wire(tap)

\* cs-vcr's own error is told at the end, to a client that is still there.
OwnErrors == told # 0 /\ tap.own => Over /\ client = "reading"

StepOf(t) == [status |-> t.status, size |-> t.kept, streaming |-> t.sse]

\* What record kept is what the tap holds, and it kept nothing only when nobody
\* was there for cs-vcr's own error.
Kept ==
  at = "closing" \/ Over =>
    step = StepOf(tap) \/ (step = NoStep /\ tap.own /\ client = "left")

\* A replay has a step, and its status.
Replaying ==
  at \in {"replaying", "replayed"} => step # NoStep /\ again.status = step.status

IInv == ForwardTypeOK /\ Phases /\ Copied /\ Given /\ OwnErrors /\ Kept /\ Replaying

-----------------------------------------------------------------------------
\* The lesser of two lengths is a length, and neither of them is below it.
LEMMA LeastType ==
  ASSUME NEW a \in Nat, NEW b \in Nat
  PROVE  /\ Least(a, b) \in Nat
         /\ Least(a, b) <= a /\ Least(a, b) <= b
         /\ Least(a, b) = a \/ Least(a, b) = b
BY DEF Least

\* A header leaves the copy alone.
LEMMA HeadedType ==
  ASSUME NEW t \in [status : Nat, kept : 0..MaxBody, dropped : Nat,
                    sse : BOOLEAN, own : BOOLEAN],
         NEW code \in Nat, code # 0, NEW sse \in BOOLEAN
  PROVE  /\ Headed(t, code, sse)
              \in [status : Nat, kept : 0..MaxBody, dropped : Nat, sse : BOOLEAN, own : BOOLEAN]
         /\ Headed(t, code, sse).kept = t.kept
         /\ Headed(t, code, sse).dropped = t.dropped
         /\ Headed(t, code, sse).own = t.own
         /\ Headed(t, code, sse).status # 0
BY DEF Headed

\* A chunk through the tap: the copy has as much of everything as it has room for.
LEMMA TappedCopies ==
  ASSUME NEW t \in [status : Nat, kept : 0..MaxBody, dropped : Nat,
                    sse : BOOLEAN, own : BOOLEAN],
         NEW n \in Nat, NEW unlabelled \in BOOLEAN, NEW total \in Nat,
         t.kept = Least(total, MaxBody), t.kept + t.dropped = total
  PROVE  /\ Tapped(t, n, unlabelled)
              \in [status : Nat, kept : 0..MaxBody, dropped : Nat, sse : BOOLEAN, own : BOOLEAN]
         /\ Tapped(t, n, unlabelled).kept = Least(total + n, MaxBody)
         /\ Tapped(t, n, unlabelled).kept + Tapped(t, n, unlabelled).dropped = total + n
         /\ Tapped(t, n, unlabelled).status = t.status
         /\ Tapped(t, n, unlabelled).own = t.own
<1>. DEFINE w == Tapped(t, n, unlabelled)
            kept == Least(n, MaxBody - t.kept)
<1>1. MaxBody \in Nat /\ MaxBody - t.kept \in Nat
  BY ForwardAssumption
<1>2. kept \in Nat /\ kept <= n /\ kept <= MaxBody - t.kept /\ (kept = n \/ kept = MaxBody - t.kept)
  BY <1>1, LeastType
<1>3. /\ w.kept = t.kept + kept /\ w.dropped = t.dropped + (n - kept)
      /\ w.status = t.status /\ w.own = t.own
  BY DEF Tapped
<1>5. \A k \in 0..MaxBody, d \in Nat, s \in BOOLEAN :
        [t EXCEPT !.kept = k, !.dropped = d, !.sse = s]
          \in [status : Nat, kept : 0..MaxBody, dropped : Nat, sse : BOOLEAN, own : BOOLEAN]
  OBVIOUS
<1>6. t.kept + kept \in 0..MaxBody /\ t.dropped + (n - kept) \in Nat
  BY <1>1, <1>2
<1>4. w \in [status : Nat, kept : 0..MaxBody, dropped : Nat, sse : BOOLEAN, own : BOOLEAN]
  <2>1. (t.sse \/ (t.kept = 0 /\ unlabelled /\ n >= FrameField)) \in BOOLEAN
    OBVIOUS
  <2>. QED  BY <2>1, <1>5, <1>6 DEF Tapped
<1>7. w.kept + w.dropped = total + n
  <2>1. t.kept \in Nat /\ t.dropped \in Nat
    BY <1>1
  <2>. HIDE DEF w, kept
  <2>. QED  BY <1>2, <1>3, <2>1
<1>8. w.kept = Least(total + n, MaxBody)
  <2>1. CASE total <= MaxBody
    BY <2>1, <1>1, <1>2, <1>3 DEF Least
  <2>2. CASE total > MaxBody
    BY <2>2, <1>1, <1>2, <1>3 DEF Least
  <2>. QED  BY <2>1, <2>2, <1>1
<1>. QED  BY <1>3, <1>7, <1>8, <1>4

-----------------------------------------------------------------------------
\* Before anything is sent, the copy, the count and the step are all empty.
LEMMA InitInv == ForwardInit => IInv
<1>. SUFFICES ASSUME ForwardInit PROVE IInv
  OBVIOUS
<1>1. Least(0, MaxBody) = 0
  BY ForwardAssumption DEF Least
<1>2. ForwardTypeOK
  <2>1. /\ tap \in [status : Nat, kept : 0..MaxBody, dropped : Nat, sse : BOOLEAN, own : BOOLEAN]
        /\ sent \in 0..answer.size
    BY ForwardAssumption DEF ForwardInit, NewTap
  <2>2. step \in [status : Nat, size : 0..MaxBody, streaming : BOOLEAN]
    BY ForwardAssumption DEF ForwardInit, NoStep
  <2>3. again \in [status : Nat, size : 0..MaxBody]
    BY ForwardAssumption DEF ForwardInit
  <2>. QED  BY <2>1, <2>2, <2>3 DEF ForwardInit, ForwardTypeOK
<1>3. Phases /\ Given /\ OwnErrors /\ Kept /\ Replaying
  BY DEF ForwardInit, NewTap, Phases, Given, Over, OwnErrors, Kept, Replaying
<1>4. Copied
  BY <1>1 DEF ForwardInit, NewTap, Copied
<1>. QED  BY <1>2, <1>3, <1>4 DEF IInv

\* Every step of either side, of the handler and of the replay keeps the strengthening.
LEMMA NextInv == IInv /\ [ForwardNext]_forwardVars => IInv'
<1>. SUFFICES ASSUME IInv, [ForwardNext]_forwardVars PROVE IInv'
  OBVIOUS
<1>. USE ForwardAssumption DEF IInv
<1>1. CASE Leave
  <2>1. ForwardTypeOK'
    BY <1>1 DEF Leave, ForwardTypeOK
  <2>2. Phases' /\ Copied' /\ Replaying'
    BY <1>1 DEF Leave, Phases, Copied, Replaying
  <2>3. Given' /\ OwnErrors' /\ Kept'
    BY <1>1 DEF Leave, Given, OwnErrors, Kept, Over
  <2>. QED  BY <2>1, <2>2, <2>3
<1>2. CASE Interim
  <2>1. tap' = Headed(tap, EarlyHints, FALSE) /\ EarlyHints = 103
    BY <1>2 DEF Interim, EarlyHints
  <2>2. /\ tap' \in [status : Nat, kept : 0..MaxBody, dropped : Nat, sse : BOOLEAN, own : BOOLEAN]
        /\ tap'.kept = tap.kept /\ tap'.dropped = tap.dropped /\ tap'.own = tap.own
    <3>1. tap \in [status : Nat, kept : 0..MaxBody, dropped : Nat, sse : BOOLEAN, own : BOOLEAN]
      BY DEF ForwardTypeOK
    <3>. HIDE DEF IInv
    <3>2. tap' = tap \/ tap' = [tap EXCEPT !.status = 103, !.sse = FALSE]
      BY <2>1 DEF Headed
    <3>3. CASE tap' = tap
      BY <3>1, <3>3
    <3>4. CASE tap' = [tap EXCEPT !.status = 103, !.sse = FALSE]
      BY <3>1, <3>4
    <3>. QED  BY <3>2, <3>3, <3>4
  <2>3. ForwardTypeOK'
    BY <1>2, <2>2 DEF Interim, ForwardTypeOK
  <2>4. Phases' /\ Copied' /\ Replaying'
    BY <1>2, <2>2 DEF Interim, Phases, Copied, Replaying
  <2>5. Given' /\ OwnErrors' /\ Kept'
    BY <1>2, <2>2 DEF Interim, Given, OwnErrors, Kept, Over
  <2>. QED  BY <2>3, <2>4, <2>5
<1>3. CASE Respond
  <2>. DEFINE sse == answer.type = "stream"
  <2>1. tap' = Headed(tap, answer.status, sse) /\ answer.status \in Nat /\ answer.status # 0
    BY <1>3, FinalStatuses DEF Respond, ForwardTypeOK
  <2>2. sse \in BOOLEAN
    OBVIOUS
  <2>3. /\ tap' \in [status : Nat, kept : 0..MaxBody, dropped : Nat, sse : BOOLEAN, own : BOOLEAN]
        /\ tap'.kept = tap.kept /\ tap'.dropped = tap.dropped /\ tap'.own = tap.own
        /\ tap'.status # 0
    <3>. HIDE DEF sse
    <3>. QED  BY <2>1, <2>2 DEF Headed, ForwardTypeOK
  <2>4. ForwardTypeOK'
    BY <1>3, <2>3 DEF Respond, ForwardTypeOK
  <2>5. Phases' /\ Copied' /\ Replaying'
    BY <1>3, <2>3 DEF Respond, Phases, Copied, Replaying
  <2>6. Given' /\ OwnErrors' /\ Kept'
    BY <1>3, <2>3 DEF Respond, Given, OwnErrors, Kept, Over
  <2>. QED  BY <2>4, <2>5, <2>6
<1>4. CASE Fail
  <2>. DEFINE t == Headed([tap EXCEPT !.own = (tap.status = 0)], BadGateway, FALSE)
  <2>1. BadGateway = 502 /\ (tap.status = 0) \in BOOLEAN
    BY DEF BadGateway
  <2>2. /\ t \in [status : Nat, kept : 0..MaxBody, dropped : Nat, sse : BOOLEAN, own : BOOLEAN]
        /\ t.kept = tap.kept /\ t.dropped = tap.dropped /\ t.status # 0
    <3>1. \A b \in BOOLEAN :
            [tap EXCEPT !.own = b]
              \in [status : Nat, kept : 0..MaxBody, dropped : Nat, sse : BOOLEAN, own : BOOLEAN]
      BY DEF ForwardTypeOK
    <3>2. [tap EXCEPT !.own = (tap.status = 0)]
            \in [status : Nat, kept : 0..MaxBody, dropped : Nat, sse : BOOLEAN, own : BOOLEAN]
      BY <2>1, <3>1
    <3>. DEFINE s == [tap EXCEPT !.own = (tap.status = 0)]
    <3>3. s.kept = tap.kept /\ s.dropped = tap.dropped
      BY DEF ForwardTypeOK
    <3>. DEFINE u == FALSE
    <3>4. t = Headed(s, BadGateway, u) /\ u \in BOOLEAN /\ BadGateway \in Nat /\ BadGateway # 0
      BY <2>1
    <3>. HIDE DEF s, t, u
    <3>5. s \in [status : Nat, kept : 0..MaxBody, dropped : Nat, sse : BOOLEAN, own : BOOLEAN]
      BY <3>2 DEF s
    <3>. QED  BY <3>3, <3>4, <3>5, HeadedType
  <2>3. sent = 0 /\ held = 0 /\ told = 0
    BY <1>4 DEF Fail, Phases
  <2>4. t.kept = Least(0, MaxBody) /\ t.kept + t.dropped = 0
    <3>1. sent + held = 0
      BY <2>3
    <3>. HIDE DEF t
    <3>. QED  BY <2>2, <3>1 DEF Copied
  <2>5. tap' = Tapped(t, ErrorSize, FALSE) /\ held' = ErrorSize
    BY <1>4 DEF Fail
  <2>6. /\ tap' \in [status : Nat, kept : 0..MaxBody, dropped : Nat, sse : BOOLEAN, own : BOOLEAN]
        /\ tap'.kept = Least(0 + ErrorSize, MaxBody)
        /\ tap'.kept + tap'.dropped = 0 + ErrorSize
        /\ tap'.status = t.status
    <3>. HIDE DEF t
    <3>. DEFINE u == FALSE
    <3>1. ErrorSize \in Nat /\ u \in BOOLEAN /\ 0 \in Nat
      OBVIOUS
    <3>2. tap' = Tapped(t, ErrorSize, u)
      BY <2>5
    <3>. HIDE DEF u
    <3>. QED  BY <2>2, <2>4, <3>1, <3>2, TappedCopies
  <2>. HIDE DEF t
  <2>7. ForwardTypeOK'
    BY <1>4, <2>6 DEF Fail, ForwardTypeOK
  <2>8. Phases' /\ Copied' /\ Replaying'
    BY <1>4, <2>2, <2>3, <2>6 DEF Fail, Phases, Copied, Replaying
  <2>9. Given' /\ OwnErrors' /\ Kept'
    BY <1>4, <2>3 DEF Fail, Given, OwnErrors, Kept, Over, ForwardTypeOK
  <2>. QED  BY <2>7, <2>8, <2>9
<1>5. CASE Pass
  <2>1. PICK n \in 1..(answer.size - sent) :
          /\ sent' = sent + n
          /\ tap' = Tapped(tap, n, answer.type = "none" /\ answer.opens)
          /\ \/ /\ client = "reading"
                /\ told' = Wire(tap)
                /\ received' = received + n
                /\ UNCHANGED at
             \/ /\ client = "left"
                /\ at' \in {"copying", "aborted"}
                /\ UNCHANGED <<told, received>>
    BY <1>5 DEF Pass
  <2>2. at = "copying" /\ held = 0 /\ tap.own = FALSE /\ tap.status # 0
    BY <1>5 DEF Pass, Phases
  <2>3. n \in Nat /\ sent \in Nat /\ sent + n \in 0..answer.size
    BY <2>1 DEF ForwardTypeOK
  <2>5. tap.kept = Least(sent, MaxBody) /\ tap.kept + tap.dropped = sent
    BY <2>2, <2>3 DEF Copied
  <2>6. /\ tap' \in [status : Nat, kept : 0..MaxBody, dropped : Nat, sse : BOOLEAN, own : BOOLEAN]
        /\ tap'.kept = Least(sent + n, MaxBody)
        /\ tap'.kept + tap'.dropped = sent + n
        /\ tap'.status = tap.status /\ tap'.own = tap.own
    <3>1. tap \in [status : Nat, kept : 0..MaxBody, dropped : Nat, sse : BOOLEAN, own : BOOLEAN]
      BY DEF ForwardTypeOK
    <3>. DEFINE u == answer.type = "none" /\ answer.opens
    <3>2. u \in BOOLEAN /\ tap' = Tapped(tap, n, u)
      BY <2>1
    <3>. HIDE DEF u
    <3>. QED  BY <2>3, <2>5, <3>1, <3>2, TappedCopies
  <2>7. Wire(tap) \in Nat /\ Wire(tap) # 0
    BY DEF Wire, ForwardTypeOK, OK
  <2>8. ForwardTypeOK'
    BY <1>5, <2>1, <2>3, <2>6, <2>7 DEF Pass, ForwardTypeOK
  <2>9. Phases' /\ Copied' /\ Replaying'
    BY <1>5, <2>1, <2>2, <2>3, <2>6 DEF Pass, Phases, Copied, Replaying
  <2>10. Given' /\ OwnErrors' /\ Kept'
    BY <1>5, <2>1, <2>2, <2>3, <2>6 DEF Pass, Given, OwnErrors, Kept, Over, ForwardTypeOK
  <2>. QED  BY <2>8, <2>9, <2>10
<1>6. CASE Cut
  <2>1. ForwardTypeOK'
    BY <1>6 DEF Cut, ForwardTypeOK
  <2>2. Phases' /\ Copied' /\ Replaying'
    BY <1>6 DEF Cut, Phases, Copied, Replaying
  <2>3. Given' /\ OwnErrors' /\ Kept'
    BY <1>6 DEF Cut, Given, OwnErrors, Kept, Over, Phases
  <2>. QED  BY <2>1, <2>2, <2>3
<1>7. CASE Finish
  <2>1. ForwardTypeOK'
    BY <1>7 DEF Finish, ForwardTypeOK
  <2>2. Phases' /\ Copied' /\ Replaying'
    BY <1>7 DEF Finish, Phases, Copied, Replaying
  <2>3. Given' /\ OwnErrors' /\ Kept'
    BY <1>7 DEF Finish, Given, OwnErrors, Kept, Over, Phases
  <2>. QED  BY <2>1, <2>2, <2>3
<1>8. CASE Record
  <2>1. tap.status # 0
    BY <1>8 DEF Record, Phases
  <2>2. step' = StepOf(tap) \/ (step' = NoStep /\ tap.own /\ client = "left")
    BY <1>8, <2>1 DEF Record, Keeps, StepOf
  <2>3. step' \in [status : Nat, size : 0..MaxBody, streaming : BOOLEAN]
    <3>1. StepOf(tap) \in [status : Nat, size : 0..MaxBody, streaming : BOOLEAN]
      BY DEF StepOf, ForwardTypeOK
    <3>2. NoStep \in [status : Nat, size : 0..MaxBody, streaming : BOOLEAN]
      BY DEF NoStep
    <3>. QED  BY <2>2, <3>1, <3>2
  <2>4. ForwardTypeOK'
    BY <1>8, <2>3 DEF Record, ForwardTypeOK
  <2>5. Phases' /\ Copied' /\ Replaying'
    BY <1>8 DEF Record, Phases, Copied, Replaying
  <2>6. Given' /\ OwnErrors'
    BY <1>8 DEF Record, Given, OwnErrors, Over, ForwardTypeOK
  <2>7. Kept'
    BY <1>8, <2>2 DEF Record, Kept, StepOf
  <2>. QED  BY <2>4, <2>5, <2>6, <2>7
<1>9. CASE Close
  <2>1. Wire(tap) \in Nat
    BY DEF Wire, ForwardTypeOK, OK
  <2>2. held \in Nat
    BY DEF ForwardTypeOK
  <2>3. ForwardTypeOK'
    BY <1>9, <2>1, <2>2 DEF Close, ForwardTypeOK
  <2>4. Phases' /\ Copied' /\ Replaying'
    BY <1>9 DEF Close, Phases, Copied, Replaying
  <2>5. Given'
    BY <1>9, <2>2 DEF Close, Given, Over, ForwardTypeOK, Wire
  <2>6. OwnErrors' /\ Kept'
    BY <1>9 DEF Close, OwnErrors, Kept, Over, StepOf
  <2>. QED  BY <2>3, <2>4, <2>5, <2>6
<1>10. CASE Serve
  <2>1. ForwardTypeOK'
    BY <1>10 DEF Serve, ForwardTypeOK
  <2>2. Phases' /\ Copied' /\ Replaying'
    BY <1>10 DEF Serve, Phases, Copied, Replaying, ForwardTypeOK
  <2>3. Given' /\ OwnErrors' /\ Kept'
    BY <1>10 DEF Serve, Given, OwnErrors, Kept, Over, Wire, StepOf
  <2>. QED  BY <2>1, <2>2, <2>3
<1>11. CASE Play
  <2>1. PICK n \in 1..(step.size - again.size) : again' = [again EXCEPT !.size = @ + n]
    BY <1>11 DEF Play
  <2>2. again' \in [status : Nat, size : 0..MaxBody] /\ again'.status = again.status
    BY <2>1 DEF ForwardTypeOK
  <2>3. ForwardTypeOK'
    BY <1>11, <2>2 DEF Play, ForwardTypeOK
  <2>4. Phases' /\ Copied' /\ Replaying'
    BY <1>11, <2>2 DEF Play, Phases, Copied, Replaying
  <2>5. Given' /\ OwnErrors' /\ Kept'
    BY <1>11 DEF Play, Given, OwnErrors, Kept, Over, Wire, StepOf
  <2>. QED  BY <2>3, <2>4, <2>5
<1>12. CASE Played
  <2>1. ForwardTypeOK'
    BY <1>12 DEF Played, ForwardTypeOK
  <2>2. Phases' /\ Copied' /\ Replaying'
    BY <1>12 DEF Played, Phases, Copied, Replaying
  <2>3. Given' /\ OwnErrors' /\ Kept'
    BY <1>12 DEF Played, Given, OwnErrors, Kept, Over, Wire, StepOf
  <2>. QED  BY <2>1, <2>2, <2>3
<1>13. CASE FlushHeader
  <2>1. Wire(tap) \in Nat /\ tap.own = FALSE
    BY <1>13 DEF FlushHeader, Wire, ForwardTypeOK, OK, Phases
  <2>2. ForwardTypeOK'
    BY <1>13, <2>1 DEF FlushHeader, ForwardTypeOK
  <2>3. Phases' /\ Copied' /\ Replaying'
    BY <1>13 DEF FlushHeader, Phases, Copied, Replaying
  <2>4. Given' /\ OwnErrors' /\ Kept'
    BY <1>13, <2>1 DEF FlushHeader, Given, OwnErrors, Kept, Over
  <2>. QED  BY <2>2, <2>3, <2>4
<1>14. CASE UNCHANGED forwardVars
  BY <1>14 DEF forwardVars, ForwardTypeOK, Phases, Copied, Given, OwnErrors, Kept, Replaying, Over, Wire, StepOf
<1>. QED
  BY <1>1, <1>2, <1>3, <1>4, <1>5, <1>6, <1>7, <1>8, <1>9, <1>10, <1>11, <1>12, <1>13, <1>14 DEF ForwardNext

\* The strengthening holds of every exchange, whatever is lost, cut or limited.
THEOREM Invariant == ForwardSpec => []IInv
BY InitInv, NextInv, PTL DEF ForwardSpec

\* Types are kept: the copy never exceeds its limit, for any limit.
THEOREM TypeCorrect == ForwardSpec => []ForwardTypeOK
<1>1. IInv => ForwardTypeOK
  BY DEF IInv
<1>. QED  BY <1>1, Invariant, PTL

\* Once a client was given any of an answer, the step holds it (SPEC 7, R22, R27).
THEOREM NothingIsLost == ForwardSpec => []NothingLost
<1>1. IInv => NothingLost
  <2>. SUFFICES ASSUME IInv, Over, told # 0
                PROVE  /\ step # NoStep
                       /\ step.size >= received \/ (step.size = MaxBody /\ tap.dropped > 0)
    BY DEF NothingLost
  <2>1. step = StepOf(tap)
    BY DEF IInv, OwnErrors, Kept
  <2>2. tap.status # 0
    BY DEF IInv, Phases, Over
  <2>3. step # NoStep
    BY <2>1, <2>2 DEF StepOf, NoStep
  <2>4. step.size = tap.kept
    BY <2>1 DEF StepOf
  <2>5. /\ tap.kept \in Nat /\ tap.dropped \in Nat /\ received \in Nat
        /\ sent \in Nat /\ held \in Nat /\ MaxBody \in Nat
    BY ForwardAssumption DEF IInv, ForwardTypeOK
  <2>6. tap.kept = MaxBody \/ tap.kept = sent + held
    BY DEF IInv, Copied, Least
  <2>7. tap.kept + tap.dropped = sent + held /\ received <= sent + held
    BY DEF IInv, Copied, Given
  <2>8. step.size >= received \/ (step.size = MaxBody /\ tap.dropped > 0)
    BY <2>4, <2>5, <2>6, <2>7
  <2>. QED  BY <2>3, <2>8
<1>. QED  BY <1>1, Invariant, PTL

\* A replay read to its end gives what the recorded client was given.
THEOREM ReplayIsFaithful == ForwardSpec => []FaithfulReplay
<1>1. IInv => FaithfulReplay
  <2>. SUFFICES ASSUME IInv, at = "replayed", again.size = step.size, complete,
                       client = "reading", tap.dropped = 0, tap.status # EarlyHints
                PROVE  again.status = told /\ again.size = received
    BY DEF FaithfulReplay
  <2>1. step = StepOf(tap) /\ again.status = step.status
    BY DEF IInv, Kept, Replaying, Over
  <2>2. received = sent + held /\ told = Wire(tap)
    BY DEF IInv, Given, Over
  <2>3. told = tap.status
    BY <2>2 DEF IInv, Phases, Wire
  <2>4. tap.kept = sent + held
    BY DEF IInv, Copied, ForwardTypeOK
  <2>. QED  BY <2>1, <2>2, <2>3, <2>4 DEF StepOf
<1>. QED  BY <1>1, Invariant, PTL
=============================================================================
