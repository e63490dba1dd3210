---------------------------- MODULE ScriptReplay ----------------------------
(***************************************************************************)
(* What replaying a cassette promises, with no word on how a step is       *)
(* searched for: SPEC.md section 5.1 without the window.                   *)
(*                                                                         *)
(* A script is the recorded session, one request per step.  The steps      *)
(* recorded for one request form a queue in recorded order.  A request is  *)
(* answered with the head of its own queue, which it takes; or once more   *)
(* with the step last taken from it; or, when nothing recorded for it was  *)
(* ever taken, with a step recorded for some other request (a bookkeeping  *)
(* call), or not at all.  A step is taken at most once.                    *)
(***************************************************************************)
EXTENDS Naturals, Sequences

CONSTANTS Requests,  \* the canonical requests of a session
          Scripts    \* the recorded sessions considered, each in Seq(Requests)

VARIABLES script,    \* the recorded session being replayed
          taken,     \* the steps handed out so far
          answer     \* <<request, step>> of the last answer; step 0: refused

vars == <<script, taken, answer>>

Steps == DOMAIN script

\* The step at the head of its request's queue.
AtHead(p) == /\ p \in Steps \ taken
           /\ \A q \in Steps : (q < p /\ script[q] = script[p]) => q \in taken

\* The step last taken of its request's queue.
Newest(p) == /\ p \in taken
             /\ \A q \in taken : script[q] = script[p] => q <= p

Init == /\ script \in Scripts
        /\ taken = {}
        /\ answer = <<>>

\* The request is answered with the next step recorded for it.
Take(r) == \E p \in Steps :
             /\ script[p] = r
             /\ AtHead(p)
             /\ taken' = taken \cup {p}
             /\ answer' = <<r, p>>

\* The request is answered again with the last step taken for it.
Again(r) == \E p \in taken :
             /\ script[p] = r
             /\ Newest(p)
             /\ answer' = <<r, p>>
             /\ UNCHANGED taken

Unanswered(r) == \A p \in taken : script[p] # r

\* A bookkeeping call is answered with the head, or again with the newest
\* taken step, of some queue.
StandIn(r) == \E p \in Steps :
             /\ Unanswered(r)
             /\ \/ AtHead(p) /\ taken' = taken \cup {p}
                \/ Newest(p) /\ UNCHANGED taken
             /\ answer' = <<r, p>>

\* Nothing recorded answers the request.
Refuse(r) == /\ Unanswered(r)
             /\ answer' = <<r, 0>>
             /\ UNCHANGED taken

Next == \E r \in Requests : /\ Take(r) \/ Again(r) \/ StandIn(r) \/ Refuse(r)
                            /\ UNCHANGED script

Spec == Init /\ [][Next]_vars
=============================================================================
