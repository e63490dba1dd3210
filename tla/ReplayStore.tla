----------------------------- MODULE ReplayStore -----------------------------
(***************************************************************************)
(* A cassette open for replay, and the requests that reach it.             *)
(*                                                                         *)
(* Next of the code holds the store's mutex from start to end, so one call *)
(* is one step; the interleaving is in the order in which the clients'     *)
(* requests reach it, which is arbitrary.                                  *)
(***************************************************************************)
EXTENDS Store

CONSTANTS
  Scripts,  \* the recorded sessions considered
  Windows   \* the values of `lookahead` considered

ASSUME ScriptsAssumption ==
  /\ Scripts \subseteq Seq(Requests)
  /\ Windows \subseteq Int

vars == <<script, lookahead, storeVars>>

-----------------------------------------------------------------------------
\* newStore: a script read from the index, nothing served.
Init == /\ script \in Scripts
        /\ lookahead \in Windows
        /\ served = {} /\ cursor = 1 /\ last = 0
        /\ reply = NoReply /\ order = <<>>

Next == \E r \in Requests : Serve(r) /\ UNCHANGED <<script, lookahead>>

Spec == Init /\ [][Next]_vars

-----------------------------------------------------------------------------
(* Properties.                                                             *)

TypeOK == StoreTypeOK /\ script \in Scripts /\ lookahead \in Windows

\* The inductive invariant the proofs rest on.
IInv == TypeOK /\ StoreInv

\* SPEC R6: a repeat serves, of the steps the request aligns with, the one
\* handed out most recently; the code looks for the highest position instead.
RepeatIsMostRecent ==
  reply.kind = "repeat" =>
    \E i \in DOMAIN order :
      /\ order[i] = reply.step
      /\ script[order[i]] = reply.request
      /\ \A j \in DOMAIN order : j > i => script[order[j]] # reply.request

\* A request is missed only if every step recorded for it is still unserved
\* and beyond the window: an answered request can be asked again for ever.
MissOnlyBeyondWindow ==
  reply.kind = "miss" =>
    \A p \in Steps : Aligns(p, reply.request) =>
      p \notin served /\ p > Frontier + lookahead

\* SPEC R8: a miss is reported against a step the session still owes, and
\* against none only when all have been served, as explain() words it.
MissNamesOwedStep ==
  reply.kind = "miss" =>
    IF reply.step = 0 THEN served = Steps ELSE reply.step \in Unserved

\* SPEC R8a as the code decides it: a bookkeeping answer comes from a step
\* shaped like bookkeeping, in a cassette that also holds a step on another
\* model or one of another shape.
AuxiliaryToldApart ==
  reply.kind \in {"auxiliary", "auxiliary repeat"} =>
    /\ Shape[script[reply.step]] = "single"
    /\ \E q \in Steps : \/ Shape[script[q]] # "single"
                        \/ ModelOf[script[q]] \notin {0, ModelOf[script[reply.step]]}

\* A step once within reach stays within reach until it is served: the window
\* never closes around a point the session has passed.
WindowNeverCloses ==
  [][\A p \in Unserved : p <= Frontier + lookahead =>
       p \in served' \/ p <= Frontier' + lookahead']_vars

\* Every call is a step of the abstract script replay: a queue for each
\* request, taken from the head; the window and the two marks do not show.
Answer == IF reply = NoReply THEN <<>>
          ELSE <<reply.request, IF reply.kind = "miss" THEN 0 ELSE reply.step>>
Abstract == INSTANCE ScriptReplay WITH taken <- served, answer <- Answer
ImplementsScriptReplay == Abstract!Spec

=============================================================================
