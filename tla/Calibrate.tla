----------------------------- MODULE Calibrate -----------------------------
(***************************************************************************)
(* A request that differs from its recording, and the way to a ruleset     *)
(* under which it replays: `replay --dump-misses` misses and dumps it,     *)
(* `calibrate` (internal/cli/calibrate_command.go) compares the dump with  *)
(* the step and prints rules, an operator pastes some into the             *)
(* configuration, and the session is replayed.                             *)
(*                                                                         *)
(* One step of one cassette, asked for by the same request each time: the  *)
(* operator stops when a replay has gone through.                          *)
(***************************************************************************)
EXTENDS Align

CONSTANTS
  Bodies,   \* the bodies considered
  Rulesets  \* what may be declared to begin with

VARIABLES
  recorded,  \* the body of the step
  live,      \* the body of the request, and of the dump once it missed
  declared,  \* normalize.volatile
  outcome,   \* of the last replay: "none", "served" or "missed"
  printed    \* the rules calibrate printed that have not been pasted

calibrateVars == <<recorded, live, declared, outcome, printed>>

Found == DifferencesOf(recorded, live, declared)
Paths(verdicts) == {d.path : d \in {e \in Found : e.verdict \in verdicts}}

\* Alignment.Matches
Matches == Paths({"shape", "leaf"}) = {}

-----------------------------------------------------------------------------
CalibrateInit ==
  /\ recorded \in Bodies /\ live \in Bodies /\ declared \in Rulesets
  /\ outcome = "none" /\ printed = {}

\* Served, or missed and dumped under the step's number.
Replay ==
  /\ outcome # "served"
  /\ outcome' = IF Matches THEN "served" ELSE "missed"
  /\ UNCHANGED <<recorded, live, declared, printed>>

\* The dump against the step under what is declared by now.  A shape difference
\* is listed and no rule is proposed for it.
RunCalibrate ==
  /\ outcome = "missed"
  /\ printed' = {Generalize(p) : p \in Paths({"leaf"})}
  /\ UNCHANGED <<recorded, live, declared, outcome>>

\* The operator takes a rule over.
Declare ==
  /\ \E rule \in printed : /\ declared' = declared \cup {rule}
                           /\ printed' = printed \ {rule}
  /\ UNCHANGED <<recorded, live, outcome>>

CalibrateNext == Replay \/ RunCalibrate \/ Declare

CalibrateSpec == CalibrateInit /\ [][CalibrateNext]_calibrateVars

-----------------------------------------------------------------------------
(* Properties.                                                             *)

\* No rule tolerates that the role of a message changes.
RolesExact == \A rule \in declared : Last(rule).name # "role"

\* Two requests align exactly if they mean the same: alignment, though it walks
\* the two together and takes the roles from one of them, compares what each is
\* on its own.  So requests that align form a class, as ReplayStore assumes.
SameMeaning ==
  RolesExact => (Matches <=> Meaning(recorded, <<>>, declared, FALSE)
                             = Meaning(live, <<>>, declared, FALSE))

\* SPEC R9: a request that is served although it differs, husks aside, is
\* reported as having drifted.
NeverSilent ==
  Matches /\ Paths({"tolerated"}) = {} =>
    Meaning(recorded, <<>>, {}, FALSE) = Meaning(live, <<>>, {}, FALSE)

\* Taking a rule over excuses differences it claims and no other (SPEC R11),
\* and brings no new one.
Mismatches == Paths({"shape", "leaf"})
DeclaringIsExact ==
  [][/\ Mismatches' \subseteq Mismatches
     /\ \A p \in Mismatches \ Mismatches' : Covered(p, declared' \ declared)]_calibrateVars

\* A round gets to its end: once every rule that calibrate printed is taken over, no
\* difference is left that it would print a rule for. But a rule for a list directly
\* in a list claims nothing, being spelled with two pairs of brackets.
PastingSuffices ==
  [][printed # {} /\ printed' = {} =>
       \A p \in Paths({"leaf"})' : \E i \in DOMAIN p : Len(p[i].inside) > 1]_calibrateVars

=============================================================================
