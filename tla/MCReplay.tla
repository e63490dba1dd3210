------------------------------ MODULE MCReplay ------------------------------
(***************************************************************************)
(* What a replay decides: which step a request is given, and, when it is   *)
(* refused, what an operator makes of the difference.  ReplayStore and     *)
(* Calibrate share no state, so each is explored while the other rests in  *)
(* an initial state: the states of this machine are those of the two, side *)
(* by side, and a property of either holds here exactly if it holds there. *)
(***************************************************************************)
EXTENDS MCReplayStore, MCCalibrate

VARIABLE part  \* the one explored

StoreRests == script = <<>> /\ lookahead = 0 /\ Init
CalibrateRests == recorded = Null /\ live = Null /\ declared = {} /\ CalibrateInit

PartsInit ==
  \/ part = "store" /\ Init /\ CalibrateRests
  \/ part = "calibrate" /\ CalibrateInit /\ StoreRests

PartsNext ==
  \/ part = "store" /\ Next /\ UNCHANGED <<part, calibrateVars>>
  \/ part = "calibrate" /\ CalibrateNext /\ UNCHANGED <<part, vars>>

PartsSpec == PartsInit /\ [][PartsNext]_<<part, vars, calibrateVars>>
=============================================================================
