---------------------------- MODULE MCRecording ----------------------------
(***************************************************************************)
(* What a recording session keeps of an exchange: the answer as the client *)
(* was given it (Forward), with the values of the session blanked (Stream),*)
(* on disk (CassetteDir).  Each is a model of its own, of lengths, of      *)
(* events, of files: they share no state, and each is explored while the   *)
(* others rest in an initial state.  The states of this machine are those  *)
(* of the three, side by side, and a property of any of them holds here    *)
(* exactly if it holds there.                                              *)
(***************************************************************************)
EXTENDS Forward, MCStream, MCCassetteDir

\* A provider that answers, and one that refuses.
MCStatuses == {200, 429}

VARIABLE part  \* the one explored

ForwardRests ==
  answer = [status |-> OK, size |-> 0, type |-> "none", opens |-> FALSE] /\ ForwardInit
StreamRests == surface = Chunks /\ captured = {} /\ Init

PartsInit ==
  /\ DirInit
  /\ \/ part = "forward" /\ ForwardInit /\ StreamRests
     \/ part = "stream" /\ Init /\ ForwardRests
     \/ part = "directory" /\ StreamRests /\ ForwardRests

PartsNext ==
  \/ part = "forward" /\ ForwardNext /\ UNCHANGED <<part, vars, dirVars>>
  \/ part = "stream" /\ Next /\ UNCHANGED <<part, forwardVars, dirVars>>
  \/ part = "directory" /\ DirNext /\ UNCHANGED <<part, vars, forwardVars>>

PartsSpec ==
  PartsInit /\ [][PartsNext]_<<part, vars, forwardVars, dirVars>> /\ ForwardFairness
=============================================================================
