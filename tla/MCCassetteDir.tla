--------------------------- MODULE MCCassetteDir ---------------------------
(* Values for CassetteDir.                                                 *)
EXTENDS CassetteDir

CONSTANTS x1, x2, x3, x4

MCExchanges == {x1, x2, x3, x4}

\* The process survives a write that left nothing, and dies in any other.
MCCrashes == {<<"nothing", "idle">>, <<"nothing", "down">>, <<"torn", "down">>}
\* In full: it may also survive a write that left a part of the line, and die having
\* written all of the line but its newline.
MCErrors == MCCrashes \cup {<<"torn", "idle">>, <<"unended", "down">>}
=============================================================================
