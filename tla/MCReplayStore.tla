--------------------------- MODULE MCReplayStore ---------------------------
(* Values for ReplayStore: every script of up to MaxSteps steps.           *)
EXTENDS ReplayStore, SequencesExt

CONSTANTS probe,  \* a bodiless GET
          title,  \* a title generation: one message, no tools, a cheap model
          chat,   \* a single-message request without tools on the work's model
          turn,   \* a turn of the main loop
          upload, \* a body that is not JSON
          MaxSteps

MCRequests == {probe, title, chat, turn, upload}
MCRoute == [r \in MCRequests |-> IF r = probe THEN "get" ELSE "post"]
MCUnparsable == {upload}
MCShape == [r \in MCRequests |->
  CASE r \in {title, chat} -> "single" [] r = turn -> "work" [] OTHER -> "bare"]
MCModelOf == [r \in MCRequests |->
  CASE r = title -> 1 [] r \in {chat, turn} -> 2 [] OTHER -> 0]
MCDifferences == [qr \in MCRequests \X MCRequests |->
  CASE qr[1] = qr[2] -> 0 [] title \in {qr[1], qr[2]} -> 2 [] OTHER -> 1]

\* The sessions recorded: any sequence of at most MaxSteps requests.
MCScripts == BoundedSeq(MCRequests, MaxSteps)
MCWindows == {-1, 0, 1, 3}
=============================================================================
