---------------------------- MODULE MCRoundTrip ----------------------------
(* Values for RoundTrip: two threads.                                      *)
EXTENDS RoundTrip, SequencesExt

CONSTANTS main, side,    \* the threads
          title,         \* a title generation, shaped like bookkeeping
          turn1, turn2,  \* turns of the main loop
          poll,          \* one request asked again and again
          MaxRequests    \* of one thread

MCThreads == {main, side}
MCRequests == {title, turn1, turn2, poll}
MCRoute == [r \in MCRequests |-> "post"]
MCUnparsable == {}
MCShape == [r \in MCRequests |-> IF r = title THEN "single" ELSE "work"]
MCModelOf == [r \in MCRequests |-> IF r = title THEN 1 ELSE 2]
MCDifferences == [qr \in MCRequests \X MCRequests |-> IF qr[1] = qr[2] THEN 0 ELSE 1]

\* The main loop and another thread.
Pairs(S, n, T, m) == {[t \in MCThreads |-> IF t = main THEN p[1] ELSE p[2]] :
                       p \in BoundedSeq(S, n) \X BoundedSeq(T, m)}

\* Two threads of up to two requests, which they may have in common; a main
\* loop of up to MaxRequests and one title generation beside it.
MCBeside == Pairs({turn1, turn2}, MaxRequests, {title}, 1)
\* A main loop that makes its first request again, beside another thread: its
\* two steps of that request can be recorded out of turn with gaps that fit.
MCAgain == [t \in MCThreads |-> IF t = main THEN <<turn1, turn2, turn1>>
                                           ELSE <<poll, title>>]
MCPrograms == Pairs({title, poll}, 2, {title, poll}, 2) \cup MCBeside \cup {MCAgain}

MCWindows == {0, 1, 2}
=============================================================================
