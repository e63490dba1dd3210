----------------------------- MODULE MCSession -----------------------------
(* Values for Session: one cassette, and each way a request can go.        *)
EXTENDS Session

CONSTANTS h1, h2, demo

MCHandlers == {h1, h2}
MCNames == {demo}

Make(route, known, readable) ==
  [route |-> route, cassette |-> demo, known |-> known, readable |-> readable]

\* Requests of the agent, and of whoever checks on the proxy.
MCRequests == {Make("call", TRUE, TRUE), Make("call", FALSE, TRUE), Make("call", TRUE, FALSE),
               Make("probe", TRUE, TRUE), Make("probe", FALSE, TRUE)}
\* What cs-vcr answers without a cassette.
MCApart == {Make("tunnel", TRUE, TRUE), Make("tunnel", FALSE, TRUE),
            Make("backend", TRUE, TRUE), Make("astray", TRUE, TRUE)}
MCCalls == MCRequests \cup MCApart
=============================================================================
