------------------------------ MODULE MCStream ------------------------------
(* A small instance of Stream: a value of two letters, which only a join of *)
(* pieces can hold, and two calls, blocks or items at once.                *)
EXTENDS Stream

MCValue == <<"a", "b">>
MCLetters == {"a", "b"}
OneLetter == {<<c>> : c \in MCLetters}

MCBlocks ==
  {Delta("block", 0, "thinking", t) : t \in OneLetter}
    \cup {Delta("block", i, "args", t) : i \in {1, 2}, t \in OneLetter}
    \cup {Delta("block", 3, "text", t) : t \in OneLetter}
MCItems ==
  {Delta("item", 0, f, t) : f \in {"args", "thinking"}, t \in OneLetter}
    \cup {Delta("item", i, "text", t) : i \in {0, 1}, t \in OneLetter}

\* What the four providers send: the role with an empty text, a piece of one
\* kind, a text beside a call, two calls at once, the end of the choice with the
\* last of the text or alone.
MCChunks ==
  {Chunk(<<<<>>>>, <<>>, <<>>, FALSE), Chunk(<<>>, <<>>, <<>>, TRUE),
   Chunk(<<<<"b">>>>, <<>>, <<>>, TRUE),
   Chunk(<<<<"a">>>>, <<>>, <<Call(0, <<"b">>)>>, FALSE),
   Chunk(<<>>, <<>>, <<Call(0, <<"a">>), Call(1, <<"b">>)>>, FALSE)}
    \cup {Chunk(<<t>>, <<>>, <<>>, FALSE) : t \in OneLetter}
    \cup {Chunk(<<>>, <<t>>, <<>>, FALSE) : t \in OneLetter}
    \cup {Chunk(<<>>, <<>>, <<Call(i, t)>>, FALSE) : i \in {0, 1}, t \in OneLetter}

\* What a provider may send besides: the end of the choice with the last of the
\* arguments; reasoning beside the empty text.
MCMixedChunks ==
  MCChunks \cup {Chunk(<<>>, <<>>, <<Call(0, <<"b">>)>>, TRUE),
                 Chunk(<<<<>>>>, <<<<"a">>>>, <<>>, FALSE)}
=============================================================================
