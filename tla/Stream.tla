------------------------------- MODULE Stream -------------------------------
(***************************************************************************)
(* What the recorder does to an event stream before it is stored: sse.go.  *)
(*                                                                         *)
(* A provider splits a text at arbitrary places.  CoalesceToolInput joins  *)
(* the pieces of a tool call's arguments and of a model's reasoning, and   *)
(* CoalesceTextSpanning the pieces of the visible answer a captured value  *)
(* straddles; then the value is blanked in the bytes of each event.        *)
(*                                                                         *)
(* An event is what the code tells apart: a delta of a block (messages) or *)
(* of an item (responses), a chunk of a chat completion with what its one  *)
(* choice carries, or any other event, the ones that do not parse included.*)
(* A text is a sequence of letters; what may be absent is a sequence of at *)
(* most one.                                                               *)
(***************************************************************************)
EXTENDS Naturals, SequencesExt

CONSTANTS
  Letters,      \* of texts
  Value,        \* the value the request's captures matched
  Blocks,       \* the deltas of anthropic.messages that may arrive
  Items,        \* the deltas of openai.responses
  Chunks,       \* the chunks of openai.chat
  MaxEvents     \* bound: events of a stream

VARIABLES
  surface,      \* the events this provider sends
  captured,     \* the values this request's captures matched
  stream        \* the events that went through the tap

vars == <<surface, captured, stream>>

\* A value is replaced by one letter.
Text == Seq(Letters \cup {"#"})
AtMostOne(S) == {s \in Seq(S) : Len(s) <= 1}

Other == [kind |-> "other"]
Delta(kind, index, field, text) ==
  [kind |-> kind, index |-> index, field |-> field, text |-> text]
Chunk(content, reasoning, calls, finish) ==
  [kind |-> "chunk", content |-> content, reasoning |-> reasoning,
   calls |-> calls, finish |-> finish]
Call(index, args) == [index |-> index, args |-> args]

Fields == {"args", "thinking", "text"}
Deltas(kind) == [kind : {kind}, index : Nat, field : Fields, text : Text]
\* A chunk names a call once.
Calls == {s \in Seq([index : Nat, args : Text]) :
            \A i, j \in DOMAIN s : s[i].index = s[j].index => i = j}
AllChunks == [kind : {"chunk"}, content : AtMostOne(Text), reasoning : AtMostOne(Text),
              calls : Calls, finish : BOOLEAN]
Events == {Other} \cup Deltas("block") \cup Deltas("item") \cup AllChunks

\* The loops of the code: a step for each element, which is a function.
Folded(step, base, s) ==
  LET f[n \in 0..Len(s)] == IF n = 0 THEN base ELSE step[f[n - 1]][s[n]]
  IN f[Len(s)]
Joined(texts) == Folded([t \in Text |-> [u \in Text |-> t \o u]], <<>>, texts)

-----------------------------------------------------------------------------
(* Which events are fragments, of what, and how the joined text goes back. *)

\* slip: the content a chunk carries beside the call is not looked at
IsToolFragmentOverContent(e) ==
  \/ e.kind \in {"block", "item"} /\ e.field \in {"args", "thinking"}
  \/ /\ e.kind = "chunk"
     /\ Len(e.calls) = 1 \/ (e.calls = <<>> /\ e.reasoning # <<>>)

\* toolFragment: a piece of arguments or of reasoning, the run it belongs to, its
\* text, and the joined text in its place.
IsToolFragment(e) ==
  \/ e.kind \in {"block", "item"} /\ e.field \in {"args", "thinking"}
  \/ /\ e.kind = "chunk" /\ e.content \in {<<>>, <<<<>>>>}
     /\ Len(e.calls) = 1 \/ (e.calls = <<>> /\ e.reasoning # <<>>)

Input == {e \in Events : IsToolFragment(e)}

ToolKey(e) ==
  IF e.kind = "block" THEN <<"block", "delta", e.index>>
  ELSE IF e.kind = "item" THEN <<"item", e.field, e.index>>
  ELSE IF e.calls # <<>> THEN <<"chunk", "call", e.calls[1].index>>
  ELSE <<"chunk", "reasoning", 0>>

ToolText(e) ==
  IF e.kind # "chunk" THEN e.text
  ELSE IF e.calls # <<>> THEN e.calls[1].args ELSE e.reasoning[1]

WithToolText(e, text) ==
  IF e.kind # "chunk" THEN [e EXCEPT !.text = text]
  ELSE IF e.calls # <<>> THEN [e EXCEPT !.calls = <<Call(@[1].index, text)>>]
  ELSE [e EXCEPT !.reasoning = <<text>>]

\* textFragment: the same of a piece of the visible answer. (A `tool_calls` that is
\* there and empty would make it none; the model takes empty for absent.)
IsTextFragment(e) ==
  \/ e.kind \in {"block", "item"} /\ e.field = "text"
  \/ e.kind = "chunk" /\ ~e.finish /\ e.calls = <<>> /\ e.content # <<>>
Answer == {e \in Events : IsTextFragment(e)}
TextKey(e) == IF e.kind = "chunk" THEN <<"chunk", 0>> ELSE <<e.kind, e.index>>

TextOf(e) == IF e.kind = "chunk" THEN e.content[1] ELSE e.text
WithTextOf(e, text) ==
  IF e.kind = "chunk" THEN [e EXCEPT !.content = <<text>>] ELSE [e EXCEPT !.text = text]

-----------------------------------------------------------------------------
(* CoalesceToolInput. *)

\* flushAll: one event for each run, in the order the runs began.
Rendered(runs) == [i \in DOMAIN runs |-> WithToolText(runs[i].frame, runs[i].text)]

Runs == Seq([frame : Input, text : Text])

\* A fragment opens a run, with its event as the frame, or lengthens its own.
Gathered(runs, e) ==
  LET open == {i \in DOMAIN runs : ToolKey(runs[i].frame) = ToolKey(e)}
  IN IF open = {}
     THEN Append(runs, [frame |-> e, text |-> ToolText(e)])
     ELSE [i \in DOMAIN runs |->
             IF i \in open THEN [runs[i] EXCEPT !.text = @ \o ToolText(e)] ELSE runs[i]]

\* Any other event ends every run, and so does the end of the stream.
ToolStep ==
  [s \in [out : Seq(Events), runs : Runs] |-> [e \in Events |->
     IF IsToolFragment(e) THEN [s EXCEPT !.runs = Gathered(@, e)]
     ELSE [out |-> Append(s.out \o Rendered(s.runs), e), runs |-> <<>>]]]
ToolFold(events) == Folded(ToolStep, [out |-> <<>>, runs |-> <<>>], events)

CoalesceToolInput(events) ==
  LET end == ToolFold(events) IN end.out \o Rendered(end.runs)

-----------------------------------------------------------------------------
(* CoalesceTextSpanning. *)

Holds(text, value) ==
  \E i \in 1..(Len(text) - Len(value) + 1) : SubSeq(text, i, i + Len(value) - 1) = value
Texts(raw) == [i \in DOMAIN raw |-> TextOf(raw[i])]

\* slip: the values are looked for in each piece
FlushedPiecewise(raw, values) ==
  IF \E v \in values, i \in DOMAIN raw : Holds(TextOf(raw[i]), v)
  THEN <<WithTextOf(raw[1], Joined(Texts(raw)))>>
  ELSE raw
\* slip: every run is folded
FlushedAlways(raw, values) ==
  IF raw # <<>>
  THEN <<WithTextOf(raw[1], Joined(Texts(raw)))>>
  ELSE raw

\* flush: one event where the joined text holds a value, else the run as it came.
Flushed(raw, values) ==
  LET joined == Joined(Texts(raw))
  IN IF \E v \in values : Holds(joined, v) THEN <<WithTextOf(raw[1], joined)>> ELSE raw

\* Another event, or a fragment of another run, ends the run.
TextStep(values) ==
  [s \in [out : Seq(Events), raw : Seq(Answer)] |-> [e \in Events |->
     IF ~IsTextFragment(e)
     THEN [out |-> Append(s.out \o Flushed(s.raw, values), e), raw |-> <<>>]
     ELSE IF s.raw # <<>> /\ TextKey(s.raw[1]) # TextKey(e)
     THEN [out |-> s.out \o Flushed(s.raw, values), raw |-> <<e>>]
     ELSE [s EXCEPT !.raw = Append(@, e)]]]
TextFold(events, values) == Folded(TextStep(values), [out |-> <<>>, raw |-> <<>>], events)

CoalesceTextSpanning(events, values) ==
  LET end == TextFold(events, values)
  IN IF values = {} THEN events ELSE end.out \o Flushed(end.raw, values)

-----------------------------------------------------------------------------
(* What is stored: Server.record. *)

\* The literal replacement of ApplyResponse, in one text.
BlankStep(values) ==
  [t \in Text |-> [c \in Letters \cup {"#"} |->
     LET longer == Append(t, c)
     IN IF \E v \in values : IsSuffix(v, longer)
        THEN LET v == CHOOSE x \in values : IsSuffix(x, longer)
             IN Append(SubSeq(longer, 1, Len(longer) - Len(v)), "#")
        ELSE longer]]
Blank(text, values) == Folded(BlankStep(values), <<>>, text)

\* ... and in the bytes of an event: a value split over two events is not there.
BlankEvent(e, values) ==
  IF e.kind = "other" THEN e
  ELSE IF e.kind # "chunk" THEN [e EXCEPT !.text = Blank(@, values)]
  ELSE [e EXCEPT
         !.content = [i \in DOMAIN @ |-> Blank(@[i], values)],
         !.reasoning = [i \in DOMAIN @ |-> Blank(@[i], values)],
         !.calls = [i \in DOMAIN @ |-> Call(@[i].index, Blank(@[i].args, values))]]

Coalesced(events, values) == CoalesceTextSpanning(CoalesceToolInput(events), values)
Blanked(events, values) == [i \in DOMAIN events |-> BlankEvent(events[i], values)]
Stored(events, values) == Blanked(Coalesced(events, values), values)

-----------------------------------------------------------------------------
\* What the providers send, external. A block holds arguments, or thinking, or text.
ASSUME StreamAssumption ==
  /\ "#" \notin Letters /\ Value \in Seq(Letters) /\ Value # <<>>
  /\ Blocks \subseteq Deltas("block") /\ Items \subseteq Deltas("item")
  /\ Chunks \subseteq AllChunks /\ MaxEvents \in Nat
ASSUME BlockAssumption == \A d, e \in Blocks : d.index = e.index => d.field = e.field

Init ==
  /\ surface \in {Blocks, Items, Chunks}
  /\ captured \in {{}, {Value}}
  /\ stream = <<>>

\* The provider sends one more event. The stream may end after any of them.
Arrive ==
  /\ Len(stream) < MaxEvents
  /\ \E e \in surface \cup {Other} : stream' = Append(stream, e)
  /\ UNCHANGED <<surface, captured>>

Next == Arrive
Spec == Init /\ [][Next]_vars

-----------------------------------------------------------------------------
(* What a client makes of a stream: the texts it reassembles, channel by   *)
(* channel, and what it had of them when anything else reached it.         *)

Pieces(e) ==
  IF e.kind = "other" THEN {}
  ELSE IF e.kind # "chunk" THEN {<<<<e.kind, e.field, e.index>>, e.text>>}
  ELSE {<<<<"chunk", "reasoning", 0>>, t>> : t \in ToSet(e.reasoning)}
         \cup {<<<<"chunk", "content", 0>>, t>> : t \in ToSet(e.content) \ {<<>>}}
         \cup {<<<<"chunk", "call", c.index>>, c.args>> : c \in ToSet(e.calls)}
Piece(e, channel) ==
  IF \E p \in Pieces(e) : p[1] = channel
  THEN (CHOOSE p \in Pieces(e) : p[1] = channel)[2] ELSE <<>>

\* The text of a channel in a stretch of events.
ChannelText(events, channel) == Joined([i \in DOMAIN events |-> Piece(events[i], channel)])
Channels(events) == UNION {{p[1] : p \in Pieces(events[i])} : i \in DOMAIN events}
Had(events) == [c \in Channels(events) |-> ChannelText(events, c)]

\* When it acts on them: what it was sent up to each such moment.
IsMark(e) == e.kind = "other" \/ (e.kind = "chunk" /\ e.finish)
MomentStep ==
  [s \in [seen : Seq(Events), moments : Seq(Seq(Events))] |-> [e \in Events |->
     LET seen == Append(s.seen, e)
     IN [seen |-> seen, moments |-> IF IsMark(e) THEN Append(s.moments, seen) ELSE s.moments]]]
Moments(events) == Folded(MomentStep, [seen |-> <<>>, moments |-> <<>>], events).moments
Reassembled(events) ==
  [i \in DOMAIN Moments(events) |-> Had(Moments(events)[i])] \o <<Had(events)>>

\* The stretches of a stream within which one event can follow another of its
\* run: nothing but fragments of that kind between them.
SameStretch(d, e) ==
  \/ IsToolFragment(d) /\ IsToolFragment(e)
  \/ ~IsToolFragment(d) /\ ~IsToolFragment(e)
       /\ IsTextFragment(d) /\ IsTextFragment(e) /\ TextKey(d) = TextKey(e)
StretchStep ==
  [ss \in Seq(Seq(Events)) |-> [e \in Events |->
     IF ss # <<>> /\ SameStretch(Last(ss)[1], e)
     THEN [ss EXCEPT ![Len(ss)] = Append(@, e)]
     ELSE Append(ss, <<e>>)]]
Stretches(events) == Folded(StretchStep, <<>>, events)

-----------------------------------------------------------------------------
\* Of the chunks, those that are joined carry nothing beside what is joined but the
\* empty text that may come with it. toolFragment and textFragment do not see to
\* that: they join chunks that carry a finish reason, or reasoning, as well, and
\* what these carry beside is lost (README, 6).
ChunksAlone ==
  \A e \in Chunks :
    /\ IsToolFragment(e) => ~e.finish /\ (e.calls = <<>> \/ e.reasoning = <<>>)
    /\ IsTextFragment(e) => e.reasoning = <<>>

\* Where a text was split is all a client cannot see: every text it reassembles,
\* and what it had of each when any other event reached it (the end of a block,
\* of the message, or of a choice), are the ones the provider sent; of providers
\* that send ChunksAlone. Of others the comment of toolFragment says so too: an
\* event that carries anything else "is written through untouched".
SameReassembly ==
  Reassembled(Coalesced(stream, captured)) = Reassembled(stream)

\* However the pieces of a text were split, and whatever was streamed beside it,
\* a captured value is out of what is stored unless some other event stood in
\* the middle of it: the text of each channel is what blanking the whole of each
\* unbroken stretch gives.
BlankedWhole ==
  LET stored == Stored(stream, captured)
      stretches == Stretches(stream)
  IN \A channel \in Channels(stream) :
       ChannelText(stored, channel) =
         Joined([i \in DOMAIN stretches |-> Blank(ChannelText(stretches[i], channel), captured)])

\* The visible answer keeps the events it came in, each and in their order, in
\* every unbroken stretch whose text holds no captured value. (A stretch that
\* holds one, were it within one event, is joined from end to end.)
PacedAnswer ==
  LET out == Coalesced(stream, captured)
  IN \A stretch \in ToSet(Stretches(stream)) :
       IsTextFragment(stretch[1]) =>
         \/ \E v \in captured : Holds(Joined(Texts(stretch)), v)
         \/ \E i \in 1..(Len(out) - Len(stretch) + 1) :
              SubSeq(out, i, i + Len(stretch) - 1) = stretch

(* What the documents claim and the code does not do.                      *)

\* The i-th of the texts has a part of a value that goes over one of its ends.
Straddled(texts, i, v) ==
  LET first == Len(Joined(SubSeq(texts, 1, i - 1))) + 1
      last == first + Len(texts[i]) - 1
      all == Joined(texts)
  IN \E k \in 1..(Len(all) - Len(v) + 1) :
       LET end == k + Len(v) - 1
       IN /\ SubSeq(all, k, end) = v
          /\ k <= last /\ end >= first
          /\ k < first \/ end > last

\* CoalesceTextSpanning "joins a model's VISIBLE answer, but only across the events
\* some value that must be substituted straddles": an event of the answer that no
\* value straddles is still there.
JoinsTheMinimum ==
  LET out == Coalesced(stream, captured)
  IN \A stretch \in ToSet(Stretches(stream)) :
       IsTextFragment(stretch[1]) =>
         \A i \in DOMAIN stretch :
           \/ \E v \in captured : Straddled(Texts(stretch), i, v)
           \/ stretch[i] \in ToSet(out)
=============================================================================
