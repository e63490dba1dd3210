---------------------------- MODULE Conversation ----------------------------
(***************************************************************************)
(* The names of one machine and of one run, taken out of a conversation    *)
(* when it is recorded and put back when it is replayed: Normalize.Apply,  *)
(* ApplyResponse and RestoreResponse (config.go), composed with the client *)
(* that carries every answer into its next request.                        *)
(*                                                                         *)
(* A text is a sequence of tokens: a path in one of its three forms, an    *)
(* identifier, a numbered placeholder of one, or the placeholder of a path.*)
(* There is one capture pattern, and every identifier stands where it      *)
(* matches.  The two sessions go turn by turn together, which is the replay*)
(* of what has been recorded so far.                                       *)
(***************************************************************************)
EXTENDS Naturals, SequencesExt

CONSTANTS
  Known,        \* identifiers the world brings: a prompt, a tool's output
  Invented,     \* identifiers the model makes up
  Forms,        \* the forms a path is written in
  MaxTurns,     \* bound: turns of the conversation
  MaxText,      \* bound: tokens of a prompt, an answer
  SelfMatching, \* does the pattern match its own placeholder, as <CHUNK>'s does
  Interleaved   \* may the world bring a name after the model made one up

ASSUME ConversationAssumption ==
  /\ Known \cap Invented = {}
  /\ MaxTurns \in Nat /\ MaxText \in Nat
  /\ SelfMatching \in BOOLEAN /\ Interleaved \in BOOLEAN

VARIABLES
  recorded,     \* what the client of the recording has said and been told
  replayed,     \* the same of the client of the replay
  cassette,     \* the steps: request and response as they are stored
  missed        \* a request of the replay did not align

vars == <<recorded, replayed, cassette, missed>>

Path(side, form) == [is |-> "path", of |-> side, what |-> form]
Id(side, name) == [is |-> "id", of |-> side, what |-> name]
Mark(form) == [is |-> "mark", of |-> "nobody", what |-> form]
Blank(n) == [is |-> "blank", of |-> "nobody", what |-> n]

Marks == {Mark(f) : f \in Forms}
Names(side) == {Path(side, f) : f \in Forms} \cup {Id(side, i) : i \in Known \cup Invented}

Texts(tokens, max) == UNION {[1..n -> tokens] : n \in 0..max}
Replaced(text, Token(_)) == [i \in DOMAIN text |-> Token(text[i])]

-----------------------------------------------------------------------------
(* config.go. What a request's captures matched is the sequence of them: the *)
(* n-th stands under the placeholder n.                                    *)

ApplyRoot(text, side) ==
  Replaced(text, LAMBDA t : IF t.is = "path" /\ t.of = side THEN Mark(t.what) ELSE t)
RestoreRoot(text, side) ==
  Replaced(text, LAMBDA t : IF t.is = "mark" THEN Path(side, t.what) ELSE t)

\* The pattern, and its distinct matches in a text by first appearance.
Matched(t) == t.is = "id" \/ (SelfMatching /\ t.is = "blank")
FirstAt(text) == {i \in DOMAIN text : Matched(text[i]) /\ \A j \in 1..(i - 1) : text[j] # text[i]}
Rank(text, i) == Cardinality({j \in FirstAt(text) : j <= i})
Matches(text) ==
  [n \in 1..Cardinality(FirstAt(text)) |->
     text[CHOOSE i \in FirstAt(text) : Rank(text, i) = n]]
PositionOf(t, ids) == CHOOSE n \in DOMAIN ids : ids[n] = t

\* compiledCapture.apply: each distinct match gets the next number.
Numbered(text, from) ==
  LET ids == Matches(text)
  IN Replaced(text, LAMBDA t : IF Matched(t) THEN Blank(from + PositionOf(t, ids) - 1) ELSE t)

\* slip: one number is left out
NextFreeSkipping(got) == Len(got) + 2
\* compiledCapture.next: the least number the request has not used.
NextFree(got) == Len(got) + 1

\* Normalize.Apply, and Key.Captured.
Apply(text, side) == Numbered(ApplyRoot(text, side), 1)
Captured(text, side) == Matches(ApplyRoot(text, side))

\* slip: what the request did not name is stored as it stands
ApplyResponseKnown(text, got, side) ==
  Replaced(ApplyRoot(text, side),
           LAMBDA t : IF t \in ToSet(got) THEN Blank(PositionOf(t, got)) ELSE t)
\* slip: the response is numbered on its own
ApplyResponseAfresh(text, got, side) == Apply(text, side)

\* The values of the request under its numbers, then whatever is left.
ApplyResponse(text, got, side) ==
  LET known == Replaced(ApplyRoot(text, side),
                        LAMBDA t : IF t \in ToSet(got) THEN Blank(PositionOf(t, got)) ELSE t)
  IN Numbered(known, NextFree(got))

\* What should not have been stored goes, then this run's values come back.
RestoreResponse(text, got, side) ==
  Replaced(RestoreRoot(Numbered(text, NextFree(got)), side),
           LAMBDA t : IF t.is = "blank" /\ t.what \in DOMAIN got THEN got[t.what] ELSE t)

-----------------------------------------------------------------------------
(* The client and the world, external. A message is who brought it and its *)
(* text; a request is the whole history.                                   *)

From(who, text) == [i \in DOMAIN text |-> [by |-> who, token |-> text[i]]]
TextOf(history) == [i \in DOMAIN history |-> history[i].token]

\* The same on the other machine: its own checkout, its own identifiers.
Elsewhere(t) == IF t.is \in {"path", "id"} THEN [t EXCEPT !.of = "replay"] ELSE t
There(text) == Replaced(text, Elsewhere)

\* The model's own names are the recording's: nothing else is known to it.
ModelsNames == Names("recording")
WorldsNames == {Path("recording", f) : f \in Forms} \cup {Id("recording", i) : i \in Known}

Init ==
  /\ \E prompt \in Texts(WorldsNames, MaxText) :
       /\ recorded = From("client", prompt)
       /\ replayed = From("client", There(prompt))
  /\ cassette = <<>>
  /\ missed = FALSE

\* Only a difference in what a tool answered is tolerated: the volatile paths.
Aligned(request, step) ==
  \A i \in DOMAIN request : recorded[i].by # "tool" => request[i] = step[i]

Brought(t) == t.is = "id" /\ t.what \in Known
MadeUp(t) == t.is = "id" /\ t.what \in Invented
Made(history) == \E t \in ToSet(TextOf(history)) : MadeUp(t)
Bring(result) == ToSet(Matches(result)) \subseteq ToSet(TextOf(recorded))

\* A turn of the conversation: the request is answered, the answer recorded; a
\* tool is run. Then the same request of the replay gets the stored answer. An
\* identifier in an answer is one the conversation knows, or one made up.
Turn ==
  /\ ~missed
  /\ Len(cassette) < MaxTurns
  /\ \E answer \in Texts(ModelsNames, MaxText), result \in Texts(WorldsNames, 1) :
       LET asked == TextOf(recorded)
           again == TextOf(replayed)
           stored == ApplyResponse(answer, Captured(asked, "recording"), "recording")
           given == RestoreResponse(stored, Captured(again, "replay"), "replay")
       IN /\ \A t \in ToSet(answer) : Brought(t) => t \in ToSet(asked)
          /\ Interleaved \/ Bring(result) \/ ~Made(recorded \o From("model", answer))
          /\ cassette' = Append(cassette, [request |-> Apply(asked, "recording"),
                                           response |-> stored])
          /\ recorded' = recorded \o From("model", answer) \o From("tool", result)
          /\ IF Aligned(Apply(again, "replay"), Apply(asked, "recording"))
             THEN /\ replayed' = replayed \o From("model", given) \o From("tool", There(result))
                  /\ UNCHANGED missed
             ELSE /\ missed' = TRUE
                  /\ UNCHANGED replayed

Next == Turn
Spec == Init /\ [][Next]_vars

-----------------------------------------------------------------------------
\* No name of the machine or of the run that recorded is in the cassette, whoever
\* brought it (SPEC.md R17a), and nothing else than placeholders is.
Portable ==
  \A step \in ToSet(cassette) :
    \A t \in ToSet(step.request) \cup ToSet(step.response) : t \in Marks \/ t.is = "blank"

\* The conversation of the replay is the recorded one with the names changed. A
\* path, and an identifier the world brought, is its own; one that the model
\* made up is a placeholder, the same wherever it was the same, and another
\* wherever it was another (SPEC.md R16, R17, R17a).
Renamed ==
  LET there == There(TextOf(recorded))
      made == {i \in DOMAIN replayed : MadeUp(there[i])}
  IN /\ \A i \in DOMAIN replayed \ made : replayed[i].token = there[i]
     /\ \A i \in made : replayed[i].token.is = "blank"
     /\ \A i, j \in made : (replayed[i].token = replayed[j].token) <=> (there[i] = there[j])

\* A replay in which the world answers as it did never misses: the names of the
\* two runs differ, their numbers do not.
NeverMisses == ~missed
=============================================================================
