----------------------------- MODULE Normalize -----------------------------
(***************************************************************************)
(* What a request is matched by: Normalize of internal/cassette/           *)
(* normalize.go, and Normalize.CutPassages of config.go.                   *)
(*                                                                         *)
(* A client says the same thing in many ways: it marks what to cache, wraps*)
(* a text in a block, adds blocks about its installation and passages about*)
(* its machine, returns the results of tools in the order they finish, and *)
(* names its own build in the query.  Here it does all that to what it     *)
(* says, a step at a time, and the key must not notice.                    *)
(*                                                                         *)
(* A body is a JSON value as in Align, whose strings are sequences of what *)
(* the rules tell apart.  The substitutions on the canonical text are those*)
(* of Conversation; hashing is taken to be injective, and a body that is   *)
(* not JSON, which is hashed as it stands, is left out.                    *)
(***************************************************************************)
EXTENDS Align

CONSTANTS
  Words,        \* what a text can say
  Calls,        \* the ids of tool calls, in the order of strings
  MaxMessages,  \* bound: messages said
  MaxItems,     \* bound: texts and results of a message
  MaxChanges    \* bound: times the client changes how it says them

VARIABLES
  said,         \* what the client says: messages of texts and results of tools
  asked,        \* the parameters of the target it means
  body,         \* how it says it
  query,        \* the parameters of the target it names
  changes       \* times it was changed

normalizeVars == <<said, asked, body, query, changes>>

\* The tokens of a string beside words: white space; the head and the foot of a
\* system reminder, and what it says of the account; the head of a block about
\* the installation.
Space == "space"
Reminder == "reminder"
EndReminder == "end of reminder"
Account == "account"
Plugins == "plugins"

\* The rules: normalize.strip_fields, remove (each a run of tokens), drop, strip_query.
StripFields == {<<"messages", "content", "cache_control">>}
Removals == <<<<Account>>, <<Reminder, EndReminder>>>>
Markers == {Plugins}
QueryNames == {"client_version"}

-----------------------------------------------------------------------------
(* The tree passes. *)

IsObject(v) == v.kind = "object"
IsArray(v) == v.kind = "array"
Has(v, field) == IsObject(v) /\ field \in DOMAIN v.fields
Mapped(v, Pass(_)) ==
  CASE IsObject(v) -> Object([k \in DOMAIN v.fields |-> Pass(v.fields[k])])
    [] IsArray(v) -> Array([i \in DOMAIN v.items |-> Pass(v.items[i])])
    [] OTHER -> v

\* strip: one field path removed; a list on the way stands for each of its items.
RECURSIVE Strip(_, _)
Strip(v, path) ==
  CASE IsArray(v) -> Mapped(v, LAMBDA e : Strip(e, path))
    [] Has(v, path[1]) /\ Len(path) = 1 ->
         Object([k \in DOMAIN v.fields \ {path[1]} |-> v.fields[k]])
    [] Has(v, path[1]) /\ Len(path) > 1 ->
         Object([v.fields EXCEPT ![path[1]] = Strip(@, Tail(path))])
    [] OTHER -> v

IsBlank(s) == ToSet(s) \subseteq {Space}
TrimLeft(s) == IF IsBlank(s) THEN <<>>
  ELSE SubSeq(s, CHOOSE i \in DOMAIN s : s[i] # Space /\ IsBlank(SubSeq(s, 1, i - 1)), Len(s))
TrimRight(s) == Reverse(TrimLeft(Reverse(s)))

\* One pattern cut out of a string. A cut at either end takes the white space there.
CutPassage(s, pattern) ==
  LET starts == {i \in 1 .. Len(s) - Len(pattern) + 1 :
                   SubSeq(s, i, i + Len(pattern) - 1) = pattern}
      in == UNION {i .. i + Len(pattern) - 1 : i \in starts}
      out == FoldLeftDomain(LAMBDA t, i : IF i \in in THEN t ELSE Append(t, s[i]), <<>>, s)
      atStart == \E i \in starts : IsBlank(SubSeq(s, 1, i - 1))
      atEnd == \E i \in starts : IsBlank(SubSeq(s, i + Len(pattern), Len(s)))
      led == IF atStart THEN TrimLeft(out) ELSE out
  IN IF atEnd THEN TrimRight(led) ELSE led

\* slip: the patterns from the last to the first
CutStringBackwards(s) == FoldLeft(CutPassage, s, Reverse(Removals))

\* The patterns in order: a cut can leave what the next one takes.
CutString(s) == FoldLeft(CutPassage, s, Removals)

\* Whether a cut left nothing of a value: of a string, of an object with such a
\* value in it, of a list of nothing else.
RECURSIVE Emptied(_)
Emptied(v) ==
  CASE IsObject(v) -> \E k \in DOMAIN v.fields : Emptied(v.fields[k])
    [] IsArray(v) -> v.items # <<>> /\ \A i \in DOMAIN v.items : Emptied(v.items[i])
    [] OTHER -> v.kind = "string" /\ CutString(v.text) # v.text /\ IsBlank(CutString(v.text))

\* cutPassages: every string is cut, and the emptied items of a list go.
RECURSIVE CutPassages(_)
CutPassages(v) ==
  CASE v.kind = "string" -> Text(CutString(v.text))
    [] IsArray(v) -> Mapped(Array(SelectSeq(v.items, LAMBDA e : ~Emptied(e))), CutPassages)
    [] OTHER -> Mapped(v, CutPassages)

\* dropBlocks: items that open with a marker go.
OpensWith(e) ==
  /\ IsObject(e)
  /\ \E k \in DOMAIN e.fields :
       /\ e.fields[k].kind = "string"
       /\ TrimLeft(e.fields[k].text) # <<>>
       /\ TrimLeft(e.fields[k].text)[1] \in Markers
RECURSIVE DropBlocks(_)
DropBlocks(v) ==
  IF IsArray(v) THEN Mapped(Array(SelectSeq(v.items, LAMBDA e : ~OpensWith(e))), DropBlocks)
  ELSE Mapped(v, DropBlocks)

WithMessages(v, Pass(_)) ==
  IF Has(v, "messages")
  THEN Object([v.fields EXCEPT !["messages"] = Array([i \in DOMAIN @.items |-> Pass(@.items[i])])])
  ELSE v
WithContent(m, content) == Object([m.fields EXCEPT !["content"] = content])

IsOfType(e, type) == Has(e, "type") /\ e.fields["type"] = Text(<<type>>)
IsResult(e) == IsOfType(e, "tool_result")
RankOf(e) == CHOOSE i \in DOMAIN Calls : <<Calls[i]>> = e.fields["tool_use_id"].text

\* sortToolResults: the results of one message, by the call each answers, in the
\* places that results have; the ids are distinct, so that stability is not seen.
Sorted(items) ==
  LET ById(a, b) == RankOf(a) < RankOf(b)
      results == SortSeq(SelectSeq(items, IsResult), ById)
      Nth(i) == Len(SelectSeq(SubSeq(items, 1, i), IsResult))
  IN [i \in DOMAIN items |-> IF IsResult(items[i]) THEN results[Nth(i)] ELSE items[i]]
SortToolResults(v) ==
  WithMessages(v, LAMBDA m : IF IsArray(m.fields["content"])
                             THEN WithContent(m, Array(Sorted(m.fields["content"].items))) ELSE m)

\* collapseSingleTextBlocks: a lone block of nothing but a type and a text. (The
\* `system` field, which the code treats like a content, is left out.)
IsLoneText(content) ==
  /\ IsArray(content) /\ Len(content.items) = 1
  /\ IsOfType(content.items[1], "text") /\ DOMAIN content.items[1].fields = {"type", "text"}
CollapseSingleTextBlocks(v) ==
  WithMessages(v, LAMBDA m : IF IsLoneText(m.fields["content"])
                             THEN WithContent(m, m.fields["content"].items[1].fields["text"]) ELSE m)

\* Normalize: the passes in their order.
Canonical(v) ==
  LET stripped == FoldLeft(Strip, v, SetToSeq(StripFields))
  IN CollapseSingleTextBlocks(SortToolResults(DropBlocks(CutPassages(stripped))))

\* stripQuery, over the parameters in their order.
StripQuery(params) == SelectSeq(params, LAMBDA p : p \notin QueryNames)

-----------------------------------------------------------------------------
(* The client, external. *)

TextBlock(s) == Object([type |-> Text(<<"text">>), text |-> Text(s)])
Result(id, s) ==
  Object([type |-> Text(<<"tool_result">>), tool_use_id |-> Text(<<id>>), content |-> Text(s)])
Message(content) == Object([role |-> Text(<<"user">>), content |-> content])

\* An item says a word, alone or in a reminder, or is the result of a call.
Items == {TextBlock(<<w>>) : w \in Words} \cup {TextBlock(<<Reminder, w, EndReminder>>) : w \in Words}
           \cup {Result(id, <<w>>) : id \in ToSet(Calls), w \in Words}
\* What is said names its results by the calls they answer, in their order, and
\* says nothing twice.
InOrder(items) ==
  \A i, j \in DOMAIN items : i < j =>
    /\ items[i] # items[j]
    /\ IsResult(items[i]) /\ IsResult(items[j]) => RankOf(items[i]) < RankOf(items[j])
Sayable == {items \in UNION {[1..n -> Items] : n \in 1..MaxItems} : InOrder(items)}

Body(messages) == Object([messages |-> Array([i \in DOMAIN messages |-> Message(messages[i])])])
Contents(b) == [i \in DOMAIN b.fields["messages"].items |->
                  b.fields["messages"].items[i].fields["content"]]

NormalizeInit ==
  /\ said = <<>>
  /\ body = Body(<<>>)
  /\ asked \in {<<>>, <<"beta", "after">>}
  /\ query = asked
  /\ changes = 0

\* The client says one more thing, in blocks.
Say ==
  /\ changes = 0 /\ Len(said) < MaxMessages
  /\ \E items \in Sayable :
       /\ said' = Append(said, items)
       /\ body' = Body(Append(Contents(body), Array(items)))
  /\ UNCHANGED <<asked, query, changes>>

\* It says the same another way: the content of a message becomes `content`.
Change(m, content) ==
  /\ changes < MaxChanges
  /\ changes' = changes + 1
  /\ body' = Body([Contents(body) EXCEPT ![m] = content])
  /\ UNCHANGED <<said, asked, query>>

Blocks(m) == IF IsArray(Contents(body)[m]) THEN Contents(body)[m].items ELSE <<>>

Unwrap == \E m \in DOMAIN said :
  IsLoneText(Contents(body)[m]) /\ Change(m, Contents(body)[m].items[1].fields["text"])
MarkCache == \E m \in DOMAIN said : \E i \in DOMAIN Blocks(m) :
  LET marked == "cache_control" :> Text(<<"ephemeral">>) @@ Blocks(m)[i].fields
  IN Change(m, Array([Blocks(m) EXCEPT ![i] = Object(marked)]))
Finish == \E m \in DOMAIN said : \E i, j \in DOMAIN Blocks(m) :
  /\ i < j /\ IsResult(Blocks(m)[i]) /\ IsResult(Blocks(m)[j])
  /\ Change(m, Array([Blocks(m) EXCEPT ![i] = Blocks(m)[j], ![j] = Blocks(m)[i]]))
\* A block about the installation, or a reminder with the account and nothing else.
Install == \E m \in DOMAIN said : \E i \in DOMAIN Blocks(m) :
  \E s \in {<<Space, Plugins>>, <<Reminder, Account, EndReminder>>} :
    Change(m, Array(InsertAt(Blocks(m), i, TextBlock(s))))
\* The account in a reminder that says more, or a reminder at an end of a text.
SignIn == \E m \in DOMAIN said : \E i \in DOMAIN Blocks(m) :
  /\ Has(Blocks(m)[i], "text")
  /\ \E s \in LET t == Blocks(m)[i].fields["text"].text IN
       {<<Reminder, Account, EndReminder, Space>> \o t, t \o <<Space, Reminder, Account, EndReminder>>}
         \cup (IF t[1] = Reminder THEN {InsertAt(t, Len(t), Account)} ELSE {}) :
       Change(m, Array([Blocks(m) EXCEPT ![i] = Object([@.fields EXCEPT !["text"] = Text(s)])]))
\* A message of a reminder and nothing else, which is what a lost login leaves.
Notify == \E content \in {Text(<<Reminder, Account, EndReminder>>),
                          Array(<<TextBlock(<<Reminder, Account, EndReminder, Space>>)>>)} :
  /\ changes < MaxChanges
  /\ changes' = changes + 1
  /\ body' = Body(Append(Contents(body), content))
  /\ UNCHANGED <<said, asked, query>>
\* A new build names itself in the query.
Update ==
  /\ changes < MaxChanges
  /\ changes' = changes + 1
  /\ "client_version" \notin ToSet(query)
  /\ \E i \in 1 .. Len(query) + 1 : query' = InsertAt(query, i, "client_version")
  /\ UNCHANGED <<said, asked, body>>

NormalizeNext == Say \/ Unwrap \/ MarkCache \/ Finish \/ Install \/ SignIn \/ Notify \/ Update
NormalizeSpec == NormalizeInit /\ [][NormalizeNext]_normalizeVars

-----------------------------------------------------------------------------
\* What was said, in one form: a lone text bare.
PlainForm(items) ==
  IF Len(items) = 1 /\ Has(items[1], "text") THEN items[1].fields["text"] ELSE Array(items)

\* A client is matched by what it says and not by how: whatever it adds about its
\* machine, however it wraps, marks or orders it, and in whatever combination, the
\* canonical request is that of the plain one, and nothing it said is lost from it,
\* nor a parameter it asked with (SPEC.md R13 to R14).
KeyIsMeaning ==
  /\ Canonical(body) =
       Object([messages |-> Array([m \in DOMAIN said |-> Message(PlainForm(said[m]))])])
  /\ StripQuery(query) = asked
=============================================================================
