------------------------------- MODULE Align -------------------------------
(***************************************************************************)
(* Whether a live request may be served a recorded one's answer: Align of  *)
(* internal/cassette/align.go, as the set of places where the two bodies   *)
(* differ.  ReplayStore takes this relation as a constant.                 *)
(*                                                                         *)
(* A body is a JSON value: a record with its kind and, for an object, its  *)
(* fields, for an array, its items, and its text for the rest.  A path is  *)
(* a sequence of segments, each a name and what its brackets hold.         *)
(*                                                                         *)
(* An operator marked "slip" is the definition below it with a plausible   *)
(* mistake; no specification uses it.                                      *)
(***************************************************************************)
EXTENDS Naturals, Sequences, SequencesExt

\* No body decodes as null: two bodiless requests align.
Null == [kind |-> "null", text |-> ""]
Text(s) == [kind |-> "string", text |-> s]
Array(items) == [kind |-> "array", items |-> items]
Object(fields) == [kind |-> "object", fields |-> fields]

\* What a bracket holds: nothing (of a rule: every element), the role that the
\* element names, or its index, counted from 0.
AnyElement == <<"any">>
ByRole(role) == <<"role", role>>
ByIndex(i) == <<"index", i - 1>>

Join(path, key) == Append(path, [name |-> key, inside |-> <<>>])
Within(path, bracket) ==
  IF path = <<>> THEN <<[name |-> "", inside |-> <<bracket>>]>>
  ELSE [path EXCEPT ![Len(path)].inside = Append(@, bracket)]

\* An element that names a role is spelled by it.
NamesRole(elem) == /\ elem.kind = "object" /\ "role" \in DOMAIN elem.fields
                   /\ elem.fields["role"].kind = "string"
                   /\ elem.fields["role"].text # ""
Spelling(elem, i) ==
  IF NamesRole(elem) THEN ByRole(elem.fields["role"].text) ELSE ByIndex(i)

-----------------------------------------------------------------------------
(* Volatile rules, which are paths.                                        *)

\* A rule without brackets claims the array as well as a bare field; one pair
\* of empty brackets claims any element, and of nested brackets none.
SegMatches(rule, seg) ==
  /\ rule.name = seg.name
  /\ rule.inside # <<>> => /\ seg.inside # <<>>
                           /\ rule.inside = <<AnyElement>> \/ rule.inside = seg.inside

\* Slip: a rule claims what is above it too.
CoveredEitherWay(path, rules) ==
  path # <<>> /\ \E r \in rules : \A i \in DOMAIN r \cap DOMAIN path : SegMatches(r[i], path[i])

\* A rule claims a path at it or below it.
Covered(path, rules) ==
  /\ path # <<>>
  /\ \E r \in rules : Len(r) <= Len(path) /\ \A i \in DOMAIN r : SegMatches(r[i], path[i])

\* Slip: the element the difference was seen in is kept where it is not the last.
GeneralizeEnd(path) ==
  [i \in DOMAIN path |->
     IF i < Len(path) THEN path[i]
     ELSE [path[i] EXCEPT !.inside = [b \in DOMAIN @ |-> AnyElement]]]

\* The rule that covers every element a difference could be seen in.
Generalize(path) ==
  [i \in DOMAIN path |-> [path[i] EXCEPT !.inside = [b \in DOMAIN @ |-> AnyElement]]]

-----------------------------------------------------------------------------
(* The walk.                                                               *)

\* Slip: an item without content is a husk too.
ContentlessOrBare(item) ==
  item.kind = "object" /\ ("content" \notin DOMAIN item.fields
                           \/ item.fields["content"] = Array(<<>>))

\* A husk: an item whose content is there, and an empty list.
Contentless(item) ==
  /\ item.kind = "object" /\ "content" \in DOMAIN item.fields
  /\ item.fields["content"] = Array(<<>>)

WithoutContentless(items) == SelectSeq(items, LAMBDA item : ~Contentless(item))

Difference(verdict, path) == [verdict |-> verdict, path |-> path]

\* Slip: a volatile field on one side only is passed over.
OneSidedUnreported(path, rulePath, rules) ==
  IF Covered(rulePath, rules) THEN {} ELSE {Difference("shape", path)}

\* A field that one of the two objects has.
OneSided(path, rulePath, rules) ==
  {Difference(IF Covered(rulePath, rules) THEN "tolerated" ELSE "shape", path)}

\* Reported at the list, once.
LengthsDiffer(path, rec, live) == {Difference("shape", path)}

RECURSIVE Walk(_, _, _, _, _)

WalkFields(rec, live, path, rulePath, rules) ==
  UNION {IF k \in DOMAIN rec \cap DOMAIN live
         THEN Walk(rec[k], live[k], Join(path, k), Join(rulePath, k), rules)
         ELSE OneSided(Join(path, k), Join(rulePath, k), rules) :
           k \in DOMAIN rec \cup DOMAIN live}

\* By position, husks aside; the recorded element says the role.
WalkItems(rec, live, path, rulePath, rules) ==
  IF Len(rec) # Len(live) THEN LengthsDiffer(path, rec, live)
  ELSE UNION {Walk(rec[i], live[i], Within(path, ByIndex(i)),
                   Within(rulePath, Spelling(rec[i], i)), rules) : i \in DOMAIN rec}

\* Volatility first, and nothing below it is looked at.
Walk(rec, live, path, rulePath, rules) ==
  CASE Covered(rulePath, rules) ->
         IF rec = live THEN {} ELSE {Difference("tolerated", path)}
    [] ~Covered(rulePath, rules) /\ rec.kind # live.kind -> {Difference("shape", path)}
    [] ~Covered(rulePath, rules) /\ rec.kind = "object" /\ live.kind = "object" ->
         WalkFields(rec.fields, live.fields, path, rulePath, rules)
    [] ~Covered(rulePath, rules) /\ rec.kind = "array" /\ live.kind = "array" ->
         WalkItems(WithoutContentless(rec.items), WithoutContentless(live.items),
                   path, rulePath, rules)
    [] OTHER -> IF rec = live THEN {} ELSE {Difference("leaf", path)}

DifferencesOf(rec, live, rules) == Walk(rec, live, <<>>, <<>>, rules)

-----------------------------------------------------------------------------
(* What alignment is meant to decide, defined on one body at a time.       *)

Blanked == [kind |-> "blank"]

\* The body with what the rules claim blanked out, the fields among it left out,
\* and, unless they count, husks left out.
RECURSIVE Meaning(_, _, _, _)
Meaning(v, rulePath, rules, husksCount) ==
  IF Covered(rulePath, rules) THEN Blanked
  ELSE CASE v.kind = "object" ->
              Object([k \in {k \in DOMAIN v.fields : ~Covered(Join(rulePath, k), rules)} |->
                        Meaning(v.fields[k], Join(rulePath, k), rules, husksCount)])
         [] v.kind = "array" ->
              LET kept == IF husksCount THEN v.items
                          ELSE SelectSeq(v.items, LAMBDA e :
                                 ~(e.kind = "object" /\ "content" \in DOMAIN e.fields
                                   /\ e.fields["content"].kind = "array"
                                   /\ e.fields["content"].items = <<>>))
              IN Array([i \in DOMAIN kept |->
                          Meaning(kept[i], Within(rulePath, Spelling(kept[i], i)),
                                  rules, husksCount)])
         [] OTHER -> v
=============================================================================
