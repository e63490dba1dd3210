---------------------------- MODULE MCCalibrate ----------------------------
(* Values for Calibrate: small requests of the chat and messages surfaces.  *)
EXTENDS Calibrate

\* The results and the prompts of a chat: text, a list of blocks, a husk, or
\* no content at all.
Contents == {Text("a"), Text("b"), Array(<<>>), Array(<<Text("a")>>)}
Message(role, content) == Object([role |-> Text(role), content |-> content])
Items == {Message("tool", c) : c \in Contents}
         \cup {Message("user", Text("a")), Message("user", Array(<<>>)),
               Object([role |-> Text("tool")]), Object([content |-> Text("b")])}

\* Of two, any and a tool result, a husk or an item without content.
Second == {Message("tool", Text("a")), Message("user", Array(<<>>)), Object([role |-> Text("tool")])}
Messages == {<<>>} \cup {<<i>> : i \in Items} \cup {<<i, j>> : i \in Items, j \in Second}
Meta == {Text("a"), Text("b"), [kind |-> "number", text |-> "a"]}

\* A message whose content is blocks, of which some are results of tools.
Blocks == {Object([content |-> c]) : c \in Contents}
          \cup {Object([content |-> Text("a"), is_error |-> Text("t")])}
Blocked == {<<Message("user", Array(b))>> : b \in BoundedSeq(Blocks, 2)}

\* A list directly in a list.
Nested == {<<Array(<<Text(c)>>)>> : c \in {"a", "b"}}

\* A body is absent, or has messages, and may have metadata.
MCBodies == {Null} \cup {Object([messages |-> Array(m)]) : m \in Messages \cup Blocked \cup Nested}
            \cup {Object([messages |-> Array(<<i>>), meta |-> t]) : i \in Second, t \in Meta}

Rule(names) == [i \in DOMAIN names |-> [name |-> names[i], inside |-> <<>>]]
ToolContent == <<[name |-> "messages", inside |-> <<ByRole("tool")>>],
                 [name |-> "content", inside |-> <<>>]>>
Shipped == {ToolContent} \cup
  {<<[name |-> "messages", inside |-> <<AnyElement>>],
     [name |-> "content", inside |-> <<AnyElement>>],
     [name |-> n, inside |-> <<>>]>> : n \in {"content", "is_error"}}

\* Nothing declared; what cs-vcr ships for tool results, with metadata.
MCRulesets == {{}, Shipped \cup {Rule(<<"meta">>)}}
=============================================================================
