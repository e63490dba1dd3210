# cs-vcr in TLA+

cs-vcr records the traffic between a coding agent and its model provider into
a *cassette*, and replays it later without the provider. This directory holds
a TLA+ model of the parts of it in which order, interleaving, failure and
accounting matter, TLC runs of it on small instances, and TLAPS proofs of what
matters most, for every instance.

All line numbers are those of `PROJECT.json`, which maps every definition to
the code it stands for. Paths are relative to the repository.

## 1. The system

| Part | State | Operations | Talks to |
|---|---|---|---|
| **Replay store** `internal/cassette/store.go` | `script` (the index in memory), `served` per step, `cursor`, `last`; caches of bodies, of the dominant model, of "some step is unshaped" | `Next` (select a step), `Append`, `Remaining`, `Response`; one mutex | the cassette on disk; handlers |
| **Cassette on disk** `internal/cassette/cassette.go` | `cassette.yaml`, `index.jsonl`, `req/NNNN.json`, `resp/NNNN.{json,sse}` | `Create`, `Open`, `Usable`, `Entries`, `Append`, `List` | the store; `prune`, `scrub`, `verify`, `show` |
| **Proxy server** `internal/proxy/proxy.go` | `stores` and `failed` by name (one mutex), `stats` (another) | `ServeHTTP` per request: route, open the cassette, read the body, normalize, then `Next` and serve, or forward and record | store, provider, client |
| **Tap** `internal/proxy/tap.go` | status, copy of the body, bounded; SSE flag | `WriteHeader`, `Write`, `Flush` | ReverseProxy, client |
| **Tunnel, backend, probe** `connect.go`, `backend.go` | two counters each | `serveConnect` (two copying goroutines), `serveBackend`, `serveProbe` | client, other hosts |
| **Session** `internal/cli/serve_command.go` | running, draining, done | `runServe`: signals, `drain` with a time-out, `summarize` and the exit status | server, operator |
| **Alignment** `internal/cassette/align.go` | none | `Align`: shape, leaf and tolerated differences of two JSON bodies under volatile paths | store |
| **Normalization** `internal/cassette/normalize.go` | values captured from a request | `Normalize`, `ApplyResponse`, `RestoreResponse` | proxy, scrub |
| **Stream coalescing** `internal/cassette/sse.go` | none | `CoalesceToolInput`, `CoalesceTextSpanning` | record, scrub |
| **Maintenance** `internal/cli/cassette_command.go`, `internal/cassette/scrub.go` | lists read from disk | `ls`, `show`, `verify`, `prune`, `scrub` | cassette on disk |
| **Miss dumps, calibration** `proxy.go`, `calibrate_command.go` | files in a directory | `dumpMiss` per miss, `calibrate` after | handlers; operator |
| **Configuration, command tree, agent configs** | read once at start | — | — |

One request runs in one goroutine; what handlers share is the store of a
cassette (under its mutex), the map of stores, and the counters. A handler
holds no lock while it reads a body, calls a provider, or writes to a client,
so anything may happen between its steps.

**What is hard in it.**

- *Order.* Agents pipeline. Steps are recorded in the order handlers *end*
  (`record` is deferred); requests come back in another order; some recorded
  ones do not come back, and some come twice. `Next` searches a window, moves a
  high-water mark, repeats old answers and lets bookkeeping calls through on
  their shape; the recorded order has to survive all of it.
- *Failure.* `Append` is three writes. A process may end, or a write may fail,
  between or within any two.
- *Others on the same files.* `prune` works from an index it read earlier.
- *The end.* A session stops while requests are in flight; it waits, but not
  for ever.
- *Streams.* A provider splits a text where it likes, and either side of a
  stream may go away in the middle of it. What is recorded has to hold what the
  client was given, be blanked where a value straddles events, and still come
  apart as the original did.
- *Names.* The names of a machine and of a run go out of what is stored and come
  back as those of another; the numbers of placeholders have to agree across
  two conversations of which one is fed by the other.
- *Accounting.* The summary and the exit status are what a pipeline sees.

What makes each part correct is stated as properties below; the hazards, at
their lines, are in `PROJECT.json` under `hazards`.

## 2. The modules

```
ScriptReplay   (abstract)  <--- implemented by --- ReplayStore
Store          (the state and Next of the store)  <-- extended by -- ReplayStore, RoundTrip
StepLog        (abstract)  <--- implemented by --- CassetteDir
Align          <-- used by -- Calibrate, Normalize
Forward        (one exchange and its replay; the bytes are positions)
Stream         (what record does to the events of a stream)
Conversation   (names taken out and put back, over two runs)
Session        (which step, and what an append does, abstracted away)
<module>_proofs EXTENDS <module>: Store, ReplayStore, RoundTrip, CassetteDir,
                Session, Forward, Stream, Conversation
MC<module>  EXTENDS <module>: values for TLC
MCReplay    EXTENDS MCReplayStore, MCCalibrate
MCRecording EXTENDS Forward, MCStream, MCCassetteDir
MCRequests  EXTENDS MCConversation, Normalize
```

### Store and ReplayStore: `Store.Next`

`Store` has the state and the operation `Serve(r)`, a call of `Next` with the
request `r`, and what holds of any such call. `ReplayStore` is the store alone,
over any script, asked anything; RoundTrip is the store between a recording and
its agent.

One call of `Next` is one step, since it holds the mutex throughout. The
variables are those of the `Store`: `script`, `served` (a set of positions
instead of a slice of booleans), `cursor`, `last`; `lookahead` is the argument
every call is given; `reply` is what the last call returned; `order` is a
history of the steps handed out fresh. Positions count from 1, so that a
position is the entry's `Seq`; `cursor` is then the code's `s.cursor + 1`.

| Code | Model |
|---|---|
| forward scan, lines 190–230 | `InWindow`, `Fits`, `ServeFresh`, `Claim` |
| newest served step that aligns, 241–249 | `Seen`, `Repeat` |
| bookkeeping, 256–276 | `MayBeAuxiliary`, `Spare`, `Spent`, `ServeAuxiliary`, `RepeatAuxiliary` |
| shape and dominant model, 389–510 | `Auxiliary`, `AuxiliaryEntry`, `HasUnshapedStep`, `DominantModel` |
| the miss and the step it names, 172–209, 278–300 | `Cost`, `Candidates`, `Closest`, `Miss` |

*Data.* A request is a model value that stands for a class of requests that
align with one another, method and path included. `Aligns` is equality of
classes, except that bodies that are not JSON align with nothing (`Align`
returns an error for them). So alignment is taken to be an equivalence, which
it is where the volatile paths do not depend on which of two bodies is
recorded: `SameMeaning` of Calibrate. What `Next` reads of a body
beyond that comes from constants: `Shape` (one message and no tools; more; or
neither), `ModelOf`, and `Differences` (how many differences `Align` counts).

Every body file is taken to be readable, which is what `StepsHaveBodies` of
CassetteDir shows of the cassettes that sessions leave.

### ScriptReplay: what replay promises

Per request, a queue of the steps recorded for it. A request takes the head of
its queue; or gets the step last taken once more; or, if nothing recorded for
it was ever taken, gets a step of another queue (the head, or the newest taken)
or is refused. No window, no cursor, no marks. `ReplayStore` implements it with
`taken <- served` and the answer read off `reply`.

### CassetteDir: the files

The disk (`yaml`, `request`, `response`, `index`, `ended`), the recording
process (`pc`, `script`, `current`), and a `prune --force` process. `Append` is
`Begin` and three writes, in the order `Stages`; every write may also be
interrupted, after which the process goes on with an error or is gone with its
memory. A file cut short is `Torn`; a line cut short does not parse, and
`ended` says whether the last line has its newline, since the next `O_APPEND`
write otherwise lands on it. `Cuts` says what an interrupted index write may
leave behind: the passing run has the process survive only writes that left
nothing, and die of them or in the middle of the JSON (`MCCrashes`);
`CassetteCrash` and `CassetteMerge` let every cut happen (`MCErrors`). A cassette
is recorded by one process at a time.

Nothing in the code keeps prune and a session apart. That they are is an
assumption on whoever starts them, stated in `DirNext` as `NobodyPrunes` and
`NobodyRecords` and apart from the actions, which have the code's guards alone;
`PruneAnytime` drops it, as the run `CassettePrune` does.

### StepLog: what recording promises

An append-only log: a recorded step stays, at its position. `CassetteDir`
implements it: the log is what a reader gets who stops at the first line that
does not parse or whose bodies are not both whole.

### RoundTrip: record, then replay

An agent of several threads, each making its requests in order, one at a time;
the proxy recording each exchange when its handler ends; then a second session
replaying the script to the same agent, through `Serve` of Store (which
RoundTrip extends), at whatever pace its threads take. A refused thread stops (a
miss answers 400, which no SDK retries; that choice is `reportMiss`'s comment).
`record` may also keep nothing (`KeepNothing`): no status was ever written,
cs-vcr's own error went to a client that had left, or the append failed. Between
the two phases the recording session is stopped, at any time: it drains
(`Reopen`), or is gone with what was in flight (`GiveUp`: the drain's time-out,
or a second signal). What left no step by one of these ways is in the history
`lost`. Every request is for a provider that is configured: one for another is
refused before anything is sent. `Retry` asks for the last answer again.
`Complete` (nothing lost), `GapsFit`, `Apart`, `InTurn` and `Parsable` say how a
recording must have gone for the replay to follow it. `InTurn` is about polls:
the handler of a first poll may end after that of a second, and the scan, which
takes the first step that aligns, then answers the first poll with the second
one's answer. What the thread asks for next may then lie beyond the window. The
agent is external: it is modelled as the tests and comments of the proxy
describe agents.

### Forward: one exchange, and its replay

`forward`, the tap, the ways the reverse proxy can end, `record`, and
`serveFromCassette` on the step. The bytes of an answer are positions, so
whatever was copied, sent or kept is a length. The header reaches the client
with the first bytes or before them (`FlushHeader`). `Leave` is the client
hanging up, at any point; `Cut` and `Fail` are the provider, or net/http
cancelling the call of a client that left (`Abandon`). A write to a client that
left may still be taken by the kernel, or panic. `Record` is the deferred call,
on every way out; `Close` is the server flushing what it holds back (cs-vcr's
own error, or the header of an empty answer). `Serve`, `Play` and `Played` are
the replay: a stream event by event, anything else in one write. The provider is
external.

### Stream: what record does to the events

Both folds of `sse.go` and the blanking after them, as operators over a stream
that grows by an event at a time and may end after any. An event is what
`toolFragment` and `textFragment` tell apart; a text is a sequence of letters,
and the captured value two of them, so that only a join can hold it. The
reference is the client: `Reassembled`, the texts of each channel and what it
had of them whenever any other event reached it; and `Stretches`, where an event
can follow another of its run.

The loops of the code are `Folded`, a step for each element: `ToolStep` and
`TextStep` are the bodies of the two loops, on what is written out and what is
held back (`pending`). A step is a function, and `Folded` a recursive function
rather than a recursive operator, so that the loops can be reasoned about for
streams of any length. `MaxEvents` bounds the stream.

What the providers send is assumed: a block holds arguments, or thinking, or
text (`BlockAssumption`, a comment of `toolFragment` says so), and a chunk names
a call once (`Calls`). A chunk may carry anything together. `ChunksAlone` says
that one that is joined carries nothing beside its text but the empty text that
may come with it; it is a hypothesis of the theorems, not of the module, and the
run `StreamChunks` has chunks without it (section 6). A `tool_calls` that is there
but empty is taken for absent, where `textFragment` tells the two apart.

### Conversation: names out and in

`Apply`, `ApplyResponse` and `RestoreResponse` of `config.go`, composed with a
client that carries every answer into its next request. Two runs go turn by
turn: one recorded, one replayed by a world that says the same under its own
names. Identifiers are brought by the world or made up by the model. A text is a
sequence of tokens, and the one capture pattern matches every identifier: a
match has a number when it appears for the first time (`FirstAt`), which is the
number of first appearances up to there (`Rank`). With
`SelfMatching` it also matches its own placeholder, and with `Interleaved` the
world may bring a name after the model made one up (section 6).

### Normalize: what a request is matched by

The tree passes of `normalize.go` in their order, `CutPassages` and the query,
over the JSON values of Align, with strings as sequences of what the rules tell
apart. The client is external: it says something, then changes how it says it
(`Unwrap`, `MarkCache`, `Finish` of tools in another order, and so on), and the
key must be that of the plain way, and the query that is left the one `asked`.
Hashing is taken to be injective; a body that is not JSON is hashed as it stands
and left out, and so is the `system` field, which the passes treat as they treat
the content of a message (normalize.go:185).

### Session: from the first request to the summary

`runServe` (`phase`, `timedOut`, `summary`, `exit`) and one handler per
request (`pc`, `call`, `reply`). A handler's step ends wherever the code gives
up a lock or waits: it looks the cassette up (`OpenCassette`, through
`StoreFor`), reads the body, selects and counts, or sends, tells the client,
appends, counts and leaves. Every way `ServeHTTP` can end is an action or a
disjunct of one. The counters are those of `Stats` that the summary adds up or
the exit status needs. Which step is selected and whether an append works are
nondeterministic: they are the subject of ReplayStore and CassetteDir. A
cassette's directory is `absent`, `stale` (does not open) or `whole`, and may
appear while a replay session runs. `offline` is chosen in the initial state,
so one run covers record and replay.

The drain waits for every handler but those of tunnels, whose connections have
been hijacked; a tunnel whose connection cannot be is over at once
(`Unconnected`). When it gives up, handlers go on while the summary is made. A
second signal ends the process. A `base_url` that does not parse is left out:
`Resolve` refuses the configuration before the session starts. A request that
arrives on an accepted connection after the drain was given up is left out too.

### Align and Calibrate: what counts as the same request

`Align` is `walk` over JSON values, as the set of places where two bodies
differ, each with its verdict. A value keeps its kind; an object is a function,
a list a sequence, a path a sequence of segments with what their brackets hold
(`cutIndex` is modelled by what it returns, nested brackets included: they are
one string). `Meaning` is the reference: one body, with what the rules claim
blanked out and husks (items whose content is an empty list) left out.

`Calibrate` puts it to work: a request is replayed against a step, misses and is
dumped; `calibrate` prints rules; the operator pastes one; and again. The
operator is external. One step and one request; a dump that names no step is
left out.

## 3. The runs

| Run | Instance | Shows |
|---|---|---|
| `Replay`, `ReplayStore` in it | every script of up to 4 steps over 5 kinds of request (probe, title, single-message chat, turn, not-JSON upload), windows -1, 0, 1, 3, bookkeeping on | the invariants of the store below, `WindowNeverCloses`, implements `ScriptReplay` |
| `Replay`, `Calibrate` in it | every pair of about seventy bodies of the chat and messages surfaces, a list directly in a list among them, no rules or the shipped ones, and any rules proposed after | alignment is equality of meaning, hence an equivalence; no disagreement is passed over; a rule excuses what it claims and nothing else; pasting them all is enough |
| `RoundTrip` | two threads, programs of up to two requests with requests in common, up to three turns beside a title, and a first turn made again beside another thread; windows 0, 1 and 2; one retry; any exchange kept or not, the session stopped or given up at any point | no exchange is lost but by one of those ways, nothing is missed when the recording is complete and its gaps fit, each request gets its own answer, and the session ends |
| `Recording`, `Forward` in it | answers of up to 4 bytes of every content type, a copy of 3, an own error of 1; both sides may go away at any point; an interim answer | nothing a client was given is lost, a replay gives it again, a call whose client left ends |
| `Recording`, `Stream` in it | up to 4 events of each surface, of every kind the folds tell apart, with a captured value of two letters or none | a client reassembles the same, a split value is blanked, an answer without one keeps its events |
| `Recording`, `CassetteDir` in it | 4 exchanges, streamed or not, any number of ends and restarts of the process, prune between sessions | bodies before entries, numbering, implements `StepLog` |
| `Session` | two requests of nine kinds, one cassette absent, stale or whole, record and replay, listeners that may fail | the counters of a summary agree, misses decide the exit status, one verdict per cassette, a signalled session stops |
| `Requests`, `Conversation` in it | 2 turns, prompts and answers of up to 2 tokens, 2 names of the world's and 2 of the model's, both forms of a path | nothing of the recording machine is stored, the replay sees its own names, nothing misses |
| `Requests`, `Normalize` in it | a message of up to 3 items (a word, a reminder, results of two calls), up to 3 changes at once | the key is that of what is meant |
| `CassetteCrash`, `CassetteMerge`, `CassettePrune`, `StreamChunks`, `StreamJoins`, `ConversationNames`, `ConversationChunk` | the same instances, or smaller ones, with the faults, chunks or names that the passing run leaves out | one sentence each of the documents or comments that the code does not keep (section 6) |

**Several models in one run.** `MCReplay`, `MCRecording` and `MCRequests` put
modules side by side that share no variable: `part` names one, which is explored
while the others rest in an initial state. The states are those of the parts,
added and not multiplied, and a property of a part holds in the run exactly if
it holds of the part alone.

**Why the bounds are enough.** Every clause of `Next` needs at most: a step
behind the cursor, one at it, one between frontier and window, one beyond. Four
steps with windows 0 and 1 give all of these at once, with two identical steps
and a straggler; a window of 3 reaches every step and -1 none. Five kinds of
request give each shape, two models with either one dominant, two routes and a
body that does not parse. In CassetteDir four exchanges allow an attempt cut
short, a successful reuse of its number, and two more (without symmetry, since
the run checks liveness too). In RoundTrip the
threads' programs contain a poll asked twice, a shared request, and a title
beside a main loop whose record may land anywhere among the turns, and a
request made again whose steps are recorded out of turn with gaps that fit in a
window of two. In Session
handlers meet only in the counters and in the verdict on a cassette, so two of
them meet in every way; the kinds of request cover each early return. In
Calibrate lists have up to two items, which is what it takes for a husk to shift
the other item's index, and bodies go as deep as the deepest shipped rule; text
has two values, since only equality is asked of it. In Forward an answer can be
shorter than the copy, fill it, and exceed it by one, in one piece or byte by
byte, and its first piece can be shorter than what tells a stream. In Stream
four events are a run, an event of another run in it, and one that ends it; two
letters are the least a join is needed for. In Conversation two turns are what
it takes for a name that the first made up to come back in the second, beside
what a tool brought between them. In Normalize three changes let any three ways
of saying the same meet in one message.

**Properties.** Of `ReplayStore`: `IInv`, the inductive invariant, ties
`cursor`, `last`, `served` and the history together (`Positions`,
`HandedOutOnce`); `InRecordedOrder` says that a session takes the steps of a
request in order; `RepeatIsMostRecent` that "the highest served position" is the
most recent answer although stragglers and bookkeeping come in any order;
`MissOnlyBeyondWindow` and `MissNamesOwedStep` say when a refusal comes and what
it names; `AuxiliaryToldApart` when a bookkeeping answer may be given;
`WindowNeverCloses` that progress never takes a reachable step out of reach. Of
`CassetteDir`: `StepsHaveBodies`, `SeqIsPosition`, `ImplementsStepLog`. Of
`RoundTrip`: `IInv`, the inductive invariant, with the ledger of the exchanges;
`RecordedOnce` (one step of each exchange, and none of those in `lost`),
`NoMissWhenGapsFit`, `OwnAnswers`, and the liveness properties `Ends` and
`Replays`. Of `Session`: `SummaryAddsUp`, `MissesFailTheBuild`, `OneVerdict`,
and the liveness property `Stops`. `SummaryAddsUp` is about the counters as the
code has them. Whenever a summary is printed, beside handlers that go on too, no
request is in two of replayed, rejected and upstream, and what went upstream is
recorded or in flight unless it is over and was not kept; after a complete drain
nothing is in flight, and the counters make up the requests but for the two
kinds that none has, unreadable bodies and exchanges not kept. (The manual's
equation, in which `rejected` has every refusal, is not what the code counts:
section 6.) Of `Calibrate`: `SameMeaning`, `NeverSilent`, `DeclaringIsExact`,
and `PastingSuffices`, that a round ends: when all that `calibrate` printed is
declared it prints nothing more, but for a list directly in a list. Of
`Forward`: `NothingLost`, `FaithfulReplay`, and the liveness property `Settles`.
Of `Stream`: `SameReassembly`, `BlankedWhole`, `PacedAnswer`. Of `Conversation`:
`Portable`, `Renamed`, `NeverMisses`. Of `Normalize`: `KeyIsMeaning`.
`SameMeaning` is stated for rulesets that tolerate no change of role: under one
that does, the walk takes the role from the recorded body alone.

**Fairness.** `Session` assumes that `runServe` itself goes on (a goroutine that
is not blocked runs; the drain has a deadline), and nothing of handlers, clients
and providers. In `RoundTrip` each thread that has a request to
make makes it (the agent is running), the provider answers each request in
flight and each handler ends, with a step or without (weakly fair per thread:
handlers are goroutines, and neither waits on the other), and the recorded session
is stopped and reopened. Nothing makes a drain be given up. `Retry`
is not fair. `Forward` assumes that a client that left cancels its call
(net/http cancels the context of a request whose connection is gone, and the
reverse proxy ends with it), that a deferred call runs, and that the server
flushes what a handler left; nothing of providers or of clients. The other
modules state no liveness.

**Mutants.** Each property is paired with a plausible mistake in one mapped
definition under which TLC finds it violated; the mistaken definitions are the
operators marked "slip" in the modules, which no specification uses.

## 4. What is proved

`ReplayStore_proofs` proves, for every set of requests, every script, every
integer window and both settings of bookkeeping, from the assumptions of
`ReplayStore` alone (types of the constants; a body that does not parse has the
shape "bare"):

| Theorem | Statement |
|---|---|
| `Invariant` | `Spec => []IInv` |
| `TypeCorrect` | `Spec => []TypeOK` |
| `RecordedOrder` | `Spec => []InRecordedOrder` |
| `RepeatsAreMostRecent` | `Spec => []RepeatIsMostRecent` |
| `MissesAreHonest` | `Spec => [](MissOnlyBeyondWindow /\ MissNamesOwedStep)` |
| `MissesNameOwedSteps` | `Spec => []MissNamesOwedStep` (the second half, on its own) |
| `BookkeepingIsToldApart` | `Spec => []AuxiliaryToldApart` |
| `WindowKeepsOpen` | `Spec => WindowNeverCloses` |
| `Implements` | `Spec => ImplementsScriptReplay` |

*The argument.* Every handout takes a step at the head of its request's queue:
for `ServeFresh` because the scan starts at the cursor, behind which everything
is served, and takes the least that aligns (`FreshIsAtHead`); for bookkeeping
because whether a step is bookkeeping depends on its request alone, and the
least such step is taken (`SpareIsAtHead`). `InRecordedOrder` follows, and with
the history (`HandedOutOnce`, `HandedOutByRequest`) it says that "highest
position served" and "handed out last" are the same among equal requests, which
is what a repeat needs (`SeenIsNewest`). `Positions` is needed because the scan
for a repeat is bounded by `last`, and the scan for a fresh step by `cursor`.
`ServedParsable` is needed by the refinement only: a request that is not JSON
never was answered, so the abstract one may be refused. `IInv` is the
conjunction; it is inductive, and TLC checks it too. A miss names the candidate
of the least cost among finitely many that are owed, so one whenever there is
one (`MissNamesOwedSteps`); a dominant model is one of those that the steps
name, for the same reason (`BookkeepingIsToldApart`). What these proofs need of
one call of `Serve`, whoever makes it, is in `Store_proofs`.

`RoundTrip_proofs` proves, for any number of threads, any programs, any windows
and any number of retries, from the assumptions of `Store` and `RoundTrip`:

| Theorem | Statement |
|---|---|
| `Invariant`, `TypeCorrect` | `Spec => []IInv`, `Spec => []TypeOK` |
| `EveryExchangeOnce` | `Spec => []RecordedOnce` |
| `NeverRefused` | `Spec => []NoMissWhenGapsFit` |
| `AnsweredByItsOwn` | `Spec => []OwnAnswers` |

*The argument.* `Ledger` says that an exchange that was made is flying, ending,
lost or recorded, and one of them alone. After a drain none is flying or ending,
and a session given up loses those that are; so in the replay each is lost or has
its step.
While recording every step is behind the cursor (`AtTheEnd`); once it is
reopened the store keeps the invariant of ReplayStore, `StoreInv` (`Rewound`).
`Keeping` is what a replay that can be followed adds: the steps of what the
threads have asked for are served. So the least step that is not served, the
frontier, is the next step of its thread or one after it; a thread that asks
next has, of the steps before its own, at most the gap of its thread beyond the
frontier, hence the step within the window; and since the request is no other
thread's, and its steps are in turn, the scan finds this very step or one that
was asked for already. That is `NoMissWhenGapsFit`, and without retries, or
with requests made once each, `OwnAnswers`. `InTurn` came out of the proof: with
gaps that fit but polls recorded out of turn the step of a later poll is taken
for an earlier, and a thread may then miss (the programs `MCAgain` of the run
have such recordings).

`CassetteDir_proofs` proves, for every set of exchanges, under the hypothesis
`Crashes` of each theorem (a process survives only a write of the index line that
left nothing, it may die in any write, and prune does not run while a session
records):

| Theorem | Statement |
|---|---|
| `Invariant`, `TypeCorrect` | `DirSpec => []IInv`, `DirSpec => []DirTypeOK` |
| `BodiesFirst` | `DirSpec => []StepsHaveBodies` |
| `NumbersArePositions` | `DirSpec => []SeqIsPosition` |
| `Implements` | `DirSpec => ImplementsStepLog` |

*The argument.* `Lines` says that the n-th line has the number n and that the
index is not readable while its last line lacks the newline; so a session that
opens appends to a line of its own (`LineAppended`). `Memory` says that a process
that is up knows all of the index, so that the number it gives next is one that
no line has and the bodies it writes are of no line; and that, at each stage of
`Append`, the bodies already written are whole. `Room` bounds the index by the
exchanges begun, so that there is a number left. `Pruning` says that what prune
lists is disjoint from what the entries name, since nobody appends meanwhile.
For the refinement, what lasts is every line but a torn last one
(`DurableIsKept`): writing a line appends the exchange in hand, which no line
has, and every other step leaves the log alone (`StepImplements`).

The hypothesis `Crashes` is needed: without its first part the next line lands on
the torn one, and without its second prune takes the bodies of a step added
after its scan. The runs `CassetteMerge` and `CassettePrune` show either, and what
the documents say of these two cases is therefore not among the theorems.

`Session_proofs` proves, for every set of handlers, names and cassettes:

| Theorem | Statement |
|---|---|
| `Invariant`, `TypeCorrect` | `Spec => []IInv`, `Spec => []TypeOK` |
| `SummariesAddUp` | `Spec => []SummaryAddsUp` |
| `MissesDecideTheExit` | `Spec => []MissesFailTheBuild` |
| `OneVerdictEach` | `Spec => []OneVerdict` |

*The argument.* Each counter is the number of handlers that a predicate on the
place of one handler holds of (`In`, `Accounted`). A step of a handler moves
that one alone, so it changes each of these sets by that one element or not at
all. When everything was waited for all handlers are `idle` or `done`, or
tunnels, and nothing moves any more (`Settled`); the equations of the summary
are then between the cardinalities of disjoint sets of handlers that are done.
Of a drain that was given up the inequalities hold at the moment of the summary,
since the sets of handlers that are replayed, rejected and sent upstream are
disjoint at any moment, and each of the last is recorded, in flight, or over and
not kept. `Verdicts` carries the decision of `storeFor` from the handler that
made it to all that name the cassette.

`Forward_proofs` proves, for every length of answer, limit of the copy, set of
statuses and way of splitting an answer into chunks:

| Theorem | Statement |
|---|---|
| `Invariant`, `TypeCorrect` | `ForwardSpec => []IInv`, `ForwardSpec => []ForwardTypeOK` |
| `NothingIsLost` | `ForwardSpec => []NothingLost` |
| `ReplayIsFaithful` | `ForwardSpec => []FaithfulReplay` |

*The argument.* The copy and what it leaves out are together what passed the tap
(`Copied`); a client that is still there was given all of that (`Given`); cs-vcr's
own error is told only at the end, to a client that is still there
(`OwnErrors`), which is just when `record` keeps it (`Kept`).

`Stream_proofs` proves, for any letters, any value that is not empty, any events
of a provider whose chunks carry nothing beside what is joined (`ChunksAlone`, the
hypothesis of each theorem), and streams of any length:

| Theorem | Statement |
|---|---|
| `Kept` | `Spec => []Inv` |
| `Reassembly` | `Spec => []SameReassembly` |
| `OutOfWhatIsStored` | `Spec => []BlankedWhole` |
| `Pacing` | `Spec => []PacedAnswer` |

*The argument.* One more element of a loop is one more step (`FoldStep`, by
induction over the length: the set of lengths for which it holds has 0 and is
closed under successor). So both loops can be followed together as the stream
grows. At any time something is out for good (`Out`), pieces of the answer are
held back behind it (`Raw`), and open runs behind those (`Open`); `Coalesced` is
what they give when the stream ends there (`CoalescedIs`). An event does one of
four things (`Going`): it goes into a run, it continues the pieces held back, it
puts everything out and starts a new piece, or it puts everything out and
follows. The invariant, in the proof module, has three parts beside the types.
`Shaped`: the runs are of different calls, the pieces of one block, item or
choice. `Faithful`: all there is says, channel by channel, what the stream says
(an event that is gathered can be put last, `GatheredIs`, since a run is of a
channel of its own, `ToolKeys`), and what is out up to each moment at which a
client acts says what had been sent by then; such an event is no fragment, so
nothing is held back behind it. `Cut`: the stretches of the stream are those
that are out, then the pieces held back, then the fragments the open runs
gathered; and what is out of the former is the text that blanking the whole of
each gives. That last needs what blanking does to a run of pieces, joined or
not: joined, it is blanked whole; not joined, the joined text holds no value,
so neither does any piece (`FlushedIs`), and a run is one event for its channel
(`BlankedRuns`). `Pacing` needs that a stretch of the answer, once out, stays
there in one piece (`StillWithin`).

`Conversation_proofs` proves, for any names, forms, turns and lengths of texts,
when the pattern does not match its own placeholder (`~SelfMatching`) and the
world names things before the model does (`~Interleaved`):

| Theorem | Statement |
|---|---|
| `Invariant` | `Spec => []IInv` |
| `CassetteNamesNobody` | `Spec => []Portable` |
| `RenamedThroughout` | `Spec => []Renamed` |
| `ReplayNeverMisses` | `Spec => []NeverMisses` |

*The argument.* The first appearances of a text, counted, are its numbers: `Rank`
is one to one between them and `1..n` (`Ranks`, `RankReached`), and what is
captured under a number is what appears there (`Captures`). The invariant is in
the proof module. `Echoes` says that the replay's history is the recording's
under its own names, and that in place of a name the model made up stands the
number that it has in the recording. `BroughtFirst` says that what the world
brought appeared before what the model made up: so the world's names have the
first numbers of the recording, which are theirs in the replay too, though that
captures nothing else (`HeardNumbers`). Hence the two requests are stored alike
(`RequestsAlign`). A stored answer carries the numbers that request and answer
have as one text (`AnswerStored`, which rests on numbers being kept when a text
goes on, and continued for what is new), and given back, the numbers of the
world's names become this run's, while those of made-up names lie outside what
the replay captured and stay (`AnswerGiven`), which is `Echoes` of the longer
history (`TurnKeeps`).

The two hypotheses are exactly what the two runs that violate `Renamed` drop, one
each (section 6).

*Only model-checked:*

- Liveness (`Ends`, `Replays`, `Stops`, `Settles`): TLAPS does not prove it.
- `SameMeaning`, `NeverSilent`, `DeclaringIsExact`, `PastingSuffices` of
  Calibrate and `KeyIsMeaning` of Normalize: `Align` and the passes of
  `Normalize` are recursive operators over JSON values.
- That `GapsFit`, `InTurn` and the rest are necessary: a miss does happen without
  them, and TLC finds it, but nothing says that each recording without them misses.

## 5. What is not modelled

- The one-way `replace` rules (constant texts), and hashing.
- Loading, merging and validating the configuration: it happens once, before
  anything runs, and its values are constants here.
- `scrub`: regular expressions over files nobody records into.
- The bytes of a tunnel, which are not recorded. Of the two copying goroutines
  the first to end closes both connections, with bytes of the other under way
  (connect.go:151); no document promises them.
- Concurrent miss dumps: two misses against one step write files of one name,
  and no document says which of them a dump shows.
- A step whose response file cannot be read, which is marked served all the same
  (proxy.go:504): ReplayStore takes the files as readable.
- More than one captured value in a stream: the code replaces the longest first
  (config.go:517), and Stream has one value or none. Conversation has several,
  in texts that are not split.
- JSON keys and roles that hold dots or brackets, numbers beyond the precision
  of a float64, and bodies that are not objects.
- Machine crashes: the code syncs nothing and promises nothing about them.
- Two recording processes on one cassette.
- Flag parsing, printing, agent configuration files, the end-to-end harness.

## 6. Where the code and its documents part

Each of these is a run that is expected to be violated; `PROJECT.json` quotes
the lines.

1. `CassetteCrash`: one torn final line makes the completed steps unreadable.
2. `CassetteMerge`: after a short write that the process survives, or a line left
   without its newline, the next entry is written onto the same line, and more
   lines follow. What cannot be read is then not at worst the final line.
3. `CassettePrune`: `prune` beside a recording session can delete the bodies of the
   step that the session adds between prune's scan and its removals.
4. `StreamChunks`: a chunk that carries arguments beside a finish reason, or
   reasoning beside an empty text, is folded, and all but the joined field of it is
   lost with it or comes at another time.
5. `StreamJoins`: of the visible answer the whole run that holds a value is joined,
   events that the value does not touch included, and also when it is within one
   event. SPEC 411 says that the visible answer must not be joined at all; the
   comment of `CoalesceTextSpanning` gives reasons for joining what is straddled,
   and says that it joins the minimum.
6. `ConversationNames`: a name that the model made up comes back to the recording
   as a name and to the replay as a placeholder. The recording's next request
   counts it and the replay's does not, so from then on the numbers of the two no
   longer agree, and a value a tool brings after it is not restored.
7. `ConversationChunk`: the shipped pattern for `<CHUNK>` matches its own
   placeholder, which is then renumbered as a value left over, and not restored.

Smaller ones, found while modelling and not given runs. Of replay:

- `Selection.Expected` of a bookkeeping answer is the position after the move,
  counted from 0 (store.go:268), where the others give the one before (116).
- A window set too low may cost a wrong answer instead of a miss: an older
  identical step again, though the session's next one is recorded (store.go:241
  against 149).
- `hasUnshapedStep` takes a bodiless probe, or a body that is not JSON, for
  work, its comment (store.go:462) only several messages or tools; a cassette
  of a probe and plain requests can absorb unrecorded ones.

Of the session:

- The look-ahead has to cover the gap between consecutive steps of one thread;
  exceeding the number of requests in flight (SPEC 14) is not enough.
- Requests the drain gave up on before they were sent to a provider are in no
  line of the summary; SPEC 11.4 counts what the wait did not cover as
  `abandoned`.
- Two of cs-vcr's own errors, `unreadable_body` and `upstream_error`, are not in
  `rejected`, "the total of every refusal" in the manual. `SummaryAddsUp` states
  what is counted, and leaves these two out of its equation by name.
- A replay session serves a cassette that appears after its start, if nobody
  asked for it before (proxy.go:70 says that the set is fixed).
- A listener that fails ends the session without a drain or a summary.
- A request that the summary counts as `abandoned` may have been recorded, and be
  counted in `recorded` too (proxy.go:416 against 146).
- While recording, a probe of a provider that is not configured leaves an empty
  cassette behind (proxy.go:323 against 443).

Of one exchange and its stream:

- The tap takes the status of an interim answer (1xx) for the final one; the
  final one is then neither told to the client, who gets 200, nor recorded
  (tap.go:55).
- The content of a stream without a content type is known by its first write
  alone (tap.go:68): if that is short, the stream is kept as a `.json` body and
  replayed in one piece.
- An event of another kind in the middle of a value, or of another text, ends the
  run: the value is stored in two pieces, neither of which is blanked.

Of normalization and names:

- A root of a single segment has no bare form, so that a stored `<ROOT-BARE>` is
  not restored under it.
- A message whose only block is dropped stays, with an empty list for its
  content; a cut that empties `system` leaves `""`, which is not the same as none;
  a cut in the middle of a string leaves the white space on both sides of it.
- The detector of account ids in `scrub.go` takes a field `user` for
  `safety_identifier`, and writes it back under that name.

Of alignment:

- The rule proposed for a list directly in a list claims nothing (align.go:226), so
  that `calibrate` proposes it again and again; `PastingSuffices` excepts it.
- An empty tool result takes its message out of the comparison, though the path
  of its content is volatile (align.go:164, SPEC 219).

## 7. Plan

Done: the order of replay, the files, the composition of the two, the session,
the exchange, streams, names, normalization and alignment; proofs of every
safety property of these but alignment and normalization, under the conditions
section 4 states; a violated run for the sentences of the documents that need these
conditions and do not say so. Left, in this order:

1. The passes of Normalize that do not recurse (`CutString`, `Sorted`) as lemmas,
   in a module apart from those that do.
2. A replay in which a response file cannot be read, composed of Store and
   CassetteDir.
3. Two recording processes on one cassette, and a miss dump written by two
   handlers, once the documents say what is promised of either.
