---------------------------- MODULE CassetteDir ----------------------------
(***************************************************************************)
(* A cassette on disk while a session records into it: Create, OpenStore,  *)
(* Entries and Append of internal/cassette, and `cassette prune` of        *)
(* internal/cli.                                                           *)
(*                                                                         *)
(* Store.Append runs under the store's mutex, so one process appends one   *)
(* step at a time; but it is three writes, and any of them may be cut      *)
(* short, by an error the process survives or by its end.  What a reader   *)
(* then finds is decided by what is on disk.  Machine crashes, after which *)
(* writes may be lost out of order, are not modelled: nothing is synced.   *)
(*                                                                         *)
(* An operator marked "slip" is the definition below it with a plausible   *)
(* mistake; no specification uses it.                                      *)
(***************************************************************************)
EXTENDS Integers, Sequences, FiniteSets, SequencesExt

CONSTANTS
  Exchanges,     \* requests with their responses, each recorded at most once
  Absent, Torn,  \* a body file that is not there; one cut short
  Cuts,          \* what an interrupted index write may come to: see CutLine
  PruneAnytime   \* may prune run while a session records?

ASSUME FilesAssumption ==
  /\ IsFiniteSet(Exchanges)
  /\ Absent \notin Exchanges /\ Torn \notin Exchanges /\ Absent # Torn

ASSUME CutsAssumption ==
  /\ Cuts \subseteq {"nothing", "torn", "unended"} \X {"idle", "down"}
  /\ PruneAnytime \in BOOLEAN

VARIABLES
  yaml,      \* cassette.yaml: "absent", "torn" or "whole"
  request,   \* request[n]: the file req/n
  response,  \* response[n, s]: the file resp/n, .sse if s and .json if not
  index,     \* index.jsonl, a record per line: its entry, and whether it parses
  ended,     \* the last line of the index has its newline
  pc,        \* the recording process: "down", "creating" cassette.yaml,
             \* "refused" (the store would not open), "idle", or in Append at
             \* the "request", the "response" or the "line"
  script,    \* Store.script, in the memory of the recording process
  current,   \* the entry being appended, Absent outside Append
  prune,     \* the pruning process: its stage, the files it found referenced,
             \* and those it is to remove
  begun,     \* history: the exchanges handed to Append
  recorded   \* history: the entries whose Append returned no error

disk == <<yaml, request, response, index, ended>>
memory == <<pc, script, current>>
history == <<begun, recorded>>
dirVars == <<disk, memory, prune, history>>

\* As many positions as exchanges: each takes at most one.
Seqs == 1 .. Cardinality(Exchanges)
EntryType == [seq : Seqs, exchange : Exchanges, streaming : BOOLEAN]
Contents == Exchanges \cup {Absent, Torn}

\* The body files, by the names RequestPath and ResponsePath give them.
RequestPath(n) == <<"req", n, FALSE>>
ResponsePath(n, s) == <<"resp", n, s>>
OnDisk == {RequestPath(n) : n \in {m \in Seqs : request[m] # Absent}} \cup
          {ResponsePath(k[1], k[2]) : k \in {k \in Seqs \X BOOLEAN : response[k] # Absent}}

-----------------------------------------------------------------------------
(* Reading the index.                                                      *)

\* One line that does not parse fails the whole index.
Readable == \A i \in DOMAIN index : index[i].parses

\* What Entries returns when it returns no error.
Entries == [i \in DOMAIN index |-> index[i].entry]

\* The body files the entries name.
Referenced == UNION {{RequestPath(e.seq), ResponsePath(e.seq, e.streaming)} : e \in ToSet(Entries)}

-----------------------------------------------------------------------------
(* Opening the store.                                                      *)

\* newStore reads the index once.
Opened == pc' = "idle" /\ script' = Entries /\ UNCHANGED current

\* OpenOrCreate finds no cassette.yaml.  WriteFile truncates, then writes.
StartCreate ==
  /\ pc = "down" /\ yaml = "absent"
  /\ yaml' = "torn" /\ pc' = "creating"
  /\ UNCHANGED <<request, response, index, ended, script, current, prune, history>>

FinishCreate ==
  /\ pc = "creating"
  /\ yaml' = "whole" /\ Opened
  /\ UNCHANGED <<request, response, index, ended, prune, history>>

\* OpenOrCreate finds a cassette.yaml.  A torn one does not parse, or parses
\* to versions this build refuses; storeFor keeps the failure for good.
Open ==
  /\ pc = "down" /\ yaml # "absent"
  /\ IF yaml = "whole" /\ Readable
     THEN Opened
     ELSE pc' = "refused" /\ UNCHANGED <<script, current>>
  /\ UNCHANGED <<disk, prune, history>>

-----------------------------------------------------------------------------
(* Store.Append.                                                           *)

\* Slip: the index line before the bodies.
StagesLineFirst == <<"line", "request", "response">>

\* The three writes in their order.
Stages == <<"request", "response", "line">>

\* Slips: numbered from 0; the number of the last step; numbered by the
\* attempts of Append.
NextSeqFromZero == Len(script)
NextSeqLast == IF script = <<>> THEN 1 ELSE Len(script)
NextSeqBegun == Cardinality(begun) + 1

\* The number the store gives the next step.
NextSeq == Len(script) + 1

Begin(x, s) ==
  /\ pc = "idle" /\ x \notin begun
  /\ begun' = begun \cup {x}
  /\ current' = [seq |-> NextSeq, exchange |-> x, streaming |-> s]
  /\ pc' = Head(Stages)
  /\ UNCHANGED <<disk, script, prune, recorded>>

\* The write at hand is done: on to the next one, or out of Append.
Written ==
  IF pc = Last(Stages)
  THEN /\ pc' = "idle" /\ current' = Absent
       /\ script' = Append(script, current)
       /\ recorded' = recorded \cup {current}
       /\ UNCHANGED begun
  ELSE /\ \E i \in 1 .. 2 : Stages[i] = pc /\ pc' = Stages[i + 1]
       /\ UNCHANGED <<script, current, history>>

\* The write at hand is interrupted: Append returns the error and the process
\* goes on, or the process ends and its memory with it.
Interrupted(after) ==
  /\ pc' = after /\ current' = Absent
  /\ script' = IF after = "down" THEN <<>> ELSE script
  /\ UNCHANGED history

\* A file that could not be opened is as it was; one cut short is torn.
WriteRequest ==
  /\ pc = "request"
  /\ \/ request' = [request EXCEPT ![current.seq] = current.exchange] /\ Written
     \/ \E after \in {"idle", "down"}, left \in {request[current.seq], Torn} :
          request' = [request EXCEPT ![current.seq] = left] /\ Interrupted(after)
  /\ UNCHANGED <<yaml, response, index, ended, prune>>

WriteResponse ==
  /\ pc = "response"
  /\ LET file == <<current.seq, current.streaming>>
     IN \/ response' = [response EXCEPT ![file] = current.exchange] /\ Written
        \/ \E after \in {"idle", "down"}, left \in {response[file], Torn} :
             response' = [response EXCEPT ![file] = left] /\ Interrupted(after)
  /\ UNCHANGED <<yaml, request, index, ended, prune>>

\* O_APPEND: what is written follows what is there, on the same line if that
\* line was left without its newline, and then the line parses as neither.
Appended(whole) ==
  IF ended THEN index' = Append(index, [entry |-> current, parses |-> whole])
           ELSE index' = [index EXCEPT ![Len(index)].parses = FALSE]

WriteLine ==
  /\ pc = "line"
  /\ Appended(TRUE) /\ ended' = TRUE /\ Written
  /\ UNCHANGED <<yaml, request, response, prune>>

\* The write of the line leaves nothing, a part of the JSON, or all of it
\* without the newline.
CutLine ==
  /\ pc = "line"
  /\ \E cut \in Cuts :
       /\ IF cut[1] = "nothing" THEN UNCHANGED <<index, ended>>
          ELSE Appended(cut[1] = "unended") /\ ended' = FALSE
       /\ Interrupted(cut[2])
  /\ UNCHANGED <<yaml, request, response, prune>>

\* The process ends outside Append, or while it writes cassette.yaml.
Stop ==
  /\ pc \in {"idle", "refused", "creating"}
  /\ pc' = "down" /\ script' = <<>>
  /\ UNCHANGED <<disk, current, prune, history>>

-----------------------------------------------------------------------------
(* `cassette prune --force`, a process of its own.                         *)

Off == [stage |-> "off", referenced |-> {}, orphans |-> {}]

\* It reads the index once; a cassette or an index that does not parse ends it.
PruneScan ==
  /\ prune.stage = "off"
  /\ yaml = "whole" /\ Readable
  /\ prune' = [stage |-> "req", referenced |-> Referenced, orphans |-> {}]
  /\ UNCHANGED <<disk, memory, history>>

\* It lists the two directories, req first.
PruneList ==
  /\ prune.stage \in {"req", "resp"}
  /\ prune' = [prune EXCEPT
       !.orphans = @ \cup {f \in OnDisk \ prune.referenced : f[1] = prune.stage},
       !.stage = IF @ = "req" THEN "resp" ELSE "remove"]
  /\ UNCHANGED <<disk, memory, history>>

PruneRemove ==
  /\ prune.stage = "remove" /\ prune.orphans # {}
  /\ \E f \in prune.orphans :
       /\ request' = IF f[1] = "req" THEN [request EXCEPT ![f[2]] = Absent] ELSE request
       /\ response' = IF f[1] = "resp" THEN [response EXCEPT ![<<f[2], f[3]>>] = Absent]
                      ELSE response
       /\ prune' = [prune EXCEPT !.orphans = @ \ {f}]
  /\ UNCHANGED <<yaml, index, ended, memory, history>>

PruneEnd ==
  /\ prune.stage = "remove" /\ prune.orphans = {}
  /\ prune' = Off
  /\ UNCHANGED <<disk, memory, history>>

-----------------------------------------------------------------------------
DirInit ==
  /\ yaml = "absent" /\ index = <<>> /\ ended = TRUE
  /\ request = [n \in Seqs |-> Absent]
  /\ response = [k \in Seqs \X BOOLEAN |-> Absent]
  /\ pc = "down" /\ script = <<>> /\ current = Absent
  /\ prune = Off
  /\ begun = {} /\ recorded = {}

\* Not in the code, which locks nothing: an assumption on whoever starts the two
\* processes, that neither is started while the other is at work. With PruneAnytime
\* they are started as they come.
NobodyPrunes == PruneAnytime \/ prune.stage = "off"
NobodyRecords == PruneAnytime \/ pc \in {"down", "refused"}

DirNext ==
  \/ NobodyPrunes /\ (StartCreate \/ Open)
  \/ FinishCreate \/ Stop
  \/ \E x \in Exchanges, s \in BOOLEAN : Begin(x, s)
  \/ WriteRequest \/ WriteResponse \/ WriteLine \/ CutLine
  \/ NobodyRecords /\ PruneScan
  \/ PruneList \/ PruneRemove \/ PruneEnd

DirSpec == DirInit /\ [][DirNext]_dirVars

-----------------------------------------------------------------------------
(* Properties.                                                             *)

DirTypeOK ==
  /\ yaml \in {"absent", "torn", "whole"} /\ ended \in BOOLEAN
  /\ request \in [Seqs -> Contents] /\ response \in [Seqs \X BOOLEAN -> Contents]
  /\ index \in Seq([entry : EntryType, parses : BOOLEAN])
  /\ script \in Seq(EntryType)
  /\ IF pc \in ToSet(Stages) THEN current \in EntryType
     ELSE pc \in {"down", "creating", "refused", "idle"} /\ current = Absent
  /\ begun \subseteq Exchanges /\ recorded \subseteq EntryType

\* The bodies an entry names are both whole, and of that entry's exchange.
HasBodies(e) == /\ request[e.seq] = e.exchange
                /\ response[<<e.seq, e.streaming>>] = e.exchange

\* Append writes the bodies first "so a crash mid-write leaves an unreferenced
\* body file rather than an index entry pointing at nothing"; nor does a later
\* session, numbering from what it read, or prune, take them away again.
StepsHaveBodies == \A i \in DOMAIN index : index[i].parses => HasBodies(index[i].entry)

\* Replay compares positions in the script with the numbers in the entries
\* (Selection.Expected with Entry.Seq), and names the files by the latter.
SeqIsPosition == \A i \in DOMAIN index : index[i].parses => index[i].entry.seq = i

\* Every run of a recording session and prune is a run of the step log: a step
\* whose line parses and whose bodies are there stays, at its position. The log
\* is what a reader gets who stops at the first line that is not such a one.
DurableTo(n) == \A i \in 1 .. n : index[i].parses /\ HasBodies(index[i].entry)
Durable == Max({n \in 0 .. Len(index) : DurableTo(n)})
Log == INSTANCE StepLog WITH log <- [i \in 1 .. Durable |-> index[i].entry.exchange]
ImplementsStepLog == Log!Spec

(* What the documents claim and the code does not do.                      *)

\* SPEC R41: "An interrupted session then leaves every completed step intact":
\* a reader of the cassette, replay to begin with, still gets it.
CompletedStepsReadable == recorded # {} => Readable

\* SPEC R41 goes on: "with at worst one truncated final line". It is so as long as
\* the process outlives no write of a line but one that left nothing, and dies of
\* every other: the next session then refuses to open the index. It is not when the
\* process survives a short write, or dies having written all but the newline:
\* Append goes on where the file ends, the two lines become one, and more follow.
OnlyFinalLineTorn == \A i \in DOMAIN index : i < Len(index) => index[i].parses

\* The files that the entries on disk name.
Named == {f \in OnDisk : \E i \in DOMAIN index :
            /\ index[i].parses
            /\ f \in {RequestPath(index[i].entry.seq),
                     ResponsePath(index[i].entry.seq, index[i].entry.streaming)}}

\* prune deletes "body and blob files no index entry references". It finds them by
\* what the index held when it started: beside a session, the step recorded since
\* loses its bodies.
PruneRemovesOrphans ==
  [][\A f \in OnDisk : f \notin OnDisk' => f \notin Named]_dirVars
=============================================================================
