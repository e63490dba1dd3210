------------------------- MODULE CassetteDir_proofs -------------------------
(***************************************************************************)
(* That what a session has recorded stays whole, numbered and at its place *)
(* through every end of the process and every prune, for every number of   *)
(* exchanges.                                                              *)
(***************************************************************************)
EXTENDS CassetteDir, FiniteSetTheorems, SequenceTheorems, TLAPS

\* The faults of the theorems: a process survives only a write of the line that
\* left nothing, and prune runs while nobody records.
Crashes ==
  /\ Cuts \subseteq {<<"nothing", "idle">>, <<"nothing", "down">>, <<"torn", "down">>}
  /\ ~PruneAnytime

Appending == {"request", "response", "line"}
Up == {"idle"} \cup Appending

\* The index: numbered lines, of which only the last may be torn, and then it has
\* no newline; and none before there is a cassette.
Lines ==
  /\ \A i \in DOMAIN index : index[i].entry.seq = i /\ index[i].entry.exchange \in begun
  /\ OnlyFinalLineTorn
  /\ Readable => ended
  /\ yaml # "whole" => index = <<>>

\* The recording process knows the index, and has room for what it appends.
Memory ==
  /\ pc \in Up => yaml = "whole" /\ Readable /\ Len(script) = Len(index)
  /\ pc = "creating" => yaml = "torn"
  /\ pc \in Appending =>
       /\ current.seq = Len(index) + 1
       /\ current.exchange \in begun
       /\ \A i \in DOMAIN index : index[i].entry.exchange # current.exchange
  /\ pc = "response" => request[current.seq] = current.exchange
  /\ pc = "line" => HasBodies(current)
Room ==
  /\ IsFiniteSet(begun)
  /\ Len(index) <= Cardinality(begun)
  /\ pc \in Appending => Len(index) + 1 <= Cardinality(begun)

\* prune never runs beside the recording process, and lists no file of an entry.
Files == {RequestPath(n) : n \in Seqs} \cup {ResponsePath(n, s) : n \in Seqs, s \in BOOLEAN}
Apart(F) == \A i \in DOMAIN index :
  /\ RequestPath(index[i].entry.seq) \notin F
  /\ ResponsePath(index[i].entry.seq, index[i].entry.streaming) \notin F
Pruning ==
  /\ prune.stage \in {"off", "req", "resp", "remove"}
  /\ prune.orphans \subseteq Files
  /\ prune.stage # "off" =>
       /\ pc \in {"down", "refused"}
       /\ Readable
       /\ Apart(prune.orphans)
       /\ Apart(Files \ prune.referenced)

IInv == DirTypeOK /\ Lines /\ StepsHaveBodies /\ Memory /\ Room /\ Pruning

-----------------------------------------------------------------------------
\* The three writes of Append.
LEMMA TheStages ==
  /\ ToSet(Stages) = Appending
  /\ Head(Stages) = "request" /\ Last(Stages) = "line"
  /\ \A p \in {"request", "response"} : \A i \in 1 .. 2 :
       Stages[i] = p => Stages[i + 1] = IF p = "request" THEN "response" ELSE "line"
<1>1. Stages = <<"request", "response", "line">>
  BY DEF Stages
<1>2. Len(Stages) = 3 /\ Stages[1] = "request" /\ Stages[2] = "response" /\ Stages[3] = "line"
  BY <1>1
<1>3. DOMAIN Stages = {1, 2, 3}
  BY <1>1
<1>4. ToSet(Stages) = Appending
  BY <1>2, <1>3 DEF ToSet, Appending
<1>5. Head(Stages) = "request"
  BY <1>1
<1>. QED  BY <1>2, <1>4, <1>5 DEF Last

\* There are as many numbers as exchanges.
LEMMA SeqsAreNumbers ==
  /\ Cardinality(Exchanges) \in Nat
  /\ Seqs = 1 .. Cardinality(Exchanges)
BY FilesAssumption, FS_CardinalityType DEF Seqs

\* The lines of the index.
LEMMA IndexType ==
  ASSUME DirTypeOK
  PROVE  /\ Len(index) \in Nat /\ DOMAIN index = 1 .. Len(index)
         /\ \A i \in DOMAIN index : index[i].entry \in EntryType /\ index[i].parses \in BOOLEAN
<1>. DEFINE Line == [entry : EntryType, parses : BOOLEAN]
<1>1. index \in Seq(Line)
  BY DEF DirTypeOK
<1>2. Len(index) \in Nat /\ DOMAIN index = 1 .. Len(index)
  <2>. HIDE DEF Line
  <2>. QED  BY <1>1, LenProperties
<1>3. \A i \in DOMAIN index : index[i] \in Line
  <2>. HIDE DEF Line
  <2>. QED  BY <1>1, <1>2, ElementOfSeq
<1>. QED  BY <1>2, <1>3

\* What Entries returns has an entry for each line.
LEMMA EntriesType ==
  ASSUME DirTypeOK
  PROVE  /\ Entries \in Seq(EntryType)
         /\ Len(Entries) = Len(index)
         /\ DOMAIN Entries = DOMAIN index
         /\ \A i \in DOMAIN index : Entries[i] = index[i].entry
<1>1. Entries = [i \in 1 .. Len(index) |-> index[i].entry]
  BY IndexType DEF Entries
<1>2. Entries \in [1 .. Len(index) -> EntryType]
  BY <1>1, IndexType
<1>3. Entries \in Seq(EntryType)
  BY <1>2, IndexType, SeqDef
<1>4. Len(Entries) \in Nat /\ DOMAIN Entries = 1 .. Len(Entries)
  BY <1>3, LenProperties
<1>5. Len(Entries) = Len(index)
  BY <1>1, <1>4, IndexType
<1>. QED  BY <1>1, <1>3, <1>5, IndexType

\* The files outside what prune found referenced are of no entry.
LEMMA ReferencedApart ==
  ASSUME DirTypeOK
  PROVE  Apart(Files \ Referenced)
<1>. SUFFICES ASSUME NEW i \in DOMAIN index
              PROVE  /\ RequestPath(index[i].entry.seq) \in Referenced
                     /\ ResponsePath(index[i].entry.seq, index[i].entry.streaming) \in Referenced
  BY DEF Apart
<1>1. index[i].entry \in ToSet(Entries)
  BY EntriesType DEF ToSet
<1>. QED  BY <1>1 DEF Referenced

\* A file on disk is one of the files.
LEMMA OnDiskFiles ==
  OnDisk \subseteq Files
BY DEF OnDisk, Files

\* In Append the entry in hand has a number of its own, which the disk has room for.
LEMMA CurrentType ==
  ASSUME IInv, pc \in Appending
  PROVE  /\ current \in EntryType
         /\ current.seq = Len(index) + 1
         /\ \A i \in DOMAIN index : index[i].entry.seq # current.seq
<1>1. current \in EntryType
  BY TheStages DEF IInv, DirTypeOK
<1>2. Len(index) \in Nat /\ DOMAIN index = 1 .. Len(index)
  BY DEF IInv, DirTypeOK
<1>. QED  BY <1>1, <1>2 DEF IInv, Lines, Memory

\* The line of the entry in hand goes on a line of its own.
LEMMA LineAppended ==
  ASSUME IInv, pc = "line", NEW whole \in BOOLEAN, Appended(whole)
  PROVE  /\ index' \in Seq([entry : EntryType, parses : BOOLEAN])
         /\ Len(index') = Len(index) + 1
         /\ DOMAIN index = 1 .. Len(index) /\ Len(index) \in Nat
         /\ DOMAIN index' = 1 .. Len(index) + 1
         /\ \A i \in DOMAIN index : index'[i] = index[i]
         /\ index'[Len(index) + 1] = [entry |-> current, parses |-> whole]
<1>1. current \in EntryType
  BY CurrentType DEF Appending
<1>2. ended
  BY DEF IInv, Memory, Lines, Up, Appending
<1>3. index' = Append(index, [entry |-> current, parses |-> whole])
  BY <1>2 DEF Appended
<1>4. index \in Seq([entry : EntryType, parses : BOOLEAN])
  BY DEF IInv, DirTypeOK
<1>. QED  BY <1>1, <1>3, <1>4

-----------------------------------------------------------------------------
\* There is nothing on disk to begin with.
LEMMA InitInv == DirInit => IInv
<1>. SUFFICES ASSUME DirInit PROVE IInv
  OBVIOUS
<1>. USE DEF DirInit
<1>1. DirTypeOK
  <2>1. pc \notin ToSet(Stages)
    BY TheStages DEF Appending
  <2>. QED  BY <2>1 DEF DirTypeOK, Contents
<1>2. Lines /\ StepsHaveBodies /\ Readable
  BY DEF Lines, OnlyFinalLineTorn, StepsHaveBodies, Readable
<1>3. Memory /\ Pruning
  BY DEF Memory, Up, Appending, Pruning, Off
<1>4. Room
  BY FS_EmptySet DEF Room, Appending
<1>. QED  BY <1>1, <1>2, <1>3, <1>4 DEF IInv

\* Every step of the recording process and of prune keeps the strengthening.
LEMMA NextInv == Crashes /\ IInv /\ [DirNext]_dirVars => IInv'
<1>. SUFFICES ASSUME Crashes, IInv, [DirNext]_dirVars PROVE IInv'
  OBVIOUS
<1>0. /\ Len(index) \in Nat /\ DOMAIN index = 1 .. Len(index)
      /\ Len(script) \in Nat
  BY DEF IInv, DirTypeOK
<1>1. CASE (NobodyPrunes /\ (StartCreate \/ Open)) \/ FinishCreate \/ Stop
  <2>1. UNCHANGED <<request, response, index, ended, current, prune, history>>
    BY <1>1 DEF StartCreate, FinishCreate, Open, Stop, Opened, disk
  <2>2. /\ pc \in {"down", "creating", "idle", "refused"}
        /\ pc' \in {"down", "creating", "idle", "refused"}
        /\ prune.stage # "off" => pc' \in {"down", "refused"}
    BY <1>1 DEF StartCreate, FinishCreate, Open, Stop, Opened, NobodyPrunes, Crashes, IInv, Pruning
  <2>3. /\ script' \in Seq(EntryType)
        /\ pc' = "idle" => Len(script') = Len(index)
    BY <1>1, EntriesType, EmptySeq DEF StartCreate, FinishCreate, Open, Stop, Opened, IInv, DirTypeOK
  <2>4. DirTypeOK'
    BY <1>1, <2>1, <2>2, <2>3, TheStages DEF StartCreate, FinishCreate, Open, Stop, IInv, DirTypeOK,
       Appending, disk, history
  <2>5. Lines'
    BY <1>1, <2>1 DEF StartCreate, FinishCreate, Open, Stop, IInv, Lines, OnlyFinalLineTorn,
       Readable, disk, history
  <2>6. StepsHaveBodies'
    BY <2>1 DEF IInv, StepsHaveBodies, HasBodies
  <2>7. Memory'
    <3>1. CASE StartCreate
      BY <3>1 DEF StartCreate, Memory, Up, Appending
    <3>2. CASE FinishCreate
      <4>1. pc' = "idle" /\ yaml' = "whole" /\ index' = <<>> /\ Len(script') = Len(index')
        BY <2>1, <2>3, <3>2 DEF FinishCreate, Opened, IInv, Memory, Lines
      <4>. QED  BY <4>1 DEF Memory, Up, Appending, Readable
    <3>3. CASE Open
      <4>1. CASE pc' = "idle"
        <5>1. yaml' = "whole" /\ Readable' /\ Len(script') = Len(index')
          BY <2>1, <2>3, <3>3, <4>1 DEF Open, Readable, disk
        <5>. QED  BY <4>1, <5>1 DEF Memory, Up, Appending
      <4>2. CASE pc' = "refused"
        BY <4>2 DEF Memory, Up, Appending
      <4>. QED  BY <3>3, <4>1, <4>2 DEF Open, Opened
    <3>4. CASE Stop
      BY <3>4 DEF Stop, Memory, Up, Appending
    <3>. QED  BY <1>1, <3>1, <3>2, <3>3, <3>4
  <2>8. Room' /\ Pruning'
    BY <2>1, <2>2 DEF IInv, Room, Pruning, Appending, Apart, Readable, history
  <2>. QED  BY <2>4, <2>5, <2>6, <2>7, <2>8 DEF IInv
<1>2. ASSUME NEW x \in Exchanges, NEW s \in BOOLEAN, Begin(x, s)
      PROVE  IInv'
  <2>1. /\ UNCHANGED <<yaml, request, response, index, ended, script, prune, recorded>>
        /\ begun' = begun \cup {x} /\ x \notin begun /\ pc = "idle" /\ pc' = "request"
        /\ current' = [seq |-> Len(index) + 1, exchange |-> x, streaming |-> s]
    BY <1>2, TheStages DEF Begin, NextSeq, disk, IInv, Memory, Up
  <2>2. begun' \subseteq Exchanges /\ IsFiniteSet(begun')
        /\ Cardinality(begun') = Cardinality(begun) + 1 /\ Cardinality(begun) \in Nat
    BY <2>1, FS_AddElement, FS_CardinalityType DEF IInv, DirTypeOK, Room
  <2>3. Cardinality(begun') <= Cardinality(Exchanges)
    BY <2>2, FilesAssumption, FS_Subset
  <2>4. Room'
    BY <1>0, <2>1, <2>2 DEF IInv, Room
  <2>5. current' \in EntryType
    BY <1>0, <2>1, <2>2, <2>3, SeqsAreNumbers DEF IInv, Room, EntryType
  <2>6. DirTypeOK'
    BY <2>1, <2>2, <2>5, TheStages DEF IInv, DirTypeOK, Appending
  <2>7. Lines' /\ StepsHaveBodies'
    BY <2>1 DEF IInv, Lines, OnlyFinalLineTorn, Readable, StepsHaveBodies, HasBodies
  <2>8. Memory'
    BY <2>1 DEF IInv, Memory, Lines, Up, Appending, Readable
  <2>9. Pruning'
    BY <2>1 DEF IInv, Pruning
  <2>. QED  BY <2>4, <2>6, <2>7, <2>8, <2>9 DEF IInv
<1>3. CASE WriteRequest
  <2>1. /\ UNCHANGED <<yaml, response, index, ended, prune, history>> /\ pc = "request"
        /\ \E left \in Contents : request' = [request EXCEPT ![current.seq] = left]
    BY <1>3, CurrentType, TheStages DEF WriteRequest, Written, Interrupted, Contents, Appending,
       EntryType, IInv, DirTypeOK
  <2>2. \/ /\ pc' = "response" /\ UNCHANGED <<script, current>>
           /\ request'[current.seq] = current.exchange
        \/ /\ pc' \in {"idle", "down"} /\ current' = Absent
           /\ script' \in {<<>>, script} /\ (pc' = "idle" => script' = script)
    BY <1>3, <2>1, CurrentType, TheStages DEF WriteRequest, Written, Interrupted, Appending,
       EntryType, IInv, DirTypeOK
  <2>3. DirTypeOK'
    <3>1. request' \in [Seqs -> Contents]
      BY <2>1 DEF IInv, DirTypeOK
    <3>2. script' \in Seq(EntryType)
      BY <2>2, EmptySeq DEF IInv, DirTypeOK
    <3>3. (IF pc \in ToSet(Stages) THEN current \in EntryType
           ELSE pc \in {"down", "creating", "refused", "idle"} /\ current = Absent)'
      BY <2>1, <2>2, CurrentType, TheStages DEF Appending
    <3>. QED  BY <2>1, <3>1, <3>2, <3>3 DEF IInv, DirTypeOK, history
  <2>4. StepsHaveBodies'
    BY <2>1, CurrentType DEF IInv, DirTypeOK, StepsHaveBodies, HasBodies, Appending
  <2>5. Lines' /\ Room' /\ Pruning'
    BY <2>1, <2>2 DEF IInv, Lines, OnlyFinalLineTorn, Readable, Room, Pruning, Apart, Appending,
       history
  <2>6. Memory'
    BY <2>1, <2>2 DEF IInv, Memory, Readable, Up, Appending, history
  <2>. QED  BY <2>3, <2>4, <2>5, <2>6 DEF IInv
<1>4. CASE WriteResponse
  <2>. DEFINE file == <<current.seq, current.streaming>>
  <2>1. /\ UNCHANGED <<yaml, request, index, ended, prune, history>> /\ pc = "response"
        /\ \E left \in Contents : response' = [response EXCEPT ![file] = left]
    BY <1>4, CurrentType, TheStages DEF WriteResponse, Written, Interrupted, Contents, Appending,
       EntryType, IInv, DirTypeOK
  <2>2. \/ /\ pc' = "line" /\ UNCHANGED <<script, current>>
           /\ response'[file] = current.exchange
        \/ /\ pc' \in {"idle", "down"} /\ current' = Absent
           /\ script' \in {<<>>, script} /\ (pc' = "idle" => script' = script)
    BY <1>4, <2>1, CurrentType, TheStages DEF WriteResponse, Written, Interrupted, Appending,
       EntryType, IInv, DirTypeOK
  <2>3. DirTypeOK'
    <3>1. response' \in [Seqs \X BOOLEAN -> Contents]
      <4>. HIDE DEF file
      <4>. QED  BY <2>1 DEF IInv, DirTypeOK
    <3>2. script' \in Seq(EntryType)
      BY <2>2, EmptySeq DEF IInv, DirTypeOK
    <3>3. (IF pc \in ToSet(Stages) THEN current \in EntryType
           ELSE pc \in {"down", "creating", "refused", "idle"} /\ current = Absent)'
      BY <2>1, <2>2, CurrentType, TheStages DEF Appending
    <3>. QED  BY <2>1, <3>1, <3>2, <3>3 DEF IInv, DirTypeOK, history
  <2>4. StepsHaveBodies'
    BY <2>1, CurrentType DEF IInv, DirTypeOK, StepsHaveBodies, HasBodies, Appending
  <2>5. Lines' /\ Room' /\ Pruning'
    BY <2>1, <2>2 DEF IInv, Lines, OnlyFinalLineTorn, Readable, Room, Pruning, Apart, Appending,
       history
  <2>6. Memory'
    BY <2>1, <2>2 DEF IInv, Memory, Readable, Up, Appending, history, HasBodies
  <2>. QED  BY <2>3, <2>4, <2>5, <2>6 DEF IInv
<1>5. CASE WriteLine
  <2>1. /\ UNCHANGED <<yaml, request, response, prune, begun>> /\ pc = "line"
        /\ Appended(TRUE) /\ ended' = TRUE
        /\ pc' = "idle" /\ current' = Absent /\ script' = Append(script, current)
        /\ recorded' = recorded \cup {current}
    BY <1>5, TheStages DEF WriteLine, Written
  <2>2. /\ index' \in Seq([entry : EntryType, parses : BOOLEAN])
        /\ Len(index') = Len(index) + 1 /\ DOMAIN index' = 1 .. Len(index) + 1
        /\ \A i \in DOMAIN index : index'[i] = index[i]
        /\ index'[Len(index) + 1] = [entry |-> current, parses |-> TRUE]
    BY <2>1, LineAppended
  <2>3. /\ current \in EntryType /\ current.seq = Len(index) + 1 /\ current.exchange \in begun
        /\ HasBodies(current) /\ Readable /\ Len(script) = Len(index) /\ yaml = "whole"
    BY <2>1, CurrentType DEF Appending, Up, IInv, Memory
  <2>4. script' \in Seq(EntryType) /\ Len(script') = Len(script) + 1
    BY <2>1, <2>3 DEF IInv, DirTypeOK
  <2>5. DirTypeOK'
    BY <2>1, <2>2, <2>3, <2>4, TheStages DEF IInv, DirTypeOK, Appending
  <2>6. Readable'
    BY <1>0, <2>2, <2>3 DEF Readable
  <2>7. Lines'
    BY <1>0, <2>1, <2>2, <2>3, <2>6 DEF IInv, Lines, OnlyFinalLineTorn, Readable
  <2>8. StepsHaveBodies'
    <3>. SUFFICES ASSUME NEW i \in DOMAIN index', index'[i].parses
                  PROVE  HasBodies(index[i].entry)'
      BY DEF StepsHaveBodies
    <3>1. CASE i \in DOMAIN index
      <4>1. HasBodies(index[i].entry)
        BY <2>2, <3>1 DEF IInv, StepsHaveBodies
      <4>. QED  BY <2>1, <2>2, <3>1, <4>1 DEF HasBodies
    <3>2. CASE i = Len(index) + 1
      <4>1. index'[i].entry = current
        BY <2>2, <3>2
      <4>. QED  BY <2>1, <2>3, <4>1 DEF HasBodies
    <3>. QED  BY <1>0, <2>2, <3>1, <3>2
  <2>9. Memory'
    BY <2>1, <2>2, <2>3, <2>4, <2>6 DEF Memory, Up, Appending
  <2>10. Room' /\ Pruning'
    BY <1>0, <2>1, <2>2 DEF IInv, Room, Pruning, Appending
  <2>. QED  BY <2>5, <2>7, <2>8, <2>9, <2>10 DEF IInv
<1>6. CASE CutLine
  <2>1. /\ UNCHANGED <<yaml, request, response, prune, begun, recorded>> /\ pc = "line"
        /\ pc' \in {"idle", "down"} /\ current' = Absent
        /\ script' = IF pc' = "down" THEN <<>> ELSE script
        /\ \/ UNCHANGED <<index, ended>>
           \/ Appended(FALSE) /\ ended' = FALSE /\ pc' = "down"
    <3>1. PICK cut \in Cuts :
            /\ IF cut[1] = "nothing" THEN UNCHANGED <<index, ended>>
               ELSE Appended(cut[1] = "unended") /\ ended' = FALSE
            /\ Interrupted(cut[2])
      BY <1>6 DEF CutLine
    <3>2. /\ UNCHANGED <<yaml, request, response, prune>> /\ pc = "line"
      BY <1>6 DEF CutLine
    <3>3. \/ cut[1] = "nothing" /\ cut[2] \in {"idle", "down"}
          \/ cut[1] = "torn" /\ cut[2] = "down"
      <4>1. cut = <<"nothing", "idle">> \/ cut = <<"nothing", "down">> \/ cut = <<"torn", "down">>
        BY <3>1 DEF Crashes
      <4>. QED  BY <4>1
    <3>4. CASE cut[1] = "nothing" /\ cut[2] \in {"idle", "down"}
      BY <3>1, <3>2, <3>4 DEF Interrupted, history
    <3>5. CASE cut[1] = "torn" /\ cut[2] = "down"
      <4>1. (cut[1] = "unended") = FALSE
        BY <3>5
      <4>2. Appended(FALSE) /\ ended' = FALSE
        BY <3>1, <3>5, <4>1
      <4>. QED  BY <3>1, <3>2, <3>5, <4>2 DEF Interrupted, history
    <3>. QED  BY <3>3, <3>4, <3>5
  <2>2. CASE UNCHANGED <<index, ended>>
    <3>1. DirTypeOK'
      BY <2>1, <2>2, TheStages, EmptySeq DEF IInv, DirTypeOK, Appending
    <3>2. Lines' /\ StepsHaveBodies'
      BY <2>1, <2>2 DEF IInv, Lines, OnlyFinalLineTorn, Readable, StepsHaveBodies, HasBodies
    <3>3. Memory' /\ Room' /\ Pruning'
      BY <1>0, <2>1, <2>2 DEF IInv, Memory, Room, Pruning, Readable, Up, Appending
    <3>. QED  BY <3>1, <3>2, <3>3 DEF IInv
  <2>3. CASE Appended(FALSE) /\ ended' = FALSE /\ pc' = "down"
    <3>1. /\ index' \in Seq([entry : EntryType, parses : BOOLEAN])
          /\ Len(index') = Len(index) + 1 /\ DOMAIN index' = 1 .. Len(index) + 1
          /\ \A i \in DOMAIN index : index'[i] = index[i]
          /\ index'[Len(index) + 1] = [entry |-> current, parses |-> FALSE]
      BY <2>1, <2>3, LineAppended
    <3>2. /\ current \in EntryType /\ current.seq = Len(index) + 1 /\ current.exchange \in begun
          /\ Readable /\ yaml = "whole"
      BY <2>1, CurrentType DEF Appending, Up, IInv, Memory
    <3>3. DirTypeOK'
      BY <2>1, <2>3, <3>1, TheStages, EmptySeq DEF IInv, DirTypeOK, Appending
    <3>4. ~Readable'
      BY <1>0, <3>1 DEF Readable
    <3>5. Lines'
      BY <1>0, <2>1, <2>3, <3>1, <3>2, <3>4 DEF IInv, Lines, OnlyFinalLineTorn, Readable
    <3>6. StepsHaveBodies'
      BY <1>0, <2>1, <3>1 DEF IInv, StepsHaveBodies, HasBodies
    <3>7. Memory' /\ Room' /\ Pruning'
      BY <1>0, <2>1, <2>3, <3>1 DEF IInv, Memory, Room, Pruning, Up, Appending
    <3>. QED  BY <3>3, <3>5, <3>6, <3>7 DEF IInv
  <2>. QED  BY <2>1, <2>2, <2>3
<1>7. CASE (NobodyRecords /\ PruneScan) \/ PruneList \/ PruneEnd
  <2>1. UNCHANGED <<disk, memory, history>>
    BY <1>7 DEF PruneScan, PruneList, PruneEnd
  <2>2. DirTypeOK' /\ Lines' /\ StepsHaveBodies' /\ Memory' /\ Room'
    BY <2>1 DEF disk, memory, history, IInv, DirTypeOK, Lines, OnlyFinalLineTorn, Readable,
       StepsHaveBodies, HasBodies, Memory, Room
  <2>3. Pruning'
    <3>1. CASE NobodyRecords /\ PruneScan
      BY <2>1, <3>1, ReferencedApart DEF disk, memory, PruneScan, NobodyRecords, Crashes, IInv, Pruning, Apart,
         Readable
    <3>2. CASE PruneList
      BY <2>1, <3>2, OnDiskFiles DEF disk, memory, PruneList, IInv, Pruning, Apart, Readable
    <3>3. CASE PruneEnd
      BY <3>3 DEF PruneEnd, Off, Pruning
    <3>. QED  BY <1>7, <3>1, <3>2, <3>3
  <2>. QED  BY <2>2, <2>3 DEF IInv
<1>8. CASE PruneRemove
  <2>1. PICK f \in prune.orphans :
          /\ request' = IF f[1] = "req" THEN [request EXCEPT ![f[2]] = Absent] ELSE request
          /\ response' = IF f[1] = "resp" THEN [response EXCEPT ![<<f[2], f[3]>>] = Absent]
                         ELSE response
          /\ prune' = [prune EXCEPT !.orphans = @ \ {f}]
    BY <1>8 DEF PruneRemove
  <2>2. UNCHANGED <<yaml, index, ended, memory, history>> /\ prune.stage = "remove"
    BY <1>8 DEF PruneRemove
  <2>3. f \in Files /\ Apart(prune.orphans) /\ pc \in {"down", "refused"}
    BY <2>1, <2>2 DEF IInv, Pruning
  <2>4. DirTypeOK'
    BY <2>1, <2>2, <2>3 DEF IInv, DirTypeOK, Contents, memory, history
  <2>5. StepsHaveBodies'
    <3>. SUFFICES ASSUME NEW i \in DOMAIN index, index[i].parses
                  PROVE  HasBodies(index[i].entry)'
      BY <2>2 DEF StepsHaveBodies
    <3>. DEFINE e == index[i].entry
    <3>1. HasBodies(e) /\ e \in EntryType
      BY IndexType DEF IInv, StepsHaveBodies
    <3>2. f # RequestPath(e.seq) /\ f # ResponsePath(e.seq, e.streaming)
      BY <2>1, <2>3 DEF Apart
    <3>3. CASE \E n \in Seqs : f = RequestPath(n)
      <4>1. PICK n \in Seqs : f = RequestPath(n)
        BY <3>3
      <4>2. /\ f[1] = "req" /\ f[2] = n /\ n # e.seq
        BY <3>2, <4>1 DEF RequestPath
      <4>3. response' = response /\ request'[e.seq] = request[e.seq]
        BY <2>1, <4>2 DEF IInv, DirTypeOK
      <4>. QED  BY <3>1, <2>2, <4>3 DEF HasBodies
    <3>4. CASE \E n \in Seqs, s \in BOOLEAN : f = ResponsePath(n, s)
      <4>1. PICK n \in Seqs, s \in BOOLEAN : f = ResponsePath(n, s)
        BY <3>4
      <4>2. /\ f[1] = "resp" /\ f[2] = n /\ f[3] = s
        BY <4>1 DEF ResponsePath
      <4>3. <<n, s>> # <<e.seq, e.streaming>>
        BY <3>2, <4>1 DEF ResponsePath
      <4>4. /\ request' = request
            /\ response'[<<e.seq, e.streaming>>] = response[<<e.seq, e.streaming>>]
        BY <2>1, <4>2, <4>3 DEF IInv, DirTypeOK
      <4>. QED  BY <3>1, <2>2, <4>4 DEF HasBodies
    <3>. QED  BY <2>3, <3>3, <3>4 DEF Files
  <2>6. Lines' /\ Memory' /\ Room'
    BY <2>2, <2>3 DEF IInv, Lines, OnlyFinalLineTorn, Readable, Memory, Up, Room, Appending,
       memory, history
  <2>7. Pruning'
    BY <2>1, <2>2 DEF IInv, Pruning, Apart, Readable, memory
  <2>. QED  BY <2>4, <2>5, <2>6, <2>7 DEF IInv
<1>9. CASE UNCHANGED dirVars
  BY <1>9 DEF dirVars, disk, memory, history, IInv, DirTypeOK, Lines, OnlyFinalLineTorn, Readable,
     StepsHaveBodies, HasBodies, Memory, Room, Pruning, Apart
<1>. QED  BY <1>1, <1>2, <1>3, <1>4, <1>5, <1>6, <1>7, <1>8, <1>9 DEF DirNext

\* The strengthening holds of every state of every recording, under the faults above.
THEOREM Invariant ==
  ASSUME Crashes
  PROVE  DirSpec => []IInv
<1>1. IInv /\ [DirNext]_dirVars => IInv'
  BY NextInv
<1>. QED  BY InitInv, <1>1, PTL DEF DirSpec

\* Every variable holds a value of its type.
THEOREM TypeCorrect ==
  ASSUME Crashes
  PROVE  DirSpec => []DirTypeOK
<1>1. IInv => DirTypeOK
  BY DEF IInv
<1>. QED  BY Invariant, <1>1, PTL

\* A line that parses names two bodies that are whole, whatever end the process
\* that wrote it came to and whatever prune removed since.
THEOREM BodiesFirst ==
  ASSUME Crashes
  PROVE  DirSpec => []StepsHaveBodies
<1>1. IInv => StepsHaveBodies
  BY DEF IInv
<1>. QED  BY Invariant, <1>1, PTL

\* The number in an entry is its position in the index.
THEOREM NumbersArePositions ==
  ASSUME Crashes
  PROVE  DirSpec => []SeqIsPosition
<1>1. IInv => SeqIsPosition
  BY DEF IInv, Lines, SeqIsPosition
<1>. QED  BY Invariant, <1>1, PTL

-----------------------------------------------------------------------------
\* The lines a reader gets: all of them, or all but the torn one at the end.
Kept == IF Readable THEN Len(index) ELSE Len(index) - 1

\* What lasts of the index is every line but a torn one at the end.
LEMMA DurableIsKept ==
  ASSUME IInv
  PROVE  Durable = Kept /\ Kept \in 0 .. Len(index)
<1>0. Len(index) \in Nat /\ DOMAIN index = 1 .. Len(index)
  BY DEF IInv, DirTypeOK
<1>1. Kept \in 0 .. Len(index)
  BY <1>0 DEF Kept, Readable
<1>2. DurableTo(Kept)
  BY <1>0 DEF DurableTo, Kept, Readable, IInv, Lines, OnlyFinalLineTorn, StepsHaveBodies
<1>3. \A n \in 0 .. Len(index) : DurableTo(n) => Kept >= n
  BY <1>0 DEF DurableTo, Kept, Readable, IInv, Lines, OnlyFinalLineTorn
<1>. DEFINE S == {n \in 0 .. Len(index) : DurableTo(n)}
<1>4. Kept \in S /\ S \subseteq Int /\ \A n \in S : Kept >= n
  BY <1>1, <1>2, <1>3
<1>5. Max(S) = Kept
  <2>. HIDE DEF S
  <2>1. Max(S) \in S /\ \A n \in S : Max(S) >= n
    BY <1>4 DEF Max
  <2>2. Max(S) \in Int /\ Kept \in Int /\ Max(S) >= Kept /\ Kept >= Max(S)
    BY <1>4, <2>1
  <2>. QED  BY <2>2
<1>. QED  BY <1>1, <1>5 DEF Durable

\* The log of the lines kept.
KeptLog == [i \in 1 .. Kept |-> index[i].entry.exchange]

\* Recording and pruning are steps of the log or change nothing of it.
LEMMA StepImplements ==
  ASSUME Crashes, IInv, [DirNext]_dirVars
  PROVE  KeptLog' = KeptLog \/ \E x \in Exchanges :
           /\ \A i \in DOMAIN KeptLog : KeptLog[i] # x
           /\ KeptLog' = Append(KeptLog, x)
<1>0. Len(index) \in Nat /\ DOMAIN index = 1 .. Len(index)
  BY DEF IInv, DirTypeOK
<1>1. CASE WriteLine
  <2>1. pc = "line" /\ Appended(TRUE)
    BY <1>1 DEF WriteLine
  <2>2. /\ Len(index') = Len(index) + 1 /\ DOMAIN index' = 1 .. Len(index) + 1
        /\ \A i \in DOMAIN index : index'[i] = index[i]
        /\ index'[Len(index) + 1] = [entry |-> current, parses |-> TRUE]
    BY <2>1, LineAppended
  <2>3. /\ current \in EntryType /\ Readable
        /\ \A i \in DOMAIN index : index[i].entry.exchange # current.exchange
    BY <2>1, CurrentType DEF Appending, Up, IInv, Memory
  <2>4. Readable'
    BY <1>0, <2>2, <2>3 DEF Readable
  <2>5. Kept = Len(index) /\ Kept' = Len(index) + 1
    BY <2>2, <2>3, <2>4 DEF Kept
  <2>6. current.exchange \in Exchanges
    BY <2>3 DEF EntryType
  <2>7. KeptLog \in Seq(Exchanges) /\ Len(KeptLog) = Len(index)
    <3>1. KeptLog \in [1 .. Len(index) -> Exchanges]
      BY <1>0, <2>5, IndexType DEF KeptLog, EntryType, IInv
    <3>2. KeptLog \in Seq(Exchanges)
      BY <1>0, <3>1, SeqDef
    <3>. QED  BY <1>0, <3>1, <3>2, LenProperties
  <2>8. KeptLog' = [i \in 1 .. Len(index) + 1 |->
                      IF i = Len(index) + 1 THEN current.exchange ELSE KeptLog[i]]
    BY <1>0, <2>2, <2>5 DEF KeptLog
  <2>9. KeptLog' = Append(KeptLog, current.exchange)
    BY <1>0, <2>6, <2>7, <2>8, AppendProperties
  <2>10. \A i \in DOMAIN KeptLog : KeptLog[i] # current.exchange
    BY <1>0, <2>3, <2>5 DEF KeptLog
  <2>. QED  BY <2>6, <2>9, <2>10
<1>2. CASE CutLine
  <2>1. CASE UNCHANGED index
    BY <2>1 DEF KeptLog, Kept, Readable
  <2>2. CASE index' # index
    <3>1. PICK cut \in Cuts :
            IF cut[1] = "nothing" THEN UNCHANGED <<index, ended>>
            ELSE Appended(cut[1] = "unended") /\ ended' = FALSE
      BY <1>2 DEF CutLine
    <3>2. cut = <<"nothing", "idle">> \/ cut = <<"nothing", "down">> \/ cut = <<"torn", "down">>
      BY DEF Crashes
    <3>3. cut[1] = "torn"
      BY <2>2, <3>1, <3>2
    <3>4. (cut[1] = "unended") = FALSE
      BY <3>3
    <3>5. pc = "line" /\ Appended(FALSE)
      BY <1>2, <3>1, <3>3, <3>4 DEF CutLine
    <3>6. /\ Len(index') = Len(index) + 1 /\ DOMAIN index' = 1 .. Len(index) + 1
          /\ \A i \in DOMAIN index : index'[i] = index[i]
          /\ index'[Len(index) + 1] = [entry |-> current, parses |-> FALSE]
      BY <3>5, LineAppended
    <3>7. Readable /\ ~Readable'
      BY <1>0, <3>5, <3>6 DEF Readable, IInv, Memory, Up, Appending
    <3>8. Kept = Len(index) /\ Kept' = Len(index)
      BY <1>0, <3>6, <3>7 DEF Kept
    <3>. QED  BY <1>0, <3>6, <3>8 DEF KeptLog
  <2>. QED  BY <2>1, <2>2
<1>3. CASE UNCHANGED index
  BY <1>3 DEF KeptLog, Kept, Readable
<1>. QED
  BY <1>1, <1>2, <1>3 DEF DirNext, dirVars, disk, StartCreate, FinishCreate, Open, Stop, Begin,
     WriteRequest, WriteResponse, PruneScan, PruneList, PruneRemove, PruneEnd

\* A step that was recorded stays at its position, whatever happens to the session
\* after: every run is a run of the step log.
THEOREM Implements ==
  ASSUME Crashes
  PROVE  DirSpec => ImplementsStepLog
<1>. DEFINE theLog == [i \in 1 .. Durable |-> index[i].entry.exchange]
<1>1. IInv => theLog = KeptLog
  BY DurableIsKept DEF KeptLog
<1>2. DirInit => Log!Init
  <2>. SUFFICES ASSUME DirInit PROVE theLog = <<>>
    BY DEF Log!Init
  <2>1. theLog = KeptLog /\ Kept = 0
    BY <1>1, InitInv DEF DirInit, Kept, Readable
  <2>. QED  BY <2>1 DEF KeptLog
<1>3. (IInv => theLog = KeptLog)'
  BY <1>1, PTL
<1>4. IInv /\ IInv' /\ [DirNext]_dirVars => [Log!Next]_theLog
  <2>. SUFFICES ASSUME IInv, IInv', [DirNext]_dirVars PROVE Log!Next \/ UNCHANGED theLog
    OBVIOUS
  <2>1. theLog = KeptLog
    BY <1>1
  <2>2. theLog' = KeptLog'
    BY <1>3
  <2>. QED  BY <2>1, <2>2, StepImplements DEF Log!Next, Log!Record
<1>. QED  BY <1>2, <1>4, InitInv, Invariant, PTL DEF DirSpec, ImplementsStepLog, Log!Spec
=============================================================================
