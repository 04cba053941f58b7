--------------------------- MODULE TransferProofs ---------------------------
(***************************************************************************)
(* What a program reports as transferred is there: Transfer satisfies      *)
(* TypeOK, EofMeansWhole, UntroubledAttemptSucceeds and                    *)
(* SuccessMeansDelivered for any tree, any number of programs, edits,      *)
(* faults and chunks on the wire.                                          *)
(***************************************************************************)
EXTENDS Transfer, SequenceTheorems, TLAPS

(***************************************************************************)
(* The invariant.                                                          *)
(***************************************************************************)
Operations == {"none", "zip", "stream", "unzip"}
TaskRecord ==
    [op : Operations, dir : Seq(Entries), pos : Nat, sent : Nat,
     open : BOOLEAN, closed : BOOLEAN, wire : Seq(Chunks \cup {Eof})]

ProgramTyped(p) ==
    /\ task[p] \in TaskRecord
    /\ Len(task[p].wire) <= MaxWire /\ Len(task[p].dir) <= Len(Tree)
    /\ task[p].op = "none" => task[p] = NoTask
    /\ pc[p] = "idle" => task[p] = NoTask
    /\ IsLive(p) /\ task[p].op # "none" => pc[p] = task[p].op

FilesTyped ==
    /\ upload \in Directions /\ source \in Versions
    /\ near \in Seq(Chunks) /\ far \in Seq(Chunks)
    /\ target \in [Files -> Versions \cup {Absent, Partial, Cut}]

ProgramsTyped ==
    /\ pc \in [Programs -> {"idle", "zip", "stream", "unzip", "done", "failed"}]
    /\ task = [p \in Programs |-> task[p]]
    /\ \A p \in Programs : ProgramTyped(p)

HistoryTyped ==
    /\ since \in [Programs -> Versions] /\ faults \in 0..MaxFaults
    /\ troubled \subseteq Programs /\ crowded \subseteq Programs

Typed == BoxTypeOK /\ FilesTyped /\ ProgramsTyped /\ HistoryTyped

(* A program that met no other has the archives and the target to itself.  *)
Alone ==
    \A p \in Programs \ crowded :
        IsActive(p) => \A q \in Programs \ {p} : ~IsActive(q)

(* Entries of the first files of the tree, in versions since p began.      *)
OfTree(p, dir) ==
    \A i \in 1..Len(dir) : dir[i].file = Tree[i] /\ dir[i].version \in since[p]..source

DirOf(archive) == Last(archive).dir
HasTree(p, archive) ==
    Len(DirOf(archive)) = Len(Tree) /\ OfTree(p, DirOf(archive))
IsWhole(p, archive) ==
    /\ HasDirectory(archive) /\ HasTree(p, archive)
    /\ archive = Append(DirOf(archive), Directory(DirOf(archive)))

(* The archive is whole, or was damaged by a fault that nobody saw: it has *)
(* no directory, or a hole.                                                *)
Zipped(p) ==
    IsWhole(p, near) \/ (p \in troubled /\ (HasDirectory(near) => HasTree(p, near)))

(* What was sent is far already or on the wire, in its order.              *)
InTransit(pos, sent, closed, wire, received, archive) ==
    /\ pos <= sent /\ sent <= Len(archive) /\ Len(received) = pos
    /\ \A i \in 1..pos : received[i] = archive[i]
    /\ \A i \in 1..(sent - pos) : wire[i] = archive[pos + i]
    /\ IF closed THEN /\ sent = Len(archive) /\ Len(wire) = (sent - pos) + 1
                      /\ wire[(sent - pos) + 1] = Eof
       ELSE Len(wire) = sent - pos

Streaming(p) ==
    InTransit(task[p].pos, task[p].sent, task[p].closed, task[p].wire, far, near)

(* All of it came, or was there until the file was closed.                 *)
Received(p) == far = near \/ (p \in troubled /\ upload /\ far \in WithHole(near))

(* The files up to a place in the archive are delivered, but for one of    *)
(* the same name that is being written.                                    *)
UnzippedTo(p) ==
    /\ HasDirectory(far) /\ task[p].dir = DirOf(far)
    /\ task[p].pos <= Len(Tree) /\ (task[p].open => task[p].pos < Len(Tree))
    /\ \A i \in 1..task[p].pos :
         IsDelivered(p, Tree[i]) \/ (task[p].open /\ Tree[i] = Tree[task[p].pos + 1])

Staged(p) ==
    /\ pc[p] = "zip" /\ IsBusy(p, "zip") => near = task[p].dir /\ OfTree(p, task[p].dir)
    /\ pc[p] \in {"stream", "unzip"} => Zipped(p)
    /\ pc[p] = "stream" /\ IsBusy(p, "stream") => Streaming(p)
    /\ pc[p] = "unzip" => Received(p)
    /\ pc[p] = "unzip" /\ IsBusy(p, "unzip") => UnzippedTo(p)

AllStaged == \A p \in Programs \ crowded : Staged(p)

NoneFromLater == \A p \in Programs : since[p] <= source

TransferInv == Typed /\ NoneFromLater /\ Alone /\ AllStaged /\ UntroubledAttemptSucceeds

----------------------------------------------------------------------------
(* Archives                                                                *)

LEMMA ChunkFacts ==
    /\ \A f \in Files, v \in Versions :
         Entry(f, v) \in Entries /\ Entry(f, v).file = f /\ Entry(f, v).version = v
    /\ \A e \in Entries : e \in Chunks /\ "dir" \notin DOMAIN e
    /\ Hole \in Chunks
    /\ \A c \in Chunks : c # Eof
    /\ \A d : "dir" \in DOMAIN Directory(d) /\ Directory(d).dir = d
<1>1. \A f \in Files, v \in Versions :
        Entry(f, v) \in Entries /\ Entry(f, v).file = f /\ Entry(f, v).version = v
  BY DEF Entry, Entries
<1>2. ASSUME NEW e \in Entries PROVE e \in Chunks /\ "dir" \notin DOMAIN e
  <2>1. DOMAIN e = {"file", "version"}
    BY DEF Entries
  <2>2. QED
    BY <2>1 DEF Chunks
<1>3. Hole \in Chunks
  BY DEF Chunks
<1>4. ASSUME NEW c \in Chunks PROVE c # Eof
  <2>1. DOMAIN Eof = {"eof"} /\ DOMAIN Hole = {"hole"}
    BY DEF Eof, Hole
  <2>2. CASE c \in Entries
    <3>1. DOMAIN c = {"file", "version"}
      BY <2>2 DEF Entries
    <3>2. QED
      BY <2>1, <3>1
  <2>3. CASE c = Hole
    BY <2>1, <2>3
  <2>4. CASE c \in [dir : UNION {[1..n -> Entries] : n \in 0..Len(Tree)}]
    <3>1. DOMAIN c = {"dir"}
      BY <2>4
    <3>2. QED
      BY <2>1, <3>1
  <2>5. QED
    BY <2>2, <2>3, <2>4 DEF Chunks
<1>5. \A d : "dir" \in DOMAIN Directory(d) /\ Directory(d).dir = d
  BY DEF Directory
<1>6. QED
  BY <1>1, <1>2, <1>3, <1>4, <1>5

LEMMA TreeFacts == Len(Tree) \in Nat /\ \A i \in 1..Len(Tree) : Tree[i] \in Files
<1>1. Tree \in Seq(Files)
  BY BoundsAssumption DEF Files
<1>2. QED
  BY <1>1

(* The central directory of an archive is a chunk of it, and back.         *)
LEMMA DirectoryTyped ==
    ASSUME NEW d \in Seq(Entries), Len(d) <= Len(Tree)
    PROVE  Directory(d) \in Chunks
<1>1. Len(d) \in 0..Len(Tree) /\ d \in [1..Len(d) -> Entries]
  BY TreeFacts
<1>2. d \in UNION {[1..n -> Entries] : n \in 0..Len(Tree)}
  BY <1>1, Zenon
<1> DEFINE S == UNION {[1..n -> Entries] : n \in 0..Len(Tree)}
<1> HIDE DEF S
<1>3. \A x \in S : [dir |-> x] \in [dir : S]
  OBVIOUS
<1> USE DEF S
<1>4. QED
  BY <1>2, <1>3, Zenon DEF Directory, Chunks

LEMMA DirTyped ==
    ASSUME NEW archive \in Seq(Chunks), HasDirectory(archive)
    PROVE  /\ DirOf(archive) \in Seq(Entries) /\ Len(DirOf(archive)) <= Len(Tree)
           /\ DirOf(archive) = Last(archive).dir
<1>1. Last(archive) \in Chunks /\ "dir" \in DOMAIN Last(archive)
  <2>1. archive # <<>> /\ "dir" \in DOMAIN Last(archive)
    BY Zenon DEF HasDirectory
  <2>2. Len(archive) \in Nat /\ Len(archive) >= 1
    BY <2>1
  <2>3. archive[Len(archive)] \in Chunks
    BY <2>2
  <2>4. QED
    BY <2>1, <2>3 DEF Last
<1>2. Last(archive) \in [dir : UNION {[1..n -> Entries] : n \in 0..Len(Tree)}]
  <2>1. DOMAIN Hole = {"hole"}
    BY DEF Hole
  <2>2. Last(archive) \notin Entries /\ Last(archive) # Hole
    BY <1>1, <2>1, ChunkFacts
  <2>3. QED
    BY <1>1, <2>2, Zenon DEF Chunks
<1>3. Last(archive).dir \in UNION {[1..n -> Entries] : n \in 0..Len(Tree)}
  BY <1>2
<1>4. PICK n \in 0..Len(Tree) : Last(archive).dir \in [1..n -> Entries]
  BY <1>3
<1>5. Last(archive).dir \in Seq(Entries) /\ Len(Last(archive).dir) = n
  BY <1>4, TreeFacts
<1>6. QED
  BY <1>4, <1>5, TreeFacts DEF DirOf

LEMMA WriteTyped ==
    ASSUME NEW archive \in Seq(Chunks), NEW i \in Nat, i >= 1, NEW chunk \in Chunks
    PROVE  WriteAt(archive, i, chunk) \in Seq(Chunks)
<1>1. PICK n \in Nat : n = IF i > Len(archive) THEN i ELSE Len(archive)
  OBVIOUS
<1>2. WriteAt(archive, i, chunk) = [j \in 1..n |-> IF j = i THEN chunk
                                      ELSE IF j <= Len(archive) THEN archive[j] ELSE Hole]
  BY <1>1 DEF WriteAt
<1>3. \A j \in 1..n : (IF j = i THEN chunk ELSE IF j <= Len(archive) THEN archive[j] ELSE Hole)
                         \in Chunks
  BY ChunkFacts
<1>4. WriteAt(archive, i, chunk) \in [1..n -> Chunks]
  BY <1>2, <1>3
<1>5. QED
  BY <1>4

(* A chunk that is written behind the last is appended.                    *)
LEMMA WriteAtEnd ==
    ASSUME NEW archive \in Seq(Chunks), NEW chunk \in Chunks, NEW i \in Nat,
           i = Len(archive) + 1
    PROVE  WriteAt(archive, i, chunk) = Append(archive, chunk)
<1>1. WriteAt(archive, i, chunk) =
        [j \in 1..i |-> IF j = i THEN chunk
                        ELSE IF j <= Len(archive) THEN archive[j] ELSE Hole]
  BY DEF WriteAt
<1>2. /\ Append(archive, chunk) \in Seq(Chunks) /\ Len(Append(archive, chunk)) = i
      /\ \A j \in 1..i : Append(archive, chunk)[j] = IF j = i THEN chunk ELSE archive[j]
  BY AppendProperties
<1>3. WriteAt(archive, i, chunk) \in Seq(Chunks) /\ Len(WriteAt(archive, i, chunk)) = i
  BY <1>1, WriteTyped
<1>4. \A j \in 1..i : WriteAt(archive, i, chunk)[j] = Append(archive, chunk)[j]
  BY <1>1, <1>2
<1>5. QED
  BY <1>2, <1>3, <1>4, SeqEqual

----------------------------------------------------------------------------
(* Steps of a program                                                      *)

Labels == {"idle", "zip", "stream", "unzip", "done", "failed"}

OthersStay(p) ==
    /\ pc' \in [Programs -> Labels] /\ task' = [q \in Programs |-> task'[q]]
    /\ \A q \in Programs \ {p} : pc'[q] = pc[q] /\ task'[q] = task[q]

LEMMA MainGoes ==
    ASSUME ProgramsTyped, NEW p \in Programs, NEW label \in Labels, Goto(p, label)
    PROVE  /\ pc' \in [Programs -> Labels]
           /\ pc'[p] = IF IsLive(p) THEN label ELSE pc[p]
           /\ \A q \in Programs \ {p} : pc'[q] = pc[q]
  BY DEF ProgramsTyped, Labels, Goto

LEMMA TaskGoes ==
    ASSUME ProgramsTyped, NEW p \in Programs, NEW t, SetTask(p, t)
    PROVE  /\ task' = [q \in Programs |-> task'[q]] /\ task'[p] = t
           /\ \A q \in Programs \ {p} : task'[q] = task[q]
  BY DEF ProgramsTyped, SetTask

LEMMA LiveLabels ==
    \A p : IsLive(p) <=> pc[p] \in {"zip", "stream", "unzip"}
  BY DEF IsLive

LEMMA OthersInactive ==
    ASSUME NEW p \in Programs, OthersStay(p), NEW q \in Programs \ {p}
    PROVE  (IsLive(q)' <=> IsLive(q)) /\ (IsActive(q)' <=> IsActive(q))
  BY DEF OthersStay, IsLive, IsActive

(* Where nobody is live nothing is asked of the archives. *)
LEMMA NotLiveIsStaged ==
    ASSUME NEW p, ~IsLive(p)
    PROVE  Staged(p)
  BY DEF IsLive, Staged

(* What a step of p needs, for all programs to be as they should.          *)
LEMMA OwnStep ==
    ASSUME TransferInv, NEW p \in Programs, IsActive(p), OthersStay(p),
           BoxTypeOK', FilesTyped', ProgramTyped(p)', HistoryTyped',
           since' = since, source' = source, crowded' = crowded,
           troubled \subseteq troubled',
           p \notin crowded => Staged(p)',
           \A f \in Files : target[f] # Absent => target'[f] # Absent,
           pc'[p] = "failed" => \/ pc[p] = "failed"
                                \/ p \in troubled' \cup crowded
                                \/ \E f \in ReadOnly : target'[f] # Absent
    PROVE  TransferInv'
<1>1. ProgramsTyped'
  <2>1. ASSUME NEW q \in Programs \ {p} PROVE ProgramTyped(q)'
    <3>1. pc'[q] = pc[q] /\ task'[q] = task[q] /\ ProgramTyped(q)
      BY DEF OthersStay, TransferInv, Typed, ProgramsTyped
    <3>2. QED
      BY <3>1 DEF ProgramTyped, IsLive
  <2>2. QED
    BY <2>1 DEF ProgramsTyped, OthersStay, Labels
<1>2. Typed'
  BY <1>1 DEF Typed
<1>3. \A q \in Programs \ crowded : q = p \/ ~IsActive(q)
  BY Zenon DEF TransferInv, Alone
<1>4. Alone'
  <2>1. SUFFICES ASSUME NEW q \in Programs \ crowded, IsActive(q)',
                        NEW r \in Programs \ {q}
                 PROVE  ~IsActive(r)'
    BY Zenon DEF Alone
  <2>2. q = p
    BY <1>3, <2>1, OthersInactive
  <2>3. ~IsActive(r)
    BY <2>1, <2>2, Zenon DEF TransferInv, Alone
  <2>4. QED
    BY <2>1, <2>2, <2>3, OthersInactive
<1>5. AllStaged'
  <2>1. ASSUME NEW q \in Programs \ crowded, q # p PROVE Staged(q)'
    <3>1. ~IsLive(q)
      BY <1>3, <2>1, Zenon DEF IsActive
    <3>2. ~IsLive(q)'
      BY <2>1, <3>1, OthersInactive
    <3>3. QED
      BY <3>2 DEF IsLive, Staged
  <2>2. QED
    BY <2>1 DEF AllStaged
<1>6. UntroubledAttemptSucceeds'
  <2>1. SUFFICES ASSUME NEW q \in Programs, pc'[q] = "failed", q \notin troubled' \cup crowded
                 PROVE  \E f \in ReadOnly : target'[f] # Absent
    BY Zenon DEF UntroubledAttemptSucceeds
  <2>2. ASSUME pc[q] = "failed" PROVE \E f \in ReadOnly : target'[f] # Absent
    <3>1. \E f \in ReadOnly : target[f] # Absent
      BY <2>1, <2>2, Zenon DEF TransferInv, UntroubledAttemptSucceeds
    <3>2. QED
      BY <3>1, BoundsAssumption DEF Files
  <2>3. CASE q = p
    BY <2>1, <2>2, <2>3
  <2>4. CASE q # p
    <3>1. pc[q] = "failed"
      BY <2>1, <2>4 DEF OthersStay
    <3>2. QED
      BY <2>2, <3>1
  <2>5. QED
    BY <2>3, <2>4
<1>7. NoneFromLater'
  BY DEF TransferInv, NoneFromLater
<1>8. QED
  BY <1>2, <1>4, <1>5, <1>6, <1>7 DEF TransferInv

LEMMA NoTaskTyped ==
    /\ NoTask \in TaskRecord /\ NoTask.op = "none"
    /\ Len(NoTask.wire) <= MaxWire /\ Len(NoTask.dir) <= Len(Tree)
  BY BoundsAssumption, TreeFacts DEF NoTask, Task, TaskRecord, Operations

LEMMA TaskTyped ==
    ASSUME NEW op \in Operations \ {"none"}, NEW d \in Seq(Entries), Len(d) <= Len(Tree)
    PROVE  /\ Task(op, d) \in TaskRecord /\ Task(op, d).op = op /\ Task(op, d).dir = d
           /\ Len(Task(op, d).wire) = 0 /\ Len(Task(op, d).wire) <= MaxWire
           /\ Task(op, d).pos = 0 /\ Task(op, d).sent = 0
           /\ ~Task(op, d).open /\ ~Task(op, d).closed
  BY BoundsAssumption DEF Task, TaskRecord, Operations

LEMMA StartTyped ==
    ASSUME NEW op \in Operations \ {"none"}
    PROVE  /\ Task(op, <<>>) \in TaskRecord /\ Task(op, <<>>).op = op
           /\ Task(op, <<>>).dir = <<>> /\ Len(Task(op, <<>>).dir) <= Len(Tree)
           /\ Len(Task(op, <<>>).wire) = 0 /\ Len(Task(op, <<>>).wire) <= MaxWire
           /\ Task(op, <<>>).pos = 0 /\ Task(op, <<>>).sent = 0 /\ ~Task(op, <<>>).closed
<1>1. <<>> \in Seq(Entries) /\ Len(<<>>) <= Len(Tree)
  BY TreeFacts
<1>2. PICK d \in Seq(Entries) : d = <<>> /\ Len(d) <= Len(Tree)
  BY <1>1, Zenon
<1>3. QED
  BY <1>2, TaskTyped

LEMMA ProgramFacts ==
    ASSUME TransferInv, NEW p \in Programs
    PROVE  /\ ProgramTyped(p) /\ ProgramsTyped /\ FilesTyped /\ HistoryTyped /\ BoxTypeOK
           /\ pc[p] \in Labels /\ task[p] \in TaskRecord
           /\ p \notin crowded => Staged(p)
<1>1. ProgramTyped(p) /\ ProgramsTyped /\ FilesTyped /\ HistoryTyped /\ BoxTypeOK
  BY DEF TransferInv, Typed, ProgramsTyped
<1>2. p \notin crowded => Staged(p)
  BY DEF TransferInv, AllStaged
<1>3. QED
  BY <1>1, <1>2 DEF ProgramsTyped, ProgramTyped, Labels

----------------------------------------------------------------------------
(* Steps that end an attempt                                               *)

LEMMA FaultStep ==
    ASSUME HistoryTyped, Fault
    PROVE  /\ HistoryTyped' /\ since' = since /\ crowded' = crowded /\ troubled \subseteq troubled'
           /\ \A p \in Programs : IsLive(p) => p \in troubled'
<1>1. /\ faults < MaxFaults /\ faults' = faults + 1 /\ since' = since /\ crowded' = crowded
      /\ troubled' = troubled \cup {p \in Programs : IsLive(p)}
  BY Zenon DEF Fault
<1>2. faults' \in 0..MaxFaults
  BY <1>1, BoundsAssumption DEF HistoryTyped
<1>3. QED
  BY <1>1, <1>2 DEF HistoryTyped

LEMMA QuietStep ==
    ASSUME HistoryTyped, UNCHANGED historyVars
    PROVE  /\ HistoryTyped' /\ since' = since /\ crowded' = crowded /\ troubled' = troubled
           /\ troubled \subseteq troubled' /\ faults' = faults
  BY DEF HistoryTyped, historyVars

LEMMA BoxIdle == BoxTypeOK /\ UNCHANGED boxVars => BoxTypeOK'
  BY DEF BoxTypeOK, boxVars

LEMMA FailStep ==
    ASSUME TransferInv, NEW p \in Programs, IsActive(p), Fail(p), UNCHANGED boxVars,
           upload' = upload, source' = source, near' \in Seq(Chunks), far' = far,
           target' = target, HistoryTyped', since' = since, crowded' = crowded,
           troubled \subseteq troubled',
           IsLive(p) => p \in troubled' \cup crowded \/ \E f \in ReadOnly : target[f] # Absent
    PROVE  TransferInv'
<1>1. /\ pc' \in [Programs -> Labels]
      /\ pc'[p] = (IF IsLive(p) THEN "failed" ELSE pc[p])
      /\ \A q \in Programs \ {p} : pc'[q] = pc[q]
  BY ProgramFacts, MainGoes DEF Fail, Labels
<1>2. /\ task' = [q \in Programs |-> task'[q]] /\ task'[p] = NoTask
      /\ \A q \in Programs \ {p} : task'[q] = task[q]
  BY ProgramFacts, TaskGoes DEF Fail
<1>3. ~IsLive(p)'
  BY <1>1 DEF IsLive
<1>4. ProgramTyped(p)'
  BY <1>2, <1>3, NoTaskTyped DEF ProgramTyped
<1>5. Staged(p)'
  BY <1>3 DEF IsLive, Staged
<1>6. BoxTypeOK'
  BY BoxIdle, ProgramFacts
<1>7. FilesTyped'
  BY ProgramFacts DEF FilesTyped
<1>8. OthersStay(p)
  BY <1>1, <1>2 DEF OthersStay
<1>9. pc'[p] = "failed" => \/ pc[p] = "failed" \/ p \in troubled' \cup crowded
                           \/ \E f \in ReadOnly : target'[f] # Absent
  BY <1>1
<1>10. QED
  BY <1>4, <1>5, <1>6, <1>7, <1>8, <1>9, OwnStep

LEMMA BusyIsActive ==
    ASSUME NEW p \in Programs, NEW op \in {"zip", "stream", "unzip"},
           IsBusy(p, op) \/ CanCall(p, op)
    PROVE  IsActive(p)
<1>1. CASE IsBusy(p, op)
  BY <1>1, NoTaskTyped DEF IsBusy, IsActive
<1>2. CASE CanCall(p, op)
  BY <1>2 DEF CanCall, IsActive, IsLive
<1>3. QED
  BY <1>1, <1>2

LEMMA CallRefusedStep ==
    ASSUME TransferInv, NEW p \in Programs, CallRefused(p)
    PROVE  TransferInv'
<1>1. /\ IsActive(p) /\ Fail(p) /\ troubled' = troubled \cup {p} /\ UNCHANGED boxVars
      /\ upload' = upload /\ source' = source /\ near' = near /\ far' = far /\ target' = target
      /\ faults' = faults /\ since' = since /\ crowded' = crowded
  BY Zenon DEF CallRefused, fileVars, IsActive
<1>2. HistoryTyped'
  BY <1>1, ProgramFacts DEF HistoryTyped
<1>3. near' \in Seq(Chunks)
  BY <1>1, ProgramFacts DEF FilesTyped
<1>4. QED
  BY <1>1, <1>2, <1>3, FailStep

(* The directory of what was zipped so far, and where it is written. *)
LEMMA CloseTyped ==
    ASSUME TransferInv, NEW p \in Programs
    PROVE  Closed(p) \in Seq(Chunks) /\ (CloseZip(p) => near' \in Seq(Chunks))
<1>1. task[p].dir \in Seq(Entries) /\ Len(task[p].dir) <= Len(Tree) /\ near \in Seq(Chunks)
  BY ProgramFacts DEF TaskRecord, ProgramTyped, FilesTyped
<1>2. PICK i \in Nat : i >= 1 /\ i = NextEntry(p)
  BY <1>1 DEF NextEntry
<1>3. Directory(task[p].dir) \in Chunks
  BY <1>1, DirectoryTyped
<1>4. Closed(p) = WriteAt(near, i, Directory(task[p].dir))
  BY <1>2, Zenon DEF Closed
<1>5. Closed(p) \in Seq(Chunks)
  BY <1>1, <1>2, <1>3, <1>4, WriteTyped
<1>6. QED
  BY <1>5, Zenon DEF CloseZip

LEMMA HoleTyped ==
    ASSUME NEW archive \in Seq(Chunks), NEW damaged \in WithHole(archive)
    PROVE  /\ damaged \in Seq(Chunks)
           /\ HasDirectory(damaged) => /\ HasDirectory(archive)
                                      /\ DirOf(damaged) = DirOf(archive)
<1>1. PICK i \in 1..Len(archive) : damaged = [archive EXCEPT ![i] = Hole]
  BY DEF WithHole
<1>2. /\ damaged \in Seq(Chunks) /\ Len(damaged) = Len(archive) /\ damaged[i] = Hole
      /\ \A j \in 1..Len(archive) \ {i} : damaged[j] = archive[j]
  BY <1>1, ChunkFacts
<1>3. "dir" \notin DOMAIN Hole
  BY DEF Hole
<1>4. ASSUME HasDirectory(damaged) PROVE Last(damaged) = Last(archive) /\ archive # <<>>
  <2>1. Len(archive) \in 1..Len(archive) /\ Last(damaged) = damaged[Len(archive)]
    BY <1>1, <1>2 DEF Last
  <2>2. Len(archive) # i
    BY <1>2, <1>3, <1>4, <2>1 DEF HasDirectory
  <2>3. QED
    BY <1>2, <2>1, <2>2 DEF Last
<1>5. QED
  BY <1>2, <1>4, Zenon DEF HasDirectory, DirOf

LEMMA ZipFailsStep ==
    ASSUME TransferInv, NEW p \in Programs, ZipFails(p)
    PROVE  TransferInv'
<1>1. /\ IsBusy(p, "zip") /\ Fault /\ Fail(p) /\ UNCHANGED boxVars /\ upload' = upload
      /\ source' = source /\ far' = far /\ target' = target
      /\ CloseZip(p) \/ near' = near
  BY Zenon DEF ZipFails
<1>2. near' \in Seq(Chunks)
  BY <1>1, CloseTyped, ProgramFacts DEF FilesTyped
<1>3. /\ HistoryTyped' /\ since' = since /\ crowded' = crowded /\ troubled \subseteq troubled'
      /\ IsLive(p) => p \in troubled'
  BY <1>1, FaultStep, ProgramFacts
<1>4. QED
  BY <1>1, <1>2, <1>3, BusyIsActive, FailStep

LEMMA UnzipFailsStep ==
    ASSUME TransferInv, NEW p \in Programs, UnzipFails(p)
    PROVE  TransferInv'
<1>1. /\ IsBusy(p, "unzip") /\ Fault /\ Fail(p) /\ UNCHANGED boxVars /\ upload' = upload
      /\ source' = source /\ near' = near /\ far' = far /\ target' = target
  BY Zenon DEF UnzipFails, fileVars
<1>2. near' \in Seq(Chunks)
  BY <1>1, ProgramFacts DEF FilesTyped
<1>3. /\ HistoryTyped' /\ since' = since /\ crowded' = crowded /\ troubled \subseteq troubled'
      /\ IsLive(p) => p \in troubled'
  BY <1>1, FaultStep, ProgramFacts
<1>4. QED
  BY <1>1, <1>2, <1>3, BusyIsActive, FailStep

(* The errors of unzip that are not faults have a reason in the files.     *)
LEMMA UnzipErrorStep ==
    ASSUME TransferInv, NEW p \in Programs, IsActive(p), UnzipError(p),
           IsLive(p) => p \in troubled \cup crowded \/ \E f \in ReadOnly : target[f] # Absent
    PROVE  TransferInv'
<1>1. /\ Fail(p) /\ UNCHANGED boxVars /\ upload' = upload /\ source' = source
      /\ near' = near /\ far' = far /\ target' = target /\ UNCHANGED historyVars
  BY Zenon DEF UnzipError, fileVars
<1>2. near' \in Seq(Chunks)
  BY <1>1, ProgramFacts DEF FilesTyped
<1>3. /\ HistoryTyped' /\ since' = since /\ crowded' = crowded /\ troubled \subseteq troubled'
      /\ troubled' = troubled
  BY <1>1, QuietStep, ProgramFacts
<1>4. QED
  BY <1>1, <1>2, <1>3, FailStep

(* What a program has that goes to unzip: an archive that is whole if it   *)
(* met no fault, and in any case no directory but that of the tree.        *)
LEMMA ReceivedFacts ==
    ASSUME TransferInv, NEW p \in Programs \ crowded, pc[p] = "unzip"
    PROVE  /\ Received(p) /\ Zipped(p)
           /\ p \in troubled \/ IsWhole(p, far)
           /\ HasDirectory(far) => HasTree(p, far)
<1>1. Received(p) /\ Zipped(p)
  BY ProgramFacts DEF Staged
<1>2. HasDirectory(near) => HasTree(p, near)
  BY <1>1, Zenon DEF Zipped, IsWhole
<1>3. p \in troubled \/ IsWhole(p, far)
  BY <1>1, Zenon DEF Zipped, Received
<1>4. HasDirectory(far) => HasTree(p, far)
  <2>1. CASE far = near
    BY <1>2, <2>1
  <2>2. CASE far \in WithHole(near)
    <3>1. near \in Seq(Chunks)
      BY ProgramFacts DEF FilesTyped
    <3>2. HasDirectory(far) => HasDirectory(near) /\ DirOf(far) = DirOf(near)
      BY <2>2, <3>1, HoleTyped
    <3>3. QED
      BY <1>2, <3>2, Zenon DEF HasTree
  <2>3. QED
    BY <1>1, <2>1, <2>2 DEF Received
<1>5. QED
  BY <1>1, <1>3, <1>4

LEMMA ZippedStays ==
    ASSUME NEW p, Zipped(p), near' = near, source' = source, since' = since,
           troubled \subseteq troubled'
    PROVE  Zipped(p)'
  BY DEF Zipped, IsWhole, HasTree, OfTree, HasDirectory, DirOf

LEMMA NotAnArchiveStep ==
    ASSUME TransferInv, NEW p \in Programs, NotAnArchive(p)
    PROVE  TransferInv'
<1>1. CanCall(p, "unzip") /\ ~HasDirectory(far) /\ UnzipError(p) /\ pc[p] = "unzip"
  BY Zenon DEF NotAnArchive, CanCall
<1>2. p \notin crowded => p \in troubled
  BY <1>1, ReceivedFacts, Zenon DEF IsWhole
<1>3. QED
  BY <1>1, <1>2, BusyIsActive, UnzipErrorStep

LEMMA NotWritableStep ==
    ASSUME TransferInv, NEW p \in Programs, NotWritable(p)
    PROVE  TransferInv'
<1>1. IsBusy(p, "unzip") /\ ~MayWrite(ToUnzip(p).file) /\ UnzipError(p)
  BY Zenon DEF NotWritable, Unzipping
<1>2. \E f \in ReadOnly : target[f] # Absent
  BY <1>1, Zenon DEF MayWrite
<1>3. QED
  BY <1>1, <1>2, BusyIsActive, UnzipErrorStep

(* What a program that is live and met no other unzips has the directory   *)
(* of the whole tree, and all that is in it if there was no fault.         *)
LEMMA UnzipsWhole ==
    ASSUME TransferInv, NEW p \in Programs \ crowded, IsLive(p), IsBusy(p, "unzip")
    PROVE  /\ pc[p] = "unzip" /\ UnzippedTo(p)
           /\ Len(task[p].dir) = Len(Tree) /\ OfTree(p, task[p].dir)
           /\ task[p].dir \in Seq(Entries)
           /\ \/ p \in troubled
              \/ \A i \in 1..Len(Tree) : i < Len(far) /\ far[i] = task[p].dir[i]
<1>1. pc[p] = "unzip" /\ UnzippedTo(p)
  BY ProgramFacts DEF ProgramTyped, IsBusy, Staged
<1>2. /\ task[p].dir = DirOf(far) /\ HasTree(p, far)
      /\ p \in troubled \/ IsWhole(p, far)
  BY <1>1, ReceivedFacts, Zenon DEF UnzippedTo
<1>3. Len(task[p].dir) = Len(Tree) /\ OfTree(p, task[p].dir)
  BY <1>2, Zenon DEF HasTree
<1>4. task[p].dir \in Seq(Entries)
  BY ProgramFacts DEF TaskRecord
<1>5. ASSUME p \notin troubled
      PROVE  \A i \in 1..Len(Tree) : i < Len(far) /\ far[i] = task[p].dir[i]
  <2>1. far = Append(task[p].dir, Directory(task[p].dir))
    BY <1>2, <1>5, Zenon DEF IsWhole
  <2>2. QED
    BY <1>3, <1>4, <2>1, TreeFacts
<1>6. QED
  BY <1>1, <1>3, <1>4, <1>5

LEMMA CorruptStep ==
    ASSUME TransferInv, NEW p \in Programs, Corrupt(p)
    PROVE  TransferInv'
<1>1. IsBusy(p, "unzip") /\ task[p].pos < Len(task[p].dir) /\ ~IsReadable(p) /\ UnzipError(p)
  BY Zenon DEF Corrupt, Unzipping
<1>2. ASSUME IsLive(p), p \notin crowded, p \notin troubled PROVE FALSE
  <2>1. PICK n \in Nat : n = task[p].pos
    BY ProgramFacts DEF TaskRecord
  <2>2. /\ n + 1 \in 1..Len(Tree) /\ n + 1 < Len(far) /\ far[n + 1] = task[p].dir[n + 1]
    BY <1>1, <1>2, <2>1, UnzipsWhole, TreeFacts
  <2>3. n < Len(far)
    <3>1. Len(far) \in Nat
      BY ProgramFacts DEF FilesTyped
    <3>2. QED
      BY <2>2, <3>1
  <2>4. IsReadable(p)
    BY <2>1, <2>2, <2>3 DEF IsReadable, ToUnzip
  <2>5. QED
    BY <1>1, <2>4
<1>3. QED
  BY <1>1, <1>2, BusyIsActive, UnzipErrorStep

----------------------------------------------------------------------------
(* Steps of zipFile                                                        *)

LEMMA QuietOwnStep ==
    ASSUME TransferInv, NEW p \in Programs, IsActive(p), OthersStay(p), UNCHANGED boxVars,
           UNCHANGED historyVars, FilesTyped', source' = source, ProgramTyped(p)',
           p \notin crowded => Staged(p)',
           \A f \in Files : target[f] # Absent => target'[f] # Absent,
           pc'[p] = "failed" => pc[p] = "failed"
    PROVE  TransferInv'
<1>1. BoxTypeOK'
  BY BoxIdle, ProgramFacts
<1>2. /\ HistoryTyped' /\ since' = since /\ crowded' = crowded /\ troubled \subseteq troubled'
  BY QuietStep, ProgramFacts
<1>3. QED
  BY <1>1, <1>2, OwnStep

(* A step of a task alone: main stays where it is. *)
LEMMA OnlyTask ==
    ASSUME TransferInv, NEW p \in Programs, NEW t, SetTask(p, t), pc' = pc
    PROVE  /\ OthersStay(p) /\ task'[p] = t /\ pc'[p] = pc[p]
           /\ IsLive(p)' <=> IsLive(p)
<1>1. /\ task' = [q \in Programs |-> task'[q]] /\ task'[p] = t
      /\ \A q \in Programs \ {p} : task'[q] = task[q]
  BY ProgramFacts, TaskGoes
<1>2. pc' \in [Programs -> Labels]
  BY ProgramFacts DEF ProgramsTyped, Labels
<1>3. QED
  BY <1>1, <1>2 DEF OthersStay, IsLive

LEMMA TaskEnds ==
    ASSUME TransferInv, NEW p \in Programs, NEW label \in Labels, Goto(p, label),
           SetTask(p, NoTask)
    PROVE  /\ OthersStay(p) /\ task'[p] = NoTask
           /\ pc'[p] = (IF IsLive(p) THEN label ELSE pc[p])
           /\ label # "idle" => ProgramTyped(p)'
<1>1. /\ task' = [q \in Programs |-> task'[q]] /\ task'[p] = NoTask
      /\ \A q \in Programs \ {p} : task'[q] = task[q]
  BY ProgramFacts, TaskGoes
<1>2. /\ pc' \in [Programs -> Labels]
      /\ pc'[p] = (IF IsLive(p) THEN label ELSE pc[p])
      /\ \A q \in Programs \ {p} : pc'[q] = pc[q]
  BY ProgramFacts, MainGoes
<1>3. ProgramTyped(p)'
  BY <1>1, NoTaskTyped DEF ProgramTyped
<1>4. QED
  BY <1>1, <1>2, <1>3 DEF OthersStay

LEMMA StartZipStep ==
    ASSUME TransferInv, NEW p \in Programs, StartZip(p)
    PROVE  TransferInv'
<1>1. /\ CanCall(p, "zip") /\ near' = <<>> /\ SetTask(p, Task("zip", <<>>))
      /\ UNCHANGED boxVars /\ upload' = upload /\ source' = source /\ far' = far
      /\ target' = target /\ pc' = pc /\ UNCHANGED historyVars
  BY Zenon DEF StartZip
<1>2. IsActive(p) /\ pc[p] = "zip"
  BY <1>1, BusyIsActive DEF CanCall
<1>3. OthersStay(p) /\ task'[p] = Task("zip", <<>>) /\ pc'[p] = "zip"
  BY <1>1, <1>2, OnlyTask
<1>4. /\ task'[p] \in TaskRecord /\ task'[p].op = "zip" /\ task'[p].dir = <<>>
      /\ Len(task'[p].wire) <= MaxWire /\ Len(task'[p].dir) <= Len(Tree)
  BY <1>3, StartTyped DEF Operations
<1>5. ProgramTyped(p)'
  BY <1>3, <1>4 DEF ProgramTyped
<1>6. FilesTyped'
  BY <1>1, ProgramFacts DEF FilesTyped
<1>7. Staged(p)'
  <2>1. OfTree(p, task[p].dir)'
    BY <1>4 DEF OfTree
  <2>2. QED
    BY <1>1, <1>3, <1>4, <2>1 DEF Staged
<1>8. QED
  BY <1>1, <1>2, <1>3, <1>5, <1>6, <1>7, QuietOwnStep

LEMMA ZipEntryStep ==
    ASSUME TransferInv, NEW p \in Programs, ZipEntry(p)
    PROVE  TransferInv'
<1> DEFINE t == task[p]
           e == Entry(Tree[NextEntry(p)], source)
<1>1. /\ IsBusy(p, "zip") /\ NextEntry(p) <= Len(Tree) /\ near' = WriteAt(near, NextEntry(p), e)
      /\ SetTask(p, [task[p] EXCEPT !.dir = Append(@, e)])
      /\ UNCHANGED boxVars /\ upload' = upload /\ source' = source /\ far' = far
      /\ target' = target /\ pc' = pc /\ UNCHANGED historyVars
  BY Zenon DEF ZipEntry
<1>2. /\ t \in TaskRecord /\ t.dir \in Seq(Entries) /\ near \in Seq(Chunks) /\ t.op = "zip"
      /\ source \in Versions /\ ProgramTyped(p)
  BY <1>1, ProgramFacts DEF TaskRecord, FilesTyped, IsBusy
<1>3. PICK n \in Nat : n = Len(t.dir) /\ NextEntry(p) = n + 1
  BY <1>2 DEF NextEntry
<1>4. n + 1 \in 1..Len(Tree) /\ Tree[n + 1] \in Files
  BY <1>1, <1>3, TreeFacts
<1>5. e \in Entries /\ e \in Chunks /\ e.file = Tree[n + 1] /\ e.version = source
  BY <1>2, <1>3, <1>4, ChunkFacts
<1> HIDE DEF e
<1>6. near' \in Seq(Chunks) /\ near' = WriteAt(near, n + 1, e)
  <2>1. near' = WriteAt(near, n + 1, e)
    BY <1>1, <1>3
  <2>2. n + 1 \in Nat /\ n + 1 >= 1
    OBVIOUS
  <2>3. QED
    BY <1>2, <1>5, <2>1, <2>2, WriteTyped
<1>7. /\ OthersStay(p) /\ task'[p] = [task[p] EXCEPT !.dir = Append(@, e)]
      /\ pc'[p] = pc[p] /\ (IsLive(p)' <=> IsLive(p))
  BY <1>1, OnlyTask
<1>8. /\ Append(t.dir, e) \in Seq(Entries) /\ Len(Append(t.dir, e)) = n + 1
      /\ \A i \in 1..n : Append(t.dir, e)[i] = t.dir[i]
      /\ Append(t.dir, e)[n + 1] = e
  BY <1>2, <1>3, <1>5
<1>9. /\ task'[p] \in TaskRecord /\ task'[p].op = "zip" /\ task'[p].dir = Append(t.dir, e)
      /\ task'[p].wire = t.wire
  BY <1>2, <1>7, <1>8 DEF TaskRecord
<1>10. ProgramTyped(p)'
  BY <1>2, <1>4, <1>7, <1>8, <1>9, NoTaskTyped DEF ProgramTyped
<1>11. FilesTyped'
  BY <1>1, <1>6, ProgramFacts DEF FilesTyped
<1>12. ASSUME p \notin crowded PROVE Staged(p)'
  <2>1. CASE pc[p] = "zip"
    <3>1. near = t.dir /\ OfTree(p, t.dir)
      BY <1>1, <1>12, <2>1, ProgramFacts DEF Staged
    <3>2. near' = Append(t.dir, e)
      <4>1. n + 1 \in Nat /\ n + 1 = Len(near) + 1
        BY <1>3, <3>1
      <4>2. WriteAt(near, n + 1, e) = Append(near, e)
        BY <1>2, <1>5, <4>1, WriteAtEnd
      <4>3. QED
        BY <1>6, <3>1, <4>2
    <3>3. since' = since
      BY <1>1, QuietStep, ProgramFacts
    <3>4. OfTree(p, task[p].dir)'
      <4>1. source \in since[p]..source
        <5>1. since[p] <= source /\ since[p] \in Versions /\ source \in Versions
          BY ProgramFacts DEF TransferInv, NoneFromLater, HistoryTyped, FilesTyped
        <5>2. QED
          BY <5>1 DEF Versions
      <4>2. ASSUME NEW i \in 1..n + 1
            PROVE  /\ Append(t.dir, e)[i].file = Tree[i]
                   /\ Append(t.dir, e)[i].version \in since[p]..source
        <5>1. CASE i = n + 1
          BY <1>5, <1>8, <4>1, <5>1
        <5>2. CASE i # n + 1
          BY <1>3, <1>8, <3>1, <5>2 DEF OfTree
        <5>3. QED
          BY <5>1, <5>2
      <4>3. QED
        BY <1>1, <1>8, <1>9, <3>3, <4>2 DEF OfTree
    <3>5. QED
      BY <1>7, <1>9, <2>1, <3>2, <3>4 DEF Staged
  <2>2. CASE pc[p] # "zip"
    <3>1. ~IsLive(p)
      BY <1>2, <2>2 DEF ProgramTyped
    <3>2. QED
      BY <1>7, <3>1 DEF IsLive, Staged
  <2>3. QED
    BY <2>1, <2>2
<1>13. IsActive(p)
  BY <1>1, BusyIsActive
<1>14. QED
  BY <1>1, <1>7, <1>10, <1>11, <1>12, <1>13, QuietOwnStep

(* What a program that met no other zipped is the whole tree.              *)
LEMMA WholeWhenClosed ==
    ASSUME TransferInv, NEW p \in Programs, p \notin crowded, pc[p] = "zip",
           IsBusy(p, "zip"), NextEntry(p) > Len(Tree)
    PROVE  /\ near = task[p].dir /\ near \in Seq(Entries) /\ Len(near) = Len(Tree)
           /\ OfTree(p, near)
<1>1. near = task[p].dir /\ OfTree(p, task[p].dir)
  BY ProgramFacts DEF Staged
<1>2. task[p].dir \in Seq(Entries) /\ Len(task[p].dir) <= Len(Tree)
  BY ProgramFacts DEF TaskRecord, ProgramTyped
<1>3. Len(task[p].dir) = Len(Tree)
  BY <1>2, TreeFacts DEF NextEntry
<1>4. QED
  BY <1>1, <1>2, <1>3

LEMMA AppendDirectory ==
    ASSUME NEW d \in Seq(Entries), NEW archive, archive = Append(d, Directory(d))
    PROVE  HasDirectory(archive) /\ DirOf(archive) = d
<1>1. Len(archive) = Len(d) + 1 /\ archive[Len(d) + 1] = Directory(d) /\ Len(d) \in Nat
  OBVIOUS
<1>2. Last(archive) = Directory(d) /\ archive # <<>>
  BY <1>1 DEF Last
<1>3. QED
  BY <1>2, ChunkFacts, Zenon DEF HasDirectory, DirOf

LEMMA EntriesAreChunks ==
    ASSUME NEW d \in Seq(Entries)
    PROVE  d \in Seq(Chunks) /\ ~HasDirectory(d)
<1>1. \A e \in Entries : e \in Chunks /\ "dir" \notin DOMAIN e
  BY ChunkFacts
<1>2. d \in Seq(Chunks)
  <2>1. \A i \in 1..Len(d) : d[i] \in Chunks
    BY <1>1
  <2>2. QED
    BY <2>1
<1>3. d # <<>> => Last(d) \in Entries
  BY DEF Last
<1>4. QED
  BY <1>1, <1>2, <1>3, Zenon DEF HasDirectory

LEMMA ClosedWhole ==
    ASSUME TransferInv, NEW p \in Programs, NEW d \in Seq(Entries), d = near,
           d = task[p].dir, Len(d) = Len(Tree)
    PROVE  /\ Closed(p) = Append(d, Directory(d))
           /\ HasDirectory(Closed(p)) /\ DirOf(Closed(p)) = d
<1>1. NextEntry(p) \in Nat /\ NextEntry(p) = Len(near) + 1
  BY DEF NextEntry
<1>2. Directory(d) \in Chunks /\ near \in Seq(Chunks)
  BY TreeFacts, DirectoryTyped, ProgramFacts DEF FilesTyped
<1>3. Closed(p) = WriteAt(near, NextEntry(p), Directory(d))
  BY Zenon DEF Closed
<1>4. Closed(p) = Append(d, Directory(d))
  BY <1>1, <1>2, <1>3, WriteAtEnd
<1>5. QED
  BY <1>4, AppendDirectory

LEMMA ZipDoneStep ==
    ASSUME TransferInv, NEW p \in Programs, ZipDone(p)
    PROVE  TransferInv'
<1>1. /\ IsBusy(p, "zip") /\ NextEntry(p) > Len(Tree) /\ CloseZip(p)
      /\ Goto(p, "stream") /\ SetTask(p, NoTask)
      /\ UNCHANGED boxVars /\ upload' = upload /\ source' = source /\ far' = far
      /\ target' = target /\ UNCHANGED historyVars
  BY Zenon DEF ZipDone
<1>2. /\ OthersStay(p) /\ task'[p] = NoTask /\ ProgramTyped(p)'
      /\ pc'[p] = (IF IsLive(p) THEN "stream" ELSE pc[p])
  BY <1>1, TaskEnds DEF Labels
<1>3. FilesTyped'
  BY <1>1, CloseTyped, ProgramFacts DEF FilesTyped
<1>4. ASSUME p \notin crowded PROVE Staged(p)'
  <2>1. CASE IsLive(p)
    <3>1. pc[p] = "zip" /\ pc'[p] = "stream"
      BY <1>1, <1>2, <2>1, ProgramFacts DEF ProgramTyped, IsBusy
    <3>2. PICK d : d = near /\ d = task[p].dir /\ d \in Seq(Entries) /\ Len(d) = Len(Tree)
                   /\ OfTree(p, d)
      BY <1>1, <1>4, <3>1, WholeWhenClosed
    <3>3. near' = Append(d, Directory(d))
      BY <1>1, <3>2, ClosedWhole, Zenon DEF CloseZip
    <3>4. HasDirectory(near') /\ DirOf(near') = d
      BY <3>2, <3>3, AppendDirectory
    <3>5. since' = since
      BY <1>1, QuietStep, ProgramFacts
    <3>6. IsWhole(p, near)'
      BY <1>1, <3>2, <3>3, <3>4, <3>5 DEF IsWhole, HasTree, OfTree, HasDirectory, DirOf
    <3>7. ~IsBusy(p, "stream")'
      BY <1>2, NoTaskTyped DEF IsBusy
    <3>8. QED
      BY <3>1, <3>6, <3>7 DEF Staged, Zipped
  <2>2. CASE ~IsLive(p)
    BY <1>2, <2>2 DEF IsLive, Staged
  <2>3. QED
    BY <2>1, <2>2
<1>5. pc'[p] = "failed" => pc[p] = "failed"
  BY <1>2
<1>6. IsActive(p)
  BY <1>1, BusyIsActive
<1>7. QED
  BY <1>1, <1>2, <1>3, <1>4, <1>5, <1>6, QuietOwnStep

LEMMA ZipNotClosedStep ==
    ASSUME TransferInv, NEW p \in Programs, ZipNotClosed(p)
    PROVE  TransferInv'
<1>1. /\ IsBusy(p, "zip") /\ NextEntry(p) > Len(Tree) /\ Fault
      /\ Goto(p, "stream") /\ SetTask(p, NoTask)
      /\ UNCHANGED boxVars /\ upload' = upload /\ source' = source
      /\ far' = far /\ target' = target
      /\ near' \in {near} \cup WithHole(Closed(p))
  BY Zenon DEF ZipNotClosed
<1>2. /\ OthersStay(p) /\ task'[p] = NoTask /\ ProgramTyped(p)'
      /\ pc'[p] = (IF IsLive(p) THEN "stream" ELSE pc[p])
  BY <1>1, TaskEnds DEF Labels
<1>3. /\ near' \in Seq(Chunks)
      /\ \/ near' = near
         \/ HasDirectory(near') => DirOf(near') = DirOf(Closed(p))
  <2>1. CASE near' = near
    BY <2>1, ProgramFacts DEF FilesTyped
  <2>2. CASE near' \in WithHole(Closed(p))
    BY <2>2, CloseTyped, HoleTyped
  <2>3. QED
    BY <1>1, <2>1, <2>2
<1>4. FilesTyped' /\ BoxTypeOK'
  BY <1>1, <1>3, BoxIdle, ProgramFacts DEF FilesTyped
<1>5. /\ HistoryTyped' /\ since' = since /\ crowded' = crowded /\ troubled \subseteq troubled'
      /\ IsLive(p) => p \in troubled'
  BY <1>1, FaultStep, ProgramFacts
<1>6. ASSUME p \notin crowded PROVE Staged(p)'
  <2>1. CASE IsLive(p)
    <3>1. pc[p] = "zip" /\ pc'[p] = "stream"
      BY <1>1, <1>2, <2>1, ProgramFacts DEF ProgramTyped, IsBusy
    <3>2. PICK d : d = near /\ d = task[p].dir /\ d \in Seq(Entries) /\ Len(d) = Len(Tree)
                   /\ OfTree(p, d)
      BY <1>1, <1>6, <3>1, WholeWhenClosed
    <3>3. DirOf(Closed(p)) = d
      BY <3>2, ClosedWhole
    <3>4. HasDirectory(near') => DirOf(near') = d
      BY <1>3, <3>2, <3>3, EntriesAreChunks
    <3>5. (HasDirectory(near) => HasTree(p, near))'
      BY <1>1, <1>5, <3>2, <3>4 DEF HasTree, OfTree, HasDirectory, DirOf
    <3>6. ~IsBusy(p, "stream")'
      BY <1>2, NoTaskTyped DEF IsBusy
    <3>7. QED
      BY <1>5, <2>1, <3>1, <3>5, <3>6 DEF Staged, Zipped
  <2>2. CASE ~IsLive(p)
    BY <1>2, <2>2 DEF IsLive, Staged
  <2>3. QED
    BY <2>1, <2>2
<1>7. pc'[p] = "failed" => pc[p] = "failed"
  BY <1>2
<1>8. IsActive(p)
  BY <1>1, BusyIsActive
<1>9. QED
  BY <1>1, <1>2, <1>4, <1>5, <1>6, <1>7, <1>8, OwnStep

----------------------------------------------------------------------------
(* The stream                                                              *)

LEMMA TransitStarts ==
    ASSUME NEW archive \in Seq(Chunks)
    PROVE  InTransit(0, 0, FALSE, <<>>, <<>>, archive)
  BY DEF InTransit

LEMMA TransitSends ==
    ASSUME NEW pos \in Nat, NEW sent \in Nat, NEW wire \in Seq(Chunks \cup {Eof}),
           NEW received, NEW archive \in Seq(Chunks), NEW chunk \in Chunks, NEW next \in Nat,
           InTransit(pos, sent, FALSE, wire, received, archive), sent < Len(archive),
           next = sent + 1, chunk = archive[next]
    PROVE  InTransit(pos, next, FALSE, Append(wire, chunk), received, archive)
<1>1. /\ Append(wire, chunk) \in Seq(Chunks \cup {Eof})
      /\ Len(Append(wire, chunk)) = Len(wire) + 1
      /\ \A i \in 1..Len(wire) : Append(wire, chunk)[i] = wire[i]
      /\ Append(wire, chunk)[Len(wire) + 1] = chunk
  OBVIOUS
<1>2. Len(wire) = sent - pos /\ pos <= sent /\ Len(received) = pos
  BY DEF InTransit
<1>3. ASSUME NEW i \in 1..(next - pos) PROVE Append(wire, chunk)[i] = archive[pos + i]
  <2>1. CASE i = next - pos
    <3>1. i = Len(wire) + 1 /\ pos + i = next
      BY <1>2, <2>1
    <3>2. QED
      BY <1>1, <3>1
  <2>2. CASE i # next - pos
    <3>1. i \in 1..(sent - pos)
      BY <1>2, <2>2
    <3>2. QED
      BY <1>1, <1>2, <3>1 DEF InTransit
  <2>3. QED
    BY <2>1, <2>2
<1>4. QED
  BY <1>1, <1>2, <1>3 DEF InTransit

LEMMA TransitCloses ==
    ASSUME NEW pos \in Nat, NEW sent \in Nat, NEW wire \in Seq(Chunks \cup {Eof}),
           NEW received, NEW archive \in Seq(Chunks),
           InTransit(pos, sent, FALSE, wire, received, archive), sent >= Len(archive)
    PROVE  InTransit(pos, sent, TRUE, Append(wire, Eof), received, archive)
<1>1. /\ Len(Append(wire, Eof)) = Len(wire) + 1
      /\ \A i \in 1..Len(wire) : Append(wire, Eof)[i] = wire[i]
      /\ Append(wire, Eof)[Len(wire) + 1] = Eof
  OBVIOUS
<1>2. Len(wire) = sent - pos /\ pos <= sent /\ Len(received) = pos /\ sent = Len(archive)
  BY DEF InTransit
<1>3. QED
  BY <1>1, <1>2 DEF InTransit

LEMMA TransitReceives ==
    ASSUME NEW pos \in Nat, NEW sent \in Nat, NEW closed \in BOOLEAN,
           NEW wire \in Seq(Chunks \cup {Eof}), NEW received \in Seq(Chunks),
           NEW archive \in Seq(Chunks), NEW next \in Nat, next = pos + 1,
           InTransit(pos, sent, closed, wire, received, archive),
           wire # <<>>, Head(wire) # Eof
    PROVE  /\ Head(wire) \in Chunks
           /\ InTransit(next, sent, closed, Tail(wire), Append(received, Head(wire)), archive)
<1>1. /\ Len(wire) \in Nat /\ Len(wire) >= 1 /\ Head(wire) = wire[1]
      /\ Tail(wire) \in Seq(Chunks \cup {Eof}) /\ Len(Tail(wire)) = Len(wire) - 1
      /\ \A i \in 1..(Len(wire) - 1) : Tail(wire)[i] = wire[i + 1]
  BY HeadTailProperties
<1>2. Head(wire) \in Chunks
  BY <1>1
<1>3. pos < sent /\ Len(received) = pos /\ sent <= Len(archive)
  BY <1>1 DEF InTransit
<1>4. Head(wire) = archive[next]
  BY <1>1, <1>3 DEF InTransit
<1>5. /\ Len(Append(received, Head(wire))) = next
      /\ \A i \in 1..pos : Append(received, Head(wire))[i] = received[i]
      /\ Append(received, Head(wire))[next] = Head(wire)
  BY <1>2, <1>3
<1>6. \A i \in 1..next : Append(received, Head(wire))[i] = archive[i]
  BY <1>4, <1>5 DEF InTransit
<1>7. ASSUME NEW i \in 1..(sent - next) PROVE Tail(wire)[i] = archive[next + i]
  <2>1. i + 1 \in 1..(sent - pos) /\ pos + (i + 1) = next + i /\ Len(wire) >= sent - pos
    BY <1>3 DEF InTransit
  <2>2. Tail(wire)[i] = wire[i + 1]
    BY <1>1, <1>3, <2>1
  <2>3. wire[i + 1] = archive[pos + (i + 1)]
    BY <2>1 DEF InTransit
  <2>4. QED
    BY <2>1, <2>2, <2>3
<1>8. CASE closed
  <2>1. sent = Len(archive) /\ Len(wire) = (sent - pos) + 1 /\ wire[(sent - pos) + 1] = Eof
    BY <1>8 DEF InTransit
  <2>2. Len(Tail(wire)) = (sent - next) + 1 /\ Tail(wire)[(sent - next) + 1] = Eof
    BY <1>1, <1>3, <2>1
  <2>3. next <= sent
    BY <1>3
  <2>4. QED
    BY <1>2, <1>3, <1>5, <1>6, <1>7, <1>8, <2>1, <2>2, <2>3, Zenon DEF InTransit
<1>9. CASE ~closed
  <2>1. Len(Tail(wire)) = sent - next
    BY <1>1, <1>3, <1>9 DEF InTransit
  <2>2. QED
    BY <1>2, <1>3, <1>5, <1>6, <1>7, <1>9, <2>1 DEF InTransit
<1>10. QED
  BY <1>8, <1>9

(* The end is behind the last chunk of the archive: it comes when all came.*)
LEMMA TransitEnds ==
    ASSUME NEW pos \in Nat, NEW sent \in Nat, NEW closed \in BOOLEAN,
           NEW wire \in Seq(Chunks \cup {Eof}), NEW received \in Seq(Chunks),
           NEW archive \in Seq(Chunks),
           InTransit(pos, sent, closed, wire, received, archive),
           wire # <<>>, Head(wire) = Eof
    PROVE  received = archive
<1>1. Len(wire) \in Nat /\ Len(wire) >= 1 /\ Head(wire) = wire[1]
  BY HeadTailProperties
<1>2. ASSUME pos < sent PROVE FALSE
  <2>1. 1 \in 1..(sent - pos) /\ pos + 1 \in 1..Len(archive)
    BY <1>2 DEF InTransit
  <2>2. wire[1] = archive[pos + 1]
    BY <2>1 DEF InTransit
  <2>3. archive[pos + 1] \in Chunks
    BY <2>1
  <2>4. QED
    BY <1>1, <2>2, <2>3, ChunkFacts
<1>3. closed /\ sent = pos
  BY <1>1, <1>2 DEF InTransit
<1>4. Len(received) = Len(archive) /\ \A i \in 1..Len(received) : received[i] = archive[i]
  BY <1>3 DEF InTransit
<1>5. QED
  BY <1>4, SeqEqual

LEMMA StartStreamStep ==
    ASSUME TransferInv, NEW p \in Programs, StartStream(p)
    PROVE  TransferInv'
<1>1. /\ CanCall(p, "stream") /\ far' = <<>> /\ SetTask(p, Task("stream", <<>>))
      /\ UNCHANGED boxVars /\ upload' = upload /\ source' = source /\ near' = near
      /\ target' = target /\ pc' = pc /\ UNCHANGED historyVars
  BY Zenon DEF StartStream
<1>2. IsActive(p) /\ pc[p] = "stream"
  BY <1>1, BusyIsActive DEF CanCall
<1>3. OthersStay(p) /\ task'[p] = Task("stream", <<>>) /\ pc'[p] = "stream"
  BY <1>1, <1>2, OnlyTask
<1>4. /\ task'[p] \in TaskRecord /\ task'[p].op = "stream"
      /\ Len(task'[p].wire) <= MaxWire /\ Len(task'[p].dir) <= Len(Tree)
  BY <1>3, StartTyped DEF Operations
<1>5. ProgramTyped(p)'
  BY <1>3, <1>4 DEF ProgramTyped
<1>6. FilesTyped'
  BY <1>1, ProgramFacts DEF FilesTyped
<1>7. ASSUME p \notin crowded PROVE Staged(p)'
  <2>1. /\ task'[p].pos = 0 /\ task'[p].sent = 0 /\ task'[p].closed = FALSE
        /\ task'[p].wire = <<>>
    BY <1>3 DEF Task
  <2>2. Streaming(p)'
    <3>1. InTransit(0, 0, FALSE, <<>>, <<>>, near)
      BY TransitStarts, ProgramFacts DEF FilesTyped
    <3>2. QED
      BY <1>1, <2>1, <3>1 DEF Streaming
  <2>3. since' = since /\ troubled' = troubled
    BY <1>1, QuietStep, ProgramFacts
  <2>4. Zipped(p)'
    <3>1. Zipped(p)
      BY <1>2, <1>7, ProgramFacts DEF Staged
    <3>2. QED
      BY <1>1, <2>3, <3>1, ZippedStays
  <2>5. QED
    BY <1>3, <2>2, <2>4 DEF Staged
<1>8. QED
  BY <1>1, <1>2, <1>3, <1>5, <1>6, <1>7, QuietOwnStep

(* A step of the stream: the archive that is sent stays as it is.          *)
LEMMA StreamStepHolds ==
    ASSUME TransferInv, NEW p \in Programs, IsBusy(p, "stream"), NEW t \in TaskRecord,
           SetTask(p, t), t.op = "stream", Len(t.wire) <= MaxWire, t.dir = task[p].dir,
           UNCHANGED boxVars, upload' = upload, source' = source, near' = near,
           far' \in Seq(Chunks), target' = target, pc' = pc, UNCHANGED historyVars,
           p \notin crowded /\ IsLive(p) =>
               InTransit(t.pos, t.sent, t.closed, t.wire, far', near)
    PROVE  TransferInv'
<1>1. OthersStay(p) /\ task'[p] = t /\ pc'[p] = pc[p] /\ (IsLive(p)' <=> IsLive(p))
  BY OnlyTask
<1>2. IsActive(p) /\ ProgramTyped(p) /\ task[p].op = "stream" /\ task[p] # NoTask
  BY BusyIsActive, ProgramFacts, NoTaskTyped DEF IsBusy
<1>3. ProgramTyped(p)'
  <2>1. pc[p] # "idle" /\ (IsLive(p) => pc[p] = "stream") /\ Len(task[p].dir) <= Len(Tree)
    BY <1>2 DEF ProgramTyped
  <2>2. QED
    BY <1>1, <2>1 DEF ProgramTyped
<1>4. FilesTyped'
  BY ProgramFacts DEF FilesTyped
<1>5. ASSUME p \notin crowded PROVE Staged(p)'
  <2>1. CASE IsLive(p)
    <3>1. pc[p] = "stream" /\ Zipped(p)
      BY <1>2, <1>5, <2>1, ProgramFacts DEF ProgramTyped, Staged
    <3>2. since' = since /\ troubled' = troubled
      BY QuietStep, ProgramFacts
    <3>3. Zipped(p)'
      BY <3>1, <3>2, ZippedStays
    <3>4. Streaming(p)'
      BY <1>1, <1>5, <2>1 DEF Streaming
    <3>5. QED
      BY <1>1, <3>1, <3>3, <3>4 DEF Staged
  <2>2. CASE ~IsLive(p)
    BY <1>1, <2>2 DEF IsLive, Staged
  <2>3. QED
    BY <2>1, <2>2
<1>6. QED
  BY <1>1, <1>2, <1>3, <1>4, <1>5, QuietOwnStep

(* What a stream stands on. *)
LEMMA StreamFacts ==
    ASSUME TransferInv, NEW p \in Programs, IsBusy(p, "stream")
    PROVE  /\ task[p] \in TaskRecord /\ task[p].op = "stream"
           /\ task[p].pos \in Nat /\ task[p].sent \in Nat /\ task[p].closed \in BOOLEAN
           /\ task[p].wire \in Seq(Chunks \cup {Eof}) /\ Len(task[p].wire) <= MaxWire
           /\ near \in Seq(Chunks) /\ far \in Seq(Chunks)
           /\ p \notin crowded /\ IsLive(p) =>
                /\ pc[p] = "stream" /\ Zipped(p)
                /\ InTransit(task[p].pos, task[p].sent, task[p].closed, task[p].wire, far, near)
<1>1. ProgramTyped(p) /\ FilesTyped /\ task[p].op = "stream"
  BY ProgramFacts DEF IsBusy
<1>2. ASSUME p \notin crowded, IsLive(p) PROVE pc[p] = "stream" /\ Zipped(p) /\ Streaming(p)
  <2>1. pc[p] = "stream"
    BY <1>1, <1>2 DEF ProgramTyped
  <2>2. QED
    BY <1>2, <2>1, ProgramFacts DEF Staged
<1>3. /\ task[p] \in TaskRecord /\ Len(task[p].wire) <= MaxWire
      /\ near \in Seq(Chunks) /\ far \in Seq(Chunks)
  BY <1>1 DEF ProgramTyped, FilesTyped
<1>4. /\ task[p].pos \in Nat /\ task[p].sent \in Nat /\ task[p].closed \in BOOLEAN
      /\ task[p].wire \in Seq(Chunks \cup {Eof})
  BY <1>3 DEF TaskRecord
<1>5. QED
  BY <1>1, <1>2, <1>3, <1>4 DEF Streaming

LEMMA SendChunkStep ==
    ASSUME TransferInv, NEW p \in Programs, SendChunk(p)
    PROVE  TransferInv'
<1>1. /\ CanSend(p) /\ ~AllRead(p) /\ Wire(p, near[task[p].sent + 1])
      /\ UNCHANGED boxVars /\ upload' = upload /\ source' = source /\ near' = near
      /\ far' = far /\ target' = target /\ pc' = pc /\ UNCHANGED historyVars
  BY Zenon DEF SendChunk, fileVars
<1>2. IsBusy(p, "stream") /\ Len(task[p].wire) < MaxWire
  BY <1>1, Zenon DEF CanSend
<1>3. PICK sent \in Nat, wire \in Seq(Chunks \cup {Eof}) :
        sent = task[p].sent /\ wire = task[p].wire /\ sent < Len(near)
  <2>1. task[p].sent < Len(near)
    BY <1>1, <1>2, StreamFacts DEF AllRead
  <2>2. QED
    BY <1>2, <2>1, StreamFacts
<1>4. PICK next \in Nat, chunk \in Chunks :
        next = sent + 1 /\ chunk = near[next] /\ chunk = near[task[p].sent + 1]
  <2>1. sent + 1 \in 1..Len(near) /\ near \in Seq(Chunks)
    BY <1>2, <1>3, StreamFacts
  <2>2. near[sent + 1] \in Chunks
    BY <2>1
  <2>3. QED
    BY <1>3, <2>1, <2>2
<1>5. /\ Append(wire, chunk) \in Seq(Chunks \cup {Eof})
      /\ Len(Append(wire, chunk)) = Len(wire) + 1
  OBVIOUS
<1>6. PICK t : t = [task[p] EXCEPT !.wire = Append(wire, chunk), !.sent = next]
  OBVIOUS
<1>7. SetTask(p, t)
  BY <1>1, <1>2, <1>3, <1>4, <1>6, StreamFacts DEF Wire, TaskRecord
<1>8. /\ t \in TaskRecord /\ t.op = "stream" /\ t.dir = task[p].dir
      /\ t.wire = Append(wire, chunk) /\ t.sent = next /\ t.pos = task[p].pos
      /\ t.closed = task[p].closed
  BY <1>2, <1>5, <1>6, StreamFacts DEF TaskRecord
<1>9. Len(t.wire) <= MaxWire
  <2>1. Len(wire) < MaxWire /\ Len(wire) \in Nat /\ MaxWire \in Nat
    BY <1>2, <1>3, BoundsAssumption
  <2>2. QED
    BY <1>5, <1>8, <2>1
<1>10. ASSUME p \notin crowded, IsLive(p)
       PROVE  InTransit(t.pos, t.sent, t.closed, t.wire, far', near)
  <2>1. PICK pos \in Nat, closed \in BOOLEAN :
          pos = task[p].pos /\ closed = task[p].closed
          /\ InTransit(pos, sent, closed, wire, far, near)
    BY <1>2, <1>3, <1>10, StreamFacts
  <2>2. near \in Seq(Chunks) /\ closed = FALSE
    BY <1>2, <1>3, <2>1, StreamFacts DEF InTransit
  <2>3. InTransit(pos, next, FALSE, Append(wire, chunk), far, near)
    BY <1>3, <1>4, <2>1, <2>2, TransitSends
  <2>4. QED
    BY <1>1, <1>8, <2>1, <2>2, <2>3, Zenon
<1>11. far' \in Seq(Chunks)
  BY <1>1, <1>2, StreamFacts
<1>12. QED
  BY <1>1, <1>2, <1>7, <1>8, <1>9, <1>10, <1>11, StreamStepHolds

LEMMA SendEofStep ==
    ASSUME TransferInv, NEW p \in Programs, SendEof(p)
    PROVE  TransferInv'
<1>1. /\ CanSend(p) /\ AllRead(p) /\ ~task[p].closed
      /\ SetTask(p, [task[p] EXCEPT !.wire = Append(@, Eof), !.closed = TRUE])
      /\ UNCHANGED boxVars /\ upload' = upload /\ source' = source /\ near' = near
      /\ far' = far /\ target' = target /\ pc' = pc /\ UNCHANGED historyVars
  BY Zenon DEF SendEof, fileVars
<1>2. IsBusy(p, "stream") /\ Len(task[p].wire) < MaxWire
  BY <1>1, Zenon DEF CanSend
<1>3. PICK wire \in Seq(Chunks \cup {Eof}) : wire = task[p].wire
  BY <1>2, StreamFacts
<1>4. /\ Append(wire, Eof) \in Seq(Chunks \cup {Eof})
      /\ Len(Append(wire, Eof)) = Len(wire) + 1
  OBVIOUS
<1>5. PICK t : t = [task[p] EXCEPT !.wire = Append(wire, Eof), !.closed = TRUE]
  OBVIOUS
<1>6. SetTask(p, t)
  BY <1>1, <1>2, <1>3, <1>5, StreamFacts DEF TaskRecord
<1>7. /\ t \in TaskRecord /\ t.op = "stream" /\ t.dir = task[p].dir
      /\ t.wire = Append(wire, Eof) /\ t.sent = task[p].sent /\ t.pos = task[p].pos
      /\ t.closed = TRUE
  BY <1>2, <1>4, <1>5, StreamFacts DEF TaskRecord
<1>8. Len(t.wire) <= MaxWire
  <2>1. Len(wire) < MaxWire /\ Len(wire) \in Nat /\ MaxWire \in Nat
    BY <1>2, <1>3, BoundsAssumption
  <2>2. QED
    BY <1>4, <1>7, <2>1
<1>9. ASSUME p \notin crowded, IsLive(p)
      PROVE  InTransit(t.pos, t.sent, t.closed, t.wire, far', near)
  <2>1. PICK pos \in Nat, sent \in Nat :
          pos = task[p].pos /\ sent = task[p].sent /\ sent >= Len(near)
          /\ InTransit(pos, sent, task[p].closed, wire, far, near)
    BY <1>1, <1>2, <1>3, <1>9, StreamFacts DEF AllRead
  <2>2. task[p].closed = FALSE /\ near \in Seq(Chunks)
    BY <1>1, <1>2, StreamFacts
  <2>3. InTransit(pos, sent, TRUE, Append(wire, Eof), far, near)
    BY <2>1, <2>2, TransitCloses
  <2>4. QED
    BY <1>1, <1>7, <2>1, <2>3, Zenon
<1>10. far' \in Seq(Chunks)
  BY <1>1, <1>2, StreamFacts
<1>11. QED
  BY <1>1, <1>2, <1>6, <1>7, <1>8, <1>9, <1>10, StreamStepHolds

LEMMA ReceiveChunkStep ==
    ASSUME TransferInv, NEW p \in Programs, ReceiveChunk(p)
    PROVE  TransferInv'
<1>1. /\ CanReceive(p) /\ Head(task[p].wire) # Eof
      /\ far' = WriteAt(far, task[p].pos + 1, Head(task[p].wire))
      /\ SetTask(p, [task[p] EXCEPT !.wire = Tail(@), !.pos = @ + 1])
      /\ UNCHANGED boxVars /\ upload' = upload /\ source' = source /\ near' = near
      /\ target' = target /\ pc' = pc /\ UNCHANGED historyVars
  BY Zenon DEF ReceiveChunk
<1>2. IsBusy(p, "stream") /\ task[p].wire # <<>>
  BY <1>1, Zenon DEF CanReceive
<1>3. PICK pos \in Nat, wire \in Seq(Chunks \cup {Eof}) :
        pos = task[p].pos /\ wire = task[p].wire /\ wire # <<>> /\ Head(wire) # Eof
  BY <1>1, <1>2, StreamFacts
<1>4. PICK next \in Nat : next = pos + 1 /\ next = task[p].pos + 1
  BY <1>3
<1>5. /\ Head(wire) \in Chunks /\ Tail(wire) \in Seq(Chunks \cup {Eof})
      /\ Len(Tail(wire)) = Len(wire) - 1
  <2>1. Head(wire) \in Chunks \cup {Eof} /\ Tail(wire) \in Seq(Chunks \cup {Eof})
        /\ Len(Tail(wire)) = Len(wire) - 1
    BY <1>3, HeadTailProperties
  <2>2. QED
    BY <1>3, <2>1
<1>6. far' = WriteAt(far, next, Head(wire)) /\ far \in Seq(Chunks)
  BY <1>1, <1>2, <1>3, <1>4, StreamFacts
<1>7. far' \in Seq(Chunks)
  <2>1. next >= 1
    BY <1>4
  <2>2. QED
    BY <1>5, <1>6, <2>1, WriteTyped
<1>8. PICK t : t = [task[p] EXCEPT !.wire = Tail(wire), !.pos = next]
  OBVIOUS
<1>9. SetTask(p, t)
  BY <1>1, <1>2, <1>3, <1>4, <1>8, StreamFacts DEF TaskRecord
<1>10. /\ t \in TaskRecord /\ t.op = "stream" /\ t.dir = task[p].dir
       /\ t.wire = Tail(wire) /\ t.sent = task[p].sent /\ t.pos = next
       /\ t.closed = task[p].closed
  BY <1>2, <1>5, <1>8, StreamFacts DEF TaskRecord
<1>11. Len(t.wire) <= MaxWire
  <2>1. Len(wire) <= MaxWire /\ Len(wire) \in Nat /\ MaxWire \in Nat
    BY <1>2, <1>3, StreamFacts, BoundsAssumption
  <2>2. QED
    BY <1>5, <1>10, <2>1
<1>12. ASSUME p \notin crowded, IsLive(p)
       PROVE  InTransit(t.pos, t.sent, t.closed, t.wire, far', near)
  <2>1. PICK sent \in Nat, closed \in BOOLEAN :
          sent = task[p].sent /\ closed = task[p].closed
          /\ InTransit(pos, sent, closed, wire, far, near)
    BY <1>2, <1>3, <1>12, StreamFacts
  <2>2. near \in Seq(Chunks)
    BY <1>2, StreamFacts
  <2>3. InTransit(next, sent, closed, Tail(wire), Append(far, Head(wire)), near)
    BY <1>3, <1>4, <1>6, <2>1, <2>2, TransitReceives
  <2>4. far' = Append(far, Head(wire))
    <3>1. next = Len(far) + 1
      BY <1>4, <2>1 DEF InTransit
    <3>2. QED
      BY <1>5, <1>6, <3>1, WriteAtEnd
  <2>5. QED
    BY <1>10, <2>1, <2>3, <2>4, Zenon
<1>13. QED
  BY <1>1, <1>2, <1>7, <1>9, <1>10, <1>11, <1>12, StreamStepHolds

LEMMA EndOfStreamStep ==
    ASSUME TransferInv, NEW p \in Programs, CanReceive(p), Head(task[p].wire) = Eof,
           Goto(p, "unzip"), SetTask(p, NoTask), UNCHANGED boxVars, upload' = upload,
           source' = source, near' = near, target' = target,
           HistoryTyped', since' = since, crowded' = crowded, troubled \subseteq troubled',
           \/ far' = far
           \/ far' \in WithHole(far) /\ upload /\ (IsLive(p) => p \in troubled')
    PROVE  TransferInv'
<1>1. IsBusy(p, "stream") /\ task[p].wire # <<>>
  BY Zenon DEF CanReceive
<1>2. /\ OthersStay(p) /\ task'[p] = NoTask /\ ProgramTyped(p)'
      /\ pc'[p] = (IF IsLive(p) THEN "unzip" ELSE pc[p])
  BY <1>1, TaskEnds DEF Labels
<1>3. far' \in Seq(Chunks)
  BY HoleTyped, ProgramFacts DEF FilesTyped
<1>4. FilesTyped' /\ BoxTypeOK'
  BY <1>3, BoxIdle, ProgramFacts DEF FilesTyped
<1>5. ASSUME p \notin crowded PROVE Staged(p)'
  <2>1. CASE IsLive(p)
    <3>1. pc'[p] = "unzip" /\ Zipped(p)
      BY <1>1, <1>2, <1>5, <2>1, StreamFacts
    <3>2. far = near
      BY <1>1, <1>5, <2>1, StreamFacts, TransitEnds
    <3>3. Received(p)'
      BY <2>1, <3>2 DEF Received, WithHole
    <3>4. Zipped(p)'
      BY <3>1, ZippedStays
    <3>5. ~IsBusy(p, "unzip")'
      BY <1>2, NoTaskTyped DEF IsBusy
    <3>6. QED
      BY <3>1, <3>3, <3>4, <3>5 DEF Staged
  <2>2. CASE ~IsLive(p)
    BY <1>2, <2>2 DEF IsLive, Staged
  <2>3. QED
    BY <2>1, <2>2
<1>6. pc'[p] = "failed" => pc[p] = "failed"
  BY <1>2
<1>7. IsActive(p)
  BY <1>1, BusyIsActive
<1>8. QED
  BY <1>2, <1>4, <1>5, <1>6, <1>7, OwnStep

LEMMA ReceiveEofStep ==
    ASSUME TransferInv, NEW p \in Programs, ReceiveEof(p)
    PROVE  TransferInv'
<1>1. /\ CanReceive(p) /\ Head(task[p].wire) = Eof /\ Goto(p, "unzip") /\ SetTask(p, NoTask)
      /\ UNCHANGED boxVars /\ upload' = upload /\ source' = source /\ near' = near
      /\ far' = far /\ target' = target /\ UNCHANGED historyVars
  BY Zenon DEF ReceiveEof, fileVars
<1>2. /\ HistoryTyped' /\ since' = since /\ crowded' = crowded /\ troubled \subseteq troubled'
  BY <1>1, QuietStep, ProgramFacts
<1>3. QED
  BY <1>1, <1>2, EndOfStreamStep

LEMMA ReceivedNotClosedStep ==
    ASSUME TransferInv, NEW p \in Programs, ReceivedNotClosed(p)
    PROVE  TransferInv'
<1>1. /\ CanReceive(p) /\ Head(task[p].wire) = Eof /\ Goto(p, "unzip") /\ SetTask(p, NoTask)
      /\ UNCHANGED boxVars /\ upload' = upload /\ source' = source /\ near' = near
      /\ far' \in WithHole(far) /\ upload /\ target' = target /\ Fault
  BY Zenon DEF ReceivedNotClosed
<1>2. /\ HistoryTyped' /\ since' = since /\ crowded' = crowded /\ troubled \subseteq troubled'
      /\ IsLive(p) => p \in troubled'
  BY <1>1, FaultStep, ProgramFacts
<1>3. QED
  BY <1>1, <1>2, EndOfStreamStep

LEMMA CallCancelledStep ==
    ASSUME TransferInv, NEW p \in Programs, CallCancelled(p)
    PROVE  TransferInv'
<1>1. /\ IsBusy(p, "stream") /\ ~IsLive(p) /\ SetTask(p, NoTask) /\ pc' = pc
      /\ UNCHANGED boxVars /\ upload' = upload /\ source' = source /\ near' = near
      /\ far' = far /\ target' = target /\ UNCHANGED historyVars
  BY Zenon DEF CallCancelled, fileVars
<1>2. OthersStay(p) /\ task'[p] = NoTask /\ pc'[p] = pc[p] /\ ~IsLive(p)'
  BY <1>1, OnlyTask
<1>3. ProgramTyped(p)'
  BY <1>2, NoTaskTyped DEF ProgramTyped
<1>4. FilesTyped'
  BY <1>1, ProgramFacts DEF FilesTyped
<1>5. Staged(p)'
  BY <1>2 DEF IsLive, Staged
<1>6. IsActive(p)
  BY <1>1, BusyIsActive
<1>7. QED
  BY <1>1, <1>2, <1>3, <1>4, <1>5, <1>6, QuietOwnStep

----------------------------------------------------------------------------
(* Steps of unzip                                                          *)

LEMMA StartUnzipStep ==
    ASSUME TransferInv, NEW p \in Programs, StartUnzip(p)
    PROVE  TransferInv'
<1>1. /\ CanCall(p, "unzip") /\ HasDirectory(far) /\ SetTask(p, Task("unzip", DirOf(far)))
      /\ UNCHANGED boxVars /\ upload' = upload /\ source' = source /\ near' = near
      /\ far' = far /\ target' = target /\ pc' = pc /\ UNCHANGED historyVars
  BY Zenon DEF StartUnzip, fileVars, DirOf
<1>2. IsActive(p) /\ pc[p] = "unzip"
  BY <1>1, BusyIsActive DEF CanCall
<1>3. OthersStay(p) /\ task'[p] = Task("unzip", DirOf(far)) /\ pc'[p] = "unzip"
  BY <1>1, <1>2, OnlyTask
<1>4. PICK d \in Seq(Entries) : d = DirOf(far) /\ Len(d) <= Len(Tree)
  BY <1>1, DirTyped, ProgramFacts DEF FilesTyped
<1>5. /\ task'[p] \in TaskRecord /\ task'[p].op = "unzip" /\ task'[p].dir = d
      /\ Len(task'[p].wire) <= MaxWire /\ task'[p].pos = 0 /\ ~task'[p].open
  BY <1>3, <1>4, TaskTyped DEF Operations
<1>6. ProgramTyped(p)'
  BY <1>3, <1>4, <1>5 DEF ProgramTyped
<1>7. FilesTyped'
  BY <1>1, ProgramFacts DEF FilesTyped
<1>8. ASSUME p \notin crowded PROVE Staged(p)'
  <2>1. Zipped(p) /\ Received(p)
    BY <1>2, <1>8, ReceivedFacts
  <2>2. since' = since /\ troubled' = troubled
    BY <1>1, QuietStep, ProgramFacts
  <2>3. Zipped(p)'
    BY <1>1, <2>1, <2>2, ZippedStays
  <2>4. UnzippedTo(p)'
    <3>1. task'[p].dir = DirOf(far)' /\ HasDirectory(far)'
      BY <1>1, <1>4, <1>5 DEF HasDirectory, DirOf
    <3>2. QED
      BY <1>5, <3>1, TreeFacts DEF UnzippedTo
  <2>5. Received(p)'
    BY <1>1, <2>1, <2>2 DEF Received, WithHole
  <2>6. QED
    BY <1>1, <1>3, <1>5, <2>3, <2>4, <2>5 DEF Staged
<1>9. QED
  BY <1>1, <1>2, <1>3, <1>6, <1>7, <1>8, QuietOwnStep

LEMMA UnzipStepHolds ==
    ASSUME TransferInv, NEW p \in Programs, IsBusy(p, "unzip"), NEW t \in TaskRecord,
           SetTask(p, t), t.op = "unzip", t.wire = task[p].wire, t.dir = task[p].dir,
           UNCHANGED boxVars, upload' = upload, source' = source, near' = near, far' = far,
           target' \in [Files -> Versions \cup {Absent, Partial, Cut}], pc' = pc,
           HistoryTyped', since' = since, crowded' = crowded, troubled \subseteq troubled',
           \A f \in Files : target[f] # Absent => target'[f] # Absent,
           p \notin crowded /\ IsLive(p) =>
               /\ t.pos <= Len(Tree) /\ (t.open => t.pos < Len(Tree))
               /\ \A i \in 1..t.pos : \/ IsDelivered(p, Tree[i])'
                                      \/ t.open /\ Tree[i] = Tree[t.pos + 1]
    PROVE  TransferInv'
<1>1. OthersStay(p) /\ task'[p] = t /\ pc'[p] = pc[p] /\ (IsLive(p)' <=> IsLive(p))
  BY OnlyTask
<1>2. IsActive(p) /\ ProgramTyped(p) /\ task[p].op = "unzip" /\ task[p] # NoTask
  BY BusyIsActive, ProgramFacts, NoTaskTyped DEF IsBusy
<1>3. ProgramTyped(p)'
  <2>1. /\ pc[p] # "idle" /\ (IsLive(p) => pc[p] = "unzip") /\ Len(task[p].dir) <= Len(Tree)
        /\ Len(task[p].wire) <= MaxWire
    BY <1>2 DEF ProgramTyped
  <2>2. QED
    BY <1>1, <2>1 DEF ProgramTyped
<1>4. FilesTyped' /\ BoxTypeOK'
  BY BoxIdle, ProgramFacts DEF FilesTyped
<1>5. ASSUME p \notin crowded PROVE Staged(p)'
  <2>1. CASE IsLive(p)
    <3>1. pc[p] = "unzip" /\ UnzippedTo(p)
      BY <1>2, <1>5, <2>1, UnzipsWhole
    <3>2. Zipped(p) /\ Received(p)
      BY <1>5, <3>1, ReceivedFacts
    <3>3. Zipped(p)' /\ Received(p)'
      BY <3>2, ZippedStays DEF Received, WithHole
    <3>4. UnzippedTo(p)'
      <4>1. HasDirectory(far)' /\ task'[p].dir = DirOf(far)'
        BY <1>1, <3>1 DEF UnzippedTo, HasDirectory, DirOf
      <4>2. QED
        BY <1>1, <1>5, <2>1, <4>1 DEF UnzippedTo
    <3>5. QED
      BY <1>1, <3>1, <3>3, <3>4 DEF Staged
  <2>2. CASE ~IsLive(p)
    BY <1>1, <2>2 DEF IsLive, Staged
  <2>3. QED
    BY <2>1, <2>2
<1>6. pc'[p] = "failed" => pc[p] = "failed"
  BY <1>1
<1>7. QED
  BY <1>1, <1>2, <1>3, <1>4, <1>5, <1>6, OwnStep

(* The file that is unzipped next, and its place in the tree. *)
LEMMA ToUnzipFacts ==
    ASSUME TransferInv, NEW p \in Programs, IsBusy(p, "unzip"), task[p].pos < Len(task[p].dir)
    PROVE  /\ ToUnzip(p).file \in Files /\ ToUnzip(p).version \in Versions
           /\ p \notin crowded /\ IsLive(p) =>
                /\ task[p].pos < Len(Tree) /\ ToUnzip(p).file = Tree[task[p].pos + 1]
                /\ ToUnzip(p).version \in since[p]..source
<1>1. PICK n \in Nat, d \in Seq(Entries) : n = task[p].pos /\ d = task[p].dir /\ n < Len(d)
  <2>1. task[p].pos \in Nat /\ task[p].dir \in Seq(Entries)
    BY ProgramFacts DEF TaskRecord
  <2>2. QED
    BY <2>1
<1>2. n + 1 \in 1..Len(d) /\ ToUnzip(p) = d[n + 1] /\ d[n + 1] \in Entries
  BY <1>1 DEF ToUnzip
<1>3. ToUnzip(p).file \in Files /\ ToUnzip(p).version \in Versions
  BY <1>2 DEF Entries
<1>4. ASSUME p \notin crowded, IsLive(p)
      PROVE  n < Len(Tree) /\ d[n + 1].file = Tree[n + 1] /\ d[n + 1].version \in since[p]..source
  <2>1. Len(d) = Len(Tree) /\ OfTree(p, d)
    BY <1>1, <1>4, UnzipsWhole
  <2>2. QED
    BY <1>1, <1>2, <2>1 DEF OfTree
<1>5. QED
  BY <1>1, <1>2, <1>3, <1>4

LEMMA NotAbsent ==
    Partial # Absent /\ Cut # Absent /\ \A v \in Versions : v # Absent
  BY DEF Partial, Cut, Absent, Versions

LEMMA UnzipCreateStep ==
    ASSUME TransferInv, NEW p \in Programs, UnzipCreate(p)
    PROVE  TransferInv'
<1>1. /\ IsBusy(p, "unzip") /\ task[p].pos < Len(task[p].dir)
      /\ target' = [target EXCEPT ![ToUnzip(p).file] = Partial]
      /\ SetTask(p, [task[p] EXCEPT !.open = TRUE])
      /\ UNCHANGED boxVars /\ upload' = upload /\ source' = source /\ near' = near
      /\ far' = far /\ pc' = pc /\ UNCHANGED historyVars
  BY Zenon DEF UnzipCreate, Unzipping
<1>2. PICK t : t = [task[p] EXCEPT !.open = TRUE]
  OBVIOUS
<1>3. /\ t \in TaskRecord /\ t.op = "unzip" /\ t.dir = task[p].dir /\ t.wire = task[p].wire
      /\ t.pos = task[p].pos /\ t.open
  BY <1>1, <1>2, ProgramFacts DEF TaskRecord, IsBusy
<1>4. PICK file \in Files : file = ToUnzip(p).file
  BY <1>1, ToUnzipFacts
<1>5. target \in [Files -> Versions \cup {Absent, Partial, Cut}]
  BY ProgramFacts DEF FilesTyped
<1>6. /\ target' \in [Files -> Versions \cup {Absent, Partial, Cut}]
      /\ target'[file] = Partial /\ \A f \in Files \ {file} : target'[f] = target[f]
  BY <1>1, <1>4, <1>5
<1>7. \A f \in Files : target[f] # Absent => target'[f] # Absent
  BY <1>6, NotAbsent
<1>8. ASSUME p \notin crowded, IsLive(p)
      PROVE  /\ t.pos < Len(Tree)
             /\ \A i \in 1..t.pos : \/ IsDelivered(p, Tree[i])'
                                    \/ t.open /\ Tree[i] = Tree[t.pos + 1]
  <2>1. t.pos < Len(Tree) /\ file = Tree[t.pos + 1] /\ t.pos \in Nat
    BY <1>1, <1>3, <1>4, <1>8, ToUnzipFacts DEF TaskRecord
  <2>2. ~task[p].open => \A i \in 1..t.pos : IsDelivered(p, Tree[i])
    BY <1>1, <1>3, <1>8, UnzipsWhole DEF UnzippedTo
  <2>3. task[p].open => \A i \in 1..t.pos : \/ IsDelivered(p, Tree[i])
                                            \/ Tree[i] = Tree[t.pos + 1]
    BY <1>1, <1>3, <1>8, UnzipsWhole DEF UnzippedTo
  <2>4. ASSUME NEW i \in 1..t.pos
        PROVE  IsDelivered(p, Tree[i])' \/ Tree[i] = Tree[t.pos + 1]
    <3>1. Tree[i] \in Files
      BY <2>1, TreeFacts
    <3>2. QED
      BY <1>1, <1>6, <2>1, <2>2, <2>3, <3>1 DEF IsDelivered, historyVars
  <2>5. QED
    BY <1>3, <2>1, <2>4
<1>9. (p \notin crowded /\ IsLive(p)) =>
         /\ t.pos <= Len(Tree) /\ (t.open => t.pos < Len(Tree))
         /\ \A i \in 1..t.pos : \/ IsDelivered(p, Tree[i])'
                                \/ t.open /\ Tree[i] = Tree[t.pos + 1]
  BY <1>3, <1>8, TreeFacts DEF TaskRecord
<1>10. SetTask(p, t)
  BY <1>1, <1>2
<1>11. HistoryTyped' /\ since' = since /\ crowded' = crowded /\ troubled \subseteq troubled'
  BY <1>1, QuietStep, ProgramFacts
<1>12. QED
  BY <1>1, <1>3, <1>6, <1>7, <1>9, <1>10, <1>11, UnzipStepHolds

(* A file was written, and closed with an error or without one.            *)
LEMMA UnzippedStep ==
    ASSUME TransferInv, NEW p \in Programs, Unzipping(p, TRUE),
           NEW written \in {ToUnzip(p).version, Cut}, written = Cut /\ IsLive(p) => p \in troubled',
           target' = [target EXCEPT ![ToUnzip(p).file] = written],
           SetTask(p, [task[p] EXCEPT !.open = FALSE, !.pos = @ + 1]),
           UNCHANGED boxVars, upload' = upload, source' = source, near' = near,
           far' = far, pc' = pc, HistoryTyped', since' = since, crowded' = crowded,
           troubled \subseteq troubled'
    PROVE  TransferInv'
<1>1. IsBusy(p, "unzip") /\ task[p].pos < Len(task[p].dir) /\ task[p].open = TRUE
  BY Zenon DEF Unzipping
<1>2. PICK n \in Nat : n = task[p].pos
  BY ProgramFacts DEF TaskRecord
<1>3. PICK t : t = [task[p] EXCEPT !.open = FALSE, !.pos = n + 1]
  OBVIOUS
<1>4. SetTask(p, t)
  BY <1>1, <1>2, <1>3, ProgramFacts DEF TaskRecord
<1>5. /\ t \in TaskRecord /\ t.op = "unzip" /\ t.dir = task[p].dir /\ t.wire = task[p].wire
      /\ t.pos = n + 1 /\ ~t.open
  <2>1. task[p] \in TaskRecord /\ task[p].op = "unzip" /\ n + 1 \in Nat
    BY <1>1, ProgramFacts DEF IsBusy
  <2>2. QED
    BY <1>3, <2>1 DEF TaskRecord
<1>6. PICK file \in Files, version \in Versions :
        file = ToUnzip(p).file /\ version = ToUnzip(p).version
  BY <1>1, ToUnzipFacts
<1>7. target \in [Files -> Versions \cup {Absent, Partial, Cut}]
  BY ProgramFacts DEF FilesTyped
<1>8. /\ target' \in [Files -> Versions \cup {Absent, Partial, Cut}]
      /\ target'[file] = written /\ written \in {version, Cut} /\ \A f \in Files \ {file} : target'[f] = target[f]
  BY <1>1, <1>6, <1>7
<1>9. \A f \in Files : target[f] # Absent => target'[f] # Absent
  BY <1>8, NotAbsent
<1>10. ASSUME p \notin crowded, IsLive(p)
       PROVE  /\ n + 1 <= Len(Tree)
              /\ \A i \in 1..n + 1 : IsDelivered(p, Tree[i])'
  <2>1. /\ n < Len(Tree) /\ file = Tree[n + 1] /\ version \in since[p]..source
    BY <1>1, <1>2, <1>6, <1>10, ToUnzipFacts
  <2>2. \A i \in 1..n : IsDelivered(p, Tree[i]) \/ Tree[i] = Tree[n + 1]
    BY <1>1, <1>2, <1>10, UnzipsWhole DEF UnzippedTo
  <2>3. ASSUME NEW i \in 1..n + 1 PROVE IsDelivered(p, Tree[i])'
    <3>1. Tree[i] \in Files
      BY <2>1, TreeFacts
    <3>2. CASE Tree[i] = file
      BY <1>8, <1>10, <2>1, <3>2 DEF IsDelivered
    <3>3. CASE Tree[i] # file
      <4>1. i \in 1..n
        BY <2>1, <3>3
      <4>2. QED
        BY <1>8, <2>1, <2>2, <3>1, <3>3, <4>1 DEF IsDelivered
    <3>4. QED
      BY <3>2, <3>3
  <2>4. QED
    BY <2>1, <2>3, TreeFacts
<1>11. (p \notin crowded /\ IsLive(p)) =>
         /\ t.pos <= Len(Tree) /\ (t.open => t.pos < Len(Tree))
         /\ \A i \in 1..t.pos : \/ IsDelivered(p, Tree[i])'
                                \/ t.open /\ Tree[i] = Tree[t.pos + 1]
  BY <1>5, <1>10
<1>12. QED
  BY <1>1, <1>4, <1>5, <1>8, <1>9, <1>11, UnzipStepHolds

LEMMA UnzipCopyStep ==
    ASSUME TransferInv, NEW p \in Programs, UnzipCopy(p)
    PROVE  TransferInv'
<1>1. /\ Unzipping(p, TRUE)
      /\ target' = [target EXCEPT ![ToUnzip(p).file] = ToUnzip(p).version]
      /\ SetTask(p, [task[p] EXCEPT !.open = FALSE, !.pos = @ + 1])
      /\ UNCHANGED boxVars /\ upload' = upload /\ source' = source /\ near' = near
      /\ far' = far /\ pc' = pc /\ UNCHANGED historyVars
  BY Zenon DEF UnzipCopy
<1>2. /\ HistoryTyped' /\ since' = since /\ crowded' = crowded /\ troubled \subseteq troubled'
  BY <1>1, QuietStep, ProgramFacts
<1>3. QED
  <2>1. ToUnzip(p).version # Cut
    <3>1. ToUnzip(p).version \in Nat
      BY <1>1, ToUnzipFacts DEF Unzipping, Versions
    <3>2. QED
      BY <3>1 DEF Cut
  <2>2. QED
    BY <1>1, <1>2, <2>1, UnzippedStep

LEMMA UnzipNotClosedStep ==
    ASSUME TransferInv, NEW p \in Programs, UnzipNotClosed(p)
    PROVE  TransferInv'
<1>1. /\ Unzipping(p, TRUE) /\ Fault
      /\ target' = [target EXCEPT ![ToUnzip(p).file] = Cut]
      /\ SetTask(p, [task[p] EXCEPT !.open = FALSE, !.pos = @ + 1])
      /\ UNCHANGED boxVars /\ upload' = upload /\ source' = source /\ near' = near
      /\ far' = far /\ pc' = pc
  BY Zenon DEF UnzipNotClosed
<1>2. /\ HistoryTyped' /\ since' = since /\ crowded' = crowded /\ troubled \subseteq troubled'
  BY <1>1, FaultStep, ProgramFacts
<1>3. IsLive(p) => p \in troubled'
  BY <1>1 DEF Fault
<1>4. QED
  BY <1>1, <1>2, <1>3, UnzippedStep

LEMMA UnzipDoneStep ==
    ASSUME TransferInv, NEW p \in Programs, UnzipDone(p)
    PROVE  TransferInv'
<1>1. /\ IsBusy(p, "unzip") /\ Goto(p, "done") /\ SetTask(p, NoTask)
      /\ UNCHANGED boxVars /\ upload' = upload /\ source' = source /\ near' = near
      /\ far' = far /\ target' = target /\ UNCHANGED historyVars
  BY Zenon DEF UnzipDone, fileVars
<1>2. /\ OthersStay(p) /\ task'[p] = NoTask /\ ProgramTyped(p)'
      /\ pc'[p] = (IF IsLive(p) THEN "done" ELSE pc[p])
  BY <1>1, TaskEnds DEF Labels
<1>3. FilesTyped'
  BY <1>1, ProgramFacts DEF FilesTyped
<1>4. Staged(p)'
  BY <1>2 DEF IsLive, Staged
<1>5. IsActive(p)
  BY <1>1, BusyIsActive
<1>6. pc'[p] = "failed" => pc[p] = "failed"
  BY <1>2
<1>7. QED
  BY <1>1, <1>2, <1>3, <1>4, <1>5, <1>6, QuietOwnStep

----------------------------------------------------------------------------
(* Programs that begin, or end without red-box                             *)

LEMMA ProgramFailsStep ==
    ASSUME TransferInv, NEW p \in Programs, ProgramFails(p)
    PROVE  TransferInv'
<1>1. /\ IsLive(p) /\ Fault /\ pc' = [pc EXCEPT ![p] = "failed"]
      /\ SetTask(p, IF AtBox(task[p].op) THEN task[p] ELSE NoTask)
      /\ UNCHANGED boxVars /\ upload' = upload /\ source' = source /\ near' = near
      /\ far' = far /\ target' = target
  BY Zenon DEF ProgramFails, fileVars
<1>2. /\ task' = [q \in Programs |-> task'[q]] /\ task'[p] \in {task[p], NoTask}
      /\ \A q \in Programs \ {p} : task'[q] = task[q]
  BY <1>1, ProgramFacts, TaskGoes
<1>3. /\ pc' \in [Programs -> Labels] /\ pc'[p] = "failed"
      /\ \A q \in Programs \ {p} : pc'[q] = pc[q]
  BY <1>1, ProgramFacts DEF ProgramsTyped, Labels
<1>4. ProgramTyped(p)' /\ ~IsLive(p)'
  BY <1>2, <1>3, ProgramFacts, NoTaskTyped DEF ProgramTyped, IsLive
<1>5. Staged(p)'
  BY <1>3 DEF Staged
<1>6. /\ HistoryTyped' /\ since' = since /\ crowded' = crowded /\ troubled \subseteq troubled'
      /\ p \in troubled'
  BY <1>1, FaultStep, ProgramFacts
<1>7. FilesTyped' /\ BoxTypeOK' /\ IsActive(p)
  BY <1>1, BoxIdle, ProgramFacts DEF FilesTyped, IsActive
<1>8. OthersStay(p)
  BY <1>2, <1>3 DEF OthersStay
<1>9. QED
  BY <1>1, <1>4, <1>5, <1>6, <1>7, <1>8, OwnStep

LEMMA WriteFailsStep ==
    ASSUME TransferInv, NEW p \in Programs, WriteFails(p)
    PROVE  TransferInv'
<1>1. /\ IsLive(p) /\ Fault /\ pc' = [pc EXCEPT ![p] = "failed"] /\ task' = task
      /\ UNCHANGED boxVars /\ upload' = upload /\ source' = source /\ near' = near
      /\ far' = far /\ target' = target
  BY Zenon DEF WriteFails, CanReceive, fileVars
<1>2. /\ pc' \in [Programs -> Labels] /\ pc'[p] = "failed"
      /\ \A q \in Programs \ {p} : pc'[q] = pc[q]
      /\ task' = [q \in Programs |-> task'[q]]
  BY <1>1, ProgramFacts DEF ProgramsTyped, Labels
<1>3. ProgramTyped(p)' /\ ~IsLive(p)'
  BY <1>1, <1>2, ProgramFacts DEF ProgramTyped, IsLive
<1>4. Staged(p)'
  BY <1>2 DEF Staged
<1>5. /\ HistoryTyped' /\ since' = since /\ crowded' = crowded /\ troubled \subseteq troubled'
      /\ p \in troubled'
  BY <1>1, FaultStep, ProgramFacts
<1>6. FilesTyped' /\ BoxTypeOK' /\ IsActive(p)
  BY <1>1, BoxIdle, ProgramFacts DEF FilesTyped, IsActive
<1>7. OthersStay(p)
  BY <1>1, <1>2 DEF OthersStay
<1>8. QED
  BY <1>1, <1>3, <1>4, <1>5, <1>6, <1>7, OwnStep

(* Where others are active they and the one that begins are crowded.       *)
LEMMA BeginStep ==
    ASSUME TransferInv, NEW p \in Programs, Begin(p)
    PROVE  TransferInv'
<1> DEFINE others == {q \in Programs \ {p} : IsActive(q)}
<1>1. /\ pc[p] = "idle" /\ pc' = [pc EXCEPT ![p] = "zip"]
      /\ since' = [since EXCEPT ![p] = source]
      /\ crowded' = crowded \cup others \cup (IF others = {} THEN {} ELSE {p})
      /\ UNCHANGED boxVars /\ upload' = upload /\ source' = source /\ near' = near
      /\ far' = far /\ target' = target /\ task' = task /\ faults' = faults
      /\ troubled' = troubled
  <2>1. p >= p
    BY DEF Programs
  <2>2. pc[p] = "idle"
    BY <2>1, Zenon DEF Begin
  <2>3. QED
    BY <2>2, Zenon DEF Begin, fileVars
<1>2. /\ pc' \in [Programs -> Labels] /\ pc'[p] = "zip"
      /\ \A q \in Programs \ {p} : pc'[q] = pc[q]
  BY <1>1, ProgramFacts DEF ProgramsTyped, Labels
<1>3. /\ since' \in [Programs -> Versions] /\ since'[p] = source
      /\ \A q \in Programs \ {p} : since'[q] = since[q]
  BY <1>1, ProgramFacts DEF HistoryTyped, FilesTyped
<1>4. /\ HistoryTyped' /\ crowded \subseteq crowded' /\ others \subseteq crowded'
      /\ p \notin crowded' => others = {}
  BY <1>1, <1>3, ProgramFacts DEF HistoryTyped
<1>5. FilesTyped' /\ BoxTypeOK'
  BY <1>1, BoxIdle, ProgramFacts DEF FilesTyped
<1>6. task[p] = NoTask
  BY <1>1, ProgramFacts DEF ProgramTyped
<1>7. ProgramsTyped'
  <2>1. ASSUME NEW q \in Programs PROVE ProgramTyped(q)'
    <3>1. CASE q = p
      BY <1>1, <1>2, <1>6, <3>1, NoTaskTyped DEF ProgramTyped
    <3>2. CASE q # p
      BY <1>1, <1>2, <3>2, ProgramFacts DEF ProgramTyped, IsLive
    <3>3. QED
      BY <3>1, <3>2
  <2>2. QED
    BY <1>1, <1>2, <2>1, ProgramFacts DEF ProgramsTyped, Labels
<1>8. \A q \in Programs \ {p} : IsActive(q)' <=> q \in others
  BY <1>1, <1>2 DEF IsActive, IsLive
<1> HIDE DEF others
<1>9. Alone'
  <2>1. SUFFICES ASSUME NEW q \in Programs \ crowded', IsActive(q)',
                        NEW r \in Programs \ {q}
                 PROVE  ~IsActive(r)'
    BY Zenon DEF Alone
  <2>2. q = p
    BY <1>4, <1>8, <2>1
  <2>3. QED
    BY <1>4, <1>8, <2>1, <2>2
<1>10. AllStaged'
  <2>1. ASSUME NEW q \in Programs \ crowded' PROVE Staged(q)'
    <3>1. CASE q = p
      BY <1>1, <1>2, <1>6, <3>1, NoTaskTyped DEF Staged, IsBusy
    <3>2. CASE q # p
      <4>1. ~IsLive(q)'
        BY <1>4, <1>8, <2>1, <3>2 DEF IsActive
      <4>2. QED
        BY <4>1 DEF IsLive, Staged
    <3>3. QED
      BY <3>1, <3>2
  <2>2. QED
    BY <2>1 DEF AllStaged
<1>11. UntroubledAttemptSucceeds'
  <2>1. ASSUME NEW q \in Programs, pc'[q] = "failed", q \notin troubled' \cup crowded'
        PROVE  \E f \in ReadOnly : target'[f] # Absent
    <3>1. pc[q] = "failed" /\ q \notin troubled \cup crowded
      BY <1>1, <1>2, <1>4, <2>1
    <3>2. \E f \in ReadOnly : target[f] # Absent
      BY <3>1, Zenon DEF TransferInv, UntroubledAttemptSucceeds
    <3>3. QED
      BY <1>1, <3>2
  <2>2. QED
    BY <2>1, Zenon DEF UntroubledAttemptSucceeds
<1>12. NoneFromLater'
  <2>1. ASSUME NEW q \in Programs PROVE since'[q] <= source'
    <3>1. source \in Nat
      BY ProgramFacts DEF FilesTyped, Versions
    <3>2. CASE q = p
      BY <1>1, <1>3, <3>1, <3>2
    <3>3. CASE q # p
      BY <1>1, <1>3, <3>3 DEF TransferInv, NoneFromLater
    <3>4. QED
      BY <3>2, <3>3
  <2>2. QED
    BY <2>1 DEF NoneFromLater
<1>13. QED
  BY <1>4, <1>5, <1>7, <1>9, <1>10, <1>11, <1>12 DEF TransferInv, Typed

----------------------------------------------------------------------------
(* Steps of red-box, and edits                                             *)

(* Calls that end with red-box leave what was done for them.               *)
Stays(q) == pc'[q] = pc[q] /\ task'[q] = task[q]
Breaks(q) == pc'[q] \in {pc[q], "failed"} /\ ~IsLive(q)' /\ task'[q] = NoTask

LEMMA BoxStepHolds ==
    ASSUME TransferInv, BoxTypeOK', HistoryTyped', FilesTyped', upload' = upload,
           near' = near, far' = far, target' = target, since' = since, crowded' = crowded, troubled \subseteq troubled',
           pc' \in [Programs -> Labels], task' = [q \in Programs |-> task'[q]],
           \A q \in Programs : Stays(q) \/ Breaks(q),
           \A q \in Programs : pc'[q] = "failed" => pc[q] = "failed" \/ q \in troubled',
           source' = source \/ (source' >= source /\ \A q \in Programs : ~IsLive(q))
    PROVE  TransferInv'
<1>1. \A q \in Programs : /\ IsLive(q)' => IsLive(q) /\ Stays(q)
                          /\ IsActive(q)' => IsActive(q)
  BY DEF Stays, Breaks, IsLive, IsActive
<1>2. ProgramsTyped'
  <2>1. ASSUME NEW q \in Programs PROVE ProgramTyped(q)'
    <3>1. CASE Stays(q)
      BY <3>1, ProgramFacts DEF Stays, ProgramTyped, IsLive
    <3>2. CASE Breaks(q)
      BY <3>2, NoTaskTyped DEF Breaks, ProgramTyped
    <3>3. QED
      BY <3>1, <3>2
  <2>2. QED
    BY <2>1 DEF ProgramsTyped, Labels
<1>3. Alone'
  BY <1>1 DEF TransferInv, Alone
<1>4. AllStaged'
  <2>1. ASSUME NEW q \in Programs \ crowded PROVE Staged(q)'
    <3>1. CASE IsLive(q)'
      <4>1. Stays(q) /\ Staged(q) /\ source' = source
        BY <1>1, <3>1, ProgramFacts
      <4>2. /\ Zipped(q) => Zipped(q)'
            /\ Received(q) => Received(q)'
            /\ Streaming(q) => Streaming(q)'
            /\ UnzippedTo(q) => UnzippedTo(q)'
            /\ OfTree(q, task[q].dir) => OfTree(q, task[q].dir)'
        BY <4>1, ZippedStays DEF Stays, Received, WithHole, OfTree, HasDirectory, DirOf,
                    Streaming, UnzippedTo, IsDelivered
      <4>3. (\A op : IsBusy(q, op)' <=> IsBusy(q, op))
        BY <4>1 DEF IsBusy, Stays
      <4>4. QED
        BY <4>1, <4>2, <4>3 DEF Staged, Stays
    <3>2. CASE ~IsLive(q)'
      BY <3>2 DEF IsLive, Staged
    <3>3. QED
      BY <3>1, <3>2
  <2>2. QED
    BY <2>1 DEF AllStaged
<1>5. UntroubledAttemptSucceeds'
  <2>1. ASSUME NEW q \in Programs, pc'[q] = "failed", q \notin troubled' \cup crowded'
        PROVE  \E f \in ReadOnly : target'[f] # Absent
    <3>1. pc[q] = "failed" /\ q \notin troubled \cup crowded
      BY <2>1
    <3>2. \E f \in ReadOnly : target[f] # Absent
      BY <3>1, Zenon DEF TransferInv, UntroubledAttemptSucceeds
    <3>3. QED
      BY <3>2
  <2>2. QED
    BY <2>1, Zenon DEF UntroubledAttemptSucceeds
<1>6. NoneFromLater'
  <2>1. ASSUME NEW q \in Programs PROVE since'[q] <= source'
    <3>1. since[q] <= source /\ since[q] \in Nat /\ source \in Nat /\ source' \in Nat
      BY ProgramFacts DEF TransferInv, NoneFromLater, FilesTyped, HistoryTyped, Versions
    <3>2. QED
      BY <3>1
  <2>2. QED
    BY <2>1 DEF NoneFromLater
<1>7. QED
  BY <1>2, <1>3, <1>4, <1>5, <1>6 DEF TransferInv, Typed

LEMMA BoxMoves ==
    ASSUME BoxTypeOK, Listen \/ Serve \/ GracefulStop \/ Exit \/ Die \/ RemoveSocket
    PROVE  BoxTypeOK'
  BY DEF BoxTypeOK, Listen, Serve, GracefulStop, Exit, Die, RemoveSocket

LEMMA FilesIdle ==
    ASSUME TransferInv, UNCHANGED fileVars
    PROVE  /\ FilesTyped' /\ near' = near /\ far' = far /\ target' = target /\ source' = source
           /\ upload' = upload
  BY ProgramFacts DEF TransferInv, Typed, FilesTyped, fileVars

LEMMA ProgramsIdle ==
    ASSUME TransferInv, pc' = pc, task' = task
    PROVE  /\ pc' \in [Programs -> Labels] /\ task' = [q \in Programs |-> task'[q]]
           /\ \A q \in Programs : Stays(q)
           /\ \A q \in Programs : pc'[q] = "failed" => pc[q] = "failed"
  BY DEF TransferInv, Typed, ProgramsTyped, Labels, Stays

LEMMA BoxAloneStep ==
    ASSUME TransferInv, BoxTypeOK', UNCHANGED <<fileVars, pc, task, historyVars>>
    PROVE  TransferInv'
<1>1. UNCHANGED fileVars /\ pc' = pc /\ task' = task /\ UNCHANGED historyVars
  OBVIOUS
<1>2. /\ FilesTyped' /\ near' = near /\ far' = far /\ target' = target /\ source' = source
      /\ upload' = upload
  BY <1>1, FilesIdle
<1>3. /\ HistoryTyped' /\ since' = since /\ crowded' = crowded /\ troubled \subseteq troubled'
  BY <1>1, QuietStep DEF TransferInv, Typed
<1>4. /\ pc' \in [Programs -> Labels] /\ task' = [q \in Programs |-> task'[q]]
      /\ \A q \in Programs : Stays(q)
      /\ \A q \in Programs : pc'[q] = "failed" => pc[q] = "failed"
  BY <1>1, ProgramsIdle
<1>5. QED
  BY <1>2, <1>3, <1>4, BoxStepHolds

LEMMA SignalStep ==
    ASSUME TransferInv, Signal
    PROVE  TransferInv'
<1>1. /\ GracefulStop /\ faults < MaxFaults /\ faults' = faults + 1 /\ UNCHANGED fileVars
      /\ pc' = pc /\ task' = task /\ since' = since /\ troubled' = troubled
      /\ crowded' = crowded
  BY Zenon DEF Signal
<1>2. BoxTypeOK' /\ FilesTyped' /\ near' = near /\ far' = far /\ target' = target
      /\ source' = source /\ upload' = upload
  BY <1>1, BoxMoves, FilesIdle DEF TransferInv, Typed
<1>3. HistoryTyped'
  <2>1. faults' \in 0..MaxFaults
    BY <1>1, BoundsAssumption DEF TransferInv, Typed, HistoryTyped
  <2>2. QED
    BY <1>1, <2>1 DEF TransferInv, Typed, HistoryTyped
<1>4. /\ pc' \in [Programs -> Labels] /\ task' = [q \in Programs |-> task'[q]]
      /\ \A q \in Programs : Stays(q)
      /\ \A q \in Programs : pc'[q] = "failed" => pc[q] = "failed"
  BY <1>1, ProgramsIdle
<1>5. QED
  BY <1>1, <1>2, <1>3, <1>4, BoxStepHolds

LEMMA CallsBreak ==
    ASSUME TransferInv, BreakCalls
    PROVE  /\ pc' \in [Programs -> Labels] /\ task' = [q \in Programs |-> task'[q]]
           /\ \A q \in Programs : Stays(q) \/ Breaks(q)
           /\ \A q \in Programs : pc'[q] = "failed" =>
                pc[q] = "failed" \/ (IsLive(q) /\ AtBox(task[q].op))
           /\ \A q \in Programs : pc'[q] = "done" => pc[q] = "done"
<1>1. /\ pc' = [p \in Programs |-> IF IsLive(p) /\ AtBox(task[p].op) THEN "failed" ELSE pc[p]]
      /\ task' = [p \in Programs |-> IF AtBox(task[p].op) THEN NoTask ELSE task[p]]
  BY Zenon DEF BreakCalls
<1>2. ASSUME NEW q \in Programs PROVE Stays(q) \/ Breaks(q)
  <2>1. CASE AtBox(task[q].op) /\ IsLive(q)
    <3>1. pc'[q] = "failed" /\ task'[q] = NoTask
      BY <1>1, <2>1
    <3>2. QED
      BY <3>1 DEF Breaks, IsLive
  <2>2. CASE AtBox(task[q].op) /\ ~IsLive(q)
    <3>1. pc'[q] = pc[q] /\ task'[q] = NoTask
      BY <1>1, <2>2
    <3>2. QED
      BY <2>2, <3>1 DEF Breaks, IsLive
  <2>3. CASE ~AtBox(task[q].op)
    BY <1>1, <2>3 DEF Stays
  <2>4. QED
    BY <2>1, <2>2, <2>3
<1>3. pc' \in [Programs -> Labels]
  BY <1>1 DEF TransferInv, Typed, ProgramsTyped, Labels
<1>4. QED
  BY <1>1, <1>2, <1>3

(* A stop waits for the calls: it breaks none. *)
LEMMA StoppedStep ==
    ASSUME TransferInv, Stopped
    PROVE  TransferInv'
<1>1. HasNoCall /\ Exit /\ BreakCalls /\ UNCHANGED fileVars /\ UNCHANGED historyVars
  BY Zenon DEF Stopped
<1>2. BoxTypeOK' /\ FilesTyped' /\ near' = near /\ far' = far /\ target' = target
      /\ source' = source /\ upload' = upload
  BY <1>1, BoxMoves, FilesIdle DEF TransferInv, Typed
<1>3. /\ HistoryTyped' /\ since' = since /\ crowded' = crowded /\ troubled \subseteq troubled'
  BY <1>1, QuietStep DEF TransferInv, Typed
<1>4. /\ pc' \in [Programs -> Labels] /\ task' = [q \in Programs |-> task'[q]]
      /\ \A q \in Programs : Stays(q) \/ Breaks(q)
      /\ \A q \in Programs : pc'[q] = "failed" => pc[q] = "failed"
  BY <1>1, CallsBreak DEF HasNoCall
<1>5. QED
  BY <1>2, <1>3, <1>4, BoxStepHolds

LEMMA BoxDiesStep ==
    ASSUME TransferInv, BoxDies
    PROVE  TransferInv'
<1>1. Die /\ Fault /\ BreakCalls /\ UNCHANGED fileVars
  BY Zenon DEF BoxDies
<1>2. BoxTypeOK' /\ FilesTyped' /\ near' = near /\ far' = far /\ target' = target
      /\ source' = source /\ upload' = upload
  BY <1>1, BoxMoves, FilesIdle DEF TransferInv, Typed
<1>3. /\ HistoryTyped' /\ since' = since /\ crowded' = crowded /\ troubled \subseteq troubled'
      /\ \A p \in Programs : IsLive(p) => p \in troubled'
  BY <1>1, FaultStep DEF TransferInv, Typed
<1>4. /\ pc' \in [Programs -> Labels] /\ task' = [q \in Programs |-> task'[q]]
      /\ \A q \in Programs : Stays(q) \/ Breaks(q)
      /\ \A q \in Programs : pc'[q] = "failed" => pc[q] = "failed" \/ q \in troubled'
  BY <1>1, <1>3, CallsBreak
<1>5. QED
  BY <1>2, <1>3, <1>4, BoxStepHolds

LEMMA EditStep ==
    ASSUME TransferInv, Edit
    PROVE  TransferInv'
<1>1. /\ source < MaxEdits /\ \A p \in Programs : ~IsLive(p)
      /\ source' = source + 1 /\ UNCHANGED boxVars /\ upload' = upload /\ near' = near
      /\ far' = far /\ target' = target /\ pc' = pc /\ task' = task /\ UNCHANGED historyVars
  BY Zenon DEF Edit
<1>2. source \in Nat /\ source' \in Versions /\ source' >= source
  BY <1>1, BoundsAssumption DEF TransferInv, Typed, FilesTyped, Versions
<1>3. BoxTypeOK' /\ FilesTyped'
  BY <1>1, <1>2, BoxIdle DEF TransferInv, Typed, FilesTyped
<1>4. /\ HistoryTyped' /\ since' = since /\ crowded' = crowded /\ troubled \subseteq troubled'
  BY <1>1, QuietStep DEF TransferInv, Typed
<1>5. /\ pc' \in [Programs -> Labels] /\ task' = [q \in Programs |-> task'[q]]
      /\ \A q \in Programs : Stays(q)
      /\ \A q \in Programs : pc'[q] = "failed" => pc[q] = "failed"
  BY <1>1, ProgramsIdle
<1>6. QED
  BY <1>1, <1>2, <1>3, <1>4, <1>5, BoxStepHolds

----------------------------------------------------------------------------
(* The invariant holds                                                     *)

LEMMA InitTransferInv == Init => TransferInv
<1> SUFFICES ASSUME Init PROVE TransferInv
  OBVIOUS
<1>1. /\ BoxInit /\ upload \in Directions /\ source = 0 /\ near = <<>> /\ far = <<>>
      /\ target = [f \in Files |-> Absent] /\ pc = [p \in Programs |-> "idle"]
      /\ task = [p \in Programs |-> NoTask] /\ faults = 0
      /\ since = [p \in Programs |-> source] /\ troubled = {} /\ crowded = {}
  BY Zenon DEF Init
<1>2. BoxTypeOK
  BY <1>1 DEF BoxInit, BoxTypeOK
<1>3. source \in Versions
  BY <1>1, BoundsAssumption DEF Versions
<1>4. FilesTyped
  BY <1>1, <1>3 DEF FilesTyped
<1>5. \A p \in Programs : pc[p] = "idle" /\ task[p] = NoTask /\ ~IsLive(p) /\ ~IsActive(p)
  BY <1>1 DEF IsLive, IsActive
<1>6. ProgramsTyped
  <2>1. \A p \in Programs : ProgramTyped(p)
    BY <1>5, NoTaskTyped DEF ProgramTyped
  <2>2. QED
    BY <1>1, <2>1 DEF ProgramsTyped
<1>7. HistoryTyped
  BY <1>1, <1>3, BoundsAssumption DEF HistoryTyped
<1>8. NoneFromLater
  BY <1>1 DEF NoneFromLater
<1>9. Alone
  BY <1>5 DEF Alone
<1>10. AllStaged
  BY <1>5, NotLiveIsStaged DEF AllStaged
<1>11. UntroubledAttemptSucceeds
  BY <1>5 DEF UntroubledAttemptSucceeds
<1>12. QED
  BY <1>2, <1>4, <1>6, <1>7, <1>8, <1>9, <1>10, <1>11 DEF TransferInv, Typed

LEMMA NextTransferInv == TransferInv /\ [Next]_vars => TransferInv'
<1> SUFFICES ASSUME TransferInv, [Next]_vars PROVE TransferInv'
  OBVIOUS
<1>1. ASSUME NEW p \in Programs, Runs(p) PROVE TransferInv'
  <2>1. CASE ZipStep(p)
    BY <2>1, StartZipStep, ZipEntryStep, ZipDoneStep DEF ZipStep
  <2>2. CASE StreamStep(p)
    BY <2>2, StartStreamStep, SendChunkStep, SendEofStep, ReceiveChunkStep, ReceiveEofStep,
       CallCancelledStep DEF StreamStep
  <2>3. CASE UnzipStep(p)
    BY <2>3, StartUnzipStep, NotAnArchiveStep, UnzipCreateStep, NotWritableStep,
       UnzipCopyStep, CorruptStep, UnzipDoneStep DEF UnzipStep
  <2>4. CASE CallRefused(p)
    BY <2>4, CallRefusedStep
  <2>5. QED
    BY <1>1, <2>1, <2>2, <2>3, <2>4 DEF Runs
<1>2. ASSUME NEW p \in Programs, Fails(p) PROVE TransferInv'
  BY <1>2, ZipNotClosedStep, ReceivedNotClosedStep, UnzipNotClosedStep, ZipFailsStep,
     UnzipFailsStep, ProgramFailsStep, WriteFailsStep DEF Fails
<1>3. CASE BoxRuns \/ SocketRemoved
  <2>1. (Listen \/ Serve \/ RemoveSocket) /\ UNCHANGED <<fileVars, pc, task, historyVars>>
    BY <1>3, Zenon DEF BoxRuns, SocketRemoved, BoxStep
  <2>2. BoxTypeOK'
    BY <2>1, BoxMoves DEF TransferInv, Typed
  <2>3. QED
    BY <2>1, <2>2, BoxAloneStep
<1>4. CASE UNCHANGED vars
  <2>1. UNCHANGED boxVars /\ UNCHANGED <<fileVars, pc, task, historyVars>>
    BY <1>4, Zenon DEF vars
  <2>2. BoxTypeOK'
    BY <2>1, BoxIdle DEF TransferInv, Typed
  <2>3. QED
    BY <2>1, <2>2, BoxAloneStep
<1>5. QED
  BY <1>1, <1>2, <1>3, <1>4, BeginStep, StoppedStep, SignalStep, BoxDiesStep, EditStep DEF Next

LEMMA TransferInvariant == Spec => []TransferInv
  BY InitTransferInv, NextTransferInv, PTL DEF Spec

----------------------------------------------------------------------------
(* The properties                                                          *)

(* Whatever programs, faults and signals come together, every variable has *)
(* its type: no archive holds what is no chunk of one.                     *)
THEOREM TypeCorrect == Spec => []TypeOK
<1>1. TransferInv => TypeOK
  <2> SUFFICES ASSUME TransferInv PROVE TypeOK
    OBVIOUS
  <2>1. BoxTypeOK /\ FilesTyped /\ ProgramsTyped /\ HistoryTyped
    BY DEF TransferInv, Typed
  <2>2. Range(near) \cup Range(far) \subseteq Chunks
    BY <2>1 DEF FilesTyped, Range
  <2>3. ASSUME NEW p \in Programs
        PROVE  /\ task[p].op \in {"none", "zip", "stream", "unzip"}
               /\ Range(task[p].wire) \subseteq Chunks \cup {Eof}
               /\ Len(task[p].wire) <= MaxWire
    <3>1. task[p] \in TaskRecord /\ Len(task[p].wire) <= MaxWire
      BY ProgramFacts DEF ProgramTyped
    <3>2. task[p].wire \in Seq(Chunks \cup {Eof}) /\ task[p].op \in Operations
      BY <3>1 DEF TaskRecord
    <3>3. QED
      BY <3>1, <3>2 DEF Range, Operations
  <2>4. QED
    BY <2>1, <2>2, <2>3, Zenon DEF TypeOK, FilesTyped, ProgramsTyped, HistoryTyped
<1>2. QED
  BY <1>1, TransferInvariant, PTL

(* OpenFile and CreateFile end a stream for its reader only behind the     *)
(* last chunk: where nobody else was at work, far is what near is, but for *)
(* what an upload may lose in a Close.                                     *)
THEOREM EofIsBehindAll == Spec => []EofMeansWhole
<1>1. TransferInv => EofMeansWhole
  BY DEF TransferInv, AllStaged, Staged, Received, EofMeansWhole
<1>2. QED
  BY <1>1, TransferInvariant, PTL

(* Nothing that earlier attempts left behind, and no stop of red-box, makes*)
(* an attempt fail that meets neither a fault nor another attempt, but for *)
(* files that may not be written again.                                    *)
THEOREM RetrySucceeds == Spec => []UntroubledAttemptSucceeds
<1>1. TransferInv => UntroubledAttemptSucceeds
  BY DEF TransferInv
<1>2. QED
  BY <1>1, TransferInvariant, PTL

(* Only the end of unzip lets main report success. *)
LEMMA WhoReportsSuccess ==
    ASSUME TransferInv, [Next]_vars, NEW p \in Programs, pc'[p] = "done", pc[p] # "done"
    PROVE  UnzipDone(p) /\ IsLive(p)
<1>1. ASSUME NEW q \in Programs, NEW label \in Labels, Goto(q, label), label # "done" PROVE FALSE
  <2>1. /\ pc'[q] = IF IsLive(q) THEN label ELSE pc[q]
        /\ \A r \in Programs \ {q} : pc'[r] = pc[r]
    BY <1>1, MainGoes, ProgramFacts
  <2>2. QED
    BY <1>1, <2>1
<1>2. pc' # pc
  OBVIOUS
<1>3. /\ "stream" \in Labels /\ "unzip" \in Labels /\ "failed" \in Labels
      /\ "stream" # "done" /\ "unzip" # "done" /\ "failed" # "done"
  BY DEF Labels
<1>4. ASSUME NEW q \in Programs, NEW label \in {"zip", "failed"},
             pc' = [pc EXCEPT ![q] = label]
      PROVE  FALSE
  BY <1>4, ProgramFacts DEF ProgramsTyped
<1>5. ASSUME NEW q \in Programs, Begin(q) \/ Fails(q) PROVE FALSE
  <2>1. \/ Goto(q, "stream") \/ Goto(q, "unzip") \/ Goto(q, "failed") \/ pc' = pc
        \/ pc' = [pc EXCEPT ![q] = "zip"] \/ pc' = [pc EXCEPT ![q] = "failed"]
    BY <1>5, Zenon DEF Begin, Fails, ZipNotClosed, ReceivedNotClosed, UnzipNotClosed,
       ZipFails, UnzipFails, ProgramFails, WriteFails, Fail
  <2>2. QED
    BY <1>1, <1>2, <1>3, <1>4, <2>1
<1>6. ASSUME NEW q \in Programs, Runs(q), ~UnzipDone(q) PROVE FALSE
  <2>1. ASSUME ZipStep(q) PROVE Goto(q, "stream") \/ pc' = pc
    BY <2>1, Zenon DEF ZipStep, StartZip, ZipEntry, ZipDone
  <2>2. ASSUME StreamStep(q) PROVE Goto(q, "unzip") \/ pc' = pc
    BY <2>2, Zenon DEF StreamStep, StartStream, SendChunk, SendEof, ReceiveChunk, ReceiveEof,
       CallCancelled
  <2>3. ASSUME UnzipStep(q) PROVE Goto(q, "failed") \/ pc' = pc
    BY <1>6, <2>3, Zenon DEF UnzipStep, StartUnzip, NotAnArchive, UnzipCreate, NotWritable,
       UnzipCopy, Corrupt, UnzipError, Fail
  <2>4. ASSUME CallRefused(q) PROVE Goto(q, "failed")
    BY <2>4, Zenon DEF CallRefused, Fail
  <2>5. QED
    BY <1>1, <1>2, <1>3, <1>6, <2>1, <2>2, <2>3, <2>4 DEF Runs
<1>7. ASSUME BoxRuns \/ SocketRemoved \/ Signal \/ Edit \/ UNCHANGED vars PROVE FALSE
  <2>1. pc' = pc
    BY <1>7, Zenon DEF BoxRuns, SocketRemoved, BoxStep, Signal, Edit, vars
  <2>2. QED
    BY <1>2, <2>1
<1>8. ASSUME Stopped \/ BoxDies PROVE FALSE
  <2>1. BreakCalls
    BY <1>8, Zenon DEF Stopped, BoxDies
  <2>2. QED
    BY <2>1, CallsBreak
<1>9. PICK q \in Programs : UnzipDone(q)
  BY <1>5, <1>6, <1>7, <1>8, Zenon DEF Next
<1>10. /\ pc'[q] = (IF IsLive(q) THEN "done" ELSE pc[q])
       /\ \A r \in Programs \ {q} : pc'[r] = pc[r]
  BY <1>9, MainGoes, ProgramFacts DEF UnzipDone, Labels
<1>11. q = p /\ IsLive(p)
  BY <1>10
<1>12. QED
  BY <1>9, <1>11

(* What main reports as transferred is there, every file of the tree whole *)
(* and no older than the program, for a program that met no other one:     *)
(* neither a fault nor what attempts before it left behind goes unnoticed, *)
(* but for a file whose deferred Close fails.                              *)
THEOREM SuccessIsDelivery == Spec => SuccessMeansDelivered
<1> DEFINE Delivered ==
             \A p \in Programs : Reports(p) => \A f \in Files : IsDelivered(p, f)'
<1>1. TransferInv /\ [Next]_vars => [Delivered]_vars
  <2> SUFFICES ASSUME TransferInv, [Next]_vars, NEW p \in Programs, pc'[p] = "done",
                      pc[p] # "done", p \notin crowded, NEW f \in Files
               PROVE  IsDelivered(p, f)'
    BY Zenon DEF Reports
  <2>1. UnzipDone(p) /\ IsLive(p)
    BY WhoReportsSuccess
  <2>2. /\ IsBusy(p, "unzip") /\ task[p].pos >= Len(task[p].dir)
        /\ target' = target /\ source' = source /\ since' = since /\ troubled' = troubled
    BY <2>1, Zenon DEF UnzipDone, fileVars, historyVars
  <2>3. UnzippedTo(p) /\ Len(task[p].dir) = Len(Tree)
    BY <2>1, <2>2, UnzipsWhole
  <2>4. task[p].pos = Len(Tree) /\ ~task[p].open
    <3>1. task[p].pos \in Nat /\ Len(Tree) \in Nat
      BY ProgramFacts, TreeFacts DEF TaskRecord
    <3>2. QED
      BY <2>2, <2>3, <3>1 DEF UnzippedTo
  <2>5. PICK i \in 1..Len(Tree) : Tree[i] = f
    <3>1. Tree \in Seq(Files)
      BY BoundsAssumption DEF Files
    <3>2. QED
      BY <3>1 DEF Files, Range
  <2>6. IsDelivered(p, Tree[i])
    BY <2>3, <2>4 DEF UnzippedTo
  <2>7. QED
    BY <2>2, <2>5, <2>6 DEF IsDelivered
<1>2. Spec => [][Delivered]_vars
  BY <1>1, TransferInvariant, PTL DEF Spec
<1>3. QED
  BY <1>2 DEF SuccessMeansDelivered
=============================================================================
