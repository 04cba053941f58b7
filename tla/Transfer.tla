------------------------------ MODULE Transfer ------------------------------
(***************************************************************************)
(* The results program and the calls of red-box it makes: the files of a   *)
(* tree are zipped where they are, the archive is streamed to the other    *)
(* side in chunks and unzipped there.  A program that uploads zips and     *)
(* sends itself and has red-box receive (CreateFile) and unzip; one that   *)
(* downloads has red-box zip and send (OpenFile) and does the rest itself. *)
(* The side the tree is on is called near, the other one far.              *)
(*                                                                         *)
(* The programs are the attempts that are made, in turn or at a time, to   *)
(* transfer one tree to one place.  None of them cleans up, and red-box    *)
(* goes on with a call of a program that is gone.  The tree changes as      *)
(* a whole, and a file is its version.  An archive is a sequence of chunks, *)
(* an entry per file and the central directory behind them.                 *)
(***************************************************************************)
EXTENDS RedBoxProcess, Integers, Sequences, FiniteSets, SequencesExt

CONSTANTS
    NumPrograms,  \* runs of the results program
    Tree,         \* the files of the tree, as filepath.Walk finds them
    Directions,   \* whether the programs upload: a set of Booleans
    ReadOnly,     \* its files that nobody may write once they exist
    MaxWire,      \* chunks that fit between sender and receiver
    MaxEdits,     \* how often the tree changes
    MaxFaults     \* how many faults there are

ASSUME BoundsAssumption ==
    /\ NumPrograms \in Nat /\ Directions \subseteq BOOLEAN
    /\ Tree \in Seq(Range(Tree)) /\ ReadOnly \subseteq Range(Tree)
    /\ MaxWire \in Nat \ {0} /\ MaxEdits \in Nat /\ MaxFaults \in Nat

VARIABLES
    upload,     \* the direction
    source,     \* the version of the tree
    near, far,  \* the two archives
    target,     \* what there is of each file on the far side
    pc,         \* what main does: zip, stream, unzip, done, failed
    task,       \* the zip, stream or unzip under way for a program
    faults,     \* how many faults there were
    since,      \* the version when a program began
    troubled,   \* programs that met a fault
    crowded     \* programs that met another one, or a call it left

fileVars == <<upload, source, near, far, target>>
historyVars == <<faults, since, troubled, crowded>>
vars == <<boxVars, fileVars, pc, task, historyVars>>

Programs == 1..NumPrograms       \* in the order in which they begin
Files == Range(Tree)

----------------------------------------------------------------------------
(* Archives *)

Entry(f, v) == [file |-> f, version |-> v]
Directory(dir) == [dir |-> dir]
Hole == [hole |-> TRUE]             \* a chunk that nobody wrote
Eof == [eof |-> TRUE]               \* the end of a stream

Absent == -1                        \* a file of the target that is not there,
Partial == -2                       \* that is being written or was given up,
Cut == -3                           \* or that was lost in part as it was closed

(* A file keeps the offset of its writer when somebody truncates it.       *)
WriteAt(archive, i, chunk) ==
    [j \in 1..(IF i > Len(archive) THEN i ELSE Len(archive)) |->
        IF j = i THEN chunk
        ELSE IF j <= Len(archive) THEN archive[j] ELSE Hole]

(* What a file may be when the error of its Close is lost.                 *)
WithHole(archive) == {[archive EXCEPT ![i] = Hole] : i \in DOMAIN archive}

HasDirectory(archive) == archive # <<>> /\ "dir" \in DOMAIN Last(archive)

----------------------------------------------------------------------------
(* Where main is, and what is under way. *)

Task(op, dir) == [op |-> op, dir |-> dir, pos |-> 0, sent |-> 0,
                  open |-> FALSE, closed |-> FALSE, wire |-> <<>>]
NoTask == Task("none", <<>>)

IsBusy(p, op) == task[p].op = op
IsLive(p) == pc[p] \in {"zip", "stream", "unzip"}
IsActive(p) == IsLive(p) \/ task[p] # NoTask

(* Whether red-box has a part in a task.                                   *)
AtBox(op) == op = "stream" \/ (op = "zip" /\ ~upload) \/ (op = "unzip" /\ upload)

Init ==
    /\ BoxInit
    /\ upload \in Directions
    /\ source = 0
    /\ near = <<>> /\ far = <<>>
    /\ target = [f \in Files |-> Absent]
    /\ pc = [p \in Programs |-> "idle"]
    /\ task = [p \in Programs |-> NoTask]
    /\ faults = 0
    /\ since = [p \in Programs |-> source]
    /\ troubled = {} /\ crowded = {}

(* A program that is gone is not told of the end of its call.              *)
Goto(p, label) == pc' = [pc EXCEPT ![p] = IF IsLive(p) THEN label ELSE @]
SetTask(p, t) == task' = [task EXCEPT ![p] = t]
Fail(p) == Goto(p, "failed") /\ SetTask(p, NoTask)

Fault ==
    /\ faults < MaxFaults
    /\ faults' = faults + 1
    /\ troubled' = troubled \cup {p \in Programs : IsLive(p)}
    /\ UNCHANGED <<since, crowded>>

Begin(p) ==
    LET others == {q \in Programs \ {p} : IsActive(q)}
    IN  /\ \A q \in Programs : pc[q] = "idle" <=> q >= p
        /\ pc' = [pc EXCEPT ![p] = "zip"]
        /\ since' = [since EXCEPT ![p] = source]
        /\ crowded' = crowded \cup others \cup (IF others = {} THEN {} ELSE {p})
        /\ UNCHANGED <<boxVars, fileVars, task, faults, troubled>>

(* A call waits for a process that started to serve, and fails where none  *)
(* listens.                                                                *)
CanCall(p, op) == pc[p] = op /\ IsBusy(p, "none") /\ (AtBox(op) => box = "serving")

RefusesNothing == FALSE             \* faulty: calls wait until they are served
Refuses == box \in {"down", "stopping"}

CallRefused(p) ==
    /\ IsLive(p) /\ AtBox(pc[p]) /\ IsBusy(p, "none")
    /\ Refuses
    /\ Fail(p)
    /\ troubled' = troubled \cup {p}
    /\ UNCHANGED <<boxVars, fileVars, faults, since, crowded>>

----------------------------------------------------------------------------
(* zipFile *)

StartZip(p) ==
    /\ CanCall(p, "zip")
    /\ near' = <<>>
    /\ SetTask(p, Task("zip", <<>>))
    /\ UNCHANGED <<boxVars, upload, source, far, target, pc, historyVars>>

NextEntry(p) == Len(task[p].dir) + 1

ZipEntry(p) ==
    /\ IsBusy(p, "zip")
    /\ NextEntry(p) <= Len(Tree)
    /\ LET e == Entry(Tree[NextEntry(p)], source)
       IN  /\ near' = WriteAt(near, NextEntry(p), e)
           /\ SetTask(p, [task[p] EXCEPT !.dir = Append(@, e)])
    /\ UNCHANGED <<boxVars, upload, source, far, target, pc, historyVars>>

Closed(p) == WriteAt(near, NextEntry(p), Directory(task[p].dir))
CloseZip(p) == near' = Closed(p)

ZipDone(p) ==
    /\ IsBusy(p, "zip")
    /\ NextEntry(p) > Len(Tree)
    /\ CloseZip(p)
    /\ Goto(p, "stream")
    /\ SetTask(p, NoTask)
    /\ UNCHANGED <<boxVars, upload, source, far, target, historyVars>>

(* The errors of the deferred Closes, of the writer and then of the file,  *)
(* are lost.                                                               *)
ZipNotClosed(p) ==
    /\ IsBusy(p, "zip")
    /\ NextEntry(p) > Len(Tree)
    /\ Fault
    /\ near' \in {near} \cup WithHole(Closed(p))
    /\ Goto(p, "stream")
    /\ SetTask(p, NoTask)
    /\ UNCHANGED <<boxVars, upload, source, far, target>>

ZipFailsUnseen(p) ==                \* faulty: files that cannot be read are skipped
    /\ IsBusy(p, "zip")
    /\ Fault
    /\ CloseZip(p)
    /\ Goto(p, "stream")
    /\ SetTask(p, NoTask)
    /\ UNCHANGED <<boxVars, upload, source, far, target>>

(* An error of the walk.  Where the disk is not full the archive gets its  *)
(* directory nevertheless.                                                 *)
ZipFails(p) ==
    /\ IsBusy(p, "zip")
    /\ Fault
    /\ CloseZip(p) \/ UNCHANGED near
    /\ Fail(p)
    /\ UNCHANGED <<boxVars, upload, source, far, target>>

----------------------------------------------------------------------------
(* OpenFile or CreateFile, and the loops of main *)

StartStream(p) ==
    /\ CanCall(p, "stream")
    /\ far' = <<>>
    /\ SetTask(p, Task("stream", <<>>))
    /\ UNCHANGED <<boxVars, upload, source, near, target, pc, historyVars>>

(* A call that was cancelled is still served, but what is sent on it is    *)
(* lost and the handler that sends is told so.                             *)
CanSend(p) == IsBusy(p, "stream") /\ IsLive(p) /\ Len(task[p].wire) < MaxWire
CanReceive(p) == /\ IsBusy(p, "stream") /\ (upload \/ IsLive(p))
                 /\ task[p].wire # <<>>

Wire(p, chunk) == SetTask(p, [task[p] EXCEPT !.wire = Append(@, chunk), !.sent = @ + 1])

AllReadShort(p) == task[p].sent + 1 >= Len(near)  \* faulty: the last read is lost
AllRead(p) == task[p].sent >= Len(near)

SendChunk(p) ==
    /\ CanSend(p)
    /\ ~AllRead(p)
    /\ Wire(p, near[task[p].sent + 1])
    /\ UNCHANGED <<boxVars, fileVars, pc, historyVars>>

SendEof(p) ==
    /\ CanSend(p)
    /\ AllRead(p) /\ ~task[p].closed
    /\ SetTask(p, [task[p] EXCEPT !.wire = Append(@, Eof), !.closed = TRUE])
    /\ UNCHANGED <<boxVars, fileVars, pc, historyVars>>

ReceiveChunk(p) ==
    /\ CanReceive(p)
    /\ Head(task[p].wire) # Eof
    /\ far' = WriteAt(far, task[p].pos + 1, Head(task[p].wire))
    /\ SetTask(p, [task[p] EXCEPT !.wire = Tail(@), !.pos = @ + 1])
    /\ UNCHANGED <<boxVars, upload, source, near, target, pc, historyVars>>

ReceiveEofWritten(p) ==             \* faulty: what comes with an error is written
    /\ CanReceive(p)
    /\ Head(task[p].wire) = Eof
    /\ far' = WriteAt(far, task[p].pos + 1, Eof)
    /\ Goto(p, "unzip")
    /\ SetTask(p, NoTask)
    /\ UNCHANGED <<boxVars, upload, source, near, target, historyVars>>
ReceiveEof(p) ==
    /\ CanReceive(p)
    /\ Head(task[p].wire) = Eof
    /\ Goto(p, "unzip")
    /\ SetTask(p, NoTask)
    /\ UNCHANGED <<boxVars, fileVars, historyVars>>

(* The error of CreateFile's deferred Close is lost.  The results program  *)
(* has the archive still open when it unzips it.                           *)
ReceivedNotClosed(p) ==
    /\ CanReceive(p)
    /\ Head(task[p].wire) = Eof
    /\ upload
    /\ Fault
    /\ far' \in WithHole(far)
    /\ Goto(p, "unzip")
    /\ SetTask(p, NoTask)
    /\ UNCHANGED <<boxVars, upload, source, near, target>>

(* The handler sees that the program is gone.                              *)
CallCancelledUnseen(p) ==           \* faulty: CreateFile reads on after an error
    /\ IsBusy(p, "stream")
    /\ ~IsLive(p) /\ ~upload
    /\ SetTask(p, NoTask)
    /\ UNCHANGED <<boxVars, fileVars, pc, historyVars>>
CallCancelled(p) ==
    /\ IsBusy(p, "stream")
    /\ ~IsLive(p)
    /\ SetTask(p, NoTask)
    /\ UNCHANGED <<boxVars, fileVars, pc, historyVars>>

----------------------------------------------------------------------------
(* unzip *)

UnzipError(p) == Fail(p) /\ UNCHANGED <<boxVars, fileVars, historyVars>>

StartUnzip(p) ==
    /\ CanCall(p, "unzip")
    /\ HasDirectory(far)
    /\ SetTask(p, Task("unzip", Last(far).dir))
    /\ UNCHANGED <<boxVars, fileVars, pc, historyVars>>

NotAnArchive(p) ==
    /\ CanCall(p, "unzip")
    /\ ~HasDirectory(far)
    /\ UnzipError(p)

(* The file to be unzipped, before or after it was opened and truncated.   *)
Unzipping(p, open) ==
    IsBusy(p, "unzip") /\ task[p].open = open /\ task[p].pos < Len(task[p].dir)
ToUnzip(p) == task[p].dir[task[p].pos + 1]
IsReadable(p) == task[p].pos < Len(far) /\ far[task[p].pos + 1] = ToUnzip(p)
MayWriteNew(f) == target[f] = Absent  \* faulty: O_EXCL in place of O_TRUNC
MayWrite(f) == f \in ReadOnly => target[f] = Absent

UnzipCreate(p) ==
    /\ Unzipping(p, FALSE)
    /\ MayWrite(ToUnzip(p).file)
    /\ target' = [target EXCEPT ![ToUnzip(p).file] = Partial]
    /\ SetTask(p, [task[p] EXCEPT !.open = TRUE])
    /\ UNCHANGED <<boxVars, upload, source, near, far, pc, historyVars>>

NotWritable(p) ==
    /\ Unzipping(p, FALSE)
    /\ ~MayWrite(ToUnzip(p).file)
    /\ UnzipError(p)

UnzipCopy(p) ==
    /\ Unzipping(p, TRUE)
    /\ IsReadable(p)
    /\ target' = [target EXCEPT ![ToUnzip(p).file] = ToUnzip(p).version]
    /\ SetTask(p, [task[p] EXCEPT !.open = FALSE, !.pos = @ + 1])
    /\ UNCHANGED <<boxVars, upload, source, near, far, pc, historyVars>>

(* The error of the deferred Close of the file is lost.                    *)
UnzipNotClosed(p) ==
    /\ Unzipping(p, TRUE)
    /\ IsReadable(p)
    /\ Fault
    /\ target' = [target EXCEPT ![ToUnzip(p).file] = Cut]
    /\ SetTask(p, [task[p] EXCEPT !.open = FALSE, !.pos = @ + 1])
    /\ UNCHANGED <<boxVars, upload, source, near, far, pc>>

(* The archive is cut or the checksum is not the one of the directory.     *)
Corrupt(p) ==
    /\ Unzipping(p, TRUE)
    /\ ~IsReadable(p)
    /\ UnzipError(p)

UnzipDone(p) ==
    /\ IsBusy(p, "unzip")
    /\ task[p].pos >= Len(task[p].dir)
    /\ Goto(p, "done")
    /\ SetTask(p, NoTask)
    /\ UNCHANGED <<boxVars, fileVars, historyVars>>

UnzipFails(p) ==
    /\ IsBusy(p, "unzip")
    /\ Fault
    /\ Fail(p)
    /\ UNCHANGED <<boxVars, fileVars>>

----------------------------------------------------------------------------
(* The program is killed, its connection breaks, or a local call of the    *)
(* system fails: main ends.  What red-box does for it goes on.             *)
ProgramFails(p) ==
    /\ IsLive(p)
    /\ Fault
    /\ pc' = [pc EXCEPT ![p] = "failed"]
    /\ SetTask(p, IF AtBox(task[p].op) THEN task[p] ELSE NoTask)
    /\ UNCHANGED <<boxVars, fileVars>>

(* A chunk that cannot be written ends the download, or red-box.           *)
WriteFails(p) ==
    /\ CanReceive(p)
    /\ ~upload
    /\ Fault
    /\ pc' = [pc EXCEPT ![p] = "failed"]
    /\ UNCHANGED <<boxVars, fileVars, task>>

----------------------------------------------------------------------------
(* Steps of red-box with the calls it serves *)

BoxStep(step) == step /\ UNCHANGED <<fileVars, pc, task, historyVars>>

BoxRuns == BoxStep(Listen \/ Serve)

(* Calls end with the process, and the programs that made them.            *)
BreakCalls ==
    /\ pc' = [p \in Programs |-> IF IsLive(p) /\ AtBox(task[p].op) THEN "failed" ELSE pc[p]]
    /\ task' = [p \in Programs |-> IF AtBox(task[p].op) THEN NoTask ELSE task[p]]

HasNoCallUnasked == TRUE            \* faulty: Stop in place of GracefulStop
HasNoCall == \A p \in Programs : ~AtBox(task[p].op)
Stopped == HasNoCall /\ Exit /\ BreakCalls /\ UNCHANGED <<fileVars, historyVars>>

(* A signal troubles nobody: who is refused afterwards is troubled then.   *)
Signal ==
    /\ GracefulStop
    /\ faults < MaxFaults
    /\ faults' = faults + 1
    /\ UNCHANGED <<fileVars, pc, task, since, troubled, crowded>>

BoxDies == Die /\ Fault /\ BreakCalls /\ UNCHANGED fileVars

SocketRemoved == BoxStep(RemoveSocket)

(* The tree changes between attempts, not under them.                      *)
Edit ==
    /\ source < MaxEdits
    /\ \A p \in Programs : ~IsLive(p)
    /\ source' = source + 1
    /\ UNCHANGED <<boxVars, upload, near, far, target, pc, task, historyVars>>

----------------------------------------------------------------------------
ZipStep(p) == StartZip(p) \/ ZipEntry(p) \/ ZipDone(p)
StreamStep(p) == StartStream(p) \/ SendChunk(p) \/ SendEof(p) \/ ReceiveChunk(p)
                 \/ ReceiveEof(p) \/ CallCancelled(p)
UnzipStep(p) == StartUnzip(p) \/ NotAnArchive(p) \/ UnzipCreate(p) \/ NotWritable(p)
                \/ UnzipCopy(p) \/ Corrupt(p) \/ UnzipDone(p)
Runs(p) == ZipStep(p) \/ StreamStep(p) \/ UnzipStep(p) \/ CallRefused(p)

Fails(p) == \/ ZipNotClosed(p) \/ ReceivedNotClosed(p) \/ UnzipNotClosed(p)
            \/ ZipFails(p) \/ UnzipFails(p) \/ ProgramFails(p) \/ WriteFails(p)

Next ==
    \/ \E p \in Programs : Begin(p) \/ Runs(p) \/ Fails(p)
    \/ BoxRuns \/ Stopped \/ Signal \/ BoxDies \/ SocketRemoved
    \/ Edit

(* systemd starts red-box again, and its goroutines run; so do the program *)
(* and the calls.  Nobody has to begin, to fail or to remove the socket.   *)
Fairness ==
    /\ WF_vars(BoxRuns) /\ WF_vars(Stopped)
    /\ \A p \in Programs : WF_vars(Runs(p))

Spec == Init /\ [][Next]_vars /\ Fairness

----------------------------------------------------------------------------
(* Every variable has its type.                                            *)
Versions == 0..MaxEdits
Entries == [file : Files, version : Versions]
Chunks == Entries \cup {Hole} \cup [dir : UNION {[1..n -> Entries] : n \in 0..Len(Tree)}]
TypeOK ==
    /\ BoxTypeOK
    /\ upload \in Directions
    /\ source \in Versions /\ since \in [Programs -> Versions]
    /\ Range(near) \cup Range(far) \subseteq Chunks
    /\ target \in [Files -> Versions \cup {Absent, Partial, Cut}]
    /\ pc \in [Programs -> {"idle", "zip", "stream", "unzip", "done", "failed"}]
    /\ \A p \in Programs : /\ task[p].op \in {"none", "zip", "stream", "unzip"}
                           /\ Range(task[p].wire) \subseteq Chunks \cup {Eof}
                           /\ Len(task[p].wire) <= MaxWire
    /\ faults \in 0..MaxFaults
    /\ troubled \subseteq Programs /\ crowded \subseteq Programs

Reports(p) == pc'[p] = "done" /\ pc[p] # "done" /\ p \notin crowded

(* A file is there as it was when the program ran, but for one that a fault*)
(* the program met cut as unzipFile closed it.                             *)
IsDelivered(p, f) ==
    target[f] \in since[p]..source \/ (p \in troubled /\ target[f] = Cut)

(* What a program that met no other one reports as transferred is there,   *)
(* every file whole and no older than the program, whatever attempts that  *)
(* failed left behind and whatever failed without being noticed; but for a *)
(* file that it lost in part itself as unzipFile closed it.                *)
SuccessMeansDelivered ==
    [][\A p \in Programs : Reports(p) => \A f \in Files : IsDelivered(p, f)']_vars

(* An attempt that meets no fault and no other attempt succeeds, whatever  *)
(* earlier ones left behind, unless that is a file it may not write.       *)
UntroubledAttemptSucceeds ==
    \A p \in Programs : (pc[p] = "failed" /\ p \notin troubled \cup crowded)
        => \E f \in ReadOnly : target[f] # Absent

(* An end of the stream is taken for the end of the archive only when all  *)
(* of it came, but for what an upload loses as CreateFile closes the file. *)
EofMeansWhole ==
    \A p \in Programs : (pc[p] = "unzip" /\ p \notin crowded)
        => far = near \/ (upload /\ far \in WithHole(near))

(* A program ends, though none of its calls has a deadline.                *)
TransferEnds == \A p \in Programs : IsLive(p) ~> pc[p] \in {"done", "failed"}

(* red-box serves again and again, unless it left its socket behind: a     *)
(* stop ends, though it waits for calls whose programs are gone, and one   *)
(* that comes before the server serves does not hang it.                   *)
ServesAgain == []<>(box = "serving" \/ (box = "down" /\ sock))

=============================================================================
