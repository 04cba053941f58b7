---------------------------- MODULE TailStream ----------------------------
(***************************************************************************)
(* TailFile of red-box: a file that is being written is streamed to a      *)
(* client until the client asks to read to its end and close.              *)
(*                                                                         *)
(* Four goroutines serve one stream: the handler of the call, a receiver   *)
(* of the client's requests, tail.Reader's readTail, and the tail of       *)
(* hpcloud/tail, which hands complete lines to readTail and sleeps on      *)
(* events in between, first until the file appears and then until it grows.*)
(* All streams of one file share one channel of events, and whoever stops  *)
(* to wait or to watch closes it for the others.                           *)
(*                                                                         *)
(* A line is two units, its text and its newline, so that a file may end   *)
(* in half a line and a chunk may end in the middle of one; unit n is the  *)
(* n-th that was written.  Once the file exists it is not truncated, moved *)
(* or deleted.                                                             *)
(***************************************************************************)
EXTENDS Naturals, Sequences

CONSTANTS
    Streams,       \* calls of TailFile, all for the same file
    ExistsAtStart, \* the file is there before the first call
    InitialLines,  \* lines in the file when it comes to be
    MaxLines,      \* bound: lines in the file
    ChunkSize,     \* units the handler reads at once
    MaxEvents,     \* bound: events that nobody took yet; the kernel merges more
    MaxRequests,   \* bound: requests of a client after its first one
    MayCancel,     \* clients may cancel their calls
    MayFail        \* opening, reading or watching the file may fail

ASSUME ConstantsAssumption ==
    /\ ExistsAtStart \in BOOLEAN
    /\ InitialLines \in Nat /\ MaxLines \in Nat /\ InitialLines <= MaxLines
    /\ ChunkSize \in Nat \ {0}
    /\ MaxEvents \in Nat \ {0}
    /\ MaxRequests \in Nat
    /\ MayCancel \in BOOLEAN /\ MayFail \in BOOLEAN

VARIABLES
    exists,   \* the file exists
    written,  \* units in the file
    events,   \* events that nobody took yet
    tail,     \* the tail goroutine of each stream, and its watcher
    reader,   \* readTail and the buffer it shares with the handler
    handler,  \* the handler of each call
    receiver, \* the goroutine that receives the requests of the client
    client    \* the client of each stream

vars == <<exists, written, events, tail, reader, handler, receiver, client>>
fileVars == <<exists, written>>

LineSize == 2
WholeLines(n) == n - (n % LineSize)
LineEnd(n) == WholeLines(n) + LineSize
Units(from, to) == [i \in 1..(to - from) |-> from + i]

Actions == {"Start", "ReadToEndAndClose"}

Init ==
    /\ exists = ExistsAtStart
    /\ written = IF ExistsAtStart THEN InitialLines * LineSize ELSE 0
    /\ events = 0
    /\ tail = [s \in Streams |->
                 [pc |-> "open", pos |-> 0, line |-> <<>>, watch |-> "none",
                  dying |-> FALSE, failed |-> FALSE]]
    /\ reader = [s \in Streams |->
                   [pc |-> "recv", line |-> <<>>, buff |-> <<>>, isClosed |-> FALSE]]
    /\ handler = [s \in Streams |->
                    [pc |-> "init", got |-> <<>>, isEmpty |-> FALSE]]
    /\ receiver = [s \in Streams |-> "recv"]
    /\ client = [s \in Streams |->
                   [asked |-> <<>>, due |-> 0, cancelled |-> FALSE, got |-> <<>>]]

Running(s) == handler[s].pc # "init"
Close == "ReadToEndAndClose"

----------------------------------------------------------------------------
(* The job that writes the file, and the client *)

IsWatched ==
    \E s \in Streams : tail[s].watch = "on" \/ tail[s].pc \in {"check", "await"}
IsAlone == \A s, t \in Streams : s = t

(* The kernel may merge an event with one that is still unread.  Streams   *)
(* that share a file may have it watched twice, with its directory, or not *)
(* at all: the tracker loses count of the watches when a channel that is   *)
(* closed is to be closed again.                                           *)
Notify ==
    /\ events' \in IF ~IsWatched THEN {events}
                   ELSE IF IsAlone THEN {events + 1} \cup ({events} \ {0})
                   ELSE events..(events + 2)
    /\ events' <= MaxEvents

(* The file may be moved to its place with lines in it. *)
CreateFile ==
    /\ ~exists
    /\ exists' = TRUE
    /\ written' = InitialLines * LineSize
    /\ Notify
    /\ UNCHANGED <<tail, reader, handler, receiver, client>>

Write ==
    /\ exists
    /\ written < MaxLines * LineSize
    /\ written' = written + 1
    /\ Notify
    /\ UNCHANGED <<exists, tail, reader, handler, receiver, client>>

(* "due" is noted for ReadToTheEnd, of a stream that is the only one.      *)
Ask(s) ==
    /\ Running(s)
    /\ ~client[s].cancelled
    /\ Len(client[s].asked) < MaxRequests
    /\ \E a \in Actions :
         client' = [client EXCEPT
                      ![s].asked = Append(@, a),
                      ![s].due = IF IsAlone /\ client[s].asked = <<>> /\ a = Close
                                 THEN WholeLines(written) ELSE @]
    /\ UNCHANGED <<fileVars, events, tail, reader, handler, receiver>>

Cancel(s) ==
    /\ MayCancel
    /\ Running(s)
    /\ ~client[s].cancelled
    /\ client' = [client EXCEPT ![s].cancelled = TRUE]
    /\ UNCHANGED <<fileVars, events, tail, reader, handler, receiver>>

----------------------------------------------------------------------------
(* The tail of hpcloud/tail.  "done": it is dead and its lines are closed. *)

(* Another stream closed the channel: a watcher stops, and who waits for   *)
(* the file fails.                                                         *)
Told(u) == [u EXCEPT !.watch = IF @ = "on" THEN "closed" ELSE @,
                     !.pc = IF @ = "await" THEN "orphaned" ELSE @]

(* A stream leaves the channel of events, which closes it for all streams; *)
(* but those that did not fetch it yet are not told, and will wait on the  *)
(* next one or on none at all.  Events that are unread may get lost.       *)
LeaveChannel(s, u, unread) ==
    /\ \E deaf \in SUBSET Streams :
         tail' = [t \in Streams |-> IF t = s THEN u
                                   ELSE IF t \in deaf THEN tail[t] ELSE Told(tail[t])]
    /\ events' \in 0..unread

(* reopen: the file is opened, or its directory is watched.                *)
Open(s) ==
    /\ Running(s)
    /\ tail[s].pc = "open"
    /\ tail' = [tail EXCEPT ![s].pc = IF exists THEN "read" ELSE "check"]
    /\ UNCHANGED <<fileVars, events, reader, handler, receiver, client>>

(* BlockUntilExists: the file may have come before it was watched for, and *)
(* otherwise it is awaited.                                                *)
StillAbsent(s) ==
    /\ tail[s].pc = "check"
    /\ ~exists
    /\ tail' = [tail EXCEPT ![s].pc = "await"]
    /\ UNCHANGED <<fileVars, events, reader, handler, receiver, client>>

FoundAfterAll(s) ==
    /\ tail[s].pc = "check"
    /\ exists
    /\ LeaveChannel(s, [tail[s] EXCEPT !.pc = "open"], events)
    /\ UNCHANGED <<fileVars, reader, handler, receiver, client>>

Appears(s) ==
    /\ tail[s].pc = "await"
    /\ events > 0
    /\ LeaveChannel(s, [tail[s] EXCEPT !.pc = "open"], events - 1)
    /\ UNCHANGED <<fileVars, reader, handler, receiver, client>>

Failed(s) == [tail[s] EXCEPT !.pc = "done", !.dying = TRUE, !.failed = TRUE]

Orphaned(s) ==
    /\ tail[s].pc = "orphaned"
    /\ LeaveChannel(s, Failed(s), events)
    /\ UNCHANGED <<fileVars, reader, handler, receiver, client>>

PutBackNothing(s) == written      \* faulty: half a line is consumed
PutBack(s) == tail[s].pos

(* A whole line is sent.  At the end of the file half a line is put back,  *)
(* to be read again, and the tail waits for a change; the first time it    *)
(* starts the watcher before.                                              *)
ReadLine(s) ==
    /\ tail[s].pc = "read"
    /\ tail' = IF written >= LineEnd(tail[s].pos)
               THEN [tail EXCEPT ![s].pc = "send",
                                 ![s].line = Units(tail[s].pos, LineEnd(tail[s].pos)),
                                 ![s].pos = LineEnd(@)]
               ELSE [tail EXCEPT ![s].pc = IF tail[s].watch = "none" THEN "watch"
                                                                     ELSE "wait",
                                 ![s].pos = PutBack(s)]
    /\ UNCHANGED <<fileVars, events, reader, handler, receiver, client>>

(* The channel of lines has no buffer: readTail must be there to receive. *)
SendLine(s) ==
    /\ tail[s].pc = "send"
    /\ reader[s].pc = "recv"
    /\ tail' = [tail EXCEPT ![s].pc = "read", ![s].line = <<>>]
    /\ reader' = [reader EXCEPT ![s].pc = "write", ![s].line = tail[s].line]
    /\ UNCHANGED <<fileVars, events, handler, receiver, client>>

StartWatcher(s) ==
    /\ tail[s].pc = "watch"
    /\ tail' = [tail EXCEPT ![s].pc = "wait", ![s].watch = "on"]
    /\ UNCHANGED <<fileVars, events, reader, handler, receiver, client>>

(* Exactly one watcher takes an event.  It wakes its tail when that waits, *)
(* and forgets the event when it does not.                                 *)
TakeEvent(s) ==
    /\ tail[s].watch = "on"
    /\ events > 0
    /\ events' = events - 1
    /\ tail' = [tail EXCEPT ![s].pc = IF @ = "wait" THEN "read" ELSE @]
    /\ UNCHANGED <<fileVars, reader, handler, receiver, client>>

(* A watcher stops when its tail dies or its channel is closed.            *)
StopWatcher(s) ==
    /\ \/ tail[s].watch = "on" /\ tail[s].dying
       \/ tail[s].watch = "closed"
    /\ LeaveChannel(s, [tail[s] EXCEPT !.watch = "off"], events)
    /\ UNCHANGED <<fileVars, reader, handler, receiver, client>>

(* A tail that was told to stop does so where it would sleep. *)
StopAtEOF(s) ==
    /\ tail[s].dying
    /\ tail[s].pc = "wait"
    /\ tail' = [tail EXCEPT ![s].pc = "done"]
    /\ UNCHANGED <<fileVars, events, reader, handler, receiver, client>>

StopAwaiting(s) ==
    /\ tail[s].dying
    /\ tail[s].pc \in {"await", "orphaned"}
    /\ LeaveChannel(s, [tail[s] EXCEPT !.pc = "done"], events)
    /\ UNCHANGED <<fileVars, reader, handler, receiver, client>>

(* The file cannot be opened, read or sought in, or not be watched.        *)
TailFails(s) ==
    /\ MayFail
    /\ Running(s)
    /\ tail[s].pc \in {"open", "read", "watch"}
    /\ tail' = [tail EXCEPT ![s] = Failed(s)]
    /\ UNCHANGED <<fileVars, events, reader, handler, receiver, client>>

(* Whether the file is there cannot be told.                               *)
StatFails(s) ==
    /\ MayFail
    /\ tail[s].pc = "check"
    /\ LeaveChannel(s, Failed(s), events)
    /\ UNCHANGED <<fileVars, reader, handler, receiver, client>>

----------------------------------------------------------------------------
(* readTail of tail.Reader *)

WriteToBuffer(s) ==
    /\ reader[s].pc = "write"
    /\ reader' = [reader EXCEPT ![s].pc = "recv",
                                ![s].buff = @ \o reader[s].line,
                                ![s].line = <<>>]
    /\ UNCHANGED <<fileVars, events, tail, handler, receiver, client>>

LinesClosed(s) ==
    /\ reader[s].pc = "recv"
    /\ tail[s].pc = "done"
    /\ reader' = [reader EXCEPT ![s].pc = "done", ![s].isClosed = TRUE]
    /\ UNCHANGED <<fileVars, events, tail, handler, receiver, client>>

----------------------------------------------------------------------------
(* The call of TailFile *)

StartStream(s) ==
    /\ handler[s].pc = "init"
    /\ handler' = [handler EXCEPT ![s].pc = "select"]
    /\ UNCHANGED <<fileVars, events, tail, reader, receiver, client>>

HasEnded(s) == handler[s].pc \in {"eof", "aborted"}

(* The receiver takes one request of the client, not more. *)
Receive(s) ==
    /\ receiver[s] = "recv"
    /\ client[s].asked # <<>>
    /\ receiver' = [receiver EXCEPT ![s] = "send"]
    /\ UNCHANGED <<fileVars, events, tail, reader, handler, client>>

(* Receiving fails once the call is over or cancelled. *)
ReceiveFails(s) ==
    /\ receiver[s] = "recv"
    /\ HasEnded(s) \/ client[s].cancelled
    /\ receiver' = [receiver EXCEPT ![s] = "done"]
    /\ UNCHANGED <<fileVars, events, tail, reader, handler, client>>

ContextDone(s) ==
    /\ handler[s].pc = "select"
    /\ client[s].cancelled
    /\ handler' = [handler EXCEPT ![s].pc = "aborted"]
    /\ UNCHANGED <<fileVars, events, tail, reader, receiver, client>>

IsCloseNever(a) == FALSE          \* faulty: the request is not understood
IsClose(a) == a = Close

TakeRequest(s) ==
    /\ handler[s].pc = "select"
    /\ receiver[s] = "send"
    /\ receiver' = [receiver EXCEPT ![s] = "done"]
    /\ IF IsClose(Head(client[s].asked))
       THEN /\ tail' = [tail EXCEPT ![s].dying = TRUE]
            /\ handler' = [handler EXCEPT ![s].pc = "closing"]
       ELSE UNCHANGED <<tail, handler>>
    /\ UNCHANGED <<fileVars, events, reader, client>>

CloseReturnsAtOnce(s) == TRUE     \* faulty: Close does not wait for the tail
CloseReturns(s) == tail[s].pc = "done"

Closed(s) ==
    /\ handler[s].pc = "closing"
    /\ CloseReturns(s)
    /\ handler' = [handler EXCEPT ![s].pc = "select"]
    /\ UNCHANGED <<fileVars, events, tail, reader, receiver, client>>

ReadSizeUnbounded(b) == Len(b)    \* faulty: the size of the chunk is ignored
ReadSizeFull(b) ==                \* faulty: only full chunks are read
    IF Len(b) < ChunkSize THEN 0 ELSE ChunkSize
ReadSize(b) == IF Len(b) < ChunkSize THEN Len(b) ELSE ChunkSize

(* Read, while it holds the lock. *)
ReadBuffer(s) ==
    /\ handler[s].pc = "select"
    /\ LET b == reader[s].buff
           n == ReadSize(b)
       IN /\ handler' = [handler EXCEPT ![s] = [pc |-> "check",
                                                got |-> SubSeq(b, 1, n),
                                                isEmpty |-> n < ChunkSize]]
          /\ reader' = [reader EXCEPT ![s].buff = SubSeq(b, n + 1, Len(b))]
    /\ UNCHANGED <<fileVars, events, tail, receiver, client>>

IsEOFWhenEmpty(s) == handler[s].isEmpty  \* faulty: isClosed is not looked at
IsEOF(s) == handler[s].isEmpty /\ reader[s].isClosed

(* Read, after it gave up the lock: an empty buffer is the end of the      *)
(* stream if it is closed by now.  Otherwise the handler sends the chunk.  *)
Continue(s) ==
    /\ handler[s].pc = "check"
    /\ handler[s].got = <<>>
    /\ handler' = [handler EXCEPT ![s].pc = IF IsEOF(s) THEN "eof" ELSE "select",
                                  ![s].isEmpty = FALSE]
    /\ UNCHANGED <<fileVars, events, tail, reader, receiver, client>>

Send(s) ==
    /\ handler[s].pc = "check"
    /\ handler[s].got # <<>>
    /\ client' = [client EXCEPT ![s].got = @ \o handler[s].got]
    /\ handler' = [handler EXCEPT ![s].pc = "select",
                                  ![s].got = <<>>, ![s].isEmpty = FALSE]
    /\ UNCHANGED <<fileVars, events, tail, reader, receiver>>

SendFails(s) ==
    /\ handler[s].pc = "check"
    /\ handler[s].got # <<>>
    /\ client[s].cancelled
    /\ handler' = [handler EXCEPT ![s].pc = "aborted"]
    /\ UNCHANGED <<fileVars, events, tail, reader, receiver, client>>

----------------------------------------------------------------------------
TailStep(s) == \/ Open(s) \/ StillAbsent(s) \/ FoundAfterAll(s) \/ Appears(s)
               \/ Orphaned(s) \/ StopAwaiting(s)
               \/ ReadLine(s) \/ SendLine(s) \/ StartWatcher(s) \/ StopAtEOF(s)

HandlerStep(s) == \/ ContextDone(s) \/ Closed(s) \/ ReadBuffer(s)
                  \/ Continue(s) \/ Send(s) \/ SendFails(s)

Next == \/ CreateFile \/ Write
        \/ \E s \in Streams :
             \/ Ask(s) \/ Cancel(s)
             \/ TailStep(s) \/ TakeEvent(s) \/ StopWatcher(s)
             \/ TailFails(s) \/ StatFails(s)
             \/ WriteToBuffer(s) \/ LinesClosed(s)
             \/ StartStream(s)
             \/ Receive(s) \/ ReceiveFails(s)
             \/ TakeRequest(s) \/ HandlerStep(s)

Spec == Init /\ [][Next]_vars

(***************************************************************************)
(* Goroutines are scheduled and the client takes what is sent to it.  A    *)
(* select chooses at random, so a request that is offered again and again  *)
(* is taken although a tick is ready each time.  Nobody owes a write.      *)
(***************************************************************************)
FairSpec ==
    /\ Spec
    /\ WF_vars(\E s \in Streams : TakeEvent(s))
    /\ \A s \in Streams :
         /\ WF_vars(TailStep(s)) /\ WF_vars(StopWatcher(s))
         /\ WF_vars(WriteToBuffer(s)) /\ WF_vars(LinesClosed(s))
         /\ WF_vars(Receive(s)) /\ WF_vars(ReceiveFails(s))
         /\ SF_vars(TakeRequest(s)) /\ SF_vars(ContextDone(s))
         /\ WF_vars(HandlerStep(s))

----------------------------------------------------------------------------
(* Properties *)

UnitSeq == Seq(1..(MaxLines * LineSize))

TailState == [pc : {"open", "check", "await", "orphaned",
                    "read", "send", "watch", "wait", "done"},
              pos : 0..(MaxLines * LineSize),
              line : UnitSeq,
              watch : {"none", "on", "closed", "off"},
              dying : BOOLEAN,
              failed : BOOLEAN]
ReaderState == [pc : {"recv", "write", "done"},
                line : UnitSeq,
                buff : UnitSeq,
                isClosed : BOOLEAN]
HandlerState == [pc : {"init", "select", "closing", "check", "eof", "aborted"},
                 got : UnitSeq,
                 isEmpty : BOOLEAN]
ClientState == [asked : Seq(Actions),
                due : 0..(MaxLines * LineSize),
                cancelled : BOOLEAN,
                got : UnitSeq]

(* Every variable holds the kind of value the code keeps there, and no     *)
(* chunk is larger than the buffer of the handler.                         *)
TypeOK ==
    /\ exists \in BOOLEAN
    /\ written \in 0..(MaxLines * LineSize)
    /\ events \in Nat
    /\ tail \in [Streams -> TailState]
    /\ reader \in [Streams -> ReaderState]
    /\ handler \in [Streams -> HandlerState]
    /\ receiver \in [Streams -> {"recv", "send", "done"}]
    /\ client \in [Streams -> ClientState]
    /\ \A s \in Streams : /\ Len(client[s].asked) <= MaxRequests
                          /\ Len(handler[s].got) <= ChunkSize

InFlight(s) == handler[s].got \o reader[s].buff \o reader[s].line \o tail[s].line

(* What the client got, followed by what is on its way to it, is the       *)
(* beginning of the file: nothing is repeated, reordered, cut or skipped,  *)
(* wherever a read met the end of the file or a chunk the end of a line.   *)
StreamIsPrefix ==
    \A s \in Streams : client[s].got \o InFlight(s) = Units(0, tail[s].pos)

(* As long as its tail does not fail, a stream ends with EOF only when its *)
(* client asked to close it.                                               *)
EofOnlyAfterClose ==
    \A s \in Streams : handler[s].pc = "eof" /\ ~tail[s].failed =>
      client[s].asked # <<>> /\ Head(client[s].asked) = Close

(* Unless the tail fails, the check of isClosed after the unlock costs a   *)
(* client the last line at most: the rest of what was read from the file   *)
(* was sent before EOF.                                                    *)
AtMostLastLineLost ==
    \A s \in Streams :
      handler[s].pc = "eof" /\ ~tail[s].failed => Len(InFlight(s)) <= LineSize

(* Before a stream ends with EOF its tail reads the lines that the file    *)
(* held when the client asked to read to the end and close.  It is not     *)
(* claimed of streams that share a file.                                   *)
ReadToTheEnd ==
    \A s \in Streams : handler[s].pc = "eof" => tail[s].pos >= client[s].due

IsDisturbed(s) == \/ client[s].cancelled \/ client[s].asked # <<>>
                  \/ tail[s].dying \/ HasEnded(s)

(* The tail has not met the end of the file yet.                           *)
IsCatchingUp(s) == Running(s) /\ tail[s].watch = "none" /\ tail[s].pc # "watch"

(* The lines that are in the file before the tail first meets its end      *)
(* reach a client that just waits, unless the tail fails: before that the  *)
(* tail depends on no event.                                               *)
EarlyLinesArrive ==
    \A s \in Streams, n \in 1..MaxLines :
      (IsCatchingUp(s) /\ written >= n * LineSize)
        ~> (Len(client[s].got) >= n * LineSize \/ IsDisturbed(s))

(* A client that asks to close is not kept waiting for ever.               *)
CloseEndsStream ==
    \A s \in Streams :
      (client[s].asked # <<>> /\ Head(client[s].asked) = Close) ~> HasEnded(s)
=============================================================================
