-------------------------- MODULE TailStreamProofs --------------------------
(***************************************************************************)
(* A stream of TailFile hands its client the beginning of the file, and    *)
(* ends as its client asked: TailStream satisfies TypeOK, StreamIsPrefix,  *)
(* EofOnlyAfterClose and AtMostLastLineLost for all streams, files, chunks *)
(* and requests.                                                           *)
(***************************************************************************)
EXTENDS TailStream, SequenceTheorems, TLAPS

(***************************************************************************)
(* The units on their way to the client stand in five places, one after    *)
(* the other.  Each place holds the units that follow those of the place   *)
(* before it, and the tail stands behind the last of them.                 *)
(***************************************************************************)
IsRun(x, from) == \A i \in 1..Len(x) : x[i] = from + i

Sent(s) == Len(client[s].got)
Chunked(s) == Sent(s) + Len(handler[s].got)
Buffered(s) == Chunked(s) + Len(reader[s].buff)
Received(s) == Buffered(s) + Len(reader[s].line)

InOrder(s) ==
    /\ IsRun(client[s].got, 0)
    /\ IsRun(handler[s].got, Sent(s))
    /\ IsRun(reader[s].buff, Chunked(s))
    /\ IsRun(reader[s].line, Buffered(s))
    /\ IsRun(tail[s].line, Received(s))
    /\ tail[s].pos = Received(s) + Len(tail[s].line)

(* The tail stands at the end of a line that was written; a goroutine that *)
(* does not hold a line or a chunk has none.                               *)
Staged(s) ==
    /\ tail[s].pos % LineSize = 0 /\ tail[s].pos <= written
    /\ Len(tail[s].line) = IF tail[s].pc = "send" THEN LineSize ELSE 0
    /\ Len(reader[s].line) = IF reader[s].pc = "write" THEN LineSize ELSE 0
    /\ handler[s].pc \notin {"check", "aborted"} => handler[s].got = <<>>

(* Unless the tail fails it is told to stop by the request of the client   *)
(* alone, and the handler then waits until it has stopped.                 *)
StoppedByClient(s) ==
    /\ receiver[s] = "send" => client[s].asked # <<>>
    /\ tail[s].dying => /\ client[s].asked # <<>> /\ IsClose(Head(client[s].asked))
                        /\ handler[s].pc = "closing" \/ tail[s].pc = "done"
    /\ tail[s].pc = "done" => tail[s].dying
    /\ reader[s].isClosed => reader[s].pc = "done"
    /\ reader[s].pc = "done" => tail[s].pc = "done"

(* What a handler that found the buffer empty can miss is the one line that *)
(* was on its way to the buffer.                                            *)
LineMissed(s) ==
    /\ handler[s].pc = "check" /\ handler[s].got = <<>> /\ tail[s].pc = "done" =>
         Len(reader[s].buff) + Len(reader[s].line) <= LineSize
    /\ handler[s].pc = "eof" => /\ reader[s].pc = "done" 
                                /\ Len(reader[s].buff) <= LineSize

StreamInv(s) == /\ InOrder(s) /\ Staged(s)
                /\ ~tail[s].failed => StoppedByClient(s) /\ LineMissed(s)

NoFileNoLines == ~exists => written = 0

TailInv == TypeOK /\ NoFileNoLines /\ \A s \in Streams : StreamInv(s)

----------------------------------------------------------------------------
(* Runs of units *)

Limit == MaxLines * LineSize

LEMMA LimitType ==
    /\ Limit \in Nat
    /\ InitialLines * LineSize \in 0..Limit /\ (InitialLines * LineSize) % LineSize = 0
    /\ UnitSeq = Seq(1..Limit)
  BY ConstantsAssumption DEF Limit, LineSize, UnitSeq

LEMMA LineEnds ==
    ASSUME NEW n \in Nat, n % LineSize = 0
    PROVE  LineEnd(n) = n + LineSize /\ LineEnd(n) % LineSize = 0 /\ WholeLines(n) = n
  BY DEF LineEnd, WholeLines, LineSize

LEMMA PartOfLine ==
    ASSUME NEW m \in Nat, NEW n \in Nat, m + n <= LineSize
    PROVE  m <= LineSize
  BY DEF LineSize

LEMMA EmptyRun ==
    ASSUME NEW S, NEW x \in Seq(S)
    PROVE  /\ x = <<>> <=> Len(x) = 0
           /\ Len(x) = 0 => \A n : IsRun(x, n)
  BY DEF IsRun

LEMMA ConcatRun ==
    ASSUME NEW S, NEW x \in Seq(S), NEW y \in Seq(S), NEW n \in Nat,
           IsRun(x, n), IsRun(y, n + Len(x))
    PROVE  /\ x \o y \in Seq(S) /\ Len(x \o y) = Len(x) + Len(y)
           /\ IsRun(x \o y, n)
<1>1. /\ x \o y \in Seq(S) /\ Len(x \o y) = Len(x) + Len(y)
      /\ Len(x) \in Nat /\ Len(y) \in Nat
  OBVIOUS
<1>2. ASSUME NEW i \in 1..Len(x) + Len(y) PROVE (x \o y)[i] = n + i
  <2>1. CASE i <= Len(x)
    BY <2>1 DEF IsRun
  <2>2. CASE i > Len(x)
    <3>1. (x \o y)[i] = y[i - Len(x)] /\ i - Len(x) \in 1..Len(y)
      BY <1>1, <2>2
    <3>2. QED
      BY <1>1, <3>1 DEF IsRun
  <2>3. QED
    BY <1>1, <2>1, <2>2
<1>3. QED
  BY <1>1, <1>2 DEF IsRun

LEMMA SplitRun ==
    ASSUME NEW S, NEW x \in Seq(S), NEW k \in 0..Len(x), NEW n \in Nat, IsRun(x, n)
    PROVE  /\ SubSeq(x, 1, k) \in Seq(S) /\ Len(SubSeq(x, 1, k)) = k
           /\ IsRun(SubSeq(x, 1, k), n)
           /\ SubSeq(x, k + 1, Len(x)) \in Seq(S)
           /\ Len(SubSeq(x, k + 1, Len(x))) = Len(x) - k
           /\ IsRun(SubSeq(x, k + 1, Len(x)), n + k)
<1>1. Len(x) \in Nat /\ DOMAIN x = 1..Len(x) /\ \A i \in 1..Len(x) : x[i] \in S
  OBVIOUS
<1>2. /\ SubSeq(x, 1, k) \in Seq(S) /\ Len(SubSeq(x, 1, k)) = k
      /\ \A i \in 1..k : SubSeq(x, 1, k)[i] = x[i]
  BY <1>1
<1>3. /\ SubSeq(x, k + 1, Len(x)) \in Seq(S) /\ Len(SubSeq(x, k + 1, Len(x))) = Len(x) - k
      /\ \A i \in 1..Len(x) - k : SubSeq(x, k + 1, Len(x))[i] = x[k + i]
  <2>1. \A i \in (k + 1)..Len(x) : i \in 1..Len(x)
    BY <1>1
  <2> DEFINE rest == SubSeq(x, k + 1, Len(x))
  <2>2. /\ rest \in Seq(S)
        /\ Len(rest) = IF k + 1 <= Len(x) THEN Len(x) - (k + 1) + 1 ELSE 0
        /\ \A i \in 1..Len(x) - (k + 1) + 1 : rest[i] = x[(k + 1) + i - 1]
    BY <1>1, <2>1, SubSeqProperties
  <2> HIDE DEF rest
  <2>3. Len(x) \in Nat /\ k \in Nat /\ k <= Len(x)
    BY <1>1
  <2>4. Len(x) - (k + 1) + 1 = Len(x) - k
    BY <2>3
  <2>5. Len(rest) = Len(x) - k
    <3>1. CASE k + 1 <= Len(x)
      BY <2>2, <2>4, <3>1
    <3>2. CASE ~(k + 1 <= Len(x))
      <4>1. Len(x) - k = 0
        BY <2>3, <3>2
      <4>2. QED
        BY <2>2, <3>2, <4>1, Zenon
    <3>3. QED
      BY <3>1, <3>2
  <2>6. ASSUME NEW i \in 1..Len(x) - k PROVE rest[i] = x[k + i]
    <3>1. (k + 1) + i - 1 = k + i
      BY <2>3
    <3>2. i \in 1..Len(x) - (k + 1) + 1
      BY <2>4
    <3>3. rest[i] = x[(k + 1) + i - 1]
      BY <2>2, <3>2
    <3>4. QED
      BY <3>1, <3>3, Zenon
  <2>7. QED
    BY <2>2, <2>5, <2>6 DEF rest
<1>4. IsRun(SubSeq(x, 1, k), n)
  BY <1>1, <1>2 DEF IsRun
<1>5. ASSUME NEW i \in 1..Len(x) - k PROVE SubSeq(x, k + 1, Len(x))[i] = (n + k) + i
  <2>1. k + i \in 1..Len(x)
    BY <1>1
  <2>2. QED
    BY <1>3, <2>1 DEF IsRun
<1>6. QED
  BY <1>2, <1>3, <1>4, <1>5 DEF IsRun

LEMMA UnitsRun ==
    ASSUME NEW from \in Nat, NEW to \in from..Limit
    PROVE  /\ Units(from, to) \in UnitSeq /\ Len(Units(from, to)) = to - from
           /\ IsRun(Units(from, to), from)
<1>1. to - from \in Nat /\ \A i \in 1..to - from : from + i \in 1..Limit
  BY LimitType
<1>2. Units(from, to) \in Seq(1..Limit)
  BY <1>1 DEF Units
<1>3. Len(Units(from, to)) = to - from
  BY <1>1 DEF Units
<1>4. QED
  BY <1>1, <1>2, <1>3, LimitType DEF Units, IsRun

(* A run is known from where it starts and how long it is. *)
LEMMA RunIsUnits ==
    ASSUME NEW S, NEW x \in Seq(S), IsRun(x, 0)
    PROVE  x = Units(0, Len(x))
<1>1. /\ Len(x) \in Nat /\ DOMAIN x = 1..Len(x)
      /\ x = [i \in 1..Len(x) |-> x[i]]
  OBVIOUS
<1>2. \A i \in 1..Len(x) : x[i] = 0 + i
  BY DEF IsRun
<1>3. Len(x) - 0 = Len(x)
  BY <1>1
<1>4. [i \in 1..Len(x) |-> x[i]] = [i \in 1..Len(x) |-> 0 + i]
  BY <1>2
<1>5. QED
  BY <1>1, <1>3, <1>4 DEF Units

----------------------------------------------------------------------------
(* The parts of a stream *)

LEMMA Parts ==
    ASSUME TypeOK, NEW s \in Streams
    PROVE  /\ tail[s] \in TailState /\ reader[s] \in ReaderState
           /\ handler[s] \in HandlerState /\ client[s] \in ClientState
           /\ written \in Nat /\ written <= Limit
           /\ tail[s].line \in Seq(1..Limit) /\ reader[s].line \in Seq(1..Limit)
           /\ reader[s].buff \in Seq(1..Limit) /\ handler[s].got \in Seq(1..Limit)
           /\ client[s].got \in Seq(1..Limit) /\ client[s].asked \in Seq(Actions)
           /\ tail[s].pos \in Nat
  BY LimitType DEF TypeOK, Limit, TailState, ReaderState, HandlerState, ClientState

LEMMA Lengths ==
    ASSUME TypeOK, NEW s \in Streams
    PROVE  /\ Sent(s) \in Nat /\ Chunked(s) \in Nat /\ Buffered(s) \in Nat
           /\ Received(s) \in Nat
           /\ Len(reader[s].line) \in Nat /\ Len(tail[s].line) \in Nat
           /\ Len(reader[s].buff) \in Nat /\ Len(handler[s].got) \in Nat
<1>1. /\ Len(reader[s].line) \in Nat /\ Len(tail[s].line) \in Nat
      /\ Len(reader[s].buff) \in Nat /\ Len(handler[s].got) \in Nat
      /\ Len(client[s].got) \in Nat
  BY Parts
<1>2. Sent(s) \in Nat
  BY <1>1 DEF Sent
<1>3. Chunked(s) \in Nat
  BY <1>1, <1>2 DEF Chunked
<1>4. Buffered(s) \in Nat
  BY <1>1, <1>3 DEF Buffered
<1>5. Received(s) \in Nat
  BY <1>1, <1>4 DEF Received
<1>6. QED
  BY <1>1, <1>2, <1>3, <1>4, <1>5

----------------------------------------------------------------------------
(* What does not touch a stream but for the state of its watcher, or of    *)
(* its wait for the file                                                   *)

SameTail(s) == /\ \/ tail'[s].pc = tail[s].pc
                  \/ tail[s].pc = "await" /\ tail'[s].pc = "orphaned"
               /\ tail'[s].pos = tail[s].pos /\ tail'[s].line = tail[s].line
               /\ tail'[s].dying = tail[s].dying /\ tail'[s].failed = tail[s].failed

SameStream(s) == /\ SameTail(s)
                 /\ reader'[s] = reader[s] /\ handler'[s] = handler[s]
                 /\ receiver'[s] = receiver[s] /\ client'[s] = client[s]

(* The units stand where they stood: a step that moves none of them.       *)
SameUnits(s) == /\ tail'[s].pos = tail[s].pos /\ tail'[s].line = tail[s].line
                /\ reader'[s].line = reader[s].line /\ reader'[s].buff = reader[s].buff
                /\ handler'[s].got = handler[s].got /\ client'[s].got = client[s].got

LEMMA UnitsKept ==
    ASSUME NEW s \in Streams, InOrder(s), SameUnits(s)
    PROVE  InOrder(s)'
<1>1. /\ Sent(s)' = Sent(s) /\ Chunked(s)' = Chunked(s)
      /\ Buffered(s)' = Buffered(s) /\ Received(s)' = Received(s)
  BY DEF SameUnits, Sent, Chunked, Buffered, Received
<1>2. QED
  BY <1>1 DEF InOrder, SameUnits

LEMMA UntouchedStream ==
    ASSUME TypeOK, TypeOK', written <= written', NEW s \in Streams, StreamInv(s), SameStream(s)
    PROVE  StreamInv(s)'
<1>1. tail[s].pos \in Nat /\ written \in Nat /\ written' \in Nat
  BY Parts DEF TypeOK
<1>2. InOrder(s)'
  BY UnitsKept DEF SameStream, SameTail, SameUnits, StreamInv
<1>3. Staged(s)'
  BY <1>1 DEF Staged, StreamInv, SameStream, SameTail
<1>4. ~tail'[s].failed => StoppedByClient(s)' /\ LineMissed(s)'
  BY DEF StreamInv, StoppedByClient, LineMissed, SameStream, SameTail
<1>5. QED
  BY <1>2, <1>3, <1>4 DEF StreamInv

LEMMA OneStream ==
    ASSUME TailInv, TypeOK', NoFileNoLines', written <= written',
           NEW s \in Streams, StreamInv(s)', \A t \in Streams : t # s => SameStream(t)
    PROVE  TailInv'
  BY UntouchedStream DEF TailInv

(* Of the tails only this one may change, but for those that it tells that *)
(* it left their channel.                                                  *)
TailMoves(s) == /\ tail' \in [Streams -> TailState]
                /\ \A u \in Streams : u # s => SameTail(u)

LEMMA OneTailMoves ==
    ASSUME TypeOK, NEW s \in Streams, tail' = [tail EXCEPT ![s] = tail'[s]],
           tail'[s] \in TailState
    PROVE  TailMoves(s)
<1>1. tail' \in [Streams -> TailState] /\ \A u \in Streams : u # s => tail'[u] = tail[u]
  BY DEF TypeOK
<1>2. QED
  BY <1>1 DEF TailMoves, SameTail

LEMMA ChannelIsLeft ==
    ASSUME TypeOK, NEW s \in Streams, NEW u \in TailState, NEW n \in Nat,
           LeaveChannel(s, u, n)
    PROVE  tail'[s] = u /\ TailMoves(s) /\ events' \in Nat
<1>1. PICK deaf \in SUBSET Streams :
        tail' = [t \in Streams |-> IF t = s THEN u
                                  ELSE IF t \in deaf THEN tail[t] ELSE Told(tail[t])]
  BY DEF LeaveChannel
<1>2. \A t \in Streams : tail[t] \in TailState
  BY DEF TypeOK
<1>3. \A t \in Streams :
        /\ Told(tail[t]) \in TailState
        /\ Told(tail[t]).pc = tail[t].pc \/ (tail[t].pc = "await" /\ Told(tail[t]).pc = "orphaned")
        /\ Told(tail[t]).pos = tail[t].pos /\ Told(tail[t]).line = tail[t].line
        /\ Told(tail[t]).dying = tail[t].dying /\ Told(tail[t]).failed = tail[t].failed
  BY <1>2 DEF Told, TailState
<1>4. tail' \in [Streams -> TailState]
  BY <1>1, <1>2, <1>3
<1>5. \A t \in Streams : t # s => SameTail(t)
  BY <1>1, <1>3 DEF SameTail
<1>6. QED
  BY <1>1, <1>4, <1>5 DEF LeaveChannel, TailMoves

(* The file is as it was, and of the streams only this one may change.     *)
Moves(s) ==
    /\ UNCHANGED fileVars /\ events' \in Nat
    /\ \/ UNCHANGED tail
       \/ TailMoves(s)
    /\ \/ UNCHANGED reader
       \/ reader' = [reader EXCEPT ![s] = reader'[s]] /\ reader'[s] \in ReaderState
    /\ \/ UNCHANGED handler
       \/ /\ handler' = [handler EXCEPT ![s] = handler'[s]] /\ handler'[s] \in HandlerState
          /\ Len(handler'[s].got) <= ChunkSize
    /\ \/ UNCHANGED receiver
       \/ \E pc \in {"recv", "send", "done"} : receiver' = [receiver EXCEPT ![s] = pc]
    /\ \/ UNCHANGED client
       \/ /\ client' = [client EXCEPT ![s] = client'[s]] /\ client'[s] \in ClientState
          /\ Len(client'[s].asked) <= MaxRequests

LEMMA StreamMoves ==
    ASSUME TailInv, NEW s \in Streams, Moves(s), StreamInv(s)'
    PROVE  TailInv'
<1>1. /\ exists' = exists /\ written' = written /\ events' \in Nat
      /\ written \in Nat /\ written <= written'
  <2>1. exists' = exists /\ written' = written
    BY DEF Moves, fileVars
  <2>2. written \in Nat
    BY Parts DEF TailInv
  <2>3. QED
    BY <2>1, <2>2 DEF Moves
<1>2. \A u \in Streams : u # s => SameStream(u)
  <2>1. \A u \in Streams : u # s => SameTail(u) /\ reader'[u] = reader[u]
    BY DEF Moves, TailMoves, SameTail, TailInv, TypeOK
  <2>2. \A u \in Streams : u # s => handler'[u] = handler[u] /\ client'[u] = client[u]
    BY DEF Moves, TailInv, TypeOK
  <2>3. \A u \in Streams : u # s => receiver'[u] = receiver[u]
    BY DEF Moves, TailInv, TypeOK
  <2>4. QED
    BY <2>1, <2>2, <2>3 DEF SameStream
<1>3. tail' \in [Streams -> TailState] /\ reader' \in [Streams -> ReaderState]
  BY DEF Moves, TailMoves, TailInv, TypeOK
<1>4. handler' \in [Streams -> HandlerState] /\ client' \in [Streams -> ClientState]
  BY DEF Moves, TailInv, TypeOK
<1>5. receiver' \in [Streams -> {"recv", "send", "done"}]
  BY DEF Moves, TailInv, TypeOK
<1>6. \A u \in Streams : Len(client'[u].asked) <= MaxRequests /\ Len(handler'[u].got) <= ChunkSize
  BY DEF Moves, TailInv, TypeOK
<1>7. TypeOK'
  BY <1>1, <1>3, <1>4, <1>5, <1>6 DEF TailInv, TypeOK
<1>8. NoFileNoLines'
  BY <1>1 DEF TailInv, NoFileNoLines
<1>9. QED
  BY <1>1, <1>2, <1>7, <1>8, OneStream

----------------------------------------------------------------------------
(* The tail *)

LEMMA AllUntouched ==
    ASSUME TailInv, TypeOK', NoFileNoLines', written <= written',
           \A s \in Streams : SameStream(s)
    PROVE  TailInv'
  BY UntouchedStream DEF TailInv

LEMMA FileTailInv ==
    ASSUME TailInv, CreateFile \/ Write \/ UNCHANGED vars
    PROVE  TailInv'
<1>1. UNCHANGED <<tail, reader, handler, receiver, client>>
  BY DEF CreateFile, Write, vars
<1>2. /\ exists \in BOOLEAN /\ events \in Nat
      /\ written \in 0..(MaxLines * LineSize) /\ MaxLines * LineSize \in Nat
  BY LimitType DEF TailInv, TypeOK, Limit
<1>3. exists' \in BOOLEAN /\ events' \in Nat
  <2>1. exists' \in BOOLEAN
    BY <1>2 DEF CreateFile, Write, vars
  <2>2. CASE Notify
    <3>1. events' \in {events, events + 1} \cup events..(events + 2)
      BY <1>2, <2>2 DEF Notify
    <3>2. events' \in Nat
      BY <1>2, <3>1
    <3>3. QED
      BY <2>1, <3>2
  <2>3. QED
    BY <1>2, <2>1, <2>2 DEF CreateFile, Write, vars
<1>4. written' \in 0..(MaxLines * LineSize) /\ written <= written'
  <2>1. CASE Write
    BY <1>2, <2>1 DEF Write
  <2>2. CASE CreateFile
    <3>1. written = 0 /\ written' = InitialLines * LineSize
      BY <2>2 DEF CreateFile, TailInv, NoFileNoLines
    <3>2. QED
      BY <3>1, LimitType DEF Limit
  <2>3. CASE written' = written
    BY <1>2, <2>3
  <2>4. QED
    BY <2>1, <2>2, <2>3 DEF vars
<1>5. TypeOK'
  BY <1>1, <1>3, <1>4 DEF TailInv, TypeOK
<1>6. NoFileNoLines'
  BY DEF CreateFile, Write, vars, TailInv, NoFileNoLines
<1>7. QED
  BY <1>1, <1>4, <1>5, <1>6, AllUntouched DEF SameStream, SameTail

LEMMA StopWatcherTailInv ==
    ASSUME TailInv, NEW s \in Streams, StopWatcher(s)
    PROVE  TailInv'
<1> DEFINE u == [tail[s] EXCEPT !.watch = "off"]
<1>1. /\ TypeOK /\ events \in Nat /\ tail[s] \in TailState
      /\ UNCHANGED <<exists, written, reader, handler, receiver, client>>
  BY DEF StopWatcher, TailInv, TypeOK, fileVars
<1>2. /\ u \in TailState /\ u.pc = tail[s].pc /\ u.pos = tail[s].pos /\ u.line = tail[s].line
      /\ u.dying = tail[s].dying /\ u.failed = tail[s].failed
  BY <1>1 DEF TailState
<1>3. LeaveChannel(s, u, events)
  BY DEF StopWatcher
<1> HIDE DEF u
<1>4. tail'[s] = u /\ TailMoves(s) /\ events' \in Nat
  BY <1>1, <1>2, <1>3, ChannelIsLeft
<1>5. \A t \in Streams : SameTail(t)
  BY <1>2, <1>4 DEF TailMoves, SameTail
<1>6. TypeOK' /\ NoFileNoLines' /\ written <= written'
  BY <1>1, <1>4 DEF TailInv, TypeOK, TailMoves, NoFileNoLines
<1>7. QED
  BY <1>1, <1>5, <1>6, AllUntouched DEF SameStream

(* The tail does something else than to take a line or to send it. *)
TailTurns(s) ==
    /\ UNCHANGED <<fileVars, reader, handler, receiver, client>> /\ events' \in Nat
    /\ TailMoves(s)
    /\ tail[s].pc \notin {"send", "done"} /\ tail'[s].pc # "send"
    /\ tail'[s].pos = tail[s].pos /\ tail'[s].line = tail[s].line
    /\ ~tail'[s].failed => /\ ~tail[s].failed /\ tail'[s].dying = tail[s].dying
                           /\ tail'[s].pc = "done" => tail[s].dying

LEMMA TailGoes ==
    ASSUME TailInv, NEW s \in Streams, TailTurns(s)
    PROVE  TailInv'
<1>1. StreamInv(s) /\ TypeOK
  BY DEF TailInv
<1>2. UNCHANGED <<exists, written, reader, handler, receiver, client>>
  BY DEF TailTurns, fileVars
<1>3. InOrder(s)'
  BY <1>1, <1>2, UnitsKept DEF StreamInv, SameUnits, TailTurns
<1>4. Staged(s)'
  BY <1>1, <1>2 DEF StreamInv, Staged, TailTurns
<1>5. ASSUME ~tail'[s].failed PROVE StoppedByClient(s)' /\ LineMissed(s)'
  BY <1>1, <1>2, <1>5 DEF StreamInv, StoppedByClient, LineMissed, TailTurns
<1>6. Moves(s)
  BY DEF Moves, TailTurns
<1>7. QED
  BY <1>3, <1>4, <1>5, <1>6, StreamMoves DEF StreamInv

(* A line is taken from the file. *)
LEMMA ReadLineTailInv ==
    ASSUME TailInv, NEW s \in Streams, ReadLine(s), written >= LineEnd(tail[s].pos)
    PROVE  TailInv'
<1> DEFINE pos == tail[s].pos
           t == [tail[s] EXCEPT !.pc = "send", !.line = Units(pos, LineEnd(pos)),
                                !.pos = LineEnd(pos)]
<1>1. /\ tail[s] \in TailState /\ StreamInv(s) /\ TypeOK /\ tail[s].pc = "read"
      /\ pos \in Nat /\ written \in Nat /\ written <= Limit
  BY Parts DEF TailInv, ReadLine
<1>2. LineEnd(pos) = pos + LineSize /\ LineEnd(pos) % LineSize = 0 /\ LineSize = 2
  BY <1>1, LineEnds DEF StreamInv, Staged, LineSize
<1>3. LineEnd(pos) \in pos..Limit
  BY <1>1, <1>2, LimitType
<1>4. /\ Units(pos, LineEnd(pos)) \in UnitSeq /\ Len(Units(pos, LineEnd(pos))) = LineSize
      /\ IsRun(Units(pos, LineEnd(pos)), pos)
  <2>1. /\ Units(pos, LineEnd(pos)) \in UnitSeq
        /\ Len(Units(pos, LineEnd(pos))) = LineEnd(pos) - pos
        /\ IsRun(Units(pos, LineEnd(pos)), pos)
    BY <1>1, <1>3, UnitsRun
  <2>2. LineEnd(pos) - pos = LineSize
    BY <1>1, <1>2
  <2>3. QED
    BY <2>1, <2>2, Zenon
<1>5. LineEnd(pos) \in 0..(MaxLines * LineSize)
  BY <1>1, <1>3, LimitType DEF Limit
<1>6. /\ t \in TailState /\ t.pc = "send" /\ t.pos = LineEnd(pos)
      /\ t.line = Units(pos, LineEnd(pos)) /\ t.dying = tail[s].dying
      /\ t.failed = tail[s].failed
  BY <1>1, <1>4, <1>5 DEF TailState
<1>7. /\ tail' = [tail EXCEPT ![s] = t]
      /\ UNCHANGED <<fileVars, events, reader, handler, receiver, client>>
  BY DEF ReadLine
<1> HIDE DEF t
<1>8. ASSUME tail'[s] = t PROVE StreamInv(s)'
  <2>1. /\ Sent(s)' = Sent(s) /\ Chunked(s)' = Chunked(s)
        /\ Buffered(s)' = Buffered(s) /\ Received(s)' = Received(s)
    BY <1>7 DEF Sent, Chunked, Buffered, Received
  <2>2. pos = Received(s) /\ Received(s) \in Nat
    BY <1>1, Lengths DEF StreamInv, InOrder, Staged
  <2>3. InOrder(s)'
    BY <1>1, <1>2, <1>4, <1>6, <1>7, <1>8, <2>1, <2>2 DEF StreamInv, InOrder
  <2>4. Staged(s)'
    BY <1>1, <1>2, <1>4, <1>6, <1>7, <1>8 DEF StreamInv, Staged, fileVars
  <2>5. ASSUME ~tail'[s].failed PROVE StoppedByClient(s)' /\ LineMissed(s)'
    BY <1>1, <1>6, <1>7, <1>8, <2>5 DEF StreamInv, StoppedByClient, LineMissed
  <2>6. QED
    BY <2>3, <2>4, <2>5 DEF StreamInv
<1>9. tail'[s] = t
  BY <1>1, <1>7 DEF TypeOK
<1>10. Moves(s)
  BY <1>1, <1>6, <1>7, <1>9, OneTailMoves DEF Moves, TypeOK
<1>11. QED
  BY <1>8, <1>9, <1>10, StreamMoves

(* The tail goes on, and keeps its line and its place.                     *)
Goes(u, v) == /\ v \in TailState /\ v.pos = u.pos /\ v.line = u.line
              /\ v.pc # "send"
              /\ ~v.failed => /\ ~u.failed /\ v.dying = u.dying
                              /\ v.pc = "done" => u.dying

LEMMA GoesOn ==
    ASSUME TailInv, NEW s \in Streams, NEW v, Goes(tail[s], v),
           tail[s].pc \notin {"send", "done"},
           \/ tail' = [tail EXCEPT ![s] = v] /\ events' \in Nat
           \/ \E n \in Nat : LeaveChannel(s, v, n),
           UNCHANGED <<fileVars, reader, handler, receiver, client>>
    PROVE  TailInv'
<1>1. TypeOK /\ v \in TailState
  BY DEF TailInv, Goes
<1>2. tail'[s] = v /\ TailMoves(s) /\ events' \in Nat
  <2>1. CASE tail' = [tail EXCEPT ![s] = v] /\ events' \in Nat
    <3>1. tail'[s] = v
      BY <1>1, <2>1 DEF TypeOK
    <3>2. QED
      BY <1>1, <2>1, <3>1, OneTailMoves
  <2>2. CASE \E n \in Nat : LeaveChannel(s, v, n)
    BY <1>1, <2>2, ChannelIsLeft
  <2>3. QED
    BY <2>1, <2>2
<1>3. TailTurns(s)
  BY <1>2, Zenon DEF TailTurns, Goes
<1>4. QED
  BY <1>3, TailGoes

LEMMA TailStepInv ==
    ASSUME TailInv, NEW s \in Streams,
           \/ Open(s) \/ StillAbsent(s) \/ FoundAfterAll(s) \/ Appears(s) \/ Orphaned(s)
           \/ StopAwaiting(s) \/ ReadLine(s) \/ StartWatcher(s) \/ StopAtEOF(s)
           \/ TakeEvent(s) \/ TailFails(s) \/ StatFails(s)
    PROVE  TailInv'
<1>1. /\ TypeOK /\ tail[s] \in TailState /\ events \in Nat
      /\ tail \in [Streams -> TailState]
  BY DEF TailInv, TypeOK
<1>2. ASSUME NEW pc \in {"open", "check", "await", "read", "watch", "wait"}
      PROVE  /\ Goes(tail[s], [tail[s] EXCEPT !.pc = pc])
             /\ Goes(tail[s], [tail[s] EXCEPT !.pc = pc, !.watch = "on"])
  BY <1>1 DEF Goes, TailState
<1>3. Goes(tail[s], Failed(s))
  BY <1>1 DEF Goes, Failed, TailState
<1>4. tail[s].dying => Goes(tail[s], [tail[s] EXCEPT !.pc = "done"])
  BY <1>1 DEF Goes, TailState
<1>5. CASE Open(s) \/ StillAbsent(s)
  <2>1. /\ UNCHANGED <<fileVars, events, reader, handler, receiver, client>>
        /\ tail[s].pc \notin {"send", "done"}
    BY <1>5 DEF Open, StillAbsent
  <2>2. PICK pc \in {"check", "await", "read"} :
          tail' = [tail EXCEPT ![s] = [tail[s] EXCEPT !.pc = pc]]
    BY <1>5 DEF Open, StillAbsent
  <2>3. QED
    BY <1>1, <1>2, <2>1, <2>2, GoesOn
<1>6. CASE FoundAfterAll(s) \/ Appears(s)
  <2>1. /\ UNCHANGED <<fileVars, reader, handler, receiver, client>>
        /\ tail[s].pc \notin {"send", "done"}
    BY <1>6 DEF FoundAfterAll, Appears
  <2>2. PICK n \in Nat : LeaveChannel(s, [tail[s] EXCEPT !.pc = "open"], n)
    <3>1. events > 0 => events - 1 \in Nat
      BY <1>1
    <3>2. QED
      BY <1>1, <1>6, <3>1 DEF FoundAfterAll, Appears
  <2>3. QED
    BY <1>2, <2>1, <2>2, GoesOn
<1>7. CASE Orphaned(s) \/ StatFails(s)
  <2>1. /\ UNCHANGED <<fileVars, reader, handler, receiver, client>>
        /\ tail[s].pc \notin {"send", "done"} /\ LeaveChannel(s, Failed(s), events)
    BY <1>7 DEF Orphaned, StatFails
  <2>2. QED
    BY <1>1, <1>3, <2>1, GoesOn
<1>8. CASE TailFails(s)
  <2>1. /\ UNCHANGED <<fileVars, events, reader, handler, receiver, client>>
        /\ tail[s].pc \notin {"send", "done"} /\ tail' = [tail EXCEPT ![s] = Failed(s)]
    BY <1>8 DEF TailFails
  <2>2. QED
    BY <1>1, <1>3, <2>1, GoesOn
<1>9. CASE StopAwaiting(s) \/ StopAtEOF(s)
  <2> DEFINE v == [tail[s] EXCEPT !.pc = "done"]
  <2>1. /\ UNCHANGED <<fileVars, reader, handler, receiver, client>>
        /\ tail[s].pc \notin {"send", "done"} /\ tail[s].dying
    BY <1>9 DEF StopAwaiting, StopAtEOF
  <2>2. \/ tail' = [tail EXCEPT ![s] = v] /\ events' = events
        \/ LeaveChannel(s, v, events)
    BY <1>9 DEF StopAwaiting, StopAtEOF
  <2>3. QED
    BY <1>1, <1>4, <2>1, <2>2, GoesOn
<1>10. CASE ReadLine(s)
  <2>1. CASE written >= LineEnd(tail[s].pos)
    BY <1>10, <2>1, ReadLineTailInv
  <2>2. CASE ~(written >= LineEnd(tail[s].pos))
    <3>1. PICK pc \in {"watch", "wait"} :
            tail' = [tail EXCEPT ![s].pc = pc, ![s].pos = tail[s].pos]
      BY <1>10, <2>2 DEF ReadLine, PutBack
    <3>2. tail' = [tail EXCEPT ![s] = [tail[s] EXCEPT !.pc = pc]]
      BY <1>1, <3>1 DEF TailState
    <3>3. /\ UNCHANGED <<fileVars, events, reader, handler, receiver, client>>
          /\ tail[s].pc \notin {"send", "done"}
      BY <1>10 DEF ReadLine
    <3>4. QED
      BY <1>1, <1>2, <3>2, <3>3, GoesOn
  <2>3. QED
    BY <2>1, <2>2
<1>11. CASE StartWatcher(s)
  <2>1. /\ UNCHANGED <<fileVars, events, reader, handler, receiver, client>>
        /\ tail[s].pc \notin {"send", "done"}
        /\ tail' = [tail EXCEPT ![s] = [tail[s] EXCEPT !.pc = "wait", !.watch = "on"]]
    BY <1>11 DEF StartWatcher
  <2>2. QED
    BY <1>1, <1>2, <2>1, GoesOn
<1>12. CASE TakeEvent(s)
  <2>1. events' \in Nat /\ UNCHANGED <<fileVars, reader, handler, receiver, client>>
    BY <1>1, <1>12 DEF TakeEvent
  <2>2. CASE tail[s].pc = "wait"
    <3>1. tail' = [tail EXCEPT ![s] = [tail[s] EXCEPT !.pc = "read"]]
      BY <1>12, <2>2 DEF TakeEvent
    <3>2. QED
      BY <1>2, <2>1, <2>2, <3>1, GoesOn
  <2>3. CASE tail[s].pc # "wait"
    <3>1. tail' = tail
      BY <1>1, <1>12, <2>3 DEF TakeEvent, TailState
    <3>2. TypeOK' /\ NoFileNoLines' /\ written <= written'
      BY <2>1, <3>1, Parts DEF TailInv, TypeOK, NoFileNoLines, fileVars
    <3>3. QED
      BY <2>1, <3>1, <3>2, AllUntouched DEF SameStream, SameTail
  <2>4. QED
    BY <2>2, <2>3
<1>13. QED
  BY <1>5, <1>6, <1>7, <1>8, <1>9, <1>10, <1>11, <1>12

----------------------------------------------------------------------------
(* readTail *)

LEMMA SendLineTailInv ==
    ASSUME TailInv, NEW s \in Streams, SendLine(s)
    PROVE  TailInv'
<1>1. /\ TypeOK /\ StreamInv(s) /\ tail[s] \in TailState /\ reader[s] \in ReaderState
      /\ tail[s].pc = "send" /\ reader[s].pc = "recv"
      /\ UNCHANGED <<fileVars, events, handler, receiver, client>>
  BY Parts DEF TailInv, SendLine
<1>2. /\ tail' = [tail EXCEPT ![s] = tail'[s]] /\ tail'[s] \in TailState
      /\ tail'[s].pc = "read" /\ tail'[s].line = <<>> /\ tail'[s].pos = tail[s].pos
      /\ tail'[s].dying = tail[s].dying /\ tail'[s].failed = tail[s].failed
  <2>1. tail'[s] = [tail[s] EXCEPT !.pc = "read", !.line = <<>>]
    BY <1>1 DEF SendLine, TypeOK
  <2>2. tail' = [tail EXCEPT ![s] = tail'[s]]
    BY <1>1, <2>1 DEF SendLine, TypeOK
  <2>3. <<>> \in UnitSeq
    BY DEF UnitSeq
  <2>4. QED
    BY <1>1, <2>1, <2>2, <2>3 DEF TailState
<1>3. /\ reader' = [reader EXCEPT ![s] = reader'[s]] /\ reader'[s] \in ReaderState
      /\ reader'[s].pc = "write" /\ reader'[s].line = tail[s].line
      /\ reader'[s].buff = reader[s].buff /\ reader'[s].isClosed = reader[s].isClosed
  BY <1>1 DEF SendLine, TypeOK, TailState, ReaderState
<1>4. Moves(s)
  BY <1>1, <1>2, <1>3, OneTailMoves DEF Moves, TypeOK
<1>5. /\ Len(reader[s].line) = 0 /\ Len(tail[s].line) = LineSize /\ Len(tail'[s].line) = 0
      /\ LineSize = 2
  BY <1>1, <1>2 DEF StreamInv, Staged, LineSize
<1>6. InOrder(s)'
  <2>1. /\ Sent(s)' = Sent(s) /\ Chunked(s)' = Chunked(s) /\ Buffered(s)' = Buffered(s)
    BY <1>1, <1>3 DEF Sent, Chunked, Buffered
  <2>2. Buffered(s) \in Nat /\ Received(s) = Buffered(s)
    BY <1>1, <1>5, Lengths DEF Received
  <2>3. Received(s)' = Buffered(s) + LineSize
    BY <1>3, <1>5, <2>1 DEF Received
  <2>4. tail'[s].pos = Received(s)' + 0
    BY <1>1, <1>2, <1>5, <2>2, <2>3 DEF StreamInv, InOrder
  <2>5. IsRun(tail'[s].line, Received(s)')
    BY <1>5 DEF IsRun
  <2>6. QED
    BY <1>1, <1>3, <1>5, <2>1, <2>2, <2>4, <2>5 DEF StreamInv, InOrder
<1>7. Staged(s)'
  BY <1>1, <1>2, <1>3, <1>5 DEF StreamInv, Staged, fileVars
<1>8. ASSUME ~tail'[s].failed PROVE StoppedByClient(s)' /\ LineMissed(s)'
  BY <1>1, <1>2, <1>3, <1>8 DEF StreamInv, StoppedByClient, LineMissed
<1>9. QED
  BY <1>4, <1>6, <1>7, <1>8, StreamMoves DEF StreamInv

LEMMA WriteToBufferTailInv ==
    ASSUME TailInv, NEW s \in Streams, WriteToBuffer(s)
    PROVE  TailInv'
<1> DEFINE line == reader[s].line
           buff == reader[s].buff
<1>1. /\ TypeOK /\ StreamInv(s) /\ reader[s] \in ReaderState /\ reader[s].pc = "write"
      /\ UNCHANGED <<fileVars, events, tail, handler, receiver, client>>
      /\ line \in Seq(1..Limit) /\ buff \in Seq(1..Limit)
  BY Parts DEF TailInv, WriteToBuffer
<1>2. Len(line) \in Nat /\ Len(buff) \in Nat /\ Chunked(s) \in Nat /\ Buffered(s) \in Nat
  BY <1>1, Lengths
<1>3. Buffered(s) = Chunked(s) + Len(buff)
  BY DEF Buffered
<1>4. /\ buff \o line \in Seq(1..Limit) /\ Len(buff \o line) = Len(buff) + Len(line)
      /\ IsRun(buff \o line, Chunked(s))
  BY <1>1, <1>2, <1>3, ConcatRun DEF StreamInv, InOrder
<1>5. /\ reader' = [reader EXCEPT ![s] = reader'[s]]
      /\ reader'[s].pc = "recv" /\ reader'[s].line = <<>>
      /\ reader'[s].buff = buff \o line /\ reader'[s].isClosed = reader[s].isClosed
  BY <1>1 DEF WriteToBuffer, TypeOK, ReaderState
<1>6. reader'[s] \in ReaderState
  <2>1. <<>> \in UnitSeq /\ buff \o line \in UnitSeq
    BY <1>4, LimitType
  <2>2. reader'[s] = [reader[s] EXCEPT !.pc = "recv", !.buff = buff \o line, !.line = <<>>]
    BY <1>1 DEF WriteToBuffer, TypeOK
  <2>3. QED
    BY <1>1, <2>1, <2>2 DEF ReaderState
<1>7. Moves(s)
  BY <1>1, <1>5, <1>6 DEF Moves, TypeOK
<1>8. InOrder(s)'
  <2>1. Sent(s)' = Sent(s) /\ Chunked(s)' = Chunked(s)
    BY <1>1 DEF Sent, Chunked
  <2>2. PICK b \in Nat, n \in Nat, c \in Nat :
          b = Len(buff) /\ n = Len(line) /\ c = Chunked(s)
    BY <1>2
  <2>3. Len(reader'[s].buff) = b + n /\ Len(reader'[s].line) = 0
    BY <1>4, <1>5, <2>2
  <2>4. Buffered(s)' = c + (b + n)
    BY <2>1, <2>2, <2>3 DEF Buffered
  <2>5. Received(s)' = (c + (b + n)) + 0
    BY <2>3, <2>4 DEF Received
  <2>6. Received(s) = (c + b) + n
    BY <2>2 DEF Received, Buffered
  <2>7. Received(s)' = Received(s)
    BY <2>5, <2>6
  <2>8. IsRun(reader'[s].line, Buffered(s)')
    BY <1>5 DEF IsRun
  <2>9. QED
    BY <1>1, <1>4, <1>5, <2>1, <2>7, <2>8 DEF StreamInv, InOrder
<1>9. Staged(s)'
  BY <1>1, <1>5 DEF StreamInv, Staged, fileVars
<1>10. ASSUME ~tail'[s].failed PROVE StoppedByClient(s)' /\ LineMissed(s)'
  <2>1. StoppedByClient(s)'
    BY <1>1, <1>5, <1>10 DEF StreamInv, StoppedByClient
  <2>2. LineMissed(s)'
    <3>1. Len(reader'[s].buff) + Len(reader'[s].line) = Len(buff) + Len(line)
      BY <1>2, <1>4, <1>5
    <3>2. handler[s].pc # "eof"
      BY <1>1, <1>10 DEF StreamInv, LineMissed
    <3>3. QED
      BY <1>1, <1>10, <3>1, <3>2 DEF StreamInv, LineMissed
  <2>3. QED
    BY <2>1, <2>2
<1>11. QED
  BY <1>7, <1>8, <1>9, <1>10, StreamMoves DEF StreamInv

LEMMA LinesClosedTailInv ==
    ASSUME TailInv, NEW s \in Streams, LinesClosed(s)
    PROVE  TailInv'
<1>1. /\ TypeOK /\ StreamInv(s) /\ reader[s] \in ReaderState /\ tail[s].pc = "done"
      /\ reader[s].pc = "recv"
      /\ UNCHANGED <<fileVars, events, tail, handler, receiver, client>>
  BY Parts DEF TailInv, LinesClosed
<1>2. /\ reader' = [reader EXCEPT ![s] = reader'[s]] /\ reader'[s] \in ReaderState
      /\ reader'[s].pc = "done" /\ reader'[s].line = reader[s].line
      /\ reader'[s].buff = reader[s].buff /\ reader'[s].isClosed
  BY <1>1 DEF LinesClosed, TypeOK, ReaderState
<1>3. Moves(s)
  BY <1>1, <1>2 DEF Moves, TypeOK
<1>4. InOrder(s)' /\ Staged(s)'
  BY <1>1, <1>2, UnitsKept DEF StreamInv, SameUnits, Staged, fileVars
<1>5. ASSUME ~tail'[s].failed PROVE StoppedByClient(s)' /\ LineMissed(s)'
  BY <1>1, <1>2, <1>5 DEF StreamInv, StoppedByClient, LineMissed
<1>6. QED
  BY <1>3, <1>4, <1>5, StreamMoves DEF StreamInv

----------------------------------------------------------------------------
(* The handler, its receiver and the client                                *)

(* A step that moves no unit and leaves the tail and readTail where they are. *)
LEMMA ControlTailInv ==
    ASSUME TailInv, NEW s \in Streams, Moves(s), SameUnits(s),
           tail'[s].pc = tail[s].pc, reader'[s] = reader[s],
           handler'[s].pc \notin {"check", "aborted"} => handler'[s].got = <<>>,
           ~tail'[s].failed => StoppedByClient(s)' /\ LineMissed(s)'
    PROVE  TailInv'
<1>1. StreamInv(s) /\ written' = written
  BY DEF TailInv, Moves, fileVars
<1>2. InOrder(s)'
  BY <1>1, UnitsKept DEF StreamInv
<1>3. Staged(s)'
  BY <1>1 DEF StreamInv, Staged, SameUnits
<1>4. QED
  BY <1>2, <1>3, StreamMoves DEF StreamInv

(* The first request of a client stays its first. *)
LEMMA FirstAsked ==
    ASSUME NEW asked \in Seq(Actions), NEW a \in Actions
    PROVE  /\ Append(asked, a) \in Seq(Actions) /\ Append(asked, a) # <<>>
           /\ Len(Append(asked, a)) = Len(asked) + 1 /\ Len(asked) \in Nat
           /\ asked # <<>> => Head(Append(asked, a)) = Head(asked)
<1>1. /\ Append(asked, a) \in Seq(Actions) /\ Len(Append(asked, a)) = Len(asked) + 1
      /\ Len(asked) \in Nat
  OBVIOUS
<1>2. Append(asked, a) # <<>>
  BY <1>1
<1>3. ASSUME asked # <<>> PROVE Head(Append(asked, a)) = Head(asked)
  <2>1. 1 \in 1..Len(asked)
    BY <1>1, <1>3
  <2>2. Append(asked, a)[1] = asked[1]
    BY <2>1
  <2>3. QED
    BY <1>2, <1>3, <2>2
<1>4. QED
  BY <1>1, <1>2, <1>3

LEMMA ClientTailInv ==
    ASSUME TailInv, NEW s \in Streams, Ask(s) \/ Cancel(s)
    PROVE  TailInv'
<1>1. /\ TypeOK /\ StreamInv(s) /\ client[s] \in ClientState
      /\ client[s].asked \in Seq(Actions) /\ Len(client[s].asked) <= MaxRequests
      /\ UNCHANGED <<fileVars, events, tail, reader, handler, receiver>>
  BY Parts DEF TailInv, TypeOK, Ask, Cancel
<1>2. ASSUME client' = [client EXCEPT ![s] = client'[s]], client'[s] \in ClientState,
             client'[s].got = client[s].got, Len(client'[s].asked) <= MaxRequests,
             \/ client'[s].asked = client[s].asked
             \/ /\ client'[s].asked # <<>>
                /\ client[s].asked # <<>> => Head(client'[s].asked) = Head(client[s].asked)
      PROVE  TailInv'
  <2>1. Moves(s) /\ SameUnits(s)
    BY <1>1, <1>2 DEF Moves, SameUnits, TypeOK
  <2>2. ASSUME ~tail'[s].failed PROVE StoppedByClient(s)' /\ LineMissed(s)'
    BY <1>1, <1>2, <2>2 DEF StreamInv, StoppedByClient, LineMissed
  <2>3. handler'[s].pc \notin {"check", "aborted"} => handler'[s].got = <<>>
    BY <1>1 DEF StreamInv, Staged
  <2>4. QED
    BY <1>1, <2>1, <2>2, <2>3, ControlTailInv
<1>3. CASE Cancel(s)
  <2>1. client'[s] = [client[s] EXCEPT !.cancelled = TRUE]
    BY <1>1, <1>3 DEF Cancel, TypeOK
  <2>2. client' = [client EXCEPT ![s] = client'[s]]
    BY <1>1, <1>3, <2>1 DEF Cancel, TypeOK
  <2>3. /\ client'[s] \in ClientState /\ client'[s].got = client[s].got
        /\ client'[s].asked = client[s].asked
    BY <1>1, <2>1 DEF ClientState
  <2>4. QED
    BY <1>1, <1>2, <2>2, <2>3
<1>4. CASE Ask(s)
  <2>1. PICK a \in Actions, due \in {WholeLines(written), client[s].due} :
          client' = [client EXCEPT ![s].asked = Append(client[s].asked, a), ![s].due = due]
    BY <1>4 DEF Ask
  <2>2. WholeLines(written) \in 0..(MaxLines * LineSize)
    <3>1. written \in Nat /\ written <= Limit /\ Limit \in Nat
      BY <1>1, LimitType, Parts
    <3>2. written % LineSize \in 0..written
      BY <3>1 DEF LineSize
    <3>3. QED
      BY <3>1, <3>2 DEF WholeLines, Limit
  <2>3. due \in 0..(MaxLines * LineSize)
    BY <1>1, <2>2 DEF ClientState
  <2>4. /\ Append(client[s].asked, a) \in Seq(Actions) /\ Append(client[s].asked, a) # <<>>
        /\ client[s].asked # <<>> => Head(Append(client[s].asked, a)) = Head(client[s].asked)
    BY <1>1, FirstAsked
  <2>5. Len(Append(client[s].asked, a)) <= MaxRequests
    <3>1. Len(client[s].asked) < MaxRequests /\ MaxRequests \in Nat
      BY <1>4, ConstantsAssumption DEF Ask
    <3>2. /\ Len(Append(client[s].asked, a)) = Len(client[s].asked) + 1
          /\ Len(client[s].asked) \in Nat
      BY <1>1, FirstAsked
    <3>3. QED
      BY <3>1, <3>2
  <2>6. client'[s] = [client[s] EXCEPT !.asked = Append(client[s].asked, a), !.due = due]
    BY <1>1, <2>1 DEF TypeOK
  <2>7. client' = [client EXCEPT ![s] = client'[s]]
    BY <1>1, <2>1, <2>6 DEF TypeOK
  <2>8. /\ client'[s] \in ClientState /\ client'[s].got = client[s].got
        /\ client'[s].asked = Append(client[s].asked, a)
    BY <1>1, <2>3, <2>4, <2>6 DEF ClientState
  <2>9. QED
    BY <1>2, <2>4, <2>5, <2>7, <2>8
<1>5. QED
  BY <1>3, <1>4

LEMMA ReceiverTailInv ==
    ASSUME TailInv, NEW s \in Streams, Receive(s) \/ ReceiveFails(s)
    PROVE  TailInv'
<1>1. /\ TypeOK /\ StreamInv(s)
      /\ UNCHANGED <<fileVars, events, tail, reader, handler, client>>
  BY DEF TailInv, Receive, ReceiveFails
<1>2. PICK pc \in {"recv", "send", "done"} :
        /\ receiver' = [receiver EXCEPT ![s] = pc]
        /\ pc = "send" => client[s].asked # <<>>
  BY DEF Receive, ReceiveFails
<1>3. Moves(s) /\ SameUnits(s)
  BY <1>1, <1>2 DEF Moves, SameUnits, TypeOK
<1>4. receiver'[s] = pc
  BY <1>1, <1>2 DEF TypeOK
<1>5. ASSUME ~tail'[s].failed PROVE StoppedByClient(s)' /\ LineMissed(s)'
  BY <1>1, <1>2, <1>4, <1>5 DEF StreamInv, StoppedByClient, LineMissed
<1>6. handler'[s].pc \notin {"check", "aborted"} => handler'[s].got = <<>>
  BY <1>1 DEF StreamInv, Staged
<1>7. QED
  BY <1>1, <1>3, <1>5, <1>6, ControlTailInv

LEMMA HandlerTailInv ==
    ASSUME TailInv, NEW s \in Streams,
           \/ StartStream(s) \/ ContextDone(s) \/ Closed(s) \/ Continue(s) \/ SendFails(s)
    PROVE  TailInv'
<1>1. /\ TypeOK /\ StreamInv(s) /\ handler[s] \in HandlerState
      /\ UNCHANGED <<fileVars, events, tail, reader, receiver, client>>
      /\ Len(handler[s].got) <= ChunkSize
  BY DEF TailInv, TypeOK, StartStream, ContextDone, Closed, Continue, SendFails
<1>2. PICK pc \in {"select", "eof", "aborted"}, isEmpty \in BOOLEAN :
        handler' = [handler EXCEPT ![s].pc = pc, ![s].isEmpty = isEmpty]
  <2>1. CASE Continue(s)
    BY <2>1 DEF Continue
  <2>2. CASE StartStream(s) \/ ContextDone(s) \/ Closed(s) \/ SendFails(s)
    <3>1. PICK pc \in {"select", "aborted"} : handler' = [handler EXCEPT ![s].pc = pc]
      BY <2>2 DEF StartStream, ContextDone, Closed, SendFails
    <3>2. /\ handler' = [handler EXCEPT ![s].pc = pc, ![s].isEmpty = handler[s].isEmpty]
          /\ handler[s].isEmpty \in BOOLEAN
      BY <1>1, <3>1 DEF TypeOK, HandlerState
    <3>3. QED
      BY <3>2
  <2>3. QED
    BY <2>1, <2>2
<1>3. handler'[s] = [handler[s] EXCEPT !.pc = pc, !.isEmpty = isEmpty]
  BY <1>1, <1>2 DEF TypeOK
<1>4. handler' = [handler EXCEPT ![s] = handler'[s]]
  BY <1>1, <1>2, <1>3 DEF TypeOK
<1>5. /\ handler'[s] \in HandlerState /\ handler'[s].pc = pc
      /\ handler'[s].got = handler[s].got
  BY <1>1, <1>3 DEF HandlerState
<1>6. Moves(s) /\ SameUnits(s)
  BY <1>1, <1>4, <1>5 DEF Moves, SameUnits, TypeOK
<1>7. handler'[s].pc \notin {"check", "aborted"} => handler'[s].got = <<>>
  <2>1. pc = "aborted" \/ handler[s].got = <<>>
    <3>1. CASE StartStream(s) \/ Closed(s) \/ Continue(s)
      BY <1>1, <3>1 DEF StartStream, Closed, Continue, StreamInv, Staged
    <3>2. CASE ContextDone(s) \/ SendFails(s)
      <4>1. handler' = [handler EXCEPT ![s].pc = "aborted"]
        BY <3>2 DEF ContextDone, SendFails
      <4>2. handler'[s].pc = "aborted"
        BY <1>1, <4>1 DEF TypeOK, HandlerState
      <4>3. QED
        BY <1>5, <4>2
    <3>3. QED
      BY <3>1, <3>2
  <2>2. QED
    BY <1>5, <2>1
<1>8. ASSUME ~tail'[s].failed PROVE StoppedByClient(s)'
  <2>1. handler[s].pc = "closing" => tail[s].pc = "done"
    BY DEF StartStream, ContextDone, Closed, Continue, SendFails, CloseReturns
  <2>2. QED
    BY <1>1, <1>8, <2>1 DEF StreamInv, StoppedByClient
<1>9. ASSUME ~tail'[s].failed, pc = "eof" PROVE reader[s].pc = "done" /\ Len(reader[s].buff) <= LineSize
  <2>1. Continue(s) /\ IsEOF(s)
    <3>1. handler'[s].pc = "eof"
      BY <1>5, <1>9
    <3>2. ASSUME NEW p \in {"select", "aborted"}, handler' = [handler EXCEPT ![s].pc = p]
          PROVE  FALSE
      BY <1>1, <3>1, <3>2 DEF TypeOK, HandlerState
    <3>3. Continue(s)
      BY <3>2 DEF StartStream, ContextDone, Closed, SendFails
    <3>4. CASE ~IsEOF(s)
      <4>1. handler' = [handler EXCEPT ![s].pc = "select", ![s].isEmpty = FALSE]
        BY <3>3, <3>4 DEF Continue
      <4>2. handler'[s].pc = "select"
        BY <1>1, <4>1 DEF TypeOK, HandlerState
      <4>3. QED
        BY <3>1, <4>2
    <3>5. QED
      BY <3>3, <3>4
  <2>2. reader[s].pc = "done" /\ tail[s].pc = "done"
    BY <1>1, <1>9, <2>1 DEF IsEOF, StreamInv, StoppedByClient
  <2>3. Len(reader[s].buff) + Len(reader[s].line) <= LineSize
    BY <1>1, <1>9, <2>1, <2>2 DEF Continue, StreamInv, LineMissed
  <2>4. Len(reader[s].buff) \in Nat /\ Len(reader[s].line) \in Nat
    BY <1>1, Lengths
  <2>5. Len(reader[s].buff) <= LineSize
    BY <2>3, <2>4, PartOfLine
  <2>6. QED
    BY <2>2, <2>5
<1>10. ASSUME ~tail'[s].failed PROVE LineMissed(s)'
  BY <1>1, <1>5, <1>9, <1>10 DEF LineMissed
<1>11. QED
  BY <1>1, <1>6, <1>7, <1>8, <1>10, ControlTailInv

LEMMA TakeRequestTailInv ==
    ASSUME TailInv, NEW s \in Streams, TakeRequest(s)
    PROVE  TailInv'
<1>1. /\ TypeOK /\ StreamInv(s) /\ tail[s] \in TailState /\ handler[s] \in HandlerState
      /\ handler[s].pc = "select" /\ receiver[s] = "send"
      /\ UNCHANGED <<fileVars, events, reader, client>>
      /\ Len(handler[s].got) <= ChunkSize
  BY DEF TailInv, TypeOK, TakeRequest
<1>2. receiver' = [receiver EXCEPT ![s] = "done"] /\ receiver'[s] = "done"
  BY <1>1 DEF TakeRequest, TypeOK
<1>3. handler[s].got = <<>>
  BY <1>1 DEF StreamInv, Staged
<1>4. CASE IsClose(Head(client[s].asked))
  <2>1. /\ tail'[s] = [tail[s] EXCEPT !.dying = TRUE]
        /\ handler'[s] = [handler[s] EXCEPT !.pc = "closing"]
    BY <1>1, <1>4 DEF TakeRequest, TypeOK
  <2>2. /\ tail' = [tail EXCEPT ![s] = tail'[s]]
        /\ handler' = [handler EXCEPT ![s] = handler'[s]]
    BY <1>1, <1>4, <2>1 DEF TakeRequest, TypeOK
  <2>3. /\ tail'[s] \in TailState /\ tail'[s].pc = tail[s].pc /\ tail'[s].dying
        /\ tail'[s].failed = tail[s].failed
        /\ tail'[s].pos = tail[s].pos /\ tail'[s].line = tail[s].line
    BY <1>1, <2>1 DEF TailState
  <2>4. /\ handler'[s] \in HandlerState /\ handler'[s].pc = "closing"
        /\ handler'[s].got = handler[s].got
    BY <1>1, <2>1 DEF HandlerState
  <2>5. Moves(s) /\ SameUnits(s)
    BY <1>1, <1>2, <2>2, <2>3, <2>4, OneTailMoves DEF Moves, SameUnits, TypeOK
  <2>6. ASSUME ~tail'[s].failed PROVE StoppedByClient(s)' /\ LineMissed(s)'
    BY <1>1, <1>2, <1>4, <2>3, <2>4, <2>6 DEF StreamInv, StoppedByClient, LineMissed
  <2>7. QED
    BY <1>1, <1>3, <2>3, <2>4, <2>5, <2>6, ControlTailInv
<1>5. CASE ~IsClose(Head(client[s].asked))
  <2>1. UNCHANGED <<tail, handler>>
    BY <1>5 DEF TakeRequest
  <2>2. Moves(s) /\ SameUnits(s)
    BY <1>1, <1>2, <2>1 DEF Moves, SameUnits, TypeOK
  <2>3. ASSUME ~tail'[s].failed PROVE StoppedByClient(s)' /\ LineMissed(s)'
    BY <1>1, <1>2, <2>1, <2>3 DEF StreamInv, StoppedByClient, LineMissed
  <2>4. QED
    BY <1>1, <1>3, <2>1, <2>2, <2>3, ControlTailInv
<1>6. QED
  BY <1>4, <1>5

(* What a read may take from the buffer. *)
LEMMA ReadSizes ==
    ASSUME NEW S, NEW b \in Seq(S)
    PROVE  /\ ReadSize(b) \in 0..Len(b) /\ ReadSize(b) <= ChunkSize
           /\ ReadSize(b) = 0 => Len(b) = 0
  BY ConstantsAssumption DEF ReadSize

LEMMA ReadBufferTailInv ==
    ASSUME TailInv, NEW s \in Streams, ReadBuffer(s)
    PROVE  TailInv'
<1> DEFINE b == reader[s].buff
           n == ReadSize(b)
           chunk == SubSeq(b, 1, n)
           rest == SubSeq(b, n + 1, Len(b))
<1>1. /\ TypeOK /\ StreamInv(s) /\ reader[s] \in ReaderState
      /\ handler[s].pc = "select" /\ b \in Seq(1..Limit)
      /\ UNCHANGED <<fileVars, events, tail, receiver, client>>
      /\ Len(reader[s].line) \in Nat /\ Len(b) \in Nat
      /\ Sent(s) \in Nat /\ Chunked(s) \in Nat
  BY Parts, Lengths DEF TailInv, ReadBuffer
<1>2. /\ n \in 0..Len(b) /\ n <= ChunkSize /\ (n = 0 => Len(b) = 0)
      /\ n \in Nat /\ n <= Len(b)
  BY <1>1, ReadSizes
<1>3. handler[s].got = <<>> /\ Chunked(s) = Sent(s)
  <2>1. handler[s].got = <<>>
    BY <1>1 DEF StreamInv, Staged
  <2>2. Chunked(s) = Sent(s) + 0
    BY <2>1 DEF Chunked
  <2>3. QED
    BY <1>1, <2>1, <2>2
<1>4. IsRun(b, Sent(s))
  BY <1>1, <1>3 DEF StreamInv, InOrder
<1>5. /\ handler' = [handler EXCEPT ![s] = [pc |-> "check", got |-> chunk,
                                            isEmpty |-> n < ChunkSize]]
      /\ reader' = [reader EXCEPT ![s].buff = rest]
  BY DEF ReadBuffer
<1> HIDE DEF n
<1>6. /\ chunk \in Seq(1..Limit) /\ Len(chunk) = n /\ IsRun(chunk, Sent(s))
      /\ rest \in Seq(1..Limit) /\ Len(rest) = Len(b) - n /\ IsRun(rest, Sent(s) + n)
  BY <1>1, <1>2, <1>4, SplitRun
<1> HIDE DEF chunk, rest
<1>7. /\ handler' = [handler EXCEPT ![s] = handler'[s]] /\ handler'[s] \in HandlerState
      /\ handler'[s].pc = "check" /\ handler'[s].got = chunk
  <2>1. handler'[s] = [pc |-> "check", got |-> chunk, isEmpty |-> n < ChunkSize]
    BY <1>1, <1>5 DEF TypeOK
  <2>2. PICK isEmpty \in BOOLEAN :
          handler'[s] = [pc |-> "check", got |-> chunk, isEmpty |-> isEmpty]
    <3>1. (n < ChunkSize) \in BOOLEAN
      OBVIOUS
    <3>2. QED
      BY <2>1, <3>1, Zenon
  <2>3. chunk \in UnitSeq
    BY <1>6, LimitType
  <2>4. handler' = [handler EXCEPT ![s] = handler'[s]]
    BY <1>5, <2>1
  <2>5. QED
    BY <2>2, <2>3, <2>4 DEF HandlerState
<1>8. /\ reader' = [reader EXCEPT ![s] = reader'[s]] /\ reader'[s] \in ReaderState
      /\ reader'[s].pc = reader[s].pc /\ reader'[s].buff = rest
      /\ reader'[s].line = reader[s].line /\ reader'[s].isClosed = reader[s].isClosed
  <2>1. reader'[s] = [reader[s] EXCEPT !.buff = rest]
    BY <1>1, <1>5 DEF TypeOK
  <2>2. rest \in UnitSeq
    BY <1>6, LimitType
  <2>3. reader' = [reader EXCEPT ![s] = reader'[s]]
    BY <1>1, <1>5, <2>1 DEF TypeOK
  <2>4. QED
    BY <1>1, <2>1, <2>2, <2>3 DEF ReaderState
<1>9. Moves(s)
  <2>1. Len(handler'[s].got) <= ChunkSize
    BY <1>2, <1>6, <1>7
  <2>2. QED
    BY <1>1, <1>7, <1>8, <2>1 DEF Moves, TypeOK
<1>10. InOrder(s)'
  <2>1. PICK a \in Nat, k \in Nat, l \in Nat :
          a = Sent(s) /\ k = n /\ l = Len(b) /\ k <= l
    BY <1>1, <1>2, Zenon
  <2>2. Sent(s)' = a /\ Len(handler'[s].got) = k /\ Len(reader'[s].buff) = l - k
    BY <1>1, <1>6, <1>7, <1>8, <2>1 DEF Sent
  <2>3. Chunked(s)' = a + k
    BY <2>2 DEF Chunked
  <2>4. Buffered(s)' = (a + k) + (l - k) /\ Buffered(s) = a + l
    BY <1>3, <2>1, <2>2, <2>3 DEF Buffered
  <2>5. Buffered(s)' = Buffered(s)
    BY <2>1, <2>4
  <2>6. Received(s)' = Received(s)
    BY <1>8, <2>5 DEF Received
  <2>7. IsRun(handler'[s].got, Sent(s)') /\ IsRun(reader'[s].buff, Chunked(s)')
    BY <1>6, <1>7, <1>8, <2>1, <2>2, <2>3
  <2>8. IsRun(client'[s].got, 0)
    BY <1>1 DEF StreamInv, InOrder
  <2>9. /\ IsRun(reader'[s].line, Buffered(s)') /\ IsRun(tail'[s].line, Received(s)')
        /\ tail'[s].pos = Received(s)' + Len(tail'[s].line)
    BY <1>1, <1>8, <2>5, <2>6 DEF StreamInv, InOrder
  <2>10. QED
    BY <2>7, <2>8, <2>9 DEF InOrder
<1>11. Staged(s)'
  BY <1>1, <1>7, <1>8 DEF StreamInv, Staged, fileVars
<1>12. ASSUME ~tail'[s].failed PROVE StoppedByClient(s)' /\ LineMissed(s)'
  <2>1. StoppedByClient(s)'
    BY <1>1, <1>7, <1>8, <1>12 DEF StreamInv, StoppedByClient
  <2>2. ASSUME handler'[s].got = <<>>
        PROVE  Len(reader'[s].buff) + Len(reader'[s].line) <= LineSize
    <3>1. n = 0
      BY <1>6, <1>7, <2>2
    <3>2. Len(reader'[s].buff) = 0
      BY <1>2, <1>6, <1>8, <3>1
    <3>3. PICK k \in {0, 2} : k = Len(reader'[s].line)
      BY <1>1, <1>8 DEF StreamInv, Staged, LineSize
    <3>4. 0 + k <= LineSize
      BY DEF LineSize
    <3>5. QED
      BY <3>2, <3>3, <3>4, Zenon
  <2>3. QED
    BY <1>7, <2>1, <2>2 DEF LineMissed
<1>13. QED
  BY <1>9, <1>10, <1>11, <1>12, StreamMoves DEF StreamInv

LEMMA SendTailInv ==
    ASSUME TailInv, NEW s \in Streams, Send(s)
    PROVE  TailInv'
<1> DEFINE all == client[s].got \o handler[s].got
<1>1. /\ TypeOK /\ StreamInv(s) /\ handler[s] \in HandlerState /\ client[s] \in ClientState
      /\ handler[s].pc = "check"
      /\ client[s].got \in Seq(1..Limit) /\ handler[s].got \in Seq(1..Limit)
      /\ UNCHANGED <<fileVars, events, tail, reader, receiver>>
      /\ Len(client[s].asked) <= MaxRequests
  BY Parts DEF TailInv, TypeOK, Send
<1>2. /\ IsRun(client[s].got, 0) /\ IsRun(handler[s].got, 0 + Len(client[s].got))
      /\ Sent(s) \in Nat /\ Chunked(s) \in Nat
  BY <1>1, Lengths DEF StreamInv, InOrder, Sent
<1>3. /\ all \in Seq(1..Limit) /\ Len(all) = Chunked(s) /\ IsRun(all, 0)
  BY <1>1, <1>2, ConcatRun DEF Chunked, Sent
<1>4. /\ client'[s] = [client[s] EXCEPT !.got = all]
      /\ handler'[s] = [handler[s] EXCEPT !.pc = "select", !.got = <<>>, !.isEmpty = FALSE]
  BY <1>1 DEF Send, TypeOK
<1>5. /\ client' = [client EXCEPT ![s] = client'[s]]
      /\ handler' = [handler EXCEPT ![s] = handler'[s]]
  BY <1>1, <1>4 DEF Send, TypeOK
<1>6. /\ client'[s] \in ClientState /\ client'[s].asked = client[s].asked
      /\ client'[s].got = all
  <2>1. all \in UnitSeq
    BY <1>3, LimitType
  <2>2. QED
    BY <1>1, <1>4, <2>1 DEF ClientState
<1>7. /\ handler'[s] \in HandlerState /\ handler'[s].pc = "select"
      /\ handler'[s].got = <<>>
  <2>1. <<>> \in UnitSeq
    BY DEF UnitSeq
  <2>2. QED
    BY <1>1, <1>4, <2>1 DEF HandlerState
<1>8. Moves(s)
  <2>1. Len(handler'[s].got) <= ChunkSize
    BY <1>7, ConstantsAssumption
  <2>2. QED
    BY <1>1, <1>5, <1>6, <1>7, <2>1 DEF Moves, TypeOK
<1>9. InOrder(s)'
  <2>1. PICK c \in Nat : c = Chunked(s)
    BY <1>2
  <2>2. Sent(s)' = c /\ Len(handler'[s].got) = 0
    BY <1>3, <1>6, <1>7, <2>1 DEF Sent
  <2>3. Chunked(s)' = c + 0
    BY <2>2 DEF Chunked
  <2>4. Chunked(s)' = Chunked(s)
    BY <2>1, <2>3
  <2>5. Buffered(s)' = Buffered(s) /\ Received(s)' = Received(s)
    BY <1>1, <2>4 DEF Buffered, Received
  <2>6. IsRun(client'[s].got, 0) /\ IsRun(handler'[s].got, Sent(s)')
    <3>1. IsRun(client'[s].got, 0)
      BY <1>3, <1>6, Zenon
    <3>2. IsRun(handler'[s].got, Sent(s)')
      BY <1>7 DEF IsRun
    <3>3. QED
      BY <3>1, <3>2
  <2>7. /\ IsRun(reader'[s].buff, Chunked(s)') /\ IsRun(reader'[s].line, Buffered(s)')
        /\ IsRun(tail'[s].line, Received(s)')
        /\ tail'[s].pos = Received(s)' + Len(tail'[s].line)
    BY <1>1, <2>4, <2>5 DEF StreamInv, InOrder
  <2>8. QED
    BY <2>6, <2>7 DEF InOrder
<1>10. Staged(s)'
  BY <1>1, <1>7 DEF StreamInv, Staged, fileVars
<1>11. ASSUME ~tail'[s].failed PROVE StoppedByClient(s)' /\ LineMissed(s)'
  BY <1>1, <1>6, <1>7, <1>11 DEF StreamInv, StoppedByClient, LineMissed
<1>12. QED
  BY <1>8, <1>9, <1>10, <1>11, StreamMoves DEF StreamInv

----------------------------------------------------------------------------
(* The invariant and the theorems                                          *)

LEMMA InitTailInv == Init => TailInv
<1> SUFFICES ASSUME Init PROVE TailInv
  OBVIOUS
<1>1. /\ written \in 0..Limit /\ Limit \in Nat /\ 0 \in 0..Limit
      /\ <<>> \in UnitSeq /\ <<>> \in Seq(Actions) /\ Len(<<>>) = 0
  BY LimitType DEF Init, UnitSeq
<1>2. /\ tail \in [Streams -> TailState] /\ reader \in [Streams -> ReaderState]
      /\ handler \in [Streams -> HandlerState] /\ client \in [Streams -> ClientState]
  BY <1>1 DEF Init, TailState, ReaderState, HandlerState, ClientState, Limit
<1>3. \A s \in Streams : /\ tail[s].pc = "open" /\ tail[s].pos = 0 /\ tail[s].line = <<>>
                         /\ ~tail[s].dying /\ ~tail[s].failed
                         /\ reader[s].pc = "recv" /\ reader[s].line = <<>>
                         /\ reader[s].buff = <<>> /\ ~reader[s].isClosed
                         /\ handler[s].pc = "init" /\ handler[s].got = <<>>
                         /\ receiver[s] = "recv"
                         /\ client[s].asked = <<>> /\ client[s].got = <<>>
  BY DEF Init
<1>4. TypeOK
  <2>1. exists \in BOOLEAN /\ events \in Nat
    BY ConstantsAssumption DEF Init
  <2>2. receiver \in [Streams -> {"recv", "send", "done"}]
    BY DEF Init
  <2>3. \A s \in Streams : Len(client[s].asked) <= MaxRequests /\ Len(handler[s].got) <= ChunkSize
    <3>1. 0 <= MaxRequests /\ 0 <= ChunkSize
      BY ConstantsAssumption
    <3>2. QED
      BY <1>1, <1>3, <3>1, Zenon
  <2>4. QED
    BY <1>1, <1>2, <2>1, <2>2, <2>3 DEF TypeOK, Limit
<1>5. ASSUME NEW s \in Streams PROVE StreamInv(s)
  <2>1. Sent(s) = 0 /\ Chunked(s) = 0 /\ Buffered(s) = 0 /\ Received(s) = 0
    <3>1. 0 + 0 = 0
      OBVIOUS
    <3>2. QED
      BY <1>1, <1>3, <3>1, Zenon DEF Sent, Chunked, Buffered, Received
  <2>2. \A n : IsRun(<<>>, n)
    BY DEF IsRun
  <2>3. InOrder(s)
    BY <1>1, <1>3, <2>1, <2>2 DEF InOrder
  <2>4. 0 % LineSize = 0 /\ 0 <= written
    BY <1>1 DEF LineSize
  <2>5. Staged(s)
    BY <1>1, <1>3, <2>4 DEF Staged
  <2>6. StoppedByClient(s) /\ LineMissed(s)
    BY <1>3 DEF StoppedByClient, LineMissed
  <2>7. QED
    BY <2>3, <2>5, <2>6 DEF StreamInv
<1>6. NoFileNoLines
  BY DEF Init, NoFileNoLines
<1>7. QED
  BY <1>4, <1>5, <1>6 DEF TailInv

LEMMA NextTailInv == TailInv /\ [Next]_vars => TailInv'
<1> SUFFICES ASSUME TailInv, [Next]_vars PROVE TailInv'
  OBVIOUS
<1>1. CASE CreateFile \/ Write \/ UNCHANGED vars
  BY <1>1, FileTailInv
<1>2. ASSUME NEW s \in Streams, Ask(s) \/ Cancel(s) PROVE TailInv'
  BY <1>2, ClientTailInv
<1>3. ASSUME NEW s \in Streams, TailStep(s) \/ TakeEvent(s) \/ TailFails(s) \/ StatFails(s)
      PROVE TailInv'
  BY <1>3, TailStepInv, SendLineTailInv DEF TailStep
<1>4. ASSUME NEW s \in Streams, StopWatcher(s) PROVE TailInv'
  BY <1>4, StopWatcherTailInv
<1>5. ASSUME NEW s \in Streams, WriteToBuffer(s) \/ LinesClosed(s) PROVE TailInv'
  BY <1>5, WriteToBufferTailInv, LinesClosedTailInv
<1>6. ASSUME NEW s \in Streams, Receive(s) \/ ReceiveFails(s) PROVE TailInv'
  BY <1>6, ReceiverTailInv
<1>7. ASSUME NEW s \in Streams, TakeRequest(s) PROVE TailInv'
  BY <1>7, TakeRequestTailInv
<1>8. ASSUME NEW s \in Streams, StartStream(s) \/ HandlerStep(s) PROVE TailInv'
  BY <1>8, HandlerTailInv, ReadBufferTailInv, SendTailInv DEF HandlerStep
<1>9. QED
  BY <1>1, <1>2, <1>3, <1>4, <1>5, <1>6, <1>7, <1>8 DEF Next

LEMMA TailInvariance == Spec => []TailInv
<1>1. QED
  BY InitTailInv, NextTailInv, PTL DEF Spec

(* Every variable holds the kind of value the code keeps there: no chunk   *)
(* is larger than the buffer of the handler, and the position of a tail    *)
(* stays within the file.                                                  *)
THEOREM TypeCorrect == Spec => []TypeOK
<1>1. TailInv => TypeOK
  BY DEF TailInv
<1>2. QED
  BY <1>1, TailInvariance, PTL

LEMMA JoinRuns ==
    ASSUME NEW S, NEW x \in Seq(S), NEW y \in Seq(S), IsRun(x, 0), IsRun(y, Len(x))
    PROVE  x \o y \in Seq(S) /\ Len(x \o y) = Len(x) + Len(y) /\ IsRun(x \o y, 0)
<1>1. 0 + Len(x) = Len(x)
  OBVIOUS
<1>2. IsRun(y, 0 + Len(x))
  BY <1>1, Zenon
<1>3. QED
  BY <1>2, ConcatRun

(* What was got, before the rest in its four places. *)
Gathered(c, h, b, r, t) == c \o (h \o b \o r \o t)
Joined(c, h, b, r, t) == (((c \o h) \o b) \o r) \o t

LEMMA Regroup ==
    ASSUME NEW c \in Seq(1..Limit), NEW h \in Seq(1..Limit), NEW b \in Seq(1..Limit),
           NEW r \in Seq(1..Limit), NEW t \in Seq(1..Limit)
    PROVE  Gathered(c, h, b, r, t) = Joined(c, h, b, r, t)
<1>1. h \o b \in Seq(1..Limit) /\ (h \o b) \o r \in Seq(1..Limit)
  BY ConcatProperties
<1>2. (c \o h) \o b = c \o (h \o b)
  OBVIOUS
<1>3. (c \o (h \o b)) \o r = c \o ((h \o b) \o r)
  <2>1. PICK x \in Seq(1..Limit) : x = h \o b
    BY <1>1
  <2>2. (c \o x) \o r = c \o (x \o r)
    OBVIOUS
  <2>3. QED
    BY <2>1, <2>2, Zenon
<1>4. (c \o ((h \o b) \o r)) \o t = c \o (((h \o b) \o r) \o t)
  <2>1. PICK x \in Seq(1..Limit) : x = (h \o b) \o r
    BY <1>1
  <2>2. (c \o x) \o t = c \o (x \o t)
    OBVIOUS
  <2>3. QED
    BY <2>1, <2>2, Zenon
<1>5. QED
  BY <1>2, <1>3, <1>4, Zenon DEF Gathered, Joined

(* Runs that lie one behind the other are the beginning of the file.       *)
LEMMA FiveRuns ==
    ASSUME NEW c \in Seq(1..Limit), NEW h \in Seq(1..Limit), NEW b \in Seq(1..Limit),
           NEW r \in Seq(1..Limit), NEW t \in Seq(1..Limit),
           IsRun(c, 0), IsRun(h, Len(c)), IsRun(b, Len(c) + Len(h)),
           IsRun(r, Len(c) + Len(h) + Len(b)),
           IsRun(t, Len(c) + Len(h) + Len(b) + Len(r))
    PROVE  Gathered(c, h, b, r, t) = Units(0, Len(c) + Len(h) + Len(b) + Len(r) + Len(t))
<1>1. /\ c \o h \in Seq(1..Limit) /\ Len(c \o h) = Len(c) + Len(h) /\ IsRun(c \o h, 0)
  BY JoinRuns
<1>2. PICK x \in Seq(1..Limit) : x = c \o h
  BY <1>1
<1>3. /\ x \o b \in Seq(1..Limit) /\ Len(x \o b) = Len(c) + Len(h) + Len(b) /\ IsRun(x \o b, 0)
  <2>1. IsRun(x, 0) /\ IsRun(b, Len(x)) /\ Len(x) = Len(c) + Len(h)
    BY <1>1, <1>2, Zenon
  <2>2. x \o b \in Seq(1..Limit) /\ Len(x \o b) = Len(x) + Len(b) /\ IsRun(x \o b, 0)
    BY <2>1, JoinRuns
  <2>3. QED
    BY <2>1, <2>2, Zenon
<1>4. PICK y \in Seq(1..Limit) : y = x \o b
  BY <1>3
<1>5. /\ y \o r \in Seq(1..Limit) /\ Len(y \o r) = Len(c) + Len(h) + Len(b) + Len(r)
      /\ IsRun(y \o r, 0)
  <2>1. IsRun(y, 0) /\ IsRun(r, Len(y)) /\ Len(y) = Len(c) + Len(h) + Len(b)
    BY <1>3, <1>4, Zenon
  <2>2. y \o r \in Seq(1..Limit) /\ Len(y \o r) = Len(y) + Len(r) /\ IsRun(y \o r, 0)
    BY <2>1, JoinRuns
  <2>3. QED
    BY <2>1, <2>2, Zenon
<1>6. PICK z \in Seq(1..Limit) : z = y \o r
  BY <1>5
<1>7. /\ z \o t \in Seq(1..Limit) /\ Len(z \o t) = Len(c) + Len(h) + Len(b) + Len(r) + Len(t)
      /\ IsRun(z \o t, 0)
  <2>1. /\ IsRun(z, 0) /\ IsRun(t, Len(z))
        /\ Len(z) = Len(c) + Len(h) + Len(b) + Len(r)
    BY <1>5, <1>6, Zenon
  <2>2. z \o t \in Seq(1..Limit) /\ Len(z \o t) = Len(z) + Len(t) /\ IsRun(z \o t, 0)
    BY <2>1, JoinRuns
  <2>3. QED
    BY <2>1, <2>2, Zenon
<1>8. z \o t = Units(0, Len(z \o t))
  BY <1>7, RunIsUnits
<1>9. Gathered(c, h, b, r, t) = z \o t
  <2>1. Gathered(c, h, b, r, t) = Joined(c, h, b, r, t)
    BY Regroup
  <2>2. QED
    BY <1>2, <1>4, <1>6, <2>1, Zenon DEF Joined
<1>10. QED
  BY <1>7, <1>8, <1>9, Zenon

LEMMA RunsArePrefix ==
    ASSUME TypeOK, NEW s \in Streams, InOrder(s)
    PROVE  client[s].got \o InFlight(s) = Units(0, tail[s].pos)
<1>1. /\ client[s].got \in Seq(1..Limit) /\ handler[s].got \in Seq(1..Limit)
      /\ reader[s].buff \in Seq(1..Limit) /\ reader[s].line \in Seq(1..Limit)
      /\ tail[s].line \in Seq(1..Limit)
  BY Parts
<1>2. PICK c, h, b, r, t \in Seq(1..Limit) :
        /\ c = client[s].got /\ h = handler[s].got /\ b = reader[s].buff
        /\ r = reader[s].line /\ t = tail[s].line
  BY <1>1, Zenon
<1>3. /\ IsRun(c, 0) /\ IsRun(h, Len(c)) /\ IsRun(b, Len(c) + Len(h))
      /\ IsRun(r, Len(c) + Len(h) + Len(b))
      /\ IsRun(t, Len(c) + Len(h) + Len(b) + Len(r))
      /\ tail[s].pos = Len(c) + Len(h) + Len(b) + Len(r) + Len(t)
  BY <1>2, Zenon DEF InOrder, Sent, Chunked, Buffered, Received
<1>4. Gathered(c, h, b, r, t) = Units(0, Len(c) + Len(h) + Len(b) + Len(r) + Len(t))
  BY <1>3, FiveRuns
<1>5. QED
  BY <1>2, <1>3, <1>4, Zenon DEF InFlight, Gathered

(* A client of TailFile gets the beginning of the file, and what it has    *)
(* not got yet stands behind it in the right order, however the tail, the  *)
(* watchers, readTail and the handler take turns, whatever the size of a   *)
(* chunk, and even if the tail fails or the call is cancelled.             *)
THEOREM StreamIsBeginningOfFile == Spec => []StreamIsPrefix
<1>1. TailInv => StreamIsPrefix
  BY RunsArePrefix DEF TailInv, StreamInv, StreamIsPrefix
<1>2. QED
  BY <1>1, TailInvariance, PTL

(* As long as its tail did not fail, a client that is told that the stream is  *)
(* over asked to read to the end and close: the file alone never ends it.  *)
THEOREM EofIsAskedFor == Spec => []EofOnlyAfterClose
<1>1. TailInv => EofOnlyAfterClose
  <2> SUFFICES ASSUME TailInv, NEW s \in Streams, handler[s].pc = "eof", ~tail[s].failed
               PROVE  client[s].asked # <<>> /\ Head(client[s].asked) = Close
    BY DEF EofOnlyAfterClose
  <2>1. StoppedByClient(s) /\ LineMissed(s)
    BY DEF TailInv, StreamInv
  <2>2. tail[s].dying
    BY <2>1 DEF StoppedByClient, LineMissed
  <2>3. QED
    BY <2>1, <2>2 DEF StoppedByClient, IsClose
<1>2. QED
  BY <1>1, TailInvariance, PTL

(* What a client misses at the end of its stream, because the reader looks *)
(* at isClosed after it gave up the lock, is one line and never more.      *)
THEOREM OneLineLostAtMost == Spec => []AtMostLastLineLost
<1>1. TailInv => AtMostLastLineLost
  <2> SUFFICES ASSUME TailInv, NEW s \in Streams, handler[s].pc = "eof", ~tail[s].failed
               PROVE  Len(InFlight(s)) <= LineSize
    BY DEF AtMostLastLineLost
  <2> DEFINE b == reader[s].buff
  <2>1. StoppedByClient(s) /\ LineMissed(s) /\ Staged(s) /\ TypeOK
    BY DEF TailInv, StreamInv
  <2>2. tail[s].pc = "done" /\ reader[s].pc = "done" /\ Len(b) <= LineSize
    BY <2>1 DEF StoppedByClient, LineMissed
  <2>3. handler[s].got = <<>> /\ Len(reader[s].line) = 0 /\ Len(tail[s].line) = 0
    BY <2>1, <2>2 DEF Staged
  <2>4. /\ reader[s].line = <<>> /\ tail[s].line = <<>> /\ b \in Seq(1..Limit)
    BY <2>1, <2>3, Parts, EmptyRun
  <2>5. InFlight(s) = (<<>> \o b) \o <<>> \o <<>>
    BY <2>3, <2>4 DEF InFlight
  <2>6. InFlight(s) = b
    BY <2>4, <2>5, ConcatEmptySeq
  <2>7. QED
    BY <2>2, <2>6
<1>2. QED
  BY <1>1, TailInvariance, PTL
=============================================================================
