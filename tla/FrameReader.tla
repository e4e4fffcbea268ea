---------------------------- MODULE FrameReader ----------------------------
(***************************************************************************)
(* The way of a frame from the serial port to the driver: the thread that  *)
(* reads the port puts what it gets into the ring buffer of the Stream;    *)
(* the driver thread waits for it with Wait::Multiple or Single and takes  *)
(* the frame out in three reads.  A frame is a SOF, its length and as many *)
(* bytes as that says; one that is damaged is refused, and the buffer      *)
(* purged.                                                                 *)
(*                                                                         *)
(* The bytes are those of the frames the controller sends: a checksum is   *)
(* right when they are all there and whole.  What is done with a frame is  *)
(* in Driver.tla, and so are the messages of one byte.                     *)
(***************************************************************************)
EXTENDS Integers, Sequences, SequencesExt, FiniteSetsExt

CONSTANTS
  Length,         \* the length bytes of the frames the controller sends, in this order
  BufferSize,     \* m_bufferSize: 2048 in the code
  Chunk,          \* bound: how many bytes the port gives at once: 256 in the code
  Faults,         \* bound: bytes damaged or lost on the way, and gaps in a frame
  Racy,           \* whether the port is read while the driver thread is in Purge
  Bad             \* a damaged byte

Frame == DOMAIN Length
Bytes(f) == [i \in 1 .. Length[f] + 2 |-> << f, i >>]
Byte == {Bad} \cup UNION { Range(Bytes(f)) : f \in Frame }
Longest == Max(Range(Length) \cup {0})

ASSUME FrameReaderAssumption ==
  /\ Length \in Seq(Nat) /\ BufferSize \in Nat \ {0} /\ Chunk \in Nat \ {0}
  /\ Faults \in Nat /\ Racy \in BOOLEAN /\ Bad \notin Nat \X Nat

VARIABLES
  line,       \* what is on its way of the frame that is sent, and still to be read
  chunk,      \* what the port's thread puts into the buffer
  copied,     \* whether it has done so, but not counted it yet
  buffer, head, tail, dataSize, signalSize,  \* the Stream
  watching,   \* whether the event of the wait is among the watchers of the Stream
  waitEvent,  \* whether it is set
  step,       \* where the driver thread is in Wait::Multiple or in Purge
  goal,       \* what it waits for
  frame,      \* what it has read of a frame
  processed,  \* frames given to ProcessMsg
  sent,       \* frames sent
  clean,      \* of these, those sent to an idle reader that have met with no fault
  faults

portVars == << line, chunk, copied >>
streamVars == << buffer, head, tail, dataSize, signalSize >>
waitVars == << watching, waitEvent >>
readerVars == << step, goal, frame, processed >>
boundVars == << sent, clean, faults >>
vars == << portVars, streamVars, waitVars, readerVars, boundVars >>

TypeOK ==
  /\ line \in Seq(Byte) /\ chunk \in Seq(Byte) /\ copied \in BOOLEAN
  /\ buffer \in [0 .. BufferSize - 1 -> Byte]
  /\ head \in 0 .. BufferSize /\ tail \in 0 .. BufferSize
  /\ dataSize \in 0 .. BufferSize /\ signalSize \in Nat
  /\ watching \in BOOLEAN /\ waitEvent \in BOOLEAN
  /\ step \in {"add", "test", "wait", "tail", "head", "size"}
  /\ goal \in {"first", "length", "body"}
  /\ frame \in Seq(Byte) /\ Len(frame) = (CASE goal = "first" -> 0 [] goal = "length" -> 1 [] goal = "body" -> 2)
  /\ processed \subseteq Frame /\ clean \subseteq 1 .. sent
  /\ sent \in 0 .. Len(Length) /\ faults \in 0 .. Faults

Init ==
  /\ line = << >> /\ chunk = << >> /\ copied = FALSE
  /\ buffer = [i \in 0 .. BufferSize - 1 |-> Bad]
  /\ head = 0 /\ tail = 0 /\ dataSize = 0 /\ signalSize = 1
  /\ watching = FALSE /\ waitEvent = FALSE
  /\ step = "add" /\ goal = "first" /\ frame = << >>
  /\ processed = {} /\ sent = 0 /\ clean = {} /\ faults = 0
-----------------------------------------------------------------------------
(* The ring buffer. *)

\* Mutant: an end of the buffer that is reached exactly is not taken for its end.
AdvanceExact(p, n) == IF p + n > BufferSize + 1 THEN p + n - BufferSize ELSE p + n

\* Mutant: what is past the end of the buffer is forgotten.
AdvanceToStart(p, n) == IF p + n > BufferSize THEN 0 ELSE p + n

\* head or tail after n bytes: BufferSize itself is not wrapped.
Advance(p, n) == IF p + n > BufferSize THEN p + n - BufferSize ELSE p + n

\* The n bytes from position p on.
Block(p, n) == [i \in 1 .. n |-> buffer[(p + i - 1) % BufferSize]]

Contents == Block(tail, dataSize)
Purging == step \in {"tail", "head", "size"}
IsSignalled == dataSize >= signalSize
-----------------------------------------------------------------------------
(* The controller and the serial port. *)

\* Nothing is on its way and the driver thread waits for a frame.
Quiet == line = << >> /\ chunk = << >> /\ dataSize = 0
AtRest == Quiet /\ goal = "first" /\ ~Purging

\* The controller sends its next frame.
SendFrame ==
  /\ line = << >> /\ sent < Len(Length)
  /\ sent' = sent + 1
  /\ line' = Bytes(sent')
  /\ clean' = IF AtRest THEN clean \cup {sent'} ELSE clean
  /\ UNCHANGED << chunk, copied, streamVars, waitVars, readerVars, faults >>

Fault == faults < Faults /\ faults' = faults + 1

\* A byte is damaged or lost.
Damage ==
  /\ line # << >> /\ Fault
  /\ clean' = clean \ {sent}
  /\ line' \in {Tail(line), [line EXCEPT ![1] = Bad]}
  /\ UNCHANGED << chunk, copied, streamVars, waitVars, readerVars, sent >>

\* Mutant: one byte more than there is room for is taken.
FitsOneMore(c) == IF BufferSize - dataSize + 1 < Len(c) THEN << >> ELSE c

\* What Put takes of the chunk: all of it or nothing.
Fits(c) == IF BufferSize - dataSize < Len(c) THEN << >> ELSE c

\* The port's thread reads what there is and calls Put, up to the lock.
ReadPort ==
  /\ line # << >> /\ chunk = << >>
  /\ Purging => Racy
  /\ \E n \in 1 .. Min({Len(line), Chunk}) :
       /\ line' = SubSeq(line, n + 1, Len(line))
       /\ chunk' = Fits(SubSeq(line, 1, n))
       /\ clean' = IF Len(chunk') < n THEN clean \ {sent} ELSE clean
  /\ UNCHANGED << copied, streamVars, waitVars, readerVars, sent, faults >>

Copy ==
  /\ chunk # << >> /\ ~copied
  /\ buffer' = [i \in DOMAIN buffer |->
                  LET k == { j \in 1 .. Len(chunk) : (head + j - 1) % BufferSize = i }
                  IN  IF k = {} THEN buffer[i] ELSE chunk[Max(k)]]
  /\ head' = Advance(head, Len(chunk))
  /\ copied' = TRUE
  /\ UNCHANGED << line, chunk, tail, dataSize, signalSize, waitVars, readerVars, boundVars >>

\* Mutant: the watchers are told only when the buffer was empty.
NotifyEmpty(n) == watching /\ dataSize = 0

\* Whether Put tells the watchers, with n bytes more.
Notifies(n) == watching /\ dataSize + n >= signalSize

Count ==
  /\ copied
  /\ dataSize' = dataSize + Len(chunk)
  /\ waitEvent' = (waitEvent \/ Notifies(Len(chunk)))
  /\ chunk' = << >> /\ copied' = FALSE
  /\ UNCHANGED << line, buffer, head, tail, signalSize, watching, readerVars, boundVars >>
-----------------------------------------------------------------------------
(* Wait::Multiple and Single.  The watcher is added first and the object tested then. *)

\* Mutant: the object is tested, and the watcher added after that.
AddWatcherLate ==
  /\ step = "add"
  /\ waitEvent' = IsSignalled
  /\ step' = "test"
  /\ UNCHANGED << portVars, streamVars, watching, goal, frame, processed, boundVars >>

AddWatcher ==
  /\ step = "add"
  /\ watching' = TRUE
  /\ step' = "test"
  /\ UNCHANGED << portVars, streamVars, waitEvent, goal, frame, processed, boundVars >>

TestAtOnce ==
  /\ step = "test"
  /\ waitEvent' = (waitEvent \/ IsSignalled)
  /\ step' = "wait"
  /\ UNCHANGED << portVars, streamVars, watching, goal, frame, processed, boundVars >>

\* The wait is over; the watcher is removed and the event released.
EndWait == watching' = FALSE /\ waitEvent' = FALSE

StartOver == goal' = "first" /\ frame' = << >> /\ signalSize' = 1

\* Mutant: the threshold stays when the rest of a frame does not come.
TimeOutKeepsThreshold ==
  /\ step = "wait" /\ ~waitEvent /\ goal # "first"
  /\ line = << >> /\ chunk = << >> /\ UNCHANGED << clean, faults >>
  /\ EndWait
  /\ goal' = "first" /\ frame' = << >>
  /\ step' = "add"
  /\ UNCHANGED << portVars, buffer, head, tail, dataSize, signalSize, processed, sent >>

\* 50 ms without the length or 500 ms without the rest: longer than there is between
\* the bytes of a frame, if there is no fault.  What there is of it stays in the buffer.
TimeOut ==
  /\ step = "wait" /\ ~waitEvent /\ goal # "first"
  /\ \/ line = << >> /\ chunk = << >> /\ UNCHANGED << clean, faults >>
     \/ line # << >> /\ Fault /\ clean' = clean \cap processed
  /\ EndWait
  /\ StartOver
  /\ step' = "add"
  /\ UNCHANGED << portVars, buffer, head, tail, dataSize, processed, sent >>
-----------------------------------------------------------------------------
(* ReadMsg.  The Stream's mutex keeps Get out of Put. *)

\* Get takes n bytes.
Get(n) ==
  /\ step = "wait" /\ waitEvent /\ ~copied
  /\ dataSize >= n
  /\ tail' = Advance(tail, n)
  /\ dataSize' = dataSize - n
  /\ EndWait

\* A SOF, or a byte that looks like one, begins a frame.
First ==
  /\ goal = "first"
  /\ Get(1)
  /\ \/ /\ goal' = "length" /\ frame' = Block(tail, 1)
        /\ step' = "add"
     \/ /\ buffer[tail % BufferSize] \notin { << f, 1 >> : f \in Frame }
        /\ step' \in {"add", "tail"}   \* like ACK, NAK or CAN; out of frame: NAK, Purge
        /\ UNCHANGED << goal, frame >>
  /\ UNCHANGED << portVars, buffer, head, signalSize, processed, boundVars >>

\* The length; any byte that is not one may say anything.
ReadLength ==
  LET b == buffer[tail % BufferSize]
  IN  /\ goal = "length"
      /\ Get(1)
      /\ \/ b \in { << f, 2 >> : f \in Frame } /\ signalSize' = Length[b[1]]
         \/ b \notin { << f, 2 >> : f \in Frame } /\ signalSize' \in 0 .. Longest
      /\ goal' = "body" /\ frame' = frame \o Block(tail, 1)
      /\ step' = "add"
      /\ UNCHANGED << portVars, buffer, head, processed, boundVars >>

\* The rest, and the checksum.
ReadBody ==
  LET all == frame \o Block(tail, signalSize)
  IN  /\ goal = "body"
      /\ Get(signalSize)
      /\ StartOver
      /\ \/ \E f \in Frame : all = Bytes(f) /\ processed' = processed \cup {f} /\ step' = "add"
         \/ (\A f \in Frame : all # Bytes(f)) /\ step' = "tail" /\ UNCHANGED processed
      /\ UNCHANGED << portVars, buffer, head, boundVars >>

\* Purge, three stores without the lock.
PurgeTail ==
  /\ step = "tail" /\ (chunk # << >> => Racy)
  /\ tail' = 0 /\ step' = "head"
  /\ UNCHANGED << portVars, buffer, head, dataSize, signalSize, waitVars, goal, frame, processed, boundVars >>

PurgeHead ==
  /\ step = "head"
  /\ head' = 0 /\ step' = "size"
  /\ UNCHANGED << portVars, buffer, tail, dataSize, signalSize, waitVars, goal, frame, processed, boundVars >>

PurgeSize ==
  /\ step = "size"
  /\ dataSize' = 0 /\ step' = "add"
  /\ UNCHANGED << portVars, buffer, head, tail, signalSize, waitVars, goal, frame, processed, boundVars >>
-----------------------------------------------------------------------------
Port == ReadPort \/ Copy \/ Count
Purge == PurgeTail \/ PurgeHead \/ PurgeSize
Reader == AddWatcher \/ TestAtOnce \/ TimeOut \/ First \/ ReadLength \/ ReadBody \/ Purge

Next == SendFrame \/ Damage \/ Port \/ Reader

Spec == Init /\ [][Next]_vars

\* Both threads run.
FairSpec == Spec /\ WF_vars(Port) /\ WF_vars(Reader)
-----------------------------------------------------------------------------
\* The ring is consistent whenever neither thread is in the middle of changing it.
RingConsistent ==
  /\ TypeOK
  /\ ~Purging /\ ~copied => (tail + dataSize) % BufferSize = head % BufferSize
  /\ dataSize + (IF copied THEN Len(chunk) ELSE 0) <= BufferSize

\* Between frames the driver thread wakes up for a single byte.
WokenByOne == goal = "first" => signalSize = 1

\* A wait is not slept through: when there is enough in the buffer the event is set,
\* or will be.
WaitNotMissed == step = "wait" /\ IsSignalled => waitEvent

\* Stream is a queue of bytes, from Put to Get.
Queue == INSTANCE ByteQueue WITH
  Capacity <- BufferSize,
  bytes <- IF Purging THEN << >> ELSE Contents

StreamIsQueue == Queue!Spec

\* A frame that is sent when all is quiet and arrives whole is processed.
CleanFrameHeard ==
  \A f \in Frame : f \in clean ~> f \in processed \/ f \notin clean

\* Whatever is received, the reader gets back to waiting for a frame with an empty buffer.
BackInStep == [](line = << >> => <>(line # << >> \/ AtRest))
=============================================================================
