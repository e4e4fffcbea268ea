------------------------- MODULE FrameReader_proofs -------------------------
(***************************************************************************)
(* The driver thread never sleeps through what is in the buffer, whatever  *)
(* the port does; and as long as the port is not read during Purge, the    *)
(* ring is consistent and the Stream is a queue of bytes.                  *)
(***************************************************************************)
EXTENDS FrameReader, SendQueue_proofs

USE FrameReaderAssumption

(* Remainders, of positions up to three times around the ring. *)
LEMMA Wrap ==
  ASSUME NEW b \in Nat \ {0}, NEW a \in 0 .. 3 * b - 1
  PROVE  /\ a % b \in 0 .. b - 1
         /\ a % b = a \/ a % b = a - b \/ a % b = a - b - b
<1>1. CASE a \in 0 .. b - 1
  <2>1. a % b = a
    BY <1>1
  <2> QED BY <1>1, <2>1
<1>2. CASE a \in b .. 2 * b - 1
  <2>1. a % b = a - b
    BY <1>2
  <2> QED BY <1>2, <2>1
<1>3. CASE a \in 2 * b .. 3 * b - 1
  <2>1. a % b = a - 2 * b
    BY <1>3
  <2> QED BY <1>3, <2>1
<1> QED BY <1>1, <1>2, <1>3

\* A position less than a round further has the same remainder one round on.
LEMMA WrapRound ==
  ASSUME NEW b \in Nat \ {0}, NEW a \in 0 .. 2 * b - 1
  PROVE  (a + b) % b = a % b
<1>1. PICK c \in b .. 3 * b - 1 : c = a + b
  OBVIOUS
<1>2. CASE a \in 0 .. b - 1
  <2>1. a % b = a
    BY <1>2
  <2>2. c \in b .. 2 * b - 1
    BY <1>1, <1>2
  <2>3. c % b = c - b
    BY <2>2
  <2> QED BY <1>1, <2>1, <2>3
<1>3. CASE a \in b .. 2 * b - 1
  <2>1. a % b = a - b
    BY <1>3
  <2>2. c \in 2 * b .. 3 * b - 1
    BY <1>1, <1>3
  <2>3. c % b = c - 2 * b
    BY <2>2
  <2> QED BY <1>1, <2>1, <2>3
<1> QED BY <1>2, <1>3

\* Equal remainders stay equal when both positions advance.
LEMMA WrapPlus ==
  ASSUME NEW b \in Nat \ {0}, NEW x \in 0 .. 2 * b - 1, NEW y \in 0 .. 2 * b - 1,
         x % b = y % b, NEW n \in 0 .. b
  PROVE  (x + n) % b = (y + n) % b
<1>1. /\ x \in 0 .. 3 * b - 1 /\ y \in 0 .. 3 * b - 1
      /\ x + n \in 0 .. 3 * b - 1 /\ y + n \in 0 .. 3 * b - 1
  OBVIOUS
<1>2. /\ x % b \in 0 .. b - 1
      /\ x % b = x \/ x % b = x - b \/ x % b = x - b - b
      /\ y % b = y \/ y % b = y - b \/ y % b = y - b - b
  BY <1>1, Wrap
<1>3. PICK u \in 0 .. 3 * b - 1 : u = x + n
  BY <1>1
<1>4. PICK v \in 0 .. 3 * b - 1 : v = y + n
  BY <1>1
<1>5. /\ u % b \in 0 .. b - 1
      /\ u % b = u \/ u % b = u - b \/ u % b = u - b - b
  BY Wrap
<1>6. /\ v % b \in 0 .. b - 1
      /\ v % b = v \/ v % b = v - b \/ v % b = v - b - b
  BY Wrap
<1>7. u % b = v % b
  <2>1. x - y = u - v /\ x - y \in {0, b, -b, b + b, -(b + b)}
    BY <1>2, <1>3, <1>4
  <2>2. PICK p \in 0 .. b - 1 : p = u % b /\ (p = u \/ p = u - b \/ p = u - b - b)
    BY <1>5
  <2>3. PICK q \in 0 .. b - 1 : q = v % b /\ (q = v \/ q = v - b \/ q = v - b - b)
    BY <1>6
  <2>4. p = q
    <3>1. p = u \/ p = u - b \/ p = u - b - b
      BY <2>2
    <3>2. q = v \/ q = v - b \/ q = v - b - b
      BY <2>3
    <3>3. u = v \/ u = v + b \/ u = v - b \/ u = v + b + b \/ u = v - b - b
      BY <2>1
    <3> QED BY <3>1, <3>2, <3>3
  <2> QED BY <2>2, <2>3, <2>4
<1> QED BY <1>3, <1>4, <1>7

\* Positions less than a round apart have different remainders.
LEMMA WrapApart ==
  ASSUME NEW b \in Nat \ {0}, NEW x \in 0 .. 3 * b - 1, NEW y \in 0 .. 3 * b - 1,
         x < y, y < x + b
  PROVE  x % b # y % b
<1>1. /\ x % b \in 0 .. b - 1
      /\ x % b = x \/ x % b = x - b \/ x % b = x - b - b
  BY Wrap
<1>2. /\ y % b \in 0 .. b - 1
      /\ y % b = y \/ y % b = y - b \/ y % b = y - b - b
  BY Wrap
<1> QED BY <1>1, <1>2

\* A position advanced is in the ring, and where counting on says.
LEMMA AdvanceWraps ==
  ASSUME NEW p \in 0 .. BufferSize, NEW n \in 0 .. BufferSize
  PROVE  /\ Advance(p, n) \in 0 .. BufferSize
         /\ Advance(p, n) = p + n \/ Advance(p, n) = p + n - BufferSize
         /\ Advance(p, n) % BufferSize = (p + n) % BufferSize
<1>1. Advance(p, n) \in 0 .. BufferSize
  BY DEF Advance
<1>2. Advance(p, n) = p + n \/ Advance(p, n) = p + n - BufferSize
  BY DEF Advance
<1>3. PICK q \in 0 .. BufferSize : q = Advance(p, n)
  BY <1>1
<1>4. q = p + n \/ q = p + n - BufferSize
  BY <1>2, <1>3
<1>5. q % BufferSize = (p + n) % BufferSize
  <2>1. CASE q = p + n
    BY <2>1
  <2>2. CASE q = p + n - BufferSize /\ p + n < 2 * BufferSize
    <3>1. (p + n) % BufferSize = p + n - BufferSize
      BY <2>2
    <3>2. q % BufferSize = q
      BY <2>2
    <3> QED BY <2>2, <3>1, <3>2
  <2>3. CASE q = p + n - BufferSize /\ p + n = 2 * BufferSize
    <3>1. q % BufferSize = 0
      BY <2>3
    <3>2. (p + n) % BufferSize = 0
      BY <2>3
    <3> QED BY <3>1, <3>2
  <2> QED BY <1>4, <2>1, <2>2, <2>3
<1> QED BY <1>1, <1>2, <1>3, <1>5

\* A length byte says something up to Longest.
LEMMA LongestNat == Longest \in Nat /\ \A f \in Frame : Length[f] \in Nat
<1> DEFINE P == { k \in Nat : k <= Len(Length) =>
                    \E x \in Nat : /\ x = 0 \/ \E i \in 1 .. k : x = Length[i]
                                   /\ \A i \in 1 .. k : Length[i] <= x }
<1>0. Len(Length) \in Nat /\ DOMAIN Length = 1 .. Len(Length)
      /\ \A i \in 1 .. Len(Length) : Length[i] \in Nat
  OBVIOUS
<1>1. 0 \in P
  OBVIOUS
<1>2. ASSUME NEW k \in P PROVE k + 1 \in P
  <2>0. k \in Nat
    OBVIOUS
  <2>1. SUFFICES ASSUME k + 1 <= Len(Length)
                 PROVE  \E x \in Nat : /\ x = 0 \/ \E i \in 1 .. k + 1 : x = Length[i]
                                       /\ \A i \in 1 .. k + 1 : Length[i] <= x
    BY <2>0
  <2>2. PICK x \in Nat : /\ x = 0 \/ \E i \in 1 .. k : x = Length[i]
                         /\ \A i \in 1 .. k : Length[i] <= x
    BY <1>0, <2>0, <2>1
  <2>3. Length[k + 1] \in Nat /\ \A i \in 1 .. k + 1 : i \in 1 .. k \/ i = k + 1
    BY <1>0, <2>0, <2>1
  <2>4. PICK z \in Nat : z = Length[k + 1]
    BY <2>3
  <2>5. CASE z <= x
    <3>1. x = 0 \/ \E i \in 1 .. k + 1 : x = Length[i]
      BY <2>0, <2>2
    <3>2. \A i \in 1 .. k + 1 : Length[i] <= x
      BY <2>2, <2>3, <2>4, <2>5
    <3> QED BY <3>1, <3>2
  <2>6. CASE ~ (z <= x)
    <3>1. ASSUME NEW i \in 1 .. k PROVE Length[i] <= z
      <4>1. i \in 1 .. Len(Length)
        BY <1>0, <2>0, <2>1
      <4>2. PICK y \in Nat : y = Length[i]
        BY <1>0, <4>1
      <4>3. y <= x
        BY <2>2, <4>2
      <4> QED BY <2>6, <4>2, <4>3
    <3>2. \A i \in 1 .. k + 1 : Length[i] <= z
      BY <2>3, <2>4, <3>1
    <3>3. \E i \in 1 .. k + 1 : z = Length[i]
      BY <2>0, <2>4
    <3> QED BY <3>2, <3>3
  <2> QED BY <2>5, <2>6
<1>3. Len(Length) \in P
  <2> HIDE DEF P
  <2>1. P \subseteq Nat
    BY DEF P
  <2> QED BY <1>0, <1>1, <1>2, <2>1, SetInduction
<1>4. PICK x \in Nat : /\ x = 0 \/ \E i \in 1 .. Len(Length) : x = Length[i]
                       /\ \A i \in 1 .. Len(Length) : Length[i] <= x
  BY <1>0, <1>3
<1> HIDE DEF P
<1> DEFINE S == Range(Length) \cup {0}
<1>5. x \in S /\ \A y \in S : x >= y
  BY <1>0, <1>4 DEF Range
<1>6. S \subseteq Nat
  BY <1>0 DEF Range
<1>7. Longest \in S
  <2> HIDE DEF S
  <2>1. Longest = CHOOSE m \in S : \A y \in S : m >= y
    BY DEF Longest, Max, S
  <2> QED BY <1>5, <2>1
<1> QED BY <1>0, <1>6, <1>7 DEF Frame

-----------------------------------------------------------------------------
(* What is true whatever the port does, also during Purge.                 *)

\* There is room for the chunk, the watcher is there until the wait is over, and
\* the threshold is 1 between frames.
FrameInv ==
  /\ TypeOK
  /\ copied => chunk # << >>
  /\ dataSize + Len(chunk) <= BufferSize
  /\ step \in {"test", "wait"} => watching
  /\ WaitNotMissed
  /\ WokenByOne

\* The part of TypeOK about the frame, and the rest.
FrameTyped ==
  /\ frame \in Seq(Byte)
  /\ Len(frame) = (CASE goal = "first" -> 0 [] goal = "length" -> 1 [] goal = "body" -> 2)

RestTyped ==
  /\ line \in Seq(Byte) /\ chunk \in Seq(Byte) /\ copied \in BOOLEAN
  /\ buffer \in [0 .. BufferSize - 1 -> Byte]
  /\ head \in 0 .. BufferSize /\ tail \in 0 .. BufferSize
  /\ dataSize \in 0 .. BufferSize /\ signalSize \in Nat
  /\ watching \in BOOLEAN /\ waitEvent \in BOOLEAN
  /\ step \in {"add", "test", "wait", "tail", "head", "size"}
  /\ goal \in {"first", "length", "body"}
  /\ processed \subseteq Frame /\ clean \subseteq 1 .. sent
  /\ sent \in 0 .. Len(Length) /\ faults \in 0 .. Faults

LEMMA TypeParts == TypeOK <=> FrameTyped /\ RestTyped
BY DEF TypeOK, FrameTyped, RestTyped

LEMMA BytesType ==
  ASSUME NEW f \in Frame
  PROVE  Bytes(f) \in Seq(Byte) /\ Len(Bytes(f)) = Length[f] + 2
<1>1. Length[f] + 2 \in Nat
  BY LongestNat
<1>2. ASSUME NEW i \in 1 .. Length[f] + 2 PROVE << f, i >> \in Byte
  <2>1. << f, i >> \in Range(Bytes(f))
    BY DEF Range, Bytes
  <2> QED BY <2>1 DEF Byte
<1> QED BY <1>1, <1>2 DEF Bytes

LEMMA BadByte == Bad \in Byte
BY DEF Byte

LEMMA BlockType ==
  ASSUME TypeOK, NEW p \in 0 .. BufferSize, NEW n \in 0 .. BufferSize
  PROVE  Block(p, n) \in Seq(Byte) /\ Len(Block(p, n)) = n
<1>1. ASSUME NEW i \in 1 .. n PROVE (p + i - 1) % BufferSize \in 0 .. BufferSize - 1
  <2>1. PICK u \in 0 .. 3 * BufferSize - 1 : u = p + i - 1
    OBVIOUS
  <2> QED BY <2>1, Wrap
<1>2. \A i \in 1 .. n : buffer[(p + i - 1) % BufferSize] \in Byte
  BY <1>1 DEF TypeOK
<1> QED BY <1>2 DEF Block

LEMMA InitFrameInv == Init => FrameInv
<1> SUFFICES ASSUME Init PROVE FrameInv
  OBVIOUS
<1>1. Bad \in Byte /\ Len(Length) \in Nat
  BY BadByte
<1>2. TypeOK
  <2>1. buffer \in [0 .. BufferSize - 1 -> Byte]
    BY <1>1 DEF Init
  <2>2. /\ line \in Seq(Byte) /\ chunk \in Seq(Byte) /\ frame \in Seq(Byte)
        /\ goal = "first" /\ Len(frame) = 0
    BY DEF Init
  <2>3. Len(frame) = (CASE goal = "first" -> 0 [] goal = "length" -> 1 [] goal = "body" -> 2)
    BY <2>2
  <2>4. /\ head \in 0 .. BufferSize /\ tail \in 0 .. BufferSize
        /\ dataSize \in 0 .. BufferSize /\ signalSize \in Nat
        /\ processed \subseteq Frame /\ clean \subseteq 1 .. sent
        /\ sent \in 0 .. Len(Length) /\ faults \in 0 .. Faults
    BY <1>1 DEF Init
  <2> QED BY <2>1, <2>2, <2>3, <2>4 DEF Init, TypeOK
<1> QED BY <1>2 DEF Init, FrameInv, WaitNotMissed, WokenByOne

LEMMA SendFrameKeeps == ASSUME FrameInv, SendFrame PROVE FrameInv'
<1>0. sent \in 0 .. Len(Length) /\ clean \subseteq 1 .. sent /\ Len(Length) \in Nat
      /\ DOMAIN Length = 1 .. Len(Length)
  BY DEF FrameInv, TypeOK
<1>1. sent' \in Frame /\ sent' \in 0 .. Len(Length)
  BY <1>0 DEF SendFrame, Frame
<1>2. line' \in Seq(Byte)
  <2>1. PICK f \in Frame : f = sent'
    BY <1>1
  <2>2. line' = Bytes(f)
    BY <2>1 DEF SendFrame
  <2> QED BY <2>2, BytesType
<1>3. clean' \subseteq 1 .. sent'
  BY <1>0 DEF SendFrame
<1>4. TypeOK'
  BY <1>1, <1>2, <1>3 DEF FrameInv, TypeOK, SendFrame, streamVars, waitVars, readerVars
<1> QED BY <1>4 DEF FrameInv, SendFrame, streamVars, waitVars, readerVars, WaitNotMissed, WokenByOne, IsSignalled

LEMMA DamageKeeps == ASSUME FrameInv, Damage PROVE FrameInv'
<1>1. line' \in Seq(Byte)
  <2>1. Bad \in Byte /\ line \in Seq(Byte) /\ line # << >>
    BY BadByte DEF FrameInv, TypeOK, Damage
  <2>2. Tail(line) \in Seq(Byte) /\ [line EXCEPT ![1] = Bad] \in Seq(Byte)
    BY <2>1
  <2> QED BY <2>2 DEF Damage
<1>0. faults \in 0 .. Faults /\ clean \subseteq 1 .. sent
  BY DEF FrameInv, TypeOK
<1>2. faults' \in 0 .. Faults /\ clean' \subseteq 1 .. sent'
  <2>1. faults < Faults /\ faults' = faults + 1 /\ clean' = clean \ {sent} /\ sent' = sent
    BY DEF Damage, Fault
  <2>2. faults' \in 0 .. Faults
    BY <1>0, <2>1
  <2>3. clean' \subseteq 1 .. sent'
    BY <1>0, <2>1
  <2> QED BY <2>2, <2>3
<1>3. TypeOK'
  BY <1>1, <1>2 DEF FrameInv, TypeOK, Damage, streamVars, waitVars, readerVars
<1> QED BY <1>3 DEF FrameInv, Damage, streamVars, waitVars, readerVars, WaitNotMissed, WokenByOne, IsSignalled

LEMMA ReadPortKeeps ==
  ASSUME FrameInv, ReadPort
  PROVE  FrameInv'
<1>1. PICK n \in 1 .. Min({Len(line), Chunk}) :
        /\ line' = SubSeq(line, n + 1, Len(line))
        /\ chunk' = Fits(SubSeq(line, 1, n))
        /\ clean' = IF Len(chunk') < n THEN clean \ {sent} ELSE clean
  BY DEF ReadPort
<1>2. Min({Len(line), Chunk}) \in Nat /\ Min({Len(line), Chunk}) <= Len(line)
  <2>0. line \in Seq(Byte)
    BY DEF FrameInv, TypeOK
  <2>1. PICK m \in Nat : m = Len(line)
    BY <2>0
  <2>2. \E x \in {m, Chunk} : \A y \in {m, Chunk} : x =< y
    OBVIOUS
  <2>3. Min({m, Chunk}) \in {m, Chunk} /\ Min({m, Chunk}) <= m
    BY <2>2 DEF Min
  <2> QED BY <2>1, <2>3
<1>3. n \in 1 .. Len(line) /\ line \in Seq(Byte)
  BY <1>2 DEF FrameInv, TypeOK
<1>4. line' \in Seq(Byte) /\ SubSeq(line, 1, n) \in Seq(Byte)
  BY <1>1, <1>3
<1>5. chunk' \in Seq(Byte) /\ dataSize + Len(chunk') <= BufferSize
  <2>1. PICK c \in Seq(Byte) : c = SubSeq(line, 1, n)
    BY <1>4
  <2>2. dataSize \in 0 .. BufferSize
    BY DEF FrameInv, TypeOK
  <2>3. Fits(c) \in Seq(Byte) /\ dataSize + Len(Fits(c)) <= BufferSize
    BY <2>2 DEF Fits
  <2> QED BY <1>1, <2>1, <2>3
<1>6. clean' \subseteq 1 .. sent
  BY <1>1 DEF FrameInv, TypeOK
<1>7. ~ copied
  BY DEF FrameInv, ReadPort
<1>8. TypeOK'
  BY <1>4, <1>5, <1>6 DEF FrameInv, TypeOK, ReadPort, streamVars, waitVars, readerVars
<1> QED BY <1>5, <1>7, <1>8
        DEF FrameInv, ReadPort, streamVars, waitVars, readerVars, WaitNotMissed, WokenByOne, IsSignalled

LEMMA CopyKeeps == ASSUME FrameInv, Copy PROVE FrameInv'
<1>0. /\ chunk \in Seq(Byte) /\ chunk # << >> /\ Len(chunk) <= BufferSize
      /\ buffer \in [0 .. BufferSize - 1 -> Byte]
      /\ head \in 0 .. BufferSize /\ dataSize \in 0 .. BufferSize
  BY DEF FrameInv, TypeOK, Copy
<1>1. ASSUME NEW k, k \subseteq 1 .. Len(chunk), k # {},
             \A i, j \in k : i = j
      PROVE  chunk[Max(k)] \in Byte
  <2>0. PICK j \in k : TRUE
    BY <1>1
  <2>1. \A y \in k : j >= y
    <3>1. j \in Nat /\ \A y \in k : y = j
      BY <1>0, <1>1
    <3> QED BY <3>1
  <2>2. Max(k) \in k
    BY <2>1 DEF Max
  <2> QED BY <1>0, <1>1, <2>2
<1>2. buffer' \in [0 .. BufferSize - 1 -> Byte]
  <2> SUFFICES ASSUME NEW i \in 0 .. BufferSize - 1
               PROVE  LET k == { j \in 1 .. Len(chunk) : (head + j - 1) % BufferSize = i }
                      IN  (IF k = {} THEN buffer[i] ELSE chunk[Max(k)]) \in Byte
    BY <1>0 DEF Copy
  <2> DEFINE k == { j \in 1 .. Len(chunk) : (head + j - 1) % BufferSize = i }
  <2>1. ASSUME NEW a \in k, NEW b \in k, a < b PROVE FALSE
    <3>1. PICK x \in 0 .. 3 * BufferSize - 1 : x = head + a - 1
      BY <1>0
    <3>2. PICK y \in 0 .. 3 * BufferSize - 1 : y = head + b - 1
      BY <1>0
    <3>3. x < y /\ y < x + BufferSize
      BY <1>0, <2>1, <3>1, <3>2
    <3>4. x % BufferSize # y % BufferSize
      BY <3>3, WrapApart
    <3> QED BY <3>1, <3>2, <3>4
  <2>2. \A a, b \in k : a = b
    <3>1. \A a, b \in k : a \in Int /\ b \in Int /\ ~ (a < b) /\ ~ (b < a)
      BY <1>0, <2>1
    <3> QED BY <3>1
  <2>3. k \subseteq 1 .. Len(chunk)
    OBVIOUS
  <2> HIDE DEF k
  <2>4. (IF k = {} THEN buffer[i] ELSE chunk[Max(k)]) \in Byte
    BY <1>0, <1>1, <2>2, <2>3
  <2> QED BY <2>4 DEF k
<1>3. head' \in 0 .. BufferSize
  <2>1. PICK n \in 0 .. BufferSize : n = Len(chunk)
    BY <1>0
  <2>2. Advance(head, n) \in 0 .. BufferSize
    BY <1>0, AdvanceWraps
  <2> QED BY <2>1, <2>2 DEF Copy
<1>4. TypeOK'
  BY <1>2, <1>3 DEF FrameInv, TypeOK, Copy, waitVars, readerVars, boundVars
<1> QED BY <1>0, <1>4
        DEF FrameInv, Copy, waitVars, readerVars, boundVars, WaitNotMissed, WokenByOne, IsSignalled

LEMMA CountKeeps == ASSUME FrameInv, Count PROVE FrameInv'
<1>0. /\ chunk \in Seq(Byte) /\ Len(chunk) \in Nat /\ dataSize + Len(chunk) <= BufferSize
      /\ dataSize \in 0 .. BufferSize /\ signalSize \in Nat
      /\ watching \in BOOLEAN /\ waitEvent \in BOOLEAN
  BY DEF FrameInv, TypeOK
<1>1. /\ dataSize' = dataSize + Len(chunk) /\ dataSize' \in 0 .. BufferSize
      /\ chunk' = << >> /\ Len(chunk') = 0 /\ signalSize' = signalSize
  BY <1>0 DEF Count
<1>2. waitEvent' \in BOOLEAN
  BY <1>0 DEF Count, Notifies
<1>3. WaitNotMissed'
  BY <1>0, <1>1 DEF FrameInv, Count, Notifies, WaitNotMissed, IsSignalled, waitVars, readerVars
<1>4. TypeOK'
  <2>1. FrameTyped'
    BY <1>1, <1>2, TypeParts DEF FrameInv, FrameTyped, Count, readerVars, boundVars
  <2>2. RestTyped'
    <3>1. line' = line /\ buffer' = buffer /\ head' = head /\ tail' = tail /\ watching' = watching
          /\ step' = step /\ goal' = goal /\ processed' = processed /\ clean' = clean
          /\ sent' = sent /\ faults' = faults /\ copied' = FALSE
      BY DEF Count, readerVars, boundVars
    <3>2. RestTyped /\ chunk' \in Seq(Byte)
      BY <1>1, TypeParts DEF FrameInv
    <3> QED BY <1>0, <1>1, <1>2, <3>1, <3>2 DEF RestTyped
  <2> QED BY <2>1, <2>2 DEF TypeOK, FrameTyped, RestTyped
<1> QED BY <1>1, <1>3, <1>4 DEF FrameInv, Count, readerVars, boundVars, WokenByOne

LEMMA AddWatcherKeeps == ASSUME FrameInv, AddWatcher PROVE FrameInv'
<1>1. TypeOK'
  BY DEF FrameInv, TypeOK, AddWatcher, portVars, streamVars, boundVars
<1> QED BY <1>1 DEF FrameInv, AddWatcher, portVars, streamVars, boundVars, WaitNotMissed, WokenByOne, IsSignalled

LEMMA TestAtOnceKeeps == ASSUME FrameInv, TestAtOnce PROVE FrameInv'
<1>0. waitEvent' \in BOOLEAN
  BY DEF FrameInv, TypeOK, TestAtOnce, IsSignalled
<1>1. TypeOK'
  BY <1>0 DEF FrameInv, TypeOK, TestAtOnce, portVars, streamVars, boundVars
<1> QED BY <1>1 DEF FrameInv, TestAtOnce, portVars, streamVars, boundVars, WaitNotMissed, WokenByOne, IsSignalled

LEMMA TimeOutKeeps == ASSUME FrameInv, TimeOut PROVE FrameInv'
<1>1. faults' \in 0 .. Faults /\ clean' \subseteq 1 .. sent'
  <2>0. faults \in 0 .. Faults /\ clean \subseteq 1 .. sent
    BY DEF FrameInv, TypeOK
  <2>1. sent' = sent /\ clean' \subseteq clean
    BY DEF TimeOut
  <2>2. faults' = faults \/ (faults < Faults /\ faults' = faults + 1)
    BY DEF TimeOut, Fault
  <2>3. faults' \in 0 .. Faults
    BY <2>0, <2>2
  <2> QED BY <2>0, <2>1, <2>3
<1>2. frame' = << >> /\ goal' = "first" /\ frame' \in Seq(Byte) /\ Len(frame') = 0
      /\ signalSize' = 1
  BY DEF TimeOut, StartOver
<1>3. TypeOK'
  <2>1. FrameTyped'
    BY <1>1, <1>2, TypeParts DEF FrameInv, FrameTyped, TimeOut, EndWait, portVars
  <2>2. RestTyped'
    BY <1>1, <1>2, TypeParts DEF FrameInv, RestTyped, TimeOut, EndWait, portVars
  <2> QED BY <2>1, <2>2 DEF TypeOK, FrameTyped, RestTyped
<1> QED BY <1>2, <1>3 DEF FrameInv, TimeOut, EndWait, portVars, WaitNotMissed, WokenByOne

\* What Get leaves, whatever is done with what it takes.
LEMMA GetKeeps ==
  ASSUME FrameInv, NEW n \in Nat, Get(n)
  PROVE  /\ n \in 0 .. BufferSize
         /\ tail' \in 0 .. BufferSize /\ dataSize' \in 0 .. BufferSize
         /\ dataSize' = dataSize - n
         /\ watching' = FALSE /\ waitEvent' = FALSE
         /\ Block(tail, n) \in Seq(Byte) /\ Len(Block(tail, n)) = n
         /\ dataSize' + Len(chunk) <= BufferSize
<1>0. /\ dataSize \in 0 .. BufferSize /\ tail \in 0 .. BufferSize /\ TypeOK
      /\ dataSize + Len(chunk) <= BufferSize /\ Len(chunk) \in Nat
  BY DEF FrameInv, TypeOK
<1>1. n \in 0 .. BufferSize /\ dataSize' = dataSize - n /\ dataSize' \in 0 .. BufferSize
  BY <1>0 DEF Get
<1>2. tail' \in 0 .. BufferSize
  BY <1>0, <1>1, AdvanceWraps DEF Get
<1>3. Block(tail, n) \in Seq(Byte) /\ Len(Block(tail, n)) = n
  BY <1>0, <1>1, BlockType
<1>4. dataSize' + Len(chunk) <= BufferSize
  BY <1>0, <1>1
<1> QED BY <1>1, <1>2, <1>3, <1>4 DEF Get, EndWait

LEMMA FirstKeeps == ASSUME FrameInv, First PROVE FrameInv'
<1>1. Get(1) /\ goal = "first"
  BY DEF First
<1>2. /\ tail' \in 0 .. BufferSize /\ dataSize' \in 0 .. BufferSize
      /\ watching' = FALSE /\ waitEvent' = FALSE
      /\ Block(tail, 1) \in Seq(Byte) /\ Len(Block(tail, 1)) = 1
      /\ dataSize' + Len(chunk) <= BufferSize
  BY <1>1, GetKeeps
<1>3. /\ goal' \in {"first", "length"} /\ frame' \in Seq(Byte)
      /\ Len(frame') = (CASE goal' = "first" -> 0 [] goal' = "length" -> 1 [] goal' = "body" -> 2)
      /\ step' \in {"add", "tail"} /\ (goal' = "first" => signalSize' = 1)
  BY <1>1, <1>2 DEF First, FrameInv, TypeOK, WokenByOne
<1>4. TypeOK'
  BY <1>2, <1>3 DEF FrameInv, TypeOK, First, portVars, boundVars
<1> QED BY <1>2, <1>3, <1>4 DEF FrameInv, First, portVars, boundVars, WaitNotMissed, WokenByOne

LEMMA ReadLengthKeeps == ASSUME FrameInv, ReadLength PROVE FrameInv'
<1>1. Get(1) /\ goal = "length" /\ goal' = "body" /\ step' = "add"
      /\ frame' = frame \o Block(tail, 1)
  BY DEF ReadLength
<1>2. /\ tail' \in 0 .. BufferSize /\ dataSize' \in 0 .. BufferSize
      /\ watching' = FALSE /\ waitEvent' = FALSE
      /\ Block(tail, 1) \in Seq(Byte) /\ Len(Block(tail, 1)) = 1
      /\ dataSize' + Len(chunk) <= BufferSize
  BY <1>1, GetKeeps
<1>3. frame' \in Seq(Byte) /\ Len(frame') = 2
  <2>1. frame \in Seq(Byte) /\ Len(frame) = 1
    BY <1>1 DEF FrameInv, TypeOK
  <2>2. PICK b \in Seq(Byte) : b = Block(tail, 1) /\ Len(b) = 1
    BY <1>2
  <2>3. PICK a \in Seq(Byte) : a = frame /\ Len(a) = 1
    BY <2>1
  <2>4. a \o b \in Seq(Byte) /\ Len(a \o b) = 2
    <3>1. a \o b \in Seq(Byte) /\ Len(a \o b) = Len(a) + Len(b)
      OBVIOUS
    <3> QED BY <2>2, <2>3, <3>1
  <2> QED BY <1>1, <2>2, <2>3, <2>4
<1>4. signalSize' \in Nat
  <2>1. CASE buffer[tail % BufferSize] \in { << f, 2 >> : f \in Frame }
    <3>1. PICK f \in Frame : buffer[tail % BufferSize] = << f, 2 >>
      BY <2>1
    <3>2. signalSize' = Length[f]
      BY <2>1, <3>1 DEF ReadLength
    <3> QED BY <3>2, LongestNat
  <2>2. CASE buffer[tail % BufferSize] \notin { << f, 2 >> : f \in Frame }
    <3>1. signalSize' \in 0 .. Longest
      BY <2>2 DEF ReadLength
    <3> QED BY <3>1, LongestNat
  <2> QED BY <2>1, <2>2
<1>5. TypeOK'
  BY <1>1, <1>2, <1>3, <1>4 DEF FrameInv, TypeOK, ReadLength, portVars, boundVars
<1> QED BY <1>1, <1>2, <1>5 DEF FrameInv, ReadLength, portVars, boundVars, WaitNotMissed, WokenByOne

LEMMA ReadBodyKeeps == ASSUME FrameInv, ReadBody PROVE FrameInv'
<1>1. /\ Get(signalSize) /\ signalSize \in Nat
      /\ goal' = "first" /\ frame' = << >> /\ signalSize' = 1 /\ step' \in {"add", "tail"}
  BY DEF ReadBody, StartOver, FrameInv, TypeOK
<1>2. /\ tail' \in 0 .. BufferSize /\ dataSize' \in 0 .. BufferSize
      /\ watching' = FALSE /\ waitEvent' = FALSE
      /\ dataSize' + Len(chunk) <= BufferSize
  <2>1. PICK n \in Nat : n = signalSize
    BY <1>1
  <2>2. Get(n)
    BY <1>1, <2>1
  <2> QED BY <2>2, GetKeeps
<1>3. processed' \subseteq Frame
  BY DEF ReadBody, FrameInv, TypeOK
<1>4. frame' \in Seq(Byte) /\ Len(frame') = 0
  BY <1>1
<1>5. TypeOK'
  <2>1. FrameTyped'
    BY <1>1, <1>2, <1>3, <1>4, TypeParts DEF FrameInv, FrameTyped, ReadBody, portVars, boundVars
  <2>2. RestTyped'
    BY <1>1, <1>2, <1>3, <1>4, TypeParts DEF FrameInv, RestTyped, ReadBody, portVars, boundVars
  <2> QED BY <2>1, <2>2 DEF TypeOK, FrameTyped, RestTyped
<1> QED BY <1>1, <1>2, <1>5 DEF FrameInv, ReadBody, portVars, boundVars, WaitNotMissed, WokenByOne

LEMMA PurgeKeeps == ASSUME FrameInv, Purge PROVE FrameInv'
<1>0. FrameTyped /\ RestTyped
  BY TypeParts DEF FrameInv
<1>1. CASE PurgeTail
  <2>1. TypeOK'
    <3>1. FrameTyped'
      BY <1>0, <1>1 DEF FrameTyped, PurgeTail
    <3>2. RestTyped'
      BY <1>0, <1>1 DEF RestTyped, PurgeTail, portVars, waitVars, boundVars
    <3> QED BY <3>1, <3>2 DEF TypeOK, FrameTyped, RestTyped
  <2> QED BY <1>1, <2>1 DEF FrameInv, PurgeTail, portVars, waitVars, boundVars, WaitNotMissed, WokenByOne, IsSignalled
<1>2. CASE PurgeHead
  <2>1. TypeOK'
    <3>1. FrameTyped'
      BY <1>0, <1>2 DEF FrameTyped, PurgeHead
    <3>2. RestTyped'
      BY <1>0, <1>2 DEF RestTyped, PurgeHead, portVars, waitVars, boundVars
    <3> QED BY <3>1, <3>2 DEF TypeOK, FrameTyped, RestTyped
  <2> QED BY <1>2, <2>1 DEF FrameInv, PurgeHead, portVars, waitVars, boundVars, WaitNotMissed, WokenByOne, IsSignalled
<1>3. CASE PurgeSize
  <2>1. TypeOK'
    <3>1. FrameTyped'
      BY <1>0, <1>3 DEF FrameTyped, PurgeSize
    <3>2. RestTyped'
      BY <1>0, <1>3 DEF RestTyped, PurgeSize, portVars, waitVars, boundVars
    <3> QED BY <3>1, <3>2 DEF TypeOK, FrameTyped, RestTyped
  <2>2. dataSize' + Len(chunk') <= BufferSize
    <3>1. Len(chunk) \in Nat /\ dataSize \in 0 .. BufferSize /\ dataSize + Len(chunk) <= BufferSize
      BY <1>0 DEF RestTyped, FrameInv
    <3>2. dataSize' = 0 /\ chunk' = chunk
      BY <1>3 DEF PurgeSize, portVars
    <3> QED BY <3>1, <3>2
  <2> QED BY <1>3, <2>1, <2>2 DEF FrameInv, PurgeSize, portVars, waitVars, boundVars, WaitNotMissed, WokenByOne, IsSignalled
<1> QED BY <1>1, <1>2, <1>3 DEF Purge

LEMMA NextKeeps == FrameInv /\ [Next]_vars => FrameInv'
<1> SUFFICES ASSUME FrameInv, [Next]_vars PROVE FrameInv'
  OBVIOUS
<1>1. CASE UNCHANGED vars
  BY <1>1 DEF FrameInv, TypeOK, WaitNotMissed, WokenByOne, IsSignalled,
              vars, portVars, streamVars, waitVars, readerVars, boundVars
<1>2. CASE Next
  BY <1>2, SendFrameKeeps, DamageKeeps, ReadPortKeeps, CopyKeeps, CountKeeps, AddWatcherKeeps,
     TestAtOnceKeeps, TimeOutKeeps, FirstKeeps, ReadLengthKeeps, ReadBodyKeeps, PurgeKeeps
     DEF Next, Port, Reader
<1> QED BY <1>1, <1>2

LEMMA FrameInvariant == Spec => []FrameInv
BY InitFrameInv, NextKeeps, PTL DEF Spec

\* Between frames the driver thread wakes up for a single byte (Driver::ReadMsg sets the
\* threshold back on every way out), also when the port is read during Purge.
THEOREM WokenByOneCorrect == Spec => []WokenByOne
<1>1. FrameInv => WokenByOne
  BY DEF FrameInv
<1> QED BY <1>1, FrameInvariant, PTL

\* A wait is not slept through: WaitImpl::AddWatcher adds before it tests, and Put tells the
\* watchers after it has counted; also when the port is read during Purge.
THEOREM WaitNotMissedCorrect == Spec => []WaitNotMissed
<1>1. FrameInv => WaitNotMissed
  BY DEF FrameInv
<1> QED BY <1>1, FrameInvariant, PTL

-----------------------------------------------------------------------------
(* The ring, when the port is not read during Purge.                       *)

\* The end of what is in the ring, counted or not.
RingEnd == tail + dataSize + (IF copied THEN Len(chunk) ELSE 0)

Resetting == step \in {"head", "size"}

\* Nothing is on its way into the ring while it is reset, and the head is at its end otherwise.
RingInv ==
  /\ Resetting => chunk = << >> /\ tail = 0
  /\ step = "size" => head = 0
  /\ ~Resetting => RingEnd % BufferSize = head % BufferSize

LEMMA RingTypes ==
  ASSUME FrameInv
  PROVE  /\ head \in 0 .. BufferSize /\ tail \in 0 .. BufferSize
         /\ dataSize \in 0 .. BufferSize /\ signalSize \in Nat
         /\ Len(chunk) \in 0 .. BufferSize /\ dataSize + Len(chunk) <= BufferSize
         /\ chunk # << >> => Len(chunk) > 0
         /\ buffer \in [0 .. BufferSize - 1 -> Byte] /\ copied \in BOOLEAN
<1>1. RestTyped
  BY TypeParts DEF FrameInv
<1>2. /\ head \in 0 .. BufferSize /\ tail \in 0 .. BufferSize
      /\ dataSize \in 0 .. BufferSize /\ signalSize \in Nat /\ chunk \in Seq(Byte)
      /\ buffer \in [0 .. BufferSize - 1 -> Byte] /\ copied \in BOOLEAN
  BY <1>1 DEF RestTyped
<1>3. Len(chunk) \in Nat /\ dataSize + Len(chunk) <= BufferSize /\ (chunk # << >> => Len(chunk) > 0)
  BY <1>2 DEF FrameInv
<1> QED BY <1>2, <1>3

LEMMA InitRingInv == Init => RingInv
BY DEF Init, RingInv, RingEnd, Resetting

\* Steps that leave the ring and the chunk alone.
LEMMA RingUntouched ==
  ASSUME RingInv, UNCHANGED << chunk, copied, head, tail, dataSize >>,
         step' = step \/ (~Resetting /\ ~Resetting')
  PROVE  RingInv'
BY DEF RingInv, RingEnd, Resetting

LEMMA CopyRing == ASSUME FrameInv, RingInv, Copy PROVE RingInv'
<1>1. ~Resetting /\ ~copied /\ chunk # << >> /\ step' = step
  BY DEF Copy, RingInv, readerVars
<1>2. PICK n \in 1 .. BufferSize : n = Len(chunk) /\ dataSize + n <= BufferSize
  BY <1>1, RingTypes
<1>3. head' % BufferSize = (head + n) % BufferSize
  BY <1>2, RingTypes, AdvanceWraps DEF Copy
<1>4. PICK x \in 0 .. 2 * BufferSize - 1 : x = tail + dataSize
  BY <1>2, RingTypes
<1>5. x % BufferSize = head % BufferSize
  BY <1>1, <1>4, RingTypes DEF RingInv, RingEnd
<1>6. head \in 0 .. 2 * BufferSize - 1
  BY RingTypes
<1>7. (x + n) % BufferSize = (head + n) % BufferSize
  <2>1. PICK h \in 0 .. 2 * BufferSize - 1 : h = head
    BY <1>6
  <2>2. x % BufferSize = h % BufferSize /\ n \in 0 .. BufferSize
    BY <1>2, <1>5, <2>1
  <2>3. (x + n) % BufferSize = (h + n) % BufferSize
    BY <2>2, WrapPlus
  <2> QED BY <2>1, <2>3
<1>8. RingEnd' = x + n
  BY <1>2, <1>4 DEF RingEnd, Copy
<1> QED BY <1>1, <1>3, <1>7, <1>8 DEF RingInv, Resetting

LEMMA CountRing == ASSUME FrameInv, RingInv, Count PROVE RingInv'
<1>1. ~Resetting /\ step' = step /\ head' = head
  BY DEF Count, RingInv, FrameInv, readerVars
<1>2. RingEnd' = RingEnd
  <2>1. tail \in Nat /\ dataSize \in Nat /\ Len(chunk) \in Nat
    BY RingTypes
  <2> QED BY <2>1 DEF RingEnd, Count
<1> QED BY <1>1, <1>2 DEF RingInv, Resetting

LEMMA GetRing ==
  ASSUME FrameInv, RingInv, NEW n \in Nat, Get(n), UNCHANGED << portVars, head >>,
         ~Resetting'
  PROVE  RingInv'
<1>1. ~Resetting /\ ~copied /\ ~copied'
  BY DEF Get, Resetting, portVars
<1>2. /\ n \in 0 .. BufferSize /\ dataSize' = dataSize - n /\ n <= dataSize
      /\ tail' \in 0 .. BufferSize /\ dataSize' \in 0 .. BufferSize
  BY GetKeeps DEF Get
<1>3. tail' = tail + n \/ tail' = tail + n - BufferSize
  BY <1>2, RingTypes, AdvanceWraps DEF Get
<1>4. PICK x \in 0 .. 2 * BufferSize : x = tail + dataSize
  BY RingTypes
<1>5. PICK y \in 0 .. 2 * BufferSize : y = tail' + dataSize' /\ (y = x \/ y = x - BufferSize)
  <2>1. PICK t \in 0 .. BufferSize, u \in 0 .. BufferSize : t = tail' /\ u = dataSize'
    BY <1>2
  <2>2. t + u \in 0 .. 2 * BufferSize
    OBVIOUS
  <2>3. t + u = x \/ t + u = x - BufferSize
    <3>1. PICK a \in 0 .. BufferSize, d \in 0 .. BufferSize : a = tail /\ d = dataSize
      BY RingTypes
    <3>2. u = d - n /\ (t = a + n \/ t = a + n - BufferSize) /\ x = a + d
      BY <1>2, <1>3, <1>4, <2>1, <3>1
    <3> QED BY <3>2
  <2> QED BY <2>1, <2>2, <2>3
<1>6. y % BufferSize = x % BufferSize
  <2>1. CASE y = x
    BY <2>1
  <2>2. CASE y = x - BufferSize
    <3>1. y \in 0 .. 2 * BufferSize - 1 /\ x = y + BufferSize
      BY <2>2
    <3> QED BY <3>1, WrapRound
  <2> QED BY <1>5, <2>1, <2>2
<1>7. RingEnd = x /\ RingEnd' = y
  BY <1>1, <1>4, <1>5, RingTypes DEF RingEnd
<1>8. x % BufferSize = head % BufferSize /\ head' = head
  BY <1>1, <1>7 DEF RingInv
<1>9. RingEnd' % BufferSize = head' % BufferSize
  BY <1>6, <1>7, <1>8
<1> QED BY <1>9 DEF RingInv, Resetting

LEMMA NextRing == ASSUME ~Racy, FrameInv, RingInv, [Next]_vars PROVE RingInv'
<1>1. CASE UNCHANGED vars
  BY <1>1, RingUntouched DEF vars, portVars, streamVars, readerVars
<1>2. CASE SendFrame
  BY <1>2, RingUntouched DEF SendFrame, streamVars, readerVars
<1>3. CASE Damage
  BY <1>3, RingUntouched DEF Damage, streamVars, readerVars
<1>4. CASE ReadPort
  <2>1. ~Resetting /\ ~copied
    BY <1>4 DEF ReadPort, Purging, Resetting, FrameInv
  <2> QED BY <1>4, <2>1 DEF ReadPort, RingInv, RingEnd, Resetting, streamVars, readerVars
<1>5. CASE AddWatcher
  BY <1>5, RingUntouched DEF AddWatcher, portVars, streamVars, Resetting
<1>6. CASE TestAtOnce
  BY <1>6, RingUntouched DEF TestAtOnce, portVars, streamVars, Resetting
<1>7. CASE TimeOut
  BY <1>7, RingUntouched DEF TimeOut, portVars, Resetting
<1>8. CASE First
  <2>1. Get(1) /\ UNCHANGED << portVars, head >> /\ ~Resetting'
    BY <1>8 DEF First, Get, Resetting
  <2> QED BY <2>1, GetRing
<1>9. CASE ReadLength
  <2>1. Get(1) /\ UNCHANGED << portVars, head >> /\ ~Resetting'
    BY <1>9 DEF ReadLength, Resetting
  <2> QED BY <2>1, GetRing
<1>10. CASE ReadBody
  <2>1. Get(signalSize) /\ UNCHANGED << portVars, head >> /\ ~Resetting'
    BY <1>10 DEF ReadBody, Resetting
  <2>2. PICK n \in Nat : n = signalSize
    BY RingTypes
  <2>3. Get(n)
    BY <2>1, <2>2
  <2> QED BY <2>1, <2>3, GetRing
<1>11. CASE PurgeTail
  BY <1>11 DEF PurgeTail, RingInv, Resetting, portVars
<1>12. CASE PurgeHead
  BY <1>12 DEF PurgeHead, RingInv, Resetting, portVars
<1>13. CASE PurgeSize
  <2>1. ~copied' /\ tail' = 0 /\ head' = 0 /\ dataSize' = 0 /\ ~Resetting' /\ step' # "size"
    BY <1>13 DEF PurgeSize, RingInv, Resetting, portVars, FrameInv
  <2> QED BY <2>1 DEF RingInv, RingEnd
<1> QED BY <1>1, <1>2, <1>3, <1>4, <1>5, <1>6, <1>7, <1>8, <1>9, <1>10, <1>11, <1>12, <1>13,
          CopyRing, CountRing DEF Next, Port, Reader, Purge

LEMMA RingInvariant == ASSUME ~Racy PROVE Spec => [](FrameInv /\ RingInv)
<1>1. FrameInv /\ RingInv /\ [Next]_vars => (FrameInv /\ RingInv)'
  BY NextKeeps, NextRing
<1> QED BY <1>1, InitFrameInv, InitRingInv, PTL DEF Spec

\* When the port is not read during Purge, head and tail of the Stream are as far apart as
\* what it holds says whenever neither Put nor Purge is under way, and it never holds more than
\* there is room for.
THEOREM RingConsistentCorrect == ASSUME ~Racy PROVE Spec => []RingConsistent
<1>1. ASSUME FrameInv, RingInv PROVE RingConsistent
  <2>1. TypeOK
    BY <1>1 DEF FrameInv
  <2>2. ~Purging /\ ~copied => (tail + dataSize) % BufferSize = head % BufferSize
    <3>1. tail \in Nat /\ dataSize \in Nat
      BY <1>1, RingTypes
    <3> QED BY <1>1, <3>1 DEF RingInv, RingEnd, Resetting, Purging
  <2>3. dataSize + (IF copied THEN Len(chunk) ELSE 0) <= BufferSize
    BY <1>1, RingTypes
  <2> QED BY <2>1, <2>2, <2>3 DEF RingConsistent
<1> QED BY <1>1, RingInvariant, PTL

-----------------------------------------------------------------------------
(* The Stream is a queue of bytes.                                         *)

Shown == IF Purging THEN << >> ELSE Contents

LEMMA PrefixByIndex ==
  ASSUME NEW S, NEW s \in Seq(S), NEW t \in Seq(S), Len(s) <= Len(t),
         \A i \in 1 .. Len(s) : s[i] = t[i]
  PROVE  IsPrefix(s, t)
<1>1. SubSeq(s, 1, Len(s)) = s
  OBVIOUS
<1>2. SubSeq(t, 1, Len(s)) = s
  <2>1. SubSeq(t, 1, Len(s)) \in Seq(S) /\ Len(SubSeq(t, 1, Len(s))) = Len(s)
    OBVIOUS
  <2>2. \A i \in 1 .. Len(s) : SubSeq(t, 1, Len(s))[i] = s[i]
    OBVIOUS
  <2> QED BY <2>1, <2>2
<1> QED BY <1>1, <1>2 DEF IsPrefix

LEMMA SuffixByIndex ==
  ASSUME NEW S, NEW s \in Seq(S), NEW t \in Seq(S), Len(s) <= Len(t),
         \A i \in 1 .. Len(s) : s[i] = t[Len(t) - Len(s) + i]
  PROVE  IsSuffix(s, t)
<1>1. PICK m \in Nat, n \in Nat : m = Len(s) /\ n = Len(t) /\ m <= n
  OBVIOUS
<1>2. PICK a \in Seq(S) : a = Reverse(s) /\ Len(a) = m /\ \A i \in 1 .. m : a[i] = s[m - i + 1]
  <2>1. Reverse(s) = [i \in 1 .. m |-> s[(m - i) + 1]]
    BY <1>1 DEF Reverse
  <2>2. \A i \in 1 .. m : (m - i) + 1 \in 1 .. m
    BY <1>1
  <2>3. \A i \in 1 .. m : s[(m - i) + 1] \in S
    BY <1>1, <2>2
  <2>4. PICK f : f = [i \in 1 .. m |-> s[(m - i) + 1]]
    OBVIOUS
  <2>5. f \in Seq(S) /\ Len(f) = m /\ \A i \in 1 .. m : f[i] = s[m - i + 1]
    BY <1>1, <2>3, <2>4
  <2> QED BY <2>1, <2>4, <2>5
<1>3. PICK b \in Seq(S) : b = Reverse(t) /\ Len(b) = n /\ \A i \in 1 .. n : b[i] = t[n - i + 1]
  <2>1. Reverse(t) = [i \in 1 .. n |-> t[(n - i) + 1]]
    BY <1>1 DEF Reverse
  <2>2. \A i \in 1 .. n : (n - i) + 1 \in 1 .. n
    BY <1>1
  <2>3. \A i \in 1 .. n : t[(n - i) + 1] \in S
    BY <1>1, <2>2
  <2>4. PICK f : f = [i \in 1 .. n |-> t[(n - i) + 1]]
    OBVIOUS
  <2>5. f \in Seq(S) /\ Len(f) = n /\ \A i \in 1 .. n : f[i] = t[n - i + 1]
    BY <1>1, <2>3, <2>4
  <2> QED BY <2>1, <2>4, <2>5
<1>4. ASSUME NEW i \in 1 .. m PROVE a[i] = b[i]
  <2>1. m - i + 1 \in 1 .. m /\ n - m + (m - i + 1) = n - i + 1 /\ i \in 1 .. n
    BY <1>1
  <2>2. s[m - i + 1] = t[n - i + 1]
    BY <1>1, <2>1
  <2> QED BY <1>2, <1>3, <2>1, <2>2
<1>5. IsPrefix(a, b)
  BY <1>1, <1>2, <1>3, <1>4, PrefixByIndex
<1> QED BY <1>2, <1>3, <1>5 DEF IsSuffix

ContentsTyped ==
  /\ Contents \in Seq(Byte) /\ Len(Contents) = dataSize
  /\ \A i \in 1 .. dataSize : Contents[i] = buffer[(tail + i - 1) % BufferSize]

LEMMA ContentsType == FrameInv => ContentsTyped
<1> SUFFICES ASSUME FrameInv PROVE ContentsTyped
  OBVIOUS
<1>1. Contents \in Seq(Byte) /\ Len(Contents) = dataSize
  BY RingTypes, BlockType DEF Contents, FrameInv
<1> QED BY <1>1 DEF Contents, Block, ContentsTyped

\* What Put copies is past what the ring holds.
LEMMA CopyShown == ASSUME FrameInv, RingInv, Copy PROVE Shown' = Shown
<1>1. ~Resetting /\ ~copied /\ chunk # << >> /\ step' = step /\ tail' = tail /\ dataSize' = dataSize
  BY DEF Copy, RingInv, readerVars
<1>2. PICK n \in 1 .. BufferSize : n = Len(chunk) /\ dataSize + n <= BufferSize
  BY <1>1, RingTypes
<1>3. PICK x \in 0 .. 2 * BufferSize - 1 : x = tail + dataSize
  BY <1>2, RingTypes
<1>4. x % BufferSize = head % BufferSize
  BY <1>1, <1>3, RingTypes DEF RingInv, RingEnd
<1>5. ASSUME NEW i \in 1 .. dataSize
      PROVE  buffer'[(tail + i - 1) % BufferSize] = buffer[(tail + i - 1) % BufferSize]
  <2>1. PICK p \in 0 .. 3 * BufferSize - 1 : p = tail + i - 1
    BY RingTypes
  <2>2. ASSUME NEW j \in 1 .. n PROVE (head + j - 1) % BufferSize # p % BufferSize
    <3>1. PICK h \in 0 .. 2 * BufferSize - 1, k \in 0 .. BufferSize : h = head /\ k = j - 1
      BY RingTypes
    <3>2. (x + k) % BufferSize = (h + k) % BufferSize
      BY <1>4, <3>1, WrapPlus
    <3>3. PICK q \in 0 .. 3 * BufferSize - 1 : q = x + k
      BY <1>2, <3>1
    <3>4. p < q /\ q < p + BufferSize
      <4>1. PICK a \in 0 .. BufferSize, d \in 0 .. BufferSize : a = tail /\ d = dataSize
        BY RingTypes
      <4>2. d + n <= BufferSize /\ x = a + d /\ p = a + i - 1 /\ i \in 1 .. d /\ k = j - 1 /\ q = x + k
        BY <1>2, <1>3, <2>1, <3>1, <3>3, <4>1
      <4> QED BY <4>2
    <3>5. p % BufferSize # q % BufferSize
      BY <3>4, WrapApart
    <3>6. head + j - 1 = h + k
      BY <3>1, RingTypes
    <3> QED BY <3>2, <3>3, <3>5, <3>6
  <2>3. p % BufferSize \in 0 .. BufferSize - 1
    BY Wrap
  <2>4. DOMAIN buffer = 0 .. BufferSize - 1
    BY RingTypes
  <2>5. { j \in 1 .. Len(chunk) : (head + j - 1) % BufferSize = p % BufferSize } = {}
    BY <1>2, <2>2
  <2>6. buffer'[p % BufferSize] = buffer[p % BufferSize]
    BY <2>3, <2>4, <2>5 DEF Copy
  <2> QED BY <2>1, <2>6
<1>6. Contents' = Contents
  BY <1>1, <1>5 DEF Contents, Block
<1> QED BY <1>1, <1>6 DEF Shown, Purging

\* Counting adds to the end.
LEMMA CountShown == ASSUME FrameInv, FrameInv', RingInv, Count PROVE Shown' = Shown \/ Queue!Put
<1>1. CASE Purging
  BY <1>1 DEF Shown, Purging, Count, readerVars
<1>2. CASE ~Purging
  <2>1. ~Purging' /\ dataSize' = dataSize + Len(chunk) /\ tail' = tail /\ buffer' = buffer
    BY <1>2 DEF Purging, Count, readerVars
  <2>2. PICK s \in Seq(Byte) : s = Contents /\ Len(s) = dataSize
                               /\ \A i \in 1 .. dataSize : s[i] = buffer[(tail + i - 1) % BufferSize]
    BY ContentsType DEF ContentsTyped
  <2>3. PICK t \in Seq(Byte) : t = Contents' /\ Len(t) = dataSize'
                               /\ \A i \in 1 .. dataSize' : t[i] = buffer[(tail + i - 1) % BufferSize]
    <3>1. ContentsTyped'
      BY ContentsType, PTL
    <3> QED BY <2>1, <3>1 DEF ContentsTyped
  <2>4. PICK d \in Nat, e \in Nat : d = dataSize /\ e = dataSize' /\ d <= e /\ e <= BufferSize
    BY <2>1, RingTypes
  <2>5. IsPrefix(s, t)
    <3>1. \A i \in 1 .. d : s[i] = t[i]
      BY <2>2, <2>3, <2>4
    <3> QED BY <2>2, <2>3, <2>4, <3>1, PrefixByIndex
  <2>6. (IF Purging THEN << >> ELSE Contents) = s
    BY <1>2, <2>2
  <2>7. (IF Purging THEN << >> ELSE Contents)' = t
    BY <2>1, <2>3
  <2>8. Queue!IsPrefix(s, t)
    BY <2>5 DEF IsPrefix, Queue!IsPrefix
  <2> QED BY <2>3, <2>4, <2>6, <2>7, <2>8 DEF Queue!Put
<1> QED BY <1>1, <1>2

\* Get takes from the front, and Purge drops the rest.
LEMMA GetShown ==
  ASSUME FrameInv, FrameInv', NEW n \in Nat, Get(n), buffer' = buffer, ~Resetting'
  PROVE  Queue!Get \/ Queue!Purge
<1>1. ~Purging
  BY DEF Get, Purging
<1>2. CASE Purging'
  BY <1>2 DEF Queue!Purge
<1>3. CASE ~Purging'
  <2>1. /\ n \in 0 .. BufferSize /\ dataSize' = dataSize - n /\ n <= dataSize
        /\ tail' = tail + n \/ tail' = tail + n - BufferSize
    <3>1. n \in 0 .. BufferSize /\ dataSize' = dataSize - n /\ n <= dataSize
      BY GetKeeps DEF Get
    <3> QED BY <3>1, RingTypes, AdvanceWraps DEF Get
  <2>2. PICK t \in Seq(Byte) : t = Contents /\ Len(t) = dataSize
                               /\ \A i \in 1 .. dataSize : t[i] = buffer[(tail + i - 1) % BufferSize]
    BY ContentsType DEF ContentsTyped
  <2>3. PICK s \in Seq(Byte) : s = Contents' /\ Len(s) = dataSize'
                               /\ \A i \in 1 .. dataSize' : s[i] = buffer[(tail' + i - 1) % BufferSize]
    <3>1. ContentsTyped'
      BY ContentsType, PTL
    <3> QED BY <3>1 DEF ContentsTyped
  <2>4. PICK d \in 0 .. BufferSize, e \in 0 .. BufferSize, u \in 0 .. BufferSize, v \in 0 .. BufferSize :
          /\ d = dataSize /\ e = dataSize' /\ u = tail /\ v = tail'
          /\ e = d - n /\ n <= d /\ (v = u + n \/ v = u + n - BufferSize)
    <3>1. /\ dataSize \in 0 .. BufferSize /\ tail \in 0 .. BufferSize
          /\ dataSize' \in 0 .. BufferSize /\ tail' \in 0 .. BufferSize
      BY RingTypes, GetKeeps
    <3> QED BY <2>1, <3>1
  <2>5. ASSUME NEW i \in 1 .. e PROVE s[i] = t[d - e + i]
    <3>1. n + i \in 1 .. d /\ d - e + i = n + i
      BY <2>4
    <3>2. t[n + i] = buffer[(u + (n + i) - 1) % BufferSize] /\ s[i] = buffer[(v + i - 1) % BufferSize]
      BY <2>2, <2>3, <2>4, <3>1
    <3>3. (v + i - 1) % BufferSize = (u + (n + i) - 1) % BufferSize
      <4>1. PICK p \in 0 .. 2 * BufferSize - 1, q \in Nat :
              p = v + i - 1 /\ q = u + (n + i) - 1
        BY <3>1
      <4>2. p = q \/ q = p + BufferSize
        <5>1. v = u + n \/ v = u + n - BufferSize
          BY <2>4
        <5>2. p - q = v - u - n
          BY <4>1
        <5> QED BY <5>1, <5>2
      <4>3. p % BufferSize = q % BufferSize
        BY <4>2, WrapRound
      <4> QED BY <4>1, <4>3
    <3> QED BY <3>1, <3>2, <3>3
  <2>6. IsSuffix(s, t)
    <3>1. Len(s) = e /\ Len(t) = d /\ e <= d
      BY <2>2, <2>3, <2>4
    <3> QED BY <2>5, <3>1, SuffixByIndex
  <2>7. (IF Purging THEN << >> ELSE Contents) = t
    BY <1>1, <2>2
  <2>8. (IF Purging THEN << >> ELSE Contents)' = s
    BY <1>3, <2>3
  <2>9. Queue!IsSuffix(s, t)
    BY <2>6 DEF IsSuffix, IsPrefix, Reverse, Queue!IsSuffix, Queue!IsPrefix, Queue!Reverse
  <2> QED BY <2>7, <2>8, <2>9 DEF Queue!Get
<1> QED BY <1>2, <1>3

LEMMA NextShown ==
  ASSUME FrameInv, FrameInv', RingInv, [Next]_vars
  PROVE  Shown' = Shown \/ Queue!Put \/ Queue!Get \/ Queue!Purge
<1>0. ASSUME UNCHANGED << buffer, tail, dataSize >>, step' = step \/ (~Purging /\ ~Purging')
      PROVE  Shown' = Shown
  BY <1>0 DEF Shown, Contents, Block, Purging
<1>1. CASE UNCHANGED vars
  BY <1>0, <1>1 DEF vars, streamVars, readerVars
<1>2. CASE SendFrame
  BY <1>0, <1>2 DEF SendFrame, streamVars, readerVars
<1>3. CASE Damage
  BY <1>0, <1>3 DEF Damage, streamVars, readerVars
<1>4. CASE ReadPort
  BY <1>0, <1>4 DEF ReadPort, streamVars, readerVars
<1>5. CASE AddWatcher
  BY <1>0, <1>5 DEF AddWatcher, streamVars, Purging
<1>6. CASE TestAtOnce
  BY <1>0, <1>6 DEF TestAtOnce, streamVars, Purging
<1>7. CASE TimeOut
  BY <1>0, <1>7 DEF TimeOut, Purging
<1>8. CASE First
  <2>1. Get(1) /\ buffer' = buffer /\ ~Resetting'
    BY <1>8 DEF First, Get, Resetting
  <2> QED BY <2>1, GetShown
<1>9. CASE ReadLength
  <2>1. Get(1) /\ buffer' = buffer /\ ~Resetting'
    BY <1>9 DEF ReadLength, Resetting
  <2> QED BY <2>1, GetShown
<1>10. CASE ReadBody
  <2>1. Get(signalSize) /\ buffer' = buffer /\ ~Resetting'
    BY <1>10 DEF ReadBody, Resetting
  <2>2. PICK n \in Nat : n = signalSize
    BY RingTypes
  <2>3. Get(n)
    BY <2>1, <2>2
  <2> QED BY <2>1, <2>3, GetShown
<1>11. CASE PurgeTail
  BY <1>11 DEF PurgeTail, Shown, Purging
<1>12. CASE PurgeHead
  BY <1>12 DEF PurgeHead, Shown, Purging
<1>13. CASE PurgeSize
  <2>1. Purging /\ ~Purging' /\ dataSize' = 0
    BY <1>13 DEF PurgeSize, Purging
  <2>2. Contents' = << >>
    BY <2>1 DEF Contents, Block
  <2> QED BY <2>1, <2>2 DEF Shown
<1> QED BY <1>1, <1>2, <1>3, <1>4, <1>5, <1>6, <1>7, <1>8, <1>9, <1>10, <1>11, <1>12, <1>13,
          CopyShown, CountShown DEF Next, Port, Reader, Purge

\* Stream keeps what ByteQueue promises when the port is not read during Purge: bytes go in whole
\* or not at all, come out in the order they went in, and Purge drops them at once.
THEOREM StreamCorrect == ASSUME ~Racy PROVE Spec => StreamIsQueue
<1>1. Init => Queue!Init
  BY DEF Init, Queue!Init, Purging, Contents, Block
<1>2. FrameInv /\ FrameInv' /\ RingInv /\ [Next]_vars
      => [Queue!Put \/ Queue!Get \/ Queue!Purge]_(IF Purging THEN << >> ELSE Contents)
  BY NextShown DEF Shown
<1> QED BY <1>1, <1>2, RingInvariant, PTL DEF Spec, StreamIsQueue, Queue!Spec
=============================================================================
