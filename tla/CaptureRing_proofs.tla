------------------------- MODULE CaptureRing_proofs -------------------------
(***************************************************************************)
(* Proofs about the capture thread on its ring, for every number of blocks *)
(* and packets, every batch size and set of port keys.  The inductive      *)
(* invariant is IInv.  Its heart is that the blocks that are not the       *)
(* kernel's follow one another around the ring from the oldest to the one  *)
(* the kernel is at, although no index is shared.                          *)
(***************************************************************************)
EXTENDS CaptureRing, LocalityBuffer_proofs

----------------------------------------------------------------------------
(* Index arithmetic of the ring.                                           *)

\* How far block i is from block a, in the direction of the ring.
Dist(a, i) == (i - a) % Blocks

\* Below twice the size a remainder is one subtraction at most.
LEMMA RingIndex ==
  ASSUME NEW a \in Block, NEW c \in 0 .. Blocks
  PROVE  (a + c) % Blocks = (IF a + c < Blocks THEN a + c ELSE a + c - Blocks) /\ (a + c) % Blocks \in Block
<1>1. Blocks \in Nat \ {0}
  BY RingAssumption
<1>2. CASE a + c < Blocks
  BY <1>1, <1>2 DEF Block
<1>3. CASE a + c >= Blocks
  BY <1>1, <1>3 DEF Block
<1> QED
  BY <1>1, <1>2, <1>3 DEF Block

\* Distances are remainders of the difference.
LEMMA DistIs ==
  ASSUME NEW a \in Block, NEW i \in Block
  PROVE  Dist(a, i) = (IF a <= i THEN i - a ELSE i - a + Blocks) /\ Dist(a, i) \in 0 .. Blocks - 1
<1>1. Blocks \in Nat \ {0}
  BY RingAssumption
<1>2. CASE a <= i
  BY <1>1, <1>2 DEF Block, Dist
<1>3. CASE a > i
  BY <1>1, <1>3 DEF Block, Dist
<1> QED
  BY <1>1, <1>2, <1>3 DEF Block

\* The block after i is i + 1, or the first one after the last.
LEMMA NextIs ==
  ASSUME NEW i \in Block
  PROVE  NextBlockIdx(i) = (IF i = Blocks - 1 THEN 0 ELSE i + 1) /\ NextBlockIdx(i) \in Block
<1>1. Blocks \in Nat \ {0} /\ 1 \in 0 .. Blocks
  BY RingAssumption
<1>2. (i + 1) % Blocks = (IF i + 1 < Blocks THEN i + 1 ELSE i + 1 - Blocks) /\ (i + 1) % Blocks \in Block
  BY <1>1, RingIndex
<1> QED
  BY <1>1, <1>2 DEF NextBlockIdx, Block

\* The block at distance c from a is the one c steps on, and there is one more step to the next.
LEMMA RingSteps ==
  ASSUME NEW a \in Block, NEW c \in 0 .. Blocks, NEW i \in Block
  PROVE  /\ c < Blocks => (Dist(a, i) = c <=> i = (a + c) % Blocks)
         /\ c < Blocks => NextBlockIdx((a + c) % Blocks) = (a + (c + 1)) % Blocks
         /\ c > 0 => (a + c) % Blocks = (NextBlockIdx(a) + (c - 1)) % Blocks
         /\ c = Blocks => (a + c) % Blocks = a
         /\ (a + 0) % Blocks = a /\ Dist(a, a) = 0
         /\ i # a => Dist(NextBlockIdx(a), i) = Dist(a, i) - 1 /\ Dist(a, i) > 0
         /\ Dist(NextBlockIdx(a), a) = Blocks - 1
<1>1. Blocks \in Nat \ {0} /\ 0 \in 0 .. Blocks
  BY RingAssumption
<1>2. (a + c) % Blocks = (IF a + c < Blocks THEN a + c ELSE a + c - Blocks) /\ (a + c) % Blocks \in Block
  BY RingIndex
<1>3. (a + 0) % Blocks = a
  BY <1>1 DEF Block
<1>4. c < Blocks => (a + (c + 1)) % Blocks = (IF a + (c + 1) < Blocks THEN a + (c + 1) ELSE a + (c + 1) - Blocks)
  BY <1>1, RingIndex
<1> DEFINE b == NextBlockIdx(a)
<1>5. b = (IF a = Blocks - 1 THEN 0 ELSE a + 1) /\ b \in Block
  BY NextIs
<1> HIDE DEF b
<1>6. c > 0 => (b + (c - 1)) % Blocks = (IF b + (c - 1) < Blocks THEN b + (c - 1) ELSE b + (c - 1) - Blocks)
  <2>1. c > 0 => c - 1 \in 0 .. Blocks
    BY <1>1
  <2> QED
    BY <1>5, <2>1, RingIndex
<1>7. /\ Dist(a, i) = (IF a <= i THEN i - a ELSE i - a + Blocks) /\ Dist(a, a) = 0
      /\ Dist(b, i) = (IF b <= i THEN i - b ELSE i - b + Blocks)
      /\ Dist(b, a) = (IF b <= a THEN a - b ELSE a - b + Blocks)
  <2>1. Dist(a, a) = (IF a <= a THEN a - a ELSE a - a + Blocks)
    BY DistIs
  <2>2. a \in Int
    BY <1>1 DEF Block
  <2>3. Dist(a, a) = 0
    BY <2>1, <2>2
  <2>4. Dist(a, i) = (IF a <= i THEN i - a ELSE i - a + Blocks)
    BY DistIs
  <2>5. Dist(b, i) = (IF b <= i THEN i - b ELSE i - b + Blocks)
    BY <1>5, DistIs
  <2>6. Dist(b, a) = (IF b <= a THEN a - b ELSE a - b + Blocks)
    BY <1>5, DistIs
  <2> QED
    BY <2>3, <2>4, <2>5, <2>6
<1> DEFINE k == (a + c) % Blocks
<1>8. c < Blocks => NextBlockIdx(k) = (IF k = Blocks - 1 THEN 0 ELSE k + 1)
  BY <1>2, NextIs
<1> HIDE DEF k
<1>9. c < Blocks => (Dist(a, i) = c <=> i = (a + c) % Blocks)
  BY <1>1, <1>2, <1>7 DEF Block
<1>10. c < Blocks => NextBlockIdx((a + c) % Blocks) = (a + (c + 1)) % Blocks
  BY <1>1, <1>2, <1>4, <1>8 DEF Block, k
<1>11. c > 0 => (a + c) % Blocks = (b + (c - 1)) % Blocks
  BY <1>1, <1>2, <1>5, <1>6 DEF Block
<1>12. i # a => Dist(b, i) = Dist(a, i) - 1 /\ Dist(a, i) > 0
  BY <1>1, <1>5, <1>7 DEF Block
<1>13. Dist(b, a) = Blocks - 1
  BY <1>1, <1>5, <1>7 DEF Block
<1>14. c = Blocks => (a + c) % Blocks = a
  BY <1>1, <1>2 DEF Block
<1> QED
  BY <1>3, <1>7, <1>9, <1>10, <1>11, <1>12, <1>13, <1>14 DEF b

----------------------------------------------------------------------------
(* The inductive invariant.                                                *)

SetupStep == {"socket", "version", "ring", "map", "index", "bind"}
Step == SetupStep \cup {"poll", "fill", "drain", "idle"}

\* The oldest block that is not the kernel's, if there is one.
Oldest == IF Busy THEN held ELSE current_block_idx

\* The c blocks from a on are the thread's, and the kernel is at the next one.
Span(a, c) ==
  /\ kernel_block_idx = (a + c) % Blocks
  /\ \A i \in Block : status[i] = "user" <=> Dist(a, i) < c

Spanned == \E c \in 0 .. Blocks : Span(Oldest, c) /\ (Busy => c > 0)

\* How many packets of the block held have been read.
NumRead == IF current_pkt_idx < Len(memory[held]) THEN current_pkt_idx ELSE Len(memory[held])

\* A block with packets not yet handed on.
Live(i) == status[i] = "user" \/ (i = kernel_block_idx /\ ~ fresh)

Types ==
  /\ arrived \in 0 .. MaxPackets /\ kernel_block_idx \in Block /\ fresh \in BOOLEAN
  /\ status \in [Block -> {"kernel", "user"}]
  /\ memory \in [Block -> Seq(Packet)] /\ (\A i \in Block : Len(memory[i]) <= BlockCap)
  /\ current_block_idx \in Block /\ pc \in Step
  /\ opened \in BOOLEAN /\ mapped \in BOOLEAN
  /\ held \in Block \cup {NoBlock} /\ current_pkt_idx \in 0 .. BlockCap + 1
  /\ buf \in BufferOf(Ref) /\ cursor \in 0 .. MaxBatch /\ taken \in Seq(Packet)

\* What is open and mapped follows from how far the thread is.
SocketInv ==
  /\ opened <=> pc \notin {"socket", "idle"}
  /\ mapped <=> pc \in {"index", "bind", "poll", "fill", "drain"}

\* The thread's blocks are those from the oldest up to the kernel's.
RingInv ==
  /\ Busy <=> held # NoBlock
  /\ Busy => current_block_idx = NextBlockIdx(held)
  /\ Spanned
  /\ ~ fresh => status[kernel_block_idx] = "kernel"

\* The buffer has the packets read, as many as it takes, in the order of the block.
BatchInv ==
  /\ Counted(buf)
  /\ Busy => /\ Len(buf.input) = IF NumRead < MaxBatch THEN NumRead ELSE MaxBatch
             /\ \A l \in 1 .. Len(buf.input) :
                  buf.input[l] = [block |-> held, slot |-> l, port |-> memory[held][l].port]

\* A block is drained after it was read, in an order that keeps each port's.
DrainInv ==
  pc = "drain" =>
    /\ current_pkt_idx >= Len(memory[held])
    /\ Delivery(buf) = FlattenSeq([i \in 1 .. Len(buf.active) |-> OfPort(buf.input, buf.active[i])])
    /\ \E pi : Reorders(Delivery(buf), buf.input, pi)
    /\ cursor <= Len(buf.input)
    /\ \A x \in 1 .. cursor : At(Delivery(buf)[x]) \in ToSet(taken)

\* Packets not yet handed on were received in the order of the ring.
OrderInv ==
  /\ \A i \in Block : Live(i) => \A x \in 1 .. Len(memory[i]) : memory[i][x].id <= arrived
  /\ \A i, j \in Block : Live(i) /\ Live(j) => \A x \in 1 .. Len(memory[i]), y \in 1 .. Len(memory[j]) :
       Dist(Oldest, i) < Dist(Oldest, j) \/ (i = j /\ x < y) => memory[i][x].id < memory[j][y].id

IInv == Types /\ SocketInv /\ RingInv /\ BatchInv /\ DrainInv /\ OrderInv

\* The steps of the setup by name.
LEMMA SetupIs ==
  /\ ToSet(Front(Setup)) = SetupStep /\ ToSet(Setup) = SetupStep \cup {"poll"} /\ Setup[1] = "socket"
  /\ \A i \in DOMAIN Setup : Setup[i] \in SetupStep =>
       /\ Setup[i + 1] \in SetupStep \cup {"poll"} /\ Setup[i + 1] # "socket"
       /\ Setup[i + 1] \in {"index", "bind", "poll"} <=> Setup[i] \in {"map", "index", "bind"}
<1>1. /\ Setup \in Seq(Step) /\ Len(Setup) = 7 /\ DOMAIN Setup = 1 .. 7
      /\ Setup[1] = "socket" /\ Setup[2] = "version" /\ Setup[3] = "ring" /\ Setup[4] = "map"
      /\ Setup[5] = "index" /\ Setup[6] = "bind" /\ Setup[7] = "poll"
  <2>1. Setup \in Seq(Step)
    BY DEF Setup, Step, SetupStep
  <2>2. Len(Setup) = 7 /\ DOMAIN Setup = 1 .. 7
    BY DEF Setup
  <2>3. Setup[1] = "socket" /\ Setup[2] = "version" /\ Setup[3] = "ring" /\ Setup[4] = "map"
    BY DEF Setup
  <2>4. Setup[5] = "index" /\ Setup[6] = "bind" /\ Setup[7] = "poll"
    BY DEF Setup
  <2> QED
    BY <2>1, <2>2, <2>3, <2>4
<1>2. Front(Setup) = [i \in 1 .. 6 |-> Setup[i]]
  <2>1. Front(Setup) = SubSeq(Setup, 1, 6)
    BY <1>1 DEF Front
  <2> QED
    BY <1>1, <2>1
<1>3. \A i : i \in 1 .. 6 <=> i = 1 \/ i = 2 \/ i = 3 \/ i = 4 \/ i = 5 \/ i = 6
  OBVIOUS
<1>4. \A i : i \in 1 .. 7 <=> i \in 1 .. 6 \/ i = 7
  OBVIOUS
<1> HIDE DEF Setup
<1>5. ToSet(Front(Setup)) = SetupStep
  BY <1>1, <1>2, <1>3 DEF ToSet, SetupStep
<1>6. ToSet(Setup) = SetupStep \cup {"poll"}
  BY <1>1, <1>3, <1>4 DEF ToSet, SetupStep
<1>7. ASSUME NEW i \in 1 .. 7, Setup[i] \in SetupStep
      PROVE  /\ Setup[i + 1] \in SetupStep \cup {"poll"} /\ Setup[i + 1] # "socket"
             /\ Setup[i + 1] \in {"index", "bind", "poll"} <=> Setup[i] \in {"map", "index", "bind"}
  <2>1. i # 7
    BY <1>1, <1>7 DEF SetupStep
  <2>2. i = 1 \/ i = 2 \/ i = 3 \/ i = 4 \/ i = 5 \/ i = 6
    BY <2>1
  <2> QED
    BY <1>1, <2>2 DEF SetupStep
<1> QED
  BY <1>1, <1>5, <1>6, <1>7

\* The references of the ring have a port of Ports.
LEMMA RefKeyed == Keyed(Ref)
  BY DEF Keyed, Ref

\* A batch holds at least one packet.
LEMMA BatchSize == MaxBatch \in Nat \ {0}
  BY BatchAssumption

\* The thread starts with everything in the kernel's hands.
LEMMA InitInv == Init => IInv
<1> SUFFICES ASSUME Init PROVE IInv
  OBVIOUS
<1> USE DEF Init
<1>1. /\ Blocks \in Nat \ {0} /\ BlockCap \in Nat /\ NoBlock \notin Block /\ MaxPackets \in Nat
      /\ 0 \in Block /\ 0 \in 0 .. Blocks
  BY RingAssumption DEF Block
<1>2. MaxBatch \in Nat
  BY BatchSize
<1>3. pc = "socket" /\ ~ Busy
  BY SetupIs DEF Busy
<1>4. buf \in BufferOf(Ref) /\ Counted(buf)
  BY NewBufferCounted
<1>5. Types
  <2>1. memory \in [Block -> Seq(Packet)] /\ \A i \in Block : Len(memory[i]) <= BlockCap
    BY <1>1
  <2>2. status \in [Block -> {"kernel", "user"}] /\ taken \in Seq(Packet)
    OBVIOUS
  <2>3. /\ arrived \in 0 .. MaxPackets /\ cursor \in 0 .. MaxBatch /\ current_pkt_idx \in 0 .. BlockCap + 1
        /\ kernel_block_idx \in Block /\ current_block_idx \in Block
    BY <1>1, <1>2
  <2> QED
    BY <1>3, <1>4, <2>1, <2>2, <2>3 DEF Types, Step, SetupStep
<1>6. SocketInv
  BY <1>3 DEF SocketInv
<1>7. RingInv
  <2>1. Oldest = 0
    BY <1>3 DEF Oldest
  <2>2. (0 + 0) % Blocks = 0
    BY <1>1, RingSteps
  <2>3. ASSUME NEW i \in Block PROVE status[i] = "user" <=> Dist(0, i) < 0
    <3>1. Dist(0, i) \in 0 .. Blocks - 1
      BY <1>1, DistIs
    <3> QED
      BY <3>1
  <2>4. Span(0, 0)
    BY <2>2, <2>3 DEF Span
  <2> QED
    BY <1>1, <1>3, <2>1, <2>4 DEF RingInv, Spanned
<1>8. BatchInv
  BY <1>3, <1>4 DEF BatchInv
<1>9. DrainInv
  BY <1>3 DEF DrainInv
<1>10. OrderInv
  BY <1>1 DEF OrderInv, Live
<1> QED
  BY <1>5, <1>6, <1>7, <1>8, <1>9, <1>10 DEF IInv

\* While the thread sets up, or idles, it has no block.
LEMMA NotBusyInv ==
  ASSUME IInv, ~ Busy, ~ Busy',
         UNCHANGED <<kernelVars, status, memory, current_block_idx, held, current_pkt_idx, buf, cursor, taken>>
  PROVE  RingInv' /\ BatchInv' /\ DrainInv' /\ OrderInv'
<1> USE DEF kernelVars
<1>1. Oldest' = Oldest /\ pc' # "drain"
  BY DEF Oldest, Busy
<1>2. \A a, c : Span(a, c)' <=> Span(a, c)
  BY DEF Span, Block
<1>3. RingInv'
  BY <1>1, <1>2 DEF IInv, RingInv, Spanned
<1>4. BatchInv' /\ DrainInv'
  BY <1>1 DEF IInv, BatchInv, DrainInv
<1>5. OrderInv'
  BY <1>1 DEF IInv, OrderInv, Live, Block
<1> QED
  BY <1>3, <1>4, <1>5

\* Setting up opens and maps but moves no block.
LEMMA SetUpInv == IInv /\ SetUp => IInv'
<1> SUFFICES ASSUME IInv, SetUp PROVE IInv'
  OBVIOUS
<1>1. PICK i \in DOMAIN Setup : pc = Setup[i] /\ pc' = Setup[i + 1]
  BY DEF SetUp
<1>2. /\ pc \in SetupStep /\ opened' = (opened \/ pc = "socket") /\ mapped' = (mapped \/ pc = "map")
      /\ UNCHANGED <<kernelVars, status, memory, current_block_idx, held, current_pkt_idx, buf, cursor, taken>>
  BY SetupIs DEF SetUp, SettingUp
<1>3. /\ pc' \in SetupStep \cup {"poll"} /\ pc' # "socket"
      /\ pc' \in {"index", "bind", "poll"} <=> pc \in {"map", "index", "bind"}
  BY <1>1, <1>2, SetupIs
<1>4. Types'
  BY <1>2, <1>3 DEF IInv, Types, Step, kernelVars, Block
<1>5. SocketInv'
  BY <1>2, <1>3 DEF IInv, SocketInv, SetupStep
<1>6. ~ Busy /\ ~ Busy'
  BY <1>2, <1>3 DEF Busy, SetupStep
<1> QED
  BY <1>2, <1>4, <1>5, <1>6, NotBusyInv DEF IInv

\* What new undoes when a call fails is what the calls before it had taken.
LEMMA GiveUpInv == IInv /\ GiveUp => IInv'
<1> SUFFICES ASSUME IInv, GiveUp PROVE IInv'
  OBVIOUS
<1>1. /\ pc \in SetupStep /\ pc' = "idle" /\ mapped' = (mapped /\ pc \notin {"index", "bind"}) /\ opened' = FALSE
      /\ UNCHANGED <<kernelVars, status, memory, current_block_idx, held, current_pkt_idx, buf, cursor, taken>>
  BY SetupIs DEF GiveUp, SettingUp
<1>2. Types'
  BY <1>1 DEF IInv, Types, Step, kernelVars, Block
<1>3. SocketInv'
  BY <1>1 DEF IInv, SocketInv, SetupStep
<1>4. ~ Busy /\ ~ Busy'
  BY <1>1 DEF Busy, SetupStep
<1> QED
  BY <1>1, <1>2, <1>3, <1>4, NotBusyInv DEF IInv

\* The block held is the oldest of the thread's blocks, so the kernel has retired it.
LEMMA HeldRetired == IInv /\ Busy => held \in Block /\ status[held] = "user"
<1> SUFFICES ASSUME IInv, Busy PROVE held \in Block /\ status[held] = "user"
  OBVIOUS
<1>1. held \in Block
  BY DEF IInv, Types, RingInv
<1>2. PICK c \in 0 .. Blocks : Span(held, c) /\ c > 0
  BY DEF IInv, RingInv, Spanned, Oldest
<1>3. Dist(held, held) = 0
  BY <1>1, <1>2, RingSteps
<1> QED
  BY <1>1, <1>2, <1>3 DEF Span

\* The block the kernel writes to is not the one the thread holds.
LEMMA KernelElsewhere ==
  ASSUME IInv, status[kernel_block_idx] = "kernel"
  PROVE  Busy => held \in Block /\ status[held] = "user" /\ held # kernel_block_idx
  BY HeldRetired

\* The oldest block is one of the ring.
LEMMA OldestType == IInv => Oldest \in Block
  BY DEF IInv, Types, RingInv, Oldest

\* The packet written is the newest of the block that is the newest.
LEMMA ReceiveInv == ASSUME NEW port \in Ports PROVE IInv /\ Receive(port) => IInv'
<1> SUFFICES ASSUME IInv, Receive(port) PROVE IInv'
  OBVIOUS
<1> DEFINE k == kernel_block_idx
           p == [id |-> arrived + 1, port |-> port]
           filled == IF fresh THEN <<p>> ELSE Append(memory[k], p)
<1>1. /\ RingThere /\ arrived < MaxPackets /\ status[k] = "kernel" /\ (fresh \/ Len(memory[k]) < BlockCap)
      /\ arrived' = arrived + 1 /\ fresh' = FALSE /\ memory' = [memory EXCEPT ![k] = filled]
      /\ kernel_block_idx' = k /\ status' = status /\ UNCHANGED <<socketVars, threadVars>>
  BY DEF Receive
<1>2. /\ arrived \in Nat /\ MaxPackets \in Nat /\ arrived <= MaxPackets /\ k \in Block /\ BlockCap \in Nat \ {0}
      /\ memory \in [Block -> Seq(Packet)] /\ \A i \in Block : Len(memory[i]) <= BlockCap
  BY RingAssumption DEF IInv, Types
<1>3. p \in Packet /\ p.id = arrived + 1
  BY <1>1, <1>2 DEF Packet
<1>4. /\ filled \in Seq(Packet) /\ Len(filled) <= BlockCap
      /\ \A x \in 1 .. Len(filled) : \/ ~ fresh /\ x \in 1 .. Len(memory[k]) /\ filled[x] = memory[k][x]
                                     \/ x = Len(filled) /\ filled[x] = p
  <2>1. CASE fresh
    <3>1. filled = <<p>>
      BY <2>1
    <3> QED
      BY <1>2, <1>3, <3>1
  <2>2. CASE ~ fresh
    <3>1. filled = Append(memory[k], p) /\ memory[k] \in Seq(Packet)
      BY <1>2, <2>2
    <3> QED
      BY <1>1, <1>2, <1>3, <2>2, <3>1
  <2> QED
    BY <2>1, <2>2
<1> HIDE DEF p, filled
<1>5. memory'[k] = filled /\ \A i \in Block : i # k => memory'[i] = memory[i]
  BY <1>1, <1>2
<1>6. Types'
  <2>1. memory' \in [Block -> Seq(Packet)] /\ \A i \in Block : Len(memory'[i]) <= BlockCap
    BY <1>1, <1>2, <1>4, <1>5
  <2>2. arrived' \in 0 .. MaxPackets
    BY <1>1, <1>2
  <2> QED
    BY <1>1, <2>1, <2>2 DEF IInv, Types, socketVars, threadVars, Block
<1>7. SocketInv'
  BY <1>1 DEF IInv, SocketInv, socketVars, threadVars
<1>8. /\ Oldest' = Oldest /\ (Busy' <=> Busy) /\ pc' = pc /\ held' = held /\ buf' = buf /\ cursor' = cursor
      /\ taken' = taken /\ current_pkt_idx' = current_pkt_idx /\ current_block_idx' = current_block_idx
  BY <1>1 DEF Oldest, Busy, threadVars
<1>9. RingInv'
  <2>1. \A a, c : Span(a, c)' <=> Span(a, c)
    BY <1>1 DEF Span, Block
  <2> QED
    BY <1>1, <1>8, <2>1 DEF IInv, RingInv, Spanned
<1>10. Busy => held \in Block /\ held # k /\ memory'[held] = memory[held]
  BY <1>1, <1>5, KernelElsewhere
<1>11. BatchInv'
  BY <1>8, <1>10 DEF IInv, BatchInv, NumRead
<1>12. DrainInv'
  <2> SUFFICES ASSUME pc = "drain" PROVE DrainInv'
    BY <1>8 DEF DrainInv
  <2>1. Busy /\ DrainInv /\ BatchInv
    BY DEF IInv, Busy
  <2>2. PICK pi : Reorders(Delivery(buf), buf.input, pi)
    BY <2>1 DEF DrainInv
  <2>3. ASSUME NEW x \in 1 .. cursor PROVE At(Delivery(buf)[x])' = At(Delivery(buf)[x])
    <3>1. x \in 1 .. Len(buf.input)
      BY <2>1 DEF DrainInv, IInv, Types, BufferOf
    <3>2. pi[x] \in 1 .. Len(buf.input) /\ Delivery(buf)[x] = buf.input[pi[x]]
      BY <2>2, <3>1 DEF Reorders
    <3>3. Delivery(buf)[x].block = held
      <4>1. \A l \in 1 .. Len(buf.input) :
              buf.input[l] = [block |-> held, slot |-> l, port |-> memory[held][l].port]
        BY <2>1 DEF BatchInv
      <4>2. buf.input[pi[x]] = [block |-> held, slot |-> pi[x], port |-> memory[held][pi[x]].port]
        BY <3>2, <4>1
      <4> QED
        BY <3>2, <4>2
    <3> QED
      BY <1>8, <1>10, <2>1, <3>3 DEF At
  <2> QED
    BY <1>8, <1>10, <2>1, <2>3 DEF DrainInv
<1>13. OrderInv'
  <2> DEFINE a == Oldest
  <2>1. a \in Block /\ OrderInv
    BY OldestType DEF IInv
  <2>2. \A i \in Block : i # k => (Live(i)' <=> Live(i))
    BY <1>1 DEF Live
  <2>3. ASSUME NEW i \in Block, i # k, Live(i) PROVE Dist(a, i) < Dist(a, k)
    <3>1. PICK c \in 0 .. Blocks : Span(a, c)
      BY DEF IInv, RingInv, Spanned
    <3>2. Dist(a, i) < c /\ ~ (Dist(a, k) < c)
      BY <1>1, <1>2, <2>3, <3>1 DEF Span, Live
    <3>3. Dist(a, i) \in Int /\ Dist(a, k) \in Int
      BY <1>2, <2>1, DistIs
    <3> QED
      BY <3>2, <3>3
  <2>4. \A i \in Block : Dist(a, i) \in Int
    BY <2>1, DistIs
  <2>5. ASSUME NEW i \in Block, Live(i)', NEW x \in 1 .. Len(memory'[i])
        PROVE  /\ memory'[i][x].id <= arrived \/ (i = k /\ x = Len(filled))
               /\ memory'[i][x].id <= arrived \/ memory'[i][x].id = arrived + 1
               /\ memory'[i][x].id \in Int
    <3>1. memory'[i][x] \in Packet
      BY <1>6, <2>5 DEF Types, Block
    <3>2. CASE i # k
      BY <1>5, <2>1, <2>2, <2>5, <3>1, <3>2 DEF OrderInv, Packet
    <3>3. CASE i = k
      <4>1. x \in 1 .. Len(filled) /\ memory'[k][x] = filled[x]
        BY <1>5, <2>5, <3>3
      <4>2. CASE ~ fresh /\ x \in 1 .. Len(memory[k]) /\ filled[x] = memory[k][x]
        <5>1. memory[k][x].id <= arrived
          BY <1>2, <2>1, <4>2 DEF OrderInv, Live
        <5> QED
          BY <3>1, <3>3, <4>1, <4>2, <5>1 DEF Packet
      <4>3. CASE x = Len(filled) /\ filled[x] = p
        BY <1>2, <1>3, <3>3, <4>1, <4>3
      <4> QED
        BY <1>4, <4>1, <4>2, <4>3
    <3> QED
      BY <3>2, <3>3
  <2>6. ASSUME NEW i \in Block, NEW j \in Block, Live(i)', Live(j)',
               NEW x \in 1 .. Len(memory'[i]), NEW y \in 1 .. Len(memory'[j]),
               Dist(a, i) < Dist(a, j) \/ (i = j /\ x < y)
        PROVE  memory'[i][x].id < memory'[j][y].id
    <3>1. i # j => i # k
      BY <2>2, <2>3, <2>4, <2>6
    <3>2. CASE i # k /\ j # k
      BY <1>5, <2>1, <2>2, <2>6, <3>2 DEF OrderInv
    <3>3. CASE j = k /\ memory'[j][y].id = arrived + 1
      <4>1. ~ (i = k /\ x = Len(filled))
        <5>1. i = k => x < y /\ y <= Len(filled) /\ x \in Int /\ y \in Int
          BY <1>4, <1>5, <2>4, <2>6, <3>3
        <5> QED
          BY <1>4, <5>1
      <4>2. memory'[i][x].id <= arrived /\ memory'[i][x].id \in Int
        BY <2>5, <2>6, <4>1
      <4> QED
        BY <1>2, <3>3, <4>2
    <3>4. CASE j = k /\ memory'[j][y].id # arrived + 1
      <4>1. ~ fresh /\ y \in 1 .. Len(memory[k]) /\ memory'[k][y] = memory[k][y]
        BY <1>3, <1>4, <1>5, <2>6, <3>4
      <4>2. Live(k) /\ Live(i)
        BY <2>2, <2>6, <4>1 DEF Live
      <4>3. x \in 1 .. Len(memory[i]) /\ memory'[i][x] = memory[i][x]
        <5>1. CASE i # k
          BY <1>5, <2>6, <5>1
        <5>2. CASE i = k
          <6>1. x < y /\ x \in 1 .. Len(filled)
            BY <1>5, <2>4, <2>6, <3>4, <5>2
          <6>2. x \in 1 .. Len(memory[k])
            BY <1>2, <4>1, <6>1
          <6>3. memory'[k][x] = memory[k][x]
            BY <1>4, <1>5, <6>1, <6>2, <4>1, <1>2 DEF filled
          <6> QED
            BY <5>2, <6>2, <6>3
        <5> QED
          BY <5>1, <5>2
      <4> QED
        BY <1>2, <2>1, <2>6, <3>4, <4>1, <4>2, <4>3 DEF OrderInv
    <3> QED
      BY <3>1, <3>2, <3>3, <3>4
  <2>7. ASSUME NEW i \in Block, Live(i)', NEW x \in 1 .. Len(memory'[i]) PROVE memory'[i][x].id <= arrived + 1
    BY <1>2, <2>5, <2>7
  <2> QED
    BY <1>1, <1>8, <2>6, <2>7 DEF OrderInv, Block
<1> QED
  BY <1>6, <1>7, <1>9, <1>11, <1>12, <1>13 DEF IInv

\* The block retired is the one after the thread's blocks, which are one more.
LEMMA RetireInv == IInv /\ Retire => IInv'
<1> SUFFICES ASSUME IInv, Retire PROVE IInv'
  OBVIOUS
<1> DEFINE k == kernel_block_idx
<1>1. /\ ~ fresh /\ status' = [status EXCEPT ![k] = "user"] /\ kernel_block_idx' = NextBlockIdx(k) /\ fresh' = TRUE
      /\ UNCHANGED <<arrived, memory, socketVars, threadVars>>
  BY DEF Retire
<1>2. /\ k \in Block /\ NextBlockIdx(k) \in Block /\ status \in [Block -> {"kernel", "user"}] /\ status[k] = "kernel"
  BY <1>1, NextIs DEF IInv, Types, RingInv
<1>3. /\ Oldest' = Oldest /\ (Busy' <=> Busy) /\ pc' = pc /\ held' = held /\ buf' = buf /\ cursor' = cursor
      /\ taken' = taken /\ current_pkt_idx' = current_pkt_idx /\ current_block_idx' = current_block_idx
      /\ memory' = memory /\ arrived' = arrived /\ UNCHANGED <<opened, mapped>>
  BY <1>1 DEF Oldest, Busy, threadVars, socketVars
<1>4. status'[k] = "user" /\ \A i \in Block : i # k => status'[i] = status[i]
  BY <1>1, <1>2
<1>5. Types'
  <2>1. status' \in [Block -> {"kernel", "user"}]
    BY <1>1, <1>2
  <2> QED
    BY <1>1, <1>2, <1>3, <2>1 DEF IInv, Types, Block
<1>6. SocketInv'
  BY <1>3 DEF IInv, SocketInv
<1>7. RingInv'
  <2> DEFINE a == Oldest
  <2>1. a \in Block
    BY OldestType
  <2>2. PICK c \in 0 .. Blocks : Span(a, c) /\ (Busy => c > 0)
    BY DEF IInv, RingInv, Spanned
  <2> HIDE DEF a
  <2>3. Blocks \in Nat \ {0} /\ c \in Int
    BY RingAssumption
  <2>4. k = (a + c) % Blocks
    BY <2>2 DEF Span
  <2>5. c < Blocks
    <3>1. SUFFICES ASSUME c = Blocks PROVE FALSE
      BY <2>3
    <3>2. k = a /\ Dist(a, a) = 0
      BY <2>1, <2>4, <3>1, RingSteps
    <3>3. status[k] = "user"
      BY <1>2, <2>2, <2>3, <3>1, <3>2 DEF Span
    <3> QED
      BY <1>2, <3>3
  <2>6. kernel_block_idx' = (a + (c + 1)) % Blocks
    BY <1>1, <2>1, <2>4, <2>5, RingSteps
  <2>7. ASSUME NEW i \in Block PROVE status'[i] = "user" <=> Dist(a, i) < c + 1
    <3>1. Dist(a, i) \in Int /\ (Dist(a, i) = c <=> i = k)
      BY <2>1, <2>4, <2>5, DistIs, RingSteps
    <3>2. status[i] = "user" <=> Dist(a, i) < c
      BY <2>2 DEF Span
    <3> QED
      BY <1>2, <1>4, <2>3, <3>1, <3>2
  <2>8. c + 1 \in 0 .. Blocks /\ c + 1 > 0
    BY <2>3, <2>5
  <2> DEFINE d == c + 1
  <2>9. d \in 0 .. Blocks /\ d > 0
    BY <2>8
  <2>10. kernel_block_idx' = (Oldest' + d) % Blocks /\ \A i \in Block : status'[i] = "user" <=> Dist(Oldest', i) < d
    BY <1>3, <2>6, <2>7 DEF a
  <2> HIDE DEF d
  <2>11. Spanned'
    BY <2>9, <2>10 DEF Spanned, Span, Block, Dist
  <2> QED
    BY <1>1, <1>3, <2>11 DEF IInv, RingInv
<1>8. BatchInv'
  BY <1>3 DEF IInv, BatchInv, NumRead
<1>9. DrainInv'
  BY <1>3 DEF IInv, DrainInv, At
<1>10. OrderInv'
  <2>1. \A i \in Block : Live(i)' <=> Live(i)
    BY <1>1, <1>2, <1>4 DEF Live
  <2> QED
    BY <1>3, <2>1 DEF IInv, OrderInv, Block, Dist
<1> QED
  BY <1>5, <1>6, <1>7, <1>8, <1>9, <1>10 DEF IInv

\* The block taken is the oldest; the buffer, cleared, is as good as new.
LEMMA NextBlockInv == IInv /\ NextBlock => IInv'
<1> SUFFICES ASSUME IInv, NextBlock PROVE IInv'
  OBVIOUS
<1> DEFINE b == current_block_idx
<1>1. /\ pc = "poll" /\ status[b] = "user" /\ held' = b /\ current_block_idx' = NextBlockIdx(b)
      /\ buf' = Clear(buf) /\ current_pkt_idx' = 0 /\ pc' = "fill"
      /\ UNCHANGED <<arrived, kernel_block_idx, fresh, status, memory, opened, mapped, cursor, taken>>
  BY DEF NextBlock, kernelVars, socketVars
<1>2. b \in Block /\ NextBlockIdx(b) \in Block /\ NoBlock \notin Block /\ BlockCap \in Nat
  BY NextIs, RingAssumption DEF IInv, Types, Block
<1>3. ~ Busy /\ Busy' /\ Oldest = b /\ Oldest' = b
  BY <1>1 DEF Busy, Oldest
<1>4. buf' \in BufferOf(Ref) /\ Counted(buf') /\ buf'.input = <<>>
  BY <1>1, ClearCounted DEF IInv, Types, BatchInv
<1>5. Types'
  <2>1. current_pkt_idx' \in 0 .. BlockCap + 1 /\ pc' \in Step
    BY <1>1, <1>2 DEF Step
  <2> QED
    BY <1>1, <1>2, <1>4, <2>1 DEF IInv, Types, Block
<1>6. SocketInv'
  BY <1>1 DEF IInv, SocketInv
<1>7. RingInv'
  <2>1. PICK c \in 0 .. Blocks : Span(b, c)
    BY <1>3 DEF IInv, RingInv, Spanned
  <2>2. c > 0
    <3>1. Dist(b, b) = 0 /\ Dist(b, b) < c
      BY <1>1, <1>2, <2>1, RingSteps DEF Span
    <3> QED
      BY <3>1
  <2>3. /\ kernel_block_idx' = (Oldest' + c) % Blocks
        /\ \A i \in Block : status'[i] = "user" <=> Dist(Oldest', i) < c
    BY <1>1, <1>3, <2>1 DEF Span
  <2>4. Spanned'
    BY <2>2, <2>3 DEF Spanned, Span, Block, Dist
  <2>5. fresh' \/ status'[kernel_block_idx'] = "kernel"
    BY <1>1 DEF IInv, RingInv
  <2> QED
    BY <1>1, <1>2, <1>3, <2>4, <2>5 DEF RingInv
<1>8. BatchInv'
  <2>1. memory[b] \in Seq(Packet) /\ MaxBatch \in Nat
    BY <1>2, BatchSize DEF IInv, Types
  <2>2. NumRead' = 0 /\ Len(buf'.input) = 0
    BY <1>1, <1>4, <2>1 DEF NumRead
  <2> QED
    BY <1>4, <2>1, <2>2 DEF BatchInv
<1>9. DrainInv'
  BY <1>1 DEF DrainInv
<1>10. OrderInv'
  <2>1. \A i \in Block : Live(i)' <=> Live(i)
    BY <1>1 DEF Live
  <2> QED
    BY <1>1, <1>3, <2>1 DEF IInv, OrderInv, Block, Dist
<1> QED
  BY <1>5, <1>6, <1>7, <1>8, <1>9, <1>10 DEF IInv

\* A packet read is filed behind those already in the buffer, unless it is full.
LEMMA FillInv == IInv /\ Fill => IInv'
<1> SUFFICES ASSUME IInv, Fill PROVE IInv'
  OBVIOUS
<1> DEFINE n == Len(memory[held])
           slot == current_pkt_idx + 1
           ref == [block |-> held, slot |-> slot, port |-> memory[held][slot].port]
<1>1. /\ pc = "fill" /\ current_pkt_idx < n
      /\ current_pkt_idx' = Advanced(current_pkt_idx, n) /\ buf' = AddRef(buf, ref)
      /\ UNCHANGED <<arrived, kernel_block_idx, fresh, status, memory, opened, mapped,
                     current_block_idx, pc, held, cursor, taken>>
  BY DEF Fill, kernelVars, socketVars
<1>2. /\ Busy /\ Busy' /\ held \in Block /\ memory[held] \in Seq(Packet) /\ n <= BlockCap /\ n \in Nat
      /\ current_pkt_idx \in Nat /\ BlockCap \in Nat /\ buf \in BufferOf(Ref) /\ Counted(buf)
  BY <1>1, RingAssumption DEF IInv, Types, RingInv, BatchInv, Busy
<1>3. slot \in 1 .. n /\ memory[held][slot] \in Packet /\ slot \in 1 .. BlockCap
  BY <1>1, <1>2
<1>4. ref \in Ref
  BY <1>2, <1>3 DEF Ref, Packet
<1> HIDE DEF ref
<1>5. /\ buf' \in BufferOf(Ref) /\ Counted(buf')
      /\ buf'.input = IF Len(buf.input) < MaxBatch THEN Append(buf.input, ref) ELSE buf.input
  BY <1>1, <1>2, <1>4, AddRefCounted, RefKeyed
<1>6. current_pkt_idx' = (IF slot < n THEN slot ELSE n + 1) /\ current_pkt_idx' \in 0 .. BlockCap + 1
  BY <1>1, <1>2, <1>3 DEF Advanced
<1>7. Types'
  BY <1>1, <1>5, <1>6 DEF IInv, Types, Block
<1>8. SocketInv'
  BY <1>1 DEF IInv, SocketInv
<1>9. RingInv'
  <2>1. Oldest' = Oldest /\ \A a, c : Span(a, c)' <=> Span(a, c)
    BY <1>1 DEF Oldest, Busy, Span, Block, Dist
  <2> QED
    BY <1>1, <1>2, <2>1 DEF IInv, RingInv, Spanned
<1>10. BatchInv'
  <2>1. NumRead = current_pkt_idx /\ NumRead' = slot
    BY <1>1, <1>2, <1>3, <1>6 DEF NumRead
  <2>2. /\ buf.input \in Seq(Ref) /\ MaxBatch \in Nat \ {0}
        /\ Len(buf.input) = IF NumRead < MaxBatch THEN NumRead ELSE MaxBatch
        /\ \A l \in 1 .. Len(buf.input) :
             buf.input[l] = [block |-> held, slot |-> l, port |-> memory[held][l].port]
    <3>1. MaxBatch \in Nat \ {0}
      BY BatchSize
    <3>2. buf.input \in Seq(Ref)
      BY <1>2 DEF BufferOf
    <3> QED
      BY <1>2, <3>1, <3>2 DEF IInv, BatchInv
  <2>3. CASE Len(buf.input) < MaxBatch
    <3>1. /\ buf'.input = Append(buf.input, ref) /\ Len(buf.input) = current_pkt_idx
      BY <1>5, <2>1, <2>2, <2>3
    <3>2. Len(buf'.input) = slot /\ buf'.input[slot] = ref /\ slot <= MaxBatch
          /\ \A l \in 1 .. slot : l # slot => l \in 1 .. Len(buf.input) /\ buf'.input[l] = buf.input[l]
      BY <1>2, <1>4, <2>2, <2>3, <3>1
    <3>3. ASSUME NEW l \in 1 .. slot
          PROVE  buf'.input[l] = [block |-> held, slot |-> l, port |-> memory[held][l].port]
      BY <2>2, <3>2 DEF ref
    <3>4. Len(buf'.input) = IF NumRead' < MaxBatch THEN NumRead' ELSE MaxBatch
      BY <1>3, <2>1, <2>2, <3>2
    <3> QED
      BY <1>1, <1>5, <3>2, <3>3, <3>4 DEF BatchInv
  <2>4. CASE ~ (Len(buf.input) < MaxBatch)
    <3>1. buf'.input = buf.input
      BY <1>5, <2>4
    <3>2. Len(buf'.input) = IF NumRead' < MaxBatch THEN NumRead' ELSE MaxBatch
      BY <1>2, <2>1, <2>2, <2>4, <3>1
    <3> QED
      BY <1>1, <1>5, <2>2, <3>1, <3>2 DEF BatchInv
  <2> QED
    BY <2>3, <2>4
<1>11. DrainInv'
  BY <1>1 DEF DrainInv
<1>12. OrderInv'
  <2>1. Oldest' = Oldest /\ \A i \in Block : Live(i)' <=> Live(i)
    BY <1>1 DEF Live, Oldest, Busy
  <2> QED
    BY <1>1, <2>1 DEF IInv, OrderInv, Block, Dist
<1> QED
  BY <1>7, <1>8, <1>9, <1>10, <1>11, <1>12 DEF IInv

\* Each of the grouped references leads to a packet of the block held, the one it was made for.
LEMMA DeliveryLeads ==
  ASSUME IInv, pc = "drain", NEW pi, Reorders(Delivery(buf), buf.input, pi)
  PROVE  /\ held \in Block /\ Len(Delivery(buf)) = Len(buf.input) /\ Len(buf.input) \in Nat
         /\ DOMAIN Delivery(buf) = 1 .. Len(buf.input)
         /\ Len(buf.input) = IF Len(memory[held]) < MaxBatch THEN Len(memory[held]) ELSE MaxBatch
         /\ \A x \in 1 .. Len(buf.input) :
              /\ pi[x] \in 1 .. Len(buf.input) /\ pi[x] \in 1 .. Len(memory[held])
              /\ Delivery(buf)[x] = [block |-> held, slot |-> pi[x], port |-> memory[held][pi[x]].port]
              /\ At(Delivery(buf)[x]) = memory[held][pi[x]] /\ memory[held][pi[x]] \in Packet
<1>1. /\ Busy /\ held \in Block /\ memory[held] \in Seq(Packet) /\ buf.input \in Seq(Ref)
      /\ current_pkt_idx >= Len(memory[held]) /\ current_pkt_idx \in Nat
  BY RingAssumption DEF IInv, Types, RingInv, Busy, BufferOf, DrainInv
<1>2. MaxBatch \in Nat
  BY BatchSize
<1>3. NumRead = Len(memory[held])
  BY <1>1 DEF NumRead
<1>4. /\ Len(buf.input) = IF Len(memory[held]) < MaxBatch THEN Len(memory[held]) ELSE MaxBatch
      /\ \A l \in 1 .. Len(buf.input) :
           buf.input[l] = [block |-> held, slot |-> l, port |-> memory[held][l].port]
  BY <1>1, <1>3 DEF IInv, BatchInv
<1>5. Len(buf.input) \in Nat /\ Len(buf.input) <= Len(memory[held])
  BY <1>1, <1>2, <1>4
<1>6. ASSUME NEW x \in 1 .. Len(buf.input)
      PROVE  /\ pi[x] \in 1 .. Len(buf.input) /\ pi[x] \in 1 .. Len(memory[held])
             /\ Delivery(buf)[x] = [block |-> held, slot |-> pi[x], port |-> memory[held][pi[x]].port]
             /\ At(Delivery(buf)[x]) = memory[held][pi[x]] /\ memory[held][pi[x]] \in Packet
  <2>1. pi[x] \in 1 .. Len(buf.input) /\ Delivery(buf)[x] = buf.input[pi[x]]
    BY DEF Reorders
  <2>2. pi[x] \in 1 .. Len(memory[held])
    BY <1>1, <1>5, <2>1
  <2>3. Delivery(buf)[x] = [block |-> held, slot |-> pi[x], port |-> memory[held][pi[x]].port]
    BY <1>4, <2>1
  <2> QED
    BY <1>1, <2>1, <2>2, <2>3 DEF At
<1>7. Len(Delivery(buf)) = Len(buf.input) /\ DOMAIN Delivery(buf) = 1 .. Len(buf.input)
  BY <1>5 DEF Reorders
<1> QED
  BY <1>1, <1>4, <1>5, <1>6, <1>7

\* Grouping is stable because clear and add_packet kept the counters of the batch.
LEMMA GroupInv == IInv /\ Group => IInv'
<1> SUFFICES ASSUME IInv, Group PROVE IInv'
  OBVIOUS
<1>1. /\ pc = "fill" /\ current_pkt_idx >= Len(memory[held]) /\ buf' = GroupPackets(buf) /\ cursor' = 0
      /\ pc' = "drain"
      /\ UNCHANGED <<arrived, kernel_block_idx, fresh, status, memory, opened, mapped,
                     current_block_idx, held, current_pkt_idx, taken>>
  BY DEF Group, kernelVars, socketVars
<1>2. Busy /\ Busy' /\ MaxBatch \in Nat /\ buf \in BufferOf(Ref) /\ Counted(buf)
  <2>1. Busy /\ Busy'
    BY <1>1 DEF Busy
  <2>2. buf \in BufferOf(Ref) /\ Counted(buf)
    BY DEF IInv, Types, BatchInv
  <2> QED
    BY <2>1, <2>2, BatchSize
<1>3. /\ buf' \in BufferOf(Ref) /\ buf'.input = buf.input /\ buf'.active = buf.active /\ buf'.counts = buf.counts
      /\ Delivery(buf') = FlattenSeq([i \in 1 .. Len(buf.active) |-> OfPort(buf.input, buf.active[i])])
      /\ \E pi : Reorders(Delivery(buf'), buf.input, pi)
  <2>1. GroupPackets(buf) \in BufferOf(Ref) /\ SameBatch(GroupPackets(buf), buf)
    BY <1>2, RefKeyed, Grouped
  <2>2. Delivery(GroupPackets(buf)) = FlattenSeq([i \in 1 .. Len(buf.active) |-> OfPort(buf.input, buf.active[i])])
    BY <1>2, RefKeyed, GroupingIsStable
  <2>3. \E pi : Reorders(Delivery(GroupPackets(buf)), buf.input, pi)
    BY <1>2, RefKeyed, GroupingReorders
  <2> QED
    BY <1>1, <2>1, <2>2, <2>3 DEF SameBatch
<1>4. Counted(buf')
  BY <1>2, <1>3 DEF Counted
<1>5. Types'
  BY <1>1, <1>2, <1>3 DEF IInv, Types, Step, Block
<1>6. SocketInv'
  BY <1>1 DEF IInv, SocketInv
<1>7. RingInv'
  <2>1. Oldest' = Oldest /\ \A a, c : Span(a, c)' <=> Span(a, c)
    BY <1>1 DEF Oldest, Busy, Span, Block, Dist
  <2> QED
    BY <1>1, <1>2, <2>1 DEF IInv, RingInv, Spanned
<1>8. BatchInv'
  BY <1>1, <1>2, <1>3, <1>4 DEF IInv, BatchInv, NumRead
<1>9. DrainInv'
  <2>1. Len(buf.input) \in Nat
    BY <1>2 DEF BufferOf
  <2>2. cursor' <= Len(buf'.input) /\ \A x \in 1 .. cursor' : At(Delivery(buf)[x])' \in ToSet(taken)'
    BY <1>1, <1>3, <2>1
  <2> QED
    BY <1>1, <1>3, <2>2 DEF DrainInv
<1>10. OrderInv'
  <2>1. Oldest' = Oldest /\ \A i \in Block : Live(i)' <=> Live(i)
    BY <1>1 DEF Live, Oldest, Busy
  <2> QED
    BY <1>1, <2>1 DEF IInv, OrderInv, Block, Dist
<1> QED
  BY <1>4, <1>5, <1>6, <1>7, <1>8, <1>9, <1>10 DEF IInv

\* What is handed on is the packet behind the next reference.
LEMMA DrainStepInv == IInv /\ Drain => IInv'
<1> SUFFICES ASSUME IInv, Drain PROVE IInv'
  OBVIOUS
<1> DEFINE p == At(Delivery(buf)[cursor + 1])
<1>1. /\ pc = "drain" /\ cursor < Len(Delivery(buf)) /\ cursor' = cursor + 1 /\ taken' = Append(taken, p)
      /\ UNCHANGED <<arrived, kernel_block_idx, fresh, status, memory, opened, mapped,
                     current_block_idx, pc, held, current_pkt_idx, buf>>
  BY DEF Drain, kernelVars, socketVars
<1>2. /\ Busy /\ cursor \in Nat /\ taken \in Seq(Packet) /\ Len(buf.input) <= MaxBatch
  <2>1. Busy
    BY <1>1 DEF Busy
  <2>2. cursor \in Nat /\ taken \in Seq(Packet)
    BY BatchSize DEF IInv, Types
  <2>3. Len(buf.input) <= MaxBatch
    BY DEF IInv, BatchInv, Counted
  <2> QED
    BY <2>1, <2>2, <2>3
<1>3. PICK pi : Reorders(Delivery(buf), buf.input, pi)
  BY <1>1 DEF IInv, DrainInv
<1>4. /\ Len(Delivery(buf)) = Len(buf.input) /\ Len(buf.input) \in Nat
      /\ \A x \in 1 .. Len(buf.input) : At(Delivery(buf)[x]) \in Packet
  BY <1>1, <1>3, DeliveryLeads
<1>5. cursor + 1 \in 1 .. Len(buf.input) /\ p \in Packet
  BY <1>1, <1>2, <1>4
<1> HIDE DEF p
<1>6. taken' \in Seq(Packet) /\ ToSet(taken') = ToSet(taken) \cup {p}
  <2>1. /\ taken' \in Seq(Packet) /\ Len(taken') = Len(taken) + 1 /\ taken'[Len(taken) + 1] = p
        /\ \A x \in 1 .. Len(taken) : taken'[x] = taken[x]
    BY <1>1, <1>2, <1>5
  <2>2. DOMAIN taken = 1 .. Len(taken) /\ DOMAIN taken' = 1 .. Len(taken) + 1 /\ Len(taken) \in Nat
    BY <1>2, <2>1
  <2> QED
    BY <2>1, <2>2 DEF ToSet
<1>7. Types'
  <2>1. cursor' \in 0 .. MaxBatch
    BY <1>1, <1>2, <1>5, BatchSize
  <2> QED
    BY <1>1, <1>6, <2>1 DEF IInv, Types, Block
<1>8. SocketInv'
  BY <1>1 DEF IInv, SocketInv
<1>9. RingInv'
  <2>1. Oldest' = Oldest /\ \A a, c : Span(a, c)' <=> Span(a, c)
    BY <1>1 DEF Oldest, Busy, Span, Block, Dist
  <2> QED
    BY <1>1, <2>1 DEF IInv, RingInv, Spanned, Busy
<1>10. BatchInv'
  BY <1>1 DEF IInv, BatchInv, NumRead, Busy
<1>11. DrainInv'
  <2>1. \A x \in 1 .. cursor : At(Delivery(buf)[x]) \in ToSet(taken)
    BY <1>1 DEF IInv, DrainInv
  <2>2. \A x \in 1 .. cursor + 1 : x \in 1 .. cursor \/ x = cursor + 1
    BY <1>2
  <2>3. \A x \in 1 .. cursor' : At(Delivery(buf)[x])' \in ToSet(taken)'
    BY <1>1, <1>6, <2>1, <2>2 DEF At, p
  <2>4. cursor' <= Len(buf.input)
    BY <1>1, <1>5
  <2> QED
    BY <1>1, <2>3, <2>4 DEF IInv, DrainInv
<1>12. OrderInv'
  <2>1. Oldest' = Oldest /\ \A i \in Block : Live(i)' <=> Live(i)
    BY <1>1 DEF Live, Oldest, Busy
  <2> QED
    BY <1>1, <2>1 DEF IInv, OrderInv, Block, Dist
<1> QED
  BY <1>7, <1>8, <1>9, <1>10, <1>11, <1>12 DEF IInv

\* The block given back is the oldest of the thread's, whose span then starts one later.
LEMMA RecycleInv == IInv /\ Recycle => IInv'
<1> SUFFICES ASSUME IInv, Recycle PROVE IInv'
  OBVIOUS
<1>1. /\ pc = "drain" /\ cursor = Len(Delivery(buf)) /\ status' = [status EXCEPT ![held] = "kernel"]
      /\ held' = NoBlock /\ pc' = "poll"
      /\ UNCHANGED <<arrived, kernel_block_idx, fresh, memory, opened, mapped,
                     current_block_idx, current_pkt_idx, buf, cursor, taken>>
  BY DEF Recycle, kernelVars, socketVars
<1>2. /\ Busy /\ ~ Busy' /\ held \in Block /\ status \in [Block -> {"kernel", "user"}]
      /\ current_block_idx = NextBlockIdx(held) /\ Oldest = held /\ Oldest' = NextBlockIdx(held)
  BY <1>1 DEF Busy, IInv, Types, RingInv, Oldest
<1>3. status'[held] = "kernel" /\ \A i \in Block : i # held => status'[i] = status[i]
  BY <1>1, <1>2
<1>4. Types'
  <2>1. status' \in [Block -> {"kernel", "user"}]
    BY <1>1, <1>2
  <2> QED
    BY <1>1, <2>1 DEF IInv, Types, Step, Block
<1>5. SocketInv'
  BY <1>1 DEF IInv, SocketInv
<1>6. RingInv'
  <2>1. PICK c \in 0 .. Blocks : Span(held, c) /\ c > 0
    BY <1>2 DEF IInv, RingInv, Spanned
  <2>2. Blocks \in Nat \ {0} /\ c \in Int
    BY RingAssumption
  <2> DEFINE d == c - 1
             b == NextBlockIdx(held)
  <2>3. d \in 0 .. Blocks /\ d \in Int /\ d < Blocks /\ b \in Block
    BY <1>2, <2>1, <2>2, NextIs
  <2>4. kernel_block_idx' = (b + d) % Blocks
    BY <1>1, <1>2, <2>1, RingSteps DEF Span
  <2>5. ASSUME NEW i \in Block PROVE status'[i] = "user" <=> Dist(b, i) < d
    <3>1. CASE i = held
      <4>1. Dist(b, i) = Blocks - 1
        BY <1>2, <2>2, <3>1, RingSteps
      <4> QED
        BY <1>3, <2>1, <2>2, <3>1, <4>1
    <3>2. CASE i # held
      <4>1. Dist(b, i) = Dist(held, i) - 1
        BY <1>2, <2>2, <3>2, RingSteps
      <4>2. Dist(held, i) \in Int /\ (status[i] = "user" <=> Dist(held, i) < c)
        BY <1>2, <2>1, DistIs DEF Span
      <4> QED
        BY <1>3, <2>2, <3>2, <4>1, <4>2
    <3> QED
      BY <3>1, <3>2
  <2>6. kernel_block_idx' = (Oldest' + d) % Blocks /\ \A i \in Block : status'[i] = "user" <=> Dist(Oldest', i) < d
    BY <1>2, <2>4, <2>5
  <2> HIDE DEF d, b
  <2>7. Spanned'
    BY <1>2, <2>3, <2>6 DEF Spanned, Span, Block, Dist
  <2>8. fresh' \/ status'[kernel_block_idx'] = "kernel"
    BY <1>1, <1>3 DEF IInv, RingInv, Types
  <2> QED
    BY <1>1, <1>2, <2>7, <2>8 DEF RingInv
<1>7. BatchInv'
  BY <1>1, <1>2 DEF IInv, BatchInv
<1>8. DrainInv'
  BY <1>1 DEF DrainInv
<1>9. OrderInv'
  <2>1. ASSUME NEW i \in Block, Live(i)' PROVE i # held /\ Live(i)
    <3>1. ~ fresh => kernel_block_idx # held
      BY <1>2, KernelElsewhere DEF IInv, RingInv
    <3> QED
      BY <1>1, <1>3, <2>1, <3>1 DEF Live
  <2>2. \A i \in Block : Dist(held, i) \in Int /\ (i # held => Dist(NextBlockIdx(held), i) = Dist(held, i) - 1)
    <3>1. 0 \in 0 .. Blocks
      BY RingAssumption
    <3> QED
      BY <1>2, <3>1, DistIs, RingSteps
  <2>3. ASSUME NEW i \in Block, NEW j \in Block, Live(i)', Live(j)', Dist(Oldest', i) < Dist(Oldest', j)
        PROVE  Dist(Oldest, i) < Dist(Oldest, j)
    <3>1. i # held /\ j # held
      BY <2>1, <2>3
    <3>2. /\ Dist(Oldest', i) = Dist(held, i) - 1 /\ Dist(Oldest', j) = Dist(held, j) - 1
          /\ Dist(held, i) \in Int /\ Dist(held, j) \in Int
      BY <1>2, <2>2, <3>1
    <3> QED
      BY <1>2, <2>3, <3>2
  <2>4. /\ \A i \in Block : Live(i)' => \A x \in 1 .. Len(memory[i]) : memory[i][x].id <= arrived
        /\ \A i, j \in Block : Live(i)' /\ Live(j)' => \A x \in 1 .. Len(memory[i]), y \in 1 .. Len(memory[j]) :
             Dist(Oldest', i) < Dist(Oldest', j) \/ (i = j /\ x < y) => memory[i][x].id < memory[j][y].id
    BY <2>1, <2>3 DEF IInv, OrderInv
  <2> QED
    BY <1>1, <2>4 DEF OrderInv, Block, Dist
<1> QED
  BY <1>4, <1>5, <1>6, <1>7, <1>8, <1>9 DEF IInv

\* Every step of thread and kernel keeps the invariant.
LEMMA StepInv == IInv /\ [Next]_vars => IInv'
<1> SUFFICES ASSUME IInv, [Next]_vars PROVE IInv'
  OBVIOUS
<1>1. CASE UNCHANGED vars
  <2>1. /\ UNCHANGED <<arrived, kernel_block_idx, fresh, status, memory, opened, mapped, current_block_idx,
                       pc, held, current_pkt_idx, buf, cursor, taken>>
    BY <1>1 DEF vars, kernelVars, socketVars, threadVars
  <2>2. Oldest' = Oldest /\ (Busy' <=> Busy) /\ \A a, c : Span(a, c)' <=> Span(a, c)
    BY <2>1 DEF Oldest, Busy, Span, Block, Dist
  <2>3. Types' /\ SocketInv' /\ BatchInv' /\ DrainInv'
    BY <2>1, <2>2 DEF IInv, Types, SocketInv, BatchInv, NumRead, DrainInv, At, Block
  <2>4. RingInv'
    BY <2>1, <2>2 DEF IInv, RingInv, Spanned
  <2>5. OrderInv'
    BY <2>1, <2>2 DEF IInv, OrderInv, Live, Block, Dist
  <2> QED
    BY <2>3, <2>4, <2>5 DEF IInv
<1> QED
  BY <1>1, SetUpInv, GiveUpInv, ReceiveInv, RetireInv, NextBlockInv, FillInv, GroupInv, DrainStepInv, RecycleInv
     DEF Next, Thread

\* The invariant holds in every state of a behaviour.
LEMMA Invariance == Spec => []IInv
<1>1. Init => IInv
  BY InitInv
<1>2. IInv /\ [Next]_vars => IInv'
  BY StepInv
<1> QED
  BY <1>1, <1>2, PTL DEF Spec

----------------------------------------------------------------------------
(* The properties.                                                         *)

\* Types of the state.
THEOREM CaptureTypes == Spec => []TypeOK
<1>1. IInv => TypeOK
  <2> SUFFICES ASSUME Types PROVE TypeOK
    BY DEF IInv
  <2>1. DOMAIN memory = Block /\ \A i \in Block : memory[i] \in Seq(Packet) /\ Len(memory[i]) <= BlockCap
    BY DEF Types
  <2>2. pc \in ToSet(Setup) \cup {"fill", "drain", "idle"}
    BY SetupIs DEF Types, Step
  <2>3. buf.input \in Seq(Ref) /\ buf.active \in Seq(Ports) /\ \A i \in 0 .. MaxBatch - 1 : buf.sorted[i] \in Ref \cup {NoRef}
    BY DEF Types, BufferOf
  <2> QED
    BY <2>1, <2>2, <2>3 DEF Types, TypeOK
<1> QED
  BY <1>1, Invariance, PTL

\* Kernel and thread agree on whose block is whose, for every number of blocks.
THEOREM KernelAndThreadInStep == Spec => []InStep
<1>1. IInv => InStep
  <2> SUFFICES ASSUME IInv PROVE InStep
    OBVIOUS
  <2> DEFINE a == Oldest
             b == current_block_idx
             k == kernel_block_idx
  <2>1. PICK c \in 0 .. Blocks : Span(a, c) /\ (Busy => c > 0)
    BY DEF IInv, RingInv, Spanned
  <2>2. /\ a \in Block /\ b \in Block /\ k \in Block /\ k = (a + c) % Blocks /\ Blocks \in Nat \ {0} /\ c \in Int
        /\ NoBlock \notin Block /\ (held # NoBlock <=> Busy)
        /\ \A i \in Block : status[i] = "user" <=> Dist(a, i) < c
    BY <2>1, OldestType, RingAssumption DEF IInv, Types, RingInv, Span, Block
  <2>3. \A i \in Block : Between(i) <=> Dist(b, i) < Dist(b, k)
    BY DEF Between, Dist
  <2>4. CASE Busy
    <3>1. a = held /\ b = NextBlockIdx(held) /\ c > 0
      BY <2>1, <2>4 DEF Oldest, IInv, RingInv
    <3>2. Dist(a, a) = 0 /\ status[held] = "user"
      BY <2>2, <3>1, RingSteps
    <3>3. Dist(b, k) = c - 1
      <4>1. c - 1 \in 0 .. Blocks /\ c - 1 < Blocks
        BY <2>2, <3>1
      <4>2. k = (b + (c - 1)) % Blocks
        BY <2>2, <3>1, RingSteps
      <4> QED
        BY <2>2, <4>1, <4>2, RingSteps
    <3>4. ASSUME NEW i \in Block \ {held}
          PROVE  status[i] = "user" <=> Between(i) \/ (k = b /\ status[k] = "user")
      <4>1. Dist(b, i) = Dist(a, i) - 1 /\ Dist(a, i) \in Int
        BY <2>2, <3>1, DistIs, RingSteps
      <4>2. k = b => ~ (status[k] = "user")
        <5> SUFFICES ASSUME k = b PROVE ~ (Dist(a, k) < c)
          BY <2>2
        <5>1. Dist(b, b) = 0
          BY <2>2, RingSteps
        <5>2. b # a
          <6>1. b = (IF a = Blocks - 1 THEN 0 ELSE a + 1)
            BY <2>2, <3>1, NextIs
          <6>2. i # a /\ a \in 0 .. Blocks - 1 /\ i \in 0 .. Blocks - 1 /\ Blocks \in Nat
            BY <2>2, <3>1 DEF Block
          <6> HIDE DEF a, b
          <6> QED
            BY <6>1, <6>2
        <5>3. Dist(b, b) = Dist(a, b) - 1 /\ Dist(a, b) \in Int
          <6>1. a \in Block /\ b \in Block /\ b = NextBlockIdx(a)
            BY <2>2, <3>1
          <6> HIDE DEF a, b
          <6>2. Dist(NextBlockIdx(a), b) = Dist(a, b) - 1 /\ Dist(a, b) \in Int
            BY <5>2, <6>1, DistIs, RingSteps
          <6> QED
            BY <6>1, <6>2
        <5> QED
          BY <2>2, <3>3, <5>1, <5>3
      <4> QED
        BY <2>2, <2>3, <3>3, <4>1, <4>2
    <3> QED
      BY <2>2, <2>4, <3>1, <3>2, <3>4 DEF InStep
  <2>5. CASE ~ Busy
    <3>1. a = b /\ held = NoBlock
      BY <2>2, <2>5 DEF Oldest
    <3>2. \A i \in Block : Dist(b, i) \in 0 .. Blocks - 1
      BY <2>2, DistIs
    <3>3. ASSUME NEW i \in Block
          PROVE  status[i] = "user" <=> Between(i) \/ (k = b /\ status[k] = "user")
      <4>1. CASE c < Blocks
        <5>1. Dist(b, k) = c
          BY <2>2, <3>1, <4>1, RingSteps
        <5>2. k = b => c = 0
          BY <2>2, <3>1, <5>1, RingSteps
        <5> QED
          BY <2>2, <2>3, <3>1, <3>2, <5>1, <5>2
      <4>2. CASE c = Blocks
        <5>1. k = b
          BY <2>2, <3>1, <4>2, RingSteps
        <5> QED
          BY <2>2, <3>1, <3>2, <4>2, <5>1
      <4> QED
        BY <2>2, <4>1, <4>2
    <3> QED
      BY <2>2, <2>5, <3>1, <3>3 DEF InStep
  <2> QED
    BY <2>4, <2>5
<1> QED
  BY <1>1, Invariance, PTL

\* The references in the buffer are those of packets of the block held.
LEMMA ReadsHeld ==
  ASSUME IInv, Busy
  PROVE  \A ref \in Refs(buf) :
           ref.block = held /\ ref.slot \in 1 .. Len(memory[held]) /\ At(ref).port = ref.port
<1>1. /\ held \in Block /\ memory[held] \in Seq(Packet) /\ buf.input \in Seq(Ref) /\ current_pkt_idx \in Nat
  BY RingAssumption DEF IInv, Types, RingInv, BufferOf
<1>2. /\ Len(buf.input) = IF NumRead < MaxBatch THEN NumRead ELSE MaxBatch
      /\ \A l \in 1 .. Len(buf.input) :
           buf.input[l] = [block |-> held, slot |-> l, port |-> memory[held][l].port]
  BY DEF IInv, BatchInv
<1>3. NumRead \in Nat /\ NumRead <= Len(memory[held])
  BY <1>1 DEF NumRead
<1>4. Len(buf.input) <= Len(memory[held]) /\ Len(buf.input) \in Nat
  BY <1>1, <1>2, <1>3, BatchSize
<1> TAKE ref \in Refs(buf)
<1>5. DOMAIN buf.input = 1 .. Len(buf.input)
  BY <1>1
<1>6. PICK l \in 1 .. Len(buf.input) : buf.input[l] = ref
  BY <1>5, Zenon DEF Refs, ToSet
<1>7. ref = [block |-> held, slot |-> l, port |-> memory[held][l].port]
  BY <1>2, <1>6
<1>8. l \in 1 .. Len(memory[held])
  BY <1>1, <1>4, <1>6
<1> QED
  BY <1>7, <1>8 DEF At

\* No reference the thread holds leads into memory that is the kernel's or is gone.
THEOREM ReferencesAlive == Spec => []RefsAlive
<1>1. IInv /\ Busy => mapped
  BY DEF IInv, SocketInv, Busy
<1>2. IInv => RefsAlive
  BY <1>1, ReadsHeld DEF RefsAlive
<1> QED
  BY <1>2, Invariance, PTL

\* Whichever system call of the setup fails, what was opened and mapped is undone.
THEOREM SetupUndone == Spec => []NothingLeaks
<1>1. IInv => NothingLeaks
  BY DEF IInv, SocketInv, NothingLeaks, Busy
<1> QED
  BY <1>1, Invariance, PTL

\* Each block is handed on as a stable grouping of its packets.
THEOREM BlocksGrouped == Spec => []StableGrouping
<1>1. IInv => StableGrouping
  BY DEF IInv, DrainInv, StableGrouping
<1> QED
  BY <1>1, Invariance, PTL

\* No block is given back before its packets, as many as a batch holds, were handed on.
THEOREM BlocksTaken == Spec => BlockFullyTaken
<1> DEFINE Full == \A i \in 1 .. Len(memory[held]) : i <= MaxBatch => memory[held][i] \in ToSet(taken)
<1>1. IInv /\ Recycle => Full
  <2> SUFFICES ASSUME IInv, Recycle, NEW i \in 1 .. Len(memory[held]), i <= MaxBatch
               PROVE  memory[held][i] \in ToSet(taken)
    OBVIOUS
  <2>1. pc = "drain" /\ cursor = Len(Delivery(buf))
    BY DEF Recycle
  <2>2. PICK pi : Reorders(Delivery(buf), buf.input, pi)
    BY <2>1 DEF IInv, DrainInv
  <2>3. /\ Len(Delivery(buf)) = Len(buf.input) /\ held \in Block
        /\ Len(buf.input) = IF Len(memory[held]) < MaxBatch THEN Len(memory[held]) ELSE MaxBatch
        /\ \A x \in 1 .. Len(buf.input) : At(Delivery(buf)[x]) = memory[held][pi[x]]
    BY <2>1, <2>2, DeliveryLeads
  <2>4. i \in 1 .. Len(buf.input)
    <3>1. memory[held] \in Seq(Packet)
      BY <2>3 DEF IInv, Types
    <3> QED
      BY <2>3, <3>1, BatchSize
  <2>5. PICK x \in 1 .. Len(buf.input) : pi[x] = i
    BY <2>2, <2>4 DEF Reorders
  <2>6. At(Delivery(buf)[x]) \in ToSet(taken)
    BY <2>1, <2>3, <2>5 DEF IInv, DrainInv
  <2> QED
    BY <2>3, <2>5, <2>6
<1>2. IInv /\ [Next]_vars => [held # NoBlock /\ held' = NoBlock => Full]_vars
  <2> SUFFICES ASSUME IInv, Next, held # NoBlock, held' = NoBlock PROVE Full
    OBVIOUS
  <2>1. Recycle \/ NextBlock \/ held' = held
    BY DEF Next, Thread, SetUp, GiveUp, Receive, Retire, Fill, Group, Drain, threadVars
  <2>2. NextBlock => held' # NoBlock
    BY RingAssumption DEF NextBlock, IInv, Types, Block
  <2> QED
    BY <1>1, <2>1, <2>2
<1> QED
  BY <1>2, Invariance, PTL DEF Spec, BlockFullyTaken

----------------------------------------------------------------------------
(* The refinement.                                                         *)

\* The packets of the blocks that are not the one held.
Elsewhere == UNION {InBlock(i, 0) : i \in {j \in Block \ {held} : Live(j)}}

\* A packet is elsewhere when it is in a live block other than the one held.
LEMMA InElsewhere ==
  IInv => \A q : q \in Elsewhere <=>
            \E i \in Block : i # held /\ Live(i) /\ \E x \in 1 .. Len(memory[i]) : memory[i][x] = q
<1> SUFFICES ASSUME IInv
             PROVE  \A q : q \in Elsewhere <=>
                      \E i \in Block : i # held /\ Live(i) /\ \E x \in 1 .. Len(memory[i]) : memory[i][x] = q
  OBVIOUS
<1>1. \A i \in Block : DOMAIN memory[i] = 1 .. Len(memory[i]) /\ Len(memory[i]) \in Nat
  BY DEF IInv, Types
<1>2. \A i \in Block : \A q : q \in InBlock(i, 0) <=> \E x \in 1 .. Len(memory[i]) : memory[i][x] = q
  BY <1>1 DEF InBlock
<1> QED
  BY <1>2 DEF Elsewhere

\* Until the thread gives up, what waits is in live blocks or in hand.
LEMMA WaitingIs == IInv /\ pc # "idle" => waiting = Elsewhere \cup (IF Busy THEN InHand ELSE {})
<1> SUFFICES ASSUME IInv, pc # "idle" PROVE waiting = Elsewhere \cup (IF Busy THEN InHand ELSE {})
  OBVIOUS
<1> DEFINE retired == UNION {InBlock(i, 0) : i \in {j \in Block \ {held} : status[j] = "user"}}
           filling == IF fresh THEN {} ELSE InBlock(kernel_block_idx, 0)
<1>1. kernel_block_idx \in Block /\ (~ fresh => kernel_block_idx # held)
  BY RingAssumption, KernelElsewhere DEF IInv, Types, RingInv, Block
<1>2. \A q : q \in Elsewhere <=> \E i \in Block : i # held /\ Live(i) /\ q \in InBlock(i, 0)
  BY DEF Elsewhere
<1>3. \A q : q \in retired <=> \E i \in Block : i # held /\ status[i] = "user" /\ q \in InBlock(i, 0)
  OBVIOUS
<1>4. \A q : q \in filling <=> ~ fresh /\ q \in InBlock(kernel_block_idx, 0)
  OBVIOUS
<1> HIDE DEF retired, filling
<1>5. Elsewhere = retired \cup filling
  BY <1>1, <1>2, <1>3, <1>4 DEF Live
<1>6. waiting = retired \cup filling \cup (IF Busy THEN InHand ELSE {})
  <2>1. waiting = IF pc = "idle" THEN {} ELSE retired \cup filling \cup (IF Busy THEN InHand ELSE {})
    BY Zenon DEF waiting, retired, filling
  <2> QED
    BY <2>1
<1> QED
  BY <1>5, <1>6

\* The same after a step.
LEMMA WaitingIsNext == IInv' /\ pc' # "idle" => waiting' = Elsewhere' \cup (IF Busy' THEN InHand' ELSE {})
<1>1. (IInv /\ pc # "idle" => waiting = Elsewhere \cup (IF Busy THEN InHand ELSE {}))'
  BY WaitingIs, PTL
<1> QED
  BY <1>1

\* At the start nothing waits.
LEMMA InitMapped == Init => Abstract!Init
<1> SUFFICES ASSUME Init PROVE waiting = {}
  BY DEF Init, Abstract!Init
<1>1. IInv /\ pc = "socket" /\ ~ Busy
  BY InitInv, SetupIs DEF Init, Busy
<1>2. \A i \in Block : ~ Live(i)
  BY DEF Init, Live
<1>3. \A q : q \notin Elsewhere
  BY <1>1, <1>2, InElsewhere
<1> QED
  BY <1>1, <1>3, WaitingIs

\* Steps of the setup, and the kernel's when it retires a block, change nothing that waits.
LEMMA SetUpMapped == IInv /\ SetUp => waiting' = waiting
<1> SUFFICES ASSUME IInv, SetUp PROVE waiting' = waiting
  OBVIOUS
<1>1. PICK i \in DOMAIN Setup : pc = Setup[i] /\ pc' = Setup[i + 1]
  BY DEF SetUp
<1>2. pc \in SetupStep /\ pc' \in SetupStep \cup {"poll"}
  BY <1>1, SetupIs DEF SetUp, SettingUp
<1>3. ~ Busy /\ ~ Busy' /\ pc # "idle" /\ pc' # "idle"
  BY <1>2 DEF Busy, SetupStep
<1>4. Elsewhere' = Elsewhere
  BY DEF SetUp, kernelVars, Elsewhere, InBlock, Live, Block
<1>5. IInv'
  BY SetUpInv
<1>6. waiting = Elsewhere
  BY <1>3, WaitingIs
<1>7. waiting' = Elsewhere'
  BY <1>3, <1>5, WaitingIsNext
<1> QED
  BY <1>4, <1>6, <1>7

\* A block retired was live and stays so.
LEMMA RetireMapped == IInv /\ Retire => waiting' = waiting
<1> SUFFICES ASSUME IInv, Retire PROVE waiting' = waiting
  OBVIOUS
<1>1. /\ pc # "idle" /\ pc' # "idle" /\ (Busy' <=> Busy) /\ memory' = memory
      /\ UNCHANGED threadVars
  BY DEF Retire, RingThere, threadVars, Busy
<1>2. InHand' = InHand
  BY <1>1 DEF InHand, InBlock, At, threadVars
<1>3. \A i \in Block : Live(i)' <=> Live(i)
  <2>1. kernel_block_idx \in Block /\ status \in [Block -> {"kernel", "user"}] /\ ~ fresh
    BY DEF Retire, IInv, Types
  <2> QED
    BY <2>1 DEF Retire, Live
<1>4. Elsewhere' = Elsewhere
  BY <1>1, <1>3 DEF Elsewhere, InBlock, Block, threadVars
<1>5. IInv'
  BY RetireInv
<1> QED
  BY <1>1, <1>2, <1>4, <1>5, WaitingIs, WaitingIsNext

\* With the socket all that waits is lost.
LEMMA GiveUpEmpties == IInv /\ GiveUp => waiting' \subseteq waiting
<1> SUFFICES ASSUME IInv, GiveUp PROVE waiting' \subseteq waiting
  OBVIOUS
<1>1. pc' = "idle"
  BY DEF GiveUp
<1>2. waiting' = {}
  BY <1>1, Zenon DEF waiting
<1> QED
  BY <1>2

\* A packet the kernel writes is one more that waits.
LEMMA ReceiveMapped ==
  ASSUME NEW port \in Ports
  PROVE  IInv /\ Receive(port) => waiting' = waiting \cup {[id |-> arrived + 1, port |-> port]}
<1> SUFFICES ASSUME IInv, Receive(port) PROVE waiting' = waiting \cup {[id |-> arrived + 1, port |-> port]}
  OBVIOUS
<1> DEFINE k == kernel_block_idx
           p == [id |-> arrived + 1, port |-> port]
           filled == IF fresh THEN <<p>> ELSE Append(memory[k], p)
<1>1. /\ RingThere /\ status[k] = "kernel" /\ arrived' = arrived + 1 /\ fresh' = FALSE
      /\ memory' = [memory EXCEPT ![k] = filled]
      /\ kernel_block_idx' = k /\ status' = status /\ UNCHANGED threadVars
  BY DEF Receive
<1>2. k \in Block /\ memory \in [Block -> Seq(Packet)] /\ NoBlock \notin Block
  BY RingAssumption DEF IInv, Types, Block
<1>3. IInv'
  BY ReceiveInv
<1>4. \A q : (\E x \in 1 .. Len(filled) : filled[x] = q) <=> q = p \/ (~ fresh /\ \E x \in 1 .. Len(memory[k]) : memory[k][x] = q)
  <2> HIDE DEF p
  <2>1. CASE fresh
    <3>1. Len(filled) = 1 /\ filled[1] = p
      BY <2>1
    <3> HIDE DEF filled
    <3> QED
      BY <2>1, <3>1
  <2>2. CASE ~ fresh
    <3>1. filled = Append(memory[k], p) /\ memory[k] \in Seq(Packet)
      BY <1>2, <2>2
    <3> DEFINE n == Len(memory[k])
    <3>2. n \in Nat /\ Len(filled) = n + 1 /\ filled[n + 1] = p /\ \A x \in 1 .. n : filled[x] = memory[k][x]
      BY <3>1
    <3> HIDE DEF filled
    <3>3. \A x : x \in 1 .. n + 1 <=> x \in 1 .. n \/ x = n + 1
      BY <3>2
    <3> QED
      BY <2>2, <3>2, <3>3
  <2> QED
    BY <2>1, <2>2
<1> HIDE DEF p, filled
<1>5. memory'[k] = filled /\ \A i \in Block : i # k => memory'[i] = memory[i]
  BY <1>1, <1>2
<1>6. /\ pc # "idle" /\ pc' # "idle" /\ (Busy' <=> Busy) /\ held' = held /\ k # held
  BY <1>1, <1>2, KernelElsewhere DEF RingThere, Busy, threadVars, IInv, RingInv
<1>7. Live(k)' /\ (Live(k) <=> ~ fresh) /\ \A i \in Block : i # k => (Live(i)' <=> Live(i))
  BY <1>1 DEF Live
<1>8. \A q : q \in Elsewhere' <=>
        \E i \in Block : i # held /\ Live(i)' /\ \E x \in 1 .. Len(memory'[i]) : memory'[i][x] = q
  <2>1. (IInv => \A q : q \in Elsewhere <=>
           \E i \in Block : i # held /\ Live(i) /\ \E x \in 1 .. Len(memory[i]) : memory[i][x] = q)'
    BY InElsewhere, PTL
  <2> QED
    BY <1>3, <1>6, <2>1 DEF Block
<1>9. \A q : q \in Elsewhere' <=> q \in Elsewhere \/ q = p
  <2> TAKE q
  <2>1. (\E x \in 1 .. Len(memory'[k]) : memory'[k][x] = q)
          <=> q = p \/ (Live(k) /\ \E x \in 1 .. Len(memory[k]) : memory[k][x] = q)
    BY <1>4, <1>5, <1>7
  <2>2. q \in Elsewhere <=>
          \E i \in Block : i # held /\ Live(i) /\ \E x \in 1 .. Len(memory[i]) : memory[i][x] = q
    BY InElsewhere
  <2> DEFINE Before(i) == i # held /\ Live(i) /\ \E x \in 1 .. Len(memory[i]) : memory[i][x] = q
             After(i) == i # held /\ Live(i)' /\ \E x \in 1 .. Len(memory'[i]) : memory'[i][x] = q
  <2>3. \A i \in Block : i # k => (After(i) <=> Before(i))
    BY <1>5, <1>7
  <2>4. After(k) <=> q = p \/ Before(k)
    BY <1>6, <1>7, <2>1
  <2>5. (q \in Elsewhere <=> \E i \in Block : Before(i)) /\ (q \in Elsewhere' <=> \E i \in Block : After(i))
    BY <1>8, <2>2
  <2> HIDE DEF Before, After
  <2> QED
    BY <1>2, <2>3, <2>4, <2>5
<1>10. Busy => InHand' = InHand
  <2> SUFFICES ASSUME Busy PROVE InHand' = InHand
    OBVIOUS
  <2>1. held \in Block /\ memory'[held] = memory[held]
    BY <1>5, <1>6, HeldRetired
  <2>2. pc' = pc /\ held' = held /\ current_pkt_idx' = current_pkt_idx /\ buf' = buf /\ cursor' = cursor
    BY <1>1 DEF threadVars
  <2>3. CASE pc = "fill"
    <3>1. InBlock(held, current_pkt_idx)' = InBlock(held, current_pkt_idx)
      BY <2>1, <2>2 DEF InBlock
    <3>2. \A r \in Refs(buf) : r.block = held
      BY ReadsHeld
    <3>3. \A r \in Refs(buf) : At(r)' = At(r)
      BY <2>1, <3>2 DEF At
    <3>4. {At(r) : r \in Refs(buf)}' = {At(r) : r \in Refs(buf)}
      BY <2>2, <3>3
    <3> QED
      BY <2>2, <2>3, <3>1, <3>4 DEF InHand
  <2>4. CASE pc = "drain"
    <3>1. PICK pi : Reorders(Delivery(buf), buf.input, pi)
      BY <2>4 DEF IInv, DrainInv
    <3>2. \A x \in DOMAIN Delivery(buf) : Delivery(buf)[x].block = held
      <4>1. /\ DOMAIN Delivery(buf) = 1 .. Len(buf.input)
            /\ \A x \in 1 .. Len(buf.input) :
                 Delivery(buf)[x] = [block |-> held, slot |-> pi[x], port |-> memory[held][pi[x]].port]
        BY <2>4, <3>1, DeliveryLeads
      <4> TAKE x \in DOMAIN Delivery(buf)
      <4>2. Delivery(buf)[x] = [block |-> held, slot |-> pi[x], port |-> memory[held][pi[x]].port]
        BY <4>1, Zenon
      <4> QED
        BY <4>2
    <3>3. \A x \in DOMAIN Delivery(buf) : At(Delivery(buf)[x])' = At(Delivery(buf)[x])
      BY <2>1, <2>2, <3>2 DEF At
    <3> QED
      BY <2>2, <2>4, <3>3 DEF InHand
  <2> QED
    BY <2>3, <2>4 DEF Busy
<1>11. waiting = Elsewhere \cup (IF Busy THEN InHand ELSE {})
  BY <1>6, WaitingIs
<1>12. waiting' = Elsewhere' \cup (IF Busy' THEN InHand' ELSE {})
  BY <1>3, <1>6, WaitingIsNext
<1> QED
  BY <1>6, <1>9, <1>10, <1>11, <1>12 DEF p

\* What the thread does with the block it holds only takes away from what waits.
LEMMA NextBlockMapped == IInv /\ NextBlock => waiting' \subseteq waiting
<1> SUFFICES ASSUME IInv, NextBlock PROVE waiting' \subseteq waiting
  OBVIOUS
<1> DEFINE b == current_block_idx
<1>1. /\ pc = "poll" /\ pc' = "fill" /\ status[b] = "user" /\ held' = b /\ current_pkt_idx' = 0 /\ buf' = Clear(buf)
      /\ UNCHANGED <<status, memory, kernel_block_idx, fresh>>
  BY DEF NextBlock, kernelVars
<1>2. /\ b \in Block /\ ~ Busy /\ Busy' /\ held = NoBlock /\ NoBlock \notin Block
  BY <1>1, RingAssumption DEF IInv, Types, RingInv, Busy, Block
<1>3. Refs(buf') = {}
  <2>1. Clear(buf).input = <<>>
    BY ClearCounted DEF IInv, Types, BatchInv
  <2> QED
    BY <1>1, <2>1 DEF Refs, ToSet
<1>4. InHand' = InBlock(b, 0)
  BY <1>1, <1>3 DEF InHand, InBlock
<1>5. Elsewhere' \subseteq Elsewhere /\ InBlock(b, 0) \subseteq Elsewhere
  BY <1>1, <1>2 DEF Elsewhere, InBlock, Live, Block
<1>6. IInv'
  BY NextBlockInv
<1> QED
  BY <1>1, <1>2, <1>4, <1>5, <1>6, WaitingIs, WaitingIsNext

\* A packet the buffer refuses is lost; the others are still in hand.
LEMMA FillMapped == IInv /\ Fill => waiting' \subseteq waiting
<1> SUFFICES ASSUME IInv, Fill PROVE waiting' \subseteq waiting
  OBVIOUS
<1> DEFINE n == Len(memory[held])
           ref == [block |-> held, slot |-> current_pkt_idx + 1, port |-> memory[held][current_pkt_idx + 1].port]
<1>1. /\ pc = "fill" /\ pc' = "fill" /\ current_pkt_idx < n /\ current_pkt_idx' = Advanced(current_pkt_idx, n)
      /\ buf' = AddRef(buf, ref) /\ UNCHANGED <<status, memory, kernel_block_idx, fresh, held>>
  BY DEF Fill, kernelVars
<1>2. /\ Busy /\ Busy' /\ held \in Block /\ memory[held] \in Seq(Packet) /\ n \in Nat /\ current_pkt_idx \in Nat
      /\ DOMAIN memory[held] = 1 .. n /\ n <= BlockCap /\ BlockCap \in Nat
  BY <1>1, RingAssumption DEF IInv, Types, RingInv, Busy
<1>3. current_pkt_idx' > current_pkt_idx /\ current_pkt_idx' \in Nat
  BY <1>1, <1>2 DEF Advanced
<1>4. InBlock(held, current_pkt_idx)' \subseteq InBlock(held, current_pkt_idx)
  BY <1>1, <1>2, <1>3 DEF InBlock
<1>5. PICK new \in Ref : new = ref
  <2>1. current_pkt_idx + 1 \in 1 .. BlockCap /\ memory[held][current_pkt_idx + 1] \in Packet
    BY <1>1, <1>2
  <2> QED
    BY <1>2, <2>1 DEF Ref, Packet
<1>6. At(new) \in InBlock(held, current_pkt_idx)
  <2>1. At(new) = memory[held][current_pkt_idx + 1]
    BY <1>5 DEF At
  <2>2. current_pkt_idx + 1 \in 1 .. n /\ current_pkt_idx + 1 > current_pkt_idx
    BY <1>1, <1>2
  <2> QED
    BY <1>2, <2>1, <2>2 DEF InBlock
<1>7. \A r \in Refs(buf') : r \in Refs(buf) \/ r = new
  <2>1. buf' = AddRef(buf, new) /\ buf \in BufferOf(Ref) /\ Counted(buf)
    BY <1>1, <1>5 DEF IInv, Types, BatchInv
  <2>2. buf'.input = IF Len(buf.input) < MaxBatch THEN Append(buf.input, new) ELSE buf.input
    BY <2>1, AddRefCounted, RefKeyed
  <2>3. buf.input \in Seq(Ref)
    BY <2>1 DEF BufferOf
  <2>4. CASE Len(buf.input) < MaxBatch
    <3> DEFINE m == Len(buf.input)
    <3>1. /\ DOMAIN buf.input = 1 .. m /\ DOMAIN buf'.input = 1 .. m + 1 /\ m \in Nat
          /\ buf'.input[m + 1] = new /\ \A l \in 1 .. m : buf'.input[l] = buf.input[l]
      BY <2>2, <2>3, <2>4
    <3> HIDE DEF m
    <3>2. \A l \in 1 .. m + 1 : l \in 1 .. m \/ l = m + 1
      BY <3>1
    <3> QED
      BY <3>1, <3>2 DEF Refs, ToSet
  <2>5. CASE ~ (Len(buf.input) < MaxBatch)
    BY <2>2, <2>5 DEF Refs
  <2> QED
    BY <2>4, <2>5
<1>8. InHand' \subseteq InHand
  <2>1. \A r : At(r)' = At(r)
    BY <1>1 DEF At
  <2>2. InHand = InBlock(held, current_pkt_idx) \cup {At(r) : r \in Refs(buf)}
    BY <1>1 DEF InHand
  <2>3. InHand' = InBlock(held, current_pkt_idx)' \cup {At(r) : r \in Refs(buf')}
    <3>1. InHand' = InBlock(held, current_pkt_idx)' \cup {At(r)' : r \in Refs(buf')}
      BY <1>1 DEF InHand
    <3> QED
      BY <2>1, <3>1
  <2>4. \A q \in {At(r) : r \in Refs(buf')} : q \in {At(r) : r \in Refs(buf)} \/ q = At(new)
    BY <1>7
  <2> QED
    BY <1>4, <1>6, <2>2, <2>3, <2>4
<1>9. Elsewhere' = Elsewhere
  BY <1>1 DEF Elsewhere, InBlock, Live, Block
<1>10. IInv'
  BY FillInv
<1> QED
  BY <1>1, <1>2, <1>8, <1>9, <1>10, WaitingIs, WaitingIsNext

\* In the buffer is the whole block, or as much as a batch holds, when it is grouped.
LEMMA GroupMapped == IInv /\ Group => waiting' \subseteq waiting
<1> SUFFICES ASSUME IInv, Group PROVE waiting' \subseteq waiting
  OBVIOUS
<1>1. /\ pc = "fill" /\ pc' = "drain" /\ buf' = GroupPackets(buf) /\ cursor' = 0
      /\ UNCHANGED <<status, memory, kernel_block_idx, fresh, held>>
  BY DEF Group, kernelVars
<1>2. Busy /\ Busy' /\ buf \in BufferOf(Ref) /\ Counted(buf) /\ \A r : At(r)' = At(r)
  BY <1>1 DEF IInv, Types, BatchInv, Busy, At
<1>3. PICK pi : Reorders(Delivery(buf'), buf.input, pi)
  BY <1>1, <1>2, GroupingReorders, RefKeyed
<1>4. ASSUME NEW x \in DOMAIN Delivery(buf') PROVE Delivery(buf')[x] \in Refs(buf)
  <2>1. /\ DOMAIN Delivery(buf') = 1 .. Len(buf.input)
        /\ \A y \in 1 .. Len(buf.input) : pi[y] \in 1 .. Len(buf.input) /\ Delivery(buf')[y] = buf.input[pi[y]]
    BY <1>3 DEF Reorders
  <2>2. DOMAIN buf.input = 1 .. Len(buf.input)
    BY <1>2 DEF BufferOf
  <2> QED
    BY <2>1, <2>2 DEF Refs, ToSet
<1>5. InHand' \subseteq InHand
  <2>1. InHand' \subseteq {At(Delivery(buf')[x]) : x \in DOMAIN Delivery(buf')}
    BY <1>1, <1>2 DEF InHand
  <2>2. {At(r) : r \in Refs(buf)} \subseteq InHand
    BY <1>1 DEF InHand
  <2> QED
    BY <1>4, <2>1, <2>2
<1>6. Elsewhere' = Elsewhere
  BY <1>1 DEF Elsewhere, InBlock, Live, Block
<1>7. IInv'
  BY GroupInv
<1> QED
  BY <1>1, <1>2, <1>5, <1>6, <1>7, WaitingIs, WaitingIsNext

\* With the block goes whatever the buffer had refused.
LEMMA RecycleMapped == IInv /\ Recycle => waiting' \subseteq waiting
<1> SUFFICES ASSUME IInv, Recycle PROVE waiting' \subseteq waiting
  OBVIOUS
<1>1. /\ pc = "drain" /\ pc' = "poll" /\ status' = [status EXCEPT ![held] = "kernel"] /\ held' = NoBlock
      /\ UNCHANGED <<memory, kernel_block_idx, fresh>>
  BY DEF Recycle, kernelVars
<1>2. held \in Block /\ ~ Busy' /\ status \in [Block -> {"kernel", "user"}]
  BY <1>1, HeldRetired DEF Busy, IInv, Types
<1>3. \A i \in Block : Live(i)' => i # held /\ Live(i)
  <2>1. ~ fresh => kernel_block_idx # held
    BY <1>1, KernelElsewhere DEF IInv, RingInv, Busy
  <2> QED
    BY <1>1, <1>2, <2>1 DEF Live
<1>4. Elsewhere' \subseteq Elsewhere
  BY <1>1, <1>3 DEF Elsewhere, InBlock, Block
<1>5. IInv'
  BY RecycleInv
<1> QED
  BY <1>1, <1>2, <1>4, <1>5, WaitingIs, WaitingIsNext

\* The packet handed on is the oldest of its port: those of other blocks came later, and so did
\* those of the block itself that are still to come.
LEMMA DrainMapped ==
  IInv /\ Drain => \E p \in waiting : /\ \A q \in waiting : q.port = p.port => p.id <= q.id
                                      /\ waiting' = waiting \ {p} /\ taken' = Append(taken, p)
<1> SUFFICES ASSUME IInv, Drain
             PROVE  \E p \in waiting : /\ \A q \in waiting : q.port = p.port => p.id <= q.id
                                       /\ waiting' = waiting \ {p} /\ taken' = Append(taken, p)
  OBVIOUS
<1> DEFINE d == Delivery(buf)
           n == Len(buf.input)
           m == memory[held]
           c == cursor + 1
           p == At(d[c])
<1>1. /\ pc = "drain" /\ pc' = "drain" /\ cursor < Len(d) /\ cursor' = c /\ taken' = Append(taken, p)
      /\ UNCHANGED <<status, memory, kernel_block_idx, fresh, held, buf>>
  BY DEF Drain, kernelVars
<1>2. PICK pi : Reorders(d, buf.input, pi)
  BY <1>1 DEF IInv, DrainInv
<1>3. /\ held \in Block /\ Len(d) = n /\ n \in Nat /\ DOMAIN d = 1 .. n
      /\ \A x \in 1 .. n : /\ pi[x] \in 1 .. n /\ pi[x] \in 1 .. Len(m)
                           /\ d[x] = [block |-> held, slot |-> pi[x], port |-> m[pi[x]].port]
                           /\ At(d[x]) = m[pi[x]] /\ m[pi[x]] \in Packet
  BY <1>1, <1>2, DeliveryLeads
<1>4. Busy /\ Busy' /\ Live(held) /\ Oldest = held /\ cursor \in Nat
  BY <1>1, HeldRetired, BatchSize DEF Busy, Live, Oldest, IInv, Types
<1> HIDE DEF d, n, m
<1>5. c \in 1 .. n /\ c > cursor /\ p = m[pi[c]] /\ p \in Packet
  <2>1. cursor < n /\ cursor \in Nat /\ n \in Nat
    BY <1>1, <1>3, <1>4
  <2>2. c \in 1 .. n /\ c > cursor
    BY <2>1
  <2> HIDE DEF c
  <2> QED
    BY <1>3, <2>2
<1> HIDE DEF p
<1>6. InHand = {At(d[x]) : x \in {k \in 1 .. n : k > cursor}}
  BY <1>1, <1>3 DEF InHand, d
<1>7. InHand' = {At(d[x]) : x \in {k \in 1 .. n : k > c}}
  <2>1. \A r : At(r)' = At(r)
    BY <1>1 DEF At
  <2>2. Delivery(buf)' = d
    BY <1>1 DEF d
  <2>3. InHand' = {At(Delivery(buf)[x])' : x \in {k \in DOMAIN Delivery(buf)' : k > cursor'}}
    BY <1>1 DEF InHand
  <2>4. \A x : At(Delivery(buf)[x])' = At(d[x])
    BY <1>1 DEF At, d
  <2>5. {k \in DOMAIN Delivery(buf)' : k > cursor'} = {k \in 1 .. n : k > c}
    BY <1>1, <1>3, <2>2
  <2> QED
    BY <2>3, <2>4, <2>5
<1>8. /\ \A x, y \in 1 .. n : pi[x] = pi[y] => x = y
      /\ \A x, y \in 1 .. n : x < y /\ m[pi[x]].port = m[pi[y]].port => pi[x] < pi[y]
  <2>1. \A x \in 1 .. n : buf.input[pi[x]].port = m[pi[x]].port
    <3>1. \A x \in 1 .. n : buf.input[pi[x]] = d[x]
      BY <1>2 DEF Reorders, n
    <3>2. \A x \in 1 .. n : d[x].port = m[pi[x]].port
      <4> TAKE x \in 1 .. n
      <4>1. d[x] = [block |-> held, slot |-> pi[x], port |-> m[pi[x]].port]
        BY <1>3, Zenon
      <4> QED
        BY <4>1
    <3> QED
      BY <3>1, <3>2
  <2> QED
    BY <1>2, <2>1 DEF Reorders, n
<1>9. \A x, y \in 1 .. Len(m) : x < y => m[x].id < m[y].id
  BY <1>3, <1>4 DEF IInv, OrderInv, m
<1>10. ASSUME NEW x \in 1 .. n, x > cursor, x # c
       PROVE  m[pi[x]].id # p.id /\ (m[pi[x]].port = p.port => p.id <= m[pi[x]].id)
  <2>1. /\ x \in Int /\ c \in Int /\ cursor \in Int /\ c < x
    BY <1>4, <1>5, <1>10
  <2>2. /\ pi[x] \in 1 .. Len(m) /\ pi[c] \in 1 .. Len(m) /\ pi[x] # pi[c]
        /\ m[pi[x]].id \in Int /\ m[pi[c]].id \in Int /\ pi[x] \in Int /\ pi[c] \in Int
    BY <1>3, <1>5, <1>8, <1>10 DEF Packet
  <2>3. m[pi[x]].id # m[pi[c]].id
    <3>1. CASE pi[x] < pi[c]
      BY <1>9, <2>2, <3>1
    <3>2. CASE pi[c] < pi[x]
      BY <1>9, <2>2, <3>2
    <3> QED
      BY <2>2, <3>1, <3>2
  <2>4. m[pi[x]].port = m[pi[c]].port => m[pi[c]].id < m[pi[x]].id
    BY <1>5, <1>8, <1>9, <2>1, <2>2
  <2> QED
    BY <1>5, <2>2, <2>3, <2>4
<1>11. \A q \in Elsewhere : p.id < q.id
  <2> SUFFICES ASSUME NEW q \in Elsewhere PROVE p.id < q.id
    OBVIOUS
  <2>1. PICK i \in Block : i # held /\ Live(i) /\ \E x \in 1 .. Len(memory[i]) : memory[i][x] = q
    BY InElsewhere
  <2>2. PICK x \in 1 .. Len(memory[i]) : memory[i][x] = q
    BY <2>1
  <2>3. Dist(held, held) < Dist(held, i)
    <3>1. 0 \in 0 .. Blocks
      BY RingAssumption
    <3> QED
      BY <1>3, <2>1, <3>1, RingSteps
  <2>4. pi[c] \in 1 .. Len(memory[held]) /\ p = memory[held][pi[c]]
    BY <1>3, <1>5 DEF m
  <2> QED
    BY <1>3, <1>4, <2>1, <2>2, <2>3, <2>4 DEF IInv, OrderInv
<1>12. waiting = Elsewhere \cup InHand
  BY <1>1, <1>4, WaitingIs
<1>13. waiting' = Elsewhere \cup InHand'
  <2>1. Elsewhere' = Elsewhere
    BY <1>1 DEF Elsewhere, InBlock, Live, Block
  <2>2. IInv'
    BY DrainStepInv
  <2> QED
    BY <1>1, <1>4, <2>1, <2>2, WaitingIsNext
<1>14. p \in InHand
  BY <1>5, <1>6 DEF p
<1>15. InHand' = InHand \ {p}
  <2>1. \A q \in InHand' : q \in InHand /\ q # p
    <3> TAKE q \in InHand'
    <3>1. PICK x \in 1 .. n : x > c /\ q = At(d[x])
      BY <1>7
    <3>2. x > cursor /\ x # c /\ q = m[pi[x]]
      BY <1>3, <1>4, <1>5, <3>1
    <3> QED
      BY <1>6, <1>10, <3>1, <3>2
  <2>2. \A q \in InHand : q = p \/ q \in InHand'
    <3> TAKE q \in InHand
    <3>1. PICK x \in 1 .. n : x > cursor /\ q = At(d[x])
      BY <1>6
    <3>2. x = c \/ x > c
      BY <1>4, <3>1
    <3> QED
      BY <1>7, <3>1, <3>2 DEF p
  <2> QED
    BY <2>1, <2>2
<1>16. \A q \in InHand : q.port = p.port => p.id <= q.id
  <2> SUFFICES ASSUME NEW q \in InHand, q.port = p.port PROVE p.id <= q.id
    OBVIOUS
  <2>1. PICK x \in 1 .. n : x > cursor /\ q = At(d[x])
    BY <1>6
  <2>2. q = m[pi[x]]
    BY <1>3, <2>1
  <2>3. CASE x = c
    BY <1>5, <2>2, <2>3 DEF Packet
  <2>4. CASE x # c
    BY <1>10, <2>1, <2>2, <2>4
  <2> QED
    BY <2>3, <2>4
<1>17. p.id \in Int /\ \A q \in Elsewhere : q # p /\ p.id <= q.id
  <2>1. p.id \in Int
    BY <1>5 DEF Packet
  <2>2. \A q \in Elsewhere : q.id \in Int
    <3> TAKE q \in Elsewhere
    <3>1. PICK i \in Block : \E x \in 1 .. Len(memory[i]) : memory[i][x] = q
      BY InElsewhere
    <3>2. memory[i] \in Seq(Packet)
      BY DEF IInv, Types
    <3>3. q \in Packet
      BY <3>1, <3>2
    <3> QED
      BY <3>3 DEF Packet
  <2> QED
    BY <1>11, <2>1, <2>2
<1>18. p \in waiting /\ waiting' = waiting \ {p} /\ \A q \in waiting : q.port = p.port => p.id <= q.id
  BY <1>12, <1>13, <1>14, <1>15, <1>16, <1>17
<1> QED
  BY <1>1, <1>18


\* Every step of the ring is one of the lossy channel, or leaves it as it is.
LEMMA StepMapped == IInv /\ [Next]_vars => [Abstract!Next]_Abstract!vars
<1> SUFFICES ASSUME IInv, [Next]_vars PROVE Abstract!Next \/ UNCHANGED <<arrived, waiting, taken>>
  BY DEF Abstract!vars
<1>1. ASSUME NEW port \in Ports, Receive(port) PROVE Abstract!Next
  <2>1. waiting' = waiting \cup {[id |-> arrived + 1, port |-> port]}
    BY <1>1, ReceiveMapped
  <2>2. arrived' = arrived + 1 /\ taken' = taken
    BY <1>1 DEF Receive, threadVars
  <2>3. Abstract!Arrive(port)
    BY <2>1, <2>2 DEF Abstract!Arrive
  <2> QED
    BY <2>3 DEF Abstract!Next
<1>2. CASE Retire
  BY <1>2, RetireMapped DEF Retire, threadVars
<1>3. CASE SetUp
  BY <1>3, SetUpMapped DEF SetUp, kernelVars
<1>4. ASSUME GiveUp \/ NextBlock \/ Fill \/ Group \/ Recycle PROVE Abstract!Lose
  <2>1. waiting' \subseteq waiting
    BY <1>4, GiveUpEmpties, NextBlockMapped, FillMapped, GroupMapped, RecycleMapped
  <2>2. arrived' = arrived /\ taken' = taken
    BY <1>4 DEF GiveUp, NextBlock, Fill, Group, Recycle, kernelVars
  <2> QED
    BY <2>1, <2>2 DEF Abstract!Lose
<1>5. CASE Drain
  <2>1. arrived' = arrived
    BY <1>5 DEF Drain, kernelVars
  <2>2. PICK p \in waiting : /\ \A q \in waiting : q.port = p.port => p.id <= q.id
                             /\ waiting' = waiting \ {p} /\ taken' = Append(taken, p)
    BY <1>5, DrainMapped
  <2>3. Abstract!Take(p)
    BY <2>1, <2>2 DEF Abstract!Take
  <2> QED
    BY <2>3 DEF Abstract!Next
<1>6. CASE UNCHANGED vars
  <2>1. waiting' = waiting
    BY <1>6 DEF vars, kernelVars, threadVars, waiting, InHand, InBlock, At, Busy, Block
  <2> QED
    BY <1>6, <2>1 DEF vars, kernelVars, threadVars
<1> QED
  BY <1>1, <1>2, <1>3, <1>4, <1>5, <1>6 DEF Next, Thread, Abstract!Next

\* For every ring, every batch size and every set of ports: whatever the ring, the batches and the
\* grouping do, packets with one port_key are handed on in the order they came in, each at most once.
THEOREM PortFifoImplemented == Spec => ImplementsPortFifo
<1>1. Init => Abstract!Init
  BY InitMapped
<1>2. IInv /\ [Next]_vars => [Abstract!Next]_Abstract!vars
  BY StepMapped
<1> QED
  BY <1>1, <1>2, Invariance, PTL DEF Spec, ImplementsPortFifo, Abstract!Spec
=============================================================================
