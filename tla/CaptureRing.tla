----------------------------- MODULE CaptureRing -----------------------------
(***************************************************************************)
(* The capture thread (src/src/main.rs) on the memory-mapped ring that it  *)
(* shares with the kernel (src/src/capture.rs).  The kernel fills one      *)
(* block after another and retires a block by setting its status to user;  *)
(* the thread takes the retired blocks in the same order, reads the        *)
(* packets of one into the locality buffer, groups them, hands them on     *)
(* and only then gives the block back.  The references in the buffer are   *)
(* raw pointers into the block, so all of it depends on who owns which     *)
(* block when.  The kernel runs concurrently with every step of the        *)
(* thread.  What the kernel receives while its next block is still the     *)
(* thread's is lost before it gets here and is not modelled.               *)
(*                                                                         *)
(* Before that the thread sets the socket up, in six system calls each of  *)
(* which may fail; then it gives back what it has taken and idles.  The    *)
(* kernel fills the ring from when it is there, so packets wait in it      *)
(* before the socket is bound, those of other interfaces among them.       *)
(* Nothing ends the thread, so MmapCapture is never dropped.               *)
(***************************************************************************)
EXTENDS LocalityBuffer, FiniteSets

CONSTANTS
  Blocks,     \* number of blocks, 64 in the code
  BlockCap,   \* packets that fit in a block
  NoBlock,    \* no BlockGuard alive
  MaxPackets  \* bound on the packets of a behaviour

ASSUME RingAssumption == /\ Blocks \in Nat \ {0} /\ BlockCap \in Nat \ {0}
                         /\ NoBlock \notin 0 .. Blocks - 1 /\ MaxPackets \in Nat

VARIABLES
  arrived,           \* packets received by the kernel so far
  status,            \* block_status of each block, "kernel" or "user"
  memory,            \* the packets in each block, as far as num_pkts says
  kernel_block_idx,  \* the block the kernel writes to
  fresh,             \* the kernel has not yet written to it
  current_block_idx, \* the block the thread waits for
  pc,                \* the thread: a step of Setup, "poll", "fill", "drain" or "idle"
  opened, mapped,    \* the socket is open, its ring is mapped
  held,              \* block_idx of the BlockGuard
  current_pkt_idx,   \* of the PacketIterator
  buf,               \* the locality buffer
  cursor,            \* references of Delivery(buf) already handed on
  taken              \* the packets handed to the flow channel and the engine

kernelVars == <<arrived, kernel_block_idx, fresh>>
socketVars == <<opened, mapped>>
threadVars == <<current_block_idx, pc, held, current_pkt_idx, buf, cursor, taken>>
vars == <<kernelVars, status, memory, socketVars, threadVars>>

Block == 0 .. Blocks - 1

\* The block after i.
NextBlockIdx(i) == (i + 1) % Blocks

\* The system calls of MmapCapture::new; "index" looks the interface up, if one is given.
Setup == <<"socket", "version", "ring", "map", "index", "bind", "poll">>
SettingUp == pc \in ToSet(Front(Setup))

\* Once the ring is set up and until the socket is closed the kernel writes to it.
RingThere == pc \notin {"socket", "version", "ring", "idle"}

\* The thread works on a block.
Busy == pc \in {"fill", "drain"}

At(ref) == memory[ref.block][ref.slot]
Refs(b) == ToSet(b.input)

----------------------------------------------------------------------------
Init ==
  /\ arrived = 0 /\ kernel_block_idx = 0 /\ fresh = TRUE
  /\ status = [i \in Block |-> "kernel"] /\ memory = [i \in Block |-> <<>>]
  /\ current_block_idx = 0 /\ pc = Setup[1] /\ held = NoBlock /\ current_pkt_idx = 0
  /\ opened = FALSE /\ mapped = FALSE /\ buf = NewBuffer /\ cursor = 0 /\ taken = <<>>

\* One call of MmapCapture::new succeeds.
SetUp ==
  /\ SettingUp
  /\ \E i \in DOMAIN Setup : pc = Setup[i] /\ pc' = Setup[i + 1]
  /\ opened' = (opened \/ pc = "socket") /\ mapped' = (mapped \/ pc = "map")
  /\ UNCHANGED <<kernelVars, status, memory, current_block_idx, held, current_pkt_idx, buf, cursor, taken>>

\* Variant: the error path of the lookup forgets munmap.
GiveUpMapped ==
  /\ SettingUp /\ pc' = "idle"
  /\ mapped' = (mapped /\ pc # "bind") /\ opened' = FALSE
  /\ UNCHANGED <<kernelVars, status, memory, current_block_idx, held, current_pkt_idx, buf, cursor, taken>>

\* One call fails: new undoes what came before, and the thread idles for good.
GiveUp ==
  /\ SettingUp /\ pc' = "idle"
  /\ mapped' = (mapped /\ pc \notin {"index", "bind"}) /\ opened' = FALSE
  /\ UNCHANGED <<kernelVars, status, memory, current_block_idx, held, current_pkt_idx, buf, cursor, taken>>

\* The kernel writes a packet to the block it fills, from its start if it is new to it.
Receive(port) ==
  /\ RingThere /\ arrived < MaxPackets /\ status[kernel_block_idx] = "kernel"
  /\ fresh \/ Len(memory[kernel_block_idx]) < BlockCap
  /\ arrived' = arrived + 1 /\ fresh' = FALSE
  /\ LET p == [id |-> arrived', port |-> port]
     IN  memory' = [memory EXCEPT ![kernel_block_idx] = IF fresh THEN <<p>> ELSE Append(@, p)]
  /\ UNCHANGED <<kernel_block_idx, status, socketVars, threadVars>>

\* The kernel retires a block that holds packets, when it is full or after 10 ms.
Retire ==
  /\ RingThere /\ ~ fresh
  /\ status' = [status EXCEPT ![kernel_block_idx] = "user"]
  /\ kernel_block_idx' = NextBlockIdx(kernel_block_idx) /\ fresh' = TRUE
  /\ UNCHANGED <<arrived, memory, socketVars, threadVars>>

\* Variant: the thread takes any block it finds retired.
NextBlockAny ==
  /\ pc = "poll" /\ held' \in {i \in Block : status[i] = "user"}
  /\ current_block_idx' = NextBlockIdx(held')
  /\ buf' = Clear(buf) /\ current_pkt_idx' = 0 /\ pc' = "fill"
  /\ UNCHANGED <<kernelVars, status, memory, socketVars, cursor, taken>>

\* next_block when it finds its block retired, before or after poll, and locality_buffer.clear.
\* When it does not, the thread starts over with nothing changed.
NextBlock ==
  /\ pc = "poll" /\ status[current_block_idx] = "user"
  /\ held' = current_block_idx /\ current_block_idx' = NextBlockIdx(current_block_idx)
  /\ buf' = Clear(buf) /\ current_pkt_idx' = 0 /\ pc' = "fill"
  /\ UNCHANGED <<kernelVars, status, memory, socketVars, cursor, taken>>

\* PacketIterator::next: the last packet of a block has no next offset, which ends the walk.
Advanced(i, num_pkts) == IF i + 1 < num_pkts THEN i + 1 ELSE num_pkts + 1

\* One turn of the loop over block_guard.packets(): the packet is parsed for its port_key.
\* What the buffer refuses is passed over.
Fill ==
  /\ pc = "fill" /\ current_pkt_idx < Len(memory[held])
  /\ current_pkt_idx' = Advanced(current_pkt_idx, Len(memory[held]))
  /\ LET slot == current_pkt_idx + 1
     IN  buf' = AddRef(buf, [block |-> held, slot |-> slot, port |-> memory[held][slot].port])
  /\ UNCHANGED <<kernelVars, status, memory, socketVars, current_block_idx, pc, held, cursor, taken>>

\* Variant: the guard is dropped before the references are used.
GroupAndRelease ==
  /\ pc = "fill" /\ current_pkt_idx >= Len(memory[held])
  /\ buf' = GroupPackets(buf) /\ cursor' = 0 /\ pc' = "drain"
  /\ status' = [status EXCEPT ![held] = "kernel"]
  /\ UNCHANGED <<kernelVars, memory, socketVars, current_block_idx, held, current_pkt_idx, taken>>

\* group_packets.
Group ==
  /\ pc = "fill" /\ current_pkt_idx >= Len(memory[held])
  /\ buf' = GroupPackets(buf) /\ cursor' = 0 /\ pc' = "drain"
  /\ UNCHANGED <<kernelVars, status, memory, socketVars, current_block_idx, held, current_pkt_idx, taken>>

\* One turn of the loop over the grouped references: the bytes behind the pointer go to the
\* flow channel and to the engine.
Drain ==
  /\ pc = "drain" /\ cursor < Len(Delivery(buf))
  /\ cursor' = cursor + 1
  /\ taken' = Append(taken, At(Delivery(buf)[cursor']))
  /\ UNCHANGED <<kernelVars, status, memory, socketVars, current_block_idx, pc, held, current_pkt_idx, buf>>

\* Variant: the thread's next block is given back in place of the one it held.
RecycleNext ==
  /\ pc = "drain" /\ cursor = Len(Delivery(buf))
  /\ status' = [status EXCEPT ![current_block_idx] = "kernel"] /\ held' = NoBlock /\ pc' = "poll"
  /\ UNCHANGED <<kernelVars, memory, socketVars, current_block_idx, current_pkt_idx, buf, cursor, taken>>

\* The BlockGuard is dropped: recycle_block.
Recycle ==
  /\ pc = "drain" /\ cursor = Len(Delivery(buf))
  /\ status' = [status EXCEPT ![held] = "kernel"] /\ held' = NoBlock /\ pc' = "poll"
  /\ UNCHANGED <<kernelVars, memory, socketVars, current_block_idx, current_pkt_idx, buf, cursor, taken>>

Thread == SetUp \/ GiveUp \/ NextBlock \/ Fill \/ Group \/ Drain \/ Recycle

Next == (\E port \in Ports : Receive(port)) \/ Retire \/ Thread

Spec == Init /\ [][Next]_vars

\* The thread loops for as long as the program runs; nothing stops its steps.
FairSpec == Spec /\ WF_vars(Thread)
----------------------------------------------------------------------------
(* Properties.                                                             *)

Packet == [id : 1 .. MaxPackets, port : Ports]
Ref == [block : Block, slot : 1 .. BlockCap, port : Ports]

\* Types of the state.
TypeOK ==
  /\ arrived \in 0 .. MaxPackets /\ kernel_block_idx \in Block /\ fresh \in BOOLEAN
  /\ status \in [Block -> {"kernel", "user"}]
  /\ DOMAIN memory = Block
  /\ \A i \in Block : memory[i] \in Seq(Packet) /\ Len(memory[i]) <= BlockCap
  /\ current_block_idx \in Block /\ pc \in ToSet(Setup) \cup {"fill", "drain", "idle"}
  /\ opened \in BOOLEAN /\ mapped \in BOOLEAN
  /\ held \in Block \cup {NoBlock} /\ current_pkt_idx \in 0 .. BlockCap + 1
  /\ buf.input \in Seq(Ref) /\ buf.active \in Seq(Ports)
  /\ \A i \in 0 .. MaxBatch - 1 : buf.sorted[i] \in Ref \cup {NoRef}
  /\ cursor \in 0 .. MaxBatch /\ taken \in Seq(Packet)

\* The blocks from the thread's next one up to the kernel's, around the ring.
Between(i) == (i - current_block_idx) % Blocks < (kernel_block_idx - current_block_idx) % Blocks

\* Kernel and thread stay in step without any shared index: the block the thread holds and
\* those it has still to visit are the ones with status user, or all are.
InStep ==
  /\ held # NoBlock <=> Busy
  /\ held # NoBlock => status[held] = "user" /\ NextBlockIdx(held) = current_block_idx
  /\ \A i \in Block \ {held} :
       status[i] = "user" <=> Between(i) \/ (kernel_block_idx = current_block_idx /\ status[kernel_block_idx] = "user")

\* No pointer in the buffer dangles: while the thread reads them, all references lead to
\* packets of the block it holds, with the port they were filed under.
RefsAlive ==
  Busy => mapped /\ \A ref \in Refs(buf) :
    ref.block = held /\ ref.slot \in 1 .. Len(memory[held]) /\ At(ref).port = ref.port

\* The counting sort, with its incremental clear and the leftovers of earlier batches in
\* sorted_refs, is a stable grouping: port by port, as active_buckets lists them, the
\* references of each in the order of arrival.
StableGrouping ==
  pc = "drain" =>
    Delivery(buf) = FlattenSeq([i \in 1 .. Len(buf.active) |-> OfPort(buf.input, buf.active[i])])

\* A block is given back only when its packets, as many as a batch holds, were handed on.
BlockFullyTaken ==
  [][held # NoBlock /\ held' = NoBlock =>
       \A i \in 1 .. Len(memory[held]) : i <= MaxBatch => memory[held][i] \in ToSet(taken)]_vars

\* Whichever call of the setup fails, nothing stays open or mapped: an idle thread holds no
\* memory that the kernel could still fill, and one that captures has both.
NothingLeaks ==
  /\ pc = "idle" => ~ opened /\ ~ mapped
  /\ pc = "poll" \/ Busy => opened /\ mapped

\* Every retired block gets back to the kernel, unless capturing has never begun.
RetiredBlocksReturn ==
  \A i \in Block : status[i] = "user" ~> status[i] = "kernel" \/ pc = "idle"

----------------------------------------------------------------------------
(* Refinement: the packets that are still to be handed on.                 *)

InBlock(i, from) == {memory[i][j] : j \in {k \in DOMAIN memory[i] : k > from}}

\* Of the held block, those not yet read and those in the buffer not yet handed on.
InHand ==
  IF pc = "fill" THEN InBlock(held, current_pkt_idx) \cup {At(r) : r \in Refs(buf)}
  ELSE {At(Delivery(buf)[i]) : i \in {k \in DOMAIN Delivery(buf) : k > cursor}}

\* With the socket the ring is gone.
waiting ==
  IF pc = "idle" THEN {} ELSE
  (UNION {InBlock(i, 0) : i \in {j \in Block \ {held} : status[j] = "user"}})
  \cup (IF fresh THEN {} ELSE InBlock(kernel_block_idx, 0))
  \cup (IF Busy THEN InHand ELSE {})

Abstract == INSTANCE PortFifo

\* Whatever the ring, the batches and the grouping do, packets with one port_key are handed
\* on in order and at most once.
ImplementsPortFifo == Abstract!Spec
=============================================================================
