--------------------------- MODULE LocalityBuffer ---------------------------
(***************************************************************************)
(* The locality buffer (src/src/locality.rs): operators on the record b    *)
(* that stands for its arrays.  A reference is [block, slot, port]: where  *)
(* a packet lies in the capture ring, and its port_key.  input stands for  *)
(* input_refs up to current_size and active for active_buckets up to       *)
(* active_count; sorted is the whole array, which clear leaves as it is.   *)
(***************************************************************************)
EXTENDS Integers, SequencesExt

CONSTANTS
  Ports,      \* the port keys
  NoRef,      \* an entry of the array never written
  MaxBatch,   \* MAX_BATCH_SIZE, 4096
  MaxBuckets  \* MAX_ACTIVE_BUCKETS, 4096

\* The counters of a batch are u16.
ASSUME BatchAssumption == /\ MaxBatch \in 1 .. 65535 /\ MaxBuckets \in Nat /\ MaxBatch <= MaxBuckets

NewBuffer == [input |-> <<>>, sorted |-> [i \in 0 .. MaxBatch - 1 |-> NoRef], active |-> <<>>,
              counts |-> [p \in Ports |-> 0], offsets |-> [p \in Ports |-> 0],
              start_offsets |-> [p \in Ports |-> 0]]

\* clear resets the counters of the active ports only.
Clear(b) ==
  LET cleared(f) == [p \in Ports |-> IF p \in ToSet(b.active) THEN 0 ELSE f[p]]
  IN  [b EXCEPT !.counts = cleared(@), !.offsets = cleared(@), !.start_offsets = cleared(@),
                !.active = <<>>, !.input = <<>>]

\* Variant: the buffer refuses one reference too early.
AddRefOneShort(b, ref) ==
  IF Len(b.input) >= MaxBatch - 1 THEN b
  ELSE [b EXCEPT !.input = Append(@, ref), !.counts[ref.port] = @ + 1,
                 !.active = IF b.counts[ref.port] = 0 THEN Append(@, ref.port) ELSE @]

\* Variant: the batch is built back to front.
AddRefInFront(b, ref) ==
  IF Len(b.input) >= MaxBatch THEN b
  ELSE [b EXCEPT !.input = <<ref>> \o @, !.counts[ref.port] = @ + 1,
                 !.active = IF b.counts[ref.port] = 0 THEN Append(@, ref.port) ELSE @]

\* add_packet; a full buffer refuses the reference.
AddRef(b, ref) ==
  IF Len(b.input) >= MaxBatch THEN b
  ELSE [b EXCEPT !.input = Append(@, ref),
                 !.active = IF b.counts[ref.port] = 0 /\ Len(@) < MaxBuckets
                            THEN Append(@, ref.port) ELSE @,
                 !.counts[ref.port] = @ + 1]

\* One active port in the first pass of the counting sort: it starts where the one before ends.
Offset(pass, p) ==
  [sum |-> pass.sum + pass.buf.counts[p],
   buf |-> [pass.buf EXCEPT !.offsets[p] = pass.sum, !.start_offsets[p] = pass.sum]]

WithOffsets(b) ==
  LET pass[i \in 0 .. Len(b.active)] ==
        IF i = 0 THEN [sum |-> 0, buf |-> b] ELSE Offset(pass[i - 1], b.active[i])
  IN  pass[Len(b.active)].buf

\* Variant: the offset is not advanced.
PlaceOver(b, ref) == [b EXCEPT !.sorted[b.offsets[ref.port]] = ref]

\* One reference of the second pass.
Place(b, ref) ==
  IF b.offsets[ref.port] < MaxBatch
  THEN [b EXCEPT !.sorted[b.offsets[ref.port]] = ref, !.offsets[ref.port] = @ + 1]
  ELSE b

GroupPackets(b) ==
  LET pass[i \in 0 .. Len(b.input)] ==
        IF i = 0 THEN WithOffsets(b) ELSE Place(pass[i - 1], b.input[i])
  IN  pass[Len(b.input)]

GetBucketSlice(b, port) ==
  LET start == b.start_offsets[port]
  IN  IF start + b.counts[port] <= Len(b.input)
      THEN [i \in 1 .. b.counts[port] |-> b.sorted[start + i - 1]]
      ELSE <<>>

\* The order in which the capture thread visits the grouped references.
Delivery(b) == FlattenSeq([i \in 1 .. Len(b.active) |-> GetBucketSlice(b, b.active[i])])

----------------------------------------------------------------------------
(* A reference for the sort, and the types.                                *)

\* The references of one port, in the order in which the batch was built.
OfPort(refs, port) ==
  LET picked[i \in 0 .. Len(refs)] ==
        IF i = 0 THEN <<>>
        ELSE IF refs[i].port = port THEN Append(picked[i - 1], refs[i]) ELSE picked[i - 1]
  IN  picked[Len(refs)]

\* Buffers of references in R.
BufferOf(R) ==
  [input : Seq(R), sorted : [0 .. MaxBatch - 1 -> R \cup {NoRef}], active : Seq(Ports),
   counts : [Ports -> Nat], offsets : [Ports -> Nat], start_offsets : [Ports -> Nat]]
=============================================================================
