------------------------- MODULE ParsePacket_proofs -------------------------
(***************************************************************************)
(* Proofs about the frame parser (ParsePacket), for frames of any length   *)
(* and content.  FrameInv says where each slice lies; it needs bytes to    *)
(* be bytes, since a length field is only as large as its bytes allow, and *)
(* of a DNS name that it does not end before it starts.  KeyInv follows    *)
(* what parse_packet knows of an IPv4 frame, layer by layer, in terms of   *)
(* the bytes that parse_flow_key reads.                                    *)
(***************************************************************************)
EXTENDS ParsePacket, TLAPS, FiniteSetTheorems, WellFoundedInduction

----------------------------------------------------------------------------
(* Bytes.                                                                  *)

Octet == 0 .. 255

\* A byte is a number below 256.
LEMMA OctetSmall == ASSUME NEW b \in Octet PROVE b \in Nat /\ b < 256
  BY DEF Octet

\* The frame is a finite slice of bytes.
DataInv == Size \in Nat /\ data \in [0 .. Size - 1 -> Octet]

\* Every slice that a parser function is given lies in the frame.
FrameInv ==
  /\ DataInv
  /\ off \in Nat /\ end \in Nat /\ mark \in Nat
  /\ layer = "link" => off = 0 /\ end = Size
  /\ SlicesInFrame

\* What is read within the slice is a byte of the frame.
LEMMA ByteInside ==
  ASSUME DataInv, end \in Nat, end <= Size, NEW i \in Nat, i < end
  PROVE  Byte(i) = data[i] /\ Byte(i) \in Octet
<1>1. i \in 0 .. end - 1 /\ i \in 0 .. Size - 1
  BY DEF DataInv
<1>2. Byte(i) = data[i]
  BY <1>1 DEF Byte
<1> QED
  BY <1>1, <1>2 DEF DataInv

\* Two bytes make a number, in either order.
LEMMA WordInside ==
  ASSUME DataInv, end \in Nat, end <= Size, NEW i \in Nat, i + 1 < end
  PROVE  U16(i) \in Nat /\ U16le(i) \in Nat
<1>1. i < end /\ i + 1 \in Nat
  OBVIOUS
<1>2. Byte(i) \in Nat
  BY <1>1, ByteInside, OctetSmall
<1>3. Byte(i + 1) \in Nat
  BY <1>1, ByteInside, OctetSmall
<1> HIDE DEF Byte
<1> QED
  BY <1>2, <1>3 DEF U16, U16le

\* The reading starts with a frame as it was captured.
LEMMA FrameInit == Init => FrameInv
<1> SUFFICES ASSUME Init PROVE FrameInv
  OBVIOUS
<1>1. PICK family \in InputFrames : \E f \in family : data = f.data
  BY DEF Init
<1>2. PICK f \in family : data = f.data
  BY <1>1
<1>3. IsFiniteSet(DOMAIN data) /\ data \in [0 .. Size - 1 -> Octet]
  BY <1>2, FramesAssumption DEF Size, Octet
<1>4. Size \in Nat
  BY <1>3, FS_CardinalityType DEF Size
<1> QED
  BY <1>3, <1>4 DEF Init, FrameInv, DataInv, SlicesInFrame

----------------------------------------------------------------------------
(* Ends of readings and handing over.                                      *)

\* The frame stays what it is.
LEMMA DataStays == ASSUME DataInv, UNCHANGED data PROVE DataInv'
  BY DEF DataInv, Size

\* Where the reading ends the last slice remains.
LEMMA Stopped == ASSUME FrameInv, UNCHANGED data, NEW p, Stop(p) PROVE FrameInv'
  BY DataStays DEF FrameInv, SlicesInFrame, Stop, Size

\* A malformed packet is one that is not read on.
LEMMA MalformedStopped == ASSUME FrameInv, UNCHANGED data, Malformed PROVE FrameInv'
  BY Stopped DEF Malformed

\* A slice that lies in the frame may be handed to any function that asks for no more.
LEMMA HandedOver ==
  ASSUME FrameInv, UNCHANGED data, NEW l, NEW o \in Nat, NEW e \in Nat, NEW n, NEW p, Go(l, o, e, n, p),
         o <= e, e <= Size,
         l \notin {"link", "options", "questions", "answers"}
  PROVE  FrameInv'
<1>1. DataInv' /\ Size' = Size
  BY DataStays DEF FrameInv, Size
<1>2. off' = o /\ end' = e /\ mark' = mark /\ layer' = l
  BY DEF Go
<1> QED
  BY <1>1, <1>2 DEF FrameInv, SlicesInFrame

\* The functions that ether types select.
LEMMA LayersOfTypes == \A t : Layer(t) \in {"ipv4", "ipv6", "arp", "eapol", "other"}
  BY DEF Layer

----------------------------------------------------------------------------
(* From the link layer to the transport.                                   *)

\* The place behind the VLAN tags of a frame of fourteen bytes or more.
LEMMA PayloadPlace ==
  ASSUME DataInv, end = Size, Size >= 14
  PROVE  PayloadOffset \in {14, 18, 22} /\ PayloadOffset <= Size
  BY DEF PayloadOffset, Untag, Tagged, DataInv

\* Ethernet hands on what is behind its header and tags.
LEMMA EthernetKeeps == ASSUME FrameInv, UNCHANGED data, Ethernet PROVE FrameInv'
<1>1. CASE Size < 14
  BY <1>1, MalformedStopped DEF Ethernet
<1>2. CASE ~ (Size < 14)
  <2> DEFINE o == PayloadOffset
             p == [pkt EXCEPT !.dst_mac = Mac(0), !.src_mac = Mac(6)]
  <2>1. end = Size /\ Size \in Nat
    BY DEF FrameInv, DataInv, Ethernet
  <2>2. o \in Nat
    BY <1>2, <2>1, PayloadPlace DEF FrameInv
  <2>3. CASE o < Size
    <3>1. Go(Layer(U16(o - 2)), o, Size, U16(o - 2), p)
      BY <1>2, <2>3 DEF Ethernet
    <3>2. Layer(U16(o - 2)) \notin {"link", "options", "questions", "answers"}
      BY LayersOfTypes
    <3> QED
      BY <2>1, <2>2, <2>3, <3>1, <3>2, HandedOver
  <2>4. CASE ~ (o < Size)
    BY <1>2, <2>4, Stopped DEF Ethernet
  <2> QED
    BY <2>3, <2>4
<1> QED
  BY <1>1, <1>2

\* The total length of an IPv4 header counts only as far as the slice goes.
LEMMA Ipv4Keeps == ASSUME FrameInv, UNCHANGED data, Ipv4 PROVE FrameInv'
<1> DEFINE n == end - off
           header_len == (Byte(off) % 16) * 4
           packet_len == Lesser(n, U16(off + 2))
           bad == n < 20 \/ Byte(off) \div 16 # 4 \/ header_len < 20 \/ header_len > n \/ packet_len < header_len
           p == [pkt EXCEPT !.network = "ipv4", !.src_ip = Address(off + 12), !.dst_ip = Address(off + 16)]
<1>1. CASE bad
  <2>1. Malformed
    BY <1>1 DEF Ipv4
  <2> QED
    BY <2>1, MalformedStopped
<1>2. CASE ~ bad
  <2>1. Go("transport", off + header_len, off + packet_len, Byte(off + 9), p)
    BY <1>2 DEF Ipv4
  <2>2. off \in Nat /\ end \in Nat /\ end <= Size /\ DataInv /\ Size \in Nat /\ n >= 20
    BY <1>2 DEF FrameInv, SlicesInFrame, DataInv
  <2>3. Byte(off) \in Octet
    BY <2>2, ByteInside
  <2>4. off + 2 \in Nat /\ off + 2 + 1 < end
    BY <2>2
  <2>5. U16(off + 2) \in Nat
    BY <2>2, <2>4, WordInside
  <2> HIDE DEF p
  <2>6. packet_len \in Nat /\ packet_len <= n /\ header_len \in Nat /\ header_len <= packet_len
    BY <1>2, <2>2, <2>3, <2>5, OctetSmall DEF Lesser
  <2> HIDE DEF header_len, packet_len
  <2>7. off + header_len \in Nat /\ off + packet_len \in Nat /\ off + header_len <= off + packet_len
        /\ off + packet_len <= Size
    BY <2>2, <2>6
  <2> QED
    BY <2>1, <2>7, HandedOver
<1> QED
  BY <1>1, <1>2

\* So does the payload length of an IPv6 header.
LEMMA Ipv6Keeps == ASSUME FrameInv, UNCHANGED data, Ipv6 PROVE FrameInv'
<1> DEFINE n == end - off
           length == Lesser(n, 40 + U16(off + 4))
           bad == n < 40 \/ Byte(off) \div 16 # 6
           p == [pkt EXCEPT !.network = "ipv6", !.src_ip = Slice(off + 8, 16), !.dst_ip = Slice(off + 24, 16)]
<1>1. CASE bad
  BY <1>1, MalformedStopped DEF Ipv6
<1>2. CASE ~ bad
  <2>1. Go("extension", off + 40, off + length, Byte(off + 6), p)
    BY <1>2 DEF Ipv6
  <2>2. off \in Nat /\ end \in Nat /\ end <= Size /\ DataInv /\ Size \in Nat /\ n >= 40
    BY <1>2 DEF FrameInv, SlicesInFrame, DataInv
  <2>3. off + 4 \in Nat /\ off + 4 + 1 < end
    BY <2>2
  <2>4. U16(off + 4) \in Nat
    BY <2>2, <2>3, WordInside
  <2> HIDE DEF p
  <2>5. length \in Nat /\ 40 <= length /\ length <= n
    BY <2>2, <2>4 DEF Lesser
  <2> HIDE DEF length
  <2>6. off + 40 \in Nat /\ off + length \in Nat /\ off + 40 <= off + length /\ off + length <= Size
    BY <2>2, <2>5
  <2> QED
    BY <2>1, <2>6, HandedOver
<1> QED
  BY <1>1, <1>2

\* An extension header is skipped only if the packet goes as far as it says.
LEMMA ExtensionKeeps == ASSUME FrameInv, UNCHANGED data, Extension PROVE FrameInv'
<1>1. off \in Nat /\ end \in Nat /\ off <= end /\ end <= Size /\ DataInv
  BY DEF FrameInv, SlicesInFrame
<1>2. CASE HasExtension
  <2> DEFINE o == off + (Byte(off + 1) + 1) * 8
  <2>1. Go("extension", o, end, Byte(off), pkt)
    BY <1>2 DEF Extension
  <2>2. off + 1 \in Nat /\ off + 1 < end /\ o <= end
    BY <1>1, <1>2 DEF HasExtension
  <2>3. Byte(off + 1) \in Octet
    BY <1>1, <2>2, ByteInside
  <2>4. o \in Nat
    BY <1>1, <2>3, OctetSmall
  <2> HIDE DEF o
  <2> QED
    BY <1>1, <2>1, <2>2, <2>4, HandedOver
<1>3. CASE ~ HasExtension
  BY <1>1, <1>3, HandedOver DEF Extension
<1> QED
  BY <1>2, <1>3

\* The options of a segment are within its header, and the header within the packet.
LEMMA TcpKeeps == ASSUME FrameInv, UNCHANGED data, Tcp PROVE FrameInv'
<1> DEFINE n == end - off
           data_offset == (Byte(off + 12) \div 16) * 4
           bad == n < 20 \/ data_offset < 20 \/ data_offset > n
<1>1. CASE bad
  BY <1>1, MalformedStopped DEF Tcp
<1>2. CASE ~ bad
  <2>1. layer' = "options" /\ off' = off + 20 /\ end' = off + data_offset /\ mark' = end
    BY <1>2 DEF Tcp
  <2>2. off \in Nat /\ end \in Nat /\ end <= Size /\ DataInv /\ Size \in Nat /\ n >= 20
    BY <1>2 DEF FrameInv, SlicesInFrame, DataInv
  <2>3. off + 12 \in Nat /\ off + 12 < end
    BY <2>2
  <2>4. Byte(off + 12) \in Octet
    BY <2>2, <2>3, ByteInside
  <2>5. data_offset \in Nat /\ 20 <= data_offset /\ data_offset <= n
    BY <1>2, <2>2, <2>4, OctetSmall
  <2>6. DataInv' /\ Size' = Size
    BY <2>2, DataStays DEF Size
  <2> HIDE DEF data_offset
  <2> QED
    BY <2>1, <2>2, <2>5, <2>6 DEF FrameInv, SlicesInFrame
<1> QED
  BY <1>1, <1>2

\* The length in a UDP header counts no further than the packet.
LEMMA UdpKeeps == ASSUME FrameInv, UNCHANGED data, Udp PROVE FrameInv'
<1> DEFINE n == end - off
           length == U16(off + 4)
           bad == n < 8 \/ length < 8 \/ length > n
           p == WithPorts("udp")
<1>1. CASE bad
  BY <1>1, MalformedStopped DEF Udp
<1>2. CASE ~ bad
  <2>1. Go("app", off + 8, off + length, 0, p)
    BY <1>2 DEF Udp
  <2>2. off \in Nat /\ end \in Nat /\ end <= Size /\ DataInv /\ Size \in Nat /\ n >= 8
    BY <1>2 DEF FrameInv, SlicesInFrame, DataInv
  <2>3. off + 4 \in Nat /\ off + 4 + 1 < end
    BY <2>2
  <2>4. length \in Nat
    BY <2>2, <2>3, WordInside
  <2>5. 8 <= length /\ length <= n
    BY <1>2, <2>2, <2>4
  <2> HIDE DEF length, p
  <2>6. off + 8 \in Nat /\ off + length \in Nat /\ off + 8 <= off + length /\ off + length <= Size
    BY <2>2, <2>4, <2>5
  <2> QED
    BY <2>1, <2>6, HandedOver
<1> QED
  BY <1>1, <1>2

\* Each function of the wired part preserves FrameInv.
LEMMA FrameStepKeeps == ASSUME FrameInv, UNCHANGED data, FrameStep PROVE FrameInv'
<1>1. CASE Undetected
  BY <1>1, MalformedStopped DEF Undetected
<1>2. CASE Arp
  <2>1. Malformed \/ \E p : Stop(p)
    BY <1>2, Zenon DEF Arp
  <2> QED
    BY <2>1, MalformedStopped, Stopped
<1>3. CASE OtherProtocol
  BY <1>3, Stopped DEF OtherProtocol
<1> QED
  BY <1>1, <1>2, <1>3, EthernetKeeps, Ipv4Keeps, Ipv6Keeps, ExtensionKeeps, TcpKeeps, UdpKeeps DEF FrameStep

----------------------------------------------------------------------------
(* DNS names.  The reading is a recursive function; each call is one turn  *)
(* nearer to MaxVisited, and so it is defined.                            *)

\* A non-empty set of naturals has a least element: the order of the naturals is well founded.
LEMMA LeastNat ==
  ASSUME NEW T \in SUBSET Nat, T # {}
  PROVE  \E x \in T : \A y \in T : x <= y
<1>1. PICK x \in T : \A y \in T : <<y, x>> \notin OpToRel(<, Nat)
  BY NatLessThanWellFounded, WFMin, Zenon
<1>2. ASSUME NEW y \in T PROVE x <= y
  <2>1. <<y, x>> \in Nat \X Nat /\ <<y, x>> \notin OpToRel(<, Nat)
    BY <1>1
  <2>2. ~ (<<y, x>>[1] < <<y, x>>[2])
    BY <2>1 DEF OpToRel
  <2> QED
    BY <2>2
<1> QED
  BY <1>2

\* Induction over the naturals, with the set of those for which a claim holds in place of the claim.
LEMMA Induction ==
  ASSUME NEW S, 0 \in S, \A n \in Nat : n \in S => n + 1 \in S
  PROVE  \A n \in Nat : n \in S
<1> SUFFICES ASSUME Nat \ S # {} PROVE FALSE
  OBVIOUS
<1>1. PICK x \in Nat \ S : \A y \in Nat \ S : x <= y
  BY LeastNat
<1>2. x - 1 \in Nat /\ x - 1 \in S
  BY <1>1
<1> QED
  BY <1>1, <1>2

\* Reading within the message.
MessageInv == DataInv /\ end \in Nat /\ mark \in Nat /\ end <= Size

\* The last reading depends on no other.
LEMMA LastTurn ==
  ASSUME NEW f, NEW g, NEW r \in Reading, r.visited >= MaxVisited
  PROVE  NameFrom(f, r) = NameFrom(g, r)
  BY DEF NameFrom

\* Where the reading goes on: behind a label, or at the place a pointer leads back to.
LEMMA NextReadings ==
  ASSUME MessageInv, NEW r \in Reading, r.offset < end - mark
  PROVE  LET o == r.offset
             at(i) == Byte(mark + i)
             EndAt(i) == EndOffset(r.jumped, r.end_offset, i)
         IN  /\ at(o) \in Nat
             /\ o + 1 + at(o) \in Nat /\ EndAt(o + 1 + at(o)) \in Nat
             /\ [offset |-> o + 1 + at(o), jumped |-> r.jumped, end_offset |-> EndAt(o + 1 + at(o)),
                 visited |-> r.visited + 1] \in Reading
             /\ at(o) >= \hC0 /\ o + 2 <= end - mark =>
                  /\ (at(o) - \hC0) * 256 + at(o + 1) \in Nat
                  /\ [offset |-> (at(o) - \hC0) * 256 + at(o + 1), jumped |-> TRUE,
                      end_offset |-> EndAt(o + 2), visited |-> r.visited + 1] \in Reading
<1> DEFINE o == r.offset
<1>1. o \in Nat /\ r.jumped \in BOOLEAN /\ r.end_offset \in Nat /\ r.visited \in Nat
  BY DEF Reading
<1>2. mark + o \in Nat /\ mark + o < end
  BY <1>1 DEF MessageInv
<1>3. Byte(mark + o) \in Nat
  BY <1>2, ByteInside, OctetSmall DEF MessageInv
<1>4. \A i \in Nat : EndOffset(r.jumped, r.end_offset, i) \in Nat
  BY <1>1 DEF EndOffset
<1>5. r.visited + 1 \in Nat /\ o + 2 \in Nat
  BY <1>1
<1> DEFINE b == Byte(mark + o)
           behind == o + 1 + b
<1>6. behind \in Nat
  BY <1>1, <1>3
<1>7. [offset |-> behind, jumped |-> r.jumped, end_offset |-> EndOffset(r.jumped, r.end_offset, behind),
       visited |-> r.visited + 1] \in Reading
  <2> HIDE DEF behind, o
  <2> QED
    BY <1>1, <1>4, <1>5, <1>6 DEF Reading
<1>8. ASSUME b >= \hC0, o + 2 <= end - mark
      PROVE  /\ (b - \hC0) * 256 + Byte(mark + (o + 1)) \in Nat
             /\ [offset |-> (b - \hC0) * 256 + Byte(mark + (o + 1)), jumped |-> TRUE,
                 end_offset |-> EndOffset(r.jumped, r.end_offset, o + 2), visited |-> r.visited + 1] \in Reading
  <2>1. mark + (o + 1) \in Nat /\ mark + (o + 1) < end
    BY <1>1, <1>8 DEF MessageInv
  <2>2. Byte(mark + (o + 1)) \in Nat
    BY <2>1, ByteInside, OctetSmall DEF MessageInv
  <2> DEFINE c == Byte(mark + (o + 1))
             ptr == (b - \hC0) * 256 + c
  <2> HIDE DEF b, c
  <2>3. ptr \in Nat
    BY <1>3, <1>8, <2>2 DEF b, c
  <2> HIDE DEF ptr, o
  <2>4. [offset |-> ptr, jumped |-> TRUE, end_offset |-> EndOffset(r.jumped, r.end_offset, o + 2),
         visited |-> r.visited + 1] \in Reading
    BY <1>4, <1>5, <2>3 DEF Reading
  <2> QED
    BY <2>3, <2>4 DEF ptr, c
<1> QED
  BY <1>3, <1>4, <1>6, <1>7, <1>8

\* A reading depends only on those that are one turn further on.
LEMMA TurnsAgree ==
  ASSUME MessageInv, NEW f, NEW g, NEW r \in Reading,
         \A q \in Reading : q.visited = r.visited + 1 => f[q] = g[q]
  PROVE  NameFrom(f, r) = NameFrom(g, r)
<1>1. CASE r.offset >= end - mark
  BY <1>1 DEF NameFrom
<1>2. CASE r.offset < end - mark
  <2> DEFINE o == r.offset
             behind == o + 1 + Byte(mark + o)
             q1 == [offset |-> behind, jumped |-> r.jumped,
                    end_offset |-> EndOffset(r.jumped, r.end_offset, behind), visited |-> r.visited + 1]
             ptr == (Byte(mark + o) - \hC0) * 256 + Byte(mark + (o + 1))
             q2 == [offset |-> ptr, jumped |-> TRUE,
                    end_offset |-> EndOffset(r.jumped, r.end_offset, o + 2), visited |-> r.visited + 1]
  <2>1. q1 \in Reading /\ q1.visited = r.visited + 1
    BY <1>2, NextReadings
  <2>2. f[q1] = g[q1]
    BY <2>1
  <2>3. ASSUME Byte(mark + o) >= \hC0, ~ (o + 2 > end - mark) PROVE f[q2] = g[q2]
    <3>1. o \in Nat /\ end - mark \in Int
      BY DEF Reading, MessageInv
    <3>2. o + 2 <= end - mark
      BY <2>3, <3>1
    <3>3. q2 \in Reading /\ q2.visited = r.visited + 1
      BY <1>2, <2>3, <3>2, NextReadings
    <3> QED
      BY <3>3
  <2> QED
    BY <2>2, <2>3, Zenon DEF NameFrom
<1>3. r.offset \in Nat /\ end - mark \in Int
  BY DEF Reading, MessageInv
<1> QED
  BY <1>1, <1>2, <1>3

\* Some function reads every name that has at most n turns to go.
Reads(f, n) == \A r \in Reading : r.visited + n >= MaxVisited => f[r] = NameFrom(f, r)

\* One turn more can be read.
LEMMA OneMoreTurn == ASSUME MessageInv, NEW n \in Nat, NEW f, Reads(f, n) PROVE \E g : Reads(g, n + 1)
<1> DEFINE g == [r \in Reading |-> IF r.visited + n >= MaxVisited THEN f[r] ELSE NameFrom(f, r)]
<1>1. ASSUME NEW r \in Reading, r.visited + (n + 1) >= MaxVisited PROVE g[r] = NameFrom(g, r)
  <2>1. r.visited \in Nat
    BY DEF Reading
  <2>2. g[r] = NameFrom(f, r)
    BY DEF Reads
  <2>3. ASSUME NEW q \in Reading, q.visited = r.visited + 1 PROVE f[q] = g[q]
    <3>1. q.visited + n >= MaxVisited
      BY <1>1, <2>1, <2>3, VisitedAssumption
    <3> QED
      BY <3>1
  <2> HIDE DEF g
  <2> QED
    BY <2>2, <2>3, TurnsAgree
<1> QED
  BY <1>1 DEF Reads

\* The recursive function is defined: a name is read as its first turn and what follows.
LEMMA NamesAreRead == ASSUME MessageInv PROVE ReadName = [r \in Reading |-> NameFrom(ReadName, r)]
<1> DEFINE Possible == {n \in Nat : \E f : Reads(f, n)}
<1>1. 0 \in Possible
  <2> DEFINE f == [r \in Reading |-> NameFrom(<<>>, r)]
  <2>1. ASSUME NEW r \in Reading, r.visited + 0 >= MaxVisited PROVE f[r] = NameFrom(f, r)
    <3>1. r.visited >= MaxVisited
      BY <2>1, VisitedAssumption DEF Reading
    <3>2. f[r] = NameFrom(<<>>, r)
      OBVIOUS
    <3> HIDE DEF f
    <3> QED
      BY <3>1, <3>2, LastTurn
  <2>2. Reads(f, 0)
    BY <2>1 DEF Reads
  <2> QED
    BY <2>2
<1>2. \A n \in Nat : n \in Possible => n + 1 \in Possible
  BY OneMoreTurn
<1>3. MaxVisited \in Possible
  <2> HIDE DEF Possible
  <2> QED
    BY <1>1, <1>2, Induction, VisitedAssumption
<1>4. PICK f : Reads(f, MaxVisited)
  BY <1>3
<1> DEFINE g == [r \in Reading |-> f[r]]
<1>5. ASSUME NEW r \in Reading PROVE g[r] = NameFrom(g, r)
  <2>1. r.visited + MaxVisited >= MaxVisited
    BY VisitedAssumption DEF Reading
  <2>2. g[r] = NameFrom(f, r)
    BY <1>4, <2>1 DEF Reads
  <2>3. \A q \in Reading : f[q] = g[q]
    OBVIOUS
  <2> HIDE DEF g
  <2> QED
    BY <2>2, <2>3, TurnsAgree
<1>6. g = [r \in Reading |-> NameFrom(g, r)]
  <2>1. [r \in Reading |-> g[r]] = [r \in Reading |-> NameFrom(g, r)]
    BY <1>5, Zenon
  <2> QED
    BY <2>1
<1> HIDE DEF g
<1> QED
  BY <1>6, Zenon DEF ReadName

\* What is read of a name is a record of its labels and of a place that is not before e.
EndsFrom(e, name) == \A m \in name : \E l : \E e2 \in Nat : m = [labels |-> l, end_offset |-> e2] /\ e <= e2

\* The end of the name is never behind the place where reading stands, unless a pointer was followed.
Forwards(r) == r.jumped \/ r.end_offset <= r.offset

\* Reading on, a name ends no earlier.
LEMMA TurnEnds ==
  ASSUME MessageInv, NEW f, NEW r \in Reading, Forwards(r),
         \A q \in Reading : q.visited = r.visited + 1 /\ Forwards(q) => EndsFrom(q.end_offset, f[q])
  PROVE  EndsFrom(r.end_offset, NameFrom(f, r))
<1> DEFINE o == r.offset
           EndAt(i) == EndOffset(r.jumped, r.end_offset, i)
           behind == o + 1 + Byte(mark + o)
           q1 == [offset |-> behind, jumped |-> r.jumped, end_offset |-> EndAt(behind), visited |-> r.visited + 1]
           ptr == (Byte(mark + o) - \hC0) * 256 + Byte(mark + (o + 1))
           q2 == [offset |-> ptr, jumped |-> TRUE, end_offset |-> EndAt(o + 2), visited |-> r.visited + 1]
           ended(e) == {[labels |-> <<>>, end_offset |-> e]}
<1>1. o \in Nat /\ r.jumped \in BOOLEAN /\ r.end_offset \in Nat /\ r.visited \in Nat /\ end - mark \in Int
  BY DEF Reading, MessageInv
<1>2. ASSUME NEW i \in Nat, o <= i
      PROVE  EndAt(i) \in Nat /\ r.end_offset <= EndAt(i) /\ (r.jumped \/ EndAt(i) = i)
  BY <1>1, <1>2 DEF EndOffset, Forwards
<1>3. ASSUME NEW e \in Nat, r.end_offset <= e PROVE EndsFrom(r.end_offset, ended(e))
  BY <1>3 DEF EndsFrom
<1>4. EndsFrom(r.end_offset, None)
  BY DEF EndsFrom, None
<1>5. CASE o >= end - mark \/ r.visited >= MaxVisited
  <2>1. NameFrom(f, r) = ended(r.end_offset)
    BY <1>5 DEF NameFrom, Some
  <2> QED
    BY <1>1, <1>3, <2>1
<1>6. CASE ~ (o >= end - mark \/ r.visited >= MaxVisited)
  <2>1. o < end - mark
    BY <1>1, <1>6
  <2>2. CASE Byte(mark + o) = 0
    <3>1. NameFrom(f, r) = ended(EndAt(o + 1))
      BY <1>6, <2>2 DEF NameFrom, Some
    <3>2. o + 1 \in Nat /\ o <= o + 1
      BY <1>1
    <3>3. EndAt(o + 1) \in Nat /\ r.end_offset <= EndAt(o + 1)
      BY <1>2, <3>2
    <3> HIDE DEF ended, EndAt
    <3> QED
      BY <1>3, <3>1, <3>3
  <2>3. CASE Byte(mark + o) # 0 /\ Byte(mark + o) >= \hC0
    <3>1. CASE o + 2 > end - mark \/ ptr >= o
      BY <1>4, <1>6, <2>3, <3>1 DEF NameFrom
    <3>2. CASE ~ (o + 2 > end - mark \/ ptr >= o)
      <4>1. NameFrom(f, r) = f[q2]
        BY <1>6, <2>3, <3>2 DEF NameFrom
      <4>2. o + 2 <= end - mark /\ o + 2 \in Nat /\ o <= o + 2
        BY <1>1, <3>2
      <4>3. q2 \in Reading
        BY <2>1, <2>3, <4>2, NextReadings
      <4>4. q2.visited = r.visited + 1 /\ Forwards(q2) /\ q2.end_offset = EndAt(o + 2)
        BY DEF Forwards
      <4>5. EndsFrom(EndAt(o + 2), f[q2])
        <5> HIDE DEF q2, EndAt
        <5> QED
          BY <4>3, <4>4
      <4>6. EndAt(o + 2) \in Nat /\ r.end_offset <= EndAt(o + 2)
        BY <1>2, <4>2
      <4> HIDE DEF EndAt, q2
      <4> QED
        BY <1>1, <4>1, <4>5, <4>6 DEF EndsFrom
    <3> QED
      BY <3>1, <3>2
  <2>4. CASE Byte(mark + o) # 0 /\ ~ (Byte(mark + o) >= \hC0)
    <3>1. CASE behind > end - mark
      BY <1>4, <1>6, <2>4, <3>1 DEF NameFrom
    <3>2. CASE ~ (behind > end - mark)
      <4>1. NameFrom(f, r) =
              {[n EXCEPT !.labels = <<Slice(mark + o + 1, Byte(mark + o))>> \o @] : n \in f[q1]}
        BY <1>6, <2>4, <3>2 DEF NameFrom
      <4>2. q1 \in Reading /\ behind \in Nat /\ Byte(mark + o) \in Nat
        BY <2>1, NextReadings
      <4>3. o <= behind
        BY <1>1, <4>2
      <4>4. EndAt(behind) \in Nat /\ r.end_offset <= EndAt(behind) /\ (r.jumped \/ EndAt(behind) = behind)
        BY <1>2, <4>2, <4>3
      <4>5. q1.visited = r.visited + 1 /\ Forwards(q1) /\ q1.end_offset = EndAt(behind)
        <5> HIDE DEF behind, EndAt
        <5> QED
          BY <4>2, <4>4 DEF Forwards
      <4>6. EndsFrom(EndAt(behind), f[q1])
        <5> HIDE DEF q1, EndAt, behind
        <5> QED
          BY <4>2, <4>5
      <4> DEFINE label == <<Slice(mark + o + 1, Byte(mark + o))>>
      <4>7. ASSUME NEW n \in f[q1]
            PROVE  \E l : \E e2 \in Nat : [n EXCEPT !.labels = label \o @] = [labels |-> l, end_offset |-> e2]
                                          /\ r.end_offset <= e2
        <5>1. PICK l : \E e2 \in Nat : n = [labels |-> l, end_offset |-> e2] /\ EndAt(behind) <= e2
          BY <4>6 DEF EndsFrom
        <5>a. PICK e2 \in Nat : n = [labels |-> l, end_offset |-> e2] /\ EndAt(behind) <= e2
          BY <5>1
        <5> HIDE DEF label, q1, EndAt, behind
        <5>2. [n EXCEPT !.labels = label \o @] = [labels |-> label \o l, end_offset |-> e2]
          BY <5>a
        <5>3. r.end_offset <= e2
          BY <1>1, <4>4, <5>a
        <5> QED
          BY <5>2, <5>3
      <4> HIDE DEF q1
      <4>8. ASSUME NEW m \in NameFrom(f, r)
            PROVE  \E l : \E e2 \in Nat : m = [labels |-> l, end_offset |-> e2] /\ r.end_offset <= e2
        <5>1. PICK n \in f[q1] : m = [n EXCEPT !.labels = label \o @]
          BY <4>1
        <5> HIDE DEF label
        <5> QED
          BY <4>7, <5>1
      <4> QED
        BY <4>8 DEF EndsFrom
    <3> QED
      BY <3>1, <3>2
  <2> QED
    BY <2>2, <2>3, <2>4
<1> QED
  BY <1>5, <1>6

\* A name does not end before it starts, however its pointers lead.
LEMMA NamesEnd == ASSUME MessageInv, NEW start \in Nat PROVE EndsFrom(start, ParseDnsName(start))
<1> DEFINE Ending == {n \in Nat : \A r \in Reading : r.visited + n >= MaxVisited /\ Forwards(r)
                                    => EndsFrom(r.end_offset, ReadName[r])}
<1>1. \A r \in Reading : ReadName[r] = NameFrom(ReadName, r)
  BY NamesAreRead
<1>2. 0 \in Ending
  <2>1. ASSUME NEW r \in Reading, r.visited + 0 >= MaxVisited PROVE EndsFrom(r.end_offset, ReadName[r])
    <3>1. r.visited >= MaxVisited /\ r.end_offset \in Nat
      BY <2>1, VisitedAssumption DEF Reading
    <3>2. ReadName[r] = {[labels |-> <<>>, end_offset |-> r.end_offset]}
      BY <1>1, <3>1 DEF NameFrom, Some
    <3> QED
      BY <3>1, <3>2 DEF EndsFrom
  <2> QED
    BY <2>1
<1>3. ASSUME NEW n \in Nat, n \in Ending PROVE n + 1 \in Ending
  <2>1. ASSUME NEW r \in Reading, r.visited + (n + 1) >= MaxVisited, Forwards(r)
        PROVE  EndsFrom(r.end_offset, ReadName[r])
    <3>1. ASSUME NEW q \in Reading, q.visited = r.visited + 1, Forwards(q)
          PROVE  EndsFrom(q.end_offset, ReadName[q])
      <4>1. q.visited + n >= MaxVisited
        BY <2>1, <3>1, VisitedAssumption DEF Reading
      <4> QED
        BY <1>3, <3>1, <4>1
    <3>2. EndsFrom(r.end_offset, NameFrom(ReadName, r))
      BY <2>1, <3>1, TurnEnds
    <3> QED
      BY <1>1, <3>2
  <2> QED
    BY <2>1
<1>4. MaxVisited \in Ending
  <2> HIDE DEF Ending
  <2> QED
    BY <1>2, <1>3, Induction, VisitedAssumption
<1> DEFINE r == [offset |-> start, jumped |-> FALSE, end_offset |-> start, visited |-> 0]
<1>5. r \in Reading /\ Forwards(r) /\ r.visited + MaxVisited >= MaxVisited /\ r.end_offset = start
  BY VisitedAssumption DEF Reading, Forwards
<1>6. EndsFrom(start, ReadName[r])
  <2> HIDE DEF r
  <2> QED
    BY <1>4, <1>5
<1> QED
  BY <1>6 DEF ParseDnsName

\* A name that is sound is followed by the bytes that were asked for.
LEMMA NamesLeadOn ==
  ASSUME MessageInv, off \in Nat, mark <= off, NEW bytes \in Nat, NEW n \in NameAt(bytes)
  PROVE  Behind(n) \in Nat /\ off <= Behind(n) /\ Behind(n) + bytes <= end
<1>1. off - mark \in Nat
  BY DEF MessageInv
<1>2. n \in ParseDnsName(off - mark) /\ mark + n.end_offset + bytes <= end
  BY DEF NameAt
<1>3. EndsFrom(off - mark, ParseDnsName(off - mark))
  BY <1>1, NamesEnd
<1>4. n.end_offset \in Nat /\ off - mark <= n.end_offset
  BY <1>2, <1>3 DEF EndsFrom
<1> QED
  BY <1>2, <1>4 DEF Behind, MessageInv

----------------------------------------------------------------------------
(* Wireless frames and applications.                                       *)

\* The frame and the slice at hand, for the steps that follow.
LEMMA SliceTypes ==
  ASSUME FrameInv
  PROVE  /\ off \in Nat /\ end \in Nat /\ mark \in Nat /\ Size \in Nat
         /\ off <= end /\ end <= Size /\ DataInv /\ MessageInv
  BY DEF FrameInv, SlicesInFrame, DataInv, MessageInv

\* What follows the radiotap header starts within the frame.
LEMMA RadiotapKeeps == ASSUME FrameInv, UNCHANGED data, Radiotap PROVE FrameInv'
<1> DEFINE info == RadiotapInfo
           p == [pkt EXCEPT
                   !.signal_dbm = IF 5 \in DOMAIN info THEN Some(Signed(info[5][0])) ELSE None,
                   !.channel = IF 3 \in DOMAIN info THEN Some(info[3][0] + 256 * info[3][1]) ELSE None]
<1>1. CASE ~ HasRadiotap
  BY <1>1, MalformedStopped DEF Radiotap
<1>2. CASE HasRadiotap
  <2>1. IF HeaderLen < Size THEN Go("802.11", HeaderLen, Size, 0, p) ELSE Stop([p EXCEPT !.malformed = TRUE])
    BY <1>2, Zenon DEF Radiotap
  <2>2. HeaderLen \in 8 .. Size
    BY <1>2 DEF HasRadiotap
  <2> HIDE DEF p
  <2>3. HeaderLen \in Nat /\ HeaderLen <= Size /\ Size \in Nat
    BY <2>2, SliceTypes
  <2>4. CASE HeaderLen < Size
    BY <2>1, <2>3, <2>4, HandedOver
  <2>5. CASE ~ (HeaderLen < Size)
    BY <2>1, <2>5, Stopped
  <2> QED
    BY <2>4, <2>5
<1> QED
  BY <1>1, <1>2

\* LLC payload starts within the data frame.
LEMMA WifiDataKeeps == ASSUME FrameInv, UNCHANGED data, WifiData PROVE FrameInv'
<1> DEFINE o == off + DataHeader
           snap == ~ Protected /\ end - o >= 8 /\ Byte(o) = \hAA /\ Byte(o + 1) = \hAA
<1>1. DataHeader \in Nat
  BY DEF DataHeader, BaseEnd
<1>2. CASE snap
  <2>1. Go(Layer(U16(o + 6)), o + 8, end, U16(o + 6), Dot11)
    BY <1>2 DEF WifiData
  <2>2. Layer(U16(o + 6)) \notin {"link", "options", "questions", "answers"}
    BY LayersOfTypes
  <2>3. o + 8 \in Nat /\ o + 8 <= end
    BY <1>1, <1>2, SliceTypes
  <2> HIDE DEF o
  <2> QED
    BY <2>1, <2>2, <2>3, SliceTypes, HandedOver
<1>3. CASE ~ snap
  BY <1>3, Stopped DEF WifiData
<1> QED
  BY <1>2, <1>3

\* The elements of a management frame start within it.
LEMMA WifiMgmtKeeps == ASSUME FrameInv, UNCHANGED data, WifiMgmt PROVE FrameInv'
<1> DEFINE p == [Dot11 EXCEPT !.wifi_mgmt = Some(Mgmt)]
<1>1. CASE Subtype \in DOMAIN TagOffset /\ Length - 24 >= TagOffset[Subtype]
  <2>1. Go("elements", off + 24 + TagOffset[Subtype], end, Subtype, p)
    BY <1>1 DEF WifiMgmt
  <2>2. TagOffset[Subtype] \in Nat
    BY <1>1 DEF TagOffset
  <2>3. off + 24 + TagOffset[Subtype] \in Nat /\ off + 24 + TagOffset[Subtype] <= end
    BY <1>1, <2>2, SliceTypes DEF Length
  <2> HIDE DEF p
  <2> QED
    BY <2>1, <2>3, SliceTypes, HandedOver
<1>2. CASE ~ (Subtype \in DOMAIN TagOffset /\ Length - 24 >= TagOffset[Subtype])
  BY <1>2, Stopped DEF WifiMgmt
<1> QED
  BY <1>1, <1>2

\* An element is stepped over only if it is all there.
LEMMA ElementKeeps == ASSUME FrameInv, UNCHANGED data, Element PROVE FrameInv'
<1> DEFINE p == [pkt EXCEPT !.wifi_mgmt = {Stored(m) : m \in @}]
<1>1. CASE off + 2 <= end /\ off + 2 + IeLen <= end
  <2>1. Go("elements", off + 2 + IeLen, end, next, p)
    BY <1>1 DEF Element
  <2>2. off + 1 \in Nat /\ off + 1 < end
    BY <1>1, SliceTypes
  <2>3. IeLen \in Nat
    BY <2>2, SliceTypes, ByteInside, OctetSmall DEF IeLen
  <2>4. off + 2 + IeLen \in Nat
    BY <2>3, SliceTypes
  <2> HIDE DEF p
  <2> QED
    BY <1>1, <2>1, <2>4, SliceTypes, HandedOver
<1>2. CASE ~ (off + 2 <= end /\ off + 2 + IeLen <= end)
  BY <1>2, Stopped DEF Element
<1> QED
  BY <1>1, <1>2

\* Each function of the wireless part preserves FrameInv.
LEMMA WirelessStepKeeps == ASSUME FrameInv, UNCHANGED data, WirelessStep PROVE FrameInv'
<1>1. CASE Wifi
  BY <1>1, SliceTypes, HandedOver, 0 \in Nat DEF Wifi
<1>2. CASE Short80211
  BY <1>2, MalformedStopped DEF Short80211
<1>3. CASE WifiControl
  BY <1>3, Stopped DEF WifiControl
<1>4. CASE Eapol
  <2>1. Malformed \/ \E p : Stop(p)
    BY <1>4, Zenon DEF Eapol
  <2> QED
    BY <2>1, MalformedStopped, Stopped
<1> QED
  BY <1>1, <1>2, <1>3, <1>4, RadiotapKeeps, WifiDataKeeps, WifiMgmtKeeps, ElementKeeps DEF WirelessStep

\* TCP options are read on to the end of the header, where the payload starts.
LEMMA TcpOptionKeeps == ASSUME FrameInv, UNCHANGED data, TcpOption PROVE FrameInv'
<1>1. layer = "options" /\ end <= mark /\ mark <= Size
  BY DEF TcpOption, FrameInv, SlicesInFrame
<1>2. ASSUME NEW p, OptionsDone(p) PROVE FrameInv'
  BY <1>1, <1>2, SliceTypes, HandedOver DEF OptionsDone
<1>3. ASSUME NEW o \in Nat, NEW p, o <= end, Go("options", o, end, 0, p) PROVE FrameInv'
  <2>1. DataInv' /\ Size' = Size
    BY SliceTypes, DataStays DEF Size
  <2> QED
    BY <1>1, <1>3, <2>1, SliceTypes DEF FrameInv, SlicesInFrame, Go
<1>4. CASE Remaining = 0 \/ Kind = 0
  BY <1>2, <1>4 DEF TcpOption
<1>5. CASE Remaining # 0 /\ Kind = 1
  <2>1. Go("options", off + 1, end, 0, pkt)
    BY <1>5 DEF TcpOption
  <2>2. off + 1 \in Nat /\ off + 1 <= end
    BY <1>5, SliceTypes DEF Remaining
  <2> QED
    BY <1>3, <2>1, <2>2
<1>6. CASE Remaining # 0 /\ Kind \notin {0, 1}
  <2> DEFINE p == [pkt EXCEPT !.options = {Set(o) : o \in @}]
  <2>1. CASE Remaining >= 2 /\ OptionLen \in 2 .. Remaining
    <3>1. Go("options", off + OptionLen, end, 0, p)
      BY <1>6, <2>1 DEF TcpOption
    <3>2. off + OptionLen \in Nat /\ off + OptionLen <= end
      BY <2>1, SliceTypes DEF Remaining
    <3> HIDE DEF p
    <3> QED
      BY <1>3, <3>1, <3>2
  <2>2. CASE ~ (Remaining >= 2 /\ OptionLen \in 2 .. Remaining)
    <3>1. OptionsDone(p)
      BY <1>6, <2>2 DEF TcpOption
    <3> QED
      BY <1>2, <3>1
  <2> QED
    BY <2>1, <2>2
<1> QED
  BY <1>4, <1>5, <1>6

\* A message of twelve bytes or more starts with the questions.
LEMMA DnsKeeps == ASSUME FrameInv, UNCHANGED data, Dns PROVE FrameInv'
<1>1. CASE Remaining < 12
  BY <1>1, Stopped DEF Dns
<1>2. CASE ~ (Remaining < 12)
  <2>1. layer' = "questions" /\ off' = off + 12 /\ mark' = off /\ end' = end
    BY <1>2 DEF Dns
  <2>2. off + 12 \in Nat /\ off + 12 <= end
    BY <1>2, SliceTypes DEF Remaining
  <2>3. DataInv' /\ Size' = Size
    BY SliceTypes, DataStays DEF Size
  <2> QED
    BY <2>1, <2>2, <2>3, SliceTypes DEF FrameInv, SlicesInFrame
<1> QED
  BY <1>1, <1>2

\* The next question or answer starts within the message, not before this one.
LEMMA NextInMessage ==
  ASSUME FrameInv, UNCHANGED data, mark + 12 <= off,
         NEW l \in {"questions", "answers"}, NEW o \in Nat, off <= o, o <= end, NEW n, NEW p, Go(l, o, end, n, p)
  PROVE  FrameInv'
<1>1. DataInv' /\ Size' = Size
  BY SliceTypes, DataStays DEF Size
<1>2. layer' = l /\ off' = o /\ end' = end /\ mark' = mark
  BY DEF Go
<1>3. mark + 12 <= o
  BY SliceTypes
<1> QED
  BY <1>1, <1>2, <1>3, SliceTypes DEF FrameInv, SlicesInFrame

\* A question is skipped only if its name and its four bytes are there.
LEMMA QuestionKeeps == ASSUME FrameInv, UNCHANGED data, Question PROVE FrameInv'
<1>1. mark + 12 <= off
  BY DEF Question, FrameInv, SlicesInFrame
<1>2. CASE next = 0 \/ NameAt(4) = None
  <2>1. Go("answers", off, end, AnswerCount, pkt)
    BY <1>2 DEF Question, QuestionsDone
  <2> QED
    BY <1>1, <2>1, SliceTypes, NextInMessage
<1>3. CASE ~ (next = 0 \/ NameAt(4) = None)
  <2>1. PICK n \in NameAt(4) : \E p : Go("questions", Behind(n) + 4, end, next - 1, p)
    BY <1>3, Zenon DEF Question
  <2>2. PICK p : Go("questions", Behind(n) + 4, end, next - 1, p)
    BY <2>1
  <2>3. mark <= off
    BY <1>1, SliceTypes
  <2>4. Behind(n) \in Nat /\ off <= Behind(n) /\ Behind(n) + 4 <= end
    BY <2>3, SliceTypes, NamesLeadOn, 4 \in Nat
  <2>5. Behind(n) + 4 \in Nat /\ off <= Behind(n) + 4
    BY <2>4, SliceTypes
  <2> QED
    BY <1>1, <2>2, <2>4, <2>5, NextInMessage
<1> QED
  BY <1>2, <1>3

\* An answer is skipped only if its data is there as well.
LEMMA AnswerKeeps == ASSUME FrameInv, UNCHANGED data, Answer PROVE FrameInv'
<1>1. mark + 12 <= off
  BY DEF Answer, FrameInv, SlicesInFrame
<1>2. CASE next = 0 \/ NameAt(10) = None
  BY <1>2, Stopped DEF Answer
<1>3. CASE ~ (next = 0 \/ NameAt(10) = None)
  <2> DEFINE rdata(n) == Behind(n) + 10
             rdlen(n) == U16(Behind(n) + 8)
  <2>1. PICK n \in NameAt(10) :
          IF rdata(n) + rdlen(n) > end THEN Stop(pkt)
          ELSE \E p : Go("answers", rdata(n) + rdlen(n), end, next - 1, p)
    BY <1>3, Zenon DEF Answer
  <2>2. CASE rdata(n) + rdlen(n) > end
    BY <2>1, <2>2, Stopped
  <2>3. CASE ~ (rdata(n) + rdlen(n) > end)
    <3>1. PICK p : Go("answers", rdata(n) + rdlen(n), end, next - 1, p)
      BY <2>1, <2>3
    <3>2. mark <= off
      BY <1>1, SliceTypes
    <3>3. Behind(n) \in Nat /\ off <= Behind(n) /\ Behind(n) + 10 <= end
      BY <3>2, SliceTypes, NamesLeadOn, 10 \in Nat
    <3>4. Behind(n) + 8 \in Nat /\ Behind(n) + 8 + 1 < end
      BY <3>3, SliceTypes
    <3>5. rdlen(n) \in Nat
      BY <3>4, SliceTypes, WordInside
    <3> HIDE DEF rdlen
    <3>6. rdata(n) + rdlen(n) \in Nat /\ off <= rdata(n) + rdlen(n) /\ rdata(n) + rdlen(n) <= end
      BY <2>3, <3>3, <3>5, SliceTypes
    <3> HIDE DEF rdata
    <3> QED
      BY <1>1, <3>1, <3>6, NextInMessage
  <2> QED
    BY <2>2, <2>3
<1> QED
  BY <1>2, <1>3

\* The options of a DHCP message start within it.
LEMMA DhcpKeeps == ASSUME FrameInv, UNCHANGED data, Dhcp PROVE FrameInv'
<1> DEFINE bad == Remaining < 240 \/ \E k \in 1 .. 4 : Byte(off + 235 + k) # Magic[k]
<1>1. CASE bad
  BY <1>1, Stopped, Zenon DEF Dhcp
<1>2. CASE ~ bad
  <2>1. \E p : Go("dhcp", off + 240, end, 0, p)
    BY <1>2, Zenon DEF Dhcp
  <2>2. off + 240 \in Nat /\ off + 240 <= end
    BY <1>2, SliceTypes DEF Remaining
  <2> QED
    BY <2>1, <2>2, SliceTypes, HandedOver
<1> QED
  BY <1>1, <1>2

\* A DHCP option is stepped over only if it is all there.
LEMMA DhcpOptionKeeps == ASSUME FrameInv, UNCHANGED data, DhcpOption PROVE FrameInv'
<1> DEFINE last == Remaining = 0 \/ Kind = 255
           p == [pkt EXCEPT !.app = {WithOption(d) : d \in @}]
<1>1. CASE last
  BY <1>1, Stopped DEF DhcpOption
<1>2. CASE ~ last /\ Kind = 0
  <2>1. Go("dhcp", off + 1, end, 0, pkt)
    BY <1>2 DEF DhcpOption
  <2>2. off + 1 \in Nat /\ off + 1 <= end
    BY <1>2, SliceTypes DEF Remaining
  <2> QED
    BY <2>1, <2>2, SliceTypes, HandedOver
<1>3. CASE ~ last /\ Kind # 0 /\ (Remaining < 2 \/ Remaining < 2 + OptionLen)
  BY <1>3, Stopped DEF DhcpOption
<1>4. CASE ~ last /\ Kind # 0 /\ ~ (Remaining < 2 \/ Remaining < 2 + OptionLen)
  <2>1. Go("dhcp", off + 2 + OptionLen, end, 0, p)
    BY <1>4 DEF DhcpOption
  <2>2. off + 1 \in Nat /\ off + 1 < end
    BY <1>4, SliceTypes DEF Remaining
  <2>3. OptionLen \in Nat
    BY <2>2, SliceTypes, ByteInside, OctetSmall DEF OptionLen
  <2>4. off + 2 + OptionLen \in Nat /\ off + 2 + OptionLen <= end
    BY <1>4, <2>3, SliceTypes DEF Remaining
  <2> HIDE DEF p
  <2> QED
    BY <2>1, <2>4, SliceTypes, HandedOver
<1> QED
  BY <1>1, <1>2, <1>3, <1>4

\* Each function of the application part preserves FrameInv.
LEMMA ApplicationStepKeeps == ASSUME FrameInv, UNCHANGED data, ApplicationStep PROVE FrameInv'
<1>1. CASE Icmp
  <2>1. Malformed \/ \E p : Stop(p)
    BY <1>1, Zenon DEF Icmp
  <2> QED
    BY <2>1, MalformedStopped, Stopped
<1>2. CASE OtherApplication
  BY <1>2, Stopped DEF OtherApplication
<1> QED
  BY <1>1, <1>2, TcpOptionKeeps, DnsKeeps, QuestionKeeps, AnswerKeeps, DhcpKeeps, DhcpOptionKeeps
     DEF ApplicationStep

\* Every step preserves FrameInv.
LEMMA FrameInductive == FrameInv /\ [Next]_vars => FrameInv'
<1> SUFFICES ASSUME FrameInv, [Next]_vars PROVE FrameInv'
  OBVIOUS
<1>1. CASE Next
  BY <1>1, FrameStepKeeps, WirelessStepKeeps, ApplicationStepKeeps DEF Next, ParseStep
<1>2. CASE UNCHANGED vars
  BY <1>2 DEF vars, slice, FrameInv, DataInv, SlicesInFrame, Size
<1> QED
  BY <1>1, <1>2

\* Whatever a frame of any length contains, every slice that one parser function of parser.rs hands
\* to the next lies within it, and so the functions cannot be made to panic by their arguments.
THEOREM SlicesStayInFrame == Spec => []SlicesInFrame
<1>1. FrameInv => SlicesInFrame
  BY DEF FrameInv
<1> QED
  BY <1>1, FrameInit, FrameInductive, PTL DEF Spec

----------------------------------------------------------------------------
(* The flow of a packet.                                                   *)

KeyFields == {"network", "transport", "src_ip", "src_port", "dst_ip", "dst_port"}

\* The bytes of the IPv4 header that decide where the ports are, as parse_packet found them.
HeaderRead ==
  LET header_len == (data[14] % 16) * 4
  IN  /\ Size - 14 >= 20 /\ data[14] \div 16 = 4 /\ header_len >= 20 /\ Size - 14 >= header_len
      /\ off = 14 + header_len /\ next = data[23]
      /\ pkt.src_ip = [k \in 0 .. 3 |-> data[26 + k]] /\ pkt.dst_ip = [k \in 0 .. 3 |-> data[30 + k]]

HeaderLayers == {"link", "ipv4", "transport"}
PayloadLayers == {"options", "app", "questions", "answers", "dhcp", "done"}

\* What parse_packet knows of an IPv4 frame, layer by layer, and what parse_flow_key makes of it.
KeyInv ==
  /\ KeyFields \subseteq DOMAIN pkt
  /\ Ipv4InEthernet =>
       /\ layer \in HeaderLayers \cup PayloadLayers
       /\ layer \in HeaderLayers => pkt.transport = "none"
       /\ layer = "ipv4" => off = 14 /\ end = Size
       /\ layer = "transport" => HeaderRead
       /\ layer \in PayloadLayers /\ pkt.network = "ipv4" /\ HasPorts => ParseFlowKey = PacketKey

\* What depends on the frame alone.
LEMMA FrameFixed ==
  ASSUME UNCHANGED <<data, link>>
  PROVE  Ipv4InEthernet' = Ipv4InEthernet /\ ParseFlowKey' = ParseFlowKey
<1>1. data' = data /\ link' = link
  OBVIOUS
<1>2. Size' = Size
  BY <1>1 DEF Size
<1>3. LinkType' = LinkType
  BY <1>1, <1>2 DEF LinkType
<1>4. Ipv4InEthernet' = Ipv4InEthernet
  BY <1>1, <1>2, <1>3 DEF Ipv4InEthernet
<1>5. IpOffset' = IpOffset
  BY <1>1, <1>2 DEF IpOffset
<1>6. ParseFlowKey' = ParseFlowKey
  BY <1>1, <1>2, <1>5 DEF ParseFlowKey, NoFlow
<1> QED
  BY <1>4, <1>6

\* The fields of the flow are what they were.
SameKey(p) == KeyFields \subseteq DOMAIN p /\ \A f \in KeyFields : p[f] = pkt[f]

\* The ports once read, no later layer changes the flow; and a reading that ends before has none.
LEMMA KeyCarried ==
  ASSUME KeyInv, UNCHANGED <<data, link>>, SameKey(pkt'), layer' \in PayloadLayers,
         layer \in PayloadLayers \/ layer' = "done"
  PROVE  KeyInv'
<1>1. Ipv4InEthernet' = Ipv4InEthernet /\ ParseFlowKey' = ParseFlowKey
  BY FrameFixed
<1>2. KeyFields \subseteq DOMAIN pkt'
  BY DEF SameKey
<1>3. /\ pkt'.network = pkt.network /\ pkt'.transport = pkt.transport
      /\ pkt'.src_ip = pkt.src_ip /\ pkt'.src_port = pkt.src_port
      /\ pkt'.dst_ip = pkt.dst_ip /\ pkt'.dst_port = pkt.dst_port
  BY DEF SameKey, KeyFields
<1>4. PacketKey' = PacketKey /\ HasPorts' = HasPorts
  BY <1>3 DEF PacketKey, HasPorts
<1>5. layer' \notin HeaderLayers
  BY DEF PayloadLayers, HeaderLayers
<1>6. ASSUME Ipv4InEthernet, pkt.network = "ipv4", HasPorts PROVE ParseFlowKey = PacketKey
  BY <1>6 DEF KeyInv, HasPorts
<1>7. layer' # "ipv4" /\ layer' # "transport"
  BY <1>5 DEF HeaderLayers
<1> QED
  BY <1>1, <1>2, <1>3, <1>4, <1>5, <1>6, <1>7 DEF KeyInv

\* Other frames have no flow to follow here.
LEMMA OtherFrames ==
  ASSUME KeyInv, UNCHANGED <<data, link>>, ~ Ipv4InEthernet, DOMAIN pkt' = DOMAIN pkt
  PROVE  KeyInv'
  BY FrameFixed DEF KeyInv

\* A malformed packet keeps the flow it has.
LEMMA MalformedCarried == ASSUME KeyInv, UNCHANGED <<data, link>>, Malformed PROVE KeyInv'
<1>1. SameKey([pkt EXCEPT !.malformed = TRUE])
  BY DEF KeyInv, SameKey, KeyFields
<1> QED
  BY <1>1, KeyCarried DEF Malformed, Stop, PayloadLayers

\* So does a packet that is read no further.
LEMMA StopCarried ==
  ASSUME KeyInv, UNCHANGED <<data, link>>, NEW p, Stop(p), SameKey(p)
  PROVE  KeyInv'
  BY KeyCarried DEF Stop, PayloadLayers

\* And one that is read on in its payload.
LEMMA GoCarried ==
  ASSUME KeyInv, UNCHANGED <<data, link>>, layer \in PayloadLayers,
         NEW l \in PayloadLayers, NEW o, NEW e, NEW n, NEW p, Go(l, o, e, n, p), SameKey(p)
  PROVE  KeyInv'
  BY KeyCarried DEF Go

\* The packet as it is keeps its flow.
LEMMA SameKeyOfItself == ASSUME KeyInv PROVE SameKey(pkt)
  BY DEF KeyInv, SameKey

\* At the start nothing is known of the packet.
LEMMA KeyInit == Init => KeyInv
<1> SUFFICES ASSUME Init PROVE KeyInv
  OBVIOUS
<1>1. layer = "link" /\ pkt = EmptyPacket
  BY DEF Init
<1>2. KeyFields \subseteq DOMAIN pkt /\ pkt.transport = "none"
  BY <1>1 DEF EmptyPacket, KeyFields
<1> QED
  BY <1>1, <1>2 DEF KeyInv, HeaderLayers, PayloadLayers

\* The ether type as parse_packet reads it.
LEMMA EtherType ==
  ASSUME FrameInv, layer = "link", Ipv4InEthernet
  PROVE  U16(12) = IPv4Type /\ PayloadOffset = 14
<1>1. end = Size /\ Size \in Nat /\ Size >= 14 /\ DataInv /\ end \in Nat /\ end <= Size
  BY DEF FrameInv, DataInv, Ipv4InEthernet
<1>2. Byte(12) = data[12] /\ Byte(13) = data[13]
  BY <1>1, ByteInside
<1>3. U16(12) = IPv4Type
  BY <1>2 DEF U16, Ipv4InEthernet
<1>4. U16(14 - 2) = 2048
  BY <1>3 DEF IPv4Type
<1>5. Untag(14, {\h88A8, \h9100}) = 14 /\ Untag(14, {\h8100}) = 14
  BY <1>4 DEF Untag, Tagged
<1> QED
  BY <1>3, <1>5 DEF PayloadOffset

\* An untagged IPv4 frame goes to parse_ipv4, from the fifteenth byte on.
LEMMA EthernetKeyed == ASSUME FrameInv, KeyInv, UNCHANGED <<data, link>>, Ethernet PROVE KeyInv'
<1> DEFINE o == PayloadOffset
           p == [pkt EXCEPT !.dst_mac = Mac(0), !.src_mac = Mac(6)]
<1>1. SameKey(p)
  BY DEF KeyInv, SameKey, KeyFields
<1>2. CASE Size < 14
  BY <1>2, MalformedCarried DEF Ethernet
<1>3. CASE ~ (Size < 14) /\ o < Size
  <2>1. Go(Layer(U16(o - 2)), o, Size, U16(o - 2), p)
    BY <1>3 DEF Ethernet
  <2>2. pkt' = p /\ layer' = Layer(U16(o - 2)) /\ off' = o /\ end' = Size
    BY <2>1 DEF Go
  <2>3. CASE Ipv4InEthernet
    <3>1. o = 14 /\ U16(12) = IPv4Type
      BY <2>3, EtherType DEF Ethernet
    <3>2. layer' = "ipv4"
      <4>1. o - 2 = 12
        BY <3>1
      <4>2. Layer(IPv4Type) = "ipv4"
        BY DEF Layer, IPv4Type, IPv6Type, ArpType, EapolType
      <4> HIDE DEF o
      <4> QED
        BY <2>2, <3>1, <4>1, <4>2
    <3>3. pkt.transport = "none"
      BY <2>3 DEF KeyInv, Ethernet, HeaderLayers
    <3>4. pkt'.transport = "none" /\ KeyFields \subseteq DOMAIN pkt'
      BY <1>1, <2>2, <3>3 DEF SameKey, KeyFields
    <3>5. Size' = Size
      BY DEF Size
    <3> HIDE DEF o, p
    <3> QED
      BY <2>2, <3>1, <3>2, <3>4, <3>5 DEF KeyInv, HeaderLayers, PayloadLayers
  <2>4. CASE ~ Ipv4InEthernet
    <3>1. DOMAIN pkt' = DOMAIN pkt
      BY <2>2
    <3> QED
      BY <2>4, <3>1, OtherFrames
  <2> QED
    BY <2>3, <2>4
<1>4. CASE ~ (Size < 14) /\ ~ (o < Size)
  <2>1. Stop([p EXCEPT !.malformed = TRUE])
    BY <1>4 DEF Ethernet
  <2>2. SameKey([p EXCEPT !.malformed = TRUE])
    BY DEF KeyInv, SameKey, KeyFields
  <2> QED
    BY <2>1, <2>2, StopCarried
<1> QED
  BY <1>2, <1>3, <1>4

\* Four bytes of the slice are four bytes of the frame.
LEMMA AddressInside ==
  ASSUME DataInv, end \in Nat, end <= Size, NEW i \in Nat, i + 4 <= end
  PROVE  Address(i) = [k \in 0 .. 3 |-> data[i + k]]
<1>1. ASSUME NEW k \in 0 .. 3 PROVE Byte(i + k) = data[i + k]
  <2>1. i + k \in Nat /\ i + k < end
    OBVIOUS
  <2> QED
    BY <2>1, ByteInside
<1>2. Address(i) = [k \in 0 .. 3 |-> Byte(i + k)]
  BY DEF Address, Slice
<1> QED
  BY <1>1, <1>2

\* parse_ipv4 finds what parse_flow_key will look for: the length of the header, the protocol and
\* the addresses.
LEMMA Ipv4Keyed == ASSUME FrameInv, KeyInv, UNCHANGED <<data, link>>, Ipv4 PROVE KeyInv'
<1> DEFINE n == end - off
           header_len == (Byte(off) % 16) * 4
           packet_len == Lesser(n, U16(off + 2))
           bad == n < 20 \/ Byte(off) \div 16 # 4 \/ header_len < 20 \/ header_len > n \/ packet_len < header_len
           p == [pkt EXCEPT !.network = "ipv4", !.src_ip = Address(off + 12), !.dst_ip = Address(off + 16)]
<1>1. CASE bad
  <2>1. Malformed
    BY <1>1 DEF Ipv4
  <2> QED
    BY <2>1, MalformedCarried
<1>2. CASE ~ bad
  <2>1. Go("transport", off + header_len, off + packet_len, Byte(off + 9), p)
    BY <1>2 DEF Ipv4
  <2>2. /\ layer' = "transport" /\ off' = off + header_len /\ next' = Byte(off + 9) /\ pkt' = p
    BY <2>1 DEF Go
  <2>3. DOMAIN pkt' = DOMAIN pkt
    BY <2>2
  <2>4. CASE Ipv4InEthernet
    <3>1. layer = "ipv4" /\ off = 14 /\ end = Size /\ pkt.transport = "none" /\ KeyFields \subseteq DOMAIN pkt
      BY <2>4 DEF KeyInv, Ipv4, HeaderLayers
    <3>2. Size \in Nat /\ Size - 14 >= 20 /\ DataInv /\ end \in Nat /\ end <= Size
      BY <1>2, <3>1, SliceTypes
    <3>3. Byte(14) = data[14] /\ Byte(23) = data[23]
      BY <3>2, <3>1, ByteInside
    <3>4. Address(26) = [k \in 0 .. 3 |-> data[26 + k]] /\ Address(30) = [k \in 0 .. 3 |-> data[30 + k]]
      BY <3>2, <3>1, AddressInside
    <3>5. off + 9 = 23 /\ off + 12 = 26 /\ off + 16 = 30
      BY <3>1
    <3>6. pkt'.src_ip = Address(26) /\ pkt'.dst_ip = Address(30) /\ pkt'.transport = "none"
      <4>1. p.src_ip = Address(off + 12) /\ p.dst_ip = Address(off + 16) /\ p.transport = pkt.transport
        BY <3>1 DEF KeyFields
      <4> HIDE DEF p
      <4> QED
        BY <2>2, <3>1, <3>5, <4>1
    <3>7. Size' = Size /\ data' = data
      BY DEF Size
    <3>8. HeaderRead'
      <4>1. header_len = (data[14] % 16) * 4 /\ header_len \in Nat
        BY <3>1, <3>2, <3>3, ByteInside, OctetSmall
      <4>2. data[14] \div 16 = 4 /\ header_len >= 20 /\ Size - 14 >= header_len
        <5>1. data[14] \div 16 = 4
          BY <1>2, <3>1, <3>3
        <5> HIDE DEF header_len
        <5> QED
          BY <1>2, <3>1, <3>2, <4>1, <5>1
      <4>3. off' = 14 + (data[14] % 16) * 4 /\ next' = data[23]
        BY <2>2, <3>1, <3>3, <3>5
      <4>4. /\ pkt'.src_ip = [k \in 0 .. 3 |-> data[26 + k]]
            /\ pkt'.dst_ip = [k \in 0 .. 3 |-> data[30 + k]]
        BY <3>4, <3>6
      <4> QED
        BY <3>2, <3>7, <4>1, <4>2, <4>3, <4>4 DEF HeaderRead
    <3> QED
      BY <2>2, <2>3, <3>1, <3>6, <3>8 DEF KeyInv, HeaderLayers, PayloadLayers
  <2>5. CASE ~ Ipv4InEthernet
    BY <2>3, <2>5, OtherFrames
  <2> QED
    BY <2>4, <2>5
<1> QED
  BY <1>1, <1>2

\* parse_flow_key takes addresses, protocol and ports from where parse_packet found them.
LEMMA FlowOfHeader ==
  ASSUME DataInv, Ipv4InEthernet, HeaderRead, next \in {6, 17}, Size - off >= 4
  PROVE  ParseFlowKey = [key |-> TRUE, src_ip |-> pkt.src_ip, src_port |-> data[off] * 256 + data[off + 1],
                         dst_ip |-> pkt.dst_ip, dst_port |-> data[off + 2] * 256 + data[off + 2 + 1]]
<1>1. data[12] = 8 /\ data[13] = 0 /\ Size >= 14
  <2>1. Size \in Nat /\ Size >= 14 /\ data[12] * 256 + data[13] = 2048
    BY DEF DataInv, Ipv4InEthernet, IPv4Type
  <2>2. 12 \in 0 .. Size - 1 /\ 13 \in 0 .. Size - 1
    BY <2>1
  <2>3. data[12] \in Octet /\ data[13] \in Octet
    BY <2>2 DEF DataInv
  <2>4. data[12] \in Nat /\ data[12] < 256 /\ data[13] \in Nat /\ data[13] < 256
    BY <2>3, OctetSmall
  <2> QED
    BY <2>1, <2>4
<1>2. IpOffset = 14
  BY <1>1 DEF IpOffset
<1> DEFINE header_len == (data[14] % 16) * 4
<1>3. /\ Size - 14 >= 20 /\ data[14] \div 16 = 4 /\ header_len >= 20 /\ Size - 14 >= header_len
      /\ off = 14 + header_len /\ next = data[23]
      /\ pkt.src_ip = [k \in 0 .. 3 |-> data[26 + k]] /\ pkt.dst_ip = [k \in 0 .. 3 |-> data[30 + k]]
  BY DEF HeaderRead
<1>4. 14 + 9 = 23 /\ 14 + 12 = 26 /\ 14 + 16 = 30
  OBVIOUS
<1> QED
  BY <1>2, <1>3, <1>4 DEF ParseFlowKey

\* The ports of a transport header are those of the flow.
LEMMA PortsKeyed ==
  ASSUME FrameInv, KeyInv, UNCHANGED <<data, link>>, layer = "transport", next \in {6, 17}, end - off >= 4,
         NEW transport \in {"tcp", "udp"}, NEW p, pkt' = p, DOMAIN p = DOMAIN pkt,
         \A f \in KeyFields : p[f] = WithPorts(transport)[f], layer' \in PayloadLayers
  PROVE  KeyInv'
<1>1. CASE Ipv4InEthernet
  <2>1. HeaderRead /\ DataInv /\ off \in Nat /\ end \in Nat /\ end <= Size /\ Size \in Nat
    BY <1>1, SliceTypes DEF KeyInv
  <2>2. Size - off >= 4
    BY <2>1
  <2>3. ParseFlowKey = [key |-> TRUE, src_ip |-> pkt.src_ip, src_port |-> data[off] * 256 + data[off + 1],
                        dst_ip |-> pkt.dst_ip, dst_port |-> data[off + 2] * 256 + data[off + 2 + 1]]
    BY <1>1, <2>1, <2>2, FlowOfHeader
  <2>4. U16(off) = data[off] * 256 + data[off + 1] /\ U16(off + 2) = data[off + 2] * 256 + data[off + 2 + 1]
    <3>1. /\ off < end /\ off + 1 < end /\ off + 2 < end /\ off + 2 + 1 < end
          /\ off + 1 \in Nat /\ off + 2 \in Nat /\ off + 2 + 1 \in Nat
      BY <2>1
    <3>2. /\ Byte(off) = data[off] /\ Byte(off + 1) = data[off + 1]
          /\ Byte(off + 2) = data[off + 2] /\ Byte(off + 2 + 1) = data[off + 2 + 1]
      BY <2>1, <3>1, ByteInside
    <3> QED
      BY <3>2 DEF U16
  <2>5. /\ pkt'.src_ip = pkt.src_ip /\ pkt'.dst_ip = pkt.dst_ip
        /\ pkt'.src_port = U16(off) /\ pkt'.dst_port = U16(off + 2)
    BY DEF KeyInv, KeyFields, WithPorts
  <2>6. PacketKey' = ParseFlowKey
    BY <2>3, <2>4, <2>5 DEF PacketKey
  <2>7. ParseFlowKey' = ParseFlowKey
    BY FrameFixed
  <2>8. KeyFields \subseteq DOMAIN pkt'
    BY DEF KeyInv
  <2>9. layer' \notin HeaderLayers /\ layer' # "ipv4" /\ layer' # "transport"
    BY DEF PayloadLayers, HeaderLayers
  <2> QED
    BY <2>6, <2>7, <2>8, <2>9 DEF KeyInv
<1>2. CASE ~ Ipv4InEthernet
  BY <1>2, OtherFrames
<1> QED
  BY <1>1, <1>2

\* parse_tcp reads the ports first.
LEMMA TcpKeyed == ASSUME FrameInv, KeyInv, UNCHANGED <<data, link>>, Tcp PROVE KeyInv'
<1> DEFINE n == end - off
           data_offset == (Byte(off + 12) \div 16) * 4
           bad == n < 20 \/ data_offset < 20 \/ data_offset > n
           p == [WithPorts("tcp") EXCEPT !.flags = (Byte(off + 12) % 2) * 256 + Byte(off + 13),
                                         !.options = Some(NoOptions)]
<1>1. CASE bad
  BY <1>1, MalformedCarried DEF Tcp
<1>2. CASE ~ bad
  <2>1. layer' = "options" /\ pkt' = p /\ layer = "transport" /\ next = 6
    BY <1>2 DEF Tcp
  <2>2. end - off >= 4
    BY <1>2, SliceTypes
  <2>3. DOMAIN p = DOMAIN pkt /\ \A f \in KeyFields : p[f] = WithPorts("tcp")[f]
    BY DEF KeyInv, KeyFields, WithPorts
  <2> HIDE DEF p
  <2> QED
    BY <2>1, <2>2, <2>3, PortsKeyed DEF PayloadLayers
<1> QED
  BY <1>1, <1>2

\* A datagram has its ports where a segment has them.
LEMMA UdpKeyed == ASSUME FrameInv, KeyInv, UNCHANGED <<data, link>>, Udp PROVE KeyInv'
<1> DEFINE bad == end - off < 8 \/ U16(off + 4) < 8 \/ U16(off + 4) > end - off
           p == WithPorts("udp")
<1>1. CASE bad
  BY <1>1, MalformedCarried DEF Udp
<1>2. CASE ~ bad
  <2>1. layer' = "app" /\ pkt' = p /\ layer = "transport" /\ next = 17
    BY <1>2 DEF Udp, Go
  <2>2. end - off >= 4
    BY <1>2, SliceTypes
  <2>3. DOMAIN p = DOMAIN pkt
    BY DEF WithPorts
  <2>4. \A f \in KeyFields : p[f] = WithPorts("udp")[f]
    OBVIOUS
  <2> HIDE DEF p
  <2> QED
    BY <2>1, <2>2, <2>3, <2>4, PortsKeyed DEF PayloadLayers
<1> QED
  BY <1>1, <1>2

\* Layers that an untagged IPv4 frame never reaches.
LEMMA OtherLayers ==
  ASSUME KeyInv, layer \notin HeaderLayers \cup PayloadLayers \/ (layer = "link" /\ LinkType # "ethernet")
  PROVE  ~ Ipv4InEthernet
  BY DEF KeyInv, Ipv4InEthernet

\* Each function of the wired part preserves KeyInv.
LEMMA FrameStepKeyed == ASSUME FrameInv, KeyInv, UNCHANGED <<data, link>>, FrameStep PROVE KeyInv'
<1>1. CASE Undetected
  BY <1>1, MalformedCarried DEF Undetected
<1>2. CASE Ipv6
  <2>1. layer = "ipv6" /\ ~ Ipv4InEthernet
    BY <1>2, OtherLayers DEF Ipv6, HeaderLayers, PayloadLayers
  <2>2. DOMAIN pkt' = DOMAIN pkt
    BY <1>2 DEF Ipv6, Malformed, Stop, Go
  <2> QED
    BY <2>1, <2>2, OtherFrames
<1>3. CASE Extension
  <2>1. layer = "extension" /\ ~ Ipv4InEthernet
    BY <1>3, OtherLayers DEF Extension, HeaderLayers, PayloadLayers
  <2>2. DOMAIN pkt' = DOMAIN pkt
    BY <1>3 DEF Extension, Go
  <2> QED
    BY <2>1, <2>2, OtherFrames
<1>4. CASE Arp
  <2>1. layer = "arp" /\ ~ Ipv4InEthernet
    BY <1>4, OtherLayers DEF Arp, HeaderLayers, PayloadLayers
  <2>2. DOMAIN pkt' = DOMAIN pkt
    BY <1>4 DEF Arp, Malformed, Stop
  <2> QED
    BY <2>1, <2>2, OtherFrames
<1>5. CASE OtherProtocol
  BY <1>5, StopCarried, SameKeyOfItself DEF OtherProtocol
<1> QED
  BY <1>1, <1>2, <1>3, <1>4, <1>5, EthernetKeyed, Ipv4Keyed, TcpKeyed, UdpKeyed DEF FrameStep

\* What an 802.11 frame adds to the packet.
LEMMA Dot11Fields == DOMAIN Dot11 = DOMAIN pkt
<1>1. DOMAIN Addressed = DOMAIN pkt
  BY DEF Addressed
<1> QED
  BY <1>1 DEF Dot11

\* No function of the wireless part reads an untagged IPv4 frame of an Ethernet interface.
LEMMA WirelessStepKeyed == ASSUME KeyInv, UNCHANGED <<data, link>>, WirelessStep PROVE KeyInv'
<1>1. layer \in {"802.11", "elements", "eapol"} \/ (layer = "link" /\ LinkType # "ethernet")
  BY DEF WirelessStep, Radiotap, Wifi, Short80211, WifiData, WifiControl, WifiMgmt, Element, Eapol
<1>2. ~ Ipv4InEthernet
  BY <1>1, OtherLayers DEF HeaderLayers, PayloadLayers
<1>3. DOMAIN pkt' = DOMAIN pkt
  <2>1. CASE Radiotap
    <3> DEFINE info == RadiotapInfo
               p == [pkt EXCEPT
                       !.signal_dbm = IF 5 \in DOMAIN info THEN Some(Signed(info[5][0])) ELSE None,
                       !.channel = IF 3 \in DOMAIN info THEN Some(info[3][0] + 256 * info[3][1]) ELSE None]
    <3>1. Malformed \/ pkt' = p \/ pkt' = [p EXCEPT !.malformed = TRUE]
      BY <2>1, Zenon DEF Radiotap, Go, Stop
    <3>2. DOMAIN p = DOMAIN pkt /\ DOMAIN [p EXCEPT !.malformed = TRUE] = DOMAIN pkt
      OBVIOUS
    <3> HIDE DEF p
    <3> QED
      BY <3>1, <3>2 DEF Malformed, Stop
  <2>2. CASE Wifi
    BY <2>2 DEF Wifi, Go
  <2>3. CASE Short80211
    BY <2>3 DEF Short80211, Malformed, Stop
  <2>4. CASE WifiData
    <3>1. pkt' = Dot11
      BY <2>4, Zenon DEF WifiData, Go, Stop
    <3> QED
      BY <3>1, Dot11Fields
  <2>5. CASE WifiControl
    BY <2>5, Dot11Fields DEF WifiControl, Stop
  <2>6. CASE WifiMgmt
    <3>1. pkt' = [Dot11 EXCEPT !.wifi_mgmt = Some(Mgmt)]
      BY <2>6, Zenon DEF WifiMgmt, Go, Stop
    <3> QED
      BY <3>1, Dot11Fields
  <2>7. CASE Element
    BY <2>7 DEF Element, Go, Stop
  <2>8. CASE Eapol
    <3>1. Malformed \/ pkt' = pkt \/ \E a : pkt' = [pkt EXCEPT !.app = a]
      BY <2>8, Zenon DEF Eapol, Stop
    <3> QED
      BY <3>1 DEF Malformed, Stop
  <2> QED
    BY <2>1, <2>2, <2>3, <2>4, <2>5, <2>6, <2>7, <2>8 DEF WirelessStep
<1> QED
  BY <1>2, <1>3, OtherFrames

\* Options and applications add to the packet beside its flow.
LEMMA PayloadFields ==
  ASSUME KeyInv
  PROVE  \A v : SameKey([pkt EXCEPT !.options = v]) /\ SameKey([pkt EXCEPT !.app = v])
  BY DEF KeyInv, SameKey, KeyFields

\* Each function of the application part preserves KeyInv: it reads on, or stops, with a packet of
\* the same flow.  ICMP has no ports.
LEMMA ApplicationStepKeyed == ASSUME KeyInv, UNCHANGED <<data, link>>, ApplicationStep PROVE KeyInv'
<1>1. ASSUME layer' \in PayloadLayers, layer \in PayloadLayers,
             pkt' = pkt \/ (\E v : pkt' = [pkt EXCEPT !.options = v]) \/ (\E v : pkt' = [pkt EXCEPT !.app = v])
      PROVE  KeyInv'
  <2>1. SameKey(pkt')
    BY <1>1, PayloadFields, SameKeyOfItself
  <2> QED
    BY <1>1, <2>1, KeyCarried
<1>2. CASE TcpOption
  <2>1. layer' \in PayloadLayers /\ layer \in PayloadLayers
    BY <1>2, Zenon DEF TcpOption, OptionsDone, Go, PayloadLayers
  <2>2. pkt' = pkt \/ \E v : pkt' = [pkt EXCEPT !.options = v]
    BY <1>2, Zenon DEF TcpOption, OptionsDone, Go
  <2> QED
    BY <1>1, <2>1, <2>2
<1>3. CASE Icmp
  <2>1. CASE Malformed
    BY <2>1, MalformedCarried
  <2>2. CASE ~ Malformed
    <3>1. layer' = "done" /\ \E v : pkt' = [pkt EXCEPT !.transport = "icmp", !.icmp = v]
      BY <1>3, <2>2, Zenon DEF Icmp, Stop
    <3>2. KeyFields \subseteq DOMAIN pkt' /\ pkt'.transport = "icmp"
      BY <3>1 DEF KeyInv, KeyFields
    <3> QED
      BY <3>1, <3>2 DEF KeyInv, HeaderLayers, PayloadLayers, HasPorts
  <2> QED
    BY <2>1, <2>2
<1>4. CASE OtherApplication
  BY <1>4, StopCarried, SameKeyOfItself DEF OtherApplication
<1>5. CASE Dns
  <2>1. layer' \in PayloadLayers /\ layer \in PayloadLayers
    BY <1>5, Zenon DEF Dns, Stop, PayloadLayers
  <2>2. pkt' = pkt \/ \E v : pkt' = [pkt EXCEPT !.app = v]
    BY <1>5, Zenon DEF Dns, Stop
  <2> QED
    BY <1>1, <2>1, <2>2
<1>6. CASE Question
  <2>1. layer' \in PayloadLayers /\ layer \in PayloadLayers
    BY <1>6, Zenon DEF Question, QuestionsDone, Go, PayloadLayers
  <2>2. pkt' = pkt \/ \E v : pkt' = [pkt EXCEPT !.app = v]
    BY <1>6, Zenon DEF Question, QuestionsDone, Go
  <2> QED
    BY <1>1, <2>1, <2>2
<1>7. CASE Answer
  <2>1. layer' \in PayloadLayers /\ layer \in PayloadLayers
    BY <1>7, Zenon DEF Answer, Stop, Go, PayloadLayers
  <2>2. pkt' = pkt \/ \E v : pkt' = [pkt EXCEPT !.app = v]
    BY <1>7, Zenon DEF Answer, Stop, Go
  <2> QED
    BY <1>1, <2>1, <2>2
<1>8. CASE Dhcp
  <2>1. layer' \in PayloadLayers /\ layer \in PayloadLayers
    BY <1>8, Zenon DEF Dhcp, Stop, Go, PayloadLayers
  <2>2. pkt' = pkt \/ \E v : pkt' = [pkt EXCEPT !.app = v]
    BY <1>8, Zenon DEF Dhcp, Stop, Go
  <2> QED
    BY <1>1, <2>1, <2>2
<1>9. CASE DhcpOption
  <2>1. layer' \in PayloadLayers /\ layer \in PayloadLayers
    BY <1>9, Zenon DEF DhcpOption, Stop, Go, PayloadLayers
  <2>2. pkt' = pkt \/ \E v : pkt' = [pkt EXCEPT !.app = v]
    BY <1>9, Zenon DEF DhcpOption, Stop, Go
  <2> QED
    BY <1>1, <2>1, <2>2
<1> QED
  BY <1>2, <1>3, <1>4, <1>5, <1>6, <1>7, <1>8, <1>9 DEF ApplicationStep

\* Every step preserves KeyInv.
LEMMA KeyInductive == FrameInv /\ KeyInv /\ [Next]_vars => KeyInv'
<1> SUFFICES ASSUME FrameInv, KeyInv, [Next]_vars PROVE KeyInv'
  OBVIOUS
<1>1. CASE Next
  BY <1>1, FrameStepKeyed, WirelessStepKeyed, ApplicationStepKeyed DEF Next, ParseStep
<1>2. CASE UNCHANGED vars
  <2>1. UNCHANGED <<data, link>> /\ layer' = layer /\ off' = off /\ end' = end /\ next' = next /\ pkt' = pkt
    BY <1>2 DEF vars, slice
  <2>2. HeaderRead' = HeaderRead /\ Size' = Size
    BY <2>1 DEF HeaderRead, Size
  <2>3. HasPorts' = HasPorts /\ PacketKey' = PacketKey
    BY <2>1 DEF HasPorts, PacketKey
  <2> QED
    BY <2>1, <2>2, <2>3, FrameFixed DEF KeyInv
<1> QED
  BY <1>1, <1>2

\* Engine and flow table agree on the flow of every untagged IPv4 frame with TCP or UDP ports:
\* parse_flow_key, which does not know what parse_packet made of the frame, finds the same 4-tuple.
THEOREM OneFlowTwoParsers == Spec => []SameFlow
<1>1. KeyInv => SameFlow
  BY DEF KeyInv, SameFlow, PayloadLayers
<1> QED
  BY <1>1, FrameInit, FrameInductive, KeyInit, KeyInductive, PTL DEF Spec

----------------------------------------------------------------------------
(* Packets without a link header.                                          *)

\* A frame that is meant as a raw packet stays one.
RawInv == meant.kind = "raw" => RawPacket(data, meant.key)

\* The header of a raw packet is at its start, unless bytes 12 and 13 are the IPv4 ether type.
LEMMA RawAtStart ==
  ASSUME DataInv, NEW key, RawPacket(data, key), ~ (key.src_ip[0] = 8 /\ key.src_ip[1] = 0)
  PROVE  ParseFlowKey = key
<1>1. PICK words \in 5 .. 15 :
        /\ data[0] = 64 + words /\ data[9] \in {6, 17} /\ 4 * words + 4 <= Size
        /\ key = [key |-> TRUE, src_ip |-> [k \in 0 .. 3 |-> data[12 + k]],
                  src_port |-> data[4 * words] * 256 + data[4 * words + 1],
                  dst_ip |-> [k \in 0 .. 3 |-> data[16 + k]],
                  dst_port |-> data[4 * words + 2] * 256 + data[4 * words + 3]]
  BY DEF RawPacket, Size
<1>2. Size \in Nat /\ Size >= 24
  BY <1>1 DEF DataInv
<1>3. data[0] \div 16 = 4 /\ data[0] % 16 = words
  BY <1>1
<1>4. ~ (data[12] = 8 /\ data[13] = 0)
  <2>1. key.src_ip = [k \in 0 .. 3 |-> data[12 + k]]
    BY <1>1
  <2>2. key.src_ip[0] = data[12 + 0] /\ key.src_ip[1] = data[12 + 1]
    BY <2>1
  <2>3. 12 + 0 = 12 /\ 12 + 1 = 13
    OBVIOUS
  <2> QED
    BY <2>2, <2>3
<1>5. IpOffset = 0
  BY <1>2, <1>3, <1>4 DEF IpOffset
<1> DEFINE t == 4 * words
<1>6. /\ (data[0] % 16) * 4 = t /\ t >= 20 /\ t + 4 <= Size /\ t \in Nat
      /\ t + 2 + 1 = t + 3 /\ 0 + t = t /\ 0 + 9 = 9 /\ 0 + 12 = 12 /\ 0 + 16 = 16
  BY <1>1, <1>3
<1>7. key = [key |-> TRUE, src_ip |-> [k \in 0 .. 3 |-> data[12 + k]], src_port |-> data[t] * 256 + data[t + 1],
            dst_ip |-> [k \in 0 .. 3 |-> data[16 + k]], dst_port |-> data[t + 2] * 256 + data[t + 3]]
  BY <1>1
<1> HIDE DEF t
<1>8. Size - 0 >= 20 /\ Size - 0 >= t /\ Size - t >= 4 /\ 0 >= 0
  BY <1>2, <1>6
<1>9. /\ [k \in 0 .. 3 |-> data[0 + 12 + k]] = [k \in 0 .. 3 |-> data[12 + k]]
      /\ [k \in 0 .. 3 |-> data[0 + 16 + k]] = [k \in 0 .. 3 |-> data[16 + k]]
      /\ data[t + 2 + 1] = data[t + 3]
  BY <1>6
<1>10. /\ IpOffset + (data[IpOffset] % 16) * 4 = t /\ (data[IpOffset] % 16) * 4 = t
       /\ data[IpOffset] \div 16 = 4 /\ data[IpOffset + 9] \in {6, 17}
  BY <1>1, <1>3, <1>5, <1>6
<1>11. /\ IpOffset >= 0 /\ Size - IpOffset >= 20 /\ data[IpOffset] \div 16 = 4
       /\ (data[IpOffset] % 16) * 4 >= 20 /\ Size - IpOffset >= (data[IpOffset] % 16) * 4
       /\ data[IpOffset + 9] \in {6, 17} /\ Size - (IpOffset + (data[IpOffset] % 16) * 4) >= 4
  BY <1>5, <1>6, <1>8, <1>10
<1>12. ParseFlowKey = [key |-> TRUE, src_ip |-> [k \in 0 .. 3 |-> data[IpOffset + 12 + k]],
                       src_port |-> data[IpOffset + (data[IpOffset] % 16) * 4] * 256
                                      + data[IpOffset + (data[IpOffset] % 16) * 4 + 1],
                       dst_ip |-> [k \in 0 .. 3 |-> data[IpOffset + 16 + k]],
                       dst_port |-> data[IpOffset + (data[IpOffset] % 16) * 4 + 2] * 256
                                      + data[IpOffset + (data[IpOffset] % 16) * 4 + 2 + 1]]
  BY <1>11, Zenon DEF ParseFlowKey
<1>13. /\ [k \in 0 .. 3 |-> data[IpOffset + 12 + k]] = [k \in 0 .. 3 |-> data[12 + k]]
       /\ [k \in 0 .. 3 |-> data[IpOffset + 16 + k]] = [k \in 0 .. 3 |-> data[16 + k]]
  BY <1>5, <1>9, Zenon
<1>14. /\ data[IpOffset + (data[IpOffset] % 16) * 4 + 1] = data[t + 1]
       /\ data[IpOffset + (data[IpOffset] % 16) * 4 + 2] = data[t + 2]
       /\ data[IpOffset + (data[IpOffset] % 16) * 4 + 2 + 1] = data[t + 3]
       /\ data[IpOffset + (data[IpOffset] % 16) * 4] = data[t]
  BY <1>9, <1>10, Zenon
<1> QED
  BY <1>7, <1>12, <1>13, <1>14, Zenon

\* Whatever options its header has, a packet without a link header is filed under its own addresses
\* and ports by parse_flow_key (RawKeyed), unless its sender's network is 8.0.
THEOREM RawPacketsKeyed == Spec => []RawKeyed
<1>1. Init => RawInv
  <2> SUFFICES ASSUME Init, meant.kind = "raw" PROVE RawPacket(data, meant.key)
    BY DEF RawInv
  <2>1. PICK family \in InputFrames : \E f \in family : data = f.data /\ meant = f.meant
    BY DEF Init
  <2>2. PICK f \in family : data = f.data /\ meant = f.meant
    BY <2>1
  <2> QED
    BY <2>2, RawAssumption
<1>2. RawInv /\ [Next]_vars => RawInv'
  BY DEF RawInv, Next, vars
<1>3. FrameInv /\ RawInv => RawKeyed
  BY RawAtStart DEF FrameInv, RawInv, RawKeyed
<1> QED
  BY <1>1, <1>2, <1>3, FrameInit, FrameInductive, PTL DEF Spec

----------------------------------------------------------------------------
(* The reading leads on.                                                   *)

\* The order in which the parser functions call each other.
Rank(l) == CASE l = "link" -> 9 [] l = "802.11" -> 8 [] l \in {"ipv4", "ipv6", "arp", "eapol", "other", "elements"} -> 7
             [] l = "extension" -> 6 [] l = "transport" -> 5 [] l = "options" -> 4 [] l = "app" -> 3
             [] l = "questions" -> 2 [] l \in {"answers", "dhcp"} -> 1 [] OTHER -> 0

\* What is left of the list at hand: records of a DNS message, or bytes.
Left == IF layer \in {"questions", "answers"} THEN next ELSE end - off

\* A step calls a function further down, or takes something off the list at hand.
Progress == Rank(layer') < Rank(layer) \/ (layer' = layer /\ Left \in Nat /\ Left' \in Nat /\ Left' < Left)

\* The records of a DNS message are counted down.
CountInv == layer \in {"questions", "answers"} => next \in Nat

\* A walk over the bytes of a list takes at least one.
LEMMA WalkedOn ==
  ASSUME FrameInv, layer \notin {"questions", "answers"}, NEW o \in Nat, off < o, o <= end,
         NEW n, NEW p, Go(layer, o, end, n, p)
  PROVE  Progress
<1>1. Left = end - off /\ layer' = layer
  BY DEF Left, Go
<1>2. Left' = end' - off' /\ off' = o /\ end' = end
  BY <1>1 DEF Left, Go
<1> QED
  BY <1>1, <1>2, SliceTypes DEF Progress

\* Functions that read once call only functions further down.
LEMMA OnceReadLeadsOn ==
  ASSUME Undetected \/ Ethernet \/ Ipv4 \/ Ipv6 \/ Arp \/ Tcp \/ Udp \/ OtherProtocol \/ Radiotap \/ Wifi
         \/ Short80211 \/ WifiData \/ WifiControl \/ WifiMgmt \/ Eapol \/ Icmp \/ OtherApplication \/ Dns \/ Dhcp
  PROVE  Progress
<1>1. \/ layer = "link" /\ layer' \in {"802.11", "ipv4", "ipv6", "arp", "eapol", "other", "done"}
      \/ layer = "802.11" /\ layer' \in {"ipv4", "ipv6", "arp", "eapol", "other", "elements", "done"}
      \/ layer \in {"ipv4", "ipv6", "arp", "eapol", "other"} /\ layer' \in {"extension", "transport", "done"}
      \/ layer = "transport" /\ layer' \in {"options", "app", "done"}
      \/ layer = "app" /\ layer' \in {"questions", "dhcp", "done"}
  <2>1. ASSUME Undetected \/ Ethernet \/ Radiotap \/ Wifi
        PROVE  layer = "link" /\ layer' \in {"802.11", "ipv4", "ipv6", "arp", "eapol", "other", "done"}
    <3>1. layer = "link" /\ (layer' = "802.11" \/ layer' = "done" \/ \E t : layer' = Layer(t))
      BY <2>1, Zenon DEF Undetected, Ethernet, Radiotap, Wifi, Malformed, Stop, Go
    <3> QED
      BY <3>1, LayersOfTypes
  <2>2. ASSUME Short80211 \/ WifiData \/ WifiControl \/ WifiMgmt
        PROVE  layer = "802.11" /\ layer' \in {"ipv4", "ipv6", "arp", "eapol", "other", "elements", "done"}
    <3>1. layer = "802.11" /\ (layer' = "elements" \/ layer' = "done" \/ \E t : layer' = Layer(t))
      BY <2>2, Zenon DEF Short80211, WifiData, WifiControl, WifiMgmt, Malformed, Stop, Go
    <3> QED
      BY <3>1, LayersOfTypes
  <2>3. ASSUME Ipv4 \/ Ipv6 \/ Arp \/ Eapol
        PROVE  layer \in {"ipv4", "ipv6", "arp", "eapol"} /\ layer' \in {"extension", "transport", "done"}
    BY <2>3, Zenon DEF Ipv4, Ipv6, Arp, Eapol, Malformed, Stop, Go
  <2>4. ASSUME Tcp \/ Udp \/ Icmp PROVE layer = "transport" /\ layer' \in {"options", "app", "done"}
    BY <2>4, Zenon DEF Tcp, Udp, Icmp, Malformed, Stop, Go
  <2>5. ASSUME OtherProtocol PROVE layer \in {"other", "transport"} /\ layer' = "done"
    BY <2>5 DEF OtherProtocol, Stop
  <2>6. ASSUME OtherApplication \/ Dns \/ Dhcp PROVE layer = "app" /\ layer' \in {"questions", "dhcp", "done"}
    BY <2>6, Zenon DEF OtherApplication, Dns, Dhcp, Stop, Go
  <2> QED
    BY <2>1, <2>2, <2>3, <2>4, <2>5, <2>6
<1> QED
  BY <1>1 DEF Progress, Rank

\* A step from a list to a function further down, or to the end.
LEMMA ListLeft ==
  /\ layer = "options" /\ layer' = "app" => Progress
  /\ layer = "extension" /\ layer' = "transport" => Progress
  /\ layer = "questions" /\ layer' = "answers" => Progress
  /\ layer \in {"elements", "answers", "dhcp"} /\ layer' = "done" => Progress
  BY DEF Progress, Rank

\* Extension headers, options and elements are walked forwards only.
LEMMA WalksLeadOn ==
  ASSUME FrameInv, Extension \/ Element \/ TcpOption \/ DhcpOption
  PROVE  Progress
<1>1. CASE Extension
  <2>1. CASE HasExtension
    <3>1. Go(layer, off + (Byte(off + 1) + 1) * 8, end, Byte(off), pkt) /\ layer = "extension"
      BY <1>1, <2>1 DEF Extension
    <3>2. off + 1 \in Nat /\ off + 1 < end /\ off + (Byte(off + 1) + 1) * 8 <= end
      BY <2>1, SliceTypes DEF HasExtension
    <3>3. Byte(off + 1) \in Nat
      BY <3>2, SliceTypes, ByteInside, OctetSmall
    <3>4. off + (Byte(off + 1) + 1) * 8 \in Nat /\ off < off + (Byte(off + 1) + 1) * 8
      BY <3>3, SliceTypes
    <3> QED
      BY <3>1, <3>2, <3>4, WalkedOn
  <2>2. CASE ~ HasExtension
    BY <1>1, <2>2, ListLeft DEF Extension, Go
  <2> QED
    BY <2>1, <2>2
<1>2. CASE Element
  <2> DEFINE whole == off + 2 <= end /\ off + 2 + IeLen <= end
  <2>1. CASE whole
    <3>1. layer = "elements" /\ \E p : Go(layer, off + 2 + IeLen, end, next, p)
      BY <1>2, <2>1, Zenon DEF Element
    <3>2. off + 1 \in Nat /\ off + 1 < end
      BY <2>1, SliceTypes
    <3>3. IeLen \in Nat
      BY <3>2, SliceTypes, ByteInside, OctetSmall DEF IeLen
    <3>4. off + 2 + IeLen \in Nat /\ off < off + 2 + IeLen
      BY <3>3, SliceTypes
    <3> QED
      BY <2>1, <3>1, <3>4, WalkedOn
  <2>2. CASE ~ whole
    BY <1>2, <2>2, ListLeft DEF Element, Stop
  <2> QED
    BY <2>1, <2>2
<1>3. CASE TcpOption
  <2>1. \/ layer' = "app"
        \/ Remaining # 0 /\ \E p : Go("options", off + 1, end, 0, p)
        \/ OptionLen \in 2 .. Remaining /\ \E p : Go("options", off + OptionLen, end, 0, p)
    BY <1>3, Zenon DEF TcpOption, OptionsDone, Go
  <2>2. layer = "options"
    BY <1>3 DEF TcpOption
  <2>3. CASE layer' = "app"
    BY <2>2, <2>3, ListLeft
  <2>4. CASE Remaining # 0 /\ \E p : Go("options", off + 1, end, 0, p)
    <3>1. off + 1 \in Nat /\ off < off + 1 /\ off + 1 <= end
      BY <2>4, SliceTypes DEF Remaining
    <3> QED
      BY <2>2, <2>4, <3>1, WalkedOn
  <2>5. CASE OptionLen \in 2 .. Remaining /\ \E p : Go("options", off + OptionLen, end, 0, p)
    <3>1. off + OptionLen \in Nat /\ off < off + OptionLen /\ off + OptionLen <= end
      BY <2>5, SliceTypes DEF Remaining
    <3> QED
      BY <2>2, <2>5, <3>1, WalkedOn
  <2> QED
    BY <2>1, <2>3, <2>4, <2>5
<1>4. CASE DhcpOption
  <2>1. \/ layer' = "done"
        \/ Remaining # 0 /\ \E p : Go("dhcp", off + 1, end, 0, p)
        \/ /\ ~ (Remaining < 2 \/ Remaining < 2 + OptionLen)
           /\ \E p : Go("dhcp", off + 2 + OptionLen, end, 0, p)
    BY <1>4, Zenon DEF DhcpOption, Stop
  <2>2. layer = "dhcp"
    BY <1>4 DEF DhcpOption
  <2>3. CASE layer' = "done"
    BY <2>2, <2>3, ListLeft
  <2>4. CASE Remaining # 0 /\ \E p : Go("dhcp", off + 1, end, 0, p)
    <3>1. off + 1 \in Nat /\ off < off + 1 /\ off + 1 <= end
      BY <2>4, SliceTypes DEF Remaining
    <3> QED
      BY <2>2, <2>4, <3>1, WalkedOn
  <2>5. CASE /\ ~ (Remaining < 2 \/ Remaining < 2 + OptionLen)
             /\ \E p : Go("dhcp", off + 2 + OptionLen, end, 0, p)
    <3>1. off + 1 \in Nat /\ off + 1 < end
      BY <2>5, SliceTypes DEF Remaining
    <3>2. OptionLen \in Nat
      BY <3>1, SliceTypes, ByteInside, OctetSmall DEF OptionLen
    <3>3. off + 2 + OptionLen \in Nat /\ off < off + 2 + OptionLen /\ off + 2 + OptionLen <= end
      BY <2>5, <3>2, SliceTypes DEF Remaining
    <3> QED
      BY <2>2, <2>5, <3>3, WalkedOn
  <2> QED
    BY <2>1, <2>3, <2>4, <2>5
<1> QED
  BY <1>1, <1>2, <1>3, <1>4

\* Questions and answers are counted down.
LEMMA RecordsLeadOn ==
  ASSUME FrameInv, CountInv, Question \/ Answer
  PROVE  Progress
<1>1. layer \in {"questions", "answers"} /\ next \in Nat
  BY DEF Question, Answer, CountInv
<1>2. ASSUME layer' = layer, next # 0, next' = next - 1 PROVE Progress
  <2>1. Left = next /\ Left' = next - 1
    BY <1>1, <1>2 DEF Left
  <2> QED
    BY <1>1, <1>2, <2>1 DEF Progress
<1>3. CASE Question
  <2>1. layer = "questions" /\ (layer' = "answers" \/ (layer' = "questions" /\ next # 0 /\ next' = next - 1))
    BY <1>3, Zenon DEF Question, QuestionsDone, Go
  <2> QED
    BY <1>2, <2>1, ListLeft
<1>4. CASE Answer
  <2>1. layer = "answers" /\ (layer' = "done" \/ (layer' = "answers" /\ next # 0 /\ next' = next - 1))
    BY <1>4, Zenon DEF Answer, Stop, Go
  <2> QED
    BY <1>2, <2>1, ListLeft
<1> QED
  BY <1>3, <1>4

\* The counts in the header of a DNS message are numbers.
LEMMA CountInductive == FrameInv /\ CountInv /\ [Next]_vars => CountInv'
<1> SUFFICES ASSUME FrameInv, CountInv, [Next]_vars, layer' \in {"questions", "answers"} PROVE next' \in Nat
  BY DEF CountInv
<1>1. CASE Dns
  <2>1. next' = U16(off + 4) /\ ~ (Remaining < 12)
    BY <1>1 DEF Dns, Stop
  <2>2. off + 4 \in Nat /\ off + 4 + 1 < end
    BY <2>1, SliceTypes DEF Remaining
  <2> QED
    BY <2>1, <2>2, SliceTypes, WordInside
<1>2. CASE Question \/ Answer
  <2>1. layer \in {"questions", "answers"} /\ next \in Nat /\ mark + 12 <= off
    BY <1>2 DEF Question, Answer, CountInv, FrameInv, SlicesInFrame
  <2>2. next' = AnswerCount \/ (next # 0 /\ next' = next - 1)
    BY <1>2, Zenon DEF Question, QuestionsDone, Answer, Stop, Go
  <2>3. AnswerCount \in Nat
    <3>1. mark + 6 \in Nat /\ mark + 6 < end /\ mark + 7 \in Nat /\ mark + 7 < end
      BY <2>1, SliceTypes
    <3>2. Byte(mark + 6) \in Nat /\ Byte(mark + 7) \in Nat
      BY <3>1, SliceTypes, ByteInside, OctetSmall
    <3> HIDE DEF Byte
    <3> QED
      BY <3>2 DEF AnswerCount
  <2> QED
    BY <2>1, <2>2, <2>3
<1>3. CASE UNCHANGED vars
  BY <1>3 DEF vars, slice, CountInv
<1>4. CASE Next /\ ~ Dns /\ ~ Question /\ ~ Answer
  <2>1. layer' \notin {"questions", "answers"}
    <3>1. CASE FrameStep
      <4>1. layer' \in {"done", "transport", "extension", "options", "app"} \/ \E t : layer' = Layer(t)
        BY <3>1, Zenon DEF FrameStep, Undetected, Ethernet, Ipv4, Ipv6, Extension, Arp, Tcp, Udp, OtherProtocol,
                           Malformed, Stop, Go
      <4> QED
        BY <4>1, LayersOfTypes
    <3>2. CASE WirelessStep
      <4>1. layer' \in {"done", "802.11", "elements"} \/ \E t : layer' = Layer(t)
        BY <3>2, Zenon DEF WirelessStep, Radiotap, Wifi, Short80211, WifiData, WifiControl, WifiMgmt, Element, Eapol,
                           Malformed, Stop, Go
      <4> QED
        BY <4>1, LayersOfTypes
    <3>3. CASE ApplicationStep
      <4>1. layer' \in {"done", "app", "options", "dhcp"}
        BY <1>4, <3>3, Zenon DEF ApplicationStep, TcpOption, OptionsDone, Icmp, OtherApplication, Dhcp, DhcpOption,
                                 Malformed, Stop, Go
      <4> QED
        BY <4>1
    <3> QED
      BY <1>4, <3>1, <3>2, <3>3 DEF Next, ParseStep
  <2> QED
    BY <2>1
<1> QED
  BY <1>1, <1>2, <1>3, <1>4

\* No frame makes the parser go round in circles: with every step it is in a function further down,
\* or has less of a list before it.  So a frame of any length is read in finitely many steps, which
\* is the part of ReadingEnds that does not need fairness.
THEOREM EveryStepLeadsOn == Spec => [][Progress]_vars
<1>1. Init => CountInv
  BY DEF Init, CountInv
<1>2. FrameInv /\ CountInv /\ Next => Progress
  BY OnceReadLeadsOn, WalksLeadOn, RecordsLeadOn
     DEF Next, ParseStep, FrameStep, WirelessStep, ApplicationStep
<1>3. FrameInv /\ CountInv /\ [Next]_vars => [Progress]_vars
  BY <1>2
<1> QED
  BY <1>1, <1>3, FrameInit, FrameInductive, CountInductive, PTL DEF Spec
=============================================================================
