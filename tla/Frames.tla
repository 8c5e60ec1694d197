------------------------------- MODULE Frames -------------------------------
(***************************************************************************)
(* How a captured frame is read, twice: by parse_packet for the engine     *)
(* (src/src/parser.rs; here its entry and the functions from Ethernet to   *)
(* UDP) and by parse_flow_key for the flow table (src/src/flow_parser.rs). *)
(* Wireless and Applications model the other parser functions,             *)
(* ParsePacket puts them together.                                         *)
(*                                                                         *)
(* A frame is a function from 0 .. n - 1 to bytes, so that indices are     *)
(* those of the code.  parse_packet is a state machine that takes one      *)
(* layer, or one element of a list, per step: off and end delimit the      *)
(* slice that the next parser function is given, next is what selects it   *)
(* or bounds it, and mark is a third offset that a walk needs.  A Rust     *)
(* Option is a set with at most one member.                                *)
(***************************************************************************)
EXTENDS Integers, FiniteSets

CONSTANT InputFrames \* families of frames that are tried, with the hardware type of the interface

\* A frame is a finite slice of bytes.
ASSUME FramesAssumption ==
  \A family \in InputFrames : \A f \in family :
    IsFiniteSet(DOMAIN f.data) /\ f.data \in [0 .. Cardinality(DOMAIN f.data) - 1 -> 0 .. 255]

VARIABLES
  data,  \* the frame
  link,  \* default_link
  meant, \* what the frame was made from, for the properties only
  layer, \* the parser function to be called next
  off, end, next, mark,
  pkt    \* the ParsedPacket

slice == <<layer, off, end, next, mark>>
vars == <<data, link, meant, slice, pkt>>

Size == Cardinality(DOMAIN data)

\* A byte of the current slice; outside of it there is no value, which is the panic of the code.
Byte(i) == CASE i \in 0 .. end - 1 -> data[i]
U16(i) == Byte(i) * 256 + Byte(i + 1)
U16le(i) == Byte(i) + Byte(i + 1) * 256
Slice(i, n) == [k \in 0 .. n - 1 |-> Byte(i + k)]
Address(i) == Slice(i, 4)
Mac(i) == Slice(i, 6)
Bit(b, k) == (b \div 2 ^ k) % 2 = 1
Lesser(a, b) == IF a <= b THEN a ELSE b

None == {}
Some(v) == {v}

IPv4Type == \h0800
IPv6Type == \h86DD
ArpType == \h0806
EapolType == \h888E

----------------------------------------------------------------------------
(* parse_flow_key.                                                         *)

NoFlow == [key |-> FALSE]

\* Variant: the first byte is looked at before the ether type.
IpOffsetRawFirst == IF Size > 0 /\ data[0] \div 16 = 4 THEN 0 ELSE IF Size >= 14 THEN 14 ELSE -1

\* Variant: one byte of the ether type decides.
IpOffsetOneByte ==
  IF Size >= 14 /\ data[12] = 8 THEN 14
  ELSE IF Size > 0 /\ data[0] \div 16 = 4 THEN 0 ELSE -1

\* Where the IPv4 header is taken to be: behind an Ethernet header with the IPv4 type or, failing
\* that, at the start of anything whose first four bits are 4.
IpOffset ==
  IF Size >= 14 /\ data[12] = 8 /\ data[13] = 0 THEN 14
  ELSE IF Size > 0 /\ data[0] \div 16 = 4 THEN 0 ELSE -1

ParseFlowKey ==
  LET o == IpOffset
      ihl == (data[o] % 16) * 4
      t == o + ihl
      address(i) == [k \in 0 .. 3 |-> data[i + k]]
      port(i) == data[i] * 256 + data[i + 1]
  IN  IF /\ o >= 0 /\ Size - o >= 20 /\ data[o] \div 16 = 4
         /\ ihl >= 20 /\ Size - o >= ihl
         /\ data[o + 9] \in {6, 17}
         /\ Size - t >= 4
      THEN [key |-> TRUE, src_ip |-> address(o + 12), src_port |-> port(t),
            dst_ip |-> address(o + 16), dst_port |-> port(t + 2)]
      ELSE NoFlow

----------------------------------------------------------------------------
(* parse_packet.                                                           *)

\* detect_link_type: the hardware type that the kernel names for the interface, if one is given.
DetectLinkType(hardware) ==
  CASE hardware \in {None, Some(1)} -> "ethernet" [] hardware = Some(801) -> "wifi"
    [] hardware = Some(803) -> "radiotap" [] OTHER -> "unknown"

NoMac == [k \in 0 .. 5 |-> 0]

EmptyPacket ==
  [malformed |-> FALSE, src_mac |-> NoMac, dst_mac |-> NoMac, bssid |-> None,
   signal_dbm |-> None, channel |-> None, wifi_header |-> None, wifi_mgmt |-> None,
   network |-> "none", src_ip |-> <<>>, dst_ip |-> <<>>,
   transport |-> "none", src_port |-> 0, dst_port |-> 0, flags |-> 0, options |-> None, icmp |-> None,
   app |-> None]

Init ==
  /\ \E family \in InputFrames : \E f \in family : data = f.data /\ meant = f.meant /\ link = DetectLinkType(f.hardware)
  /\ layer = "link" /\ off = 0 /\ end = Size /\ next = 0 /\ mark = 0 /\ pkt = EmptyPacket

\* The reading ends, with the packet as it is or marked malformed.
Stop(p) == layer' = "done" /\ pkt' = p /\ UNCHANGED <<off, end, next, mark>>
Malformed == Stop([pkt EXCEPT !.malformed = TRUE])

\* The rest is handed to the next function.
Go(l, o, e, n, p) == layer' = l /\ off' = o /\ end' = e /\ next' = n /\ pkt' = p /\ UNCHANGED mark

\* The link type, detected from the frame where the interface does not tell: radiotap headers
\* start with a zero byte.
LinkType ==
  IF link # "unknown" THEN link
  ELSE IF Size >= 8 /\ data[0] = 0 THEN "radiotap"
  ELSE IF Size >= 14 THEN "ethernet" ELSE "none"

Undetected == layer = "link" /\ LinkType = "none" /\ Malformed

\* A tag of four bytes is skipped if all of it is there.
Tagged(o, types) == U16(o - 2) \in types /\ Size >= o + 4
Untag(o, types) == IF Tagged(o, types) THEN o + 4 ELSE o

\* Behind the outer and the inner VLAN tag; the ether type is in the two bytes before.
PayloadOffset == Untag(Untag(14, {\h88A8, \h9100}), {\h8100})

\* parse_ethernet_payload.
Layer(eth_type) == CASE eth_type = IPv4Type -> "ipv4" [] eth_type = IPv6Type -> "ipv6"
                     [] eth_type = ArpType -> "arp" [] eth_type = EapolType -> "eapol" [] OTHER -> "other"

\* parse_ethernet_frame.
Ethernet ==
  /\ layer = "link" /\ LinkType = "ethernet"
  /\ IF Size < 14 THEN Malformed
     ELSE LET o == PayloadOffset
              p == [pkt EXCEPT !.dst_mac = Mac(0), !.src_mac = Mac(6)]
          IN  IF o < Size THEN Go(Layer(U16(o - 2)), o, Size, U16(o - 2), p)
              ELSE Stop([p EXCEPT !.malformed = TRUE])

Ipv4 ==
  /\ layer = "ipv4"
  /\ LET n == end - off
         header_len == (Byte(off) % 16) * 4
         packet_len == Lesser(n, U16(off + 2))
     IN  IF n < 20 THEN Malformed
         ELSE IF Byte(off) \div 16 # 4 \/ header_len < 20 \/ header_len > n THEN Malformed
         ELSE IF packet_len < header_len THEN Malformed
         ELSE Go("transport", off + header_len, off + packet_len, Byte(off + 9),
                 [pkt EXCEPT !.network = "ipv4", !.src_ip = Address(off + 12), !.dst_ip = Address(off + 16)])

Ipv6 ==
  /\ layer = "ipv6"
  /\ IF end - off < 40 \/ Byte(off) \div 16 # 6 THEN Malformed
     ELSE Go("extension", off + 40, off + Lesser(end - off, 40 + U16(off + 4)), Byte(off + 6),
             [pkt EXCEPT !.network = "ipv6", !.src_ip = Slice(off + 8, 16), !.dst_ip = Slice(off + 24, 16)])

ExtensionTypes == {0, 43, 44, 60, 135}

\* Variant: the length in the header is not checked.
HasExtensionUnchecked == next \in ExtensionTypes /\ off + 2 <= end

\* Another extension header lies within the packet.
HasExtension ==
  next \in ExtensionTypes /\ off + 2 <= end /\ off + (Byte(off + 1) + 1) * 8 <= end

\* Variant: the first eight bytes are not counted.
ExtensionInPlace ==
  /\ layer = "extension"
  /\ IF HasExtension
     THEN Go("extension", off + Byte(off + 1) * 8, end, Byte(off), pkt)
     ELSE Go("transport", off, end, next, pkt)

\* One turn of the loop over the extension headers.
Extension ==
  /\ layer = "extension"
  /\ IF HasExtension
     THEN Go("extension", off + (Byte(off + 1) + 1) * 8, end, Byte(off), pkt)
     ELSE Go("transport", off, end, next, pkt)

\* Only Ethernet with IPv4 is taken; the addresses are those of sender and target.
Arp ==
  /\ layer = "arp"
  /\ IF end - off < 28 THEN Malformed
     ELSE IF U16(off) = 1 /\ U16(off + 2) = IPv4Type /\ Byte(off + 4) = 6 /\ Byte(off + 5) = 4
     THEN Stop([pkt EXCEPT !.network = "arp", !.src_ip = Address(off + 14), !.dst_ip = Address(off + 24)])
     ELSE Stop(pkt)

WithPorts(transport) == [pkt EXCEPT !.transport = transport, !.src_port = U16(off), !.dst_port = U16(off + 2)]

NoOptions == [mss |-> None, window_scale |-> None, sack_permitted |-> FALSE, sack_blocks |-> <<>>, timestamp |-> None]

\* parse_tcp; the options end where the payload starts, mark keeps where that ends.
Tcp ==
  /\ layer = "transport" /\ next = 6
  /\ LET data_offset == (Byte(off + 12) \div 16) * 4
     IN  IF end - off < 20 THEN Malformed
         ELSE IF data_offset < 20 \/ data_offset > end - off THEN Malformed
         ELSE /\ layer' = "options" /\ off' = off + 20 /\ end' = off + data_offset /\ mark' = end
              /\ pkt' = [WithPorts("tcp") EXCEPT !.flags = (Byte(off + 12) % 2) * 256 + Byte(off + 13),
                                                 !.options = Some(NoOptions)]
              /\ UNCHANGED next

Udp ==
  /\ layer = "transport" /\ next = 17
  /\ IF end - off < 8 THEN Malformed
     ELSE IF U16(off + 4) < 8 \/ U16(off + 4) > end - off THEN Malformed
     ELSE Go("app", off + 8, off + U16(off + 4), 0, WithPorts("udp"))

\* Ether types and protocols that parse_ethernet_payload and parse_transport do not know.
OtherProtocol == (layer = "other" \/ (layer = "transport" /\ next \notin {1, 6, 17, 58})) /\ Stop(pkt)

FrameStep == Undetected \/ Ethernet \/ Ipv4 \/ Ipv6 \/ Extension \/ Arp \/ Tcp \/ Udp \/ OtherProtocol
=============================================================================
