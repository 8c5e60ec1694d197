----------------------------- MODULE ParsePacket -----------------------------
(***************************************************************************)
(* parse_packet as a whole (src/src/parser.rs): a frame is read from its   *)
(* link layer up to the application, whatever it contains.                 *)
(***************************************************************************)
EXTENDS Wireless, Applications

\* d is an IPv4 packet of this flow without a link header: its header has so many words of four
\* bytes, and the ports come right behind.
RawPacket(d, key) ==
  \E words \in 5 .. 15 :
    LET t == 4 * words
    IN  /\ d[0] = 64 + words /\ d[9] \in {6, 17} /\ t + 4 <= Cardinality(DOMAIN d)
        /\ key = [key |-> TRUE, src_ip |-> [k \in 0 .. 3 |-> d[12 + k]], src_port |-> d[t] * 256 + d[t + 1],
                  dst_ip |-> [k \in 0 .. 3 |-> d[16 + k]], dst_port |-> d[t + 2] * 256 + d[t + 3]]

\* A frame that is meant as a raw packet is one.
ASSUME RawAssumption ==
  \A family \in InputFrames : \A f \in family : f.meant.kind = "raw" => RawPacket(f.data, f.meant.key)

ParseStep == FrameStep \/ WirelessStep \/ ApplicationStep

Next == ParseStep /\ UNCHANGED <<data, link, meant>>

Spec == Init /\ [][Next]_vars

\* A sequential function that the capture thread runs to its end.
FairSpec == Spec /\ WF_vars(Next)
----------------------------------------------------------------------------
(* Properties.                                                             *)

\* Every slice that one parser function hands to the next lies within the frame, whatever the
\* length fields in the frame say: slicing never panics.  The TCP payload starts where the
\* options end, and a DNS message is read from its start onwards.
SlicesInFrame ==
  /\ 0 <= off /\ off <= end /\ end <= Size
  /\ layer = "options" => end <= mark /\ mark <= Size
  /\ layer \in {"questions", "answers"} => mark + 12 <= off

\* The extension headers, elements, options, questions and answers are walked forwards only,
\* and a name that leads back to itself is given up, so the reading ends.
ReadingEnds == <>(layer = "done")

HasPorts == pkt.transport \in {"tcp", "udp"}
PacketKey == [key |-> TRUE, src_ip |-> pkt.src_ip, src_port |-> pkt.src_port,
              dst_ip |-> pkt.dst_ip, dst_port |-> pkt.dst_port]

\* Engine and flow table see the same flow: an untagged IPv4 frame in which parse_packet finds
\* TCP or UDP ports has the same 4-tuple for parse_flow_key, which reads it on its own.
Ipv4InEthernet == LinkType = "ethernet" /\ Size >= 14 /\ data[12] * 256 + data[13] = IPv4Type
SameFlow == layer = "done" /\ Ipv4InEthernet /\ pkt.network = "ipv4" /\ HasPorts => ParseFlowKey = PacketKey

\* "as well as raw IPv4 headers" (flow_parser.rs:26): a packet without a link header has the flow
\* of its own header, unless its sender's network is 8.0, which reads as the IPv4 ether type.
RawKeyed ==
  meant.kind = "raw" /\ ~ (meant.key.src_ip[0] = 8 /\ meant.key.src_ip[1] = 0)
    => ParseFlowKey = meant.key

\* The radiotap fields are found where the standard puts them, aligned from the start of the
\* header and behind all of its presence words, whichever fields come before; a field that the
\* header has no room for is not read.
RadiotapRead ==
  meant.kind = "radiotap" /\ layer = "link" => HasRadiotap /\ RadiotapInfo = meant.fields

\* The lists in a frame are read back as they were written, up to the place where the frame
\* was cut: information elements with cipher suites, TCP options, DHCP options.
ListsRead ==
  layer = "done" =>
    CASE meant.kind = "elements" ->
           \E m \in pkt.wifi_mgmt :
             m.known = meant.known /\ m.rsn_info = meant.rsn_info /\ m.vendor_ies = meant.vendor_ies
      [] meant.kind = "tcp" -> pkt.options = Some(meant.options)
      [] meant.kind = "dhcp" -> \E dhcp \in pkt.app : dhcp.options = meant.options
      [] OTHER -> TRUE

\* The names of a DNS message are the ones that were written, in full or with pointers to earlier
\* names or to parts of them, and each answer is read from where the one before ends.
NamesRead ==
  layer = "done" /\ meant.kind = "dns" =>
    \E dns \in pkt.app : dns.query = Some(meant.query) /\ dns.answers = meant.answers

\* The comment at main.rs:169 on what parse_flow_key rejects, "Gracefully skip non-IPv4 /
\* non-TCP/UDP / malformed packets": a frame that is no IPv4 packet gets no flow.
NonIpv4Skipped == (layer = "done" /\ pkt.network \in {"ipv6", "arp"}) => ParseFlowKey = NoFlow
=============================================================================
