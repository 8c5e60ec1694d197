---------------------------- MODULE Applications ----------------------------
(***************************************************************************)
(* What parse_packet reads inside IP (src/src/parser.rs): TCP options,     *)
(* ICMP, and by port number DNS and DHCP.  Options, questions, answers and *)
(* DHCP options are walked one per step.  mark is the end of the TCP       *)
(* payload while options are read, and the start of the DNS message while  *)
(* it is read, since its names count from there.                           *)
(***************************************************************************)
EXTENDS Frames, Sequences

CONSTANT MaxVisited \* labels and pointers of a name that are followed, 128 in the code

ASSUME VisitedAssumption == MaxVisited \in Nat

----------------------------------------------------------------------------
(* parse_tcp_options.                                                      *)

Kind == Byte(off)
OptionLen == Byte(off + 1)
Remaining == end - off

\* The pairs of edges in a SACK option that is all there.
SackBlocks ==
  IF Remaining >= 2 /\ OptionLen \in 2 .. Remaining
  THEN [i \in 1 .. (OptionLen - 2) \div 8 |-> Slice(off + 8 * i - 6, 8)] ELSE <<>>

\* What an option sets; its own length is not looked at here, save for SACK.
Set(options) ==
  CASE Kind = 2 /\ Remaining >= 4 -> [options EXCEPT !.mss = Some(U16(off + 2))]
    [] Kind = 3 /\ Remaining >= 3 -> [options EXCEPT !.window_scale = Some(Byte(off + 2))]
    [] Kind = 4 -> [options EXCEPT !.sack_permitted = TRUE]
    [] Kind = 5 -> [options EXCEPT !.sack_blocks = @ \o SackBlocks]
    [] Kind = 8 /\ Remaining >= 10 -> [options EXCEPT !.timestamp = Some(Slice(off + 2, 8))]
    [] OTHER -> options

\* The payload is handed to parse_app_layer.
OptionsDone(p) == Go("app", end, mark, 0, p)

\* One turn of the loop.
TcpOption ==
  /\ layer = "options"
  /\ IF Remaining = 0 THEN OptionsDone(pkt)
     ELSE IF Kind = 0 THEN OptionsDone(pkt)
     ELSE IF Kind = 1 THEN Go("options", off + 1, end, 0, pkt)
     ELSE LET p == [pkt EXCEPT !.options = {Set(o) : o \in @}]
          IN  IF Remaining >= 2 /\ OptionLen \in 2 .. Remaining
              THEN Go("options", off + OptionLen, end, 0, p)
              ELSE OptionsDone(p)

----------------------------------------------------------------------------
(* parse_icmp, for both versions.                                          *)

\* Two bytes at a place, if the message has eight for the types that carry them.
IcmpWord(types, at) == IF Byte(off) \in types /\ Remaining >= 8 THEN Some(U16(off + at)) ELSE None

Icmp ==
  /\ layer = "transport" /\ next \in {1, 58}
  /\ IF Remaining < 4 THEN Malformed
     ELSE Stop([pkt EXCEPT !.transport = "icmp", !.icmp = Some(
            [icmp_type |-> Byte(off), icmp_code |-> Byte(off + 1),
             identifier |-> IcmpWord({0, 8, 128, 129}, 4),
             sequence_number |-> IcmpWord({0, 8, 128, 129}, 6),
             mtu |-> IF Byte(off) = 3 /\ Byte(off + 1) # 4 THEN None ELSE IcmpWord({2, 3}, 6),
             embedded_header |-> IF Byte(off) \in {3, 11} /\ Remaining > 8
                                 THEN Some(Slice(off + 8, Lesser(Remaining - 8, 28))) ELSE None])])

----------------------------------------------------------------------------
(* parse_app_layer and parse_dns.                                          *)

IsDns == 53 \in {pkt.src_port, pkt.dst_port}
IsDhcp == {pkt.src_port, pkt.dst_port} = {67, 68}

OtherApplication == layer = "app" /\ ~ IsDns /\ ~ IsDhcp /\ Stop(pkt)

Dns ==
  /\ layer = "app" /\ IsDns
  /\ IF Remaining < 12 THEN Stop(pkt)
     ELSE /\ layer' = "questions" /\ off' = off + 12 /\ next' = U16(off + 4) /\ mark' = off
          /\ pkt' = [pkt EXCEPT !.app = Some([transaction_id |-> U16(off), flags |-> U16(off + 2),
                                              query |-> None, answers |-> <<>>])]
          /\ UNCHANGED end

\* Variant: the end moves on behind a pointer.
EndOffsetFollowing(jumped, e, o) == o

\* Where a name ends does not change any more once a pointer was followed.
EndOffset(jumped, e, o) == IF jumped THEN e ELSE o

\* Where the reading of a name stands, and where the name ends as far as it was read.
Reading == [offset : Nat, jumped : BOOLEAN, end_offset : Nat, visited : Nat]

\* What is left of the name, with the offset behind it: one turn of the loop, and read for the turns
\* to come.  A pointer leads back from where it stands.  Labels and pointers together are at most
\* MaxVisited, which is what ends the reading of a name that leads back to itself.
NameFrom(read, r) ==
  LET o == r.offset
      len == end - mark
      at(i) == Byte(mark + i)
      ptr == (at(o) - \hC0) * 256 + at(o + 1)
      behind == o + 1 + at(o)
      name(e) == Some([labels |-> <<>>, end_offset |-> e])
      EndAt(i) == EndOffset(r.jumped, r.end_offset, i)
  IN  IF o >= len \/ r.visited >= MaxVisited THEN name(r.end_offset)
      ELSE IF at(o) = 0 THEN name(EndAt(o + 1))
      ELSE IF at(o) >= \hC0
      THEN IF o + 2 > len THEN None
           ELSE IF ptr >= o THEN None
           ELSE read[[offset |-> ptr, jumped |-> TRUE, end_offset |-> EndAt(o + 2), visited |-> r.visited + 1]]
      ELSE IF behind > len THEN None
      ELSE {[n EXCEPT !.labels = <<Slice(mark + o + 1, at(o))>> \o @] :
              n \in read[[offset |-> behind, jumped |-> r.jumped, end_offset |-> EndAt(behind),
                          visited |-> r.visited + 1]]}

ReadName[r \in Reading] == NameFrom(ReadName, r)

\* The labels of the name at an offset of the message and the offset behind it.
ParseDnsName(start) ==
  ReadName[[offset |-> start, jumped |-> FALSE, end_offset |-> start, visited |-> 0]]

\* The name at off, if it is sound and so many bytes follow; the offset behind it.
NameAt(bytes) == {n \in ParseDnsName(off - mark) : mark + n.end_offset + bytes <= end}
Behind(n) == mark + n.end_offset

AnswerCount == Byte(mark + 6) * 256 + Byte(mark + 7)
QuestionsDone == Go("answers", off, end, AnswerCount, pkt)

\* One turn of the loop over the questions; only the first is kept.
Question ==
  /\ layer = "questions"
  /\ IF next = 0 \/ NameAt(4) = None THEN QuestionsDone
     ELSE \E n \in NameAt(4) :
            Go("questions", Behind(n) + 4, end, next - 1,
               [pkt EXCEPT !.app = {[dns EXCEPT !.query =
                  IF @ = None THEN Some([name |-> n.labels, qtype |-> U16(Behind(n))]) ELSE @] : dns \in @}])

\* One turn of the loop over the answers.
Answer ==
  /\ layer = "answers"
  /\ IF next = 0 \/ NameAt(10) = None THEN Stop(pkt)
     ELSE \E n \in NameAt(10) :
            LET rdata == Behind(n) + 10
                rdlen == U16(Behind(n) + 8)
            IN  IF rdata + rdlen > end THEN Stop(pkt)
                ELSE Go("answers", rdata + rdlen, end, next - 1,
                        [pkt EXCEPT !.app = {[dns EXCEPT !.answers =
                           Append(@, [name |-> n.labels, rtype |-> U16(Behind(n)), rdata |-> Slice(rdata, rdlen)])]
                           : dns \in @}])

----------------------------------------------------------------------------
(* parse_dhcp.                                                             *)

Magic == <<\h63, \h82, \h53, \h63>>

\* The options that are kept, with the least length of their data: host name, lease time, message
\* type, server, parameter list, renewal time, vendor class.
DhcpOptions == [t \in {12, 51, 53, 54, 55, 58, 60} |->
                  CASE t \in {12, 55, 60} -> 0 [] t = 53 -> 1 [] OTHER -> 4]

Dhcp ==
  /\ layer = "app" /\ ~ IsDns /\ IsDhcp
  /\ IF Remaining < 240 \/ \E k \in 1 .. 4 : Byte(off + 235 + k) # Magic[k] THEN Stop(pkt)
     ELSE Go("dhcp", off + 240, end, 0,
             [pkt EXCEPT !.app = Some([client_ip |-> Address(off + 12), your_ip |-> Address(off + 16),
                                       client_mac |-> Mac(off + 28), options |-> <<>>])])

WithOption(dhcp) ==
  IF Kind \in DOMAIN DhcpOptions /\ OptionLen >= DhcpOptions[Kind]
  THEN [dhcp EXCEPT !.options = [t \in DOMAIN @ \cup {Kind} |->
                                   IF t = Kind THEN Slice(off + 2, OptionLen) ELSE @[t]]]
  ELSE dhcp

\* One turn of the loop: 255 ends the options, 0 is padding without a length.
DhcpOption ==
  /\ layer = "dhcp"
  /\ IF Remaining = 0 THEN Stop(pkt)
     ELSE IF Kind = 255 THEN Stop(pkt)
     ELSE IF Kind = 0 THEN Go("dhcp", off + 1, end, 0, pkt)
     ELSE IF Remaining < 2 \/ Remaining < 2 + OptionLen THEN Stop(pkt)
     ELSE Go("dhcp", off + 2 + OptionLen, end, 0, [pkt EXCEPT !.app = {WithOption(d) : d \in @}])

ApplicationStep == TcpOption \/ Icmp \/ OtherApplication \/ Dns \/ Question \/ Answer \/ Dhcp \/ DhcpOption
=============================================================================
