------------------------------ MODULE MCFrames ------------------------------
(***************************************************************************)
(* Frames for TLC: headers with sound and unsound fields, cut off          *)
(* anywhere, and frames made from what they are meant to say.              *)
(***************************************************************************)
EXTENDS ParsePacket, SequencesExt

Zeros(n) == [i \in 1 .. n |-> 0]
Bytes16(n) == <<n \div 256, n % 256>>

\* The two MAC addresses: first byte of the first, fourth byte of the second.
Macs(d, s) == <<d>> \o Zeros(8) \o <<s, 0, 0>>

Tags == {<<>>, <<\h81, 0, 0, 5>>, <<\h88, \hA8, 0, 7, \h81, 0, 0, 5>>}

UdpHeader(length) == <<0, 1, 0, 2>> \o Bytes16(length) \o <<0, 0>>
TcpHeader(data_offset) == <<0, 3, 0, 4>> \o Zeros(8) \o <<data_offset * 16>> \o Zeros(7)
Transports == {UdpHeader(l) : l \in {7, 8, 9, 30}} \cup {TcpHeader(o) : o \in {4, 5, 6}}

IPv4Header(first, total, protocol) ==
  <<first, 0>> \o Bytes16(total) \o Zeros(5) \o <<protocol, 0, 0>> \o <<10, 0, 0, 1, 10, 0, 0, 2>>

IPv4Packets ==
  {IPv4Header(first, total, protocol) \o t :
     first \in {\h44, \h45, \h46, \h65}, total \in {0, 20, 28, 40, 60}, protocol \in {1, 6, 17}, t \in Transports}

IPv6Header(length, next_header) == <<\h60, 0, 0, 0>> \o Bytes16(length) \o <<next_header, 64>> \o Zeros(32)
ExtensionHeader(next_header, length) == <<next_header, length>> \o Zeros(6)

IPv6Packets ==
  {IPv6Header(length, 0) \o ExtensionHeader(n1, l) \o ExtensionHeader(n2, 0) \o UdpHeader(8) :
     length \in {0, 9, 24, 60}, n1 \in {44, 17}, n2 \in {17, 6, 60}, l \in {0, 1, 255}}

ArpPackets == {<<0, hw, 8, 0, 6, 4, 0, 1>> \o Zeros(6) \o <<10, 0, 0, 1>> \o Zeros(6) \o <<10, 0, 0, 2>> : hw \in {1, 6}}

Payloads == {<<8, 0>> \o p : p \in IPv4Packets} \cup {<<\h86, \hDD>> \o p : p \in IPv6Packets}
            \cup {<<8, 6>> \o p : p \in ArpPackets} \cup {<<\h88, \hCC, 1>>}

\* The first n bytes of a sequence, indexed from 0.
Cut(s, n) == [i \in 0 .. Lesser(Len(s), n) - 1 |-> s[i + 1]]
Whole(s) == Cut(s, Len(s))

Cuts == {0, 1, 13, 14, 17, 20, 33, 36, 38, 41, 42, 54, 62, 100}

Meaningless == [kind |-> "none"]
Captured(hardware, bytes, n, meant_) == [hardware |-> hardware, data |-> Cut(bytes, n), meant |-> meant_]

CutFrames(tag, n) == {Captured(None, Macs(\h45, 17) \o tag \o p, n, Meaningless) : p \in Payloads}
UndetectedFrames == {Captured(Some(65534), Macs(d, 17) \o p, n, Meaningless) : d \in {0, 2}, p \in Payloads, n \in {7, 13, 42}}

----------------------------------------------------------------------------
(* Packets without a link header.                                          *)

Ports == <<0, 1, 0, 2>>
RawFrames ==
  {Captured(Some(65534), <<64 + words, 0, 0, 28>> \o Zeros(5) \o <<17, 0, 0>> \o src \o <<10, 0, 0, 2>>
                         \o Zeros(4 * words - 20) \o UdpHeader(8), 100,
            [kind |-> "raw", key |-> [key |-> TRUE, src_ip |-> Whole(src), src_port |-> 1,
                                      dst_ip |-> Whole(<<10, 0, 0, 2>>), dst_port |-> 2]]) :
     src \in {<<8, 0, 0, 1>>, <<8, 1, 0, 1>>, <<7, 0, 0, 1>>}, words \in {5, 6, 15}}

----------------------------------------------------------------------------
(* Radiotap headers: the fields of a set, each of bytes that name it.      *)

Padding(n, a) == (-n) % a
FieldBytes(f) == [i \in 1 .. FieldSize[f + 1] |-> 10 * f + i]
\* A header so far, as bytes and as the place of each field, with one more field.
WithField(f, header) ==
  LET start == Len(header.bytes) + Padding(Len(header.bytes), FieldAlign[f + 1])
  IN  [bytes |-> header.bytes \o Zeros(start - Len(header.bytes)) \o FieldBytes(f),
       start |-> [k \in DOMAIN header.start \cup {f} |-> IF k = f THEN start ELSE header.start[k]]]

PresenceByte(present, k) ==
  FoldSet(LAMBDA f, sum : sum + 2 ^ (f % 8), 0, {f \in present : f \div 8 = k})

\* words presence words, of which those after the first only select extensions.
RadiotapHeader(present, words) ==
  LET more(k) == IF k < words THEN 128 ELSE 0
      first == [i \in 1 .. 4 |-> PresenceByte(present, i - 1) + (IF i = 4 THEN more(1) ELSE 0)]
      others == FlattenSeq([i \in 1 .. words - 1 |-> <<255, 0, 0, more(i + 1)>>])
  IN  FoldLeft(LAMBDA header, f : WithField(f, header),
               [bytes |-> Zeros(4) \o first \o others, start |-> <<>>], SetToSortSeq(present, <))

\* The header with its fields cut off by so many bytes, before an 802.11 acknowledgement.
RadiotapFrame(present, words, lost) ==
  LET header == RadiotapHeader(present, words)
      n == Max({Len(header.bytes) - lost, 4 + 4 * words})
      kept == {f \in present \cap DOMAIN FieldNeeds : header.start[f] + FieldNeeds[f] <= n}
  IN  Captured(Some(803), <<0, 0, n, 0>> \o SubSeq(header.bytes, 5, n) \o <<\hD4, 0>> \o Zeros(22), 200,
               [kind |-> "radiotap", fields |-> [f \in kept |-> Cut(FieldBytes(f), FieldNeeds[f])]])

RadiotapFrames ==
  {RadiotapFrame(present, words, lost) :
     present \in {s \cup {0} : s \in SUBSET {1, 2, 3, 5, 14}} \cup SUBSET {1, 3, 11, 19, 20, 22},
     words \in 1 .. 3, lost \in {0, 1, 4}}
\* Headers whose length is wrong, and one behind which there is nothing.
BadRadiotap == {Captured(Some(h), <<0, 0, n, 0>> \o Zeros(8), 12, Meaningless) : h \in {803, 65534}, n \in {7, 8, 12, 13}}
               \cup {Captured(Some(803), <<1>> \o Zeros(30), 31, Meaningless)}

----------------------------------------------------------------------------
(* 802.11.                                                                 *)

Dot11Header(type, subtype, bits) == <<subtype * 16 + type * 4, bits>> \o Zeros(22)
Snap == <<\hAA, \hAA, 3, 0, 0, 0>>
DataFrames ==
  {Captured(Some(801), Dot11Header(2, subtype, bits) \o Zeros(pad) \o Snap \o <<8, 0>> \o IPv4Header(\h45, 28, 17) \o UdpHeader(8), n, Meaningless) :
     subtype \in {0, 8}, bits \in {0, 1, 2, 3, \h40, \h80, \h83}, pad \in {0, 2, 6, 8, 12}, n \in {23, 24, 26, 29, 36, 100}}

Element1(t, body) == <<t, Len(body)>> \o body

\* An RSN element of at most n bytes, and what it says as far as it goes.
RsnBody(pairwise, akm) ==
  <<1, 0, 0, 15, 172, 4, pairwise, 0>> \o FlattenSeq([i \in 1 .. pairwise |-> <<0, 15, 172, 3 + i>>])
  \o <<akm, 0>> \o FlattenSeq([i \in 1 .. akm |-> <<0, 15, 172, 7 + i>>]) \o <<12, 0>>
RsnMeant(pairwise, akm, n) ==
  IF n < 6 THEN None
  ELSE Some([group_cipher |-> Whole(<<0, 15, 172, 4>>),
             pairwise_ciphers |-> [i \in {j \in 1 .. pairwise : 8 + 4 * j <= n} |-> Whole(<<0, 15, 172, 3 + i>>)],
             akm_suites |-> [i \in {j \in 1 .. akm : 10 + 4 * pairwise + 4 * j <= n} |-> Whole(<<0, 15, 172, 7 + i>>)],
             capabilities |-> IF 12 + 4 * pairwise + 4 * akm <= n THEN Some(12) ELSE None])

\* A beacon or another management frame with these elements, cut after n bytes of them.
MgmtFrame(subtype, elements, n, meant_) ==
  Captured(Some(801), Dot11Header(0, subtype, 0) \o Zeros(TagOffset[subtype]) \o elements,
           24 + TagOffset[subtype] + n, meant_)

\* Numbers of suites, and a length; not one that leaves two bytes of a key management suite,
\* which are read as the capabilities.
Rsns == {r \in (0 .. 2) \X (0 .. 2) \X (0 .. 28) :
           LET akm == r[3] - 10 - 4 * r[1]
           IN  akm <= 4 * r[2] + 2 /\ (akm \in 0 .. 4 * r[2] => akm % 4 < 2)}
RsnFrames ==
  {MgmtFrame(8, Element1(48, SubSeq(RsnBody(r[1], r[2]), 1, r[3])), 100,
             [kind |-> "elements", known |-> <<>>, rsn_info |-> RsnMeant(r[1], r[2], r[3]), vendor_ies |-> <<>>]) :
     r \in Rsns}

\* SSID, channel, an empty channel, vendor elements, a TIM too short, one of no interest.
SomeElements == {<<0, <<65>>>>, <<0, <<66, 67>>>>, <<3, <<6>>>>, <<3, <<>>>>, <<221, <<0, 80, 242, 1>>>>,
                 <<221, <<0>>>>, <<5, <<0, 1, 0>>>>, <<99, <<48, 0>>>>}
ElementLists == {es \in BoundedSeq(SomeElements, 3) : IsInjective(es)}
ElementBytes(es) == FlattenSeq([i \in DOMAIN es |-> Element1(es[i][1], es[i][2])])
ElementsMeant(es) ==
  LET body(t) == SelectSeq(es, LAMBDA e : e[1] = t /\ Len(e[2]) >= (IF t = 0 THEN 0 ELSE 1))
      long == SelectSeq(es, LAMBDA e : e[1] = 221 /\ Len(e[2]) >= 4)
  IN  [kind |-> "elements", rsn_info |-> None,
       known |-> [t \in {u \in {0, 3} : body(u) # <<>>} |-> Whole(Last(body(t))[2])],
       vendor_ies |-> [i \in DOMAIN long |-> Whole(long[i][2])]]
ElementFrames(subtype) ==
  {LET sent == ElementBytes(es)
       n == Len(sent) - lost
       there == {k \in 0 .. Len(es) : Len(ElementBytes(SubSeq(es, 1, k))) <= n}
   IN  MgmtFrame(subtype, sent, n, ElementsMeant(SubSeq(es, 1, Max(there)))) :
     es \in ElementLists \ {<<>>}, lost \in 0 .. 2}
OtherMgmt == {Captured(Some(801), Dot11Header(0, subtype, 0) \o Zeros(12), n, Meaningless) :
                subtype \in 0 .. 15, n \in {24, 26, 30, 36}}

EapolKey(n, key_data) == <<1, 3>> \o Bytes16(n) \o <<2, 1, 10>> \o Zeros(92) \o Bytes16(key_data) \o Zeros(8)
EapolFrames == {Captured(None, Macs(2, 17) \o <<\h88, \h8E>> \o EapolKey(n, k), cut, Meaningless) :
                  n \in {96, 97, 105, 106}, k \in {0, 8, 9}, cut \in {17, 18, 119, 200}}

----------------------------------------------------------------------------
(* TCP options and ICMP.                                                   *)

IPv4Frame(protocol, payload) ==
  Macs(2, 17) \o <<8, 0>> \o IPv4Header(\h45, 20 + Len(payload), protocol) \o payload

SomeOptions == {<<1>>, <<2, 4, 5, 180>>, <<3, 3, 7>>, <<4, 2>>, <<5, 10>> \o [i \in 1 .. 8 |-> i],
                <<8, 10>> \o [i \in 1 .. 8 |-> 10 + i], <<99, 3, 8>>}
OptionLists == {os \in BoundedSeq(SomeOptions, 3) : IsInjective(os)}
OptionsMeant(os) ==
  LET sent(k) == \E i \in DOMAIN os : os[i][1] = k
  IN  [mss |-> IF sent(2) THEN Some(5 * 256 + 180) ELSE None,
       window_scale |-> IF sent(3) THEN Some(7) ELSE None,
       sack_permitted |-> sent(4),
       sack_blocks |-> IF sent(5) THEN <<[i \in 0 .. 7 |-> i + 1]>> ELSE <<>>,
       timestamp |-> IF sent(8) THEN Some([i \in 0 .. 7 |-> 11 + i]) ELSE None]
TcpSegment(options, ports) ==
  LET padded == options \o Zeros(Padding(Len(options), 4))
  IN  ports \o Zeros(8) \o <<(5 + Len(padded) \div 4) * 16>> \o Zeros(7) \o padded
TcpFrames ==
  {Captured(None, IPv4Frame(6, TcpSegment(FlattenSeq(os), Ports)), 200, [kind |-> "tcp", options |-> OptionsMeant(os)]) :
     os \in OptionLists}
\* Options that end in the middle or have a length of less than two.
BadTcpFrames == {Captured(None, IPv4Frame(6, TcpSegment(os, Ports)), 200, Meaningless) :
                   os \in {<<1, 1, 1, k>> : k \in {2, 3, 5, 8}} \cup {<<k, l, 1, 1>> : k \in {2, 5, 99}, l \in {0, 1, 5}}}

IcmpFrames == {Captured(None, IPv4Frame(1, <<t, c>> \o Zeros(n)), 200, Meaningless) :
                 t \in {0, 2, 3, 5, 8, 11, 128}, c \in {0, 4}, n \in {1, 2, 6, 7, 50}}

----------------------------------------------------------------------------
(* DNS and DHCP.                                                           *)

UdpFrame(src, dst, payload) ==
  IPv4Frame(17, Bytes16(src) \o Bytes16(dst) \o Bytes16(8 + Len(payload)) \o <<0, 0>> \o payload)

\* Two names, the second below the first; pointers to the first at 12 and to its tail at 14.
LabelA == <<1, 97>>
LabelB == <<2, 98, 99>>
LabelC == <<1, 100>>
Pointer(at) == <<\hC0, at>>
Label(l) == Whole(Tail(l))

\* How the name of an answer is written, and what it is.
AnswerNames ==
  {[bytes |-> LabelA \o LabelB \o <<0>>, name |-> <<Label(LabelA), Label(LabelB)>>],
   [bytes |-> Pointer(12), name |-> <<Label(LabelA), Label(LabelB)>>],
   [bytes |-> Pointer(14), name |-> <<Label(LabelB)>>],
   [bytes |-> LabelC \o Pointer(12), name |-> <<Label(LabelC), Label(LabelA), Label(LabelB)>>],
   [bytes |-> <<0>>, name |-> <<>>]}
AnswerBytes(a, rdlen) == a.bytes \o <<0, 1, 0, 1, 0, 0, 0, 9>> \o Bytes16(rdlen) \o Zeros(rdlen)
DnsHeader(questions, answers) == <<1, 2, 129, 128>> \o Bytes16(questions) \o Bytes16(answers) \o Zeros(4)
QuestionA == LabelA \o LabelB \o <<0, 0, 1, 0, 1>>

\* A message with up to two answers; lost bytes are missing from the last one's end.
DnsFrame(as, rdlen, lost) ==
  LET answers == FlattenSeq([i \in DOMAIN as |-> AnswerBytes(as[i], rdlen)])
      message == DnsHeader(1, Len(as)) \o QuestionA \o SubSeq(answers, 1, Len(answers) - lost)
      read == SubSeq(as, 1, IF lost = 0 THEN Len(as) ELSE Len(as) - 1)
  IN  Captured(None, UdpFrame(53, 1000, message), 200,
               [kind |-> "dns", query |-> [name |-> <<Label(LabelA), Label(LabelB)>>, qtype |-> 1],
                answers |-> [i \in DOMAIN read |-> [name |-> read[i].name, rtype |-> 1, rdata |-> Whole(Zeros(rdlen))]]])
DnsFrames == {DnsFrame(as, rdlen, lost) :
                as \in BoundedSeq(AnswerNames, 2) \ {<<>>}, rdlen \in {0, 4}, lost \in {0, 1}}

\* Names that lead back to themselves or out of the message, counts without records.
BadNames == {LabelA \o Pointer(12), Pointer(12), Pointer(20), LabelA \o <<\hC0>>, <<\h3F, 1>>, LabelA, <<>>}
BadDnsFrames == {Captured(None, UdpFrame(1000, 53, DnsHeader(q, a) \o name \o tail), 200, Meaningless) :
                   q \in {0, 2}, a \in {0, 3}, name \in BadNames, tail \in {<<>>, Zeros(4), Zeros(12)}}
                \cup {Captured(None, UdpFrame(53, 53, Zeros(n)), 200, Meaningless) : n \in {0, 11, 12}}
                \cup {Captured(None, IPv4Frame(6, TcpSegment(<<>>, <<0, 53, 4, 0>>) \o Zeros(n)), 200, Meaningless) : n \in {0, 14}}

SomeDhcp == {<<0>>, <<53, 1, 5>>, <<53, 0>>, <<54, 4, 10, 0, 0, 9>>, <<12, 2, 65, 66>>, <<99, 1, 53>>}
DhcpLists == {os \in BoundedSeq(SomeDhcp, 3) : IsInjective(os)}
DhcpMeant(os) ==
  LET sent(t) == SelectSeq(os, LAMBDA o : o[1] = t /\ (Len(o) > 2 \/ t = 12))
  IN  [t \in {u \in {12, 53, 54} : sent(u) # <<>>} |-> LET o == Last(sent(t)) IN Whole(SubSeq(o, 3, Len(o)))]
DhcpMessage(bytes) == Zeros(236) \o <<\h63, \h82, \h53, \h63>> \o bytes
DhcpFrames ==
  {Captured(None, UdpFrame(67, 68, DhcpMessage(FlattenSeq(os) \o ending)), 400, [kind |-> "dhcp", options |-> DhcpMeant(os)]) :
     os \in DhcpLists, ending \in {<<>>, <<255, 53, 1, 9>>, <<53>>, <<53, 2, 9>>}}
  \cup {Captured(None, UdpFrame(68, 67, SubSeq(DhcpMessage(<<>>), 1, n)), 400, Meaningless) : n \in {10, 239}}

MCFrames ==
  {CutFrames(tag, n) : tag \in Tags, n \in Cuts} \cup {ElementFrames(subtype) : subtype \in {0, 4, 5}}
  \cup {UndetectedFrames, RawFrames, RadiotapFrames, BadRadiotap, DataFrames, RsnFrames, OtherMgmt, EapolFrames,
        TcpFrames, BadTcpFrames, IcmpFrames, DnsFrames, BadDnsFrames, DhcpFrames}
=============================================================================
