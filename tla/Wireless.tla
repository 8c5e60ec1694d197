------------------------------ MODULE Wireless ------------------------------
(***************************************************************************)
(* The radiotap header, 802.11 frames with their information elements, and *)
(* EAPOL, as parse_packet reads them (src/src/parser.rs).  The elements of *)
(* a management frame are walked one per step, from off to end.            *)
(***************************************************************************)
EXTENDS Frames, Sequences

----------------------------------------------------------------------------
(* parse_radiotap.                                                         *)

\* Size and alignment of the fields with presence bits 0 to 22.
FieldSize == <<8, 1, 1, 4, 2, 1, 1, 2, 2, 2, 1, 1, 1, 1, 2, 2, 1, 1, 8, 3, 8, 12, 12>>
FieldAlign == <<8, 1, 1, 2, 1, 1, 1, 2, 2, 2, 1, 1, 1, 1, 2, 2, 1, 1, 4, 1, 4, 2, 8>>
Fields == 0 .. 22

\* The fields whose values are kept, with the bytes that must be there.
FieldNeeds == [f \in {2, 3, 5, 6, 10, 11, 14, 19, 22} |->
                 CASE f = 3 -> 4 [] f = 14 -> 2 [] f = 19 -> 3 [] f = 22 -> 8 [] OTHER -> 1]

HeaderLen == U16le(2)
HasRadiotap == Size >= 8 /\ data[0] = 0 /\ HeaderLen \in 8 .. Size

\* The presence words chain as long as bit 31 is set; only the first selects fields.
Continues(word) == Bit(Byte(4 * word + 3), 7)
PresenceWords ==
  CHOOSE n \in 1 .. HeaderLen \div 4 - 1 :
    /\ \A i \in 1 .. n - 1 : Continues(i)
    /\ n = HeaderLen \div 4 - 1 \/ ~ Continues(n)
Present(f) == Bit(Byte(4 + f \div 8), f % 8)

\* Variant: alignment counts from the first field.
AlignFromFields(o, a) == LET first == 4 + 4 * PresenceWords IN first + ((o - first + a - 1) \div a) * a

Align(o, a) == ((o + a - 1) \div a) * a
Skip(o, n) == IF o + n <= HeaderLen THEN o + n ELSE HeaderLen

\* Where reading stands before the field f, and where the field starts if it is present.
Reached ==
  LET reached[f \in 0 .. 23] ==
        IF f = 0 THEN 4 + 4 * PresenceWords
        ELSE LET before == reached[f - 1]
                 start == Align(before, FieldAlign[f])
             IN  IF Present(f - 1) THEN Skip(start, FieldSize[f]) ELSE before
  IN  reached
FieldStart == LET reached == Reached IN [f \in Fields |-> Align(reached[f], FieldAlign[f + 1])]

\* The RadiotapInfo: the bytes of each field that is kept.
RadiotapInfo ==
  LET start == FieldStart
      read == {f \in DOMAIN FieldNeeds : Present(f) /\ start[f] + FieldNeeds[f] <= HeaderLen}
  IN  [f \in read |-> Slice(start[f], FieldNeeds[f])]

Signed(b) == IF b >= 128 THEN b - 256 ELSE b

\* The header gives the packet signal strength and channel; an 802.11 frame must follow.
Radiotap ==
  /\ layer = "link" /\ LinkType = "radiotap"
  /\ IF ~ HasRadiotap THEN Malformed
     ELSE LET info == RadiotapInfo
              p == [pkt EXCEPT
                      !.signal_dbm = IF 5 \in DOMAIN info THEN Some(Signed(info[5][0])) ELSE None,
                      !.channel = IF 3 \in DOMAIN info THEN Some(info[3][0] + 256 * info[3][1]) ELSE None]
          IN  IF HeaderLen < Size THEN Go("802.11", HeaderLen, Size, 0, p)
              ELSE Stop([p EXCEPT !.malformed = TRUE])

Wifi == layer = "link" /\ LinkType = "wifi" /\ Go("802.11", 0, Size, 0, pkt)

----------------------------------------------------------------------------
(* parse_80211_frame.                                                      *)

Length == end - off
FrameType == (Byte(off) \div 4) % 4
Subtype == Byte(off) \div 16
ToDs == Bit(Byte(off + 1), 0)
FromDs == Bit(Byte(off + 1), 1)
Protected == Bit(Byte(off + 1), 6)
Order == Bit(Byte(off + 1), 7)

BaseEnd == IF ToDs /\ FromDs /\ Length >= 30 THEN 30 ELSE 24
HasQos == FrameType = 2 /\ Subtype >= 8 /\ Length >= BaseEnd + 2
HasHt == Order /\ HasQos /\ Length >= BaseEnd + 6

DataHeader == BaseEnd + (IF HasQos THEN 2 ELSE 0) + (IF HasHt THEN 4 ELSE 0)

\* Who sends, who receives and whose network it is depends on the way of the frame through the
\* distribution system; the fourth address is there only if the frame is long enough.
Addressed ==
  LET addr1 == Mac(off + 4)
      addr2 == Mac(off + 10)
      addr3 == Mac(off + 16)
      as(src, dst, bssid) == [pkt EXCEPT !.src_mac = src, !.dst_mac = dst, !.bssid = Some(bssid)]
  IN  CASE ToDs /\ ~ FromDs -> as(addr2, addr3, addr1)
        [] ~ ToDs /\ FromDs -> as(addr3, addr1, addr2)
        [] ToDs /\ FromDs /\ Length >= 30 -> as(Mac(off + 24), addr3, addr1)
        [] OTHER -> as(addr2, addr1, addr3)

Dot11 == [Addressed EXCEPT !.wifi_header =
            Some([frame_type |-> FrameType, frame_subtype |-> Subtype, protected |-> Protected])]

Short80211 == layer = "802.11" /\ Length < 24 /\ Malformed

\* A data frame that is not encrypted and starts with the LLC/SNAP header AA AA.
WifiData ==
  /\ layer = "802.11" /\ Length >= 24 /\ FrameType = 2
  /\ LET o == off + DataHeader
     IN  IF ~ Protected /\ end - o >= 8 /\ Byte(o) = \hAA /\ Byte(o + 1) = \hAA
         THEN Go(Layer(U16(o + 6)), o + 8, end, U16(o + 6), Dot11)
         ELSE Stop(Dot11)

WifiControl == layer = "802.11" /\ Length >= 24 /\ FrameType \in {1, 3} /\ Stop(Dot11)

----------------------------------------------------------------------------
(* Management frames.                                                      *)

\* Where the information elements of a body start, for the subtypes that have some.
TagOffset == [s \in {0, 1, 2, 3, 4, 5, 8} |->
                CASE s = 0 -> 4 [] s \in {1, 3} -> 6 [] s = 2 -> 10 [] s = 4 -> 0 [] OTHER -> 12]

\* The two bytes at a place of the body, if the body has all of its fixed part.
Fixed(subtypes, part, at) ==
  IF Subtype \in subtypes /\ Length - 24 >= part THEN Some(U16le(off + 24 + at)) ELSE None

ClientMac == IF Subtype \in {0, 2, 4, 5, 10, 11} THEN Some(Dot11.src_mac)
             ELSE IF Subtype = 12 THEN Some(Dot11.dst_mac) ELSE None

\* The frame before its elements are read.  known holds the data of the last element of each
\* type that is kept, vendor_ies all vendor specific ones.
Mgmt ==
  [subtype |-> Subtype, client_mac |-> ClientMac,
   capability_info |-> Fixed({0, 2}, 2, 0) \cup Fixed({1, 3}, 6, 0) \cup Fixed({5, 8}, 12, 10),
   beacon_interval |-> Fixed({5, 8}, 12, 8),
   reason_code |-> Fixed({10, 12}, 2, 0),
   status_code |-> Fixed({1, 3}, 6, 2) \cup Fixed({11}, 6, 4),
   known |-> <<>>, rsn_info |-> None, vendor_ies |-> <<>>]

WifiMgmt ==
  /\ layer = "802.11" /\ Length >= 24 /\ FrameType = 0
  /\ LET p == [Dot11 EXCEPT !.wifi_mgmt = Some(Mgmt)]
     IN  IF Subtype \in DOMAIN TagOffset /\ Length - 24 >= TagOffset[Subtype]
         THEN Go("elements", off + 24 + TagOffset[Subtype], end, Subtype, p)
         ELSE Stop(p)

\* The least length of the elements that are kept: SSID, rates, channel, TIM, country, ERP, HT
\* capabilities, extended rates, HT operation, VHT capabilities.
Known == [t \in {0, 1, 3, 5, 7, 42, 45, 50, 61, 191} |->
            CASE t \in {0, 1, 50} -> 0 [] t \in {3, 42, 61} -> 1 [] t = 45 -> 2 [] t = 7 -> 3 [] OTHER -> 4]

\* The suites of a list, as many as it announces and the element has.
Suites(at, e, count) == [i \in 1 .. Lesser(count, (e - at) \div 4) |-> Slice(at + 4 * (i - 1), 4)]

\* parse_rsn_ie on the element data from o to e: the pairwise list starts at 8, the list of
\* key managements two bytes behind its end, the capabilities follow.
ParseRsn(o, e) ==
  LET pairwise == IF e - o < 8 THEN <<>> ELSE Suites(o + 8, e, U16le(o + 6))
      a == o + 8 + 4 * Len(pairwise)
      akm == IF e - a < 2 THEN <<>> ELSE Suites(a + 2, e, U16le(a))
      c == a + 2 + 4 * Len(akm)
  IN  IF e - o < 6 \/ U16le(o) # 1 THEN None
      ELSE Some([group_cipher |-> Slice(o + 2, 4), pairwise_ciphers |-> pairwise, akm_suites |-> akm,
                 capabilities |-> IF e - c >= 2 THEN Some(U16le(c)) ELSE None])

IeLen == Byte(off + 1)

\* What an element adds to the frame.
Stored(mgmt) ==
  LET t == Byte(off)
      ie_data == Slice(off + 2, IeLen)
  IN  IF t = 48 THEN [mgmt EXCEPT !.rsn_info = ParseRsn(off + 2, off + 2 + IeLen)]
      ELSE IF t = 221 /\ IeLen >= 4 THEN [mgmt EXCEPT !.vendor_ies = Append(@, ie_data)]
      ELSE IF t \in DOMAIN Known /\ IeLen >= Known[t]
      THEN [mgmt EXCEPT !.known = [k \in DOMAIN @ \cup {t} |-> IF k = t THEN ie_data ELSE @[k]]]
      ELSE mgmt

\* Variant: the length byte is taken to count the two bytes of the header.
ElementShort ==
  /\ layer = "elements"
  /\ IF off + 2 <= end /\ off + 2 + IeLen <= end
     THEN Go("elements", off + IeLen, end, next, [pkt EXCEPT !.wifi_mgmt = {Stored(m) : m \in @}])
     ELSE Stop(pkt)

\* One turn of the loop of parse_wifi_ies.
Element ==
  /\ layer = "elements"
  /\ IF off + 2 <= end /\ off + 2 + IeLen <= end
     THEN Go("elements", off + 2 + IeLen, end, next, [pkt EXCEPT !.wifi_mgmt = {Stored(m) : m \in @}])
     ELSE Stop(pkt)

----------------------------------------------------------------------------
(* parse_eapol.                                                            *)

\* Only key messages are kept; key data that is not all there is taken for none.
Eapol ==
  /\ layer = "eapol"
  /\ IF Length < 4 THEN Malformed
     ELSE IF 4 + U16(off + 2) > Length THEN Malformed
     ELSE LET body == off + 4
              n == U16(off + 2)
              key_data_len == U16(body + 95)
          IN  IF Byte(off + 1) = 3 /\ n >= 97
              THEN Stop([pkt EXCEPT !.app = Some(
                     [key_info |-> U16(body + 1), replay_counter |-> Slice(body + 9, 8),
                      key_nonce |-> Slice(body + 17, 32), mic |-> Slice(body + 77, 16),
                      raw_key_data |-> IF 97 + key_data_len <= n THEN Slice(body + 97, key_data_len) ELSE <<>>])])
              ELSE Stop(pkt)

WirelessStep == Radiotap \/ Wifi \/ Short80211 \/ WifiData \/ WifiControl \/ WifiMgmt \/ Element \/ Eapol
=============================================================================
