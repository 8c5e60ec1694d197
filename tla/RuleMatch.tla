----------------------------- MODULE RuleMatch -----------------------------
(***************************************************************************)
(* Rule matching (src/src/engine.rs, resolve_* and matches_rule): pure     *)
(* operators on a parsed packet, a rule and the TCP connection table.      *)
(*                                                                         *)
(* A packet is a record of what the engine reads of a ParsedPacket:        *)
(*   network    "ipv4", "ipv6", "arp" or "none"                            *)
(*   src_ip, dst_ip     addresses as text (those of ARP are its sender and *)
(*                      target); src_mac, dst_mac likewise                 *)
(*   transport  "tcp", "udp", "icmp" or "none", with src_port, dst_port    *)
(*   flags      the TCP flags set, a subset of {"SYN","ACK","FIN","RST"}   *)
(*   app        "eapol" or "other"                                         *)
(*   beacon     None or the content of an 802.11 beacon                    *)
(* A rule is a record of the fields of EvaluatedRule that matching and     *)
(* rate checking read; a limit that rules.json leaves out is None.         *)
(***************************************************************************)
EXTENDS Integers, FiniteSets

CONSTANTS
  SelfIps, \* addresses of the sensor's interface
  Iface,   \* the interface's name
  AnyPort, \* a rule's port field that accepts every port
  None

\* Source and destination as the engine names them: the MAC when there is no IP layer.
ResolveSrcIp(pkt) == IF pkt.network = "none" THEN pkt.src_mac ELSE pkt.src_ip
ResolveDstIp(pkt) == IF pkt.network = "none" THEN pkt.dst_mac ELSE pkt.dst_ip

\* One direction of a TCP connection.
ConnKey(pkt) == <<ResolveSrcIp(pkt), pkt.src_port, ResolveDstIp(pkt), pkt.dst_port>>
RevKey(pkt) == <<ResolveDstIp(pkt), pkt.dst_port, ResolveSrcIp(pkt), pkt.src_port>>

IsTcp(pkt) == pkt.transport = "tcp"
IsSyn(pkt) == "SYN" \in pkt.flags /\ "ACK" \notin pkt.flags
IsSynAck(pkt) == {"SYN", "ACK"} \subseteq pkt.flags
IsTeardown(pkt) == "SYN" \notin pkt.flags /\ pkt.flags \cap {"FIN", "RST"} # {}

\* "any", "self" or a literal address.
IpFieldMatches(field, ip) == field = "any" \/ (field = "self" /\ ip \in SelfIps) \/ field = ip

ScopeMatches(rule) == rule.interfaces \cap {"any", Iface} # {}

DirectionMatches(rule, pkt) ==
  /\ rule.direction = "ingress" => ResolveDstIp(pkt) \in SelfIps
  /\ rule.direction = "egress" => ResolveSrcIp(pkt) \in SelfIps

\* Without an IP layer only a rule that names no address passes.  ARP has no version check.
IpMatches(rule, pkt) ==
  /\ pkt.network = "ipv4" => 4 \in rule.ip_version
  /\ pkt.network = "ipv6" => 6 \in rule.ip_version
  /\ IF pkt.network = "none" THEN rule.src_ip = "any" /\ rule.dst_ip = "any"
     ELSE IpFieldMatches(rule.src_ip, pkt.src_ip) /\ IpFieldMatches(rule.dst_ip, pkt.dst_ip)

\* flow.state: "new" looks at the packet, "established" at the connection table.
StateMatches(rule, pkt, conns) ==
  /\ rule.state = "new" => IsTcp(pkt) /\ IsSyn(pkt)
  /\ rule.state = "established" =>
       IsTcp(pkt) /\ ConnKey(pkt) \in DOMAIN conns /\ conns[ConnKey(pkt)].state = "Established"

ServicePorts == [http |-> {80, 8080, 8081}, https |-> {443}, ssh |-> {22},
                 rdp |-> {3389}, smb |-> {445}, ftp |-> {20, 21}]

\* One entry of the rule's protocol list.
Carries(pkt, protocol) ==
  \/ protocol = "any"
  \/ protocol = "arp" /\ pkt.network = "arp"
  \/ protocol = "eapol" /\ pkt.app = "eapol"
  \/ protocol \in {"tcp", "udp"} /\ pkt.transport = protocol
  \/ /\ protocol \in DOMAIN ServicePorts /\ IsTcp(pkt)
     /\ {pkt.src_port, pkt.dst_port} \cap ServicePorts[protocol] # {}

\* The rule's class, if it is one of four, or else its protocol list.
ProtocolMatches(rule, pkt) ==
  \E p \in ({rule.class} \cap {"arp", "eapol", "tcp", "udp"}) \cup rule.protocols : Carries(pkt, p)

PortMatches(val, port) == val \in {AnyPort, port}

PortsMatch(rule, pkt) ==
  pkt.transport \in {"tcp", "udp"} =>
    PortMatches(rule.src_port, pkt.src_port) /\ PortMatches(rule.dst_port, pkt.dst_port)

MatchesRule(rule, pkt, conns) ==
  /\ ScopeMatches(rule) /\ DirectionMatches(rule, pkt) /\ IpMatches(rule, pkt)
  /\ StateMatches(rule, pkt, conns) /\ ProtocolMatches(rule, pkt) /\ PortsMatch(rule, pkt)

\* The sender or receiver a rule counts by: `per` of max_conn_rate, src_ip by default.
ResolveTrackingKey(rule, pkt) ==
  IF rule.connections # None /\ rule.per = "dst_ip" THEN ResolveDstIp(pkt) ELSE ResolveSrcIp(pkt)
=============================================================================
