------------------------------ MODULE MCEngine ------------------------------
(* Small instances of the detection engine: packets, rules and scaled times. *)
EXTENDS EngineClaims, Startup, TLC

\* A packet from one host to another, without a TCP connection or a beacon.
Plain == [network |-> "ipv4", src_ip |-> "h1", dst_ip |-> "me", src_mac |-> "m1",
          dst_mac |-> "m0", transport |-> "none", src_port |-> 0, dst_port |-> 0,
          flags |-> {}, app |-> "other", beacon |-> None]

Tcp(fs) == [Plain EXCEPT !.transport = "tcp", !.src_port = 9, !.dst_port = 22, !.flags = fs]
Reply(fs) == [Tcp(fs) EXCEPT !.src_ip = "me", !.dst_ip = "h1", !.src_mac = "m0", !.dst_mac = "m1",
                             !.src_port = 22, !.dst_port = 9]
Arp(target) == [Plain EXCEPT !.network = "arp", !.dst_ip = target, !.dst_mac = "broadcast"]
Beacon(rsn) == [Plain EXCEPT !.network = "none", !.dst_mac = "broadcast", !.src_mac = "ap",
                             !.beacon = [bssid |-> "ap", ssid |-> "Enterprise_Secure", rsn |-> rsn]]

\* rule3 of rules.json and its neighbours, with smaller numbers.
TcpScan == [id |-> 3, interfaces |-> {"any"}, direction |-> "ingress", src_ip |-> "any",
            dst_ip |-> "any", ip_version |-> {4, 6}, state |-> "new", class |-> "tcp",
            protocols |-> {"tcp"}, src_port |-> AnyPort, dst_port |-> AnyPort, per |-> "src_ip",
            connections |-> 2, interval |-> 3, max_rps |-> 9]
ArpScan == [TcpScan EXCEPT !.id = 5, !.state = "any", !.class = "arp", !.protocols = {"arp"}]
BruteForce == [TcpScan EXCEPT !.id = 2, !.state = "established", !.class = "eapol",
                              !.protocols = {"ssh", "http"}, !.dst_ip = "self"]
AnyTcp == [TcpScan EXCEPT !.id = 6, !.state = "any", !.max_rps = 3, !.connections = 2, !.interval = 2]

\* The program started with -i eth0, on a host with two interfaces.
MCWithPort == {"h3:514"}
MCIface == EngineIface([NoArgs EXCEPT !.interface = {"eth0"}])
MCSelfIps ==
  ResolveIfaceIps({{[name |-> "lo", family |-> "inet", addr |-> "localhost"],
                    [name |-> "eth0", family |-> "packet", addr |-> "m0"],
                    [name |-> "eth0", family |-> "inet", addr |-> "me"]}}, MCIface)

\* rules.json with some rules enabled.
RulesFile(all, enabled) == {{[rule |-> x, enabled |-> x \in enabled] : x \in all}}

\* A reference for the command line: an argument is a value if it follows an option that is
\* not a value itself; the last value of an option counts, up to the first plea for help.
ArgsReference(args) ==
  LET value[i \in 1 .. Len(args)] == i > 1 /\ ~ value[i - 1] /\ OptionOf(args[i - 1]) # {}
      helps == {i \in DOMAIN args : ~ value[i] /\ args[i] \in {"-h", "--help"}}
      ones(o) == {i \in DOMAIN args : /\ value[i] /\ o \in OptionOf(args[i - 1])
                                     /\ \A h \in helps : i < h}
      last(o) == args[CHOOSE i \in ones(o) : \A j \in ones(o) : j <= i]
  IN  [help |-> helps # {},
       options |-> [o \in DOMAIN NoArgs |->
                      IF ones(o) = {} THEN NoArgs[o]
                      ELSE IF o = "log" /\ last(o) = "none" THEN {} ELSE {last(o)}]]

ASSUME ArgsRead ==
  \A n \in 0 .. 4 : \A args \in [1 .. n -> {"-i", "--log", "-h", "none", "eth0"}] :
    LET line == ReadArgs(args)
    IN  [help |-> line.help, options |-> line.options] = ArgsReference(args)

\* Only an address without a port gets one, the one given or else 9999.
ASSUME TargetRead ==
  LET target(args) == TargetAddr(ReadArgs(args).options)
  IN  /\ target(<<"-p", "99">>) = {}
      /\ target(<<"--ip", "h3:514", "-p", "99">>) = {[addr |-> "h3:514", port |-> {}]}
      /\ target(<<"-p", "99", "-host", "h3">>) = {[addr |-> "h3", port |-> {"99"}]}
      /\ target(<<"--ip", "h3", "-p">>) = {[addr |-> "h3", port |-> {"9999"}]}

\* Rates: connection attempts and data of one host, and another packet that moves time on.
RatePackets == {Tcp({"SYN"}), Tcp({"ACK"}), [Plain EXCEPT !.src_mac = "zero"]}
RateRules == LoadedRules(RulesFile({TcpScan, AnyTcp, BruteForce}, {TcpScan, AnyTcp}))

\* One connection in both directions, a beacon and an ARP request, with a rule on established
\* connections and one that counts requests.
ConnPackets == {Tcp({"SYN"}), Tcp({"ACK"}), Tcp({"FIN", "ACK"}), Reply({"SYN", "ACK"}),
                Reply({"RST"}), Beacon(TRUE), Arp("me")}
ConnRules == LoadedRules(RulesFile({TcpScan, BruteForce, ArpScan}, {BruteForce, ArpScan}))

\* For the claim of EngineClaims.
SlowRules == {[TcpScan EXCEPT !.interval = 6]}
=============================================================================
