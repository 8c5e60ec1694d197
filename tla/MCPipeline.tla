---------------------------- MODULE MCPipeline ----------------------------
(* A small instance of Detector: a client and a server on port 22.          *)
EXTENDS Detector

Request == [network |-> "ipv4", src_ip |-> "client", src_port |-> 90, src_mac |-> "m1",
            dst_ip |-> "server", dst_port |-> 22, dst_mac |-> "m2",
            flow |-> <<"client", 90, "server", 22>>,
            transport |-> "tcp", flags |-> {"SYN"}, app |-> "other", beacon |-> None]
Response == [Request EXCEPT !.src_ip = "server", !.src_port = 22, !.src_mac = "m2",
                            !.dst_ip = "client", !.dst_port = 90, !.dst_mac = "m1",
                            !.flow = <<"server", 22, "client", 90>>,
                            !.flags = {"SYN", "ACK"}]
Close == [Request EXCEPT !.flags = {"FIN", "ACK"}]

\* A fragment of the client's flow in which parse_packet finds no ports, and a reset of the
\* connection behind a VLAN tag, in which parse_flow_key finds no flow.
Fragment == [Request EXCEPT !.transport = "none", !.src_port = 0, !.dst_port = 0, !.flags = {}]
Tagged == [Response EXCEPT !.flow = NoKey, !.flags = {"RST"}]

MCHeaders == {Request, Response, Close, Fragment, Tagged}
MCPorts == {0, 22, 90}

\* A rule on the client's connections to the server.
TwoConns == [id |-> 1, interfaces |-> {"any"}, direction |-> "ingress", src_ip |-> "any",
             dst_ip |-> "self", ip_version |-> {4}, state |-> "new", class |-> "tcp",
             protocols |-> {"ssh"}, src_port |-> AnyPort, dst_port |-> AnyPort, per |-> "src_ip",
             connections |-> 2, interval |-> 1, max_rps |-> None]

MCRules == {TwoConns}
MCSelfIps == {"server"}
=============================================================================
