------------------------------- MODULE Startup -------------------------------
(***************************************************************************)
(* What the program works out before anything runs (src/src/main.rs,       *)
(* src/src/engine.rs): the command line, the address to forward alerts to, *)
(* the rules in force and the sensor's own addresses.  Its results are the *)
(* constants of the other modules.  A value that may be missing is a set   *)
(* of at most one.                                                         *)
(***************************************************************************)
EXTENDS Integers, SequencesExt

CONSTANT WithPort  \* the values of --ip that contain a colon

\* The option an argument names, and the arguments that name one.
Names == [interface |-> {"-i", "--interface"}, ip |-> {"--ip", "--host", "-ip", "-host"},
          port |-> {"--port", "-port", "-p"}, log |-> {"--log", "-l", "--output", "-o"}]
OptionOf(arg) == {o \in DOMAIN Names : arg \in Names[o]}

NoArgs == [interface |-> {}, ip |-> {}, port |-> {}, log |-> {"nids.log"}]

\* One argument, while `awaiting` is the option whose value it is, if any.  An option takes
\* whatever follows it as its value; other arguments are passed over; help ends the program.
ReadArg(line, arg) ==
  IF line.help THEN line
  ELSE IF line.awaiting = {}
  THEN [line EXCEPT !.awaiting = OptionOf(arg), !.help = arg \in {"-h", "--help"}]
  ELSE LET o == CHOOSE o \in line.awaiting : TRUE
           value == IF o = "log" /\ arg \in {"none", "null"} THEN {} ELSE {arg}
       IN  [line EXCEPT !.awaiting = {}, !.options[o] = value]

\* The command line; an option at its end that has no value is passed over.
ReadArgs(args) == FoldLeft(ReadArg, [help |-> FALSE, awaiting |-> {}, options |-> NoArgs], args)

\* Where alerts go.  A port is added to an address that seems to have none.
TargetAddr(options) ==
  {IF ip \in WithPort THEN [addr |-> ip, port |-> {}]
   ELSE [addr |-> ip, port |-> IF options.port = {} THEN {"9999"} ELSE options.port] : ip \in options.ip}

\* The interface the engine takes itself to be on, also when the socket is on all of them.
EngineIface(options) ==
  IF options.interface = {} THEN "wlan0" ELSE CHOOSE i \in options.interface : TRUE

\* rules.json, if it can be read and parsed, without the rules that are not enabled.
LoadedRules(file) == {r.rule : r \in {x \in UNION file : x.enabled}}

\* The addresses of the interface in the list of getifaddrs, which may fail or hold others.
ResolveIfaceIps(ifaddrs, iface) ==
  {a.addr : a \in {x \in UNION ifaddrs : x.name = iface /\ x.family \in {"inet", "inet6"}}}
=============================================================================
