------------------------------ MODULE Reporting ------------------------------
(***************************************************************************)
(* What leaves the program (src/src/main.rs, src/src/pcap_logger.rs).      *)
(*                                                                         *)
(*  - The alert loop takes the engine's alerts from an unbounded channel,  *)
(*    logs each and forwards it over TCP or, when TCP has failed, UDP.     *)
(*    When it ends the program does.                                       *)
(*  - The processor logs a line for each burst and then spawns a task that *)
(*    writes the burst's packets to the log file.                          *)
(*  - The cleanup task logs a line when it has removed flows.              *)
(*                                                                         *)
(* These three share a Logger, which prints a line and then holds its      *)
(* mutex to write the line to the file.  The burst tasks open the file for *)
(* themselves and take no mutex: they run concurrently with each other and *)
(* with the Logger.  The file is opened for appending, so it is the        *)
(* sequence of the pieces that single writes have left in it; every write  *)
(* to it may fail, and these failures are ignored.  A failure to print     *)
(* (standard output is a closed pipe, a full disk) is not: println! panics *)
(* and ends the task that logs.                                            *)
(*                                                                         *)
(* The network is the environment.  A TCP connection that the peer has     *)
(* left accepts some writes until one fails, and then none.  A "line" is   *)
(* what one call logs or sends: an alert is pretty-printed JSON, and as    *)
(* text takes several rows.                                                *)
(***************************************************************************)
EXTENDS Integers, SequencesExt

CONSTANTS
  LogToFile,   \* FALSE with --log none
  Forward,     \* an address to forward to was given
  Entries,     \* packets in a burst, 100 in the code
  None,
  MaxAlerts, MaxBursts, MaxCleanups \* bounds on what happens in a behaviour

ASSUME ReportingAssumption == /\ LogToFile \in BOOLEAN /\ Forward \in BOOLEAN /\ Entries \in Nat
                              /\ MaxAlerts \in Nat /\ MaxBursts \in Nat /\ MaxCleanups \in Nat

VARIABLES
  running,   \* the program has not ended
  generated, \* alerts sent by the capture thread; they are numbered
  channel,   \* tx_alerts / rx_alerts
  lines,     \* lines the processor and the cleanup have begun to log
  stage,     \* of each user of the Logger: what it does next
  message,   \* of each user of the Logger: the line it is about
  lock,      \* holder of the Logger's mutex
  tasks,     \* the log_burst tasks: burst -> pieces already attempted
  file,      \* the log file
  failed,    \* history: the lines of the Logger of which a write has failed
  tcp_stream, udp_socket, \* of the AlertForwarder: whether they are there
  peer,      \* the TCP connection: "up", "down" or, after a failed write, "dead"
  stream,    \* the pieces the TCP connection has accepted
  datagrams  \* the alerts sent by UDP

loggerVars == <<stage, message, lock, failed>>
forwardVars == <<tcp_stream, udp_socket, stream, datagrams>>
vars == <<running, generated, channel, lines, loggerVars, tasks, file, forwardVars, peer>>

Logger == {"alerts", "processor", "cleanup"}
ASSUME NoneAssumption == None \notin Logger

Piece(who, n, part) == [by |-> who, n |-> n, part |-> part, k |-> 0]

\* The pieces of a burst: 0 is the header, Entries + 1 the closing rule.
BurstPieces == 0 .. Entries + 1
BurstPiece(b, k) == [by |-> "burst", n |-> b, part |-> "packet", k |-> k]

----------------------------------------------------------------------------
Init ==
  /\ running = TRUE /\ generated = 0 /\ channel = <<>> /\ lines = [w \in Logger \ {"alerts"} |-> 0]
  /\ stage = [w \in Logger |-> "idle"] /\ message = [w \in Logger |-> None] /\ lock = None
  /\ tasks = [b \in {} |-> 0] /\ file = <<>> /\ failed = {}
  \* AlertForwarder::new: TCP if it connects, or else UDP if a socket can be had.
  /\ tcp_stream \in IF Forward THEN BOOLEAN ELSE {FALSE}
  /\ udp_socket \in IF Forward /\ ~ tcp_stream THEN BOOLEAN ELSE {FALSE}
  /\ peer = (IF tcp_stream THEN "up" ELSE "dead")
  /\ stream = <<>> /\ datagrams = <<>>

\* The capture thread sends an alert of the engine.  The channel refuses none while the loop is
\* there to receive.
SendAlert ==
  /\ generated < MaxAlerts /\ stage["alerts"] # "panicked"
  /\ generated' = generated + 1 /\ channel' = Append(channel, generated')
  /\ UNCHANGED <<lines, loggerVars, tasks, file, forwardVars, peer>>

\* The alert loop receives.
RecvAlert ==
  /\ stage["alerts"] = "idle" /\ channel # <<>>
  /\ channel' = Tail(channel)
  /\ stage' = [stage EXCEPT !["alerts"] = "print"]
  /\ message' = [message EXCEPT !["alerts"] = Head(channel)]
  /\ UNCHANGED <<generated, lines, lock, failed, tasks, file, forwardVars, peer>>

\* The processor has a burst, or the cleanup has removed flows.
BeginLine(w, max) ==
  /\ stage[w] = "idle" /\ lines[w] < max
  /\ lines' = [lines EXCEPT ![w] = @ + 1]
  /\ stage' = [stage EXCEPT ![w] = "print"] /\ message' = [message EXCEPT ![w] = lines'[w]]
  /\ UNCHANGED <<generated, channel, lock, failed, tasks, file, forwardVars, peer>>

BurstDetected == BeginLine("processor", MaxBursts)
FlowsRemoved == BeginLine("cleanup", MaxCleanups)

\* Logger::log prints the line first.  When that fails it panics, and the task ends there,
\* without the mutex and without what it would have done next.
PrintLine(w) ==
  /\ stage[w] = "print"
  /\ \E s \in {"lock", "panicked"} : stage' = [stage EXCEPT ![w] = s]
  /\ UNCHANGED <<generated, channel, lines, message, lock, failed, tasks, file, forwardVars, peer>>

\* What a user does when its line is logged.
AfterLine(w) == CASE w = "alerts" -> "forward" [] w = "processor" -> "spawn" [] OTHER -> "idle"

\* Variant: the mutex is not waited for.
LockFileAnyway(w) ==
  /\ stage[w] = "lock" /\ lock' = w
  /\ stage' = [stage EXCEPT ![w] = "text"]
  /\ UNCHANGED <<generated, channel, lines, message, failed, tasks, file, forwardVars, peer>>

\* The mutex of Logger::log, which is not there without a file.
LockFile(w) ==
  /\ stage[w] = "lock" /\ (LogToFile => lock = None)
  /\ lock' = IF LogToFile THEN w ELSE lock
  /\ stage' = [stage EXCEPT ![w] = IF LogToFile THEN "text" ELSE AfterLine(w)]
  /\ UNCHANGED <<generated, channel, lines, message, failed, tasks, file, forwardVars, peer>>

\* writeln! makes two writes, and no second one when the first fails, which may leave a part
\* of the text.
WriteText(w) ==
  /\ stage[w] = "text"
  /\ \/ /\ file' = Append(file, Piece(w, message[w], "text")) /\ failed' = failed
        /\ stage' = [stage EXCEPT ![w] = "newline"]
     \/ /\ file' \in {file, Append(file, Piece(w, message[w], "part"))}
        /\ failed' = failed \cup {<<w, message[w]>>}
        /\ stage' = [stage EXCEPT ![w] = "unlock"]
  /\ UNCHANGED <<generated, channel, lines, message, lock, tasks, forwardVars, peer>>

WriteNewline(w) ==
  /\ stage[w] = "newline"
  /\ \/ file' = Append(file, Piece(w, message[w], "newline")) /\ failed' = failed
     \/ file' = file /\ failed' = failed \cup {<<w, message[w]>>}
  /\ stage' = [stage EXCEPT ![w] = "unlock"]
  /\ UNCHANGED <<generated, channel, lines, message, lock, tasks, forwardVars, peer>>

\* Variant: the mutex is kept.
UnlockForgotten(w) ==
  /\ stage[w] = "unlock"
  /\ stage' = [stage EXCEPT ![w] = AfterLine(w)]
  /\ UNCHANGED <<generated, channel, lines, message, lock, failed, tasks, file, forwardVars, peer>>

UnlockFile(w) ==
  /\ stage[w] = "unlock"
  /\ lock' = None /\ stage' = [stage EXCEPT ![w] = AfterLine(w)]
  /\ UNCHANGED <<generated, channel, lines, message, failed, tasks, file, forwardVars, peer>>

\* Variant: the task is spawned before the line is logged.
SpawnBurstFirst ==
  /\ stage["processor"] = "print" /\ message["processor"] \notin DOMAIN tasks
  /\ tasks' = [b \in DOMAIN tasks \cup {message["processor"]} |->
                 IF b \in DOMAIN tasks THEN tasks[b] ELSE 0]
  /\ UNCHANGED <<generated, channel, lines, loggerVars, file, forwardVars, peer>>

\* The processor spawns log_burst for the burst it has announced and goes on.
SpawnBurst ==
  /\ stage["processor"] = "spawn"
  /\ tasks' = [b \in DOMAIN tasks \cup {message["processor"]} |->
                 IF b = message["processor"] THEN 0 ELSE tasks[b]]
  /\ stage' = [stage EXCEPT !["processor"] = "idle"]
  /\ UNCHANGED <<generated, channel, lines, message, lock, failed, file, forwardVars, peer>>

\* log_burst: one write after the other, whatever --log says.  A write that fails may leave
\* the piece in part, which is not told from the whole.  A file that does not open ends the task.
WriteBurst(b) ==
  /\ tasks[b] \in BurstPieces
  /\ file' \in {file, Append(file, BurstPiece(b, tasks[b]))}
  /\ tasks' = [tasks EXCEPT ![b] = @ + 1]
  /\ UNCHANGED <<generated, channel, lines, loggerVars, forwardVars, peer>>

OpenFails(b) ==
  /\ tasks[b] = 0
  /\ tasks' = [tasks EXCEPT ![b] = Entries + 2]
  /\ UNCHANGED <<generated, channel, lines, loggerVars, file, forwardVars, peer>>

\* The alert has been dealt with.
Forwarded == /\ stage["alerts"] = "forward" /\ stage' = [stage EXCEPT !["alerts"] = "idle"]
             /\ UNCHANGED <<generated, channel, lines, message, lock, failed, tasks, file>>

\* Variant: a short write counts as success.
SendTcpShort ==
  /\ tcp_stream /\ peer # "dead" /\ Forwarded
  /\ \E part \in {"text", "part"} :
       stream' = stream \o <<Piece("tcp", message["alerts"], part), Piece("tcp", message["alerts"], "newline")>>
  /\ UNCHANGED <<tcp_stream, udp_socket, datagrams, peer>>

\* AlertForwarder::send over TCP: the alert, then a newline whose failure is ignored.
SendTcp ==
  /\ tcp_stream /\ peer # "dead" /\ Forwarded
  /\ LET n == message["alerts"]
         whole == Append(stream, Piece("tcp", n, "text"))
     IN  \/ stream' = Append(whole, Piece("tcp", n, "newline")) /\ peer' = peer
         \/ peer = "down" /\ stream' = whole /\ peer' = "dead"
  /\ UNCHANGED <<tcp_stream, udp_socket, datagrams>>

\* A socket may send a datagram or fail to.
Datagrams(socket) == {datagrams} \cup (IF socket THEN {Append(datagrams, message["alerts"])} ELSE {})

\* A write fails, perhaps after a part of the alert: from now on UDP, if there is a socket.
FallBack ==
  /\ tcp_stream /\ peer # "up" /\ Forwarded
  /\ tcp_stream' = FALSE /\ udp_socket' \in BOOLEAN /\ peer' = "dead"
  /\ stream' \in {stream} \cup (IF peer = "dead" THEN {}
                                ELSE {Append(stream, Piece("tcp", message["alerts"], "part"))})
  /\ datagrams' \in Datagrams(udp_socket')

\* Variant: a datagram is sent also while TCP works.
SendUdpAlways ==
  /\ Forwarded /\ datagrams' \in Datagrams(TRUE)
  /\ UNCHANGED <<tcp_stream, udp_socket, stream, peer>>

\* Without TCP: a datagram, or nothing when there is no socket or no address.
SendUdp ==
  /\ ~ tcp_stream /\ Forwarded
  /\ datagrams' \in Datagrams(udp_socket)
  /\ UNCHANGED <<tcp_stream, udp_socket, stream, peer>>

\* The peer goes away.
PeerLeaves == peer = "up" /\ peer' = "down"
              /\ UNCHANGED <<generated, channel, lines, loggerVars, tasks, file, forwardVars>>

Log(w) == PrintLine(w) \/ LockFile(w) \/ WriteText(w) \/ WriteNewline(w) \/ UnlockFile(w)
Send == SendTcp \/ FallBack \/ SendUdp
Burst(b) == b \in DOMAIN tasks /\ (WriteBurst(b) \/ OpenFails(b))

\* The alert loop has panicked: main returns.  The runtime waits for what its threads are in
\* the middle of, burst tasks that have begun to write among them, and drops the rest.
Exit ==
  /\ running /\ stage["alerts"] = "panicked"
  /\ \A w \in Logger : stage[w] \in {"idle", "panicked"}
  /\ \A b \in DOMAIN tasks : tasks[b] \in {0, Entries + 2}
  /\ running' = FALSE
  /\ UNCHANGED <<generated, channel, lines, loggerVars, tasks, file, forwardVars, peer>>

\* A step of the program before it ends.
Runs(step) == running /\ step /\ UNCHANGED running

Next ==
  \/ Runs(SendAlert) \/ Runs(RecvAlert) \/ Runs(BurstDetected) \/ Runs(FlowsRemoved)
  \/ Runs(SpawnBurst) \/ Runs(Send) \/ Runs(PeerLeaves)
  \/ \E w \in Logger : Runs(Log(w))
  \/ \E b \in 1 .. MaxBursts : Runs(Burst(b))
  \/ Exit

Spec == Init /\ [][Next]_vars

\* All threads and tasks go on until they panic or the program ends, a mutex that is free again
\* and again is got, standard output takes a line or fails, and the peer reads: a TCP write ends,
\* well or in an error.
FairSpec ==
  /\ Spec /\ WF_vars(Runs(RecvAlert)) /\ WF_vars(Runs(SpawnBurst)) /\ WF_vars(Runs(Send))
  /\ \A w \in Logger : /\ WF_vars(Runs(PrintLine(w) \/ WriteText(w) \/ WriteNewline(w) \/ UnlockFile(w)))
                        /\ SF_vars(Runs(LockFile(w)))
  /\ \A b \in 1 .. MaxBursts : WF_vars(Runs(Burst(b)))
  /\ WF_vars(Exit)
----------------------------------------------------------------------------
(* Properties.                                                             *)

Pieces == [by : Logger \cup {"burst", "tcp"}, n : Nat, k : BurstPieces,
           part : {"text", "newline", "part", "packet"}]

\* Types of the state.
TypeOK ==
  /\ running \in BOOLEAN /\ generated \in 0 .. MaxAlerts /\ channel \in Seq(1 .. MaxAlerts)
  /\ lines \in [Logger \ {"alerts"} -> 0 .. MaxBursts + MaxCleanups]
  /\ stage \in [Logger -> {"idle", "print", "panicked", "lock", "text", "newline", "unlock",
                          "forward", "spawn"}]
  /\ message \in [Logger -> 1 .. MaxAlerts + MaxBursts + MaxCleanups \cup {None}]
  /\ lock \in Logger \cup {None}
  /\ DOMAIN tasks \subseteq 1 .. MaxBursts /\ \A b \in DOMAIN tasks : tasks[b] \in 0 .. Entries + 2
  /\ file \in Seq(Pieces) /\ failed \subseteq Logger \X Nat /\ stream \in Seq(Pieces)
  /\ tcp_stream \in BOOLEAN /\ udp_socket \in BOOLEAN /\ peer \in {"up", "down", "dead"}
  /\ datagrams \in Seq(1 .. MaxAlerts)

\* Piece j of the file is the newline of the text that is piece i, and of the Logger there is
\* nothing in between.
Ends(i, j) ==
  /\ i < j /\ file[i].part = "text" /\ file[j] = [file[i] EXCEPT !.part = "newline"]
  /\ \A m \in i + 1 .. j - 1 : file[m].by \notin Logger

\* Piece i is a text whose newline is about to be written, the last of the Logger so far.
Open(i) ==
  /\ \E w \in Logger : stage[w] = "newline" /\ file[i] = Piece(w, message[w], "text")
  /\ \A m \in i + 1 .. Len(file) : file[m].by \notin Logger

\* What the Logger has put into the file is lines, each with its newline before the next of the
\* Logger begins, but for the one being written and those of which a write failed.  So a failed
\* write (Logger::log ignores it) spoils its own line, and the row on which the next begins,
\* but no line that was written without failure is cut or mixed with another of the Logger.
\* Burst tasks may write in between.
LinesIntact ==
  \A i \in DOMAIN file : file[i].by \in Logger =>
    \/ \E j \in DOMAIN file : Ends(i, j) \/ Ends(j, i)
    \/ Open(i)
    \/ <<file[i].by, file[i].n>> \in failed

\* The packets of a burst come after the line that announces it and in order, although two
\* different writers write them, through two file descriptors.
BurstsFollowLines ==
  \A i, j \in DOMAIN file : (i < j /\ file[i].by = "burst" /\ file[j].n = file[i].n) =>
    /\ file[j].by # "processor"
    /\ file[j].by = "burst" => file[i].k < file[j].k

\* The alerts the loop is done with are those before the one it holds, or the next it takes.
Done == IF stage["alerts"] = "idle" THEN generated - Len(channel) ELSE message["alerts"] - 1

\* As long as the peer stays, the stream is all alerts so far, each whole and terminated by a
\* newline, and no datagram is sent.
StreamComplete ==
  peer = "up" =>
    /\ stream = [i \in 1 .. 2 * Done |->
                   Piece("tcp", (i + 1) \div 2, IF i % 2 = 1 THEN "text" ELSE "newline")]
    /\ datagrams = <<>>

\* When the peer has left, only the end of the stream can be torn: what follows an
\* unfinished line is nothing.
OnlyTailTorn ==
  \A i \in DOMAIN stream :
    /\ stream[i].part = "part" => i = Len(stream)
    /\ (stream[i].part = "text" /\ i < Len(stream)) => stream[i + 1] = [stream[i] EXCEPT !.part = "newline"]

\* Each alert is handed on whole at most once, over TCP or over UDP, and all that go by
\* UDP are later than those that went by TCP.
ForwardedOnce ==
  LET streamed == {i \in DOMAIN stream : stream[i].part = "text"}
  IN  /\ \A i, j \in streamed : i < j => stream[i].n < stream[j].n
      /\ \A i, j \in DOMAIN datagrams : i < j => datagrams[i] < datagrams[j]
      /\ \A i \in streamed, j \in DOMAIN datagrams : stream[i].n < datagrams[j]

\* A slow or failing log file, a full disk under it or a lost peer stops no alert and no burst
\* task.  Only standard output does: when a line cannot be printed, the alert loop ends and with
\* it the program, or the processor does before it has spawned the burst's task.
AllReported ==
  /\ \A n \in 1 .. MaxAlerts : generated >= n ~> Done >= n \/ stage["alerts"] = "panicked"
  /\ \A b \in 1 .. MaxBursts : lines["processor"] >= b ~>
       \/ b \in DOMAIN tasks /\ tasks[b] = Entries + 2
       \/ stage["processor"] = "panicked" /\ message["processor"] = b
       \/ ~ running
  /\ stage["alerts"] = "panicked" ~> ~ running
=============================================================================
