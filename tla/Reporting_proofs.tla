-------------------------- MODULE Reporting_proofs --------------------------
(***************************************************************************)
(* Proofs about what leaves the program (Reporting).  The control of the   *)
(* three users of the Logger comes first: which line or alert each holds,  *)
(* and what is in the channel.  On it rest the three inductive invariants  *)
(* of the outputs: LineInv of the Logger's lines, FollowInv of the bursts, *)
(* StreamInv of the TCP stream and the datagrams.                          *)
(***************************************************************************)
EXTENDS Reporting, TLAPS

----------------------------------------------------------------------------
(* The control of the three users of the Logger.                           *)

Stages == {"idle", "print", "panicked", "lock", "text", "newline", "unlock", "forward", "spawn"}

\* The channel holds the last alerts, in order; the loop holds the one before them.
AlertInv ==
  /\ Len(channel) <= generated
  /\ \A i \in 1 .. Len(channel) : channel[i] = generated - Len(channel) + i
  /\ stage["alerts"] # "idle" =>
       message["alerts"] = generated - Len(channel) /\ message["alerts"] \in 1 .. MaxAlerts

\* The processor's line is about its last burst, for which there is no task yet.
BurstInv ==
  /\ lines["processor"] \in 0 .. MaxBursts
  /\ stage["processor"] # "idle" => /\ message["processor"] = lines["processor"]
                                    /\ lines["processor"] \in 1 .. MaxBursts
                                    /\ lines["processor"] \notin DOMAIN tasks
  /\ \A b \in DOMAIN tasks : b <= lines["processor"]

StageInv == \A w \in Logger : /\ stage[w] # "idle" => message[w] \in Nat
                              /\ stage[w] = "forward" => w = "alerts"
                              /\ stage[w] = "spawn" => w = "processor"

ControlInv == TypeOK /\ AlertInv /\ BurstInv /\ StageInv

\* Each step is one of these, with what is left of the state as it was.
LEMMA Steps ==
  ASSUME Next
  PROVE  \/ SendAlert \/ RecvAlert \/ BurstDetected \/ FlowsRemoved \/ SpawnBurst
         \/ SendTcp \/ FallBack \/ SendUdp \/ PeerLeaves \/ Exit
         \/ \E w \in Logger : PrintLine(w) \/ LockFile(w) \/ WriteText(w) \/ WriteNewline(w) \/ UnlockFile(w)
         \/ \E b \in DOMAIN tasks : WriteBurst(b) \/ OpenFails(b)
  BY DEF Next, Runs, Send, Log, Burst

\* The program runs or does not, and the failed lines are lines of the Logger.
LEMMA HistoryTyped ==
  ASSUME TypeOK, StageInv, [Next]_vars
  PROVE  running' \in BOOLEAN /\ failed' \subseteq Logger \X Nat
  <1>1. running \in BOOLEAN /\ failed \subseteq Logger \X Nat BY DEF TypeOK
  <1>2. running' \in BOOLEAN BY <1>1 DEF Next, Runs, Exit, vars
  <1>3. ASSUME NEW w \in Logger, stage[w] # "idle", failed' \in {failed, failed \cup {<<w, message[w]>>}}
        PROVE  failed' \subseteq Logger \X Nat
    <2>1. message[w] \in Nat BY <1>3 DEF StageInv
    <2> QED BY <1>1, <1>3, <2>1
  <1>4. ASSUME NEW w \in Logger, WriteText(w) \/ WriteNewline(w) PROVE failed' \subseteq Logger \X Nat
    BY <1>3, <1>4 DEF WriteText, WriteNewline
  <1>5. CASE \A w \in Logger : ~ (WriteText(w) \/ WriteNewline(w))
    <2>1. failed' = failed
      BY <1>5, Steps DEF vars, loggerVars, SendAlert, RecvAlert, BurstDetected, FlowsRemoved, BeginLine,
         SpawnBurst, SendTcp, FallBack, SendUdp, Forwarded, PeerLeaves, Exit, PrintLine, LockFile,
         UnlockFile, WriteBurst, OpenFails
    <2> QED BY <1>1, <1>2, <2>1
  <1> QED BY <1>2, <1>4, <1>5

\* The pieces the program writes are pieces.
LEMMA PieceTyped ==
  /\ \A w \in Logger, n \in Nat : \A p \in {"text", "newline", "part"} : Piece(w, n, p) \in Pieces
  /\ \A n \in Nat : \A p \in {"text", "newline", "part"} : Piece("tcp", n, p) \in Pieces
  /\ \A b \in 1 .. MaxBursts, k \in BurstPieces : BurstPiece(b, k) \in Pieces
  BY ReportingAssumption DEF Piece, BurstPiece, Pieces, BurstPieces

\* A sequence of elements of a set stays one when an element is added.
LEMMA AppendTyped ==
  ASSUME NEW S, NEW s \in Seq(S), NEW x \in S PROVE Append(s, x) \in Seq(S)
  OBVIOUS

\* Appending keeps what is there, and the new element comes last.
LEMMA AppendAt ==
  ASSUME NEW S, NEW s \in Seq(S), NEW x
  PROVE  /\ Len(Append(s, x)) = Len(s) + 1 /\ DOMAIN Append(s, x) = 1 .. Len(s) + 1
         /\ Append(s, x)[Len(s) + 1] = x
         /\ \A i \in 1 .. Len(s) : Append(s, x)[i] = s[i]
         /\ DOMAIN s = 1 .. Len(s) /\ Len(s) \in Nat
  OBVIOUS

\* Every step of the program keeps the control of the users of the Logger.
LEMMA ControlInductive == ControlInv /\ [Next]_vars => ControlInv'
  <1> SUFFICES ASSUME ControlInv, [Next]_vars, running' \in BOOLEAN, failed' \subseteq Logger \X Nat
               PROVE  ControlInv'
    BY HistoryTyped DEF ControlInv
  <1> USE ReportingAssumption
  <1>1. TypeOK /\ AlertInv /\ BurstInv /\ StageInv BY DEF ControlInv
  <1>2. CASE UNCHANGED vars
    BY <1>1, <1>2 DEF vars, loggerVars, forwardVars, ControlInv, TypeOK, AlertInv, BurstInv, StageInv
  <1>3. CASE SendAlert
    <2>1. generated' \in 0 .. MaxAlerts /\ channel' \in Seq(1 .. MaxAlerts)
      BY <1>1, <1>3 DEF SendAlert, TypeOK
    <2>2. TypeOK' BY <1>1, <1>3, <2>1 DEF SendAlert, loggerVars, forwardVars, TypeOK
    <2>3. AlertInv'
      <3>1. /\ channel \in Seq(1 .. MaxAlerts) /\ generated \in Nat
            /\ channel' = Append(channel, generated + 1) /\ generated' = generated + 1
            /\ stage' = stage /\ message' = message
        BY <1>1, <1>3 DEF SendAlert, TypeOK, loggerVars
      <3>2. /\ Len(channel') = Len(channel) + 1 /\ Len(channel) \in Nat
            /\ channel'[Len(channel) + 1] = generated + 1
            /\ \A i \in 1 .. Len(channel) : channel'[i] = channel[i]
        BY <3>1, AppendAt
      <3>3. /\ Len(channel) <= generated
            /\ \A i \in 1 .. Len(channel) : channel[i] = generated - Len(channel) + i
            /\ stage["alerts"] # "idle" =>
                 message["alerts"] = generated - Len(channel) /\ message["alerts"] \in 1 .. MaxAlerts
        BY <1>1 DEF AlertInv
      <3>4. ASSUME NEW i \in 1 .. Len(channel') PROVE channel'[i] = generated' - Len(channel') + i
        <4>1. CASE i = Len(channel) + 1 BY <3>1, <3>2, <4>1
        <4>2. CASE i \in 1 .. Len(channel) BY <3>1, <3>2, <3>3, <4>2
        <4> QED BY <3>2, <4>1, <4>2
      <3>5. /\ Len(channel') <= generated'
            /\ stage'["alerts"] # "idle" =>
                 message'["alerts"] = generated' - Len(channel') /\ message'["alerts"] \in 1 .. MaxAlerts
        BY <3>1, <3>2, <3>3
      <3> QED BY <3>4, <3>5 DEF AlertInv
    <2>4. UNCHANGED <<lines, stage, message, tasks>> BY <1>3 DEF SendAlert, loggerVars
    <2>5. BurstInv' BY <1>1, <2>4 DEF BurstInv
    <2>6. StageInv' BY <1>1, <2>4 DEF StageInv
    <2> QED BY <2>2, <2>3, <2>5, <2>6 DEF ControlInv
  <1>4. CASE RecvAlert
    <2>1. /\ channel \in Seq(1 .. MaxAlerts) /\ channel # <<>> /\ generated \in Nat
          /\ stage \in [Logger -> Stages] /\ "alerts" \in Logger
      BY <1>1, <1>4 DEF RecvAlert, TypeOK, Stages, Logger
    <2>2. /\ Head(channel) = channel[1] /\ Head(channel) \in 1 .. MaxAlerts
          /\ Tail(channel) \in Seq(1 .. MaxAlerts) /\ Len(Tail(channel)) = Len(channel) - 1
          /\ Len(channel) \in Nat /\ Len(channel) > 0
          /\ \A i \in 1 .. Len(channel) - 1 : Tail(channel)[i] = channel[i + 1]
      BY <2>1
    <2>3. TypeOK'
      <3>1. /\ stage' = [stage EXCEPT !["alerts"] = "print"] /\ channel' = Tail(channel)
            /\ message' = [message EXCEPT !["alerts"] = Head(channel)]
            /\ UNCHANGED <<generated, lines, lock, failed, tasks, file, forwardVars, peer>>
        BY <1>4 DEF RecvAlert
      <3>2. stage' \in [Logger -> Stages] BY <2>1, <3>1 DEF Stages
      <3>3. Head(channel) \in 1 .. MaxAlerts + MaxBursts + MaxCleanups BY <2>2
      <3>4. message' \in [Logger -> 1 .. MaxAlerts + MaxBursts + MaxCleanups \cup {None}]
        BY <1>1, <3>1, <3>3 DEF TypeOK
      <3> QED BY <1>1, <2>2, <3>1, <3>2, <3>4 DEF TypeOK, forwardVars, Stages
    <2>4. /\ generated' = generated /\ channel' = Tail(channel)
          /\ message'["alerts"] = Head(channel)
      BY <1>1, <1>4, <2>1 DEF RecvAlert, TypeOK
    <2>5. AlertInv' BY <1>1, <2>1, <2>2, <2>4 DEF AlertInv
    <2>6. BurstInv' BY <1>1, <1>4 DEF RecvAlert, TypeOK, BurstInv, Logger
    <2>7. StageInv' BY <1>1, <1>4, <2>2 DEF RecvAlert, TypeOK, StageInv, Logger
    <2> QED BY <2>3, <2>5, <2>6, <2>7 DEF ControlInv
  <1>5. ASSUME NEW w \in {"processor", "cleanup"}, NEW max \in Nat, BeginLine(w, max),
               w = "processor" => max = MaxBursts, w = "cleanup" => max = MaxCleanups
        PROVE  ControlInv'
    <2>1. /\ lines' = [lines EXCEPT ![w] = @ + 1] /\ lines[w] + 1 \in 1 .. max
          /\ lines \in [Logger \ {"alerts"} -> 0 .. MaxBursts + MaxCleanups]
          /\ w \in Logger \ {"alerts"} /\ lines'[w] = lines[w] + 1
      BY <1>1, <1>5 DEF BeginLine, TypeOK, Logger
    <2>2. /\ stage' = [stage EXCEPT ![w] = "print"] /\ message' = [message EXCEPT ![w] = lines[w] + 1]
          /\ UNCHANGED <<generated, channel, lock, failed, tasks, file, forwardVars, peer>>
      BY <1>5, <2>1 DEF BeginLine
    <2>3. lines' \in [Logger \ {"alerts"} -> 0 .. MaxBursts + MaxCleanups]
      BY <1>5, <2>1
    <2>4. message' \in [Logger -> 1 .. MaxAlerts + MaxBursts + MaxCleanups \cup {None}]
      BY <1>1, <1>5, <2>1, <2>2 DEF TypeOK
    <2>5. TypeOK' BY <1>1, <2>2, <2>3, <2>4 DEF TypeOK, forwardVars, Logger
    <2>6. AlertInv' BY <1>1, <2>1, <2>2 DEF AlertInv, TypeOK, Logger
    <2>7. BurstInv'
      <3>1. CASE w = "processor"
        <4>1. lines'["processor"] = lines["processor"] + 1 /\ lines'["processor"] \in 0 .. MaxBursts
          BY <1>5, <2>1, <3>1
        <4>2. lines'["processor"] \in 1 .. MaxBursts BY <1>5, <2>1, <3>1
        <4>3. message'["processor"] = lines["processor"] + 1 BY <1>1, <2>1, <2>2, <3>1 DEF TypeOK
        <4>4. \A b \in DOMAIN tasks : b \in Nat /\ b <= lines["processor"]
          BY <1>1 DEF BurstInv, TypeOK
        <4>5. lines["processor"] \in Nat BY <2>1, <3>1
        <4> QED BY <2>2, <4>1, <4>2, <4>3, <4>4, <4>5 DEF BurstInv
      <3>2. CASE w = "cleanup"
        <4>1. UNCHANGED <<lines["processor"], stage["processor"], message["processor"], tasks>>
          BY <1>1, <2>1, <2>2, <3>2 DEF TypeOK, Logger
        <4> QED BY <1>1, <4>1 DEF BurstInv
      <3> QED BY <1>5, <3>1, <3>2
    <2>8. StageInv' BY <1>1, <2>1, <2>2 DEF StageInv, TypeOK
    <2> QED BY <2>5, <2>6, <2>7, <2>8 DEF ControlInv
  <1>6. CASE BurstDetected BY <1>5, <1>6 DEF BurstDetected
  <1>7. CASE FlowsRemoved BY <1>5, <1>7 DEF FlowsRemoved
  <1>8. CASE SpawnBurst
    <2> DEFINE b == message["processor"]
    <2>1. b = lines["processor"] /\ b \in 1 .. MaxBursts
      BY <1>1, <1>8 DEF SpawnBurst, BurstInv
    <2>2. /\ tasks' = [c \in DOMAIN tasks \cup {b} |-> IF c = b THEN 0 ELSE tasks[c]]
          /\ stage' = [stage EXCEPT !["processor"] = "idle"]
          /\ UNCHANGED <<generated, channel, lines, message, lock, failed, file, forwardVars, peer>>
      BY <1>8 DEF SpawnBurst
    <2>3. TypeOK' BY <1>1, <2>1, <2>2 DEF TypeOK, forwardVars, Logger
    <2>4. AlertInv' BY <1>1, <2>2 DEF AlertInv, TypeOK, Logger
    <2>5. BurstInv' BY <1>1, <2>1, <2>2 DEF BurstInv, TypeOK, Logger
    <2>6. StageInv' BY <1>1, <2>2 DEF StageInv, TypeOK
    <2> QED BY <2>3, <2>4, <2>5, <2>6 DEF ControlInv
  <1>9. ASSUME Forwarded PROVE AlertInv' /\ BurstInv' /\ StageInv' /\ stage' \in [Logger -> Stages]
    <2>1. /\ stage' = [stage EXCEPT !["alerts"] = "idle"]
          /\ UNCHANGED <<generated, channel, lines, message, lock, failed, tasks, file>>
      BY <1>9 DEF Forwarded
    <2>2. stage' \in [Logger -> Stages] BY <1>1, <2>1 DEF TypeOK, Stages
    <2>3. AlertInv' BY <1>1, <2>1 DEF AlertInv, TypeOK, Logger
    <2>4. BurstInv' BY <1>1, <2>1 DEF BurstInv, TypeOK, Logger
    <2>5. StageInv' BY <1>1, <2>1 DEF StageInv, TypeOK
    <2> QED BY <2>2, <2>3, <2>4, <2>5
  <1>10. ASSUME Forwarded,
                stream' \in Seq(Pieces), datagrams' \in Seq(1 .. MaxAlerts),
                tcp_stream' \in BOOLEAN, udp_socket' \in BOOLEAN, peer' \in {"up", "down", "dead"}
         PROVE  ControlInv'
    <2>1. TypeOK' BY <1>1, <1>9, <1>10 DEF TypeOK, Forwarded, Stages
    <2> QED BY <1>9, <1>10, <2>1 DEF ControlInv
  <1>11. ASSUME Forwarded
         PROVE  /\ message["alerts"] \in 1 .. MaxAlerts
                /\ \A p \in {"text", "newline", "part"} : Piece("tcp", message["alerts"], p) \in Pieces
                /\ \A socket \in BOOLEAN : Datagrams(socket) \subseteq Seq(1 .. MaxAlerts)
    <2>1. message["alerts"] \in 1 .. MaxAlerts BY <1>1, <1>11 DEF Forwarded, AlertInv
    <2>2. datagrams \in Seq(1 .. MaxAlerts) BY <1>1 DEF TypeOK
    <2>3. Append(datagrams, message["alerts"]) \in Seq(1 .. MaxAlerts) BY <2>1, <2>2, AppendTyped
    <2>4. \A socket \in BOOLEAN : Datagrams(socket) \subseteq Seq(1 .. MaxAlerts)
      BY <2>2, <2>3 DEF Datagrams
    <2> QED BY <2>1, <2>4, PieceTyped
  <1>12. CASE SendTcp
    <2> DEFINE whole == Append(stream, Piece("tcp", message["alerts"], "text"))
    <2>1. Forwarded BY <1>12 DEF SendTcp
    <2>2. stream \in Seq(Pieces) BY <1>1 DEF TypeOK
    <2>3. whole \in Seq(Pieces) BY <1>11, <2>1, <2>2, AppendTyped
    <2>4. Append(whole, Piece("tcp", message["alerts"], "newline")) \in Seq(Pieces)
      BY <1>11, <2>1, <2>3, AppendTyped
    <2>5. stream' \in Seq(Pieces) /\ peer' \in {"up", "down", "dead"}
      BY <1>1, <1>12, <2>3, <2>4 DEF SendTcp, TypeOK
    <2> QED BY <1>1, <1>10, <1>12, <2>1, <2>5 DEF SendTcp, TypeOK
  <1>13. CASE FallBack
    <2>1. Forwarded BY <1>13 DEF FallBack
    <2>2. stream \in Seq(Pieces) BY <1>1 DEF TypeOK
    <2>3. Append(stream, Piece("tcp", message["alerts"], "part")) \in Seq(Pieces)
      BY <1>11, <2>1, <2>2, AppendTyped
    <2>4. stream' \in Seq(Pieces) BY <1>13, <2>2, <2>3 DEF FallBack
    <2>5. datagrams' \in Seq(1 .. MaxAlerts) BY <1>11, <1>13, <2>1 DEF FallBack
    <2> QED BY <1>10, <1>13, <2>1, <2>4, <2>5 DEF FallBack
  <1>14. CASE SendUdp
    <2>1. Forwarded BY <1>14 DEF SendUdp
    <2>2. datagrams' \in Seq(1 .. MaxAlerts) BY <1>1, <1>11, <1>14, <2>1 DEF SendUdp, TypeOK
    <2> QED BY <1>1, <1>10, <1>14, <2>1, <2>2 DEF SendUdp, TypeOK
  <1>15. CASE PeerLeaves
    BY <1>1, <1>15 DEF PeerLeaves, loggerVars, forwardVars, ControlInv, TypeOK, AlertInv, BurstInv, StageInv
  \* A step of the Logger's user w from one stage to another.
  <1>16. ASSUME NEW w \in Logger, NEW s \in Stages, stage[w] # "idle", stage' = [stage EXCEPT ![w] = s],
                s = "forward" => w = "alerts", s = "spawn" => w = "processor",
                UNCHANGED <<generated, channel, lines, message, tasks, forwardVars, peer>>,
                file' \in Seq(Pieces), lock' \in Logger \cup {None}
         PROVE  ControlInv'
    <2>1. TypeOK' BY <1>1, <1>16 DEF TypeOK, forwardVars, Stages
    <2>2. AlertInv' BY <1>1, <1>16 DEF AlertInv, TypeOK, Logger
    <2>3. BurstInv' BY <1>1, <1>16 DEF BurstInv, TypeOK, Logger
    <2>4. StageInv' BY <1>1, <1>16 DEF StageInv, TypeOK
    <2> QED BY <2>1, <2>2, <2>3, <2>4 DEF ControlInv
  <1>17. \A w \in Logger : /\ AfterLine(w) \in Stages
                           /\ AfterLine(w) = "forward" => w = "alerts"
                           /\ AfterLine(w) = "spawn" => w = "processor"
    BY DEF AfterLine, Logger, Stages
  <1>18. ASSUME NEW w \in Logger, stage[w] # "idle", NEW p \in {"text", "newline", "part"}
         PROVE  Append(file, Piece(w, message[w], p)) \in Seq(Pieces)
    <2>1. message[w] \in Nat /\ file \in Seq(Pieces) BY <1>1, <1>18 DEF StageInv, TypeOK
    <2>2. Piece(w, message[w], p) \in Pieces BY <2>1, PieceTyped
    <2> QED BY <2>1, <2>2, AppendTyped
  <1>26. CASE Exit
    BY <1>1, <1>26 DEF Exit, loggerVars, forwardVars, ControlInv, TypeOK, AlertInv, BurstInv, StageInv
  <1>27. ASSUME NEW w \in Logger, PrintLine(w) PROVE ControlInv'
    <2>1. stage[w] # "idle" /\ file' = file /\ lock' = lock BY <1>27 DEF PrintLine
    <2>2. PICK s \in {"lock", "panicked"} : stage' = [stage EXCEPT ![w] = s] BY <1>27 DEF PrintLine
    <2>3. s \in Stages /\ s # "forward" /\ s # "spawn" BY DEF Stages
    <2> QED BY <1>1, <1>16, <1>27, <2>1, <2>2, <2>3 DEF PrintLine, TypeOK
  <1>19. ASSUME NEW w \in Logger, LockFile(w) PROVE ControlInv'
    <2>1. stage[w] # "idle" /\ file' = file /\ lock' \in Logger \cup {None}
      BY <1>1, <1>19 DEF LockFile, TypeOK
    <2>2. (IF LogToFile THEN "text" ELSE AfterLine(w)) \in Stages BY <1>17 DEF Stages
    <2> QED BY <1>1, <1>16, <1>17, <1>19, <2>1, <2>2 DEF LockFile, TypeOK
  <1>20. ASSUME NEW w \in Logger, WriteText(w) PROVE ControlInv'
    <2>1. stage[w] # "idle" /\ lock' = lock BY <1>20 DEF WriteText
    <2>2. file' \in Seq(Pieces) BY <1>1, <1>18, <1>20, <2>1 DEF WriteText, TypeOK
    <2>3. PICK s \in {"newline", "unlock"} : stage' = [stage EXCEPT ![w] = s]
      BY <1>20 DEF WriteText
    <2>4. s \in Stages /\ s # "forward" /\ s # "spawn" BY DEF Stages
    <2> QED BY <1>1, <1>16, <1>20, <2>1, <2>2, <2>3, <2>4 DEF WriteText, TypeOK
  <1>21. ASSUME NEW w \in Logger, WriteNewline(w) PROVE ControlInv'
    <2>1. stage[w] # "idle" /\ lock' = lock BY <1>21 DEF WriteNewline
    <2>2. file' \in Seq(Pieces) BY <1>1, <1>18, <1>21, <2>1 DEF WriteNewline, TypeOK
    <2>3. "unlock" \in Stages BY DEF Stages
    <2> QED BY <1>1, <1>16, <1>21, <2>1, <2>2, <2>3 DEF WriteNewline, TypeOK
  <1>22. ASSUME NEW w \in Logger, UnlockFile(w) PROVE ControlInv'
    <2>1. stage[w] # "idle" /\ file' = file /\ lock' = None BY <1>22 DEF UnlockFile
    <2> QED BY <1>1, <1>16, <1>17, <1>22, <2>1 DEF UnlockFile, TypeOK
  \* A step of a burst task.
  <1>23. ASSUME NEW b \in DOMAIN tasks, NEW n \in 0 .. Entries + 2, tasks' = [tasks EXCEPT ![b] = n],
                UNCHANGED <<generated, channel, lines, loggerVars, forwardVars, peer>>,
                file' \in Seq(Pieces)
         PROVE  ControlInv'
    BY <1>1, <1>23 DEF loggerVars, forwardVars, ControlInv, TypeOK, AlertInv, BurstInv, StageInv
  <1>24. ASSUME NEW b \in DOMAIN tasks, WriteBurst(b) PROVE ControlInv'
    <2>1. tasks[b] \in BurstPieces /\ tasks[b] + 1 \in 0 .. Entries + 2 BY <1>24 DEF WriteBurst, BurstPieces
    <2>2. file \in Seq(Pieces) /\ b \in 1 .. MaxBursts BY <1>1 DEF TypeOK
    <2>3. Append(file, BurstPiece(b, tasks[b])) \in Seq(Pieces)
      BY <2>1, <2>2, PieceTyped, AppendTyped
    <2>4. file' \in Seq(Pieces) BY <1>24, <2>2, <2>3 DEF WriteBurst
    <2> QED BY <1>23, <1>24, <2>1, <2>4 DEF WriteBurst
  <1>25. ASSUME NEW b \in DOMAIN tasks, OpenFails(b) PROVE ControlInv'
    <2>1. Entries + 2 \in 0 .. Entries + 2 OBVIOUS
    <2> QED BY <1>1, <1>23, <1>25, <2>1 DEF OpenFails, TypeOK
  <1> QED BY <1>2, <1>3, <1>4, <1>6, <1>7, <1>8, <1>12, <1>13, <1>14, <1>15,
             <1>19, <1>20, <1>21, <1>22, <1>24, <1>25, <1>26, <1>27, Steps

\* The control of the users of the Logger is always as described.
LEMMA ReportingControl == Spec => []ControlInv
  <1>1. Init => ControlInv
    <2> SUFFICES ASSUME Init PROVE ControlInv OBVIOUS
    <2>1. TypeOK
      <3>1. tcp_stream \in BOOLEAN /\ udp_socket \in BOOLEAN /\ peer \in {"up", "down", "dead"}
        BY DEF Init
      <3> QED BY <3>1, ReportingAssumption DEF Init, TypeOK, Logger
    <2>2. AlertInv /\ BurstInv /\ StageInv
      BY ReportingAssumption DEF Init, AlertInv, BurstInv, StageInv, Logger
    <2> QED BY <2>1, <2>2 DEF ControlInv
  <1> QED BY <1>1, ControlInductive, PTL DEF Spec

\* Types of the state, for any number of alerts, bursts and packets in a burst.
THEOREM ReportingTypes == Spec => []TypeOK
  <1>1. ControlInv => TypeOK BY DEF ControlInv
  <1> QED BY <1>1, ReportingControl, PTL

----------------------------------------------------------------------------
(* The lines of the Logger.                                                *)

Writing == {"text", "newline", "unlock"}

\* Who writes holds the mutex.
LockInv == \A w \in Logger : stage[w] \in Writing => lock = w

\* Who has a newline to write has written the text, and no one else of the Logger anything since.
OpenLine(piece) == \E j \in DOMAIN file : /\ file[j] = piece
                                          /\ \A m \in j + 1 .. Len(file) : file[m].by \notin Logger
TextInv == \A w \in Logger : stage[w] = "newline" => OpenLine(Piece(w, message[w], "text"))

LineInv == LockInv /\ TextInv /\ LinesIntact

\* A piece of another writer leaves an open line open.
LEMMA OpenKept ==
  ASSUME file \in Seq(Pieces), NEW q, q.by \notin Logger, file' = Append(file, q),
         NEW p, OpenLine(p)
  PROVE  OpenLine(p)'
  <1>1. /\ Len(file') = Len(file) + 1 /\ DOMAIN file' = 1 .. Len(file) + 1
        /\ file'[Len(file) + 1] = q
        /\ \A i \in 1 .. Len(file) : file'[i] = file[i]
        /\ DOMAIN file = 1 .. Len(file) /\ Len(file) \in Nat
    BY AppendAt
  <1>2. PICK j \in DOMAIN file : /\ file[j] = p
                                 /\ \A m \in j + 1 .. Len(file) : file[m].by \notin Logger
    BY DEF OpenLine
  <1>3. j \in DOMAIN file' /\ file'[j] = p BY <1>1, <1>2
  <1>4. ASSUME NEW m \in j + 1 .. Len(file') PROVE file'[m].by \notin Logger
    <2>1. CASE m = Len(file) + 1 BY <1>1, <2>1
    <2>2. CASE m # Len(file) + 1
      <3>1. m \in j + 1 .. Len(file) /\ m \in 1 .. Len(file) BY <1>1, <1>2, <2>2
      <3> QED BY <1>1, <1>2, <3>1
    <2> QED BY <2>1, <2>2
  <1> QED BY <1>3, <1>4 DEF OpenLine

\* A text and the newline that ends it stay so when a piece is added.
LEMMA EndsKept ==
  ASSUME file \in Seq(Pieces), NEW q, file' = Append(file, q),
         NEW i \in DOMAIN file, NEW j \in DOMAIN file, Ends(i, j)
  PROVE  Ends(i, j)'
  <1>1. /\ \A m \in 1 .. Len(file) : file'[m] = file[m]
        /\ DOMAIN file = 1 .. Len(file) /\ Len(file) \in Nat
    BY AppendAt
  <1>2. file'[i] = file[i] /\ file'[j] = file[j] BY <1>1
  <1>3. ASSUME NEW m \in i + 1 .. j - 1 PROVE file'[m].by \notin Logger
    <2>1. m \in 1 .. Len(file) BY <1>1
    <2> QED BY <1>1, <2>1 DEF Ends
  <1> QED BY <1>2, <1>3 DEF Ends

\* What each piece of the Logger is in, with the piece added.
LEMMA IntactKept ==
  ASSUME file \in Seq(Pieces), LinesIntact, NEW q, file' = Append(file, q), failed \subseteq failed',
         NEW new, new = Len(file) + 1,
         \A i \in DOMAIN file : file[i].by \in Logger /\ Open(i) =>
           \/ Open(i)' \/ <<file[i].by, file[i].n>> \in failed'
           \/ Ends(i, new)',
         q.by \in Logger =>
           \/ Open(new)' \/ <<q.by, q.n>> \in failed'
           \/ \E i \in DOMAIN file : Ends(i, new)'
  PROVE  LinesIntact'
  <1>1. /\ Len(file') = Len(file) + 1 /\ DOMAIN file' = 1 .. Len(file) + 1
        /\ file'[Len(file) + 1] = q
        /\ \A i \in 1 .. Len(file) : file'[i] = file[i]
        /\ DOMAIN file = 1 .. Len(file) /\ Len(file) \in Nat
    BY AppendAt
  <1> DEFINE Fine(i) == \/ \E j \in DOMAIN file' : Ends(i, j)' \/ Ends(j, i)'
                       \/ Open(i)'
                       \/ <<file'[i].by, file'[i].n>> \in failed'
  <1>2. new \in DOMAIN file' BY <1>1
  <1>3. ASSUME q.by \in Logger PROVE Fine(new)
    <2>1. CASE \E i \in DOMAIN file : Ends(i, new)' BY <1>1, <2>1
    <2>2. CASE Open(new)' BY <2>2
    <2>3. CASE <<q.by, q.n>> \in failed' BY <1>1, <2>3
    <2> QED BY <1>3, <2>1, <2>2, <2>3
  <1>4. ASSUME NEW i \in DOMAIN file, file[i].by \in Logger PROVE Fine(i)
    <2>1. file'[i] = file[i] BY <1>1
    <2>2. CASE \E j \in DOMAIN file : Ends(i, j) \/ Ends(j, i)
      <3>1. PICK j \in DOMAIN file : Ends(i, j) \/ Ends(j, i) BY <2>2
      <3>2. Ends(i, j)' \/ Ends(j, i)' BY <3>1, EndsKept
      <3>3. j \in DOMAIN file' BY <1>1
      <3> QED BY <3>2, <3>3
    <2>3. CASE Open(i)
      <3>1. Open(i)' \/ <<file[i].by, file[i].n>> \in failed' \/ Ends(i, new)' BY <1>4, <2>3
      <3> QED BY <1>2, <2>1, <3>1
    <2>4. CASE <<file[i].by, file[i].n>> \in failed BY <2>1, <2>4
    <2> QED BY <1>4, <2>2, <2>3, <2>4 DEF LinesIntact
  <1>5. \A i \in DOMAIN file' : i = new \/ i \in DOMAIN file BY <1>1
  <1>6. \A i \in DOMAIN file' : file'[i].by \in Logger => Fine(i)
    <2> HIDE DEF Fine
    <2> QED BY <1>1, <1>3, <1>4, <1>5
  <1> QED BY <1>6 DEF LinesIntact

\* The same without a piece: each line that was open is failed, or open still.
LEMMA IntactQuiet ==
  ASSUME LinesIntact, file' = file, failed \subseteq failed',
         \A i \in DOMAIN file : file[i].by \in Logger /\ Open(i) =>
           Open(i)' \/ <<file[i].by, file[i].n>> \in failed'
  PROVE  LinesIntact'
  <1>1. \A i, j : Ends(i, j)' <=> Ends(i, j) BY DEF Ends
  <1> SUFFICES ASSUME NEW i \in DOMAIN file, file[i].by \in Logger
               PROVE  \/ \E j \in DOMAIN file : Ends(i, j)' \/ Ends(j, i)'
                      \/ Open(i)' \/ <<file[i].by, file[i].n>> \in failed'
    BY DEF LinesIntact
  <1> QED BY <1>1 DEF LinesIntact

\* A step that neither writes nor takes or frees the mutex.
LEMMA LineQuiet ==
  ASSUME LineInv, UNCHANGED <<file, lock, failed>>,
         \A w \in Logger : stage'[w] \in Writing => stage'[w] = stage[w] /\ message'[w] = message[w],
         \A w \in Logger : stage[w] \in Writing => stage'[w] = stage[w] /\ message'[w] = message[w]
  PROVE  LineInv'
  <1>1. LockInv' BY DEF LineInv, LockInv
  <1>2. TextInv' BY DEF LineInv, TextInv, Writing, OpenLine
  <1>3. \A i : Open(i) => Open(i)' BY DEF Open, Writing, Piece
  <1>4. LinesIntact' BY <1>3, IntactQuiet DEF LineInv
  <1> QED BY <1>1, <1>2, <1>4 DEF LineInv

\* Every step keeps the mutex with who writes, and the lines of the file intact.
LEMMA LineInductive == TypeOK /\ LineInv /\ [Next]_vars => LineInv'
  <1> SUFFICES ASSUME TypeOK, LineInv, [Next]_vars PROVE LineInv' OBVIOUS
  <1>1. stage \in [Logger -> Stages] /\ DOMAIN message = Logger /\ file \in Seq(Pieces)
    BY DEF TypeOK, Stages
  <1>2. LockInv /\ TextInv /\ LinesIntact BY DEF LineInv
  <1>3. CASE UNCHANGED vars
    <2>1. UNCHANGED <<file, lock, failed, stage, message>> BY <1>3 DEF vars, loggerVars
    <2> QED BY <2>1, LineQuiet
  <1>4. CASE SendAlert \/ PeerLeaves \/ Exit
    <2>1. UNCHANGED <<file, lock, failed, stage, message>>
      BY <1>4 DEF SendAlert, PeerLeaves, Exit, loggerVars
    <2> QED BY <2>1, LineQuiet
  <1>5. CASE RecvAlert
    <2>1. /\ stage["alerts"] = "idle" /\ stage' = [stage EXCEPT !["alerts"] = "print"]
          /\ message' = [message EXCEPT !["alerts"] = Head(channel)]
          /\ UNCHANGED <<file, lock, failed>>
      BY <1>5 DEF RecvAlert
    <2> QED BY <1>1, <2>1, LineQuiet DEF Writing, Logger
  <1>6. ASSUME NEW w \in Logger, NEW max, BeginLine(w, max) PROVE LineInv'
    <2>1. /\ stage[w] = "idle" /\ stage' = [stage EXCEPT ![w] = "print"]
          /\ message' = [message EXCEPT ![w] = lines'[w]]
          /\ UNCHANGED <<file, lock, failed>>
      BY <1>6 DEF BeginLine
    <2> QED BY <1>1, <2>1, LineQuiet DEF Writing
  <1>7. CASE BurstDetected BY <1>6, <1>7 DEF BurstDetected, Logger
  <1>8. CASE FlowsRemoved BY <1>6, <1>8 DEF FlowsRemoved, Logger
  \* A step of a user of the Logger that has not the mutex.
  <1>9. ASSUME NEW w \in Logger, NEW t, stage[w] \notin Writing, t \notin Writing,
               stage' = [stage EXCEPT ![w] = t], UNCHANGED <<message, file, lock, failed>>
        PROVE  LineInv'
    BY <1>1, <1>9, LineQuiet
  <1>10. CASE SpawnBurst BY <1>9, <1>10 DEF SpawnBurst, Logger, Writing
  <1>11. CASE SendTcp \/ FallBack \/ SendUdp
    BY <1>9, <1>11 DEF SendTcp, FallBack, SendUdp, Forwarded, Logger, Writing
  <1>12. ASSUME NEW b \in DOMAIN tasks, OpenFails(b) PROVE LineInv'
    <2>1. UNCHANGED <<file, lock, failed, stage, message>> BY <1>12 DEF OpenFails, loggerVars
    <2> QED BY <2>1, LineQuiet
  <1>13. ASSUME NEW b \in DOMAIN tasks, WriteBurst(b) PROVE LineInv'
    <2> DEFINE q == BurstPiece(b, tasks[b])
    <2>1. UNCHANGED <<lock, failed, stage, message>> /\ file' \in {file, Append(file, q)}
      BY <1>13 DEF WriteBurst, loggerVars
    <2>2. q.by \notin Logger BY DEF BurstPiece, Logger
    <2> HIDE DEF q
    <2>3. CASE file' = Append(file, q)
      <3>1. /\ Len(file') = Len(file) + 1 /\ file'[Len(file) + 1] = q
            /\ \A i \in 1 .. Len(file) : file'[i] = file[i]
            /\ DOMAIN file = 1 .. Len(file) /\ Len(file) \in Nat
        BY <1>1, <2>3, AppendAt
      <3>2. ASSUME NEW i \in DOMAIN file, Open(i) PROVE Open(i)'
        <4>1. ASSUME NEW m \in i + 1 .. Len(file') PROVE file'[m].by \notin Logger
          <5>1. CASE m = Len(file) + 1 BY <2>2, <3>1, <5>1
          <5>2. CASE m # Len(file) + 1
            <6>1. m \in i + 1 .. Len(file) /\ m \in 1 .. Len(file) BY <3>1, <5>2
            <6> QED BY <3>1, <3>2, <6>1 DEF Open
          <5> QED BY <5>1, <5>2
        <4>2. file'[i] = file[i] BY <3>1
        <4> QED BY <2>1, <3>2, <4>1, <4>2 DEF Open, Piece
      <3>7. PICK n \in Nat : n = Len(file) + 1 BY <3>1
      <3>3. LinesIntact' BY <1>1, <1>2, <2>1, <2>2, <2>3, <3>2, <3>7, IntactKept
      <3>4. \A p : OpenLine(p) => OpenLine(p)' BY <1>1, <2>2, <2>3, OpenKept
      <3>5. TextInv'
        <4>1. ASSUME NEW w \in Logger, stage'[w] = "newline"
              PROVE  OpenLine(Piece(w, message[w], "text"))'
          BY <1>2, <2>1, <3>4, <4>1 DEF TextInv
        <4>2. \A w : Piece(w, message[w], "text")' = Piece(w, message[w], "text") BY <2>1 DEF Piece
        <4> QED BY <4>1, <4>2 DEF TextInv
      <3>6. LockInv' BY <1>2, <2>1 DEF LockInv
      <3> QED BY <3>3, <3>5, <3>6 DEF LineInv
    <2> QED BY <2>1, <2>3, LineQuiet
  \* The others are not at a line when one is.
  <1>14. \A w, v \in Logger : stage[w] \in Writing /\ v # w => stage[v] \notin Writing
    BY <1>2 DEF LockInv
  <1>15. \A w \in Logger : AfterLine(w) \notin Writing BY DEF AfterLine, Writing
  \* A line is open only to who is to write its newline.
  <1>20. ASSUME NEW i, Open(i), NEW w \in Logger, stage[w] \in Writing
         PROVE  stage[w] = "newline" /\ file[i] = Piece(w, message[w], "text")
    <2>1. PICK v \in Logger : stage[v] = "newline" /\ file[i] = Piece(v, message[v], "text")
      BY <1>20 DEF Open
    <2>2. v = w BY <1>14, <1>20, <2>1 DEF Writing
    <2> QED BY <2>1, <2>2
  <1>21. ASSUME NEW w \in Logger, PrintLine(w) PROVE LineInv'
    BY <1>9, <1>21 DEF PrintLine, Writing
  <1>16. ASSUME NEW w \in Logger, LockFile(w) PROVE LineInv'
    <2>1. UNCHANGED <<file, message, failed>> /\ stage[w] = "lock" BY <1>16 DEF LockFile
    <2>2. CASE LogToFile
      <3>1. lock = None /\ lock' = w /\ stage' = [stage EXCEPT ![w] = "text"] BY <1>16, <2>2 DEF LockFile
      <3>2. \A v \in Logger : stage[v] \notin Writing BY <1>2, <3>1, NoneAssumption DEF LockInv
      <3>3. LockInv' BY <1>1, <3>1, <3>2 DEF LockInv
      <3>4. TextInv' BY <1>1, <3>1, <3>2 DEF TextInv, Writing
      <3>5. \A i : ~ Open(i) BY <3>2 DEF Open, Writing
      <3>6. LinesIntact' BY <1>2, <2>1, <3>5, IntactQuiet
      <3> QED BY <3>3, <3>4, <3>6 DEF LineInv
    <2>3. CASE ~ LogToFile
      <3>1. lock' = lock /\ stage' = [stage EXCEPT ![w] = AfterLine(w)] BY <1>16, <2>3 DEF LockFile
      <3>2. stage[w] \notin Writing BY <2>1 DEF Writing
      <3> QED BY <1>9, <1>15, <2>1, <3>1, <3>2
    <2> QED BY <2>2, <2>3
  <1>17. ASSUME NEW w \in Logger, WriteText(w) PROVE LineInv'
    <2>1. stage[w] = "text" /\ stage[w] \in Writing /\ UNCHANGED <<lock, message>>
      BY <1>17 DEF WriteText, Writing
    <2>2. \A i : ~ Open(i) BY <1>20, <2>1
    <2>3. CASE /\ file' = Append(file, Piece(w, message[w], "text")) /\ failed' = failed
               /\ stage' = [stage EXCEPT ![w] = "newline"]
      <3> DEFINE q == Piece(w, message[w], "text")
      <3>1. /\ Len(file') = Len(file) + 1 /\ DOMAIN file' = 1 .. Len(file) + 1
            /\ file'[Len(file) + 1] = q /\ Len(file) \in Nat
        BY <1>1, <2>3, AppendAt
      <3>9. PICK n \in Nat : n = Len(file) + 1 BY <3>1
      <3>2. q' = q BY <2>1 DEF Piece
      <3> HIDE DEF q
      <3>3. OpenLine(q)' BY <3>1, <3>2 DEF OpenLine
      <3>4. stage'[w] = "newline" BY <1>1, <2>3
      <3>5. Open(n)' BY <2>1, <3>1, <3>4, <3>9 DEF Open, q, Piece
      <3>6. LinesIntact' BY <1>1, <1>2, <2>2, <2>3, <3>5, <3>9, IntactKept DEF q
      <3>7. LockInv' BY <1>1, <1>2, <2>1, <2>3 DEF LockInv
      <3>8. TextInv'
        <4>1. ASSUME NEW v \in Logger, stage'[v] = "newline" PROVE v = w
          BY <1>1, <1>14, <2>1, <2>3, <4>1 DEF Writing
        <4> QED BY <3>3, <4>1 DEF TextInv, q
      <3> QED BY <3>6, <3>7, <3>8 DEF LineInv
    <2>4. CASE /\ file' \in {file, Append(file, Piece(w, message[w], "part"))}
               /\ failed' = failed \cup {<<w, message[w]>>}
               /\ stage' = [stage EXCEPT ![w] = "unlock"]
      <3> DEFINE q == Piece(w, message[w], "part")
      <3>1. q.by = w /\ q.n = message[w] BY DEF Piece
      <3> HIDE DEF q
      <3>2. <<q.by, q.n>> \in failed' BY <2>4, <3>1
      <3>3. LinesIntact'
        <4>1. CASE file' = file BY <1>2, <2>2, <2>4, <4>1, IntactQuiet
        <4>2. CASE file' = Append(file, q)
          <5>1. PICK n : n = Len(file) + 1 OBVIOUS
          <5> QED BY <1>1, <1>2, <2>2, <2>4, <3>2, <4>2, <5>1, IntactKept
        <4> QED BY <2>4, <4>1, <4>2 DEF q
      <3>4. LockInv' BY <1>1, <1>2, <2>1, <2>4 DEF LockInv
      <3>5. TextInv' BY <1>1, <1>14, <2>1, <2>4 DEF TextInv, Writing
      <3> QED BY <3>3, <3>4, <3>5 DEF LineInv
    <2> QED BY <1>17, <2>3, <2>4 DEF WriteText
  <1>18. ASSUME NEW w \in Logger, WriteNewline(w) PROVE LineInv'
    <2>1. /\ stage[w] = "newline" /\ stage[w] \in Writing
          /\ stage' = [stage EXCEPT ![w] = "unlock"] /\ UNCHANGED <<lock, message>>
      BY <1>18 DEF WriteNewline, Writing
    <2> DEFINE p == Piece(w, message[w], "text")
               q == Piece(w, message[w], "newline")
    <2>2. /\ q = [p EXCEPT !.part = "newline"] /\ p.part = "text"
          /\ p.by = w /\ p.n = message[w]
      BY DEF Piece
    <2>3. OpenLine(p) BY <1>2, <2>1 DEF TextInv
    <2>4. \A i : Open(i) => file[i] = p BY <1>20, <2>1
    <2> HIDE DEF p, q
    <2>5. ASSUME file' = file, failed' = failed \cup {<<w, message[w]>>} PROVE LinesIntact'
      BY <1>2, <2>2, <2>4, <2>5, IntactQuiet
    <2>6. ASSUME file' = Append(file, q), failed' = failed PROVE LinesIntact'
      <3>1. /\ Len(file') = Len(file) + 1 /\ file'[Len(file) + 1] = q
            /\ \A i \in 1 .. Len(file) : file'[i] = file[i]
            /\ DOMAIN file = 1 .. Len(file) /\ Len(file) \in Nat
        BY <1>1, <2>6, AppendAt
      <3>5. PICK n \in Nat : n = Len(file) + 1 BY <3>1
      <3>2. ASSUME NEW i \in DOMAIN file, file[i] = p,
                   \A m \in i + 1 .. Len(file) : file[m].by \notin Logger
            PROVE  Ends(i, n)'
        <4>1. ASSUME NEW m \in i + 1 .. n - 1 PROVE file'[m].by \notin Logger
          <5>1. m \in i + 1 .. Len(file) /\ m \in 1 .. Len(file) BY <3>1, <3>5
          <5> QED BY <3>1, <3>2, <5>1
        <4>2. i < n /\ file'[i] = p /\ file'[n] = q BY <3>1, <3>2, <3>5
        <4> QED BY <2>2, <4>1, <4>2 DEF Ends
      <3>3. \E i \in DOMAIN file : Ends(i, n)' BY <2>3, <3>2 DEF OpenLine
      <3>4. \A i \in DOMAIN file : Open(i) => Ends(i, n)' BY <2>4, <3>2 DEF Open
      <3> QED BY <1>1, <1>2, <2>6, <3>3, <3>4, <3>5, IntactKept
    <2>7. LinesIntact' BY <1>18, <2>5, <2>6 DEF WriteNewline, q
    <2>8. LockInv' BY <1>1, <1>2, <2>1 DEF LockInv
    <2>9. TextInv' BY <1>1, <1>14, <2>1 DEF TextInv, Writing
    <2> QED BY <2>7, <2>8, <2>9 DEF LineInv
  <1>19. ASSUME NEW w \in Logger, UnlockFile(w) PROVE LineInv'
    <2>1. /\ stage[w] = "unlock" /\ stage[w] \in Writing /\ UNCHANGED <<file, message, failed>>
          /\ stage' = [stage EXCEPT ![w] = AfterLine(w)]
      BY <1>19 DEF UnlockFile, Writing
    <2>2. \A v \in Logger : stage'[v] \notin Writing BY <1>1, <1>14, <1>15, <2>1
    <2>3. LockInv' BY <2>2 DEF LockInv
    <2>4. TextInv' BY <2>2 DEF TextInv, Writing
    <2>5. \A i : ~ Open(i) BY <1>20, <2>1
    <2>6. LinesIntact' BY <1>2, <2>1, <2>5, IntactQuiet
    <2> QED BY <2>3, <2>4, <2>6 DEF LineInv
  <1> QED BY <1>3, <1>4, <1>5, <1>7, <1>8, <1>10, <1>11, <1>12, <1>13, <1>16, <1>17, <1>18, <1>19,
             <1>21, Steps

\* The mutex of Logger::log keeps the lines of the alert loop, the processor and the cleanup apart,
\* however many burst tasks write beside them: a line no write of which failed is whole, and
\* one that a failed write has cut short is run into by the next of the Logger at most.
THEOREM LinesStayApart == Spec => []LinesIntact
  <1>1. Init => LineInv
    BY DEF Init, LineInv, LockInv, TextInv, LinesIntact, Writing
  <1>2. LineInv => LinesIntact BY DEF LineInv
  <1> QED BY <1>1, <1>2, ReportingTypes, LineInductive, PTL DEF Spec

----------------------------------------------------------------------------
(* The pieces of the bursts.                                               *)

\* What is in the file of a burst its task has written, in a step it has behind it.
WrittenInv == \A i \in DOMAIN file : file[i].by = "burst" =>
                 file[i].n \in DOMAIN tasks /\ file[i].k < tasks[file[i].n]

FollowInv == WrittenInv /\ BurstsFollowLines

\* A piece may be added that is no packet of a burst and no line about one that has a task,
\* or that is the next of its burst.
LEMMA FollowKept ==
  ASSUME file \in Seq(Pieces), BurstsFollowLines, WrittenInv, NEW q, file' = Append(file, q),
         q.by = "processor" => q.n \notin DOMAIN tasks,
         q.by = "burst" => q.k = tasks[q.n]
  PROVE  BurstsFollowLines'
  <1>1. /\ Len(file') = Len(file) + 1 /\ DOMAIN file' = 1 .. Len(file) + 1
        /\ file'[Len(file) + 1] = q
        /\ \A i \in 1 .. Len(file) : file'[i] = file[i]
        /\ DOMAIN file = 1 .. Len(file) /\ Len(file) \in Nat
    BY AppendAt
  <1> SUFFICES ASSUME NEW i \in DOMAIN file', NEW j \in DOMAIN file',
                      i < j, file'[i].by = "burst", file'[j].n = file'[i].n
               PROVE  /\ file'[j].by # "processor"
                      /\ file'[j].by = "burst" => file'[i].k < file'[j].k
    BY DEF BurstsFollowLines
  <1>2. i \in 1 .. Len(file) /\ file'[i] = file[i] BY <1>1
  <1>3. CASE j = Len(file) + 1
    <2>1. file'[j] = q BY <1>1, <1>3
    <2>2. file[i].n \in DOMAIN tasks /\ file[i].k < tasks[file[i].n] BY <1>1, <1>2 DEF WrittenInv
    <2> QED BY <1>2, <2>1, <2>2
  <1>4. CASE j # Len(file) + 1
    <2>1. j \in 1 .. Len(file) /\ file'[j] = file[j] BY <1>1, <1>4
    <2> QED BY <1>1, <1>2, <2>1 DEF BurstsFollowLines
  <1> QED BY <1>3, <1>4

\* A step that writes nothing and sets no task back.
LEMMA FollowQuiet ==
  ASSUME FollowInv, file' = file,
         \A b \in DOMAIN tasks : b \in DOMAIN tasks' /\
           \A k : (\E i \in DOMAIN file : k = file[i].k) /\ k < tasks[b] => k < tasks'[b]
  PROVE  FollowInv'
  <1>1. BurstsFollowLines' BY DEF FollowInv, BurstsFollowLines
  <1>2. WrittenInv' BY DEF FollowInv, WrittenInv
  <1> QED BY <1>1, <1>2 DEF FollowInv

\* Every step keeps the bursts in order and behind the lines that announce them.
LEMMA FollowInductive == ControlInv /\ FollowInv /\ [Next]_vars => FollowInv'
  <1> SUFFICES ASSUME ControlInv, FollowInv, [Next]_vars PROVE FollowInv' OBVIOUS
  <1> USE ReportingAssumption
  <1>1. /\ file \in Seq(Pieces) /\ DOMAIN tasks \subseteq 1 .. MaxBursts
        /\ \A b \in DOMAIN tasks : tasks[b] \in 0 .. Entries + 2
        /\ \A i \in DOMAIN file : file[i] \in Pieces
    BY DEF ControlInv, TypeOK
  <1>2. BurstsFollowLines /\ WrittenInv BY DEF FollowInv
  <1>3. ASSUME UNCHANGED <<file, tasks>> PROVE FollowInv'
    BY <1>3, FollowQuiet
  <1>4. CASE UNCHANGED vars BY <1>3, <1>4 DEF vars
  <1>5. CASE SendAlert \/ RecvAlert \/ PeerLeaves \/ Exit
    BY <1>3, <1>5 DEF SendAlert, RecvAlert, PeerLeaves, Exit
  <1>6. CASE BurstDetected \/ FlowsRemoved BY <1>3, <1>6 DEF BurstDetected, FlowsRemoved, BeginLine
  <1>7. CASE SendTcp \/ FallBack \/ SendUdp
    BY <1>3, <1>7 DEF SendTcp, FallBack, SendUdp, Forwarded
  <1>8. CASE SpawnBurst
    <2>1. message["processor"] \notin DOMAIN tasks BY <1>8 DEF SpawnBurst, ControlInv, BurstInv
    <2>2. /\ file' = file
          /\ tasks' = [b \in DOMAIN tasks \cup {message["processor"]} |->
                         IF b = message["processor"] THEN 0 ELSE tasks[b]]
      BY <1>8 DEF SpawnBurst
    <2>3. \A b \in DOMAIN tasks : b \in DOMAIN tasks' /\ tasks'[b] = tasks[b] BY <2>1, <2>2
    <2> QED BY <2>2, <2>3, FollowQuiet
  <1>9. ASSUME NEW b \in DOMAIN tasks, OpenFails(b) PROVE FollowInv'
    <2>1. /\ tasks[b] = 0 /\ tasks' = [tasks EXCEPT ![b] = Entries + 2] /\ file' = file
      BY <1>9 DEF OpenFails
    <2>2. \A i \in DOMAIN file : file[i].k < Entries + 2 BY <1>1 DEF Pieces, BurstPieces
    <2>3. \A c \in DOMAIN tasks : c \in DOMAIN tasks' /\
            tasks'[c] = IF c = b THEN Entries + 2 ELSE tasks[c]
      BY <2>1
    <2> QED BY <2>1, <2>2, <2>3, FollowQuiet
  <1>10. ASSUME NEW b \in DOMAIN tasks, WriteBurst(b) PROVE FollowInv'
    <2> DEFINE q == BurstPiece(b, tasks[b])
    <2>1. /\ tasks' = [tasks EXCEPT ![b] = tasks[b] + 1] /\ file' \in {file, Append(file, q)}
          /\ tasks[b] \in Nat
      BY <1>1, <1>10 DEF WriteBurst
    <2>2. \A c \in DOMAIN tasks : c \in DOMAIN tasks' /\
            tasks'[c] = IF c = b THEN tasks[b] + 1 ELSE tasks[c]
      BY <2>1
    <2>3. \A i \in DOMAIN file : file[i].k \in Nat BY <1>1 DEF Pieces, BurstPieces
    <2>4. CASE file' = file BY <1>1, <2>1, <2>2, <2>3, <2>4, FollowQuiet
    <2>5. CASE file' = Append(file, q)
      <3>1. q.by = "burst" /\ q.n = b /\ q.k = tasks[b] BY DEF BurstPiece
      <3> HIDE DEF q
      <3>2. BurstsFollowLines' BY <1>1, <1>2, <2>5, <3>1, FollowKept
      <3>3. ASSUME NEW i \in DOMAIN file', file'[i].by = "burst"
            PROVE  file'[i].n \in DOMAIN tasks' /\ file'[i].k < tasks'[file'[i].n]
        <4>1. /\ Len(file') = Len(file) + 1 /\ DOMAIN file' = 1 .. Len(file) + 1
              /\ file'[Len(file) + 1] = q
              /\ \A m \in 1 .. Len(file) : file'[m] = file[m]
              /\ DOMAIN file = 1 .. Len(file) /\ Len(file) \in Nat
          BY <1>1, <2>5, AppendAt
        <4>2. CASE i = Len(file) + 1 BY <2>1, <2>2, <3>1, <4>1, <4>2
        <4>3. CASE i # Len(file) + 1
          <5>1. i \in DOMAIN file /\ file'[i] = file[i] BY <4>1, <4>3
          <5>2. file[i].n \in DOMAIN tasks /\ file[i].k < tasks[file[i].n]
            BY <1>2, <3>3, <5>1 DEF WrittenInv
          <5> QED BY <2>1, <2>2, <2>3, <5>1, <5>2
        <4> QED BY <4>2, <4>3
      <3> QED BY <3>2, <3>3 DEF FollowInv, WrittenInv
    <2> QED BY <2>1, <2>4, <2>5
  \* The Logger writes no packets, and the processor's line is about a burst without a task.
  <1>11. ASSUME NEW w \in Logger, NEW p \in {"text", "newline", "part"}, stage[w] # "idle",
                file' = Append(file, Piece(w, message[w], p)), tasks' = tasks
         PROVE  FollowInv'
    <2> DEFINE q == Piece(w, message[w], p)
    <2>1. q.by # "burst" /\ (q.by = "processor" => q.n \notin DOMAIN tasks)
      BY <1>11 DEF Piece, Logger, ControlInv, BurstInv
    <2>2. file' = Append(file, q) BY <1>11
    <2> HIDE DEF q
    <2>3. BurstsFollowLines' BY <1>1, <1>2, <2>1, <2>2, FollowKept
    <2>4. ASSUME NEW i \in DOMAIN file', file'[i].by = "burst"
          PROVE  file'[i].n \in DOMAIN tasks /\ file'[i].k < tasks[file'[i].n]
      <3>1. /\ DOMAIN file' = 1 .. Len(file) + 1 /\ file'[Len(file) + 1] = q
            /\ \A m \in 1 .. Len(file) : file'[m] = file[m]
            /\ DOMAIN file = 1 .. Len(file) /\ Len(file) \in Nat
        BY <1>1, <2>2, AppendAt
      <3>2. i # Len(file) + 1 BY <2>1, <2>4, <3>1
      <3> QED BY <1>2, <2>4, <3>1, <3>2 DEF WrittenInv
    <2> QED BY <1>11, <2>3, <2>4 DEF FollowInv, WrittenInv
  <1>12. ASSUME NEW w \in Logger, PrintLine(w) \/ LockFile(w) \/ UnlockFile(w) PROVE FollowInv'
    BY <1>3, <1>12 DEF PrintLine, LockFile, UnlockFile
  <1>13. ASSUME NEW w \in Logger, WriteText(w) PROVE FollowInv'
    BY <1>3, <1>11, <1>13 DEF WriteText
  <1>14. ASSUME NEW w \in Logger, WriteNewline(w) PROVE FollowInv'
    BY <1>3, <1>11, <1>14 DEF WriteNewline
  <1> QED BY <1>4, <1>5, <1>6, <1>7, <1>8, <1>9, <1>10, <1>12, <1>13, <1>14, Steps

\* The packets of log_burst follow the processor's line about their burst, in order: the
\* processor spawns the task when its line is written, and a burst has one task.
THEOREM PacketsAfterLine == Spec => []BurstsFollowLines
  <1>1. Init => FollowInv
    BY DEF Init, FollowInv, WrittenInv, BurstsFollowLines
  <1>2. FollowInv => BurstsFollowLines BY DEF FollowInv
  <1> QED BY <1>1, <1>2, ReportingControl, FollowInductive, PTL DEF Spec

----------------------------------------------------------------------------
(* What the forwarder has sent.                                            *)

\* The first n alerts, each terminated by a newline.
Whole(n) == [i \in 1 .. 2 * n |-> Piece("tcp", (i + 1) \div 2, IF i % 2 = 1 THEN "text" ELSE "newline")]

TailOnly(s) ==
  \A i \in DOMAIN s :
    /\ s[i].part = "part" => i = Len(s)
    /\ (s[i].part = "text" /\ i < Len(s)) => s[i + 1] = [s[i] EXCEPT !.part = "newline"]

\* The alerts of a stream come in order and are among the first n.
InOrder(s, n) ==
  \A i \in DOMAIN s : s[i].part = "text" =>
    s[i].n \in 1 .. n /\ \A j \in DOMAIN s : i < j /\ s[j].part = "text" => s[i].n < s[j].n

\* While no write has failed the stream is whole, and while there is a stream no datagram is
\* sent.  A datagram is later than all before it and than all of the stream.
StreamFits(link, tcp, s, g, n) ==
  /\ link # "dead" => tcp /\ s = Whole(n)
  /\ tcp => g = <<>>
  /\ TailOnly(s) /\ InOrder(s, n)
  /\ \A i \in DOMAIN g :
       /\ g[i] \in 1 .. n
       /\ \A j \in DOMAIN g : i < j => g[i] < g[j]
       /\ \A j \in DOMAIN s : s[j].part = "text" => s[j].n < g[i]

StreamInv == StreamFits(peer, tcp_stream, stream, datagrams, Done)

\* The invariant after a step is the same of the new values.
LEMMA StreamPrimed == StreamInv' <=> StreamFits(peer', tcp_stream', stream', datagrams', Done')
  BY DEF StreamInv, StreamFits, TailOnly, InOrder, Whole, Piece

\* A whole stream is a sequence of two pieces an alert.
LEMMA WholeAt ==
  ASSUME NEW n \in Nat
  PROVE  /\ Whole(n) \in Seq(Pieces) /\ Len(Whole(n)) = 2 * n /\ DOMAIN Whole(n) = 1 .. 2 * n
         /\ \A i \in 1 .. 2 * n :
              Whole(n)[i] = Piece("tcp", (i + 1) \div 2, IF i % 2 = 1 THEN "text" ELSE "newline")
  <1>1. \A i \in 1 .. 2 * n : (i + 1) \div 2 \in Nat OBVIOUS
  <1>2. \A i \in 1 .. 2 * n :
          Piece("tcp", (i + 1) \div 2, IF i % 2 = 1 THEN "text" ELSE "newline") \in Pieces
    BY <1>1, PieceTyped
  <1>3. Whole(n) \in [1 .. 2 * n -> Pieces] BY <1>2 DEF Whole
  <1>4. 2 * n \in Nat OBVIOUS
  <1>5. Whole(n) \in Seq(Pieces) BY <1>3, <1>4
  <1>6. DOMAIN Whole(n) = 1 .. 2 * n BY DEF Whole
  <1>7. Len(Whole(n)) = 2 * n BY <1>4, <1>5, <1>6
  <1> QED BY <1>5, <1>6, <1>7 DEF Whole

\* The next alert and its newline make the stream whole again.
LEMMA WholeGrows ==
  ASSUME NEW n \in Nat
  PROVE  Append(Append(Whole(n), Piece("tcp", n + 1, "text")), Piece("tcp", n + 1, "newline")) = Whole(n + 1)
  <1> DEFINE p == Piece("tcp", n + 1, "text")
             q == Piece("tcp", n + 1, "newline")
             w == Whole(n)
             s == Append(w, p)
             t == Append(s, q)
             at(i) == Piece("tcp", (i + 1) \div 2, IF i % 2 = 1 THEN "text" ELSE "newline")
  <1>1. p \in Pieces /\ q \in Pieces BY PieceTyped
  <1>2. /\ w \in Seq(Pieces) /\ Len(w) = 2 * n /\ DOMAIN w = 1 .. 2 * n
        /\ \A i \in 1 .. 2 * n : w[i] = at(i)
    BY WholeAt
  <1>3. n + 1 \in Nat /\ 2 * (n + 1) = 2 * n + 2 OBVIOUS
  <1>4. /\ Whole(n + 1) \in Seq(Pieces) /\ Len(Whole(n + 1)) = 2 * (n + 1)
        /\ \A i \in 1 .. 2 * (n + 1) : Whole(n + 1)[i] = at(i)
    BY <1>3, WholeAt
  <1>5. at(2 * n + 1) = p
    <2>1. (2 * n + 1 + 1) \div 2 = n + 1 /\ (2 * n + 1) % 2 = 1 OBVIOUS
    <2> QED BY <2>1
  <1>6. at(2 * n + 2) = q
    <2>1. (2 * n + 2 + 1) \div 2 = n + 1 /\ (2 * n + 2) % 2 # 1 OBVIOUS
    <2> QED BY <2>1
  <1> HIDE DEF p, q, w, at
  <1>7. s \in Seq(Pieces) BY <1>1, <1>2, AppendTyped
  <1>8. /\ Len(s) = 2 * n + 1 /\ s[2 * n + 1] = p
        /\ \A i \in 1 .. 2 * n : s[i] = w[i]
    BY <1>1, <1>2, AppendAt
  <1> HIDE DEF s
  <1>9. t \in Seq(Pieces) BY <1>1, <1>7, AppendTyped
  <1>10. /\ Len(t) = 2 * n + 2 /\ t[2 * n + 2] = q
         /\ \A i \in 1 .. 2 * n + 1 : t[i] = s[i]
    BY <1>1, <1>7, <1>8, AppendAt
  <1> HIDE DEF t
  <1>11. ASSUME NEW i \in 1 .. 2 * n + 2 PROVE t[i] = Whole(n + 1)[i]
    <2>1. Whole(n + 1)[i] = at(i) BY <1>3, <1>4
    <2>2. CASE i = 2 * n + 2 BY <1>6, <1>10, <2>1, <2>2
    <2>3. CASE i = 2 * n + 1 BY <1>5, <1>8, <1>10, <2>1, <2>3
    <2>4. CASE i \in 1 .. 2 * n BY <1>2, <1>8, <1>10, <2>1, <2>4
    <2> QED BY <2>2, <2>3, <2>4
  <1>12. t = Whole(n + 1) BY <1>3, <1>4, <1>9, <1>10, <1>11
  <1> QED BY <1>12 DEF t, s, w, p, q

\* A whole stream is torn nowhere and in order.
LEMMA WholeFine == \A n \in Nat : TailOnly(Whole(n)) /\ InOrder(Whole(n), n)
  <1> SUFFICES ASSUME NEW n \in Nat PROVE TailOnly(Whole(n)) /\ InOrder(Whole(n), n) OBVIOUS
  <1>1. ASSUME NEW i \in 1 .. 2 * n
        PROVE  /\ Whole(n)[i].n = (i + 1) \div 2 /\ Whole(n)[i].part # "part"
               /\ Whole(n)[i].part = "text" <=> i % 2 = 1
               /\ Whole(n)[i].part = "text" => i + 1 \in 1 .. 2 * n /\ (i + 1) \div 2 \in 1 .. n
    <2>1. Whole(n)[i] = Piece("tcp", (i + 1) \div 2, IF i % 2 = 1 THEN "text" ELSE "newline")
      BY WholeAt
    <2>2. i % 2 = 1 => i + 1 \in 1 .. 2 * n /\ (i + 1) \div 2 \in 1 .. n OBVIOUS
    <2> QED BY <2>1, <2>2 DEF Piece
  <1>2. TailOnly(Whole(n))
    <2> SUFFICES ASSUME NEW i \in 1 .. 2 * n, Whole(n)[i].part = "text"
                 PROVE  Whole(n)[i + 1] = [Whole(n)[i] EXCEPT !.part = "newline"]
      BY <1>1, WholeAt DEF TailOnly
    <2>1. i % 2 = 1 /\ i + 1 \in 1 .. 2 * n BY <1>1
    <2>2. (i + 1) % 2 # 1 /\ (i + 1 + 1) \div 2 = (i + 1) \div 2 BY <2>1
    <2>3. Whole(n)[i] = Piece("tcp", (i + 1) \div 2, "text") BY <2>1, WholeAt
    <2>4. Whole(n)[i + 1] = Piece("tcp", (i + 1) \div 2, "newline") BY <2>1, <2>2, WholeAt
    <2> QED BY <2>3, <2>4 DEF Piece
  <1>3. InOrder(Whole(n), n)
    <2> SUFFICES ASSUME NEW i \in 1 .. 2 * n, Whole(n)[i].part = "text"
                 PROVE  /\ Whole(n)[i].n \in 1 .. n
                        /\ \A j \in 1 .. 2 * n : i < j /\ Whole(n)[j].part = "text" => Whole(n)[i].n < Whole(n)[j].n
      BY WholeAt DEF InOrder
    <2>1. Whole(n)[i].n = (i + 1) \div 2 /\ (i + 1) \div 2 \in 1 .. n /\ i % 2 = 1 BY <1>1
    <2>2. ASSUME NEW j \in 1 .. 2 * n, i < j, Whole(n)[j].part = "text" PROVE Whole(n)[i].n < Whole(n)[j].n
      <3>1. Whole(n)[j].n = (j + 1) \div 2 /\ j % 2 = 1 BY <1>1, <2>2
      <3>2. (i + 1) \div 2 < (j + 1) \div 2 BY <2>1, <2>2, <3>1
      <3> QED BY <2>1, <3>1, <3>2
    <2> QED BY <2>1, <2>2
  <1> QED BY <1>2, <1>3

\* A whole stream may end in a piece of the next alert.
LEMMA TornFine ==
  ASSUME NEW n \in Nat, NEW p \in {"text", "part"}
  PROVE  LET s == Append(Whole(n), Piece("tcp", n + 1, p))
         IN  TailOnly(s) /\ InOrder(s, n + 1) /\ (p = "part" => InOrder(s, n))
  <1> DEFINE q == Piece("tcp", n + 1, p)
             w == Whole(n)
             s == Append(w, q)
  <1>1. q.n = n + 1 /\ q.part = p BY DEF Piece
  <1>2. w \in Seq(Pieces) /\ Len(w) = 2 * n /\ DOMAIN w = 1 .. 2 * n BY WholeAt
  <1>3. TailOnly(w) /\ InOrder(w, n) BY WholeFine
  <1>4. ASSUME NEW i \in 1 .. 2 * n PROVE w[i].part # "part" /\ (w[i].part = "text" => i # 2 * n)
    <2>1. w[i] = Piece("tcp", (i + 1) \div 2, IF i % 2 = 1 THEN "text" ELSE "newline") BY WholeAt
    <2>2. i = 2 * n => i % 2 # 1 OBVIOUS
    <2> QED BY <2>1, <2>2 DEF Piece
  <1> HIDE DEF q, w
  <1>5. /\ Len(s) = 2 * n + 1 /\ DOMAIN s = 1 .. 2 * n + 1 /\ s[2 * n + 1] = q
        /\ \A i \in 1 .. 2 * n : s[i] = w[i]
    BY <1>2, AppendAt
  <1> HIDE DEF s
  <1>6. TailOnly(s)
    <2> SUFFICES ASSUME NEW i \in 1 .. 2 * n + 1
                 PROVE  /\ s[i].part = "part" => i = 2 * n + 1
                        /\ (s[i].part = "text" /\ i < 2 * n + 1) => s[i + 1] = [s[i] EXCEPT !.part = "newline"]
      BY <1>5 DEF TailOnly
    <2>1. CASE i = 2 * n + 1 BY <2>1
    <2>2. CASE i \in 1 .. 2 * n
      <3>1. w[i].part # "part" BY <1>4, <2>2
      <3>2. w[i].part = "text" => i + 1 \in 1 .. 2 * n /\ w[i + 1] = [w[i] EXCEPT !.part = "newline"]
        BY <1>2, <1>3, <1>4, <2>2 DEF TailOnly
      <3> QED BY <1>5, <2>2, <3>1, <3>2
    <2> QED BY <2>1, <2>2
  <1>7. ASSUME NEW i \in 1 .. 2 * n, s[i].part = "text" PROVE s[i].n \in 1 .. n
    BY <1>2, <1>3, <1>5, <1>7 DEF InOrder
  <1>8. InOrder(s, n + 1)
    <2> SUFFICES ASSUME NEW i \in 1 .. 2 * n + 1, s[i].part = "text"
                 PROVE  /\ s[i].n \in 1 .. n + 1
                        /\ \A j \in 1 .. 2 * n + 1 : i < j /\ s[j].part = "text" => s[i].n < s[j].n
      BY <1>5 DEF InOrder
    <2>1. CASE i = 2 * n + 1 BY <1>1, <1>5, <2>1
    <2>2. CASE i \in 1 .. 2 * n
      <3>1. s[i].n \in 1 .. n BY <1>7, <2>2
      <3>2. ASSUME NEW j \in 1 .. 2 * n + 1, i < j, s[j].part = "text" PROVE s[i].n < s[j].n
        <4>1. CASE j = 2 * n + 1 BY <1>1, <1>5, <3>1, <4>1
        <4>2. CASE j \in 1 .. 2 * n BY <1>2, <1>3, <1>5, <2>2, <3>2, <4>2 DEF InOrder
        <4> QED BY <4>1, <4>2
      <3> QED BY <3>1, <3>2
    <2> QED BY <2>1, <2>2
  <1>9. ASSUME p = "part" PROVE InOrder(s, n)
    <2> SUFFICES ASSUME NEW i \in 1 .. 2 * n + 1, s[i].part = "text"
                 PROVE  /\ s[i].n \in 1 .. n
                        /\ \A j \in 1 .. 2 * n + 1 : i < j /\ s[j].part = "text" => s[i].n < s[j].n
      BY <1>5 DEF InOrder
    <2>1. i \in 1 .. 2 * n BY <1>1, <1>5, <1>9
    <2>2. \A j \in 1 .. 2 * n + 1 : i < j /\ s[j].part = "text" => s[i].n < s[j].n
      BY <1>5, <1>8 DEF InOrder
    <2> QED BY <1>7, <2>1, <2>2
  <1> QED BY <1>6, <1>8, <1>9 DEF s, w, q

\* Steps that neither forward nor lose the peer leave the loop where it is with the alerts.
LEMMA StreamQuiet ==
  ASSUME StreamInv, Done' = Done, UNCHANGED <<tcp_stream, stream, datagrams>>,
         peer' # "dead" => peer # "dead"
  PROVE  StreamInv'
  <1>1. StreamFits(peer, tcp_stream, stream, datagrams, Done) BY DEF StreamInv
  <1>2. StreamFits(peer', tcp_stream', stream', datagrams', Done') BY <1>1 DEF StreamFits
  <1> QED BY <1>2, StreamPrimed

\* The alert the loop holds is the next to be done with, and then is.
LEMMA DoneCounts ==
  /\ TypeOK /\ AlertInv => Done \in Nat
  /\ TypeOK /\ AlertInv /\ Forwarded => message["alerts"] = Done + 1 /\ Done' = Done + 1
  <1> SUFFICES ASSUME TypeOK, AlertInv
               PROVE  Done \in Nat /\ (Forwarded => message["alerts"] = Done + 1 /\ Done' = Done + 1)
    OBVIOUS
  <1>1. /\ channel \in Seq(1 .. MaxAlerts) /\ generated \in Nat /\ MaxAlerts \in Nat
        /\ stage \in [Logger -> Stages] /\ "alerts" \in Logger
    BY ReportingAssumption DEF TypeOK, Stages, Logger
  <1>2. Len(channel) \in Nat BY <1>1
  <1>3. /\ Len(channel) <= generated
        /\ stage["alerts"] # "idle" =>
             message["alerts"] = generated - Len(channel) /\ message["alerts"] \in 1 .. MaxAlerts
    BY DEF AlertInv
  <1>4. Done \in Nat BY <1>1, <1>2, <1>3 DEF Done
  <1>5. ASSUME Forwarded PROVE message["alerts"] = Done + 1 /\ Done' = Done + 1
    <2>1. /\ stage["alerts"] # "idle" /\ stage'["alerts"] = "idle"
          /\ UNCHANGED <<generated, channel, message>>
      BY <1>1, <1>5 DEF Forwarded
    <2>2. Done' = generated - Len(channel) BY <2>1 DEF Done
    <2>3. Done = message["alerts"] - 1 BY <2>1 DEF Done
    <2> QED BY <1>1, <1>2, <1>3, <2>1, <2>2, <2>3
  <1> QED BY <1>4, <1>5

\* What is in order among the first n alerts is among the first n + 1.
LEMMA OrderGrows ==
  ASSUME NEW s, NEW n \in Nat, InOrder(s, n) PROVE InOrder(s, n + 1)
  <1>1. \A m \in 1 .. n : m \in 1 .. n + 1 OBVIOUS
  <1> QED BY <1>1 DEF InOrder

\* Every step keeps what the forwarder has sent as described.
LEMMA StreamInductive == ControlInv /\ StreamInv /\ [Next]_vars => StreamInv'
  <1> SUFFICES ASSUME ControlInv, StreamInv, [Next]_vars PROVE StreamInv' OBVIOUS
  <1> DEFINE d == Done
             m == message["alerts"]
  <1>1. /\ TypeOK /\ AlertInv /\ BurstInv /\ StageInv /\ generated \in Nat
        /\ channel \in Seq(1 .. MaxAlerts) /\ Len(channel) \in Nat
        /\ stage \in [Logger -> Stages] /\ "alerts" \in Logger /\ DOMAIN message = Logger
        /\ datagrams \in Seq(1 .. MaxAlerts)
    BY DEF ControlInv, TypeOK, Stages, Logger
  <1>2. d \in Nat BY <1>1, DoneCounts
  <1>3. /\ peer # "dead" => tcp_stream /\ stream = Whole(d)
        /\ tcp_stream => datagrams = <<>>
        /\ TailOnly(stream) /\ InOrder(stream, d)
    BY DEF StreamInv, StreamFits
  \* Steps that do not forward.
  <1>4. ASSUME UNCHANGED <<generated, channel, stage, message, forwardVars, peer>> PROVE StreamInv'
    <2>1. Done' = Done BY <1>4 DEF Done
    <2> QED BY <1>4, <2>1, StreamQuiet DEF forwardVars
  <1>5. CASE UNCHANGED vars
    <2>1. UNCHANGED <<generated, channel, stage, message, forwardVars, peer>>
      BY <1>5 DEF vars, loggerVars
    <2> QED BY <1>4, <2>1
  <1>6. CASE SendAlert
    <2>1. /\ generated' = generated + 1 /\ channel' = Append(channel, generated + 1)
          /\ UNCHANGED <<stage, message, forwardVars, peer>>
      BY <1>6 DEF SendAlert, loggerVars
    <2>2. Len(channel') = Len(channel) + 1 BY <1>1, <2>1, AppendAt
    <2>3. generated' - Len(channel') = generated - Len(channel) BY <1>1, <2>1, <2>2
    <2>4. Done' = Done BY <2>1, <2>3 DEF Done
    <2> QED BY <2>1, <2>4, StreamQuiet DEF forwardVars
  <1>7. CASE RecvAlert
    <2>1. /\ stage["alerts"] = "idle" /\ channel # <<>>
          /\ stage'["alerts"] = "print" /\ message'["alerts"] = Head(channel)
          /\ UNCHANGED <<forwardVars, peer>>
      BY <1>1, <1>7 DEF RecvAlert
    <2>2. Head(channel) = channel[1] /\ 1 \in 1 .. Len(channel) BY <1>1, <2>1
    <2>3. channel[1] = generated - Len(channel) + 1 BY <1>1, <2>2 DEF AlertInv
    <2>4. Done = generated - Len(channel) /\ Done' = message'["alerts"] - 1 BY <2>1 DEF Done
    <2>5. Done' = Done BY <1>1, <2>1, <2>2, <2>3, <2>4
    <2> QED BY <2>1, <2>5, StreamQuiet DEF forwardVars
  <1>8. ASSUME NEW w \in Logger, NEW s \in Stages, stage' = [stage EXCEPT ![w] = s],
               w = "alerts" => stage[w] # "idle" /\ s # "idle",
               w = "alerts" => message' = message, message'["alerts"] = message["alerts"],
               UNCHANGED <<generated, channel, forwardVars, peer>>
        PROVE  StreamInv'
    <2>1. stage'["alerts"] = "idle" <=> stage["alerts"] = "idle" BY <1>1, <1>8
    <2>2. Done' = Done BY <1>8, <2>1 DEF Done
    <2> QED BY <1>8, <2>2, StreamQuiet DEF forwardVars
  <1>9. ASSUME NEW w \in {"processor", "cleanup"}, NEW max, BeginLine(w, max) PROVE StreamInv'
    <2>1. /\ stage' = [stage EXCEPT ![w] = "print"] /\ message' = [message EXCEPT ![w] = lines'[w]]
          /\ UNCHANGED <<generated, channel, forwardVars, peer>>
      BY <1>9 DEF BeginLine
    <2>2. w \in Logger /\ w # "alerts" /\ "print" \in Stages BY DEF Logger, Stages
    <2>3. message'["alerts"] = message["alerts"] BY <1>1, <2>1, <2>2
    <2> QED BY <1>8, <2>1, <2>2, <2>3
  <1>10. CASE BurstDetected BY <1>9, <1>10 DEF BurstDetected
  <1>11. CASE FlowsRemoved BY <1>9, <1>11 DEF FlowsRemoved
  <1>12. CASE SpawnBurst
    <2>1. /\ stage' = [stage EXCEPT !["processor"] = "idle"]
          /\ UNCHANGED <<generated, channel, message, forwardVars, peer>>
      BY <1>12 DEF SpawnBurst
    <2>2. "processor" \in Logger /\ "idle" \in Stages BY DEF Logger, Stages
    <2> QED BY <1>8, <2>1, <2>2
  <1>13. \A w \in Logger : AfterLine(w) \in Stages /\ (w = "alerts" => AfterLine(w) # "idle")
    BY DEF AfterLine, Stages, Logger
  <1>14. ASSUME NEW w \in Logger,
                PrintLine(w) \/ LockFile(w) \/ WriteText(w) \/ WriteNewline(w) \/ UnlockFile(w)
         PROVE  StreamInv'
    <2>1. stage[w] # "idle" /\ UNCHANGED <<generated, channel, message, forwardVars, peer>>
      BY <1>14 DEF PrintLine, LockFile, WriteText, WriteNewline, UnlockFile
    <2>2. PICK s \in {"lock", "panicked", "text", "newline", "unlock", AfterLine(w)} :
            stage' = [stage EXCEPT ![w] = s]
      BY <1>14 DEF PrintLine, LockFile, WriteText, WriteNewline, UnlockFile
    <2>3. s \in Stages /\ (w = "alerts" => s # "idle") BY <1>13, <2>2 DEF Stages
    <2> QED BY <1>8, <2>1, <2>2, <2>3
  <1>15. ASSUME NEW b \in DOMAIN tasks, WriteBurst(b) \/ OpenFails(b) PROVE StreamInv'
    BY <1>4, <1>15 DEF WriteBurst, OpenFails, loggerVars
  <1>22. CASE Exit
    BY <1>4, <1>22 DEF Exit, loggerVars
  <1>16. CASE PeerLeaves
    <2>1. peer # "dead" /\ UNCHANGED <<generated, channel, stage, message, forwardVars>>
      BY <1>16 DEF PeerLeaves, loggerVars
    <2>2. Done' = Done BY <2>1 DEF Done
    <2> QED BY <2>1, <2>2, StreamQuiet DEF forwardVars
  \* Forwarding.
  <1>17. ASSUME Forwarded PROVE m = d + 1 /\ Done' = d + 1 BY <1>1, <1>17, DoneCounts
  <1>18. CASE SendTcp
    <2> DEFINE whole == Append(stream, Piece("tcp", m, "text"))
    <2>1. /\ Forwarded /\ peer # "dead" /\ tcp_stream /\ UNCHANGED <<tcp_stream, datagrams>>
      BY <1>18 DEF SendTcp
    <2>2. stream = Whole(d) /\ m = d + 1 /\ Done' = d + 1 /\ d + 1 \in Nat
      BY <1>2, <1>3, <1>17, <2>1
    <2>3. datagrams' = <<>> BY <1>3, <2>1
    <2> HIDE DEF d, m
    <2>4. CASE stream' = Append(whole, Piece("tcp", m, "newline")) /\ peer' = peer
      <3>1. stream' = Whole(d + 1) BY <1>2, <2>2, <2>4, WholeGrows
      <3>2. TailOnly(stream') /\ InOrder(stream', d + 1) BY <2>2, <3>1, WholeFine
      <3>3. StreamFits(peer', tcp_stream', stream', datagrams', d + 1)
        BY <2>1, <2>3, <3>1, <3>2 DEF StreamFits
      <3> QED BY <2>2, <3>3, StreamPrimed
    <2>5. CASE stream' = whole /\ peer' = "dead"
      <3>1. stream' = Append(Whole(d), Piece("tcp", d + 1, "text")) BY <2>2, <2>5
      <3>2. TailOnly(stream') /\ InOrder(stream', d + 1) BY <1>2, <3>1, TornFine
      <3>3. StreamFits(peer', tcp_stream', stream', datagrams', d + 1)
        BY <2>1, <2>3, <2>5, <3>2 DEF StreamFits
      <3> QED BY <2>2, <3>3, StreamPrimed
    <2> QED BY <1>18, <2>4, <2>5 DEF SendTcp, m
  \* The alert goes by UDP, or is lost.
  <1>19. ASSUME Forwarded, ~ tcp_stream', peer' = "dead",
                datagrams' \in {datagrams, Append(datagrams, m)}, datagrams # <<>> => stream' = stream,
                TailOnly(stream'), InOrder(stream', d)
         PROVE  StreamInv'
    <2>1. m = d + 1 /\ Done' = d + 1 /\ d \in Nat BY <1>2, <1>17, <1>19
    <2>2. \A i \in DOMAIN datagrams :
            /\ datagrams[i] \in 1 .. d
            /\ \A j \in DOMAIN datagrams : i < j => datagrams[i] < datagrams[j]
            /\ \A j \in DOMAIN stream : stream[j].part = "text" => stream[j].n < datagrams[i]
      BY DEF StreamInv, StreamFits
    <2> HIDE DEF d, m
    <2>3. InOrder(stream', d + 1) BY <1>19, <2>1, OrderGrows
    <2>4. \A j \in DOMAIN stream' : stream'[j].part = "text" => stream'[j].n \in 1 .. d
      BY <1>19 DEF InOrder
    <2>5. ASSUME NEW i \in DOMAIN datagrams'
          PROVE  /\ datagrams'[i] \in 1 .. d + 1
                 /\ \A j \in DOMAIN datagrams' : i < j => datagrams'[i] < datagrams'[j]
                 /\ \A j \in DOMAIN stream' : stream'[j].part = "text" => stream'[j].n < datagrams'[i]
      <3>1. CASE datagrams' = datagrams
        <4>1. datagrams # <<>> BY <1>1, <3>1
        <4> QED BY <1>19, <2>1, <2>2, <3>1, <4>1
      <3>2. CASE datagrams' = Append(datagrams, m)
        <4>1. /\ DOMAIN datagrams' = 1 .. Len(datagrams) + 1 /\ datagrams'[Len(datagrams) + 1] = d + 1
              /\ \A k \in 1 .. Len(datagrams) : datagrams'[k] = datagrams[k]
              /\ DOMAIN datagrams = 1 .. Len(datagrams) /\ Len(datagrams) \in Nat
          BY <1>1, <2>1, <3>2, AppendAt
        <4>2. CASE i = Len(datagrams) + 1 BY <2>1, <2>4, <4>1, <4>2
        <4>3. CASE i # Len(datagrams) + 1
          <5>1. /\ i \in DOMAIN datagrams /\ datagrams'[i] = datagrams[i] /\ datagrams # <<>>
                /\ datagrams[i] \in 1 .. d
            BY <1>1, <2>2, <4>1, <4>3
          <5>2. ASSUME NEW j \in DOMAIN datagrams', i < j PROVE datagrams'[i] < datagrams'[j]
            <6>1. CASE j = Len(datagrams) + 1 BY <2>1, <4>1, <5>1, <6>1
            <6>2. CASE j # Len(datagrams) + 1
              <7>1. j \in DOMAIN datagrams /\ datagrams'[j] = datagrams[j] BY <4>1, <6>2
              <7> QED BY <2>2, <5>1, <5>2, <7>1
            <6> QED BY <6>1, <6>2
          <5>3. stream' = stream BY <1>19, <5>1
          <5> QED BY <2>1, <2>2, <5>1, <5>2, <5>3
        <4> QED BY <4>2, <4>3
      <3> QED BY <1>19, <3>1, <3>2
    <2>6. StreamFits(peer', tcp_stream', stream', datagrams', d + 1)
      BY <1>19, <2>3, <2>5 DEF StreamFits
    <2> QED BY <2>1, <2>6, StreamPrimed
  <1>20. CASE FallBack
    <2>1. /\ Forwarded /\ tcp_stream /\ ~ tcp_stream' /\ peer' = "dead"
          /\ datagrams' \in {datagrams, Append(datagrams, m)} /\ datagrams = <<>>
      BY <1>3, <1>20 DEF FallBack, Datagrams
    <2>2. TailOnly(stream') /\ InOrder(stream', d)
      <3>1. CASE stream' = stream BY <1>3, <3>1
      <3>2. CASE peer # "dead" /\ stream' = Append(stream, Piece("tcp", m, "part"))
        <4>1. stream' = Append(Whole(d), Piece("tcp", d + 1, "part")) BY <1>3, <1>17, <2>1, <3>2
        <4> HIDE DEF d, m
        <4> QED BY <1>2, <4>1, TornFine
      <3> QED BY <1>20, <3>1, <3>2 DEF FallBack
    <2> QED BY <1>19, <2>1, <2>2
  <1>21. CASE SendUdp
    <2>1. /\ Forwarded /\ ~ tcp_stream /\ UNCHANGED <<tcp_stream, stream, peer>>
          /\ datagrams' \in {datagrams, Append(datagrams, m)}
      BY <1>21 DEF SendUdp, Datagrams
    <2>2. peer = "dead" BY <1>1, <1>3, <2>1 DEF TypeOK
    <2> QED BY <1>3, <1>19, <2>1, <2>2
  <1> QED BY <1>5, <1>6, <1>7, <1>10, <1>11, <1>12, <1>14, <1>15, <1>16, <1>18, <1>20, <1>21, <1>22,
             Steps

\* What the forwarder has sent is always as described.
LEMMA ReportingStream == Spec => []StreamInv
  <1>1. Init => StreamInv
    <2> SUFFICES ASSUME Init PROVE StreamInv OBVIOUS
    <2>1. stream = <<>> /\ datagrams = <<>> /\ Done = 0
      <3>1. stage["alerts"] = "idle" BY DEF Init, Logger
      <3>2. Done = generated - Len(channel) BY <3>1 DEF Done
      <3>3. channel = <<>> BY DEF Init
      <3>4. Len(channel) = 0 BY <3>3
      <3>5. generated = 0 BY DEF Init
      <3>6. \A n : n = 0 => 0 - n = 0 OBVIOUS
      <3> QED BY <3>2, <3>4, <3>5, <3>6 DEF Init
    <2>2. Whole(0) = <<>> BY DEF Whole
    <2>3. peer # "dead" => tcp_stream BY DEF Init
    <2> QED BY <2>1, <2>2, <2>3 DEF StreamInv, StreamFits, TailOnly, InOrder
  <1> QED BY <1>1, ReportingControl, StreamInductive, PTL DEF Spec

\* AlertForwarder::send loses nothing while TCP works: the stream is all alerts the loop is
\* done with, each whole and terminated by a newline.
THEOREM StreamIsAllSoFar == Spec => []StreamComplete
  <1>1. StreamInv => StreamComplete BY DEF StreamInv, StreamFits, StreamComplete, Whole
  <1> QED BY <1>1, ReportingStream, PTL

\* A write that fails tears at most the last line of the stream, for send never writes to the
\* stream again.
THEOREM TornAtTheEnd == Spec => []OnlyTailTorn
  <1>1. StreamInv => OnlyTailTorn BY DEF StreamInv, StreamFits, TailOnly, OnlyTailTorn
  <1> QED BY <1>1, ReportingStream, PTL

\* The fall back from TCP to UDP neither repeats an alert nor reorders alerts.
THEOREM EachForwardedOnce == Spec => []ForwardedOnce
  <1>1. StreamInv => ForwardedOnce BY DEF StreamInv, StreamFits, InOrder, ForwardedOnce
  <1> QED BY <1>1, ReportingStream, PTL
=============================================================================
