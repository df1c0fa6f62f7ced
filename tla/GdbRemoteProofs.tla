--------------------------- MODULE GdbRemoteProofs ---------------------------
(***************************************************************************)
(* QEMU over the GDB protocol, proved for every memory, register range,    *)
(* packet size, and number of packets the line spoils: nothing is under    *)
(* way between two calls, and the calls implement RefMachine.              *)
(*                                                                         *)
(* The connection keeps no number of a packet, so that a command or a      *)
(* reply that is sent again is told from the next one only by what both    *)
(* ends have done since.  A call goes through the phases below once for    *)
(* each of its commands; GdbInv says which of them QEMU has obeyed in each *)
(* phase, and what is on the line.  When QEMU has gone, only the client's  *)
(* part of a phase is left.                                                *)
(***************************************************************************)
EXTENDS GdbRemote, SequenceTheorems, TLAPS

-----------------------------------------------------------------------------
(* The inductive invariant                                                 *)

AllCommands == Commands \cup {[cmd |-> "setregs"]}

Types ==
  /\ status \in {"busy", "returned", "dead"} /\ pc \in {"send", "ack", "recv", "out"}
  /\ call \in Calls
  /\ todo \in Seq(AllCommands)
  /\ qemu_r \in States /\ ok \in BOOLEAN /\ result \in 0 .. Pcs - 1
  /\ toStub \in Seq(Chars(Commands)) /\ toClient \in Seq(Chars(Replies))
  /\ line \in {"open", "fin", "rst"} /\ noise \in 0 .. MaxNoise
  /\ mem \in [Addrs -> Vals] /\ regs \in States
  /\ last \in Replies \cup {None} /\ serving \in Commands \cup {None}
  /\ done \in Nat

\* How many commands of the call were answered, and the units of their effect:
\* an instruction for each step, the units of a memory packet, a register copy.
CommandCount == Len(difftest_commands(call))
Answers == CommandCount - Len(todo)

Units(k) == k * Mtu

DoneAfter(k) ==
  CASE call.op = "exec" -> k
    [] call.op = "memcpy" -> IF Units(k) < Len(call.data) THEN Units(k) ELSE Len(call.data)
    [] call.op = "to_ref" -> IF k = 2 THEN 1 ELSE 0
    [] call.op = "to_dut" -> 0

\* The commands not answered yet are the last of the call's.
IsRest ==
  /\ Len(todo) <= CommandCount
  /\ \A i \in 1 .. Len(todo) : todo[i] = difftest_commands(call)[Answers + i]

\* The reply to the first of them tells the registers QEMU has now, or whether the
\* piece was in memory.
Right(reply) ==
  /\ reply \in Replies
  /\ Head(todo).cmd = "g" => reply = [cmd |-> "regs", regs |-> regs]
  /\ Head(todo).cmd = "M" /\ reply.cmd = "OK" => Target(Head(todo)) \subseteq Addrs

\* A packet as it was sent, or spoiled since.
Sent(c, body) == c \in [kind : {"$"}, body : {body}, sum_ok : BOOLEAN]

Obeyed(k) == done = DoneAfter(Answers + k)

\* The phases of a command.
QuietStub == serving = None /\ toStub \in {<<>>, <<Ack>>}

ReadyToSend ==
  /\ pc = "send" /\ toClient = <<>> /\ Obeyed(0)
  /\ line = "open" => QuietStub

CommandSent ==
  /\ pc = "ack" /\ toClient = <<>> /\ todo # <<>> /\ Obeyed(0)
  /\ line = "open" =>
       /\ serving = None
       /\ \E c \in Chars(Commands) :
            Sent(c, Body(Head(todo))) /\ (toStub = <<c>> \/ toStub = <<Ack, c>>)

CommandRefused ==
  /\ pc = "ack" /\ toClient = <<Nack>> /\ todo # <<>> /\ Obeyed(0)
  /\ line = "open" => serving = None /\ toStub = <<>>

CommandTaken ==
  /\ \/ pc = "ack" /\ toClient = <<Ack>>
     \/ pc = "recv" /\ toClient = <<>>
  /\ todo # <<>> /\ Obeyed(0)
  /\ line = "open" => serving = Body(Head(todo)) /\ toStub = <<>>

CommandAnswered ==
  /\ todo # <<>> /\ Obeyed(1)
  /\ \E c \in Chars(Replies), reply \in Replies :
       /\ Sent(c, reply) /\ Right(reply)
       /\ \/ pc = "ack" /\ toClient = <<Ack, c>>
          \/ pc = "recv" /\ toClient = <<c>>
       /\ line = "open" => last = reply
  /\ line = "open" => serving = None /\ toStub = <<>>

ReplyRefused ==
  /\ pc = "recv" /\ toClient = <<>> /\ todo # <<>> /\ Obeyed(1)
  /\ line = "open" => serving = None /\ toStub = <<Nack>> /\ Right(last)

Phase ==
  \/ ReadyToSend \/ CommandSent \/ CommandRefused \/ CommandTaken
  \/ CommandAnswered \/ ReplyRefused

\* The registers read first are still QEMU's when they are used.
ReadIsFresh ==
  call.op \in {"to_ref", "to_dut"} /\ Answers = 1 /\ done = 0 => qemu_r = regs

\* As long as every piece was answered "OK", they were all in memory.
OkIsTrue ==
  call.op = "memcpy" /\ ok => \A i \in 1 .. DoneAfter(Answers) : call.from + i - 1 \in Addrs

Learned == ReadIsFresh /\ OkIsTrue

GdbInv ==
  /\ Types
  /\ status = "dead" => line # "open"
  /\ status = "returned" => toClient = <<>> /\ (line = "open" => QuietStub)
  /\ status = "busy" => IsRest /\ Phase /\ Learned


-----------------------------------------------------------------------------
(* Calls, commands and pieces                                              *)

LEMMA CallFacts ==
  ASSUME NEW c \in Calls
  PROVE  /\ c.op \in {"exec", "to_ref", "to_dut", "memcpy"}
         /\ c.op = "exec" => c.n \in Nat
         /\ c.op = "to_ref" => c.v \in 0 .. Pcs - 1
         /\ c.op = "memcpy" =>
              /\ c.from \in Dests /\ c.from \in Nat
              /\ c.data \in Seq(Vals) /\ Len(c.data) \in 0 .. MaxCopy
<1>1. CASE c \in [op : {"exec"}, n : 0 .. MaxExec]
  BY <1>1, GdbAssumption
<1>2. CASE c \in [op : {"to_ref"}, v : 0 .. Pcs - 1]
  BY <1>2
<1>3. CASE c = [op |-> "to_dut"]
  BY <1>3
<1>4. ASSUME NEW n \in 0 .. MaxCopy,
             c \in [op : {"memcpy"}, from : Dests, data : [1 .. n -> Vals]]
      PROVE  /\ c.op = "memcpy" /\ c.from \in Dests /\ c.from \in Nat
             /\ c.data \in Seq(Vals) /\ Len(c.data) \in 0 .. MaxCopy
  <2>1. /\ c.op = "memcpy" /\ c.from \in Dests /\ c.from \in Nat
        /\ c.data \in [1 .. n -> Vals]
    BY <1>4, GdbAssumption
  <2>2. n \in Nat
    BY GdbAssumption
  <2>3. c.data \in Seq(Vals) /\ Len(c.data) = n
    BY <2>1, <2>2
  <2> QED
    BY <2>1, <2>2, <2>3
<1> QED
  BY <1>1, <1>2, <1>3, <1>4 DEF Calls

LEMMA UnitsFacts ==
  /\ Mtu \in Nat /\ Mtu > 0 /\ Units(0) = 0 /\ Units(1) = Mtu
  /\ \A k \in Nat : Units(k) \in Nat /\ Units(k + 1) = Units(k) + Mtu
  /\ \A j, k \in Nat : j <= k => Units(j) <= Units(k)
<1>1. Mtu \in Nat \ {0}
  BY GdbAssumption
<1>2. \A k \in Nat : Units(k) \in Nat /\ Units(k + 1) = Units(k) + Mtu
  BY <1>1 DEF Units
<1>3. Units(0) = 0 /\ Units(1) = Mtu
  BY <1>1 DEF Units
<1>4. \A j, k \in Nat : j <= k => Units(j) <= Units(k)
  BY <1>1 DEF Units
<1> QED
  BY <1>1, <1>2, <1>3, <1>4

\* As many pieces as hold the data, all of them in it.
LEMMA PieceCountFacts ==
  ASSUME NEW len \in Nat
  PROVE  /\ PieceCount(len) \in Nat \ {0}
         /\ Units(PieceCount(len) - 1) <= len /\ len <= Units(PieceCount(len))
<1>0. CASE len = 0
  <2>1. PieceCount(len) = 1 /\ PieceCount(len) - 1 = 0
    BY <1>0 DEF PieceCount
  <2>2. Units(0) = 0 /\ Units(1) = Mtu /\ Mtu \in Nat
    BY UnitsFacts
  <2>3. Units(PieceCount(len) - 1) = 0 /\ Units(PieceCount(len)) = Mtu
    BY ONLY <2>1, <2>2
  <2> QED
    BY ONLY <1>0, <2>1, <2>2, <2>3
<1> SUFFICES ASSUME len # 0
             PROVE  /\ PieceCount(len) \in Nat \ {0}
                    /\ Units(PieceCount(len) - 1) <= len /\ len <= Units(PieceCount(len))
  BY <1>0
<1>1. Mtu \in Nat \ {0}
  BY GdbAssumption
<1>2. PICK q : q = (len + Mtu - 1) \div Mtu
  OBVIOUS
<1>3. /\ q \in Nat /\ Mtu * q <= len + Mtu - 1 /\ len + Mtu - 1 < Mtu * q + Mtu
  BY <1>1, <1>2
<1>4. PieceCount(len) = q
  BY <1>2 DEF PieceCount
<1>5. Units(q) \in Nat /\ Units(q) = Mtu * q
  BY <1>1, <1>3 DEF Units
<1>6. q # 0
  BY <1>1, <1>3
<1>7. q - 1 \in Nat /\ Units(q) = Units(q - 1) + Mtu /\ Units(q - 1) \in Nat
  <2>1. PICK p \in Nat : p = q - 1
    BY <1>3, <1>6
  <2>2. Units(p + 1) = Units(p) + Mtu /\ Units(p) \in Nat
    BY ONLY <2>1, UnitsFacts
  <2>3. p + 1 = q
    BY ONLY <1>3, <2>1
  <2> QED
    BY <2>1, <2>2, <2>3
<1> QED
  <2>1. Units(q - 1) <= len /\ len <= Units(q)
    BY ONLY <1>1, <1>3, <1>5, <1>7, len \in Nat
  <2> QED
    BY <1>3, <1>4, <1>6, <2>1

\* Piece k + 1 of a copy: the units from k on, as many as a packet holds.
LEMMA PieceFacts ==
  ASSUME NEW from \in Dests, NEW data \in Seq(Vals), Len(data) \in 0 .. MaxCopy,
         NEW k \in Nat, k < PieceCount(Len(data))
  PROVE  LET p == Piece(from, data, k + 1)
             upto == IF Units(k + 1) < Len(data) THEN Units(k + 1) ELSE Len(data)
         IN  /\ p \in Commands /\ p.cmd = "M" /\ p.from = from + Units(k)
             /\ Units(k) <= Len(data)
             /\ p.data \in Seq(Vals) /\ Len(p.data) = upto - Units(k)
             /\ \A i \in 1 .. Len(p.data) : p.data[i] = data[Units(k) + i]
<1>1. PICK len, u, last_unit :
        /\ len = Len(data) /\ u = Units(k)
        /\ last_unit = IF Units(k + 1) < len THEN Units(k + 1) ELSE len
  OBVIOUS
<1>2. /\ u \in Nat /\ len \in Nat /\ u <= len /\ len <= MaxCopy /\ MaxCopy \in Nat /\ Units(k + 1) = u + Mtu /\ Mtu \in Nat \ {0}
      /\ from \in Nat
  <2>0. len \in Nat /\ len <= MaxCopy /\ MaxCopy \in Nat /\ from \in Nat
    BY <1>1, GdbAssumption
  <2>1. k <= PieceCount(len) - 1 /\ PieceCount(len) - 1 \in Nat
    <3>1. PieceCount(len) \in Nat \ {0}
      BY ONLY <2>0, PieceCountFacts
    <3>2. k < PieceCount(len)
      BY <1>1
    <3> QED
      BY ONLY <3>1, <3>2, k \in Nat
  <2>2. Units(k) <= Units(PieceCount(len) - 1) /\ Units(PieceCount(len) - 1) <= len
    BY <1>1, <2>0, <2>1, PieceCountFacts, UnitsFacts
  <2>3. Units(k) \in Nat /\ Units(PieceCount(len) - 1) \in Nat /\ Units(k + 1) = Units(k) + Mtu
    BY <2>1, UnitsFacts
  <2> QED
    BY <1>1, <2>0, <2>2, <2>3, GdbAssumption
<1>3. last_unit \in Nat /\ u <= last_unit /\ last_unit <= len /\ last_unit - u <= Mtu
  BY ONLY <1>1, <1>2
<1>4. Piece(from, data, k + 1) = [cmd |-> "M", from |-> from + u, data |-> SubSeq(data, u + 1, last_unit)]
  <2>0. PICK i \in Nat : i = k + 1 /\ i - 1 = k
    OBVIOUS
  <2>1. i * Mtu = Units(k + 1) /\ (i - 1) * Mtu = u
    BY <1>1, <2>0 DEF Units
  <2>2. Piece(from, data, i) = [cmd |-> "M", from |-> from + u, data |-> SubSeq(data, u + 1, last_unit)]
    BY ONLY <1>1, <2>1 DEF Piece
  <2> QED
    BY <2>0, <2>2
<1>5. PICK d : d = SubSeq(data, u + 1, last_unit)
  OBVIOUS
<1>6. /\ d \in Seq(Vals) /\ Len(d) = last_unit - u
      /\ \A i \in 1 .. Len(d) : d[i] = data[u + i]
  <2>1. \A i \in u + 1 .. last_unit : data[i] \in Vals
    <3>1. \A i \in 1 .. Len(data) : data[i] \in Vals
      BY ElementOfSeq
    <3>2. u \in Nat /\ last_unit \in Nat /\ Len(data) \in Nat /\ last_unit <= Len(data)
      BY ONLY <1>1, <1>2, <1>3
    <3>3. \A i \in u + 1 .. last_unit : i \in 1 .. Len(data)
      BY ONLY <3>2
    <3> QED
      BY <3>1, <3>3
  <2>2. u + 1 \in Int /\ last_unit \in Int /\ u <= last_unit /\ last_unit - (u + 1) + 1 = last_unit - u
    BY <1>2, <1>3
  <2>3. /\ d \in Seq(Vals)
        /\ Len(d) = IF u + 1 <= last_unit THEN last_unit - (u + 1) + 1 ELSE 0
        /\ \A i \in 1 .. last_unit - (u + 1) + 1 : d[i] = data[u + 1 + i - 1]
    BY ONLY <1>5, <2>1, <2>2, SubSeqProperties
  <2>4. Len(d) = last_unit - u
    BY ONLY <1>2, <1>3, <2>2, <2>3
  <2>5. \A i \in 1 .. Len(d) : u + 1 + i - 1 = u + i /\ i \in 1 .. last_unit - (u + 1) + 1
    BY ONLY <1>2, <1>3, <2>2, <2>4
  <2> QED
    BY ONLY <2>3, <2>4, <2>5
<1>7. from + u \in {d1 + k1 : d1 \in Dests, k1 \in 0 .. MaxCopy}
  BY <1>2
<1>8. Piece(from, data, k + 1) \in Commands
  <2>1. PICK n \in 0 .. Mtu : n = Len(d)
    BY <1>2, <1>3, <1>6
  <2>2. d \in [1 .. n -> Vals]
    BY <1>6, <2>1, LenProperties
  <2>3. [cmd |-> "M", from |-> from + u, data |-> d]
          \in [cmd : {"M"}, from : {d1 + k1 : d1 \in Dests, k1 \in 0 .. MaxCopy}, data : [1 .. n -> Vals]]
    BY ONLY <1>7, <2>2
  <2>4. Piece(from, data, k + 1) = [cmd |-> "M", from |-> from + u, data |-> d]
    BY ONLY <1>4, <1>5
  <2>5. \A x \in [cmd : {"M"}, from : {d1 + k1 : d1 \in Dests, k1 \in 0 .. MaxCopy}, data : [1 .. n -> Vals]] :
          x \in Commands
    BY ONLY <2>1 DEF Commands
  <2> QED
    BY ONLY <2>3, <2>4, <2>5
<1> QED
  <2>1. PICK p : p = Piece(from, data, k + 1)
    OBVIOUS
  <2>2. p.cmd = "M" /\ p.from = from + u /\ p.data = d /\ p \in Commands
    BY <1>4, <1>5, <1>8, <2>1
  <2> QED
    BY <1>1, <1>2, <1>6, <2>1, <2>2

\* The commands of each call.
LEMMA CommandFacts ==
  ASSUME NEW c \in Calls
  PROVE  /\ difftest_commands(c) \in Seq(AllCommands)
         /\ c.op = "exec" =>
              /\ Len(difftest_commands(c)) = c.n
              /\ \A i \in 1 .. c.n : difftest_commands(c)[i] = [cmd |-> "s"]
         /\ c.op = "to_ref" =>
              /\ Len(difftest_commands(c)) = 2
              /\ difftest_commands(c)[1] = [cmd |-> "g"] /\ difftest_commands(c)[2] = [cmd |-> "setregs"]
         /\ c.op = "to_dut" =>
              Len(difftest_commands(c)) = 1 /\ difftest_commands(c)[1] = [cmd |-> "g"]
         /\ c.op = "memcpy" =>
              /\ Len(difftest_commands(c)) = PieceCount(Len(c.data))
              /\ \A i \in 1 .. PieceCount(Len(c.data)) : difftest_commands(c)[i] = Piece(c.from, c.data, i)
<1>0. /\ [cmd |-> "s"] \in AllCommands /\ [cmd |-> "g"] \in AllCommands /\ [cmd |-> "setregs"] \in AllCommands
      /\ \A p \in Commands : p \in AllCommands
  BY DEF AllCommands, Commands
<1>1. CASE c.op = "exec"
  <2>1. difftest_commands(c) = [i \in 1 .. c.n |-> [cmd |-> "s"]]
    BY <1>1 DEF difftest_commands
  <2>2. c.n \in Nat
    BY <1>1, CallFacts
  <2> QED
    BY <1>0, <1>1, <2>1, <2>2
<1>2. CASE c.op = "to_ref"
  <2>1. difftest_commands(c) = <<[cmd |-> "g"], [cmd |-> "setregs"]>>
    BY <1>2 DEF difftest_commands
  <2> QED
    BY <1>0, <1>2, <2>1
<1>3. CASE c.op = "to_dut"
  <2>1. difftest_commands(c) = <<[cmd |-> "g"]>>
    BY <1>3 DEF difftest_commands
  <2> QED
    BY <1>0, <1>3, <2>1
<1>4. CASE c.op = "memcpy"
  <2>1. PICK q : q = PieceCount(Len(c.data))
    OBVIOUS
  <2>2. difftest_commands(c) = [i \in 1 .. q |-> Piece(c.from, c.data, i)]
    BY <1>4, <2>1 DEF difftest_commands, gdb_memcpy_to_qemu
  <2>3. q \in Nat
    BY <1>4, <2>1, CallFacts, PieceCountFacts
  <2>4. ASSUME NEW i \in 1 .. q
        PROVE  Piece(c.from, c.data, i) \in AllCommands
    <3>1. PICK k \in Nat : i = k + 1 /\ k < q
      BY <2>3
    <3>2. Piece(c.from, c.data, k + 1) \in Commands
      BY <1>4, <2>1, <3>1, CallFacts, PieceFacts
    <3> QED
      BY <1>0, <3>1, <3>2
  <2> QED
    BY <1>4, <2>1, <2>2, <2>3, <2>4
<1> QED
  BY <1>1, <1>2, <1>3, <1>4, CallFacts


-----------------------------------------------------------------------------
(* Where a call stands                                                     *)

LEMMA SameCall ==
  UNCHANGED <<call, todo>> =>
    /\ UNCHANGED <<CommandCount, Answers>> /\ (IsRest => IsRest')
    /\ difftest_commands(call)' = difftest_commands(call)
    /\ \A k : DoneAfter(k)' = DoneAfter(k)
    /\ UNCHANGED ok => (OkIsTrue => OkIsTrue')
BY DEF CommandCount, Answers, OkIsTrue, IsRest, DoneAfter, Units,
       difftest_commands, gdb_memcpy_to_qemu, PieceCount, Piece

LEMMA SameProgress ==
  UNCHANGED <<call, todo, done>> =>
    /\ Obeyed(0) => Obeyed(0)'
    /\ Obeyed(1) => Obeyed(1)'
BY SameCall DEF Obeyed

\* A call begins with none of its commands answered, and no effect.
LEMMA CallBegins ==
  call \in Calls /\ todo = difftest_commands(call) /\ done = 0 =>
    IsRest /\ Answers = 0 /\ Obeyed(0) /\ DoneAfter(0) = 0 /\ todo \in Seq(AllCommands)
<1> SUFFICES ASSUME call \in Calls, todo = difftest_commands(call), done = 0
             PROVE  IsRest /\ Answers = 0 /\ Obeyed(0) /\ DoneAfter(0) = 0 /\ todo \in Seq(AllCommands)
  OBVIOUS
<1>1. todo \in Seq(AllCommands)
  BY CommandFacts
<1>2. Len(todo) \in Nat /\ Len(todo) = CommandCount
  BY <1>1, LenProperties DEF CommandCount
<1>3. Answers = 0
  BY <1>2 DEF Answers
<1>4. IsRest
  BY <1>2, <1>3 DEF IsRest
<1>5. DoneAfter(0) = 0
  <2>1. call.op \in {"exec", "to_ref", "to_dut", "memcpy"}
    BY CallFacts
  <2>2. call.op = "memcpy" => Len(call.data) \in Nat
    BY CallFacts, GdbAssumption
  <2> QED
    BY <2>1, <2>2, UnitsFacts DEF DoneAfter
<1> QED
  BY <1>1, <1>3, <1>4, <1>5 DEF Obeyed

\* The command under way.
LEMMA FirstOfRest ==
  ASSUME Types, IsRest, todo # <<>>
  PROVE  /\ Answers \in Nat /\ Answers < CommandCount /\ Answers + 1 \in 1 .. CommandCount
         /\ Head(todo) = difftest_commands(call)[Answers + 1]
         /\ Head(todo) \in AllCommands /\ Tail(todo) \in Seq(AllCommands)
         /\ Len(Tail(todo)) = Len(todo) - 1 /\ Len(todo) \in Nat \ {0}
         /\ \A i \in 1 .. Len(Tail(todo)) : Tail(todo)[i] = todo[i + 1]
         /\ CommandCount \in Nat
<1>1. todo \in Seq(AllCommands) /\ call \in Calls
  BY DEF Types
<1>2. /\ Head(todo) \in AllCommands /\ Tail(todo) \in Seq(AllCommands)
      /\ Len(Tail(todo)) = Len(todo) - 1
      /\ \A i \in 1 .. Len(Tail(todo)) : Tail(todo)[i] = todo[i + 1]
  BY <1>1, HeadTailProperties
<1>3. Len(todo) \in Nat \ {0} /\ Head(todo) = todo[1]
  BY <1>1, EmptySeq
<1>4. CommandCount \in Nat
  BY <1>1, CommandFacts, LenProperties DEF CommandCount
<1>5. Answers \in Nat /\ Answers < CommandCount /\ Answers + 1 \in 1 .. CommandCount
  BY <1>3, <1>4 DEF IsRest, Answers
<1>6. todo[1] = difftest_commands(call)[Answers + 1]
  BY <1>3 DEF IsRest
<1> QED
  BY <1>2, <1>3, <1>4, <1>5, <1>6

LEMMA FirstCommand ==
  ASSUME Types, IsRest, todo # <<>>
  PROVE  /\ call.op = "exec" => Head(todo) = [cmd |-> "s"] /\ Answers < call.n
         /\ call.op = "to_ref" =>
              \/ Answers = 0 /\ Head(todo) = [cmd |-> "g"]
              \/ Answers = 1 /\ Head(todo) = [cmd |-> "setregs"]
         /\ call.op = "to_dut" => Answers = 0 /\ Head(todo) = [cmd |-> "g"]
         /\ call.op = "memcpy" =>
              /\ Head(todo) = Piece(call.from, call.data, Answers + 1)
              /\ Answers < PieceCount(Len(call.data))
         /\ call.op \in {"exec", "to_ref", "to_dut", "memcpy"}
<1>1. /\ Answers \in Nat /\ Answers < CommandCount /\ Answers + 1 \in 1 .. CommandCount
      /\ Head(todo) = difftest_commands(call)[Answers + 1]
  BY FirstOfRest
<1>2. call \in Calls /\ call.op \in {"exec", "to_ref", "to_dut", "memcpy"}
  BY CallFacts DEF Types
<1>3. CASE call.op = "exec"
  <2>1. CommandCount = call.n /\ \A i \in 1 .. call.n : difftest_commands(call)[i] = [cmd |-> "s"]
    BY <1>2, <1>3, CommandFacts DEF CommandCount
  <2> QED
    BY <1>1, <1>3, <2>1
<1>4. CASE call.op = "to_ref"
  <2>1. /\ CommandCount = 2
        /\ difftest_commands(call)[1] = [cmd |-> "g"] /\ difftest_commands(call)[2] = [cmd |-> "setregs"]
    BY <1>2, <1>4, CommandFacts DEF CommandCount
  <2>2. Answers = 0 \/ Answers = 1
    BY <1>1, <2>1
  <2> QED
    BY <1>1, <1>4, <2>1, <2>2
<1>5. CASE call.op = "to_dut"
  <2>1. CommandCount = 1 /\ difftest_commands(call)[1] = [cmd |-> "g"]
    BY <1>2, <1>5, CommandFacts DEF CommandCount
  <2> QED
    BY <1>1, <1>5, <2>1
<1>6. CASE call.op = "memcpy"
  <2>1. /\ CommandCount = PieceCount(Len(call.data))
        /\ \A i \in 1 .. PieceCount(Len(call.data)) :
             difftest_commands(call)[i] = Piece(call.from, call.data, i)
    BY <1>2, <1>6, CommandFacts DEF CommandCount
  <2> QED
    BY <1>1, <1>6, <2>1
<1> QED
  BY <1>2, <1>3, <1>4, <1>5, <1>6

\* The piece under way is the part of the data that comes after the pieces answered.
LEMMA PieceUnderWay ==
  ASSUME Types, IsRest, todo # <<>>, call.op = "memcpy"
  PROVE  LET from == DoneAfter(Answers)
             upto == DoneAfter(Answers + 1)
         IN  /\ from \in Nat /\ upto \in Nat /\ from <= upto /\ upto <= Len(call.data)
             /\ call.from \in Nat /\ call.data \in Seq(Vals)
             /\ Head(todo).cmd = "M" /\ Head(todo).from = call.from + from
             /\ Head(todo).data \in Seq(Vals) /\ Len(Head(todo).data) = upto - from
             /\ \A i \in 1 .. upto - from : Head(todo).data[i] = call.data[from + i]
             /\ Target(Head(todo)) = {call.from + i - 1 : i \in from + 1 .. upto}
<1>1. /\ Answers \in Nat /\ Answers < PieceCount(Len(call.data))
      /\ Head(todo) = Piece(call.from, call.data, Answers + 1)
      /\ call.from \in Dests /\ call.from \in Nat
      /\ call.data \in Seq(Vals) /\ Len(call.data) \in 0 .. MaxCopy
  BY FirstOfRest, FirstCommand, CallFacts DEF Types
<1>2. PICK p, len, from, upto :
        /\ p = Head(todo) /\ len = Len(call.data)
        /\ from = DoneAfter(Answers) /\ upto = DoneAfter(Answers + 1)
  OBVIOUS
<1>3. /\ p.cmd = "M" /\ p.from = call.from + Units(Answers)
      /\ Units(Answers) <= len
      /\ p.data \in Seq(Vals)
      /\ Len(p.data) = (IF Units(Answers + 1) < len THEN Units(Answers + 1) ELSE len) - Units(Answers)
      /\ \A i \in 1 .. Len(p.data) : p.data[i] = call.data[Units(Answers) + i]
  BY <1>1, <1>2, PieceFacts
<1>4. /\ len \in Nat /\ Units(Answers) \in Nat /\ Units(Answers + 1) \in Nat
      /\ Units(Answers) <= Units(Answers + 1)
  <2>1. Units(Answers) \in Nat /\ Units(Answers + 1) = Units(Answers) + Mtu /\ Mtu \in Nat
    BY <1>1, UnitsFacts
  <2> QED
    BY <1>1, <1>2, <2>1, GdbAssumption
<1>5. /\ from = Units(Answers)
      /\ upto = IF Units(Answers + 1) < len THEN Units(Answers + 1) ELSE len
  <2>1. from = IF Units(Answers) < len THEN Units(Answers) ELSE len
    BY <1>2 DEF DoneAfter
  <2>2. from = Units(Answers)
    BY <1>3, <1>4, <2>1
  <2> QED
    BY <1>2, <2>2 DEF DoneAfter
<1>6. /\ from \in Nat /\ upto \in Nat /\ from <= upto /\ upto <= len
      /\ p.from = call.from + from /\ Len(p.data) = upto - from
      /\ \A i \in 1 .. upto - from : p.data[i] = call.data[from + i]
  BY ONLY <1>3, <1>4, <1>5
<1>7. Target(p) = {call.from + i - 1 : i \in from + 1 .. upto}
  <2>1. Target(p) = {call.from + from + i - 1 : i \in 1 .. upto - from}
    BY <1>6 DEF Target
  <2>2. ASSUME NEW i \in 1 .. upto - from
        PROVE  /\ from + i \in from + 1 .. upto
               /\ call.from + from + i - 1 = call.from + (from + i) - 1
    BY ONLY <1>1, <1>6, <2>2
  <2>3. ASSUME NEW i \in from + 1 .. upto
        PROVE  /\ i - from \in 1 .. upto - from
               /\ call.from + i - 1 = call.from + from + (i - from) - 1
    BY ONLY <1>1, <1>6, <2>3
  <2> QED
    BY ONLY <2>1, <2>2, <2>3
<1> QED
  BY <1>1, <1>2, <1>3, <1>6, <1>7

\* What goes out is a command of the protocol.
LEMMA BodyFacts ==
  ASSUME Types, IsRest, todo # <<>>
  PROVE  /\ Body(Head(todo)) \in Commands /\ Body(Head(todo)) # None
         /\ Packet(Body(Head(todo))) \in Chars(Commands)
<1>1. /\ Head(todo) \in AllCommands /\ qemu_r \in States /\ call \in Calls
      /\ Head(todo).cmd = "setregs" => call.op = "to_ref"
  <2>1. Head(todo) \in AllCommands /\ qemu_r \in States /\ call \in Calls
    BY FirstOfRest DEF Types
  <2>2. CASE call.op = "memcpy"
    <3>1. Head(todo).cmd = "M"
      BY <2>2, FirstCommand DEF Piece
    <3> QED
      BY <2>1, <3>1
  <2> QED
    BY <2>1, <2>2, FirstCommand
<1>2. \A c \in Commands : c.cmd # "none" /\ c.cmd # "setregs"
  BY DEF Commands
<1>3. CASE Head(todo).cmd = "setregs"
  <2>1. call.v \in 0 .. Pcs - 1
    BY <1>1, <1>3, CallFacts
  <2>2. [qemu_r EXCEPT !.dut = call.v] \in States
    BY <1>1, <2>1 DEF States
  <2>3. Body(Head(todo)) = [cmd |-> "G", regs |-> [qemu_r EXCEPT !.dut = call.v]]
    BY <1>3 DEF Body
  <2>4. Body(Head(todo)) \in Commands
    BY ONLY <2>2, <2>3 DEF Commands
  <2> QED
    BY <1>2, <2>4 DEF None, Packet, Chars
<1>4. CASE Head(todo).cmd # "setregs"
  <2>1. Body(Head(todo)) = Head(todo) /\ Head(todo) \in Commands
    BY <1>1, <1>4 DEF Body, AllCommands
  <2> QED
    BY <1>2, <2>1 DEF None, Packet, Chars
<1> QED
  BY <1>3, <1>4

-----------------------------------------------------------------------------
(* Characters on the line                                                  *)

LEMMA ShortSeqs ==
  /\ \A a : /\ <<a>> # <<>> /\ Head(<<a>>) = a /\ Tail(<<a>>) = <<>> /\ Append(<<>>, a) = <<a>>
            /\ Len(<<a>>) = 1
  /\ \A a, b : /\ <<a, b>> # <<>> /\ Head(<<a, b>>) = a /\ Tail(<<a, b>>) = <<b>>
               /\ Len(<<a, b>>) = 2
  /\ Len(<<>>) = 0
<1>1. \A a : <<a>> # <<>> /\ Head(<<a>>) = a /\ Tail(<<a>>) = <<>> /\ Append(<<>>, a) = <<a>>
  OBVIOUS
<1>2. \A a, b : <<a, b>> # <<>> /\ Head(<<a, b>>) = a /\ Tail(<<a, b>>) = <<b>>
  OBVIOUS
<1>3. \A a, b : Len(<<a, b>>) = 2 /\ Len(<<a>>) = 1 /\ Len(<<>>) = 0
  OBVIOUS
<1> QED
  BY <1>1, <1>2, <1>3

LEMMA SecondAppended == \A a, b : Append(<<a>>, b) = <<a, b>>
<1> TAKE a, b
<1>1. PICK S : S = {a, b}
  OBVIOUS
<1>2. <<a>> \in Seq(S) /\ <<a, b>> \in Seq(S) /\ Len(<<a>>) = 1 /\ Len(<<a, b>>) = 2
  BY <1>1
<1>3. /\ Append(<<a>>, b) \in Seq(S) /\ Len(Append(<<a>>, b)) = 2
      /\ Append(<<a>>, b)[1] = a /\ Append(<<a>>, b)[2] = b
  BY <1>1, <1>2, AppendProperties
<1>4. \A i \in 1 .. 2 : Append(<<a>>, b)[i] = <<a, b>>[i]
  BY <1>3
<1> QED
  BY ONLY <1>2, <1>3, <1>4, SeqEqual

LEMMA OfLength ==
  ASSUME NEW S, NEW s \in Seq(S)
  PROVE  /\ Len(s) = 1 => s = <<s[1]>> /\ s[1] \in S
         /\ Len(s) = 2 => s = <<s[1], s[2]>> /\ s[1] \in S /\ s[2] \in S
<1>0. \A i \in 1 .. Len(s) : s[i] \in S
  BY ElementOfSeq
<1>1. CASE Len(s) = 1
  <2>1. s[1] \in S
    BY ONLY <1>0, <1>1
  <2>2. <<s[1]>> \in Seq(S) /\ Len(<<s[1]>>) = 1 /\ <<s[1]>>[1] = s[1]
    BY <2>1
  <2>3. s = <<s[1]>>
    BY ONLY <1>1, <2>2, s \in Seq(S), SeqEqual
  <2> QED
    BY <1>1, <2>1, <2>3
<1>2. CASE Len(s) = 2
  <2>1. s[1] \in S /\ s[2] \in S
    BY ONLY <1>0, <1>2
  <2>2. <<s[1], s[2]>> \in Seq(S) /\ Len(<<s[1], s[2]>>) = 2 /\ <<s[1], s[2]>>[1] = s[1] /\ <<s[1], s[2]>>[2] = s[2]
    BY <2>1
  <2>3. s = <<s[1], s[2]>>
    BY ONLY <1>2, <2>2, s \in Seq(S), SeqEqual
  <2> QED
    BY <1>2, <2>1, <2>3
<1> QED
  BY <1>1, <1>2

LEMMA CharFacts ==
  /\ Ack # Nack /\ Ack.kind = "+" /\ Nack.kind = "-"
  /\ \A B : Ack \in Chars(B) /\ Nack \in Chars(B)
  /\ \A c, b : Sent(c, b) => c.kind = "$" /\ c.body = b /\ c.sum_ok \in BOOLEAN
  /\ \A b : Sent(Packet(b), b)
  /\ \A B, c, b : Sent(c, b) /\ b \in B => c \in Chars(B)
<1>1. Ack # Nack /\ Ack.kind = "+" /\ Nack.kind = "-"
  BY DEF Ack, Nack
<1>2. \A B : Ack \in Chars(B) /\ Nack \in Chars(B)
  BY DEF Chars
<1>3. \A c, b : Sent(c, b) => c.kind = "$" /\ c.body = b /\ c.sum_ok \in BOOLEAN
  BY DEF Sent
<1>4. \A b : Sent(Packet(b), b)
  BY DEF Packet, Sent
<1>5. \A B, c, b : Sent(c, b) /\ b \in B => c \in Chars(B)
  BY DEF Sent, Chars
<1> QED
  BY <1>1, <1>2, <1>3, <1>4, <1>5

LEMMA SpoiledIsSent ==
  ASSUME NEW b, NEW c, Sent(c, b)
  PROVE  Sent([c EXCEPT !.sum_ok = FALSE], b)
<1> QED
  BY DEF Sent

\* A character that is spoiled is still the packet it was.
LEMMA Spoiled ==
  ASSUME NEW B, NEW s \in Seq(Chars(B)), NEW i \in 1 .. Len(s), s[i].kind = "$"
  PROVE  /\ Spoil(s, i) \in Seq(Chars(B)) /\ Len(Spoil(s, i)) = Len(s)
         /\ \A j \in 1 .. Len(s) : j # i => Spoil(s, i)[j] = s[j]
         /\ \A b : Sent(s[i], b) => Sent(Spoil(s, i)[i], b)
<1>1. PICK d : d = [s[i] EXCEPT !.sum_ok = FALSE]
  OBVIOUS
<1>2. Spoil(s, i) = [s EXCEPT ![i] = d]
  BY <1>1 DEF Spoil
<1>3. d \in Chars(B) 
  <2>1. s[i] \in Chars(B)
    BY ElementOfSeq
  <2>2. s[i] \in [kind : {"$"}, body : B, sum_ok : BOOLEAN]
    BY <2>1 DEF Chars, Ack, Nack
  <2>3. d \in [kind : {"$"}, body : B, sum_ok : BOOLEAN]
    BY <1>1, <2>2
  <2> QED
    BY <2>3 DEF Chars
<1>4. /\ Spoil(s, i) \in Seq(Chars(B)) /\ Len(Spoil(s, i)) = Len(s)
      /\ \A j \in 1 .. Len(s) : Spoil(s, i)[j] = IF j = i THEN d ELSE s[j]
  BY <1>2, <1>3, ExceptSeq
<1>5. ASSUME NEW b, Sent(s[i], b)
      PROVE Sent(d, b)
  BY <1>1, <1>5, SpoiledIsSent
<1> QED
  BY <1>4, <1>5


-----------------------------------------------------------------------------
(* Calls begin and return                                                  *)

LEMMA InvTypes ==
  GdbInv => /\ Types /\ todo \in Seq(AllCommands) /\ call \in Calls /\ qemu_r \in States /\ regs \in States
            /\ toStub \in Seq(Chars(Commands)) /\ toClient \in Seq(Chars(Replies))
            /\ ok \in BOOLEAN /\ done \in Nat /\ mem \in [Addrs -> Vals] /\ result \in 0 .. Pcs - 1
            /\ last \in Replies \cup {None} /\ serving \in Commands \cup {None}
            /\ status \in {"busy", "returned", "dead"} /\ line \in {"open", "fin", "rst"}
BY DEF GdbInv, Types

LEMMA InitKeeps == GdbInit => GdbInv
<1> SUFFICES ASSUME GdbInit
             PROVE  GdbInv
  OBVIOUS
<1>1. Start \in States /\ Start.dut \in 0 .. Pcs - 1 /\ 0 \in 0 .. MaxNoise
  BY GdbAssumption DEF Start, States
<1>2. mem \in [Addrs -> Vals]
  BY GdbAssumption DEF GdbInit
<1>3. call \in Calls
  BY GdbAssumption DEF GdbInit, Calls
<1>4. <<Ack>> \in Seq(Chars(Commands)) /\ <<>> \in Seq(Chars(Replies)) /\ <<>> \in Seq(AllCommands)
  BY CharFacts
<1>5. Types
  BY <1>1, <1>2, <1>3, <1>4 DEF GdbInit, Types
<1> QED
  BY <1>5 DEF GdbInit, GdbInv, QuietStub

LEMMA CallKeeps ==
  ASSUME GdbInv, NEW c \in Calls, Call(c)
  PROVE  GdbInv'
<1>1. /\ status = "returned" /\ call' = c /\ todo' = difftest_commands(c) /\ status' = "busy"
      /\ pc' = "send" /\ done' = 0 /\ ok' = TRUE
      /\ UNCHANGED <<qemu_r, result, toStub, toClient, line, noise, mem, regs, last, serving>>
  BY DEF Call
<1>2. toClient = <<>> /\ (line = "open" => QuietStub) /\ Types
  BY <1>1 DEF GdbInv
<1>3. IsRest' /\ Answers' = 0 /\ Obeyed(0)' /\ DoneAfter(0)' = 0 /\ todo' \in Seq(AllCommands)
  <2>1. (call \in Calls /\ todo = difftest_commands(call) /\ done = 0 =>
           IsRest /\ Answers = 0 /\ Obeyed(0) /\ DoneAfter(0) = 0 /\ todo \in Seq(AllCommands))'
    BY CallBegins, PTL
  <2>2. call' \in Calls' /\ todo' = difftest_commands(call)' /\ done' = 0
    BY <1>1 DEF difftest_commands, gdb_memcpy_to_qemu, PieceCount, Piece, Calls
  <2> QED
    BY ONLY <2>1, <2>2
<1>4. Types'
  <2>1. call' \in Calls /\ done' \in Nat /\ pc' = "send" /\ status' = "busy" /\ ok' \in BOOLEAN
    BY <1>1
  <2> QED
    BY ONLY <1>1, <1>2, <1>3, <2>1 DEF Types
<1>5. Phase' /\ Learned'
  <2>1. OkIsTrue'
    BY ONLY <1>3 DEF OkIsTrue
  <2>2. Phase' /\ ReadIsFresh'
    BY <1>1, <1>2, <1>3 DEF Phase, ReadyToSend, QuietStub, ReadIsFresh
  <2> QED
    BY <2>1, <2>2 DEF Learned
<1> QED
  BY <1>1, <1>3, <1>4, <1>5 DEF GdbInv

\* The phases by the function the client is in.
LEMMA PhaseAt ==
  ASSUME GdbInv, status = "busy"
  PROVE  /\ Types /\ IsRest /\ Learned /\ Phase
         /\ pc = "send" => ReadyToSend
         /\ pc = "ack" => CommandSent \/ CommandRefused \/ CommandTaken \/ CommandAnswered
         /\ pc = "recv" => CommandTaken \/ CommandAnswered \/ ReplyRefused
<1>1. Types /\ IsRest /\ Learned /\ Phase
  BY DEF GdbInv
<1>2. pc = "send" => ReadyToSend
  BY <1>1 DEF Phase, CommandSent, CommandRefused, CommandTaken, CommandAnswered, ReplyRefused
<1>3. pc = "ack" => ~ReadyToSend /\ ~ReplyRefused
  BY DEF ReadyToSend, ReplyRefused
<1>4. pc = "recv" => ~ReadyToSend /\ ~CommandSent /\ ~CommandRefused
  BY DEF ReadyToSend, CommandSent, CommandRefused
<1> QED
  BY <1>1, <1>2, <1>3, <1>4 DEF Phase

LEMMA ReturnKeeps ==
  ASSUME GdbInv, Return
  PROVE  GdbInv'
<1>1. /\ status = "busy" /\ pc = "send" /\ status' = "returned" /\ pc' = "out"
      /\ result' = IF call.op = "to_dut" THEN qemu_r.dut ELSE result
      /\ qemu_r' = Start
      /\ UNCHANGED <<call, todo, ok, toStub, toClient, line, noise, mem, regs, last, serving, done>>
  BY DEF Return, stubVars
<1>2. Types /\ toClient = <<>> /\ (line = "open" => QuietStub)
  BY <1>1, PhaseAt DEF ReadyToSend
<1>3. Types'
  <2>1. qemu_r' \in States /\ qemu_r.dut \in 0 .. Pcs - 1 /\ result \in 0 .. Pcs - 1
    BY <1>1, <1>2, GdbAssumption DEF Types, Start, States
  <2>2. result' \in 0 .. Pcs - 1
    BY <1>1, <2>1
  <2> QED
    BY ONLY <1>1, <1>2, <2>1, <2>2 DEF Types
<1> QED
  BY <1>1, <1>2, <1>3 DEF GdbInv, QuietStub

-----------------------------------------------------------------------------
(* The client                                                              *)

LEMMA SendPacketKeeps ==
  ASSUME GdbInv, send_packet
  PROVE  GdbInv'
<1>1. /\ status = "busy" /\ pc = "send" /\ todo # <<>> /\ pc' = "ack" /\ line # "rst"
      /\ toStub' = IF line = "open" THEN Append(toStub, Packet(Body(Head(todo)))) ELSE toStub
      /\ line' = IF line = "open" THEN "open" ELSE "rst"
      /\ UNCHANGED <<status, call, todo, qemu_r, ok, result, toClient, noise, mem, regs, last, serving, done>>
  BY DEF send_packet, Write, stubVars
<1>2. Types /\ IsRest /\ Learned /\ ReadyToSend
  BY <1>1, PhaseAt
<1>3. PICK p : p = Packet(Body(Head(todo)))
  OBVIOUS
<1>4. p \in Chars(Commands) /\ Sent(p, Body(Head(todo)))
  BY <1>1, <1>2, <1>3, BodyFacts, CharFacts
<1>5. IsRest' /\ Learned' /\ Obeyed(0)'
  BY <1>1, <1>2, SameCall, SameProgress DEF Learned, ReadIsFresh, ReadyToSend
<1>6. CommandSent'
  <2>1. line' = "open" => serving' = None /\ (toStub' = <<p>> \/ toStub' = <<Ack, p>>)
    <3>1. ASSUME line = "open"
          PROVE  serving' = None /\ (toStub' = <<p>> \/ toStub' = <<Ack, p>>)
      <4>1. serving = None /\ toStub \in {<<>>, <<Ack>>}
        BY <1>2, <3>1 DEF ReadyToSend, QuietStub
      <4>2. toStub' = Append(toStub, p)
        BY <1>1, <1>3, <3>1
      <4>3. Append(<<>>, p) = <<p>> /\ Append(<<Ack>>, p) = <<Ack, p>>
        BY ShortSeqs, SecondAppended
      <4> QED
        BY <1>1, <4>1, <4>2, <4>3
    <3> QED
      BY <1>1, <3>1
  <2>2. Sent(p, Body(Head(todo)))'
    BY <1>1, <1>4 DEF Sent, Body
  <2>3. p \in Chars(Commands)'
    BY <1>4 DEF Chars, Commands, States
  <2>4. toClient' = <<>> /\ todo' # <<>>
    BY <1>1, <1>2 DEF ReadyToSend
  <2> QED
    BY <1>1, <1>5, <2>1, <2>2, <2>3, <2>4 DEF CommandSent
<1>7. Types'
  <2>1. toStub' \in Seq(Chars(Commands)) /\ line' \in {"open", "fin", "rst"}
    <3>1. toStub \in Seq(Chars(Commands))
      BY <1>2 DEF Types
    <3>2. Append(toStub, p) \in Seq(Chars(Commands))
      BY <1>4, <3>1, AppendProperties
    <3> QED
      BY <1>1, <1>3, <3>1, <3>2
  <2>2. pc' \in {"send", "ack", "recv", "out"}
    BY <1>1
  <2>3. UNCHANGED <<status, call, todo, qemu_r, ok, result, toClient, noise, mem, regs, last, serving, done>>
    BY <1>1
  <2> QED
    BY ONLY <1>2, <2>1, <2>2, <2>3 DEF Types
<1> QED
  BY <1>1, <1>5, <1>6, <1>7 DEF GdbInv, Phase


\* What an acknowledgement, or the end of the file, makes of a phase.
LEMMA GdbSendKeeps ==
  ASSUME GdbInv, gdb_send
  PROVE  GdbInv'
<1>1. /\ status = "busy" /\ pc = "ack"
      /\ UNCHANGED <<status, call, todo, qemu_r, ok, result, toStub, line, noise, mem, regs, last, serving, done>>
      /\ \/ /\ toClient # <<>> /\ toClient' = Tail(toClient)
            /\ pc' = IF Head(toClient).kind = "+" THEN "recv" ELSE "send"
         \/ toClient = <<>> /\ line # "open" /\ pc' = "send" /\ UNCHANGED toClient
  BY DEF gdb_send, EndOfFile, stubVars
<1>2. Types /\ IsRest /\ Learned /\ (CommandSent \/ CommandRefused \/ CommandTaken \/ CommandAnswered)
  BY <1>1, PhaseAt
<1>3. /\ IsRest' /\ Learned'
      /\ Obeyed(0) => Obeyed(0)'
      /\ Obeyed(1) => Obeyed(1)'
      /\ Body(Head(todo))' = Body(Head(todo))
  BY <1>1, <1>2, SameCall, SameProgress DEF Learned, ReadIsFresh, Body
<1>4. Types'
  <2>1. toClient' \in Seq(Chars(Replies))
    <3>1. toClient \in Seq(Chars(Replies))
      BY <1>2 DEF Types
    <3>2. toClient # <<>> => Tail(toClient) \in Seq(Chars(Replies))
      BY <3>1, HeadTailProperties
    <3> QED
      BY <1>1, <3>1, <3>2
  <2>2. pc' \in {"send", "ack", "recv", "out"}
    BY <1>1
  <2>3. UNCHANGED <<status, call, todo, qemu_r, ok, result, toStub, line, noise, mem, regs, last, serving, done>>
    BY <1>1
  <2> QED
    BY ONLY <1>2, <2>1, <2>2, <2>3 DEF Types
<1>5. CASE CommandSent
  <2>1. toClient' = <<>> /\ line # "open" /\ pc' = "send" /\ Obeyed(0)
    BY <1>1, <1>5 DEF CommandSent
  <2> QED
    BY <1>1, <1>3, <1>4, <2>1 DEF GdbInv, Phase, ReadyToSend
<1>6. CASE CommandRefused
  <2>1. toClient' = <<>> /\ pc' = "send"
    BY <1>1, <1>6, ShortSeqs, CharFacts DEF CommandRefused
  <2>2. ReadyToSend'
    BY <1>1, <1>3, <1>6, <2>1 DEF CommandRefused, ReadyToSend, QuietStub
  <2> QED
    BY <1>1, <1>3, <1>4, <2>2 DEF GdbInv, Phase
<1>7. CASE CommandTaken
  <2>0. toClient = <<Ack>>
    BY <1>1, <1>7 DEF CommandTaken
  <2>1. toClient' = <<>> /\ pc' = "recv"
    BY <1>1, <2>0, ShortSeqs, CharFacts
  <2>2. CommandTaken'
    BY <1>1, <1>3, <1>7, <2>1 DEF CommandTaken
  <2> QED
    BY <1>1, <1>3, <1>4, <2>2 DEF GdbInv, Phase
<1>8. CASE CommandAnswered
  <2>1. PICK c \in Chars(Replies), reply \in Replies :
          /\ Sent(c, reply) /\ Right(reply) /\ toClient = <<Ack, c>>
          /\ line = "open" => last = reply
    BY <1>1, <1>8 DEF CommandAnswered
  <2>2. toClient' = <<c>> /\ pc' = "recv"
    BY <1>1, <2>1, ShortSeqs, CharFacts
  <2>3. Sent(c, reply)' /\ Right(reply)' /\ c \in Chars(Replies)' /\ reply \in Replies'
    BY <1>1, <2>1 DEF Sent, Right, Chars, Replies, States
  <2>4. CommandAnswered'
    BY <1>1, <1>3, <1>8, <2>1, <2>2, <2>3 DEF CommandAnswered
  <2> QED
    BY <1>1, <1>3, <1>4, <2>4 DEF GdbInv, Phase
<1> QED
  BY <1>2, <1>5, <1>6, <1>7, <1>8

\* A reply that is read.
LEMMA RecvFacts ==
  ASSUME GdbInv, gdb_recv
  PROVE  /\ status = "busy" /\ pc = "recv" /\ CommandAnswered
         /\ Types /\ IsRest /\ Learned /\ todo # <<>> /\ Obeyed(1)
         /\ toClient' = <<>> /\ line # "rst"
         /\ line' = IF line = "open" THEN "open" ELSE "rst"
         /\ UNCHANGED <<status, call, result, noise, mem, regs, last, serving, done>>
         /\ \E c \in Chars(Replies), reply \in Replies :
              /\ Sent(c, reply) /\ Right(reply) /\ toClient = <<c>>
              /\ line = "open" =>
                   /\ last = reply /\ serving = None
                   /\ toStub' = <<IF c.sum_ok THEN Ack ELSE Nack>>
              /\ line # "open" => UNCHANGED toStub
              /\ c.sum_ok => Reply(reply)
              /\ ~c.sum_ok => UNCHANGED <<todo, pc, qemu_r, ok>>
<1>1. /\ status = "busy" /\ pc = "recv" /\ toClient # <<>> /\ toClient' = Tail(toClient)
      /\ Write(IF Head(toClient).sum_ok THEN Ack ELSE Nack)
      /\ IF Head(toClient).sum_ok THEN Reply(Head(toClient).body) ELSE UNCHANGED <<todo, pc, qemu_r, ok>>
      /\ UNCHANGED <<status, call, result, noise, mem, regs, last, serving, done>>
  BY DEF gdb_recv, stubVars
<1>2. Types /\ IsRest /\ Learned /\ CommandAnswered
  <2>1. ~CommandTaken /\ ~ReplyRefused
    BY <1>1 DEF CommandTaken, ReplyRefused
  <2> QED
    BY <1>1, <2>1, PhaseAt
<1>3. PICK c \in Chars(Replies), reply \in Replies :
          /\ Sent(c, reply) /\ Right(reply) /\ toClient = <<c>>
          /\ line = "open" => last = reply
  BY <1>1, <1>2 DEF CommandAnswered
<1>4. Head(toClient) = c /\ toClient' = <<>> /\ c.body = reply
  BY <1>1, <1>3, ShortSeqs, CharFacts
<1>5. Write(IF c.sum_ok THEN Ack ELSE Nack)
  BY <1>1, <1>4
<1>6. line = "open" => serving = None /\ toStub = <<>>
  BY <1>2 DEF CommandAnswered
<1>7. /\ line # "rst" /\ line' = IF line = "open" THEN "open" ELSE "rst"
      /\ line = "open" => toStub' = <<IF c.sum_ok THEN Ack ELSE Nack>>
      /\ line # "open" => UNCHANGED toStub
  BY <1>5, <1>6, ShortSeqs DEF Write
<1>8. /\ c.sum_ok => Reply(reply)
      /\ ~c.sum_ok => UNCHANGED <<todo, pc, qemu_r, ok>>
  BY <1>1, <1>4
<1>9. todo # <<>> /\ Obeyed(1)
  BY <1>2 DEF CommandAnswered
<1> QED
  BY <1>1, <1>2, <1>3, <1>4, <1>6, <1>7, <1>8, <1>9

\* One command less to answer.
LEMMA RestShrinks ==
  ASSUME Types, IsRest, todo # <<>>, UNCHANGED call, todo' = Tail(todo)
  PROVE  IsRest' /\ Answers' = Answers + 1 /\ todo' \in Seq(AllCommands) /\ \A k : DoneAfter(k)' = DoneAfter(k)
<1>1. /\ CommandCount' = CommandCount
      /\ difftest_commands(call)' = difftest_commands(call)
      /\ \A k : DoneAfter(k)' = DoneAfter(k)
  BY DEF CommandCount, DoneAfter, Units, difftest_commands, gdb_memcpy_to_qemu, PieceCount, Piece
<1>2. /\ Len(todo') = Len(todo) - 1 /\ Len(todo) \in Nat \ {0} /\ CommandCount \in Nat
      /\ \A i \in 1 .. Len(todo') : todo'[i] = todo[i + 1]
      /\ todo' \in Seq(AllCommands)
  BY FirstOfRest
<1>3. Answers' = Answers + 1 /\ Answers \in Nat
  BY <1>1, <1>2, FirstOfRest DEF Answers
<1>4. \A i \in 1 .. Len(todo') : todo'[i] = difftest_commands(call)[Answers' + i]
  <2> SUFFICES ASSUME NEW i \in 1 .. Len(todo')
               PROVE  todo'[i] = difftest_commands(call)[Answers' + i]
    OBVIOUS
  <2>1. i + 1 \in 1 .. Len(todo) /\ Answers' + i = Answers + (i + 1)
    BY <1>2, <1>3
  <2>2. todo[i + 1] = difftest_commands(call)[Answers + (i + 1)]
    BY <2>1 DEF IsRest
  <2> QED
    BY <1>2, <2>1, <2>2
<1>5. Len(todo') <= CommandCount
  BY <1>2 DEF IsRest
<1> QED
  BY <1>1, <1>2, <1>3, <1>4, <1>5 DEF IsRest

LEMMA GdbRecvKeeps ==
  ASSUME GdbInv, gdb_recv
  PROVE  GdbInv'
<1>1. /\ status = "busy" /\ pc = "recv" /\ Types /\ IsRest /\ Learned /\ todo # <<>> /\ Obeyed(1)
      /\ toClient' = <<>>
      /\ line' = IF line = "open" THEN "open" ELSE "rst"
      /\ UNCHANGED <<status, call, result, noise, mem, regs, last, serving, done>>
  BY RecvFacts
<1>2. PICK c \in Chars(Replies), reply \in Replies :
              /\ Sent(c, reply) /\ Right(reply)
              /\ line = "open" =>
                   /\ last = reply /\ serving = None
                   /\ toStub' = <<IF c.sum_ok THEN Ack ELSE Nack>>
              /\ line # "open" => UNCHANGED toStub
              /\ c.sum_ok => Reply(reply)
              /\ ~c.sum_ok => UNCHANGED <<todo, pc, qemu_r, ok>>
  BY RecvFacts
<1>3. toStub' \in Seq(Chars(Commands)) /\ toClient' \in Seq(Chars(Replies)) /\ line' \in {"open", "fin", "rst"}
  <2>1. <<Ack>> \in Seq(Chars(Commands)) /\ <<Nack>> \in Seq(Chars(Commands))
    BY CharFacts
  <2>2. toStub \in Seq(Chars(Commands))
    BY <1>1 DEF Types
  <2>3. toStub' = <<Ack>> \/ toStub' = <<Nack>> \/ toStub' = toStub
    BY <1>2
  <2>4. toStub' \in Seq(Chars(Commands))
    BY ONLY <2>1, <2>2, <2>3
  <2>5. line' \in {"open", "fin", "rst"}
    BY <1>1
  <2>6. toClient' \in Seq(Chars(Replies))
    BY <1>1, EmptySeq
  <2> QED
    BY <2>4, <2>5, <2>6
<1>4. CASE c.sum_ok
  <2>1. /\ todo' = Tail(todo) /\ pc' = "send"
        /\ qemu_r' \in IF Head(todo).cmd # "g" THEN {qemu_r}
                       ELSE IF reply.cmd = "regs" THEN {reply.regs} ELSE States
        /\ ok' = (ok /\ (Head(todo).cmd = "M" => reply.cmd = "OK"))
    BY <1>2, <1>4 DEF Reply
  <2>2. /\ IsRest' /\ Answers' = Answers + 1 /\ Answers \in Nat /\ todo' \in Seq(AllCommands)
        /\ \A k : DoneAfter(k)' = DoneAfter(k)
    BY <1>1, <2>1, RestShrinks, FirstOfRest
  <2>3. /\ Head(todo).cmd = "g" => qemu_r' = regs
        /\ Head(todo).cmd # "g" => qemu_r' = qemu_r
        /\ qemu_r' \in States /\ ok' \in BOOLEAN
    BY <1>1, <1>2, <2>1 DEF Right, Types
  <2>4. Types'
    BY ONLY <1>1, <1>3, <2>1, <2>2, <2>3 DEF Types
  <2>5. ReadyToSend'
    <3>1. Answers' + 0 = Answers + 1
      BY <2>2
    <3>2. Obeyed(0)'
      BY <1>1, <2>2, <3>1 DEF Obeyed
    <3>3. line' = "open" => QuietStub'
      BY <1>1, <1>2, <1>4 DEF QuietStub
    <3> QED
      BY <1>1, <2>1, <3>2, <3>3 DEF ReadyToSend
  <2>6. Learned'
    <3>1. ASSUME call.op \in {"to_ref", "to_dut"}, Answers' = 1
          PROVE  qemu_r' = regs'
      <4>1. Answers = 0
        BY <2>2, <3>1
      <4>2. Head(todo).cmd = "g"
        BY <1>1, <3>1, <4>1, FirstCommand
      <4> QED
        BY <1>1, <2>3, <4>2
    <3>2. ASSUME call.op = "memcpy", ok', NEW i \in 1 .. DoneAfter(Answers + 1)
          PROVE  call.from + i - 1 \in Addrs
      <4>1. /\ Head(todo).cmd = "M" /\ DoneAfter(Answers) \in Nat /\ DoneAfter(Answers + 1) \in Nat
            /\ Target(Head(todo)) =
                 {call.from + j - 1 : j \in DoneAfter(Answers) + 1 .. DoneAfter(Answers + 1)}
        BY <1>1, <3>2, PieceUnderWay
      <4>2. ok /\ Target(Head(todo)) \subseteq Addrs
        BY <1>2, <2>1, <3>2, <4>1 DEF Right
      <4>3. CASE i <= DoneAfter(Answers)
        <5>1. i \in 1 .. DoneAfter(Answers)
          BY <4>1, <4>3
        <5> QED
          BY <1>1, <3>2, <4>2, <5>1 DEF Learned, OkIsTrue
      <4>4. CASE ~(i <= DoneAfter(Answers))
        <5>1. i \in DoneAfter(Answers) + 1 .. DoneAfter(Answers + 1)
          BY <4>1, <4>4
        <5> QED
          BY <4>1, <4>2, <5>1
      <4> QED
        BY <4>3, <4>4
    <3>3. DoneAfter(Answers)' = DoneAfter(Answers + 1) /\ UNCHANGED call
      <4>1. UNCHANGED call
        BY <1>1
      <4> QED
        BY <2>2, <4>1 DEF DoneAfter, Units
    <3>4. OkIsTrue'
      BY <3>2, <3>3 DEF OkIsTrue
    <3> QED
      BY <1>1, <3>1, <3>4 DEF Learned, ReadIsFresh
  <2> QED
    BY <1>1, <2>2, <2>4, <2>5, <2>6 DEF GdbInv, Phase
<1>5. CASE ~c.sum_ok
  <2>1. UNCHANGED <<todo, pc, qemu_r, ok>>
    BY <1>2, <1>5
  <2>2. Types'
    BY ONLY <1>1, <1>3, <2>1 DEF Types
  <2>3. IsRest' /\ Learned' /\ Obeyed(1)'
    BY <1>1, <2>1, SameCall, SameProgress DEF Learned, ReadIsFresh
  <2>4. line' = "open" => serving' = None /\ toStub' = <<Nack>> /\ Right(last)'
    BY <1>1, <1>2, <1>5, <2>1 DEF Right, Replies, States
  <2>5. ReplyRefused'
    BY <1>1, <2>1, <2>3, <2>4 DEF ReplyRefused
  <2> QED
    BY <1>1, <2>2, <2>3, <2>5 DEF GdbInv, Phase
<1> QED
  BY <1>4, <1>5

\* When the process ends, QEMU's end of the connection is closed, or will be.
LEMMA DeathKeeps ==
  ASSUME GdbInv, recv_closed \/ BrokenPipe \/ AssertFails
  PROVE  GdbInv'
<1>1. /\ status' = "dead" /\ pc' = "out" /\ line' # "open" /\ line' \in {line, "fin"}
      /\ UNCHANGED <<call, todo, qemu_r, ok, result, toStub, toClient, noise, mem, regs, last, serving, done>>
  BY DEF recv_closed, BrokenPipe, AssertFails, EndOfFile, stubVars
<1>2. Types'
  <2>1. /\ Types /\ status' \in {"busy", "returned", "dead"} /\ pc' \in {"send", "ack", "recv", "out"}
        /\ line' \in {"open", "fin", "rst"}
    BY <1>1, InvTypes
  <2>2. UNCHANGED <<call, todo, qemu_r, ok, result, toStub, toClient, noise, mem, regs, last, serving, done>>
    BY <1>1
  <2> QED
    BY ONLY <2>1, <2>2 DEF Types
<1> QED
  BY <1>1, <1>2 DEF GdbInv


-----------------------------------------------------------------------------
(* QEMU obeys a command                                                    *)

\* A command is obeyed when it was taken, for the call that is being served.
LEMMA TakenWhenServed ==
  ASSUME GdbInv, StubServes
  PROVE  /\ status = "busy" /\ line = "open" /\ CommandTaken /\ todo # <<>> /\ Types /\ IsRest /\ Learned
         /\ serving = Body(Head(todo)) /\ toStub = <<>> /\ done = DoneAfter(Answers)
         /\ UNCHANGED <<status, call, todo, pc, qemu_r, ok, result, toStub, line, noise>>
         /\ Answers \in Nat
<1>1. line = "open" /\ serving # None
      /\ UNCHANGED <<status, call, todo, pc, qemu_r, ok, result, toStub, line, noise>>
  BY DEF StubServes, clientVars
<1>2. status = "busy"
  BY <1>1 DEF GdbInv, QuietStub, Types
<1>3. CommandTaken
  <2>1. ~ReadyToSend /\ ~CommandSent /\ ~CommandRefused /\ ~CommandAnswered /\ ~ReplyRefused
    BY <1>1 DEF ReadyToSend, QuietStub, CommandSent, CommandRefused, CommandAnswered, ReplyRefused
  <2> QED
    BY <1>2, <2>1, PhaseAt DEF Phase
<1>4. Types /\ IsRest /\ Learned
  BY <1>2, PhaseAt
<1>5. todo # <<>> /\ serving = Body(Head(todo)) /\ toStub = <<>> /\ Obeyed(0)
  BY <1>1, <1>3 DEF CommandTaken
<1>6. Answers \in Nat
  BY <1>4, <1>5, FirstOfRest
<1>7. Answers + 0 = Answers
  BY <1>6
<1> QED
  BY <1>1, <1>2, <1>3, <1>4, <1>5, <1>6, <1>7 DEF Obeyed

\* What obeying the command under way does: one step of the reference, or none.
Obeys(reply) ==
  /\ reply \in Replies /\ Answer(reply)
  /\ Head(todo).cmd = "g" => reply = [cmd |-> "regs", regs |-> regs']
  /\ Head(todo).cmd = "M" /\ reply.cmd = "OK" => Target(Head(todo)) \subseteq Addrs
  /\ done' = DoneAfter(Answers + 1) /\ done' \in Nat
  /\ mem' \in [Addrs -> Vals] /\ regs' \in States
  /\ call.op \in {"to_ref", "to_dut"} /\ Answers = 1 => done' # 0
  /\ Machine!Next \/ UNCHANGED Machine!vars

LEMMA StepType == \A r \in States : Step[r] \in States
<1> SUFFICES ASSUME NEW r \in States
             PROVE  Step[r] \in States
  OBVIOUS
<1>1. Pcs \in Nat \ {0}
  BY GdbAssumption
<1>2. r.dut \in 0 .. Pcs - 1 /\ r.own \in 0 .. Pcs - 1
  BY DEF States
<1>3. (r.dut + 1) % Pcs \in 0 .. Pcs - 1 /\ (r.own + 1) % Pcs \in 0 .. Pcs - 1
  BY <1>1, <1>2
<1> QED
  BY <1>3 DEF Step, States

LEMMA ExecObeyed ==
  ASSUME GdbInv, StubServes, call.op = "exec"
  PROVE  \E reply : Obeys(reply)
<1>1. /\ status = "busy" /\ Types /\ done = DoneAfter(Answers) /\ Answers \in Nat
      /\ UNCHANGED <<status, call, result>>
      /\ Head(todo) = [cmd |-> "s"] /\ Answers < call.n
      /\ serving = Body(Head(todo))
  BY TakenWhenServed, FirstCommand
<1>2. serving = [cmd |-> "s"]
  BY <1>1 DEF Body
<1>3. Answer([cmd |-> "stopped"]) /\ regs' = Step[regs] /\ done' = done + 1 /\ UNCHANGED mem
  BY <1>2 DEF StubServes
<1>4. done = Answers /\ DoneAfter(Answers + 1) = Answers + 1
  BY <1>1 DEF DoneAfter
<1>5. Machine!Execute
  BY <1>1, <1>3, <1>4 DEF Machine!Execute
<1>6. regs' \in States /\ mem' \in [Addrs -> Vals] /\ done' \in Nat
  BY <1>1, <1>3, <1>4, StepType DEF Types
<1>7. [cmd |-> "stopped"] \in Replies
  BY DEF Replies
<1> QED
  <2>1. Head(todo).cmd # "g" /\ Head(todo).cmd # "M"
    BY <1>1
  <2> QED
    BY <1>3, <1>4, <1>5, <1>6, <1>7, <2>1 DEF Obeys, Machine!Next

LEMMA ReadObeyed ==
  ASSUME GdbInv, StubServes, Head(todo) = [cmd |-> "g"], call.op \in {"to_ref", "to_dut"}, Answers = 0
  PROVE  \E reply : Obeys(reply)
<1>1. /\ status = "busy" /\ Types /\ done = DoneAfter(Answers)
      /\ UNCHANGED <<status, call, result>>
      /\ serving = Body(Head(todo))
  BY TakenWhenServed
<1>2. serving = [cmd |-> "g"]
  BY <1>1 DEF Body
<1>3. Answer([cmd |-> "regs", regs |-> regs]) /\ UNCHANGED <<regs, mem, done>>
  BY <1>2 DEF StubServes
<1>4. done = 0 /\ DoneAfter(Answers + 1) = 0
  BY <1>1 DEF DoneAfter
<1>5. [cmd |-> "regs", regs |-> regs] \in Replies
  BY <1>1 DEF Types, Replies
<1>6. UNCHANGED Machine!vars
  BY <1>1, <1>3 DEF Machine!vars
<1> QED
  BY <1>1, <1>3, <1>4, <1>5, <1>6 DEF Obeys, Types

LEMMA WriteObeyed ==
  ASSUME GdbInv, StubServes, Head(todo) = [cmd |-> "setregs"], call.op = "to_ref", Answers = 1
  PROVE  \E reply : Obeys(reply)
<1>1. /\ status = "busy" /\ Types /\ done = DoneAfter(Answers) /\ Learned
      /\ UNCHANGED <<status, call, result>>
      /\ serving = Body(Head(todo))
  BY TakenWhenServed
<1>2. done = 0 /\ DoneAfter(Answers + 1) = 1
  BY <1>1 DEF DoneAfter
<1>3. qemu_r = regs
  BY <1>1, <1>2 DEF Learned, ReadIsFresh
<1>4. serving = [cmd |-> "G", regs |-> [regs EXCEPT !.dut = call.v]]
  BY <1>1, <1>3 DEF Body
<1>5. Answer([cmd |-> "OK"]) /\ regs' = [regs EXCEPT !.dut = call.v] /\ done' = done + 1 /\ UNCHANGED mem
  BY <1>4 DEF StubServes
<1>6. Machine!SetRegisters
  BY <1>1, <1>2, <1>5 DEF Machine!SetRegisters
<1>7. regs' \in States
  <2>1. call.v \in 0 .. Pcs - 1 /\ regs \in States
    BY <1>1, CallFacts DEF Types
  <2> QED
    BY <1>5, <2>1 DEF States
<1>8. [cmd |-> "OK"] \in Replies
  BY DEF Replies
<1> QED
  <2>1. Head(todo).cmd # "g" /\ Head(todo).cmd # "M"
    OBVIOUS
  <2> QED
    BY <1>1, <1>2, <1>5, <1>6, <1>7, <1>8, <2>1 DEF Obeys, Types, Machine!Next

LEMMA CopyObeyed ==
  ASSUME GdbInv, StubServes, call.op = "memcpy"
  PROVE  \E reply : Obeys(reply)
<1>1. /\ status = "busy" /\ Types /\ IsRest /\ todo # <<>> /\ done = DoneAfter(Answers)
      /\ UNCHANGED <<status, call, result>> /\ serving = Body(Head(todo))
  BY TakenWhenServed
<1>2. PICK p, data, from, upto :
        /\ p = Head(todo) /\ data = call.data
        /\ from = DoneAfter(Answers) /\ upto = DoneAfter(Answers + 1)
  OBVIOUS
<1>3. /\ from \in Nat /\ upto \in Nat /\ from <= upto /\ upto <= Len(data)
      /\ call.from \in Nat /\ data \in Seq(Vals)
      /\ p.cmd = "M" /\ p.from = call.from + from
      /\ p.data \in Seq(Vals) /\ Len(p.data) = upto - from
      /\ \A i \in 1 .. upto - from : p.data[i] = data[from + i]
      /\ Target(p) = {call.from + i - 1 : i \in from + 1 .. upto}
  BY <1>1, <1>2, PieceUnderWay
<1>4. serving = p
  BY <1>1, <1>2, <1>3 DEF Body
<1>5. StubWrites(p)
  BY <1>3, <1>4 DEF StubServes
<1>6. PICK written \in SUBSET (Target(p) \cap Addrs) :
        /\ mem' = [a \in Addrs |-> IF a \in written THEN p.data[a - p.from + 1] ELSE mem[a]]
        /\ \/ written = Target(p) /\ Answer([cmd |-> "OK"])
           \/ (p.data = <<>> \/ ~(Target(p) \subseteq Addrs)) /\ Answer([cmd |-> "error"])
  BY <1>5 DEF StubWrites
<1>7. PICK reply \in Replies :
        Answer(reply) /\ (reply.cmd = "OK" => Target(p) \subseteq Addrs)
  <2>1. [cmd |-> "OK"] \in Replies /\ [cmd |-> "error"] \in Replies
    BY DEF Replies
  <2> QED
    BY <1>6, <2>1
<1>8. done' = upto /\ UNCHANGED regs
  <2>1. done' = from + (upto - from) /\ UNCHANGED regs
    BY <1>1, <1>2, <1>3, <1>5 DEF StubWrites
  <2> QED
    BY <1>3, <2>1
<1>9. Len(data) \in Nat
  BY <1>3, LenProperties
<1>10. ASSUME NEW a \in Target(p)
       PROVE  /\ a \in call.from + from .. call.from + upto - 1
              /\ p.data[a - p.from + 1] = data[a - call.from + 1]
              /\ data[a - call.from + 1] \in Vals
  <2>1. PICK i \in from + 1 .. upto : a = call.from + i - 1
    BY <1>3
  <2>2. PICK j : j = i - from
    OBVIOUS
  <2>3. /\ a \in call.from + from .. call.from + upto - 1
        /\ j \in 1 .. upto - from /\ from + j = i /\ i \in 1 .. Len(data)
        /\ a - (call.from + from) + 1 = j /\ a - call.from + 1 = i
    <3>1. PICK f, len : f = call.from /\ len = Len(data)
      OBVIOUS
    <3>2. /\ f \in Nat /\ len \in Nat /\ from \in Nat /\ upto \in Nat /\ upto <= len
          /\ i \in from + 1 .. upto /\ a = f + i - 1 /\ j = i - from
      BY ONLY <1>3, <1>9, <2>1, <2>2, <3>1
    <3>3. /\ a \in f + from .. f + upto - 1
          /\ j \in 1 .. upto - from /\ from + j = i /\ i \in 1 .. len
          /\ a - (f + from) + 1 = j /\ a - f + 1 = i
      BY ONLY <3>2
    <3> QED
      BY ONLY <3>1, <3>3
  <2>4. p.data[j] = data[i] /\ data[i] \in Vals
    BY <1>3, <2>3, ElementOfSeq
  <2> QED
    BY <1>3, <2>3, <2>4
<1>11. mem' = [a \in Addrs |-> IF a \in written THEN data[a - call.from + 1] ELSE mem[a]]
  BY <1>6, <1>10
<1>12. mem' \in [Addrs -> Vals]
  <2>1. mem \in [Addrs -> Vals]
    BY <1>1 DEF Types
  <2>2. \A a \in Addrs : (IF a \in written THEN data[a - call.from + 1] ELSE mem[a]) \in Vals
    BY <1>6, <1>10, <2>1
  <2> QED
    BY ONLY <1>11, <2>2
<1>13. ASSUME from < upto
       PROVE  Machine!Next
  <2>1. upto \in done + 1 .. Len(call.data)
    BY <1>1, <1>2, <1>3, <1>9, <1>13
  <2>2. PICK piece : piece = {a \in Addrs : a \in call.from + done .. call.from + upto - 1}
    OBVIOUS
  <2>3. written \in SUBSET piece
    BY <1>1, <1>2, <1>6, <1>10, <2>2
  <2>4. ASSUME Machine!Fits(call)
        PROVE  written = piece
    <3>1. Target(p) \subseteq Addrs
      <4>1. ASSUME NEW i \in from + 1 .. upto
            PROVE  call.from + i - 1 \in Addrs
        <5>1. i \in 1 .. Len(call.data)
          BY <1>2, <1>3, <1>9, <4>1
        <5> QED
          BY <2>4, <5>1 DEF Machine!Fits
      <4> QED
        BY <1>3, <4>1
    <3>2. p.data # <<>>
      <4>1. Len(p.data) # 0
        BY <1>3, <1>13
      <4> QED
        BY <4>1, ShortSeqs
    <3>3. written = Target(p)
      BY <1>6, <3>1, <3>2
    <3>4. ASSUME NEW a \in piece
          PROVE  a \in Target(p)
      <4>1. a \in call.from + from .. call.from + upto - 1
        BY <1>1, <1>2, <2>2, <3>4
      <4>2. a - call.from + 1 \in from + 1 .. upto /\ a = call.from + (a - call.from + 1) - 1
        BY ONLY <1>3, <4>1
      <4> QED
        BY <1>3, <4>2
    <3> QED
      BY <2>3, <3>3, <3>4
  <2>5. Machine!CopyMemory
    <3>1. mem' = [a \in Addrs |-> IF a \in written THEN call.data[a - call.from + 1] ELSE mem[a]]
      BY <1>2, <1>11
    <3>2. written \in SUBSET {a \in Addrs : a \in call.from + done .. call.from + upto - 1}
          /\ (Machine!Fits(call) =>
                written = {a \in Addrs : a \in call.from + done .. call.from + upto - 1})
      BY <2>2, <2>3, <2>4
    <3>3. status = "busy" /\ done' = upto /\ UNCHANGED <<regs, call, result, status>>
      BY <1>1, <1>8
    <3> QED
      BY ONLY <2>1, <3>1, <3>2, <3>3, call.op = "memcpy" DEF Machine!CopyMemory
  <2> QED
    BY <2>5 DEF Machine!Next
<1>14. ASSUME ~(from < upto)
       PROVE  UNCHANGED Machine!vars
  <2>1. from = upto /\ Target(p) = {}
    BY <1>3, <1>14
  <2>2. written = {}
    BY <1>6, <2>1
  <2>3. mem' = mem
    BY <1>1, <1>11, <2>2 DEF Types
  <2> QED
    BY <1>1, <1>2, <1>8, <2>1, <2>3 DEF Machine!vars
<1>15. Machine!Next \/ UNCHANGED Machine!vars
  BY <1>13, <1>14
<1>16. regs' \in States
  BY <1>1, <1>8 DEF Types
<1> QED
  BY <1>2, <1>3, <1>7, <1>8, <1>12, <1>15, <1>16 DEF Obeys

LEMMA ServedIsObeyed ==
  ASSUME GdbInv, StubServes
  PROVE  \E reply : Obeys(reply)
<1>1. Types /\ IsRest /\ todo # <<>>
  BY TakenWhenServed
<1> QED
  BY <1>1, FirstCommand, ExecObeyed, ReadObeyed, WriteObeyed, CopyObeyed

LEMMA StubServesKeeps ==
  ASSUME GdbInv, StubServes
  PROVE  GdbInv'
<1>1. /\ status = "busy" /\ line = "open" /\ CommandTaken /\ todo # <<>> /\ Types /\ IsRest /\ Learned
      /\ toStub = <<>> /\ Answers \in Nat
      /\ UNCHANGED <<status, call, todo, pc, qemu_r, ok, result, toStub, line, noise>>
  BY TakenWhenServed
<1>2. PICK reply : Obeys(reply)
  BY ServedIsObeyed
<1>3. /\ reply \in Replies /\ last' = reply /\ serving' = None
      /\ toClient' = Append(toClient, Packet(reply))
      /\ Head(todo).cmd = "g" => reply = [cmd |-> "regs", regs |-> regs']
      /\ Head(todo).cmd = "M" /\ reply.cmd = "OK" => Target(Head(todo)) \subseteq Addrs
      /\ done' = DoneAfter(Answers + 1) /\ done' \in Nat
      /\ mem' \in [Addrs -> Vals] /\ regs' \in States
      /\ call.op \in {"to_ref", "to_dut"} /\ Answers = 1 => done' # 0
  BY <1>2 DEF Obeys, Answer
<1>4. PICK c \in Chars(Replies) : c = Packet(reply) /\ Sent(c, reply)
  BY <1>3, CharFacts
<1>5. IsRest' /\ Obeyed(1)'
  BY <1>1, <1>3, SameCall DEF Obeyed
<1>6. Learned'
  BY <1>1, <1>3, SameCall DEF Learned, ReadIsFresh
<1>7. Types'
  <2>1. toClient' \in Seq(Chars(Replies))
    BY <1>1, <1>3, <1>4, AppendProperties DEF Types
  <2>2. last' \in Replies \cup {None} /\ serving' \in Commands \cup {None}
    BY <1>3
  <2> QED
    BY ONLY <1>1, <1>3, <2>1, <2>2 DEF Types
<1>8. CommandAnswered'
  <2>1. \/ pc = "ack" /\ toClient' = <<Ack, c>>
        \/ pc = "recv" /\ toClient' = <<c>>
    BY <1>1, <1>3, <1>4, ShortSeqs, SecondAppended DEF CommandTaken
  <2>2. Sent(c, reply)' /\ c \in Chars(Replies)' /\ reply \in Replies' /\ Right(reply)'
    BY <1>1, <1>3, <1>4 DEF Sent, Chars, Replies, States, Right
  <2>3. line' = "open" => last' = reply /\ serving' = None /\ toStub' = <<>>
    BY <1>1, <1>3
  <2> QED
    BY <1>1, <1>5, <2>1, <2>2, <2>3 DEF CommandAnswered
<1> QED
  BY <1>1, <1>5, <1>6, <1>7, <1>8 DEF GdbInv, Phase


-----------------------------------------------------------------------------
(* QEMU reads, and the line                                                *)

LEMMA StubReadsKeeps ==
  ASSUME GdbInv, StubReads
  PROVE  GdbInv'
<1>1. /\ line = "open" /\ toStub # <<>> /\ serving = None /\ toStub' = Tail(toStub)
      /\ UNCHANGED <<status, call, todo, pc, qemu_r, ok, result, line, noise, mem, regs, done>>
  BY DEF StubReads, clientVars
<1>2. Types /\ status \in {"busy", "returned"}
  BY <1>1 DEF GdbInv, Types
<1>3. PICK c : c = Head(toStub) /\ c \in Chars(Commands) /\ toStub' \in Seq(Chars(Commands))
  BY <1>1, <1>2, HeadTailProperties DEF Types
<1>4. /\ c.kind = "+" => last' = None /\ UNCHANGED <<toClient, serving>>
      /\ c.kind = "-" =>
           /\ toClient' = IF last = None THEN toClient ELSE Append(toClient, Packet(last))
           /\ UNCHANGED <<last, serving>>
      /\ c.kind = "$" /\ c.sum_ok =>
           last' = None /\ serving' = c.body /\ toClient' = Append(toClient, Ack)
      /\ c.kind = "$" /\ ~c.sum_ok =>
           last' = None /\ toClient' = Append(toClient, Nack) /\ UNCHANGED serving
  BY <1>3 DEF StubReads
<1>5. /\ IsRest => IsRest'
      /\ Learned => Learned'
      /\ Obeyed(0) => Obeyed(0)'
      /\ Obeyed(1) => Obeyed(1)'
      /\ Body(Head(todo))' = Body(Head(todo))
  BY <1>1, SameCall, SameProgress DEF Learned, ReadIsFresh, Body
<1>6. ASSUME toClient' \in Seq(Chars(Replies)), last' \in Replies \cup {None}, serving' \in Commands \cup {None}
      PROVE  Types'
  BY ONLY <1>1, <1>2, <1>3, <1>6 DEF Types
<1>7. CASE QuietStub
  <2>1. c = Ack /\ toStub' = <<>>
    BY <1>1, <1>3, <1>7, ShortSeqs DEF QuietStub
  <2>2. last' = None /\ UNCHANGED <<toClient, serving>>
    BY <1>4, <2>1, CharFacts
  <2>3. QuietStub' /\ Types'
    BY <1>1, <1>2, <1>6, <2>1, <2>2 DEF QuietStub, Types
  <2>4. CASE status = "returned"
    BY <1>1, <2>2, <2>3, <2>4 DEF GdbInv
  <2>5. CASE status = "busy"
    <3>1. ReadyToSend /\ IsRest /\ Learned
      <4>1. ~CommandSent /\ ~CommandRefused /\ ~CommandTaken /\ ~CommandAnswered /\ ~ReplyRefused
        <5>1. toStub = <<Ack>> /\ <<Ack>> # <<Nack>>
          BY <1>1, <1>7, CharFacts DEF QuietStub
        <5>2. ~CommandSent
          <6>1. \A d, b : Sent(d, b) => <<Ack>> # <<d>> /\ <<Ack>> # <<Ack, d>>
            BY CharFacts, ShortSeqs
          <6> QED
            BY <1>1, <5>1, <6>1 DEF CommandSent
        <5>3. ~CommandRefused /\ ~CommandTaken /\ ~CommandAnswered /\ ~ReplyRefused
          BY <1>1, <5>1, ShortSeqs DEF CommandRefused, CommandTaken, CommandAnswered, ReplyRefused
        <5> QED
          BY <5>2, <5>3
      <4> QED
        BY <2>5, <4>1, PhaseAt DEF Phase
    <3>2. ReadyToSend'
      BY <1>1, <1>5, <2>2, <2>3, <3>1 DEF ReadyToSend
    <3> QED
      BY <1>1, <1>5, <2>3, <2>5, <3>1, <3>2 DEF GdbInv, Phase
  <2> QED
    BY <1>2, <2>4, <2>5
<1>8. CASE ~QuietStub
  <2>1. status = "busy" /\ IsRest /\ Learned
    BY <1>1, <1>2, <1>8, PhaseAt DEF GdbInv
  <2>2. ~ReadyToSend /\ ~CommandRefused /\ ~CommandTaken /\ ~CommandAnswered
    BY <1>1, <1>8 DEF ReadyToSend, CommandRefused, CommandTaken, CommandAnswered
  <2>3. CASE CommandSent
    <3>1. /\ pc = "ack" /\ toClient = <<>> /\ todo # <<>> /\ Obeyed(0)
          /\ Body(Head(todo)) \in Commands
      BY <1>2, <2>1, <2>3, BodyFacts DEF CommandSent
    <3>2. PICK d \in Chars(Commands) :
            Sent(d, Body(Head(todo))) /\ (toStub = <<d>> \/ toStub = <<Ack, d>>)
      BY <1>1, <2>3 DEF CommandSent
    <3>3. CASE toStub = <<Ack, d>>
      <4>1. c = Ack /\ toStub' = <<d>>
        BY <1>1, <1>3, <3>3, ShortSeqs
      <4>2. last' = None /\ UNCHANGED <<toClient, serving>>
        BY <1>4, <4>1, CharFacts
      <4>3. Types'
        BY <1>2, <1>6, <4>2 DEF Types
      <4>4. CommandSent'
        <5>1. Sent(d, Body(Head(todo)))' /\ d \in Chars(Commands)'
          BY <1>5, <3>2 DEF Sent, Chars, Commands, States
        <5> QED
          BY <1>1, <1>5, <3>1, <4>1, <4>2, <5>1 DEF CommandSent
      <4> QED
        BY <1>1, <1>5, <2>1, <4>3, <4>4 DEF GdbInv, Phase
    <3>4. CASE toStub = <<d>>
      <4>1. c = d /\ toStub' = <<>> /\ c.kind = "$" /\ c.body = Body(Head(todo)) /\ c.sum_ok \in BOOLEAN
        BY <1>1, <1>3, <3>2, <3>4, ShortSeqs, CharFacts
      <4>2. CASE c.sum_ok
        <5>1. last' = None /\ serving' = Body(Head(todo)) /\ toClient' = <<Ack>>
          BY <1>4, <3>1, <4>1, <4>2, ShortSeqs
        <5>2. Types'
          <6>1. <<Ack>> \in Seq(Chars(Replies))
            BY CharFacts
          <6> QED
            BY <1>6, <3>1, <5>1, <6>1
        <5>3. CommandTaken'
          BY <1>1, <1>5, <3>1, <4>1, <5>1 DEF CommandTaken
        <5> QED
          BY <1>1, <1>5, <2>1, <5>2, <5>3 DEF GdbInv, Phase
      <4>3. CASE ~c.sum_ok
        <5>1. last' = None /\ serving' = None /\ toClient' = <<Nack>>
          BY <1>1, <1>4, <3>1, <4>1, <4>3, ShortSeqs
        <5>2. Types'
          <6>1. <<Nack>> \in Seq(Chars(Replies))
            BY CharFacts
          <6> QED
            BY <1>6, <5>1, <6>1
        <5>3. CommandRefused'
          BY <1>1, <1>5, <3>1, <4>1, <5>1 DEF CommandRefused
        <5> QED
          BY <1>1, <1>5, <2>1, <5>2, <5>3 DEF GdbInv, Phase
      <4> QED
        BY <4>1, <4>2, <4>3
    <3> QED
      BY <3>2, <3>3, <3>4
  <2>4. CASE ReplyRefused
    <3>1. pc = "recv" /\ toClient = <<>> /\ todo # <<>> /\ Obeyed(1) /\ toStub = <<Nack>> /\ Right(last)
      BY <1>1, <2>4 DEF ReplyRefused
    <3>2. last \in Replies /\ last # None
      BY <3>1 DEF Right, Replies, None
    <3>3. c = Nack /\ toStub' = <<>>
      BY <1>1, <1>3, <3>1, ShortSeqs
    <3>4. toClient' = <<Packet(last)>> /\ UNCHANGED <<last, serving>>
      BY <1>4, <3>1, <3>2, <3>3, ShortSeqs, CharFacts
    <3>5. PICK d \in Chars(Replies) : d = Packet(last) /\ Sent(d, last)
      BY <3>2, CharFacts
    <3>6. Types'
      <4>1. <<d>> \in Seq(Chars(Replies))
        OBVIOUS
      <4> QED
        BY <1>2, <1>6, <3>4, <3>5, <4>1 DEF Types
    <3>7. CommandAnswered'
      <4>1. Sent(d, last)' /\ Right(last)' /\ d \in Chars(Replies)' /\ last' \in Replies'
        BY <1>1, <3>1, <3>2, <3>4, <3>5 DEF Sent, Right, Chars, Replies, States
      <4> QED
        BY <1>1, <1>5, <3>1, <3>3, <3>4, <3>5, <4>1 DEF CommandAnswered
    <3> QED
      BY <1>1, <1>5, <2>1, <3>6, <3>7 DEF GdbInv, Phase
  <2> QED
    BY <2>1, <2>2, <2>3, <2>4, PhaseAt DEF Phase
<1> QED
  BY <1>7, <1>8

\* When QEMU goes, what is known of the client is still true.
LEMMA QemuExitsKeeps ==
  ASSUME GdbInv, QemuExits
  PROVE  GdbInv'
<1>1. /\ line' = "fin"
      /\ UNCHANGED <<status, call, todo, pc, qemu_r, ok, result, toStub, toClient, noise, mem, regs, last, serving, done>>
  BY DEF QemuExits, clientVars, stubVars
<1>2. Types /\ Types'
  <2>1. Types /\ line' \in {"open", "fin", "rst"}
    BY <1>1, InvTypes
  <2> QED
    BY ONLY <1>1, <2>1 DEF Types
<1>3. /\ IsRest => IsRest'
      /\ Learned => Learned'
      /\ Obeyed(0) => Obeyed(0)'
      /\ Obeyed(1) => Obeyed(1)'
  BY <1>1, SameCall, SameProgress DEF Learned, ReadIsFresh
<1>4. Phase => Phase'
  <2>1. ReadyToSend => ReadyToSend'
    BY <1>1, <1>3 DEF ReadyToSend
  <2>2. CommandSent => CommandSent'
    BY <1>1, <1>3 DEF CommandSent
  <2>3. CommandRefused => CommandRefused'
    BY <1>1, <1>3 DEF CommandRefused
  <2>4. CommandTaken => CommandTaken'
    BY <1>1, <1>3 DEF CommandTaken
  <2>5. CommandAnswered => CommandAnswered'
    <3>1. \A c, reply : /\ Sent(c, reply) => Sent(c, reply)'
                        /\ Right(reply) => Right(reply)'
                        /\ c \in Chars(Replies) => c \in Chars(Replies)'
                        /\ reply \in Replies => reply \in Replies'
      BY <1>1 DEF Sent, Right, Chars, Replies, States
    <3> QED
      BY <1>1, <1>3, <3>1 DEF CommandAnswered
  <2>6. ReplyRefused => ReplyRefused'
    BY <1>1, <1>3 DEF ReplyRefused
  <2> QED
    BY <2>1, <2>2, <2>3, <2>4, <2>5, <2>6 DEF Phase
<1> QED
  BY <1>1, <1>2, <1>3, <1>4 DEF GdbInv

\* GdbInv speaks of the variables only.
LEMMA StutterKeeps ==
  ASSUME GdbInv, UNCHANGED vars
  PROVE  GdbInv'
<1>1. UNCHANGED <<status, call, todo, pc, qemu_r, ok, result, toStub, toClient, line, noise, mem, regs, last, serving, done>>
  BY DEF vars, clientVars, stubVars
<1>2. Types'
  <2>1. Types
    BY InvTypes
  <2> QED
    BY ONLY <1>1, <2>1 DEF Types
<1>3. /\ IsRest => IsRest'
      /\ Learned => Learned'
      /\ Obeyed(0) => Obeyed(0)'
      /\ Obeyed(1) => Obeyed(1)'
      /\ QuietStub => QuietStub'
      /\ Body(Head(todo))' = Body(Head(todo))
  BY <1>1, SameCall, SameProgress DEF Learned, ReadIsFresh, QuietStub, Body
<1>4. Phase => Phase'
  <2>1. ReadyToSend => ReadyToSend'
    BY <1>1, <1>3 DEF ReadyToSend
  <2>2. CommandSent => CommandSent'
    <3>1. Body(Head(todo))' = Body(Head(todo)) /\ (Obeyed(0) => Obeyed(0)')
      BY <1>3
    <3> QED
      BY ONLY <1>1, <3>1 DEF CommandSent, Sent, Chars, Commands, States
  <2>3. CommandRefused => CommandRefused'
    BY <1>1, <1>3 DEF CommandRefused
  <2>4. CommandTaken => CommandTaken'
    BY <1>1, <1>3 DEF CommandTaken
  <2>5. CommandAnswered => CommandAnswered'
    <3>1. Obeyed(1) => Obeyed(1)'
      BY <1>3
    <3> QED
      BY ONLY <1>1, <3>1 DEF CommandAnswered, Sent, Right, Chars, Replies, States
  <2>6. ReplyRefused => ReplyRefused'
    BY <1>1, <1>3 DEF ReplyRefused, Right, Replies, States
  <2> QED
    BY <2>1, <2>2, <2>3, <2>4, <2>5, <2>6 DEF Phase
<1> QED
  BY <1>1, <1>2, <1>3, <1>4 DEF GdbInv

\* A packet that is spoiled stays in its place, and nothing else is.
LEMMA LineSpoilsKeeps ==
  ASSUME GdbInv, LineSpoils
  PROVE  GdbInv'
<1>1. /\ noise < MaxNoise /\ noise' = noise + 1
      /\ UNCHANGED <<status, call, todo, pc, qemu_r, ok, result, line, mem, regs, last, serving, done>>
      /\ \/ \E i \in 1 .. Len(toStub) :
              toStub[i].kind = "$" /\ toStub' = Spoil(toStub, i) /\ UNCHANGED toClient
         \/ \E i \in 1 .. Len(toClient) :
              toClient[i].kind = "$" /\ toClient' = Spoil(toClient, i) /\ UNCHANGED toStub
  BY DEF LineSpoils, clientVars, stubVars
<1>2. Types /\ toStub \in Seq(Chars(Commands)) /\ toClient \in Seq(Chars(Replies))
  BY InvTypes
<1>3. Types'
  <2>1. noise' \in 0 .. MaxNoise
    BY <1>1, <1>2, GdbAssumption DEF Types
  <2>2. toStub' \in Seq(Chars(Commands)) /\ toClient' \in Seq(Chars(Replies))
    BY <1>1, <1>2, Spoiled
  <2>3. UNCHANGED <<status, call, todo, pc, qemu_r, ok, result, line, mem, regs, last, serving, done>>
    BY <1>1
  <2> QED
    BY ONLY <1>2, <2>1, <2>2, <2>3 DEF Types
<1>4. /\ IsRest => IsRest'
      /\ Learned => Learned'
      /\ Obeyed(0) => Obeyed(0)'
      /\ Obeyed(1) => Obeyed(1)'
      /\ Body(Head(todo))' = Body(Head(todo))
  BY <1>1, SameCall, SameProgress DEF Learned, ReadIsFresh, Body
<1>5. /\ toStub = <<>> => Len(toStub) = 0
      /\ toStub \in {<<Ack>>, <<Nack>>} => Len(toStub) = 1 /\ toStub[1].kind # "$"
      /\ toClient = <<>> => Len(toClient) = 0
      /\ toClient \in {<<Ack>>, <<Nack>>} => Len(toClient) = 1 /\ toClient[1].kind # "$"
  BY ShortSeqs, CharFacts
<1>6. ASSUME NEW i \in 1 .. Len(toStub), toStub[i].kind = "$", toStub' = Spoil(toStub, i), UNCHANGED toClient
      PROVE  GdbInv'
  <2>1. toStub \notin {<<>>, <<Ack>>, <<Nack>>}
    BY <1>5, <1>6
  <2>2. /\ Len(toStub') = Len(toStub)
        /\ \A j \in 1 .. Len(toStub) : j # i => toStub'[j] = toStub[j]
        /\ \A b : Sent(toStub[i], b) => Sent(toStub'[i], b)
        /\ toStub' \in Seq(Chars(Commands))
    BY <1>2, <1>6, Spoiled
  <2>3. ReadyToSend => ReadyToSend'
    BY <1>1, <1>4, <1>6, <2>1 DEF ReadyToSend, QuietStub
  <2>4. CommandRefused => CommandRefused'
    BY <1>1, <1>4, <1>6, <2>1 DEF CommandRefused
  <2>5. CommandTaken => CommandTaken'
    BY <1>1, <1>4, <1>6, <2>1 DEF CommandTaken
  <2>6. ReplyRefused => ReplyRefused'
    BY <1>1, <1>4, <1>6, <2>1 DEF ReplyRefused
  <2>7. CommandAnswered => CommandAnswered'
    <3>1. \A c, reply : /\ Sent(c, reply) => Sent(c, reply)'
                        /\ Right(reply) => Right(reply)'
                        /\ c \in Chars(Replies) => c \in Chars(Replies)'
                        /\ reply \in Replies => reply \in Replies'
      BY <1>1 DEF Sent, Right, Chars, Replies, States
    <3> QED
      BY <1>1, <1>4, <1>6, <2>1, <3>1 DEF CommandAnswered
  <2>8. CommandSent => CommandSent'
    <3> SUFFICES ASSUME CommandSent
                 PROVE  CommandSent'
      OBVIOUS
    <3>1. CASE line # "open"
      BY <1>1, <1>4, <1>6, <3>1 DEF CommandSent
    <3>2. CASE line = "open"
      <4>1. PICK c \in Chars(Commands) :
              Sent(c, Body(Head(todo))) /\ (toStub = <<c>> \/ toStub = <<Ack, c>>)
        BY <3>2 DEF CommandSent
      <4>2. PICK d : d = toStub'[i]
        OBVIOUS
      <4>3. toStub[i] = c /\ (toStub' = <<d>> \/ toStub' = <<Ack, d>>)
        <5>1. CASE toStub = <<c>>
          <6>1. Len(toStub) = 1 /\ i = 1 /\ toStub[1] = c
            BY <1>6, <5>1, ShortSeqs
          <6>2. toStub' = <<toStub'[1]>>
            BY <2>2, <6>1, OfLength
          <6> QED
            BY <4>2, <6>1, <6>2
        <5>2. CASE toStub = <<Ack, c>>
          <6>1. Len(toStub) = 2 /\ toStub[1] = Ack /\ toStub[2] = c
            BY <5>2, ShortSeqs
          <6>2. i = 2
            BY <1>6, <6>1, CharFacts
          <6>3. toStub' = <<toStub'[1], toStub'[2]>> /\ toStub'[1] = Ack
            BY <2>2, <6>1, <6>2, OfLength
          <6> QED
            BY <4>2, <6>1, <6>2, <6>3
        <5> QED
          BY <4>1, <5>1, <5>2
      <4>4. Sent(d, Body(Head(todo))) /\ d \in Chars(Commands)
        BY <1>6, <2>2, <4>1, <4>2, <4>3, ElementOfSeq
      <4>5. Sent(d, Body(Head(todo)))' /\ d \in Chars(Commands)'
        BY <1>4, <4>4 DEF Sent, Chars, Commands, States
      <4>6. pc' = "ack" /\ toClient' = <<>> /\ todo' # <<>> /\ Obeyed(0)' /\ serving' = None
        BY <1>1, <1>4, <1>6, <3>2 DEF CommandSent
      <4> QED
        BY <4>3, <4>5, <4>6 DEF CommandSent
    <3> QED
      BY <3>1, <3>2
  <2>9. Phase => Phase'
    BY <2>3, <2>4, <2>5, <2>6, <2>7, <2>8 DEF Phase
  <2> QED
    BY <1>1, <1>3, <1>4, <1>6, <2>1, <2>9 DEF GdbInv, QuietStub
<1>7. ASSUME NEW i \in 1 .. Len(toClient), toClient[i].kind = "$", toClient' = Spoil(toClient, i), UNCHANGED toStub
      PROVE  GdbInv'
  <2>1. toClient \notin {<<>>, <<Ack>>, <<Nack>>}
    BY <1>5, <1>7
  <2>2. /\ Len(toClient') = Len(toClient)
        /\ \A j \in 1 .. Len(toClient) : j # i => toClient'[j] = toClient[j]
        /\ \A b : Sent(toClient[i], b) => Sent(toClient'[i], b)
        /\ toClient' \in Seq(Chars(Replies))
    BY <1>2, <1>7, Spoiled
  <2>3. status # "returned"
    BY <2>1 DEF GdbInv
  <2>4. CASE status = "dead"
    BY <1>1, <1>3, <2>4 DEF GdbInv
  <2>5. CASE status = "busy"
    <3>1. IsRest /\ Learned /\ CommandAnswered
      <4>1. ~ReadyToSend /\ ~CommandSent /\ ~CommandRefused /\ ~CommandTaken /\ ~ReplyRefused
        BY <2>1 DEF ReadyToSend, CommandSent, CommandRefused, CommandTaken, ReplyRefused
      <4> QED
        BY <2>5, <4>1, PhaseAt DEF Phase
    <3>2. PICK c \in Chars(Replies), reply \in Replies :
            /\ Sent(c, reply) /\ Right(reply)
            /\ \/ pc = "ack" /\ toClient = <<Ack, c>>
               \/ pc = "recv" /\ toClient = <<c>>
            /\ line = "open" => last = reply
      BY <3>1 DEF CommandAnswered
    <3>3. PICK d : d = toClient'[i]
      OBVIOUS
    <3>4. toClient[i] = c /\ \/ pc = "ack" /\ toClient' = <<Ack, d>>
                             \/ pc = "recv" /\ toClient' = <<d>>
      <4>1. CASE pc = "recv" /\ toClient = <<c>>
        <5>1. Len(toClient) = 1 /\ i = 1 /\ toClient[1] = c
          BY <1>7, <4>1, ShortSeqs
        <5>2. toClient' = <<toClient'[1]>>
          BY <2>2, <5>1, OfLength
        <5> QED
          BY <3>3, <4>1, <5>1, <5>2
      <4>2. CASE pc = "ack" /\ toClient = <<Ack, c>>
        <5>1. Len(toClient) = 2 /\ toClient[1] = Ack /\ toClient[2] = c
          BY <4>2, ShortSeqs
        <5>2. i = 2
          BY <1>7, <5>1, CharFacts
        <5>3. toClient' = <<toClient'[1], toClient'[2]>> /\ toClient'[1] = Ack
          BY <2>2, <5>1, <5>2, OfLength
        <5> QED
          BY <3>3, <4>2, <5>1, <5>2, <5>3
      <4> QED
        BY <3>2, <4>1, <4>2
    <3>5. Sent(d, reply) /\ d \in Chars(Replies)
      BY <1>7, <2>2, <3>2, <3>3, <3>4, ElementOfSeq
    <3>6. Sent(d, reply)' /\ Right(reply)' /\ d \in Chars(Replies)' /\ reply \in Replies'
      BY <1>1, <3>2, <3>5 DEF Sent, Right, Chars, Replies, States
    <3>7. /\ todo' # <<>> /\ Obeyed(1)'
          /\ line' = "open" => serving' = None /\ toStub' = <<>>
      BY <1>1, <1>4, <1>7, <3>1 DEF CommandAnswered
    <3>8. /\ \/ pc' = "ack" /\ toClient' = <<Ack, d>>
             \/ pc' = "recv" /\ toClient' = <<d>>
          /\ line' = "open" => last' = reply
      BY <1>1, <3>2, <3>4
    <3>9. CommandAnswered'
      BY <3>6, <3>7, <3>8 DEF CommandAnswered
    <3> QED
      BY <1>1, <1>3, <1>4, <2>5, <3>1, <3>9 DEF GdbInv, Phase
  <2> QED
    BY <1>2, <2>3, <2>4, <2>5 DEF Types
<1> QED
  BY <1>1, <1>6, <1>7

-----------------------------------------------------------------------------
(* Theorems                                                                *)

\* At every point of a call the line holds what the phase of its command says,
\* and QEMU has obeyed the commands before it and no other.
THEOREM GdbInvariance == GdbSpec => []GdbInv
<1>1. GdbInv /\ [GdbNext]_vars => GdbInv'
  <2> SUFFICES ASSUME GdbInv, [GdbNext]_vars
               PROVE  GdbInv'
    OBVIOUS
  <2>1. CASE \E c \in Calls : Call(c)
    BY <2>1, CallKeeps
  <2>2. CASE send_packet
    BY <2>2, SendPacketKeeps
  <2>3. CASE gdb_send
    BY <2>3, GdbSendKeeps
  <2>4. CASE gdb_recv
    BY <2>4, GdbRecvKeeps
  <2>5. CASE recv_closed \/ BrokenPipe \/ AssertFails
    BY <2>5, DeathKeeps
  <2>6. CASE Return
    BY <2>6, ReturnKeeps
  <2>7. CASE StubReads
    BY <2>7, StubReadsKeeps
  <2>8. CASE StubServes
    BY <2>8, StubServesKeeps
  <2>9. CASE LineSpoils
    BY <2>9, LineSpoilsKeeps
  <2>10. CASE QemuExits
    BY <2>10, QemuExitsKeeps
  <2>11. CASE UNCHANGED vars
    BY <2>11, StutterKeeps
  <2> QED
    BY <2>1, <2>2, <2>3, <2>4, <2>5, <2>6, <2>7, <2>8, <2>9, <2>10, <2>11 DEF GdbNext, Client, Stub
<1> QED
  BY <1>1, InitKeeps, PTL DEF GdbSpec

\* Client, stub and line keep the types of their variables: nothing but
\* characters of the protocol is ever on the line.
THEOREM GdbTypeCorrect == GdbSpec => []GdbTypeOK
<1>1. GdbInv => GdbTypeOK
  <2> SUFFICES ASSUME GdbInv
               PROVE  GdbTypeOK
    OBVIOUS
  <2>1. Types
    BY InvTypes
  <2>2. /\ \A i \in 1 .. Len(todo) : todo[i] \in Commands \cup {[cmd |-> "setregs"]}
        /\ \A i \in 1 .. Len(toStub) : toStub[i] \in Chars(Commands)
        /\ \A i \in 1 .. Len(toClient) : toClient[i] \in Chars(Replies)
    BY InvTypes, ElementOfSeq DEF AllCommands
  <2> QED
    BY ONLY <2>1, <2>2 DEF Types, GdbTypeOK
<1> QED
  BY <1>1, GdbInvariance, PTL

\* Between two calls no reply is unread and no command is being served, whatever
\* was spoiled and sent again before.
THEOREM InSyncHolds == GdbSpec => []InSync
<1>1. GdbInv => InSync
  BY DEF GdbInv, QuietStub, InSync
<1> QED
  BY <1>1, GdbInvariance, PTL

LEMMA MachineInit == GdbInit => Machine!Init
<1> SUFFICES ASSUME GdbInit
             PROVE  Machine!Init
  OBVIOUS
<1>1. mem \in [Addrs -> Vals]
  BY InitKeeps, InvTypes
<1> QED
  BY <1>1 DEF GdbInit, Machine!Init

\* A call that returns has had all its effect, and what it read is still true.
LEMMA ReturnIsReturn ==
  ASSUME GdbInv, Return
  PROVE  Machine!Return
<1>1. /\ status = "busy" /\ todo = <<>> /\ pc = "send" /\ ok /\ status' = "returned"
      /\ result' = IF call.op = "to_dut" THEN qemu_r.dut ELSE result
      /\ UNCHANGED <<mem, regs, call, done>>
  BY DEF Return, stubVars
<1>2. Types /\ Learned /\ ReadyToSend /\ call \in Calls
  BY <1>1, PhaseAt DEF Types
<1>3. CommandCount \in Nat /\ Answers = CommandCount /\ done = DoneAfter(CommandCount)
  <2>1. CommandCount \in Nat
    BY <1>2, CommandFacts, LenProperties DEF CommandCount
  <2>2. Answers = CommandCount /\ Answers + 0 = CommandCount
    BY <1>1, <2>1 DEF Answers
  <2> QED
    BY <1>2, <2>1, <2>2 DEF ReadyToSend, Obeyed
<1>4. done = Machine!Effect(call)
  <2>1. CASE call.op = "exec"
    BY <1>2, <1>3, <2>1, CommandFacts DEF CommandCount, DoneAfter, Machine!Effect
  <2>2. CASE call.op = "to_ref"
    BY <1>2, <1>3, <2>2, CommandFacts DEF CommandCount, DoneAfter, Machine!Effect
  <2>3. CASE call.op = "to_dut"
    BY <1>3, <2>3 DEF DoneAfter, Machine!Effect
  <2>4. CASE call.op = "memcpy"
    <3>1. CommandCount = PieceCount(Len(call.data)) /\ Len(call.data) \in Nat
      BY <1>2, <2>4, CommandFacts, CallFacts, GdbAssumption DEF CommandCount
    <3>2. Len(call.data) <= Units(CommandCount) /\ Units(CommandCount) \in Nat
      BY <1>3, <3>1, PieceCountFacts, UnitsFacts
    <3>3. ~(Units(CommandCount) < Len(call.data))
      BY <3>1, <3>2
    <3> QED
      BY <1>3, <2>4, <3>3 DEF DoneAfter, Machine!Effect
  <2> QED
    BY <1>2, <2>1, <2>2, <2>3, <2>4, CallFacts
<1>5. call.op = "to_dut" => qemu_r = regs
  <2>1. ASSUME call.op = "to_dut"
        PROVE  Answers = 1 /\ done = 0
    BY <1>2, <1>3, <2>1, CommandFacts DEF CommandCount, DoneAfter
  <2> QED
    BY <1>2, <2>1 DEF Learned, ReadIsFresh
<1>6. call.op = "memcpy" => Machine!Fits(call)
  <2>1. ASSUME call.op = "memcpy"
        PROVE  Machine!Fits(call)
    <3>1. DoneAfter(Answers) = Len(call.data)
      BY <1>3, <1>4, <2>1 DEF Machine!Effect
    <3> QED
      BY <1>1, <1>2, <2>1, <3>1 DEF Learned, OkIsTrue, Machine!Fits
  <2> QED
    BY <2>1
<1> QED
  BY <1>1, <1>4, <1>5, <1>6 DEF Machine!Return

LEMMA MachineNext ==
  ASSUME GdbInv, [GdbNext]_vars
  PROVE  [Machine!Next]_(Machine!vars)
<1>1. ASSUME NEW c \in Calls, Call(c)
      PROVE  Machine!Next
  <2>1. Machine!Begin(c)
    BY <1>1 DEF Call, Machine!Begin
  <2> QED
    BY <2>1 DEF Machine!Next
<1>2. CASE send_packet \/ gdb_send \/ gdb_recv \/ StubReads \/ LineSpoils \/ QemuExits \/ UNCHANGED vars
  <2>1. UNCHANGED <<mem, regs, call, done, result, status>>
    BY <1>2 DEF send_packet, gdb_send, gdb_recv, StubReads, LineSpoils, QemuExits, vars, clientVars, stubVars
  <2> QED
    BY <2>1 DEF Machine!vars
<1>3. CASE recv_closed \/ BrokenPipe \/ AssertFails
  <2>1. Machine!Die
    BY <1>3 DEF recv_closed, BrokenPipe, AssertFails, stubVars, Machine!Die
  <2> QED
    BY <2>1 DEF Machine!Next
<1>4. CASE Return
  BY <1>4, ReturnIsReturn DEF Machine!Next
<1>5. CASE StubServes
  BY <1>5, ServedIsObeyed DEF Obeys
<1> QED
  BY <1>1, <1>2, <1>3, <1>4, <1>5 DEF GdbNext, Client, Stub

\* The calls over the connection implement a reference that has the effect of
\* each call exactly once and in order, all of it before the call returns, or
\* ends the run.
THEOREM GdbImplementsMachine == GdbSpec => RunsEachCallOnce
<1>1. GdbInv /\ [GdbNext]_vars => [Machine!Next]_(Machine!vars)
  BY MachineNext
<1> QED
  BY <1>1, GdbInvariance, MachineInit, PTL DEF GdbSpec, Machine!Spec, RunsEachCallOnce
=============================================================================
