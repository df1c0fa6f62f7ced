----------------------------- MODULE GdbRemote -----------------------------
(***************************************************************************)
(* QEMU as a reference for differential testing (tools/qemu-diff): the     *)
(* difftest_* calls of diff-test.c, the commands of gdb-host.c and the     *)
(* packets of protocol.c, over a connection to QEMU's GDB stub.            *)
(* A packet is acknowledged with '+' when its checksum is right and asked  *)
(* for again with '-' when it is not, in both directions.  The stub and    *)
(* the line between are external: the line may spoil a packet, and QEMU    *)
(* may go away.                                                            *)
(***************************************************************************)
EXTENDS Integers, Sequences

CONSTANTS
  Addrs,        \* the units of QEMU's memory, one after the other
  Dests,        \* the addresses copies are made to
  Vals,         \* what a unit holds
  Pcs,          \* how many values the program counter takes
  Mtu,          \* units in a memory packet
  MaxCopy,      \* bound: units in one difftest_memcpy
  MaxExec,      \* bound: instructions in one difftest_exec
  MaxNoise      \* bound: packets the line spoils

ASSUME GdbAssumption ==
  /\ Addrs \subseteq Nat /\ \A a, b \in Addrs : a .. b \subseteq Addrs
  /\ Dests \subseteq Nat
  /\ Vals # {}
  /\ Pcs \in Nat \ {0}
  /\ Mtu \in Nat \ {0}
  /\ MaxCopy \in Nat
  /\ MaxExec \in Nat
  /\ MaxNoise \in Nat

(* Registers: those the DUT has (DIFFTEST_REG_SIZE), here a program counter, *)
(* and those only QEMU has, here a count of the instructions executed.       *)
States == [dut : 0 .. Pcs - 1, own : 0 .. Pcs - 1]
Start == [dut |-> 0, own |-> 0]
Step == [r \in States |-> [dut |-> (r.dut + 1) % Pcs, own |-> (r.own + 1) % Pcs]]

\* A copy may be empty, and may run out of QEMU's memory.
Calls ==
  [op : {"exec"}, n : 0 .. MaxExec]
    \cup [op : {"to_ref"}, v : 0 .. Pcs - 1]
    \cup {[op |-> "to_dut"]}
    \cup UNION {[op : {"memcpy"}, from : Dests, data : [1 .. n -> Vals]] : n \in 0 .. MaxCopy}

VARIABLES
  status,     \* of the process: "busy" in a difftest_* call, "returned" from it, "dead"
  call,       \* the call
  todo,       \* the commands it has still to send, in order
  pc,         \* "send", "ack" or "recv" when busy, inside gdb_send and gdb_recv
  qemu_r,     \* difftest_regcpy's copy of the registers
  ok,         \* gdb_memcpy_to_qemu's: every piece so far was answered "OK"
  result,     \* what the last difftest_regcpy to the DUT returned
  toStub, toClient,    \* the bytes on the way, packets taken whole
  line,       \* the connection: "open", "fin" when QEMU closed, "rst" when it refused
  noise,      \* packets spoiled so far
  mem, regs,  \* QEMU's memory and registers
  last,       \* the stub's last packet, kept until it is acknowledged
  serving,    \* the command the stub acknowledged and has not answered
  done        \* how much effect the call had on QEMU, for the refinement

clientVars == <<status, call, todo, pc, qemu_r, ok, result>>
stubVars == <<mem, regs, last, serving, done>>
vars == <<clientVars, toStub, toClient, line, noise, stubVars>>

None == [cmd |-> "none"]
Ack == [kind |-> "+"]
Nack == [kind |-> "-"]
Packet(body) == [kind |-> "$", body |-> body, sum_ok |-> TRUE]

Commands ==
  {[cmd |-> c] : c \in {"g", "s"}}
    \cup [cmd : {"G"}, regs : States]
    \cup UNION {[cmd : {"M"}, from : {d + k : d \in Dests, k \in 0 .. MaxCopy}, data : [1 .. n -> Vals]] : n \in 0 .. Mtu}
Replies == {[cmd |-> "OK"], [cmd |-> "error"], [cmd |-> "stopped"]} \cup [cmd : {"regs"}, regs : States]

Chars(Bodies) == {Ack, Nack} \cup [kind : {"$"}, body : Bodies, sum_ok : BOOLEAN]

GdbTypeOK ==
  /\ status \in {"busy", "returned", "dead"}
  /\ call \in Calls
  /\ pc \in {"send", "ack", "recv", "out"}
  /\ \A i \in 1 .. Len(todo) : todo[i] \in Commands \cup {[cmd |-> "setregs"]}
  /\ qemu_r \in States /\ ok \in BOOLEAN /\ result \in 0 .. Pcs - 1
  /\ \A i \in 1 .. Len(toStub) : toStub[i] \in Chars(Commands)
  /\ \A i \in 1 .. Len(toClient) : toClient[i] \in Chars(Replies)
  /\ line \in {"open", "fin", "rst"} /\ noise \in 0 .. MaxNoise
  /\ mem \in [Addrs -> Vals] /\ regs \in States
  /\ last \in Replies \cup {None} /\ serving \in Commands \cup {None}
  /\ done \in Nat

\* gdb_begin acknowledges whatever came before.
GdbInit ==
  /\ status = "returned" /\ call = [op |-> "exec", n |-> 0]
  /\ todo = <<>> /\ pc = "out" /\ qemu_r = Start /\ ok = TRUE /\ result = Start.dut
  /\ toStub = <<Ack>> /\ toClient = <<>> /\ line = "open" /\ noise = 0
  /\ mem = [a \in Addrs |-> CHOOSE v \in Vals : TRUE] /\ regs = Start
  /\ last = None /\ serving = None /\ done = 0

(* The calls of diff-test.c, and the commands each of them sends.           *)

PieceCount(len) == IF len = 0 THEN 1 ELSE (len + Mtu - 1) \div Mtu

Piece(from, data, i) ==
  LET last_unit == IF i * Mtu < Len(data) THEN i * Mtu ELSE Len(data) IN
  [cmd |-> "M", from |-> from + (i - 1) * Mtu, data |-> SubSeq(data, (i - 1) * Mtu + 1, last_unit)]

\* Mutant: dest is not advanced.
gdb_memcpy_to_qemu_stuck(from, data) ==
  [i \in 1 .. PieceCount(Len(data)) |-> [Piece(from, data, i) EXCEPT !.from = from]]

\* Pieces of Mtu units, the last one shorter.
gdb_memcpy_to_qemu(from, data) ==
  [i \in 1 .. PieceCount(Len(data)) |-> Piece(from, data, i)]

\* A copy to the reference reads QEMU's registers before it writes them.
difftest_commands(c) ==
  CASE c.op = "exec" -> [i \in 1 .. c.n |-> [cmd |-> "s"]]
    [] c.op = "to_ref" -> <<[cmd |-> "g"], [cmd |-> "setregs"]>>
    [] c.op = "to_dut" -> <<[cmd |-> "g"]>>
    [] c.op = "memcpy" -> gdb_memcpy_to_qemu(c.from, c.data)

Call(c) ==
  /\ status = "returned"
  /\ call' = c
  /\ todo' = difftest_commands(c)
  /\ status' = "busy"
  /\ pc' = "send"
  /\ done' = 0
  /\ ok' = TRUE
  /\ UNCHANGED <<qemu_r, result, toStub, toClient, line, noise, mem, regs, last, serving>>

\* difftest_memcpy asserts that the copy was carried out.
Return ==
  /\ status = "busy" /\ todo = <<>> /\ pc = "send" /\ ok
  /\ status' = "returned" /\ pc' = "out"
  /\ result' = IF call.op = "to_dut" THEN qemu_r.dut ELSE result
  /\ qemu_r' = Start    \* a local variable, gone
  /\ UNCHANGED <<call, todo, ok, toStub, toClient, line, noise, stubVars>>

\* The assertion ends the process, and with its parent QEMU ends too (difftest_init).
AssertFails ==
  /\ status = "busy" /\ todo = <<>> /\ pc = "send" /\ ~ok
  /\ status' = "dead" /\ pc' = "out"
  /\ line' = IF line = "open" THEN "fin" ELSE line
  /\ UNCHANGED <<call, todo, qemu_r, ok, result, toStub, toClient, noise, stubVars>>

(* The packets of protocol.c.                                               *)

\* What a command is on the wire: only difftest_regcpy's second is made late,
\* from the registers read by its first.
Body(command) ==
  IF command.cmd = "setregs"
    THEN [cmd |-> "G", regs |-> [qemu_r EXCEPT !.dut = call.v]]
    ELSE command

\* A write to the socket: after QEMU closed its end the first one still succeeds.
Write(c) ==
  /\ line # "rst"
  /\ toStub' = IF line = "open" THEN Append(toStub, c) ELSE toStub
  /\ line' = IF line = "open" THEN "open" ELSE "rst"

\* Mutant: the registers read are not merged into the command.
send_packet_unmerged ==
  /\ status = "busy" /\ pc = "send" /\ todo # <<>>
  /\ Write(Packet(Head(todo)))
  /\ pc' = "ack"
  /\ UNCHANGED <<status, call, todo, qemu_r, ok, result, toClient, noise, stubVars>>

send_packet ==
  /\ status = "busy" /\ pc = "send" /\ todo # <<>>
  /\ Write(Packet(Body(Head(todo))))
  /\ pc' = "ack"
  /\ UNCHANGED <<status, call, todo, qemu_r, ok, result, toClient, noise, stubVars>>

EndOfFile == toClient = <<>> /\ line # "open"

\* gdb_send's loop: everything but '+' sends the command again, the end of the
\* file too.
gdb_send ==
  /\ status = "busy" /\ pc = "ack"
  /\ \/ /\ toClient # <<>>
        /\ pc' = IF Head(toClient).kind = "+" THEN "recv" ELSE "send"
        /\ toClient' = Tail(toClient)
     \/ /\ EndOfFile
        /\ pc' = "send"
        /\ UNCHANGED toClient
  /\ UNCHANGED <<status, call, todo, qemu_r, ok, result, toStub, line, noise, stubVars>>

\* What the commands make of a reply.  gdb_getregs takes the registers from it, and
\* gdb_memcpy_to_qemu keeps whether it was "OK".  gdb_setregs compares it too, for a
\* caller that throws the answer away; gdb_si does not look at it.
Reply(body) ==
  /\ qemu_r' \in IF Head(todo).cmd # "g" THEN {qemu_r}
                 ELSE IF body.cmd = "regs" THEN {body.regs} ELSE States
  /\ ok' = (ok /\ (Head(todo).cmd = "M" => body.cmd = "OK"))
  /\ todo' = Tail(todo)
  /\ pc' = "send"

\* Mutant: a spoiled packet is asked for again, and used.
gdb_recv_unchecked ==
  /\ status = "busy" /\ pc = "recv"
  /\ toClient # <<>> /\ Head(toClient).kind = "$"
  /\ Write(IF Head(toClient).sum_ok THEN Ack ELSE Nack)
  /\ toClient' = Tail(toClient)
  /\ Reply(Head(toClient).body)
  /\ UNCHANGED <<status, call, result, noise, stubVars>>

gdb_recv ==
  /\ status = "busy" /\ pc = "recv"
  /\ toClient # <<>> /\ Head(toClient).kind = "$"
  /\ Write(IF Head(toClient).sum_ok THEN Ack ELSE Nack)
  /\ toClient' = Tail(toClient)
  /\ IF Head(toClient).sum_ok
       THEN Reply(Head(toClient).body)
       ELSE UNCHANGED <<todo, pc, qemu_r, ok>>
  /\ UNCHANGED <<status, call, result, noise, stubVars>>

\* Mutant: the end of the file is read again.
recv_closed_retries ==
  /\ status = "busy" /\ pc = "recv" /\ EndOfFile
  /\ status' = "busy" /\ pc' = "recv"
  /\ UNCHANGED <<call, todo, qemu_r, ok, result, toStub, toClient, line, noise, stubVars>>

\* recv_packet at the end of the file ends the process.
recv_closed ==
  /\ status = "busy" /\ pc = "recv" /\ EndOfFile
  /\ status' = "dead" /\ pc' = "out"
  /\ UNCHANGED <<call, todo, qemu_r, ok, result, toStub, toClient, line, noise, stubVars>>

\* A write that the other end refuses ends the process, by a signal or by err.
BrokenPipe ==
  /\ status = "busy" /\ line = "rst"
  /\ \/ pc = "send" /\ todo # <<>>
     \/ pc = "recv" /\ toClient # <<>> /\ Head(toClient).kind = "$"
  /\ status' = "dead" /\ pc' = "out"
  /\ UNCHANGED <<call, todo, qemu_r, ok, result, toStub, toClient, line, noise, stubVars>>

Client ==
  \/ send_packet \/ gdb_send
  \/ gdb_recv \/ recv_closed \/ BrokenPipe
  \/ Return \/ AssertFails

(* QEMU's stub and the line, external.                                      *)

StubReads ==
  /\ line = "open" /\ toStub # <<>> /\ serving = None
  /\ toStub' = Tail(toStub)
  /\ LET c == Head(toStub) IN
     CASE c.kind = "+" ->
            last' = None /\ UNCHANGED <<toClient, serving>>
       [] c.kind = "-" ->
            /\ toClient' = IF last = None THEN toClient ELSE Append(toClient, Packet(last))
            /\ UNCHANGED <<last, serving>>
       [] c.kind = "$" /\ c.sum_ok ->
            last' = None /\ serving' = c.body /\ toClient' = Append(toClient, Ack)
       [] c.kind = "$" /\ ~c.sum_ok ->
            last' = None /\ toClient' = Append(toClient, Nack) /\ UNCHANGED serving
  /\ UNCHANGED <<clientVars, line, noise, mem, regs, done>>

Answer(reply) ==
  /\ last' = reply
  /\ toClient' = Append(toClient, Packet(reply))
  /\ serving' = None

\* The units a write is to.
Target(write) == {write.from + i - 1 : i \in 1 .. Len(write.data)}

\* A write out of memory is an error that may leave any part of it done; so may be
\* one of nothing.
StubWrites(write) ==
  /\ \E written \in SUBSET (Target(write) \cap Addrs) :
       /\ mem' = [a \in Addrs |->
                    IF a \in written THEN write.data[a - write.from + 1] ELSE mem[a]]
       /\ \/ written = Target(write) /\ Answer([cmd |-> "OK"])
          \/ (write.data = <<>> \/ ~(Target(write) \subseteq Addrs)) /\ Answer([cmd |-> "error"])
  /\ done' = done + Len(write.data)
  /\ UNCHANGED regs

StubServes ==
  /\ line = "open" /\ serving # None
  /\ CASE serving.cmd = "s" ->
            Answer([cmd |-> "stopped"]) /\ regs' = Step[regs] /\ done' = done + 1 /\ UNCHANGED mem
       [] serving.cmd = "g" ->
            Answer([cmd |-> "regs", regs |-> regs]) /\ UNCHANGED <<regs, mem, done>>
       [] serving.cmd = "G" ->
            Answer([cmd |-> "OK"]) /\ regs' = serving.regs /\ done' = done + 1 /\ UNCHANGED mem
       [] serving.cmd = "M" ->
            StubWrites(serving)
  /\ UNCHANGED <<clientVars, toStub, line, noise>>

Spoil(chars, i) == [chars EXCEPT ![i].sum_ok = FALSE]

LineSpoils ==
  /\ noise < MaxNoise
  /\ noise' = noise + 1
  /\ \/ \E i \in 1 .. Len(toStub) :
          /\ toStub[i].kind = "$" /\ toStub' = Spoil(toStub, i)
          /\ UNCHANGED toClient
     \/ \E i \in 1 .. Len(toClient) :
          /\ toClient[i].kind = "$" /\ toClient' = Spoil(toClient, i)
          /\ UNCHANGED toStub
  /\ UNCHANGED <<clientVars, line, stubVars>>

QemuExits ==
  /\ line = "open" /\ line' = "fin"
  /\ UNCHANGED <<clientVars, toStub, toClient, noise, stubVars>>

Stub == StubReads \/ StubServes

GdbNext == (\E c \in Calls : Call(c)) \/ Client \/ Stub \/ LineSpoils \/ QemuExits

\* The process and QEMU both run; QEMU may go away instead.
GdbSpec == GdbInit /\ [][GdbNext]_vars /\ WF_vars(Client) /\ WF_vars(Stub)

-----------------------------------------------------------------------------
(* Properties                                                              *)

\* Between two calls nothing is under way that the next call could take for its
\* own: no reply unread, no command being served, at most an acknowledgement.
InSync ==
  status = "returned" /\ line = "open" =>
    /\ toClient = <<>> /\ serving = None
    /\ toStub \in {<<>>, <<Ack>>}

Machine == INSTANCE RefMachine

\* However often packets are sent again, a call has its effect on QEMU exactly
\* once, all of it before it returns, and returns what QEMU then holds.  A copy
\* that does not fit into memory never returns.
RunsEachCallOnce == Machine!Spec

\* A call returns or ends the process: spoiled packets are repaired, and a QEMU
\* that went away is not waited for.
CallEnds == status = "busy" ~> status # "busy"
=============================================================================
