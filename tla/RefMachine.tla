----------------------------- MODULE RefMachine -----------------------------
(***************************************************************************)
(* What differential testing asks of a reference simulator: a call copies  *)
(* memory, copies registers or executes instructions, takes effect exactly *)
(* once and in order, and has all its effect when it returns.  A reference *)
(* that goes away takes the whole run with it.                             *)
(***************************************************************************)
EXTENDS Integers, Sequences

CONSTANTS
  Calls,       \* records: op, and n, v, from, data as the operation needs
  Addrs, Vals,
  States,      \* register states, records with the fields dut and own
  Start,       \* the first of them
  Step         \* [States -> States], what one instruction does

VARIABLES
  mem, regs,   \* of the reference
  call,        \* the call being served, or the last one
  done,        \* how much of its effect it had: instructions, units, copies
  result,      \* what the last register read returned
  status       \* "busy", "returned" or "dead"

vars == <<mem, regs, call, done, result, status>>

Init ==
  /\ mem \in [Addrs -> Vals]
  /\ regs = Start
  /\ call = [op |-> "exec", n |-> 0]
  /\ done = 0
  /\ result = Start.dut
  /\ status = "returned"

\* How much effect a call has in all.
Effect(c) ==
  CASE c.op = "exec" -> c.n
    [] c.op = "memcpy" -> Len(c.data)
    [] c.op = "to_ref" -> 1
    [] c.op = "to_dut" -> 0

Begin(c) ==
  /\ status = "returned"
  /\ call' = c /\ done' = 0 /\ status' = "busy"
  /\ UNCHANGED <<mem, regs, result>>

Execute ==
  /\ status = "busy" /\ call.op = "exec" /\ done < call.n
  /\ regs' = Step[regs]
  /\ done' = done + 1
  /\ UNCHANGED <<mem, call, result, status>>

\* Whether a copy stays in memory.
Fits(c) == \A i \in 1 .. Len(c.data) : c.from + i - 1 \in Addrs

\* A copy proceeds by whole pieces.  One that leaves memory may miss any part of them.
CopyMemory ==
  /\ status = "busy" /\ call.op = "memcpy"
  /\ \E k \in done + 1 .. Len(call.data) :
       LET piece == {a \in Addrs : a \in call.from + done .. call.from + k - 1} IN
       \E written \in SUBSET piece :
         /\ Fits(call) => written = piece
         /\ mem' = [a \in Addrs |->
                      IF a \in written THEN call.data[a - call.from + 1] ELSE mem[a]]
         /\ done' = k
  /\ UNCHANGED <<regs, call, result, status>>

\* The registers the device under test has not are kept.
SetRegisters ==
  /\ status = "busy" /\ call.op = "to_ref" /\ done = 0
  /\ regs' = [regs EXCEPT !.dut = call.v]
  /\ done' = 1
  /\ UNCHANGED <<mem, call, result, status>>

\* A copy that leaves memory does not return.
Return ==
  /\ status = "busy" /\ done = Effect(call)
  /\ call.op = "memcpy" => Fits(call)
  /\ status' = "returned"
  /\ result' = IF call.op = "to_dut" THEN regs.dut ELSE result
  /\ UNCHANGED <<mem, regs, call, done>>

Die ==
  /\ status = "busy"
  /\ status' = "dead"
  /\ UNCHANGED <<mem, regs, call, done, result>>

Next ==
  \/ \E c \in Calls : Begin(c)
  \/ Execute \/ CopyMemory \/ SetRegisters
  \/ Return \/ Die

Spec == Init /\ [][Next]_vars
=============================================================================
