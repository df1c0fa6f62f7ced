------------------------------ MODULE ByteFifo ------------------------------
(***************************************************************************)
(* What a ring buffer promises: a bounded first-in first-out sequence of   *)
(* bytes.  A write or a read moves all the bytes asked for or, when they   *)
(* do not fit or are not there yet, none.                                  *)
(***************************************************************************)
EXTENDS Integers, Sequences

CONSTANTS Bytes, Capacity, MaxAmount

VARIABLES
  fifo,   \* the bytes written and not yet read
  got,    \* the bytes the last successful read returned
  call    \* the last call: its name, the amount asked for, its answer, and
          \* the bytes it was given if it was a write that succeeded

vars == <<fifo, got, call>>

Init == fifo = <<>> /\ got = <<>> /\ call = <<"create", Capacity, 0, <<>>>>

Accept(data) ==
  /\ Len(fifo) + Len(data) <= Capacity
  /\ fifo' = fifo \o data
  /\ call' = <<"write", Len(data), Len(data), data>>
  /\ UNCHANGED got

Take(op, amount) ==
  /\ amount <= Len(fifo)
  /\ op = "gets" => amount > 0
  /\ got' = SubSeq(fifo, 1, amount)
  /\ fifo' = SubSeq(fifo, amount + 1, Len(fifo))
  /\ call' = <<op, amount, amount, <<>>>>

\* A call fails only when it cannot be served whole.
Refuse(op, amount) ==
  /\ \/ op = "write" /\ Len(fifo) + amount > Capacity
     \/ op \in {"read", "gets"} /\ amount > Len(fifo)
     \/ op = "gets" /\ amount = 0
  /\ call' = <<op, amount, -1, <<>>>>
  /\ UNCHANGED <<fifo, got>>

Next ==
  \E amount \in 0 .. MaxAmount :
    \/ \E data \in [1 .. amount -> Bytes] : Accept(data)
    \/ \E op \in {"read", "gets"} : Take(op, amount)
    \/ \E op \in {"write", "read", "gets"} : Refuse(op, amount)

Spec == Init /\ [][Next]_vars
=============================================================================
