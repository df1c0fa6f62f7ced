----------------------------- MODULE RingBuffer -----------------------------
(***************************************************************************)
(* The ring buffer of c_practice/p44 (src/ringbuffer.c): an array with the *)
(* index of the first byte and of the first free one.  A call that crosses *)
(* the end of the array copies in two halves.  One byte of the array stays *)
(* free; RingBuffer_create allocates it on top of the length asked for.    *)
(***************************************************************************)
EXTENDS Integers, Sequences

CONSTANTS
  Bytes,
  Capacity,    \* the argument of RingBuffer_create
  MaxAmount    \* bound: the longest read or write

ASSUME RingBufferAssumption ==
  /\ Capacity \in Nat
  /\ MaxAmount \in Nat
  /\ Bytes # {}

VARIABLES
  buffer, start, end,   \* *rb
  target,               \* what the last successful read copied out
  call                  \* the last call: its name, its amount, its answer,
                        \* and the bytes it was given if it was a write that succeeded

ringVars == <<buffer, start, end, target, call>>

length == Capacity + 1

Cells == 0 .. length - 1

RingTypeOK ==
  /\ buffer \in [Cells -> Bytes]
  /\ start \in Cells
  /\ end \in Cells
  /\ target \in Seq(Bytes) /\ Len(target) <= MaxAmount
  /\ call \in {"create", "read", "gets", "write"} \X Nat \X (Nat \cup {-1}) \X Seq(Bytes)

\* malloc leaves the bytes of the buffer undefined.
RingBuffer_create ==
  /\ buffer \in [Cells -> Bytes]
  /\ start = 0
  /\ end = 0
  /\ target = <<>>
  /\ call = <<"create", Capacity, 0, <<>>>>

freeSpace ==
  IF end >= start THEN length - (end - start) - 1 ELSE start - end - 1

dataLength ==
  IF end >= start THEN end - start ELSE length - (start - end)

\* The memcpy calls of a read: one piece, or the two halves.
CopiedOut(amount) ==
  IF amount + start <= length
    THEN [i \in 1 .. amount |-> buffer[start + i - 1]]
    ELSE LET first_half == length - start IN
         [i \in 1 .. first_half |-> buffer[start + i - 1]]
           \o [i \in 1 .. amount - first_half |-> buffer[i - 1]]

\* Mutant: the second half starts with the first byte again.
CopiedIn_repeats(data) ==
  LET amount == Len(data)  first_half == length - end IN
  [c \in Cells |->
     IF end <= c /\ c < end + amount THEN data[c - end + 1]
     ELSE IF c < amount - first_half THEN data[c + 1]
     ELSE buffer[c]]

\* The memcpy calls of a write.
CopiedIn(data) ==
  LET amount == Len(data)  first_half == length - end IN
  [c \in Cells |->
     IF end <= c /\ c < end + amount THEN data[c - end + 1]
     ELSE IF c < amount - first_half THEN data[c + first_half + 1]
     ELSE buffer[c]]

\* Mutant: the index of the first byte runs past the end of the array.
read_unwrapped(op, amount) ==
  IF dataLength >= amount
    THEN /\ target' = CopiedOut(amount)
         /\ start' = IF start + amount > length THEN start + amount - length ELSE start + amount
         /\ call' = <<op, amount, amount, <<>>>>
         /\ UNCHANGED <<buffer, end>>
    ELSE /\ call' = <<op, amount, -1, <<>>>>
         /\ UNCHANGED <<buffer, start, end, target>>

\* RingBuffer_read's body, which RingBuffer_gets calls too.
read(op, amount) ==
  IF dataLength >= amount
    THEN /\ target' = CopiedOut(amount)
         /\ start' = (start + amount) % length
         /\ call' = <<op, amount, amount, <<>>>>
         /\ UNCHANGED <<buffer, end>>
    ELSE /\ call' = <<op, amount, -1, <<>>>>
         /\ UNCHANGED <<buffer, start, end, target>>

RingBuffer_read(amount) == read("read", amount)

\* A read into a buffer of its own, of at least one byte.
RingBuffer_gets(amount) ==
  IF amount > 0
    THEN read("gets", amount)
    ELSE /\ call' = <<"gets", amount, -1, <<>>>>
         /\ UNCHANGED <<buffer, start, end, target>>

RingBuffer_write(data) ==
  IF freeSpace >= Len(data)
    THEN /\ buffer' = CopiedIn(data)
         /\ end' = (end + Len(data)) % length
         /\ call' = <<"write", Len(data), Len(data), data>>
         /\ UNCHANGED <<start, target>>
    ELSE /\ call' = <<"write", Len(data), -1, <<>>>>
         /\ UNCHANGED <<buffer, start, end, target>>

RingNext ==
  \E amount \in 0 .. MaxAmount :
    \/ RingBuffer_read(amount)
    \/ RingBuffer_gets(amount)
    \/ \E data \in [1 .. amount -> Bytes] : RingBuffer_write(data)

RingSpec == RingBuffer_create /\ [][RingNext]_ringVars

-----------------------------------------------------------------------------
(* Properties                                                              *)

\* The bytes held, first to last.
Held == [i \in 1 .. dataLength |-> buffer[(start + i - 1) % length]]

Fifo == INSTANCE ByteFifo WITH fifo <- Held, got <- target

\* Bytes come out once, in order and unchanged, wherever a call crosses the end
\* of the array; a call fails only when it cannot be served whole, and moves nothing.
BytesInOrder == Fifo!Spec
=============================================================================
