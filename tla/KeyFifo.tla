------------------------------ MODULE KeyFifo -------------------------------
(***************************************************************************)
(* What NEMU's keyboard promises the guest: the key events of the host's   *)
(* window that are delivered while the machine runs enter a bounded        *)
(* first-in first-out queue, read through one data register.  None of them *)
(* is dropped, and none that comes while it does not run is put in.  A     *)
(* read of the empty queue returns KeyNone.  An event that no longer fits  *)
(* stops the machine.                                                      *)
(***************************************************************************)
EXTENDS Integers, Sequences

CONSTANTS
  Keys, KeyNone, Capacity,
  Quit,       \* the event of the closed window
  OtherEvents \* the events that mean nothing to the machine

VARIABLES
  events,     \* window events that have not been delivered
  listening,  \* the machine runs
  fifo,       \* the keys not yet read; nothing once the emulator has stopped
  data,       \* the data register
  up          \* FALSE once the emulator has stopped

vars == <<events, listening, fifo, data, up>>

Init ==
  /\ events = <<>>
  /\ listening = FALSE
  /\ fifo = <<>>
  /\ data = KeyNone
  /\ up = TRUE

Arrive ==
  /\ \E e \in Keys \cup OtherEvents \cup {Quit} : events' = Append(events, e)
  /\ UNCHANGED <<listening, fifo, data, up>>

Takes(e) == events # <<>> /\ Head(events) = e /\ events' = Tail(events)

DeliverKey ==
  /\ listening
  /\ \E k \in Keys :
       /\ Takes(k)
       /\ IF Len(fifo) < Capacity
            THEN fifo' = Append(fifo, k) /\ UNCHANGED up
            ELSE fifo' = <<>> /\ up' = FALSE
  /\ UNCHANGED <<listening, data>>

IgnoreKey ==
  /\ ~listening
  /\ \E k \in Keys : Takes(k)
  /\ UNCHANGED <<listening, fifo, data, up>>

DeliverOther ==
  /\ \/ \E e \in OtherEvents : Takes(e) /\ UNCHANGED listening
     \/ Takes(Quit) /\ listening' = FALSE
  /\ UNCHANGED <<fifo, data, up>>

\* The machine starts, or an idle one forgets the events before it starts.
Start ==
  /\ ~listening
  /\ listening' \in BOOLEAN
  /\ events' \in {events, <<>>}
  /\ UNCHANGED <<fifo, data, up>>

Pause ==
  /\ listening' = FALSE
  /\ UNCHANGED <<events, fifo, data, up>>

Get ==
  /\ fifo # <<>>
  /\ data' = Head(fifo)
  /\ fifo' = Tail(fifo)
  /\ UNCHANGED <<events, listening, up>>

GetNone ==
  /\ fifo = <<>>
  /\ data' = KeyNone
  /\ UNCHANGED <<events, listening, fifo, up>>

\* The emulator stops for another reason than a full queue.
Stop ==
  /\ up' = FALSE
  /\ fifo' = <<>>
  /\ UNCHANGED <<events, listening, data>>

Next ==
  /\ up
  /\ \/ Arrive \/ DeliverKey \/ IgnoreKey \/ DeliverOther
     \/ Start \/ Pause \/ Get \/ GetNone \/ Stop

Spec == Init /\ [][Next]_vars
=============================================================================
