------------------------------ MODULE KeyQueue ------------------------------
(***************************************************************************)
(* The i8042 keyboard of NEMU (nemu/src/device/keyboard.c): a circular     *)
(* array filled by send_key from the host's event loop and emptied by the  *)
(* guest's reads of the data port.  One slot stays free, so that the       *)
(* indices tell a full queue from an empty one; filling the last slot      *)
(* trips an Assert.                                                        *)
(***************************************************************************)
EXTENDS NemuState, Sequences

CONSTANTS
  Keys,           \* scancodes of mapped keys, with their key-down bit
  KeyNone,        \* NEMU_KEY_NONE
  KEY_QUEUE_LEN   \* 1024 in the code

ASSUME KeyQueueAssumption ==
  /\ KeyNone \notin Keys
  /\ KEY_QUEUE_LEN \in Nat \ {0}

VARIABLES key_queue, key_f, key_r, i8042_data_port_base

keyVars == <<key_queue, key_f, key_r, i8042_data_port_base>>

Slots == 0 .. KEY_QUEUE_LEN - 1

KeyTypeOK ==
  /\ key_queue \in [Slots -> Keys \cup {KeyNone}]
  /\ key_f \in Slots
  /\ key_r \in Slots
  /\ i8042_data_port_base \in Keys \cup {KeyNone}

\* Static initialisers; init_i8042 sets the port.
init_i8042 ==
  /\ key_queue = [i \in Slots |-> KeyNone]
  /\ key_f = 0
  /\ key_r = 0
  /\ i8042_data_port_base = KeyNone

key_enqueue(k) ==
  /\ key_queue' = [key_queue EXCEPT ![key_r] = k]
  /\ key_r' = (key_r + 1) % KEY_QUEUE_LEN
  /\ alive' = (key_r' # key_f)             \* Assert: "key queue overflow!"
  /\ UNCHANGED <<key_f, i8042_data_port_base>>

\* i8042_data_io_handler on a read: the port takes key_dequeue()'s answer.
key_dequeue ==
  IF key_f # key_r
    THEN /\ i8042_data_port_base' = key_queue[key_f]
         /\ key_f' = (key_f + 1) % KEY_QUEUE_LEN
         /\ UNCHANGED <<key_queue, key_r>>
    ELSE /\ i8042_data_port_base' = KeyNone
         /\ UNCHANGED <<key_queue, key_f, key_r>>

\* Mutant: a key that is polled after the window was closed is queued too.
send_key_always(k) == key_enqueue(k)

\* A key event reaches the queue only while the guest is running.
send_key(k) ==
  IF state = "RUNNING"
    THEN key_enqueue(k)
    ELSE UNCHANGED <<keyVars, alive>>

-----------------------------------------------------------------------------
(* The abstract queue the indices and the array stand for.                 *)

Pending == IF key_r >= key_f THEN key_r - key_f
                             ELSE key_r + KEY_QUEUE_LEN - key_f

SlotAt(i) == IF key_f + i < KEY_QUEUE_LEN THEN key_f + i
                                          ELSE key_f + i - KEY_QUEUE_LEN

KeySequence ==
  IF alive THEN [i \in 1 .. Pending |-> key_queue[SlotAt(i - 1)]] ELSE <<>>
=============================================================================
