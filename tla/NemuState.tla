----------------------------- MODULE NemuState -----------------------------
(***************************************************************************)
(* The state word every part of NEMU shares: `nemu_state` (utils/state.c,  *)
(* include/utils.h).  The engine, DiffTest and the device loop write it;   *)
(* cpu_exec, the key path and main read it.                                *)
(*                                                                         *)
(* halt_pc is left out: it is only printed.  `alive` is FALSE once an      *)
(* Assert or a panic has aborted the emulator process.                     *)
(***************************************************************************)
EXTENDS Integers

VARIABLES
  state,      \* nemu_state.state
  halt_ret,   \* nemu_state.halt_ret: the guest's exit code
  alive       \* the process has not been aborted by Assert or panic

stateVars == <<state, halt_ret, alive>>

CONSTANT Codes   \* exit codes a guest passes to its trap instruction

ASSUME CodesAssumption == Codes \subseteq Int

States == {"RUNNING", "STOP", "END", "ABORT", "QUIT"}

\* The states in which cpu_exec refuses to run the guest again.
Ended == {"END", "ABORT", "QUIT"}

StateTypeOK ==
  /\ state \in States
  /\ halt_ret \in Codes \cup {0, -1}
  /\ alive \in BOOLEAN

StateInit ==
  /\ state = "STOP"
  /\ halt_ret = 0
  /\ alive = TRUE

\* main returns is_exit_status_bad(): a good trap or a closed window is good.
GoodExit == (state = "END" /\ halt_ret = 0) \/ state = "QUIT"
=============================================================================
