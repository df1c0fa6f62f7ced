------------------------------ MODULE DiffTest ------------------------------
(***************************************************************************)
(* The DUT side of differential testing (nemu/src/cpu/difftest/dut.c).     *)
(*                                                                         *)
(* After each guest instruction the reference simulator (REF) is stepped   *)
(* and its registers are compared with those of NEMU (the DUT).  An        *)
(* instruction whose effect the two cannot reproduce (a device access, a   *)
(* trap) is excused with difftest_skip_ref; when one step of REF executes  *)
(* several instructions, difftest_skip_dut postpones the comparison until  *)
(* NEMU has caught up.                                                     *)
(*                                                                         *)
(* Register files are abstracted to what a comparison can tell: `lead`,    *)
(* how many instructions REF is ahead of the DUT (ref.pc = npc exactly     *)
(* when it is 0: the guest's path does not revisit a pc within one pack),  *)
(* and `agree`, whether the other registers are equal once the DUT is at   *)
(* REF's pc.                                                               *)
(***************************************************************************)
EXTENDS NemuState

CONSTANTS
  CONFIG_DIFFTEST,  \* the build option
  HookWritten,      \* isa_difftest_checkregs compares the registers; the
                    \* stub of every ISA answers "different" (FALSE)
  MaxPack           \* bound: instructions one step of REF may execute

ASSUME DiffTestAssumption ==
  /\ CONFIG_DIFFTEST \in BOOLEAN
  /\ HookWritten \in BOOLEAN
  /\ MaxPack \in Nat

VARIABLES is_skip_ref, skip_dut_nr_inst, lead, agree

diffVars == <<is_skip_ref, skip_dut_nr_inst, lead, agree>>

DiffTypeOK ==
  /\ is_skip_ref \in BOOLEAN
  /\ skip_dut_nr_inst \in Nat
  /\ lead \in Int
  /\ agree \in BOOLEAN

\* init_difftest copies the image and the registers to REF.
init_difftest ==
  /\ is_skip_ref = FALSE
  /\ skip_dut_nr_inst = 0
  /\ lead = 0
  /\ agree = TRUE

\* Mutant: the instructions still to be caught up with are not cancelled.
difftest_skip_ref_keeps_pack ==
  IF CONFIG_DIFFTEST
    THEN is_skip_ref' = TRUE /\ UNCHANGED skip_dut_nr_inst
    ELSE UNCHANGED <<is_skip_ref, skip_dut_nr_inst>>

\* Without CONFIG_DIFFTEST the calls below are empty inline functions.
difftest_skip_ref ==
  IF CONFIG_DIFFTEST
    THEN is_skip_ref' = TRUE /\ skip_dut_nr_inst' = 0
    ELSE UNCHANGED <<is_skip_ref, skip_dut_nr_inst>>

\* difftest_skip_dut(1, nr_dut), one step of REF executing `pack`
\* instructions, while the DUT executes one.
difftest_skip_dut(pack, nr_dut) ==
  /\ skip_dut_nr_inst' = skip_dut_nr_inst + nr_dut
  /\ lead' = lead + pack - 1
  /\ UNCHANGED is_skip_ref

\* Mutant: a comparison that looks at the pc only.
isa_difftest_checkregs_pc_only(ahead, same) == HookWritten /\ ahead = 0

isa_difftest_checkregs(ahead, same) == HookWritten /\ ahead = 0 /\ same

checkregs(ahead, same) ==
  state' = IF isa_difftest_checkregs(ahead, same) THEN state ELSE "ABORT"

\* difftest_step, while packed instructions are being caught up with.
CaughtUp ==
  /\ skip_dut_nr_inst > 0 /\ lead = 0
  /\ skip_dut_nr_inst' = 0
  /\ checkregs(lead, agree)
  /\ UNCHANGED <<is_skip_ref, lead, agree, alive>>

\* Mutant: gives up one instruction too early.
StillBehind_impatient ==
  /\ skip_dut_nr_inst > 0 /\ lead # 0
  /\ skip_dut_nr_inst' = skip_dut_nr_inst - 1
  /\ alive' = (skip_dut_nr_inst' > 1)
  /\ UNCHANGED <<is_skip_ref, lead, agree, state>>

StillBehind ==
  /\ skip_dut_nr_inst > 0 /\ lead # 0
  /\ skip_dut_nr_inst' = skip_dut_nr_inst - 1
  /\ alive' = (skip_dut_nr_inst' # 0)     \* panic("can not catch up ...")
  /\ UNCHANGED <<is_skip_ref, lead, agree, state>>

\* Mutant: the request to skip is left for the next instruction.
CopyToRef_keeps_request ==
  /\ skip_dut_nr_inst = 0 /\ is_skip_ref
  /\ lead' = 0
  /\ agree' = TRUE
  /\ UNCHANGED <<is_skip_ref, skip_dut_nr_inst, state, alive>>

\* difftest_step, for an excused instruction: REF takes the DUT's registers.
CopyToRef ==
  /\ skip_dut_nr_inst = 0 /\ is_skip_ref
  /\ is_skip_ref' = FALSE
  /\ lead' = 0
  /\ agree' = TRUE
  /\ UNCHANGED <<skip_dut_nr_inst, state, alive>>

\* difftest_step, for every other instruction.
StepAndCompare ==
  /\ skip_dut_nr_inst = 0 /\ ~is_skip_ref
  /\ lead' = lead + 1
  /\ checkregs(lead', agree)
  /\ UNCHANGED <<is_skip_ref, skip_dut_nr_inst, agree, alive>>

difftest_step ==
  IF CONFIG_DIFFTEST
    THEN /\ CaughtUp \/ StillBehind \/ CopyToRef \/ StepAndCompare
         /\ UNCHANGED halt_ret
    ELSE UNCHANGED <<is_skip_ref, skip_dut_nr_inst, lead, agree, state,
                     halt_ret, alive>>
=============================================================================
