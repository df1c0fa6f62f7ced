--------------------------- MODULE NemuRunProofs ---------------------------
(***************************************************************************)
(* Proofs about NemuRun: the inductive invariant IInv, and from it the     *)
(* safety properties for every choice of the constants.                    *)
(***************************************************************************)
EXTENDS NemuRun, TLAPS

\* The indices of the key queue stay inside the array.
LEMMA IndexWraps ==
  ASSUME NEW L \in Nat \ {0}, NEW x \in 0 .. L - 1
  PROVE  /\ (x + 1) % L \in 0 .. L - 1
         /\ (x + 1) % L = IF x + 1 = L THEN 0 ELSE x + 1
  BY SMT

\* Queueing or reading a key keeps the queue well-formed.
LEMMA EnqueueType ==
  ASSUME KeyTypeOK, NEW k \in Keys, key_enqueue(k)
  PROVE  KeyTypeOK' /\ alive' \in BOOLEAN
  BY KeyQueueAssumption, IndexWraps DEF KeyTypeOK, key_enqueue, Slots

\* Reading a key keeps the queue well-formed.
LEMMA DequeueType ==
  ASSUME KeyTypeOK, key_dequeue
  PROVE  KeyTypeOK'
  BY KeyQueueAssumption, IndexWraps DEF KeyTypeOK, key_dequeue, Slots

\* What the actions leave to say about each other: DiffTest's step keeps the
\* types of its own variables and of the state word.
LEMMA StepType ==
  ASSUME StateTypeOK, DiffTypeOK, difftest_step
  PROVE  StateTypeOK' /\ DiffTypeOK'
  <1>1. CASE ~CONFIG_DIFFTEST
    BY <1>1 DEF StateTypeOK, DiffTypeOK, difftest_step
  <1>2. CASE CONFIG_DIFFTEST /\ CaughtUp
    BY <1>2 DEF StateTypeOK, DiffTypeOK, difftest_step, CaughtUp, checkregs, States
  <1>3. CASE CONFIG_DIFFTEST /\ StillBehind
    BY <1>3 DEF StateTypeOK, DiffTypeOK, difftest_step, StillBehind
  <1>4. CASE CONFIG_DIFFTEST /\ CopyToRef
    <2>1. 0 \in Int
      OBVIOUS
    <2> QED
      BY <1>4, <2>1, Zenon DEF StateTypeOK, DiffTypeOK, difftest_step, CopyToRef
  <1>5. CASE CONFIG_DIFFTEST /\ StepAndCompare
    BY <1>5 DEF StateTypeOK, DiffTypeOK, difftest_step, StepAndCompare, checkregs, States
  <1> QED
    BY <1>1, <1>2, <1>3, <1>4, <1>5 DEF difftest_step

-----------------------------------------------------------------------------
(* Type correctness                                                        *)

\* The initial state is well-typed.
LEMMA InitType == ASSUME Init PROVE TypeOK
  <1>1. 0 \in Nat /\ 0 \in Int /\ 0 \in Slots /\ 0 \in 0 .. MaxEvents
    BY KeyQueueAssumption, NemuRunAssumption DEF Slots
  <1>2. events \in Seq(Keys \cup {"QUIT", "OTHER"})
    BY DEF Init
  <1>3. key_queue \in [Slots -> Keys \cup {KeyNone}]
    BY DEF Init, init_i8042
  <1> QED
    BY <1>1, <1>2, <1>3, Zenon
       DEF Init, TypeOK, StateInit, init_difftest, init_i8042, StateTypeOK, DiffTypeOK,
           KeyTypeOK, States, Locs, NoVerdict

\* Every step of the emulator, the user or the clock keeps the types.
LEMMA NextType == ASSUME TypeOK, [Next]_vars PROVE TypeOK'
  <1> USE DEF TypeOK
  <1>1. CASE cmd_c
    <2>1. events' \in Seq(Keys \cup {"QUIT", "OTHER"})
      BY <1>1 DEF cmd_c, ClearEvents
    <2>2. n' \in Nat \cup {-1} /\ loc' \in Locs /\ state' \in States
      BY <1>1, NemuRunAssumption DEF cmd_c, StateTypeOK, States, Locs
    <2>3. StateTypeOK'
      BY <1>1, <2>2, Zenon DEF cmd_c, StateTypeOK
    <2>4. DiffTypeOK' /\ KeyTypeOK'
      BY <1>1, Zenon DEF cmd_c, DiffTypeOK, KeyTypeOK, diffVars, keyVars
    <2>5. UNCHANGED <<batch, posted, due, verdict, wrong, overrun>>
      BY <1>1 DEF cmd_c, history
    <2> QED
      BY <2>1, <2>2, <2>3, <2>4, <2>5, Zenon
  <1>2. CASE cmd_q
    <2>1. events' \in Seq(Keys \cup {"QUIT", "OTHER"})
      <3>1. events' = events \/ events' = <<>>
        BY <1>2, Zenon DEF cmd_q
      <3>2. <<>> \in Seq(Keys \cup {"QUIT", "OTHER"})
        OBVIOUS
      <3> QED
        BY <3>1, <3>2, Zenon
    <2>2. loc' \in Locs
      BY <1>2 DEF cmd_q, Locs
    <2>3. StateTypeOK' /\ DiffTypeOK' /\ KeyTypeOK'
      BY <1>2 DEF cmd_q, StateTypeOK, DiffTypeOK, KeyTypeOK, stateVars, diffVars, keyVars
    <2>4. UNCHANGED <<batch, n, posted, due, verdict, wrong, overrun>>
      BY <1>2 DEF cmd_q, history
    <2> QED
      BY <2>1, <2>2, <2>3, <2>4, Zenon
  <1>3. CASE cmd_other
    BY <1>3 DEF cmd_other, ClearEvents, StateTypeOK, DiffTypeOK, KeyTypeOK,
           stateVars, diffVars, keyVars, history
  <1>4. ASSUME StartInst
        PROVE  /\ loc' \in Locs /\ batch' \in BOOLEAN /\ n' \in Nat \cup {-1}
               /\ events' \in Seq(Keys \cup {"QUIT", "OTHER"})
               /\ posted' \in 0 .. MaxEvents /\ due' \in BOOLEAN /\ overrun' \in Nat
    BY <1>4 DEF StartInst, Locs
  <1>5. ASSUME NEW bad \in BOOLEAN, ExecPlain(bad) PROVE TypeOK'
    BY <1>5, <1>4 DEF ExecPlain, StateTypeOK, DiffTypeOK, KeyTypeOK, stateVars, keyVars
  <1>6. ASSUME NEW pack \in 2 .. MaxPack, NEW nr_dut \in pack .. MaxPack,
               ExecPacked(pack, nr_dut)
        PROVE  TypeOK'
    BY <1>6, <1>4, DiffTestAssumption
       DEF ExecPacked, difftest_skip_dut, StateTypeOK, DiffTypeOK, KeyTypeOK,
           stateVars, keyVars
  <1>7. ASSUME Excused PROVE DiffTypeOK' /\ wrong' \in BOOLEAN
    <2>1. lead' \in Int /\ skip_dut_nr_inst' \in Nat
      BY <1>7 DEF Excused, difftest_skip_ref, DiffTypeOK
    <2>2. is_skip_ref' \in BOOLEAN /\ agree' \in BOOLEAN /\ wrong' \in BOOLEAN
      BY <1>7, Zenon DEF Excused, difftest_skip_ref, DiffTypeOK
    <2> QED
      BY <2>1, <2>2 DEF DiffTypeOK
  <1>8. CASE ExecMmio
    BY <1>8, <1>4, <1>7 DEF ExecMmio, Excused, StateTypeOK, KeyTypeOK, stateVars, keyVars
  <1>9. CASE ExecReadKey
    BY <1>9, <1>4, <1>7, DequeueType DEF ExecReadKey, Excused, StateTypeOK, stateVars
  <1>10. ASSUME NEW code \in Codes, ExecTrap(code) PROVE TypeOK'
    BY <1>10, <1>4, <1>7
       DEF ExecTrap, set_nemu_state, Excused, StateTypeOK, States, KeyTypeOK, keyVars
  <1>11. CASE invalid_inst
    BY <1>11, <1>4, <1>7
       DEF invalid_inst, set_nemu_state, Excused, StateTypeOK, States, KeyTypeOK, keyVars
  <1>12. CASE ExecOutOfBound
    BY <1>12, <1>4
       DEF ExecOutOfBound, StateTypeOK, DiffTypeOK, KeyTypeOK, diffVars, keyVars
  <1>13. CASE trace_and_difftest
    BY <1>13, StepType DEF trace_and_difftest, KeyTypeOK, Locs, keyVars, history
  <1>14. CASE DeviceUpdate
    <2>1. n' \in Nat \cup {-1} /\ loc' \in Locs
      BY <1>14 DEF DeviceUpdate, CountDown, Locs
    <2>2. due' \in BOOLEAN
      BY <1>14, Zenon DEF DeviceUpdate
    <2> QED
      BY <1>14, <2>1, <2>2, Zenon
         DEF DeviceUpdate, StateTypeOK, DiffTypeOK, KeyTypeOK,
             stateVars, diffVars, keyVars, history
  <1>15. CASE PollEvent
    <2>1. /\ loc' \in Locs /\ batch' \in BOOLEAN /\ n' \in Nat \cup {-1}
          /\ events' \in Seq(Keys \cup {"QUIT", "OTHER"})
          /\ posted' \in 0 .. MaxEvents /\ due' \in BOOLEAN /\ overrun' \in Nat
          /\ verdict' \in {NoVerdict, <<"ABORT", -1>>} \cup ({"END"} \X Codes)
          /\ wrong' \in BOOLEAN /\ DiffTypeOK' /\ halt_ret' \in Codes \cup {0, -1}
      BY <1>15 DEF PollEvent, DiffTypeOK, StateTypeOK, diffVars, history
    <2>2. StateTypeOK' /\ KeyTypeOK'
      <3>1. CASE PollQuit
        BY <3>1, <2>1 DEF PollQuit, StateTypeOK, States, KeyTypeOK, keyVars
      <3>2. CASE PollKey
        BY <3>2, <2>1, EnqueueType
           DEF PollKey, send_key, StateTypeOK, KeyTypeOK, keyVars
      <3>3. CASE PollOther
        BY <3>3, <2>1 DEF PollOther, StateTypeOK, KeyTypeOK, keyVars
      <3> QED
        BY <1>15, <3>1, <3>2, <3>3 DEF PollEvent
    <2> QED
      BY <2>1, <2>2
  <1>16. CASE PollDone
    BY <1>16 DEF PollDone, CountDown, StateTypeOK, DiffTypeOK, KeyTypeOK, Locs,
           stateVars, diffVars, keyVars, history
  <1>17. CASE BudgetSpent
    BY <1>17 DEF BudgetSpent, StateTypeOK, DiffTypeOK, KeyTypeOK, Locs,
           stateVars, diffVars, keyVars, history
  <1>18. CASE LeaveRun
    BY <1>18 DEF LeaveRun, StateTypeOK, States, DiffTypeOK, KeyTypeOK, Locs,
           diffVars, keyVars, history
  <1>19. ASSUME NEW e \in Keys \cup {"QUIT", "OTHER"}, WindowEvent(e) PROVE TypeOK'
    BY <1>19, NemuRunAssumption
       DEF WindowEvent, StateTypeOK, DiffTypeOK, KeyTypeOK,
           stateVars, diffVars, keyVars, history
  <1>20. CASE Tick
    BY <1>20 DEF Tick, StateTypeOK, DiffTypeOK, KeyTypeOK,
           stateVars, diffVars, keyVars, history
  <1>21. CASE UNCHANGED vars
    BY <1>21 DEF vars, runVars, StateTypeOK, DiffTypeOK, KeyTypeOK,
           stateVars, diffVars, keyVars, history
  <1> QED
    BY <1>1, <1>2, <1>3, <1>5, <1>6, <1>8, <1>9, <1>10, <1>11, <1>12, <1>13, <1>14,
       <1>15, <1>16, <1>17, <1>18, <1>19, <1>20, <1>21
       DEF Next, Emulator, Command, Environment, exec_once

\* Every variable of the emulator keeps its type, for every queue length, every
\* pack length and every word width.
THEOREM TypeCorrect == Spec => []TypeOK
  <1>1. Init => TypeOK
    BY InitType
  <1>2. TypeOK /\ [Next]_vars => TypeOK'
    BY NextType
  <1> QED
    BY <1>1, <1>2, PTL DEF Spec
-----------------------------------------------------------------------------
(* The inductive invariant                                                 *)

\* IInv without the types.
Safe == StateAt /\ LockStep /\ AtCheck /\ VerdictKept /\ WrongNeverPasses /\ LastInst

\* The initial state satisfies the inductive part.
LEMMA InitSafe == ASSUME Init PROVE Safe
  BY DEF Init, Safe, StateInit, init_difftest, StateAt, LockStep, AtCheck, VerdictKept,
         WrongNeverPasses, LastInst

\* DiffTest's step: what it finds is AtCheck, what it leaves is LockStep.
LEMMA StepSafe == ASSUME TypeOK, Safe, alive, trace_and_difftest PROVE Safe'
  <1> USE DEF Safe, trace_and_difftest, keyVars, history, Ended
  <1>1. CASE ~CONFIG_DIFFTEST
    <2>1. UNCHANGED <<state, halt_ret, verdict, wrong, overrun>>
      BY <1>1 DEF difftest_step
    <2> QED
      BY <1>1, <2>1 DEF StateAt, LockStep, AtCheck, VerdictKept, WrongNeverPasses, LastInst
  <1>2. ASSUME CONFIG_DIFFTEST, state' \in {state, "ABORT"}, halt_ret' = halt_ret,
               state' = state \/ state \in {"RUNNING", "QUIT"}
        PROVE  StateAt' /\ AtCheck' /\ VerdictKept' /\ LastInst'
    <2>1. StateAt' /\ AtCheck'
      BY <1>2 DEF StateAt, AtCheck
    <2>2. VerdictKept'
      BY <1>2 DEF VerdictKept, TypeOK, NoVerdict
    <2>3. LastInst'
      BY <1>2 DEF LastInst
    <2> QED
      BY <2>1, <2>2, <2>3
  <1>3. CASE CONFIG_DIFFTEST /\ CaughtUp
    <2>1. state \in {"RUNNING", "QUIT"} /\ ~wrong /\ ~is_skip_ref
      BY <1>3 DEF CaughtUp, AtCheck, TypeOK, DiffTypeOK
    <2>2. StateAt' /\ AtCheck' /\ VerdictKept' /\ LastInst'
      BY <1>2, <1>3, <2>1 DEF CaughtUp, checkregs, difftest_step
    <2>3. LockStep' /\ WrongNeverPasses'
      BY <1>3, <2>1 DEF CaughtUp, checkregs, isa_difftest_checkregs, LockStep,
           WrongNeverPasses
    <2> QED
      BY <2>2, <2>3
  <1>4. CASE CONFIG_DIFFTEST /\ StillBehind
    <2>1. /\ state \in {"RUNNING", "QUIT"} /\ ~wrong /\ ~is_skip_ref
          /\ lead \in 1 .. skip_dut_nr_inst - 1
      BY <1>4 DEF StillBehind, AtCheck, TypeOK, DiffTypeOK
    <2>2. StateAt' /\ AtCheck' /\ VerdictKept' /\ LastInst'
      BY <1>2, <1>4, <2>1 DEF StillBehind, difftest_step
    <2>3. LockStep' /\ WrongNeverPasses'
      BY <1>4, <2>1 DEF StillBehind, LockStep, WrongNeverPasses, TypeOK, DiffTypeOK
    <2> QED
      BY <2>2, <2>3
  <1>5. CASE CONFIG_DIFFTEST /\ CopyToRef
    <2>1. ~wrong
      BY <1>5 DEF CopyToRef, AtCheck, TypeOK, DiffTypeOK
    <2>2. StateAt' /\ AtCheck' /\ VerdictKept' /\ LastInst'
      BY <1>2, <1>5 DEF CopyToRef, difftest_step
    <2>3. LockStep' /\ WrongNeverPasses'
      BY <1>5, <2>1 DEF CopyToRef, LockStep, WrongNeverPasses
    <2> QED
      BY <2>2, <2>3
  <1>6. CASE CONFIG_DIFFTEST /\ StepAndCompare
    <2>1. state \in {"RUNNING", "QUIT"} /\ lead = -1 /\ (wrong => ~agree)
      BY <1>6 DEF StepAndCompare, AtCheck, TypeOK, DiffTypeOK
    <2>2. StateAt' /\ AtCheck' /\ VerdictKept' /\ LastInst'
      BY <1>2, <1>6, <2>1 DEF StepAndCompare, checkregs, difftest_step
    <2>3. LockStep' /\ WrongNeverPasses'
      BY <1>6, <2>1 DEF StepAndCompare, checkregs, isa_difftest_checkregs, LockStep,
           WrongNeverPasses, GoodExit
    <2> QED
      BY <2>2, <2>3
  <1> QED
    BY <1>1, <1>3, <1>4, <1>5, <1>6 DEF difftest_step

\* A window event polled by the device loop keeps the inductive part.
LEMMA PollSafe == ASSUME TypeOK, Safe, alive, PollEvent PROVE Safe'
  <1> USE DEF PollEvent, diffVars, keyVars, history, Ended
  <1>1. /\ state' \in {state, "QUIT"} /\ state \in {"RUNNING", "QUIT"} /\ loc = "poll"
        /\ UNCHANGED <<halt_ret, diffVars, loc, history>>
    BY DEF PollQuit, PollKey, send_key, key_enqueue, PollOther, Safe, StateAt
  <1>2. StateAt' /\ AtCheck'
    BY <1>1 DEF StateAt, AtCheck
  <1>3. verdict = NoVerdict
    BY <1>1 DEF Safe, VerdictKept, TypeOK, NoVerdict
  <1>4. ~(CONFIG_DIFFTEST /\ wrong) /\ overrun = 0
    BY <1>1 DEF Safe, WrongNeverPasses, LastInst
  <1>5. LockStep'
    BY <1>1 DEF Safe, LockStep
  <1> QED
    BY <1>1, <1>2, <1>3, <1>4, <1>5 DEF Safe, VerdictKept, WrongNeverPasses, LastInst

\* Every step keeps the inductive part: one case per action of Next.
LEMMA NextSafe == ASSUME TypeOK, Safe, Next PROVE Safe'
  <1> USE DEF Safe, StateAt, LockStep, AtCheck, VerdictKept, WrongNeverPasses, LastInst,
              Ended, GoodExit, stateVars, diffVars, keyVars, history
  <1> alive
    BY DEF Next, Emulator, Command, Environment
  <1>1. CASE cmd_c
    BY <1>1 DEF cmd_c, ClearEvents, TypeOK, DiffTypeOK
  <1>2. CASE cmd_q
    BY <1>2 DEF cmd_q, TypeOK, DiffTypeOK
  <1>3. CASE cmd_other
    BY <1>3 DEF cmd_other, TypeOK, DiffTypeOK
  <1>4. ASSUME NEW bad \in BOOLEAN, ExecPlain(bad) PROVE Safe'
    BY <1>4 DEF ExecPlain, StartInst, TypeOK, DiffTypeOK
  <1>5. ASSUME NEW pack \in 2 .. MaxPack, NEW nr_dut \in pack .. MaxPack,
               ExecPacked(pack, nr_dut)
        PROVE  Safe'
    BY <1>5 DEF ExecPacked, StartInst, difftest_skip_dut, TypeOK, DiffTypeOK
  <1>6. CASE ExecMmio
    BY <1>6 DEF ExecMmio, Excused, StartInst, difftest_skip_ref, TypeOK, DiffTypeOK
  <1>7. CASE ExecReadKey
    BY <1>7 DEF ExecReadKey, Excused, StartInst, difftest_skip_ref, TypeOK, DiffTypeOK
  <1>8. ASSUME NEW code \in Codes, ExecTrap(code) PROVE Safe'
    BY <1>8 DEF ExecTrap, set_nemu_state, Excused, StartInst, difftest_skip_ref, TypeOK, DiffTypeOK
  <1>9. CASE invalid_inst
    BY <1>9 DEF invalid_inst, set_nemu_state, Excused, StartInst, difftest_skip_ref, TypeOK, DiffTypeOK
  <1>10. CASE ExecOutOfBound
    BY <1>10 DEF ExecOutOfBound, StartInst, TypeOK, DiffTypeOK
  <1>11. CASE trace_and_difftest
    BY <1>11, StepSafe
  <1>12. CASE DeviceUpdate
    BY <1>12 DEF DeviceUpdate, TypeOK, DiffTypeOK
  <1>13. CASE PollEvent
    BY <1>13, PollSafe
  <1>14. CASE PollDone
    BY <1>14 DEF PollDone, TypeOK, DiffTypeOK
  <1>15. CASE BudgetSpent
    BY <1>15 DEF BudgetSpent, TypeOK, DiffTypeOK
  <1>16. CASE LeaveRun
    BY <1>16 DEF LeaveRun, TypeOK, DiffTypeOK
  <1>17. ASSUME NEW e \in Keys \cup {"QUIT", "OTHER"}, WindowEvent(e) PROVE Safe'
    BY <1>17 DEF WindowEvent, TypeOK, DiffTypeOK
  <1>18. CASE Tick
    BY <1>18 DEF Tick, TypeOK, DiffTypeOK
  <1> QED
    BY <1>1, <1>2, <1>3, <1>4, <1>5, <1>6, <1>7, <1>8, <1>9, <1>10, <1>11, <1>12,
       <1>13, <1>14, <1>15, <1>16, <1>17, <1>18
       DEF Next, Emulator, Command, Environment, exec_once

\* The inductive invariant holds in every reachable state.
THEOREM Invariance == Spec => []IInv
  <1>1. Init => IInv
    BY InitType, InitSafe DEF IInv, Safe
  <1>2. IInv /\ [Next]_vars => IInv'
    <2> SUFFICES ASSUME IInv, [Next]_vars PROVE IInv'
      OBVIOUS
    <2>1. TypeOK'
      BY NextType DEF IInv
    <2>2. Safe'
      <3>1. CASE Next
        BY <3>1, NextSafe DEF IInv, Safe
      <3>2. CASE UNCHANGED vars
        BY <3>2 DEF IInv, Safe, StateAt, LockStep, AtCheck, VerdictKept, WrongNeverPasses,
             LastInst, GoodExit, vars, stateVars, diffVars, keyVars, runVars, history
      <3> QED
        BY <3>1, <3>2
    <2> QED
      BY <2>1, <2>2 DEF IInv, Safe
  <1> QED
    BY <1>1, <1>2, PTL DEF Spec

\* DiffTest keeps REF in step with the DUT, whatever the lengths of the packs and
\* wherever in them an excused instruction falls.
THEOREM LockStepHolds == Spec => []LockStep
  BY Invariance, PTL DEF IInv

\* The verdict of a trap or an invalid instruction reaches the exit unchanged.
THEOREM VerdictKeptHolds == Spec => []VerdictKept
  BY Invariance, PTL DEF IInv

\* A wrong instruction that DiffTest compares never ends in a good exit status.
THEOREM WrongNeverPassesHolds == Spec => []WrongNeverPasses
  BY Invariance, PTL DEF IInv

\* At most one instruction runs after the window was closed.
THEOREM QuitIsPromptHolds == Spec => []QuitIsPrompt
  <1>1. IInv => QuitIsPrompt
    BY DEF IInv, LastInst, QuitIsPrompt
  <1> QED
    BY <1>1, Invariance, PTL

\* DiffTest neither panics nor reports a difference that is not there.
THEOREM NoFalseAlarmHolds == Spec => NoFalseAlarm
  <1>1. ASSUME IInv, Next, loc = "check"
        PROVE  alive' = alive /\ (HookWritten /\ state' # state => ~agree)
    <2> alive
      BY <1>1 DEF Next, Emulator, Command, Environment
    <2> USE <1>1 DEF IInv
    <2>1. CASE trace_and_difftest
      <3>1. CASE ~CONFIG_DIFFTEST
        BY <2>1, <3>1 DEF trace_and_difftest, difftest_step
      <3>2. CASE CONFIG_DIFFTEST /\ StillBehind
        <4>1. skip_dut_nr_inst' # 0 /\ state' = state
          BY <3>2 DEF StillBehind, AtCheck, TypeOK, DiffTypeOK
        <4> QED
          BY <3>2, <4>1 DEF StillBehind
      <3>3. CASE CONFIG_DIFFTEST /\ (CaughtUp \/ CopyToRef)
        BY <3>3 DEF CaughtUp, CopyToRef, checkregs, isa_difftest_checkregs
      <3>4. CASE CONFIG_DIFFTEST /\ StepAndCompare
        <4>1. lead = -1
          BY <3>4 DEF StepAndCompare, AtCheck, TypeOK, DiffTypeOK
        <4> QED
          BY <3>4, <4>1 DEF StepAndCompare, checkregs, isa_difftest_checkregs
      <3> QED
        BY <2>1, <3>1, <3>2, <3>3, <3>4 DEF trace_and_difftest, difftest_step
    <2>2. CASE Environment
      BY <2>2 DEF Environment, WindowEvent, Tick, stateVars
    <2> QED
      BY <2>1, <2>2
         DEF Next, Emulator, Command, exec_once, StartInst, ExecPlain, ExecPacked, ExecMmio,
             ExecReadKey, ExecTrap, invalid_inst, set_nemu_state, Excused, ExecOutOfBound,
             DeviceUpdate, PollEvent, PollDone, BudgetSpent, LeaveRun, cmd_c, cmd_q, cmd_other
  <1>2. IInv /\ [Next]_vars
          => [loc = "check"
                => alive' = alive /\ (HookWritten /\ state' # state => ~agree)]_vars
    BY <1>1
  <1> QED
    BY <1>2, Invariance, PTL DEF Spec, NoFalseAlarm

\* A guest that has ended never runs again.
THEOREM EndedForGoodHolds == Spec => EndedForGood
  <1>1. ASSUME Next, loc \in {"prompt", "exit"}, state \in Ended
        PROVE  state' = state /\ halt_ret' = halt_ret /\ loc' \in {"prompt", "exit"}
    BY <1>1 DEF Next, Emulator, Command, Environment, exec_once, StartInst, ExecPlain,
         ExecPacked, ExecMmio, ExecReadKey, ExecTrap, invalid_inst, set_nemu_state, Excused,
         ExecOutOfBound, trace_and_difftest, DeviceUpdate, PollEvent, PollDone, BudgetSpent,
         LeaveRun, cmd_c, cmd_q, cmd_other, WindowEvent, Tick, stateVars
  <1>2. [Next]_vars => [(loc \in {"prompt", "exit"} /\ state \in Ended)
                          => /\ state' = state /\ halt_ret' = halt_ret
                             /\ loc' \in {"prompt", "exit"}]_vars
    BY <1>1
  <1> QED
    BY <1>2, PTL DEF Spec, EndedForGood

-----------------------------------------------------------------------------
(* The circular key queue implements a FIFO                                *)

\* Filling a slot appends to the sequence the queue stands for, or, when the
\* slot was the last free one, stops the machine.
LEMMA EnqueueIsPut ==
  ASSUME KeyTypeOK, alive, NEW k \in Keys, key_enqueue(k)
  PROVE  /\ IF Len(KeySequence) < KEY_QUEUE_LEN - 1
              THEN KeySequence' = Append(KeySequence, k) /\ alive' = alive
              ELSE KeySequence' = <<>> /\ alive' = FALSE
         /\ UNCHANGED i8042_data_port_base
  <1> USE KeyQueueAssumption DEF KeyTypeOK, Slots
  <1>0. UNCHANGED i8042_data_port_base /\ alive' = (key_r' # key_f)
    BY Zenon DEF key_enqueue
  <1>1. CASE ~alive'
    <2>1. key_r' = IF key_r + 1 = KEY_QUEUE_LEN THEN 0 ELSE key_r + 1
      BY IndexWraps DEF key_enqueue
    <2>2. key_r' = key_f
      BY <1>0, <1>1, Zenon
    <2>3. Pending = KEY_QUEUE_LEN - 1
      BY <2>1, <2>2 DEF Pending
    <2>4. KeySequence = [i \in 1 .. Pending |-> key_queue[SlotAt(i - 1)]] /\ KeySequence' = <<>>
      BY <1>1 DEF KeySequence
    <2>5. \A i \in 1 .. Pending : SlotAt(i - 1) \in Slots
      BY <2>3 DEF SlotAt
    <2>6. Len(KeySequence) = KEY_QUEUE_LEN - 1
      BY <2>3, <2>4, <2>5
    <2>7. ~(Len(KeySequence) < KEY_QUEUE_LEN - 1)
      BY <2>6
    <2>8. alive' = FALSE
      BY <1>0, <1>1, Zenon
    <2> QED
      BY <1>0, <2>4, <2>7, <2>8, Zenon
  <1>2. CASE alive'
    <2>1. /\ key_r' = IF key_r + 1 = KEY_QUEUE_LEN THEN 0 ELSE key_r + 1
          /\ key_f' = key_f
          /\ key_queue' = [key_queue EXCEPT ![key_r] = k]
      BY IndexWraps DEF key_enqueue
    <2>2. key_r' # key_f
      BY <1>2, Zenon DEF key_enqueue
    <2>3. /\ Pending \in 0 .. KEY_QUEUE_LEN - 2
          /\ Pending' = Pending + 1
          /\ SlotAt(Pending) = key_r
      BY <2>1, <2>2 DEF Pending, SlotAt
    <2>4. ASSUME NEW i \in 1 .. Pending
          PROVE  SlotAt(i - 1) \in Slots /\ SlotAt(i - 1) # key_r
      BY <2>3 DEF Pending, SlotAt
    <2>5. ASSUME NEW i \in 1 .. Pending
          PROVE  key_queue'[SlotAt(i - 1)] = key_queue[SlotAt(i - 1)]
      BY <2>1, <2>4
    <2>6. key_queue'[SlotAt(Pending)] = k
      BY <2>1, <2>3
    <2>7. /\ KeySequence = [i \in 1 .. Pending |-> key_queue[SlotAt(i - 1)]]
          /\ KeySequence' = [i \in 1 .. Pending + 1 |-> key_queue'[SlotAt(i - 1)]]
      BY <1>2, <2>1, <2>3 DEF KeySequence, SlotAt
    <2>8. KeySequence \in Seq(Keys \cup {KeyNone}) /\ Len(KeySequence) = Pending
      BY <2>3, <2>4, <2>7
    <2>9. KeySequence' = Append(KeySequence, k)
      <3>1. ASSUME NEW i \in 1 .. Pending + 1
            PROVE  KeySequence'[i] = Append(KeySequence, k)[i]
        <4>1. CASE i \in 1 .. Pending
          <5>1. KeySequence'[i] = KeySequence[i]
            BY <4>1, <2>3, <2>5, <2>7
          <5> QED
            BY <5>1, <4>1, <2>8
        <4>2. CASE i = Pending + 1
          <5>1. KeySequence'[i] = k
            BY <4>2, <2>3, <2>6, <2>7
          <5> QED
            BY <5>1, <4>2, <2>8
        <4>3. i \in 1 .. Pending \/ i = Pending + 1
          BY <2>3
        <4> QED
          BY <4>1, <4>2, <4>3, Zenon
      <3>2. /\ KeySequence' = [i \in 1 .. Pending + 1 |-> KeySequence'[i]]
            /\ Append(KeySequence, k) = [i \in 1 .. Pending + 1 |-> Append(KeySequence, k)[i]]
        BY <2>3, <2>7, <2>8
      <3> QED
        BY <3>1, <3>2, Zenon
    <2>10. alive' = alive
      BY <1>0, <1>2, Zenon
    <2>11. Len(KeySequence) < KEY_QUEUE_LEN - 1
      BY <2>3, <2>8
    <2> QED
      BY <1>0, <2>9, <2>10, <2>11, Zenon
  <1> QED
    BY <1>1, <1>2

\* Reading the port takes the head of that sequence.
LEMMA DequeueIsGet ==
  ASSUME KeyTypeOK, alive, alive' = alive, UNCHANGED <<state, events>>, key_dequeue
  PROVE  Fifo!Get \/ Fifo!GetNone
  <1> USE KeyQueueAssumption DEF KeyTypeOK, Slots
  <1>1. CASE key_f = key_r
    <2>1. KeySequence = <<>> /\ KeySequence' = <<>>
      BY <1>1 DEF key_dequeue, KeySequence, Pending
    <2> QED
      BY <1>1, <2>1 DEF key_dequeue, Fifo!GetNone
  <1>2. CASE key_f # key_r
    <2>0. /\ key_f' = IF key_f + 1 = KEY_QUEUE_LEN THEN 0 ELSE key_f + 1
          /\ key_r' = key_r /\ key_queue' = key_queue
          /\ i8042_data_port_base' = key_queue[key_f]
      BY <1>2, IndexWraps DEF key_dequeue
    <2>1. /\ Pending \in 1 .. KEY_QUEUE_LEN - 1
          /\ Pending' = Pending - 1
          /\ SlotAt(0) = key_f
      BY <1>2, <2>0 DEF Pending, SlotAt
    <2>2. ASSUME NEW i \in 1 .. Pending - 1
          PROVE  SlotAt(i - 1)' = SlotAt(i)
      BY <1>2, <2>0, <2>1 DEF Pending, SlotAt
    <2>3. ASSUME NEW i \in 1 .. Pending
          PROVE  SlotAt(i - 1) \in Slots
      BY <2>1 DEF Pending, SlotAt
    <2>4. /\ KeySequence = [i \in 1 .. Pending |-> key_queue[SlotAt(i - 1)]]
          /\ KeySequence' = [i \in 1 .. Pending - 1 |-> key_queue'[SlotAt(i - 1)']]
          /\ key_queue' = key_queue
      BY <2>0, <2>1 DEF KeySequence
    <2>5. KeySequence \in Seq(Keys \cup {KeyNone}) /\ Len(KeySequence) = Pending
      BY <2>1, <2>3, <2>4
    <2>6. KeySequence' = Tail(KeySequence)
      <3>1. ASSUME NEW i \in 1 .. Pending - 1
            PROVE  KeySequence'[i] = Tail(KeySequence)[i]
        BY <2>1, <2>2, <2>4, <2>5
      <3>2. /\ KeySequence' = [i \in 1 .. Pending - 1 |-> KeySequence'[i]]
            /\ Tail(KeySequence) = [i \in 1 .. Pending - 1 |-> Tail(KeySequence)[i]]
        BY <2>1, <2>4, <2>5
      <3> QED
        BY <3>1, <3>2, Zenon
    <2>7. Head(KeySequence) = key_queue[key_f] /\ KeySequence # <<>>
      BY <2>1, <2>4, <2>5
    <2> QED
      BY <2>0, <2>6, <2>7 DEF Fifo!Get
  <1> QED
    BY <1>1, <1>2

\* A step that leaves the queue, its array and the emulator alone leaves the
\* abstract queue alone.
LEMMA KeysUntouched ==
  ASSUME UNCHANGED keyVars, alive' = alive
  PROVE  UNCHANGED <<KeySequence, i8042_data_port_base, alive>>
  BY DEF keyVars, KeySequence, Pending, SlotAt

\* A step that aborts the process empties the abstract queue.
LEMMA ProcessStops ==
  ASSUME UNCHANGED <<i8042_data_port_base, state, events>>, ~alive', alive' \in BOOLEAN
  PROVE  Fifo!Stop
  <1>1. KeySequence' = <<>> /\ alive' = FALSE
    BY DEF KeySequence
  <1> QED
    BY <1>1 DEF Fifo!Stop

\* A step of the device loop takes one event: a key of a running guest is put into
\* the queue, one of a guest that is not running is not.
LEMMA PollIsDelivery ==
  ASSUME IInv, alive, PollEvent
  PROVE  Fifo!DeliverKey \/ Fifo!IgnoreKey \/ Fifo!DeliverOther
  <1>1. /\ events # <<>> /\ events' = Tail(events) /\ KeyTypeOK
        /\ PollQuit \/ PollKey \/ PollOther
    BY DEF PollEvent, IInv, TypeOK
  <1>2. CASE PollKey /\ state = "RUNNING"
    <2> DEFINE k == Head(events)
    <2>1. k \in Keys /\ key_enqueue(k) /\ state' = state
      BY <1>2 DEF PollKey, send_key
    <2>2. /\ IF Len(KeySequence) < KEY_QUEUE_LEN - 1
               THEN KeySequence' = Append(KeySequence, k) /\ alive' = alive
               ELSE KeySequence' = <<>> /\ alive' = FALSE
          /\ UNCHANGED i8042_data_port_base
      BY <1>1, <2>1, EnqueueIsPut
    <2>3. Fifo!Takes(k)
      BY <1>1 DEF Fifo!Takes
    <2> HIDE DEF k
    <2>4. Fifo!DeliverKey
      BY <1>2, <2>1, <2>2, <2>3 DEF Fifo!DeliverKey
    <2> QED
      BY <2>4
  <1>3. CASE PollKey /\ state # "RUNNING"
    <2>1. Head(events) \in Keys /\ state' = state /\ UNCHANGED keyVars /\ alive' = alive
      BY <1>3 DEF PollKey, send_key
    <2>2. UNCHANGED <<KeySequence, i8042_data_port_base, alive>>
      BY <2>1, KeysUntouched
    <2>3. Fifo!IgnoreKey
      BY <1>1, <1>3, <2>1, <2>2 DEF Fifo!IgnoreKey, Fifo!Takes
    <2> QED
      BY <2>3
  <1>4. CASE PollQuit \/ PollOther
    <2>1. UNCHANGED keyVars /\ alive' = alive
      BY <1>4 DEF PollQuit, PollOther
    <2>2. UNCHANGED <<KeySequence, i8042_data_port_base, alive>>
      BY <2>1, KeysUntouched
    <2>3. \/ Head(events) = "OTHER" /\ state' = state
          \/ Head(events) = "QUIT" /\ state' = "QUIT"
      BY <1>4 DEF PollQuit, PollOther
    <2>4. Fifo!DeliverOther
      BY <1>1, <2>2, <2>3 DEF Fifo!DeliverOther, Fifo!Takes
    <2> QED
      BY <2>4
  <1> QED
    BY <1>1, <1>2, <1>3, <1>4

\* Any other step that leaves the queue alone starts the guest, pauses it, or adds
\* a window event.
LEMMA KeysLeft ==
  ASSUME IInv, alive, UNCHANGED keyVars, alive' = alive,
         \/ UNCHANGED <<state, events>>
         \/ state' # "RUNNING" /\ UNCHANGED events
         \/ state # "RUNNING" /\ events' \in {events, <<>>}
         \/ UNCHANGED state /\ \E e \in Keys \cup {"QUIT", "OTHER"} : events' = Append(events, e)
  PROVE  [Fifo!Next]_(Fifo!vars)
  <1>1. UNCHANGED <<KeySequence, i8042_data_port_base, alive>>
    BY KeysUntouched
  <1>2. CASE UNCHANGED <<state, events>>
    BY <1>1, <1>2 DEF Fifo!vars
  <1>3. CASE state' # "RUNNING" /\ UNCHANGED events
    <2>1. Fifo!Pause
      BY <1>1, <1>3 DEF Fifo!Pause
    <2> QED
      BY <2>1 DEF Fifo!Next
  <1>4. CASE state # "RUNNING" /\ events' \in {events, <<>>}
    <2>1. Fifo!Start
      BY <1>1, <1>4 DEF Fifo!Start
    <2> QED
      BY <2>1 DEF Fifo!Next
  <1>5. CASE UNCHANGED state /\ \E e \in Keys \cup {"QUIT", "OTHER"} : events' = Append(events, e)
    <2>1. Fifo!Arrive
      BY <1>1, <1>5 DEF Fifo!Arrive
    <2> QED
      BY <2>1 DEF Fifo!Next
  <1> QED
    BY <1>2, <1>3, <1>4, <1>5

\* The guest receives the keys polled while it runs in order, none lost and none
\* twice, and no other, for every length of the queue.
THEOREM KeysInOrderHolds == Spec => KeysInOrder
  <1>1. Init => Fifo!Init
    BY KeyQueueAssumption
       DEF Init, StateInit, init_i8042, Fifo!Init, KeySequence, Pending, SlotAt, Slots
  <1>2. IInv /\ [Next]_vars => [Fifo!Next]_(Fifo!vars)
    <2> SUFFICES ASSUME IInv, [Next]_vars PROVE [Fifo!Next]_(Fifo!vars)
      OBVIOUS
    <2>1. KeyTypeOK /\ StateTypeOK /\ StateTypeOK' /\ StateAt
      BY NextType DEF IInv, TypeOK, Safe
    <2>2. CASE UNCHANGED vars
      <3>1. UNCHANGED <<keyVars, alive, state, events>>
        BY <2>2 DEF vars, stateVars, runVars
      <3>2. UNCHANGED <<KeySequence, i8042_data_port_base, alive>>
        BY <3>1, KeysUntouched
      <3> QED
        BY <3>1, <3>2 DEF Fifo!vars
    <2>3. CASE alive /\ ExecReadKey
      <3>1. key_dequeue /\ alive' = alive /\ UNCHANGED <<state, events>>
        BY <2>3 DEF ExecReadKey, Excused, StartInst, stateVars
      <3> QED
        BY <2>1, <2>3, <3>1, DequeueIsGet DEF Fifo!Next
    <2>4. CASE alive /\ ExecOutOfBound
      <3>1. Fifo!Stop
        BY <2>1, <2>4, ProcessStops DEF ExecOutOfBound, StartInst, keyVars, StateTypeOK
      <3> QED
        BY <2>4, <3>1 DEF Fifo!Next
    <2>5. CASE alive /\ trace_and_difftest
      <3>1. UNCHANGED <<keyVars, events>> /\ state' \in {state, "ABORT"}
        BY <2>5 DEF trace_and_difftest, difftest_step, CaughtUp, StillBehind, CopyToRef, StepAndCompare, checkregs
      <3>2. CASE alive'
        <4>1. alive' = alive
          BY <2>1, <2>5, <3>2, Zenon DEF StateTypeOK
        <4> QED
          BY <2>5, <3>1, <4>1, KeysLeft
      <3>3. CASE ~alive'
        <4>1. state' = state
          BY <2>1, <2>5, <3>3
             DEF trace_and_difftest, difftest_step, CaughtUp, StillBehind, CopyToRef, StepAndCompare, StateTypeOK
        <4>2. Fifo!Stop
          BY <2>1, <3>1, <3>3, <4>1, ProcessStops DEF keyVars, StateTypeOK
        <4> QED
          BY <2>5, <4>2 DEF Fifo!Next
      <3> QED
        BY <3>2, <3>3
    <2>6. CASE alive /\ PollEvent
      BY <2>6, PollIsDelivery DEF Fifo!Next
    <2>7. CASE alive /\ (cmd_c \/ cmd_q \/ cmd_other)
      <3>1. UNCHANGED keyVars /\ alive' = alive /\ events' \in {events, <<>>} /\ state # "RUNNING"
        BY <2>1, <2>7 DEF cmd_c, cmd_q, cmd_other, ClearEvents, StateAt, stateVars
      <3> QED
        BY <2>7, <3>1, KeysLeft
    <2>8. CASE Environment
      <3>1. /\ UNCHANGED keyVars /\ alive /\ alive' = alive /\ UNCHANGED state
            /\ UNCHANGED events \/ \E e \in Keys \cup {"QUIT", "OTHER"} : events' = Append(events, e)
        BY <2>8 DEF Environment, WindowEvent, Tick, stateVars
      <3> QED
        BY <3>1, KeysLeft
    <2>9. ASSUME alive,
                 \/ \E bad \in BOOLEAN : ExecPlain(bad)
                 \/ \E pack \in 2 .. MaxPack : \E nr_dut \in pack .. MaxPack : ExecPacked(pack, nr_dut)
                 \/ ExecMmio
                 \/ \E code \in Codes : ExecTrap(code)
                 \/ invalid_inst
                 \/ DeviceUpdate \/ PollDone \/ BudgetSpent \/ LeaveRun
          PROVE  [Fifo!Next]_(Fifo!vars)
      <3>1. UNCHANGED <<keyVars, events>> /\ alive' = alive /\ (state' = state \/ state' # "RUNNING")
        BY <2>9 DEF ExecPlain, ExecPacked, ExecMmio, ExecTrap, invalid_inst, set_nemu_state, Excused, StartInst,
             DeviceUpdate, PollDone, BudgetSpent, LeaveRun, stateVars
      <3>2. alive /\ UNCHANGED keyVars /\ UNCHANGED events /\ alive' = alive
        BY <2>9, <3>1
      <3> QED
        BY <3>1, <3>2, KeysLeft, Zenon
    <2>10. Next => Emulator \/ Command \/ Environment
      BY DEF Next
    <2>11. ASSUME Emulator PROVE [Fifo!Next]_(Fifo!vars)
      BY <2>3, <2>4, <2>5, <2>6, <2>9, <2>11, Zenon DEF Emulator, exec_once
    <2> QED
      BY <2>2, <2>7, <2>8, <2>10, <2>11, Zenon DEF Command
  <1> QED
    BY <1>1, <1>2, Invariance, PTL DEF Spec, KeysInOrder, Fifo!Spec

=============================================================================
