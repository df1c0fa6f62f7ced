------------------------------ MODULE NemuRun -------------------------------
(***************************************************************************)
(* How NEMU runs a guest: the command loop of the debugger (sdb.c), the    *)
(* execution loop (cpu-exec.c), the instructions that end a run            *)
(* (hostcall.c), DiffTest after each instruction, and the device loop      *)
(* (device.c) that turns host window events into a quit request or key     *)
(* events.                                                                 *)
(*                                                                         *)
(* The emulator is one thread: `loc` is where it stands, and one step of   *)
(* it is what happens between two places where a window event or the       *)
(* passing of time can make a difference.  The other actors are the user   *)
(* (commands and window events) and the host's clock.                      *)
(***************************************************************************)
EXTENDS DiffTest, KeyQueue

CONSTANTS
  Budgets,   \* what the argument (uint64_t)-1 of cpu_exec may amount to: -1,
             \* never used up, or the largest word of a scaled-down width
  MaxEvents  \* bound: window events the user causes in a behaviour

ASSUME NemuRunAssumption ==
  /\ Budgets \subseteq Nat \cup {-1}
  /\ MaxEvents \in Nat

VARIABLES
  loc,       \* where the emulator stands
  batch,     \* is_batch_mode
  n,         \* instructions cpu_exec may still run; -1 is no limit
  events,    \* SDL's queue of window events
  posted,    \* number of events the user has caused
  due,       \* 1/TIMER_HZ s have passed since device_update last polled
  \* history, read by the properties only:
  verdict,   \* what the guest's last trap or invalid instruction decided
  wrong,     \* an instruction that DiffTest was to compare went wrong
  overrun    \* instructions started after the window was closed

runVars == <<loc, batch, n, events, posted, due>>
history == <<verdict, wrong, overrun>>
vars == <<stateVars, diffVars, keyVars, runVars, history>>

Locs == {"prompt",   \* sdb_mainloop waits for a command
         "exec",     \* execute: head of the loop
         "check",    \* after exec_once: trace_and_difftest is next
         "update",   \* device_update is next
         "poll",     \* inside device_update's SDL_PollEvent loop
         "leave",    \* execute has returned to cpu_exec
         "exit"}     \* engine_start has returned

InRun == {"exec", "check", "update", "poll", "leave"}

NoVerdict == <<"none", 0>>

TypeOK ==
  /\ StateTypeOK /\ DiffTypeOK /\ KeyTypeOK
  /\ loc \in Locs
  /\ batch \in BOOLEAN
  /\ n \in Nat \cup {-1}
  /\ events \in Seq(Keys \cup {"QUIT", "OTHER"})
  /\ posted \in 0 .. MaxEvents
  /\ due \in BOOLEAN
  /\ verdict \in {NoVerdict, <<"ABORT", -1>>} \cup ({"END"} \X Codes)
  /\ wrong \in BOOLEAN
  /\ overrun \in Nat

\* init_monitor has run.  In batch mode the command loop runs `c` and returns.
Init ==
  /\ StateInit /\ init_difftest /\ init_i8042
  /\ loc = "prompt"
  /\ batch \in BOOLEAN
  /\ n = 0
  /\ events = <<>>
  /\ posted = 0
  /\ due = TRUE
  /\ verdict = NoVerdict
  /\ wrong = FALSE
  /\ overrun = 0

-----------------------------------------------------------------------------
(* sdb_mainloop                                                            *)

\* sdl_clear_event_queue, which batch mode does not reach.
ClearEvents == events' = IF batch THEN events ELSE <<>>

\* Mutant: a closed window does not keep `c` from running the guest again.
cmd_c_forgets_quit ==
  /\ loc = "prompt"
  /\ ClearEvents
  /\ IF state \in {"END", "ABORT"}
       THEN UNCHANGED <<loc, state, n>>
       ELSE /\ loc' = "exec"
            /\ state' = "RUNNING"
            /\ n' \in Budgets
  /\ UNCHANGED <<halt_ret, alive, diffVars, keyVars, batch, posted, due, history>>

\* cpu_exec up to its call of execute.
cmd_c ==
  /\ loc = "prompt"
  /\ ClearEvents
  /\ IF state \in Ended
       THEN UNCHANGED <<loc, state, n>>     \* "Program execution has ended."
       ELSE /\ loc' = "exec"
            /\ state' = "RUNNING"
            /\ n' \in Budgets
  /\ UNCHANGED <<halt_ret, alive, diffVars, keyVars, batch, posted, due, history>>

\* `q`, and the end of the input, which leaves the events alone.
cmd_q ==
  /\ loc = "prompt" /\ ~batch
  /\ loc' = "exit"
  /\ events' \in {events, <<>>}
  /\ UNCHANGED <<stateVars, diffVars, keyVars, batch, n, posted, due, history>>

\* `help` and unknown commands.
cmd_other ==
  /\ loc = "prompt" /\ ~batch
  /\ ClearEvents
  /\ UNCHANGED <<stateVars, diffVars, keyVars, loc, batch, n, posted, due, history>>

-----------------------------------------------------------------------------
(* execute: exec_once.  One action per kind of instruction.                *)

StartInst ==
  /\ loc = "exec" /\ n # 0
  /\ loc' = "check"
  /\ overrun' = IF state = "QUIT" THEN overrun + 1 ELSE overrun
  /\ UNCHANGED <<batch, n, events, posted, due>>

\* An instruction REF executes too; `bad` when NEMU gets its result wrong.
ExecPlain(bad) ==
  /\ StartInst
  /\ lead' = IF CONFIG_DIFFTEST THEN lead - 1 ELSE lead
  /\ agree' = (agree /\ ~bad)
  /\ wrong' = (wrong \/ (bad /\ skip_dut_nr_inst = 0))
  /\ UNCHANGED <<stateVars, keyVars, is_skip_ref, skip_dut_nr_inst, verdict>>

\* The first of `pack` instructions that REF executes in one step; the ISA
\* expects to catch up within nr_dut of its own.
ExecPacked(pack, nr_dut) ==
  /\ CONFIG_DIFFTEST
  /\ skip_dut_nr_inst = 0
  /\ StartInst
  /\ difftest_skip_dut(pack, nr_dut)
  /\ UNCHANGED <<stateVars, keyVars, agree, verdict, wrong>>

\* An instruction REF cannot reproduce: its registers may come out
\* different, so the DUT asks for it to be skipped.
Excused ==
  /\ StartInst
  /\ difftest_skip_ref
  /\ lead' = IF CONFIG_DIFFTEST THEN lead - 1 ELSE lead
  /\ agree' \in IF CONFIG_DIFFTEST THEN BOOLEAN ELSE {agree}
  /\ UNCHANGED wrong

\* A device access other than a read of the keyboard's port.
ExecMmio ==
  /\ Excused
  /\ UNCHANGED <<stateVars, keyVars, verdict>>

ExecReadKey ==
  /\ Excused
  /\ key_dequeue
  /\ UNCHANGED <<stateVars, verdict>>

set_nemu_state(st, ret) ==
  /\ Excused
  /\ state' = st
  /\ halt_ret' = ret
  /\ verdict' = <<st, ret>>
  /\ UNCHANGED <<alive, keyVars>>

ExecTrap(code) == set_nemu_state("END", code)

invalid_inst == set_nemu_state("ABORT", -1)

\* paddr_read and paddr_write panic outside memory and devices.
ExecOutOfBound ==
  /\ StartInst
  /\ alive' = FALSE
  /\ UNCHANGED <<state, halt_ret, diffVars, keyVars, verdict, wrong>>

exec_once ==
  \/ \E bad \in BOOLEAN : ExecPlain(bad)
  \/ \E pack \in 2 .. MaxPack : \E nr_dut \in pack .. MaxPack : ExecPacked(pack, nr_dut)
  \/ ExecMmio
  \/ ExecReadKey
  \/ \E code \in Codes : ExecTrap(code)
  \/ invalid_inst
  \/ ExecOutOfBound

-----------------------------------------------------------------------------
(* execute: after the instruction.                                         *)

\* Mutant: the loop is left for a trap or an abort only.
trace_and_difftest_misses_quit ==
  /\ loc = "check"
  /\ difftest_step
  /\ loc' = IF state' \in {"END", "ABORT"} THEN "leave" ELSE "update"
  /\ UNCHANGED <<keyVars, batch, n, events, posted, due, history>>

trace_and_difftest ==
  /\ loc = "check"
  /\ difftest_step
  /\ loc' = IF state' = "RUNNING" THEN "update" ELSE "leave"
  /\ UNCHANGED <<keyVars, batch, n, events, posted, due, history>>

\* Mutant: n is signed, and counts on below zero.
CountDown_signed == n' = n - 1

\* The loop's n --.
CountDown == n' = IF n > 0 THEN n - 1 ELSE n

\* device_update returns at once, or goes on to its poll loop.
DeviceUpdate ==
  /\ loc = "update"
  /\ IF due
       THEN loc' = "poll" /\ due' = FALSE /\ UNCHANGED n
       ELSE loc' = "exec" /\ CountDown /\ UNCHANGED due
  /\ UNCHANGED <<stateVars, diffVars, keyVars, batch, events, posted, history>>

\* Mutant: the event is taken from the queue and ignored.
PollQuit_ignored ==
  /\ Head(events) = "QUIT"
  /\ UNCHANGED <<state, alive, keyVars>>

PollQuit ==
  /\ Head(events) = "QUIT"
  /\ state' = "QUIT"
  /\ UNCHANGED <<alive, keyVars>>

PollKey ==
  /\ Head(events) \in Keys
  /\ send_key(Head(events))
  /\ UNCHANGED state

\* An event of another type, or a key that keymap does not know.
PollOther ==
  /\ Head(events) = "OTHER"
  /\ UNCHANGED <<state, alive, keyVars>>

PollEvent ==
  /\ loc = "poll" /\ events # <<>>
  /\ PollQuit \/ PollKey \/ PollOther
  /\ events' = Tail(events)
  /\ UNCHANGED <<halt_ret, diffVars, loc, batch, n, posted, due, history>>

PollDone ==
  /\ loc = "poll" /\ events = <<>>
  /\ loc' = "exec"
  /\ CountDown
  /\ UNCHANGED <<stateVars, diffVars, keyVars, batch, events, posted, due, history>>

\* The loop ends when n is used up; cpu_exec's last switch.
BudgetSpent ==
  /\ loc = "exec" /\ n = 0
  /\ loc' = "leave"
  /\ UNCHANGED <<stateVars, diffVars, keyVars, batch, n, events, posted, due, history>>

LeaveRun ==
  /\ loc = "leave"
  /\ state' = IF state = "RUNNING" THEN "STOP" ELSE state
  /\ loc' = IF batch THEN "exit" ELSE "prompt"
  /\ UNCHANGED <<halt_ret, alive, diffVars, keyVars, batch, n, events, posted, due, history>>

-----------------------------------------------------------------------------
(* The user's window and the clock.                                        *)

WindowEvent(e) ==
  /\ posted < MaxEvents
  /\ loc # "exit"
  /\ events' = Append(events, e)
  /\ posted' = posted + 1
  /\ UNCHANGED <<stateVars, diffVars, keyVars, loc, batch, n, due, history>>

Tick ==
  /\ ~due
  /\ due' = TRUE
  /\ UNCHANGED <<stateVars, diffVars, keyVars, loc, batch, n, events, posted, history>>

Emulator ==
  /\ alive
  /\ \/ exec_once
     \/ trace_and_difftest
     \/ DeviceUpdate
     \/ PollEvent
     \/ PollDone
     \/ BudgetSpent
     \/ LeaveRun

Command == alive /\ (cmd_c \/ cmd_q \/ cmd_other)

Environment ==
  /\ alive
  /\ \/ \E e \in Keys \cup {"QUIT", "OTHER"} : WindowEvent(e)
     \/ Tick

Next == Emulator \/ Command \/ Environment

\* The host keeps running the emulator's thread, and its clock advances.
Fairness == WF_vars(Emulator) /\ WF_vars(alive /\ Tick)

Spec == Init /\ [][Next]_vars /\ Fairness

-----------------------------------------------------------------------------
(* Properties                                                              *)

\* Between two instructions REF is exactly where the DUT is, or ahead of it by
\* no more than the instructions the DUT may still take to catch up; outside
\* such a pack the registers agree; and no request to skip an instruction is
\* left over for one that did not ask for it (dut.c: difftest_step).
LockStep ==
  CONFIG_DIFFTEST /\ alive /\ loc # "check" /\ state # "ABORT"
    => /\ ~is_skip_ref
       /\ IF skip_dut_nr_inst = 0 THEN lead = 0 /\ agree
                                  ELSE lead \in 1 .. skip_dut_nr_inst

\* DiffTest raises no false alarm: it never panics over a pack whose length the
\* ISA announced, and with a written comparison it stops the guest only when
\* the registers differ, never because REF stands at another instruction.
NoFalseAlarm ==
  [][loc = "check"
       => alive' = alive /\ (HookWritten /\ state' # state => ~agree)]_vars

\* What a trap or an invalid instruction decided is what the emulator reports,
\* whatever DiffTest makes of that instruction and whichever window events or
\* commands follow (hostcall.c calls difftest_skip_ref for this).
VerdictKept == verdict # NoVerdict => <<state, halt_ret>> = verdict

\* An instruction that went wrong outside a pack stops the run at once, and the
\* process cannot exit with a good status any more.
WrongNeverPasses ==
  CONFIG_DIFFTEST /\ alive /\ wrong /\ loc # "check"
    => state = "ABORT" /\ ~GoodExit

\* Closing the window stops the guest after at most one more instruction: the
\* execution loop tests the state only after an instruction (cpu-exec.c:80).
QuitIsPrompt == overrun <= 1

\* "Program execution has ended": an ended guest never runs again and its
\* result never changes, whatever commands and events follow.
EndedForGood ==
  [][(loc \in {"prompt", "exit"} /\ state \in Ended)
       => /\ state' = state /\ halt_ret' = halt_ret
          /\ loc' \in {"prompt", "exit"}]_vars

Fifo == INSTANCE KeyFifo WITH
          events <- events, listening <- state = "RUNNING",
          fifo <- KeySequence, data <- i8042_data_port_base, up <- alive,
          Capacity <- KEY_QUEUE_LEN - 1, Quit <- "QUIT", OtherEvents <- {"OTHER"}

\* Every key event polled while the guest runs is read by it, each once and in
\* order, or still in the queue, or stops the emulator because the queue is full;
\* none polled after the window was closed, or before a run, ever reaches it.
KeysInOrder == Fifo!Spec

\* A request to close the window that arrives during a run ends the run, even
\* when the guest never would.
QuitServed ==
  (alive /\ loc \in InRun /\ \E i \in 1 .. Len(events) : events[i] = "QUIT")
    ~> (~alive \/ loc \notin InRun)

-----------------------------------------------------------------------------
(* The inductive invariant behind the safety properties.                   *)

\* Which states the emulator can be in at each place of its loop.
StateAt ==
  /\ loc = "exec" => state \in {"RUNNING", "QUIT"}
  /\ loc = "check" => state # "STOP"
  /\ loc = "update" => state = "RUNNING"
  /\ loc = "poll" => state \in {"RUNNING", "QUIT"}
  /\ loc = "leave" => state # "STOP"
  /\ loc \in {"prompt", "exit"} => state # "RUNNING"

\* After an instruction and before DiffTest looks at it.
AtCheck ==
  CONFIG_DIFFTEST /\ alive /\ loc = "check"
    => \/ is_skip_ref /\ skip_dut_nr_inst = 0 /\ ~wrong
       \/ /\ ~is_skip_ref /\ state \in {"RUNNING", "QUIT"}
          /\ \/ skip_dut_nr_inst = 0 /\ lead = -1 /\ (wrong => ~agree)
             \/ lead \in 0 .. skip_dut_nr_inst - 1 /\ ~wrong

\* An instruction started after the window was closed was the last one.
LastInst ==
  overrun # 0 => overrun = 1 /\ state \in Ended /\ loc \in {"check", "leave", "prompt", "exit"}

IInv ==
  /\ TypeOK /\ StateAt /\ LockStep /\ AtCheck
  /\ VerdictKept /\ WrongNeverPasses /\ LastInst
=============================================================================
