----------------------------- MODULE NativeCte ------------------------------
(***************************************************************************)
(* Contexts, signals and processors of the `native` AbstractMachine        *)
(* (abstract-machine/am/src/native/cte.c and mpe.c, with __am_switch of    *)
(* vme.c as one step; NativeVme takes it apart).                           *)
(*                                                                         *)
(* A CPU is a host process.  A trap is a host signal: its handler saves    *)
(* the interrupted context on a kernel stack and arranges for irq_handle   *)
(* to run there; irq_handle calls the kernel's user_handler, which returns *)
(* the context to run next, switches the address space, and makes the      *)
(* magic call that raises the signal whose handler restores that context.  *)
(* Everything is kept in memory that all CPUs share, but thiscpu is the    *)
(* CPU's own.                                                              *)
(*                                                                         *)
(* The kernel on top is external.  It takes the contexts it is given and   *)
(* hands out any of them that no other CPU holds; a CPU holds the task it  *)
(* runs and, until its next trap, the one it left, on whose stack it still *)
(* is.  It returns from user_handler with interrupts disabled.             *)
(***************************************************************************)
EXTENDS Integers, Sequences, FiniteSets

CONSTANTS
  Cpus, Cpu0,      \* the processes, and the first of them
  Users, Kernels,  \* tasks made by ucontext and by kcontext; each CPU's main() is one too
  Null,            \* no address space, no task
  MaxNest          \* bound: traps being handled at a time on one task's stack

ASSUME NativeCteAssumption ==
  /\ Cpu0 \in Cpus /\ IsFiniteSet(Cpus)
  /\ Users \cap Kernels = {} /\ (Users \cup Kernels) \cap Cpus = {}
  /\ Null \notin Users \cup Kernels \cup Cpus
  /\ MaxNest \in Nat \ {0}

Tasks == Users \cup Kernels \cup Cpus

VARIABLES
  plus,         \* '+' bytes in the pipe of mpe_init
  released,     \* how many of them the first CPU wrote
  entered,      \* the CPUs inside the kernel's entry()
  exec,         \* what each CPU executes: its registers and signal mask
  ev, ksp, vm_head,    \* thiscpu->ev.event, thiscpu->ksp, thiscpu->vm_head
  stack,        \* the contexts on each task's kernel stack, outermost first
  ptr,          \* the kernel's pointer to the context of each task: a stack and a place in it, 0 when it runs
  held          \* the tasks each CPU holds: the one it runs and the one it left

mpeVars == <<plus, released, entered>>
cpuVars == <<exec, ev, ksp, vm_head>>
vars == <<mpeVars, cpuVars, stack, ptr, held>>

Interrupts == {"IRQ_TIMER", "IRQ_IODEV"}
Events == Interrupts \cup {"NULL", "ERROR", "YIELD", "SYSCALL", "PAGEFAULT"}

(* task: whose code; place: user code, the kernel (the AM binary with it) or *)
(* a shared library under it; masked: interrupts disabled; hand: how many    *)
(* traps of the task are being handled under this code; stk: the kernel      *)
(* stack it is on; stage: where it is in irq_handle, "run" outside of it or  *)
(* inside user_handler; event: what that irq_handle is for; chosen: the      *)
(* context user_handler returned.                                            *)
Exec(t, place, masked) ==
  [task |-> t, place |-> place, masked |-> masked, hand |-> 0,
   stk |-> IF place = "user" THEN Null ELSE t,
   stage |-> "run", event |-> "NULL", chosen |-> Null]

ExecType ==
  [task : Tasks, place : {"user", "kernel", "library"}, masked : BOOLEAN,
   hand : 0 .. MaxNest, stk : Tasks \cup {Null},
   stage : {"run", "entered", "chosen", "switched"}, event : Events, chosen : Tasks \cup {Null}]

Context(e, head, sp) == [exec |-> e, vm_head |-> head, ksp |-> sp]
ContextType == [exec : ExecType, vm_head : Users \cup {Null}, ksp : Tasks \cup {Null}]

CteTypeOK ==
  /\ plus \in 0 .. Cardinality(Cpus) - 1 /\ released \in 0 .. Cardinality(Cpus) - 1
  /\ entered \subseteq Cpus
  /\ exec \in [Cpus -> ExecType]
  /\ ev \in [Cpus -> Events]
  /\ ksp \in [Cpus -> Tasks \cup {Null}]
  /\ vm_head \in [Cpus -> Users \cup {Null}]
  /\ \A t \in Tasks :
       /\ Len(stack[t]) <= MaxNest
       /\ \A i \in 1 .. Len(stack[t]) : stack[t][i] \in ContextType
       /\ ptr[t] \in Tasks \X (0 .. MaxNest)
  /\ held \in [Cpus -> SUBSET Tasks]

\* Mutant: the signal mask of the template, where interrupts are disabled, is kept.
ucontext_masked(t) == Context(Exec(t, "user", TRUE), t, t)

\* A user task's kernel stack is its own, and empty when it runs in user space.
ucontext(t) == Context(Exec(t, "user", FALSE), t, t)

\* The kernel stack pointer of a kernel task is never set; nothing reads it.
kcontext(t) == Context(Exec(t, "kernel", FALSE), Null, Null)

\* The first CPU is in mpe_init and the others are forked; interrupts are disabled.
CteInit ==
  /\ plus = 0 /\ released = 0 /\ entered = {}
  /\ exec = [cpu \in Cpus |-> Exec(cpu, "kernel", TRUE)]
  /\ ev = [cpu \in Cpus |-> "ERROR"]
  /\ ksp = [cpu \in Cpus |-> Null]
  /\ vm_head = [cpu \in Cpus |-> Null]
  /\ stack = [t \in Tasks |-> IF t \in Users THEN <<ucontext(t)>>
                              ELSE IF t \in Kernels THEN <<kcontext(t)>> ELSE <<>>]
  /\ ptr = [t \in Tasks |-> <<t, IF t \in Cpus THEN 0 ELSE 1>>]
  /\ held = [cpu \in Cpus |-> {cpu}]

(* Start of the processors: mpe_init.                                       *)

\* Mutant: the loop starts at CPU 2.
WritePlus_one_short ==
  /\ Cpu0 \notin entered /\ released < Cardinality(Cpus) - 1
  /\ plus' = IF released = 0 THEN 0 ELSE plus + 1
  /\ released' = released + 1
  /\ UNCHANGED <<entered, cpuVars, stack, ptr, held>>

\* Mutant: the loop starts at CPU 0.
WritePlus_one_more ==
  /\ Cpu0 \notin entered /\ released < Cardinality(Cpus) - 1
  /\ plus' = IF released = 0 THEN 2 ELSE plus + 1
  /\ released' = released + 1
  /\ UNCHANGED <<entered, cpuVars, stack, ptr, held>>

WritePlus ==
  /\ Cpu0 \notin entered /\ released < Cardinality(Cpus) - 1
  /\ plus' = plus + 1
  /\ released' = released + 1
  /\ UNCHANGED <<entered, cpuVars, stack, ptr, held>>

EnterFirst ==
  /\ Cpu0 \notin entered /\ released = Cardinality(Cpus) - 1
  /\ entered' = entered \cup {Cpu0}
  /\ UNCHANGED <<plus, released, cpuVars, stack, ptr, held>>

ReadPlus(cpu) ==
  /\ cpu # Cpu0 /\ cpu \notin entered /\ plus > 0
  /\ plus' = plus - 1
  /\ entered' = entered \cup {cpu}
  /\ UNCHANGED <<released, cpuVars, stack, ptr, held>>

mpe_init == WritePlus \/ EnterFirst \/ \E cpu \in Cpus : ReadPlus(cpu)

(* Traps.                                                                   *)

\* __am_in_userspace, of the program counter.
trap_from_user(cpu) == exec[cpu].place = "user"

\* The kernel stack a context is saved on, and the contexts that stay below it.
KernelStack(cpu) == IF trap_from_user(cpu) THEN ksp[cpu] ELSE exec[cpu].stk
Below(cpu) == IF trap_from_user(cpu) THEN <<>> ELSE stack[exec[cpu].stk]

\* Mutant: every trap starts at the top of the kernel stack.
setup_stack_at_top(cpu, event) ==
  LET s == IF ksp[cpu] = Null THEN exec[cpu].stk ELSE ksp[cpu] IN
  /\ stack' = [stack EXCEPT ![s] = <<Context(exec[cpu], Null, Null)>>]
  /\ exec' = [exec EXCEPT ![cpu] = [task |-> @.task, place |-> "kernel", masked |-> TRUE, hand |-> @.hand + 1,
                                    stk |-> s, stage |-> "entered", event |-> event, chosen |-> Null]]

\* Mutant: the mask of the interrupted code stays.
setup_stack_unmasked(cpu, event) ==
  LET s == KernelStack(cpu) IN
  /\ stack' = [stack EXCEPT ![s] = Append(Below(cpu), Context(exec[cpu], Null, Null))]
  /\ exec' = [exec EXCEPT ![cpu] = [task |-> @.task, place |-> "kernel", masked |-> @.masked, hand |-> @.hand + 1,
                                    stk |-> s, stage |-> "entered", event |-> event, chosen |-> Null]]

\* The context is saved and irq_handle entered below it, with interrupts disabled.
\* Its vm_head and ksp are filled in by irq_handle.
setup_stack(cpu, event) ==
  LET s == KernelStack(cpu) IN
  /\ stack' = [stack EXCEPT ![s] = Append(Below(cpu), Context(exec[cpu], Null, Null))]
  /\ exec' = [exec EXCEPT ![cpu] = [task |-> @.task, place |-> "kernel", masked |-> TRUE, hand |-> @.hand + 1,
                                    stk |-> s, stage |-> "entered", event |-> event, chosen |-> Null]]

\* sig_handler overwrites thiscpu->ev first; an interrupt of a shared library is
\* then forgotten.
sig_handler(cpu, event) ==
  /\ exec[cpu].hand < MaxNest
  /\ ev' = [ev EXCEPT ![cpu] = event]
  /\ IF event \in Interrupts /\ exec[cpu].place = "library"
       THEN UNCHANGED <<exec, stack>>
       ELSE setup_stack(cpu, event)
  /\ UNCHANGED <<mpeVars, ksp, vm_head, ptr, held>>

\* The host delivers what is not blocked: the ticks of the CPU's virtual timer,
\* which never stop coming, and the SDL thread's key events, which that thread
\* sends to its own process, the first.
Deliver(cpu, signal) ==
  /\ cpu \in entered
  /\ signal = "IRQ_IODEV" => cpu = Cpu0
  /\ ~exec[cpu].masked
  /\ sig_handler(cpu, signal)

Syscall(cpu) ==
  /\ trap_from_user(cpu)
  /\ sig_handler(cpu, "SYSCALL")

\* A page of the current address space is touched that is not mapped: by the
\* task, or by the kernel for it.
PageFault(cpu) ==
  /\ exec[cpu].stage = "run"
  /\ trap_from_user(cpu) \/ (exec[cpu].place = "kernel" /\ vm_head[cpu] # Null)
  /\ sig_handler(cpu, "PAGEFAULT")

\* The kernel runs: outside of a trap, or in user_handler.
InKernel(cpu) == cpu \in entered /\ exec[cpu].place = "kernel" /\ exec[cpu].stage = "run"

\* Code of a shared library under the kernel, which signals must not re-enter.
CallLibrary(cpu) ==
  /\ InKernel(cpu)
  /\ exec' = [exec EXCEPT ![cpu].place = "library"]
  /\ UNCHANGED <<mpeVars, ev, ksp, vm_head, stack, ptr, held>>

LeaveLibrary(cpu) ==
  /\ exec[cpu].place = "library"
  /\ exec' = [exec EXCEPT ![cpu].place = "kernel"]
  /\ UNCHANGED <<mpeVars, ev, ksp, vm_head, stack, ptr, held>>

\* raise() of the library, with a signal that is not among those blocked.
yield(cpu) ==
  /\ exec[cpu].place = "library"
  /\ sig_handler(cpu, "YIELD")

\* A pending signal is delivered after the system call of sigprocmask, a place
\* the handler takes for safe: here already back in the kernel.
iset(cpu, enable) ==
  /\ InKernel(cpu)
  /\ exec' = [exec EXCEPT ![cpu].masked = ~enable]
  /\ UNCHANGED <<mpeVars, ev, ksp, vm_head, stack, ptr, held>>

\* What thiscpu was when irq_handle began goes into the context just saved, and
\* user_handler is called with thiscpu->ev.  The event is passed by value and no
\* one reads it again, so it is forgotten here.
irq_handle(cpu) ==
  /\ exec[cpu].stage = "entered"
  /\ LET s == exec[cpu].stk IN
     stack' = [stack EXCEPT ![s][Len(stack[s])] = [@ EXCEPT !.vm_head = vm_head[cpu], !.ksp = ksp[cpu]]]
  /\ exec' = [exec EXCEPT ![cpu].stage = "run", ![cpu].event = "NULL"]
  /\ ev' = [ev EXCEPT ![cpu] = "ERROR"]
  /\ UNCHANGED <<mpeVars, ksp, vm_head, ptr, held>>

\* user_handler takes the context of the trap that ends and returns one of a task
\* no other CPU holds; main() of a CPU runs on the process's own stack and stays there.
user_handler(cpu, t) ==
  /\ InKernel(cpu) /\ exec[cpu].hand > 0 /\ exec[cpu].masked
  /\ \A other \in Cpus \ {cpu} : t \notin held[other]
  /\ t \in Cpus => t = cpu
  /\ ptr' = [ptr EXCEPT ![exec[cpu].task] = <<exec[cpu].stk, Len(stack[exec[cpu].stk])>>]
  /\ held' = [held EXCEPT ![cpu] = {exec[cpu].task, t}]
  /\ exec' = [exec EXCEPT ![cpu].stage = "chosen", ![cpu].chosen = t]
  /\ UNCHANGED <<mpeVars, ev, ksp, vm_head, stack>>

Chosen(cpu) == LET p == ptr[exec[cpu].chosen] IN stack[p[1]][p[2]]

am_switch(cpu) ==
  /\ exec[cpu].stage = "chosen"
  /\ vm_head' = [vm_head EXCEPT ![cpu] = Chosen(cpu).vm_head]
  /\ exec' = [exec EXCEPT ![cpu].stage = "switched"]
  /\ UNCHANGED <<mpeVars, ev, ksp, stack, ptr, held>>

\* Mutant: the kernel stack pointer of the task that was left stays.
iret_keeps_ksp(cpu) ==
  /\ exec[cpu].stage = "switched"
  /\ LET p == ptr[exec[cpu].chosen] IN
     /\ exec' = [exec EXCEPT ![cpu] = Chosen(cpu).exec]
     /\ stack' = [stack EXCEPT ![p[1]] = SubSeq(@, 1, p[2] - 1)]
  /\ ptr' = [ptr EXCEPT ![exec[cpu].chosen] = <<@[1], 0>>]
  /\ ev' = [ev EXCEPT ![cpu] = "ERROR"]
  /\ UNCHANGED <<mpeVars, ksp, vm_head, held>>

\* The magic call: sig_handler clears thiscpu->ev, and the context comes back with
\* its signal mask; the stack above it is free.
iret(cpu) ==
  /\ exec[cpu].stage = "switched"
  /\ LET p == ptr[exec[cpu].chosen] IN
     /\ exec' = [exec EXCEPT ![cpu] = Chosen(cpu).exec]
     /\ ksp' = [ksp EXCEPT ![cpu] = Chosen(cpu).ksp]
     /\ stack' = [stack EXCEPT ![p[1]] = SubSeq(@, 1, p[2] - 1)]
  /\ ptr' = [ptr EXCEPT ![exec[cpu].chosen] = <<@[1], 0>>]
  /\ ev' = [ev EXCEPT ![cpu] = "ERROR"]
  /\ UNCHANGED <<mpeVars, vm_head, held>>

CpuStep(cpu) ==
  \/ \E signal \in Interrupts : Deliver(cpu, signal)
  \/ Syscall(cpu) \/ PageFault(cpu)
  \/ CallLibrary(cpu) \/ LeaveLibrary(cpu) \/ yield(cpu)
  \/ \E enable \in BOOLEAN : iset(cpu, enable)
  \/ irq_handle(cpu)
  \/ \E t \in Tasks : user_handler(cpu, t)
  \/ am_switch(cpu) \/ iret(cpu)

CteNext ==
  \/ mpe_init
  \/ \E cpu \in Cpus : CpuStep(cpu)

\* Processes run, and a timer that keeps ticking reaches a CPU that stays unmasked.
CteSpec ==
  /\ CteInit /\ [][CteNext]_vars
  /\ WF_vars(mpe_init)
  /\ \A cpu \in Cpus : WF_vars(Deliver(cpu, "IRQ_TIMER"))

-----------------------------------------------------------------------------
(* Properties                                                              *)

\* user_handler is called with the event its context was saved for, though
\* thiscpu->ev is overwritten by every signal, the dropped ones and the magic call.
EventIsCurrent ==
  \A cpu \in Cpus : exec[cpu].stage = "entered" => ev[cpu] = exec[cpu].event

\* No context is saved over another: the stack of a task holds its own contexts
\* only, one for each trap under way and one more when the task does not run.
OwnStack ==
  /\ \A t \in Tasks : \A i \in 1 .. Len(stack[t]) :
       stack[t][i].exec.task = t /\ stack[t][i].exec.hand = i - 1
  /\ \A cpu \in Cpus :
       /\ exec[cpu].hand = Len(stack[exec[cpu].task])
       /\ exec[cpu].hand > 0 => exec[cpu].stk = exec[cpu].task

\* Whatever a task does and wherever it was moved, its CPU has its address space
\* and, for a user task, its kernel stack.
OwnSpace ==
  \A cpu \in Cpus :
    exec[cpu].stage \in {"entered", "run"} =>
      /\ vm_head[cpu] = IF exec[cpu].task \in Users THEN exec[cpu].task ELSE Null
      /\ exec[cpu].task \in Users => ksp[cpu] = exec[cpu].task

\* A user task that never traps is interrupted by the timer.
Preempted == \A cpu \in Cpus : trap_from_user(cpu) ~> ~trap_from_user(cpu)

\* Every processor enters the kernel: the '+' bytes suffice.
AllCpusEnter == <>(entered = Cpus)
=============================================================================
