--------------------------- MODULE NativeCteProofs ---------------------------
(***************************************************************************)
(* What NativeCte promises, proved for every number of processors and      *)
(* tasks and every depth of nested traps: each task's contexts stay on its *)
(* own kernel stack, its address space and kernel stack pointer go where   *)
(* it goes, and user_handler hears of the trap that was taken.             *)
(*                                                                         *)
(* None of these is inductive by itself: that a context is saved on the    *)
(* stack of its task needs thiscpu->ksp to be that task's, which needs the *)
(* contexts of tasks that do not run to hold the right values, which needs *)
(* the processors to hold different tasks.  CteInv states them together.   *)
(***************************************************************************)
EXTENDS NativeCte, FiniteSetTheorems, SequenceTheorems, TLAPS

-----------------------------------------------------------------------------
(* The inductive invariant                                                 *)

CteTypes ==
  /\ released \in 0 .. Cardinality(Cpus) - 1 /\ plus \in 0 .. released
  /\ entered \subseteq Cpus
  /\ exec \in [Cpus -> ExecType]
  /\ ev \in [Cpus -> Events]
  /\ ksp \in [Cpus -> Tasks \cup {Null}]
  /\ vm_head \in [Cpus -> Users \cup {Null}]
  /\ stack \in [Tasks -> Seq(ContextType)]
  /\ \A t \in Tasks : Len(stack[t]) <= MaxNest
  /\ ptr \in [Tasks -> Tasks \X (0 .. MaxNest)]
  /\ held \in [Cpus -> SUBSET Tasks]

\* The address space of a task; kernel tasks run in none.
Space(t) == IF t \in Users THEN t ELSE Null

\* The context returned by user_handler, and then until the magic call.
Leaving(e) == e.stage \in {"chosen", "switched"}

\* Kernel code runs on the stack of its task, user code below no trap, and the
\* code of irq_handle is the kernel's, in a trap and with interrupts disabled.
ExecInv(e) ==
  /\ e.place # "user" => e.stk = e.task
  /\ e.place = "user" => e.task \in Users /\ e.hand = 0
  /\ e.stage # "run" => e.place = "kernel" /\ e.masked /\ e.hand > 0

ExecsInv ==
  \A cpu \in Cpus : ExecInv(exec[cpu]) /\ exec[cpu].hand = Len(stack[exec[cpu].task])

\* No two processors hold the same task.
HeldInv ==
  /\ \A cpu, other \in Cpus : cpu # other => held[cpu] \cap held[other] = {}
  /\ \A cpu \in Cpus : exec[cpu].task \in held[cpu]
  /\ \A cpu \in Cpus : Leaving(exec[cpu]) => exec[cpu].chosen \in held[cpu]

\* irq_handle has not yet run for the last trap of the task.
Entered(t) == \E cpu \in Cpus : exec[cpu].task = t /\ exec[cpu].stage = "entered"

\* The i-th context of a task, and what irq_handle completes it with.
Saved(ctx, t, i) ==
  /\ ExecInv(ctx.exec) /\ ctx.exec.stage = "run"
  /\ ctx.exec.task = t /\ ctx.exec.hand = i - 1
Complete(ctx, t) == ctx.vm_head = Space(t) /\ (t \in Users => ctx.ksp = t)

StacksInv ==
  \A t \in Tasks : \A i \in 1 .. Len(stack[t]) :
    /\ Saved(stack[t][i], t, i)
    /\ i < Len(stack[t]) \/ ~Entered(t) => Complete(stack[t][i], t)

\* A task that no processor executes.
Parked(t) == \A cpu \in Cpus : exec[cpu].task = t => Leaving(exec[cpu])

ParkedInv ==
  \A t \in Tasks : Parked(t) => stack[t] # <<>> /\ ptr[t] = <<t, Len(stack[t])>>

SpacesInv ==
  /\ OwnSpace
  /\ \A cpu \in Cpus : exec[cpu].stage = "switched" => vm_head[cpu] = Space(exec[cpu].chosen)

CteInv ==
  /\ CteTypes /\ ExecsInv /\ HeldInv /\ StacksInv /\ ParkedInv /\ SpacesInv
  /\ EventIsCurrent

-----------------------------------------------------------------------------
(* Facts the steps share                                                   *)

LEMMA CpusCount == Cardinality(Cpus) \in Nat \ {0}
BY NativeCteAssumption, FS_CardinalityType, FS_EmptySet

\* A stack of contexts with one more, with the last one replaced, without it.
LEMMA StackPushed ==
  ASSUME NEW s \in Seq(ContextType), NEW ctx \in ContextType
  PROVE  /\ Append(s, ctx) \in Seq(ContextType) /\ Len(Append(s, ctx)) = Len(s) + 1
         /\ Append(s, ctx)[Len(s) + 1] = ctx
         /\ \A i \in 1 .. Len(s) : Append(s, ctx)[i] = s[i]
OBVIOUS

LEMMA StackUpdated ==
  ASSUME NEW s \in Seq(ContextType), s # <<>>, NEW ctx \in ContextType
  PROVE  LET u == [s EXCEPT ![Len(s)] = ctx] IN
         /\ u \in Seq(ContextType) /\ Len(u) = Len(s) /\ u[Len(s)] = ctx
         /\ \A i \in 1 .. Len(s) : i # Len(s) => u[i] = s[i]
<1>1. Len(s) \in 1 .. Len(s)
  OBVIOUS
<1> QED
  BY <1>1, ExceptSeq

LEMMA StackPopped ==
  ASSUME NEW s \in Seq(ContextType), s # <<>>
  PROVE  LET u == SubSeq(s, 1, Len(s) - 1) IN
         /\ u \in Seq(ContextType) /\ Len(u) = Len(s) - 1
         /\ \A i \in 1 .. Len(s) - 1 : u[i] = s[i]
<1>1. PICK n \in Nat : n = Len(s) - 1
  OBVIOUS
<1>2. \A i \in 1 .. n : s[i] \in ContextType
  BY <1>1
<1>3. /\ SubSeq(s, 1, n) \in Seq(ContextType)
      /\ Len(SubSeq(s, 1, n)) = IF 1 <= n THEN n - 1 + 1 ELSE 0
      /\ \A i \in 1 .. n - 1 + 1 : SubSeq(s, 1, n)[i] = s[1 + i - 1]
  BY ONLY <1>2, n \in Nat, SubSeqProperties
<1>4. Len(SubSeq(s, 1, n)) = n /\ \A i \in 1 .. n : SubSeq(s, 1, n)[i] = s[i]
  BY ONLY <1>3, n \in Nat
<1> QED
  BY <1>1, <1>3, <1>4

\* What the invariant says of the processor that takes a step.
LEMMA CpuFacts ==
  ASSUME CteInv, NEW cpu \in Cpus
  PROVE  /\ exec[cpu] \in ExecType
         /\ exec[cpu].task \in Tasks /\ exec[cpu].hand \in 0 .. MaxNest
         /\ exec[cpu].masked \in BOOLEAN /\ exec[cpu].event \in Events
         /\ exec[cpu].place \in {"user", "kernel", "library"}
         /\ exec[cpu].stage \in {"run", "entered", "chosen", "switched"}
         /\ exec[cpu].chosen \in Tasks \cup {Null}
         /\ exec[cpu].stk \in Tasks \cup {Null}
         /\ ExecInv(exec[cpu]) /\ exec[cpu].hand = Len(stack[exec[cpu].task])
         /\ exec[cpu].task \in held[cpu]
<1>1. exec[cpu] \in ExecType
  BY DEF CteInv, CteTypes
<1> QED
  BY <1>1 DEF ExecType, CteInv, ExecsInv, HeldInv

\* Different processors execute, and return to, different tasks.
LEMMA Apart ==
  ASSUME CteInv, NEW cpu \in Cpus, NEW other \in Cpus, cpu # other
  PROVE  /\ exec[cpu].task # exec[other].task
         /\ Leaving(exec[cpu]) => exec[cpu].chosen # exec[other].task
BY DEF CteInv, HeldInv

\* The contexts that ucontext and kcontext make.
LEMMA NewContexts ==
  /\ \A t \in Users : /\ ucontext(t) \in ContextType
                       /\ ucontext(t).vm_head = t /\ ucontext(t).ksp = t
                       /\ ucontext(t).exec.task = t /\ ucontext(t).exec.hand = 0
                       /\ ucontext(t).exec.stage = "run" /\ ExecInv(ucontext(t).exec)
  /\ \A t \in Kernels : /\ kcontext(t) \in ContextType /\ kcontext(t).vm_head = Null
                         /\ kcontext(t).exec.task = t /\ kcontext(t).exec.hand = 0
                         /\ kcontext(t).exec.stage = "run" /\ ExecInv(kcontext(t).exec)
<1>1. ASSUME NEW t \in Users
      PROVE  /\ ucontext(t) \in ContextType
             /\ ucontext(t).vm_head = t /\ ucontext(t).ksp = t
             /\ ucontext(t).exec.task = t /\ ucontext(t).exec.hand = 0
             /\ ucontext(t).exec.stage = "run" /\ ExecInv(ucontext(t).exec)
  <2>1. PICK e : e = Exec(t, "user", FALSE)
    OBVIOUS
  <2>2. /\ e \in ExecType /\ ExecInv(e)
        /\ e.task = t /\ e.hand = 0 /\ e.stage = "run"
    BY <2>1, NativeCteAssumption DEF Exec, ExecType, ExecInv, Tasks, Events
  <2>3. ucontext(t) = [exec |-> e, vm_head |-> t, ksp |-> t]
    BY <2>1 DEF ucontext, Context
  <2>4. ucontext(t).exec = e /\ ucontext(t).vm_head = t /\ ucontext(t).ksp = t
    BY ONLY <2>3
  <2>5. ucontext(t) \in ContextType
    BY <2>2, <2>3 DEF ContextType, Tasks
  <2> QED
    BY ONLY <2>2, <2>4, <2>5
<1>2. ASSUME NEW t \in Kernels
      PROVE  /\ kcontext(t) \in ContextType
             /\ kcontext(t).vm_head = Null
             /\ kcontext(t).exec.task = t /\ kcontext(t).exec.hand = 0
             /\ kcontext(t).exec.stage = "run" /\ ExecInv(kcontext(t).exec)
  <2>1. PICK e : e = Exec(t, "kernel", FALSE)
    OBVIOUS
  <2>2. /\ e \in ExecType /\ ExecInv(e)
        /\ e.task = t /\ e.hand = 0 /\ e.stage = "run"
    BY <2>1, NativeCteAssumption DEF Exec, ExecType, ExecInv, Tasks, Events
  <2>3. kcontext(t) = [exec |-> e, vm_head |-> Null, ksp |-> Null]
    BY <2>1 DEF kcontext, Context
  <2>4. kcontext(t).exec = e /\ kcontext(t).vm_head = Null /\ kcontext(t).ksp = Null
    BY ONLY <2>3
  <2>5. kcontext(t) \in ContextType
    BY <2>2, <2>3 DEF ContextType, Tasks
  <2> QED
    BY ONLY <2>2, <2>4, <2>5
<1> QED
  BY ONLY <1>1, <1>2

\* The context that user_handler returned is the last one of a task that does
\* not run, and it is complete.
LEMMA ChosenFacts ==
  ASSUME CteInv, NEW cpu \in Cpus, Leaving(exec[cpu])
  PROVE  LET t == exec[cpu].chosen  n == Len(stack[t]) IN
         /\ t \in Tasks /\ n \in 1 .. MaxNest /\ ptr[t] = <<t, n>>
         /\ Chosen(cpu) = stack[t][n] /\ stack[t][n] \in ContextType
         /\ Saved(stack[t][n], t, n) /\ Complete(stack[t][n], t)
<1> DEFINE t == exec[cpu].chosen
           n == Len(stack[t])
<1>1. t \in held[cpu] /\ held[cpu] \subseteq Tasks
  BY DEF CteInv, HeldInv, CteTypes
<1>2. stack[t] \in Seq(ContextType) /\ Len(stack[t]) <= MaxNest
  BY <1>1 DEF CteInv, CteTypes
<1>3. \A other \in Cpus : exec[other].task = t => other = cpu
  BY <1>1, Apart
<1>4. Parked(t) /\ ~Entered(t)
  BY <1>3 DEF Parked, Entered, Leaving
<1>5. stack[t] # <<>> /\ ptr[t] = <<t, n>>
  BY <1>1, <1>4 DEF CteInv, ParkedInv
<1>6. n \in 1 .. MaxNest /\ stack[t][n] \in ContextType
  BY <1>2, <1>5
<1>7. Chosen(cpu) = stack[t][n]
  BY <1>5 DEF Chosen
<1>8. Saved(stack[t][n], t, n) /\ Complete(stack[t][n], t)
  <2> HIDE DEF t
  <2>1. n \in 1 .. Len(stack[t])
    BY <1>6
  <2> QED
    BY <1>1, <1>4, <2>1 DEF CteInv, StacksInv
<1> QED
  BY <1>1, <1>5, <1>6, <1>7, <1>8

LEMMA InitHolds == CteInit => CteInv
<1> SUFFICES ASSUME CteInit
             PROVE  CteInv
  OBVIOUS
<1> USE NativeCteAssumption DEF CteInit
<1>1. \A cpu \in Cpus : /\ exec[cpu] = Exec(cpu, "kernel", TRUE)
                        /\ exec[cpu] \in ExecType /\ ExecInv(exec[cpu])
                        /\ exec[cpu].task = cpu /\ exec[cpu].hand = 0 /\ exec[cpu].stage = "run"
                        /\ cpu \in Tasks \ (Users \cup Kernels) /\ held[cpu] = {cpu}
  BY DEF Exec, ExecType, ExecInv, Tasks, Events
<1>2. \A t \in Users : stack[t] = <<ucontext(t)>> /\ ptr[t] = <<t, 1>>
  BY DEF Tasks
<1>3. \A t \in Kernels : stack[t] = <<kcontext(t)>> /\ ptr[t] = <<t, 1>> /\ t \notin Users
  BY DEF Tasks
<1>4. \A t \in Cpus : stack[t] = <<>> /\ t \notin Users
  BY DEF Tasks
<1>5. CteTypes
  <2>1. ASSUME NEW t \in Tasks
        PROVE  stack[t] \in Seq(ContextType) /\ Len(stack[t]) <= MaxNest
    <3>1. CASE t \in Users
      <4>1. ucontext(t) \in ContextType /\ stack[t] = <<ucontext(t)>>
        BY <1>2, <3>1, NewContexts
      <4> QED
        BY <4>1
    <3>2. CASE t \in Kernels
      <4>1. kcontext(t) \in ContextType /\ stack[t] = <<kcontext(t)>>
        BY <1>3, <3>2, NewContexts
      <4> QED
        BY <4>1
    <3>3. CASE t \in Cpus
      BY <1>4, <3>3
    <3> QED
      BY <3>1, <3>2, <3>3 DEF Tasks
  <2>2. stack \in [Tasks -> Seq(ContextType)]
    BY <2>1
  <2>4. \A cpu \in Cpus : cpu \in Tasks
    BY DEF Tasks
  <2>3. ptr \in [Tasks -> Tasks \X (0 .. MaxNest)]
    OBVIOUS
  <2> QED
    <3>1. /\ exec \in [Cpus -> ExecType] /\ held \in [Cpus -> SUBSET Tasks]
          /\ ksp \in [Cpus -> Tasks \cup {Null}] /\ vm_head \in [Cpus -> Users \cup {Null}]
          /\ ev \in [Cpus -> Events] /\ entered \subseteq Cpus
      BY <1>1, <2>4 DEF Events
    <3>2. released \in 0 .. Cardinality(Cpus) - 1 /\ plus \in 0 .. released
      BY CpusCount
    <3> QED
      BY ONLY <2>1, <2>2, <2>3, <3>1, <3>2 DEF CteTypes
<1>6. ExecsInv /\ HeldInv
  <2>1. \A cpu \in Cpus : Len(stack[cpu]) = 0
    BY <1>4
  <2> QED
    BY ONLY <1>1, <2>1 DEF ExecsInv, HeldInv, Leaving
<1>7. StacksInv
  <2> SUFFICES ASSUME NEW t \in Tasks, NEW i \in 1 .. Len(stack[t])
               PROVE  Saved(stack[t][i], t, i) /\ Complete(stack[t][i], t)
    BY DEF StacksInv
  <2>1. CASE t \in Users
    <3>1. i = 1 /\ stack[t][i] = ucontext(t)
      BY <1>2, <2>1
    <3> QED
      BY <2>1, <3>1, NewContexts DEF Space, Saved, Complete
  <2>2. CASE t \in Kernels
    <3>1. i = 1 /\ stack[t][i] = kcontext(t) /\ t \notin Users
      BY <1>3, <2>2
    <3> QED
      BY <2>2, <3>1, NewContexts DEF Space, Saved, Complete
  <2>3. CASE t \in Cpus
    BY <1>4, <2>3
  <2> QED
    BY <2>1, <2>2, <2>3 DEF Tasks
<1>8. ParkedInv
  <2>1. \A t \in Cpus : ~Parked(t)
    BY <1>1 DEF Parked, Leaving
  <2>2. ASSUME NEW t \in Users
        PROVE  stack[t] # <<>> /\ ptr[t] = <<t, Len(stack[t])>>
    <3>1. stack[t] = <<ucontext(t)>> /\ ptr[t] = <<t, 1>>
      BY <1>2
    <3> QED
      BY ONLY <3>1
  <2>3. ASSUME NEW t \in Kernels
        PROVE  stack[t] # <<>> /\ ptr[t] = <<t, Len(stack[t])>>
    <3>1. stack[t] = <<kcontext(t)>> /\ ptr[t] = <<t, 1>>
      BY <1>3
    <3> QED
      BY ONLY <3>1
  <2> QED
    BY <2>1, <2>2, <2>3 DEF ParkedInv, Tasks
<1>9. SpacesInv /\ EventIsCurrent
  <2>1. \A cpu \in Cpus : exec[cpu].task = cpu /\ exec[cpu].stage = "run" /\ vm_head[cpu] = Null
    BY <1>1
  <2>2. \A cpu \in Cpus : cpu \notin Users
    BY NativeCteAssumption
  <2> QED
    BY ONLY <2>1, <2>2 DEF SpacesInv, OwnSpace, EventIsCurrent
<1> QED
  BY <1>5, <1>6, <1>7, <1>8, <1>9 DEF CteInv

\* Starting the processors changes no task.
LEMMA StartKeeps == CteInv /\ mpe_init => CteInv'
<1> SUFFICES ASSUME CteInv, mpe_init
             PROVE  CteInv'
  OBVIOUS
<1>1. UNCHANGED <<cpuVars, stack, ptr, held>>
  BY DEF mpe_init, WritePlus, EnterFirst, ReadPlus
<1>2. /\ released' \in 0 .. Cardinality(Cpus) - 1 /\ plus' \in 0 .. released'
      /\ entered' \subseteq Cpus
  BY CpusCount, NativeCteAssumption DEF mpe_init, WritePlus, EnterFirst, ReadPlus, CteInv, CteTypes
<1> QED
  BY <1>1, <1>2 DEF cpuVars, CteInv, CteTypes, ExecsInv, HeldInv, StacksInv, Entered, ParkedInv,
    Parked, SpacesInv, OwnSpace, EventIsCurrent, Chosen

-----------------------------------------------------------------------------
(* Steps between traps                                                     *)

\* A processor that goes on with the same task, outside of irq_handle's own code:
\* CallLibrary, LeaveLibrary and iset.
LEMMA SameTaskKeeps ==
  ASSUME CteInv, NEW cpu \in Cpus, NEW e \in ExecType,
         exec[cpu].stage = "run", e.stage = "run",
         e.task = exec[cpu].task, e.hand = exec[cpu].hand, ExecInv(e),
         exec' = [exec EXCEPT ![cpu] = e],
         UNCHANGED <<mpeVars, ev, ksp, vm_head, stack, ptr, held>>
  PROVE  CteInv'
<1>1. /\ exec' \in [Cpus -> ExecType] /\ exec'[cpu] = e
      /\ \A c \in Cpus : /\ exec'[c].task = exec[c].task /\ exec'[c].hand = exec[c].hand
                         /\ exec'[c].stage = exec[c].stage /\ ExecInv(exec'[c])
      /\ \A c \in Cpus \ {cpu} : exec'[c] = exec[c]
  <2>1. exec \in [Cpus -> ExecType] /\ \A c \in Cpus : ExecInv(exec[c])
    BY DEF CteInv, CteTypes, ExecsInv
  <2> QED
    BY <2>1
<1>2. CteTypes'
  BY <1>1 DEF CteInv, CteTypes, mpeVars
<1>3. ExecsInv' /\ HeldInv'
  BY <1>1 DEF CteInv, ExecsInv, HeldInv, Leaving
<1>4. \A t \in Tasks : Entered(t)' = Entered(t) /\ Parked(t)' = Parked(t)
  BY <1>1 DEF Entered, Parked, Leaving
<1>5. StacksInv' /\ ParkedInv'
  BY <1>4 DEF CteInv, StacksInv, ParkedInv
<1>6. SpacesInv' /\ EventIsCurrent'
  BY <1>1 DEF CteInv, SpacesInv, OwnSpace, EventIsCurrent
<1> QED
  BY <1>2, <1>3, <1>5, <1>6 DEF CteInv

LEMMA LibraryKeeps ==
  ASSUME CteInv, NEW cpu \in Cpus, CallLibrary(cpu) \/ LeaveLibrary(cpu)
  PROVE  CteInv'
<1>1. PICK p \in {"library", "kernel"} :
        /\ exec' = [exec EXCEPT ![cpu].place = p]
        /\ exec[cpu].place # "user" /\ exec[cpu].stage = "run"
        /\ UNCHANGED <<mpeVars, ev, ksp, vm_head, stack, ptr, held>>
  BY CpuFacts DEF CallLibrary, LeaveLibrary, InKernel, ExecInv
<1>2. PICK e : e = [exec[cpu] EXCEPT !.place = p]
  OBVIOUS
<1>3. exec' = [exec EXCEPT ![cpu] = e]
  BY <1>1, <1>2
<1>4. /\ e \in ExecType /\ e.stage = "run" /\ e.task = exec[cpu].task
      /\ e.hand = exec[cpu].hand /\ e.stk = exec[cpu].stk /\ e.place = p
  <2>1. exec[cpu] \in ExecType
    BY CpuFacts
  <2> QED
    BY ONLY p \in {"library", "kernel"}, <1>1, <1>2, <2>1 DEF ExecType
<1>5. ExecInv(e)
  BY <1>1, <1>4, CpuFacts DEF ExecInv
<1> QED
  BY <1>1, <1>3, <1>4, <1>5, SameTaskKeeps

LEMMA IsetKeeps ==
  ASSUME CteInv, NEW cpu \in Cpus, NEW enable \in BOOLEAN, iset(cpu, enable)
  PROVE  CteInv'
<1>1. /\ exec[cpu].place = "kernel" /\ exec[cpu].stage = "run"
      /\ UNCHANGED <<mpeVars, ev, ksp, vm_head, stack, ptr, held>>
  BY DEF iset, InKernel
<1>2. PICK e : e = [exec[cpu] EXCEPT !.masked = ~enable]
  OBVIOUS
<1>3. exec' = [exec EXCEPT ![cpu] = e]
  BY <1>2 DEF iset
<1>4. /\ e \in ExecType /\ e.stage = "run" /\ e.task = exec[cpu].task
      /\ e.hand = exec[cpu].hand /\ e.stk = exec[cpu].stk /\ e.place = exec[cpu].place
  <2>1. exec[cpu] \in ExecType /\ (~enable) \in BOOLEAN
    BY CpuFacts
  <2> QED
    BY ONLY <1>1, <1>2, <2>1 DEF ExecType
<1>5. ExecInv(e)
  BY <1>1, <1>4, CpuFacts DEF ExecInv
<1> QED
  BY <1>1, <1>3, <1>4, <1>5, SameTaskKeeps

-----------------------------------------------------------------------------
(* Traps                                                                   *)

\* The new context goes on the stack of the interrupted task, above the contexts
\* of the traps of that task that are being handled.
LEMMA SavedOnOwnStack ==
  ASSUME CteInv, NEW cpu \in Cpus, exec[cpu].stage = "run"
  PROVE  KernelStack(cpu) = exec[cpu].task /\ Below(cpu) = stack[exec[cpu].task]
<1>1. CASE trap_from_user(cpu)
  <2>1. ksp[cpu] = exec[cpu].task /\ Len(stack[exec[cpu].task]) = 0
    BY <1>1, CpuFacts DEF trap_from_user, ExecInv, CteInv, SpacesInv, OwnSpace
  <2>2. stack[exec[cpu].task] \in Seq(ContextType)
    BY CpuFacts DEF CteInv, CteTypes
  <2> QED
    BY <1>1, <2>1, <2>2 DEF KernelStack, Below
<1>2. CASE ~trap_from_user(cpu)
  BY <1>2, CpuFacts DEF trap_from_user, KernelStack, Below, ExecInv
<1> QED
  BY <1>1, <1>2

LEMMA TrapKeeps ==
  ASSUME CteInv, NEW cpu \in Cpus, NEW event \in Events,
         exec[cpu].stage = "run", exec[cpu].hand < MaxNest,
         setup_stack(cpu, event), ev' = [ev EXCEPT ![cpu] = event],
         UNCHANGED <<mpeVars, ksp, vm_head, ptr, held>>
  PROVE  CteInv'
<1>a. PICK t, n : t = exec[cpu].task /\ n = Len(stack[t])
  OBVIOUS
<1>0. /\ t = exec[cpu].task /\ n = Len(stack[t]) /\ t \in Tasks /\ n \in Nat /\ n < MaxNest /\ n = exec[cpu].hand
      /\ stack[t] \in Seq(ContextType) /\ exec[cpu] \in ExecType
  BY <1>a, CpuFacts, NativeCteAssumption DEF CteInv, CteTypes
<1>1. PICK ctx : ctx = Context(exec[cpu], Null, Null)
  OBVIOUS
<1>2. PICK e : e = [task |-> t, place |-> "kernel", masked |-> TRUE, hand |-> exec[cpu].hand + 1,
                    stk |-> t, stage |-> "entered", event |-> event, chosen |-> Null]
  OBVIOUS
<1>3. exec' = [exec EXCEPT ![cpu] = e] /\ stack' = [stack EXCEPT ![t] = Append(stack[t], ctx)]
  BY <1>0, <1>1, <1>2, SavedOnOwnStack DEF setup_stack
<1>4. ctx \in ContextType /\ ctx.exec = exec[cpu]
  BY <1>0, <1>1 DEF Context, ContextType
<1>5. /\ e \in ExecType /\ ExecInv(e) /\ e.task = t /\ e.hand = n + 1
      /\ e.stage = "entered" /\ e.event = event
  BY <1>0, <1>2, NativeCteAssumption DEF ExecType, ExecInv, Events
<1>6. /\ stack'[t] \in Seq(ContextType) /\ Len(stack'[t]) = n + 1 /\ stack'[t][n + 1] = ctx
      /\ \A i \in 1 .. n : stack'[t][i] = stack[t][i]
      /\ \A x \in Tasks \ {t} : stack'[x] = stack[x]
  <2>1. stack'[t] = Append(stack[t], ctx) /\ \A x \in Tasks \ {t} : stack'[x] = stack[x]
    BY <1>0, <1>3 DEF CteInv, CteTypes
  <2>2. PICK s : s = stack[t]
    OBVIOUS
  <2>3. s \in Seq(ContextType) /\ Len(s) = n
    BY <1>0, <2>2
  <2>4. /\ Append(s, ctx) \in Seq(ContextType) /\ Len(Append(s, ctx)) = n + 1
        /\ Append(s, ctx)[n + 1] = ctx /\ \A i \in 1 .. n : Append(s, ctx)[i] = s[i]
    BY <1>4, <2>3, StackPushed
  <2> QED
    BY ONLY <2>1, <2>2, <2>4
<1>7. /\ exec'[cpu] = e
      /\ \A c \in Cpus \ {cpu} : exec'[c] = exec[c] /\ exec[c].task # t
  <2>1. exec \in [Cpus -> ExecType]
    BY DEF CteInv, CteTypes
  <2> QED
    BY <1>0, <1>3, <2>1, Apart
<1>8. CteTypes'
  <2>1. exec' \in [Cpus -> ExecType] /\ ev' \in [Cpus -> Events]
    BY <1>3, <1>5 DEF CteInv, CteTypes
  <2>2. stack' \in [Tasks -> Seq(ContextType)]
    BY <1>0, <1>3, <1>4 DEF CteInv, CteTypes
  <2>3. \A x \in Tasks : Len(stack'[x]) <= MaxNest
    <3>1. \A x \in Tasks : Len(stack[x]) <= MaxNest
      BY DEF CteInv, CteTypes
    <3>2. n + 1 <= MaxNest
      BY <1>0, NativeCteAssumption
    <3> QED
      BY ONLY <1>6, <3>1, <3>2
  <2> QED
    BY <2>1, <2>2, <2>3 DEF CteInv, CteTypes, mpeVars
<1>9. ExecsInv'
  <2>1. \A c \in Cpus \ {cpu} : exec[c].task \in Tasks \ {t}
    BY <1>7, CpuFacts
  <2> QED
    BY <1>5, <1>6, <1>7, <2>1 DEF CteInv, ExecsInv
<1>10. HeldInv'
  BY <1>0, <1>5, <1>7 DEF CteInv, HeldInv, Leaving
<1>11. StacksInv'
  <2>1. \A x \in Tasks \ {t} : Entered(x)' = Entered(x)
    BY <1>0, <1>5, <1>7 DEF Entered
  <2>2. Entered(t)' /\ ~Entered(t)
    BY <1>0, <1>5, <1>7 DEF Entered
  <2>3. Saved(ctx, t, n + 1)
    BY <1>0, <1>4, CpuFacts DEF Saved
  <2> SUFFICES ASSUME NEW x \in Tasks, NEW i \in 1 .. Len(stack'[x])
               PROVE  /\ Saved(stack'[x][i], x, i)
                      /\ i < Len(stack'[x]) \/ ~Entered(x)' => Complete(stack'[x][i], x)
    BY DEF StacksInv, Saved, Complete, Space, ExecInv
  <2>4. CASE x # t
    BY <1>6, <2>1, <2>4 DEF CteInv, StacksInv
  <2>5. CASE x = t /\ i = n + 1
    BY <1>0, <1>6, <2>2, <2>3, <2>5
  <2>6. CASE x = t /\ i # n + 1
    <3>0. i \in 1 .. n
      BY <1>0, <1>6, <2>6
    <3>1. i \in 1 .. n /\ stack'[x][i] = stack[t][i]
      BY <1>6, <2>6, <3>0
    <3> QED
      BY <1>0, <2>2, <2>6, <3>1 DEF CteInv, StacksInv
  <2> QED
    BY <2>4, <2>5, <2>6
<1>12. ParkedInv'
  <2>1. ~Parked(t)'
    BY <1>5, <1>7 DEF Parked, Leaving
  <2>2. \A x \in Tasks \ {t} : Parked(x)' = Parked(x)
    BY <1>0, <1>5, <1>7 DEF Parked, Leaving
  <2> QED
    BY <1>6, <2>1, <2>2 DEF CteInv, ParkedInv
<1>13. SpacesInv' /\ EventIsCurrent'
  <2>1. ev'[cpu] = event /\ \A c \in Cpus \ {cpu} : ev'[c] = ev[c]
    BY DEF CteInv, CteTypes
  <2> QED
    BY <1>0, <1>5, <1>7, <2>1 DEF CteInv, SpacesInv, OwnSpace, EventIsCurrent
<1> QED
  BY <1>8, <1>9, <1>10, <1>11, <1>12, <1>13 DEF CteInv

LEMMA SignalKeeps ==
  ASSUME CteInv, NEW cpu \in Cpus, NEW event \in Events,
         exec[cpu].stage = "run", sig_handler(cpu, event)
  PROVE  CteInv'
<1>1. CASE event \in Interrupts /\ exec[cpu].place = "library"
  <2>1. /\ ev' = [ev EXCEPT ![cpu] = event]
        /\ UNCHANGED <<exec, stack, mpeVars, ksp, vm_head, ptr, held>>
    BY <1>1 DEF sig_handler
  <2>2. ev' \in [Cpus -> Events] /\ \A c \in Cpus \ {cpu} : ev'[c] = ev[c]
    BY <2>1 DEF CteInv, CteTypes
  <2>3. CteTypes' /\ EventIsCurrent'
    BY <2>1, <2>2 DEF CteInv, CteTypes, EventIsCurrent, mpeVars
  <2> QED
    BY <2>1, <2>3 DEF CteInv, ExecsInv, HeldInv, StacksInv, Entered, ParkedInv, Parked, SpacesInv, OwnSpace
<1>2. CASE ~(event \in Interrupts /\ exec[cpu].place = "library")
  BY <1>2, TrapKeeps DEF sig_handler
<1> QED
  BY <1>1, <1>2

LEMMA TrapsKeep ==
  ASSUME CteInv, NEW cpu \in Cpus,
         \/ \E signal \in Interrupts : Deliver(cpu, signal)
         \/ Syscall(cpu) \/ PageFault(cpu) \/ yield(cpu)
  PROVE  CteInv'
<1>1. ~exec[cpu].masked \/ exec[cpu].place # "kernel" => exec[cpu].stage = "run"
  BY CpuFacts DEF ExecInv
<1>2. CASE \E signal \in Interrupts : Deliver(cpu, signal)
  BY <1>1, <1>2, SignalKeeps DEF Deliver, Events
<1>3. CASE Syscall(cpu)
  BY <1>1, <1>3, SignalKeeps DEF Syscall, trap_from_user, Events
<1>4. CASE PageFault(cpu)
  BY <1>4, SignalKeeps DEF PageFault, Events
<1>5. CASE yield(cpu)
  BY <1>1, <1>5, SignalKeeps DEF yield, Events
<1> QED
  BY <1>2, <1>3, <1>4, <1>5

-----------------------------------------------------------------------------
(* irq_handle and the return from it                                       *)

LEMMA IrqHandleKeeps ==
  ASSUME CteInv, NEW cpu \in Cpus, irq_handle(cpu)
  PROVE  CteInv'
<1>a. PICK t, n : t = exec[cpu].task /\ n = Len(stack[t])
  OBVIOUS
<1>0. /\ t = exec[cpu].task /\ n = Len(stack[t]) /\ n = exec[cpu].hand
      /\ t \in Tasks /\ stack[t] \in Seq(ContextType) /\ stack[t] # <<>>
      /\ n \in 1 .. MaxNest /\ exec[cpu].stk = t /\ exec[cpu].place = "kernel"
      /\ exec[cpu].stage = "entered"
  BY <1>a, CpuFacts DEF irq_handle, ExecInv, CteInv, CteTypes
<1>1. PICK ctx : ctx = [stack[t][n] EXCEPT !.vm_head = vm_head[cpu], !.ksp = ksp[cpu]]
  OBVIOUS
<1>2. PICK e : e = [exec[cpu] EXCEPT !.stage = "run", !.event = "NULL"]
  OBVIOUS
<1>3. /\ exec' = [exec EXCEPT ![cpu] = e]
      /\ stack' = [stack EXCEPT ![t] = [stack[t] EXCEPT ![n] = ctx]]
      /\ ev' = [ev EXCEPT ![cpu] = "ERROR"]
      /\ UNCHANGED <<mpeVars, ksp, vm_head, ptr, held>>
  <2>1. exec' = [exec EXCEPT ![cpu].stage = "run", ![cpu].event = "NULL"]
    BY DEF irq_handle
  <2>2. exec' = [exec EXCEPT ![cpu] = e]
    BY <1>2, <2>1, CpuFacts DEF CteInv, CteTypes, ExecType
  <2> QED
    BY <1>0, <1>1, <2>2 DEF irq_handle
<1>4. Saved(stack[t][n], t, n) /\ stack[t][n] \in ContextType
  <2>1. n \in 1 .. Len(stack[t])
    BY <1>0
  <2> QED
    BY <1>0, <2>1, ElementOfSeq DEF CteInv, StacksInv
<1>5. ctx \in ContextType /\ Saved(ctx, t, n) /\ Complete(ctx, t)
  <2>1. /\ ctx \in ContextType /\ ctx.exec = stack[t][n].exec
        /\ ctx.vm_head = vm_head[cpu] /\ ctx.ksp = ksp[cpu]
    BY <1>1, <1>4 DEF ContextType, CteInv, CteTypes
  <2>2. vm_head[cpu] = Space(t) /\ (t \in Users => ksp[cpu] = t)
    BY <1>0 DEF CteInv, SpacesInv, OwnSpace, Space
  <2> QED
    BY <1>4, <2>1, <2>2 DEF Saved, Complete
<1>6. /\ stack'[t] \in Seq(ContextType) /\ Len(stack'[t]) = n /\ stack'[t][n] = ctx
      /\ \A i \in 1 .. n : i # n => stack'[t][i] = stack[t][i]
      /\ \A x \in Tasks \ {t} : stack'[x] = stack[x]
  <2>1. /\ stack'[t] = [stack[t] EXCEPT ![n] = ctx]
        /\ \A x \in Tasks \ {t} : stack'[x] = stack[x]
    BY <1>0, <1>3 DEF CteInv, CteTypes
  <2>2. PICK s : s = stack[t]
    OBVIOUS
  <2>3. s \in Seq(ContextType) /\ s # <<>> /\ Len(s) = n
    BY <1>0, <2>2
  <2>4. /\ [s EXCEPT ![n] = ctx] \in Seq(ContextType) /\ Len([s EXCEPT ![n] = ctx]) = n
        /\ [s EXCEPT ![n] = ctx][n] = ctx
        /\ \A i \in 1 .. n : i # n => [s EXCEPT ![n] = ctx][i] = s[i]
    BY <1>5, <2>3, StackUpdated
  <2> QED
    BY ONLY <2>1, <2>2, <2>4
<1>7. /\ e \in ExecType /\ ExecInv(e) /\ e.task = t /\ e.hand = n /\ e.stage = "run"
  <2>1. /\ e \in ExecType /\ e.task = t /\ e.hand = n /\ e.stage = "run"
        /\ e.place = "kernel" /\ e.stk = t
    <3>1. "NULL" \in Events /\ exec[cpu] \in ExecType
      BY CpuFacts DEF Events
    <3> QED
      BY ONLY <1>0, <1>2, <3>1 DEF ExecType
  <2> QED
    BY <2>1 DEF ExecInv
<1>8. /\ exec' \in [Cpus -> ExecType] /\ exec'[cpu] = e
      /\ \A c \in Cpus \ {cpu} : exec'[c] = exec[c] /\ exec[c].task \in Tasks \ {t}
  <2>1. exec \in [Cpus -> ExecType]
    BY DEF CteInv, CteTypes
  <2>2. \A c \in Cpus \ {cpu} : exec[c].task \in Tasks \ {t}
    BY <1>0, Apart, CpuFacts
  <2> QED
    BY <1>3, <1>7, <2>1, <2>2
<1>9. CteTypes'
  <2>1. ev' \in [Cpus -> Events]
    BY <1>3 DEF CteInv, CteTypes, Events
  <2>2. stack' \in [Tasks -> Seq(ContextType)] /\ \A x \in Tasks : Len(stack'[x]) <= MaxNest
    <3>1. stack \in [Tasks -> Seq(ContextType)] /\ \A x \in Tasks : Len(stack[x]) <= MaxNest
      BY DEF CteInv, CteTypes
    <3>2. [stack[t] EXCEPT ![n] = ctx] \in Seq(ContextType)
      BY <1>0, <1>3, <1>6, <3>1
    <3>3. \A x \in Tasks : Len(stack'[x]) <= MaxNest
      BY <1>0, <1>6, <3>1
    <3> QED
      BY <1>0, <1>3, <3>1, <3>2, <3>3
  <2> QED
    BY <1>3, <1>8, <2>1, <2>2 DEF CteInv, CteTypes, mpeVars
<1>10. ExecsInv'
  BY <1>6, <1>7, <1>8 DEF CteInv, ExecsInv
<1>11. HeldInv'
  BY <1>0, <1>3, <1>7, <1>8 DEF CteInv, HeldInv, Leaving
<1>12. StacksInv'
  <2>1. \A x \in Tasks \ {t} : Entered(x)' = Entered(x)
    BY <1>0, <1>7, <1>8 DEF Entered
  <2> SUFFICES ASSUME NEW x \in Tasks, NEW i \in 1 .. Len(stack'[x])
               PROVE  /\ Saved(stack'[x][i], x, i)
                      /\ i < Len(stack'[x]) \/ ~Entered(x)' => Complete(stack'[x][i], x)
    BY DEF StacksInv, Saved, Complete, Space, ExecInv
  <2>2. CASE x # t
    BY <1>6, <2>1, <2>2 DEF CteInv, StacksInv
  <2>3. CASE x = t /\ i = n
    BY <1>5, <1>6, <2>3
  <2>4. CASE x = t /\ i # n
    <3>1. i \in 1 .. n /\ i < n
      BY <1>0, <1>6, <2>4
    <3>2. stack'[x][i] = stack[t][i]
      BY <1>6, <2>4, <3>1
    <3> QED
      BY <1>0, <2>4, <3>1, <3>2 DEF CteInv, StacksInv
  <2> QED
    BY <2>2, <2>3, <2>4
<1>13. ParkedInv'
  <2>1. ~Parked(t)'
    BY <1>7, <1>8 DEF Parked, Leaving
  <2>2. \A x \in Tasks \ {t} : Parked(x)' = Parked(x)
    BY <1>0, <1>7, <1>8 DEF Parked, Leaving
  <2> QED
    BY <1>3, <1>6, <2>1, <2>2 DEF CteInv, ParkedInv
<1>14. SpacesInv'
  BY <1>0, <1>3, <1>7, <1>8 DEF CteInv, SpacesInv, OwnSpace
<1>15. EventIsCurrent'
  <2>1. \A c \in Cpus \ {cpu} : ev'[c] = ev[c]
    BY <1>3 DEF CteInv, CteTypes
  <2> QED
    BY <1>7, <1>8, <2>1 DEF CteInv, EventIsCurrent
<1> QED
  BY <1>9, <1>10, <1>11, <1>12, <1>13, <1>14, <1>15 DEF CteInv

LEMMA UserHandlerKeeps ==
  ASSUME CteInv, NEW cpu \in Cpus, NEW to \in Tasks, user_handler(cpu, to)
  PROVE  CteInv'
<1>a. PICK t, n : t = exec[cpu].task /\ n = Len(stack[t])
  OBVIOUS
<1>0. /\ t = exec[cpu].task /\ n = Len(stack[t]) /\ n = exec[cpu].hand
      /\ t \in Tasks /\ n \in 1 .. MaxNest /\ exec[cpu].stk = t
      /\ exec[cpu].place = "kernel" /\ exec[cpu].stage = "run" /\ exec[cpu].masked
  BY <1>a, CpuFacts DEF user_handler, InKernel, ExecInv
<1>1. PICK e : e = [exec[cpu] EXCEPT !.stage = "chosen", !.chosen = to]
  OBVIOUS
<1>2. /\ exec' = [exec EXCEPT ![cpu] = e]
      /\ ptr' = [ptr EXCEPT ![t] = <<t, n>>]
      /\ held' = [held EXCEPT ![cpu] = {t, to}]
      /\ UNCHANGED <<mpeVars, ev, ksp, vm_head, stack>>
      /\ \A other \in Cpus \ {cpu} : to \notin held[other]
  <2>1. exec' = [exec EXCEPT ![cpu].stage = "chosen", ![cpu].chosen = to]
    BY DEF user_handler
  <2>2. exec' = [exec EXCEPT ![cpu] = e]
    BY <1>1, <2>1, CpuFacts DEF CteInv, CteTypes, ExecType
  <2> QED
    BY <1>0, <2>2 DEF user_handler
<1>3. /\ e \in ExecType /\ ExecInv(e) /\ e.task = t /\ e.hand = n
      /\ e.stage = "chosen" /\ e.chosen = to
  <2>1. /\ e \in ExecType /\ e.task = t /\ e.hand = n /\ e.stage = "chosen"
        /\ e.chosen = to /\ e.place = "kernel" /\ e.stk = t /\ e.masked
    <3>1. exec[cpu] \in ExecType
      BY CpuFacts
    <3> QED
      BY ONLY <1>0, <1>1, <3>1 DEF ExecType
  <2> QED
    BY <1>0, <2>1 DEF ExecInv
<1>4. /\ exec' \in [Cpus -> ExecType] /\ exec'[cpu] = e
      /\ \A c \in Cpus \ {cpu} : exec'[c] = exec[c] /\ exec[c].task # t
  <2>1. exec \in [Cpus -> ExecType]
    BY DEF CteInv, CteTypes
  <2>2. \A c \in Cpus \ {cpu} : exec[c].task # t
    BY <1>0, Apart
  <2> QED
    BY <1>2, <1>3, <2>1, <2>2
<1>5. CteTypes'
  <2>1. ptr' \in [Tasks -> Tasks \X (0 .. MaxNest)] /\ held' \in [Cpus -> SUBSET Tasks]
    BY <1>0, <1>2 DEF CteInv, CteTypes
  <2> QED
    BY <1>2, <1>4, <2>1 DEF CteInv, CteTypes, mpeVars
<1>6. ExecsInv'
  BY <1>0, <1>2, <1>3, <1>4 DEF CteInv, ExecsInv
<1>7. HeldInv'
  <2>1. held'[cpu] = {t, to} /\ \A c \in Cpus \ {cpu} : held'[c] = held[c] /\ t \notin held[c]
    BY <1>0, <1>2 DEF CteInv, CteTypes, HeldInv
  <2>2. \A c, other \in Cpus : c # other => held'[c] \cap held'[other] = {}
    BY <1>2, <2>1 DEF CteInv, HeldInv
  <2> QED
    BY <1>3, <1>4, <2>1, <2>2 DEF CteInv, HeldInv, Leaving
<1>8. StacksInv'
  <2>1. \A x \in Tasks : Entered(x)' = Entered(x)
    BY <1>0, <1>3, <1>4 DEF Entered
  <2> QED
    BY <1>2, <2>1 DEF CteInv, StacksInv, Saved, Complete, Space
<1>9. ParkedInv'
  <2>0. stack[t] # <<>>
    <3>1. Len(stack[t]) > 0 /\ Len(<<>>) = 0
      BY <1>0, NativeCteAssumption
    <3> QED
      BY <3>1
  <2>1. ptr'[t] = <<t, n>> /\ \A x \in Tasks \ {t} : ptr'[x] = ptr[x]
    BY <1>0, <1>2 DEF CteInv, CteTypes
  <2>2. \A x \in Tasks \ {t} : Parked(x)' = Parked(x)
    BY <1>0, <1>3, <1>4 DEF Parked
  <2> QED
    BY <1>0, <1>2, <2>0, <2>1, <2>2 DEF CteInv, ParkedInv
<1>10. SpacesInv' /\ EventIsCurrent'
  BY <1>2, <1>3, <1>4 DEF CteInv, SpacesInv, OwnSpace, EventIsCurrent
<1> QED
  BY <1>5, <1>6, <1>7, <1>8, <1>9, <1>10 DEF CteInv

LEMMA SwitchKeeps ==
  ASSUME CteInv, NEW cpu \in Cpus, am_switch(cpu)
  PROVE  CteInv'
<1>a. PICK t, to : t = exec[cpu].task /\ to = exec[cpu].chosen
  OBVIOUS
<1>0. /\ t = exec[cpu].task /\ to = exec[cpu].chosen /\ exec[cpu].stage = "chosen"
      /\ to \in Tasks /\ Chosen(cpu).vm_head = Space(to)
  BY <1>a, ChosenFacts DEF am_switch, Leaving, Complete
<1>1. PICK e : e = [exec[cpu] EXCEPT !.stage = "switched"]
  OBVIOUS
<1>2. /\ exec' = [exec EXCEPT ![cpu] = e]
      /\ vm_head' = [vm_head EXCEPT ![cpu] = Space(to)]
      /\ UNCHANGED <<mpeVars, ev, ksp, stack, ptr, held>>
  BY <1>0, <1>1 DEF am_switch
<1>3. /\ e \in ExecType /\ ExecInv(e) /\ e.task = t /\ e.hand = exec[cpu].hand
      /\ e.stage = "switched" /\ e.chosen = to
  <2>1. /\ e \in ExecType /\ e.task = t /\ e.hand = exec[cpu].hand
        /\ e.stage = "switched" /\ e.chosen = to /\ e.place = exec[cpu].place
        /\ e.stk = exec[cpu].stk /\ e.masked = exec[cpu].masked
    <3>1. exec[cpu] \in ExecType
      BY CpuFacts
    <3> QED
      BY ONLY <1>0, <1>1, <3>1 DEF ExecType
  <2> QED
    BY <1>0, <2>1, CpuFacts DEF ExecInv
<1>4. /\ exec' \in [Cpus -> ExecType] /\ exec'[cpu] = e
      /\ \A c \in Cpus \ {cpu} : exec'[c] = exec[c]
      /\ \A c \in Cpus : exec'[c].task = exec[c].task /\ Leaving(exec'[c]) = Leaving(exec[c])
                         /\ (exec'[c].stage = "entered" <=> exec[c].stage = "entered")
  <2>1. exec \in [Cpus -> ExecType]
    BY DEF CteInv, CteTypes
  <2> QED
    BY <1>0, <1>2, <1>3, <2>1 DEF Leaving
<1>5. /\ vm_head' \in [Cpus -> Users \cup {Null}] /\ vm_head'[cpu] = Space(to)
      /\ \A c \in Cpus \ {cpu} : vm_head'[c] = vm_head[c]
  BY <1>2 DEF CteInv, CteTypes, Space
<1>6. CteTypes'
  BY <1>2, <1>4, <1>5 DEF CteInv, CteTypes, mpeVars
<1>7. ExecsInv' /\ HeldInv'
  BY <1>0, <1>2, <1>3, <1>4 DEF CteInv, ExecsInv, HeldInv, Leaving
<1>8. StacksInv' /\ ParkedInv'
  <2>1. \A x \in Tasks : Entered(x)' = Entered(x) /\ Parked(x)' = Parked(x)
    BY <1>4 DEF Entered, Parked
  <2> QED
    BY <1>2, <2>1 DEF CteInv, StacksInv, Saved, Complete, Space, ParkedInv
<1>9. SpacesInv' /\ EventIsCurrent'
  BY <1>2, <1>3, <1>4, <1>5 DEF CteInv, SpacesInv, OwnSpace, EventIsCurrent, Space
<1> QED
  BY <1>6, <1>7, <1>8, <1>9 DEF CteInv

LEMMA IretKeeps ==
  ASSUME CteInv, NEW cpu \in Cpus, iret(cpu)
  PROVE  CteInv'
<1>a. PICK t, n : t = exec[cpu].chosen /\ n = Len(stack[t])
  OBVIOUS
<1>b. PICK ctx, e : ctx = stack[t][n] /\ e = ctx.exec
  OBVIOUS
<1>0. /\ t = exec[cpu].chosen /\ n = Len(stack[t]) /\ exec[cpu].stage = "switched"
      /\ t \in Tasks /\ n \in 1 .. MaxNest /\ stack[t] \in Seq(ContextType) /\ stack[t] # <<>>
      /\ ptr[t] = <<t, n>> /\ Chosen(cpu) = ctx
      /\ ctx \in ContextType /\ Saved(ctx, t, n) /\ Complete(ctx, t)
  <2>1. exec[cpu].stage = "switched" /\ Leaving(exec[cpu])
    BY DEF iret, Leaving
  <2> QED
    BY <1>a, <1>b, <2>1, ChosenFacts DEF CteInv, CteTypes
<1>1. /\ exec' = [exec EXCEPT ![cpu] = e]
      /\ ksp' = [ksp EXCEPT ![cpu] = ctx.ksp]
      /\ stack' = [stack EXCEPT ![t] = SubSeq(stack[t], 1, n - 1)]
      /\ ptr' = [ptr EXCEPT ![t] = <<t, 0>>]
      /\ ev' = [ev EXCEPT ![cpu] = "ERROR"]
      /\ UNCHANGED <<mpeVars, vm_head, held>>
  <2>1. /\ exec' = [exec EXCEPT ![cpu] = Chosen(cpu).exec]
        /\ ksp' = [ksp EXCEPT ![cpu] = Chosen(cpu).ksp]
        /\ stack' = [stack EXCEPT ![ptr[t][1]] = SubSeq(stack[ptr[t][1]], 1, ptr[t][2] - 1)]
        /\ ptr' = [ptr EXCEPT ![t] = <<ptr[t][1], 0>>]
        /\ ev' = [ev EXCEPT ![cpu] = "ERROR"]
        /\ UNCHANGED <<mpeVars, vm_head, held>>
    BY <1>a DEF iret
  <2>2. ptr[t][1] = t /\ ptr[t][2] = n
    BY <1>0
  <2> QED
    BY <1>0, <1>b, <2>1, <2>2
<1>2. /\ e \in ExecType /\ ExecInv(e) /\ e.task = t /\ e.hand = n - 1 /\ e.stage = "run"
      /\ ctx.ksp \in Tasks \cup {Null} /\ (t \in Users => ctx.ksp = t)
  BY <1>0, <1>b DEF Saved, Complete, ContextType
<1>3. /\ exec' \in [Cpus -> ExecType] /\ exec'[cpu] = e
      /\ \A c \in Cpus \ {cpu} : exec'[c] = exec[c] /\ exec[c].task \in Tasks \ {t}
  <2>1. exec \in [Cpus -> ExecType]
    BY DEF CteInv, CteTypes
  <2>2. \A c \in Cpus \ {cpu} : exec[c].task \in Tasks \ {t}
    BY <1>0, Apart, CpuFacts DEF Leaving
  <2> QED
    BY <1>1, <1>2, <2>1, <2>2
<1>4. /\ stack'[t] \in Seq(ContextType) /\ Len(stack'[t]) = n - 1
      /\ \A i \in 1 .. n - 1 : stack'[t][i] = stack[t][i]
      /\ \A x \in Tasks \ {t} : stack'[x] = stack[x]
  <2>1. /\ stack'[t] = SubSeq(stack[t], 1, n - 1)
        /\ \A x \in Tasks \ {t} : stack'[x] = stack[x]
    BY <1>0, <1>1 DEF CteInv, CteTypes
  <2>2. PICK s : s = stack[t]
    OBVIOUS
  <2>3. s \in Seq(ContextType) /\ s # <<>> /\ Len(s) = n
    BY <1>0, <2>2
  <2>4. /\ SubSeq(s, 1, n - 1) \in Seq(ContextType) /\ Len(SubSeq(s, 1, n - 1)) = n - 1
        /\ \A i \in 1 .. n - 1 : SubSeq(s, 1, n - 1)[i] = s[i]
    BY <2>3, StackPopped
  <2> QED
    BY ONLY <2>1, <2>2, <2>4
<1>5. CteTypes'
  <2>1. /\ ev' \in [Cpus -> Events] /\ ksp' \in [Cpus -> Tasks \cup {Null}]
        /\ ptr' \in [Tasks -> Tasks \X (0 .. MaxNest)]
    BY <1>0, <1>1, <1>2, NativeCteAssumption DEF CteInv, CteTypes, Events
  <2>2. stack' \in [Tasks -> Seq(ContextType)] /\ \A x \in Tasks : Len(stack'[x]) <= MaxNest
    <3>1. stack \in [Tasks -> Seq(ContextType)] /\ \A x \in Tasks : Len(stack[x]) <= MaxNest
      BY DEF CteInv, CteTypes
    <3>2. SubSeq(stack[t], 1, n - 1) \in Seq(ContextType)
      BY <1>0, <1>1, <1>4, <3>1
    <3>3. \A x \in Tasks : Len(stack'[x]) <= MaxNest
      BY <1>0, <1>4, <3>1, NativeCteAssumption
    <3> QED
      BY <1>0, <1>1, <3>1, <3>2, <3>3
  <2> QED
    BY <1>1, <1>3, <2>1, <2>2 DEF CteInv, CteTypes, mpeVars
<1>6. ExecsInv'
  BY <1>2, <1>3, <1>4 DEF CteInv, ExecsInv
<1>7. HeldInv'
  BY <1>0, <1>1, <1>2, <1>3 DEF CteInv, HeldInv, Leaving
<1>8. StacksInv'
  <2>1. \A x \in Tasks \ {t} : Entered(x) => Entered(x)'
    BY <1>0, <1>2, <1>3 DEF Entered
  <2> SUFFICES ASSUME NEW x \in Tasks, NEW i \in 1 .. Len(stack'[x])
               PROVE  /\ Saved(stack'[x][i], x, i)
                      /\ i < Len(stack'[x]) \/ ~Entered(x)' => Complete(stack'[x][i], x)
    BY DEF StacksInv, Saved, Complete, Space, ExecInv
  <2>2. CASE x # t
    BY <1>4, <2>1, <2>2 DEF CteInv, StacksInv
  <2>3. CASE x = t
    <3>0. i \in 1 .. n - 1 /\ n \in Nat
      BY <1>0, <1>4, <2>3, NativeCteAssumption
    <3>1. i \in 1 .. n /\ i < n
      BY ONLY <3>0
    <3>2. stack'[x][i] = stack[t][i]
      BY <1>4, <2>3, <3>0
    <3> QED
      BY <1>0, <2>3, <3>1, <3>2 DEF CteInv, StacksInv
  <2> QED
    BY <2>2, <2>3
<1>9. ParkedInv'
  <2>1. ~Parked(t)'
    BY <1>2, <1>3 DEF Parked, Leaving
  <2>2. \A x \in Tasks \ {t} : Parked(x)' => Parked(x)
    BY <1>0, <1>2, <1>3 DEF Parked, Leaving
  <2>3. \A x \in Tasks \ {t} : ptr'[x] = ptr[x]
    BY <1>1 DEF CteInv, CteTypes
  <2> QED
    BY <1>4, <2>1, <2>2, <2>3 DEF CteInv, ParkedInv
<1>10. SpacesInv' /\ EventIsCurrent'
  <2>1. ksp'[cpu] = ctx.ksp /\ \A c \in Cpus \ {cpu} : ksp'[c] = ksp[c] /\ ev'[c] = ev[c]
    BY <1>1 DEF CteInv, CteTypes
  <2>2. vm_head[cpu] = Space(t)
    BY <1>0 DEF CteInv, SpacesInv
  <2> QED
    BY <1>1, <1>2, <1>3, <2>1, <2>2 DEF CteInv, SpacesInv, OwnSpace, EventIsCurrent, Space
<1> QED
  BY <1>5, <1>6, <1>7, <1>8, <1>9, <1>10 DEF CteInv

-----------------------------------------------------------------------------
(* Theorems                                                                *)

LEMMA CteInvNext == CteInv /\ [CteNext]_vars => CteInv'
<1> SUFFICES ASSUME CteInv, [CteNext]_vars
             PROVE  CteInv'
  OBVIOUS
<1>1. CASE mpe_init
  BY <1>1, StartKeeps
<1>2. ASSUME NEW cpu \in Cpus, CpuStep(cpu)
      PROVE  CteInv'
  <2>1. CASE \/ \E signal \in Interrupts : Deliver(cpu, signal)
             \/ Syscall(cpu) \/ PageFault(cpu) \/ yield(cpu)
    BY <2>1, TrapsKeep
  <2>2. CASE CallLibrary(cpu) \/ LeaveLibrary(cpu)
    BY <2>2, LibraryKeeps
  <2>3. CASE \E enable \in BOOLEAN : iset(cpu, enable)
    BY <2>3, IsetKeeps
  <2>4. CASE irq_handle(cpu)
    BY <2>4, IrqHandleKeeps
  <2>5. CASE \E t \in Tasks : user_handler(cpu, t)
    BY <2>5, UserHandlerKeeps
  <2>6. CASE am_switch(cpu) \/ iret(cpu)
    BY <2>6, SwitchKeeps, IretKeeps
  <2> QED
    BY <1>2, <2>1, <2>2, <2>3, <2>4, <2>5, <2>6 DEF CpuStep
<1>3. CASE UNCHANGED vars
  BY <1>3 DEF vars, mpeVars, cpuVars, CteInv, CteTypes, ExecsInv, HeldInv, StacksInv, Entered,
    ParkedInv, Parked, SpacesInv, OwnSpace, EventIsCurrent
<1> QED
  BY <1>1, <1>2, <1>3 DEF CteNext

\* Whatever the processors do, each task's contexts, its registers where it runs,
\* the kernel's pointer to it, and what thiscpu says of it agree (cte.c, mpe.c).
THEOREM CteInvariance == CteSpec => []CteInv
BY InitHolds, CteInvNext, PTL DEF CteSpec

\* The '+' bytes never exceed the processors that wait for one, at most MaxNest
\* contexts of bounded depth are on a stack, and every register, mask and pointer
\* is one that the code can produce (cte.c, mpe.c).
THEOREM CteTypeCorrect == CteSpec => []CteTypeOK
<1>1. CteInv => CteTypeOK
  <2> SUFFICES ASSUME CteInv
               PROVE  CteTypeOK
    OBVIOUS
  <2>1. plus \in 0 .. Cardinality(Cpus) - 1 /\ released \in 0 .. Cardinality(Cpus) - 1
    BY CpusCount DEF CteInv, CteTypes
  <2>2. ASSUME NEW t \in Tasks
        PROVE  /\ Len(stack[t]) <= MaxNest
               /\ \A i \in 1 .. Len(stack[t]) : stack[t][i] \in ContextType
               /\ ptr[t] \in Tasks \X (0 .. MaxNest)
    BY ElementOfSeq DEF CteInv, CteTypes
  <2> QED
    BY <2>1, <2>2 DEF CteInv, CteTypes, CteTypeOK
<1> QED
  BY <1>1, CteInvariance, PTL

\* irq_handle passes user_handler the event of the trap whose context it passes,
\* whatever signals overwrite thiscpu->ev in between (cte.c: sig_handler, irq_handle).
THEOREM EventsAreCurrent == CteSpec => []EventIsCurrent
<1>1. CteInv => EventIsCurrent
  BY DEF CteInv
<1> QED
  BY <1>1, CteInvariance, PTL

\* A trap, nested to any depth and on any processor, saves its context on the stack
\* of the task it interrupts and over none of that task's others (cte.c: setup_stack).
THEOREM StacksAreOwn == CteSpec => []OwnStack
<1>1. CteInv => OwnStack
  <2> SUFFICES ASSUME CteInv
               PROVE  OwnStack
    OBVIOUS
  <2>1. \A t \in Tasks : \A i \in 1 .. Len(stack[t]) :
          stack[t][i].exec.task = t /\ stack[t][i].exec.hand = i - 1
    BY DEF CteInv, StacksInv, Saved
  <2>2. \A cpu \in Cpus :
          /\ exec[cpu].hand = Len(stack[exec[cpu].task])
          /\ exec[cpu].hand > 0 => exec[cpu].stk = exec[cpu].task
    BY CpuFacts DEF ExecInv
  <2> QED
    BY <2>1, <2>2 DEF OwnStack
<1> QED
  BY <1>1, CteInvariance, PTL

\* Wherever the kernel moves a task, thiscpu has its address space and its kernel
\* stack whenever its code or the kernel's on its behalf runs (cte.c: irq_handle,
\* iret; vme.c: __am_get_cur_as, __am_switch).
THEOREM SpacesAreOwn == CteSpec => []OwnSpace
<1>1. CteInv => OwnSpace
  BY DEF CteInv, SpacesInv
<1> QED
  BY <1>1, CteInvariance, PTL
=============================================================================
