-------------------------------- MODULE SmpWork --------------------------------
(***************************************************************************)
(* Cross-processor work (src/kernel/arch/x86_64/smp.cpp): the boot         *)
(* processor posts a callback to every processor (run_on_all_cpus), each   *)
(* of the others runs it in the loop of kurogane_smp_ap_entry and reports  *)
(* its generation.  One atomic access is one step.                         *)
(*                                                                         *)
(* The callback and the context of a call are its generation; 0 is null.   *)
(* A call that fails ends in boot_failure(), so failed is final.           *)
(***************************************************************************)
EXTENDS Naturals, Sequences, FiniteSets

CONSTANTS
  NAps,           \* number of application processors online
  MaxCalls        \* bound: calls of run_on_all_cpus

ASSUME SmpConstants == NAps \in Nat /\ MaxCalls \in Nat

VARIABLES
  bsp,            \* where the boot processor is in run_on_all_cpus
  generation, callback, context,    \* g_work_generation, g_work_callback, g_work_context
  index,          \* the processor the posting loop has reached
  pending, completed,               \* the generations of each CpuState
  ipi,            \* the work interrupt is pending at the processor
  ap,             \* where each application processor is in its loop
  seen, cb, cx,   \* what it has loaded in this turn
  ran             \* the calls it has made for the current generation

Aps == 1 .. NAps
work_vars == <<bsp, generation, callback, context, index, pending, completed, ipi, ap, seen, cb, cx, ran>>

WorkInit ==
  /\ bsp = "idle" /\ generation = 0 /\ callback = 0 /\ context = 0 /\ index = 1
  /\ pending = [c \in Aps |-> 0] /\ completed = [c \in Aps |-> 0]
  /\ ipi = [c \in Aps |-> FALSE] /\ ap = [c \in Aps |-> "check"]
  /\ seen = [c \in Aps |-> 0] /\ cb = [c \in Aps |-> 0] /\ cx = [c \in Aps |-> 0]
  /\ ran = [c \in Aps |-> <<>>]

-------------------------------------------------------------------------------
\* run_on_all_cpus(), under g_work_lock.
BeginWork ==
  /\ bsp \in {"idle", "ok"} /\ generation < MaxCalls
  /\ bsp' = "post"
  /\ generation' = generation + 1
  /\ callback' = generation + 1 /\ context' = generation + 1
  /\ index' = 1
  /\ ran' = [c \in Aps |-> <<>>]
  /\ UNCHANGED <<pending, completed, ipi, ap, seen, cb, cx>>

StorePending(c) ==
  /\ bsp = "post" /\ c = index /\ pending[c] # generation
  /\ pending' = [pending EXCEPT ![c] = generation]
  /\ UNCHANGED <<bsp, generation, callback, context, index, completed, ipi, ap, seen, cb, cx, ran>>

SendWork(c) ==
  /\ bsp = "post" /\ c = index /\ pending[c] = generation
  /\ ipi' = [ipi EXCEPT ![c] = TRUE]
  /\ index' = index + 1
  /\ UNCHANGED <<bsp, generation, callback, context, pending, completed, ap, seen, cb, cx, ran>>

SendWorkFails(c) ==
  /\ bsp = "post" /\ c = index /\ pending[c] = generation
  /\ bsp' = "failed" /\ callback' = 0 /\ context' = 0
  /\ UNCHANGED <<generation, index, pending, completed, ipi, ap, seen, cb, cx, ran>>

LocalCall ==
  /\ bsp = "post" /\ index > NAps
  /\ bsp' = "wait"
  /\ UNCHANGED <<generation, callback, context, index, pending, completed, ipi, ap, seen, cb, cx, ran>>

\* wait_for_work_generation() succeeds, or spends its budget.
AllCompleted == \A c \in Aps : completed[c] = generation

FinishWork ==
  /\ bsp = "wait" /\ AllCompleted
  /\ bsp' = "ok" /\ callback' = 0 /\ context' = 0
  /\ UNCHANGED <<generation, index, pending, completed, ipi, ap, seen, cb, cx, ran>>

TimeOut ==
  /\ bsp = "wait"
  /\ bsp' = "failed" /\ callback' = 0 /\ context' = 0
  /\ UNCHANGED <<generation, index, pending, completed, ipi, ap, seen, cb, cx, ran>>

-------------------------------------------------------------------------------
\* The loop of kurogane_smp_ap_entry; interrupts are off until Enable.
Goto(c, from, to) == ap[c] = from /\ ap' = [ap EXCEPT ![c] = to]

Check(c) ==
  /\ \/ /\ pending[c] # 0 /\ pending[c] # completed[c]
        /\ Goto(c, "check", "callback")
        /\ seen' = [seen EXCEPT ![c] = pending[c]]
     \/ /\ pending[c] = 0 \/ pending[c] = completed[c]
        /\ Goto(c, "check", "enable")
        /\ UNCHANGED seen
  /\ UNCHANGED <<bsp, generation, callback, context, index, pending, completed, ipi, cb, cx, ran>>

\* CompleteThenCall is a mutant of the first load that reports completion already.
CompleteThenCall(c) ==
  /\ Goto(c, "callback", "context")
  /\ cb' = [cb EXCEPT ![c] = callback]
  /\ completed' = [completed EXCEPT ![c] = seen[c]]
  /\ UNCHANGED <<bsp, generation, callback, context, index, pending, ipi, seen, cx, ran>>
LoadCallback(c) ==
  /\ Goto(c, "callback", "context")
  /\ cb' = [cb EXCEPT ![c] = callback]
  /\ UNCHANGED <<bsp, generation, callback, context, index, pending, completed, ipi, seen, cx, ran>>

LoadContext(c) ==
  /\ Goto(c, "context", "call")
  /\ cx' = [cx EXCEPT ![c] = context]
  /\ UNCHANGED <<bsp, generation, callback, context, index, pending, completed, ipi, seen, cb, ran>>

Call(c) ==
  /\ Goto(c, "call", "complete")
  /\ ran' = IF cb[c] = 0 THEN ran ELSE [ran EXCEPT ![c] = Append(@, <<cb[c], cx[c]>>)]
  /\ UNCHANGED <<bsp, generation, callback, context, index, pending, completed, ipi, seen, cb, cx>>

Complete(c) ==
  /\ Goto(c, "complete", "check")
  /\ completed' = [completed EXCEPT ![c] = seen[c]]
  /\ UNCHANGED <<bsp, generation, callback, context, index, pending, ipi, seen, cb, cx, ran>>

\* interrupts::enable() is a function: an interrupt may arrive between its sti
\* and the hlt of the caller.
Enable(c) ==
  /\ Goto(c, "enable", "enabled")
  /\ UNCHANGED <<bsp, generation, callback, context, index, pending, completed, ipi, seen, cb, cx, ran>>

Halt(c) ==
  /\ Goto(c, "enabled", "halted")
  /\ UNCHANGED <<bsp, generation, callback, context, index, pending, completed, ipi, seen, cb, cx, ran>>

\* work_ipi_handler() only acknowledges; a halted processor continues its loop.
Interrupt(c) ==
  /\ ap[c] \in {"enabled", "halted"} /\ ipi[c]
  /\ ipi' = [ipi EXCEPT ![c] = FALSE]
  /\ ap' = [ap EXCEPT ![c] = IF @ = "halted" THEN "check" ELSE @]
  /\ UNCHANGED <<bsp, generation, callback, context, index, pending, completed, seen, cb, cx, ran>>

-------------------------------------------------------------------------------
Poster ==
  \/ BeginWork \/ LocalCall \/ FinishWork
  \/ \E c \in Aps : StorePending(c) \/ SendWork(c)
Worker(c) ==
  \/ Check(c) \/ LoadCallback(c) \/ LoadContext(c) \/ Call(c) \/ Complete(c)
  \/ Enable(c) \/ Halt(c) \/ Interrupt(c)

WorkNext ==
  \/ Poster \/ TimeOut \/ \E c \in Aps : SendWorkFails(c)
  \/ \E c \in Aps : Worker(c)

WorkSpec == WorkInit /\ [][WorkNext]_work_vars

\* Every processor keeps executing, interrupts are sent, and the budget of the
\* waiting loop is large enough for any processor that does its work.
PatientWorkSpec ==
  /\ WorkInit /\ [][Poster \/ \E c \in Aps : Worker(c)]_work_vars
  /\ WF_work_vars(Poster) /\ \A c \in Aps : WF_work_vars(Worker(c))

-------------------------------------------------------------------------------
(***************************************************************************)
(* Properties                                                              *)
(***************************************************************************)

\* When run_on_all_cpus returns Ok, every processor has made exactly one call, of
\* this callback with this context, although it loads the two separately from the
\* interrupt that told it to, and although the last call's values are cleared
\* while it may be in the middle of its loop.
OkMeansOnceEach ==
  bsp = "ok" => \A c \in Aps : ran[c] = <<<<generation, generation>>>>

\* After an Ok no processor is inside the callback, nor will be before the next
\* call: what main.cpp relies on when it reaps threads after the rendezvous.
OkMeansQuiet ==
  bsp = "ok" => \A c \in Aps : ap[c] \notin {"callback", "context", "call"} /\ pending[c] = completed[c]

\* What an Ok from run_on_all_cpus means to its caller: the work was done once by
\* each processor, and is over.
OkMeansDone == OkMeansOnceEach /\ OkMeansQuiet

\* main.cpp ends the boot with boot_failure("SMP", "parallel CPU work dispatch
\* failed") unless the posted work is done by every processor: so posted work must
\* not stay undone by a processor that is only waiting for work.
PostedWorkIsDone == bsp = "wait" ~> bsp # "wait"
===============================================================================
