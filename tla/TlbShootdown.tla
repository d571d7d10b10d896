----------------------------- MODULE TlbShootdown -----------------------------
(***************************************************************************)
(* Synchronous TLB shootdown: shootdown_page() and tlb_ipi_handler() of    *)
(* src/kernel/arch/x86_64/smp.cpp with the caller invalidate_page() of     *)
(* kernel_virtual_memory.cpp, which halts for good when a shootdown fails. *)
(* One atomic access is one step; an interrupt handler runs on top of what *)
(* its processor was doing.                                                *)
(***************************************************************************)
EXTENDS Naturals, FiniteSets

CONSTANTS
  NOnline,        \* processors online, 1 .. NOnline
  Shooters,       \* processors that change page tables
  Masked,         \* those of them that do so with interrupts disabled
  Pages,
  MaxGeneration,  \* bound: shootdowns
  NoPage

Online == 1 .. NOnline
NoCpu == 0

ASSUME TlbConstants == NOnline \in Nat /\ MaxGeneration \in Nat /\ Shooters \subseteq Online

VARIABLES
  tlb_lock,       \* holder of g_tlb_lock, or NoCpu
  address, tlb_generation,  \* g_tlb_address, g_tlb_generation
  tlb_completed,  \* tlb_completed_generation of each processor
  tlb_ipi,        \* the shootdown interrupt is pending at the processor
  shooter, page, target,    \* shootdown_page() on each processor: place, page, loop
  irq, hgen, haddr,         \* tlb_ipi_handler() on each processor
  stale           \* <<page, shooter>>: translations the shooter has withdrawn that
                  \* the processor may still hold

caller == <<shooter, page, target>>
handler == <<irq, hgen, haddr>>
tlb_vars == <<tlb_lock, address, tlb_generation, tlb_completed, tlb_ipi, caller, handler, stale>>

TlbInit ==
  /\ tlb_lock = NoCpu /\ address = NoPage /\ tlb_generation = 0
  /\ tlb_completed = [c \in Online |-> 0] /\ tlb_ipi = [c \in Online |-> FALSE]
  /\ shooter = [c \in Online |-> "idle"] /\ page = [c \in Online |-> NoPage] /\ target = [c \in Online |-> 1]
  /\ irq = [c \in Online |-> "none"] /\ hgen = [c \in Online |-> 0] /\ haddr = [c \in Online |-> NoPage]
  /\ stale = [c \in Online |-> {}]

\* invlpg
Invalidate(s, c, p) == [s EXCEPT ![c] = {e \in @ : e[1] # p}]

-------------------------------------------------------------------------------
\* shootdown_page(); a processor does not continue inside its own handler.
At(c, from) == shooter[c] = from /\ irq[c] = "none"
To(c, to) == shooter' = [shooter EXCEPT ![c] = to]

\* The page table entry is changed; every other processor may hold the old one.
Shoot(c, p) ==
  /\ At(c, "idle")
  /\ tlb_generation + Cardinality({d \in Online : shooter[d] \in {"lock", "address", "generation"}})
       < MaxGeneration
  /\ To(c, "lock")
  /\ page' = [page EXCEPT ![c] = p]
  /\ stale' = Invalidate([d \in Online |-> stale[d] \cup {<<p, c>>}], c, p)
  /\ UNCHANGED <<tlb_lock, address, tlb_generation, tlb_completed, tlb_ipi, target, handler>>

LockTlb(c) ==
  /\ At(c, "lock") /\ tlb_lock = NoCpu
  /\ To(c, "address")
  /\ tlb_lock' = c
  /\ UNCHANGED <<address, tlb_generation, tlb_completed, tlb_ipi, page, target, handler, stale>>

PublishAddress(c) ==
  /\ At(c, "address")
  /\ To(c, "generation")
  /\ address' = page[c]
  /\ UNCHANGED <<tlb_lock, tlb_generation, tlb_completed, tlb_ipi, page, target, handler, stale>>

PublishGeneration(c) ==
  /\ At(c, "generation")
  /\ To(c, "local")
  /\ tlb_generation' = tlb_generation + 1
  /\ UNCHANGED <<tlb_lock, address, tlb_completed, tlb_ipi, page, target, handler, stale>>

CompleteLocal(c) ==
  /\ At(c, "local")
  /\ To(c, "post")
  /\ tlb_completed' = [tlb_completed EXCEPT ![c] = tlb_generation]
  /\ target' = [target EXCEPT ![c] = 1]
  /\ UNCHANGED <<tlb_lock, address, tlb_generation, tlb_ipi, page, handler, stale>>

SendShootdown(c) ==
  /\ At(c, "post") /\ target[c] \in Online
  /\ tlb_ipi' = IF target[c] = c THEN tlb_ipi ELSE [tlb_ipi EXCEPT ![target[c]] = TRUE]
  /\ target' = [target EXCEPT ![c] = @ + 1]
  /\ UNCHANGED <<tlb_lock, address, tlb_generation, tlb_completed, shooter, page, handler, stale>>

\* FailKeepsLock is a mutant of the failing path.
FailKeepsLock(c) ==
  /\ \/ At(c, "post") /\ target[c] \in Online \ {c}
     \/ At(c, "post") /\ target[c] > NOnline
  /\ To(c, "halted")
  /\ UNCHANGED <<tlb_lock, address, tlb_generation, tlb_completed, tlb_ipi, page, target, handler, stale>>
\* An interrupt cannot be sent, or the waiting loop spends its budget: the lock is
\* released, and invalidate_page() halts the processor with interrupts disabled.
FailShootdown(c) ==
  /\ \/ At(c, "post") /\ target[c] \in Online \ {c}
     \/ At(c, "post") /\ target[c] > NOnline
  /\ To(c, "halted")
  /\ tlb_lock' = NoCpu
  /\ UNCHANGED <<address, tlb_generation, tlb_completed, tlb_ipi, page, target, handler, stale>>

\* wait_for_tlb_generation()
FinishShootdown(c) ==
  /\ At(c, "post") /\ target[c] > NOnline
  /\ \A d \in Online : tlb_completed[d] = tlb_generation
  /\ To(c, "ok")
  /\ tlb_lock' = NoCpu
  /\ UNCHANGED <<address, tlb_generation, tlb_completed, tlb_ipi, page, target, handler, stale>>

\* The caller goes on, and may recycle the memory behind the page.
Return(c) ==
  /\ At(c, "ok")
  /\ To(c, "idle")
  /\ page' = [page EXCEPT ![c] = NoPage]
  /\ UNCHANGED <<tlb_lock, address, tlb_generation, tlb_completed, tlb_ipi, target, handler, stale>>

-------------------------------------------------------------------------------
\* tlb_ipi_handler()
\* OpenHalted is a mutant of a halt without the cli.
OpenHalted(c) == c \in Masked => shooter[c] \in {"idle", "halted"}
Open(c) == shooter[c] # "halted" /\ (c \in Masked => shooter[c] = "idle")

\* TakeAndReport is a mutant that reports before it invalidates.
TakeAndReport(c) ==
  /\ irq[c] = "none" /\ tlb_ipi[c] /\ Open(c)
  /\ tlb_ipi' = [tlb_ipi EXCEPT ![c] = FALSE]
  /\ irq' = [irq EXCEPT ![c] = "address"]
  /\ hgen' = [hgen EXCEPT ![c] = tlb_generation]
  /\ tlb_completed' = [tlb_completed EXCEPT ![c] = tlb_generation]
  /\ UNCHANGED <<tlb_lock, address, tlb_generation, caller, haddr, stale>>
TakeIpi(c) ==
  /\ irq[c] = "none" /\ tlb_ipi[c] /\ Open(c)
  /\ tlb_ipi' = [tlb_ipi EXCEPT ![c] = FALSE]
  /\ irq' = [irq EXCEPT ![c] = "address"]
  /\ hgen' = [hgen EXCEPT ![c] = tlb_generation]
  /\ UNCHANGED <<tlb_lock, address, tlb_generation, tlb_completed, caller, haddr, stale>>

LoadAddress(c) ==
  /\ irq[c] = "address"
  /\ irq' = [irq EXCEPT ![c] = "invalidate"]
  /\ haddr' = [haddr EXCEPT ![c] = address]
  /\ UNCHANGED <<tlb_lock, address, tlb_generation, tlb_completed, tlb_ipi, caller, hgen, stale>>

Report(c) ==
  /\ irq[c] = "invalidate"
  /\ irq' = [irq EXCEPT ![c] = "none"]
  /\ stale' = Invalidate(stale, c, haddr[c])
  /\ tlb_completed' = [tlb_completed EXCEPT ![c] = hgen[c]]
  /\ UNCHANGED <<tlb_lock, address, tlb_generation, tlb_ipi, caller, hgen, haddr>>

-------------------------------------------------------------------------------
Calling(c) ==
  \/ LockTlb(c) \/ PublishAddress(c) \/ PublishGeneration(c) \/ CompleteLocal(c)
  \/ SendShootdown(c) \/ FinishShootdown(c) \/ Return(c)
Handling(c) == TakeIpi(c) \/ LoadAddress(c) \/ Report(c)

TlbNext ==
  \/ \E c \in Shooters : Calling(c) \/ FailShootdown(c) \/ \E p \in Pages : Shoot(c, p)
  \/ \E c \in Online : Handling(c)

TlbSpec == TlbInit /\ [][TlbNext]_tlb_vars

\* Interrupts are delivered, processors execute, and the budget of the waiting
\* loop is finite.  The lock is not fair; MaxGeneration bounds how often others
\* may take it meanwhile.
TlbFairness ==
  \A c \in Online : WF_tlb_vars(Calling(c) \/ FailShootdown(c)) /\ WF_tlb_vars(Handling(c))

-------------------------------------------------------------------------------
(***************************************************************************)
(* Properties                                                              *)
(***************************************************************************)

\* When shootdown_page() returns Ok, no processor still holds the translation the
\* caller withdrew, so that its memory may be recycled: also when another processor
\* withdraws the same page at the same time, or the shooter itself is interrupted
\* between publishing the address and the tlb_generation.
OkMeansInvalidated ==
  \A c \in Online : shooter[c] = "ok" => \A d \in Online : <<page[c], c>> \notin stale[d]

\* Once a shootdown has failed no other ever reports Ok: the processor that gave up
\* does not answer again, so nobody recycles memory it may still translate to.
FailClosed ==
  [][(\E c \in Online : shooter[c] = "halted")
       => \A d \in Online : shooter'[d] = "ok" => shooter[d] = "ok"]_tlb_vars

\* Every shootdown ends, in an Ok or by halting the processor that asked for it:
\* also when two processors with interrupts disabled wait for each other.
ShootdownEnds == \A c \in Shooters : shooter[c] = "lock" ~> shooter[c] \in {"ok", "halted"}
===============================================================================
