--------------------------- MODULE ProcessorProofs ---------------------------
(***************************************************************************)
(* What processors promise each other, for every number of processors.  The*)
(* ticket lock excludes, and serves them in the order of their arrival.    *)
(* run_on_all_cpus() that returns Ok: each of them has                     *)
(* made the one call and is out of it.  A shootdown that returns Ok has    *)
(* reached every processor, and one that fails is the last, for every set of*)
(* them that shoots, with interrupts enabled or not, and every set of pages.*)
(***************************************************************************)
EXTENDS TicketSpinLock, SmpWork, TlbShootdown, FiniteSetTheorems, SequenceTheorems, TLAPS

\* The ticket lock.

\* Distances round the counter are below Wrap, and zero only from a ticket to
\* itself.
LEMMA AheadType ==
  ASSUME NEW x \in Tickets, NEW y \in Tickets
  PROVE  /\ Ahead(x, y) \in 0..(Wrap - 1)
         /\ Ahead(x, y) = 0 <=> x = y
BY WrapLarge DEF Ahead, Tickets

\* Two tickets at the same distance from a third are the same ticket.
LEMMA AheadInjective ==
  ASSUME NEW x \in Tickets, NEW y \in Tickets, NEW z \in Tickets,
         Ahead(x, y) = Ahead(x, z)
  PROVE  y = z
BY WrapLarge DEF Ahead, Tickets

\* fetch_add keeps a counter a ticket.
LEMMA IncType ==
  ASSUME NEW x \in Tickets
  PROVE  Inc(x) \in Tickets
BY WrapLarge DEF Inc, Tickets

\* Drawing a ticket moves next_ticket_ one further from any ticket that is
\* not a whole turn behind it.
LEMMA AheadIncRight ==
  ASSUME NEW x \in Tickets, NEW y \in Tickets, Ahead(x, y) < Wrap - 1
  PROVE  Ahead(x, Inc(y)) = Ahead(x, y) + 1
BY WrapLarge DEF Ahead, Inc, Tickets

\* Serving the next ticket brings serving_ one closer to every other ticket.
LEMMA AheadIncLeft ==
  ASSUME NEW x \in Tickets, NEW y \in Tickets, x # y
  PROVE  Ahead(Inc(x), y) = Ahead(x, y) - 1
BY WrapLarge DEF Ahead, Inc, Tickets

\* The processors that drew a ticket are a finite set, at most N of them.
LEMMA WaitingFinite ==
  /\ IsFiniteSet(Waiting)
  /\ Cardinality(Waiting) \in Nat
  /\ Cardinality(Waiting) <= N
  /\ N \in Nat
<1>1. Waiting \in SUBSET Cpus
  BY DEF Waiting
<1> QED
  BY <1>1, CpusFinite, FS_Subset, FS_CardinalityType DEF N

\* A processor outside Waiting leaves room for one more ticket.
LEMMA WaitingRoom ==
  ASSUME NEW c \in Cpus, c \notin Waiting
  PROVE  /\ Cardinality(Waiting) + 1 <= N
         /\ Cardinality(Waiting \cup {c}) = Cardinality(Waiting) + 1
<1>1. Waiting \cup {c} \in SUBSET Cpus
  BY DEF Waiting
<1>2. Cardinality(Waiting \cup {c}) = Cardinality(Waiting) + 1
  BY WaitingFinite, FS_AddElement
<1> QED
  BY <1>1, <1>2, CpusFinite, FS_Subset DEF N

\* The counters and locals of the class stay in their types: TypeOK is an
\* invariant of every step.
LEMMA TypeStep ==
  ASSUME TypeOK, [Next]_vars
  PROVE  TypeOK'
<1> USE DEF TypeOK
<1>1. CASE UNCHANGED vars
  BY <1>1 DEF vars
<1>2. ASSUME NEW c \in Cpus, Lock(c)
      PROVE  TypeOK'
  BY <1>2, IncType DEF Lock, DrawTicket
<1>3. ASSUME NEW c \in Cpus, LeaveSpin(c)
      PROVE  TypeOK'
  BY <1>3 DEF LeaveSpin
<1>4. ASSUME NEW c \in Cpus, Unlock(c)
      PROVE  TypeOK'
  BY <1>4, IncType DEF Unlock
<1>5. ASSUME NEW c \in Cpus, TryLoadServing(c)
      PROVE  TypeOK'
  BY <1>5 DEF TryLoadServing
<1>6. ASSUME NEW c \in Cpus, TryLoadNext(c)
      PROVE  TypeOK'
  BY <1>6 DEF TryLoadNext
<1>7. ASSUME NEW c \in Cpus, TryExchange(c)
      PROVE  TypeOK'
  BY <1>7, IncType DEF TryExchange, DrawTicket
<1>8. ASSUME NEW c \in Cpus, TryExchangeFails(c)
      PROVE  TypeOK'
  BY <1>8 DEF TryExchangeFails
<1> QED
  BY <1>1, <1>2, <1>3, <1>4, <1>5, <1>6, <1>7, <1>8 DEF Next

\* Drawing a ticket keeps what TicketInv says of the processors inside
\* try_lock(), because none of them is a whole turn behind.
LEMMA DrawKeepsTrying ==
  ASSUME TypeOK, TicketInv, DrawTicket, UNCHANGED serving,
         NEW c \in Cpus, Cardinality(Waiting) + 1 <= N,
         NEW d \in Cpus, Trying(d), ticket'[d] = ticket[d]
  PROVE  /\ Ahead(ticket[d], next_ticket)'
              = Ahead(ticket[d], serving)' + Ahead(serving, next_ticket)'
         /\ Ahead(ticket[d], next_ticket)' <= N + fresh'[d]
         /\ N + fresh'[d] < Wrap
<1>1. /\ next_ticket \in Tickets /\ serving \in Tickets
      /\ ticket[d] \in Tickets /\ fresh[d] \in Nat
  BY DEF TypeOK
<1>2. /\ N + fresh[d] + 1 < Wrap
      /\ fresh'[d] = fresh[d] + 1
      /\ next_ticket' = Inc(next_ticket)
  BY <1>1 DEF DrawTicket, WithinTurn
<1>3. /\ Ahead(ticket[d], next_ticket)
           = Ahead(ticket[d], serving) + Ahead(serving, next_ticket)
      /\ Ahead(ticket[d], next_ticket) <= N + fresh[d]
      /\ Ahead(serving, next_ticket) = Cardinality(Waiting)
  BY DEF TicketInv
<1>4. /\ Ahead(ticket[d], next_ticket) \in 0..(Wrap - 1)
      /\ Ahead(ticket[d], serving) \in 0..(Wrap - 1)
  BY <1>1, AheadType
<1>5. Ahead(ticket[d], Inc(next_ticket)) = Ahead(ticket[d], next_ticket) + 1
  <2>1. Ahead(ticket[d], next_ticket) < Wrap - 1
    BY <1>1, <1>2, <1>3, <1>4, WaitingFinite, WrapLarge
  <2> QED BY <2>1, <1>1, AheadIncRight
<1>6. Ahead(serving, Inc(next_ticket)) = Ahead(serving, next_ticket) + 1
  <2>1. Ahead(serving, next_ticket) < Wrap - 1
    BY <1>3, WaitingFinite, WrapLarge DEF N
  <2> QED BY <2>1, <1>1, AheadIncRight
<1>7. /\ Ahead(ticket[d], next_ticket)' = Ahead(ticket[d], Inc(next_ticket))
      /\ Ahead(serving, next_ticket)' = Ahead(serving, Inc(next_ticket))
      /\ Ahead(ticket[d], serving)' = Ahead(ticket[d], serving)
  BY <1>2 DEF Ahead
<1> QED
  BY <1>1, <1>2, <1>3, <1>4, <1>5, <1>6, <1>7, WaitingFinite

\* What drawing ticket next_ticket_ for processor c does to TicketInv, shared
\* by lock() and by a successful exchange of try_lock().
LEMMA DrawStep ==
  ASSUME TypeOK, TicketInv, DrawTicket, UNCHANGED serving,
         NEW c \in Cpus, c \notin Waiting,
         ticket' = [ticket EXCEPT ![c] = next_ticket],
         NEW p \in {"spin", "held"}, pc' = [pc EXCEPT ![c] = p],
         p = "held" => next_ticket = serving
  PROVE  TicketInv'
<1>1. /\ next_ticket \in Tickets /\ serving \in Tickets
      /\ ticket \in [Cpus -> Tickets]
      /\ pc \in [Cpus -> {"idle", "spin", "held", "loaded", "cas"}]
  BY DEF TypeOK
<1>2. Waiting' = Waiting \cup {c}
  BY <1>1 DEF Waiting
<1>3. Cardinality(Waiting)' = Cardinality(Waiting) + 1 /\ Cardinality(Waiting) + 1 <= N
  BY <1>2, WaitingRoom
<1>4. Ahead(serving, next_ticket)' = Ahead(serving, next_ticket) + 1
  <2>1. Ahead(serving, next_ticket) < Wrap - 1
    BY <1>3, WaitingFinite, WrapLarge DEF N, TicketInv
  <2> QED BY <2>1, <1>1, AheadIncRight DEF DrawTicket, Ahead
<1>5. Ahead(serving, next_ticket) \in Nat
  BY WaitingFinite DEF TicketInv
<1>6. ASSUME NEW d \in Waiting'
      PROVE  Ahead(serving, ticket[d])' < Ahead(serving, next_ticket)'
  <2>1. CASE d = c
    <3>1. Ahead(serving, ticket[d])' = Ahead(serving, next_ticket)
      BY <2>1, <1>1 DEF Ahead
    <3> QED BY <3>1, <1>4, <1>5
  <2>2. CASE d # c
    <3>1. d \in Waiting /\ ticket'[d] = ticket[d] /\ ticket[d] \in Tickets
      BY <2>2, <1>1, <1>2, <1>6 DEF Waiting
    <3>2. Ahead(serving, ticket[d])' = Ahead(serving, ticket[d])
      BY <3>1 DEF Ahead
    <3>3. Ahead(serving, ticket[d]) < Ahead(serving, next_ticket)
      BY <3>1 DEF TicketInv
    <3>4. Ahead(serving, ticket[d]) \in Int
      BY <1>1, <3>1, AheadType
    <3> QED BY <3>2, <3>3, <3>4, <1>4, <1>5
  <2> QED BY <2>1, <2>2
<1>7. \A d \in Waiting : ticket[d] # next_ticket
  BY <1>1, <1>5 DEF TicketInv
<1>8. ASSUME NEW d \in Waiting', NEW e \in Waiting', ticket'[d] = ticket'[e]
      PROVE  d = e
  BY <1>1, <1>2, <1>7, <1>8 DEF TicketInv, Waiting
<1>9. ASSUME NEW d \in Cpus, pc'[d] = "held"
      PROVE  ticket'[d] = serving'
  BY <1>1, <1>9 DEF TicketInv
<1>10. ASSUME NEW d \in Cpus, Trying(d)'
       PROVE  /\ Ahead(ticket[d], next_ticket)'
                   = Ahead(ticket[d], serving)' + Ahead(serving, next_ticket)'
              /\ Ahead(ticket[d], next_ticket)' <= N + fresh'[d]
              /\ N + fresh'[d] < Wrap
  <2>1. d # c /\ Trying(d) /\ ticket'[d] = ticket[d]
    BY <1>1, <1>10 DEF Trying
  <2> QED BY <2>1, <1>3, DrawKeepsTrying
<1>11. Ahead(serving, next_ticket)' = Cardinality(Waiting)'
  BY <1>3, <1>4 DEF TicketInv
<1> QED
  BY <1>6, <1>8, <1>9, <1>10, <1>11 DEF TicketInv, N

\* unlock() keeps TicketInv: every other ticket comes one closer.
LEMMA UnlockStep ==
  ASSUME TypeOK, TicketInv, NEW c \in Cpus, Unlock(c)
  PROVE  TicketInv'
<1>1. /\ next_ticket \in Tickets /\ serving \in Tickets
      /\ ticket \in [Cpus -> Tickets] /\ fresh \in [Cpus -> Nat]
      /\ pc \in [Cpus -> {"idle", "spin", "held", "loaded", "cas"}]
  BY DEF TypeOK
<1>2. /\ c \in Waiting /\ Waiting' = Waiting \ {c} /\ ticket[c] = serving
      /\ serving' = Inc(serving)
      /\ UNCHANGED <<next_ticket, ticket, fresh>>
  BY <1>1 DEF Waiting, Unlock, TicketInv
<1>3. Cardinality(Waiting)' = Cardinality(Waiting) - 1
  BY <1>2, WaitingFinite, FS_RemoveElement
<1>4. serving # next_ticket
  BY <1>1, <1>2, AheadType DEF TicketInv
<1>5. Ahead(serving, next_ticket)' = Ahead(serving, next_ticket) - 1
  BY <1>1, <1>2, <1>4, AheadIncLeft DEF Ahead
<1>6. Ahead(serving, next_ticket) \in Nat
  BY WaitingFinite DEF TicketInv
<1>7. ASSUME NEW d \in Waiting'
      PROVE  Ahead(serving, ticket[d])' < Ahead(serving, next_ticket)'
  <2>1. d \in Waiting /\ d # c /\ ticket[d] \in Tickets
    BY <1>1, <1>2, <1>7 DEF Waiting
  <2>2. ticket[d] # serving
    BY <2>1, <1>2 DEF TicketInv
  <2>3. Ahead(serving, ticket[d])' = Ahead(serving, ticket[d]) - 1
    BY <2>1, <2>2, <1>1, <1>2, AheadIncLeft DEF Ahead
  <2>4. Ahead(serving, ticket[d]) \in Int
    BY <2>1, <1>1, AheadType
  <2>5. Ahead(serving, ticket[d]) < Ahead(serving, next_ticket)
    BY <2>1 DEF TicketInv
  <2> QED BY <2>3, <2>4, <2>5, <1>5, <1>6
<1>8. ASSUME NEW d \in Cpus, pc'[d] = "held"
      PROVE  ticket'[d] = serving'
  <2>1. d # c /\ pc[d] = "held"
    BY <1>1, <1>8 DEF Unlock
  <2>2. d \in Waiting /\ ticket[d] = ticket[c]
    BY <2>1, <1>2 DEF TicketInv, Waiting
  <2> QED BY <2>1, <2>2, <1>2 DEF TicketInv
<1>9. ASSUME NEW d \in Cpus, Trying(d)'
      PROVE  /\ Ahead(ticket[d], next_ticket)'
                  = Ahead(ticket[d], serving)' + Ahead(serving, next_ticket)'
             /\ Ahead(ticket[d], next_ticket)' <= N + fresh'[d]
             /\ N + fresh'[d] < Wrap
  <2>1. Trying(d) /\ ticket[d] \in Tickets
    BY <1>1, <1>9 DEF Trying, Unlock
  <2>2. /\ Ahead(ticket[d], next_ticket)
             = Ahead(ticket[d], serving) + Ahead(serving, next_ticket)
        /\ Ahead(ticket[d], next_ticket) <= N + fresh[d]
        /\ N + fresh[d] < Wrap
    BY <2>1 DEF TicketInv
  <2>3. /\ Ahead(ticket[d], next_ticket) \in 0..(Wrap - 1)
        /\ Ahead(ticket[d], serving) \in 0..(Wrap - 1)
        /\ Ahead(serving, next_ticket) \in 0..(Wrap - 1)
        /\ Ahead(serving, next_ticket) # 0
    BY <2>1, <1>1, <1>4, AheadType
  <2>4. Ahead(ticket[d], serving) < Wrap - 1
    BY <2>2, <2>3, WrapLarge
  <2>5. Ahead(ticket[d], Inc(serving)) = Ahead(ticket[d], serving) + 1
    BY <2>1, <2>4, <1>1, AheadIncRight
  <2>6. /\ Ahead(ticket[d], serving)' = Ahead(ticket[d], Inc(serving))
        /\ Ahead(ticket[d], next_ticket)' = Ahead(ticket[d], next_ticket)
        /\ fresh'[d] = fresh[d]
    BY <1>2 DEF Ahead
  <2> QED BY <2>2, <2>3, <2>5, <2>6, <1>5
<1>10. Ahead(serving, next_ticket)' = Cardinality(Waiting)'
  BY <1>3, <1>5 DEF TicketInv
<1>11. ASSUME NEW d \in Waiting', NEW e \in Waiting', ticket'[d] = ticket'[e]
       PROVE  d = e
  BY <1>2, <1>11 DEF TicketInv
<1> QED
  BY <1>7, <1>8, <1>9, <1>10, <1>11 DEF TicketInv, N

\* A processor inside try_lock() that finds next_ticket_ at the value it loaded
\* finds the lock free: serving_ is that value too.
LEMMA ExchangeFindsLockFree ==
  ASSUME TypeOK, TicketInv, NEW c \in Cpus, Trying(c), next_ticket = ticket[c]
  PROVE  serving = next_ticket
<1>1. next_ticket \in Tickets /\ serving \in Tickets /\ ticket[c] \in Tickets
  BY DEF TypeOK
<1>2. Ahead(ticket[c], next_ticket)
        = Ahead(ticket[c], serving) + Ahead(serving, next_ticket)
  BY DEF TicketInv
<1>3. Ahead(ticket[c], next_ticket) = 0
  BY <1>1, AheadType
<1>4. /\ Ahead(ticket[c], serving) \in 0..(Wrap - 1)
      /\ Ahead(serving, next_ticket) \in 0..(Wrap - 1)
  BY <1>1, AheadType
<1>5. Ahead(serving, next_ticket) = 0
  BY <1>2, <1>3, <1>4
<1> QED BY <1>1, <1>5, AheadType

\* The inductive step: every access of the class keeps TicketInv.
LEMMA TicketStep ==
  ASSUME TypeOK, TicketInv, [Next]_vars
  PROVE  TicketInv'
<1>0. /\ next_ticket \in Tickets /\ serving \in Tickets
      /\ ticket \in [Cpus -> Tickets] /\ fresh \in [Cpus -> Nat]
      /\ pc \in [Cpus -> {"idle", "spin", "held", "loaded", "cas"}]
  BY DEF TypeOK
<1>1. CASE UNCHANGED vars
  BY <1>1 DEF vars, TicketInv, Waiting, Trying, Ahead, N
<1>2. ASSUME NEW c \in Cpus, Lock(c)
      PROVE  TicketInv'
  BY <1>2, DrawStep, Zenon DEF Lock, Waiting
<1>3. ASSUME NEW c \in Cpus, LeaveSpin(c)
      PROVE  TicketInv'
  <2>1. Waiting' = Waiting
    BY <1>0, <1>3 DEF LeaveSpin, Waiting
  <2>2. \A d \in Cpus : Trying(d)' <=> Trying(d)
    BY <1>0, <1>3 DEF LeaveSpin, Trying
  <2>3. UNCHANGED <<next_ticket, serving, ticket, fresh>>
    BY <1>3 DEF LeaveSpin
  <2>4. \A d \in Cpus : pc'[d] = "held" => ticket[d] = serving
    BY <1>0, <1>3 DEF LeaveSpin, TicketInv
  <2> QED BY <2>1, <2>2, <2>3, <2>4 DEF TicketInv, Ahead, N
<1>4. ASSUME NEW c \in Cpus, Unlock(c)
      PROVE  TicketInv'
  BY <1>4, UnlockStep
<1>5. ASSUME NEW c \in Cpus, TryLoadServing(c)
      PROVE  TicketInv'
  <2>1. /\ Waiting' = Waiting /\ c \notin Waiting
        /\ \A d \in Waiting : ticket'[d] = ticket[d] /\ d # c
    BY <1>0, <1>5 DEF TryLoadServing, Waiting
  <2>2. UNCHANGED <<next_ticket, serving>>
    BY <1>5 DEF TryLoadServing
  <2>3. ASSUME NEW d \in Cpus, Trying(d)'
        PROVE  /\ Ahead(ticket[d], next_ticket)'
                    = Ahead(ticket[d], serving)' + Ahead(serving, next_ticket)'
               /\ Ahead(ticket[d], next_ticket)' <= N + fresh'[d]
               /\ N + fresh'[d] < Wrap
    <3>1. CASE d = c
      <4>1. ticket'[d] = serving /\ fresh'[d] = 0
        BY <3>1, <1>0, <1>5 DEF TryLoadServing
      <4>2. /\ Ahead(serving, serving) = 0
            /\ Ahead(serving, next_ticket) = Cardinality(Waiting)
        BY <1>0, AheadType DEF TicketInv
      <4>3. Cardinality(Waiting) <= N /\ N < Wrap /\ N \in Nat
                /\ Cardinality(Waiting) \in Nat
        BY WaitingFinite, WrapLarge DEF N
      <4>4. /\ Ahead(ticket[d], next_ticket)' = Ahead(serving, next_ticket)
            /\ Ahead(ticket[d], serving)' = Ahead(serving, serving)
            /\ Ahead(serving, next_ticket)' = Ahead(serving, next_ticket)
        BY <2>2, <4>1 DEF Ahead
      <4> QED BY <4>1, <4>2, <4>3, <4>4
    <3>2. CASE d # c
      <4>1. Trying(d) /\ ticket'[d] = ticket[d] /\ fresh'[d] = fresh[d]
        BY <3>2, <2>3, <1>0, <1>5 DEF TryLoadServing, Trying
      <4> QED BY <4>1, <2>2 DEF TicketInv, Ahead
    <3> QED BY <3>1, <3>2
  <2>4. \A d \in Cpus : pc'[d] = "held" => ticket'[d] = serving'
    BY <1>0, <1>5 DEF TryLoadServing, TicketInv
  <2> QED BY <2>1, <2>2, <2>3, <2>4 DEF TicketInv, Ahead, N
<1>6. ASSUME NEW c \in Cpus, TryLoadNext(c) \/ TryExchangeFails(c)
      PROVE  TicketInv'
  <2>1. Waiting' = Waiting
    BY <1>0, <1>6 DEF TryLoadNext, TryExchangeFails, Waiting
  <2>2. \A d \in Cpus : Trying(d)' => Trying(d)
    BY <1>0, <1>6 DEF TryLoadNext, TryExchangeFails, Trying
  <2>3. UNCHANGED <<next_ticket, serving, ticket, fresh>>
    BY <1>6 DEF TryLoadNext, TryExchangeFails
  <2>4. \A d \in Cpus : pc'[d] = "held" => ticket[d] = serving
    BY <1>0, <1>6 DEF TryLoadNext, TryExchangeFails, TicketInv
  <2> QED BY <2>1, <2>2, <2>3, <2>4 DEF TicketInv, Ahead, N
<1>7. ASSUME NEW c \in Cpus, TryExchange(c)
      PROVE  TicketInv'
  <2>1. Trying(c) /\ next_ticket = ticket[c] /\ c \notin Waiting
    BY <1>7 DEF TryExchange, Trying, Waiting
  <2>2. serving = next_ticket
    BY <2>1, ExchangeFindsLockFree
  <2>3. ticket' = [ticket EXCEPT ![c] = next_ticket]
    BY <2>1, <1>0, <1>7 DEF TryExchange
  <2> QED BY <2>1, <2>2, <2>3, <1>7, DrawStep, Zenon DEF TryExchange
<1> QED
  BY <1>1, <1>2, <1>3, <1>4, <1>5, <1>6, <1>7 DEF Next

\* The counters start equal and nobody has drawn a ticket.
LEMMA TicketStart ==
  ASSUME Init
  PROVE  TypeOK /\ TicketInv
<1>1. TypeOK
  BY WrapLarge, WaitingFinite DEF Init, TypeOK, Tickets, N
<1>2. Waiting = {}
  BY DEF Init, Waiting
<1>3. Cardinality(Waiting) = 0
  BY <1>2, FS_EmptySet
<1> QED
  BY <1>1, <1>2, <1>3 DEF Init, TicketInv, Ahead, Trying

\* Every behaviour of the lock keeps the invariant that orders its tickets.
THEOREM TicketInvariance == Spec => [](TypeOK /\ TicketInv)
<1>1. Init => TypeOK /\ TicketInv
  BY TicketStart
<1>2. TypeOK /\ TicketInv /\ [Next]_vars => (TypeOK /\ TicketInv)'
  BY TypeStep, TicketStep
<1> QED
  BY <1>1, <1>2, PTL DEF Spec

\* Two processors are never inside the critical section of one lock, for any
\* number of processors and any counter width above that number.
THEOREM LockExcludes == Spec => []MutualExclusion
<1>1. TypeOK /\ TicketInv => MutualExclusion
  BY DEF TypeOK, TicketInv, MutualExclusion, Waiting
<1> QED
  BY <1>1, TicketInvariance, PTL

-------------------------------------------------------------------------------
\* Work on all processors.

WorkTypes ==
  /\ generation \in Nat /\ index \in 1 .. NAps + 1
  /\ pending \in [Aps -> Nat] /\ completed \in [Aps -> Nat] /\ seen \in [Aps -> Nat]
  /\ cb \in [Aps -> Nat] /\ cx \in [Aps -> Nat] /\ callback \in Nat /\ context \in Nat
  /\ ap \in [Aps -> {"check", "callback", "context", "call", "complete", "enable", "enabled", "halted"}]
  /\ ran = [c \in Aps |-> ran[c]]
  /\ bsp \in {"idle", "post", "wait", "ok", "failed"}

Working(c) == ap[c] \in {"callback", "context", "call", "complete"}
OneCall == << <<generation, generation>> >>

\* The processor has not been told of the current call, is on its way to report
\* it, or has reported it.
Untold(c) == ~Working(c) /\ pending[c] = completed[c] /\ pending[c] < generation /\ ran[c] = <<>>
Told(c) ==
  /\ pending[c] = generation /\ completed[c] < generation
  /\ Working(c) => seen[c] = generation
  /\ ran[c] = IF ap[c] = "complete" THEN OneCall ELSE <<>>
  /\ ap[c] \in {"context", "call"} => cb[c] = generation
  /\ ap[c] = "call" => cx[c] = generation
Done(c) == ~Working(c) /\ pending[c] = generation /\ completed[c] = generation /\ ran[c] = OneCall

\* While a call is under way its callback and context stay in place, and nobody
\* is told of it but by the posting loop.
Posted == bsp \in {"post", "wait"} => callback = generation /\ context = generation /\ generation > 0
Stage(c) ==
  /\ bsp = "idle" => ~Working(c) /\ pending[c] = completed[c] /\ pending[c] <= generation
  /\ bsp = "post" => (Untold(c) /\ c >= index) \/ Told(c) \/ Done(c)
  /\ bsp = "wait" => Told(c) \/ Done(c)
  /\ bsp = "ok" => Done(c)
WorkInv == WorkTypes /\ Posted /\ \A c \in Aps : Stage(c)

\* At boot no call is under way.
LEMMA WorkInvInit == WorkInit => WorkInv
BY SmpConstants DEF WorkInit, WorkInv, WorkTypes, Posted, Stage, Working, Aps

\* Every step of the poster and of every processor keeps the invariant.
LEMMA WorkInvStep == WorkInv /\ [WorkNext]_work_vars => WorkInv'
<1> SUFFICES ASSUME WorkInv, [WorkNext]_work_vars PROVE WorkInv'
  OBVIOUS
<1> USE SmpConstants DEF Aps
<1>1. CASE BeginWork
  <2>1. WorkTypes'
    BY <1>1 DEF BeginWork, WorkInv, WorkTypes
  <2>2. Posted'
    BY <1>1 DEF BeginWork, WorkInv, WorkTypes, Posted
  <2>3. ASSUME NEW d \in Aps PROVE Stage(d)'
    <3>1. Stage(d) /\ WorkTypes /\ Posted BY <2>3 DEF WorkInv
    <3> QED BY <1>1, <2>3, <3>1 DEF BeginWork, WorkTypes, Stage, Working, Untold, Told, Done, OneCall, Posted
  <2> QED BY <2>1, <2>2, <2>3 DEF WorkInv
<1>2. ASSUME NEW c \in Aps, StorePending(c) PROVE WorkInv'
  <2>1. WorkTypes'
    BY <1>2 DEF StorePending, WorkInv, WorkTypes
  <2>2. Posted'
    BY <1>2 DEF StorePending, WorkInv, WorkTypes, Posted
  <2>3. ASSUME NEW d \in Aps PROVE Stage(d)'
    <3>1. Stage(d) /\ WorkTypes /\ Posted BY <2>3 DEF WorkInv
    <3> QED BY <1>2, <2>3, <3>1 DEF StorePending, WorkTypes, Stage, Working, Untold, Told, Done, OneCall, Posted
  <2> QED BY <2>1, <2>2, <2>3 DEF WorkInv
<1>3. ASSUME NEW c \in Aps, SendWork(c) PROVE WorkInv'
  <2>0. c = index /\ index \in Nat /\ index' = index + 1
    BY <1>3 DEF SendWork, WorkInv, WorkTypes
  <2>1. WorkTypes'
    <3>1. index' \in 1 .. NAps + 1 BY <1>3, <2>0
    <3> QED BY <1>3, <3>1 DEF SendWork, WorkInv, WorkTypes
  <2>2. Posted'
    BY <1>3 DEF SendWork, WorkInv, WorkTypes, Posted
  <2>3. ASSUME NEW d \in Aps PROVE Stage(d)'
    <3>1. Stage(d) /\ WorkTypes /\ Posted BY <2>3 DEF WorkInv
    <3> QED BY <1>3, <2>3, <3>1 DEF SendWork, WorkTypes, Stage, Working, Untold, Told, Done, OneCall, Posted
  <2> QED BY <2>1, <2>2, <2>3 DEF WorkInv
<1>4. ASSUME NEW c \in Aps, SendWorkFails(c) PROVE WorkInv'
  BY <1>4 DEF SendWorkFails, WorkInv, WorkTypes, Posted, Stage
<1>5. CASE LocalCall
  <2>1. WorkTypes'
    BY <1>5 DEF LocalCall, WorkInv, WorkTypes
  <2>2. Posted'
    BY <1>5 DEF LocalCall, WorkInv, WorkTypes, Posted
  <2>3. ASSUME NEW d \in Aps PROVE Stage(d)'
    <3>1. Stage(d) /\ WorkTypes /\ Posted BY <2>3 DEF WorkInv
    <3> QED BY <1>5, <2>3, <3>1 DEF LocalCall, WorkTypes, Stage, Working, Untold, Told, Done, OneCall, Posted
  <2> QED BY <2>1, <2>2, <2>3 DEF WorkInv
<1>6. CASE FinishWork
  <2>1. WorkTypes'
    BY <1>6 DEF FinishWork, AllCompleted, WorkInv, WorkTypes
  <2>2. Posted'
    BY <1>6 DEF FinishWork, AllCompleted, WorkInv, WorkTypes, Posted
  <2>3. ASSUME NEW d \in Aps PROVE Stage(d)'
    <3>1. Stage(d) /\ WorkTypes /\ Posted BY <2>3 DEF WorkInv
    <3> QED BY <1>6, <2>3, <3>1 DEF FinishWork, AllCompleted, WorkTypes, Stage, Working, Untold, Told, Done, OneCall, Posted
  <2> QED BY <2>1, <2>2, <2>3 DEF WorkInv
<1>7. CASE TimeOut
  BY <1>7 DEF TimeOut, WorkInv, WorkTypes, Posted, Stage
<1>8. ASSUME NEW c \in Aps, Worker(c) PROVE WorkInv'
  <2>1. CASE Check(c)
    <3>1. WorkTypes'
      BY <2>1, Zenon DEF Check, Goto, WorkInv, WorkTypes
    <3>2. Posted'
      BY <2>1 DEF Check, Goto, WorkInv, WorkTypes, Posted
    <3>3. ASSUME NEW d \in Aps PROVE Stage(d)'
      <4>1. Stage(d) /\ WorkTypes /\ Posted BY <3>3 DEF WorkInv
      <4> QED BY <2>1, <3>3, <4>1, ZenonT(30) DEF Check, Goto, WorkTypes, Stage, Working, Untold, Told, Done, OneCall, Posted
    <3> QED BY <3>1, <3>2, <3>3 DEF WorkInv
  <2>2. CASE LoadCallback(c)
    <3>1. WorkTypes'
      BY <2>2 DEF LoadCallback, Goto, WorkInv, WorkTypes
    <3>2. Posted'
      BY <2>2 DEF LoadCallback, Goto, WorkInv, WorkTypes, Posted
    <3>3. ASSUME NEW d \in Aps PROVE Stage(d)'
      <4>1. Stage(d) /\ WorkTypes /\ Posted BY <3>3 DEF WorkInv
      <4> QED BY <2>2, <3>3, <4>1, Zenon DEF LoadCallback, Goto, WorkTypes, Stage, Working, Untold, Told, Done, OneCall, Posted
    <3> QED BY <3>1, <3>2, <3>3 DEF WorkInv
  <2>3. CASE LoadContext(c)
    <3>1. WorkTypes'
      BY <2>3 DEF LoadContext, Goto, WorkInv, WorkTypes
    <3>2. Posted'
      BY <2>3 DEF LoadContext, Goto, WorkInv, WorkTypes, Posted
    <3>3. ASSUME NEW d \in Aps PROVE Stage(d)'
      <4>1. Stage(d) /\ WorkTypes /\ Posted BY <3>3 DEF WorkInv
      <4> QED BY <2>3, <3>3, <4>1, Zenon DEF LoadContext, Goto, WorkTypes, Stage, Working, Untold, Told, Done, OneCall, Posted
    <3> QED BY <3>1, <3>2, <3>3 DEF WorkInv
  <2>4. CASE Call(c)
    <3>1. WorkTypes'
      BY <2>4, Zenon DEF Call, Goto, WorkInv, WorkTypes
    <3>2. Posted'
      BY <2>4 DEF Call, Goto, WorkInv, WorkTypes, Posted
    <3>3. ASSUME NEW d \in Aps PROVE Stage(d)'
      <4>1. Stage(d) /\ WorkTypes /\ Posted BY <3>3 DEF WorkInv
      <4>2. CASE d # c
        <5>1. ran'[d] = ran[d] /\ ap'[d] = ap[d]
          BY <1>8, <2>4, <3>3, <4>1, <4>2 DEF Call, Goto, WorkTypes
        <5> QED BY <2>4, <3>3, <4>1, <5>1, Zenon DEF Call, WorkTypes, Stage, Working, Untold, Told, Done, OneCall
      <4>3. CASE d = c /\ bsp \in {"post", "wait"}
        <5>1. Told(c) /\ ap[c] = "call" /\ ap'[c] = "complete"
          BY <2>4, <3>3, <4>1, <4>3 DEF Call, Goto, WorkTypes, Stage, Working, Untold, Done
        <5>2. cb[c] = generation /\ cx[c] = generation /\ ran[c] = <<>> /\ generation # 0
          BY <4>1, <4>3, <5>1 DEF Told, Posted, WorkTypes
        <5>3. ran'[c] = Append(ran[c], <<generation, generation>>)
          BY <2>4, <4>1, <5>2 DEF Call, WorkTypes
        <5>4. ran'[c] = OneCall'
          BY <2>4, <5>2, <5>3 DEF Call, OneCall
        <5> QED BY <2>4, <4>1, <4>3, <5>1, <5>4 DEF Call, Stage, Told, Working
      <4>4. CASE d = c /\ bsp \notin {"post", "wait"}
        BY <2>4, <4>1, <4>4 DEF Call, Goto, WorkTypes, Stage, Working, Done
      <4> QED BY <4>2, <4>3, <4>4
    <3> QED BY <3>1, <3>2, <3>3 DEF WorkInv
  <2>5. CASE Complete(c)
    <3>1. WorkTypes'
      BY <2>5 DEF Complete, Goto, WorkInv, WorkTypes
    <3>2. Posted'
      BY <2>5 DEF Complete, Goto, WorkInv, WorkTypes, Posted
    <3>3. ASSUME NEW d \in Aps PROVE Stage(d)'
      <4>1. Stage(d) /\ WorkTypes /\ Posted BY <3>3 DEF WorkInv
      <4> QED BY <2>5, <3>3, <4>1, Zenon DEF Complete, Goto, WorkTypes, Stage, Working, Untold, Told, Done, OneCall, Posted
    <3> QED BY <3>1, <3>2, <3>3 DEF WorkInv
  <2>6. CASE Enable(c) \/ Halt(c) \/ Interrupt(c)
    <3>1. WorkTypes'
      BY <2>6, Zenon DEF Enable, Halt, Interrupt, Goto, WorkInv, WorkTypes
    <3>2. Posted'
      BY <2>6 DEF Enable, Halt, Interrupt, Goto, WorkInv, WorkTypes, Posted
    <3>3. ASSUME NEW d \in Aps PROVE Stage(d)'
      <4>1. Stage(d) /\ WorkTypes /\ Posted BY <3>3 DEF WorkInv
      <4> QED BY <2>6, <3>3, <4>1, ZenonT(30) DEF Enable, Halt, Interrupt, Goto, WorkTypes, Stage, Working, Untold, Told, Done, OneCall, Posted
    <3> QED BY <3>1, <3>2, <3>3 DEF WorkInv
  <2> QED BY <1>8, <2>1, <2>2, <2>3, <2>4, <2>5, <2>6 DEF Worker
<1>9. CASE UNCHANGED work_vars
  BY <1>9, SMTT(30) DEF work_vars, WorkInv, WorkTypes, Stage, Working, Untold, Told, Done, OneCall, Posted
<1> QED
  BY <1>1, <1>2, <1>3, <1>4, <1>5, <1>6, <1>7, <1>8, <1>9 DEF WorkNext, Poster

\* The stages of the call on each processor are an invariant.
LEMMA WorkInvariance == WorkSpec => []WorkInv
BY WorkInvInit, WorkInvStep, PTL DEF WorkSpec

\* When run_on_all_cpus() returns Ok, every processor has made exactly one call,
\* of this callback with this context.
THEOREM WorkDoneOnceEach == WorkSpec => []OkMeansOnceEach
<1>1. WorkInv => OkMeansOnceEach
  BY DEF WorkInv, OkMeansOnceEach, Stage, Done, OneCall
<1> QED BY <1>1, WorkInvariance, PTL

\* After an Ok no processor is inside the callback, nor has another one to make.
THEOREM WorkQuiet == WorkSpec => []OkMeansQuiet
<1>1. WorkInv => OkMeansQuiet
  BY DEF WorkInv, OkMeansQuiet, Stage, Done, Working
<1> QED BY <1>1, WorkInvariance, PTL

\* What run_on_all_cpus returning Ok means to its caller, both parts together.
THEOREM WorkDone == WorkSpec => []OkMeansDone
<1>1. OkMeansOnceEach /\ OkMeansQuiet => OkMeansDone
  BY DEF OkMeansDone
<1> QED BY <1>1, WorkDoneOnceEach, WorkQuiet, PTL

-------------------------------------------------------------------------------
\* TLB shootdown.

Places == {"idle", "lock", "address", "generation", "local", "post", "ok", "halted"}
TlbTypes ==
  /\ tlb_lock \in Nat /\ tlb_generation \in Nat
  /\ tlb_completed \in [Online -> Nat] /\ hgen \in [Online -> Nat] /\ target \in [Online -> Nat]
  /\ shooter \in [Online -> Places] /\ irq \in [Online -> {"none", "address", "invalidate"}]
  /\ page = [c \in Online |-> page[c]] /\ haddr = [c \in Online |-> haddr[c]]
  /\ stale \in [Online -> SUBSET ((Pages \X Shooters))]

Holding == {"address", "generation", "local", "post"}
Awaited == {"local", "post"}

\* The processor that holds the lock has published its page before the tlb_generation,
\* and has no old translation of its own.
Alone(c) ==
  /\ tlb_lock = c <=> shooter[c] \in Holding
  /\ tlb_completed[c] <= tlb_generation /\ hgen[c] <= tlb_generation
  /\ shooter[c] # "idle" => <<page[c], c>> \notin stale[c]
  /\ shooter[c] \in {"generation", "local", "post"} => address = page[c]
  /\ shooter[c] = "halted" => irq[c] = "none"

\* While c waits for its tlb_generation, a processor d that has reported it has dropped
\* the page, one that is about to report it is about to drop it, and one that has
\* given up will never report it.
Towards(c, d) ==
  /\ shooter[c] \in Awaited =>
       /\ d # c /\ tlb_completed[d] = tlb_generation => <<page[c], c>> \notin stale[d]
       /\ irq[d] = "invalidate" /\ hgen[d] = tlb_generation => haddr[d] = page[c]
       /\ shooter[d] = "halted" => tlb_completed[d] < tlb_generation
  /\ shooter[c] = "ok" => <<page[c], c>> \notin stale[d]

TlbInv == TlbTypes /\ \A c \in Online : Alone(c) /\ \A d \in Online : Towards(c, d)

\* At boot no request is under way.
LEMMA TlbInvInit == TlbInit => TlbInv
BY TlbConstants DEF TlbInit, TlbInv, TlbTypes, Alone, Towards, Online, NoCpu, Places, Holding, Awaited

\* Every step of shootdown_page(), of its caller and of the handler keeps the invariant.
LEMMA TlbInvStep == TlbInv /\ [TlbNext]_tlb_vars => TlbInv'
<1> SUFFICES ASSUME TlbInv, [TlbNext]_tlb_vars PROVE TlbInv'
  OBVIOUS
<1> USE TlbConstants DEF Online, NoCpu, Places, Holding, Awaited
<1>0. /\ TlbTypes
      /\ \A e \in Online : Alone(e)
      /\ \A e, f \in Online : Towards(e, f)
  BY DEF TlbInv
<1>1. ASSUME NEW c \in Shooters, NEW p \in Pages, Shoot(c, p) PROVE TlbInv'
  <2>1. TlbTypes'
    <3>1. stale' \in [Online -> SUBSET (Pages \X Shooters)]
      <4>1. \A d \in Online : stale[d] \cup {<<p, c>>} \subseteq Pages \X Shooters
        BY <1>0, <1>1 DEF TlbTypes
      <4> QED BY <1>0, <1>1, <4>1 DEF Shoot, Invalidate, TlbTypes
    <3> QED BY <1>0, <1>1, <3>1, Zenon DEF Shoot, At, To, handler, TlbTypes
  <2>2. ASSUME NEW e \in Online PROVE Alone(e)'
    BY <1>0, <1>1, SMTT(30) DEF Shoot, At, To, Invalidate, handler, TlbTypes, Alone
  <2>3. ASSUME NEW e \in Online, NEW f \in Online PROVE Towards(e, f)'
    BY <1>0, <1>1, Zenon DEF Shoot, At, To, Invalidate, handler, TlbTypes, Alone, Towards
  <2> QED BY <2>1, <2>2, <2>3 DEF TlbInv
<1>2. ASSUME NEW c \in Shooters, LockTlb(c) PROVE TlbInv'
  <2>1. TlbTypes'
    BY <1>0, <1>2 DEF LockTlb, At, To, handler, TlbTypes
  <2>2. ASSUME NEW e \in Online PROVE Alone(e)'
    BY <1>0, <1>2 DEF LockTlb, At, To, handler, TlbTypes, Alone
  <2>3. ASSUME NEW e \in Online, NEW f \in Online PROVE Towards(e, f)'
    BY <1>0, <1>2 DEF LockTlb, At, To, handler, TlbTypes, Alone, Towards
  <2> QED BY <2>1, <2>2, <2>3 DEF TlbInv
<1>3. ASSUME NEW c \in Shooters, PublishAddress(c) PROVE TlbInv'
  <2>1. TlbTypes'
    BY <1>0, <1>3 DEF PublishAddress, At, To, handler, TlbTypes
  <2>2. ASSUME NEW e \in Online PROVE Alone(e)'
    BY <1>0, <1>3, Zenon DEF PublishAddress, At, To, handler, TlbTypes, Alone
  <2>3. ASSUME NEW e \in Online, NEW f \in Online PROVE Towards(e, f)'
    BY <1>0, <1>3 DEF PublishAddress, At, To, handler, TlbTypes, Alone, Towards
  <2> QED BY <2>1, <2>2, <2>3 DEF TlbInv
<1>4. ASSUME NEW c \in Shooters, PublishGeneration(c) PROVE TlbInv'
  <2>1. TlbTypes'
    BY <1>0, <1>4 DEF PublishGeneration, At, To, handler, TlbTypes
  <2>2. ASSUME NEW e \in Online PROVE Alone(e)'
    BY <1>0, <1>4, SMTT(30) DEF PublishGeneration, At, To, handler, TlbTypes, Alone
  <2>3. ASSUME NEW e \in Online, NEW f \in Online PROVE Towards(e, f)'
    <3>1. tlb_completed[f] < tlb_generation' /\ hgen[f] < tlb_generation'
      <4>1. tlb_completed[f] <= tlb_generation /\ hgen[f] <= tlb_generation
        BY <1>0, <2>3, Zenon DEF Alone
      <4>2. tlb_completed[f] \in Nat /\ hgen[f] \in Nat /\ tlb_generation \in Nat
        BY <1>0, <2>3 DEF TlbTypes
      <4> QED BY <1>4, <4>1, <4>2 DEF PublishGeneration
    <3>2. shooter'[e] = "ok" => shooter[e] = "ok"
      BY <1>0, <1>4, <2>3 DEF PublishGeneration, To, TlbTypes
    <3>3. tlb_completed'[f] < tlb_generation' /\ hgen'[f] # tlb_generation'
      BY <1>0, <1>4, <2>3, <3>1 DEF PublishGeneration, handler, TlbTypes
    <3>4. tlb_completed'[f] # tlb_generation'
      BY <1>0, <1>4, <2>3, <3>3 DEF PublishGeneration, TlbTypes
    <3> QED BY <1>0, <1>4, <2>3, <3>2, <3>3, <3>4 DEF PublishGeneration, Towards
  <2> QED BY <2>1, <2>2, <2>3 DEF TlbInv
<1>5. ASSUME NEW c \in Shooters, CompleteLocal(c) PROVE TlbInv'
  <2>1. TlbTypes'
    BY <1>0, <1>5 DEF CompleteLocal, At, To, handler, TlbTypes
  <2>2. ASSUME NEW e \in Online PROVE Alone(e)'
    BY <1>0, <1>5 DEF CompleteLocal, At, To, handler, TlbTypes, Alone
  <2>3. ASSUME NEW e \in Online, NEW f \in Online PROVE Towards(e, f)'
    BY <1>0, <1>5, Zenon DEF CompleteLocal, At, To, handler, TlbTypes, Alone, Towards
  <2> QED BY <2>1, <2>2, <2>3 DEF TlbInv
<1>6. ASSUME NEW c \in Shooters, SendShootdown(c) PROVE TlbInv'
  <2>1. TlbTypes'
    BY <1>0, <1>6 DEF SendShootdown, At, To, handler, TlbTypes
  <2>2. ASSUME NEW e \in Online PROVE Alone(e)'
    BY <1>0, <1>6, SMTT(30) DEF SendShootdown, At, To, handler, TlbTypes, Alone
  <2>3. ASSUME NEW e \in Online, NEW f \in Online PROVE Towards(e, f)'
    BY <1>0, <1>6, Zenon DEF SendShootdown, At, To, handler, TlbTypes, Alone, Towards
  <2> QED BY <2>1, <2>2, <2>3 DEF TlbInv
<1>7. ASSUME NEW c \in Shooters, FailShootdown(c) PROVE TlbInv'
  <2>1. TlbTypes'
    BY <1>0, <1>7 DEF FailShootdown, At, To, handler, TlbTypes
  <2>2. ASSUME NEW e \in Online PROVE Alone(e)'
    <3>1. tlb_lock = c
      BY <1>0, <1>7, Zenon DEF FailShootdown, At, Alone
    <3>2. shooter'[e] = (IF e = c THEN "halted" ELSE shooter[e]) /\ tlb_lock' = 0
      BY <1>0, <1>7, <2>2 DEF FailShootdown, To, TlbTypes
    <3>3. shooter'[e] \notin Holding
      BY <1>0, <2>2, <3>1, <3>2, Zenon DEF Alone
    <3> QED BY <1>0, <1>7, <2>2, <3>2, <3>3 DEF FailShootdown, At, handler, TlbTypes, Alone
  <2>3. ASSUME NEW e \in Online, NEW f \in Online PROVE Towards(e, f)'
    BY <1>0, <1>7, Zenon DEF FailShootdown, At, To, handler, TlbTypes, Alone, Towards
  <2> QED BY <2>1, <2>2, <2>3 DEF TlbInv
<1>8. ASSUME NEW c \in Shooters, FinishShootdown(c) PROVE TlbInv'
  <2>1. TlbTypes'
    BY <1>0, <1>8 DEF FinishShootdown, At, To, handler, TlbTypes
  <2>2. ASSUME NEW e \in Online PROVE Alone(e)'
    <3>1. tlb_lock = c
      BY <1>0, <1>8, Zenon DEF FinishShootdown, At, Alone
    <3>2. shooter'[e] = (IF e = c THEN "ok" ELSE shooter[e]) /\ tlb_lock' = 0
      BY <1>0, <1>8, <2>2 DEF FinishShootdown, To, TlbTypes
    <3>3. shooter'[e] \notin Holding
      BY <1>0, <2>2, <3>1, <3>2, Zenon DEF Alone
    <3> QED BY <1>0, <1>8, <2>2, <3>2, <3>3 DEF FinishShootdown, At, handler, TlbTypes, Alone
  <2>3. ASSUME NEW e \in Online, NEW f \in Online PROVE Towards(e, f)'
    BY <1>0, <1>8 DEF FinishShootdown, At, To, handler, TlbTypes, Alone, Towards
  <2> QED BY <2>1, <2>2, <2>3 DEF TlbInv
<1>9. ASSUME NEW c \in Shooters, Return(c) PROVE TlbInv'
  <2>1. TlbTypes'
    BY <1>0, <1>9, Zenon DEF Return, At, To, handler, TlbTypes
  <2>2. ASSUME NEW e \in Online PROVE Alone(e)'
    BY <1>0, <1>9, Zenon DEF Return, At, To, handler, TlbTypes, Alone
  <2>3. ASSUME NEW e \in Online, NEW f \in Online PROVE Towards(e, f)'
    BY <1>0, <1>9 DEF Return, At, To, handler, TlbTypes, Alone, Towards
  <2> QED BY <2>1, <2>2, <2>3 DEF TlbInv
<1>10. ASSUME NEW c \in Online, TakeIpi(c) PROVE TlbInv'
  <2>1. TlbTypes'
    BY <1>0, <1>10 DEF TakeIpi, Open, caller, TlbTypes
  <2>2. ASSUME NEW e \in Online PROVE Alone(e)'
    BY <1>0, <1>10 DEF TakeIpi, Open, caller, TlbTypes, Alone
  <2>3. ASSUME NEW e \in Online, NEW f \in Online PROVE Towards(e, f)'
    BY <1>0, <1>10 DEF TakeIpi, Open, caller, TlbTypes, Alone, Towards
  <2> QED BY <2>1, <2>2, <2>3 DEF TlbInv
<1>11. ASSUME NEW c \in Online, LoadAddress(c) PROVE TlbInv'
  <2>1. TlbTypes'
    BY <1>0, <1>11, Zenon DEF LoadAddress, caller, TlbTypes
  <2>2. ASSUME NEW e \in Online PROVE Alone(e)'
    BY <1>0, <1>11 DEF LoadAddress, caller, TlbTypes, Alone
  <2>3. ASSUME NEW e \in Online, NEW f \in Online PROVE Towards(e, f)'
    BY <1>0, <1>11 DEF LoadAddress, caller, TlbTypes, Alone, Towards
  <2> QED BY <2>1, <2>2, <2>3 DEF TlbInv
<1>12. ASSUME NEW c \in Online, Report(c) PROVE TlbInv'
  <2>1. TlbTypes'
    BY <1>0, <1>12 DEF Report, caller, Invalidate, TlbTypes
  <2>2. ASSUME NEW e \in Online PROVE Alone(e)'
    BY <1>0, <1>12 DEF Report, caller, Invalidate, TlbTypes, Alone
  <2>3. ASSUME NEW e \in Online, NEW f \in Online PROVE Towards(e, f)'
    BY <1>0, <1>12, Zenon DEF Report, caller, Invalidate, TlbTypes, Alone, Towards
  <2> QED BY <2>1, <2>2, <2>3 DEF TlbInv
<1>13. CASE UNCHANGED tlb_vars
  BY <1>0, <1>13, SMTT(30) DEF tlb_vars, caller, handler, TlbInv, TlbTypes, Alone, Towards
<1> QED
  BY <1>1, <1>2, <1>3, <1>4, <1>5, <1>6, <1>7, <1>8, <1>9, <1>10, <1>11, <1>12, <1>13, SMTT(30)
     DEF TlbNext, Calling, Handling

\* What is known of each request is an invariant.
LEMMA TlbInvariance == TlbSpec => []TlbInv
BY TlbInvInit, TlbInvStep, PTL DEF TlbSpec

\* When shootdown_page() returns Ok no processor still holds the translation that
\* its caller withdrew.
THEOREM ShootdownReachesAll == TlbSpec => []OkMeansInvalidated
<1>1. TlbInv => OkMeansInvalidated
  BY DEF TlbInv, OkMeansInvalidated, Towards
<1> QED BY <1>1, TlbInvariance, PTL

\* Once a processor has given up in invalidate_page(), no shootdown returns Ok any more.
THEOREM ShootdownFailsClosed == TlbSpec => FailClosed
<1>1. TlbInv /\ [TlbNext]_tlb_vars
      => [(\E c \in Online : shooter[c] = "halted") => \A d \in Online : shooter'[d] = "ok" => shooter[d] = "ok"]_tlb_vars
  <2> SUFFICES ASSUME TlbInv, TlbNext, NEW c \in Online, shooter[c] = "halted",
                      NEW d \in Online, shooter'[d] = "ok", shooter[d] # "ok"
               PROVE  FALSE
    BY Zenon DEF tlb_vars
  <2> USE TlbConstants DEF TlbInv, TlbTypes, At, To
  <2>1. FinishShootdown(d)
    BY ZenonT(30) DEF TlbNext, Calling, Handling, Shoot, LockTlb, PublishAddress, PublishGeneration, CompleteLocal,
           SendShootdown, FailShootdown, FinishShootdown, Return, TakeIpi, LoadAddress, Report, caller, handler, Places
  <2>2. shooter[d] = "post" /\ tlb_completed[c] = tlb_generation
    BY <2>1 DEF FinishShootdown
  <2>3. tlb_completed[c] < tlb_generation
    BY <2>2, Zenon DEF Towards, Awaited
  <2> QED BY <2>2, <2>3
<1> QED BY <1>1, TlbInvariance, PTL DEF TlbSpec, FailClosed

-------------------------------------------------------------------------------
\* The lock is first come, first served.

\* The processors W that drew the tickets from s to x, in ticket order.
QueueOf(W, s, x, tk) ==
  [i \in 1..Ahead(s, x) |-> CHOOSE c \in W : Ahead(s, tk[c]) = i - 1]
Drawn(W, s, x, tk) ==
  /\ W \in SUBSET Cpus /\ s \in Tickets /\ x \in Tickets /\ tk \in [Cpus -> Tickets]
  /\ Ahead(s, x) = Cardinality(W)
  /\ \A c \in W : Ahead(s, tk[c]) < Ahead(s, x)
  /\ \A c, d \in W : tk[c] = tk[d] => c = d

\* No ticket is skipped: as many processors hold different tickets between
\* serving_ and next_ticket_ as there are tickets, so each is somebody's.
LEMMA EveryTicketTaken ==
  ASSUME NEW W, NEW s, NEW x, NEW tk, Drawn(W, s, x, tk), NEW i \in 1..Ahead(s, x)
  PROVE  \E c \in W : Ahead(s, tk[c]) = i - 1
<1>1. IsFiniteSet(W) /\ Cardinality(W) \in Nat
  BY CpusFinite, FS_Subset, FS_CardinalityType DEF Drawn
<1>2. /\ IsFiniteSet(0..(Ahead(s, x) - 1))
      /\ Cardinality(0..(Ahead(s, x) - 1)) = Ahead(s, x)
  <2>1. Ahead(s, x) \in Nat
    BY <1>1 DEF Drawn
  <2>2. 0 \in Int /\ Ahead(s, x) - 1 \in Int
    BY <2>1
  <2>3. IF 0 > Ahead(s, x) - 1 THEN Ahead(s, x) = 0 ELSE Ahead(s, x) = Ahead(s, x) - 1 - 0 + 1
    BY <2>1
  <2> QED BY <2>1, <2>2, <2>3, FS_Interval
<1> DEFINE T == (0..(Ahead(s, x) - 1)) \ {i - 1}
           f == [c \in W |-> Ahead(s, tk[c])]
<1>3. IsFiniteSet(T) /\ Cardinality(T) = Ahead(s, x) - 1
  <2>1. i - 1 \in 0..(Ahead(s, x) - 1)
    BY <1>1 DEF Drawn
  <2> QED BY <2>1, <1>2, FS_RemoveElement, Zenon
<1>4. SUFFICES ASSUME ~ \E c \in W : Ahead(s, tk[c]) = i - 1
               PROVE  FALSE
  OBVIOUS
<1>5. f \in [W -> T]
  <2>1. ASSUME NEW c \in W
        PROVE  Ahead(s, tk[c]) \in T
    <3>1. tk[c] \in Tickets /\ s \in Tickets
      BY DEF Drawn
    <3>2. Ahead(s, tk[c]) \in 0..(Wrap - 1)
      BY <3>1, AheadType
    <3>3. Ahead(s, tk[c]) < Ahead(s, x) /\ Ahead(s, x) \in Nat
      BY <1>1 DEF Drawn
    <3>4. Ahead(s, tk[c]) # i - 1
      BY <1>4
    <3> QED BY <3>2, <3>3, <3>4
  <2> QED BY <2>1
<1>6. Cardinality(T) < Cardinality(W)
  BY <1>1, <1>3 DEF Drawn
<1> HIDE DEF T
<1>7. PICK c \in W, d \in W : c # d /\ f[c] = f[d]
  <2> HIDE DEF f
  <2> QED BY <1>1, <1>3, <1>5, <1>6, FS_PigeonHole
<1>8. Ahead(s, tk[c]) = Ahead(s, tk[d])
  BY <1>7
<1>9. tk[c] \in Tickets /\ tk[d] \in Tickets /\ s \in Tickets
  BY DEF Drawn
<1>10. tk[c] = tk[d]
  BY <1>8, <1>9, AheadInjective
<1> QED BY <1>7, <1>10 DEF Drawn

\* The queue lists exactly the processors that drew a ticket, each at the place
\* its ticket has behind serving_.
LEMMA QueueListsTickets ==
  ASSUME NEW W, NEW s, NEW x, NEW tk, Drawn(W, s, x, tk),
         NEW q, q = QueueOf(W, s, x, tk), NEW n, n = Ahead(s, x)
  PROVE  /\ q \in Seq(W) /\ Len(q) = n /\ n \in Nat
         /\ \A i \in 1..n : q[i] \in W /\ Ahead(s, tk[q[i]]) = i - 1
         /\ \A c \in W : Ahead(s, tk[c]) + 1 \in 1..n /\ q[Ahead(s, tk[c]) + 1] = c
<1>1. Ahead(s, x) \in Nat
  BY CpusFinite, FS_Subset, FS_CardinalityType DEF Drawn
<1>2. ASSUME NEW i \in 1..Ahead(s, x)
      PROVE  q[i] \in W /\ Ahead(s, tk[q[i]]) = i - 1
  <2>1. q[i] = CHOOSE c \in W : Ahead(s, tk[c]) = i - 1
    BY DEF QueueOf
  <2>2. \E c \in W : Ahead(s, tk[c]) = i - 1
    BY EveryTicketTaken
  <2> QED BY <2>1, <2>2, Zenon
<1>3. q \in [1..Ahead(s, x) -> W]
  BY <1>2 DEF QueueOf
<1>4. q \in Seq(W) /\ Len(q) = Ahead(s, x)
  BY <1>1, <1>3
<1>5. ASSUME NEW c \in W
      PROVE  Ahead(s, tk[c]) + 1 \in 1..Ahead(s, x) /\ q[Ahead(s, tk[c]) + 1] = c
  <2>1. tk[c] \in Tickets /\ s \in Tickets
    BY DEF Drawn
  <2>2. Ahead(s, tk[c]) \in Nat /\ Ahead(s, tk[c]) < Ahead(s, x)
    BY <2>1, AheadType DEF Drawn
  <2>3. Ahead(s, tk[c]) + 1 \in 1..Ahead(s, x)
    BY <2>2, <1>1
  <2> DEFINE d == q[Ahead(s, tk[c]) + 1]
  <2>4. d \in W /\ Ahead(s, tk[d]) = Ahead(s, tk[c])
    BY <1>2, <2>2, <2>3
  <2> HIDE DEF d
  <2>5. tk[d] \in Tickets
    BY <2>4 DEF Drawn
  <2>6. tk[d] = tk[c]
    BY <2>1, <2>4, <2>5, AheadInjective
  <2>7. d = c
    BY <2>4, <2>6 DEF Drawn
  <2> QED BY <2>3, <2>7 DEF d
<1> QED BY <1>1, <1>2, <1>4, <1>5

\* A sequence that has every processor at its ticket's place is the queue.
LEMMA QueueIs ==
  ASSUME NEW W, NEW s, NEW x, NEW tk, Drawn(W, s, x, tk),
         NEW q \in Seq(W), Len(q) = Ahead(s, x),
         \A i \in 1..Ahead(s, x) : Ahead(s, tk[q[i]]) = i - 1
  PROVE  QueueOf(W, s, x, tk) = q
<1>0. PICK r : r = QueueOf(W, s, x, tk)
  BY Zenon
<1>1. /\ r \in Seq(W) /\ Len(r) = Ahead(s, x) /\ Ahead(s, x) \in Nat
      /\ \A c \in W : r[Ahead(s, tk[c]) + 1] = c
  BY <1>0, QueueListsTickets
<1>2. ASSUME NEW i \in 1..Len(r)
      PROVE  r[i] = q[i]
  <2>1. q[i] \in W /\ Ahead(s, tk[q[i]]) = i - 1
    BY <1>1
  <2>2. r[(i - 1) + 1] = q[i]
    BY <1>1, <2>1
  <2> QED BY <2>2, <1>1
<1>3. r = q
  BY <1>1, <1>2, SeqEqual
<1> QED BY <1>0, <1>3

\* In every state of the lock the queue is the one of its tickets.
LEMMA TicketsDrawn ==
  /\ TypeOK /\ TicketInv => Drawn(Waiting, serving, next_ticket, ticket)
  /\ TypeOK' /\ TicketInv' => Drawn(Waiting', serving', next_ticket', ticket')
  /\ Queue = QueueOf(Waiting, serving, next_ticket, ticket)
  /\ Queue' = QueueOf(Waiting', serving', next_ticket', ticket')
<1>1. Waiting \in SUBSET Cpus /\ Waiting' \in SUBSET Cpus
  BY DEF Waiting
<1>2. TypeOK /\ TicketInv => Drawn(Waiting, serving, next_ticket, ticket)
  BY <1>1 DEF TypeOK, TicketInv, Drawn
<1>3. TypeOK' /\ TicketInv' => Drawn(Waiting', serving', next_ticket', ticket')
  BY <1>1 DEF TypeOK, TicketInv, Drawn, Tickets, Ahead
<1>4. Queue = QueueOf(Waiting, serving, next_ticket, ticket)
  BY DEF Queue, QueueOf
<1>5. Queue' = QueueOf(Waiting', serving', next_ticket', ticket')
  BY SMTT(30) DEF Queue, QueueOf, Ahead
<1> QED BY <1>2, <1>3, <1>4, <1>5

Held == {c \in Cpus : pc[c] = "held"}

\* The queue before a step, place by place.
LEMMA QueueBefore ==
  ASSUME TypeOK, TicketInv, NEW n, n = Ahead(serving, next_ticket)
  PROVE  /\ Queue \in Seq(Waiting) /\ Len(Queue) = n /\ n \in Nat
         /\ \A i \in 1..n : Queue[i] \in Waiting /\ Ahead(serving, ticket[Queue[i]]) = i - 1
         /\ \A c \in Waiting : /\ Ahead(serving, ticket[c]) + 1 \in 1..n
                               /\ Queue[Ahead(serving, ticket[c]) + 1] = c
BY TicketsDrawn, QueueListsTickets

\* What makes a sequence the queue after a step.
LEMMA QueueAfter ==
  ASSUME TypeOK', TicketInv', NEW q \in Seq(Waiting'),
         NEW n, n = Ahead(serving', next_ticket'), Len(q) = n,
         \A i \in 1..n : Ahead(serving', ticket'[q[i]]) = i - 1
  PROVE  Queue' = q
BY TicketsDrawn, QueueIs

\* A step that draws and serves no ticket leaves the queue as it is.
LEMMA QueueStays ==
  ASSUME TypeOK, TicketInv, TypeOK', TicketInv',
         UNCHANGED <<serving, next_ticket>>, Waiting' = Waiting,
         \A d \in Waiting : ticket'[d] = ticket[d]
  PROVE  Queue' = Queue
<1>0. PICK n : n = Ahead(serving, next_ticket)
  BY Zenon
<1>1. /\ Queue \in Seq(Waiting) /\ Len(Queue) = n
      /\ \A i \in 1..n : Queue[i] \in Waiting /\ Ahead(serving, ticket[Queue[i]]) = i - 1
  BY <1>0, QueueBefore
<1>2. \A i \in 1..n : Ahead(serving, ticket'[Queue[i]]) = i - 1
  BY <1>1
<1>3. PICK q : q = Queue
  BY Zenon
<1>4. Queue' = q
  BY <1>0, <1>1, <1>2, <1>3, QueueAfter
<1> QED BY <1>3, <1>4

\* Drawing a ticket puts the processor at the end of the queue.
LEMMA QueueGrows ==
  ASSUME TypeOK, TicketInv, TypeOK', TicketInv',
         NEW c \in Cpus, c \notin Waiting, Waiting' = Waiting \cup {c},
         serving' = serving, next_ticket' = Inc(next_ticket),
         ticket' = [ticket EXCEPT ![c] = next_ticket]
  PROVE  /\ Queue' = Append(Queue, c)
         /\ Queue \in Seq(Waiting) /\ Len(Queue) = Ahead(serving, next_ticket)
<1>0. PICK n : n = Ahead(serving, next_ticket)
  BY Zenon
<1>1. /\ Queue \in Seq(Waiting) /\ Len(Queue) = n /\ n \in Nat
      /\ \A i \in 1..n : Queue[i] \in Waiting /\ Ahead(serving, ticket[Queue[i]]) = i - 1
  BY <1>0, QueueBefore
<1>2. Ahead(serving', next_ticket') = n + 1
  <2>1. n < Wrap - 1
    BY <1>0, WaitingRoom, WaitingFinite, WrapLarge DEF N, TicketInv
  <2>2. serving \in Tickets /\ next_ticket \in Tickets
    BY DEF TypeOK
  <2> QED BY <1>0, <2>1, <2>2, AheadIncRight, SMTT(30)
<1>3. /\ ticket'[c] = next_ticket
      /\ \A d \in Waiting : ticket'[d] = ticket[d]
  <2>1. Waiting \in SUBSET Cpus /\ ticket \in [Cpus -> Tickets]
    BY DEF Waiting, TypeOK
  <2> QED BY <2>1
<1>4. PICK q : q = Append(Queue, c)
  BY Zenon
<1>5. /\ q \in Seq(Waiting') /\ Len(q) = n + 1
      /\ \A i \in 1..n : q[i] = Queue[i]
      /\ q[n + 1] = c
  <2>1. Queue \in Seq(Waiting') /\ c \in Waiting'
    BY <1>1, SeqMonotonic
  <2> QED BY <2>1, <1>1, <1>4, AppendProperties
<1>6. \A i \in 1..(n + 1) : Ahead(serving', ticket'[q[i]]) = i - 1
  <2>1. ASSUME NEW i \in 1..n
        PROVE  Ahead(serving', ticket'[q[i]]) = i - 1
    BY <1>1, <1>3, <1>5
  <2>2. Ahead(serving', ticket'[q[n + 1]]) = (n + 1) - 1
    BY <1>0, <1>1, <1>3, <1>5
  <2> QED BY <1>1, <2>1, <2>2
<1>7. Queue' = q
  BY <1>2, <1>5, <1>6, QueueAfter
<1> QED BY <1>0, <1>1, <1>4, <1>7

\* Serving the next ticket takes the first processor off the queue.
LEMMA QueueAdvances ==
  ASSUME TypeOK, TicketInv, TypeOK', TicketInv', NEW c \in Cpus, Unlock(c)
  PROVE  Queue' = Tail(Queue)
<1>0. PICK n : n = Ahead(serving, next_ticket)
  BY Zenon
<1>1. /\ Queue \in Seq(Waiting) /\ Len(Queue) = n /\ n \in Nat
      /\ \A i \in 1..n : Queue[i] \in Waiting /\ Ahead(serving, ticket[Queue[i]]) = i - 1
  BY <1>0, QueueBefore
<1>2. /\ c \in Waiting /\ Waiting' = Waiting \ {c} /\ ticket[c] = serving
      /\ serving' = Inc(serving) /\ next_ticket' = next_ticket /\ ticket' = ticket
      /\ serving \in Tickets /\ next_ticket \in Tickets
      /\ \A d \in Waiting : ticket[d] \in Tickets
  <2>1. /\ pc[c] = "held" /\ pc' = [pc EXCEPT ![c] = "idle"]
        /\ serving' = Inc(serving) /\ next_ticket' = next_ticket /\ ticket' = ticket
    BY DEF Unlock
  <2>2. c \in Waiting /\ Waiting' = Waiting \ {c}
    BY <2>1 DEF TypeOK, Waiting
  <2>3. serving \in Tickets /\ next_ticket \in Tickets /\ \A d \in Waiting : ticket[d] \in Tickets
    BY DEF TypeOK, Waiting
  <2>4. ticket[c] = serving
    BY <2>1, Zenon DEF TicketInv
  <2> QED BY <2>1, <2>2, <2>3, <2>4
<1>3. n # 0 /\ serving # next_ticket /\ Ahead(serving, serving) = 0
  <2>1. Ahead(serving, ticket[c]) < n
    BY <1>0, <1>2, Zenon DEF TicketInv
  <2>2. Ahead(serving, serving) = 0 /\ (n = 0 <=> serving = next_ticket)
    BY <1>0, <1>2, AheadType
  <2>3. Ahead(serving, serving) < n
    BY <1>2, <2>1, Zenon
  <2> QED BY <1>1, <2>2, <2>3
<1>4. Ahead(serving', next_ticket') = n - 1
  BY <1>0, <1>2, <1>3, AheadIncLeft
<1>5. PICK q : q = Tail(Queue)
  BY Zenon
<1>6. q \in Seq(Waiting) /\ Len(q) = n - 1 /\ \A i \in 1..(n - 1) : q[i] = Queue[i + 1]
  <2>1. Queue # <<>>
    BY <1>1, <1>3
  <2> QED BY <2>1, <1>1, <1>5, HeadTailProperties
<1>7. ASSUME NEW i \in 1..(n - 1)
      PROVE  q[i] \in Waiting' /\ Ahead(serving', ticket'[q[i]]) = i - 1
  <2>1. q[i] \in Waiting /\ Ahead(serving, ticket[q[i]]) = i /\ i # 0
    <3>1. i + 1 \in 1..n /\ (i + 1) - 1 = i /\ i # 0
      BY <1>1
    <3>2. q[i] = Queue[i + 1]
      BY <1>6
    <3>3. Queue[i + 1] \in Waiting /\ Ahead(serving, ticket[Queue[i + 1]]) = (i + 1) - 1
      BY <1>1, <3>1, Zenon
    <3> QED BY <3>1, <3>2, <3>3
  <2>2. q[i] # c /\ ticket[q[i]] # serving
    BY <2>1, <1>2, <1>3
  <2>3. Ahead(serving', ticket[q[i]]) = i - 1
    BY <2>1, <2>2, <1>2, AheadIncLeft
  <2> QED BY <2>1, <2>2, <2>3, <1>2
<1>8. q \in Seq(Waiting')
  <2>1. q \in [1..(n - 1) -> Waiting']
    BY <1>1, <1>3, <1>6, <1>7, LenProperties
  <2> QED BY <2>1, <1>1, <1>3
<1>9. Queue' = q
  BY <1>4, <1>6, <1>7, <1>8, QueueAfter
<1> QED BY <1>5, <1>9

\* The processor that leaves the spin loop, or holds the lock, is the first of
\* the queue.
LEMMA ServedIsFirst ==
  ASSUME TypeOK, TicketInv, NEW c \in Waiting, ticket[c] = serving
  PROVE  Queue # <<>> /\ Head(Queue) = c
<1>1. Ahead(serving, ticket[c]) = 0
  BY AheadType DEF TypeOK
<1>2. PICK n : n = Ahead(serving, next_ticket)
  BY Zenon
<1>3. Queue \in Seq(Waiting) /\ Len(Queue) = n /\ 0 + 1 \in 1..n /\ Queue[0 + 1] = c
  BY <1>1, <1>2, QueueBefore, SMTT(30)
<1> QED BY <1>3

\* Every access of the class is a step of the first-come, first-served lock, or
\* changes nothing its callers can see.
LEMMA FifoStep ==
  ASSUME TypeOK, TicketInv, TypeOK', TicketInv', [Next]_vars
  PROVE  [Fifo!AbsNext]_<<Queue, Held>>
<1> USE DEF Held
<1>0. pc \in [Cpus -> {"idle", "spin", "held", "loaded", "cas"}] /\ ticket \in [Cpus -> Tickets]
  BY DEF TypeOK
<1>1. CASE UNCHANGED vars
  BY <1>1 DEF vars, Queue, Waiting, Ahead
<1>2. ASSUME NEW c \in Cpus, Lock(c)
      PROVE  Fifo!Request(c)
  <2>1. c \notin Waiting /\ Waiting' = Waiting \cup {c}
    BY <1>0, <1>2 DEF Lock, Waiting
  <2>2. Queue' = Append(Queue, c) /\ Queue \in Seq(Waiting)
    BY <2>1, <1>2, QueueGrows, Zenon DEF Lock, DrawTicket
  <2>3. c \notin {Queue[i] : i \in 1..Len(Queue)}
    BY <2>1, <2>2
  <2>4. Held' = Held
    BY <1>0, <1>2 DEF Lock
  <2> QED BY <2>2, <2>3, <2>4 DEF Fifo!Request, Fifo!Queued
<1>3. ASSUME NEW c \in Cpus, LeaveSpin(c)
      PROVE  Fifo!Grant(c)
  <2>1. Waiting' = Waiting /\ c \in Waiting /\ ticket[c] = serving
    BY <1>0, <1>3 DEF LeaveSpin, Waiting
  <2>2. Queue' = Queue
    BY <2>1, <1>3, QueueStays DEF LeaveSpin
  <2>3. Queue # <<>> /\ Head(Queue) = c
    BY <2>1, ServedIsFirst
  <2>4. c \notin Held /\ Held' = Held \cup {c}
    BY <1>0, <1>3 DEF LeaveSpin
  <2> QED BY <2>2, <2>3, <2>4 DEF Fifo!Grant
<1>4. ASSUME NEW c \in Cpus, Unlock(c)
      PROVE  Fifo!Return(c)
  <2>1. Queue' = Tail(Queue)
    BY <1>4, QueueAdvances
  <2>2. c \in Held /\ Held' = Held \ {c}
    BY <1>0, <1>4 DEF Unlock
  <2> QED BY <2>1, <2>2 DEF Fifo!Return
<1>5. ASSUME NEW c \in Cpus, TryLoadServing(c) \/ TryLoadNext(c) \/ TryExchangeFails(c)
      PROVE  UNCHANGED <<Queue, Held>>
  <2>1. Waiting' = Waiting /\ \A d \in Waiting : ticket'[d] = ticket[d]
    BY <1>0, <1>5 DEF TryLoadServing, TryLoadNext, TryExchangeFails, Waiting
  <2>2. Queue' = Queue
    BY <2>1, <1>5, QueueStays DEF TryLoadServing, TryLoadNext, TryExchangeFails
  <2>3. Held' = Held
    BY <1>0, <1>5 DEF TryLoadServing, TryLoadNext, TryExchangeFails
  <2> QED BY <2>2, <2>3
<1>6. ASSUME NEW c \in Cpus, TryExchange(c)
      PROVE  Fifo!GrantAtOnce(c)
  <2>1. /\ c \notin Waiting /\ Waiting' = Waiting \cup {c}
        /\ Trying(c) /\ next_ticket = ticket[c]
    BY <1>0, <1>6 DEF TryExchange, Waiting, Trying
  <2>2. ticket' = [ticket EXCEPT ![c] = next_ticket]
    BY <2>1, <1>0, <1>6 DEF TryExchange
  <2>3. /\ Queue' = Append(Queue, c)
        /\ Queue \in Seq(Waiting) /\ Len(Queue) = Ahead(serving, next_ticket)
    BY <2>1, <2>2, <1>6, QueueGrows DEF TryExchange, DrawTicket
  <2>4. Ahead(serving, next_ticket) = 0
    BY <2>1, ExchangeFindsLockFree, AheadType DEF TypeOK
  <2>5. Queue = <<>>
    BY <2>3, <2>4
  <2>6. Queue' = <<c>>
    BY <2>3, <2>5
  <2>7. Held' = Held \cup {c}
    BY <1>0, <1>6 DEF TryExchange
  <2> QED BY <2>5, <2>6, <2>7 DEF Fifo!GrantAtOnce
<1> QED
  BY <1>1, <1>2, <1>3, <1>4, <1>5, <1>6 DEF Next, Fifo!AbsNext

\* The ticket lock implements the first-come, first-served lock: tickets are
\* served in the order they were drawn, a try_lock() gets in only when nobody
\* waits, and the counters' wrap changes nothing of this.
THEOREM LockIsFifo == Spec => FifoSpec
<1>1. Init => Fifo!AbsInit
  <2> SUFFICES ASSUME Init PROVE Fifo!AbsInit
    OBVIOUS
  <2>2. Ahead(serving, next_ticket) = 0
    BY DEF Init, Ahead
  <2>3. Queue = <<>>
    <3>1. TypeOK /\ TicketInv
      BY TicketStart
    <3>2. Queue \in Seq(Waiting) /\ Len(Queue) = 0
      BY <3>1, <2>2, QueueBefore
    <3> QED BY <3>2
  <2>4. {c \in Cpus : pc[c] = "held"} = {}
    BY DEF Init
  <2> QED BY <2>3, <2>4 DEF Fifo!AbsInit
<1>2. (TypeOK /\ TicketInv) /\ (TypeOK /\ TicketInv)' /\ [Next]_vars => [Fifo!AbsNext]_(Fifo!absVars)
  BY FifoStep DEF Held, Fifo!absVars
<1> QED
  BY <1>1, <1>2, TicketInvariance, PTL DEF Spec, FifoSpec, Fifo!AbsSpec
===============================================================================
