------------------------------ MODULE Supervisor ------------------------------
(***************************************************************************)
(* PID 1 (src/userspace/system/init/main.c): it starts the system services *)
(* in order, waits for the login gate to stay up, and then goes round the  *)
(* services for ever, starting the dead ones again a bounded number of     *)
(* times, and the login as often as it ends.  When the login cannot be     *)
(* kept, it becomes the supervisor of a console shell.  wait() and spawn() *)
(* are the kernel's (Process): a step each, with the deaths of children in *)
(* between.  Delays are left out.                 *)
(***************************************************************************)
EXTENDS Naturals, Sequences, FiniteSets

CONSTANTS
  Watched,                \* the services, in the order they are started and looked at
  SERVICE_RESTART_LIMIT,
  LOGIN_ATTEMPTS,         \* tries of the login gate at boot
  MaxDeaths, MaxSpawnFaults   \* bounds: children that end, spawns that fail

VARIABLES
  children,    \* every process init started, by PID
  watch,       \* service_watch of each service: PID and restarts
  session,     \* session_pid, 0 when the spawn failed
  at,          \* where init is: [phase, index]
  misfortune   \* deaths and failed spawns so far

supervisor_vars == <<children, watch, session, at, misfortune>>

ServicesWatched == 1..Len(Watched)
Phase(phase, k) == [phase |-> phase, index |-> k]

SupervisorInit ==
  /\ children = <<>>
  /\ watch = [k \in ServicesWatched |-> [pid |-> 0, restarts |-> 0]]
  /\ session = 0
  /\ at = Phase("start", 1)
  /\ misfortune = [deaths |-> 0, faults |-> 0]

-------------------------------------------------------------------------------
\* The kernel: spawn() gives the next PID or fails, wait() reaps a child that
\* ended and blocks nobody.
Spawned(name) == Append(children, [name |-> name, state |-> "running"])
NewPid == Len(children) + 1

MayFail == misfortune.faults < MaxSpawnFaults
CountFault == misfortune' = [misfortune EXCEPT !.faults = @ + 1]

Wait(pid) ==
  IF pid = 0 \/ pid > Len(children) THEN "not_found"
  ELSE CASE children[pid].state = "running" -> "would_block"
         [] children[pid].state = "zombie" -> "ok"
         [] children[pid].state = "reaped" -> "not_found"
Reaped(pid) == IF Wait(pid) = "ok" THEN [children EXCEPT ![pid].state = "reaped"] ELSE children

ChildEnds(pid) ==
  /\ children[pid].state = "running" /\ misfortune.deaths < MaxDeaths
  /\ children' = [children EXCEPT ![pid].state = "zombie"]
  /\ misfortune' = [misfortune EXCEPT !.deaths = @ + 1]
  /\ UNCHANGED <<watch, session, at>>

-------------------------------------------------------------------------------
\* The services are started in order; init ends when one cannot be.
StartService ==
  /\ at.phase = "start"
  /\ \/ /\ children' = Spawned(Watched[at.index])
        /\ watch' = [watch EXCEPT ![at.index].pid = NewPid]
        /\ at' = IF at.index < Len(Watched) THEN Phase("start", at.index + 1) ELSE Phase("login", 1)
        /\ UNCHANGED misfortune
     \/ /\ MayFail /\ CountFault /\ at' = Phase("ended", 0) /\ UNCHANGED <<children, watch>>
  /\ UNCHANGED session

\* The login gate at boot: spawn it, look whether it is still up, and try a few
\* times before the console.
SpawnLogin ==
  /\ at.phase = "login"
  /\ \/ children' = Spawned("login") /\ session' = NewPid /\ UNCHANGED misfortune
     \/ MayFail /\ CountFault /\ session' = 0 /\ UNCHANGED children
  /\ at' = Phase("probe", at.index)
  /\ UNCHANGED watch

ProbeLogin ==
  /\ at.phase = "probe"
  /\ children' = Reaped(session)
  /\ at' = IF session # 0 /\ Wait(session) = "would_block" THEN Phase("first", 1)
           ELSE IF at.index = LOGIN_ATTEMPTS THEN Phase("fallback", 0)
           ELSE Phase("login", at.index + 1)
  /\ UNCHANGED <<watch, session, misfortune>>

\* supervise_service(): a child that is running is left alone, one that ended
\* (or cannot be found) is started again, unless it was too often.  The first
\* round ("first") and all others ("round") differ in the exit codes only.
\* NextService_but_last is a mutant that never looks at the last service.
NextService_but_last(phase) ==
  IF at.index + 1 < Len(Watched) THEN Phase(phase, at.index + 1)
  ELSE IF phase = "first" THEN Phase("round", 1) ELSE Phase("session", 0)
NextService(phase) ==
  IF at.index < Len(Watched) THEN Phase(phase, at.index + 1)
  ELSE IF phase = "first" THEN Phase("round", 1) ELSE Phase("session", 0)

StartAgain(w, pid) == [pid |-> pid, restarts |-> w.restarts + 1]

SuperviseService ==
  /\ at.phase \in {"first", "round"}
  /\ LET w == watch[at.index] IN
     /\ children' = Reaped(w.pid)
     /\ at' = IF Wait(w.pid) = "would_block" THEN NextService(at.phase)
              ELSE IF w.restarts >= SERVICE_RESTART_LIMIT THEN Phase("ended", 0)
              ELSE [phase |-> "restart", index |-> at.index, from |-> at.phase]
  /\ UNCHANGED <<watch, session, misfortune>>

RestartService ==
  /\ at.phase = "restart"
  /\ \/ /\ children' = Spawned(Watched[at.index])
        /\ watch' = [watch EXCEPT ![at.index] = StartAgain(@, NewPid)]
        /\ at' = NextService(at.from)
        /\ UNCHANGED misfortune
     \/ /\ MayFail /\ CountFault /\ at' = Phase("ended", 0) /\ UNCHANGED <<children, watch>>
  /\ UNCHANGED session

\* The login gate in the main loop: it is started again when it ended, with two
\* tries.
SuperviseSession ==
  /\ at.phase = "session"
  /\ children' = Reaped(session)
  /\ at' = CASE Wait(session) = "would_block" -> Phase("round", 1)
             [] Wait(session) = "ok" -> Phase("relogin", 1)
             [] Wait(session) = "not_found" -> Phase("fallback", 0)
  /\ UNCHANGED <<watch, session, misfortune>>

RestartSession ==
  /\ at.phase = "relogin"
  /\ \/ children' = Spawned("login") /\ session' = NewPid /\ at' = Phase("round", 1) /\ UNCHANGED misfortune
     \/ /\ MayFail /\ CountFault /\ session' = 0
        /\ at' = IF at.index = 1 THEN Phase("relogin", 2) ELSE Phase("fallback", 0)
        /\ UNCHANGED children
  /\ UNCHANGED watch

\* run_console_fallback(): the display may be refused; the shell is waited for
\* and started again, and the services are not looked at any more.
ConsoleFallback ==
  /\ at.phase = "fallback"
  /\ at' \in {Phase("shell", 0), Phase("ended", 0)}
  /\ UNCHANGED <<children, watch, session, misfortune>>

SpawnShell ==
  /\ at.phase = "shell"
  /\ \/ children' = Spawned("shell") /\ at' = Phase("wait shell", NewPid) /\ UNCHANGED misfortune
     \/ MayFail /\ CountFault /\ at' = Phase("ended", 0) /\ UNCHANGED children
  /\ UNCHANGED <<watch, session>>

WaitShell ==
  /\ at.phase = "wait shell" /\ Wait(at.index) = "ok"
  /\ children' = Reaped(at.index) /\ at' = Phase("shell", 0)
  /\ UNCHANGED <<watch, session, misfortune>>

InitStep ==
  \/ StartService
  \/ SpawnLogin
  \/ ProbeLogin
  \/ SuperviseService
  \/ RestartService
  \/ SuperviseSession
  \/ RestartSession
  \/ ConsoleFallback
  \/ SpawnShell
  \/ WaitShell

SupervisorNext == InitStep \/ \E pid \in DOMAIN children : ChildEnds(pid)

SupervisorSpec == SupervisorInit /\ [][SupervisorNext]_supervisor_vars

\* PID 1 keeps running: Thread shows that a ready thread is run again.
SupervisorFair == SupervisorSpec /\ WF_supervisor_vars(InitStep)

-------------------------------------------------------------------------------
RunningAs(name) == {pid \in DOMAIN children : children[pid].name = name /\ children[pid].state = "running"}

\* The declared shapes.
SupervisorTypeOK ==
  /\ \A k \in ServicesWatched : watch[k].pid \in 0..Len(children) /\ watch[k].restarts \in 0..SERVICE_RESTART_LIMIT
  /\ session \in 0..Len(children)
  /\ \A pid \in DOMAIN children : children[pid].state \in {"running", "zombie", "reaped"}

\* Whenever children die, during the start, in the middle of a round or between
\* a wait() and a spawn(), a service, the login and the shell never run twice,
\* every child that is not reaped is one init still looks at, and a service that
\* may be missing is being started.  Init gives up only when a spawn failed, a
\* service died once more than the limit, or the console got no display.
SupervisionExact ==
  /\ SupervisorTypeOK
  /\ \A pid \in DOMAIN children : LET c == children[pid] IN
       /\ Cardinality(RunningAs(c.name)) <= 1
       /\ c.state # "reaped" => \/ pid = session
                                \/ \E k \in ServicesWatched : watch[k].pid = pid /\ Watched[k] = c.name
                                \/ at = Phase("wait shell", pid)
                                \/ at.phase = "ended"
  /\ at.phase = "ended" => \/ misfortune.faults > 0
                           \/ \E k \in ServicesWatched : watch[k].restarts = SERVICE_RESTART_LIMIT
                           \/ Wait(session) = "not_found"

\* While init supervises, a service that ended runs again, and so does the
\* login, unless init gives up or falls back to the console; and the supervision
\* is exact all the time.
ServicesComeBack ==
  /\ []SupervisionExact
  /\ \A k \in ServicesWatched :
       (at.phase = "round" /\ RunningAs(Watched[k]) = {}) ~>
         (RunningAs(Watched[k]) # {} \/ at.phase \in {"ended", "fallback", "shell", "wait shell"})
===============================================================================
