---------------------------- MODULE AtomicReplace ----------------------------
(***************************************************************************)
(* What install::reliable_file::replace() promises about one file: a       *)
(* replacement happens entirely or not at all, whatever fails and wherever *)
(* the machine stops, and one that reports Ok has happened.                *)
(***************************************************************************)
CONSTANTS Contents, None

VARIABLES
  possible,       \* what a restart and recovery would find the file to hold
  allowed,        \* what it may come to hold during the present call
  writing,        \* the new contents of the present call, or None
  phase           \* idle, busy, or what the present call is about to report

vars == <<possible, allowed, writing, phase>>

Init ==
  /\ \E c \in Contents \cup {None} : possible = {c} /\ allowed = {c}
  /\ writing = None /\ phase = "idle"

Begin(c) ==
  /\ phase = "idle" /\ phase' = "busy" /\ writing' = c
  /\ possible' = possible /\ allowed' = possible \cup {c}

OldOrNew == possible' # {} /\ possible' \subseteq allowed

Progress == phase = "busy" /\ OldOrNew /\ UNCHANGED <<allowed, writing, phase>>

Succeed ==
  /\ phase = "busy" /\ phase' = "ok" /\ possible' = {writing}
  /\ UNCHANGED <<allowed, writing>>

Fail == phase = "busy" /\ phase' = "error" /\ OldOrNew /\ UNCHANGED <<allowed, writing>>

Return ==
  /\ phase \in {"ok", "error"} /\ phase' = "idle" /\ writing' = None
  /\ possible' = possible /\ allowed' = possible

Crash ==
  /\ \E c \in possible : possible' = {c} /\ allowed' = {c}
  /\ writing' = None /\ phase' = "idle"

Next == (\E c \in Contents : Begin(c)) \/ Progress \/ Succeed \/ Fail \/ Return \/ Crash

Spec == Init /\ [][Next]_vars
===============================================================================
