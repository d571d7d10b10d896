------------------------------- MODULE MCProcess -------------------------------
(***************************************************************************)
(* An instance for TLC of the processes with their jobs, of the files they *)
(* have open, and of the policy that schedules their threads.  Each is     *)
(* explored while the others rest.                                         *)
(*                                                                         *)
(* The file table is looked at twice: called directly in the context of    *)
(* the kernel, where no process exists, and under the descriptors of two   *)
(* processes.  The policy has three threads of one priority on two         *)
(* processors, the first of which may be pinned, or two of any priorities  *)
(* and affinities, or two of one priority on three processors, the first   *)
(* of which may be pinned; threads are interchangeable.  Among the         *)
(* processes one slot opens files.                                         *)
(***************************************************************************)
EXTENDS Process, Runtime, Scheduler2

\* The pids of a run, for the parameter of the job table.
RunPids == (1 .. NProcs) \X (0 .. MaxGen)
Nobody == <<0, 0>>

PathArgument(abs, comps, slash) == [abs |-> abs, comps |-> comps, slash |-> slash]
PathArguments ==
  {PathArgument(TRUE, <<"a">>, TRUE), PathArgument(FALSE, <<"b">>, FALSE), PathArgument(FALSE, <<"..">>, FALSE)}
OpenModes == {{"read", "write", "append"}, {"read", "directory"}}
FileOfSettings == <<"b">>
VolumeTree ==
  (<<>> :> [id |-> 1, dir |-> TRUE, size |-> 0]) @@ (<<"b">> :> [id |-> 2, dir |-> FALSE, size |-> 1])
    @@ (<<"a">> :> [id |-> 3, dir |-> TRUE, size |-> 0])

OneOpens == \A i \in Slots \ {2} : procs[i].handles = 0

OnePriority == \A t \in Registered(policy) : policy.stat[t].priority = 1
OnePinned == \A t \in Registered(policy) \ {1} : policy.stat[t].affinity = OnlineCpus
FewThreads ==
  /\ cpu_count = 3 => Registered(policy) \subseteq {1, 2} /\ OnePriority /\ OnePinned
  /\ Registered(policy) \subseteq {1, 2} \/ (OnePriority /\ OnePinned)

ProcessesRest == ~init_spawned /\ (\A i \in Slots : procs[i] = Cleared(0)) /\ \A j \in JobSlots : jobs[j].gen = 0
FilesRest ==
  /\ ~volume.attempted /\ spawns = 0 /\ changes = 0 /\ file_handles = {}
  /\ mount_handles = {<<0, 1>>} /\ \A c \in Contexts : contexts[c] = [root |-> <<>>, cwd |-> <<>>]
PolicyRest == cpu_count = 1 /\ Registered(policy) = {}

\* The calls of the kernel itself, before there is a process; a slot of the table
\* of open files is used once.
KernelFiles ==
  /\ ~volume.attempted /\ spawns = 0
  /\ HandleCalls \/ PathCalls(KernelContext)
  /\ \A s \in 1..OpenSlots : open_files'[s].gen <= 1
  /\ UNCHANGED <<storage, process, volume, lapsed, spawns>>

ProcessFiles ==
  /\ volume.attempted \/ spawns > 0 \/ FilesRest
  /\ RuntimeNext /\ changes' <= 1
  /\ \A f \in FileSystems : \A p \in DOMAIN trees'[f] : trees'[f][p].size <= 1

BenchInit == Init /\ RuntimeInit /\ PolicyInit
BenchNext ==
  \/ FilesRest /\ PolicyRest /\ Next /\ OneOpens' /\ UNCHANGED <<runtime_vars, pvars>>
  \/ ProcessesRest /\ PolicyRest /\ (KernelFiles \/ ProcessFiles) /\ UNCHANGED <<vars, pvars>>
  \/ ProcessesRest /\ FilesRest /\ PolicyNext /\ FewThreads' /\ UNCHANGED <<vars, runtime_vars>>

BenchSpec == BenchInit /\ [][BenchNext]_<<vars, runtime_vars, pvars>>
===============================================================================
