----------------------------- MODULE ReliableFile -----------------------------
(***************************************************************************)
(* Replacement of a state file that survives failures and crashes          *)
(* (src/kernel/install/reliable_file.cpp).  One operation of the backend   *)
(* is one step, any of them may fail, and the machine may stop between any *)
(* two.  The backend is what reliable_file.hpp requires: rename refuses to *)
(* overwrite, a failed operation has no effect, and a successful sync      *)
(* makes what precedes it durable; nothing is said of operations no sync   *)
(* has followed, so a crash keeps any subset of them.                      *)
(***************************************************************************)
EXTENDS Naturals, FiniteSets

CONSTANTS
  Contents,       \* contents written by the calls
  None,           \* the file does not exist
  Partial,        \* a file that is only partly written
  MaxCalls        \* bound: calls of replace() in one run

ASSUME FileConstants == None \notin Contents /\ Partial \notin Contents \cup {None}

VARIABLES
  fs,             \* the four files, as operations see them
  survivors,      \* file systems a crash may leave, the present one included
  pc, data, target_present,     \* replace()
  allowed,        \* history: outcomes the present call may lead to
  calls

reliable_vars == <<fs, survivors, pc, data, target_present, allowed, calls>>

\* What recovery makes of a file system.
Logical(f) ==
  IF f.rollback # None THEN f.rollback
  ELSE IF f.target = None THEN f.committed ELSE f.target
Possible(S) == {Logical(f) : f \in S}

ReliableInit ==
  /\ \E c \in Contents \cup {None} :
       fs = [target |-> c, staging |-> None, rollback |-> None, committed |-> None]
  /\ survivors = {fs} /\ allowed = Possible({fs})
  /\ pc = "idle" /\ data = None /\ target_present = FALSE /\ calls = 0

-------------------------------------------------------------------------------
\* One operation of the backend: it succeeds, or fails without effect.  Op(f) is
\* its effect on f; each survivor is left with it or without it.
Goto(next) == pc' = next
Keep == UNCHANGED <<fs, survivors>>
Mutate(Op(_)) == fs' = Op(fs) /\ survivors' = survivors \cup {Op(f) : f \in survivors}

UnlinkArtifact(path, next, failed) ==
  \/ Mutate(LAMBDA f : [f EXCEPT ![path] = None]) /\ Goto(next)
  \/ Keep /\ Goto(failed)

RenameArtifact(from, to, next, failed) ==
  \/ /\ fs[from] # None /\ fs[to] = None /\ Goto(next)
     /\ Mutate(LAMBDA f : IF f[from] = None THEN f
                          ELSE [f EXCEPT ![to] = f[from], ![from] = None])
  \/ Keep /\ Goto(failed)

Sync(next, failed) ==
  \/ UNCHANGED fs /\ survivors' = {fs} /\ Goto(next)
  \/ Keep /\ Goto(failed)

Local == UNCHANGED <<data, target_present, allowed, calls>>

-------------------------------------------------------------------------------
BeginReplace(c) ==
  /\ pc = "idle" /\ calls < MaxCalls
  /\ pc' = "recover" /\ data' = c /\ calls' = calls + 1
  /\ allowed' = Possible(survivors) \cup {c}
  /\ UNCHANGED <<fs, survivors, target_present>>

\* recover_interrupted(): which artifact is there decides; stat may fail.
RecoveryStep ==
  CASE fs.rollback # None /\ fs.committed # None -> "error"
    [] fs.rollback # None /\ fs.committed = None ->
         IF fs.target # None THEN "recover_unlink" ELSE "recover_rename"
    [] fs.rollback = None /\ fs.committed # None ->
         "retire"
    [] OTHER -> "unstage"
Recover ==
  /\ pc = "recover" /\ (Goto(RecoveryStep) \/ Goto("error"))
  /\ Keep /\ Local

\* restore_rollback(), in recovery and after a failure of replace() itself.
RecoverUnlink == pc = "recover_unlink" /\ UnlinkArtifact("target", "recover_rename", "error") /\ Local
RecoverRename == pc = "recover_rename" /\ RenameArtifact("rollback", "target", "recover_sync", "error") /\ Local
RecoverSync == pc \in {"recover_sync", "retire_sync"} /\ Sync("unstage", "error") /\ Local
UndoUnlink == pc = "undo_unlink" /\ UnlinkArtifact("target", "undo_rename", "error") /\ Local
UndoRename == pc = "undo_rename" /\ RenameArtifact("rollback", "target", "undo_sync", "error") /\ Local
UndoSync == pc = "undo_sync" /\ Sync("error", "error") /\ Local

\* A committed artifact is retired or, if it is the only copy left, reinstated.
RetireArtifact ==
  /\ pc = "retire" /\ Local
  /\ IF fs.target # None THEN UnlinkArtifact("committed", "retire_sync", "error")
     ELSE RenameArtifact("committed", "target", "retire_sync", "error")

\* remove_staging()
Unstage ==
  /\ pc = "unstage" /\ Local
  /\ \/ fs.staging = None /\ Keep /\ (Goto("create") \/ Goto("error"))
     \/ fs.staging # None /\ UnlinkArtifact("staging", "unstage_sync", "error")
UnstageSync == pc = "unstage_sync" /\ Sync("create", "error") /\ Local

CreateArtifact ==
  /\ pc = "create" /\ Local
  /\ \/ fs.staging = None /\ Mutate(LAMBDA f : [f EXCEPT !.staging = Partial]) /\ Goto("write")
     \/ Keep /\ Goto("error")
Write ==
  /\ pc = "write" /\ Local
  /\ \/ /\ Goto("write_sync")
        /\ Mutate(LAMBDA f : IF f.staging = None THEN f ELSE [f EXCEPT !.staging = data])
     \/ Keep /\ Goto("error")
WriteSync == pc = "write_sync" /\ Sync("backup", "error") /\ Local

\* The old target is set aside.
Backup ==
  /\ pc = "backup"
  /\ target_present' = (fs.target # None)
  /\ UNCHANGED <<data, allowed, calls>>
  /\ \/ fs.target = None /\ Keep /\ (Goto("publish") \/ Goto("error"))
     \/ fs.target # None /\ RenameArtifact("target", "rollback", "backup_sync", "error")
BackupSync == pc = "backup_sync" /\ Sync("publish", "undo_rename") /\ Local

Publish ==
  /\ pc = "publish" /\ Local
  /\ RenameArtifact("staging", "target", "publish_sync", IF target_present THEN "undo_rename" ELSE "error")
\* PublishSyncIgnored is a mutant that does not undo.
PublishSyncIgnored ==
  /\ pc = "publish_sync" /\ Local
  /\ Sync(IF target_present THEN "mark" ELSE "ok", IF target_present THEN "mark" ELSE "ok")
PublishSync ==
  /\ pc = "publish_sync" /\ Local
  /\ Sync(IF target_present THEN "mark" ELSE "ok", IF target_present THEN "undo_unlink" ELSE "error")

\* The old copy becomes a committed artifact, and is removed.
Mark == pc = "mark" /\ RenameArtifact("rollback", "committed", "mark_sync", "error") /\ Local
MarkSync == pc = "mark_sync" /\ Sync("drop", "error") /\ Local
Drop == pc = "drop" /\ UnlinkArtifact("committed", "drop_sync", "error") /\ Local
DropSync == pc = "drop_sync" /\ Sync("ok", "error") /\ Local

ReturnReplace ==
  /\ pc \in {"ok", "error"}
  /\ pc' = "idle" /\ data' = None
  /\ allowed' = Possible(survivors)
  /\ UNCHANGED <<fs, survivors, target_present, calls>>

\* The machine stops; what is found later is one of the survivors.
Crash ==
  /\ \E f \in survivors : fs' = f
  /\ survivors' = {fs'} /\ allowed' = Possible({fs'})
  /\ pc' = "idle" /\ data' = None /\ UNCHANGED <<target_present, calls>>

ReliableNext ==
  \/ \E c \in Contents : BeginReplace(c)
  \/ Recover \/ RecoverUnlink \/ RecoverRename \/ RecoverSync
  \/ UndoUnlink \/ UndoRename \/ UndoSync \/ RetireArtifact
  \/ Unstage \/ UnstageSync \/ CreateArtifact \/ Write \/ WriteSync
  \/ Backup \/ BackupSync \/ Publish \/ PublishSync
  \/ Mark \/ MarkSync \/ Drop \/ DropSync \/ ReturnReplace \/ Crash

ReliableSpec == ReliableInit /\ [][ReliableNext]_reliable_vars

-------------------------------------------------------------------------------
(***************************************************************************)
(* Properties                                                              *)
(***************************************************************************)

\* The variables have their types, and the old copy is there when a step needs it.
ReliableTypeOK ==
  /\ fs \in survivors
  /\ pc \in {"undo_unlink", "undo_rename", "mark"} => fs.rollback # None
  /\ \A f \in survivors : \A path \in DOMAIN f : f[path] \in Contents \cup {None, Partial}

\* What replace() leaves behind can always be recovered from.  The two artifacts
\* never exist together, so StateConflict is never the answer to it; and whoever
\* reads the target without knowing the artifacts finds it whole or, in the middle
\* of a replacement, missing, but never partly written.
ArtifactsSound ==
  /\ ReliableTypeOK
  /\ \A f \in survivors :
       /\ f.rollback = None \/ f.committed = None
       /\ Partial \notin {f.target, f.rollback, f.committed}

\* The call is atomic, durable when it reports Ok, and loses nothing when it fails
\* or the machine stops, also in the middle of the recovery of an earlier call; and
\* what it leaves behind is sound.
Phase == IF pc \in {"idle", "ok", "error"} THEN pc ELSE "busy"
Atomic == INSTANCE AtomicReplace
            WITH possible <- Possible(survivors), writing <- data, phase <- Phase
ReplaceIsAtomic == Atomic!Spec /\ []ArtifactsSound
===============================================================================
