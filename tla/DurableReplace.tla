---------------------------- MODULE DurableReplace ----------------------------
(***************************************************************************)
(* The durable-replace publisher of cove-core/src/durable.rs: concurrent   *)
(* calls of durable_replace and durable_replace_with_writer on ONE final   *)
(* path, run by threads of several processes, over a file system that      *)
(* keeps what it was not asked to sync only by chance.                     *)
(*                                                                         *)
(* A call is identified with the inode it creates and with the payload it  *)
(* writes: all a property asks of a payload is whether it is all there.    *)
(* The directory holds the final path and the temporary siblings.  `dir`,  *)
(* `final` and `content` are what running processes see; `ddir`, `dfinal`  *)
(* and `dcontent` are what is on the disk and survives a crash.            *)
(***************************************************************************)
EXTENDS Naturals

CONSTANTS Calls,       \* the calls to the publisher, each made at most once
          Old,         \* the file at the final path before the first call
          NoFile,      \* no directory entry
          Procs,       \* process ids; an id is reused after its process died
          Clocks,      \* the readings of the wall clock, which may repeat
          MaxCounter,  \* bound on TEMP_COUNTER within one process
          MaxCrashes   \* bound on the machine crashes

ASSUME FilesDistinct == Old \notin Calls /\ NoFile \notin Calls /\ Old # NoFile
ASSUME BoundsNat == MaxCounter \in Nat /\ MaxCrashes \in Nat

VARIABLES pc,        \* where each call stands
          tmp,       \* the temporary path of each call that has one
          counter,   \* TEMP_COUNTER of each process
          dir,       \* temporary path -> inode, as processes see it
          final,     \* the inode at the final path, as processes see it
          content,   \* how much of each inode's payload has been written
          ddir,      \* temporary path -> inode, on the disk
          dfinal,    \* the inode at the final path, on the disk
          dcontent,  \* how much of each inode's payload is on the disk
          crashes,   \* machine crashes so far
          installs,  \* history: how many files were installed
          stamp,     \* history: which installation each file was, 0 if none
          left       \* history: calls that could not remove their temporary

vars == <<pc, tmp, counter, dir, final, content, ddir, dfinal, dcontent,
          crashes, installs, stamp, left>>
disk == <<ddir, dfinal, dcontent>>
history == <<installs, stamp, left>>

Files == Calls \cup {Old, NoFile}
Names == Procs \X Clocks \X (0..MaxCounter)

\* A call is active from the choice of its temporary path to its return.
Running == {"create", "write", "sync", "rename", "syncdir"}
Active == Running \cup {"cleanup"}

Init ==
  /\ pc = [c \in Calls |-> "idle"]
  /\ tmp = [c \in Calls |-> <<>>]
  /\ counter = [p \in Procs |-> 0]
  /\ dir = [n \in Names |-> NoFile]
  /\ final \in {Old, NoFile}
  /\ content = [f \in Files |-> IF f \in Calls THEN "none" ELSE "complete"]
  /\ ddir = dir
  /\ dfinal = final
  /\ dcontent = content
  /\ crashes = 0
  /\ installs = 0
  /\ stamp = [f \in Files |-> 0]
  /\ left = {}

goto(c, l) == pc' = [pc EXCEPT ![c] = l]

------------------------------------------------------------------------------
(* The steps of one call.  Each may fail, which leads to the cleanup.       *)

\* temp_path_for: pid, clock and the process-wide counter name the sibling.
TempPathFor(c, p, t) ==
  /\ pc[c] = "idle"
  /\ counter[p] < MaxCounter
  /\ tmp' = [tmp EXCEPT ![c] = <<p, t, counter[p]>>]
  /\ counter' = [counter EXCEPT ![p] = @ + 1]
  /\ goto(c, "create")
  /\ UNCHANGED <<dir, final, content, disk, crashes, history>>

\* Mutation: create() and truncate() instead of create_new().
CreateTruncating(c) ==
  /\ pc[c] = "create"
  /\ IF dir[tmp[c]] = NoFile
       THEN /\ dir' = [dir EXCEPT ![tmp[c]] = c]
            /\ content' = [content EXCEPT ![c] = "partial"]
       ELSE /\ content' = [content EXCEPT ![dir[tmp[c]]] = "partial"]
            /\ UNCHANGED dir
  /\ goto(c, "write")
  /\ UNCHANGED <<tmp, counter, final, disk, crashes, history>>

\* OpenOptions::create_new: fails if the name is taken.
CreateNew(c) ==
  /\ pc[c] = "create"
  /\ dir[tmp[c]] = NoFile
  /\ dir' = [dir EXCEPT ![tmp[c]] = c]
  /\ content' = [content EXCEPT ![c] = "partial"]
  /\ goto(c, "write")
  /\ UNCHANGED <<tmp, counter, final, disk, crashes, history>>

\* write_all, or the caller's write callback, ran to its end.
Write(c) ==
  /\ pc[c] = "write"
  /\ content' = [content EXCEPT ![c] = "complete"]
  /\ goto(c, "sync")
  /\ UNCHANGED <<tmp, counter, dir, final, disk, crashes, history>>

\* Mutation: the temporary file is not synced before the rename.
SyncNothing(c) ==
  /\ pc[c] = "sync"
  /\ goto(c, "rename")
  /\ UNCHANGED <<tmp, counter, dir, final, content, disk, crashes, history>>

\* sync_all on the open file, or on the file reopened by its path: the second
\* fails when the entry is gone, which StepFails allows; the first does not.
SyncFile(c) ==
  /\ pc[c] = "sync"
  /\ dcontent' = [dcontent EXCEPT ![c] = content[c]]
  /\ goto(c, "rename")
  /\ UNCHANGED <<tmp, counter, dir, final, content, ddir, dfinal, crashes,
                 history>>

\* Mutation: the two names are exchanged.
RenameExchange(c) ==
  /\ pc[c] = "rename"
  /\ dir[tmp[c]] # NoFile
  /\ final' = dir[tmp[c]]
  /\ dir' = [dir EXCEPT ![tmp[c]] = final]
  /\ installs' = installs + 1
  /\ stamp' = [stamp EXCEPT ![dir[tmp[c]]] = installs + 1]
  /\ goto(c, "syncdir")
  /\ UNCHANGED <<tmp, counter, content, disk, crashes, left>>

\* rename_durable: whatever the temporary name holds becomes the final file.
Rename(c) ==
  /\ pc[c] = "rename"
  /\ dir[tmp[c]] # NoFile
  /\ final' = dir[tmp[c]]
  /\ dir' = [dir EXCEPT ![tmp[c]] = NoFile]
  /\ installs' = installs + 1
  /\ stamp' = [stamp EXCEPT ![dir[tmp[c]]] = installs + 1]
  /\ goto(c, "syncdir")
  /\ UNCHANGED <<tmp, counter, content, disk, crashes, left>>

\* Mutation: Ok on the rename alone.
SyncParentSkipped(c) ==
  /\ pc[c] = "syncdir"
  /\ goto(c, "ok")
  /\ UNCHANGED <<tmp, counter, dir, final, content, disk, crashes, history>>

\* sync_parent_dir persists every entry of the directory; the call returns Ok.
SyncParentDir(c) ==
  /\ pc[c] = "syncdir"
  /\ ddir' = dir
  /\ dfinal' = final
  /\ goto(c, "ok")
  /\ UNCHANGED <<tmp, counter, dir, final, content, dcontent, crashes,
                 history>>

\* Mutation: the error is returned with `?` past the cleanup.
FailWithoutCleanup(c) ==
  /\ pc[c] \in Running
  /\ goto(c, "err")
  /\ UNCHANGED <<tmp, counter, dir, final, content, disk, crashes, history>>

\* Any step may return an error instead of taking effect.
StepFails(c) ==
  /\ pc[c] \in Running
  /\ goto(c, "cleanup")
  /\ UNCHANGED <<tmp, counter, dir, final, content, disk, crashes, history>>

\* Mutation: the cleanup insists on removing a file that is there.
RemoveUntilGone(c) ==
  /\ pc[c] = "cleanup"
  /\ dir[tmp[c]] # NoFile
  /\ dir' = [dir EXCEPT ![tmp[c]] = NoFile]
  /\ goto(c, "err")
  /\ UNCHANGED <<tmp, counter, final, content, disk, crashes, history>>

\* Mutation: the cleanup removes the final path.
RemoveFinal(c) ==
  /\ pc[c] = "cleanup"
  /\ final' = NoFile
  /\ goto(c, "err")
  /\ UNCHANGED <<tmp, counter, dir, content, disk, crashes, history>>

\* let _ = remove_file(tmp): its own error is dropped; the call returns Err.
RemoveFile(c) ==
  /\ pc[c] = "cleanup"
  /\ \/ /\ dir' = [dir EXCEPT ![tmp[c]] = NoFile]
        /\ UNCHANGED left
     \/ /\ left' = left \cup {c}
        /\ UNCHANGED dir
  /\ goto(c, "err")
  /\ UNCHANGED <<tmp, counter, final, content, disk, crashes, installs, stamp>>

------------------------------------------------------------------------------
(* The environment.                                                         *)

\* The calls that die with the processes of ps.
Die(ps) == pc' = [c \in Calls |->
                    IF pc[c] \in Active /\ tmp[c][1] \in ps THEN "dead"
                    ELSE pc[c]]

\* One process is killed; its id may be given to a process that starts afresh.
Kill(p) ==
  /\ \E c \in Calls : pc[c] \in Active /\ tmp[c][1] = p
  /\ Die({p})
  /\ counter' = [counter EXCEPT ![p] = 0]
  /\ UNCHANGED <<tmp, dir, final, content, disk, crashes, history>>

\* The machine goes down: what was not on the disk is lost.
Crash ==
  /\ crashes < MaxCrashes
  /\ crashes' = crashes + 1
  /\ Die(Procs)
  /\ counter' = [p \in Procs |-> 0]
  /\ dir' = ddir
  /\ final' = dfinal
  /\ content' = dcontent
  /\ UNCHANGED <<tmp, disk, history>>

\* The kernel writes back one inode or one entry when it pleases.
WriteBackData(c) ==
  /\ dcontent[c] # content[c]
  /\ dcontent' = [dcontent EXCEPT ![c] = content[c]]
  /\ UNCHANGED <<pc, tmp, counter, dir, final, content, ddir, dfinal, crashes,
                 history>>

WriteBackEntry ==
  /\ \/ \E n \in Names : /\ ddir[n] # dir[n]
                         /\ ddir' = [ddir EXCEPT ![n] = dir[n]]
                         /\ UNCHANGED dfinal
     \/ /\ dfinal # final
        /\ dfinal' = final
        /\ UNCHANGED ddir
  /\ UNCHANGED <<pc, tmp, counter, dir, final, content, dcontent, crashes,
                 history>>

\* Someone deletes a temporary file, as the specification lets them.
DeleteTemporary(n) ==
  /\ dir[n] # NoFile
  /\ dir' = [dir EXCEPT ![n] = NoFile]
  /\ UNCHANGED <<pc, tmp, counter, final, content, disk, crashes, history>>

------------------------------------------------------------------------------
Step(c) == \/ CreateNew(c) \/ Write(c) \/ SyncFile(c) \/ Rename(c)
           \/ SyncParentDir(c) \/ StepFails(c) \/ RemoveFile(c)

Environment == \/ \E p \in Procs : Kill(p)
               \/ Crash
               \/ \E c \in Calls : WriteBackData(c)
               \/ WriteBackEntry
               \/ \E n \in Names : DeleteTemporary(n)

Next == \/ \E c \in Calls, p \in Procs, t \in Clocks : TempPathFor(c, p, t)
        \/ \E c \in Calls : Step(c)
        \/ Environment

Spec == Init /\ [][Next]_vars
\* A thread inside the publisher keeps running: each of its system calls
\* returns, with an error if need be.
FairSpec == Spec /\ \A c \in Calls : WF_vars(Step(c))

------------------------------------------------------------------------------
TypeOK ==
  /\ pc \in [Calls -> Active \cup {"idle", "ok", "err", "dead"}]
  /\ tmp \in [Calls -> Names \cup {<<>>}]
  /\ counter \in [Procs -> 0..MaxCounter]
  /\ dir \in [Names -> Calls \cup {NoFile}]
  /\ ddir \in [Names -> Calls \cup {NoFile}]
  /\ final \in Files /\ dfinal \in Files
  /\ content \in [Files -> {"none", "partial", "complete"}]
  /\ dcontent \in [Files -> {"none", "partial", "complete"}]
  /\ crashes \in 0..MaxCrashes
  /\ installs \in Nat
  /\ stamp \in [Files -> Nat]
  /\ left \in SUBSET Calls

(* Readers may assume that any file at the final path is structurally      *)
(* complete, before and after a crash.  A temporary renamed before its data *)
(* was synced passes every test and fails here only at the crash.           *)
FinalAlwaysComplete ==
  /\ content[final] = "complete"
  /\ dcontent[dfinal] = "complete"

(* What a caller was told is durable stays: whatever a crash brings back is *)
(* that version or one installed after it, and nothing on the disk is ever  *)
(* ahead of what readers see.                                               *)
AckedNeverLost ==
  /\ stamp[dfinal] <= stamp[final]
  /\ \A c \in Calls : pc[c] = "ok" => 0 < stamp[c] /\ stamp[c] <= stamp[dfinal]

(* A temporary is left behind only by a call that is still running, died,   *)
(* or could not remove it; a crash may bring back one that was removed but  *)
(* never one whose call returned Ok.                                        *)
TemporariesAccounted ==
  \A c \in Calls, n \in Names :
     dir[n] = c =>
        \/ pc[c] \in Active \cup {"dead"}
        \/ pc[c] = "err" /\ (c \in left \/ crashes > 0)

(* A file at the final path is never modified in place: the bytes a reader  *)
(* (or a memory map) holds do not change under it, whoever creates          *)
(* temporaries next, with whatever name.                                    *)
PublishedNeverModified ==
  [][\A f \in Files : f \in {final, dfinal} => content'[f] = content[f]]_vars

(* Each call that chose a temporary path returns, unless its process dies:  *)
(* no error path waits for something that is not there.                     *)
PublisherReturns ==
  \A c \in Calls : pc[c] \in Active ~> pc[c] \in {"ok", "err", "dead"}

(* The publisher implements the promise of PublishedFile.                   *)
Promise == INSTANCE PublishedFile
             WITH visible <- final, durable <- dfinal,
                  acked <- {c \in Calls : pc[c] = "ok"}
KeepsPromise == Promise!Spec

(* What section 75 of the specification says: if any step fails, the old    *)
(* file remains authoritative.  A failed sync of the parent directory comes *)
(* after the rename, so the failed call's file is at the final path.        *)
OldStaysAuthoritative == \A c \in Calls : pc[c] = "err" => final # c
==============================================================================
