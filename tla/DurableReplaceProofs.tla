------------------------- MODULE DurableReplaceProofs -------------------------
(***************************************************************************)
(* Proofs about DurableReplace, for any set of calls, processes and clock  *)
(* readings and any bounds.  The safety properties are not inductive: what *)
(* makes them so is the ownership of temporary names.  Two active calls    *)
(* never have the same temporary, so the entry a call renames over the     *)
(* final path is the inode it wrote and synced itself, and a name that is  *)
(* taken when create_new runs can only belong to a call that is gone.      *)
(***************************************************************************)
EXTENDS DurableReplace, TLAPS

\* Between create_new and the return, up to the rename.
Holding == {"write", "sync", "rename"}

(* Every active call has a temporary path made from a counter value its     *)
(* process has moved past, and shares it with no other active call.         *)
NamesOwned ==
  /\ \A c \in Calls : pc[c] \in Active =>
        tmp[c] \in Names /\ tmp[c][3] < counter[tmp[c][1]]
  /\ \A c, d \in Calls :
        c # d /\ pc[c] \in Active /\ pc[d] \in Active => tmp[c] # tmp[d]

(* Where a call's inode may be linked, in memory and on the disk.           *)
LinksOwned ==
  /\ \A c \in Calls, n \in Names : dir[n] = c \/ ddir[n] = c =>
        /\ pc[c] \notin {"idle", "create", "ok"}
        /\ pc[c] \in Active => n = tmp[c]
  /\ \A c \in Calls, n \in Names : pc[c] = "syncdir" => dir[n] # c
  /\ \A c \in Calls : pc[c] \in Holding => dir[tmp[c]] \in {c, NoFile}

(* What has been written and what has been synced at each step.             *)
ContentsReady ==
  /\ \A c \in Calls : pc[c] \in {"sync", "rename"} => content[c] = "complete"
  /\ \A c \in Calls : pc[c] = "rename" => dcontent[c] = "complete"
  /\ \A c \in Calls : pc[c] \in {"idle", "create"} \cup Holding => stamp[c] = 0
  /\ \A f \in Files : f \notin Calls \/ stamp[f] > 0 =>
        content[f] = "complete" /\ dcontent[f] = "complete"

(* The files at the final path were installed, in this order.               *)
Installed ==
  /\ final \in Calls => stamp[final] > 0
  /\ dfinal \in Calls => stamp[dfinal] > 0
  /\ stamp[dfinal] <= stamp[final]
  /\ \A f \in Files : stamp[f] <= installs
  /\ \A c \in Calls : pc[c] = "syncdir" => 0 < stamp[c] /\ stamp[c] <= stamp[final]
  /\ \A c \in Calls : pc[c] = "ok" => 0 < stamp[c] /\ stamp[c] <= stamp[dfinal]

IInv == /\ TypeOK /\ NamesOwned /\ LinksOwned /\ ContentsReady /\ Installed
        /\ TemporariesAccounted

(* The initial states satisfy the invariant.                                *)
LEMMA InitInv == Init => IInv
<1> SUFFICES ASSUME Init PROVE IInv
  OBVIOUS
<1> USE FilesDistinct, BoundsNat DEF Init, Files, Active, Running, Holding
<1>1. TypeOK
  BY DEF TypeOK, Names
<1>2. NamesOwned /\ LinksOwned
  BY DEF NamesOwned, LinksOwned
<1>3. ContentsReady
  <2>1. \A c \in Calls : pc[c] = "idle" /\ stamp[c] = 0
    BY DEF Files
  <2>2. \A f \in Files : /\ stamp[f] = 0
                         /\ f \notin Calls =>
                              content[f] = "complete" /\ dcontent[f] = "complete"
    OBVIOUS
  <2> HIDE DEF Init
  <2> QED
    BY <2>1, <2>2 DEF ContentsReady
<1>4. Installed
  BY DEF Installed
<1>5. TemporariesAccounted
  BY DEF TemporariesAccounted
<1> QED
  BY <1>1, <1>2, <1>3, <1>4, <1>5 DEF IInv

(* Every step keeps it.  Each action is split on the parts of the invariant *)
(* it can disturb.                                                          *)
LEMMA NextInv == IInv /\ [Next]_vars => IInv'
<1> SUFFICES ASSUME IInv, [Next]_vars PROVE IInv'
  OBVIOUS
<1> USE FilesDistinct, BoundsNat
    DEF IInv, Files, Active, Running, Holding, goto, disk, history
<1>1. ASSUME NEW c \in Calls, NEW p \in Procs, NEW t \in Clocks, TempPathFor(c, p, t)
     PROVE  IInv'
  <2> USE <1>1 DEF TempPathFor
  <2>1. TypeOK'
    BY DEF TypeOK, Names
  <2>2. NamesOwned'
    <3>1. /\ tmp'[c] = <<p, t, counter[p]>> /\ tmp'[c] \in Names
          /\ counter[p] < counter'[p]
          /\ \A q \in Procs : counter[q] \in Nat /\ counter[q] <= counter'[q]
          /\ \A d \in Calls \ {c} : tmp'[d] = tmp[d] /\ pc'[d] = pc[d]
      BY DEF TypeOK, Names
    <3>2. ASSUME NEW d \in Calls, d # c, pc[d] \in Active
          PROVE  /\ tmp[d] \in Names /\ tmp[d][3] < counter[tmp[d][1]]
                 /\ tmp[d][1] \in Procs /\ tmp[d][3] \in Nat
                 /\ tmp[d] # tmp'[c]
      BY <3>1, <3>2 DEF NamesOwned, Names
    <3>3. \A d \in Calls : pc'[d] \in Active =>
            tmp'[d] \in Names /\ tmp'[d][3] < counter'[tmp'[d][1]]
      <4> SUFFICES ASSUME NEW d \in Calls, pc'[d] \in Active
                   PROVE  tmp'[d] \in Names /\ tmp'[d][3] < counter'[tmp'[d][1]]
        OBVIOUS
      <4>1. CASE d = c
        BY <3>1, <4>1
      <4>2. CASE d # c
        <5>1. tmp'[d] = tmp[d] /\ pc[d] \in Active
          BY <3>1, <4>2
        <5>2. /\ counter'[tmp[d][1]] \in Nat
              /\ counter[tmp[d][1]] <= counter'[tmp[d][1]]
          BY <2>1, <3>1, <3>2, <4>2, <5>1 DEF TypeOK
        <5> QED
          BY <3>1, <3>2, <4>2, <5>1, <5>2
      <4> QED
        BY <4>1, <4>2
    <3>4. \A d, e \in Calls :
            d # e /\ pc'[d] \in Active /\ pc'[e] \in Active => tmp'[d] # tmp'[e]
      BY <3>1, <3>2 DEF NamesOwned
    <3> QED
      BY <3>3, <3>4 DEF NamesOwned
  <2>3. LinksOwned'
    BY <2>1 DEF TypeOK, NamesOwned, LinksOwned
  <2>4. ContentsReady'
    BY <2>1 DEF TypeOK, NamesOwned, LinksOwned, ContentsReady
  <2>5. Installed'
    BY <2>1 DEF TypeOK, NamesOwned, LinksOwned, ContentsReady, Installed
  <2>6. TemporariesAccounted'
    BY <2>1 DEF TypeOK, NamesOwned, LinksOwned, TemporariesAccounted
  <2> QED
    BY <2>1, <2>2, <2>3, <2>4, <2>5, <2>6
<1>2. ASSUME NEW c \in Calls, CreateNew(c)
     PROVE  IInv'
  <2> USE <1>2 DEF CreateNew
  <2>1. TypeOK'
    BY DEF TypeOK, Names
  <2>2. NamesOwned'
    BY <2>1 DEF TypeOK, NamesOwned, Names
  <2>3. LinksOwned'
    BY <2>1 DEF TypeOK, NamesOwned, LinksOwned
  <2>4. ContentsReady'
    BY <2>1 DEF TypeOK, NamesOwned, LinksOwned, ContentsReady
  <2>5. Installed'
    BY <2>1 DEF TypeOK, NamesOwned, LinksOwned, ContentsReady, Installed
  <2>6. TemporariesAccounted'
    BY <2>1 DEF TypeOK, NamesOwned, LinksOwned, TemporariesAccounted
  <2> QED
    BY <2>1, <2>2, <2>3, <2>4, <2>5, <2>6
<1>3. ASSUME NEW c \in Calls, Write(c)
     PROVE  IInv'
  <2> USE <1>3 DEF Write
  <2>1. TypeOK'
    BY DEF TypeOK, Names
  <2>2. NamesOwned'
    BY <2>1 DEF TypeOK, NamesOwned, Names
  <2>3. LinksOwned'
    BY <2>1 DEF TypeOK, NamesOwned, LinksOwned
  <2>4. ContentsReady'
    BY <2>1 DEF TypeOK, NamesOwned, LinksOwned, ContentsReady
  <2>5. Installed'
    BY <2>1 DEF TypeOK, NamesOwned, LinksOwned, ContentsReady, Installed
  <2>6. TemporariesAccounted'
    BY <2>1 DEF TypeOK, NamesOwned, LinksOwned, TemporariesAccounted
  <2> QED
    BY <2>1, <2>2, <2>3, <2>4, <2>5, <2>6
<1>4. ASSUME NEW c \in Calls, SyncFile(c)
     PROVE  IInv'
  <2> USE <1>4 DEF SyncFile
  <2>1. TypeOK'
    BY DEF TypeOK, Names
  <2>2. NamesOwned'
    BY <2>1 DEF TypeOK, NamesOwned, Names
  <2>3. LinksOwned'
    BY <2>1 DEF TypeOK, NamesOwned, LinksOwned
  <2>4. ContentsReady'
    BY <2>1 DEF TypeOK, NamesOwned, LinksOwned, ContentsReady
  <2>5. Installed'
    BY <2>1 DEF TypeOK, NamesOwned, LinksOwned, ContentsReady, Installed
  <2>6. TemporariesAccounted'
    BY <2>1 DEF TypeOK, NamesOwned, LinksOwned, TemporariesAccounted
  <2> QED
    BY <2>1, <2>2, <2>3, <2>4, <2>5, <2>6
<1>5. ASSUME NEW c \in Calls, Rename(c)
     PROVE  IInv'
  <2> USE <1>5 DEF Rename
  <2>1. TypeOK'
    BY DEF TypeOK, NamesOwned, Names
  <2>2. NamesOwned'
    <3>1. UNCHANGED <<tmp, counter>> /\ pc[c] \in Active
      OBVIOUS
    <3>2. \A d \in Calls : pc'[d] \in Active => pc[d] \in Active
      BY DEF TypeOK
    <3> HIDE <1>5
    <3> QED
      BY <3>1, <3>2 DEF NamesOwned
  <2>3. LinksOwned'
    BY <2>1 DEF TypeOK, NamesOwned, LinksOwned
  <2>4. ContentsReady'
    BY <2>1 DEF TypeOK, NamesOwned, LinksOwned, ContentsReady
  <2>5. Installed'
    BY <2>1 DEF TypeOK, NamesOwned, LinksOwned, ContentsReady, Installed
  <2>6. TemporariesAccounted'
    BY <2>1 DEF TypeOK, NamesOwned, LinksOwned, TemporariesAccounted
  <2> QED
    BY <2>1, <2>2, <2>3, <2>4, <2>5, <2>6
<1>6. ASSUME NEW c \in Calls, SyncParentDir(c)
     PROVE  IInv'
  <2> USE <1>6 DEF SyncParentDir
  <2>1. TypeOK'
    BY DEF TypeOK, Names
  <2>2. NamesOwned'
    BY <2>1 DEF TypeOK, NamesOwned, Names
  <2>3. LinksOwned'
    BY <2>1 DEF TypeOK, NamesOwned, LinksOwned
  <2>4. ContentsReady'
    BY <2>1 DEF TypeOK, NamesOwned, LinksOwned, ContentsReady
  <2>5. Installed'
    BY <2>1 DEF TypeOK, NamesOwned, LinksOwned, ContentsReady, Installed
  <2>6. TemporariesAccounted'
    BY <2>1 DEF TypeOK, NamesOwned, LinksOwned, TemporariesAccounted
  <2> QED
    BY <2>1, <2>2, <2>3, <2>4, <2>5, <2>6
<1>7. ASSUME NEW c \in Calls, StepFails(c)
     PROVE  IInv'
  <2> USE <1>7 DEF StepFails
  <2>1. TypeOK'
    BY DEF TypeOK, Names
  <2>2. NamesOwned'
    BY <2>1 DEF TypeOK, NamesOwned, Names
  <2>3. LinksOwned'
    BY <2>1 DEF TypeOK, NamesOwned, LinksOwned
  <2>4. ContentsReady'
    BY <2>1 DEF TypeOK, NamesOwned, LinksOwned, ContentsReady
  <2>5. Installed'
    BY <2>1 DEF TypeOK, NamesOwned, LinksOwned, ContentsReady, Installed
  <2>6. TemporariesAccounted'
    BY <2>1 DEF TypeOK, NamesOwned, LinksOwned, TemporariesAccounted
  <2> QED
    BY <2>1, <2>2, <2>3, <2>4, <2>5, <2>6
<1>8. ASSUME NEW c \in Calls, RemoveFile(c)
     PROVE  IInv'
  <2> USE <1>8 DEF RemoveFile
  <2>1. TypeOK'
    BY DEF TypeOK, Names
  <2>2. NamesOwned'
    BY <2>1 DEF TypeOK, NamesOwned, Names
  <2>3. LinksOwned'
    BY <2>1 DEF TypeOK, NamesOwned, LinksOwned
  <2>4. ContentsReady'
    BY <2>1 DEF TypeOK, NamesOwned, LinksOwned, ContentsReady
  <2>5. Installed'
    BY <2>1 DEF TypeOK, NamesOwned, LinksOwned, ContentsReady, Installed
  <2>6. TemporariesAccounted'
    BY <2>1 DEF TypeOK, NamesOwned, LinksOwned, TemporariesAccounted
  <2> QED
    BY <2>1, <2>2, <2>3, <2>4, <2>5, <2>6
<1>9. ASSUME NEW p \in Procs, Kill(p)
     PROVE  IInv'
  <2> USE <1>9 DEF Kill, Die
  <2>1. TypeOK'
    BY DEF TypeOK, Names
  <2>2. NamesOwned'
    BY <2>1 DEF TypeOK, NamesOwned, Names
  <2>3. LinksOwned'
    BY <2>1 DEF TypeOK, NamesOwned, LinksOwned
  <2>4. ContentsReady'
    BY <2>1 DEF TypeOK, NamesOwned, LinksOwned, ContentsReady
  <2>5. Installed'
    BY <2>1 DEF TypeOK, NamesOwned, LinksOwned, ContentsReady, Installed
  <2>6. TemporariesAccounted'
    BY <2>1 DEF TypeOK, NamesOwned, LinksOwned, TemporariesAccounted
  <2> QED
    BY <2>1, <2>2, <2>3, <2>4, <2>5, <2>6
<1>10. ASSUME Crash
     PROVE  IInv'
  <2>1. \A c \in Calls : /\ pc'[c] \notin Active
                         /\ pc'[c] \in {"idle", "ok", "err", "dead"}
                         /\ pc'[c] \in {"idle", "ok", "err"} => pc'[c] = pc[c]
    BY <1>10 DEF Crash, Die, TypeOK, NamesOwned, Names
  <2>0. /\ dir' = ddir /\ ddir' = ddir /\ final' = dfinal /\ dfinal' = dfinal
        /\ content' = dcontent /\ dcontent' = dcontent
        /\ tmp' = tmp /\ stamp' = stamp /\ installs' = installs
    BY <1>10 DEF Crash
  <2>2. TypeOK'
    BY <1>10, <2>1 DEF Crash, TypeOK, Die
  <2>3. NamesOwned'
    BY <2>1 DEF NamesOwned
  <2>4. LinksOwned'
    BY <2>1, <2>0 DEF TypeOK, LinksOwned
  <2>5. ContentsReady'
    BY <2>1, <2>0 DEF TypeOK, ContentsReady
  <2>6. Installed'
    BY <2>1, <2>0 DEF TypeOK, Installed
  <2>7. TemporariesAccounted'
    <3>1. crashes' > 0
      BY <1>10 DEF Crash, TypeOK
    <3>2. \A c \in Calls, n \in Names : dir'[n] = c => pc'[c] \in {"err", "dead"}
      BY <2>1, <2>0 DEF LinksOwned
    <3> QED
      BY <3>1, <3>2 DEF TemporariesAccounted
  <2> QED
    BY <2>2, <2>3, <2>4, <2>5, <2>6, <2>7
<1>11. ASSUME NEW c \in Calls, WriteBackData(c)
     PROVE  IInv'
  <2> USE <1>11 DEF WriteBackData
  <2>1. TypeOK'
    BY DEF TypeOK, Names
  <2>2. NamesOwned'
    BY <2>1 DEF TypeOK, NamesOwned, Names
  <2>3. LinksOwned'
    BY <2>1 DEF TypeOK, NamesOwned, LinksOwned
  <2>4. ContentsReady'
    BY <2>1 DEF TypeOK, NamesOwned, LinksOwned, ContentsReady
  <2>5. Installed'
    BY <2>1 DEF TypeOK, NamesOwned, LinksOwned, ContentsReady, Installed
  <2>6. TemporariesAccounted'
    BY <2>1 DEF TypeOK, NamesOwned, LinksOwned, TemporariesAccounted
  <2> QED
    BY <2>1, <2>2, <2>3, <2>4, <2>5, <2>6
<1>12. ASSUME WriteBackEntry
     PROVE  IInv'
  <2> USE <1>12 DEF WriteBackEntry
  <2>1. TypeOK'
    <3>1. CASE UNCHANGED dfinal
      <4>1. PICK n \in Names : ddir' = [ddir EXCEPT ![n] = dir[n]] \/ ddir' = ddir
        BY <3>1
      <4>2. ddir' \in [Names -> Calls \cup {NoFile}]
        BY <4>1 DEF TypeOK
      <4> QED
        BY <3>1, <4>2 DEF TypeOK
    <3>2. CASE dfinal' = final /\ UNCHANGED ddir
      BY <3>2 DEF TypeOK
    <3> QED
      BY <3>1, <3>2
  <2>2. NamesOwned'
    BY <2>1 DEF TypeOK, NamesOwned, Names
  <2>3. LinksOwned'
    BY <2>1 DEF TypeOK, NamesOwned, LinksOwned
  <2>4. ContentsReady'
    BY <2>1 DEF TypeOK, NamesOwned, LinksOwned, ContentsReady
  <2>5. Installed'
    BY <2>1 DEF TypeOK, NamesOwned, LinksOwned, ContentsReady, Installed
  <2>6. TemporariesAccounted'
    BY <2>1 DEF TypeOK, NamesOwned, LinksOwned, TemporariesAccounted
  <2> QED
    BY <2>1, <2>2, <2>3, <2>4, <2>5, <2>6
<1>13. ASSUME NEW n \in Names, DeleteTemporary(n)
     PROVE  IInv'
  <2> USE <1>13 DEF DeleteTemporary
  <2>1. TypeOK'
    BY DEF TypeOK, Names
  <2>2. NamesOwned'
    BY <2>1 DEF TypeOK, NamesOwned, Names
  <2>3. LinksOwned'
    BY <2>1 DEF TypeOK, NamesOwned, LinksOwned
  <2>4. ContentsReady'
    BY <2>1 DEF TypeOK, NamesOwned, LinksOwned, ContentsReady
  <2>5. Installed'
    BY <2>1 DEF TypeOK, NamesOwned, LinksOwned, ContentsReady, Installed
  <2>6. TemporariesAccounted'
    BY <2>1 DEF TypeOK, NamesOwned, LinksOwned, TemporariesAccounted
  <2> QED
    BY <2>1, <2>2, <2>3, <2>4, <2>5, <2>6
<1>14. CASE UNCHANGED vars
  BY <1>14 DEF vars, TypeOK, NamesOwned, LinksOwned, ContentsReady, Installed,
            TemporariesAccounted
<1> QED
  BY <1>1, <1>2, <1>3, <1>4, <1>5, <1>6, <1>7, <1>8, <1>9, <1>10, <1>11, <1>12, <1>13, <1>14 DEF Next, Step, Environment

(* The strengthened invariant holds in every reachable state.               *)
THEOREM Invariance == Spec => []IInv
BY InitInv, NextInv, PTL DEF Spec

(* Type correctness of the publisher and of the file system.                *)
THEOREM TypeCorrect == Spec => []TypeOK
<1>1. IInv => TypeOK
  BY DEF IInv
<1> QED
  BY Invariance, <1>1, PTL

(* Readers find a complete file at the final path, before and after any     *)
(* crash: only a synced inode is ever renamed, and it is the caller's own.  *)
THEOREM FinalComplete == Spec => []FinalAlwaysComplete
<1>1. IInv => FinalAlwaysComplete
  BY DEF IInv, TypeOK, ContentsReady, Installed, FinalAlwaysComplete, Files
<1> QED
  BY Invariance, <1>1, PTL

(* An acknowledged version survives every crash, or a newer one does.       *)
THEOREM AckedSurvives == Spec => []AckedNeverLost
<1>1. IInv => AckedNeverLost
  BY DEF IInv, Installed, AckedNeverLost
<1> QED
  BY Invariance, <1>1, PTL

(* Whoever leaves a temporary behind died or could not remove it.           *)
THEOREM NoOrphans == Spec => []TemporariesAccounted
<1>1. IInv => TemporariesAccounted
  BY DEF IInv
<1> QED
  BY Invariance, <1>1, PTL

(* No step changes the bytes of a file that is at the final path.           *)
THEOREM NeverModified == Spec => PublishedNeverModified
<1>1. ASSUME IInv, [Next]_vars, NEW f \in Files, f \in {final, dfinal}
      PROVE  content'[f] = content[f]
  <2> USE <1>1 DEF IInv, TypeOK, ContentsReady, Installed, disk, history, goto,
                   Files, Holding
  <2>1. f \in Calls => stamp[f] > 0
    OBVIOUS
  <2>2. content[f] = "complete" /\ dcontent[f] = "complete"
    BY <2>1
  <2>3. CASE Crash
    BY <2>2, <2>3 DEF Crash
  <2>4. ASSUME NEW c \in Calls, CreateNew(c) \/ Write(c)
        PROVE  content'[f] = content[f]
    BY <2>1, <2>4 DEF CreateNew, Write
  <2>5. CASE UNCHANGED content
    BY <2>5
  <2> QED
    BY <2>3, <2>4, <2>5
    DEF Next, Step, Environment, vars, TempPathFor, SyncFile, Rename,
        SyncParentDir, StepFails, RemoveFile, Kill, WriteBackData,
        WriteBackEntry, DeleteTemporary
<1>2. IInv /\ [Next]_vars =>
        [\A f \in Files : f \in {final, dfinal} => content'[f] = content[f]]_vars
  BY <1>1
<1> QED
  BY Invariance, <1>2, PTL DEF Spec, PublishedNeverModified

-------------------------------------------------------------------------------
(* The initial states are initial states of the promise.                    *)
LEMMA InitPromise == Init => Promise!Init
BY DEF Init, Promise!Init, Promise!Files, Files

(* Every step of the publisher is a step of the promise or leaves it be.    *)
LEMMA StepPromise == IInv /\ [Next]_vars => [Promise!Next]_(Promise!vars)
<1> SUFFICES ASSUME IInv, [Next]_vars
             PROVE  Promise!Next \/ UNCHANGED Promise!vars
  OBVIOUS
<1> USE FilesDistinct
    DEF goto, disk, history, Promise!vars, Promise!Next, Promise!Files, Files
<1> DEFINE Oks == {c \in Calls : pc[c] = "ok"}
<1>0. TypeOK
  BY DEF IInv
<1>1. ASSUME NEW c \in Calls, Rename(c) PROVE Promise!Publish(c)
  <2>1. dir[tmp[c]] = c /\ stamp[c] = 0 /\ \A f \in Files : stamp[f] <= installs
    BY <1>1 DEF Rename, IInv, LinksOwned, ContentsReady, Installed, Holding
  <2>2. Oks' = Oks
    BY <1>0, <1>1 DEF Rename, TypeOK
  <2> QED
    BY <1>0, <1>1, <2>1, <2>2 DEF Rename, TypeOK, Promise!Publish
<1>2. ASSUME NEW c \in Calls, SyncParentDir(c) PROVE Promise!Acknowledge(c)
  <2>1. 0 < stamp[c] /\ stamp[c] <= stamp[final]
    BY <1>2 DEF SyncParentDir, IInv, Installed
  <2>2. Oks' = Oks \cup {c}
    BY <1>0, <1>2 DEF SyncParentDir, TypeOK
  <2> QED
    BY <1>0, <1>2, <2>1, <2>2 DEF SyncParentDir, TypeOK, Promise!Acknowledge
<1>3. CASE Crash
  <2>1. Oks' = Oks
    BY <1>0, <1>3 DEF Crash, Die, TypeOK, Active, Running
  <2> QED
    BY <1>3, <2>1 DEF Crash, Promise!Crash
<1>4. CASE WriteBackEntry
  BY <1>4 DEF WriteBackEntry, Promise!Persist
<1>5. ASSUME NEW p \in Procs, Kill(p) PROVE UNCHANGED Promise!vars
  <2>1. Oks' = Oks
    BY <1>0, <1>5 DEF Kill, Die, TypeOK, Active, Running
  <2> QED
    BY <1>5, <2>1 DEF Kill
<1>6. ASSUME NEW c \in Calls,
             \/ \E p \in Procs, t \in Clocks : TempPathFor(c, p, t)
             \/ CreateNew(c) \/ Write(c) \/ SyncFile(c) \/ StepFails(c)
             \/ RemoveFile(c)
      PROVE  UNCHANGED Promise!vars
  <2>1. /\ pc[c] # "ok" /\ pc'[c] # "ok"
        /\ \A d \in Calls : d # c => pc'[d] = pc[d]
        /\ UNCHANGED <<final, dfinal, stamp>>
    BY <1>0, <1>6 DEF TempPathFor, CreateNew, Write, SyncFile, StepFails,
                      RemoveFile, TypeOK, Running
  <2>2. Oks' = Oks
    BY <2>1
  <2> QED
    BY <2>1, <2>2
<1>7. ASSUME \/ \E c \in Calls : WriteBackData(c)
             \/ \E n \in Names : DeleteTemporary(n)
             \/ UNCHANGED vars
      PROVE  UNCHANGED Promise!vars
  BY <1>7 DEF WriteBackData, DeleteTemporary, vars
<1> QED
  BY <1>1, <1>2, <1>3, <1>4, <1>5, <1>6, <1>7 DEF Next, Step, Environment

(* The publisher implements what PublishedFile promises.                    *)
THEOREM Implements == Spec => KeepsPromise
BY Invariance, InitPromise, StepPromise, PTL
DEF Spec, KeepsPromise, Promise!Spec
===============================================================================
