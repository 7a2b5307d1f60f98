---------------------------- MODULE PublishedFile ----------------------------
(***************************************************************************)
(* What the durable-replace publisher promises about one final path, with  *)
(* no temporary files, no directory entries and no sync calls in sight: a  *)
(* version becomes visible atomically, it becomes durable some time later, *)
(* a caller is told Ok only for a version that is durable or that a newer  *)
(* durable version replaced, and a crash falls back to the durable one.    *)
(***************************************************************************)
EXTENDS Naturals

CONSTANTS Calls,    \* the publish calls; a call is also the version it writes
          Old,      \* the version found at the path before the first call
          NoFile    \* no file at the path

Files == Calls \cup {Old, NoFile}

VARIABLES visible,  \* the version a reader of the path opens now
          durable,  \* the version the path holds after a crash
          stamp,    \* when each version became visible, 0 if it never did
          acked     \* the calls that were told Ok

vars == <<visible, durable, stamp, acked>>

Init == /\ visible \in {Old, NoFile}
        /\ durable = visible
        /\ stamp = [f \in Files |-> 0]
        /\ acked = {}

\* A call's version appears at the path, newer than everything before it.
Publish(c) == /\ stamp[c] = 0
              /\ visible' = c
              /\ stamp' = [stamp EXCEPT ![c] = stamp'[c]]
              /\ stamp'[c] \in Nat
              /\ \A f \in Files : stamp[f] < stamp'[c]
              /\ UNCHANGED <<durable, acked>>

\* The visible version reaches the disk.
Persist == /\ durable' = visible
           /\ UNCHANGED <<visible, stamp, acked>>

\* Ok is returned for a version that was made visible and that is not newer
\* than the durable one; the sync that made it durable may be the same step.
Acknowledge(c) == /\ stamp[c] > 0
                  /\ durable' = visible
                  /\ stamp[c] <= stamp[durable']
                  /\ acked' = acked \cup {c}
                  /\ UNCHANGED <<visible, stamp>>

Crash == /\ visible' = durable
         /\ UNCHANGED <<durable, stamp, acked>>

Next == \/ \E c \in Calls : Publish(c) \/ Acknowledge(c)
        \/ Persist
        \/ Crash

Spec == Init /\ [][Next]_vars
==============================================================================
