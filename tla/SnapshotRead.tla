----------------------------- MODULE SnapshotRead -----------------------------
(***************************************************************************)
(* What one scan promises of a file that may be replaced under it, with no *)
(* partitions, readers or caches in sight: every row comes from one        *)
(* version, the one that was at the path when the scan first looked.       *)
(***************************************************************************)
CONSTANTS Versions,  \* the versions of the file
          NoFile,    \* no version chosen yet
          Places     \* what a row is identified by within the scan

VARIABLES path,      \* the version at the path now
          snapshot,  \* the version this scan reads
          rows       \* the rows delivered: where from, and of which version

vars == <<path, snapshot, rows>>

Init == /\ path \in Versions
        /\ snapshot = NoFile
        /\ rows = {}

Replace == /\ path' \in Versions
           /\ UNCHANGED <<snapshot, rows>>

Look == /\ snapshot = NoFile
        /\ snapshot' = path
        /\ UNCHANGED <<path, rows>>

Deliver(x) == /\ snapshot # NoFile
              /\ rows' = rows \cup {<<x, snapshot>>}
              /\ UNCHANGED <<path, snapshot>>

\* The scan is over, or a crash ended it, and another may begin.
NextScan == /\ snapshot' = NoFile
            /\ rows' = {}
            /\ path' \in Versions

Next == Replace \/ Look \/ (\E x \in Places : Deliver(x)) \/ NextScan

Spec == Init /\ [][Next]_vars
==============================================================================
