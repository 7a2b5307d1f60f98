---------------------------- MODULE MCScanStream ----------------------------
(***************************************************************************)
(* ScanStream over partitions of up to four tasks, in one file or two.     *)
(***************************************************************************)
EXTENDS ScanStream

\* Row totals after each task: none, empty first, middle and last tasks, tasks
\* of one row and of several, more tasks than the channel holds.
MCScans ==
  {[ends |-> <<>>, file |-> <<>>],
   [ends |-> <<0, 0>>, file |-> <<1, 2>>],
   [ends |-> <<2, 2, 3>>, file |-> <<1, 1, 2>>],
   [ends |-> <<0, 1, 3, 3>>, file |-> <<1, 1, 1, 2>>],
   [ends |-> <<1, 2, 3, 5>>, file |-> <<1, 1, 2, 2>>],
   [ends |-> <<1, 2, 3, 4>>, file |-> <<1, 1, 1, 1>>]}
=============================================================================
