------------------------------ MODULE RangePlan ------------------------------
(***************************************************************************)
(* Planning the reads of a list of byte ranges                             *)
(* (cove-datafusion/src/range_reader.rs): ranges close to one another are  *)
(* read together, and each caller gets its own bytes back as a slice of    *)
(* the read. The pages of a layout cluster (COVE-L) may bridge wider gaps  *)
(* than others, but only with pages of the same cluster.                   *)
(*                                                                         *)
(* Bytes are named by their offset in the file; a range is a record with   *)
(* its first byte and the byte after its last.                             *)
(***************************************************************************)
EXTENDS Integers, Sequences, FiniteSets

CONSTANTS RangeLists,    \* ranges asked for, as sequences of [start, end]
          HintLists,     \* clusters of them: [start, end, distance], or NoHint
          NoHint,        \* the range is in no cluster
          MaxGap,        \* bytes a read may waste between two ranges
          MaxSpan        \* bytes a read of several ranges may have

ByteRange == [start : Nat, end : Nat]
Cluster == [start : Nat, end : Nat, distance : Nat]

ASSUME RangeAssumption ==
    /\ MaxGap \in Nat /\ MaxSpan \in Nat
    /\ RangeLists \subseteq Seq(ByteRange)
    /\ HintLists \subseteq Seq(Cluster \cup {NoHint})
    /\ NoHint \notin Cluster

VARIABLES
    ranges,    \* the ranges asked for
    hints,     \* their clusters
    byLayout,  \* the clusters are being heeded
    groups,    \* reads planned: [start, end, members], members being indexes
    slices,    \* what each caller gets, once read
    planning   \* idle, grouping, done, failed

rangeVars == <<ranges, hints, byLayout, groups, slices, planning>>

-----------------------------------------------------------------------------
Larger(x, y) == IF x >= y THEN x ELSE y
Smaller(x, y) == IF x <= y THEN x ELSE y

Hint(i) == IF byLayout THEN hints[i] ELSE NoHint

\* The order of planning: by cluster, ranges without one last, then by start
\* and end; sorting is stable.
Before(i, j) ==
    LET cluster(k) == Hint(k).start
        rank(k) == <<ranges[k].start, ranges[k].end, k>>
        less == \E n \in 1 .. 3 : /\ rank(i)[n] < rank(j)[n]
                                  /\ \A m \in 1 .. n - 1 : rank(i)[m] = rank(j)[m]
    IN  CASE Hint(i) = NoHint /\ Hint(j) = NoHint -> less
          [] Hint(i) = NoHint /\ Hint(j) # NoHint -> FALSE
          [] Hint(i) # NoHint /\ Hint(j) = NoHint -> TRUE
          [] OTHER -> cluster(i) < cluster(j) \/ (cluster(i) = cluster(j) /\ less)

Grouped == UNION {groups[g].members : g \in DOMAIN groups}
Waiting == DOMAIN ranges \ Grouped
NextRange == CHOOSE i \in Waiting : \A j \in Waiting \ {i} : Before(i, j)
LastGroup == groups[Len(groups)]
HintOfLast == Hint(CHOOSE i \in LastGroup.members : TRUE)

Within(range, hint) == hint # NoHint => range.start >= hint.start /\ range.end <= hint.end

Gap(i) == Larger(0, ranges[i].start - LastGroup.end)

\* Mutation for the checks: the read ends where the range joined last ends.
MergedToLast(i) == [LastGroup EXCEPT !.end = ranges[i].end, !.members = LastGroup.members \cup {i}]

Merged(i) == [LastGroup EXCEPT !.end = Larger(LastGroup.end, ranges[i].end),
                               !.members = LastGroup.members \cup {i}]

GapOf(hint) == IF hint = NoHint THEN MaxGap ELSE Larger(MaxGap, hint.distance)
SpanOf(hint) == IF hint = NoHint THEN MaxSpan ELSE Smaller(MaxSpan, hint.end - hint.start)

\* Mutation for the checks: any neighbour may join a read of a cluster.
JoinsAnyCluster(i) ==
    /\ groups # <<>>
    /\ Within(Merged(i), Hint(i))
    /\ Gap(i) <= GapOf(Hint(i))
    /\ Merged(i).end - Merged(i).start <= SpanOf(Hint(i))

Joins(i) ==
    /\ groups # <<>>
    /\ HintOfLast = Hint(i)
    /\ Within(Merged(i), Hint(i))
    /\ Gap(i) <= GapOf(Hint(i))
    /\ Merged(i).end - Merged(i).start <= SpanOf(Hint(i))

-----------------------------------------------------------------------------
RangeTypeOK ==
    /\ planning \in {"idle", "grouping", "done", "failed"}
    /\ byLayout \in BOOLEAN
    /\ \A g, h \in DOMAIN groups : g # h => groups[g].members \cap groups[h].members = {}
    /\ Grouped \subseteq DOMAIN ranges

NoRanges ==
    /\ ranges = <<>> /\ hints = <<>> /\ byLayout = FALSE
    /\ groups = <<>> /\ slices = <<>> /\ planning = "idle"

\* Hints count only when there is one for every range, and one at all.
RangeInit ==
    /\ ranges \in RangeLists /\ hints \in HintLists
    /\ byLayout = (Len(hints) = Len(ranges) /\ \E i \in DOMAIN hints : hints[i] # NoHint)
    /\ groups = <<>> /\ slices = <<>> /\ planning = "grouping"

Backwards == \E i \in DOMAIN ranges : ranges[i].start > ranges[i].end

RejectRange ==
    /\ planning = "grouping" /\ Backwards
    /\ planning' = "failed"
    /\ UNCHANGED <<ranges, hints, byLayout, groups, slices>>

Grouping == planning = "grouping" /\ ~Backwards /\ Waiting # {}

\* A range outside its cluster: the clusters are given up and all planned again.
ForgetLayout ==
    /\ Grouping /\ ~Within(ranges[NextRange], Hint(NextRange))
    /\ byLayout' = FALSE /\ groups' = <<>>
    /\ UNCHANGED <<ranges, hints, slices, planning>>

JoinRead ==
    /\ Grouping /\ Within(ranges[NextRange], Hint(NextRange))
    /\ Joins(NextRange)
    /\ groups' = [groups EXCEPT ![Len(groups)] = Merged(NextRange)]
    /\ UNCHANGED <<ranges, hints, byLayout, slices, planning>>

StartRead ==
    /\ Grouping /\ Within(ranges[NextRange], Hint(NextRange))
    /\ ~Joins(NextRange)
    /\ groups' = Append(groups, [start |-> ranges[NextRange].start, end |-> ranges[NextRange].end,
                                 members |-> {NextRange}])
    /\ UNCHANGED <<ranges, hints, byLayout, slices, planning>>

\* The bytes of a range within the bytes of a read; none when it overruns them.
SliceOf(read, range) ==
    {read.start + o : o \in (range.start - read.start) .. (range.end - read.start - 1)}
        \cap read.start .. (read.end - 1)

\* All reads are done and sliced.
SliceReads ==
    /\ planning = "grouping" /\ ~Backwards /\ Waiting = {}
    /\ slices' = [i \in DOMAIN ranges |->
                     LET g == CHOOSE g \in DOMAIN groups : i \in groups[g].members
                     IN  SliceOf(groups[g], ranges[i])]
    /\ planning' = "done"
    /\ UNCHANGED <<ranges, hints, byLayout, groups>>

RangeNext == RejectRange \/ ForgetLayout \/ JoinRead \/ StartRead \/ SliceReads

RangeSpec == RangeInit /\ [][RangeNext]_rangeVars

-----------------------------------------------------------------------------
(***************************************************************************)
(* Properties.                                                             *)
(***************************************************************************)

\* Every caller gets the bytes it asked for: each range lies within the one
\* read it is sliced from, whatever was joined before and after it.
OwnBytes ==
    planning = "done" =>
        \A i \in DOMAIN ranges : slices[i] = ranges[i].start .. (ranges[i].end - 1)

\* A read of several ranges keeps to the largest span, joins ranges of one
\* cluster only and stays inside that cluster.
ReadsBounded ==
    \A g \in DOMAIN groups : Cardinality(groups[g].members) > 1 =>
        /\ groups[g].end - groups[g].start <= MaxSpan
        /\ \A i, j \in groups[g].members : Hint(i) = Hint(j)
        /\ \A i \in groups[g].members : Within(groups[g], Hint(i))

=============================================================================
