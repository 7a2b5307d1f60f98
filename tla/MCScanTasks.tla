----------------------------- MODULE MCScanTasks -----------------------------
(***************************************************************************)
(* ScanTasks over one or two small files.                                  *)
(***************************************************************************)
EXTENDS ScanTasks

Split(id, seg, segs, morsel, morsels, row, rows) ==
  [id |-> id, seg |-> seg, segs |-> segs, morsel |-> morsel,
   morsels |-> morsels, row |-> row, rows |-> rows]

MakeFile(segs, match, hidden, pruned, lookup, sections) ==
  [segs |-> segs, match |-> match, hidden |-> hidden, pruned |-> pruned,
   lookup |-> lookup, sections |-> sections]

\* Five rows: a segment of two morsels, the last one short, and one of one.
LongShort == <<[start |-> 0, rows |-> 3, size |-> 2],
               [start |-> 3, rows |-> 2, size |-> 2]>>
\* Three rows: two segments of one morsel each.
Single == <<[start |-> 0, rows |-> 2, size |-> 2],
            [start |-> 2, rows |-> 1, size |-> 2]>>

\* build_default_scan_split_index: one split per segment.
Default == <<Split(1, 1, 1, 0, 2, 0, 3), Split(2, 2, 1, 0, 1, 3, 2)>>
\* Indexes the validator refuses: a wrong row count, a range past the segment,
\* a missing segment, two entries with one identifier.
Refused == {<<Split(1, 1, 1, 0, 1, 0, 3)>>,
            <<Split(1, 2, 1, 1, 1, 5, 1)>>,
            <<Split(1, 2, 2, 0, 2, 3, 3)>>,
            <<Split(7, 1, 1, 0, 2, 0, 3), Split(7, 2, 1, 0, 1, 3, 2)>>}
\* Indexes the validator accepts although they are not the table, each morsel
\* once: a segment is left out; a morsel is claimed twice.
Partial == <<Split(1, 1, 1, 0, 2, 0, 3)>>
Overlapping == Default \o <<Split(3, 1, 1, 1, 1, 2, 1)>>
\* One split over both segments, each of one morsel.
Both == <<Split(1, 1, 2, 0, 2, 0, 3)>>

LongShortSections == {<<>>, <<Default>>} \cup {<<r>> : r \in Refused}
                       \cup {<<r, Default>> : r \in Refused}
                       \cup {<<Partial>>, <<Overlapping, Default>>}

\* What matches, what is hidden, what is pruned.
Answers == {[match |-> 0..4, hidden |-> {}, pruned |-> {}],
            [match |-> 0..4, hidden |-> {1, 3, 4}, pruned |-> {}],
            [match |-> {0, 2, 4}, hidden |-> {0}, pruned |-> {}],
            [match |-> {1, 3}, hidden |-> {}, pruned |-> {<<1, 1>>}],
            [match |-> {2}, hidden |-> {2}, pruned |-> {<<1, 0>>, <<2, 0>>}]}

LongShortFiles ==
  {MakeFile(LongShort, a.match, a.hidden, a.pruned, l, secs) :
     a \in Answers, l \in {"absent", "exact", "dangling"}, secs \in LongShortSections}
SingleFiles ==
  {MakeFile(Single, 0..2, h, {}, l, secs) :
     h \in {{}, {0}}, l \in {"absent", "exact"}, secs \in {<<>>, <<Both>>}}

MCDatasets == {<<f>> : f \in LongShortFiles}
                \cup {<<f, g>> : f \in LongShortFiles, g \in SingleFiles}

\* Two splits that together are the table of LongShort: the first morsel, and
\* the walk from the second morsel of segment 1 into segment 2.
Crossing == <<Split(1, 1, 1, 0, 1, 0, 2), Split(2, 1, 2, 1, 2, 2, 3)>>
\* The second morsel of segment 1 twice, segment 2 not at all.
Untiled == Partial \o <<Split(2, 1, 1, 1, 1, 2, 1)>>
MCAccepted ==
  {<<MakeFile(LongShort, 0..4, {}, {}, "absent", <<Crossing>>),
     MakeFile(LongShort, 0..4, {}, {}, "absent", <<Untiled>>)>>}
=============================================================================
