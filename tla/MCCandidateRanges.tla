-------------------------- MODULE MCCandidateRanges --------------------------
(***************************************************************************)
(* Two morsels of three rows: a range can lie strictly inside another of   *)
(* its morsel, and one can end where the next morsel begins.               *)
(***************************************************************************)
EXTENDS CandidateRanges

MCTables == [Rows -> Values \cup {Null}]

Keys(s) == [kind |-> "keys", in |-> s]
Other(s) == [kind |-> "other", in |-> s]
MCFilterLists ==
    {<<>>, <<Keys({1})>>, <<Keys({2})>>, <<Keys({1, 2})>>, <<Keys({})>>,
     <<Other({1})>>, <<Other({Null})>>, <<Other({1}), Keys({1, 2})>>,
     <<Keys({1, 2}), Keys({2})>>}

At(f, m, s, n) == [file |-> f, morsel |-> m, start |-> s, count |-> n]
Entry(k, ranges) == [key |-> k, kind |-> "RowRangeList", ranges |-> ranges]
Both == {"Eq", "Membership"}

\* Indexes that over-include: every row for both keys, ranges that overlap
\* without one lying inside the other, two entries of one key, one that does
\* not validate, and one that answers equality only.
MCForeign ==
    {[ops |-> Both, entries |-> <<Entry(1, {At(0, 0, 0, 3), At(0, 1, 3, 3)}),
                                  Entry(2, {At(0, 0, 0, 3), At(0, 1, 3, 3)})>>],
     [ops |-> Both, entries |-> <<Entry(1, {At(0, 0, 0, 2), At(0, 1, 3, 2)}),
                                  Entry(2, {At(0, 0, 1, 2), At(0, 1, 4, 2)})>>],
     [ops |-> {"Eq"}, entries |-> <<Entry(1, {At(0, 0, 0, 1)}),
                                    Entry(1, {At(0, 0, 1, 2)}),
                                    Entry(2, {At(0, 1, 3, 3)})>>],
     [ops |-> Both, entries |-> <<Entry(1, {At(0, 0, 0, 2), At(0, 0, 2, 1)}),
                                  Entry(2, {At(0, 1, 3, 3)})>>]}

\* A legal index with a range inside another (the row of 2 between the rows
\* of 1) and a range of no morsel (the rows of 2 in the second morsel), over
\* the table 1, 2, 1, 2, 2, 2.
OneTable == {[r \in Rows |-> IF r \in {0, 2} THEN 1 ELSE 2]}
AllKeys == {<<Keys({1, 2})>>}
MCLegal ==
    {[ops |-> Both, entries |-> <<Entry(1, {At(0, 0, 0, 3)}),
                                  Entry(2, {At(0, 0, 1, 1), At(0, NoMorsel, 3, 3)})>>]}
=============================================================================
