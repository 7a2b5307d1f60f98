---------------------------- MODULE MCQueryAnswers ----------------------------
(***************************************************************************)
(* Small tables, datasets, range lists and histories for the four ways a   *)
(* query gets its answer: a scan that uses the file's metadata to skip     *)
(* morsels and to select rows, an aggregate answered from metadata alone,  *)
(* the reads of the pages, and objects read back from their records; and   *)
(* small mappings, for what the objects are. They share no state; a        *)
(* behaviour is of one of them, the others stay idle.                      *)
(***************************************************************************)
EXTENDS MorselFilters, MetadataAnswers, RangePlan, ObjectHistory, IdentityPlan

vars == <<filterVars, answerVars, rangeVars, historyVars, identityVars>>

Init ==
    \/ FilterInit /\ NoAggregate /\ NoRanges /\ NoHistory /\ NoMapping
    \/ NoQuery /\ AnswerInit /\ NoRanges /\ NoHistory /\ NoMapping
    \/ NoQuery /\ NoAggregate /\ RangeInit /\ NoHistory /\ NoMapping
    \/ NoQuery /\ NoAggregate /\ NoRanges /\ HistoryInit /\ NoMapping
    \/ NoQuery /\ NoAggregate /\ NoRanges /\ NoHistory /\ IdentityInit

Next ==
    \/ FilterNext /\ UNCHANGED <<answerVars, rangeVars, historyVars, identityVars>>
    \/ AnswerNext /\ UNCHANGED <<filterVars, rangeVars, historyVars, identityVars>>
    \/ RangeNext /\ UNCHANGED <<filterVars, answerVars, historyVars, identityVars>>
    \/ HistoryNext /\ UNCHANGED <<filterVars, answerVars, rangeVars, identityVars>>
    \/ IdentityNext /\ UNCHANGED <<filterVars, answerVars, rangeVars, historyVars>>

MCSpec == Init /\ [][Next]_vars

\* A scan alone, or objects alone, for the runs about one kind of table.
ScanOnly == (FilterInit /\ NoAggregate /\ NoRanges /\ NoHistory /\ NoMapping) /\ [][Next]_vars
ObjectsOnly == (NoQuery /\ NoAggregate /\ NoRanges /\ HistoryInit /\ NoMapping) /\ [][Next]_vars

\* The variables of the five parts keep to their types.
TypeOK == FilterTypeOK /\ AnswerTypeOK /\ RangeTypeOK /\ HistoryTypeOK /\ IdentityTypeOK

-----------------------------------------------------------------------------
(***************************************************************************)
(* Tables and filters. Two segments, of two and of one morsel, the first   *)
(* morsel of two rows; numbers on both sides of zero, or of the largest    *)
(* signed word; a morsel that may hold nulls only.                         *)
(***************************************************************************)
MorselAt(s, m, first, rows) == [segment |-> s, morsel |-> m, first |-> first, rows |-> rows]

TwoSegments == <<MorselAt(0, 0, 0, 2), MorselAt(0, 1, 2, 1), MorselAt(1, 0, 3, 1)>>
SixMorsels == [m \in 1 .. 6 |-> MorselAt(0, m - 1, m - 1, 1)]

Row(n, x, y) == [num |-> n, a |-> x, b |-> y]

NumbersOf(k) ==
    CASE k = "Int64"   -> {-2, 0, 3}
      [] k = "UInt64"  -> {0, 3, Half + 3}
      [] k = "Float64" -> {-1, 0, 2, NaN}

LiteralsOf(k) ==
    CASE k = "Int64"   -> {-2, 3}
      [] k = "UInt64"  -> {3, Half + 3}
      [] k = "Float64" -> {0, 2}

SmallTables(k) ==
    LET numbers == NumbersOf(k) \cup {Null}
        small == IF k = "Float64" THEN 2 ELSE 3
        first  == {Row(n, c, 5) : n \in numbers, c \in {1, 2}}
        second == {Row(Null, Null, 5), Row(small, 2, Null)}
        third  == {Row(n, 2, 6) : n \in numbers} \cup {Row(small, Null, 5)}
        fourth == {Row(n, 1, 6) : n \in numbers}
    IN  {[r \in 0 .. 3 |-> <<w, x, y, z>>[r + 1]] :
            w \in first, x \in second, y \in third, z \in fourth}

NumberFilters(k) == {Numeric(op, l) : op \in {"Eq", "Lt", "LtEq", "GtEq"}, l \in LiteralsOf(k)}

SmallFilterLists(k) ==
    {<<f>> : f \in NumberFilters(k)} \cup
    {<<FileCodeIn("a", {2}), f>> : f \in NumberFilters(k)} \cup
    {<<FileCodeIn("a", {1}), FileCodeIn("b", {5})>>,
     <<FileCodeIn("a", {7, 3}), NullTest("b", FALSE)>>,
     <<NullTest("num", TRUE), FileCodeIn("b", {})>>,
     <<NullTest("a", FALSE), NullTest("b", TRUE)>>,
     <<NullTest("num", FALSE), FileCodeIn("b", {6}), FileCodeIn("a", {2, 1})>>}

NoIndex == [c \in Columns |-> "None"]
Bare == [zones |-> FALSE, domains |-> FALSE, exactSets |-> FALSE, inverted |-> FALSE,
         bloom |-> FALSE, lookup |-> NoIndex, composite |-> "None"]

\* Each kind of metadata, alone and with others; a lookup index of the wrong
\* keys, and one on a column behind a column without.
SmallMetas ==
    {Bare,
     [Bare EXCEPT !.zones = TRUE, !.domains = TRUE],
     [Bare EXCEPT !.zones = TRUE, !.lookup = [NoIndex EXCEPT !["num"] = "NumCode", !["a"] = "FileCode"]],
     [Bare EXCEPT !.exactSets = TRUE, !.lookup = [NoIndex EXCEPT !["a"] = "NumCode"]],
     [Bare EXCEPT !.inverted = TRUE, !.bloom = TRUE, !.composite = "Tuples"],
     [Bare EXCEPT !.domains = TRUE, !.bloom = TRUE, !.composite = "Zones",
                  !.lookup = [NoIndex EXCEPT !["b"] = "FileCode"]]}

\* Six morsels of one row, floating point numbers, and the zones the
\* converter writes over a and b, whose codes are 1 and 0 throughout. The last
\* row is not less than two.
ZoneMetas == {[Bare EXCEPT !.composite = "Zones"]}
NegativeTables(k) == {[r \in 0 .. 5 |-> Row(IF r = 5 THEN 2 ELSE -1, 1, 0)]}
NegativeFilters(k) == {<<FileCodeIn("a", {1}), FileCodeIn("b", {0, 1}), Numeric("Lt", 2)>>}

-----------------------------------------------------------------------------
(***************************************************************************)
(* Datasets of one or two files of three rows in two segments.             *)
(***************************************************************************)
Cell(n, c) == [num |-> n, cat |-> c]

IndexOf(cols, answers, exact, tagged) ==
    [cols |-> cols, answers |-> answers, exact |-> exact, tagged |-> tagged]
NoAnswers == IndexOf({}, {}, TRUE, TRUE)

\* The writer's index with every answer, without counts, of one column; another
\* writer's, which leaves values as they are; one that is not exact.
AnyAnswers == {"Count", "Extremes", "Distinct"}
Indexes ==
    {IndexOf({"num", "cat"}, AnyAnswers, TRUE, TRUE),
     IndexOf({"num", "cat"}, {"Extremes", "Distinct"}, TRUE, TRUE),
     IndexOf({"cat"}, {"Count"}, TRUE, TRUE),
     IndexOf({"num", "cat"}, {"Extremes", "Distinct"}, TRUE, FALSE),
     IndexOf({"num"}, AnyAnswers, FALSE, FALSE)}

Converted(rows) ==
    [rows |-> rows, segments |-> {{1, 2}, {3}}, covered |-> {{1, 2}, {3}}, visible |-> 1 .. 3,
     redacted |-> FALSE, nullable |-> TRUE, kinds |-> {"MinMax", "Sum", "Histogram"},
     scopes |-> {"Segment"}, lookup |-> TRUE, index |-> NoAnswers,
     codes |-> [v \in Values |-> IF v = "x" THEN 0 ELSE 1]]

RowLists ==
    {<<a, b, c>> : a \in {Cell(5, "x"), Cell(Null, "y")},
                   b \in {Cell(-3, "y"), Cell(Null, Null), Cell(2, "x")},
                   c \in {Cell(6, "x"), Cell(Null, "y")}}

\* With and without each kind of metadata, metadata of one segment only,
\* deleted rows, redacted values, a column declared to have no nulls.
Variants(f) ==
    {f,
     [f EXCEPT !.kinds = {}],
     [f EXCEPT !.kinds = {"MinMax", "Sum"}, !.scopes = {"Segment", "Morsel"}, !.covered = {{3}}],
     [f EXCEPT !.kinds = {"Histogram"}, !.scopes = {"File"}, !.covered = {{1, 2}}, !.lookup = FALSE],
     [f EXCEPT !.visible = {2, 3}],
     [f EXCEPT !.visible = {}, !.redacted = TRUE],
     [f EXCEPT !.visible = {1}, !.nullable = FALSE, !.scopes = {}],
     [f EXCEPT !.redacted = TRUE]}

SmallFiles == {f \in UNION {Variants(Converted(rows)) : rows \in RowLists} : Convertible(f)}

\* The second file of a dataset has a dictionary of its own.
OtherCodes(f) == [f EXCEPT !.codes = [v \in Values |-> IF v = "y" THEN 0 ELSE 2]]
SmallDatasets ==
    {<<f>> : f \in SmallFiles} \cup {<<f, OtherCodes(g)>> : f, g \in SmallFiles} \cup
    {<<[f EXCEPT !.index = ix]>> : f \in SmallFiles, ix \in Indexes} \cup
    {<<[f EXCEPT !.index = ix, !.kinds = {}], f>> :
        f \in {Converted(rows) : rows \in RowLists}, ix \in Indexes}

SmallAggregates ==
    {[type |-> "Counts", cols |-> c] : c \in {<<"*">>, <<"num">>, <<"*", "cat">>}} \cup
    {[type |-> "Filtered", values |-> v] : v \in {{"x"}, {"y", "z"}, {}}} \cup
    {[type |-> "Distinct", col |-> c] : c \in {"num", "cat"}} \cup
    {[type |-> t] : t \in {"Groups", "Min", "Sum", "Avg"}}

-----------------------------------------------------------------------------
(***************************************************************************)
(* Three ranges, apart, touching, nested and equal, one list with a range  *)
(* that ends before it starts; clusters that hold them or do not, one with *)
(* the start of another, and hints for too few ranges.                     *)
(***************************************************************************)
Bounds == {[start |-> s, end |-> e] : s \in {0, 2, 4, 7}, e \in {1, 4, 6, 9}}
Forwards == {b \in Bounds : b.start <= b.end}
SmallRangeLists ==
    {<<x, y, z>> : x, y, z \in Forwards} \cup {<<x, [start |-> 4, end |-> 1]>> : x \in Forwards}

ClusterOf(s, e, d) == [start |-> s, end |-> e, distance |-> d]
SmallHints == {NoHint, ClusterOf(0, 6, 3), ClusterOf(2, 9, 0), ClusterOf(0, 9, 3)}
SmallHintLists == {<<x, y, z>> : x, y, z \in SmallHints} \cup {<<>>}

-----------------------------------------------------------------------------
(***************************************************************************)
(* Conversions of three source rows about two objects, from two sources or *)
(* one, with every kind of record; the record ids order rows of one index  *)
(* either way. Three conversions one after the other, of which the first   *)
(* may be rejected. Commits of another writer: three about an object on    *)
(* two branches, and four about one object, over two segments.             *)
(***************************************************************************)
SourceRow(goid, place, k, p) ==
    [type |-> goid, goid |-> goid, source |-> place[1], index |-> place[2], record |-> place[3],
     kind |-> k, values |-> [x \in Properties |-> IF x = "p" THEN p ELSE "w"]]

SmallSourceLists ==
    {[policy |-> rule,
      batch |-> <<<<SourceRow(1, places[1], k1, p1), SourceRow(g2, places[2], k2, p2),
                    SourceRow(g3, places[3], k3, p3)>>>>] :
        rule \in {"reject", "priority"},
        places \in {<<<<1, 0, 7>>, <<2, 0, 3>>, <<2, 1, 5>>>>, <<<<1, 0, 1>>, <<1, 1, 2>>, <<1, 2, 3>>>>},
        k1 \in {"Baseline", "Tombstone"}, k2 \in RecordKinds, k3 \in RecordKinds,
        g2 \in {1, 2}, g3 \in {1, 2},
        p1 \in {"u"}, p2 \in {"u", "v", NullValue}, p3 \in {"v", NullValue}} \cup
    {[policy |-> rule,
      batch |-> <<<<SourceRow(1, <<1, 0, 1>>, "Baseline", "u"), SourceRow(1, <<2, 0, 2>>, "Baseline", "v")>>,
                  <<SourceRow(1, <<1, 0, 1>>, "Delta", "u"), SourceRow(1, <<1, 1, 2>>, "Tombstone", "u")>>,
                  <<SourceRow(2, <<1, 0, 1>>, k, "u")>>>>] : rule \in {"reject", "priority"}, k \in RecordKinds}

CommitOf(chain, k, id, time, refs) ==
    [chain |-> chain, kind |-> k, segment |-> id, time |-> time, refs |-> refs]

MainBranch == <<1, 0, 1>>
OtherBranch == <<1, 1, 1>>

ThreeCommits ==
    {[i \in 1 .. 3 |-> CommitOf(chains[i], ks[i], ids[i], i \div 2, refs)] :
        chains \in [1 .. 3 -> {MainBranch, OtherBranch}], ks \in [1 .. 3 -> RecordKinds],
        ids \in [1 .. 3 -> {0, 1}], refs \in BOOLEAN}

FourCommits ==
    {[i \in 1 .. 4 |-> CommitOf(MainBranch, ks[i], ids[i], i \div 2, refs)] :
        ks \in [1 .. 4 -> RecordKinds], ids \in [1 .. 4 -> {0, 1}], refs \in BOOLEAN}

SmallCommitLists == ThreeCommits \cup FourCommits
NoCommitLists == {}
NoSourceLists == {}

\* Two conversions: a delta after a baseline, and two baselines of which the
\* second has no value for p.
MergedSources ==
    {[policy |-> "reject",
      batch |-> <<<<SourceRow(1, <<1, 0, 1>>, "Baseline", "u"), SourceRow(1, <<1, 1, 2>>, "Delta", "u")>>,
                  <<SourceRow(1, <<1, 0, 1>>, "Baseline", "u"), SourceRow(1, <<2, 1, 2>>, "Baseline", NullValue)>>>>]}

-----------------------------------------------------------------------------
(***************************************************************************)
(* Mappings of two sources: rows of the first are persons that belong to   *)
(* teams, rows of the second are teams, or persons too. Two conversions,   *)
(* given the sources in either order, or one of them twice, or not all;    *)
(* three rows that arrive before, between or after them, of one key, of    *)
(* two spellings of it, or without.                                        *)
(***************************************************************************)
Text(t, n) == [text |-> t, spelling |-> n]

SourceValues(id, team) == [id |-> id, team |-> team]

IdentityRule(type, trust, cols, folds, rejects) ==
    [type |-> type, class |-> trust[1], auto |-> trust[2], candidate |-> trust[3],
     columns |-> cols, folds |-> folds, rejects |-> rejects]

Trusts ==
    {<<"authoritative", "default", FALSE>>, <<"authoritative", "no", FALSE>>,
     <<"strong_deterministic", "yes", FALSE>>, <<"source_scoped", "default", FALSE>>,
     <<"authoritative", "default", TRUE>>}

Global == <<"authoritative", "default", FALSE>>

\* Which association a row of the first source makes: of its person and the
\* team its row names, or of a team its row names and its person.
Bindings ==
    {[id |-> 1, from |-> 1, source |-> ends[1], target |-> ends[2], missing |-> m, valid |-> v] :
        ends \in {<<OwnEnd, 2>>, <<2, OwnEnd>>}, m \in {"skip", "reject"}, v \in {{}, {"team"}}}

RowRule(source, rule, k, associations) ==
    [source |-> source, rule |-> rule, kind |-> k, associations |-> associations]

TwoRules(person, team, folds, rejects) ==
    <<IdentityRule("Person", person, <<"id", "team">>, folds, FALSE),
      IdentityRule("Team", team, <<"team">>, folds, rejects)>>

MappingOf(rules, rowRules, forbidden, pinned) ==
    [order |-> <<2, 1>>, pinned |-> pinned, rules |-> rules, rowRules |-> rowRules, forbidden |-> forbidden]

Unpinned == [s \in {} |-> <<>>]

SmallMappings ==
    {MappingOf(TwoRules(Global, team, folds, rejects),
               <<RowRule(1, 1, "Object", <<b>>), RowRule(2, 2, "Object", <<>>)>>, {}, Unpinned) :
        team \in Trusts, folds \in BOOLEAN, rejects \in BOOLEAN, b \in Bindings} \cup
    {MappingOf(TwoRules(person, Global, TRUE, FALSE),
               <<RowRule(1, 1, k, <<b>>), RowRule(1, 2, "Object", <<>>), RowRule(2, 1, "Object", <<>>)>>,
               forbidden, Unpinned) :
        person \in Trusts, k \in {"Object", "Tombstone"}, b \in {x \in Bindings : x.valid = {}},
        forbidden \in {{}, {{<<"row", 1, 1>>, <<"row", 2, 1>>}}}} \cup
    {MappingOf(TwoRules(Global, Global, FALSE, FALSE), <<RowRule(1, 1, "Object", <<>>)>>, {},
               (1 :> <<SourceValues(Text("u", 1), Absent)>>))}

ArrivalOf(source, id, team) == [source |-> source, values |-> SourceValues(id, team)]

ArrivalLists ==
    {<<ArrivalOf(1, Text("u", 1), t1), ArrivalOf(2, Text("u", 2), t2), ArrivalOf(s3, Text("u", 1), t3)>> :
        s3 \in {1, 2}, t1 \in {Text("v", 1), Absent},
        t2 \in {Text("v", 1), Text("v", 2)}, t3 \in {Text("v", 1)}}

SmallMappingCases ==
    {[mapping |-> m, given |-> g, arrivals |-> a] :
        m \in SmallMappings, g \in {<<<<1, 2>>, <<2, 1>>>>, <<<<1, 1>>, <<1>>>>}, a \in ArrivalLists}
NoMappingCases == {}

=============================================================================
