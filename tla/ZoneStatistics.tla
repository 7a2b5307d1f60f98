--------------------------- MODULE ZoneStatistics ---------------------------
(***************************************************************************)
(* The numbers a COVE file stores about a zone (the rows of one morsel)    *)
(* and what a scan may conclude from them:                                 *)
(*                                                                         *)
(*   - NumCode words: a number is stored as one unsigned word, and what    *)
(*     the word means depends on the logical type of its column            *)
(*     (cove-arrow/src/parquet.rs);                                        *)
(*   - the statistics the writer builds of a zone: null counts, minimum    *)
(*     and maximum, ranks in the domain of a column of file codes;         *)
(*   - the proofs of cove-core/src/pruning.rs that no row of the zone      *)
(*     satisfies a predicate.                                              *)
(*                                                                         *)
(* A zone is given by its values, a function from rows to values.          *)
(***************************************************************************)
EXTENDS Integers, FiniteSets, FiniteSetsExt

CONSTANTS Null,        \* a missing value
          NaN,         \* the floating point value that is no number
          WordSize     \* number of words of a NumCode: 2^64 in the code

ASSUME ZoneAssumption ==
    /\ Null # NaN /\ Null \notin Int /\ NaN \notin Int
    /\ WordSize \in Nat /\ WordSize >= 8 /\ WordSize % 4 = 0

-----------------------------------------------------------------------------
(***************************************************************************)
(* Words. Integers are stored in two's complement. The bits of an IEEE     *)
(* number: zero is 0, the sign is the top bit, a larger magnitude is a     *)
(* larger word, and every non-zero magnitude is far above the small        *)
(* integers (1.0 is 0x3FF0000000000000, a quarter of the word size).       *)
(***************************************************************************)
Half == WordSize \div 2
Quarter == WordSize \div 4

FloatBits(v) ==
    CASE v = NaN -> Half - 1
      [] v = 0   -> 0
      [] v > 0   -> Quarter + v
      [] v < 0   -> Half + Quarter - v

Word(kind, v) == IF kind = "Float64" THEN FloatBits(v) ELSE v % WordSize

\* i64::try_from of a word.
FitsSigned(w) == w < Half

Compare(op, x, y) ==
    CASE op = "Eq"   -> x = y
      [] op = "Lt"   -> x < y
      [] op = "LtEq" -> x <= y
      [] op = "Gt"   -> x > y
      [] op = "GtEq" -> x >= y

-----------------------------------------------------------------------------
(***************************************************************************)
(* The writer's statistics of a zone. A zone without non-null values has   *)
(* no range, and one whose numbers are all NaN has no statistics at all.   *)
(***************************************************************************)
Present(zone) == {zone[r] : r \in DOMAIN zone} \ {Null}
NullCount(zone) == Cardinality({r \in DOMAIN zone : zone[r] = Null})

\* No entry in the zone statistics: no zone of the writer is empty.
NoEntry == [rows |-> 0, nulls |-> 0, ranged |-> FALSE, low |-> 0, high |-> 0, nan |-> FALSE]

NullsOnly(zone) ==
    [NoEntry EXCEPT !.rows = Cardinality(DOMAIN zone), !.nulls = NullCount(zone)]

Ranged(zone, values) ==
    [NullsOnly(zone) EXCEPT !.ranged = TRUE, !.low = Min(values), !.high = Max(values)]

NumberStats(zone) ==
    LET numbers == Present(zone) \ {NaN}
    IN  CASE Present(zone) = {} -> NullsOnly(zone)
          [] Present(zone) # {} /\ numbers = {} -> NoEntry
          [] OTHER -> [Ranged(zone, numbers) EXCEPT !.nan = NaN \in Present(zone)]

\* The rank of a file code among the codes of its column, from 0.
Rank(code, domain) == Cardinality({c \in domain : c < code})

CodeStats(zone, domain) ==
    IF Present(zone) = {}
    THEN NullsOnly(zone)
    ELSE Ranged(zone, {Rank(c, domain) : c \in Present(zone)})

-----------------------------------------------------------------------------
(***************************************************************************)
(* Proofs that no row of a zone matches (PredicateZoneOutcome::NoMatch).   *)
(* A predicate on a null is never true.                                    *)
(***************************************************************************)
Known(stats) == stats.rows > 0
OnlyNulls(stats) == Known(stats) /\ stats.nulls = stats.rows

NoNulls(stats) == Known(stats) /\ stats.nulls = 0

\* The interval of the predicate misses the interval of the zone.
Disjoint(op, literal, stats) ==
    CASE op = "Eq"   -> literal < stats.low \/ literal > stats.high
      [] op = "Lt"   -> literal <= stats.low
      [] op = "LtEq" -> literal < stats.low
      [] op = "Gt"   -> literal >= stats.high
      [] op = "GtEq" -> literal > stats.high

NoNumberMatches(op, literal, stats) ==
    \/ OnlyNulls(stats)
    \/ stats.ranged /\ ~stats.nan /\ Disjoint(op, literal, stats)

\* "domain" holds the codes of the column, or nothing when the file has no
\* domain for it: none is written for a column without values.
NoCodeMatches(code, stats, domain) ==
    \/ OnlyNulls(stats)
    \/ domain # {} /\ code \notin domain
    \/ domain # {} /\ stats.ranged /\ Rank(code, domain) \notin stats.low .. stats.high

=============================================================================
