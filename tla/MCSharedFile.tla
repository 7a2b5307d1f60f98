----------------------------- MODULE MCSharedFile -----------------------------
(***************************************************************************)
(* Two conversions and a session.  The first writes a file of the same     *)
(* length and shape as the old one, the second a longer one.  The          *)
(* conversions interleave with each other in full; what a session under    *)
(* way may see is bounded by Calm.                                         *)
(***************************************************************************)
EXTENDS SharedFile, FiniteSets, TLC

CONSTANTS a, b, p1, p2

MCLength == (Old :> 1) @@ (a :> 1) @@ (b :> 2)
MCShape == (Old :> "s") @@ (a :> "s") @@ (b :> "t")

\* Pages of two rows. The pages of the first partition lie at one offset of
\* their segments, and so does the second one's in the second segment.
MCPageRows == 1..2
MCProofKey == [g \in Versions \X Parts \X Segs |->
                 IF g[2] = p1 \/ g[3] = 2 THEN "low" ELSE "high"]
MCQueries == {[g \in Pages |-> IF g[2] = 1 THEN {1} ELSE MCPageRows]}
MCBadRows == {<<Old, p2, 1, 1>>, <<Old, p2, 2, 2>>, <<a, p1, 1, 1>>}

\* One partition and one scan of two pages with one key: in the first a row
\* that nobody wants is not text, in the second one that is wanted.
FirstRows == {[g \in Pages |-> {1}]}
UnwantedThenWanted == {<<Old, p1, 1, 2>>, <<Old, p1, 2, 1>>}

\* A session under way: at most one conversion has begun, it is still at its
\* data file (a session does not read the other two), and no crash came before
\* (a restarted reader starts from nothing, whatever files it finds).
Begun == {v \in Conversions : conv[v] # "idle"}
Calm == /\ Cardinality(Begun) <= 1
        /\ \A v \in Begun : turn[v] = 1
        /\ crashes = 0
MCNext == Next /\ (session' \in {"new", "failed"} \/ Calm')
MCSpec == Init /\ [][MCNext]_vars /\ \A p \in Parts : WF_vars(Decode(p))
==============================================================================
