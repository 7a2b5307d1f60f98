----------------------------- MODULE IdentityPlan -----------------------------
(***************************************************************************)
(* Which objects a COVE-MAP conversion makes of the rows of its sources    *)
(* (cove-map/src/identity.rs), and which objects its associations connect  *)
(* (materialize_associations in cove-map/src/lib.rs). A conversion reads   *)
(* all sources again; between two conversions a source may have grown.     *)
(*                                                                         *)
(* A source, an identity rule and a row rule is a number, the numbers of   *)
(* sources in the order of their names. The digests of keys, rows and      *)
(* objects are injective: each stands for what is hashed.                  *)
(***************************************************************************)
EXTENDS Integers, Sequences, FiniteSets, SequencesExt

CONSTANTS
    Absent,        \* a null, or a column a row does not have
    MappingCases   \* [mapping, given, arrivals]: files given in turn

\* The rows sources may get.
Rows == UNION {{case.arrivals[n].values : n \in DOMAIN case.arrivals} : case \in MappingCases}

\* Row rules are of rules of the mapping: planning refuses a row of any other.
ASSUME MappingsTyped ==
    \A case \in MappingCases :
       /\ case.given \in Seq(Seq(Nat))
       /\ case.arrivals \in Seq([source : Nat, values : Rows])
       /\ case.mapping.order \in Seq(Nat)
       /\ \A r \in DOMAIN case.mapping.rowRules :
             case.mapping.rowRules[r].rule \in DOMAIN case.mapping.rules

\* Where an association ends: at the object of the row, or at one of a rule.
OwnEnd == 0

VARIABLES
    mapping,      \* [order, pinned, rules, rowRules, forbidden]
    sheets,        \* the rows each source has by now
    given,        \* for every conversion still to come, the sources in order
    arrivals,     \* what sources will get after the conversion: [source, values]
    identities,   \* planned identities of the conversion under way
    links,        \* its associations
    conversions,  \* what succeeded: [data, identities, links]
    phase         \* none, check, plan, associate, done

identityVars == <<mapping, sheets, given, arrivals, identities, links, conversions, phase>>

-----------------------------------------------------------------------------
(***************************************************************************)
(* Rows and rules. A rule is [type, class, auto, candidate, columns, folds,*)
(* rejects]; a row rule [source, rule, kind, associations].                *)
(***************************************************************************)
RulesOf(source) == {r \in DOMAIN mapping.rowRules : mapping.rowRules[r].source = source}
PlacesOf(source) == {[source |-> source, row |-> i] : i \in DOMAIN sheets[source]}
PlacesIn(order) == UNION {PlacesOf(order[n]) : n \in DOMAIN order}
ValuesAt(place) == sheets[place.source][place.row]

\* A canonicalization that folds takes all spellings of a text for one.
Canonical(rule, value) ==
    IF value # Absent /\ mapping.rules[rule].folds THEN [value EXCEPT !.spelling = 0] ELSE value

\* The join key of a rule, in its own order of columns. An absent component is
\* a component like any other, unless the rule rejects it.
JoinKey(rule, values) ==
    [n \in DOMAIN mapping.rules[rule].columns |->
       Canonical(rule, values[mapping.rules[rule].columns[n]])]

KeyRejected(rule, values) ==
    mapping.rules[rule].rejects /\ \E n \in DOMAIN JoinKey(rule, values) : JoinKey(rule, values)[n] = Absent

Candidate(rule) == mapping.rules[rule].candidate \/ mapping.rules[rule].class = "candidate"

MergeClass(rule) ==
    LET class == mapping.rules[rule].class
        auto == mapping.rules[rule].auto
    IN  CASE class = "authoritative" /\ auto # "no" -> "MergeGlobal"
          [] class = "strong_deterministic" /\ auto = "yes" -> "MergeGlobal"
          [] class = "source_scoped" -> "MergeWithinSource"
          [] OTHER -> "Singleton"

-----------------------------------------------------------------------------
(***************************************************************************)
(* The plan. Every row yields a key for each of the row rules of its       *)
(* source; keys of one group are one object, named after an anchor.        *)
(***************************************************************************)
KeyAt(place, r) ==
    LET rule == mapping.rowRules[r].rule
    IN  [source |-> place.source, row |-> place.row, rowRule |-> r, rule |-> rule,
         key |-> JoinKey(rule, ValuesAt(place)), values |-> ValuesAt(place)]

KeysOf(order) ==
    UNION {{KeyAt(p, r) : r \in {s \in RulesOf(p.source) : ~Candidate(mapping.rowRules[s].rule)}} :
             p \in PlacesIn(order)}

\* Mutation for the checks: groups do not keep the sources apart.
GroupOfAllSources(k) ==
    IF MergeClass(k.rule) = "Singleton" THEN <<k>> ELSE <<k.rule, 0, k.key>>

Group(k) ==
    CASE MergeClass(k.rule) = "MergeGlobal" -> <<k.rule, 0, k.key>>
      [] MergeClass(k.rule) = "MergeWithinSource" -> <<k.rule, k.source, k.key>>
      [] MergeClass(k.rule) = "Singleton" -> <<k>>

Component(keys, k) == {j \in keys : Group(j) = Group(k)}

SourceOrder(source) == CHOOSE n \in DOMAIN mapping.order : mapping.order[n] = source

\* Keys of one component have their rule and join key in common: the order of
\* the sources, and then of the rows, tells the anchor.
PairBefore(x, y) == x[1] < y[1] \/ (x[1] = y[1] /\ x[2] < y[2])
AnchorKey(k) == <<SourceOrder(k.source), k.row>>
Anchor(component) == CHOOSE k \in component : \A j \in component : ~PairBefore(AnchorKey(j), AnchorKey(k))

SourceScope(k) ==
    CASE MergeClass(k.rule) = "MergeGlobal" -> <<>>
      [] MergeClass(k.rule) = "MergeWithinSource" -> <<k.source>>
      [] MergeClass(k.rule) = "Singleton" -> <<k.source, k.row>>

MappedGoid(k) ==
    [type |-> mapping.rules[k.rule].type, rule |-> k.rule, key |-> k.key, scope |-> SourceScope(k)]

\* The names by which a do-not-merge constraint may call a key.
Aliases(k) ==
    {<<"row", k.source, k.row>>, <<"digest", k.values>>, <<"rule", k.rule, k.key>>,
     <<"type", mapping.rules[k.rule].type, k.rule, k.key>>}

Forbidden(component) ==
    \E pair \in mapping.forbidden : pair \subseteq UNION {Aliases(k) : k \in component}

PlanFails(order) ==
    \/ \E n \in DOMAIN order : PlacesOf(order[n]) # {} /\ RulesOf(order[n]) = {}
    \/ \E p \in PlacesIn(order), r \in DOMAIN mapping.rowRules :
          r \in RulesOf(p.source) /\ KeyRejected(mapping.rowRules[r].rule, ValuesAt(p))
    \/ \E k \in KeysOf(order) : Forbidden(Component(KeysOf(order), k))

Planned(order) ==
    LET keys == KeysOf(order)
    IN  {[source |-> k.source, row |-> k.row, rowRule |-> k.rowRule, rule |-> k.rule, key |-> k.key,
          goid |-> MappedGoid(Anchor(Component(keys, k)))] : k \in keys}

-----------------------------------------------------------------------------
(***************************************************************************)
(* Associations. A binding is [id, from, source, target, missing, valid]:  *)
(* the rule of the rows it is for, its ends, and the columns of its        *)
(* validity.                                                               *)
(***************************************************************************)
\* The plan is sorted, and of those with one key the last is remembered.
Place(x) == <<x.source, x.row>>
Latter(found) == {x \in found : \A y \in found : ~PairBefore(Place(x), Place(y))}

SameRow(x, rule) == {y \in identities : Place(y) = Place(x) /\ y.rule = rule}
OfKey(x, rule) == {y \in identities : y.rule = rule /\ y.key = JoinKey(rule, ValuesAt(x))}

Resolve(end, x) ==
    CASE end \in {OwnEnd, x.rule} -> {x}
      [] end \notin {OwnEnd, x.rule} /\ SameRow(x, end) # {} -> SameRow(x, end)
      [] OTHER -> Latter(OfKey(x, end))

EndRejected(end, x) ==
    end \notin {OwnEnd, x.rule} /\ SameRow(x, end) = {} /\ KeyRejected(end, ValuesAt(x))

EndFails(end, x, binding) ==
    EndRejected(end, x) \/ (Resolve(end, x) = {} /\ binding.missing # "skip")

AbsentValidity(x, binding) == \E c \in binding.valid : ValuesAt(x)[c] = Absent

\* Rows whose kind has no associations have none, whatever their bindings say.
BindingsOf(x) ==
    {b \in Range(mapping.rowRules[x.rowRule].associations) :
        /\ mapping.rowRules[x.rowRule].kind \notin {"EvidenceOnly", "ProjectionOnly", "Tombstone"}
        /\ b.from = x.rule}

BindingFails(x, b) ==
    \/ EndFails(b.source, x, b)
    \/ Resolve(b.source, x) # {} /\ EndFails(b.target, x, b)
    \/ /\ Resolve(b.source, x) # {} /\ Resolve(b.target, x) # {}
       /\ b.missing = "reject" /\ AbsentValidity(x, b)

AssociationsFail == \E x \in identities : \E b \in BindingsOf(x) : BindingFails(x, b)

LinksOf(x, b) ==
    IF b.missing = "skip" /\ AbsentValidity(x, b) THEN {}
    ELSE {[source |-> x.source, row |-> x.row, rowRule |-> x.rowRule, id |-> b.id,
           rule |-> b.target, from |-> s.goid, to |-> t.goid] : s \in Resolve(b.source, x), t \in Resolve(b.target, x)}

Associations == UNION {UNION {LinksOf(x, b) : b \in BindingsOf(x)} : x \in identities}

\* An association is an object, named after its binding and its ends, and its
\* properties tell the row and the row rule it is from: of two rows that make
\* the same association, the properties conflict.
SameAssociation(l, k) == l.id = k.id /\ l.from = k.from /\ l.to = k.to
Evidence(l) == <<l.source, l.row, l.rowRule>>

AssociationsConflict ==
    \E l, k \in Associations : SameAssociation(l, k) /\ Evidence(l) # Evidence(k)

-----------------------------------------------------------------------------
(***************************************************************************)
(* A conversion reads the files it is given and checks that they are the   *)
(* sources of the mapping, each once, and those whose contents the mapping *)
(* pins as it pins them.                                                   *)
(***************************************************************************)
Sources == Range(mapping.order)

Required == {mapping.rowRules[r].source : r \in DOMAIN mapping.rowRules} \cup DOMAIN mapping.pinned

InputsValid(order) ==
    /\ IsInjective(order)
    /\ Required \subseteq Range(order) /\ Range(order) \subseteq Sources
    /\ \A s \in DOMAIN mapping.pinned : sheets[s] = mapping.pinned[s]

IdentityTypeOK ==
    /\ phase \in {"none", "check", "plan", "associate", "done"}
    /\ \A x \in identities : x.rule \in DOMAIN mapping.rules /\ x.row \in DOMAIN sheets[x.source]
    /\ \A l \in links : \E x \in identities : Place(x) = <<l.source, l.row>>

NoMapping ==
    /\ mapping = <<>> /\ sheets = <<>> /\ given = <<>> /\ arrivals = <<>>
    /\ identities = {} /\ links = {} /\ conversions = <<>> /\ phase = "none"

IdentityInit ==
    /\ \E case \in MappingCases :
          /\ mapping = case.mapping /\ given = case.given /\ arrivals = case.arrivals
          /\ sheets = [s \in Range(case.mapping.order) |-> <<>>]
    /\ identities = {} /\ links = {} /\ conversions = <<>> /\ phase = "done"

\* A source gets a row after those it has.
SourceGrows ==
    /\ phase = "done" /\ arrivals # <<>>
    /\ sheets' = [sheets EXCEPT ![Head(arrivals).source] = Append(@, Head(arrivals).values)]
    /\ arrivals' = Tail(arrivals)
    /\ UNCHANGED <<mapping, given, identities, links, conversions, phase>>

StartConversion ==
    /\ phase = "done" /\ given # <<>>
    /\ phase' = "check" /\ identities' = {} /\ links' = {}
    /\ UNCHANGED <<mapping, sheets, given, arrivals, conversions>>

CheckInputs ==
    /\ phase = "check" /\ InputsValid(Head(given))
    /\ phase' = "plan"
    /\ UNCHANGED <<mapping, sheets, given, arrivals, identities, links, conversions>>

PlanIdentities ==
    /\ phase = "plan" /\ ~PlanFails(Head(given))
    /\ identities' = Planned(Head(given))
    /\ phase' = "associate"
    /\ UNCHANGED <<mapping, sheets, given, arrivals, links, conversions>>

MaterializeAssociations ==
    /\ phase = "associate" /\ ~AssociationsFail /\ ~AssociationsConflict
    /\ links' = Associations
    /\ conversions' = Append(conversions, [data |-> sheets, identities |-> identities, links |-> links'])
    /\ given' = Tail(given) /\ phase' = "done"
    /\ UNCHANGED <<mapping, sheets, arrivals, identities>>

\* An error at any point: there is no file.
RefuseConversion ==
    /\ \/ phase = "check" /\ ~InputsValid(Head(given))
       \/ phase = "plan" /\ PlanFails(Head(given))
       \/ phase = "associate" /\ (AssociationsFail \/ AssociationsConflict)
    /\ given' = Tail(given) /\ phase' = "done" /\ identities' = {}
    /\ UNCHANGED <<mapping, sheets, arrivals, links, conversions>>

IdentityNext ==
    \/ SourceGrows \/ StartConversion \/ CheckInputs \/ PlanIdentities
    \/ MaterializeAssociations \/ RefuseConversion

IdentitySpec == IdentityInit /\ [][IdentityNext]_identityVars

-----------------------------------------------------------------------------
(***************************************************************************)
(* Two rows, of one conversion or of two, are about one object if their    *)
(* rule says so: for all sources, within a source, or for no other row.    *)
(***************************************************************************)
SameObject(x, y) ==
    /\ x.rule = y.rule
    /\ JoinKey(x.rule, ValuesAt(x)) = JoinKey(y.rule, ValuesAt(y))
    /\ CASE MergeClass(x.rule) = "MergeGlobal" -> TRUE
         [] MergeClass(x.rule) = "MergeWithinSource" -> x.source = y.source
         [] MergeClass(x.rule) = "Singleton" -> Place(x) = Place(y)

\* No object has rows that must not be merged.
KeptApart(c) ==
    \A g \in {x.goid : x \in c.identities} :
       ~Forbidden({[source |-> x.source, row |-> x.row, rule |-> x.rule, key |-> x.key,
                    values |-> ValuesAt(x)] : x \in {y \in c.identities : y.goid = g}})

\* An association leads to an object with the key its row gives, and where an
\* object is the same in all sources, to the same one in every conversion.
LinkRight(l) ==
    l.rule # OwnEnd =>
       /\ l.to.rule = l.rule
       /\ l.to.key = JoinKey(l.rule, ValuesAt(l))
       /\ MergeClass(l.rule) = "MergeGlobal" => l.to.scope = <<>>

\* Identities are deterministic (spec.md 70.6): whatever the order the sources
\* are given in, whatever other rows came before or have come since, two rows
\* have one GOID exactly if their rule makes them one object; do-not-merge
\* constraints hold, associations resolve by the key of their row, and the
\* same data give the same objects and associations.
IdentitiesDeterministic ==
    \A m, n \in DOMAIN conversions :
       /\ \A x \in conversions[m].identities, y \in conversions[n].identities :
             x.goid = y.goid <=> SameObject(x, y)
       /\ KeptApart(conversions[m])
       /\ \A l \in conversions[m].links : LinkRight(l)
       /\ conversions[m].data = conversions[n].data => conversions[m] = conversions[n]

=============================================================================
