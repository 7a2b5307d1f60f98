-------------------------- MODULE QueryAnswersProofs --------------------------
(***************************************************************************)
(* Proofs about COVE-MAP conversions: identities are deterministic, for    *)
(* every mapping, every order of the sources and every history of          *)
(* conversions and of rows that arrive between them. About the objects the *)
(* files hold: at whichever cut, what is read back is what the records     *)
(* made of an object, in the order they were committed, and the projection *)
(* finds the same objects, for every batch of conversions and every writer *)
(* that refers to what it wrote before. And about the four ways a query    *)
(* gets its answer and the mappings together: a behaviour of one of them,  *)
(* beside the others, has all that was proved of it.                       *)
(***************************************************************************)
EXTENDS MCQueryAnswers, TableReadProofs

------------------------------------------------------------------------------
(* The keys of given data: the same, in whatever order sources are given    *)

RuleOf(r) == mapping.rowRules[r].rule
Taking(s) == {r \in RulesOf(s) : ~Candidate(RuleOf(r))}

KeyIn(data, s, i, r) ==
  [source |-> s, row |-> i, rowRule |-> r, rule |-> RuleOf(r),
   key |-> JoinKey(RuleOf(r), data[s][i]), values |-> data[s][i]]

\* Key k is of a row of the data.
IsKeyOf(data, k) ==
  /\ k.source \in Sources /\ k.row \in DOMAIN data[k.source] /\ k.rowRule \in Taking(k.source)
  /\ k = KeyIn(data, k.source, k.row, k.rowRule)

KeysFrom(data) ==
  UNION {UNION {{KeyIn(data, s, i, r) : r \in Taking(s)} : i \in DOMAIN data[s]} : s \in Sources}

LEMMA KeysFromMembers ==
  ASSUME NEW data, NEW k
  PROVE  k \in KeysFrom(data) <=> IsKeyOf(data, k)
<1>1. ASSUME k \in KeysFrom(data) PROVE IsKeyOf(data, k)
  <2>1. PICK s \in Sources :
          k \in UNION {{KeyIn(data, s, i, r) : r \in Taking(s)} : i \in DOMAIN data[s]}
    BY <1>1 DEF KeysFrom
  <2>2. PICK i \in DOMAIN data[s] : k \in {KeyIn(data, s, i, r) : r \in Taking(s)}
    BY <2>1
  <2>3. PICK r \in Taking(s) : k = KeyIn(data, s, i, r)
    BY <2>2
  <2>4. k.source = s /\ k.row = i /\ k.rowRule = r
    BY <2>3 DEF KeyIn
  <2>5. QED
    BY <2>3, <2>4 DEF IsKeyOf
<1>2. ASSUME IsKeyOf(data, k) PROVE k \in KeysFrom(data)
  BY <1>2 DEF IsKeyOf, KeysFrom
<1>3. QED
  BY <1>1, <1>2

\* Sources that are given without a row rule yield no key.
LEMMA KeysOfOrder ==
  ASSUME NEW order, InputsValid(order)
  PROVE  KeysOf(order) = KeysFrom(sheets)
<1>1. \A s : Taking(s) # {} => s \in Range(order)
  BY DEF Taking, RulesOf, InputsValid, Required
<1>2. Range(order) \subseteq Sources
  BY DEF InputsValid
<1>3. \A p, r : KeyAt(p, r) = KeyIn(sheets, p.source, p.row, r)
  BY DEF KeyAt, KeyIn, ValuesAt, RuleOf
<1>4. ASSUME NEW k \in KeysOf(order) PROVE k \in KeysFrom(sheets)
  <2>1. PICK p \in PlacesIn(order) : k \in {KeyAt(p, r) : r \in Taking(p.source)}
    BY DEF KeysOf, Taking, RuleOf
  <2>2. PICK r \in Taking(p.source) : k = KeyIn(sheets, p.source, p.row, r)
    BY <1>3, <2>1
  <2>3. PICK n \in DOMAIN order : p \in PlacesOf(order[n])
    BY DEF PlacesIn
  <2>4. p.source = order[n] /\ p.row \in DOMAIN sheets[order[n]]
    BY <2>3 DEF PlacesOf
  <2>5. p.source \in Sources
    BY <1>2, <2>4 DEF Range
  <2>6. QED
    BY <2>2, <2>4, <2>5 DEF KeysFrom
<1>5. ASSUME NEW k \in KeysFrom(sheets) PROVE k \in KeysOf(order)
  <2>1. IsKeyOf(sheets, k)
    BY KeysFromMembers
  <2> DEFINE p == [source |-> k.source, row |-> k.row]
  <2>2. PICK n \in DOMAIN order : order[n] = k.source
    BY <1>1, <2>1 DEF IsKeyOf, Range
  <2>3. p \in PlacesIn(order)
    BY <2>1, <2>2 DEF IsKeyOf, PlacesIn, PlacesOf
  <2>4. k = KeyAt(p, k.rowRule) /\ k.rowRule \in Taking(p.source)
    BY <1>3, <2>1 DEF IsKeyOf
  <2> HIDE DEF p
  <2>5. QED
    BY <2>3, <2>4 DEF KeysOf, Taking, RuleOf
<1>6. QED
  BY <1>4, <1>5

------------------------------------------------------------------------------
(* Groups, anchors and names: a key's object is named after the key itself  *)

LEMMA MergeClasses == \A r : MergeClass(r) \in {"MergeGlobal", "MergeWithinSource", "Singleton"}
  BY DEF MergeClass

\* Keys of one group have one name, whichever of them is the anchor.
LEMMA GroupName ==
  ASSUME NEW j, NEW k, Group(j) = Group(k)
  PROVE  MappedGoid(j) = MappedGoid(k)
<1> DEFINE Three(x) == MergeClass(x.rule) \in {"MergeGlobal", "MergeWithinSource"}
<1>1. \A x : /\ Three(x) => Len(Group(x)) = 3
             /\ ~ Three(x) => Group(x) = <<x>> /\ Len(Group(x)) = 1
  BY MergeClasses DEF Group
<1>2. CASE ~ Three(k)
  <2> HIDE DEF Three
  <2>1. ~ Three(j)
    BY <1>1, <1>2
  <2>2. <<j>> = <<k>>
    BY <1>1, <1>2, <2>1
  <2>3. QED
    BY <2>2
<1>3. CASE Three(k)
  <2>1. Three(j)
    BY <1>1, <1>3
  <2>2. j.rule = k.rule /\ j.key = k.key
    BY <1>3, <2>1 DEF Group
  <2>3. MergeClass(k.rule) = "MergeWithinSource" => j.source = k.source
    BY <2>2 DEF Group
  <2>4. SourceScope(j) = SourceScope(k)
    BY <1>3, <2>2, <2>3 DEF SourceScope
  <2>5. QED
    BY <2>2, <2>4 DEF MappedGoid
<1>4. QED
  BY <1>2, <1>3

\* There is an anchor: the first of the sources, and of its rows the first.
LEMMA AnchorExists ==
  ASSUME NEW C, C # {},
         \A j \in C : SourceOrder(j.source) \in Nat /\ j.row \in Nat
  PROVE  Anchor(C) \in C
<1> DEFINE orders == {SourceOrder(j.source) : j \in C}
<1>1. PICK n \in orders : \A m \in orders : n <= m
  <2>1. orders \subseteq Nat /\ orders # {}
    OBVIOUS
  <2> HIDE DEF orders
  <2>2. QED
    BY <2>1, NatMin
<1> DEFINE rows == {j.row : j \in {i \in C : SourceOrder(i.source) = n}}
<1>2. PICK r \in rows : \A q \in rows : r <= q
  <2>1. rows \subseteq Nat /\ rows # {}
    BY <1>1
  <2> HIDE DEF rows
  <2>2. QED
    BY <2>1, NatMin
<1>3. PICK k \in C : SourceOrder(k.source) = n /\ k.row = r
  BY <1>2
<1>4. ASSUME NEW j \in C PROVE ~ PairBefore(AnchorKey(j), AnchorKey(k))
  <2>1. n <= SourceOrder(j.source) /\ (SourceOrder(j.source) = n => r <= j.row)
    BY <1>1, <1>2
  <2>2. n \in Nat /\ r \in Nat /\ SourceOrder(j.source) \in Nat /\ j.row \in Nat
    BY <1>3
  <2>3. QED
    BY <1>3, <2>1, <2>2 DEF PairBefore, AnchorKey
<1>5. QED
  BY <1>3, <1>4 DEF Anchor


------------------------------------------------------------------------------
(* The plan of a conversion: what its data alone tell                       *)

MappingTyped ==
  /\ mapping.order \in Seq(Nat)
  /\ \A r \in DOMAIN mapping.rowRules : RuleOf(r) \in DOMAIN mapping.rules

DataTyped(data) == data \in [Sources -> Seq(Rows)]

IdentityOf(k) ==
  [source |-> k.source, row |-> k.row, rowRule |-> k.rowRule, rule |-> k.rule, key |-> k.key,
   goid |-> MappedGoid(k)]

IdentitiesFrom(data) == {IdentityOf(k) : k \in KeysFrom(data)}

\* Nothing that must not be merged is in one group.
Apart(data) == \A k \in KeysFrom(data) : ~ Forbidden(Component(KeysFrom(data), k))

LEMMA NamedAfterItself ==
  ASSUME NEW data, MappingTyped, DataTyped(data), NEW k \in KeysFrom(data)
  PROVE  MappedGoid(Anchor(Component(KeysFrom(data), k))) = MappedGoid(k)
<1> DEFINE C == Component(KeysFrom(data), k)
<1>1. k \in C /\ \A j \in C : j \in KeysFrom(data) /\ Group(j) = Group(k)
  BY DEF Component
<1>2. ASSUME NEW j \in C PROVE SourceOrder(j.source) \in Nat /\ j.row \in Nat
  <2>1. IsKeyOf(data, j)
    BY <1>1, KeysFromMembers
  <2>2. \E n \in DOMAIN mapping.order : mapping.order[n] = j.source
    BY <2>1 DEF IsKeyOf, Sources, Range
  <2>3. SourceOrder(j.source) \in DOMAIN mapping.order
    BY <2>2 DEF SourceOrder
  <2>4. data[j.source] \in Seq(Rows) /\ j.row \in DOMAIN data[j.source]
    BY <2>1 DEF IsKeyOf, DataTyped
  <2>5. QED
    BY <2>3, <2>4 DEF MappingTyped
<1> HIDE DEF C
<1>3. Anchor(C) \in C
  BY <1>1, <1>2, AnchorExists
<1>4. Group(Anchor(C)) = Group(k)
  BY <1>1, <1>3
<1>5. QED
  BY <1>4, GroupName DEF C

LEMMA PlannedFromData ==
  ASSUME NEW order, InputsValid(order), MappingTyped, DataTyped(sheets)
  PROVE  Planned(order) = IdentitiesFrom(sheets)
<1> DEFINE keys == KeysFrom(sheets)
           Named(k) == [source |-> k.source, row |-> k.row, rowRule |-> k.rowRule, rule |-> k.rule,
                        key |-> k.key, goid |-> MappedGoid(Anchor(Component(keys, k)))]
<1>1. Planned(order) = {Named(k) : k \in keys}
  BY KeysOfOrder DEF Planned
<1>2. \A k \in keys : Named(k) = IdentityOf(k)
  BY NamedAfterItself DEF IdentityOf
<1>3. QED
  BY <1>1, <1>2 DEF IdentitiesFrom

LEMMA PlannedApart ==
  ASSUME NEW order, InputsValid(order), ~ PlanFails(order)
  PROVE  Apart(sheets)
  BY KeysOfOrder DEF PlanFails, Apart

\* What an identity says of its row.
IsIdentityOf(data, x) ==
  /\ x.source \in Sources /\ x.row \in DOMAIN data[x.source]
  /\ x.rowRule \in DOMAIN mapping.rowRules /\ x.rule = RuleOf(x.rowRule)
  /\ x.key = JoinKey(x.rule, data[x.source][x.row])
  /\ x.goid = MappedGoid(x)

LEMMA IdentitiesSay ==
  ASSUME NEW data, NEW x \in IdentitiesFrom(data)
  PROVE  IsIdentityOf(data, x)
<1>1. PICK k \in KeysFrom(data) : x = IdentityOf(k)
  BY DEF IdentitiesFrom
<1>2. IsKeyOf(data, k)
  BY KeysFromMembers
<1>3. /\ x.source = k.source /\ x.row = k.row /\ x.rowRule = k.rowRule /\ x.rule = k.rule
      /\ x.key = k.key /\ x.goid = MappedGoid(k)
  BY <1>1 DEF IdentityOf
<1>4. MappedGoid(x) = MappedGoid(k)
  BY <1>3 DEF MappedGoid, SourceScope
<1>5. k.rule = RuleOf(k.rowRule) /\ k.key = JoinKey(RuleOf(k.rowRule), data[k.source][k.row])
  BY <1>2 DEF IsKeyOf, KeyIn
<1>6. QED
  BY <1>2, <1>3, <1>4, <1>5 DEF IsIdentityOf, IsKeyOf, Taking, RulesOf

------------------------------------------------------------------------------
(* Rows stay where they are while sources grow                              *)

Grown(data, later) ==
  \A s \in Sources : /\ DOMAIN data[s] \subseteq DOMAIN later[s]
                     /\ \A i \in DOMAIN data[s] : later[s][i] = data[s][i]

\* Two identities have one name exactly if their rule makes them one object.
LEMMA OneNameOneObject ==
  ASSUME NEW data, NEW other, Grown(data, sheets), Grown(other, sheets),
         NEW x, NEW y, IsIdentityOf(data, x), IsIdentityOf(other, y)
  PROVE  x.goid = y.goid <=> SameObject(x, y)
<1>1. /\ x.key = JoinKey(x.rule, ValuesAt(x))
      /\ y.key = JoinKey(y.rule, ValuesAt(y))
  BY DEF IsIdentityOf, Grown, ValuesAt
<1>2. x.goid = y.goid <=> /\ x.rule = y.rule /\ x.key = y.key
                          /\ SourceScope(x) = SourceScope(y)
  BY DEF IsIdentityOf, MappedGoid
<1>3. ASSUME x.rule = y.rule
      PROVE  SourceScope(x) = SourceScope(y) <=>
               CASE MergeClass(x.rule) = "MergeGlobal" -> TRUE
                 [] MergeClass(x.rule) = "MergeWithinSource" -> x.source = y.source
                 [] MergeClass(x.rule) = "Singleton" -> Place(x) = Place(y)
  BY <1>3, MergeClasses DEF SourceScope, Place
<1>4. QED
  BY <1>1, <1>2, <1>3 DEF SameObject

\* The rows of an object have no names but those of one group.
LEMMA ObjectsKeptApart ==
  ASSUME NEW data, Grown(data, sheets), Apart(data),
         NEW c, c.identities = IdentitiesFrom(data)
  PROVE  KeptApart(c)
<1> DEFINE Called(x) == [source |-> x.source, row |-> x.row, rule |-> x.rule, key |-> x.key,
                         values |-> ValuesAt(x)]
<1>1. SUFFICES ASSUME NEW k \in KeysFrom(data)
               PROVE  ~ Forbidden({Called(x) : x \in {y \in c.identities : y.goid = MappedGoid(k)}})
  BY DEF KeptApart, IdentitiesFrom, IdentityOf
<1> DEFINE named == {Called(x) : x \in {y \in c.identities : y.goid = MappedGoid(k)}}
           group == Component(KeysFrom(data), k)
<1>2. ASSUME NEW z \in named PROVE \E j \in group : Aliases(z) = Aliases(j)
  <2>1. PICK x \in c.identities : x.goid = MappedGoid(k) /\ z = Called(x)
    OBVIOUS
  <2>2. PICK j \in KeysFrom(data) : x = IdentityOf(j)
    BY <2>1 DEF IdentitiesFrom
  <2>3. /\ x.source = j.source /\ x.row = j.row /\ x.rule = j.rule /\ x.key = j.key
        /\ MappedGoid(j) = MappedGoid(k)
    BY <2>1, <2>2 DEF IdentityOf
  <2>4. IsKeyOf(data, j) /\ IsKeyOf(data, k)
    BY KeysFromMembers
  <2>5. /\ j.values = data[j.source][j.row] /\ k.values = data[k.source][k.row]
        /\ j.values = ValuesAt(x)
    BY <2>3, <2>4 DEF IsKeyOf, KeyIn, Grown, ValuesAt
  <2>6. Aliases(z) = Aliases(j)
    BY <2>1, <2>3, <2>5 DEF Aliases
  <2>7. j.rule = k.rule /\ j.key = k.key /\ SourceScope(j) = SourceScope(k)
    BY <2>3 DEF MappedGoid
  <2>8. CASE MergeClass(k.rule) # "Singleton"
    <3>1. Group(j) = Group(k)
      BY <2>7, <2>8, MergeClasses DEF Group, SourceScope
    <3>2. QED
      BY <2>6, <3>1 DEF Component
  <2>9. CASE MergeClass(k.rule) = "Singleton"
    <3>1. j.source = k.source /\ j.row = k.row
      BY <2>7, <2>9 DEF SourceScope
    <3>2. Aliases(j) = Aliases(k)
      BY <2>5, <2>7, <3>1 DEF Aliases
    <3>3. QED
      BY <2>6, <3>2 DEF Component
  <2>10. QED
    BY <2>8, <2>9
<1> HIDE DEF named, group
<1>3. UNION {Aliases(z) : z \in named} \subseteq UNION {Aliases(j) : j \in group}
  BY <1>2
<1>4. ~ Forbidden(group)
  BY DEF Apart, group
<1>5. ~ Forbidden(named)
  BY <1>3, <1>4 DEF Forbidden
<1>6. QED
  BY <1>5 DEF named


------------------------------------------------------------------------------
(* Associations                                                             *)

\* Associations as a function of the data and of the identities planned.
SameRowIn(ids, end, x) == {y \in ids : Place(y) = Place(x) /\ y.rule = end}
OfKeyIn(data, ids, end, x) ==
  {y \in ids : y.rule = end /\ y.key = JoinKey(end, data[x.source][x.row])}

EndsIn(data, ids, end, x) ==
  CASE end \in {OwnEnd, x.rule} -> {x}
    [] end \notin {OwnEnd, x.rule} /\ SameRowIn(ids, end, x) # {} -> SameRowIn(ids, end, x)
    [] OTHER -> Latter(OfKeyIn(data, ids, end, x))

LinksIn(data, ids, x, b) ==
  IF b.missing = "skip" /\ \E c \in b.valid : data[x.source][x.row][c] = Absent THEN {}
  ELSE {[source |-> x.source, row |-> x.row, rowRule |-> x.rowRule, id |-> b.id,
         rule |-> b.target, from |-> s.goid, to |-> t.goid] :
           s \in EndsIn(data, ids, b.source, x), t \in EndsIn(data, ids, b.target, x)}

LinksFrom(data) ==
  UNION {UNION {LinksIn(data, IdentitiesFrom(data), x, b) : b \in BindingsOf(x)} :
           x \in IdentitiesFrom(data)}

LEMMA AssociationsFromData ==
  ASSUME identities = IdentitiesFrom(sheets)
  PROVE  Associations = LinksFrom(sheets)
<1>1. \A end, x : Resolve(end, x) = EndsIn(sheets, identities, end, x)
  BY DEF Resolve, EndsIn, SameRow, SameRowIn, OfKey, OfKeyIn, ValuesAt
<1>2. \A x, b : LinksOf(x, b) = LinksIn(sheets, identities, x, b)
  BY <1>1 DEF LinksOf, LinksIn, AbsentValidity, ValuesAt
<1>3. Associations = UNION {UNION {LinksIn(sheets, identities, x, b) : b \in BindingsOf(x)} :
                              x \in identities}
  BY <1>2 DEF Associations
<1>4. QED
  BY <1>3 DEF LinksFrom

\* Where an association ends.
LEMMA EndRight ==
  ASSUME NEW data, \A z \in identities : IsIdentityOf(data, z), data = sheets,
         NEW x \in identities, NEW end, end # OwnEnd, NEW t \in Resolve(end, x)
  PROVE  /\ t \in identities
         /\ t.rule = end
         /\ t.key = JoinKey(end, ValuesAt(x))
<1>1. \A z \in identities : z.key = JoinKey(z.rule, ValuesAt(z))
  BY DEF IsIdentityOf, ValuesAt
<1>2. CASE end = x.rule
  <2>1. t = x
    BY <1>2 DEF Resolve
  <2>2. QED
    BY <1>1, <1>2, <2>1
<1>3. CASE end # x.rule /\ SameRow(x, end) # {}
  <2>1. t \in SameRow(x, end)
    BY <1>3 DEF Resolve
  <2>2. t.source = x.source /\ t.row = x.row /\ t.rule = end /\ t \in identities
    BY <2>1 DEF SameRow, Place
  <2>3. QED
    BY <1>1, <2>2 DEF ValuesAt
<1>4. CASE end # x.rule /\ SameRow(x, end) = {}
  <2>1. t \in OfKey(x, end)
    BY <1>4 DEF Resolve, Latter
  <2>2. QED
    BY <2>1 DEF OfKey
<1>5. QED
  BY <1>2, <1>3, <1>4

\* An association leads where its row says.
LinkSays(data, ids, l) ==
  /\ l.source \in Sources /\ l.row \in DOMAIN data[l.source]
  /\ \E x \in ids : Place(x) = <<l.source, l.row>>
  /\ l.rule # OwnEnd =>
       /\ l.to.rule = l.rule
       /\ l.to.key = JoinKey(l.rule, data[l.source][l.row])
       /\ MergeClass(l.rule) = "MergeGlobal" => l.to.scope = <<>>

LEMMA AssociationsSay ==
  ASSUME \A z \in identities : IsIdentityOf(sheets, z), NEW l \in Associations
  PROVE  LinkSays(sheets, identities, l)
<1>1. PICK x \in identities : \E b \in BindingsOf(x) : l \in LinksOf(x, b)
  BY DEF Associations
<1>2. PICK b \in BindingsOf(x) : l \in LinksOf(x, b)
  BY <1>1
<1>3. PICK s \in Resolve(b.source, x), t \in Resolve(b.target, x) :
        l = [source |-> x.source, row |-> x.row, rowRule |-> x.rowRule, id |-> b.id,
             rule |-> b.target, from |-> s.goid, to |-> t.goid]
  BY <1>2 DEF LinksOf
<1>4. l.source = x.source /\ l.row = x.row /\ l.rule = b.target /\ l.to = t.goid
  BY <1>3
<1>5. ASSUME b.target # OwnEnd
      PROVE  /\ l.to.rule = l.rule
             /\ l.to.key = JoinKey(l.rule, sheets[l.source][l.row])
             /\ MergeClass(l.rule) = "MergeGlobal" => l.to.scope = <<>>
  <2>1. t \in identities /\ t.rule = b.target /\ t.key = JoinKey(b.target, ValuesAt(x))
    BY <1>5, EndRight
  <2>2. t.goid = MappedGoid(t)
    BY <2>1 DEF IsIdentityOf
  <2>3. QED
    BY <1>4, <2>1, <2>2 DEF MappedGoid, SourceScope, ValuesAt
<1>6. QED
  BY <1>4, <1>5 DEF LinkSays, Place, IsIdentityOf

------------------------------------------------------------------------------
(* The inductive invariant: a conversion that succeeded made what its data  *)
(* alone tell, and the data it read are what the sources began with         *)

ConversionRight(c) ==
  /\ c = [data |-> c.data, identities |-> IdentitiesFrom(c.data), links |-> LinksFrom(c.data)]
  /\ Grown(c.data, sheets) /\ Apart(c.data)
  /\ \A l \in c.links : LinkSays(c.data, c.identities, l)

FilesTyped ==
  /\ MappingTyped /\ DataTyped(sheets)
  /\ given \in Seq(Seq(Nat))
  /\ arrivals \in Seq([source : Nat, values : Rows])

UnderWay ==
  /\ phase \in {"check", "plan", "associate", "done"}
  /\ phase \in {"check", "plan", "associate"} => given # <<>> /\ links = {}
  /\ phase \in {"plan", "associate"} => InputsValid(Head(given))
  /\ phase = "associate" => identities = IdentitiesFrom(sheets) /\ Apart(sheets)

PlanTyped ==
  /\ \A x \in identities : /\ x.rule \in DOMAIN mapping.rules
                           /\ x.source \in Sources /\ x.row \in DOMAIN sheets[x.source]
  /\ \A l \in links : \E x \in identities : Place(x) = <<l.source, l.row>>

AllRight ==
  /\ conversions \in Seq(Range(conversions))
  /\ \A n \in DOMAIN conversions : ConversionRight(conversions[n])

IdentityInv == FilesTyped /\ UnderWay /\ PlanTyped /\ AllRight

LEMMA IdentityStarts == IdentityInit => IdentityInv
<1> SUFFICES ASSUME IdentityInit PROVE IdentityInv
  OBVIOUS
<1>1. PICK case \in MappingCases :
        /\ mapping = case.mapping /\ given = case.given /\ arrivals = case.arrivals
        /\ sheets = [s \in Range(case.mapping.order) |-> <<>>]
  BY DEF IdentityInit
<1>2. FilesTyped
  <2>1. MappingTyped
    BY <1>1, MappingsTyped DEF MappingTyped, RuleOf
  <2>2. sheets = [s \in Sources |-> <<>>]
    BY <1>1 DEF Sources
  <2>3. DataTyped(sheets)
    BY <2>2 DEF DataTyped
  <2>4. given \in Seq(Seq(Nat)) /\ arrivals \in Seq([source : Nat, values : Rows])
    BY <1>1, MappingsTyped
  <2>5. QED
    BY <2>1, <2>3, <2>4 DEF FilesTyped
<1>3. UnderWay /\ PlanTyped /\ AllRight
  BY DEF IdentityInit, UnderWay, PlanTyped, AllRight
<1>4. QED
  BY <1>2, <1>3 DEF IdentityInv


\* Data that conversions read stay what the sources begin with.
LEMMA RowsStay ==
  ASSUME FilesTyped, SourceGrows
  PROVE  /\ DataTyped(sheets)'
         /\ Grown(sheets, sheets')
<1> DEFINE src == Head(arrivals).source
           row == Head(arrivals).values
<1>1. arrivals # <<>> /\ arrivals \in Seq([source : Nat, values : Rows])
  BY DEF SourceGrows, FilesTyped
<1>2. row \in Rows
  <2> DEFINE Arrival == [source : Nat, values : Rows]
  <2>1. arrivals # <<>> /\ arrivals \in Seq(Arrival)
    BY <1>1
  <2> HIDE DEF Arrival
  <2>2. Head(arrivals) \in Arrival
    BY <2>1
  <2>3. QED
    BY <2>2 DEF Arrival
<1>3. sheets' = [sheets EXCEPT ![src] = Append(sheets[src], row)] /\ mapping' = mapping
  BY DEF SourceGrows
<1>4. sheets \in [Sources -> Seq(Rows)]
  BY DEF FilesTyped, DataTyped
<1> HIDE DEF src, row
<1>5. ASSUME NEW s \in Sources
      PROVE  /\ Append(sheets[s], row) \in Seq(Rows)
             /\ DOMAIN sheets[s] \subseteq DOMAIN Append(sheets[s], row)
             /\ \A i \in DOMAIN sheets[s] : Append(sheets[s], row)[i] = sheets[s][i]
  <2>1. sheets[s] \in Seq(Rows)
    BY <1>4
  <2>2. QED
    BY <1>2, <2>1
<1>6. \A s \in Sources : sheets'[s] = IF s = src THEN Append(sheets[s], row) ELSE sheets[s]
  BY <1>3, <1>4
<1>7. sheets' \in [Sources -> Seq(Rows)]
  BY <1>3, <1>4, <1>5
<1>8. Grown(sheets, sheets')
  BY <1>5, <1>6 DEF Grown
<1>9. QED
  BY <1>3, <1>7, <1>8 DEF DataTyped, Sources

LEMMA StillGrown ==
  ASSUME NEW data, NEW now, NEW later, Grown(data, now), Grown(now, later)
  PROVE  Grown(data, later)
  BY DEF Grown

\* What data tell is a matter of the mapping and of the data.
LEMMA MappingTells ==
  ASSUME mapping' = mapping
  PROVE  /\ Sources' = Sources
         /\ \A rule : MergeClass(rule)' = MergeClass(rule)
         /\ \A rule, values : JoinKey(rule, values)' = JoinKey(rule, values)
         /\ \A data : /\ IdentitiesFrom(data)' = IdentitiesFrom(data)
                      /\ LinksFrom(data)' = LinksFrom(data)
                      /\ Apart(data)' = Apart(data)
<1>1. Sources' = Sources
  BY DEF Sources
<1>2. \A r : /\ RuleOf(r)' = RuleOf(r)
             /\ MergeClass(r)' = MergeClass(r)
             /\ Candidate(r)' = Candidate(r)
  BY DEF RuleOf, MergeClass, Candidate
<1>3. \A rule, values : JoinKey(rule, values)' = JoinKey(rule, values)
  <2>1. \A rule, value : Canonical(rule, value)' = Canonical(rule, value)
    BY DEF Canonical
  <2>2. QED
    BY <2>1 DEF JoinKey
<1>4. \A s : Taking(s)' = Taking(s)
  <2>1. \A s : RulesOf(s)' = RulesOf(s)
    BY DEF RulesOf
  <2>2. QED
    BY <1>2, <2>1 DEF Taking
<1>5. \A data, s, i, r : KeyIn(data, s, i, r)' = KeyIn(data, s, i, r)
  BY <1>2, <1>3 DEF KeyIn
<1>6. \A data : KeysFrom(data)' = KeysFrom(data)
  BY <1>1, <1>4, <1>5 DEF KeysFrom
<1>7. \A k : MappedGoid(k)' = MappedGoid(k) /\ Group(k)' = Group(k) /\ Aliases(k)' = Aliases(k)
  <2>1. \A k : SourceScope(k)' = SourceScope(k)
    BY <1>2 DEF SourceScope
  <2>2. QED
    BY <1>2, <2>1 DEF MappedGoid, Group, Aliases
<1>8. \A data : IdentitiesFrom(data)' = IdentitiesFrom(data)
  <2>1. \A k : IdentityOf(k)' = IdentityOf(k)
    BY <1>7 DEF IdentityOf
  <2>2. QED
    BY <1>6, <2>1 DEF IdentitiesFrom
<1>9. \A data : Apart(data)' = Apart(data)
  <2>1. \A keys, k : Component(keys, k)' = Component(keys, k)
    BY <1>7 DEF Component
  <2>2. \A C : Forbidden(C)' = Forbidden(C)
    BY <1>7 DEF Forbidden
  <2>3. QED
    BY <1>6, <2>1, <2>2 DEF Apart
<1>10. \A data : LinksFrom(data)' = LinksFrom(data)
  <2>1. \A x : BindingsOf(x)' = BindingsOf(x)
    BY DEF BindingsOf
  <2>2. \A data, ids, end, x : EndsIn(data, ids, end, x)' = EndsIn(data, ids, end, x)
    <3> SUFFICES ASSUME NEW data, NEW ids, NEW end, NEW x
                 PROVE  EndsIn(data, ids, end, x)' = EndsIn(data, ids, end, x)
      OBVIOUS
    <3>1. OfKeyIn(data, ids, end, x)' = OfKeyIn(data, ids, end, x)
      BY <1>3 DEF OfKeyIn
    <3>2. SameRowIn(ids, end, x)' = SameRowIn(ids, end, x)
      BY DEF SameRowIn, Place
    <3>3. \A found : Latter(found)' = Latter(found)
      BY DEF Latter, Place, PairBefore
    <3>4. QED
      BY <3>1, <3>2, <3>3 DEF EndsIn
  <2>3. \A data, ids, x, b : LinksIn(data, ids, x, b)' = LinksIn(data, ids, x, b)
    <3> SUFFICES ASSUME NEW data, NEW ids, NEW x, NEW b
                 PROVE  LinksIn(data, ids, x, b)' = LinksIn(data, ids, x, b)
      OBVIOUS
    <3>1. /\ EndsIn(data, ids, b.source, x)' = EndsIn(data, ids, b.source, x)
          /\ EndsIn(data, ids, b.target, x)' = EndsIn(data, ids, b.target, x)
      BY <2>2
    <3>2. QED
      BY <3>1 DEF LinksIn
  <2>4. QED
    BY <1>8, <2>1, <2>3 DEF LinksFrom
<1>11. QED
  BY <1>1, <1>2, <1>3, <1>8, <1>9, <1>10

LEMMA StillRight ==
  ASSUME NEW c, ConversionRight(c), mapping' = mapping, Grown(sheets, sheets')
  PROVE  ConversionRight(c)'
<1>1. Grown(c.data, sheets')
  BY StillGrown DEF ConversionRight
<1>2. \A l \in c.links : LinkSays(c.data, c.identities, l)'
  BY MappingTells DEF ConversionRight, LinkSays, Place
<1>3. QED
  BY <1>1, <1>2, MappingTells DEF ConversionRight, Grown

LEMMA GrownFromItself == \A data : Grown(data, data)
  BY DEF Grown

\* Actions that leave the files' contents and the conversions as they are.
LEMMA NothingConverted ==
  ASSUME AllRight, UNCHANGED <<mapping, sheets, conversions>>
  PROVE  AllRight'
<1>1. ASSUME NEW n \in DOMAIN conversions PROVE ConversionRight(conversions[n])'
  BY StillRight, GrownFromItself DEF AllRight
<1>2. QED
  BY <1>1 DEF AllRight, Range

LEMMA FilesKept ==
  ASSUME FilesTyped, UNCHANGED <<mapping, sheets, arrivals>>,
         given' = given \/ (given # <<>> /\ given' = Tail(given))
  PROVE  FilesTyped'
<1>1. MappingTyped' /\ DataTyped(sheets)'
  BY DEF FilesTyped, MappingTyped, RuleOf, DataTyped, Sources
<1>2. given' \in Seq(Seq(Nat))
  <2>1. PICK S : S = Seq(Nat)
    OBVIOUS
  <2>2. given \in Seq(S)
    BY <2>1 DEF FilesTyped
  <2>3. given' \in Seq(S)
    BY <2>2
  <2>4. QED
    BY <2>1, <2>3
<1>3. QED
  BY <1>1, <1>2 DEF FilesTyped

LEMMA GrowsKeepsInv ==
  ASSUME IdentityInv, SourceGrows
  PROVE  IdentityInv'
<1>1. /\ DataTyped(sheets)' /\ Grown(sheets, sheets')
      /\ mapping' = mapping
  BY RowsStay DEF IdentityInv, SourceGrows
<1>2. FilesTyped'
  <2>1. MappingTyped'
    BY <1>1 DEF IdentityInv, FilesTyped, MappingTyped, RuleOf
  <2>2. arrivals' \in Seq([source : Nat, values : Rows])
    <3> DEFINE Arrival == [source : Nat, values : Rows]
    <3>1. arrivals \in Seq(Arrival) /\ arrivals # <<>> /\ arrivals' = Tail(arrivals)
      BY DEF SourceGrows, IdentityInv, FilesTyped
    <3> HIDE DEF Arrival
    <3>2. Tail(arrivals) \in Seq(Arrival)
      BY <3>1
    <3>3. QED
      BY <3>1, <3>2 DEF Arrival
  <2>3. QED
    BY <1>1, <2>1, <2>2 DEF SourceGrows, IdentityInv, FilesTyped
<1>3. UnderWay'
  BY DEF SourceGrows, IdentityInv, UnderWay
<1>4. PlanTyped'
  <2>1. Sources' = Sources
    BY <1>1 DEF Sources
  <2>2. QED
    BY <1>1, <2>1 DEF SourceGrows, IdentityInv, PlanTyped, Grown, Place
<1>5. AllRight'
  <2>1. ASSUME NEW n \in DOMAIN conversions PROVE ConversionRight(conversions[n])'
    BY <1>1, StillRight DEF IdentityInv, AllRight, SourceGrows
  <2>2. QED
    BY <2>1 DEF IdentityInv, AllRight, SourceGrows, Range
<1>6. QED
  BY <1>2, <1>3, <1>4, <1>5 DEF IdentityInv

LEMMA StartKeepsInv ==
  ASSUME IdentityInv, StartConversion
  PROVE  IdentityInv'
<1>1. FilesTyped' /\ AllRight'
  BY FilesKept, NothingConverted DEF StartConversion, IdentityInv
<1>2. UnderWay' /\ PlanTyped'
  BY DEF StartConversion, IdentityInv, UnderWay, PlanTyped
<1>3. QED
  BY <1>1, <1>2 DEF IdentityInv

LEMMA CheckKeepsInv ==
  ASSUME IdentityInv, CheckInputs
  PROVE  IdentityInv'
<1>1. FilesTyped' /\ AllRight'
  BY FilesKept, NothingConverted DEF CheckInputs, IdentityInv
<1>2. UnderWay'
  BY DEF CheckInputs, IdentityInv, UnderWay, InputsValid, Required, Sources
<1>3. PlanTyped'
  BY DEF CheckInputs, IdentityInv, PlanTyped, Sources, Place
<1>4. QED
  BY <1>1, <1>2, <1>3 DEF IdentityInv

LEMMA PlanKeepsInv ==
  ASSUME IdentityInv, PlanIdentities
  PROVE  IdentityInv'
<1>1. FilesTyped' /\ AllRight'
  BY FilesKept, NothingConverted DEF PlanIdentities, IdentityInv
<1>2. identities' = IdentitiesFrom(sheets) /\ Apart(sheets)
  BY PlannedFromData, PlannedApart DEF PlanIdentities, IdentityInv, UnderWay, FilesTyped
<1>3. mapping' = mapping /\ sheets' = sheets
  BY DEF PlanIdentities
<1>4. identities' = IdentitiesFrom(sheets)' /\ Apart(sheets)'
  BY <1>2, <1>3, MappingTells
<1>5. InputsValid(Head(given))'
  BY <1>3 DEF PlanIdentities, IdentityInv, UnderWay, InputsValid, Required, Sources
<1>6. UnderWay'
  BY <1>4, <1>5 DEF PlanIdentities, IdentityInv, UnderWay
<1>7. PlanTyped'
  <2>1. ASSUME NEW x \in identities'
        PROVE  x.rule \in DOMAIN mapping.rules /\ x.source \in Sources /\ x.row \in DOMAIN sheets[x.source]
    BY <1>2, IdentitiesSay DEF IsIdentityOf, IdentityInv, FilesTyped, MappingTyped
  <2>2. links' = {}
    BY DEF PlanIdentities, IdentityInv, UnderWay
  <2>3. QED
    BY <1>3, <2>1, <2>2 DEF PlanTyped, Sources
<1>8. QED
  BY <1>1, <1>6, <1>7 DEF IdentityInv


LEMMA MaterializeKeepsInv ==
  ASSUME IdentityInv, MaterializeAssociations
  PROVE  IdentityInv'
<1> DEFINE c == [data |-> sheets, identities |-> identities, links |-> links']
<1>1. /\ links' = Associations /\ conversions' = Append(conversions, c)
      /\ given # <<>> /\ given' = Tail(given) /\ phase' = "done"
      /\ UNCHANGED <<mapping, sheets, arrivals, identities>>
  BY DEF MaterializeAssociations, IdentityInv, UnderWay
<1>2. identities = IdentitiesFrom(sheets) /\ Apart(sheets)
  BY DEF MaterializeAssociations, IdentityInv, UnderWay
<1>3. links' = LinksFrom(sheets)
  BY <1>1, <1>2, AssociationsFromData
<1>4. \A l \in links' : LinkSays(sheets, identities, l)
  BY <1>1, <1>2, IdentitiesSay, AssociationsSay
<1>5. FilesTyped'
  BY <1>1, FilesKept DEF IdentityInv
<1>6. UnderWay'
  BY <1>1 DEF UnderWay
<1>7. PlanTyped'
  BY <1>1, <1>4 DEF IdentityInv, PlanTyped, LinkSays, Sources, Place
<1>8. ConversionRight(c)
  BY <1>2, <1>3, <1>4, GrownFromItself DEF ConversionRight
<1>9. AllRight'
  <2>1. conversions \in Seq(Range(conversions))
    BY DEF IdentityInv, AllRight
  <2> HIDE DEF c
  <2>2. /\ DOMAIN conversions' = 1 .. Len(conversions) + 1
        /\ \A n \in DOMAIN conversions : conversions'[n] = conversions[n]
        /\ conversions'[Len(conversions) + 1] = c
        /\ DOMAIN conversions = 1 .. Len(conversions) /\ Len(conversions) \in Nat
    BY <1>1, <2>1
  <2>3. Range(conversions') = Range(conversions) \cup {c}
    BY <2>2 DEF Range
  <2>4. conversions' \in Seq(Range(conversions'))
    <3>1. conversions \in Seq(Range(conversions'))
      BY <2>1, <2>3
    <3>2. c \in Range(conversions')
      BY <2>3
    <3>3. QED
      BY <1>1, <3>1, <3>2
  <2>5. \A m \in Range(conversions') : ConversionRight(m)
    BY <1>8, <2>3 DEF IdentityInv, AllRight, Range
  <2>6. ASSUME NEW m, ConversionRight(m) PROVE ConversionRight(m)'
    BY <1>1, <2>6, StillRight, GrownFromItself
  <2>7. ASSUME NEW n \in DOMAIN conversions' PROVE ConversionRight(conversions[n])'
    <3>1. PICK m : m = conversions'[n]
      OBVIOUS
    <3>2. ConversionRight(m)
      BY <2>5, <2>7, <3>1 DEF Range
    <3>3. ConversionRight(m)'
      BY <2>6, <3>2
    <3>4. QED
      BY <3>1, <3>3 DEF ConversionRight
  <2>8. QED
    BY <2>4, <2>7 DEF AllRight
<1>10. QED
  BY <1>5, <1>6, <1>7, <1>9 DEF IdentityInv

LEMMA RefuseKeepsInv ==
  ASSUME IdentityInv, RefuseConversion
  PROVE  IdentityInv'
<1>1. /\ phase \in {"check", "plan", "associate"} /\ given # <<>> /\ links = {}
      /\ given' = Tail(given) /\ phase' = "done" /\ identities' = {}
      /\ UNCHANGED <<mapping, sheets, arrivals, links, conversions>>
  BY DEF RefuseConversion, IdentityInv, UnderWay
<1>2. FilesTyped' /\ AllRight'
  BY <1>1, FilesKept, NothingConverted DEF IdentityInv
<1>3. UnderWay' /\ PlanTyped'
  BY <1>1 DEF UnderWay, PlanTyped
<1>4. QED
  BY <1>2, <1>3 DEF IdentityInv

LEMMA IdentityStutters ==
  ASSUME IdentityInv, UNCHANGED identityVars
  PROVE  IdentityInv'
<1>1. FilesTyped' /\ AllRight'
  BY FilesKept, NothingConverted DEF IdentityInv, identityVars
<1>2. Sources' = Sources /\ InputsValid(Head(given))' = InputsValid(Head(given))
  BY DEF identityVars, InputsValid, Required, Sources
<1>3. IdentitiesFrom(sheets)' = IdentitiesFrom(sheets) /\ Apart(sheets)' = Apart(sheets)
  BY MappingTells DEF identityVars
<1>4. UnderWay' /\ PlanTyped'
  BY <1>2, <1>3 DEF IdentityInv, UnderWay, PlanTyped, identityVars, Place
<1>5. QED
  BY <1>1, <1>4 DEF IdentityInv

LEMMA IdentitySteps == IdentityInv /\ [IdentityNext]_identityVars => IdentityInv'
  BY GrowsKeepsInv, StartKeepsInv, CheckKeepsInv, PlanKeepsInv, MaterializeKeepsInv,
     RefuseKeepsInv, IdentityStutters DEF IdentityNext

------------------------------------------------------------------------------
(* The theorems                                                             *)

LEMMA IdentityInvTyped == IdentityInv => IdentityTypeOK
  BY DEF IdentityInv, UnderWay, PlanTyped, IdentityTypeOK

\* What a conversion planned is of rules of the mapping and of rows its sources
\* have, and its associations are of rows it planned.
THEOREM IdentityTypesHold == IdentitySpec => []IdentityTypeOK
  BY IdentityInvTyped, IdentityStarts, IdentitySteps, PTL DEF IdentitySpec

LEMMA RightIsDeterministic == IdentityInv => IdentitiesDeterministic
<1> SUFFICES ASSUME IdentityInv, NEW m \in DOMAIN conversions, NEW n \in DOMAIN conversions
             PROVE  /\ \A x \in conversions[m].identities, y \in conversions[n].identities :
                          x.goid = y.goid <=> SameObject(x, y)
                    /\ KeptApart(conversions[m])
                    /\ \A l \in conversions[m].links : LinkRight(l)
                    /\ conversions[m].data = conversions[n].data => conversions[m] = conversions[n]
  BY DEF IdentitiesDeterministic
<1> DEFINE c == conversions[m]
           d == conversions[n]
<1>1. ConversionRight(c) /\ ConversionRight(d)
  BY DEF IdentityInv, AllRight
<1> HIDE DEF c, d
<1>2. ASSUME NEW x \in c.identities, NEW y \in d.identities
      PROVE  x.goid = y.goid <=> SameObject(x, y)
  <2>1. IsIdentityOf(c.data, x) /\ IsIdentityOf(d.data, y)
    BY <1>1, IdentitiesSay DEF ConversionRight
  <2>2. QED
    BY <1>1, <2>1, OneNameOneObject DEF ConversionRight
<1>3. KeptApart(c)
  BY <1>1, ObjectsKeptApart DEF ConversionRight
<1>4. ASSUME NEW l \in c.links PROVE LinkRight(l)
  <2>1. LinkSays(c.data, c.identities, l) /\ Grown(c.data, sheets)
    BY <1>1 DEF ConversionRight
  <2>2. QED
    BY <2>1 DEF LinkSays, LinkRight, Grown, ValuesAt
<1>5. c.data = d.data => c = d
  BY <1>1 DEF ConversionRight
<1>6. QED
  BY <1>2, <1>3, <1>4, <1>5 DEF c, d

\* Identities are deterministic (cove-map/src/identity.rs, spec.md 70.6): for
\* every mapping, whatever the order of the sources, whatever arrives between
\* two conversions.
THEOREM SameDataSameObjects == IdentitySpec => []IdentitiesDeterministic
  BY RightIsDeterministic, IdentityStarts, IdentitySteps, PTL DEF IdentitySpec


------------------------------------------------------------------------------
(* The records of an object, in the order they were committed               *)

RecordTyped(r) ==
    /\ r.type \in Nat /\ r.branch \in Nat /\ r.goid \in Nat /\ r.record \in Nat /\ r.kind \in RecordKinds
    /\ r.time \in Nat /\ r.csn \in Nat /\ r.segment \in Nat /\ r.row \in Nat
    /\ DOMAIN r.values \subseteq Properties /\ r.values = [p \in DOMAIN r.values |-> r.values[p]]

\* Of two records of an object the later one has a higher commit number and no
\* earlier time; a record refers to nothing or to the one right before it.
InOrder(written, when) ==
    /\ IsFiniteSet(written) /\ DOMAIN when = written
    /\ \A r \in written : RecordTyped(r) /\ when[r] \in Nat
    /\ \A r, s \in written : Chain(r) = Chain(s) /\ r # s =>
          \/ when[r] < when[s] /\ r.time <= s.time /\ r.csn < s.csn
          \/ when[s] < when[r] /\ s.time <= r.time /\ s.csn < r.csn
    /\ \A r \in written : r.prev # NoRef =>
          \E p \in written : /\ Chain(p) = Chain(r) /\ when[p] < when[r] /\ SamePlace(r.prev, p)
                             /\ \A s \in written : Chain(s) = Chain(r) /\ when[s] < when[r] =>
                                when[s] <= when[p]

RecordsInv == InOrder(records, history)

\* A record that is not later, with a lower commit number, is sorted before.
LEMMA SortedByTime ==
  ASSUME NEW r, NEW s, RecordTyped(r), RecordTyped(s), r.time <= s.time, r.csn < s.csn
  PROVE  Precedes(SortKey(r), SortKey(s)) /\ ~Precedes(SortKey(s), SortKey(r))
<1>1. PICK x, y : x = SortKey(r) /\ y = SortKey(s)
  OBVIOUS
<1>2. /\ DOMAIN x = 1 .. 5 /\ DOMAIN y = 1 .. 5
      /\ x[1] = r.time /\ x[2] = r.csn /\ y[1] = s.time /\ y[2] = s.csn
  BY <1>1 DEF SortKey
<1>3. /\ r.time \in Nat /\ s.time \in Nat /\ r.csn \in Nat /\ s.csn \in Nat
  BY DEF RecordTyped
<1>4. Precedes(x, y)
  <2>1. CASE r.time < s.time
    BY <1>2, <2>1 DEF Precedes
  <2>2. CASE r.time = s.time
    <3>1. 2 \in DOMAIN x /\ x[2] < y[2] /\ \A j \in 1 .. 2 - 1 : x[j] = y[j]
      BY <1>2, <1>3, <2>2
    <3>2. QED
      BY <3>1 DEF Precedes
  <2>3. QED
    BY <1>3, <2>1, <2>2
<1>5. ~Precedes(y, x)
  <2>1. ASSUME NEW i \in 1 .. 5, y[i] < x[i], \A j \in 1 .. i - 1 : y[j] = x[j] PROVE FALSE
    <3>1. i # 1 /\ i # 2
      BY <1>2, <1>3, <2>1
    <3>2. 2 \in 1 .. i - 1
      BY <3>1
    <3>3. y[2] = x[2]
      BY <2>1, <3>2
    <3>4. QED
      BY <1>2, <1>3, <3>3
  <2>2. QED
    BY <1>2, <2>1 DEF Precedes
<1>6. QED
  BY <1>1, <1>4, <1>5

\* What is committed has a first and a last record.
LEMMA FirstAndLast ==
  ASSUME RecordsInv, NEW T \in SUBSET records, T # {}
  PROVE  /\ LastOf(T) \in T /\ \A s \in T : history[s] <= history[LastOf(T)]
         /\ FirstOf(T) \in T /\ \A s \in T : history[FirstOf(T)] <= history[s]
<1>1. PICK at, N : at = [r \in T |-> history[r]] /\ N = {at[r] : r \in T}
  OBVIOUS
<1>2. IsFiniteSet(T) /\ \A r \in T : history[r] \in Nat
  BY FS_Subset DEF RecordsInv, InOrder
<1>3. IsFiniteSet(N) /\ N # {} /\ N \subseteq Int
  BY <1>1, <1>2, FiniteRange
<1>4. Max(N) \in N /\ (\A n \in N : n <= Max(N)) /\ Min(N) \in N /\ (\A n \in N : Min(N) <= n)
  BY <1>3, LeastMember, GreatestMember
<1>5. PICK hi \in T : \A s \in T : history[s] <= history[hi]
  BY <1>1, <1>4
<1>6. PICK lo \in T : \A s \in T : history[lo] <= history[s]
  BY <1>1, <1>4
<1>7. QED
  BY <1>5, <1>6 DEF LastOf, FirstOf

OneChain(T) == T \in SUBSET records /\ \A r, s \in T : Chain(r) = Chain(s)

\* No two records of an object were committed at once.
LEMMA LastIsAlone ==
  ASSUME RecordsInv, NEW T, OneChain(T), NEW r \in T, \A s \in T : history[s] <= history[r]
  PROVE  r = LastOf(T) /\ \A s \in T \ {r} : history[s] < history[r] /\ s.time <= r.time /\ s.csn < r.csn
<1>1. \A s \in T \ {r} : history[s] < history[r] /\ s.time <= r.time /\ s.csn < r.csn
  BY DEF RecordsInv, InOrder, OneChain
<1>2. LastOf(T) \in T /\ history[r] <= history[LastOf(T)]
  BY FirstAndLast DEF OneChain
<1>3. history[r] \in Nat /\ \A s \in T : history[s] \in Nat
  BY DEF RecordsInv, InOrder, OneChain
<1>4. QED
  BY <1>1, <1>2, <1>3

\* The sort finds the order of the commits.
LEMMA SortedLastIsLast ==
  ASSUME RecordsInv, NEW T, OneChain(T), T # {}
  PROVE  LastSorted(T) = LastOf(T)
<1>1. PICK r : r = LastOf(T)
  OBVIOUS
<1>2. r \in T /\ \A s \in T : history[s] <= history[r]
  BY <1>1, FirstAndLast DEF OneChain
<1>3. \A s \in T \ {r} : s.time <= r.time /\ s.csn < r.csn
  BY <1>2, LastIsAlone
<1>4. \A s \in T : RecordTyped(s)
  BY DEF RecordsInv, InOrder, OneChain
<1>5. \A s \in T \ {r} : Precedes(SortKey(s), SortKey(r)) /\ ~Precedes(SortKey(r), SortKey(s))
  BY <1>2, <1>3, <1>4, SortedByTime
<1>6. ASSUME NEW x \in T, \A s \in T \ {x} : Precedes(SortKey(s), SortKey(x)) PROVE x = r
  BY <1>2, <1>5, <1>6
<1>7. QED
  BY <1>1, <1>2, <1>5, <1>6 DEF LastSorted

\* The reader's and the projection's state after some records.
NextState(before, T) ==
    <<ApplyRecord(before[1], LastSorted(T)), ProjectRecord(before[2], LastSorted(T))>>

\* Records of an object can be replayed in their order.
LEMMA ReplayExists ==
  ASSUME NEW R, IsFiniteSet(R), \A T \in SUBSET R : T # {} => LastSorted(T) \in T
  PROVE  \E g : /\ DOMAIN g = SUBSET R /\ g[{}] = <<NoState, NoState>>
                /\ \A T \in SUBSET R : T # {} => g[T] = NextState(g[T \ {LastSorted(T)}], T)
<1> DEFINE Upto(n, g) == /\ DOMAIN g = SUBSET R /\ g[{}] = <<NoState, NoState>>
                         /\ \A T \in SUBSET R : T # {} /\ Cardinality(T) <= n =>
                               g[T] = NextState(g[T \ {LastSorted(T)}], T)
           Bad == {n \in Nat : ~ \E g : Upto(n, g)}
<1>1. \A T \in SUBSET R : IsFiniteSet(T) /\ Cardinality(T) \in Nat
  BY FS_Subset, FS_CardinalityType
<1>2. ASSUME Bad # {} PROVE FALSE
  <2>1. PICK n \in Bad : \A k \in Bad : n <= k
    <3>1. Bad \subseteq Nat
      OBVIOUS
    <3>2. QED
      BY <1>2, <3>1, NatMin
  <2>2. n \in Nat /\ ~ \E g : Upto(n, g)
    OBVIOUS
  <2>3. n # 0
    <3>1. \A T \in SUBSET R : T # {} => ~(Cardinality(T) <= 0)
      BY <1>1, FS_EmptySet
    <3>2. Upto(0, [T \in SUBSET R |-> <<NoState, NoState>>])
      BY <3>1
    <3> HIDE DEF Upto
    <3>3. \E g : Upto(0, g)
      BY <3>2
    <3>4. QED
      BY <2>2, <3>3
  <2>4. PICK g : Upto(n - 1, g)
    <3>1. n - 1 \in Nat /\ ~(n <= n - 1)
      BY <2>2, <2>3
    <3>2. n - 1 \notin Bad
      BY <2>1, <3>1
    <3> HIDE DEF Upto
    <3>3. QED
      BY <3>1, <3>2
  <2>5. PICK h : h = [T \in SUBSET R |->
                        IF Cardinality(T) = n THEN NextState(g[T \ {LastSorted(T)}], T) ELSE g[T]]
    OBVIOUS
  <2>6. ASSUME NEW T \in SUBSET R, T # {}, Cardinality(T) <= n
        PROVE  h[T] = NextState(h[T \ {LastSorted(T)}], T)
    <3>1. PICK U : U = T \ {LastSorted(T)}
      OBVIOUS
    <3>2. U \in SUBSET R /\ Cardinality(U) = Cardinality(T) - 1 /\ Cardinality(T) \in Nat
      BY <1>1, <2>6, <3>1, FS_RemoveElement
    <3>3. h[U] = g[U]
      BY <2>2, <2>5, <2>6, <3>2
    <3>4. h[T] = NextState(g[U], T)
      <4>1. CASE Cardinality(T) = n
        BY <2>5, <3>1, <4>1
      <4>2. CASE Cardinality(T) # n
        <5>1. Cardinality(T) <= n - 1
          BY <2>2, <2>6, <3>2, <4>2
        <5>2. g[T] = NextState(g[U], T)
          BY <2>4, <2>6, <3>1, <5>1
        <5>3. QED
          BY <2>5, <4>2, <5>2
      <4>3. QED
        BY <4>1, <4>2
    <3>5. QED
      BY <3>1, <3>3, <3>4
  <2>7. h[{}] = <<NoState, NoState>> /\ DOMAIN h = SUBSET R
    BY <2>2, <2>3, <2>4, <2>5, FS_EmptySet
  <2>8. Upto(n, h)
    BY <2>6, <2>7
  <2>9. QED
    BY <2>2, <2>8
<1>3. Cardinality(R) \in Nat /\ Cardinality(R) \notin Bad
  BY <1>1, <1>2
<1>4. PICK g : Upto(Cardinality(R), g)
  <2> HIDE DEF Upto
  <2>1. QED
    BY <1>3
<1>5. \A T \in SUBSET R : Cardinality(T) <= Cardinality(R)
  BY FS_Subset
<1>6. QED
  BY <1>4, <1>5

\* What the reader's fold gives.
LEMMA ReadInOrder ==
  ASSUME NEW R, IsFiniteSet(R), \A T \in SUBSET R : T # {} => LastSorted(T) \in T
  PROVE  \E h : /\ h[{}] = NoState
                /\ \A T \in SUBSET R : T # {} =>
                      h[T] = ApplyRecord(h[T \ {LastSorted(T)}], LastSorted(T))
                /\ MapThenFoldSet(LAMBDA r, state : ApplyRecord(state, r), NoState, LAMBDA r : r,
                                  LastSorted, R) = h[R]
<1> DEFINE Fold(it) == it = [s \in SUBSET R |-> IF s = {} THEN NoState
                               ELSE ApplyRecord(it[s \ {LastSorted(s)}], LastSorted(s))]
           h == CHOOSE it : Fold(it)
<1>1. MapThenFoldSet(LAMBDA r, state : ApplyRecord(state, r), NoState, LAMBDA r : r,
                     LastSorted, R) = h[R]
  BY DEF MapThenFoldSet
<1>2. PICK g : /\ DOMAIN g = SUBSET R /\ g[{}] = <<NoState, NoState>>
               /\ \A T \in SUBSET R : T # {} => g[T] = NextState(g[T \ {LastSorted(T)}], T)
  BY ReplayExists
<1>3. PICK f : f = [T \in SUBSET R |-> g[T][1]]
  OBVIOUS
<1>4. ASSUME NEW T \in SUBSET R, T # {}
      PROVE  f[T] = ApplyRecord(f[T \ {LastSorted(T)}], LastSorted(T))
  <2>1. f[T] = g[T][1] /\ f[T \ {LastSorted(T)}] = g[T \ {LastSorted(T)}][1]
    BY <1>3
  <2>2. QED
    BY <1>2, <1>4, <2>1 DEF NextState
<1>5. f[{}] = NoState
  BY <1>2, <1>3
<1>6. Fold(f)
  BY <1>3, <1>4, <1>5
<1>7. Fold(h)
  <2> HIDE DEF Fold
  <2>1. QED
    BY <1>6
<1>8. h[{}] = NoState /\ \A T \in SUBSET R : T # {} =>
                            h[T] = ApplyRecord(h[T \ {LastSorted(T)}], LastSorted(T))
  <2> HIDE DEF h
  <2>1. QED
    BY <1>7
<1>9. QED
  BY <1>1, <1>8

\* What the projection's fold gives.
LEMMA ProjectInOrder ==
  ASSUME NEW R, IsFiniteSet(R), \A T \in SUBSET R : T # {} => LastSorted(T) \in T
  PROVE  \E h : /\ h[{}] = NoState
                /\ \A T \in SUBSET R : T # {} =>
                      h[T] = ProjectRecord(h[T \ {LastSorted(T)}], LastSorted(T))
                /\ MapThenFoldSet(LAMBDA r, row : ProjectRecord(row, r), NoState, LAMBDA r : r,
                                  LastSorted, R) = h[R]
<1> DEFINE Fold(it) == it = [s \in SUBSET R |-> IF s = {} THEN NoState
                               ELSE ProjectRecord(it[s \ {LastSorted(s)}], LastSorted(s))]
           h == CHOOSE it : Fold(it)
<1>1. MapThenFoldSet(LAMBDA r, row : ProjectRecord(row, r), NoState, LAMBDA r : r,
                     LastSorted, R) = h[R]
  BY DEF MapThenFoldSet
<1>2. PICK g : /\ DOMAIN g = SUBSET R /\ g[{}] = <<NoState, NoState>>
               /\ \A T \in SUBSET R : T # {} => g[T] = NextState(g[T \ {LastSorted(T)}], T)
  BY ReplayExists
<1>3. PICK f : f = [T \in SUBSET R |-> g[T][2]]
  OBVIOUS
<1>4. ASSUME NEW T \in SUBSET R, T # {}
      PROVE  f[T] = ProjectRecord(f[T \ {LastSorted(T)}], LastSorted(T))
  <2>1. f[T] = g[T][2] /\ f[T \ {LastSorted(T)}] = g[T \ {LastSorted(T)}][2]
    BY <1>3
  <2>2. QED
    BY <1>2, <1>4, <2>1 DEF NextState
<1>5. f[{}] = NoState
  BY <1>2, <1>3
<1>6. Fold(f)
  BY <1>3, <1>4, <1>5
<1>7. Fold(h)
  <2> HIDE DEF Fold
  <2>1. QED
    BY <1>6
<1>8. h[{}] = NoState /\ \A T \in SUBSET R : T # {} =>
                            h[T] = ProjectRecord(h[T \ {LastSorted(T)}], LastSorted(T))
  <2> HIDE DEF h
  <2>1. QED
    BY <1>7
<1>9. QED
  BY <1>1, <1>8

\* The records of an object up to one of them.
Prefix(T) ==
    /\ OneChain(T)
    /\ \A r \in T, s \in records : Chain(s) = Chain(r) /\ history[s] < history[r] => s \in T

\* The records without the last of them.
LEMMA WithoutLast ==
  ASSUME RecordsInv, NEW T, OneChain(T), T # {}, NEW r, r = LastOf(T), NEW U, U = T \ {r}
  PROVE  /\ r \in T /\ RecordTyped(r) /\ OneChain(U)
         /\ \A s \in U : history[s] < history[r] /\ history[s] \in Nat /\ RecordTyped(s)
         /\ history[r] \in Nat
         /\ U # {} => LastOf(U) \in U /\ \A s \in U : history[s] <= history[LastOf(U)]
         /\ U # {} => FirstOf(U) = FirstOf(T)
<1>1. T \in SUBSET records /\ U \in SUBSET records
  BY DEF OneChain
<1>2. r \in T /\ \A s \in T : history[s] <= history[r]
  BY <1>1, FirstAndLast
<1>3. \A s \in U : history[s] < history[r]
  BY <1>2, LastIsAlone
<1>4. /\ \A s \in T : history[s] \in Nat /\ RecordTyped(s)
      /\ \A s, t \in T : s # t => history[s] # history[t]
  BY DEF RecordsInv, InOrder, OneChain
<1>5. ASSUME U # {} PROVE FirstOf(U) = FirstOf(T)
  <2>1. PICK x, y : x = FirstOf(U) /\ y = FirstOf(T)
    OBVIOUS
  <2>2. /\ x \in U /\ \A s \in U : history[x] <= history[s]
        /\ y \in T /\ \A s \in T : history[y] <= history[s]
    BY <1>1, <1>5, <2>1, FirstAndLast
  <2>3. y # r
    BY <1>3, <1>4, <2>2
  <2>4. history[x] = history[y]
    BY <1>4, <2>2, <2>3
  <2>5. QED
    BY <1>4, <2>1, <2>2, <2>4
<1>6. U # {} => LastOf(U) \in U /\ \A s \in U : history[s] <= history[LastOf(U)]
  BY <1>1, FirstAndLast
<1>7. OneChain(U)
  BY DEF OneChain
<1>8. QED
  BY <1>2, <1>3, <1>4, <1>5, <1>6, <1>7

LEMMA PrefixWithoutLast ==
  ASSUME RecordsInv, NEW T, Prefix(T), T # {}
  PROVE  Prefix(T \ {LastOf(T)})
<1>1. PICK r, U : r = LastOf(T) /\ U = T \ {r}
  OBVIOUS
<1>2. r \in T /\ OneChain(U) /\ history[r] \in Nat /\ \A s \in U : history[s] < history[r] /\ history[s] \in Nat
  BY <1>1, WithoutLast DEF Prefix
<1>3. ASSUME NEW x \in U, NEW s \in records, Chain(s) = Chain(x), history[s] < history[x] PROVE s \in U
  <2>1. s \in T
    BY <1>1, <1>3 DEF Prefix
  <2>2. s # r
    BY <1>2, <1>3
  <2>3. QED
    BY <1>1, <2>1, <2>2
<1>4. QED
  BY <1>1, <1>2, <1>3 DEF Prefix

\* A record refers to the one before it, if to any.
LEMMA RefersToLast ==
  ASSUME RecordsInv, NEW T, Prefix(T), T # {}, NEW r, r = LastOf(T), NEW U, U = T \ {r}, r.prev # NoRef
  PROVE  U # {} /\ SamePlace(r.prev, LastOf(U))
<1>1. /\ r \in T /\ OneChain(U) /\ history[r] \in Nat
      /\ \A s \in U : history[s] < history[r] /\ history[s] \in Nat
      /\ U # {} => LastOf(U) \in U /\ \A s \in U : history[s] <= history[LastOf(U)]
  BY WithoutLast DEF Prefix
<1>2. r \in records /\ \A s \in U : s \in records /\ Chain(s) = Chain(r)
  BY <1>1 DEF Prefix, OneChain
<1>3. PICK p \in records : /\ Chain(p) = Chain(r) /\ history[p] < history[r] /\ SamePlace(r.prev, p)
                           /\ \A s \in records : Chain(s) = Chain(r) /\ history[s] < history[r] =>
                                 history[s] <= history[p]
  BY <1>2 DEF RecordsInv, InOrder
<1>4. p \in U
  <2>1. p \in T
    BY <1>1, <1>3 DEF Prefix
  <2>2. p # r
    BY <1>1, <1>3
  <2>3. QED
    BY <2>1, <2>2
<1>5. \A s \in U : history[s] <= history[p]
  BY <1>1, <1>2, <1>3
<1>6. p = LastOf(U)
  BY <1>1, <1>4, <1>5, LastIsAlone
<1>7. QED
  BY <1>3, <1>4, <1>6

\* Where the values of an object begin.
LEMMA BaseOfAll ==
  ASSUME RecordsInv, NEW T, OneChain(T), T # {}, NEW r, r = LastOf(T), NEW U, U = T \ {r}
  PROVE  /\ Full(r) \/ U = {} => Base(T) = r
         /\ ~Full(r) /\ U # {} => Base(T) = Base(U) /\ Base(U) \in U
<1>1. PICK F, G : F = {s \in T : Full(s)} /\ G = {s \in U : Full(s)}
  OBVIOUS
<1>2. /\ r \in T /\ history[r] \in Nat /\ OneChain(U)
      /\ \A s \in U : history[s] < history[r] /\ history[s] \in Nat
      /\ U # {} => FirstOf(U) = FirstOf(T)
  BY WithoutLast
<1>3. /\ Base(T) = IF F = {} THEN FirstOf(T) ELSE LastOf(F)
      /\ Base(U) = IF G = {} THEN FirstOf(U) ELSE LastOf(G)
  BY <1>1 DEF Base
<1>4. /\ T \in SUBSET records /\ F \in SUBSET records /\ G \in SUBSET records /\ U \in SUBSET records
      /\ OneChain(F)
  BY <1>1 DEF OneChain
<1>5. ASSUME Full(r) PROVE Base(T) = r
  <2>1. r \in F /\ \A s \in F : history[s] <= history[r]
    BY <1>1, <1>2, <1>5
  <2>2. r = LastOf(F)
    BY <1>4, <2>1, LastIsAlone
  <2>3. QED
    BY <1>3, <2>1, <2>2
<1>6. ASSUME ~Full(r), U = {} PROVE Base(T) = r
  <2>1. T = {r} /\ F = {}
    BY <1>1, <1>2, <1>6
  <2>2. FirstOf(T) \in T
    BY <1>4, <2>1, FirstAndLast
  <2>3. QED
    BY <1>3, <2>1, <2>2
<1>7. ASSUME ~Full(r), U # {} PROVE Base(T) = Base(U) /\ Base(U) \in U
  <2>1. F = G
    BY <1>1, <1>7
  <2>2. FirstOf(U) \in U
    BY <1>4, <1>7, FirstAndLast
  <2>3. G # {} => LastOf(G) \in G
    BY <1>4, FirstAndLast
  <2>4. QED
    BY <1>1, <1>2, <1>3, <1>7, <2>1, <2>2, <2>3
<1>8. QED
  BY <1>5, <1>6, <1>7

\* Who gives an object its values, with one record more.
LEMMA GiversOfAll ==
  ASSUME RecordsInv, NEW T, OneChain(T), T # {}, NEW r, r = LastOf(T), NEW U, U = T \ {r}, NEW p
  PROVE  /\ Full(r) \/ U = {} =>
              \A s : s \in Givers(T, p) <=> s = r /\ p \in DOMAIN r.values
         /\ ~Full(r) /\ U # {} =>
              \A s : s \in Givers(T, p) <=>
                s \in Givers(U, p) \/ (s = r /\ r.kind = "Delta" /\ p \in DOMAIN r.values)
<1>1. /\ r \in T /\ history[r] \in Nat
      /\ \A s \in U : history[s] < history[r] /\ history[s] \in Nat
  BY WithoutLast
<1>2. ASSUME Full(r) \/ U = {}, NEW s
      PROVE  s \in Givers(T, p) <=> s = r /\ p \in DOMAIN r.values
  <2>1. Base(T) = r
    BY <1>2, BaseOfAll
  <2>2. \A x \in T : ~(history[x] > history[r])
    BY <1>1
  <2>3. QED
    BY <1>1, <2>1, <2>2 DEF Givers
<1>3. ASSUME ~Full(r), U # {}, NEW s
      PROVE  s \in Givers(T, p) <=>
               s \in Givers(U, p) \/ (s = r /\ r.kind = "Delta" /\ p \in DOMAIN r.values)
  <2>1. Base(T) = Base(U) /\ Base(U) \in U
    BY <1>3, BaseOfAll
  <2>2. PICK b : b = Base(U)
    OBVIOUS
  <2>3. r # b /\ history[r] > history[b]
    BY <1>1, <2>1, <2>2
  <2>4. QED
    BY <1>1, <2>1, <2>2, <2>3 DEF Givers
<1>4. QED
  BY <1>2, <1>3

\* The values of an object after some of its records, as ObjectOf has them.
ValuesOf(T) ==
    [p \in {q \in Properties : Givers(T, q) # {}} |-> LastOf(Givers(T, p)).values[p]]

StateAfter(T) ==
    IF T = {} THEN NoState
    ELSE [chain |-> Chain(LastOf(T)), at |-> RefTo(LastOf(T), 0), values |-> ValuesOf(T),
          gone |-> LastOf(T).kind = "Tombstone", valid |-> TRUE]

\* Who gives an object a value is one of its records, and has the property.
LEMMA GiversAreRecords ==
  ASSUME RecordsInv, NEW T, OneChain(T), NEW p
  PROVE  /\ OneChain(Givers(T, p)) /\ Givers(T, p) \in SUBSET T
         /\ \A s \in Givers(T, p) : p \in DOMAIN s.values /\ DOMAIN s.values \subseteq Properties
BY DEF Givers, OneChain, RecordsInv, InOrder, RecordTyped

\* The values of an object with one record more.
LEMMA ValuesGrow ==
  ASSUME RecordsInv, NEW T, OneChain(T), T # {}, NEW r, r = LastOf(T), NEW U, U = T \ {r}
  PROVE  /\ DOMAIN r.values \subseteq Properties
         /\ \A p : (p \in DOMAIN ValuesOf(T) <=>
               \/ (Full(r) \/ U = {} \/ r.kind = "Delta") /\ p \in DOMAIN r.values
               \/ ~Full(r) /\ U # {} /\ p \in DOMAIN ValuesOf(U))
         /\ \A p \in DOMAIN ValuesOf(T) :
               ValuesOf(T)[p] = IF (Full(r) \/ U = {} \/ r.kind = "Delta") /\ p \in DOMAIN r.values
                                THEN r.values[p] ELSE ValuesOf(U)[p]
<1>1. /\ r \in T /\ RecordTyped(r) /\ OneChain(U) /\ history[r] \in Nat
      /\ \A s \in U : history[s] < history[r] /\ history[s] \in Nat
  BY WithoutLast
<1>2. DOMAIN r.values \subseteq Properties
  BY <1>1 DEF RecordTyped
<1>3. /\ DOMAIN ValuesOf(T) = {q \in Properties : Givers(T, q) # {}}
      /\ DOMAIN ValuesOf(U) = {q \in Properties : Givers(U, q) # {}}
      /\ \A p \in DOMAIN ValuesOf(T) : ValuesOf(T)[p] = LastOf(Givers(T, p)).values[p]
      /\ \A p \in DOMAIN ValuesOf(U) : ValuesOf(U)[p] = LastOf(Givers(U, p)).values[p]
  BY DEF ValuesOf
<1>4. ASSUME NEW p
      PROVE  /\ p \in DOMAIN ValuesOf(T) <=>
                  \/ (Full(r) \/ U = {} \/ r.kind = "Delta") /\ p \in DOMAIN r.values
                  \/ ~Full(r) /\ U # {} /\ p \in DOMAIN ValuesOf(U)
             /\ p \in DOMAIN ValuesOf(T) =>
                  ValuesOf(T)[p] = IF (Full(r) \/ U = {} \/ r.kind = "Delta") /\ p \in DOMAIN r.values
                                   THEN r.values[p] ELSE ValuesOf(U)[p]
  <2>1. PICK G, H : G = Givers(T, p) /\ H = Givers(U, p)
    OBVIOUS
  <2>2. /\ OneChain(G) /\ G \in SUBSET T /\ H \in SUBSET U
        /\ \A s \in G \cup H : p \in Properties
    BY <1>1, <2>1, GiversAreRecords
  <2>3. /\ p \in DOMAIN ValuesOf(T) <=> G # {}
        /\ p \in DOMAIN ValuesOf(U) <=> H # {}
    BY <1>3, <2>1, <2>2
  <2>4. /\ Full(r) \/ U = {} => \A s : s \in G <=> s = r /\ p \in DOMAIN r.values
        /\ ~Full(r) /\ U # {} =>
             \A s : s \in G <=> s \in H \/ (s = r /\ r.kind = "Delta" /\ p \in DOMAIN r.values)
    BY <2>1, GiversOfAll
  <2>5. CASE (Full(r) \/ U = {} \/ r.kind = "Delta") /\ p \in DOMAIN r.values
    <3>1. r \in G
      BY <2>4, <2>5
    <3>2. \A s \in G : history[s] <= history[r]
      BY <1>1, <2>2
    <3>3. r = LastOf(G)
      BY <2>2, <3>1, <3>2, LastIsAlone
    <3>4. QED
      BY <1>3, <2>1, <2>3, <2>5, <3>1, <3>3
  <2>6. CASE ~((Full(r) \/ U = {} \/ r.kind = "Delta") /\ p \in DOMAIN r.values)
    <3>1. CASE Full(r) \/ U = {}
      <4>1. G = {}
        BY <2>4, <2>6, <3>1
      <4>2. QED
        BY <2>3, <2>6, <3>1, <4>1
    <3>2. CASE ~Full(r) /\ U # {}
      <4>1. G = H
        BY <2>4, <2>6, <3>2
      <4>2. p \in DOMAIN ValuesOf(T) <=> p \in DOMAIN ValuesOf(U)
        BY <2>3, <4>1
      <4>3. Givers(T, p) = Givers(U, p)
        BY <2>1, <4>1
      <4>4. p \in DOMAIN ValuesOf(T) => ValuesOf(T)[p] = ValuesOf(U)[p]
        BY <1>3, <4>2, <4>3
      <4>5. QED
        BY <2>6, <3>2, <4>2, <4>4
    <3>3. QED
      BY <3>1, <3>2
  <2>7. QED
    BY <2>5, <2>6
<1>5. QED
  BY <1>2, <1>4

\* Applying the last record is what ObjectOf does with it.
LEMMA AppliedRight ==
  ASSUME RecordsInv, NEW T, Prefix(T), T # {}
  PROVE  ApplyRecord(StateAfter(T \ {LastOf(T)}), LastOf(T)) = StateAfter(T)
<1>1. PICK r, U : r = LastOf(T) /\ U = T \ {r}
  OBVIOUS
<1>2. OneChain(T)
  BY DEF Prefix
<1>3. /\ r \in T /\ RecordTyped(r) /\ OneChain(U)
      /\ U # {} => LastOf(U) \in U /\ RecordTyped(LastOf(U))
  BY <1>1, <1>2, WithoutLast
<1>4. StateAfter(T) = [chain |-> Chain(r), at |-> RefTo(r, 0), values |-> ValuesOf(T),
                       gone |-> r.kind = "Tombstone", valid |-> TRUE]
  BY <1>1 DEF StateAfter
<1>5. r.prev # NoRef => U # {} /\ SamePlace(r.prev, LastOf(U))
  BY <1>1, RefersToLast
<1>6. /\ DOMAIN r.values \subseteq Properties
      /\ \A p : (p \in DOMAIN ValuesOf(T) <=>
            \/ (Full(r) \/ U = {} \/ r.kind = "Delta") /\ p \in DOMAIN r.values
            \/ ~Full(r) /\ U # {} /\ p \in DOMAIN ValuesOf(U))
      /\ \A p \in DOMAIN ValuesOf(T) :
            ValuesOf(T)[p] = IF (Full(r) \/ U = {} \/ r.kind = "Delta") /\ p \in DOMAIN r.values
                             THEN r.values[p] ELSE ValuesOf(U)[p]
  BY <1>1, <1>2, ValuesGrow
<1>7. ValuesOf(T) = [p \in DOMAIN ValuesOf(T) |-> ValuesOf(T)[p]]
  BY DEF ValuesOf
<1>8. ASSUME Full(r) \/ U = {} PROVE ApplyRecord(StateAfter(U), r) = StateAfter(T)
  <2>1. ValuesOf(T) = r.values
    <3>1. r.values = [p \in DOMAIN r.values |-> r.values[p]]
      BY <1>3 DEF RecordTyped
    <3>2. DOMAIN ValuesOf(T) = DOMAIN r.values
      BY <1>6, <1>8
    <3>3. QED
      BY <1>6, <1>7, <1>8, <3>1, <3>2
  <2>2. ApplyRecord(StateAfter(U), r) = FromFull(r)
    <3>1. U = {} => StateAfter(U) = NoState /\ r.prev = NoRef
      BY <1>5 DEF StateAfter
    <3>2. U # {} => /\ StateAfter(U).valid
                    /\ StateAfter(U).at = RefTo(LastOf(U), 0)
      BY DEF StateAfter
    <3>3. StateAfter(U).valid /\ (r.prev = NoRef \/ SamePlace(r.prev, StateAfter(U).at))
      BY <1>5, <3>1, <3>2 DEF NoState, SamePlace, RefTo
    <3>4. QED
      BY <1>8, <3>1, <3>3 DEF ApplyRecord
  <2>3. QED
    BY <1>4, <2>1, <2>2 DEF FromFull
<1>9. ASSUME ~Full(r), U # {} PROVE ApplyRecord(StateAfter(U), r) = StateAfter(T)
  <2>1. PICK state : state = StateAfter(U)
    OBVIOUS
  <2>2. /\ state = [chain |-> Chain(LastOf(U)), at |-> RefTo(LastOf(U), 0), values |-> ValuesOf(U),
                    gone |-> LastOf(U).kind = "Tombstone", valid |-> TRUE]
    BY <1>9, <2>1 DEF StateAfter
  <2>3. state # NoState
    <3>1. state.at.segment # NoState.at.segment
      BY <1>3, <1>9, <2>2 DEF NoState, RefTo, NoRef, RecordTyped
    <3>2. QED
      BY <3>1
  <2>4. state.valid /\ ~(r.prev # NoRef /\ ~SamePlace(r.prev, state.at))
    BY <1>5, <2>2 DEF SamePlace, RefTo
  <2>5. Chain(LastOf(U)) = Chain(r)
    BY <1>1, <1>2, <1>3, <1>9 DEF OneChain
  <2>6. r.kind \in {"Delta", "Tombstone"}
    BY <1>3, <1>9 DEF RecordTyped, RecordKinds, Full
  <2>7. CASE r.kind = "Delta"
    <3>1. ApplyRecord(state, r) = [state EXCEPT !.at = RefTo(r, 0), !.values = Changed(@, r.values), !.gone = FALSE]
      BY <1>9, <2>3, <2>4, <2>7 DEF ApplyRecord
    <3>2. Changed(ValuesOf(U), r.values) = ValuesOf(T)
      <4>1. PICK f, g, h : f = r.values /\ g = ValuesOf(U) /\ h = ValuesOf(T)
        OBVIOUS
      <4>2. DOMAIN h = DOMAIN g \cup DOMAIN f
        BY <1>6, <1>9, <2>7, <4>1
      <4>3. \A p \in DOMAIN h : h[p] = IF p \in DOMAIN f THEN f[p] ELSE g[p]
        BY <1>6, <1>9, <2>7, <4>1
      <4>4. h = [p \in DOMAIN g \cup DOMAIN f |-> IF p \in DOMAIN f THEN f[p] ELSE g[p]]
        BY <1>7, <4>1, <4>2, <4>3
      <4>5. QED
        BY <4>1, <4>4 DEF Changed
    <3>3. PICK x : x = ApplyRecord(state, r)
      OBVIOUS
    <3>4. state.values = ValuesOf(U)
      BY <2>2
    <3>5. /\ DOMAIN x = {"chain", "at", "values", "gone", "valid"}
          /\ x.chain = Chain(LastOf(U)) /\ x.at = RefTo(r, 0) /\ x.values = Changed(state.values, r.values)
          /\ x.gone = FALSE /\ x.valid = TRUE /\ x = [f \in DOMAIN x |-> x[f]]
      BY <2>2, <3>1, <3>3
    <3>6. x = [chain |-> Chain(r), at |-> RefTo(r, 0), values |-> ValuesOf(T), gone |-> FALSE, valid |-> TRUE]
      BY <2>5, <3>2, <3>4, <3>5
    <3>7. QED
      BY <1>4, <2>1, <2>7, <3>3, <3>6
  <2>8. CASE r.kind = "Tombstone"
    <3>1. ApplyRecord(state, r) = [state EXCEPT !.at = RefTo(r, 0), !.gone = TRUE]
      BY <1>9, <2>3, <2>4, <2>8 DEF ApplyRecord
    <3>2. ValuesOf(U) = ValuesOf(T)
      <4>1. ValuesOf(U) = [p \in DOMAIN ValuesOf(U) |-> ValuesOf(U)[p]]
        BY DEF ValuesOf
      <4>2. QED
        BY <1>6, <1>7, <1>9, <2>8, <4>1
    <3>3. PICK x : x = ApplyRecord(state, r)
      OBVIOUS
    <3>4. /\ DOMAIN x = {"chain", "at", "values", "gone", "valid"}
          /\ x.chain = Chain(LastOf(U)) /\ x.at = RefTo(r, 0) /\ x.values = ValuesOf(U)
          /\ x.gone = TRUE /\ x.valid = TRUE /\ x = [f \in DOMAIN x |-> x[f]]
      BY <2>2, <3>1, <3>3
    <3>5. x = [chain |-> Chain(r), at |-> RefTo(r, 0), values |-> ValuesOf(T), gone |-> TRUE, valid |-> TRUE]
      BY <2>5, <3>2, <3>4
    <3>6. QED
      BY <1>4, <2>1, <2>8, <3>3, <3>5
  <2>9. QED
    BY <2>1, <2>6, <2>7, <2>8
<1>10. QED
  BY <1>1, <1>8, <1>9

\* At a cut an object has the records up to one of them.
LEMMA RecordsAtCut ==
  ASSUME RecordsInv, NEW c \in Cuts, NEW chain \in Chains(c), NEW R, R = RecordsOf(chain, c)
  PROVE  /\ Prefix(R) /\ R # {} /\ IsFiniteSet(R)
         /\ \A T \in SUBSET R : T # {} => LastSorted(T) = LastOf(T) /\ LastOf(T) \in T
         /\ \A r \in R : Chain(r) = chain
<1>1. \A r : r \in R <=> r \in records /\ Chain(r) = chain /\ VisibleAt(r, c)
  BY DEF RecordsOf
<1>2. R # {}
  BY <1>1 DEF Chains
<1>3. OneChain(R)
  BY <1>1 DEF OneChain
<1>4. ASSUME NEW r \in R, NEW s \in records, Chain(s) = Chain(r), history[s] < history[r] PROVE s \in R
  <2>1. /\ r \in records /\ history[r] \in Nat /\ history[s] \in Nat
        /\ r.time \in Nat /\ s.time \in Nat /\ r.csn \in Nat /\ s.csn \in Nat
    BY <1>1 DEF RecordsInv, InOrder, RecordTyped
  <2>2. s.time <= r.time /\ s.csn <= r.csn
    <3>1. s # r
      BY <1>4, <2>1
    <3>2. ~(history[r] < history[s])
      BY <1>4, <2>1
    <3>3. s.time <= r.time /\ s.csn < r.csn
      BY <1>4, <2>1, <3>1, <3>2 DEF RecordsInv, InOrder
    <3>4. QED
      BY <2>1, <3>3
  <2>3. VisibleAt(s, c)
    <3>1. CASE c = Latest
      BY <3>1 DEF VisibleAt
    <3>2. CASE c \in [by : {"time", "csn"}, upTo : 0 .. MaxCut]
      <4>1. c.by \in {"time", "csn"} /\ c.upTo \in Nat
        BY <3>2, HistoryAssumption
      <4>2. c # Latest
        BY <4>1 DEF Latest
      <4>3. VisibleAt(r, c)
        BY <1>1
      <4>4. QED
        BY <2>1, <2>2, <4>1, <4>2, <4>3 DEF VisibleAt
    <3>3. QED
      BY <3>1, <3>2 DEF Cuts
  <2>4. QED
    BY <1>1, <1>4, <2>3
<1>5. IsFiniteSet(R)
  BY <1>3, FS_Subset DEF RecordsInv, InOrder, OneChain
<1>6. ASSUME NEW T \in SUBSET R, T # {} PROVE LastSorted(T) = LastOf(T) /\ LastOf(T) \in T
  <2>1. OneChain(T)
    BY <1>3 DEF OneChain
  <2>2. T \in SUBSET records
    BY <2>1 DEF OneChain
  <2>3. QED
    BY <1>6, <2>1, <2>2, SortedLastIsLast, FirstAndLast
<1>7. QED
  BY <1>1, <1>2, <1>3, <1>4, <1>5, <1>6 DEF Prefix

\* What is so after no record, and with each record more, is so after all.
LEMMA ReadRight ==
  ASSUME RecordsInv, NEW c \in Cuts, NEW chain \in Chains(c)
  PROVE  StateOf(chain, c) = StateAfter(RecordsOf(chain, c))
<1>1. PICK R : R = RecordsOf(chain, c)
  OBVIOUS
<1>2. /\ Prefix(R) /\ IsFiniteSet(R)
      /\ \A T \in SUBSET R : T # {} => LastSorted(T) = LastOf(T) /\ LastOf(T) \in T
  BY <1>1, RecordsAtCut
<1>3. \A T \in SUBSET R : T # {} => LastSorted(T) \in T
  BY <1>2
<1>4. PICK h : /\ h[{}] = NoState
               /\ \A T \in SUBSET R : T # {} =>
                     h[T] = ApplyRecord(h[T \ {LastSorted(T)}], LastSorted(T))
               /\ MapThenFoldSet(LAMBDA r, state : ApplyRecord(state, r), NoState, LAMBDA r : r,
                                 LastSorted, R) = h[R]
  BY <1>2, <1>3, ReadInOrder
<1>5. StateOf(chain, c) = h[R]
  BY <1>1, <1>4 DEF StateOf
<1> DEFINE Bad == {Cardinality(T) : T \in {T \in SUBSET R : Prefix(T) /\ h[T] # StateAfter(T)}}
<1>6. \A T \in SUBSET R : IsFiniteSet(T) /\ Cardinality(T) \in Nat
  BY <1>2, FS_Subset, FS_CardinalityType
<1>7. ASSUME Bad # {} PROVE FALSE
  <2>1. Bad \subseteq Nat
    BY <1>6
  <2>2. PICK n \in Bad : \A k \in Bad : n <= k
    BY <1>7, <2>1, NatMin
  <2>3. PICK T \in SUBSET R : n = Cardinality(T) /\ Prefix(T) /\ h[T] # StateAfter(T)
    OBVIOUS
  <2>4. T # {}
    BY <1>4, <2>3 DEF StateAfter
  <2>5. PICK r, U : r = LastOf(T) /\ U = T \ {r}
    OBVIOUS
  <2>6. r \in T /\ LastSorted(T) = r
    BY <1>2, <2>4, <2>5
  <2>7. U \in SUBSET R /\ Prefix(U)
    BY <2>3, <2>4, <2>5, PrefixWithoutLast
  <2>8. Cardinality(U) = n - 1
    BY <1>6, <2>3, <2>5, <2>6, FS_RemoveElement
  <2>9. h[U] = StateAfter(U)
    <3>1. Cardinality(U) \notin Bad
      <4> HIDE DEF Bad
      <4>1. n \in Nat
        BY <2>1
      <4>2. QED
        BY <4>1, <2>2, <2>8
    <3>2. QED
      BY <2>7, <3>1
  <2>10. h[T] = ApplyRecord(StateAfter(U), r)
    BY <1>4, <2>4, <2>5, <2>6, <2>9
  <2>11. ApplyRecord(StateAfter(U), r) = StateAfter(T)
    BY <2>3, <2>4, <2>5, AppliedRight
  <2>12. QED
    BY <2>3, <2>10, <2>11
<1>8. h[R] = StateAfter(R)
  BY <1>2, <1>7
<1>9. QED
  BY <1>1, <1>5, <1>8

\* References are to records of the object that are sorted before.
LEMMA RefsValid ==
  ASSUME RecordsInv, NEW r \in records
  PROVE  PrevRefValid(r)
<1>1. ASSUME NEW p \in records, Chain(p) = Chain(r), history[p] < history[r] PROVE Precedes(SortKey(p), SortKey(r))
  <2>1. history[p] \in Nat /\ history[r] \in Nat /\ RecordTyped(p) /\ RecordTyped(r)
    BY DEF RecordsInv, InOrder
  <2>2. p # r /\ ~(history[r] < history[p])
    BY <1>1, <2>1
  <2>3. p.time <= r.time /\ p.csn < r.csn
    BY <1>1, <2>2 DEF RecordsInv, InOrder
  <2>4. QED
    BY <2>1, <2>3, SortedByTime
<1>2. QED
  BY <1>1 DEF PrevRefValid, RecordsInv, InOrder

\* The reader's objects are those of the commits.
LEMMA ObjectsRight ==
  ASSUME RecordsInv, NEW c \in Cuts
  PROVE  Reconstructed(c) = ObjectsAt(c)
<1>1. ASSUME NEW chain \in Chains(c)
      PROVE  /\ StateOf(chain, c).valid = TRUE
             /\ [chain |-> StateOf(chain, c).chain, at |-> StateOf(chain, c).at,
                 values |-> StateOf(chain, c).values, gone |-> StateOf(chain, c).gone] =
                   ObjectOf(chain, RecordsOf(chain, c))
  <2>1. PICK R, s : R = RecordsOf(chain, c) /\ s = StateOf(chain, c)
    OBVIOUS
  <2>2. R # {} /\ Chain(LastOf(R)) = chain
    <3>1. R # {} /\ (\A r \in R : Chain(r) = chain) /\ \A T \in SUBSET R : T # {} => LastOf(T) \in T
      BY <2>1, RecordsAtCut
    <3>2. QED
      BY <3>1
  <2>3. s = [chain |-> chain, at |-> RefTo(LastOf(R), 0), values |-> ValuesOf(R),
             gone |-> LastOf(R).kind = "Tombstone", valid |-> TRUE]
    BY <2>1, <2>2, ReadRight DEF StateAfter
  <2>4. ObjectOf(chain, R) = [chain |-> chain, at |-> RefTo(LastOf(R), 0), values |-> ValuesOf(R),
                              gone |-> LastOf(R).kind = "Tombstone"]
    BY DEF ObjectOf, ValuesOf
  <2>5. s.valid = TRUE /\ s.chain = chain /\ s.at = RefTo(LastOf(R), 0) /\ s.values = ValuesOf(R)
        /\ s.gone = (LastOf(R).kind = "Tombstone")
    BY <2>3
  <2>6. QED
    BY <2>1, <2>4, <2>5
<1>2. PICK found : found = {StateOf(chain, c) : chain \in Chains(c)}
  OBVIOUS
<1>3. \A s \in found : s.valid
  BY <1>1, <1>2
<1>4. Reconstructed(c) =
        {[chain |-> s.chain, at |-> s.at, values |-> s.values, gone |-> s.gone] : s \in found}
  BY <1>2, <1>3, RefsValid DEF Reconstructed
<1>5. PICK X, Y : /\ X = {[chain |-> s.chain, at |-> s.at, values |-> s.values, gone |-> s.gone] : s \in found}
                  /\ Y = {ObjectOf(chain, RecordsOf(chain, c)) : chain \in Chains(c)}
  OBVIOUS
<1>6. X = Y
  <2>1. ASSUME NEW x \in X PROVE x \in Y
    BY <1>1, <1>2, <1>5
  <2>2. ASSUME NEW y \in Y PROVE y \in X
    BY <1>1, <1>2, <1>5
  <2>3. QED
    BY <2>1, <2>2
<1>7. QED
  BY <1>4, <1>5, <1>6 DEF ObjectsAt

\* The projection's row after some records, in a file with all columns.
RowAfter(T) ==
    IF T = {} \/ LastOf(T).kind = "Tombstone" THEN NoState
    ELSE [chain |-> Chain(LastOf(T)), at |-> RefTo(LastOf(T), 0), values |-> LastOf(T).values,
          gone |-> FALSE, valid |-> TRUE]

\* Projecting the last record makes that row.
LEMMA ProjectedNext ==
  ASSUME RecordsInv, Dense, NEW T, OneChain(T), T # {}
  PROVE  ProjectRecord(RowAfter(T \ {LastOf(T)}), LastOf(T)) = RowAfter(T)
<1>1. PICK r, U : r = LastOf(T) /\ U = T \ {r}
  OBVIOUS
<1>2. /\ r \in T /\ RecordTyped(r) /\ OneChain(U)
      /\ U # {} => LastOf(U) \in U /\ RecordTyped(LastOf(U))
  BY <1>1, WithoutLast
<1>3. r \in records /\ DOMAIN r.values = Properties
  BY <1>2 DEF OneChain, Dense
<1>4. r.kind \in {"Baseline", "Snapshot", "Delta", "Tombstone"}
  BY <1>2 DEF RecordTyped, RecordKinds
<1>5. FromFull(r) = [chain |-> Chain(r), at |-> RefTo(r, 0), values |-> r.values,
                     gone |-> r.kind = "Tombstone", valid |-> TRUE]
  BY DEF FromFull
<1>6. PICK row : row = RowAfter(U)
  OBVIOUS
<1>7. CASE r.kind \in {"Baseline", "Snapshot"}
  <2>1. ProjectRecord(row, r) = FromFull(r)
    BY <1>7 DEF ProjectRecord, Full
  <2>2. RowAfter(T) = [chain |-> Chain(r), at |-> RefTo(r, 0), values |-> r.values,
                       gone |-> FALSE, valid |-> TRUE]
    BY <1>1, <1>2, <1>7 DEF RowAfter
  <2>3. QED
    BY <1>1, <1>5, <1>6, <1>7, <2>1, <2>2
<1>8. CASE r.kind = "Delta"
  <2>1. RowAfter(T) = [chain |-> Chain(r), at |-> RefTo(r, 0), values |-> r.values,
                       gone |-> FALSE, valid |-> TRUE]
    BY <1>1, <1>2, <1>8 DEF RowAfter
  <2>2. CASE row = NoState
    <3>1. ProjectRecord(row, r) = FromFull(r)
      BY <1>8, <2>2 DEF ProjectRecord, Full
    <3>2. QED
      BY <1>1, <1>5, <1>6, <1>8, <2>1, <3>1
  <2>3. CASE row # NoState
    <3>1. U # {} /\ row = [chain |-> Chain(LastOf(U)), at |-> RefTo(LastOf(U), 0),
                           values |-> LastOf(U).values, gone |-> FALSE, valid |-> TRUE]
      BY <1>6, <2>3 DEF RowAfter
    <3>2. /\ Chain(LastOf(U)) = Chain(r)
          /\ DOMAIN LastOf(U).values = Properties
      BY <1>1, <1>2, <3>1 DEF OneChain, Dense
    <3>3. ProjectRecord(row, r) = [row EXCEPT !.at = RefTo(r, 0), !.values = Changed(@, r.values)]
      BY <1>8, <2>3 DEF ProjectRecord, Full
    <3>4. Changed(row.values, r.values) = r.values
      <4>1. PICK f, g : f = r.values /\ g = row.values
        OBVIOUS
      <4>2. DOMAIN f = Properties /\ DOMAIN g = Properties /\ f = [p \in Properties |-> f[p]]
        BY <1>2, <1>3, <3>1, <3>2, <4>1 DEF RecordTyped
      <4>3. Changed(g, f) = [p \in Properties |-> f[p]]
        BY <4>2 DEF Changed
      <4>4. QED
        BY <4>1, <4>2, <4>3
    <3>5. PICK x : x = ProjectRecord(row, r)
      OBVIOUS
    <3>6. /\ DOMAIN x = {"chain", "at", "values", "gone", "valid"}
          /\ x.chain = Chain(LastOf(U)) /\ x.at = RefTo(r, 0) /\ x.values = Changed(row.values, r.values)
          /\ x.gone = FALSE /\ x.valid = TRUE /\ x = [f \in DOMAIN x |-> x[f]]
      BY <3>1, <3>3, <3>5
    <3>7. x = [chain |-> Chain(r), at |-> RefTo(r, 0), values |-> r.values, gone |-> FALSE, valid |-> TRUE]
      BY <3>2, <3>4, <3>6
    <3>8. QED
      BY <1>1, <1>6, <2>1, <3>5, <3>7
  <2>4. QED
    BY <2>2, <2>3
<1>9. CASE r.kind = "Tombstone"
  <2>1. ProjectRecord(row, r) = NoState
    BY <1>9 DEF ProjectRecord, Full
  <2>2. RowAfter(T) = NoState
    BY <1>1, <1>9 DEF RowAfter
  <2>3. QED
    BY <1>1, <1>6, <2>1, <2>2
<1>10. QED
  BY <1>4, <1>7, <1>8, <1>9

\* What the projection finds of an object at a cut.
LEMMA ProjectedRight ==
  ASSUME RecordsInv, Dense, NEW c \in Cuts, NEW chain \in Chains(c)
  PROVE  RowAt(chain, c) = RowAfter(RecordsOf(chain, c))
<1>1. PICK R : R = RecordsOf(chain, c)
  OBVIOUS
<1>2. /\ Prefix(R) /\ IsFiniteSet(R)
      /\ \A T \in SUBSET R : T # {} => LastSorted(T) = LastOf(T) /\ LastOf(T) \in T
  BY <1>1, RecordsAtCut
<1>3. \A T \in SUBSET R : T # {} => LastSorted(T) \in T
  BY <1>2
<1>4. PICK h : /\ h[{}] = NoState
               /\ \A T \in SUBSET R : T # {} =>
                     h[T] = ProjectRecord(h[T \ {LastSorted(T)}], LastSorted(T))
               /\ MapThenFoldSet(LAMBDA r, row : ProjectRecord(row, r), NoState, LAMBDA r : r,
                                 LastSorted, R) = h[R]
  BY <1>2, <1>3, ProjectInOrder
<1>5. RowAt(chain, c) = h[R]
  BY <1>1, <1>4 DEF RowAt
<1> DEFINE Bad == {Cardinality(T) : T \in {T \in SUBSET R : h[T] # RowAfter(T)}}
<1>6. \A T \in SUBSET R : IsFiniteSet(T) /\ Cardinality(T) \in Nat
  BY <1>2, FS_Subset, FS_CardinalityType
<1>7. ASSUME Bad # {} PROVE FALSE
  <2>1. Bad \subseteq Nat
    BY <1>6
  <2>2. PICK n \in Bad : \A k \in Bad : n <= k
    BY <1>7, <2>1, NatMin
  <2>3. PICK T \in SUBSET R : n = Cardinality(T) /\ h[T] # RowAfter(T)
    OBVIOUS
  <2>4. T # {}
    BY <1>4, <2>3 DEF RowAfter
  <2>5. PICK r, U : r = LastOf(T) /\ U = T \ {r}
    OBVIOUS
  <2>6. r \in T /\ LastSorted(T) = r
    BY <1>2, <2>4, <2>5
  <2>7. U \in SUBSET R
    BY <2>3, <2>5
  <2>8. Cardinality(U) = n - 1
    BY <1>6, <2>3, <2>5, <2>6, FS_RemoveElement
  <2>9. h[U] = RowAfter(U)
    <3>1. Cardinality(U) \notin Bad
      <4> HIDE DEF Bad
      <4>1. n \in Nat
        BY <2>1
      <4>2. QED
        BY <4>1, <2>2, <2>8
    <3>2. QED
      BY <2>7, <3>1
  <2>10. h[T] = ProjectRecord(RowAfter(U), r)
    BY <1>4, <2>4, <2>5, <2>6, <2>9
  <2>11. OneChain(T)
    BY <1>2 DEF Prefix, OneChain
  <2>12. ProjectRecord(RowAfter(U), r) = RowAfter(T)
    BY <2>4, <2>5, <2>11, ProjectedNext
  <2>13. QED
    BY <2>3, <2>10, <2>12
<1>8. h[R] = RowAfter(R)
  BY <1>7
<1>9. QED
  BY <1>1, <1>5, <1>8

\* A record with all columns leaves nothing of the ones before it.
LEMMA ValuesOfLast ==
  ASSUME RecordsInv, Dense, NEW T, OneChain(T), T # {}, LastOf(T).kind # "Tombstone"
  PROVE  ValuesOf(T) = LastOf(T).values
<1>1. PICK r, U : r = LastOf(T) /\ U = T \ {r}
  OBVIOUS
<1>2. r \in T /\ RecordTyped(r) /\ OneChain(U)
  BY <1>1, WithoutLast
<1>3. DOMAIN r.values = Properties
  BY <1>2 DEF OneChain, Dense
<1>4. Full(r) \/ r.kind = "Delta"
  BY <1>1, <1>2 DEF RecordTyped, RecordKinds, Full
<1>5. /\ \A p : (p \in DOMAIN ValuesOf(T) <=>
            \/ (Full(r) \/ U = {} \/ r.kind = "Delta") /\ p \in DOMAIN r.values
            \/ ~Full(r) /\ U # {} /\ p \in DOMAIN ValuesOf(U))
      /\ \A p \in DOMAIN ValuesOf(T) :
            ValuesOf(T)[p] = IF (Full(r) \/ U = {} \/ r.kind = "Delta") /\ p \in DOMAIN r.values
                             THEN r.values[p] ELSE ValuesOf(U)[p]
  BY <1>1, ValuesGrow
<1>6. DOMAIN ValuesOf(U) \subseteq Properties
  BY DEF ValuesOf
<1>7. PICK f, g : f = r.values /\ g = ValuesOf(T)
  OBVIOUS
<1>8. DOMAIN g = DOMAIN f /\ \A p \in DOMAIN g : g[p] = f[p]
  BY <1>3, <1>4, <1>5, <1>6, <1>7
<1>9. f = [p \in DOMAIN f |-> f[p]] /\ g = [p \in DOMAIN g |-> g[p]]
  BY <1>2, <1>7 DEF RecordTyped, ValuesOf
<1>10. QED
  BY <1>1, <1>7, <1>8, <1>9

\* The projection and the reader find an object alike, or it is gone.
Alike(row, object) ==
    \/ row = NoState /\ object.gone = TRUE
    \/ /\ row # NoState /\ row.gone = FALSE /\ object.gone = FALSE
       /\ row.chain = object.chain /\ row.at = object.at /\ row.values = object.values

LEMMA FoundAlike ==
  ASSUME RecordsInv, Dense, NEW c \in Cuts, NEW chain \in Chains(c),
         NEW a, a = RowAt(chain, c), NEW o, o = ObjectOf(chain, RecordsOf(chain, c))
  PROVE  Alike(a, o)
<1>0. PICK R, r : R = RecordsOf(chain, c) /\ r = LastOf(R)
  OBVIOUS
<1>1. /\ Prefix(R) /\ R # {} /\ \A x \in R : Chain(x) = chain
      /\ \A T \in SUBSET R : T # {} => LastOf(T) \in T
  BY <1>0, RecordsAtCut
<1>2. r \in R /\ r \in records /\ Chain(r) = chain /\ RecordTyped(r)
  BY <1>0, <1>1 DEF Prefix, OneChain, RecordsInv, InOrder
<1>3. a = RowAfter(R)
  BY <1>0, ProjectedRight
<1>4. r.kind = "Tombstone" => a = NoState
  BY <1>0, <1>3 DEF RowAfter
<1>5. o = [chain |-> chain, at |-> RefTo(r, 0), values |-> ValuesOf(R), gone |-> r.kind = "Tombstone"]
  BY <1>0 DEF ObjectOf, ValuesOf
<1>6. o.gone = (r.kind = "Tombstone") /\ o.chain = chain /\ o.at = RefTo(r, 0) /\ o.values = ValuesOf(R)
  BY <1>5
<1>7. ASSUME r.kind # "Tombstone"
      PROVE  a # NoState /\ a.gone = FALSE /\ a.chain = o.chain /\ a.at = o.at /\ a.values = o.values
  <2>1. a = [chain |-> chain, at |-> RefTo(r, 0), values |-> r.values, gone |-> FALSE, valid |-> TRUE]
    BY <1>0, <1>1, <1>2, <1>3, <1>7 DEF RowAfter
  <2>2. a.at.segment # NoState.at.segment
    BY <1>2, <2>1 DEF NoState, RefTo, NoRef, RecordTyped
  <2>3. r.values = ValuesOf(R)
    BY <1>0, <1>1, <1>7, ValuesOfLast DEF Prefix
  <2>4. QED
    BY <1>6, <2>1, <2>2, <2>3
<1>8. QED
  BY <1>4, <1>6, <1>7 DEF Alike

\* The projection and the reader find the same living objects.
LEMMA SameObjects ==
  ASSUME RecordsInv, Dense, NEW c \in Cuts
  PROVE  Live({RowAt(chain, c) : chain \in Chains(c)} \ {NoState}) = Live(ObjectsAt(c))
<1>1. PICK X, Y : X = Live({RowAt(chain, c) : chain \in Chains(c)} \ {NoState}) /\ Y = Live(ObjectsAt(c))
  OBVIOUS
<1>2. ASSUME NEW x \in X PROVE x \in Y
  <2>0. PICK chain \in Chains(c) : \E a :
           /\ a = RowAt(chain, c) /\ a # NoState
           /\ x = [chain |-> a.chain, at |-> a.at, values |-> a.values]
    BY <1>1 DEF Live
  <2>1. PICK a, o :
           /\ a = RowAt(chain, c) /\ a # NoState /\ o = ObjectOf(chain, RecordsOf(chain, c))
           /\ x = [chain |-> a.chain, at |-> a.at, values |-> a.values]
    BY <2>0
  <2>2. ~o.gone /\ a.chain = o.chain /\ a.at = o.at /\ a.values = o.values
    <3>1. Alike(a, o)
      BY <2>1, FoundAlike
    <3>2. QED
      BY <2>1, <3>1 DEF Alike
  <2>3. o \in ObjectsAt(c)
    BY <2>1 DEF ObjectsAt
  <2>4. x = [chain |-> o.chain, at |-> o.at, values |-> o.values]
    BY <2>1, <2>2
  <2>5. QED
    BY <1>1, <2>2, <2>3, <2>4 DEF Live
<1>3. ASSUME NEW x \in Y PROVE x \in X
  <2>1. PICK o \in ObjectsAt(c) : ~o.gone /\ x = [chain |-> o.chain, at |-> o.at, values |-> o.values]
    BY <1>1 DEF Live
  <2>0. PICK chain \in Chains(c) : o = ObjectOf(chain, RecordsOf(chain, c))
    BY <2>1 DEF ObjectsAt
  <2>2. PICK a : a = RowAt(chain, c)
    OBVIOUS
  <2>3. a # NoState /\ ~a.gone /\ a.chain = o.chain /\ a.at = o.at /\ a.values = o.values
    <3>1. Alike(a, o)
      BY <2>0, <2>2, FoundAlike
    <3>2. QED
      BY <2>1, <3>1 DEF Alike
  <2>4. x = [chain |-> a.chain, at |-> a.at, values |-> a.values]
    BY <2>1, <2>3
  <2>5. QED
    BY <1>1, <2>2, <2>3, <2>4 DEF Live
<1>4. QED
  BY <1>1, <1>2, <1>3

------------------------------------------------------------------------------
(* What the writers write                                                    *)

\* What a commit tells of its record.
LEMMA CommittedFields ==
  ASSUME NEW commits, CommitsTyped(commits), NEW i \in DOMAIN commits, NEW r, r = RecordOfCommit(commits, i)
  PROVE  /\ RecordTyped(r) /\ r.record = i /\ r.csn = i /\ r.time = commits[i].time
         /\ r.segment = commits[i].segment /\ r.row = RowInSegment(commits, i)
         /\ r.prev = RefOfCommit(commits, i) /\ Chain(r) = commits[i].chain
<1>1. PICK c : c = commits[i]
  OBVIOUS
<1>2. /\ c.chain \in Nat \X Nat \X Nat /\ c.kind \in RecordKinds /\ c.segment \in Nat /\ c.time \in Nat
      /\ i \in Nat
  <2>1. PICK S : S = [chain : Nat \X Nat \X Nat, kind : RecordKinds, segment : Nat, time : Nat,
                      refs : BOOLEAN]
    OBVIOUS
  <2>2. commits \in Seq(S)
    BY <2>1 DEF CommitsTyped
  <2>3. c \in S /\ i \in Nat
    BY <1>1, <2>2
  <2>4. QED
    BY <2>1, <2>3
<1>3. c.chain[1] \in Nat /\ c.chain[2] \in Nat /\ c.chain[3] \in Nat
      /\ c.chain = <<c.chain[1], c.chain[2], c.chain[3]>>
  BY <1>2
<1>4. PICK values : values = [p \in ColumnsOf(c.segment) |-> i]
  OBVIOUS
<1>5. DOMAIN values \subseteq Properties /\ values = [p \in DOMAIN values |-> values[p]]
  BY <1>4, HistoryAssumption DEF ColumnsOf
<1>6. PICK row, prev : row = RowInSegment(commits, i) /\ prev = RefOfCommit(commits, i)
  OBVIOUS
<1>7. row \in Nat
  <2>1. PICK B : B = {j \in 1 .. i - 1 : commits[j].segment = commits[i].segment}
    OBVIOUS
  <2>2. IsFiniteSet(1 .. i - 1) /\ B \subseteq 1 .. i - 1
    <3>1. i - 1 \in Nat
      <4>1. PICK S : S = [chain : Nat \X Nat \X Nat, kind : RecordKinds, segment : Nat, time : Nat,
                          refs : BOOLEAN]
        OBVIOUS
      <4>2. commits \in Seq(S)
        BY <4>1 DEF CommitsTyped
      <4>3. i \in 1 .. Len(commits) /\ Len(commits) \in Nat
        BY <4>2
      <4>4. QED
        BY <4>3
    <3>2. QED
      BY <2>1, <3>1, FiniteInterval
  <2>3. Cardinality(B) \in Nat
    BY <2>2, FS_Subset, FS_CardinalityType
  <2>4. QED
    BY <1>6, <2>1, <2>3 DEF RowInSegment
<1>8. r = [type |-> c.chain[1], branch |-> c.chain[2], goid |-> c.chain[3],
           record |-> i, kind |-> c.kind, time |-> c.time, csn |-> i, values |-> values,
           segment |-> c.segment, row |-> row, prev |-> prev]
  BY <1>1, <1>4, <1>6 DEF RecordOfCommit
<1>9. /\ r.type = c.chain[1] /\ r.branch = c.chain[2] /\ r.goid = c.chain[3]
      /\ r.record = i /\ r.kind = c.kind /\ r.time = c.time /\ r.csn = i /\ r.values = values
      /\ r.segment = c.segment /\ r.row = row /\ r.prev = prev
  BY <1>8
<1>10. Chain(r) = c.chain
  BY <1>3, <1>9 DEF Chain
<1>11. RecordTyped(r)
  BY <1>2, <1>3, <1>5, <1>7, <1>9 DEF RecordTyped
<1>12. QED
  BY <1>1, <1>6, <1>9, <1>10, <1>11

\* A writer's commits are in their order.
LEMMA CommitsInOrder ==
  ASSUME NEW commits, CommitsTyped(commits), NEW written, written = Committed(commits),
         NEW when, when = [r \in written |-> r.record]
  PROVE  InOrder(written, when)
<1>1. PICK f : f = [i \in DOMAIN commits |-> RecordOfCommit(commits, i)]
  OBVIOUS
<1>2. IsFiniteSet(DOMAIN commits) /\ DOMAIN commits \subseteq Nat
      /\ \A i \in DOMAIN commits : \A k \in 1 .. i - 1 : k \in DOMAIN commits /\ k < i
  <2>1. commits \in Seq([chain : Nat \X Nat \X Nat, kind : RecordKinds, segment : Nat, time : Nat,
                         refs : BOOLEAN])
    BY DEF CommitsTyped
  <2>2. PICK n \in Nat : DOMAIN commits = 1 .. n
    BY <2>1
  <2>3. QED
    BY <2>2, FiniteInterval
<1>3. /\ \A r \in written : \E i \in DOMAIN commits : r = f[i]
      /\ \A i \in DOMAIN commits : f[i] \in written
  BY <1>1 DEF Committed
<1>4. \A i \in DOMAIN commits :
         /\ RecordTyped(f[i]) /\ f[i].record = i /\ f[i].csn = i /\ f[i].time = commits[i].time
         /\ f[i].segment = commits[i].segment /\ f[i].row = RowInSegment(commits, i)
         /\ f[i].prev = RefOfCommit(commits, i) /\ Chain(f[i]) = commits[i].chain
  BY <1>1, CommittedFields
<1>5. IsFiniteSet(written)
  BY <1>1, <1>2, <1>3, FiniteImage
<1>6. \A i \in DOMAIN commits : when[f[i]] = i
  BY <1>3, <1>4
<1>7. \A r \in written : RecordTyped(r) /\ when[r] \in Nat
  BY <1>2, <1>3, <1>4, <1>6
<1>8. ASSUME NEW r \in written, NEW s \in written, r # s
      PROVE  \/ when[r] < when[s] /\ r.time <= s.time /\ r.csn < s.csn
             \/ when[s] < when[r] /\ s.time <= r.time /\ s.csn < r.csn
  <2>1. PICK i \in DOMAIN commits, j \in DOMAIN commits : r = f[i] /\ s = f[j]
    BY <1>3
  <2>2. i # j /\ i \in Nat /\ j \in Nat
    BY <1>2, <1>8, <2>1
  <2>3. /\ i < j => commits[i].time <= commits[j].time
        /\ j < i => commits[j].time <= commits[i].time
    BY <2>1 DEF CommitsTyped
  <2>4. when[r] = i /\ when[s] = j /\ r.csn = i /\ s.csn = j /\ r.time = commits[i].time
        /\ s.time = commits[j].time
    BY <1>4, <1>6, <2>1
  <2>5. i < j \/ j < i
    BY <2>2
  <2>6. QED
    BY <2>3, <2>4, <2>5
<1>9. ASSUME NEW r \in written, r.prev # NoRef
      PROVE  \E p \in written : /\ Chain(p) = Chain(r) /\ when[p] < when[r] /\ SamePlace(r.prev, p)
                                /\ \A s \in written : Chain(s) = Chain(r) /\ when[s] < when[r] =>
                                      when[s] <= when[p]
  <2>1. PICK i \in DOMAIN commits : r = f[i]
    BY <1>3
  <2>2. PICK E : E = EarlierCommits(commits, i)
    OBVIOUS
  <2>3. \A k : k \in E <=> k \in 1 .. i - 1 /\ commits[k].chain = commits[i].chain
    BY <2>2 DEF EarlierCommits
  <2>4. IsFiniteSet(E) /\ E \subseteq Int
    <3>1. E \subseteq DOMAIN commits
      BY <1>2, <2>3
    <3>2. IsFiniteSet(E)
      BY <1>2, <3>1, FS_Subset
    <3>3. QED
      BY <1>2, <3>1, <3>2
  <2>5. E # {} /\ r.prev = [segment |-> commits[Max(E)].segment, row |-> RowInSegment(commits, Max(E)),
                            target |-> IF Full(commits[Max(E)]) THEN 1 ELSE 0]
    BY <1>4, <1>9, <2>1, <2>2 DEF RefOfCommit
  <2>6. PICK j : j = Max(E)
    OBVIOUS
  <2>7. j \in E /\ \A k \in E : k <= j
    BY <2>4, <2>5, <2>6, GreatestMember
  <2>8. j \in DOMAIN commits /\ j < i /\ commits[j].chain = commits[i].chain
    BY <1>2, <2>3, <2>7
  <2>9. SamePlace(r.prev, f[j])
    BY <1>4, <2>5, <2>6, <2>8 DEF SamePlace
  <2>10. f[j] \in written /\ Chain(f[j]) = Chain(r) /\ when[f[j]] < when[r]
    BY <1>3, <1>4, <1>6, <2>1, <2>8
  <2>11. ASSUME NEW s \in written, Chain(s) = Chain(r), when[s] < when[r] PROVE when[s] <= when[f[j]]
    <3>1. PICK k \in DOMAIN commits : s = f[k]
      BY <1>3
    <3>2. k < i /\ commits[k].chain = commits[i].chain
      BY <1>4, <1>6, <2>1, <2>11, <3>1
    <3>3. k \in 1 .. i - 1
      <4>1. i \in Nat /\ k \in Nat /\ k >= 1
        BY <1>2 DEF CommitsTyped
      <4>2. QED
        BY <3>2, <4>1
    <3>4. k <= j
      BY <2>3, <2>7, <3>2, <3>3
    <3>5. QED
      BY <1>6, <2>8, <3>1, <3>4
  <2>12. QED
    BY <2>9, <2>10, <2>11
<1>10. QED
  BY <1>5, <1>7, <1>8, <1>9 DEF InOrder

\* A row as the writer takes it, its conflicts settled.
RowTyped(row) ==
    /\ row.type \in Nat /\ row.goid \in Nat /\ row.index \in Nat /\ row.record \in Nat
    /\ row.kind \in RecordKinds
    /\ DOMAIN row.values = Properties /\ row.values = [p \in DOMAIN row.values |-> row.values[p]]

RowsTyped(rows) == \E n \in Nat : DOMAIN rows = 1 .. n /\ \A i \in 1 .. n : RowTyped(rows[i])

\* Rows sort in one order.
LEMMA PrecedesOfFour ==
  ASSUME NEW rows, NEW i, NEW j
  PROVE  Precedes(WriteOrder(rows, i), WriteOrder(rows, j)) <=>
           \/ rows[i].index < rows[j].index
           \/ /\ rows[i].index = rows[j].index
              /\ \/ rows[i].goid < rows[j].goid
                 \/ /\ rows[i].goid = rows[j].goid
                    /\ \/ rows[i].record < rows[j].record
                       \/ rows[i].record = rows[j].record /\ i < j
<1>1. PICK x, y : x = WriteOrder(rows, i) /\ y = WriteOrder(rows, j)
  OBVIOUS
<1>2. /\ DOMAIN x = 1 .. 4
      /\ x[1] = rows[i].index /\ x[2] = rows[i].goid /\ x[3] = rows[i].record /\ x[4] = i
      /\ y[1] = rows[j].index /\ y[2] = rows[j].goid /\ y[3] = rows[j].record /\ y[4] = j
  BY <1>1 DEF WriteOrder
<1>3. Precedes(x, y) <=> \/ x[1] < y[1]
                         \/ x[1] = y[1] /\ x[2] < y[2]
                         \/ x[1] = y[1] /\ x[2] = y[2] /\ x[3] < y[3]
                         \/ x[1] = y[1] /\ x[2] = y[2] /\ x[3] = y[3] /\ x[4] < y[4]
  <2>1. /\ 1 .. 1 - 1 = {} /\ 1 .. 2 - 1 = {1} /\ 1 .. 3 - 1 = {1, 2} /\ 1 .. 4 - 1 = {1, 2, 3}
        /\ 1 .. 4 = {1, 2, 3, 4}
    OBVIOUS
  <2>2. Precedes(x, y) <=> \E k \in {1, 2, 3, 4} : x[k] < y[k] /\ \A l \in 1 .. k - 1 : x[l] = y[l]
    BY <1>2, <2>1 DEF Precedes
  <2>3. /\ (\A l \in 1 .. 1 - 1 : x[l] = y[l])
        /\ (\A l \in 1 .. 2 - 1 : x[l] = y[l]) <=> x[1] = y[1]
        /\ (\A l \in 1 .. 3 - 1 : x[l] = y[l]) <=> x[1] = y[1] /\ x[2] = y[2]
        /\ (\A l \in 1 .. 4 - 1 : x[l] = y[l]) <=> x[1] = y[1] /\ x[2] = y[2] /\ x[3] = y[3]
    BY <2>1
  <2>4. QED
    BY <2>2, <2>3
<1>4. QED
  BY <1>1, <1>2, <1>3

\* The order is strict and total.
LEMMA RowsSorted ==
  ASSUME NEW rows, RowsTyped(rows), NEW i \in DOMAIN rows, NEW j \in DOMAIN rows
  PROVE  /\ ~Precedes(WriteOrder(rows, i), WriteOrder(rows, i))
         /\ i # j => Precedes(WriteOrder(rows, i), WriteOrder(rows, j))
                     \/ Precedes(WriteOrder(rows, j), WriteOrder(rows, i))
         /\ \A k \in DOMAIN rows :
               Precedes(WriteOrder(rows, k), WriteOrder(rows, i))
               /\ Precedes(WriteOrder(rows, i), WriteOrder(rows, j)) =>
                  Precedes(WriteOrder(rows, k), WriteOrder(rows, j))
<1>1. \A k \in DOMAIN rows : /\ rows[k].index \in Nat /\ rows[k].goid \in Nat /\ rows[k].record \in Nat
                             /\ k \in Nat
  <2>1. PICK n \in Nat : DOMAIN rows = 1 .. n /\ \A k \in 1 .. n : RowTyped(rows[k])
    BY DEF RowsTyped
  <2>2. \A k \in 1 .. n : rows[k].index \in Nat /\ rows[k].goid \in Nat /\ rows[k].record \in Nat
    BY <2>1 DEF RowTyped
  <2>3. \A k \in 1 .. n : k \in Nat
    OBVIOUS
  <2>4. QED
    BY <2>1, <2>2, <2>3
<1>2. PICK x, g, r : /\ x = [k \in DOMAIN rows |-> rows[k].index]
                     /\ g = [k \in DOMAIN rows |-> rows[k].goid]
                     /\ r = [k \in DOMAIN rows |-> rows[k].record]
  OBVIOUS
<1>3. \A k \in DOMAIN rows : x[k] \in Nat /\ g[k] \in Nat /\ r[k] \in Nat /\ k \in Nat
  BY <1>1, <1>2
<1>4. \A k, l \in DOMAIN rows : Precedes(WriteOrder(rows, k), WriteOrder(rows, l)) <=>
           \/ x[k] < x[l]
           \/ /\ x[k] = x[l]
              /\ \/ g[k] < g[l]
                 \/ g[k] = g[l] /\ (r[k] < r[l] \/ (r[k] = r[l] /\ k < l))
  <2>1. ASSUME NEW k \in DOMAIN rows, NEW l \in DOMAIN rows
        PROVE  Precedes(WriteOrder(rows, k), WriteOrder(rows, l)) <=>
                 \/ x[k] < x[l]
                 \/ /\ x[k] = x[l]
                    /\ \/ g[k] < g[l]
                       \/ g[k] = g[l] /\ (r[k] < r[l] \/ (r[k] = r[l] /\ k < l))
    BY <1>2, PrecedesOfFour
  <2>2. QED
    BY <2>1
<1>5. ~Precedes(WriteOrder(rows, i), WriteOrder(rows, i))
  BY <1>3, <1>4
<1>6. i # j => Precedes(WriteOrder(rows, i), WriteOrder(rows, j))
               \/ Precedes(WriteOrder(rows, j), WriteOrder(rows, i))
  BY <1>3, <1>4
<1>7. ASSUME NEW k \in DOMAIN rows, Precedes(WriteOrder(rows, k), WriteOrder(rows, i)),
             Precedes(WriteOrder(rows, i), WriteOrder(rows, j))
      PROVE  Precedes(WriteOrder(rows, k), WriteOrder(rows, j))
  BY <1>3, <1>4, <1>7
<1>8. QED
  BY <1>5, <1>6, <1>7

\* Row numbers count up in the order of the rows.
LEMMA RowsCountUp ==
  ASSUME NEW rows, RowsTyped(rows), NEW i \in DOMAIN rows
  PROVE  /\ RowOf(rows, i) \in Nat /\ IsFiniteSet(EarlierRows(rows, i)) /\ SegmentId(rows, i) \in Nat
         /\ \A j \in EarlierRows(rows, i) : RowOf(rows, j) < RowOf(rows, i)
<1>1. IsFiniteSet(DOMAIN rows)
  BY FiniteInterval DEF RowsTyped
<1>2. \A j : /\ EarlierRows(rows, j) \subseteq DOMAIN rows
             /\ \A k : k \in EarlierRows(rows, j) <=>
                   /\ k \in DOMAIN rows /\ rows[k].type = rows[j].type
                   /\ Precedes(WriteOrder(rows, k), WriteOrder(rows, j))
  BY DEF EarlierRows
<1>3. \A j : IsFiniteSet(EarlierRows(rows, j)) /\ RowOf(rows, j) \in Nat
  BY <1>1, <1>2, FS_Subset, FS_CardinalityType DEF RowOf
<1>4. SegmentId(rows, i) \in Nat
  <2>1. PICK f, T, L : /\ f = [j \in DOMAIN rows |-> rows[j].type]
                       /\ T = {rows[j].type : j \in DOMAIN rows}
                       /\ L = {t \in T : t < rows[i].type}
    OBVIOUS
  <2>2. \A t \in L : \E j \in DOMAIN rows : t = f[j]
    BY <2>1
  <2>3. IsFiniteSet(L)
    BY <1>1, <2>1, <2>2, FiniteImage
  <2>4. Cardinality(L) \in Nat
    BY <2>3, FS_CardinalityType
  <2>5. QED
    BY <2>1, <2>4 DEF SegmentId
<1>5. ASSUME NEW j \in EarlierRows(rows, i) PROVE RowOf(rows, j) < RowOf(rows, i)
  <2>1. PICK A, B : A = EarlierRows(rows, j) /\ B = EarlierRows(rows, i)
    OBVIOUS
  <2>2. /\ j \in DOMAIN rows /\ rows[j].type = rows[i].type
        /\ Precedes(WriteOrder(rows, j), WriteOrder(rows, i))
    BY <1>2, <1>5
  <2>3. A \subseteq B
    <3>1. ASSUME NEW k \in A PROVE k \in B
      <4>1. /\ k \in DOMAIN rows /\ rows[k].type = rows[j].type
            /\ Precedes(WriteOrder(rows, k), WriteOrder(rows, j))
        BY <1>2, <2>1, <3>1
      <4>2. Precedes(WriteOrder(rows, k), WriteOrder(rows, i))
        BY <2>2, <4>1, RowsSorted
      <4>3. QED
        BY <1>2, <2>1, <2>2, <4>1, <4>2
    <3>2. QED
      BY <3>1
  <2>4. j \notin A /\ j \in B
    BY <1>2, <1>5, <2>1, <2>2, RowsSorted
  <2>5. IsFiniteSet(A) /\ IsFiniteSet(B) /\ Cardinality(A) \in Nat /\ Cardinality(B) \in Nat
    BY <1>3, <2>1, FS_CardinalityType
  <2>6. Cardinality(A) <= Cardinality(B) /\ Cardinality(A) # Cardinality(B)
    BY <2>3, <2>4, <2>5, FS_Subset
  <2>7. QED
    BY <2>1, <2>5, <2>6 DEF RowOf
<1>6. QED
  BY <1>2, <1>3, <1>4, <1>5

\* The fields of a record that is written.
LEMMA WrittenFields ==
  ASSUME NEW rows, RowsTyped(rows), NEW i \in DOMAIN rows, NEW r, r = RecordOfRow(rows, i)
  PROVE  /\ RecordTyped(r) /\ r.type = rows[i].type /\ r.branch = 0 /\ r.goid = rows[i].goid
         /\ r.time = 0 /\ r.csn = RowOf(rows, i) /\ r.row = RowOf(rows, i)
         /\ r.segment = SegmentId(rows, i) /\ r.prev = PrevRef(rows, i)
<1>1. RowTyped(rows[i]) /\ RowOf(rows, i) \in Nat /\ SegmentId(rows, i) \in Nat
  BY RowsCountUp DEF RowsTyped
<1>2. PICK row, n, id, prev :
         row = rows[i] /\ n = RowOf(rows, i) /\ id = SegmentId(rows, i) /\ prev = PrevRef(rows, i)
  OBVIOUS
<1>3. r = [type |-> row.type, branch |-> 0, goid |-> row.goid, record |-> row.record,
           kind |-> row.kind, time |-> 0, csn |-> n, values |-> row.values,
           segment |-> id, row |-> n, prev |-> prev]
  BY <1>2 DEF RecordOfRow
<1>4. /\ r.type = row.type /\ r.branch = 0 /\ r.goid = row.goid /\ r.record = row.record
      /\ r.kind = row.kind /\ r.time = 0 /\ r.csn = n /\ r.values = row.values
      /\ r.segment = id /\ r.row = n /\ r.prev = prev
  BY <1>3
<1>5. RecordTyped(r)
  BY <1>1, <1>2, <1>4 DEF RecordTyped, RowTyped
<1>6. QED
  BY <1>2, <1>4, <1>5

\* The order of the rows of an object is that of its records.
LEMMA WrittenInOrder ==
  ASSUME NEW rows, RowsTyped(rows), NEW written, written = WrittenRecords(rows),
         NEW when, when = [r \in written |-> r.row]
  PROVE  InOrder(written, when)
<1>1. PICK f : f = [i \in DOMAIN rows |-> RecordOfRow(rows, i)]
  OBVIOUS
<1>2. /\ \A r \in written : \E i \in DOMAIN rows : r = f[i]
      /\ \A i \in DOMAIN rows : f[i] \in written
  BY <1>1 DEF WrittenRecords
<1>3. \A i \in DOMAIN rows :
         /\ RecordTyped(f[i]) /\ f[i].type = rows[i].type /\ f[i].branch = 0 /\ f[i].goid = rows[i].goid
         /\ f[i].time = 0 /\ f[i].csn = RowOf(rows, i) /\ f[i].row = RowOf(rows, i)
         /\ f[i].segment = SegmentId(rows, i) /\ f[i].prev = PrevRef(rows, i)
  BY <1>1, WrittenFields
<1>4. IsFiniteSet(written)
  <2>1. IsFiniteSet(DOMAIN rows)
    BY FiniteInterval DEF RowsTyped
  <2>2. QED
    BY <1>1, <1>2, <2>1, FiniteImage
<1>5. \A i \in DOMAIN rows : when[f[i]] = RowOf(rows, i) /\ RowOf(rows, i) \in Nat
  BY <1>2, <1>3, RowsCountUp
<1>6. \A r \in written : RecordTyped(r) /\ when[r] \in Nat
  BY <1>2, <1>3, <1>5
<1>7. \A i, j \in DOMAIN rows : Chain(f[i]) = Chain(f[j]) <=>
                                   rows[i].type = rows[j].type /\ rows[i].goid = rows[j].goid
  <2>1. ASSUME NEW i \in DOMAIN rows, NEW j \in DOMAIN rows
        PROVE  Chain(f[i]) = Chain(f[j]) <=> rows[i].type = rows[j].type /\ rows[i].goid = rows[j].goid
    <3>1. PICK x, y : x = f[i] /\ y = f[j]
      OBVIOUS
    <3>2. Chain(x) = Chain(y) <=> x.type = y.type /\ x.branch = y.branch /\ x.goid = y.goid
      BY DEF Chain
    <3>3. QED
      BY <1>3, <3>1, <3>2
  <2>2. QED
    BY <2>1
\* Of two rows of a type one is earlier.
<1>8. \A i, j \in DOMAIN rows : rows[i].type = rows[j].type /\ i # j =>
         i \in EarlierRows(rows, j) \/ j \in EarlierRows(rows, i)
  BY RowsSorted DEF EarlierRows
<1>9. ASSUME NEW r \in written, NEW s \in written, Chain(r) = Chain(s), r # s
      PROVE  \/ when[r] < when[s] /\ r.time <= s.time /\ r.csn < s.csn
             \/ when[s] < when[r] /\ s.time <= r.time /\ s.csn < r.csn
  <2>1. PICK i \in DOMAIN rows, j \in DOMAIN rows : r = f[i] /\ s = f[j]
    BY <1>2
  <2>2. i # j /\ rows[i].type = rows[j].type
    BY <1>7, <1>9, <2>1
  <2>3. RowOf(rows, i) < RowOf(rows, j) \/ RowOf(rows, j) < RowOf(rows, i)
    BY <1>8, <2>2, RowsCountUp
  <2>4. /\ when[r] = RowOf(rows, i) /\ r.csn = RowOf(rows, i) /\ r.time = 0
        /\ when[s] = RowOf(rows, j) /\ s.csn = RowOf(rows, j) /\ s.time = 0
    BY <1>3, <1>5, <2>1
  <2>5. QED
    BY <2>3, <2>4
<1>10. ASSUME NEW r \in written, r.prev # NoRef
       PROVE  \E p \in written : /\ Chain(p) = Chain(r) /\ when[p] < when[r] /\ SamePlace(r.prev, p)
                                 /\ \A s \in written : Chain(s) = Chain(r) /\ when[s] < when[r] =>
                                       when[s] <= when[p]
  <2>1. PICK i \in DOMAIN rows : r = f[i]
    BY <1>2
  <2>2. PICK E, g, N : /\ E = {j \in EarlierRows(rows, i) : rows[j].goid = rows[i].goid}
                       /\ g = [j \in E |-> RowOf(rows, j)]
                       /\ N = {g[j] : j \in E}
    OBVIOUS
  <2>3. N = {RowOf(rows, j) : j \in E}
    BY <2>2
  <2>4. E # {} /\ r.prev = [segment |-> SegmentId(rows, i), row |-> Max(N), target |-> 0]
    BY <1>3, <1>10, <2>1, <2>2, <2>3 DEF PrevRef
  <2>5. \A j \in E : j \in DOMAIN rows /\ j \in EarlierRows(rows, i) /\ rows[j].type = rows[i].type
                     /\ rows[j].goid = rows[i].goid
    BY <2>2 DEF EarlierRows
  <2>6. IsFiniteSet(E)
    <3>1. IsFiniteSet(EarlierRows(rows, i))
      BY RowsCountUp
    <3>2. QED
      BY <2>2, <3>1, FS_Subset
  <2>7. IsFiniteSet(N) /\ N # {} /\ N \subseteq Int
    <3>1. DOMAIN g = E /\ \A j \in E : g[j] \in Nat
      BY <1>5, <2>2, <2>5
    <3>2. IsFiniteSet({g[j] : j \in E})
      BY <2>6, <3>1, FiniteRange
    <3>3. QED
      BY <2>2, <2>4, <3>1, <3>2
  <2>8. PICK n : n = Max(N)
    OBVIOUS
  <2>9. n \in N /\ \A m \in N : m <= n
    BY <2>7, <2>8, GreatestMember
  <2>10. PICK j \in E : n = RowOf(rows, j)
    BY <2>2, <2>9
  <2>11. j \in DOMAIN rows /\ RowOf(rows, j) < RowOf(rows, i) /\ SegmentId(rows, j) = SegmentId(rows, i)
    BY <2>5, <2>10, RowsCountUp DEF SegmentId
  <2>12. f[j] \in written /\ Chain(f[j]) = Chain(r) /\ when[f[j]] < when[r]
    BY <1>2, <1>5, <1>7, <2>1, <2>5, <2>11
  <2>13. SamePlace(r.prev, f[j])
    BY <1>3, <2>4, <2>8, <2>10, <2>11 DEF SamePlace
  <2>14. ASSUME NEW s \in written, Chain(s) = Chain(r), when[s] < when[r] PROVE when[s] <= when[f[j]]
    <3>1. PICK k \in DOMAIN rows : s = f[k]
      BY <1>2
    <3>2. rows[k].type = rows[i].type /\ rows[k].goid = rows[i].goid
      BY <1>7, <2>1, <2>14, <3>1
    <3>3. RowOf(rows, k) < RowOf(rows, i) /\ RowOf(rows, k) \in Nat /\ RowOf(rows, i) \in Nat
      BY <1>5, <2>1, <2>14, <3>1
    <3>4. k # i /\ i \notin EarlierRows(rows, k)
      <4>1. i \in EarlierRows(rows, k) => RowOf(rows, i) < RowOf(rows, k)
        BY RowsCountUp
      <4>2. QED
        BY <3>3, <4>1
    <3>5. k \in E
      BY <1>8, <2>2, <3>2, <3>4
    <3>6. RowOf(rows, k) <= n
      BY <2>2, <2>9, <3>5
    <3>7. QED
      BY <1>5, <2>10, <2>11, <3>1, <3>6
  <2>15. QED
    BY <2>12, <2>13, <2>14
<1>11. QED
  BY <1>4, <1>6, <1>9, <1>10 DEF InOrder

\* Settling conflicts changes values only.
LEMMA SettledRows ==
  ASSUME NEW rows \in SourceRowLists
  PROVE  RowsTyped(Settle(rows))
<1>1. PICK S : S = {row \in Range(rows) : SourceRowTyped(row)}
  OBVIOUS
<1>2. rows \in Seq(S)
  BY <1>1, HistoryAssumption
<1>3. PICK n \in Nat : DOMAIN rows = 1 .. n /\ \A i \in 1 .. n : rows[i] \in S
  BY <1>2
<1>4. \A i \in 1 .. n : SourceRowTyped(rows[i])
  BY <1>1, <1>3
<1>5. PICK after : after = Settle(rows)
  OBVIOUS
<1>6. DOMAIN after = 1 .. n
  BY <1>3, <1>5 DEF Settle
<1>7. ASSUME NEW i \in 1 .. n PROVE RowTyped(after[i])
  <2>1. PICK row, values :
          /\ row = rows[i]
          /\ values = [p \in Properties |->
                         IF policy = "reject" \/ Wins(rows, i, p) THEN rows[i].values[p] ELSE NullValue]
    OBVIOUS
  <2>2. DOMAIN row = {"type", "goid", "source", "index", "record", "kind", "values"}
        /\ {row.type, row.goid, row.source, row.index, row.record} \subseteq Nat /\ row.kind \in RecordKinds
    BY <1>4, <2>1 DEF SourceRowTyped
  <2>3. after[i] = [row EXCEPT !.values = values]
    BY <1>3, <1>5, <2>1 DEF Settle
  <2>4. PICK x : x = after[i]
    OBVIOUS
  <2>5. x.type = row.type /\ x.goid = row.goid /\ x.index = row.index /\ x.record = row.record
        /\ x.kind = row.kind /\ x.values = values
    BY <2>2, <2>3, <2>4
  <2>6. DOMAIN values = Properties /\ values = [p \in DOMAIN values |-> values[p]]
    BY <2>1
  <2>7. QED
    BY <2>2, <2>4, <2>5, <2>6 DEF RowTyped
<1>8. QED
  BY <1>5, <1>6, <1>7 DEF RowsTyped

\* A file without records.
LEMMA NothingInOrder == InOrder({}, <<>>)
<1>1. IsFiniteSet({}) /\ DOMAIN <<>> = {}
  BY FS_EmptySet
<1>2. QED
  BY <1>1 DEF InOrder

------------------------------------------------------------------------------
(* Every step                                                                *)

\* The file is in order, and what was read at the cut is what its commits say.
HistoryInv ==
    /\ policy \in {"reject", "priority"} /\ batch \in Seq(SourceRowLists) /\ cut \in Cuts
    /\ stage \in {"idle", "convert", "written", "open", "read", "projected", "closed"}
    /\ RecordsInv
    /\ stage \in {"read", "projected"} => states = ObjectsAt(cut)
    /\ ProjectionAgrees

\* The objects are a matter of the file and the cut.
LEMMA ObjectsStay ==
  ASSUME records' = records, history' = history, NEW c, cut' = c
  PROVE  ObjectsAt(cut)' = ObjectsAt(c)
<1>1. \A T : FirstOf(T)' = FirstOf(T) /\ LastOf(T)' = LastOf(T)
  BY DEF FirstOf, LastOf
<1>2. \A T : Base(T)' = Base(T)
  BY <1>1 DEF Base, Full
<1>3. \A T, p : Givers(T, p)' = Givers(T, p)
  BY <1>2 DEF Givers
<1>4. \A chain, T : ObjectOf(chain, T)' = ObjectOf(chain, T)
  BY <1>1, <1>3 DEF ObjectOf, RefTo
<1>5. Chains(cut)' = Chains(c) /\ \A chain : RecordsOf(chain, cut)' = RecordsOf(chain, c)
  BY DEF Chains, RecordsOf, VisibleAt, Chain
<1>6. QED
  BY <1>4, <1>5 DEF ObjectsAt

\* Before a conversion there is no file; another writer's is in order.
LEMMA HistoryStarts == HistoryInit => HistoryInv
<1> SUFFICES ASSUME HistoryInit PROVE HistoryInv
  OBVIOUS
<1>1. Latest \in Cuts
  BY DEF Cuts
<1>2. CASE stage = "convert"
  <2>1. records = {} /\ history = <<>> /\ cut = Latest
    BY <1>2 DEF HistoryInit, NothingRead
  <2>2. PICK conversion \in SourceLists : policy = conversion.policy /\ batch = conversion.batch
    BY <1>2 DEF HistoryInit
  <2>3. policy \in {"reject", "priority"} /\ batch \in Seq(SourceRowLists)
    BY <2>2, HistoryAssumption
  <2>4. RecordsInv
    BY <2>1, NothingInOrder DEF RecordsInv
  <2>5. QED
    BY <1>1, <1>2, <2>1, <2>3, <2>4 DEF HistoryInv, ProjectionAgrees
<1>3. CASE stage = "written"
  <2>1. PICK commits \in CommitLists :
          records = Committed(commits) /\ history = [r \in Committed(commits) |-> r.record]
    BY <1>3 DEF HistoryInit
  <2>2. cut = Latest /\ policy = "reject" /\ batch = <<>>
    BY <1>3 DEF HistoryInit, NothingRead
  <2>3. CommitsTyped(commits)
    BY HistoryAssumption
  <2>4. RecordsInv
    BY <2>1, <2>3, CommitsInOrder DEF RecordsInv
  <2>5. batch \in Seq(SourceRowLists)
    BY <2>2
  <2>6. QED
    BY <1>1, <1>3, <2>2, <2>4, <2>5 DEF HistoryInv, ProjectionAgrees
<1>4. QED
  BY <1>2, <1>3 DEF HistoryInit

\* What is left to convert.
LEMMA BatchTail ==
  ASSUME batch \in Seq(SourceRowLists), batch # <<>>
  PROVE  Head(batch) \in SourceRowLists /\ Tail(batch) \in Seq(SourceRowLists)
OBVIOUS

\* The converter writes a file in order.
LEMMA ConvertKeepsInv == HistoryInv /\ Convert => HistoryInv'
<1> SUFFICES ASSUME HistoryInv, Convert PROVE HistoryInv'
  OBVIOUS
<1>1. PICK rows, written, when :
        /\ rows = Settle(Head(batch)) /\ written = WrittenRecords(rows) /\ when = [r \in written |-> r.row]
        /\ records' = written /\ history' = when
  BY DEF Convert
<1>2. Head(batch) \in SourceRowLists /\ batch' \in Seq(SourceRowLists)
  BY BatchTail DEF HistoryInv, Convert
<1>3. RowsTyped(rows)
  BY <1>1, <1>2, SettledRows
<1>4. InOrder(written, when)
  BY <1>1, <1>3, WrittenInOrder
<1>5. RecordsInv'
  BY <1>1, <1>4 DEF RecordsInv
<1>6. stage' = "written" /\ policy' = policy /\ cut' = cut
  BY DEF Convert
<1>7. Cuts' = Cuts /\ SourceRowLists' = SourceRowLists
  OBVIOUS
<1>8. QED
  BY <1>2, <1>5, <1>6, <1>7 DEF HistoryInv, ProjectionAgrees

\* The file stays, and no objects are read.
LEMMA FileStays ==
  ASSUME HistoryInv, UNCHANGED <<policy, records, history, cut>>, batch' \in Seq(SourceRowLists),
         stage' \in {"convert", "open", "closed"}
  PROVE  HistoryInv'
<1>1. RecordsInv'
  BY DEF HistoryInv, RecordsInv
<1>2. QED
  BY <1>1 DEF HistoryInv, ProjectionAgrees

\* What is read is what the commits say.
LEMMA ReconstructKeepsInv == HistoryInv /\ ReconstructObjects => HistoryInv'
<1> SUFFICES ASSUME HistoryInv, ReconstructObjects PROVE HistoryInv'
  OBVIOUS
<1>1. PICK c \in Cuts : cut' = c /\ states' = Reconstructed(c)
  BY DEF ReconstructObjects
<1>2. records' = records /\ history' = history /\ policy' = policy /\ batch' = batch /\ stage' = "read"
  BY DEF ReconstructObjects
<1>3. RecordsInv /\ RecordsInv'
  BY <1>2 DEF HistoryInv, RecordsInv
<1>4. states' = ObjectsAt(c)
  BY <1>1, <1>3, ObjectsRight
<1>5. ObjectsAt(cut)' = ObjectsAt(c)
  BY <1>1, <1>2, ObjectsStay
<1>6. QED
  BY <1>1, <1>2, <1>3, <1>4, <1>5 DEF HistoryInv, ProjectionAgrees

\* The projection of it finds the same.
LEMMA ProjectKeepsInv == HistoryInv /\ Project => HistoryInv'
<1> SUFFICES ASSUME HistoryInv, Project PROVE HistoryInv'
  OBVIOUS
<1>1. PICK c \in Cuts : cut = c /\ cut' = c
  BY DEF HistoryInv, Project
<1>2. /\ records' = records /\ history' = history /\ policy' = policy /\ batch' = batch
      /\ stage' = "projected" /\ states' = states /\ projected' = Projected(c) /\ stage = "read"
  BY <1>1 DEF Project
<1>3. RecordsInv /\ RecordsInv'
  BY <1>2 DEF HistoryInv, RecordsInv
<1>4. states = ObjectsAt(c)
  BY <1>1, <1>2 DEF HistoryInv
<1>5. ObjectsAt(cut)' = ObjectsAt(c)
  BY <1>1, <1>2, ObjectsStay
<1>6. Dense => Projected(c) = Live(states)
  BY <1>3, <1>4, SameObjects DEF Projected
<1>7. Dense' = Dense /\ Live(states)' = Live(states)
  BY <1>2 DEF Dense, Live
<1>8. ProjectionAgrees'
  BY <1>2, <1>6, <1>7 DEF ProjectionAgrees
<1>9. QED
  BY <1>1, <1>2, <1>3, <1>4, <1>5, <1>8 DEF HistoryInv

\* The next conversion begins without a file.
LEMMA NextConversionKeepsInv == HistoryInv /\ NextConversion => HistoryInv'
<1> SUFFICES ASSUME HistoryInv, NextConversion PROVE HistoryInv'
  OBVIOUS
<1>1. /\ records' = {} /\ history' = <<>> /\ cut' = Latest /\ stage' = "convert"
      /\ policy' = policy /\ batch' = batch
  BY DEF NextConversion
<1>2. RecordsInv'
  BY <1>1, NothingInOrder DEF RecordsInv
<1>3. cut' \in Cuts
  BY <1>1 DEF Cuts
<1>4. QED
  BY <1>1, <1>2, <1>3 DEF HistoryInv, ProjectionAgrees

LEMMA HistoryStutters == HistoryInv /\ UNCHANGED historyVars => HistoryInv'
<1> SUFFICES ASSUME HistoryInv, UNCHANGED historyVars PROVE HistoryInv'
  OBVIOUS
<1>1. /\ records' = records /\ history' = history /\ policy' = policy /\ batch' = batch /\ cut' = cut
      /\ stage' = stage /\ states' = states /\ projected' = projected
  BY DEF historyVars
<1>2. RecordsInv'
  BY <1>1 DEF HistoryInv, RecordsInv
<1>3. PICK c : c = cut
  OBVIOUS
<1>4. ObjectsAt(cut)' = ObjectsAt(cut)
  <2>1. ObjectsAt(cut)' = ObjectsAt(c)
    BY <1>1, <1>3, ObjectsStay
  <2>2. QED
    BY <1>3, <2>1
<1>5. Dense' = Dense /\ Live(states)' = Live(states)
  BY <1>1 DEF Dense, Live
<1>6. ProjectionAgrees'
  BY <1>1, <1>5 DEF ProjectionAgrees, HistoryInv
<1>7. QED
  BY <1>1, <1>2, <1>4, <1>6 DEF HistoryInv

LEMMA HistorySteps == HistoryInv /\ [HistoryNext]_historyVars => HistoryInv'
<1> SUFFICES ASSUME HistoryInv, [HistoryNext]_historyVars PROVE HistoryInv'
  OBVIOUS
<1>1. CASE Convert
  BY <1>1, ConvertKeepsInv
<1>2. CASE RejectConversion
  <2>1. batch' \in Seq(SourceRowLists)
    BY <1>2, BatchTail DEF HistoryInv, RejectConversion
  <2>2. QED
    BY <1>2, <2>1, FileStays DEF RejectConversion
<1>3. CASE OpenFile
  <2>1. batch' \in Seq(SourceRowLists)
    BY <1>3 DEF HistoryInv, OpenFile
  <2>2. QED
    BY <1>3, <2>1, FileStays DEF OpenFile
<1>4. CASE RefuseFile
  <2>1. batch' \in Seq(SourceRowLists)
    BY <1>4 DEF HistoryInv, RefuseFile
  <2>2. QED
    BY <1>4, <2>1, FileStays DEF RefuseFile
<1>5. CASE ReconstructObjects
  BY <1>5, ReconstructKeepsInv
<1>6. CASE Project
  BY <1>6, ProjectKeepsInv
<1>7. CASE NextConversion
  BY <1>7, NextConversionKeepsInv
<1>8. CASE UNCHANGED historyVars
  BY <1>8, HistoryStutters
<1>9. QED
  BY <1>1, <1>2, <1>3, <1>4, <1>5, <1>6, <1>7, <1>8 DEF HistoryNext

LEMMA HistoryInvTyped == HistoryInv => HistoryTypeOK
  BY DEF HistoryInv, HistoryTypeOK, RecordsInv, InOrder, RecordTyped

\* The records of every file are records, each with its commit, and the reader
\* asks for a cut there is (the types of cove_o/readback.rs).
THEOREM HistoryTypesHold == HistorySpec => []HistoryTypeOK
  BY HistoryInvTyped, HistoryStarts, HistorySteps, PTL DEF HistorySpec

\* reconstruct_object_states (cove_o/readback.rs) never fails on a file that
\* passed validation, and gives every object as its records made it, in the
\* order of the commits: for every batch of source rows, every other writer
\* whose clock does not go back, however the records lie in segments, at every
\* cut.
THEOREM StatesAreTheirHistory == HistorySpec => []StateIsItsHistory
<1>1. HistoryInv => StateIsItsHistory
  BY DEF HistoryInv, StateIsItsHistory
<1>2. QED
  BY <1>1, HistoryStarts, HistorySteps, PTL DEF HistorySpec

\* reconstruct_projection_rows_at_cut (cove-map/src/project.rs), which replays
\* the records in its own way, finds the objects and the values the reader
\* finds, in every file whose segments have all columns.
THEOREM ProjectionsAgree == HistorySpec => []ProjectionAgrees
<1>1. HistoryInv => ProjectionAgrees
  BY DEF HistoryInv
<1>2. QED
  BY <1>1, HistoryStarts, HistorySteps, PTL DEF HistorySpec

------------------------------------------------------------------------------
(* The five parts beside each other                                         *)

FilterPart == NoQuery \/ (PruneInv /\ ExactInv)
AnswerPart == NoAggregate \/ AnswerInv
RangePart == NoRanges \/ RangeInv
IdentityPart == NoMapping \/ IdentityInv

\* Each part is as its own proof left it, or idle.
QueryInv == FilterPart /\ AnswerPart /\ RangePart /\ HistoryInv /\ IdentityPart

LEMMA FilterPartStep == FilterPart /\ [FilterNext]_filterVars => FilterPart'
<1> SUFFICES ASSUME FilterPart, [FilterNext]_filterVars PROVE FilterPart'
  OBVIOUS
<1>1. CASE NoQuery
  <2>1. ~FilterNext
    BY <1>1 DEF NoQuery, FilterNext, Scanning, FinishQuery, SkipMorsel, StartRows, SkipFilter,
         ApplyFilter, FailFilter, DeliverRows
  <2>2. QED
    BY <1>1, <2>1 DEF FilterPart, NoQuery, filterVars
<1>2. CASE PruneInv /\ ExactInv
  BY <1>2, PruneInvStep, ExactInvStep DEF FilterPart
<1>3. QED
  BY <1>1, <1>2 DEF FilterPart

LEMMA AnswerPartStep == AnswerPart /\ [AnswerNext]_answerVars => AnswerPart'
<1> SUFFICES ASSUME AnswerPart, [AnswerNext]_answerVars PROVE AnswerPart'
  OBVIOUS
<1>1. CASE NoAggregate
  <2>1. reply # "asking"
    BY <1>1 DEF NoAggregate
  <2>2. ~IndexAsked /\ ~IsValue /\ \A t : ~Asking(t)
    BY <2>1 DEF IndexAsked, IsValue, Asking
  <2>3. ~AnswerNext
    BY <2>1, <2>2 DEF AnswerNext, LeaveToScan, CountFile, CannotCount, CountByHistogram, CountByLookup,
         GroupByHistogram, GroupByLookup, TryLookups, NoLookups, CountByIndex, DistinctByIndex,
         ExtremesByIndex, UnreadableExtremes, NotInIndex, InexactIndex, AddFile, NoEntries,
         ValueIncomplete, SumOverflows, AnswerValue, AnswerCount
  <2>4. QED
    BY <1>1, <2>3 DEF AnswerPart, NoAggregate, answerVars
<1>2. CASE AnswerInv
  BY <1>2, AnswerInvStep DEF AnswerPart
<1>3. QED
  BY <1>1, <1>2 DEF AnswerPart

LEMMA RangePartStep == RangePart /\ [RangeNext]_rangeVars => RangePart'
<1> SUFFICES ASSUME RangePart, [RangeNext]_rangeVars PROVE RangePart'
  OBVIOUS
<1>1. CASE NoRanges
  <2>1. ~RangeNext
    BY <1>1 DEF NoRanges, RangeNext, RejectRange, ForgetLayout, JoinRead, StartRead, SliceReads, Grouping
  <2>2. QED
    BY <1>1, <2>1 DEF RangePart, NoRanges, rangeVars
<1>2. CASE RangeInv
  BY <1>2, RangeInvStep DEF RangePart
<1>3. QED
  BY <1>1, <1>2 DEF RangePart

LEMMA IdentityPartStep == IdentityPart /\ [IdentityNext]_identityVars => IdentityPart'
<1> SUFFICES ASSUME IdentityPart, [IdentityNext]_identityVars PROVE IdentityPart'
  OBVIOUS
<1>1. CASE NoMapping
  <2>1. ~IdentityNext
    BY <1>1 DEF NoMapping, IdentityNext, SourceGrows, StartConversion, CheckInputs, PlanIdentities,
         MaterializeAssociations, RefuseConversion
  <2>2. QED
    BY <1>1, <2>1 DEF IdentityPart, NoMapping, identityVars
<1>2. CASE IdentityInv
  BY <1>2, IdentitySteps DEF IdentityPart
<1>3. QED
  BY <1>1, <1>2 DEF IdentityPart

\* No objects are read before there is a file.
LEMMA NoHistoryStarts == NoHistory => HistoryInv
<1> SUFFICES ASSUME NoHistory PROVE HistoryInv
  OBVIOUS
<1>1. records = {} /\ history = <<>> /\ cut \in Cuts /\ batch \in Seq(SourceRowLists)
  BY DEF NoHistory, Cuts
<1>2. RecordsInv
  BY <1>1, NothingInOrder DEF RecordsInv
<1>3. QED
  BY <1>1, <1>2 DEF NoHistory, HistoryInv, ProjectionAgrees

LEMMA QueryStarts == Init => QueryInv
<1>1. FilterInit => FilterPart
  BY PruneInvInit, ExactInvInit DEF FilterPart
<1>2. AnswerInit => AnswerPart
  BY AnswerInvInit DEF AnswerPart
<1>3. RangeInit => RangePart
  BY RangeInvInit DEF RangePart
<1>4. HistoryInit \/ NoHistory => HistoryInv
  BY HistoryStarts, NoHistoryStarts
<1>5. IdentityInit => IdentityPart
  BY IdentityStarts DEF IdentityPart
<1>6. /\ NoQuery => FilterPart
      /\ NoAggregate => AnswerPart
      /\ NoRanges => RangePart
      /\ NoMapping => IdentityPart
  BY DEF FilterPart, AnswerPart, RangePart, IdentityPart
<1>7. QED
  BY <1>1, <1>2, <1>3, <1>4, <1>5, <1>6 DEF Init, QueryInv

LEMMA QuerySteps == QueryInv /\ [Next]_vars => QueryInv'
<1> SUFFICES ASSUME QueryInv, [Next]_vars PROVE QueryInv'
  OBVIOUS
<1>1. /\ [FilterNext]_filterVars /\ [AnswerNext]_answerVars /\ [RangeNext]_rangeVars
      /\ [HistoryNext]_historyVars /\ [IdentityNext]_identityVars
  BY DEF Next, vars
<1>2. QED
  BY <1>1, FilterPartStep, AnswerPartStep, RangePartStep, HistorySteps, IdentityPartStep DEF QueryInv

\* What holds of an idle part, holds of it as its own proof left it too.
LEMMA FilterPartRight ==
  ASSUME FilterPart
  PROVE  FilterTypeOK /\ (~ZonesMisread => IntegerAnswersExact /\ SkippedHoldNothing)
<1>1. CASE NoQuery
  <2>1. meta \in MetaShape
    BY <1>1, QueriesTyped DEF NoQuery
  <2>2. FilterTypeOK
    BY <1>1, <2>1, Places DEF NoQuery, FilterTypeOK
  <2>3. QED
    BY <1>1, <2>2 DEF NoQuery, IntegerAnswersExact, AnswersUnchanged, SkippedHoldNothing
<1>2. CASE PruneInv /\ ExactInv
  BY <1>2, ExactlyWanted DEF PruneInv, TypeInv
<1>3. QED
  BY <1>1, <1>2 DEF FilterPart

LEMMA AnswerPartRight ==
  ASSUME AnswerPart
  PROVE  AnswerTypeOK /\ MetadataCountsExact /\ MetadataValuesExact
  BY DEF AnswerPart, NoAggregate, AnswerInv, AskedInv, AnswerTypeOK, MetadataCountsExact, MetadataValuesExact

LEMMA RangePartRight ==
  ASSUME RangePart
  PROVE  RangeTypeOK /\ OwnBytes /\ ReadsBounded
<1>1. CASE NoRanges
  <2>1. groups = <<>> /\ DOMAIN groups = {} /\ planning = "idle" /\ byLayout = FALSE
    BY <1>1 DEF NoRanges
  <2>2. Grouped = {}
    BY <2>1 DEF Grouped
  <2>3. QED
    BY <2>1, <2>2 DEF RangeTypeOK, OwnBytes, ReadsBounded
<1>2. CASE RangeInv
  BY <1>2, ReadsAreBounded, RangeInvTyped DEF RangeInv
<1>3. QED
  BY <1>1, <1>2 DEF RangePart

LEMMA IdentityPartRight ==
  ASSUME IdentityPart
  PROVE  IdentityTypeOK /\ IdentitiesDeterministic
<1>1. CASE NoMapping
  BY <1>1 DEF NoMapping, IdentityTypeOK, IdentitiesDeterministic
<1>2. CASE IdentityInv
  BY <1>2, RightIsDeterministic, IdentityInvTyped
<1>3. QED
  BY <1>1, <1>2 DEF IdentityPart

\* All of it together: a query answered by the scan, from metadata or from the
\* pages it reads, objects read back, and conversions keep to their types and
\* to what is proved of each, whichever of them a program runs (the crates
\* cove-datafusion, cove-index and cove-map share no state).
THEOREM EveryAnswerRight ==
  MCSpec => [](/\ TypeOK
               /\ ~ZonesMisread => IntegerAnswersExact /\ SkippedHoldNothing
               /\ MetadataCountsExact /\ MetadataValuesExact
               /\ OwnBytes /\ ReadsBounded
               /\ StateIsItsHistory /\ ProjectionAgrees
               /\ IdentitiesDeterministic)
<1> DEFINE Right == /\ TypeOK
                    /\ ~ZonesMisread => IntegerAnswersExact /\ SkippedHoldNothing
                    /\ MetadataCountsExact /\ MetadataValuesExact
                    /\ OwnBytes /\ ReadsBounded
                    /\ StateIsItsHistory /\ ProjectionAgrees
                    /\ IdentitiesDeterministic
<1>1. QueryInv => Right
  <2> SUFFICES ASSUME QueryInv PROVE Right
    OBVIOUS
  <2>1. HistoryTypeOK /\ StateIsItsHistory /\ ProjectionAgrees
    BY HistoryInvTyped DEF QueryInv, HistoryInv, StateIsItsHistory
  <2>2. QED
    BY <2>1, FilterPartRight, AnswerPartRight, RangePartRight, IdentityPartRight DEF QueryInv, TypeOK
<1>2. QED
  BY <1>1, QueryStarts, QuerySteps, PTL DEF MCSpec

================================================================================
