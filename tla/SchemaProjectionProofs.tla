----------------------- MODULE SchemaProjectionProofs -----------------------
(***************************************************************************)
(* P6 (ProjectionComplete) for every set of users, requests, access sets  *)
(* and schemas, from the registry interface of spec section 4 (line 186): *)
(* a schema of c.schemas comes with empty resourceMethods and             *)
(* collectionMethods slots, which schemasForSubject fills.                *)
(*                                                                         *)
(* ProjectionComplete speaks of idle requests only, and what an idle       *)
(* request returns was computed, by it or by another user's request,       *)
(* possibly many steps earlier.  The inductive invariant says that every   *)
(* projection in the cache or held by a request is complete, and that the *)
(* write of line 132 never touched a schema other than namespaces, so     *)
(* every later projection starts from empty slots again.                   *)
(***************************************************************************)
EXTENDS SchemaCollectionProofs, SequenceTheorems

\* The schemas P6 speaks of: with a group/resource, other than namespaces.
Governed(s) == GR(s).resource # "" /\ ~IsNamespacesSchema(s)

\* The registry hands schemasForSubject schemas with empty method slots.
EmptySlots ==
    \A s \in SchemaIds : Governed(s) =>
        SchemaDefs[s].coll = <<>> /\ SchemaDefs[s].res = <<>>

\* P6 for one projection p (the body of ProjectionComplete).
Complete(p) ==
    \A s \in SchemaIds : Governed(s) =>
      /\ (s \in DOMAIN p.schemas) <=> Has(p.for, s, MethodVerbs)
      /\ s \in DOMAIN p.schemas =>
           /\ SeqSet(p.schemas[s].coll) = RefColl(p.for, s)
           /\ SeqSet(p.schemas[s].res) = RefRes(p.for, s)

\* Line 132 writes only the namespaces schema: every other shared schema
\* keeps the methods the registry gave it.
RegistryFixed ==
    \A s \in SchemaIds : Governed(s) => registry[s] = SchemaDefs[s].coll

\* Every projection in c.cache is complete.
CacheComplete == \A f \in AccessSets : cache[f] # None => Complete(cache[f])

\* Every projection a request holds is complete.
HeldComplete == \A r \in Reqs : rres[r] # None => Complete(rres[r])

ProjInv == RegistryFixed /\ CacheComplete /\ HeldComplete

-----------------------------------------------------------------------------
(***************************************************************************)
(* Lemmas on method lists.                                                 *)
(***************************************************************************)
\* The methods a list holds are its range.
LEMMA SeqSetRange == ASSUME NEW q PROVE SeqSet(q) = Range(q)
BY DEF SeqSet, Range

\* A list of methods appended under a condition (Opt) adds its methods
\* when the condition holds, and nothing otherwise.
LEMMA SeqSetOpt ==
    ASSUME NEW S, NEW q \in Seq(S), NEW t \in Seq(S), NEW b \in BOOLEAN
    PROVE  /\ q \o Opt(b, t) \in Seq(S)
           /\ SeqSet(q \o Opt(b, t)) = SeqSet(q) \cup (IF b THEN SeqSet(t) ELSE {})
           /\ q \o Opt(b, t) = <<>> <=> q = <<>> /\ (b => t = <<>>)
<1>1. Opt(b, t) \in Seq(S) /\ SeqSet(Opt(b, t)) = IF b THEN SeqSet(t) ELSE {}
  BY DEF Opt, SeqSet
<1>2. Opt(b, t) = <<>> <=> (b => t = <<>>)
  BY DEF Opt
<1>3. QED
  BY <1>1, <1>2, ConcatProperties, ConcatEqualIffEmpty, RangeConcatenation,
     SeqSetRange

\* The one- and two-element method lists of lines 148-162.
LEMMA SeqSetTuple ==
    ASSUME NEW S, NEW x \in S, NEW y \in S
    PROVE  /\ <<x>> \in Seq(S) /\ <<x, y>> \in Seq(S)
           /\ SeqSet(<<x>>) = {x} /\ SeqSet(<<x, y>>) = {x, y}
           /\ <<x>> # <<>> /\ <<x, y>> # <<>>
BY DEF SeqSet

-----------------------------------------------------------------------------
(***************************************************************************)
(* Lemmas on the projector for a schema P6 governs.                        *)
(***************************************************************************)
\* The namespace rule of lines 119-135 never applies to such a schema:
\* its verbAccess is the direct one and line 132 leaves it alone.
LEMMA NoSynth ==
    ASSUME NEW a, NEW s, Governed(s)
    PROVE  /\ VerbAccess(a, s) = DirectAccess(a, s)
           /\ \A c : SharedColl(a, s, c) = c
BY Zenon DEF Governed, NamespaceSynth, IsNamespacesSchema, VerbAccess, SharedColl

\* verbAccess.AnyVerb(vs) after the trim of lines 104-113 holds iff the
\* access set has a grant with a verb of vs that counts for s.
LEMMA AnyVerbHas ==
    ASSUME NEW a, NEW s, NEW vs
    PROVE  AnyVerb(DirectAccess(a, s), vs) <=> Has(a, s, vs)
<1>1. ASSUME NEW v
      PROVE  VerbList(a, s, v) # {} <=>
               \E g \in a.grants : /\ g.verb = v /\ g.group = GR(s).group
                                   /\ g.resource = GR(s).resource
                                   /\ IF SchemaDefs[s].namespaced THEN TRUE
                                      ELSE g.ns = All
  <2>1. CASE SchemaDefs[s].namespaced
    BY <2>1 DEF VerbList, AccessListFor
  <2>2. CASE ~SchemaDefs[s].namespaced
    <3> DEFINE G == {x \in a.grants : x.verb = v /\ x.group = GR(s).group
                                     /\ x.resource = GR(s).resource}
               Acc(g) == [ns |-> g.ns, name |-> g.name]
    <3>1. VerbList(a, s, v) = {x \in {Acc(g) : g \in G} : x.ns = All}
      BY <2>2 DEF VerbList, AccessListFor
    <3>2. \A g : Acc(g).ns = g.ns
      OBVIOUS
    <3> HIDE DEF Acc, G
    <3>3. {x \in {Acc(g) : g \in G} : x.ns = All} # {} <=> \E g \in G : g.ns = All
      BY <3>2, Zenon
    <3>4. QED
      BY <2>2, <3>1, <3>3 DEF G
  <2>3. QED
    BY <2>1, <2>2
<1>2. AnyVerb(DirectAccess(a, s), vs) <=>
        \E v \in vs \cap SchemaDefs[s].verbs : VerbList(a, s, v) # {}
  BY DEF AnyVerb, DirectAccess
<1>3. QED
  BY <1>1, <1>2 DEF Has, Effective

\* allowed(method) of lines 137-142 is the spec's method token.
LEMMA AllowedToken == ASSUME NEW s, NEW m PROVE Allowed(s, m) = Token(s, m)
BY DEF Allowed, Token

\* How schemasForSubject treats a schema P6 governs: it is listed iff its
\* projected method lists are not both empty, with those lists.
LEMMA ProjectGoverned ==
    ASSUME NEW a, NEW reg, NEW s \in SchemaIds, Governed(s)
    PROVE  /\ Project(a, reg).for = a
           /\ s \in DOMAIN Project(a, reg).schemas <=>
                ProjectedColl(a, s, reg[s]) # <<>> \/ ProjectedRes(a, s) # <<>>
           /\ s \in DOMAIN Project(a, reg).schemas =>
                Project(a, reg).schemas[s] =
                  [coll |-> ProjectedColl(a, s, reg[s]), res |-> ProjectedRes(a, s)]
BY Zenon DEF Project, Included, Governed

\* The spec's reference sets: a method token counted once when its verbs
\* are granted.
LEMMA RefOne ==
    ASSUME NEW s, NEW m, NEW b \in BOOLEAN
    PROVE  {Token(s, m) : i \in 1 .. (IF b THEN 1 ELSE 0)} = IF b THEN {Token(s, m)} ELSE {}
<1>1. CASE b
  <2>1. 1 .. (IF b THEN 1 ELSE 0) = {1}
    BY <1>1
  <2>2. QED
    BY <1>1, <2>1
<1>2. CASE ~b
  <2>1. 1 .. (IF b THEN 1 ELSE 0) = {}
    BY <1>2
  <2>2. QED
    BY <1>2, <2>1
<1>3. QED
  BY <1>1, <1>2

\* The tokens of methods Ms that RefRes counts when b holds.
PairImage(s, Ms, b) == {Token(s, p[1]) : p \in Ms \X {x \in {1} : b}}

LEMMA RefPair ==
    ASSUME NEW s, NEW Ms, NEW b \in BOOLEAN
    PROVE  PairImage(s, Ms, b) = IF b THEN {Token(s, m) : m \in Ms} ELSE {}
<1>1. CASE b
  <2>1. {x \in {1} : b} = {1}
    BY <1>1
  <2>2. \A p \in Ms \X {1} : p[1] \in Ms
    OBVIOUS
  <2>3. \A m \in Ms : <<m, 1>> \in Ms \X {1} /\ <<m, 1>>[1] = m
    OBVIOUS
  <2>4. {Token(s, p[1]) : p \in Ms \X {1}} = {Token(s, m) : m \in Ms}
    BY <2>2, <2>3, Zenon
  <2>5. QED
    BY <1>1, <2>1, <2>4 DEF PairImage
<1>2. CASE ~b
  <2>1. {x \in {1} : b} = {}
    BY <1>2
  <2>2. QED
    BY <1>2, <2>1 DEF PairImage
<1>3. QED
  BY <1>1, <1>2

\* For a schema P6 governs, with empty method slots, the methods lines
\* 147-163 add are exactly those of the verb-to-method table, and the
\* schema is kept at line 165 iff one was added.
LEMMA GovernedComplete ==
    ASSUME NEW a, NEW s \in SchemaIds, Governed(s),
           SchemaDefs[s].res = <<>>, NEW c, c = <<>>
    PROVE  /\ ProjectedColl(a, s, c) # <<>> \/ ProjectedRes(a, s) # <<>>
                <=> Has(a, s, MethodVerbs)
           /\ SeqSet(ProjectedColl(a, s, c)) = RefColl(a, s)
           /\ SeqSet(ProjectedRes(a, s)) = RefRes(a, s)
<1> DEFINE HG == Has(a, s, {"get", "list"})
           HC == Has(a, s, {"create"})
           HD == Has(a, s, {"delete"})
           HU == Has(a, s, {"update"})
           HP == Has(a, s, {"patch"})
           TG == Token(s, "GET")
           TPost == Token(s, "POST")
           TDel == Token(s, "DELETE")
           TPut == Token(s, "PUT")
           TPatch == Token(s, "PATCH")
           S == {TG, TPost, TDel, TPut, TPatch}
<1>1. /\ AnyVerb(VerbAccess(a, s), {"list", "get"}) <=> HG
      /\ AnyVerb(VerbAccess(a, s), {"create"}) <=> HC
      /\ AnyVerb(VerbAccess(a, s), {"delete"}) <=> HD
      /\ AnyVerb(VerbAccess(a, s), {"update"}) <=> HU
      /\ AnyVerb(VerbAccess(a, s), {"patch"}) <=> HP
  <2>1. {"list", "get"} = {"get", "list"}
    OBVIOUS
  <2>2. VerbAccess(a, s) = DirectAccess(a, s)
    BY NoSynth
  <2>3. \A vs : AnyVerb(DirectAccess(a, s), vs) <=> Has(a, s, vs)
    BY AnyVerbHas
  <2> HIDE DEF HG, HC, HD, HU, HP
  <2>4. QED
    BY <2>1, <2>2, <2>3 DEF HG, HC, HD, HU, HP
<1>2. ProjectedColl(a, s, c) = (c \o Opt(HG, <<TG>>)) \o Opt(HC, <<TPost>>)
  BY <1>1, NoSynth, AllowedToken DEF ProjectedColl, Opt
<1>3. ProjectedRes(a, s) =
        (((SchemaDefs[s].res \o Opt(HG, <<TG>>)) \o Opt(HD, <<TDel>>))
           \o Opt(HU, <<TPut, TPatch>>)) \o Opt(HP, <<TPatch>>)
  BY <1>1, AllowedToken DEF ProjectedRes, Opt
<1>6. Has(a, s, MethodVerbs) <=> HG \/ HC \/ HD \/ HU \/ HP
  BY DEF Has, MethodVerbs
<1>7. /\ HG \in BOOLEAN /\ HC \in BOOLEAN /\ HD \in BOOLEAN
      /\ HU \in BOOLEAN /\ HP \in BOOLEAN
  BY DEF Has
<1>4. RefColl(a, s) = (IF HG THEN {TG} ELSE {}) \cup (IF HC THEN {TPost} ELSE {})
  <2>1. RefColl(a, s) = {TG : i \in 1 .. (IF HG THEN 1 ELSE 0)}
                        \cup {TPost : i \in 1 .. (IF HC THEN 1 ELSE 0)}
    BY DEF RefColl
  <2> HIDE DEF HG, HC
  <2>2. QED
    BY <1>7, <2>1, RefOne
<1>5. RefRes(a, s) = (IF HG THEN {TG} ELSE {}) \cup (IF HD THEN {TDel} ELSE {})
                     \cup (IF HU THEN {TPut, TPatch} ELSE {})
                     \cup (IF HP THEN {TPatch} ELSE {})
  <2>1. RefRes(a, s) = PairImage(s, {"GET"}, HG) \cup PairImage(s, {"DELETE"}, HD)
                       \cup PairImage(s, {"PUT", "PATCH"}, HU)
                       \cup PairImage(s, {"PATCH"}, HP)
    BY DEF RefRes, PairImage
  <2>2. {Token(s, m) : m \in {"PUT", "PATCH"}} = {TPut, TPatch}
    OBVIOUS
  <2> HIDE DEF HG, HD, HU, HP
  <2>3. QED
    BY <1>7, <2>1, <2>2, RefPair
<1>8. /\ <<TG>> \in Seq(S) /\ <<TPost>> \in Seq(S) /\ <<TDel>> \in Seq(S)
      /\ <<TPatch>> \in Seq(S) /\ <<TPut, TPatch>> \in Seq(S)
      /\ SeqSet(<<TG>>) = {TG} /\ SeqSet(<<TPost>>) = {TPost}
      /\ SeqSet(<<TDel>>) = {TDel} /\ SeqSet(<<TPatch>>) = {TPatch}
      /\ SeqSet(<<TPut, TPatch>>) = {TPut, TPatch}
      /\ <<TG>> # <<>> /\ <<TPost>> # <<>> /\ <<TDel>> # <<>>
      /\ <<TPatch>> # <<>> /\ <<TPut, TPatch>> # <<>>
      /\ <<>> \in Seq(S) /\ SeqSet(<<>>) = {}
  BY SeqSetTuple DEF SeqSet
<1>0. \A q \in Seq(S), t \in Seq(S), b \in BOOLEAN :
        /\ q \o Opt(b, t) \in Seq(S)
        /\ SeqSet(q \o Opt(b, t)) = SeqSet(q) \cup (IF b THEN SeqSet(t) ELSE {})
        /\ q \o Opt(b, t) = <<>> <=> q = <<>> /\ (b => t = <<>>)
  BY SeqSetOpt
<1> HIDE DEF HG, HC, HD, HU, HP, TG, TPost, TDel, TPut, TPatch, S
<1>9. SeqSet(ProjectedColl(a, s, c)) = RefColl(a, s)
      /\ (ProjectedColl(a, s, c) = <<>> <=> ~HG /\ ~HC)
  <2>0. c \in Seq(S) /\ SeqSet(c) = {}
    BY <1>8
  <2> DEFINE Q1 == c \o Opt(HG, <<TG>>)
  <2>1. Q1 \in Seq(S) /\ SeqSet(Q1) = (IF HG THEN {TG} ELSE {})
        /\ (Q1 = <<>> <=> ~HG)
    <3>1. /\ c \o Opt(HG, <<TG>>) \in Seq(S)
          /\ SeqSet(c \o Opt(HG, <<TG>>)) = SeqSet(c) \cup (IF HG THEN SeqSet(<<TG>>) ELSE {})
          /\ c \o Opt(HG, <<TG>>) = <<>> <=> c = <<>> /\ (HG => <<TG>> = <<>>)
      BY <2>0, <1>0, <1>7, <1>8, Zenon
    <3>2. QED
      BY <3>1, <2>0, <1>7, <1>8
  <2> HIDE DEF Q1
  <2>2. /\ SeqSet(Q1 \o Opt(HC, <<TPost>>)) = SeqSet(Q1) \cup (IF HC THEN SeqSet(<<TPost>>) ELSE {})
        /\ Q1 \o Opt(HC, <<TPost>>) = <<>> <=> Q1 = <<>> /\ (HC => <<TPost>> = <<>>)
    <3>1. Q1 \in Seq(S)
      BY <2>1
    <3>2. <<TPost>> \in Seq(S) /\ HC \in BOOLEAN
      BY <1>7, <1>8
    <3>3. QED
      BY <3>1, <3>2, <1>0
  <2>3. QED
    BY <2>1, <2>2, <1>2, <1>4, <1>7, <1>8 DEF Q1
<1>10. SeqSet(ProjectedRes(a, s)) = RefRes(a, s)
      /\ (ProjectedRes(a, s) = <<>> <=> ~HG /\ ~HD /\ ~HU /\ ~HP)
  <2>0. SchemaDefs[s].res \in Seq(S) /\ SeqSet(SchemaDefs[s].res) = {}
    BY <1>8
  <2> DEFINE Q0 == SchemaDefs[s].res
             Q1 == Q0 \o Opt(HG, <<TG>>)
             Q2 == Q1 \o Opt(HD, <<TDel>>)
             Q3 == Q2 \o Opt(HU, <<TPut, TPatch>>)
             Q4 == Q3 \o Opt(HP, <<TPatch>>)
  <2> HIDE DEF Q0
  <2>1. /\ Q1 \in Seq(S)
        /\ SeqSet(Q1) = SeqSet(Q0) \cup (IF HG THEN SeqSet(<<TG>>) ELSE {})
        /\ Q1 = <<>> <=> Q0 = <<>> /\ (HG => <<TG>> = <<>>)
    <3>1. Q0 \in Seq(S)
      BY <2>0 DEF Q0
    <3>2. <<TG>> \in Seq(S) /\ HG \in BOOLEAN
      BY <1>7, <1>8
    <3>3. QED
      BY <3>1, <3>2, <1>0
  <2> HIDE DEF Q1
  <2>2. /\ Q2 \in Seq(S)
        /\ SeqSet(Q2) = SeqSet(Q1) \cup (IF HD THEN SeqSet(<<TDel>>) ELSE {})
        /\ Q2 = <<>> <=> Q1 = <<>> /\ (HD => <<TDel>> = <<>>)
    <3>1. Q1 \in Seq(S)
      BY <2>1
    <3>2. <<TDel>> \in Seq(S) /\ HD \in BOOLEAN
      BY <1>7, <1>8
    <3>3. QED
      BY <3>1, <3>2, <1>0
  <2> HIDE DEF Q2
  <2>3. /\ Q3 \in Seq(S)
        /\ SeqSet(Q3) = SeqSet(Q2) \cup (IF HU THEN SeqSet(<<TPut, TPatch>>) ELSE {})
        /\ Q3 = <<>> <=> Q2 = <<>> /\ (HU => <<TPut, TPatch>> = <<>>)
    <3>1. Q2 \in Seq(S)
      BY <2>2
    <3>2. <<TPut, TPatch>> \in Seq(S) /\ HU \in BOOLEAN
      BY <1>7, <1>8
    <3>3. QED
      BY <3>1, <3>2, <1>0
  <2> HIDE DEF Q3
  <2>4. /\ SeqSet(Q4) = SeqSet(Q3) \cup (IF HP THEN SeqSet(<<TPatch>>) ELSE {})
        /\ Q4 = <<>> <=> Q3 = <<>> /\ (HP => <<TPatch>> = <<>>)
    <3>1. Q3 \in Seq(S)
      BY <2>3
    <3>2. <<TPatch>> \in Seq(S) /\ HP \in BOOLEAN
      BY <1>7, <1>8
    <3>3. QED
      BY <3>1, <3>2, <1>0
  <2>5. ProjectedRes(a, s) = Q4
    BY <1>3 DEF Q0, Q1, Q2, Q3, Q4
  <2> HIDE DEF Q4
  <2>6. QED
    BY <2>0, <2>1, <2>2, <2>3, <2>4, <2>5, <1>5, <1>7, <1>8 DEF Q0
<1>11. QED
  BY <1>6, <1>9, <1>10

\* With empty slots, and line 132 having touched no schema P6 governs,
\* schemasForSubject returns a complete projection for any access set.
LEMMA ProjectComplete ==
    ASSUME EmptySlots, NEW a, NEW reg,
           \A s \in SchemaIds : Governed(s) => reg[s] = SchemaDefs[s].coll
    PROVE  Complete(Project(a, reg))
<1> SUFFICES ASSUME NEW s \in SchemaIds, Governed(s)
             PROVE  /\ (s \in DOMAIN Project(a, reg).schemas)
                          <=> Has(Project(a, reg).for, s, MethodVerbs)
                    /\ s \in DOMAIN Project(a, reg).schemas =>
                         /\ SeqSet(Project(a, reg).schemas[s].coll)
                              = RefColl(Project(a, reg).for, s)
                         /\ SeqSet(Project(a, reg).schemas[s].res)
                              = RefRes(Project(a, reg).for, s)
  BY DEF Complete
<1>1. reg[s] = <<>> /\ SchemaDefs[s].res = <<>>
  BY DEF EmptySlots
<1>2. /\ ProjectedColl(a, s, reg[s]) # <<>> \/ ProjectedRes(a, s) # <<>>
           <=> Has(a, s, MethodVerbs)
      /\ SeqSet(ProjectedColl(a, s, reg[s])) = RefColl(a, s)
      /\ SeqSet(ProjectedRes(a, s)) = RefRes(a, s)
  BY <1>1, GovernedComplete
<1>3. /\ Project(a, reg).for = a
      /\ s \in DOMAIN Project(a, reg).schemas <=>
           ProjectedColl(a, s, reg[s]) # <<>> \/ ProjectedRes(a, s) # <<>>
      /\ s \in DOMAIN Project(a, reg).schemas =>
           /\ Project(a, reg).schemas[s].coll = ProjectedColl(a, s, reg[s])
           /\ Project(a, reg).schemas[s].res = ProjectedRes(a, s)
  <2>1. /\ Project(a, reg).for = a
        /\ s \in DOMAIN Project(a, reg).schemas <=>
             ProjectedColl(a, s, reg[s]) # <<>> \/ ProjectedRes(a, s) # <<>>
        /\ s \in DOMAIN Project(a, reg).schemas =>
             Project(a, reg).schemas[s] =
               [coll |-> ProjectedColl(a, s, reg[s]), res |-> ProjectedRes(a, s)]
    BY ProjectGoverned, Zenon
  <2> HIDE DEF Project, ProjectedColl, ProjectedRes
  <2>2. QED
    BY <2>1
<1> HIDE DEF Project, ProjectedColl, ProjectedRes
<1>4. QED
  BY <1>2, <1>3

\* The write of line 132 leaves every schema P6 governs as it was.
LEMMA RegistryAfterGoverned ==
    ASSUME NEW a, NEW reg, NEW s \in SchemaIds, Governed(s)
    PROVE  RegistryAfter(a, reg)[s] = reg[s]
<1>1. RegistryAfter(a, reg)[s] = SharedColl(a, s, reg[s])
  BY Zenon DEF RegistryAfter, Governed
<1>2. QED
  BY <1>1, NoSynth

-----------------------------------------------------------------------------
(***************************************************************************)
(* The inductive invariant.                                                *)
(***************************************************************************)
LEMMA InitProjInv == Init => ProjInv
<1> SUFFICES ASSUME Init PROVE ProjInv
  OBVIOUS
<1>1. RegistryFixed
  BY DEF Init, RegistryFixed
<1>2. CacheComplete /\ HeldComplete
  BY DEF Init, CacheComplete, HeldComplete
<1>3. QED
  BY <1>1, <1>2 DEF ProjInv

LEMMA NextProjInv ==
    ASSUME EmptySlots, CacheInv, ProjInv, [Next]_vars
    PROVE  ProjInv'
<1>0. /\ TypeOK /\ HeldAccess
      /\ RegistryFixed /\ CacheComplete /\ HeldComplete
  BY DEF CacheInv, ProjInv
<1> USE DEF ProjInv
<1>1. ASSUME NEW r \in Reqs, Begin(r) PROVE ProjInv'
  <2>0. /\ rres' = [rres EXCEPT ![r] = None]
        /\ UNCHANGED <<cache, registry>>
    BY <1>1 DEF Begin
  <2>1. QED
    BY <1>0, <2>0 DEF TypeOK, RegistryFixed, CacheComplete, HeldComplete
<1>2. ASSUME NEW r \in Reqs, Purge(r) PROVE ProjInv'
  <2>0. /\ cache' = [cache EXCEPT ![rcur[r]] = None]
        /\ UNCHANGED <<rres, registry>>
    BY <1>2 DEF Purge
  <2>1. QED
    BY <1>0, <2>0 DEF TypeOK, RegistryFixed, CacheComplete, HeldComplete
<1>3. ASSUME NEW r \in Reqs, Lookup(r) PROVE ProjInv'
  <2>0. /\ rpc[r] = "lookup"
        /\ \/ rres' = [rres EXCEPT ![r] = cache[racc[r]]]
           \/ rres' = rres
        /\ UNCHANGED <<cache, registry>>
    BY <1>3 DEF Lookup
  <2>1. racc[r] \in AccessSets
    BY <1>0, <2>0 DEF HeldAccess, Busy
  <2>2. QED
    BY <1>0, <2>0, <2>1 DEF TypeOK, RegistryFixed, CacheComplete, HeldComplete
<1>4. ASSUME NEW r \in Reqs, Compute(r) PROVE ProjInv'
  <2>0. /\ \/ /\ rres' = [rres EXCEPT ![r] = Project(racc[r], registry)]
              /\ registry' = RegistryAfter(racc[r], registry)
           \/ UNCHANGED <<rres, registry>>
        /\ UNCHANGED cache
    BY <1>4, Zenon DEF Compute
  <2>1. Complete(Project(racc[r], registry))
    BY <1>0, ProjectComplete DEF RegistryFixed
  <2>2. \A s \in SchemaIds : Governed(s) =>
           RegistryAfter(racc[r], registry)[s] = registry[s]
    BY RegistryAfterGoverned
  <2>3. QED
    BY <1>0, <2>0, <2>1, <2>2 DEF TypeOK, RegistryFixed, CacheComplete, HeldComplete
<1>5. ASSUME NEW r \in Reqs, AddCache(r) PROVE ProjInv'
  <2>0. /\ cache' = [cache EXCEPT ![racc[r]] = rres[r]]
        /\ UNCHANGED <<rres, registry>>
    BY <1>5 DEF AddCache
  <2>1. QED
    BY <1>0, <2>0 DEF TypeOK, RegistryFixed, CacheComplete, HeldComplete
<1>6. ASSUME NEW r \in Reqs, AddUser(r) PROVE ProjInv'
  BY <1>0, <1>6 DEF AddUser, RegistryFixed, CacheComplete, HeldComplete
<1>7. ASSUME NEW f \in AccessSets, Expire(f) PROVE ProjInv'
  <2>0. /\ cache' = [cache EXCEPT ![f] = None]
        /\ UNCHANGED <<rres, registry>>
    BY <1>7 DEF Expire
  <2>1. QED
    BY <1>0, <2>0 DEF TypeOK, RegistryFixed, CacheComplete, HeldComplete
<1>8. ASSUME NEW u \in Users, NEW a \in AccessSets, RBACChange(u, a) PROVE ProjInv'
  BY <1>0, <1>8 DEF RBACChange, RegistryFixed, CacheComplete, HeldComplete
<1>9. CASE UNCHANGED vars
  BY <1>0, <1>9 DEF vars, RegistryFixed, CacheComplete, HeldComplete
<1>10. QED
  BY <1>1, <1>2, <1>3, <1>4, <1>5, <1>6, <1>7, <1>8, <1>9 DEF Next

LEMMA ProjInvariant == ASSUME EmptySlots PROVE Spec => []ProjInv
<1>1. CacheInv /\ ProjInv /\ [Next]_vars => ProjInv'
  BY NextProjInv
<1>2. QED
  BY <1>1, InitProjInv, CacheInvariant, PTL DEF Spec

\* P6 (spec 4.3): when the registry hands over schemas with empty method
\* slots, every projection a request returns, computed by schemasForSubject
\* for it or served from c.cache after another user's request computed it,
\* lists exactly the schemas the user's grants give a method on, each with
\* exactly the methods (or blocked- methods) of the verb-to-method table,
\* for every instance and every interleaving of requests, TTL expiries and
\* RBAC changes, and however often line 132 wrote the namespaces schema.
THEOREM ProjectionCorrect ==
    ASSUME EmptySlots
    PROVE  Spec => []ProjectionComplete
<1>1. ProjInv => ProjectionComplete
  <2>1. HeldComplete => \A r \in Reqs : rres[r] # None => Complete(rres[r])
    BY DEF HeldComplete
  <2>2. QED
    BY <2>1, Zenon DEF ProjInv, ProjectionComplete, Complete, Governed
<1>2. QED
  BY <1>1, ProjInvariant, PTL

=============================================================================
