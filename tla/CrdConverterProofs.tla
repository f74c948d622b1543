------------------------- MODULE CrdConverterProofs -------------------------
(***************************************************************************)
(* Proofs about CrdConverter, for every CRD list and every schemas map.    *)
(*                                                                         *)
(* AnnotatedWhenListed speaks of the end of the loop only.  The inductive  *)
(* invariant states what the loop has done so far: the schemas map is the  *)
(* reference Annotated restricted to the (CRD, version) positions the loop *)
(* has passed, Before(i, j).  One forVersion call adds position <<i, j>>,  *)
(* which comes after every position passed, so it is the latest one and   *)
(* its columns and description win, as Annotate writes them.              *)
(***************************************************************************)
EXTENDS CrdConverter, TLAPS

\* The positions <<k, l>> that come before CRD i's version j.
Before(ci, vj) == {h \in Nat \X Nat : h[1] < ci \/ (h[1] = ci /\ h[2] < vj)}

\* The reference restricted to the positions P.
AnnotatedIn(cl, sm, P) ==
    [id \in DOMAIN sm |-> AnnotatedEntry(cl, sm[id], Hits(cl, id) \cap P)]

\* The loop position: the next version to visit, or the next CRD.
Cursor == IF pc = "versions" THEN j ELSE 1

\* The CRD's names were accepted (crd.go line 40).  Proofs keep the empty
\* string behind this name: the SMT backend cannot encode it.
Accepted(c) == c.plural # ""

\* The state of the loop, beyond types: where i and j may be, and what the
\* schemas map holds at each point.
LoopShape ==
    /\ orig \in SchemaMaps
    /\ pc \in {"crds", "versions"} => ~fails
    /\ pc = "versions" => /\ i <= Len(crds)
                          /\ Accepted(crds[i])
                          /\ j <= Len(crds[i].versions) + 1
    /\ pc = "list" => schemas = orig /\ i = 1
    /\ pc = "done" /\ fails => schemas = orig

LoopInv ==
    /\ TypeOK
    /\ LoopShape
    /\ pc \in {"crds", "versions"} =>
          schemas = AnnotatedIn(crds, orig, Before(i, Cursor))
    /\ AnnotatedWhenListed

-----------------------------------------------------------------------------
(***************************************************************************)
(* Lemmas on the operators of the model.                                   *)
(***************************************************************************)
\* p comes before q in the loop's order.
Precedes(p, q) == p[1] < q[1] \/ (p[1] = q[1] /\ p[2] < q[2])

\* Adding a position that comes after all others makes it the latest.
LEMMA LatestAdd ==
    ASSUME NEW H \in SUBSET (Nat \X Nat), NEW h0 \in Nat \X Nat,
           \A x \in H : Precedes(x, h0)
    PROVE  Latest(H \cup {h0}) = h0
<1> DEFINE H1 == H \cup {h0}
           Top(h) == \A x \in H1 : x[1] < h[1] \/ (x[1] = h[1] /\ x[2] <= h[2])
<1>1. Top(h0)
  BY DEF Precedes
<1>2. ASSUME NEW h \in H1, Top(h) PROVE h = h0
  <2>1. h0[1] < h[1] \/ (h0[1] = h[1] /\ h0[2] <= h[2])
    BY <1>2
  <2>2. h \notin H
    BY <2>1 DEF Precedes
  <2>3. QED
    BY <2>2
<1>3. QED
  BY <1>1, <1>2 DEF Latest

\* Membership in Hits, for a list of CRD objects.
LEMMA HitsMember ==
    ASSUME NEW cl \in Seq(CRD), NEW id
    PROVE  /\ Hits(cl, id) \subseteq Nat \X Nat
           /\ \A k, l \in Nat :
                 <<k, l>> \in Hits(cl, id) <=>
                    /\ k \in 1..Len(cl)
                    /\ l \in 1..Len(cl[k].versions)
                    /\ cl[k].plural # ""
                    /\ SchemaId(cl[k].group, cl[k].versions[l].name, cl[k].kind) = id
<1> DEFINE Pos == UNION {{k} \X DOMAIN cl[k].versions : k \in DOMAIN cl}
<1>1. \A k \in DOMAIN cl : DOMAIN cl[k].versions = 1..Len(cl[k].versions)
  BY DEF CRD
<1>2. DOMAIN cl = 1..Len(cl)
  OBVIOUS
<1>3. Pos \subseteq Nat \X Nat
  BY <1>1, <1>2
<1>4. \A k, l \in Nat : <<k, l>> \in Pos <=> k \in 1..Len(cl) /\ l \in 1..Len(cl[k].versions)
  BY <1>1, <1>2
<1>5. Hits(cl, id) = {h \in Pos :
                       /\ cl[h[1]].plural # ""
                       /\ SchemaId(cl[h[1]].group, cl[h[1]].versions[h[2]].name, cl[h[1]].kind) = id}
  BY DEF Hits
<1>6. QED
  BY <1>3, <1>4, <1>5, Zenon

\* The reference over no position is discovery's schema.
LEMMA EntryEmpty ==
    ASSUME NEW cl, NEW s \in Schema
    PROVE  AnnotatedEntry(cl, s, {}) = s
BY DEF AnnotatedEntry, Schema

\* forVersion keeps a schema a schema.
LEMMA AnnotateType ==
    ASSUME NEW s \in Schema, NEW v \in Version
    PROVE  Annotate(s, v) \in Schema
<1>1. \A n \in 1..Len(v.cols) : ToColumn(v.cols[n]) \in Columns
  BY DEF Version, Columns
<1>2. [n \in 1..Len(v.cols) |-> ToColumn(v.cols[n])] \in Seq(Columns)
  BY <1>1
<1>3. v.schema \in Descs => v.schema \in Descs \cup {""}
  OBVIOUS
<1>4. QED
  BY <1>2, <1>3, Zenon DEF Annotate, Schema

\* The reference over the positions H and then h0, which comes after all of
\* them, is forVersion for h0's version applied to the reference over H.
LEMMA EntryAdd ==
    ASSUME NEW cl, NEW s, NEW H \in SUBSET (Nat \X Nat), NEW h0 \in Nat \X Nat,
           \A x \in H : Precedes(x, h0)
    PROVE  AnnotatedEntry(cl, s, H \cup {h0})
             = Annotate(AnnotatedEntry(cl, s, H), VersionAt(cl, h0))
<1> DEFINE v == VersionAt(cl, h0)
           H1 == H \cup {h0}
           HC == {h \in H : VersionAt(cl, h).cols # << >>}
           HD == {h \in H : VersionAt(cl, h).schema \in Descs}
           HC1 == {h \in H1 : VersionAt(cl, h).cols # << >>}
           HD1 == {h \in H1 : VersionAt(cl, h).schema \in Descs}
           Cols(w) == [n \in 1..Len(w.cols) |-> ToColumn(w.cols[n])]
           c0 == IF HC = {} THEN s.columns ELSE Cols(VersionAt(cl, Latest(HC)))
           d0 == IF HD = {} THEN s.description ELSE VersionAt(cl, Latest(HD)).schema
           cN == IF v.cols # << >> THEN Cols(v) ELSE c0
           dN == IF v.schema \in Descs THEN v.schema ELSE d0
           cA == IF HC1 = {} THEN s.columns ELSE Cols(VersionAt(cl, Latest(HC1)))
           dA == IF HD1 = {} THEN s.description ELSE VersionAt(cl, Latest(HD1)).schema
<1>1. AnnotatedEntry(cl, s, H) = [crd |-> s.crd \/ H # {}, columns |-> c0, description |-> d0]
  BY DEF AnnotatedEntry
<1>2. Annotate(AnnotatedEntry(cl, s, H), v) = [crd |-> TRUE, columns |-> cN, description |-> dN]
  <2>1. Annotate([crd |-> s.crd \/ H # {}, columns |-> c0, description |-> d0], v)
          = [crd |-> TRUE, columns |-> cN, description |-> dN]
    BY DEF Annotate
  <2>2. QED
    BY <1>1, <2>1
<1>3. cA = cN
  <2>1. CASE v.cols # << >>
    <3>1. HC1 = HC \cup {h0} /\ HC \subseteq H
      BY <2>1
    <3>2. Latest(HC1) = h0
      BY <3>1, LatestAdd
    <3>3. QED
      BY <2>1, <3>1, <3>2
  <2>2. CASE v.cols = << >>
    <3>1. HC1 = HC
      BY <2>2
    <3>2. QED
      BY <2>2, <3>1
  <2>3. QED
    BY <2>1, <2>2
<1>4. dA = dN
  <2>1. CASE v.schema \in Descs
    <3>1. HD1 = HD \cup {h0} /\ HD \subseteq H
      BY <2>1
    <3>2. Latest(HD1) = h0
      BY <3>1, LatestAdd
    <3>3. QED
      BY <2>1, <3>1, <3>2
  <2>2. CASE v.schema \notin Descs
    <3>1. HD1 = HD
      BY <2>2
    <3>2. QED
      BY <2>2, <3>1
  <2>3. QED
    BY <2>1, <2>2
<1>5. AnnotatedEntry(cl, s, H1) = [crd |-> TRUE, columns |-> cA, description |-> dA]
  <2>1. (s.crd \/ H1 # {}) = TRUE
    OBVIOUS
  <2>2. QED
    BY <2>1 DEF AnnotatedEntry
<1> HIDE DEF cA, cN, dA, dN
<1>6. AnnotatedEntry(cl, s, H1) = Annotate(AnnotatedEntry(cl, s, H), v)
  BY <1>2, <1>3, <1>4, <1>5
<1>7. QED
  BY <1>6

-----------------------------------------------------------------------------
(***************************************************************************)
(* Lemmas on the positions the loop has passed.                            *)
(***************************************************************************)
\* Hits, position by position.
LEMMA HitsAt ==
    ASSUME NEW cl \in Seq(CRD), NEW id, NEW h \in Nat \X Nat
    PROVE  h \in Hits(cl, id) <=>
              /\ h[1] \in 1..Len(cl)
              /\ h[2] \in 1..Len(cl[h[1]].versions)
              /\ Accepted(cl[h[1]])
              /\ SchemaId(cl[h[1]].group, VersionAt(cl, h).name, cl[h[1]].kind) = id
<1>1. h = <<h[1], h[2]>> /\ h[1] \in Nat /\ h[2] \in Nat
  OBVIOUS
<1>2. \A k, l \in Nat :
        <<k, l>> \in Hits(cl, id) <=>
           /\ k \in 1..Len(cl)
           /\ l \in 1..Len(cl[k].versions)
           /\ cl[k].plural # ""
           /\ SchemaId(cl[k].group, cl[k].versions[l].name, cl[k].kind) = id
  BY HitsMember
<1>3. QED
  BY <1>1, <1>2, Zenon DEF VersionAt, Accepted

\* What a hit is.
LEMMA HitsRange ==
    ASSUME NEW cl \in Seq(CRD), NEW id, NEW h \in Hits(cl, id)
    PROVE  /\ h = <<h[1], h[2]>>
           /\ h[1] \in 1..Len(cl)
           /\ h[2] \in 1..Len(cl[h[1]].versions)
           /\ Accepted(cl[h[1]])
           /\ SchemaId(cl[h[1]].group, VersionAt(cl, h).name, cl[h[1]].kind) = id
<1>1. h \in Nat \X Nat
  BY HitsMember
<1>2. h = <<h[1], h[2]>>
  BY <1>1
<1>3. QED
  BY <1>1, <1>2, HitsAt, Zenon

\* Before the first CRD's first version the loop has passed no hit.
LEMMA HitsBeforeStart ==
    ASSUME NEW cl \in Seq(CRD), NEW id
    PROVE  Hits(cl, id) \cap Before(1, 1) = {}
<1> SUFFICES ASSUME NEW h \in Hits(cl, id), h \in Before(1, 1) PROVE FALSE
  OBVIOUS
<1>1. h = <<h[1], h[2]>> /\ h[1] \in 1..Len(cl) /\ h[2] \in 1..Len(cl[h[1]].versions)
  BY HitsRange
<1>2. QED
  BY <1>1 DEF Before

\* Past the last CRD the loop has passed every hit.
LEMMA HitsBeforeEnd ==
    ASSUME NEW cl \in Seq(CRD), NEW id, NEW ci \in Nat, ci > Len(cl)
    PROVE  Hits(cl, id) \cap Before(ci, 1) = Hits(cl, id)
<1> SUFFICES ASSUME NEW h \in Hits(cl, id) PROVE h \in Before(ci, 1)
  OBVIOUS
<1>1. h = <<h[1], h[2]>> /\ h[1] \in 1..Len(cl) /\ h[2] \in 1..Len(cl[h[1]].versions)
  BY HitsRange
<1>2. QED
  BY <1>1 DEF Before

\* A CRD none of whose hits lies at or after version vj is done with.
LEMMA HitsRowDone ==
    ASSUME NEW cl \in Seq(CRD), NEW id, NEW ci \in Nat, NEW vj \in Nat,
           \A l \in Nat : <<ci, l>> \in Hits(cl, id) => l < vj
    PROVE  Hits(cl, id) \cap Before(ci, vj) = Hits(cl, id) \cap Before(ci + 1, 1)
<1>1. \A h \in Hits(cl, id) : h = <<h[1], h[2]>> /\ h[1] \in Nat /\ h[2] \in Nat
  <2>1. Hits(cl, id) \subseteq Nat \X Nat
    BY HitsMember
  <2>2. QED
    BY <2>1
<1>2. ASSUME NEW h \in Hits(cl, id) PROVE h \in Before(ci, vj) <=> h \in Before(ci + 1, 1)
  <2>1. CASE h[1] = ci
    <3>1. h[2] < vj
      BY <1>1, <2>1
    <3>2. QED
      BY <1>1, <2>1, <3>1 DEF Before
  <2>2. CASE h[1] # ci
    <3>1. h[2] \in 1..Len(cl[h[1]].versions)
      BY HitsRange
    <3>2. QED
      BY <1>1, <2>2, <3>1 DEF Before
  <2>3. QED
    BY <2>1, <2>2
<1>3. QED
  BY <1>2

\* One more version: the position <<ci, vj>> is added, after all others.
LEMMA HitsStep ==
    ASSUME NEW cl \in Seq(CRD), NEW id, NEW ci \in Nat, NEW vj \in Nat
    PROVE  /\ Hits(cl, id) \cap Before(ci, vj + 1)
                = (Hits(cl, id) \cap Before(ci, vj)) \cup (Hits(cl, id) \cap {<<ci, vj>>})
           /\ \A x \in Hits(cl, id) \cap Before(ci, vj) : Precedes(x, <<ci, vj>>)
<1>1. \A h \in Hits(cl, id) : h = <<h[1], h[2]>> /\ h[1] \in Nat /\ h[2] \in Nat
  <2>1. Hits(cl, id) \subseteq Nat \X Nat
    BY HitsMember
  <2>2. QED
    BY <2>1
<1>2. QED
  BY <1>1 DEF Before, Precedes

-----------------------------------------------------------------------------
(***************************************************************************)
(* Lemmas on the reference restricted to the positions passed.             *)
(***************************************************************************)
\* Before the loop, the restricted reference is discovery's map.
LEMMA InStart ==
    ASSUME NEW cl \in Seq(CRD), NEW Ids, NEW sm \in [Ids -> Schema]
    PROVE  AnnotatedIn(cl, sm, Before(1, 1)) = sm
<1>1. \A id \in Ids : AnnotatedEntry(cl, sm[id], Hits(cl, id) \cap Before(1, 1)) = sm[id]
  BY HitsBeforeStart, EntryEmpty
<1>2. QED
  BY <1>1 DEF AnnotatedIn

\* Past the last CRD, the restricted reference is the reference.
LEMMA InEnd ==
    ASSUME NEW cl \in Seq(CRD), NEW Ids, NEW sm \in [Ids -> Schema],
           NEW ci \in Nat, ci > Len(cl)
    PROVE  AnnotatedIn(cl, sm, Before(ci, 1)) = Annotated(cl, sm)
<1>1. \A id \in Ids : Hits(cl, id) \cap Before(ci, 1) = Hits(cl, id)
  BY HitsBeforeEnd
<1>2. QED
  BY <1>1 DEF AnnotatedIn, Annotated

\* A CRD with no hit left is done with, for every schema.
LEMMA InRowDone ==
    ASSUME NEW cl \in Seq(CRD), NEW Ids, NEW sm \in [Ids -> Schema],
           NEW ci \in Nat, NEW vj \in Nat,
           \A id \in Ids : \A l \in Nat : <<ci, l>> \in Hits(cl, id) => l < vj
    PROVE  AnnotatedIn(cl, sm, Before(ci, vj)) = AnnotatedIn(cl, sm, Before(ci + 1, 1))
<1>1. \A id \in Ids : Hits(cl, id) \cap Before(ci, vj) = Hits(cl, id) \cap Before(ci + 1, 1)
  BY HitsRowDone
<1>2. QED
  BY <1>1 DEF AnnotatedIn

\* One forVersion call on the map moves the restricted reference one
\* position on.
LEMMA InStep ==
    ASSUME NEW cl \in Seq(CRD), NEW Ids, NEW sm \in [Ids -> Schema],
           NEW ci \in 1..Len(cl), Accepted(cl[ci]),
           NEW vj \in 1..Len(cl[ci].versions)
    PROVE  ForVersionMap(AnnotatedIn(cl, sm, Before(ci, vj)),
                         cl[ci].group, cl[ci].kind, cl[ci].versions[vj])
             = AnnotatedIn(cl, sm, Before(ci, vj + 1))
<1> DEFINE v == cl[ci].versions[vj]
           sid == SchemaId(cl[ci].group, v.name, cl[ci].kind)
           Prev == AnnotatedIn(cl, sm, Before(ci, vj))
           Post == AnnotatedIn(cl, sm, Before(ci, vj + 1))
           Passed(x) == Hits(cl, x) \cap Before(ci, vj)
<1> SUFFICES ForVersionMap(Prev, cl[ci].group, cl[ci].kind, v) = Post
  OBVIOUS
<1>1. \A id \in Ids : <<ci, vj>> \in Hits(cl, id) <=> id = sid
  BY HitsAt DEF VersionAt
<1>0. ci \in Nat /\ vj \in Nat
  OBVIOUS
<1>2. \A id \in Ids : /\ Hits(cl, id) \cap Before(ci, vj + 1) = Passed(id) \cup (Hits(cl, id) \cap {<<ci, vj>>})
                      /\ \A x \in Passed(id) : Precedes(x, <<ci, vj>>)
  BY <1>0, HitsStep, Zenon
<1>3. \A id \in Ids \ {sid} : Post[id] = Prev[id]
  <2>1. \A id \in Ids \ {sid} : Hits(cl, id) \cap Before(ci, vj + 1) = Passed(id)
    BY <1>1, <1>2
  <2>2. QED
    BY <2>1 DEF AnnotatedIn
<1>4. sid \in Ids => Post[sid] = Annotate(Prev[sid], v)
  <2>1. HAVE sid \in Ids
  <2>2. Hits(cl, sid) \cap Before(ci, vj + 1) = Passed(sid) \cup {<<ci, vj>>}
    BY <1>1, <1>2, <2>1
  <2>3. \A x \in Passed(sid) : Precedes(x, <<ci, vj>>)
    BY <1>2, <2>1
  <2>4. Passed(sid) \in SUBSET (Nat \X Nat) /\ <<ci, vj>> \in Nat \X Nat
    <3>1. Hits(cl, sid) \subseteq Nat \X Nat
      BY HitsMember
    <3>2. QED
      BY <1>0, <3>1
  <2> HIDE DEF Passed
  <2>5. AnnotatedEntry(cl, sm[sid], Passed(sid) \cup {<<ci, vj>>})
          = Annotate(AnnotatedEntry(cl, sm[sid], Passed(sid)), VersionAt(cl, <<ci, vj>>))
    <3>1. \A H \in SUBSET (Nat \X Nat), h0 \in Nat \X Nat :
            (\A x \in H : Precedes(x, h0)) =>
               AnnotatedEntry(cl, sm[sid], H \cup {h0})
                 = Annotate(AnnotatedEntry(cl, sm[sid], H), VersionAt(cl, h0))
      BY EntryAdd
    <3>2. QED
      BY <2>3, <2>4, <3>1
  <2>6. VersionAt(cl, <<ci, vj>>) = v
    BY DEF VersionAt
  <2>7. Post[sid] = AnnotatedEntry(cl, sm[sid], Passed(sid) \cup {<<ci, vj>>})
    BY <2>1, <2>2 DEF AnnotatedIn
  <2>8. Prev[sid] = AnnotatedEntry(cl, sm[sid], Passed(sid))
    BY <2>1 DEF AnnotatedIn, Passed
  <2>9. QED
    BY <2>5, <2>6, <2>7, <2>8
<1>5. /\ Prev = [id \in Ids |-> Prev[id]] /\ DOMAIN Prev = Ids
      /\ Post = [id \in Ids |-> Post[id]] /\ DOMAIN Post = Ids
  BY DEF AnnotatedIn
<1> HIDE DEF Prev, Post, Passed
<1>6. CASE sid \in Ids
  <2>1. ForVersionMap(Prev, cl[ci].group, cl[ci].kind, v) = [Prev EXCEPT ![sid] = Annotate(Prev[sid], v)]
    BY <1>5, <1>6, Zenon DEF ForVersionMap
  <2>2. QED
    BY <1>3, <1>4, <1>5, <1>6, <2>1
<1>7. CASE sid \notin Ids
  <2>1. ForVersionMap(Prev, cl[ci].group, cl[ci].kind, v) = Prev
    BY <1>5, <1>7 DEF ForVersionMap
  <2>2. \A id \in Ids : Post[id] = Prev[id]
    BY <1>3, <1>7
  <2>3. QED
    BY <1>5, <2>1, <2>2
<1>8. QED
  BY <1>6, <1>7

\* forVersion on the map keeps it a map of schemas over the same IDs.
LEMMA ForVersionMapType ==
    ASSUME NEW Ids, NEW sm \in [Ids -> Schema], NEW g, NEW k, NEW v \in Version
    PROVE  ForVersionMap(sm, g, k, v) \in [Ids -> Schema]
<1>1. \A id \in Ids : Annotate(sm[id], v) \in Schema
  BY AnnotateType
<1>2. QED
  BY <1>1 DEF ForVersionMap

-----------------------------------------------------------------------------
(***************************************************************************)
(* The loop invariant.                                                     *)
(***************************************************************************)
LEMMA InitLoopInv == Init => LoopInv
<1> SUFFICES ASSUME Init PROVE LoopInv
  OBVIOUS
<1>1. crds \in Seq(CRD) /\ schemas \in [DOMAIN orig -> Schema]
  BY CrdAssumption DEF Init
<1>2. fails \in BOOLEAN
  BY CrdAssumption DEF Init
<1>3. TypeOK
  BY <1>1, <1>2 DEF Init, TypeOK
<1>4. LoopShape
  BY DEF Init, LoopShape
<1>5. QED
  BY <1>3, <1>4 DEF Init, LoopInv, AnnotatedWhenListed

LEMMA NextLoopInv == LoopInv /\ [Next]_vars => LoopInv'
<1> SUFFICES ASSUME LoopInv, [Next]_vars PROVE LoopInv'
  OBVIOUS
<1>0. /\ TypeOK
      /\ LoopShape
      /\ pc \in {"crds", "versions"} => schemas = AnnotatedIn(crds, orig, Before(i, Cursor))
  BY DEF LoopInv
<1>1. crds \in Seq(CRD) /\ orig \in [DOMAIN orig -> Schema]
  BY <1>0, CrdAssumption DEF TypeOK, LoopShape
<1>2. CASE ListErr
  <2>1. TypeOK'
    BY <1>0, <1>2 DEF ListErr, TypeOK
  <2>2. LoopShape'
    BY <1>0, <1>2 DEF ListErr, LoopShape
  <2>3. QED
    BY <1>2, <2>1, <2>2 DEF ListErr, LoopInv, AnnotatedWhenListed
<1>3. CASE ListOk
  <2>1. TypeOK'
    BY <1>0, <1>3 DEF ListOk, TypeOK
  <2>2. LoopShape'
    BY <1>0, <1>3 DEF ListOk, LoopShape
  <2>3. schemas = orig /\ i = 1
    BY <1>0, <1>3 DEF ListOk, LoopShape
  <2>4. AnnotatedIn(crds, orig, Before(1, 1)) = orig
    BY <1>1, InStart
  <2>5. Cursor' = 1
    BY <1>3 DEF ListOk, Cursor
  <2>6. QED
    BY <1>3, <2>1, <2>2, <2>3, <2>4, <2>5 DEF ListOk, LoopInv, AnnotatedWhenListed
<1>4. CASE SkipCrd
  <2>0. /\ pc = "crds" /\ i <= Len(crds) /\ i' = i + 1
        /\ UNCHANGED <<pc, crds, fails, schemas, orig, j, ret>>
    BY <1>4, Zenon DEF SkipCrd
  <2>1. ~Accepted(crds[i])
    BY <1>4, Zenon DEF SkipCrd, Accepted
  <2>2. i \in 1..Len(crds)
    BY <1>0, <1>4, <2>0 DEF TypeOK
  <2>3. TypeOK'
    BY <1>0, <1>4, <2>0, <2>2 DEF TypeOK
  <2>4. LoopShape'
    BY <1>0, <1>4, <2>0 DEF LoopShape
  <2>5. \A id \in DOMAIN orig : \A l \in Nat : <<i, l>> \in Hits(crds, id) => l < 1
    BY <1>1, <2>1, <2>2, HitsAt
  <2>6. AnnotatedIn(crds, orig, Before(i, 1)) = AnnotatedIn(crds, orig, Before(i + 1, 1))
    BY <1>1, <2>2, <2>5, InRowDone
  <2>7. pc = "crds" /\ Cursor = 1 /\ Cursor' = 1
    BY <1>4, <2>0 DEF Cursor
  <2>8. QED
    BY <1>0, <1>4, <2>3, <2>4, <2>6, <2>7, <2>0 DEF LoopInv, AnnotatedWhenListed
<1>5. CASE EnterCrd
  <2>0. /\ pc = "crds" /\ i <= Len(crds) /\ pc' = "versions" /\ j' = 1
        /\ UNCHANGED <<crds, fails, schemas, orig, i, ret>>
    BY <1>5, Zenon DEF EnterCrd
  <2>1. Accepted(crds[i])
    BY <1>5, Zenon DEF EnterCrd, Accepted
  <2>2. i \in 1..Len(crds)
    BY <1>0, <1>5, <2>0 DEF TypeOK
  <2>3. Len(crds[i].versions) \in Nat
    BY <1>1, <2>2 DEF CRD
  <2>4. TypeOK'
    BY <1>0, <1>5, <2>0 DEF TypeOK
  <2>5. LoopShape'
    BY <1>0, <2>0, <2>1, <2>2, <2>3 DEF LoopShape
  <2>6. pc = "crds" /\ Cursor = 1 /\ Cursor' = 1
    BY <1>5, <2>0 DEF Cursor
  <2>7. QED
    BY <1>0, <1>5, <2>4, <2>5, <2>6, <2>0 DEF LoopInv, AnnotatedWhenListed
<1>6. CASE ForVersion
  <2>1. /\ pc = "versions" /\ i \in 1..Len(crds) /\ Accepted(crds[i])
        /\ j \in 1..Len(crds[i].versions) /\ Cursor = j
    BY <1>0, <1>6 DEF ForVersion, LoopShape, TypeOK, Cursor
  <2>2. crds[i].versions[j] \in Version
    <3>1. crds[i] \in CRD
      BY <1>1, <2>1
    <3>2. crds[i].versions \in Seq(Version)
      BY <3>1, Zenon DEF CRD
    <3>3. QED
      BY <2>1, <3>2
  <2>3. schemas' \in [DOMAIN orig -> Schema]
    BY <1>0, <1>6, <2>2, ForVersionMapType DEF ForVersion, TypeOK
  <2>4. TypeOK'
    BY <1>0, <1>6, <2>1, <2>3 DEF ForVersion, TypeOK
  <2>5. LoopShape'
    BY <1>0, <1>6, <2>1 DEF ForVersion, LoopShape
  <2>6. schemas' = AnnotatedIn(crds, orig, Before(i, j + 1))
    BY <1>0, <1>1, <1>6, <2>1, InStep DEF ForVersion
  <2>7. Cursor' = j + 1
    BY <1>6 DEF ForVersion, Cursor
  <2>8. QED
    BY <1>6, <2>1, <2>4, <2>5, <2>6, <2>7 DEF ForVersion, LoopInv, AnnotatedWhenListed
<1>7. CASE VersionsDone
  <2>1. /\ pc = "versions" /\ i \in 1..Len(crds) /\ j \in Nat /\ Cursor = j
        /\ j > Len(crds[i].versions)
    BY <1>0, <1>7 DEF VersionsDone, LoopShape, TypeOK, Cursor
  <2>2. \A id \in DOMAIN orig : \A l \in Nat : <<i, l>> \in Hits(crds, id) => l < j
    BY <1>1, <2>1, HitsAt
  <2>3. AnnotatedIn(crds, orig, Before(i, j)) = AnnotatedIn(crds, orig, Before(i + 1, 1))
    BY <1>1, <2>1, <2>2, InRowDone
  <2>4. TypeOK'
    BY <1>0, <1>7, <2>1 DEF VersionsDone, TypeOK
  <2>5. LoopShape'
    BY <1>0, <1>7, <2>1 DEF VersionsDone, LoopShape
  <2>6. Cursor' = 1
    BY <1>7 DEF VersionsDone, Cursor
  <2>7. QED
    BY <1>0, <1>7, <2>1, <2>3, <2>4, <2>5, <2>6 DEF VersionsDone, LoopInv, AnnotatedWhenListed
<1>8. CASE Finish
  <2>1. pc = "crds" /\ i \in Nat /\ i > Len(crds) /\ Cursor = 1
    BY <1>0, <1>8 DEF Finish, TypeOK, Cursor
  <2>2. schemas = Annotated(crds, orig)
    BY <1>0, <1>1, <2>1, InEnd
  <2>3. TypeOK'
    BY <1>0, <1>8 DEF Finish, TypeOK
  <2>4. LoopShape'
    BY <1>0, <1>8 DEF Finish, LoopShape
  <2>5. QED
    BY <1>8, <2>2, <2>3, <2>4 DEF Finish, LoopInv, AnnotatedWhenListed
<1>9. CASE UNCHANGED vars
  BY <1>9 DEF vars, LoopInv, TypeOK, LoopShape, AnnotatedWhenListed, Cursor
<1>10. QED
  BY <1>2, <1>3, <1>4, <1>5, <1>6, <1>7, <1>8, <1>9 DEF Next

-----------------------------------------------------------------------------
(***************************************************************************)
(* The theorems.                                                           *)
(***************************************************************************)
LEMMA LoopInvariant == Spec => []LoopInv
BY InitLoopInv, NextLoopInv, PTL DEF Spec

\* Type correctness: in every state of addCustomResources the schemas map
\* keeps discovery's IDs and holds schemas, the loop indexes stay within
\* the CRD list, for every CRD list and every discovered map.
THEOREM CrdTypeCorrect == Spec => []TypeOK
<1>1. LoopInv => TypeOK
  BY DEF LoopInv
<1>2. QED
  BY LoopInvariant, <1>1, PTL

\* When the CRDs could be listed, the map addCustomResources leaves behind
\* is the reference Annotated: each discovered schema carries the columns
\* and description of the last version, in list order, of an accepted CRD
\* that names it, for every CRD list and every discovered map.
THEOREM LoopComputesReference == Spec => []AnnotatedWhenListed
<1>1. LoopInv => AnnotatedWhenListed
  BY DEF LoopInv
<1>2. QED
  BY LoopInvariant, <1>1, PTL

=============================================================================
