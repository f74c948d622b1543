---------------------------- MODULE CrdConverter ----------------------------
(***************************************************************************)
(* addCustomResources and forVersion of pkg/schema/converter/crd.go.  The  *)
(* function lists the CRDs and, for every version of every accepted CRD,   *)
(* annotates the schema that discovery made for that group/version/kind:   *)
(* the CRD attribute, the printer columns when there are any, and the      *)
(* description of the OpenAPI v3 schema when there is one.  The model      *)
(* takes one step per CRD and per version, in list order.                  *)
(***************************************************************************)
EXTENDS Naturals, Sequences

CONSTANTS
    VersionNames,
    Descs,          \* descriptions an OpenAPI v3 schema may carry
    NoSchema,       \* version.Schema == nil
    NoOpenAPI,      \* version.Schema.OpenAPIV3Schema == nil
    PrinterCols,    \* additional printer columns, as CRD objects give them
    CRDLists,       \* crds.crds the List call may return
    SchemaMaps,     \* the schemas map discovery may have built
    CanFail         \* whether the List call may fail

\* An entry of crd.Spec.Versions: its Name, AdditionalPrinterColumns and
\* Schema, which is nil, has a nil OpenAPIV3Schema, or has a description.
Version == [name : VersionNames, cols : Seq(PrinterCols),
            schema : Descs \cup {NoSchema, NoOpenAPI}]

\* table.Column, line 56: the printer column with JSONPath as Field.
ToColumn(col) ==
    [name |-> col.name, field |-> col.jsonPath, type |-> col.type, format |-> col.format]

\* GVKToVersionedSchemaID: one schema ID per group, version and kind.
SchemaId(g, v, k) == <<g, v, k>>

\* The columns a schema may carry.
Columns == {ToColumn(c) : c \in PrinterCols}

\* The schema's fields forVersion writes: attributes.MarkCRD,
\* attributes.SetColumns and Description.
Schema == [crd : BOOLEAN, columns : Seq(Columns), description : Descs \cup {""}]

\* A CRD object, reduced to what addCustomResources reads: Spec.Group,
\* Status.AcceptedNames.Kind and .Plural, and Spec.Versions.
CRD == [group : STRING, kind : STRING, plural : STRING, versions : Seq(Version)]

ASSUME CrdAssumption ==
    /\ NoSchema \notin Descs /\ NoOpenAPI \notin Descs /\ NoSchema # NoOpenAPI
    /\ CanFail \in BOOLEAN
    /\ CRDLists \subseteq Seq(CRD)
    /\ \A sm \in SchemaMaps : sm \in [DOMAIN sm -> Schema]

VARIABLES
    pc,         \* "list", "crds", "versions" or "done"
    crds,       \* the CRDs in the cluster
    fails,      \* whether crd.List fails
    schemas,    \* the schemas map, updated in place
    orig,       \* the schemas map as addCustomResources received it
    i, j,       \* the loop indexes over crds.crds and crd.Spec.Versions
    ret         \* the returned error: "nil" once returned

vars == <<pc, crds, fails, schemas, orig, i, j, ret>>

TypeOK ==
    /\ pc \in {"list", "crds", "versions", "done"}
    /\ crds \in CRDLists
    /\ fails \in BOOLEAN
    /\ schemas \in [DOMAIN orig -> Schema]
    /\ i \in 1..Len(crds) + 1
    /\ j \in Nat \ {0}
    /\ ret \in {"none", "nil"}

Init ==
    /\ pc = "list"
    /\ crds \in CRDLists
    /\ fails \in IF CanFail THEN BOOLEAN ELSE {FALSE}
    /\ schemas \in SchemaMaps
    /\ orig = schemas
    /\ i = 1 /\ j = 1
    /\ ret = "none"

\* Mutant of Annotate: SetColumns called without the len(versionColumns)
\* check, so a version without printer columns clears the schema's columns.
AnnotateAlwaysColumns(s, v) ==
    [crd |-> TRUE,
     columns |-> [n \in 1..Len(v.cols) |-> ToColumn(v.cols[n])],
     description |-> IF v.schema \in Descs THEN v.schema ELSE s.description]

\* forVersion, lines 53-81, applied to one schema: the three fields it
\* writes, each kept when its condition fails.
Annotate(s, v) ==
    [crd |-> TRUE,
     columns |-> IF v.cols # << >>
                   THEN [n \in 1..Len(v.cols) |-> ToColumn(v.cols[n])]
                   ELSE s.columns,
     description |-> IF v.schema \in Descs THEN v.schema ELSE s.description]

\* Mutant of ForVersionMap: a schema missing from the map is created
\* instead of skipped (the nil check of line 71 dropped).
ForVersionMapCreates(sm, g, k, v) ==
    LET id == SchemaId(g, v.name, k)
        blank == [crd |-> FALSE, columns |-> << >>, description |-> ""]
    IN [x \in DOMAIN sm \cup {id} |->
          IF x = id THEN Annotate(IF id \in DOMAIN sm THEN sm[id] ELSE blank, v)
          ELSE sm[x]]

\* forVersion on the schemas map: a schema that is absent is left absent.
ForVersionMap(sm, g, k, v) ==
    LET id == SchemaId(g, v.name, k)
    IN IF id \in DOMAIN sm THEN [sm EXCEPT ![id] = Annotate(@, v)] ELSE sm

-----------------------------------------------------------------------------

\* Lines 33-36: the List call; its error is dropped and nil returned.
ListErr ==
    /\ pc = "list"
    /\ fails
    /\ pc' = "done" /\ ret' = "nil"
    /\ UNCHANGED <<crds, fails, schemas, orig, i, j>>

ListOk ==
    /\ pc = "list"
    /\ ~fails
    /\ pc' = "crds"
    /\ UNCHANGED <<crds, fails, schemas, orig, i, j, ret>>

\* Lines 38-44: a CRD whose names were not accepted is skipped; the others
\* go on to their versions.
SkipCrd ==
    /\ pc = "crds"
    /\ i <= Len(crds)
    /\ crds[i].plural = ""
    /\ i' = i + 1
    /\ UNCHANGED <<pc, crds, fails, schemas, orig, j, ret>>

EnterCrd ==
    /\ pc = "crds"
    /\ i <= Len(crds)
    /\ crds[i].plural # ""
    /\ pc' = "versions" /\ j' = 1
    /\ UNCHANGED <<crds, fails, schemas, orig, i, ret>>

\* Lines 45-47: forVersion for the next version of the current CRD.
ForVersion ==
    /\ pc = "versions"
    /\ j <= Len(crds[i].versions)
    /\ schemas' = ForVersionMap(schemas, crds[i].group, crds[i].kind,
                                crds[i].versions[j])
    /\ j' = j + 1
    /\ UNCHANGED <<pc, crds, fails, orig, i, ret>>

VersionsDone ==
    /\ pc = "versions"
    /\ j > Len(crds[i].versions)
    /\ pc' = "crds" /\ i' = i + 1
    /\ UNCHANGED <<crds, fails, schemas, orig, j, ret>>

\* Line 50.
Finish ==
    /\ pc = "crds"
    /\ i > Len(crds)
    /\ pc' = "done" /\ ret' = "nil"
    /\ UNCHANGED <<crds, fails, schemas, orig, i, j>>

Next == ListErr \/ ListOk \/ SkipCrd \/ EnterCrd \/ ForVersion \/ VersionsDone \/ Finish

Spec == Init /\ [][Next]_vars

-----------------------------------------------------------------------------
(* The reference: what the annotated map is, stated over the whole CRD     *)
(* list at once.  A schema is marked when some version of an accepted CRD  *)
(* names it; its columns and description are those of the last such        *)
(* version in list order that has any, else discovery's.                   *)

\* The (CRD, version) positions that name schema id.
Hits(cl, id) ==
    {h \in UNION {{k} \X DOMAIN cl[k].versions : k \in DOMAIN cl} :
        /\ cl[h[1]].plural # ""
        /\ SchemaId(cl[h[1]].group, cl[h[1]].versions[h[2]].name, cl[h[1]].kind) = id}

Latest(H) == CHOOSE h \in H : \A x \in H :
                 x[1] < h[1] \/ (x[1] = h[1] /\ x[2] <= h[2])

VersionAt(cl, h) == cl[h[1]].versions[h[2]]

\* A discovered schema s annotated by the versions at positions H.
AnnotatedEntry(cl, s, H) ==
    LET HC == {h \in H : VersionAt(cl, h).cols # << >>}
        HD == {h \in H : VersionAt(cl, h).schema \in Descs}
    IN [crd |-> s.crd \/ H # {},
        columns |-> IF HC = {} THEN s.columns
                    ELSE LET v == VersionAt(cl, Latest(HC))
                         IN [n \in 1..Len(v.cols) |-> ToColumn(v.cols[n])],
        description |-> IF HD = {} THEN s.description
                        ELSE VersionAt(cl, Latest(HD)).schema]

Annotated(cl, sm) == [id \in DOMAIN sm |-> AnnotatedEntry(cl, sm[id], Hits(cl, id))]

\* When the CRDs could be listed, addCustomResources leaves every discovered
\* schema annotated from the last version of an accepted CRD that names it,
\* creates no schema, and touches no schema no accepted CRD names.
AnnotatedWhenListed == pc = "done" /\ ~fails => schemas = Annotated(crds, orig)

\* addCustomResources returns nil only after it annotated the schemas of the
\* CRDs in the cluster (its doc comment: it provides field definitions to
\* the discovered schemas).
NilMeansAnnotated == ret = "nil" => schemas = Annotated(crds, orig)

=============================================================================
