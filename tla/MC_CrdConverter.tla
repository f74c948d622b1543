--------------------------- MODULE MC_CrdConverter ---------------------------
EXTENDS CrdConverter, TLC

\* Printer columns: an age column and a phase column.
C1 == [name |-> "Age", jsonPath |-> ".metadata.creationTimestamp", type |-> "date", format |-> ""]
C2 == [name |-> "Phase", jsonPath |-> ".status.phase", type |-> "string", format |-> ""]

MCPrinterCols == {C1, C2}
MCDescs == {"", "d0", "d1"}

Ver(n, cols, sch) == [name |-> n, cols |-> cols, schema |-> sch]

\* v1 in every shape forVersion tells apart; v2 with or without columns and
\* a description.
V1s == {Ver("v1", c, x) : c \in {<< >>, <<C1>>}, x \in {NoSchema, NoOpenAPI, "", "d1"}}
V2s == {Ver("v2", c, x) : c \in {<< >>, <<C2>>}, x \in {NoOpenAPI, "d1"}}
VersionLists == {<<v>> : v \in V1s} \cup {<<v, w>> : v \in V1s, w \in V2s}

Crd(k, pl, vs) == [group |-> "g", kind |-> k, plural |-> pl, versions |-> vs]

\* A second CRD for the same kind whose names were not accepted (its
\* accepted names are empty), and an accepted CRD with no discovered schema.
Unaccepted == Crd("", "", <<Ver("v1", <<C2>>, "d0")>>)
Bar == Crd("Bar", "bars", <<Ver("v1", <<C2>>, "d0")>>)

MCCRDLists ==
    UNION {{<<Crd("Foo", "foos", vs)>>, <<Unaccepted, Crd("Foo", "foos", vs)>>,
            <<Crd("Foo", "foos", vs), Bar>>} : vs \in VersionLists}

Disc(c) == [crd |-> FALSE, columns |-> c, description |-> "d0"]

\* Discovery found Foo v1, and perhaps Foo v2, with or without columns.
MCSchemaMaps ==
    {(SchemaId("g", "v1", "Foo") :> Disc(c)) : c \in {<< >>, <<ToColumn(C2)>>}}
    \cup
    {(SchemaId("g", "v1", "Foo") :> Disc(c)) @@ (SchemaId("g", "v2", "Foo") :> Disc(d)) :
        c \in {<< >>, <<ToColumn(C2)>>}, d \in {<< >>, <<ToColumn(C1)>>}}
=============================================================================
