------------------------ MODULE MC_SchemaCollection ------------------------
(***************************************************************************)
(* Small instances of SchemaCollection: two users, two request           *)
(* goroutines, four schemas and the access sets chosen so that every      *)
(* branch of schemasForSubject is taken.                                   *)
(***************************************************************************)
EXTENDS SchemaCollection, TLC

CONSTANTS u1, u2, r1, r2, r3

MCUsers == {u1, u2}
\* One request goroutine per user.
MCReqs == {r1, r3}
MCOwner == (r1 :> u1) @@ (r3 :> u2)
\* Two request goroutines of u1: concurrent requests of one user.
MCReqsSameUser == {r1, r2}
MCOwnerSameUser == (r1 :> u1) @@ (r2 :> u1)

AllVerbs == {"get", "list", "watch", "delete", "update", "create", "patch"}

Schema(g, res, nsd, dis) ==
    [group |-> g, resource |-> res, namespaced |-> nsd, verbs |-> AllVerbs,
     disallow |-> dis, coll |-> <<>>, res |-> <<>>]

\* namespaces (cluster-scoped), pods (namespaced, DELETE disallowed),
\* nodes (cluster-scoped), and a schema with no group/resource.
MCSchemaIds == {"namespaces", "pods", "nodes", "raw"}
MCSchemaDefs ==
    ("namespaces" :> Schema("", "namespaces", FALSE, {}))
    @@ ("pods" :> Schema("", "pods", TRUE, {"DELETE"}))
    @@ ("nodes" :> Schema("", "nodes", FALSE, {}))
    @@ ("raw" :> Schema("", "", FALSE, {}))

Grant(v, res, ns, name) ==
    [verb |-> v, group |-> "", resource |-> res, ns |-> ns, name |-> name]

\* No grant and no namespace: the namespace rule with an empty list.
ANone == [grants |-> {}, namespaces |-> {}]
\* Pods in n1 and delete everywhere; may get namespace n1.
APods == [grants |-> {Grant("get", "pods", "n1", "*"),
                      Grant("delete", "pods", "*", "*")},
          namespaces |-> {"n1"}]
\* list on nodes in n1 only (trimmed), update on every node, create pods.
ANodes == [grants |-> {Grant("list", "nodes", "n1", "*"),
                       Grant("update", "nodes", "*", "*"),
                       Grant("create", "pods", "n1", "*")},
           namespaces |-> {"n1"}]
\* Only watch on namespaces: a direct verb that gives no method.
AWatchNs == [grants |-> {Grant("watch", "namespaces", "*", "*")},
             namespaces |-> {}]

MCAccessSets == {ANone, APods, ANodes}
MCAccessSetsWatch == {ANone, AWatchNs}
=============================================================================
