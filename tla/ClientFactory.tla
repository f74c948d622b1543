---------------------------- MODULE ClientFactory ----------------------------
(***************************************************************************)
(* The client factory of pkg/client/factory.go.  NewFactory derives four   *)
(* rest.Configs from the caller's one and keeps pointers to them; request  *)
(* goroutines then build clients from those configs, concurrently.         *)
(* The model keeps the configs as a heap of records so that a write       *)
(* through a shared pointer is visible to every later reader, and splits   *)
(* newDynamicClient at its three steps (setupConfig, the WarningHandler    *)
(* write, NewForConfig's copy), between which other goroutines run.        *)
(* A config keeps the fields the factory sets: QPS, Burst, Timeout, the    *)
(* Table wrap and Accept types, the impersonated user and WarningHandler.  *)
(***************************************************************************)
EXTENDS Naturals, Sequences

CONSTANTS
    Procs,          \* goroutines serving requests; Procs also names their warning handlers
    Users,          \* user identities a request's context may carry
    NoUser,         \* a context with no user (request.UserFrom returns ok = false)
    NoHandler,      \* a nil WarningHandler
    CfgQPS,         \* QPS and Burst of the config given to NewFactory
    CfgBurst,
    OptionLists,    \* the opts ... FactoryOption lists NewFactory may be called with
    MaxCalls        \* client builds per goroutine

\* defaultQPS and defaultBurst, lines 21-22.
DefaultQPS == 10000
DefaultBurst == 100

\* WithQPSAndBurst(qps, burst), lines 73-78, as the pair it writes.
QPSBurst == [qps : Nat, burst : Nat]

ASSUME FactoryAssumption ==
    /\ NoUser \notin Users
    /\ NoHandler \notin Procs
    /\ CfgQPS \in Nat /\ CfgBurst \in Nat
    /\ OptionLists \subseteq Seq(QPSBurst)
    /\ MaxCalls \in Nat

\* A rest.Config, reduced to the fields the factory and its callers set.
Config == [qps : Nat, burst : Nat, timeout : {0, 30}, table : BOOLEAN,
           user : Users \cup {NoUser}, handler : Procs \cup {NoHandler}]

\* The Factory's pointer fields.  Config (line 130) aliases watchClientCfg.
SharedPtrs == {"cfg", "client", "watch", "table", "tableWatch"}

Methods == {"K8sInterface", "AdminK8sInterface", "DynamicClient", "Client",
            "AdminClient", "ClientForWatch", "AdminClientForWatch",
            "TableClient", "TableAdminClient", "TableClientForWatch",
            "TableAdminClientForWatch", "MetadataClient", "AdminDynamicClient"}

\* Methods that call setupConfig, and those of them that pass
\* impersonate = false.
SetupMethods == Methods \ {"AdminK8sInterface", "MetadataClient", "AdminDynamicClient"}
AdminMethods == {"AdminClient", "AdminClientForWatch", "TableAdminClient",
                 "TableAdminClientForWatch"}

\* Methods that go through newDynamicClient and so take a WarningHandler.
HandlerMethods == Methods \ {"K8sInterface", "AdminK8sInterface",
                             "MetadataClient", "AdminDynamicClient"}

Outcomes == {"none", "client", "err", "panic"}

VARIABLES
    fac,        \* "none" before NewFactory, then "built" or "failed"
    imp,        \* Factory.impersonate
    heap,       \* the configs the Factory's pointers reach
    md, dyn,    \* configs of the metadata and dynamic clients built by NewFactory
    copies,     \* copies[p]: the config rest.CopyConfig made in p's setupConfig
    pc,         \* "idle", "setHandler" (line 223) or "newFor" (line 228)
    cur,        \* the config pointer p's newDynamicClient holds: a SharedPtr, "copy" or "nil"
    req,        \* p's current call: method, Table attribute of its schema, context user
    out,        \* what p's last call returned
    calls

vars == <<fac, imp, heap, md, dyn, copies, pc, cur, req, out, calls>>

\* The caller's *rest.Config.
BaseCfg == [qps |-> CfgQPS, burst |-> CfgBurst, timeout |-> 0, table |-> FALSE,
            user |-> NoUser, handler |-> NoHandler]

\* options after the loop of lines 85-88: the last option written wins.
EffectiveOptions(opts) ==
    IF opts = << >> THEN [qps |-> DefaultQPS, burst |-> DefaultBurst]
    ELSE opts[Len(opts)]

\* The config pointer a method starts from (lines 146-205); tbl is
\* attributes.Table(s).
Base(m, tbl) ==
    CASE m \in {"ClientForWatch", "AdminClientForWatch"} -> "watch"
      [] m \in {"TableClient", "TableAdminClient"} ->
            IF tbl THEN "table" ELSE "client"
      [] m \in {"TableClientForWatch", "TableAdminClientForWatch"} ->
            IF tbl THEN "tableWatch" ELSE "watch"
      [] OTHER -> "client"

\* The schema's Table attribute is read only by the Table* methods, and the
\* context's user only by an impersonating setupConfig.
TableAttr(m) == IF m \in {"TableClient", "TableAdminClient", "TableClientForWatch",
                          "TableAdminClientForWatch"} THEN BOOLEAN ELSE {FALSE}
ContextUsers == IF imp THEN Users \cup {NoUser} ELSE {NoUser}

\* Whether the method's setupConfig impersonates.
Impersonates(m) == imp /\ m \in SetupMethods \ AdminMethods

\* The config a pointer held by p designates.
Deref(p) == IF cur[p] = "copy" THEN copies[p] ELSE heap[cur[p]]

TypeOK ==
    /\ fac \in {"none", "built", "failed"}
    /\ imp \in BOOLEAN
    /\ heap \in [SharedPtrs -> Config]
    /\ md \in Config /\ dyn \in Config
    /\ copies \in [Procs -> Config]
    /\ pc \in [Procs -> {"idle", "setHandler", "newFor"}]
    /\ cur \in [Procs -> SharedPtrs \cup {"copy", "nil"}]
    /\ req \in [Procs -> [m : Methods, tbl : BOOLEAN, u : Users \cup {NoUser}]]
    /\ out \in [Procs -> [kind : Outcomes, cfg : Config]]
    /\ calls \in [Procs -> 0..MaxCalls]

Init ==
    /\ fac = "none"
    /\ imp = FALSE
    /\ heap = [x \in SharedPtrs |-> BaseCfg]
    /\ md = BaseCfg /\ dyn = BaseCfg
    /\ copies = [p \in Procs |-> BaseCfg]
    /\ pc = [p \in Procs |-> "idle"]
    /\ cur = [p \in Procs |-> "client"]
    /\ req = [p \in Procs |-> [m |-> "Client", tbl |-> FALSE, u |-> NoUser]]
    /\ out = [p \in Procs |-> [kind |-> "none", cfg |-> BaseCfg]]
    /\ calls = [p \in Procs |-> 0]

-----------------------------------------------------------------------------
(* NewFactory, lines 83-132.  The metadata and dynamic clients are built   *)
(* from cfg, the caller's config, not from clientCfg.                      *)

NewFactoryOk(opts, impersonate) ==
    LET o == EffectiveOptions(opts)
        client == [BaseCfg EXCEPT !.qps = o.qps, !.burst = o.burst]
        watch == [client EXCEPT !.timeout = 30]
    IN /\ fac = "none"
       /\ fac' = "built"
       /\ imp' = impersonate
       /\ heap' = [x \in SharedPtrs |->
                     CASE x = "client" -> client
                       [] x = "watch" -> watch
                       [] x = "table" -> [client EXCEPT !.table = TRUE]
                       [] x = "tableWatch" -> [watch EXCEPT !.table = TRUE]
                       [] OTHER -> BaseCfg]
       /\ md' = heap["cfg"] /\ dyn' = heap["cfg"]
       /\ UNCHANGED <<copies, pc, cur, req, out, calls>>

\* metadata.NewForConfig or dynamic.NewForConfig fails: nil, err.
NewFactoryErr ==
    /\ fac = "none"
    /\ fac' = "failed"
    /\ UNCHANGED <<imp, heap, md, dyn, copies, pc, cur, req, out, calls>>

-----------------------------------------------------------------------------
(* A goroutine p calls one of the Factory's methods.                       *)

StartCall(p) ==
    /\ fac = "built"
    /\ pc[p] = "idle"
    /\ calls[p] < MaxCalls
    /\ calls' = [calls EXCEPT ![p] = @ + 1]

\* A build through newDynamicClient has not returned yet.
Pending(p) == out' = [out EXCEPT ![p].kind = "none"]

\* MetadataClient, AdminDynamicClient, AdminK8sInterface (lines 134-140,
\* 155-157): no setupConfig; the client copies the config it is given.
SharedClient(p, m) ==
    /\ StartCall(p)
    /\ m \in {"MetadataClient", "AdminDynamicClient", "AdminK8sInterface"}
    /\ req' = [req EXCEPT ![p] = [m |-> m, tbl |-> FALSE, u |-> NoUser]]
    /\ out' = [out EXCEPT ![p] =
                 [kind |-> "client",
                  cfg |-> CASE m = "MetadataClient" -> md
                            [] m = "AdminDynamicClient" -> dyn
                            [] OTHER -> heap["client"]]]
    /\ UNCHANGED <<fac, imp, heap, md, dyn, copies, pc, cur>>

\* K8sInterface, lines 146-153, with setupConfig (lines 207-219): the error
\* is checked before the config is used.
K8sInterface(p, u) ==
    /\ StartCall(p)
    /\ req' = [req EXCEPT ![p] = [m |-> "K8sInterface", tbl |-> FALSE, u |-> u]]
    /\ out' = [out EXCEPT ![p] =
                 IF ~imp THEN [kind |-> "client", cfg |-> heap["client"]]
                 ELSE IF u = NoUser THEN [kind |-> "err", cfg |-> BaseCfg]
                 ELSE [kind |-> "client", cfg |-> [heap["client"] EXCEPT !.user = u]]]
    /\ UNCHANGED <<fac, imp, heap, md, dyn, copies, pc, cur>>

\* newClient -> newDynamicClient -> setupConfig (lines 163-205, 207-222,
\* 231-232), in its three outcomes.  Without impersonation setupConfig
\* returns the Factory's own pointer.
BuildShared(p, m, tbl) ==
    /\ StartCall(p)
    /\ m \in HandlerMethods
    /\ ~Impersonates(m)
    /\ req' = [req EXCEPT ![p] = [m |-> m, tbl |-> tbl, u |-> NoUser]]
    /\ cur' = [cur EXCEPT ![p] = Base(m, tbl)]
    /\ pc' = [pc EXCEPT ![p] = "setHandler"]
    /\ Pending(p)
    /\ UNCHANGED <<fac, imp, heap, md, dyn, copies>>

\* Mutant of BuildCopy: setupConfig without rest.CopyConfig, setting the
\* Impersonate fields on the Factory's own config.
BuildCopyInPlace(p, m, tbl, u) ==
    /\ StartCall(p)
    /\ m \in HandlerMethods
    /\ Impersonates(m)
    /\ u # NoUser
    /\ req' = [req EXCEPT ![p] = [m |-> m, tbl |-> tbl, u |-> u]]
    /\ heap' = [heap EXCEPT ![Base(m, tbl)].user = u]
    /\ cur' = [cur EXCEPT ![p] = Base(m, tbl)]
    /\ pc' = [pc EXCEPT ![p] = "setHandler"]
    /\ Pending(p)
    /\ UNCHANGED <<fac, imp, md, dyn, copies>>

\* Impersonating with a user: rest.CopyConfig and the Impersonate fields.
BuildCopy(p, m, tbl, u) ==
    /\ StartCall(p)
    /\ m \in HandlerMethods
    /\ Impersonates(m)
    /\ u # NoUser
    /\ req' = [req EXCEPT ![p] = [m |-> m, tbl |-> tbl, u |-> u]]
    /\ copies' = [copies EXCEPT ![p] = [heap[Base(m, tbl)] EXCEPT !.user = u]]
    /\ cur' = [cur EXCEPT ![p] = "copy"]
    /\ pc' = [pc EXCEPT ![p] = "setHandler"]
    /\ Pending(p)
    /\ UNCHANGED <<fac, imp, heap, md, dyn>>

\* Impersonating, no user in the context: setupConfig returns nil, err.
BuildNoUser(p, m, tbl) ==
    /\ StartCall(p)
    /\ m \in HandlerMethods
    /\ Impersonates(m)
    /\ req' = [req EXCEPT ![p] = [m |-> m, tbl |-> tbl, u |-> NoUser]]
    /\ cur' = [cur EXCEPT ![p] = "nil"]
    /\ pc' = [pc EXCEPT ![p] = "setHandler"]
    /\ Pending(p)
    /\ UNCHANGED <<fac, imp, heap, md, dyn, copies>>

\* newDynamicClient returns; its locals, cfg and the copy, are dead.
Return(p) ==
    /\ pc' = [pc EXCEPT ![p] = "idle"]
    /\ cur' = [cur EXCEPT ![p] = "client"]
    /\ copies' = [copies EXCEPT ![p] = BaseCfg]

\* Line 223, cfg.WarningHandler = warningHandler, before err is checked.
\* Through a nil cfg it panics; net/http recovers and the request ends.
SetHandlerPanic(p) ==
    /\ pc[p] = "setHandler"
    /\ cur[p] = "nil"
    /\ out' = [out EXCEPT ![p] = [kind |-> "panic", cfg |-> BaseCfg]]
    /\ Return(p)
    /\ UNCHANGED <<fac, imp, heap, md, dyn, req, calls>>

SetHandler(p) ==
    /\ pc[p] = "setHandler"
    /\ cur[p] # "nil"
    /\ IF cur[p] = "copy"
         THEN /\ copies' = [copies EXCEPT ![p].handler = p]
              /\ UNCHANGED heap
         ELSE /\ heap' = [heap EXCEPT ![cur[p]].handler = p]
              /\ UNCHANGED copies
    /\ pc' = [pc EXCEPT ![p] = "newFor"]
    /\ UNCHANGED <<fac, imp, md, dyn, cur, req, out, calls>>

\* Lines 224-228 and 233-238: err is nil here (a nil cfg has panicked), and
\* dynamic.NewForConfig copies the config the pointer designates now.
NewForConfig(p) ==
    /\ pc[p] = "newFor"
    /\ out' = [out EXCEPT ![p] = [kind |-> "client", cfg |-> Deref(p)]]
    /\ Return(p)
    /\ UNCHANGED <<fac, imp, heap, md, dyn, req, calls>>

Next ==
    \/ \E opts \in OptionLists, i \in BOOLEAN : NewFactoryOk(opts, i)
    \/ NewFactoryErr
    \/ \E p \in Procs :
        \/ \E m \in Methods : SharedClient(p, m)
        \/ \E u \in ContextUsers : K8sInterface(p, u)
        \/ \E m \in Methods : \E tbl \in TableAttr(m) :
            \/ BuildShared(p, m, tbl)
            \/ \E u \in Users : BuildCopy(p, m, tbl, u)
            \/ BuildNoUser(p, m, tbl)
        \/ SetHandlerPanic(p)
        \/ SetHandler(p)
        \/ NewForConfig(p)

Spec == Init /\ [][Next]_vars

-----------------------------------------------------------------------------
(* Properties.                                                             *)

\* Whether p's last call handed out a client.
Built(p) == out[p].kind = "client"

\* The client p's last call returned carries p's identity.
ScopedClient(p) ==
    /\ out[p].cfg.user = IF Impersonates(req[p].m) THEN req[p].u ELSE NoUser
    /\ Impersonates(req[p].m) /\ req[p].m \in HandlerMethods => out[p].cfg.handler = p

\* A client carries the identity of its own request and nobody else's: a
\* client of an impersonating method acts as the request's user (and warns
\* that request's handler), and every other client, admin ones included,
\* acts as the service account.  It fails if setupConfig's impersonation
\* fields reach a config another goroutine builds from.
RequestScopedConfig == \A p \in Procs : Built(p) => ScopedClient(p)

\* Every client built through newDynamicClient reports API warnings to the
\* handler of the request that built it (line 223 writes it into the
\* config the client is made from).
OwnWarningHandler ==
    \A p \in Procs : Built(p) /\ req[p].m \in HandlerMethods =>
        out[p].cfg.handler = p

\* The inductive strengthening of RequestScopedConfig (proved in
\* ClientFactoryProofs): the Factory's configs and the admin clients' never
\* carry an impersonated user, and a build in progress holds either its own
\* copy, made for its own user, or a shared config without impersonation.
BuildInv(p) ==
    pc[p] # "idle" =>
        /\ req[p].m \in HandlerMethods
        /\ out[p].kind = "none"
        /\ cur[p] = "copy" =>
              /\ Impersonates(req[p].m)
              /\ copies[p].user = req[p].u
              /\ pc[p] = "newFor" => copies[p].handler = p
        /\ cur[p] \in SharedPtrs => ~Impersonates(req[p].m)
        /\ cur[p] = "nil" => pc[p] = "setHandler"

\* No shared config, and neither admin client of NewFactory, impersonates.
SharedUnimpersonated ==
    /\ \A x \in SharedPtrs : heap[x].user = NoUser
    /\ md.user = NoUser /\ dyn.user = NoUser

ScopedInv ==
    /\ TypeOK
    /\ fac # "built" => \A p \in Procs : pc[p] = "idle" /\ out[p].kind = "none"
    /\ SharedUnimpersonated
    /\ \A p \in Procs : BuildInv(p)
    /\ RequestScopedConfig

=============================================================================
