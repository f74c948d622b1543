------------------------ MODULE ClientFactoryProofs ------------------------
(***************************************************************************)
(* Proofs about ClientFactory, for every set of goroutines and users and   *)
(* every option list: the type invariant, and that every client carries    *)
(* its own request's identity (RequestScopedConfig).                       *)
(*                                                                         *)
(* RequestScopedConfig speaks only of returned clients; it is inductive    *)
(* with ScopedInv, which adds what a build in progress holds: the shared   *)
(* configs never get an impersonated user, and a build on its own copy     *)
(* has set that copy's user (and, at NewForConfig, its handler).           *)
(***************************************************************************)
EXTENDS ClientFactory, TLAPS

\* Updates of a config keep it a Config and set just the field written.
LEMMA ConfigUpdates ==
    ASSUME NEW c \in Config
    PROVE  /\ \A u \in Users : /\ [c EXCEPT !.user = u] \in Config
                               /\ [c EXCEPT !.user = u].user = u
           /\ \A p \in Procs : /\ [c EXCEPT !.handler = p] \in Config
                               /\ [c EXCEPT !.handler = p].handler = p
                               /\ [c EXCEPT !.handler = p].user = c.user
<1>1. \A u \in Users : [c EXCEPT !.user = u] \in Config
  BY Zenon DEF Config
<1>2. \A p \in Procs : [c EXCEPT !.handler = p] \in Config
  BY Zenon DEF Config
<1>3. QED
  BY <1>1, <1>2 DEF Config

LEMMA BaseCfgType == BaseCfg \in Config /\ BaseCfg.user = NoUser
BY FactoryAssumption DEF BaseCfg, Config


LEMMA EffectiveOptionsType ==
    ASSUME NEW opts \in OptionLists PROVE EffectiveOptions(opts) \in QPSBurst
<1>1. opts \in Seq(QPSBurst)
  BY FactoryAssumption
<1>2. CASE opts = << >>
  BY <1>2 DEF EffectiveOptions, QPSBurst, DefaultQPS, DefaultBurst
<1>3. CASE opts # << >>
  <2>1. Len(opts) \in 1..Len(opts)
    BY <1>1, <1>3
  <2>2. QED
    BY <1>1, <1>3, <2>1 DEF EffectiveOptions
<1>4. QED
  BY <1>2, <1>3

\* The configs NewFactory derives are Configs without impersonation.
LEMMA DerivedConfigs ==
    ASSUME NEW o \in QPSBurst
    PROVE  LET client == [BaseCfg EXCEPT !.qps = o.qps, !.burst = o.burst]
               watch == [client EXCEPT !.timeout = 30]
           IN  /\ client \in Config /\ client.user = NoUser
               /\ watch \in Config /\ watch.user = NoUser
               /\ [client EXCEPT !.table = TRUE] \in Config
               /\ [client EXCEPT !.table = TRUE].user = NoUser
               /\ [watch EXCEPT !.table = TRUE] \in Config
               /\ [watch EXCEPT !.table = TRUE].user = NoUser
<1>1. o.qps \in Nat /\ o.burst \in Nat
  BY DEF QPSBurst
<1>2. QED
  BY <1>1, BaseCfgType, Zenon DEF Config

-----------------------------------------------------------------------------

LEMMA InitScoped == Init => ScopedInv
<1> SUFFICES ASSUME Init PROVE ScopedInv
  OBVIOUS
<1>1. heap \in [SharedPtrs -> Config] /\ md \in Config /\ dyn \in Config
     /\ copies \in [Procs -> Config]
  BY BaseCfgType DEF Init
<1>2. req \in [Procs -> [m : Methods, tbl : BOOLEAN, u : Users \cup {NoUser}]]
  BY DEF Init, Methods
<1>3. out \in [Procs -> [kind : Outcomes, cfg : Config]]
  BY BaseCfgType DEF Init, Outcomes
<1>4. cur \in [Procs -> SharedPtrs \cup {"copy", "nil"}]
  BY DEF Init, SharedPtrs
<1>5. calls \in [Procs -> 0..MaxCalls]
  BY FactoryAssumption DEF Init
<1>6. TypeOK
  BY <1>1, <1>2, <1>3, <1>4, <1>5 DEF Init, TypeOK
<1>7. QED
  BY <1>6, BaseCfgType DEF Init, ScopedInv, SharedUnimpersonated, BuildInv, RequestScopedConfig, ScopedClient, Built


\* NewFactory: nothing has been built before, so the choice of impersonate
\* meets no earlier client or build.
LEMMA NewFactoryOkScoped ==
    ASSUME ScopedInv, NEW opts \in OptionLists, NEW i \in BOOLEAN,
           NewFactoryOk(opts, i)
    PROVE  ScopedInv'
<1> DEFINE o == EffectiveOptions(opts)
           client == [BaseCfg EXCEPT !.qps = o.qps, !.burst = o.burst]
           watch == [client EXCEPT !.timeout = 30]
<1>1. o \in QPSBurst
  BY EffectiveOptionsType
<1>2. /\ client \in Config /\ client.user = NoUser
      /\ watch \in Config /\ watch.user = NoUser
      /\ [client EXCEPT !.table = TRUE] \in Config
      /\ [client EXCEPT !.table = TRUE].user = NoUser
      /\ [watch EXCEPT !.table = TRUE] \in Config
      /\ [watch EXCEPT !.table = TRUE].user = NoUser
  BY <1>1, DerivedConfigs
<1>3. heap' = [x \in SharedPtrs |->
                 CASE x = "client" -> client
                   [] x = "watch" -> watch
                   [] x = "table" -> [client EXCEPT !.table = TRUE]
                   [] x = "tableWatch" -> [watch EXCEPT !.table = TRUE]
                   [] OTHER -> BaseCfg]
  BY Zenon DEF NewFactoryOk
<1>4. heap' \in [SharedPtrs -> Config] /\ \A x \in SharedPtrs : heap'[x].user = NoUser
  BY <1>2, <1>3, BaseCfgType DEF SharedPtrs
<1>5. \A p \in Procs : pc[p] = "idle" /\ out[p].kind = "none"
  BY DEF NewFactoryOk, ScopedInv
<1>6. /\ fac' = "built" /\ imp' = i /\ md' = heap["cfg"] /\ dyn' = heap["cfg"]
      /\ UNCHANGED <<copies, pc, cur, req, out, calls>>
  BY DEF NewFactoryOk
<1>7. heap["cfg"] \in Config /\ heap["cfg"].user = NoUser
  BY DEF ScopedInv, SharedUnimpersonated, BuildInv, TypeOK, SharedPtrs
<1>8. TypeOK'
  BY <1>4, <1>6, <1>7 DEF ScopedInv, SharedUnimpersonated, BuildInv, TypeOK
<1>9. QED
  BY <1>4, <1>5, <1>6, <1>7, <1>8 DEF ScopedInv, SharedUnimpersonated, BuildInv, RequestScopedConfig, ScopedClient, Built


LEMMA NewFactoryErrScoped ==
    ASSUME ScopedInv, NewFactoryErr PROVE ScopedInv'
BY DEF NewFactoryErr, ScopedInv, SharedUnimpersonated, BuildInv, TypeOK, RequestScopedConfig, ScopedClient, Built, Impersonates

\* StartCall's effect on calls keeps its type.
LEMMA StartCallType ==
    ASSUME TypeOK, NEW p \in Procs, StartCall(p) PROVE calls' \in [Procs -> 0..MaxCalls]
BY FactoryAssumption DEF StartCall, TypeOK

\* The three methods without setupConfig return a service-account client.
LEMMA SharedClientScoped ==
    ASSUME ScopedInv, NEW p \in Procs, NEW m \in Methods, SharedClient(p, m)
    PROVE  ScopedInv'
<1>1. m \notin SetupMethods
  BY DEF SharedClient, SetupMethods
<1>2. ~Impersonates(m) /\ ~(Impersonates(m)')
  BY <1>1 DEF Impersonates
<1>3. /\ fac = "built" /\ pc[p] = "idle"
      /\ UNCHANGED <<fac, imp, heap, md, dyn, copies, pc, cur>>
  BY DEF SharedClient, StartCall
<1> DEFINE c == CASE m = "MetadataClient" -> md
                  [] m = "AdminDynamicClient" -> dyn
                  [] OTHER -> heap["client"]
<1>4. c \in Config /\ c.user = NoUser
  BY DEF ScopedInv, SharedUnimpersonated, BuildInv, TypeOK, SharedPtrs
<1>5. out' = [out EXCEPT ![p] = [kind |-> "client", cfg |-> c]]
      /\ req' = [req EXCEPT ![p] = [m |-> m, tbl |-> FALSE, u |-> NoUser]]
  BY DEF SharedClient
<1>6. calls' \in [Procs -> 0..MaxCalls]
  BY StartCallType DEF SharedClient, ScopedInv
<1>7. TypeOK'
  BY <1>3, <1>4, <1>5, <1>6 DEF ScopedInv, SharedUnimpersonated, BuildInv, TypeOK, Outcomes
<1>8. HandlerMethods \cap {m} = {}
  BY DEF SharedClient, HandlerMethods
<1>9. \A q \in Procs : pc'[q] # "idle" => q # p
  BY <1>3
<1>10. RequestScopedConfig'
  BY <1>2, <1>3, <1>4, <1>5, <1>7 DEF ScopedInv, SharedUnimpersonated, BuildInv, RequestScopedConfig, ScopedClient, Built, TypeOK, Impersonates
<1>11. QED
  BY <1>3, <1>5, <1>7, <1>9, <1>10 DEF ScopedInv, SharedUnimpersonated, BuildInv, Impersonates


\* K8sInterface checks setupConfig's error before it uses the config.
LEMMA K8sInterfaceScoped ==
    ASSUME ScopedInv, NEW p \in Procs, NEW u \in ContextUsers, K8sInterface(p, u)
    PROVE  ScopedInv'
<1>1. /\ fac = "built" /\ pc[p] = "idle"
      /\ UNCHANGED <<fac, imp, heap, md, dyn, copies, pc, cur>>
  BY DEF K8sInterface, StartCall
<1>2. u \in Users \cup {NoUser}
  BY DEF ContextUsers
<1>3. (Impersonates("K8sInterface") <=> imp) /\ "K8sInterface" \notin HandlerMethods
  BY DEF Impersonates, SetupMethods, AdminMethods, Methods, HandlerMethods
<1>4. heap["client"] \in Config /\ heap["client"].user = NoUser
  BY DEF ScopedInv, SharedUnimpersonated, BuildInv, TypeOK, SharedPtrs
<1>5. imp /\ u # NoUser =>
        /\ [heap["client"] EXCEPT !.user = u] \in Config
        /\ [heap["client"] EXCEPT !.user = u].user = u
  BY <1>2, <1>4, ConfigUpdates
<1> DEFINE r == IF ~imp THEN [kind |-> "client", cfg |-> heap["client"]]
                ELSE IF u = NoUser THEN [kind |-> "err", cfg |-> BaseCfg]
                ELSE [kind |-> "client", cfg |-> [heap["client"] EXCEPT !.user = u]]
<1>6. out' = [out EXCEPT ![p] = r]
      /\ req' = [req EXCEPT ![p] = [m |-> "K8sInterface", tbl |-> FALSE, u |-> u]]
  BY DEF K8sInterface
<1>7. r \in [kind : Outcomes, cfg : Config]
      /\ (r.kind = "client" => r.cfg.user = IF imp THEN u ELSE NoUser)
  BY <1>4, <1>5, BaseCfgType DEF Outcomes
<1>8. calls' \in [Procs -> 0..MaxCalls]
  BY StartCallType DEF K8sInterface, ScopedInv
<1>9. TypeOK'
  BY <1>1, <1>2, <1>6, <1>7, <1>8 DEF ScopedInv, SharedUnimpersonated, BuildInv, TypeOK, Methods
<1>10. RequestScopedConfig'
  BY <1>1, <1>3, <1>6, <1>7, <1>9 DEF ScopedInv, SharedUnimpersonated, BuildInv, RequestScopedConfig, ScopedClient, Built, TypeOK, Impersonates
<1>11. QED
  BY <1>1, <1>6, <1>9, <1>10 DEF ScopedInv, SharedUnimpersonated, BuildInv, Impersonates

\* Pending keeps out typed and only marks p's entry.
LEMMA PendingType ==
    ASSUME TypeOK, NEW p \in Procs, Pending(p)
    PROVE  /\ out' \in [Procs -> [kind : Outcomes, cfg : Config]]
           /\ out'[p].kind = "none"
           /\ \A q \in Procs \ {p} : out'[q] = out[q]
<1>1. out[p] \in [kind : Outcomes, cfg : Config]
  BY DEF TypeOK
<1>2. [out[p] EXCEPT !.kind = "none"] \in [kind : Outcomes, cfg : Config]
  BY <1>1, Zenon DEF Outcomes
<1>3. QED
  BY <1>1, <1>2 DEF Pending, TypeOK


LEMMA BaseType ==
    ASSUME NEW m \in Methods, NEW tbl \in BOOLEAN PROVE Base(m, tbl) \in SharedPtrs
BY DEF Base, SharedPtrs

\* What every newDynamicClient start does to p, and leaves to the others.
LEMMA BuildStart ==
    ASSUME ScopedInv, NEW p \in Procs, StartCall(p), Pending(p),
           NEW m \in HandlerMethods, NEW tbl \in BOOLEAN, NEW u \in Users \cup {NoUser},
           req' = [req EXCEPT ![p] = [m |-> m, tbl |-> tbl, u |-> u]],
           pc' = [pc EXCEPT ![p] = "setHandler"],
           NEW k \in SharedPtrs \cup {"copy", "nil"}, cur' = [cur EXCEPT ![p] = k],
           copies' \in [Procs -> Config], \A q \in Procs \ {p} : copies'[q] = copies[q],
           UNCHANGED <<fac, imp, heap, md, dyn>>
    PROVE  /\ TypeOK'
           /\ RequestScopedConfig'
           /\ \A q \in Procs \ {p} :
                 /\ pc'[q] = pc[q] /\ cur'[q] = cur[q] /\ req'[q] = req[q]
                 /\ out'[q] = out[q] /\ copies'[q] = copies[q]
           /\ pc'[p] = "setHandler" /\ out'[p].kind = "none" /\ req'[p].m \in HandlerMethods
           /\ req'[p].u = u /\ cur'[p] = k
<1>1. fac = "built" /\ pc[p] = "idle"
  BY DEF StartCall
<1>2. /\ out' \in [Procs -> [kind : Outcomes, cfg : Config]]
      /\ out'[p].kind = "none"
      /\ \A q \in Procs \ {p} : out'[q] = out[q]
  BY PendingType DEF ScopedInv, SharedUnimpersonated, BuildInv
<1>3. calls' \in [Procs -> 0..MaxCalls]
  BY StartCallType DEF ScopedInv, SharedUnimpersonated, BuildInv
<1>4. m \in Methods
  BY DEF HandlerMethods
<1>5. /\ pc' \in [Procs -> {"idle", "setHandler", "newFor"}]
      /\ cur' \in [Procs -> SharedPtrs \cup {"copy", "nil"}]
      /\ req' \in [Procs -> [m : Methods, tbl : BOOLEAN, u : Users \cup {NoUser}]]
  BY <1>4 DEF ScopedInv, SharedUnimpersonated, BuildInv, TypeOK
<1>6. TypeOK'
  BY <1>2, <1>3, <1>5 DEF ScopedInv, SharedUnimpersonated, BuildInv, TypeOK
<1>7. \A q \in Procs \ {p} : req'[q] = req[q] /\ pc'[q] = pc[q] /\ cur'[q] = cur[q]
  BY DEF ScopedInv, SharedUnimpersonated, BuildInv, TypeOK
<1>8. RequestScopedConfig'
  <2> SUFFICES ASSUME NEW q \in Procs, Built(q)' PROVE ScopedClient(q)'
    BY DEF RequestScopedConfig
  <2>1. q # p
    BY <1>2 DEF Built
  <2>2. out'[q] = out[q] /\ req'[q] = req[q] /\ Built(q)
    BY <2>1, <1>2, <1>7 DEF Built
  <2>3. QED
    BY <2>1, <2>2 DEF ScopedInv, SharedUnimpersonated, BuildInv, RequestScopedConfig, ScopedClient, Impersonates
<1>9. req'[p] = [m |-> m, tbl |-> tbl, u |-> u] /\ cur'[p] = k /\ pc'[p] = "setHandler"
  BY DEF ScopedInv, SharedUnimpersonated, BuildInv, TypeOK
<1>10. QED
  BY <1>2, <1>6, <1>7, <1>8, <1>9

\* A step that leaves q's locals and imp alone keeps q's facts.
LEMMA OtherFrame ==
    ASSUME NEW q \in Procs, imp' = imp,
           pc'[q] = pc[q], cur'[q] = cur[q], req'[q] = req[q],
           out'[q] = out[q], copies'[q] = copies[q]
    PROVE  /\ BuildInv(q)' = BuildInv(q)
           /\ (Built(q) => ScopedClient(q))' = (Built(q) => ScopedClient(q))
BY DEF BuildInv, Built, ScopedClient, Impersonates

LEMMA BuildSharedScoped ==
    ASSUME ScopedInv, NEW p \in Procs, NEW m \in Methods, NEW tbl \in BOOLEAN,
           BuildShared(p, m, tbl)
    PROVE  ScopedInv'
<1>1. Base(m, tbl) \in SharedPtrs
  BY BaseType
<1>2. m \in HandlerMethods /\ ~Impersonates(m) /\ NoUser \in Users \cup {NoUser}
  BY DEF BuildShared
<1>3. /\ TypeOK'
      /\ RequestScopedConfig'
      /\ \A q \in Procs \ {p} :
            /\ pc'[q] = pc[q] /\ cur'[q] = cur[q] /\ req'[q] = req[q]
            /\ out'[q] = out[q] /\ copies'[q] = copies[q]
      /\ pc'[p] = "setHandler" /\ out'[p].kind = "none" /\ req'[p].m \in HandlerMethods
      /\ cur'[p] = Base(m, tbl)
  BY <1>1, <1>2, BuildStart DEF BuildShared, ScopedInv, TypeOK
<1>4. UNCHANGED <<fac, imp, heap, md, dyn>> /\ req'[p].m = m
  BY DEF BuildShared, ScopedInv, TypeOK
<1>5. BuildInv(p)'
  BY <1>1, <1>2, <1>3, <1>4 DEF BuildInv, Impersonates, SharedPtrs
<1>6. \A q \in Procs \ {p} : BuildInv(q)' = BuildInv(q)
  BY <1>3, <1>4, OtherFrame
<1>7. fac' = "built" /\ SharedUnimpersonated'
  BY <1>4 DEF BuildShared, StartCall, ScopedInv, SharedUnimpersonated
<1>8. QED
  BY <1>3, <1>5, <1>6, <1>7 DEF ScopedInv, SharedUnimpersonated, BuildInv


\* Impersonating with a user: the build holds its own copy, made for its
\* user.
LEMMA BuildCopyScoped ==
    ASSUME ScopedInv, NEW p \in Procs, NEW m \in Methods, NEW tbl \in BOOLEAN,
           NEW u \in Users, BuildCopy(p, m, tbl, u)
    PROVE  ScopedInv'
<1>1. Base(m, tbl) \in SharedPtrs
  BY BaseType
<1>2. heap[Base(m, tbl)] \in Config
  BY <1>1 DEF ScopedInv, TypeOK
<1> DEFINE c == [heap[Base(m, tbl)] EXCEPT !.user = u]
<1>3. c \in Config /\ c.user = u
  BY <1>2, ConfigUpdates
<1>4. copies' = [copies EXCEPT ![p] = c]
  BY DEF BuildCopy
<1>5. /\ copies' \in [Procs -> Config]
      /\ \A q \in Procs \ {p} : copies'[q] = copies[q]
      /\ copies'[p] = c
  BY <1>3, <1>4 DEF ScopedInv, TypeOK
<1>6. m \in HandlerMethods /\ Impersonates(m) /\ u \in Users \cup {NoUser}
  BY DEF BuildCopy
<1>7. /\ TypeOK'
      /\ RequestScopedConfig'
      /\ \A q \in Procs \ {p} :
            /\ pc'[q] = pc[q] /\ cur'[q] = cur[q] /\ req'[q] = req[q]
            /\ out'[q] = out[q] /\ copies'[q] = copies[q]
      /\ pc'[p] = "setHandler" /\ out'[p].kind = "none" /\ req'[p].m \in HandlerMethods
      /\ req'[p].u = u /\ cur'[p] = "copy"
  BY <1>5, <1>6, BuildStart DEF BuildCopy
<1>8. UNCHANGED <<fac, imp, heap, md, dyn>> /\ req'[p].m = m
  BY DEF BuildCopy, ScopedInv, TypeOK
<1>9. BuildInv(p)'
  <2>1. Impersonates(req[p].m)'
    BY <1>6, <1>8 DEF Impersonates
  <2>5. copies'[p].user = u
    BY <1>3, <1>5
  <2>6. req'[p].u = u
    BY <1>7
  <2>2. copies'[p].user = req'[p].u
    BY <2>5, <2>6
  <2>3. cur'[p] = "copy" /\ pc'[p] # "newFor" /\ cur'[p] \notin SharedPtrs
    BY <1>7 DEF SharedPtrs
  <2>4. QED
    BY <1>7, <2>1, <2>2, <2>3 DEF BuildInv
<1>10. \A q \in Procs \ {p} : BuildInv(q)' = BuildInv(q)
  BY <1>7, <1>8, OtherFrame
<1>11. fac' = "built" /\ SharedUnimpersonated'
  BY <1>8 DEF BuildCopy, StartCall, ScopedInv, SharedUnimpersonated
<1>12. QED
  BY <1>7, <1>9, <1>10, <1>11 DEF ScopedInv

\* Impersonating without a user: the build holds nil.
LEMMA BuildNoUserScoped ==
    ASSUME ScopedInv, NEW p \in Procs, NEW m \in Methods, NEW tbl \in BOOLEAN,
           BuildNoUser(p, m, tbl)
    PROVE  ScopedInv'
<1>1. m \in HandlerMethods /\ NoUser \in Users \cup {NoUser}
  BY DEF BuildNoUser
<1>2. /\ TypeOK'
      /\ RequestScopedConfig'
      /\ \A q \in Procs \ {p} :
            /\ pc'[q] = pc[q] /\ cur'[q] = cur[q] /\ req'[q] = req[q]
            /\ out'[q] = out[q] /\ copies'[q] = copies[q]
      /\ pc'[p] = "setHandler" /\ out'[p].kind = "none" /\ req'[p].m \in HandlerMethods
      /\ cur'[p] = "nil"
  BY <1>1, BuildStart DEF BuildNoUser, ScopedInv, TypeOK
<1>3. UNCHANGED <<fac, imp, heap, md, dyn>>
  BY DEF BuildNoUser
<1>4. BuildInv(p)'
  BY <1>2 DEF BuildInv, SharedPtrs
<1>5. \A q \in Procs \ {p} : BuildInv(q)' = BuildInv(q)
  BY <1>2, <1>3, OtherFrame
<1>6. fac' = "built" /\ SharedUnimpersonated'
  BY <1>3 DEF BuildNoUser, StartCall, ScopedInv, SharedUnimpersonated
<1>7. QED
  BY <1>2, <1>4, <1>5, <1>6 DEF ScopedInv


\* newDynamicClient's return keeps the locals typed and touches only p's.
LEMMA ReturnType ==
    ASSUME TypeOK, NEW p \in Procs, Return(p)
    PROVE  /\ pc' \in [Procs -> {"idle", "setHandler", "newFor"}]
           /\ cur' \in [Procs -> SharedPtrs \cup {"copy", "nil"}]
           /\ copies' \in [Procs -> Config]
           /\ pc'[p] = "idle"
           /\ \A q \in Procs \ {p} :
                 pc'[q] = pc[q] /\ cur'[q] = cur[q] /\ copies'[q] = copies[q]
BY BaseCfgType DEF Return, TypeOK, SharedPtrs

\* A nil config panics: the request ends without a client.
LEMMA SetHandlerPanicScoped ==
    ASSUME ScopedInv, NEW p \in Procs, SetHandlerPanic(p) PROVE ScopedInv'
<1>1. /\ pc' \in [Procs -> {"idle", "setHandler", "newFor"}]
      /\ cur' \in [Procs -> SharedPtrs \cup {"copy", "nil"}]
      /\ copies' \in [Procs -> Config]
      /\ pc'[p] = "idle"
      /\ \A q \in Procs \ {p} :
            pc'[q] = pc[q] /\ cur'[q] = cur[q] /\ copies'[q] = copies[q]
  BY ReturnType DEF SetHandlerPanic, ScopedInv
<1>2. out' = [out EXCEPT ![p] = [kind |-> "panic", cfg |-> BaseCfg]]
      /\ UNCHANGED <<fac, imp, heap, md, dyn, req, calls>>
  BY DEF SetHandlerPanic
<1>3. /\ out' \in [Procs -> [kind : Outcomes, cfg : Config]]
      /\ ~Built(p)'
      /\ \A q \in Procs \ {p} : out'[q] = out[q]
  BY <1>2, BaseCfgType DEF ScopedInv, TypeOK, Outcomes, Built
<1>4. TypeOK'
  BY <1>1, <1>2, <1>3 DEF ScopedInv, TypeOK
<1>5. \A q \in Procs \ {p} :
         /\ BuildInv(q)' = BuildInv(q)
         /\ (Built(q) => ScopedClient(q))' = (Built(q) => ScopedClient(q))
  BY <1>1, <1>2, <1>3, OtherFrame
<1>6. BuildInv(p)'
  BY <1>1 DEF BuildInv
<1>7. fac = "built"
  BY DEF SetHandlerPanic, ScopedInv
<1>8. QED
  BY <1>2, <1>3, <1>4, <1>5, <1>6, <1>7 DEF ScopedInv, SharedUnimpersonated, RequestScopedConfig

\* Line 223 writes p's handler into the config p holds: its own copy, or a
\* shared config whose user it leaves alone.
LEMMA SetHandlerScoped ==
    ASSUME ScopedInv, NEW p \in Procs, SetHandler(p) PROVE ScopedInv'
<1>1. pc[p] = "setHandler" /\ cur[p] # "nil" /\ BuildInv(p)
  BY DEF SetHandler, ScopedInv
<1>2. /\ pc' = [pc EXCEPT ![p] = "newFor"]
      /\ UNCHANGED <<fac, imp, md, dyn, cur, req, out, calls>>
  BY DEF SetHandler
<1>3. pc' \in [Procs -> {"idle", "setHandler", "newFor"}] /\ pc'[p] = "newFor"
      /\ \A q \in Procs \ {p} : pc'[q] = pc[q]
  BY <1>2 DEF ScopedInv, TypeOK
<1>4. fac = "built"
  BY <1>1 DEF ScopedInv
<1>5. ~Built(p)'
  BY <1>1, <1>2 DEF BuildInv, Built
<1>6. CASE cur[p] = "copy"
  <2>1. copies' = [copies EXCEPT ![p].handler = p] /\ UNCHANGED heap
    BY <1>6 DEF SetHandler
  <2>2. copies[p] \in Config
    BY DEF ScopedInv, TypeOK
  <2>3. /\ [copies[p] EXCEPT !.handler = p] \in Config
        /\ [copies[p] EXCEPT !.handler = p].handler = p
        /\ [copies[p] EXCEPT !.handler = p].user = copies[p].user
    BY <2>2, ConfigUpdates
  <2>4. /\ copies' \in [Procs -> Config]
        /\ copies'[p].handler = p /\ copies'[p].user = copies[p].user
        /\ \A q \in Procs \ {p} : copies'[q] = copies[q]
    BY <2>1, <2>3 DEF ScopedInv, TypeOK
  <2>5. TypeOK'
    BY <1>2, <1>3, <2>1, <2>4 DEF ScopedInv, TypeOK
  <2>6. BuildInv(p)'
    BY <1>1, <1>2, <1>3, <1>6, <2>4 DEF BuildInv, Impersonates
  <2>7. \A q \in Procs \ {p} :
           /\ BuildInv(q)' = BuildInv(q)
           /\ (Built(q) => ScopedClient(q))' = (Built(q) => ScopedClient(q))
    BY <1>2, <1>3, <2>4, OtherFrame
  <2>8. RequestScopedConfig'
    BY <1>5, <2>7 DEF ScopedInv, RequestScopedConfig
  <2>9. QED
    BY <1>2, <1>4, <2>1, <2>5, <2>6, <2>7, <2>8 DEF ScopedInv, SharedUnimpersonated
<1>7. CASE cur[p] # "copy"
  <2>1. cur[p] \in SharedPtrs
    BY <1>1, <1>7 DEF ScopedInv, TypeOK
  <2>2. heap' = [heap EXCEPT ![cur[p]].handler = p] /\ UNCHANGED copies
    BY <1>7 DEF SetHandler
  <2>3. /\ [heap[cur[p]] EXCEPT !.handler = p] \in Config
        /\ [heap[cur[p]] EXCEPT !.handler = p].user = heap[cur[p]].user
    BY <2>1, ConfigUpdates DEF ScopedInv, TypeOK
  <2>4. heap' \in [SharedPtrs -> Config] /\ \A x \in SharedPtrs : heap'[x].user = heap[x].user
    BY <2>1, <2>2, <2>3 DEF ScopedInv, TypeOK
  <2>5. TypeOK'
    BY <1>2, <1>3, <2>2, <2>4 DEF ScopedInv, TypeOK
  <2>6. BuildInv(p)'
    BY <1>1, <1>2, <1>3, <1>7, <2>2 DEF BuildInv, Impersonates
  <2>7. \A q \in Procs \ {p} :
           /\ BuildInv(q)' = BuildInv(q)
           /\ (Built(q) => ScopedClient(q))' = (Built(q) => ScopedClient(q))
    BY <1>2, <1>3, <2>2, OtherFrame
  <2>8. RequestScopedConfig'
    BY <1>5, <2>7 DEF ScopedInv, RequestScopedConfig
  <2>9. SharedUnimpersonated'
    BY <1>2, <2>4 DEF ScopedInv, SharedUnimpersonated
  <2>10. QED
    BY <1>2, <1>4, <2>5, <2>6, <2>7, <2>8, <2>9 DEF ScopedInv
<1>8. QED
  BY <1>6, <1>7


\* NewForConfig copies the config p holds: its own copy, made for its user
\* and handler, or a shared config without impersonation.
LEMMA NewForConfigScoped ==
    ASSUME ScopedInv, NEW p \in Procs, NewForConfig(p) PROVE ScopedInv'
<1>1. pc[p] = "newFor" /\ BuildInv(p) /\ fac = "built"
  BY DEF NewForConfig, ScopedInv
<1>2. cur[p] \in SharedPtrs \cup {"copy"}
  BY <1>1 DEF BuildInv, ScopedInv, TypeOK
<1>3. /\ Deref(p) \in Config
      /\ Deref(p).user = IF Impersonates(req[p].m) THEN req[p].u ELSE NoUser
      /\ Impersonates(req[p].m) => Deref(p).handler = p
  <2>1. CASE cur[p] = "copy"
    BY <1>1, <2>1 DEF Deref, BuildInv, ScopedInv, TypeOK
  <2>2. CASE cur[p] \in SharedPtrs
    <3>1. cur[p] # "copy"
      BY <2>2 DEF SharedPtrs
    <3>2. ~Impersonates(req[p].m)
      BY <1>1, <2>2 DEF BuildInv
    <3>3. QED
      BY <2>2, <3>1, <3>2 DEF Deref, ScopedInv, SharedUnimpersonated, TypeOK
  <2>3. QED
    BY <1>2, <2>1, <2>2
<1>4. /\ pc' \in [Procs -> {"idle", "setHandler", "newFor"}]
      /\ cur' \in [Procs -> SharedPtrs \cup {"copy", "nil"}]
      /\ copies' \in [Procs -> Config]
      /\ pc'[p] = "idle"
      /\ \A q \in Procs \ {p} :
            pc'[q] = pc[q] /\ cur'[q] = cur[q] /\ copies'[q] = copies[q]
  BY ReturnType DEF NewForConfig, ScopedInv
<1>5. out' = [out EXCEPT ![p] = [kind |-> "client", cfg |-> Deref(p)]]
      /\ UNCHANGED <<fac, imp, heap, md, dyn, req, calls>>
  BY DEF NewForConfig
<1>6. /\ out' \in [Procs -> [kind : Outcomes, cfg : Config]]
      /\ out'[p] = [kind |-> "client", cfg |-> Deref(p)]
      /\ \A q \in Procs \ {p} : out'[q] = out[q]
  BY <1>3, <1>5 DEF ScopedInv, TypeOK, Outcomes
<1>7. TypeOK'
  BY <1>4, <1>5, <1>6 DEF ScopedInv, TypeOK
<1>8. ScopedClient(p)'
  BY <1>3, <1>5, <1>6 DEF ScopedClient, Impersonates
<1>9. \A q \in Procs \ {p} :
         /\ BuildInv(q)' = BuildInv(q)
         /\ (Built(q) => ScopedClient(q))' = (Built(q) => ScopedClient(q))
  BY <1>4, <1>5, <1>6, OtherFrame
<1>10. BuildInv(p)'
  BY <1>4 DEF BuildInv
<1>11. RequestScopedConfig'
  BY <1>8, <1>9 DEF ScopedInv, RequestScopedConfig
<1>12. QED
  BY <1>1, <1>5, <1>7, <1>9, <1>10, <1>11 DEF ScopedInv, SharedUnimpersonated


-----------------------------------------------------------------------------

LEMMA NextScoped == ScopedInv /\ [Next]_vars => ScopedInv'
<1> SUFFICES ASSUME ScopedInv, [Next]_vars PROVE ScopedInv'
  OBVIOUS
<1>1. ASSUME NEW opts \in OptionLists, NEW i \in BOOLEAN, NewFactoryOk(opts, i)
      PROVE ScopedInv'
  BY <1>1, NewFactoryOkScoped
<1>2. CASE NewFactoryErr
  BY <1>2, NewFactoryErrScoped
<1>3. ASSUME NEW p \in Procs, NEW m \in Methods, SharedClient(p, m) PROVE ScopedInv'
  BY <1>3, SharedClientScoped
<1>4. ASSUME NEW p \in Procs, NEW u \in ContextUsers, K8sInterface(p, u) PROVE ScopedInv'
  BY <1>4, K8sInterfaceScoped
<1>5. ASSUME NEW p \in Procs, NEW m \in Methods, NEW tbl \in TableAttr(m),
             BuildShared(p, m, tbl)
      PROVE ScopedInv'
  BY <1>5, BuildSharedScoped DEF TableAttr
<1>6. ASSUME NEW p \in Procs, NEW m \in Methods, NEW tbl \in TableAttr(m),
             NEW u \in Users, BuildCopy(p, m, tbl, u)
      PROVE ScopedInv'
  BY <1>6, BuildCopyScoped DEF TableAttr
<1>7. ASSUME NEW p \in Procs, NEW m \in Methods, NEW tbl \in TableAttr(m),
             BuildNoUser(p, m, tbl)
      PROVE ScopedInv'
  BY <1>7, BuildNoUserScoped DEF TableAttr
<1>8. ASSUME NEW p \in Procs, SetHandlerPanic(p) PROVE ScopedInv'
  BY <1>8, SetHandlerPanicScoped
<1>9. ASSUME NEW p \in Procs, SetHandler(p) PROVE ScopedInv'
  BY <1>9, SetHandlerScoped
<1>10. ASSUME NEW p \in Procs, NewForConfig(p) PROVE ScopedInv'
  BY <1>10, NewForConfigScoped
<1>11. CASE UNCHANGED vars
  BY <1>11 DEF vars, ScopedInv, TypeOK, SharedUnimpersonated, BuildInv,
               RequestScopedConfig, ScopedClient, Built, Impersonates, Deref
<1>12. QED
  BY <1>1, <1>2, <1>3, <1>4, <1>5, <1>6, <1>7, <1>8, <1>9, <1>10, <1>11 DEF Next

\* Every state the factory reaches is well typed.
THEOREM ClientFactoryTypeCorrect == Spec => []TypeOK
<1>1. Init => ScopedInv
  BY InitScoped
<1>2. ScopedInv /\ [Next]_vars => ScopedInv'
  BY NextScoped
<1>3. ScopedInv => TypeOK
  BY DEF ScopedInv
<1>4. QED
  BY <1>1, <1>2, <1>3, PTL DEF Spec

\* Every client the factory hands out acts as its own request's user when
\* the method impersonates (and reports warnings to that request), and as
\* the service account otherwise: no request's impersonation reaches another
\* request's client or an admin client, for any number of goroutines and
\* users and any interleaving of their client builds.
THEOREM RequestScoped == Spec => []RequestScopedConfig
<1>1. Init => ScopedInv
  BY InitScoped
<1>2. ScopedInv /\ [Next]_vars => ScopedInv'
  BY NextScoped
<1>3. ScopedInv => RequestScopedConfig
  BY DEF ScopedInv
<1>4. QED
  BY <1>1, <1>2, <1>3, PTL DEF Spec

=============================================================================
