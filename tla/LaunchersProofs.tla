-------------------------- MODULE LaunchersProofs --------------------------
(***************************************************************************)
(* What Launchers keeps for any apps, any ranges of ports, any number of   *)
(* waiting handlers and of threads that wait to regenerate the routes.     *)
(*                                                                         *)
(* The launchers' state is one value (Now), and the invariant about it,    *)
(* Fits, is one of such values: the lemmas say that whatever stop_service  *)
(* and start_service make of a value that fits, fits again.  The routes    *)
(* need only to know which steps change a port of a web app.               *)
(***************************************************************************)
EXTENDS Launchers, PortPoolProofs

Row == [port : RestPorts \cup {NoPort}, mcp : McpPorts \cup {NoPort}, alive : BOOLEAN]

States == [rest : Pools(RestPorts), mcp : Pools(McpPorts), tracked : [Apps -> Row],
           port : [Apps -> RestPorts \cup {NoPort}], mcp_port : [Apps -> McpPorts \cup {NoPort}]]

\* An app without a row holds no port; one with a live process holds what its row and its
\* entry show.  A dead process leaves its row and its ports.
FitsApp(s, a) ==
    /\ s.tracked[a] = NotTracked =>
          s.rest.app_ports[a] = NoPort /\ s.mcp.app_ports[a] = NoPort
    /\ s.tracked[a].alive =>
          /\ s.tracked[a].port # NoPort
          /\ s.rest.app_ports[a] = s.tracked[a].port /\ s.mcp.app_ports[a] = s.tracked[a].mcp
          /\ s.port[a] = s.tracked[a].port /\ s.mcp_port[a] = s.tracked[a].mcp
    /\ a \notin McpApps => s.mcp.app_ports[a] = NoPort /\ s.mcp_port[a] = NoPort

Fits(s) ==
    /\ s \in States
    /\ GoodPool(s.rest, RestPorts) /\ GoodPool(s.mcp, McpPorts)
    /\ \A a \in Apps : FitsApp(s, a)

Shown(a) == IF a \in registered THEN port[a] ELSE NoPort

Settled == waiting = {} /\ jobs = 0 /\ ~ stale

\* A regeneration that nothing will follow has read what the registry still shows.
RoutesInv ==
    Settled => IF regen.busy
               THEN \A a \in WebApps \ regen.todo : regen.found[a] = Shown(a)
               ELSE \A a \in WebApps : caddy[a] = Shown(a)

Others ==
    /\ registered \subseteq Apps /\ Alive \subseteq registered
    /\ idle \subseteq StreamlitApps \cap Tracked
    /\ waiting \subseteq {"started", "stopped"} \X Services
    /\ orphans \subseteq RestPorts \cup McpPorts

RouteTypes ==
    /\ caddy \in [WebApps -> RestPorts \cup {NoPort}] /\ jobs \in 0 .. MaxJobs
    /\ regen \in [busy : BOOLEAN, todo : SUBSET WebApps,
                  found : [WebApps -> RestPorts \cup {NoPort}]]
    /\ stale \in BOOLEAN

IInv == Fits(Now) /\ Others /\ RouteTypes /\ RoutesInv
-----------------------------------------------------------------------------
(* Records. *)

IsState(s) == s = [rest |-> s.rest, mcp |-> s.mcp, tracked |-> s.tracked, port |-> s.port,
                   mcp_port |-> s.mcp_port]

LEMMA RestFields ==
    ASSUME NEW s, IsState(s), NEW pool
    PROVE  [s EXCEPT !.rest = pool]
             = [rest |-> pool, mcp |-> s.mcp, tracked |-> s.tracked, port |-> s.port,
                mcp_port |-> s.mcp_port]
BY DEF IsState

LEMMA PoolFields ==
    ASSUME NEW s, IsState(s), NEW r, NEW m
    PROVE  [s EXCEPT !.rest = r, !.mcp = m]
             = [rest |-> r, mcp |-> m, tracked |-> s.tracked, port |-> s.port,
                mcp_port |-> s.mcp_port]
<1> DEFINE u == [s EXCEPT !.rest = r]
<1>1. u = [rest |-> r, mcp |-> s.mcp, tracked |-> s.tracked, port |-> s.port,
           mcp_port |-> s.mcp_port]
    BY RestFields
<1>2. [s EXCEPT !.rest = r, !.mcp = m] = [u EXCEPT !.mcp = m]
    OBVIOUS
<1> HIDE DEF u
<1>3. [u EXCEPT !.mcp = m] = [rest |-> u.rest, mcp |-> m, tracked |-> u.tracked,
                              port |-> u.port, mcp_port |-> u.mcp_port]
    BY <1>1
<1> QED
    BY <1>1, <1>2, <1>3

LEMMA ReleasePortsFields ==
    ASSUME NEW s, IsState(s), NEW S
    PROVE  /\ IsState(ReleasePorts(s, S))
           /\ ReleasePorts(s, S).rest = ReleaseAll(s.rest, S)
           /\ ReleasePorts(s, S).mcp = ReleaseAll(s.mcp, S)
           /\ ReleasePorts(s, S).tracked = s.tracked
           /\ ReleasePorts(s, S).port = s.port /\ ReleasePorts(s, S).mcp_port = s.mcp_port
<1>1. ReleasePorts(s, S) = [rest |-> ReleaseAll(s.rest, S), mcp |-> ReleaseAll(s.mcp, S),
                            tracked |-> s.tracked, port |-> s.port, mcp_port |-> s.mcp_port]
    BY PoolFields DEF ReleasePorts
<1> QED
    BY <1>1 DEF IsState

LEMMA StopAllFields ==
    ASSUME NEW s, IsState(s), NEW S
    PROVE  LET T == {a \in S : s.tracked[a] # NotTracked}
               u == StopAll(s, S) IN
           /\ IsState(u)
           /\ u.rest = ReleaseAll(s.rest, T) /\ u.mcp = ReleaseAll(s.mcp, T)
           /\ u.tracked = [a \in Apps |-> IF a \in T THEN NotTracked ELSE s.tracked[a]]
           /\ u.port = Clear(s.port, T) /\ u.mcp_port = Clear(s.mcp_port, T)
<1> DEFINE T == {a \in S : s.tracked[a] # NotTracked}
           v == ReleasePorts(s, T)
           F == [a \in Apps |-> IF a \in T THEN NotTracked ELSE v.tracked[a]]
<1>1. /\ IsState(v) /\ v.rest = ReleaseAll(s.rest, T) /\ v.mcp = ReleaseAll(s.mcp, T)
      /\ v.tracked = s.tracked /\ v.port = s.port /\ v.mcp_port = s.mcp_port
    BY ReleasePortsFields
<1>2. StopAll(s, S) = [v EXCEPT !.tracked = [a \in Apps |-> IF a \in T THEN NotTracked ELSE @[a]],
                                !.port = Clear(@, T), !.mcp_port = Clear(@, T)]
    BY DEF StopAll
<1> HIDE DEF v, T
<1>3. StopAll(s, S) = [rest |-> v.rest, mcp |-> v.mcp, tracked |-> F,
                       port |-> Clear(v.port, T), mcp_port |-> Clear(v.mcp_port, T)]
    BY <1>1, <1>2 DEF IsState
<1> QED
    BY <1>1, <1>3 DEF IsState, T

LEMMA RaisedFields ==
    ASSUME NEW s, IsState(s), NEW a
    PROVE  Raised(s, a) = [rest |-> ReleaseAll(s.rest, {a}), mcp |-> ReleaseAll(s.mcp, {a}),
                           tracked |-> [s.tracked EXCEPT ![a] = NotTracked],
                           port |-> s.port, mcp_port |-> s.mcp_port]
<1> DEFINE v == ReleasePorts(s, {a})
<1>1. /\ IsState(v) /\ v.rest = ReleaseAll(s.rest, {a}) /\ v.mcp = ReleaseAll(s.mcp, {a})
      /\ v.tracked = s.tracked /\ v.port = s.port /\ v.mcp_port = s.mcp_port
    BY ReleasePortsFields
<1>2. Raised(s, a) = [v EXCEPT !.tracked[a] = NotTracked]
    BY DEF Raised
<1> HIDE DEF v
<1>3. [v EXCEPT !.tracked[a] = NotTracked]
        = [rest |-> v.rest, mcp |-> v.mcp, tracked |-> [v.tracked EXCEPT ![a] = NotTracked],
           port |-> v.port, mcp_port |-> v.mcp_port]
    BY <1>1 DEF IsState
<1> QED
    BY <1>1, <1>2, <1>3

LEMMA LaunchedFields ==
    ASSUME NEW s, IsState(s), NEW a
    PROVE  Launched(s, a) =
             [rest |-> RestOf(s, a).pool, mcp |-> McpOf(s, a).pool,
              tracked |-> [s.tracked EXCEPT ![a] = [port |-> RestOf(s, a).port,
                                                    mcp |-> McpOf(s, a).port, alive |-> TRUE]],
              port |-> [s.port EXCEPT ![a] = RestOf(s, a).port],
              mcp_port |-> [s.mcp_port EXCEPT ![a] = IF a \in McpApps THEN McpOf(s, a).port
                                                     ELSE @]]
<1> DEFINE r == RestOf(s, a).pool
           m == McpOf(s, a).pool
           row == [port |-> RestOf(s, a).port, mcp |-> McpOf(s, a).port, alive |-> TRUE]
           p == RestOf(s, a).port
           v == [s EXCEPT !.rest = r, !.mcp = m]
           w == [v EXCEPT !.tracked[a] = row]
           x == [w EXCEPT !.port[a] = p]
<1>1. IsState(v) /\ v = [rest |-> r, mcp |-> m, tracked |-> s.tracked, port |-> s.port,
                         mcp_port |-> s.mcp_port]
    BY PoolFields DEF IsState
<1>2. Launched(s, a) = [x EXCEPT !.mcp_port[a] = IF a \in McpApps THEN McpOf(s, a).port ELSE @]
    BY DEF Launched
<1> HIDE DEF v, r, m, p, row
<1>3. w = [rest |-> r, mcp |-> m, tracked |-> [s.tracked EXCEPT ![a] = row], port |-> s.port,
           mcp_port |-> s.mcp_port]
    BY <1>1
<1> HIDE DEF w
<1>4. x = [rest |-> r, mcp |-> m, tracked |-> [s.tracked EXCEPT ![a] = row],
           port |-> [s.port EXCEPT ![a] = p], mcp_port |-> s.mcp_port]
    BY <1>3
<1> HIDE DEF x
<1>5. Launched(s, a)
        = [rest |-> r, mcp |-> m, tracked |-> [s.tracked EXCEPT ![a] = row],
           port |-> [s.port EXCEPT ![a] = p],
           mcp_port |-> [s.mcp_port EXCEPT ![a] = IF a \in McpApps THEN McpOf(s, a).port
                                                  ELSE @]]
    BY <1>2, <1>4
<1> QED
    BY <1>5 DEF r, m, p, row

LEMMA WithoutMcpPortFields ==
    ASSUME NEW s, IsState(s), NEW a
    PROVE  WithoutMcpPort(s, a)
             = [rest |-> Release(RestOf(s, a).pool, a), mcp |-> McpOf(s, a).pool,
                tracked |-> s.tracked, port |-> s.port, mcp_port |-> s.mcp_port]
BY PoolFields DEF WithoutMcpPort

-----------------------------------------------------------------------------
(* What the launchers' methods make of a value that fits. *)

LEMMA FitsFields ==
    ASSUME NEW s, Fits(s)
    PROVE  /\ IsState(s)
           /\ s.rest \in Pools(RestPorts) /\ s.mcp \in Pools(McpPorts)
           /\ s.tracked \in [Apps -> Row] /\ s.port \in [Apps -> RestPorts \cup {NoPort}]
           /\ s.mcp_port \in [Apps -> McpPorts \cup {NoPort}]
           /\ RestPorts \in SUBSET Nat /\ McpPorts \in SUBSET Nat
           /\ NotTracked \in Row /\ ~ NotTracked.alive /\ NotTracked.port = NoPort
BY LaunchersAssumption DEF Fits, States, IsState, NotTracked, Row

LEMMA ReleasedPools ==
    ASSUME NEW s, Fits(s), NEW S \in SUBSET Apps
    PROVE  /\ GoodPool(ReleaseAll(s.rest, S), RestPorts)
           /\ GoodPool(ReleaseAll(s.mcp, S), McpPorts)
           /\ \A a \in Apps :
                 /\ ReleaseAll(s.rest, S).app_ports[a]
                      = IF a \in S THEN NoPort ELSE s.rest.app_ports[a]
                 /\ ReleaseAll(s.mcp, S).app_ports[a]
                      = IF a \in S THEN NoPort ELSE s.mcp.app_ports[a]
<1>1. /\ GoodPool(s.rest, RestPorts) /\ GoodPool(s.mcp, McpPorts)
      /\ RestPorts \in SUBSET Nat /\ McpPorts \in SUBSET Nat
    BY FitsFields DEF Fits
<1>2. /\ GoodPool(ReleaseAll(s.rest, S), RestPorts)
      /\ \A a \in Apps : ReleaseAll(s.rest, S).app_ports[a]
                          = IF a \in S THEN NoPort ELSE s.rest.app_ports[a]
    <2>1. \A pool : GoodPool(pool, RestPorts) =>
             /\ GoodPool(ReleaseAll(pool, S), RestPorts)
             /\ \A a \in Apps : ReleaseAll(pool, S).app_ports[a]
                                 = IF a \in S THEN NoPort ELSE pool.app_ports[a]
        BY <1>1, GoodReleaseAll
    <2> QED
        BY <1>1, <2>1
<1>3. /\ GoodPool(ReleaseAll(s.mcp, S), McpPorts)
      /\ \A a \in Apps : ReleaseAll(s.mcp, S).app_ports[a]
                          = IF a \in S THEN NoPort ELSE s.mcp.app_ports[a]
    <2>1. \A pool : GoodPool(pool, McpPorts) =>
             /\ GoodPool(ReleaseAll(pool, S), McpPorts)
             /\ \A a \in Apps : ReleaseAll(pool, S).app_ports[a]
                                 = IF a \in S THEN NoPort ELSE pool.app_ports[a]
        BY <1>1, GoodReleaseAll
    <2> QED
        BY <1>1, <2>1
<1> QED
    BY <1>2, <1>3

\* stop_service and _cleanup_app take the row, the ports and the entry's ports together.
LEMMA StopAllFits ==
    ASSUME NEW s, Fits(s), NEW S \in SUBSET Apps
    PROVE  /\ Fits(StopAll(s, S))
           /\ \A a \in S : StopAll(s, S).tracked[a] = NotTracked
           /\ \A a \in Apps \ S : /\ StopAll(s, S).tracked[a] = s.tracked[a]
                                  /\ StopAll(s, S).port[a] = s.port[a]
<1> DEFINE T == {a \in S : s.tracked[a] # NotTracked}
           u == StopAll(s, S)
<1>0. IsState(s)
    BY FitsFields
<1>1. /\ IsState(u)
      /\ u.rest = ReleaseAll(s.rest, T) /\ u.mcp = ReleaseAll(s.mcp, T)
      /\ u.tracked = [a \in Apps |-> IF a \in T THEN NotTracked ELSE s.tracked[a]]
      /\ u.port = Clear(s.port, T) /\ u.mcp_port = Clear(s.mcp_port, T)
    BY <1>0, StopAllFields
<1>2. T \in SUBSET Apps /\ \A a \in S \ T : s.tracked[a] = NotTracked
    OBVIOUS
<1> HIDE DEF u, T
<1>3. /\ GoodPool(u.rest, RestPorts)
      /\ \A a \in Apps : u.rest.app_ports[a] = IF a \in T THEN NoPort ELSE s.rest.app_ports[a]
    BY <1>1, <1>2, ReleasedPools
<1>4. /\ GoodPool(u.mcp, McpPorts)
      /\ \A a \in Apps : u.mcp.app_ports[a] = IF a \in T THEN NoPort ELSE s.mcp.app_ports[a]
    BY <1>1, <1>2, ReleasedPools
<1>5. /\ \A a \in Apps : u.tracked[a] = IF a \in T THEN NotTracked ELSE s.tracked[a]
      /\ \A a \in Apps : u.port[a] = IF a \in T THEN NoPort ELSE s.port[a]
      /\ \A a \in Apps : u.mcp_port[a] = IF a \in T THEN NoPort ELSE s.mcp_port[a]
    BY <1>1 DEF Clear
<1>6. u \in States
    <2>1. /\ u.tracked \in [Apps -> Row] /\ u.port \in [Apps -> RestPorts \cup {NoPort}]
          /\ u.mcp_port \in [Apps -> McpPorts \cup {NoPort}]
        BY <1>1, FitsFields DEF Clear
    <2>2. u.rest \in Pools(RestPorts) /\ u.mcp \in Pools(McpPorts)
        BY <1>3, <1>4 DEF GoodPool
    <2> QED
        BY <1>1, <2>1, <2>2 DEF IsState, States
<1>7. ASSUME NEW a \in Apps PROVE FitsApp(u, a)
    <2>1. CASE a \in T
        BY <1>3, <1>4, <1>5, <2>1, FitsFields DEF FitsApp
    <2>2. CASE a \notin T
        BY <1>3, <1>4, <1>5, <2>2 DEF FitsApp, Fits
    <2> QED
        BY <2>1, <2>2
<1>8. Fits(u)
    BY <1>3, <1>4, <1>6, <1>7 DEF Fits
<1>9. \A a \in S : u.tracked[a] = NotTracked
    BY <1>2, <1>5
<1>10. \A a \in Apps \ S : u.tracked[a] = s.tracked[a] /\ u.port[a] = s.port[a]
    BY <1>5 DEF T
<1> QED
    BY <1>8, <1>9, <1>10 DEF u

\* Giving ports back changes nothing for an app without a row.
LEMMA ReleasePortsFits ==
    ASSUME NEW s, Fits(s), NEW S \in SUBSET Apps, \A a \in S : s.tracked[a] = NotTracked
    PROVE  /\ Fits(ReleasePorts(s, S))
           /\ ReleasePorts(s, S).tracked = s.tracked /\ ReleasePorts(s, S).port = s.port
<1> DEFINE u == ReleasePorts(s, S)
<1>0. IsState(s)
    BY FitsFields
<1>1. /\ IsState(u) /\ u.rest = ReleaseAll(s.rest, S) /\ u.mcp = ReleaseAll(s.mcp, S)
      /\ u.tracked = s.tracked /\ u.port = s.port /\ u.mcp_port = s.mcp_port
    BY <1>0, ReleasePortsFields
<1> HIDE DEF u
<1>2. /\ GoodPool(u.rest, RestPorts)
      /\ \A a \in Apps : u.rest.app_ports[a] = IF a \in S THEN NoPort ELSE s.rest.app_ports[a]
    BY <1>1, ReleasedPools
<1>3. /\ GoodPool(u.mcp, McpPorts)
      /\ \A a \in Apps : u.mcp.app_ports[a] = IF a \in S THEN NoPort ELSE s.mcp.app_ports[a]
    BY <1>1, ReleasedPools
<1>4. u \in States
    BY <1>1, <1>2, <1>3, FitsFields DEF IsState, States, GoodPool
<1>5. ASSUME NEW a \in Apps PROVE FitsApp(u, a)
    BY <1>1, <1>2, <1>3, FitsFields DEF FitsApp, Fits
<1>6. Fits(u)
    BY <1>2, <1>3, <1>4, <1>5 DEF Fits
<1> QED
    BY <1>1, <1>6 DEF u

\* A start that ends before there is a process: what was allocated has been given back.
LEMMA PoolsFit ==
    ASSUME NEW s, Fits(s), NEW a \in Apps, ~ s.tracked[a].alive,
           NEW r, NEW m, GoodPool(r, RestPorts), GoodPool(m, McpPorts),
           r.app_ports = [s.rest.app_ports EXCEPT ![a] = NoPort],
           m.app_ports \in {s.mcp.app_ports, [s.mcp.app_ports EXCEPT ![a] = NoPort]}
    PROVE  Fits([rest |-> r, mcp |-> m, tracked |-> s.tracked, port |-> s.port,
                 mcp_port |-> s.mcp_port])
<1> DEFINE u == [rest |-> r, mcp |-> m, tracked |-> s.tracked, port |-> s.port,
                 mcp_port |-> s.mcp_port]
<1>1. /\ u.rest = r /\ u.mcp = m /\ u.tracked = s.tracked /\ u.port = s.port
      /\ u.mcp_port = s.mcp_port
    OBVIOUS
<1>2. u \in States
    BY FitsFields DEF States, GoodPool
<1> HIDE DEF u
<1>3. /\ s.rest.app_ports \in [Apps -> RestPorts \cup {NoPort}]
      /\ s.mcp.app_ports \in [Apps -> McpPorts \cup {NoPort}]
    BY FitsFields DEF Pools
<1>4. \A b \in Apps : /\ u.rest.app_ports[b] = IF b = a THEN NoPort ELSE s.rest.app_ports[b]
                      /\ u.mcp.app_ports[b] = s.mcp.app_ports[b]
                            \/ (b = a /\ u.mcp.app_ports[b] = NoPort)
    BY <1>1, <1>3
<1>5. ASSUME NEW b \in Apps PROVE FitsApp(u, b)
    BY <1>1, <1>4 DEF FitsApp, Fits
<1> QED
    BY <1>1, <1>2, <1>5 DEF Fits, u

\* _allocate_specific_port and friends on the two pools.
LEMMA Allocated ==
    ASSUME NEW s, Fits(s), NEW a \in Apps
    PROVE  /\ GoodPool(RestOf(s, a).pool, RestPorts)
           /\ RestOf(s, a).port \in RestPorts \cup {NoPort}
           /\ RestOf(s, a).pool.app_ports = [s.rest.app_ports EXCEPT ![a] = RestOf(s, a).port]
           /\ GoodPool(McpOf(s, a).pool, McpPorts)
           /\ McpOf(s, a).port \in McpPorts \cup {NoPort}
           /\ McpOf(s, a).pool.app_ports = [s.mcp.app_ports EXCEPT ![a] = McpOf(s, a).port]
           /\ a \notin McpApps => McpOf(s, a).port = NoPort
<1>0. /\ GoodPool(s.rest, RestPorts) /\ GoodPool(s.mcp, McpPorts)
      /\ RestPorts \in SUBSET Nat /\ McpPorts \in SUBSET Nat
    BY FitsFields DEF Fits
<1>1. /\ GoodPool(RestOf(s, a).pool, RestPorts)
      /\ RestOf(s, a).port \in RestPorts \cup {NoPort}
      /\ RestOf(s, a).pool.app_ports = [s.rest.app_ports EXCEPT ![a] = RestOf(s, a).port]
    BY <1>0, GoodAllocate DEF RestOf
<1>2. CASE a \in McpApps
    <2>1. McpOf(s, a) = Allocate(s.mcp, a, NoPort, Bound(s))
        BY <1>2 DEF McpOf
    <2>2. /\ GoodPool(McpOf(s, a).pool, McpPorts)
          /\ McpOf(s, a).port \in McpPorts \cup {NoPort}
          /\ McpOf(s, a).pool.app_ports = [s.mcp.app_ports EXCEPT ![a] = McpOf(s, a).port]
        BY <1>0, <2>1, GoodAllocate
    <2> QED
        BY <1>1, <1>2, <2>2
<1>3. CASE a \notin McpApps
    <2>1. McpOf(s, a).pool = s.mcp /\ McpOf(s, a).port = NoPort
        BY <1>3 DEF McpOf
    <2>2. s.mcp.app_ports[a] = NoPort /\ s.mcp.app_ports \in [Apps -> McpPorts \cup {NoPort}]
        BY <1>3, FitsFields DEF Fits, FitsApp, Pools
    <2>3. s.mcp.app_ports = [s.mcp.app_ports EXCEPT ![a] = NoPort]
        BY <2>2
    <2> QED
        BY <1>1, <2>1, <2>3 DEF Fits
<1> QED
    BY <1>2, <1>3

\* The new process has the ports of its row, its entry shows them, and they are allocated.
LEMMA LaunchedFits ==
    ASSUME NEW s, Fits(s), NEW a \in Apps, ~ s.tracked[a].alive, RestOf(s, a).port # NoPort
    PROVE  /\ Fits(Launched(s, a))
           /\ \A b \in Apps \ {a} : /\ Launched(s, a).tracked[b] = s.tracked[b]
                                    /\ Launched(s, a).port[b] = s.port[b]
<1> DEFINE p == RestOf(s, a).port
           q == McpOf(s, a).port
           row == [port |-> p, mcp |-> q, alive |-> TRUE]
           u == Launched(s, a)
<1>0. IsState(s)
    BY FitsFields
<1>1. u = [rest |-> RestOf(s, a).pool, mcp |-> McpOf(s, a).pool,
           tracked |-> [s.tracked EXCEPT ![a] = row],
           port |-> [s.port EXCEPT ![a] = p],
           mcp_port |-> [s.mcp_port EXCEPT ![a] = IF a \in McpApps THEN q ELSE @]]
    BY <1>0, LaunchedFields
<1> HIDE DEF u
<1>2. /\ GoodPool(u.rest, RestPorts) /\ p \in RestPorts \cup {NoPort} /\ p # NoPort
      /\ u.rest.app_ports = [s.rest.app_ports EXCEPT ![a] = p]
      /\ GoodPool(u.mcp, McpPorts) /\ q \in McpPorts \cup {NoPort}
      /\ u.mcp.app_ports = [s.mcp.app_ports EXCEPT ![a] = q]
      /\ a \notin McpApps => q = NoPort
    BY <1>1, Allocated
<1>3. row \in Row /\ row # NotTracked /\ row.alive /\ row.port = p /\ row.mcp = q
    BY <1>2 DEF Row, NotTracked
<1> HIDE DEF row, p, q
<1>4. /\ s.rest.app_ports \in [Apps -> RestPorts \cup {NoPort}]
      /\ s.mcp.app_ports \in [Apps -> McpPorts \cup {NoPort}]
    BY FitsFields DEF Pools
<1>5. /\ u.tracked \in [Apps -> Row] /\ u.port \in [Apps -> RestPorts \cup {NoPort}]
      /\ u.mcp_port \in [Apps -> McpPorts \cup {NoPort}]
    BY <1>1, <1>2, <1>3, FitsFields
<1>6. u \in States
    BY <1>1, <1>2, <1>5 DEF States, GoodPool
<1>7. \A b \in Apps \ {a} : /\ u.tracked[b] = s.tracked[b] /\ u.port[b] = s.port[b]
                            /\ u.mcp_port[b] = s.mcp_port[b]
                            /\ u.rest.app_ports[b] = s.rest.app_ports[b]
                            /\ u.mcp.app_ports[b] = s.mcp.app_ports[b]
    BY <1>1, <1>2, <1>4, FitsFields
<1>8. ASSUME NEW b \in Apps, b # a PROVE FitsApp(u, b)
    BY <1>7, <1>8 DEF FitsApp, Fits
<1>9. /\ u.tracked[a] = row /\ u.port[a] = p
      /\ u.mcp_port[a] = IF a \in McpApps THEN q ELSE s.mcp_port[a]
      /\ u.rest.app_ports[a] = p /\ u.mcp.app_ports[a] = q
    BY <1>1, <1>2, <1>4, FitsFields
<1>10. a \notin McpApps => s.mcp_port[a] = NoPort
    BY DEF Fits, FitsApp
<1>11. FitsApp(u, a)
    BY <1>2, <1>3, <1>9, <1>10 DEF FitsApp
<1>12. Fits(u)
    BY <1>2, <1>6, <1>8, <1>11 DEF Fits
<1> QED
    BY <1>7, <1>12 DEF u

\* The cleanup after an exception drops the row, whatever runs.
LEMMA RaisedFits ==
    ASSUME NEW s, Fits(s), NEW a \in Apps
    PROVE  /\ Fits(Raised(s, a)) /\ Raised(s, a).port = s.port
           /\ Raised(s, a).tracked = [s.tracked EXCEPT ![a] = NotTracked]
<1> DEFINE u == Raised(s, a)
           S == {a}
<1>0. IsState(s)
    BY FitsFields
<1>1. u = [rest |-> ReleaseAll(s.rest, S), mcp |-> ReleaseAll(s.mcp, S),
           tracked |-> [s.tracked EXCEPT ![a] = NotTracked],
           port |-> s.port, mcp_port |-> s.mcp_port]
    BY <1>0, RaisedFields
<1>f. u.rest = ReleaseAll(s.rest, S) /\ u.mcp = ReleaseAll(s.mcp, S)
    BY <1>1
<1>s. S \in SUBSET Apps /\ \A b : b \in S <=> b = a
    OBVIOUS
<1> HIDE DEF u, S
<1>2. /\ GoodPool(u.rest, RestPorts)
      /\ \A b \in Apps : u.rest.app_ports[b] = IF b = a THEN NoPort ELSE s.rest.app_ports[b]
    <2>1. /\ GoodPool(u.rest, RestPorts)
          /\ \A b \in Apps : u.rest.app_ports[b] = IF b \in S THEN NoPort
                                                 ELSE s.rest.app_ports[b]
        BY <1>f, <1>s, ReleasedPools
    <2> QED
        BY <1>s, <2>1
<1>3. /\ GoodPool(u.mcp, McpPorts)
      /\ \A b \in Apps : u.mcp.app_ports[b] = IF b = a THEN NoPort ELSE s.mcp.app_ports[b]
    <2>1. /\ GoodPool(u.mcp, McpPorts)
          /\ \A b \in Apps : u.mcp.app_ports[b] = IF b \in S THEN NoPort
                                                 ELSE s.mcp.app_ports[b]
        BY <1>f, <1>s, ReleasedPools
    <2> QED
        BY <1>s, <2>1
<1>4. /\ u.tracked \in [Apps -> Row] /\ u.port = s.port /\ u.mcp_port = s.mcp_port
      /\ \A b \in Apps : u.tracked[b] = IF b = a THEN NotTracked ELSE s.tracked[b]
    BY <1>1, FitsFields
<1>5. u \in States
    BY <1>1, <1>2, <1>3, <1>4, FitsFields DEF States, GoodPool
<1>6. ASSUME NEW b \in Apps, b # a PROVE FitsApp(u, b)
    BY <1>2, <1>3, <1>4, <1>6 DEF FitsApp, Fits
<1>7. FitsApp(u, a)
    BY <1>2, <1>3, <1>4, FitsFields DEF FitsApp, Fits
<1>8. Fits(u)
    BY <1>2, <1>3, <1>5, <1>6, <1>7 DEF Fits
<1> QED
    BY <1>1, <1>8 DEF u

\* Whatever start_service answers, what it leaves fits; only the app's own row may change,
\* and its entry only with a new process.
LEMMA StartFits ==
    ASSUME NEW s, Fits(s), NEW a \in Apps, NEW r \in StartAnswers(s, a)
    PROVE  /\ Fits(r.s)
           /\ \A b \in Apps \ {a} : r.s.tracked[b] = s.tracked[b] /\ r.s.port[b] = s.port[b]
           /\ ~ r.ok => r.s.port = s.port
<1> DEFINE Good(ok, t) ==
        /\ Fits(t)
        /\ \A b \in Apps \ {a} : t.tracked[b] = s.tracked[b] /\ t.port[b] = s.port[b]
        /\ ~ ok => t.port = s.port
<1>0. IsState(s)
    BY FitsFields
<1>1. Good(FALSE, s) /\ Good(TRUE, s)
    OBVIOUS
<1>2. Good(FALSE, Raised(s, a))
    <2>1. /\ Fits(Raised(s, a)) /\ Raised(s, a).port = s.port
          /\ Raised(s, a).tracked = [s.tracked EXCEPT ![a] = NotTracked]
        BY RaisedFits
    <2>2. s.tracked \in [Apps -> Row]
        BY FitsFields
    <2> QED
        BY <2>1, <2>2
<1>3. ASSUME ~ s.tracked[a].alive, RestOf(s, a).port # NoPort
      PROVE  Good(TRUE, Launched(s, a))
    BY <1>3, LaunchedFits
<1>4. ASSUME ~ s.tracked[a].alive, NEW r1, NEW m1, NEW t,
             GoodPool(r1, RestPorts), GoodPool(m1, McpPorts),
             r1.app_ports = [s.rest.app_ports EXCEPT ![a] = NoPort],
             m1.app_ports \in {s.mcp.app_ports, [s.mcp.app_ports EXCEPT ![a] = NoPort]},
             t = [rest |-> r1, mcp |-> m1, tracked |-> s.tracked, port |-> s.port,
                  mcp_port |-> s.mcp_port]
      PROVE  Good(FALSE, t)
    <2>1. Fits(t)
        BY <1>4, PoolsFit
    <2> QED
        BY <1>4, <2>1
<1>5. ASSUME ~ s.tracked[a].alive, RestOf(s, a).port = NoPort
      PROVE  Good(FALSE, [s EXCEPT !.rest = RestOf(s, a).pool])
    <2>1. /\ GoodPool(RestOf(s, a).pool, RestPorts) /\ GoodPool(s.mcp, McpPorts)
          /\ RestOf(s, a).pool.app_ports = [s.rest.app_ports EXCEPT ![a] = NoPort]
        BY <1>5, Allocated DEF Fits
    <2>2. [s EXCEPT !.rest = RestOf(s, a).pool]
            = [rest |-> RestOf(s, a).pool, mcp |-> s.mcp, tracked |-> s.tracked,
               port |-> s.port, mcp_port |-> s.mcp_port]
        BY <1>0, RestFields
    <2> HIDE DEF Good
    <2> QED
        BY <1>4, <1>5, <2>1, <2>2
\* The REST port goes back.
<1>6. LET back == Release(RestOf(s, a).pool, a) IN
      GoodPool(back, RestPorts) /\ back.app_ports = [s.rest.app_ports EXCEPT ![a] = NoPort]
    <2>1. /\ GoodPool(RestOf(s, a).pool, RestPorts)
          /\ RestOf(s, a).pool.app_ports = [s.rest.app_ports EXCEPT ![a] = RestOf(s, a).port]
          /\ s.rest.app_ports \in [Apps -> RestPorts \cup {NoPort}]
        BY Allocated, FitsFields DEF Pools
    <2> DEFINE pool == RestOf(s, a).pool
               port1 == RestOf(s, a).port
    <2>2. /\ GoodPool(Release(pool, a), RestPorts)
          /\ Release(pool, a).app_ports = [pool.app_ports EXCEPT ![a] = NoPort]
        BY <2>1, GoodRelease, FitsFields
    <2> HIDE DEF pool, port1
    <2>3. pool.app_ports = [s.rest.app_ports EXCEPT ![a] = port1]
        BY <2>1 DEF pool, port1
    <2>4. Release(pool, a).app_ports = [s.rest.app_ports EXCEPT ![a] = NoPort]
        BY <2>1, <2>2, <2>3
    <2> QED
        BY <2>2, <2>4 DEF pool
<1>7. ASSUME ~ s.tracked[a].alive
      PROVE  Good(FALSE, [s EXCEPT !.rest = Release(RestOf(s, a).pool, a)])
    <2>1. GoodPool(s.mcp, McpPorts)
        BY DEF Fits
    <2>2. [s EXCEPT !.rest = Release(RestOf(s, a).pool, a)]
            = [rest |-> Release(RestOf(s, a).pool, a), mcp |-> s.mcp, tracked |-> s.tracked,
               port |-> s.port, mcp_port |-> s.mcp_port]
        BY <1>0, RestFields
    <2> HIDE DEF Good
    <2> QED
        BY <1>4, <1>6, <1>7, <2>1, <2>2
<1>8. ASSUME ~ s.tracked[a].alive, McpOf(s, a).port = NoPort
      PROVE  Good(FALSE, WithoutMcpPort(s, a))
    <2>1. /\ GoodPool(McpOf(s, a).pool, McpPorts)
          /\ McpOf(s, a).pool.app_ports = [s.mcp.app_ports EXCEPT ![a] = NoPort]
        BY <1>8, Allocated
    <2>2. WithoutMcpPort(s, a)
             = [rest |-> Release(RestOf(s, a).pool, a), mcp |-> McpOf(s, a).pool,
                tracked |-> s.tracked, port |-> s.port, mcp_port |-> s.mcp_port]
        BY <1>0, WithoutMcpPortFields
    <2> HIDE DEF Good
    <2> QED
        BY <1>4, <1>6, <1>8, <2>1, <2>2
<1>9. \E ok \in BOOLEAN : \E t : r = Answer(ok, t) /\ Good(ok, t)
    <2> HIDE DEF Good
    <2>1. CASE r \in {Answer(FALSE, s), Answer(FALSE, Raised(s, a)), Answer(TRUE, s)}
        BY <1>1, <1>2, <2>1
    <2>2. CASE ~ s.tracked[a].alive /\ r \in LaunchAnswers(s, a)
        <3>1. CASE RestOf(s, a).port = NoPort
            BY <1>5, <2>2, <3>1 DEF LaunchAnswers
        <3>2. CASE RestOf(s, a).port # NoPort
            <4>1. \/ r = Answer(FALSE, [s EXCEPT !.rest = Release(RestOf(s, a).pool, a)])
                  \/ McpOf(s, a).port = NoPort /\ r = Answer(FALSE, WithoutMcpPort(s, a))
                  \/ r = Answer(TRUE, Launched(s, a))
                BY <2>2, <3>2 DEF LaunchAnswers
            <4> QED
                BY <1>3, <1>7, <1>8, <2>2, <3>2, <4>1
        <3> QED
            BY <3>1, <3>2
    <2> QED
        BY <2>1, <2>2 DEF StartAnswers
<1> QED
    BY <1>9 DEF Answer

-----------------------------------------------------------------------------
(* Steps. *)

LEMMA NowFields ==
    ASSUME IInv
    PROVE  /\ Fits(Now) /\ IsState(Now)
           /\ Now.rest = rest /\ Now.mcp = mcp /\ Now.tracked = tracked /\ Now.port = port
           /\ Now.mcp_port = mcp_port
           /\ tracked \in [Apps -> Row] /\ port \in [Apps -> RestPorts \cup {NoPort}]
           /\ Services \subseteq Apps /\ StreamlitApps \subseteq Apps /\ WebApps \subseteq Services
           /\ Services \cap StreamlitApps = {}
<1>1. Fits(Now)
    BY DEF IInv
<1>2. /\ Now.rest = rest /\ Now.mcp = mcp /\ Now.tracked = tracked /\ Now.port = port
      /\ Now.mcp_port = mcp_port
    BY DEF Now
<1>3. /\ IsState(Now) /\ Now.tracked \in [Apps -> Row]
      /\ Now.port \in [Apps -> RestPorts \cup {NoPort}]
    BY <1>1, FitsFields
<1> QED
    BY <1>1, <1>2, <1>3, LaunchersAssumption

\* The parts of the invariant that a step of the launchers leaves to be shown.
LEMMA LaunchersStep ==
    ASSUME NEW s, Fits(s), Becomes(s), RouteTypes', RoutesInv',
           registered' \subseteq Apps, \A a \in Apps : s.tracked[a].alive => a \in registered',
           idle' \subseteq StreamlitApps, \A a \in idle' : s.tracked[a] # NotTracked,
           waiting' \subseteq {"started", "stopped"} \X Services,
           orphans' \subseteq RestPorts \cup McpPorts
    PROVE  IInv'
<1>1. Now' = s
    <2>1. IsState(s)
        BY FitsFields
    <2> QED
        BY <2>1 DEF Becomes, IsState, Now
<1>2. tracked' = s.tracked
    BY DEF Becomes
<1>3. Fits(Now)'
    BY <1>1
<1>4. Others'
    BY <1>2, LaunchersAssumption DEF Others, Alive, Tracked
<1> QED
    BY <1>3, <1>4 DEF IInv

\* Once a handler waits, a thread waits, or a regeneration has been skipped, the routes
\* may be anything.
LEMMA Unsettled ==
    ASSUME IInv, \/ waiting' # {} /\ UNCHANGED caddyvars
                 \/ request_regeneration
                 \/ skip_regeneration
    PROVE  RouteTypes' /\ RoutesInv'
<1>1. jobs \in Nat /\ MaxJobs \in Nat
    BY CaddyAssumption DEF IInv, RouteTypes
<1>2. RouteTypes'
    <2>1. CASE UNCHANGED caddyvars
        BY <2>1 DEF IInv, RouteTypes, caddyvars
    <2>2. CASE request_regeneration
        <3>1. jobs' \in 0 .. MaxJobs
            BY <1>1, <2>2 DEF request_regeneration, OneMore
        <3> QED
            BY <2>2, <3>1 DEF IInv, RouteTypes, request_regeneration
    <2>3. CASE skip_regeneration
        BY <2>3 DEF IInv, RouteTypes, skip_regeneration
    <2> QED
        BY <2>1, <2>2, <2>3
<1>3. ~ Settled'
    BY <1>1 DEF Settled, request_regeneration, skip_regeneration, OneMore
<1> QED
    BY <1>2, <1>3 DEF RoutesInv

\* A step that moves no web app's port.
LEMMA SameRoutes ==
    ASSUME IInv, UNCHANGED <<caddyvars, waiting>>, \A a \in WebApps : Shown(a)' = Shown(a)
    PROVE  RouteTypes' /\ RoutesInv'
BY DEF IInv, RouteTypes, RoutesInv, Settled, caddyvars

LEMMA LostPorts ==
    ASSUME NEW s, Fits(s), NEW t
    PROVE  Lost(s, t) \subseteq RestPorts \cup McpPorts
<1>1. \A a \in Apps : /\ s.tracked[a].port \in RestPorts \cup {NoPort}
                      /\ s.tracked[a].mcp \in McpPorts \cup {NoPort}
    BY FitsFields DEF Row
<1> QED
    BY <1>1 DEF Lost

\* start_service, on a value in which the launcher may have stopped the app before.
LEMMA StartedKeeps ==
    ASSUME IInv, NEW a \in Services, a \in registered, NEW s, Fits(s),
           \A b \in Apps \ {a} : s.tracked[b] = tracked[b],
           NEW r \in StartAnswers(s, a), Becomes(r.s), UNCHANGED <<registered, idle>>,
           orphans' \subseteq RestPorts \cup McpPorts,
           \/ Wait("started", a)
           \/ RoutesInv' /\ RouteTypes' /\ UNCHANGED waiting
    PROVE  IInv'
<1>1. /\ Fits(r.s)
      /\ \A b \in Apps \ {a} : r.s.tracked[b] = tracked[b]
    BY NowFields, StartFits
<1>2. RoutesInv' /\ RouteTypes'
    <2>1. CASE Wait("started", a)
        BY <2>1, Unsettled DEF Wait
    <2> QED
        BY <2>1
<1>3. \A b \in Apps : r.s.tracked[b].alive => b \in registered'
    BY <1>1 DEF IInv, Others, Alive
<1>4. idle' \subseteq StreamlitApps /\ \A b \in idle' : r.s.tracked[b] # NotTracked
    BY <1>1, NowFields DEF IInv, Others, Tracked
<1>5. waiting' \subseteq {"started", "stopped"} \X Services
    BY DEF Wait, IInv, Others
<1>6. registered' \subseteq Apps
    BY DEF IInv, Others
<1> QED
    BY <1>1, <1>2, <1>3, <1>4, <1>5, <1>6, LaunchersStep

LEMMA StartKeeps ==
    ASSUME IInv, NEW a \in Services, start(a)
    PROVE  IInv'
<1>1. PICK r \in StartAnswers(Now, a) :
          /\ Becomes(r.s)
          /\ orphans' = orphans \cup Lost(Now, r.s)
          /\ IF r.ok THEN Wait("started", a) ELSE UNCHANGED <<waiting, caddyvars>>
    BY DEF start
<1>2. a \in registered /\ UNCHANGED <<registered, idle>> /\ a \in Apps
    BY NowFields DEF start
<1>3. orphans' \subseteq RestPorts \cup McpPorts
    BY <1>1, NowFields, LostPorts DEF IInv, Others
<1>4. ~ r.ok => RoutesInv' /\ RouteTypes' /\ UNCHANGED waiting
    <2>1. ASSUME ~ r.ok PROVE port' = port
        BY <1>1, <1>2, <2>1, NowFields, StartFits DEF Becomes
    <2> QED
        BY <1>1, <1>2, <2>1, SameRoutes DEF Shown
<1> QED
    BY <1>1, <1>2, <1>3, <1>4, NowFields, StartedKeeps

LEMMA RestartKeeps ==
    ASSUME IInv, NEW a \in Services, restart(a)
    PROVE  IInv'
<1> DEFINE s == StopAll(Now, {a})
<1>1. PICK r \in StartAnswers(s, a) :
          /\ Becomes(r.s)
          /\ IF r.ok THEN Wait("started", a) ELSE skip_regeneration /\ UNCHANGED waiting
    BY DEF restart
<1>2. a \in registered /\ UNCHANGED <<registered, idle, orphans>> /\ a \in Apps
    BY NowFields DEF restart
<1>3. orphans' \subseteq RestPorts \cup McpPorts
    BY <1>2 DEF IInv, Others
<1>4. Fits(s) /\ \A b \in Apps \ {a} : s.tracked[b] = tracked[b]
    BY <1>2, {a} \in SUBSET Apps, NowFields, StopAllFits
<1> HIDE DEF s
<1>5. ~ r.ok => RoutesInv' /\ RouteTypes' /\ UNCHANGED waiting
    BY <1>1, Unsettled
<1> QED
    BY <1>1, <1>2, <1>3, <1>4, <1>5, StartedKeeps

\* The launchers stop the apps of S, which lose their place among the idle ones.
LEMMA StoppedKeeps ==
    ASSUME IInv, NEW S \in SUBSET Apps, Becomes(StopAll(Now, S)),
           registered' \subseteq Apps, registered \ S \subseteq registered',
           idle' \subseteq idle, idle' \cap S = {},
           waiting' \subseteq {"started", "stopped"} \X Services, UNCHANGED orphans,
           RoutesInv', RouteTypes'
    PROVE  IInv'
<1> DEFINE s == StopAll(Now, S)
<1>1. /\ Fits(s) /\ Becomes(s)
      /\ \A b \in S : s.tracked[b] = NotTracked
      /\ \A b \in Apps \ S : s.tracked[b] = tracked[b]
    BY NowFields, StopAllFits
<1> HIDE DEF s
<1>2. \A b \in Apps : s.tracked[b].alive => b \in registered'
    BY <1>1 DEF IInv, Others, Alive, NotTracked
<1>3. idle' \subseteq StreamlitApps /\ \A b \in idle' : s.tracked[b] # NotTracked
    BY <1>1, NowFields DEF IInv, Others, Tracked
<1>4. orphans' \subseteq RestPorts \cup McpPorts
    BY DEF IInv, Others
<1> QED
    BY <1>1, <1>2, <1>3, <1>4, LaunchersStep

LEMMA StopKeeps ==
    ASSUME IInv, NEW a \in Services, stop(a)
    PROVE  IInv'
<1>1. /\ Becomes(StopAll(Now, {a})) /\ Wait("stopped", a)
      /\ UNCHANGED <<registered, idle, orphans>> /\ {a} \in SUBSET Apps
    BY NowFields DEF stop
<1>2. RoutesInv' /\ RouteTypes'
    BY <1>1, Unsettled DEF Wait
<1>3. waiting' \subseteq {"started", "stopped"} \X Services
    BY <1>1 DEF Wait, IInv, Others
<1>4. registered' \subseteq Apps /\ idle' \cap {a} = {}
    BY <1>1, NowFields DEF IInv, Others
<1> QED
    BY <1>1, <1>2, <1>3, <1>4, StoppedKeeps

LEMMA GatewayKeeps ==
    ASSUME IInv, NEW a \in Services, NEW kind \in {"started", "stopped"},
           gateway_answers(kind, a)
    PROVE  IInv'
<1>1. /\ UNCHANGED <<registered, idle, orphans>> /\ waiting' \subseteq waiting
      /\ {a} \in SUBSET Apps
      /\ \/ request_regeneration /\ UNCHANGED launchvars
         \/ Becomes(StopAll(Now, {a})) /\ skip_regeneration
    BY NowFields DEF gateway_answers
<1>2. RoutesInv' /\ RouteTypes'
    BY <1>1, Unsettled
<1>3. waiting' \subseteq {"started", "stopped"} \X Services
    BY <1>1 DEF IInv, Others
<1>4. registered' \subseteq Apps /\ idle' \cap {a} = {}
    BY <1>1, NowFields DEF IInv, Others
<1>5. CASE Becomes(StopAll(Now, {a}))
    BY <1>1, <1>2, <1>3, <1>4, <1>5, StoppedKeeps
<1>6. CASE UNCHANGED launchvars
    BY <1>1, <1>2, <1>3, <1>6 DEF IInv, Others, Now, Alive, Tracked, launchvars
<1> QED
    BY <1>1, <1>5, <1>6

\* Stopping the apps of S, and giving their ports back once more.
LEMMA Unregistered ==
    ASSUME NEW s, Fits(s), NEW S \in SUBSET Apps
    PROVE  /\ Fits(ReleasePorts(StopAll(s, S), S))
           /\ \A a \in S : ReleasePorts(StopAll(s, S), S).tracked[a] = NotTracked
           /\ \A a \in Apps \ S : ReleasePorts(StopAll(s, S), S).tracked[a] = s.tracked[a]
<1> DEFINE t == StopAll(s, S)
<1>1. /\ Fits(t)
      /\ \A a \in S : t.tracked[a] = NotTracked
      /\ \A a \in Apps \ S : t.tracked[a] = s.tracked[a]
    BY StopAllFits
<1> HIDE DEF t
<1>2. Fits(ReleasePorts(t, S)) /\ ReleasePorts(t, S).tracked = t.tracked
    BY <1>1, ReleasePortsFits
<1> QED
    BY <1>1, <1>2 DEF t

\* A new entry has no ports; nothing of the app runs.
LEMMA NewEntriesFit ==
    ASSUME NEW u, Fits(u), NEW F \in SUBSET Apps, \A a \in F : ~ u.tracked[a].alive
    PROVE  LET v == [u EXCEPT !.port = Clear(@, F), !.mcp_port = Clear(@, F)] IN
           Fits(v) /\ v.tracked = u.tracked
<1> DEFINE p == Clear(u.port, F)
           q == Clear(u.mcp_port, F)
           w == [u EXCEPT !.port = p]
           v == [u EXCEPT !.port = Clear(@, F), !.mcp_port = Clear(@, F)]
<1>1. /\ IsState(u) /\ u.rest \in Pools(RestPorts) /\ u.mcp \in Pools(McpPorts)
      /\ u.tracked \in [Apps -> Row] /\ u.port \in [Apps -> RestPorts \cup {NoPort}]
      /\ u.mcp_port \in [Apps -> McpPorts \cup {NoPort}]
    BY FitsFields
<1>2. /\ p \in [Apps -> RestPorts \cup {NoPort}] /\ q \in [Apps -> McpPorts \cup {NoPort}]
      /\ \A a \in Apps : /\ p[a] = IF a \in F THEN NoPort ELSE u.port[a]
                         /\ q[a] = IF a \in F THEN NoPort ELSE u.mcp_port[a]
    BY <1>1 DEF Clear
<1>3. v = [w EXCEPT !.mcp_port = Clear(@, F)]
    OBVIOUS
<1> HIDE DEF p
<1>4. w = [rest |-> u.rest, mcp |-> u.mcp, tracked |-> u.tracked, port |-> p,
           mcp_port |-> u.mcp_port]
    BY <1>1 DEF IsState
<1> HIDE DEF w, v
<1>5. Clear(w.mcp_port, F) = q
    BY <1>4
<1> HIDE DEF q
<1>6. v = [w EXCEPT !.mcp_port = q]
    BY <1>3, <1>5
<1>7. v = [rest |-> u.rest, mcp |-> u.mcp, tracked |-> u.tracked, port |-> p, mcp_port |-> q]
    BY <1>4, <1>6
<1>8. /\ v.rest = u.rest /\ v.mcp = u.mcp /\ v.tracked = u.tracked /\ v.port = p /\ v.mcp_port = q
      /\ v \in States
    BY <1>1, <1>2, <1>7 DEF States
<1>9. ASSUME NEW a \in Apps PROVE FitsApp(v, a)
    <2>1. FitsApp(u, a)
        BY DEF Fits
    <2> QED
        BY <1>2, <1>8, <2>1 DEF FitsApp
<1>10. Fits(v)
    BY <1>8, <1>9 DEF Fits
<1> QED
    BY <1>8, <1>10 DEF v

LEMMA DeleteKeeps ==
    ASSUME IInv, NEW a \in Apps, delete_app(a)
    PROVE  IInv'
<1> DEFINE S == {a}
           s == ReleasePorts(StopAll(Now, S), S)
<1>1. /\ Becomes(s) /\ idle' = idle \ S /\ UNCHANGED <<waiting, orphans>>
      /\ registered' \in {registered, registered \ S} /\ S \in SUBSET Apps
      /\ request_regeneration \/ skip_regeneration
    BY DEF delete_app
<1>2. /\ Fits(s)
      /\ \A b \in S : s.tracked[b] = NotTracked
      /\ \A b \in Apps \ S : s.tracked[b] = tracked[b]
    <2> HIDE DEF S
    <2> QED
        BY <1>1, NowFields, Unregistered
<1> HIDE DEF s, S
<1>3. RoutesInv' /\ RouteTypes'
    BY <1>1, Unsettled
<1>4. \A b \in Apps : s.tracked[b].alive => b \in registered'
    BY <1>1, <1>2 DEF IInv, Others, Alive, NotTracked
<1>5. idle' \subseteq StreamlitApps /\ \A b \in idle' : s.tracked[b] # NotTracked
    BY <1>1, <1>2, NowFields DEF IInv, Others, Tracked
<1>6. /\ orphans' \subseteq RestPorts \cup McpPorts /\ registered' \subseteq Apps
      /\ waiting' \subseteq {"started", "stopped"} \X Services
    BY <1>1 DEF IInv, Others
<1> QED
    BY <1>1, <1>2, <1>3, <1>4, <1>5, <1>6, LaunchersStep

LEMMA DiscoverKeeps ==
    ASSUME IInv, NEW F \in SUBSET Apps, NEW G \in SUBSET Apps, discover_apps(F, G)
    PROVE  IInv'
<1> DEFINE u == ReleasePorts(StopAll(Now, G), G)
           s == [u EXCEPT !.port = Clear(@, F), !.mcp_port = Clear(@, F)]
<1>1. /\ Becomes(s) /\ idle' = idle \ G /\ UNCHANGED <<waiting, orphans>>
      /\ F \cap registered = {} /\ registered' = (registered \cup F) \ G
      /\ request_regeneration
    BY DEF discover_apps
<1>2. /\ Fits(s)
      /\ \A b \in G : s.tracked[b] = NotTracked
      /\ \A b \in Apps \ G : s.tracked[b] = tracked[b]
    <2>1. /\ Fits(u)
          /\ \A b \in G : u.tracked[b] = NotTracked
          /\ \A b \in Apps \ G : u.tracked[b] = tracked[b]
        BY NowFields, Unregistered
    <2> HIDE DEF u
    <2>2. \A b \in F : ~ u.tracked[b].alive
        BY <1>1, <2>1 DEF IInv, Others, Alive, NotTracked
    <2>3. Fits(s) /\ s.tracked = u.tracked
        BY <2>1, <2>2, NewEntriesFit
    <2> QED
        BY <2>1, <2>3
<1> HIDE DEF s
<1>3. RoutesInv' /\ RouteTypes'
    BY <1>1, Unsettled
<1>4. \A b \in Apps : s.tracked[b].alive => b \in registered'
    BY <1>1, <1>2 DEF IInv, Others, Alive, NotTracked
<1>5. idle' \subseteq StreamlitApps /\ \A b \in idle' : s.tracked[b] # NotTracked
    BY <1>1, <1>2, NowFields DEF IInv, Others, Tracked
<1>6. /\ orphans' \subseteq RestPorts \cup McpPorts /\ registered' \subseteq Apps
      /\ waiting' \subseteq {"started", "stopped"} \X Services
    BY <1>1 DEF IInv, Others
<1> QED
    BY <1>1, <1>2, <1>3, <1>4, <1>5, <1>6, LaunchersStep

\* Streamlit apps have no routes.
LEMMA LaunchKeeps ==
    ASSUME IInv, NEW a \in StreamlitApps, launch(a)
    PROVE  IInv'
<1> DEFINE S == {a}
           t == StopAll(Now, S)
<1>1. /\ a \in registered /\ idle' = idle \ S
      /\ UNCHANGED <<caddyvars, registered, waiting, orphans>>
      /\ a \in Apps /\ S \in SUBSET Apps
    BY NowFields DEF launch
<1>2. /\ Fits(t) /\ t.tracked[a] = NotTracked
      /\ \A b \in Apps \ S : t.tracked[b] = tracked[b] /\ t.port[b] = port[b]
    BY <1>1, NowFields, StopAllFits
<1>3. \E s : /\ Fits(s) /\ Becomes(s)
             /\ \A b \in Apps \ S : s.tracked[b] = tracked[b] /\ s.port[b] = port[b]
    <2> HIDE DEF t
    <2>1. CASE UNCHANGED launchvars
        <3>1. Becomes(Now)
            BY <2>1 DEF Becomes, Now, launchvars
        <3> QED
            BY <3>1, NowFields
    <2>2. CASE Becomes(t)
        BY <1>2, <2>2
    <2>3. CASE RestOf(t, a).port # NoPort /\ Becomes(Launched(t, a))
        <3>1. ~ t.tracked[a].alive
            BY <1>2 DEF NotTracked
        <3>2. /\ Fits(Launched(t, a))
              /\ \A b \in Apps \ {a} : /\ Launched(t, a).tracked[b] = t.tracked[b]
                                       /\ Launched(t, a).port[b] = t.port[b]
            BY <1>1, <1>2, <2>3, <3>1, LaunchedFits
        <3>3. \A b \in Apps \ S : /\ Launched(t, a).tracked[b] = tracked[b]
                                  /\ Launched(t, a).port[b] = port[b]
            BY <1>2, <3>2
        <3> QED
            BY <2>3, <3>2, <3>3
    <2> QED
        BY <2>1, <2>2, <2>3 DEF launch, t
<1>4. PICK s : /\ Fits(s) /\ Becomes(s)
               /\ \A b \in Apps \ S : s.tracked[b] = tracked[b] /\ s.port[b] = port[b]
    BY <1>3
<1>5. RoutesInv' /\ RouteTypes'
    <2>1. \A b \in WebApps : b \in Apps \ S
        BY NowFields
    <2>2. \A b \in WebApps : port'[b] = port[b]
        BY <1>4, <2>1 DEF Becomes
    <2> QED
        BY <1>1, <2>2, SameRoutes DEF Shown
<1>6. \A b \in Apps : s.tracked[b].alive => b \in registered'
    BY <1>1, <1>4 DEF IInv, Others, Alive
<1>7. idle' \subseteq StreamlitApps /\ \A b \in idle' : s.tracked[b] # NotTracked
    BY <1>1, <1>4, NowFields DEF IInv, Others, Tracked
<1>8. /\ orphans' \subseteq RestPorts \cup McpPorts /\ registered' \subseteq Apps
      /\ waiting' \subseteq {"started", "stopped"} \X Services
    BY <1>1 DEF IInv, Others
<1> QED
    BY <1>4, <1>5, <1>6, <1>7, <1>8, LaunchersStep

LEMMA StreamlitStopKeeps ==
    ASSUME IInv, NEW S \in SUBSET StreamlitApps, Becomes(StopAll(Now, S)), idle' = idle \ S,
           UNCHANGED <<caddyvars, registered, waiting, orphans>>
    PROVE  IInv'
<1>1. S \in SUBSET Apps
    BY NowFields
<1>2. \A b \in WebApps : b \in Apps \ S
    BY NowFields
<1>3. \A b \in WebApps : port'[b] = port[b]
    BY <1>1, <1>2, NowFields, StopAllFits DEF Becomes
<1>4. RoutesInv' /\ RouteTypes'
    BY <1>3, SameRoutes DEF Shown
<1>5. /\ registered' \subseteq Apps /\ registered \ S \subseteq registered'
      /\ idle' \subseteq idle /\ idle' \cap S = {}
      /\ waiting' \subseteq {"started", "stopped"} \X Services
    BY DEF IInv, Others
<1> QED
    BY <1>1, <1>4, <1>5, StoppedKeeps

\* Accesses, times that pass, and processes of whom nothing is known.
LEMMA IdleKeeps ==
    ASSUME IInv, UNCHANGED <<launchvars, caddyvars, registered, waiting>>,
           idle' \subseteq StreamlitApps \cap Tracked, orphans' \subseteq orphans
    PROVE  IInv'
<1>1. RoutesInv' /\ RouteTypes'
    BY SameRoutes DEF Shown, launchvars
<1> QED
    BY <1>1 DEF IInv, Others, Now, Alive, Tracked, launchvars

LEMMA DeathKeeps ==
    ASSUME IInv, NEW a \in Apps, process_dies(a)
    PROVE  IInv'
<1> DEFINE row == [tracked[a] EXCEPT !.alive = FALSE]
           n == Now'
<1>1. /\ tracked' = [tracked EXCEPT ![a].alive = FALSE] /\ tracked[a].alive
      /\ UNCHANGED <<rest, mcp, port, mcp_port, caddyvars, registered, idle, waiting, orphans>>
    BY DEF process_dies, Alive
<1>2. tracked[a] \in Row /\ tracked \in [Apps -> Row]
    BY NowFields
<1>3. FitsApp(Now, a) /\ tracked[a].port # NoPort
    BY <1>1, NowFields DEF IInv, Fits, FitsApp
<1>4. row \in Row /\ row.port = tracked[a].port /\ row.alive = FALSE
    BY <1>2 DEF Row
<1>5. tracked' = [tracked EXCEPT ![a] = row]
    BY <1>1
<1> HIDE DEF row
<1>6. /\ tracked' \in [Apps -> Row] /\ tracked'[a] = row
      /\ \A b \in Apps : b # a => tracked'[b] = tracked[b]
    BY <1>2, <1>4, <1>5
<1>7. row # NotTracked
    BY <1>3, <1>4 DEF NotTracked
<1>8. n.rest = rest /\ n.mcp = mcp /\ n.tracked = tracked' /\ n.port = port /\ n.mcp_port = mcp_port
    BY <1>1 DEF Now
<1>9. n \in States
    BY <1>1, <1>6, NowFields, FitsFields DEF States, Now
<1> HIDE DEF n
<1>10. ASSUME NEW b \in Apps PROVE FitsApp(n, b)
    <2>1. FitsApp(Now, b)
        BY DEF IInv, Fits
    <2>2. CASE b = a
        BY <1>4, <1>6, <1>7, <1>8, <2>1, <2>2, NowFields DEF FitsApp
    <2>3. CASE b # a
        BY <1>6, <1>8, <2>1, <2>3, NowFields DEF FitsApp
    <2> QED
        BY <2>2, <2>3
<1>11. Fits(n)
    BY <1>8, <1>9, <1>10, NowFields DEF Fits
<1>12. RoutesInv' /\ RouteTypes'
    BY <1>1, SameRoutes DEF Shown
<1>13. Alive' \subseteq Alive /\ Tracked \subseteq Tracked'
    BY <1>4, <1>6, <1>7 DEF Alive, Tracked
<1>14. Others'
    BY <1>1, <1>13 DEF IInv, Others
<1> QED
    BY <1>11, <1>12, <1>14 DEF IInv, n

\* A platform that starts knows of no process and holds no port.
LEMMA FreshFits ==
    Fits([rest |-> EmptyPool(RestPorts), mcp |-> EmptyPool(McpPorts),
          tracked |-> [a \in Apps |-> NotTracked], port |-> NoPorts, mcp_port |-> NoPorts])
<1> DEFINE s == [rest |-> EmptyPool(RestPorts), mcp |-> EmptyPool(McpPorts),
                 tracked |-> [a \in Apps |-> NotTracked], port |-> NoPorts,
                 mcp_port |-> NoPorts]
<1>1. GoodPool(EmptyPool(RestPorts), RestPorts) /\ GoodPool(EmptyPool(McpPorts), McpPorts)
    BY EmptyPoolIsGood
<1>2. s \in States
    BY <1>1 DEF States, GoodPool, NotTracked, Row, NoPorts
<1>3. ASSUME NEW a \in Apps PROVE FitsApp(s, a)
    BY DEF FitsApp, EmptyPool, NotTracked, NoPorts
<1> QED
    BY <1>1, <1>2, <1>3 DEF Fits

LEMMA BootKeeps ==
    ASSUME IInv, NEW left, left \subseteq RestPorts \cup McpPorts, Boot(left)
    PROVE  IInv'
<1> DEFINE s == [rest |-> EmptyPool(RestPorts), mcp |-> EmptyPool(McpPorts),
                 tracked |-> [a \in Apps |-> NotTracked], port |-> NoPorts,
                 mcp_port |-> NoPorts]
<1>1. Fits(s) /\ Becomes(s)
    BY FreshFits DEF Boot, Becomes
<1>2. /\ registered' = Apps /\ idle' = {} /\ waiting' = {} /\ orphans' = left /\ port' = NoPorts
      /\ caddy_boot(NoRoutes)
    BY DEF Boot
<1>3. \A a \in Apps : ~ s.tracked[a].alive
    BY DEF NotTracked
<1> HIDE DEF s
<1>4. RouteTypes'
    <2>1. NoRoutes \in [WebApps -> RestPorts \cup {NoPort}] /\ 0 \in 0 .. MaxJobs
        BY CaddyAssumption DEF NoRoutes
    <2>2. NoRegen \in [busy : BOOLEAN, todo : SUBSET WebApps,
                       found : [WebApps -> RestPorts \cup {NoPort}]]
        BY <2>1 DEF NoRegen
    <2> HIDE DEF NoRoutes
    <2> QED
        BY <1>2, <2>1, <2>2 DEF caddy_boot, IInv, RouteTypes
<1>5. RoutesInv'
    BY <1>2, CaddyAssumption DEF caddy_boot, RoutesInv, Settled, NoRegen, NoRoutes, Shown, NoPorts
<1> QED
    BY <1>1, <1>2, <1>3, <1>4, <1>5, LaunchersStep

\* The steps of a regeneration, of which read_app reads one entry as it is now.
LEMMA RegenerationKeeps ==
    ASSUME IInv, read_registry \/ regenerate
    PROVE  IInv'
<1>1. UNCHANGED <<launchvars, registered, idle, waiting, orphans>>
    BY DEF read_registry, regenerate
<1>2. Fits(Now)' /\ Others' /\ \A a \in WebApps : Shown(a)' = Shown(a)
    BY <1>1 DEF IInv, Others, Now, Alive, Tracked, launchvars, Shown
<1>3. \A a \in WebApps : Shown(a) \in RestPorts \cup {NoPort}
    BY NowFields DEF Shown
<1>4. CASE read_registry
    <2>1. PICK a \in WebApps : read_app(a, Shown(a))
        BY <1>4 DEF read_registry, Shown
    <2>2. /\ a \in regen.todo /\ UNCHANGED <<caddy, jobs, stale>>
          /\ regen' = [regen EXCEPT !.todo = @ \ {a}, !.found[a] = Shown(a)]
        BY <2>1 DEF read_app
    <2> DEFINE R == [busy : BOOLEAN, todo : SUBSET WebApps,
                     found : [WebApps -> RestPorts \cup {NoPort}]]
    <2>3. regen \in R
        BY DEF IInv, RouteTypes
    <2>4. /\ regen' \in R /\ (regen'.busy <=> regen.busy) /\ regen'.todo = regen.todo \ {a}
          /\ regen'.found = [regen.found EXCEPT ![a] = Shown(a)]
        BY <1>3, <2>2, <2>3
    <2>5. RouteTypes'
        BY <2>2, <2>4 DEF IInv, RouteTypes
    <2>6. RoutesInv'
        BY <1>1, <1>2, <2>2, <2>3, <2>4 DEF IInv, RoutesInv, Settled
    <2> QED
        BY <1>2, <2>5, <2>6 DEF IInv
<1>5. CASE take_lock
    <2>1. jobs \in Nat /\ jobs \in 0 .. MaxJobs /\ MaxJobs \in Nat /\ jobs > 0
        BY <1>5, CaddyAssumption DEF IInv, RouteTypes, take_lock
    <2>2. RouteTypes'
        <3>1. NoRoutes \in [WebApps -> RestPorts \cup {NoPort}] /\ jobs - 1 \in 0 .. MaxJobs
            BY <2>1 DEF NoRoutes
        <3>2. regen' \in [busy : BOOLEAN, todo : SUBSET WebApps,
                          found : [WebApps -> RestPorts \cup {NoPort}]]
            BY <1>5, <3>1 DEF take_lock
        <3> QED
            BY <1>5, <3>1, <3>2 DEF IInv, RouteTypes, take_lock
    <2>3. RoutesInv'
        BY <1>5 DEF RoutesInv, take_lock
    <2> QED
        BY <1>2, <2>2, <2>3 DEF IInv
<1>6. CASE reload
    <2>1. RouteTypes'
        BY <1>6 DEF IInv, RouteTypes, reload, NoRegen, NoRoutes
    <2>2. RoutesInv'
        BY <1>1, <1>2, <1>6 DEF IInv, RoutesInv, reload, Settled, NoRegen
    <2> QED
        BY <1>2, <2>1, <2>2 DEF IInv
<1> QED
    BY <1>4, <1>5, <1>6 DEF regenerate

-----------------------------------------------------------------------------
(* Theorems. *)

LEMMA Initially == Init => IInv
<1> SUFFICES ASSUME Init PROVE IInv
    OBVIOUS
<1>1. Fits(Now)
    BY FreshFits DEF Init, Now
<1>2. Others
    BY DEF Init, Others, Alive, NotTracked
<1>3. NoRoutes \in [WebApps -> RestPorts \cup {NoPort}] /\ 0 \in 0 .. MaxJobs
    BY CaddyAssumption DEF NoRoutes
<1>4. NoRegen \in [busy : BOOLEAN, todo : SUBSET WebApps,
                   found : [WebApps -> RestPorts \cup {NoPort}]]
    BY <1>3 DEF NoRegen
<1>5. RouteTypes
    BY <1>3, <1>4 DEF Init, CaddyInit, RouteTypes
<1>6. RoutesInv
    BY DEF Init, CaddyInit, RoutesInv, NoRegen, NoRoutes, Shown
<1> QED
    BY <1>1, <1>2, <1>5, <1>6 DEF IInv

LEMMA NextKeeps == IInv /\ [Next]_vars => IInv'
<1> SUFFICES ASSUME IInv, [Next]_vars PROVE IInv'
    OBVIOUS
<1>1. \A a \in Services : start(a) \/ stop(a) \/ restart(a) => IInv'
    BY StartKeeps, StopKeeps, RestartKeeps
<1>2. \A a \in Services : \A kind \in {"started", "stopped"} : gateway_answers(kind, a) => IInv'
    BY GatewayKeeps
<1>3. \A a \in StreamlitApps : launch(a) => IInv'
    BY LaunchKeeps
<1>4. \A a \in StreamlitApps : stop_streamlit_app(a) => IInv'
    <2>1. ASSUME NEW a \in StreamlitApps, stop_streamlit_app(a)
          PROVE  IInv'
        BY <2>1, {a} \in SUBSET StreamlitApps, StreamlitStopKeeps DEF stop_streamlit_app
    <2> QED
        BY <2>1
<1>5. \A a \in StreamlitApps : touch_app(a) \/ ttl_passes(a) => IInv'
    BY IdleKeeps DEF touch_app, ttl_passes, IInv, Others
<1>6. \A a \in Apps : delete_app(a) \/ process_dies(a) => IInv'
    BY DeleteKeeps, DeathKeeps
<1>7. \A F, G \in SUBSET Apps : discover_apps(F, G) => IInv'
    BY DiscoverKeeps
<1>8. \A p \in orphans : orphan_dies(p) => IInv'
    BY IdleKeeps DEF orphan_dies, IInv, Others
<1>9. cleanup_loop => IInv'
    BY StreamlitStopKeeps DEF cleanup_loop, Idle, IInv, Others
<1>10. read_registry \/ regenerate => IInv'
    BY RegenerationKeeps
<1>11. crash \/ shutdown => IInv'
    <2>1. bound \subseteq RestPorts \cup McpPorts
        <3>1. \A a \in Apps : FitsApp(Now, a)
            BY DEF IInv, Fits
        <3>2. \A a \in Alive : tracked[a].port # NoPort
            BY <3>1, NowFields DEF FitsApp, Alive
        <3>3. \A a \in Apps : /\ tracked[a].port \in RestPorts \cup {NoPort}
                              /\ tracked[a].mcp \in McpPorts \cup {NoPort}
            BY NowFields DEF Row
        <3> QED
            BY <3>2, <3>3 DEF bound, PortsOf, IInv, Others, Alive
    <2>2. orphans \subseteq RestPorts \cup McpPorts
        BY DEF IInv, Others
    <2> QED
        BY <2>1, <2>2, BootKeeps DEF crash, shutdown
<1>12. UNCHANGED vars => IInv'
    BY IdleKeeps DEF vars, IInv, Others
<1> DEFINE Kept == IInv'
<1> HIDE DEF Kept
<1>13. Kept
    BY ONLY [Next]_vars, <1>1, <1>2, <1>3, <1>4, <1>5, <1>6, <1>7, <1>8, <1>9, <1>10, <1>11,
       <1>12, ZenonT(60) DEF Next, Kept
<1> QED
    BY <1>13 DEF Kept

LEMMA Invariance == Spec => []IInv
BY Initially, NextKeeps, PTL DEF Spec

\* Pools, rows, entries, waiting handlers, orphans and routes are what their types say:
\* among others, no idle app is without a row, and no index of a dictionary raises.
THEOREM TypeCorrect == Spec => []TypeOK
<1>1. IInv => TypeOK
    <2> SUFFICES ASSUME IInv PROVE TypeOK
        OBVIOUS
    <2>1. /\ rest \in Pools(RestPorts) /\ mcp \in Pools(McpPorts)
          /\ tracked \in [Apps -> Row] /\ port \in [Apps -> RestPorts \cup {NoPort}]
          /\ mcp_port \in [Apps -> McpPorts \cup {NoPort}]
        BY NowFields, FitsFields
    <2> QED
        BY <2>1 DEF TypeOK, IInv, Others, RouteTypes, Row
<1> QED
    BY <1>1, Invariance, PTL

\* No port is leaked and none is given back under a live process, whatever way a start
\* fails, an app dies, is deleted, goes idle or the platform ends.
THEOREM PortsAlwaysFollowProcesses == Spec => []PortsFollowProcesses
<1>1. IInv => PortsFollowProcesses
    <2> SUFFICES ASSUME IInv PROVE PortsFollowProcesses
        OBVIOUS
    <2>1. \A a \in Apps : FitsApp(Now, a)
        BY DEF IInv, Fits
    <2> QED
        BY <2>1, NowFields DEF FitsApp, PortsFollowProcesses, Tracked, Alive
<1> QED
    BY <1>1, Invariance, PTL

\* The entry of a live process is registered and shows the ports it listens on.
THEOREM RegistryAlwaysShowsPorts == Spec => []RegistryShowsPorts
<1>1. IInv => RegistryShowsPorts
    <2> SUFFICES ASSUME IInv PROVE RegistryShowsPorts
        OBVIOUS
    <2>1. \A a \in Apps : FitsApp(Now, a)
        BY DEF IInv, Fits
    <2> QED
        BY <2>1, NowFields DEF FitsApp, RegistryShowsPorts, Alive, IInv, Others
<1> QED
    BY <1>1, Invariance, PTL

\* However many threads wait for the lock and whatever changes while one of them reads:
\* when none is left and none failed or was skipped, Caddy has the routes of the registry.
THEOREM RoutesAlwaysFollowRegistry == Spec => []RoutesFollowRegistry
<1>1. IInv => RoutesFollowRegistry
    BY DEF IInv, RoutesInv, Settled, Shown, RoutesFollowRegistry
<1> QED
    BY <1>1, Invariance, PTL
\* No two processes the launchers know to be alive listen on one port, although the TTL,
\* deletions and starts that fail give ports back in any order.
PortsAreDistinct ==
    \A a, b \in Alive : a # b =>
        /\ tracked[a].port # tracked[b].port
        /\ tracked[a].mcp = tracked[b].mcp => tracked[a].mcp = NoPort

\* Two apps never have one port of a pool whose dictionaries are inverse.
LEMMA GoodIsInjective ==
    ASSUME NEW Ports, NEW pool, GoodPool(pool, Ports), NEW a \in Apps, NEW b \in Apps,
           pool.app_ports[a] # NoPort, pool.app_ports[a] = pool.app_ports[b]
    PROVE  a = b
BY DEF GoodPool, Inverse

\* The rows of live processes, of any number of apps, have ports of their own.
THEOREM PortsAlwaysDistinct == Spec => []PortsAreDistinct
<1>1. IInv => PortsAreDistinct
    <2> SUFFICES ASSUME IInv, NEW a \in Alive, NEW b \in Alive, a # b
                 PROVE  /\ tracked[a].port # tracked[b].port
                        /\ tracked[a].mcp = tracked[b].mcp => tracked[a].mcp = NoPort
        BY DEF PortsAreDistinct
    <2>1. GoodPool(rest, RestPorts) /\ GoodPool(mcp, McpPorts)
        BY NowFields DEF IInv, Fits
    <2>2. \A c \in Alive : /\ c \in Apps /\ tracked[c].port # NoPort
                          /\ rest.app_ports[c] = tracked[c].port
                          /\ mcp.app_ports[c] = tracked[c].mcp
        BY NowFields DEF IInv, Fits, FitsApp, Alive
    <2> QED
        BY <2>1, <2>2, GoodIsInjective
<1> QED
    BY <1>1, Invariance, PTL
=============================================================================
