------------------------- MODULE PortManagerProofs -------------------------
(***************************************************************************)
(* Proofs about PortManager for every set of apps and every two port       *)
(* ranges.  What each method does to one pool is in PortPoolProofs, over   *)
(* an arbitrary pool, so both copies of the methods share it; here are the *)
(* invariants of the specification, then the refinement of PortLease.      *)
(***************************************************************************)
EXTENDS PortManager, PortPoolProofs

\* Marking an allocation as in use.
LEMMA MarkIsGood ==
    ASSUME NEW Ports \in SUBSET Nat, NEW al, NEW ap, GoodMaps(al, ap, Ports),
           NEW a \in Apps, ap[a] # NoPort
    PROVE  GoodMaps([al EXCEPT ![ap[a]].status = "in_use"], ap, Ports)
<1> DEFINE al2 == [al EXCEPT ![ap[a]].status = "in_use"]
<1>1. ap[a] \in Ports /\ al[ap[a]] \in Allocation /\ al[ap[a]].app_id = a
    BY OwnAllocation
<1>2. al2 \in [Ports -> Allocation \cup {NoAllocation}]
    BY <1>1 DEF GoodMaps, Allocation
<1>3. ASSUME NEW p \in Ports
      PROVE  al2[p].app_id = al[p].app_id /\ (al2[p] # NoAllocation => al[p] # NoAllocation)
    <2>1. CASE p = ap[a]
        <3>1. al2[p] = [al[p] EXCEPT !.status = "in_use"] /\ al[p] # NoAllocation
            BY <1>1, <2>1, AppsAssumption DEF GoodMaps, NoAllocation
        <3> QED
            BY <1>1, <2>1, <3>1 DEF Allocation
    <2>2. CASE p # ap[a]
        BY <2>2 DEF GoodMaps
    <2> QED
        BY <2>1, <2>2
<1> HIDE DEF al2
<1>4. GoodMaps(al2, ap, Ports)
    BY <1>2, <1>3 DEF GoodMaps
<1> QED
    BY <1>4 DEF al2

-----------------------------------------------------------------------------
(* The invariants.                                                         *)

Good == GoodPool(rest, RestPorts) /\ GoodPool(mcp, McpPorts) /\ bound \subseteq RestPorts \cup McpPorts

\* What an action that replaces one pool by a good one leaves.
LEMMA SetRestIsGood ==
    ASSUME NEW pool, GoodPool(pool, RestPorts), SetRest(pool)
    PROVE  GoodPool(rest', RestPorts) /\ app_ports' = pool.app_ports
<1>1. GoodMaps(allocations', app_ports', RestPorts)
    BY GoodPoolMaps DEF SetRest
<1> QED
    BY <1>1, GoodPoolIsGoodMaps DEF rest, SetRest

LEMMA SetMcpIsGood ==
    ASSUME NEW pool, GoodPool(pool, McpPorts), SetMcp(pool)
    PROVE  GoodPool(mcp', McpPorts) /\ app_mcp_ports' = pool.app_ports
<1>1. GoodMaps(mcp_allocations', app_mcp_ports', McpPorts)
    BY GoodPoolMaps DEF SetMcp
<1> QED
    BY <1>1, GoodPoolIsGoodMaps DEF mcp, SetMcp

LEMMA InitIsGood == Init => Good
<1> SUFFICES ASSUME Init PROVE Good
    OBVIOUS
<1>1. rest = EmptyPool(RestPorts) /\ mcp = EmptyPool(McpPorts)
    BY DEF Init, rest, mcp, EmptyPool
<1> QED
    BY <1>1, EmptyPoolIsGood DEF Good, Init

LEMMA StepIsGood == Good /\ [Next]_vars => Good'
<1> SUFFICES ASSUME Good, [Next]_vars PROVE Good'
    OBVIOUS
<1> USE PortsAssumption
<1>g. GoodPool(rest, RestPorts) /\ GoodPool(mcp, McpPorts) /\ bound \subseteq RestPorts \cup McpPorts
    BY DEF Good
<1>r. RestUnchanged => GoodPool(rest', RestPorts)
    BY <1>g DEF RestUnchanged, rest
<1>m. McpUnchanged => GoodPool(mcp', McpPorts)
    BY <1>g DEF McpUnchanged, mcp
<1>b. UNCHANGED bound => bound' \subseteq RestPorts \cup McpPorts
    BY <1>g
<1>1. ASSUME NEW a \in Apps, NEW p \in RestPorts \cup {NoPort}, allocate_port(a, p)
      PROVE  Good'
    <2>1. GoodPool(Allocate(rest, a, p, bound).pool, RestPorts)
        BY <1>g, AllocateIsGood
    <2> QED
        BY <1>1, <1>m, <1>b, <2>1, SetRestIsGood DEF allocate_port, Good
<1>2. ASSUME NEW a \in Apps, allocate_mcp_port(a)
      PROVE  Good'
    <2>1. GoodPool(Allocate(mcp, a, NoPort, bound).pool, McpPorts)
        BY <1>g, AllocateIsGood
    <2> QED
        BY <1>2, <1>r, <1>b, <2>1, SetMcpIsGood DEF allocate_mcp_port, Good
<1>3. ASSUME NEW a \in Apps, NEW p \in RestPorts, claim_port(a, p)
      PROVE  Good'
    <2>1. GoodPool(Give(rest, a, p), RestPorts)
        BY <1>3, <1>g, GiveIsGood DEF claim_port, Claimable
    <2> QED
        BY <1>3, <1>m, <1>b, <2>1, SetRestIsGood DEF claim_port, Good
<1>4. ASSUME NEW a \in Apps, NEW p \in McpPorts, claim_mcp_port(a, p)
      PROVE  Good'
    <2>1. GoodPool(Give(mcp, a, p), McpPorts)
        BY <1>4, <1>g, GiveIsGood DEF claim_mcp_port, Claimable
    <2> QED
        BY <1>4, <1>r, <1>b, <2>1, SetMcpIsGood DEF claim_mcp_port, Good
<1>5. ASSUME NEW a \in Apps, release_port(a)
      PROVE  Good'
    <2>1. GoodPool(Release(rest, a), RestPorts)
        BY <1>g, ReleaseIsGood
    <2> QED
        BY <1>5, <1>m, <1>b, <2>1, SetRestIsGood DEF release_port, Good
<1>6. ASSUME NEW a \in Apps, release_mcp_port(a)
      PROVE  Good'
    <2>1. GoodPool(Release(mcp, a), McpPorts)
        BY <1>g, ReleaseIsGood
    <2> QED
        BY <1>6, <1>r, <1>b, <2>1, SetMcpIsGood DEF release_mcp_port, Good
<1>7. ASSUME NEW a \in Apps, mark_port_in_use(a)
      PROVE  Good'
    <2>1. GoodMaps(allocations, app_ports, RestPorts)
        BY <1>g, GoodPoolIsGoodMaps DEF rest
    <2>2. GoodMaps(allocations', app_ports', RestPorts)
        BY <1>7, <2>1, MarkIsGood DEF mark_port_in_use
    <2>3. GoodPool(rest', RestPorts)
        BY <2>2, GoodPoolIsGoodMaps DEF rest
    <2> QED
        BY <1>7, <1>m, <1>b, <2>3 DEF mark_port_in_use, Good
<1>8. ASSUME cleanup_stale_allocations
      PROVE  Good'
    <2>1. GoodPool(ReleaseAll(rest, Stale(rest, bound)), RestPorts)
        BY <1>g, ReleaseAllIsGood DEF Stale
    <2> QED
        BY <1>8, <1>m, <1>b, <2>1, SetRestIsGood DEF cleanup_stale_allocations, Good
<1>9. ASSUME NEW p \in RestPorts \cup McpPorts, Bind(p) \/ Unbind(p)
      PROVE  Good'
    BY <1>9, <1>g, <1>r, <1>m DEF Bind, Unbind, Good
<1>10. ASSUME HourPasses
       PROVE  Good'
    <2>1. GoodPool(Aged(rest), RestPorts) /\ GoodPool(Aged(mcp), McpPorts)
        BY <1>g, AgedIsGood
    <2> QED
        BY <1>10, <1>b, <2>1, SetRestIsGood, SetMcpIsGood DEF HourPasses, Good
<1>11. CASE UNCHANGED vars
    BY <1>11, <1>g DEF vars, Good, rest, mcp
<1> QED
    BY <1>1, <1>2, <1>3, <1>4, <1>5, <1>6, <1>7, <1>8, <1>9, <1>10, <1>11 DEF Next

\* PortManager keeps its types: no call stores a value outside the ranges.
THEOREM TypeCorrect == Spec => []TypeOK
<1>1. Good => TypeOK
    BY DEF Good, TypeOK, GoodPool
<1> QED
    BY <1>1, InitIsGood, StepIsGood, PTL DEF Spec

\* The two dictionaries of each pool stay inverse of each other, so the lookup
\* allocations[app_ports[a]] of release_port and allocate_port never raises, as
\* long as claim_port is called under Claimable.
THEOREM MapsAlwaysAgree == Spec => []MapsAgree
<1>1. Good => MapsAgree
    BY DEF Good, MapsAgree, GoodPool
<1> QED
    BY <1>1, InitIsGood, StepIsGood, PTL DEF Spec
-----------------------------------------------------------------------------
(* What allocate_port answers.                                             *)

\* What Release leaves of the two functions of a pool.
LEMMA ReleasedMaps ==
    ASSUME NEW Ports \in SUBSET Nat, NEW pool, GoodPool(pool, Ports), NEW a \in Apps
    PROVE  /\ Release(pool, a).app_ports = [pool.app_ports EXCEPT ![a] = NoPort]
           /\ DOMAIN Release(pool, a).allocations = Ports
<1>1. GoodMaps(pool.allocations, pool.app_ports, Ports)
    BY GoodPoolMaps
<1> QED
    BY <1>1 DEF Release, GoodMaps

LEMMA ReleasedAllocation ==
    ASSUME NEW Ports \in SUBSET Nat, NEW pool, GoodPool(pool, Ports), NEW a \in Apps,
           NEW p \in Ports
    PROVE  Release(pool, a).allocations[p] =
              IF p = pool.app_ports[a] THEN NoAllocation ELSE pool.allocations[p]
<1>1. GoodMaps(pool.allocations, pool.app_ports, Ports)
    BY GoodPoolMaps
<1> QED
    BY <1>1, AppsAssumption DEF Release, GoodMaps

\* A port is free for a, once a's own is given back, exactly when it is neither
\* bound nor held by another app.
LEMMA FreeForApp ==
    ASSUME NEW Ports \in SUBSET Nat, NEW pool, GoodPool(pool, Ports), NEW a \in Apps,
           NEW bound_, NEW p \in Ports
    PROVE  p \in Free(Release(pool, a), bound_)
              <=> p \notin bound_ /\ pool.allocations[p].app_id \in {a, NoApp}
<1>1. GoodMaps(pool.allocations, pool.app_ports, Ports)
    BY GoodPoolMaps
<1>2. p \in Free(Release(pool, a), bound_)
         <=> /\ p \notin bound_
             /\ p = pool.app_ports[a] \/ pool.allocations[p] = NoAllocation
    <2>1. DOMAIN Release(pool, a).allocations = Ports
        BY ReleasedMaps
    <2>2. Release(pool, a).allocations[p] =
             IF p = pool.app_ports[a] THEN NoAllocation ELSE pool.allocations[p]
        BY ReleasedAllocation
    <2> QED
        BY <2>1, <2>2 DEF Free
<1>3. pool.allocations[p].app_id = a <=> p = pool.app_ports[a]
    <2> DEFINE al == pool.allocations
               ap == pool.app_ports
    <2>1. GoodMaps(al, ap, Ports)
        BY <1>1
    <2> HIDE DEF al, ap
    <2>2. ASSUME al[p].app_id = a
          PROVE  ap[a] = p
        <3>1. al[p] # NoAllocation
            BY <2>2, AppsAssumption DEF NoAllocation
        <3> QED
            BY <2>1, <2>2, <3>1 DEF GoodMaps
    <2>3. ASSUME ap[a] = p
          PROVE  al[p].app_id = a
        <3>1. ap[a] # NoPort
            BY <2>3, AppsAssumption
        <3> QED
            BY <2>1, <2>3, <3>1 DEF GoodMaps
    <2>4. al[p].app_id = a <=> p = ap[a]
        BY <2>2, <2>3
    <2> QED
        BY <2>4 DEF al, ap
<1>4. pool.allocations[p].app_id = NoApp <=> pool.allocations[p] = NoAllocation
    <2>1. pool.allocations[p] \in Allocation \cup {NoAllocation}
        BY <1>1 DEF GoodMaps
    <2>2. CASE pool.allocations[p] = NoAllocation
        BY <2>2 DEF NoAllocation
    <2>3. CASE pool.allocations[p] \in Allocation
        <3>1. pool.allocations[p].app_id \in Apps
            BY <2>3 DEF Allocation
        <3>2. NoAllocation.app_id = NoApp
            BY DEF NoAllocation
        <3> QED
            BY <3>1, <3>2, AppsAssumption
    <2> QED
        BY <2>1, <2>2, <2>3
<1> QED
    BY <1>2, <1>3, <1>4

LEMMA GoodPoolAnswers ==
    ASSUME NEW Ports \in SUBSET Nat, NEW pool, GoodPool(pool, Ports)
    PROVE  AnswerIsSound(pool)
<1> DEFINE Taken(a, p) == p \in bound \/ pool.allocations[p].app_id \notin {a, NoApp}
<1>d. DOMAIN pool.allocations = Ports
    BY DEF GoodPool, Pools
<1>1. ASSUME NEW a \in Apps, NEW preferred \in Ports \cup {NoPort}
      PROVE  IF Allocate(pool, a, preferred, bound).port = NoPort
             THEN \A p \in Ports : Taken(a, p)
             ELSE /\ Allocate(pool, a, preferred, bound).port \in Ports
                  /\ ~ Taken(a, Allocate(pool, a, preferred, bound).port)
    <2> DEFINE result == Allocate(pool, a, preferred, bound)
               free == Free(Release(pool, a), bound)
    <2>1. CASE /\ pool.app_ports[a] # NoPort
               /\ pool.app_ports[a] \notin bound
               /\ result = [port |-> pool.app_ports[a], pool |-> Renew(pool, a)]
        <3>1. pool.app_ports[a] \in Ports /\ pool.allocations[pool.app_ports[a]].app_id = a
            BY <2>1, GoodPoolMaps, OwnAllocation
        <3> QED
            BY <2>1, <3>1
    <2>2. ASSUME NEW p \in free,
                 result = [port |-> p, pool |-> Give(Release(pool, a), a, p)]
          PROVE  result.port \in Ports /\ ~ Taken(a, result.port) /\ result.port # NoPort
        <3>1. p \in Ports
            <4>1. DOMAIN Release(pool, a).allocations = Ports
                BY ReleasedMaps
            <4> QED
                BY <4>1 DEF Free
        <3>2. ~ Taken(a, p) /\ p # NoPort
            BY <3>1, FreeForApp, AppsAssumption
        <3> QED
            BY <2>2, <3>1, <3>2
    <2>3. CASE free = {} /\ result = [port |-> NoPort, pool |-> Release(pool, a)]
        BY <2>3, FreeForApp
    <2> QED
        BY <2>1, <2>2, <2>3, AllocateCases
<1> QED
    BY <1>1, <1>d DEF AnswerIsSound

\* allocate_port and allocate_mcp_port refuse only when the range is exhausted,
\* and never answer a port in use or held by another app.
THEOREM AllocationsAlwaysSound == Spec => []AllocationsAreSound
<1>1. Good => AllocationsAreSound
    BY GoodPoolAnswers, PortsAssumption DEF Good, AllocationsAreSound
<1> QED
    BY <1>1, InitIsGood, StepIsGood, PTL DEF Spec
-----------------------------------------------------------------------------
(* The refinement of PortLease, for an arbitrary pool first.               *)

\* A step of the lease between two values of app_ports.
LeaseStep(before, after, Ports) ==
    \/ after = before
    \/ \E a \in Apps, p \in Ports :
          /\ \A other \in Apps \ {a} : before[other] # p
          /\ after = [before EXCEPT ![a] = p]
    \/ \E S \in SUBSET Apps : after = [a \in Apps |-> IF a \in S THEN NoPort ELSE before[a]]

LEMMA GiveIsLease ==
    ASSUME NEW Ports \in SUBSET Nat, NEW pool, GoodPool(pool, Ports),
           NEW a \in Apps, NEW p \in Ports,
           pool.allocations[p].app_id \in {a, NoApp}
    PROVE  LeaseStep(pool.app_ports, [pool.app_ports EXCEPT ![a] = p], Ports)
<1>1. GoodMaps(pool.allocations, pool.app_ports, Ports)
    BY GoodPoolMaps
<1>2. \A other \in Apps \ {a} : pool.app_ports[other] # p
    BY <1>1, AppsAssumption DEF GoodMaps
<1> QED
    BY <1>2 DEF LeaseStep

LEMMA ReleaseAllIsLease ==
    ASSUME NEW Ports \in SUBSET Nat, NEW pool, NEW S \in SUBSET Apps
    PROVE  LeaseStep(pool.app_ports, ReleaseAll(pool, S).app_ports, Ports)
BY DEF ReleaseAll, LeaseStep

LEMMA ReleaseIsLease ==
    ASSUME NEW Ports \in SUBSET Nat, NEW pool, GoodPool(pool, Ports), NEW a \in Apps
    PROVE  LeaseStep(pool.app_ports, Release(pool, a).app_ports, Ports)
<1> DEFINE ap == pool.app_ports
<1>1. Release(pool, a).app_ports = [ap EXCEPT ![a] = NoPort]
    BY ReleasedMaps
<1>2. ap \in [Apps -> Ports \cup {NoPort}]
    BY DEF GoodPool, Pools
<1> HIDE DEF ap
<1>3. [ap EXCEPT ![a] = NoPort] = [b \in Apps |-> IF b \in {a} THEN NoPort ELSE ap[b]]
    BY <1>2
<1>4. LeaseStep(ap, [ap EXCEPT ![a] = NoPort], Ports)
    BY <1>3, {a} \in SUBSET Apps DEF LeaseStep
<1> QED
    BY <1>1, <1>4 DEF ap

LEMMA AllocateIsLease ==
    ASSUME NEW Ports \in SUBSET Nat, NEW pool, GoodPool(pool, Ports),
           NEW a \in Apps, NEW preferred
    PROVE  LeaseStep(pool.app_ports, Allocate(pool, a, preferred, bound).pool.app_ports, Ports)
<1> DEFINE result == Allocate(pool, a, preferred, bound)
           kept == Release(pool, a)
<1>1. CASE result = [port |-> pool.app_ports[a], pool |-> Renew(pool, a)]
    <2>1. Renew(pool, a).app_ports = pool.app_ports
        BY DEF Renew
    <2>2. result.pool.app_ports = pool.app_ports
        BY <1>1, <2>1
    <2> QED
        BY <2>2 DEF LeaseStep
<1>2. ASSUME NEW p \in Free(kept, bound), result = [port |-> p, pool |-> Give(kept, a, p)]
      PROVE  LeaseStep(pool.app_ports, result.pool.app_ports, Ports)
    <2>1. DOMAIN kept.allocations = Ports /\ kept.app_ports = [pool.app_ports EXCEPT ![a] = NoPort]
        BY ReleasedMaps
    <2>2. p \in Ports
        BY <2>1 DEF Free
    <2>3. pool.allocations[p].app_id \in {a, NoApp}
        BY <2>2, FreeForApp
    <2>4. pool.app_ports \in [Apps -> Ports \cup {NoPort}]
        BY DEF GoodPool, Pools
    <2>5. result.pool.app_ports = [kept.app_ports EXCEPT ![a] = p]
        BY <1>2 DEF Give
    <2>6. result.pool.app_ports = [pool.app_ports EXCEPT ![a] = p]
        BY <2>1, <2>4, <2>5
    <2> QED
        BY <2>2, <2>3, <2>6, GiveIsLease
<1>3. CASE result = [port |-> NoPort, pool |-> kept]
    BY <1>3, ReleaseIsLease
<1> QED
    BY <1>1, <1>2, <1>3, AllocateCases

LEMMA RestStepIsLease == Good /\ [Next]_vars => LeaseStep(app_ports, app_ports', RestPorts)
<1> SUFFICES ASSUME Good, [Next]_vars PROVE LeaseStep(app_ports, app_ports', RestPorts)
    OBVIOUS
<1> USE PortsAssumption
<1>g. GoodPool(rest, RestPorts) /\ rest.app_ports = app_ports
    BY DEF Good, rest
<1>1. ASSUME NEW a \in Apps, NEW p \in RestPorts \cup {NoPort}, allocate_port(a, p)
      PROVE  LeaseStep(app_ports, app_ports', RestPorts)
    BY <1>1, <1>g, AllocateIsLease DEF allocate_port, SetRest
<1>2. ASSUME NEW a \in Apps, NEW p \in RestPorts, claim_port(a, p)
      PROVE  LeaseStep(app_ports, app_ports', RestPorts)
    <2>1. rest.allocations[p].app_id = NoApp
        BY <1>2 DEF claim_port, Claimable, NoAllocation
    <2>2. app_ports' = [app_ports EXCEPT ![a] = p]
        BY <1>2, <1>g DEF claim_port, SetRest, Give
    <2> QED
        BY <1>g, <2>1, <2>2, GiveIsLease
<1>3. ASSUME NEW a \in Apps, release_port(a)
      PROVE  LeaseStep(app_ports, app_ports', RestPorts)
    BY <1>3, <1>g, ReleaseIsLease DEF release_port, SetRest
<1>4. ASSUME cleanup_stale_allocations
      PROVE  LeaseStep(app_ports, app_ports', RestPorts)
    <2>1. Stale(rest, bound) \in SUBSET Apps
        BY DEF Stale
    <2> QED
        BY <1>4, <1>g, <2>1, ReleaseAllIsLease DEF cleanup_stale_allocations, SetRest
<1>5. ASSUME HourPasses
      PROVE  LeaseStep(app_ports, app_ports', RestPorts)
    BY <1>5, <1>g DEF HourPasses, SetRest, Aged, LeaseStep
<1>6. ASSUME UNCHANGED app_ports
      PROVE  LeaseStep(app_ports, app_ports', RestPorts)
    BY <1>6 DEF LeaseStep
<1> QED
    BY <1>1, <1>2, <1>3, <1>4, <1>5, <1>6
    DEF Next, vars, RestUnchanged, allocate_mcp_port, claim_mcp_port, release_mcp_port,
        mark_port_in_use, Bind, Unbind

LEMMA McpStepIsLease == Good /\ [Next]_vars => LeaseStep(app_mcp_ports, app_mcp_ports', McpPorts)
<1> SUFFICES ASSUME Good, [Next]_vars PROVE LeaseStep(app_mcp_ports, app_mcp_ports', McpPorts)
    OBVIOUS
<1> USE PortsAssumption
<1>g. GoodPool(mcp, McpPorts) /\ mcp.app_ports = app_mcp_ports
    BY DEF Good, mcp
<1>1. ASSUME NEW a \in Apps, allocate_mcp_port(a)
      PROVE  LeaseStep(app_mcp_ports, app_mcp_ports', McpPorts)
    BY <1>1, <1>g, AllocateIsLease DEF allocate_mcp_port, SetMcp
<1>2. ASSUME NEW a \in Apps, NEW p \in McpPorts, claim_mcp_port(a, p)
      PROVE  LeaseStep(app_mcp_ports, app_mcp_ports', McpPorts)
    <2>1. mcp.allocations[p].app_id = NoApp
        BY <1>2 DEF claim_mcp_port, Claimable, NoAllocation
    <2>2. app_mcp_ports' = [app_mcp_ports EXCEPT ![a] = p]
        BY <1>2, <1>g DEF claim_mcp_port, SetMcp, Give
    <2> QED
        BY <1>g, <2>1, <2>2, GiveIsLease
<1>3. ASSUME NEW a \in Apps, release_mcp_port(a)
      PROVE  LeaseStep(app_mcp_ports, app_mcp_ports', McpPorts)
    BY <1>3, <1>g, ReleaseIsLease DEF release_mcp_port, SetMcp
<1>4. ASSUME HourPasses
      PROVE  LeaseStep(app_mcp_ports, app_mcp_ports', McpPorts)
    BY <1>4, <1>g DEF HourPasses, SetMcp, Aged, LeaseStep
<1>5. ASSUME UNCHANGED app_mcp_ports
      PROVE  LeaseStep(app_mcp_ports, app_mcp_ports', McpPorts)
    BY <1>5 DEF LeaseStep
<1> QED
    BY <1>1, <1>2, <1>3, <1>4, <1>5
    DEF Next, vars, McpUnchanged, allocate_port, claim_port, release_port,
        cleanup_stale_allocations, mark_port_in_use, Bind, Unbind

\* The REST pool implements the abstract lease.
THEOREM RestRefinesLease == Spec => RestPortsAreLeases
<1>1. Init => RestLease!Init
    BY DEF Init, RestLease!Init, EmptyPool
<1>2. Good /\ [Next]_vars => [RestLease!Next]_app_ports
    BY RestStepIsLease
    DEF LeaseStep, RestLease!Next, RestLease!Take, RestLease!GiveBack
<1> QED
    BY <1>1, <1>2, InitIsGood, StepIsGood, PTL DEF Spec, RestPortsAreLeases, RestLease!Spec

\* The MCP pool implements the abstract lease.
THEOREM McpRefinesLease == Spec => McpPortsAreLeases
<1>1. Init => McpLease!Init
    BY DEF Init, McpLease!Init, EmptyPool
<1>2. Good /\ [Next]_vars => [McpLease!Next]_app_mcp_ports
    BY McpStepIsLease
    DEF LeaseStep, McpLease!Next, McpLease!Take, McpLease!GiveBack
<1> QED
    BY <1>1, <1>2, InitIsGood, StepIsGood, PTL DEF Spec, McpPortsAreLeases, McpLease!Spec
=============================================================================
