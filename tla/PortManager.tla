---------------------------- MODULE PortManager ----------------------------
(***************************************************************************)
(* managers/port_manager.py: the allocator of REST and MCP ports.          *)
(*                                                                         *)
(* State: the four dictionaries of PortManager and, outside the process,   *)
(* the ports some process of the machine is listening on (bound), which    *)
(* the code sees only by trying to bind.  Every method is one action: the  *)
(* platform calls them from its event loop without an await in between.    *)
(* Left out: app_type and the statistics, which no decision reads, and     *)
(* get_app_port and the other getters, which change nothing.               *)
(***************************************************************************)
EXTENDS PortPool

CONSTANTS RestPorts, McpPorts      \* the two configured ranges

ASSUME PortsAssumption == RestPorts \subseteq Nat /\ McpPorts \subseteq Nat

VARIABLES allocations, app_ports, mcp_allocations, app_mcp_ports, bound

vars == <<allocations, app_ports, mcp_allocations, app_mcp_ports, bound>>

rest == [allocations |-> allocations, app_ports |-> app_ports]
mcp  == [allocations |-> mcp_allocations, app_ports |-> app_mcp_ports]

SetRest(pool) == allocations' = pool.allocations /\ app_ports' = pool.app_ports
SetMcp(pool)  == mcp_allocations' = pool.allocations /\ app_mcp_ports' = pool.app_ports

RestUnchanged == UNCHANGED <<allocations, app_ports>>
McpUnchanged  == UNCHANGED <<mcp_allocations, app_mcp_ports>>

Init ==
    /\ allocations = EmptyPool(RestPorts).allocations
    /\ app_ports = EmptyPool(RestPorts).app_ports
    /\ mcp_allocations = EmptyPool(McpPorts).allocations
    /\ app_mcp_ports = EmptyPool(McpPorts).app_ports
    /\ bound = {}

-----------------------------------------------------------------------------

allocate_port(a, preferred) ==
    /\ SetRest(Allocate(rest, a, preferred, bound).pool)
    /\ McpUnchanged /\ UNCHANGED bound

allocate_mcp_port(a) ==
    /\ SetMcp(Allocate(mcp, a, NoPort, bound).pool)
    /\ RestUnchanged /\ UNCHANGED bound

ClaimableAnyPort(pool, a, p) == pool.app_ports[a] = NoPort          \* mutant

\* The caller's contract, from the docstring of claim_port, is that a has no
\* allocation yet; that p has none either is what its use, one unit one port,
\* relies on without saying so.
Claimable(pool, a, p) ==
    /\ pool.app_ports[a] = NoPort
    /\ pool.allocations[p] = NoAllocation

claim_port(a, p) ==
    /\ Claimable(rest, a, p)
    /\ SetRest(Give(rest, a, p))
    /\ McpUnchanged /\ UNCHANGED bound

claim_mcp_port(a, p) ==
    /\ Claimable(mcp, a, p)
    /\ SetMcp(Give(mcp, a, p))
    /\ RestUnchanged /\ UNCHANGED bound

release_port(a) ==
    /\ SetRest(Release(rest, a))
    /\ McpUnchanged /\ UNCHANGED bound

release_mcp_port(a) ==
    /\ SetMcp(Release(mcp, a))
    /\ RestUnchanged /\ UNCHANGED bound

mark_port_in_use(a) ==
    /\ app_ports[a] # NoPort
    /\ allocations' = [allocations EXCEPT ![app_ports[a]].status = "in_use"]
    /\ UNCHANGED app_ports /\ McpUnchanged /\ UNCHANGED bound

\* Of the two pools only the REST one is ever cleaned up.
cleanup_stale_allocations ==
    /\ SetRest(ReleaseAll(rest, Stale(rest, bound)))
    /\ McpUnchanged /\ UNCHANGED bound

-----------------------------------------------------------------------------
(* The machine: processes bind and release ports, and time passes.         *)

Bind(p)   == bound' = bound \cup {p} /\ RestUnchanged /\ McpUnchanged
Unbind(p) == bound' = bound \ {p} /\ RestUnchanged /\ McpUnchanged

HourPasses == SetRest(Aged(rest)) /\ SetMcp(Aged(mcp)) /\ UNCHANGED bound

Next ==
    \/ \E a \in Apps, p \in RestPorts \cup {NoPort} : allocate_port(a, p)
    \/ \E a \in Apps : allocate_mcp_port(a)
    \/ \E a \in Apps, p \in RestPorts : claim_port(a, p)
    \/ \E a \in Apps, p \in McpPorts : claim_mcp_port(a, p)
    \/ \E a \in Apps : release_port(a)
    \/ \E a \in Apps : release_mcp_port(a)
    \/ \E a \in Apps : mark_port_in_use(a)
    \/ cleanup_stale_allocations
    \/ \E p \in RestPorts \cup McpPorts : Bind(p) \/ Unbind(p)
    \/ HourPasses

Spec == Init /\ [][Next]_vars

-----------------------------------------------------------------------------
(* Properties *)

TypeOK ==
    /\ rest \in Pools(RestPorts)
    /\ mcp \in Pools(McpPorts)
    /\ bound \subseteq RestPorts \cup McpPorts

\* No call, in whatever order REST and MCP calls, cleanups and binds of other
\* processes come, leaves allocations and app_ports disagreeing.  Every method
\* edits the two dictionaries separately, and release_port raises KeyError as
\* soon as they differ.
MapsAgree == Inverse(rest) /\ Inverse(mcp)

\* allocate_port answers None only when the whole range is bound or held by
\* other apps, and otherwise answers a port that can be bound and that no other
\* app holds, even when it has just given back a port it could not bind.
AnswerIsSound(pool) ==
    \A a \in Apps, preferred \in DOMAIN pool.allocations \cup {NoPort} :
        LET port == Allocate(pool, a, preferred, bound).port
            Taken(p) == p \in bound \/ pool.allocations[p].app_id \notin {a, NoApp}
        IN  IF port = NoPort
            THEN \A p \in DOMAIN pool.allocations : Taken(p)
            ELSE port \in DOMAIN pool.allocations /\ ~ Taken(port)

AllocationsAreSound == AnswerIsSound(rest) /\ AnswerIsSound(mcp)

\* Each pool implements the abstract lease: exclusive, at most one port an app,
\* and no hand-over without a release in between.
RestLease == INSTANCE PortLease WITH Holders <- Apps, Resources <- RestPorts,
                                     None <- NoPort, lease <- app_ports
McpLease  == INSTANCE PortLease WITH Holders <- Apps, Resources <- McpPorts,
                                     None <- NoPort, lease <- app_mcp_ports

RestPortsAreLeases == RestLease!Spec
McpPortsAreLeases  == McpLease!Spec
=============================================================================
