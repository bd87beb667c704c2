------------------------------ MODULE PortPool ------------------------------
(***************************************************************************)
(* One pool of ports as PortManager keeps it (managers/port_manager.py):   *)
(* the dictionary allocations (port -> PortAllocation) and the dictionary  *)
(* app_ports (app_id -> port).  The code has two such pools, REST and MCP, *)
(* served by two copies of the same methods; the operators below are those *)
(* methods as functions of a pool, so PortManager and every module that    *)
(* calls it use the same definitions.                                      *)
(*                                                                         *)
(* A missing key of a dictionary is NoPort or NoAllocation.  What the code *)
(* asks of the operating system (can this port be bound now?) is the       *)
(* argument bound, the set of ports some process is listening on.          *)
(***************************************************************************)
EXTENDS Integers

CONSTANTS
    Apps,       \* application identifiers
    NoApp,      \* the owner of no allocation
    NoPort      \* Python's None where a port is expected

ASSUME AppsAssumption == NoApp \notin Apps /\ NoPort \notin Nat

\* What the properties tell apart of a PortAllocation: its owner, its status
\* and whether allocated_at lies more than an hour back.
Allocation == [app_id : Apps, status : {"allocated", "in_use"}, old : BOOLEAN]

NoAllocation == [app_id |-> NoApp, status |-> "released", old |-> FALSE]

Pools(Ports) == [allocations : [Ports -> Allocation \cup {NoAllocation}],
                 app_ports   : [Apps -> Ports \cup {NoPort}]]

EmptyPool(Ports) == [allocations |-> [p \in Ports |-> NoAllocation],
                     app_ports   |-> [a \in Apps |-> NoPort]]

NewAllocation(a) == [app_id |-> a, status |-> "allocated", old |-> FALSE]

\* allocations[app_ports[a]] raises KeyError: a maps to a port that has no entry.
Dangling(pool, a) ==
    /\ pool.app_ports[a] # NoPort
    /\ pool.allocations[pool.app_ports[a]] = NoAllocation

FreeButTheLast(pool, bound) ==                                       \* mutant
    {p \in DOMAIN pool.allocations : /\ pool.allocations[p] = NoAllocation /\ p \notin bound
                                     /\ \E q \in DOMAIN pool.allocations : p < q}

Free(pool, bound) ==
    {p \in DOMAIN pool.allocations : pool.allocations[p] = NoAllocation /\ p \notin bound}

Lowest(S) == CHOOSE p \in S : \A q \in S : p <= q

\* _allocate_specific_port and claim_port: no check at all.
Give(pool, a, p) ==
    [allocations |-> [pool.allocations EXCEPT ![p] = NewAllocation(a)],
     app_ports   |-> [pool.app_ports EXCEPT ![a] = p]]

ReleaseForgetsAllocation(pool, a) ==                                 \* mutant
    [pool EXCEPT !.app_ports = [pool.app_ports EXCEPT ![a] = NoPort]]

ReleaseMarksAllocation(pool, a) ==                                   \* mutant
    IF pool.app_ports[a] = NoPort
    THEN pool
    ELSE [allocations |-> [pool.allocations EXCEPT ![pool.app_ports[a]].status = "released"],
          app_ports   |-> [pool.app_ports EXCEPT ![a] = NoPort]]

\* release_port; the callers exclude the KeyError of a dangling mapping.
Release(pool, a) ==
    IF pool.app_ports[a] = NoPort
    THEN pool
    ELSE [allocations |-> [pool.allocations EXCEPT ![pool.app_ports[a]] = NoAllocation],
          app_ports   |-> [pool.app_ports EXCEPT ![a] = NoPort]]

\* The allocation of a is reused: status and allocated_at are renewed in place.
Renew(pool, a) ==
    LET p == pool.app_ports[a]
    IN  [allocations |-> [pool.allocations EXCEPT ![p] = NewAllocation(pool.allocations[p].app_id)],
         app_ports   |-> pool.app_ports]

AllocateIgnoresTable(pool, a, preferred, bound) ==                   \* mutant
    LET bindable == DOMAIN pool.allocations \ bound
    IN  IF bindable # {}
        THEN [port |-> Lowest(bindable), pool |-> Give(pool, a, Lowest(bindable))]
        ELSE [port |-> NoPort, pool |-> pool]

\* allocate_port: reuse the app's own port while it can be bound, else give it
\* back; then the preferred port, then the lowest free one, then nothing.
Allocate(pool, a, preferred, bound) ==
    LET own  == pool.app_ports[a]
        kept == Release(pool, a)
        free == Free(kept, bound)
        port == IF preferred \in free THEN preferred ELSE Lowest(free)
    IN  IF own # NoPort /\ own \notin bound
        THEN [port |-> own, pool |-> Renew(pool, a)]
        ELSE IF free # {}
             THEN [port |-> port, pool |-> Give(kept, a, port)]
             ELSE [port |-> NoPort, pool |-> kept]

\* The apps cleanup_stale_allocations selects.
Stale(pool, bound) ==
    {a \in Apps : /\ pool.app_ports[a] # NoPort
                  /\ pool.app_ports[a] \notin bound
                  /\ pool.allocations[pool.app_ports[a]].status = "allocated"
                  /\ pool.allocations[pool.app_ports[a]].old}

\* release_port for every app of S, the KeyError excluded.
ReleaseAll(pool, S) ==
    LET freed == {pool.app_ports[a] : a \in S} \ {NoPort}
    IN  [allocations |-> [p \in DOMAIN pool.allocations |->
                             IF p \in freed THEN NoAllocation ELSE pool.allocations[p]],
         app_ports   |-> [a \in Apps |-> IF a \in S THEN NoPort ELSE pool.app_ports[a]]]

\* A loop that calls release_port for each app of S ends having served done: all
\* of S, or, when two apps of S map to one port, what came before the second of
\* them, whose lookup raises.
Served(pool, S, done) ==
    /\ done \subseteq S
    /\ \A a \in done : ~ Dangling(pool, a)
    /\ \A a, b \in done :
          a # b /\ pool.app_ports[a] = pool.app_ports[b] => pool.app_ports[a] = NoPort
    /\ \/ done = S
       \/ \E a \in S \ done :
             \/ Dangling(pool, a)
             \/ /\ pool.app_ports[a] # NoPort
                /\ \E b \in done : pool.app_ports[a] = pool.app_ports[b]

\* One hour later every allocation that was not renewed is old.
Aged(pool) ==
    [allocations |-> [p \in DOMAIN pool.allocations |->
                         IF pool.allocations[p] = NoAllocation
                         THEN NoAllocation
                         ELSE [pool.allocations[p] EXCEPT !.old = TRUE]],
     app_ports   |-> pool.app_ports]

-----------------------------------------------------------------------------
(* What the methods rely on. *)

\* The two dictionaries of a pool are each other's inverse.
Inverse(pool) ==
    /\ \A a \in Apps : pool.app_ports[a] # NoPort
                          => pool.allocations[pool.app_ports[a]].app_id = a
    /\ \A p \in DOMAIN pool.allocations :
          pool.allocations[p] # NoAllocation
             => pool.app_ports[pool.allocations[p].app_id] = p
=============================================================================
