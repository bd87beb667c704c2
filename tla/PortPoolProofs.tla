--------------------------- MODULE PortPoolProofs ---------------------------
(***************************************************************************)
(* What the methods of one pool leave behind, for every set of apps and    *)
(* every range of ports.  The first lemmas ask less of a pool than that    *)
(* its dictionaries agree: after a restart of the platform two apps may    *)
(* map to one port, but no allocation is without an app that maps to it.   *)
(* The others are about the pools that nothing but the methods has set.    *)
(***************************************************************************)
EXTENDS PortPool, TLAPS, WellFoundedInduction

\* The scan of a range finds a lowest port in every set that is not empty.
LEMMA LowestIsThere ==
    ASSUME NEW S \in SUBSET Nat, S # {}
    PROVE  Lowest(S) \in S
<1> DEFINE less == {ss \in Nat \X Nat : ss[1] < ss[2]}
<1>1. IsWellFoundedOn(less, Nat)
    BY NatLessThanWellFounded, Zenon DEF OpToRel
<1> HIDE DEF less
<1>2. PICK p \in S : \A q \in S : ~ (<<q, p>> \in less)
    BY <1>1, WFMin
<1>3. ASSUME NEW q \in S
      PROVE  p <= q
    <2>1. p \in Nat /\ q \in Nat /\ <<q, p>> \notin less
        BY <1>2
    <2>2. ~ (q < p)
        BY <2>1 DEF less
    <2> QED
        BY <2>1, <2>2
<1> QED
    BY <1>3 DEF Lowest

\* A pool, as its two functions: types, and every allocation has its owner.
OwnedMaps(al, ap, Ports) ==
    /\ al \in [Ports -> Allocation \cup {NoAllocation}]
    /\ ap \in [Apps -> Ports \cup {NoPort}]
    /\ \A p \in Ports : al[p] # NoAllocation => ap[al[p].app_id] = p

Owned(pool, Ports) ==
    /\ pool \in Pools(Ports)
    /\ OwnedMaps(pool.allocations, pool.app_ports, Ports)

LEMMA OwnedRecord ==
    ASSUME NEW Ports, NEW al, NEW ap, OwnedMaps(al, ap, Ports)
    PROVE  Owned([allocations |-> al, app_ports |-> ap], Ports)
BY DEF Owned, OwnedMaps, Pools

LEMMA EmptyIsOwned ==
    ASSUME NEW Ports
    PROVE  Owned(EmptyPool(Ports), Ports)
BY DEF Owned, OwnedMaps, Pools, EmptyPool

\* release_port takes the app's mapping away and the allocation it leads to.
LEMMA ReleaseIsOwned ==
    ASSUME NEW Ports \in SUBSET Nat, NEW pool, Owned(pool, Ports), NEW a \in Apps
    PROVE  /\ Owned(Release(pool, a), Ports)
           /\ Release(pool, a).app_ports = [pool.app_ports EXCEPT ![a] = NoPort]
           /\ DOMAIN Release(pool, a).allocations = Ports
<1> DEFINE al == pool.allocations
           ap == pool.app_ports
           al2 == [al EXCEPT ![ap[a]] = NoAllocation]
           ap2 == [ap EXCEPT ![a] = NoPort]
<1>1. OwnedMaps(al, ap, Ports)
    BY DEF Owned
<1>2. CASE ap[a] = NoPort
    <2>1. Release(pool, a) = pool
        BY <1>2 DEF Release
    <2>2. ap = ap2 /\ DOMAIN al = Ports
        BY <1>1, <1>2 DEF OwnedMaps
    <2> QED
        BY <2>1, <2>2
<1>3. CASE ap[a] # NoPort
    <2>1. Release(pool, a) = [allocations |-> al2, app_ports |-> ap2]
        BY <1>3 DEF Release
    <2> HIDE DEF al, ap
    <2>2. OwnedMaps(al2, ap2, Ports)
        <3>1. al2 \in [Ports -> Allocation \cup {NoAllocation}] /\ ap2 \in [Apps -> Ports \cup {NoPort}]
            BY <1>1 DEF OwnedMaps
        <3>2. ASSUME NEW p \in Ports, al2[p] # NoAllocation
              PROVE  ap2[al2[p].app_id] = p
            <4>1. p # ap[a] /\ al2[p] = al[p]
                BY <1>1, <3>2 DEF OwnedMaps
            <4>2. ap[al[p].app_id] = p
                BY <1>1, <3>2, <4>1 DEF OwnedMaps
            <4>3. al[p].app_id \in Apps
                BY <1>1, <3>2, <4>1 DEF OwnedMaps, Allocation
            <4> QED
                BY <1>1, <4>1, <4>2, <4>3 DEF OwnedMaps
        <3> QED
            BY <3>1, <3>2 DEF OwnedMaps
    <2>3. DOMAIN al2 = Ports
        BY <1>1 DEF OwnedMaps
    <2>4. Owned(Release(pool, a), Ports)
        BY <2>1, <2>2, OwnedRecord
    <2> QED
        BY <2>1, <2>3, <2>4 DEF ap
<1> QED
    BY <1>2, <1>3

\* _allocate_specific_port for an app that maps to nothing.
LEMMA GiveIsOwned ==
    ASSUME NEW Ports \in SUBSET Nat, NEW pool, Owned(pool, Ports),
           NEW a \in Apps, pool.app_ports[a] = NoPort, NEW p \in Ports
    PROVE  /\ Owned(Give(pool, a, p), Ports)
           /\ Give(pool, a, p).app_ports = [pool.app_ports EXCEPT ![a] = p]
<1> DEFINE al == pool.allocations
           ap == pool.app_ports
           al2 == [al EXCEPT ![p] = NewAllocation(a)]
           ap2 == [ap EXCEPT ![a] = p]
<1>1. OwnedMaps(al, ap, Ports) /\ ap[a] = NoPort
    BY DEF Owned
<1>2. Give(pool, a, p) = [allocations |-> al2, app_ports |-> ap2]
    BY DEF Give
<1> HIDE DEF al, ap
<1>3. OwnedMaps(al2, ap2, Ports)
    <2>1. al2 \in [Ports -> Allocation \cup {NoAllocation}] /\ ap2 \in [Apps -> Ports \cup {NoPort}]
        BY <1>1 DEF OwnedMaps, NewAllocation, Allocation
    <2>2. ASSUME NEW q \in Ports, al2[q] # NoAllocation, q # p
          PROVE  ap2[al2[q].app_id] = q
        <3>1. al2[q] = al[q]
            BY <1>1, <2>2 DEF OwnedMaps
        <3>2. ap[al[q].app_id] = q /\ al[q].app_id \in Apps
            BY <1>1, <2>2, <3>1 DEF OwnedMaps, Allocation
        <3>3. al[q].app_id # a
            BY <1>1, <3>2, AppsAssumption
        <3> QED
            BY <1>1, <3>1, <3>2, <3>3 DEF OwnedMaps
    <2>3. al2[p].app_id = a /\ ap2[a] = p
        BY <1>1 DEF OwnedMaps, NewAllocation
    <2> QED
        BY <2>1, <2>2, <2>3 DEF OwnedMaps
<1>4. Owned(Give(pool, a, p), Ports)
    BY <1>2, <1>3, OwnedRecord
<1> QED
    BY <1>2, <1>4 DEF ap

\* Reusing an allocation that is there.
LEMMA RenewIsOwned ==
    ASSUME NEW Ports \in SUBSET Nat, NEW pool, Owned(pool, Ports),
           NEW a \in Apps, pool.app_ports[a] # NoPort, ~ Dangling(pool, a)
    PROVE  /\ Owned(Renew(pool, a), Ports)
           /\ Renew(pool, a).app_ports = pool.app_ports
<1> DEFINE al == pool.allocations
           ap == pool.app_ports
           own == ap[a]
           al2 == [al EXCEPT ![own] = NewAllocation(al[own].app_id)]
<1>1. OwnedMaps(al, ap, Ports) /\ own # NoPort /\ al[own] # NoAllocation
    BY DEF Owned, Dangling
<1>2. Renew(pool, a) = [allocations |-> al2, app_ports |-> ap]
    BY DEF Renew
<1> HIDE DEF al, ap
<1>3. own \in Ports /\ al[own].app_id \in Apps
    BY <1>1 DEF OwnedMaps, Allocation
<1>4. OwnedMaps(al2, ap, Ports)
    <2>1. al2 \in [Ports -> Allocation \cup {NoAllocation}]
        BY <1>1, <1>3 DEF OwnedMaps, NewAllocation, Allocation
    <2>2. ASSUME NEW q \in Ports, al2[q] # NoAllocation
          PROVE  ap[al2[q].app_id] = q
        <3>1. al2[q].app_id = al[q].app_id /\ al[q] # NoAllocation
            BY <1>1, <1>3, <2>2 DEF OwnedMaps, NewAllocation
        <3> QED
            BY <1>1, <3>1 DEF OwnedMaps
    <2> QED
        BY <1>1, <2>1, <2>2 DEF OwnedMaps
<1>5. Owned(Renew(pool, a), Ports)
    BY <1>2, <1>4, OwnedRecord
<1> QED
    BY <1>2, <1>5 DEF ap

\* allocate_port moves the app's mapping to the port it answers, which is in the
\* range, or takes it away when it answers None.
LEMMA AllocateIsOwned ==
    ASSUME NEW Ports \in SUBSET Nat, NEW pool, Owned(pool, Ports), NEW a \in Apps,
           ~ Dangling(pool, a), NEW preferred, NEW taken
    PROVE  /\ Owned(Allocate(pool, a, preferred, taken).pool, Ports)
           /\ Allocate(pool, a, preferred, taken).port \in Ports \cup {NoPort}
           /\ Allocate(pool, a, preferred, taken).pool.app_ports
                 = [pool.app_ports EXCEPT ![a] = Allocate(pool, a, preferred, taken).port]
<1> DEFINE own == pool.app_ports[a]
           kept == Release(pool, a)
           free == Free(kept, taken)
           port == IF preferred \in free THEN preferred ELSE Lowest(free)
           answer == Allocate(pool, a, preferred, taken)
<1>0. pool.app_ports \in [Apps -> Ports \cup {NoPort}]
    BY DEF Owned, OwnedMaps
<1>1. CASE own # NoPort /\ own \notin taken
    <2>1. answer = [port |-> own, pool |-> Renew(pool, a)]
        BY <1>1 DEF Allocate
    <2>2. Owned(Renew(pool, a), Ports) /\ Renew(pool, a).app_ports = pool.app_ports
        BY <1>1, RenewIsOwned
    <2>3. pool.app_ports = [pool.app_ports EXCEPT ![a] = own] /\ own \in Ports \cup {NoPort}
        BY <1>0
    <2> QED
        BY <2>1, <2>2, <2>3
<1>2. CASE ~ (own # NoPort /\ own \notin taken)
    <2>1. /\ Owned(kept, Ports)
          /\ kept.app_ports = [pool.app_ports EXCEPT ![a] = NoPort]
          /\ DOMAIN kept.allocations = Ports
        BY ReleaseIsOwned
    <2>2. kept.app_ports[a] = NoPort
        BY <1>0, <2>1
    <2>3. CASE free # {}
        <3>1. answer = [port |-> port, pool |-> Give(kept, a, port)]
            BY <1>2, <2>3 DEF Allocate
        <3>2. free \in SUBSET Ports
            BY <2>1 DEF Free
        <3>3. port \in Ports
            BY <2>3, <3>2, LowestIsThere
        <3> HIDE DEF port, free, kept
        <3>4. /\ Owned(Give(kept, a, port), Ports)
              /\ Give(kept, a, port).app_ports = [kept.app_ports EXCEPT ![a] = port]
            <4>1. Owned(kept, Ports) /\ kept.app_ports[a] = NoPort /\ port \in Ports
                BY <2>1, <2>2, <3>3
            <4>2. \A other, q : Owned(other, Ports) /\ other.app_ports[a] = NoPort /\ q \in Ports
                     => /\ Owned(Give(other, a, q), Ports)
                        /\ Give(other, a, q).app_ports = [other.app_ports EXCEPT ![a] = q]
                BY GiveIsOwned
            <4> QED
                BY <4>1, <4>2
        <3>5. [kept.app_ports EXCEPT ![a] = port] = [pool.app_ports EXCEPT ![a] = port]
            BY <1>0, <2>1
        <3> QED
            BY <3>1, <3>3, <3>4, <3>5
    <2>4. CASE free = {}
        <3>1. answer = [port |-> NoPort, pool |-> kept]
            BY <1>2, <2>4 DEF Allocate
        <3> QED
            BY <2>1, <3>1
    <2> QED
        BY <2>3, <2>4
<1> QED
    BY <1>1, <1>2

\* release_port for several apps.
LEMMA ReleaseAllIsOwned ==
    ASSUME NEW Ports \in SUBSET Nat, NEW pool, Owned(pool, Ports), NEW S
    PROVE  /\ Owned(ReleaseAll(pool, S), Ports)
           /\ \A a \in Apps : ReleaseAll(pool, S).app_ports[a]
                               = IF a \in S THEN NoPort ELSE pool.app_ports[a]
<1> DEFINE al == pool.allocations
           ap == pool.app_ports
           freed == {ap[a] : a \in S} \ {NoPort}
           al2 == [p \in DOMAIN al |-> IF p \in freed THEN NoAllocation ELSE al[p]]
           ap2 == [a \in Apps |-> IF a \in S THEN NoPort ELSE ap[a]]
<1>1. OwnedMaps(al, ap, Ports)
    BY DEF Owned
<1>2. ReleaseAll(pool, S) = [allocations |-> al2, app_ports |-> ap2]
    BY DEF ReleaseAll
<1> HIDE DEF al, ap
<1>3. OwnedMaps(al2, ap2, Ports)
    <2>0. DOMAIN al = Ports
        BY <1>1 DEF OwnedMaps
    <2>1. al2 \in [Ports -> Allocation \cup {NoAllocation}] /\ ap2 \in [Apps -> Ports \cup {NoPort}]
        BY <1>1, <2>0 DEF OwnedMaps
    <2>2. ASSUME NEW p \in Ports, al2[p] # NoAllocation
          PROVE  ap2[al2[p].app_id] = p
        <3>1. p \notin freed /\ al2[p] = al[p]
            BY <2>0, <2>2
        <3>2. ap[al[p].app_id] = p /\ al[p].app_id \in Apps
            BY <1>1, <2>2, <3>1 DEF OwnedMaps, Allocation
        <3>3. al[p].app_id \notin S
            BY <3>1, <3>2, AppsAssumption
        <3> QED
            BY <3>1, <3>2, <3>3
    <2> QED
        BY <2>1, <2>2 DEF OwnedMaps
<1> QED
    BY <1>2, <1>3, OwnedRecord DEF ap

-----------------------------------------------------------------------------
(* Pools whose dictionaries agree: nothing dangles, and no port has two apps. *)

\* A pool in a state the methods may leave it in.
GoodPool(pool, Ports) == pool \in Pools(Ports) /\ Inverse(pool)

\* The empty pool the constructor builds.
LEMMA EmptyPoolIsGood ==
    ASSUME NEW Ports
    PROVE  GoodPool(EmptyPool(Ports), Ports)
BY DEF GoodPool, Pools, EmptyPool, Inverse

\* A pool is good when its two functions are, taken apart: the provers work on
\* functions more easily than on a record of functions.
GoodMaps(al, ap, Ports) ==
    /\ al \in [Ports -> Allocation \cup {NoAllocation}]
    /\ ap \in [Apps -> Ports \cup {NoPort}]
    /\ \A a \in Apps : ap[a] # NoPort => al[ap[a]].app_id = a
    /\ \A p \in Ports : al[p] # NoAllocation => ap[al[p].app_id] = p

LEMMA GoodPoolIsGoodMaps ==
    ASSUME NEW Ports, NEW al, NEW ap
    PROVE  GoodPool([allocations |-> al, app_ports |-> ap], Ports) <=> GoodMaps(al, ap, Ports)
BY DEF GoodPool, GoodMaps, Pools, Inverse

LEMMA GoodPoolMaps ==
    ASSUME NEW Ports, NEW pool, GoodPool(pool, Ports)
    PROVE  GoodMaps(pool.allocations, pool.app_ports, Ports)
BY DEF GoodPool, GoodMaps, Pools, Inverse

\* The entry an app's mapping leads to is there and is its own.
LEMMA OwnAllocation ==
    ASSUME NEW Ports, NEW al, NEW ap, GoodMaps(al, ap, Ports), NEW a \in Apps, ap[a] # NoPort
    PROVE  ap[a] \in Ports /\ al[ap[a]] \in Allocation /\ al[ap[a]].app_id = a
<1>1. ap[a] \in Ports /\ al[ap[a]].app_id = a
    BY DEF GoodMaps
<1>2. al[ap[a]] # NoAllocation
    BY <1>1, AppsAssumption DEF NoAllocation
<1> QED
    BY <1>1, <1>2 DEF GoodMaps

\* Giving a free port to an app without one.
LEMMA GiveIsGood ==
    ASSUME NEW Ports \in SUBSET Nat, NEW pool, GoodPool(pool, Ports),
           NEW a \in Apps, NEW p \in Ports,
           pool.app_ports[a] = NoPort, pool.allocations[p] = NoAllocation
    PROVE  GoodPool(Give(pool, a, p), Ports)
<1> DEFINE al == pool.allocations
           ap == pool.app_ports
           al2 == [al EXCEPT ![p] = NewAllocation(a)]
           ap2 == [ap EXCEPT ![a] = p]
<1>1. GoodMaps(al, ap, Ports) /\ al[p] = NoAllocation /\ ap[a] = NoPort
    BY GoodPoolMaps
<1>2. Give(pool, a, p) = [allocations |-> al2, app_ports |-> ap2]
    BY DEF Give
<1> HIDE DEF al, ap
<1>3. GoodMaps(al2, ap2, Ports)
    <2>1. al2 \in [Ports -> Allocation \cup {NoAllocation}] /\ ap2 \in [Apps -> Ports \cup {NoPort}]
        BY <1>1 DEF GoodMaps, NewAllocation, Allocation
    <2>2. ASSUME NEW b \in Apps, ap2[b] # NoPort
          PROVE  al2[ap2[b]].app_id = b
        BY <1>1, <2>2, AppsAssumption DEF GoodMaps, NewAllocation, NoAllocation
    <2>3. ASSUME NEW q \in Ports, al2[q] # NoAllocation
          PROVE  ap2[al2[q].app_id] = q
        BY <1>1, <2>3, AppsAssumption DEF GoodMaps, NewAllocation, Allocation
    <2> QED
        BY <2>1, <2>2, <2>3 DEF GoodMaps
<1> QED
    BY <1>2, <1>3, GoodPoolIsGoodMaps

\* Giving back what an app holds, if anything.
LEMMA ReleaseIsGood ==
    ASSUME NEW Ports \in SUBSET Nat, NEW pool, GoodPool(pool, Ports), NEW a \in Apps
    PROVE  /\ GoodPool(Release(pool, a), Ports)
           /\ Release(pool, a).app_ports[a] = NoPort
<1> DEFINE al == pool.allocations
           ap == pool.app_ports
           al2 == [al EXCEPT ![ap[a]] = NoAllocation]
           ap2 == [ap EXCEPT ![a] = NoPort]
<1>1. GoodMaps(al, ap, Ports)
    BY GoodPoolMaps
<1>2. CASE ap[a] = NoPort
    BY <1>2 DEF Release
<1>3. CASE ap[a] # NoPort
    <2>1. Release(pool, a) = [allocations |-> al2, app_ports |-> ap2]
        BY <1>3 DEF Release
    <2> HIDE DEF al, ap
    <2>2. ap[a] \in Ports
        BY <1>1, <1>3 DEF GoodMaps
    <2>3. al2 \in [Ports -> Allocation \cup {NoAllocation}] /\ ap2 \in [Apps -> Ports \cup {NoPort}]
        BY <1>1, <2>2 DEF GoodMaps
    <2>4. ASSUME NEW b \in Apps, ap2[b] # NoPort
          PROVE  al2[ap2[b]].app_id = b
        BY <1>1, <1>3, <2>2, <2>4 DEF GoodMaps
    <2>5. ASSUME NEW q \in Ports, al2[q] # NoAllocation
          PROVE  ap2[al2[q].app_id] = q
        BY <1>1, <2>2, <2>5 DEF GoodMaps, Allocation
    <2>6. GoodMaps(al2, ap2, Ports)
        BY <2>3, <2>4, <2>5 DEF GoodMaps
    <2>7. ap2[a] = NoPort
        BY <1>1 DEF GoodMaps
    <2>8. GoodPool(Release(pool, a), Ports)
        BY <2>1, <2>6, GoodPoolIsGoodMaps
    <2>9. Release(pool, a).app_ports = ap2
        BY <2>1
    <2> QED
        BY <2>7, <2>8, <2>9
<1> QED
    BY <1>2, <1>3

\* Renewing an allocation in place.
LEMMA RenewIsGood ==
    ASSUME NEW Ports \in SUBSET Nat, NEW pool, GoodPool(pool, Ports), NEW a \in Apps,
           pool.app_ports[a] # NoPort
    PROVE  GoodPool(Renew(pool, a), Ports)
<1> DEFINE al == pool.allocations
           ap == pool.app_ports
           al2 == [al EXCEPT ![ap[a]] = NewAllocation(a)]
<1>1. GoodMaps(al, ap, Ports) /\ ap[a] # NoPort
    BY GoodPoolMaps
<1>2. ap[a] \in Ports /\ al[ap[a]].app_id = a
    BY <1>1, OwnAllocation
<1>3. Renew(pool, a) = [allocations |-> al2, app_ports |-> ap]
    BY <1>2 DEF Renew
<1> HIDE DEF al, ap
<1>4. GoodMaps(al2, ap, Ports)
    BY <1>1, <1>2, AppsAssumption DEF GoodMaps, NewAllocation, Allocation
<1> QED
    BY <1>3, <1>4, GoodPoolIsGoodMaps

\* Giving back what several apps hold.
LEMMA ReleaseAllIsGood ==
    ASSUME NEW Ports \in SUBSET Nat, NEW pool, GoodPool(pool, Ports), NEW S \in SUBSET Apps
    PROVE  GoodPool(ReleaseAll(pool, S), Ports)
<1> DEFINE al == pool.allocations
           ap == pool.app_ports
           freed == {ap[a] : a \in S} \ {NoPort}
           al2 == [p \in Ports |-> IF p \in freed THEN NoAllocation ELSE al[p]]
           ap2 == [a \in Apps |-> IF a \in S THEN NoPort ELSE ap[a]]
<1>1. GoodMaps(al, ap, Ports)
    BY GoodPoolMaps
<1>2. ReleaseAll(pool, S) = [allocations |-> al2, app_ports |-> ap2]
    BY <1>1 DEF ReleaseAll, GoodMaps
<1> HIDE DEF al, ap
<1>3. al2 \in [Ports -> Allocation \cup {NoAllocation}] /\ ap2 \in [Apps -> Ports \cup {NoPort}]
    BY <1>1 DEF GoodMaps
<1>4. ASSUME NEW b \in Apps, ap2[b] # NoPort
      PROVE  al2[ap2[b]].app_id = b
    <2>1. b \notin S /\ ap2[b] = ap[b] /\ ap[b] \in Ports /\ al[ap[b]].app_id = b
        BY <1>1, <1>4 DEF GoodMaps
    <2>2. ap[b] \notin freed
        BY <1>1, <2>1 DEF GoodMaps
    <2> QED
        BY <2>1, <2>2
<1>5. ASSUME NEW q \in Ports, al2[q] # NoAllocation
      PROVE  ap2[al2[q].app_id] = q
    <2>1. q \notin freed /\ al2[q] = al[q] /\ al[q].app_id \in Apps /\ ap[al[q].app_id] = q
        BY <1>1, <1>5 DEF GoodMaps, Allocation
    <2>2. q # NoPort
        BY AppsAssumption
    <2>3. al[q].app_id \notin S
        BY <2>1, <2>2
    <2> QED
        BY <2>1, <2>3
<1>6. GoodMaps(al2, ap2, Ports)
    BY <1>3, <1>4, <1>5 DEF GoodMaps
<1> HIDE DEF al2, ap2
<1> QED
    BY <1>2, <1>6, GoodPoolIsGoodMaps

\* Time passing.
LEMMA AgedIsGood ==
    ASSUME NEW Ports \in SUBSET Nat, NEW pool, GoodPool(pool, Ports)
    PROVE  GoodPool(Aged(pool), Ports) /\ Aged(pool).app_ports = pool.app_ports
<1> DEFINE al == pool.allocations
           ap == pool.app_ports
           al2 == [p \in Ports |-> IF al[p] = NoAllocation THEN NoAllocation
                                   ELSE [al[p] EXCEPT !.old = TRUE]]
<1>1. GoodMaps(al, ap, Ports)
    BY GoodPoolMaps
<1>2. Aged(pool) = [allocations |-> al2, app_ports |-> ap]
    BY <1>1 DEF Aged, GoodMaps
<1>3. Aged(pool).app_ports = ap
    BY <1>2
<1> HIDE DEF al, ap
<1>4. al2 \in [Ports -> Allocation \cup {NoAllocation}]
    BY <1>1 DEF GoodMaps, Allocation
<1>5. \A p \in Ports : al2[p].app_id = al[p].app_id /\ (al2[p] # NoAllocation => al[p] # NoAllocation)
    BY <1>1 DEF GoodMaps, Allocation
<1>6. GoodMaps(al2, ap, Ports)
    BY <1>1, <1>4, <1>5 DEF GoodMaps
<1>7. GoodPool(Aged(pool), Ports)
    BY <1>2, <1>6, GoodPoolIsGoodMaps
<1> QED
    BY <1>3, <1>7 DEF ap

\* What one call of allocate_port may do: renew in place, or release and give.
LEMMA AllocateCases ==
    ASSUME NEW Ports \in SUBSET Nat, NEW pool, GoodPool(pool, Ports),
           NEW a \in Apps, NEW preferred, NEW bound_
    PROVE  \/ /\ pool.app_ports[a] # NoPort
              /\ pool.app_ports[a] \notin bound_
              /\ Allocate(pool, a, preferred, bound_)
                    = [port |-> pool.app_ports[a], pool |-> Renew(pool, a)]
           \/ \E p \in Free(Release(pool, a), bound_) :
                 Allocate(pool, a, preferred, bound_)
                    = [port |-> p, pool |-> Give(Release(pool, a), a, p)]
           \/ /\ Free(Release(pool, a), bound_) = {}
              /\ Allocate(pool, a, preferred, bound_)
                    = [port |-> NoPort, pool |-> Release(pool, a)]
<1> DEFINE kept == Release(pool, a)
           free == Free(kept, bound_)
           port == IF preferred \in free THEN preferred ELSE Lowest(free)
<1>1. free \in SUBSET Nat
    BY ReleaseIsGood DEF Free, GoodPool, Pools
<1> HIDE DEF kept, free
<1>2. free # {} => port \in free
    BY <1>1, LowestIsThere
<1> QED
    BY <1>2 DEF Allocate, kept, free

LEMMA AllocateIsGood ==
    ASSUME NEW Ports \in SUBSET Nat, NEW pool, GoodPool(pool, Ports),
           NEW a \in Apps, NEW preferred, NEW bound_
    PROVE  GoodPool(Allocate(pool, a, preferred, bound_).pool, Ports)
<1> DEFINE kept == Release(pool, a)
<1>1. GoodPool(kept, Ports) /\ kept.app_ports[a] = NoPort
    BY ReleaseIsGood
<1>2. pool.app_ports[a] # NoPort => GoodPool(Renew(pool, a), Ports)
    BY RenewIsGood
<1>3. ASSUME NEW p \in Free(kept, bound_)
      PROVE  GoodPool(Give(kept, a, p), Ports)
    <2>1. p \in Ports /\ kept.app_ports[a] = NoPort /\ kept.allocations[p] = NoAllocation
        BY <1>1, <1>3 DEF Free, GoodPool, Pools
    <2> QED
        BY <1>1, <2>1, GiveIsGood
<1> DEFINE result == Allocate(pool, a, preferred, bound_)
<1>4. CASE pool.app_ports[a] # NoPort /\ result = [port |-> pool.app_ports[a], pool |-> Renew(pool, a)]
    BY <1>2, <1>4
<1>5. CASE \E p \in Free(kept, bound_) : result = [port |-> p, pool |-> Give(kept, a, p)]
    BY <1>3, <1>5
<1>6. CASE result = [port |-> NoPort, pool |-> kept]
    BY <1>1, <1>6
<1> QED
    BY <1>4, <1>5, <1>6, AllocateCases

\* No lookup of a good pool raises, and it is Owned.
LEMMA GoodIsOwned ==
    ASSUME NEW Ports, NEW pool, GoodPool(pool, Ports)
    PROVE  Owned(pool, Ports) /\ \A a \in Apps : ~ Dangling(pool, a)
<1> DEFINE al == pool.allocations
           ap == pool.app_ports
<1>1. GoodMaps(al, ap, Ports)
    BY GoodPoolMaps
<1>2. \A a \in Apps : ap[a] # NoPort => al[ap[a]] # NoAllocation
    BY <1>1, AppsAssumption DEF GoodMaps, NoAllocation
<1> QED
    BY <1>1, <1>2 DEF Owned, OwnedMaps, GoodMaps, GoodPool, Dangling

\* allocate_port of a good pool: the pool is good again, and the app maps to the answer.
LEMMA GoodAllocate ==
    ASSUME NEW Ports \in SUBSET Nat, NEW pool, GoodPool(pool, Ports), NEW a \in Apps, NEW taken
    PROVE  LET answer == Allocate(pool, a, NoPort, taken) IN
           /\ GoodPool(answer.pool, Ports)
           /\ answer.port \in Ports \cup {NoPort}
           /\ answer.pool.app_ports = [pool.app_ports EXCEPT ![a] = answer.port]
BY AllocateIsGood, AllocateIsOwned, GoodIsOwned

LEMMA GoodRelease ==
    ASSUME NEW Ports \in SUBSET Nat, NEW pool, GoodPool(pool, Ports), NEW a \in Apps
    PROVE  /\ GoodPool(Release(pool, a), Ports)
           /\ Release(pool, a).app_ports = [pool.app_ports EXCEPT ![a] = NoPort]
BY ReleaseIsGood, ReleaseIsOwned, GoodIsOwned

LEMMA GoodReleaseAll ==
    ASSUME NEW Ports \in SUBSET Nat, NEW pool, GoodPool(pool, Ports), NEW S \in SUBSET Apps
    PROVE  /\ GoodPool(ReleaseAll(pool, S), Ports)
           /\ \A a \in Apps : ReleaseAll(pool, S).app_ports[a]
                               = IF a \in S THEN NoPort ELSE pool.app_ports[a]
<1>1. GoodPool(ReleaseAll(pool, S), Ports)
    BY ReleaseAllIsGood
<1>2. Owned(pool, Ports)
    BY GoodIsOwned
<1>3. \A a \in Apps : ReleaseAll(pool, S).app_ports[a]
                        = IF a \in S THEN NoPort ELSE pool.app_ports[a]
    BY <1>2, ReleaseAllIsOwned
<1> QED
    BY <1>1, <1>3
=============================================================================
