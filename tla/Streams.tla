------------------------------ MODULE Streams ------------------------------
(***************************************************************************)
(* managers/stream_manager.py: who publishes a Redis stream, and the       *)
(* consumer groups of its subscribers.                                     *)
(*                                                                         *)
(* publisher and subscriber_groups are dictionaries of the platform, gone  *)
(* when it restarts; groups is in Redis.  The streams themselves are only  *)
(* ever created, and left out.                                             *)
(***************************************************************************)
EXTENDS Naturals, FiniteSets

CONSTANTS StreamNames, Ids, NoId

ASSUME StreamsAssumption == NoId \notin Ids

VARIABLES
    publisher,          \* _publisher_map: stream -> app id, or NoId
    subscriber_groups,  \* app id -> the streams it is known to have a group on
    groups              \* stream -> the app ids that have a group on it

streamvars == <<publisher, subscriber_groups, groups>>

NoPublishers == [s \in StreamNames |-> NoId]
NoSubscribers == [i \in Ids |-> {}]

StreamsInit ==
    /\ publisher = NoPublishers /\ subscriber_groups = NoSubscribers
    /\ groups = [s \in StreamNames |-> {}]

AnyClaim(i, s) == TRUE                                               \* mutant

Claimable(i, s) == publisher[s] \in {NoId, i}

Claim(i, P) == publisher' = [s \in StreamNames |-> IF s \in P THEN i ELSE publisher[s]]

\* xgroup_create, where a group that exists is as good.
CreateGroups(i, S) == groups' = [s \in StreamNames |-> groups[s] \cup {x \in {i} : s \in S}]

setup_streams(i, P, S) ==
    /\ \A s \in P : Claimable(i, s)
    /\ Claim(i, P)
    /\ CreateGroups(i, S)
    /\ subscriber_groups' = [subscriber_groups EXCEPT ![i] = @ \cup S]

\* A collision or an error on the way: the streams before it in the manifest, in
\* whatever order they are there, stay as setup_streams has left them.  Redis may have
\* created the group whose answer is lost.
setup_fails(i, P, S) ==
    \/ \E C \in (SUBSET P) \ {P} :
          /\ \A s \in C : Claimable(i, s)
          /\ Claim(i, C)
          /\ UNCHANGED <<subscriber_groups, groups>>
    \/ /\ \A s \in P : Claimable(i, s)
       /\ Claim(i, P)
       /\ \E G \in (SUBSET S) \ {S}, H \in SUBSET S :
             /\ Cardinality(H \ G) <= 1
             /\ CreateGroups(i, G \cup H)
             /\ subscriber_groups' = [subscriber_groups EXCEPT ![i] = @ \cup G]

DestroysStreams(i, S) ==                                             \* mutant
    groups' = [s \in StreamNames |-> IF s \in S THEN {} ELSE groups[s]]

DestroyGroups(i, S) == groups' = [s \in StreamNames |-> groups[s] \ {x \in {i} : s \in S}]

ReleaseClaims(i) ==
    publisher' = [s \in StreamNames |-> IF publisher[s] = i THEN NoId ELSE publisher[s]]

\* A group that Redis refuses to destroy stays, and nothing knows of it any more.
cleanup_app(i) ==
    /\ \E S \in SUBSET subscriber_groups[i] : DestroyGroups(i, S)
    /\ subscriber_groups' = [subscriber_groups EXCEPT ![i] = {}]
    /\ ReleaseClaims(i)

\* Redis goes away half way: what is not destroyed by then never will be.
cleanup_fails(i) ==
    /\ subscriber_groups[i] # {}
    /\ \E S \in SUBSET subscriber_groups[i] : DestroyGroups(i, S)
    /\ subscriber_groups' = [subscriber_groups EXCEPT ![i] = {}]
    /\ UNCHANGED publisher

\* The platform ends, in setup_streams of i perhaps.
forget_streams ==
    /\ publisher' = NoPublishers /\ subscriber_groups' = NoSubscribers
=============================================================================
