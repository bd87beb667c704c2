------------------------------- MODULE MCAuth -------------------------------
(* The bootstrap superuser and one more user, who may be a superuser.      *)
EXTENDS Auth

CONSTANTS admin, bob, s1, t1, r1

MCNames == {admin, bob}
MCSids == {s1}
MCTids == {t1}
MCRequests == {r1}
MCRoleHolders == {bob}
MCRoles == {"none", "full"}
=============================================================================
