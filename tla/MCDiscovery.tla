---------------------------- MODULE MCDiscovery ----------------------------
(* Two folders that differ in _ and - only and so compete for an app id,   *)
(* and for a stream: one has a database and publishes two streams, the     *)
(* other publishes one of the two.  The first and a third subscribe to one *)
(* stream.  The second version of the folders brings a second migration.   *)
EXTENDS Discovery, TLC

CONSTANTS m1, m2, news, alerts, my_app, my__app, reader, x, x1, y

MCApps == {my_app}
MCFolders == {my_app, my__app, reader}
MCMigs == {m1, m2}
MCVersions == {1, 2}
MCShips == 1 :> {m1} @@ 2 :> {m1, m2}
MCPasswords == 1 .. 6
MCStreamNames == {news, alerts}
MCIds == {x, x1, y}
MCCandidateIds == [f \in MCFolders |-> IF f = reader THEN <<y>> ELSE <<x, x1>>]
MCPublishes == my_app :> {news, alerts} @@ my__app :> {alerts} @@ reader :> {}
MCSubscribes == my_app :> {news} @@ my__app :> {} @@ reader :> {news}
=============================================================================
