--------------------------- MODULE MCStatsQueries ---------------------------
(* Small instances of StatsQueries.                                        *)
EXTENDS StatsQueries, TLC

CONSTANTS s1, s2, b1, b2, m1, m2, m3, u1, u2

\* m1 and m3 name s1, m2 names s2; or a match that names no switch.
Named == m1 :> s1 @@ m2 :> s2 @@ m3 :> s1
Anywhere == m1 :> AnySwitch @@ m2 :> s2 @@ m3 :> s1

OwnBuckets == u1 :> b1 @@ u2 :> b2
SharedBucket == u1 :> b1 @@ u2 :> b1
OneUser == u1 :> b1

\* Both buckets count on s1; b1 counts on s2 too.
Both == b1 :> {m1, m2} @@ b2 :> {m3}
OnlyB2 == b2 :> {m3}
OneSwitch == b1 :> {m1} @@ b2 :> {m3}

Wider == {Both, b1 :> {m2, m3}}
FirstBucket == {b1 :> {m1}}
=============================================================================
