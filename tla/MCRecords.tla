----------------------------- MODULE MCRecords ------------------------------
(* Instances of Records for TLC: two browsers, the first with two tabs. *)
EXTENDS Records, TLC

CONSTANTS u1, u2, n1, n2, s1, s2, s3

TwoTabs == s1 :> u1 @@ s2 :> u1 @@ s3 :> u2
OneEach == s1 :> u1 @@ s3 :> u2
Guests == u1 :> n1 @@ u2 :> n2

\* The tabs of one player are interchangeable.  Used for safety only.
Tabs == Permutations({s1, s2})
=============================================================================
