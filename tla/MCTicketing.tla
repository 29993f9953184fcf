----------------------------- MODULE MCTicketing -----------------------------
(* Instances of TicketingHistory for TLC. *)
EXTENDS TicketingHistory, TLC

CONSTANTS w1, w2, u1, u2, t1, t2, t3, t4, b1, b2, s1, s2, s3, s4, g1, g2

\* Workers are interchangeable.
WorkerSymmetry == Permutations(Workers)

\* Two single tickets and two seats, of which t2 may use the second only; s3 is part of a
\* group.
MCSingle == t1 :> None @@ t2 :> None
MCOneInGroup == s1 :> None @@ s2 :> None @@ s3 :> g1
MCSuitable == {<<t1, s1>>, <<t1, s2>>, <<t2, s2>>, <<t1, s3>>}
MCOwner == t1 :> u1 @@ t2 :> u1
MCCheckIns == t1 :> 2 @@ t2 :> 0

\* Two bundles of two tickets and two groups of two seats.
MCBundles == t1 :> b1 @@ t2 :> b1 @@ t3 :> b2 @@ t4 :> b2
MCGroups == s1 :> g1 @@ s2 :> g1 @@ s3 :> g2 @@ s4 :> g2
MCBundleOwner == [t \in Tickets |-> u1]
MCNoCheckIns == [t \in Tickets |-> 0]
=============================================================================
