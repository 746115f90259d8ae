------------------------------ MODULE MCRouter ------------------------------
EXTENDS Router, TLC
CONSTANTS s1, s2, s3, k1, k2, k3
OneShard == <<s1>>
\* Positions between, below and above the keys' hashes, and one equal to one.
Spread == s1 :> {1, 4} @@ s2 :> {2, 5} @@ s3 :> {3}
Hashes == k1 :> 0 @@ k2 :> 3 @@ k3 :> 6

\* What RouterProofs proves for every ring, evaluated on those of this instance.
ASSUME RingInstance == AddMovesKeysToNewNode /\ RemoveMovesItsKeysOnly /\ RingIsHistoryFree
=============================================================================
