---------------------------- MODULE MCSharedRows ----------------------------
(* A small chain for SharedRows. *)
EXTENDS SharedRows, TLC

CONSTANTS
  proxy,         \* a contract that is upgraded, to and fro
  phoenix,       \* one that is destroyed and created again
  hasty,         \* the same, in the blocks of one round
  ann, bob       \* buckets

Create(a) == [kind |-> "create", of |-> a]
Upgr(a, i) == [kind |-> "upgrade", of |-> a, impl |-> i]
Destr(a) == [kind |-> "destruct", of |-> a]
Comm(k, n) == [kind |-> "committee", epoch |-> k, end |-> n]
Bkt(s) == [kind |-> "bucket", ids |-> s]

\* Upgrades of a contract that is there, and of one that is new, one of them to what it is already; an
\* epoch in every round.
UpgradeScript ==
  << << Create(proxy), Upgr(proxy, 1), Comm(1, 0) >>,
     << Upgr(proxy, 2), Comm(2, 1) >>,
     << Upgr(proxy, 1), Upgr(proxy, 3), Upgr(proxy, 3), Comm(3, 2) >> >>

\* A first upgrade behind the creation; destruction, and creation at the same address.
PhoenixScript ==
  << << Create(phoenix), Create(hasty), Destr(hasty) >>,
     << Upgr(phoenix, 1), Destr(phoenix), Create(hasty) >>,
     << Create(phoenix), Upgr(phoenix, 1) >> >>

\* ann is merged into bob while the job is at work.
BucketScript == << << Bkt(<<ann>>) >>, << Bkt(<<bob>>) >>, << Bkt(<<bob, ann>>) >> >>

MCScript == [upgrades |-> UpgradeScript, phoenix |-> PhoenixScript, buckets |-> BucketScript]

Chains == DOMAIN MCScript

\* Both buckets are there from the first block on, except where they matter.
Quiet == [b \in {ann, bob} |-> [n \in 0..3 |-> 1]]

Merged == [b \in {ann, bob} |-> IF b = ann THEN (0 :> 0 @@ 1 :> 1 @@ 2 :> 1 @@ 3 :> 0)
                                          ELSE (0 :> 1 @@ 1 :> 1 @@ 2 :> 2 @@ 3 :> 3)]

MCBucketAt == [c \in Chains |-> IF c = "buckets" THEN Merged ELSE Quiet]

\* Two crashes, so that what one leaves is there for the next; one of each other fault.
Faults == [k \in FaultKind |-> IF k = "crash" THEN 2 ELSE 1]
=============================================================================
