----------------------------- MODULE SparseBuckets -----------------------------
(* A job queue of any interval to which jobs are added one after the other. *)
EXTENDS JobQueue, FiniteSets

CONSTANTS MaxBuckets,   \* bound on the number of buckets: the interval in seconds
          MaxRounds     \* bound on the jobs: so many for each bucket

ASSUME BoundsAssumption == MaxBuckets \in Nat \ {0} /\ MaxRounds \in Nat

VARIABLES nb, schedulingBucketIdx, sizes, jobs
vars == <<nb, schedulingBucketIdx, sizes, jobs>>

\* newJobQueue
Init ==
    /\ nb \in 1..MaxBuckets
    /\ schedulingBucketIdx = 0
    /\ sizes = [b \in 0..(nb - 1) |-> 0]
    /\ jobs = 0

addJob ==
    /\ jobs < MaxRounds * nb
    /\ jobs' = jobs + 1
    /\ sizes' = [sizes EXCEPT ![schedulingBucketIdx] = @ + 1]
    /\ schedulingBucketIdx' = NextSchedulingBucket(schedulingBucketIdx, nb)
    /\ UNCHANGED nb

Spec == Init /\ [][addJob]_vars

\* The step and the number of buckets have no common factor, for intervals of
\* every parity: no bucket gets two jobs more than another, so that the checks of
\* an interval are spread over all of its seconds.
Balanced == \A a, b \in 0..(nb - 1) : sizes[a] <= sizes[b] + 1
=============================================================================
