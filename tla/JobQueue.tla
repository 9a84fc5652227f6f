------------------------------- MODULE JobQueue -------------------------------
(* The sparse round-robin of the collector's job queues                        *)
(* (pkg/collector/scheduler/job.go): a queue has one bucket for every second   *)
(* of its interval, and jobs go to buckets that are far apart.                 *)
EXTENDS Naturals

\* newJobQueue: the distance between two buckets that are filled in a row.
SparseStep(nb) ==
    LET half == nb \div 2
    IN CASE nb <= 2                              -> 1
         [] nb > 2 /\ nb % 2 = 1                 -> half
         [] nb > 2 /\ nb % 2 = 0 /\ half % 2 = 0 -> half - 1
         [] nb > 2 /\ nb % 2 = 0 /\ half % 2 = 1 -> half - 2

\* Mutant: half the interval, whatever its parity.
NextSchedulingBucketHalf(i, nb) == (i + IF nb <= 2 THEN 1 ELSE nb \div 2) % nb

\* addJob: the next bucket to fill.
NextSchedulingBucket(i, nb) == (i + SparseStep(nb)) % nb

\* process: the next bucket to run.
NextBucket(i, nb) == (i + 1) % nb
=============================================================================
