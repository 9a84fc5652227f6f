---------------------------- MODULE EndpointBackoff ----------------------------
(* One endpoint of the circuit breaker, for any configuration: errors and successes *)
(* of its requests in any order.                                                    *)
EXTENDS BlockedEndpoints, FiniteSetsExt

CONSTANTS MaxSeconds,   \* bound on the configured durations
          MaxFactor,    \* bounds on the other two settings
          MaxInterval,
          MaxNbError    \* bound on the number of errors

ASSUME SecondsAssumption ==
    MaxSeconds \in Nat /\ MaxFactor \in Nat /\ MaxInterval \in Nat /\ MaxNbError \in Nat

VARIABLES
    beConf,      \* the blockedEndpoints
    beErrors     \* block.nbError

backoffVars == <<beConf, beErrors>>

BackoffInit ==
    /\ \E f \in 0..MaxFactor, b, m \in 0..MaxSeconds, r \in 0..MaxInterval, reset \in BOOLEAN :
          beConf = NewBlockedEndpoints(f, b, m, r, reset)
    /\ beErrors = 0

\* close.
CloseEndpoint ==
    /\ beErrors' = ErrorsAfterClose(beConf, beErrors)
    /\ UNCHANGED beConf

\* recover.  With forwarder_recovery_reset and a negative maxErrors it adds errors.
RecoverEndpoint ==
    /\ beErrors < MaxNbError
    /\ beErrors' = ErrorsAfterRecover(beConf, beErrors)
    /\ UNCHANGED beConf

BackoffNext == CloseEndpoint \/ RecoverEndpoint

BackoffSpec == BackoffInit /\ [][BackoffNext]_backoffVars

-----------------------------------------------------------------------------
(* Properties. *)

\* The breaker is sane when the base is not above the maximum; otherwise maxErrors is
\* not positive and no error ever blocks the endpoint.
SaneBackoff == beConf.base <= beConf.max

\* "The number of errors it will take to reach the maxBackoffTime": so many errors in
\* a row, and no fewer, make the wait the maximum, which nothing exceeds; every error
\* blocks the endpoint and only an endpoint without errors is free.
MaxErrorsReachesMax ==
    SaneBackoff =>
        LET ds == BackoffDurations(beConf, beErrors) IN
        /\ beErrors >= beConf.maxErrors <=> ds = {beConf.max}
        /\ \A d \in ds : d <= beConf.max
        /\ beErrors = 0 <=> 0 \in ds

===============================================================================
