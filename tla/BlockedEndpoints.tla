--------------------------- MODULE BlockedEndpoints ---------------------------
(* The arithmetic of the circuit breaker pkg/forwarder/blocked_endpoints.go.  A    *)
(* configuration is a record; durations are whole numbers of a unit of time.       *)
EXTENDS Integers

\* forwarder_recovery_interval's default.
DefaultForwarderRecoveryInterval == 2

\* Mutant: without the "+ 1".
ErrorsMaxFloor(base, max) ==
    LET Exceeds(n) == IF n >= 0 THEN base * 2^n > max ELSE base > max * 2^(-n)
    IN  CHOOSE n \in (-base - 1)..max : Exceeds(n + 1) /\ ~Exceeds(n)

\* floor(log2(max / base)) + 1, the least n for which base * 2^n exceeds max: it is
\* zero or negative when base is above max.
ErrorsMax(base, max) ==
    LET Exceeds(n) == IF n >= 0 THEN base * 2^n > max ELSE base > max * 2^(-n)
    IN  CHOOSE n \in (-base)..max : Exceeds(n) /\ ~Exceeds(n - 1)

\* newBlockedEndpoints, with the replacement of values that make no sense.
NewBlockedEndpoints(backoffFactor, backoffBase, backoffMax, recInterval, recoveryReset) ==
    LET factor == IF backoffFactor < 2 THEN 2 ELSE backoffFactor
        base   == IF backoffBase <= 0 THEN 2 ELSE backoffBase
        max    == IF backoffMax <= 0 THEN 64 ELSE backoffMax
        rec    == IF recInterval <= 0 THEN DefaultForwarderRecoveryInterval ELSE recInterval
        errors == ErrorsMax(base, max)
    IN  [factor |-> factor, base |-> base, max |-> max, maxErrors |-> errors,
         recoveryInterval |-> IF recoveryReset THEN errors ELSE rec]

\* close: the number of errors after one more.
ErrorsAfterClose(c, n) == IF n + 1 > c.maxErrors THEN c.maxErrors ELSE n + 1

\* recover: the number of errors after a success.
ErrorsAfterRecover(c, n) ==
    IF n - c.recoveryInterval < 0 THEN 0 ELSE n - c.recoveryInterval

\* getBackoffDuration: the durations it draws from.
BackoffDurations(c, numErrors) ==
    LET x == c.base * 2^numErrors IN
    IF numErrors <= 0 THEN {0}
    ELSE IF x > c.max THEN {c.max}
    ELSE {d \in 0..x : d * c.factor >= x}
===============================================================================
