----------------------------- MODULE SqlxRetry ------------------------------
(***************************************************************************)
(* The reconnect policy of one SQLx connection (sqlx_retry.rs): the        *)
(* exponential backoff and the gate that limits log lines.  Instants count *)
(* ticks finer than a millisecond; an Option that is None is the instant 0,*)
(* which is never later than now.  Delays and intervals are in ticks.      *)
(***************************************************************************)
EXTENDS Naturals

CONSTANTS
    TicksPerMs,     \* resolution of Instant below the reported millisecond
    InitialDelay,   \* reconnect_initial_delay, 0 disables the backoff
    MaxDelay,       \* reconnect_max_delay
    LogInterval     \* reconnect_log_interval, 0 disables the gate

ASSUME RetryAssumption ==
    /\ TicksPerMs \in Nat \ {0}
    /\ InitialDelay \in Nat /\ MaxDelay \in Nat /\ LogInterval \in Nat
    /\ InitialDelay <= MaxDelay         \* checked by connect_impl

Backoffs == [delay : 0..MaxDelay, retryAt : Nat]
Gates    == [nextLog : Nat, suppressed : Nat]

NoBackoff == [delay |-> 0, retryAt |-> 0]
NewGate   == [nextLog |-> 0, suppressed |-> 0]

\* saturating_mul(2).min(max).
Doubled(d) == IF 2 * d <= MaxDelay THEN 2 * d ELSE MaxDelay

\* failed(): the first delay, then doubling up to the cap, counted from now.
Failed(b, now) ==
    LET d == IF b.delay = 0 THEN InitialDelay ELSE Doubled(b.delay)
    IN  [delay |-> d, retryAt |-> now + d]

\* Ticks left until the retry instant (saturating_duration_since).
Remaining(b, now) == IF b.retryAt > now THEN b.retryAt - now ELSE 0

\* retry_after_ms(): rounded up, so that 0 means that the instant has come.
RetryAfterMsFloor(b, now) == Remaining(b, now) \div TicksPerMs
RetryAfterMs(b, now) == (Remaining(b, now) + TicksPerMs - 1) \div TicksPerMs

\* ConnectionLogGate::take(): None while muted, else the suppressed count.
Muted(g, now) == now < g.nextLog
GateNotCleared(g, now) ==
    IF Muted(g, now)
      THEN [g EXCEPT !.suppressed = @ + 1]
      ELSE [g EXCEPT !.nextLog = now + LogInterval]
GateTake(g, now) ==
    IF Muted(g, now)
      THEN [g EXCEPT !.suppressed = @ + 1]
      ELSE [nextLog |-> now + LogInterval, suppressed |-> 0]
=============================================================================
