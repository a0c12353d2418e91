---------------------------- MODULE WifiBackoff ----------------------------
(***************************************************************************)
(* How long the Wi-Fi manager waits before each recovery of one series,    *)
(* from the loss of a link until it is ONLINE again: schedule_recovery     *)
(* with its short-term branch (the loop of wifi_get_backoff_delay, one     *)
(* iteration per step) and its long-term branch, and the counter of        *)
(* attempts that chooses between them.  uint32_t arithmetic wraps at       *)
(* Modulus.                                                                *)
(***************************************************************************)
EXTENDS Naturals

CONSTANTS
    Base,                   \* config.reconnect_base_delay_ms
    MaxDelay,               \* config.reconnect_max_delay_ms
    Jitter,                 \* config.reconnect_jitter_ms
    MaxAttempts,            \* config.max_reconnect_attempts
    Modulus                 \* 2^32

\* wifi_manager_config_is_valid demands the first two lines; the third is true
\* of the configuration app_main ships (30000 and 500), not of every valid one.
ASSUME ConfigAssumption == /\ Base \in Nat \ {0} /\ MaxDelay \in Nat /\ Base <= MaxDelay
                           /\ MaxAttempts \in Nat \ {0}
                           /\ Jitter \in Nat /\ MaxDelay + Jitter < Modulus
ASSUME ModulusAssumption == Modulus \in Nat \ {0}

VARIABLES
    pc,                     \* where schedule_recovery is, or what it led to
    attempts,               \* ctx.reconnect_attempts
    i, delay,               \* locals of the computation; delay is then the
                            \* period of the timer
    previous                \* history: the period before, 0 in a new series
vars == <<pc, attempts, i, delay, previous>>

Computing == {"loop", "clamp", "jitter"}

TypeOK == /\ pc \in {"linked", "lost", "waiting", "recovering", "stopped"} \cup Computing
          /\ attempts \in 0 .. MaxAttempts
          /\ i \in 1 .. MaxAttempts
          /\ delay \in Nat
          /\ previous \in Nat

Init == /\ pc = "lost"
        /\ attempts = 0
        /\ i = 1 /\ delay = 0
        /\ previous = 0

-----------------------------------------------------------------------------
(* wifi_manager_schedule_recovery                                          *)

\* Mutant: the long-term branch is taken for every recovery but the first.
LongTerm_Early == attempts >= 1
LongTerm == attempts >= MaxAttempts

\* The argument wifi_get_retry_delay is called with.
Attempt == attempts + 1

ScheduleLongTerm ==
    /\ pc = "lost" /\ LongTerm
    /\ delay' = MaxDelay
    /\ pc' = "jitter"
    /\ UNCHANGED <<attempts, i, previous>>

ScheduleShortTerm ==
    /\ pc = "lost" /\ ~LongTerm
    /\ delay' = Base
    /\ i' = 1
    /\ pc' = "loop"
    /\ UNCHANGED <<attempts, previous>>

\* Mutant: doubling goes on up to the maximum itself.
Half_Whole == MaxDelay
Half == MaxDelay \div 2

LoopGoesOn == i < Attempt

LoopDoubles ==
    /\ pc = "loop" /\ LoopGoesOn /\ delay < Half
    /\ delay' = (delay * 2) % Modulus
    /\ i' = i + 1
    /\ UNCHANGED <<pc, attempts, previous>>

LoopSaturates ==
    /\ pc = "loop" /\ LoopGoesOn /\ delay >= Half
    /\ delay' = MaxDelay
    /\ pc' = "clamp"
    /\ UNCHANGED <<attempts, i, previous>>

LoopEnds ==
    /\ pc = "loop" /\ ~LoopGoesOn
    /\ pc' = "clamp"
    /\ UNCHANGED <<attempts, i, delay, previous>>

Clamp ==
    /\ pc = "clamp"
    /\ delay' = IF delay > MaxDelay THEN MaxDelay ELSE delay
    /\ pc' = "jitter"
    /\ UNCHANGED <<attempts, i, previous>>

\* Mutant: jitter in both directions.
AddJitter_BothWays ==
    /\ pc = "jitter"
    /\ \E jitter \in 0 .. Jitter : delay' = (delay + jitter - Jitter \div 2) % Modulus
    /\ pc' = "waiting"
    /\ UNCHANGED <<attempts, i, previous>>

\* esp_random() % (max_jitter + 1); the timer starts with the sum.
AddJitter ==
    /\ pc = "jitter"
    /\ \E jitter \in 0 .. Jitter : delay' = (delay + jitter) % Modulus
    /\ pc' = "waiting"
    /\ UNCHANGED <<attempts, i, previous>>

Schedule == \/ ScheduleLongTerm \/ ScheduleShortTerm \/ LoopDoubles \/ LoopSaturates
            \/ LoopEnds \/ Clamp \/ AddJitter

-----------------------------------------------------------------------------
\* Mutant: the counter passes its maximum.
CountedAttempt_Unbounded == attempts + 1
CountedAttempt == IF attempts < MaxAttempts THEN attempts + 1 ELSE attempts

\* The timer expires and CMD_RECONNECT takes the pending recovery.
TakeRecovery ==
    /\ pc = "waiting"
    /\ attempts' = CountedAttempt
    /\ previous' = delay
    /\ delay' = 0
    /\ i' = 1
    /\ pc' = "recovering"

\* The scan finds no AP of ours, the connection fails or does not last.
RecoveryFails ==
    /\ pc = "recovering"
    /\ pc' = "lost"
    /\ UNCHANGED <<attempts, i, delay, previous>>

\* esp_wifi_scan_start refuses: nothing is scheduled and the series stops.
SelectionRefused ==
    /\ pc = "recovering"
    /\ pc' = "stopped"
    /\ UNCHANGED <<attempts, i, delay, previous>>

\* CMD_CONNECT begins a series of its own, with the timer stopped.
UserConnects ==
    /\ pc \in {"stopped", "waiting"}
    /\ attempts' = 0
    /\ previous' = 0
    /\ delay' = 0
    /\ i' = 1
    /\ pc' = "recovering"

\* GOT_IP: the series ends ...
GetsOnline ==
    /\ pc = "recovering"
    /\ attempts' = 0
    /\ previous' = 0
    /\ pc' = "linked"
    /\ UNCHANGED <<i, delay>>

\* ... and DISCONNECTED begins another.
LinkDrops ==
    /\ pc = "linked"
    /\ pc' = "lost"
    /\ UNCHANGED <<attempts, i, delay, previous>>

Next == \/ Schedule \/ TakeRecovery \/ RecoveryFails \/ SelectionRefused \/ UserConnects
        \/ GetsOnline \/ LinkDrops

Spec == Init /\ [][Next]_vars

-----------------------------------------------------------------------------
\* The wait never undercuts the base delay and never exceeds the maximum by
\* more than the jitter, before every attempt and in long-term recovery: in
\* particular nothing wraps.
DelayInRange == pc = "waiting" => delay \in Base .. MaxDelay + Jitter

\* The base delay doubled n times.
Doubled[n \in Nat] == IF n = 0 THEN Base ELSE 2 * Doubled[n - 1]

\* The delay, up to the jitter, after n attempts of the series.
Planned(n) ==
    IF n = MaxAttempts \/ (n > 0 /\ Doubled[n] >= 2 * (MaxDelay \div 2))
    THEN MaxDelay
    ELSE Doubled[n]

\* Up to the jitter the delay doubles with every attempt until it reaches the
\* maximum, where it stays; it gets there one step early when the doubled
\* delay would be the maximum or one less.
DelayDoubles == pc = "jitter" => delay = Planned(attempts)

\* Through the whole series, over the change from short-term to long-term
\* recovery, a wait is shorter than the one before by jitter at most: the
\* station calls ever more rarely at an AP that is not there.
WaitsNeverShrink == pc = "waiting" => delay + Jitter >= previous
=============================================================================
