------------------------ MODULE WifiRecovery_proofs ------------------------
(***************************************************************************)
(* The delays of a series of recoveries, for every valid configuration     *)
(* whose largest delay fits the integer type, and a series of any length;  *)
(* and that the recoveries with the APs they choose keep to this schedule: *)
(* a series of WifiRecovery is one of WifiBackoff, whatever the scans show,*)
(* and what each scan selects is the strongest AP of ours in it.           *)
(***************************************************************************)
EXTENDS WifiRecovery, WellFoundedInduction, TLAPS

-----------------------------------------------------------------------------
(* Induction and recursion.  The backends cannot instantiate a theorem that *)
(* has an operator as a parameter, so the induction here is over a set, from *)
(* the well-foundedness of <, and the recursion is by a function.            *)

\* The naturals are the only set of naturals that holds 0 and with every
\* number the next.
LEMMA NatIsInductive ==
    ASSUME NEW T \in SUBSET Nat, 0 \in T, \A n \in T : n + 1 \in T
    PROVE  T = Nat
<1> DEFINE Less == {p \in Nat \X Nat : p[1] < p[2]}
           U == Nat \ T
<1>1. SUFFICES ASSUME U # {} PROVE FALSE
  OBVIOUS
<1>2. IsWellFoundedOn(Less, Nat)
  BY NatLessThanWellFounded DEF OpToRel
<1>3. PICK x \in U : \A y \in U : <<y, x>> \notin Less
  <2>1. U \subseteq Nat
    OBVIOUS
  <2> HIDE DEF U, Less
  <2> QED BY <1>1, <1>2, <2>1, WFMin
<1>4. x \in Nat /\ x # 0 /\ x - 1 \in Nat
  OBVIOUS
<1>5. x - 1 \in U
  <2>1. x - 1 \in T => (x - 1) + 1 \in T
    OBVIOUS
  <2> QED BY <1>4, <2>1
<1>6. <<x - 1, x>> \in Less
  BY <1>4
<1> QED BY <1>3, <1>5, <1>6

\* A table holds base and what next makes of it, up to n.
IsTable(h, n, base, next) ==
    /\ h[0] = base
    /\ \A k \in 1 .. n : h[k] = next[k][h[k - 1]]

\* Tables agree as far as both of them go.
LEMMA TablesAgree ==
    ASSUME NEW base, NEW next, NEW g, NEW h, NEW n \in Nat, NEW m \in Nat,
           IsTable(g, n, base, next), IsTable(h, m, base, next)
    PROVE  \A k \in Nat : k <= n /\ k <= m => g[k] = h[k]
<1> DEFINE T == {k \in Nat : k <= n /\ k <= m => g[k] = h[k]}
<1>1. 0 \in T
  BY DEF IsTable
<1>2. ASSUME NEW k \in T PROVE k + 1 \in T
  <2> SUFFICES ASSUME k + 1 <= n, k + 1 <= m PROVE g[k + 1] = h[k + 1]
    OBVIOUS
  <2>1. k + 1 \in 1 .. n /\ k + 1 \in 1 .. m /\ (k + 1) - 1 = k
    OBVIOUS
  <2>2. g[k] = h[k]
    OBVIOUS
  <2>3. g[k + 1] = next[k + 1][g[k]] /\ h[k + 1] = next[k + 1][h[k]]
    BY <2>1 DEF IsTable
  <2> QED BY <2>2, <2>3
<1>3. T \subseteq Nat
  OBVIOUS
<1>4. T = Nat
  <2> HIDE DEF T
  <2> QED BY <1>1, <1>2, <1>3, NatIsInductive
<1> QED BY <1>4

\* There is a table of any length.
LEMMA TableExists ==
    ASSUME NEW S, NEW base \in S, NEW next \in [Nat -> [S -> S]]
    PROVE  \A n \in Nat : \E h \in [0 .. n -> S] : IsTable(h, n, base, next)
<1> DEFINE T == {n \in Nat : \E h \in [0 .. n -> S] : IsTable(h, n, base, next)}
<1>1. 0 \in T
  <2> DEFINE h == [k \in 0 .. 0 |-> base]
  <2>1. h \in [0 .. 0 -> S] /\ IsTable(h, 0, base, next)
    BY DEF IsTable
  <2> QED BY <2>1
<1>2. ASSUME NEW n \in T PROVE n + 1 \in T
  <2>1. PICK h \in [0 .. n -> S] : IsTable(h, n, base, next)
    OBVIOUS
  <2>2. n \in Nat /\ h[n] \in S /\ next[n + 1] \in [S -> S] /\ next[n + 1][h[n]] \in S
    OBVIOUS
  <2> DEFINE g == [k \in 0 .. n + 1 |-> IF k = n + 1 THEN next[n + 1][h[n]] ELSE h[k]]
  <2>3. /\ \A k \in 0 .. n : g[k] = h[k]
        /\ g[n + 1] = next[n + 1][h[n]]
    BY <2>2
  <2>4. g \in [0 .. n + 1 -> S]
    BY <2>2
  <2>5. IsTable(g, n + 1, base, next)
    <3>1. g[0] = base
      BY <2>1, <2>2, <2>3 DEF IsTable
    <3>2. ASSUME NEW k \in 1 .. n + 1 PROVE g[k] = next[k][g[k - 1]]
      <4>1. CASE k = n + 1
        <5>1. k - 1 = n /\ n \in 0 .. n
          BY <2>2, <4>1
        <5> QED BY <2>3, <4>1, <5>1
      <4>2. CASE k # n + 1
        <5>1. k \in 0 .. n /\ k - 1 \in 0 .. n /\ k \in 1 .. n
          BY <2>2, <4>2
        <5> HIDE DEF g
        <5> QED BY <2>1, <2>3, <5>1 DEF IsTable
      <4> QED BY <4>1, <4>2
    <3> HIDE DEF g
    <3> QED BY <3>1, <3>2 DEF IsTable
  <2> HIDE DEF g
  <2> QED BY <2>2, <2>4, <2>5
<1>3. T \subseteq Nat
  OBVIOUS
<1>4. T = Nat
  <2> HIDE DEF T
  <2> QED BY <1>1, <1>2, <1>3, NatIsInductive
<1> QED BY <1>4

\* A table without an end.
IsSeries(g, S, base, next) ==
    /\ g \in [Nat -> S]
    /\ g[0] = base
    /\ \A n \in Nat \ {0} : g[n] = next[n][g[n - 1]]

\* Primitive recursion over the naturals defines a function.
LEMMA Recursion ==
    ASSUME NEW S, NEW base \in S, NEW next \in [Nat -> [S -> S]]
    PROVE  \E g : IsSeries(g, S, base, next)
<1> DEFINE Table(n) == CHOOSE h \in [0 .. n -> S] : IsTable(h, n, base, next)
<1>1. \A n \in Nat : Table(n) \in [0 .. n -> S] /\ IsTable(Table(n), n, base, next)
  BY TableExists
<1> HIDE DEF Table
<1> DEFINE g == [n \in Nat |-> Table(n)[n]]
<1>2. g \in [Nat -> S]
  <2>1. \A n \in Nat : Table(n)[n] \in S
    BY <1>1
  <2> QED BY <2>1
<1>3. g[0] = base
  BY <1>1 DEF IsTable
<1>4. ASSUME NEW n \in Nat \ {0} PROVE g[n] = next[n][g[n - 1]]
  <2>1. n - 1 \in Nat /\ n \in 1 .. n /\ n - 1 <= n
    OBVIOUS
  <2>2. Table(n)[n] = next[n][Table(n)[n - 1]]
    BY <1>1, <2>1 DEF IsTable
  <2>3. Table(n)[n - 1] = Table(n - 1)[n - 1]
    BY <1>1, <2>1, TablesAgree
  <2>4. g[n] = Table(n)[n] /\ g[n - 1] = Table(n - 1)[n - 1]
    BY <2>1
  <2> QED BY <2>2, <2>3, <2>4
<1> HIDE DEF g
<1> QED BY <1>2, <1>3, <1>4 DEF IsSeries

-----------------------------------------------------------------------------
(* The range of the delay. *)

\* The delay is in range all along, which is what keeps the doubling below
\* Modulus: DelayInRange alone says nothing of the loop.  The short-term
\* branch is only taken below the maximum of attempts, which bounds i.
DelayInv ==
    /\ TypeOK
    /\ pc \in Computing => delay \in Base .. MaxDelay
    /\ pc = "waiting" => delay \in Base .. MaxDelay + Jitter
    /\ pc = "loop" => attempts < MaxAttempts

\* Arithmetic below the modulus does not wrap.
LEMMA NoWrap ==
    ASSUME NEW n \in Nat, n < Modulus
    PROVE  n % Modulus = n
BY ModulusAssumption

\* A delay below half the maximum can be doubled.
LEMMA DoublingFits ==
    ASSUME NEW n \in Nat, n < MaxDelay \div 2
    PROVE  n * 2 <= MaxDelay
BY ConfigAssumption

\* A series begins with no delay computed.
LEMMA InitDelay == Init => DelayInv
BY ConfigAssumption DEF Init, DelayInv, TypeOK, Computing

\* One step, of the loop, of the rest of schedule_recovery or of the series.
LEMMA NextDelay == DelayInv /\ [Next]_vars => DelayInv'
<1> USE ConfigAssumption, ModulusAssumption DEF Computing
<1> SUFFICES ASSUME DelayInv, [Next]_vars PROVE DelayInv'
  OBVIOUS
<1>1. CASE ScheduleLongTerm
  BY <1>1 DEF ScheduleLongTerm, DelayInv, TypeOK
<1>2. CASE ScheduleShortTerm
  BY <1>2 DEF ScheduleShortTerm, LongTerm, DelayInv, TypeOK
<1>3. CASE LoopDoubles
  <2>1. delay \in Nat /\ delay < MaxDelay \div 2 /\ delay' = (delay * 2) % Modulus
    BY <1>3 DEF LoopDoubles, Half, DelayInv, TypeOK
  <2>2. delay * 2 <= MaxDelay
    BY <2>1, DoublingFits
  <2>3. delay * 2 \in Nat /\ delay * 2 < Modulus
    BY <2>1, <2>2
  <2>4. delay' = delay * 2
    BY <2>1, <2>3, NoWrap
  <2>5. delay' \in Base .. MaxDelay
    BY <1>3, <2>1, <2>2, <2>4 DEF LoopDoubles, DelayInv
  <2>6. i' \in 1 .. MaxAttempts
    BY <1>3 DEF LoopDoubles, LoopGoesOn, Attempt, DelayInv, TypeOK
  <2> QED BY <1>3, <2>5, <2>6 DEF LoopDoubles, DelayInv, TypeOK
<1>4. CASE LoopSaturates
  BY <1>4 DEF LoopSaturates, DelayInv, TypeOK
<1>5. CASE LoopEnds
  BY <1>5 DEF LoopEnds, DelayInv, TypeOK
<1>6. CASE Clamp
  BY <1>6 DEF Clamp, DelayInv, TypeOK
<1>7. CASE AddJitter
  <2>1. PICK jitter \in 0 .. Jitter : delay' = (delay + jitter) % Modulus
    BY <1>7 DEF AddJitter
  <2>2. delay \in Base .. MaxDelay /\ delay + jitter \in Nat /\ delay + jitter < Modulus
    BY <1>7, <2>1 DEF AddJitter, DelayInv, TypeOK
  <2>3. delay' = delay + jitter
    BY <2>1, <2>2, NoWrap
  <2> QED BY <1>7, <2>1, <2>2, <2>3 DEF AddJitter, DelayInv, TypeOK
<1>8. CASE TakeRecovery
  BY <1>8 DEF TakeRecovery, CountedAttempt, DelayInv, TypeOK
<1>9. CASE RecoveryFails \/ SelectionRefused \/ UserConnects
  BY <1>9 DEF RecoveryFails, SelectionRefused, UserConnects, DelayInv, TypeOK
<1>10. CASE GetsOnline \/ LinkDrops
  BY <1>10 DEF GetsOnline, LinkDrops, DelayInv, TypeOK
<1>11. CASE UNCHANGED vars
  BY <1>11 DEF vars, DelayInv, TypeOK
<1> QED BY <1>1, <1>2, <1>3, <1>4, <1>5, <1>6, <1>7, <1>8, <1>9, <1>10, <1>11 DEF Next, Schedule

\* The variables keep their types: in particular neither the counter of
\* attempts nor the loop passes max_reconnect_attempts.
THEOREM BackoffTypeCorrect == Spec => []TypeOK
<1>1. DelayInv => TypeOK
  BY DEF DelayInv
<1> QED BY <1>1, InitDelay, NextDelay, PTL DEF Spec

\* Every wait of a series lies between the base delay and the maximum plus the
\* jitter, and uint32_t never wraps.
THEOREM DelayCorrect == Spec => []DelayInRange
<1>1. DelayInv => DelayInRange
  BY DEF DelayInv, DelayInRange
<1> QED BY <1>1, InitDelay, NextDelay, PTL DEF Spec

-----------------------------------------------------------------------------
(* The doubling of the base delay. *)

\* Doubled is the function its definition says.
LEMMA DoubledStep ==
    /\ Doubled \in [Nat -> Nat]
    /\ Doubled[0] = Base
    /\ \A n \in Nat : Doubled[n + 1] = 2 * Doubled[n]
<1> DEFINE next == [n \in Nat |-> [d \in Nat |-> 2 * d]]
<1>1. next \in [Nat -> [Nat -> Nat]] /\ Base \in Nat
  BY ConfigAssumption
<1>2. PICK g : IsSeries(g, Nat, Base, next)
  <2> HIDE DEF next
  <2> QED BY <1>1, Recursion
<1>3. ASSUME NEW n \in Nat PROVE g[n] = IF n = 0 THEN Base ELSE 2 * g[n - 1]
  <2>1. CASE n = 0
    BY <1>2, <2>1 DEF IsSeries
  <2>2. CASE n # 0
    <3>1. n - 1 \in Nat /\ g[n - 1] \in Nat
      BY <1>2, <2>2 DEF IsSeries
    <3> QED BY <1>2, <2>2, <3>1 DEF IsSeries
  <2> QED BY <2>1, <2>2
<1>4. g = [n \in Nat |-> IF n = 0 THEN Base ELSE 2 * g[n - 1]]
  BY <1>2, <1>3 DEF IsSeries
<1>5. Doubled = [n \in Nat |-> IF n = 0 THEN Base ELSE 2 * Doubled[n - 1]]
  BY <1>4 DEF Doubled
<1>6. \A n \in Nat : Doubled[n] = IF n = 0 THEN Base ELSE 2 * Doubled[n - 1]
  BY <1>5
<1>7. \A n \in Nat : Doubled[n] \in Nat
  <2> DEFINE T == {n \in Nat : Doubled[n] \in Nat}
  <2>1. 0 \in T
    BY <1>1, <1>6
  <2>2. ASSUME NEW n \in T PROVE n + 1 \in T
    <3>1. Doubled[n + 1] = 2 * Doubled[n]
      BY <1>6
    <3> QED BY <3>1
  <2>3. T \subseteq Nat
    OBVIOUS
  <2>4. T = Nat
    <3> HIDE DEF T
    <3> QED BY <2>1, <2>2, <2>3, NatIsInductive
  <2> QED BY <2>4
<1>8. Doubled \in [Nat -> Nat]
  BY <1>5, <1>7
<1> QED BY <1>6, <1>8

\* It grows.
LEMMA DoubledGrows == \A m, n \in Nat : m <= n => Doubled[m] <= Doubled[n]
<1> SUFFICES ASSUME NEW m \in Nat PROVE \A n \in Nat : m <= n => Doubled[m] <= Doubled[n]
  OBVIOUS
<1> DEFINE T == {n \in Nat : m <= n => Doubled[m] <= Doubled[n]}
<1>1. 0 \in T
  BY DoubledStep
<1>2. ASSUME NEW n \in T PROVE n + 1 \in T
  <2>1. Doubled[n + 1] = 2 * Doubled[n] /\ Doubled[n] \in Nat /\ Doubled[m] \in Nat
    BY DoubledStep
  <2>2. CASE m <= n
    BY <2>1, <2>2
  <2>3. CASE m = n + 1
    BY <2>1, <2>3
  <2> QED BY <2>2, <2>3
<1>3. T \subseteq Nat
  OBVIOUS
<1>4. T = Nat
  <2> HIDE DEF T
  <2> QED BY <1>1, <1>2, <1>3, NatIsInductive
<1> QED BY <1>4

\* A planned delay lies between the base delay and the maximum.
LEMMA PlannedInRange ==
    ASSUME NEW n \in 0 .. MaxAttempts
    PROVE  Planned(n) \in Base .. MaxDelay
<1>1. Doubled[n] \in Nat /\ Base <= Doubled[n] /\ Doubled[0] = Base
  BY DoubledStep, DoubledGrows
<1> QED BY <1>1, ConfigAssumption DEF Planned

\* The plan never gets shorter from one attempt to the next.
LEMMA PlannedGrows ==
    ASSUME NEW n \in 0 .. MaxAttempts, n < MaxAttempts
    PROVE  Planned(n) <= Planned(n + 1)
<1>1. n + 1 \in 0 .. MaxAttempts /\ n \in Nat
  BY ConfigAssumption
<1>2. Planned(n) \in Base .. MaxDelay
  BY PlannedInRange
<1>3. CASE Planned(n + 1) = MaxDelay
  BY <1>2, <1>3, ConfigAssumption
<1>4. CASE Planned(n + 1) # MaxDelay
  <2>1. /\ Planned(n + 1) = Doubled[n + 1]
        /\ Doubled[n + 1] < 2 * (MaxDelay \div 2)
    BY <1>1, <1>4, DoubledStep, ConfigAssumption DEF Planned
  <2>2. Doubled[n] <= Doubled[n + 1] /\ Doubled[n] \in Nat /\ Doubled[n + 1] \in Nat
    BY <1>1, DoubledStep, DoubledGrows
  <2>3. Planned(n) = Doubled[n]
    BY <1>1, <2>1, <2>2, ConfigAssumption DEF Planned
  <2> QED BY <2>1, <2>2, <2>3
<1> QED BY <1>3, <1>4

-----------------------------------------------------------------------------
(* The loop computes the plan, and the series follows it. *)

\* In round r of the loop the base delay has been doubled r - 1 times, and not
\* past the maximum; what comes out of the loop is planned.  The period before
\* is at most the plan of now and the jitter, which is what a comparison of
\* two waits rests on.
LoopInv ==
    /\ pc = "loop" => /\ i <= Attempt
                      /\ delay = Doubled[i - 1]
                      /\ i > 1 => delay < 2 * Half
    /\ pc \in {"clamp", "jitter"} => delay = Planned(attempts)
    /\ pc = "waiting" => delay \in Planned(attempts) .. Planned(attempts) + Jitter
    /\ previous <= Planned(attempts) + Jitter

\* The doubling of a delay below half the maximum stays below the maximum.
LEMMA HalfDoubles == 2 * Half <= MaxDelay /\ Half \in Nat
BY ConfigAssumption DEF Half

\* A series begins with no period before it.
LEMMA InitLoop == Init => LoopInv
<1> SUFFICES ASSUME Init PROVE LoopInv
  OBVIOUS
<1>1. Planned(0) \in Base .. MaxDelay
  BY PlannedInRange, ConfigAssumption
<1> QED BY <1>1, ConfigAssumption DEF Init, LoopInv

\* One step of the series, and of the loop in it.
LEMMA NextLoop == DelayInv /\ LoopInv /\ [Next]_vars => LoopInv'
<1> SUFFICES ASSUME DelayInv, LoopInv, [Next]_vars PROVE LoopInv'
  OBVIOUS
<1>t. /\ attempts \in 0 .. MaxAttempts /\ MaxAttempts \in Nat /\ Jitter \in Nat
      /\ i \in Nat /\ i >= 1 /\ delay \in Nat /\ previous \in Nat /\ MaxDelay \in Nat
  BY ConfigAssumption DEF DelayInv, TypeOK
<1>p. Planned(attempts) \in Nat /\ Planned(attempts) >= Base
  BY <1>t, PlannedInRange, ConfigAssumption
<1>0. Planned(0) \in Nat
  BY <1>t, PlannedInRange, ConfigAssumption
<1>1. CASE ScheduleLongTerm
  <2>1. attempts = MaxAttempts
    BY <1>1, <1>t DEF ScheduleLongTerm, LongTerm
  <2>2. Planned(attempts) = MaxDelay
    BY <2>1 DEF Planned
  <2> QED BY <1>1, <2>2 DEF ScheduleLongTerm, LoopInv
<1>2. CASE ScheduleShortTerm
  BY <1>2, <1>t, DoubledStep DEF ScheduleShortTerm, Attempt, LoopInv
<1>3. CASE LoopDoubles
  <2>1. delay = Doubled[i - 1] /\ delay < Half /\ i < attempts + 1
    BY <1>3 DEF LoopDoubles, LoopInv, LoopGoesOn, Attempt
  <2>2. delay' = delay * 2 /\ i' = i + 1
    <3>1. delay * 2 \in Nat /\ delay * 2 < Modulus
      BY <1>t, <2>1, HalfDoubles, ConfigAssumption, ModulusAssumption
    <3> QED BY <1>3, <3>1, NoWrap DEF LoopDoubles
  <2>3. delay' = Doubled[i' - 1]
    <3>1. i - 1 \in Nat /\ (i - 1) + 1 = i' - 1
      BY <1>t, <2>2
    <3> QED BY <2>1, <2>2, <3>1, DoubledStep
  <2>4. delay' < 2 * Half
    BY <1>t, <2>1, <2>2, HalfDoubles
  <2> QED BY <1>3, <1>t, <2>1, <2>2, <2>3, <2>4 DEF LoopDoubles, LoopInv, Attempt
<1>4. CASE LoopSaturates
  <2>1. delay = Doubled[i - 1] /\ delay >= Half /\ i < attempts + 1 /\ attempts < MaxAttempts
    BY <1>4 DEF LoopSaturates, LoopInv, LoopGoesOn, Attempt, DelayInv
  <2>2. Doubled[i] = 2 * delay
    <3>1. i - 1 \in Nat /\ (i - 1) + 1 = i
      BY <1>t
    <3> QED BY <2>1, <3>1, DoubledStep
  <2>3. Doubled[i] <= Doubled[attempts] /\ Doubled[attempts] \in Nat
    <3>1. i \in Nat /\ attempts \in Nat /\ i <= attempts
      BY <1>t, <2>1
    <3> QED BY <3>1, DoubledGrows, DoubledStep
  <2>4. Doubled[attempts] >= 2 * Half
    BY <1>t, <2>1, <2>2, <2>3, HalfDoubles
  <2>5. Planned(attempts) = MaxDelay
    BY <1>t, <2>1, <2>4 DEF Planned, Half
  <2> QED BY <1>4, <2>5 DEF LoopSaturates, LoopInv
<1>5. CASE LoopEnds
  <2>1. /\ delay = Doubled[i - 1] /\ i = attempts + 1 /\ attempts < MaxAttempts
        /\ i > 1 => delay < 2 * Half
    BY <1>5, <1>t DEF LoopEnds, LoopInv, LoopGoesOn, Attempt, DelayInv
  <2>2. delay = Doubled[attempts]
    BY <1>t, <2>1
  <2>3. Planned(attempts) = delay
    BY <1>t, <2>1, <2>2, HalfDoubles DEF Planned, Half
  <2> QED BY <1>5, <2>3 DEF LoopEnds, LoopInv
<1>6. CASE Clamp
  <2>1. delay <= MaxDelay
    BY <1>6 DEF Clamp, DelayInv, Computing
  <2> QED BY <1>6, <1>t, <2>1 DEF Clamp, LoopInv
<1>7. CASE AddJitter
  <2>1. PICK jitter \in 0 .. Jitter : delay' = (delay + jitter) % Modulus
    BY <1>7 DEF AddJitter
  <2>2. delay = Planned(attempts) /\ delay \in Base .. MaxDelay
    BY <1>7 DEF AddJitter, LoopInv, DelayInv, Computing
  <2>3. delay + jitter \in Nat /\ delay + jitter < Modulus
    BY <1>t, <2>1, <2>2, ConfigAssumption, ModulusAssumption
  <2>4. delay' = delay + jitter
    BY <2>1, <2>3, NoWrap
  <2>5. delay' \in Planned(attempts) .. Planned(attempts) + Jitter
    BY <1>p, <1>t, <2>2, <2>4
  <2> QED BY <1>7, <2>5 DEF AddJitter, LoopInv
<1>8. CASE TakeRecovery
  <2>1. previous' \in Nat /\ previous' <= Planned(attempts) + Jitter
    BY <1>8, <1>p, <1>t DEF TakeRecovery, LoopInv
  <2>2. Planned(attempts) <= Planned(attempts') /\ Planned(attempts') \in Nat
    <3>1. CASE attempts < MaxAttempts
      <4>1. attempts' = attempts + 1 /\ attempts' \in 0 .. MaxAttempts
        BY <1>8, <1>t, <3>1 DEF TakeRecovery, CountedAttempt
      <4> QED BY <1>t, <3>1, <4>1, PlannedGrows, PlannedInRange, ConfigAssumption
    <3>2. CASE ~(attempts < MaxAttempts)
      BY <1>8, <1>p, <3>2 DEF TakeRecovery, CountedAttempt
    <3> QED BY <3>1, <3>2
  <2>3. previous' <= Planned(attempts') + Jitter
    BY <1>p, <1>t, <2>1, <2>2
  <2> QED BY <1>8, <2>3 DEF TakeRecovery, LoopInv, Planned
<1>9. CASE RecoveryFails \/ SelectionRefused \/ LinkDrops
  BY <1>9 DEF RecoveryFails, SelectionRefused, LinkDrops, LoopInv
<1>10. CASE UserConnects \/ GetsOnline
  BY <1>0, <1>10, <1>t DEF UserConnects, GetsOnline, LoopInv
<1>11. CASE UNCHANGED vars
  BY <1>11 DEF vars, LoopInv, Attempt, Half, Planned
<1> QED BY <1>1, <1>2, <1>3, <1>4, <1>5, <1>6, <1>7, <1>8, <1>9, <1>10, <1>11 DEF Next, Schedule

\* The loop and the two branches of schedule_recovery together compute the
\* doubling that stops at the maximum, for every base, maximum and number of
\* attempts.
THEOREM DoublingCorrect == Spec => []DelayDoubles
<1>1. LoopInv => DelayDoubles
  BY DEF LoopInv, DelayDoubles
<1> QED BY <1>1, InitDelay, NextDelay, InitLoop, NextLoop, PTL DEF Spec

\* No wait of a series is shorter than the one before it by more than the
\* jitter, over the change from short-term to long-term recovery too, for
\* every configuration and every draw of the jitter.
THEOREM WaitsCorrect == Spec => []WaitsNeverShrink
<1>1. DelayInv /\ LoopInv => WaitsNeverShrink
  <2> SUFFICES ASSUME DelayInv, LoopInv, pc = "waiting" PROVE delay + Jitter >= previous
    BY DEF WaitsNeverShrink
  <2>1. Planned(attempts) \in Nat /\ delay \in Nat /\ previous \in Nat /\ Jitter \in Nat
    BY PlannedInRange, ConfigAssumption DEF DelayInv, TypeOK
  <2> QED BY <2>1 DEF LoopInv
<1> QED BY <1>1, InitDelay, NextDelay, InitLoop, NextLoop, PTL DEF Spec

-----------------------------------------------------------------------------
(* With the selection of an AP. *)

\* A step of the detailed series is a step of its schedule or leaves that alone.
LEMMA SelectionStepsSchedule == [RecoveryNext]_recoveryVars => [Next]_vars
<1> SUFFICES ASSUME [RecoveryNext]_recoveryVars PROVE [Next]_vars
  OBVIOUS
<1>1. CASE WaitsForRecovery
  BY <1>1 DEF WaitsForRecovery, Next
<1>2. CASE StartSelection
  BY <1>2 DEF StartSelection, Next
<1>3. CASE ReconnectDirectly
  BY <1>3 DEF ReconnectDirectly, Next, vars
<1>4. CASE ScanFails \/ ScanMisses \/ ConnectRefused
  BY <1>4 DEF ScanFails, ScanMisses, ConnectRefused, Next
<1>5. CASE ScanFinds
  BY <1>5 DEF ScanFinds
<1>6. CASE ConnectionUp \/ ConnectionDrops
  BY <1>6 DEF ConnectionUp, ConnectionDrops, Next
<1>7. CASE UserStartsSelection
  BY <1>7 DEF UserStartsSelection, Next
<1>8. CASE UNCHANGED recoveryVars
  BY <1>8 DEF recoveryVars, vars
<1> QED BY <1>1, <1>2, <1>3, <1>4, <1>5, <1>6, <1>7, <1>8 DEF RecoveryNext

\* The detailed series implements the schedule of WifiBackoff.
THEOREM RecoveryImplementsBackoff == RecoverySpec => Spec
<1>1. RecoveryInit => Init
  BY DEF RecoveryInit
<1> QED BY <1>1, SelectionStepsSchedule, PTL DEF RecoverySpec, Spec

\* Every wait of a series lies between the base delay and the maximum plus the
\* jitter, and uint32_t never wraps, whatever the scans of the series find.
THEOREM RecoveryDelayCorrect == RecoverySpec => []DelayInRange
BY RecoveryImplementsBackoff, DelayCorrect, PTL

\* The counter of attempts and the loop stay within max_reconnect_attempts,
\* whatever the scans of the series find.
THEOREM RecoveryTypeCorrect == RecoverySpec => []TypeOK
BY RecoveryImplementsBackoff, BackoffTypeCorrect, PTL

\* The doubling and the order of the waits hold with the scans between them.
THEOREM RecoveryDoublingCorrect == RecoverySpec => []DelayDoubles
BY RecoveryImplementsBackoff, DoublingCorrect, PTL

\* The order of the waits does, too.
THEOREM RecoveryWaitsCorrect == RecoverySpec => []WaitsNeverShrink
BY RecoveryImplementsBackoff, WaitsCorrect, PTL

-----------------------------------------------------------------------------
(* The loop over the scan records. *)

\* What the loop has to hold after n records: nothing if none of them is ours,
\* else the strongest of ours.
BestOf(selected, n, records) ==
    \/ /\ selected = Nothing
       /\ \A k \in 1 .. n : records[k].ssid # "configured"
    \/ \E b \in 1 .. n :
          /\ selected = <<records[b]>>
          /\ records[b].ssid = "configured"
          /\ \A k \in 1 .. n :
                records[k].ssid = "configured" => records[k].rssi <= records[b].rssi

\* One round of the loop.
LEMMA KeepKeepsBest ==
    ASSUME NEW n \in Nat, NEW records, \A k \in 1 .. n + 1 : records[k] \in Record,
           NEW selected, BestOf(selected, n, records)
    PROVE  BestOf(Keep(records[n + 1], selected), n + 1, records)
<1> DEFINE record == records[n + 1]
<1>1. /\ n + 1 \in 1 .. n + 1
      /\ \A k \in 1 .. n + 1 : k \in 1 .. n \/ k = n + 1
      /\ \A k \in 1 .. n : k \in 1 .. n + 1
  OBVIOUS
<1>2. \A k \in 1 .. n + 1 : records[k].rssi \in Int
  <2>1. Rssis \subseteq Int
    BY RssiAssumption
  <2> QED BY <2>1 DEF Record
<1>3. CASE record.ssid # "configured"
  <2>1. Keep(record, selected) = selected
    BY <1>3 DEF Keep, Candidate
  <2> QED BY <1>1, <1>3, <2>1 DEF BestOf
<1>4. CASE record.ssid = "configured" /\ selected = Nothing
  <2>1. Keep(record, selected) = <<record>>
    BY <1>4 DEF Keep, Candidate
  <2>2. \A k \in 1 .. n : records[k].ssid # "configured"
    BY <1>4 DEF BestOf, Nothing
  <2> QED BY <1>1, <1>2, <1>4, <2>1, <2>2 DEF BestOf
<1>5. CASE record.ssid = "configured" /\ selected # Nothing
  <2>1. PICK b \in 1 .. n :
           /\ selected = <<records[b]>>
           /\ records[b].ssid = "configured"
           /\ \A k \in 1 .. n :
                 records[k].ssid = "configured" => records[k].rssi <= records[b].rssi
    BY <1>5 DEF BestOf
  <2>2. selected[1] = records[b]
    BY <2>1
  <2>3. CASE record.rssi > records[b].rssi
    <3>1. Keep(record, selected) = <<record>>
      BY <1>5, <2>2, <2>3 DEF Keep, Candidate, Stronger
    <3>2. \A k \in 1 .. n + 1 : records[k].ssid = "configured" => records[k].rssi <= record.rssi
      BY <1>1, <1>2, <2>1, <2>3
    <3> QED BY <1>1, <1>5, <3>1, <3>2 DEF BestOf
  <2>4. CASE ~(record.rssi > records[b].rssi)
    <3>1. Keep(record, selected) = selected
      BY <1>5, <2>2, <2>4 DEF Keep, Candidate, Stronger
    <3>2. \A k \in 1 .. n + 1 :
             records[k].ssid = "configured" => records[k].rssi <= records[b].rssi
      BY <1>1, <1>2, <2>1, <2>4
    <3> QED BY <1>1, <2>1, <3>1, <3>2 DEF BestOf
  <2> QED BY <2>3, <2>4
<1> QED BY <1>3, <1>4, <1>5

\* All rounds: the loop selects the strongest of ours, however many records
\* there are and in whatever order.
LEMMA SelectIsBest ==
    ASSUME NEW records \in Seq(Record)
    PROVE  BestOf(Select(records), Len(records), records)
<1> DEFINE size == Len(records)
           Chosen == {Nothing} \cup {<<records[k]>> : k \in Nat}
           next == [n \in Nat |-> [s \in Chosen |-> Keep(records[n], s)]]
           after == CHOOSE f : f = [n \in Nat |-> IF n = 0 THEN Nothing
                                                   ELSE Keep(records[n], f[n - 1])]
<1>1. next \in [Nat -> [Chosen -> Chosen]] /\ Nothing \in Chosen
  BY DEF Keep
<1>2. PICK g : IsSeries(g, Chosen, Nothing, next)
  <2> HIDE DEF next, Chosen
  <2> QED BY <1>1, Recursion
<1>3. ASSUME NEW n \in Nat
      PROVE  g[n] = IF n = 0 THEN Nothing ELSE Keep(records[n], g[n - 1])
  <2>1. CASE n = 0
    BY <1>2, <2>1 DEF IsSeries
  <2>2. CASE n # 0
    <3>1. n - 1 \in Nat /\ g[n - 1] \in Chosen
      <4> HIDE DEF Chosen, next
      <4> QED BY <1>2, <2>2 DEF IsSeries
    <3>2. g[n] = next[n][g[n - 1]]
      <4> HIDE DEF Chosen, next
      <4> QED BY <1>2, <2>2 DEF IsSeries
    <3> QED BY <2>2, <3>1, <3>2
  <2> QED BY <2>1, <2>2
<1>4. g = [n \in Nat |-> IF n = 0 THEN Nothing ELSE Keep(records[n], g[n - 1])]
  BY <1>2, <1>3 DEF IsSeries
<1>5. after = [n \in Nat |-> IF n = 0 THEN Nothing ELSE Keep(records[n], after[n - 1])]
  BY <1>4
<1>6. Select(records) = after[size]
  BY DEF Select
<1> HIDE DEF after
<1>7. after[0] = Nothing /\ \A n \in Nat : after[n + 1] = Keep(records[n + 1], after[n])
  BY <1>5
<1>8. \A n \in Nat : n <= size => BestOf(after[n], n, records)
  <2> DEFINE T == {n \in Nat : n <= size => BestOf(after[n], n, records)}
  <2>1. 0 \in T
    BY <1>7 DEF BestOf
  <2>2. ASSUME NEW n \in T PROVE n + 1 \in T
    <3> SUFFICES ASSUME n + 1 <= size PROVE BestOf(after[n + 1], n + 1, records)
      OBVIOUS
    <3>1. BestOf(after[n], n, records) /\ \A k \in 1 .. n + 1 : records[k] \in Record
      OBVIOUS
    <3> QED BY <1>7, <3>1, KeepKeepsBest
  <2>3. T \subseteq Nat
    OBVIOUS
  <2>4. T = Nat
    <3> HIDE DEF T
    <3> QED BY <2>1, <2>2, <2>3, NatIsInductive
  <2> QED BY <2>4
<1> QED BY <1>6, <1>8

\* A scan is a sequence of records.
LEMMA ScansAreSequences == \A records \in Scans : records \in Seq(Record) /\ records # <<>>
<1> SUFFICES ASSUME NEW n \in 1 .. MaxRecords, NEW records \in [1 .. n -> Record]
             PROVE  records \in Seq(Record) /\ records # <<>>
  BY DEF Scans
<1>1. n \in Nat /\ n >= 1
  BY RecordsAssumption
<1>2. records \in Seq(Record) /\ Len(records) = n
  BY <1>1
<1> QED BY <1>1, <1>2

\* The result of the loop against the reference.
LEMMA SelectAgrees ==
    ASSUME NEW records \in Seq(Record)
    PROVE  /\ Select(records) # Nothing <=> \E n \in DOMAIN records : IsBest(n, records)
           /\ Select(records) # Nothing =>
                  \E n \in DOMAIN records : IsBest(n, records) /\ Select(records) = <<records[n]>>
<1>1. DOMAIN records = 1 .. Len(records)
  OBVIOUS
<1>2. \A n : <<records[n]>> # Nothing
  BY DEF Nothing
<1> QED BY <1>1, <1>2, SelectIsBest DEF BestOf, IsBest

\* A scan is only remembered while its connection is attempted, or when it
\* missed and the next recovery is not yet scheduled: no step after it can be
\* taken for its outcome.
FoundInv ==
    /\ SelectsStrongest
    /\ step \in {"none", "scanning", "connecting"}
    /\ step # "none" => pc = "recovering"
    /\ found # <<>> => step = "connecting" \/ (step = "none" /\ pc = "lost")

\* No scan has been used at the start.
LEMMA FoundInit == RecoveryInit => FoundInv
BY DEF RecoveryInit, FoundInv, SelectsStrongest

\* Every step keeps or drops what was found.
LEMMA FoundNext == FoundInv /\ [RecoveryNext]_recoveryVars => FoundInv'
<1> SUFFICES ASSUME FoundInv, [RecoveryNext]_recoveryVars PROVE FoundInv'
  OBVIOUS
<1> USE DEF FoundInv
<1>n. found' = <<>> => SelectsStrongest'
  BY DEF SelectsStrongest
<1>1. CASE WaitsForRecovery
  <2>1. pc # "recovering"
    BY <1>1 DEF WaitsForRecovery, Schedule, ScheduleLongTerm, ScheduleShortTerm, LoopDoubles,
       LoopSaturates, LoopEnds, Clamp, AddJitter, TakeRecovery
  <2> QED BY <1>1, <1>n, <2>1 DEF WaitsForRecovery
<1>2. CASE StartSelection
  BY <1>2, <1>n DEF StartSelection, SelectionRefused, vars
<1>3. CASE ReconnectDirectly
  BY <1>3, <1>n DEF ReconnectDirectly, RecoveryFails, vars
<1>4. CASE ScanFails
  BY <1>4, <1>n DEF ScanFails, RecoveryFails
<1>5. CASE ScanMisses
  <2>1. found' \in Seq(Record) /\ Select(found') = Nothing /\ step' = "none" /\ pc' = "lost"
    BY <1>5, ScansAreSequences DEF ScanMisses, RecoveryFails
  <2>2. ~ \E n \in DOMAIN found' : IsBest(n, found')
    BY <2>1, SelectAgrees
  <2> QED BY <2>1, <2>2 DEF SelectsStrongest
<1>6. CASE ScanFinds
  <2>1. /\ found' \in Seq(Record) /\ Select(found') # Nothing /\ selectedAp' = Select(found')
        /\ step' = "connecting" /\ pc' = "recovering"
    BY <1>6, ScansAreSequences DEF ScanFinds, vars
  <2>2. \E n \in DOMAIN found' : IsBest(n, found') /\ selectedAp' = <<found'[n]>>
    BY <2>1, SelectAgrees
  <2> QED BY <2>1, <2>2 DEF SelectsStrongest
<1>7. CASE ConnectRefused \/ ConnectionUp \/ ConnectionDrops
  BY <1>7, <1>n DEF ConnectRefused, ConnectionUp, ConnectionDrops, RecoveryFails, GetsOnline,
     LinkDrops
<1>8. CASE UserStartsSelection
  BY <1>8, <1>n DEF UserStartsSelection, UserConnects
<1>9. CASE UNCHANGED recoveryVars
  BY <1>9 DEF recoveryVars, vars, selection, SelectsStrongest, IsBest
<1> QED BY <1>1, <1>2, <1>3, <1>4, <1>5, <1>6, <1>7, <1>8, <1>9 DEF RecoveryNext

\* A recovery connects exactly when its scan shows an AP of ours, and then to
\* the strongest, for scans of any length, any strengths and any order of the
\* records, at any place in the series.
THEOREM StrongestIsSelected == RecoverySpec => []SelectsStrongest
<1>1. FoundInv => SelectsStrongest
  BY DEF FoundInv
<1> QED BY <1>1, FoundInit, FoundNext, PTL DEF RecoverySpec
=============================================================================
