------------------------ MODULE RestartPolicyProofs -------------------------
(***************************************************************************)
(* Theorems about RestartPolicy, for any policy.  A restart budget is      *)
(* checked before a sleep and spent after it: the invariant carries the    *)
(* check through the sleep, in which the window only loses restarts while  *)
(* nobody sets the clock back.  Likewise what is left of the sleep and the *)
(* age of the last restart add up to the backoff delay.                    *)
(***************************************************************************)
EXTENDS RestartPolicy, FiniteSetTheorems, WellFoundedInduction, TLAPS

\* Every set of numbers has a least one.
LEMMA LeastOne ==
    ASSUME NEW T \in SUBSET Nat, T # {}
    PROVE  \E n \in T : \A m \in T : n <= m
<1>1. PICK n \in T : \A m \in T : ~ (<<m, n>> \in OpToRel(<, Nat))
    BY NatLessThanWellFounded, WFMin
<1>2. \A m \in T : ~(m < n)
    BY <1>1 DEF OpToRel
<1>3. n \in Nat /\ \A m \in T : m \in Nat
    OBVIOUS
<1> QED
    BY <1>2, <1>3

\* The powers that the assumption describes are numbers.
LEMMA PowersArePositive == \A n \in 0 .. CountBound : 2 ^ n \in Nat \ {0}
<1> DEFINE P(n) == 2 ^ n
           Bad == {n \in 0 .. CountBound : P(n) \notin Nat \ {0}}
<1>1. P(0) = 1 /\ \A n \in 0 .. CountBound - 1 : P(n + 1) = 2 * P(n)
    BY PowersAssumption
<1>2. CountBound \in Nat
    BY PolicyAssumption
<1> HIDE DEF P
<1>3. Bad = {}
  <2> SUFFICES ASSUME Bad # {} PROVE FALSE
    OBVIOUS
  <2>0. Bad \in SUBSET Nat
    BY <1>2
  <2>1. PICK k \in Bad : \A l \in Bad : k <= l
    BY <2>0, LeastOne
  <2>2. k \in 1 .. CountBound /\ k - 1 \in 0 .. CountBound - 1 /\ k - 1 \notin Bad
    BY <1>1, <1>2, <2>1
  <2>3. P(k - 1) \in Nat \ {0}
    BY <1>2, <2>2
  <2>4. P(k) = 2 * P(k - 1)
    BY <1>1, <1>2, <2>2, (k - 1) + 1 = k
  <2> QED
    BY <2>1, <2>3, <2>4
<1>4. \A n \in 0 .. CountBound : P(n) \in Nat \ {0}
    BY <1>3
<1> QED
    BY <1>4 DEF P

\* The saturating power, product and minimum that calculate_delay takes lose
\* nothing: it is min(initial * 2^n, max) for every n, whatever overflows.
LEMMA SaturationIsExact ==
    ASSUME NEW power \in Nat \ {0}
    PROVE  LeastOf(LeastOf(InitialDelay * LeastOf(power, MaxUint), MaxUint), MaxDelay)
             = LeastOf(InitialDelay * power, MaxDelay)
<1>1. InitialDelay \in Nat /\ MaxUint \in Nat /\ MaxDelay \in Nat /\ MaxDelay <= MaxUint
    BY PolicyAssumption
<1>2. CASE InitialDelay = 0
  <2>1. InitialDelay * power = 0 /\ InitialDelay * LeastOf(power, MaxUint) = 0
    BY <1>1, <1>2 DEF LeastOf
  <2> QED
    BY <1>1, <2>1 DEF LeastOf
<1>3. CASE InitialDelay > 0 /\ power <= MaxUint
  <2> DEFINE product == InitialDelay * power
  <2>1. LeastOf(power, MaxUint) = power /\ product \in Nat
    BY <1>1, <1>3 DEF LeastOf
  <2>2. LeastOf(LeastOf(product, MaxUint), MaxDelay) = LeastOf(product, MaxDelay)
    <3> HIDE DEF product
    <3> QED
      BY <1>1, <2>1 DEF LeastOf
  <2> QED
    BY <2>1, <2>2
<1>4. CASE InitialDelay > 0 /\ power > MaxUint
  <2> DEFINE clipped == InitialDelay * MaxUint
             product == InitialDelay * power
  <2>1. clipped \in Nat /\ product \in Nat
    BY <1>1
  <2>2. clipped >= MaxUint
    BY <1>1, <1>4
  <2>3. product >= clipped
    BY <1>1, <1>4
  <2>4. LeastOf(LeastOf(clipped, MaxUint), MaxDelay) = LeastOf(product, MaxDelay)
    <3> HIDE DEF clipped, product
    <3> QED
      BY <1>1, <2>1, <2>2, <2>3 DEF LeastOf
  <2> QED
    BY <1>1, <1>4, <2>4 DEF LeastOf
<1> QED
    BY <1>1, <1>2, <1>3, <1>4

\* calculate_delay returns the delay the strategy is documented to have.
THEOREM DelayIsExact == \A n \in 0 .. CountBound : Delay(n) = ExactDelay(n)
<1> TAKE n \in 0 .. CountBound
<1> DEFINE power == 2 ^ n
<1>1. power \in Nat \ {0}
    BY PowersArePositive
<1> HIDE DEF power
<1>2. LeastOf(LeastOf(InitialDelay * LeastOf(power, MaxUint), MaxUint), MaxDelay)
        = LeastOf(InitialDelay * power, MaxDelay)
    BY <1>1, SaturationIsExact
<1> QED
    BY <1>2 DEF Delay, SaturatingPow, ExactDelay, power

LEMMA ExactDelayType == \A n \in 0 .. CountBound : ExactDelay(n) \in 0 .. MaxDelay
<1> TAKE n \in 0 .. CountBound
<1> DEFINE power == 2 ^ n
<1>1. power \in Nat \ {0}
    BY PowersArePositive
<1> HIDE DEF power
<1>2. InitialDelay * power \in Nat
    BY <1>1, PolicyAssumption
<1>3. LeastOf(InitialDelay * power, MaxDelay) \in 0 .. MaxDelay
  <2> DEFINE product == InitialDelay * power
  <2>1. product \in Nat
    BY <1>2
  <2> HIDE DEF product
  <2>2. LeastOf(product, MaxDelay) \in 0 .. MaxDelay
    BY <2>1, PolicyAssumption DEF LeastOf
  <2> QED
    BY <2>2 DEF product
<1> QED
    BY <1>3 DEF ExactDelay, power

\* After each restart the next one waits as long or longer.
LEMMA DelayGrows == \A n \in 0 .. CountBound - 1 : ExactDelay(n) <= ExactDelay(n + 1)
<1> TAKE n \in 0 .. CountBound - 1
<1> DEFINE power == 2 ^ n
           product == InitialDelay * power
           double == InitialDelay * (2 * power)
<1>1. 2 ^ (n + 1) = 2 * power /\ power \in Nat \ {0}
    BY PowersAssumption, PowersArePositive, PolicyAssumption
<1> HIDE DEF power
<1>2. product \in Nat /\ double \in Nat /\ product <= double
    BY <1>1, PolicyAssumption
<1>3. ExactDelay(n) = LeastOf(product, MaxDelay) /\ ExactDelay(n + 1) = LeastOf(double, MaxDelay)
    BY <1>1 DEF ExactDelay, power
<1> HIDE DEF product, double
<1> QED
    BY <1>2, <1>3, PolicyAssumption DEF LeastOf

-----------------------------------------------------------------------------
(* Typing. *)

LEMMA Bounds ==
    /\ Horizon \in Nat \ {0} /\ Window <= Horizon
    /\ {MaxRestarts, CountBound, StepBack, MaxDelay, Window} \subseteq Nat
    /\ Window > 0
BY PolicyAssumption DEF Horizon

LEMMA InitTypeOK == Init => TypeOK
BY Bounds DEF Init, TypeOK, Phases

LEMMA AgeType == TypeOK => \A i \in 1 .. Len(ages) : ages[i] \in Nat /\ ages[i] <= Horizon
BY Bounds DEF TypeOK

\* What recording a restart does to the ages.
LEMMA RecordTypeOK ==
    ASSUME TypeOK, Len(ages) < CountBound, RecordRestart
    PROVE  /\ ages' \in Seq(0 .. Horizon)
           /\ Len(ages') = Len(ages) + 1
           /\ Len(ages') <= CountBound
           /\ \A i \in 1 .. Len(ages) : ages'[i] = ages[i]
           /\ ages'[Len(ages) + 1] = 0
BY Bounds DEF TypeOK, RecordRestart

\* What a second does to the ages.
LEMMA TickAges ==
    ASSUME TypeOK, Tick
    PROVE  /\ ages' \in Seq(0 .. Horizon)
           /\ Len(ages') = Len(ages)
           /\ \A i \in 1 .. Len(ages) : ages'[i] = LeastOf(ages[i] + 1, Horizon)
<1>1. Restarts = 1 .. Len(ages) /\ Len(ages) \in Nat
    BY DEF TypeOK, Restarts
<1>2. ages' = [i \in 1 .. Len(ages) |-> LeastOf(ages[i] + 1, Horizon)]
    BY <1>1 DEF Tick
<1>3. \A i \in 1 .. Len(ages) : LeastOf(ages[i] + 1, Horizon) \in 0 .. Horizon
    BY Bounds DEF TypeOK, LeastOf
<1> QED
    BY <1>1, <1>2, <1>3

LEMMA NextTypeOK == TypeOK /\ [Next]_vars => TypeOK'
<1> SUFFICES ASSUME TypeOK, [Next]_vars PROVE TypeOK'
    OBVIOUS
<1> USE DEF TypeOK, Phases
<1>1. CASE Tick
    BY <1>1, TickAges, Bounds DEF Tick
<1>2. CASE ClockStepsBack
    BY <1>2 DEF ClockStepsBack
<1>3. CASE Crash
    BY <1>3 DEF Crash
<1>4. CASE TryAutoRestart
  <2>1. Len(ages) \in 0 .. CountBound
    BY Bounds
  <2>2. Delay(Len(ages)) \in 0 .. MaxDelay
    BY <2>1, DelayIsExact, ExactDelayType
  <2> QED
    BY <1>4, <2>2, Bounds DEF TryAutoRestart
<1>5. CASE AutoRestart
  <2>1. /\ phase' = "up" /\ wait' = wait /\ stepped' = stepped
        /\ Len(ages) < CountBound /\ RecordRestart
        /\ autos' = autos \cup {Len(ages) + 1}
    BY <1>5 DEF AutoRestart
  <2>2. /\ ages' \in Seq(0 .. Horizon)
        /\ Len(ages') = Len(ages) + 1
        /\ Len(ages') <= CountBound
    BY <2>1, RecordTypeOK
  <2>3. Len(ages) \in Nat
    OBVIOUS
  <2>4. autos' \subseteq 1 .. Len(ages')
    <3> SUFFICES ASSUME NEW k \in autos' PROVE k \in 1 .. Len(ages')
      OBVIOUS
    <3>1. k \in 1 .. Len(ages) \/ k = Len(ages) + 1
      BY <2>1
    <3> HIDE DEF TypeOK
    <3> QED
      BY <2>2, <2>3, <3>1
  <2>5. stepped' \in -1 .. Len(ages')
    BY <2>1, <2>2, <2>3
  <2> QED
    BY <2>1, <2>2, <2>4, <2>5
<1>6. CASE AutoRestartFails
    BY <1>6 DEF AutoRestartFails
<1>7. CASE Restart
    BY <1>7, RecordTypeOK DEF Restart
<1>8. CASE UNCHANGED vars
    BY <1>8 DEF vars
<1> QED
    BY <1>1, <1>2, <1>3, <1>4, <1>5, <1>6, <1>7, <1>8 DEF Next

\* The variables keep their shape; no sleep is longer than the strategy's cap.
THEOREM TypeCorrectness == Spec => []TypeOK
BY InitTypeOK, NextTypeOK, PTL DEF Spec

-----------------------------------------------------------------------------
(* The backoff. *)

\* The sleep makes up what the last restart's age lacks.
SleepsLongEnough ==
    phase = "backoff" /\ ages # <<>> =>
        (ages[Len(ages)] < Horizon => ages[Len(ages)] + wait >= ExactDelay(Len(ages)))

BackoffInv == TypeOK /\ SleepsLongEnough /\ BackoffKept

LEMMA NextBackoff == BackoffInv /\ [Next]_vars => BackoffInv'
<1> SUFFICES ASSUME BackoffInv, [Next]_vars PROVE SleepsLongEnough' /\ BackoffKept'
    BY NextTypeOK DEF BackoffInv
<1>0. TypeOK /\ TypeOK' /\ Len(ages) \in 0 .. CountBound
    BY NextTypeOK, Bounds DEF BackoffInv, TypeOK
<1>a. \A n \in 0 .. CountBound : ExactDelay(n) \in Nat
    BY ExactDelayType, Bounds
<1>1. CASE Tick
  <2>1. /\ Len(ages') = Len(ages)
        /\ \A i \in 1 .. Len(ages) : ages'[i] = LeastOf(ages[i] + 1, Horizon)
    BY <1>0, <1>1, TickAges
  <2>2. SleepsLongEnough'
    <3> SUFFICES ASSUME phase' = "backoff", ages' # <<>>, ages'[Len(ages)] < Horizon
                 PROVE  ages'[Len(ages)] + wait' >= ExactDelay(Len(ages))
      BY <2>1 DEF SleepsLongEnough
    <3>1. Len(ages) \in 1 .. CountBound /\ ages # <<>>
      BY <1>0, <2>1 DEF TypeOK
    <3>0. ages[Len(ages)] \in Nat /\ ages[Len(ages)] <= Horizon
      BY <1>0, <3>1, AgeType
    <3>2. ages[Len(ages)] < Horizon /\ ages'[Len(ages)] = ages[Len(ages)] + 1
      BY <1>0, <2>1, <3>0, <3>1, Bounds DEF LeastOf
    <3>3. phase = "backoff" /\ wait' = wait - 1
      BY <1>0, <1>1 DEF Tick, TypeOK
    <3>4. ages[Len(ages)] + wait >= ExactDelay(Len(ages))
      BY <3>1, <3>2, <3>3 DEF BackoffInv, SleepsLongEnough
    <3>5. wait \in Nat /\ ExactDelay(Len(ages)) \in Nat
      BY <1>0, <1>a, Bounds DEF TypeOK
    <3> QED
      BY <3>0, <3>2, <3>3, <3>4, <3>5
  <2>3. BackoffKept'
    <3> SUFFICES ASSUME NEW i \in autos \ {1}, ages'[i - 1] < Horizon
                 PROVE  ages'[i - 1] - ages'[i] >= ExactDelay(i - 1)
      BY <1>1 DEF BackoffKept, Tick
    <3>0. i \in 1 .. Len(ages) /\ i # 1 /\ Len(ages) \in 0 .. CountBound
      BY <1>0 DEF TypeOK
    <3>1. i \in 1 .. Len(ages) /\ i - 1 \in 1 .. Len(ages) /\ i - 1 \in 0 .. CountBound
      BY <3>0, Bounds
    <3>2. /\ ages[i - 1] \in Nat /\ ages[i - 1] <= Horizon
          /\ ages[i] \in Nat /\ ages[i] <= Horizon
      BY <1>0, <3>1, AgeType
    <3>3. /\ ages'[i - 1] = LeastOf(ages[i - 1] + 1, Horizon)
          /\ ages'[i] = LeastOf(ages[i] + 1, Horizon)
      BY <2>1, <3>1
    <3>4. /\ ages[i - 1] < Horizon /\ ages'[i - 1] = ages[i - 1] + 1
          /\ ages'[i] <= ages[i] + 1 /\ ages'[i] \in Nat
      BY <3>2, <3>3, Bounds DEF LeastOf
    <3>5. ages[i - 1] - ages[i] >= ExactDelay(i - 1)
      BY <3>4 DEF BackoffInv, BackoffKept
    <3>6. ExactDelay(i - 1) \in Nat
      BY <1>a, <3>1
    <3> QED
      BY <3>2, <3>4, <3>5, <3>6
  <2> QED
    BY <2>2, <2>3
<1>2. ASSUME ClockStepsBack \/ Crash \/ AutoRestartFails \/ UNCHANGED vars
      PROVE  SleepsLongEnough' /\ BackoffKept'
    BY <1>2 DEF BackoffInv, SleepsLongEnough, BackoffKept, ClockStepsBack, Crash,
                AutoRestartFails, vars
<1>3. CASE TryAutoRestart
  <2>1. BackoffKept'
    BY <1>3 DEF BackoffInv, BackoffKept, TryAutoRestart
  <2>2. phase' = "backoff" => wait' = ExactDelay(Len(ages))
    BY <1>0, <1>3, DelayIsExact DEF TryAutoRestart
  <2>3. SleepsLongEnough'
    <3> SUFFICES ASSUME phase' = "backoff", ages # <<>>
                 PROVE  ages[Len(ages)] + wait' >= ExactDelay(Len(ages))
      BY <1>3 DEF SleepsLongEnough, TryAutoRestart
    <3>0. Len(ages) \in 1 .. Len(ages)
      BY <1>0 DEF TypeOK
    <3>1. ages[Len(ages)] \in Nat
      BY <1>0, <3>0, AgeType
    <3> QED
      BY <1>0, <1>a, <2>2, <3>1
  <2> QED
    BY <2>1, <2>3
<1>4. ASSUME AutoRestart \/ Restart PROVE SleepsLongEnough' /\ BackoffKept'
  <2>1. /\ phase' = "up"
        /\ RecordRestart
        /\ Len(ages) < CountBound
    BY <1>4 DEF AutoRestart, Restart
  <2>2. /\ \A i \in 1 .. Len(ages) : ages'[i] = ages[i]
        /\ ages'[Len(ages) + 1] = 0
    BY <1>0, <2>1, RecordTypeOK
  <2>3. ASSUME NEW i \in autos \ {1}, ages'[i - 1] < Horizon
        PROVE  ages'[i - 1] - ages'[i] >= ExactDelay(i - 1)
    <3>1. i \in 2 .. Len(ages)
      BY <1>0, <2>3 DEF TypeOK
    <3>2. ages'[i - 1] = ages[i - 1] /\ ages'[i] = ages[i]
      BY <2>2, <3>1
    <3> QED
      BY <2>3, <3>2 DEF BackoffInv, BackoffKept
  <2>4. ASSUME NEW i \in autos' \ autos, i # 1, ages'[i - 1] < Horizon
        PROVE  ages'[i - 1] - ages'[i] >= ExactDelay(i - 1)
    <3>1. AutoRestart /\ i = Len(ages) + 1
      BY <1>4, <2>4 DEF AutoRestart, Restart
    <3>2. Len(ages) \in 1 .. CountBound /\ i - 1 = Len(ages) /\ ages # <<>>
      BY <1>0, <2>4, <3>1 DEF TypeOK
    <3>3. ages'[i - 1] = ages[Len(ages)] /\ ages'[i] = 0
      BY <2>2, <3>1, <3>2
    <3>4. ages[Len(ages)] + wait >= ExactDelay(Len(ages)) /\ wait = 0
      BY <2>4, <3>1, <3>2, <3>3 DEF BackoffInv, SleepsLongEnough, AutoRestart
    <3>5. ages[Len(ages)] \in Nat
      BY <1>0, <3>2, AgeType
    <3> QED
      BY <1>a, <3>2, <3>3, <3>4, <3>5
  <2> QED
    BY <2>1, <2>3, <2>4 DEF SleepsLongEnough, BackoffKept
<1> QED
    BY <1>1, <1>2, <1>3, <1>4 DEF Next

LEMMA BackoffHolds == Spec => []BackoffInv
<1>1. Init => BackoffInv
    BY InitTypeOK DEF Init, BackoffInv, SleepsLongEnough, BackoffKept
<1> QED
    BY <1>1, NextBackoff, PTL DEF Spec

\* An automatic restart never comes sooner than the exponential backoff asks
\* for, whatever the clock, the user and the crashes do.
THEOREM BackoffIsKept == Spec => []BackoffKept
<1>1. BackoffInv => BackoffKept
    BY DEF BackoffInv
<1> QED
    BY BackoffHolds, <1>1, PTL

-----------------------------------------------------------------------------
(* The budget. *)

Recent == {i \in Restarts : ages[i] < Window}

\* The check made before the sleep still holds when the sleep ends.
BudgetInv ==
    /\ TypeOK
    /\ phase = "backoff" /\ stepped = -1 => Cardinality(Recent) < MaxRestarts

LEMMA RecentIsFinite ==
    ASSUME TypeOK PROVE IsFiniteSet(Recent) /\ Cardinality(Recent) \in Nat
<1>1. Restarts = 1 .. Len(ages) /\ Len(ages) \in Nat
    BY DEF TypeOK, Restarts
<1>2. IsFiniteSet(1 .. Len(ages))
    BY <1>1, FS_Interval
<1>3. IsFiniteSet(Recent)
    BY <1>1, <1>2, FS_Subset DEF Recent
<1> QED
    BY <1>3, FS_CardinalityType

\* The wall clock and a stopwatch agree while nobody sets the clock.
LEMMA WallClockIsTrue ==
    ASSUME TypeOK, stepped = -1 PROVE CountRecent = Cardinality(Recent)
<1>1. \A i \in Restarts : WallAge(i) = ages[i] /\ ages[i] \in Nat
  <2>1. Restarts = 1 .. Len(ages)
    BY DEF TypeOK, Restarts
  <2> QED
    BY <2>1, AgeType DEF WallAge
<1>2. {i \in Restarts : 0 <= WallAge(i) /\ WallAge(i) < Window} = Recent
    BY <1>1, Bounds DEF Recent
<1> QED
    BY <1>2 DEF CountRecent

\* A second takes restarts out of the window and puts none in.
LEMMA TickSlides ==
    ASSUME TypeOK, Tick
    PROVE  Cardinality(Recent') <= Cardinality(Recent) /\ Cardinality(Recent') \in Nat
<1>0. TypeOK /\ IsFiniteSet(Recent) /\ Cardinality(Recent) \in Nat
    BY RecentIsFinite
<1>1. /\ Restarts' = Restarts /\ Restarts = 1 .. Len(ages)
      /\ \A i \in 1 .. Len(ages) : ages'[i] = LeastOf(ages[i] + 1, Horizon)
  BY <1>0, TickAges DEF Restarts, TypeOK
<1>2. Recent' \subseteq Recent
  <2> SUFFICES ASSUME NEW i \in Recent' PROVE i \in Recent
    OBVIOUS
  <2>1. i \in 1 .. Len(ages) /\ i \in Restarts /\ ages'[i] < Window
    BY <1>1 DEF Recent
  <2>2. ages[i] \in Nat
    BY <1>0, <2>1, AgeType
  <2>3. ages[i] < Window
    BY <1>1, <2>1, <2>2, Bounds DEF LeastOf
  <2> QED
    BY <2>1, <2>3 DEF Recent
<1>3. Cardinality(Recent') <= Cardinality(Recent) /\ Cardinality(Recent') \in Nat
  BY <1>0, <1>2, FS_Subset, FS_CardinalityType
<1> QED
    BY <1>3

LEMMA NextBudget ==
    ASSUME BudgetInv, [Next]_vars PROVE BudgetInv'
<1>0. TypeOK /\ TypeOK' /\ IsFiniteSet(Recent) /\ Cardinality(Recent) \in Nat
    BY NextTypeOK, RecentIsFinite DEF BudgetInv
<1>1. CASE Tick
  <2>3. Cardinality(Recent') <= Cardinality(Recent) /\ Cardinality(Recent') \in Nat
    BY <1>0, <1>1, TickSlides
  <2> QED
    BY <1>0, <1>1, <2>3, Bounds DEF BudgetInv, Tick
<1>2. CASE ClockStepsBack
  <2>1. stepped' # -1
    BY <1>0, <1>2 DEF ClockStepsBack, TypeOK
  <2> QED
    BY <1>0, <2>1 DEF BudgetInv
<1>3. CASE Crash \/ AutoRestartFails \/ AutoRestart \/ Restart
    BY <1>0, <1>3 DEF BudgetInv, Crash, AutoRestartFails, AutoRestart, Restart
<1>4. CASE TryAutoRestart
  <2>1. Recent' = Recent /\ (stepped = -1 => CountRecent = Cardinality(Recent))
    BY <1>0, <1>4, WallClockIsTrue DEF TryAutoRestart, Recent, Restarts
  <2> QED
    BY <1>0, <1>4, <2>1 DEF BudgetInv, TryAutoRestart, ShouldRestart
<1>5. CASE UNCHANGED vars
    BY <1>0, <1>5 DEF BudgetInv, vars, Recent, Restarts
<1> QED
    BY <1>1, <1>2, <1>3, <1>4, <1>5 DEF Next

\* What an automatic restart spends is what the check before its sleep left.
LEMMA SpendsOne ==
    ASSUME BudgetInv, AutoRestart, stepped = -1 PROVE TrueRecent' <= MaxRestarts
<1>0. /\ TypeOK /\ IsFiniteSet(Recent) /\ Cardinality(Recent) \in Nat
      /\ Cardinality(Recent) < MaxRestarts
    BY RecentIsFinite DEF BudgetInv, AutoRestart
<1>1. /\ Len(ages') = Len(ages) + 1 /\ ages' \in Seq(0 .. Horizon)
      /\ \A i \in 1 .. Len(ages) : ages'[i] = ages[i]
    BY <1>0, RecordTypeOK DEF AutoRestart
<1>2. Recent' \subseteq Recent \cup {Len(ages) + 1}
  <2> SUFFICES ASSUME NEW i \in Recent', i # Len(ages) + 1 PROVE i \in Recent
    OBVIOUS
  <2>1. Len(ages) \in Nat /\ Restarts = 1 .. Len(ages) /\ Restarts' = 1 .. Len(ages) + 1
    BY <1>0, <1>1 DEF TypeOK, Restarts
  <2>2. i \in 1 .. Len(ages) /\ ages'[i] < Window
    BY <2>1 DEF Recent
  <2> QED
    BY <1>1, <2>1, <2>2 DEF Recent
<1>3. /\ IsFiniteSet(Recent \cup {Len(ages) + 1})
      /\ Cardinality(Recent \cup {Len(ages) + 1}) <= Cardinality(Recent) + 1
  <2> DEFINE new == Len(ages) + 1
  <2> HIDE DEF new
  <2>1. /\ IsFiniteSet(Recent \cup {new})
        /\ \/ Cardinality(Recent \cup {new}) = Cardinality(Recent)
           \/ Cardinality(Recent \cup {new}) = Cardinality(Recent) + 1
    BY <1>0, FS_AddElement
  <2>2. Cardinality(Recent \cup {new}) <= Cardinality(Recent) + 1
    BY <1>0, <2>1
  <2> QED
    BY <2>1, <2>2 DEF new
<1>4. /\ Cardinality(Recent') <= Cardinality(Recent \cup {Len(ages) + 1})
      /\ Cardinality(Recent') \in Nat
      /\ Cardinality(Recent \cup {Len(ages) + 1}) \in Nat
    BY <1>2, <1>3, FS_Subset, FS_CardinalityType
<1>5. TrueRecent' = Cardinality(Recent')
    BY DEF TrueRecent, Recent
<1> QED
    BY <1>0, <1>3, <1>4, <1>5, Bounds

\* While nobody has set the wall clock back, no automatic restart overdraws the
\* budget, although it is checked before a sleep during which the window moves.
THEOREM BudgetIsKept == Spec => BudgetKept
<1>1. Init => BudgetInv
    BY InitTypeOK DEF Init, BudgetInv
<1>2. BudgetInv /\ [Next]_vars => BudgetInv'
    BY NextBudget
<1>3. BudgetInv /\ [Next]_vars => [AutoRestart /\ stepped = -1 => TrueRecent' <= MaxRestarts]_vars
    BY SpendsOne
<1> QED
    BY <1>1, <1>2, <1>3, PTL DEF Spec, BudgetKept

-----------------------------------------------------------------------------
(* A limit out of reach.                                                      *)

\* No restart waits less than one before it would.
LEMMA DelaysGrow ==
    ASSUME NEW m \in 0 .. CountBound, NEW n \in 0 .. CountBound, m <= n
    PROVE  ExactDelay(m) <= ExactDelay(n)
<1> DEFINE Smaller == {k \in 0 .. CountBound : m <= k /\ ExactDelay(k) < ExactDelay(m)}
<1>1. Smaller = {}
  <2> SUFFICES ASSUME Smaller # {} PROVE FALSE
    OBVIOUS
  <2>1. Smaller \in SUBSET Nat
    BY Bounds
  <2>2. PICK k \in Smaller : \A l \in Smaller : k <= l
    BY <2>1, LeastOne
  <2>3. k \in 0 .. CountBound /\ m <= k /\ ExactDelay(k) < ExactDelay(m)
    OBVIOUS
  <2>4. ExactDelay(m) \in Nat /\ ExactDelay(k) \in Nat
    BY <2>3, ExactDelayType, Bounds
  <2>5. k # m
    BY <2>3, <2>4
  <2>6. k - 1 \in 0 .. CountBound - 1 /\ k - 1 \in 0 .. CountBound /\ m <= k - 1
    BY <2>3, <2>5, Bounds
  <2>7. k - 1 \notin Smaller
    BY <2>2, <2>6
  <2>8. ExactDelay(k - 1) \in Nat /\ ExactDelay(m) <= ExactDelay(k - 1)
    BY <2>4, <2>6, <2>7, ExactDelayType, Bounds
  <2>9. ExactDelay(k - 1) <= ExactDelay(k)
    BY <2>6, DelayGrows
  <2> QED
    BY <2>3, <2>4, <2>8, <2>9
<1>2. ExactDelay(m) \in Nat /\ ExactDelay(n) \in Nat
    BY ExactDelayType, Bounds
<1> QED
    BY <1>1, <1>2

\* What Delays is: the recursion has a solution.
LEMMA DelaysAddUp ==
    \A n \in 0 .. MaxRestarts :
        Delays[n] = IF n = 0 THEN 0 ELSE Delays[n - 1] + ExactDelay(n)
<1> DEFINE Adds(f, k) == f = [n \in 0 .. k |-> IF n = 0 THEN 0 ELSE f[n - 1] + ExactDelay(n)]
           Unsolved == {k \in Nat : ~ \E f : Adds(f, k)}
<1>1. Unsolved = {}
  <2> SUFFICES ASSUME Unsolved # {} PROVE FALSE
    OBVIOUS
  <2>1. PICK k \in Unsolved : \A l \in Unsolved : k <= l
    BY LeastOne
  <2>2. k # 0
    <3>1. Adds([n \in 0 .. 0 |-> 0], 0)
      OBVIOUS
    <3> QED
      BY <2>1, <3>1
  <2>a. k \in Nat
    OBVIOUS
  <2>3. k \in Nat /\ k - 1 \in Nat /\ k - 1 \notin Unsolved
    <3> HIDE DEF Unsolved
    <3> QED
      BY <2>1, <2>2, <2>a
  <2>4. PICK f : Adds(f, k - 1)
    BY <2>3
  <2> DEFINE g == [n \in 0 .. k |-> IF n = k THEN f[k - 1] + ExactDelay(k) ELSE f[n]]
  <2>5. \A n \in 0 .. k - 1 : f[n] = IF n = 0 THEN 0 ELSE f[n - 1] + ExactDelay(n)
    BY <2>4
  <2>6. \A n \in 0 .. k : g[n] = IF n = 0 THEN 0 ELSE g[n - 1] + ExactDelay(n)
    <3> TAKE n \in 0 .. k
    <3>1. CASE n = k
      BY <2>2, <2>3, <3>1
    <3>2. CASE n # k
      <4>1. n \in 0 .. k - 1
        BY <2>3, <3>2
      <4>2. n # 0 => n - 1 \in 0 .. k /\ n - 1 # k
        BY <2>3, <4>1
      <4> QED
        BY <2>5, <3>2, <4>1, <4>2
    <3> QED
      BY <3>1, <3>2
  <2>7. Adds(g, k)
    BY <2>6
  <2> QED
    BY <2>1, <2>7
<1>2. \E f : Adds(f, MaxRestarts)
    BY <1>1, Bounds
<1>3. Adds(Delays, MaxRestarts)
    BY <1>2 DEF Delays
<1> HIDE DEF Delays
<1> QED
    BY <1>3

\* Two distances one after the other are at least what each is known to be.
LEMMA GapsAddUp ==
    ASSUME NEW x \in Nat, NEW y \in Nat, NEW z \in Nat,
           NEW d \in Nat, NEW e \in Nat, NEW f \in Nat,
           x - y >= d, y - z >= f, e <= f
    PROVE  x - z >= d + e
    OBVIOUS

\* When crashes alone restart it, the k restarts after one that is still in the
\* window came after k delays that grow, the first of them at least the first.
LEMMA DelaysPass ==
    ASSUME TypeOK, BackoffKept, autos = Restarts,
           NEW first \in 1 .. Len(ages), ages[first] < Window,
           NEW k \in 0 .. MaxRestarts, first + k <= Len(ages)
    PROVE  Delays[k] \in Nat /\ ages[first] - ages[first + k] >= Delays[k]
<1> DEFINE Holds(n) == Delays[n] \in Nat /\ ages[first] - ages[first + n] >= Delays[n]
           Wrong == {n \in 0 .. k : ~Holds(n)}
<1>a. ages \in Seq(0 .. Horizon) /\ Len(ages) <= CountBound
    BY DEF TypeOK
<1>b. \A i \in 1 .. Len(ages) : ages[i] \in Nat
    BY AgeType
<1>c. Restarts = 1 .. Len(ages) /\ Len(ages) \in Nat
    BY <1>a DEF Restarts
<1>d. k \in Nat /\ MaxRestarts \in Nat /\ CountBound \in Nat
    BY Bounds
<1>0. /\ Len(ages) \in 0 .. CountBound /\ k \in Nat /\ MaxRestarts \in Nat /\ CountBound \in Nat
      /\ \A i \in 1 .. Len(ages) : ages[i] \in Nat
      /\ Restarts = 1 .. Len(ages)
    BY <1>a, <1>b, <1>c, <1>d
<1>1. Wrong = {}
  <2> SUFFICES ASSUME Wrong # {} PROVE FALSE
    OBVIOUS
  <2>1. Wrong \in SUBSET Nat
    BY <1>0
  <2>2. PICK n \in Wrong : \A m \in Wrong : n <= m
    BY <2>1, LeastOne
  <2>3. n \in 0 .. k /\ ~Holds(n)
    OBVIOUS
  <2>4. n # 0
    <3>1. Delays[0] = 0
      BY <1>0, DelaysAddUp
    <3>2. first + 0 = first /\ ages[first] \in Nat
      BY <1>0
    <3>3. Holds(0)
      BY <3>1, <3>2
    <3> QED
      BY <2>3, <3>3
  <2> DEFINE last == first + n
  <2>5. n - 1 \in 0 .. k /\ n - 1 \notin Wrong
    <3>1. n - 1 \in 0 .. k
      BY <1>0, <2>3, <2>4
    <3> HIDE DEF Wrong
    <3> QED
      BY <1>0, <2>2, <2>3, <3>1
  <2>6. Holds(n - 1)
    BY <2>5
  <2>7. last \in 1 .. Len(ages) /\ last - 1 \in 1 .. Len(ages) /\ last - 1 = first + (n - 1) /\ last # 1
    BY <1>0, <2>3, <2>4
  <2>8. Delays[n - 1] \in Nat /\ ages[first] - ages[last - 1] >= Delays[n - 1]
    BY <2>6, <2>7
  <2>9. ages[last - 1] < Horizon
    <3> HIDE DEF last
    <3>1. ages[first] \in Nat /\ ages[last - 1] \in Nat
      BY <1>0, <2>7
    <3>2. ages[last - 1] <= ages[first]
      BY <2>8, <3>1
    <3> QED
      BY <3>1, <3>2, Bounds DEF Horizon
  <2>10. ages[last - 1] - ages[last] >= ExactDelay(last - 1)
    <3>1. autos = 1 .. Len(ages)
      BY <1>c
    <3> HIDE DEF last
    <3>2. last \in autos \ {1}
      BY <2>7, <3>1
    <3> QED
      BY <2>9, <3>2 DEF BackoffKept
  <2>11. /\ n \in 0 .. CountBound /\ last - 1 \in 0 .. CountBound /\ n <= last - 1
         /\ n \in 0 .. MaxRestarts
    BY <1>0, <2>3, <2>7
  <2>12. ExactDelay(n) <= ExactDelay(last - 1) /\ ExactDelay(n) \in Nat /\ ExactDelay(last - 1) \in Nat
    BY <2>11, DelaysGrow, ExactDelayType, Bounds
  <2>13. Delays[n] = Delays[n - 1] + ExactDelay(n)
    BY <2>4, <2>11, DelaysAddUp
  <2>14. ages[first] \in Nat /\ ages[last - 1] \in Nat /\ ages[last] \in Nat
    BY <1>0, <2>7
  <2>15. Delays[n] \in Nat /\ ages[first] - ages[last] >= Delays[n]
    <3> HIDE DEF last
    <3>1. Delays[n - 1] + ExactDelay(n) \in Nat
      BY <2>8, <2>12
    <3>2. ages[first] - ages[last] >= Delays[n - 1] + ExactDelay(n)
      BY <2>8, <2>10, <2>12, <2>14, GapsAddUp
    <3> QED
      BY <2>13, <3>1, <3>2
  <2> QED
    BY <2>3, <2>15
<1>2. k \in 0 .. k
    BY <1>0
<1>3. Holds(k)
    BY <1>1, <1>2
<1> QED
    BY <1>3

\* The restarts from the first that is still in the window on are as many as
\* are counted, or more.
LEMMA RecentAreLast ==
    ASSUME TypeOK, NEW first \in Recent, \A i \in Recent : first <= i
    PROVE  Cardinality(Recent) <= Len(ages) - first + 1
<1>1. Restarts = 1 .. Len(ages) /\ Len(ages) \in Nat /\ first \in 1 .. Len(ages)
    BY DEF TypeOK, Restarts, Recent
<1>2. Recent \subseteq first .. Len(ages)
    BY <1>1 DEF Recent
<1>3. IsFiniteSet(first .. Len(ages)) /\ Cardinality(first .. Len(ages)) = Len(ages) - first + 1
    BY <1>1, FS_Interval
<1> QED
    BY <1>2, <1>3, FS_Subset

\* Crashes alone never reach the limit where the backoff fills the window before:
\* the oldest restart that is counted would be older than the window.
THEOREM LimitIsOutOfReach == Spec => []BudgetOutOfReach
<1>1. ASSUME BackoffInv PROVE BudgetOutOfReach
  <2> SUFFICES ASSUME autos = Restarts, stepped = -1, MaxRestarts > 0,
                      Delays[MaxRestarts - 1] >= Window, ~(CountRecent < MaxRestarts)
               PROVE  FALSE
    BY DEF BudgetOutOfReach
  <2>1. TypeOK /\ BackoffKept
    BY <1>1 DEF BackoffInv
  <2>2. /\ CountRecent = Cardinality(Recent) /\ Cardinality(Recent) \in Nat
        /\ Cardinality(Recent) >= MaxRestarts
    BY <2>1, WallClockIsTrue, RecentIsFinite, Bounds
  <2>3. Recent # {}
    BY <2>2, FS_EmptySet
  <2>4. Recent \in SUBSET Nat
    BY <2>1 DEF Recent, Restarts, TypeOK
  <2>5. PICK first \in Recent : \A i \in Recent : first <= i
    BY <2>3, <2>4, LeastOne
  <2>6. first \in 1 .. Len(ages) /\ ages[first] < Window /\ Len(ages) \in Nat
    BY <2>1 DEF Recent, Restarts, TypeOK
  <2>7. MaxRestarts <= Len(ages) - first + 1
    BY <2>1, <2>2, <2>5, <2>6, RecentAreLast, Bounds
  <2> DEFINE k == MaxRestarts - 1
  <2>8. k \in 0 .. MaxRestarts /\ first + k \in 1 .. Len(ages)
    BY <2>6, <2>7, Bounds
  <2>9. Delays[k] \in Nat /\ ages[first] - ages[first + k] >= Delays[k]
    BY <2>1, <2>6, <2>8, DelaysPass
  <2>10. ages[first] \in Nat /\ ages[first + k] \in Nat
    BY <2>1, <2>6, <2>8, AgeType
  <2> QED
    BY <2>6, <2>9, <2>10, Bounds
<1> QED
    BY BackoffHolds, <1>1, PTL

-----------------------------------------------------------------------------
(* The budget as a promise. *)

\* The restarts that the wall clock counts.
Counted == {i \in Restarts : 0 <= WallAge(i) /\ WallAge(i) < Window}

LEMMA CountedIsFinite ==
    ASSUME TypeOK PROVE IsFiniteSet(Counted) /\ CountRecent \in Nat
<1>1. Restarts = 1 .. Len(ages) /\ Len(ages) \in Nat
    BY DEF TypeOK, Restarts
<1>2. IsFiniteSet(1 .. Len(ages))
    BY <1>1, FS_Interval
<1>3. IsFiniteSet(Counted)
    BY <1>1, <1>2, FS_Subset DEF Counted
<1> QED
    BY <1>3, FS_CardinalityType DEF CountRecent, Counted

\* A restart counts at once, and nothing else with it.
LEMMA RecordCounts ==
    ASSUME TypeOK, Len(ages) < CountBound, RecordRestart, stepped' = stepped
    PROVE  CountRecent' = CountRecent + 1
<1> DEFINE new == Len(ages) + 1
<1>1. /\ Len(ages) \in Nat /\ Restarts = 1 .. Len(ages) /\ Restarts' = 1 .. new
      /\ \A i \in 1 .. Len(ages) : ages'[i] = ages[i]
      /\ ages'[new] = 0 /\ stepped \in -1 .. Len(ages)
    BY RecordTypeOK DEF TypeOK, Restarts
<1>2. \A i \in 1 .. Len(ages) : WallAge(i)' = WallAge(i)
    BY <1>1 DEF WallAge
<1>3. \A i \in {new} : WallAge(i)' = 0
    BY <1>1 DEF WallAge
<1>4. Counted' = Counted \cup {new} /\ new \notin Counted
    BY <1>1, <1>2, <1>3, Bounds DEF Counted
<1> HIDE DEF new
<1>5. Cardinality(Counted') = Cardinality(Counted) + 1
    BY <1>4, CountedIsFinite, FS_AddElement
<1> QED
    BY <1>5 DEF CountRecent, Counted

\* What is known of the count in a state of the policy, and so after a step.
Tally == CountRecent \in Nat /\ (stepped = -1 => CountRecent = Cardinality(Recent))

LEMMA TallyHolds == TypeOK => Tally
BY CountedIsFinite, WallClockIsTrue DEF Tally

LEMMA TallyNext == TypeOK' => Tally'
BY TallyHolds, PTL

\* An action of the policy is one of the budget, or nothing that it shows.
LEMMA BudgetStep ==
    ASSUME TypeOK, [Next]_vars
    PROVE  [Budget!Next]_Budget!vars
<1> USE DEF Spent, Granted, Entries
<1>0. CountRecent \in Nat /\ CountRecent' \in Nat
    BY NextTypeOK, TallyHolds, TallyNext DEF Tally
<1>1. CASE Tick
  <2>1. /\ Spent' \in [Entries -> Nat]
        /\ UNCHANGED <<Granted, stepped>>
    BY <1>0, <1>1 DEF Tick
  <2>2. stepped = -1 => CountRecent' <= CountRecent
    BY <1>1, <2>1, NextTypeOK, TickSlides, TallyHolds, TallyNext DEF Tally
  <2>3. CASE stepped = -1
    BY <2>1, <2>2, <2>3 DEF Budget!Next, Budget!WindowSlides
  <2>4. CASE stepped # -1
    BY <2>1, <2>4 DEF Budget!Next, Budget!ClockIsOff
  <2> QED
    BY <2>3, <2>4
<1>2. CASE ClockStepsBack
  <2>1. /\ Spent' \in [Entries -> Nat] /\ UNCHANGED Granted /\ stepped' # -1
    BY <1>0, <1>2 DEF ClockStepsBack, TypeOK
  <2> QED
    BY <2>1 DEF Budget!Next, Budget!ClockIsOff
<1>3. CASE Crash
  <2>1. CountRecent' = CountRecent /\ Granted' = Granted
    BY <1>3 DEF Crash, CountRecent, Restarts, WallAge
  <2> QED
    BY <1>3, <2>1 DEF Crash, Budget!vars
<1>4. CASE TryAutoRestart
  <2>1. CountRecent' = CountRecent /\ stepped' = stepped
    BY <1>4 DEF TryAutoRestart, CountRecent, Restarts, WallAge
  <2>2. CASE ShouldRestart
    <3>1. Budget!Grant(1)
      BY <1>4, <2>1, <2>2 DEF TryAutoRestart, ShouldRestart, Budget!Grant
    <3> QED
      BY <3>1 DEF Budget!Next
  <2>3. CASE ~ShouldRestart
    BY <1>4, <2>1, <2>3 DEF TryAutoRestart, Budget!vars
  <2> QED
    BY <2>2, <2>3
<1>5. CASE AutoRestart
  <2>1. CountRecent' = CountRecent + 1
    BY <1>5, RecordCounts DEF AutoRestart
  <2>2. Budget!AutoRestarts(1)
    BY <1>5, <2>1 DEF AutoRestart, Budget!AutoRestarts, Budget!RestartsOnce
  <2> QED
    BY <2>2 DEF Budget!Next
<1>6. CASE AutoRestartFails
  <2>1. CountRecent' = CountRecent
    BY <1>6 DEF AutoRestartFails, CountRecent, Restarts, WallAge
  <2>2. Budget!GivesUp(1)
    BY <1>6, <2>1 DEF AutoRestartFails, Budget!GivesUp
  <2> QED
    BY <2>2 DEF Budget!Next
<1>7. CASE Restart
  <2>1. CountRecent' = CountRecent + 1
    BY <1>7, RecordCounts DEF Restart
  <2>2. Budget!UserRestarts(1)
    BY <1>7, <2>1 DEF Restart, Budget!UserRestarts, Budget!RestartsOnce
  <2> QED
    BY <2>2 DEF Budget!Next
<1>8. CASE UNCHANGED vars
  <2>1. CountRecent' = CountRecent
    BY <1>8 DEF vars, CountRecent, Restarts, WallAge
  <2> QED
    BY <1>8, <2>1 DEF vars, Budget!vars
<1> QED
    BY <1>1, <1>2, <1>3, <1>4, <1>5, <1>6, <1>7, <1>8 DEF Next

LEMMA BudgetInit == Init => Budget!Init
<1> SUFFICES ASSUME Init PROVE Budget!Init
    OBVIOUS
<1>1. Counted = {}
    BY DEF Init, Counted, Restarts
<1>2. CountRecent = 0
    BY <1>1, FS_EmptySet DEF CountRecent, Counted
<1> QED
    BY <1>2 DEF Init, Budget!Init, Spent, Granted, Entries

\* The clocked policy keeps what RestartBudget promises: from a check of the
\* budget to the restart that it grants the window only slides, until somebody
\* sets the wall clock back.
THEOREM PolicyKeepsBudget == Spec => KeepsBudget
<1>1. Spec => []TypeOK
    BY TypeCorrectness
<1>2. TypeOK /\ [Next]_vars => [Budget!Next]_Budget!vars
    BY BudgetStep
<1> QED
    BY BudgetInit, <1>1, <1>2, PTL DEF Spec, KeepsBudget, Budget!Spec

\* What RestartBudget promises is enough: while the clock is trusted every
\* restart that is still slept for has room in the window.
THEOREM SleepersHaveRoom == KeepsBudget => []Budget!GrantsHaveRoom
<1> DEFINE Numbers == Spent \in [Entries -> Nat]
<1>1. Budget!Init => Numbers /\ Budget!GrantsHaveRoom
    BY DEF Budget!Init, Budget!GrantsHaveRoom
<1>2. Numbers /\ Budget!GrantsHaveRoom /\ [Budget!Next]_Budget!vars
         => Numbers' /\ Budget!GrantsHaveRoom'
  <2> SUFFICES ASSUME Numbers, Budget!GrantsHaveRoom, [Budget!Next]_Budget!vars
               PROVE  Numbers' /\ Budget!GrantsHaveRoom'
    OBVIOUS
  <2> USE Bounds DEF Budget!GrantsHaveRoom
  <2> HIDE DEF Spent, Granted
  <2>1. CASE UNCHANGED Budget!vars
    BY <2>1 DEF Budget!vars
  <2>2. ASSUME NEW e \in Entries, Budget!Grant(e) \/ Budget!GivesUp(e)
        PROVE  Numbers' /\ Budget!GrantsHaveRoom'
    BY <2>2 DEF Budget!Grant, Budget!GivesUp
  <2>3. ASSUME NEW e \in Entries, Budget!AutoRestarts(e) \/ Budget!UserRestarts(e)
        PROVE  Numbers' /\ Budget!GrantsHaveRoom'
    <3>1. Spent' = [Spent EXCEPT ![e] = @ + 1] /\ e \notin Granted'
      BY <2>3 DEF Budget!AutoRestarts, Budget!UserRestarts, Budget!RestartsOnce
    <3>2. Granted' \subseteq Granted /\ (stepped' = -1 <=> stepped = -1)
      BY <2>3 DEF Budget!AutoRestarts, Budget!UserRestarts
    <3> QED
      BY <3>1, <3>2 DEF Granted
  <2>4. CASE Budget!WindowSlides
    BY <2>4 DEF Budget!WindowSlides, Granted
  <2>5. CASE Budget!ClockIsOff
    BY <2>5 DEF Budget!ClockIsOff
  <2> QED
    BY <2>1, <2>2, <2>3, <2>4, <2>5 DEF Budget!Next
<1> QED
    BY <1>1, <1>2, PTL DEF KeepsBudget, Budget!Spec

=============================================================================
