--------------------------- MODULE SchedulerProofs ---------------------------
(* The promises of SchedulerWatch, for any intervals, costs and screens. *)
EXTENDS SchedulerWatch, FiniteSetTheorems, SequenceTheorems, TLAPS

-----------------------------------------------------------------------------
(* Types.                                                                  *)

LEMMA Constants6 ==
  /\ Len(Rotation) = 6 /\ DOMAIN Rotation = 1..6
  /\ Tasks = {"Digests", "LockWaits", "Transactions", "MetadataLocks", "Innodb",
              "Replication"}
  /\ \A i \in 1..6 : Rotation[i] \in Tasks
<1>1. Len(Rotation) = 6 /\ DOMAIN Rotation = 1..6
  BY DEF Rotation
<1>2. 1..6 = {1, 2, 3, 4, 5, 6}
  OBVIOUS
<1>3. Tasks = {Rotation[1], Rotation[2], Rotation[3], Rotation[4], Rotation[5], Rotation[6]}
  BY <1>1, <1>2 DEF Tasks
<1> QED
  BY <1>1, <1>3 DEF Rotation, Tasks

\* The sum of a window of costs is a number.
LEMMA TotalType ==
  ASSUME NEW s \in Seq(Nat) PROVE Total(s) \in Nat
<1>1. \A i \in Nat \ {0} : Cost(s, i) \in Nat
  BY DEF Cost
<1> QED
  BY <1>1 DEF Total

\* Append, entry by entry.
LEMMA Appended ==
  ASSUME NEW s \in Seq(Nat), NEW c \in Nat
  PROVE  /\ Append(s, c) \in Seq(Nat) /\ Len(Append(s, c)) = Len(s) + 1
         /\ \A i \in 1..Len(s) + 1 : Append(s, c)[i] = IF i = Len(s) + 1 THEN c ELSE s[i]
<1>1. Append(s, c) \in Seq(Nat) /\ Len(Append(s, c)) = Len(s) + 1
  BY AppendProperties
<1>2. \A i \in 1..Len(s) : Append(s, c)[i] = s[i]
  BY AppendProperties
<1>3. Append(s, c)[Len(s) + 1] = c
  BY AppendProperties
<1>4. Len(s) \in Nat
  BY LenProperties
<1> QED
  BY <1>1, <1>2, <1>3, <1>4

\* A window stays a window.
LEMMA PushedType ==
  ASSUME NEW s \in Seq(Nat), Len(s) <= 5, NEW c \in Nat
  PROVE  /\ Pushed(s, c) \in Seq(Nat) /\ Len(Pushed(s, c)) <= 5
         /\ Len(s) = 5 => Len(Pushed(s, c)) = 5
         /\ Len(s) # 5 => Len(Pushed(s, c)) = Len(s) + 1
         /\ \A i \in 1..Len(Pushed(s, c)) :
              Pushed(s, c)[i] = IF i = Len(Pushed(s, c)) THEN c
                                ELSE IF Len(s) = 5 THEN s[i + 1] ELSE s[i]
<1>1. CASE Len(s) = 5
  <2>1. s # <<>>
    <3>1. Len(<<>>) = 0
      BY EmptySeq
    <3>2. s = <<>> => Len(s) = Len(<<>>)
      BY Zenon
    <3> QED
      BY <1>1, <3>1, <3>2
  <2> DEFINE u == Tail(s)
  <2>2. u \in Seq(Nat) /\ Len(u) = 4
    BY <1>1, <2>1, HeadTailProperties
  <2>3. \A i \in 1..Len(u) : u[i] = s[i + 1]
    BY <2>1, HeadTailProperties
  <2>4. Pushed(s, c) = Append(u, c)
    BY <1>1 DEF Pushed, Window
  <2> HIDE DEF u
  <2>5. Append(u, c) \in Seq(Nat) /\ Len(Append(u, c)) = 5
    <3>1. Append(u, c) \in Seq(Nat) /\ Len(Append(u, c)) = Len(u) + 1
      BY <2>2, AppendProperties
    <3> QED
      BY <2>2, <3>1
  <2>6. \A i \in 1..Len(u) + 1 : Append(u, c)[i] = IF i = Len(u) + 1 THEN c ELSE u[i]
    BY <2>2, Appended
  <2>7. ASSUME NEW i \in 1..5
        PROVE  Append(u, c)[i] = IF i = 5 THEN c ELSE s[i + 1]
    <3>1. i \in 1..Len(u) + 1 /\ (i # 5 => i \in 1..Len(u)) /\ Len(u) + 1 = 5
      BY <2>2
    <3>2. Append(u, c)[i] = IF i = Len(u) + 1 THEN c ELSE u[i]
      BY <2>6, <3>1
    <3>3. i # 5 => u[i] = s[i + 1]
      BY <2>3, <3>1
    <3> QED
      BY <3>1, <3>2, <3>3
  <2> QED
    BY <1>1, <2>4, <2>5, <2>7
<1>2. CASE Len(s) # 5
  <2>1. Pushed(s, c) = Append(s, c)
    BY <1>2 DEF Pushed, Window
  <2>2. PICK n \in Nat : n = Len(s)
    BY LenProperties
  <2>3. Len(s) + 1 <= 5
    BY <1>2, <2>2
  <2>4. /\ Append(s, c) \in Seq(Nat) /\ Len(Append(s, c)) = Len(s) + 1
        /\ \A i \in 1..Len(s) + 1 : Append(s, c)[i] = IF i = Len(s) + 1 THEN c ELSE s[i]
    BY Appended
  <2> QED
    BY <1>2, <2>1, <2>3, <2>4
<1> QED
  BY <1>1, <1>2

LEMMA AdjustedType ==
  ASSUME NEW b, NEW k \in {1, 2, 4, 8}, NEW sum, NEW n
  PROVE  Adjusted(b, k, sum, n) \in {1, 2, 4, 8}
<1>1. CASE Slow(b, k, sum, n)
  BY <1>1 DEF Adjusted, MaxBackoff
<1>2. CASE ~Slow(b, k, sum, n) /\ Quick(b, k, sum, n)
  <2>1. k > 1
    BY <1>2 DEF Quick
  <2>2. k \in {2, 4, 8}
    BY <2>1
  <2> QED
    BY <1>2, <2>2 DEF Adjusted
<1>3. CASE ~Slow(b, k, sum, n) /\ ~Quick(b, k, sum, n)
  BY <1>3 DEF Adjusted
<1> QED
  BY <1>1, <1>2, <1>3

\* The type invariant by the parts a step can disturb.
Switches == connected \in BOOLEAN /\ forced \in BOOLEAN /\ paused \in BOOLEAN
Costing  == /\ base \in Nat /\ base >= MinBase
            /\ recent \in Seq(Nat) /\ Len(recent) <= 5
            /\ backoff \in {1, 2, 4, 8}
Turning  == /\ needs \in SUBSET Flags
            /\ tick \in 0..4 /\ rotation \in 0..5
            /\ fetched \in Tasks \cup {"none"}
Watching == /\ passed \in [Tasks -> Nat] /\ lull \in Nat /\ calm \in Nat
            /\ trend \in {"flat", "up", "down"}

LEMMA TypeParts == SchedulerTypeOK <=> Switches /\ Costing /\ Turning /\ Watching
<1>1. 0..HeavyEvery-1 = 0..4 /\ 0..Len(Rotation)-1 = 0..5 /\ Window = 5
  BY Constants6 DEF HeavyEvery, Window
<1> QED
  BY <1>1, Zenon DEF SchedulerTypeOK, Types, Switches, Costing, Turning, Watching

\* What next_heavy leaves: a task that is wanted, and the rotation behind it.
LEMMA NextHeavyType ==
  ASSUME Switches, Turning, NextHeavy
  PROVE  /\ tick' \in 0..4 /\ rotation' \in 0..5
         /\ forced' \in BOOLEAN /\ fetched' \in Tasks \cup {"none"}
<1>1. tick' \in 0..4
  BY DEF Turning, NextHeavy, HeavyEvery
<1>2. forced' \in BOOLEAN
  BY Zenon DEF NextHeavy
<1>3. CASE Due /\ Wanted(needs) # {}
  <2>1. PICK k \in 0..5 : /\ Ahead(k) \in Wanted(needs)
                          /\ fetched' = Ahead(k)
                          /\ rotation' = (rotation + k + 1) % 6
    BY <1>3, Constants6 DEF NextHeavy
  <2>2. Wanted(needs) \subseteq Tasks
    BY DEF Wanted
  <2>3. rotation' \in 0..5
    BY <2>1 DEF Turning
  <2> QED
    BY <1>1, <1>2, <2>1, <2>2, <2>3
<1>4. CASE ~(Due /\ Wanted(needs) # {})
  BY <1>1, <1>2, <1>4 DEF NextHeavy, Turning
<1> QED
  BY <1>3, <1>4

LEMMA TypesInit == WatchInit => SchedulerTypeOK
<1> SUFFICES ASSUME WatchInit PROVE Switches /\ Costing /\ Turning /\ Watching
  BY TypeParts
<1>1. Switches
  BY DEF WatchInit, Init, Switches
<1>2. Costing
  <2>1. recent \in Seq(Nat) /\ Len(recent) <= 5
    BY EmptySeq DEF WatchInit, Init
  <2> QED
    BY <2>1, SchedulerAssumption DEF WatchInit, Init, AtLeast, Costing
<1>3. Turning
  BY DEF WatchInit, Init, DefaultNeeds, Flags, Turning
<1>4. Watching
  BY DEF WatchInit, NoneMissed, HeavyEvery, Watching
<1> QED
  BY <1>1, <1>2, <1>3, <1>4

LEMMA TypesNext == SchedulerTypeOK /\ [WatchNext]_allVars => SchedulerTypeOK'
<1> SUFFICES ASSUME SchedulerTypeOK, [WatchNext]_allVars PROVE SchedulerTypeOK'
  OBVIOUS
<1>t. Switches /\ Costing /\ Turning /\ Watching
  BY TypeParts
<1> DEFINE Goal == Switches' /\ Costing' /\ Turning' /\ Watching'
<1>1. ASSUME NEW ms \in Intervals, WatchConnect(ms) PROVE Goal
  <2>1. Switches'
    BY <1>1 DEF WatchConnect, Connect, Fresh, Switches
  <2>2. Costing'
    <3>1. recent' \in Seq(Nat) /\ Len(recent') <= 5
      BY <1>1, EmptySeq DEF WatchConnect, Connect, Fresh
    <3> QED
      BY <1>1, <3>1, SchedulerAssumption DEF WatchConnect, Connect, Fresh, AtLeast, Costing
  <2>3. Turning'
    BY <1>t, <1>1 DEF WatchConnect, Connect, Fresh, DefaultNeeds, Flags, Turning
  <2>4. Watching'
    BY <1>1 DEF WatchConnect, Restart, NoneMissed, HeavyEvery, Watching
  <2> QED
    BY <2>1, <2>2, <2>3, <2>4
<1>2. ASSUME NEW ms \in Intervals, WatchSetInterval(ms) PROVE Goal
  <2>1. Costing'
    BY <1>t, <1>2, SchedulerAssumption DEF WatchSetInterval, SetInterval, AtLeast, Costing
  <2>2. Switches' /\ Turning' /\ Watching'
    BY <1>t, <1>2 DEF WatchSetInterval, SetInterval, Restart, Switches, Turning, Watching
  <2> QED
    BY <2>1, <2>2
<1>3. ASSUME NEW n \in Screens, WatchSetNeeds(n) PROVE Goal
  <2>1. Switches'
    BY <1>t, <1>3 DEF WatchSetNeeds, SetNeeds, Switches
  <2>2. Costing' /\ Turning'
    BY <1>t, <1>3, SchedulerAssumption DEF WatchSetNeeds, SetNeeds, Costing, Turning
  <2>3. Watching'
    BY <1>t, <1>3 DEF WatchSetNeeds, NoneMissed, HeavyEvery, Watching
  <2> QED
    BY <2>1, <2>2, <2>3
<1>4. ASSUME WatchOther PROVE Goal
  <2>1. Switches'
    BY <1>t, <1>4 DEF WatchOther, Disconnect, SetPaused, ForceHeavy,
                      schedVars, Switches
  <2>2. Costing' /\ Turning' /\ Watching'
    BY <1>t, <1>4 DEF WatchOther, Disconnect, SetPaused, ForceHeavy,
                      schedVars, watchVars, Costing, Turning, Watching
  <2> QED
    BY <2>1, <2>2
<1>5. ASSUME NEW c \in Costs, WatchSample(c) PROVE Goal
  <2>1. c \in Nat
    BY SchedulerAssumption
  <2>2. /\ tick' \in 0..4 /\ rotation' \in 0..5
        /\ forced' \in BOOLEAN /\ fetched' \in Tasks \cup {"none"}
    BY <1>t, <1>5, NextHeavyType DEF WatchSample, Sample
  <2>3. Costing'
    <3>1. recent' \in Seq(Nat) /\ Len(recent') <= 5
      <4>1. recent \in Seq(Nat) /\ Len(recent) <= 5 /\ Len(recent) \in Nat
        BY <1>t, LenProperties DEF Costing
      <4>2. recent' = Pushed(recent, c)
        BY <1>5 DEF WatchSample, Sample, RecordSample
      <4> QED
        BY <2>1, <4>1, <4>2, PushedType
    <3>2. backoff' \in {1, 2, 4, 8}
      BY <1>t, <1>5, AdjustedType DEF WatchSample, Sample, RecordSample, Costing
    <3> QED
      BY <1>t, <1>5, <3>1, <3>2 DEF WatchSample, Sample, Costing
  <2>4. Switches' /\ Turning'
    BY <1>t, <1>5, <2>2, Zenon DEF WatchSample, Sample, Switches, Turning
  <2>5. Watching'
    BY <1>t, <1>5 DEF WatchSample, Least, Window, Watching
  <2> QED
    BY <2>3, <2>4, <2>5
<1>6. ASSUME UNCHANGED allVars PROVE Goal
  BY <1>t, <1>6 DEF allVars, vars, schedVars, watchVars, Switches, Costing, Turning, Watching
<1>7. Goal
  BY <1>1, <1>2, <1>3, <1>4, <1>5, <1>6 DEF WatchNext
<1>8. 0..HeavyEvery-1 = 0..4 /\ 0..Len(Rotation)-1 = 0..5 /\ Window = 5
  BY Constants6 DEF HeavyEvery, Window
<1> QED
  BY <1>7, <1>8, Zenon DEF SchedulerTypeOK, Types, Switches, Costing, Turning, Watching

\* The backoff is 1, 2, 4 or 8 and the window holds five costs at most, for
\* any interval and any cost: record_sample's ceiling and floor.
THEOREM SchedulerTypeCorrect == WatchSpec => []SchedulerTypeOK
  BY TypesInit, TypesNext, PTL DEF WatchSpec

-----------------------------------------------------------------------------
(* Backoff.                                                                *)

\* The gap between the two thresholds: an interval that was just doubled is not
\* halved on the same costs, and the other way round.
LEMMA Hysteresis ==
  ASSUME NEW b \in Nat, NEW k \in {1, 2, 4, 8}, NEW sum \in Nat, NEW n \in Nat
  PROVE  LET m == Adjusted(b, k, sum, n) IN
         /\ m > k => ~Quick(b, m, sum, n)
         /\ m < k => ~Slow(b, m, sum, n)
         /\ m > k => Slow(b, k, sum, n)
<1>1. PICK x \in Nat : x = b * n
  OBVIOUS
<1> DEFINE m == Adjusted(b, k, sum, n)
<1>2. CASE Slow(b, k, sum, n)
  <2>1. m = IF k * 2 > 8 THEN 8 ELSE k * 2
    BY <1>2 DEF Adjusted, MaxBackoff
  <2>2. m \in {2, 4, 8} /\ m <= 2 * k /\ m >= k
    BY <2>1
  <2>3. 2 * sum > x * k
    BY <1>1, <1>2 DEF Slow
  <2> HIDE DEF m
  <2>4. ~(8 * sum < x * m)
    BY <2>2, <2>3
  <2>5. ~Quick(b, m, sum, n)
    BY <1>1, <2>4 DEF Quick
  <2>6. ~(m < k)
    BY <2>2
  <2> QED
    BY <1>2, <2>5, <2>6 DEF m
<1>3. CASE ~Slow(b, k, sum, n) /\ Quick(b, k, sum, n)
  <2>1. m = k \div 2
    BY <1>3 DEF Adjusted
  <2>2. k > 1 /\ 8 * sum < x * k
    BY <1>1, <1>3 DEF Quick
  <2>3. m \in {1, 2, 4} /\ k = 2 * m
    BY <2>1, <2>2
  <2> HIDE DEF m
  <2>4. ~(2 * sum > x * m)
    BY <2>2, <2>3
  <2>5. ~Slow(b, m, sum, n)
    BY <1>1, <2>4 DEF Slow
  <2>6. ~(m > k)
    BY <2>3
  <2> QED
    BY <2>5, <2>6 DEF m
<1>4. CASE ~Slow(b, k, sum, n) /\ ~Quick(b, k, sum, n)
  BY <1>4 DEF Adjusted
<1> QED
  BY <1>2, <1>3, <1>4

\* Where the costs are all alike, the last move of the backoff was its last.
TrendInv ==
  /\ trend = "up" => ~Quick(base, backoff, Total(recent), Len(recent))
  /\ trend = "down" => ~Slow(base, backoff, Total(recent), Len(recent))

LEMMA TrendNext ==
  SchedulerTypeOK /\ TrendInv /\ [WatchNext]_allVars => TrendInv'
<1> SUFFICES ASSUME SchedulerTypeOK, TrendInv, [WatchNext]_allVars PROVE TrendInv'
  OBVIOUS
<1>t. Costing
  BY TypeParts
<1>1. ASSUME NEW ms \in Intervals, WatchConnect(ms) \/ WatchSetInterval(ms)
      PROVE  TrendInv'
  BY <1>1 DEF WatchConnect, WatchSetInterval, Restart, TrendInv
<1>2. ASSUME NEW n \in Screens, WatchSetNeeds(n) PROVE TrendInv'
  BY <1>2 DEF WatchSetNeeds, SetNeeds, TrendInv
<1>3. ASSUME WatchOther PROVE TrendInv'
  BY <1>3 DEF WatchOther, Disconnect, SetPaused, ForceHeavy, schedVars,
              watchVars, TrendInv
<1>4. ASSUME NEW c \in Costs, WatchSample(c) PROVE TrendInv'
  <2> DEFINE sum == Total(recent')
             n == Len(recent')
  <2>1. backoff' = Adjusted(base, backoff, sum, n) /\ base' = base
    BY <1>4 DEF WatchSample, Sample, RecordSample
  <2>2. recent' \in Seq(Nat)
    <3>1. c \in Nat /\ recent' = Pushed(recent, c)
      BY <1>4, SchedulerAssumption DEF WatchSample, Sample, RecordSample
    <3> QED
      BY <1>t, <3>1, PushedType DEF Costing
  <2>3. sum \in Nat /\ n \in Nat
    BY <2>2, TotalType, LenProperties
  <2> HIDE DEF sum, n
  <2>4. backoff' \in Nat /\ backoff \in Nat /\ base \in Nat /\ backoff \in {1, 2, 4, 8}
    <3>1. base \in Nat /\ backoff \in {1, 2, 4, 8}
      BY <1>t DEF Costing
    <3>2. Adjusted(base, backoff, sum, n) \in {1, 2, 4, 8}
      BY <2>3, <3>1, AdjustedType
    <3> QED
      BY <2>1, <3>1, <3>2
  <2>5. /\ backoff' > backoff => ~Quick(base, backoff', sum, n)
        /\ backoff' < backoff => ~Slow(base, backoff', sum, n)
    BY <2>1, <2>3, <2>4, Hysteresis
  <2>6. CASE trend' = "up"
    <3>1. backoff' > backoff
          \/ (trend = "up" /\ recent' = recent /\ backoff' = backoff)
      BY <1>4, <2>4, <2>6 DEF WatchSample
    <3> QED
      BY <2>1, <2>5, <2>6, <3>1 DEF TrendInv, sum, n
  <2>7. CASE trend' = "down"
    <3>1. backoff' < backoff
          \/ (trend = "down" /\ recent' = recent /\ backoff' = backoff)
      BY <1>4, <2>4, <2>7 DEF WatchSample
    <3> QED
      BY <2>1, <2>5, <2>7, <3>1 DEF TrendInv, sum, n
  <2> QED
    BY <2>6, <2>7 DEF TrendInv
<1>5. ASSUME UNCHANGED allVars PROVE TrendInv'
  BY <1>5 DEF allVars, vars, schedVars, watchVars, TrendInv
<1> QED
  BY <1>1, <1>2, <1>3, <1>4, <1>5 DEF WatchNext

LEMMA TrendStep ==
  ASSUME SchedulerTypeOK, TrendInv, [WatchNext]_allVars, Uniform(recent), recent' = recent
  PROVE  /\ trend = "up" => backoff' >= backoff
         /\ trend = "down" => backoff' <= backoff
<1>t. Costing
  BY TypeParts
<1>n. backoff \in Nat
  BY <1>t DEF Costing
<1>1. ASSUME NEW ms \in Intervals, WatchConnect(ms) PROVE FALSE
  <2>1. Len(recent) = 5 /\ recent = <<>>
    BY <1>1 DEF WatchConnect, Connect, Fresh, Uniform, Window
  <2> QED
    BY <2>1, EmptySeq
<1>2. ASSUME NEW c \in Costs, WatchSample(c)
      PROVE  /\ trend = "up" => backoff' >= backoff
             /\ trend = "down" => backoff' <= backoff
  <2> DEFINE sum == Total(recent)
             n == Len(recent)
  <2>1. backoff' = Adjusted(base, backoff, sum, n)
    BY <1>2 DEF WatchSample, Sample, RecordSample
  <2>2. sum \in Nat /\ n \in Nat /\ backoff \in {1, 2, 4, 8}
    BY <1>t, TotalType, LenProperties DEF Costing
  <2> HIDE DEF sum, n
  <2>3. ~Quick(base, backoff, sum, n) => backoff' >= backoff
    BY <2>1, <2>2 DEF Adjusted, MaxBackoff
  <2>4. ~Slow(base, backoff, sum, n) => backoff' <= backoff
    BY <2>1, <2>2 DEF Adjusted
  <2> QED
    BY <2>3, <2>4 DEF TrendInv, sum, n
<1>3. ASSUME UNCHANGED backoff
      PROVE  /\ trend = "up" => backoff' >= backoff
             /\ trend = "down" => backoff' <= backoff
  BY <1>n, <1>3
<1>4. ASSUME NEW ms \in Intervals, WatchSetInterval(ms) PROVE UNCHANGED backoff
  BY <1>4 DEF WatchSetInterval, SetInterval
<1>5. ASSUME NEW s \in Screens, WatchSetNeeds(s) PROVE UNCHANGED backoff
  BY <1>5 DEF WatchSetNeeds, SetNeeds
<1>6. ASSUME WatchOther \/ UNCHANGED allVars PROVE UNCHANGED backoff
  BY <1>6 DEF WatchOther, Disconnect, SetPaused, ForceHeavy, allVars, vars, schedVars
<1> QED
  BY <1>1, <1>2, <1>3, <1>4, <1>5, <1>6 DEF WatchNext

\* record_sample settles: whatever the configured interval, a server that takes
\* the same time for every sample is polled at one rate.
THEOREM BackoffSettles == WatchSpec => NoFlap
<1>1. WatchInit => TrendInv
  BY DEF WatchInit, TrendInv
<1>2. SchedulerTypeOK /\ TrendInv /\ [WatchNext]_allVars
        => [Uniform(recent) /\ recent' = recent =>
              /\ trend = "up" => backoff' >= backoff
              /\ trend = "down" => backoff' <= backoff]_allVars
  BY TrendStep
<1> QED
  BY <1>1, <1>2, TrendNext, SchedulerTypeCorrect, PTL DEF WatchSpec, NoFlap

\* The last calm costs of the window are below a quarter of the interval, and
\* each one beyond a full window has halved the backoff.
CalmInv ==
  /\ calm \in 0..7
  /\ calm > Len(recent) => Len(recent) = 5
  /\ \A i \in 1..Len(recent) : Len(recent) < calm + i => 4 * recent[i] < base
  /\ calm >= 5 => backoff \in {1, 2, 4}
  /\ calm >= 6 => backoff \in {1, 2}
  /\ calm >= 7 => backoff = 1

\* Five naturals, each below a quarter of a bound.
LEMMA FiveQuarters ==
  ASSUME NEW b \in Nat, NEW v \in Nat, NEW w \in Nat, NEW x \in Nat, NEW y \in Nat,
         NEW z \in Nat,
         4 * v < b, 4 * w < b, 4 * x < b, 4 * y < b, 4 * z < b
  PROVE  v + w + x + y + z \in Nat /\ 4 * (v + w + x + y + z) < 5 * b
OBVIOUS

\* Five costs below a quarter of the interval halve every backoff.
LEMMA CheapWindow ==
  ASSUME NEW b \in Nat, NEW k \in {1, 2, 4, 8}, NEW s \in Seq(Nat), Len(s) = 5,
         \A i \in 1..5 : 4 * s[i] < b
  PROVE  Adjusted(b, k, Total(s), Len(s)) = IF k = 1 THEN 1 ELSE k \div 2
<1>1. ASSUME NEW i \in 1..5 PROVE s[i] \in Nat /\ 4 * s[i] < b
  BY LenProperties
<1>2. Total(s) = s[1] + s[2] + s[3] + s[4] + s[5]
  BY DEF Total, Cost
<1>3. Total(s) \in Nat /\ 4 * Total(s) < 5 * b
  <2>1. s[1] \in Nat /\ 4 * s[1] < b
    BY <1>1
  <2>2. s[2] \in Nat /\ 4 * s[2] < b
    BY <1>1
  <2>3. s[3] \in Nat /\ 4 * s[3] < b
    BY <1>1
  <2>4. s[4] \in Nat /\ 4 * s[4] < b
    BY <1>1
  <2>5. s[5] \in Nat /\ 4 * s[5] < b
    BY <1>1
  <2>6. LET t == s[1] + s[2] + s[3] + s[4] + s[5] IN t \in Nat /\ 4 * t < 5 * b
    BY <2>1, <2>2, <2>3, <2>4, <2>5, FiveQuarters
  <2> QED
    BY <1>2, <2>6
<1> DEFINE sum == Total(s)
<1> HIDE DEF sum
<1>4. ~Slow(b, k, sum, 5)
  BY <1>3 DEF Slow, sum
<1>5. k > 1 => Quick(b, k, sum, 5)
  BY <1>3 DEF Quick, sum
<1>6. k = 1 => ~Quick(b, k, sum, 5)
  BY DEF Quick
<1>7. k = 1 \/ k > 1
  OBVIOUS
<1>8. Adjusted(b, k, sum, 5) = IF k = 1 THEN 1 ELSE k \div 2
  BY <1>4, <1>5, <1>6, <1>7 DEF Adjusted
<1> QED
  BY <1>8 DEF sum

LEMMA CalmNext ==
  SchedulerTypeOK /\ CalmInv /\ [WatchNext]_allVars => CalmInv'
<1> SUFFICES ASSUME SchedulerTypeOK, CalmInv, [WatchNext]_allVars PROVE CalmInv'
  OBVIOUS
<1>t. Costing /\ Watching
  BY TypeParts
<1>n. Len(recent) \in Nat
  BY <1>t, LenProperties DEF Costing
<1>1. ASSUME calm' = 0, Len(recent') \in Nat PROVE CalmInv'
  BY <1>1 DEF CalmInv
<1>2. ASSUME UNCHANGED <<calm, recent, base, backoff>> PROVE CalmInv'
  BY <1>2 DEF CalmInv
<1>3. ASSUME NEW ms \in Intervals, WatchConnect(ms) PROVE CalmInv'
  BY <1>1, <1>3, EmptySeq DEF WatchConnect, Connect, Fresh, Restart
<1>4. ASSUME NEW ms \in Intervals, WatchSetInterval(ms) PROVE CalmInv'
  BY <1>1, <1>n, <1>4 DEF WatchSetInterval, SetInterval, Restart
<1>5. ASSUME NEW n \in Screens, WatchSetNeeds(n) PROVE CalmInv'
  BY <1>2, <1>5 DEF WatchSetNeeds, SetNeeds
<1>6. ASSUME WatchOther \/ UNCHANGED allVars PROVE CalmInv'
  BY <1>2, <1>6 DEF WatchOther, Disconnect, SetPaused, ForceHeavy, watchVars,
                    allVars, vars, schedVars
<1>7. ASSUME NEW c \in Costs, WatchSample(c) PROVE CalmInv'
  <2>1. c \in Nat /\ recent' = Pushed(recent, c) /\ base' = base
    BY <1>7, SchedulerAssumption DEF WatchSample, Sample, RecordSample
  <2>2. backoff' = Adjusted(base, backoff, Total(recent'), Len(recent'))
    BY <1>7 DEF WatchSample, Sample, RecordSample
  <2>3. base \in Nat /\ backoff \in {1, 2, 4, 8}
    BY <1>t DEF Costing
  <2>4. PICK m \in Nat : m = Len(recent) /\ m <= 5
    BY <1>t, <1>n DEF Costing
  <2>5. /\ recent' \in Seq(Nat)
        /\ m = 5 => Len(recent') = 5
        /\ m # 5 => Len(recent') = m + 1
        /\ \A i \in 1..Len(recent') :
             recent'[i] = IF i = Len(recent') THEN c
                          ELSE IF m = 5 THEN recent[i + 1] ELSE recent[i]
    <3>1. recent \in Seq(Nat) /\ Len(recent) <= 5
      BY <1>t DEF Costing
    <3> DEFINE w == Pushed(recent, c)
    <3>2. /\ w \in Seq(Nat)
          /\ Len(recent) = 5 => Len(w) = 5
          /\ Len(recent) # 5 => Len(w) = Len(recent) + 1
          /\ \A i \in 1..Len(w) :
               w[i] = IF i = Len(w) THEN c
                      ELSE IF Len(recent) = 5 THEN recent[i + 1] ELSE recent[i]
      BY <2>1, <3>1, PushedType
    <3>3. w = recent'
      BY <2>1
    <3> HIDE DEF w
    <3> QED
      BY <2>4, <3>2, <3>3
  <2>6. PICK n \in Nat : n = Len(recent')
    BY <2>5, LenProperties
  <2>7. n = IF m = 5 THEN 5 ELSE m + 1
    BY <2>5, <2>6
  <2>8. CASE ~(4 * c < base)
    BY <1>1, <1>7, <2>6, <2>8 DEF WatchSample
  <2>9. CASE 4 * c < base
    <3>1. calm' = IF calm = 7 THEN 7 ELSE calm + 1
      <4>1. calm \in 0..7
        BY DEF CalmInv
      <4> QED
        BY <1>7, <2>9, <4>1 DEF WatchSample, Least, Window
    <3>2. calm \in 0..7 /\ (calm > m => m = 5)
      BY <2>4 DEF CalmInv
    <3>3. \A i \in 1..m : m < calm + i => 4 * recent[i] < base
      BY <2>4 DEF CalmInv
    <3>4. ASSUME NEW i \in 1..n, n < calm' + i PROVE 4 * recent'[i] < base
      <4>1. CASE i = n
        BY <2>5, <2>6, <2>9, <4>1
      <4>2. CASE i # n /\ m = 5
        <5>1. i + 1 \in 1..m /\ m < calm + (i + 1)
          BY <2>7, <3>1, <3>2, <3>4, <4>2
        <5> QED
          BY <2>5, <2>6, <3>3, <4>2, <5>1
      <4>3. CASE i # n /\ m # 5
        <5>1. i \in 1..m /\ m < calm + i
          BY <2>7, <3>1, <3>2, <3>4, <4>3
        <5> QED
          BY <2>5, <2>6, <3>3, <4>3, <5>1
      <4> QED
        BY <4>1, <4>2, <4>3
    <3>5. calm' \in 0..7 /\ (calm' > n => n = 5)
      BY <2>4, <2>7, <3>1, <3>2
    <3>6. ASSUME calm' >= 5 PROVE backoff' = IF backoff = 1 THEN 1 ELSE backoff \div 2
      <4>1. n = 5
        BY <2>4, <2>7, <3>1, <3>2, <3>6
      <4>2. \A i \in 1..5 : 4 * recent'[i] < base
        BY <3>1, <3>2, <3>4, <3>6, <4>1
      <4> QED
        BY <2>2, <2>3, <2>5, <2>6, <4>1, <4>2, CheapWindow
    <3>7. /\ calm >= 5 => backoff \in {1, 2, 4}
          /\ calm >= 6 => backoff \in {1, 2}
          /\ calm >= 7 => backoff = 1
      BY DEF CalmInv
    <3>8. /\ calm' >= 5 => backoff' \in {1, 2, 4}
          /\ calm' >= 6 => backoff' \in {1, 2}
          /\ calm' >= 7 => backoff' = 1
      BY <2>3, <3>1, <3>2, <3>6, <3>7
    <3> QED
      BY <2>1, <2>6, <3>4, <3>5, <3>8 DEF CalmInv
  <2> QED
    BY <2>8, <2>9
<1> QED
  BY <1>3, <1>4, <1>5, <1>6, <1>7 DEF WatchNext

\* A server that recovers gets its configured interval back after a window of
\* cheap samples and one more for each halving, however slow it had been.
THEOREM BackoffRecovers == WatchSpec => []Recovers
<1>1. WatchInit => CalmInv
  BY EmptySeq DEF WatchInit, Init, CalmInv
<1>2. SchedulerTypeOK /\ CalmInv => Recovers
  BY DEF CalmInv, Recovers, Window
<1> QED
  BY <1>1, <1>2, CalmNext, SchedulerTypeCorrect, PTL DEF WatchSpec

-----------------------------------------------------------------------------
(* Rotation.                                                               *)

\* Where a task stands in the rotation, and how many fetches away it is.
Spot == [t \in Tasks |-> CASE t = "Digests" -> 0 [] t = "LockWaits" -> 1
                           [] t = "Transactions" -> 2 [] t = "MetadataLocks" -> 3
                           [] t = "Innodb" -> 4 [] t = "Replication" -> 5]
Dist(r, t) == IF Spot[t] >= r THEN Spot[t] - r ELSE Spot[t] + 6 - r

\* The tasks on screen that come before t.
Before(t) == {u \in Wanted(needs) : Dist(rotation, u) < Dist(rotation, t)}

RotationInv ==
  \A t \in Wanted(needs) :
    passed[t] + Cardinality(Before(t)) < Cardinality(Wanted(needs))

LEMMA Spots ==
  /\ \A t \in Tasks : Spot[t] \in 0..5 /\ Rotation[Spot[t] + 1] = t
  /\ \A p \in 0..5 : Rotation[p + 1] \in Tasks /\ Spot[Rotation[p + 1]] = p
<1>1. Tasks = {"Digests", "LockWaits", "Transactions", "MetadataLocks", "Innodb",
               "Replication"}
  BY Constants6
<1>2. /\ Spot["Digests"] = 0 /\ Spot["LockWaits"] = 1 /\ Spot["Transactions"] = 2
      /\ Spot["MetadataLocks"] = 3 /\ Spot["Innodb"] = 4 /\ Spot["Replication"] = 5
  BY <1>1 DEF Spot
<1>3. /\ Rotation[1] = "Digests" /\ Rotation[2] = "LockWaits"
      /\ Rotation[3] = "Transactions" /\ Rotation[4] = "MetadataLocks"
      /\ Rotation[5] = "Innodb" /\ Rotation[6] = "Replication"
  BY DEF Rotation
<1>4. ASSUME NEW t \in Tasks PROVE Spot[t] \in 0..5 /\ Rotation[Spot[t] + 1] = t
  BY <1>1, <1>2, <1>3
<1>5. ASSUME NEW p \in 0..5 PROVE Rotation[p + 1] \in Tasks /\ Spot[Rotation[p + 1]] = p
  BY <1>1, <1>2, <1>3
<1> QED
  BY <1>4, <1>5

\* The task k places ahead is k fetches away, and no other is.
LEMMA AheadDist ==
  ASSUME rotation \in 0..5, NEW k \in 0..5
  PROVE  Ahead(k) \in Tasks /\ \A t \in Tasks : t = Ahead(k) <=> Dist(rotation, t) = k
<1>1. (rotation + k) % 6 = IF rotation + k < 6 THEN rotation + k ELSE rotation + k - 6
  OBVIOUS
<1> DEFINE p == (rotation + k) % 6
<1>2. p \in 0..5 /\ p = IF rotation + k < 6 THEN rotation + k ELSE rotation + k - 6
  BY <1>1
<1>3. Ahead(k) = Rotation[p + 1]
  BY Constants6 DEF Ahead
<1> HIDE DEF p
<1>4. Ahead(k) \in Tasks /\ Spot[Ahead(k)] = p
  BY <1>2, <1>3, Spots
<1>5. ASSUME NEW t \in Tasks PROVE t = Ahead(k) <=> Dist(rotation, t) = k
  <2>1. Spot[t] \in 0..5 /\ (t = Ahead(k) <=> Spot[t] = p)
    BY <1>3, <1>4, Spots
  <2> QED
    BY <1>2, <2>1 DEF Dist
<1> QED
  BY <1>4, <1>5

LEMMA PairFinite == \A a, b : IsFiniteSet({a, b})
<1> SUFFICES ASSUME NEW a, NEW b PROVE IsFiniteSet({a, b})
  OBVIOUS
<1>1. {a, b} = {a} \cup {b}
  OBVIOUS
<1>2. IsFiniteSet({a}) /\ IsFiniteSet({b})
  BY FS_Singleton, Zenon
<1>3. IsFiniteSet({a} \cup {b})
  BY <1>2, FS_Union
<1> QED
  BY <1>1, <1>3, Zenon

LEMMA WantedFinite ==
  ASSUME NEW n
  PROVE  Wanted(n) \subseteq Tasks /\ IsFiniteSet(Wanted(n)) /\ Cardinality(Wanted(n)) \in Nat
<1>1. Wanted(n) \subseteq Tasks
  BY DEF Wanted
<1>2. IsFiniteSet(Tasks)
  <2>1. Tasks = {"Digests", "LockWaits"} \cup {"Transactions", "MetadataLocks"}
                  \cup {"Innodb", "Replication"}
    BY Constants6
  <2> QED
    BY <2>1, FS_Union, PairFinite
<1> QED
  BY <1>1, <1>2, FS_Subset, FS_CardinalityType

\* Fewer tasks come before t than there are.
LEMMA Unpassed ==
  ASSUME NEW n, NEW r \in 0..5, NEW t \in Wanted(n)
  PROVE  Cardinality({u \in Wanted(n) : Dist(r, u) < Dist(r, t)}) < Cardinality(Wanted(n))
<1> DEFINE W == Wanted(n)
           B == {u \in W : Dist(r, u) < Dist(r, t)}
<1>1. W \subseteq Tasks /\ IsFiniteSet(W) /\ Cardinality(W) \in Nat
  BY WantedFinite
<1>2. B \subseteq W \ {t}
  BY <1>1, Spots DEF Dist
<1>3. Cardinality(W \ {t}) = Cardinality(W) - 1 /\ IsFiniteSet(W \ {t})
  BY <1>1, FS_RemoveElement
<1>4. Cardinality(B) <= Cardinality(W \ {t}) /\ Cardinality(B) \in Nat
  BY <1>2, <1>3, FS_Subset, FS_CardinalityType
<1> QED
  BY <1>1, <1>3, <1>4

\* A fetch takes the nearest task on screen and sends it to the far end.
LEMMA Fetching ==
  ASSUME Turning, Watching, RotationInv, NEW k \in 0..5,
         Ahead(k) \in Wanted(needs),
         \A m \in 0..k-1 : Ahead(m) \notin Wanted(needs),
         fetched' = Ahead(k),
         rotation' = (rotation + k + 1) % 6,
         UNCHANGED needs,
         passed' = [t \in Tasks |-> IF t = fetched' \/ t \notin Wanted(needs)
                                   THEN 0 ELSE passed[t] + 1]
  PROVE  RotationInv'
<1> DEFINE W == Wanted(needs)
           f == Ahead(k)
<1>1. W \subseteq Tasks /\ IsFiniteSet(W) /\ Cardinality(W) \in Nat
  BY WantedFinite
<1>2. rotation \in 0..5 /\ f \in Tasks /\ Dist(rotation, f) = k
  BY AheadDist DEF Turning
<1>3. rotation' = IF rotation + k + 1 < 6 THEN rotation + k + 1 ELSE rotation + k + 1 - 6
  BY <1>2
<1>4. \A u \in Tasks : Dist(rotation, u) \in 0..5 /\ Spot[u] \in 0..5
  BY <1>2, Spots DEF Dist
<1>5. ASSUME NEW u \in W PROVE Dist(rotation, u) >= k /\ (Dist(rotation, u) = k => u = f)
  <2>1. u \in Tasks /\ Dist(rotation, u) \in 0..5
    BY <1>1, <1>4
  <2>2. u = Ahead(Dist(rotation, u))
    BY <1>2, <2>1, AheadDist
  <2> QED
    BY <2>1, <2>2
\* Every distance drops by k + 1, but that of the task fetched, which is last.
<1>6. ASSUME NEW u \in W
      PROVE  Dist(rotation', u) = IF u = f THEN 5 ELSE Dist(rotation, u) - k - 1
  <2>1. u \in Tasks /\ Spot[u] \in 0..5
    BY <1>1, <1>4
  <2>2. CASE u = f
    BY <1>2, <1>3, <2>1, <2>2 DEF Dist
  <2>3. CASE u # f
    <3>1. Dist(rotation, u) > k
      BY <1>4, <1>5, <2>1, <2>3
    <3> QED
      BY <1>2, <1>3, <2>1, <2>3, <3>1 DEF Dist
  <2> QED
    BY <2>2, <2>3
<1>7. SUFFICES ASSUME NEW t \in W
               PROVE  passed'[t] + Cardinality(Before(t)') < Cardinality(W)
  BY DEF RotationInv
<1>8. Before(t)' = {u \in W : Dist(rotation', u) < Dist(rotation', t)}
  BY DEF Before
<1>9. CASE t = f
  <2>1. passed'[t] = 0
    BY <1>2, <1>9
  <2>2. Before(t)' \subseteq W \ {t}
    BY <1>6, <1>8, <1>9
  <2>3. Cardinality(W \ {t}) = Cardinality(W) - 1 /\ IsFiniteSet(W \ {t})
    BY <1>1, FS_RemoveElement
  <2>4. Cardinality(Before(t)') <= Cardinality(W \ {t}) /\ Cardinality(Before(t)') \in Nat
    BY <2>2, <2>3, FS_Subset, FS_CardinalityType
  <2> QED
    BY <1>1, <2>1, <2>3, <2>4
<1>10. CASE t # f
  <2>1. passed'[t] = passed[t] + 1 /\ passed[t] \in Nat
    BY <1>1, <1>10 DEF Watching
  <2>2. f \in Before(t) /\ Before(t) \subseteq W
    BY <1>1, <1>2, <1>4, <1>5, <1>10 DEF Before
  <2>3. Before(t)' \subseteq Before(t) \ {f}
    <3>1. ASSUME NEW u \in W, Dist(rotation', u) < Dist(rotation', t)
          PROVE  u # f /\ Dist(rotation, u) < Dist(rotation, t)
      <4>1. Dist(rotation', t) = Dist(rotation, t) - k - 1
        BY <1>6, <1>10
      <4>2. Dist(rotation, t) \in 0..5 /\ Dist(rotation, u) \in 0..5
        BY <1>1, <1>4
      <4>3. u # f
        BY <1>6, <3>1, <4>1, <4>2
      <4>4. Dist(rotation', u) = Dist(rotation, u) - k - 1
        BY <1>6, <4>3
      <4> QED
        BY <3>1, <4>1, <4>2, <4>3, <4>4
    <3> QED
      BY <1>8, <3>1 DEF Before
  <2>4. IsFiniteSet(Before(t)) /\ Cardinality(Before(t)) \in Nat
    BY <1>1, <2>2, FS_Subset, FS_CardinalityType
  <2>5. Cardinality(Before(t) \ {f}) = Cardinality(Before(t)) - 1 /\ IsFiniteSet(Before(t) \ {f})
    BY <2>2, <2>4, FS_RemoveElement
  <2>6. Cardinality(Before(t)') <= Cardinality(Before(t) \ {f}) /\ Cardinality(Before(t)') \in Nat
    BY <2>3, <2>5, FS_Subset, FS_CardinalityType
  <2>7. passed[t] + Cardinality(Before(t)) < Cardinality(W)
    BY DEF RotationInv
  <2> QED
    BY <1>1, <2>1, <2>4, <2>5, <2>6, <2>7
<1> QED
  BY <1>9, <1>10

LEMMA RotationNext ==
  SchedulerTypeOK /\ RotationInv /\ [WatchNext]_allVars => RotationInv'
<1> SUFFICES ASSUME SchedulerTypeOK, SchedulerTypeOK', RotationInv, [WatchNext]_allVars
             PROVE  RotationInv'
  BY TypesNext
<1>t. Turning /\ Watching
  BY TypeParts
<1>u. Turning'
  <2>1. 0..HeavyEvery-1 = 0..4 /\ 0..Len(Rotation)-1 = 0..5
    BY Constants6 DEF HeavyEvery
  <2> QED
    BY <2>1, Zenon DEF SchedulerTypeOK, Types, Turning
<1>1. ASSUME UNCHANGED <<passed, rotation, needs>> PROVE RotationInv'
  BY <1>1 DEF RotationInv, Before
<1>2. ASSUME passed' = NoneMissed PROVE RotationInv'
  <2> SUFFICES ASSUME NEW t \in Wanted(needs')
               PROVE  passed'[t] + Cardinality(Before(t)') < Cardinality(Wanted(needs'))
    BY DEF RotationInv
  <2>1. Before(t)' = {u \in Wanted(needs') : Dist(rotation', u) < Dist(rotation', t)}
    BY DEF Before
  <2>2. Cardinality(Before(t)') < Cardinality(Wanted(needs'))
    BY <1>u, <2>1, Unpassed DEF Turning
  <2>3. passed'[t] = 0 /\ Cardinality(Before(t)') \in Nat
    BY <1>2, <2>1, WantedFinite, FS_Subset, FS_CardinalityType DEF NoneMissed
  <2> QED
    BY <2>2, <2>3
<1>3. ASSUME NEW ms \in Intervals, WatchConnect(ms) PROVE RotationInv'
  BY <1>2, <1>3 DEF WatchConnect
<1>4. ASSUME NEW ms \in Intervals, WatchSetInterval(ms) PROVE RotationInv'
  BY <1>1, <1>4 DEF WatchSetInterval, SetInterval
<1>5. ASSUME NEW n \in Screens, WatchSetNeeds(n) PROVE RotationInv'
  BY <1>2, <1>5 DEF WatchSetNeeds
<1>6. ASSUME WatchOther \/ UNCHANGED allVars PROVE RotationInv'
  BY <1>1, <1>6 DEF WatchOther, Disconnect, SetPaused, ForceHeavy, watchVars,
                    allVars, vars, schedVars
<1>7. ASSUME NEW c \in Costs, WatchSample(c) PROVE RotationInv'
  <2>1. UNCHANGED needs /\ NextHeavy
    BY <1>7 DEF WatchSample, Sample
  <2>2. CASE Due /\ Wanted(needs) # {}
    <3>1. PICK k \in 0..5 : /\ Ahead(k) \in Wanted(needs)
                            /\ \A m \in 0..k-1 : Ahead(m) \notin Wanted(needs)
                            /\ fetched' = Ahead(k)
                            /\ rotation' = (rotation + k + 1) % 6
      BY <2>1, <2>2, Constants6 DEF NextHeavy
    <3>2. fetched' # "none"
      BY <3>1, WantedFinite, Constants6
    <3>3. passed' = [t \in Tasks |-> IF t = fetched' \/ t \notin Wanted(needs)
                                    THEN 0 ELSE passed[t] + 1]
      BY <1>7, <3>2 DEF WatchSample
    <3> QED
      BY <1>t, <2>1, <3>1, <3>3, Fetching
  <2>3. CASE ~(Due /\ Wanted(needs) # {})
    <3>1. fetched' = "none" /\ UNCHANGED rotation
      BY <2>1, <2>3 DEF NextHeavy
    <3> QED
      BY <1>1, <1>7, <2>1, <3>1 DEF WatchSample
  <2> QED
    BY <2>2, <2>3
<1> QED
  BY <1>3, <1>4, <1>5, <1>6, <1>7 DEF WatchNext

\* next_heavy starves no table that is on screen, whatever screens there are and
\* however often a fetch is forced.
THEOREM RotationIsFair == WatchSpec => []NoStarvation
<1>1. WatchInit => RotationInv
  <2> SUFFICES ASSUME WatchInit, NEW t \in Wanted(needs)
               PROVE  passed[t] + Cardinality(Before(t)) < Cardinality(Wanted(needs))
    BY DEF RotationInv
  <2>1. Turning
    BY TypesInit, TypeParts
  <2>2. Cardinality(Before(t)) < Cardinality(Wanted(needs))
    BY <2>1, Unpassed DEF Before, Turning
  <2>3. passed[t] = 0 /\ Cardinality(Before(t)) \in Nat
    BY WantedFinite, FS_Subset, FS_CardinalityType DEF Before, WatchInit, NoneMissed
  <2> QED
    BY <2>2, <2>3
<1>2. SchedulerTypeOK /\ RotationInv => NoStarvation
  <2> SUFFICES ASSUME SchedulerTypeOK, RotationInv, NEW t \in Wanted(needs)
               PROVE  passed[t] < Cardinality(Wanted(needs))
    BY DEF NoStarvation
  <2>1. passed[t] \in Nat /\ Cardinality(Wanted(needs)) \in Nat
    BY WantedFinite, TypeParts DEF Watching
  <2>2. Cardinality(Before(t)) \in Nat
    BY WantedFinite, FS_Subset, FS_CardinalityType DEF Before
  <2>3. passed[t] + Cardinality(Before(t)) < Cardinality(Wanted(needs))
    BY DEF RotationInv
  <2> QED
    BY <2>1, <2>2, <2>3
<1> QED
  BY <1>1, <1>2, RotationNext, SchedulerTypeCorrect, PTL DEF WatchSpec

-----------------------------------------------------------------------------
(* Nothing on screen waits longer than HeavyEvery ticks.                   *)

\* Something fetched tick ticks ago at the latest, or owed at once.
FillInv == Wanted(needs) # {} => lull < HeavyEvery /\ (forced \/ lull <= tick)

LEMMA FillNext ==
  SchedulerTypeOK /\ FillInv /\ [WatchNext]_allVars => FillInv'
<1> SUFFICES ASSUME SchedulerTypeOK, FillInv, [WatchNext]_allVars PROVE FillInv'
  OBVIOUS
<1>t. Turning /\ Watching
  BY TypeParts
\* A new session, or new needs: a fetch is owed.
<1>1. ASSUME lull' = HeavyEvery - 1, forced' = TRUE PROVE FillInv'
  BY <1>1 DEF FillInv, HeavyEvery
<1>2. ASSUME UNCHANGED <<needs, lull, tick>>, forced => forced' PROVE FillInv'
  BY <1>2 DEF FillInv
<1>3. ASSUME NEW ms \in Intervals, WatchConnect(ms) PROVE FillInv'
  BY <1>1, <1>3 DEF WatchConnect, Connect, Fresh
<1>4. ASSUME NEW ms \in Intervals, WatchSetInterval(ms) PROVE FillInv'
  BY <1>2, <1>4 DEF WatchSetInterval, SetInterval
<1>5. ASSUME NEW n \in Screens, WatchSetNeeds(n) PROVE FillInv'
  <2>1. lull' = HeavyEvery - 1 /\ forced'
    BY <1>5 DEF WatchSetNeeds, SetNeeds
  <2> QED
    BY <2>1 DEF FillInv, HeavyEvery
<1>6. ASSUME WatchOther \/ UNCHANGED allVars PROVE FillInv'
  BY <1>2, <1>6 DEF WatchOther, Disconnect, SetPaused, ForceHeavy, watchVars,
                    allVars, vars, schedVars
<1>7. ASSUME NEW c \in Costs, WatchSample(c) PROVE FillInv'
  <2>1. UNCHANGED needs /\ NextHeavy /\ tick' \in 0..4
    BY <1>7, <1>t, NextHeavyType, TypeParts DEF WatchSample, Sample
  <2>2. CASE Due /\ Wanted(needs) # {}
    <3>1. PICK k \in 0..5 : Ahead(k) \in Wanted(needs) /\ fetched' = Ahead(k)
      BY <2>1, <2>2, Constants6 DEF NextHeavy
    <3>2. lull' = 0
      BY <1>7, <3>1, WantedFinite, Constants6 DEF WatchSample
    <3> QED
      BY <2>1, <3>2 DEF FillInv, HeavyEvery
  <2>3. CASE Wanted(needs) # {} /\ ~Due
    <3>1. lull' = lull + 1
      BY <1>7, <2>1, <2>3 DEF WatchSample, NextHeavy
    <3>2. lull <= tick /\ tick # 4
      BY <1>t, <2>3 DEF FillInv, Due, Turning, HeavyEvery
    <3>3. tick' = tick + 1
      BY <1>t, <2>1, <3>2 DEF NextHeavy, Turning, HeavyEvery
    <3> QED
      BY <1>t, <2>1, <3>1, <3>2, <3>3 DEF FillInv, Turning, Watching, HeavyEvery
  <2>4. CASE Wanted(needs) = {}
    BY <2>1, <2>4 DEF FillInv
  <2> QED
    BY <2>2, <2>3, <2>4
<1> QED
  BY <1>3, <1>4, <1>5, <1>6, <1>7 DEF WatchNext

\* While something is on screen, HeavyEvery ticks do not go by without a fetch,
\* and none after the screens have changed: the tick counter and the forced flag
\* together are never further from the next fetch than that.
THEOREM ScreensAreFilled == WatchSpec => []ScreenFills
<1>1. WatchInit => FillInv
  BY DEF WatchInit, Init, FillInv, HeavyEvery
<1>2. FillInv => ScreenFills
  BY DEF FillInv, ScreenFills
<1> QED
  BY <1>1, <1>2, FillNext, SchedulerTypeCorrect, PTL DEF WatchSpec
=============================================================================
