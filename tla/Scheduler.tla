------------------------------ MODULE Scheduler ------------------------------
(***************************************************************************)
(* The load shaping of src/db/schedule.rs, as src/db/collector.rs drives   *)
(* it: which expensive table a tick fetches, and how the interval backs    *)
(* off from a slow server.  The loop awaits the sample inside the tick, so *)
(* one step here is a whole tick, its sample and the feedback of its cost. *)
(* When the ticker is due is left out.                                     *)
(*                                                                         *)
(* Durations are whole numbers of some unit.  The averages of the code are *)
(* compared as sums, multiplied out.  The counters tick and rotation wrap  *)
(* at 2^64, which no run of the program reaches; only their remainders are *)
(* kept.                                                                   *)
(***************************************************************************)
EXTENDS Naturals, Sequences, FiniteSets

CONSTANTS
  Intervals,  \* the intervals a profile or the toolbar can ask for
  MinBase,    \* the floor of 200 ms
  Costs,      \* how long a sample can take
  Screens     \* the needs of the tabs

VARIABLES
  connected,  \* the loop holds a session
  base,       \* base_interval_ms
  needs,      \* the flags of ViewNeeds that are set
  tick,       \* tick, modulo HeavyEvery
  rotation,   \* rotation, modulo its length
  recent,     \* the last costs, oldest first
  backoff,
  forced,     \* forced_heavy
  paused,
  fetched     \* what the last tick fetched, "none" if nothing

schedVars == <<base, needs, tick, rotation, recent, backoff, forced, paused>>
vars == <<connected, schedVars, fetched>>

Flags == {"processlist", "digests", "locks", "innodb", "replication"}

ASSUME SchedulerAssumption ==
  /\ MinBase \in Nat \ {0}
  /\ Intervals \subseteq Nat /\ Costs \subseteq Nat
  /\ Screens \subseteq SUBSET Flags

Rotation == <<"Digests", "LockWaits", "Transactions", "MetadataLocks", "Innodb",
              "Replication">>
Tasks == {Rotation[i] : i \in DOMAIN Rotation}

HeavyEvery == 5
MaxBackoff == 8
Window == 5

DefaultNeeds == {"processlist", "digests", "locks"}

\* ViewNeeds::wants, over all tasks.
Wanted(n) ==
  {t \in Tasks :
     \/ t = "Digests" /\ "digests" \in n
     \/ t \in {"LockWaits", "Transactions", "MetadataLocks"} /\ "locks" \in n
     \/ t = "Innodb" /\ "innodb" \in n
     \/ t = "Replication" /\ "replication" \in n}

AtLeast(m, ms) == IF ms < m THEN m ELSE ms

-----------------------------------------------------------------------------
(* next_heavy                                                              *)

\* The task k places behind the rotation.
Ahead(k) == Rotation[((rotation + k) % Len(Rotation)) + 1]

Due == forced \/ (tick + 1) % HeavyEvery = 0

\* Mutant: each fetch starts over at the head of the rotation.
NextHeavyFromHead ==
  /\ tick' = (tick + 1) % HeavyEvery
  /\ forced' = FALSE
  /\ rotation' = 0
  /\ fetched' = IF Due /\ Wanted(needs) # {}
                THEN Rotation[CHOOSE i \in DOMAIN Rotation :
                       /\ Rotation[i] \in Wanted(needs)
                       /\ \A m \in 1..i-1 : Rotation[m] \notin Wanted(needs)]
                ELSE "none"

\* Walk the rotation to the next task that is wanted, if one is due.  A forced
\* fetch is always due, so the flag never outlives the tick.
NextHeavy ==
  /\ tick' = (tick + 1) % HeavyEvery
  /\ IF Due /\ Wanted(needs) # {}
       THEN \E k \in 0..Len(Rotation)-1 :
              /\ Ahead(k) \in Wanted(needs)
              /\ \A m \in 0..k-1 : Ahead(m) \notin Wanted(needs)
              /\ fetched' = Ahead(k)
              /\ rotation' = (rotation + k + 1) % Len(Rotation)
       ELSE fetched' = "none" /\ UNCHANGED rotation
  /\ forced' = FALSE

-----------------------------------------------------------------------------
(* record_sample                                                           *)

\* The sum of a window, which is no longer than Window.
Cost(s, i) == IF i <= Len(s) THEN s[i] ELSE 0
Total(s) == Cost(s, 1) + Cost(s, 2) + Cost(s, 3) + Cost(s, 4) + Cost(s, 5)

\* Mutant: the oldest cost is never given up.
PushedKeepsOldest(s, c) ==
  IF Len(s) = Window THEN <<s[1]>> \o Tail(Tail(s)) \o <<c>> ELSE Append(s, c)

Pushed(s, c) == Append(IF Len(s) = Window THEN Tail(s) ELSE s, c)

\* avg > budget * backoff, with budget half of b, for sum over n samples.
Slow(b, k, sum, n) == 2 * sum > b * n * k

\* Mutant: no hysteresis.
QuickAtBudget(b, k, sum, n) == k > 1 /\ 2 * sum < b * n * k

\* avg < budget * backoff / 4.
Quick(b, k, sum, n) == k > 1 /\ 8 * sum < b * n * k

\* Mutant: no ceiling.
AdjustedUncapped(b, k, sum, n) ==
  IF Slow(b, k, sum, n) THEN k * 2
  ELSE IF Quick(b, k, sum, n) THEN k \div 2 ELSE k

Adjusted(b, k, sum, n) ==
  IF Slow(b, k, sum, n) THEN (IF k * 2 > MaxBackoff THEN MaxBackoff ELSE k * 2)
  ELSE IF Quick(b, k, sum, n) THEN k \div 2 ELSE k

RecordSample(c) ==
  /\ recent' = Pushed(recent, c)
  /\ backoff' = Adjusted(base, backoff, Total(recent'), Len(recent'))

-----------------------------------------------------------------------------
(* The collector loop, as far as it drives the scheduler.                  *)

\* Scheduler::new
Fresh(ms) ==
  /\ base' = AtLeast(MinBase, ms) /\ needs' = DefaultNeeds
  /\ tick' = 0 /\ rotation' = 0 /\ recent' = <<>> /\ backoff' = 1
  /\ forced' = TRUE /\ paused' = FALSE

Init ==
  /\ connected = FALSE /\ fetched = "none"
  /\ base \in {AtLeast(MinBase, ms) : ms \in Intervals} /\ needs = DefaultNeeds
  /\ tick = 0 /\ rotation = 0 /\ recent = <<>> /\ backoff = 1
  /\ forced = TRUE /\ paused = FALSE

\* Command::Connect that succeeds; one that fails is a Disconnect.
Connect(ms) ==
  /\ Fresh(ms)
  /\ connected' = TRUE
  /\ UNCHANGED fetched

Disconnect ==
  /\ connected' = FALSE
  /\ UNCHANGED <<schedVars, fetched>>

\* The window and the backoff are kept.
SetInterval(ms) ==
  /\ base' = AtLeast(MinBase, ms)
  /\ UNCHANGED <<connected, needs, tick, rotation, recent, backoff, forced,
                 paused, fetched>>

\* Mutant: the new needs are compared with themselves.
SetNeedsUnforced(n) ==
  /\ needs' = n
  /\ UNCHANGED <<connected, base, tick, rotation, recent, backoff, forced,
                 paused, fetched>>

SetNeeds(n) ==
  /\ needs' = n
  /\ forced' = (forced \/ n # needs)
  /\ UNCHANGED <<connected, base, tick, rotation, recent, backoff, paused,
                 fetched>>

SetPaused ==
  /\ paused' = ~paused
  /\ UNCHANGED <<connected, base, needs, tick, rotation, recent, backoff,
                 forced, fetched>>

\* Command::RefreshHeavy
ForceHeavy ==
  /\ forced' = TRUE
  /\ UNCHANGED <<connected, base, needs, tick, rotation, recent, backoff,
                 paused, fetched>>

\* A tick with a sample that takes c, an abandoned one included.
Sample(c) ==
  /\ connected /\ ~paused
  /\ NextHeavy
  /\ RecordSample(c)
  /\ UNCHANGED <<connected, base, needs, paused>>

Next ==
  \/ \E ms \in Intervals : Connect(ms) \/ SetInterval(ms)
  \/ \E n \in Screens : SetNeeds(n)
  \/ Disconnect \/ SetPaused \/ ForceHeavy
  \/ \E c \in Costs : Sample(c)

Spec == Init /\ [][Next]_vars

-----------------------------------------------------------------------------
Types ==
  /\ connected \in BOOLEAN /\ forced \in BOOLEAN /\ paused \in BOOLEAN
  /\ base \in Nat /\ base >= MinBase
  /\ needs \in SUBSET Flags
  /\ tick \in 0..HeavyEvery-1 /\ rotation \in 0..Len(Rotation)-1
  /\ recent \in Seq(Nat) /\ Len(recent) <= Window
  /\ backoff \in {1, 2, 4, 8}
  /\ fetched \in Tasks \cup {"none"}
=============================================================================
