--------------------------- MODULE SchedulerWatch ---------------------------
(***************************************************************************)
(* What the scheduler promises over time.  The variables are history: they *)
(* read the scheduler and change nothing in it.                            *)
(***************************************************************************)
EXTENDS Scheduler

VARIABLES
  passed,  \* for each task, fetches of others since its own or since the needs
  lull,    \* ticks since a fetch; one is owed at once when the needs change
  calm,    \* samples in a row well below the budget of the plain interval
  trend    \* where the backoff last went while every cost in the window is equal

watchVars == <<passed, lull, calm, trend>>
allVars == <<vars, watchVars>>

Uniform(s) == Len(s) = Window /\ \A i \in DOMAIN s : s[i] = s[1]
NoneMissed == [t \in Tasks |-> 0]
Least(a, b) == IF a < b THEN a ELSE b

WatchInit ==
  /\ Init
  /\ passed = NoneMissed /\ lull = HeavyEvery - 1
  /\ calm = 0 /\ trend = "flat"

Restart ==
  /\ calm' = 0 /\ trend' = "flat"

WatchConnect(ms) ==
  /\ Connect(ms) /\ Restart
  /\ passed' = NoneMissed /\ lull' = HeavyEvery - 1

WatchSetInterval(ms) ==
  /\ SetInterval(ms) /\ Restart
  /\ UNCHANGED <<passed, lull>>

WatchSetNeeds(n) ==
  /\ SetNeeds(n) /\ n # needs
  /\ passed' = NoneMissed /\ lull' = HeavyEvery - 1
  /\ UNCHANGED <<calm, trend>>

WatchOther ==
  /\ Disconnect \/ SetPaused \/ ForceHeavy
  /\ UNCHANGED watchVars

WatchSample(c) ==
  /\ Sample(c)
  /\ passed' = IF fetched' = "none" THEN passed
               ELSE [t \in Tasks |-> IF t = fetched' \/ t \notin Wanted(needs)
                                     THEN 0 ELSE passed[t] + 1]
  /\ lull' = IF fetched' # "none" \/ Wanted(needs) = {} THEN 0 ELSE lull + 1
  /\ calm' = IF 4 * c < base THEN Least(calm + 1, Window + 2) ELSE 0
  /\ trend' = IF ~Uniform(recent') \/ ~Uniform(recent) \/ recent' # recent THEN "flat"
              ELSE IF backoff' > backoff THEN "up"
              ELSE IF backoff' < backoff THEN "down" ELSE trend

WatchNext ==
  \/ \E ms \in Intervals : WatchConnect(ms) \/ WatchSetInterval(ms)
  \/ \E n \in Screens : WatchSetNeeds(n)
  \/ WatchOther
  \/ \E c \in Costs : WatchSample(c)

WatchSpec == WatchInit /\ [][WatchNext]_allVars

-----------------------------------------------------------------------------
SchedulerTypeOK ==
  /\ Types
  /\ passed \in [Tasks -> Nat] /\ lull \in Nat /\ calm \in Nat
  /\ trend \in {"flat", "up", "down"}

\* While the needs stay what they are, no table on screen is fetched again
\* before every other one has been: the rotation skips and starves nothing.
NoStarvation ==
  \A t \in Wanted(needs) : passed[t] < Cardinality(Wanted(needs))

\* Something on screen is fetched every HeavyEvery ticks, and by the first tick
\* after a change of screens, whatever was forced or missing before.
ScreenFills == Wanted(needs) # {} => lull < HeavyEvery

\* However slow the server was, a window of cheap samples and one more for each
\* halving bring the interval back to the configured one.
Recovers == calm >= Window + 2 => backoff = 1

\* A server that always takes the same time settles on one interval: the
\* backoff does not go up and down again.
NoFlap ==
  [][Uniform(recent) /\ recent' = recent =>
       /\ trend = "up" => backoff' >= backoff
       /\ trend = "down" => backoff' <= backoff]_allVars
=============================================================================
