-------------------------------- MODULE Alerts --------------------------------
(***************************************************************************)
(* The alert engine, src/alerts.rs, with what drives it: the samples of     *)
(* on_sample, the reset of a new session in src/app.rs, and the rule grid   *)
(* of src/ui/alerts_tab.rs, where a rule may be edited while it is pending  *)
(* or firing.                                                              *)
(***************************************************************************)
EXTENDS Naturals, Sequences, FiniteSets, SequencesExt

CONSTANTS
  Quantities, \* Metric
  Readings,   \* what a sample may say of a quantity
  Limits,     \* Rule::threshold
  Holds,      \* Rule::for_secs
  LogCap,     \* LOG_CAP
  MaxRules,   \* bound: rules ever made
  MaxT        \* bound: App clock

ASSUME AlertsAssumption ==
  /\ Readings \subseteq Nat /\ Limits \subseteq Nat /\ Holds \subseteq Nat
  /\ LogCap \in Nat \ {0} /\ MaxRules \in Nat /\ MaxT \in Nat

VARIABLES
  t,        \* monotonic seconds: Sample::t, since a second before the start
  rules,    \* Engine::rules
  states,   \* Engine::states, for the ids that have one
  log,      \* Engine::log
  nextId,   \* Engine::next_id
  primed,   \* App::latest is set: the next sample is evaluated
  run,      \* history: when a rule's unbroken run of breaches began, or 0
  open,     \* history: rules whose FIRED nothing has answered or hushed
  fired     \* history: rules the last sample fired

alertVars == <<t, rules, states, log, nextId, primed, run, open, fired>>

Ids == 1..MaxRules
Ok == [is |-> "ok", since |-> 0]
Pending(u) == [is |-> "pending", since |-> u]
Firing(u) == [is |-> "firing", since |-> u]
State == [is : {"ok", "pending", "firing"}, since : Nat]
Rule == [id : Ids, enabled : BOOLEAN, metric : Quantities, above : BOOLEAN,
         limit : Limits, hold : Holds]

RuleSet == {rules[i] : i \in DOMAIN rules}
RuleIds == {r.id : r \in RuleSet}

\* Engine::state: a rule without a state is Ok.
StateOf(id) == IF id \in DOMAIN states THEN states[id] ELSE Ok
\* firing(): rules that are there and firing, enabled or not.
FiringIds == {id \in RuleIds : StateOf(id).is = "firing"}

NewRule(q, above, l, h) ==
  [id |-> nextId, enabled |-> TRUE, metric |-> q, above |-> above, limit |-> l, hold |-> h]

\* Engine::default has rules of both kinds; this instance starts without any
\* and adds its own.
AlertsInit ==
  /\ t = 1 /\ rules = <<>> /\ states = <<>> /\ log = <<>> /\ nextId = 1
  /\ primed = FALSE /\ run = [id \in Ids |-> 0]
  /\ open = {} /\ fired = {}

-----------------------------------------------------------------------------
(* The rule grid.                                                          *)

\* Engine::add
AddRule ==
  /\ nextId <= MaxRules
  /\ \E q \in Quantities, above \in BOOLEAN, l \in Limits, h \in Holds :
       rules' = Append(rules, NewRule(q, above, l, h))
  /\ nextId' = nextId + 1 /\ fired' = {}
  /\ UNCHANGED <<t, states, log, primed, run, open>>

\* Engine::remove; no two rules have one id.
RemoveRule(id) ==
  /\ \E i \in DOMAIN rules : rules[i].id = id /\ rules' = RemoveAt(rules, i)
  /\ states' = [i \in DOMAIN states \ {id} |-> states[i]]
  /\ fired' = {}
  /\ run' = [run EXCEPT ![id] = 0] /\ open' = open \ {id}
  /\ UNCHANGED <<t, log, nextId, primed>>

\* The cells of the grid write into the rule and touch no state.
Edit ==
  /\ \E i \in DOMAIN rules : \E on \in BOOLEAN, above \in BOOLEAN, l \in Limits, h \in Holds :
       rules' = [rules EXCEPT ![i] = [rules[i] EXCEPT !.enabled = on, !.above = above,
                                                      !.limit = l, !.hold = h]]
  /\ rules' # rules /\ fired' = {}
  /\ UNCHANGED <<t, states, log, nextId, primed, run, open>>

-----------------------------------------------------------------------------
(* evaluate(): every rule sees the sample.                                 *)

Breached(r, d) == IF r.above THEN d[r.metric] > r.limit ELSE d[r.metric] < r.limit

\* Mutant: the window is measured from the last sample, not from the first.
VerdictSliding(r, d) ==
  LET prev == StateOf(r.id)
  IN CASE ~r.enabled -> Ok
       [] r.enabled /\ ~Breached(r, d) -> Ok
       [] r.enabled /\ Breached(r, d) /\ prev.is = "firing" -> prev
       [] r.enabled /\ Breached(r, d) /\ prev.is = "ok" ->
            IF r.hold = 0 THEN Firing(t) ELSE Pending(t)
       [] OTHER -> Firing(t)

\* Mutant: a disabled rule stays what it was.
VerdictFrozen(r, d) ==
  LET prev == StateOf(r.id)
  IN CASE ~r.enabled -> prev
       [] r.enabled /\ ~Breached(r, d) -> Ok
       [] r.enabled /\ Breached(r, d) /\ prev.is = "firing" -> prev
       [] r.enabled /\ Breached(r, d) /\ prev.is = "ok" ->
            IF r.hold = 0 THEN Firing(t) ELSE Pending(t)
       [] OTHER -> IF prev.since + r.hold <= t THEN Firing(t) ELSE prev

\* The state a rule has after a sample taken at t.
Verdict(r, d) ==
  LET prev == StateOf(r.id)
  IN CASE ~r.enabled -> Ok
       [] r.enabled /\ ~Breached(r, d) -> Ok
       [] r.enabled /\ Breached(r, d) /\ prev.is = "firing" -> prev
       [] r.enabled /\ Breached(r, d) /\ prev.is = "ok" ->
            IF r.hold = 0 THEN Firing(t) ELSE Pending(t)
       [] OTHER -> IF prev.since + r.hold <= t THEN Firing(t) ELSE prev

Fires(r, d) == r.enabled /\ Breached(r, d) /\ StateOf(r.id).is # "firing" /\ Verdict(r, d).is = "firing"
Resolves(r, d) == r.enabled /\ ~Breached(r, d) /\ StateOf(r.id).is = "firing"

\* The transitions of one sample, in the order of the rules, and the newest
\* LogCap entries of the log with them.
Transitions(d) ==
  LET moved == SelectSeq(rules, LAMBDA r : Fires(r, d) \/ Resolves(r, d))
  IN [i \in DOMAIN moved |-> [rule |-> moved[i].id, fired |-> Fires(moved[i], d)]]
Newest(s) == IF Len(s) > LogCap THEN SubSeq(s, Len(s) - LogCap + 1, Len(s)) ELSE s

RuleOf(id) == CHOOSE r \in RuleSet : r.id = id

\* The histories: a disabled rule ends its run and is hushed.
Watched(d) ==
  LET seen == RuleIds
      hit == {id \in seen : RuleOf(id).enabled /\ Breached(RuleOf(id), d)}
      off == {id \in seen : ~RuleOf(id).enabled}
  IN /\ run' = [id \in Ids |-> IF id \notin hit THEN 0 ELSE IF run[id] = 0 THEN t ELSE run[id]]
     /\ fired' = {id \in seen : Fires(RuleOf(id), d)}
     /\ open' = (open \cup fired') \ ({id \in seen : Resolves(RuleOf(id), d)} \cup off)

Evaluate(d) ==
  /\ states' = [id \in DOMAIN states \cup RuleIds |->
                  IF id \in RuleIds THEN Verdict(RuleOf(id), d) ELSE states[id]]
  /\ log' = Newest(log \o Transitions(d))
  /\ Watched(d)

\* on_sample: the first sample of a session is compared with nothing.
OnSample ==
  /\ IF primed THEN \E d \in [Quantities -> Readings] : Evaluate(d)
     ELSE fired' = {} /\ UNCHANGED <<states, log, run, open>>
  /\ primed' = TRUE
  /\ UNCHANGED <<t, rules, nextId>>

\* Mutant: a new session goes on where the last one stopped.
OnConnectedKeeps ==
  /\ fired' = {} /\ primed' = FALSE
  /\ run' = [id \in Ids |-> 0] /\ open' = {}
  /\ UNCHANGED <<t, rules, states, log, nextId>>

\* pump: Connected calls reset_states.
OnConnected ==
  /\ states' = <<>> /\ primed' = FALSE /\ fired' = {}
  /\ run' = [id \in Ids |-> 0] /\ open' = {}
  /\ UNCHANGED <<t, rules, log, nextId>>

\* Time passes between samples; a paused sampler leaves a gap of any length.
Wait ==
  /\ t < MaxT /\ t' = t + 1 /\ fired' = {}
  /\ UNCHANGED <<rules, states, log, nextId, primed, run, open>>

AlertsNext ==
  \/ AddRule \/ Edit \/ OnSample \/ OnConnected \/ Wait
  \/ \E id \in Ids : RemoveRule(id)

AlertsSpec == AlertsInit /\ [][AlertsNext]_alertVars

-----------------------------------------------------------------------------
(* What the engine promises.                                               *)

RuleWith(id) == {r \in RuleSet : r.id = id}

\* alerts.rs:1-2: "a rule must stay breached for its whole for_secs window before
\* it fires".  A rule fires only at the end of a run of samples that each
\* breached it as it then stood, and the run is at least as long as the window.
HoldsBeforeFiring ==
  \A id \in fired : \E r \in RuleWith(id) :
    run[id] > 0 /\ run[id] + r.hold <= t

\* What is shown as firing is what has been logged as FIRED and neither
\* resolved since, nor hushed by a disabled sample, a removal or a new session.
FiringIsLogged == FiringIds = open

\* A session's alarms are its own: after a reconnect nothing is pending or
\* firing on the strength of another server's samples.
WindowsAreOfThisSession ==
  \A id \in RuleIds : StateOf(id).is = "pending" => StateOf(id).since = run[id]
=============================================================================
