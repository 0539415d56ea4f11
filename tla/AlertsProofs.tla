----------------------------- MODULE AlertsProofs -----------------------------
(* The promises of the alert engine, for any rules, readings and windows.   *)
EXTENDS Alerts, SequenceTheorems, TLAPS

-----------------------------------------------------------------------------
(* The invariant.                                                          *)

RulesOK ==
  /\ rules \in Seq(Rule) /\ nextId \in Nat \ {0}
  /\ \A k \in 1..Len(rules) : rules[k].id < nextId
  /\ \A k, l \in 1..Len(rules) : rules[k].id = rules[l].id => k = l

StatesOK ==
  /\ DOMAIN states \subseteq RuleIds
  /\ \A id \in DOMAIN states : states[id] \in State

\* The run of a rule began at a sample, and ended with the first that did not
\* breach it; a pending rule has been so since its run began, an idle one has
\* none.
RunsOK ==
  /\ t \in Nat \ {0} /\ run \in [Ids -> Nat]
  /\ \A id \in Ids : run[id] <= t /\ (id \notin RuleIds => run[id] = 0)
  /\ \A id \in RuleIds :
       /\ StateOf(id).is = "ok" => run[id] = 0
       /\ StateOf(id).is = "pending" => run[id] > 0 /\ StateOf(id).since = run[id]

AlertsInv ==
  /\ RulesOK /\ StatesOK /\ RunsOK
  /\ FiringIsLogged /\ HoldsBeforeFiring

-----------------------------------------------------------------------------
(* Rules, by their place in the list.                                      *)

LEMMA RuleTypes ==
  ASSUME RulesOK
  PROVE  /\ DOMAIN rules = 1..Len(rules) /\ Len(rules) \in Nat
         /\ RuleSet \subseteq Rule /\ RuleIds \subseteq Ids /\ nextId \notin RuleIds
<1>1. DOMAIN rules = 1..Len(rules) /\ Len(rules) \in Nat
  BY LenProperties DEF RulesOK
<1>2. \A k \in 1..Len(rules) : rules[k] \in Rule
  BY DEF RulesOK
<1>3. \A k \in 1..Len(rules) : rules[k].id \in Ids /\ rules[k].id # nextId
  BY <1>2 DEF RulesOK, Rule, Ids
<1> QED
  BY <1>1, <1>2, <1>3 DEF RuleSet, RuleIds

LEMMA RuleOfIs ==
  ASSUME NEW id \in RuleIds PROVE RuleOf(id) \in RuleSet /\ RuleOf(id).id = id
BY DEF RuleOf, RuleIds

LEMMA StateType ==
  ASSUME StatesOK, NEW id PROVE StateOf(id) \in State
BY DEF StatesOK, StateOf, State, Ok

\* A rule added at the end.
LEMMA Added ==
  ASSUME RulesOK, NEW r \in Rule, r.id = nextId, rules' = Append(rules, r),
         nextId' = nextId + 1
  PROVE  RulesOK' /\ RuleIds' = RuleIds \cup {nextId}
<1>1. /\ rules' \in Seq(Rule) /\ Len(rules') = Len(rules) + 1
      /\ \A k \in 1..Len(rules) : rules'[k] = rules[k]
      /\ rules'[Len(rules) + 1] = r
  BY AppendProperties DEF RulesOK
<1>2. /\ DOMAIN rules = 1..Len(rules) /\ Len(rules) \in Nat
      /\ DOMAIN rules' = 1..Len(rules) + 1
  BY <1>1, RuleTypes, LenProperties
<1>3. \A k \in 1..Len(rules) + 1 : rules'[k] = IF k <= Len(rules) THEN rules[k] ELSE r
  BY <1>1, <1>2
<1>4. \A k \in 1..Len(rules) : rules[k].id \in Nat /\ rules[k].id < nextId
  <2> SUFFICES ASSUME NEW k \in 1..Len(rules) PROVE rules[k].id \in Nat /\ rules[k].id < nextId
    OBVIOUS
  <2>1. rules[k] \in Rule
    BY DEF RulesOK
  <2> QED
    BY <2>1, AlertsAssumption DEF RulesOK, Rule, Ids
<1>5. RulesOK'
  BY <1>1, <1>2, <1>3, <1>4 DEF RulesOK
<1>6. ASSUME NEW x PROVE x \in RuleIds' <=> x \in RuleIds \cup {nextId}
  <2>1. x \in RuleIds' <=> \E k \in 1..Len(rules) + 1 : x = rules'[k].id
    BY <1>2 DEF RuleIds, RuleSet
  <2>2. x \in RuleIds <=> \E k \in 1..Len(rules) : x = rules[k].id
    BY <1>2 DEF RuleIds, RuleSet
  <2> QED
    BY <1>2, <1>3, <2>1, <2>2
<1> QED
  BY <1>5, <1>6

\* What is left of a sequence when one entry is taken out.
LEMMA RemoveAtProperties ==
  ASSUME NEW S, NEW s \in Seq(S), NEW i \in 1..Len(s)
  PROVE  /\ RemoveAt(s, i) \in Seq(S) /\ Len(RemoveAt(s, i)) = Len(s) - 1
         /\ \A k \in 1..Len(s) - 1 : RemoveAt(s, i)[k] = IF k < i THEN s[k] ELSE s[k + 1]
<1> DEFINE a == SubSeq(s, 1, i - 1)
           b == SubSeq(s, i + 1, Len(s))
<1>1. Len(s) \in Nat /\ i \in Nat /\ \A k \in 1..Len(s) : s[k] \in S
  BY LenProperties
<1>2. \A k \in 1..i - 1 : s[k] \in S
  BY <1>1
<1>3. \A k \in i + 1..Len(s) : s[k] \in S
  BY <1>1
<1>4. a \in Seq(S) /\ Len(a) = i - 1 /\ \A k \in 1..i - 1 : a[k] = s[k]
  <2>1. /\ a \in Seq(S) /\ Len(a) = (IF 1 <= i - 1 THEN i - 1 - 1 + 1 ELSE 0)
        /\ \A k \in 1..i - 1 - 1 + 1 : a[k] = s[1 + k - 1]
    BY <1>1, <1>2, SubSeqProperties
  <2> HIDE DEF a
  <2> QED
    BY <1>1, <2>1
<1>5. b \in Seq(S) /\ Len(b) = Len(s) - i /\ \A k \in 1..Len(s) - i : b[k] = s[k + i]
  <2>1. /\ b \in Seq(S) /\ Len(b) = (IF i + 1 <= Len(s) THEN Len(s) - (i + 1) + 1 ELSE 0)
        /\ \A k \in 1..Len(s) - (i + 1) + 1 : b[k] = s[i + 1 + k - 1]
    BY <1>1, <1>3, SubSeqProperties
  <2> HIDE DEF b
  <2> QED
    BY <1>1, <2>1
<1>6. RemoveAt(s, i) = a \o b
  BY DEF RemoveAt
<1> HIDE DEF a, b
<1>7. /\ a \o b \in Seq(S) /\ Len(a \o b) = Len(a) + Len(b)
      /\ \A k \in 1..Len(a) + Len(b) : (a \o b)[k] = IF k <= Len(a) THEN a[k] ELSE b[k - Len(a)]
  BY <1>4, <1>5, ConcatProperties
<1>8. ASSUME NEW k \in 1..Len(s) - 1 PROVE (a \o b)[k] = IF k < i THEN s[k] ELSE s[k + 1]
  <2>1. k \in 1..Len(a) + Len(b) /\ k \in Nat
    BY <1>1, <1>4, <1>5
  <2>2. CASE k < i
    BY <1>1, <1>4, <1>7, <2>1, <2>2
  <2>3. CASE ~(k < i)
    <3>1. k - Len(a) \in 1..Len(s) - i /\ k - Len(a) + i = k + 1
      BY <1>1, <1>4, <2>1, <2>3
    <3>2. (a \o b)[k] = b[k - Len(a)]
      BY <1>1, <1>4, <1>7, <2>1, <2>3
    <3>3. b[k - Len(a)] = s[k - Len(a) + i]
      BY <1>5, <3>1
    <3> QED
      BY <2>3, <3>1, <3>2, <3>3
  <2> QED
    BY <2>2, <2>3
<1> QED
  BY <1>1, <1>4, <1>5, <1>6, <1>7, <1>8

\* A rule taken out.
LEMMA Removed ==
  ASSUME RulesOK, NEW i \in DOMAIN rules, rules' = RemoveAt(rules, i), nextId' = nextId
  PROVE  RulesOK' /\ RuleIds' = RuleIds \ {rules[i].id}
<1>1. DOMAIN rules = 1..Len(rules) /\ Len(rules) \in Nat /\ i \in 1..Len(rules) /\ i \in Nat
  BY RuleTypes
<1>4. /\ rules' \in Seq(Rule) /\ Len(rules') = Len(rules) - 1
      /\ DOMAIN rules' = 1..Len(rules) - 1
      /\ \A k \in 1..Len(rules) - 1 : rules'[k] = IF k < i THEN rules[k] ELSE rules[k + 1]
  <2>1. /\ rules' \in Seq(Rule) /\ Len(rules') = Len(rules) - 1
        /\ \A k \in 1..Len(rules) - 1 : rules'[k] = IF k < i THEN rules[k] ELSE rules[k + 1]
    <3>1. rules \in Seq(Rule)
      BY DEF RulesOK
    <3>2. /\ RemoveAt(rules, i) \in Seq(Rule) /\ Len(RemoveAt(rules, i)) = Len(rules) - 1
          /\ \A k \in 1..Len(rules) - 1 :
               RemoveAt(rules, i)[k] = IF k < i THEN rules[k] ELSE rules[k + 1]
      BY <1>1, <3>1, RemoveAtProperties
    <3> QED
      BY <3>2
  <2> QED
    BY <2>1, LenProperties
<1>5. RulesOK'
  <2>1. ASSUME NEW k \in 1..Len(rules')
        PROVE  \E m \in 1..Len(rules) : /\ rules'[k] = rules[m]
                                         /\ m = IF k < i THEN k ELSE k + 1
    BY <1>1, <1>4
  <2>2. \A k \in 1..Len(rules') : rules'[k].id < nextId'
    BY <2>1 DEF RulesOK
  <2>3. ASSUME NEW k \in 1..Len(rules'), NEW l \in 1..Len(rules'), rules'[k].id = rules'[l].id
        PROVE  k = l
    <3>1. PICK m \in 1..Len(rules) : rules'[k] = rules[m] /\ m = IF k < i THEN k ELSE k + 1
      BY <2>1
    <3>2. PICK n \in 1..Len(rules) : rules'[l] = rules[n] /\ n = IF l < i THEN l ELSE l + 1
      BY <2>1
    <3>3. m = n
      BY <2>3, <3>1, <3>2 DEF RulesOK
    <3> QED
      BY <1>1, <1>4, <3>1, <3>2, <3>3
  <2> QED
    BY <1>4, <2>2, <2>3 DEF RulesOK
<1>6. ASSUME NEW x PROVE x \in RuleIds' <=> x \in RuleIds /\ x # rules[i].id
  <2>1. x \in RuleIds' <=> \E k \in 1..Len(rules) - 1 : x = rules'[k].id
    BY <1>4 DEF RuleIds, RuleSet
  <2>2. x \in RuleIds <=> \E k \in 1..Len(rules) : x = rules[k].id
    BY <1>1 DEF RuleIds, RuleSet
  <2>3. ASSUME NEW k \in 1..Len(rules) - 1, x = rules'[k].id
        PROVE  x \in RuleIds /\ x # rules[i].id
    BY <1>1, <1>4, <2>2, <2>3 DEF RulesOK
  <2>4. ASSUME NEW k \in 1..Len(rules), x = rules[k].id, k # i
        PROVE  \E l \in 1..Len(rules) - 1 : x = rules'[l].id
    <3>1. CASE k < i
      BY <1>1, <1>4, <2>4, <3>1
    <3>2. CASE k > i
      <4>1. k - 1 \in 1..Len(rules) - 1 /\ rules'[k - 1] = rules[k]
        BY <1>1, <1>4, <3>2
      <4> QED
        BY <2>4, <4>1
    <3> QED
      BY <1>1, <2>4, <3>1, <3>2
  <2> QED
    BY <2>1, <2>2, <2>3, <2>4
<1> QED
  BY <1>5, <1>6

-----------------------------------------------------------------------------
(* One lemma for each action.                                              *)

\* The rules that are left, and nothing else, have states, runs and alarms.
LEMMA RemoveKeeps ==
  ASSUME AlertsInv, NEW id \in Ids, RemoveRule(id) PROVE AlertsInv'
<1>1. PICK i \in DOMAIN rules : rules[i].id = id /\ rules' = RemoveAt(rules, i)
  BY DEF RemoveRule
<1>2. /\ states' = [x \in DOMAIN states \ {id} |-> states[x]]
      /\ fired' = {} /\ run' = [run EXCEPT ![id] = 0] /\ open' = open \ {id}
      /\ t' = t /\ nextId' = nextId
  BY DEF RemoveRule
<1>3. RulesOK' /\ RuleIds' = RuleIds \ {id}
  BY <1>1, <1>2, Removed DEF AlertsInv
<1>4. DOMAIN states' = DOMAIN states \ {id} /\ \A x \in DOMAIN states' : states'[x] = states[x]
  BY <1>2
<1>5. \A x \in RuleIds' : StateOf(x)' = StateOf(x)
  BY <1>3, <1>4 DEF StateOf
<1>6. StatesOK'
  BY <1>3, <1>4 DEF AlertsInv, StatesOK
<1>7. RunsOK'
  <2>1. run' \in [Ids -> Nat] /\ \A x \in Ids : run'[x] = IF x = id THEN 0 ELSE run[x]
    BY <1>2 DEF AlertsInv, RunsOK
  <2>2. RuleIds' \subseteq Ids
    BY <1>3, RuleTypes DEF AlertsInv
  <2> QED
    BY <1>2, <1>3, <1>5, <2>1, <2>2 DEF AlertsInv, RunsOK
<1>8. FiringIsLogged'
  BY <1>2, <1>3, <1>5 DEF AlertsInv, FiringIsLogged, FiringIds
<1>9. HoldsBeforeFiring'
  BY <1>2 DEF HoldsBeforeFiring
<1> QED
  BY <1>3, <1>6, <1>7, <1>8, <1>9 DEF AlertsInv

LEMMA AddKeeps ==
  ASSUME AlertsInv, AddRule PROVE AlertsInv'
<1>1. PICK q \in Quantities, above \in BOOLEAN, l \in Limits, h \in Holds :
        rules' = Append(rules, NewRule(q, above, l, h))
  BY DEF AddRule
<1> DEFINE r == NewRule(q, above, l, h)
<1>2. /\ nextId <= MaxRules /\ nextId' = nextId + 1 /\ fired' = {}
      /\ UNCHANGED <<t, states, run, open>>
  BY DEF AddRule
<1>3. nextId \in Ids
  BY <1>2, AlertsAssumption DEF AlertsInv, RulesOK, Ids
<1>4. r \in Rule /\ r.id = nextId
  BY <1>3 DEF NewRule, Rule
<1>5. RulesOK' /\ RuleIds' = RuleIds \cup {nextId} /\ nextId \notin RuleIds
  <2> HIDE DEF r
  <2>1. rules' = Append(rules, r)
    BY <1>1 DEF r
  <2> QED
    BY <1>2, <1>4, <2>1, Added, RuleTypes DEF AlertsInv
<1>6. \A x \in Ids : StateOf(x)' = StateOf(x)
  BY <1>2 DEF StateOf
<1>7. StateOf(nextId) = Ok
  BY <1>5 DEF AlertsInv, StatesOK, StateOf
<1>8. RuleIds' \subseteq Ids
  BY <1>3, <1>5, RuleTypes DEF AlertsInv
<1>9. StatesOK'
  BY <1>2, <1>5 DEF AlertsInv, StatesOK
<1>10. RunsOK'
  <2>1. run[nextId] = 0
    BY <1>3, <1>5 DEF AlertsInv, RunsOK
  <2>2. ASSUME NEW id \in RuleIds'
        PROVE  /\ StateOf(id)'.is = "ok" => run'[id] = 0
               /\ StateOf(id)'.is = "pending" => run'[id] > 0 /\ StateOf(id)'.since = run'[id]
    <3>1. CASE id \in RuleIds
      BY <1>2, <1>6, <1>8, <3>1 DEF AlertsInv, RunsOK
    <3>2. CASE id = nextId
      BY <1>2, <1>3, <1>6, <1>7, <2>1, <3>2 DEF Ok
    <3> QED
      BY <1>5, <3>1, <3>2
  <2> QED
    BY <1>2, <1>5, <2>2 DEF AlertsInv, RunsOK
<1>11. FiringIsLogged'
  <2>1. StateOf(nextId).is # "firing"
    BY <1>7 DEF Ok
  <2> QED
    BY <1>2, <1>3, <1>5, <1>6, <1>8, <2>1 DEF AlertsInv, FiringIsLogged, FiringIds
<1>12. HoldsBeforeFiring'
  BY <1>2 DEF HoldsBeforeFiring
<1> QED
  BY <1>5, <1>9, <1>10, <1>11, <1>12 DEF AlertsInv

\* A rule changes under its id; its state and its run are what they were.
LEMMA EditKeeps ==
  ASSUME AlertsInv, Edit PROVE AlertsInv'
<1>1. PICK i \in DOMAIN rules, on \in BOOLEAN, above \in BOOLEAN, l \in Limits, h \in Holds :
        rules' = [rules EXCEPT ![i] = [rules[i] EXCEPT !.enabled = on, !.above = above,
                                                       !.limit = l, !.hold = h]]
  BY DEF Edit
<1> DEFINE r == [rules[i] EXCEPT !.enabled = on, !.above = above, !.limit = l, !.hold = h]
<1>2. fired' = {} /\ UNCHANGED <<t, states, log, nextId, primed, run, open>>
  BY DEF Edit
<1>3. DOMAIN rules = 1..Len(rules) /\ Len(rules) \in Nat /\ rules \in Seq(Rule)
  BY RuleTypes DEF AlertsInv, RulesOK
<1>4. rules[i] \in Rule
  BY <1>3
<1>5. r \in Rule /\ r.id = rules[i].id
  BY <1>4 DEF Rule
<1> HIDE DEF r
<1>6. rules' = [rules EXCEPT ![i] = r]
  BY <1>1 DEF r
<1>7. /\ rules' \in Seq(Rule) /\ Len(rules') = Len(rules) /\ DOMAIN rules' = DOMAIN rules
      /\ \A k \in 1..Len(rules) : rules'[k].id = rules[k].id
  BY <1>3, <1>5, <1>6
<1>8. RulesOK'
  BY <1>2, <1>7 DEF AlertsInv, RulesOK
<1>9. RuleIds' = RuleIds
  <2>1. RuleIds' = {rules'[k].id : k \in 1..Len(rules)} /\ RuleIds = {rules[k].id : k \in 1..Len(rules)}
    BY <1>3, <1>7 DEF RuleIds, RuleSet
  <2> QED
    BY <1>7, <2>1
<1> QED
  BY <1>2, <1>8, <1>9
  DEF AlertsInv, StatesOK, StateOf, RunsOK, FiringIsLogged, FiringIds, HoldsBeforeFiring

\* A new session, or time.
LEMMA ResetKeeps ==
  ASSUME AlertsInv, OnConnected \/ Wait PROVE AlertsInv'
<1>1. CASE OnConnected
  <2>1. /\ states' = <<>> /\ fired' = {} /\ run' = [id \in Ids |-> 0] /\ open' = {}
        /\ UNCHANGED <<t, rules, log, nextId>>
    BY <1>1 DEF OnConnected
  <2>2. RulesOK' /\ RuleIds' = RuleIds /\ RuleIds \subseteq Ids
    BY <2>1, RuleTypes DEF AlertsInv, RulesOK, RuleIds, RuleSet
  <2>3. DOMAIN states' = {} /\ \A id \in Ids : StateOf(id)' = Ok
    BY <2>1 DEF StateOf
  <2>4. StatesOK' /\ RunsOK'
    BY <2>1, <2>2, <2>3 DEF AlertsInv, StatesOK, RunsOK, Ok
  <2>5. FiringIsLogged' /\ HoldsBeforeFiring'
    BY <2>1, <2>2, <2>3 DEF FiringIsLogged, FiringIds, HoldsBeforeFiring, Ok
  <2> QED
    BY <2>2, <2>4, <2>5 DEF AlertsInv
<1>2. CASE Wait
  <2>1. t' = t + 1 /\ fired' = {} /\ UNCHANGED <<rules, states, log, nextId, primed, run, open>>
    BY <1>2 DEF Wait
  <2>2. RuleIds' = RuleIds /\ (\A id : StateOf(id)' = StateOf(id)) /\ RulesOK' /\ StatesOK'
    BY <2>1 DEF AlertsInv, RulesOK, StatesOK, RuleIds, RuleSet, StateOf
  <2>3. RunsOK'
    BY <2>1, <2>2 DEF AlertsInv, RunsOK
  <2> QED
    BY <2>1, <2>2, <2>3 DEF AlertsInv, FiringIsLogged, FiringIds, HoldsBeforeFiring
<1> QED
  BY <1>1, <1>2

-----------------------------------------------------------------------------
(* A sample.                                                               *)

\* What the verdict on a rule may be.
LEMMA VerdictIs ==
  ASSUME StatesOK, t \in Nat, NEW r, r.enabled \in BOOLEAN, NEW d
  PROVE  /\ Verdict(r, d) \in State
         /\ ~(r.enabled /\ Breached(r, d)) => Verdict(r, d) = Ok
         /\ r.enabled /\ Breached(r, d) =>
              /\ StateOf(r.id).is = "firing" => Verdict(r, d) = StateOf(r.id)
              /\ StateOf(r.id).is = "ok" =>
                   Verdict(r, d) = IF r.hold = 0 THEN Firing(t) ELSE Pending(t)
              /\ StateOf(r.id).is = "pending" =>
                   Verdict(r, d) = IF StateOf(r.id).since + r.hold <= t THEN Firing(t)
                                   ELSE StateOf(r.id)
<1>1. StateOf(r.id) \in State
  BY StateType
<1>2. StateOf(r.id).is \in {"ok", "pending", "firing"}
  BY <1>1 DEF State
<1>3. Ok \in State /\ Firing(t) \in State /\ Pending(t) \in State
  BY DEF Ok, Firing, Pending, State
<1>4. CASE ~r.enabled
  BY <1>3, <1>4 DEF Verdict
<1>5. CASE r.enabled /\ ~Breached(r, d)
  BY <1>3, <1>5 DEF Verdict
<1>6. CASE r.enabled /\ Breached(r, d)
  BY <1>1, <1>2, <1>3, <1>6 DEF Verdict
<1> QED
  BY <1>4, <1>5, <1>6

\* A sample, rule by rule.
LEMMA EvaluateIs ==
  ASSUME AlertsInv, NEW d, Evaluate(d), UNCHANGED <<t, rules, nextId>>,
         NEW id \in RuleIds
  PROVE  LET r == RuleOf(id)
             hit == r.enabled /\ Breached(r, d)
         IN /\ r \in RuleSet /\ r.id = id /\ r.enabled \in BOOLEAN /\ id \in Ids
            /\ StateOf(id)' = Verdict(r, d)
            /\ run'[id] = IF ~hit THEN 0 ELSE IF run[id] = 0 THEN t ELSE run[id]
            /\ id \in fired' <=> Fires(r, d)
            /\ id \in open' <=> (id \in open \/ Fires(r, d)) /\ ~Resolves(r, d) /\ r.enabled
<1> DEFINE r == RuleOf(id)
           hit == r.enabled /\ Breached(r, d)
           hits == {x \in RuleIds : RuleOf(x).enabled /\ Breached(RuleOf(x), d)}
<1>1. r \in RuleSet /\ r.id = id
  BY RuleOfIs
<1>2. r.enabled \in BOOLEAN /\ id \in Ids
  BY <1>1, RuleTypes DEF AlertsInv, Rule
<1>3. states' = [x \in DOMAIN states \cup RuleIds |->
                   IF x \in RuleIds THEN Verdict(RuleOf(x), d) ELSE states[x]]
  BY DEF Evaluate
<1>4. id \in DOMAIN states' /\ states'[id] = Verdict(r, d)
  BY <1>3
<1>5. StateOf(id)' = Verdict(r, d)
  BY <1>4 DEF StateOf
<1>6. /\ run' = [x \in Ids |-> IF x \notin hits THEN 0 ELSE IF run[x] = 0 THEN t ELSE run[x]]
      /\ fired' = {x \in RuleIds : Fires(RuleOf(x), d)}
      /\ open' = (open \cup fired') \ ({x \in RuleIds : Resolves(RuleOf(x), d)}
                                         \cup {x \in RuleIds : ~RuleOf(x).enabled})
  BY DEF Evaluate, Watched
<1>7. run'[id] = IF ~hit THEN 0 ELSE IF run[id] = 0 THEN t ELSE run[id]
  BY <1>2, <1>6
<1>8. id \in fired' <=> Fires(r, d)
  BY <1>6
<1>9. id \in open' <=> (id \in open \/ Fires(r, d)) /\ ~Resolves(r, d) /\ r.enabled
  BY <1>6, <1>8
<1> QED
  BY <1>1, <1>2, <1>5, <1>7, <1>8, <1>9

LEMMA EvaluateKeeps ==
  ASSUME AlertsInv, NEW d, Evaluate(d), UNCHANGED <<t, rules, nextId>> PROVE AlertsInv'
<1>1. RulesOK' /\ RuleIds' = RuleIds /\ RuleIds \subseteq Ids
  BY RuleTypes DEF AlertsInv, RulesOK, RuleIds, RuleSet
<1>2. t \in Nat \ {0} /\ StatesOK
  BY DEF AlertsInv, RunsOK
<1>3. ASSUME NEW id \in RuleIds
      PROVE  /\ StateOf(id)' \in State
             /\ run'[id] \in Nat /\ run'[id] <= t
             /\ StateOf(id)'.is = "ok" => run'[id] = 0
             /\ StateOf(id)'.is = "pending" => run'[id] > 0 /\ StateOf(id)'.since = run'[id]
             /\ StateOf(id)'.is = "firing" <=> id \in open'
             /\ id \in fired' => \E r \in RuleSet : r.id = id /\ run'[id] > 0 /\ run'[id] + r.hold <= t
  <2> DEFINE r == RuleOf(id)
             prev == StateOf(id)
  <2>1. /\ r \in RuleSet /\ r.id = id /\ r.enabled \in BOOLEAN /\ id \in Ids
        /\ StateOf(id)' = Verdict(r, d)
        /\ run'[id] = IF ~(r.enabled /\ Breached(r, d)) THEN 0 ELSE IF run[id] = 0 THEN t ELSE run[id]
        /\ id \in fired' <=> Fires(r, d)
        /\ id \in open' <=> (id \in open \/ Fires(r, d)) /\ ~Resolves(r, d) /\ r.enabled
    BY EvaluateIs
  <2>2. prev \in State /\ prev.is \in {"ok", "pending", "firing"}
    BY <1>2, StateType DEF State
  <2>3. /\ run[id] \in Nat /\ run[id] <= t
        /\ prev.is = "ok" => run[id] = 0
        /\ prev.is = "pending" => run[id] > 0 /\ prev.since = run[id]
    BY <2>1 DEF AlertsInv, RunsOK
  <2>4. prev.is = "firing" <=> id \in open
    BY DEF AlertsInv, FiringIsLogged, FiringIds
  <2>5. Fires(r, d) <=> r.enabled /\ Breached(r, d) /\ prev.is # "firing" /\ Verdict(r, d).is = "firing"
    BY <2>1 DEF Fires
  <2>6. Resolves(r, d) <=> r.enabled /\ ~Breached(r, d) /\ prev.is = "firing"
    BY <2>1 DEF Resolves
  <2>7. /\ Verdict(r, d) \in State
        /\ ~(r.enabled /\ Breached(r, d)) => Verdict(r, d) = Ok
        /\ r.enabled /\ Breached(r, d) =>
             /\ prev.is = "firing" => Verdict(r, d) = prev
             /\ prev.is = "ok" => Verdict(r, d) = IF r.hold = 0 THEN Firing(t) ELSE Pending(t)
             /\ prev.is = "pending" =>
                  Verdict(r, d) = IF prev.since + r.hold <= t THEN Firing(t) ELSE prev
    BY <1>2, <2>1, VerdictIs
  <2> HIDE DEF r, prev
  <2>8. /\ Ok.is = "ok" /\ Firing(t).is = "firing" /\ Pending(t).is = "pending"
        /\ Pending(t).since = t
    BY DEF Ok, Firing, Pending
  <2>9. CASE ~(r.enabled /\ Breached(r, d))
    <3>1. run'[id] = 0 /\ 0 <= t /\ StateOf(id)' = Ok
      BY <1>2, <2>1, <2>7, <2>9
    <3>2. id \notin fired' /\ id \notin open'
      BY <2>1, <2>4, <2>5, <2>6, <2>9
    <3> QED
      BY <2>1, <2>7, <2>8, <2>9, <3>1, <3>2
  <2>10. CASE r.enabled /\ Breached(r, d)
    <3>1. run'[id] = (IF run[id] = 0 THEN t ELSE run[id]) /\ run'[id] \in Nat
          /\ run'[id] > 0 /\ run'[id] <= t
      BY <1>2, <2>1, <2>3, <2>10
    <3>2. CASE prev.is = "firing"
      BY <2>1, <2>2, <2>4, <2>5, <2>6, <2>7, <2>10, <3>1, <3>2
    <3>3. CASE prev.is = "ok"
      <4>1. run'[id] = t
        BY <2>3, <3>1, <3>3
      <4>2. r.hold = 0 => run'[id] + r.hold <= t
        BY <1>2, <4>1
      <4> QED
        BY <2>1, <2>4, <2>5, <2>6, <2>7, <2>8, <2>10, <3>1, <3>3, <4>1, <4>2
    <3>4. CASE prev.is = "pending"
      <4>1. run'[id] = prev.since
        BY <2>3, <3>1, <3>4
      <4> QED
        BY <2>1, <2>4, <2>5, <2>6, <2>7, <2>8, <2>10, <3>1, <3>4, <4>1
    <3> QED
      BY <2>2, <3>2, <3>3, <3>4
  <2> QED
    BY <2>9, <2>10
<1>4. DOMAIN states' \subseteq RuleIds /\ \A id \in DOMAIN states' : states'[id] = StateOf(id)'
  BY <1>2 DEF Evaluate, StatesOK, StateOf
<1>5. StatesOK'
  BY <1>1, <1>3, <1>4 DEF StatesOK
<1>6. RunsOK'
  <2>1. run' \in [Ids -> Nat] /\ \A id \in Ids \ RuleIds : run'[id] = 0
    BY <1>2 DEF Evaluate, Watched, AlertsInv, RunsOK
  <2>2. \A id \in Ids : run'[id] <= t /\ (id \notin RuleIds => run'[id] = 0)
    BY <1>2, <1>3, <2>1
  <2> QED
    BY <1>1, <1>2, <1>3, <2>1, <2>2 DEF RunsOK
<1>7. open' \subseteq RuleIds /\ fired' \subseteq RuleIds
  BY DEF Evaluate, Watched, AlertsInv, FiringIsLogged, FiringIds
<1>8. FiringIsLogged'
  BY <1>1, <1>3, <1>7 DEF FiringIsLogged, FiringIds
<1>9. HoldsBeforeFiring'
  BY <1>3, <1>7 DEF HoldsBeforeFiring, RuleWith, RuleSet
<1> QED
  BY <1>1, <1>5, <1>6, <1>8, <1>9 DEF AlertsInv

LEMMA SampleKeeps ==
  ASSUME AlertsInv, OnSample PROVE AlertsInv'
<1>1. UNCHANGED <<t, rules, nextId>>
  BY DEF OnSample
<1>2. CASE primed
  BY <1>1, <1>2, EvaluateKeeps DEF OnSample
<1>3. CASE ~primed
  <2>1. fired' = {} /\ UNCHANGED <<states, run, open>>
    BY <1>3 DEF OnSample
  <2> QED
    BY <1>1, <2>1 DEF AlertsInv, RulesOK, StatesOK, RunsOK, StateOf, RuleIds, RuleSet,
                      FiringIsLogged, FiringIds, HoldsBeforeFiring
<1> QED
  BY <1>2, <1>3

-----------------------------------------------------------------------------
(* The theorems.                                                           *)

LEMMA Initially == AlertsInit => AlertsInv
<1> SUFFICES ASSUME AlertsInit PROVE AlertsInv
  OBVIOUS
<1>1. /\ t = 1 /\ rules = <<>> /\ states = <<>> /\ nextId = 1
      /\ run = [id \in Ids |-> 0] /\ open = {} /\ fired = {}
  BY DEF AlertsInit
<1>2. RuleIds = {} /\ Len(rules) = 0 /\ rules \in Seq(Rule)
  BY <1>1 DEF RuleIds, RuleSet
<1>3. RulesOK /\ StatesOK /\ RunsOK
  BY <1>1, <1>2 DEF RulesOK, StatesOK, RunsOK
<1>4. FiringIsLogged /\ HoldsBeforeFiring
  BY <1>1, <1>2 DEF FiringIsLogged, FiringIds, HoldsBeforeFiring
<1> QED
  BY <1>3, <1>4 DEF AlertsInv

LEMMA Inductive == AlertsInv /\ [AlertsNext]_alertVars => AlertsInv'
<1> SUFFICES ASSUME AlertsInv, [AlertsNext]_alertVars PROVE AlertsInv'
  OBVIOUS
<1>1. CASE AddRule
  BY <1>1, AddKeeps
<1>2. CASE Edit
  BY <1>2, EditKeeps
<1>3. CASE OnSample
  BY <1>3, SampleKeeps
<1>4. CASE OnConnected \/ Wait
  BY <1>4, ResetKeeps
<1>5. ASSUME NEW id \in Ids, RemoveRule(id) PROVE AlertsInv'
  BY <1>5, RemoveKeeps
<1>6. CASE UNCHANGED alertVars
  BY <1>6 DEF alertVars, AlertsInv, RulesOK, StatesOK, RunsOK, StateOf, RuleIds, RuleSet,
              FiringIsLogged, FiringIds, HoldsBeforeFiring, RuleWith
<1> QED
  BY <1>1, <1>2, <1>3, <1>4, <1>5, <1>6 DEF AlertsNext

LEMMA Invariant == AlertsSpec => []AlertsInv
BY Initially, Inductive, PTL DEF AlertsSpec

\* For any rules, however they are edited while they are pending, and samples
\* at any distance: a rule fires only after a run of breaches as long as its
\* window.
THEOREM WindowsAreHeld == AlertsSpec => []HoldsBeforeFiring
<1>1. AlertsInv => HoldsBeforeFiring
  BY DEF AlertsInv
<1> QED
  BY <1>1, Invariant, PTL

\* For any order of samples, edits, removals and new sessions: what is shown as
\* firing is what has been logged and not yet resolved or hushed.
THEOREM AlarmsAreLogged == AlertsSpec => []FiringIsLogged
<1>1. AlertsInv => FiringIsLogged
  BY DEF AlertsInv
<1> QED
  BY <1>1, Invariant, PTL

\* A pending rule is pending since its own session's run of breaches began.
THEOREM SessionsKeepTheirWindows == AlertsSpec => []WindowsAreOfThisSession
<1>1. AlertsInv => WindowsAreOfThisSession
  BY DEF AlertsInv, RunsOK, WindowsAreOfThisSession
<1> QED
  BY <1>1, Invariant, PTL
=============================================================================
