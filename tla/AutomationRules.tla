------------------------------ MODULE AutomationRules ----------------------------
(***************************************************************************)
(* The rule engine (backend/app/automation/rules.py), a pure function of   *)
(* the stored rules and an evaluation context.                             *)
(*                                                                         *)
(* A rule is a record [id, conds, match, priority, enabled, acts].  A      *)
(* condition is a record with a "kind" and the parameters of that kind; an *)
(* action is a record with a "type": "set_setting" (target, value),        *)
(* "notify" or "alert" (message, debounce), and "enabled".  A target is    *)
(* <<slot, field>>, a slot standing for a section and its index.           *)
(* A context is [hour, weekday, day, rates, metrics]; metrics is a         *)
(* function whose domain is the metrics that are there, rates the import   *)
(* rate of every hour.                                                     *)
(***************************************************************************)
EXTENDS Integers, Sequences, FiniteSets, SequencesExt

CONSTANTS
  Safe,          \* targets the profile marks automation-safe
  AtRisk,        \* other writable targets
  NoTarget       \* an action whose target is not chosen yet

--------------------------------------------------------------------------------
(* Conditions.                                                             *)

\* compare
Compare(v, op, threshold) ==
  \/ op = "lt" /\ v < threshold
  \/ op = "le" /\ v <= threshold
  \/ op = "gt" /\ v > threshold
  \/ op = "ge" /\ v >= threshold
  \/ op = "eq" /\ v = threshold
  \/ op = "ne" /\ v # threshold

\* A half-open window of a cycle; start = end means never.
InHourWindow(hour, start, end) ==
  \/ start < end /\ start <= hour /\ hour < end
  \/ start > end /\ (hour >= start \/ hour < end)

\* An inclusive range of month-days, which may wrap the year.
InDateRange(day, lo, hi) ==
  \/ lo <= hi /\ lo <= day /\ day <= hi
  \/ lo > hi /\ (day >= lo \/ day <= hi)

\* The active rate is the cheapest, or the dearest, of the day.
CurrentRateIs(rates, hour, want) ==
  \/ want = "cheapest" /\ \A h \in DOMAIN rates : rates[hour] <= rates[h]
  \/ want = "peak"     /\ \A h \in DOMAIN rates : rates[hour] >= rates[h]

\* evaluate_condition, for a condition whose parameters are all there.
Holds(c, ctx) ==
  CASE c.kind = "day_of_week"   -> ctx.weekday \in c.days
    [] c.kind = "time_window"   -> InHourWindow(ctx.hour, c.start, c.end)
    [] c.kind = "date_range"    -> InDateRange(ctx.day, c.start, c.end)
    [] c.kind = "metric"        -> /\ c.metric \in DOMAIN ctx.metrics
                                   /\ Compare(ctx.metrics[c.metric], c.op, c.threshold)
    [] c.kind = "tariff_window" -> CurrentRateIs(ctx.rates, ctx.hour, c.window)

\* A stored condition may lack its parameters: evaluating it raises an exception.
Malformed(c) == c.kind = "malformed"

\* Conditions are evaluated in order and lazily: the rule's evaluation raises when it reaches
\* a malformed condition undecided.
Raises(rule, ctx) ==
  \E i \in DOMAIN rule.conds :
    /\ Malformed(rule.conds[i])
    /\ \A j \in 1..(i - 1) : /\ ~Malformed(rule.conds[j])
                             /\ Holds(rule.conds[j], ctx) = (rule.match = "all")

\* rule_matches: a rule without conditions never matches.
Matches(rule, ctx) ==
  /\ rule.conds # <<>>
  /\ LET holds(i) == ~Malformed(rule.conds[i]) /\ Holds(rule.conds[i], ctx)
     IN IF rule.match = "all"
        THEN \A i \in DOMAIN rule.conds : holds(i)
        ELSE \E i \in DOMAIN rule.conds : holds(i)

--------------------------------------------------------------------------------
(* Decision.                                                               *)

\* AllowList.status
Status(target) == IF target \in Safe THEN "ok" ELSE IF target \in AtRisk THEN "at_risk" ELSE "blocked"

\* What the matching rules propose, in the order of the rules and of their actions.
Proposals(rules, ctx) ==
  LET of(rule) == IF Matches(rule, ctx)
                  THEN [j \in DOMAIN rule.acts |->
                         [rule |-> rule.id, priority |-> rule.priority, action |-> rule.acts[j],
                          active |-> rule.enabled /\ rule.acts[j].enabled]]
                  ELSE <<>>
  IN FlattenSeq([i \in DOMAIN rules |-> of(rules[i])])

OfType(props, type) == SelectSeq(props, LAMBDA p : p.action.type = type)

\* A set_setting action whose target has been chosen.
SetsTarget(p) == p.action.type = "set_setting" /\ p.action.target # NoTarget

Targets(props) == {props[i].action.target : i \in {j \in DOMAIN props : SetsTarget(props[j])}}

\* Mutant: a later rule of the same priority takes the target over.
ContendLater(winners, p) ==
  LET key == p.action.target
  IN IF key \in DOMAIN winners /\ p.priority < winners[key].priority THEN winners
     ELSE [k \in DOMAIN winners \union {key} |-> IF k = key THEN p ELSE winners[k]]

\* One proposal contends for its target with the winner so far.
Contend(winners, p) ==
  LET key == p.action.target
  IN IF key \in DOMAIN winners /\ p.priority <= winners[key].priority THEN winners
     ELSE [k \in DOMAIN winners \union {key} |-> IF k = key THEN p ELSE winners[k]]

\* evaluate_rules: the winning proposal of every target, found while the proposals are collected.
\* (The others are kept only to be shown in the preview.)
Settle(props) ==
  LET winners[n \in 0 .. Len(props)] ==
        IF n = 0 THEN <<>>
        ELSE IF SetsTarget(props[n]) THEN Contend(winners[n - 1], props[n]) ELSE winners[n - 1]
  IN winners[Len(props)]

\* settings_to_apply
ToApply(winners) ==
  {k \in DOMAIN winners : winners[k].active /\ Status(k) # "blocked"}

\* notify_actions, then alert_actions.
Armed(props, type) == SelectSeq(OfType(props, type), LAMBDA p : p.active)
================================================================================
