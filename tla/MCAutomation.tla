------------------------------ MODULE MCAutomation -------------------------------
(***************************************************************************)
(* Instances of AutomationService: two devices and rules about a battery.  *)
(* "top" and "charge" contend for slot 1; "charge" also writes slot 2 and  *)
(* notifies; "offline" raises an alert; an edit may leave "charge"         *)
(* without the hours of its time window.                                   *)
(***************************************************************************)
EXTENDS AutomationService

CONSTANT none

LowSoc == [kind |-> "metric", metric |-> "soc", op |-> "lt", threshold |-> 1]
Stale  == [kind |-> "metric", metric |-> "stale_s", op |-> "ge", threshold |-> 1]
Night  == [kind |-> "time_window", start |-> 22, end |-> 6]
Bad    == [kind |-> "malformed"]

Set(slot, value) == [type |-> "set_setting", enabled |-> TRUE, target |-> <<slot, "soc">>, value |-> value]
Say(type)        == [type |-> type, enabled |-> TRUE, message |-> "low", debounce |-> 1]

Rule(id, prio, on, match, conds, acts) ==
  [id |-> id, priority |-> prio, enabled |-> on, match |-> match, conds |-> conds, acts |-> acts]

Charge(on) == Rule("charge", 1, on, "all", <<LowSoc, Night>>, <<Set("s1", 5), Set("s2", 5), Say("notify")>>)
Top(on)    == Rule("top", 1, on, "any", <<Night>>, <<Set("s1", 9), Set("serial", 1)>>)
Gone       == Rule("offline", 0, TRUE, "all", <<Stale>>, <<Say("alert")>>)
Broken     == Rule("charge", 1, FALSE, "all", <<LowSoc, Bad>>, <<>>)

MCDevices == <<"d1", "d2">>
MCInitial == <<Charge(TRUE), Gone>>
MCBodies  == {Top(TRUE), Broken}
OneDevice == <<"d1">>
TwoBodies == {Charge(FALSE), Top(TRUE)}
MCSafe    == {<<"s1", "soc">>}
MCAtRisk  == {<<"s2", "soc">>}
MCNow     == [hour |-> 23, weekday |-> 5, day |-> 1231, rates |-> [h \in 0..23 |-> 1]]
MCRuns    == [t \in {"scheduler", "manual"} |-> 1]
NoRuns    == [t \in {"scheduler", "manual"} |-> 0]
OneRun    == [t \in {"scheduler", "manual"} |-> IF t = "scheduler" THEN 1 ELSE 0]
================================================================================
