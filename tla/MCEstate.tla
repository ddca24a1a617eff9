------------------------------- MODULE MCEstate -------------------------------
EXTENDS Estate

MCFold == [p \in Patterns |-> IF p = "Pool" THEN "pool" ELSE p]
Known(teaches, remembered, forgotten, deaths, exports) ==
    [teaches |-> teaches, remembered |-> remembered, forgotten |-> forgotten,
     deaths |-> deaths, exports |-> exports]
MCKnownLimits == {Known(4, 1, 1, 1, 0), Known(1, 1, 2, 1, 1), Known(0, 3, 1, 0, 1)}

Read(moments, lists, reports, coming) ==
    [moments |-> moments, lists |-> lists, reports |-> reports, coming |-> coming]
MCReadLimits == {Read(1, 1, 0, {0, 1}), Read(5, 0, 1, 1 .. 4), Read(8, 0, 2, {3, 4})}

Alert(cond, fires, tag, resource, name, labels) ==
    [cond |-> cond, firing |-> fires, tag |-> tag, resource |-> resource,
     name |-> name, labels |-> labels]
Hook(by, shape, alerts) == [by |-> by, shape |-> shape, alerts |-> alerts]
Latency(runbook) == Alert("latency", TRUE, "cards", Empty, "HighLatency", {<<"runbook", runbook>>})
Resolved == Alert("errors", FALSE, "cards", Empty, "ErrorRatio", {})
Nameless == Alert("nameless", TRUE, Empty, Empty, Empty, {})
Failures == Alert("failures", TRUE, Empty, "notifications", "Failures", {})
Alarm(fires) == Alert("lag", fires, "ledger", Empty, "Lag", {<<"QueueName", "ledger">>})
Fired == Alert("fired", TRUE, "smoke", Empty, "SmokeTest", {<<"probe_run", "1">>})
MCGroups ==
    {{Hook("relay", "alerts", <<Latency("v1")>>),
      Hook("forwarder", "alerts", <<Latency("v2"), Resolved>>)},
     {Hook("forwarder", "essentials", <<Failures>>),
      Hook("forwarder", "alerts", <<Latency("v1"), Nameless>>)},
     {Hook("forwarder", "other", <<>>), Hook("forwarder", "alerts", <<Resolved>>),
      Hook("bankops", "broken", <<>>)},
     {Hook("sns", "alarm", <<Alarm(TRUE), Alarm(FALSE)>>),
      Hook("bankops", "alerts", <<Fired>>)}}

Budget(events, patches, modes, requests, kills) ==
    [cards |-> events, patches |-> patches, modes |-> modes,
     requests |-> requests, kills |-> kills]
MCBudgets == {Budget(2, 0, {}, 0, 1), Budget(1, 2, {"lag"}, 0, 0),
              Budget(0, 1, {"crashloop"}, 2, 0), Budget(0, 2, {"crashloop", "latency"}, 0, 0)}

Chaos(on, sets, clears, failures, probes, breaks, txns) ==
    [on |-> on, sets |-> sets, clears |-> clears, failures |-> failures,
     probes |-> probes, breaks |-> breaks, txns |-> txns]
MCChaosLimits ==
    {Chaos({"notifications"}, 2, 1, 0, 0, 0, 0), Chaos({"notifications"}, 1, 1, 1, 0, 0, 0),
     Chaos({"notifications"}, 1, 0, 0, 1, 0, 0), Chaos({"notifications"}, 0, 0, 0, 1, 1, 0),
     Chaos({"ledger"}, 2, 1, 0, 0, 0, 1), Chaos({"payments"}, 1, 0, 0, 0, 0, 1)}

Drill(on, seconds, user, breaks) ==
    [on |-> on, seconds |-> seconds, user |-> user, breaks |-> breaks]
MCDrillLimits ==
    {Drill({"broker-down"}, 0, 1, 0), Drill({"broker-down"}, 1, 0, 1),
     Drill({"cards-timeouts"}, 3, 0, 0), Drill({"fraud-lag"}, 0, 1, 1)}
===============================================================================
