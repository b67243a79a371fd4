------------------------------- MODULE Scenarios -------------------------------
(***************************************************************************)
(* What the scenarios install (src/scenarios): the applications of a call,  *)
(* the node each is on and the prefix it produces or asks for, and the      *)
(* times it is given, in milliseconds.  A prefix is named by the end that   *)
(* produces under it; intervals the command line can change have their      *)
(* defaults, payload sizes and QCI classes are left out.                    *)
(***************************************************************************)
EXTENDS Naturals

(* The values of the approach parameter that do not end the program.        *)
ApproachOption == {"push", "prerequest", "standard"}

App(app, node, prefix) == [app |-> app, node |-> node, prefix |-> prefix]

Push(apps, refresh, probes) ==
  [apps |-> apps, refresh |-> refresh, lifetime |-> 5000, probes |-> probes]
Pull(apps, lookahead) == [apps |-> apps, lifetime |-> 1000, lookahead |-> lookahead]

(* Each end of a call produces under its own prefix and asks for the        *)
(* other's.                                                                 *)
BothWays(producer, consumer) ==
  { App(producer, "caller", "caller"), App(consumer, "caller", "callee"),
    App(producer, "callee", "callee"), App(consumer, "callee", "caller") }

Probed(ends) == {App("ProbeDataProducer", e, e) : e \in ends}

(* voip-topo: only the lowest-cost strategy gets probes, and someone to     *)
(* answer them.                                                             *)
VoipTopo(approach, strategy) ==
  CASE approach = "push" /\ strategy = "lowest-cost" ->
         Push(BothWays("PushProducer", "PushConsumer") \cup Probed({"caller", "callee"}), 2000, 30)
    [] approach = "push" /\ strategy # "lowest-cost" ->
         Push(BothWays("PushProducer", "PushConsumer"), 2000, 0)
    [] approach = "prerequest" -> Pull(BothWays("VoIPProducer", "VoipClientPre"), 250)
    [] approach = "standard" -> Pull(BothWays("VoIPProducer", "VoipClientPre"), 0)

BitvectorLength(approach) ==
  CASE approach = "push" -> Push(BothWays("PushProducer", "PushConsumer"), 1500, 0)
    [] approach = "prerequest" -> Pull(BothWays("VoIPProducer", "VoipClientPre"), 250)
    [] approach = "standard" -> Pull(BothWays("VoIPProducer", "VoipClientPre"), 0)

(* The PIPS scenarios: A and B are drawn, and may be one node.              *)
PIPS(strategy) ==
  Push(BothWays("PushProducer", "PushConsumer") \cup Probed({"caller", "callee"}), 1500,
       IF strategy = "lowest-cost" THEN 15 ELSE 0)
PIPSClassical == Pull(BothWays("VoIPProducer", "VoipClientPre"), 250)

(* The push scenarios.  In lowest-cost-scenario no one asks for what Prod2  *)
(* produces.                                                                *)
PushCircle ==
  Push({App("PushConsumer", "Cons1", "Prod0"), App("PushConsumer", "Cons2", "Prod0"),
        App("PushProducer", "Prod0", "Prod0")}, 1500, 0)
PushTwoConsumers ==
  Push({App("PushConsumer", "0", "/voip/00/app"), App("PushConsumer", "1", "/voip/01/app"),
        App("PushProducer", "3", "/voip/00/app"), App("PushProducer", "3", "/voip/01/app")}, 2000, 0)
LowestCost ==
  Push({App("PushConsumer", "Cons1", "Prod1"), App("PushProducer", "Prod1", "Prod1"),
        App("PushProducer", "Prod2", "Prod2")} \cup Probed({"Prod1", "Prod2"}), 2000, 30)

Strategy == {"lowest-cost", "multicast", "best-route"}

PushScenario ==
  {VoipTopo("push", s) : s \in Strategy} \cup {PIPS(s) : s \in Strategy}
  \cup {BitvectorLength("push"), PushCircle, PushTwoConsumers, LowestCost}
PullScenario ==
  {VoipTopo(a, s) : a \in {"prerequest", "standard"}, s \in Strategy}
  \cup {BitvectorLength("prerequest"), BitvectorLength("standard"), PIPSClassical}

-----------------------------------------------------------------------------
(* Whoever asks for a prefix asks for one that some application of the kind *)
(* it needs produces under, and whoever sends probes has them answered.     *)
PushServed(apps, probes) ==
  \A a \in apps : a.app = "PushConsumer" =>
    /\ \E b \in apps : b.app = "PushProducer" /\ b.prefix = a.prefix
    /\ probes = 0 \/ \E b \in apps : b.app = "ProbeDataProducer" /\ b.prefix = a.prefix
PullServed(apps) ==
  \A a \in apps : a.app = "VoipClientPre" =>
    \E b \in apps : b.app = "VoIPProducer" /\ b.prefix = a.prefix

Served ==
  /\ \A s \in PushScenario : PushServed(s.apps, s.probes)
  /\ \A s \in PullScenario : PullServed(s.apps)

(* A lost renewal is covered while the way takes less than a second, a way  *)
(* and back within the life of an Interest below half a second: what        *)
(* PushAssumption and PullAssumption ask, with Tolerated = 1.               *)
Covered ==
  /\ \A s \in PushScenario, delay \in 0..999 : 2 * s.refresh + delay < s.lifetime
  /\ \A s \in PullScenario, delay \in 0..499 : 2 * delay < s.lifetime
===============================================================================
