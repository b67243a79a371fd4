------------------------------- MODULE LinkControl -------------------------------
(***************************************************************************)
(* Failing links: the events the simulator has scheduled on the links of a  *)
(* topology, and the receive error models they set.  LinkControlHelper      *)
(* (extern/ndnSIM/ndn-link-control-helper.cpp) names a link by its two      *)
(* nodes and looks it up among the devices of the first.                    *)
(***************************************************************************)
EXTENDS BriteTopology

CONSTANTS
  StopTime,    \* Simulator::Stop, in a unit that divides every time used
  Durations,   \* how long a failure may last, in that unit
  Outages      \* numbers of link errors a PIPS scenario is started with

(* With no link errors at all the PIPS scenarios divide by zero.            *)
ASSUME TimeAssumption ==
  /\ StopTime \in Nat
  /\ Durations \subseteq Nat
  /\ Outages \subseteq Nat \ {0}

VARIABLES
  now,         \* the time of the event run last
  running,     \* Simulator::Run was called
  events,      \* the events to come; those of one time run in the order of uid
  uid,         \* the next event's
  failures,    \* m_linkFailures, with the link that was drawn
  errorModel   \* <<link, end>> |-> the error rate set on that device, in percent

linkVars == <<now, running, events, uid, failures, errorModel>>

LinkInit ==
  /\ now = 0
  /\ running = FALSE
  /\ events = {}
  /\ uid = 0
  /\ failures = << >>
  /\ errorModel = << >>

-----------------------------------------------------------------------------
Ends(l) == {links[l].ends[1], links[l].ends[2]}
Devices(n) == {l \in DOMAIN links : n \in Ends(l)}

(* nodesConnected.  A node counts as connected to itself by any device.     *)
nodesConnected(a, b) == \E l \in Devices(a) : b \in Ends(l)

First(S) == CHOOSE i \in S : \A j \in S : i <= j

\* Mutant: the first device of the node, wherever its channel leads.
AnyDevice(n1, n2) == First(Devices(n1))
(* The channel setErrorRate takes: that of the first face of n1 whose other *)
(* end is n2.                                                               *)
LinkBetween(n1, n2) == First({l \in Devices(n1) : Ends(l) = {n1, n2}})

(* The error models when those of some devices are set, each to its rate.   *)
WithRates(rate) ==
  [d \in DOMAIN rate \cup DOMAIN errorModel |-> IF d \in DOMAIN rate THEN rate[d] ELSE errorModel[d]]

(* setErrorRate; a rate of 0 or less disables the model.                    *)
setErrorRate(n1, n2, rate) ==
  errorModel' = WithRates([d \in {LinkBetween(n1, n2)} \X {1, 2} |-> IF rate <= 0 THEN 0 ELSE rate])

FailLink(e) == setErrorRate(e.n1, e.n2, e.rate)

\* Mutant: an UpLink that leaves the rate as it is.
NeverUp(e) == UNCHANGED errorModel
UpLink(e) == setErrorRate(e.n1, e.n2, -10)

(* A failure as it is logged, and its pair of calls to Simulator::Schedule. *)
Failure(l, start, duration, rate) ==
  [link |-> l, start |-> start, stop |-> start + duration, rate |-> rate]

FailureEvents(f, id) ==
  LET n1 == links[f.link].ends[1]
      n2 == links[f.link].ends[2]
  IN  { [at |-> f.start, uid |-> id, op |-> "Fail", n1 |-> n1, n2 |-> n2, rate |-> f.rate],
        [at |-> f.stop, uid |-> id + 1, op |-> "Up", n1 |-> n1, n2 |-> n2, rate |-> f.rate] }

Log(fs) ==
  /\ failures' = failures \o fs
  /\ events' = events \cup UNION {FailureEvents(fs[i], uid + 2 * (i - 1)) : i \in DOMAIN fs}
  /\ uid' = uid + 2 * Len(fs)

(* The failures a PIPS scenario schedules before it runs: link errors at    *)
(* equal distances, each on a link of the topology and for a time drawn     *)
(* anew, so one may begin before the last one on its link is over.          *)
ScheduleOutages ==
  /\ ~running
  /\ failures = << >>
  /\ links # << >>
  /\ \E n \in Outages : \E link \in [1..n -> DOMAIN links], duration \in [1..n -> Durations] :
       Log([i \in 1..n |-> Failure(link[i], (i - 1) * (StopTime \div n), duration[i], 100)])
  /\ UNCHANGED <<now, running, errorModel>>

-----------------------------------------------------------------------------
Before(e, f) == e.at < f.at \/ (e.at = f.at /\ e.uid < f.uid)

(* Simulator::Run takes the earliest event, until the one of Stop.  Stop is *)
(* scheduled last, so what is due at that time still runs.                  *)
RunEvent ==
  /\ running
  /\ \E e \in events :
       /\ \A f \in events : f = e \/ Before(e, f)
       /\ e.at <= StopTime
       /\ now' = e.at
       /\ events' = events \ {e}
       /\ \/ e.op = "Fail" /\ FailLink(e)
          \/ e.op = "Up" /\ UpLink(e)
  /\ UNCHANGED <<running, uid, failures>>

Rate(l, end) == IF <<l, end>> \in DOMAIN errorModel THEN errorModel[<<l, end>>] ELSE 0
===============================================================================
