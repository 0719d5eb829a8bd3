-------------------------------- MODULE Upnp --------------------------------
(***************************************************************************)
(* UpnpMapper (src/src/net/upnp.cpp) and what NetworkManager does with its *)
(* results (src/src/net/network.cpp): a search for a router in up to       *)
(* kMaxRetries attempts, two HTTP requests, a time limit on each; runs     *)
(* that a new one supersedes while their handlers still come; the refresh. *)
(*                                                                         *)
(* A run is its generation.  The router is external: it answers late, with *)
(* nonsense or never.                                                      *)
(***************************************************************************)
EXTENDS Naturals, Sequences

CONSTANTS
    kMaxRetries,
    MaxRuns       \* bound: calls of mapPort

ASSUME UpnpAssumption == kMaxRetries \in Nat \ {0} /\ MaxRuns \in Nat

Runs == 1 .. MaxRuns

VARIABLES
    m_generation, m_retryCount,
    job,            \* [Runs -> what is outstanding for the run]
    late,           \* the runs with a search timer that had run out as the answer came
    results,        \* what m_onResult was given, with the run that gave it
    notified,       \* how many of these notifyUpnpResult's lambda has handled
    m_upnpMapped,
    refresh         \* m_upnpRefreshTimer: is it armed, is its handler queued?

mapper == <<m_generation, m_retryCount, job, late, results>>
upnpVars == <<mapper, notified, m_upnpMapped, refresh>>

\* "pause" waits for the next attempt.  "describe" and "map" are requests: a name is resolved,
\* then connecting ("connect"), writing and reading ("waits") each wait for the router and
\* have their handler queued ("ready", "failed").  "missed": the time was up and the
\* operation goes on.
Over == [at |-> "over", op |-> "none", time |-> "off"]
Search == [at |-> "search", op |-> "receive", time |-> "armed"]
Pause == [at |-> "pause", op |-> "none", time |-> "armed"]
Request(at) == [at |-> at, op |-> "resolve", time |-> "armed"]

UpnpInit ==
    /\ m_generation = 0 /\ m_retryCount = 0
    /\ job = [g \in Runs |-> Over] /\ late = {}
    /\ results = <<>> /\ notified = 0
    /\ m_upnpMapped = FALSE
    /\ refresh = [armed |-> FALSE, due |-> FALSE]

\* A handler of a run that was superseded ends it in silence.
AnyRun(g) == TRUE
Current(g) == g = m_generation

Goes(g, j) == job' = [job EXCEPT ![g] = j] /\ UNCHANGED results

\* finish.
Reports(g, ok) ==
    results' = IF Current(g) THEN Append(results, [run |-> g, ok |-> ok]) ELSE results
Ends(g, ok) == job' = [job EXCEPT ![g] = Over] /\ Reports(g, ok)

\* On to the next step, if the run is still wanted.
GoesOn(g, j) == Goes(g, IF Current(g) THEN j ELSE Over)

-----------------------------------------------------------------------------
(* The search. *)

\* mapPort and discover: the question is sent, or there is no socket to send it from.
MapPort ==
    /\ m_generation < MaxRuns
    /\ m_generation' = m_generation + 1
    /\ m_retryCount' = 0
    /\ LET g == m_generation + 1 IN
       \/ Goes(g, Search)
       \/ UNCHANGED job /\ results' = Append(results, [run |-> g, ok |-> FALSE])
    /\ UNCHANGED late

\* Any answer disarms the timer; a handler of it that is queued already will still run.
SearchAnswered(g) ==
    /\ job[g].at = "search"
    /\ late' = IF job[g].time = "due" THEN late \cup {g} ELSE late
    /\ GoesOn(g, Request("describe")) \/ Ends(g, FALSE)
    /\ UNCHANGED <<m_generation, m_retryCount>>

\* The handler of the search's timer.
EndsInSilence(g) == Goes(g, Over)
OutOfTries(g) == Ends(g, FALSE)
NoAnswer(g) ==
    IF Current(g) /\ m_retryCount + 1 < kMaxRetries
    THEN m_retryCount' = m_retryCount + 1 /\ Goes(g, Pause)
    ELSE UNCHANGED m_retryCount /\ OutOfTries(g)

SearchTimesOut(g) ==
    /\ job[g].at = "search" /\ job[g].time = "due"
    /\ NoAnswer(g)
    /\ UNCHANGED <<m_generation, late>>

\* It looks at the flag the answer has set.
FlagIgnored(g) == NoAnswer(g)
FlagSeen(g) == UNCHANGED <<m_retryCount, job, results>>
LateTimeout(g) ==
    /\ g \in late
    /\ late' = late \ {g}
    /\ FlagSeen(g)
    /\ UNCHANGED m_generation

PauseEnds(g) ==
    /\ job[g].at = "pause" /\ job[g].time = "due"
    /\ GoesOn(g, Search) \/ Ends(g, FALSE)
    /\ UNCHANGED <<m_generation, m_retryCount, late>>

-----------------------------------------------------------------------------
(* The requests. *)

InRequest(g) == job[g].at \in {"describe", "map"}

Op(g, op) == Goes(g, [job[g] EXCEPT !.op = op])

Resolved(g) ==
    /\ InRequest(g) /\ job[g].op = "resolve"
    /\ Op(g, "connect") \/ Ends(g, FALSE)
    /\ UNCHANGED <<m_generation, m_retryCount, late>>

\* The router does its part, or the connection fails.
RouterActs(g) ==
    /\ InRequest(g) /\ job[g].op \in {"connect", "waits"}
    /\ Op(g, "ready") \/ Op(g, "failed")
    /\ UNCHANGED <<m_generation, m_retryCount, late>>

\* The handlers: there is more to do, or the answer is there and is what was asked for, or
\* is not.
Proceeds(g) ==
    /\ InRequest(g) /\ job[g].op \in {"ready", "failed"}
    /\ \/ job[g].op = "ready" /\ Op(g, "waits")
       \/ job[g].op = "ready" /\ job[g].at = "describe" /\ GoesOn(g, Request("map"))
       \/ job[g].op = "ready" /\ job[g].at = "map" /\ Ends(g, TRUE)
       \/ Ends(g, FALSE)
    /\ UNCHANGED <<m_generation, m_retryCount, late>>

\* The timer's handler cancels what the socket waits for: nothing, while the name is
\* resolved or a handler is queued.  Connecting may go on with the next address of the name.
CancelsNothing(op) == op
Cancels(op) == IF op \in {"connect", "waits"} THEN "failed" ELSE op
TriesNextAddress(g) == job[g].op = "connect" /\ Goes(g, [job[g] EXCEPT !.time = "missed"])
RequestTimesOut(g) ==
    /\ InRequest(g) /\ job[g].time = "due"
    /\ \/ LET op == job[g].op IN
          Goes(g, [job[g] EXCEPT !.op = Cancels(op),
                                 !.time = IF op \in {"resolve", "ready"} THEN "missed" ELSE "off"])
       \/ TriesNextAddress(g)
    /\ UNCHANGED <<m_generation, m_retryCount, late>>

TimeIsUp(g) ==
    /\ job[g].time = "armed"
    /\ Goes(g, [job[g] EXCEPT !.time = "due"])
    /\ UNCHANGED <<m_generation, m_retryCount, late>>

TimerHandled(g) == SearchTimesOut(g) \/ LateTimeout(g) \/ PauseEnds(g) \/ RequestTimesOut(g)
RequestHandled(g) == Resolved(g) \/ Proceeds(g)

-----------------------------------------------------------------------------
(* NetworkManager. *)

\* notifyUpnpResult's lambda.  A timer that is armed again forgets the wait before, but not
\* a handler that is queued.
NotifyUpnpResult ==
    /\ notified < Len(results)
    /\ notified' = notified + 1
    /\ LET ok == results[notified + 1].ok IN
       /\ m_upnpMapped' = ok
       /\ refresh' = IF ok THEN [refresh EXCEPT !.armed = TRUE] ELSE refresh
    /\ UNCHANGED mapper

RefreshIsDue ==
    /\ refresh.armed
    /\ refresh' = [armed |-> FALSE, due |-> TRUE]
    /\ UNCHANGED <<mapper, notified, m_upnpMapped>>

\* auto: is portForwardingMode still UpnpAuto?
Refresh(auto) ==
    /\ refresh.due
    /\ refresh' = [refresh EXCEPT !.due = FALSE]
    /\ IF auto THEN MapPort ELSE UNCHANGED mapper
    /\ UNCHANGED <<notified, m_upnpMapped>>

RetryUpnp ==
    /\ MapPort
    /\ m_upnpMapped' = FALSE
    /\ UNCHANGED <<notified, refresh>>

MapperStep(A) == A /\ UNCHANGED <<notified, m_upnpMapped, refresh>>
MapperNext ==
    \E g \in Runs : MapperStep(\/ TimeIsUp(g) \/ TimerHandled(g) \/ RequestHandled(g)
                              \/ SearchAnswered(g) \/ RouterActs(g))

\* Time passes and handlers that are queued run; the router need do nothing.
MapperFairness ==
    /\ \A g \in Runs :
          /\ WF_upnpVars(MapperStep(TimeIsUp(g)))
          /\ WF_upnpVars(MapperStep(TimerHandled(g)))
          /\ WF_upnpVars(MapperStep(RequestHandled(g)))
    /\ WF_upnpVars(NotifyUpnpResult)
=============================================================================
