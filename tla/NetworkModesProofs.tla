------------------------- MODULE NetworkModesProofs -------------------------
(***************************************************************************)
(* Proofs about NetworkModes: the search for a router reports once per     *)
(* run, and never for a run that was superseded; through the relay both    *)
(* ends of a connection are told of it.                                    *)
(***************************************************************************)
EXTENDS NetworkModes, SequenceTheorems, TLAPS

Jobs == [at : {"over", "search", "pause", "describe", "map"},
         op : {"none", "receive", "resolve", "connect", "waits", "ready", "failed"},
         time : {"off", "armed", "due", "missed"}]

\* A run that is over has nothing outstanding, and a run with a result is over.
MapperInv ==
    /\ m_generation \in Nat /\ m_generation <= MaxRuns
    /\ job \in [Runs -> Jobs]
    /\ results \in Seq([run : Nat, ok : BOOLEAN])
    /\ \A g \in Runs : g > m_generation => job[g] = Over
    /\ \A g \in Runs : job[g].at = "over" => job[g] = Over
    /\ \A i \in DOMAIN results : results[i].run <= m_generation
    /\ \A i \in DOMAIN results : results[i].run \in Runs => job[results[i].run] = Over
    /\ ResultsInOrder

LEMMA JobTypes ==
    /\ Over \in Jobs /\ Search \in Jobs /\ Pause \in Jobs
    /\ Request("describe") \in Jobs /\ Request("map") \in Jobs
    /\ \A j \in Jobs : /\ [j EXCEPT !.time = "due"] \in Jobs
                       /\ [j EXCEPT !.time = "due"].at = j.at
                       /\ \A op \in {"connect", "waits", "ready", "failed"} :
                             /\ [j EXCEPT !.op = op] \in Jobs
                             /\ [j EXCEPT !.op = op].at = j.at
BY DEF Jobs, Over, Search, Pause, Request

LEMMA ResultTypes ==
    ASSUME results \in Seq([run : Nat, ok : BOOLEAN])
    PROVE  \A i \in DOMAIN results : results[i].run \in Nat
<1>1. DOMAIN results = 1 .. Len(results)
  OBVIOUS
<1>2. \A i \in 1 .. Len(results) : results[i] \in [run : Nat, ok : BOOLEAN]
  BY ElementOfSeq
<1> QED
  BY <1>1, <1>2

\* A run that is not over moves on.
LEMMA MovingOn ==
    ASSUME MapperInv, NEW g \in Runs, job[g].at # "over", NEW j \in Jobs,
           j.at = "over" => j = Over,
           Goes(g, j), UNCHANGED m_generation
    PROVE  MapperInv'
<1>1. g <= m_generation /\ job[g] # Over
  BY UpnpAssumption DEF MapperInv, Over, Runs
<1>2. job' \in [Runs -> Jobs]
  BY DEF MapperInv, Goes
<1>3. \A h \in Runs : h > m_generation' => job'[h] = Over
  BY <1>1, UpnpAssumption DEF MapperInv, Goes, Runs
<1>4. \A h \in Runs : job'[h].at = "over" => job'[h] = Over
  BY DEF MapperInv, Goes
<1>5. \A i \in DOMAIN results' : results'[i].run \in Runs => job'[results'[i].run] = Over
  BY <1>1 DEF MapperInv, Goes
<1> QED
  BY <1>2, <1>3, <1>4, <1>5 DEF MapperInv, Goes, ResultsInOrder

\* A result of a run that has none keeps the order, if no later run has one.
LEMMA OneMore ==
    ASSUME NEW r \in Nat, NEW ok \in BOOLEAN,
           results \in Seq([run : Nat, ok : BOOLEAN]), ResultsInOrder,
           \A i \in DOMAIN results : results[i].run < r,
           results' = Append(results, [run |-> r, ok |-> ok])
    PROVE  /\ results' \in Seq([run : Nat, ok : BOOLEAN])
           /\ ResultsInOrder'
           /\ \A i \in DOMAIN results' : results'[i].run = r \/ (i \in DOMAIN results /\ results'[i] = results[i])
<1>1. results' \in Seq([run : Nat, ok : BOOLEAN])
  OBVIOUS
<1>2. /\ Len(results') = Len(results) + 1
      /\ results'[Len(results) + 1] = [run |-> r, ok |-> ok]
      /\ \A i \in 1 .. Len(results) : results'[i] = results[i]
  OBVIOUS
<1>3. DOMAIN results = 1 .. Len(results) /\ DOMAIN results' = 1 .. Len(results) + 1
  BY <1>1, <1>2
<1>4. \A i \in DOMAIN results' : i = Len(results) + 1 \/ (i \in DOMAIN results /\ results'[i] = results[i])
  <2>1. Len(results) \in Nat
    OBVIOUS
  <2>2. \A i \in 1 .. Len(results) + 1 : i = Len(results) + 1 \/ i \in 1 .. Len(results)
    BY <2>1
  <2> SUFFICES ASSUME NEW i \in DOMAIN results', i # Len(results) + 1
               PROVE  i \in DOMAIN results /\ results'[i] = results[i]
    OBVIOUS
  <2>3. i \in 1 .. Len(results)
    BY <2>2, <1>3
  <2> QED
    BY <2>3, <1>2, <1>3
<1>5. ASSUME NEW i \in DOMAIN results', NEW k \in DOMAIN results', i < k
      PROVE  results'[i].run < results'[k].run
  <2>1. i \in DOMAIN results /\ results'[i] = results[i]
    BY <1>2, <1>3, <1>5
  <2>2. CASE k = Len(results) + 1
    BY <2>1, <2>2, <1>2
  <2>3. CASE k \in DOMAIN results /\ results'[k] = results[k]
    BY <2>1, <2>3, <1>5 DEF ResultsInOrder
  <2> QED
    BY <1>4, <2>2, <2>3
<1> QED
  BY <1>1, <1>2, <1>4, <1>5 DEF ResultsInOrder

\* A run that is not over ends, with a result if it is the latest.
LEMMA Ending ==
    ASSUME MapperInv, NEW g \in Runs, job[g].at # "over", NEW ok \in BOOLEAN,
           Ends(g, ok), UNCHANGED m_generation
    PROVE  MapperInv'
<1>1. g \in Nat /\ g <= m_generation /\ job[g] # Over
  BY UpnpAssumption DEF MapperInv, Over, Runs
<1>2. \A i \in DOMAIN results : results[i].run # g
  BY <1>1 DEF MapperInv
<1>3. Over \in Jobs
  BY JobTypes
<1>4. /\ job' \in [Runs -> Jobs]
      /\ \A h \in Runs : job'[h] = IF h = g THEN Over ELSE job[h]
  BY <1>3 DEF MapperInv, Ends
<1>5. CASE Current(g)
  <2>1. \A i \in DOMAIN results : results[i].run \in Nat
    BY ResultTypes DEF MapperInv
  <2>2. \A i \in DOMAIN results : results[i].run < g
    BY <1>1, <1>2, <1>5, <2>1 DEF MapperInv, Current
  <2>3. results' = Append(results, [run |-> g, ok |-> ok])
    BY <1>5 DEF Ends, Reports
  <2>4. /\ results' \in Seq([run : Nat, ok : BOOLEAN])
        /\ ResultsInOrder'
        /\ \A i \in DOMAIN results' :
              results'[i].run = g \/ (i \in DOMAIN results /\ results'[i] = results[i])
    BY <1>1, <2>2, <2>3, OneMore DEF MapperInv
  <2>5. \A i \in DOMAIN results' : results'[i].run <= m_generation'
    BY <1>1, <2>4 DEF MapperInv
  <2>6. \A i \in DOMAIN results' : results'[i].run \in Runs => job'[results'[i].run] = Over
    BY <1>4, <2>4 DEF MapperInv
  <2> QED
    BY <1>4, <2>4, <2>5, <2>6 DEF MapperInv
<1>6. CASE ~Current(g)
  <2>1. results' = results
    BY <1>6 DEF Ends, Reports
  <2>2. \A i \in DOMAIN results' : results'[i].run \in Runs => job'[results'[i].run] = Over
    BY <1>4, <2>1 DEF MapperInv
  <2> QED
    BY <1>4, <2>1, <2>2 DEF MapperInv, ResultsInOrder
<1> QED
  BY <1>5, <1>6

LEMMA StartingARun ==
    ASSUME MapperInv, MapPort
    PROVE  MapperInv'
<1> DEFINE g == m_generation + 1
<1>1. g \in Runs /\ g \in Nat /\ m_generation' = g /\ job[g] = Over
  BY UpnpAssumption DEF MapPort, MapperInv, Runs
<1>2. \A i \in DOMAIN results : results[i].run \in Nat /\ results[i].run < g
  BY ResultTypes DEF MapperInv
<1>3. CASE Goes(g, Search)
  <2>1. Search \in Jobs /\ Search.at = "search"
    BY JobTypes DEF Search
  <2>2. /\ job' \in [Runs -> Jobs]
        /\ \A h \in Runs : job'[h] = IF h = g THEN Search ELSE job[h]
        /\ results' = results
    BY <1>3, <2>1 DEF Goes, MapperInv
  <2>3. \A h \in Runs : h > m_generation' => job'[h] = Over
    BY <1>1, <2>2 DEF MapperInv, Runs
  <2>4. \A i \in DOMAIN results' : results'[i].run \in Runs => job'[results'[i].run] = Over
    BY <1>2, <2>2 DEF MapperInv
  <2>5. \A i \in DOMAIN results' : results'[i].run <= m_generation'
    BY <1>1, <1>2, <2>2
  <2>6. m_generation' \in Nat /\ m_generation' <= MaxRuns
    BY <1>1, UpnpAssumption DEF Runs
  <2>7. \A h \in Runs : job'[h].at = "over" => job'[h] = Over
    BY <2>1, <2>2 DEF MapperInv
  <2> QED
    BY <2>2, <2>3, <2>4, <2>5, <2>6, <2>7 DEF MapperInv, ResultsInOrder
<1>4. CASE UNCHANGED job /\ results' = Append(results, [run |-> g, ok |-> FALSE])
  <2>1. /\ results' \in Seq([run : Nat, ok : BOOLEAN])
        /\ ResultsInOrder'
        /\ \A i \in DOMAIN results' :
              results'[i].run = g \/ (i \in DOMAIN results /\ results'[i] = results[i])
    BY <1>1, <1>2, <1>4, OneMore DEF MapperInv
  <2>2. \A i \in DOMAIN results' : results'[i].run <= m_generation'
    BY <1>1, <1>2, <2>1
  <2>3. \A i \in DOMAIN results' : results'[i].run \in Runs => job'[results'[i].run] = Over
    BY <1>1, <1>4, <2>1 DEF MapperInv
  <2>4. \A h \in Runs : h > m_generation' => job'[h] = Over
    BY <1>1, <1>4 DEF MapperInv, Runs
  <2>5. m_generation' \in Nat /\ m_generation' <= MaxRuns
    BY <1>1, UpnpAssumption DEF Runs
  <2> QED
    BY <1>4, <2>1, <2>2, <2>3, <2>4, <2>5 DEF MapperInv
<1> QED
  BY <1>3, <1>4 DEF MapPort

LEMMA Unchanging ==
    ASSUME MapperInv, UNCHANGED <<m_generation, job, results>>
    PROVE  MapperInv'
BY DEF MapperInv, ResultsInOrder

\* Every step of the mapper.
LEMMA MapperKeeps ==
    ASSUME MapperInv, NEW g \in Runs,
           \/ TimeIsUp(g) \/ TimerHandled(g) \/ RequestHandled(g)
           \/ SearchAnswered(g) \/ RouterActs(g)
    PROVE  MapperInv'
<1>1. job[g] \in Jobs /\ (job[g].at = "over" => job[g].time = "off")
  BY DEF MapperInv, Over
<1>2. /\ Search.at # "over" /\ Pause.at # "over"
      /\ Request("describe").at # "over" /\ Request("map").at # "over"
  BY DEF Search, Pause, Request
<1>3. CASE TimeIsUp(g)
  <2>1. job[g].at # "over"
    BY <1>1, <1>3 DEF TimeIsUp
  <2>2. Goes(g, [job[g] EXCEPT !.time = "due"]) /\ UNCHANGED m_generation
    BY <1>3 DEF TimeIsUp
  <2> QED
    BY <1>1, <2>1, <2>2, JobTypes, MovingOn
<1>4. CASE SearchTimesOut(g)
  <2>1. job[g].at # "over" /\ UNCHANGED m_generation
    BY <1>4 DEF SearchTimesOut
  <2>2. Goes(g, Pause) \/ Ends(g, FALSE)
    BY <1>4 DEF SearchTimesOut, NoAnswer, OutOfTries
  <2> QED
    BY <1>2, <2>1, <2>2, JobTypes, MovingOn, Ending
<1>5. CASE LateTimeout(g)
  BY <1>5, Unchanging DEF LateTimeout, FlagSeen
<1>6. CASE PauseEnds(g)
  <2>1. job[g].at # "over" /\ UNCHANGED m_generation
    BY <1>6 DEF PauseEnds
  <2>2. Goes(g, Search) \/ Goes(g, Over) \/ Ends(g, FALSE)
    BY <1>6 DEF PauseEnds, GoesOn
  <2> QED
    BY <1>2, <2>1, <2>2, JobTypes, MovingOn, Ending
<1>7. CASE RequestTimesOut(g)
  <2>1. job[g].at # "over" /\ UNCHANGED m_generation
    BY <1>7 DEF RequestTimesOut, InRequest
  <2> DEFINE j == [job[g] EXCEPT !.op = Cancels(job[g].op),
                                 !.time = IF job[g].op \in {"resolve", "ready"}
                                          THEN "missed" ELSE "off"]
  <2>2. Goes(g, j) \/ Goes(g, [job[g] EXCEPT !.time = "missed"])
    BY <1>7 DEF RequestTimesOut, TriesNextAddress
  <2>3. /\ j \in Jobs /\ j.at = job[g].at
        /\ [job[g] EXCEPT !.time = "missed"] \in Jobs
        /\ [job[g] EXCEPT !.time = "missed"].at = job[g].at
    BY <1>1 DEF Jobs, Cancels
  <2> QED
    BY <2>1, <2>2, <2>3, MovingOn
<1>8. CASE Resolved(g)
  <2>1. job[g].at # "over" /\ UNCHANGED m_generation
    BY <1>8 DEF Resolved, InRequest
  <2>2. Goes(g, [job[g] EXCEPT !.op = "connect"]) \/ Ends(g, FALSE)
    BY <1>8 DEF Resolved, Op
  <2> QED
    BY <1>1, <2>1, <2>2, JobTypes, MovingOn, Ending
<1>9. CASE Proceeds(g)
  <2>1. job[g].at # "over" /\ UNCHANGED m_generation
    BY <1>9 DEF Proceeds, InRequest
  <2>2. \/ Goes(g, [job[g] EXCEPT !.op = "waits"])
        \/ Goes(g, Request("map")) \/ Goes(g, Over)
        \/ Ends(g, TRUE) \/ Ends(g, FALSE)
    BY <1>9 DEF Proceeds, Op, GoesOn
  <2>3. CASE Goes(g, [job[g] EXCEPT !.op = "waits"])
    BY <1>1, <2>1, <2>3, JobTypes, MovingOn
  <2>4. CASE Goes(g, Request("map")) \/ Goes(g, Over)
    BY <1>2, <2>1, <2>4, JobTypes, MovingOn
  <2>5. CASE Ends(g, TRUE) \/ Ends(g, FALSE)
    BY <2>1, <2>5, Ending
  <2> QED
    BY <2>2, <2>3, <2>4, <2>5
<1>10. CASE SearchAnswered(g)
  <2>1. job[g].at # "over" /\ UNCHANGED m_generation
    BY <1>10 DEF SearchAnswered
  <2>2. Goes(g, Request("describe")) \/ Goes(g, Over) \/ Ends(g, FALSE)
    BY <1>10 DEF SearchAnswered, GoesOn
  <2> QED
    BY <1>2, <2>1, <2>2, JobTypes, MovingOn, Ending
<1>11. CASE RouterActs(g)
  <2>1. job[g].at # "over" /\ UNCHANGED m_generation
    BY <1>11 DEF RouterActs, InRequest
  <2>2. Goes(g, [job[g] EXCEPT !.op = "ready"]) \/ Goes(g, [job[g] EXCEPT !.op = "failed"])
    BY <1>11 DEF RouterActs, Op
  <2> QED
    BY <1>1, <2>1, <2>2, JobTypes, MovingOn
<1> QED
  BY <1>3, <1>4, <1>5, <1>6, <1>7, <1>8, <1>9, <1>10, <1>11
  DEF TimerHandled, RequestHandled

LEMMA MapperStarts == Init => MapperInv
<1> SUFFICES ASSUME UpnpInit PROVE MapperInv
  BY DEF Init
<1>1. m_generation \in Nat /\ m_generation <= MaxRuns
  BY UpnpAssumption DEF UpnpInit
<1>2. job \in [Runs -> Jobs] /\ \A g \in Runs : job[g] = Over
  BY JobTypes DEF UpnpInit
<1>3. results = <<>>
  BY DEF UpnpInit
<1> QED
  BY <1>1, <1>2, <1>3 DEF MapperInv, ResultsInOrder

LEMMA MapperSteps == MapperInv /\ [Next]_vars => MapperInv'
<1> SUFFICES ASSUME MapperInv, [Next]_vars PROVE MapperInv'
  OBVIOUS
<1>1. CASE \E n \in Nodes : InitNode(n)
  BY <1>1, StartingARun, Unchanging DEF InitNode, InitRelay, InitUpnp, upnpVars, mapper
<1>2. CASE TurnOff
  BY <1>2, Unchanging DEF TurnOff, upnpVars, mapper
<1>3. CASE RelayNext /\ UNCHANGED <<upnpVars, modeVars>>
  BY <1>3, Unchanging DEF upnpVars, mapper
<1>4. CASE MapperNext
  BY <1>4, MapperKeeps DEF MapperNext, MapperStep
<1>5. CASE NotifyUpnpResult \/ RefreshIsDue
  BY <1>5, Unchanging DEF NotifyUpnpResult, RefreshIsDue, mapper
<1>6. CASE Refresh(UpnpOn)
  BY <1>6, StartingARun, Unchanging DEF Refresh, mapper
<1>7. CASE RetryUpnp
  BY <1>7, StartingARun DEF RetryUpnp
<1>8. CASE UNCHANGED vars
  BY <1>8, Unchanging DEF vars, upnpVars, mapper
<1>9. ASSUME Next
      PROVE  \/ \E n \in Nodes : InitNode(n)
             \/ TurnOff \/ MapperNext \/ NotifyUpnpResult \/ RefreshIsDue
             \/ Refresh(UpnpOn) \/ RetryUpnp
             \/ (RelayNext /\ UNCHANGED <<upnpVars, modeVars>>)
  BY <1>9 DEF Next
<1> QED
  BY <1>1, <1>2, <1>3, <1>4, <1>5, <1>6, <1>7, <1>8, <1>9

\* Results come once per run and in the order of the runs (UpnpMapper::finish, the flags of
\* the handlers), for any number of runs and attempts.
THEOREM ReportsOnce == Spec => []ResultsInOrder
<1>1. MapperInv => ResultsInOrder
  BY DEF MapperInv
<1> QED
  BY <1>1, MapperStarts, MapperSteps, PTL DEF Spec

-----------------------------------------------------------------------------
(* Relay: as long as no link is lost, a node that was heard of is          *)
(* registered for good, and RELAY_PEER_OFFLINE about it was taken before    *)
(* its first frame.                                                         *)

Letters == {"HANDSHAKE", "ACCEPTED", "REFUSED", "OTHER"}
UpFrames == {Reg} \cup {To(p, t) : p \in Nodes, t \in Letters}
DownFrames == {Registered} \cup {From(p, t) : p \in Nodes, t \in Letters}
                           \cup {Offline(p) : p \in Nodes}

RelayTypes ==
    /\ socket \in [Nodes -> {"off", "dialling", "open", "waiting"}]
    /\ registered \in [Nodes -> BOOLEAN]
    /\ up \in [Nodes -> Seq(UpFrames)] /\ down \in [Nodes -> Seq(DownFrames)]
    /\ known \in SUBSET Nodes
    /\ asked \in [Nodes -> SUBSET Nodes] /\ told \in [Nodes -> SUBSET Nodes]

\* A link begins with the registration, and so does what comes back on it.
LinkIsTrue(n) ==
    /\ n \notin started => socket[n] = "off"
    /\ n \notin known =>
          /\ ~registered[n] /\ down[n] = <<>>
          /\ up[n] = IF socket[n] = "open" THEN <<Reg>> ELSE <<>>
    /\ n \in known =>
          /\ socket[n] = "open"
          /\ \A i \in 1 .. Len(up[n]) : up[n][i] # Reg
          /\ ~registered[n] => Len(down[n]) > 0 /\ down[n][1] = Registered

Heard(f, p) == \E t \in Letters : f = From(p, t)
NoOffline(s, p) == \A i \in 1 .. Len(s) : s[i] # Offline(p)

\* Who was heard of is registered, and n will not be told that it is offline.
HeardIsThere(n, p) ==
    /\ \A i \in 1 .. Len(down[n]) : Heard(down[n][i], p) =>
          /\ p \in known
          /\ \A j \in 1 .. Len(down[n]) : j > i => down[n][j] # Offline(p)
    /\ p \in asked[n] \cup told[n] => p \in known /\ registered[n] /\ NoOffline(down[n], p)

\* n's acceptance of p is on its way.
AcceptUp(n, p) == \E i \in 1 .. Len(up[n]) : up[n][i] = To(p, "ACCEPTED")
AcceptDown(n, p) == \E i \in 1 .. Len(down[p]) : down[p][i] = From(n, "ACCEPTED")

TellingIsTrue(n, p) ==
    /\ p \in told[n] => n \in told[p] \/ AcceptUp(n, p) \/ AcceptDown(n, p)
    /\ AcceptUp(n, p) \/ AcceptDown(n, p) => p \in told[n]

RelayInv ==
    losses = 0 =>
        /\ RelayTypes
        /\ \A n \in Nodes : LinkIsTrue(n)
        /\ \A n, p \in Nodes : HeardIsThere(n, p) /\ TellingIsTrue(n, p)

\* The frames are of different kinds, and tell whom they are about.
LEMMA FramesDiffer ==
    /\ Reg \in UpFrames /\ Registered \in DownFrames
    /\ \A p \in Nodes, t \in Letters : /\ To(p, t) \in UpFrames /\ To(p, t) # Reg
                                       /\ To(p, t).to = p /\ To(p, t).type = t
                                       /\ From(p, t) \in DownFrames /\ From(p, t) # Registered
    /\ \A p \in Nodes : Offline(p) \in DownFrames /\ Offline(p) # Registered
    /\ \A p, q \in Nodes, t, u \in Letters :
          /\ To(p, t) = To(q, u) => p = q /\ t = u
          /\ From(p, t) = From(q, u) => p = q /\ t = u
    /\ \A p, q \in Nodes, t \in Letters : From(p, t) # Offline(q)
    /\ \A p, q \in Nodes : Offline(p) = Offline(q) => p = q
<1>1. \A p \in Nodes, t \in Letters : /\ To(p, t).to = p /\ To(p, t).type = t
                                      /\ From(p, t).from = p /\ From(p, t).type = t
  BY DEF To, From
<1>2. \A p \in Nodes : Offline(p).type = "OFFLINE" /\ Offline(p).uuid = p
  BY DEF Offline
<1>3. Reg.type = "REGISTER" /\ Registered.type = "REGISTERED"
  BY DEF Reg, Registered
<1>4. \A t \in Letters : t # "OFFLINE" /\ t # "REGISTER" /\ t # "REGISTERED"
  BY DEF Letters
<1>5. /\ Reg \in UpFrames /\ Registered \in DownFrames
      /\ \A p \in Nodes, t \in Letters : To(p, t) \in UpFrames /\ From(p, t) \in DownFrames
      /\ \A p \in Nodes : Offline(p) \in DownFrames
  BY DEF UpFrames, DownFrames
<1> QED
  BY <1>1, <1>2, <1>3, <1>4, <1>5

\* What a frame's type and fields say.
LEMMA FramesTell ==
    /\ \A f \in UpFrames : f # Reg =>
          f.to \in Nodes /\ f.type \in Letters /\ f = To(f.to, f.type)
    /\ \A f \in DownFrames :
          /\ f.type = "REGISTERED" => f = Registered
          /\ f.type = "OFFLINE" => f.uuid \in Nodes /\ f = Offline(f.uuid)
          /\ f.type \in Letters => f.from \in Nodes /\ f = From(f.from, f.type)
<1>1. ASSUME NEW f \in UpFrames, f # Reg
      PROVE  f.to \in Nodes /\ f.type \in Letters /\ f = To(f.to, f.type)
  <2>1. PICK p \in Nodes, t \in Letters : f = To(p, t)
    BY <1>1 DEF UpFrames
  <2> QED
    BY <2>1 DEF To
<1>2. ASSUME NEW f \in DownFrames
      PROVE  /\ f.type = "REGISTERED" => f = Registered
             /\ f.type = "OFFLINE" => f.uuid \in Nodes /\ f = Offline(f.uuid)
             /\ f.type \in Letters => f.from \in Nodes /\ f = From(f.from, f.type)
  <2>1. CASE f = Registered
    BY <2>1 DEF Registered, Letters
  <2>2. ASSUME NEW p \in Nodes, NEW t \in Letters, f = From(p, t)
        PROVE  /\ f.type # "REGISTERED" /\ f.type # "OFFLINE"
               /\ f.from \in Nodes /\ f = From(f.from, f.type)
    BY <2>2 DEF From, Letters
  <2>3. ASSUME NEW p \in Nodes, f = Offline(p)
        PROVE  /\ f.type # "REGISTERED" /\ f.type \notin Letters
               /\ f.uuid \in Nodes /\ f = Offline(f.uuid)
    BY <2>3 DEF Offline, Letters
  <2> QED
    BY <2>1, <2>2, <2>3 DEF DownFrames
<1> QED
  BY <1>1, <1>2

LEMMA FirstGoes ==
    ASSUME NEW X, NEW s \in Seq(X), s # <<>>
    PROVE  /\ Len(s) \in Nat /\ Len(s) > 0 /\ Head(s) = s[1] /\ Head(s) \in X
           /\ Tail(s) \in Seq(X) /\ Len(Tail(s)) = Len(s) - 1
           /\ \A i \in 1 .. Len(Tail(s)) : i + 1 \in 1 .. Len(s) /\ Tail(s)[i] = s[i + 1]
           /\ \A i \in 1 .. Len(s) : i = 1 \/ (i - 1 \in 1 .. Len(Tail(s)) /\ Tail(s)[i - 1] = s[i])
<1>1. Len(s) \in Nat /\ Len(s) > 0 /\ Head(s) = s[1] /\ Head(s) \in X
  OBVIOUS
<1>2. /\ Tail(s) \in Seq(X) /\ Len(Tail(s)) = Len(s) - 1
      /\ \A i \in 1 .. Len(s) - 1 : Tail(s)[i] = s[i + 1]
  OBVIOUS
<1> QED
  BY <1>1, <1>2

LEMMA LastComes ==
    ASSUME NEW X, NEW s \in Seq(X), NEW e \in X, NEW r, r = Append(s, e)
    PROVE  /\ r \in Seq(X) /\ Len(s) \in Nat /\ Len(r) = Len(s) + 1
           /\ \A i \in 1 .. Len(s) : i \in 1 .. Len(r) /\ r[i] = s[i]
           /\ Len(r) \in 1 .. Len(r) /\ r[Len(r)] = e
           /\ \A i \in 1 .. Len(r) : i = Len(r) \/ i \in 1 .. Len(s)
OBVIOUS

\* Nothing of the relay's changes.
LEMMA RelayRests ==
    ASSUME RelayInv, UNCHANGED <<sides, told, losses>>, started \in SUBSET started',
           asked' \in [Nodes -> SUBSET Nodes], \A n \in Nodes : asked'[n] \in SUBSET asked[n]
    PROVE  RelayInv'
<1> SUFFICES ASSUME losses = 0 PROVE RelayInv'
  BY DEF RelayInv
<1>1. RelayTypes /\ UNCHANGED <<socket, registered, up, down, known>>
  BY DEF RelayInv, sides
<1>2. RelayTypes'
  BY <1>1 DEF RelayTypes
<1>3. \A n \in Nodes : LinkIsTrue(n)'
  BY <1>1 DEF RelayInv, LinkIsTrue
<1>4. \A n, p \in Nodes : HeardIsThere(n, p)'
  BY <1>1 DEF RelayInv, HeardIsThere, NoOffline
<1>5. \A n, p \in Nodes : TellingIsTrue(n, p)'
  BY <1>1 DEF RelayInv, TellingIsTrue, AcceptUp, AcceptDown
<1> QED
  BY <1>2, <1>3, <1>4, <1>5 DEF RelayInv

\* A link is not there yet.
LEMMA RelayDials ==
    ASSUME RelayInv, losses = 0, NEW n \in Nodes, n \in started', started \in SUBSET started',
           socket[n] # "open", Becomes(n, "dialling") \/ Becomes(n, "waiting"),
           UNCHANGED registered \/ registered' = [registered EXCEPT ![n] = FALSE],
           UNCHANGED <<up, down, known, told, asked, losses>>
    PROVE  RelayInv'
<1>1. RelayTypes /\ \A m \in Nodes : LinkIsTrue(m)
  BY DEF RelayInv
<1>2. n \notin known /\ ~registered[n] /\ up[n] = <<>>
  BY <1>1 DEF LinkIsTrue
<1>3. registered' = registered
  BY <1>1, <1>2 DEF RelayTypes
<1>4. /\ socket' \in [Nodes -> {"off", "dialling", "open", "waiting"}]
      /\ socket'[n] # "open" /\ \A m \in Nodes : m # n => socket'[m] = socket[m]
  BY <1>1 DEF Becomes, RelayTypes
<1>5. RelayTypes'
  BY <1>1, <1>3, <1>4 DEF RelayTypes
<1>6. \A m \in Nodes : LinkIsTrue(m)'
  BY <1>1, <1>2, <1>3, <1>4 DEF LinkIsTrue
<1>7. \A m, p \in Nodes : HeardIsThere(m, p)'
  BY <1>3 DEF RelayInv, HeardIsThere, NoOffline
<1>8. \A m, p \in Nodes : TellingIsTrue(m, p)'
  BY DEF RelayInv, TellingIsTrue, AcceptUp, AcceptDown
<1> QED
  BY <1>5, <1>6, <1>7, <1>8 DEF RelayInv

LEMMA RelayConnects ==
    ASSUME RelayInv, losses = 0, NEW n \in Nodes, Connects(n), UNCHANGED started
    PROVE  RelayInv'
<1>1. RelayTypes /\ \A m \in Nodes : LinkIsTrue(m)
  BY DEF RelayInv
<1>2. /\ socket[n] = "dialling" /\ n \notin known
      /\ ~registered[n] /\ up[n] = <<>> /\ down[n] = <<>>
  BY <1>1 DEF Connects, LinkIsTrue
<1>3. /\ socket' = [socket EXCEPT ![n] = "open"] /\ up' = [up EXCEPT ![n] = <<Reg>>]
      /\ UNCHANGED <<registered, down, known, told, asked, losses>>
  BY DEF Connects, Becomes, records, relayBounds
<1>4. <<Reg>> \in Seq(UpFrames)
  BY FramesDiffer
<1>5. RelayTypes'
  BY <1>1, <1>3, <1>4 DEF RelayTypes
<1>6. \A m \in Nodes : LinkIsTrue(m)'
  BY <1>1, <1>2, <1>3 DEF LinkIsTrue, RelayTypes
<1>7. \A m, p \in Nodes : HeardIsThere(m, p)'
  BY <1>3 DEF RelayInv, HeardIsThere, NoOffline
<1>8. \A m, p \in Nodes : AcceptUp(m, p)' <=> AcceptUp(m, p)
  <2> SUFFICES ASSUME NEW m \in Nodes, NEW p \in Nodes
               PROVE  AcceptUp(m, p)' <=> AcceptUp(m, p)
    OBVIOUS
  <2>1. CASE m = n
    <3>1. Len(up[n]) = 0 /\ up'[n] = <<Reg>>
      BY <1>1, <1>2, <1>3 DEF RelayTypes
    <3>2. \A i \in 1 .. Len(up'[n]) : up'[n][i] = Reg
      BY <3>1
    <3>3. To(p, "ACCEPTED") # Reg
      BY FramesDiffer DEF Letters
    <3> QED
      BY <2>1, <3>1, <3>2, <3>3 DEF AcceptUp
  <2>2. CASE m # n
    BY <1>1, <1>3, <2>2 DEF AcceptUp, RelayTypes
  <2> QED
    BY <2>1, <2>2
<1>9. \A m, p \in Nodes : TellingIsTrue(m, p)'
  BY <1>3, <1>8 DEF RelayInv, TellingIsTrue, AcceptDown
<1> QED
  BY <1>3, <1>5, <1>6, <1>7, <1>9 DEF RelayInv

\* A frame is sent, an acceptance as its peer is told of.
LEMMA RelaySends ==
    ASSUME RelayInv, losses = 0, NEW n \in Nodes, NEW p \in Nodes, NEW t \in Letters,
           SendViaRelay(n, p, t),
           UNCHANGED <<socket, registered, down, known, losses, started>>,
           asked' \in [Nodes -> SUBSET Nodes], \A m \in Nodes : asked'[m] \in SUBSET asked[m],
           \/ t # "ACCEPTED" /\ told' = told
           \/ t = "ACCEPTED" /\ p \in asked[n] /\ told' = [told EXCEPT ![n] = @ \cup {p}]
    PROVE  RelayInv'
<1>1. /\ RelayTypes /\ \A m \in Nodes : LinkIsTrue(m)
      /\ \A m, q \in Nodes : HeardIsThere(m, q) /\ TellingIsTrue(m, q)
  BY DEF RelayInv
<1>2. CASE up' = up /\ told' = told
  BY <1>2, RelayRests DEF sides
<1>3. CASE up' # up \/ told' # told
  <2>1. registered[n] /\ socket[n] = "open" /\ n \in known
    BY <1>1, <1>3 DEF HeardIsThere, SendViaRelay, LinkIsTrue
  <2>2. To(p, t) \in UpFrames /\ To(p, t) # Reg
    BY FramesDiffer
  <2>3. /\ up'[n] = Append(up[n], To(p, t)) /\ up[n] \in Seq(UpFrames)
        /\ \A m \in Nodes : m # n => up'[m] = up[m]
    BY <1>1, <2>1 DEF SendViaRelay, RelayTypes
  <2>4. /\ up'[n] \in Seq(UpFrames) /\ Len(up[n]) \in Nat /\ Len(up'[n]) = Len(up[n]) + 1
        /\ \A i \in 1 .. Len(up[n]) : i \in 1 .. Len(up'[n]) /\ up'[n][i] = up[n][i]
        /\ Len(up'[n]) \in 1 .. Len(up'[n]) /\ up'[n][Len(up'[n])] = To(p, t)
        /\ \A i \in 1 .. Len(up'[n]) : i = Len(up'[n]) \/ i \in 1 .. Len(up[n])
    BY <2>2, <2>3, LastComes
  <2>5. up' \in [Nodes -> Seq(UpFrames)]
    BY <1>1, <2>1, <2>4, <2>3 DEF SendViaRelay, RelayTypes
  <2>6. /\ told' \in [Nodes -> SUBSET Nodes]
        /\ \A m, q \in Nodes :
              q \in told'[m] <=> q \in told[m] \/ (m = n /\ q = p /\ t = "ACCEPTED")
    <3>1. told \in [Nodes -> SUBSET Nodes]
      BY <1>1 DEF RelayTypes
    <3>2. CASE t # "ACCEPTED" /\ told' = told
      BY <3>1, <3>2
    <3>3. CASE t = "ACCEPTED" /\ told' = [told EXCEPT ![n] = @ \cup {p}]
      BY <3>1, <3>3
    <3> QED
      BY <3>2, <3>3
  <2>7. RelayTypes'
    BY <1>1, <2>5, <2>6 DEF RelayTypes
  <2>8. \A m \in Nodes : LinkIsTrue(m)'
    <3>1. \A i \in 1 .. Len(up'[n]) : up'[n][i] # Reg
      BY <1>1, <2>1, <2>2, <2>4 DEF LinkIsTrue
    <3>2. ASSUME NEW m \in Nodes PROVE LinkIsTrue(m)'
      <4>1. CASE m = n
        BY <1>1, <2>1, <3>1, <4>1 DEF LinkIsTrue
      <4>2. CASE m # n
        BY <1>1, <2>3, <4>2 DEF LinkIsTrue
      <4> QED
        BY <4>1, <4>2
    <3> QED
      BY <3>2
  <2>9. ASSUME NEW m \in Nodes, NEW q \in Nodes PROVE HeardIsThere(m, q)'
    <3>1. q \in asked'[m] \cup told'[m] => q \in asked[m] \cup told[m]
      BY <2>6
    <3> QED
      BY <1>1, <3>1 DEF HeardIsThere, NoOffline
  <2>10. ASSUME NEW m \in Nodes, NEW q \in Nodes
         PROVE  /\ AcceptUp(m, q)' <=> AcceptUp(m, q) \/ (m = n /\ q = p /\ t = "ACCEPTED")
                /\ AcceptDown(m, q)' <=> AcceptDown(m, q)
    <3>1. "ACCEPTED" \in Letters
      BY DEF Letters
    <3>2. CASE m = n
      <4>1. To(p, t) = To(q, "ACCEPTED") <=> q = p /\ t = "ACCEPTED"
        BY <3>1, FramesDiffer
      <4> QED
        BY <2>4, <3>2, <4>1 DEF AcceptUp, AcceptDown
    <3>3. CASE m # n
      BY <2>3, <3>3 DEF AcceptUp, AcceptDown
    <3> QED
      BY <3>2, <3>3
  <2>11. ASSUME NEW m \in Nodes, NEW q \in Nodes PROVE TellingIsTrue(m, q)'
    <3>1. q \in told'[m] <=> q \in told[m] \/ (m = n /\ q = p /\ t = "ACCEPTED")
      BY <2>6
    <3>3. m \in told[q] => m \in told'[q]
      BY <2>6
    <3> QED
      BY <1>1, <2>10, <3>1, <3>3 DEF TellingIsTrue
  <2> QED
    BY <2>7, <2>8, <2>9, <2>11 DEF RelayInv
<1> QED
  BY <1>2, <1>3

\* n takes what the relay sent; what it heard of becomes a request or an acceptance.
LEMMA RelayTakes ==
    ASSUME RelayInv, losses = 0, NEW n \in Nodes, down[n] # <<>>,
           down' = [down EXCEPT ![n] = Tail(@)],
           UNCHANGED <<socket, up, known, losses, started>>,
           registered' \in [Nodes -> BOOLEAN],
           \A m \in Nodes :
               registered'[m] <=> registered[m] \/ (m = n /\ Head(down[n]) = Registered),
           asked' \in [Nodes -> SUBSET Nodes],
           \A m, q \in Nodes :
               q \in asked'[m] => q \in asked[m] \/ (m = n /\ Heard(Head(down[n]), q)),
           told' \in [Nodes -> SUBSET Nodes],
           \A m, q \in Nodes :
               q \in told'[m] <=> q \in told[m] \/ (m = n /\ Head(down[n]) = From(q, "ACCEPTED"))
    PROVE  RelayInv'
<1> DEFINE s == down[n]
           r == Tail(s)
           f == Head(s)
<1>1. /\ RelayTypes /\ \A m \in Nodes : LinkIsTrue(m)
      /\ \A m, q \in Nodes : HeardIsThere(m, q) /\ TellingIsTrue(m, q)
  BY DEF RelayInv
<1>2. s \in Seq(DownFrames) /\ n \in known
  BY <1>1 DEF RelayTypes, LinkIsTrue
<1>3. /\ Len(s) \in Nat /\ Len(s) > 0 /\ f = s[1] /\ f \in DownFrames
      /\ r \in Seq(DownFrames) /\ Len(r) = Len(s) - 1
      /\ \A i \in 1 .. Len(r) : i + 1 \in 1 .. Len(s) /\ r[i] = s[i + 1]
      /\ \A i \in 1 .. Len(s) : i = 1 \/ (i - 1 \in 1 .. Len(r) /\ r[i - 1] = s[i])
  BY <1>2, FirstGoes
<1>4. down'[n] = r /\ \A m \in Nodes : m # n => down'[m] = down[m]
  BY <1>1 DEF RelayTypes
<1>5. RelayTypes'
  BY <1>1, <1>3 DEF RelayTypes
<1>6. \A q \in Nodes : Heard(f, q) => registered[n]
  BY <1>1, <1>2, <1>3, FramesDiffer DEF LinkIsTrue, Heard
<1>7. ASSUME NEW m \in Nodes PROVE LinkIsTrue(m)'
  <2>1. CASE m = n
    BY <1>1, <1>2, <1>3, <2>1 DEF LinkIsTrue
  <2>2. CASE m # n
    BY <1>1, <1>4, <2>2 DEF LinkIsTrue
  <2> QED
    BY <2>1, <2>2
<1>8. ASSUME NEW m \in Nodes, NEW q \in Nodes PROVE HeardIsThere(m, q)'
  <2>1. CASE m = n
    <3>1. ASSUME NEW i \in 1 .. Len(r), Heard(r[i], q)
          PROVE  q \in known /\ \A j \in 1 .. Len(r) : j > i => r[j] # Offline(q)
      <4>1. i + 1 \in 1 .. Len(s) /\ Heard(s[i + 1], q)
        BY <1>3, <3>1
      <4>2. q \in known /\ \A j \in 1 .. Len(s) : j > i + 1 => s[j] # Offline(q)
        BY <1>1, <4>1 DEF HeardIsThere
      <4> QED
        BY <1>3, <4>2
    <3>2. ASSUME q \in asked[n] \cup told[n]
          PROVE  q \in known /\ registered'[n] /\ NoOffline(r, q)
      BY <1>1, <1>3, <3>2 DEF HeardIsThere, NoOffline
    <3>3. ASSUME Heard(f, q)
          PROVE  q \in known /\ registered'[n] /\ NoOffline(r, q)
      <4>1. 1 \in 1 .. Len(s) /\ Heard(s[1], q)
        BY <1>3, <3>3
      <4>2. q \in known /\ \A j \in 1 .. Len(s) : j > 1 => s[j] # Offline(q)
        BY <1>1, <4>1 DEF HeardIsThere
      <4> QED
        BY <1>3, <1>6, <3>3, <4>2 DEF NoOffline
    <3>4. f = From(q, "ACCEPTED") => Heard(f, q)
      BY DEF Heard, Letters
    <3>5. q \in asked'[n] \cup told'[n] => q \in asked[n] \cup told[n] \/ Heard(f, q)
      BY <3>4
    <3> QED
      BY <1>4, <2>1, <3>1, <3>2, <3>3, <3>5 DEF HeardIsThere
  <2>2. CASE m # n
    <3>1. /\ registered'[m] <=> registered[m]
          /\ q \in asked'[m] \cup told'[m] => q \in asked[m] \cup told[m]
      BY <2>2
    <3> QED
      BY <1>1, <1>4, <2>2, <3>1 DEF HeardIsThere, NoOffline
  <2> QED
    BY <2>1, <2>2
<1>9. ASSUME NEW m \in Nodes, NEW q \in Nodes
      PROVE  /\ AcceptUp(m, q)' <=> AcceptUp(m, q)
             /\ AcceptDown(m, q) <=> AcceptDown(m, q)' \/ (q = n /\ f = From(m, "ACCEPTED"))
  <2>1. CASE q = n
    <3>1. /\ AcceptDown(m, n)' <=> \E i \in 1 .. Len(r) : r[i] = From(m, "ACCEPTED")
          /\ AcceptDown(m, n) <=> \E i \in 1 .. Len(s) : s[i] = From(m, "ACCEPTED")
          /\ AcceptUp(m, q)' <=> AcceptUp(m, q)
      BY <1>4 DEF AcceptUp, AcceptDown
    <3>2. ASSUME NEW i \in 1 .. Len(r), r[i] = From(m, "ACCEPTED")
          PROVE  \E k \in 1 .. Len(s) : s[k] = From(m, "ACCEPTED")
      BY <1>3, <3>2
    <3>3. ASSUME NEW i \in 1 .. Len(s), s[i] = From(m, "ACCEPTED")
          PROVE  \/ \E k \in 1 .. Len(r) : r[k] = From(m, "ACCEPTED")
                 \/ f = From(m, "ACCEPTED")
      <4>1. CASE i = 1
        BY <1>3, <3>3, <4>1
      <4>2. CASE i - 1 \in 1 .. Len(r) /\ r[i - 1] = s[i]
        BY <3>3, <4>2
      <4> QED
        BY <1>3, <4>1, <4>2
    <3>4. 1 \in 1 .. Len(s)
      BY <1>3
    <3> QED
      BY <1>3, <2>1, <3>1, <3>2, <3>3, <3>4
  <2>2. CASE q # n
    BY <1>4, <2>2 DEF AcceptUp, AcceptDown
  <2> QED
    BY <2>1, <2>2
<1>10. ASSUME NEW m \in Nodes, NEW q \in Nodes PROVE TellingIsTrue(m, q)'
  <2>1. q \in told'[m] => q \in told[m] \/ AcceptDown(q, m)
    BY <1>9
  <2>2. q \in told'[m] /\ q \notin told[m] => m \in told[q]
    BY <1>1, <2>1 DEF TellingIsTrue
  <2>3. m \in told[q] => m \in told'[q]
    OBVIOUS
  <2>4. AcceptDown(m, q) => AcceptDown(m, q)' \/ m \in told'[q]
    BY <1>9
  <2>5. q \in told'[m] => m \in told'[q] \/ AcceptUp(m, q)' \/ AcceptDown(m, q)'
    BY <1>1, <1>9, <2>2, <2>3, <2>4 DEF TellingIsTrue
  <2>6. AcceptUp(m, q)' \/ AcceptDown(m, q)' => q \in told'[m]
    BY <1>1, <1>9 DEF TellingIsTrue
  <2> QED
    BY <2>5, <2>6 DEF TellingIsTrue
<1> QED
  BY <1>5, <1>7, <1>8, <1>10 DEF RelayInv

\* The relay registers n, and says so.
LEMMA RelayRegisters ==
    ASSUME RelayInv, losses = 0, NEW n \in Nodes, Forward(n), Head(up[n]) = Reg,
           UNCHANGED started
    PROVE  RelayInv'
<1>1. /\ RelayTypes /\ \A m \in Nodes : LinkIsTrue(m)
      /\ \A m, q \in Nodes : HeardIsThere(m, q) /\ TellingIsTrue(m, q)
  BY DEF RelayInv
<1>2. /\ up[n] # <<>>
      /\ known' = known \cup {n} /\ down' = [down EXCEPT ![n] = Append(@, Registered)]
      /\ up' = [up EXCEPT ![n] = Tail(@)]
      /\ UNCHANGED <<socket, registered, told, asked, losses>>
  BY DEF Forward, records, relayBounds
<1>3. up[n] \in Seq(UpFrames) /\ down[n] \in Seq(DownFrames)
  BY <1>1 DEF RelayTypes
<1>4. Len(up[n]) > 0 /\ up[n][1] = Reg /\ Len(up[n]) \in Nat
  BY <1>2, <1>3, FirstGoes
<1>5. n \notin known
  BY <1>1, <1>4 DEF LinkIsTrue
<1>6. ~registered[n] /\ down[n] = <<>> /\ up[n] = <<Reg>> /\ socket[n] = "open"
  BY <1>1, <1>2, <1>5 DEF LinkIsTrue
<1>7. /\ up'[n] = <<>> /\ Len(up'[n]) = 0
      /\ down'[n] = <<Registered>> /\ Len(down'[n]) = 1 /\ down'[n][1] = Registered
      /\ \A m \in Nodes : m # n => up'[m] = up[m] /\ down'[m] = down[m]
  BY <1>1, <1>2, <1>6 DEF RelayTypes
<1>8. RelayTypes'
  <2>1. Registered \in DownFrames
    BY FramesDiffer
  <2>2. up'[n] \in Seq(UpFrames) /\ down'[n] \in Seq(DownFrames)
    BY <1>7, <2>1
  <2> QED
    BY <1>1, <1>2, <2>2 DEF RelayTypes
<1>9. ASSUME NEW m \in Nodes PROVE LinkIsTrue(m)'
  <2>1. CASE m = n
    <3>1. n \in known' /\ socket'[n] = "open" /\ (n \notin started' => socket'[n] = "off")
      BY <1>1, <1>2, <1>6 DEF LinkIsTrue
    <3> QED
      BY <1>7, <2>1, <3>1 DEF LinkIsTrue
  <2>2. CASE m # n
    <3>1. m \in known' <=> m \in known
      BY <1>2, <2>2
    <3> QED
      BY <1>1, <1>2, <1>7, <2>2, <3>1 DEF LinkIsTrue
  <2> QED
    BY <2>1, <2>2
<1>10. ASSUME NEW m \in Nodes, NEW q \in Nodes PROVE HeardIsThere(m, q)'
  <2>1. q \in known => q \in known'
    BY <1>2
  <2>2. CASE m = n
    <3>1. q \notin asked[n] \cup told[n]
      BY <1>1, <1>6 DEF HeardIsThere
    <3>2. ~Heard(Registered, q)
      BY FramesDiffer DEF Heard
    <3>3. \A i \in 1 .. Len(down'[n]) : down'[n][i] = Registered
      BY <1>7
    <3> QED
      BY <1>2, <2>2, <3>1, <3>2, <3>3 DEF HeardIsThere
  <2>3. CASE m # n
    BY <1>1, <1>2, <1>7, <2>1, <2>3 DEF HeardIsThere, NoOffline
  <2> QED
    BY <2>2, <2>3
<1>11. "ACCEPTED" \in Letters
  BY DEF Letters
<1>12. ASSUME NEW m \in Nodes, NEW q \in Nodes
       PROVE  /\ AcceptUp(m, q)' <=> AcceptUp(m, q)
              /\ AcceptDown(m, q)' <=> AcceptDown(m, q)
  <2>1. /\ \A i \in 1 .. Len(up[n]) : up[n][i] # To(q, "ACCEPTED")
        /\ \A i \in 1 .. Len(down'[n]) : down'[n][i] # From(m, "ACCEPTED")
    <3>1. Len(up[n]) = 1 /\ up[n][1] = Reg
      BY <1>6
    <3>2. Reg # To(q, "ACCEPTED") /\ Registered # From(m, "ACCEPTED")
      BY <1>11, FramesDiffer
    <3> QED
      BY <1>7, <3>1, <3>2
  <2>2. Len(down[n]) = 0
    BY <1>6
  <2>3. AcceptUp(m, q)' <=> AcceptUp(m, q)
    BY <1>7, <2>1 DEF AcceptUp
  <2>4. AcceptDown(m, q)' <=> AcceptDown(m, q)
    BY <1>7, <2>1, <2>2 DEF AcceptDown
  <2> QED
    BY <2>3, <2>4
<1>13. ASSUME NEW m \in Nodes, NEW q \in Nodes PROVE TellingIsTrue(m, q)'
  BY <1>1, <1>2, <1>12 DEF TellingIsTrue
<1> QED
  BY <1>2, <1>8, <1>9, <1>10, <1>13 DEF RelayInv

\* The relay passes on a frame to a node it knows, or answers that it does not.
LEMMA RelayForwards ==
    ASSUME RelayInv, losses = 0, NEW n \in Nodes, Forward(n), Head(up[n]) # Reg,
           UNCHANGED started
    PROVE  RelayInv'
<1>1. /\ RelayTypes /\ \A m \in Nodes : LinkIsTrue(m)
      /\ \A m, q \in Nodes : HeardIsThere(m, q) /\ TellingIsTrue(m, q)
  BY DEF RelayInv
<1>2. /\ up[n] # <<>> /\ up[n] \in Seq(UpFrames)
      /\ up' = [up EXCEPT ![n] = Tail(@)]
      /\ UNCHANGED <<socket, registered, known, told, asked, losses>>
  BY <1>1 DEF Forward, records, relayBounds, RelayTypes
<1>3. PICK s \in Seq(UpFrames) : s = up[n]
  BY <1>2
<1>4. PICK r : r = Tail(s)
  OBVIOUS
<1>5. /\ Len(s) \in Nat /\ Len(s) > 0 /\ Head(s) = s[1] /\ Head(s) \in UpFrames
      /\ r \in Seq(UpFrames) /\ Len(r) = Len(s) - 1
      /\ \A i \in 1 .. Len(r) : i + 1 \in 1 .. Len(s) /\ r[i] = s[i + 1]
      /\ \A i \in 1 .. Len(s) : i = 1 \/ (i - 1 \in 1 .. Len(r) /\ r[i - 1] = s[i])
  BY <1>2, <1>3, <1>4, FirstGoes
<1>6. PICK p \in Nodes, t \in Letters : Head(s) = To(p, t) /\ Head(s).to = p /\ Head(s).type = t
  BY <1>3, <1>5, FramesTell
<1>7. n \in known
  <2>1. To(p, t) # Reg
    BY FramesDiffer
  <2> QED
    BY <1>1, <1>2, <1>3, <1>5, <1>6, <2>1 DEF LinkIsTrue
<1>8. up'[n] = r /\ \A m \in Nodes : m # n => up'[m] = up[m]
  BY <1>1, <1>2, <1>3, <1>4 DEF RelayTypes
<1>9. PICK q \in Nodes, e \in DownFrames :
         /\ down' = [down EXCEPT ![q] = Append(@, e)]
         /\ \/ q = p /\ p \in known /\ e = From(n, t)
            \/ q = n /\ p \notin known /\ e = Offline(p)
  <2>1. From(n, t) \in DownFrames /\ Offline(p) \in DownFrames
    BY FramesDiffer
  <2>2. CASE p \in known
    BY <1>3, <1>6, <2>1, <2>2 DEF Forward
  <2>3. CASE p \notin known
    BY <1>3, <1>6, <2>1, <2>3 DEF Forward
  <2> QED
    BY <2>2, <2>3
<1>10. PICK d \in Seq(DownFrames) : d = down[q]
  BY <1>1 DEF RelayTypes
<1>11. PICK c : c = Append(d, e)
  OBVIOUS
<1>12. /\ c \in Seq(DownFrames) /\ Len(d) \in Nat /\ Len(c) = Len(d) + 1
       /\ \A i \in 1 .. Len(d) : i \in 1 .. Len(c) /\ c[i] = d[i]
       /\ Len(c) \in 1 .. Len(c) /\ c[Len(c)] = e
       /\ \A i \in 1 .. Len(c) : i = Len(c) \/ i \in 1 .. Len(d)
  BY <1>11, LastComes
<1>13. down'[q] = c /\ \A m \in Nodes : m # q => down'[m] = down[m]
  BY <1>1, <1>9, <1>10, <1>11 DEF RelayTypes
<1>14. q \in known
  BY <1>7, <1>9
<1>15. RelayTypes'
  BY <1>1, <1>2, <1>3, <1>4, <1>5, <1>9, <1>10, <1>11, <1>12 DEF RelayTypes
<1>16. ASSUME NEW m \in Nodes PROVE LinkIsTrue(m)'
  <2>1. /\ socket'[m] = socket[m] /\ registered'[m] = registered[m]
        /\ m \in known' <=> m \in known
        /\ m \in started' <=> m \in started
    BY <1>2
  <2>2. m \in known => \A i \in 1 .. Len(up'[m]) : up'[m][i] # Reg
    <3>1. CASE m = n
      BY <1>1, <1>3, <1>5, <1>8, <3>1 DEF LinkIsTrue
    <3>2. CASE m # n
      BY <1>1, <1>8, <3>2 DEF LinkIsTrue
    <3> QED
      BY <3>1, <3>2
  <2>3. m \in known /\ ~registered[m] => Len(down'[m]) > 0 /\ down'[m][1] = Registered
    <3>1. CASE m = q
      <4>1. ASSUME ~registered[q] PROVE Len(d) > 0 /\ d[1] = Registered
        BY <1>1, <1>10, <1>14, <4>1 DEF LinkIsTrue
      <4> QED
        BY <1>12, <1>13, <3>1, <4>1
    <3>2. CASE m # q
      BY <1>1, <1>13, <3>2 DEF LinkIsTrue
    <3> QED
      BY <3>1, <3>2
  <2>4. m \notin known => up'[m] = up[m] /\ down'[m] = down[m]
    BY <1>7, <1>8, <1>13, <1>14
  <2> QED
    BY <1>1, <2>1, <2>2, <2>3, <2>4 DEF LinkIsTrue
<1>17. ASSUME NEW m \in Nodes, NEW k \in Nodes PROVE HeardIsThere(m, k)'
  <2>1. CASE m # q
    BY <1>1, <1>2, <1>13, <2>1 DEF HeardIsThere, NoOffline
  <2>2. CASE m = q
    <3>1. e = Offline(k) => k \notin known
      <4>1. From(n, t) # Offline(k) /\ (Offline(p) = Offline(k) => p = k)
        BY FramesDiffer
      <4> QED
        BY <1>9, <4>1
    <3>2. ASSUME NEW i \in 1 .. Len(c), Heard(c[i], k)
          PROVE  k \in known /\ \A j \in 1 .. Len(c) : j > i => c[j] # Offline(k)
      <4>1. CASE i = Len(c)
        <5>1. Heard(e, k)
          BY <1>12, <3>2, <4>1
        <5>2. e # Offline(p)
          BY <5>1, FramesDiffer DEF Heard
        <5>3. k = n
          BY <1>9, <5>1, <5>2, FramesDiffer DEF Heard
        <5> QED
          BY <1>7, <1>12, <4>1, <5>3
      <4>2. CASE i \in 1 .. Len(d)
        <5>1. d[i] = c[i]
          BY <1>12, <4>2
        <5>2. k \in known /\ \A j \in 1 .. Len(d) : j > i => d[j] # Offline(k)
          BY <1>1, <1>10, <3>2, <4>2, <5>1 DEF HeardIsThere
        <5> QED
          BY <1>12, <3>1, <5>2
      <4> QED
        BY <1>12, <4>1, <4>2
    <3>3. ASSUME k \in asked[q] \cup told[q]
          PROVE  k \in known /\ registered[q] /\ NoOffline(c, k)
      <4>1. k \in known /\ registered[q] /\ NoOffline(d, k)
        BY <1>1, <1>10, <3>3 DEF HeardIsThere
      <4> QED
        BY <1>12, <3>1, <4>1 DEF NoOffline
    <3> QED
      BY <1>2, <1>13, <2>2, <3>2, <3>3 DEF HeardIsThere
  <2> QED
    BY <2>1, <2>2
<1>18. "ACCEPTED" \in Letters
  BY DEF Letters
\* An acceptance is passed on, as its receiver is known.
<1>19. t = "ACCEPTED" => p \in known
  <2>1. ASSUME t = "ACCEPTED" PROVE p \in known
    <3>1. 1 \in 1 .. Len(s) /\ s[1] = To(p, "ACCEPTED")
      BY <1>5, <1>6, <2>1
    <3>2. AcceptUp(n, p)
      BY <1>3, <3>1 DEF AcceptUp
    <3> QED
      BY <1>1, <3>2 DEF TellingIsTrue, HeardIsThere
  <2> QED
    BY <2>1
<1>20. ASSUME NEW m \in Nodes, NEW k \in Nodes
       PROVE  AcceptUp(m, k) <=> AcceptUp(m, k)' \/ (m = n /\ k = p /\ t = "ACCEPTED")
  <2>1. CASE m = n
    <3>1. /\ AcceptUp(n, k)' <=> \E i \in 1 .. Len(r) : r[i] = To(k, "ACCEPTED")
          /\ AcceptUp(n, k) <=> \E i \in 1 .. Len(s) : s[i] = To(k, "ACCEPTED")
      BY <1>3, <1>8 DEF AcceptUp
    <3>2. s[1] = To(k, "ACCEPTED") <=> k = p /\ t = "ACCEPTED"
      BY <1>5, <1>6, <1>18, FramesDiffer
    <3>3. ASSUME NEW i \in 1 .. Len(r), r[i] = To(k, "ACCEPTED")
          PROVE  \E j \in 1 .. Len(s) : s[j] = To(k, "ACCEPTED")
      BY <1>5, <3>3
    <3>4. ASSUME NEW i \in 1 .. Len(s), s[i] = To(k, "ACCEPTED")
          PROVE  \/ \E j \in 1 .. Len(r) : r[j] = To(k, "ACCEPTED")
                 \/ s[1] = To(k, "ACCEPTED")
      <4>1. CASE i = 1
        BY <3>4, <4>1
      <4>2. CASE i - 1 \in 1 .. Len(r) /\ r[i - 1] = s[i]
        BY <3>4, <4>2
      <4> QED
        BY <1>5, <4>1, <4>2
    <3>5. 1 \in 1 .. Len(s)
      BY <1>5
    <3> QED
      BY <2>1, <3>1, <3>2, <3>3, <3>4, <3>5
  <2>2. CASE m # n
    BY <1>8, <2>2 DEF AcceptUp
  <2> QED
    BY <2>1, <2>2
<1>21. ASSUME NEW m \in Nodes, NEW k \in Nodes
       PROVE  AcceptDown(m, k)' <=> AcceptDown(m, k) \/ (m = n /\ k = p /\ t = "ACCEPTED")
  <2>1. k = q /\ e = From(m, "ACCEPTED") <=> m = n /\ k = p /\ t = "ACCEPTED"
    <3>1. From(m, "ACCEPTED") # Offline(p)
      BY <1>18, FramesDiffer
    <3>2. From(m, "ACCEPTED") = From(n, t) <=> m = n /\ t = "ACCEPTED"
      BY <1>18, FramesDiffer
    <3> QED
      BY <1>9, <1>19, <3>1, <3>2
  <2>2. CASE k = q
    <3>1. /\ AcceptDown(m, q)' <=> \E i \in 1 .. Len(c) : c[i] = From(m, "ACCEPTED")
          /\ AcceptDown(m, q) <=> \E i \in 1 .. Len(d) : d[i] = From(m, "ACCEPTED")
      BY <1>10, <1>13 DEF AcceptDown
    <3>2. (\E i \in 1 .. Len(c) : c[i] = From(m, "ACCEPTED"))
              <=> (\E i \in 1 .. Len(d) : d[i] = From(m, "ACCEPTED")) \/ e = From(m, "ACCEPTED")
      BY <1>12
    <3> QED
      BY <2>1, <2>2, <3>1, <3>2
  <2>3. CASE k # q
    BY <1>13, <2>1, <2>3 DEF AcceptDown
  <2> QED
    BY <2>2, <2>3
<1>22. ASSUME NEW m \in Nodes, NEW k \in Nodes PROVE TellingIsTrue(m, k)'
  <2>1. t = "ACCEPTED" => AcceptUp(n, p)
    BY <1>20
  <2> QED
    BY <1>1, <1>2, <1>20, <1>21, <2>1 DEF TellingIsTrue
<1> QED
  BY <1>2, <1>15, <1>16, <1>17, <1>22 DEF RelayInv

\* The handlers of the relay's frames.
LEMMA RelayHandles ==
    ASSUME RelayInv, losses = 0, NEW n \in Nodes, Handles(n), UNCHANGED started
    PROVE  RelayInv'
<1>1. RelayTypes /\ \A m \in Nodes : LinkIsTrue(m)
  BY DEF RelayInv
<1> DEFINE f == Head(down[n])
<1>2. /\ down[n] # <<>> /\ down' = [down EXCEPT ![n] = Tail(@)]
      /\ UNCHANGED <<socket, up, known, losses>>
  BY DEF Handles, OnRegistered, OnPeerOffline, OnHandshake, OnAccepted, OnOther, Acceptance,
         HandleRelayFrame, Takes, relayBounds
<1>3. f \in DownFrames /\ Len(down[n]) > 0 /\ f = down[n][1] /\ Len(down[n]) \in Nat
  BY <1>1, <1>2, FirstGoes DEF RelayTypes
<1>4. registered \in [Nodes -> BOOLEAN] /\ asked \in [Nodes -> SUBSET Nodes]
      /\ told \in [Nodes -> SUBSET Nodes]
  BY <1>1 DEF RelayTypes
<1>5. \A q \in Nodes : From(q, "ACCEPTED") # Registered /\ From(q, "ACCEPTED").type = "ACCEPTED"
  BY FramesDiffer DEF Letters, From
<1>6. CASE OnRegistered(n)
  <2>1. f = Registered /\ registered' = [registered EXCEPT ![n] = TRUE]
        /\ UNCHANGED <<asked, told>>
    BY <1>3, <1>6, FramesTell DEF OnRegistered, Takes, records
  <2>2. \A q \in Nodes : f # From(q, "ACCEPTED")
    BY <1>5, <2>1
  <2>3. /\ registered' \in [Nodes -> BOOLEAN]
        /\ \A m \in Nodes : registered'[m] <=> registered[m] \/ (m = n /\ f = Registered)
    BY <1>4, <2>1
  <2> QED
    BY <1>2, <1>4, <2>1, <2>2, <2>3, RelayTakes
\* Who has told n anything, or is told to n's user, is there.
<1>7. CASE OnPeerOffline(n)
  <2>1. f.uuid \in Nodes /\ f = Offline(f.uuid) /\ f.type = "OFFLINE"
    BY <1>3, <1>7, FramesTell DEF OnPeerOffline, Takes
  <2>2. f # Registered /\ \A q \in Nodes : f # From(q, "ACCEPTED")
    BY <2>1, FramesDiffer DEF Letters
  <2>3. f.uuid \notin told[n]
    <3>1. 1 \in 1 .. Len(down[n])
      BY <1>3
    <3>2. ASSUME f.uuid \in told[n] PROVE FALSE
      <4>1. NoOffline(down[n], f.uuid)
        BY <2>1, <3>2 DEF RelayInv, HeardIsThere
      <4> QED
        BY <1>3, <2>1, <3>1, <4>1 DEF NoOffline
    <3> QED
      BY <3>2
  <2>4. UNCHANGED <<registered, asked, told>>
    <3>1. \/ told' = told
          \/ told' = [told EXCEPT ![n] = @ \ {f.uuid}]
      BY <1>7 DEF OnPeerOffline, records
    <3>2. told' = told
      BY <1>4, <2>3, <3>1
    <3> QED
      BY <1>7, <3>2 DEF OnPeerOffline
  <2> QED
    BY <1>2, <1>4, <2>2, <2>4, RelayTakes
<1>8. ASSUME NEW t \in Letters, HandleRelayFrame(n, t)
      PROVE  /\ f.from \in Nodes /\ f = From(f.from, t) /\ f # Registered
             /\ \A q \in Nodes : Heard(f, q) <=> q = f.from
             /\ \A q \in Nodes : f = From(q, "ACCEPTED") <=> q = f.from /\ t = "ACCEPTED"
  <2>1. f.from \in Nodes /\ f = From(f.from, t)
    BY <1>3, <1>8, FramesTell DEF HandleRelayFrame, Takes
  <2>2. "ACCEPTED" \in Letters
    BY DEF Letters
  <2> QED
    BY <2>1, <2>2, FramesDiffer DEF Heard
<1>9. CASE OnHandshake(n)
  <2>1. HandleRelayFrame(n, "HANDSHAKE") /\ asked' = [asked EXCEPT ![n] = @ \cup {f.from}]
        /\ UNCHANGED <<registered, told>>
    BY <1>9 DEF OnHandshake, Sender
  <2>2. "HANDSHAKE" \in Letters /\ "HANDSHAKE" # "ACCEPTED"
    BY DEF Letters
  <2>3. /\ f.from \in Nodes /\ f # Registered /\ Heard(f, f.from)
        /\ \A q \in Nodes : f # From(q, "ACCEPTED")
    BY <1>8, <2>1, <2>2
  <2>4. /\ asked' \in [Nodes -> SUBSET Nodes]
        /\ \A m, q \in Nodes : q \in asked'[m] => q \in asked[m] \/ (m = n /\ Heard(f, q))
    BY <1>4, <2>1, <2>3
  <2> QED
    BY <1>2, <1>4, <2>1, <2>3, <2>4, RelayTakes
<1>10. CASE OnAccepted(n)
  <2>1. HandleRelayFrame(n, "ACCEPTED") /\ told' = [told EXCEPT ![n] = @ \cup {f.from}]
        /\ UNCHANGED <<registered, asked>>
    BY <1>10 DEF OnAccepted, Acceptance, Tells, Sender
  <2>2. "ACCEPTED" \in Letters
    BY DEF Letters
  <2>3. /\ f.from \in Nodes /\ f # Registered
        /\ \A q \in Nodes : f = From(q, "ACCEPTED") <=> q = f.from
    BY <1>8, <2>1, <2>2
  <2>4. /\ told' \in [Nodes -> SUBSET Nodes]
        /\ \A m, q \in Nodes :
              q \in told'[m] <=> q \in told[m] \/ (m = n /\ f = From(q, "ACCEPTED"))
    BY <1>4, <2>1, <2>3
  <2> QED
    BY <1>2, <1>4, <2>1, <2>3, <2>4, RelayTakes
<1>11. CASE OnOther(n)
  <2>1. UNCHANGED <<registered, asked, told>>
    BY <1>11 DEF OnOther
  <2>2. \E t \in {"REFUSED", "OTHER"} : HandleRelayFrame(n, t)
    BY <1>11 DEF OnOther
  <2>3. \A t \in {"REFUSED", "OTHER"} : t \in Letters /\ t # "ACCEPTED"
    BY DEF Letters
  <2>4. f # Registered /\ \A q \in Nodes : f # From(q, "ACCEPTED")
    BY <1>8, <2>2, <2>3
  <2> QED
    BY <1>2, <1>4, <2>1, <2>4, RelayTakes
<1> QED
  BY <1>6, <1>7, <1>9, <1>10, <1>11 DEF Handles

\* The user's calls.
LEMMA RelayUser ==
    ASSUME RelayInv, losses = 0, NEW n \in Nodes, NEW p \in Nodes, UNCHANGED started,
           \/ ConnectToPeer(n, p) \/ SendFrame(n, p) \/ RunSendFrame(n, p)
           \/ AcceptIncoming(n, p) \/ RejectIncoming(n, p)
    PROVE  RelayInv'
<1>1. asked \in [Nodes -> SUBSET Nodes]
  BY DEF RelayInv, RelayTypes
<1>2. UNCHANGED <<socket, registered, down, known, losses>>
  BY DEF ConnectToPeer, SendFrame, RunSendFrame, AcceptIncoming, RejectIncoming, relayBounds,
         sides
<1>3. /\ asked' \in [Nodes -> SUBSET Nodes]
      /\ \A m \in Nodes : asked'[m] \in SUBSET asked[m]
  <2>1. asked' = asked \/ asked' = [asked EXCEPT ![n] = @ \ {p}]
    BY DEF ConnectToPeer, SendFrame, RunSendFrame, AcceptIncoming, RejectIncoming, Answered
  <2> QED
    BY <1>1, <2>1
<1>4. /\ "HANDSHAKE" \in Letters /\ "OTHER" \in Letters /\ "REFUSED" \in Letters
      /\ "ACCEPTED" \in Letters
      /\ "HANDSHAKE" # "ACCEPTED" /\ "OTHER" # "ACCEPTED" /\ "REFUSED" # "ACCEPTED"
  BY DEF Letters
<1>5. \/ UNCHANGED <<up, told>>
      \/ \E t \in {"HANDSHAKE", "OTHER", "REFUSED"} : SendViaRelay(n, p, t) /\ told' = told
      \/ /\ SendViaRelay(n, p, "ACCEPTED") /\ p \in asked[n]
         /\ told' = [told EXCEPT ![n] = @ \cup {p}]
  <2>1. CASE ConnectToPeer(n, p)
    BY <2>1 DEF ConnectToPeer
  <2>2. CASE SendFrame(n, p)
    BY <2>2 DEF SendFrame, sides, records
  <2>3. CASE RunSendFrame(n, p)
    BY <2>3 DEF RunSendFrame, records
  <2>4. CASE AcceptIncoming(n, p)
    BY <2>4 DEF AcceptIncoming, Tells, records
  <2>5. CASE RejectIncoming(n, p)
    BY <2>5 DEF RejectIncoming
  <2> QED
    BY <2>1, <2>2, <2>3, <2>4, <2>5
<1>6. CASE UNCHANGED <<up, told>>
  BY <1>2, <1>3, <1>6, RelayRests DEF sides
<1>7. ASSUME NEW t \in {"HANDSHAKE", "OTHER", "REFUSED"}, SendViaRelay(n, p, t), told' = told
      PROVE  RelayInv'
  <2>1. t \in Letters /\ t # "ACCEPTED"
    BY <1>4
  <2> QED
    BY <1>2, <1>3, <1>7, <2>1, RelaySends
<1>8. CASE /\ SendViaRelay(n, p, "ACCEPTED") /\ p \in asked[n]
           /\ told' = [told EXCEPT ![n] = @ \cup {p}]
  BY <1>2, <1>3, <1>4, <1>8, RelaySends
<1> QED
  BY <1>5, <1>6, <1>7, <1>8

LEMMA RelaySteps ==
    ASSUME RelayInv, losses = 0, RelayNext, UNCHANGED modeVars
    PROVE  RelayInv'
<1>1. UNCHANGED started /\ RelayTypes /\ \A m \in Nodes : LinkIsTrue(m)
  BY DEF modeVars, RelayInv
<1>2. ASSUME NEW n \in Nodes, \/ ConnectFails(n) \/ Connects(n) \/ Redials(n) \/ ReadFails(n)
                              \/ NoAddress(n) \/ LinkLost(n) \/ Overflows(n)
                              \/ Forward(n) \/ Handles(n)
      PROVE  RelayInv'
  <2>1. CASE ConnectFails(n) \/ Redials(n)
    <3>1. /\ socket[n] # "open" /\ socket[n] # "off"
          /\ Becomes(n, "dialling") \/ Becomes(n, "waiting")
          /\ UNCHANGED registered \/ registered' = [registered EXCEPT ![n] = FALSE]
          /\ UNCHANGED <<up, down, known, told, asked, losses>>
      BY <2>1 DEF ConnectFails, Redials, Retry, records, relayBounds
    <3>2. n \in started'
      BY <1>1, <3>1 DEF LinkIsTrue
    <3> QED
      BY <1>1, <3>1, <3>2, RelayDials
  <2>2. CASE Connects(n)
    BY <1>1, <2>2, RelayConnects
  <2>3. CASE ReadFails(n)
    BY <1>1, <2>3 DEF ReadFails, RelayTypes
  <2>4. CASE NoAddress(n) \/ LinkLost(n) \/ Overflows(n)
    BY <2>4 DEF NoAddress, LinkLost, Overflows, RelayInv
  <2>5. CASE Forward(n)
    BY <1>1, <2>5, RelayRegisters, RelayForwards
  <2>6. CASE Handles(n)
    BY <1>1, <2>6, RelayHandles
  <2> QED
    BY <1>2, <2>1, <2>2, <2>3, <2>4, <2>5, <2>6
<1>3. ASSUME NEW n \in Nodes, NEW p \in Nodes,
             \/ ConnectToPeer(n, p) \/ SendFrame(n, p) \/ RunSendFrame(n, p)
             \/ AcceptIncoming(n, p) \/ RejectIncoming(n, p)
      PROVE  RelayInv'
  BY <1>1, <1>3, RelayUser
<1> QED
  BY <1>2, <1>3 DEF RelayNext

\* A link that was lost stays counted.
Counted == losses \in Nat

LEMMA LossesCounted ==
    ASSUME Counted, [Next]_vars
    PROVE  Counted' /\ (losses' = 0 => losses = 0)
<1>1. UNCHANGED losses \/ losses' = losses + 1
  BY Zenon DEF Next, InitNode, InitRelay, InitUpnp, ConnectToRelay, TurnOff, RelayNext,
     ConnectFails, Connects, Redials, NoAddress, ReadFails, LinkLost, Overflows, Forward, Handles,
     OnRegistered, OnPeerOffline, OnHandshake, OnAccepted, OnOther, ConnectToPeer, SendFrame,
     RunSendFrame, AcceptIncoming, RejectIncoming, relayVars, relayBounds, vars
<1> QED
  BY <1>1 DEF Counted

LEMMA RelayStarts == Init => RelayInv /\ Counted
<1> SUFFICES ASSUME RelayInit, started = {} PROVE RelayInv /\ Counted
  BY DEF Init
<1>1. RelayTypes
  BY DEF RelayInit, RelayTypes
<1>2. /\ \A n \in Nodes : /\ socket[n] = "off" /\ ~registered[n] /\ asked[n] = {}
                          /\ told[n] = {} /\ up[n] = <<>> /\ down[n] = <<>>
      /\ known = {} /\ losses = 0
  BY DEF RelayInit
<1>3. Len(<<>>) = 0
  OBVIOUS
<1>4. \A n \in Nodes : LinkIsTrue(n)
  BY <1>2 DEF LinkIsTrue
<1>5. \A n, p \in Nodes : HeardIsThere(n, p) /\ TellingIsTrue(n, p)
  BY <1>2, <1>3 DEF HeardIsThere, TellingIsTrue, AcceptUp, AcceptDown
<1> QED
  BY <1>1, <1>2, <1>4, <1>5 DEF RelayInv, Counted

LEMMA RelayKeeps ==
    ASSUME RelayInv, Counted, [Next]_vars
    PROVE  RelayInv'
<1>1. losses' = 0 => losses = 0
  BY LossesCounted
<1>2. CASE losses # 0
  BY <1>1, <1>2 DEF RelayInv
<1>3. CASE losses = 0
  <2>1. RelayTypes /\ \A m \in Nodes : LinkIsTrue(m)
    BY <1>3 DEF RelayInv
  <2>2. ASSUME UNCHANGED relayVars, started \in SUBSET started'
        PROVE  RelayInv'
    BY <2>1, <2>2, RelayRests DEF relayVars, records, relayBounds, RelayTypes
  <2>3. ASSUME NEW n \in Nodes, InitNode(n) PROVE RelayInv'
    <3>1. n \notin started /\ started' = started \cup {n}
      BY <2>3 DEF InitNode
    <3>2. CASE InitRelay(n)
      <4>1. Becomes(n, "dialling")
            /\ UNCHANGED <<registered, up, down, known, told, asked, losses>>
        BY <3>2 DEF InitRelay, ConnectToRelay, records, relayBounds
      <4>2. socket[n] # "open"
        BY <2>1, <3>1 DEF LinkIsTrue
      <4> QED
        BY <1>3, <3>1, <4>1, <4>2, RelayDials
    <3>3. CASE InitUpnp(n)
      BY <2>2, <3>1, <3>3 DEF InitUpnp
    <3> QED
      BY <2>3, <3>2, <3>3 DEF InitNode
  <2>4. CASE TurnOff
    BY <2>2, <2>4 DEF TurnOff
  <2>5. CASE RelayNext /\ UNCHANGED modeVars
    BY <1>3, <2>5, RelaySteps
  <2>6. CASE UNCHANGED <<relayVars, modeVars>>
    BY <2>2, <2>6 DEF modeVars
  <2>7. CASE UNCHANGED vars
    BY <2>6, <2>7 DEF vars
  <2> QED
    BY <2>3, <2>4, <2>5, <2>6, <2>7 DEF Next
<1> QED
  BY <1>2, <1>3

\* acceptIncoming and HANDSHAKE_ACK through the relay, for any number of nodes that dial,
\* answer and write to each other: when nothing is on its way and no link was lost, who is
\* told that a peer is connected has a peer that was told so too.
THEOREM TellsBoth == Spec => []BothAreTold
<1>1. RelayInv => BothAreTold
  <2> SUFFICES ASSUME RelayInv, losses = 0,
                      \A n \in Nodes : up[n] = <<>> /\ down[n] = <<>>,
                      NEW n \in Nodes, NEW p \in Nodes
               PROVE  p \in told[n] => n \in told[p]
    BY DEF BothAreTold
  <2>1. Len(up[n]) = 0 /\ Len(down[p]) = 0
    OBVIOUS
  <2> QED
    BY <2>1 DEF RelayInv, TellingIsTrue, AcceptUp, AcceptDown
<1> QED
  BY <1>1, RelayStarts, RelayKeeps, LossesCounted, PTL DEF Spec
=============================================================================
