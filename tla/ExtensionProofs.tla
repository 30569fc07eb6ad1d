-------------------------- MODULE ExtensionProofs --------------------------
(***************************************************************************)
(* OneServerForThePath, FailuresAreToldOnce, PageShowsTheTarget and        *)
(* OpensTheNodesFile, for any paths, files and targets, and any number of  *)
(* restarts, crashes, servers, panels and requests that are awaited.       *)
(***************************************************************************)
EXTENDS GraphPanel, TLAPS, FiniteSetTheorems, WellFoundedInduction

Up == {"starting", "running", "crashed"}
State == Pending \cup {"running", "failed", "stopped", "crashed"}
Server == [path : Paths, state : State, next : {"start", "end"}]

ClientTypes ==
    /\ serverPath \in Paths
    /\ servers \in Seq(Server) /\ Latest >= 1
    /\ client \in {None} \cup DOMAIN servers
    /\ hasShownStartupError \in BOOLEAN /\ active \in BOOLEAN /\ disturbed \in BOOLEAN

\* The extension never holds a client that it stopped or that failed.
ClientIsUp == client # None => servers[client].state \in Up

\* A message stands for hasShownStartupError.
Told == errors = IF hasShownStartupError THEN 1 ELSE 0

\* While no task has begun during another, only the latest client may live.
OnlyLatestLives ==
    ~disturbed => \A i \in DOMAIN servers : servers[i].state \in Pending \cup {"running"} => i = Latest

\* ... and its state says what the extension is doing.
LatestServes ==
    ~disturbed =>
        /\ client = IF active /\ servers[Latest].state \in Up THEN Latest ELSE None
        /\ servers[Latest].state \in {"starting", "running"} => active
        /\ servers[Latest].state = "stopping" => (active <=> servers[Latest].next = "start")
        /\ servers[Latest].state = "stopped" => ~active
        /\ active /\ servers[Latest].state # "stopping" => servers[Latest].path = serverPath
        /\ servers[Latest].state = "failed" => hasShownStartupError

ClientInv == ClientTypes /\ ClientIsUp /\ Told /\ OnlyLatestLives /\ LatestServes

-----------------------------------------------------------------------------
(* Steps of the client *)

\* ClientInv does not mention `events'.
LEMMA NothingChanged ==
    ASSUME ClientInv,
           UNCHANGED <<serverPath, servers, client, hasShownStartupError, active, errors, disturbed>>
    PROVE  ClientInv'
  BY DEF ClientInv, ClientTypes, ClientIsUp, Told, OnlyLatestLives, LatestServes, Latest

LEMMA InitHolds == Init => ClientInv
  <1> SUFFICES ASSUME Init PROVE ClientInv
    OBVIOUS
  <1>1. /\ Len(servers) = 1 /\ DOMAIN servers = {1} /\ servers[1] \in Server
        /\ servers \in Seq(Server)
    BY DEF Init, Server, State, Pending
  <1>2. servers[1].state = "starting" /\ servers[1].path = serverPath
    BY DEF Init
  <1>3. ClientTypes
    <2>1. hasShownStartupError \in BOOLEAN /\ active \in BOOLEAN /\ disturbed \in BOOLEAN
      BY Zenon DEF Init
    <2> QED
      BY <1>1, <2>1 DEF Init, ClientTypes, Latest, None
  <1>4. ClientIsUp /\ Told /\ OnlyLatestLives
    BY <1>1, <1>2 DEF Init, ClientIsUp, Told, OnlyLatestLives, Latest, Up
  <1>5. LatestServes
    BY <1>1, <1>2 DEF Init, LatestServes, Latest, Up, None
  <1> QED
    BY <1>3, <1>4, <1>5 DEF ClientInv

\* The clients when the state of one is set.
WithState(i, state) == [servers EXCEPT ![i].state = state]

LEMMA SetState ==
    ASSUME ClientTypes, NEW i \in DOMAIN servers, NEW s \in State
    PROVE  /\ WithState(i, s) \in Seq(Server) /\ Len(WithState(i, s)) = Latest
           /\ DOMAIN WithState(i, s) = DOMAIN servers
           /\ WithState(i, s)[i].state = s /\ WithState(i, s)[i].next = servers[i].next
           /\ WithState(i, s)[i].path = servers[i].path
           /\ \A j \in DOMAIN servers \ {i} : WithState(i, s)[j] = servers[j]
  <1> DEFINE one == [servers[i] EXCEPT !.state = s]
  <1>1. servers \in Seq(Server) /\ servers[i] \in Server
    BY DEF ClientTypes
  <1>2. one \in Server /\ one.state = s /\ one.next = servers[i].next /\ one.path = servers[i].path
    BY <1>1 DEF Server
  <1>3. WithState(i, s) = [servers EXCEPT ![i] = one]
    BY DEF WithState
  <1> HIDE DEF one
  <1>4. /\ WithState(i, s) \in Seq(Server) /\ Len(WithState(i, s)) = Len(servers)
        /\ DOMAIN WithState(i, s) = DOMAIN servers
    BY <1>1, <1>2, <1>3
  <1>5. WithState(i, s)[i] = one /\ \A j \in DOMAIN servers \ {i} : WithState(i, s)[j] = servers[j]
    BY <1>1, <1>3
  <1> QED
    BY <1>2, <1>4, <1>5 DEF Latest

\* A step that makes a client; `now' are the ones there were.
LEMMA StartMakesOne ==
    ASSUME NEW now \in Seq(Server), Len(now) = Latest, serverPath' \in Paths, StartClient(now)
    PROVE  /\ servers' \in Seq(Server) /\ Latest' = Latest + 1 /\ client' = Latest'
           /\ DOMAIN servers' = 1..Latest + 1
           /\ servers'[Latest'].state = "starting" /\ servers'[Latest'].path = serverPath'
           /\ \A j \in 1..Latest : servers'[j] = now[j]
  BY DEF StartClient, Server, State, Pending, Latest

LEMMA LatestExists == ClientTypes => Latest \in DOMAIN servers /\ DOMAIN servers = 1..Latest
  BY DEF ClientTypes, Latest

LEMMA StartSucceedsKeeps ==
    ASSUME ClientInv, NEW i \in DOMAIN servers, StartSucceeds(i)
    PROVE  ClientInv'
  <1>0. servers' = WithState(i, "running")
    BY DEF StartSucceeds, WithState
  <1>1. "running" \in State /\ ClientTypes /\ Latest \in DOMAIN servers
    BY LatestExists DEF ClientInv, State
  <1>2. /\ servers' \in Seq(Server) /\ Latest' = Latest /\ DOMAIN servers' = DOMAIN servers
        /\ servers'[i].state = "running" /\ servers'[i].path = servers[i].path
        /\ \A j \in DOMAIN servers \ {i} : servers'[j] = servers[j]
    BY <1>0, <1>1, SetState DEF Latest
  <1>3. ClientTypes'
    BY <1>1, <1>2 DEF StartSucceeds, ClientTypes
  <1>4. ClientIsUp'
    BY <1>1, <1>2 DEF ClientInv, StartSucceeds, ClientIsUp, Up
  <1>5. Told'
    BY DEF StartSucceeds, Told
  <1>6. OnlyLatestLives'
    BY <1>1, <1>2 DEF ClientInv, StartSucceeds, OnlyLatestLives, Pending
  <1>7. LatestServes'
    <2> SUFFICES ASSUME ~disturbed PROVE LatestServes'
      BY DEF LatestServes, StartSucceeds
    <2>1. i = Latest
      BY DEF ClientInv, OnlyLatestLives, StartSucceeds, Pending
    <2> QED
      BY <1>1, <1>2, <2>1 DEF ClientInv, StartSucceeds, LatestServes, Up
  <1> QED
    BY <1>3, <1>4, <1>5, <1>6, <1>7 DEF ClientInv

LEMMA StartFailsKeeps ==
    ASSUME ClientInv, NEW i \in DOMAIN servers, StartFails(i)
    PROVE  ClientInv'
  <1>0. servers' = WithState(i, "failed")
    BY DEF StartFails, WithState
  <1>1. "failed" \in State /\ ClientTypes /\ Latest \in DOMAIN servers
    BY LatestExists DEF ClientInv, State
  <1>2. /\ servers' \in Seq(Server) /\ Latest' = Latest /\ DOMAIN servers' = DOMAIN servers
        /\ servers'[i].state = "failed" /\ servers'[i].path = servers[i].path
        /\ \A j \in DOMAIN servers \ {i} : servers'[j] = servers[j]
    BY <1>0, <1>1, SetState DEF Latest
  <1>3. ClientTypes'
    BY <1>1, <1>2 DEF StartFails, ClientTypes
  <1>4. ClientIsUp'
    BY DEF StartFails, ClientIsUp
  <1>5. Told'
    BY <1>1 DEF ClientInv, ClientTypes, StartFails, Told
  <1>6. OnlyLatestLives'
    BY <1>1, <1>2 DEF ClientInv, StartFails, OnlyLatestLives, Pending
  <1>7. LatestServes'
    <2> SUFFICES ASSUME ~disturbed PROVE LatestServes'
      BY DEF LatestServes, StartFails
    <2>1. i = Latest
      BY DEF ClientInv, OnlyLatestLives, StartFails, Pending
    <2> QED
      BY <1>1, <1>2, <2>1 DEF ClientInv, StartFails, LatestServes, Up
  <1> QED
    BY <1>3, <1>4, <1>5, <1>6, <1>7 DEF ClientInv


\* Crash and StopFails set a state and leave `client' alone.
LEMMA CrashKeeps ==
    ASSUME ClientInv, NEW i \in DOMAIN servers, Crash(i)
    PROVE  ClientInv'
  <1>0. servers' = WithState(i, "crashed")
    BY DEF Crash, WithState
  <1>1. "crashed" \in State /\ ClientTypes /\ Latest \in DOMAIN servers
    BY LatestExists DEF ClientInv, State
  <1>2. /\ servers' \in Seq(Server) /\ Latest' = Latest /\ DOMAIN servers' = DOMAIN servers
        /\ servers'[i].state = "crashed" /\ servers'[i].path = servers[i].path
        /\ \A j \in DOMAIN servers \ {i} : servers'[j] = servers[j]
    BY <1>0, <1>1, SetState DEF Latest
  <1>3. ClientTypes'
    BY <1>1, <1>2 DEF Crash, ClientTypes
  <1>4. ClientIsUp'
    BY <1>1, <1>2 DEF ClientInv, Crash, ClientIsUp, Up
  <1>5. Told'
    BY DEF ClientInv, Crash, Told
  <1>6. OnlyLatestLives'
    BY <1>1, <1>2 DEF ClientInv, Crash, OnlyLatestLives, Pending
  <1>7. LatestServes'
    <2> SUFFICES ASSUME ~disturbed PROVE LatestServes'
      BY DEF LatestServes, Crash
    <2>1. i = Latest
      BY DEF ClientInv, OnlyLatestLives, Crash, Pending
    <2> QED
      BY <1>1, <1>2, <2>1 DEF ClientInv, Crash, LatestServes, Up
  <1> QED
    BY <1>3, <1>4, <1>5, <1>6, <1>7 DEF ClientInv

LEMMA StopFailsKeeps ==
    ASSUME ClientInv, NEW i \in DOMAIN servers, StopFails(i)
    PROVE  ClientInv'
  <1>0. servers' = WithState(i, "stopped")
    BY DEF StopFails, WithState
  <1>1. "stopped" \in State /\ ClientTypes
    BY DEF ClientInv, State
  <1>2. /\ servers' \in Seq(Server) /\ Latest' = Latest /\ DOMAIN servers' = DOMAIN servers
        /\ \A j \in DOMAIN servers \ {i} : servers'[j] = servers[j]
    BY <1>0, <1>1, SetState DEF Latest
  <1>3. ClientTypes'
    BY <1>1, <1>2 DEF StopFails, ClientTypes
  <1>4. ClientIsUp'
    BY <1>1, <1>2 DEF ClientInv, StopFails, ClientIsUp, Up
  <1>5. Told' /\ OnlyLatestLives' /\ LatestServes'
    BY DEF ClientInv, StopFails, Told, OnlyLatestLives, LatestServes
  <1> QED
    BY <1>3, <1>4, <1>5 DEF ClientInv

\* A client is started when every other one has ended, or else the step is
\* disturbed.
LEMMA StartingKeeps ==
    ASSUME ClientInv, NEW now \in Seq(Server), Len(now) = Latest, StartClient(now),
           serverPath' \in Paths, active' \in BOOLEAN, disturbed' \in BOOLEAN,
           UNCHANGED <<hasShownStartupError, errors>>,
           ~disturbed' => active' /\ \A j \in 1..Latest : now[j].state \notin Pending \cup {"running"}
    PROVE  ClientInv'
  <1>1. ClientTypes /\ Latest \in Nat
    BY DEF ClientInv, ClientTypes, Latest
  <1>2. /\ servers' \in Seq(Server) /\ Latest' = Latest + 1 /\ client' = Latest'
        /\ DOMAIN servers' = 1..Latest + 1
        /\ servers'[Latest'].state = "starting" /\ servers'[Latest'].path = serverPath'
        /\ \A j \in 1..Latest : servers'[j] = now[j]
    BY StartMakesOne
  <1>3. ClientTypes'
    BY <1>1, <1>2 DEF ClientTypes
  <1>4. ClientIsUp' /\ Told'
    BY <1>2 DEF ClientInv, ClientIsUp, Told, Up
  <1>5. OnlyLatestLives'
    BY <1>1, <1>2 DEF OnlyLatestLives
  <1>6. LatestServes'
    BY <1>2 DEF LatestServes, Up
  <1> QED
    BY <1>3, <1>4, <1>5, <1>6 DEF ClientInv

LEMMA StopEndsKeeps ==
    ASSUME ClientInv, NEW i \in DOMAIN servers, StopEnds(i)
    PROVE  ClientInv'
  <1> DEFINE stopped == WithState(i, "stopped")
  <1>1. "stopped" \in State /\ ClientTypes /\ Latest \in DOMAIN servers /\ DOMAIN servers = 1..Latest
    BY LatestExists DEF ClientInv, State
  <1>2. /\ stopped \in Seq(Server) /\ Len(stopped) = Latest /\ DOMAIN stopped = DOMAIN servers
        /\ stopped[i].state = "stopped" /\ stopped[i].path = servers[i].path
        /\ \A j \in DOMAIN servers \ {i} : stopped[j] = servers[j]
    BY <1>1, SetState
  <1>3. ~disturbed => i = Latest
    BY DEF ClientInv, OnlyLatestLives, StopEnds, Pending
  <1>4. CASE servers[i].next = "start"
    <2>1. StartClient(stopped)
      BY <1>4 DEF StopEnds, WithState
    <2>2. ~disturbed => active /\ \A j \in 1..Latest : stopped[j].state \notin Pending \cup {"running"}
      BY <1>1, <1>2, <1>3, <1>4 DEF ClientInv, OnlyLatestLives, LatestServes, StopEnds, Pending
    <2> HIDE DEF stopped
    <2>3. /\ serverPath' = serverPath /\ active' = active /\ disturbed' = disturbed
          /\ UNCHANGED <<hasShownStartupError, errors>>
      BY DEF StopEnds
    <2> QED
      BY <1>1, <1>2, <2>1, <2>2, <2>3, StartingKeeps DEF ClientTypes
  <1>5. CASE servers[i].next # "start"
    <2>1. servers' = stopped /\ UNCHANGED client
      BY <1>5 DEF StopEnds, WithState
    <2> HIDE DEF stopped
    <2>2. ClientTypes' /\ Latest' = Latest
      BY <1>1, <1>2, <2>1 DEF StopEnds, ClientTypes, Latest
    <2>3. ClientIsUp'
      BY <1>1, <1>2, <2>1 DEF ClientInv, ClientTypes, StopEnds, ClientIsUp, Up
    <2>4. Told'
      BY DEF ClientInv, StopEnds, Told
    <2>5. OnlyLatestLives'
      BY <1>1, <1>2, <2>1, <2>2 DEF ClientInv, StopEnds, OnlyLatestLives, Pending
    <2>6. LatestServes'
      BY <1>1, <1>2, <1>3, <1>5, <2>1, <2>2 DEF ClientInv, StopEnds, LatestServes, Up
    <2> QED
      BY <2>2, <2>3, <2>4, <2>5, <2>6 DEF ClientInv
  <1> QED
    BY <1>4, <1>5

\* The clients when one is told to stop.
Stopping(i, next) == [servers EXCEPT ![i].state = "stopping", ![i].next = next]

LEMMA SetStopping ==
    ASSUME ClientTypes, NEW i \in DOMAIN servers, NEW next \in {"start", "end"}
    PROVE  /\ Stopping(i, next) \in Seq(Server) /\ Len(Stopping(i, next)) = Latest
           /\ DOMAIN Stopping(i, next) = DOMAIN servers
           /\ Stopping(i, next)[i].state = "stopping" /\ Stopping(i, next)[i].next = next
           /\ \A j \in DOMAIN servers \ {i} : Stopping(i, next)[j] = servers[j]
  <1> DEFINE one == [servers[i] EXCEPT !.state = "stopping", !.next = next]
  <1>1. servers \in Seq(Server) /\ servers[i] \in Server
    BY DEF ClientTypes
  <1>2. one \in Server /\ one.state = "stopping" /\ one.next = next
    BY <1>1 DEF Server, State, Pending
  <1>3. Stopping(i, next) = [servers EXCEPT ![i] = one]
    BY <1>1 DEF Stopping, Server
  <1> HIDE DEF one
  <1>4. /\ Stopping(i, next) \in Seq(Server) /\ Len(Stopping(i, next)) = Len(servers)
        /\ DOMAIN Stopping(i, next) = DOMAIN servers
    BY <1>1, <1>2, <1>3
  <1>5. Stopping(i, next)[i] = one /\ \A j \in DOMAIN servers \ {i} : Stopping(i, next)[j] = servers[j]
    BY <1>1, <1>3
  <1> QED
    BY <1>2, <1>4, <1>5 DEF Latest

\* restartClient, which goes on with a start, and deactivate, with nothing.
LEMMA StopClientKeeps ==
    ASSUME ClientInv, NEW next \in {"start", "end"}, StopClient(next),
           active, active' \in BOOLEAN, active' <=> next = "start",
           serverPath' \in Paths, next = "end" => serverPath' = serverPath,
           UNCHANGED <<hasShownStartupError, errors>>
    PROVE  ClientInv'
  <1>1. /\ ClientTypes /\ Latest \in Nat /\ Latest \in DOMAIN servers /\ DOMAIN servers = 1..Latest
        /\ ClientIsUp /\ Told /\ OnlyLatestLives /\ LatestServes
    BY LatestExists DEF ClientInv, ClientTypes, Latest
  <1>2. disturbed' \in BOOLEAN /\ (~disturbed' => ~disturbed /\ Quiet)
    BY DEF StopClient
  <1>3. Told'
    BY <1>1 DEF Told
  <1>4. CASE ClientState \in {"none", "crashed"}
    <2>1. ~disturbed' => \A k \in DOMAIN servers : servers[k].state \notin Pending \cup {"running"}
      <3> SUFFICES ASSUME ~disturbed', NEW k \in DOMAIN servers, servers[k].state \in Pending \cup {"running"}
                   PROVE  FALSE
        OBVIOUS
      <3>1. k = Latest /\ servers[k].state = "running"
        BY <1>1, <1>2 DEF OnlyLatestLives, Quiet
      <3>2. client = Latest /\ client # None
        BY <1>1, <1>2, <3>1 DEF LatestServes, Up, None
      <3> QED
        BY <1>4, <3>1, <3>2 DEF ClientState
    <2>2. IF next = "start" THEN StartClient(servers) ELSE client' = None /\ UNCHANGED servers
      BY <1>4 DEF StopClient
    <2>3. CASE next = "start"
      <3>1. StartClient(servers) /\ servers \in Seq(Server) /\ Len(servers) = Latest
        BY <1>1, <2>2, <2>3 DEF ClientTypes, Latest
      <3>2. ~disturbed' => active' /\ \A k \in 1..Latest : servers[k].state \notin Pending \cup {"running"}
        BY <1>1, <2>1, <2>3
      <3> QED
        BY <1>2, <3>1, <3>2, StartingKeeps
    <2>4. CASE next = "end"
      <3>1. client' = None /\ UNCHANGED servers
        BY <2>2, <2>4
      <3>2. ClientTypes' /\ ClientIsUp'
        BY <1>1, <1>2, <3>1 DEF ClientTypes, ClientIsUp, Latest
      <3>3. OnlyLatestLives'
        BY <1>1, <1>2, <3>1 DEF OnlyLatestLives, Latest
      <3>4. LatestServes'
        BY <1>1, <1>2, <2>1, <2>4, <3>1 DEF LatestServes, Latest, Pending
      <3> QED
        BY <1>3, <3>2, <3>3, <3>4 DEF ClientInv
    <2> QED
      BY <2>3, <2>4
  <1>5. CASE ClientState = "running"
    <2>1. client \in DOMAIN servers /\ servers[client].state = "running"
      BY <1>1, <1>5 DEF ClientState, ClientTypes
    <2>2. servers' = Stopping(client, next) /\ client' = None
      BY <1>5 DEF StopClient, Stopping
    <2>3. /\ servers' \in Seq(Server) /\ Latest' = Latest /\ DOMAIN servers' = DOMAIN servers
          /\ servers'[client].state = "stopping" /\ servers'[client].next = next
          /\ \A k \in DOMAIN servers \ {client} : servers'[k] = servers[k]
      BY <1>1, <2>1, <2>2, SetStopping DEF Latest
    <2>4. ClientTypes' /\ ClientIsUp'
      BY <1>1, <1>2, <2>2, <2>3 DEF ClientTypes, ClientIsUp
    <2>5. ~disturbed' => client = Latest
      BY <1>1, <1>2, <2>1 DEF OnlyLatestLives
    <2>6. OnlyLatestLives'
      BY <1>1, <1>2, <2>3, <2>5 DEF OnlyLatestLives, Pending
    <2>7. LatestServes'
      BY <1>1, <2>2, <2>3, <2>5 DEF LatestServes, Up
    <2> QED
      BY <1>3, <2>4, <2>6, <2>7 DEF ClientInv
  <1>6. CASE ClientState = "starting"
    <2>1. client' = None /\ UNCHANGED servers
      BY <1>6 DEF StopClient
    <2>2. disturbed'
      BY <1>1, <1>2, <1>6 DEF ClientState, ClientTypes, Quiet, Pending
    <2> QED
      BY <1>1, <1>2, <1>3, <2>1, <2>2
         DEF ClientInv, ClientTypes, ClientIsUp, OnlyLatestLives, LatestServes, Latest
  <1> QED
    BY <1>4, <1>5, <1>6 DEF StopClient

-----------------------------------------------------------------------------
(* Every step *)

LEMMA ClientStepKeeps ==
    ASSUME ClientInv, ClientProgress \/ ClientEvent
    PROVE  ClientInv'
  <1>1. ASSUME NEW i \in DOMAIN servers, StartSucceeds(i) \/ StartFails(i) \/ StopEnds(i) \/ StopFails(i) \/ Crash(i)
        PROVE  ClientInv'
    BY <1>1, StartSucceedsKeeps, StartFailsKeeps, StopEndsKeeps, StopFailsKeeps, CrashKeeps
  <1>2. ASSUME NEW path \in Paths, RestartClient(path)
        PROVE  ClientInv'
    BY <1>2, StopClientKeeps DEF RestartClient, ClientInv, ClientTypes
  <1>3. ASSUME Deactivate
        PROVE  ClientInv'
    BY <1>3, StopClientKeeps DEF Deactivate, ClientInv, ClientTypes
  <1> QED
    BY <1>1, <1>2, <1>3 DEF ClientProgress, ClientEvent

LEMMA StepKeeps ==
    ASSUME ClientInv, [Next]_vars
    PROVE  ClientInv'
  <1>1. CASE ClientProgress \/ ClientEvent
    BY <1>1, ClientStepKeeps
  <1>2. CASE UNCHANGED <<serverPath, servers, client, hasShownStartupError, active, errors, disturbed>>
    BY <1>2, NothingChanged
  <1>3. CASE ~(ClientProgress \/ ClientEvent) /\ Next
    <2> SUFFICES UNCHANGED <<serverPath, servers, client, hasShownStartupError, active, errors, disturbed>>
      BY <1>2
    <2>1. CASE Progress
      BY <1>3, <2>1 DEF Progress, TargetResolved, AnswerCommand, AnswerSend, AnswerOpen, OpenFile,
         PageLoads, clientVars
    <2>2. CASE ~Progress
      BY <1>3, <2>2 DEF Next, ShowDependencyGraph, ClickRefresh, ClickNode, Hide, Reveal, ClosePanel,
         UserAct, clientVars
    <2> QED
      BY <2>1, <2>2
  <1> QED
    BY <1>1, <1>2, <1>3 DEF vars, clientVars

LEMMA ClientInvariant == Spec => []ClientInv
  <1>1. GraphInit => ClientInv
    BY InitHolds DEF GraphInit
  <1> QED
    BY <1>1, StepKeeps, PTL DEF Spec

\* At most one server runs, the one for the path that is set, and none when
\* the extension is gone, unless tasks of the extension overlapped
\* (extension.ts, startClient, stopClient and restartClient).
THEOREM OneServer == Spec => []OneServerForThePath
  <1>1. ClientInv => OneServerForThePath
    <2> SUFFICES ASSUME ClientInv, ~disturbed PROVE
            /\ Cardinality(Living) <= 1
            /\ Quiet /\ ~active => Living = {}
            /\ Quiet /\ active =>
                  /\ servers[Latest].path = serverPath
                  /\ client = IF servers[Latest].state = "failed" THEN None ELSE Latest
      BY DEF OneServerForThePath
    <2>1. Latest \in DOMAIN servers /\ servers[Latest] \in Server
      BY LatestExists DEF ClientInv, ClientTypes
    <2>2. Living \subseteq {Latest}
      BY DEF ClientInv, OnlyLatestLives, Living
    <2>3. Cardinality(Living) <= 1
      <3>1. Living = {} \/ Living = {Latest}
        BY <2>2
      <3>2. Cardinality({}) = 0 /\ Cardinality({Latest}) = 1
        BY FS_EmptySet, FS_Singleton, Zenon
      <3>3. Cardinality(Living) = 0 \/ Cardinality(Living) = 1
        BY <3>1, <3>2, Zenon
      <3> QED
        BY <3>3
    <2>4. Quiet /\ ~active => Living = {}
      BY <2>1, <2>2 DEF ClientInv, LatestServes, Living, Quiet, Pending
    <2>5. Quiet /\ active => /\ servers[Latest].path = serverPath
                             /\ client = IF servers[Latest].state = "failed" THEN None ELSE Latest
      BY <2>1 DEF ClientInv, LatestServes, Quiet, Pending, Server, State, Up
    <2> QED
      BY <2>3, <2>4, <2>5
  <1> QED
    BY <1>1, ClientInvariant, PTL

\* A start that fails is reported, and however restarts overlap no second
\* report follows before a start has succeeded (extension.ts, startClient).
THEOREM ToldOnce == Spec => []FailuresAreToldOnce
  <1>1. ClientInv => FailuresAreToldOnce
    BY DEF ClientInv, ClientTypes, Told, LatestServes, FailuresAreToldOnce
  <1> QED
    BY <1>1, ClientInvariant, PTL

-----------------------------------------------------------------------------
(* The graph page.  What makes it follow the target: of the graphs that    *)
(* are awaited for the panel, the ones of a target before come before the  *)
(* one of its target, on the same server, unless the target was set while  *)
(* another server owed one.                                                *)

Known == Targets \cup {FindFirstConfigFile, NoTarget}

CallRecord == [kind : {"target", "command", "send", "open", "resolve"}, panel : Nat, target : Known,
               server : Nat, clicked : Known, rooted : Known]
Page == [visible : BOOLEAN, loaded : BOOLEAN, graph : Known, status : {"empty", "refreshing", "error"}]

\* A call of one of the first n panels.
CallOf(c, n) ==
    /\ c \in CallRecord
    /\ c.kind \in {"send", "open", "resolve"} => c.panel \in 1..n
    /\ c.kind \in {"send", "open"} => c.server # None
CallsOf(q, n) == q \in Seq(CallRecord) /\ \A k \in DOMAIN q : CallOf(q[k], n)

\* A call whose answer goes to the page of panel p, and one for the target t.
IsSend(c, p) == c.kind = "send" /\ c.panel = p
Fresh(c, p, t) == IsSend(c, p) /\ c.target = t

\* The answers about other targets than t come first.
OldFirst(q, p, t) ==
    \A j \in DOMAIN q : IsSend(q[j], p) =>
        \E k \in DOMAIN q : k >= j /\ Fresh(q[k], p, t) /\ q[k].server = q[j].server

Awaits(q, p, t) == \E k \in DOMAIN q : Fresh(q[k], p, t)

PanelTypes ==
    /\ panels \in Seq(Known)
    /\ current \in {None} \cup DOMAIN panels
    /\ page \in Page
    /\ CallsOf(calls, Len(panels))
    /\ current = None => ~page.loaded

AnswersInOrder == current # None /\ ~overtaken => OldFirst(calls, current, panels[current])

Shows(p, t) ==
    \/ p.status = "error"
    \/ p.status = "empty" /\ p.graph # NoTarget /\ (overtaken \/ p.graph = t)

PageIsServed ==
    page.loaded => Awaits(calls, current, panels[current]) \/ Shows(page, panels[current])

PanelInv == PanelTypes /\ AnswersInOrder /\ PageIsServed

-----------------------------------------------------------------------------
(* Calls *)

\* A call is answered.
LEMMA RemoveAtShape ==
    ASSUME NEW S, NEW q \in Seq(S), NEW k \in DOMAIN q, NEW r, r = RemoveAt(q, k)
    PROVE  /\ r \in Seq(S) /\ Len(r) = Len(q) - 1 /\ DOMAIN r = 1..Len(r)
           /\ \A i \in DOMAIN r : r[i] = IF i < k THEN q[i] ELSE q[i + 1]
<1>1. PICK n \in Nat : n = Len(q)
  OBVIOUS
<1>2. k \in 1..n
  BY <1>1
<1>3. PICK a, b : a = SubSeq(q, 1, k - 1) /\ b = SubSeq(q, k + 1, n)
  OBVIOUS
<1>4. a \in Seq(S) /\ Len(a) = k - 1 /\ \A i \in 1..(k - 1) : a[i] = q[i]
  BY <1>1, <1>2, <1>3
<1>5. b \in Seq(S) /\ Len(b) = n - k /\ \A i \in 1..(n - k) : b[i] = q[k + i]
  BY <1>1, <1>2, <1>3
<1>6. r = a \o b
  BY <1>1, <1>3 DEF RemoveAt
<1>7. r \in Seq(S) /\ Len(r) = n - 1 /\ DOMAIN r = 1..(n - 1)
  <2>1. r \in Seq(S) /\ Len(r) = Len(a) + Len(b)
    <3>1. a \in Seq(S) /\ b \in Seq(S)
      BY <1>4, <1>5
    <3>2. a \o b \in Seq(S) /\ Len(a \o b) = Len(a) + Len(b)
      BY <3>1
    <3> QED
      BY <1>6, <3>2
  <2>2. Len(a) = k - 1 /\ Len(b) = n - k
    BY <1>4, <1>5
  <2>3. Len(r) = n - 1
    BY <1>2, <2>1, <2>2
  <2>4. DOMAIN r = 1..Len(r)
    BY <2>1
  <2> QED
    BY <2>1, <2>3, <2>4
<1>8. \A i \in 1..(n - 1) : r[i] = IF i <= k - 1 THEN a[i] ELSE b[i - (k - 1)]
  <2>1. a \in Seq(S) /\ b \in Seq(S)
    BY <1>4, <1>5
  <2>2. \A i \in 1..(Len(a) + Len(b)) : (a \o b)[i] = IF i <= Len(a) THEN a[i] ELSE b[i - Len(a)]
    BY <2>1
  <2>3. Len(a) = k - 1 /\ Len(a) + Len(b) = n - 1
    BY <1>2, <1>4, <1>5
  <2> QED
    BY <1>6, <2>2, <2>3
<1>9. ASSUME NEW i \in 1..(n - 1) PROVE r[i] = IF i < k THEN q[i] ELSE q[i + 1]
  <2>1. CASE i < k
    BY <1>2, <1>4, <1>8, <2>1
  <2>2. CASE ~(i < k)
    <3>1. i - (k - 1) \in 1..(n - k) /\ k + (i - (k - 1)) = i + 1
      BY <1>2, <2>2
    <3>a. PICK j : j = i - (k - 1)
      OBVIOUS
    <3>b. ~(i <= k - 1)
      BY <1>2, <2>2
    <3>c. r[i] = b[j] /\ b[j] = q[k + j]
      BY <1>5, <1>8, <3>1, <3>a, <3>b
    <3>2. r[i] = b[i - (k - 1)] /\ b[i - (k - 1)] = q[k + (i - (k - 1))]
      BY <3>a, <3>c
    <3> QED
      BY <2>2, <3>1, <3>2
  <2> QED
    BY <2>1, <2>2
<1> QED
  BY <1>1, <1>7, <1>9

\* What is left are the other calls, in their order.
LEMMA Left ==
    ASSUME NEW n \in Nat, NEW q, CallsOf(q, n), NEW k \in DOMAIN q, NEW r, r = RemoveAt(q, k)
    PROVE  /\ CallsOf(r, n)
           /\ \A j \in DOMAIN r : \E i \in DOMAIN q \ {k} : r[j] = q[i] /\ i = IF j < k THEN j ELSE j + 1
           /\ \A i \in DOMAIN q \ {k} : \E j \in DOMAIN r : r[j] = q[i] /\ j = IF i < k THEN i ELSE i - 1
<1>1. q \in Seq(CallRecord)
  BY DEF CallsOf
<1>2. /\ r \in Seq(CallRecord) /\ Len(r) = Len(q) - 1 /\ DOMAIN r = 1..Len(r)
      /\ \A i \in DOMAIN r : r[i] = IF i < k THEN q[i] ELSE q[i + 1]
  BY <1>1, RemoveAtShape
<1>3. PICK m \in Nat : m = Len(q) /\ DOMAIN q = 1..m /\ DOMAIN r = 1..(m - 1) /\ k \in 1..m
  BY <1>1, <1>2
<1>4. \A j \in 1..(m - 1) : \E i \in (1..m) \ {k} : r[j] = q[i] /\ i = IF j < k THEN j ELSE j + 1
  <2> SUFFICES ASSUME NEW j \in 1..(m - 1)
               PROVE  \E i \in (1..m) \ {k} : r[j] = q[i] /\ i = IF j < k THEN j ELSE j + 1
    OBVIOUS
  <2>1. CASE j < k
    BY <1>2, <1>3, <2>1
  <2>2. CASE ~(j < k)
    <3>1. j + 1 \in (1..m) \ {k} /\ r[j] = q[j + 1]
      BY <1>2, <1>3, <2>2
    <3> QED
      BY <2>2, <3>1
  <2> QED
    BY <2>1, <2>2
<1>5. \A i \in (1..m) \ {k} : \E j \in 1..(m - 1) : r[j] = q[i] /\ j = IF i < k THEN i ELSE i - 1
  <2> SUFFICES ASSUME NEW i \in (1..m) \ {k}
               PROVE  \E j \in 1..(m - 1) : r[j] = q[i] /\ j = IF i < k THEN i ELSE i - 1
    OBVIOUS
  <2>1. CASE i < k
    BY <1>2, <1>3, <2>1
  <2>2. CASE ~(i < k)
    <3>1. i - 1 \in 1..(m - 1) /\ ~(i - 1 < k) /\ (i - 1) + 1 = i
      BY <1>3, <2>2
    <3>2. r[i - 1] = q[i]
      BY <1>2, <1>3, <3>1
    <3> QED
      BY <2>2, <3>1, <3>2
  <2> QED
    BY <2>1, <2>2
<1>6. CallsOf(r, n)
  BY <1>2, <1>3, <1>4 DEF CallsOf
<1> QED
  BY <1>3, <1>4, <1>5, <1>6

\* A call is made.
With(q, c) == Append(q, c)

LEMMA Made ==
    ASSUME NEW n \in Nat, NEW q, CallsOf(q, n), NEW c, CallOf(c, n), NEW r, r = With(q, c)
    PROVE  /\ CallsOf(r, n)
           /\ DOMAIN q \subseteq DOMAIN r /\ \A j \in DOMAIN q : r[j] = q[j]
           /\ Len(r) = Len(q) + 1 /\ Len(r) \in DOMAIN r /\ r[Len(r)] = c
           /\ \A j \in DOMAIN r : j \in DOMAIN q \/ j = Len(r)
           /\ \A j \in DOMAIN r : j <= Len(r)
<1>1. q \in Seq(CallRecord) /\ Len(q) \in Nat
  BY DEF CallsOf
<1>2. r \in Seq(CallRecord) /\ Len(r) = Len(q) + 1 /\ DOMAIN r = 1..(Len(q) + 1) /\ DOMAIN q = 1..Len(q)
  BY <1>1 DEF CallOf, With
<1>3. r[Len(q) + 1] = c /\ \A j \in 1..Len(q) : r[j] = q[j]
  BY <1>1 DEF With
<1>4. \A j \in DOMAIN r : j \in DOMAIN q \/ j = Len(r)
  BY <1>1, <1>2
<1>5. CallsOf(r, n)
  BY <1>2, <1>3, <1>4 DEF CallsOf
<1> QED
  BY <1>1, <1>2, <1>3, <1>4, <1>5

\* A server answers in order: the calls left are in order too, and a graph of
\* the target is still to come if the answer was about another one.
LEMMA AnsweredInOrder ==
    ASSUME NEW n \in Nat, NEW q, CallsOf(q, n), NEW k \in DOMAIN q, NEW r, r = RemoveAt(q, k),
           NEW p, NEW t, OldFirst(q, p, t),
           \A j \in DOMAIN q : j < k => ~(IsSend(q[k], p) /\ IsSend(q[j], p) /\ q[j].server = q[k].server)
    PROVE  /\ OldFirst(r, p, t)
           /\ IsSend(q[k], p) /\ q[k].target # t => Awaits(r, p, t)
<1>1. /\ \A j \in DOMAIN r : \E i \in DOMAIN q \ {k} : r[j] = q[i] /\ i = IF j < k THEN j ELSE j + 1
      /\ \A i \in DOMAIN q \ {k} : \E j \in DOMAIN r : r[j] = q[i] /\ j = IF i < k THEN i ELSE i - 1
  BY Left
<1>2. DOMAIN q \subseteq Nat /\ DOMAIN r \subseteq Nat
  BY Left DEF CallsOf
<1>3. OldFirst(r, p, t)
  <2> SUFFICES ASSUME NEW j \in DOMAIN r, IsSend(r[j], p)
               PROVE  \E l \in DOMAIN r : l >= j /\ Fresh(r[l], p, t) /\ r[l].server = r[j].server
    BY DEF OldFirst
  <2>1. PICK i \in DOMAIN q \ {k} : r[j] = q[i] /\ i = IF j < k THEN j ELSE j + 1
    BY <1>1
  <2>2. PICK w \in DOMAIN q : w >= i /\ Fresh(q[w], p, t) /\ q[w].server = q[i].server
    BY <2>1 DEF OldFirst
  <2>3. w # k
    BY <1>2, <2>1, <2>2 DEF Fresh
  <2>4. PICK l \in DOMAIN r : r[l] = q[w] /\ l = IF w < k THEN w ELSE w - 1
    BY <1>1, <2>3
  <2>5. l >= j
    BY <1>2, <2>1, <2>2, <2>3, <2>4
  <2> QED
    BY <2>1, <2>2, <2>4, <2>5
<1>4. ASSUME IsSend(q[k], p), q[k].target # t PROVE Awaits(r, p, t)
  <2>1. PICK w \in DOMAIN q : Fresh(q[w], p, t)
    BY <1>4 DEF OldFirst
  <2>2. w # k
    BY <1>4, <2>1 DEF Fresh
  <2>3. PICK l \in DOMAIN r : r[l] = q[w]
    BY <1>1, <2>2
  <2> QED
    BY <2>1, <2>3 DEF Awaits
<1> QED
  BY <1>3, <1>4

\* What is awaited is awaited until it is answered.
LEMMA StillAwaited ==
    ASSUME NEW n \in Nat, NEW q, CallsOf(q, n), NEW k \in DOMAIN q, NEW r, r = RemoveAt(q, k),
           NEW p, NEW t, Awaits(q, p, t), ~Fresh(q[k], p, t)
    PROVE  Awaits(r, p, t)
<1>1. PICK w \in DOMAIN q \ {k} : Fresh(q[w], p, t)
  BY DEF Awaits
<1>2. PICK l \in DOMAIN r : r[l] = q[w]
  BY Left
<1> QED
  BY <1>1, <1>2 DEF Awaits

\* A call is added: an answer about the target that comes last, on the server
\* that owes all the others, keeps them in order.
LEMMA Added ==
    ASSUME NEW n \in Nat, NEW q, CallsOf(q, n), NEW c, CallOf(c, n), NEW r, r = With(q, c),
           NEW p, NEW t
    PROVE  /\ CallsOf(r, n)
           /\ Awaits(q, p, t) \/ Fresh(c, p, t) => Awaits(r, p, t)
           /\ OldFirst(q, p, t) /\ (IsSend(c, p) => c.target = t) => OldFirst(r, p, t)
           /\ Fresh(c, p, t) /\ (\A j \in DOMAIN q : IsSend(q[j], p) => q[j].server = c.server)
                 => OldFirst(r, p, t)
<1>1. /\ CallsOf(r, n)
      /\ DOMAIN q \subseteq DOMAIN r /\ \A j \in DOMAIN q : r[j] = q[j]
      /\ Len(r) \in DOMAIN r /\ r[Len(r)] = c
      /\ \A j \in DOMAIN r : j \in DOMAIN q \/ j = Len(r)
      /\ \A j \in DOMAIN r : j <= Len(r)
  BY Made
<1>2. Awaits(q, p, t) \/ Fresh(c, p, t) => Awaits(r, p, t)
  BY <1>1 DEF Awaits
<1>3. \A j \in DOMAIN r : Len(r) >= j
  <2>1. DOMAIN r \subseteq Nat
    BY <1>1 DEF CallsOf
  <2> QED
    BY <1>1, <2>1
<1>4. ASSUME OldFirst(q, p, t), IsSend(c, p) => c.target = t PROVE OldFirst(r, p, t)
  <2> SUFFICES ASSUME NEW j \in DOMAIN r, IsSend(r[j], p)
               PROVE  \E k \in DOMAIN r : k >= j /\ Fresh(r[k], p, t) /\ r[k].server = r[j].server
    BY DEF OldFirst
  <2>1. CASE j \in DOMAIN q
    BY <1>1, <1>4, <2>1 DEF OldFirst
  <2>2. CASE j = Len(r)
    BY <1>1, <1>3, <1>4, <2>2 DEF Fresh
  <2> QED
    BY <1>1, <2>1, <2>2
<1>5. ASSUME Fresh(c, p, t), \A j \in DOMAIN q : IsSend(q[j], p) => q[j].server = c.server
      PROVE  OldFirst(r, p, t)
  <2> SUFFICES ASSUME NEW j \in DOMAIN r, IsSend(r[j], p)
               PROVE  r[j].server = c.server
    BY <1>1, <1>3, <1>5 DEF OldFirst
  <2> QED
    BY <1>1, <1>5
<1> QED
  BY <1>1, <1>2, <1>4, <1>5

\* A click's request is answered: what is awaited next is the file.
Rooted(q, k, root) == [q EXCEPT ![k].kind = "resolve", ![k].server = None, ![k].rooted = root]

\* A call for the graph of the panel's target becomes a lookup of its file.
LEMMA Turned ==
    ASSUME NEW n \in Nat, NEW q, CallsOf(q, n), NEW k \in DOMAIN q, q[k].kind = "open", NEW root \in Known,
           NEW r, r = Rooted(q, k, root), NEW p, NEW t
    PROVE  /\ CallsOf(r, n)
           /\ Awaits(q, p, t) => Awaits(r, p, t)
           /\ OldFirst(q, p, t) => OldFirst(r, p, t)
<1>1. q \in Seq(CallRecord) /\ q[k] \in CallRecord /\ q[k].panel \in 1..n
  BY DEF CallsOf, CallOf
<1>2. PICK c : c = [q[k] EXCEPT !.kind = "resolve", !.server = None, !.rooted = root]
  OBVIOUS
<1>3. c \in CallRecord /\ c.kind = "resolve" /\ c.panel = q[k].panel
  BY <1>1, <1>2 DEF CallRecord, None
<1>4. r = [q EXCEPT ![k] = c]
  BY <1>1, <1>2 DEF CallRecord, Rooted
<1>5. r \in Seq(CallRecord) /\ DOMAIN r = DOMAIN q /\ r[k] = c /\ \A j \in DOMAIN q \ {k} : r[j] = q[j]
  BY <1>1, <1>3, <1>4
<1>6. CallsOf(r, n)
  BY <1>1, <1>3, <1>5 DEF CallsOf, CallOf
<1>7. \A j \in DOMAIN q : /\ IsSend(q[j], p) <=> IsSend(r[j], p)
                          /\ IsSend(q[j], p) => r[j] = q[j]
  BY <1>3, <1>5 DEF IsSend
<1>8. Awaits(q, p, t) => Awaits(r, p, t)
  BY <1>5, <1>7 DEF Awaits, Fresh
<1>9. ASSUME OldFirst(q, p, t), NEW j \in DOMAIN r, IsSend(r[j], p)
      PROVE  \E i \in DOMAIN r : i >= j /\ Fresh(r[i], p, t) /\ r[i].server = r[j].server
  <2>1. j \in DOMAIN q /\ IsSend(q[j], p) /\ r[j] = q[j]
    BY <1>5, <1>7, <1>9
  <2>2. PICK i \in DOMAIN q : i >= j /\ Fresh(q[i], p, t) /\ q[i].server = q[j].server
    BY <1>9, <2>1 DEF OldFirst
  <2>3. i \in DOMAIN r /\ r[i] = q[i]
    BY <1>5, <1>7, <2>2 DEF Fresh
  <2> QED
    BY <2>1, <2>2, <2>3
<1> QED
  BY <1>6, <1>8, <1>9 DEF OldFirst

-----------------------------------------------------------------------------
(* Steps *)

LEMMA ReceivesAPage ==
    ASSUME NEW p \in Page, NEW graph \in Known
    PROVE  /\ Receive(p, graph) \in Page /\ Receive(p, graph).loaded = p.loaded
           /\ p.loaded /\ graph = NoTarget => Receive(p, graph).status = "error"
           /\ p.loaded /\ graph # NoTarget => Receive(p, graph).status = "empty" /\ Receive(p, graph).graph = graph
  BY DEF Receive, Page

\* A request whose answer will come after all the others.
LEMMA RequestKeeps ==
    ASSUME panels' \in Seq(Known), current' \in DOMAIN panels', client \in Nat,
           NEW cs, CallsOf(cs, Len(panels')), NEW p \in Page,
           RequestAndSendGraph(cs, current', panels'[current'], p),
           ~overtaken' => \/ OldFirst(cs, current', panels'[current'])
                          \/ \A j \in DOMAIN cs : cs[j].kind = "send" => cs[j].server = client
    PROVE  PanelInv'
<1>1. PICK n, i, t : n = Len(panels') /\ i = current' /\ t = panels'[current']
  OBVIOUS
<1>2. n \in Nat /\ i \in 1..n /\ i # None /\ t \in Known
  BY <1>1 DEF None
<1>3. CASE client = None
  <2>1. calls' = cs /\ page' = Receive(p, NoTarget) /\ NoTarget \in Known
    BY <1>3 DEF RequestAndSendGraph, Known
  <2>2. page' \in Page /\ (page'.loaded => page'.status = "error")
    <3>1. Receive(p, NoTarget) \in Page /\ Receive(p, NoTarget).loaded = p.loaded
      BY <2>1, ReceivesAPage
    <3>2. p.loaded => Receive(p, NoTarget).status = "error"
      BY <2>1, ReceivesAPage
    <3> QED
      BY <2>1, <3>1, <3>2
  <2>3. ~overtaken' => OldFirst(cs, i, t)
    <3>1. (\A j \in DOMAIN cs : cs[j].kind = "send" => cs[j].server = None) => OldFirst(cs, i, t)
      BY DEF CallsOf, CallOf, OldFirst, IsSend
    <3> QED
      BY <1>1, <1>3, <3>1
  <2>4. PanelTypes'
    BY <1>1, <1>2, <2>1, <2>2 DEF PanelTypes
  <2>5. AnswersInOrder' /\ PageIsServed'
    BY <1>1, <2>1, <2>2, <2>3 DEF AnswersInOrder, PageIsServed, Shows
  <2> QED
    BY <2>4, <2>5 DEF PanelInv
<1>4. CASE client # None
  <2>1. PICK c : c = Call("send", i, t)
    OBVIOUS
  <2>2. CallOf(c, n) /\ Fresh(c, i, t) /\ c.kind = "send" /\ c.server = client /\ c.target = t
    BY <1>2, <1>4, <2>1 DEF Call, CallOf, CallRecord, Known, Fresh, IsSend
  <2>3. calls' = With(cs, c) /\ page' = p
    BY <1>1, <1>4, <2>1 DEF RequestAndSendGraph, With
  <2>4. CallsOf(cs, n)
    BY <1>1
  <2>5. /\ CallsOf(calls', n)
        /\ Awaits(cs, i, t) \/ Fresh(c, i, t) => Awaits(calls', i, t)
        /\ OldFirst(cs, i, t) /\ (IsSend(c, i) => c.target = t) => OldFirst(calls', i, t)
        /\ Fresh(c, i, t) /\ (\A j \in DOMAIN cs : IsSend(cs[j], i) => cs[j].server = c.server)
              => OldFirst(calls', i, t)
    BY <1>2, <2>2, <2>3, <2>4, Added
  <2>6. ~overtaken' => OldFirst(calls', i, t)
    BY <1>1, <2>2, <2>5 DEF IsSend
  <2>7. PanelTypes'
    BY <1>1, <1>2, <2>3, <2>5 DEF PanelTypes
  <2>8. AnswersInOrder' /\ PageIsServed'
    BY <1>1, <2>2, <2>5, <2>6 DEF AnswersInOrder, PageIsServed
  <2> QED
    BY <2>7, <2>8 DEF PanelInv
<1> QED
  BY <1>3, <1>4

\* A step that leaves the panel and its page alone and loses no answer.
LEMMA CallsKeep ==
    ASSUME PanelInv, UNCHANGED <<panels, current, page, overtaken>>, CallsOf(calls', Len(panels)),
           \A p, t : /\ OldFirst(calls, p, t) => OldFirst(calls', p, t)
                     /\ Awaits(calls, p, t) => Awaits(calls', p, t)
    PROVE  PanelInv'
<1>1. PanelTypes'
  BY DEF PanelInv, PanelTypes
<1>2. PICK i, t : i = current /\ t = panels[current]
  OBVIOUS
<1>3. AnswersInOrder'
  BY <1>2 DEF PanelInv, AnswersInOrder
<1>4. PageIsServed'
  BY <1>2 DEF PanelInv, PageIsServed, Shows
<1> QED
  BY <1>1, <1>3, <1>4 DEF PanelInv

\* A step that answers a call about something else, or drops it.
LEMMA OtherLeft ==
    ASSUME PanelInv, UNCHANGED <<panels, current, page, overtaken>>,
           NEW k \in DOMAIN calls, calls[k].kind # "send", calls' = RemoveAt(calls, k)
    PROVE  PanelInv'
<1>1. CallsOf(calls, Len(panels)) /\ Len(panels) \in Nat
  BY DEF PanelInv, PanelTypes
<1>2. CallsOf(calls', Len(panels))
  BY <1>1, Left
<1>3. \A p, t : OldFirst(calls, p, t) => OldFirst(calls', p, t)
  BY <1>1, AnsweredInOrder DEF IsSend
<1>4. \A p, t : Awaits(calls, p, t) => Awaits(calls', p, t)
  BY <1>1, StillAwaited DEF Fresh, IsSend
<1> QED
  BY <1>2, <1>3, <1>4, CallsKeep

-----------------------------------------------------------------------------
(* The command, the page and the clicks *)

LEMMA CommandKeeps ==
    ASSUME PanelInv, ClientInv,
           ShowDependencyGraph \/ \E k \in DOMAIN calls : TargetResolved(k)
    PROVE  PanelInv'
<1>1. CallsOf(calls, Len(panels)) /\ Len(panels) \in Nat /\ client \in Nat
  BY DEF PanelInv, PanelTypes, ClientInv, ClientTypes, None
<1>2. ASSUME NEW q, CallsOf(q, Len(panels)), NEW kind \in {"target", "command"}, NEW target \in Known,
             calls' = Append(q, Call(kind, None, target)),
             UNCHANGED <<panels, current, page, overtaken>>,
             \A p, t : /\ OldFirst(calls, p, t) => OldFirst(q, p, t)
                       /\ Awaits(calls, p, t) => Awaits(q, p, t)
      PROVE  PanelInv'
  <2>1. PICK c : c = Call(kind, None, target)
    OBVIOUS
  <2>2. CallOf(c, Len(panels)) /\ c.kind # "send"
    BY <1>1, <2>1 DEF Call, CallOf, CallRecord, Known, None
  <2>3. calls' = With(q, c)
    BY <1>2, <2>1 DEF With
  <2>4. CallsOf(calls', Len(panels))
    BY <1>1, <1>2, <2>2, <2>3, Added
  <2>5. \A p, t : /\ OldFirst(q, p, t) => OldFirst(calls', p, t)
                  /\ Awaits(q, p, t) => Awaits(calls', p, t)
    BY <1>1, <1>2, <2>2, <2>3, Added DEF IsSend
  <2> QED
    BY <1>2, <2>4, <2>5, CallsKeep
<1>3. CASE ShowDependencyGraph
  BY <1>1, <1>2, <1>3 DEF ShowDependencyGraph, Known
<1>4. ASSUME NEW k \in DOMAIN calls, TargetResolved(k) PROVE PanelInv'
  <2>1. UNCHANGED <<panels, current, page, overtaken>> /\ calls[k].kind = "target"
    BY <1>4 DEF TargetResolved
  <2>2. CASE calls' = RemoveAt(calls, k)
    BY <2>1, <2>2, OtherLeft
  <2>3. CASE calls' # RemoveAt(calls, k)
    <3>1. PICK target \in Known : calls' = Append(RemoveAt(calls, k), Call("command", None, target))
      BY <1>4, <2>3 DEF TargetResolved, Known
    <3>2. PICK q : q = RemoveAt(calls, k)
      OBVIOUS
    <3>3. CallsOf(q, Len(panels))
      BY <1>1, <3>2, Left
    <3>4. \A p, t : OldFirst(calls, p, t) => OldFirst(q, p, t)
      BY <1>1, <2>1, <3>2, AnsweredInOrder DEF IsSend
    <3>5. \A p, t : Awaits(calls, p, t) => Awaits(q, p, t)
      BY <1>1, <2>1, <3>2, StillAwaited DEF Fresh, IsSend
    <3> QED
      BY <1>2, <2>1, <3>1, <3>2, <3>3, <3>4, <3>5
  <2> QED
    BY <2>2, <2>3
<1> QED
  BY <1>3, <1>4

LEMMA ShowOrRevealKeeps ==
    ASSUME PanelInv, ClientInv, NEW k \in DOMAIN calls, NEW target \in Known,
           ShowOrReveal(RemoveAt(calls, k), target)
    PROVE  PanelInv'
<1>1. /\ CallsOf(calls, Len(panels)) /\ Len(panels) \in Nat /\ panels \in Seq(Known) /\ page \in Page
      /\ current \in {None} \cup DOMAIN panels /\ client \in Nat
  BY DEF PanelInv, PanelTypes, ClientInv, ClientTypes, None
<1>2. PICK cs : cs = RemoveAt(calls, k)
  OBVIOUS
<1>3. CallsOf(cs, Len(panels))
  BY <1>1, <1>2, Left
<1>4. ~overtaken' => \A j \in DOMAIN cs : cs[j].kind = "send" => cs[j].server = client
  BY <1>2 DEF ShowOrReveal
<1>5. CASE current # None
  <2>1. /\ panels' = [panels EXCEPT ![current] = target] /\ current' = current
        /\ RequestAndSendGraph(cs, current, target, [page EXCEPT !.visible = TRUE])
    BY <1>2, <1>5 DEF ShowOrReveal
  <2>2. panels' \in Seq(Known) /\ current' \in DOMAIN panels' /\ panels'[current'] = target /\ Len(panels') = Len(panels)
    BY <1>1, <1>5, <2>1
  <2>3. [page EXCEPT !.visible = TRUE] \in Page
    BY <1>1 DEF Page
  <2> QED
    BY <1>1, <1>3, <1>4, <2>1, <2>2, <2>3, RequestKeeps
<1>6. CASE current = None
  <2>1. /\ panels' = Append(panels, target) /\ current' = Len(panels) + 1
        /\ RequestAndSendGraph(cs, Len(panels) + 1, target, Unloaded)
    BY <1>2, <1>6 DEF ShowOrReveal
  <2>2. /\ panels' \in Seq(Known) /\ current' \in DOMAIN panels' /\ panels'[current'] = target
        /\ Len(panels') = Len(panels) + 1
    BY <1>1, <2>1
  <2>3. CallsOf(cs, Len(panels'))
    BY <1>1, <1>3, <2>2 DEF CallsOf, CallOf
  <2>4. Unloaded \in Page
    BY DEF Unloaded, NoPage, Page, Known
  <2> QED
    BY <1>1, <1>4, <2>1, <2>2, <2>3, <2>4, RequestKeeps
<1> QED
  BY <1>5, <1>6

LEMMA PageKeeps ==
    ASSUME PanelInv, ClientInv, PageLoads \/ ClickRefresh
    PROVE  PanelInv'
<1>1. /\ CallsOf(calls, Len(panels)) /\ panels \in Seq(Known) /\ page \in Page
      /\ current \in DOMAIN panels /\ current # None /\ client \in Nat
  BY DEF PanelInv, PanelTypes, ClientInv, ClientTypes, None, PageLoads, ClickRefresh
<1>2. UNCHANGED <<panels, current, overtaken>>
  BY DEF PageLoads, ClickRefresh
<1>3. ~overtaken => OldFirst(calls, current, panels[current])
  BY <1>1 DEF PanelInv, AnswersInOrder
<1>4. PICK p \in Page : RequestAndSendGraph(calls, current, panels[current], p)
  <2>1. [page EXCEPT !.loaded = TRUE] \in Page /\ [page EXCEPT !.status = "refreshing"] \in Page
    BY <1>1 DEF Page
  <2> QED
    BY <2>1 DEF PageLoads, ClickRefresh
<1>5. /\ panels' \in Seq(Known) /\ current' \in DOMAIN panels' /\ CallsOf(calls, Len(panels'))
      /\ RequestAndSendGraph(calls, current', panels'[current'], p)
      /\ ~overtaken' => OldFirst(calls, current', panels'[current'])
  BY <1>1, <1>2, <1>3, <1>4
<1> QED
  BY <1>1, <1>5, RequestKeeps

-----------------------------------------------------------------------------
(* Answers *)

LEMMA AnswerIsTheTargets ==
    ASSUME NEW k \in DOMAIN calls, NEW graph \in Answers(k)
    PROVE  graph = calls[k].target \/ graph = NoTarget
<1>1. PICK s : s = servers[calls[k].server]
  OBVIOUS
<1> QED
  BY <1>1 DEF Answers

LEMMA AnswerCommandKeeps ==
    ASSUME PanelInv, ClientInv, NEW k \in DOMAIN calls, AnswerCommand(k)
    PROVE  PanelInv'
<1>1. calls[k].kind = "command" /\ calls[k].target \in Known
  BY DEF AnswerCommand, PanelInv, PanelTypes, CallsOf, CallOf, CallRecord
<1>2. CASE calls' = RemoveAt(calls, k) /\ UNCHANGED <<panels, current, page, overtaken>>
  BY <1>1, <1>2, OtherLeft
<1>3. CASE ShowOrReveal(RemoveAt(calls, k), calls[k].target)
  BY <1>1, <1>3, ShowOrRevealKeeps
<1> QED
  BY <1>2, <1>3 DEF AnswerCommand

\* The page gets a graph or an error: the last word if it is about the target.
LEMMA AnswerSendKeeps ==
    ASSUME PanelInv, NEW k \in DOMAIN calls, AnswerSend(k)
    PROVE  PanelInv'
<1>1. /\ CallsOf(calls, Len(panels)) /\ Len(panels) \in Nat /\ page \in Page
      /\ UNCHANGED <<panels, current, overtaken>> /\ calls' = RemoveAt(calls, k)
  BY DEF PanelInv, PanelTypes, AnswerSend
<1>2. PICK c : c = calls[k]
  OBVIOUS
<1>3. CallOf(c, Len(panels)) /\ c.kind = "send" /\ c.target \in Known /\ NoTarget \in Known
  BY <1>1, <1>2 DEF CallsOf, CallOf, CallRecord, AnswerSend, Known
<1>4. PICK graph \in {c.target, NoTarget} : Post(c.panel, graph)
  BY <1>2, AnswerIsTheTargets DEF AnswerSend
<1>5. CallsOf(calls', Len(panels))
  BY <1>1, Left
<1>6. PICK i, t : i = current /\ t = panels[current]
  OBVIOUS
<1>7. \A j \in DOMAIN calls : j < k =>
          ~(IsSend(calls[k], i) /\ IsSend(calls[j], i) /\ calls[j].server = calls[k].server)
  <2> SUFFICES ASSUME NEW j \in DOMAIN calls, j < k, IsSend(calls[j], i), calls[j].server = calls[k].server
               PROVE  FALSE
    OBVIOUS
  <2>1. k \in 1..Len(calls) /\ j \in 1..Len(calls) /\ Len(calls) \in Nat
    BY <1>1 DEF CallsOf
  <2>2. j \in 1..k - 1
    BY <2>1
  <2> QED
    BY <2>2 DEF AnswerSend, IsNext, IsSend
<1>8. ASSUME OldFirst(calls, i, t)
      PROVE  OldFirst(calls', i, t) /\ (IsSend(c, i) /\ c.target # t => Awaits(calls', i, t))
  BY <1>1, <1>2, <1>7, <1>8, AnsweredInOrder
<1>9. Awaits(calls, i, t) /\ ~Fresh(c, i, t) => Awaits(calls', i, t)
  BY <1>1, <1>2, StillAwaited
<1>10. /\ page' = IF c.panel = i THEN Receive(page, graph) ELSE page
       /\ Receive(page, graph) \in Page /\ Receive(page, graph).loaded = page.loaded
       /\ page.loaded /\ graph = NoTarget => Receive(page, graph).status = "error"
       /\ page.loaded /\ graph # NoTarget =>
              Receive(page, graph).status = "empty" /\ Receive(page, graph).graph = graph
  BY <1>1, <1>3, <1>4, <1>6, ReceivesAPage DEF Post
<1>11. PanelTypes'
  BY <1>1, <1>5, <1>10 DEF PanelInv, PanelTypes
<1>12. AnswersInOrder'
  <2> SUFFICES ASSUME current' # None, ~overtaken' PROVE OldFirst(calls', i, t)
    BY <1>1, <1>6 DEF AnswersInOrder
  <2>1. OldFirst(calls, i, t)
    BY <1>1, <1>6 DEF PanelInv, AnswersInOrder
  <2> QED
    BY <1>8, <2>1
<1>13. PageIsServed'
  <2> SUFFICES ASSUME page'.loaded
               PROVE  Awaits(calls', i, t) \/ Shows(page, t)'
    BY <1>1, <1>6 DEF PageIsServed, Shows
  <2>1. page.loaded /\ i # None
    BY <1>6, <1>10 DEF PanelInv, PanelTypes
  <2>2. Awaits(calls, i, t) \/ Shows(page, t)
    BY <1>6, <2>1 DEF PanelInv, PageIsServed
  <2>3. CASE c.panel # i
    BY <1>1, <1>9, <1>10, <2>2, <2>3 DEF Fresh, IsSend, Shows
  <2>4. CASE c.panel = i /\ graph = NoTarget
    BY <1>10, <2>1, <2>4 DEF Shows
  <2>5. CASE c.panel = i /\ graph # NoTarget /\ (c.target = t \/ overtaken)
    BY <1>1, <1>4, <1>10, <2>1, <2>5 DEF Shows
  <2>6. CASE c.panel = i /\ c.target # t /\ ~overtaken
    <3>1. OldFirst(calls, i, t) /\ IsSend(c, i)
      BY <1>3, <1>6, <2>1, <2>6 DEF PanelInv, AnswersInOrder, IsSend
    <3> QED
      BY <1>8, <2>6, <3>1
  <2> QED
    BY <2>3, <2>4, <2>5, <2>6
<1> QED
  BY <1>11, <1>12, <1>13 DEF PanelInv

LEMMA AnswerOpenKeeps ==
    ASSUME PanelInv, NEW k \in DOMAIN calls, AnswerOpen(k) \/ OpenFile(k)
    PROVE  PanelInv'
<1>1. /\ CallsOf(calls, Len(panels)) /\ Len(panels) \in Nat
      /\ UNCHANGED <<panels, current, page, overtaken>>
  BY DEF PanelInv, PanelTypes, AnswerOpen, OpenFile
<1>2. CASE calls' = RemoveAt(calls, k)
  BY <1>1, <1>2, OtherLeft DEF AnswerOpen, OpenFile
<1>3. CASE calls' # RemoveAt(calls, k)
  <2>1. AnswerOpen(k) /\ calls[k].kind = "open"
    BY <1>3 DEF AnswerOpen, OpenFile
  <2>2. PICK root : root = panels[calls[k].panel]
    OBVIOUS
  <2>3. root \in Known
    <3>1. calls[k].panel \in 1..Len(panels) /\ panels \in Seq(Known)
      BY <1>1, <2>1 DEF CallsOf, CallOf, PanelInv, PanelTypes
    <3> QED
      BY <2>2, <3>1
  <2>4. calls' = Rooted(calls, k, root)
    BY <1>3, <2>1, <2>2 DEF AnswerOpen, Rooted
  <2>5. CallsOf(calls', Len(panels))
    BY <1>1, <2>1, <2>3, <2>4, Turned
  <2>6. \A p, t : /\ OldFirst(calls, p, t) => OldFirst(calls', p, t)
                  /\ Awaits(calls, p, t) => Awaits(calls', p, t)
    BY <1>1, <2>1, <2>3, <2>4, Turned
  <2> QED
    BY <1>1, <2>5, <2>6, CallsKeep
<1> QED
  BY <1>2, <1>3

LEMMA ClickNodeKeeps ==
    ASSUME PanelInv, ClientInv, ClickNode
    PROVE  PanelInv'
<1>1. /\ CallsOf(calls, Len(panels)) /\ Len(panels) \in Nat /\ panels \in Seq(Known) /\ page \in Page
      /\ current \in DOMAIN panels /\ client \in Nat /\ client # None
      /\ UNCHANGED <<panels, current, page, overtaken>>
  BY DEF PanelInv, PanelTypes, ClientInv, ClientTypes, None, ClickNode
<1>2. PICK c : c = [Call("open", current, panels[current]) EXCEPT !.clicked = page.graph]
  OBVIOUS
<1>3. CallOf(c, Len(panels)) /\ c.kind = "open"
  <2>1. panels[current] \in Known /\ page.graph \in Known /\ current \in 1..Len(panels)
    BY <1>1 DEF Page
  <2> QED
    BY <1>1, <1>2, <2>1 DEF Call, CallOf, CallRecord, Known
<1>4. calls' = With(calls, c)
  BY <1>2 DEF ClickNode, With
<1>5. CallsOf(calls', Len(panels))
  BY <1>1, <1>3, <1>4, Added
<1>6. \A p, t : /\ OldFirst(calls, p, t) => OldFirst(calls', p, t)
                /\ Awaits(calls, p, t) => Awaits(calls', p, t)
  BY <1>1, <1>3, <1>4, Added DEF IsSend
<1> QED
  BY <1>1, <1>5, <1>6, CallsKeep

\* A page that goes away or comes back has to load first.
LEMMA TabKeeps ==
    ASSUME PanelInv, Hide \/ Reveal \/ ClosePanel
    PROVE  PanelInv'
<1>1. page' \in Page /\ ~page'.loaded
  <2>1. NoPage \in Page /\ ~NoPage.loaded /\ Unloaded \in Page /\ ~Unloaded.loaded
    BY DEF NoPage, Unloaded, Page, Known
  <2>2. page' = NoPage \/ page' = Unloaded
    BY DEF Hide, Reveal, ClosePanel
  <2> QED
    BY <2>1, <2>2
<1>2. UNCHANGED <<panels, calls, overtaken>> /\ (current' = None \/ current' = current)
  BY DEF Hide, Reveal, ClosePanel
<1>3. PanelTypes'
  BY <1>1, <1>2 DEF PanelInv, PanelTypes
<1>4. PageIsServed'
  BY <1>1 DEF PageIsServed
<1>5. AnswersInOrder'
  <2>1. CASE current' = None
    BY <2>1 DEF AnswersInOrder
  <2>2. CASE current' = current
    BY <1>2, <2>2 DEF PanelInv, AnswersInOrder
  <2> QED
    BY <1>2, <2>1, <2>2
<1> QED
  BY <1>3, <1>4, <1>5 DEF PanelInv

-----------------------------------------------------------------------------
LEMMA PanelInit == GraphInit => PanelInv
<1> SUFFICES ASSUME GraphInit PROVE PanelInv
  OBVIOUS
<1>1. panels = << >> /\ current = None /\ page = NoPage /\ calls = << >>
  BY DEF GraphInit
<1>2. NoPage \in Page /\ ~NoPage.loaded
  BY DEF NoPage, Page, Known
<1>3. PanelTypes
  BY <1>1, <1>2 DEF PanelTypes, CallsOf
<1> QED
  BY <1>1, <1>2, <1>3 DEF PanelInv, AnswersInOrder, PageIsServed

LEMMA PanelStep ==
    ASSUME PanelInv, ClientInv, [Next]_vars
    PROVE  PanelInv'
<1>1. CASE UNCHANGED <<panels, current, page, calls, overtaken>>
  <2>1. \A p, t : /\ OldFirst(calls, p, t) => OldFirst(calls', p, t)
                  /\ Awaits(calls, p, t) => Awaits(calls', p, t)
    BY <1>1
  <2> QED
    BY <1>1, <2>1, CallsKeep DEF PanelInv, PanelTypes
<1>2. ASSUME NEW k \in DOMAIN calls,
             TargetResolved(k) \/ AnswerCommand(k) \/ AnswerSend(k) \/ AnswerOpen(k) \/ OpenFile(k)
      PROVE  PanelInv'
  BY <1>2, CommandKeeps, AnswerCommandKeeps, AnswerSendKeeps, AnswerOpenKeeps
<1>3. CASE ShowDependencyGraph \/ PageLoads \/ ClickRefresh \/ ClickNode \/ Hide \/ Reveal \/ ClosePanel
  BY <1>3, CommandKeeps, PageKeeps, ClickNodeKeeps, TabKeeps
<1> QED
  BY <1>1, <1>2, <1>3 DEF Next, Progress, vars

\* Once nothing is awaited, a page on screen shows the graph of its panel's
\* target or an error, however restarts, crashes, commands, clicks and answers
\* fall between each other (panel.ts, showOrReveal, requestAndSendGraph).
THEOREM PageFollowsTheTarget == Spec => []PageShowsTheTarget
<1>1. GraphInit => ClientInv /\ PanelInv
  BY InitHolds, PanelInit DEF GraphInit
<1>2. ClientInv /\ PanelInv /\ [Next]_vars => (ClientInv /\ PanelInv)'
  BY StepKeeps, PanelStep
<1>3. PanelInv => PageShowsTheTarget
  <2> SUFFICES ASSUME PanelInv, calls = << >>, page.loaded PROVE Shows(page, panels[current])
    BY DEF PageShowsTheTarget, Shows
  <2>1. ~Awaits(calls, current, panels[current])
    BY DEF Awaits
  <2> QED
    BY <2>1 DEF PanelInv, PageIsServed
<1> QED
  BY <1>1, <1>2, <1>3, PTL DEF Spec

-----------------------------------------------------------------------------
(* The search for a file *)

\* A set of naturals has a least one.
LEMMA HasLeast ==
    ASSUME NEW S, S \subseteq Nat, S # {}
    PROVE  \E m \in S : \A k \in S : m <= k
<1>1. IsWellFoundedOn(OpToRel(<, Nat), Nat)
  BY NatLessThanWellFounded
<1>2. PICK m \in S : \A k \in S : ~(<<k, m>> \in OpToRel(<, Nat))
  BY <1>1, WFMin, Zenon
<1>3. \A k \in S : ~(k < m)
  BY <1>2 DEF OpToRel
<1> QED
  BY <1>3

\* Suffixes are prefixes of the reversed path.
LEMMA SuffixOf ==
    ASSUME NEW dir \in Seq(STRING), NEW file \in Seq(STRING), file # << >>
    PROVE  IsSuffix(file, dir \o file) /\ Last(dir \o file) = Last(file)
<1>1. PICK path : path = dir \o file
  OBVIOUS
<1>2. PICK a, b \in Nat : a = Len(dir) /\ b = Len(file)
  OBVIOUS
<1>3. /\ path \in Seq(STRING) /\ Len(path) = a + b /\ b > 0
      /\ \A i \in 1..b : path[a + i] = file[i]
  BY <1>1, <1>2
<1>4. Last(path) = Last(file)
  BY <1>2, <1>3 DEF Last
<1>5. PICK r, s : r = Reverse(file) /\ s = Reverse(path)
  OBVIOUS
<1>6. r \in Seq(STRING) /\ Len(r) = b /\ \A i \in 1..b : r[i] = file[b - i + 1]
  BY <1>2, <1>5 DEF Reverse
<1>7. s \in Seq(STRING) /\ Len(s) = a + b /\ \A i \in 1..(a + b) : s[i] = path[a + b - i + 1]
  BY <1>2, <1>3, <1>5 DEF Reverse
<1>8. \A i \in 1..b : s[i] = r[i]
  <2> TAKE i \in 1..b
  <2>1. b - i + 1 \in 1..b /\ i \in 1..(a + b)
    BY <1>2
  <2>2. path[a + (b - i + 1)] = file[b - i + 1]
    BY <1>3, <2>1
  <2>3. a + (b - i + 1) = a + b - i + 1
    BY <1>2
  <2> QED
    BY <1>6, <1>7, <2>1, <2>2, <2>3
<1>9. SubSeq(s, 1, b) = r
  BY <1>2, <1>6, <1>7, <1>8
<1>10. IsPrefix(r, s)
  BY <1>2, <1>6, <1>7, <1>9 DEF IsPrefix
<1> QED
  BY <1>1, <1>4, <1>5, <1>10 DEF IsSuffix

\* The directories above a path, and the root among them that the panel finds.
LEMMA DirsAreAbove ==
    ASSUME NEW t \in Seq(STRING), NEW d \in DirsAbove(t)
    PROVE  d \in Seq(STRING) /\ Len(d) < Len(t) /\ d = SubSeq(t, 1, Len(d)) /\ \A i \in 1..Len(d) : d[i] = t[i]
BY DEF DirsAbove

LEMMA RootIsFound ==
    ASSUME NEW t \in Seq(STRING), WorkspaceFolder \in Seq(STRING), FindProjectRoot(t) # NoTarget
    PROVE  FindProjectRoot(t) = ServerRoot(t)
<1>1. PICK R : R = {d \in DirsAbove(t) : HasConfig(d)}
  OBVIOUS
<1>2. PICK Q : Q = {d \in {d \in DirsAbove(t) : InWorkspace(t) => InWorkspace(d)} : HasConfig(d)}
  OBVIOUS
<1>3. Q # {} /\ FindProjectRoot(t) = Longest(Q)
  BY <1>2 DEF FindProjectRoot
<1>4. \A d, e \in DirsAbove(t) : Len(d) <= Len(e) /\ InWorkspace(d) => InWorkspace(e)
  <2> SUFFICES ASSUME NEW d \in DirsAbove(t), NEW e \in DirsAbove(t), Len(d) <= Len(e), InWorkspace(d)
               PROVE  InWorkspace(e)
    OBVIOUS
  <2>1. PICK n \in Nat : n = Len(WorkspaceFolder)
    OBVIOUS
  <2>2. /\ d \in Seq(STRING) /\ \A i \in 1..Len(d) : d[i] = t[i]
        /\ e \in Seq(STRING) /\ \A i \in 1..Len(e) : e[i] = t[i]
    BY DirsAreAbove
  <2>3. n <= Len(d) /\ SubSeq(d, 1, n) = WorkspaceFolder
    BY <2>1 DEF InWorkspace, IsPrefix
  <2>4. SubSeq(e, 1, n) = SubSeq(d, 1, n)
    BY <2>1, <2>2, <2>3
  <2> QED
    BY <2>1, <2>2, <2>3, <2>4 DEF InWorkspace, IsPrefix
<1>5. \A d : (d \in Q /\ \A e \in Q : Len(e) <= Len(d)) <=> (d \in R /\ \A e \in R : Len(e) <= Len(d))
  <2>1. Q \subseteq R /\ \A d \in R : Len(d) \in Nat
    BY <1>1, <1>2, DirsAreAbove
  <2>2. \A d \in R \ Q : InWorkspace(t) /\ ~InWorkspace(d)
    BY <1>1, <1>2
  <2>3. \A d \in Q : InWorkspace(t) => InWorkspace(d)
    BY <1>2
  <2>4. \A d \in Q, e \in R \ Q : Len(e) < Len(d)
    BY <1>1, <1>4, <2>1, <2>2, <2>3
  <2> QED
    BY <1>3, <2>1, <2>4
<1>6. Longest(Q) = Longest(R)
  BY <1>5, Zenon DEF Longest
<1> QED
  BY <1>1, <1>3, <1>6 DEF ServerRoot

LEMMA FilesAreFinite ==
    /\ Len(Files) \in Nat /\ DOMAIN Files = 1..Len(Files)
    /\ ToSet(Files) \subseteq Seq(STRING) /\ IsFiniteSet(ToSet(Files))
    /\ \A path : FileExists(path) <=> path \in ToSet(Files)
<1>1. PICK S : S = Seq(STRING)
  OBVIOUS
<1>2. Files \in Seq(S)
  BY <1>1, FilesAssumption
<1>3. Len(Files) \in Nat /\ DOMAIN Files = 1..Len(Files) /\ \A i \in 1..Len(Files) : Files[i] \in S
  BY <1>2
<1>4. Files \in Surjection(1..Len(Files), ToSet(Files))
  <2>1. Files \in [1..Len(Files) -> ToSet(Files)]
    BY <1>2, <1>3 DEF ToSet
  <2> QED
    BY <1>3, <2>1 DEF Surjection, ToSet
<1>5. IsFiniteSet(1..Len(Files))
  BY <1>3, FS_Interval
<1>6. IsFiniteSet(ToSet(Files))
  BY <1>4, <1>5, FS_Surjection
<1> QED
  BY <1>1, <1>3, <1>6 DEF ToSet, FileExists, Contains

LEMMA FirstIsOneOfThem ==
    ASSUME NEW files, files \subseteq ToSet(Files), files # {}
    PROVE  FirstOf(files) \in files
<1>1. \A f \in files : Position(f) \in DOMAIN Files
  BY DEF Position, ToSet
<1>2. DOMAIN Files \subseteq Nat
  BY FilesAreFinite
<1>3. PICK P : P = {Position(f) : f \in files}
  OBVIOUS
<1>4. P \subseteq Nat /\ P # {}
  BY <1>1, <1>2, <1>3
<1>5. PICK p \in P : \A q \in P : p <= q
  BY <1>4, HasLeast
<1>6. \E f \in files : \A g \in files : Position(f) <= Position(g)
  BY <1>3, <1>5
<1> QED
  BY <1>6 DEF FirstOf

LEMMA KnownArePaths == Known \subseteq Seq(STRING)
<1>1. FindFirstConfigFile \in Seq(STRING)
  <2>1. WorkspaceFiles \subseteq ToSet(Files) /\ ToSet(Files) \subseteq Seq(STRING)
    BY FilesAreFinite DEF WorkspaceFiles
  <2>2. ASSUME NEW files \in SUBSET WorkspaceFiles PROVE FirstOf(files) \in Seq(STRING)
    <3>1. CASE files = {}
      BY <3>1 DEF FirstOf, NoTarget
    <3>2. CASE files # {}
      BY <2>1, <3>2, FirstIsOneOfThem
    <3> QED
      BY <3>1, <3>2
  <2> QED
    BY <2>2 DEF FindFirstConfigFile
<1>2. Targets \subseteq Seq(STRING) /\ << >> \in Seq(STRING)
  BY FilesAssumption
<1> QED
  BY <1>1, <1>2 DEF Known, NoTarget

\* Without a warning the search finds the file that is below dir, if it is there.
LEMMA SearchFinds ==
    ASSUME NEW dir \in Seq(STRING), NEW file \in Seq(STRING), file # << >>, dir \o file \in WorkspaceFiles,
           NEW root, ~FileExists(root \o file), ~ResolveGraphFile(root, file).warned
    PROVE  ResolveGraphFile(root, file).file = dir \o file
<1>1. IsSuffix(file, dir \o file) /\ Last(dir \o file) = Last(file)
  BY SuffixOf
<1>2. PICK C : C = CandidatesOf(file)
  OBVIOUS
<1>3. dir \o file \in C /\ C \subseteq ToSet(Files)
  BY <1>1, <1>2 DEF CandidatesOf, WorkspaceFiles
<1>4. Cardinality(C) = 1 /\ ResolveGraphFile(root, file).file = FirstOf(C)
  BY <1>2 DEF ResolveGraphFile
<1>5. IsFiniteSet(C)
  BY <1>3, FilesAreFinite, FS_Subset
<1>6. \E f : C = {f}
  BY <1>4, <1>5, FS_Singleton
<1>7. FirstOf(C) \in C
  BY <1>3, FirstIsOneOfThem
<1>8. \A f, g \in C : f = g
  BY <1>6
<1> QED
  BY <1>3, <1>4, <1>7, <1>8, Zenon

\* With the root of the project asked for, or the target itself for want of one.
LEMMA FileOfAProject ==
    ASSUME ProjectsAreWhole, NEW t \in Known, t # NoTarget,
           NEW root, root = ServerRoot(t), FileExists(root \o RelativeFile[root]) => root = SchemaDir[root],
           NEW at, at = (IF FindProjectRoot(t) = NoTarget THEN t ELSE FindProjectRoot(t)),
           ~ResolveGraphFile(at, RelativeFile[root]).warned
    PROVE  ResolveGraphFile(at, RelativeFile[root]).file = NodeFile(root)
<1>1. PICK dir, file : dir = SchemaDir[root] /\ file = RelativeFile[root]
  OBVIOUS
<1>2. /\ t \in Seq(STRING)
      /\ dir \in Seq(STRING) /\ file \in Seq(STRING) /\ file # << >>
      /\ NodeFile(root) = dir \o file /\ NodeFile(root) \in WorkspaceFiles
      /\ \A f \in ToSet(Files) : IsPrefix(t, f) => f = t
  BY <1>1, KnownArePaths DEF ProjectsAreWhole, Known, NodeFile
<1>3. CASE ~FileExists(at \o file)
  <2>1. ~ResolveGraphFile(at, file).warned /\ dir \o file \in WorkspaceFiles
    BY <1>1, <1>2, Zenon
  <2>2. ResolveGraphFile(at, file).file = dir \o file
    BY <1>2, <1>3, <2>1, SearchFinds, Zenon
  <2> QED
    BY <1>1, <1>2, <2>2, Zenon
<1>4. CASE FileExists(at \o file)
  <2>1. ResolveGraphFile(at, file).file = at \o file
    BY <1>4 DEF ResolveGraphFile
  <2>2. CASE at = t
    <3>1. t \o file \in ToSet(Files)
      BY <1>4, <2>2, FilesAreFinite
    <3>2. Len(t \o file) > Len(t) /\ SubSeq(t \o file, 1, Len(t)) = t /\ Len(t) \in Nat
      BY <1>2
    <3>3. IsPrefix(t, t \o file)
      BY <3>2 DEF IsPrefix
    <3>4. t \o file = t
      BY <1>2, <3>1, <3>3, Zenon
    <3> QED
      BY <3>2, <3>4
  <2>3. CASE at = FindProjectRoot(t) /\ FindProjectRoot(t) # NoTarget
    <3>1. at = root
      BY <1>2, <2>3, RootIsFound, FilesAssumption
    <3> QED
      BY <1>1, <1>2, <1>4, <2>1, <3>1
  <2> QED
    BY <2>2, <2>3
<1> QED
  BY <1>3, <1>4

-----------------------------------------------------------------------------
(* Clicks *)

\* A click is on an object.
ClicksAreReal == \A k \in DOMAIN calls : calls[k].kind \in {"open", "resolve"} => calls[k].clicked # NoTarget

LEMMA FewerClicks ==
    ASSUME PanelInv, ClicksAreReal, NEW k \in DOMAIN calls, NEW r, r = RemoveAt(calls, k)
    PROVE  /\ r \in Seq(CallRecord)
           /\ \A i \in DOMAIN r : r[i].kind \in {"open", "resolve"} => r[i].clicked # NoTarget
<1>1. calls \in Seq(CallRecord)
  BY DEF PanelInv, PanelTypes, CallsOf
<1>2. /\ r \in Seq(CallRecord) /\ Len(r) = Len(calls) - 1 /\ DOMAIN r = 1..Len(r)
      /\ \A i \in DOMAIN r : r[i] = IF i < k THEN calls[i] ELSE calls[i + 1]
  BY <1>1, RemoveAtShape
<1>3. \A i \in DOMAIN r : i \in DOMAIN calls /\ i + 1 \in DOMAIN calls
  BY <1>1, <1>2
<1> QED
  BY <1>2, <1>3 DEF ClicksAreReal

LEMMA MoreClicks ==
    ASSUME NEW q \in Seq(CallRecord), NEW c,
           \A i \in DOMAIN q : q[i].kind \in {"open", "resolve"} => q[i].clicked # NoTarget,
           c.kind \in {"open", "resolve"} => c.clicked # NoTarget,
           calls' = Append(q, c)
    PROVE  ClicksAreReal'
BY DEF ClicksAreReal

LEMMA RequestIsNoClick ==
    ASSUME NEW q \in Seq(CallRecord), NEW panel, NEW target, NEW p,
           \A i \in DOMAIN q : q[i].kind \in {"open", "resolve"} => q[i].clicked # NoTarget,
           RequestAndSendGraph(q, panel, target, p)
    PROVE  ClicksAreReal'
<1>1. PICK c : c = Call("send", panel, target)
  OBVIOUS
<1>2. c.kind = "send"
  BY <1>1 DEF Call
<1>3. calls' = q \/ calls' = Append(q, c)
  BY <1>1 DEF RequestAndSendGraph
<1> QED
  BY <1>2, <1>3, MoreClicks DEF ClicksAreReal

LEMMA ClicksStayReal ==
    ASSUME PanelInv, ClicksAreReal, [Next]_vars
    PROVE  ClicksAreReal'
<1>1. /\ calls \in Seq(CallRecord)
      /\ \A i \in DOMAIN calls : calls[i].kind \in {"open", "resolve"} => calls[i].clicked # NoTarget
  BY DEF PanelInv, PanelTypes, CallsOf, ClicksAreReal
<1>2. CASE UNCHANGED calls
  BY <1>2 DEF ClicksAreReal
<1>3. ASSUME NEW k \in DOMAIN calls, calls' = RemoveAt(calls, k)
      PROVE  ClicksAreReal'
  BY <1>3, FewerClicks DEF ClicksAreReal
<1>4. CASE ShowDependencyGraph
  <2>1. PICK c : c = Call("target", None, NoTarget)
    OBVIOUS
  <2> QED
    BY <1>1, <1>4, <2>1, MoreClicks DEF ShowDependencyGraph, Call
<1>5. ASSUME NEW k \in DOMAIN calls, TargetResolved(k), calls' # RemoveAt(calls, k)
      PROVE  ClicksAreReal'
  <2>1. PICK target : calls' = Append(RemoveAt(calls, k), Call("command", None, target))
    BY <1>5 DEF TargetResolved
  <2>2. PICK c : c = Call("command", None, target)
    OBVIOUS
  <2>3. c.kind = "command"
    BY <2>2 DEF Call
  <2> QED
    BY <2>1, <2>2, <2>3, FewerClicks, MoreClicks
<1>6. ASSUME NEW k \in DOMAIN calls, AnswerCommand(k), calls' # RemoveAt(calls, k)
      PROVE  ClicksAreReal'
  <2>1. ShowOrReveal(RemoveAt(calls, k), calls[k].target)
    BY <1>6 DEF AnswerCommand
  <2> QED
    BY <2>1, FewerClicks, RequestIsNoClick DEF ShowOrReveal
<1>7. ASSUME NEW k \in DOMAIN calls, AnswerOpen(k), calls' # RemoveAt(calls, k)
      PROVE  ClicksAreReal'
  <2>1. /\ calls[k].kind = "open"
        /\ calls' = Rooted(calls, k, panels[calls[k].panel])
    BY <1>7 DEF AnswerOpen, Rooted
  <2>2. /\ DOMAIN calls' = DOMAIN calls
        /\ \A i \in DOMAIN calls : calls'[i].clicked = calls[i].clicked /\ (i # k => calls'[i] = calls[i])
    BY <1>1, <2>1 DEF Rooted, CallRecord
  <2> QED
    BY <1>1, <2>1, <2>2 DEF ClicksAreReal
<1>8. CASE PageLoads \/ ClickRefresh
  BY <1>1, <1>8, RequestIsNoClick DEF PageLoads, ClickRefresh
<1>9. CASE ClickNode
  <2>1. PICK c : c = [Call("open", current, panels[current]) EXCEPT !.clicked = page.graph]
    OBVIOUS
  <2>2. c.clicked # NoTarget
    BY <1>9, <2>1 DEF ClickNode, Call
  <2> QED
    BY <1>1, <1>9, <2>1, <2>2, MoreClicks DEF ClickNode
<1>10. CASE UNCHANGED vars \/ Hide \/ Reveal \/ ClosePanel
  BY <1>2, <1>10 DEF vars, Hide, Reveal, ClosePanel
<1>11. ASSUME NEW k \in DOMAIN calls, AnswerSend(k) \/ OpenFile(k)
       PROVE  ClicksAreReal'
  BY <1>3, <1>11 DEF AnswerSend, OpenFile
<1> QED
  BY <1>2, <1>3, <1>4, <1>5, <1>6, <1>7, <1>8, <1>9, <1>10, <1>11 DEF Next, Progress

LEMMA OpenFileOpens ==
    ASSUME ProjectsAreWhole, PanelInv, ClicksAreReal, NEW k \in DOMAIN calls, OpenFile(k)
    PROVE  OpensTheNodesFile'
<1>1. PICK o : o = opened'[1]
  OBVIOUS
<1>2. PICK t : t = calls[k].clicked
  OBVIOUS
<1>3. PICK root : root = ServerRoot(t)
  OBVIOUS
<1>4. SUFFICES ASSUME o.read = {t}, FileExists(root \o RelativeFile[root]) => root = SchemaDir[root],
                      ~o.result.warned
               PROVE  o.result.file = NodeFile(root)
  <2>1. o.clicked = t
    BY <1>1, <1>2 DEF OpenFile
  <2> QED
    BY <1>1, <1>3, <1>4, <2>1 DEF OpensTheNodesFile
<1>5. PICK at : at = IF FindProjectRoot(t) = NoTarget THEN t ELSE FindProjectRoot(t)
  OBVIOUS
<1>6. t \in Known /\ t # NoTarget
  BY <1>2 DEF PanelInv, PanelTypes, CallsOf, CallOf, CallRecord, ClicksAreReal, OpenFile
<1>7. o.result = ResolveGraphFile(at, RelativeFile[root])
  <2>1. /\ o.read = {calls[k].target, calls[k].rooted, panels[calls[k].panel]}
        /\ o.result = ResolveGraphFile(IF FindProjectRoot(calls[k].rooted) = NoTarget
                                       THEN panels[calls[k].panel] ELSE FindProjectRoot(calls[k].rooted),
                                       RelativeFile[ServerRoot(calls[k].target)])
    BY <1>1 DEF OpenFile
  <2>2. calls[k].target = t /\ calls[k].rooted = t /\ panels[calls[k].panel] = t
    BY <1>4, <2>1
  <2> QED
    BY <1>3, <1>5, <2>1, <2>2
<1> QED
  BY <1>3, <1>4, <1>5, <1>6, <1>7, FileOfAProject

LEMMA OpenedStays ==
    ASSUME ProjectsAreWhole, PanelInv, ClicksAreReal, OpensTheNodesFile, [Next]_vars
    PROVE  OpensTheNodesFile'
<1>1. CASE UNCHANGED opened
  BY <1>1 DEF OpensTheNodesFile
<1>2. CASE ~UNCHANGED opened
  <2>1. \E k \in DOMAIN calls : OpenFile(k)
    BY <1>2 DEF Next, Progress, vars, TargetResolved, AnswerCommand, AnswerSend, AnswerOpen, PageLoads,
            ShowDependencyGraph, ClickRefresh, ClickNode, Hide, Reveal, ClosePanel
  <2> QED
    BY <2>1, OpenFileOpens
<1> QED
  BY <1>1, <1>2

\* With every target in a project whose file for the object is in the open
\* folder: a click opens that file or there is a warning, unless the target
\* changed meanwhile or a file by the same path lies beside the config
\* (panel.ts, openNode; resolveTarget.ts, resolveGraphFile).
THEOREM ClicksOpenTheFile == ProjectsAreWhole /\ Spec => []OpensTheNodesFile
<1>1. ProjectsAreWhole /\ GraphInit => ProjectsAreWhole /\ ClientInv /\ PanelInv /\ ClicksAreReal /\ OpensTheNodesFile
  BY InitHolds, PanelInit DEF GraphInit, ClicksAreReal, OpensTheNodesFile
<1>2. ProjectsAreWhole /\ ClientInv /\ PanelInv /\ ClicksAreReal /\ OpensTheNodesFile /\ [Next]_vars
         => (ProjectsAreWhole /\ ClientInv /\ PanelInv /\ ClicksAreReal /\ OpensTheNodesFile)'
  <2>1. ProjectsAreWhole => ProjectsAreWhole'
    BY DEF ProjectsAreWhole
  <2> QED
    BY <2>1, StepKeeps, PanelStep, ClicksStayReal, OpenedStays
<1> QED
  BY <1>1, <1>2, PTL DEF Spec

=============================================================================
