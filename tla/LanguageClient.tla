--------------------------- MODULE LanguageClient ---------------------------
(***************************************************************************)
(* The language clients that the VS Code extension starts and stops        *)
(* (extension.ts), one for each time startClient ran, and the server       *)
(* process behind each. A piece of a function up to its next `await' is    *)
(* one action. What start() and stop() of vscode-languageclient may do is  *)
(* external: stop() refuses a client that is still starting, and gives up  *)
(* on a server that does not answer.                                       *)
(***************************************************************************)
EXTENDS Naturals, Sequences, FiniteSets

CONSTANTS
    Paths,         \* values of sqldefkit.serverPath
    Capable,       \* the ones whose server can answer sqldefkit/dependencyGraph
    MaxEvents      \* bound: what the user, or a crash of a server, may do

ASSUME PathAssumption == Capable \subseteq Paths /\ MaxEvents \in Nat

VARIABLES
    serverPath,             \* the setting
    servers,                \* [path, state, next] of each client startClient made
    client,                 \* the extension's `client': an index of servers, or 0
    hasShownStartupError,
    active,                 \* not deactivated
    errors,                 \* history: messages since a start last succeeded
    disturbed,              \* history: a task began during another, or a stop was refused
    events                  \* what has happened, up to MaxEvents
clientVars == <<serverPath, servers, client, hasShownStartupError, active, errors, disturbed, events>>

None == 0
Pending == {"starting", "stopping"}
ClientState == IF client = None THEN "none" ELSE servers[client].state
Quiet == \A i \in DOMAIN servers : servers[i].state \notin Pending

Happens == events < MaxEvents /\ events' = events + 1

\* startClient up to its await: `client' is set before the server answers.
StartClient(now) ==
    /\ servers' = Append(now, [path |-> serverPath', state |-> "starting", next |-> "end"])
    /\ client' = Len(servers) + 1

Init ==
    /\ serverPath \in Paths
    /\ servers = <<[path |-> serverPath, state |-> "starting", next |-> "end"]>>
    /\ client = 1
    /\ hasShownStartupError = FALSE
    /\ active = TRUE
    /\ errors = 0
    /\ disturbed = FALSE
    /\ events = 0

\* Slip: a success does not forget the message shown before.
StartSucceedsTold(i) ==
    /\ servers[i].state = "starting"
    /\ servers' = [servers EXCEPT ![i].state = "running"]
    /\ errors' = 0
    /\ UNCHANGED <<serverPath, client, hasShownStartupError, active, disturbed, events>>

\* client.start() resolves.
StartSucceeds(i) ==
    /\ servers[i].state = "starting"
    /\ servers' = [servers EXCEPT ![i].state = "running"]
    /\ hasShownStartupError' = FALSE
    /\ errors' = 0
    /\ UNCHANGED <<serverPath, client, active, disturbed, events>>

\* client.start() rejects; `client' is cleared whichever client it names.
StartFails(i) ==
    /\ servers[i].state = "starting"
    /\ servers' = [servers EXCEPT ![i].state = "failed"]
    /\ client' = None
    /\ errors' = IF hasShownStartupError THEN errors ELSE errors + 1
    /\ hasShownStartupError' = TRUE
    /\ UNCHANGED <<serverPath, active, disturbed, events>>

\* Slip: the restart that does not wait for the stop.
StopClientAndGoOn(next) ==
    /\ disturbed' = (disturbed \/ ~Quiet)
    /\ LET told == IF client = None THEN servers ELSE [servers EXCEPT ![client].state = "stopping"]
       IN  IF next = "start" THEN StartClient(told) ELSE client' = None /\ servers' = told

\* stopClient, for a task that goes on with `next' once stop() has resolved.
\* Nothing goes on after a stop() that rejects.
StopClient(next) ==
    /\ disturbed' = (disturbed \/ ~Quiet)
    /\ \/ /\ ClientState \in {"none", "crashed"}
          /\ IF next = "start" THEN StartClient(servers) ELSE client' = None /\ UNCHANGED servers
       \/ /\ ClientState = "running"
          /\ servers' = [servers EXCEPT ![client].state = "stopping", ![client].next = next]
          /\ client' = None
       \/ /\ ClientState = "starting"
          /\ client' = None /\ UNCHANGED servers

\* restartClient, run by every change of the setting and awaited by nobody.
RestartClient(path) ==
    /\ active /\ Happens
    /\ path # serverPath
    /\ serverPath' = path
    /\ StopClient("start")
    /\ UNCHANGED <<hasShownStartupError, active, errors>>

\* client.stop() resolves and the task that awaited it goes on.
StopEnds(i) ==
    /\ servers[i].state = "stopping"
    /\ UNCHANGED serverPath
    /\ LET stopped == [servers EXCEPT ![i].state = "stopped"]
       IN  IF servers[i].next = "start" THEN StartClient(stopped)
                                        ELSE servers' = stopped /\ UNCHANGED client
    /\ UNCHANGED <<hasShownStartupError, active, errors, disturbed, events>>

\* client.stop() rejects: the server did not answer, and the task ends there.
StopFails(i) ==
    /\ servers[i].state = "stopping"
    /\ servers' = [servers EXCEPT ![i].state = "stopped"]
    /\ disturbed' = TRUE
    /\ UNCHANGED <<serverPath, client, hasShownStartupError, active, errors, events>>

\* The server ends by itself and the library gives it up; nobody tells the extension.
Crash(i) ==
    /\ Happens
    /\ servers[i].state = "running"
    /\ servers' = [servers EXCEPT ![i].state = "crashed"]
    /\ UNCHANGED <<serverPath, client, hasShownStartupError, active, errors, disturbed>>

Deactivate ==
    /\ active /\ Happens
    /\ active' = FALSE
    /\ StopClient("end")
    /\ UNCHANGED <<serverPath, hasShownStartupError, errors>>

\* What happens without the user.
ClientProgress ==
    \E i \in DOMAIN servers :
        StartSucceeds(i) \/ StartFails(i) \/ StopEnds(i) \/ StopFails(i)

ClientEvent ==
    \/ \E path \in Paths : RestartClient(path)
    \/ \E i \in DOMAIN servers : Crash(i)
    \/ Deactivate

-----------------------------------------------------------------------------
Living == {i \in DOMAIN servers : servers[i].state \in Pending \cup {"running"}}
Latest == Len(servers)

\* Unless a task began while another was pending, or a stop was refused: two
\* servers never run side by side, none outlives the extension, and once
\* nothing is pending the extension holds the client it started last, which is
\* for the path that is set, unless that start failed.
OneServerForThePath ==
    ~disturbed =>
        /\ Cardinality(Living) <= 1
        /\ Quiet /\ ~active => Living = {}
        /\ Quiet /\ active =>
              /\ servers[Latest].path = serverPath
              /\ client = IF servers[Latest].state = "failed" THEN None ELSE Latest

\* Starts that fail are reported once until one succeeds: never twice, however
\* restarts overlap; and, where they do not, whenever the latest start has
\* failed the user has been told since the last success.
FailuresAreToldOnce ==
    /\ errors <= 1
    /\ ~disturbed /\ servers[Latest].state = "failed" => errors = 1

\* Changing sqldefkit.serverPath restarts the client: when nothing is pending,
\* the latest client was started for the path that is set.
RestartsForThePath == Quiet /\ active => servers[Latest].path = serverPath

\* Changing sqldefkit.serverPath restarts the client: the new one takes the
\* place of the old, so that when nothing is pending at most one server lives.
OneServerLives == Quiet => Cardinality(Living) <= 1
=============================================================================
