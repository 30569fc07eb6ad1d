----------------------------- MODULE GraphPanel -----------------------------
(***************************************************************************)
(* The command sqldefkit.showDependencyGraph and the panel it opens        *)
(* (extension.ts, panel.ts, resolveTarget.ts and the page's script         *)
(* graph.ts). Every `await' of them is a call in `calls'; a server answers *)
(* its calls in the order it got them. A uri is its path, a sequence of    *)
(* names; each project has one object, in one file.                        *)
(***************************************************************************)
EXTENDS LanguageClient, SequencesExt

CONSTANTS
    Files,            \* the files there are, in the order of their paths
    WorkspaceFolder,  \* the folder that is open
    SchemaDir,        \* of each directory with a config, by its schema_dir
    RelativeFile,     \* ... where in the schema directory its object is defined
    Targets           \* files an editor may show

ASSUME FilesAssumption ==
    Files \in Seq(Seq(STRING)) /\ WorkspaceFolder \in Seq(STRING) /\ Targets \subseteq Seq(STRING)

VARIABLES
    panels,   \* the targetUri of every panel opened, the live one included
    current,  \* DependencyGraphPanel.current: an index of panels, or 0
    page,     \* the page of the current panel
    calls,    \* what is awaited: requests and lookups of files
    opened,   \* history: the node clicked last that was opened, and how
    overtaken \* history: the target was set while an earlier request to another server was pending
vars == <<clientVars, panels, current, page, calls, opened, overtaken>>

NoTarget == << >>

(***************************************************************************)
(* Files and projects                                                      *)
(***************************************************************************)
FileExists(path) == Contains(Files, path)
HasConfig(dir) == FileExists(Append(dir, "yaml")) \/ FileExists(Append(dir, "yml"))
DirsAbove(path) == {SubSeq(path, 1, n) : n \in 0..Len(path) - 1}
Longest(dirs) == CHOOSE d \in dirs : \A e \in dirs : Len(e) <= Len(d)

\* The project the server finds for a file: the nearest config above it.
ServerRoot(target) == Longest({d \in DirsAbove(target) : HasConfig(d)})
NodeFile(root) == SchemaDir[root] \o RelativeFile[root]

InWorkspace(path) == IsPrefix(WorkspaceFolder, path)

\* findProjectRoot goes up to the folder that is open and no further; for a
\* target outside of it, all the way.
FindProjectRoot(target) ==
    LET seen == {d \in DirsAbove(target) : InWorkspace(target) => InWorkspace(d)}
        roots == {d \in seen : HasConfig(d)}
    IN  IF roots = {} THEN NoTarget ELSE Longest(roots)

\* What findFiles can find, and the first of it by path.
WorkspaceFiles == {f \in ToSet(Files) : InWorkspace(f)}
Position(path) == CHOOSE i \in DOMAIN Files : Files[i] = path
FirstOf(files) ==
    IF files = {} THEN NoTarget
    ELSE CHOOSE f \in files : \A g \in files : Position(f) <= Position(g)

FindFirstConfigFile ==
    LET Named(name) == {f \in WorkspaceFiles : Last(f) = name}
    IN  FirstOf(IF Named("yaml") # {} THEN Named("yaml") ELSE Named("yml"))

\* The files resolveGraphFile finds by name if there is none at the path
\* itself: the ones that end as the path does, or else all.
CandidatesOf(file) ==
    {f \in WorkspaceFiles :
        /\ Last(f) = Last(file)
        /\ IsSuffix(file, f) \/ \A g \in WorkspaceFiles : ~IsSuffix(file, g)}

\* Slip: a warning only if there is none.
ResolveGraphFileSilently(root, file) ==
    IF FileExists(root \o file) THEN [file |-> root \o file, warned |-> FALSE]
    ELSE [file |-> FirstOf(CandidatesOf(file)), warned |-> CandidatesOf(file) = {}]

\* resolveGraphFile: the file for a node, and whether the user is warned.
ResolveGraphFile(root, file) ==
    IF FileExists(root \o file) THEN [file |-> root \o file, warned |-> FALSE]
    ELSE [file |-> FirstOf(CandidatesOf(file)), warned |-> Cardinality(CandidatesOf(file)) # 1]

(***************************************************************************)
(* Requests and the page                                                   *)
(***************************************************************************)
Call(kind, panel, target) ==
    [kind |-> kind, panel |-> panel, target |-> target, server |-> client,
     clicked |-> NoTarget, rooted |-> NoTarget]

\* A page that is not there, and one whose script has just started.
NoPage == [visible |-> FALSE, loaded |-> FALSE, graph |-> NoTarget, status |-> "empty"]
Unloaded == [NoPage EXCEPT !.visible = TRUE]

\* The page on a message: a graph is drawn; an error leaves the drawing alone.
Receive(p, graph) ==
    IF ~p.loaded THEN p
    ELSE IF graph = NoTarget THEN [p EXCEPT !.status = "error"]
    ELSE [p EXCEPT !.graph = graph, !.status = "empty"]

\* post: what a panel that was closed has to say is dropped.
Post(panel, graph) == page' = IF panel = current THEN Receive(page, graph) ELSE page

\* requestAndSendGraph up to its await, on a page as `p', after the calls `cs'.
RequestAndSendGraph(cs, panel, target, p) ==
    IF client = None
    THEN calls' = cs /\ page' = Receive(p, NoTarget)
    ELSE calls' = Append(cs, Call("send", panel, target)) /\ page' = p

GraphInit ==
    /\ Init
    /\ panels = << >> /\ current = None /\ page = NoPage
    /\ calls = << >> /\ opened = << >> /\ overtaken = FALSE

-----------------------------------------------------------------------------
(* The command *)

\* showDependencyGraph, when it does more than say why it does nothing.
ShowDependencyGraph ==
    /\ active /\ Happens
    /\ client # None
    /\ servers[client].state \in {"running", "crashed"}
    /\ servers[client].path \in Capable
    /\ calls' = Append(calls, Call("target", None, NoTarget))
    /\ UNCHANGED <<serverPath, servers, client, hasShownStartupError, active, errors, disturbed,
                   panels, current, page, opened, overtaken>>

\* resolveGraphTarget is done; the client it asks is read again, and if it is
\* gone by now the call throws and an error is shown.
TargetResolved(k) ==
    /\ calls[k].kind = "target"
    /\ \E target \in Targets \cup {FindFirstConfigFile} :
          calls' = IF target = NoTarget \/ client = None THEN RemoveAt(calls, k)
                   ELSE Append(RemoveAt(calls, k), Call("command", None, target))
    /\ UNCHANGED <<clientVars, panels, current, page, opened, overtaken>>

\* Slip: the graph is requested before the target is replaced.
ShowOrRevealOld(cs, target) ==
    /\ UNCHANGED overtaken
    /\ panels' = IF current = None THEN Append(panels, target) ELSE [panels EXCEPT ![current] = target]
    /\ current' = Len(panels')
    /\ IF current = None THEN RequestAndSendGraph(cs, current', target, Unloaded)
       ELSE RequestAndSendGraph(cs, current, panels[current], [page EXCEPT !.visible = TRUE])

\* showOrReveal: there is one panel, whose target is replaced.
ShowOrReveal(cs, target) ==
    /\ overtaken' = (overtaken \/ \E k \in DOMAIN cs : cs[k].kind = "send" /\ cs[k].server # client)
    /\ \/ /\ current # None
          /\ panels' = [panels EXCEPT ![current] = target]
          /\ UNCHANGED current
          /\ RequestAndSendGraph(cs, current, target, [page EXCEPT !.visible = TRUE])
       \/ /\ current = None
          /\ panels' = Append(panels, target)
          /\ current' = Len(panels) + 1
          /\ RequestAndSendGraph(cs, Len(panels) + 1, target, Unloaded)

-----------------------------------------------------------------------------
(* Answers *)

\* The first call its server has not answered.
IsNext(k) ==
    /\ calls[k].kind \in {"command", "send", "open"}
    /\ \A j \in 1..k - 1 : calls[j].kind \in {"target", "resolve"} \/ calls[j].server # calls[k].server

\* What a server that can answer sends: the graph of the target's project; or
\* nothing, if the project cannot be loaded. NoTarget also stands for a request that is rejected.
Answers(k) ==
    LET s == servers[calls[k].server] IN
    CASE s.state = "starting" -> {}
      [] s.state \in {"running", "stopping"} /\ s.path \in Capable -> {calls[k].target, NoTarget}
      [] OTHER -> {NoTarget}

AnswerCommand(k) ==
    /\ IsNext(k) /\ calls[k].kind = "command"
    /\ \E graph \in Answers(k) :
          IF graph = NoTarget
          THEN calls' = RemoveAt(calls, k) /\ UNCHANGED <<panels, current, page, overtaken>>
          ELSE ShowOrReveal(RemoveAt(calls, k), calls[k].target)
    /\ UNCHANGED <<clientVars, opened>>

AnswerSend(k) ==
    /\ IsNext(k) /\ calls[k].kind = "send"
    /\ \E graph \in Answers(k) : Post(calls[k].panel, graph)
    /\ calls' = RemoveAt(calls, k)
    /\ UNCHANGED <<clientVars, panels, current, opened, overtaken>>

\* openNode has the node's file, relative to the schema directory of the
\* project asked for, and looks for the root of the panel's target.
AnswerOpen(k) ==
    /\ IsNext(k) /\ calls[k].kind = "open"
    /\ \E graph \in Answers(k) :
          calls' = IF graph = NoTarget THEN RemoveAt(calls, k)
                   ELSE [calls EXCEPT ![k].kind = "resolve", ![k].server = None,
                            ![k].rooted = panels[calls[k].panel]]
    /\ UNCHANGED <<clientVars, panels, current, page, opened, overtaken>>

\* The root is found, or else the target as it is now is taken for it.
OpenFile(k) ==
    /\ calls[k].kind = "resolve"
    /\ LET asked == calls[k].target
           rooted == calls[k].rooted
           now == panels[calls[k].panel]
           root == FindProjectRoot(rooted)
       IN  opened' = <<[clicked |-> calls[k].clicked, read |-> {asked, rooted, now},
                        result |-> ResolveGraphFile(IF root = NoTarget THEN now ELSE root,
                                                    RelativeFile[ServerRoot(asked)])]>>
    /\ calls' = RemoveAt(calls, k)
    /\ UNCHANGED <<clientVars, panels, current, page, overtaken>>

-----------------------------------------------------------------------------
(* The page *)

\* Slip: the page does not say that it is ready.
PageLoadsQuietly ==
    /\ current # None /\ page.visible /\ ~page.loaded
    /\ page' = [page EXCEPT !.loaded = TRUE]
    /\ UNCHANGED <<clientVars, panels, current, calls, opened, overtaken>>

\* The script runs and posts "ready".
PageLoads ==
    /\ current # None /\ page.visible /\ ~page.loaded
    /\ RequestAndSendGraph(calls, current, panels[current], [page EXCEPT !.loaded = TRUE])
    /\ UNCHANGED <<clientVars, panels, current, opened, overtaken>>

UserAct ==
    /\ active /\ Happens
    /\ UNCHANGED <<serverPath, servers, client, hasShownStartupError, active, errors, disturbed>>

ClickRefresh ==
    /\ UserAct
    /\ current # None /\ page.loaded
    /\ RequestAndSendGraph(calls, current, panels[current], [page EXCEPT !.status = "refreshing"])
    /\ UNCHANGED <<panels, current, opened, overtaken>>

\* A click on the object of the graph that is drawn.
ClickNode ==
    /\ UserAct
    /\ current # None /\ page.graph # NoTarget
    /\ client # None
    /\ calls' = Append(calls, [Call("open", current, panels[current]) EXCEPT !.clicked = page.graph])
    /\ UNCHANGED <<panels, current, page, opened, overtaken>>

\* Another tab covers the panel: its page is destroyed, and loads again later.
Hide ==
    /\ UserAct
    /\ current # None /\ page.visible
    /\ page' = NoPage
    /\ UNCHANGED <<panels, current, calls, opened, overtaken>>
Reveal ==
    /\ UserAct
    /\ current # None /\ ~page.visible
    /\ page' = Unloaded
    /\ UNCHANGED <<panels, current, calls, opened, overtaken>>

ClosePanel ==
    /\ UserAct
    /\ current # None
    /\ current' = None
    /\ page' = NoPage
    /\ UNCHANGED <<panels, calls, opened, overtaken>>

Progress ==
    \/ ClientProgress /\ UNCHANGED <<panels, current, page, calls, opened, overtaken>>
    \/ \E k \in DOMAIN calls : \/ TargetResolved(k) \/ AnswerCommand(k) \/ AnswerSend(k)
                               \/ AnswerOpen(k) \/ OpenFile(k)
    \/ PageLoads

Next ==
    \/ Progress
    \/ ClientEvent /\ UNCHANGED <<panels, current, page, calls, opened, overtaken>>
    \/ ShowDependencyGraph \/ ClickRefresh \/ ClickNode
    \/ Hide \/ Reveal \/ ClosePanel

Spec == GraphInit /\ [][Next]_vars
\* Promises settle and pages load; the user and crashes are not owed.
FairSpec == Spec /\ WF_vars(Progress)

-----------------------------------------------------------------------------
Uris == {Files[i] : i \in DOMAIN Files} \cup {NoTarget}

TypeOK ==
    /\ serverPath \in Paths
    /\ \A i \in DOMAIN servers :
          servers[i] \in [path : Paths, next : {"start", "end"},
                          state : Pending \cup {"running", "failed", "stopped", "crashed"}]
    /\ client \in {None} \cup DOMAIN servers
    /\ {hasShownStartupError, active, disturbed} \subseteq BOOLEAN
    /\ errors \in Nat /\ events \in 0..MaxEvents
    /\ \A i \in DOMAIN panels : panels[i] \in Uris \ {NoTarget}
    /\ current \in {None} \cup DOMAIN panels
    /\ page \in [visible : BOOLEAN, loaded : BOOLEAN, graph : Uris,
                 status : {"empty", "refreshing", "error"}]
    /\ \A k \in DOMAIN calls :
          calls[k].panel \in {None} \cup DOMAIN panels /\ calls[k].server \in {None} \cup DOMAIN servers

\* Once nothing is awaited, a page on screen shows the graph of its panel's
\* target or says why not: it is not blank, it does not say "Refreshing", and
\* it does not show the graph of the target before. That last part leaves out
\* a target that was set while a request to a server that has since been given
\* up was pending: its answer, about the old target, may come last.
PageShowsTheTarget ==
    calls = << >> /\ page.loaded =>
        \/ page.status = "error"
        \/ /\ page.status = "empty"
           /\ page.graph # NoTarget
           /\ overtaken \/ page.graph = panels[current]

\* Every target belongs to a project, whose object has its file in the folder
\* that is open, and no target is a directory.
ProjectsAreWhole ==
    \A t \in (Targets \cup {FindFirstConfigFile}) \ {NoTarget} :
        LET root == ServerRoot(t) IN
        /\ \E d \in DirsAbove(t) : HasConfig(d)
        /\ {SchemaDir[root], RelativeFile[root]} \subseteq Seq(STRING)
        /\ RelativeFile[root] # << >>
        /\ NodeFile(root) \in WorkspaceFiles
        /\ \A f \in ToSet(Files) : IsPrefix(t, f) => f = t

\* A click opens the file of the object in the graph that was on the page, or
\* there is a warning. What is left out: a panel whose target changed between
\* the drawing and the opening, and a project that has a file by the same
\* relative path beside its config.
OpensTheNodesFile ==
    opened # << >> =>
        LET o == opened[1]
            root == ServerRoot(o.clicked)
        IN  (/\ o.read = {o.clicked}
             /\ FileExists(root \o RelativeFile[root]) => root = SchemaDir[root]) =>
                o.result.warned \/ o.result.file = NodeFile(root)

\* A click on a node jumps to the definition of that node, wherever it comes
\* in the life of the panel, or there is a warning. A project that has a file
\* by the same relative path beside its config is left out.
ClicksJumpToTheNode ==
    opened # << >> =>
        LET o == opened[1]
            root == ServerRoot(o.clicked)
        IN  (FileExists(root \o RelativeFile[root]) => root = SchemaDir[root]) =>
                o.result.warned \/ o.result.file = NodeFile(root)

\* A page on screen that is blank or refreshing gets a graph or an error,
\* through restarts, crashes and answers that never come, unless it goes away.
Waiting ==
    current # None /\ page.visible
        /\ (page.status = "refreshing" \/ (page.status = "empty" /\ page.graph = NoTarget))
PageIsAnswered == Waiting ~> ~Waiting
=============================================================================
