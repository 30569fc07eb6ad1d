----------------------------- MODULE LspServer -----------------------------
(***************************************************************************)
(* internal/lsp: the message loop of the language server and its session,  *)
(* with an editor that sends messages, and other programs that change      *)
(* schema files and sqldefkit.yaml while the server works.                 *)
(*                                                                         *)
(* The server handles one message at a time, in order.  A handler that     *)
(* re-checks a project reads the schema tree twice, for the diagnostics    *)
(* and again for the symbol index, each time listing the files first and   *)
(* reading them afterwards; the disk may change at each of these points    *)
(* (the files of one load are read in one step).                           *)
(*                                                                         *)
(* One object, x, stands for all of them: a text either defines x, refers  *)
(* to x or cannot be split into statements.                                *)
(***************************************************************************)
EXTENDS Naturals, Sequences

CONSTANTS
    File,           \* .sql files, numbered from 1 in path order
    Dir,            \* directories that may hold a sqldefkit.yaml
    Above,          \* file -> its ancestors in Dir, the nearest first
    Configs,        \* directory -> the configs it may have
    Start,          \* initial [disk, conf] pairs
    MaxMessages,    \* bound on the messages of the editor
    MaxEdits,       \* bound on the changes other programs make to files
    MaxConfigEdits  \* bound on the changes to configs

Text == {"def", "ref", "bad"}
Missing == "missing"    \* no such file on disk
Closed == "closed"      \* no such buffer
NoFile == 0             \* no definition: the null response
Diagnostic == {"none", "unknown", "duplicate", "lex"}

\* A config: present, usable (it parses and sets a dialect), and the files
\* under its schema_dir.
Absent == [present |-> FALSE, usable |-> FALSE, tree |-> {}]
Config ==
    {c \in [present : BOOLEAN, usable : BOOLEAN, tree : SUBSET File] : c.usable => c.present}

ASSUME FileAssumption == File \subseteq Nat \ {NoFile}
ASSUME ConfigsAssumption == \A d \in Dir : Configs[d] \subseteq Config
ASSUME StartAssumption == \A s \in Start :
    s.disk \in [File -> Text \cup {Missing}] /\ s.conf \in [Dir -> Config]
ASSUME AboveAssumption == Above \in [File -> Seq(Dir)]
ASSUME BoundsAssumption == {MaxMessages, MaxEdits, MaxConfigEdits} \subseteq Nat

VARIABLES
    disk,       \* file -> text on disk
    conf,       \* directory -> config on disk
    buffer,     \* editor: file -> text of its open buffer
    shown,      \* editor: file -> the diagnostic it displays
    inbox,      \* messages sent and not yet read: [type, file, text]
    docs,       \* session.docs, the overlay
    projects,   \* session.projects: [cfg, openFiles, symbols]
    task,       \* what is left of the current handler
    answer,     \* the response to the last message, if it was a request: [from, file]
    shutdown,   \* shutdownReceived
    running,    \* the message loop has not ended
    unchanged,  \* projects for which no file or config has changed since their last run began
    budget      \* [messages, edits, configs] spent

editor == <<buffer, shown, inbox>>
session == <<docs, projects>>
server == <<session, task, answer, shutdown, running>>
world == <<disk, conf>>
vars == <<world, editor, server, unchanged, budget>>

Idle == [step |-> "idle"]
NoAnswer == [from |-> NoFile, file |-> NoFile]

\* project.symbols: the texts the index was built from, with paths relative
\* to the root they were loaded from; << >> is nil.
NoSymbols == [texts |-> << >>, root |-> {}]

TypeOK ==
    /\ disk \in [File -> Text \cup {Missing}]
    /\ conf \in [Dir -> Config]
    /\ buffer \in [File -> Text \cup {Closed}]
    /\ shown \in [File -> Diagnostic]
    /\ docs \in [File -> Text \cup {Closed}]
    /\ \A d \in Dir :
          /\ projects[d].cfg \in Config
          /\ projects[d].openFiles \subseteq File
          /\ DOMAIN projects[d].symbols.texts \subseteq projects[d].symbols.root
    /\ task.step \in {"idle", "list", "read", "publish", "graph"}
    /\ unchanged \subseteq Dir
    /\ Len(inbox) <= MaxMessages + 1

Init ==
    /\ \E s \in Start : disk = s.disk /\ conf = s.conf
    /\ buffer = [f \in File |-> Closed]
    /\ shown = [f \in File |-> "none"]
    /\ inbox = << >>
    /\ docs = [f \in File |-> Closed]
    /\ projects = [d \in Dir |-> [cfg |-> Absent, openFiles |-> {}, symbols |-> NoSymbols]]
    /\ task = Idle
    /\ answer = NoAnswer
    /\ shutdown = FALSE
    /\ running = TRUE
    /\ unchanged = {}
    /\ budget = [messages |-> 0, edits |-> 0, configs |-> 0]

-----------------------------------------------------------------------------
(* The editor: buffers are synchronized in full, in order. *)

Message(type, f, t) == [type |-> type, file |-> f, text |-> t]

\* Once it has told the server to exit the editor sends nothing.
SendAll(ms) ==
    /\ running
    /\ \A i \in DOMAIN inbox : inbox[i].type # "exit"
    /\ budget.messages < MaxMessages
    /\ inbox' = inbox \o ms
    /\ budget' = [budget EXCEPT !.messages = @ + 1]

Send(type, f, t) == SendAll(<<Message(type, f, t)>>)

\* Open a file, or a new buffer that has a path but no file yet.
Open(f) ==
    /\ buffer[f] = Closed
    /\ \E t \in Text :
          /\ disk[f] # Missing => t = disk[f]
          /\ buffer' = [buffer EXCEPT ![f] = t]
          /\ Send("didOpen", f, t)
    /\ UNCHANGED <<world, shown, server, unchanged>>

Type(f) ==
    /\ buffer[f] # Closed
    /\ \E t \in Text \ {buffer[f]} :
          /\ buffer' = [buffer EXCEPT ![f] = t]
          /\ Send("didChange", f, t)
    /\ UNCHANGED <<world, shown, server, unchanged>>

\* Saving writes the buffer to disk.
Save(f) ==
    /\ buffer[f] \notin {Closed, disk[f]}
    /\ disk' = [disk EXCEPT ![f] = buffer[f]]
    /\ unchanged' = {}
    /\ Send("didSave", f, buffer[f])
    /\ UNCHANGED <<conf, buffer, shown, server>>

Close(f) ==
    /\ buffer[f] # Closed
    /\ buffer' = [buffer EXCEPT ![f] = Closed]
    /\ Send("didClose", f, Missing)
    /\ UNCHANGED <<world, shown, server, unchanged>>

\* Ask for the definition or the hover of the name in an open buffer, for the
\* names that complete it, or for the graph of its project.
Requests == {"definition", "hover", "completion", "graph"}
Ask(f, request) ==
    /\ buffer[f] # Closed
    /\ Send(request, f, Missing)
    /\ UNCHANGED <<world, buffer, shown, server, unchanged>>

\* Ask for the shutdown and exit, or just exit.
Quit ==
    /\ LET exit == <<Message("exit", NoFile, Missing)>> IN
       \/ SendAll(exit)
       \/ SendAll(<<Message("shutdown", NoFile, Missing)>> \o exit)
    /\ UNCHANGED <<world, buffer, shown, server, unchanged>>

\* Another program writes, creates or deletes a schema file ...
ChangeFile(f) ==
    /\ budget.edits < MaxEdits
    /\ \E t \in (Text \cup {Missing}) \ {disk[f]} : disk' = [disk EXCEPT ![f] = t]
    /\ unchanged' = {}
    /\ budget' = [budget EXCEPT !.edits = @ + 1]
    /\ UNCHANGED <<conf, editor, server>>

\* ... or a sqldefkit.yaml.
ChangeConfig(d) ==
    /\ budget.configs < MaxConfigEdits
    /\ \E c \in Configs[d] \ {conf[d]} : conf' = [conf EXCEPT ![d] = c]
    /\ unchanged' = {}
    /\ budget' = [budget EXCEPT !.configs = @ + 1]
    /\ UNCHANGED <<disk, editor, server>>

-----------------------------------------------------------------------------
(* The session *)

\* config.Discover and the checks of resolveProject: the directories, at
\* most one, whose project owns f.
OwnersIn(cs, f) ==
    {d \in Dir : \E k \in DOMAIN Above[f] :
        /\ Above[f][k] = d
        /\ \A j \in 1..(k - 1) : ~cs[Above[f][j]].present
        /\ cs[d].usable
        /\ f \in cs[d].tree}

Owners(f) == OwnersIn(conf, f)

\* readFile: the overlay first, the disk otherwise.
Effective(f) == IF docs[f] # Closed THEN docs[f] ELSE disk[f]

\* bundle.DiscoverFiles walks the disk: a buffer without a file is not in it.
Listed(cfg) == {f \in cfg.tree : disk[f] # Missing}

\* CheckDiagnostics for file f of the texts loaded.
Diagnose(loaded, f) ==
    LET defining == {g \in DOMAIN loaded : loaded[g] = "def"} IN
    CASE f \notin DOMAIN loaded -> "none"
      [] f \in DOMAIN loaded /\ loaded[f] = "bad" -> "lex"
      [] f \in defining /\ (\E g \in defining : g < f) -> "duplicate"
      [] f \in DOMAIN loaded /\ loaded[f] = "ref" /\ defining = {} -> "unknown"
      [] OTHER -> "none"

\* The next message, of the given type.
Receive(type) ==
    /\ running
    /\ task = Idle
    /\ inbox # << >>
    /\ Head(inbox).type = type
    /\ inbox' = Tail(inbox)

\* runAndPublish starts: check the project of directory d.
Run(d) ==
    /\ task' = [step |-> "list", project |-> d, round |-> 1, loaded |-> << >>]
    /\ unchanged' = unchanged \cup {d}

\* Refresh the config of the project.
Resolved(ps, d) == [ps EXCEPT ![d].cfg = conf[d]]

DidOpen ==
    /\ Receive("didOpen")
    /\ answer' = NoAnswer
    /\ LET f == Head(inbox).file IN
       /\ docs' = [docs EXCEPT ![f] = Head(inbox).text]
       /\ IF Owners(f) = {}
          THEN /\ shown' = [shown EXCEPT ![f] = "none"]
               /\ UNCHANGED <<projects, task, unchanged>>
          ELSE \E d \in Owners(f) :
               /\ projects' = [Resolved(projects, d) EXCEPT ![d].openFiles = @ \cup {f}]
               /\ Run(d)
               /\ UNCHANGED shown
    /\ UNCHANGED <<world, buffer, shutdown, running, budget>>

DidChange ==
    /\ Receive("didChange")
    /\ answer' = NoAnswer
    /\ LET f == Head(inbox).file IN
       /\ docs' = [docs EXCEPT ![f] = Head(inbox).text]
       /\ IF Owners(f) = {}
          THEN /\ shown' = [shown EXCEPT ![f] = "none"]
               /\ UNCHANGED <<projects, task, unchanged>>
          ELSE \E d \in Owners(f) :
               /\ projects' = Resolved(projects, d)
               /\ Run(d)
               /\ UNCHANGED shown
    /\ UNCHANGED <<world, buffer, shutdown, running, budget>>

\* didSave, and other notifications the server ignores.
DidSave ==
    /\ Receive("didSave")
    /\ answer' = NoAnswer
    /\ UNCHANGED <<world, buffer, shown, session, task, shutdown, running, unchanged, budget>>

\* Slip: the closed file is looked up by the config files as they are now.
HoldersNow(f) == Owners(f)

\* Slip: no project is checked again without the closed buffer.
HoldersForgotten(f) == {}

\* The project of a file that is closed is the one that lists it as open; its
\* config is not looked up again.
Holders(f) == {d \in Dir : f \in projects[d].openFiles}

\* Slip: the closed file stays among the open files.
StillTracked(d, f) == projects

Untracked(d, f) == [projects EXCEPT ![d].openFiles = @ \ {f}]

\* The overlay goes, and so does whatever the editor shows.
DidClose ==
    /\ Receive("didClose")
    /\ answer' = NoAnswer
    /\ LET f == Head(inbox).file IN
       /\ docs' = [docs EXCEPT ![f] = Closed]
       /\ shown' = [shown EXCEPT ![f] = "none"]
       /\ IF Holders(f) = {}
          THEN UNCHANGED <<projects, task, unchanged>>
          ELSE \E d \in Holders(f) : projects' = Untracked(d, f) /\ Run(d)
    /\ UNCHANGED <<world, buffer, shutdown, running, budget>>

\* The first definition among the given texts.
FirstDefinition(texts) ==
    LET defining == {g \in DOMAIN texts : texts[g] = "def"} IN
    IF defining = {} THEN NoFile ELSE CHOOSE g \in defining : \A h \in defining : g <= h

\* The first definition of the name in f, by the symbol index.
IndexedDefinition(symbols, f) ==
    IF f \notin DOMAIN symbols.texts \/ symbols.texts[f] = "bad"
    THEN NoFile
    ELSE FirstDefinition(symbols.texts)

\* The positions in the index only fit the text they were taken from, and
\* its paths the root it was built under: otherwise the cursor may miss.
MayMiss(symbols, f, cfg) ==
    \/ symbols.root # cfg.tree
    \/ f \in DOMAIN symbols.texts /\ symbols.texts[f] # Effective(f)

\* handleDefinition, and handleHover, which also looks for the statement at
\* the position of the definition in the text its file has now.
Definition(request) ==
    /\ Receive(request)
    /\ LET f == Head(inbox).file IN
       IF Owners(f) = {}
       THEN /\ answer' = [from |-> f, file |-> NoFile]
            /\ UNCHANGED projects
       ELSE \E d \in Owners(f) :
            /\ projects' = Resolved(projects, d)
            /\ LET symbols == projects[d].symbols
                   found == IndexedDefinition(symbols, f)
                   lost == \/ MayMiss(symbols, f, conf[d])
                           \/ request = "hover" /\ found # NoFile /\ MayMiss(symbols, found, conf[d])
               IN  \E g \in {found} \cup {h \in {NoFile} : lost} :
                      answer' = [from |-> f, file |-> g]
    /\ UNCHANGED <<world, buffer, shown, docs, task, shutdown, running, unchanged, budget>>

\* handleCompletion, where the text before the cursor asks for names: the
\* object is offered if the index has a definition, with the file of the first.
Completion ==
    /\ Receive("completion")
    /\ LET f == Head(inbox).file IN
       IF Owners(f) = {}
       THEN /\ answer' = [from |-> f, file |-> NoFile]
            /\ UNCHANGED projects
       ELSE \E d \in Owners(f) :
            /\ projects' = Resolved(projects, d)
            /\ answer' = [from |-> f, file |-> FirstDefinition(projects[d].symbols.texts)]
    /\ UNCHANGED <<world, buffer, shown, docs, task, shutdown, running, unchanged, budget>>

\* handleDependencyGraph up to its load, which nothing else sees: the index
\* and the diagnostics stay as they are.
DependencyGraph ==
    /\ Receive("graph")
    /\ LET f == Head(inbox).file IN
       IF Owners(f) = {}
       THEN /\ answer' = [from |-> f, file |-> NoFile]
            /\ UNCHANGED <<projects, task>>
       ELSE \E d \in Owners(f) :
            /\ projects' = Resolved(projects, d)
            /\ task' = [step |-> "graph", project |-> d, from |-> f, listed |-> Listed(conf[d])]
            /\ answer' = NoAnswer
    /\ UNCHANGED <<world, buffer, shown, docs, shutdown, running, unchanged, budget>>

\* The graph has the object's first definition, if any; there is no answer if
\* there is no file or one is gone.
GraphOf(listed) ==
    LET loaded == [g \in listed |-> Effective(g)]
    IN  IF \E g \in listed : loaded[g] = Missing THEN NoFile ELSE FirstDefinition(loaded)

AnswerGraph ==
    /\ task.step = "graph"
    /\ answer' = [from |-> task.from, file |-> GraphOf(task.listed)]
    /\ task' = Idle
    /\ UNCHANGED <<world, editor, session, shutdown, running, unchanged, budget>>

Shutdown ==
    /\ Receive("shutdown")
    /\ answer' = NoAnswer
    /\ shutdown' = TRUE
    /\ UNCHANGED <<world, buffer, shown, session, task, running, unchanged, budget>>

\* The loop ends, with exit code 0 after a shutdown and 1 otherwise.
Exit ==
    /\ Receive("exit")
    /\ answer' = NoAnswer
    /\ running' = FALSE
    /\ UNCHANGED <<world, buffer, shown, session, task, shutdown, unchanged, budget>>

-----------------------------------------------------------------------------
(* runProject: two loads, then the notifications. *)

Root == projects[task.project].cfg

\* On with the diagnostics of the first load: of no file, if it has failed.
ThenPublish == task' = [step |-> "publish", project |-> task.project, loaded |-> task.loaded]

\* Slip: a failed load keeps the old index.
LoadFailsKeepingSymbols == ThenPublish /\ UNCHANGED projects

\* A load fails if there is no file to list, or if one is gone when it is to
\* be read.  If the first one fails, every open file is reported clean; if
\* either fails the symbols are dropped.
LoadFails ==
    /\ projects' = [projects EXCEPT ![task.project].symbols = NoSymbols]
    /\ ThenPublish

ThenRead == task' = [step |-> "read", project |-> task.project, round |-> task.round,
                     loaded |-> task.loaded, listed |-> Listed(Root)]

\* Slip: with no schema file, wait for one.
ListFilesWaiting ==
    /\ task.step = "list"
    /\ Listed(Root) # {}
    /\ ThenRead
    /\ UNCHANGED <<world, editor, session, answer, shutdown, running, unchanged, budget>>

ListFiles ==
    /\ task.step = "list"
    /\ IF Listed(Root) = {}
       THEN LoadFails
       ELSE ThenRead /\ UNCHANGED projects
    /\ UNCHANGED <<world, editor, docs, answer, shutdown, running, unchanged, budget>>

ReadFiles ==
    /\ task.step = "read"
    /\ LET loaded == [f \in task.listed |-> Effective(f)] IN
       IF \E f \in task.listed : loaded[f] = Missing
       THEN LoadFails
       ELSE IF task.round = 1
            THEN /\ task' = [step |-> "list", project |-> task.project, round |-> 2,
                             loaded |-> loaded]
                 /\ UNCHANGED projects
            ELSE /\ projects' = [projects EXCEPT ![task.project].symbols =
                                    [texts |-> loaded, root |-> Root.tree]]
                 /\ ThenPublish
    /\ UNCHANGED <<world, editor, docs, answer, shutdown, running, unchanged, budget>>

\* Diagnostics go to every open file of the project.
Publish ==
    /\ task.step = "publish"
    /\ shown' = [f \in File |-> IF f \in projects[task.project].openFiles
                                THEN Diagnose(task.loaded, f)
                                ELSE shown[f]]
    /\ task' = Idle
    /\ UNCHANGED <<world, buffer, inbox, session, answer, shutdown, running, unchanged, budget>>

-----------------------------------------------------------------------------

Environment ==
    \/ \E f \in File : Open(f) \/ Type(f) \/ Save(f) \/ Close(f)
    \/ \E f \in File, request \in Requests : Ask(f, request)
    \/ \E f \in File : ChangeFile(f)
    \/ \E d \in Dir : ChangeConfig(d)
    \/ Quit

Server ==
    \/ DidOpen
    \/ DidChange
    \/ DidSave
    \/ DidClose
    \/ Definition("definition")
    \/ Definition("hover")
    \/ Completion
    \/ DependencyGraph
    \/ AnswerGraph
    \/ Shutdown
    \/ Exit
    \/ ListFiles
    \/ ReadFiles
    \/ Publish

Next == Environment \/ Server

Spec == Init /\ [][Next]_vars

\* Run() reads and handles messages until it is told to exit.
FairSpec == Spec /\ WF_vars(Server)

-----------------------------------------------------------------------------
(* Properties *)

\* The server has handled everything the editor sent.
Quiet == running /\ task = Idle /\ inbox = << >>

\* No sqldefkit.yaml has changed since the server started.
SameConfigs == budget.configs = 0

\* The files of a project as the user sees them: buffers over the disk.
Present(d) == [f \in Listed(conf[d]) |-> Effective(f)]

\* No project of the configs the server starts with has another one inside:
\* the project that owns a file owns all the files under its schema_dir.
\* Where one has, a buffer of the inner project is a file of the outer one,
\* and a change to it checks the inner project alone.
WholeTrees ==
    \A s \in Start : \A d \in Dir : \A f, g \in File :
        d \in OwnersIn(s.conf, f) /\ g \in s.conf[d].tree => d \in OwnersIn(s.conf, g)

\* README, "published live as you edit": once the server is quiet, and
\* unless the disk has changed since it last checked the project, an open
\* document shows exactly what check says of the buffers as they are.  An
\* edit of one file can change the diagnostics of another, opening and
\* closing buffers included.  Once a config has changed this is not so: see
\* OpenFilesArePublished.
DiagnosticsAreCurrent ==
    Quiet /\ SameConfigs => \A f \in File : \A d \in Owners(f) :
        buffer[f] # Closed /\ d \in unchanged => shown[f] = Diagnose(Present(d), f)

\* What is not in a project, or not open, shows nothing: no handler leaves
\* squiggles behind that no later message would clear.
NoGhostDiagnostics ==
    Quiet => \A f \in File : buffer[f] = Closed => shown[f] = "none"

\* The overlay is what the editor has open, and every tracked file is open
\* and tracked by one project only: closing it stops its diagnostics.
OverlayFollowsBuffers ==
    inbox = << >> /\ running =>
        /\ docs = buffer
        /\ \A d \in Dir : \A f \in projects[d].openFiles :
              /\ docs[f] # Closed
              /\ \A e \in Dir \ {d} : f \notin projects[e].openFiles

\* A request is answered from what the user sees, as long as nothing on disk
\* has changed since the last check: with the first file that defines the
\* name, if any. The index that definition, hover and completion look into is
\* a load younger than the diagnostics; the graph is a load of its own.
AnswersAreCurrent ==
    [][\A f \in File, d \in Dir :
        /\ answer' # answer /\ answer'.from = f
        /\ SameConfigs
        /\ d \in Owners(f) \cap unchanged
        => answer'.file = IF task.step = "graph" \/ Head(inbox).type = "completion"
                          THEN FirstDefinition(Present(d))
                          ELSE IndexedDefinition([texts |-> Present(d), root |-> {}], f)]_vars

\* Every message is handled: a handler never gets stuck between its loads,
\* whatever happens to the disk.
MessagesAreHandled == inbox # << >> ~> (inbox = << >> \/ ~running)

\* server.go:259-261: runAndPublish "publishes diagnostics for every
\* currently open file" of the project.
OpenFilesArePublished ==
    Quiet => \A f \in File : \A d \in Owners(f) :
        buffer[f] # Closed /\ d \in unchanged => f \in projects[d].openFiles
=============================================================================
