# A verification project for sqldefkit

sqldefkit reads a tree of `.sql` files, finds out which statement depends on
which, and writes them as one file that a schema tool can execute from the top
(`bundle`); it reports what is wrong with the tree (`check`), exports the
dependency graph (`graph`) and serves editors (`lsp`).  A VS Code extension
starts the server and draws the graph.

This directory holds TLA+ models of that program, the TLC runs that check them
and TLAPS proofs about them.  Paths below are relative to the repository
(`src/` in `PROJECT.json`).  `PROJECT.json` maps every definition to its lines.

## The system

| Component | State | Operations | What makes it correct |
|---|---|---|---|
| `internal/lexer` | cursor, pending comments (per call) | `Split` | splits exactly at the semicolons outside of comments, strings, quoted identifiers and dollar quotes; no comment is lost |
| `internal/pos` | line starts (per call) | `Pos` | an offset and its line and column stand for each other |
| `internal/parse` | none | `Parse`: kind, name, references, directives | a reference is neither missed nor invented; each name once |
| `internal/graph` | indegrees, ready heap, Tarjan's stack (per call) | `Sort`, `SCCs` | an executable order or a real cycle; whole components |
| `internal/fkrewrite` | spans, cursor (per call) | `Extract`, `Remove` | exactly the clauses asked for go; the list stays well formed |
| `internal/bundle` | statements, symbols, diagnostics (per call) | `Load`, `CheckDiagnostics`, `Build` | the bundle is executable and complete; check and bundle agree |
| `internal/config` | files on disk | `Discover`, `Load` | the nearest config decides, and only that one |
| `internal/graphexport` | none | `Build`, writers | the graph shown is the graph sorted |
| `internal/lsp` | overlay, projects, open files, symbol index | message handlers, completion scan, UTF-16 columns | what is shown and answered is what `check` says of the buffers |
| `cmd/sqldefkit` | output files | `check`, `bundle`, `graph`, `lsp` | a file is written by a command that succeeded |
| `editors/vscode` | language client, graph panel and its page | start, stop, restart, show graph, open node | one server, for the path that is set; the graph of the current target |

The batch commands are a pipeline in one goroutine: `bundle.Load` calls
`lexer.Split` and `parse.Parse` for each file, `breakFKCycles` calls
`graph.SCCs`, `fkrewrite.Extract` and `fkrewrite.Remove` and parses its output
again, `graph.Sort` orders what is left, `emit` writes it.  The server runs the
same pipeline per message over an overlay of open buffers; its handlers run one
at a time, but the editor and other programs write the disk while they do.
The extension is one thread whose functions are cut at their `await`s: a setting,
a crash, a closed panel or an answer can come in between.

Hard to test, and what the properties aim at (the list with lines is
`hazards` in `PROJECT.json`): counters and heap in `Sort` that must agree with
the graph between iterations; text edits whose spans were computed on the
unedited text; a rewrite in one stage that changes what later stages see; a file
that fails to load among others that do not; two commands that repeat the same
steps and must reach the same verdict; reads of a disk that changes in
between; state cached under a configuration that has changed since; answers that
come after what they were asked for has gone.

## Modules

| Module | Models | Uses |
|---|---|---|
| `DepGraph` | nodes, names, sort keys; how a name becomes an edge; reference definitions (reachability, what can follow) | – |
| `DependencyOrder` | the promise of `Sort`, without counters | `DepGraph` |
| `GraphSort` | `graph.Sort` and `findCyclePath`, an action per loop iteration | `DepGraph`; implements `DependencyOrder` |
| `GraphSortProofs` | theorems about the main loop of `GraphSort`, its cycle and its refinement | `GraphSort` |
| `GraphSCC` | `graph.SCCs`: Tarjan's recursion with explicit frames | `DepGraph` |
| `GraphSCCProofs` | theorems about it | `GraphSCC` |
| `Schema` | a statement as parse and fkrewrite see it; `Extract` and `Remove` on lists of items | – |
| `FkRewrite` | `fkrewrite.Remove` on a text; shows that it is `Schema!Remove` | `Schema` |
| `Bundle` | `Load`, `CheckDiagnostics`, `Build`: check first, then bundle | `Schema`, `DepGraph` |
| `Commands` | `check`, `bundle`, `graph` on one tree: output files, `graphexport.Build` | `Bundle` |
| `CommandProofs` | theorems about the pipeline and the commands | `Commands` |
| `VerdictProofs` | theorems about how check and bundle end, and what the bundle keeps | `CommandProofs` |
| `CycleFlagProofs` | theorem about the flags of the exported graph | `CommandProofs` |
| `SqlText` | source text by significant bytes; the lexer's searches in it | – |
| `Split` | `lexer.Split`, an action per token; the text `emit` writes, and splitting it again | `SqlText` |
| `SplitProofs` | theorems about the statements, comments and tokens `Split` finds | `Split` |
| `Positions` | `pos.LineMap`, UTF-16 columns, cursor offsets, identifier spans | `SqlText` |
| `Completion` | `detectCompletionContext` | `Positions` |
| `Cursor` | what hover, definition and completion see around a cursor next to what `Split` sees | `Split`, `Completion` |
| `LanguageClient` | the extension's clients and the servers behind them | – |
| `GraphPanel` | the command, the panel, its page, the search for a node's file | `LanguageClient` |
| `ExtensionProofs` | theorems about the clients, the panel, its page and its clicks | `GraphPanel` |
| `LspServer` | editor, disk, message loop and session of the server | – |
| `LspProofs` | theorems about the overlay, what is tracked, shown and answered | `LspServer` |
| `MCGraphs`, `MCGraphSort`, `MCGraphSCC`, `MCFkRewrite`, `MCBundle`, `MCCommands`, `MCLspServer`, `MCSplit`, `MCExtension` | the inputs TLC enumerates | |

Operators with a comment that starts with "Slip:" are not part of a model.
They are the plausible mistakes of `PROJECT.json`'s `mutants`: each stands
before the definition it would replace, and with it TLC finds the named property
violated.  Every module says the types of its variables in `TypeOK`.  The run `graph_sort` and a
theorem check it for `GraphSort`, theorems for `GraphSCC` and `LspServer`; in the others it is
there to be read, and the runs spend their time on the properties above it.

### Graph

`GraphSort` keeps the code's `indegree`, `dependents` and heap (a set with
`IsLeast` for `pop`: keys are distinct, so the heap's order is determined).
`AddEdges` is an iteration of the edge loop, `SeedReady` fills the heap,
`PopReady` is an iteration of the main loop, `StartCyclePath` and `FollowHop`
are `findCyclePath`.  `DepGraph!Targets` is the `byName` rule: the last
definition of a name wins, self references and unknown names are skipped.
`DependencyOrder` says what callers rely on: each time the smallest statement
that can follow is emitted, and a cycle is reported exactly when nothing can.

`GraphSCC` replaces `strongConnect`'s recursion by a stack of frames (node,
neighbours left, visited in key order as the code sorts them).

### Foreign keys

A `CREATE TABLE` is a list of items (`Schema`): a column, a column with an
inline `REFERENCES`, a table-level `FOREIGN KEY`, or one that cannot be read
("opaque", for which `Extract` gives up).  `Schema!Remove` takes out items and
clauses of such a list.  `FkRewrite` starts from a text – a sequence of words,
commas, spaces, newlines, comments – and models `Remove` itself:
`TakeSpan` with `expandTableLevelSpan` (`OverComma`, `OverLine`),
`CopyRest`, `Collapse` (double commas) and `TrimLines`.  `RemovesByItem` connects
the two: on lists without comments the edited text is the text of
`Schema!Remove`'s list, `SkippedByRemove` included, the clause `Remove` fails to
take out.  `Bundle` then uses the list.  Characters are not modelled: a word
stands for an identifier or keyword, and recognizing a clause is given.

### Bundle

`Bundle` runs check and then bundle on one tree, as `check && bundle` would.
`LoadFile`, `LexFails`, `ReadFails` are an iteration of `Load`; `FinishLoad`
adds unknown references; `StopAtDiagnostic` and `PassGate` are the gate before
cycles are looked for; `ResolveEdges`, `FindCycles`, `DropEdgesSQLite`,
`SplitComponent`, `UnbreakableCycle`, `AddAlterTable`, `ApplyRewrites` are
`breakFKCycles` and `breakOneSCC`; `StartSort`, `EmitNext`, `SortFails`,
`Finish` the sort and emit.  SCCs and Sort appear as what the runs of the graph
modules show of them (`CycleMates`, the smallest that can follow).

### Commands

`Commands` goes on where `Bundle` ends, with `disk` for the output files and
`graph` for the exported payload.  `BundleStep` writes the bundle's file in the
step in which it succeeds, `RunGraph` starts `graph` on the tree as it now is, with the
bundle as its last file if it was written there (`BundleFile`).  `Payload` is
`graphexport.Build`: nodes, externals, edges classified by `EdgeKind`, and the
flags from the components (`EdgeInCycle`, by name).  The properties compare it with
the references `check` resolves and with the cycles of its own edges.

### Text, positions and completion

A text is a sequence of bytes, of which only the ones the lexer tells apart are
kept apart ("w" is any letter); single letters stand for the keywords completion looks for.
`Split` has an action for each branch of the loop; `pending`, `leading`, `tokens` and
`start` are the scanner's and the body's variables.  When a source has been split,
`EmitBundle` writes its statements in any order, as `emit` would after a sort, and
the result is split again (`round`).  `RegionOf` is the reference: it reads a text a byte at a time and
says which comment, string or quoted identifier each byte is in; `StatementSpans`
derives the statements from it.  `Positions` and `Completion` are operators and `Cursor` compares
them with `RegionOf` and the tokens for every cursor of every text.

### VS Code extension

`LanguageClient` has a record for each `LanguageClient` object, with the state of its
server; `client` is the variable of extension.ts.  `StartClient` is `startClient` up to its
`await`, `StartSucceeds` and `StartFails` what follows; `StopClient` is `stopClient` up to
its `await`, with what the caller goes on to do in `next`, and `StopEnds` goes on.  As
vscode-languageclient 9.0.1 does, `stop()` rejects for a client that is still starting, and may
give up on a server that does not answer (`StopFails`).  `disturbed` is a history
variable: a task of the extension began while another was pending, or a stop was refused.

`GraphPanel` keeps every pending request or lookup in `calls`; a server answers in order, with a
graph, with null, or, if it is gone, with an error.  `ShowOrReveal`,
`RequestAndSendGraph`, `Post`, `AnswerOpen` and `OpenFile` are the panel, `Receive` and
`PageLoads` the page's script.  A hidden page is destroyed and loads again.  A graph is
identified by the target it was asked for; each project has one object.  A message
between panel and page is delivered in the step that sends it.  `overtaken` is a history
variable: the target was set while a request to a server since given up was pending.

### Language server

One object x stands for all: a text defines x, refers to x, or cannot be split.
The editor keeps buffers and sends `didOpen`, `didChange` (full text),
`didSave`, `didClose`, requests (definition, hover, completion, dependency graph),
shutdown and exit; messages arrive in order.  `DidOpen`, `DidChange`, `DidClose` resolve the project
(`Owners`: the nearest config decides, and an unusable one ends the search) and start `runProject`, of
which every disk access is a step: `ListFiles` and `ReadFiles` for the
diagnostics, the same again for the symbol index, `Publish`.  Other programs
change files and configs between any two steps.  The files of one load are read in one step; with a single change
per behaviour this loses nothing, since any such read equals one before or
after the change.  A position in the index only fits the text it was taken from;
where they may differ the model lets the lookup hit or miss (`MayMiss`).
Hover adds the text of the definition as its buffer is now, completion needs the index
only, and `DependencyGraph` loads the tree once more and leaves index and diagnostics alone.
`unchanged` is a history variable: the projects for which nothing on disk has
changed since their last run began.

## Runs

| Run | Instance | Shows |
|---|---|---|
| `graph_sort` | 4 nodes: all 4096 digraphs on distinct names; 20736 slices with duplicate, missing, self and undefined names, keyed against slice order | counters and heap exact, order executable, cycles real, termination, refinement of `DependencyOrder` |
| `graph_scc` | the same | popped components are the strongly connected ones, an open component has a call that will pop it, result is the cycles in key order, termination |
| `fkrewrite` | lists of up to 3 items of all forms in every layout, of 4 items in two layouts, of 2 with comments; every subset of clauses removed | text edits are `Schema!Remove`; nothing else is lost; no blank line appears |
| `fkrewrite_named` | 2 items with a named inline constraint | violation, see below |
| `bundle` | three tables with nine shapes of foreign keys each, two dialects; two tables with a view, index, ALTER or other statement, directives, undefined names, and a file that loads, cannot be split or cannot be read; output to stdout, outside the tree or into it | executable, complete, untouched outside of cycles, genuine cycle errors, check agrees with bundle, no false unknowns; exported flags are cycles and externals the unknowns; a bundle in its own tree is noticed |
| `bundle_requires`, `bundle_pair` | parts of the same | violations |
| `split` | every text of 4 significant bytes per dialect (8 kinds of bytes each), and of 4 pieces out of comments, strings, dollar quotes, semicolons, names with multi-byte characters, index statements, references, directives; every order of the statements in the bundle | splits at code, comments attached (over stray semicolons, as the code does and its docs do not say), tokens tile, bundle reads back, positions and spans and completion agree with tokens, termination |
| `split_comment` | 4 pieces out of a line comment, newline, semicolon, name | violation |
| `lsp` | two files, two nested directories, four starting disks, three messages, one file change and one config change | diagnostics current when quiet, nothing shown for closed documents, overlay follows buffers, all four requests answered currently, every message handled |
| `extension` | two paths, one of an old server; four events (changes of the path, crashes, commands, clicks, hiding, closing, deactivation); two projects with a file of the same name and one above the open folder | one server, failures told once, page shows its target, node's file opened, page answered |
| `extension_restart` | the same | violation |

Why these bounds: four nodes are the fewest with a cycle of three and a lead-in,
two disjoint cycles, or a component of three with a dependent; duplicates need two nodes
and a third that refers to them.  Removal works on neighbours, so three
items (first, middle, last) have every neighbourhood and four show two pairs.  Three
tables give cycles of two and three, overlapping cycles and a table outside.  In
the server, three messages reach open–open–close, open–change–definition and
open–close–open; one change of the disk between any two steps is what a handler
can miss.  A fourth message or second change is not checked.  Four bytes hold an opener, its closer,
one byte between them and one after; the pieces make texts of two statements with comments
in every place.  Four events of the extension reach a restart during a restart with a crash, and
a panel that is opened, retargeted and clicked while the path changes.

Deadlock is checked in every run except those of the server, where the editor
may stop sending, of `Split`, which ends, and of the extension, where the user may stop.

Fairness: `Sort` and `SCCs` run in their caller's goroutine and never wait, so a
step that can be taken is taken (`WF(Next)`).  The server's `Run` loop reads and
handles messages until told to exit (`WF(Server)`); nothing is assumed of the editor or
of other programs.  `Split` is a loop in its caller's goroutine (`WF(SplitStep)`).  In the extension promises
settle and pages load (`WF(Progress)`: start and stop resolve or reject, a server answers or its
requests are rejected); the user and crashes are not owed.

## Where the code and its words differ

Each is a run whose counterexample TLC finds (`findings`):

* `bundle_requires` – a table whose foreign keys are split off is parsed again
  without its comments and forgets its `require` directives (`cyclebreak.go:93`).
* `bundle_pair` – two table-level foreign keys at the end of a list, both to be
  removed: their widened spans overlap, the second stays and is added again
  (`rewrite.go:43`).
* `fkrewrite_named` – removing an inline clause leaves `CONSTRAINT name`
  (`item.go:207`).
* `split_comment` – a statement that ends in a line comment swallows the semicolon
  of the bundle and runs into the next statement (`emit.go:42`).
* `extension_restart` – a change of the path while the client starts is lost, since
  `stop()` rejects and `startClient` is never reached (`extension.ts:73-76`).

Each of the next is a property stated beside the others that the code does not have either.
A run of it takes the configuration named here (`MaxMessages` and the like go into that of its module's
run) with the property as the invariant; TLC has been run on each:

* `AlterIsNoDefinition` (`Bundle`; `BundleRequires.cfg`) – a hand-written
  `ALTER TABLE` counts as a second definition of its table (`load.go:102`).
* `NoDanglingComma` (`FkRewrite`; `FkRewriteNamed.cfg` with `Layouts <- Commented`) – a comment between a last clause and
  its comma leaves the comma dangling (`rewrite.go:83`).
* `LiteralsIntact` (`FkRewrite`; `FkRewriteNamed.cfg` with `Layouts <- Literals`) – the collapse of
  double commas edits string literals (`rewrite.go:186`), where `rewrite.go:11-13` leaves the
  "other constraints intact".
* `CommentsAdjoin` (`Split`; `SplitComment.cfg`) – comments in front of a stray semicolon are attached to
  the statement after it, and `split.go:128-131` says that this is meant; `lexer.go:57-59` ("with
  no blank statement in between") and `split.go:9-13` ("nothing but other comments/whitespace
  between them and the statement") say otherwise.  `CommentsAttached` and its theorem state what
  the code does.
* `CompletionAnswers` (`Cursor`; `SplitComment.cfg` with `Sources <- Commented`) – a semicolon in a
  comment between `ON` and the cursor: the statement is taken to start behind the word before the cursor,
  and the slice between them panics (`completion.go:74-75`, recovered as an internal error in
  `server.go:103-112`); `completion.go:38-43` says comments are skipped "well enough".
* `OneServerLives` (`LanguageClient`; `ExtensionRestart.cfg`) – the client is forgotten before its
  `stop()` resolves (`extension.ts:68`): changes of the path while a client starts or stops leave two
  servers, and nothing stops the first.
* `ClicksJumpToTheNode` (`GraphPanel`; `ExtensionRestart.cfg`) – a click reads the panel's target again
  after it has awaited (`panel.ts:257`): the other project's file of the same name opens without a
  warning, where `editors/vscode/README.md:18` promises the definition of the node.
* `OpenFilesArePublished` (`LspServer`; `Start <- Unconfigured`, `MaxMessages = 4`,
  `MaxEdits = 0`) – a document opened before its config exists is never tracked as open
  (`server.go:220`).
* `HoverCoversIdentifier` (`Cursor`; `Split.cfg`) – the range of a hover starts at the cursor and not
  where the identifier does, although `server.go:398-399` says it covers the identifier.

Seen while modelling and not stated:

* The path of a `CycleError` need not start at the smallest unresolved node as
  `graph.go:165-169` says, since the lead-in of the walk is cut off.
* `lexer.go:65-66` says comments are not among the tokens; those inside a body are.
* `EdgeKind`'s "alter" never shows, since a statement's own name is not drawn; and when an
  `ALTER TABLE` takes a table's name the cycle flags of the two are merged.
* A bundle in its own tree that defines no name doubles silently
  (`BundleInTreeIsReported` excepts it).
* Where a usable config lies inside the tree of another project, a buffer of the inner project is
  a file of the outer one too, but a change to it checks the inner project alone
  (`server.go:205-299`): documents of the outer one keep stale diagnostics.  `WholeTrees` excludes
  such trees; without it TLC finds `DiagnosticsAreCurrent` violated after two opened documents.
* A page can show the graph of an old target last, if the target was set while a request to a
  server since given up was pending (`panel.ts:214-230` posts without a look at the target).
* `resolveTarget.ts:65-80` says the search for a node's file is scoped under the project root; it is
  the whole workspace, and a file by the same path beside the config is taken without a
  warning.

The passing properties are stated around these: `NothingLost` and
`CyclesAreGenuine` except `EndsInPair`, `Executable` asks directives only of
statements emitted verbatim, `RemovesByItem` is about lists without comments,
`DiagnosticsAreCurrent` and `AnswersAreCurrent` hold while no config changes,
`RoundTrip` excepts statements that end in an open comment, `NamesAreFound` names with a doubled
quote, `CompletionSeesTheCode` is about texts the backward scan was written for (`ScansExactly`),
`OneServerForThePath` and half of `FailuresAreToldOnce` except histories in which the extension's tasks
overlapped (`OneServerLives` is about those), `OpensTheNodesFile` clicks during which the target changed
(`ClicksJumpToTheNode`), and `KeepsTheRest` compares texts without commas and blanks (`LiteralsIntact`).

## Where the models are coarser than the code

No property that is checked rests on what is left out here.

* `Schema!Extractable`: an item is recognized by `Extract` as `parse` sees it, or cannot be read at all.
  A `REFERENCES` that parse sees and `Extract` passes over without giving up (`item.go:44-59`) has no form,
  so the test in `cyclebreak.go:279-288` that every edge of a cycle is covered never fails, and
  the "should be unreachable" errors of `cyclebreak.go:96-102`, `235-238` and `320-323` do not occur.
* `SqlText!Trim`: `strings.TrimSpace` (`split.go:125`) also takes off the Unicode spaces U+0085 and
  U+00A0, which are not among the bytes modelled.  With such an ending, the last tokens lie
  beyond the end of the statement's text in the code.
* `LanguageClient!Crash` is a server the library has given up.  Before that its default error handler
  restarts a crashed server several times, while the client is starting again.
* `GraphPanel!CandidatesOf` compares whole components of paths over all files; `resolveTarget.ts:95-110`
  looks for the exact base name outside of `node_modules` and compares the end of the path as a string.  The
  string may match more files, and then there is a warning.
* The symbol index and the diagnostics of the server come from two loads (`session.go:278`).  A file
  written between them makes the two disagree until the next check; `AnswersAreCurrent` asks nothing of a
  project whose files were written since its run began.

## Proofs

For every number of nodes, set of names and set of inputs, in `GraphSortProofs`:

* `TypeCorrect` – `[]TypeOK`; in particular no count goes below zero.
* `CountsCorrect` – `[]CountsAreExact`.
* `ReadyCorrect` – `[]ReadyIsExact`.
* `OrderCorrect` – `[]TopologicalOrder`.
* `CycleCorrect` – `[]CycleIsReal`: a reported cycle is one.
* `PromiseKept` – `Spec => KeepsPromise`: `Sort` implements `DependencyOrder`.

They rest on `SizeAssumption`, `NoNameAssumption` and `InputsAssumption` (the
inputs are graphs with distinct keys, as `bundle` makes them).  None of them is
inductive alone.  `IInv` is their conjunction with `Phases` (nothing is emitted
while edges are added, and all edges are added after).  The argument: when i is
popped its dependencies are all emitted (`ReadyIsExact`), so the order stays
topological; no dependent of i can have been emitted before it, by
`TopologicalOrder`, so i is counted once in each dependent's count and taking it out
lowers that count by one (`CountAfter`, a fact about cardinalities); hence the
counts stay exact, and those that reach zero are exactly the nodes that can
follow now.  `AddEdgesIInv`, `SeedReadyIInv`, `PopReadyIInv` and `AfterLoopIInv` are
the cases of `Next`, one conjunct a step.

`JInv` adds three things for the walk.  `Progress`: the order is as long as it
has distinct nodes, so that a short order leaves some node out and a full one leaves
none.  `Walk`: nothing can follow the order, and the path goes along dependencies
through remaining nodes without repeating one.  Hence every remaining node has a
remaining dependency (`HopExists`), and the walk can only end by meeting itself, which
closes a cycle (`HopWalk`); `CycleIsReal` itself is the third part.  For the
refinement, `ReadyIsExact` makes a pop an `Emit`, and `Progress` makes the length test after
the loop the verdict of `Complete` or `Reject`; the other steps stutter
(`StepKeepsPromise`).

In `ExtensionProofs`, for any paths, files and number of events, about the `Spec` that the run
`extension` checks:

* `OneServer` – `[]OneServerForThePath`.
* `ToldOnce` – `[]FailuresAreToldOnce`.
* `PageFollowsTheTarget` – `[]PageShowsTheTarget`.
* `ClicksOpenTheFile` – `[]OpensTheNodesFile`, under `ProjectsAreWhole`.

The invariant of the first two is `ClientInv`: only the latest client may live (`OnlyLatestLives`), its
state says what `client` is and what the extension is about to do (`LatestServes`), a client
that is held is up (`ClientIsUp`), and `hasShownStartupError` is the number of messages
(`Told`).  A start is harmless when every client before it has ended (`StartingKeeps`);
`StopClientKeeps` shows that `restartClient` and `deactivate` get there unless they overlap
with another task, and `StepKeeps` that commands, panel and page leave all of it alone.
`PathAssumption` is not used.

The invariant of the third joins `PanelInv` to `ClientInv`, as only the clients say which servers can still
answer.  `AnswersInOrder` is what makes it true: of the graphs awaited for the panel those of
an earlier target come before the one of its target, on the same server, unless `overtaken`.  Such
an answer cannot be the last word then, and `PageIsServed` says that a page that does not show
the target is owed an answer that will.

For the last, `ClicksAreReal` says that a click awaited is on an object, and the rest is about one
step, `OpenFile`.  If the three targets it read are one, the root found is the server's
(`RootIsFound`: directories above a path that are in the open folder are the longer ones) or the
target is taken for it, below which there is nothing.  The search by suffix has the object's file
among its candidates (`SuffixOf`); so if there is no warning it is the only one (`SearchFinds`).
`ProjectsAreWhole` says that every target has a project, whose object has its file in the open
folder, and that no target is a directory; where the file lies elsewhere, a single other file that
ends alike is opened without a warning.  `MCExtension` assumes it of the instance that is checked,
and `FilesAssumption` gives the constants their types.

In `GraphSCCProofs`, for every number of nodes and set of inputs:

* `StackHoldsOpenNodes` – `[]StackIsOpenNodes`.
* `PoppedSetsAreComponents` – `[]PoppedAreComponents`.
* `SCCsAreTheCycles` – `[]ReturnsTheCycles`.
* `TypesHold` – `[]TypeOK`.

This is Tarjan's argument for the code's variant of it, where a neighbour's lowlink arrives when the
call returns.  Reachability is the least closed set (`ReachableIsClosed`,
`ReachableIsLeast`), so no path is ever written down.  `IInv` says that what has a component
is closed under edges (`DoneIsClosed`), that a call leads to all that lies above it on the
stack (`CallsLeadUp`), that what is on the stack leads to a call that began before it
(`StackLeadsDown`), that a call's lowlink is the visit number of a node on the stack it leads to
(`LowIsReached`), and that it is no more than that of any node on the stack that an edge handled
since leads to (`LowIsLeast`).  When a node's lowlink is its own number, the segment above it is
strongly connected and, with the closed set beside it, holds all its edges: a component
(`ComponentIsCycleMates`).

In `LspProofs`, for any files, directories and configs, start states and bounds:

* `OverlayIsTheBuffers` – `[]OverlayFollowsBuffers`.
* `ClosedFilesShowNothing` – `[]NoGhostDiagnostics`.
* `TypesHold` – `[]TypeOK`.

Neither is inductive, as both speak of a moment when no message is on its way.  `InStep` says it of
every moment: `Stream` relates the overlay to the editor's buffers over the messages in between (the
last one about a file says how its buffer is now; with none, the overlay has it), a tracked
file is open in the overlay and tracked by one project (`OpenFilesAreTracked`), and what the
overlay does not have shows nothing (`ClosedShowsNothing`), whichever run is going on.

and, under `WholeTrees`:

* `WhatIsShownIsCurrent` – `[]DiagnosticsAreCurrent`.
* `WhatIsAnsweredIsCurrent` – `AnswersAreCurrent`, an action property.

`UpToDate` adds `Current` to `InStep`: projects are resolved as the configs say, and what each
handler has loaded so far, the symbol index and the diagnostics shown are those of the overlay
and the disk, for every project nothing has changed under since its last run began.
`WholeTrees` is a hypothesis of the theorems and no assumption of the module: without it they
are false (see above).  The instance the run checks satisfies it (`StartIsWhole` in `MCLspServer`).
`StartAssumption`, `AboveAssumption`, `ConfigsAssumption`, `FileAssumption` and `BoundsAssumption`
give the constants their types.

In `CommandProofs`, for every schema tree – any files, statements, items and names – and all
output paths, about `CommandsSpec`, which the run `bundle` checks:

* `BundleRunsFromTheTop` – `[]Executable`.
* `OthersStayUntouched` – `[]UntouchedOutsideCycles`.
* `UnknownNamesAreUnknown` – `[]NoFalseUnknown`.
* `ExternalsAreWarnedOf` – `[]ExternalsAreTheUnknowns`.
* `OwnBundleIsReported` – `[]BundleInTreeIsReported`.

`CommandsInv` has four parts.  `LoadInv`: symbols, warnings and duplicates are those of the
files read so far.  `StmtsInv`, about the statements while they are rewritten: the ones of the files
keep their places (`Positions`); only tables on a cycle are split, and every added statement belongs
to one (`OnlyCyclesAreSplit`); no two statements share a key, and the highest one of a table is always
there for `nextSubIndex` to count from (`KeysAreDistinct`); a reference of the text a statement
has now is among its `deps`, unless SQLite resolves it late or it is a directive the rewrite
lost (`DepsAreKept`).  `OrderIsGood`: what is emitted comes after all it depends on, in
the graph of the statements as they are now.  `DiskInv`: a bundle inside the tree defines what the
other files define.  `Executable` then follows: a name that a reference asks for is resolved to a
position by the last definition, the dependency is an edge as `deps` has it, and the order obeys
the edges.  The key step is that dropping SQLite's edges can only lose references between tables
(`Lazy`).  `NamesAssumption`, `InputsAssumption` and `DestinationsAssumption` are all that is assumed.
`graph.Sort` and `graph.SCCs` appear in `Bundle` as what the theorems above say of them.

In `CycleFlagProofs`, about the same `CommandsSpec`:

* `FlagsMarkTheCycles` – `[]FlagsAreCycles`.

The flags come from the components of the statements, the drawn edges from a second walk over the
references, by name.  `Draws` says when a drawing stands for a graph of positions: a name has
one statement, and every edge of either has one of the other.  Paths then carry over in both
directions (`PathsAreDrawn`); a name without a statement has no edges out
(`OutsideReachesNothing`).  `AllCyclesFound` adds to the invariant that the components found
are all there are, since `CommandsInv` says only that each of them is one.

In `VerdictProofs`, about the same `CommandsSpec`:

* `BuildFailsWhenCheckDoes` – `[]CheckPredictsBuild`.
* `CycleErrorsAreGenuine` – `[]CyclesAreGenuine`.
* `NothingIsLost` – `[]NothingLost`.

The first part of the module has no steps in it.  It says of a sequence of statements which cycles
it has, which clauses are taken out of each (`ExtractedFrom`), which dependencies are left
(`DepsLeft`), and whether all cycles can be broken and the rest be ordered (`CanBeOrdered`).  `GoodTree`
asks this of the statements of a tree in which no file fails and no name is taken twice.
`VerdictInv` then says of check and of build alike that each ends well exactly if the tree is
good.  Its parts: the statements are in file order (`InFileOrder`), the errors counted are those of the tree
(`ErrorsAreTheirs`), and the cycles handled so far were breakable, with the texts and dependencies that
the first part gives them (`BreakInv`).  The order in which the cycles are handled does not matter,
because breaking one changes no other.  A cycle that is left after all have been broken can only come from a clause that
`Remove` fails to take out, which needs a pair of clauses at the end of a list (`LeftoverCycle`).

For the third, `KeysInv` follows the foreign keys on their way: what is to be taken out of a
table is known when its cycle is handled (`MovesAreTheirs`), the table is then the source without it
(`ExtractedIsRemoved`), and there is one added statement for each clause moved (`MovedIsAdded`).
`Remove` keeps the clauses it is not asked to take (`KeysLeft`), the output is the statements in another
order, and counts do not change by reordering (`Renumbering`); so clauses left and clauses added make up the
source's.

In `SplitProofs`, for source texts of every length, in the three dialects:

* `SplitsWhereTheCodeSays` – `[]SplitsAtCode`.
* `CommentsReachTheirStatement` – `[]CommentsAttached`, for the rule of the code, which passes over
  stray semicolons.
* `TokensTileTheStatement` – `[]TokensTile`.

`RegionOf`, the reference, is a recursive function of the offset, and `Split` jumps from token to
token.  What holds of every value of such a function is shown of a least offset at which it would not
(`HasLeast`, from the library's `WFMin`), and so is that the function exists (`StepsDefine`).
`CommentIs`, `WordIs`, `DollarIs` and `QuoteIs` then say of each jump that the bytes in between lie in
one region, and that none is open where the scanner lands (`Fresh`), or else that a quote is left
open to the end of the text.  The hard one is `QuoteIs`: the scanner reads an escape or a doubled
quote as two bytes, while the reference counts the backslashes in front of a byte and takes a doubled
quote for two regions back to back; `QuoteLeads` relates the two at each byte (`ScanLeads`).

`ScanInv` is the invariant.  The statements found are those of the reference that begin before the scanner
(`StatementsInv`), and the comments that wait are those that begin after the last of them
(`CommentsInv`).  In a body, the scanner has passed no semicolon that is code, and the tokens
tile what it has passed (`BodyInv`); between bodies, a semicolon lies behind whatever is solid
(`Settled`), so that the next solid byte is a first one.  It has one lemma per operation (`WordKeeps`,
`EndBodyKeeps` and the like), and `Counted` connects the order in which statements are found with the
number `StatementSpans` gives each of them.  `SourcesAssumption` is all that is assumed.

Only model-checked:

* `RemovesByItem` and `KeepsTheRest` (`FkRewrite`): they compare texts after `SelectSeq` has taken
  bytes out of them, whose recursive definition the provers do not open.
* `RoundTrip` (`Split`): the regions of a text that `FlattenSeq` puts together would have to be
  followed through every part of it; no proof has been written.
* `WirePositions`, `NamesAreFound` and `CompletionSeesTheCode` (`Cursor`): scans over a text for a cursor,
  without steps to reason about; TLC compares them with what `Split` sees, on every text of the run.
* `SortReturns`, `SCCsReturns`, `SplitEnds`, `MessagesAreHandled`, `PageIsAnswered`: liveness.

## Not modelled, and planned

Next:

1. Directives and the parser's reference scan on tokens (`extract.go:298-360`); the scanning of
   items in `item.go`.

Left out for good: wording and order of diagnostics, DOT and Mermaid syntax, JSON-RPC
framing, URIs, YAML decoding, parsing of flags, drawing in the webview.  They are encodings
without state that no property here depends on.
