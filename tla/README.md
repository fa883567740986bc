# A TLA+ model of zuban

zuban is a Python type checker and language server written in Rust.  This
directory holds TLA+ modules that model the parts of it where behaviour in time
matters, TLC configurations that check them on small instances, and proofs that
TLAPS checks for every instance.  Paths below are relative to `src/crates/`.

## The system

| Component | State it keeps | Operations | Talks to |
|---|---|---|---|
| Language server (`zubanls/src/server.rs`) | the project or a recovery of it, documents whose diagnostics are due, notebooks | event loop, notifications, requests, recovery from panics, publishing | editor (channel), watcher (channel), project (calls), vfs (callback `on_invalidated_in_memory_file`) |
| Virtual file system (`vfs/src/vfs.rs`, `tree.rs`, `workspaces.rs`) | a tree of entries, file states by index, the table of in-memory documents, on every entry the files to invalidate with it | open, edit, close, load, read a directory, handle an event, recover | disk (through the handler), database (results of invalidations) |
| Local file system (`vfs/src/local_fs.rs`) | the watches | read and watch, classify events | `notify`, disk |
| Import resolution (`zuban_python/src/imports.rs`, `file/imports.rs`) | per file, a cached result for each import | resolve a name, register the importing file | tree of entries |
| Database (`zuban_python/src/database.rs`) | the python state (builtins), the project | invalidate one file or all, generate the python state | vfs, inference |
| Parser generator (`parsa`) | the automatons and plans of a grammar; while parsing: stack, tree nodes, recorded tokens | build the tables; transitions, alternatives with backtracking, error recovery | tokenizer, grammar |
| Python grammar, tokenizer, syntax tree (`parsa_python`, `parsa_python_cst`) | indentation and brackets while tokenizing | | parser |
| Flow analysis (`zuban_python/src/file/flow_analysis.rs`) | frames of narrowed keys, try frames, the jumps out of the innermost loop | assign, delete, test, open and merge branches | inference (types of expressions), diagnostics (walks the statements) |
| Checker (the rest of `zuban_python/src/file`, `type_`, `matching`, ...) | points of each file (memoized results) | inference, diagnostics, completion, goto | database, imports |
| Configuration, command lines, logging, licensing | none after start | | |

`PROJECT.json` lists every component with its files, what is modelled of it and
why the rest is not.

What is hard here is not one algorithm but the agreement between several pieces
of state that change at different times:

* **Editor against disk.**  The same file changes in the editor and on disk.  An
  open document must keep the editor's text whatever happens below it, and the
  text on disk must come back when the document is closed.
* **Caches against sources.**  A file caches what its imports resolved to.  The
  cache must go when a target changes, appears, disappears or is shadowed, also
  through chains and cycles of imports.
* **Events against the disk.**  An event carries a path and is handled later.
  What is on disk then may be something else again.
* **Entries against file states.**  The tree, the file states and the in-memory
  table refer to each other; directories that vanish with open documents in
  them, and recoveries from panics, rebuild one from the other.
* **Taking back.**  The parser tries alternatives and undoes them: stack, tree,
  and the place in the token stream must go back to where they were together.
* **Merging.**  The flow analysis walks a function body once and joins what it
  knows at the end of branches, loops and handlers; whatever one way assigns must
  survive every merge, and nothing may survive that no way supports.
* **Diagnostics.**  They are pushed, so a document whose results changed must be
  announced, or the editor shows stale ones for ever.

## Modules

| Module | What it is |
|---|---|
| `Vfs` | the virtual file system with import resolution, invalidation, the disk and its events, the editor and recovery |
| `VfsProofs` | the state of `Vfs` is well-formed, and the editor's text wins |
| `VfsLinkProofs` | tree, entries, file states and in-memory table of `Vfs` keep pointing at each other |
| `VfsInvalidationProofs` | invalidation in `Vfs` reaches every dependent, and tells the editor's documents |
| `VfsResolutionProofs` | what the files of `Vfs` have cached for their imports is what a lookup finds now |
| `VfsDiskProofs` | `Vfs` catches up with the disk |
| `MCVfs` | instances of `Vfs` for TLC |
| `Server` | the event loop of the language server between the client, the watcher and the project |
| `Documents` | what the server promises to an editor about its documents; abstract, implemented by `Server` |
| `ServerProofs` | theorems about `Server` and their proofs |
| `ServerDiagnosticsProofs` | that the diagnostics are current when the server waits |
| `MCServer` | instances of `Server` for TLC |
| `Automaton` | the parser generator: rules to automatons, automatons to plans |
| `Language` | the language of a grammar, read off its rules; the reference for the parser |
| `Backtracking` | the tokenizer that records and replays |
| `TokenStream` | what the parser expects of it; abstract, implemented by `Backtracking` |
| `BacktrackingProofs` | that it does, for every input |
| `Parser` | the parser; uses the tables of `Automaton` and the operators of `Backtracking` |
| `MCParser`, `MCBacktracking` | instances for TLC |
| `Flow` | narrowing and dead code in a function body |
| `MCFlow` | instances of `Flow` for TLC |

### Vfs

Every operation on the database holds a `&mut` or runs to its end before the
event loop continues, so each is one action.  The disk changes between any two
of them, which is where the interleavings come from.

| Variable | Code |
|---|---|
| `tree` | `Workspace.entries` and `Directory.entries` (`tree.rs`): for each name nothing, a missing entry with the files registered on it, a file, or a directory that was read or not |
| `entry` | the `FileEntry` objects: index, registered files (`Invalidations`), or `InvalidatesDb`.  An entry is identified by its path and a generation, since a file that is removed and created again gets a new `Arc<FileEntry>` while file states may hold the old one; `Collect` frees what nobody refers to |
| `files` | `Vfs.files`: path, entry, code (or not loaded) and the import cache, which stands for the points of the file |
| `inmem` | `Vfs.in_memory_files` |
| `changed` | `GlobalState.changed_in_memory_files` |
| `disk`, `dirs`, `watched`, `queue` | the file system, the watches and the watcher's channel |
| `editor` | the text the editor has sent last; history, read by properties only |
| `panics` | number of recoveries, for the bound |

| Action | Code |
|---|---|
| `Import` | `cache_import_dotted_name` with `python_import_with_needs_exact_case` and `load_init_file_from_entries` |
| `Load`, `LoadEntry`, `ReadDir` | `ensure_file_for_file_index`, `load_file_index_from_workspace`, `Directory::entries` |
| `StoreInMemory`, `Close` | `store_in_memory_file` and `close_in_memory_file` of vfs and database |
| `Notify` (`Unread`, `Irrelevant`, `NothingToDo`, `Replace`) | `on_notify_event` with `search_potential_parent_for_invalidation` and `invalidate_path` |
| `Publish` | `publish_diagnostics_if_necessary` |
| `Recover` | `into_panic_recovery`, `load_panic_recovery` and `Database::from_recovery` |
| `WriteDisk`, `DeleteDisk`, `MakeDir`, `RemoveDir` | the environment; what is reported follows `LocalFS::watch` on Linux, where watches are not recursive |

Invalidation recurses over the registered files and takes each list on the way,
so it visits every file once: `Reach` is the closure it ends with.  When it meets
an entry with `InvalidatesDb` it stops wherever it is (the order of a hash set);
`Settle` and `Replace` choose nondeterministically how far it got, and the
database then drops all caches and regenerates the python state (`Regenerate`).
The recovery keeps file states in the order of their old indexes; a second state
with the same path is dropped, because `FileState::update` ignores it.

On the way to the path of an event the server walks into its directory, and reads
it if nobody did (`Enter`, which `ReadDir` and `Notify` share).  The event then meets
a slot that was filled a moment ago and has neither an index nor importers; replacing
it by the same changes nothing, so that reading is all that `Notify` does there.

Abstractions: one workspace with directories one level deep; code is a model
value and does not determine the imports (any file may try any import, which
includes every program); the points of a file are its import cache; an
invalidation clears all of it, since every import has `Locality::Complex`.
Symbolic links, gitignore files, sub files of notebooks, case insensitive file
systems, several roots and `delete_in_memory_files_directory` (tests only) are
not modelled.  Reading a file that is not readable as UTF-8 is the same as its
absence.

### Properties of Vfs

* `InMemoryAgrees`, `EntryPointsBack`: tree, entries, file states and in-memory
  table agree.  These are the `debug_assert` of `store_in_memory_file` and the
  `assert_eq` of `ensure_file_for_file_index`.
* `EditorWins`: the checker works on the editor's text for open documents.
* `DependentsRegistered`, `TransitiveInvalidation`: whoever cached an import is
  registered with its target, and nothing computed from a file survives a change
  of it or of what it imports.
* `ResolutionFresh`: a cached import is what the lookup would find now.
* `LossAnnounced`: an open document that loses a cached import is announced.
* `BuiltinsLoaded`: the builtins are loaded after every operation.
* `IndexesExist`: no index dangles, in an entry, the list of open documents, an import
  cache or a registration, although a recovery numbers all file states anew.
* `Converged`: with no event pending, the files the checker sees are those of the disk
  and the open documents, with the contents of the disk or the editor.
* `DirsConverged`: the same of directories, including those that were gone and back,
  or there and gone, before their events were handled.  A directory that does not
  exist is in the tree only if a document was put back into it, and then shows
  nothing but open documents; closing the document leaves it there (`vfs.rs:552`).

### Server

The server is one thread.  It waits for a message or an event, handles it, and
before it waits again it reindexes if it is time, publishes the diagnostics that
are due and makes sure that a project is loaded.  `pc` is where it is in this
loop; between two of its steps the client sends and the disk changes.

| Variable | Code |
|---|---|
| `inbox`, `sent`, `editor` | the channel of the connection and the client: what its editor shows.  `sent` numbers the requests |
| `responses`, `shown` | what the client received: responses, and for each document what the last published diagnostics are about |
| `config`, `events`, `diskSteps` | the configuration files on disk and the channel of the project's watcher |
| `project`, `next`, `options` | `GlobalState.project`: not there, being loaded (`find_workspace_config` is about to watch, or to read, file `next`) or loaded; what it uses of the configuration |
| `configPaths` | `paths_that_invalidate_whole_project` |
| `docs`, `recovery` | the in-memory files of the project and those kept in `panic_recovery` |
| `analysed` | the documents whose diagnostics were computed in this project: the others are not registered as dependents of anything |
| `changed`, `toPublish` | `changed_in_memory_files` and the list taken from it |
| `count`, `shutdown` | `sent_diagnostic_count`, `shutdown_requested` |
| `hook`, `panics`, `told` | the thread local hook of `panic_hooks.rs`; history of panics and of what the client was told |

| Action | Code |
|---|---|
| `LoadProject`, `WatchConfig`, `ReadConfig` | `GlobalState::project`: the closure that watches a path, and the loop of `find_mypy_config_file_in_dir` that opens it afterwards.  They are separate steps because a file may change between them |
| `BlockOnSelect` | the `select!` of `event_loop` |
| `OnMessage`, `OnExit` | `on_lsp_message_and_return_on_shutdown` when nothing panics |
| `OnMessagePanics` | the same with `catch_unwind` catching a panic: the error response and `recover_from_panic` |
| `OnNotifyEvent`, `EventsHandled` | `on_notify_events`, `on_notify_event` |
| `Reindex` | the test of `sent_diagnostic_count` |
| `TakeChanged`, `Publish` | `publish_diagnostics_if_necessary` |
| `Crash` | a panic outside of `catch_unwind`, which ends the process |

A panic inside a handler leaves whatever the handler had done: `Survivors` are
the in-memory files that may be found afterwards and `Announced` what the
recovery announces.  The kinds of messages that may panic are the constant
`CanPanic`: the code gives no bound for it, so each run says which panics it
allows.

Abstractions.  The database is what `Vfs` shows of it: open documents, the
dependents that an edit announces (`Dependents`), and the documents a recovery
keeps.  Whether the real invalidation announces the right documents is the
subject of `Vfs`; here it is whether the server does the right thing with what
was announced.  Diagnostics are a function of a document's text, the texts it
imports and the options (`ViewOf`).  Documents exist on disk too, with a text
that differs from those in the editor.  A configuration file is missing, ends
the search (`Conf` without `Partial`), is used without ending it (a
`pyproject.toml` with `[tool.zuban]` only: `Partial`) or does not parse
(`Broken`).  A file that changes on disk may invalidate any of the open
documents (`OnFileEvent`): what is in the files is not modelled here.  The order in which
files are published is left open.  Workspace diagnostics, notebooks, start-up,
events with several paths, and a client that went away while the server sends
are left out.

### Properties of Server

* `DocumentsKept`: whenever the server waits with nothing to receive, the
  project has in memory exactly what is open in the editor, through panics,
  reindexing and changes of the configuration.
* `FollowsEditor`: the server implements `Documents`.  There a document has a
  text that the client's edits change in the order in which they are sent, and
  nothing else exists.  The text `held` in `Documents` is that of the project if
  there is one and that of the recovery otherwise (`Held`), and the queue is the
  inbox with everything but edits blanked out (`Edits`); loading, publishing,
  events, reindexing and recoveries are steps that do not show.
* `DiagnosticsCurrent`: then also, if no event is queued, the diagnostics the
  client has of every open document are about the editor's texts and the
  configuration on disk.
* `AnsweredInOrder`: no request is answered twice or out of order, also when
  the handler panics.
* `ShutdownIsFinal`: no request succeeds after shutdown was answered.
* `PanicsReported`: the client is notified of every panic.  It is not: the hook
  of `panic_hooks.rs:20` is taken out by the first.  No run checks it.
* `RequestsAnswered`, `DiagnosticsSettle` (liveness): every request is answered,
  and the diagnostics become current and stay so.

Fairness is `WF_vars(ServerNext)`: the server's thread keeps running and takes a
step when it can.  Nothing is assumed about the client and the disk.  One
condition for the whole thread suffices because the server has more than one
step to choose from only in `select!`, between messages and events; `RequestsAnswered`
then holds because events are bounded (`MaxDisk`).  The code drains the event
queue before it looks at messages again, so with events that come for ever
faster than they are handled it would not hold.

### Automaton, Language and Parser

`create_grammar!` turns the text of a grammar into rules, `generate_automatons`
the rules into tables, and `Grammar::parse` walks the tables with a stack.  The
model does all of it, so that what is checked is not a parser with tables given
by hand: `Build` is the NFA of a rule, `Reach` the powerset automaton, `PlansFor`
the plans of one state (which token leads through which nodes to which state,
with the conflict of two alternatives turned into a fallback), `Table` the
result.  A state of an automaton is the set of NFA states it stands for, as in
the code.

| Variable | Code |
|---|---|
| `read`, `cur` | the tokens produced so far, the token being applied |
| `buf` | `BacktrackingTokenizer`: recorded tokens, next index, recording or not |
| `stack` | `Stack.stack_nodes`: node, state, number of children, mode (`LL`, `Alternative`, `LastAlternative`), token recording |
| `tree` | `Stack.tree_nodes`: one array in preorder, each node with the offset of its next sibling |
| `phase` | where `parse` is; `panic` stands for the panics of `error_recovery` and of an empty stack |

| Action | Code |
|---|---|
| `FetchKept`, `FetchFresh`, `FetchEnd` | `backtracking_tokenizer.next()` in `parse`: the next token of the text is chosen there, so one run parses every text |
| `Apply` with `FollowPlan`, `PeekOnward`, `CloseNode` | `apply_transition`, `apply_plan`, `end_of_node` |
| `SkipToken`, `Recover` with `TryFallback`, `ReplayFirst`, `GiveUp`, `Panic` | the cases of `error_recovery`, in the order in which it looks for one from the innermost node outwards |

Properties, each stated on the result or on every state, and none on how the
parser gets there:

* `NoPanic`, `Terminates`: every text is parsed to its end, whatever is wrong
  with it.
* `TreeValid`: walking over children and siblings visits every node once, and
  `parent` and `previous_sibling` undo it (the `assert_valid_tree` of the tests).
* `EveryTokenOnce`: the leaves are the tokens consumed, at every moment and
  through every alternative taken back.
* `Spans`: a node spans its leaves.
* `ParsesLanguage`, `IsDerivation`: a text has a tree without errors exactly if
  it is in the language of the grammar, as `Language` defines it without
  automatons, and such a tree is a derivation.
* `CanGoBack`: while an alternative is open, its first token and its place in
  the tree are still there.

Fairness says that the loop of `parse` goes on; the parse is sequential and
nothing else is assumed.

What the model shows beyond the finding: a fallback that is refused by a negative
lookahead when no alternative is open drops the refused token (`1 := 2`, which is
broken code), hence the exception in `EveryTokenOnce`; `!stack.len() != i + 1`
(`grammar.rs:454`) negates bitwise, so that half of the condition always holds;
recording goes on after `GiveUp` until a later alternative ends, which costs
memory only.  Left out: soft keywords, and the order in which hash maps are
walked when two alternatives offer the same token.

### Backtracking

`start`, `stop`, `reset`, `reset_to_last_leaf` and `next` of
`BacktrackingTokenizer`, called in any order that respects what the parser is
given.  `Rewindable` says that it implements `TokenStream`: a stream with a
position and marks to go back to.  The abstract position is found from the end
(`Base` is the number of tokens dropped from the buffer).

### Flow

`flow_analysis.rs` walks the statements of a body once.  Next to what it knows
(`flow`) the model keeps what is true: `envs`, all environments in which an
execution can arrive at the current point.  The program is chosen statement by
statement, so a behaviour is a program together with its analysis, and the state
after it says whether the analysis was right.

| Variable | Code |
|---|---|
| `flow` | `FlowAnalysis`: `frames` (entries by key, with type, `modifies_ancestors`, `deleted`; unreachable or not), `try_frames`, `loop_details` |
| `open` | the calls that are on the stack of the checker: one block for each open statement, with the frames and environments it will be merged with |
| `envs` | Python: what the keys may hold here |
| `gaps` | history: constructs met for which the analysis is known to be wrong |

| Action | Code |
|---|---|
| `AssignStatement`, `DelStatement`, `AssertStatement`, `LeaveStatement` | `save_narrowed`, `delete_name`, `flow_analysis_for_assert`, `return` and `raise` in `handle_stmt_like` |
| `If`, `Else`, `EndIf` | `process_ifs` |
| `Loop`, `LoopElse`, `EndLoop`, `JumpStatement` | `process_loop` for `while` and `for`, `flow_analysis_for_break_stmt`, `..._continue_stmt` |
| `Try`, `Except`, `TryElse`, `EndTry`, `Finally`, `EndFinally` | `flow_analysis_for_try_stmt` |
| `With`, `EndWith` | a context manager that may swallow exceptions |

The frames of a condition are computed by `Guards`, which follows
`find_guards_in_expression_parts_inner` over tests, walrus assignments, `and`,
`or` and `not`; merges are `MergeConditional`, `MergeOr`, `MergeAnd` and
`MergeFramesForIndex`, each with the code's treatment of members.

* `Sound`: no execution that arrives here has a name or member whose class the
  analysis excludes, or that it takes to be deleted.
* `DeadIsDead`: what is called unreachable is not reached.

They hold except for five constructs, which TLC found one after the other.  Each
is an error in the code; a program that meets one ends there, so that the run
says what holds without them (`Forgiven` lets one through):

| Gap | Example | What happens | Code |
|---|---|---|---|
| `try-else` | `try: x = A()` ... `else: pass` | what the try block assigned is lost after the statement | 2617–2635: the else block's frame is kept, the try block's thrown away |
| `guard-in-try` | `try: assert isinstance(x, A); x = A()` `except E: ...` | the handler takes `x` for an `A`, but the assert may have failed | 682–710: the entry found for `x` is the narrowed one inside the try block |
| `narrowed-jump` | `while c: x = B()` then `if isinstance(x, B): break` | the assignment is lost at the jump | 975–985: the innermost entry hides the one that modifies ancestors (run `flow_bug`) |
| `loop-condition` | `x = None`, `while x is None: x = f()` | the code after the loop is called unreachable | 2187–2189: the frame of the condition, computed before the body, is applied after it |
| `stale-member` | `x.a` narrowed outside, `x = A()` and `x.a = b` in a branch | the outer entry of `x.a` comes back | 653–680, 1095–1157, 4900–4924: merges drop the member or unite it past the assignment of `x` |

`guard-in-try`, `narrowed-jump` and `stale-member` are conditions on the frames at
the moment of the step (`GuardInTry`, `NarrowedInLoop`, `StaleMember`), as narrow
as they could be made with `Sound` still true.

Abstractions.  Types are sets of final classes, so that `isinstance` splits them
exactly; a parameter is annotated, so that nothing widens.  A loop body is
executed at most once, as it is analysed once: `process_loop` makes a single pass
and looks for no fixpoint, so what a second round of the body would find at its
start is not compared.  An exception may be raised before
every statement and in every condition.  Jumps out of a try statement with a
finally block are left out (the block is analysed once, for what gets past it;
the code has a TODO there), and so are `Any`, `match`, indexed members, unions
narrowed through a member, and comparisons other than a test of the class.  Two
more suspicions lie outside of what is modelled: the falsey frame of a walrus
whose value can be split by truth lacks `modifies_ancestors`
(`flow_analysis.rs:3931`), and `merge_and` keeps a narrowed member of a name that
the right operand assigns (`TestAssumption` excludes such conditions).

## Runs

| Run | Instance | Shows |
|---|---|---|
| `imports` | three modules, one of them a package in a directory, any of which may import two: chains, cycles, directories that come and go | types, registration, resolution, transitive invalidation, announcements, convergence of files in directories |
| `open_package` | an open `__init__.py` that may import itself, whose directory comes and goes; two events may be pending and the server may panic twice | agreement of tree, entries, file states and in-memory table; the editor's text wins; convergence of directories, also of those that are replaced or hold a document |
| `recover` | one file is a builtin stub, both may be open, one panic at any point | invalidation of the whole database, recovery, indexes after it, convergence with the disk until a panic |
| `server_recover` | two documents, one importing the other, two configuration files, panics | documents and diagnostics survive recoveries and changes of the configuration, also while it is read; `Server` implements `Documents` |
| `server_reindex` | two documents, reindexing after every second diagnostic, file events, under fairness | the same for reindexing; diagnostics settle |
| `server_requests` | every kind of request, every handler may panic, the watcher may fail, shutdown, exit and crashes, under fairness | one response each, in order; shutdown is final; no request is left without a response |
| `backtracking` | up to four tokens of two kinds, every sequence of calls | the tokenizer is a stream with marks |
| `parser` | four grammars cut out of `parsa_python/src/lib.rs`, all texts of up to four tokens | the tables, the parser and error recovery |
| `flow` | one parameter with one attribute and two classes, five conditions, all bodies of up to five statements, nested two deep | narrowing and dead code |

Three runs expect a violation; each is a finding in `PROJECT.json`:

* `open_package_bug`: after the directory of an open document was replaced, its
  importers are not invalidated by edits.
* `star_bug`: `*a.b = c` gets a tree in which two nodes claim the same children,
  on valid code.  (The run has the star in its alphabet; `parser` has not.)
* `flow_bug`: the gap `narrowed-jump` above.

Four more errors of the code were found and are described here only:

* A stub `m.pyi` or a package `m` that appears next to an `m.py` which is already
  imported is not noticed (`imports.rs:421` returns before the name is registered, while
  `load_init_file_from_entries` registers `__init__.pyi`); the layouts of the runs
  have neither next to a source, and the theorem about `ResolutionFresh` assumes it.
* The panic hook is taken out by the first panic (`panic_hooks.rs:20`), so only
  that one is shown to the client.
* An error of the watcher drops the project without a recovery
  (`server.rs:558`): the open documents are lost, hence `WatchErrors` is false
  where `DocumentsKept` is checked.
* A recovery and a reindex in the same iteration of the loop (`server.rs:264`)
  forget what was announced, hence `server_recover` has a count that is never
  reached, and `server_reindex` has no other recovery.

Five more limits of the code show as counterexamples when a bound of a run is
changed; they explain bounds that would look arbitrary otherwise:

* `MaxQueue = 2` and `MaxGen = 3` in `imports`: a directory replaced by another
  between two events keeps the old contents, against `Converged`.
* `Converged` in `recover`: changes on disk just before a panic are lost with
  the old watcher's events (so `Converged` speaks of states before a panic).
* `MaxPanic = 1` in `open_package_bug`, where a second file imports the open
  document: an orphaned state that is loaded again replaces the editor's text in a
  recovery, against `EditorWins`.  In `open_package` only the document itself
  could hold on to it, hence its two panics are harmless.
* `MaxPanic = 1` in `open_package_bug` with `Editable = {a}`: a file loaded inside
  a directory that is gone by the time of a recovery keeps the directory in the
  tree (so what `DirsConverged` says of directories that are gone speaks of states
  before a panic).
* `CanPanic = {"change"}` in `server_recover`: a panic while an edit is stored
  loses the edit or the document, against `FollowsEditor` and `DocumentsKept`.
  The message `panic` stands for a handler that panics without having changed
  anything, as the server's own test does.

Bounds.  `MaxFile` (2 or 3) limits the file states ever created: three allow a
path to be forgotten and to get a second index while another file refers to the
first.  `MaxGen` (2 or 3) limits the entries of one path alive at a time; a
state, the tree and a replacement can hold three different ones.  `MaxQueue`
limits the pending events; the disk blocks while the channel is full.  One event
leaves every operation between a change and its event.  With two, changes that
undo each other before they are handled come into reach; that breaks `Converged`
below directories as described above, so `imports` and `recover` have one.
`open_package` has two: there a directory with an open document is gone and back, or
back and gone, before the server looks, which neither the links nor `DirsConverged`
may mind.  (For a workspace without
directories the theorem `RootsConverge` has no such bound.)  `MaxPanic` is 0, 1 or,
in `open_package`, 2.  Two contents
per file are enough to tell stale from fresh; `imports` has one, because there a
file that is deleted and comes back is the change that counts.

For `Server`, `MaxMessage` limits the messages of the client (3 to 5) and
`MaxDisk` the events (1 or 2).  Three messages are an open, something that
recovers and an edit after it; five leave room for edits before and after a
reindex.  Two events let the configuration change again while the project is
loaded because of the first change.  `ReindexAfter` is the constant 1000 of the
code, at 1 or 2 where it is to be reached and 9 where it is not.

For the parser four tokens are enough to go into two alternatives, fail in the
second and recover: the mutants of every property die on texts of that length.
The grammars keep the shape of the original rules (assignments against
expressions, starred targets, slices, parentheses against tuples and
comprehensions) and drop what only adds more of the same.  For `Flow` five
statements are a block within a block with an assignment before, in and after
them; clauses count as statements.  The run analyses dead code as the language
server does, which includes the bodies where there is none.  Three deep without
the language server was checked as well (6.7 million states) and takes longer
than a run should.

Deadlock is not checked: with the bound on file states reached, and nothing to
announce or to change, the model may stop where the server would wait,
`Server` stops when the client has nothing more to send or the server ended, a
parse ends, and so does a body in `Flow`; `backtracking` never stops.
`Vfs` has no fairness and no liveness property; its properties are about what
each operation leaves behind, and progress belongs to the event loop.

## Proofs

The proofs about `Vfs` are five modules, on each other's invariants
(`VfsResolutionProofs` and `VfsDiskProofs` do not need one another).  They hold for
every layout of modules, stubs and packages, every graph of imports, and every number of files, entries, contents, pending events and panics,
unless the table names an assumption.

| Theorem | States | Assumes |
|---|---|---|
| `VfsProofs!Types` | `[]TypeOK` | |
| `VfsProofs!EditorAlwaysWins` | `[]EditorWins` | `MaxPanic = 0` |
| `VfsLinkProofs!BuiltinsStayLoaded` | `[]BuiltinsLoaded` | |
| `VfsLinkProofs!RootDocumentsAgree` | `[]InMemoryAgrees` | documents in the root |
| `VfsLinkProofs!RootEntriesPointBack` | `[]EntryPointsBack` | documents in the root |
| `VfsInvalidationProofs!DocumentsAgree` | `[]InMemoryAgrees` | `[]BuiltinsImportNothing` |
| `VfsInvalidationProofs!EntriesLeadBack` | `[]EntryPointsBack` | `[]BuiltinsImportNothing` |
| `VfsInvalidationProofs!RootDependentsRegistered` | `[]DependentsRegistered` | documents in the root |
| `VfsInvalidationProofs!RootInvalidationTransitive` | `TransitiveInvalidation` | documents in the root |
| `VfsInvalidationProofs!IndexesStayValid` | `[]IndexesExist` | |
| `VfsInvalidationProofs!LossesAnnounced` | `LossAnnounced` | |
| `VfsResolutionProofs!ResolutionStaysFresh` | `[]ResolutionFresh` | `Unshadowed` |
| `VfsDiskProofs!RootFilesCurrent` | `[](panics = 0 => RootsCurrent)` | |
| `VfsDiskProofs!RootsConverge` | `[]Converged` | files in the root |
| `VfsDiskProofs!DirectoriesSeen` | no directory on disk is missed | |
| `VfsDiskProofs!DirectoriesConverge` | `[]DirsConverged` | `[]BuiltinsImportNothing` |
| `VfsDiskProofs!RootDirsExact` | until a panic, with no event pending, the directories of the tree are those of the disk | documents in the root |

No assumption is there to make a proof easier; each is where the code stops
keeping the property:

* *Documents in the root* (`RootDocuments`: `\A p \in Editable : Holder[p] = Root`): the directory of
  an open document may be replaced, and then the document's file state keeps the
  entry from before while importers register with the new one.  That is
  `open_package_bug`, against `DependentsRegistered` and `TransitiveInvalidation`.
  Directories, packages and imports of what is in them are not restricted.
* `BuiltinsImportNothing`, for documents anywhere: an open document that the
  builtins import takes the whole database with it when its directory goes away,
  and `invalidate_path` then returns before it has put the document back
  (`vfs.rs:736`), against `InMemoryAgrees` and `DirsConverged`.  It is a hypothesis about the run, in
  which any file may import anything; the stubs of typeshed find what they import
  in typeshed.
* `Unshadowed` (`VfsResolutionProofs`): documents in the root, and each module is a
  package, a stub or a source, only one of them.  A lookup that finds `m.py`
  registers neither `m.pyi` nor the directory `m` (`imports.rs:421`), so that one of
  them that appears later is not noticed; and an open document
  below a replaced directory invalidates through its entry from before, where later
  importers are not registered.  TLC finds a counterexample to
  `ResolutionFresh` in the layout of `imports` with a stub next to the source, with a
  source next to the package, and with `__init__.py` open.  A package may have both
  `__init__.pyi` and `__init__.py` (they are registered); that it has a name for one
  of them, in its directory, is how `Init*` are read off the layout.
* `MaxPanic = 0`, `panics = 0`: the counterexamples in "Runs" have one panic.
* *Files in the root* (`\A p \in Path : Holder[p] = Root`): a directory
  that is replaced by another one between two events keeps its old contents, the
  first counterexample in "Runs".  For any layout `RootFilesCurrent` says the same of
  the files in the root.

The inductive invariants:

* `IInv` (`VfsProofs`): `TypeOK`, `GoodTree` (a file slot has a generation),
  `GoodFiles` (an entry in use has an index that exists and a file state
  of its own path; that is what makes an edit of one document leave the text of
  another alone), `BuiltinsKnown` (the builtins stay in the tree and on disk) and
  `OpenHasState` (every open document has a file state of its own path).
  `EditorWins` is not inductive by itself: an edit of `p` finds the index through
  the tree, and without `GoodFiles` this index could be that of another document.
* `LinkInv(A)` (`VfsLinkProofs`): a file state is the one its entry leads to
  (`PointsBack`), an entry leads to the state that holds it (`Exact`), documents are
  in the tree at their index (`Agrees`), what is freed has no index (`Freed`), only
  directories are read (`Listed`), the entries of the builtins drop the database
  (`Marked`) and the builtins are loaded (`Loaded`).  The first four only support
  each other: a new entry must not have an old index, or the state found through it
  is that of another generation.  They are stated for files that are `Steady` (in
  the root, or never open) and for the documents `A` that a directory which goes
  away puts back; `StepLinks` needs `A = {}` as soon as such a directory reaches an
  entry with `InvalidatesDb`.
* `DepInv` (`VfsInvalidationProofs`): every registered importer is a file state
  (`Registered`), and every cached import is registered with its target (`Noted`).
  `Reach`, the closure that the recursive invalidation computes, is then closed
  under "is imported by" (`ReachClosed`), so a file state outside of it keeps its
  code and everything it has resolved (`Moved`).  `StepForm` brings every action
  into one of three forms, an invalidation, something that only adds, or a
  recovery, and both action properties follow from the form.
* `ApartInv` (`VfsInvalidationProofs`): the builtins are registered nowhere and only
  their entries drop the database, hence nothing but a change of theirs does
  (`AloneReach`), and `LinkInv(Path)` holds.
* `FreshInv` (`VfsResolutionProofs`): whatever a file has cached is what the lookup
  finds (`Found`), and for every name this lookup looks at (`Looked`) a change would
  be told to the importer (`Guards`): a directory was read, a file is the cached one,
  and with a missing name the importer is registered.  `ResolutionFresh` alone is not
  inductive, because a change at a name that nobody is registered for would break it.
  A step either leaves all that an importer looked at as it was (`Stays`), or tells
  whoever is registered there (`Touches`, a part of the form of every invalidation),
  and then the importer is reached and its cache emptied (`UnreachedStays`).  A
  directory that goes needs an argument of its own: nobody is registered with a
  directory that exists, but whoever looked into it is with its `__init__`.
* `RootsCurrent`, `DirsSeen`, `DirsLeft` (`VfsDiskProofs`): what no event is pending
  for is as on disk.  A change on disk makes its path pending, and the event's
  handler makes current what it is about: when it does nothing, because it
  was current already (`NothingCurrent`), and when it replaces the entry
  (`ReplaceCurrent`), because the new one has no file state yet (`Freed`).
  `Converged` alone is not inductive: it says nothing while an event is pending.
  A directory that is gone and whose event was handled shows nothing but open
  documents (`LeftFor`): nothing on disk is below it (`Bare`), so that what is read
  there is empty, and only the editor puts a file there.

There is one lemma for each action, and lemmas for the operators they share
(`Reach`, `Forget`, `Unload`, `Taken`, `AddInv`, `Listing`, `Collect`, `Regenerate`,
`Settle`).

`ServerProofs` proves, for any number of documents, texts, configuration files,
messages and events and every count for reindexing:

* `ServerTypes`: `Spec => []TypeOK`.
* `AnswersInOrder`, `ShutdownStays`: `Spec => []AnsweredInOrder` and
  `Spec => []ShutdownIsFinal`, without further assumptions.
* `OpenDocumentsKept`, `ServerFollowsEditor`: `Spec => []DocumentsKept` and
  `Spec => FollowsEditor` if no handler of a document message panics and the
  watcher reports no error (`Quiet`).  Neither can be dropped: the
  last counterexample above and the error of the watcher say why.
* `DiagnosticsStayCurrent` (in `ServerDiagnosticsProofs`):
  `Spec /\ []OneRecovery => []DiagnosticsCurrent` under `Quiet`.  `OneRecovery` says
  that a project is loaded whenever the server is about to reindex.  It is a
  hypothesis about the run because the code does not keep it: a panic or a change of
  the configuration may drop the project in the iteration in which the count is
  exceeded, and the second recovery then clears what the first one announced
  (`server.rs:264`; with `ReindexAfter = 1` and the configuration files of
  `server_recover` TLC finds the open document that nothing is published for).  It is
  true in all states of `server_recover` and `server_reindex`.

The first two need `RequestInv`: requests in the inbox have numbers above those
of all responses and in order (`Numbered`), and whoever answered shutdown
remembers it (`Remembered`).  The next two need `DocInv`, which says of every
document that the messages about it in the inbox form a chain from the text the
server holds to the text in the editor (`Chain`), that a change or a close only
ever arrives at an open document, and that a project is loaded when the server
waits.  `Chain` speaks about neighbouring messages instead of replaying the
inbox, so that no induction over its length is needed; the lemmas `ChainAppend`,
`ChainTake`, `ChainOther` and `ChainSkip` are its rules for sending and receiving.

The last one needs both of these next to `DocInv`:

* `ConfigInv`: while the configuration is searched, every file looked at so far is
  watched, and what was read of it is current or an event about it is queued
  (`Searching`); once the project is loaded, its options are those of the files on
  disk and all files the search reached are watched (`UpToDate`), or an event that
  will drop it is queued.  A file behind the one that ended the search may change
  without an event (`Unreached`); one before it may not, which is why a path is
  watched before it is opened (`WatchConfig`).
* `ViewInv`: every open document of the project is due to be published, or its
  diagnostics were computed in this project and are about its texts and options;
  between two projects every document of the recovery is due; and nothing is due
  when the server waits.  "Computed in this project" (`analysed`) is part of it,
  because only such a document is announced when one it imports changes
  (`TextChanges`).

`BacktrackingProofs` proves, for every set of tokens and every length of the
input, `TokenizerIsStream`: `Spec => Rewindable`, and the invariant it rests on,
`BufferInvariant`: the buffer is the tail of what was read (`BufferIsTail`), every
mark lies in it and it records while there is one (`MarksKept`), and the token in
hand is the one before the position (`InHand`).  Without `MarksKept` a reset could
go behind a buffer that was dropped, and the abstract position would be wrong.
Every step of the tokenizer is then the step of the stream of the same name, or a
stutter (`StepRefines`).

The proofs use `LayoutAssumption` and `BoundAssumption` of `Vfs` and
`ServerAssumption` of `Server`, which TLC evaluates in every run.  Everything
else is model-checked only.  Liveness (`DiagnosticsSettle`, `RequestsAnswered`,
`Terminates`) is out of the prover's reach.  `Automaton`, `Language`, `Parser` and
`Flow` compute with RECURSIVE operators over grammars, trees and conditions, about
which nothing can be proved with the backends used; they are checked on all inputs
within the bounds.

## Not modelled

* **Types, type computation, inference, matching.**  Recursive evaluation over the
  type language with memoization in the points of a file.  What outlives an
  operation is in `Vfs` (the import cache) or `Flow` (the frames); the rest is a
  large pure function for which the only reference is the typing specification.
* **Completion, goto, rename, request handlers.**  Queries without state of their
  own; what they load is `Load` and `ReadDir` of `Vfs`.
* **Tokenizer.**  The tokens are the alphabet of `Parser`; how characters become
  tokens, and indentation and f-strings in particular, is not modelled.
* **Syntax tree accessors.**  Those of `parsa/src/lib.rs` are in `Parser`; the
  typed ones of `parsa_python_cst` select among children.
* **Notebooks.**  Cells as sub files of a document.
* **Name binder.**  Points and links between names; `Flow` starts from names that
  are bound.
* **Paths, globs, command lines, licensing, logging, benchmarks.**  Without state.

## Plan

1. `Vfs`, `Server`, the parser with its tokenizer and `Flow` (done).
2. Notebooks: cells as sub files, the order of cells, opening and closing.
3. The tokenizer's stack of indentations and brackets.
4. `match` statements and members of unions in `Flow`.
