# A verification project for the HTTP server and its pages

The repository is a C++ code base around the `gd` library, with JavaScript for its
pages. Its largest program of its own logic is the HTTP server in
`src/target/server/http`: a pool of worker threads that accept connections, route
commands such as `!db/open/query?...` or pages to handlers, run Lua scripts, keep a
table of connected users and talk to a database. Its pages, in
`src/target/WEB/admin/http` and `src/misc/html`, keep tables, forms, tabs and movable
plates in the browser. This directory holds TLA+ models of both, the TLC runs that
check them, and proofs, for every value of the constants, of the safety properties that the
runs check on small instances. Paths of C++ files are relative to
`src/target/server/http` unless they begin with `src/`.

## 1. The system

| Part | State | Operations | Works with |
|---|---|---|---|
| Server, listener, connections (`Server.cpp`) | acceptor, one `session` object per connection with request, buffer and `m_argument`, the `io_context` | `do_accept`/`on_accept`, `do_read`/`on_read`, `send_response`/`on_write`, `do_close`, `stop`, `handle_request`, `RouteCommand`, `RenderPage` | every other part, from the handlers of the `io_context` |
| Application (`Application.cpp`) | documents, databases, options, sites, the server object, the Lua pool | `SERVER_Start/Stop`, `LUA_Initialize`, `DOCUMENT_*`, `DATABASE_*` | starts the workers, owns what they share |
| Router (`Router.cpp`) and handlers (`api/*.cpp`) | path, positions, context with result objects, the response | `Run`, `RunXml`, `ExecuteCommand_`, `Execute` of system, database, sql and view | called by `RouteCommand`, one per request |
| Lua state pool (`lua/LUAStatePool.*`) | vector of interpreters, in-use flags, id counter, one mutex, one condition variable | `Add`, `Acquire`, `release`, `Erase`, `Reset` | the scripting functions |
| Lua execution (`api/API_Scripting.cpp`) | the globals bound in a state | `LuaRequestExecute`, `LuaSSRExecute` | pool, router, HTML rendering |
| Session table (`Session.*`) | rows of uuid and time, one mutex | `Add`, `AddLast`, `Delete`, `Update`, `Purge`, `Find` | the `sys/session` commands, through the document |
| Document (`Document.*`) | table cache, error list, database connection, session table, query store | `CACHE_*`, `ERROR_*`, `SetDatabase`, `SESSION_*` | router handlers, Lua |
| Query store (`meta/METAQueries.*`), metadata (`meta/METADatabase.*`) | tables of statements, tables and fields | `Add`, `Delete`, look-ups | database handler, SQL rendering |
| Rendering (`render/*`, `convert/*`), Lua bindings (`lua/LUAObjects.*`) | none that is shared | text conversion, wrappers | handlers, scripts |
| `gd` library (`src/external/gd`) | per object | containers, parsers | everything |
| `CTableData` (`src/misc/html/js/old-table.js`) | rows with keys, columns, the index of shown columns, next key, history | `ROW*`, `COLUMN*`, `CELL*`, `Read*`, `GetData`, `CountValue`, `HISTORY*` | user interface tables that hold keys and positions |
| `Table` (`js/classes/gd_data_table.js`) | columns and rows of cells | `Add`, `Delete`, `SetCellValue`, `FindAll`, `Clone`, `GetData` | the endpoint page |
| Endpoint page (`HttpCallEndpoints.html`) | the document with its tables and modified flag, the list on the page, local storage | clicks on keep, delete, filter, load and save; `PAGE_OnIdle` once a second | table, tabs, draggables |
| `Form` (`js/classes/gd_data_form.js`) | fields, values, original values, flags and errors of the fields | `SetValue(s)`, `Clear`, `Reset`, `AcceptChanges`, `AddField`, `RemoveField`, `Validate` | pages that send what was modified |
| `UITabControl` (`js/classes/gd_ui_tabs.js`) | tabs, active index, labels of the buttons | `AddTab`, `RemoveTab`, `SetActiveTab`, clicks, `Destroy` | the endpoint page |
| `UIDraggable` (`js/classes/gd_ui_draggable.js`) | position, grip, stacking order, saved styles | pointer events of the document, `SetPosition`, `Enable`, `UpdateOptions`, `Destroy` | the plates of a page |
| FileCleaner, Backup, socket server, samples (`src/target/TOOLS`, ...) | separate programs | command line | the `gd` library |

`SERVER_Start` runs one `io_context` in `system-threadcount` threads. Each handler
runs to its end in one thread, so two requests are served at the same time when two
threads have one each, and meet in what the application and the active document
own: the Lua pool, the session table, the cache, the database connection, the query
store. The router and its context belong to one request.

A page runs in one browser thread, event by event; nothing interleaves within a call, but
the events come in any order, the timer runs between them, and what a user interface
keeps (a key, an index in an attribute, a position) is used many events later. Local
storage outlives the page.

What is hard to get right here, and what the properties are about:

- **Locks that cover part of the accesses.** `borrow::release` clears a flag, and
  `CSessions::Delete` and `Purge` clear rows, without the lock their counterparts take.
- **Something kept over an unlock.** `Erase` keeps a reference over its wait,
  `Delete` and `Purge` keep a row number, `CACHE_Get` returns a pointer.
- **A condition variable nobody notifies** when a state is released.
- **State that outlives its request**: the globals of a pooled interpreter.
- **Positions moved by three parties**: router, outer loop and inner loop of a handler.
- **Errors that are assigned and dropped** in the router, in the inner loops, in the
  constructor of the listener.
- **Stopping** from inside a handler while other threads are in handlers.
- **Keys, positions and places** in the tables of the pages: three numberings of rows and
  columns that agree until a row is removed or a column hidden.
- **The same fact in two places** on a page: flag and values, flag and message, active index
  and panel, index in the list and row in the table.
- **Events that never come**: a release outside the window, a save before a reload.

`PROJECT.json` lists each hazard at its line with the properties that cover it.

What makes the parts correct:

- *pool*: a state has one borrower; no borrow token dangles; flags and tokens agree;
  ids are never used twice; a thread that waits gets a state when there is one for
  every worker.
- *execution*: a script sees its own request; what a request bound is cleared at its end.
- *session table*: a used row is not given away; a free row answers to no uuid; a delete and
  a purge clear the session they found.
- *router*: result objects have one owner and none is lost; nothing runs after a
  failed database command; a request is answered, and truly.
- *server*: one operation per connection; nothing after the shutdown; a stop ends the
  server, and nothing else does; a start that failed says so.
- *CTableData*: a key names one row and does not come back for another; rows are as wide as the
  columns; what is shown, counted and edited is the same cell; an undo restores what it saved.
- *endpoint page*: a click acts on the command it shows; what is not saved is marked; save saves.
- *form*: what is sent as modified is what differs; a flag for an error has its message.
- *tabs, draggables*: one panel on display, and the one the buttons say; a drag keeps its grip
  and leaves no styles behind; the position that is told is the one shown.
- *document* (planned): no table is used after it was destroyed; one connection is
  referenced once.

## 2. The modules

| Module | Models | State and actions in the code |
|---|---|---|
| `ExclusivePool` | what a pool of exclusive resources promises | abstract: `Create`, `Take`, `Give`, `Retire` |
| `LuaStatePool` | `LUA::LuaStatePool` | the variables have the names of the members; `pc`, `stringName`, `uId` are where a thread is in `Acquire` or `Erase` and its argument |
| `LuaRequest` | `LuaRequestExecute`, `LuaSSRExecute` over the pool | EXTENDS `LuaStatePool` and composes its actions with the phase of an execution and the globals of each state |
| `Sessions` | `CSessions` | columns `id` and `time`, the mutex, one row access per step |
| `Router` | `CRouter::Run`, `RunXml`, `ExecuteCommand_`, the `Execute` loops, `CDTOResponse::AddTransfer`, `RouteCommand`'s answer | one request, loop turn by loop turn |
| `Server` | listener, connections, `io_context`, `SERVER_Start`, `SERVER_Stop` | one action per handler or per part of a handler that others can see |
| `TableData` | `CTableData` | the variables have the names of the members; one action per method that changes them, operators for those that read |
| `DataTable` | `Table` | no variables: a table is a record and a method an operator |
| `Endpoints` | the endpoint page's script | EXTENDS `DataTable`; one action per event |
| `Tabs` | `UITabControl` | one action per method or click |
| `EndpointPage` | `PAGE_Initialize` | `Endpoints` beside an instance of `Tabs` |
| `Form` | `Form` | one action per method; the rules of a field are a constant |
| `Draggable` | `UIDraggable`, several on one page | one action per event or method |
| `MCLuaStatePool`, `MCSessions`, `MCTableData`, `MCDraggable`, `MCForm` | | symmetry sets; for `MCDraggable` the bounds as well; for `MCForm` the fields and their rules |
| `LuaRequestProofs` | | theorems and proofs about `LuaStatePool`, `LuaRequest` and the refinement of `ExclusivePool` |
| `SessionsProofs`, `RouterProofs`, `ServerProofs`, `TableDataProofs`, `FormProofs`, `DraggableProofs` | | theorems and proofs about the module they are named for |
| `EndpointPageProofs` | | theorems and proofs about `DataTable`, `Endpoints`, `Tabs` and the page they make up |

The definitions keep the names of the source. An operator whose name ends in an
underscore and a word (`Release_KeepsFlag`) and whose comment begins "Mutation of" is
a plausible bug of the operator named before the underscore; it is not part of the
specification and is there to show that a property can be broken.

### LuaStatePool

One action is one critical section of `m_mutexPool` or one access made without it.
`Acquire` has two sections: the scan (`AcquireTake` claims the first idle match,
`AcquireMiss` finds none) and the wait (`AcquireRetry`, `AcquireSleep`), with the mutex
dropped between them, which is where another thread may take the state just seen.
`Erase` is a loop whose turns end in a return or in the wait. `Release` takes no lock.
Inside a section a flag can be cleared by a release but set by nobody, so a scan that
releases overtake ends as if they had come after it; that is why sections are atomic.
`SpuriousWake` is the condition variable's right to wake anybody. `Erase`'s predicate
reads a record that may have been destroyed: then both answers are possible.

### LuaRequest

`ServeInit` is the pool as `LUA_Initialize` leaves it, with `core` states, before any
worker runs. `app`, `doc` and `request` are always bound and cleared together and are
one binding; `view` is bound by pages only. A binding that survives the request is
`Gone`. A script ends or throws; a throw skips the scripts that are left. A callback that fails
returns at once, and its worker is then "failed": it gives the state back without the reset.

### Sessions

A row is free when its time is null. `Add`, by first free row or, in `AddLast`, by last,
looks, claims and writes its two cells under the mutex, row access by row access;
`Delete` finds and clears without the mutex. The null bits of a row are one word: clearing
a row stores it, setting a cell reads, modifies and writes it, so a clear beside a set may
be lost (second disjunct of `ClearRow`). `Update` and `Purge` have no caller in the
repository. `Update` runs in a caller that holds the mutex, as its comment asks, and writes the
time of any row; `Purge` takes no mutex and asks for none. A uuid is compared as a whole.

A row can be left half written in two ways. A uuid without a time is only what a running `Add`
has just written (`OnlyAddsAreHalf`). A time without a uuid stays, with no `Add` running: it is
left by a clear between the two writes of an `Add`, which answers with success all the same, and by an
`Update` of a free row. Such a row counts as in use and answers to nobody.

### Router

The segments of a path are those the loops tell apart: `session` stands also for `file`,
`client` and `application`, `sql` also for `view`, and the empty segment is what `//`
leaves. A command is a choice of outcome: it fails, or succeeds with or without a result
object. Positions count from 1. A document of commands is the body of `!xml`; `xml` as a
segment within a longer chain is left out. `AddTransfer` releases every pointer of the
context and adds a row for each, 0 standing for a pointer that was released before. The abort flag is set by
the Lua code of a statement.

### Server

An operation is started by a handler, is `pending` until the system completes it, and is
then in the queue `ready`, from which any thread takes the first handler. A strand would
keep two handlers of one object apart; `OneOperation` shows there never are two, so it is
not modelled. `stop` is two steps, because another thread may run the aborted accept
before the context is stopped. `run()` returns when the context was stopped or has nothing
left to wait for. A timeout is an operation that ends with an error. `reported` is what
`fail_g` has printed for the acceptor; the four calls of the listener's constructor that may
fail are one, "listen". What `handle_request` answers is left out but for the request that
stops the server, and so are the arguments a connection collects.

### TableData

A row is a sequence whose first element is its key, as in the code; an index of the code is
one less than that of the sequence. `_row`, `_index` and `_index2` are the three look-ups, and
each method of the model uses the ones the code uses, also where they do not fit: `ReadEntry`
passes a row's position as its key, `CountValue` looks a position up as a key, `HistoryEntry`
takes `_index` where the cell is at `_index2`. `Splice` is the array method with its negative start,
which is what `ROWRemove` meets for a key that is gone. A hole is `Undefined`, `Null` is the value
without a `toString`: with it in the sorted column `GetData` throws, and the properties of
`GetData` say nothing. `_sort` is the row order that respects `Precedes`, the comparison and, for equal
rows, the place: `Array.sort` is stable, so there is one such order. The part of `ROWAppend` for a table with a footer is in the model, but
the runs have none, as the tables in the repository. Left out: validation, dirty rows, XML,
array cells, conversions and triggers.

### DataTable, Endpoints, Tabs, EndpointPage

`GetData` sorts by a value or by an index, either way round. Two missing cells are compared as the
code does, in ascending order each as the smaller one, which leaves their order open
(`gd_data_table.js:237` tests `bIsString` where the second cell is meant); an index is compared as a
number and not as a text, which differs from the eleventh row on. No property depends on either. The
columns alias and tags stand for all six. An element of the list is what it shows and the
index in its attribute. Words are numbers. `Saved` is what `Save` leaves in local storage when the
method it calls on a table with rows does not exist: nothing new. So a copy with rows never
comes to be, and `Loaded` only ever loads an empty one; `ReloadLosesNothing` holds because
the flag stays set. `Reload` is a reload or a crash of the browser. `SetActiveTab` takes the tabs and
the panels on display as `RemoveTab` leaves them, as the code removes a panel before it
activates another tab.

### Form

`modified` and `error` are the fields with the flags 2 and 1 of `iState`. A message is the name of the
rule that was broken; that of a custom rule is the string the rule answers, which may be empty
(`Silent`), with the flag set all the same. `Breaks` says of a field
and all values whether a rule is broken, as a custom rule gets all values; the order of the
rules is the code's. `untracked` is a ghost: the fields last written by a call that leaves the flag
alone (`Clear`, and `SetValue` with `bMarkModified` false).

### Draggable

One axis stands for both. A draggable listens to its handle for presses and to the document for
moves and releases, so `_on_pointer_move` moves all that are being dragged; a release that is
never delivered is one that does not happen. The coordinate 0 is no coordinate in
`clientX || touches?.[0]?.clientX`, and gives `NaN`, which no style takes. `grabbed` is a ghost: pointer
and offset of the last press. `oOriginal` is what `Destroy` puts back, the left that was saved and
not the transform.

A position is the offset that the styles of a plate give it from its place in the layout, and not a
place on the screen. A press makes the plate `position: relative`, with the cursor, the opacity and
the transition of `oDraggingStyles`; `relative` is the set of plates that have these styles. What the
layout then does to the place of this plate and of others is not modelled but left open: each
move may find any of `Boxes` as the bounds of each plate, which the code measures anew at
each move. So `GripHolds` is about offsets and holds whatever the layout does; where a plate is
seen beside another one is not claimed.

## 3. The runs

| Run | Bounds | What it shows |
|---|---|---|
| `lua_pool` | 3 threads, 2 names, 3 ids | exclusion, liveness of borrowed records, agreement of flags and tokens, the inductive invariant (with the types and the order of ids), and that the class implements `ExclusivePool` |
| `lua_request` | 2 workers, 1 or 2 states, 2 scripts | with callbacks that succeed or fail, scripts see their own request, only a failed callback leaves its objects in a state, and with a state for every worker nobody sleeps and every execution returns |
| `lua_wait` | 2 workers, 1 state, 1 script | **violated**: a worker sleeps for good beside an idle state |
| `sessions` | 3 threads, 2 uuids, 2 rows, 3 clock values | rows in use are never given away, only a running add has a uuid without a time in its row |
| `sessions_clear` | 2 threads, 2 uuids, 1 row, 2 clock values | **violated**: a purge clears a session that was refreshed after it looked |
| `router` | 5 segments | result objects have one owner, none is lost, a failed database command is the last, every request is answered |
| `server` | 3 threads, 2 connections | one operation per connection, nothing after a shutdown, the server ends only when told to or when it cannot accept, a stop ends it, every request is answered |
| `table_data` | 2 rows, 2 columns, 3 keys, 1 value | keys name rows, rows fit the columns, `GetData` is the sorted body, shown, counted and edited cells are the same, objects get rows of their own |
| `table_undo` | the same | **violated**: push, edit and pop restore the neighbour of the cell |
| `endpoints` | 3 rows, 2 aliases, 1 tag, 3 tabs | the list names its rows, an unmarked reload loses nothing, a modification comes to be marked, `GetData` keeps rows and indexes together, one panel is shown and stays |
| `form` | 2 fields, 3 values | modified values are those that differ, no message outlives its flag, only an empty answer of a custom rule leaves a flag without one |
| `drag` | 2 plates, 3 handles, 3 coordinates, 2 boxes, 2 presses | a drag keeps its grip, the dragged plate is on top, its styles go with the drag, a plate is where its position says |

Why the bounds are enough. In `LuaStatePool` three threads are a borrower, one that waits
for the state and one that erases it; three ids let a state be erased and the vector shift
with a state on each side; two names let a scan pass a state it does not want. `MaxId`
bounds the counter, which has 64 bits. In `LuaRequest` two workers with one state each, or one for
both, meet in every way in which a state changes hands; the safety properties are proved for any
number of workers. In `Sessions` two rows and two uuids are what a
look-up needs to pass one row, and what a second session needs to take the first one's;
three threads are an add, a delete and one that interferes; three clock values separate
before, at and after a threshold. In `Router` five segments hold a group, its command, an
unknown segment and a second handler with a command; the loops look at one segment, and
`meta` at one more. In `Server` two connections and three threads put one thread in the
listener, one in a request that stops the server and one in another request; a
connection object is free for a new connection once no operation refers to it, so the
number of connections in a run is not bounded, only how many exist at once.
In `TableData` two rows and two columns give each look-up something to pass; a key beyond the
rows that fit lets a key outlive its row; `Undefined`, `Null` and one value make three that
sort apart. In `Endpoints` three rows put one in front of and one behind the row that is
deleted, and so do three tabs. In `Form` one field's rule looks at the other's value. In
`Draggable` the coordinates are the edge of the window, a place inside and the far bound, with
a grid wider than a step; two presses are what a second plate needs to come before the first.

Symmetry (threads, names, uuids, column names, plates, handles) is used only in `lua_pool`,
`sessions`, `table_data` and `drag`, which check no liveness. `ImplementsExclusivePool` and the action
properties there are safety properties, and the sets are symmetric in them. Deadlock is
checked except in `Router`, where a request ends, in `Server`, where the program does, and in
`Draggable`, where every draggable may be destroyed.

Fairness. `LuaRequest` and `Server` assume weak fairness of each worker's own steps: the
operating system runs a thread that can run, scripts and requests end. Weak is enough, as no
step of a worker is disabled by others for ever: handlers are taken in order of
completion, and with enough states a state is idle. No fairness is assumed of spurious
wakeups. `Server` also assumes that a write completes, if
only by the 60 seconds set in `do_read`, and nothing of clients: they need not connect or
send. `Router` is one sequential request, with weak fairness of its next step.
`Endpoints` assumes weak fairness of `PAGE_OnIdle` alone, which `setInterval` calls every second; no user
has to click.

That requests end is an assumption of `Server`; `lua_request` shows it kept by the Lua pool when
there is a state for every worker, and `lua_wait` that it is not when there are fewer.

## 4. What the runs found

Three runs check a statement of a comment that the code does not keep; `PROJECT.json` quotes
each under "findings".

1. A `release` notifies nobody (`lua/LUAStatePool.h:202`): with fewer states than workers, one that
   waits in `Acquire` is not woken when its state comes back, though the comment says it blocks "until one
   becomes available".
2. `CSessions::Purge` (`Session.cpp:204`) and `CSessions::Delete` (`Session.cpp:161`) may clear another
   session than the one they found. The run's counterexample is the one of `Purge`; with `MaxTime = 1`,
   where nothing expires, it is the one of `Delete`.
3. `CTableData.HISTORYPush` saves the element in front of the cell (`src/misc/html/js/old-table.js:1594`).

Seen while modelling. These are behaviours of the models as well, but no run is about them:

- A callback that fails skips `reset` (`api/API_Scripting.cpp:62` and `:123`), while the comment at `:29`
  says that "any callback or script error" resets; the state is idle with the objects of a request that
  has ended. `OnlyFailedCallbacksSpoil` shows it is the only way.
- A clear between the two writes of an `Add` (`Session.cpp:87`) leaves a row with a time and no uuid, and
  the add answers with success.
- `CDocument.Save` of the endpoint page calls a method that `Table` does not have and stores no
  table with rows (`src/target/WEB/admin/http/HttpCallEndpoints.html:823`).
- `ReadObjects` of `CTableData` takes the position of an added row for its key (`src/misc/html/js/old-table.js:482`):
  after a `ROWRemove` the values go to a row that was there, and the rows whose keys it returns stay empty.
  `CountValue` reaches other rows than it means in the same way.
- A custom rule that answers with an empty string sets the error flag of a field that `GetErrors` then leaves
  out (`gd_data_form.js:360` and `:397`).
- A mouse coordinate 0 makes the position of a draggable `NaN` (`gd_ui_draggable.js:171` and `:205`); pressed there, it
  does not move until the next press.
- `Destroy` of a draggable that was never dropped adds the saved left to a transform it does not reset.
- `CRouter::Run` drops the result of the commands (`Router.cpp:217`).
- `SERVER_Start` answers success when the port could not be bound (`Application.cpp:586`).
- Two concurrent `Erase` calls of one borrowed state read a record that is gone (`lua/LUAStatePool.cpp:177`).

Outside the models: requests on a kept connection behind a proxy all have the first one's
address (`Server.cpp:794`).

## 5. What is proved

Every invariant and every action property that a passing run checks is also a theorem, for every
value of the constants, and so is the refinement of `ExclusivePool`. The theorems rest on the
assumptions the modules state about their constants, and on nothing else but the hypotheses named
below. Two hypotheses are in the theorems themselves:

- `FooterSize = 0`, for `TableData`: no table of the repository has a footer. With a footer the
  theorems are false: TLC shows two rows under one key after an append, a remove and an append, as
  the key of the footer's first row is taken for a position (`src/misc/html/js/old-table.js:1448`).
- `HeaderSize = 0`, for `DataIsSorted`: `GetData` begins behind the header, while the property
  speaks of all rows.

**The pool** (`LuaRequestProofs`, first part; any threads, names and number of ids; from
`ThreadsAndNames`, the absent name is no name, and `MaxIdNat`):

- `PoolInvariant`: `Spec => []PoolInv`. `PoolInv` is inductive: the types, `ExclusiveBorrow`,
  `BorrowIsLive`, `FlagIffBorrowed`, `IdsAscend`, and that a thread in the scan or the wait of
  `Acquire` holds nothing. The parts need each other. A claim keeps exclusion because an idle
  flag means no token (`FlagIffBorrowed`); a removal keeps tokens alive for the same reason and
  because an id is in the vector once (`IdsAscend`); and a claim keeps `FlagIffBorrowed` only if
  the token it fills was empty, which is the last conjunct.
- `TypeCorrect`, `Exclusion`, `NoDanglingBorrow`, `FlagsAreTokens`: its parts as theorems.
- `Refinement`: `Spec => ImplementsExclusivePool`. `Add` is `Create`, `AcquireTake` is `Take`,
  `Release` is `Give`, `EraseRemove` is `Retire`, every other step is a stutter. An id below the
  counter that is no longer in the vector is retired, which is why it cannot come back.

**Requests** (`LuaRequestProofs`, second part; any finite set of workers, `WorkersAreFinite`, and
`NobodyIsNoWorker`, `CoreIsAName`, `CoreCountsPositive`, `MaxScriptsNat`, `CallbackAnswers`):

- `ServeInvariant`, by `ServeInv`: `PoolInv`, the types, that a phase fits the worker's place in
  the pool, and that a worker past its binding finds its own request in the state it holds.
  `ServeIsPool` says that each step of a worker is one of the pool or leaves the pool alone, which
  gives `ServeKeepsPool`, and exclusion then gives `OwnRequest`: nobody else may touch the globals.
- `FailedCallbacksSpoil`, about steps, with callbacks that may fail. What is bound in a state for a worker is
  bound in the state that worker holds, and only in its callback, in its scripts or after a callback that failed
  (`BoundIsHeld`, `HeldInv`). So the one return that leaves something behind is the return after a failed callback.
- `EnoughStatesNoSleep`: with a state for every worker nobody sleeps. A worker that looks for a
  state holds none, so the others are fewer than the states, and by the pigeonhole principle a
  state is idle, which the test before the wait finds.

**The session table** (`SessionsProofs`; any threads, uuids, rows and clock; `NullIsNoUuid`,
`NobodyIsNoThread`): `SessionInvariant`, by `SessionInv`: the types, that who is in a section has the
mutex, that the row of an `Add` in between its two writes is free, and `OnlyAddsAreHalf` itself. From it
`HalfRowsAreAdds`, which speaks of a uuid without a time and not of a time without a uuid, and, about steps,
`UsedRowsAreKept`. `Delete` and `Purge`, which take no mutex, keep all of it, as they only clear; that they may
clear another session is a finding.

**The router** (`RouterProofs`; paths of any length): `RouterInvariant`, by `RouterInv`: the types,
how far past the path each position may be, that the objects of the context are those the commands
made, one for each, that the rows of the response are the released pointers, that nothing is held
between two handlers, and that a failed database command ends the request. From it
`RouterTypeCorrect`, `EveryObjectHasOneOwner`, `EverythingMadeIsAnswered` and `NothingAfterDbFailure`.
`TransferKeepsOwners` and `ExecuteKeepsOwners` are the lemmas about `AddTransfer` and the loops.

**The server** (`ServerProofs`; any threads and connections, from `ListenerIsNoSession` and
`HasThread`): `ServerInvariant`, by `ServerInv`. Its heart is `Exclusive`: of an object there is
one operation pending, or one handler in the queue, or one thread in a handler, and never two of
them; so what a handler starts is the only thing there is. `QuietOutsideRun`, `ShutIsIdle`,
`ClosedMeansStop`, `KeepsListening` (an open acceptor has its accept) and `LeftForGood` complete it.
From it `OneOperationAtATime`, `ShutdownIsLast`, `ServerEndsOnlyWhenTold`.

**`CTableData`** (`TableDataProofs`; any values, names and bounds, `FooterSize = 0`):

- `TableInvariant`, by `TableInv`: the body is in `Bodies`, that is, its rows have one element more
  than there are columns, one row for each key, keys below the next one, and no more rows than keys
  were given; positions lead to columns; at most one column is sorted. From it `KeysAreUnique`,
  `RowsFollowColumns` and the action property `KeysDoNotComeBack`. The bound on the rows is there
  because `Reindex` gives keys from 0 on and leaves the next key alone: without it the new keys
  could reach it.
- `CountsWhatIsThere`: for every rectangle, `CountValue` and `CELLGetValue` agree while keys are positions.
- `DataIsSorted`, `ViewShowsCells`: `GetData` answers each row once, in order, page by page, and with
  the cells of the columns on display. `OrderArranges` shows that for a total order on places
  there is an arrangement of them that respects it, which `_sort` then chooses.
- `ObjectsGetTheirRows`: while keys are positions, `ReadObjects` writes each entry to its object's row
  and its name's column, and old rows only get wider. `EntryPlaced` is one cell, `ObjectPlaced` an object,
  `ListPlaced` a list of objects of any length; each turn keeps what the turns before it wrote,
  because two names have two columns and two objects two rows.

**The endpoint page** (`EndpointPageProofs`; any finite set of tabs, words, values and number of rows;
`TabsAreFinite`, `ValuesAreNumbers`, `WordsAreNumbers`, `MaxRowsPositive`):

- `TabsInvariant`, by `TabsInv`: tabs occur once, buttons carry positions, one tab is active and its
  panel alone is shown. From it `ButtonsOpenTheirPanels` and, about steps, `LookedAtPanelStays`.
- `EndpointsInvariant`, by `EndpointsInv`: the rows are numbered by their index, the list names its rows,
  the storage has no table with rows, and an unmarked page has none. From it `ClicksReachTheirRows`,
  `UnmarkedPagesAreSaved` and `SortingKeepsRows`.

**Forms** (`FormProofs`; any ids, values and rules; `UndefinedIsNoValue`, `EmptyIsAValue`,
`DefaultsAreValues`):

- `FormTyped`: `Spec => []TypeOK`.
- `FormModified`: `Spec => []ModifiedIsExact`, by `MInv == TypeOK /\ ModifiedIsExact`. The property is
  nearly inductive: with the types, which say that flags belong to fields of the form, every action
  keeps it. `SetValues` compares with the original value, and `AcceptChanges` and `Reset` make
  nothing differ and nothing modified.
- `FormErrors`: `Spec => []MessagesFollowFlags`, by `EInv` (the types, that a message has its flag, and that a
  flag without a message is that of a field whose custom rule answers some values with an empty string). A validation sets the
  flag from `Failure` and the message from `Message`, which differ for such a rule only; the other calls clear
  both or none.

**Draggables** (`DraggableProofs`; any plates, handles, bounds and grid; `DraggableAssumption`,
`NaNIsNoNumber`): `DraggableInvariant`, by `DraggableInv`: a dragged plate is above those that are not, and no
plate is above the counter; a plate is shown where it says it is, a grip is the distance of pointer and offset
at the press, and the styles of a drag are on the plates that are dragged. From it `DraggedElementIsOnTop`,
`PositionsAreShown`, `StylesEndWithTheDrag` and, about steps, `DragKeepsItsGrip`: offsets, not places on the screen,
with any bounds at each move.

How the proofs go about loops. The library's induction theorems take an operator as a parameter,
which the provers cannot instantiate. `EveryIndex` (in `TableDataProofs` and `EndpointPageProofs`) says
instead that a set of numbers that has 0 and is closed under the successor is `Nat`; a predicate
becomes the set of the numbers it holds for. `LoopRuns` gives, for a loop whose turns stay in a set,
that its recursive function exists, and `LoopKeeps` that what the turns keep holds in the end. No module
declares a RECURSIVE operator.

Only model-checked, because the provers have neither fairness nor `ENABLED`: the liveness properties
`EveryExecutionReturns`, `EveryRequestAnswered` (of `Router` and of `Server`), `StopEndsServer` and
`ModifiedIsMarked`. The three runs that expect a violation are model-checked as well: TLC finds the
counterexample.

## 6. What is not modelled, and why

- The document's table cache, error list and database connection, the list of documents, the query
  store: planned, see below. Their hazards are listed already.
- Routing of files and pages, mime types, headers; SQL and HTML rendering; serialisation: pure
  conversions without shared state.
- What endpoints do to the database or the disk: a choice of outcome in `Router`.
- What scripts do, beyond the globals the server binds.
- Configuration and options. A thread count of 0 is listed as a hazard; the set of threads is a
  nonempty constant.
- Exceptions that leave a handler, which end the program.
- The `gd` library, whose properties used here are the null word of a row, the empty segments of a
  path and the first match of a look-up by name.
- Of the pages: text output (XML, JSON, markup), validation and conversion in `CTableData`, column
  types, sending a command and showing its answer; toasts, dialogs, `sample-table.js` and the other
  demonstrations, whose calls share no state.
- FileCleaner, Backup, the socket server and samples: separate programs.

## 7. Plan

Done, in order of importance: the Lua pool with its abstract specification and proofs, its use by
requests, the session table, the router, the server with its connections; then the classes of the
pages and the endpoint page they make up; then the proofs of all the safety properties.

Next, models:

1. `Document`: the table cache with pointers that leave the lock and `CACHE_Clear` under the other
   mutex; the error list, cleared under a shared lock; the database connection with its reference
   count and `Execute_Open`'s test, open and replace. Three threads, two tables, two connections.
   Properties: a table or connection in use exists; a connection is released once.
2. `Queries`: the query store, locked in its changes and not in its look-ups.
3. The document list of the application, which `DOCUMENT_Get` grows while workers read it.
4. FileCleaner's worker threads over a shared list of files.

Next, abstract specifications: a request as one atomic command with an answer, implemented by
`Router`; a map from uuid to session, implemented by `Sessions`
without the clears of `Delete` and `Purge` that take no mutex.

Next, proofs: that `Router` implements the atomic command and `Sessions` the map, step by step, from
`RouterInv` and `SessionInv`; `GetData` behind a header; what `ReadObjects` does when keys are not
positions, stated as the rows it then reaches.
