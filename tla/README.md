# Verification of protostate

TLA+ models of the state machine library in `psm/`, of the query service in
`pquery/` and of the migrations in `internal/pgstore/pgmigrate/`, TLC
configurations that check them on small instances, and proofs
that TLAPS checks for every instance. Paths in this file are relative to the
repository; module names are files beside this one.

Contents: [the system](#the-system), [modules](#modules),
[what each run shows](#runs), [bounds](#bounds), [fairness](#fairness),
[proofs](#proofs), [where code and texts disagree](#disagreements),
[not modelled](#not-modelled), [plan](#plan).

## The system

protostate stores protobuf entities as state machines in Postgres. An entity
has one row in a state table, the JSON of its current state, and one row per
event in an event table: the event, its sequence number, its cause, and a
snapshot of the state after it. Applications register transitions and hooks,
then call `Transition`; readers list and get the rows with `pquery`.

| Component | State it keeps | Operations |
|---|---|---|
| state machine runtime (`psm/statemachine.go`, `run.go`, `event.go`) | none of its own: the state and event tables, and, within a call, the `EventSpec` the caller passed and the state in memory | `Transition`, `TransitionInTx`, `transitionFromLink`, chained events, `FollowEvent(s)` |
| transition set (`transition_builder.go`, `transition.go`) | the registered specs and hooks, fixed once events run | registration; `buildTransition` merges what matches a status and an event type |
| table map, configuration (`table_map.go`, `builder.go`) | the key columns and which of them are primary or required, read from descriptors at start | none later |
| lister (`pquery/lister.go`, `sort.go`, `filter.go`, `search.go`) | what it found at start: default sorts, tie breakers, default filters, search columns, in slices that all requests share; nothing between two requests but the token the client sends back | construction, `List` |
| getter, state queries (`getter.go`, `psm/state_query.go`) | which request fields are which key columns | `BuildStateQuerySet`, `Get` |
| paths (`internal/pgstore`) | none; a path is a slice of nodes | `WalkPathNodes`, `NewProtoPath`, `NewJSONPath`, paths to SQL and to values |
| migrations (`internal/pgstore/pgmigrate`, `psmigrate`) | the database's schema, and connections | `CreateStateMachines`, `AddIndexes`, a printed file's up and down |
| data loading, conversion, code generator | none | `dataload`, `dbconvert`, `cmd/protoc-gen-go-psm` |

How they interact. `Transition` opens a transaction with `TxOptions`
(read committed, retryable) and calls `runTx`: validate the spec, look the
event ID up, load the state, run an initial event if the entity is new, then
`runEvent`. `runEvent` mutates the state in memory, writes the state row and
the event row, calls the hooks, and runs the events they chained, each by a
recursive `runEvent` on the same memory. A link hook calls `runTx` of another
machine in the same transaction. Side effects are written to the outbox table
in that transaction. Two machines thus share the database, the transaction
and the goroutine; two callers share the database only. A follower replays
another database's events through `followEvents`. A lister reads the tables
those transactions write, one query per page. Getter and lister of a state
machine are built together, once, from the table map and the annotations of
the messages; later requests read what was built, concurrently. Migrations
make the tables from the same table map, and the search columns from the same
annotations.

What is hard here, and what makes each component correct:

* Two transactions on one entity. The state is read without a lock and written
  back at the end. Correct: the history of an entity is a sequence, numbered
  0, 1, 2, ..., each snapshot follows from the one before, and the row is the
  last one (`SequencesContiguous`, `LogReplays`, `ImplementsLog`).
* Two writes that belong together, and anything that can fail between them: a
  hook, a statement, the process. Correct: rows and events never come apart
  (`RowsAreSnapshots`), and events and effects neither (`EffectsMatchLog`).
* Repeats. The wrapper runs the callback again; a caller that heard nothing
  sends its event again; the spec it sends has been changed by the first run.
  Correct: every answer is the snapshot of the event asked for
  (`RepliesAreSnapshots`), it is about the entity that was named
  (`RepliesMatchRequests`), and a valid spec stays valid (`ResendAccepted`).
* Callbacks within callbacks. Chains, links, links that come back, state hooks
  after each of them. Correct: tables derived by hooks agree with the state
  (`DerivedFollowsState`), and sequences and snapshots follow the order the
  events ran in (`LogReplays`).
* Waiting. Links in opposite directions take row locks in opposite orders.
  Correct: every call returns (`EveryCallReturns`).
* A follower that gets its feed in batches, again after a lost answer, and dies
  within a batch. Correct: it holds a prefix of the leader's log
  (`MirrorsLeader`), sends nothing for what it follows (`SendsOnlyForInitial`),
  derives its tables (`DerivedOnFollow`) and catches up (`CatchesUp`).
* Pages of a table that changes. Correct: rows nobody touches are listed once,
  in order, and the listing ends (`SettledListedOnce`, `ListedByValue`,
  `ListingEnds`).
* Slices that are shared: by the paths of a walk, and by the requests of a
  lister. Correct: a path that is kept stays what it was (`KeptPathsTrue`,
  `IDPathsUnique`), and every request is ordered by the default sorts and the
  tie breakers (`SortsEndInTieBreaker`).
* Names. A request names fields as clients see them, the data has them as they
  are stored, annotations and columns have names of their own. Correct: what is
  annotated is found (`WalkFindsAll`), one column is not two fields'
  (`SearchesUnambiguous`), what passes validation can be built
  (`ValidIsBuilt`), and the rows that come are the rows that were meant
  (`RowsMeant`, `GetShowsEntity`).
* Migrations that run at once, stop halfway or run again. Correct: the schema
  is whole (`SchemaWhole`, `IndexesComplete`, `DownUndoesUp`), it takes what
  the state machine stores (`TablesTakeRows`), and every job ends
  (`MigrationEnds`).

## Modules

```
PSMTypes -- TransitionSet ----+-- StateMachine -- StateMachineLog -- MCStateMachine
        \-- Postgres ---------+                      \-- EventLog         /
         TransitionSet -- Follower                                   FooBar
                              \-- MCFollower ---------------------------/

TransitionSetProofs -- StateMachineProofs -- StateMachineRunProofs -- StateMachineLogProofs
                   \-- FollowerProofs
Listing -- Lister -- MCLister
                \-- ListerProofs

Paths -- PathWalk -----+
     \-- Filters ------+-- Query -- MCQuery
Tables -- Getter ------+       \-- QueryProofs
     \-- Migration -- MCMigration
                \-- MigrationProofs
```

**`PSMTypes`** holds the values: keys (an entity and one required key that is
not primary, `tenant`), event specs, causes, states, event rows. A payload is
abstract. A state's `data` is the list of the mutations that made it, with the
event IDs that caused them, so two states are equal only if they have the same
past: replaying, losing or repeating an event is visible in it. UUIDs are
numbers nobody has drawn before.

**`TransitionSet`** is `transition_builder.go` and `transition.go`. A
transition spec is a record of what was registered (from, on, to, mutations,
hooks). `BuildTransition` merges all specs that match a status and an event
type, fails when there is none or when two name different targets, and drops a
spec's `noop` flag, as the code does. A hook is its effect, links, messages,
chained events, whether it derives a table, and its `RunOnFollow` flag, which is
set as the generated constructors set it: hooks that link or are handed a baton
have it false, state data hooks true, of the others it may be either. `NextSequence`, `Sequenced` and
`Mutated` are `nextStateEvent` and `runMutations`.

**`Postgres`** is external: the tables as the statements of psm use them, with
uncommitted writes per transaction, row locks, the unique index of event IDs,
rollback, and both isolation levels. `ReadCommitted` statements see what is
committed; `Serializable` ones see the snapshot of the transaction's start and
fail when they overwrite a row that changed since.

**`StateMachine`** runs clients against that database. A client is a caller's
goroutine with an *agenda*: the stack of what its nested Go calls have still to
do. One action is one statement, since transactions interleave there and
nowhere else.

| Action | Code |
|---|---|
| `Call`, `Resend` | the caller: a new call; or the same again, with the specs it holds (changed by earlier runs) or built afresh |
| `Open` | `Transact` begins an attempt |
| `InvalidSpec`, `UniqueCheck` | `runTx`: `validateAndPrepare`, ID, `firstEventUniqueCheck` with its three outcomes |
| `Load` | `getCurrentState`, `runInitialEvent`, `assertPresentKeysMatch`, writing the keys back into the spec |
| `RunFails`, `Upsert` | `prepareEvent`, `buildTransition`, `runMutations`, first statement of `store` |
| `Insert` | second statement of `store`; the state returned to the caller is the one of this moment; the links follow |
| `Emit` | state hooks, outbox, `deriveEvent`: chained events go ahead of what is left |
| `Commit`, `Retry` (`SerializationFailure`, `DeadlockVictim`), `Abort` | the end of the attempt |
| `CallbackFails`, `Crash`, `CommitUnacked` | faults: a callback or statement fails, the process dies, the answer to a commit is lost |

**`EventLog`** is the abstract promise, without transactions, memory or
retries: each entity has a history; a step appends to several histories at
once; an entry follows from the history before it; answers are entries of a
history. **`StateMachineLog`** maps the state machine to it (`History` sorts
an entity's events by sequence) and states the refinement `ImplementsLog`.

**`Follower`** is a replica: a leader publishes events, the transport delivers
batches of one machine's events from the last acknowledged position, and the
loop of `followEvents` goes through them.

| Action | Code |
|---|---|
| `Lead` | the leader, as `TransitionSet` says, its initial events included |
| `Deliver` | a call of `FollowEvents`, a method of one machine |
| `MakeInitial` | deduplication, `getCurrentState`, and `runInitialEvent` for an entity that is new: an event of the replica's own, with all the hooks |
| `Follow` | deduplication, `getCurrentState`, `nextStateEvent`, `followEvent` up to its hooks |
| `RunHook`, `SkipHook` | the loops of `runHooks` and `runFollowerHooks`: a hook without `RunOnFollow` is passed over when an event is followed |
| `Reject` | an error: the event is known, or has no transition |
| `Acknowledge`, `CommitUnacked`, `Crash` | a commit with and without an answer, the loss of the open transaction |

Linked and chained events of the leader are, for a replica, events of the feed
like any other. An initial event is modelled as long as it neither links nor
chains (`InitialAssumption`). In the run, foo has none and bar has one, and each
machine has a hook that sends, without `RunOnFollow`, beside one that derives.

**`Listing`** is the query `BuildQuery` makes, as operators: which fields it
sorts by, the order the database returns, the condition of a page. The
selector of a JSON field is text (`->>`), so `ORDER BY` compares texts; the
page's condition compares texts or numbers, depending on the cast the code
puts in; a field missing in the JSON is null in the condition, last in the
order, and zero in the decoded token. A value's text is its rank among texts.
**`Lister`** is the client that asks for page after page (`Begin`, `Query`,
`QueryFails`, `Reply`) while other transactions `Write`.

**`Paths`** is `path.go` on an abstract descriptor: a message is a sequence of
fields, a field says whether it is a list, a map, flattened, in a oneof, and
which message it is. `NewJSONPath` and `NewProtoPath` follow a name element by
element; `JSONPathQuery` and `JSONSelect` are the jsonpath and what Postgres
selects with it from a document. **`PathWalk`** is `WalkPathNodes` as a state
machine, field by field, over explicit arrays: `AppendTo` is Go's `append`,
writing in place when there is capacity and copying to a larger array
otherwise. A path that a callback keeps refers to an array; the model remembers
beside it which fields the walk really went through.

**`Filters`** is what annotations say and requests ask: which fields are
searched, sorted, filtered, the three validations of annotations and of
requests (with `panic` where the code reads a flag of rules that are not
there), and the conditions of a request on a row. A condition may have no SQL,
as that of a range without bounds or of an `or` of nothing (`SaysNothing`):
it is then left out. **`Tables`** is the table map
and the two tables made from it, and the columns that `store` sets.
**`Getter`** is the one statement of `Get`.

**`Query`** composes them: a service is constructed step by step or refused,
and then callers send it requests.

| Action | Code |
|---|---|
| `Construct` | `BuildStateQuerySet` maps the request's fields, `validateListAnnotations` |
| `FindSort`, `FindFilter`, `Leave` | `WalkPathNodes` for `buildDefaultSorts` and `buildDefaultFilters` |
| `SortsFound`, `FiltersFound`, `RefuseDefault` | what `buildListReflection` does between and after, and its errors |
| `AskToList` | the head of `BuildQuery`: tie breakers are appended to the shared default sorts |
| `Validate`, `Build` | the rest of `BuildQuery`, in its order, with the selectors of its `ORDER BY`, which panic below a list |
| `Run`, `Fail` | the statement; it may fail if a condition has no SQL |
| `AskToGet` | `Get` |

`Listing` and `Lister` say in which order rows come, page by page; `Query` says
which rows, and which sorts the order is made of.

**`Migration`** runs jobs against a schema. A job is a list of statements in
one transaction (`CreateProgram`, `IndexProgram`, `UpProgram`, `DownProgram`);
a statement takes the locks of the tables it touches, is accepted or fails the
job, and is seen by others at `Commit`. A job needs a connection, and
`BeginAgain` is the second transaction that `CreateStateMachines` begins and
forgets. `Deadlock` and `Lost` end a transaction from outside. What goose does
with a printed file is modelled as one transaction, which is its default.

**`FooBar`** configures two linked machines after the Foo and Bar of the
integration tests; `MCStateMachine`, `MCFollower`, `MCLister` add the calls,
feeds and requests of the runs. `MCQuery` is a state message after the one of
foo, its rows and the requests; `MCMigration` a key message and search fields. Definitions whose comment begins with
"Mutant" are wrong on purpose: put in the place of the definition they follow,
they break the property they are listed with in `PROJECT.json`.

## Runs

Passing runs:

| Run | Question | Properties |
|---|---|---|
| `read_committed` | What holds at the isolation level the code asks for, with two callers, links both ways and a fault anywhere? | `TypeOK`, `RepliesAreSnapshots`, `RowsAreSnapshots`, `EffectsMatchLog` |
| `serializable` | What more holds when transactions are serializable, through retries and initial events? Is every behaviour one of the abstract log? | `SequencesContiguous`, `LogReplays`, `DerivedFollowsState`, `RunsAreLatest`, `ImplementsLog` |
| `chains` | Chained events that chain, two specs in a transaction, resends | `RepliesAreSnapshots`, `EffectsMatchLog`, `LogReplays` |
| `calls_return` | Do callers that wait for each other, or are refused for any of the reasons there are, all return, with answers about what they asked? | `RepliesMatchRequests`, `EveryCallReturns` |
| `follower` | A replica through batches, crashes, redelivery, of one machine with an initial event and one without; which hooks run, what is sent, and does it follow everything in the end? | `FollowerTypeOK`, `MirrorsLeader`, `DerivedOnFollow`, `SendsOnlyForInitial`, `CatchesUp` |
| `listing` | Pages in the default order, ties broken, or in a requested order of distinct values, while a row moves; does the listing end, through writes and retries? | `ListerTypeOK`, `SettledListedOnce`, `ListedByValue`, `ListingEnds` |
| `queries` | A service is built or refused, then two callers use it at once: do they get what they mean? | `QueryTypeOK`, `KeptPathsTrue`, `WalkFindsAll`, `SearchesUnambiguous`, `SortsEndInTieBreaker`, `RowsMeant`, `ValidIsBuilt`, `GetShowsEntity` |
| `migrations` | Three migrations of any kind at once, with crossing locks, few connections, one lost: is the schema whole, and does every job end? | `MigrationTypeOK`, `SchemaWhole`, `TablesTakeRows`, `IndexesComplete`, `DownUndoesUp`, `MigrationEnds` |

The division between `read_committed` and `serializable` is the main result.
Atomicity, answers and effects hold at the level the code asks for.
The history as a sequence does not: `lost_update` violates it at read
committed, and `serializable` shows that the library's own logic is not the
reason. Who wants to rely on sequences and replay has to raise
`TxOptions.Isolation` or lock the row that `getCurrentState` reads.

Some properties have a condition, because without it the code does not keep
them: `CatchesUp` is about a replica whose commits were all acknowledged,
`SettledListedOnce` and `ListedByValue` about listings without a failed
attempt. `follow_redelivery` is the follower without the condition. Two more
say of the code what is left of a claim: `MirrorsLeader` is about the machines
without an initial event, and `SendsOnlyForInitial` says that all that a
replica sends is for the initial events it makes itself (`psm/statemachine.go:462`),
where the comment of `FollowEvent` says that it sends nothing.

The properties of `queries` have carve-outs too, each a fact about the code:
`KeptPathsTrue` says nothing of paths of 4 and 6 to 8 nodes, which share
arrays; `RowsMeant` excepts names that could mean two things (`Clear`), kinds of
values the code cannot compare (`Comparable`), searches by other names than the
proto names in a column of their own (`SearchedAlone`), default filters of the
wrong kind, within maps or on paths that may be written over
(`DefaultsComparable`), an `or` with an alternative that has no SQL or with none
(`Comparable`), and counts rows only if auth rows are unique. `ValidIsBuilt` is
about errors and panics of `BuildQuery`, and excepts requests whose later
filters nobody validated, searches whose proto name is not the snake case of
the JSON name, and sorts below a list that `sort.go:205` overlooks: of fields more than
two messages down, of timestamps, and of tie breakers, which no one checks.
`SchemaWhole` and `IndexesComplete` are about search fields with a column of
their own. [Disagreements](#disagreements) lists what the code does otherwise.

Violated runs show where code and texts disagree, see
[below](#disagreements).

Deadlock is checked in every run but `queries`, `shared_paths` and
`migrations`, where the system really stops: each caller sends one request, a
service that is refused is never used, and jobs end. In the others, states
where everyone has stopped have an explicit stuttering action (`Rest`,
`Done`), so a stop that is not one of them is an error. `MigrationEnds` is what
says of `migrations` that it does not stop too early.

## Bounds

* Two clients, one foo and one bar entity, at most two attempts per call and
  two calls per client (one in `calls_return`, whose calls are of twelve
  kinds). Two transactions are enough for every conflict of the model: a
  conflict is a row lock, an index wait or a changed row, and each concerns
  two transactions. A second call is needed for repeats and later events; a
  second attempt to see what the first has left behind.
* `MaxFaults` is 1 where faults are the question: one fault at any point,
  including while the other client waits. It is 0 in `serializable`, whose
  failures are the serialization failures themselves.
* `MaxFeed` is 3 requests, of up to two events each, in batches of up to 2, with one crash and one lost
  answer: enough for a batch that repeats committed events together with new
  ones.
* `MaxWrites` is 1 during a listing of up to 3 rows with pages of 1 to 3: a row
  can move across the token in either direction, or be inserted on either
  side, and the token's own row can move. Before the listing begins writes are
  free, so every table over the values is listed.
* `queries` has two callers with one request each: a lister keeps no state
  between requests but the array they append to, and two appends are a
  conflict. The message has every construct the code treats differently:
  flattened keys, a wrapper, a plain oneof, a list of messages, a map, an enum,
  searched, sorted and filtered fields down to paths of four nodes. There are
  38 services. In 27 of them, one search field has a column of its own, one the
  column `a`, and three others each have `a`, `b` or none; a service is refused for
  two fields with one column, or one without, so two columns meet every pair. Of
  the other services, some are refused, for their fields, their rules or a tie
  breaker, one can be sorted below a list, and the rest differ in tie breakers,
  auth rows and claims. Four rows are every
  combination of a key of two columns.
* `migrations` has three runners, so that one finds what the second committed
  while the third waits, one lost connection, and four lists of search
  fields: none, one per table, two that share a column, and three of which two
  share one. `Pool`
  is one more than the jobs, the least with which every job ends.
* Clients are symmetric where a run has no liveness property. `ImplementsLog`
  states a condition on single steps, so the symmetry does not hide anything
  from it.

## Fairness

`StateMachine!FairSpec` is weak fairness of each client's `Step`: a goroutine
inside `Transact` is scheduled, the database grants a lock that becomes free,
and detects deadlocks. Calls, resends and faults are never forced. Weak
fairness is enough, as a step that waits for a lock is not enabled until the
lock is free and then stays enabled until somebody takes it; that the other
may take it again is bounded by the number of calls.

`Follower!FairSpec` is weak fairness of the replica: the transport delivers
again what is not acknowledged, as any at-least-once transport, and the loop
goes on. The leader need not publish. `Lister!FairSpec` is weak fairness of
the client's steps: it asks until there is no token, and a query that may run
runs. Attempts that fail are not forced.

`Migration!FairSpec` is weak fairness of each job's `Step`: Go runs every
goroutine, and the database grants a lock that is free and ends a deadlock. A
lost connection is not forced. `queries` has no liveness property: nothing in
a request waits for another.

## Proofs

What is proved, and from what beyond the assumptions of the modules. All
theorems are for any number of clients, machines, entities, transitions, hooks,
jobs, feeds and calls, and for any messages, annotations, tables and requests.

| Theorem | States | Isolation | Hypotheses |
|---|---|---|---|
| `TypeInvariant`, `TypeCorrect` | `Spec => []TypeOK` | both | |
| `RowsCorrect` | `Spec => []RowsAreSnapshots` | both | |
| `RepliesCorrect` | `Spec => []RepliesAreSnapshots` | both | |
| `RunsStayLatest` | `Spec => []RunsAreLatest` | both | `LinksGoForward` |
| `DerivedTableFollows` | `Spec => []DerivedFollowsState` | both | `LinksGoForward` |
| `EffectsOnce` | `Spec => []EffectsMatchLog` | both | `CallersOutside` |
| `RepliesMatch` | `Spec => []RepliesMatchRequests` | both | `CallersOutside`, `OwnIds` |
| `SequencesAreContiguous` | `Spec => []SequencesContiguous` | serializable | `LinksGoForward` |
| `LogsReplay` | `Spec => []LogReplays` | serializable | `LinksGoForward` |
| `ImplementsEventLog` | `Spec => ImplementsLog` | serializable | `LinksGoForward` |
| `FollowerTypeCorrect` | `Spec => []FollowerTypeOK` | | |
| `DerivedFollows` | `Spec => []DerivedOnFollow` | | |
| `FollowsLeader` | `Spec => []MirrorsLeader` | | |
| `FollowingSendsOnlyForInitial` | `Spec => []SendsOnlyForInitial` | | |
| `ListerTypes` | `Spec => []ListerTypeOK` | | |
| `SettledRowsListed` | `Spec => []SettledListedOnce` | | `TextsInOrder`, `OrderDecides` |
| `PagesInOrder` | `Spec => []ListedByValue` | | `TextsInOrder`, `OrderDecides` |
| `QueryTypes` | `Spec => []QueryTypeOK` | | |
| `KeptPathsStayTrue` | `Spec => []KeptPathsTrue` | | |
| `WalkFindsEverything` | `Spec => []WalkFindsAll` | | |
| `ListsInOrder` | `Spec => []SortsEndInTieBreaker` | | `ShortSorts` |
| `ColumnsUnambiguous` | `Spec => []SearchesUnambiguous` | | |
| `ValidRequestsBuilt` | `Spec => []ValidIsBuilt` | | `ShortSorts` |
| `ListsMeant` | `Spec => []RowsMeant` | | |
| `GetsShowEntities` | `Spec => []GetShowsEntity` | | |
| `TablesCorrect` | `Spec => []TablesTakeRows` | | |
| `MigrationTypeCorrect` | `Spec => []MigrationTypeOK` | | |
| `SchemaStaysWhole` | `Spec => []SchemaWhole` | | |
| `IndexesAllAdded` | `Spec => IndexesComplete` | | |
| `DownIsUndone` | `Spec => DownUndoesUp` | | |

The first three are in `StateMachineProofs`; `RunsStayLatest` and
`RepliesMatch` are in `StateMachineRunProofs`, the proofs about histories, the
refinement, `DerivedTableFollows` and `EffectsOnce` in `StateMachineLogProofs`,
those of the follower in `FollowerProofs`, those of the lister in
`ListerProofs`, those of the query service in `QueryProofs`, the last five in
`MigrationProofs`. `TransitionSetProofs` has what state machine and follower
need of the transition set: what a lookup, a mutation and a sequence return.

### Assumptions and hypotheses

The assumptions of the modules, which TLC evaluates in every run, are
`ValuesAssumption` (0 is a status, keys and IDs are distinct from the values
that stand for their absence), `NoCauseAssumption`, `NoStateAssumption`,
`NoPendingAssumption` (the same for causes, states and pending events),
`TransitionsAssumption` (each lookup gives an error or a typed transition),
`IsolationAssumption`, `JobsAssumption`; `FollowerAssumption`,
`InitialAssumption` and `HooksAssumption` for the follower (an initial event has
a transition from status 0, without links or chain, and hooks are such as the
generated constructors make: what runs on follow sends nothing, what derives runs on follow); `ListingAssumption` and `ListerAssumption`
for the lister (kinds, values and sorts are typed; the values that stand for an
absent row, token or field are none); for queries `PathsAssumption` (names in a
message are unique, a text field has no message, and `Nesting` gives each message a number that is less in
the messages of its fields: no message contains itself), `FilterTreesAssumption`
(the parts of a filter are filters of a smaller `FilterDepth`: no filter
contains itself; a field is asked for by a sequence of names),
`PlansAssumption` (services and requests are typed), `TablesAssumption` (the
rows are finitely many that a migration's tables can hold and `store` can have written: one
state per primary key, an event has the keys of its state) and
`RowsAssumption` (the data of a row is JSON as protojson writes it: a value that
is there for a field that is not a message is a scalar of the field's kind); and for migrations `MigrationAssumption` (a
property of a key message has a name, a column and two flags, a search field a
table and a column, and the pool more connections than there are jobs).

The theorems' hypotheses are conditions the code does not check, and without
which it does not do what the theorem says:

* *Serializable.* `TxOptions` asks for read committed; there an update is lost,
  and the run `lost_update` shows it.
* `LinksGoForward(reached)`: there is a table `reached` of the entities that
  the links and chained events of an event type, run on an entity, can lead to,
  and the entity is not among them. The code does not check it: a link that comes back
  (`psm/run.go:124`) leaves the outer run with an older state in memory, and
  then neither the sequences nor the derived table are right. It is a condition
  on what an application registers. `MCStateMachine` gives the table for foo
  and bar (`FooBarReached`) and TLC evaluates the condition for it.
* `CallersOutside`: the specs callers ask for have event IDs of their own or
  none, and no event of a state machine as their cause. The code takes any
  `Cause` (`psm/event.go`, `validateAndPrepare`): a caller that names an event as
  the cause of its own adds to what that event has caused. And a caller that
  guessed an ID the library is about to draw would have a link answered with the
  caller's event instead of run. `MCStateMachine` asserts this condition and the
  next for its jobs (`CallersAssumption`).
* `OwnIds`: a caller that chooses an event ID gives all keys with it, and an ID
  that is sent twice to one machine is for one entity. The uniqueness check
  compares the inner event and not the keys (`psm/statemachine.go:631`), so a
  caller that used an ID for a second entity would be answered with the first.
* `TextsInOrder`: the texts of the values are in the order of the values, as
  those of timestamps are, and of numbers of one length. Else ORDER BY and the
  page condition disagree (`pquery/lister.go:459`, `:563`).
* `OrderDecides`: for each request the lister accepts, every row has the sort
  fields (`pquery/lister.go:623`), and the sort decides between any two rows,
  as the default sort does with its tie breaker. A requested sort drops the tie
  breaker (`pquery/lister.go:409`). TLC evaluates both conditions for the
  listings of `MCLister`.
* `ShortSorts`: the path of a field with a default sort has 1, 2, 3 or 5 fields.
  One of another length can be written over while the walk goes on
  (`internal/pgstore/path.go:203`), as the run `shared_paths` shows for
  filters. `MCQuery` asserts the condition for its messages (`SortsAssumption`).

### The argument

* `TypeOK` is not inductive. An item of the agenda names, by number, the state
  in memory it works on; `TypeInv` says that it exists. `PendingInv` says that
  an event waits for its insert only in an open transaction with its item on
  top of the agenda, so that `Insert` pops the right one.
* `RowsAreSnapshots` is about committed tables. `RowInv` adds the same for an
  open transaction: a row it has written is the snapshot of one of the events
  it has written, the one about to be inserted included, and it has written a
  row for the entity of each of them. `Upsert` establishes it with the pending
  event, `Insert` keeps it, `Commit` is not enabled while an event is pending,
  and rollback drops both. That is the code's two-statement `store` under any
  fault between the statements.
* `RepliesAreSnapshots` needs where answers come from. `ReplyInv` adds that
  what a call has returned so far is the snapshot of an event that is
  committed, or that this very transaction has written; that snapshots of the
  database are subsets of what is committed, since events are never deleted;
  and that a rolled-back attempt returns nothing (`DropRun`). For the entity
  of an answer to be the one that was asked for it also needs `KeysInv`: rows,
  states in memory and agenda items are filed under the same entity.
* `RunsAreLatest` is a fact about nested Go calls: while links and chained
  events of a run are going on, nothing loads its entity again. `LinksInv` says
  of each item what it can still touch (`Touches`) and that nothing above it in
  the agenda can touch the entity of an item that works on a state in memory
  (`Apart`). What an action puts in the place of the head touches no more than
  the head did, because links go forward; `ReplaceKeepsLinks` says so once, and
  each action is an instance of it. `Moves` sums up what an action does to
  database and agenda, so that this proof and the next ones have nine cases
  instead of sixteen.
* `SequencesContiguous`, `LogReplays`. `HistoryOf(evs, s)` says that the events
  are numbered without gap, each follows from the one before, and the last left
  the state `s`. `Histories` says it of every entity as committed, and as an
  open transaction that has written the entity's row sees it, and that only
  one transaction has (`RowLock`). `Fresh` says that a state in memory a run will go on from
  is the row its transaction sees; it needs `RunsAreLatest` and that one run
  only is alive per entity (`OneRunOfEntity`). `Upsert` then extends a history
  (`HistoryGrows`): when it does not conflict, what the transaction's snapshot
  has is what is committed, which is where serializability enters. `Commit`
  puts one history in the place of another, which nobody else can have changed
  under the lock. `HistoryCounts` turns numbering into `Cardinality`.
* `ImplementsLog`. No two events, committed or not, have the same reference
  (`RefsUnique`), since an insert waits for the transactions that have written
  its ID. An entity's events in order are a sequence whose entry at `n + 1` is
  the event of sequence `n` (`InOrderParts`); with more events of the same
  history it is a longer sequence with the old one as prefix
  (`HistoriesExtend`), and each entry follows (`EntriesFollow`). Events and
  replies only grow, so each step extends every log at once (`StepOfTheLog`),
  which is a step of `EventLog` or a stutter.
* `DerivedFollowsState`. Between the upsert and the hooks the derived row lags
  behind: it is then `Owed`, by the pending event or by an emit on the agenda.
  The hook derives from the state in memory, which is the row the transaction
  wrote (`EmitWritten`), again because runs are the latest. Nothing is owed
  when the agenda is empty, which is when a transaction commits.
* `EffectsMatchLog`. An event that an open transaction has written is in debt to
  its hooks: what it has caused so far (`Caused`), what waits on the agenda with
  it as cause (`Waiting`) and, until its emit has run, its chained events add up
  to its links and chained events (`Counted`); each link and chained event is
  either written or waits (`LinkDue`, `ChainDue`); its messages come with its
  emit. Each action puts items in the place of the head and passes the debt on:
  a check and a load hand it to the next item (`PassedOn`), the insert turns a
  waiting item into an event and brings up the new event's own links and emit
  (`WrittenEffects`), the emit brings up the chained events and the messages
  (`HookedEffects`). Places on the agenda are counted from its end, so that
  they stay while the head is replaced, and no sequence needs an induction. The
  one way to lose a debt is a link whose ID the uniqueness check finds: links
  have no ID before their check, which draws a new one (`SpecsInv`, `Drawn`). An
  empty agenda has no debt (`EndOfRun`), and a commit puts two logs together
  that share no reference (`LoggedTogether`, `RefsApart`).
* `RepliesMatchRequests` is about which entity an event ID stands for. An ID a
  caller chose stands for the keys it gave (`Asks`, `AskedKeys`). An ID the
  library drew is new, but does not stay inside: the check writes it into the
  caller's spec and the load writes the entity's full keys beside it
  (`WriteBack`), and a caller that calls again with that spec hands both back.
  So the proof follows these slots. A number is in one slot at most
  (`SlotsApart`), or on an initial or chained event of one run (`LibraryApart`);
  an item of the agenda agrees with its slot (`Named`), a slot with the event
  that was written under its ID (`SlotWrites`), and only a slot with full keys
  can have one, since rows and states in memory have all keys (`FullStates`). `NextSlotNames`
  has a lemma for each action and does not look at events; `NextEventNames` and
  `NextRepliesFit` follow from it. The event that a check finds has then the
  keys it was asked for (`RepeatFits`).
* `MirrorsLeader`. `FeedInv`: the leader's rows are those its feed's last events
  carry, and each event of the feed is what following it from the row before it
  makes (`Reproduced`). `MirrorInv`: what the replica's store has of the machines
  without an initial event is what the first n events of the feed make, for an n
  that is at least `acked`; the work of the open transaction is the same for an n
  at least `followed`. The replica's own initial events are of entities that this
  is not about (`StoringOther`). A batch that begins too early meets a known event
  and is refused, which leaves the store as it was.
* `DerivedOnFollow`. Between the row of an event and its hooks the derived row is
  behind. `WorkDerives`: it is then due by one of the calls that are still to come, and each
  of these is for the event that the row is from. An event brings up the calls
  of all the hooks (`StoringDerives`), one call is taken from them at a time
  (`HookingDerives`), and one that is passed over has no `RunOnFollow` and so
  derives nothing. No call is left when a transaction commits.
* `SendsOnlyForInitial`. A call with a baton is one of an event the replica made
  itself (`CallOwn`), and one without a baton runs only with `RunOnFollow` and then sends
  nothing. Own events stay so: their ID is drawn after every ID in the feed so far, and
  the leader draws new ones (`Drawn`, `LeadDraws`).
* `SettledListedOnce`, `ListedByValue`. The token stands between what is listed
  and what is to come: a settled row is listed exactly when it comes before the
  token's row (`ListedInv`), although that row may have moved, or be another
  row's now. Between a query and its reply the rows at hand are the next ones
  from the token on, without a gap (`PageInv`). Two facts carry the steps: the
  page condition selects the rows that ORDER BY does not put before the token
  (`PageBegins`, from `KeysAgree` for each kind of field and direction), and of
  two rows on either side of a third one, the nearer comes first
  (`BeforeAround`). Writing takes rows out of `Settled`, and does no more.
* `KeptPathsTrue` is about arrays that several slices share. The walk goes back
  to a path and appends the next field to it, in its array when there is room,
  beside or over what is there. `append` doubles, so an array is less than
  twice as long as any path in it, and has 1, 2, 4, 8 or at least 16 cells
  (`Fits`); of the paths that may still grow in an array, one of 1, 2, 3 or 5
  fields is the shortest (`ShortestInArray`), so the others append behind it
  (`PathGrows`). Every path on the walk's stack is right up to its length
  (`FrameOK`), every path that is kept is of its length in cells nobody will
  write again (`KeptOK`). The list of what is kept grows by `append` as well, and
  requests append to it beside each other: these arrays are not those of paths
  (`Apart`), and appends write only beyond the end of what they append to
  (`AppendedList`, `OthersAppend`). `QueryTypeOK` follows, as each slice's array
  is at least as long as the slice.
* `WalkFindsAll` compares a loop with a recursive definition. A frame of the
  walk has visited the first fields of its message (`Frames`). What the frames
  have visited, laid end to end, is a beginning of the chains of the root
  (`Trail`), and what has been kept is what of that beginning is wanted
  (`Walking`): a visit adds the next chain to the trail and, if its field is
  wanted, to what is kept; entering a message and leaving it move a piece of the
  trail from one frame to another. `ChainsFrom` is recursive over messages. That
  it is what its equation says is an induction on `Nesting`: if two solutions of the equation
  differ somewhere, they do not at a message of least number (`ChainsUnfold`).
  When one frame is left, without a field to visit, the trail is everything.
* `SortsEndInTieBreaker` is about appends to a slice that all requests share.
  The lister keeps the default sorts in an array that may have room behind
  them, and each request appends the tie breakers there (`Tied`). Two requests
  then hold one array, and each writes what the other wrote, to the same places
  (`TiesWritten`): that makes it right without a lock, and is what the mutant that
  appends the requested sorts breaks. That the default sorts still say what they
  are annotated with is `KeptPathsTrue` for paths of a safe length
  (`ShortSorts`), and that they are all of them, in order, is `WalkFindsAll`.
* `SearchesUnambiguous` says of every pair of paths to search fields what
  `validateSearchesAnnotations` checks field by field and message by message,
  with sets of columns (`SearchIdentifiers`). The paths to search fields under a message
  are those under each of its fields (`SoughtInto`); two that begin with
  different fields are exclusive when these are branches of one oneof
  (`ExclusiveApart`), two that begin with the same field when their remainders are
  (`ExclusiveBelow`). Hence comparing the fields of a message, once what is
  below each of them is known to be unambiguous, compares all pairs
  (`UnambiguousInto`), and by induction on `Nesting` the check finds the columns that are
  there, and is valid exactly when no pair is ambiguous (`SearchesJudged`). So it refuses
  no service whose fields have columns of their own. `AnnotationsInv` adds that nothing is
  built after a refusal.
* `ValidIsBuilt`: a request is built in a later step than it is validated in, and
  `BuildsInv` says only that it was found valid before. The rest is about the two
  functions. A path of JSON names is a fold over them; what a fold has computed
  after each element is a sequence whose every member is one step from the last
  (`FoldingFolds`), so a path with the names of a chain of fields is at the
  chain's n-th field after n names, or was refused at a map (`PathDown`). A search
  that is valid is therefore one of the searchable chains, whose columns are known
  by their proto names (`SearchHasColumn`). Validation stops at the first filter;
  on a field, it refuses every path that no condition can be built for
  (`ValidFilterBuilt`). That the `ORDER BY` does not panic is about lists. The check of
  the annotations is recursive, two messages at a time; that it is what its equation
  says is the same induction on `Nesting` as for the walk (`SortsUnfold`), and it
  finds every list above a sort field within two messages (`SortedChains`). The
  selector of a path panics at a list above the last field only (`ArrowsLead`), so it does
  not for a sort that was asked for and found valid (`AskedSortLeads`), nor for
  what `SortsEndInTieBreaker` says a request without sorts is ordered by
  (`DefaultsLead`).
* `RowsMeant` says what the names and values of a request mean without following
  the code: a chain of fields has the JSON names of its fields, where any of the
  flattened ones but the last may go unnamed (`NamesFor`); `"type"` after the names
  of a message is its oneof; a row's values are what its data has along the chain.
  `NewJSONPath` instead takes name after name and tries the fields of the message
  before those of flattened ones (`FindFieldFinds`). After each name it is
  refused, or on a chain that the names so far may mean (`Way`, `WaysOn`), so a
  path that is not refused leads to a meaning, and where names have one meaning,
  to that one (`PathMeans`). The jsonpath built from it, which has no element for a
  oneof, selects the values along the chain (`QueryAlong`, `SelectsValues`).
  Conditions compare values with JSON strings; the kinds in `Comparable` are
  strings in the data (`FilterMet`), a range without bounds is every row's, and
  `FiltersHold` carries that through `and` and `or` by induction on `FilterDepth`;
  a part that says nothing selects every row, which an `and` may leave out and
  an `or` may not have. A search is looked up by its names in
  snake case, which are the proto names of one chain (`NamesTell`), and reads the
  column generated from the first chain that has it, which is this one when the
  column is its own (`SearchMet`). Default filters use the paths the walk has kept,
  which are all (`WalkFindsAll`) and still say what they were kept for (`DefaultsMet`).
  The statement joins auth rows: a row comes with each of those that the claim
  lets it be seen by (`JoinedOnce`). `CallerAnswers` says that an answer was given
  for a request that was found valid and built, by a lister that was ready, and
  keeps what it means while others go on (`MeaningStays`).
* `GetShowsEntity`: a get's answer is computed in one statement, so the
  invariant says only that it is that of `Get` (`CallersInv`). That it is right is
  about data (`GetFinds`): the keys a request maps to are columns of the key
  (`KeysOfRequest`); a statement that does not fail was given the primary key, so the row is
  one, and the events joined by the primary key have all keys of the row.
* `TablesTakeRows` is about data: `TablesFit` derives it from the fact that
  `keyFieldColumn` makes every primary key required (`KeyColumnFields`), so that
  the columns of the primary and the foreign key are not null in either table
  (`PrimaryNotNull`), whichever columns a key message has. No step changes the
  key message (`PropertiesKept`).
* `SchemaWhole` is about what is committed, and not inductive: `SchemaInv` adds
  where each job is. What is left to do is the rest of its program from some
  statement on (`AtStatement`), and what its transaction has changed is what the
  statements before it do: `Made` for the jobs that make tables, `TakenDown` for
  those that drop them, `Indexing` for the search fields, of which the first
  ones are added, each with its index, and the last perhaps without. What a
  transaction has changed lies on tables it has locked (`Covered`), and no two
  have locked one table (`LocksApart`), so a commit of one changes nothing that
  another relies on (`UntouchedSound`). At the end of a job these say that it
  has made or dropped everything it is for, which is a whole schema again. What
  the programs contain is said of `FlattenSeq`, which is recursive:
  the sequence of the first m lists is one list longer than that of the first
  m - 1 (`FlattenIs`), and a fact that fails for some number of lists fails
  for a least one (`LeastNatural`), so that no theorem with an operator
  parameter is needed. From it come the order of `Items` (`ItemsListed`), the
  statements of up and down (`UpMakes`, `DownDrops`: when an object is dropped
  everything that is part of it has been) and the threes of `IndexProgram`
  (`IndexInThrees`).
* `IndexesComplete`, `DownUndoesUp` and `MigrationTypeOK` follow from
  `SchemaInv`: the first fields a job finds missing were all missing, as the
  catalog is whole (`IndexesDone`); every object of a whole schema is still
  there when its turn to be dropped comes (`DownDone`). `Connected` counts the
  transactions that are open, and `Begin` and `BeginAgain` add one to them or to
  what is leaked only below the limit.

Proofs of steps have one lemma per action or move, and a last step joins the
lemmas by temporal reasoning. Invariants are conjunctions of named parts, and
an action that does not touch a part gets it from a lemma on unchanged
variables. The strengthened invariants were checked by TLC on the instances of
the runs before they were proved, where TLC can evaluate them (`Walking` says that
there is a split of a trail, over all sequences).

### Only model-checked

* The liveness properties (`EveryCallReturns`, `CatchesUp`, `ListingEnds`,
  `MigrationEnds`): they need fairness and `ENABLED`.

## Disagreements

Shown by a run, whose counterexample is the shortest, or close to it:

| Run | The code | The text |
|---|---|---|
| `lost_update` | `TxOptions` is read committed and nothing locks the row that is read, so two transitions of an entity share a sequence and one state is lost | `docs/hooks.md:108` "forces high TX isolation"; tests number events one by one |
| `resend_command` | `validateAndPrepare` writes `Cause` into the caller's spec and leaves `Action`; the same spec is invalid from then on, for the wrapper's retry too | `statemachine_test.go:477` "event 1 should be idempotent" |
| `follow_redelivery` | deduplication scans one column into two destinations: a known event fails its batch, for ever | `statemachine.go:413` "compares the entire event including metadata" |
| `shared_paths` | `walk` appends siblings to one array, so paths of 4 and of 6 to 8 nodes that are kept become their last sibling's | `path.go:137` "IDPath uniquely identifies the path" |

Met while modelling. The models behave like the code here, but no run is about
these cases, and the properties either say nothing of them or except them:

| Where | The code | The text |
|---|---|---|
| `psm/run.go:129` | a chained event runs its own chain before its siblings | `transitions.go:16` "added to the *end* of the event queue" |
| `psm/run.go:76` | state hooks run after each transition of a chain | `transitions.go:18` "only to the final state after the transitions" |
| `psm/run.go:124` | a link that returns to its entity leaves the outer chain with an older state in memory, and the chain gives out a sequence twice | `table_map.go:75`, the sequence as "discrete integer" of an event |
| `psm/statemachine.go:462` | following a new entity runs the initial event with all its hooks, although the leader's own is in the feed | `statemachine.go:175` "does not produce side-effects or chain events" |
| `psm/statemachine.go:631` | the uniqueness check compares inner events, not entities: an event ID used for another entity of the machine is answered with that entity | `statemachine.go:607` "a repeat processing of the same event" |
| `pquery/lister.go:409` | requested sorts drop the tie breaker, so rows with equal values may be listed twice or not at all | `docs/list-annotations.md:23` "at the end of any sort query" |
| `pquery/lister.go:563` | order by text, page condition by number when descending | `sort_test.go:615` |
| `pquery/lister.go:459` | ascending order by text: 10 before 9 | `sort_test.go:68` |
| `pquery/lister.go:623` | a row without the field is null in the condition of every later page | `lister.go:604` |
| `pquery/lister.go:314` | `jsonRows` keeps the rows of a failed attempt | `docs/list-annotations.md:24` |
| `pquery/filter.go:452` | only the first filter of a request is validated, and only the first inside an `and` or `or` | the loop around it |
| `pquery/filter.go:503`, `sort.go:320`, `search.go:179` | a field with rules, but none for filtering a oneof, sorting or searching, panics instead of being refused | the error two lines further on |
| `pquery/filter.go:403` | a filter value is compared as a JSON string: numbers of 32 bits, floating point numbers and bools never match | the kinds validated at `filter.go:681` |
| `pquery/filter.go:413` | a range compares texts: 10 before 9 for numbers of 64 bits, which are JSON strings | the same |
| `pquery/filter.go:360`, `:405` | a range without bounds, and an `and` or `or` of nothing, make no SQL: no condition, no alternative of an `or`, or a statement that is malformed | |
| `pquery/sort.go:320` | a field that is sorted by when a request does not say, but not sortable, is refused when it is asked for | |
| `pquery/lister.go:443` | default filters of 64-bit numbers and timestamps are compared as numbers and objects and never match; those of wrapper fields compare with the whole object | `filter.go:244`, `filter.go:268` |
| `pquery/filter.go:439` | a oneof's value is validated by proto name regardless of case, and then used as a JSON key as it is | `filter.go:436` "sanitized by validation" |
| `pquery/search.go:233` | the JSON path is put into snake case and looked up among proto names: flattened fields, and names with digits, pass validation and then fail | `search.go:186` |
| `pquery/sort.go:205` | the check for sorts in lists goes down two messages at a time and forgets the list, and does not look at timestamps or tie breakers; such a sort panics in `JSONBArrowPath` (`path.go:162`) within `BuildQuery` | `sort.go:214` |
| `search.go:39`, `pgmigrate/psm.go:192` | two branches of a oneof may have one column: it is generated from the first branch, the printed file adds it twice and fails, and `AddIndexes` stops at it | `search.go:39` "can have the same field identifier" |
| `pgmigrate/psm.go:193` | `AddIndexes` with a search field more than last time stops at the first old column | |
| `pgmigrate/psm.go:72` | `CreateStateMachines` keeps a connection for ever | |
| `pquery/getter.go:223` | a Get request without all primary keys is always an error of the database: the state is not in the group | |
| `pquery/getter.go:258` | an entity without events is an error too: the array has a null | |
| `pquery/getter.go:232` | the join for authorisation repeats a row, and every event of it, per matching auth row | |
| `psm/gen_interfaces.go:195` | a general event data hook is handed a nil transaction, and cannot write | |
| `psm/table_map.go:175` | an error of the schema cache is answered with no table map and no error | |

Key columns named `id`, `timestamp`, `sequence`, `data` or `state` would be
columns of the event table twice; the models have none. Recursive message types
make the walk and the validation of annotations go on for ever; the models have
none either, as the comment at `search.go:37` asks.

With an initial event whose transition starts from the zero status only, as a
create event does, a replica does not even follow the leader's initial event:
its own has taken its place, and the batch fails.

## Not modelled

* Payloads, JSON, protobuf validation: a spec that fails validation is one
  more callback failure.
* Hooks as programs: they are their effects. A hook that reads other tables or
  misuses the transaction is the application's.
* The language of `tsvector`: a search finds the texts equal to its value.
  Twelve numeric kinds are three, by how JSON writes them.
* Filters in `Lister`, and pages in `Query`: filters restrict the rows of a
  query by conditions on the row alone, so `Lister`'s table is the table after
  them.
* `requestFilter` is a condition on key columns (`where` in a request). The
  lister of events is a lister with another fallback tie breaker.
* Types of columns, and the wording of SQL. Several state machines in one
  migration: their statements follow each other.
* A page size of 0 asks for one row, lists none and returns the token it was
  given, so a listing never ends; no text promises anything for it, and
  the runs use sizes from 1.
* Two concurrent calls of `FollowEvents`; the interleavings of transactions on
  one entity are those of `StateMachine`.
* Reading annotations into the table map and the options of the builder,
  data loading, value conversion: sequential, without state that changes, and
  failing at start if at all. The code generator prints Go text from
  descriptors; what the printed code does is in `StateMachine` and
  `TransitionSet`.

## Plan

The order puts the behaviour that matters most first.

1. Done: `PSMTypes`, `TransitionSet`, `Postgres`, `StateMachine`, `EventLog`,
   `StateMachineLog`, their runs, and the proofs of types, rows and replies.
2. Done: `Follower`, `Listing`, `Lister` and their runs.
3. Done: `Paths`, `PathWalk`, `Filters`, `Tables`, `Getter`, `Query`,
   `Migration` and their runs.
4. A reference definition of the code generator's choice of messages
   (`internal/protogen/state/parse.go`), if it is ever more than text.
5. Done: the proofs of the state machine's histories, of its refinement of the
   event log, of the tables derived from states, of what events cause, of
   answers to callers that use IDs of their own, of the follower, of listings,
   of migrations, and of the paths and gets of the query service.
6. Done: the proofs that the walk finds what is annotated, of the order of a
   listing without sorts, and of the columns of search fields.
7. Done: the proof that what is valid can be built.
8. Done: the proof that a list answers with the rows its request means. What is
   left of the safety properties of the runs is what the carve-outs except.
