# TLA+ models of spring-cloud-framework

A Spring Cloud demonstration system: libraries (`redis`, `common-core`), an SSO server and a JWT
server, an Activiti workflow front end, a user service and a Eureka server. Most of its 1679 files
are static assets and vendored scripts; about 5 500 lines of Java and a few hundred of page
script are the program. The modules here model the parts that keep state which several threads,
servers or people change at once.

## The system

| component | state | operations | hard behaviour | what makes it correct | here |
|---|---|---|---|---|---|
| Serial numbers (`redis/.../sn/generator`) | one Redis counter per name | `nextLong`, `nextString` | callers race on the counter, its deletion and the pool; connections break | numbers unique in a cycle, each caller gets its own, every call ends | `SerialNumber*`, `SerialCycle` |
| Redis pool (`RedisConfig`, `JedisUtil`) | connections lent, WATCH state | `getJedis`, `returnResource`, wrappers of commands | waits without limit; `subscribe` keeps a connection, `watch` gives it back at once | a connection in one place, none lent with a WATCH | within `SerialNumber` |
| Serial registry (`SerialNumberUtil`) | map from code to generator | `add`, `getCode` | check-then-act on a plain map | one generator per code | no: see Not modelled |
| SSO token store (`MyRedisTokenStore`, key generator) | six keys and two list entries per token in Redis | store, read, remove of access and refresh tokens | pipelines interleave and stop halfway; keys expire one by one | keys agree with each other and with the token's end | `Redis`, `TokenStore*` |
| SSO configuration (`AuthenticationServerConfig`) | none | grants, validity, JWT converter | - | fixes the constants of `TokenStore` | constants |
| SSO handlers, user details | none | answers | - | - | no: stateless |
| Node page: saving (`ProcessDefinitionService`, `bpmn.js`, `oper-button.js`) | three tables, the table on each open page, a dialog | choose, type, save page, save buttons | saves of two people, a statement that fails, a page that sends other columns than it shows | tables hold whole saves; what is saved is shown | `TaskConfig*`, `Filters*` |
| Node page: cells and dialogs (`bpmn.js`, `user/choose.js`, `group/choose.js`, `config.js`) | the cells, the input in one of them, the dialogs in the document | click, type, choose, load the table | answers arrive when the page has changed; every dialog of a kind has the same element ids | a choice goes to its cell, whole | `NodeCells*`, `Cells`, `Dialogs*` |
| Console lists (`main.js`, `common.js`, `page.js`, `pd/list.js`, `pd/bind-form*.js`, `pd/upload.js`, `pi/list.js`, `ProcessDefinitionController`) | the list shown, its search field and paging, the dialogs, the tables | menu, search, turn pages, bind and delete a form, deploy | answers overtake one another; what a click sends depends on which script has run | the list shows what was asked for and what was changed | `ListPages*`, `Dialogs*`, `Filters*` |
| admin-web | the same `ajax`, `load`, `loadTable` as the console | - | - | - | no: no page calls them |
| Workflow queries, instances | none of their own (Activiti's) | lists, start | - | - | no: delegation |
| Quartz start (`QuartzConfig`) | scheduler, job table | `start` | a job that cannot be loaded leaves the loop before the start | all jobs that can be loaded run | no: see Not modelled |
| HTTP client (`HttpClientUtil`, `HttpClientConfig`) | pooled connections | `get`, `post`, `postNoReturn` and variants | a connection given back twice; a response left unread on a pooled connection; a release of null | an answer belongs to its request, connections come back | `HttpPool*` |
| `DateUtil` | two shared `SimpleDateFormat` | formatting, date arithmetic | unsynchronised formats | a text denotes the date given | no: see Not modelled |
| JWT server (`JwtTokenManager`) | none on the server | create, refresh, check | refresh of a token still in use | a token is accepted until its end only | no: see Not modelled |
| User API (Feign, Hystrix), Eureka, scripts, generator | none | start, one remote read | - | - | no: framework |

Interactions. Serial numbers and `JedisUtil` share one `JedisPool` and the Redis server, across
threads and across JVMs. The token store is called by Spring's `DefaultTokenServices`, which is
outside the repository; its order of calls is what `TokenStore` takes from it (marked external).
The pages of the console talk to `ProcessDefinitionController` by Ajax calls, the service to MySQL by
MyBatis in a transaction. The list pages, the node page and the selection dialogs share `load` and
`ajax` of `common.js` and the one document they all write into; `NodeCells` and `ListPages` take their
dialogs from the same module, `Dialogs`. `PROJECT.json` lists the hazards line by line.

## Serial numbers

`SerialNumber.tla` is `RedisOnlySerialNumberGenerator.nextLong` (lines 37-58), run by `Threads` on
one key with the `Connections` of one pool. One step per Redis command, because that is the
granularity at which other clients come in:

| action | code |
|---|---|
| `Call`, `Borrow` | entry; line 39, `JedisUtil.getJedis` (blocks: `maxWaitMillis` is commented out) |
| `BorrowFails` | the pool cannot connect; outside the `try`, so the exception leaves `nextLong` |
| `Incr` | lines 41-42 |
| `Watch`, `Multi`, `Exec` | lines 43-46; `Exec` does nothing when another client wrote the key since `Watch` |
| `Return` | lines 52-57: the connection back into the pool, then the return or the recursion |
| `BreakBefore`, `BreakAfterIncr`, `BreakAfterExec` | lines 48-50: a command fails before or after the server has executed it; `jedis = null`, so `finally` returns nothing and the connection is lost |
| `Leave` | lines 55-57: return, recurse (`depth`), or a `StackOverflowError` at `MaxDepth` |

`watch[c]` is the server's memory of WATCH on connection `c`. The variables `seenAt`, `handed`,
`exhausted` and `premature` are history: they never guard an action. `Quiet` is the end of a
bounded behaviour, so that deadlock is checked elsewhere. `minValue` is stored by `init` and never
read; the model has no such constant. `Fairness` is weak fairness of the steps of a thread that
has entered `nextLong`: the JVM schedules a runnable thread, the server answers, and a thread waiting in the pool is
served if a connection stays available. Nobody is obliged to call, and nothing is obliged to break.

`SerialCycle.tla` is the promise: the next number of 1..`MaxValue`, cyclically, a number being
skipped only when its caller could not be answered. It is implemented by one thread, not by more.

What the runs show:

- `serial_shared` (2 threads, 2 connections, maxValue 2, two recursions, 3 calls each, 1 failure): one
  connection may break, so that both threads wait for the other; maxValue 2 makes every third INCR an
  overflow, and three calls go round the cycle with one thread late for the other's deletion. Unique
  numbers between two deletions, a caller returns the number it was handed, connections are in one
  place and are returned without a WATCH, the damage a late deletion can do is bounded
  (`PrematureDeletionsBounded`), a number is skipped only by a failure, and each call that waits for the
  pool ends. Two threads are enough for the run because the safety properties are proved for any number.
  `CallsReturn` rests on the bounded stack, the bounded number of calls and a connection that survives;
  without the first two, `serial_retry` shows what remains.
- `serial_single` (1 thread, 3 connections, 5 calls, 2 failures, maxValue 2): implements
  `SerialCycle`, and recurses once plus once per failure at most. Five calls go round the cycle twice.
- `serial_restart` (violation): thread A reads a number above `maxValue`; thread B does, deletes,
  and takes 1; A now sets its WATCH, which sees no change, and deletes the running cycle. The
  number 1 is handed out a second time. "The next serial number" is not what is returned.
- `serial_retry` (violation): two threads above `maxValue` keep dirtying each other's WATCH with
  their INCRs; both transactions abort, both recurse, until the stack is full. The comment on
  line 54 promises a number later. `MaxDepth` 3 stands for the stack: the pattern has period one recursion.

What is proved (`SerialNumberProofs.tla`), for any finite number of threads, any set of
connections, any `MaxValue`, `MaxDepth`, calls and failures, from `SerialAssumption` alone:

1. `TypeCorrect` and `ConnectionSafety`. Types are not inductive: that `Return` gives a connection
   and not null into the pool follows from `ConnectionsInOnePlace`, and conversely; the two
   are proved together (`StepKeepsTypes`, `StepKeepsConnections`).
2. `OverflowKnowledge`. The strengthening `OverflowInv` adds that no thread remembers a generation
   to come. `CounterSteps` says how a step moves counter and generation, `OverflowSteps` how a
   thread gets into the overflow branch.
3. `UniqueWithinGeneration`. Needs `HandedWereCounted`: every number handed out in the running
   generation is at most the counter, none belongs to a later one. So the next INCR is new.
4. `PrematureBound`. `premature + |Stale| <= (|Threads| - 1) * exhausted`, where `Stale` are the
   threads that are about to delete and whose reading is of an older generation. Deleting an exhausted
   counter makes all other threads stale at worst, and pays for them with one factor; a premature
   deletion is made by a stale thread, which leaves the set, and makes no new one: by `OverflowKnowledge` a
   thread that is not stale stands on a counter above `maxValue`. `StaleFinite` carries the cardinalities.

5. `NoWatchInPool`. `WatchInv` adds that a connection watches nothing outside `multi` and `exec`
   either, so that `Return` has nothing to give away.
6. `OwnNumberReturned`. `NumberInv` follows `ret` through the branches: -1 up to the INCR, above
   `maxValue` in the overflow branch, this call's own number or an overflow when the connection is given back.
7. `SkippedBound`. `SkippingSteps`: the numbers nobody was handed grow only by an INCR whose answer is
   lost, and that counts a failure.
8. For one thread: `AloneRecursesOnce` and `AloneImplementsCycle`, the refinement of `SerialCycle`.
   `AloneInv` says that nobody else writes the key between WATCH and EXEC, so the transaction is never aborted, and
   bounds `depth` by the failures so far. The two theorems assume `Threads = {t0}`; for more threads they are false.

Only model-checked: `CallsReturn`. Liveness under fairness is beyond the proof system.

## Token store

`Redis.tla` has the six commands the store uses, as operators on a function from keys to value and
deadline. It is external: Redis is not in the repository. `TokenStore.tla` drives the methods of
`MyRedisTokenStore` in the order of the token services. A method becomes the list of
commands it sends; a worker has a queue of commands, and `Exec` performs one at a time, because a
pipeline is not a transaction. Where the code reads an answer and branches, an action does so when the
queue is empty: `GetAccessToken` and `Verify` (lines 88-101), `Taken` (235-252), `LoadAuthentication`
and so on. `Crash` forgets the rest of a queue. `Tick` is half a second: `getExpiresIn` cuts
off fractions, and a token in its last half second is not expired and has no second left, so its keys get
EXPIRE 0, which deletes them.

Data. A token is a number, standing for the access token and the refresh token inside it: the JWT
converter gives every new token fresh values. One client and scope, hence a user's name is what the key generator
tells apart. `RefreshValidity` is longer than a behaviour. The WeChat granter always refuses
(its user lookup is not implemented), so the grants are password and refresh. Refresh tokens are reused.

- `tokens_serial` (one request at a time, 4 requests of one user, 3 tokens, 3 ticks, validity one
  second, one crash anywhere): the next login after a crash grants a token that can be used, because `getAccessToken` and
  `createAccessToken` store a found token again. Without a crash, a key does not outlive its token, a readable token has its
  authentication, the list of the user is complete, and a token that a refresh replaced stays gone. Four requests are log in, refresh, log in
  again, check; three ticks pass the end of the first token and reach the last half second of the next.
- `tokens_race` (two requests of two users interleave, 3 requests, no time passes): no key stays for
  ever, nobody is granted another's token, no list loses a token. Time is left out here: with it, lists expire as a whole and the next paragraph applies.

Where the properties stop, TLC showed why. `ReadableIsAuthenticated` is for one request at a time: with two, a login that has found a
token stores it again while a refresh removes it, and leaves a token that can be read without its
authentication. `UserListComplete` is for tokens with a whole second left: storing a token again in its last second sends EXPIRE 0 to the
list, which disappears with the other tokens in it. It also excludes a pipeline the clock overtakes (`stretched`):
a list may expire between the RPUSH and the EXPIRE. The same runs with five requests or a validity of two seconds
(15 million states) found nothing else. The runs stop at their bounds, so deadlock is not checked.

What is proved (`TokenStoreProofs.tla`), for any workers and users, any validity, any number of tokens,
requests, crashes and ticks, from `TokenAssumption` (`Forever`, the deadline of a key without one, is no number):

1. `GrantsAreOwn`. The inductive invariant `Inv` is types (`Typed`), what the database holds (`Stored`: the key
   of a user leads to a token of that user, that of a refresh token to a user), and what each worker knows
   (`Knows`). A worker in "found" has asked one question, or has its answer; a worker in "old" or "taken" has its answers or
   their GETs are still to come; what it is about to SET fits the key. The answer in hand may be out of date when the
   worker acts on it; the invariant holds because tokens are only added (`KnowsMore`) and a token never changes its user.
   Each action gives a lemma on what it sends (`...Sends`); `SendingKeeps` and `ExecKeeps` need no more than that.
2. `AllKeysExpire`. `ExpiryInv`: in every queue a SET or RPUSH is followed by an EXPIRE of its key (`Timed`), and a
   key without an end has an EXPIRE in some queue. `ApplyDeadline` says how a command moves a deadline: only SET
   and RPUSH leave a key without one, and the EXPIRE behind it in the same queue is still to come. If another
   worker's DEL comes between, that EXPIRE meets no key.
3. `KeysEndWithTokens`. `EndInv`: as long as the clock has overtaken no pipeline, each EXPIRE on its way and each deadline of a
   token's key is within the token's time (`InTime`); it uses `WholeSeconds`, that whole seconds are rounded down.

4. `TypeCorrect`. `Inv` again, with `LifeInv`: a key in the database has time left, so that no reader meets a key that has ended.

The other four are about one request at a time and assume `Workers = {w0}`. What they say between two requests is not true within one, while commands are still to be sent; each
invariant is therefore about the database *and* the rest of the queue.

5. `AloneGrantsAreUsable`, whatever died before. `UsableInv`: the access key and the authentication of the token about to be granted *last*
   (`Lasts`): they have an end in the token's last second or no end yet, or the SET or EXPIRE that makes it so is in the queue.
6. `AloneReadsAreAuthenticated`, if none died. `PairInv`: the commands on a token's access key and on its authentication are `Ordered`
   in the queue: the access key is set first and the authentication gets its end last, both the same number of seconds; what is
   deleted is not stored in the same pipeline, and the access key goes first. So `Paired` holds: the access key never outlives
   the authentication by what is left of the queue.
7. `AloneReplacedStayGone`, if none died. `ReplInv`: a replaced token with more than a second left (`Lively`) is where no login looks
   (`Passed`, `Chooses`); one in its last second may be found and stored again, but for no time (`Spent`, `Removed`).
   While a token is taken out, what answers its GET is its own authentication (`TakesOut`).
8. `AloneListsAreComplete`, if none died and the clock overtook no pipeline. `LatestInv`: a login finds the latest token of its user
   (the earlier ones are `Outdated`). `TakesInv`: the token being taken out is gone or about to go, and nothing stores it. `ListInv`: before its last second, a token that
   can be read is in the list or about to be pushed, and the list lasts until that second or is about to (`Indexed`); an LREM takes out only what is
   gone. Storing a token sets the end of the whole list to the end of that token: the other tokens stay listed because it is the latest.

7 and 8 assume `NamesApart`: no name of a user is the number of a token. Numbers stand for JWTs and names for what the key
generator makes of the user, a hash; the model writes both into the same kinds of keys and answers. For two workers, 5 to 8 are
not proved; `tokens_race` checks `UserListComplete` while no time passes, the first paragraph after the runs says why 6 is false.

## Node page: saving

`TaskConfig.tla` has the pages of several administrators and the service. A page holds four cells for each
node (ids and names of users and groups); `Row` is the row `bpmn.html` renders, with the radio button
first, and `Config` what `bpmn.js:82-97` reads out of it. `SubmitPage` and `SubmitDialog` are the two Ajax
calls. On the server `Begin` is the deletion with which each save begins, `Insert` one row of the loop,
`Commit` and `Fail` its two ends; `InsertPairs` has the exception when there are more ids than names. A
text of a cell is the sequence of its parts between commas; `Split` keeps Java's one empty part.
External: the database. `Begin` waits for the running transaction, as the row locks of a DELETE do,
and a reader sees committed tables only. The dialog finds its lines by LIKE (`Within`), the service deletes by equality.

- `config_saves` (2 administrators, 3 nodes, two of them tasks of which one id contains the other, 2 edits, 3
  saves): a text may be typed into a cell by hand, so that there are more ids than names. The tables always hold whole saves; a stored button was typed in the dialog of its task or of a
  task whose id contains it; a save loses no button of its own task that was there when the dialog was
  opened. Two administrators and three saves give a save that waits, one that fails and one that follows.
- `config_shown` (violation): the page sends the radio's HTML as the node's id and shifts the other columns, so
  a save that is answered with "configured" leaves nothing the page finds again.
- `config_groups` (violation): the group table is filled with parts of what came as user ids.

The runs stop when the bounds are used up, so deadlock is not checked.

What is proved (`TaskConfigProofs.tla`), for any administrators, nodes, choices, lines and numbers of saves and edits, from
`TaskConfigAssumption` (null is nobody; a node has a name and a type; LIKE finds the text itself, and what contains a text that contains
another contains that one):

1. `TypeCorrect`, from `Types`, which says for each kind of save what its statements insert.
2. `SavesAreWhole`. `Saving`: outside a transaction the tables are what the last commit left; the running transaction has
   executed a first part of the statements of its save on those tables, after the deletion it began with, and the rest is to come.
3. `ButtonsWereTyped`. `Pending` follows a line from the dialog into the request and its statements; `Origins` says that each line in
   a table, a statement or a dialog was typed for a task whose id contains the task it is under. That LIKE is transitive is
   what makes it inductive: a dialog copies a line from one task to another, and the next dialog copies it on.
4. `DialogKeepsButtons`, an action property. `Known`: as long as nothing was committed since a dialog was opened, it holds all buttons of
   its task but those its user removed, and its request holds what it held.

These are about what filters and concatenations leave, for sequences of any length. `Filters.tla` has the filter the models use (`Kept`, a
`SelectSeq` whose test is a set), and `FiltersProofs.tla` what it and `FlattenSeq` do. An induction over sequences is stated there
without an operator as parameter: a *set* of sequences with the empty one, closed under `Append`, holds all (`SequenceInduction`).

## Node page: cells and dialogs

`NodeCells.tla` is the table of one open page, with what happens in front of the server: `TaskConfig` lets an
administrator choose in one step what here takes a click, a dialog, a list and an answer for each.

| action | code |
|---|---|
| `ClickCell` | `bpmn.js:23-80`: an input with the cell's text takes its place; the input that was there loses the focus |
| `Leave`, `Blurred` | the blur handler writes the text back as the cell's ids |
| `ClickInput` | `load` of the dialog, with a callback that holds the cell of that moment |
| `DialogArrives` | the dialog's `<div>` is filled, and its script opens the *first* dialog of the kind in the document |
| `ListArrives` | the list of users or groups goes into the first dialog's `<div>` |
| `Submit` | the rows that are checked in the first list go to the callback of the first dialog |
| `Cancel`, `Hide` | `hidden.bs.modal`: each handler removes the first dialog |
| `ClickTab`, `TableArrives` | `config.js`: the table is loaded anew; cells of the old one are detached |

`Dialogs.tla` has the document both page models share: a dialog has a `<div>` whose place is fixed when it is asked
for, but what finds it is an id that all dialogs of a kind have. `Cells.tla` is the promise: a cell changes by a whole choice, by
typing ids, or by a table that is loaded.

- `node_cells` (2 tasks, 3 dialogs or tables asked for): three loads are two dialogs that overtake each other and a
  table loaded under them. `NamesMatchIds`: the text of an input never overwrites a choice (the dialog takes the focus, which writes
  the text back first). `LandsWhereAsked`: a choice goes to the task it was asked for, unless two dialogs of a kind
  were asked for at once; then it does not, which is why the history counts that case. `ImplementsCells` is the refinement.
- Proved (`NodeCellsProofs.tla`, on the lemmas of `DialogsProofs.tla`), for any tasks, selections, texts and numbers of loads:
  `TypeCorrect`, `NamesAgree`, `ChoicesLand` and `CellsImplemented`, the refinement. Types alone are not inductive: `InputCurrent` says that an
  input holds what was typed or what its cell holds, and that no dialog is open beside it. `Lone`, for
  `ChoicesLand`: unless two were asked for at once, a kind has one dialog at most, whose callback is its own.

## Console lists

`ListPages.tla` is one browser page of the console with the server behind it. `Load` is `load` and `loadTable` of
`common.js`: it sends, and nothing stops a second one or orders the answers. `Serve` is the moment the database answers,
`Arrive` and `LoadFails` the moment the page takes the answer; between them others may change the tables (`Others`).

| action | code |
|---|---|
| `Menu` | `main.js` |
| `Search`, `ClickSearch` | the "search" button of the lists; in `pi/list.js` it ends in an exception |
| `TurnTo`, `ClickPage`, `EnterPage` | `ajaxPage` of `page.js`; it replaces the function that collects the conditions by the object of the first call (`params`) |
| `Wired` | `initPageOption` and the paginator, which throws for a current page beyond the last; the list's buttons are bound after it |
| `AddForm`, `FormArrives`, `SubmitForm`, `AnswerInsert`, `CancelForm` | `pd/bind-form-list.js`, `pd/bind-form.js` |
| `DeleteForm`, `AnswerDelete` | `pd/bind-form-list.js` |
| `OpenUpload` ... `AnswerDeploy` | `pd/list.js`, `pd/upload.js` with Dropzone (external) |
| `Rendered`, `Execute`, `ExecuteFails` | `ProcessDefinitionController`, PageHelper (external), the tables |

- `list_pages` (2 keys, 2 form bindings and 1 process definition at the start, 1 row a page, 2 pages or dialogs asked for, 1 button that
  changes a table, 1 change by others; 2.6 million states). One row a page makes two forms two pages, so that a deletion
  shrinks the list under the page that is shown. Two loads overtake each other; a save adds a third, by its click on "search".
  `AskedIsShown` and `RefreshShowsTheChange`: when everything has arrived the list shows what
  was asked for last and has the change that was made, unless loads overlapped (then either may be wrong). `FrozenOnlyWhileLoading`: the conditions
  `ajaxPage` has frozen are used for one load only. `DeadOnlyWhenListShrank`: a list whose buttons do nothing has lost rows, or
  a page of another search was asked for. `OneBindPerClick`, `BlockedOnlyByReordering`: a form is bound once for each click unless "add" was pressed
  again before the dialog was there; the page is covered by a lost backdrop only if those two answers changed places.
- Proved (`ListPagesProofs.tla`), for any keys, page size, tables, typed texts and numbers: all of these and the types. `ListInv`: unless loads overlapped there is one at most, its answer or the page shown has the
  conditions asked for last and is not older than the last refresh (`InStep`). `FormInv`: `LoneForm`, one form dialog
  whose script ran once, and `InOrder`, dialogs lie in the order of the clicks and only the first is open.
  `Growing`, for `DeadOnlyWhenListShrank` (`AliveUnlessShrunk`): unless a row was deleted or a page was turned under another key, the page that was asked for
  is there, and is still there when the answer is taken; it rests on `KeptGrows`, that a filter leaves no less of a longer table
  (`MorePages`).

No property of the two page models says that an answer must come: the browser gives none, and an Ajax call that fails is not reported.
The runs stop when the bounds are used up, so deadlock is not checked.

## HTTP client

`HttpPool.tla` has the requests of all methods of `HttpClientUtil` to one host over the connections of its
route. `get` reads a body and throws for a status that is not 2xx; `post` stands for `postMultipart`, `post` and
`postJSONBody`, which read the body whatever the status; `noReturn` does not read it. Outside the repository, and
modelled from what the calls rely on: HttpClient gives a connection back when a response has been read to its end
(`ReadToEnd`) or a request has failed (`Abort`, which closes it), and after that ignores the second release in
the `finally` block (`held`). The response parser skips what is not a status line (`SkipLeftover`): the rest of an
earlier body, and with it the next head when the last line of that body does not end. What the code decides: no retry
(`SendTooLate`), 20 seconds of keep-alive for a response that is read and 30 for one that is released unread, where the
server closes after 20 (`Idle20`, `Idle30`), a socket timeout of 8 seconds (`Break`, `NoHeadLeft`), a lease without a timeout.

- `http_requests` (2 threads, 3 requests each, 1 connection, 1 failure): one connection means that every lease reuses
  what another request left and that one of the threads waits; three requests reuse a connection after a failure and after a
  `postNoReturn`. A connection is in the pool or with one request; an answer is read by its own request;
  requests fail for what came before them at most once per `postNoReturn`; each request that waits ends. Fairness: a
  thread inside a request goes on, and a request that does not fail is answered.
- Proved (`HttpPoolProofs.tla`), for any number of threads, connections, requests and failures, from `HttpAssumption` (null is no request):
  `TypeCorrect` and `ConnectionsReturned` from types, `Holding` (who holds what at which place) and `Counted`
  (a thread inside a request has counted it); a type alone does not say that `Release` gives back a connection, since
  a request that could not be built has none in its context. `AnswersReachTheirRequest` from `OwnInv`: on a pooled connection nobody
  has asked, and only bodies lie on its wire; before the head of its own answer a thread meets nothing but those. `SpoiledBound` from `SpoilInv`: the requests
  spoiled and the connections kept for 30 seconds are together no more than the responses left unread. A release of a held connection
  raises both sides, a request that fails for it moves one from the second number to the first (`KeptSteps`); `CleanInv` says that
  on every other connection nothing is left and the server has not closed it, so only the network can fail.
- Only model-checked: `CallsEnd`, liveness.

## Files

`X.tla` is the model, `XProps.tla` its properties, `MCX.tla` the instance TLC checks, `XProofs.tla` the theorems.
Definitions marked "a variant the properties reject" are mutations of the code: with such a variant in place
of the original, the run named in `PROJECT.json` finds its property violated. They are used by no run otherwise.
`FiltersProofs.tla` has the lemmas the other proofs share; `DialogsProofs.tla` those on the document of both page models.

## What the proofs do not reach

Each safety property of each run that passes is also stated by a theorem, with the restriction its section names: one thread, or one request
at a time, where the run checks it for one. Liveness (`CallsReturn`, `CallsEnd`) and the fairness it needs stay with TLC. Induction
over data was needed for filters and concatenations only, and possible there because the predicate could be written as a
set (`FiltersProofs.tla`). No module here declares a recursive operator.

TLC checked each inductive invariant on the instances of the runs before its proof. Left to do: an abstract specification of
whole saves that `TaskConfig` implements (`SavesAreWhole` is its core), and one of the token store for one request at a time.

## Not modelled

- The wrappers of `JedisUtil` besides the two calls of `nextLong`: each borrows, sends one command and returns. `subscribe` keeps its
  connection and `watch` gives it back at once; nothing in the repository calls either.
- `SerialNumberUtil`: its map is filled when the server starts. The check-then-act is in a private method that nothing calls.
- `QuartzConfig`: one loop when the server starts. A job class that cannot be loaded leaves the loop before the scheduler is started,
  so no job runs; that takes no second step to see.
- `DateUtil`: formats and calendar arithmetic of the library, called from one method that nothing calls. Its two
  `SimpleDateFormat` objects are shared without a lock; what two threads would then read is inside the library.
- `authentication-server`: tokens carry their own state, the server keeps none. Feign and Hystrix callers: one read with a
  constant answer in its place. Eureka, scripts, generated code, value objects: no behaviour of their own.
- SSO handlers and user details: stateless, constant answers. Queries of instances and definitions: delegation to Activiti.
- admin-web: its `common.js` has the functions of the console's, its pages call none of them.
- In the token store: the two `findTokensBy...`, which read a list; tokens of a client alone and tokens without an end, which the
  configured grants do not issue; several clients.
- In the HTTP client: redirects, several hosts, `destroy`, cookies.
- On the pages: a second deployment dialog at a time; keys contained in one another in the search of the lists (LIKE); the paging of the lists within
  the choice dialogs, which is `page.js` again, and their search, which ends in an exception; a reload by the browser; the windows
  that show the XML and the image of a definition, which change nothing; string helpers of `common.js` the pages do not use.
