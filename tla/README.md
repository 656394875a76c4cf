# Verification of be-code-challenge

TLA+ models of the ping and pong services in `src/` and of the scripts of their
coverage reports, TLC runs that check them on small instances, and TLAPS proofs of the properties that matter most for
every instance. File and line references are to the repository.

## 1. The system

Several **ping** processes attempt, once a second and on request, to send a
message to **pong** over HTTP. Before an attempt a ping process must get one of
`config.num` lock files, which all ping processes on a volume share; this is
the "rate limit across all processes" of the repository's README. **pong** lets
requests through a Guava `RateLimiter` or answers 429, and publishes every
message it handled to a broker, from which **other** stores it in PostgreSQL.
The message itself is a document in MongoDB which all ping processes share.

    cron (1 thread) --.                     .-> MongoDB: the message
                       +-> PingService.send +
    GET /ping/send  --'    |                '-> FileLimitedLock: lock files
                           v  HTTP (OpenFeignClientProxy)
                    ThrottlingInterceptor -> PongController -> PongService
                                                                 v  broker
                                                     ReceiveService -> PostgreSQL

Apart from the services, `src/ping/jacoco` and `src/pong/jacoco` hold a coverage
report each, whose pages run two scripts: `sort.js` sorts their tables and
passes the sort on by the links, and `prettify.js` puts a span around each
token of a source listing. A page runs one of the two; they meet in the
browser, which lets the reader act only between their calls. The scripts of the
two reports are the same files byte for byte; lines are given for ping's.

    page with a table:    onload -> initialSort      click -> toggleSort
                                        '--> sortColumn --> setHash --> links
    page with a listing:  onload -> prettyPrint -> doWork <-- timer
                                                     '--> applyDecorator
        extractTags -> decorate (lexers, one in another) -> recombineTagsAndDecorations

### Inventory

| component | state | operations | what makes it correct |
|---|---|---|---|
| ping `FileLimitedLock` | channels and streams per process; the operating system's lock table | `init`, `lock`, `unlock`, `destroy`, end of the process | one user per file; at most `num` users; no slot lost by an error, a shutdown or a crash; slots keep being handed out |
| ping `PingService`, `PingController`, cron job | the lock, the message and the response of each attempt | `send`, `getSendMessage`, `setSendMessage` | every path gives its slot back; the message sent is a stored one; every attempt ends, with its true result |
| ping `MongoDBConfiguration` | the document, shared | `init`: check, then insert | the default never replaces a message; racing starts converge |
| pong `ThrottlingInterceptor` | stored permits and next free ticket of the limiter | `init`, `filter` | rate over a window and over the life of the process; no refusal without cause |
| pong `PongController`, `PongService` | none | `respond`: answer, publish | what is answered was published with the trace id of the attempt |
| other `ReceiveService` | rows of `pong_message` | `onMessage` | no message lost or stored twice |
| `module/feign` proxy and factory | url of the factory bean | `getObject`, `invoke` | one well-formed URL; exceptions reach `send` |
| `module/feign` registration | bean definitions | `registerBeanDefinitions` | names, urls and paths resolved from the annotation |
| `module/trace-base` scheduling | tasks kept until the registrar arrives; one scheduler thread | `addCronTask`, `addTriggerTask`, `setTaskRegistrar`, `refresh` | every task registered once; no run overlaps another |
| `module/trace-base` trace ids | the MDC of each thread | `TaskRunnable.run`, `WebTraceFilter.filter` | one id per attempt, none left over from another |
| `module/trace-base` `StringBuilderPool` | builders idle and borrowed | `getObject`, `returnObject` | no builder used by two threads |
| `module/trace-mq` | message headers | interceptor callbacks | the id of the sender arrives |
| report, `sort.js` | rows and headers of the table, hashes of page and links | `initialSort`, `toggleSort` | mark, rows and links agree; the sort goes along to the next page |
| report, `prettyPrint` | list of elements and index, the document, `newlineRe` | slices of `doWork`, the timer, the callback | each listing decorated once, all of them before the callback, in spite of changes in between |
| report, `applyDecorator` | text, tags, decorations, the output so far | `extractTags`, `decorate`, `recombineTagsAndDecorations` | what is to be read stays the same; spans and tags nest |
| report, `combinePrefixPatterns` | the groups that capture so far | one rewriting for each pattern | the combined pattern matches what each did |

### What is hard

* *Interleaving.* The walk over lock files and the check-then-insert on the
  shared document (twice: at start and in `send`) are sequences of steps between
  which other threads and processes move.
* *Crashes and shutdowns.* A lock is freed by the operating system when its
  process ends and when its stream is closed, also under a thread that is still
  waiting for pong's answer and will release "its" lock later.
* *Failure.* MongoDB, the HTTP client, the broker and file I/O may each fail in
  the middle of an attempt.
* *Time.* The limiter of pong stores up to a second of permits and gives one in
  advance; the cron trigger skips the seconds that begin during a run.
* *Delivery.* The broker may deliver a message more than once.
* *Continuations.* `prettyPrint` holds a list of elements over timers and over
  its own changes of the document, which cut off some of them; `sort.js` holds
  its state in four places that clicks, links and the browser's history change,
  and a click may come before the onload that prepares for it.
* *State between calls.* A regular expression with the flag g, the column of the
  tab expander and the open span carry over from one chunk or element to the
  next, while chunks end wherever a tag or a token does.

The list of hazards with their lines is in `PROJECT.json`.

## 2. Modules

| module | models | state and actions in terms of the code |
|---|---|---|
| `ConcurrencyLimit` | what the limiter promises | `active`: the clients past the limiter; `Admit`, `Retire` |
| `FileLimitedLock` | `FileLimitedLock.java` | `open[j]`: channels that process j has open; `owner[f]`: the lock table; `pc[t]`, `idx[t]`: where a thread is in `lock`. `Start` = `init`; `Lock`, `TryLockAcquires`, `TryLockFails`, `LockReturnsNull` = `lock`, one channel a step; `Unlock`; `CloseStream` = one iteration of `destroy`; `Crash` |
| `LockContention` | the same, with the history of who a walk met | |
| `PingService` | `PingService.java`, `MongoDBConfiguration.init`, the calls from `PingController` | extends `FileLimitedLock`: each of its actions is one of the limiter's together with what `send` does around it (`Acquired`, `Limited`, `Finally`), or leaves the limiter alone (`FindOne`, `InsertDefault`, `SendRequest`, `Answer`, ...). `stage[t]` is the place in the try block, `doc` the document |
| `ThrottlingInterceptor` | `ThrottlingInterceptor.java` and Guava's limiter | `FilterPasses`, `FilterRejects` = the two branches of `filter`; `CreateLimiter` = `init`; `Tick` moves the clock |
| `PingPong` | the system of both | extends `PingService` and `ThrottlingInterceptor`: `Clock` is `Tick` with the cron trigger; `PongHandles` joins a request to the filter; `status[t]` is what pong answered |
| `StringBuilderPool` | `StringBuilderPool.java`, `TraceIdUtil.java` | `idle`, `allocated`: the pool's builders; `text[b]`: a builder's content; `sb[t]`, `pc[t]`: a thread in `generateTraceId`, one call on the pool or on a builder a step |
| `Delivery` | `PongService.java`, `ReceiveService.java`, the broker | `pong[r]`: where `respond` is (`Respond`, `SendReturns`, `SendThrows`); `queue`, `acked`: the topic; `at[c]`, `taken[c]`: a thread in `onMessage` (`Take`, `Save`, `SaveFails`, `Return`); `rows[r]`: rows in `pong_message` |
| `TraceContext` | `TaskRunnable.java`, both trace filters, the header of the HTTP request, `MqInterceptor.preSend` | extends `Delivery`: `mdc[t]` is the MDC of each thread of ping and pong; each of `Delivery`'s steps is taken with what it does to ids |
| `FeignClient` | `module/feign` | `bean`: the factory beans (`Register`), `proxy`: their products (`Inject`), `call`: the last request (`Invoke`) |
| `CoverageTable` | `sort.js` | `rows`, `style`, `links`, `hash`: what the reader sees and will follow; `back`: the browser's history; `loaded`: onload was run, and with it `initialSort` (`InitialSort`), which sets `window.linkelementids`; `wanted`: the sort the reader asked for last, for the properties. `Click` = `toggleSort` with `sortColumn` and `setHash`, which before onload throws at the links; `Load`: the next page is shown; `Follow`, `Reload`, `GoBack` = the reader |
| `PrettyPrint` | `prettyPrint`, `doWork`, `isPreformatted`, `replaceWithPrettyPrintedHtml` | `elements`, `k`: the list and the index; `orphan`: elements that were cut off from their parent; `times[n]`: how often the text shown in `n` was decorated. `Skip`, `Rewrite` = an element; `Pause`, `Resume` = the end of a slice and the timer; `WhenDone` |
| `ReportSite` | the pages of a report in a browser | extends both; a page that is left takes its timers with it (`Leave`) |
| `PrefixPatterns` | `combinePrefixPatterns` | `rewritten`, `capturedGroupIndex`; `RewriteNext` = one pattern. A regex is a sequence of groups, references, carets, letters, letters written as their codes, and sets |
| `Lexer` | the languages of `prettify.js`: `sourceDecorator`, the calls of `registerLangHandler`, `langHandlerForExtension`; the tokenizer and the choice of a rule in `createSimpleLexer` | operators only: `TokenLength`, `RuleOf`, `EmbeddedPart` |
| `Highlighter` | `applyDecorator` | extends both. `ApplyDecorator` = `extractTags` and the first call; `frames`: the calls of `decorate` still to be made, the inmost first; `Decorate` = one token, `Return`, `Catch`; `w`: the variables of `recombineTagsAndDecorations`, with `ConsumeTag`, `ConsumeDecoration`, `Finish` |
| `..._proofs` | theorems of the module they are named after | |
| `MC...` | instances for TLC | |

`PingPong` composes the two services up to the answer, `TraceContext` the three
services for the message behind it. They meet in the handler: `PongHandles`
with status 200 is a `Respond` whose send returned, with 500 one whose send
threw.

### Abstractions

A message, a process, a thread and a directory are values of small sets. A
MongoDB operation is one atomic step, since the server executes it atomically
on one document, and may fail; an insert that fails may have been applied, and
so may a save in PostgreSQL. The message in flight is not modelled separately
from the thread that waits for it: the HTTP client is blocking. Guava's
arithmetic, a `double` of permits and microseconds, is exact in ticks because a
second is a multiple of the time to earn one permit; stored permits are counted
by the ticks they took to earn. A message at the broker is named by the request
it was made for, and what is there of it is a number of copies. A trace id is a
number, in the order of making: that ids differ is assumed (`TraceIdUtil` draws
them at random), and `StringBuilderPool` shows that an id is put together from
its own parts. `FileChannel.tryLock` is one step; the JDK enters a lock in the
table of its process before it asks the operating system, so that an overlap
may also be reported against a thread whose own `tryLock` is about to fail. A
URL is a sequence of tokens: a protocol, a slash, a word or a
variable; the protocols that `java.net.URL` knows besides http and https are
all "ftp://". The arguments that the proxy gives a request as a form, which a
GET carries as a query, and bodies are left out. Html is a sequence of pieces, and a text a sequence of characters some
of which stand for a word ("k" for a keyword, "S" for script): texts have no
backslashes, so that nothing is escaped in strings, and no declarations,
comments or xmp elements in markup, whose rules are left out. A table is its
header and rows, with the numbers that the cells' ids have in the report, and a
page is shown with its whole table: clicks while its rows still arrive are left
out. An element of a page is its name, its parent, its class and the places of its
newlines. The names of an XHTML document are in lower case (`Xhtml`). Left out
in `prettify.js`: the line ends for Internet Explorer, the number of the first
line, a newline at the very end of an element, and `normalizedHtml`, which
stands in for `innerHTML` in Safari 2 and keeps no state. Log lines are left out, except that the result an attempt would log
is `result[t]` and the id pong logs under is `logged[r]`.

External code that the models contain because the properties depend on it is
marked `external` in `PROJECT.json`: the JDK's `FileChannel.tryLock` and
`FileLock.release`, the freeing of locks by the operating system, the unique
`_id` of MongoDB, Guava's `SmoothBursty` limiter, commons-pool2's
`GenericObjectPool`, the RocketMQ producer, broker and consumer, hutool's
formatting of URLs, the browser with its document, timers and history, and the
pages as the report generator writes them.

A mutated form of a definition, marked `Mutant:` in a comment, stands before
some definitions. They are not part of the models. Each shows that one of the
properties notices a plausible bug in that place; `PROJECT.json` pairs them.

## 3. Runs

A run is a `.cfg` file of the same name. "Violated" runs check one statement of
the repository's own texts that the code does not keep; see section 5.

| run | question | bounds |
|---|---|---|
| `lock_shared` | Is the limiter correct under any interleaving, fault, shutdown and crash, does it implement `ConcurrencyLimit`, and when may a call be limited? | 3 processes, 4 threads, 2 files |
| `ping_send` | Are requests bounded and slots returned on every path of `send`, is the message sent a current one, does the default never replace it; do attempts end, do slots keep moving, do racing starts converge? | 2 processes, 3 threads, 1 file, 2 messages |
| `throttle_rate2` | Which rates does pong's filter keep, and does it refuse without cause? | 2 permits a second, 11 ticks of a quarter second, restarts |
| `system_all` | Is an attempt's result what pong answered to it, in the whole system? | 2 processes, 1 slot, 2 requests, all kinds of stops |
| `system_rps` | (violated) Do at most `num` requests leave in a second? | 2 processes, 1 slot, 4 requests |
| `pool_two` | Do threads ever share a builder or an id's text, does the pool keep its size, does everyone get a builder? | 3 threads, 2 builders, 1 of which may idle |
| `delivery_faults` | Is a message lost or stored twice by anything but the broker and a failing save? | 2 requests, 2 consumer threads, 2 copies, 1 crash |
| `trace_ids` | Is the id of an attempt the one in the row, and are ids not mixed up between uses of a thread? | cron and event-loop thread of ping, 2 threads of pong, 1 consumer, 2 requests, 3 ids |
| `feign_urls` | Is a request's URL the sum of its parts, in every spelling, and which protocols can it have? | 2 clients, 42 declarations, 5 methods, 3 messages |
| `report_site` | Do mark, rows and links of a table agree on every way through a report, with clicks before onload and after it, and does `prettyPrint` decorate each listing once and come to its end? | 6 pages, 3 columns and rows, 19 elements, 3 addresses to go back to |
| `page_newlines` | (violated) Do newlines go where an element's style does not preserve them? | the same |
| `highlight` | Does a decorated listing read as it did, do spans and tags nest, do the lexers cover the text once, do combined patterns match what theirs did? | about 1 000 listings: of 3 pieces in Java, longer ones in other languages; 90 lists of patterns |

### What they show

*Limiter.* A lock file has one user at any moment, within a process (where the
JDK reports an overlap by an exception) and between processes (where it is
null), through shutdowns, which close files under their users, and crashes.
Therefore at most `num` threads are past it. `LimitedOnlyWhenContended` says
what a refusal means: a call returns null only if its walk overlapped with as
many other attempts as there are files. It cannot be strengthened to "all files
were locked at one moment": a file that is freed behind the walk is not seen.
It is stated for the time before the first failed file operation or shutdown
(`calm`): while `destroy` runs, a single rival is enough, because a closed file
is skipped.

*Attempts.* All paths through the `try` block of `send` lead to the `finally`
block, and what a thread unlocks there is its own lock or one that is gone.
`RequestsBounded` counts requests at pong of processes that are not shutting
down: `destroy` frees files under requests in flight, so during a shutdown
there may be more. The message that is sent was the stored one at some moment
of the attempt. Neither of the two places that insert a default replaces a
message.

*Throttling.* What the code keeps are two rates: in any window of the life of a
limiter, the requests handled are at most what the rate allows for the window
plus one second's store plus one permit in advance (`WindowRate`), and since
the start at most the rate plus one (`LongRunRate`). A 429 always has a cause:
a request that passed less than one permit's time ago.

*Whole system.* Results are told apart as pong answered (`HonestResults`): 429
is logged as throttled and only 429.

*Delivery.* A message that the broker has gets a row, or its save failed and
was swallowed; a crash of other loses nothing, because messages are
acknowledged after `onMessage` returned. Duplicate rows come only from copies
that the broker stored or delivered twice: other adds none.

*Trace ids.* From an attempt to the row there is one id over three services,
although threads on both sides are used again, the MDC of pong's threads is
never cleared, and `MqInterceptor` writes to the MDC as well. A cron run does
not go on with the id of one that returned.

*Clients.* URL, path and mapping are joined by one slash in each of the 42
spellings in which a client is declared, except when the URL itself ends with
one (`UrlWellFormed`). A URL with a protocol that nobody knows ends the start.
One with a protocol that the JDK knows and HTTP does not serve does not: the
factory puts "http://" in front of it, and the call goes to `http://ftp://...`.
`CallsAreHttp` says that this is the only way in which a request has two
protocols, and `UrlWellFormed` excepts such clients. `getObject` writes the URL it made
into the factory bean, which is sound because the container calls it once.

*Tables of the report.* After any clicks, links, reloads and ways back exactly
one header is marked and the rows are in the order it shows (`SortShown`). A
page can be clicked before its onload. Such a click sorts and marks the table
and changes the address, and then throws, since `initialSort` has not set
`window.linkelementids`: the links carry nothing. The onload
that follows repairs it, because it sorts by the address, which the click
changed. So `LinksCarrySort` says that the links carry the sort the table shows
or none, and that they do carry it once onload was run and a sort was asked
for; and `SortTravels` that the sort asked for last, here or on a page from
which links led here, is the one shown, if the page has its column. The hash in
the address is not in these properties for a reason: going back within the page
changes it, and the script does not hear of it.

*Slices.* Through all pauses `prettyPrint` decorates the text of a listing once
(`PrettyOnce`), and has decorated all of them when it calls `opt_whenDone`
(`WhenDoneLast`). In a document that the browser reads as XHTML this rests on
the test for nested listings. In HTML, as which it reads the report's own pages
(they are `.html` files and have no nested listings), that test never holds,
because it compares lower-case names: there a listing in another one is safe only because the outer
one comes first in the list and cuts it off, and a `pre` in a `code` is
decorated twice, which the property excepts. An `xmp` that was cut off ends
`prettyPrint` with an exception.

*Decoration.* The new html reads as the old one, with tabs expanded to the same
columns whatever tags, spans and chunks are between (`HtmlKept`). A character
is in exactly one span, that of the style its lexer gave it, and no span is
open at a tag or a list item (`SpansNest`). No plain space begins a line or
follows another (`SpacesKept`). Languages in one another cover each place of
the text once and in order (`LexingTiles`); that the embedded part may be empty
is what the second group of the rules for script and style is for. Combining
patterns keeps what each of them matches and to which group each reference
goes (`PatternsUnite`), except for four forms that no language of the script
has: see section 5.

### Bounds

Two lock files with four threads in three processes have a full directory, a
thread that walks past a full one, two threads of a process that overlap, and a
process that ends while another waits; the third other thread makes the bound
of `LimitedOnlyWhenContended` one that can be missed. The proofs do not depend
on the number of files or threads. In `PingService` processes interact through
the lock and one document, where two processes can do everything to each other
that more can; two messages are enough to tell a new from an old one. With one
lock file two attempts still overlap: a shutdown frees the file under the
first. A quarter-second tick is half the time of a permit; eleven ticks contain
a full store, its use, and an idle second after a restart. The pool is smaller
than the number of threads, so that all three ways to get a builder are taken,
and the number of idle builders is smaller than the pool, so that one is
dropped. Two copies and a crash bring a message to other four times. Three ids
are one more than there are requests, so that a thread gets a second id after
it lost one. Deadlock is checked where the system runs for ever;
`delivery_faults`, `trace_ids`, `feign_urls` stop when their requests are used
up or the start has failed. The pages of the report
are its index, the page of a class and a listing as they are, and three pages
that the report does not have but on which the script may be used: nested
listings in HTML and XHTML, and listings whose newlines are not preserved.
Three addresses to go back to allow going back within a page and to another
one, in either order. Three pieces in each order put every kind of piece before
and behind every other, and the longer listings are made of what the rules
of the lexers look for, with each language that another one may contain;
`LexingTiles` shows that a depth of six is enough for them. Three entries of `PatternLists` would add nothing to two: a rewriting
depends on the ones before only through `capturedGroupIndex` and on all
together through the flag i.

### Fairness

* `PingFairSpec`: a thread that can go on by itself does (`OwnStep`: in the
  limiter, and between the calls it waits for), and so do starts, which MongoDB
  answers. Nothing is assumed of new attempts, crashes or shutdowns, nor that
  MongoDB answers an attempt or that pong answers a request or its connection
  breaks: `execute` has no timeout, so that an attempt may stay in its wait for
  ever, with its slot. `AttemptsFinish` says that it stays nowhere else: if it
  is again and again outside of a wait, it ends. `SlotsKeepMoving` does not say that each
  caller gets a slot; `lock` does not queue, and a caller may be turned away
  for ever.
* `BootConverges` assumes that a process that dies of the duplicate key is
  started again, which the deployment's restart policy does.
* `PoolFairSpec`: threads run, and the wait for a builder ends after `maxWait`.
* `DeliveryFairSpec`: the broker delivers what it has and other's threads run.
  Nothing is assumed of the producer.
* `SiteSpec`: a page that stays open runs its onload and its timers, and a slice
  that began deals with one element at least before its 250 ms are over. The
  reader does what he likes.

## 4. Proofs

TLAPS proves the following for all values of the constants, under the named
assumptions. `LockAssumption`, `PingAssumption`, `RateAssumption`,
`SystemAssumption`, `PoolAssumption`, `DeliveryAssumption`,
`TraceAssumption`, `HighlightAssumption` and `PatternAssumption` only say that the constants have their types and that special
values are no members of the sets they stand outside of; `ContentionAssumption`
says that there are finitely many threads. Four say more, three of them how a page is made:

* `TableAssumption`: the numbers of a column's cells are those from 0 on,
  headers have different ids, and no link leads to its own page.
* `PrintAssumption`: elements are nested like a finite tree, a page is of XHTML
  or it is not, what has an element inside is not empty, and an `xmp` in HTML
  has none inside, since its content is text.
* `SiteAssumption`: `getElementsByTagName` returns each element of the name
  once, and all elements around it are on the same page.
* `FeignAssumption`: how annotations and mappings are spelled. A protocol stands
  at the beginning of a client's URL or nowhere, no part has two slashes in a
  row, a client's URL does not begin with one, and what is not separated is one
  word. The variable `{msg}` is in mappings of methods only, as in
  `PingClient.java:23`; one in the URL or path of a client would stay as it is
  unless the method's mapping has one too (`OpenFeignClientProxy.java:71`). A
  message is one or more segments, without a slash at either end.

* `FileLimitedLock_proofs`. `LockIInv` is the type invariant with
  `SlotExclusive` and `LockTable`, and `UsersAlive`: a thread is in `send` only
  while its process runs. Without it a process that starts again could revive
  the lock of a thread that no longer exists. `HoldersBounded` follows by
  counting: the map from holders to file numbers is injective. `LimiterRefined`
  proves that `LockSpec` implements `ConcurrencyLimit`: an acquisition is
  `Admit`, an unlock, a crash or a lost lock `Retire`, all else a stutter.
  `Owned`, an invariant of the specification without I/O faults, says that each
  locked file has a thread that holds it; that no slot leaks follows from it.
* `LockContention_proofs`. A refusal is about the past, so the invariant is on
  the walk: while all is calm, a thread that has come to file n of its walk has
  met, for each m up to n, at least m others that now stand before file m
  (`WalkMet`), and therefore `Num` at the end. Passing a file adds one: the
  file has a holder (`Owned`), which stands at it and so before the next, and
  did not count before. Counting is where finitely many threads are needed.
  `ContentionRefines`: without its history variables it is the limiter.
* `PingPong_proofs`. The service first. `LockUsed`: every step of it is a step of the
  limiter or leaves it alone, so the theorems above hold in the service without
  a new proof. `PingIInv` adds to the types that a thread in the `try` block is
  at "hold" in the limiter (`TryHolds`), and that while the current message is
  known to exist the document does (`CurrentHasDoc`).
  Then the throttle. The rate over a window is not
  inductive: the store at its beginning depends on the past. `EarnedSince`
  bounds, for every passed request, how much the permits stored and given in
  advance now can exceed the time since; `Earned` does the same since the start,
  and `Cause` ties a ticket in the future to the last passed request. At last the
  system. `SystemParts`: the composition's behaviours, seen through the
  variables of one part, are behaviours of that part, whence the bounds hold in
  the whole. `HonestResults` is inductive together with `StatusOK` and the
  invariants of the parts: `HonestKept` goes through the actions, and through
  the stage of the thread that takes a step (`HonestAt`).
* `StringBuilderPool_proofs`. `PoolIInv`: a builder has one user, what is idle
  is clean, and at each point of `generateTraceId` the builder's text is
  exactly what its user has appended so far. `PoolBounded` is inductive once it
  says that the pool is finite (`PoolSized`).
* `TraceContext_proofs`. Delivery first, for itself. `DeliveryIInv` is the types,
  `NoneLost` and `Dealt`: a message whose `onMessage` is about to return has its
  row or its failed save. Without it the return could drop the last copy of a
  message that has neither. `CopiesCounted` is behind `RowsBounded`: the rows of
  a request, its copies in the topic and the consumers that are still to save
  one are together no more than were stored and came again, because a save moves
  one from the last to the first.
  Then the ids. `TraceImplementsDelivery` carries this over, and `TraceIInv` is
  the way of an id: a thread of ping at work has an id (`Working`), what has no message
  yet has no rows (`Unsent`), a message carries the id pong logged its request
  under (`Sent`), a thread of pong keeps the id of the request it serves
  (`Served`), and one that ping made is logged under its header (`Called`).
  `CronRunsFresh` and `PongIdsDistinct` rest on two more invariants, `CronIds`
  and `PongIds`: `last` bounds every id in use, and no two cron threads have
  the same one.
* `FeignClient_proofs`. `FeignIInv` says that a registered factory bean holds
  what the annotation says until its product takes the place of the URL, and
  that a product and the last request's URL are functions of the annotation, the
  mapping and the message (`Target`, `Requested`). A second `getObject` would
  break it: the path would be put behind the product. The rest is about
  sequences. A property of every sequence is proved by a shortest one that does
  not have it (`EverySequence`), since the library's induction takes an
  operator; so `FlattenSeq` is shown to go on where it was (`FlattenAppend`),
  reading the words to commute with joining (`MappedConcat`) and with putting in
  a message (`WordsOfFormat`), and a URL to stay well formed at each seam
  (`UrlRegistered`, `PathRegistered`, `JoinKeeps`, `FormatKeeps`), where a
  second protocol can only be the client's own (`ProtocolSecond`).
* `ReportSite_proofs`. For the tables, `TableIInv` is the types, that the table
  shows one sort (`OneSort`), that what is wanted is in the address as long as
  onload was not run, and `Answered`: once it was, a sort that is wanted and
  that the page has is shown and on the links, and else the links are as
  delivered. The third is what lets onload make up for a click before it. It is
  inductive since a click and an onload end in the same facts on sorting
  (`SortingShows`): the marks of all other headers are taken away (`StripsAll`,
  `MarkedOnce`) and each row gets to its number (`SortedOrder`), whatever the
  table was before. The rows are put in place with `CHOOSE`, which
  `AscendingOrder` justifies from the assumption on the numbers. There is one
  lemma for each step (`LoadShows`, `InitialSortKeeps`, `ClickKeeps`,
  `FollowKeeps`, `GoBackKeeps`); `LinksFollowTable` and `SortFollowsLink` follow
  from the invariant, and `SiteImplementsTable` carries all of it over to the
  report.
  For the listings, `PrintIInv` says that the list has each element once, with
  those around it (`ListSound`), that a node is cut off only by the listing
  around it, or as an `xmp`, at that listing's turn (`OrphanCause`), that an
  outermost listing which had its turn was decorated with all inside, or has a
  reason not to be (`OutermostDealt`), and that what was decorated is in a
  listing that cut off everything inside it (`DecoratedBy`). `PrettyOnce` is one
  of its parts: a second decoration would have to come from a listing around the
  first, or inside of it. XHTML's test skips the inner one; in HTML an inner one
  was cut off, and an outer one that comes later is the case that the property
  excepts (`DecoratedTwice`). For `WhenDoneLast` each listing needs an outermost
  one around it, which rests on finite nesting: it is a minimum in a
  well-founded order (`OneIsOutermost`).

* `Highlighter_proofs`, in four parts, of which the last three have an inductive
  invariant of their own. What the script computes in a loop is a recursive
  function in the model; that such a function has its values where it should is
  proved once, by a least place where it has not (`RecursionType`).
  *Languages.* A token is cut in three by `indexOf`, which finds the embedded
  part where the rule's groups are, or earlier (`GroupsAreFit`, rule by rule).
  *Lexing.* `LexInv`: the calls of `decorate` that are left, with the ends of
  their parts, tile the text from the place that was reached (`Tiled`), and the
  decorations end there (`DecorationsPlaced`). That decorating ends is a matter of
  depth: a call for a shorter part leaves room for two more. A part that is the
  whole token is not shorter; only tags and regular expressions can have one, and
  their inner languages have no rule of that kind (`WholeOnce`). So a call's
  depth, twice the length of its text, and one for a language that has such a
  rule, are never more than for the first call (`Shallow`), and a stack of
  2 * Len(source) + 2 calls is always enough (`LexersTile`). On a smaller one
  the catch of `applyDecorator` leaves the html as it was.
  *New html.* None of `SpansNest`, `SpacesKept` and `HtmlKept` is inductive, as
  all speak of complete html. `Walks` says that a sequence of items leads from one state to
  another by given steps: the state is the open span for `SpanSteps`, which also
  have the style of each place, and whether a space came last for `SpaceSteps`.
  `JoinInv` says that the html so far is such a walk and ends in the state that
  `open` and `lastWasSpace` name, and that what was emitted ends between the
  tag and the decoration before and the next ones (`JoinPlaced`). Walks are put
  together (`WalkConcat`), so that each action adds the walk of what it emits
  (`EmitWalks`). A chunk that is not empty is needed there: `Last(chars)` is the
  state it ends in. At the end the states of a walk are what `SpanAt` and `Shown`
  look up (`SpanWalkIs`, `SpaceWalkIs`).
  *What is read.* For `HtmlKept` the states of a walk are what was read so far
  and the column (`ReadSteps`, `ReadInv`), and they have to be those of the old
  html, which `Readable` and `ExtractTags` go through in steps of different
  size. `Reach` is the correspondence of the two: after so many characters and
  tags were extracted, those items were read and the column is there. From each
  such place the next thing is the next tag, the next character or the end
  (`ReachCases`): comments are passed over by taking the last piece that reaches
  the same numbers, sections without code in one step (`SectionPasses`), and what
  was extracted stays so (`Further`). A chunk reads as the characters up to its
  end, whatever was made of its tabs, spaces and newlines (`ExpandRead`,
  `SpacedRead`, `BreaksRead`), and at the end the walk is at `NewReadable`
  (`WalkRead`).
  *Patterns.* `PatternInv` says of each rewritten pattern which part became what
  (`IsNewPart`), and that `capturedGroupIndex` counts the groups that capture in
  all of them: a reference has the number of its group because the group's
  parenthesis is the one with that many before it (`NewNumber`). A folded set
  matches what it should since sorting and consolidating ranges keeps what they
  cover (`OrderedIs`, `ConsolidatedCovers`, `FoldedRangesAre`).

Only model-checked: the liveness properties, which need fairness. Every invariant
of the passing runs is stated by a theorem.

## 5. Where the code and its texts differ

| run | text | what happens |
|---|---|---|
| `system_rps` | `README.md:14` | The limiter counts requests at a time, not per second: a request that ends frees its slot for the next within the same second. |
| `page_newlines` | `prettify.js:289` | `newlineRe` has the flag g and is shared: its search begins where the one in the last element ended, and newlines before that place are overlooked. |

Differences without a run, most of them a matter of reading or of configuration:

* In production the lock files are `/app/lock.0` and `/app/lock.1`
  (`application-prod.yml:27`), outside the volume that the pods share, which
  `ping.yaml:55` mounts at `/app/file`. Each pod has a limit of its own, where
  `README.md:14` and `:16` speak of one for all processes. In the model this is
  `DirOf` with a directory for each process; `HoldersBounded` is stated and
  proved for each directory.
* With one permit a second, Guava's limiter lets two requests pass within a
  second after an idle one, where `README.md:10` and `:18` allow one. It is what
  `WindowRate` says with the second's store and the permit in advance.
* `prettyPrintOne` (`prettify.js:77`: "code as html, but prettier") always
  returns the code as it was: `recombineTagsAndDecorations` reads the class of
  `job.sourceNode`, which is not set, and the exception is caught.
* `sort.js:91` says that `setHash` "adds the sort indicator as a hash to the
  document URL and all links". A header that is clicked before the page's onload
  sorts, marks and changes the address; then `ids` is undefined, `ids.length`
  throws (`:96`), and the links carry no hash until onload. In the model it is
  `Click` while `loaded` is false, and the second case of `LinksCarrySort`.
* `prettify.js:1416` says "make sure this is not nested in an already prettified
  element"; in HTML documents, whose names are in upper case, it is not made
  sure. The report's pages are read as HTML; their listings are not nested.
* `prettify.js:348` says that the combined pattern matches the union. It does
  not for a reference farther back than the last group before it (`:530` has
  `groupIndex` for `decimalValue`), for a folded set whose least character is a
  caret (`:395` does not escape it), for a set that has letters only inside
  its ranges when the flag i is set (`:363`), and for a letter that is written
  as its code where the case of the combined pattern is folded otherwise than
  its own (`:550` has a TODO for it). No language of the script has
  such a pattern.
* An attempt whose MongoDB access or HTTP request fails ends in an exception
  (`PingService.java:49` to `:51`); `send` logs none of the three results that
  `README.md:20` to `:26` lists. In the model it is the result "exception".
* The prod profile of pong names a binder, kafka, that is not on its class path
  (`application-prod.yml:23`, `pom.xml:59`): every send throws, and with it
  every request that was handled. In the model it is `SendThrows`.
* A message with "?" or "/" is put into the path of the URL unencoded
  (`OpenFeignClientProxy.java:71`) and cut or not routed there, whereas
  `PingClient.java:21` says nothing of a restriction.

Observations on which no text says otherwise, so that they are no findings:
event-loop threads of ping keep one trace id for ever; a client declared
without a URL calls `http:///path`; one whose URL has a protocol such as ftp,
which the JDK knows, starts and calls `http://ftp://...`; PUT and DELETE mappings are sent as POST;
`null` leaves `{msg}` in the URL; a message whose save failed is lost, as it is
acknowledged; the flag that `streamBridge.send` returns is only logged;
`setSendMessage` answers SUCCESS when there was nothing to update; going back
within a page of the report leaves the table as it was; a numeric entity is read
one digit too late (`prettify.js:260`).

## 6. Not modelled, and the plan

Not modelled: the main classes and their configuration (their settings are
constants of the models), `LogFilter` (logs only), `TraceEnvironmentAware` (the
id of the main thread), the receiving side of `trace-mq` (sets ids that nothing
reads), bean definition details of the registration, the form, query and body
of requests, unit tests, the generated pages of the reports, and in `prettify.js`
what the abstractions above name.

Modules are written in the order of their weight for the system's task. Done:
the limiter, the service, the throttle and their composition; delivery, trace
ids, the pool and the clients; the scripts of the reports. Next:

1. `SchedulingUtil`: the registry of tasks until the registrar arrives, and its
   singleton that `setTaskRegistrar` drops. Nothing in the repository adds
   tasks, so its environment is what the public methods allow.
2. Several replicas of pong, each with a limiter, and the rate over restarts.
3. `PingPong` with `Delivery` and `TraceContext` in one system, with the step
   from `PongHandles` to `Respond`.
