# A verification project for libbee_downloader

`libbee_downloader` is a live relay for HLS streams. It polls an upstream
`m3u8` playlist, downloads the segments that playlist lists, keeps the last few
of them in a directory, and serves playlist and segments to clients from a web
server in the same process. The repository also holds the HTTP library that server
is built on, with its client, and programs that run by themselves: downloads of one
item in blocks, downloads of a whole playlist, a stream recorder. This directory holds TLA+ models of the relay, TLC
configurations that check them on small instances, and proofs that TLAPS checks
for every value of their constants.

All paths below are relative to `src/libbee_downloader/` unless they begin
otherwise. "cpp" and "hpp" are `component/HLSPlaylistDownloader.cpp` and `.hpp`.

## 1. The system

### Components

| Component | Where | State | Operations | What makes it correct | Model |
|---|---|---|---|---|---|
| Live playlist monitor | cpp 257-355, 618-654, 702-736 | `llTime`; the published `m_strBuffer` and `m_llLastModifyTime` (under `m_mtxFile`); the index file; `m_s_hlsList` | poll the stamp, GET, publish, save, hand the list on | body and stamp belong together, neither goes back, no version is lost | `LiveDownloader` |
| Download and completed queues | hpp 114-160, cpp 471-546 | `m_downQueue`, `m_compelteQueue`, two mutexes | `AddDownItems`, `GetDownloadFristObject`, `RemoveDownItems` with the eviction | order, no segment twice, bounds, no deadlock | `SegmentLists`, `AddDownItemsLoop`, `LiveDownloader` |
| Dispatcher and workers | cpp 357-398, 849-891, hpp 20-54 | `THREAD_DATA thInfo[GROUP_NUM]`, the files | find a free slot, `Reset`, pop; fetch, write, signal | slot fields exclusive; the segment popped is the one handed out; what is taken is written | `LiveDownloader`, `JobPool`, `LivePool` |
| Web relay handler | main.cpp 145-237 | none of its own | serve the index from memory, a file from disk | a client gets what was announced, and what its playlist lists | `WebRelay` |
| ScopeRunner gate | webserver/utility.hpp 489-539 | one atomic counter | `continue_lock`, `~SharedLock`, `stop` | no handler after stop; stop returns | `ScopeRunner` |
| Block downloader | cpp 155-183, 357-436, 557-616, 738-838, 913-1003 | `m_DownInfo[3]`, one output stream | split in ranges, download in parallel, join in order | the join waits for all and joins nothing old; calls return | `BlockDownload` |
| Life cycle, group downloader | cpp 28-114, 400-436, 865-870, 893-903 | the static `m_bExitFlag`, thread handles | create and end threads | every thread ends | `BlockDownload` in part |
| Playlist download on demand | cpp 1005-1057, component/HLSPlaylistUtilities.cpp, main.cpp 29-83 | the disk | delete, create, fetch a list and what it lists | files of one run only | `PlaylistDownload` |
| HTTP server sessions | webserver/server_http.hpp | connection set, send queues, timers, acceptor | accept, read, respond, time out, stop | answers in order, every connection released, stop reaches all | `HttpServer` |
| HTTP client pool | src/libbee_webserver/client_http.hpp | connection set, `in_use`, `attempt_reconnect` | get a connection, send, read, reconnect, time out, stop; synchronous requests | no connection shared or lost, answers whole, every request called back | `HttpClient`, `SyncRequests` |
| Text parsers | webserver/utility.hpp 40-490, component/HLSPlaylistInfo.cpp, HLSPlaylistUtilities.cpp, cpp 195-255 | none | percent coding, query strings, attributes, headers, first lines, URLs, `quick_match` | inverse where there is one, else what a reference definition says | `TextParsers` |
| Recorder | ConsoleApplication1.cpp 300-471 | counters, the last response code | poll, record, give up | ends when the stream does | `Recorder` |
| Curl options, TLS variants, portability headers | cpp 557-616, 656-736, src/libbee_webserver/ | - | - | - | not modelled: input and output, or library wrappers |

### How they interact

`main.cpp:m3u8_monitor` starts a thread for the web server, then `StartMonitor`
creates the monitor thread and `RunDownloader` turns the main thread into the
dispatcher, which creates two workers. The threads meet in four places:

1. `m_mtxFile` guards the pair (body, stamp) the monitor writes and the web
   handler reads.
2. `m_mtxDownLock` and `m_mtxCompelteLock` guard the queues: the monitor appends
   (`OnCallbackM3u8Change` -> `DownloadDetermining` -> `AddDownItems`, both locks),
   the dispatcher copies the front (first lock), and later moves it to the
   completed queue (both locks, with `system("del")` under them).
3. `bStartFlag` and `bDoComplete` of each slot: dispatcher and worker pass the
   slot back and forth without a lock.
4. The output directory: workers write, the eviction deletes, the handler reads.

The HTTP client and server meet in connections: each is a pair of streams that keep
their order and that either side may close at any time, by a timer of its own, by
`stop`, or because it is done. Within each, every handler runs inside
`handler_runner`, and a timer that expired holds its connection weakly.

The block downloader's caller and its three workers meet in a slot's two flags, as
above, but on one object that may be used several times. Threads that make
synchronous requests on one client all run its `io_service`, and any of them may
call the callback of any other's. Runs of the playlist download meet on the disk.

### What is hard about it

The dispatcher gives the queue lock up twice between looking at the front and
popping it. A segment counts as completed when it is handed out, not when it is
written. The stamp and the body of the playlist come from two requests. The
stamp is remembered before the request that may fail. The merge of a new list
looks for the last queued name among `DOWN_NUM` entries only. A transfer has no
timeout. In the HTTP library connections go from request to request while timers,
streams, reconnects and `stop` act on them. No test in the repository exercises any
of these. The full list, with
lines and the properties that watch over each, is under "hazards" in
`PROJECT.json`.

## 2. The modules

| Module | What it is |
|---|---|
| `SegmentLists` | The pure part: playlists as windows of segment numbers, `BuildListFromStream`, `StrLast`, `AddDownItems`. |
| `AddDownItemsLoop` | `AddDownItems` as it is written, one turn of a loop per action. |
| `LiveDownloader` | The core: upstream, monitor, dispatcher and workers. |
| `JobPool` | The abstract specification: a bounded first-in-first-out pool of jobs. |
| `LivePool` | The refinement mapping from `LiveDownloader` to `JobPool`. |
| `WebRelay` | `LiveDownloader` composed with the web handler. |
| `ScopeRunner` | The gate of the web server. |
| `Http` | What the HTTP client and server share: messages in parts, and connections. |
| `HttpClient`, `HttpServer` | `SimpleWeb::Client` and `SimpleWeb::Server`, one action per completion handler or call. |
| `HttpPair`, `MCHttpPair` | The two talking to each other, with their properties, and the instance of it. |
| `BlockDownload` | Downloads in blocks, with workers. |
| `PlaylistDownload` | `auto_download` over several runs. |
| `TextParsers` | The parsers, as recursive functions, beside reference definitions. |
| `SyncRequests` | Synchronous requests of several threads on one client. |
| `Recorder` | The stream recorder. |
| `Programs`, `MCPrograms` | `AddDownItemsLoop` and the five above as one specification, and its instance. |
| `SegmentListsProofs`, `LiveDownloaderProofs`, `LiveRelayProofs`, `ScopeRunnerProofs`, `HttpPairProofs`, `HttpAnswersProofs`, `TextParsersProofs`, `ProgramsProofs` | The theorems. |

### State and actions of `LiveDownloader`

Variables have the names of the program's. `pcMon`, `pcMain` and `pcWork` say
where each thread is, `downLock` and `compLock` who owns which mutex, `disk` what
the directory holds of each segment, `up` what the upstream serves now.
`evicted` is a history variable. Every action is what a thread does between two
points at which another thread can see it:

| Action | Code |
|---|---|
| `Poll` | one turn up to the decision on `getItemTime`'s result (cpp 281-300) |
| `GetIndexOk`, `GetIndexFails` | `downloadItem` of the playlist (cpp 303, 702-736) |
| `PublishBuffer`, `SaveIndex` | cpp 307-311 under `m_mtxFile`; cpp 312-317 |
| `OnCallbackM3u8Change`, `AddItems` | the callback up to the first queue lock; `AddDownItems` with the second |
| `GetDownloadFristObject`, `ScanSlot` | copy the front; test one slot's `bStartFlag` |
| `ResetSlot`, `StartSlot` | `Reset` up to its last statement; the last statement |
| `RemoveBegin`, `PushComplete`, `EvictOldest`, `PopDownItem` | `RemoveDownItems` at its two lock acquisitions, each turn of the eviction loop, and the rest |
| `TakeJob`, `Fetch`, `OpenFile`, `OpenFails`, `WriteFile`, `SetComplete`, `ClearStart` | one turn of `downloadSingle` |

`Publish` is the upstream, which is external: a live playlist slides forward,
dropping segments at the front and adding at least one at the back. It gives
every version a newer stamp. Both are assumptions about a server this
repository does not contain; stamps are numbers because that is what this relay
itself sends (main.cpp 180).

Abstractions. A segment's name is its number in the stream, and what a file or
buffer holds is one of a few words: `whole` is the segment, `bad` anything a
failed transfer left. Sleeps are left out: a thread may take its next step at
any time. `m_s_hlsListLock` is left out, since only the monitor takes it.
`quick_match` is left out, since it is only ever called with the list `lastList`
nobody assigns and then returns the new list as it is. `m_bExitFlag` is left
out: `RunDownloader` clears it and nothing sets it before it returns. A file that
is open cannot be deleted or replaced, as on Windows, the only platform this
code builds for (`FileOpen`, and `Pinned` in `WebRelay`).

### The HTTP modules

A message is a sequence of parts, each of which says which request it belongs to and
which part it is: 1 is the header, the rest its content, one part per chunk, event or
stretch of bytes. `kind` holds for each request what its body and its answer look
like. `up` and `down` are what is on its way on each connection; `endC` and `endS`
are the connections each side has closed, which a peer sees as the end of the stream
after it has read what was sent, or as a reset when something was left unread. A side
that closed a socket itself finds the end of the stream or an aborted operation there
(`Errors`). The history variable `cut` holds the connections that a timer or a `stop`
was the first to close; only properties look at it.

On the client a session moves through `step`: resolve, connect, write, read, then by
framing content, chunk, untilEof or events. Each handler tests the gate, does what
the code does and either starts the next operation (`GoOn`) or calls back
(`Callback`), which gives the connection back, prunes the pool and closes what
nobody refers to. An answer without a length (`untilEof`) is read to the end of the
stream, which is no error, whoever made it. A `Content-Length` that is no number throws
out of its handler and of `run` (`Throws`): the session is `thrown`, without a callback,
and its connection stays in the pool, in use. On the server a session moves from header through content or chunk
to app, where the application holds the response and sends parts of it through the
queue, to released and final, where the rest is written. Which order the entries
of an `unordered_set` come in is left open, and so is how much a read brings along,
which of two errors a read meets, and whether an expiry that was queued before its
timer was cancelled still runs. The server's multi-threaded `io_service` is covered,
since its handlers hold no lock between actions; two threads inside one handler of
one connection do not occur, because each operation is started by the handler of the
one before.

Of `stop`, closing the acceptor and closing the connections are two actions, for
accepts may be handled between them. Destruction is a stop that shuts the gate. Writes
go on after it, only their handlers are refused: the part of a refused `QueueWritten` has
gone out and the rest of the queue is never sent, but the response is let go of, and its
last write sends what is left of the stream past the parts still queued
(`FinalRefused`), so that a client may get the first and the third part of an answer
before `stop` closes the connection.

### The programs

`main` runs one of several programs; they share no state with the relay, and
`Programs` lets `program` choose which of them runs, the others' variables standing
still. Each part is specified in a module of its own and can be read by itself.

* `BlockDownload`: a slot's plain fields, the two flags, and each worker's place in
  `downloadFunc`. A block is the URL and the range asked for; what came nobody looks at.
  The file is opened to append, and since nobody looks whether the old one could be
  deleted either, it may hold something. The handles of
  `InitDownloadThread` are uninitialised, so that any set of the threads may not
  be started. Division by a third that is 0 leaves the caller in `crashed`, unless
  the compiler drops its unused result. `downloadMediaTwo` mixes the arguments of `Reset`
  up, so that its workers ask for a URL "single" and not for the item.
* `PlaylistDownload`: directories and files, each file with the answers that were
  appended to it. A run may end between any two steps; the deletion may stop part
  way, and what it returns is not looked at.
* `TextParsers`: texts over small alphabets, one character per step. Deliberate
  peculiarities of the code are in it: the last question mark of a path begins the
  query, `a=;` swallows the next attribute, and what was appended to the new list by
  `quick_match` follows what it found. The base of a URL is what is left when the
  playlist's name is cut out as a regular expression. Dots in the name are translated;
  with any other operator in it, such as the `?` of `index.m3u8?key=1`, `PlaylistInfo` is the
  set of everything a match could leave and the exception, and no property speaks of it.
* `SyncRequests`: where each thread is, which callbacks are to come, and the
  `io_service`'s flag. A handler may throw out of `run`, which is `stoull` again
  (client_http.hpp 541): its thread then leaves without lowering the counter or
  restarting the `io_service`. History variables hold the requests that overlapped
  another's, those whose callback wrote to a frame that was gone, and those thrown out of.
* `Recorder`: the response code of the transfer before, the counters, the kinds of
  lines handed to `putmsg`, and those in its file. There are none in the file: its name
  `m3u8` is never set, so that it never opens and nothing is recorded. The pause of a round is `Sleep( 1000 * 1000 )`, in milliseconds, where
  the comment beside it speaks of 60 seconds; time is not modelled.

Definitions whose comment begins with "Slip" are mistakes one could make in the
code: a property is only kept if replacing the real definition by some slip makes
TLC find it violated. They are used by no specification.

## 3. What TLC checks

| Run | Instance | Shows |
|---|---|---|
| `live_safety` | `LivePool`: 2 workers, queue of 2, 1 completed segment kept, 4 segments, windows of 2; polls, GETs and transfers fail | all safety and action properties of the core, and that it implements `JobPool` |
| `live_progress` | `LiveDownloader`: the same with 3 segments, nothing fails, worker 0 hung for ever | what is taken is written, clients catch up |
| `live_faults` | as `live_progress`, and polls, GETs and opening files fail | the queue drains and slots are freed all the same |
| `programs` | `Programs`; see below | each part's property, whichever runs |
| `http` | 2 requests, one of them of each of eleven kinds in turn, with one fault, or both called and none, or both plain and one fault | the pool, the answers, and that everything ends |
| `web_relay` | 1 worker, 3 segments, files that cannot be opened | a settled file is sent as announced while writes and evictions go on |
| `scope_runner` | 3 handler threads, 2 stopping threads | the gate's safety, and that stop returns |

The properties, in the order of importance:

* `ImplementsJobPool`: peek, hand-off and pop, with the locks released in
  between, act as one step that takes each segment exactly once, in order.
* `HandoffExclusion`: while the dispatcher fills in a slot, its worker is parked.
* `PeekedIsPopped`, `PipelineOrdered`, `OneJobPerSegment`, `QueuesBounded`: the
  queues through every interleaving of appending, handing out and moving.
* `CompletedIsOnDisk`: a completed segment is on disk or some worker's job.
* `BodyNotOlderThanStamp`, `NewBodyNewStamp`, `IndexNeverGoesBack`: what clients
  are served, although body and stamp come from two requests that can fail.
* `QueueDrains`, `SlotsAreFreed`, `TakenIsWritten`, `IndexCatchesUp`: progress, the
  first two whatever fails.
* `SettledFileSentWhole`: `content-length` is honest for a file no worker has.
* `AnswersInOrder`, `AnswersWhole`: what a request gets are parts of its own answer in
  their order, and all of it when it ends without an error: the server's queue and the
  client's framing together, over connections that go from one request to another. Both
  say where the code does not keep that. Parts are left out only when the server was
  destroyed with parts queued, which an answer in chunks does not notice. An answer of
  HTTP/1.0 that a timer or a stop of either side cut short is called back without an
  error. One with a length is whole always.
* `OneRequestPerConnection`, `AtMostOneIdle`, `NoConnectionLeaks`,
  `ConnectionsBounded`, `NothingReadAhead`: the pool and its use.
* `StopReachesAllButOne`, `RequestsAnswered`, `ConnectionsReleased`: the ends.
* `EmptyHandedOnlyInGap`: only overlapping synchronous requests may return with neither
  answer nor error, as long as no handler threw. Once one did, the counter never comes back
  to 0 while the `io_service` is stopped, so that nobody restarts it.
* `JoinedBlocksAreFresh`, `DownloadsFinish`: downloads in blocks. What is joined, behind
  whatever the file held, are the answers to this call's ranges in order. That the
  ranges overlap by a byte, may leave out the last bytes, and are asked of the URL "single"
  is in the model and no property's concern: no line of the code says otherwise.
* `FilesOfOneRun`: the disk never mixes two playlists.
* `ParsersAgree`, `LoopsComputeAddDownItems`: algorithms against their definitions.
* `RecorderEnds`: the recorder ends when the stream does, and its end mark is the last line
  it hands on and the only one.
* `CountsLocks`, `NoHandlerAfterStop`, `RefusedOnlyWhenStopping`, `ShutForGood`,
  `StopReturns`: the gate.

### Bounds

Four segments with two queue places and one completed place are the least for
which everything happens at once: one segment evicted, one completed and on disk,
one being handed out, one queued. `MaxWindow = 2` equals `DOWN_NUM`, so that lists
fill the queue and slide past it. Two workers is the code's own number. The
theorems of section 5 cover all larger values of these constants for every safety
property of every passing run, so the bounds matter only for liveness, and for the
hypotheses that section 5 names.

`http`: two requests are enough for a connection to be shared, handed on, kept by a
stream or replaced under the other; three parts for a middle one. `Scenarios` pairs a
request of each of eleven kinds with none or with a plain one, and `faults` allows one
expiry or stop at a time when something is still under way: with two requests and a
fault of every kind the state space is out of reach. Timers that expire on a
connection where nothing moves are not counted. `MaxConns` is not a bound but what
`ConnectionsBounded` proves.

`programs`, with the code's constants where not named: item lengths 0, 5 and 6
(`Lengths`), which crash, leave a byte out, and divide; `SplitAt` of 3 for 1000, and
two calls on one object, since the second is where old blocks could be joined; two
runs of playlists of two items that repeat or nest names; texts of up to 5
characters over the five alphabets of `MCAlphabets`, each the special characters of
one group of parsers and one or two others; three threads with two synchronous
requests each, and one handler that throws (`MaxThrows`); 60 polls; for `AddDownItemsLoop` lists of up to 4 of 3 names, one longer than
`DOWN_NUM`, which goes past the scan's limit.

Deadlock is not checked: once the upstream has published its last segment the
bounded model stops, except for polling; requests, runs, calls and texts are bounded in
the same way. That no thread is stuck on a lock is
what `QueueDrains` and `IndexCatchesUp` say.

### Fairness

`WF` of the monitor, of the dispatcher and of every worker: these are threads the
operating system runs, in loops without exit. A transfer is different, for curl
is given no timeout: the constant `Hung` names workers whose `Fetch` is exempt,
and `live_progress` and `live_faults` have one. The monitor's own requests, for the stamp
(cpp 636) and for the playlist (cpp 726), are taken to end, though they have no timeout
either: one that hangs stops all polling, and `IndexCatchesUp` and `QueueDrains` are
about a monitor that does not. With every worker hung nothing drains, and the model
does not claim it. No fairness is assumed of the upstream. In `ScopeRunner` it is
assumed that handlers return and that a thread in `stop` runs and its weak
exchange does not fail spuriously for ever; nothing is assumed of
`continue_lock`. `StopReturns` has the premise that at some time no handler is
asking any more, because `stop` needs to see the counter at 0 and does not hold
newcomers back.

`PairFairness` is weak fairness of `Progress`, all completions and expiries together:
the `io_service` runs, and as long as something is under way something of it ends. It
does not favour any one handler. That an operation on which nothing moves ends is the
timers' doing, whose expiry is part of `Progress`: without them `RequestsAnswered` and
`ConnectionsReleased` fail, which is how the slips of `Expire` and `Timed` are found.
Both timeouts are taken to be set; with `timeout` 0, the client's default, the code
waits for ever. Nothing is assumed of the user, who need not call anything, except
that a response is let go of at some time, and of the thread that runs the client's
`io_service` that it runs it again after a handler threw.

`ProgramsFairness`: each worker thread runs; a call that was made goes on, for a
transfer ends, which curl without a timeout promises only if the peer does not stall;
and the recorder polls.

## 4. Where the code and what it says differ

Five runs are expected to end in a violation; each checks one statement found in
the code.

* `not_changed`: "m3u8 file not changed." (cpp 339) is also what a poll concludes
  when the GET of the version with that stamp failed (cpp 300-303). Clients miss
  that version.
* `late_writer`: "delete file" (cpp 537) may run before the file exists. A worker
  that is slow, while the other one takes the next `COMP_NUM` segments, writes its
  file after it was evicted and the file stays.
* `stalls`: "add new download item" (cpp 553) adds none when the first `DOWN_NUM`
  entries of the list were queued before, whatever follows them. A playlist that
  grows and does not slide stops the relay.
* `web_assert`: `_ASSERT( FALSE )` (main.cpp 229) is reached by a client that asks
  for a segment its playlist lists before a worker has created the file.
* `http_closing`: the server's `close_connection_after_response` is documented as
  "useful when implementing a HTTP/1.0-server sending content without specifying the content
  length" (webserver/server_http.hpp 192-193). The client of the same library looks for
  the announcement of it under the header "Session" (client_http.hpp 575), which nobody
  sends, and calls back without an error before the content has come, on a connection
  that no timer and no stop closed. An answer whose version is HTTP/1.0 is read to the end
  of the connection.

## 5. What is proved

`LiveDownloaderProofs`: for every `GROUP_NUM`, `DOWN_NUM`, `COMP_NUM` of at least 1,
every `MaxSeg` and `MaxWindow`, and every choice of `Faults` and `Hung` (assumptions
`QueueSizes`, `Sizes`, `FaultKinds`), `IInv` is an inductive invariant of `Spec`, and
with it hold all the invariants and action properties of `live_safety`. The
conjuncts of `IInv`, and why the properties are not inductive without them:

* `LocksInv`: who owns which lock is a function of the program counters. It keeps
  the monitor from appending while the dispatcher moves the front.
* `SlotsInv`: `bStartFlag` is up whenever its worker is on a job and down in a slot
  being filled. `HandoffExclusion` follows.
* `PeekedIsPopped` and `MoveInv`: the front is stable from the peek to the pop,
  because the monitor only appends at the back.
* `PlaylistInv`: the copies of the playlist lie one behind the other in the
  stream, and so do the stamps. It gives the three properties of what is served.
* `OrderInv`: both queues increase, one after the other, and every queued segment
  lies within the first `DOWN_NUM` entries of the last list or before it. The latter
  is what makes the bounded scan of `AddDownItems` find the last queued segment
  whenever the list still has it: without it a segment could be queued twice.
* `JobsInv`: jobs are older than what is still to be handed out, and different.

`DiskInv`, a second invariant on top of `IInv`, says that a completed segment, or
one about to be, is on disk or its worker has not yet opened the file;
`CompletedIsOnDisk` follows.

`SegmentListsProofs` has the lemmas about queues these rest on and
`AddDownItemsFacts`, on what `AddDownItems` appends.

`LiveRelayProofs`: every step is a `Submit`, a `Take`, a `Finish` or a stutter of
`JobPool` (`LiveImplementsPool`). It also proves `WebRelay`, for the same constants.
`WebInv` says that a file is there only when its segment was handed out, and that the
file the handler found settled stays what it was until it is read. The proof needs
that handing out goes forward (`TakenStays`): a segment no worker has any more is in
no worker's hands again, so that nobody writes to its file, and as it is open nobody
deletes it. `SettledFileSentWhole` follows, and `CompletedIsOnDisk` holds of the
composition too, where some files cannot be deleted.

`ScopeRunnerProofs` has the inductive invariant of the gate and its four safety
properties, for any finite set of handler threads and any set of stopping ones.

`HttpPairProofs`, for any finite set of requests and any scenarios
(`HttpAssumption`, `ClientAssumption`) and against `HttpServer`: the pool. `PoolInv`
adds to the three properties of the pool that a request under way uses its
connection, and that a request waits for events just when its connection is marked as
a stream: otherwise a callback could not know whether giving back leaves the
connection with an owner. `Budget` says that connections made and reconnects still
possible are two per request called at most. It is what makes `ConnectionsBounded`
inductive, since a handler of the header turns the permission on again, for the next
request, and only the step it leaves keeps the present one from using it.

The same module has the server, under the same assumptions: `ServerInv` says that accepts are
handled one at a time, that before `stop` every session served is in the set, and after
it at most one is left, with nobody accepting; `StopReachesAllButOne` follows.

`HttpAnswersProofs`, under the same assumptions, about the connections themselves. Its
`AnswersInv` adds to `ClientInv` what is on its way in both directions:

* `OneRequest`: what the server finds on a connection is one whole request, or the rest
  of the one it is reading, sent by the request that now reads there. `NothingReadAhead`
  follows.
* `Talk`: what the client has, what is on its way, what waits in the server's queue and
  what the application has put into its response are, in this order, parts
  of one answer, and consecutive ones unless the connection was closed by a timer or a
  stop of a server that was destroyed (`Broken`); while the request is still being read
  there are none. What is still to come on an open connection ends with the last part.
* `Idle`, for connections nobody uses: nothing is left on them for who comes next.
* `Orderly`: one write is in flight, the first of the queue, which is what keeps the
  parts in order although `send` queues some and the completion of a write starts others.
* `Ended`: a request that was called back without an error has all of its answer, under
  the conditions of `AnswersWhole`.

`EndsInv` stands beside it and says who closed what: a connection in `cut` is closed, and
one that the client closed first without a timer or a stop is one it has discarded,
with no request under way. So whoever reads to the end of a connection that is not in
`cut` meets the server's own close, which comes after the last part or before the first.

None is inductive alone: a request's answer is whole because the connection was idle
when it was taken from the pool, and the connection is idle because the request before
had its whole answer. The three theorems have the hypothesis `NeverCloses`, which speaks
of the initial state: no answer is of kind `close`. It excludes the kind of
answer that run `http_closing` is about; there the client does leave the rest of an
answer unread, and the parts may reach the next request. The scenarios of `http` leave
that kind out for the same reason. An answer of HTTP/1.0, which ends with its connection
too and which the client does read to the end, is not excluded: it is whole unless a timer
or a stop was the first to close the connection, which is where wholeness does fail.

`ProgramsProofs`, in the order of its parts:

* Downloads in blocks, for any set of lengths, any `SplitAt` and any number of calls
  (`BlockAssumption`): `SlotsAnswered` and `SlotsFilled` relate flags, workers and
  ranges, `StreamInv` says that what was appended are the call's blocks in order.
  `JoinedBlocksAreFresh` follows.
* Synchronous requests, for any finite set of threads and any number of requests
  (`SyncAssumption`) and of handlers that throw: while none has thrown, the counter is
  the number of threads in `run`, the flag is up only while there is one, and a request that
  met no other is alone and has its callback to come or its answer. From the first throw on
  the counter is larger than that number.
* Playlists on demand, for any playlists and any number of runs: a run writes only into a
  directory it made, and makes it only where nothing is left.
* The loops of `AddDownItems`, for any names, any list of at most `MaxList` entries and
  any content of the queues (`LoopsComputeOperator`). `LoopInv` says of the first loop that no entry
  scanned so far is the last queued one, and of the second that what was queued is
  the old queue and the list from the found entry to the present one. With it the
  operator the relay's model uses is what the code's loops compute.
* `ParsersAreInverse`: every conversion is the inverse of the one that made its text,
  for texts of every length over any alphabets of bytes (`CharactersAreBytes`: the code
  holds them in `char`). Its parts are in `TextParsersProofs`, but for three that are
  theorems of their own:
  * `HeaderEndsAreFound`: `HeaderEndInv` says how much of either line end the text ends
    with for each value of the two counters. It holds only as long as no two carriage
    returns meet; after two, the first counter no longer says anything, and neither does
    the theorem.
  * `FirstLinesComeBack`: a status line of every text, and the target of a request. A
    target with a space makes a request only when what follows the space reads as a
    version (` HTTP/1` would pass for one); the first formulation had left that case
    out, since no alphabet of the run has the letters for it.
  * `ListsMerge`: `quick_match` on windows of every size, if one entry came at most. When
    more came the code itself is wrong, and the model says in which ways.

`TextParsersProofs` is about the operators of `TextParsers`, which are folds and recursive
functions, so every lemma of it is an induction over a text. Four things carry them:

* Induction. The library's theorems take a predicate as a parameter, which the provers
  cannot instantiate. `LeastNumber`, proved from the well-foundedness of < on the natural
  numbers, does without: it is applied to the set of counterexamples. `UpTo` is the same
  for a set of numbers that holds 0 and passes on.
* Existence. A recursive function is a `CHOOSE`, of which nothing is known until a function
  with its equations is shown to exist. `BackwardsRun` shows it for recursion from a
  position to later ones (`Decode`, the cutting of a URL), `Run` for recursion from a place
  to the next, and `SetRun` for the folds of the community modules, which go over sets of
  places, the last first. `DecodeRun`, `EncodeRun`, `QueryRun`, `PiecesRun` and
  `AttributesRun` instantiate them: each gives the states a parser goes through.
* Places. `Flattened` and `Concatenated` say where each part of a text that was put
  together is found in it; `CookieIs`, `HeaderOne`, `TargetLine` and `ListTextIs` apply it
  to the texts of the properties, so that what a parser meets at a position is known.
* Steps. `QueryField`, `LineTaken`, `LineOn`, `RestOn` and `AttributesSteps` carry a parser
  over one field, line or stage of an attribute, whatever was read before.

`EncodedComesBack` needs that an encoded text has no character that means something
elsewhere (`CodeIs`). `FieldsRead` follows for query strings, headers and cookies, with the
conditions of `FieldsComeBack`: a header's value must not begin with a space or hold an end
of line, and a plain attribute must not be empty or hold a quote or a semicolon. `PlaylistPartsRead`
takes a playlist and a URL apart; of the URL it uses that its last piece is found
in it once, for the code removes every occurrence.

Only model-checked: the liveness properties (`TakenIsWritten`, `IndexCatchesUp`,
`QueueDrains`, `SlotsAreFreed`, `DownloadsFinish`, `RecorderEnds`, `RequestsAnswered`,
`ConnectionsReleased`, `StopReturns`), since the prover does not reason about fairness and
ENABLED. Every invariant and every safety property of steps that a passing run checks is a theorem.

## 6. What is not modelled, and what comes next

* Curl: options, callbacks and sockets are input and output. What a request can end
  with is part of its caller's model. That an error page answers as a playlist
  (cpp 729), and that an HTTP date is read as 0 (cpp 646), are properties of upstreams the
  model does not have: its upstream answers with playlists and numbers, as this relay
  itself does.
* The exit path of `RunDownloader` and the clearing of the one static flag by four
  functions (cpp 851, 869): nothing sets the flag while they run, so that a model would
  have to invent its caller.
* `PushDownloadObject`, `PopDownloadObject`, `PushCompelteObject`,
  `RemoveCompelteFile`, the group downloader and `downts`: nothing calls them.
* The console dialogue, `Date` and `status_code.hpp`: formatting and tables.
* TLS variants: the same sessions after a handshake that asio does.
* `parse_host_port` and the proxy of the client: used once before the first request, and
  by the TLS client.

What could be added: `NothingReadAhead` for answers that end with their connection, which
would take the part of `AnswersInv` that is about requests without the part about answers;
and a larger instance of `http` in which three requests meet.
