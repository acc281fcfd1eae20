# Verification of the RSVA11001 adapter

The adapter polls the cameras of an RSVA11001 video recorder (the DVR). The DVR
serves one HTTP client at a time and answers with an endless body of packaged
JPEG images. The adapter opens a connection for one camera, waits for an image,
closes, stores the image and goes on to the next camera; it serves the last
image of each camera as a file and over SCGI.

Source paths are relative to the repository (`src/main.c` is the event loop,
`src/rsva11001.c` the camera connection).

## 1. The system

| Part | State | Operations | Talks to |
|---|---|---|---|
| Event loop (`main.c`: `reactor`, `openNextCameraConnection`, `processActiveCamera`) | `activeCamera`, `cameraIterator`, `shutdown`, the epoll set | open the next camera, wait, handle camera / signal / SCGI events | every other part; one thread, calls only |
| Image table (`writeImageFile`, `lastImage`) | last image of each camera, a mapped file | replace the image, answer waiting requests | event loop, SCGI server |
| SCGI requests (`handleNewRequest`, `pendingRequests`) | waiting connections of each camera | refuse, answer at once, let wait | sandgrouse (`sg_*`), image table |
| Camera connection (`rsva11001.c`) | socket, `connected`, request bytes written, HTTP parser | open, process, close | kernel socket, parser, event loop |
| JPEG receiver (`rsva11001_connection_recv`, `_getLatestImage`) | ping and pong buffer, bytes received | take a piece of the body, hand out an image | parser (callback), event loop |
| HTTP parser (`http_parser.c`, vendored) | response state, header flags, length left, error | execute | camera connection, receiver (callback) |
| Configuration and start-up (`readConfiguration`, `main`) | globals | read environment, set up, unwind | operating system |
| Logging, `request.c` (not compiled), firmware scripts | none that the program reads | | |

What is hard to test: the order in which images, errors, closes, signals and
requests arrive inside one batch of epoll events; edge-triggered readiness that
is consumed by one call and needed by another; an iterator that has moved on
before it is used as an index; data cut at any byte; a DVR that is silent or
closes too early; tables and buffers at their limit. `PROJECT.json` lists these
hazards line by line with the properties that cover them.

What makes each part correct:

* event loop: never two connections; no event handled for a connection that is
  gone; every camera gets its turn; a signal ends the program;
* image table: an entry always means the same camera; a waiting request gets a
  newer image, once;
* requests: none is lost between arrival and answer; the table is not overrun;
* receiver: no copy leaves its buffer; what is handed out is a whole image of
  this connection; the first image is not missed, whatever follows it but an empty one;
* camera connection: no readiness is lost; an image that arrived is not lost
  when the DVR closes;
* parser: what the receiver gets is the body of the response, all of it and at
  once, however the response is cut; nothing follows an error;
* image file: whatever step fails, the table names a whole, mapped image; a
  reader of the file never gets parts of two images.

## 2. Modules

| Module | What it is |
|---|---|
| `Reactor` | `main.c` from the entry of `reactor()` to `cleanupCameraConnections`, with the DVR, the clients and the signals around it |
| `PollCycle` | abstract specification: the round-robin cycle of the repository's README |
| `ReactorProofs` | theorems about `Reactor`, and that it meets `CameraLink` and `ImageStore` |
| `PollCycleProofs` | `Reactor` implements `PollCycle` |
| `JpegReceiver` | `rsva11001_connection_recv` and `_getLatestImage`, byte by byte |
| `BodySegments` | the body of a response in pieces, as the connection sees it; used by `JpegReceiver` and `CameraConnection` |
| `JpegReceiverProofs` | theorems about `JpegReceiver`, and that its calls are the segments of `BodySegments` |
| `CameraConnection` | `rsva11001_connection_open`, `_process` and `_close` system call by system call, with the kernel's socket |
| `CameraLink` | abstract specification: what `Reactor` relies on in a connection |
| `CameraConnectionProofs` | theorems about `CameraConnection`, and that it implements `CameraLink` |
| `HttpParser` | `http_parser_execute` on responses, symbol by symbol |
| `BodyStream` | abstract specification: what `JpegReceiver` relies on in the parser |
| `HttpParserProofs` | theorems about `HttpParser`, and that it implements `BodyStream` |
| `ImageFile` | `writeImageFile` system call by system call, with a web server that reads the files |
| `ImageStore` | abstract specification: what replies rely on in the table of images |
| `ImageFileProofs` | theorems about `ImageFile`, and that it implements `ImageStore` |
| `Startup` | `main()` around the event loop |
| `StartupProofs` | theorems about `Startup` |
| `MCReactor`, `MCJpegReceiver`, `MCHttpParser` | small instances for TLC |

`PollCycle` stands above `Reactor`, `CameraLink` between `Reactor` and
`CameraConnection`, `BodyStream` between `JpegReceiver` and `HttpParser`. The
latter two open up what is the single step `Execute` in `CameraConnection`;
`BodySegments` is where they meet. `ImageFile` opens up `CameraImage` and
`CameraImageNotStored` of `Reactor`, and both implement `ImageStore`.
`Startup` ends where `Reactor` begins and takes over where it ends.

### Reactor

The program is single-threaded, so an action is the code between two points at
which the outside can make a difference: the head of the loop
(`OpenNextCamera`, `KeepCamera`), `epoll_wait` (`EpollWait`, `EpollFails`), the
whole handling of one event (`CameraIdle`, `CameraDropped`, `CameraImage`, ...,
`SignalEvent`, `ScgiEvent`) and of one request (`RequestRefused`,
`RequestWaits`, `RequestImmediate`, ...). `pc` says which point is next. Every
way out of the code has an action, failures included: `OpenNextCameraFails`,
`CameraCloseFails`, `CameraImageNotStored` (any failing step of `writeImageFile`
before the store), `ScgiEventFails`, `RequestImmediateFails`, the failing second
`sg_server_process` in `ScgiFlush`; `CameraKills` is a call of `process` that ends the
program (`pc` is then `killed`). Events are taken from a batch in any order,
because epoll promises none, and the batch is handled to its end even after
`shutdown` is set, as the code does. Three descriptors are registered and
`MAX_EVENTS` is 4, so one `epoll_wait` returns every pending edge and the inner
loop of `reactor()` ends after it; that is why there is no second loop.

`ready` is the set of edges the kernel has and `epoll_wait` has not returned.
Closing the camera socket takes its edge away. `link` is what has happened on
the socket of the active camera and so what `rsva11001_connection_process` and
`_getLatestImage` will return: a whole image (`image`), an image larger than the
caller's 30000 bytes (`big`), a close (`fin`), an error (`err`), an image larger than the
receive buffer, at which the assertion in `recv` ends the process (`fatal`), or
nothing yet. An image of length zero is reported like none, and takes the place of one
that waits (`DeviceSendsEmpty` leads from `image` back to `up`). A socket that failed may
end the process too: `send` raises SIGPIPE (`rsva11001.c:582`), which nothing
blocks or ignores. The model allows it for every failed socket, more than the code does.
Since the receive loop runs until EAGAIN, a close that came after an image makes
`process` fail and the image is dropped, as in the code (`DeviceCloses` from
`image`). `mute` is a body whose magic was wrong: the parser keeps the error and
the connection yields nothing until the DVR closes.

An image is a record of the camera that took it and a bit that flips with every
store, enough to tell it from the one it replaced. A request is `valid`, a
`source` and `wait`; `valid` is false when method, path or query string is
refused, and `source = numCameras` stands for every number that is too large.
The variables `seen` and `reply` are history: what the table held when a request
began to wait, and what it got.

`sandgrouse` is not in the repository. `Parsed` is what `main.c` relies on:
`sg_server_process` reads all requests that have arrived, and with them what made
the descriptor ready; `sg_server_getNextConnection` returns them one by one.

When the table of waiting requests is full the code writes past it. The first
word there is `numPending` itself, so nothing the program does afterwards
follows from the source: `RequestOverrunsTable` ends the behaviour in the state
`overrun`. The invariants are shown up to that state.

### JpegReceiver

A byte is the pair of the connection it came over and its position in the body.
A stream says at which positions the magic `JPGS` stands, which length follows
it, and where `JPGE` stands. Buffers hold such bytes, so a comparison in the
model succeeds exactly when the right bytes lie in the right cells; bytes of an
earlier connection, of another image, or from outside of the received data
(`Junk`) are visible as such. `RecvPartial`, `RecvBadHeader`, `RecvBadFooter`,
`RecvWraps`, `RecvNoSpace` and `RecvComplete` are the ways out of one call of
`recv`; `Ignored` is the parser's behaviour after a callback returned 1. Lengths
are added modulo `WordSize`, as the code adds them in 32 bits. `Open` is the part
of `rsva11001_connection_open` that resets the receiver. `getLatestImage` is what the
caller learns: no image yet, an image, or one larger than its own buffer
(`CallerSize`, 30000 bytes in `main.c`). Of an image of length zero it sets the size to 0
and returns true, which its comment ("zero if no image was available",
`rsva11001.c:183`) and `main.c:425` take for no image: the buffer holds an image
(`Held`) and none is on offer (`Offered`).

To the connection all this is a body in segments (`BodySegments`): a call completes
nothing, an image, an image too large for the caller, an empty one, is rejected, or
ends the process. `ExecutesSegments` says that each call on bytes is one of these and
that their effect is that of `Execute`, with which `CameraConnection` works: an empty
image, for one, is the only thing that withdraws the image on offer.

One assumption is made about bytes from before the data of a call: they never
happen to be the magic (in the program they are HTTP header bytes or stack
contents).

### CameraConnection and CameraLink

`Reactor` lets a call of `process` take no time. `CameraConnection` is the reason
why it may: there an action is one system call (`poll` and `getsockopt`, each
`send`, each `recv`, `close`) and the DVR and the kernel act between any two.
Readiness is edge-triggered: `edge` is set when a connection is established,
data, a close or an error arrives, and when the send buffer empties after a
`send` that said EAGAIN (`nospace`); epoll(7) promises no other. An edge may also
come with nothing behind it (`Wakes`), which is what the first early return of
`process` is for.
Data is a queue of the segments of `BodySegments`. Two actions end the process:
`SendKills`, a `send` on a connection that the DVR has reset (SIGPIPE), and `RecvKills`, a
segment with an image larger than the receive buffer. `poll` and `getsockopt` are one
step: what happens between them shows in the second as it would in the first.

`CameraLink` is the connection with calls that take no time, over the links of
`Reactor`. The mapping (`ImplementsLink`) reads the link off the whole socket:
what a call would find if it ran now, unread data included (`Pending`: the last
image that arrived before the body was spoilt, if any). Reading data leaves
that unchanged; the call takes effect at the `recv` that says EAGAIN, after which
its result stays what it is even if the DVR closes before the caller looks.
Any system call that fails for a reason of its own is a socket that has failed. `Kill`
ends the process on a link that is `fatal` or has failed.

Both sides use the same links: `DeviceIsCameraLink` (section 4) says that what the
DVR may do to a connection in `Reactor` is what `CameraLink` allows, edges that
announce nothing new included.

### HttpParser and BodyStream

The adapter initialises the parser for responses and sets `on_body` only, so the
states of requests and URLs, pausing and the other callbacks cannot be reached;
strict mode is the default of `http_parser.h`. `Execute` begins a call,
`EndOfData` and the error exits end it (`Return`), and the actions between look at
one symbol, or, in a body, pass over what the call has of it. A symbol is a
character or a word of the status line or of a header: inside of a word the code
only moves `state`, `header_state` and `index` along, and a cut there is like one
before the word. States that only look for what comes next are rows of
`Transitions`, their errors rows of `Otherwise`. `again` is `reexecute_byte`.
`body_mark` is local to a call, as in the code; that a body split over calls is
still handed on whole is not obvious and is what `NothingIsHeldBack` and
`BodyIsPayload` are for. The return value is ignored by the caller, so `Return`
drops the rest of the call's data. `Refuses` is a callback that returns 1.
`content_length` is computed modulo `WordSize`. `header_field_mark` and `header_value_mark`,
which no callback uses, are no variables: within a call they are set exactly while the
parser is in a header's name or value. The assertion at the end of the data
(`http_parser.c:1827`) counts them.

The body of a response is known without the parser: it is marked when the
response is put together (`payload`).

`BodyStream` has the count of bytes handed on and whether there is an error. A
piece is at most one `recv` long, which is what `JpegReceiver` needs for its
buffers, and nothing comes after an error, which is its action `Ignored`.

### ImageFile

One action per system call, one more for each way it fails, and `memcpy` block by
block. A file has contents of its own that stay when its name goes. `O_CREAT`
is modelled as it is, without `O_EXCL` or `O_TRUNC`: that `Open` always makes a new file
is a consequence of the `unlink` before it. After a failing `close` the
descriptor may be open or not. `Crash` is the end of the process at any point (a
full disk ends it in the `memcpy`, since `ftruncate` reserves nothing) and the
next start in the same directory: the files stay, the table and the mappings go.

A reader opens a name whenever it exists and reads block by block at any pace.
It may find no name, an empty file, or zeros where the image is not copied yet:
nothing in the code prevents it. What it never gets is a part of another image
(`ReadersGetOneImage`), and a file whose image is whole stays as it is
(`WholeImagesStay`) for whoever has it open. The adapter's own mapping of an old image
ends with the `munmap` at `main.c:363`; what becomes of a reply that still points there
is decided in sandgrouse.

`ImageStore` has one variable, what each entry shows, and one step that puts a whole
image in the place of another. The mapping (`View`) is what a reply would read
through the table: blocks of the mapped file, or a fault where nothing is mapped
or the file is too short.

### Startup

One action per set-up step of `main()`, in its order, each with its failure, for
every environment. Texts are known by the arrays they fit. A `strcpy` from NULL ends the
process (`fault`). A text past its array runs into the next fields of `globals`: the
process may end, or go on until `configure` refuses the text (`TextsCopied`, `Accepts`). `reactor()` is one step here.

### PollCycle

Four variables: the camera that is connected, whose turn is next, which camera's
image each entry shows, and whether the adapter has decided to stop. `Reactor`
implements it (`ImplementsPollCycle`) with `busy` the camera whose socket is
open, `turn` the iterator, `table` the cameras of `lastImage`. A turn ends with
`Disconnect`, or with the whole program in it (`Die`).

## 3. Runs

| Run | Checks | Result |
|---|---|---|
| `reactor` | `TypeOK`, `AtMostOneConnection`, `CameraEventsAreCurrent`, `EntryBelongsToOneCamera`, `WaitersAreInTheTable`, `RepliesAreFresh` | hold |
| `cycle` | `RepliesAreFresh`, `PendingFitsTable`, `ImplementsPollCycle`, `SignalStopsAdapter`, `EveryCameraGetsItsTurn`, `WaitersAreServed` | hold |
| `table` | `PendingFitsTable` | violated |
| `receiver` | `TypeOK`, `LatestIsAnImage`, `FirstImageIsOffered`, `OnlyOversizedImagesEnd`, `NewestIsOffered`, `ImagesAdvance`, `ExecutesSegments` | hold |
| `receiver_underflow` | `OverflowWasReceived` | violated |
| `receiver_latest` | `MostRecentIsOffered` | violated |
| `connection` | `TypeOK`, `NoLostEdge`, `ImplementsLink`, `ConnectionsEnd` | hold |
| `connection_eof` | `ReceivedImageIsDelivered` | violated |
| `parser` | `TypeOK`, `AssertionsHold`, `BodyIsPayload`, `NothingIsHeldBack`, `ImplementsBodyStream`, `LengthIsBodyLeft` | hold |
| `image_file` | `TypeOK`, `TableIsReadable`, `FileIsTable`, `OnlyFailuresLeak`, `ReadersGetOneImage`, `WholeImagesStay`, `ImplementsStore` | hold |
| `startup` | `ReactorIsReady`, `CleanupIsSafe`, `ExitReleases` | hold |
| `startup_cameras` | `ActiveCameraExists` | violated |

The five violated ones are disagreements between the code and what a comment, an
assertion or the README says; `PROJECT.json` quotes both sides under `findings`. In
`receiver_latest` an image that arrives whole behind the end of another is handed out
only after more data has come, although `rsva11001.c:182` promises the most recent one:
that is why `NewestIsOffered`, which holds, is about images no shorter than one `recv`.

Some behaviours that the model has contradict no promise and are noted with the
hazards: a request read by an `sg_server_process` that no
`sg_server_getNextConnection` follows waits for the next event of the server; an
image too large for the receive buffer fails the assertion on the remaining
space (`RecvNoSpace`; `OnlyOversizedImagesEnd` says that nothing else does); an empty
image withdraws the one before it, and the caller goes on waiting; a length near 2^32
wraps and lets the check for the whole message pass (`RecvWraps`); a failing
`ftruncate` or `mmap` leaves its descriptor open; a `Content-Length` above 2^64 can
be taken for a smaller number.

Bounds of `Reactor`: two cameras are the least for which "the next camera" and
"this camera" differ; with one the wrap-around hides every indexing error. In
`reactor` three clients wait for the same camera, so that two fill a table of two
and the third overruns it; `cycle` has requests of every kind and a place for each
client (`table` has one client more than places). `cycle`, with the liveness properties,
uses one client, because they speak of one client at a time and clients do not wait
for one another. Clients are symmetric and no property of the run that uses the
symmetry is temporal.

Bounds of `JpegReceiver`: header 2, footer 1, buffer 10, at most 5 bytes per
call, words of 16. They keep the proportions that matter: the buffer is two
calls (16383 * 2 in the code), an image can fill it exactly or exceed it by one,
one call can hold the end of one image and a whole further one, a length can
wrap. With room for 3 bytes the caller refuses some of the images that fit the
buffer. One of the bodies is steady (whole images of 5, 10 and 6 bytes), the case
of `NewestIsOffered`; `receiver_latest` has one with an image of 4 bytes between two of
6, shorter than a call. Every way of cutting a body into calls is explored.

Bounds of `CameraConnection`: a request of 3 bytes and room for 2 make a partial
`send`, EAGAIN and a continuation in a later call happen; two unread segments
(`MaxInbox`) let one replace or spoil what the other brought.

Bounds of `HttpParser`: a call may hold a whole header (24 symbols) or one symbol,
and every cut between is explored. The responses have bodies of up to eleven
bytes: until the close, with a length of one digit and of two, chunked with and
without trailers and parameters, each followed by a second response, of both
versions and with both kinds of `Connection`; and one for each error. With
32 for 2^64 a number of two digits wraps around, noticed and unnoticed. A header
of more than 24 symbols makes `HeaderOverflow` happen.

Bounds of `ImageFile`: three images let the third replace one whose call failed;
two cameras, images of one and two blocks so that a smaller one follows a larger
and the other way round, one reader, since readers do not act on each other.

`Startup` has room
for three cameras (8 in the code), so 0, 1, the largest accepted number and the
first refused one are all different.

Fairness. `AdapterFairness` is weak fairness of the adapter's thread: it runs
whenever it is not blocked, and it only blocks in `epoll_wait` with nothing
pending. `DeviceFairness` is what the README says of the DVR, that it sends a
finite amount and closes: a connection is eventually accepted, closed or failed.
`EveryCameraGetsItsTurn` rests on it: the adapter has no timeout, and without
the assumption a silent connection keeps its turn for ever. `WaitersAreServed` has a premise
of its own, `Patience`: from some time on the DVR takes every connection, neither closes
nor fails while an image is awaited or waits to be read, sends nothing larger than the
receive buffer and lets no image be followed by an empty one or one too large for the
caller; each camera sends images that fit again and again, and the file system does not
fail every time. Without such a premise a waiting request has nothing to wait for.
Nothing is assumed about clients or signals. A signal ends the program by way of
`cleanup`, or the program is killed before it gets there (`SignalStopsAdapter`). In `CameraConnection` the same two assumptions appear as
fairness of `Thread` and of `Accepts \/ Closes \/ Fails` while the DVR has not
closed; in addition the kernel sends what it was given (`Drains`).
`ConnectionsEnd` needs the DVR's part also because the receive loop has no bound:
a DVR that never stops sending keeps the thread in one call.

## 4. Proofs

Proved with TLAPS for every value of the constants that satisfies the
assumptions of the module: at least one camera, a table of at least one place; a
receive buffer at least as long as the header and two calls and shorter than the
word; streams in which the byte after an image begins the next; for the parser
any sequences of symbols as responses and any places in them as payload, a
`recv` of at least one symbol and a word that holds more than one hexadecimal digit.

`ReactorProofs`:

* `TypeCorrect`: `TypeOK`, by itself inductive.
* `OneConnection`, `EventsAreCurrent`: from `ConnInv`. Neither property is
  inductive. The invariant says that only the active camera is open, that `link`
  other than `none` means the active camera is open (a program that was killed has no link), that a pending edge or an
  event in the batch implies such a link, that a batch has one event per
  descriptor, and that a batch is only held inside the event handlers. The last
  two are why closing on the camera's event cannot leave a second one behind,
  and why a new camera is never opened while an old event waits.
* `OneCameraPerEntry`: from `EntryInv`, which relates the iterator to the active
  camera (it is always its successor) besides the property itself.
* `WaitersCorrect`: `WaitersAreInTheTable`, inductive with `TypeOK`; the lemma
  `WaitersByPlace` turns it into a statement per client and camera.
* `RepliesCorrect`: from `ReplyInv`, which adds that what a waiting request has
  seen is still the current image of its source.
* `TableSuffices`: `PendingFitsTable` if there are no more connections than places
  (`PlacePerClient`). By `WaitersAreInTheTable` the places of a full table hold
  different connections, none of them the one that is being handled; with the
  pigeonhole principle that is one connection too many. The run `table` shows
  that the bound is sharp. A connection here lasts until it is answered; what
  becomes of one whose client leaves is decided in sandgrouse.

`PollCycleProofs`:

* `ReactorImplementsPollCycle`: `ImplementsPollCycle`, from `TypeOK` and `ConnInv`. The
  lemma `OpenCameraIsActive` replaces the `CHOOSE` of the mapping by the active
  camera; then each action is a step of the cycle or leaves it alone
  (`StepIsCycleStep`). What has to be shown of most actions is that they neither end
  a turn nor take back the decision to stop.

`JpegReceiverProofs`:

* `CopiesFit`, `ImageIntegrity`, `OfferAdvances`: from `RecvInv`. It says that the
  active buffer holds the end of what was taken, from a position at which the DVR
  began an image and not before the image on offer (`ActiveInv`), unless an
  underflow put a byte before it that was never received (`JunkHead`), and that a
  buffer with more than one call's worth of data holds no complete image
  (`SettledInv`), since only an overflow can leave one and an overflow is no
  longer than a call. `SettledInv` is what keeps the second `memcpy` inside its
  buffer after an underflow; it needs `BufferSize >= 2 * RecvSize`.
* `ReceiverExecutesSegments`: the action property `ExecutesSegments`, from `RecvInv`: the
  inactive buffer changes only in `RecvComplete`, where it becomes the image that was
  just found whole: an `image`, `big` or `empty` segment by its length. A rejected piece is
  `junk`, one that fills the buffer without an error `fatal`, at which the process ends.
* `EndsAreOversized`: `OnlyOversizedImagesEnd`, from `RecvInv` and `FullInv`: a buffer that
  is full without an error begins with an image that is longer than it. The
  property says nothing about a full buffer before the assertion is reached, so it
  is not inductive; and after an underflow the buffer begins with a byte that is
  no magic, which makes the next call an error and not an end.
* `NewestImage`: `NewestIsOffered`, from `RecvInv` and `SteadyInv`: the active buffer is
  all that came since the end of the image on offer, and not yet the whole of the
  next. An image no shorter than a call cannot be completed by an overflow, which
  excludes the underflow. No image of such a body is empty, so each one held is offered.
* `FirstImage`: from `RecvInv` and `FirstInv`: an image is held, or the active
  buffer is exactly what was taken and the first image is not complete. What is held is
  an image of the DVR's, so it is on offer unless the DVR made it empty.

`CameraConnectionProofs`:

* `TypeCorrect`, and `EdgesSuffice` (`NoLostEdge`) from `EdgeInv`: the claim about
  the waiting thread is carried back along the call that went before it. In the
  receive loop the request is handed over or an edge is due; between the last
  `recv` and the wait nothing is left unread unless an edge is pending; nothing
  arrives before the connection is established.
* `ConnectionImplementsLink`: `ImplementsLink`, from `EdgeInv` and `LinkInv` (nothing is
  read before the connection was found established; `process` fails only for an
  end or an error of the socket; a socket exists exactly while the connection is
  open). The mapping applies the unread data to what was read, and two lemmas say
  how that behaves: taking a segment from the front and executing it changes
  nothing (`ExecuteAllHead`), a segment that arrives at the end is executed last
  (`ExecuteAllAppend`). The first makes the receive loop invisible, the second makes
  the arrival of data a step of the DVR.

`HttpParserProofs`, for every response, every cut and every refusal:

* `TypeCorrect`, `BodyInOrder`: from `CursorInv`: between calls nothing is marked and
  nothing is left over, within a call there is no error, and what `on_body` was given
  is in order and before the mark. Every action is one of a few movements of
  the cursor (`StepMovesCursor`), so the invariant is shown for those.
* `AssertionsNeverFail`: `AssertionsHold`, from `ParserInv`: at the start of a chunk
  size `nread` is 0 and the symbol is not looked at a second time; in a header's name
  or value `header_state` is one of those the code has a case for; the chunk
  states have `F_CHUNKED`; a chunk size is a number all along; `body_mark` is only set in
  the body, where the other two marks are not. The assertions alone are not inductive: that `nread` is 1
  where the code asserts it depends on the reset in the states before.
* `LengthIsKept`: `LengthIsBodyLeft`, from both: no step takes bytes for `on_body` that
  are not taken off `content_length`, or the other way round.
* `EndlessBodyIsPayload`, `EndlessNothingIsHeldBack`: `BodyIsPayload` and `NothingIsHeldBack` for
  the responses that the DVR sends (`EndlessResponse`): a status that may have a
  body, any headers but a length, an encoding and an upgrade, a blank line, and a
  body up to the close. From `EndlessInv`: up to the blank line the state is one of
  those of the head, has learned nothing that would end the body, and knows
  whether a line has just ended (`InHead`, `LineInv`); behind it the state is
  `s_body_identity_eof`, and what `on_body` was given and what is marked are together
  all that was passed (`InBody`). `LineInv` is the part without which the end of
  the head cannot be told. No theorem says that the head is accepted: after an error
  the claim is that what was handed on is a beginning of the body.
* `ParserImplementsBodyStream`: `ImplementsBodyStream`, from `CursorInv`; a piece is no
  longer than one `recv` because a mark never outlives its call.

`ImageFileProofs`, for every number of cameras, readers and calls and every size:

* `TypeCorrect`, `RepliesAreReadable`, `FileMatchesTable`, `LeaksAreFailures`,
  `OneImagePerRead` and the action property `WholeImagesKept`: from one invariant,
  `FilesInv`. The properties speak of the moments between calls; the invariant
  says what a call has done so far: it works on a file of its own (`CallInv`) that
  nothing refers to before `open` has made it (`OnlyCreatedFiles`) and neither
  table nor history before the call has ended (`OnlyEndedCalls`); a file holds
  only its own image (`ContentInv`), and no two entries share one (`TableInv`), so
  that unmapping the old image of one camera leaves the others readable. `pc =
  "open" => dir[cam] = None`, the `unlink` before the `open`, is the part of `CallInv`
  on which `WholeImagesStay` and `ReadersGetOneImage` rest.
* `TableIsImageStore`: `ImplementsStore`, from `FilesInv`: a reply reads exactly the image
  that the entry names (`ViewInv`), at every point of a call, and the file of
  a call is named by no entry before `Store`.

`StartupProofs`:

* `ReactorStartsReady`, `CleanupSafe`, `ExitHasReleased`: from `StartInv`, which says
  for each step of `main()` what is set up when it is reached: texts that fit their arrays
  as soon as a camera is configured; connections only for
  cameras there are, and for all of them after the loop; the server alive only
  between its set-up and its closing; which descriptors are open and watched.

Between the models:

* `DeviceIsCameraLink` (in `ReactorProofs`): the steps of the DVR in `Reactor` are
  those of `CameraLink`, by `TypeOK` and a comparison of the two sets of steps.
* `LastImageIsImageStore` (in `ReactorProofs`): `lastImage` is an `ImageStore` in which
  images are only published, from `EntryInv`: a new image differs from what its own
  entry holds by the mark and from all others by the camera.

Together with the refinements they make one chain from the bytes to the cycle of
the README: `HttpParser` implements `BodyStream`, which is how `JpegReceiver` is called;
its calls are the segments of `BodySegments`, which `CameraConnection` executes; it
implements `CameraLink`, which is the DVR of `Reactor`; `Reactor` implements `PollCycle`.
On the other side `ImageFile` implements the `ImageStore` that `Reactor` has for its
table. The links between two modules are shared definitions and theorems about
each side; there is no theorem about the composition of all.

Only model-checked:

* the liveness properties `SignalStopsAdapter`, `EveryCameraGetsItsTurn`,
  `WaitersAreServed` and `ConnectionsEnd`: fairness is outside of the prover;
* `BodyIsPayload` and `NothingIsHeldBack` for responses with a length or in chunks, and
  for responses in succession. They compare with the payload that is marked in
  each response of `MCHttpParser`; for arbitrary responses of these kinds it would
  have to be defined by a second, recursive reading of the lengths in the text, and
  what that computes takes an induction. `BodyInOrder` and `LengthIsKept` are the
  part that needs no such definition;
* the violated properties.

## 5. Not modelled

Logging; `request.c` (not compiled); the firmware scripts and the reverse
engineering material; the parts of the vendored parser that the adapter cannot
reach (requests, URLs, pausing, callbacks it does not set); the inside of
sandgrouse, and with it the life time of a waiting connection whose client
leaves and of the image data a reply still points to.

## 6. Plan

The promises of the README came first: the event loop with its tables, the
receiver, the connection, the way in and out; then what they rest on, the parser
and the file. Everything the adapter's own code does to its state is modelled.
Every safety property that holds is proved, `BodyIsPayload` and `NothingIsHeldBack`
for the responses the DVR sends, and so are the four refinements. What is left:

1. `HttpParser`: that the framing of a chunked body never goes to `on_body`, stated
   symbol by symbol instead of by a payload.
2. A module that composes `JpegReceiver` with `CameraConnection`, for a theorem about
   bytes and system calls together.
