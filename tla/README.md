# Nozomi in TLA+

Nozomi is a C++ library for web applications on top of Facebook's proxygen,
folly and wangle. This directory holds a formal model of it: TLA+ modules
translated from the sources under `src/src`, TLC configurations that check them
on small instances, and proofs, checked by TLAPS, for every value of the
constants. Paths below are relative to `src/src` unless they start with `src/`.

To repeat the work, in this directory: `tlc -config X.cfg M` for a run of
`PROJECT.json`, and `tlapm M.tla` for a module of proofs.

## 1. The system

### 1.1 Components

| component | sources | state it keeps | operations |
|---|---|---|---|
| HTTPHandler | `HTTPHandler.{h,cpp}` | `message_`, `body_`, `request_`, `response_` (the chain of futures); the object itself, which deletes itself | proxygen's `onRequest`, `onBody`, `onUpgrade`, `onEOM`, `requestComplete`, `onError`; the continuations of `onEOM`; `sendResponse` |
| StreamingHTTPHandler | `StreamingHTTPHandler.h`, `-inl.h` | `evb_`, `responseBuilder_`, `sentHeaders_`, functions queued at the event base; the object | the same callbacks; `sendResponseHeaders`, `sendBody`, `sendEOF` for subclasses |
| StreamingFileHandler | `StreamingFileHandler.{h,cpp}` | `path_`, `rawPath_`, `ifModifiedSince_`, the open file | `sanitizePath`, `setRequestArgs`, `onRequestReceived`, `onEOM`, the reader that runs on an IO thread |
| Router | `Router.{h,cpp}` | `staticRoutes_`, `routes_`, `errorRoutes_`; constant once constructed | constructor, `getHandler`, `getErrorHandler` |
| Routes | `BaseRoute.h`, `Route*.h`, `StaticRoute*.h`, `RouteMatch.h` | pattern, methods, handler | constructor with its check of parameters, `handler`, `streamingHandler` |
| HTTPHandlerFactory | `HTTPHandlerFactory.{h,cpp}` | the Router, the timeout | `onRequest` (once per request) |
| RouteParsing | `RouteParsing.{h,cpp}` | the pattern that is being rewritten | `parse_route_pattern`, `get_handler_args` |
| PostParser | `PostParser.{h,cpp}` | the parsed fields | parsing of url-encoded bodies, four getters |
| HTTPRequest, HTTPResponse | same names, `StringUtils.h` | one message | path, query parameters, headers, cookies, `to_string`; getters and constructors |
| Config | `Config.{h,cpp}` | the settings | setters that validate, constructors that call them in order |
| Server | `Server.{h,cpp}` | `mainThread_`, proxygen's server | `start`, `stop`, each with a thread of its own |
| Util, EnumHash | same names | none | templates resolved by the compiler |

### 1.2 How they interact

`Server::start` gives a proxygen server one `HTTPHandlerFactory`, which owns
the `Router`. For each request proxygen calls `HTTPHandlerFactory::onRequest`
in a worker thread that runs an event base. The factory asks the router; the
match wraps either an ordinary function (of a route, or an error handler),
which goes into a new `HTTPHandler`, or a streaming route, which makes a
`StreamingHTTPHandler`, hands it the arguments found in the path, and returns
it. From then on proxygen calls the handler in that one event base thread:
`onRequest`, any number of `onBody`, `onEOM`, and exactly one of
`requestComplete` and `onError`, after which it makes no other call. A handler
deletes itself there.

Everything else about a request happens in other threads. `HTTPHandler::onEOM`
builds a chain of futures: the user's function on the IO executor, the 500
handler if that fails, a timeout raced against both with the 503 handler on
the thread of folly's timers, a last guard, and `sendResponse` back in the event
base thread. `StreamingFileHandler::onEOM` hands the reading of the file to the
IO executor; the reader calls the send functions there, which queue functions
for the event base thread. The captured `this` is the only link between those
threads and the object, and nothing keeps the object alive for them.

### 1.3 What is hard, and what correctness means

* *HTTPHandler.* Result and timeout race; either may come while the 503 handler
  runs, hangs or fails; the chain outlives the object. Correct: one response at
  most, which says what happened; an answer in the end although IO threads are
  exhausted; the body of the request complete and in order; no use of the
  object after it is deleted.
* *StreamingHTTPHandler.* Sends come from one thread and are executed in another,
  the deletion goes through the same queues. Correct: what is written is what
  was sent, in order; what was finished is written; no use after deletion.
* *StreamingFileHandler.* The end of the file, its boundaries, read errors and
  exceptions, three ways to answer. Correct: one well-formed response, whose
  body is the file; 304 only for a file that was not modified.
* *Router, Routes, HTTPHandlerFactory.* The order of routes across two lists, the
  memory of "path but not method" across both, the ownership of an object
  while user code may throw. Correct: the first route that matches wins; 405
  and 404 are told apart exactly; objects are neither leaked nor deleted twice.
* *RouteParsing, Route.* A pattern is rewritten in place while it is searched, with
  positions counted in what was there before; its parts are compiled at three different
  moments. Correct: parameter N of the pattern is argument N of the function; a route
  exists exactly if pattern and function agree; the arguments together spell the path.
* *HTTPRequest, PostParser.* Escapes that name no character, keys spelled in several ways,
  pairs without a sign, chunks. Correct: a form that was sent is the form that is read; nothing of any
  body is lost; a query parameter that is given was sent.
* *Config.* Settings checked one by one, signed numbers taken for sizes. Correct: what
  exists is usable as a whole, what was refused was not.
* *Server.* `start` and `stop` share `mainThread_` without a lock, and each has a thread of
  its own. Correct, for a user who waits for each future: no two threads get at `mainThread_`, a fulfilled future says what the
  server does, the process does not abort. For any user: every future is fulfilled.

The list `hazards` of `PROJECT.json` gives each hazard with its line and the
properties that would notice it going wrong.

## 2. The modules

| module | models | uses |
|---|---|---|
| `RequestReply` | what an HTTP handler promises to each client, without threads | |
| `HTTPHandler` | `HTTPHandler.cpp`, for several requests that share IO threads, timer thread and event base | refines `RequestReply` |
| `StreamingHTTPHandler` | `StreamingHTTPHandler-inl.h`: state and operations of the base class | |
| `StreamingUser` | any subclass that calls from one thread in the documented order | extends `StreamingHTTPHandler` |
| `StreamingFileHandler` | `StreamingFileHandler.cpp` | extends `StreamingHTTPHandler` |
| `Router` | `Router.cpp` and the `handler` of both kinds of route | |
| `HTTPHandlerFactory` | `HTTPHandlerFactory.h`, and `streamingHandler` of both kinds of route | extends `Router` |
| `RouteParsing` | `RouteParsing.{h,cpp}` up to a compiled pattern, and the constructor of `Route` | |
| `HTTPRequest` | `HTTPRequest.{h,cpp}`, `to_string` of `StringUtils.h`: operators | |
| `PostParser` | `PostParser.{h,cpp}`: operators | extends `HTTPRequest` |
| `RequestInput` | what a request brings to a user's function: `Route::handler`, `call_handler`, `get_handler_args`, then the form or the query | extends `RouteParsing`, `PostParser` |
| `Config` | `Config.{h,cpp}` | |
| `Server` | `Server.{h,cpp}`, from the constructor of its Config on | extends `Config` |
| `HTTPHandlerProofs`, `StreamingUserProofs`, `StreamingFileProofs`, `HTTPHandlerFactoryProofs`, `RequestInputProofs`, `ServerProofs` | the proofs about `HTTPHandler`, `StreamingUser`, `StreamingFileHandler`, `Router` with `HTTPHandlerFactory`, `RouteParsing` with `RequestInput`, and `Config` with `Server` | TLAPS |
| `StreamingHTTPHandlerProofs` | lemmas about the operations of the base class, for every subclass | TLAPS |
| `Induction` | induction, recursion and counting on natural numbers, stated with sets and functions | TLAPS |
| `MCHTTPHandler`, `MCStreamingFile`, `MCRouter`, `MCRequestInput`, `MCServer` | model values and tables for TLC | |

The operators named `X_Something` that carry a comment "Mutant:" are variants of
the operator `X` with a plausible bug. No specification uses them; they stand
beside the model to show, for each property, a change of the code that the
property would notice.

### 2.1 HTTPHandler

Each request has an `HTTPHandler` of its own; a variable is a function from
requests.

| variable | in the code |
|---|---|
| `ingress`, `received` | what proxygen has delivered (`onRequest`, `onBody`, `onEOM`) |
| `body`, `request` | the chunks in `body_`, and in `request_` after `onEOM` |
| `object` | the object: live, or deleted by `requestComplete` or `onError` |
| `stage` | the chain of lines 75-78: queued on the executor, running, waiting for the future the function returned, resolved, then the same for the 500 handler |
| `outcome` | how each of the user's functions ended: a response, a `std::exception`, folly's `TimedOut`, or something else that was thrown |
| `timer`, `token` | folly's `within`: a timer, and a token that the first of the two sides takes |
| `fallback` | the 503 handler |
| `tasks`, `sent` | responses posted to the event base, and written, each named by the function that made it |
| `dangling` | who used the object after its deletion |

`OnRequest` to `OnError` are the callbacks; `BeginHandler`, `HandlerPending`,
`HandlerEnds`, `PassResult`, `HandleError`, `Error500Pending`, `Error500Ends` are
the steps of an IO thread, or of the thread that completes a future;
`TimeoutFires`, `Error503Pending`, `Error503Ends` are the timer thread's;
`SendResponse` is the last continuation. `Arrive` is the arrival of the
handler's side at the race, `Post` the last `onError` followed by the posting to the
event base. `onUpgrade` does nothing in the code and has no action.

A deleted object stays in the model as memory that still reads as before, and
each use of it is recorded in `dangling`. This keeps undefined behaviour from
cutting the model short and lets the properties speak about it.

`IOThreads` bounds how many functions *run*; a function that has returned a
future that is not ready occupies no thread, as in folly.

What is assumed of the libraries, from how the code uses them:

* `onTimeout` is `within` followed by an `onError` for `TimedOut`. The first side to
  come takes the token; so a `TimedOut` thrown by the 500 handler is taken for the
  timeout (`Arrive`), and the 503 handler is called when the token was won by the
  timer or by such a `TimedOut`.
* An exception of another type than the `onError` names skips it and all that
  follows: `onError<std::exception>` does not see an `int` that was thrown.
* proxygen calls `requestComplete` only once the response has been written.

### 2.2 StreamingHTTPHandler and its subclasses

`runInEventBaseThread` queues what it is given: functions from the event base
thread go to its loop callbacks (`loopQ`), functions from any other thread go to its
notification queue (`notifQ`). Both are first-in first-out, and nothing orders one against
the other. `calls` is what the subclass has asked for, `wire` what the event
base thread has given to proxygen. `Send` is one call of
`sendResponseHeaders`, `sendBody` or `sendEOF`, `OnError` and
`RequestComplete` queue the `delete`, and `Run` is what one queued function does.

`StreamingUser` is the most general subclass in two respects: it calls at any
moment after `onRequest`, and from whichever of the two kinds of thread it was
written for (`caller`). A subclass that sends headers from one thread and bodies from
the other would have them overtake each other; no subclass in the repository
does, and `StreamingUser` does not.

`StreamingFileHandler` adds the path of the request (`rawPath`) and what becomes of it (`path`), the
file (`file`, its length and time of modification), what the path leads to (`kind`), the date of If-Modified-Since
as the client meant it (`date`) and as the code sees it (`ifModifiedSince`), and the
reader (`reader`, `fin`, `pos`). A piece of body is its position in the file and its length, with the number
of bytes in it that nobody wrote (`garbage`). Its `onBody` and its two
end callbacks do nothing but log.

Memory may be wanting at any step, with two different results. On the IO thread the continuation of line 70 can
throw before it has sent headers (the stream, `HTTPResponse`) as well as in the loop (`IOBuf::create`):
`AllocFails`, after which `onError` logs and the last continuation calls `sendEOF`. The callbacks and the send
functions are `noexcept`, so there the process terminates: `NoMemory`. The `onError` itself does not throw:
it writes to a log, whose stream keeps its failures to itself. `Filled` is the buffer of one turn of the loop, as long as its
tailroom (`ReadBufferSize + Slack`) and trimmed by what is left unread of `readBufferSize_`.
`StreamingUser` leaves memory failures to its subclass.

A path is a sequence of components, with `"/"` as the first of one that has a
root; a component is a name, `".."` or `"."`. `SanitizePath` goes through it from the front as the
code does. Its reference, in `PathIsResolved`, works from the other
side and keeps no path at all: a name survives if nowhere after it the `".."`s have outnumbered the names.
`setRequestArgs` only stores what it is given, which is `rawPath` in `Init`.

### 2.3 Router and HTTPHandlerFactory

A route is its position in the vector given to the constructor; a pattern is
the set of (unescaped) paths it matches as a whole. The constructor moves one route per step
(`PushRoute`). `getHandler` is modelled step by step, one route per step, as the code's two loops do
(`VisitStatic`, `StaticDone`, `VisitDynamic`, `NotFound`). `HTTPHandlerFactory` turns the
match into a handler: `MakeHTTPHandler`, or for a streaming route `MakeStreaming`,
`MakeNull`, `MakeThrows`, `SetRequestArgs`, `SetRequestArgsThrows`, `ArgumentThrows`, `Catch`. The last
but one is the conversion of an argument, which the library does before the user's `setRequestArgs` is entered:
`get_handler_args<double>` throws for a text that is no number. `cause` says whose the failure was, the
user's or an argument's. Which patterns and paths lead to a failed conversion is `RequestInput`'s matter; here any
streaming route with a pattern may. A router
serves any number of requests one after the other: nothing of it changes after construction, so
requests of several worker threads do not affect one another.

### 2.4 RouteParsing, HTTPRequest, PostParser and RequestInput

A pattern is a sequence of pieces: a literal character or a parameter. Of a parameter
the model knows the kind, whether it is optional, the *names* of the regular expressions in it, and whether the
user has put it into an optional group of the pattern's own (`wrapped`). A name
stands for a language (`InLanguage`) and a length (`LengthOf`); `"bad"` is an expression that does
not compile.

`ParseMatch` is one turn of the first loop of `parse_route_pattern`, which collects the
replacements; `Replace` is one turn of the second, which writes them into
`finalRoute`. The second loop is modelled on positions in characters (`Position`, `it`, `Found`), since
that is where it could go wrong: the search goes on at the place found plus the length of what stood there
*before*. `Compile` compiles the result, and `CheckParameters` compares it with the
function's type.

`MatchPath` is `boost::regex_match`: `Divisions` are all the ways to divide a path among the
pieces, `Preferred` the one that perl's order of alternatives finds first.
`CallHandler` converts every group to its argument (`HandlerArg`) before the function runs;
what a conversion throws leaves `Route::handler`'s caller to deal with. Numbers are texts of digits; what
`folly::to` cannot hold becomes `MaxInt`, as in the code.

A function that was called reads a form (`ReadForm`) or asks for a query parameter (`ReadQuery`). A text
on the wire is a sequence of characters, each itself, spelled as an escape, or an
escape that names no character: for the last `folly::uriUnescape` throws, and every caller in the code has
a way of its own to go on. `QueryParam` is the *set* of answers that the unspecified order of
proxygen's map allows. `to_string` puts chunks together at an offset that is an `int`, which wraps
at `IntLimit`. Of the client the model knows what it takes for a spelling of a form (`SpellsForm`): the fields with
`&` between them, each character itself or an escape, a space perhaps a plus, and the `=` perhaps missing where there is no value.

### 2.5 Config and Server

A constructor of `Config` is one step for each setter, in the code's order; `settings` has what the setters
so far have assigned. A negative number that becomes a `size_t` is taken modulo `SizeLimit`.

`Server` follows each call of `start` and `stop` by itself:

| variable | in the code |
|---|---|
| `pc` | how far the call is: `start` between its check of `mainThread_` and its assignment (lines 41-45); `stop`'s detached thread between lines 65 and 73 |
| `future` | the future that it returned |
| `server` | the thread that a `start` made, which runs `server_.start` |
| `mainThread` | whose thread `mainThread_` holds |
| `threads`, `destroyed` | the `Server` between its constructor and its destructor |
| `crashed` | why the process aborted: the `CHECK`, or what `std::thread` and proxygen do to a caller who breaks their rules |
| `careful` | whether the user waits for each future before the next call, and starts or destroys only what is down |

`Start`, `CreateThread` and `AssignThread` are `start`; `Serve`, `ServeFails` and
`ServerReturns` its thread; `Stop` is the call and `FindThread`, `StopServer`, `Join` and `Clear` its
detached thread; `MakeServer` and `Destroy` are constructor and destructor. Nothing happens
after a crash. Both kinds of user are in one state space: what the code promises holds for
a careful one, and a careless one finds every way to crash.

Of proxygen's `HTTPServer` it is assumed, from its use in `Server.cpp`, that `start` calls one of
its two callbacks and returns, after `onSuccess` only once `stop` was called, and that
`stop` is for a server that is up.

## 3. The runs

| run | states | what it asks |
|---|---|---|
| `handler_one` | 6,769 | One request with every way its functions may end: one answer at most; the body whole; an answer that fits what happened; no answer only after something foreign was thrown; refinement of `RequestReply` |
| `handler_shared` | 100,851 | Two requests that compete for one IO thread and the timer thread: when may a deleted object be used |
| `handler_liveness` | 268,687 | Two requests, one IO thread that a function may hold for ever: every complete request is answered, or its client goes away |
| `handler_use_after_complete` | violated | The comment of `requestComplete` that "deleting here is fine" |
| `handler_use_after_error` | violated | The comment of `onError` that "it's safe to delete here" |
| `streaming_user` | 54,976 | Order, completeness and lifetime for any subclass of one thread |
| `file` | 359,828 | Every response of the file handler, for every path, file and failure within the bounds |
| `file_read_error` | violated | That the reader stops after a read error, as a test's name says |
| `file_skew` | violated | That 304 is right, on a server west of Greenwich |
| `router` | 169,920 | Which route, which error and which object each request gets, for every small table |
| `input` | 183,522 | For every small pattern and function whether there is a route; for every small path what arguments it passes on; what is read of every small form and query |
| `server` | 276,756 | Which Configs exist; what four calls of `start` and `stop` may do to each other, by a user who waits and by one who does not |

### 3.1 Bounds

* `MaxChunks = 3` in `handler_one`: after the empty body and the first chunk, the third is the
  first that can be put in the wrong place among several. The other runs have no
  chunks: their properties do not look at the body.
* Two requests and one IO thread: the smallest instance in which one request
  keeps another from a thread. The proofs cover every number of both.
* `Ends` leaves out what a run does not ask about: `"other"` where an answer is
  required (`handler_liveness`), since an exception that no `onError` catches is
  known to produce no answer, which `handler_one` states
  (`SilentOnlyAfterForeignException`).
* `MaxBodies = 6`, pieces of length 0 or 1: enough for queues in which
  everything of a response waits at once, empty pieces in any place.
* `ReadBufferSize = 2`, files of 0 to 5 bytes: the empty file, lengths that are
  and are not a multiple of the buffer, and up to three pieces.
* `Slack = 1` in `file`: `IOBuf::create` gives one byte more than it is asked for, which is all that
  `BodyIsFile` needs to tell the excess from what was read, from what was trimmed, and from a gap. An
  allocator without excess is the simpler case, and `FileBodyIsFile` covers each. The two runs with a counterexample have 0, since
  excess plays no part in it.
* `MaxCalls = 6`: after a read error the loop sends a buffer in every turn, for ever, and with an excess each of
  them reaches the client. The header and at most two pieces of a file are sent before, so the loop can take
  three turns or more; all further ones are alike. The bound is a guard of `ReadFails` alone. It makes the loop stop, which
  nothing relies on: `EventuallyComplete` excepts a bad stream, and without an excess, in `file_read_error`, the
  pieces are empty and dropped, so that the bound is not reached and the loop turns for ever.
* `MaxTime = 2`, `ClockSkews` 0 or 1: times before, at and after one another.
* `MaxComponents = 5`: two names, `".."` and `"."`, with a root or without: enough for a path that leaves the base
  directory, comes back and leaves it again.
* `MaxRoutes = 3`, two paths, two methods and an unknown one: three routes are the
  least for a match after a wrong method and a wrong path, across both lists. Every
  table with these routes is tried.
* `MaxPieces = 4`, two of them parameters: two equal parameters, next to each other and apart,
  before and after literals, are what could be confused when replaced. `MaxPath = 4` characters give
  each of four pieces one, or one piece several. `MaxDigits = 1`: two digits already do not fit.
* `MaxBody = 3` characters of any sort, and every form of two fields with texts of at most one character in
  every spelling: each sign in each place of a pair, and a key that comes twice.
* `IntLimit = 4` with bodies of up to ten characters in up to five chunks: the offset overflows at 4, and
  wraps back to where an insertion would succeed.
* A function that reads a form or the query has no parameters and a pattern of at most one piece
  (`Reads`): what it reads does not depend on either.
* Four calls: `start`, `stop`, and both again, or any overlapping of them. `SizeLimit = 16` and
  `MaxBufferSize = 4` stand for 2^64 and 1 GB; settings of -1, 0, 1 and the sizes at and above
  the limit are tried in every combination.

`CHECK_DEADLOCK FALSE` stands in all configurations: the system stops when
every request is through, or, in `file`, `router` and `server`, when the process has
terminated; in `input` when the route was refused or the function has read what it asked for, and in
`server` also when the calls are used up.

### 3.2 Fairness

* `HTTPHandler!FairSpec`: the timer fires; the event base runs what was posted; a 503
  handler that has been called ends. The first two are what folly's threads do
  as long as they are not blocked. The third is true of the built-in handler,
  and is a condition on a user's own: one that hangs blocks the timer thread of every
  request. *Nothing* is assumed of IO threads, the user's handler or the
  500 handler: they may hang for ever, which is what the timeout is for.
* `StreamingUser!FairSpec`: the event base runs what is in each of its queues.
  Nothing is assumed of the subclass.
* `StreamingFileHandler!FairSpec`: the same, and the executor gives the reader a
  thread and the reader goes on. proxygen's and the client's callbacks are not
  assumed to happen.
* `Server!FairSpec`: a thread that has been started goes on, be it the user's inside `start`, the
  server's or a stop's, and proxygen's `start` succeeds or fails, and returns once it was stopped. No call
  is assumed to be made. `Join` is enabled only when the thread it waits for has ended, so that
  a stop which waits for ever would be found.

## 4. The proofs

`HTTPHandlerProofs`, for every set of requests, number of IO threads, number of
chunks, set of error routes and set of ways in which functions may end
(`HTTPHandlerAssumption` says no more than their types):

* `TypeCorrect`: the type invariant, inductive by itself.
* `OneAnswer`: `AtMostOneAnswer` is not inductive: a state in which a response
  waits while the race is open satisfies it, and the next result breaks it. `RaceInv`
  adds what the token is for: while it is free nothing was posted, and while
  the 503 handler has not ended nothing was posted either.
* `BodyIsWhole`: `BodyInv` says what `body` holds before `onEOM` as well.
* `DanglingOnly`: `LifeInv` says that a live object has no such use and that one
  completed had been answered; `StageInv` that the handler's side takes the
  token only when it is settled. Together with `RaceInv`: after a response the
  503 handler is through and nothing is posted (`AfterAnswer`), so only a handler that lost
  the race can still run.
* `SilenceExplained`: `OnceInv` says that a function ends once, so what was
  thrown is not forgotten; `SilentInv` that whichever side took the token has
  posted a response when it is through, unless what it got is foreign.
* `AnswersJustified`: `OutcomeInv` ties the stage and the 503 handler to the
  outcomes that led there; `ArriveAnswer` is the common step.
* `Refinement`: `HTTPHandler` implements `RequestReply` under the mapping at the end of the module. Initial states map to
  initial states; each step maps to the step of the same name or to a stutter;
  a posted response becomes a `Reply` when it is written.

`StreamingUserProofs`, for every set of threads a subclass may be written for and
every number of pieces (`StreamingUserAssumption`: their types), from the
lemmas of `StreamingHTTPHandlerProofs` about one call, one callback and one queued function:

* `UserTypeCorrect`: the type invariant.
* `UserInOrder`: `WireFollowsCalls` needs `CallerInv`: a subclass that calls from one
  thread has one of the two queues in use (apart from the `delete`), so neither can overtake the
  other; `QueueInv` adds that no `delete` is queued while the exchange stands. `OrderInv` is
  `QueueInv` with `WireFollowsCalls`, which then is inductive.
* `UserDanglingOnly`: `FinishInv` says that the end is the last thing a subclass
  asks for. Where proxygen completes a response the end was written, so nothing
  was left in the queues when the `delete` was put there, and nothing comes after.
* `EventBaseSafe`: `DeleteLast`, the `delete` is the last in the queue of loop callbacks.

`HTTPHandlerFactoryProofs`, for every table of routes, set of paths and methods,
set of error routes and of things thrown (`RouterAssumption`,
`FactoryAssumption`: their types, and that a static route matches one path):

* `FirstRoute`, `ExactError`: `ListsInv` says what the constructor has done: each
  list holds the positions of its sort, all and in ascending order (`Holds`).
  `SearchInv` says what the walk knows: no route passed over matched, and
  `methodNotFound` holds exactly if one of them matched the path.
* `FactoryTypeCorrect`: the type invariant of factory and router.
* `ObjectsKept`, `NullExplained`: `MakingInv` counts the object between its making
  and its end, and says that only a route with a pattern fails over an argument; `HandedInv` relates what was
  returned to what failed (`Explained`).

`StreamingFileProofs`, for every size of buffer and file and every set of requests and failures
(`StreamingFileHandlerAssumption`: their types), on the same lemmas of the base
class:

* `FileTypeCorrect`: the type invariant; `BytesRead` says what one read leaves of the file.
* `FileSendsInOrder`: `ReaderInv` says what has been asked for at each step of the reader, and `ShapeInv` what form that
  has. The DCHECKs fail in one case only, where the reader had an exception before the headers: then `sendEOF` is the
  only call there is, and no other will follow. `onEOM` answers
  from the event base thread or leaves the answer to the reader, never both, so one queue is
  in use and `WireFollowsCalls` holds as for any subclass (`OrderInv`).
* `FileWellFormed`: `ShapeInv` is the form of the *calls*, a response or a lonely end; the wire is a beginning of them
  (`WireIsPrefix`).
* `FileDanglingOnly`: as for `StreamingUser`; the reader's end is the last it asks for.
* `FileNotModified`: `DateInv`. It assumes that local time is GMT or east of it (`skew <= 0`
  for each skew), which is exactly what the run `file_skew` drops.
* `FileBodyIsFile`: `BodyInv` says that the pieces follow one another without gap from 0 to `pos`, each with exactly
  `Slack` bytes beyond what was read (`FilledPiece`). Nothing is assumed of `Slack`; where it is 0 the theorem says that there are no
  foreign bytes at all. `LoopTurns` says which steps can add to the body.

* `FilePathResolved`: `SanitizePath` is a recursive function; `TypeOK` says that `path` is its value, and an
  induction over the components of the path, that after each of them the names kept are those that survive so
  far, in order (`InOrder` of `Induction` counts them).

`RequestInputProofs`, for every set of patterns of any length, functions, paths, queries and bodies
(`RouteAssumption`, `RequestInputAssumption`, `IntLimitAssumption`). Besides types these assume that the largest `int64_t` is not the text of
a character of a path (it stands for a number, and no path of the wire can contain it); that no buffer but the last of
a chain is longer than an `int` can count (proxygen's buffers are kilobytes); and that a body which is given together
with a form is a spelling of that form, which is what those words mean:

* `RouteGroupsInPlace`, `RouteChecked`: `RouteInv`. `ReplacementsInv` and `AllFoundInv` say that the first loop
  collects every parameter under its number; `PlaceInv` that the parameters replaced so far are groups and that
  the second loop's position has not passed the next one. The argument is one of lengths: a group is no shorter
  than what stood there (`GroupIsLonger`), so to go on at the place found plus the *old* length never goes past the next
  parameter; and as those before it are groups by then, the first text found is its own (`ReplaceFinds`).
  `CheckedInv` is what is known of the regular expressions and of the comparison with the function.
* `InputTypeCorrect`: `InputInv` is `RouteInv` with what was matched (`MatchInv`: `matches` is one of the
  `Divisions` of the path), what was passed (`ArgumentsInv`), and what was read (`ReadInv`).
* `ArgumentsSpell`: from `InputInv`. The N-th group is found in `matches` at the N-th parameter of the pattern
  (`GroupOfParameter`), and each piece takes of the path what its argument spells (`PieceIsSpelled`).
* `QueryAnswered`: `QueryInv`, and what a prefix that can be unescaped has in common with the whole.
* `BodyRead`: `BodyInv`, and an induction over the chunks: as long as nothing was thrown, and the offset
  has not wrapped, it is the length of the text so far; once it has wrapped it is negative at the next chunk,
  and the `insert` there throws (`OffsetWraps`).
* `NothingIsLost`: `FormInv` says what `fields` is of which body. `Split` is characterised by the places between
  which its pieces stand (`Separates`); each piece adds one value and as many characters as it has
  without its first `=` (`AddPieceCounts`), which are counted as sets of places.
* `FormAnswered`: a text can be divided into pieces in one way only (`SeparatesOnce`), so the pieces that the code finds are the
  fields that the client wrote; each is read as that field (`FieldIsRead`), and appended at the end of the
  list of its key (`ReadsOneMore`).

Induction over data is done on sets: for a function that is defined by recursion on 0..n (`SanitizePath`,
`Split`, `BufferToString`, `Divisions`), the set of the k for which a claim holds contains 0 and every successor, hence 0..n (`UpTo`).
That such a function exists at all, as the definition says, is `Recursion`, which builds it step by step, and
`TakesSteps`. `UpTo` rests on the least element of a set of natural numbers (`LeastNat`), from the
library's theorem that finite sets are well-founded under inclusion.

`ServerProofs`, for every set of calls and every set of arguments (`ConfigAssumption`,
`ServerAssumption`: types, and that no call is called `None`):

* `ServerTypeCorrect`: the type invariant.
* `ConfigUsable`: `SettersInv` says which members are set, and acceptable, before each
  setter; `AcceptableMeans` takes apart what "nothing can be objected to" is.
* `FuturesTellOfServer`, `CrashAfterFailure`, `MainThreadNeedsNoLock`: three consequences of
  `CarefulInv`. For a user who waits, one call at most has not returned or fulfilled its future (`OneBusy`);
  `CallInv` ties how far a call, its future and its thread are to one another; `ThreadInv` says that
  `mainThread_` holds the one thread that is neither joined nor just being made. There is one lemma for each action.

Only model-checked is liveness (`EventuallyAnswered`, `FinishedIsWritten`, `EventuallyComplete`,
`FuturesFulfilled`), which is out of this prover's reach. Every invariant that a passing run checks is a theorem too.

## 5. Findings

Four runs show the code doing other than a comment or a test says:

1. `requestComplete` (`HTTPHandler.cpp:92-95`). When the timeout wins, the 503 goes out,
   proxygen calls `requestComplete` and the object is deleted. The user's
   handler may still be queued: it will then call `handler_` and read `request_` of
   a deleted object. `DanglingOnly` proves that this, and only this, can
   happen after a response.
2. `onError` (`HTTPHandler.cpp:99-101`): the same when the client goes away, for the
   whole chain, up to `sendResponse`.
3. The loop over the file ends at `eof` only. A read error sets `badbit`
   and not `eofbit`; the loop turns for ever on an IO thread.
4. `mktime` takes a date in GMT for local time. West of Greenwich a file modified
   after the client's date is answered with 304.

Further behaviour that the models show, of handlers and factory:

* An allocator that rounds up makes each piece of a file end in bytes nobody wrote: the buffer is made as
  long as its tailroom (line 83 of `StreamingFileHandler.cpp`) and trimmed only by what is left of `readBufferSize_`.
  `BodyIsFile` counts them: as many as the allocator gave too much, and no more.
* An exception on the IO thread before the headers ends the response without a status: the last continuation calls
  `sendEOF` whether or not headers were sent. In a debug build the DCHECK of `StreamingHTTPHandler-inl.h:80` then
  aborts the process. The model follows a release build, where the end goes to proxygen; what proxygen makes of it is outside
  `src`. `SendsInOrder` and `WellFormedWire` name this case and say that there is no other.
* After an exception in the loop the response is ended too, so that a client cannot tell the part of a file from the whole.
* `is_regular_file` throws in a function that is `noexcept` for an error other than "not found" (`StatThrows`).
* A streaming subclass that keeps a thread of its own uses the deleted object after `onError`
  (`DanglingOnlyAfterError` says that there is no other case).
* `onRequest` returns null when a streaming route's user code fails or an argument cannot be
  converted (`NullIsExplained`), and terminates the process when that code throws something that is not a
  `std::exception`.

Of the server:

* A `stop` that overlaps a `start` may find `mainThread_` empty and be fulfilled while the server comes
  up; `src/README.md:57` speaks of a future "that completes once the server has
  shutdown". `FuturesTell` therefore speaks of users who wait.
* `Server.cpp:41` says that "a server can only be started once". The check is of
  `mainThread_`, which `stop` clears, so a server that was stopped can be started again.
* After a start that failed, `mainThread_` keeps its thread, which has ended: the next `start`, a `stop`
  and the destructor each abort the process. `CrashOnlyAfterFailure` says that a user who waits meets no other crash.
* A buffer of exactly 1 GB is accepted (`Config.cpp:36`), although the message of line 38 asks for less; and -1
  worker threads are accepted, as the largest `size_t`.

Of routes and requests:

* `src/README.md:94` and `Route.h:55` say that what follows an optional value is consumed whether there is a
  value or not. It stands inside the optional group (`Takes`), and is consumed only with a value.
* A parameter that the user has put into an optional group of the pattern's own has no text when the group does not
  match: an integer becomes the largest `int64_t`, a double throws into `Route::handler`'s caller. A streaming route then gives proxygen
  a null handler (`ArgumentThrows`).
* A content type with parameters (`; charset=...`) is no form for `parseRequest`.
* A query parameter whose key was sent as it is asked for is preferred to one that unescapes to it, and what could be
  unescaped of a broken value is returned.
* `to_string` throws for a body of more than 2^31 - 1 bytes, unless all but its last chunk are shorter.

## 6. Not modelled

| what | why |
|---|---|
| How the route parser's own regular expression divides a pattern | A pattern comes to the model as its pieces. The expression works on characters with lazy groups, so that a value which contains a colon, `(?:` or a closing brace is divided otherwise than it looks; no property of the model is about patterns of that sort |
| `parseFormData` | a TODO of the code that reads nothing |
| A file that changes while it is read, and links below the base directory | the file is constant from the first look on, except that it may have gone; a path is resolved as text, which is what the code does |
| `onServerStart`, `onServerStop` of the factory | the first stores an event base that nothing reads, the second logs |
| Contents of responses (headers, wording), HTTPResponse | abstracted to the function that made the response |
| A composition of server, factory and handlers | They share no state that changes: the router is constant once built and the handlers of different requests meet only in the executor and the event base, which `HTTPHandler` has. What `stop` does to requests that are under way is proxygen's |
| Util, EnumHash | templates and a hash, resolved by the compiler |
| Example, tests, build files, generated documentation | not part of the running server; tests and documentation were read for what the code is meant to do |
