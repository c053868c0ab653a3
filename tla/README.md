# A TLA+ model of Boost.Http's message readers

Boost.Http is a header-only library. Its core is two *incremental tokenizers*
for HTTP/1.x, `boost::http::reader::request` and `boost::http::reader::response`
(`src/include/boost/http/reader/`). A reader owns no memory and does no I/O: the
caller gives it a buffer, takes tokens one by one, and when the reader has too
little data presents the unread bytes again, followed by new ones. The hard part
is that a message may be cut into buffers anywhere, that messages follow each
other on a connection, and that the framing of the body is decided by header
fields in any order.

## Inventory

| Part | State | Operations | What makes it correct |
|---|---|---|---|
| request reader (`reader/request.hpp`, `.ipp`) | `state`, `code_`, `idx`, `token_size_`, `ibuffer`, `version`, `body_type`, `body_size` | constructor, `reset`, `next`, `set_buffer`, `expected_token`, `value<T>`, `parsed_count` | stays in the buffer; tokens do not depend on the cuts; the body is framed by the fields of this message; errors are final and justified; never stalls |
| response reader (`reader/response.hpp`, `.ipp`) | the same with `connection_flags` in place of `version` | the same, `set_method`, `puteof` | the same; a body is framed by status, method and fields; a broken connection never looks like a complete body; a connection is used again exactly when it may be |
| token codes (`token.hpp`, `.ipp`) | none | `symbol::convert`, `category::convert` | used by the loops below |
| syntax (`syntax/*`, `reader/detail/abnf.hpp`, `common.hpp`) | none | byte classes, `match`, `decode` | numbers decode to what they denote, or overflow is reported |
| transfer codings (`reader/detail/transfer_encoding.hpp`, `algorithm/header/header_value_any_of.hpp`) | the predicate's `count` and `res` | list walk with a stateful predicate | *chunked* last and once |
| request object of a server (`doc/tufao.cpp`) | the buffer, the request, the options of the answer, the signals to emit | `onReadyRead`, `onTimeout` | the application sees each request whole and unmixed; keep-alive follows the request; an upgrade gets the bytes behind it |
| WebSocket client (`doc/tufao2.cpp`) | the chunk, the names of the fields, `ready`, `errored` | `execute` | agrees exactly to the heads that agree, loses no byte behind them |
| tutorial server (`doc/parsing_tutorial1h.cpp`, errors of `1e.cpp`) | the buffer, `nparsed`, the public variables | `on_socket_callback`, `ready` | `ready()` is called when a message has ended and finds the variables of that message |

A reader is called from one thread. What makes it hard is the interleaving of
the caller's choices with the position in the message: where a buffer ends,
whether a call is repeated without new bytes, whether the buffer is cut down to
the current token before the next message, when `reset` is called; for a response
also when `set_method` and `puteof` are called. The unit tests use a few fixed cuts.
The programs around a reader add their own memory (a buffer, the last field name,
signals collected until the loop ends), which has to be in step with the reader's.
The list `hazards` in `PROJECT.json` names the lines where this bites, with the
properties that would notice.

## Modules

| Module | Models | Notes |
|---|---|---|
| `Syntax` | byte classes, `liberal_crlf`, `strict_crlf`, `status_code`, `decode_field_value` | a `match` function is the predicate `Run`: the scan stops at the first byte outside the class or at the end of the buffer |
| `Decode` | `content_length::decode`, `chunk_size::decode` | the in-out parameter and the maximum of the target type are arguments; the loop over the digits is a recursive function |
| `TransferEncoding` | `header_value_any_of`, `decode_transfer_encoding` | |
| `Token` | `token::code`, `symbol`, `category` | |
| `Reader` | the variables of a reader, and the forms that cases of `next()` take again and again | a scanned token, one byte, a line end, a colon with its OWS, a piece of the body |
| `MessageReader` | the cases of `next()` that both readers write alike | field values, a body of known length, chunks, trailers |
| `RequestReader`, `ResponseReader` | `reader::request`, `reader::response` | an action per case of the switch, and the member functions |
| `RequestCaller`, `ResponseCaller` | any caller that keeps the contract | the properties of the reader |
| `MessageTokens` | the abstract specification | a message as tokens, without bytes and buffers |
| `RequestTokens`, `ResponseTokens` | the refinement mappings | |
| `RequestConsumer`, `ResponseConsumer`, `MessageFields` | what a consumer learns from the tokens | history variable; framing against RFC 7230, section 3.3.3 |
| `RequestDriver`, `ResponseDriver`, `TokenLog` | the loop of `doc/tufao.cpp`, and a client like that of `test/response.cpp` | one stream read twice: at once, and after `reset()` in pieces |
| `ServerRequest` | `HttpServerRequest::onReadyRead` of `doc/tufao.cpp` in full | composes the reader with the server's own state |
| `UpgradeClient` | `execute` of `doc/tufao2.cpp` | composes the response reader with the client's |
| `TutorialLoop` | the loop of the beginner's tutorial in its last form | |
| `Ascii` | the literals of the code, and text as bytes | for the corpora |
| `Numeral`, `Values` | the number that digits denote, the codings of a list; the views that the decoders are checked on | the references for the decoders |
| `DecodeProofs`, `ValuesProofs` | theorems about the decoders and the transfer codings | |
| `MessageProofs` | lemmas about the cases of `next()` | for both readers |
| `RequestProofs`, `ResponseProofs` | theorems: types, bounds, framing, tokens and bytes, the refinement, the consumer | |
| `PlaceProofs`, `RequestDriverProofs`, `ResponseDriverProofs` | theorems: the pieces of a stream do not matter, the end of a connection is reported | by a machine that reads without a buffer |
| `MC*` | instances for TLC | |

Operators whose comment starts with *Mutant* are variants of the definition below
them with a plausible mistake; no specification uses them. `PROJECT.json` pairs each
property with the mutant that breaks it.

### How the model corresponds to the code

* A buffer is a sequence of bytes, an offset counts the bytes before it, so the
  byte `data[i]` is `buf[i + 1]`. `ibuffer` holds the bytes themselves.
* `next()` on a buffer is `NextOn(buf, pos)`: the early return of `ERRORED`, the
  tokens without bytes, the prologue that consumes the current token (`Consumed`),
  the test for an exhausted buffer, then the switch (`ReadToken`). `set_buffer` runs
  the same on the new buffer when data was insufficient.
* Where a case assigns `state` and calls `next()` again (`EXPECT_FIELD_NAME`,
  `EXPECT_OWS_AFTER_COLON`, `EXPECT_CHUNK_EXT`, `EXPECT_TRAILER_NAME`,
  `EXPECT_OWS_AFTER_TRAILER_COLON`), the inner call is part of the same action, and
  the state left behind when it finds too little data is modelled.
* The constructors leave `body_size`, and that of the request reader `version` too,
  uninitialized: `ReaderInit` takes any value of them. `reset()` does not touch them
  either. The modules with a corpus start from one such value.
* `body_size` ranges over `0..UintMax`; the decoders check against `UintMax` as
  the code checks against `numeric_limits`, and no step wraps.
* `decode_field_value` of an empty view reads in front of the view; its result is
  the empty view whatever it finds there, because `remove_suffix` clamps.
* `syntax::field_name` uses the C library's `isalnum`, `reader::detail` its own:
  the model has the ASCII letters for both (the "C" locale).
* The literals ("Host", "Transfer-Encoding", "Content-Length", "chunked",
  " HTTP/1.") are constants. The runs over arbitrary bytes give them one or two
  bytes; the runs with a corpus use the real ones.

**The response reader.** `set_method` acts only at the token `status_code` and may be
repeated; until it has been called `body_type` is `UNKNOWN_BODY` and the byte behind
the status code is an error. `FORCE_NO_BODY` makes the fields irrelevant,
`FORCE_NO_BODY_AND_STOP` says moreover that no message may follow; a body that the
connection delimits turns into the latter at the end of its headers. `puteof` only sets
`EOF_RECEIVED`; the next call of `next()` that finds the buffer exhausted
(`Exhausted`) ends such a body, waits on in a body of known length that is not complete,
and otherwise fails. `HTTP_1_0` and `EOF_RECEIVED` outlive a message and end with
`reset()`. The cases that `response.ipp` repeats from `request.ipp` are those of
`MessageReader`; `ResponseField`, `ResponseBody`, `ResponseChunks` and
`ResponseTrailers` stand for the lines of `response.ipp`.

The caller's contract (`doc/ref/reader_request.adoc`, `reader_response.adoc`): the
buffer given to `set_buffer` starts at the current token (`parsed_count()`), holds at
least that token and shows the bytes as they arrived. It may be shorter than the last
one, as in `doc/tufao.cpp`, it may bring no new byte, and it may be set at any time.
`puteof` is called when the reader has all the bytes. Whether the caller shrinks the
buffer after `puteof` is the constant `ShrinkAfterEof`: the reference page allows it,
the reader then takes the end of the buffer for the end of the connection (see below),
so the passing run excludes it.

**The server object.** One action per case of the switch of `onReadyRead`, one for the
call of `next()`, one for what follows the loop, where the collected signals are emitted
at once. The container of the fields is external: it finds names without regard to case
and keeps those of one name together, so that the loop from `find("connection")` to
`end()` sees the Connection fields first and then possibly others, whose values it also
takes for options. `LookedAt` lets it see any such set. What the rest of the server does
is external too: `Resume` reconnects the slot for the next request once the last one was
told to be kept alive, `OnTimeout` closes the socket, `Cleared` is what `clearRequest()`
leaves. At an upgrade the code swaps the body with the unread bytes, so what was read of
the body of an upgrade request is lost to the application; `UpgradeHasTheRest` says so.

**The client and the tutorial.** `UpgradeClient` is `execute()` in the hands of an owner
that appends what the socket has; `TutorialLoop` is `on_socket_callback()` with its
recursive call. `throw` ends the program's use of the connection.

## Runs

| Run | Checks | Bounds |
|---|---|---|
| `values` | `NumbersDecode`, `DecodeNeverWraps`, `ChunkedIsLastAndOnce` | all strings of up to 4 of 9 characters (digits, letters of both cases, a non-digit) with maxima 9, 10, 15, 16, 99, 100, 255, 256, so that a weight and a sum overflow at, below and above a power of each base; all lists of up to 6 of 5 characters (chunked in two cases, another coding, comma, space) |
| `request` | `TypeOK`, `TokenInsideBuffer`, `FramingConsistent`, `TokenIsMaximalRun`, `ValueIsLeftTrimmed`, `BodyNeverStarves`, `FramingFollowsFields`, `BodyIsComplete`, `RefusalIsJustified`, `RetryIsNoop`, `ExpectedTokenComes`, and the refinement `TokensFollowGrammar` | 6 bytes, 3 bytes of memory, `UintMax` 2; streams have no bound |
| `response` | the same except the refinement, and `ConnectionIsReused` | 7 bytes, 3 bytes of memory, `UintMax` 2, methods HEAD, CONNECT and another |
| `request_stream` | `PiecesDoNotMatter`, `StreamIsDrained` | 272 streams, pieces of 1 to 6 bytes |
| `response_stream` | `PiecesDoNotMatter`, `CloseIsReported`, `StreamIsDrained`, and the refinement `TokensFollowGrammar` | 246 streams, three methods, pieces of 1 to 6 bytes |
| `server_request` | `SignalsTellTheRequest`, `ConnectionIsKept`, `UpgradeHasTheRest`, `RequestsAreTold` | 48 streams of two requests, reads of 1, 5 or 60 bytes or the rest |
| `upgrade_client` | `UpgradeKeepsTheRest`, `UpgradeHappens` | 80 streams, pieces of 1 to 12 bytes |
| `tutorial_loop` | `ReadyGetsThisMessage` | 30 conversations of up to three messages, callbacks that end with any line |
| `two_hosts`, `shrink_after_eof`, `tutorial_unreported`, `tutorial_unread` | statements of the repository that the code does not keep | |

**Why the bounds are enough.** A reader looks at no more than the current token
and one byte behind it (two for a line end, three for a status code). With literals of
one or two bytes, 3 bytes hold every token the readers tell
apart: a token of two bytes and its end, CR LF with a byte in front, a body piece
smaller than, equal to and larger than the rest of the body (`UintMax` 2: lengths 0, 1
by counting down, 2, and overflow by "20"). The streams themselves are not bounded,
the caller drops what was read, so all sequences of messages, resets, methods, ends of
connections and errors over the alphabet are covered. The alphabets have CR, LF, SP, a
colon, the digits 0 and 2, and for responses 4; digits also stand for field names and for
*chunked*, the names of two bytes (but 00, Transfer-Encoding in `request`) are the other
fields, and a colon is a request target, a chunk extension and part of a value or of a
reason phrase. `TokensFollowGrammar` is checked on all these streams for the request
reader, for the response reader on the corpus of `response_stream` in any pieces. The statuses of `response`
are made of 0, 2 and 4: 200 and 204 with and without a body, 4xx, and ones that are
refused; 1xx and 304 are in `response_stream`. Lists of codings need longer values:
they are in `values`, and with the real literals in the two corpora, which are products
of header sections, continuations and line ends and lead to every framing and every
refusal. In `server_request` a read of one byte makes every cut possible, one of 60 a
read that brings several tokens, or a whole request and the beginning of the next. In
`tutorial_loop` a callback ends with a line, because the loop loses bytes otherwise
(`tutorial_unread`).

**Fairness.** Four properties need it. `StreamIsDrained`, twice, and `UpgradeHappens`:
weak fairness of the loop, that is, the program goes on reading its socket and calling
`next()` until the reader fails or the stream ends; the code is such a loop, driven by
`readyRead`, and the peer is assumed to send its whole stream. `RequestsAreTold`: the
same of the server, which also answers a request and resumes reading; the timer is not
forced to fire and never forced to wait, so the property allows that it closes the
connection. Nothing is assumed of the sizes of the pieces. The other runs have no fairness.

**Deadlock.** The readers can always be called, so deadlock is checked in all runs of
them; a loop that has nothing left to do has an explicit stuttering step, whose guard
says when that may be. `values` enumerates inputs up to a length and stops.

## What the runs found

Four statements of the repository do not hold; each has a run that shows it.

* `reader/request.ipp:367-371` quotes the rule that a request with more than one Host field
  is refused, whatever its version; the case of HTTP/1.0 leaves the switch
  (`request.ipp:373`), and such a request with two Host fields is accepted (`two_hosts`).
* `doc/ref/reader_response.adoc:212` allows to shrink the buffer at any time; after
  `puteof()` the reader takes the end of the shorter buffer for the end of the
  connection (`response.ipp:262`), and reports a message as cut short whose bytes are
  at hand.
* `doc/parsing_tutorial1.adoc:98` says that the size of an insufficient token is zero
  and may be added to the parsed bytes, as does `doc/ref/token_code_value.adoc:48`; it
  is the size of the scanned part in some states (`request.ipp:243`, intended by
  `request.hpp:145`), and the tutorial's loop erases bytes that it has to present again.
* `doc/parsing_tutorial1.adoc:21` says that the program learns of messages through
  `ready()`; for a message that ends with the buffer the callback returns without it
  (`parsing_tutorial1h.cpp:51`). The message is never reported: the next callback starts
  with the method of the next message, which clears the variables (lines 17-22), and
  `ready()` is called only in a callback in which a message ends (`ReadyGetsThisMessage`).

Because of `two_hosts`, `FramingFollowsFields` asks for one Host field only of the requests
that are not HTTP/1.0.

Reading the code for the model also showed that `reader/detail/common.hpp:32` says that a
field value has a character that is no white space; values may be empty (`request.ipp:190`
says so), and the loop of `decode_field_value` then reads in front of the view. The result
is still the empty value, which is all that the model shows of it.

Everything else holds as stated.

## Proofs

The theorems hold for every alphabet of bytes, every capacity of the caller's memory,
every `UintMax` above 0, all methods and all literals (assumptions `UintMaxAssumption`,
`LiteralsAssumption`, `CallerAssumption`, `DriverAssumption`, `ValuesAssumption`), so for
streams of every length cut anywhere. "Both" means that there is a theorem for each reader.

| Theorem | Of | States |
|---|---|---|
| `TypeCorrect` | both | `Spec => []TypeOK` |
| `TokenStaysInside` | both | `Spec => []TokenInsideBuffer` |
| `FramingIsConsistent` | both | `Spec => []FramingConsistent` |
| `TokensAreMaximalRuns` | both | `Spec => []TokenIsMaximalRun` |
| `ValuesAreLeftTrimmed` | both | `Spec => []ValueIsLeftTrimmed` |
| `BodyIsNeverStarved` | both | `Spec => []BodyNeverStarves` |
| `RetriesAreNoops` | both | `Spec => RetryIsNoop`, an action property |
| `ExpectedTokensCome` | both | `Spec => ExpectedTokenComes`, an action property |
| `TokensImplementGrammar` | both | `Spec => TokensFollowGrammar`, the refinement of `MessageTokens` |
| `FramingFollows` | both | `ConsumerSpec => []FramingFollowsFields` |
| `BodiesAreComplete` | both | `ConsumerSpec => []BodyIsComplete`; for responses if `~ShrinkAfterEof` |
| `RefusalsAreJustified` | both | `ConsumerSpec => []RefusalIsJustified` |
| `ConnectionsAreReused` | response | `ConsumerSpec => []ConnectionIsReused` |
| `PiecesGiveTheSame` | both | `DriverSpec => []PiecesDoNotMatter` |
| `ClosesAreReported` | response | `DriverSpec => []CloseIsReported` |
| `DecodersNeverWrap`, `DecodersAreExact` | decoders | `Spec => []DecodeNeverWraps`, `Spec => []NumbersDecode` |
| `CodingsAreJudged` | transfer codings | `Spec => []ChunkedIsLastAndOnce` |

These are all the properties of the runs `values`, `request` and `response`, and all but
the liveness of `request_stream` and `response_stream`, which TLC checks on a corpus only.
`ShrinkAfterEof` is an assumption of one theorem because without it the statement is false
(`shrink_after_eof` shows why).

**Types, bounds and framing** (`MessageProofs`, `RequestProofs`, `ResponseProofs`). The inductive invariant `IInv` of the request reader is the
conjunction of the first three properties. None of them is inductive alone:
`TokenInsideBuffer` needs the types; that `body_size` counts down within its type needs
that a body state is entered with its length; and the switch on `body_type` at the end
of the headers is total only where `FramingConsistent` holds. That of the response reader
has one more conjunct, `StatusCodeIsLast`: the current token is `status_code` only while
the reader is in front of the byte behind it. It is needed because `set_method()` writes
`body_type` and `body_size` from outside, in whatever state the reader is, guarded by the
current token alone; without it the step could undo the framing of a message that is
being read. `MessageProofs` has one lemma per form of a case, for every buffer, and
shows of the shared cases which states and framings they reach, once for
both readers. In the module of each reader a lemma per section of the message shows that
each case leads to a state that suits the framing it leaves; `NextOnPost` puts them
together with the rest of `next()`, and `NextIInv` adds the caller. That a decode leaves
`body_size` in its type is a fact about the decoders, not a guard of the model.

**Tokens and bytes** (`RequestProofs`, `ResponseProofs`). `TokenIsMaximalRun`
speaks of the buffer and is not inductive: the caller may shrink the buffer to the current
token and give the rest back later. `StreamInv` therefore speaks of all bytes that the
caller has. A complete token was delimited by a byte that is still in the stream
(`TokenIs`); a value is expected only when its first byte was seen not to be white space
(`InkAt`), although the buffer that showed it may be gone; and an incomplete token is,
state by state, the beginning of what that state expects, with nothing to tell its end
(`Waits`). `Waits` is also why a retry changes nothing and why `expected_token()` can be
relied on once a byte of the token has been seen. TLC checked `StreamInv` first on small
instances (266,000 and 413,000 states).

**The refinement.** Each case of `next()` is shown to be one of a few kinds of steps
(`NextOnStep`: wait, error, skip, field, data, chunk line, end of headers, end), whatever
the bytes, and each kind to be a step of `MessageTokens` under the mapping, whose phases are
read off a table (`Phases`). A call of `reset()` or of the other member functions maps to
the grammar's restart or to a stutter.

**The consumer.** `FramingFollowsFields` and the like relate the reader to what a consumer
learned from tokens long past; the reader keeps one `body_type` for all of that. `CInv` adds
`Heard`: in each part of a message the reader and the consumer agree on the version and the
Host fields, on the framing fields seen so far, on a field whose value is still to come, and
on the bytes left of the body where the reader still counts them. The consumer adds each
chunk size to the bytes that are left, so that a chunk cut short would be missed at the end
of the body; that none are left at a chunk size is part of `Heard`. `RefusalIsJustified`
looks at the refused token itself: the lemmas `LengthRefused` and `CodingsMerged` say that a
value is refused only if it is none by definition, and `TokenSurvives` that the token is
still there when the caller has put another buffer. For responses they also
agree on what method and status imply, on whether another message may follow, and two small
facts are needed: a status code has its three digits (`StatusIsWhole`), and when the
connection has ended the buffer holds all that is left (`NothingHeld`). TLC checked `CInv`
first (1.98 million states for requests, 1.33 million for responses).

**The pieces of a stream** (`PlaceProofs`, `RequestDriverProofs`, `ResponseDriverProofs`). `PiecesDoNotMatter`
compares two readings of one stream that are not in step, so it needs something that both
follow: a machine without a buffer that sees the whole stream (`Step`). A *place* of the
machine is what decides the rest of the reading: state, framing, what is remembered of the
version, the offset, and the log of the tokens so far. A reader is at a place at any time
(`Place`): one that has scanned a part of a token is in front of it, one that was cut in
white space or behind a colon, where the code has a state of its own, is where it would be
without the cut. Every call of `next()` on every buffer leads to the same or to the machine's
next place (`NextOnLeads`), with one lemma per form of a case in `PlaceProofs`; a reader that
waits with all bytes at hand is where the machine stops (`WaitingStops`). The machine is a
function on the places, and *the way* of a place is the least set that contains it and is
closed under the function (`Way`), which takes the place of an induction over the number of
steps. The invariant `DInv` says that the reader shows the stream at the offset it stands
for, and is on the way from the start; and, in the second pass, that its own way leads to
the place where the first pass ended (`OnCourse`). That the log of a place is the beginning
of every log on its way gives the property. `reset()` in between leads back to the start,
whatever `version` and `body_size` it leaves: they are not part of the place there.

The machine for responses is given the method of the requests and reads a stream that
ends: the client's answer to `status_code` is a step of it (`AnswerIsTold`: the digits of
the token are those of the stream), and at the last byte it does what the reader does once
`puteof()` was called, while `puteof()` itself leads nowhere. `ClientOK` holds what the two
sides know of the end: it is told only when the buffer holds the last byte, a status code
is answered before the reader goes on, and a reader that is asked again with nothing left
waits only for a body whose length it knows. The last fact, with the one that a log which
ends with a message is that of a reader in front of a status line, gives `CloseIsReported`.
TLC checked both conjunctions, and that every step follows the machine, on the corpus of
`response_stream` first.

**The decoders** (`DecodeProofs`, `ValuesProofs`). The loops are recursive
functions. What they compute is proved by induction in the form of a set (`InductTo`), and
that the recursion has a solution is proved too (`RecursionTo`), both from the theorem that
`<` on the naturals is well-founded; the induction theorems of the library, which take a
predicate, are not used. The digit loop keeps: what has been read is the number that the
last digits denote, with the weight of the next one, and once the sum or the weight does
not fit the numeral does not fit. The list walk is compared, from the last comma
backwards, with the codings that the list has by definition (`Delimits`: the same number,
in the same order, none left out), and the predicate's `count` and `res` with where
*chunked* is among those offered so far (`Remembers`).

Only model-checked: liveness (`StreamIsDrained`, `RequestsAreTold`, `UpgradeHappens`);
and the properties of the three programs (`SignalsTellTheRequest`, `ConnectionIsKept`, `UpgradeHasTheRest`,
`UpgradeKeepsTheRest`, `ReadyGetsThisMessage`), which compare what a program did with what a
stream of the corpus is known to say, and are not true of an arbitrary corpus.

## Not modelled

`value<token::chunk_ext>()`, the `assert`s of `value<T>()`, wide characters (the
templates are used with `char` and `unsigned char` only), integer types other than the
one of `body_size`, `category::convert` of a symbol (the same table again), the
unreachable-code macro (that no use of it is reached is part of `FramingConsistent`), the
stages of the tutorial's function before its last (`parsing_tutorial1.cpp` to `1g.cpp`,
which the text replaces one by one), the Beast tutorial, which shows fragments of a
wrapper only, the build files and the tests.

## Plan

1. Done: the operators, the two readers with any caller, the token grammar and the
   refinements, the consumers, the loops, the programs of the documentation; proofs of all
   the properties of the readers, of the consumers and of the decoders, of both
   refinements, and of the independence of the pieces for both readers.
2. Left to TLC: liveness, and the programs of the documentation on their corpora.
