# A TLA+ model of oBMP

oBMP is a set of Python programs that receive BMP (the BGP Monitoring
Protocol), over TCP or wrapped in openBMP messages from Kafka, parse it down to
BGP updates, and keep one routing table per monitored BGP peer, from which
updates can be sent on.  This directory models the parts of it that carry
state, checks them with TLC, and proves with TLAPS what matters most.
All paths below are under `src/`.

## The system

| part | state | operations | who calls it |
|---|---|---|---|
| `BGPribdb.py` | RIB, path attributes, two update queues, refresh table, use counts, a lock | `update`, `withdraw`, `refresh`, `get_update_request`, `__str__` | `bmpapp.py`; `spider.py` and the unit tests call the constructor without its arguments and stop there, so that no program of the repository consumes yet |
| `bmpapp.py` `BmpContext` | dict of peers, each with its RIB | `parse(msg)` | `collector.py`, `topic.py`, `filewalker.py` |
| `bmpparse.py` | none | `get_next` (framing), `BMP_message(...)` | the same |
| `bgpparse.py`, `bgppeel.py` | none | BGP UPDATE, path attributes, prefixes, AS paths | `bmpapp.py`, `spider.py`, `router.py` |
| `collector.py` | connection state per thread, receive buffer per session | `Listener.run`, `Talker.run`, `Collector.recv`/`send`, `Session` applications | started from `collector.yml`, one thread per target |
| `forwarder.py` (also in `forward.py`, `router.py`) | state, socket, Event shared by two threads | `run`, `send` | a main loop |
| `bmpblkparse.py` `BMP_unblocker` | unfinished tail | `push` | `unittest-bmpblkparse.py` |
| `topic.py`, `oBMPparse.py` | three dump files, a `BmpContext` | `process`, `oBMP_parse` | `forward.py`, `debag.py` |
| `debag.py` | file buffer | the chunk loop | command line |
| `spider.py`, `filewalker.py` | file buffer | `get`, `parse` | command line |
| `parse.py`, `probe.py`, `router.py`, `bgprib.py`, `ribdb.py` | | Kafka consumers and unfinished drafts | command line |

Calls go one way: bytes from a socket or a file are cut into BMP messages
(`get_next`), a message is parsed and handed to `BmpContext.parse`, which finds
or creates the peer and calls its table's `update` and `withdraw`.  Threads
share state in two places: a `BGPribdb` between producer and consumer, and a
`Forwarder` between its manager thread and the thread that sends.

What is hard, and what makes each part correct:

* **BGPribdb.** Two queues in two dicts describe one set of pending updates,
  together with a refresh table that replaces both; popped groups are groomed
  against the RIB; the consuming call takes no lock.  Correct means: an
  announced prefix is always on its way to the consumer or known to it, never
  an old path after a new one, withdraws are reported, the lock is released.
* **Forwarder.** A flag, a socket and an Event shared without a lock.  Correct:
  a failed send brings about a reconnect, and no second connection is opened
  beside one that works, unless a send on it has timed out.
* **Collector.** Loops that must reconnect or accept again after any session
  ended, by end of stream or by an exception in a parser.
* **Framing.** Messages arrive in arbitrary pieces.  Correct: each message is
  handed on once, whole and in order, and only an unfinished one stays back.
* **BmpContext.** Messages about several peers interleave; a peer is created
  by whichever message comes first.  Correct: a peer's table follows the last
  word of that peer's own messages.
* **Parsers.** Lengths in the data steer the offsets.  Correct: what arrives
  whole is read as it was sent, nothing is read that was not sent, and every
  loop ends.
* **Files.** A program may fail on a message or be killed at any time, and its
  files are what the next program starts from.  Correct: the three files of a
  topic tell the same story, and replaying one rebuilds the state.

## Modules

| module | models |
|---|---|
| `RibFeed` | what a table promises the reader of its update feed (abstract specification) |
| `PyDict` | Python dicts as functions |
| `BGPribdb` | `BGPribdb.py`, each call one action; its properties |
| `BGPribdb_proofs` | theorems about it |
| `BGPribdbThreads`, `BGPribdbThreads_proofs` | the same table taken apart into single dict operations, producer and consumer interleaved; theorems |
| `Forwarder`, `Forwarder_proofs` | the Forwarder thread of `forwarder.py`, and theorems |
| `BmpBytes` | a stream of BMP messages as intervals of positions |
| `BmpStream` | what a reader of such a stream promises (abstract specification) |
| `Framing`, `Framing_proofs` | `Session.bmpd` around `get_next`; theorems |
| `Spider` | `Spider.get` and `Spider.parse` reading a file |
| `Unblocker` | `BMP_unblocker.push` of `bmpblkparse.py` and the loop of its unit test |
| `Replay`, `Replay_proofs` | composition: a session, then `Spider`, `filewalker.py` (a second instance of `Framing`) or `Unblocker` on the file it left; theorems |
| `Collector`, `Collector_proofs` | `Talker` and `Listener` threads of `collector.py`; theorems |
| `BgpWire` | how a router encodes an UPDATE, the reference for the parser, and reading of bytes |
| `BgpUpdate`, `BgpUpdate_proofs` | `BGP_message` of `bgpparse.py` on an UPDATE, octet by octet; theorems |
| `BmpMessage` | which BMP messages the constructor of `bmpparse.py` parses and which raise |
| `BmpContext` | `BmpContext` of `bmpapp.py`: peers, their tables, the dump |
| `Topic` | `Topic.process` of `topic.py` around a `BmpContext` |
| `Chunks` | the chunk loop of `debag.py` |
| `Pipeline`, `Pipeline_proofs` | composition: `forward.py` with a `Topic`, then `debag.py` with a `Topic` of its own on the file left; theorems |
| `MC...` | constants for TLC |

Definitions called mutants in the modules are what a definition would be with a
plausible mistake in it; they are not used by the specifications, and serve to
confirm that each property notices such a mistake.

### BGPribdb

The variables are the attributes of the object under their own names.  A dict
is a function on the keys present; a list of prefixes is a set, since nothing
depends on its order and `groom_updates` drops a second occurrence.  Path
attributes and their hashes are opaque, related by `PathHash`, which need not
be injective.  `popitem` may return any item.  `reply` is what
`get_update_request` last returned, and `told` records, as a history variable,
which hash the consumer was last given for each prefix since it last called
`refresh`.

`Update` and `Withdraw` are one action per call.  Line 122 of the code tests
whether the *hash* is a key of `rib`, which it never is, so its else branch is
dead and is not in the model.  `WithdrawKeyError` is a withdraw that raises in
the middle: it leaves `db_lock` TRUE, after which no producer call or refresh
is enabled.  `get_update_request` is split by what it finds: a refresh item,
the end of the refresh, a group that is groomed and returned, a popped key
without path attributes (the KeyError that is caught), and nothing at all.
`MaxCount` bounds how often a prefix is received.

### BGPribdbThreads

The lock is held for the whole of `update` and `withdraw`, so only one producer
is in them; `get_update_request` takes no lock.  `writer` and `reader` say
where each thread is.  A step is one operation on a shared dict, which the
interpreter lock makes atomic; the comparison of line 191 is two steps, as it
looks at two dicts.  The subscript and the append of line 124 are one step.
Prefix lists have one element.  `MaxCalls` bounds the producer's calls.

### Forwarder

`manager` and `sender` are the places in `run` and `send`.  A broken connection
may still accept data for a while, so `SendOk` is possible on it.  And a send may
fail on a connection that works: line 42 connects with a timeout of one second,
which stays on the socket, so that `sendall` raises when the other side is slow
to take the data.  `timedOut` remembers that this happened to the connection
there is; `SecondOnlyAfterTimeout` says that it is the only way for the manager
to connect again while a connection is open.  That
`send` may set the Event before line 60 clears it is the second disjunct of
`ClearBeforeWait`; `erased` remembers that this happened.  In that case the
manager waits for ever with `state` Disconnected, and every later `send` returns
at once.  `AsleepMeansConnected` and `ReconnectsUnlessErased` say that this is
the only way for a failed connection not to be renewed.  `MaxConnections` bounds
the connections made.

### Framing, Spider and Replay

A byte is its position in the stream, so a buffer is an interval: `buf` of
`bmpd` holds the positions `start .. received - 1`.  `End` gives the message
boundaries, and `LengthAt` what a length field reads at a position; the
assumption fixes it only where a message begins, so that code that lost its
place would read arbitrary lengths.  `Refused` says for which messages
`BMP_message()` raises; which ones do is the subject of `BmpMessage`.
`GetMessage` is one round of the inner loop, in which `BmpContext.parse` may raise;
`GetBadMessage` is one in which `BMP_message()` does, before the message is
handed on.  Either ends the session.

`Spider` reads a file of `fileLength` bytes a block at a time.  `Size` is what
the `get` under way was asked for, `short` whether its last read came back with
less than a block.  `filewalker.py` has the loop of `bmpd` over a file, so that
`Replay` instantiates `Framing` a second time for it, with reads that return a
whole block until the file ends.  `parse` catches nothing: a message in the file
for which `BMP_message()` raises ends the program in `GetBadPayload`, with all
that was found before it lost.  `FindsEveryMessage` says that this is the only
case in which a whole message is not found, and `DumpReplays` that it is not met
in a dump, as such a message never gets there.

`Unblocker` pushes blocks of `count` bytes, as the loop of
`unittest-bmpblkparse.py` would: that program itself stops on the line before the loop,
where it constructs a table without arguments. After a block that ends with
fewer than five bytes of a message, or with a message that an earlier block had
begun, `msg` is no longer an interval of the stream, so it is a sequence of
positions, and a `Piece` of it that has a seam inside is `Spliced`. `broken`
remembers that a push ended there; `UnblocksUntilSeam` says that until then
`push` returns every whole message, which shows that these two places are the
only ones that go wrong.  After them a length may be read as anything: with a 0,
`offset` stays where it is (line 48) and `push` never returns (`LoopForever`).

`Replay` runs a session and then one of the readers on one of the two files
that the code can leave: the dump that `BmpContext.parse` appends to before it
looks at a message, or the raw file of the application `sink`.

Length fields of messages are assumed to be right.  With a length of 0 `get_next`
returns an empty message, which its callers take for "nothing yet", and the
buffer never advances again.

### BgpWire and BgpUpdate

`BgpUpdate` reads octets.  An initial state holds an UPDATE of `Updates`,
encoded by `BgpWire`, with a length in its header that is right, too short or
too long; an UPDATE may also count its attributes' octets wrong.  The
phases are those of the code, which reads announced prefixes before
attributes; one prefix or one attribute is one action, and an action of its own
ends each loop in each way the code can: an assertion, a `struct.error` past the
end, or the `exit()` that follows an attribute whose parser asserts.  The AS path
is read as ASes of four octets and then of two, and with the offsets of lines
323-324, which are not those its comment describes (run `as_path`).

`SegmentAt` is what `get_segment` returns at an offset, `SegmentOK` that none of
its assertions fails, `NextSegment` where the rest of the message that it
returns begins; `GetSegments` is the loop around it.

`UpdatesAssumption` says of the `Updates` that they can be encoded
(`Encodable`): octets are octets, what is behind the length of a prefix is
zero, the lengths fit into their fields, and no attribute is there twice, which
RFC 4271 demands.  The value of an AS_PATH is an encoded path, the field `path`
of the record; that of an AS4_PATH is `path4`.  Nothing else is assumed: a
prefix has any length up to 32, an attribute may be any octets, with a code
that is unknown or a value of a wrong length.

`WellFormedIsAccepted` says of an UPDATE that arrives whole that its prefixes
come out as they went in.  `Usual` states what it needs, and so what the parser
does not cover: attributes that it has no parser for, among them 9 and 10 of a
route reflector, end the program, and announcements with an empty AS path, as
within an AS, are flagged.  The lengths of values are those of their
definitions (`StandardLength`) and paths have segments of 1 to 255 ASes of one
size (`IsPath`).  `MovesOn` is what makes the loops end whatever lengths the
message has in it.

### BmpMessage, BmpContext

A message is a record with what the constructor's outcome depends on.
`Parses` is false where it raises: an information field that is cut, a
statistics report or an Initiation without fields, a counter of neither four nor
eight octets, an OPEN that cannot be peeled, and always for Termination and Route
Mirroring.  A record of type -1 is the rest of a payload in which `get_next`
finds no message.

A peer is the hash of its header, so the flags are part of it: the run has one
router's peer with two settings of them, which the code takes for two peers.
Each record has the `rib` of its table and the Peer Up data, which only the
first message about a peer can set.  Updates are applied before withdraws.
`Parse` dumps first, so that the message that raises (`ParseFails`) is in the
dump.

### Topic, Chunks and Pipeline

`Topic.process` appends the openBMP message to one file, takes its payload out
and appends that to another, and hands the payload's BMP messages one by one to
the context; whatever is raised ends the program.  `forward.py` passes messages
until something is raised or it is killed.  A program that ends by itself has
its files completed; of one that is killed the file may be cut anywhere.
`debag.py` then reads the chunks of the `.obmp` file into a `Topic` of its own,
for which `Pipeline` instantiates `Topic` a second time.

In `Chunks` a file is the sequence of its chunks, and `read`, `start` are
positions, as in `Framing`.  Line 45 waits until the buffer has as many bytes as
the chunk, not counting its header, so that a chunk can be cut at the end of a
buffer; its checksum then fails and `debag.py` stops (`CutChunk`).
`ReadsWholeChunks` bounds where this happens, and `ReplayRebuildsTables` holds
for every replay that it does not happen to.

### Collector

Variables are functions on the threads that `main` starts.  `at` is the place
in `run`.  A session is seen from outside: it ends when `recv` returns nothing,
by an exception, an OSError of its own, or SystemExit.  In Python 3 the errors
named in lines 249 and 293 are all OSError, so the clauses for them are never
reached by what they name, and a name that does not resolve is retried.
`recv` with a timeout (152-157) cannot happen on a blocking socket, and the
catch-all of `recv` (169-173) stands for nothing a socket raises; neither is in
the model.  The Event of a Collector is set and never waited for.

Worth knowing when changing this code: `sock.close()` before
`sock.shutdown()` always raises, and it is this exception that takes a Talker
to its `sleep(1)`.  The calls in the other order, as in `Listener`, would make
it reconnect without a pause after an ordinary end of stream and leave the
socket open after a broken one (the mutant `ShutdownAndClose`).  A Listener
whose session raised logs that it awaits connections again and does not (run
`collector_reawait`).

## Runs

| run | what it shows | bounds |
|---|---|---|
| `rib` | `NoLostAnnouncement`, `QueuesAgree`, `PathsResolvable`, `HistoryExplainsRib`; `UpdatesAreCurrent`; `BGPribdb` implements `RibFeed`; `ConsumerConverges` | 2 prefixes, 2 paths, each prefix received up to 3 times |
| `rib_withdraws` | expected violation, line 202 | as `rib`, up to 2 times |
| `rib_lock` | expected violation, line 4 | same |
| `threads_safety` | `RequestsMatchRib`, `RefreshRepairs`, `ToldWasCurrent` under interleaving | 2 prefixes, 3 hashes of which one is 0, 4 calls |
| `threads_lost` | expected violation, line 4 | same |
| `forwarder` | `ManagerWaitsForSender`, `AsleepMeansConnected`, `SecondOnlyAfterTimeout`, `ReconnectsUnlessErased` | 7 connections |
| `replay` | types; `ImplementsBmpStream`, `NothingHeldBack`, `BufferIsBounded`, `EveryMessageIsHanded`; `FindsEveryMessage`, `UnblocksUntilSeam`, `DumpReplays`, `ReadersEnd` | 8 messages of 6 to 9 bytes, of which `BMP_message()` refuses one, lengths of 0, 3, 8 and 60 where no message begins, recv up to 12, blocks of 4, pushes of 4, 11 and 13 |
| `collector` | `SocketsReleased`, `OnlyExceptionsEndThreads`, `ConnectedAndGone`, `NoSpin`, `ComesBack` | a Talker and a Listener, `connections` up to 4, 3 bind attempts |
| `collector_reawait` | expected violation, `collector.py:259` | same |
| `parse` | `WellFormedIsAccepted`, `NothingInvented`, `MovesOn`, `ParsingEnds` | the UPDATEs of `MCBgpUpdate`, every length in the header up to one too many |
| `as_path` | expected violation, `bgpparse.py:277` | same |
| `pipeline` | types; `TablesFollowLastWord`, `PeerUpDataIsFirst`, `AllFilesAgree`, `DebagReadsWholeChunks`, `ReplayRebuildsTables`, `DebagEnds` | 22 openBMP messages (10 that parse, 12 that end the program), of which 3 are received; 3 peers, 2 prefixes; chunk headers of 2 bytes, buffers of 4 |

The bounds are enough for what the code compares: a prefix has a current, a
superseded and a withdrawn state, a group can hold a prefix that moved to
another group and one that did not, and three receptions allow a prefix to
leave a hash and come back to it while the first group is still queued.  Four
calls in the threaded model let two updates of one prefix, or of two, overlap
with a whole drain and a refresh.  Each connection of the Forwarder starts from
the same states, so that a few of them reach everything.  In `replay` one recv
can hold two messages, or a message need two; blocks are shorter than a header,
than some payloads, and some files end on a block boundary.  A length that is not
one can be nothing, less than a header, less than what is left, and more than
the stream has.  The threads of a
Collector share nothing, so one of each class is enough; 4 is two connections
of a Talker, which counts each twice, and four of a Listener.

In `parse` prefixes have every length at which the number of octets changes,
and one more or one less; paths have ASes of both sizes and segments of both
kinds; two attributes have an extended length, and the sets of attributes are
complete, in two orders, with a path in AS4_PATH, lack a mandatory one, or have
an unknown one.  The
lengths in the header cut each of these UPDATEs at every octet.  In `pipeline`
three messages are what it takes to announce, to withdraw or replace, and to
fail; chunks are shorter and longer than a buffer, and buffers end in every
place of a chunk and its header.

Prefixes are interchangeable in the threaded model, so its runs use symmetry;
the runs with liveness or refinement do not.

Fairness: `ConsumerConverges` assumes weak fairness of `get_update_request`
only, a consumer that keeps calling, which is always able to run because it
takes no lock; nothing is assumed of the producer, and the property speaks of
behaviours in which it pauses.  `ReconnectsUnlessErased` assumes weak fairness
of the two threads, and nothing of the remote side.  `EveryMessageIsHanded` and
`ReadersEnd` assume that a loop which can go on does, but not that anything
arrives or that a parser succeeds; `ReadersEnd` excepts a `push` that loops for
ever, which it allows only behind a block that ended in a bad place.  `ParsingEnds` and `DebagEnds` assume that a
parser and `debag.py`, which wait for nothing but a local file, run on; not
that Kafka delivers.  `ComesBack` assumes that `recv` returns in
the end when the connection is over, and that the thread runs on; not that a
connection can be made.

## Where the code and its comments disagree

* `BGPribdb.py:202`: "return withdraws first....".  They are dropped instead
  (`rib_withdraws`).
* `BGPribdb.py:4`: "a threadsafe BGP RIB".  A withdraw after the consumer has
  popped the withdraw queue leaves the lock held (`rib_lock`), and an update
  that a consumer's call interrupts can be lost (`threads_lost`).
* `BGPribdb.py:171`: "don't put withdraws into the refresh table".  Line 172
  tests the hash for truth, so that a path whose hash is 0 is left out too, and
  after the refresh the consumer is not told of its prefixes.  `BGPribdb`
  and `BGPribdbThreads` both model it; their properties except these paths.
* `BGPribdb.py:127`: a duplicate insert "does not call for an UPDATE to be sent".
  Line 122 looks for the hash among the prefixes, so the branch with the comment
  is never reached and the UPDATE is sent.  That does no harm to what the
  consumer is told.
* `collector.py:259`: "reawaiting connection on %s".  Line 257 has set the state
  that ends the loop, and the Listener's thread is gone (`collector_reawait`).
* `bgpparse.py:277`: "loop count based on the number of ASes in the segment AS
  count header", and 279 "each segment is a tuple (segment type, AS list)".  Line
  323 steps through the count by the size of an AS, and line 324 reads from the
  first byte of the segment: of five ASes two are kept, the first of which is
  made of the segment's type and count (`as_path`).
* `bmpblkparse.py:3`: "unblock BMP from a message stream".  What is less than
  five bytes at the end of a block is dropped (line 34), and a tail that was used
  is put before the next block again (line 56).  `UnblocksUntilSeam` (run
  `replay`) shows that nothing else goes wrong.

Line 186 of `BGPribdb.py` says that None is returned if there are no items; the
call that pops the withdraws, which is the first one after construction or
after a refresh, returns None as well, with groups still queued.  A consumer
must therefore keep asking, which is what `ConsumerConverges` assumes.

## Proofs

`tlapm` checks the modules `..._proofs` for every value of the constants, from
these assumptions, which TLC evaluates for the constants of the runs:

* `RibAssumption`: hashes are integers different from `None`, `PathHash` is a
  function into them, `None` is not a dict.  `ThreadsAssumption` is the same
  without paths and with the bound on calls.
* `StreamAssumption`: messages follow each other, have at least a header, and
  their length fields are right; any of them may be refused, and a length read
  anywhere else may be any number.  `FramingAssumption` and `ReplayAssumption`: what
  is read at a time is at least one byte.
* `ChunksAssumption`: a chunk's header has at least one byte and a buffer has
  room for it; in `debag.py` these are 16 and 0x100000.
* `PipelineAssumption`: a payload is a sequence of messages, a size a natural.
* `ForwarderAssumption` (the bound) and `CollectorAssumption`.
* `UpdatesAssumption`: the UPDATEs can be encoded, as said above.

Every safety invariant and every action property of the passing runs is proved,
and so are both refinements.  The types of `BGPribdb`, `BGPribdbThreads`,
`Forwarder`, `Collector` and `BgpUpdate` are proved and not checked again by the
runs; those of `Replay` and `Pipeline` are both.

*BGPribdb.*  `TypeOK` is inductive; lemmas about `Put`, `Del` and `Bump` carry
it.  `PathsResolvable` is inductive with it: hashes enter the RIB and the queue
only through `update`, which stores their path first, and paths are never
removed.  `NoLostAnnouncement` is inductive given both: without
`PathsResolvable` a group of announcements could meet the KeyError that drops
the withdraws.  Its second half, that as long as the refresh table holds a
superseded path the current one is queued, is what a plain "queued or known"
lacks to survive a refresh item.  The three together give the refinement:
`FeedReceive` shows that an update or withdraw announces or withdraws in
`RibFeed`, and one step per action of `FeedNext` does the rest.
`UpdatesAreCurrent` follows from the actions alone.  `QueuesAgree` is inductive
relative to `PathsResolvable`, again because of the KeyError, which must only ever
drop the group of withdraws.  `HistoryExplainsRib` is not inductive: it does not
bound the withdraws of a prefix whose entry is None, which the next update would
inherit.  `HistoryInv` adds that no prefix is withdrawn more often than received.

*BGPribdbThreads.*  `Inv` is type correctness, with what the threads hold between
their steps (`InCall`), and five facts.  `Looked`: a path that the consumer has
found for a prefix was in the RIB at some time since its call began.
`RequestsAreNew`: what is requested, popped or groomed was written since the last
refresh, which dropped all requests from before.  `TableIsCurrent`: a refresh
item has the path of its prefix, unless that was written since.  `RequestsCome`: a
request differs from the RIB only while the producer is about to set it.  With
these `RefreshRepairs`, in which a hash of 0 counts as a withdraw as it does on
line 172, is inductive, and `RequestsMatchRib` and `ToldWasCurrent` follow.

*Forwarder.*  `Handshake` ties the places of the two threads to the state: a
sender inside `send` holds the manager between lines 57 and 61, a pending
wake-up means Disconnected, and the manager outside of those lines has no
working connection, unless a send on it timed out.  It implies the three properties proved.

*Framing.*  `InStep` says that the messages handed on are the first ones of the
stream, none of them refused, and that a running session's buffer begins where they end; `FoundNext`,
that then `get_next` finds a message exactly when all of the next one is there.
This gives the refinement of `BmpStream`.  `NothingHeldBack` is inductive with
it and is what bounds the buffer at the next recv.

*Collector.*  `Good` says for each place of `run` what a thread's state, socket
and history can be; a step changes one thread only (`Frame`), so one step per
action remains.  `SocketsReleased`, `OnlyExceptionsEndThreads`,
`ConnectedAndGone` and `NoSpin` follow.

*Replay.*  The session keeps the invariant of `Framing`, and each reader has one
of its own.  `SpiderInStep`: what `get` has returned ends with the messages found,
none of them refused, or six bytes behind them, and a short read is the last one.
After the exception nothing is left of them, and a refused message is whole in
the file.  `NoneRefused` is what excludes that at an end of file.  `WalkInv` is the
invariant of `Framing` again, from an instance of its proofs.  `UnblockInStep`
holds until a block ends in a bad place: the tail is then a run of positions from
the end of the last message to what was pushed, and `msg` with its tail in front
is one too, so that it does not matter that `Unblocker` copies bytes.  `FileInv`
says that a file is read only after the session, and that a dump ends with the
last message handed on, none of which was refused; this gives `DumpReplays`.

*Pipeline.*  The dump determines the context: `PeersOf` gives the peers, their
tables and Peer Up data as a function of the messages dumped, and `PeersOfAppend`
says that `Parse` computes it for one message more.  `TablesFollowLastWord` and
`PeerUpDataIsFirst` are then facts about `PeersOf`.  `TopicIs` says of the three
files of a topic how they relate between openBMP messages, inside of one, and
after the program failed, on an openBMP message itself or on a message in its
payload.  It is a predicate on
values, which the topic of `forward.py` and the one of `debag.py` both satisfy;
`ExitedIsDetermined` shows that two topics that satisfy it, end, and received the
same openBMP messages have the same files and peers.  `InFile` keeps `start` at
the end of a chunk until a checksum fails, and `PassedOn` makes what `debag.py`
received the beginning of what `forward.py` stored.  With `Ends`, which says when
the file is complete, `ReplayRebuildsTables` follows, whatever the messages, their
number and the place where the programs stop.

*BgpUpdate.*  The theorems are about every set of UPDATEs that can be encoded,
and each of them cut anywhere.  The encoded message is a row of sequences of
octets: `Places` says where each of them lies in it, and `PrefixPlaces`,
`AttributePlaces` and `UpdateOctets` what stands there.  `Cut` is what a
message or a field is after a cut, the beginning of what was encoded, and
`SliceOfCut` is what a Python slice of it gives.  Four invariants build on each
other.

`MsgInv`: the message is a cut of what was encoded, and long enough for each
field once the code has tested it, so that `FieldsAre` gives the three fields
back (the announced prefixes possibly cut).  This is what `TypeOK` is not inductive without,
as it makes the offsets those of octets that exist; `MovesOn` follows.
`PrefixInv`: in a loop over prefixes the offset is where the k-th of them ends
and the list has the first k as they were sent; `PrefixIsRead` says that
`PrefixRead` undoes `EncodePrefix`, by the cases of `ByteLength`.  `AttrInv`: the
same of attributes, where `attribute` has what is kept of the first k
(`AttributesRead`) and nothing else; since a code is there once, a later one
does not overwrite an earlier one (`OneMoreAttribute`).  `KeptIsOne` says that
`Kept` has at most one element, which for a path is a fact about the loop over
its segments (`OnePath`).  `NothingInvented` is then read off.  `AcceptInv`:
in a whole and usual UPDATE no assertion fails, as what the loops find at
their offsets is what was encoded.  `WellFormedIsAccepted` needs besides that an encoded
path is kept, if only as some path (`EncodedPathIsRead`): its segments
follow each other to its end with ASes of the size it has, so that the second
attempt succeeds if the first does not.

`GetSegments` is a recursive function of the offset.  `SegmentsArePaths` takes it
for the function that `PathsExist` constructs, from the end of the value down.

The dump, the chunks' ends and the payloads in a row are defined by recursion on
naturals.  What these definitions compute is proved by induction over sets
(`SetInduction`: a set of naturals that has 0 and with each number the next is all
of them), obtained from the well-foundedness of the finite sets in
`FiniteSetTheorems`; `Recursion`, `FlattenAppend` and `EndOfGrows` rest on it, and
in `BgpUpdate_proofs` `StepsExist`, `JoinedAll` and `DownInduction`.

Only model-checked is liveness under fairness, which is out of the prover's
reach: `ConsumerConverges`, `ReconnectsUnlessErased`, `EveryMessageIsHanded`,
`ReadersEnd`, `ComesBack`, `ParsingEnds` and `DebagEnds`.  Of `ParsingEnds` the part
that is not about fairness is proved: each step moves on (`ParserMovesOn`).

## Not modelled

* `BGPribdb.__str__` and every other report; YAML, arguments and logging; the
  contents of messages at fixed offsets.
* `ribdb.py` does not compile; `bgprib.py` is reached only from `router.py`,
  which stops at an undefined name before its first message.  Its Forwarder is
  the one that is modelled.
* `parse.py` and `probe.py` read Kafka topics and only print.  The loop of
  `forward.py` is in `Pipeline`, with one topic; topics share nothing.
* `parse_bgp_open` and the parsing of its parameters are used only by code that
  is commented out (`bmpapp.py:112-131`), and KEEPALIVE and NOTIFICATION by
  nothing.
* Length fields of BMP messages that are wrong.  With a length of 0 `get_next`
  waits for ever, as said above.
* `BMP_unblocker` with `parse=True`, which reaches an undefined name.
* The applications `source`, `sink` and `run` of a session appear only through
  how they end; `main` of `collector.py` only starts threads.
* What `Spider` does with the messages it found: it calls `BGPribdb()` without
  its arguments and stops.

The queues of a `BGPribdb` have no bound in the code, and nothing empties them;
the model has a bound because it counts receptions.

## Plan

What is modelled covers the code that runs, and its safety properties are
proved.  What would come next depends on the code:

1. When a program consumes from a `BGPribdb`, its loop takes the place of the
   consumer that `BGPribdbThreads` has now, and its fairness that of
   `ConsumerConverges`.
2. When lines 323-324 of `bgpparse.py` read the ASes where they are, `SegmentAt`
   changes and `ASPathIsRead` becomes a property that holds; `OnePath` and
   `EncodedPathIsRead` are the lemmas its proof would start from.
3. OPEN messages, once their parser is called.
