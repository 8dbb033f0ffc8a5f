# A verification of NetCommon

`src/NetCommon` is a header-only C++17 message library on asio; `src/NetServer/SimpleServer.cpp` and
`src/NetClient/simpleClient.cpp` are the two programs built on it, `src/GetWebPage` is a third program of its own. This
directory models the library and the three programs in TLA+, checks the models with TLC and proves theorems about them
with TLAPS. Everything else in the repository (`src/vendor`) is asio, which is modelled only by what its documentation
promises of the operations the library starts.

`PROJECT.json` lists the components, the runs, the source lines of every definition, the hazards and the theorems. Paths
below are relative to `src/NetCommon` unless they say otherwise.

## The system

Every interface owns an `asio::io_context` that one thread runs, so the handlers of one interface run one at a time. The
program's own thread calls `Update()` (server) or polls `Incoming()` (client). The threads of a process meet in the
queues, in `m_ConnectionMap`, and in `asio::post`. A heartbeat has a context, a thread and a connection of its own, and
shares the client's `m_qMessageIn`.

| component | state | operations | talks to |
|---|---|---|---|
| `Ts_queue` (NetTsqueue.h) | a deque, two mutexes, a condition variable | `emplace_back`, `empty`, `pop_front`, `wait` | asio threads push, one program thread pops |
| `Connection` (NetConection.h) | socket, timer, handshake numbers, `m_qMessageOut` | connect and accept halves, handshake, `Send`, `Disconnect`, the chains of read and write handlers | its peer (TCP), `Ts_queue`, `server_Interface::OnClientValidated` |
| `client_Interface` (NetClient.h) | one connection, `m_qMessageIn`, a heartbeat | `Connect`, `Disconnect`, `Send`, `IsConnected`, `startHeartBeat` | `Connection`, the heartbeat (which shares `m_qMessageIn`, line 85) |
| `server_Interface` (NetServer.h) | acceptor, `m_ConnectionMap`, `m_nIDCounter`, `needDelete`, `m_qMessageIn` | accept handler, `NoticeAllClient`, `NoticeClient`, `DisconnectClient`, `Update`, `Stop` | `Connection`, the derived server's callbacks |
| SimpleServer, simpleClient | the clients' keys | `OnClientConnect`, `OnClientValidated`, `OnMessage`; ping, message all, quit | the interfaces |
| `serverHeartbeat_Interface`, `heartbeat_Interface` | connections of their own on port + 500; a timer; the server's echo thread | accept, greet and echo; header, body, 10 s timer, again; `Stop`, `Disconnect` | `Connection`'s heartbeat functions, the client's queue |
| `message` (NetMessages.h), msgDetail.h | a header and a body | `<<` and `>>`, last in first out; the structs' own `<<` and `>>` | all |
| `HandlerManager` (NetMessageRegister.h) | a map of vectors of handlers | register, unregister, execute, clear | nothing includes it |
| GetWebPage.cpp | a buffer, a semaphore | a chain of reads; the main thread waits | a web server |

What is hard in it: handlers of one connection interleave with the program's calls and with the peer; `Send` may be called
at any time, before the connection exists too; the connect timer races the connect; two threads share the server's map
without a lock; a peer may vanish in any state; the queue's `wait()` tests and sleeps under different mutexes; ids wrap;
a chain of handlers must hand on what it carries whatever fails; a body says nothing about what is in it.
What makes each component correct is listed with its module below; `PROJECT.json` ("hazards") has each danger at its line.

## The modules

- `MessageQueue`: the abstract queue (push, pop, handled, each at one instant).
- `TsQueue` (`MCTsQueue`, `TsQueueProofs`): `Ts_queue` lock by lock. A producer goes through `LockQueue`, `AppendItem`,
  `LockBlocking`, `NotifyOne`, `UnlockBlocking`, `UnlockQueue` (lines 79-85); the consumer through `WaitTestsEmpty`,
  `Sleep`, `WakeUp` (145-152) and the loop of `Update()` or of the client, `DrainTestsEmpty`, `PopFront`, `HandleMessage`.
  `empty()` and `pop_front()` hold `queueMutex` for one step, so they are one action each. Spurious wake-ups are an
  action. `blocking`, chosen by `Init`, says whether the consumer calls `wait()` (the server) or polls (the client).
- `MessageChannel`: the abstract connection: what is heard at one end was sent at the other, and comes whole, in order, none
  twice and none left out. It is a safety specification: a connection may be lost, and nothing says that a message is heard.
- `Connection` (`MCConnection`, `ConnectionProofs`, `ConnectionHandshakeProofs`, `ConnectionChannelProofs`): one TCP
  connection, both ends, with the parts of the interfaces and programs that drive it. An action is one handler
  (`ConnectDone` is the handler of `async_connect`, `HeaderRead` that of `ReadHeader`, and so on), one posted function
  (`RunSend`, `RunClose`), one call of a program (`PingServer`, `ServerHandles`, `Broadcast`), or one step of the kernel
  between two handlers (`LinkUp`, `Transfer`, `Arrive`, `Reset`, ...). `tasks`, `writes` and `reads` are the functions
  posted and the operations started and not yet handled; `stream` holds every 4-byte word an end has written, so frames
  that mix on the wire mix in the model. The handshake number is the pair of words numbered 0; the client answers with
  the scramble of whatever eight bytes it read first (`Answer`), which is right exactly if they were the number. `accepted` is
  how the server's listener deals with this connection: `Accept` is the handler of `async_accept` down to line 98 of
  NetServer.h, `IdExists` its early return at 79-84 (`ServerAccept` and the close are posted, no number is ever written),
  `AcceptFails` its error branch at 67-71, and `ListenerStops` is that early return befalling another connection, so that
  this one stays in the backlog for good. `Quit` is the end of a process, at any time and also before the accept: the
  client's `Disconnect` stops its context and leaves, and either process may be ended from outside. (`server_Interface::Stop`,
  which leaves the sockets open, is in `Heartbeat`; SimpleServer never calls it.)
- `ServerConnection`: the abstract life of one connection at the server, as the server's program sees it: new, validated,
  closing (closed, with the handler of a finished read still to run), closed, and the messages of it that wait in
  `m_qMessageIn`. `ServerRegistry` takes each of its connections for one of these; `Connection` implements it.
- `ServerRegistry` (`MCServerRegistry`, `ServerRegistryProofs`): the server's connections across its two threads. The
  accept handler is two actions (`Approve` up to line 86, `Insert` from 88) because the program's thread may touch the map
  in between; `NoticeAllClient` is one action per turn of its loop (`Visit`), `clearConnectDeque` one per id (`Erase`).
  The map has no lock: if an insert hits a walk, the walk may skip and repeat entries from then on (`raced`); if an
  insert meets an erase, one of the two may be lost. What happens on one connection is reduced to `Validate`, `Close`,
  `Receive` and `Lapse`, the actions of `ServerConnection`. (A late `Validate`, of a connection closed already, changes
  nothing the registry keeps.)
- `Heartbeat` (`MCHeartbeat`, `HeartbeatProofs`): the heartbeat of one client across its four threads (the client's
  program and heartbeat thread, the server's context and `heartbeatthread`), composed with the client's life cycle. `prog`
  follows the program from `Connect()` to the last destructor; `main` is the main connection, reduced to whether
  `IsConnected()` holds; `chain` is the set of operations of the beat that have been started and whose handler has not run:
  `SendHeartbeatHeader`, `HeaderWritten`, `BodyWritten`, `TimerFires` are the call and the handlers of
  ClientHeartBeat.h:78-137, `WriteError` their error branches. `msg` is the life of the `shared_ptr` they share. On the
  server `Accept` posts the greeting, `EchoHeartBeat` is one turn of `Update()`'s loop, `RunSend` the posted function.
  A frame is on the wire when its body is; how words make frames is `Connection`'s subject. `Stop` is a server that leaves
  its loop, `ServerDies` the end of its process. `DestroyQueue` and `DestroyHeartbeat` are the members of the client going
  in reverse order of their declaration, with `DeliverToNobody` for a frame that comes in between.
- `Codec` (`MCCodec`, `CodecProofs`): the body as a sequence of bytes, `Put` and `PutText` for the two `<<`, `ReadPod` and
  `ReadText` for the two `>>`, `ReadOutside` for either when it asks for more than there is. A struct of msgDetail.h is a
  record of the id its `<<` sets and the orders in which it writes and reads its fields; the reader goes by the id, as a
  program that switches on `header.id` does. Strings and words are bytes, so a word can be misread as a length.
- `WebPage` (`MCWebPage`, `WebPageProofs`): GetWebPage's main thread from `connect` to the printed page (with the semaphore's
  `wait()` as `WaitLocks`, `WaitSleeps`, `WaitTakes`), the handler of `GrabData` on the asio thread (`ReadMore`,
  `ReadFinished`, `ReadError`) with `signal()` as `SignalCounts` and `SignalNotifies`, and the network, which cuts the page
  into pieces anywhere, closes after it, or resets. Only lengths count.

`MCX` modules name the sets TLC needs. An operator whose comment begins with "Mutation of" is no part of a specification:
it is a definition with a plausible bug, and `PROJECT.json` ("mutants") says which property notices it.

## What is checked

| run | what it shows |
|---|---|
| `tsqueue` | for a consumer that waits and one that polls: the locks are owned as they should be, no pop meets an empty deque, the queue implements `MessageQueue`, `emplace_back` always returns; a polling consumer handles every message, a waiting one every message while more keep coming |
| `connection_patient` | a client that waits for `ServerAccept` and for each echo is never refused, and its sends and the server's keep apart; every attempt to connect ends, unless the listener has stopped before it; a lost peer is noticed; what is closed comes to rest; echoes arrive as long as the server pops |
| `connection_eager` | a client that sends at any time: one read at a time, no open connection without a reader, nothing heard from a client that has not answered; `m_qMessageOut` is empty between handlers; headers leave in the order of `Send()` and before their bodies; the server's end implements `ServerConnection` |
| `connection_apart` | clients that send and servers that broadcast at any time, before validation too, as long as sends keep apart (`SendsApart`): the handshake number comes first (or, to a client whose id is taken, never, and then it hears no message), and the connection implements `MessageChannel` |
| `registry` | ids, map, pruning, broadcasts of the server with more connections than ids, and that closed connections leave the map while clients keep asking for broadcasts |
| `heartbeat` | one beat at most is under way and an open heartbeat keeps it; the greeting precedes every echo; echoes keep coming while both sides live; the end of the server's process closes the heartbeat; the program ends when its main connection has (a crash counts as an end) |
| `codec` | each struct comes back whole, in reverse; `header.size` follows the body; no read leaves the body unless the id is another struct's |
| `web_page` | the chain of reads is over when the main thread goes on; a page that is no multiple of the buffer's length does not hang the program, and is printed whole if only the last read came back short |
| `connection_overlap` (violated) | two `async_write`s in flight on one socket, against asio's rule |
| `connection_timeout` (violated) | a connected client is disconnected with "Connect TimeOut!" |
| `heartbeat_buffer` (violated) | a body is written from a buffer that has been freed |
| `web_page_short` (violated) | "READ Finished." and a part of the page |

### What the runs say about the code

- **A wake-up can be missed.** `wait()` tests `empty()`, drops `queueMutex`, then locks `muxBlocking`: an `emplace_back`
  in between notifies nobody. The message then waits for the NEXT one. `MessageHandled` therefore holds for the blocking
  consumer only under `Traffic` (each producer delivers again and again). The server uses the blocking form, and a patient
  client sends nothing after its ping: its echo can wait until some other client's message comes. `EchoArrives` therefore has
  the popping as its premise (`Connection!Traffic`) and says only that nothing else keeps an echo from coming.
- **The write queue does not queue.** `WriteHeader` pops a message before it writes it, so `bWritingMessage`
  (NetConection.h:247) is never true (`OutQueueDrained`, proved), and the handshake number is not in the queue at all.
  Accepting one client is enough for two overlapping writes (`connection_overlap`). asio serves them in order in practice,
  which the model assumes; what is lost is framing. Where exactly, `SendsApart` says: frames mix only if a posted send runs
  while the header of a message WITH a body is being written (its body is written in the handler, behind the newcomer), and
  a send that runs before the connection is up may be lost while later ones are not. Every other overlap does no harm, the
  one of each accept included: `ImplementsChannel` holds of all behaviours that avoid these two (proved), and a client that
  waits for `ServerAccept` and for each echo, on a server that does not broadcast, does avoid them (`SendsKeptApart`).
  `WordsInOrder` is what remains without that care (proved).
- **A listener that stops leaves a client behind.** When an id is taken, the accept handler returns without listening again.
  The client it was called for is sent `ServerAccept`'s header, takes it for the number, and is closed (`HandshakeComesFirst`
  says what it gets, and that it hears no message). A later client connects all the same, since the backlog takes it; it
  cancels its timer, and then stays open, unvalidated and unheard: `AttemptResolved` excepts exactly that one.
- **The connect timer can win after the connect** (`connection_timeout`): its handler does not look whether the client has
  connected meanwhile.
- **A message may come from a closed connection.** The handler of a read that had finished runs after the close that was
  posted before it; `OnClientValidated` can be late in the same way. `ImplementsServerConnection` fixes that it is one
  message at most and that nothing opens the connection again.
- **`IsConnected()` is true from `Connect()` on**, so an eager client's first message can be taken for its answer: it is
  refused. `HeardOnlyIfValidated` shows that the server is safe from it, `PatientClientAccepted` that waiting avoids it.
- **`needDelete` is never cleared.** `ErasedAreClosedOrReuseIds` says what that costs: nothing before the ids wrap; then a
  live connection that reuses an id can be dropped. And the accept handler returns for good when its next id is taken
  (`AcceptsWholeIdSpace`), which needs as many accepts as there are ids.
- **A broadcast reaches all** open listed connections but its origin (`BroadcastReachesAll`), unless an accept runs
  meanwhile: then the unlocked map is walked while it changes. Unvalidated clients are in the map and are sent to as well.
- **The body of every heartbeat is freed while it is written** (`heartbeat_buffer`): the header's handler holds the last
  share of the message, and the handler it gives to the body's write captures only `this`.
- **The first beat does not wait for the connect** (ClientHeartBeat.h:87). Where such a write fails at once, the heartbeat
  closes itself; `ChainUnbroken` and `ServerLossNoticed` hold either way.
- **A heartbeat does not notice a server that has stopped.** After `Stop()` the process hangs in joining the echo thread
  with its sockets open, beats go unanswered, and nothing in the client looks for an answer: only the end of the process is
  noticed. That is why `ServerLossNoticed` speaks of `"dead"` alone.
- **`RequestServerSeedack` has the request's id** (msgDetail.h:52). A reader that goes by the id takes the seed for the
  length of a string; `OutsideOnlyIfMislabelled` shows that this is the only way a read leaves a body the library wrote.
  `RoundTrip` fixes that the players of a room come back in reverse order.
- **A short read counts as the end of the page** (`web_page_short`), and an end of file as an error that signals nobody:
  `PrintsUnlessMultiple` names what makes the program wait for ever (a length that is a multiple of 1024, a failed connect,
  a reset), and that the whole page is printed only if no read but the last is short.

### Bounds

- `TsQueue`: two producers (a client has two: its connection's and its heartbeat's asio threads), two messages, `MaxLen` 2.
  Two producers suffice to meet at either lock; `MaxLen` bounds the queue only while the consumer is awake, so a further
  message can always arrive for a sleeping one (the second bound of `CallEmplaceBack` is never reached).
- `Connection`: `MaxSends` 2 pings (a header, a body and a second header, so that frames can mix), `MaxBroadcasts` 0 or 1,
  `MisreadLens` 0 and 100 (a header read off the wrong words asks for no body or for more than will come). `Eager` and
  `Pipelined` choose how careful the client is. One ping and one broadcast suffice for `connection_apart`: with
  `ServerAccept`, `Client_Accepted` and the echo the server sends four messages, with and without bodies; it takes the steps
  of `ApartSpec` by the action constraint `SendsApart` on `Spec`. Frames mix in `connection_eager`, between two pings and
  between two echoes; with broadcasts besides, `WordsInOrder` is proved but not run. The runs of the eager client use the
  view `EagerView`, which drops `handled["client"]`: with `Eager` and `Pipelined` no guard but that of popping reads it, and
  no property of those runs does. Deadlock is not checked: a connection that has ended has no step left.
- `ServerRegistry`: two ids, first id 1, so that the counter wraps at once; three connections, so that an id is used again
  after its entry was pruned; one queued message. The safety properties are proved for all values.
- `Heartbeat`: `Capacity` 2 frames on a wire or in a queue, so that a frame can wait behind another and every queue can be
  full; the number of beats is not bounded. The violated run needs one. The program ends, so deadlock is not checked.
- `Codec`: texts of no, one and two bytes, words that as lengths fit or do not fit (0, 1, 256), rooms of up to two players
  of two bytes each. A run ends with its message, so deadlock is not checked.
- `WebPage`: a buffer of two bytes and pages of up to five: shorter than a buffer, a multiple of it, and more than two.

### Fairness

- Threads: each asio thread and the program's thread runs on, and a mutex that is free again and again is obtained
  (`SF` on lock acquisition: not promised by `std::mutex`, but true of the schedulers it runs on). `Traffic` is an
  assumption on the peers, used for the blocking consumer only.
- `Connection!Fairness`: handlers that are ready run; the accept handler is called (for a connection, a taken id or an error,
  whichever comes, while the listener listens); the kernel moves words and reports a lost peer; a timer expires; the client's
  loop keeps polling. No fairness makes a connect succeed or fail, a program send, a process end, or the server's `Update()`
  pop: that is `Traffic`, the premise of `EchoArrives` alone. A connect that hangs is ended by the timer.
- `ServerRegistry!FairSpec`: an accept handler that has begun ends; the program's thread continues its broadcast; a walk
  ends (`SF`, for after a race a walk may revisit, but not for ever). That broadcasts go on is the premise of the property.
- `Heartbeat!Fairness`: the four threads go on, timers expire, the kernel moves frames and reports a lost peer or a missing
  connection. Nothing makes a connect succeed, the key 3 be pressed or a server stop, and a write on a socket whose connect
  hangs may wait as long as the connect does: `ConnectTimeOut` ends both.
- `WebPage!FairSpec`: both threads go on (`SF`, since each needs a mutex the other takes briefly), the server sends its
  answer and then closes, the kernel reports what it has. A reset is never forced, nor excluded but by the property's
  premise.

## What is proved

For every value of the constants, with no assumption but the named ones in the modules. Two theorems on `Connection` have a
hypothesis: `PatientClientsPass` assumes `~Eager`, and `SendsApartMakeAChannel` is about `ApartSpec`, the behaviours whose
sends keep apart.

- `TsQueueProofs`: types, `LockOwnership`, `PopHasMessage`, and that `TsQueue` implements `MessageQueue`. The invariants
  with `ItemsInHand` (a thread holds a message exactly while it delivers or handles it) are inductive; each lock step maps
  to a stutter, `AppendItem` to `Push`, `PopFront` to `Pop`, `HandleMessage` to `Handled`.
- `ConnectionProofs`: types, `OutQueueDrained`, `OneReadAtATime`. The last is not inductive: a second read could come from
  a second nonce. `TurnsOK` says that a client that connects has neither read nor answered, that a client that reads is
  writing no answer, and that there is one answer at most; `ReadsOK` that each end has one read at most and that a finished
  read has the words it asked for; `WritesOK` and `TasksOK` that only messages that were sent are ever written.
- `ConnectionHandshakeProofs`:
  - `NeverDeaf` is inductive only together with who acts next on an end that neither reads nor is about to close
    (`DeafInv`): the client is connecting, or a connect has failed and its timer is armed, or it writes its answer; and a
    client that connects is open.
  - `HandshakeComesFirst` and `HeardOnlyIfValidated` share `HandshakeInv`: before the accept the server has nothing at
    all, and a server that turned the client away has at most `ServerAccept`'s header and reads nothing (`Unserved`); from an
    accept on the number is either the first on its stream or the first of its writes, still pending; whoever
    reads a number reads the first two words; no read but that of the number is started before the client is validated.
    "The data read" is thus tied to "the stream's first words", which no single handler knows.
  - `PatientClientAccepted`: a client that sends nothing before `ServerAccept` has its answer at the head of its stream,
    or is `Waiting`: it has put nothing on the wire and has heard, handled and sent nothing (`PatientInv`). So the only
    words the server can take for the answer are the answer.
  - `ImplementsServerConnection`: with `SettledOK` (a socket that is not open has no read pending, and a process that has
    ended has nothing), each handler of the server is a step of `ServerConnection` or changes nothing of it.
- `ConnectionChannelProofs`:
  - `WordsInOrder`, however the client overlaps its writes. `OrderInv` relates what is posted, what is being written and
    what is on the wire: a posted message is newer than all of these, a waiting header is newer than every header on the
    wire and every write ahead of it, a body is started once, when its header is out.
  - `ImplementsChannel`, of `ApartSpec`, for all constants: eager and pipelining clients, any number of sends and broadcasts.
    It is safety only: what is heard is right; nothing says that it is heard. `ApartInv` has three parts. `WriterOK`: while an
    end can write, its writes stand in line, each beginning with the word that follows the last word of the one ahead or of
    the stream, a header with a body is the last in line, and what was sent and is not in line is posted; so a stream that
    begins with the number is a row of whole frames, the last perhaps unfinished. `ClientOK`: the client's stream begins with
    the number only once it has answered, before which it hears nothing. `ReaderOK`: a reader stands at the end of a frame
    when it reads a header and at the end of a header when it reads a body, and what it has heard are the frames before. In
    the refinement a call of `Send` is the channel's `Send`, the `HeaderRead` or `BodyRead` that completes a frame is
    `Deliver`, and all else is a stutter. Both halves of `SendsApart` are needed: a send that overtakes a body mixes two
    frames, and one that runs before the connection is up may fail and leave a gap behind which others follow.
- `ServerRegistryProofs`: types, `IdsMatch`, `AcceptsWholeIdSpace`, `ErasedAreClosedOrReuseIds`, `BroadcastReachesAll`. The
  strengthening: an id in `needDelete` was the id of a connection now closed (`DeletedClosed`), a listed connection is the
  newest with its id (`NewestListed`), the first `LastId + 1` connections have different ids (`FirstRound`), and a walk has
  served what it has visited (`WalkOK`).
- `HeartbeatProofs`: types, `ChainUnbroken`, `StartComesFirst`. `StartOK` says that no beat exists before the program starts
  one and that the server has nothing to say before it accepts; `GreetingOK` follows the greeting until it is heard: it is
  the next thing the client can be told, or an end has left and nothing will be.
- `CodecProofs`: `PodBack` and `TextBack` (what `<<` put on, `>>` takes off, over any body), then types, `RoundTrip` and
  `OutsideOnlyIfMislabelled` for all texts, words and rooms. There is no induction over the fields: the invariant keeps a
  trail, the body as it was after each field was written, and says that the reader has come back to the trail's entry that
  belongs to the fields it has read; each read order is the mirror of its write order (`Mirror`), so a read takes off just
  what lies between two entries.
- `WebPageProofs`: types and `NothingInFlight`, with the invariant that the chain signals once, after its last read.

Every safety property and every refinement that a passing run checks is stated by one of these theorems, but for
`SendsKeptApart`, which is model-checked only. So are the liveness properties (`MessageHandled`, `PushReturns`,
`AttemptResolved`, `PeerLossNoticed`, `EchoArrives`, `ClosedComesToRest`, `ClosedArePruned`, `EchoesGoOn`,
`ServerLossNoticed`, `ProgramEnds`, `PrintsUnlessMultiple`), since TLAPS does not prove liveness under fairness. The properties
of the violated runs are false.

## Not modelled, and the plan

Not modelled because there is no behaviour to model:

- `HandlerManager`: nothing includes NetMessageRegister.h, and `HandlerSlot` cannot be compiled (its `BOOL operator()`
  overrides a `bool operator()`).
- Three structs of msgDetail.h: `RequestNoticeAllClientReq` and `Ack` use ids `DemoMsgType` does not have, and
  `RequestMovePlayerAck`'s operators name members without their object. The whole header includes a `Player.h` that the
  repository does not have, so nothing compiles it today; the other eight structs are modelled with `PlayerInfo` as a value
  of `PlayerSize` bytes.
- The `async_read`/`async_write` wrappers of NetConection.h:271-306 and `NoticeClientById` (never instantiated; they would
  not compile), `clean()` and `setclean()` of the server's heartbeat (never called), the operations of `Ts_queue`,
  `Semaphore` and `message` that nothing calls, build files, vendored asio.

Outside the models: object lifetimes other than the heartbeat's message and the client's queue (a close is posted with a
raw `this`); an accept of a connection that is reset at once, which throws in `remote_endpoint()` and ends the process;
a second `Connect()` of a client, which no program of the repository calls; the byte that `scramble` drops, since both ends
scramble the same number; bodies that did not come from the structs. That overlapping operations of one kind on a socket
complete in the order started is an assumption of `Connection`: asio's implementations do so, its documentation forbids to
overlap them.

Planned: that `Heartbeat`'s `main` is an abstraction of the client's end of `Connection`, as `ServerConnection` is of the
server's; a proof of `SendsKeptApart` for the patient client, which would join `SendsApartMakeAChannel` to it.
