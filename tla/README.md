# A verification of forumNet

forumNet is a small web server: network threads on edge-triggered epoll
receive requests, an HTTP thread computes the responses, and two blocking
containers connect them.  This directory holds TLA+ modules that model the
server, TLC configurations that model-check them on small instances, and
theorems with proofs that TLAPS checks.

File and line numbers refer to `src/forumNet/`.

## 1. The system

```
 peers <--> sockets, epoll <--> NetServer threads (3)
                                  |  PostMsg            ^ GetMsg / DeleteMsg
                                  v                     |
                          MsgQueue "TCPDataRecv"   MsgMap "TCPDataSend"
                                  |                     ^
                                  v PopMsg              | InsertMsg
                                 HttpServer thread (1)
                                  |  body        ^ text
                                  v              |
                 UrlDecode, TaskManager, AuthenticationServer, TaskExcutor, cJSON, UrlEncode
```

| Component | State | Operations | What makes it correct |
|---|---|---|---|
| MsgQueue | a deque, a mutex, a condition variable | MsgPush, MsgPop (blocking) | FIFO; pop never meets an empty deque; no wake-up is lost |
| MsgMap | a map from descriptor to message, a mutex, one condition variable for all keys | MsgInsert, Erase, MsgGet (blocking) | a reader gets the message of its key, wakes when it is there, holds no freed node |
| MsgQueueManager, MsgMapManager | singletons: a map from names to containers | Register, PostMsg, PopMsg, InsertMsg (= Erase, MsgInsert), GetMsg, DeleteMsg | InsertMsg replaces what is there |
| NetServer | listening socket and mutex shared by three threads; per thread an epoll instance, `clientSocket`, the harvested events | StartServer, Accept, ReadHandle, WriteHandle | every connection accepted once, every request posted and answered in full, to the peer that made it, every descriptor closed |
| HttpServer | one `Http_Header` and `_ResponseData` for all requests | StartHttpServer: RecvRequestData, HttpParser, DataHandler, CreateResponseHeader, SendResonseData | terminates and survives on whatever was received; the answer is the answer to this request |
| TaskManager, AuthenticationServer, TaskExcutor | none that outlives a request | CreateTask, TaskScheduling, CheckUser, Run | the fields of the form are found, by name |
| UrlCodeSolution | none | UrlEncode, UrlDecode | decoding undoes encoding; an escape never reads behind the end |
| Message, main | a descriptor and a text; threads and containers | | |
| cJSON | the tree of a page, for one request | creating items, PrintUnformatted | what is printed can be read again as the same tree; nothing is written behind the block allocated for it |

What is hard here: four threads and two condition variables; a lock object that
is local to an if-block, so that both containers are touched after their mutex
has been released; descriptors that are closed and reused while events,
messages or responses for their former owner are still around; edge-triggered
events that are not repeated; blocking in the event loop; `send` interrupted
half-way; requests that arrive in parts, or fill the buffer; a parser whose
loop ends on one exact position; texts whose size is counted before they are
written; objects that live longer than the request
they were filled for.  `PROJECT.json` lists each hazard
at its line.

## 2. The modules

| Module | Models | Proofs |
|---|---|---|
| `FifoChannel` | abstract specification of the queue: Send, Recv | |
| `Service` | abstract specification of the server: Ask, Send, Finish | |
| `MsgQueue` | `MsgQueue.cpp` | `MsgQueueProofs` |
| `MsgMap` | `MsgMap.cpp` | `MsgMapProofs` |
| `Sockets` | peers, sockets, descriptors, epoll (external) | `SocketsProofs` |
| `NetServer` | the event loop and the three handlers of `NetServer.cpp`; uses `Sockets` and `MsgMap` | in `ForumNetProofs` |
| `ForumNet` | the program `main.cpp` starts: `NetServer`, and the loop of the HTTP thread | `ForumNetProofs`, `ArrivalProofs`, `ServiceProofs` |
| `MCForumNet` | symmetry of `ForumNet`'s instances | |
| `StdString` | `find`, `substr`, `npos` and `size_t` (external) | `TextProofs` |
| `UrlCode` | `UrlCodeSolution.h` | `TextProofs` |
| `CJson` | the part of `cJSON.c` the program uses, and the reader | `TextProofs` |
| `TaskManager` | `TaskManager.cpp`, `AuthenticationServer.cpp`, `TaskExcutor.cpp` | `TextProofs` |
| `HttpServer` | the HTTP thread, byte by byte | `HttpServerProofs` |
| `MCHttpServer` | literals, stored texts and requests of `HttpServer`'s instance | |

**MsgQueue.**  `mutex` is the owner of `_mutex` while it is inside MsgPush.  One
round of the wait loop of MsgPop is one step (`MsgPopTest`): it tests and either
leaves the loop or goes to sleep.  Because the `unique_lock` of MsgPop is
declared in the if-block (MsgQueue.cpp:14-30), `front()` and `pop()` run without
the mutex: `MsgPopTake` when the accesses happen to take effect one after the
other, `MsgPopTear` for the outcomes the language leaves undefined.  After a
tear nothing more is said of the run.

**MsgMap.**  Each critical section is one step.  `it` is the iterator that MsgGet
dereferences after the lock is gone; Erase turns it into a dangling one, and what
is copied through it is any message.  `NotifyOne` wakes any one sleeper, whatever
its key.

**Sockets.**  A registration joins its instance's ready list when it is added or
modified while its condition holds, and at every edge; `Harvest` (epoll_wait)
takes entries off the list and reports those whose condition still holds.  Close
takes the descriptor out of every instance, and calls on descriptors that are not
open fail without effect.  A peer may send its request in two parts: what recv
takes is whatever has arrived, and `cut` remembers the connections of which it took
the first part only.

**NetServer.**  Each thread has a program counter.  One action is one system call
or one critical section of a container, but for the three below; so a round of Accept's loop is `AcceptOne`
(accept), `SetNonblocking` (which calls exit when the descriptor is gone) and
`AddSocket` (EPOLL_CTL_ADD), with the mutex held throughout.  `events` is the part
of `events[]` the loop over `nfds` has not handled yet; handling them in any order
covers the order of the array.  epoll_wait fills at most `MaxEvents` of them and
leaves the rest on the ready list.  `clientSocket` starts uninitialized (`NoConn`),
as in the code: the branch for unknown events (NetServer.cpp:457-461) closes it
nevertheless.  ReadHandle receives once, whatever part of a request is there
(its comment, NetServer.cpp:80-86, says that it supposes one recv to be enough).
The queue is used through `FifoChannel`'s Send and Recv, which `MsgQueue`
implements; the map is `MsgMap` itself (INSTANCE), because its wake-ups and
iterators matter to the threads.

Some actions are two steps of the code each.  `ReadRequest` and `ReadNothing` are
recv and the PostMsg of what it returned (NetServer.cpp:82, 126): between the two the
message is in a local variable, where nobody sees it, and the HTTP thread could only
find it later.  `SendError` is send and DeleteMsg (155, 195): the only other step on the
key is the InsertMsg of the HTTP thread, and what it puts there in between is deleted as
if it had come before both.  `ReadFails` is recv and close (82, 114 or 121).  In between
another thread might close the same number, at line 459, and a third be given it by
accept, so that the close hits a new connection; this takes a reset and two threads.
Until a reset a descriptor has one owner (`CalmInv`), the runs with resets have one
thread, and the theorems that go beyond a reset (`TypeCorrect`, `ImplementsMsgMap`,
`InsertMsgReplaces`) do not depend on who closes what.  So no property that is checked
or proved tells the orders this leaves out from those it keeps.

The indeterminate `clientSocket` of a thread whose first event of a connection is an
unknown one is taken to be the number of an accepted socket, or of nothing.  It might
also be `_serverSocket` or an epoll descriptor, whose close stops the thread or the
server from reporting anything more; this is left out.  Until a reset the branch is not
reached, and what is checked with resets (`NoTotalHang`, `InsertReplaces`, `GetReturns`)
promises nothing about events still to be reported.

**ForumNet.**  The HTTP thread takes a message, erases the key and inserts the
response, in three steps.  An empty message ends the process, because HttpParser
throws on it and nobody catches.  A part of a request may do so too, or is answered as
it is; and so may a whole request of a connection in `Fatal`, one that HttpParser or
UrlDecode does not survive: without an empty line, with an escape that is none, with
a NUL in it, or as long as the buffer (HttpServer.cpp:46, 52; UrlCodeSolution.h:21, 58).
`HttpServer` has what is received of such requests, byte by byte.  `Alive` is that the process has not ended.

**Service.**  What a peer may rely on: whoever asks is sent its own response, in
order and in full, and then closed.  `ForumNet` maps its state to it by `Asked`
(connections from which something was received or waits to be) and `Done`
(connections accepted once and closed since); `stream` is the same in both.

**HttpServer.**  The same thread seen from within.  `data` is the text received: a
whole request, or its first n bytes.  When recv fills the buffer of ReadHandle,
AppendData finds no NUL in it and reads on: `Appended` adds any of the texts
`Junk` then.  A NUL ends what AppendData takes (`UpToNul`): a request with one is never
received whole.  The values of a form are what the peer wrote, escaped or not;
`Decoded` is the form they stand for.  HttpParser is three actions (first line, one round of the loop over
header lines, body).  `Extract` is one extraction of a word from a stringstream.
`substr` behind the end throws and `assert` aborts: both lead
to `dead`.  Arithmetic on `size_t` wraps round, which decides what happens without
an empty line and with a missing key.  Locals that are dead are kept, except the
body, which is forgotten when the response is sent (HttpParser always sets it
before it is read).

**TaskManager, CJson.**  A page is built as a tree and printed: `Printed` gives, for
each part of the tree, its text and the size of the block that is allocated before
the text is written.  `GetDataFromDB` only pretends to read a database, and the
literals it stores are plain; the model stores the constant `Stored` instead, so
that texts a database may hold are covered: every way PrintString writes a byte.
`Parse` is cJSON's own reader, standing for the peer's.  (`StdString!Concat` is
`FlattenSeq` chunk by chunk, which keeps TLC's recursion shallow.)

Each module marks some definitions "Faulty variant": plausible bugs, used to
check that each property would notice.  They are not part of the specification.

## 3. What is checked

`tlc -config X.cfg M`, with M the module in the table.

| Run | Module | Instance | Distinct states | Result |
|---|---|---|---|---|
| MsgQueue | MsgQueue | 3 producers, 1 consumer, 2 messages, at most 3 queued | 414 | holds |
| MsgMap | MsgMap | 3 readers, 3 keys, 2 messages | 45,072 | holds |
| Calm | MCForumNet | 2 threads, 3 connections, one in `Split` and `Fatal`, 2 descriptors | 1,399,366 | holds |
| Faults | MCForumNet | 1 thread, 3 connections, 2 descriptors, one may reset, two may stall, one in `Fatal` | 486,342 | holds |
| Served | MCForumNet | 1 thread, 2 connections, one in `Split`, one in `Fatal`, 2 descriptors, one event at a time | 11,327 | holds |
| HttpServer | MCHttpServer | 15 requests, each whole or cut off in up to 11 places, one longer than the buffer | 13,837 | holds |
| LostWakeup | MCForumNet | 2 threads, 2 connections, 2 descriptors | | `FilledInWakes` violated |
| WrongPeer | MCForumNet | 1 thread, 2 connections, 1 descriptor, a reset | | `OwnResponse` violated |
| SentTwice | MCForumNet | 1 thread, 2 connections, a full send buffer | | `OwnResponse` violated |
| Stranded | MCForumNet | 1 thread, 2 connections, 1 descriptor | | `NotLeftPending` violated |
| EmptyMessage | MCForumNet | 1 thread, 4 connections, 2 descriptors, a reset | | `PostsWhatItReceived` violated |
| StaleData | MCHttpServer | as HttpServer | | `ResponseDataAreOwn` violated |

What holds:

* **MsgQueue.**  With the one consumer the program has, the unlocked `front()`
  always finds an element (`NoUnderflow`), the consumer never sleeps on a
  non-empty queue (`NoLostWakeup`), every message is eventually taken, and the
  queue implements `FifoChannel`, up to the moment a push and an unlocked pop
  tear the deque.
* **MsgMap.**  Notifications do go to the wrong reader, but all readers never sleep
  with all their messages present (`SomeoneAwake`).
* **Calm.**  While no peer resets or stalls, the program implements `Service`
  (`IsService`): every peer is sent its own response from its first byte on, nothing
  twice, and is closed only when it has all of it.  From its posting to its last byte
  a message is for the present owner of its descriptor, and the only one for it
  (`ServiceInv`).  No event is stale and no
  descriptor is closed while Accept prepares it (`CalmInv`), no iterator dangles, no
  empty message is posted, the threads never all wait for nothing, and nothing ends the
  process but a request that a peer sent (`EndsByRequest`): no empty message does, and no
  descriptor that is closed before it is non-blocking.
* **Faults.**  Whatever a reset or a full buffer mixes up, InsertMsg replaces what
  it finds, and a thread that waits in GetMsg gets something, or the process ends.
  While no peer resets, a full buffer harms only the peer behind it, and all it does is
  to repeat what was sent: nobody is sent a unit of another's response, whoever asked is
  sent all of its own at last before it is closed, and every peer whose own buffer was
  never full exactly that (`StallsHarmNoOther`).
* **Served.**  Every peer is accepted, every request that came in one piece answered
  in full, every descriptor closed, also of a request that came in parts
  (`PartReleases`), if there are descriptors enough and no request ended the process;
  all this with `events[]` too short for the events that are due.
* **HttpServer.**  The loop over the header lines never steps over its end and each
  round gets closer to it (`RoundsAdvance`), so it terminates on any cut-off request;
  a request that arrived whole, in less than the buffer, ends the process only if an
  escape in the form of a POST is none, or its last byte is a colon
  (`WholeRequestSurvived`); what HttpParser makes of it is what was written; the peer of a POST decodes the result of
  the task its own form names (`PostAnswered`); a page can be read back as the tree it
  was printed from (`PagesReadable`); and no part of it is longer than the block
  allocated for it (`PrintsInBounds`).

What does not hold, each with the comment or message in the source that says
otherwise (`PROJECT.json`, findings):

* **LostWakeup** (MsgMap.cpp:9).  `notify_one` on a condition variable shared by
  the readers of all keys: a thread sleeps for ever although its message has been
  filled in.
* **WrongPeer** (HttpServer.cpp:156).  A response is filed under a bare descriptor
  number; after a reset it is sent to the number's next owner.
* **SentTwice** (NetServer.cpp:185).  After EAGAIN the response is sent again from
  its first byte.
* **Stranded** (NetServer.cpp:52).  accept fails for lack of a descriptor, and the edge
  is used up; the descriptor is closed, and stays free for ever, with the connection
  still in the backlog.
* **EmptyMessage** (NetServer.cpp:101, 459).  `clientSocket` holds the number of a
  connection closed earlier, which another has been given since.  The branch for
  unknown events closes it on the reset of a third; a fourth is accepted on the same
  number; and the event harvested for the second makes ReadHandle post an empty message
  for the fourth, of which the HTTP thread dies.  `PostsWhatItReceived` is about threads
  whose `clientSocket` has been set, so the indeterminate one plays no part in this.
* **StaleData** (HttpServer.cpp:186).  Only a POST sets `_ResponseData`: any other
  request is answered with the data computed for the POST before.

### Bounds

* Connections, descriptors, threads and messages are small sets of model values.
  Two threads suffice for lost wake-ups and for the race of Accept, three
  connections on two descriptors for every reuse of a descriptor while another
  connection is served.  Runs with faults have one thread, because with two the lost wake-up of
  `LostWakeup` stops everything else.
* `MaxQueue` bounds the queue of the MsgQueue run; the code has no bound.  In
  ForumNet a connection makes one request, which bounds the queue by itself.
* A response has `RespLen` units, of which one `send` takes at most `MaxSize`
  (NetServer.h: MAXSIZE).  Two units are enough to interrupt it in the middle;
  `Served` has three, so that one send cannot take all.
* `MaxEvents` is 20 in the code.  It is 1 in `Served`, where it is exceeded, and
  above the number of possible events elsewhere.
* A request comes in one piece or, for the connections in `Split`, in two.  A whole
  request may end the process if its connection is in `Fatal`; the others never do.
  Each passing run has one such connection.
* A send buffer fills up at most once per connection (`Sockets!FillUp`).
* `Cuts` are the lengths at which a recv may have returned: nothing, inside the
  first line, between and around the line breaks, inside header lines, inside
  escapes.  `BufferSize` is 50 instead of 1024, below the length of one
  request; behind a full buffer there is nothing, a lone `%`, or a line break
  (`MCJunk`), each of which changes what is parsed.
* Texts are short because the literals of
  the source are mapped to one or two bytes (`MCLit`); they differ from each other,
  and no name of a form field is found in another, as in the source (`KeysApart`).
* Threads, descriptors and connections of one kind are interchangeable;
  `SYMMETRY` is used in the passing run without liveness, Calm.  Its PROPERTY,
  `IsService`, is a safety property, `Init /\ [][Next]_v` of `Service`, which no
  permutation of the connections changes; so each step of a representative is judged as
  the step it stands for.

### Fairness

Weak fairness of each network thread and of the HTTP thread: the operating system
runs a thread that can run.  In MsgQueue: of the consumer, and of a producer that
holds the mutex.  A thread blocked on a condition variable is not enabled, so
nothing is assumed of it.  Peers owe nothing, spurious wake-ups may happen and
need not, and which sleeper a notification wakes is not fair.  The strongest
liveness property (`EveryRequestAnswered`) is therefore about requests that were
made.

## 4. What is proved

For every value of the constants, from the assumptions named in the modules (one
consumer; model values distinct; `RespLen`, `MaxSize` and `MaxEvents` positive).  "Until
a reset" means that the theorem is about every state in which no connection has been
reset so far (`reset = {}`), "until a reset or a stall" also that no send buffer has been
full so far (`Steady`): it holds of the run up to there, whatever comes after.
The constants of the HTTP thread are texts of any length: literals (`LitIsText`) and
stored texts (`StoredIsText`), of any bytes but a NUL, because cJSON is given them as
`char *`, which end there; and requests of any bytes, shorter than `npos` (`TextsFit`).  What peers write is made of what a peer
may put there (`RequestsWellFormed`): words without white space, header lines that are
not empty and hold no carriage return, a form of the fields the server knows, with
values of any bytes, escaped or not.  The names of these fields, the literals of `key_array` (TaskManager.cpp:16),
hold no `%`, `+`, `=` or `&`, and none is found in another (`KeysApart`).  What is
received of a request, and what stands behind a full buffer, is arbitrary.

| Module | Theorem | States |
|---|---|---|
| MsgQueueProofs | `TypeCorrect`, `FrontFindsElement`, `WakeupsArrive` | `[]TypeOK`, `[]NoUnderflow`, `[]NoLostWakeup` |
| | `QueueIsChannel` | MsgQueue implements `FifoChannel` |
| MsgMapProofs | `TypeCorrect`, `ReadersNotAllForgotten` | `[]TypeOK`, `[]SomeoneAwake` |
| ForumNetProofs | `TypeCorrect` | `[]TypeOK`, whatever peers do |
| | `ImplementsMsgMap` | the program uses the map as `MsgMap!Spec` allows |
| | `CalmInvariance` | `[]CalmInv` until a reset |
| | `NeverAllWait` | `[]NoTotalHang` until a reset |
| | `InsertMsgReplaces` | `InsertReplaces`, whatever peers do |
| ArrivalProofs | `OnlyDataPosted` | `[]ReceivedNormally` until a reset |
| | `EndedByRequests` | `[]EndsByRequest` until a reset |
| ServiceProofs | `ServiceInvariance` | `[]ServiceInv` until a reset |
| | `StallsOnlyRepeat` | `[]StallsHarmNoOther`, which is about all states until a reset |
| | `IteratorsLive` | `[]NoDangling` until a reset |
| | `OwnResponses` | `[]OwnResponse` until a reset or a stall |
| | `ServesUntilDisturbed` | every step until a reset or a stall is one of `Service`, or one it does not speak of |
| | `ImplementsService` | the program implements `Service` when no peer ever resets or stalls |
| HttpServerProofs | `EndNotSteppedOver` | `[]StopsAtTheEnd`, whatever is received |
| | `LoopAdvances` | `RoundsAdvance`, whatever is received |
| | `TypeCorrect` | `[]TypeOK`, whatever is received |
| | `RequestParsed` | `[]ParsedAsWritten` |
| | `RequestSurvived` | `[]WholeRequestSurvived` |
| | `PostsAnswered` | `[]PostAnswered` |
| | `PagesInBounds` | `[]PrintsInBounds` |
| | `PagesRead` | `[]PagesReadable` |
| TextProofs | `EncodedReadBack` | `UrlDecode` undoes `UrlEncode`, and does not abort, for every text |
| | `PagesFit` | every part of every page fits its block, for every stored text |
| | `PagesReadBack` | `Parse` undoes `Printed` on every page, for every stored text |

*The queue.*  `Inv` adds to the properties that a sleeper is in the wait loop.
With one consumer, a queue found non-empty can only grow until that consumer pops:
this is why the missing lock does no harm to `NoUnderflow`, and where
`OneConsumer` is used.

*The map.*  An insertion always wakes one reader if any sleeps; a reader falls asleep
only when its own message is missing.  So when all sleep, the last to fall asleep
has no message, and an insertion for it would have woken someone.

*The program.*  `TypeCorrect` rests on two facts that are used again:
`UsesSockets` and `UsesMsgMap`, that every step of the program is a step of
`Sockets!Next` and of `MsgMap!Next` or leaves them unchanged; so what is proved of
them alone holds in the program.  (`ImplementsMsgMap` says the second as a
theorem.)

*Insertion replaces.*  InsertMsg erases and inserts in two critical sections.  Nothing
can come between them (`ErasedFirst`), because the HTTP thread is the only one that
inserts.

*Never all waiting.*  `NoTotalHang` is not inductive.  If all threads wait,
`SomeoneAwake`, inherited from `MsgMap`, gives one whose message is missing; that
its message is then still in the queue or in the HTTP thread's hands needs
`CalmInv`:

* `OneOwner`: no descriptor is registered with two epoll instances;
* `EventsCurrent`: an event not handled yet is about what is still asked for;
* `InHand`: what a thread knows of the descriptor it works on;
* `ResponsesOwed`: whoever waits to write on a descriptor has a response coming;
* `NewSockets`: a descriptor that Accept is preparing is open, and nobody else's.

Each part needs the others: a stale event would let a thread close or re-register
another's descriptor, and a descriptor with two owners would lose its response to
one of them.  `NewSockets` is a part because accept and EPOLL_CTL_ADD are different
steps: a descriptor closed between them would be registered without being open.
`CalmInv` may be false once a peer has reset (`EmptyMessage` is the consequence), so the
theorems end there; a reset is not taken back, so no state before an undisturbed one is
disturbed (`ResetsStay`).  A full send buffer is allowed.

*Only requests end the process.*  `ArrivalInv` adds that there is a request, or the end
of the stream, behind every event for reading (`ReadableEvents`): it was so when
epoll_wait reported it, and only the thread that has the event can take it away.  So
recv never finds nothing, no empty message is posted, and what HttpParser throws on
is what a peer sent; setnonblocking finds its descriptor open by `NewSockets`.

*The service.*  `ServiceInv` follows a message through the program:

* `OneMessage`: there is at most one for a descriptor, in the queue, in the HTTP
  thread's hands or in the map, and it is about the descriptor's present connection;
* `OwedWhereReceived`: it is there only between the recv that posted it and the
  DeleteMsg before close;
* `InWriting`: a thread in WriteHandle has the response of the connection it writes
  to, and has just sent as much of it as it has counted (`Sent`);
* `Streams`: nobody else sends, whoever was sent anything has been received from, and
  who is done has all of its response at last, or closed before it asked;
* `NoDangling`: so nothing is erased that a thread is about to copy.

The last two are the consequences, but the induction needs them: a copy through a
dangling iterator would be any message.

EAGAIN (`SendAgain`) takes a thread out of WriteHandle and forgets its count, but the
message stays in the map and the descriptor registered for writing: so `Sent` speaks of
the last units of the stream, and of the whole stream only where the buffer was never
full.  A send appends to both (`SentGrows`); a stream that consists of the first units
of a response, and of nothing else, is that beginning of it (`Beginning`).
`StallsHarmNoOther` is what this leaves of `OwnResponse` until a reset.

The refinement then reads off what each step does to `Asked`, `Done` and `stream`, while
every buffer is fresh: recv and the calls of the loop leave them alone, send is `Send`,
a request that arrives is `Ask`, and the two closes that can be reached are `Finish`.
`WrongPeer` and `SentTwice` show that neither assumption can be dropped.

*The parser.*  The loop over the header lines ends only when `prev` equals
`pos_crlfcrlf`.  `ParserInv` says why it gets there: the empty line begins with a line
break itself, both were looked for from the end of the first line on, and no line
break begins one byte behind another.  So a search that starts two bytes behind `prev`
still finds the empty line if nothing before it; and if there is no empty line, both
searches end in `npos`, which is larger than any position.  That a least hit exists is
well-foundedness of the naturals; that positions do not wrap round is `TextsFit`: a
text received is shorter than `npos`.

*The requests.*  `WholeInv` says of a request that arrived whole, in less than the
buffer (and so with no NUL in it, `WholeReceived`), what the parser knows at each stage: where the header lines end, which method
and url were extracted, that the body is the form, and that nothing threw unless the request is `Fatal`.  It rests
on where things are in the text of a request (`RequestLayout`):

* a line break begins where the first line ends and not before it, because words hold
  no carriage return (`LineWords`);
* the empty line is found where it was written: the only carriage returns among the
  header lines are those between them, and each is followed by a line that is not
  empty (`GuardedLines`);
* wherever the loop is, the empty line is still ahead; so `prev + 2` is not behind the
  end, nor is `pos_colon + 2` unless the last byte is a colon; where there is no colon,
  the latter wraps round to 1: no other `substr` throws (`WholeHeader`);
* the form is the text behind the empty line, and only for a POST it is decoded: an
  assert that fails is one on an escape in the form, which `Fatal` has.

That one `Http_Header` serves all requests does no harm to the method and the url only
because a request has both; `ParsedAsWritten` says so, and `Extract` keeps the old word
where there is none.

*The answers.*  `PostAnswered` follows a form from its peer through the codec into
CreateTask and its result back through the codec.  It adds to `WholeInv` what
`responseData` is when DataHandler has run, and needs of the two directions:

* the decoded body is the form with its values decoded, `Decoded` (`BodyDecoded`): the
  escapes of each value are complete, and the names, `=` and `&` hold none, so they are
  left as they are;
* CreateTask looks for a key anywhere in the body, not at the beginning of a field.
  It finds the right place (`FieldFound`) because a key reaches over no `=` and no `&`,
  so it would be found within one name or one value (`NoHitConcat`), and in each other
  field it is in neither (`NameElsewhere`: `KeysApart` and `PlainForm`);
* from there, the first `=` is the one behind the name, and the first `&` the one
  behind the value, or there is none (`FieldAt`);
* what UrlEncode makes of the result is decoded as the result (`EncodedReadBack`).

`PlainForm` is what the code needs of a peer, and no document says so: each key once,
and no key and no ampersand in a value.  The empty value is allowed, and any order.

*The codec.*  `EncodedReadBack` is about whole texts.  A fold is a recursive function
that is chosen to satisfy its equation; that there is one is proved by induction up to
a bound, on a set of numbers (`NatSet`, `UpTo`), which needs no theorem with an
operator for a parameter.  From the equation follows what flattening does to
concatenations and to chunks.  `UrlDecode` looks two bytes back at each position, so it
does not distribute over every concatenation; it does where the text to the left does
not abort, for then its last escape is complete (`DecodeConcat`).  What UrlEncode
writes for each byte is complete, and is read back as that byte, for all 256.

*The pages.*  `PagesFit` says that cJSON counts what it writes: 6 bytes for a control
character, two for a quote and a comma, and so on up the tree.  `Printed` is a
recursive function on the parts of a tree of four levels: that it exists is shown
level by level (`Strings`, `Level2` to `Level4`), and each kind of item is compared with
its block from the sums that the two passes of `print_string_ptr` and the loops of
`print_array` and `print_object` compute.

`PagesReadBack` is about printer and reader together, level by level in the same way.
The reader knows neither where an item ends nor what stands around it, so what is shown
of each item (`ReadAs`) is about every text in which its own stands somewhere:
`parse_value`, begun there, yields the item and stops right behind it.

* *Strings* (`PrintedStringRead`).  `print_string_ptr` leaves no quote, backslash or
  control character as it is, and each escape is read as the character it was made of
  (`ReadChar`: `Letters`, `HexRead`).  So the first bare quote is the closing one.  The
  `\u0000` that `parse_string` drops is never written, because no NUL is printed.
* *Items of a list* (`ReadAsItem`).  An element of an array is read back only if it has
  no name, which it would lose (`Trees`); a member of an object begins with its name.
* *Lists* (`ListRead`).  By induction on the number of items: each is read up to the
  comma or the bracket behind it (`OneOfList`), no white space is ever skipped, and no
  value begins with a comma or a bracket that closes (`Begins`), so an array with
  something in it is not taken for an empty one.
* *Enough is left to read.*  `Parse` goes by the number of bytes that are left.  Each
  item takes one at least, so the number never runs out within a text (`StandsFirst`).

Only model-checked: liveness, which is out of the prover's reach, and `NoTotalHang` with
resets.

## 5. What is not modelled

* Set-up (`InitServer`'s socket, bind, listen), setters, `StopServer` and
  `StopHttpServer` (never called), Register (done before any thread starts), and
  the non-blocking variants of MsgPop and MsgGet (never asked for).
* The counters and all output; `_success_cnt` is reset by every thread at its start,
  but only printed.
* The EPOLLRDHUP branch: no registration asks for that event.
* `version` and `header` of Http_Header, which nothing reads.
* A request in more than two parts, and two requests on one connection: the
  descriptor is closed after the first response.
* The texts of the rows a page consists of, and the database: `GetDataFromDB` fills
  in literals, for which `Stored` stands.
* Of cJSON: numbers and literals, formatted and buffered printing, escapes of
  characters above 007F, and the functions the program never calls.
* Allocation failure, failing `epoll_ctl` on open descriptors, failing `epoll_wait`.
* How a peer encodes a form is external: it may escape values, and does not escape
  names and separators.  A value that decodes to something with an ampersand or the name
  of a key in it is taken apart by CreateTask, and a form without one of the fields is
  read as if it began with it; `PostAnswered` says nothing about such forms.

## 6. Plan

Written: queue, map, sockets, network threads, their composition and the service it
implements, and the HTTP thread with parser, codec, tasks and pages.  Left:

1. Model the two HTTP threads that `main.cpp` once had (`httpServer2`), against
   `OneConsumer`.
