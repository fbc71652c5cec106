# kk-proxy in TLA+

A verification project for kk-proxy: a coroutine runtime over io_uring, sockets
and files on top of it, a TLS stream that drives OpenSSL through memory BIOs, and
the beginnings of an HTTP library. The parts whose correctness depends on the
order in which things happen are specified in TLA+, checked on small instances
with TLC, and the results that matter most are proved for every instance with
TLAPS.

Paths below are relative to `src/kkp/kkp-core/include/kkp/` unless they start
with `src/`.

## 1. Inventory

| Part | State | Operations | Hard behaviour |
|---|---|---|---|
| Coroutine runtime (`coro/task.hpp`, `coro/coro_base.hpp`, `io_context.hpp`, `src/.../coro/task.cpp`) | coroutine frames; per promise `caller_`, `context_`, `flags_` (daemon, sub_job), `value_`/`ex_`; the `task<>` objects that own frames | create, move and destroy a task object, `co_await` of a task, `launch`, `launch_detached`, `block_run`, the final awaiter, `finish` | control passes by symmetric transfer and by nested `resume()` on one native stack; frames are freed by their owner, by the final awaiter or never; one `caller_` slot |
| Ring awaiters (`uring/base_uring_awaiter.hpp`, `uring/awaiter/*`) | an SQE pointer and an `io_data` (handle, result) inside the awaiter, inside the frame | construct (takes and fills an SQE), await (stores the handle, submits), resume | the kernel holds the address of the awaiter; SQE taken and handle stored at different times; submit may take less; SQ full |
| Event loop (`uring/uring_loop.hpp`, `uring/io_data.hpp`) | `running_`, the CQ position | `run`, `resume`, the stop request `io_data_completed` | resumes a coroutine while its completion is still at the head of the CQ; stop may be stale or missing |
| TLS stream (`ssl/ssl_stream.hpp`, `ssl/ssl_engine.hpp`, `ssl/ssl_common.hpp`) | `SSL`, `read_bio_`, `write_bio_`, `leftover_`, the raw stream | `handshake`, `send`, `recv`, `close`, move | suspended in every raw operation with the SSL object shared; short raw sends and partial records; OpenSSL's error queue is per thread; both ends may wait for each other |
| Sockets and files (`net/socket.hpp`, `fs/file.hpp`) | `fd_`, the ring, the peer | open, connect, bind, listen, accept, send, recv, close, move, destroy | the kernel gives numbers out again; failing close; descriptor 0; descriptor limit; accepted descriptor exists before its object |
| OpenSSL's error queue (`ssl/ssl_common.hpp`, `ssl/ssl_engine.hpp`) | a queue per thread | filled by a fatal error, emptied by `perform`, asked by every `get_ssl_status` | what one stream leaves makes another one fail |
| Ownership of streams (`stream.hpp`, `ssl/ssl_stream.hpp`, `ssl/ssl_engine.hpp`) | a variant of socket and TLS stream; `ssl_`, `read_bio_`, `write_bio_` | construct, move, assign, close, destroy, forward | the SSL object owns its BIOs; constructors that throw half-way; the coroutine lambda of the variant outlives its closure |
| `this_context` (`coro/task.hpp`) | one global awaiter | `co_await this_context` | threads with an `io_context` each share it |
| Results and error codes (`error_code.hpp`, `src/.../error_code.cpp`) | none | `make_sys_error`, `make_custom_error`, `message`, each `await_resume` | sign of errno; a rejected request and a failed one look alike |
| Addresses, endpoints (`net/address.hpp`, `net/endpoint.hpp`) | a `sockaddr` of 16 bytes | resolve, connect, accept, format | an IPv6 address does not fit; byte order |
| HTTP headers (`src/kkp/kkp-http`) | a multimap | construct, copy, destroy, add, set, get | repeated names: which value `get` reads after any adds, sets and copies |
| Thread pool, `promise<T>`, tests, vendored libraries | - | - | unused, stubs, or not the program's own |

How they interact. `block_run` starts the root task and enters the loop. A
coroutine runs until it awaits a task (which starts at once, on the same thread)
or an awaiter of the ring (which submits and suspends). The loop takes one
completion at a time and resumes the coroutine whose handle the completion leads
to; whatever this coroutine creates, awaits, launches and finishes happens inside
that one `resume` call. The final awaiter hands control to the awaiting coroutine,
or frees a daemon's handle, or, for the root, submits the stop request. The TLS
stream is a client of all that: each of its raw operations suspends the coroutine,
and what the other coroutines do meanwhile may touch the same SSL object.

What makes each part correct:

- runtime and loop: no coroutine is resumed that does not wait for what resumes
  it, none waits for ever although what it waits for has happened, no freed frame
  or awaiter is touched, outcomes reach the awaiting coroutine, `block_run` returns
  after its root and only then;
- TLS stream: `recv` gives the plaintext in order, once, and waits only when there
  is none; `send` puts intact records on the wire; the handshakes of both ends
  return, with their output sent;
- error queue: what other streams leave in it may end a `recv`, but loses none of the
  plaintext;
- sockets, files and streams: each descriptor, SSL object and BIO is released once,
  by its owner;
- `this_context`: a coroutine gets the context of its own thread, whose ring has no
  lock;
- results: a success looks like one and nothing else does, a refused request is known
  as such, and the errno gets through;
- addresses: `connect` leads where it was asked to;
- headers: `get` reads what was set last or, if nothing was set, what was added first.

The hazards, each at its line and with the properties that watch it, are listed
in `PROJECT.json`.

## 2. Plan

Order of the modules, the most important behaviour first; each theorem module
follows the module it is about. All of them exist:

1. `Uring`, `Runtime`: everything else runs on them. Proofs `RuntimeProofs` and
   `RuntimeRules`.
2. `SecureChannel` (abstract), `SslReceive` (implements it) with `SslReceiveProofs`,
   `SslSend` with `SslSendProofs`, `SslHandshake` with `SslHandshakeProofs`.
3. `Descriptors` with `DescriptorsProofs`; `Streams`, one level up.
4. `TaskFuture` (abstract), `RuntimeFuture` (`Runtime` implements it; the proof is the
   last part of `RuntimeRules`).
5. `ThisContext` with `ThisContextProofs`.
6. `Results`, `Endpoints`, `Headers`, checked with `Streams` in `MCLibrary` and proved
   with it in `LibraryProofs`.

What is left to prove is liveness, which is out of the prover's reach (section 5).

## 3. Modules and the code

### Uring, Runtime

`Uring` has the submission queue (`sq`), the requests the kernel works on
(`flight`) and the completion queue (`cq`). A request is named after the awaiter
whose `io_data` is its `user_data`, or `Stop` for `io_data_completed`.

`Runtime` has one frame per element of `Task`, used for one call of a coroutine:
`frame` is the coroutine state, `caller`, `context`, `daemon`, `outcome` are the
fields of its promise, `holder` says where the `task<>` object is, `awaits` what a
suspended coroutine waits for. `cur` and `stack` are the native stack: who is in
control, and the `resume()` calls in progress. `handle` and `frameOf` belong to
the awaiter objects. `loop`, `running_` and `root` are the loop and `block_run`.

One action is one stretch of native code between two points where control changes
hands. `Create`, `Drop`, `BlockRun`, `Launch`, `LaunchDetached`, `Await*`, `Io*`
and `Finish*` are what the body of a coroutine can do, in any order; `LoopRun`,
`Resume`, `ResumeStop` and `CqeSeen` are `uring_loop::run`; `Complete` is the
kernel. `AwaitReady`, `AwaitStart`, `AwaitDaemon` and `AwaitStarted` are the cases
of `base_task_awaiter`, `FinishToCaller`, `FinishDaemon` and `FinishRoot` those of
the final awaiter.

The library trusts its callers. The model does not: it allows misuse, records in
`breach` which rule was broken, and in `fault` the undefined behaviour that follows;
nothing happens after a fault. The rules are listed at the head of the module.

Left out: a `block_run` inside a `block_run`, launching a task that is already
started, awaiting a moved-from task, `co_await std::move(task)` (its frame is never
destroyed), the move constructor of an awaiter, results of completions (they are
in `Results`), an error of `io_uring_wait_cqe` (it leaves the loop where it was).

### TaskFuture, RuntimeFuture

`TaskFuture` is what `coro::task` promises those who use it: a task runs at most
once, has one awaiting coroutine at most, ends with one outcome, and this outcome is
what its awaiter gets, whether it came before or after the end; nothing goes away
while it runs. There are no handles, rings or native stacks in it. `RuntimeFuture`
maps `frame` to the states of a task and `awaits` to `waits`, and shows that every
step of `Runtime` after which no rule is broken is a step of
`TaskFuture` or changes nothing of it. Symmetric transfer is why `Finish` gives the
outcome to the awaiter in the same step: nothing runs in between.

### SecureChannel, SslReceive

`SecureChannel` is what `recv` promises: the plaintext written by the peer, in order and
without gaps, and the end only when all has been read. `SslReceive` follows `recv`:
`Recv` is the call up to its return or its raw recv, `Resume` what happens after the raw
recv, `Arrive` and `Fails` the completion by the kernel. `SslRead` is `SSL_read` on the
records in the BIO: it consumes records without plaintext silently, returns at most the
rest of one record, and says `want_read` when no record is complete. `Plaintext` is what
a record decrypts to. `ended` of the abstract module is the state of the SSL object that
has met the last record, `close_notify` or one that makes `SSL_read` fail for good (kind
`bad`: a fatal alert, a record that does not decrypt). A data record carries one unit of
plaintext per piece of ciphertext.

The error queue of OpenSSL belongs to the thread. `OtherFails` and `OtherPerforms` are
what the other streams of the thread do to it: a recv with a fatal error leaves entries,
`ssl_engine::perform` clears the queue before and empties it after. `recv` does neither,
and `Status`, which is `get_ssl_status`, asks the queue first. So a recv returns -1 for
close_notify, for a fatal error of its own, on every call after either, and for what
another stream has left.

A reader that waits is not woken by what another reader has put into the BIO; it waits
for a raw recv of its own. `NoStall` therefore says two things: no reader begins to wait
with plaintext at hand, and plaintext is never at hand while all readers wait, so that
some reader has returned and gets it with its next recv.

### SslSend

`Send` is the call up to the first raw send, `SendRest`, `SendNext` and
`SendFails` are what a completed raw send leads to. `breach` records concurrent
sends and sends after a failure, which the code does not exclude and does not
survive: pieces of the records of two senders mix. `Answer` is what an `SSL_read`
inside `recv` may add to the write BIO, the reply to a KeyUpdate: `recv` does not send
it, so it waits there for the next `send`.

Nothing in the code limits how often others refill the BIO while a send is suspended. A
second sender that calls `send` again and again can keep the loops of the first one
going for ever. `SendReturns` says what does hold: a send returns, or others refill the
BIO infinitely often (`Refill`). `MaxCalls` and `MaxAnswers` bound the state space; the
property does not rest on them, because a behaviour with infinitely many refills
satisfies it.

### SslHandshake

Both ends run `handshake`. OpenSSL is a script of flights: an end writes its next
flight when it has processed the ones before, and may refuse what it gets.
`Status` is the decision of `ssl_engine::perform`: pending output first. `Perform`,
`RawRecv`, `RawSend` and the two failures are the loop of `handshake`; `Close` and
`SendApp` are what the callers do with the result, as `zz` in `src/test/mtest.cpp`.

### Descriptors

`table` is the descriptor table; an object holds a number (`fd_`) and, as a ghost,
the open file that came with it (`own`). `Open`, `MoveConstruct`, `MoveAssign`,
`Close` and `Destroy` follow the three classes, which differ in what a moved-from
object keeps and what a destructor closes. An accept yields a number in a
completion (`AcceptCompletes`) before it yields a socket (`AcceptResumes`). `close`
releases the number even when it reports an error, as Linux does.

### Streams

Every object is a `base_stream`; its socket is the connection it holds and its engine
the SSL object with both BIOs, which `SSL_set_bio` has handed over. `Wrap` and
`WrapFails` are the constructor of `ssl_stream` up to its end or to one of its three
throws; `MoveConstruct`, `AssignSame` and `AssignOther` the moves of the variant, the
stream and the engine together; `Close` closes the socket and keeps the engine. `heap` is
what is allocated; a free of what is not on it is `doubleFree`, after which nothing is
modelled. `breach` records the two things the code does not cope with, assigning over an
engine and running out of memory.

### ThisContext

`Store` is `context_awaiter::await_suspend`, `Load` its `await_resume`, with `global` as
the member both use. Two threads may be between them at once: the load then yields what
memory holds or what the thread has stored itself, and `overlap` remembers that it
happened. `UseRing` uses the ring of what was found and goes on in the thread that reaps
this ring; `BlockRun`, `Launch` and `Await` are how coroutines begin and
get their context.

### Results

One operation at a time goes from its outcome to what its caller sees: `Complete` or
`Call` chooses what the kernel says, `Reject` is the SQ-full path of the awaiter,
`AwaitResume` and `CallResult` do what each class does with the number, and
`HandshakeResult` what `handshake` makes of its raw transfers. `Message` is
`error().message()`: the text of an error number if there is one. `OutcomeIsTold` has
three parts. `SuccessIsTold`: the caller has a success exactly if there was one, except
that an accept which got descriptor 0 comes out as system error 0. `RefusalIsKnown`:
10086, as an error or with a minus sign, stands for a request the kernel has not seen,
and for nothing else. `ErrnoIsTold`: the errno arrives with one sign or the other,
except that of `setsockopt` and `listen`, and `message()` of a system error names it
exactly for file reads, delays and handshakes.

### Endpoints

A name becomes a candidate list (`Candidates`, `getaddrinfo` with its hint), an address
of 16 bytes (`Filled`) and a socket (`OpenTo`, `OpenPlain`); `Connect` and `Accept` make
the peer. The bytes of an IPv6 address that do not fit are lost on the first copy,
which is what `ip = None` stands for. Ports are numbers of 16 bits, and `Swap` is
`htons`.

### Headers

`entries` is the multimap in the order of insertion, which is the order `equal_range`
has within one name; `Construct`, `Copy` and `Destroy` are an object's life, `Add`
appends an entry, `Set` replaces every entry of its name or adds one, `Get` reads the
first. The history `told` is kept without looking at the map: what the name was set to
last, or given first. `GetIsSettled` compares the two. How long the view returned by
`get` may be used is not modelled: that is up to its caller, and nothing in the
repository calls it yet.

### MCLibrary

`Streams`, `Results`, `Endpoints` and `Headers` share no state: what one does changes
nothing of the others, so an interleaving of them shows nothing that each does not
show alone. `MCLibrary` checks them in one run in which `area` says whose behaviour it
is. It takes hosts, addresses, ports and errnos as CONSTANTS, so that the theorems
about it hold for all of them; the configuration gives them the `Small*` sets. What
they rest on is named: errno is 1 to 4095 (the kernel's MAX_ERRNO) and 9, 62 and 111
mean what they mean there (`ResultsAssumption`), a port has 16 bits
(`EndpointsAssumption`), the bound on headers is a number and no value is
`None` (`HeadersAssumption`), and `None` is no object (`NoneAssumption`).

## 4. Runs

`CHECK_DEADLOCK FALSE` stands in the configurations where the system may stop: a
program ends or reaches a fault, the peer stops, every call has returned.

| Run | Instance | States | Shows |
|---|---|---|---|
| `runtime_safety` | 3 frames, 2 awaiters, SQ of 2, submissions that take less, shared awaits | 950,991 | each undefined behaviour has its cause; no lost wake-up while the rules are kept, and a cause for each lost one otherwise; one thread of control; no dangling task object; the stop request is never stale; the SQ never jams |
| `runtime_rules` | 3 frames, 2 awaiters, shared awaits, exceptions | 2.19 million | `block_run` ends after its root; as long as the rules are kept, the runtime implements `TaskFuture` |
| `runtime_live` | 2 frames, 3 awaiters | 287,000 | `block_run` returns; completions are delivered |
| `recv_two` | 2 readers, room 2, data records of up to 3 and others of up to 2 pieces, 3 records, a shared error queue | 172,824 | refinement of `SecureChannel`, also with fatal alerts; conservation of plaintext; no wait begins with plaintext at hand, and none is at hand while all readers wait; a waiting recv returns |
| `recv_zero` | 1 reader, 3 records | violated | `recv` returns 0 on an open connection |
| `send_two` | 2 senders, chunk 2, output of up to 3, 2 calls, 2 answers of `recv` | 248,065 | the wire is a prefix of what was produced; success means sent, for callers that take turns; an answer leaves with the next send; concurrent sends lose nothing, and each returns unless others refill the BIO for ever |
| `handshake_return` | flights of 1, 3, 2, 2 pieces as in TLS 1.3 or 1.2, chunk 2, breaking connection | 859 | both ends return, their output is sent, success is shared, early application data survives |
| `handshake_error` | as above, unbroken | violated | a refused handshake returns error code 0 |
| `descriptors` | 3 objects, 3 descriptors, 5 open files, failing closes | 119,863 | no foreign close before a failed one; no descriptor above 0 lost; what is held is owned |
| `context_threads` | 2 threads, 3 coroutines | 36,817 | contexts and rings stay with their threads unless two lookups overlap |
| `library_areas` | streams: 3 objects, 2 connections, 2 engines (19,404 states); results: all operations, errno 1, 9, 62, 111 (2,065); endpoints: 2 sockets, 2 hosts, 3 ports (4,680); headers: 2 objects, 2 names, 2 values, 4 entries (14,793) | 40,942 | a double free needs an assignment over an engine, and SSL, BIOs and connection have one owner; outcomes reach callers as what they are; `connect` leads where it was asked; `get` reads the value set last, or else added first |
| `streams_free` | the streams of `library_areas` | violated | `ssl_engine::operator=` frees both BIOs twice |

Why the bounds are enough. Three frames give a root, a task it awaits or launches
and one more that awaits, launches or is launched by either: the longest chains of
`caller_` and of nested `resume()` that differ in kind, and doomed frames that own
frames. Two awaiters on a ring of two fill the SQ; a third (in `runtime_live`)
keeps the ring busy behind the stop request. Room 2 against records of 1 to 3 gives
records shorter than, equal to and longer than a raw recv, and raw recvs that end
inside one. Chunk 2 against 3 pieces gives a full chunk, a last one and a short
send inside each; two answers lie before, between and behind the records of two
calls. Records of up to two pieces without plaintext let a close_notify come in two raw
recvs. Three variants and two engines give an object to assign from,
one to assign to, and a third that still holds what the target had, so that a free of
something in use shows. Two threads and three coroutines make a lookup overlap with
one of a coroutine that came from the same thread or another. ETIME is an errno and the
normal end of a timeout; 1 is the errno that -1 is mistaken for. Ports 80 and 443 change
when their bytes are swapped and 257 does not; the two hosts make a machine without IPv6
choose or fail. Four entries of two names give repeated names on both sides of another
one, and copies of them. Five open files on three descriptors let every number be reused
while its old file is still remembered.

Fairness. The loop is a `while` over completions, so it goes on when there is one
(weak fairness of its steps); the body of a coroutine ends or suspends (weak
fairness of `Yield`); the kernel completes a NOP. Nothing is assumed of reads that
may stay in flight for ever: `runtime_live` has them. In the TLS runs the kernel
completes a raw recv when there is something to report and a raw send because the
peer keeps reading; a handshake that has failed is closed by its caller. That a
connection may break is never part of the fairness, so that no wait is ended by it.

Findings, each shown by a run of its own:

- `recv` of the TLS stream returns 0 for a partial record or a ticket
  (`ssl/ssl_stream.hpp:206`), which its callers take for the end of the stream.
- A refused handshake returns error code 0 and prints nothing
  (`ssl/ssl_stream.hpp:70`), because `perform` has emptied the error queue
  (`ssl/ssl_engine.hpp:76`).
- `ssl_engine::operator=` frees the SSL object it replaces and then both of its BIOs,
  which went with it (`ssl/ssl_engine.hpp:45`); the destructor knows better.

Two more defects met on the way have no run of their own. bind, listen, accept and
connect make system errors of negative numbers (`net/socket.hpp:124`, `:167`, `:176`,
`:184`), whose logged messages name no error. `endpoint::port()` is in network byte
order (`net/endpoint.hpp:23`) and printed as it is (`src/test/mtest.cpp:199`).

## 5. Proofs

Proved for every value of the constants under the named assumptions of the modules
(disjoint sets of names, positive sizes, ranges of the platform's numbers). Every
invariant, action property and refinement that a passing run checks is a theorem; the
run shows it on a small instance, the theorem for every one.

- `RuntimeProofs`, for every program, whatever rules it breaks: `TypeCorrect`;
  `NeverTurnedDown` (`SqNeverJams`), from `SqInv`: as long as every submission takes all
  and no awaiter is made early, the SQ is empty between steps; `NoTaskDangles`
  (`NoDanglingTask`), from `HeldInv`: a coroutine that has begun, is not a daemon and
  has no caller is held by no task object, so that the frame a root frees itself has no
  other owner; `ControlIsOne` (`OneThread`), from `ThreadInv`: until undefined
  behaviour, control is in one place and the `resume()` calls nest (`ControlInv`), and
  the frames can be ranked by when they began (`OrderInv`). The ranks are needed because
  destroying a task object frees the frames its frame holds: none of these may be in
  execution, and what ties a holder to the native stack is that it began before what it
  holds.
- `RuntimeRules`, first part, for every program: `LinkInv` says where a request can be
  (`OnePlace`), who may be whose caller (`CallerInv`), to whom a handle leads
  (`HandleInv`), and who may ask the loop to stop (`RootInv`). Callers and handles lead
  to coroutines that wait for them, or whose frame went with a task object that was
  dropped too early (`WaitsOrLost`). From it follow `FaultsHaveCauses`
  (`FaultHasCause`), `StopBelongsToRoot` (`StopIsRoots`) and the action property
  `BlockRunOutlivesRoot` (`BlockRunWaitsForRoot`). `LossesHaveCauses` (`LossHasCause`)
  says which broken rule can lose a wake-up: a short submission for a request or the
  stop request, a shared or dropped task for an awaited one. It needs `LossInv`: each
  suspended coroutine is in the `handle_` and the frame of the awaiter it waits for
  (`SleepInv`), the completion the loop works on has a handle, so that no `co_await`
  takes its awaiter for a prepared one (`HeadInv`), and no task object holds the root, so
  that only its own end destroys it (`RootHeld`).
- `RuntimeRules`, second part, for programs that keep the rules: `RulesInvariant`. A
  state in which no rule is broken has no fault, a drained SQ, `ControlInv`, `OrderInv`,
  `LinkInv`'s parts and `WakeInv`: a suspended coroutine and what it waits for point at
  each other. None of its parts is inductive alone: that a completion finds its
  coroutine waiting follows from who may have changed `awaits` since the submission.
  From it follow `RulesPreventFaults` and `NoWakeupIsLost`, and in the last part the
  refinement `RuntimeImplementsFuture`, with one lemma per action of `Runtime` that says
  which step of `TaskFuture` it is. `AwaitInv` (who is not suspended waits for nothing)
  makes `waits` of the abstract module exact.
- `SslReceiveProofs`: `ReceiveAlways`, and from it `ReceiveTyped`, `ReceiveKeepsAll`
  (`NothingLost`), `WaitsOnlyForNews` (both parts of `NoStall`) and the refinement
  `ReceiveImplementsChannel`. `NothingLost` says nothing of a connection that was reset,
  but readers go on with what has arrived, so the invariant `Account` has a lost end of
  the stream, which is empty until the reset, and also after it if the close_notify has
  come in; this is what lets the refinement hold across a reset. `Flow` says what shape
  the pieces in the BIO, the completions and the wire have together: records are of one
  kind and complete until a reset, and nothing comes after close_notify. Without it a
  read could drop a unit in a record it takes for a ticket. The facts about `FlattenSeq`
  need an induction over the length; each is proved from a shortest counterexample
  (`Least`, from the well-foundedness of the order of the numbers) because the induction
  theorems of the library take an operator.
- `SslSendProofs`: `SendTyped`; `SendsInOrder` (`WireIsPrefix`), from `OrderInv`: while
  no rule is broken, the wire, what is left in the hands of the one sender and the BIO
  are `produced`, in this order; `SuccessIsSent` (`SuccessMeansSent`), from `SentInv`;
  `QuietIsSent` (`QuietMeansSent`), which is about concurrent senders as well, from
  `PlacesInv`: every piece is in one place, none is lost until a send fails, and a piece
  of a call waits in the BIO only while some sender is busy. The senders share the BIO,
  so who sends a piece is not known; that somebody does is all there is to prove.
- `SslHandshakeProofs`: `HandshakeTyped`, `HandshakeFlushes` (`ReturnedFlushed`),
  `HandshakeShared` (`SuccessIsShared`) and `HandshakeKeepsData` (`AppDataKept`), for
  scripts and flights of any length, from `HandshakeInv`: what is under way to an end,
  its peer has come to write (`PathInv`); the two ends keep step in the script
  (`PosInv`); the buffer belongs to one raw send, and output is empty where the engine
  has returned (`ReturnInv`); application data stays last on its path (`AppInv`).
- `DescriptorsProofs`: `OwnersAlways`, the invariant that until a close fails each
  holder's number still means its file and is held once. The ghost `own` and the fact
  that a file is in the table once are what make it inductive. From it follow
  `DescriptorsTyped`, `ForeignNeverClosed`, `DescriptorsKept` and `HeldAlone`.
- `ThisContextProofs`: `ContextAlways` and `RingsArePrivate` (`OwnRingOnly`, with the
  types), for any number of threads and coroutines. That a coroutine and its context
  belong to the same thread is not inductive alone: what a lookup returns has to be what
  it stored. The strengthening `LookupInv` says that without an overlap one lookup at
  most is under way, of a coroutine that has begun, and memory holds its context.
- `LibraryProofs`: `LibraryTyped` and, for each part of `MCLibrary`, what its run
  checks. Streams: `FreedOnce` (`DoubleFreeNeedsAssign`), `EnginesPaired` and `OneOwner`
  (`OwnedOnce`), from `StreamsInv`: an engine in use is whole on the heap and has one
  owner. Results: `OutcomesTold`, from `ResultInv`: a caller has what its operation's
  outcome is converted to, and a refused request is one the kernel has not seen.
  Endpoints: `Connected` (`ConnectedAsAsked`), from `EndpointInv`, which ties the
  address, the peer and the byte order of its port. Headers: `GetsAreSettled`
  (`GetIsSettled`), from `ToldInv`, which says it also of storage without an object. That
  `emplace` leaves the first entry of a name alone and that the loop of `set` reaches all
  of them are lemmas of their own (`EmplaceReads`, `AssignReads`). In `RefusalIsKnown`
  sign and kind matter: a transfer of exactly 10086 bytes has the same number as a
  refusal.

Only model-checked: liveness (`BlockRunReturns`, `CompletionDelivered`,
`RecvReturns`, `SendReturns`, `BothReturn`), which needs the fairness of the
schedulers and ENABLED, for which the installed provers have no rule. The findings are
counterexamples and need no proof.

## 6. Not modelled

- `set_sub_job` (`coro/coro_base.hpp:48`), `link_timeout`, the move constructor of an
  awaiter, `promise<T>`, `make_kkp_error` and `init_addr_from_fd`: nothing calls them.
- `send` and `recv` of the stream variant: their coroutine lambda
  (`stream.hpp:36`) captures by reference what is gone when it runs, in every call;
  there is no order of events in which it is right or wrong.
- `is_alive` and `stream_clear_left`, and `leftover_` of the TLS stream: nothing is ever
  put into it.
- What a write past the 16 bytes of an address destroys, and the address a server binds to.
- The thread pool is an external submodule and its only use is a comment.
- HTTP sessions, requests and HTTP/2 frames are declarations with empty bodies; the
  tables of `http_def.hpp` are names and texts, a tenth of the implementation's lines
  without any state.
- The tests are callers of the library and bound what callers do; asio and spdlog are
  not part of the program.

`PROJECT.json` lists each component with its status.
