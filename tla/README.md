# Verification of chaos-common-serial

TLA+ models of the serial channel (`core/`) and of the OCEM protocol
schedulers (`models/Ocem/`), TLC runs that check them on small instances, and
TLAPS proofs for every value of the constants.  `PROJECT.json` lists
components, runs, mutants (a plausible bug for every property), the source
lines of every definition, the hazards and the theorems.

## 1. The system

| component | state | operations | talks to |
|---|---|---|---|
| **PosixSerialComm, receiving half** (`core/PosixSerialComm.cpp`) | a ring `read_buffer`, `w_/r_read_buffer_ptr`, `read_full`, `read_mutex`, two conditions | `run_read` (thread), `read`, `read_async`, `byte_available_read`, `flush_read` | tty, clients |
| **PosixSerialComm, sending half** (only with `POSIX_WRITE_BUFFERING`) | the same for `write_buffer` | `run_write` (thread), `write`, `write_async`, `byte_available_write`, `flush_write` | tty, clients |
| **PosixSerialComm, lifecycle** | `fd`, threads, `force_exit` | `init`, `deinit`, destructor | the threads above, their clients |
| **C wrapper** (`posixserialcomm_cwrap.cpp`) | `id2handle[100]` | `popen_serial`, `pclose_serial`, `pread_serial`..., `LVread_serial`... | PosixSerialComm, LabVIEW |
| **OcemProtocol** (`OcemProtocol.cpp`) | the channel, which protocols on one device share, and `chanmutex` | `init`, `deinit`; `select`, `poll`: ENQ, ACK, STX..ETX, EOT with a slave | channel, slaves |
| **OcemProtocolScheduleCFQ** | per slave two queues `OcemData`, pauses, retry counts; `slave_queue`, `run` | `select`, `poll`, `runSchedule` (thread); `registerSlave`..., `start`, `stop`, `init`, `deinit` | OcemProtocol |
| **OcemProtocolBuffered** | the older scheduler: same queues, no retries | the same | OcemProtocol |
| LabVIEW VIs, test programs, build files | - | - | C wrapper |

Bold parts are modelled.  A client of a scheduler pushes a command with
`select` and takes answers with `poll`; the schedule thread carries out
`OcemProtocol::select` and `OcemProtocol::poll` on the one line; those write to
and read from the channel, whose threads move bytes between rings and tty.

What is hard:

* *Interleaving.* Every module has a thread of its own besides its clients.
  Locks cover short sections: `read` looks at the ring, unlocks, locks and
  sleeps; `write` does the same without the second look; the CFQ `select` and
  `poll` make several calls on a queue, each with its own lock.
* *Wakeups.* A condition may be signalled before the wait, or end without a
  signal, and several waits are written `if (...) wait` and not `while`.
* *Boundaries.* Equal ring pointers mean empty or full; copies are made in two
  pieces at the end of the buffer.
* *Failure.* `::write` takes part of what it is given; a slave obeys a command
  and its acknowledgement is lost; a timeout races an answer.
* *Lifecycle.* Buffers and queues are freed while threads may use them.

What makes each component correct: the two halves are bounded FIFO byte streams
in which nobody sleeps on data or room; commands of a slave are carried out in
order, a bounded number of times, never after being given up, and each one
settles; answers are neither lost nor doubled; no call waits for ever except on
an idle line.  Of the lives: a handle that is given out, or a protocol that is
ready, has a working channel under it; nothing stays open or running that nobody
owns; one schedule thread at a time, none that works on what was deleted; and
`stop` and `deinit` return.

## 2. The modules

**ByteStream** is what one direction of the channel promises: `Put` adds bytes
within the capacity, `Get` hands over the oldest in order, `Drop` discards all.
A byte is its number in the stream, so loss, repetition and reordering show.

**ReadBuffer** is the receiving half.  A step is what the code does between
taking `read_mutex` and the next unlock or condition wait; the one access
outside the lock (`read_full` in `byte_available_read`) is a step of its own.
`thread` is where `run_read` is: in `select`, waiting on `read_full_cond`, or
`woken` and about to go on.  `pc` and `call` are a client's place in its call and
its locals.  `FillRing` is the tail of `run_read`'s loop, `EmptyRing` the body of
`read_async_atomic`, `AfterAtomic` the two loops around it (`read_async`, `read`).
`wptr`, `rptr` are the code's `w_read_buffer_ptr`, `r_read_buffer_ptr`.
`arrived`, `taken` and `head` count bytes and exist for the properties.  Time is
not modelled: a timed wait may end at any moment, and `Spurious` says whose
waits may end without a signal.

**WriteBuffer** is the sending half in the same style.  The thread's branches on
equal, wrapped and plain pointers are `Pending` (what the first `::write` offers)
and `GoesOn` (whether a second follows); both `::write`s may take less or fail.

**ScheduleCFQ** is the CFQ scheduler while its thread runs and its slaves stay
registered.  Each access to an `OcemData` queue is one step, since each takes and
releases the queue's lock.  `wpause`, `rpause` stand for `must_wait_to` being in
the future, and a command is its number with
its text and its `retry`.  A transaction on the line shows as its outcome:
`SelectAcked`, `SelectFailed` (whether or not the slave obeyed), `PollAnswered`,
`PollCrcFailed`, `PollFailed`.  Notes on fidelity:

* The `RMT` that every fourth failure sends besides, and `nsuccessive_busy`, which counts for it, are
  left out: its outcome is not looked at.
* The thread visits slaves in any order: the comparators read sizes that clients
  change while `std::sort` runs.
* `back` and `front` return references that are read outside the lock.  Reading one
  of a queue that is empty is undefined, and so is reading one that another thread pops
  meanwhile: the comparison in `SelectLooksBack` may go either way when the queue is empty
  or the thread has its one command on the line, and `PollFront` may yield `Garbage`
  when the queue is empty or another poll of the slave is about to pop.  That the
  program may crash instead is not modelled.
* `crossed` marks the slaves on which one `poll` passed its second look at the queue while
  another was between that look and its pop (`Taking`).  From then on anything may become of an answer: both
  take the same one, and the second pop discards what the thread queued in between, which nobody has seen.
* `wait_timeo` without a timeout calls `pthread_cond_wait` without the mutex held,
  which is undefined; it is taken for a wait that a signal ends.
* A `PollAnswered` whose answer is not `good` is the NAK of finding 3.

**CommandQueue** is what either scheduler promises of the commands for a slave:
accepted in order, only the first is tried, it leaves with success or when given up,
after `Tries` failures at most.  A failure may have been obeyed.

**ScheduleBuffered** is the older scheduler.  Its `select` and `poll` are those of
`ScheduleCFQ` line by line, so it extends that module and replaces what differs:
`front` and `back` copy under the lock (`SelectComparesLast`, `PollCopiesFront`), the
thread pops a command before it sends it (`TakeCommand`, with `sending` the popped
one), and there are no pauses, retries or counts.

**Schedules** is a scheduler of either class, chosen at the start as the program
chooses by the constructor it calls.  Of the CFQ class it has the polling clients
only; the commands are `MCScheduleCFQ`'s.

**OcemLink** is `OcemProtocol::select` and `poll`: one master, some slaves, and the
two directions of the line as queues of tokens (a character; an address, a text
or a checksum; a whole command).  `pc` is the `read` the master is in, so each
action is what the code does from one read's return to the next read: `Enquire`
is the flush and the ENQ, `Selected` and `Commanded` are the two uses of `waitAck` in
`select`, `Drain` its loop over an unexpected message, `Polled`, `ReadText`,
`ReadCrc`, `Confirmed` the reads of `poll`, and each has its timeout.  `frame` is `poll`'s
`tmpbuf` without ETX and the checksum; `filled` is how many bytes of `tmpbuf` are written, those two included;
`log` is what each call returned.  `Judge` is the end of `poll`, with
`check_and_extract` behind `Matches` and `build_cmd` behind `Command`.  Writes are
those of the build without `POSIX_WRITE_BUFFERING`: whole, or an error.

* Slaves and line are external.  A slave answers an enquiry with any of the
  characters the code tests for, carries out a command only when selected, keeps
  its answer until it gets ACK, and may stay silent at any time.
* `faults` counts tokens of the slaves lost or damaged, and writes that failed (a
  token lost on its way to a slave is a silence of the slave); `lates` counts
  timeouts that fire while something still comes, and flushes before ENQ that
  miss bytes still on their way.  The flushes within a call may miss bytes at no
  cost: the call ends right after a read, when more may well be coming.
* A damaged character becomes one that is no control character.  The checksum finds every
  damage but that of a character's top bit, which is left out, except when it is
  missing: the read that times out returns 0, the code tests for `< 0`, and the
  comparison is with whatever `tmpbuf` held (`MissCrc`).
* `read` never returns a negative number, so the branches for it are left out.
* The loop that reads a message stops when `tmpbuf` is full (`Full`), but the read of the checksum does not look:
  with ETX in the last byte of the array the checksum goes one past it (`ReadCrc`, line 192).  The run does that
  with every whole message, since `MAX_ANSWER_SIZE` is 3; in the code only a message of exactly
  `max_answer_size` characters does.  The byte is taken to be read back unchanged; what else the write may
  overwrite is not modelled.

**OcemFraming** is `build_cmd` and `check_and_extract` on bytes.  `RoundTrip` relates the two,
which compute the checksum by different formulas; `DamageNoticed` says which damage to one byte
is found: all, but the top bit of a character, because the top bit of the checksum is set and
not computed.  Both are the assumption of `MCOcemLink`, so its runs evaluate them.

**ChannelLife** is `init`, `deinit` and the destructor of a `PosixSerialComm`, step by step
(`OpenDevice`, `Configure`, `CreateThread`; `CloseDevice`, `FreeRings`, `WakeService`,
`JoinService`), with each service thread reduced to where it is between the test of
`force_exit`, its work, its test of the ring and its sleep.  Three modules use it:

* **HandleTable**, the C wrapper.  A `popen_serial` of a number in use deletes the
  old channel first, a `pclose_serial` calls `deinit` and then the destructor, which
  calls it again; each look at `id2handle` is a step.  `raced` marks the calls that
  overlap an open or close of their handle.  Channels are memory: `Pool` is reused.
* **SharedChannel**, the protocols that the factory gave one channel: `LastUser` is
  `use_count() <= 2`.  One task (`Master`) creates, inits, deinits and destroys them.
* **ChannelUsers** puts both over the same channels and states the properties.

**SchedulerLife** is what the lives of the schedulers share; **CFQLife** and
**BufferedLife** add the operations of each, **Schedulers** is either of them with the
properties.  The controlling task makes calls in any order; a `worker` is a schedule
thread, from `pthread_create` (`created`) to its end, and there may be several.
`dangling` names the calls that deleted queues a thread still points to; `lost` are
threads whose `start` gave up on them, or that a second `start` of the Buffered
class hid; `overtaken` says that a thread set `run` after the present `stop` cleared it.
A Buffered thread at `endless` is in a `select` whose command came with the timeout 0 (`Waits`); the CFQ
thread never is, since it passes 10 s whatever the client asked for.
Notes on fidelity:

* `pthread_create` reports failure with a positive number and the code tests for a
  negative one, so a failure leaves no thread and no sign of it (`Create`,
  `CreateThread`).
* The pthread id of a thread never created is whatever was in memory: a join of it may
  end or not.  `OcemProtocolBuffered` leaves `run` unset as well.
* Unlocking a mutex another thread holds (`runSchedule`'s last lines) is undefined; it
  is taken to release it, as the default mutex does.
* `unRegisterAll` goes on from an erased element: it may end early (`Deinited`) or find the
  next slave.

**Deadline** is the arithmetic of `wait_timeo`, **CFQOrder** the two comparators; they have
theorems, in **ArithmeticProofs**, and no runs.

The `MC` modules give the constants values.  The theorems about any other module are in the one whose name adds
`Proofs`.  A definition whose comment begins "Mutant
of" is a plausible bug that no specification uses; replacing the definition it
names by it must break the property `PROJECT.json` pairs it with.

## 3. The runs

| run | instance | properties | what it shows |
|---|---|---|---|
| `read_one` | 1 client, ring 3, requests to 4, 7 bytes, all calls | `TypeOK` `RingInv` `NoSleepOnData` `CountedBytesStay` `ImplementsStream` `ReadProgress` `TimedReadReturns` | the receiving half is a byte stream; a blocked read is woken even if `flush_read` left the thread waiting for room; what `byte_available_read` counted can be read |
| `read_two` | 2 clients, ring 2, requests to 3, 5 bytes, clients wake spuriously | `ShortReadTimedOut` | shared by two clients, a read is short only on a timeout (for any number of clients this is proved, and that the ring stays whole) |
| `write_two` | 2 clients, ring 2, requests to 3, 4 bytes (plus what a concurrent call adds), no flush | `RingInv` `ShortWriteTimedOut` `ImplementsStream` `AcceptedIsSent` `TimedWriteReturns` | the sending half is a byte stream; what the ring took is sent, its client stuck or gone |
| `write_flush` | 1 client, ring 3, all calls, everybody wakes spuriously | `TypeOK` `NoSleepOnData` | what is left under `flush_write`: pointers in range, and the thread never sleeps on data |
| `write_lostwakeup` | 1 client, `write` without timeout | `WriteReturns` **violated** | finding 1 |
| `write_stale` | 1 client, `write_async` and `flush_write` | `EqualMeansFull` **violated** | finding 2 |
| `cfq_commands` | 1 slave, 2 clients of `select`, 3 commands, one kind retried and one not, queue limit 1, fair | `TypeOK` `WriteQueueBound` `ExecutedInOrder` `RetriesBounded` `ImplementsCommandQueue` `SelectReturns` `CommandsSettle` | racing clients exceed the limit by at most one each; retries keep order, are bounded, and end for good (the abstract command queue); `select` returns; every command is done or given up |
| `scheduler_answers` | either class; 1 slave, 2 clients of `poll`, 2 or 3 answers; Buffered: 1 client of `select`, 2 commands | `AnswersInOrder` `KeptUnlessCrossed` `KeepsPromise` | answers come in order, and each reaches exactly one client until two polls of one slave cross, whatever is queued in between; only then is one doubled, lost or replaced by garbage; the Buffered scheduler is the command queue with one try |
| `link_line` | 2 slaves, 3 calls, 2 answers each, 1 mishap: a fault or a late answer | `TypeOK` `CommandOutcome` `AnswersAccounted` `UndamagedText` `EveryCallEnds` | a `select` that succeeds was carried out once, one that was refused never; a `poll` hands out what the slave counts as delivered and reports what it missed; texts are whole and of the slave polled; every call returns |
| `link_nak` | 2 slaves, 2 calls, a sound line | `PollCountsCharacters` **violated** | finding 3 |
| `channel_life` | 2 tasks that open, reopen and close a handle each, both in the memory of one channel, and use both; 2 protocols on another channel; every failure of `init` | `HandlesServed` `CallsSafe` `NothingLeaks` `ReadyIsServed` `CloseReturns` | a handle given out has a channel of its own that works, and so has a call nobody closes under and a ready protocol, whatever the others do and whichever step of `init` failed, but for a thread that `pthread_create` did not make, which they lack (section 4); no device or thread is left behind; `deinit` returns unless a thread missed the broadcast |
| `scheduler_life` | either class; 2 slaves, up to 2 schedule threads alive | `TypeOK` `OneThread` `StartedRuns` `QueuesOutlive` `StopReturns` | one thread at work and the one `stop` joins; a started scheduler runs; only `unRegisterSlave` of the CFQ class leaves a thread with deleted queues; `stop` returns but for three cases: a thread that sets `run` late, one that sends a command without a timeout, and one that waits for the mutex `stop`'s caller holds |

*Bounds.* Rings of 2 and 3 with requests one longer and at least twice as many
bytes reach every pointer position, empty and full rings at each, wraps, copies in two
pieces, a request served in several, and a thread waiting for room.  Two clients
give every pairwise race; a third adds no new kind of step.  In `ScheduleCFQ` a
client enters `select` only while `MaxCommands` leaves room, and answers stop after
`MaxAnswers` (one in `cfq_commands`, which lets the next command go without a pause): three commands and a limit of 1 fill the queue and leave one client
waiting.  Slaves share only the schedule thread, so one
is enough for properties that are all of one slave.  In `scheduler_answers` the Buffered class has
two commands (one queued while one is on its way) and the CFQ class none, since their number
multiplies the states and no step of `poll` looks at them.  In `OcemLink` two slaves let an
answer of one meet the poll of the other; three calls let a byte left by the
first shift the answers of the second onto the third, which is what the flush
before ENQ prevents (its mutant needs all three); `MaxMishaps` of 1 is as far as
`UndamagedText` goes: a damaged text whose checksum is lost or late as well gets through.  `CommandOutcome` and `AnswersAccounted` are promised
only while nothing is late: the protocol does not number its messages, so an
answer that outlives its transaction answers for the next one.

In `channel_life` the halves are those the build files give, the reading one only
(`POSIX_WRITE_BUFFERING` is not defined there; the model allows both).  Two handles in one channel's
memory make a reopened handle, or the other one, get the memory just deleted while the table still names it,
which is what "a channel of its own" is about; that two handles are open at once is left to the theorems.  One task closes
while the other is inside a call; each handle is opened and closed by one
task: the table has no lock, so two that open one number promise nothing.  In `scheduler_life` two slaves
make the difference between the last one and another, and two threads between
the one `rpid` names and one it does not; a third alive is not created (`Workers`).

The MC configurations turn deadlock checking off for the two rings (the line may stop, a client may wait for
ever on it), for `OcemLink` (the calls run out), for `channel_life` (all that is left may be a `deinit` whose
join does not end) and for `scheduler_life` (a `stop` under the mutex the thread waits for), and leave it on
for the queues of the schedulers, whose thread never stops.

*Fairness.* `WF` of each thread's steps and of a client inside a call: the
kernel schedules them.  `WF` of `ThreadFills` and `ThreadWrites`: a tty that `select`
calls ready gives or takes a byte sooner or later.  `WF` of the timeouts: the clock advances.
`WF` of the whole CFQ schedule thread: every transaction ends, as it gives its reads and
writes timeouts of its own (10 s and 1 s).  In `OcemLink` `WF` of the
master inside a call (a read ends with a byte or by its timeout, which is not 0) and
of the slaves' dealing with what they hear, silence included.  In `ChannelUsers` `WF` of the service
threads, but of the writing one's `select`, which has no timeout (`Stuck`), and of a task inside `init` or `deinit`; in `Schedulers`
of the schedule threads and of the calls under way (transactions with a timeout and sleeps end), but of no join
of a thread that was never created, and of no Buffered thread at `endless`: `OcemProtocolBuffered.cpp:43` passes on the client's
timeout, and `OcemProtocolBuffered.h:102` documents 0 as an indefinite wait.
Never assumed: that bytes arrive, that a client calls
again, that a wait ends without a signal, that a slave succeeds, that anybody stops or closes.

## 4. Findings

1. *A blocked `write` may never return* (`PosixSerialComm.cpp:748`,
   `write_lostwakeup`).  `write` finds the ring full, releases the lock, takes it again
   and waits without looking.  In between the thread may have sent everything,
   signalled `write_full_cond` and gone to sleep on `write_cond`.
2. *A flush can send old bytes* (`PosixSerialComm.cpp:195`, `write_stale`).  After
   its wait `run_write` takes equal pointers for a full ring.  If `flush_write` came
   between the signal and the thread's return, the ring is empty and the whole
   buffer goes out.
3. *A NAK is returned as a length* (`OcemProtocol.cpp:247`, `link_nak`).  `waitAck`
   lets NAK through, `poll` does not test for it and returns it: 21, with nothing in
   the buffer.  `OcemProtocol.h:90` promises the number of characters or a negative
   error.  The schedule threads queue 21 characters of an earlier answer.

Seen while modelling, kept as hazards and not as runs:

* `run_read` waits with `if (read_full)`: a wakeup without a signal reads over
  bytes nobody took.  `RingInv` and `ImplementsStream` are checked and proved under
  the proviso that the thread wakes only when signalled, and fail without it.
* `byte_available_read` reports 0 if the ring fills between its test and its lock.
* A command given up by the scheduler is not reported: `select` has returned its length.
* A read of the checksum that times out is not noticed (`OcemProtocol.cpp:192`).
* `boost::mutex::scoped_lock(chanmutex);` declares a lock named `chanmutex` that
  locks nothing: two threads in a bare `OcemProtocol` mix their transactions.
* An answer whose checksum failed is queued, and returned by `poll`, with a
  positive length.
* `wait_timeo` computes `tv_nsec` above 999999999 for about half of the starting
  moments of a wait of 500 ms; the wait then fails at once and counts as a timeout (`Deadline`).
* `init` tests `pthread_create(...) < 0`, but that reports an error with a positive number: `init` returns 0
  without the thread, and `popen_serial` gives out the handle, although `posixserialcomm_cwrap.h:17` says "a serial
  handle on success ..., negative otherwise" and `PosixSerialComm.cpp:402-414` means to return an error.  A read
  without a timeout then never returns.  `HandleMeansSuccess` states the header's claim, which is false of the code; the properties of `channel_life`
  except the lacking thread (`Uncreated`), and theorem `HandlesMeanSuccess` shows that it is all they have to except.
* Two clients that poll one slave at once may get one answer both and lose another that nobody has seen: `poll` looks (line 374), copies the
  front and pops in three steps (`crossed`).
* The checksum of an answer that fills `tmpbuf` to the last byte is stored one past it (`OcemProtocol.cpp:142,181,192`).
* Buffered `stop` (line 327), and whoever calls it, never returns while the thread sends a command with timeout 0 to a silent slave.
* The writing thread's `select` (`PosixSerialComm.cpp:170`) has no timeout: `deinit` joins it without end
  when the tty takes no more bytes.
* `deinit` broadcasts without the mutex: a service thread between its test and its wait
  misses it and is joined for ever, unless a client's call wakes it (`missed`).
* `init` leaves the device open when the speed is not supported; the next `init` then returns 0
  with no rings and no thread (`leftOpen`).
* CFQ `unRegisterSlave` of the last slave calls `stop` with `mutex_slaves` held; if the thread is
  about to take it, both wait for ever.  When the thread ends it unlocks that mutex, which it does not hold.
* CFQ `unRegisterSlave` deletes queues the thread is working with.
* CFQ `start` returns -1 after ten seconds, but the thread it created may run later, and
  the next `start` makes a second one.
* Buffered `stop` clears `run` before a thread just created sets it: the join never ends.
  Its `start` does not look whether a thread runs, its `stop` joins one that may have been
  joined before or never created.  `unRegisterSlave` starts a scheduler that was stopped.
* `algo_sort_read` compares the write queues, like `algo_sort_write`, the other way round.
* The checksum of an answer does not see the top bit of its characters.

## 5. The proofs

Each theorem is of every value of the constants that the named assumptions of its module allow; the
runs evaluate those assumptions.  The bounds of the runs (bytes, commands, answers) stay parameters, so
the theorems hold whatever they are.

| module | theorem | states | under |
|---|---|---|---|
| `ReadBufferProofs` | `TypeCorrect`, `ReadsComplete` | `[]TypeOK`, `[]ShortReadTimedOut` | - |
| | `RingCorrect`, `ImplementsByteStream` | `[]RingInv`; the half implements `ByteStream` (`in <- taken`, `out <- head`, `chunk <- copied`, `Capacity <- Size`) | the thread wakes only when signalled |
| | `NoLostWakeup` | `[]NoSleepOnData` | one client |
| | `CountIsPromise` | `[]CountedBytesStay` | both |
| `WriteBufferProofs` | `TypeCorrect`, `WritesComplete`, `NoLostWakeup` | `[]TypeOK`, `[]ShortWriteTimedOut`, `[]NoSleepOnData` | - |
| | `RingCorrect`, `ImplementsByteStream` | `[]RingInv`; the half implements `ByteStream` | no flush, the thread wakes only when signalled |
| `ScheduleCFQProofs` | `TypeCorrect`, `OrderKept`, `RetriesLimited`, `QueueLimited` | `[]TypeOK`, `[]ExecutedInOrder`, `[]RetriesBounded`, `[]WriteQueueBound` | - |
| | `KeepsCommandQueue` | the scheduler implements `CommandQueue` | - |
| `SchedulesProofs` | `AnswersOrdered`, `CFQAnswersOrdered` | `[]AnswersInOrder` of either class, and of the CFQ class with its commands | - |
| | `AnswersNotLost`, `CFQAnswersNotLost` | `[]KeptUnlessCrossed`, likewise | - |
| | `BufferedKeepsCommandQueue` | the Buffered class implements `CommandQueue` with one try | - |
| `ChannelUsersProofs` | `HandlesNameChannels`, `CallsOnLiveChannels`, `DevicesOwned`, `ReadyProtocolsServed` | `[]HandlesServed`, `[]CallsSafe`, `[]NothingLeaks`, `[]ReadyIsServed`, from `UsersInvariant` | - |
| | `HandlesMeanSuccess` | `[]HandleMeansSuccess`: every handle has all its threads | `pthread_create` does not fail |
| `SchedulersProofs` | `OneThreadAlive`, `StartedStays`, `QueuesSafe`, `TypeCorrect` | `[]OneThread`, `[]StartedRuns`, `[]QueuesOutlive`, `[]TypeOK`, from `LifeInvariant` | - |
| `OcemLinkProofs` | `TypeCorrect`, `CommandsAgree`, `AnswersAgree`, `TextsAgree` | `[]TypeOK`, `[]CommandOutcome`, `[]AnswersAccounted`, `[]UndamagedText` | - |
| `ArithmeticProofs` | `DeadlineExact`, `RefusedSometimes` | the deadline of `wait_timeo` is the right moment; it is refused at some moment of every second unless the timeout is of whole seconds | - |
| | `WriteOrderSorts`, `ReadOrderSorts`, `ReadOrderReversed` | the comparators are strict weak orders on queues at rest, one the reverse of the other | - |

With these every safety property the passing runs check, invariants and refinements, is a theorem.
The provisos in the last column are the code's: section 4 says what happens without them (a thread that
wakes unsignalled reads over bytes; a flush makes an empty ring pass for a full one).  `NoSleepOnData` and
`CountedBytesStay` of the receiving half are promises to a client alone on its channel, since another client's read may
take what was counted, or be the one the only signal wakes.  The sending half needs no such proviso: its one
sleeper on data is the thread.

### The arguments

*Receiving half.*  `TypeOK` is not inductive: that `tot + ret` stays below `nb` keeps the
request `nb - tot - ret` of `ReadAsyncAtomic` a natural number.  `Typed == TypeOK /\
CallInv` adds it.  `RingInv` is inductive relative to `Typed`; its last conjunct
(`thread = "woken" => ~read_full`) is what makes `FillRing`, which does not look at
`read_full`, safe: `SignalReadFull` is only reached with `read_full` reset, and
only the thread sets it.  `FillKeepsRing` and `EmptyKeepsRing` carry the contents
(slot of the k-th byte) through the two ring operations, case by case on wrapped
or not; every other action leaves the ring alone or resets an empty one.
`StreamStep` maps `ThreadFills` to `Put`, `ReadAsyncAtomic` to `Get`, `FlushRead` to
`Drop`, the rest to stutters.  `ReadsInv` adds, for each place in a call, what the loops around
`read_async_atomic` know there; `ShortReadTimedOut` follows at the return.  For `CountIsPromise` no
step of the thread makes the ring's count fall, which takes `RingInv`: a thread that read into a full ring would.

*Sending half.*  The same layout.  `Typed` holds `ShortWriteTimedOut` too, because the loop's locals are typed only while
it does.  What carries `NoLostWakeup` is that the thread enters its sleep from an empty ring with the
lock held, and every step that adds bytes signals.  Its `RingInv` contains
`thread = "woken" => Count > 0`, which makes equal pointers after the wait mean a full ring; a flush or an unsignalled
wakeup breaks just that, and `Orderly` excludes both.

*Commands of the CFQ scheduler.*  `TypeOK` needs `BusyInv`: while a command is under way its queue is not
empty, since nobody but the thread pops.  `CommandInv` is the heart: the queue holds the
last numbers pushed, in order, without gap (`Numbered`); all but the first are untried; what was carried out
is sorted and not beyond the first of the queue, which was carried out no more often than it failed (`InTurn`).
`ExecutedInOrder` and `RetriesBounded` follow; `KeepsCommandQueue` maps the
queue to its numbers and the retry count to `CommandQueue`'s failures, `SelectAcked` and `SelectFailed` to its tries.
`QueueLimited` counts: a queue plus the clients between their look at its size and their push (`Pushers`)
stays within the limit plus the number of clients less one (`RoomInv`): a client joins the pushers only on a size
below the limit, or after the thread found such a size and signalled.

*Answers.*  `AnswerNext` abstracts the steps of either scheduler to what they do to a read queue, so that one
invariant serves both: `AnswerInv` says the queue is what is left of the answers in order, what each client
has been handed is increasing and popped, and the answer a client has copied and not yet popped is
later than all it was handed (`HoldsNext`).  That is where a second client makes the difference: the copy may be of an
answer somebody else pops, or of nothing (`Garbage`).
`KeptUnlessCrossed` looks every answer that left a queue up in the clients' hands (`Places`).  `KeptInv` adds that on a slave
whose polls have not crossed at most one client is between its second look and its pop, that the queue is not empty
meanwhile, since nobody else pops it and the thread adds at the end, and that what the client has copied is the front (`Undisturbed`).
So its pop takes away just the answer it hands out, which was in no hand yet because it was still queued.

*Buffered commands.*  `SendTyped` says that the popped command (`sending`) is there exactly while the thread is
on the line; with it `UnsettledBar`, the queue behind the popped command, refines `CommandQueue`.

*Channels, handles and protocols.*  None of the properties is inductive alone.  `UsersInv` adds
where each task can be and what its call is (`Place`); that two tasks never are inside `init` or `deinit` of one channel
(`Alone`); what a handle that no one is closing names (`Named`); for each phase of `init` and
`deinit` what is open, allocated and running (`PhaseOK`, `ThreadsOK`); that whatever
is open has an owner (`Owned`), and that protocols that are ready have a channel initialised and in no one's `deinit`
(`Readiness`).  The steps are proved in two groups, those of `ChannelLife` and those of its two users.
`HandlesMeanSuccess` needs one thing more, that only `CreateThread` makes a half `failed` (`NoneFails`).
The attempt corrected a property: `HandlesServed` used to say that no two handles ever name one channel, and its step failed at `Forget`.  A
channel is deleted before the table is told (`posixserialcomm_cwrap.cpp:69,102`), so another task's
`popen_serial` may get the memory in between; TLC shows it when two tasks open.  The property now speaks of
handles that nobody is opening or closing, which is what their callers rely on.

*Lives of the schedulers.*  `LifeInv` is one invariant per class (`CFQInv`, `BufferedInv`): which of the controlling task's
places imply which values of `run`, `rpid` and `initialized`, that every thread alive that is not `lost` is `rpid`'s
(`ThreadKnown`), when none of them is left (`AllLost`), and in which calls queues can be deleted under a thread
that is not lost.

*Transactions.*  `OcemLink` has many ways to end a call and few things to say of them, so `StepCases` first
sorts its steps into nine kinds (a call begins, ends with or without a text, a read leads to the next one, the
message is acknowledged) besides the slaves' and the line's; the invariants are proved over these.  `Typed` adds to `TypeOK` which call a
read belongs to, what may be on its way to the slaves, and how many bytes of `tmpbuf` are written at each read
(`Stored`): as many as `frame` has, and one more, the ETX, where the checksum is read.  So `TypeOK`'s bound on `filled`, one
past the array, is reached by nothing but that read.

The two invariants of an exchange are promised while `lates = 0` and rest on
`LinkInv`: for each read the master is in, what the line can hold (`LineInv`: the enquiry that was sent, one
character, or what is left of one message, `Rest(k)`, of which only the next token can be damaged) and
what `frame` holds of that message (`FrameInv`: address and text, each perhaps lost or damaged).  That is
the flush before ENQ at work, and one late byte breaks it.  `CommandInv` then says that no command of a later call
has been carried out, and this one only in `cmdAck` after the slave heard it, with the answer on the line saying
which; `OutcomeStep` reads the outcome off it.  For the answers, `Accounted(s)` must count the one that the
slave has counted and `poll` not yet handed out (`Pending`), which exists just between ACK and the slave's
EOT: the place where a lost or late EOT leaves an `Unconfirmed` poll.

`UndamagedText` needs two arguments, as its antecedent has two sides.  On a sound line (`SoundInv`) nothing is assumed of what the line
holds, late answers of anybody included: only that every token of `up` is undamaged and every STX in it
is followed by the address, text and ETX of one answer (`Clean`), which a read or flush, taking from the front, and a slave, adding
whole messages at the end, both preserve; so what `poll` reads from STX to ETX is one answer whole, and the address
says whose.  With one fault and nothing late (`DamageInv`) every damage is counted: a damaged token in `frame` is one
fault, and the checksum would have to be lost or damaged as well, which is a second, before a damaged
text is acknowledged.

### Model-checked only

* Liveness, which is out of the provers' reach here: `ReadProgress`, `TimedReadReturns`, `AcceptedIsSent`,
  `TimedWriteReturns`, `SelectReturns`, `CommandsSettle`, `EveryCallEnds`, `CloseReturns`, `StopReturns`.
* What `OcemFraming` computes (`RoundTrip`, `DamageNoticed`): sums over texts, so induction over data.
* The three properties the code violates, section 4.

`TypeOK` of `ChannelUsers`, on the other hand, is only proved (part of `UsersInvariant`).

## 6. The plan

Done: the modules, runs and proofs above.

To model next, if it can be kept small: an abstract specification of a transaction (a command carried out before its
`select` succeeds, an answer handed out once) that `OcemLink` implements and whose
outcomes `ScheduleCFQ` chooses from, which the theorems of `OcemLinkProofs` would carry; clients of a
scheduler that is started and stopped under them.

## 7. Not modelled

* Two masters on one line: `chanmutex` is never locked, so `OcemLink` could promise nothing of them.
* Two tasks that control one scheduler, or open and close one handle: nothing in the code orders them.
* Clients inside a scheduler's `select` or `poll` while it is stopped, a slave unregistered or the object deinited, and
  their calls before `start`, which go to the line directly: the queues are modelled while the thread runs.
* In `Schedulers`: calls before `init` (but `deinit` of the Buffered class), the count `slaves` (returned,
  and used for nothing else), and what `OcemProtocol::init` returned, which the schedulers ignore.
* Memory a racing call touches after it was freed: the call is marked (`raced`, `dangling`), what it
  then does is anything.
* `decodeBuf`, which prints; messages, statistics, error counters, real time, null pointers.
* `AbstractChannel`, `ChannelFactory` and the debug library are not in this
  repository.  The LabVIEW VIs are binary.  The test programs have no logic of their own.
