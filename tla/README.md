# A verification of IPC_programming

The repository is a collection of C programs, each of which lets processes or
threads share data through one mechanism of Linux: pipes, FIFOs, System V and
POSIX message queues, System V and POSIX semaphores, signals, mutexes. Most
compute the same thing. Requesting clients ask for `op1 ops op2`, something
computes it, and each client is to get its result. This directory holds TLA+
models of these programs, TLC configurations that check them on small
instances, and proofs that TLAPS checks.

    tlc -workers 2 -config MCMsgqCrash.cfg MCMsgqServer     # one run
    tlapm MsgqServerProofs.tla                              # one set of proofs

The program of a run, its properties and what it shows are in `PROJECT.json`
("runs"), as are the source lines of every definition ("map"), the changes to the
model that break each property ("mutants") and the list of what can go wrong in
this code ("hazards").

## Inventory

Every program is run by hand from a terminal. Nothing is linked with anything
else. Programs meet only in the kernel: in FIFOs, queues and semaphores that
have a name or a key, and most of these outlive the program that made them.

| component | state it keeps | operations | what is hard | what makes it right |
|---|---|---|---|---|
| `threads/client_server_msgq` | two System V queues in the kernel; `client_data[]`, `thread_arr[]` in the server; one request and one result per client | client: `msgsnd`, `msgrcv` by its pid; main: `msgrcv`, copy, `pthread_create`, `pthread_join`, `free`; thread: `msgsnd` of type pid | threads answer in any order; queues fill; servers and clients are killed and queues stay; pids come again | each client gets the result of what it asked, once; nothing taken is lost |
| `threads/client_server_semaphore` | FIFO_C_S, FIFO_S_C, sem1–sem3, one global `fd_w`, `d1[]`, two flags per client | client: wait, open, four writes, post, open, suspend, read, close, suspend; main: adjust, open, four reads, close, create, join, signal; thread: wait, open, write, close, signal, post | four reads with no check of their length; a descriptor shared by threads; opens that wait; SIGPIPE; semaphores an earlier run left; killed clients | requests are whole and of one client; a thread uses its own descriptor; no `sem_post` is forgotten; clients are let go when served |
| `threads/client_server_mutex` | the same | the same with `+` only; client3 waits for no semaphore or signal, and opens FIFO_S_C before it writes | the same; client3 waits in that open while the server waits for its request | the same |
| `semaphore/parent_child1–3` | two pipes used in both directions, two or three System V semaphores | parent: fork, `semctl(SETVAL)`, read, write, `semop`, wait; child: the same | SEM_UNDO at exit, SETVAL on both sides of a fork, semaphores an earlier run left | nobody reads back what it wrote; each result is read once; the parent ends |
| `signal/client_server1` | two pipes, pending signals, `sig_flag` | write, `sigprocmask`, `sigsuspend`, read, `kill` | a signal before the wait for it; uninitialised `sa_flags`; a slow child and the next result | no wake-up is missed; who is woken finds data; the program ends |
| `semaphore/counting_semaphore2` | buffer, `fill`, `use`, `empty`, `full` | put, get | no lock: two semaphores alone | values come out in order; both threads are never at one place |
| `semaphore/counting_semaphore` | `count` and two semaphores | `get_food` by four threads | two semaphores, one inside the other | every fourth call returns 0; one thread at a time |
| `semaphore/binary_semaphore` | a counter and a semaphore | increment | – | a smaller form of the last |
| `fifo/client_server1` | twelve FIFOs with fixed names, created by the server where they are missing and never removed; `d[]` and one `res` in the server | server: create, open, read, write, close; clients: open, write or read | clients that come before their FIFO exists, and go on without; opens that wait for each other; a read at end of file that leaves `res` as it was; SIGPIPE | who gets through gets its own result; nobody waits in an open for ever |
| `pipe/pipe1–3` | two, twelve and two pipes | fork, `execl`, write, read, sleep, wait | processes kept apart by `sleep(1)` (pipe1), by separate pipes (pipe2), by nothing (pipe3, where the requesting child also runs the branch of the calculating one) | nobody reads back what it wrote; each result is read once; the program ends |
| `msgq/msgq_posix` | one priority queue with a name | three writers, three readers; main creates, joins, unlinks | a queue that a killed run left, full or in part | no message is read twice, as many are left as were found, all without old ones are read; main joins all |
| `msgq/msgq_sys5` | one queue | `process1` sends lines until "end", `process2` receives until then | nobody removes the queue, and `process2` may outlive the `start.sh` that started it | each "end" stops one reader, and nothing is left for a later run |
| `fork` (8 programs), `threads/thread_example1` | – | fork, wait, exec, create, join | nothing runs beside anything that matters | – |

The hazards of `PROJECT.json` name the lines, 40 in all. Most are of three
kinds: two actors in an order that tests do not produce; kernel objects that
outlive a run; and calls whose results (`read`, `msgsnd`, `sa_flags`) are not
looked at.

## Modules

| module | stands for |
|---|---|
| `CalcService` | what a client is promised: its request is asked, served once, delivered to it. It has no queue, thread or signal. |
| `MsgqServer` | `client_server_msgq`: `server.c`, `client1–3.c`, `data.h` |
| `SemServer` | `client_server_semaphore`, and with one operator the server and `client1`, `client2` of `client_server_mutex` |
| `Pipes` | what is read from and written to a pipe, word by word, in the programs of the next five lines |
| `ParentChild`, `ParentChild1`, `2`, `3` | what the three programs share, and each program |
| `PipeServer` | `pipe1` and `pipe2`, server and clients |
| `Pipe3` | `pipe3`, which shares most of its steps with `PipeServer` |
| `FifoServer` | `fifo/client_server1`: `server.c`, `req1–3.c`, `calc1–3.c` |
| `SignalServer` | `signal/client_server1`: `server.c` and `server2.c` |
| `BoundedBuffer`, `GetFood` | `testSemaphore3.c`, `counting_semaphore.c` |
| `ThreadedQueue` | `msgq_posix/threaded_queue.c` |
| `TextQueue` | `msgq_sys5`: `process1.c`, `process2.c` and `start.sh` of `text_data`, and of `structured_data`, which has the same code |
| `MC...` | instances for TLC: symmetry, and in `MCParentChild` and `MCBuffer` the choice of one of six and one of three programs |
| `...Proofs` | theorems. `PipesProofs` has the lemmas on words and pipes that `FifoServerProofs`, `SignalServerProofs` and `ParentChildProofs` share. `ParentChildProofs` is also about `PipeServer` and `Pipe3`, `BoundedBufferProofs` about `ThreadedQueue` and `TextQueue` |

The programs that are chosen in one run have nothing to do with each other: one
is chosen in the initial state, and the variables of the others keep one
value. They are put together because they are alike, and asked the same
questions.

**Steps.** One action is one system call or, in `BoundedBuffer` and `GetFood`,
one access to a shared variable, together with what the process does to its own
variables until the next. A call that may block is an action whose guard is that
it returns. An `open` of a FIFO, which may wait for the other side and has effect
on it while it waits, is two steps: in `FifoServer` `ends` holds who has a FIFO open
or waits in its open, and `met` the FIFOs whose two opens have found each
other, so that a process that is terminated in between still lets the other
go on. Names of variables and actions are those
of the source where it has one; the label a process has come to is a string in
`pc`, `spc`, `cpc` and so on.

**Data.** Operands, operators and results are not computed. A request is a model
value that also stands for its result (`MsgqServer`), or the name of the client
whose it is (`SemServer`, `Pipes`); this tells a right result from a wrong one,
and all the properties need no more. Where a program may read half of something,
the parts are there: `SemServer` keeps FIFO_C_S byte by byte, four `int` or
`char` fields per request, and `Pipes` keeps pipes word by word.

**Kernel.** What the calls do is modelled from their manual pages as the code
depends on it: `msgrcv` by type, FIFOs with SIGPIPE and end of file (`SemServer`,
`FifoServer`), SEM_UNDO, SETVAL and `semop` of two operations (`ParentChild`), pending
and blocked signals (`SignalServer`). Queues are bounded by QCap messages in place
of bytes.

**Time.** `pipe1` keeps its processes apart with `sleep(1)` and `sleep(3)`.
`PipeServer` counts these seconds in `left`, and a second passes (`Tick`) only when no
process is `Busy`, which says guard by guard who has anything to do: that processes
are faster than the sleeps is what the program relies on, and the model assumes it.
The one exception is the read of a requesting client after its sleep, which may come
at any later time.

**Undefined behaviour.** `act.sa_flags` is never set in the programs with
signals: in `SignalServer` it holds SA_RESETHAND or does not, and in `SemServer`
a call that a signal interrupts goes on or fails, as SA_RESTART decides.
A request with a garbage operator leaves `thread_arr[i]` unset, and joining it
either fails or ends the server (`JoinUnset`).

## Runs

| run | instance | states | shows |
|---|---|---|---|
| `msgq_crash` | 3 pids, 2 requests, 2 threads, queues of 2, every pid with bit 04000, 3 sessions, 1 server and 1 client killed | 28 652 | a result is the client's own; no request is in two places; the server implements `CalcService` |
| `msgq_live` | the same with queues of 1, no kills, 2 sessions, 1 pid reused | 3 904 | nothing is lost; what is taken is answered from a block of its own |
| `msgq_stale` | 2 pids, one killed and reused | violation | finding 1 |
| `sem_server` | 3 clients (symmetric), 3 threads, one client killed, semaphores left at 0, 1 or 2 | 380 382 | fields are read whole, semaphores are held, descriptors owned, whatever was left and whoever is killed; whom SIGPIPE may end; main joins every thread; nobody is left waiting, unless a signal has ended somebody or a client comes when the server has gone |
| `sem_cut` | 2 clients, none killed | violation | finding 3 |
| `sem_mixup` | 2 clients, none killed | violation | finding 2 |
| `parent_child` | each of six programs, N = 3 | 31 695 | directions of pipes are kept apart; each result is read once; a program ends, or has lost what it waits for |
| `pipe3` | pipe3 | violation | finding 4 |
| `fifo` | N = 3, 0, 3, 5 or 12 FIFOs left over, one process terminated | 118 861 | who gets through gets its own result; who may be ended by SIGPIPE; all end unless a client came too early |
| `signal` | `server.c`, and `server2.c` with N = 3; both values of `sa_flags` | 21 680 | no signal is missed, who wakes finds data, results are read once |
| `buffer` | buffer: 3 places, 10 values; `threaded_queue`: 3 writers and readers, 6 places, 0 to 6 old messages of any mixture of priorities; `msgq_sys5`: 2 sessions, 2 lines each, 1 process terminated | 112 020 | values are printed in order; no message is read twice, and as many stay as were there; each end stops one reader; all are joined |
| `food` | 4 threads, 2 calls each | 219 417 | every fourth call returns 0 |

**Bounds.** `NUM_REQ_CLIENT`, `MAX`, `loops`, the threads and places of `food`, and
`MAX_THREAD` of `threaded_queue` (3) are those of the source, and three children are
also what the servers with pipes fork. `MAX_MSG` of `threaded_queue` is 10 there and 6
here: mixtures of three priorities among old messages grow as 3^n, and six places are
twice the readers, so that the queue is found full, with fewer free places than there
are writers, and with more or fewer old messages than there are readers. In the runs
of the two servers with threads, whose `MAX_THREAD` is 5, it is 2 or 3, and in those
of `SemServer` as many clients come as the server takes. Three threads are the fewest
of which one has started before a request that is garbage, and one after it, so that
`pthread_join` meets an entry that is not set. Three clients are one who is served,
one who is answered meanwhile and one who waits; two requests tell a right result from
a wrong one. Two threads of the message queue server are the fewest that overtake each
other, and queues of one and two messages, the fewest that are full and that hold two
in the wrong order. Queues of thousands of bytes would not be full in an instance of
this size. One crash, one kill and one reuse are in every state in which they can be;
the three sessions let a server start over what two others have left. The FIFOs that
exist at the start of `fifo` are none (a first run), the three that the first loop
makes, those and two that the second makes for the first client (its `my_co` and
`my_cr`, but no `my_rr`), or all (every later run): an earlier run creates them in
this order and may be ended anywhere. Two sessions of `msgq_sys5` are a reader that is
left and one that comes later; a queue of two messages is full and has a line before
an end. Two calls of `get_food` per thread make eight, two rounds of four. The
theorems below are for all values.

**Deadlock** is not checked: a terminal state is the normal end of a program, or
a wait that never ends. That programs get to the first, and when they come to
the second instead, is checked as liveness.

**Fairness** is weak fairness of each process or thread, which the scheduler of the
kernel provides: whoever can go on from some time does so. Nothing is assumed about
starting a server or a client, about kills, or about who of several is let into a
semaphore first. In `fifo` each client is started some time, in `buffer` the user of
`msgq_sys5` goes on to enter lines, at last "end", and starts `start.sh` again, and in
`pipe1` time goes on. `msgq_crash` and `sem_server` check safety alone.

**Liveness that fails.** Where a program may hang, the property says how. `EndsOrLost`
of `parent_child`: each program ends or reaches `Lost`, which its module defines: in
program 1 and 3 a calculating child exits, and SEM_UNDO takes back the increment the
parent waits for, or requesting children have lowered the semaphore the parent is to
decrement; in program 2 also the late SETVAL (line 151 against the comment at 167),
which erases the increment when the child comes late; in `pipe3`, `Right`: the parent
has the right result, and waits for a child for which there is nothing to read.
`EndOrMissed` of `fifo`: all end, unless a process was terminated or a client came to
a FIFO that was not there yet. `AllJoined` of `buffer` excludes sessions in which a
process of `msgq_sys5` was terminated, because its partner then waits. `AllEnd` of
`signal` needs `sa_flags` without SA_RESETHAND, which only `server2.c` depends on.
`AllEndOrLost` of `sem_server`: whenever nobody can go on, all have ended, or `Lost`
of `SemServer` holds: the server or a client has been ended by a signal, or a client
opens FIFO_S_C when its thread was let through by another reader and the server has
returned since. It is an invariant, so that clients can be interchanged (symmetry),
and says what a liveness property under fairness would: no client and no thread
repeats a step, so a run in which whoever can go on does so comes to such a state. It
is of as many clients as `MAX_THREAD`: the server waits for that many requests before
it sends SIGUSR2 to anybody, so a client that is alone gets its result and stays in
its second `sigsuspend` until others come, which is what `server.c:10-18` describes.

## Findings

1. `msgq_stale`: `threads/client_server_msgq/data.h:11-13` says the pid is there so
   that the result is sent to the intended process. What a killed client has asked
   stays where it is, as a request, with a thread or as a result, and is answered by
   pid (`server.c:132`), so to whoever has that pid by then. In the run's trace the
   client is killed before the server starts, and its request is answered to its
   successor, whose own request comes second.
2. `sem_mixup`: the same sentence in `client_server_semaphore/data.h:11-14`. Results
   carry no pid, and a client reads the first in the FIFO (`client1.c:105`).
3. `sem_cut`: `client_server_semaphore/server.c:16-18` says that the semaphores give
   atomic access to data. A client posts sem1 when it has written its request, not
   when the server has read it; so the next may open FIFO_C_S while the server still
   reads, write its pid, and be ended by SIGPIPE, because the server closes the FIFO
   after every request (line 143). The first client keeps FIFO_C_S open, so the pid
   stays. The server opens the FIFO again, reads the pid for the next request, and
   waits for the rest of it for ever, while the dead client has sem1.
4. `pipe3`: `pipe/pipe3/server.c:67` says that the parent waits for its children to be
   terminated. The requesting child breaks out of the first loop only (line 49), and
   in the second its `ret_pid` is still 0 (line 54): it computes as well. Two
   processes read the operands of one request; who comes second waits in `read`, and
   the parent, which has printed the right result, in `wait`. `RightNeverEnds` is the
   other half: it never both prints that result and ends. It ends only with a wrong
   one, for instance when it has read a word of the operands itself.

Some behaviours nothing in the repository contradicts. The children of `server2.c` may
take each other's results, for which reason `EachOnce` says that each result is read
once and not by whom. With several clients SIGPIPE can end the server of
`client_server_semaphore`: the reader that lets a thread's open return
(`server.c:238`) may be another client that already has its result and closes before
the write (244). It can end a client that opened FIFO_C_S while the server was still
reading another's request and then closed (finding 3 when it had begun to write), and
a signal meant for one client can find it in an `open`, which fails with EINTR.
`BrokenByOthers` says that nothing else ends them if no client is killed, so never a
client that is alone. `fifo/client_server1` passes the last result on again when a
calculating client is terminated before it has written its own (`server.c:72`);
`OwnOrKilled` says that nothing else gives a client a wrong one.

## Proofs

All theorems are for every value of the constants that the modules' `ASSUME`s allow,
in particular any number of clients, threads, requests, places and values. Every
safety invariant and every action property of a run that passes is the property of a
theorem, except `AllEndOrLost` of `SemServer`, which is defined by ENABLED. Those
about the programs that share a run are theorems of that run's `MCSpec`, so of all of
them: what `MCSpec` adds is that the variables of a program that is not chosen stay as
they are.

`MsgqServerProofs`:

* `TypeCorrect` needs that a running thread has a block.
* `OwnResult`, `OwnBlock` and `AtMostOnce` are not inductive: the result a client
  receives is right because the message in the queue is, and that because the block
  was, and that because the request in the queue was. `IInv` says of all three
  places that what is there is what the client asked, that no pid is in two of them,
  and that clients who have not asked or are done are in none. `ResultIsOwn`,
  `BlockIsOwn`, `NeverTwice` and the refinement `Implements` (every step is a step
  of `CalcService` or a stutter under the mapping `Phase`) follow. They assume
  `MaxKills = 0 \/ MaxReuse = 0`: no client is killed, or no pid comes again.
  Finding 1 is what happens without.
* `RequestsAreKept` assumes neither. `ThreadsInOrder`: main starts and joins threads
  in the order of their slots, so none that runs is overwritten. `Kept`: the request
  of a client that waits is in the first queue, with a thread that runs, or in the
  second queue.

`SemServerProofs`:

* `TypeCorrect` needs that the slot that is read is not full and that a client that
  writes has not written all fields.
* `OneRequestAtATime` rests on `ReqInv`: after the adjustment sem1 is 0 or 1 and is 0
  whenever a client is between wait and post; a killed client leaves it at 0.
  `OwnDescriptor` rests on `ReplyInv`, the same of sem2, and that the one thread in
  the section holds FIFO_S_C open and is the last that set `fd_w`.
* `NoPostForgotten`, by `HeldInv`: when one of these semaphores is 0, somebody is in
  its section or has died there; main starts threads only in slots that are free.
* `LetGoWhenServed`, by `ReleaseInv`: a client that has been signalled the second time
  has a slot with its request, whose thread main has joined.
* `ResultOnlyOnce`, by `ResultInv`: a first operand is read into one slot only, and
  the result of a slot is in one place.
* `NeverMixed`, by `RecordInv`: each field that the server reads is there and of the
  right client; that all four come is not said, and not so (finding 3). Unless a
  client is killed the bytes in FIFO_C_S are those of requests in the order in which
  they were written, from the byte the server has come to; so each field it reads is
  there and begins where it should.
* `AllThreadsJoined`, by `JoinInv`: while no client is killed every request has a
  known operator, so while main takes requests each slot before the present one has a
  thread and `thread_count` counts them.
* `OnlyOthersBreak`, by `SentInv`: what is in FIFO_C_S or a slot was written by its
  client; `MetInv`: a thread that is past its open has met a client that is still
  there or has come to its end, and where a client is about to write with no reader,
  or is dead, another has written its whole request; `ToldInv`: a client is told of
  its result by its own thread alone. `BrokenInv` puts these together.

`BoundedBufferProofs`:

* `InOrder` and `NoClash` need an account of where both threads are: the semaphores
  count values put and got (`Counted`), their difference is the distance of the
  indices around the buffer (`Apart`), and every value that has been put and not got
  is at its place (`Held`).
* `QueuesDelivered`, of `threaded_queue.c` with any old messages of any priorities: none is
  delivered twice, and as many are left as were found. Main has created and joined each thread
  at most once (`StageInv`), a message whose writer has sent it is in one place
  (`PlaceInv`), and messages in the queue and readers that are done add up to old
  messages and writers that are done (`LengthInv`).
* The same theorem, of `msgq_sys5`: when no `process1` is to write any more, the
  last line in the queue is an end (`LastInv`), and readers that listen or were
  killed are as many as ends in the queue and writers that write or were killed.
  That a receive takes one end away (`EndsInTail`) is a bijection between positions.

`GetFoodProofs`:

* `TypeCorrect` needs that a thread in a call has calls left (`CallsInv`), and that
  `count_sema` and the number of threads in a call add up to Places (`PlacesInv`).
* `EveryFourth` needs that count is the number of calls modulo Limit + 1 (`InStep`),
  and that what a thread has tested and loaded is still so (`Tested`), because one
  thread at a time is in the section (`Exclusive`).

`FifoServerProofs`:

* `TypeCorrect`, by `TypeInv`: which process can be at which call of which kind of
  FIFO, and that a FIFO is empty or holds one whole message.
* `BrokenOnlyByKill`, by `OpenInv`: who has a FIFO open at each call, and whose
  opens have met (`SideInv`); when they have, the reader stays until the writer has
  written, unless it was terminated (`PairInv`).
* `OwnUnlessKilled`, by `ChainInv`: where the words of a request and its result are
  at each call of the client that asks, the server, and the client that calculates.

`SignalServerProofs`:

* `MessagesWhole`: the two pipes hold what the state of both sides says (`PipeInv`):
  results that are in the pipe are those from `Low + 1` to `Top`, of which each up to
  `Low` has been read by one child.
* `NobodyReadsInVain`, by `CountInv`: in every state the results in the pipe are as
  many as the children that have been woken and have not read, and one more when the
  parent has written and is about to signal. `Unsummoned` and `Summoned` say that a
  child that is to be woken has the signal pending or its flag set, in every order of
  signal, mask and wait.
* `ReadOnce`, by these and `DoneInv`: when the parent has waited for a child, that
  child has read.

`ParentChildProofs`:

* Three programs, with one invariant and one lemma (`Steps`) that splits their
  steps. `AskInv`: no requesting child gets past its semaphore while the parent
  still reads requests, although both sides set it after the fork. `CalcInv` and
  `ParentInv`: what the second pipe holds while the parent sends each request to a
  calculating child, with `Top` and `Low` as above in `TakeInv`. `SemInv`: the
  semaphore of the result stays closed until the child of this round opens it, and
  SEM_UNDO opens it for nobody. `TypeCorrect`, `MessagesWhole` and `ReadOnce`
  follow.
* `ResultsDelivered`, of pipe1 and pipe2, by `Pipe12Inv`. In pipe1 the parent does
  not wait for anybody: that a result is there when it comes back from its sleep
  rests on `Tick` not happening while a process is `Busy`.
* `NeverRightAndOver`, of pipe3, by `Pipe3Inv`, which has a case for each way in
  which two children read the operands of one request: nobody has, one has read and
  computes, one has answered, the other has taken that answer for an operand, the
  parent has printed the right result and a child still reads, or the result is
  wrong. In none has the parent the right result and no child left to wait for.

**Only model-checked** are the properties that say that something happens, or that
nobody waits for ever: `TakenIsAnswered`, `AllEndOrLost`, `EndsOrLost`, `AllEnd`,
`AllJoined`, `AllJoin` and `EndOrMissed`, and the findings. All but the findings are
defined by ENABLED, most through fairness, and the prover does not reason about that.

## Not modelled

* Values: arithmetic on operands, `printf`, parsing of arguments, wording.
* Errors of calls that the programs answer with `exit` before anything is shared
  (`fork`, `ftok`, `msgget`, `pipe` failing).
* sem3 of `client_server_semaphore`: adjusted and never used. Clients that start
  before the server: `server.c:24-28` forbids it.
* `client3.c` of `client_server_mutex`, which is left from an earlier protocol, is not
  started by `run_script`, and opens FIFO_S_C for reading before it has written its
  request. Alone it waits for ever; beside others it goes on when a result is written
  for one of them.
* An `execl` that fails in `pipe1` and `pipe2`: the clients are built by the Makefile
  that builds the server.
* `binary_semaphore` (a part of what `GetFood` is), `fork` and `thread_example1`, in
  which nothing runs beside anything that matters.
* parent_child1 and parent_child3 at once, which share a semaphore key.

## Plan

Done, in order of what matters: the message queue server and its specification,
the FIFO server with semaphores, the parent_child programs, both signal
servers, the programs with POSIX semaphores, the FIFO server of
`fifo/client_server1`, the pipe programs, the programs with one queue; theorems on
all of them, for every safety property that a run checks but `AllEndOrLost`.

Left:

1. `client3.c` of `client_server_mutex`, as a second kind of client of `SemServer`.
2. parent_child1 and parent_child3 at once, with the semaphore key they share.
3. A promise like `CalcService` for the programs with pipes, and the proof that
   they keep it.
