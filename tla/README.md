# A TLA+ model of sflang

sflang is a scripting language: a Rust crate (`sflang/`) with a parser, a bytecode
compiler, a stack VM and a large builtin library, a command line and GUI host
(`sf/`), and a browser build (`sflang-wasm/`). What makes it hard is its own
concurrency: `run f()` starts a task on an M:N scheduler, every blocking builtin
is taken off the worker it runs on, and locks, channels, semaphores, wait groups
and `once` serve two kinds of callers at the same time, tasks (which park) and
operating-system threads (which block on a condition variable). That part is modelled
and proved about; the VM's control flow with its compiler, the parser of expressions
and the stateful parts of the builtin library are modelled beside it.

Paths below are relative to `sflang/src/` unless they start with another directory.

## 1. Inventory

### The concurrent core

| component | state | operations | what makes it correct |
|---|---|---|---|
| **scheduler** (`scheduler.rs`) | per task: an atomic state, the VM behind a lock, a slot for a pending value and one for a pending error; globally: the ready queue, the timer heap, a condition variable | `spawn_task`, `wake_task`, `wake_task_with[_result]`, `park_current_task_retry/inject`, `schedule_timer`, `worker_loop`, `run_task_slice_once`, `fire_due_timers` | a task is run by one worker at a time; a runnable task is in the queue or on its way there; a parked task is known to whoever wakes it; the answer to a park is given to that park; a finished task stays finished; runnable tasks and expired sleepers get a worker |
| **blocking pool** (`scheduler.rs`, `vm.rs` `start_call`) | job queue, pool threads, the answer slot of each task | offload, take a job, run it, wake the task with the result or the error | a call is in one place at a time and is answered once, for itself |
| **mutex, rwmutex, semaphore, channel, waitGroup, once** (`concurrency.rs`) | an atomic or a counter behind a lock, a queue of parked tasks, a condition variable | `lock/tryLock/unlock`, `rlock/wlock/runlock/wunlock`, `semAcquire/semRelease`, `chanSend/chanRecv/chanTryRecv`, `wgAdd/wgDone/wgWait`, `onceDo` | exclusion; conservation of permits and values; order; nobody waits for what is already there; every waiter is served |
| **poolRun** (`concurrency.rs`) | one atomic counter, a slot per item, the worker threads | take an item, call back, fill the slot, join | each item is handed out once, its result lands at its index |
| **runAsync** (`builtins_async.rs`, `builtins_gui.rs`) | background threads, one global result queue, one of session events | start, publish, poll, drain in the event loop | no result lost or taken twice, a session's output in order |

These interact through few calls. A builtin that has to wait registers the task with
its object, calls `park_current_task_*` (state BLOCKED) and returns a park signal;
the VM ends its slice and the worker's `run_task_slice_once` puts the task down. The
object's next operation takes the task from its queue and calls `wake_task*`, which
moves BLOCKED to READY with one compare-and-swap and pushes the task. The waker
may do all of that before the slice has ended. A *retry* park repeats the builtin
when the task runs again; an *inject* park leaves a placeholder on the operand stack
that the woken slice replaces by the value received.

### The language

| component | state | operations | what makes it correct |
|---|---|---|---|
| **VM, control flow** (`vm.rs`) | frames with try entries (Body, Catch, Finally), deferred calls, a pending return/throw/jump, the operand stack, the pause flag | instructions, calls, unwinding, slices by fuel | `finally` and `defer` run exactly once and in order on every way out, and a slice boundary changes nothing |
| **VM, data instructions** (`vm.rs`, `value.rs`) | operand stack, globals, cells | arithmetic, indexing, comparison | overflow and coercion rules |
| **compiler** (`compiler.rs`) | scopes, captured cells, loop and try depth | AST to instructions | jumps that leave try statements run what they must; a name is compiled to the variable it stands for |
| **lexer, parser** (`lexer.rs`, `parser.rs`) | a position, the activations of the recursive descent | text to tree | expressions are grouped by the table of operators |
| **objects and containers** (`value.rs`, `ord_map.rs`, `object_map.rs`, `ring.rs`, `builtins_containers.rs`, `builtins_seq.rs`) | values behind locks | lookup, prototype chain, insertion, eviction | order and capacity, lock order |

### The library

| component | state | what makes it correct |
|---|---|---|
| **HTTP server** (`builtins_http.rs`) | `running` and `stop`, the accept loops, connections, the registry of handlers, the globals a handler reads | a stop ends every loop; the registry names what runs; a handler reads its own request |
| **HTTP client, sessions** (`http_lite.rs`, `http_session.rs`) | attempts, global counters, the file a body goes to, the cookie jar | bounded retries, exact counters, the answer returned is the one saved; cookies go where they belong |
| **TCP, proxy, port forwarding** (`builtins_tcp.rs`, `builtins_proxy.rs`) | listening loops, a thread per connection, the two directions of a pipe, the lock of a connection | a stop ends the loop; nothing passes without the handler's yes; bytes arrive; calls return |
| **encrypted connections** (`encconn.rs`, `txde.rs`) | buffers, the keys' offsets | what is read is what was written |
| **configuration** (`builtins_cfg.rs`) | the file, a copy of it in each process | a setting that was saved is in the file |
| **child processes** (`builtins_proc.rs`) | `running`, `exit_code`, the child behind a mutex | one exit code; calls return once the child has ended |
| **S3 upload** (`builtins_s3.rs`) | the parts sent | true means the whole object; a failed upload is given up |
| **console** (`console_writer.rs`) | the line buffer of stdout | texts are shown whole |
| **big integers, calendar** (`bigint.rs`, `datetime.rs`) | none | they agree with the integers and with the calendar |

The other parts (SQL engine, cryptography, data formats, files, images, services,
embedding API, hosts) turn one value into another or are pure input and output;
`PROJECT.json` "components" gives the reason for each. The parts of the library share
nothing but the scripts that call them, so they meet in one run without interacting.

### What is hard to test here

`PROJECT.json` "hazards" lists each with its line. The families are:

* a wake-up that overtakes the end of the slice it answers (`scheduler.rs` 433),
  stale queue entries (339), an answer seen too late or by another park (375, 528);
* two kinds of waiters on one object: a release that looks at one kind strands the
  other (`concurrency.rs` 641, 714, 1026);
* look and register: between the look at the state and the registration with the
  waker the state may change (`concurrency.rs` 503, 948);
* callbacks that panic or err half-way (1114, 1291; `scheduler.rs` 612), parks
  that are refused half-way (819), parks that are not refused (`scheduler.rs` 637);
* leaving nested `try` statements by `return`, `throw`, `break` and `continue`,
  with `finally` blocks that do the same (`vm.rs`);
* state shared by the requests of a server or the threads of a connection, and a stop
  that arrives between two steps (`builtins_http.rs` 1327, 2187, `builtins_tcp.rs` 380, 862);
* a step that fails, is lost or is interrupted in the middle of a longer operation
  (`builtins_cfg.rs` 176, `builtins_s3.rs` 1828, `http_lite.rs` 1004).

## 2. Modules

### How they fit together

```
TaskLifecycle <--implements-- Scheduler <-- Scheduler_proofs
                                  ^ what the primitives need of a task: parked, woken once

AbstractLock <--implements-- Mutex
Callers <-- Mutex, RWMutex, Semaphore, Channel, WaitGroup, Once ;  PoolRun ;  BlockingPool
                  \______________________ Concurrency (all eight) _____________________/
Channel_proofs -- cited by --> Concurrency_proofs (which proves the other seven)

Syntax <-- Compiler --\
Syntax <-- Semantics --+-- MCVM (programs) -- VM <-- VM_proofs

AsyncResults, HttpServer, TcpServer, Pipe, TcpConn, EncryptedConn, Process, CookieJar,
HttpRetry, Config, S3Upload, BigInt, Calendar, Parser, Scopes, Console
                  \______________________ Library (all sixteen) _______________________/
Library_proofs (AsyncResults, HttpServer, Process, CookieJar, HttpRetry, Config, S3Upload,
                TcpServer, Pipe, TcpConn, EncryptedConn, Console)
BigInt_proofs, Scopes_proofs -- cited by --> Algorithms_proofs (which proves Calendar and
                Parser, and builds on Library_proofs for the types of all parts)
```

`MCVM` and `MCLibrary` give those constants their values that a configuration cannot
write down; the scheduler and the objects need none and name their symmetry sets
themselves (`Sym`). The other runs name a component's module directly. Operators
called `Bug...` are variants of the definition that follows them with one plausible
mistake; the mutants of `PROJECT.json` put them in its place and a property must then
fail.

### The scheduler

**Scheduler** follows `scheduler.rs` at the grain of its atomic steps: one action for
each critical section of the global `inner` lock, each operation on the atomic
`state`, each critical section of a task's `vm` and of its pending slots. Variables
keep the names of the fields (`state`, `ready`, `timers`, `inner`, `inj` and `err` for
`pending_injection` and `pending_error`); `wpc` and `wk` are program counters, of the
worker loop and of a wake-up, a spawn or a re-queue that any thread may have half
done. What the program does inside a slice is free: any sequence of spawning, waking
and parking, ended by a yield, a park, a return or a panic. The primitives' queues are
one set, `waiting`, of tasks registered with somebody who will wake them; parks are
numbered, so that an answer can be told from an answer to another park. The callback
that waits although it must not is in `SpecWithCallbacks` only.

**TaskLifecycle** is what the scheduler promises: no workers and no queue, a task
that is runnable, running, parked or over, and an answer that belongs to its park.
`Scheduler!ImplementsLifecycle` is the refinement mapping.

### The blocking objects

One module each. A caller is a task (parks) or an OS thread (waits on the condition
variable); every object serves both at once. A critical section is an action; what
happens after the lock is let go (waking, notifying) is a step of its own where the
code does it after letting go, and part of the same action where the code does it
before.

| module | code | what is particular |
|---|---|---|
| `Semaphore` | `SemaphoreT` | releases wake one task and one thread, after the lock; a woken caller looks again |
| `Mutex` | `MutexT` | `unlock` hands a held lock to the first task; a free lock only notifies threads; refines `AbstractLock` |
| `Channel` | `Channel` | a send bypasses the queue when a receiver task is parked; values are numbered in the order of their sends |
| `RWMutex` | `RWMutexT` | `admit` decides for tasks who goes next; `notify_all` for threads; `SpecWithCallbacks` adds the `wlock` that is refused |
| `WaitGroup` | `WaitGroupT` | zero wakes everybody; an addition out of range is refused |
| `Once` | `OnceT` | the callback may return, throw, call `onceDo` again or panic |
| `PoolRun` | `bi_pool_run` | atomic index, slots, joins in turn, panics |
| `BlockingPool` | `BlockingPool`, `VM::start_call` | a call is parked, queued, run and answered; a job may panic |
| `Concurrency` | all of them | a behaviour picks one of the eight objects in `Init`; the properties are stated over all |

### Programs

**Syntax** is the part of `ast.rs` that control flow needs. **Compiler** emits for it
what `compiler.rs` emits, an instruction per address, with jump targets computed as
in the code. A `switch` keeps its value in a variable, or, at the top level of a program or
a module, where there are none, on the operand stack under its cases
(`SwitchStart`, `SwitchEnd`), so that what stands in them finds one operand more. **VM** runs the instructions as `execute_frames` does: `ctl` is the place
in its loop, `frames`, `stack`, `depth`, `pause` and `pending_throw` are the fields of
`VM`, and `native` stands for the Rust stack, on which a builtin that calls back and an
import start an `execute_frames` of their own. In a task the outermost run may stop at
every instruction (fuel), and a builtin may park it. Operands are a few named values,
builtins the seven kinds that differ in control flow (returns, throws, waits for a
value, waits and is repeated, blocks and returns, blocks and errs, calls back); what is
called back is a function or an error, not another builtin.

**Semantics** is the reference: what a program means, by recursion on its text,
without frames, instructions or slices. It is written from what the comments of
`compiler.rs` and `vm.rs` say about `finally` and `defer`; where they say nothing it
follows the code: deferred calls are made at the depth of the function's caller
(`vm.rs` 1584, the depth is given back before they run), those of a function that a
builtin calls back at its own depth.

**Scopes** is the compiler's other half: scopes with numbered slots, one compiler for
each function on a copy of the scopes around it, captured variables carried back when
the function is complete. A behaviour is the walk over one program, chosen as it goes;
the rule of the language (the innermost variable of that name) runs beside it.

**Parser** is the recursive descent over expressions as the stack of its activations;
tokens are chosen as they are read, and what is built is compared with a table of
levels and sides.

### The library

| module | code | what is particular |
|---|---|---|
| `AsyncResults` | `builtins_async.rs`, the event loop of `builtins_gui.rs` | whoever locks the queue takes all of it; showing a result may fail half-way through a batch |
| `HttpServer` | `serverStart` to `execute_handler` in `builtins_http.rs` | two flags looked at and set in steps of their own; handlers share the globals |
| `TcpServer` | `tcpListen`, `portForward`, `proxyListen` | SOCKS5 and HTTP hand-shakes, the access handler, what reaches the target |
| `Pipe` | `pipe_connections` | two copying threads, the first to end shuts both sockets down; peers half-close or go away |
| `TcpConn` | `tcpRead`, `tcpWrite`, `tcpClose`, `tcpSetTimeout` | one lock for a plain connection, one for each direction of an encrypted one; a write takes it twice, the second time for the flush |
| `EncryptedConn` | `encconn.rs`, `txde.rs` | bytes modulo `Base`; frames cut anywhere, read timeouts in the middle of one |
| `Process` | `procWait`, `procKill`, `procIsRunning`, `procExitCode` | a flag looked at outside the mutex, a wait inside it; `procKill` looks, kills and waits in three steps, between which the child may end by itself |
| `CookieJar` | `http_session.rs` | domains, paths, expiry, requests of one session that overlap |
| `HttpRetry` | `http_request_with_retry`, `HTTP_STATS` | requests and answers get lost; a reset of the counters may overlap a request |
| `Config` | `builtins_cfg.rs` | several processes, a write in two steps, stops in between |
| `S3Upload` | `s3UploadBigFile` | each request may be refused or lost, its answer too; the file may be cut off |
| `BigInt`, `Calendar` | `bigint.rs`, `datetime.rs` | the arithmetic as operators, beside the integers and a walk through the calendar |
| `Console` | `ConsoleWriter` and `println` | the line buffer takes what it likes; `write` reports all |
| `Library` | all of them, with `Parser` and `Scopes` | a behaviour picks one of the sixteen parts in `Init` |

Sockets, the network, servers and clients at the other end, child processes, the file
system's interruptions and the libraries between them (`ureq`, the standard library's
line buffer) are external: modelled by what the code can see of them, and marked so in the map.

## 3. Runs

| run | instance | distinct states | shows |
|---|---|---|---|
| `Scheduler_safety` | 2 tasks, 2 workers, 1 other thread, 2 parks a task, symmetry | 722,000 | one worker to a task (`OneOwner`); a READY task is in the queue or on the way into it (`ReadyIsReachable`); a BLOCKED task is known to a waker (`BlockedIsAwaited`); the answer reaches the park it is for (`AnswerDelivered`, `NoStaleAnswer`); implements `TaskLifecycle`, so that a finished task stays finished |
| `Scheduler_progress` | 2 tasks, 1 worker, 1 park | 25,000 | a runnable task runs although another yields for ever; sleepers are woken although nothing notifies the worker |
| `Scheduler_callback_wait` | 1 task | finding | a slice of a BLOCKED task goes on |
| `Concurrency_safety` | 3 tasks, 2 threads, symmetry | 64,000 | one owner, readers or a writer, permits conserved, each value, item and result exactly once and in order, nobody stranded, lock refinement |
| `Concurrency_live` | 2 tasks, 2 threads | 42,000 | tasks are served, threads make progress, callers return |
| `RWMutex_refused` | 2 tasks, 1 thread | finding | `writer_waiting` counts a writer that was refused |
| `VM_programs` | 2520 + 720 + 2 x 1296 programs | 671,000 | compiled and run, each program shows what it means, in every slicing; depth, try entries and operand stack agree with the code being run; the compiler's code passes the verifier (`CodeIsVerified`); no deadlock |
| `VM_waiting_module` | 1 program | finding | a wait at a module's top level is taken for the module's end |
| `VM_switch_return` | 1 program | finding | a module that returns from a top-level switch leaves an operand behind |
| `Library_parts` | sixteen parts | 146,000 | `ResultsOnce` (runAsync), `HandlersAreKept` (HTTP server), `BytesArrive` (proxy, pipe, encrypted connection, console), `NamesAreFound` (scopes), `ClientBooksAreRight` (cookies of requests that overlap, counters that two threads keep), `AnswersAreTrue` (configuration, upload, process), `AlgorithmsAgree` (big integers, calendar, parser), `EndsWhenStopped` (loops, pipes and calls end) |
| `Scopes_captures` | 4 functions, 2 names | finding | a capture is taken for another variable |
| `HttpServer_context` | 2 connections, 1 request each | finding | a handler reads another request |

A run that checks a composite chooses the object or part in its initial states, so each
behaviour explores one and the state counts add up instead of multiplying (`About` names
the parts a run of `Library` chooses from; the theorems hold for any choice). A combined property
is an implication from the chosen part: it never holds because of another part.

### Findings

* `park_current_task_retry` refuses nothing, so `wgWait`, `semAcquire` and `onceDo`
  in a callback block the task and go on with its slice (`scheduler.rs` 637; 659 says such
  calls are refused).
* A `wlock` refused in a callback or a deferred call leaves `writer_waiting` one too
  high, and readers then wait for a writer that does not exist (`concurrency.rs` 819).
* A module imported by a task that waits at its top level: `VM::run` takes the Yield for
  the module's end (`vm.rs` 562-577), the code after the import is never run.
* A switch at the top level of a program or module keeps its value on the operand stack
  (`compiler.rs` 781-786, 853-855), and a return in it takes nothing off (`vm.rs` 557-577,
  1621-1622): a module that returns so leaves the value on the stack of the function that
  imports it, where that function's caller takes it for an argument of the call it is
  about to make (`vm.rs` 1485 says an import keeps the stack balanced, `compiler.rs` 767 that
  the value is in a variable, because that is safer with return).
* A function that uses an outer variable and contains another function that uses it too:
  the inner one's capture points past the list of the outer one, or at its next entry
  (`compiler.rs` 1453; 1447 says the indices stay right).
* Handlers share `requestG`, `responseG`, `inputG` and `paraMapG`: of two requests at a
  time one reads the other's (`builtins_http.rs` 2187; 28 says that requests are naturally
  parallel).

Smaller disagreements between the code and what is written about it, seen while modelling
and without a run of their own:

* **Scheduler and objects.** A wake-up before the slice has ended pushes the task, and the
  end of the slice pushes it again (`scheduler.rs` 436; 505 says the compare-and-swap
  prevents it): harmless, the second checkout fails, as `OneOwner` shows.
  `fire_due_timers` (168) pushes without notifying, though 125 documents the condition
  variable as the notification of changes to the queue. A job that panics in the blocking pool leaves its task
  parked for ever; the comment at 608 counts on a timeout that does not exist (`dropped`
  in `BlockingPool`). `chanRecv` never returns when all senders are gone
  (`concurrency.rs` 472, 516): nothing counts senders. `admit` lets reader tasks pass a waiting
  writer thread again and again (717; 703 says writers do not starve), so
  `Concurrency_live` promises threads progress for the mutex, not for the read-write
  lock's writers. A `poolRun` callback that panics leaves its slot empty (1339 says each
  slot is written exactly once). `run builtin(...)` is executed by the spawner before the
  task exists.
* **Compiler and values.** `crossed as u8` (`compiler.rs` 175) wraps when a jump leaves
  more than 255 try statements. `contains`, `indexOf`, `strJoin` and `sort`, and `==` on a
  StringBuilder, compare under a held lock, against the rule at `value.rs` 15-17. `sort`'s
  comparison is not transitive for Int mixed with Float beyond 2^53. The check for
  cycles in `get_proto` cannot be reached. `ring.get` takes any negative index for the tail, the doc
  only -1. `add_date` into a year outside 1..9999 returns the date unchanged.
* **Servers and connections.** `serverStart` twice at a time may leave `running` false
  beside a running loop. An admin kill answers `killed: true` and the handler goes on. The default port is
  80 (`builtins_http.rs` 1223; 48 says 8080). A plain proxy request gets one line break
  too many before its body (`builtins_proxy.rs` 559-566), so a POST's body is two bytes off.
  A close between two encrypted frames is an error where `tcpRead` documents `undefined`;
  a write of no bytes reads as the end; one beyond 65535 bytes truncates its length
  field (`cut` in `EncryptedConn`). The listener of `run_cli_listener` never stops.
* **Clients, processes, files.** `http_request_with_retry` retries every error, also one
  of its own (the doc at `http_lite.rs` 961 names network errors, 5xx and 429). An error in a
  progress callback of `getWeb` skips the cookies of the answer; after a redirect they are
  filed under the host that was asked. `s3UploadBigFile` answers `true` for a file that
  was cut off while it was read (`builtins_s3.rs` 1828) and does not give up an upload whose completion
  is refused (1884). The second process that saves the configuration drops what the first
  has changed, and a save that is interrupted all there was: no document promises otherwise, and
  `ConfigSurvives` speaks of the threads of one process only. `procKill` needs the mutex that `procWait` holds until the child exits, so it waits
  for the end it should bring about (`builtins_proc.rs` 324; 122 says it ends the child by
  force). `procRead` stops at an invalid UTF-8 byte; `procWait` may return -1 or
  `undefined` when another call has reaped the child. A child that ends by itself after
  `procKill` has looked gets the exit code -1, which a caller that waits for the mutex then
  replaces by the child's own (`builtins_proc.rs` 325-333; 129 says that a kill of a process that has
  ended does nothing). `ConsoleWriter::write` reports all bytes as
  written although stdout's line buffer may take fewer (`console_writer.rs` 39; the comment at
  37 says they are output): after a line break, a tail as long as the buffer is lost.

Where a module states a property around such a case, the exception is a history variable
named for it (`mixed` in `HttpRetry`, `calm` in `Config`, `shrunk` and `excused` in
`S3Upload`, `cut` and `empty` in `EncryptedConn`, `repeated` in `Scopes`, `early` and
`overtaken` in `Process`), set by the step that takes the program there and nowhere else.

### Bounds and why they are enough

* `Tasks`, `Workers`, `Threads`: two workers are the least at which a slice's end, a
  wake-up and a checkout race on one task; two tasks the least at which one wakes the
  other. The run for progress has one worker and one park a task: that an expired sleeper is
  found by one of several idle workers is not exercised there. In `Concurrency` three tasks and two threads make queues of two behind a holder
  of either kind. The theorems of section 4 hold for every number.
* `MaxParks` (2): an answer may belong to the park before. One park suffices for progress.
* `Permits` 2: a release between two holders. `MaxSends` 4 (3): more values than
  receivers and than senders. `MaxCount` 3, `MaxAdds` 3 (2): reaches the limit and zero
  more than once. `Items` 4, `Workers` 2: each thread takes several items. `MaxCalls` 2
  (1): an answer to an earlier call. The smaller numbers are those of the liveness run.
* `MaxDepth` 3: three levels of calls and the error at the fourth. `MaxWaits` 2: a call is
  repeated more than once. `TryLists`, `SwitchLists` and `CallLists` in `MCVM` name every choice of which
  a program is made; a loop turns twice, so that the second turn shows what the first
  left behind. No callback waits for a permit there: `Scheduler_callback_wait` is about
  what comes of that. None returns from a top-level switch: `VM_switch_return` does.
* `Library_parts`: two connections, users, processes, threads, HTTP clients and background
  calls, the least that can overlap; one session of output and one call of `serverStart`
  (`MaxStarts`): overlapping starts are not exercised. Two
  requests to a connection (`MaxRequests`) and two writes (`MaxWrites`): what the first
  leaves to the second. Three calls on a child process: two that overlap and one that finds
  what they left. Two keys and two values of a setting.
  A pipe's `Buffer` of one byte is full after one write, so every
  write can block. `ByteValues` 3 with a password whose sum is 0 modulo 3 makes every key and
  every carry of a byte occur; with 3 values a length has two digits, and no write is longer
  than they say, so `cut` stays false here. `Chunk` 2 is less than a frame. Three parts of an upload have a
  first, a middle and a last one. `LimbBase` 3 with two limbs makes carries and borrows over
  limbs and quotient limbs of every value; `MaxMagnitude` 100 is beyond two limbs.
  `Epochs` are the ends of centuries with and without a leap day, the Unix epoch and the
  beginning of an era of 400 years, with 5 years' walk each way, which has a leap year.
  Ten `TokenKinds` have one operator for each way an activation ends (left and right
  grouping, prefix, postfix, index and slice, `?:`, assignment), five tokens two operators
  around three names. One name in three nested functions with a variable shadowed in
  a block: all that can be shadowed or captured twice. `Capacity` 2 and `MaxTail` 2: a
  tail shorter than the buffer, and one as long as it.
* `Clients`: two. In the cookie jar each makes any number of requests, to two
  hosts, one in the other's domain, and two paths, so that requests of one session overlap;
  `Visits` and `Offers` choose from the possible requests and cookies those that differ in what
  the code looks at: with and without https, a cookie of the host or of the domain, one that
  replaces, one that deletes, one that expires, one that is refused. The clock ticks once
  (`MaxTime`). In the HTTP client each makes one call, one of them (`Retrying`) with a retry,
  beside one reset of the counters: two threads keep them at a time. More calls and retries
  are beyond the run's time; the theorem has any number.

`CHECK_DEADLOCK FALSE` is set in the scheduler's, the objects' and the library's runs because these
systems stop: all tasks have finished, nobody is left who will wake a parked one, or
a bound is reached. The reader-writer lock's run and the VM's check for deadlock.

### Fairness

* Scheduler: each thread that has a wake-up or a push in hand carries on, each worker
  goes on with its loop and with ending the slice it runs, time passes. The operating
  system runs the workers, a slice is bounded by `TASK_SLICE_FUEL`, clocks advance.
  Nothing makes a program wake anybody, spawn, park or finish.
* Objects: a caller that can go on does, a holder releases what it holds, callbacks and
  offloaded builtins end, senders send until `MaxSends`, `wgDone` is called as often as
  `wgAdd` announced. These are duties of the script, and the promises of the objects are
  made to scripts that keep them. All is weak fairness.
* Library: accept loops go round, threads of connections and of pipes run, the peers and
  handlers they wait for answer, a thread inside a call goes on. The mutex of a
  connection and that of a child process are the operating system's: a thread that waits
  for one while it is free again and again gets it, which is strong fairness on
  `TcpConn!Enter` and on the steps of `Process`; the standard library's mutexes promise
  no order, but no thread is passed over for ever. No script has to call anything, no
  client has to come, and a child need not end.
* VM: none. `RunsAsWritten` is a safety property, with deadlock checked.

## 4. Proofs

| module | proves, for any sets and any bounds |
|---|---|
| `Scheduler_proofs` | every property of `Scheduler_safety`: `TypeOK`, `OneOwner`, `ReadyIsReachable`, `BlockedIsAwaited`, `AnswerDelivered`, `NoStaleAnswer`, `ImplementsLifecycle`; and `FinishedIsFinal` |
| `Concurrency_proofs` | every property of `Concurrency_safety`: `TypeOK`, `PermitsConserved`, `MutualExclusion`, `ReadersOrWriter`, `ExactlyOnce`, `InOrder`, `OneResult`, `EachItemOnce`, `ExactlyOnePlace`, `NobodyIsStranded`, `ImplementsLock` |
| `Channel_proofs` | the same for the channel, and its invariant |
| `VM_proofs` | of `VM_programs`, as long as `NestedRunsEnd`: `DepthMatches` and `EveryRunHasItsFrame`, for any programs and any code; `TypeOK`, `TryEntriesMatchCode` and `OperandsBalanced`, for any code that passes the verifier |
| `Library_proofs` | of `Library_parts`: `ResultsOnce`, `HandlersAreKept`, `AnswersAreTrue`, `BytesArrive`, `ClientBooksAreRight` |
| `Scopes_proofs` | of the compiler's scopes: names are right and slots are not shared |
| `BigInt_proofs` | of big integers: `Exact`, after any operations in any order, for any base |
| `Algorithms_proofs` | of `Library_parts`: `NamesAreFound`, from `Scopes_proofs`; `AlgorithmsAgree`, with the big integers from `BigInt_proofs`; and `TypeOK` of all sixteen parts |

*Scheduler.* The inductive invariant has five parts. `Typing` is `TypeOK` with `RefsOK`: a
push appends the task that the wake-up in hand names, a slice stores the worker's task in
the timer heap, and these references must be tasks. `OneOwner` is inductive relative to it:
whoever changes a task's state either owns it, or compares it with READY or BLOCKED first,
and then nobody owns it. `OneWaker` says that a parked task has at most one of a
registration, a timer, a worker about to register it and a wake-up under way, and that all
of these are for its open park; without it a second wake-up could write an answer to a
park that is over. `Reach` is the absence of lost wake-ups: every READY task can be
reached by a worker, every BLOCKED one by a waker. `AnswersOK` follows the answer
from the waker's hands through the slots and the worker's hands to the task's VM, and
says that it is in one of these places only. The refinement maps each step to one of
`TaskLifecycle` or to a stutter; the cases that are not obvious are those where the answer moves.

*Objects.* What the properties count or compare is never inductive as it stands, and for
the same reason in each object: a wake-up overwrites the place of the task it carries. So
each invariant adds that the queue holds parked tasks, each once, that a wake-up is for a parked
task outside the queue, and that no two are for the same one; then a hand-over
cannot meet another or a holder. On top of that the semaphore counts holders, the read-write lock
counts readers and waiting writers (both by sets that stay finite whatever the sets of
callers are), the channel says where each value is and that the queue is newer than what
has left it, the blocking pool says that queue, thread, answer and dropped jobs exclude one another. That nobody
is stranded is a count for the objects with a condition variable: there are at
most as many free permits, or queued values or jobs, beside a sleeper as there are notifications and woken
threads on the way. The proofs are
in `Concurrency_proofs`, that of the channel in a module of its own that it cites
through INSTANCE; `once` needs that the executing caller is unique and that
everybody who waits either is in the queue of an execution under way or has a wake-up
coming. `Concurrency_proofs` then shows that each behaviour of the composition is one of
each object's own specification.

*VM.* An event that no try statement takes gives back one level of depth; were the frame
ending already, it would do so twice. The invariant therefore knows that an event finds a
frame that is not running its deferred calls. An error may come out of a callback or a
module, so it must also know which of the frames below started each nested run
and whether that was by an instruction or by a deferred call (`Links`). Programs, code and
the meaning of programs are constants of which nothing is assumed but what the
module declares. The condition `NestedRunsEnd`, that no nested run is left by a Yield, is what
the comments at `vm.rs` 565-573 and 613 claim; `VM_waiting_module` shows where the code
breaks it.

Types, try entries and operands cannot hold for any code: the machine trusts the
compiler and never looks. They are split between the two. `CodeIsVerified` says what a
bytecode verifier would: every instruction expects some try blocks around it and some
operands of its function on the stack, and every way to it, by falling through, jump,
catch, finally or the end of a try statement, brings just these. TLC checks it for
everything the compiler emits in `VM_programs`; the theorems `VerifiedCodeStaysWell`,
`TryEntriesFollowCode` and `OperandsStayBalanced` say that any code that has it runs
well, with any programs, calls, callbacks, imports, deferred calls and slices. Their
invariant (`CInv`) gives each frame its place: one that can go on stands at an
instruction that expects its try entries and its operands; one that waits for a call or
a module stands at an instruction that expects one operand more, the result, or as many;
and the operands of a frame end where the frame above begins. These bases are what an
error that unwinds several frames relies on: whoever takes it finds the stack it left,
which is not an empty one: a try statement in a top-level switch goes back to the operands its
code has there. So the code says at which height each try statement stands, a frame's
operands never fall below what its try entries go back to (`Holds`, from `Spare`: an
instruction takes only operands above them), and a jump, with the finally blocks it passes,
travels at the height of its target (`Travels`), which is why the verifier wants all the
statements it leaves at that one height. A return must find its value alone: that is where
the verifier refuses a return in a top-level switch, the one thing of what is modelled that the
compiler emits and it refuses, and `VM_switch_return` shows that `OperandsBalanced` is false of it.
Try entries come and go in every order of events, so each is tied to the code by the
address of its `PushTry`, which is why the notes on the instructions carry that address:
its catch and finally blocks stand in the blocks that entry was pushed in, and a pending
jump leads to code that stands in the blocks it does not leave. Of a frame that runs its
deferred calls nothing is needed but that its operands are gone if it is to return. A
task parked in a builtin that repeats its call finds callee and arguments back on the
stack, before that call.

*Library.* A behaviour of `Library` takes the steps of one part, so each part has an
inductive invariant of its own, and each promise is read off the invariants of its parts.

* `runAsync`: what is taken, shown, in the frame's hands and in the queue are four
  sequences without repetitions that share nothing; that nothing is delivered twice is a
  statement about their concatenation. A result moves from one to the next, and the
  lemmas about concatenations say that this changes neither its elements nor its order.
  Events are ordered per session by the same lemmas.
* HTTP server: the registry is exact because a request's number is never used again on its
  connection, so what was killed is not a request to come; a handler that is alone is
  the only busy one, hence the context is the one it injected.
* Child process: whoever has the child's mutex is the only one between looking at the child and
  storing its code; what it keeps is the child's code or, once a kill was overtaken, -1; and
  `procWait` returns no code only when it found `running` cleared before the code was stored.
* Cookie jar: the jar holds only cookies that their hosts may set, each the last that was set for
  its domain and path, and between a request's
  purge and its sending none that had expired when the request began. HTTP client: the number of
  requests in flight is a cardinality of a finite set of clients, and a reset that
  overlaps no request leaves the counters adding up whichever it has cleared.
* Configuration: as long as nothing went wrong, one process has the file and whoever holds
  `CONFIG` writes the settings answered for so far and its own change. S3 upload: the parts
  collected are the first ones in order, as many as `part_no` says.
* Servers: what a client was told and what went on to the target say how far its thread
  has come. `tcpPipe`: the bytes sent are those in the four buffers and those that arrived,
  or fewer once a peer is gone; the first side to end has passed all it got. Console:
  said and shown are compared without recursion (`ShownOf`: as many parts as are left,
  each at the place its rank among them says), since `SelectSeq` is recursive.
* Shared TCP connection: its types need a count, since the peer's answers are bounded by
  the writes: writes under way, unanswered and answered ones together are no more than `writes`.
* Encrypted connection: the invariant says what is on its way rather than what has
  come. What was written is what was received, what is in the read buffer, and a
  rest; and the bytes in the pipe and in flight, put behind each other, are an encoding
  of that rest, so that it does not matter where the network cut them. For the framed
  methods an encoding is a member of `EcStreams`: the least set of pairs (bytes, data)
  that holds the empty pair and grows by a frame and its data at the end, stated as an
  intersection, since a recursive one could not be used here. For TXDE it is the stream
  encrypted from the place the reader has come to. The heads of frames are free, so one
  rest has many encodings.
  Reading a frame takes the first one off, whatever the pieces the bytes come in. That
  decryption undoes encryption is arithmetic modulo the number of byte values, for any
  of them and any code table.

*Scopes.* That names are right says nothing until the program is over, since captures are
looked up through lists that are complete only when their function is: each function
compiles on a copy of the scopes around it, appends what it captures to the lists in the
copy, and has them carried back. The invariant (`ScIInv`) therefore says at every moment
what each entry of each list means. There is one map `M` from functions and positions
in their lists to variables, and for every function under way the list of its own scope
says what `M` says (`ScUnderWay`), for every complete one its `free_sources` do
(`ScComplete`): an entry that takes a slot takes the slot of its variable in the
function around, one that takes a capture takes a position where the function around
has the same variable. `ScGrown` says that the lists in a copy begin with those copied,
so that what is carried back keeps its positions, and `ScNested` which scopes of a copy a
compiler owns. `M` is extended by a capture and never changed. This needs that no name
is captured twice by one function (`repeated`), and where that fails is where
`Scopes_captures` finds the code wrong. Slots are not shared because blocks never give
theirs back: each variable's slot is below `func_local_count` of the compiler that
declared it (`ScHomes`). What a finished program reads follows by induction over the functions, outermost
first, done with a least counterexample.

*Calendar.* The model steps month by month from an epoch; the theorem is that the
closed formulas of `datetime.rs` agree with that walk for every year, not only for the
years a run reaches. The invariant is the same statement without the walk: the number of
the month's first day is `FirstOf(year, month)`, a formula that one month's step changes by its length. The rest is
arithmetic: `days_from_civil` counts in years that begin in March, in cycles of 400 years (an era), and
is `FirstOf` plus the day; `civil_from_days` divides by the lengths of era, century, four
years and year, where the last day of each is the exception the three small quotients
correct, and it is shown to find the year because the candidate's first day is not after
the day and the next one's is. `add_date` then lands in the month it should,
with the day cut to its length, which keeps order because months are in order.

*Parser.* `GroupedByTable` speaks of nodes that touch: one is an operand of the other, and
then the table says which may be. The invariant (`PsIInv`) carries this through the descent.
Two nodes, or a node and an open activation, lie apart or inside each other and never cross
(`PsTree`); an activation lies behind those around it (`PsStack`) and its kind limits what
can stand to its left (`PsFrame`), as the position in the descent limits what can come to
its right; and every operator consumed belongs to one activation or one node (`PsTaken`),
which is why nothing is left out when the stack is down to the statement. A node is built
from the activation on top by the step that ends its last operand, and what the invariant
says of the activation is then what the property asks of the node.

*Big integers.* The register's invariant is that it is a number in normal form whose value
is `v`, so the work is in the operations. Each loop over limbs is a recursive function of
the place (carries, borrows, rows, the rounds of the search, the long division), which is
first shown to exist and to have its type: a function with the equation's values is
put together from its initial pieces (`BiDefined`), and what holds at the first place and
passes from each to the next holds everywhere, by a least counterexample (`BiUp`, `BiDown`).
What limbs stand for is compared from the top down: `BiTail(a, k)` is what they do
from place k on, and at every place the operands' tails and the result's differ by the carry
or the borrow alone. That the last borrow is 0 when the larger is first, and that the last
carry of a row is 0, come out of the same comparison, as the code assumes. In long division the
remainder stays below the divisor, so one limb is enough for the quotient's digit, and the
search's range always holds that digit and shrinks to it within `Base` rounds. Two
numbers in normal form with the same value are the same limbs and sign, which is what
`Exact` says of equality.

The assumptions are those the modules declare: no worker is one of the other threads, tasks
and threads are distinct, `None` is nobody, no number and no settings, the bounds are natural
numbers, the pool's threads and the HTTP clients are finitely many, the epochs of the calendar
are anchored in it (`CalendarIsAnchored`: first days of months with their right numbers and weekdays),
the base of the limbs has two digits or more, some token can be parsed (`MaxTokens` is not 0), and in `VM` a few named
values are distinct. None bounds the number of
tasks, workers, threads, values, programs or calls.

*Only model-checked*: all liveness (outside the prover's reach, as is ENABLED), and
`CodeIsVerified` and `RunsAsWritten` of the VM, which are about what the compiler emits and
what programs mean: recursive operators over syntax trees, about which nothing can be proved
here. Every other safety property of a passing run is a theorem, those of the VM under the
conditions named above.

## 5. Not modelled

* The single-threaded `wasm32` pump and the synchronous fallback of the blocking pool: the
  same task states without workers.
* Data instructions of the VM (arithmetic, indexing, conversions), `for-in`, variadic
  spread, method calls, and the evaluation of a `run` statement in the spawner: sequential, and
  a model would repeat the code arm by arm.
* Containers, ring, stack, queue and sequence: one lock around one operation each. The
  ordered map and the prototype chain are sequential and have unit tests.
* SQL engine, cryptography, data formats, text, images: functions from one value to
  another; the reference a model would be compared with is a standard or a library, not in this
  repository. `pinyin_data.rs` alone is a table of 20,900 lines.
* Files, services, e-mail, FTP, SSH commands, dialogs: pure input and output; from the
  scheduler's side each call is a job of the blocking pool.
* HTTP routing, bodies, static files, uploads and WebSockets; TLS; the text of requests and
  headers.
* Misuse the code does not define: unlocking what one does not hold.
* Values of the atomics' memory orderings: each atomic operation is one indivisible step.
