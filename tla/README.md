# Verification of zephyr-sdk-pthread-toolchain

The repository builds a GCC/libstdc++ tool chain for Zephyr whose C++ threads,
mutexes, condition variables, `once` and thread-local storage sit on Zephyr's
pthread layer, and validates that tool chain with test suites (`tests/`) and
sample programs (`samples/`).  Kernel, libstdc++ and crosstool-NG are *not* part
of the repository; what is, and what this project models, are the concurrent
programs that exercise the threading contract, the helper library they share
(`src/miscutils.cpp`) and the scripts that configure, build and install the
tool chain.

All paths below are relative to the repository root.

## 1. Inventory

| Component | State | Operations | Hard about it | Correct when |
|---|---|---|---|---|
| Bucket, pthread (`tests/pthread/src/pthread_threads01.c`, `samples/cpp_pthreads`) | mutex, condition variable, three counters, one thread-local counter per thread | `GiveItem`, `TakeItem`, create, join | signals are sent on two edges only; woken threads compete for the mutex; spurious wake-ups | no wake-up is lost, the bucket keeps its bounds, all items go through |
| Bucket, C++ (`tests/cpp/concurrency/src/stl_threads01.cpp`, `samples/cpp_stlthreads`) | same, `std::mutex`/`std::condition_variable` | same | the notification is sent *after* the unlock | same |
| Bounce and barrier (`tests/pthread/src/pthread.c`) | mutex, two condition variables, a semaphore, a barrier, `curr_bounce_thread`, `bounce_done`, `barrier_done` | `thread_top_exec`, `bounce_test_done`, `barrier_test_done`, `test_pthread_execution` | waits without a predicate; the order of wake-ups is relied on | one owner at a time, everybody arrives, the barrier separates the phases, nobody sleeps for ever |
| Cancellation, clean-up, names, timed joins (`tests/pthread/src/pthread.c`) | per-thread cancel state, clean-up stack, detach state; deadlines | set/test cancel, push/pop, exit, join, try/timed join | deferred cancellation racing with the state changes; two threads ordered by durations alone | a disabled cancellation waits, handlers run once and in order; early joins find the thread asleep, late ones find it ended |
| Keys (`tests/pthread/src/pthread_specific.c`, `samples/cpp_pthread_specific`) | stage counter, key handles, per-thread values | create, delete, get, set across three threads | handles are reused after a delete | every thread reads its own values, deleted keys answer EINVAL |
| Once (`tests/pthread/src/pthread_once.c`) | once control, start and run condition variables | `InitFunc`, `AThread` | concurrent first calls; argument lifetime of the started thread | the routine runs exactly once, before any caller returns |
| Thread identity (`tests/pthread/src/pthread_kthread.c`, `samples/cpp_pthread_kthread`) | kernel thread / pthread pairing, two variables of the new threads | `pthread_self`, `pthread_to_zephyr_thread`, create, join | a kernel thread gets its `pthread_t` when it first asks; the variables are read behind the joins only | a thread's `pthread_t` leads back to it and to no other |
| Condition variable pool (`tests/pthread/src/cond.c`) | pool of `CONFIG_MAX_PTHREAD_COND_COUNT` | init, destroy, lazy static initialisation | statically initialised objects are never returned; all suites share one pool | no suite starves another |
| Atomic ping-pong (`samples/cpp_atomic_pong`) | an atomic state, a counter, a data block | `ping`, `pong`, `reset` | lock-free hand-over between two threads | strict alternation, no data race on the block |
| SC-DRF memory model (`samples/cpp_atomic_mm`) | a plain array, a plain value, one atomic synchroniser | `putThreadType*`, `getThreadType*` | publication of plain data | data-race freedom, values read are those written |
| C++ exceptions (`tests/cpp/concurrency/src/cpp_exceptions.cpp`, `samples/cpp_exceptions`) | hand-shake state, per-thread exception globals | `SetStateSignalAndWait`, throw, catch | two threads handle exceptions in overlapping order | each thread catches its own exception |
| `miscutils` (`src/miscutils.cpp`) | - | formatting into a string, stack space | truncation, error returns, reuse of a `va_list` | the string has the size of the formatted text |
| Allocation and function-local statics (`tests/cpp/basic`) | - | `new` under exhaustion, guarded initialisation | - | the constructor runs once |
| Tool chain scripts (`scripts/*.sh`) | `.config`, `temp`, per target the prefix directory, the one in the SDK and its `.old` copy | configure, build, install | being stopped at any command; failures that nobody asks for | how the last whole tool chain can be lost, what a reported success means, when a build is without its includes |
| Injected header (`include/inject/zephyr/pthread.h`), board sections, CMake | declarations only | - | - | - |

How they interact.  The programs do not call each other; they share two things.
All of them are written against the same contract of mutexes, condition
variables, semaphores, barriers, `once` and keys, which Zephyr's pthread layer
(and libstdc++ on top of it) provides and which is not part of the repository.
And the suites of one test image share its pools: `tests/pthread` runs all of
its suites on six threads and seven condition variables (`prj.conf`), the tests
of `pthread.c` on one mutex and two condition variables, the tests of
`cpp_atomic_mm` on one object.  The scripts share files and directories.  Where a
test can find what another one has left, the modules of the tests are composed
(`PthreadSuite`, `TestImage`, `MemModelTests`).

The hard behaviours, each at its line, are the `hazards` of `PROJECT.json`.
They fall into seven groups:

1. wake-ups that are sent on edges only, after the unlock, or to waits that have
   no predicate (bucket, bounce, `once`, names);
2. hand-overs through one atomic, with plain data behind it (`cpp_atomic_pong`,
   `cpp_atomic_mm`);
3. state that outlives its owner: key variables with the id of a deleted key,
   the address of a loop variable, detached threads, the value of an atomic
   from the test before;
4. per-thread state that a tool chain may fail to keep apart: thread-local
   counters, the stack of caught exceptions, key values, clean-up handlers;
5. limits: the pools of threads and of condition variables, the bucket, the turn
   after the last index, sizes that wrap around;
6. time: joins that have to come while a thread sleeps, or when it has ended;
7. scripts that are stopped half way, and start again from what is there.

## 2. The modules and the code

An action is one step between two points at which another thread can make a
difference: everything a function does under a mutex between two waits may be
several actions, a plain access to shared memory outside of a mutex always is
one.  `pc` names the points; the names of the variables are those of the source.
A thread that only makes a list of calls (`ExceptionHandshake`, `KeyStages`,
`ThreadTests`) is a sequence of instructions, in the order of the source, and
there is one action per kind of instruction.  A `zassert` or `REQUIRE` changes
nothing; it is a conjunct of an invariant that holds where the thread comes to
it (`CodeAsserts`, `ChecksHold`, `Requires`).

| Module | Models | State and actions |
|---|---|---|
| `PthreadSync` | the contract of mutex and condition variable | a mutex is its owner or `Nobody`, a condition variable the set of its sleepers; `CondSleep` gives the mutex up and falls asleep in one step; a wait may return unsignalled (`SpuriousWakeup`) |
| `BoundedBucket` | what both bucket programs promise | three counters; `GiveItem`, `TakeItem` |
| `BucketThreads` | what both bucket programs share | `Lock`, `Wait`, `Resume` are the `while (…) wait` of `GiveItem`/`TakeItem`; `Put`, `Get` the update of the counters and of the caller's `tls_bucket_value`; `NextItem`, `EndThread` the loops of the workers; `Create`, `Join` main |
| `PthreadBucket` | `pthread_threads01.c`, `cpp_pthreads` | adds `Signal` with the mutex held, then `Unlock`; the consumer is created first |
| `StlBucket` | `cpp_stlthreads`, `stl_threads01.cpp` | adds `UnlockOnEdge`, then `Notify` without the mutex; the bucket is a local of main |
| `PingPong` | `cpp_atomic_pong` | each load and store of the three atomics, each access to the record, main's look at it (`peek`), the loops with the threads created in either order |
| `MemModel01` | `cpp_atomic_mm`, test01 to test03 | one writer fills and publishes, readers spin, read and store back; `reset`, creation in any order, joins |
| `MemModel11` | `cpp_atomic_mm`, test11 and test12 | pairs passing a turn; `Gate` and `NextPut` are the encodings of the turn |
| `MemModelTests` | `test_list` | `MemModel01`, then `MemModel11`, on one object |
| `ExceptionHandshake` | `cpp_exceptions`, sample and test | both threads' throws, catches and rethrows (`throw;` in the sample, `std::rethrow_exception` in the test, after the test's two earlier cases) on a stack of caught exceptions per thread, with the references to each exception object, and the hand-shake over `state` |
| `BounceBarrier` | `test_pthread_execution` of `pthread.c` | the mutex is the queue of those that have asked for it, `cvar0` the queue of its sleepers; both phases and main |
| `JoinTiming` | `test_pthread_timedjoin`, `test_pthread_tryjoin` | a discrete clock (`now`); who could go on since `due` or `change` goes on at most `MaxDelay` later; the sleeping thread, the deadlines, the four joins |
| `ThreadTests` | the tests of clean-up, descriptors, names, termination, cancellation of `pthread.c` | a descriptor per thread (status, result, cancel state, pending, detached, clean-up stack) and the count of those in use |
| `PthreadSuite` | the suite `pthread` | `ThreadTests` with `BounceBarrier` and `JoinTiming` as tests of it, sharing `lock`, `cvar0`, `cvar1` and the pool |
| `OnceRace` | `pthread_once.c` | two calls and a bad value by main; creation with the shared argument, launch, `pthread_once` with its wait |
| `KeyStages` | `pthread_specific.c`, `cpp_pthread_specific` | the key table with re-used ids, four shared key variables, the stages; the sample is a second list of calls for the same threads |
| `ThreadIdentity` | `pthread_kthread.c`, `cpp_pthread_kthread` | who has which `pthread_t`, where each thread is, the variables that main compares with |
| `TestImage` | the image of `tests/pthread`, and two samples | the suite `cond` and the order of the suites (`Tests`, `step`); `ThreadIdentity`, `OnceRace` and `KeyStages` with every step, drawing from one pool (`conds`) beside what `pthread.c` has left (`detached`) |
| `FormatString` | `vformat_string_n`, `vformat_string_h` of `miscutils.cpp` | sizes modulo `SIZE_MAX + 1`; one action per statement that may throw or change a size |
| `ToolchainInstall` | `config-…`, `build`, `install-…` and `functions.sh` | a directory is what it may have of which builds, and the one it has whole (`Trees`); one action per command, each of them done, or `Cut`: failed or stopped at, with a part of it done |
| `MC…` | - | constants for TLC |
| `BucketThreadsProofs`, `PthreadBucketProofs`, `StlBucketProofs`, `PingPongProofs`, `MemModelTestsProofs`, `PthreadSuiteProofs`, `TestImageProofs`, `SequentialProofs` | - | the inductive invariants and the theorems of section 5 |

Operators such as `pthread_key_create` that the repository only calls are marked
*external* in the map: they are taken from what the callers check.

Atomics are sequentially consistent in the models, as in the source: `sync_value`
of `cpp_atomic_mm` and the counters of `cpp_atomic_pong` are `std::atomic<int>`,
used with the default order throughout.  That the *plain* accesses then need no order of their own is
not assumed but checked: the absence of data races is an invariant over all
interleavings of sequentially consistent atomics and plain accesses, and for a
program without races that is all there is to observe (this is what the sample
calls SC-DRF).

## 3. The runs

Sizes are distinct states.  Mutants of the mapped definitions, one for each
property, show that the property can fail.

| Run | Constants | States | Shows |
|---|---|---|---|
| `pthread_bucket` | 50 items, capacity 10 (the source) | 12788 | no lost wake-up, nobody stalls, all assertions, the bucket is implemented, all ends |
| `stl_bucket` | 50 items, capacity 10 (the source) | 11132 | the same with the notification after the unlock; nobody uses the bucket when main has left |
| `ping_pong` | 50 turns, 4 rounds | 17005 | counters and record agree, strict alternation, no race between the workers, all ends |
| `ping_pong_race` | 3 turns, 1 round | - | *violation*: main reads the record while a worker writes it |
| `mem_model_tests` | 4 readers, 3 rounds; 3 pairs, 2 loops | 33112 | every `REQUIRE`, no data race, a publication stands, turns in order, all ends |
| `exception_handshake` | none | 243 | each thread catches its own exception, which lives as long as something refers to it, the handlers do overlap, the states come in order, all ends |
| `pthread_suite` | 3 workers, 64 bounces, pool of 6 (the source); half of the sleep is 4 ticks, delays 1 | 80653 | see below |
| `bounce_stall` | 2 bounces, yields do not suffice | - | *violation*: a signal is lost and a worker sleeps for ever |
| `test_image` | pools of 6 and 7 (the source), 4 key ids, 4 values of `pthread_t` | 24315 | the pools suffice where they must and are exhausted where they must; every check of `once`, keys and identities; the stages go round; all ends with the pool as it should be |
| `format_string` | `size_t` of 4 bits, `INT_MAX` 7, `max_size` 5 | 926 | sizes as documented, no write outside of the string, errors contained |
| `format_va_list` | the same, a `va_list` is an array | - | *violation*: the second formatting decides on any size |
| `install` | 2 targets (symmetric), 1 build beside what the SDK came with | 669975 | the last whole tool chain is lost in two ways only; what success means; builds with their own includes but for named mishaps |

Why the bounds are enough.  The buckets, the bounce phase and the suite run with
the numbers of the source; nothing is cut.  `cpp_atomic_mm` runs each test ten
times on an array of ten; three rounds change `startValue` between two of them
and repeat it between two others, which is the only difference there is between
rounds, and the array is as long as there are pairs so that the turn after the
last index does wrap (with the ten slots of the source and three pairs it never
does).  `cpp_atomic_pong` repeats rounds in two orders of creation; four rounds
have each order follow each.  `once` takes the four threads that the pools leave
it.  There are never more than four keys, and two ids would do to use one again.
`FormatString` has every limit and every length of its small `size_t`, with all
three orders of interest between `max_size`, `INT_MAX` and the largest size; the
properties compare sizes only.  In `install` two targets are enough for one to be
in the way of another; one build and what was shipped are enough for a mixture, for
a half of either in any of the places, and for any number of installations, since nothing
bounds these; the theorems have no bound.
`ExceptionHandshake` has no parameters: the hand-shake leaves the two threads
little freedom, and the 243 states of the sample and the test are all there are.

`pthread_suite` needs more than POSIX promises, and says what: sleepers are
woken in the order they fell asleep and a mutex is handed over in the order it
was asked for (Zephyr's wait queues at equal priority), no wait returns
unsignalled, the 500 ms delay lets the other workers fall asleep
(`DelaySuffices`) and the 1000 yields let them ask for the mutex again
(`YieldsSuffice`).  `bounce_stall` shows that the last one is needed.  Under
these, ownership goes round, main's one broadcast reaches every worker, the
barrier holds; the name test, which waits without a predicate as well, needs
only that no wait returns unsignalled.  The tests run in the order of their
names, as ztest sorts them.  The joins come in time when the scheduler is late by
less than a third of half the sleep, since up to three delays add up against it
(the creation, the sleep, the return).  The bound is
exact: with a delay of a third TLC finds a join that comes too late.  (What holds for
every number of workers and every duration is proved, section 5.)

`test_image` shows that the 7 - 2 of `MY_THREAD_COUNT` is no more than just enough:
the two condition variables of `pthread.c` are still out when `test_2_parallel`
takes one for the start and one for each of its four threads, which makes seven,
and that `cond` comes first in the order of the suites is what lets it have the
whole pool (with `StaticsFirst` in the place of `Tests` it fails).

### Findings

- `ping_pong_race` (`cpp_atomic_pong/src/main.cpp:261`): main copies the plain
  record for a debug message while the workers write it, which is a data race.
- `bounce_stall` (`tests/pthread/src/pthread.c:99`): the wait has no predicate;
  a signal that comes before it is lost and the test hangs.
- `format_va_list` (`src/miscutils.cpp:80`): a `va_list` is used a second time
  without a `va_copy`, against the promise that the result has the size of the
  output.

The first two need an unlucky moment, and neither is seen on a machine where the
scheduler behaves as the tests expect; the third needs a hint that is too small
and a target (x86_64) where a `va_list` is an array.

Three more divergences that have no run of their own:

- the comment in `cpp_atomic_mm/src/main.cpp:116` and `:145` says that readers
  wait for `idx + 1`; the code waits for `idx` (line 151), as `MemModel11` does;
- `tests/pthread/src/pthread_once.c:139` is "save handling of arg lifecycle" only
  as long as main's wait does not return unsignalled: with main among the
  `SpuriousWaiters` of `OnceRace` TLC finds a thread that reads the number of the
  next one.  `test_image` has spurious wake-ups of the other threads only;
- in `cpp_pthread_specific/src/main.cpp:26` the tags of main and of the kernel
  thread have one value, so only their addresses tell them apart (the model has
  different values).

## 4. Fairness

Every thread that can take a step does so at last: weak fairness per thread,
which the preemptive scheduler gives threads of equal priority, and a spinning
loop is taken to leave the other threads their turns.  A thread that spins in
vain has no step to take, so this says no more than that it gets the processor
once it can pass.

Strong fairness is assumed of taking a mutex, and only where spurious wake-ups
are modelled without a bound (buckets, hand-shake, keys): there the other thread
may wake, look and sleep again for ever, and every time take the mutex first.
`k_mutex` hands the mutex over to a waiter, so this does not happen.  Spurious
wake-ups themselves are never assumed to occur.

In the two tests that time orders, the clock goes on (weak fairness of `Tick`) and
a thread is late by `MaxDelay` at most, which is part of the next-state relation:
`Tick` waits for who is late.

The scripts and the formatting functions have no fairness and no liveness
property: a script may be stopped for good.

In the composed modules the fairness of a test's threads is bound to that test
being on, so that a test that never ended would be seen as a violation of
`Terminates` and not be excluded as unfair to the threads of the next one.

## 5. What is proved

### The buckets

`BucketThreadsProofs`, `PthreadBucketProofs` and `StlBucketProofs` prove, for
every number of items and every capacity (natural numbers other than 0) and
for any `Nobody` that is not a thread:

| Theorem | Says |
|---|---|
| `TypeCorrect` | types, and the bucket within its bounds |
| `AlwaysIInv` | the inductive invariant |
| `EdgeSignalsSuffice` | signalling on the two edges loses no wake-up |
| `NeverStalls` | a sleeper always has a partner that is awake and has not ended |
| `AssertsHold` | all assertions of the source |
| `ImplementsBucketSafety` | the program implements the safety part of `BoundedBucket` |
| `BucketOutlivesItsUsers` | (C++) nobody is still on the way to the mutex or to a notification when main leaves |

`NoLostWakeup` is not inductive as it stands.  That a taker which finds the
bucket full before its update leaves it at `BucketCapacity - 1` when it decides
whether to signal needs that nobody else has touched the bucket in between;
`MutexHeld` (who owns the mutex is who is between lock and unlock) says so, and
`JustMoved` bounds the bucket at that point.  That a sleeper is where the program
says it sleeps is `Asleep`.  That the partner of a sleeper has not ended needs
the number of items it has still to move, which is `Accounting`: given and taken
are what the loop counters and the claimed item leave.  `Joined` orders main's
joins.  Their conjunction with the types is `BucketInv`; each program adds that
the thread it creates second does not run before (`IInv`).  TLC checks `IInv` in
the runs.

The steps that both programs have are proved once, as lemmas in
`BucketThreadsProofs` (one per action, one step per conjunct), and cited by the
other two modules, which add their own `Signal`/`Unlock`/`Notify` steps.  The
refinement maps the three counters to themselves: `Put` is `GiveItem`, `Get` is
`TakeItem`, every other step stutters.

### The ping-pong

`PingPongProofs` proves, for every number of turns but 0 and every number of rounds:

| Theorem | Says |
|---|---|
| `AlwaysIInv` | the inductive invariant |
| `RequiresHold` | the types, and every `REQUIRE` and `zassert` where a thread comes to it |
| `HandoverExcludes` | the workers are never at the plain record at the same time |
| `TurnsAlternate` | the turns alternate strictly, ping first, in each round |

Neither exclusion nor alternation is inductive: that a thread which leaves its
spin finds the other one outside needs to know that the other has given its turn
away, and that the status was not set for a turn already taken.  `IInv` therefore
counts the turns of each thread three times, as they have been added to the
counters (`Added`), stored in the record (`Stored`) and given away in the atomic
(`Published`); a thread between two of these points is one ahead in the first of
them.  `Score` says that the atomics are what these counts make them, that the
published ones of the two differ by one at most and that the difference *is* the
status; `Books` says the same of the record; `Own` relates the copies a thread
works on to what they were copied from, which stays as it is because only one
thread is in its turn (`OneInTurn`, a consequence).  `Phases` is what main knows:
who has been created in which order, and that a joined thread has done its turns.

### The memory model tests

`MemModelTestsProofs` proves, for any set of readers, any number of pairs, any
size of the array that is not smaller than the number of pairs, and any number of
rounds and loops:

| Theorem | Says |
|---|---|
| `AlwaysIInv` | the inductive invariant |
| `EachHalfFindsItsObject` | the types and every `REQUIRE` in both halves, which share one object, and no data race in the first |
| `OnlyInTurn` | no data race in the second: plain memory is touched in turn only |
| `PublicationHolds` | nothing that was published is changed before the readers are done |
| `TurnsPassInOrder` | the turns go from the writer to the reader of a pair and on to the writer of the next, and after the last index of the array to the first; none is skipped or taken twice |

One half at a time has the object (`FirstHalf` or `SecondHalf`); the second starts
from whatever the first has left, of which it needs the types only (`Memory11`).
In the first half the place of the writer says everything: which part of the
array is filled, whether `value1` is, and that no reader is past its spin before
the atomic has been stored (`Publication`).  In the second half it is the other way
round: `sync_value` says which single thread may be in its turn, and what that
thread will find (`Turns`).  That two threads cannot be in their turns together
follows, because the encodings of the turns are different numbers; this is where
`NextPuts` has to show that the wrap around after the last index meets no turn
that is still open.

### The suite of `pthread.c`

`PthreadSuiteProofs` proves its theorems for the whole suite, not for a test on its own, so
that each also says that the tests before leave what the test starts from.  The
parameters are the number of workers, of bounces and of threads in the pool (none
of them 0), half of the sleep and the greatest delay of the scheduler.

| Theorem | Says | Provided that |
|---|---|---|
| `AlwaysJoinsIInv`, `AlwaysJoinsInTime` | the early joins find the thread asleep, the late ones find it ended | `3 * MaxDelay < Half` |
| `AlwaysSuiteIInv` | the inductive invariant of `test_pthread_execution` within the suite | |
| `AlwaysBroadcastReachesAll` | main's one broadcast comes when every worker sleeps or has the mutex before its sleep | |
| `AlwaysBarrierHolds` | nobody passes the barrier before all are there, and one is the serial one | |
| `AlwaysGoesRound`, `AlwaysNoRace` | the ownership of the bounce phase goes round, `curr_bounce_thread` has one user at a time | `DelaySuffices`, `YieldsSuffice` |
| `AlwaysNameIInv`, `AlwaysSyncFree` | outside of the two tests that use them the mutex is free and nobody sleeps | |
| `AlwaysPoolIInv`, `AlwaysPoolSuffices` | the pool has given out a descriptor for each thread that runs or has still to be joined, and has one for every thread that a test creates | the second: `MaxThreads >= 4`, `N_THR_E <= MaxThreads` |
| `AlwaysChecksIInv`, `AlwaysChecksHold` | every `zassert` of the tests of clean-up, descriptors, names, termination and cancellation holds, with the types | |
| `AlwaysPosts` | the semaphore never has more than it starts with and the workers have posted | |
| `AlwaysInv` | the whole of `Inv`: the two rows above, `NoRace` and the types of both of the timed tests | `DelaySuffices`, `YieldsSuffice` |

The joins.  `JoinsIInv` bounds, for each place main is at, how far the clock has come
since the creation, the sleep and the return of the other thread; three delays
add up in the worst case, which is where the 3 comes from.  It is a named
assumption of `JoinTiming` (`TimingAssumption`), and TLC has a counterexample without it.

Bounce and barrier.  `ExecutionIInv` has, for either outcome of the delay and the yields,
the queue of the mutex (`Queue`: who is at a place that needs the mutex is in the
queue exactly once, and who is past it is the first), the sleepers (`Sleepers`), the
handover to main (`Handover`) and the barrier (`Barrier`: what has been counted is who
has arrived).  Only with both of the assumptions it has `InTurn` as well: with the turn
of a worker being how often it has signalled, the sleepers and those that wait for
the mutex to sleep are in the order of their turns, one thread at most is late, one
at most has been woken, and it is behind all the others; so nobody is more than one
turn ahead, and the claim is made by one thread alone.  The broadcast and the barrier
need none of this and are proved without.

The names.  Two threads that wait on each other's condition variable without a
predicate have few joint states, and `NameIInv` lists them (`Meeting`): main alone, main asleep before the
other one signals, the other one asleep before main signals, its end, and nothing
left.  Together with `SuiteIInv` (the test of the execution starts from nothing) this
gives `SyncFreeBetweenTests`.  That main's list of calls, which is a concatenation of
the tests, has each test where the invariants say is a matter of lemmas on
sequences (`Concatenation`, `MainBegins`, `MainNames`).

The pool.  `PoolIInv` says where main can be while a thread has a descriptor (`Lives`):
those of `test_pthread_termination` that detach themselves may be there up to the end of
the suite, every other one from its creation to its join.  For each place of main's
list there is a fact about who is created or joined there (`WellPaired`), which is why the list is
spelt out place by place (`MainProgramPlaces`), with the test of the leak as long as the pool makes
it.  At no creation are more than three descriptors out, whence the 4; and at
`test_pthread_execution` there is none, so it may have the whole pool.

The checks.  Each of these tests passes what it finds through flags that a thread sets
and main reads, so `ChecksIInv` has to know both ends.  `WorkerInv` gives a thread's
descriptor as a function of the place it is at: the cancellation state, the clean-up
handlers that are pushed, whether it is detached, whether a cancellation is pending
(it has cancelled itself, or main is past the `pthread_cancel`), and the flags it has
set; and, once it has ended, the results it can have and the handlers that have run.
`NeverSet` are the flags that nobody sets: the handler that was popped without being
executed, those of the thread that returns, what is marked unreachable.  `MainFlags`
are the flags that are set where main is; it gets them from a join, which needs the
thread to have ended.  `MeetingInv` is for the one hand-shake of two threads over
flags: main does not cancel `ext1` before that has set `ENABLED`, nor does `ext1` come
to its `pthread_testcancel` before main, past the cancellation, has set `SET`.  None of
this needs the delay or the yields, which `AlwaysInv` has for `NoRace` alone.

### The test image

`TestImageProofs` proves what `test_image` checks for pools of any size (and so for any
number of threads in the race of `pthread_once.c`), for any set of `pthread_t` values and
any set of key ids.

| Theorem | Says | Provided that |
|---|---|---|
| `AlwaysSuitesInv` | the inductive invariant of the race, of the pools and of the identities | |
| `PoolsSufficeHolds` | `pthread_cond_init` fails where it is meant to and nowhere else, and there is a thread for each that the race creates | fewer threads than condition variables |
| `OnceRunsOnce` | the function has run, once, before any `pthread_once` returns | |
| `RaceSound` | each thread reads its own number, and the launch reaches all | main's wait is signalled |
| `IdentitiesAlwaysHold` | every comparison of the identities finds what it should | |
| `AlwaysTurnInv`, `StagesGoRound`, `OneThreadAtATime` | each stage is ended by the thread whose turn it is, and this thread alone works on the keys | |
| `AlwaysKeyInv`, `KeysHold` | every check on the keys | there is a second key id |
| `ImageInvHolds` | all checks of the image | the last and that of `RaceSound` |

The provisos are not weaknesses of the proofs.  With as many threads as condition
variables the race draws one more than the pool still has, and nobody looks at the result;
`test_2_parallel` then destroys one that it has not got, and the pool is one short for the
suites behind it (the -1 of `OutForRace`).  `prj.conf` has 6 and 7.  That main's wait is signalled is what the
comment of `pthread_once.c:139` rests on (section 3).  With one id `pthread_key_create` fails for the second key.

The pools.  Since the suites run one after the other, how many condition variables are out
follows from the step (`Out`), but for those of the race, which follow from where main is in it
(`OutForRace`).  `Tests` is as long as the pool makes it, so the steps are counted in terms of the
pool's size (`OnceStepNo`).

The race.  One call of the function at a time has the control (`OneCall`).  For the
argument: while main creates the threads, all up to the newest have got to their waits,
the newest is between creation and its signal as long as main waits, and none
behind it exists (`OneByOne`); so nobody but the newest can read the loop variable, and
nobody misses the launch.

The turns.  Main and two threads go round on one condition variable with `test_stage`
as the index.  A thread that works has the mutex and is in its own stage; the two
others wait for the next two stages (`Turn`).  Their stages differ modulo 3, so a thread
that works knows exactly at which wait each of the others is.

The keys.  Hence what is in the table is a function of the places of the three
threads (`TestKeys`): the ids in use are the least and at most one other (`Other`), although there are four
key variables, two of which hold the ids of deleted keys that stand for new ones by
then; under each id a thread has what it has stored since the key was last
created.  No bound on the number of ids enters it.

### The formatting functions

`SequentialProofs` proves, for every size of `size_t`, `INT_MAX` and `max_size()`
(the last two less than `SIZE_MAX`, as `FormatAssumption` says):

| Theorem | Says |
|---|---|
| `AlwaysIInv` | the inductive invariant |
| `RoomSuffices` | `vsnprintf` never has more room than the string, and after an error or an exception the string has one of three sizes, whether or not a `va_list` is used up |
| `SizesAsPromised` | the string has the size of its documentation, provided that a `va_list` can be used twice (without this `format_va_list` refutes it) |

`IInv` says what has been reserved at each of the two calls of `vsnprintf`
(`Reserved`, `ReservedAgain`).  The point of it is the second one: it is reached with the
length of the output and never with an error, because the -1 that became the
greatest `size_t` wraps around to a room of 0, and the `resize` to one less than
that is refused.  What wraps around and what does not is `Wraps`.

### The installation

`SequentialProofs` proves as well the three properties of the run `install` for any
set of targets, any number of builds and of installations (assumption: the number
of builds is a natural number, and no target is called like the two values of `config`
that are none).

| Theorem | Says |
|---|---|
| `KeepsTheLastHolds` | the last whole tool chain of a target is lost only with an `.old` copy that is removed while what stands in its place is not whole, or under a `cp` over what `mv` has failed to move |
| `InstalledAsReportedHolds` | an installation that reports success has put all of a whole build in place, and nothing beside it unless its `mv` has failed |
| `BuildsWithOwnIncludesHolds` | a build is without its includes only if the last config script was stopped before the old `.config` was gone, could neither remove nor overwrite that, or failed to copy |

The scripts have no `set -e`, and only the last command's status is that of the script.
So every command may fail with a part of its work done, and the script goes on; being
stopped differs in nothing but that (`Cut`).  `unnoticed` keeps which commands have failed
in the last config and install scripts, and `stopped` where the last config script was;
they are history, no guard reads them.

What that means for the installation.  A `rm -rf` that fails leaves something of `.old`,
and then `mv` either moves the present tool chain into that (`nested`) or, if the directory
of the target's name is still there, fails too.  A tool chain that has not been moved has
the new one copied over it: if `cp` succeeds there is a mixture, reported as a success;
if it does not there is no whole tool chain any more.  And an installation begun after one that
went wrong removes the only whole one, which is in `.old`.  These are weaknesses of the
scripts, which promise nothing else; the properties have them as their exceptions, and say
that there are no other ones: that an installation begun with a whole tool chain in its
place and with a `mv` that works loses nothing, wherever it is stopped and whatever else
fails.  `check_dir` asks for no more than a directory, so half a build can be installed
with success; of such a build `InstalledAsReported` says only that it is what is in place.

And for the includes.  The flags name a directory of the target's own in `temp`, so
those of another target are never found, but its own may be missing.  A failing
`rm -rf temp` costs nothing, as the copy follows; a stop there, or up to the removal of the old
`.config`, leaves a `.config` without its includes, and a stop behind that does not, even
with half a `.config`.  It is the removal of `.config` that this rests on, although the
next command overwrites the file anyhow.  With both of them failing, the old `.config` stays,
`ct-ng upgradeconfig` is content with it and the script reports success.

What a script has done depends on how far it has got and on what has failed, so the inductive
invariant (`ScriptInv`) goes by `line`: which script a line belongs to (`ScriptOfLine`); that
before the `cp` the place is empty or `mv` has failed (`MovedFirst`); and what `temp` and
`.config` are at each line of the config script, with the excuses there are for it
(`IncludesFollow`).  `KeepsTheLast` is an action property, proved of every step from
`ScriptInv`.

### How the proofs were found, and what they assume

Every inductive invariant was first checked by TLC on the instance of its run
(`pthread_suite`, `ping_pong` and so on), then proved: `Init => IInv`, one lemma per
action, `IInv => Inv`.  The named assumptions on constants are in the modules that
declare them, and TLC evaluates them in every run.  Apart from these the theorems
rest on the library's theorems on finite sets and on sequences.

### Only model-checked

- All liveness: `Terminates`, `EndsAsleep`, the fairness part of `ImplementsBucket`.  It
  rests on fairness and ENABLED, which are out of the prover's reach.
- `ExceptionHandshake` has no parameters: the 243 states that TLC visits are the
  system, and a proof could say no more.
- `ping_pong_race`, `bounce_stall` and `format_va_list` are counterexamples.

## 6. What is not modelled

- Zephyr's kernel and pthread layer, libstdc++, the C++ run time, the compiler:
  not part of the repository; their contract is, as far as the programs use it.
- Priorities, scheduling parameters, `test_pthread_equal`, the name calls of main:
  sequential calls of one thread with fixed results, which change no state that
  another test sees; so are the invalid time limits of `timedjoin`.
- `alloc_new`, `magic_statics`, the exception basics (`test_cpp_exceptions00`): the
  same.
- Of `miscutils`: what prints (`dbgPrint`, the abort macros), and
  `CurrentThreadStackSpace`, which asks the kernel.
- What `ct-ng` does within a command; two scripts at the same time, which nothing
  guards and the documentation does not suggest.
- The declarations of `include/inject/zephyr/pthread.h`; debug output, texts,
  emulator and environment scripts, static configuration.

## 7. Plan

Done, in this order: the buckets with their abstract specification and their
proofs; ping-pong; the memory model tests and their composition; the exception
hand-shake; bounce and barrier; `once`; keys; the thread tests and the suite; the
timed joins, composed into the suite; the pool of condition variables and the
thread identities, composed with `once` and keys into the test image; the
installation with its proofs; the formatting functions.

All of the safety properties that the passing runs check have a theorem, but for those of
`ExceptionHandshake`, which has no parameters.  What is left is what the provers cannot
reach (liveness) and what section 6 lists.
