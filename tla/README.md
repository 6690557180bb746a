# Specifications of the iPhone binutils' dynamic linker

The repository is a port of Apple's cctools to the first iPhone, with a small
debugger of its own. Most of it is sequential programs that turn files into
files. The part whose correctness depends on the order of things is the dynamic
linker `dyld` with the interface by which debuggers enter it: a lock built from
a test-and-set word, taken by every thread of a program, released around and
held across calls of the user's code, inherited by `fork`, and read without
being taken by a thread that another task controls by suspending the rest.
These specifications are about that part first, then about what the linker does
under its lock, about `dlopen` on top of it, and about the small debugger. Paths below are relative to
`src/trunk/cctools` unless they begin with `src`.

## 1. Inventory

| Component | State | Operations | Modelled |
| --- | --- | --- | --- |
| dyld lock: `dyld/lock.c`, `dyld/machdep_lock.s` | `global_lock`, `dyld_lock`, `thread_that_has_dyld_lock`, `cached_thread`, `cached_stack` | `set_lock`, `set_lock_or_in_multiply_defined_handler`, `release_lock`, `dyld_mach_thread_self`, `yield` | `DyldLock` |
| dyld error handlers: `dyld/errors.c`, flags in `dyld/debug.c` | `return_on_error`, `lock_in_multiply_defined_handler`, `lock_in_linkedit_error_handler` | `multiply_defined_error`, `link_edit_error`, `check_and_report_undefineds`, `dead_lock_error` | `DyldLock`, `DyldLink`, partly |
| fork hooks: `dyld/dyld_libfuncs.c` | the lock, as the child inherits it | `_dyld_fork_prepare`, `_parent`, `_child`, `_child_final` | `DyldLock` |
| debug server: `dyld/debug.c` | `debug_thread`, `debug_port`, `debug_thread_waiting_for_lock`, `core_image`, event subscribers | `start_debug_thread`, `server_loop`, the `server_dyld_debug_*` requests, `send_past_events`, `send_event` | `DyldDebug`, `DebugStart`, `DyldEvents`, partly |
| debugger's side: `libdyld/debug.c` | one `_dyld_debug_task_state` per call; the kernel's suspend counts | `_dyld_debug_make_runnable`, `_dyld_debug_restore_runnable`, `get_or_start_debug_thread`, the requests with time-outs | `DyldDebug`, `DebugStart`, partly |
| registered functions: `dyld/register_funcs.c` | lists of functions; `image_funcs_called`, the modules' link states | `_dyld_register_func_for_*`, `call_registered_funcs_*` | `DyldCallouts`, partly |
| initialisers: `dyld/mod_init_funcs.c` | link states, `init_bit` and `term_bit` of modules, `delay_mod_init` | `call_module_initializers`, the delayed calls, terminators | `DyldCallouts`, partly |
| images, symbols: `dyld/images.c`, `dyld/symbols.c` | image lists, link state per module, `undefined_list`, `being_linked_list`, saved states, `remove_on_error` | link, resolve, unlink, back out on error | `DyldLink`, `DyldEvents`, partly |
| relocation: `dyld/reloc.c`, `generic_reloc.c` | link states, symbol pointers | `relocate_modules_being_linked` | `DyldLink`, `DyldEvents`, partly |
| run-time interface: `libdyld/dlopen.c`, `ofi.c`, ... | list of handles with counts and modes | `dlopen`, `dlclose`, `dlsym` | `Dlopen`, partly |
| weasel: `src/trunk/weasel` | breakpoint list, thread snapshot, `inferior_in_ptrace` | set and delete a breakpoint, exception loop, commands | `Weasel`, partly |
| `ld`, `as`, `ar`, `libstuff`, `otool`, `gprof`, tools | data of one run | file in, file out | not modelled |
| `profileServer`, `mkshlib`, `Csu-71`, `weaselprof` | little | start-up code, wrappers | not modelled |
| `src/trunk/llvm-gcc`, `src/branches` | | third-party code; older copies | not modelled |

**How they interact.** A program calls dyld by way of libdyld; every entry is
`set_lock()`, the operation, `release_lock()`. During an operation dyld calls
back: the multiply defined handler and the link edit handler with the lock
held, the undefined handler, registered functions and initialisers with the
lock released. A debugger (gdb, weasel) is another task. It asks the kernel to
suspend the program's threads, starts a *debug thread* in the program if there
is none (found through the program's `(__DATA,__dyld)` section, the only memory
the two agree on), sends it a message, and resumes the threads. The debug
thread never takes either lock: it reads them, and if a thread is inside it
resumes that thread, waits until it has left, and suspends it again.

**What is hard.** No store of `lock.c` is atomic with another for the debug
thread, so their order matters. Threads are suspended at arbitrary
instructions, with or without locks. Suspension is counted, and three parties
(debuggers, the debug thread, a thread suspending itself) must make the counts
come out even. A thread's identity is cached by stack page. User code runs with
the lock held and may call in again. A request can time out while it is served.
Two debuggers know nothing of each other. `PROJECT.json` lists the hazards at
their lines.

**What makes each part correct.**

* Lock: one thread inside; the owner word names it; a thread that calls again
  from its own handler is stopped and no other ever is; the lock is released and
  handed on, after a fork too; no flag of one operation leaks into the next.
* Error handlers: only the calls documented as allowed get in during a handler,
  and those do.
* Debug server: while it reads consistent data or binds, nobody is inside and
  nobody else can run; each request is answered; its flags say what is so.
* Debugger's side: afterwards every thread and the task are suspended as often
  as before; one debug thread is started and the section names it.
* Registered functions and initialisers: called with the lock free, whatever
  other threads load, link and unload meanwhile, and yet each registered function
  sees every image, each initialiser and terminator runs once, and no module is
  left between two link states.
* Images and symbols: a failed link with return-on-error leaves everything as it
  was, other operations' entries in the lists included; no module is left half
  bound; what a module in use refers to stays loaded; an operation ends.
* Events: each subscriber knows every image there is and none that is gone, though
  others die, and whenever it came.
* `dlopen`: a handle that was opened stays valid until it was closed as often; then
  handle and module are gone; a handle's mode is what dyld does.
* weasel: a deleted breakpoint's instruction is back; a thread that stopped can be
  continued.

## 2. Modules

```
LinkEditLock            what the lock promises (abstract)
   ^ refinement (DyldLock!KeepsPromise)
DyldLock                lock.c, handlers' flags, fork hooks
   ^ EXTENDS            ^ EXTENDS
DyldDebug            MC_DyldLock
   ^ EXTENDS            ^ EXTENDS
MC_DyldDebug         DyldDebug_proofs (of DyldLock, too)

DebugStart   <- MC_DebugStart,  DebugStart_proofs
DyldCallouts <- MC_DyldCallouts, DyldCallouts_proofs (on the lock as LinkEditLock promises it)
DyldLink     <- MC_DyldLink,     DyldLink_proofs     (the same)
DyldEvents   <- MC_DyldEvents,  DyldEvents_proofs   (the same, and on what DyldDebug shows of requests)
Dlopen       <- MC_Dlopen,      Dlopen_proofs       (on linking as DyldLink shows it)
Weasel       <- MC_Weasel,      Weasel_proofs

SequenceLemmas          facts on lists, for the five modules that keep some
```

**LinkEditLock** gives each thread a phase: out, waiting, in, killed. Only a
thread that is in can be killed; nobody is let in while one is in or killed; a
fork keeps the forking thread alone.

**DyldLock.** `pc[t]` is the next step of thread t, named by function: `set...`
for `set_lock()`, `or...` for `set_lock_or_in_multiply_defined_handler()`,
`rel...` for `release_lock()`. Each load of a lock word that decides something
and each store of one is a step. The two loads-and-branches under `global_lock`
at `lock.c:79` and `:87` are one step with what follows them, since the words
change only under `global_lock`. `Grab` is a successful `try_to_get_lock()`;
`SpinOnGlobalLock` a failed one. `Resolve` is the body of
`dyld_mach_thread_self()`: it compares the page a call is made from (any of
`Depths` in the thread's stack) with the cached one. `me[t]` is `my_thread`.
Inside (`"inside"`) a thread may set `return_on_error`, get into a handler
(`ctx[t]` is then not `"user"`, and it is outside as user code that may call
again), fork, or leave. `dyld_mem_protect` is left out: the code that sets it is
compiled out (`dyld/dyld_init.c:570`). The clearing of `return_on_error` is
one step with the end of `dyld_mach_thread_self()` before it; nobody but the
thread inside reads it. The undefined handler needs no step of its own: around it
`errors.c:141-147` is a `release_lock()` and a `set_lock()`. The fork follows the
child; on the parent's side it is a call like others.

**DyldDebug** adds debuggers (`cpc`) and the debug thread's `server_loop()`
(`spc`). The debug thread takes the actions of `DyldLock` when it binds a module.
A kernel call on a suspend count is a step, `task_resume()` and `task_suspend()` in the
loops of a debugger each time (`ResumeTaskMore`, `RestoreTask`); only the loops of
`thread_resume()` and `thread_suspend()` over one thread, in `ResumeDebugThread`,
`RestoreDebugThread` and `SuspendOwner`, are one step for all their calls. `todo` is the part of the thread
array a loop has still to visit; its order is left open. `resumed`,
`resumeCount` and `left` are the locals of `server_loop()`. A query stands for
the requests that read dyld's data with `inconsistent_data_ok` FALSE; a bind is
`server_dyld_debug_bind_module()` for a library module that is not yet linked.
A timed-out request stays in the port and is served later, its reply dropped.

**DebugStart** is the start: each debugger looks at the section, suspends what
threads it finds, resumes the task, creates a thread, polls, and undoes its
suspensions; each created thread runs `start_debug_thread()`. A port is named by
the thread that allocated it.

**DyldCallouts** is what dyld does between `set_lock()` and `release_lock()`
where it gives the lock up in the middle. `holder` is the thread that is *in* by
`LinkEditLock`. `images` are the lists of object and library images, in order,
with the module's link state and bits; an unloaded bundle leaves a cleared entry
that the next one reuses, as `new_object_image()` does. `at[t]` is the frame of
thread t: the `phase` (which loop), the `mode` (looking for the next image,
outside in a user's function, just back from it), the list and position, the
function, and the image it began with. `calls` notes which of the user's functions were
called (how often, for initialisers and terminators). An operation that links goes through the
loops of `link_in_need_modules()` in their order: `add` (functions for added
images), `link` (functions for linked modules), `init`. `CallOut` and `Return`
are the two sides of a dropped lock; each continues with what it finds then:
the next function of the list as it is now, objects searched from the first
again, libraries from where they were. The number of initialisers is read once
before them, their address from the entry before each call, so the image of a
call can be that of another bundle by then, or `None` where the code would read a
cleared entry. `Launch` is `_dyld_make_delayed_module_initializer_calls()`,
`UnlinkModule`, `Terminate` and `RemoveImage` are `_dyld_unlink_module()`, `Exit`
is `_dyld_mod_term_funcs()` with its `clean_pass`. A library has one module and
no initialisation routine of its own; a function that itself calls dyld is
represented by a call of another thread. Where a function that is being registered is called
for the images there are (`Walk`) the program reads the entry after it has released the
lock (`register_funcs.c:121`, `:131`), the model before: the image it is called for can
be another one only if the entry is reused in between, and no property says for which.

**DyldLink** is linking itself. `objects` and `libs` are the image lists in their
order (an UNUSED entry is `None`), `private` and `remove` their flags, `state` the
link state of each loaded module, `bound` what its references point to.
`undefined` and `beingLinked` are the two lists, entry by entry, with
`remove_on_error`. `at[t].phase` is how far thread t is in `_dyld_link_module()` or
`_dyld_unlink_module()`: `link` (the images are loaded), `resolve`, `relocate`,
`report`, `handler` (the user's undefined handler runs, the lock is free),
`backOut`. Each round of the loop of `resolve_undefineds()` is a `Resolve`. A link
that fails with `return_on_error` goes back through `clear_state_changes_...`,
`clear_being_linked_list(TRUE)`, `clear_undefined_list(TRUE)`,
`unload_remove_on_error_libraries()` and `unload_bundle_image()`: `BackOut`, or, when
an entry in the list is not to be removed, `BackOutForever`, which stays in the loop
at `symbols.c:956`. Without `return_on_error` the error ends the program (`Exit`).
A bundle that is public and itself defines a symbol twice does not come that far:
`LinkObjectFails` unloads it and leaves the libraries loaded for it, whose marks
`release_lock()` clears with `return_on_error` (`Release`, `lock.c:179`).
A handler that links is a link by another thread: the lock does not tell them
apart; there is no multiply defined handler. Where two modules of one library refer to
one symbol the program lists it once (`symbols.c:812` compares the pointers of
names), `WithUndefined` for each; no property tells these apart. `before` is a copy of what a failed link has to leave as it was.
`WithoutRemoveOnError` unloads the first marked library *and all behind it*, as the
code does. Parts of lists are taken with `Filter`, and functions laid over each other
with `Over`, so that the module can be proved about.

**DyldEvents** has the operations of `DyldLink` reduced to the images and link
states they pass through, and the events in the order the code sends them:
`at[t].events` are those still to be sent, each a step `SendEvent`, in which every
port of `event_port_list` that is reached gets it. `PortsAfterSending` is the
loop with its deletion: a dead entry is taken out only behind a live one, while a
dead head keeps its place with a null port and ends the walk from then on.
`Subscribe` is one step, because the debug thread serves it alone (this is
`ServedConsistently` of `DyldDebug`). `known` and `knownBound` are what a
subscriber has been told.

**Dlopen** has the list of handles, their counts and modes, and of dyld the linked
modules and which are private. A call stops where user code runs (`link`: what
`NSLinkModule()` calls; `init`; `fini`; `unlink`) and other callers go on there.
`refs` counts how often the program has a handle. Memory of a freed handle and the
entry of an unlinked module are used again.

**Weasel** has the list of breakpoints, the words of the inferior's memory they
stand for, its threads' places and what the kernel keeps: who waits for a reply to
an exception, the queue of exceptions, the suspend count of thread 0. `mode` is
where the command loop is; `loop` is `delete_breakpoint()` going round.

### Constants and bounds

| Constant | Meaning | Value in the runs | Why enough |
| --- | --- | --- | --- |
| `Threads` | the program's threads | 2 or 3 | an owner, one that waits for it, one that has exited or comes late; the proofs cover any number |
| `Stacks`, `Depths` | stacks, pages per stack | 1 to 3, 1 or 2 | one stack fewer than threads makes a stack change hands; two pages make the cache hit and miss |
| `StacksRecycled` | a new thread may get an old stack | both | |
| `Handlers` | handlers installed | none, one, both | |
| `Clients`, `MaxRequests` | debuggers, requests of each | 1 or 2, 1 or 2 | a second request meets what the first left; a second debugger overlaps the first |
| `Timeouts`, `SleepLongEnough` | may a request time out, is `usleep(20000)` long enough | both | the second isolates what depends on real time |
| `Debuggers`, `Starters`, `MaxCalls` | as their names say | 2, 2, 1 | two overlapping starts, each with a thread of its own |
| `HeldCount` | suspensions of the task before the calls | 1 | the first `task_resume()` succeeds, the other fails |
| `PortsMayFail` | may `mach_port_allocate()` fail | both | |
| `Bundles`, `Libraries`, `Unbound`, `Needs` | what is linked, at launch and later | 2 bundles, 2 libraries; one library is bound late, by itself or with the first of the bundles, which both need it | an entry is freed and reused; a module of each kind is met by another thread in each state |
| `Functions`, `Routines` | registered functions; initialisers per image | two for added images, one of each other kind; 2 in each bundle, 0 or 1 elsewhere | the second goes behind the first while the first is being called; between two initialisers of one bundle its entry may change; an image without any takes the other branch |
| `CallsDuringLaunch` | may a thread link before `main()`? | FALSE | see "other instances" |
| `Bundles` ... `ByName` of `DyldLink` | bundles with the libraries they load, what modules define and need | 4 bundles, 3 libraries, one of them missing; links fail for that library, for a symbol defined twice, for one nobody defines; a symbol is defined only by a bundle that comes later | each way to fail, before and after states were saved, lists filled and libraries loaded; the handler runs with an entry left in the list |
| `LinkOptions` | (return on error, private) | all four; `LinkHangs` only both TRUE, as `dlopen()` links, and both FALSE, as a handler does | every way out of a failed link |
| `Subscribers`, `Inconsistent`, `MayStop` | debuggers; with `inconsistent_data_ok`; that may die | 3, 1, 1 | list head, middle and end; one behind a dead one |
| `Failing`, `Unlinks`, `Referenced` | bundles whose link fails; that are unlinked; that others need | 1, 1, 1 | a failed link with its libraries; an unlink with the handler between event and unloading |
| `Callers`, `Files`, `Handles`, `Modules`, `MaxRefs` | nested calls; bundles; memory | 3, 2, 3, 3, 2 | two calls inside a third; a handle freed and its memory reused; an unshared one beside a shared one |
| `FiniReopens`, `HeadMayStop` | may `__fini` open its own file; may the head of the port list die | FALSE | see "other instances" |
| `Addresses`, `MaxBreakpoints`, `MaxQueue` | places, breakpoints ever set, exceptions queued | 2, 4, 2 | two breakpoints at one place, set again after a deletion; both threads in an exception |

Threads start once, so the sets `Threads` and `Starters` bound how many there
are over time. `MaxRequests`, `MaxCalls`, `MaxRefs`, `MaxBreakpoints` and `MaxQueue`
bound counters in the guards. Nothing else is bounded.

### Fairness

*DyldLock* (`FairSpec`): a runnable thread takes its next step inside a lock
function (weak fairness; the kernel schedules). A thread that spins on
`global_lock` gets it if it is free again and again (strong): it yields
between tries so that the holder runs (`lock.c`, `yield()`), and the critical
regions are a few instructions. A handler returns and an operation ends
(strong, since a suspension interrupts it). Threads need not call at all, and
waiting for `dyld_lock` itself has no fairness of its own, so a single thread may
wait for ever while others pass it; `WaitersGetIn` says only that somebody gets in.
*DyldDebug* (`DFairSpec`): the same, and debuggers and debug thread go on.
*DebugStart* (`FairSpec`): a debugger need not call, but a call it has begun
goes on, and created threads run when not suspended. A debugger gives up (100
tries, each a `thread_switch` of `min_timeout * 10000`) only when everybody else
waits too.
*DyldLink* (`LiveSpec`): the thread that has the lock takes its next step (weak);
nothing is assumed of the user's handlers or of who calls. *Weasel* (`LiveSpec`, in
no run): threads that can run do, and the user continues.

## 3. Runs

Passing runs:

| Run | Shows |
| --- | --- |
| `DyldLock` (501k states) | three threads with a stack each: mutual exclusion; while `dyld_lock` is set the owner word is the thread inside, or null while it is unlocking; a thread with the lock is never made to wait for it; only a thread that calls from its own handler is killed; calls let in without the lock come from the handler of the thread that has it, and are never refused there |
| `DyldLockLive` (3.6k) | a leaving thread gets the lock released, in the child of a fork too; a waiting thread gets in or sees others get in; `DyldLock` implements `LinkEditLock` |
| `DyldDebug` (121k) | two requests in a row, a link edit handler installed: nobody else runnable and nobody inside while one is served; suspend counts restored; a request received while `global_lock` is free is served to its end |
| `DyldDebugTimeout` (764k) | with time-outs, both handlers and a short sleep the program's threads still see the promised lock. Deadlock is not checked: a thread can be left suspended |
| `DyldCallouts` (1.5M, up to symmetry) | two threads link two bundles, bind a library, register functions, unlink and exit in all orders: every initialiser is called at most once (but for a bundle's second and later ones when entries are reused, see "other instances"), and has been once nobody is in dyld; no module is left half linked then; a function for added images has seen every image; terminators of modules that stay run once, and all by the end of `exit` |
| `DebugStart` (28k) | two overlapping starts leave all counts as they were; a start that gets no port leaves no dead thread in the section; calls whose threads get their ports find a debug thread, so the mutual wait the comment at `dyld/debug.c:385` fears is not there, but only because the lock it speaks of is never taken (see `SectionNamesServer` below) |
| `DyldLink` (103k) | links, public or private, to return on error or not, binding by name and unlinking: a failed link leaves images, states, lists and pointers as they were, and one whose own symbols are defined twice, which leaves its libraries, leaves them unmarked and not linked and nothing else; nothing is half bound when nobody is in dyld; handlers are not asked for what a linked module defines, and for each module left half bound they are asked for something; what a module points to stays loaded |
| `DyldEvents` (411k, up to symmetry) | three debuggers, one of which may die, subscribe while two threads link, fail to link and unlink: each knows every image there is, and what it knows is mapped; modules taken for bound are bound |
| `Dlopen` (394k, up to symmetry) | nested opens and closes of two files: a handle is in the list, counted right, linked, from its file and of its mode as long as the program has it; nothing else is linked when no call is under way |
| `Weasel` (66k, up to symmetry) | breakpoints set, hit and deleted, two at one address too: the saved words lead back to the instruction; at the prompt thread 0 is suspended exactly once, and runs while weasel listens |

Every property above is violated when a plausible mistake is made in the code it
is about; the mutated definitions stand before the right ones in the modules and
are paired with properties in `PROJECT.json`.

Runs that end in a counterexample show where the code differs from what its
comments and manual say:

| Run | What happens |
| --- | --- |
| `UsedUninitialised` | a thread that links a bundle passes over it because another thread, linking something of its own, is calling its initialisers at that moment with the lock released; nothing waits for them, and the program gets the handle of a module still INITIALIZING (`mod_init_funcs.c:282`) |
| `LinkHangs` | while the undefined handler of one operation runs, a link with `LINK_OPTION_RETURN_ON_ERROR` fails; `clear_undefined_list(TRUE)` does not remove the entries of the first, and does not step over them: it loops for ever with the lock taken (`dyld/symbols.c:956`; `dyld/dyld_libfuncs.c:916` speaks of just this case) |

`LinkHangs` is a liveness counterexample: the thread that has the lock keeps taking
steps and stays in the loop.

### Other instances

Each of these is another constant, or another property of the module, in a
configuration above. They hold:

* `DyldLock` with three threads on two stacks, `StacksRecycled` TRUE, so that cached
  ports go stale: `MutualExclusion`, `KilledOnlyOnReentry` and the inductive invariant
  `LockInv` (25k states).
* `DyldCallouts` with `Needs <- LoadsNew` and one bundle, which loads a library that
  was not there at launch: every property (484k states); with one bundle and two
  functions for linked modules (`TwoForLinked`), too (601k).

And these are violated, each showing something about the code:

* `ReentryIsDetected` with `StacksRecycled`, two threads and one stack: a thread takes
  the lock under the port of a finished thread, cached for the stack it was given; it
  calls again from its handler, from another page, is not recognised and waits for
  itself (`lock.c:79`; comment at `:49`).
* `RequestsAreAnswered` with `Requests = {"bind"}` and no handlers: the debug thread,
  binding, spins on a `global_lock` held by a suspended thread although `set_lock()`
  means to spare it that (`lock.c:59`, `:265`).
* `SectionNamesServer` in `DebugStart` with `PortsMayFail` FALSE: `debug_thread_lock` is
  tested and never taken (`debug.c:394`): two debug threads start, and the section
  ends with the thread of one and the port of the other (`debug.c:397`).
* `LinkFunctionsSeeAll` in `DyldCallouts`: a function registered while a module's
  initialisers are running is not called for it by the registration, which skips
  what is not yet LINKED, nor later, as the module is past that loop
  (`register_funcs.c:359`).
* `CalledOnce` without `MayBeMistaken`, three bundles: exit calls the first terminator
  of b1 with the lock released; b1 is unlinked and b3 gets its entry; exit reads the
  entry again and goes on with the *second* terminator of b3, and the next pass calls
  both of b3's. Initialisers are read the same way (`mod_init_funcs.c:307`; "If this
  module's termination routines have already been called then slip it. Otherwise mark
  it and call the routines", `_dyld_mod_term_funcs()`). The property exempts
  just these routines: a bundle's second and later, once an entry was reused.
* `SuspendCountsRestored` with both handlers: in `multiply_defined_enter()` the
  program's threads return early, so a resumed thread does not suspend itself
  there as `server_loop()` takes it to (`debug.c:298`). With two `Clients` and no
  handlers: one debugger's `while(task_resume(...))` undoes the other's
  `task_suspend()`, whose call fails half-way (`libdyld/debug.c:772`).
* `LinkedIsInitialised` with `CallsDuringLaunch` TRUE: a module linked during the
  delayed initialisers, behind the loop that makes them, is never initialised:
  `delay_mod_init` is still TRUE for its linker (`mod_init_funcs.c:119`). The run
  has FALSE, so it speaks of programs whose initialisers link nothing.
* `OwnerIsHolder` with `StacksRecycled`: the owner word is a dead thread's port
  while its successor on the stack is inside (`lock.c:268`; `notes:2721` promises
  "vaild or THREAD_NULL").
* `ServedConsistently` with `SleepLongEnough` FALSE: a thread preempted for 20 ms
  between releasing the lock and suspending itself runs during the request
  (`debug.c:667`).
* `ServedConsistently` with two `Clients`: one debugger's resuming lets a thread
  into dyld while the other is served data said to be consistent.
* `RequestsAreAnswered` with `Requests = {"query"}`: the owner is resumed, but a
  third thread was suspended with `global_lock` taken; owner and debug thread spin
  for ever (`debug.c:652`). That is why `AnsweredIfGlobalFree` has its condition.
* `AllChangesBackedOut` of `DyldLink`: "allow all changes to be backed out if an error
  occurs" (`dyld_libfuncs.c:778`), but a public bundle that defines something twice is
  unloaded and the libraries loaded for it stay (`:883`). `FailedLinkBacksOut` says what
  becomes of them: unmarked, not linked, and so never unloaded. It holds
  with `LinkOptions <- PrivateOrPublic`.
* `UndefinedIsWhatIsMissing` with `~Found(i)` in place of the second line, that handlers are asked
  for nothing that *any* module loaded defines: a library that such a link has left may
  define a symbol on the list, and is linked only when something looks for it again
  (`errors.c:141` reports without looking). It holds with `PrivateOrPublic`, too.
* `InitRoutineIsLinked` of `DyldLink`: `init_bound` of a library is not reset when
  a link is backed out, so the next link takes the initialisation routine's module
  for bound (`symbols.c:1825`).
* `BoundStayLoaded` and `UndefinedIsWhatIsMissing` with `Unlinks = {"b3"}`, a public
  bundle that others refer to. Its symbols are put on the undefined list, but not removed
  ("remove the defined symbols in the module", `images.c:2250`): while the undefined
  handler runs, any link finds them in the bundle on its way out and binds to it; the list
  is empty then, nothing is reported, and the bundle is unloaded with pointers to it left.
* `ImagesAreKnown` with `HeadMayStop`: subscribers behind a dead first one get no
  more events ("sends the specified event to all the event ports", `debug.c:1424`).
* `PastEventsComplete`: the event of a module that is being initialised was sent
  before the subscription, and the past events leave it out (`debug.c:1364`).
* `StaleFromUnload`: a debugger that subscribes during the undefined handler of an
  unlink is told of an image whose removal was already sent (`images.c:2241`).
* `OpenHandlesWork` with `FiniReopens`: a `dlopen()` of its own file inside `__fini`
  counts the handle up again, and `dlclose()` frees it all the same (`dlopen.c:356`).
* `SearchesEnd` of `Dlopen`: `continue` at `dlopen.c:123` skips the step to the next
  handle; the search that meets an unshared handle of the file never ends.
* `OneSharedHandle`: a `dlopen()` inside what linking calls makes a second handle.
* `DeletingEnds` of `Weasel`: the loop of `delete_breakpoint()` has no step to the
  next breakpoint, so only the newest one can be deleted, or hit
  (`src/trunk/weasel/weasel.c:315`).
* `StoppedThreadsGoOn` of `Weasel` under `LiveSpec`: an exception of a thread other
  than thread 0 aborts thread 0 and is never answered, since the reply is commented
  out (`weasel.c:357`, `:383`); with one thread it holds.

## 4. Proofs

Everything here is checked for every value of the constants that the assumptions of
the modules allow: any number of threads, stacks, debuggers, images, subscribers,
files, handles and breakpoints. Each inductive invariant was checked by TLC before it
was proved. Where a theorem has a hypothesis of its own, the instance without it is
in the list of violations above.

| Module | Theorem | States | Under |
| --- | --- | --- | --- |
| `DyldDebug_proofs` | `LockInvariant`, `TypeCorrectness` | `LockInv`, `TypeOK` | |
| | `MutualExclusionHolds`, `KilledOnlyOnReentryHolds` | `MutualExclusion`, `KilledOnlyOnReentry` | |
| | `KeepsPromiseHolds` | `Spec => KeepsPromise`, the refinement of `LinkEditLock` | |
| | `OwnPortsInvariant`, `OwnerIsHolderHolds`, `ReentryIsDetectedHolds`, `PeekOnlyInHandlerHolds`, `AllowedCallGoesInHolds` | `OwnPortsInv`, `OwnerIsHolder`, `ReentryIsDetected`, `PeekOnlyInHandler`, `AllowedCallGoesIn` | `~StacksRecycled` |
| | `DebugInvariant`, `DebugTypeCorrectness` | `DebugInv`, `DTypeOK` | |
| | `DebuggedKeepsPromise` | `DSpec => KeepsPromise`, the same refinement, debugged | |
| | `RequestInvariant`, `ServedConsistentlyHolds`, `OnlyDebugThreadRunsHolds`, `SuspendCountsRestoredHolds` | `RequestInv`, `ServedConsistently`, `OnlyDebugThreadRuns`, `SuspendCountsRestored` | `OneDebugger` |
| `DebugStart_proofs` | `StartInvariant`, `StartTypeCorrectness`, `StartKeepsCountsHolds`, `NoDeadThreadFoundHolds` | `StartInv`, `TypeOK`, `StartKeepsCounts`, `NoDeadThreadFound` | |
| `DyldEvents_proofs` | `EventsInvariant`, `EventsTypeCorrectness`, `ImagesAreKnownHolds`, `KnownAreMappedHolds`, `BoundAreKnownHolds` | `EventsInvariants`, `TypeOK`, `ImagesAreKnown`, `KnownAreMapped`, `BoundAreKnown` | `~HeadMayStop` |
| `Dlopen_proofs` | `DlopenInvariant`, `DlopenTypeCorrectness`, `OpenHandlesWorkHolds`, `NothingLeaksHolds` | `DlopenInv`, `TypeOK`, `OpenHandlesWork`, `NothingLeaks` | `~FiniReopens` |
| `DyldCallouts_proofs` | `TypeCorrectness`, `AddFunctionsHaveSeenAll`, `NothingIsHalfLinked` | `TypeOK`, `AddFunctionsSeeAll`, `NothingHalfLinked` | |
| | `ExitHasTerminatedAll` | `ExitTerminatesAll`, an action property | |
| | `EachIsCalledOnce` | `CalledOnce` | |
| | `LinksCompletely` | `LinkedCompletely` | `~CallsDuringLaunch` |
| `DyldLink_proofs` | `LinkTypeCorrectness` | `TypeOK` | |
| | `LinkInvariant`, `NothingHalfBoundHolds` | `LinkInv`, `NothingHalfBound` | |
| | `FailedLinkBacksOutHolds` | `FailedLinkBacksOut`, an action property, for a missing library, in resolving and when the bundle's own symbols are multiply defined | |
| | `BoundInvariant`, `BoundStayLoadedHolds`, `UndefinedIsWhatIsMissingHolds` | `BoundInv`, `BoundStayLoaded`, `UndefinedIsWhatIsMissing` | `UnlinksSafely` |
| `Weasel_proofs` | `WeaselInvariant`, `WeaselTypeCorrectness`, `InstructionsAreKeptHolds`, `ContinueContinuesHolds` | `WeaselInv`, `TypeOK`, `InstructionsAreKept`, `ContinueContinues` | |

**Assumptions on the constants.** Those of `DyldLock`: the debug thread is not one of
`Threads`, the null port is nobody's, the null stack is no stack. `ClientsAssumption`
of `DyldDebug` has the threads, all there from the start, on stacks of their own.
`StartersAssumption` of `DebugStart` has finitely many debuggers, for a suspend count is
how many of them suspend a thread. `EventsAssumption` of `DyldEvents` keeps bundles,
the images at launch and the libraries that are loaded apart. `CalloutsAssumption` of
`DyldCallouts` has the libraries of the launch in a list, each once, a number of routines
for each image, and the executable, the bundles and the libraries apart, for a Mach-O file
is of one of these types; routines may be missing as they like. `LinkAssumption` of
`DyldLink` has the same, each module in one library, an initialisation routine's module in
its own, finitely many symbols defined by a module, libraries of the launch that can be
loaded, and an executable that refers to nothing: it has been linked at launch, and no
library is linked then yet. Who defines and needs what is open.

**The lock.** `MutualExclusion` alone is not inductive. A thread
stores TRUE in `dyld_lock` some steps after it tested it, so the invariant has to
say that a thread at `"setTake"` still sees it FALSE; that is because it holds
`global_lock` (`InGlobal(t) => globalLock`) and is alone with it, and because
who holds `dyld_lock` has it TRUE (`LocksInv`). A thread in a handler is outside
and inside at once: `HandlerInv` says it can only be calling in, never at the
stores that take the lock. That nobody is killed for another's port is the
subtle part, since ports do go stale: `IdentityInv` says a port taken from the
cache, right or stale, is that of a thread that was given the *same stack*, and
that the owner word names a thread that shares its stack with the present
holder. `StacksInv` says live threads do not share stacks. So if the owner word
equals the port a thread takes for its own, that thread and the holder are on one
stack, hence are one thread, and it is calling from its handler.

The proof has one lemma for each part of the invariant that a step can disturb, with
a step per action, on top of two about what `dyld_mach_thread_self()` returns
(`ResolveReturnsAThread`) and about steps that move no stack
(`ThreadStepKeepsStacks`). `KeepsPromiseHolds` is a step simulation: the others keep
their phase (`OthersKeepTheirPhase`), the one that steps goes round out, waiting, in,
out, and goes in only past nobody (`OwnPhaseStep`); the fork is `Fork`. It needs no
hypothesis on stacks.

What a thread reads *without* a lock needs more: that the owner word is the thread
itself. With recycled stacks that is false, so `OwnPortsInv` is proved under
`~StacksRecycled`: no two threads ever had one stack (`OwnStacksInv`), so every cached or
kept port is its thread's own; the owner is stored before `dyld_lock` (`OwnerInv`), and
the flag of the multiply defined handler is set as long as a thread is in it
(`HandlerFlagInv`).

**The debug server.** `DebugInv` has the lock's invariants again with a thread more,
the debug thread, which goes through `set_lock()` without taking anything but
`global_lock` (`DLocksInv`, `PlacesInv`), and with suspensions at any step. A step of
`DyldDebug` is one of a thread, one of the debug thread in `lock.c`, or one that leaves
the lock alone (`StepIsOneOf`), so the lock keeps its promise whatever debuggers do, with
time-outs too.

That a request is served *alone* is not true in general: two debuggers undo each other's
suspensions, a short sleep or a handler lets a thread slip. `OneDebugger` says
there is one debugger, its requests do not time out, `usleep(20000)` is long enough and
no multiply defined handler is installed; a link edit handler may be. `RequestInv` then
says each thread's count: one for the debugger from `SuspendThread` to
`ResumeThread` (`HeldBy`), except for the thread that `server_loop()` lets run, whose
count is 0 or 1, and 0 only while it is in the linker or in the end of
`release_lock()` (`CountsInv`). So the thread `thread_info()` looked at is still the
owner when it is resumed, and one `thread_resume()` is right; it runs on until it suspends
itself, because the debug thread is waiting from before it looks until after it
has slept (`ServerInv`). `WhoMayRun` puts it together: a thread that can run is either
outside every request or the one let run.

**The start of the debug thread.** `StartKeepsCounts` says each count is what it was
when nobody calls. `StartInv` says what it is meanwhile: `suspendCount[t]` is the
number of debuggers that suspend t (`CountInv`, `OneMoreOrLess`), and the suspensions of the
task together with the debuggers that have resumed it make `HeldCount` (`TaskInv`).
Counts go astray when a thread that was found is gone before it is
resumed, so `ExistInv` is part of it. `NoDeadThreadFound` is about a debugger on its own
(`Alone`): `SectionInv` says whom the section names step by step, and `OneStarter` that a
call does not end before its thread serves or has died. A task suspended more than once
never runs between these calls (`NoneRuns`), which is a case of its own.

**Events.** A subscriber's knowledge lags behind the lists. `KnownInv` says by what: an image that is
there is known, or its event is pending, or its removal is under way (`Leaving`); what is
known is there, or its memory is kept, or an unloading began before the subscription.
`EventsInv` says which events can be pending in which phase, `FramesInv` that two threads
are not about one bundle and that UNLINKED images belong to a link under way, `PortsInv`
that a live head keeps every live subscriber in the list. `SendingReachesAll` is what the
loop of `send_event()` does to the list; it is false behind a dead head, hence
`~HeadMayStop`.

**dlopen.** `DlopenInv`: an allocated handle has a module to itself, linked from its file,
private as its mode says (`HandlesInv`); a call under way is alone with its module or
handle (`CallsInv`); a count is how often the handle is open, one more in its first
`init`, and zero exactly while it is closed (`CountsInv`); a linked module has a handle or
is getting one (`ModulesInv`). A `dlopen()` inside `__fini` of the same file breaks
`CountsInv`, hence `~FiniReopens`.

**Registered functions, initialisers, terminators.** The argument is always that *an
obligation is some thread's work*: what an image or module has not had yet, a thread in
the middle of a loop will come to. `Before` says that the place of a loop has not passed an
entry; `ComesTo` adds that objects are searched from the first again after a call. For
added images, `AddInv`: an image not registered yet has a thread in the `add` loop that
comes to it; a registered one has had each function of the
list called, or its linker will still call it (`StillToAdd`), or the thread that registered
the function walks towards it (`StillToWalk`). For link states, `HalfInv`: a module that is
RELOCATED, REGISTERING or INITIALIZING has a thread that takes it further (`HalfWork`).
`NothingHalfLinked` follows, since nobody is in a loop when all are out.

`LinkedIsInitialised` also needs the launch. `LaunchInv`: until the delayed initialisers were
called nothing is between two states, and one thread makes these calls; it is false when
a function called during the launch links something, hence `~CallsDuringLaunch`.
`CallsInv`: of a module that is past its initialisation each initialiser was called or is among those its thread
still has to call (`InitialisedOrPending`).

`ExitTerminatesAll` is about the last pass. `TermInv` says that a module marked as
terminated has had its calls or is being called (`TermAt`), and that a pass that is still
clean has left nothing behind it to be terminated (`CleanAt`): it has called nothing, so it
has held the lock since its first entry and no other thread has linked anything (`Holding`).

`CalledOnce` is the other side: not that a call is made but that it is not made again, and
no mark in a module says that of it, since an entry of `object_images` may go to
another bundle while a thread calls. `OnceInv` says of each routine that it was not called, or was
called once and is done with (`Done`): its image is gone for good, or it is in an entry whose
routines have been begun and where no thread still comes to this one (`DoneAt`). A
call is then always of one that was not called: `WorkInv` has one thread at most at an entry
that was begun, the exception being entries that may have changed hands
(`Changing`), which is `MayBeMistaken`. `PlacesInv` says that an image is in one entry and that
the list is no longer than there were bundles, so that an entry that is used again makes
`EntryReused` true; `HandlesInv` that what is unlinked was given up by the program; `DelayInv`
that one thread makes the delayed calls. `EntriesStep` is what any step may do to the
entries, `CallKinds` which routine a step may call; the rest of the proof does not look at
the actions again.

All of it rests on `TypeInv`: places, frames and functions are in their lists, no function
is in a list twice, an entry in use has an image.

**Linking.** What a failed link leaves depends on what it found, so `BeforeInv` follows
it from its first step: since `before` was taken the images have grown at their ends, by the bundle
and by libraries that are marked, all of them and no other (`ImagesSince`); a state that
changed has been saved (`StatesSince`); no pointer of an older module has changed, because
pointers change only in `Relocate`, which such a link reaches when it can no longer fail.
The saving is what `SavedWith` does, except for modules in marked libraries, which go
anyway. Of all this `BackOut` takes away just what is new and restores what was saved
(`BackOutRestores`). A public bundle is found by its own lookups, so its state may be among
those saved. Until the bundle is linked nothing else has been (`FreshSince`): when it is
multiply defined, what is there since is libraries that are only loaded, and
`release_lock()` clears their marks (`LinkObjectFailsLeaves`).

`NothingHalfBound` speaks of the moment when nobody is in dyld; what brings it about is an
obligation again. `OwedInv`: as long as something is undefined, some thread has
still to report it. `ProvidedInv`: each symbol a half-linked module needs is on the list or
defined by a module that is linked, the bundle that is looked at left aside: it is `UNUSED`
until then (`Hidden`), and taken away when it is multiply defined. `AskedForInv`: after relocation a module that is still half linked
has one of its symbols on the list, since otherwise `Relocate` would have found all of them
and finished it. With the list empty nothing is half linked.
A failed link of one thread must not take away what another waits for. The entries of
that one are not marked (`ListsInv`), so `Removable` is FALSE and the failed link
stays in its loop: `LinkHangs` is what this safety rests on. `ListsSince` is
that argument, and after a `BackOut` nothing was half linked before either.

What pointers point to is the second half, `BoundInv`. Two things take modules away: the
backing out and an unlinking. Modules that stay after a backing out do not point to those
that go, since they have the pointers they had before the link (`SinceInv`), and a lookup
skips private images, so nobody is bound to the private bundle of such a link (`SoundInv` has this
for all pointers, `ListedInv` for what is still to be bound); a public one goes before
`Relocate`, or before it is linked at all. An unlinked public bundle is
harder: it is found by lookups until it is gone. `PointersInv` says that a pointer leads to
a definition of a symbol that is needed, and `UnreferencedInv` that when the bundle goes
nothing linked needs what it defines. That is where `UnlinksSafely` comes in: without
a handler a bundle that is referred to ends the process, with private links only there is
no public bundle, and otherwise nothing refers to what is unlinked. With a handler, and
references, it is false: see the instance with `Unlinks = {"b3"}`.
`UndefinedIsWhatIsMissing` needs `SettledInv` besides, that what has been reported is defined
in no linked module, in the bundle on its way out least of all; a library that a failed
link has left may define it, but is not linked.
The instance of the run `DyldLink` satisfies the hypothesis.

**weasel.** `InstructionsAreKept` is a chain along the list and inductive with the order of
numbers (`NumbersInv`). `KernelInv` relates the command loop to the suspend count, the reply
thread 0 waits for and the queue.

**SequenceLemmas.** No theorem by induction on the length of a list can be stated
with the provers at hand. What is needed of `Min`, `RemoveAt`, `SetToSeq` and the like
follows without: from the least member of a set of numbers (`MinIsLeast`), from places one
by one, and for the order of places in a list from cardinalities (`PlacesHaveAnOrder`).

**Only model-checked:** the liveness properties (`ReleaseCompletes`, `WaitersGetIn`,
`AnsweredIfGlobalFree`, `EveryCallFindsAServer`), which need fairness; the requests that
`OneDebugger` excludes, as far as anything holds of them.

## 5. What is not modelled, and why

* Core files (`core_image`): the debug thread then skips the lock altogether.
* Failures of the kernel other than those named (no memory, a dead task).
* Threads that end while a debugger works on them (`task_suspend_threads()` then
  returns with the others suspended), listed as a hazard.
* The number of tries of a poll: whether a debug thread that appears at the
  hundredth is reported as missing (`libdyld/debug.c:1162`) is a hazard without a
  property.
* `lock_in_linkedit_error_handler` is modelled, without a property: it is set only
  by the debug thread and never cleared (`debug.c:318`, `:321`).
* Initialisation routines of images, `_dyld_call_module_initializers_for_dylib()`,
  and `_dyld_moninit()`; that the loops of `DyldCallouts` come to an end (objects
  are searched from the first after each call, so a program that links without
  end keeps them busy).
* How an operation loads, resolves and relocates: one step in `DyldCallouts`, the
  steps of `DyldLink`. What is done before the callouts and what after them is not
  composed in one model: `DyldLink` ends where `DyldCallouts` begins.
* In `DyldLink`: the multiply defined handler (none is installed), prebinding, two-level namespaces and hints, weak and coalesced
  symbols, lazy references and full binding, reading and mapping of files, and the
  lock dropped for `object_image_register()` (`dyld_libfuncs.c:836`), which only
  ZeroLink installs.
* In `DyldEvents`: a library module that is bound separately from its library;
  `_dyld_debug_add_event_subscriber()` on the debugger's side, which takes
  DYLD_INCONSISTENT_DATA for success since it looks for DYLD_FAILURE only.
* In `Dlopen`: `dlsym()` and `dlerror()`; calls of threads that run at the same time,
  for which `dlopen.c` has no lock at all, so that every property would fail.
* In `Weasel`: the symbol table, disassembly and profiling, failures of
  `thread_suspend()`, signals.
* The file-processing programs (section 1): sequential, and about data more than
  control. Most of the repository's lines are two copies of llvm-gcc and the test
  suites and libraries in them, third-party code; the models cover the part of the
  rest that has concurrency, callbacks or failure in it.

## 6. Plan

1. Proofs: `RequestInv` with a multiply defined handler that is not entered while the
   debug thread waits.
2. `DyldCallouts` completed: initialisation routines of images, the run-time call
   for one library, and that an operation returns if only finitely many links are
   made, under fairness of the user's functions.
3. Composition of `DebugStart` with `DyldDebug`: `debug_thread` overwritten while
   an earlier debug thread serves; of `DyldLink` with `DyldCallouts`.
4. Pure algorithms against reference definitions: archive symbol search of `ld`,
   relaxation of `as`.
