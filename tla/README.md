# TLA+ models of Dire Wolf's DNS-SD announcement

These modules model the DNS Service Discovery code in `src/src/`:
- `dns_sd_common.c`, the service batch;
- `dns_sd_avahi.c`, the Linux backend;
- `dns_sd_macos.c`, the macOS backend.

They are checked with TLC. The type invariants of both backends, the Avahi group and release invariants and the macOS descriptor accounting are proved with TLAPS.

## The system

Dire Wolf announces its AGWPE port and up to `MAX_KISS_TCP_PORTS` KISS TCP ports on the local network. The parts:

| Part | Code | What it does |
|---|---|---|
| Service batch | `dns_sd_common.c` | `dns_sd_service_count` counts non-zero ports. `dns_sd_create_context` builds `ctx[0..MAX_DNS_SD_SERVICES-1]`: slot 0 is AGWPE, and the configured KISS ports are packed into slots 1, 2, ... Each slot gets a name from `make_service_name` ("base[ channel c][ on host]"). |
| Name collision resolver | `dns_sd_avahi.c` | `create_service` retries `avahi_entry_group_add_service` with `avahi_alternative_service_name` while the daemon says COLLISION. `rename_all_services` renames every slot when a group collision does not say which one collided. |
| Avahi backend | `dns_sd_avahi.c` | `dns_sd_announce` (caller's thread) creates the simple poll and the client. `avahi_client_new` calls `client_callback` synchronously, so `create_services` can run on the caller's thread. After that `avahi_thread` runs `avahi_simple_poll_loop`, which dispatches `client_callback` and `entry_group_callback` until `avahi_simple_poll_quit`, and then runs `cleanup`. `dns_sd_term` (any thread) quits the poll. |
| macOS backend | `dns_sd_macos.c` | `dns_sd_announce` calls `DNSServiceRegister` per slot and keeps the refs that succeed, then starts `process_events`. That thread collects the refs' sockets, opens a stop pipe, selects over sockets and pipe, calls `DNSServiceProcessResult` for readable sockets, and cleans up when the pipe is readable or on error. `dns_sd_term` writes to the pipe. |
| Interface header | `dns_sd_dw.h` | The two service types, and the two calls `dns_sd_announce` and `dns_sd_term` that the rest of Dire Wolf makes. |
| Event loop and shutdown | both backends | A single worker thread per session. Stop requests come from another thread. Teardown is done by the worker, in dependency order. |

`dns_sd_dw.h` and `dns_sd_common.h` hold declarations and constants only. `mheard.h` declares another component whose code is not here. None of the three is modelled.

## Modules

| Module | Models |
|---|---|
| `ServiceBatch` | The batch as operators over an abstract configuration (see below). |
| `AvahiAnnounce` | The Avahi backend: the caller, the poll loop's callbacks, cleanup, the application's `dns_sd_term`, and the daemon. |
| `ContextLoop` | The `for (i = 0, j = 1; ...)` loop of `dns_sd_create_context`, one step per turn, checked against `ServiceBatch`'s closed form. |
| `ServiceBatchProofs` | Lemmas about `dns_sd_create_context` and `avahi_alternative_service_name`, used by both proof modules. |
| `AvahiAnnounceProofs` | TLAPS proofs about `AvahiAnnounce`. |
| `MacAnnounceProofs` | TLAPS proofs about `MacAnnounce`. |
| `ContextLoopProofs` | TLAPS proofs about `ContextLoop`, and that `dns_sd_service_count` agrees with `dns_sd_create_context`. |
| `MacAnnounce` | The macOS backend, with the process's descriptor table. |
| `AnnounceLifecycle` | The abstract contract of both backends (see below), which each backend module instantiates with a refinement mapping. |
| `MC_AvahiAnnounce`, `MC_MacAnnounce`, `MC_ContextLoop` | Constants for TLC. |

### `ServiceBatch`

The configuration is modelled as two functions:
- `cfgPort[k]` means "port k is non-zero", where index 0 is `agwpe_port` and `1..NKiss` are `kiss_port[0..]`;
- `cfgChan[k]` is `kiss_chan`.

A name is a pair `<<stem, n>>`. Every name of a context shares the base name and the host name, so only the channel (the stem) tells two names apart. `n` is the position in the sequence "X", "X #2", "X #3", ... that `avahi_alternative_service_name` produces. `NULL` is `<<>>`.

`ServiceTypes` holds the two service types of `dns_sd_dw.h`, `DNS_SD_TYPE_AGWPE` and `DNS_SD_TYPE_KISS`, as two values. An entry the daemon holds is a type paired with a name.

`dns_sd_create_context` packs the KISS ports with `KissSlot` and `InSlot`, exactly as the `j++` loop does.

The host-name lookup and the 128-byte buffer are not modelled.

`ContextLoop` models the code's own loop:
- `Init` is the `calloc` followed by the AGWPE slot.
- `KissTurn` is one turn. It stores a non-zero `kiss_port[i - 1]` in `ctx[j]` and does `j++`; a zero port is skipped.
- `Returned` is the loop's end.

`ServiceBatch`'s `KissSlot`/`InSlot` form, which both backend models use, is thereby checked against the code's loop, not assumed equal to it.

### `AvahiAnnounce`

The process has three threads, each with a program counter:
- `mpc`, the caller of `dns_sd_announce`;
- `tpc`, `avahi_thread`;
- `apc`, the thread calling `dns_sd_term`.

Allocation states (`ctxSt`, `pollSt`, `clientSt`, `groupSt`) follow the `malloc`/`free` of ctx, the poll, the client and the group. `pollPtr` is the global `simple_poll`. `aptr` is the value `dns_sd_term` read from it.

The daemon's view is `srv` (the server state), `gstate` (the group state) and `entries` (the `<<type, name>>` entries of our group). The other programs' entries are the constant `Others`.

`create_services` is split so that each `avahi_entry_group_add_service` call is a step of its own:
- the entry step (`create_services`: create or reset the group) sets the cursor `cs` to 0;
- `SkipService` and `create_service` advance it one slot per call;
- `CommitGroup` is the commit at `cs = NKiss + 1`.

No other callback can run while `cs # Idle`: the poll thread is inside this call.

Daemon events (`ClientStateChange`, `ClientFailure`, `GroupEstablished`, `GroupCollision`, `GroupFailure`) each run the callback they are delivered to, and only while the loop is running and quit is not set. `ThreadExit` models the loop returning and `cleanup` freeing the group, client and poll. `ThreadCleanupDone` models `simple_poll = NULL` and the freeing of the names and ctx.

`dns_sd_term` on the application thread has two steps. `TermRead` reads `simple_poll`. `TermQuit` calls quit on the value it read.

Disruptions are bounded by `MaxDisrupt`. A disruption is a server leaving RUNNING or a group collision.

`StartThread` is the `pthread_create(avahi_thread)` call. Its result is ignored by the code. When the constant `SpawnFails` is TRUE, the thread may also not start: the caller returns and `tpc` stays `"none"`.

### `MacAnnounce`

Descriptors `0..MaxFd` have owners: `free`, `other` (the rest of the program), `svc` (a ref's socket) or `pipe`.
- Every `socket()` and `pipe()` takes the lowest free numbers.
- Other threads open descriptors and close them, except the ones in `KeptOpen`; this is bounded by `MaxChurn`.
- Variables: `sdRef`, `refFd` and `sdFd` are `svcs->sd_ref`, `DNSServiceRefSockFD` and `svcs->sd_fd`; `stopFd` is `stop_fd`; `lastFd` is `last_fd`, with `Undef` meaning never assigned.
- The select loop is three actions. `SelectStop` is the pipe being readable. `SelectServices` is `DNSServiceProcessResult` on every readable watched socket, where an error from it ends the loop after the pass. `SelectFail` is a non-EINTR error.
- `select()` looks only at the descriptors it was given that are below `nfds = last_fd + 1`.
- `dns_sd_term` is `TermCheck` (the `stop_fd[1] != -1` test) and `TermWrite` (the write, which lands wherever that number now points).
- Daemon replies are bounded by `MaxEvents`.
- `StartEventThread` is `pthread_create(process_events)`, whose result is ignored. With `SpawnFails` TRUE it may fail, and then `process_events` never runs.

### `AnnounceLifecycle` and the refinement

`AnnounceLifecycle` has four variables:
- `phase`: Idle, Running, TearingDown or Stopped;
- `stop`: the stop signal;
- `batch`: the ServiceBatch, which is none, live or freed;
- `handles`: some daemon handle is alive.

It has six actions:
- `Prepare`: setup on the caller's thread builds the batch and creates handles;
- `Start`: the session runs;
- `SetupFail`: Idle goes straight to Stopped and everything is released;
- `RaiseStop`: possible in any phase but Stopped;
- `Teardown`: the worker leaves its loop;
- `Finish`: the last step, which leaves no handle and frees the batch.

`FairSpec` adds weak fairness on a teardown once stop is raised, and on `Finish`.

Each backend module defines `LifecyclePhase` and an `Abstract == INSTANCE AnnounceLifecycle WITH ...` mapping:
- The phase is read from ctx (`ctxSt`), the caller (`mpc`) and the worker (`tpc`): Stopped once ctx is freed, TearingDown while the worker is in its exit or cleanup, and Running once the session is up. The CASE arms are disjoint.
- Avahi: `stop` is `quit`, and `handles` is "the poll, the client or the group is live".
- macOS: `stop` is "`dns_sd_term`'s write reached the stop pipe", and `handles` is "some `sd_ref` is kept".
- `ImplementsLifecycle == Abstract!FairSpec` is checked by `avahi_core` and `mac_core`.
- `ImplementsLifecycleSafety == Abstract!Spec` is checked by `avahi_spawn_safety`.

The stop races found below do not contradict the contract. A lost stop is one that never counts as raised, and a stop written into a reused descriptor does not reach the pipe.

## Runs

| Run | Result | What it shows |
|---|---|---|
| `avahi_core` | pass, 34,028 states | `GroupNamesCurrent`: the daemon never holds a name of ours that is no longer current. `CommittedGroupComplete`: a committed group holds exactly the current entries, distinct and clear of `Others`. `ReleaseOrder`: the free order holds. `StopHonoured`: a `dns_sd_term` that found a poll ends the session. `AnnounceSettles`: every run settles for good (established, or torn down). `ImplementsLifecycle`: the backend implements `AnnounceLifecycle` with its fairness. |
| `context_loop` | pass, 1,728 states | `WriteInBounds`: every `ctx[j]` written by the loop is inside the `MAX_DNS_SD_SERVICES` slots. `ContextAgrees`: the loop returns exactly the packed context of `ServiceBatch`. Every configuration of AGWPE and three KISS ports on two channels is covered. |
| `avahi_term_uaf` | violation | `NoQuitOnFreedPoll`: `dns_sd_term` can call `avahi_simple_poll_quit` on a poll that cleanup has freed. |
| `mac_core` | pass, with `pthread_create` allowed to fail | `FdAccounting`: the descriptor table agrees with the refs and the pipe, and cleanup releases all. `ForeignFdsKept`: no step of the backend takes or closes a descriptor held by the program's other threads, although they open and close descriptors in the same table throughout. `StopHonoured` for macOS. `ImplementsLifecycle`: the macOS backend implements `AnnounceLifecycle`, failed spawn included. |
| `mac_replies` | pass | `ReplyProcessed`: with stdio open and no churn, every reply is read. |
| `mac_nfds` | violation | `ReplyProcessed` fails under churn, because `nfds` is not above every service socket. |
| `mac_stdin` | violation | `ReplyProcessed` fails when a socket is descriptor 0. |
| `mac_term_lost` | violation | `TermStopsThread`: a stop requested before `pipe()` is lost. |
| `mac_stale_fd` | violation | `TermWritesOwnPipe`: after the thread ends, `dns_sd_term` writes into a reused descriptor. |
| `avahi_spawn_safety` | pass | `ReleaseOrder` with `pthread_create` allowed to fail: nothing is freed out of order on any path, including the one where the thread never starts. `ImplementsLifecycleSafety`: every step of that instance is a lifecycle step. |
| `mac_spawn_fail` | violation | `WorkerStarted`: when `process_events` was never created, `dns_sd_announce` returns with refs registered and no worker (spec 65 says a dedicated worker runs). |
| `mac_nfds_unassigned` | violation | `NfdsAssigned`: with no ref kept and `pipe()` failing, `select()` is called with `last_fd` never assigned. |

### Bounds

**Avahi** (`NKiss = 2`, `Chans = {0}`, `MaxDisrupt = 2`):
- There are three slots, so two KISS ports can share a channel or differ.
- `Others` holds the plain AGWPE and KISS names and the "#2" KISS name. Some adds therefore collide twice before succeeding, and a rename can still clash.
- Two disruptions allow a collision during a refill, or a re-registration after a collision.

**Context loop** (`NKiss = 3`, `Chans = {0, 1}`): with three ports, a zero port can come before, between or after configured ones, and all ports can be configured, which is the bound case for `j`. Two channels let neighbouring ports differ in name.

**macOS** (`NKiss = 1`, descriptors 0..6 or 0..5, stdio open, up to 2 replies, up to 2 opens/closes by other threads):
- The table is small enough that `pipe()` and `DNSServiceRegister` both fail for want of descriptors in some runs, and large enough that they succeed in others.

Every action and every disjunct fires in the passing runs. Each property of a passing run is broken by a seeded mutant of the code it is about (`PROJECT.json`, "mutants").

### Fairness

The fairness assumptions, all justified by the code's scheduling:
- Weak fairness on the program's own threads, because a runnable thread is eventually scheduled.
- Avahi, the daemon: weak fairness on it re-reaching RUNNING and on it establishing a committed group. Nothing else forces the daemon to move; error replies and collisions are never forced.
- Avahi, within `create_service`: only the steps that leave quit unset are fair, so a fatal reply is never assumed.
- macOS: `select()` returns when a watched descriptor is readable; its failures are not fair.
- `dns_sd_term` need never be called, but once begun it returns.

## Proofs

`AvahiAnnounceProofs` proves `THEOREM TypeCorrect == Spec => []TypeOK` for all values of the constants. The only assumptions are `BatchAssumption` (`NKiss` ≥ 1, channels natural) and `AvahiAssumption`.

`TypeOK` includes "every active slot has a name". Without that conjunct it is not inductive: `create_service` applies `avahi_alternative_service_name` to `name[cs]`.

The proof rests on the following lemmas, and has one step per action:
- `ContextType` (in `ServiceBatchProofs`): `dns_sd_create_context` returns a well-typed context in which active slots have names.
- `CreateServicesType` and `ClientCallbackType`: these helpers keep the group variables typed.
- `AltNameType` and `EntryType`.

`IInv`, in the same module, is the strengthening that the two group invariants need:
- before `avahi_client_new` returns there is no group, no loop and no thread;
- while `create_services` is in its loop, the group is live and uncommitted and holds exactly the entries of the active slots before the cursor, pairwise distinct;
- a live group holds only current entries, none of them in `Others`;
- a committed group is full, with distinct entries, and the loop is idle.

Neither group property is inductive alone. `CommittedGroupComplete` says nothing about the group while it is being filled, so a step of `CommitGroup` could not be shown to produce a full group. The loop conjunct supplies that: when the cursor reaches `NKiss + 1`, "the entries of the slots before the cursor" is the whole current set. TLC checked `IInv` as an invariant of the `avahi_core` instance before the proof was written.

Proved (`tlapm AvahiAnnounceProofs.tla`, every obligation):
- `IInvariant == Spec => []IInv`: `IInvInit`, `IInvStep` (one case per action), PTL. `CreateServicesInv` and `ClientCallbackInv` are the lemmas for the two helpers several actions share. `ActiveBelowFacts` moves the cursor set from `c` to `c + 1`.
- `GroupNamesCorrect == Spec => []GroupNamesCurrent`, from `IInvariant`.
- `CommittedComplete == Spec => []CommittedGroupComplete`, from `IInvariant`.
- `ReleaseOrdered == Spec => []ReleaseOrder`, from the inductive invariant `Lifecycle` (`LifecycleInit`, `LifecycleStep`, `LifecycleRelease`). `ReleaseOrder` alone is not inductive: `ClientNew`'s failure path and `ThreadCleanupDone` free ctx, and only the program counters say that nothing is alive at that point. `Lifecycle` ties each stage of the caller (`mpc`) and of `avahi_thread` (`tpc`) to the objects alive in it. When `pthread_create` fails (`mpc = "done"`, `tpc = "none"`), it says that either ctx is still live with the poll and client (nothing was ever freed), or the caller's cleanup ran and nothing is alive. TLC checked it on the `avahi_core` instance first.

`MacAnnounceProofs` proves, from `BatchAssumption` and `MacAssumption`:
- `FInvariant == Spec => []FInv`;
- `MacTypeCorrect == Spec => []TypeOK`;
- `FdAccounted == Spec => []FdAccounting`.

`FdAccounting` alone is not inductive, and `FInv` strengthens it:
- `RefsOpen`: a kept ref has a descriptor number. `PopulateFds` copies it into `sd_fd` and `last_fd`, so even the type invariant needs this.
- `CallerStages`: `process_events` has not started while the caller loops, and no slot at or after `ri` has a ref yet. `RegisterService` therefore never overwrites a live ref.
- `PipeNotYet`: `stop_fd` is `<<-1, -1>>` until `pipe()`. `pipe()` therefore finds no descriptor owned by the pipe.
- `TermStage`: the number `dns_sd_term` writes to is a descriptor.

The lemmas about choosing descriptors are:
- `LowestFacts`: `socket()`, `pipe()` and the other threads' opens take the least free descriptor, and that descriptor exists. It is derived from `WFMin` and `NatLessThanWellFounded`.
- `SecondFree`: with at least two free descriptors, `pipe()` gets two distinct ones.
- `HighestSlot`: the slot whose socket `PopulateFds` leaves in `last_fd` exists.

TLC checked `FInv` on the `mac_core` instance and on the busy table of `mac_nfds` before the proof was written.

`ForeignFdsRespected == Spec => ForeignFdsKept` is an action property: a descriptor becomes, or stops being, another thread's only through that thread's own `open()` or `close()`. It follows from `FInv` through the step lemma `ForeignStep`:
- `OwnerKeptSteps`: most actions leave the table unchanged;
- `RegisterService` and `CreateStopPipe` take only free descriptors (`LowestFacts`, `PipeTakesFree`);
- `Cleanup` closes only numbers that `FdAccounting` assigns to a ref or to the pipe, because the thread is not yet done at that point.

Its mutant closes `sd_fd[i]` for every slot. A slot whose registration failed still holds calloc's 0, so that cleanup closes stdin.

Refinement, proved for every value of the constants:
- `AvahiRefinesLifecycle == Spec => ImplementsLifecycleSafety` (in `AvahiAnnounceProofs`). Its step lemma `RefineStep` takes `Lifecycle`, the invariant already used for `ReleaseOrder`, and names the facts each case needs: the objects alive in each stage of the caller and of `avahi_thread`. `QuitOnlyStep` covers the callbacks that can only create the group and set `quit`. Each of them must keep `quit` once it is set, and this is shown per action. Booleans alone would not give it.
- `MacRefinesLifecycle == Spec => Abstract!Spec` (in `MacAnnounceProofs`). It rests on `FInv` and on `SessionStages`, which TLC checked first:
  - ctx is none before `dns_sd_announce` and live while the caller registers;
  - with ctx none, no ref exists and `process_events` has not run;
  - ctx is freed only with `tpc = "done"`;
  - `dns_sd_term`'s result is unset until its write.
- The Mac `RaiseStop` case shows that a write reaching the pipe happens before cleanup. `FdAccounting` says the pipe owns a descriptor only while `tpc # "done"`, and `SessionStages` says the session is not yet Stopped then.

`ContextLoopProofs` proves, from `BatchAssumption` alone and so for every number `NKiss` of KISS ports:
- `LoopInvariant == Spec => []LoopInv`;
- `LoopTypeCorrect == Spec => []TypeOK`;
- `WriteBounded == Spec => []WriteInBounds`;
- `ContextReturned == Spec => []ContextAgrees`.

Neither `WriteInBounds` nor `ContextAgrees` is inductive: both speak of `j` and `ctx`, but the step that fills `ctx[j]` needs to know which slot `j` is and what the slots before it hold. `LoopInv` adds two conjuncts:
- `j = 1 + KissSlot(cfgPort, i - 1)`: `j` is one past the number of configured ports among the first `i - 1`;
- `ctx = PartialContext(cfgPort, cfgChan, i - 1)`: `ctx` is the closed form of `dns_sd_create_context` restricted to those ports.

At `i = NKiss + 1` the second conjunct is `ContextAgrees`. `WriteInBounds` follows from the first conjunct, because `KissSlot(cfgPort, i - 1) <= i - 1`. TLC checked `LoopInv` with `NKiss` = 3 and 4 before the proof was written.

`KissSlot` is the cardinality of a set of configured ports, not a recursive operator, so no induction over data is needed. The lemmas come from `FiniteSetTheorems`:
- `KissSlotStep`: one more port adds one if it is configured and nothing otherwise;
- `KissSlotMonotone`;
- `InSlotBelowStep`: a configured port `k` is alone in slot `1 + KissSlot(cfgPort, k - 1)`, and a zero port changes no slot.

`CountMatchesContext` states that `dns_sd_service_count(cp)` is the number of filled slots of `dns_sd_create_context(cp, cc)`, for every configuration. Both backends return early on a zero count and then loop over the context's filled slots, so the two must agree. The proof builds the map from a configured KISS port to its slot. `KissSlotInjective` and `KissSlotRange` show that this map is a bijection onto the filled KISS slots, and `FS_Bijection` equates the cardinalities. The AGWPE slot is counted separately.

The fairness part, `ImplementsLifecycle`, is checked by TLC only.

These remain for TLC alone:
- the liveness properties (`StopHonoured`, `AnnounceSettles`, `ReplyProcessed`, `TermStopsThread`, `WorkerStarted`, the fairness of `ImplementsLifecycle`), because TLAPS does not reason about fairness or ENABLED;
- the action property `TermWritesOwnPipe`, `NfdsAssigned` and the liveness of the macOS stop, which TLC shows violated (see the findings).

## Not modelled

- Logging and text formatting.
- Host-name lookup and name truncation.
- `avahi_strdup` copying.
- The Avahi and mDNSResponder daemons beyond the replies listed.
- The outcome of `FD_SET(-1)` other than "sets nothing" (see the hazards in `PROJECT.json`).
