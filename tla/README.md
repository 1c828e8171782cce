# A TLA+ model of qeminga

qeminga is a QEMU guest agent that serves a small set of commands over a virtio
channel. Its hard part is freezing and thawing filesystems: calls that block and
cannot be interrupted, a host that may disappear at any moment, mounts that
change under the operation, and a process that may be killed while the guest is
frozen. This directory models the agent from the bytes of a frame to the ioctl,
checks the models with TLC on small instances, and proves with TLAPS, for every
value of the constants, the safety of the freeze core, the freeze plan, the session,
the gates and the rate limit, the audit router and the daemon.

`PROJECT.json` maps every definition to the lines it models and lists runs,
mutants, findings, hazards and theorems. Source paths below are under `src/src/`.

## The system

| Part | Source | Module | State of the model |
|---|---|---|---|
| Freeze state machine | `state.rs` | `FreezeLifecycle`, `FreezeCoordinator` | modelled |
| Freeze operation and its driver | `freeze_op.rs` | `FreezeCoordinator` | modelled |
| Freeze and thaw handlers | `handlers/fsfreeze.rs` | `FreezeCoordinator`, `FreezePlan`, `Dispatch` | modelled |
| Watchdog | `watchdog.rs` | `FreezeCoordinator`, `MCCancelledWatchdog`, `Dispatch` | modelled |
| Recovery marker | `marker.rs` | `FreezeCoordinator`, `Service` | partly: one file that is there or not |
| Freeze plan | `freeze_plan.rs` | `FreezePlan` | modelled |
| Mount table | `mountinfo.rs` | `MountTable` | modelled |
| Session on the channel | `channel.rs` | `Session` | modelled |
| Channel loop | `channel.rs` | `Service` | modelled |
| Frame decoder | `framing.rs` | `FrameDecoder`, `Wire` | modelled |
| Protocol | `proto.rs`, `proto/bounds.rs` | `Protocol`, `Wire` | partly: JSON itself is a library |
| Dispatcher, gates | `dispatch.rs` | `Dispatch`, `Protocol` | modelled |
| Rate limiter | `dispatch/ratelimit.rs` | `RateLimiter` | modelled |
| Audit router, writer, record | `audit.rs` | `AuditRouter`, `AuditRecord` | partly: not the text of a line |
| Trim, shutdown, suspend | `handlers/` | `Dispatch`, `FreezePlan`, `Protocol` | modelled |
| Information commands | `handlers/` | `Information`, `Dispatch`, `Configuration` | partly: texts are model values |
| Configuration | `config.rs` | `Configuration` | partly: TOML is a library |
| Capabilities | `kernel/caps.rs` | `Privileges` | modelled |
| Seccomp filter | `seccomp.rs` | `Configuration`, `Service` | partly: the switched calls, not BPF |
| Daemon | `daemon.rs` | `Service` | modelled |
| Kernel shim | `kernel/` | `FreezeLifecycle`, `FreezePlan` | partly |
| Test kernel, entry points | `kernel/fake.rs`, `lib.rs`, `main.rs` | | not modelled |

Bytes are cut into frames, a frame becomes a request, the session admits it to a
lane and the dispatcher takes it through its gates. A freeze starts an operation
whose driver outlives the request; a thaw drains by itself, or joins the
operation in progress. A watchdog thaws when the host does not. All of them meet
in the freeze state machine and its tokens. The daemon starts and stops the whole
and the audit follows it without ever touching a frozen disk.

## The modules

**FreezeCoordinator.** An action is one segment of a task between two points
where another thread can see or change shared state. The processes are the driver
of each operation (`pc[o]`), which awaits a tracked blocking task (`task`) and may
have a recovery drain beside it (`rec`); the host's thaw handler and the watchdogs
(`thawPc[a]`), which share `RunThaw`; the kernel (`frozen`, and `owned` for what
the agent froze) and the marker. `freezeOp` and `joinOp` are the requests being
served, `opSlot`, `held`, `scope` and `watchSlot` the shared context, `outcome` the
atomic that `request_abort` and `try_commit` compete on. `Crash` kills the process
anywhere and restarts it from the marker. `TaskLost`, `RecoveryLost` and `ThawLost`
are `JoinError`s. **FreezeLifecycle** is the abstract specification: the published
state, the marker and the frozen filesystems, and nothing of how the core gets
there. `LifecycleSpec` is that specification under the refinement mapping.
**MCCancelledWatchdog** adds a history, the expired watchdogs that a completed thaw
has outlived.

**FreezePlan** looks below the core at paths: a kernel that mounts, unmounts and
moves, the plan built from the table, and a freeze, drain or trim that opens each
target when its turn comes. The history `nesting` remembers which superblock lay in
which when a freeze was planned. `Fifreeze` and `Fithaw` give the answers an ioctl may
have, `TargetOutcome` and `Incomplete` what is made of them. **MountTable** is the
reading of `/proc/self/mountinfo`, against what the kernel writes there.

**Session** is `run_session_until`: `Top` is the loop up to its `select`, the other
actions are the branches. A command is a number, a kind and the size of its reply.

**Dispatch** extends **RateLimiter** and adds a clock: requests through the gates,
the handlers up to their ends, the lanes, the slots of fsinfo walks, and the two
deadlines of the watchdog with the heartbeat that postpones one of them.
`Window` is history: it starts a window of the rate bound, at any time. **Information**
holds what the information commands compute.

**Wire** puts together **FrameDecoder** (a stream cut into reads), **Protocol** (the
scan of the bounds, the request object, replies) and **AuditRecord** (bounded name,
level and filter, calendar).

**AuditRouter** is the router, its ring and queue, and the writer thread; lines have
a number and a size, and a sink may refuse or take part of a write.

**Service** is the daemon from its start to its exit and restart, with
**Configuration** (what a file turns on), **Privileges** (the steps of the drop
under the kernel's rules) and the loop that opens and reopens the channel. It takes
the freeze core at the level of `FreezeLifecycle`.

## Runs

| Run | Instance | Shows |
|---|---|---|
| `coordinator_two_operations` | 1 target, 2 operations, 2 watchdogs | an accepted abort never ends in success, one drain owner, released slot, honest joined thaw, audit off the disk |
| `coordinator_recovery` | 2 targets, 1 crash, 1 lost task, no host thaw | crash safety, Thawed is thawed, tracked scope complete, refinement; aborts complete beside a stuck call, Frozen ends |
| `coordinator_liveness` | 1 target, calls that never return | freeze and thaw requests are answered |
| `session_safety` | 3 places, 5 commands, 2 frames a read | order, no lost reply, lanes, bounds, clean ends |
| `session_live` | 3 places, 3 commands | a stop is honoured, commands are served, a thaw reaches a stuck freeze |
| `audit` | 4 records, ring of 2, queue of 3, 2 refusals | every record delivered in order or counted as lost ahead of its successor; no lost wake-up |
| `requests` | 10 methods, 2 limited classes, 5 ticks | gates, walks, rates and deadlines; the information commands |
| `frames` | streams of 7 bytes in reads of up to 4, texts of 6 bytes, objects of 3 members | decoder, protocol and record agree with definitions over the whole input |
| `plan` | 4 paths, 3 superblocks, 2 mounts, 1 move | selection, order, table, and every open and ioctl under a changing table |
| `service` | 16 profiles, 2 starts, 2 freezes, 2 sessions | confined serving, grants that match, exit and restart, stop, reconnection |
| `coordinator_marker_left`, `coordinator_cancelled_watchdog` | 1 target, 2 watchdogs | the two disagreements below |

Every property has at least one mutant, a definition changed the way a plausible
bug would, under which its run fails; a property with several parts has a mutant
for most of them.

Bounds. Two watchdogs are the fewest with which a cancelled one can meet its
successor; two targets the fewest for a partial walk, two operations for a stale
registration. Queues are short so that they fill: five commands exceed three
places, four records exceed ring and queue. In `requests` one class is exhausted by
two requests and another has a quota of zero; a minute is four of the five ticks, so
that a window may start after the first request and hold a replenished cell; and a
walk times out before the watchdog does. In `plan` two mounts
on four paths can stack, hide a mount point from above, be moved and be removed
between any two steps. In `service` the second start meets what the first left
behind. Texts and objects are as long as it takes to reach each bound from both
sides, with one byte to spare; the calendar is checked for all of its 400 years.
`Symmetry` is used only for safety.

## Fairness

The runtime polls its tasks and clocks advance, so drivers, timers and handlers
are weakly fair. Drains, rollbacks and marker removals are assumed to return; the
preparation, the opening of a target and FIFREEZE only where a property says
`WorkerFairness`. `LongTimeouts` says that no timer runs out between the
publication of Frozen and the arming of its watchdog. In the session the branches
of the biased `select` are strongly fair: a branch is taken if it is ready each time
the loop returns, since those ahead of it are finite in number. That the host reads
and that handlers end are premises of the properties that need them. The stopper of
`Service` polls while the state changes, hence strong fairness of its poll; a freeze
in progress is assumed to settle there, which `FreezeCoordinator` shows, and a drain
that is tried again and again is assumed not to be refused for ever: the code can
only retry.

## Proofs

Every theorem holds for all values of the constants that satisfy the assumption
named in the component's module; TLC evaluates the assumptions in the runs. A
component's proof has one inductive invariant, one lemma for each action (or group
of actions) that preserves it, and the properties as consequences. Each invariant
was model-checked, as far as TLC can evaluate it, before it was proved.

*The freeze core* (`FreezeCoordinatorProofs`, from `ConstantsAssumption`): for all sets of targets, operations and watchdogs, the type
invariant, the safety invariants of the two safety runs and
`Spec => LifecycleSpec`. None of the invariants is inductive. `IInv` adds who owns
a token (`OwnerInv`), what the driver's locals are at each point (`DriverInv`),
where the marker and the ring are up (`MarkerInv`, `RingInv`), where every frozen
filesystem has its handle (`HandlesInv`), where nothing is frozen
(`NothingOwnedInv`), when a tracked scope is complete (`TrackedInv`), what an abort
request was told (`AbortInv`, `JoinInv`) and who watches a frozen guest
(`FrozenIsWatched`). The refinement uses the same invariants: a step of the core
leaves state, marker and frozen filesystems alone or moves them along one edge of
the diagram.

*The freeze plan* (`FreezePlanProofs`, from `PlanAssumption`): for all pathnames,
superblocks and requests and any number of mounts and moves.

- `SelectionExact`: what the walk of `MountTree::resolve` finds at a path is what
  the kernel shows there, and a request selects what its names lead to. The table
  and the kernel's view are related by `TreeInv`. The rows form a tree in which
  each has a depth. The mount that holds a path is reached through mounts none of
  which is covered from above, and no mount on it lies on the way (`Seen`). What a
  mount hides is where the way would end without it (`Kept`), which is what makes
  `umount` and `mount --move` preserve the relation. The walk is then shown, by
  induction over its turns, to stand at depth *k* on the one row of that depth on
  the way.
- `NestedFirst`, an action property of the freezing steps. A mount stands in the
  table after the one it was made in (`MountInv`), so a plan has a superblock before
  what lies in it (`BuildNests`). A request keeps that order, the walk reverses it,
  and `Nested` says that what is ahead of a walk stays in it while mounts change.
- `OpensAsPlanned`, an action property, from `OpInv`: a walk holds what it has
  passed and can be frozen, a drain has thawed what it passed or says that it missed
  something, a trim has one entry for each target passed; and from `Asking`: every
  target that a freeze-list still has ahead goes by a name that led to it.

*The session* (`SessionProofs`, from `SessionAssumption`): `RepliesKept`,
`PlacesRespected`, `EndsClean` and the action property `SideEffectsSerial`, for
every queue, reply budget, number of lanes and number of commands. `SessionInv`
says that the numbers delivered, in the outbox and in the queue form one increasing
line with none missing, that what has started is within its places, and that two
commands which run beside each other are a freeze and a thaw. Its lemmas on `Push`
and `Admit` say what the two loops of the session return for a queue of any length.

*The gates and the rate limit* (`DispatchProofs`, from `QuotaAssumption` and
`DispatchAssumption`): `RateBound` for every quota and clock, from an invariant
(`BucketInv`) that ties the time a bucket stands at to the cells that any window has
admitted; that the dispatcher implements the limiter, and so inherits its bound;
`GatesSound`; `WalksBounded`; and `WatchdogTimed`. The inductive invariant relates
lanes to the freeze state (`LaneInv`) and the watchdog's deadlines to the clock
(`WatchInv`).

*The audit router* (`AuditRouterProofs`, from `AuditAssumption`): `Accounted`,
`SinkFaithful`, `SettledMeansDelivered`, and the action properties
`QuietWhileFrozen` and `NeverSleepsOnWork`, for all capacities and sizes of
records. `AuditInv` has the controls of writer and settlement, and the books:
there are three numbers that cut the records written so far into those which have
left, those in flight, those queued and those in the ring, and in each part every
record has ahead of it a report of at least what was lost before it. Losing,
coalescing, flushing, refusing and writing in part each keep the books.

*The daemon* (`ServiceProofs`, from `ServiceAssumption` and `ProfileAssumption`, the
latter that a file which parses has values of its keys' types): `NothingLeftFrozen`,
`DropSound` and `ConfigurationHonoured`, for all profiles, filesystems and backoffs.
`ServiceInv` has the types, the pause before the channel is opened again, one writer
of the token and a state that is honest about what is frozen. `Confinement` says,
point by point of the startup and step by step of the drop, which credentials the
process and its writer have.

*The frame decoder* (`FrameDecoderProofs`, from `BoundsAssumption`): `DecoderExact`,
for every bound on a frame, streams of any length and reads that cut them in any
way. The inductive invariant (`Determined`) says that the decoder and what it has
emitted are functions of the stream: it holds what came since the last delimiter, or
its length where that is too long, and the flag that the next frame will get.
`PushIs` takes it from one stream to the longer one by induction over the bytes of a
read. What is held after a byte follows from what was held before it, and after a
sentinel from nothing, hence the resynchronisation.

*Induction* (`Induction`). The loops of the code are recursive functions here. That
such a function exists and what it returns is proved from three facts, stated for
sets instead of predicates so that the provers can use them: a set of natural
numbers has a least element, a set closed under successor is all of them, and a
function defined step by step exists. A pigeonhole lemma (`PigeonHole`) follows from
them; it bounds the depth of the mount tree by the number of its rows.

Only model-checked are: liveness, which needs fairness and `ENABLED`, out of the
prover's reach; `ProtocolExact`, `InformationExact` and `TableExact`, which compare
what the code computes from a text, a file or a number with a definition over the
whole input, and are evaluated over every input within the bounds; and the two runs
that show a disagreement.

## Disagreements between code and comments

- `coordinator_marker_left`: `Marker::create` can fail after the file exists; the
  operation settles as Thawed and the marker stays, although the comment in
  `freeze_op.rs` says it is removed if it exists. The next start recovers for
  nothing.
- `coordinator_cancelled_watchdog`: a watchdog takes its deadline and is delayed; the
  host's thaw completes and cancels it; a second freeze succeeds; the cancelled
  watchdog claims the thaw of that second freeze. The comment on `cancel` says that
  it stops the timer loop and excepts only a drain that has started.

Smaller observations, without a run of their own:

- Handles that a drain keeps are held in forward order, so a second drain of them
  goes the other way round. Nested mounts are then thawed in the wrong order.
- `NestedFirst` leaves out a mount that was moved onto a later one: the order of the
  table is that in which mounts were made, and `mount --move` does not change it.
- A thaw between the retirement of an operation and the publication of its state is
  refused instead of joining, and a committed driver can still be in a blocking
  removal of the marker.
- Places that a partly drained outbox frees are not read into before the `select` is
  entered again; `serial_waiting` in `admit` never decides anything, since a serial
  command that waits ahead implies that something exclusive is running.
- The loss of a gap with two reasons, partly written, is reported again in full. An
  oversized line's loss is reported ahead of older lines of the ring. After a refusal
  the writer waits for the next record.
- An empty mount source would shift the fields of a line in the table; no plan
  depends on it.

## What the models leave out

- `FreezeCoordinator`: handles are sets, their order is in `FreezePlan`. A FIFREEZE
  in the kernel at a crash completes at the crash or not at all. A frozen filesystem
  stays in the mount table. `ThawFinish` and the publication of an operation are
  single steps: only the holder of the token reads what they write.
  `coordinator_recovery` has no thaw from the host.
- `FreezePlan`: one operation at a time; the drain of the leftovers and a rollback
  are single steps, with any subset of the drains incomplete. The recovery drain of
  an agent that is Thawed is not repeated here. Nothing is mounted over `/`. Paths are
  absolute, so the refusal of a relative name in `resolve` never applies, and a
  superblock is eligible or not in all of its rows.
- `MountTable`: the fields that are only shown are ASCII, which the lossy conversion
  to text leaves alone.
- `Configuration`: of the calls that every profile allows, those that a command or
  the process itself is known to need. That the filter allows no other is said of
  these and of the switched calls.
- `Session`: the stop may be requested at any time, which includes all that the
  daemon's stopper does. The branch for a closed cancel channel is left out: the
  sender outlives the session.
- `Dispatch`: timers are punctual to a tick, and a cancelled watchdog is gone at
  once; the race is in `FreezeCoordinator`. A drain there settles in one step.
- `Service`: one command at a time, and of the freeze core only when it starts and
  how it settles. Reconnection is claimed for a device that stays free.
- `Protocol`: a request is the sequence of its members, as the JSON parser yields
  them. `AuditRecord`: the digest of a long name and milliseconds.

## Not modelled

- The spelling of JSON, TOML and log lines: serde, toml and tracing do it.
- The translation of the filter to BPF and the table of system calls that every
  configuration allows: a list, with no behaviour beside the list.
- `marker.rs`: how the directory is opened and checked, beyond the outcomes that
  `Service` and `FreezeCoordinator` tell apart.
- `kernel/async_fd.rs`, the raw bindings of `kernel/ioctl.rs` and the getters, error
  texts and constructors of all modules: wrappers without state.
- `kernel/fake.rs`, the test clock and other fakes: not part of a release, and
  refused under enforced hardening.
- `lib.rs`, `main.rs`: declarations and the command line.
