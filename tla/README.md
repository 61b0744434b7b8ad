# Formal models of AEROLINK

TLA+ models of the parts of AEROLINK that hold state and decide something, TLC
configurations that check them on small instances, and TLAPS proofs of what
holds for every value of the constants. Every definition is written from the
source; file and line are in `PROJECT.json` (`map`).

## 1. Inventory

### Flight controller (`flight-controller/src/main/io/aerolink*.{c,h}`)

The Betaflight tree around these files is an imported baseline that AEROLINK
does not wire into its control path; it is not modelled.

| part | state | operations | talks to |
|---|---|---|---|
| endpoint `aerolink.c` | control state, bound nonce, last sequence per type, heartbeat and setpoint times, clock offset | `aerolinkEndpointInit`, `aerolinkEndpointAccept`, `aerolinkEndpointUpdate` | called by the transport task with the clock and three override lines |
| SITL task `aerolink_sitl.c` | receive buffer, counters | one run at 200 Hz: read bytes, update, process frames | TCP UART, endpoint |

Hard behaviour: frames duplicated, lost, late or reordered; wrapping clocks and
sequence numbers; overrides that fall between two frames; watchdogs that race
late frames; a rebinding companion. Correct means: authority is climbed rung by
rung inside one session, is never inherited, is lost when the companion falls
silent, and no frame is executed twice, out of order or stale beyond what the
delay or a second copy of a HELLO explains (section 3). Below the frames
lies a byte stream: a receive buffer that overflows, budgets that cut a run
short, damaged bytes after which the start of a frame has to be found again.

### Companion (`raspberry-pi/src/aerolink_pi`)

`SitlUartClient` numbers frames per type and carries the session nonce.
`VehicleService` (`service.py`) holds the mission state, the queue from server to
FC and the cached FC state; `fleet.py` validates LAN packets; `protocol.py`
encodes frames and finds them again in the byte stream. Hard: magic bytes cut by
a chunk boundary or inside a frame, sequence numbers committed before a
queue is found full, queued setpoints stamped anew, timeouts computed from a
time that is never refreshed. Correct means: no packet acts twice in one process,
no setpoint passes an abort that was executed, and the mission machine of the
schema is followed. A packet that finds the queue full is lost, an ABORT too.

### Fleet server (`server/src/aerolink_server`)

`FleetServer` (`core.py`) keeps vehicles, missions, corridor reservations and the
mission epoch, under one lock, over `SqliteRepository` (`storage.py`), where every
statement commits on its own. `AuditLog` chains hashes; `ai.py` advises;
`security.py` checks request signatures, nonces and rates and operator tokens;
`http_api.py` is a threading HTTP front end. Hard: a crash or a failing statement
between two statements of one call; restart reconciliation; late confirmations of
old aborts; audit appends without the lock; rows refused by the disk; requests
that are late, repeated or signed with a key that is being replaced. Correct means: a vehicle belongs to one
mission at most, one mission at a time holds the corridor, ids are not reused,
a restart resumes nothing and frees everything, finished missions hold nothing,
the audit chain verifies, and a request is let through once.

### Payload pickup (`embedded-emagcontrol`)

A distance sensor and a stability timer decide when the electromagnet and motor
switch. Hard: invalid readings, the wrap of the timer, alternating thresholds.

## 2. Modules

| module | models |
|---|---|
| `AuthoritySpec` | abstract: what the endpoint promises about control authority |
| `AerolinkEndpoint` | `aerolink.c` in full: one action per outcome of Accept, and Update |
| `UartSession` | the endpoint, the SITL task and a `SitlUartClient` over a bad link |
| `LinkLoss` | the endpoint over unbounded wrapping time when the link may die |
| `VehicleService` | `service.py` and the validator of `fleet.py`, between LAN packets and `FakeFc` |
| `MissionLifecycle` | abstract: the life of a mission, machine `server_mission` |
| `FleetServer` | `core.py` missions and vehicles over `storage.py`, statement by statement |
| `AuditLog` | the hash chain of `core.py`, its callers' lock, the `audit_log` table and the migrations of `storage.py` |
| `NodeAuth` | `verify_node` and `rotate_node_key` of `security.py`, for one node |
| `UartStream` | the byte level of `aerolink_sitl.c` and `StreamDecoder` of `protocol.py` |
| `PickupController` | the pickup firmware: `main.cpp`, `PickupController.cpp`, `Actuators.cpp` |
| `MC...` | symmetry sets and messages for TLC |
| `AerolinkEndpointProofs`, `UartSessionProofs`, `UartStreamProofs`, `VehicleServiceProofs`, `FleetServerProofs`, `AuditLogProofs`, `NodeAuthProofs`, `PickupControllerProofs` | theorems |

**Endpoint.** The variables are the fields of `aerolinkEndpoint_t` that decide
something; `lastReject` and the counters are only reported. `now` and `lines` are
the arguments of the calls. `aerolinkEndpointAccept` is four disjoint actions
(`AcceptHello`, `AcceptOverridden`, `AcceptControl`, `RejectFrame`) in the order of
its checks; `ControlVerdict` is the chain of early returns after the override
lines. A frame is a record of the fields the code reads; `ok` stands for the
length and range checks of its type. `Minus`, `Plus` and `Signed` are the C
unsigned and cast arithmetic with `ClockMod` and `SeqMod` for 2^32.

**Session.** `Service` then `Deliver` is one run of `aerolinkSitlTask`: the watchdog
first, then the frames, at one clock reading. `sent` is the whole history of the
link, from which any frame may be delivered any number of times, HELLOs included:
the companion sends one HELLO with each nonce, but a late copy of it binds its
session again. `Bind`, `Execute` and `Refuse` are the outcomes of `Accept` together with
what the histories note of them: `executed` holds every control frame since boot
with the number of the binding it was executed in, `bound` the last binding.

**Fleet server.** All public calls hold one lock, so `call` is either idle or says
what the one running call still has to write. A step is one SQL statement
together with the memory changes around it, and it may raise (`ok = FALSE`): then
memory has changed, the table has not and the call ends there. `Crash` is possible
before, between and after the statements. `Restart` and the steps that follow are
`_reconcile`; a statement or transition that raises there kills the process, as
an exception in the constructor does. `_release` writes only vehicles that still
point back to the mission (`Held`). Reservations of a route stand or fall together
because `create_mission` builds one route only. A server without a repository is
the same model with no crash and no failing statement. The order in which
`_reconcile` meets the missions is left open.

**Vehicle service.** A call of `tick` is taken in steps: `Begin`; a turn of its loop for
each packet (`TakeAssign`, `TakeTransition`, `TakeAbort`, `TakeSetpoint`, `TakePing`); and
`End`, the UART watchdog, once the queue is empty. A packet that raises (`Raise`)
ends the call there: those behind it stay queued and the watchdog is not looked
at. `ticking` says that a call is running; the process has one thread, so
`ReceiveServer`, `ConnectFc` and the passing of its clock wait for the end of it, but
the server, the FC's line and a crash may come between two packets. A call with
nothing to do changes nothing and is not a step. `ReceiveServer` moves the
validator's memory before it finds the queue full, as the code does, so an
overflowing packet is lost for good. `ConnectFc` draws the nonce before the line
may raise. Nonces are numbered in the order they are drawn: the code draws 64
random bits and compares with the previous one only. A queue entry carries the
FC session of its arrival, and `handled`, `path` and `forwarded` are histories of
one process; no guard reads any of them. `FcLine` is what `FakeFc` does beyond
answering: it goes offline, comes back, or is replaced by one without a session.

**Audit log.** An append is four steps in memory (read the index, read the previous
hash, set the new hash, list the entry with the hash set by then) and one
statement. A call of `FleetServer` writes its vehicle or mission row first and holds
the lock throughout; an advisory request (`ai.py`) takes no lock. A hash is a number
unlike every hash in use, and `HashOf` and `Verifies` are what `verify` compares. With a
repository all calls come from the thread that opened it, because `sqlite3` refuses
the others; without one the HTTP server's threads share the log and nothing
restarts. `Open`, `Migrate`, `RecordVersion` and `Restart` are the constructors of
`SqliteRepository` and `FleetServer`; `Call` with kind `change` in mode `starting` is the
reconciliation of one mission. `written`, `overlapped` and `gapped` are histories.
`FleetServer` takes for granted that the audit row is written: its
`AlwaysReadyAgain` is about all other statements, and `audit_gap` shows what a refused
audit row does.

**Node authentication.** `Arrive` is `verify_node` up to the lock, `Decide` the part
under it, so nonces may expire and keys rotate in between. The order is the code's:
the bucket is charged before the nonce and the signature are looked at. `Sign` stamps
a request with any second, since nothing ties the node's clock to the server's, and
whatever was signed may arrive any number of times. The two assignments of
`rotate_node_key` are `BeginRotation` and `EndRotation`. A tick is one unit of the
refill; a second is `Second` of them.

**UART stream.** A frame is the magic, its length, one byte for the other header
fields, the payload and one for the CRC. The last three hold whatever `Messages`
says, since a receiver that looks for a frame scans them all (`aerolink_sitl.c:49`,
`protocol.py:150`) and sequence 19521, or an uptime around 0x4C41 times 65 s, spells
the magic as well as a payload does. A byte carries its value and, unless it was altered, the frame and
the place it was sent in; a CRC matches exactly the bytes of one frame in order.
`RunFc` reads up to the budget into a buffer that drops its oldest byte when full,
`FcTurn` is a turn of the loop in `processFrames`, `FeedPi` and `PiTurn` are `feed` with any
chunk. A frame that decodes but is refused for another reason (type, vehicle) is
not sent. Each behaviour has one of the receivers. `passed`, `damaged`, `hurt` and `plain`
are histories.

**Pickup.** `Sample` is one run of `loop` that gets past the period check: the reading, the
whole `update` and both outputs. A reading is the range the filtered distance falls
in; invalid is out of the sensor's bounds. In `Spec` the loop may be late by any time,
also by a whole turn of the clock; `lowFor`, `highFor` and `toggledFor` are histories in
true time against which the wrapping timer is measured. A reset keeps nothing, so
it is another behaviour from `Init`.

Definitions introduced by a comment that speaks of a slip are deliberately wrong
variants of the definition after them; no behaviour uses them. They document
which mistake each property is there to catch, and are swapped in to see that
it does.

## 3. Runs

| run | question | instance |
|---|---|---|
| `endpoint` | authority promise under any frames, overrides and times | 2 nonces, clock and sequences mod 4, two sender uptimes so that offsets wrap too, all states and lines |
| `uart_session` | ordering, freshness, watchdog with a real companion | 2 nonces, 4 frames delivered any number of times, 4 accepted HELLOs, 4 clock ticks, clocks skewed by 7 |
| `link_loss` | liveness of the watchdog | 1 nonce, clock mod 5, unbounded time |
| `fleet_crash` | allocation, reservations, ids, durability, lifecycle | 2 vehicles, 3 missions, 2 crashes |
| `fleet_failure` | after a raising statement mission rows still move forward and the server becomes ready again | 2 vehicles, 2 missions, 1 crash, 1 failure |
| `vehicle_service` | packets once and in order, setpoints within a session, none after an abort | 3 packets of any kind, 3 sessions, 1 restart, queue of 2 |
| `audit_log` | who can break the chain, what a crash or a refused row costs, that the server starts again | 2 threads, 4 appends begun by calls, 2 crashes, 2 refused statements, 2 migrations |
| `node_auth` | repeats, rates and rotations | 2 requests, 2 threads, 2 ticks to the second, window 2 s, nonces kept 4 s, 11 ticks, 2 rotations |
| `uart_stream` | both receivers on a disturbed byte stream | 3 frames of 5 to 7 bytes, also one that ends as the magic begins and one with the magic across a field and the payload, 1 disturbance, budgets of 6 bytes and 3 answers |
| `pickup` | the magnet switches only after debounced descents and ascents, and a drone that stays low or high is recognised | clock mod 9, period 2, debounce 5, sampled on time |

The bounds. A session needs HELLO, READY and ACTIVE to reach the top, which
leaves one of the four frames to feed it or to bind another session; two sessions
with a frame each, bound four times in turn, let each be executed again, late and
behind a HELLO of another delay; four ticks exceed both timeouts. In `endpoint` and `link_loss` nothing is bounded but the moduli, and
every wrap happens. Two vehicles let one be in an old mission and one in a new,
three missions and two crashes let an abort be confirmed two generations late
and a reconciliation be interrupted.

Three packets reach LAND after an abort with a setpoint behind it, or assign,
launch and fly; they exceed the queue, and up to three server epochs are
possible among them. A server clock behind by the whole of the time to live makes
packets stale a tick later. A debounce time of more than two sampling periods makes
the pickup need a third sample to commit.

Four appends and two crashes let a start load what an earlier start wrote over a
gap. Eleven ticks outlive the nonce of a request (8 ticks) stamped as far ahead as the
window allows. Three frames exceed both budgets and the buffer, so a lost byte can
cost the frame behind it and the overflow the one behind that.
`fleet_failure` also lets batteries be reported low.

The type invariants of the fleet server, the pickup and the authentication are proved
and not run, and so are `AvailableIsFree`, `CorridorExclusive` and
`OldMissionsAreNotResumed` under failing statements: `fleet_crash` checks these three
without.

What `TypeOK` adds over the types: a call under way holds only work it can do.
The deeper ones relate steps far apart: `LiveMissionKeepsVehicles` needs a crash, a
reconciliation, a new mission and a late confirmation to be tested at all;
`FinishedHoldsNothing` needs a crash inside a release; `WatchdogSparesOnlyFed` ties
the watchdog to the frames really executed; `StalenessBounded` ties the age of
every executed frame to the delay of the HELLO before it. `LiveChainVerifies` and
`OnlyAdviceOverlaps` together say that the unlocked advisory append is the only way
to break a chain without a gap, `UnauditedBounded` counts what is missing from the
table against crashes and refusals, `TwiceOnlyFromFastClocks` relates the window of a
stamp to the life of its nonce across the wait for the lock, `PiLosesNothing` asks for
every undisturbed frame whatever lay before it, and `FcLossIsLocal` bounds how far
behind a disturbance the FC may lose one.

**Fairness.** `LinkLoss` assumes that time passes and that the scheduler runs the
200 Hz task between two readings of the millisecond clock the model
distinguishes; it assumes nothing of the link. `FairSpec` of the fleet server
assumes that a running call goes on (Python does not stop in the middle of it)
and that a dead server is started again. `PromptSpec` of the pickup assumes that
`loop`, which never blocks, takes a sample that is due before the clock moves on;
the proofs about the pickup do without it. `FairSpec` of the audit log assumes what
that of the fleet server does, and nothing of crashes or refusals. `FairSpec` of the
UART stream assumes that the FC's task and the Pi's loop run again and again, and,
strongly, that they read: the FC may run many times before a byte arrives, but
bytes under way do arrive.

**Runs that end in a violation** state what a document of the repository says and
the code does not do (`findings`):

- `fleet_orphan`: a crash in `create_mission` between the vehicle rows and the
  mission row leaves vehicles assigned to a mission no restart knows.
- `audit_gap`: once a refused audit row has a row behind it, the next start numbers
  its first append by how many rows there are, meets an `idx` that exists, and the
  constructor raises; so does every start after it. The `server_ready` entry alone is
  enough to collide.

**Seen while modelling, without a run.** A process that dies between a migration
and the record of its version (`storage.py:31`) can never open its database again,
because the next start executes the migration a second time; `Torn` in
`ReadyAfterCrashes` is this case. Advisory appends may overlap with others and leave a
chain that does not verify, though `docs/ai-safety-boundary.md:53-54` calls it
tamper-evident: `overlapped` in `LiveChainVerifies`. `load_from` does not verify the chain,
which `docs/architecture.md:84` says it does. A request stamped nearly 30 s ahead is
let through again 60 s later, as `TwiceOnlyFromFastClocks` states;
`docs/security-review.md:32` says a replayed request is rejected. A response is signed
with the new key even if the request was signed with the old (`security.py:75`). The
FC takes a refused frame out by the length it declares (`aerolink_sitl.c:65`), the Pi
only its first byte, so only the FC may lose intact frames behind a damaged one,
and with frames that contain the magic anywhere but at their start it may stay
out of step: `plain` in `FcLossIsLocal`. FAULT is left by a HELLO (`aerolink.c:125`) and for ABORTING (`:97`), where
`schemas/state-machines.json:12` allows DISABLED only. The clock offset is taken from
the one-way arrival of HELLO (`aerolink.c:124`), so behind a delayed HELLO frames
older than their TTL are executed, against `docs/protocol.md:56-61`; `StalenessBounded`
says by how much. A HELLO is compared with the session it arrives in only
(`aerolink.c:121-124`), so a delayed copy of an older one binds its session again and
clears the slots, and frames of that session are executed a second time (HELLO a,
heartbeat, HELLO b, HELLO a, the same heartbeat), though `docs/protocol.md:52-54` says
that "duplicates and older/reordered values are rejected" and "a new nonce clears
prior sequence state"; `TwiceOnlyAfterRebinding` says that this is the only way. The
queue of the Pi loses an ABORT like any other packet when it is full, and the
sequence number is spent (`service.py:37`). A DEGRADED endpoint whose companion is
silent stays DEGRADED (`aerolink.c:161`), without authority; `SilentActiveIsReported`
accepts it. A restart of the Pi forgets which packets it took (`fleet.py:39-49`), so
`HandledOnceInOrder` is about one process. The 30 % battery of `core.py:122` is not looked at by
`update_sim_node`, `_release` and `_reconcile`, though `PRD.md:174` has the allocator
apply reserve limits. A crossing of the pickup commits though invalid readings lie
inside it; `include/PickupController.h:12-15` says the reading has to hold. Nodes skip `online` in `ingest` and
`update_sim_node` (`core.py:122`, `:187`; `schemas/state-machines.json:33`). The Pi enters
ABORT from any state on an ABORT packet or a UART timeout (`service.py:45`, `:51`), though
the pi_mission machine has no such edge from IDLE, LAND or FAULT. The timeout counts
from the last connection, not from the FC's last answer. Nothing in `service.py` notices
a silent server, which `docs/architecture.md:47-48` asks for. A `tick` that raises skips
the watchdog, so a server that sends one raising packet per tick keeps it away;
that the watchdog fires in the end is therefore not claimed.

## 4. Proofs

`AerolinkEndpointProofs`: from the constant assumptions of `AerolinkEndpoint` (moduli
positive, frames within range, the marker constants distinct), `TypeOK` is
inductive; `PowerNeedsSession` is inductive beside it; and every step maps to a
step of `AuthoritySpec` or a stutter, the important lemma being
`GrantsClimbOneRung`: an allowed transition climbs one rung at most.

`UartSessionProofs`: the endpoint with a companion over the bad link, reusing the
type proof of the endpoint. `TypeInv` says besides the types what any frame under
way is worth: it was stamped with the sender's clock at the time it was sent, and
no number was used twice in a session. `TwiceOnlyAfterRebinding` follows from `OrderInv`
(`lastSequence` is at or above everything executed since the last HELLO, and what
was executed between the last two belongs to another session) and
`NumberAssumption` (fewer than 2^31 frames: beyond that a copy half the range of
numbers old passes for a newer frame), `StalenessBounded` from
`OffsetInv` (the clock offset is the skew less the delay of the HELLO it was taken
from), `WatchdogSparesOnlyFed` from `FedInv` (each of the watchdog's two times is that
of an executed frame or older than the session); `AuthorityWasCommanded` is inductive
beside the types, since the watchdog only takes authority away (`WatchdogOnlyTakes`).
`AgeAssumption`: the run of time plus a time to live is less than a turn of the
clock, 49 days; ages measured modulo the clock are true ages then.

`UartStreamProofs`: the four properties of the run, from `StreamAssumption` alone, for any
messages, budgets and buffers. Whatever a receiver does takes a prefix away from
the bytes ahead of it (`Ahead`, its buffer and then the wire), and whatever the line
does puts bytes behind them, so the invariants are stated of a sequence of bytes
and shown once to survive each of the two. `LineInv` says of that sequence: frames
come in the order they were sent (`Ordered`), an undamaged one is there to its end
(`Whole`) and without a gap (`Inside`), a damaged one lacks a byte its CRC covers
(`Broken`), and few frames fit between debris and a frame behind it (`Near`, which
counts five bytes to a frame).
`PassedInv` gives `PassedOnceInOrder`; `LossInv` gives the two about loss. That the Pi
never loses an undisturbed frame rests on its stopping at the first magic there
is. The FC may take intact frames along with a damaged one; how near they must lie
is `FcLossIsLocal`, for frames with the magic at their start only (`plain`), because
there a magic in front of the FC begins a frame or its second byte is spoilt
(`MagicIsStart`).

`VehicleServiceProofs`: the four properties of the run. `HandledOnceInOrder` needs that the
executed packets, then those queued, are in order up to the validator's memory
(`OrderInv`); `ForwardedInItsSession` that while FC and service agree on a session the
whole queue was taken in during it (`SessionInv`: a handshake clears the queue, and
a lost session is never agreed on again since nonces are fresh); `AbortStopsFlight`
that every state on the path after an abort is ABORT, LAND or FAULT until there
was an IDLE (`PathInv`).

`FleetServerProofs`: `TypeOK` is inductive; `AvailableIsFree` is inductive beside it,
because every write is of a record that is available only without a mission
(`Trusted`). `CorridorExclusive` and `OldMissionsAreNotResumed` are not inductive
alone: when reconciliation ends one has to know that no mission that could fly
was missed. `MissionsInv` adds that the missions still to be met include every
live one, and that memory equals the table meanwhile. `MissionIdsAreFresh`: the
epoch is written before all else, so nothing anywhere has a number beyond the
written one (`FreshInv`). `RowsMoveForward`, whatever statement fails: memory is ahead of
its row in the order of the machine (`AheadInv`), so a row written late only moves
on. `LiveMissionKeepsVehicles`, `FinishedHoldsNothing` and `SettledIsDurable` share `CleanInv`,
which speaks of behaviours in which no statement has failed yet: table and memory
mirror each other except for what the running call still has to write, vehicles
point to missions that are not over and that list them, and live missions have
their vehicles. The refinement of `MissionLifecycle` by the rows is proved for
`MaxFailures = 0`: behind a failed statement a later write may skip a state, so there
only `RowsMoveForward` is left.

`PickupControllerProofs`: the timer alone says nothing once it has gone round, so the
invariant says it is right until the debounce time is over and that this is all
that is asked afterwards (`Measured`); it also carries how much time has passed since
the last toggle in each state. `TogglesAreEarned` and `NoChatter` follow together.
The theorems are about `Spec`, where the loop may be late by any time.

`NodeAuthProofs`: the three properties of the run and `TypeOK`, from `AuthAssumption`, whose one
equation is the code's 60 = 2 * 30. The common invariant says of every waiting
thread that its request was within the window when it came (`ThreadInv`; the lemma
about whole seconds is where truncation enters) and which keys exist (`KeysInv`).
`RateBounded` needs that what the bucket holds is what the charges since any of them
left (`BucketInv`); `TwiceOnlyFromFastClocks` needs that a nonce let through stays until
its time is over (`CacheInv`).

`AuditLogProofs`: all safety properties of the run, for any number of threads, appends
and migrations. `OnlyAdviceOverlaps` follows from an invariant that ties the lock to
the kind of call (`LockInv`). A log in memory verifies as long as no two appends
overlapped; a log with a table is either the table with at most the entry being
inserted beyond it (`ChainInv`, `Covered`), or this start loaded a gap and then an index
below its length has no row and never will (`Missed`); the two are exhaustive and
`LogInv` carries the choice. A start that loads a table without a gap gets a log
that verifies because the rows of a verified log do (`DurableChainVerifies`).
`UnauditedBounded` counts: each state change written without its audit row is paid for
by a crash, a refused statement or the append under way (`StepKeepsBound`), and each
row inserted is one not there before (`AuditedGrows`).

Model-checked only is what lies beyond the prover: liveness under fairness, that
is `SilenceEndsAuthority` and `SilentActiveIsReported` (`link_loss`), `AlwaysReadyAgain`
(`fleet_failure`), `ReadyAfterCrashes` (`audit_log`), `UndisturbedArrives` (`uart_stream`) and
`AltitudeIsRecognised` (`pickup`). Every other property of a passing run is a theorem.

## 5. Plan

1. Done: endpoint, session, link loss, fleet server with crashes; their first
   proofs; vehicle service; pickup firmware with its proofs.
2. Done: `AuditLog` with migrations, `UartStream`, `NodeAuth`, and the proofs about
   the first and the last.
3. Done: the proofs of every safety property the runs check, of `AuthoritySpec` and
   of `MissionLifecycle` by their implementations.
4. Further on: the age of a setpoint from the server to the FC, over both hops.

## 6. Not modelled

The Betaflight baseline (no AEROLINK control path into it); byte layouts and
field packing (data conversions without state); `SequenceTracker` of `protocol.py`
(no process of the repository uses it); telemetry counters and metrics (nothing
decides on them); the HTTP and process wiring, simulation harnesses, scripts
(I/O and test code); operator sessions, response signatures and secret files of
`security.py` (a lookup and an expiry each); steps of the wall clock; providers and
validation of the advisory AI (its answers change nothing).
