# rpi-health-mqtt: specification and proofs

`rpi-health-mqtt` is a daemon for a Raspberry Pi. It collects health telemetry
(CPU, memory, disk, power) and publishes it over MQTT for Home Assistant. This
directory holds TLA+ modules that model it from its sources to the entities Home
Assistant shows, TLC configurations that check them on small instances, and TLAPS
proofs of all of the safety results for every instance. Paths such as
`src/src/mqtt.rs` are relative to the directory that holds the repository as `src/`.

## 1. Inventory

| Part | State it keeps | Operations | Talks to |
|---|---|---|---|
| `MqttSupervisor` (`mqtt.rs`) | protocol machine, retry attempt, status channel | poll an event, publish, back off, shut down gracefully | rumqttc event loop, state/request/shutdown channels |
| `BootstrapMachine` (`mqtt.rs`) | phase, required and last request, two flags | `connected`, `outgoing_publish`, `publish_acknowledged`, `state_available`, `shutdown`, `disconnected`, `connection_lost` | called by the supervisor only |
| scheduler (`daemon.rs`) | interval | first request, tick, stop | request channel, `busy` flag, shutdown channel |
| worker thread (`daemon.rs`) | its `Collector` | take the latest request, collect, send the state | request and state channels, `busy` flag |
| `run_service` (`daemon.rs`) | join handles | spawn, wait for the first completion, set shutdown, join, drain | all tasks, signals |
| `Collector` (`collector.rs`) | previous CPU sample, metadata | `collect`: eight metrics, each may fail | `/proc`, `/sys`, `vcgencmd` |
| `ProcessCommandRunner` (`collector.rs`) | child process, reader thread | spawn, poll, kill, join | the kernel |
| metric parsers (`metrics/`) | none | parse and compute one metric | |
| telemetry model (`model.rs`) | none | health status, rounding, JSON layout | |
| configuration (`config.rs`) | none | load, validate, credentials | files, environment |
| discovery (`discovery.rs`) | none | build the Home Assistant message | |
| diagnostics (`diagnostics.rs`) | the report, the probe's connection | the `check` command, an MQTT probe | file system, broker |
| command line (`main.rs`, `cli.rs`) | none | dispatch | |
| installer, uninstaller (`scripts/`) | files, account, unit state | install, upgrade, remove | systemd |
| systemd unit | service state | `Restart=always` | the process |

How they interact: the scheduler and the supervisor raise a request counter
(a watch channel: only the latest value exists). The worker thread takes the
latest counter, collects, and replaces the latest state (another watch channel).
The supervisor publishes a state only after discovery and "online" were
acknowledged on the current connection and only if the state answers a request
made after that connection. A signal or an ended task makes `run_service` set the
shutdown flag, which both other tasks watch.

The runtime has one thread (`Builder::new_current_thread`), so the main future,
the scheduler and the supervisor interleave only at await points; the worker is a
blocking thread and interleaves with every step of them. `panic = "abort"` in the
release profile: a panic is a crash of the process, never a failed join.

What is hard here, and where the properties aim:

* the worker thread runs inside the supervisor's CONNACK branch;
* shutdown overtakes a publication that is queued and not yet sent;
* an acknowledgement of an overtaken publication arrives during shutdown;
* the broker and the client notice the end of a connection at different times,
  and a new process meets its own old session;
* the three-second shutdown limit and the drain timeout race what they limit;
* requests are coalesced while a collection runs;
* a command's deadline races its exit and the thread that reads its output;
* the CPU rate of one collection rests on a sample an earlier one took;
* files are looked at and read in two steps, and `check` foretells a start that
  happens later;
* diagnostic probes share the broker, and the configured client identifier, with
  the running daemon;
* slow collections make the scheduler skip ticks while Home Assistant's expiry
  runs;
* topics, entity ids and units are written down twice, in the service and in the
  document that describes it, and nothing fails when the two disagree;
* sums and products of 64-bit numbers from counters that may contradict each
  other.

`PROJECT.json` lists these hazards at their lines with the properties that cover
them.

## 2. Modules

| Module | Models | Uses |
|---|---|---|
| `BootstrapMachine` | `struct BootstrapMachine`: one operator per method, from the machine before the call to the machine and `ProtocolAction` after it | |
| `Channels` | the watch channels of `run_service` | |
| `Transport` | external: rumqttc's client and event loop, the network, the broker | |
| `MqttSupervisor` | `MqttSupervisor::run` and what it calls; one action per event the select can return | the three above |
| `StateSource` | abstract: what the supervisor needs of the collection side | `Channels` |
| `SupervisedPublishing` | supervisor + `StateSource` + crash and restart | `MqttSupervisor`, `StateSource` |
| `Collection` | `collection_scheduler` and `collection_worker`, step by step | `Channels` |
| `CollectionService` | `Collection` alone, with the supervisor reduced to a sender | `Collection` |
| `Daemon` | `run_service`: all tasks, completion, joins, drain, exit, crash, restart | `MqttSupervisor`, `Collection` |
| `CommandRunner` | `ProcessCommandRunner::run` and its reader thread, with the child process as the environment | |
| `Health` | the bits of the power mask, `PowerMetrics`, `HealthStatus::evaluate` | |
| `Collector` | `Collector::collect` over successive collections, with `usage_percent` | `Health` |
| `Timing` | the seconds a configuration sets and others derive from it: `validate_seconds`, `expire_after_seconds`, what one collection may wait for | |
| `StateExpiry` | scheduler, worker and connections in time, against the expiry of an entity | `Timing` |
| `Measures` | the calculations of `metrics/`: what a number becomes and which are refused | |
| `Utilization` | `parse_meminfo` line by line and `calculate_disk_metrics` | `Measures` |
| `Telemetry` | `TelemetryState` as `collect` fills it, its rounding and serialization | `Measures`, `Health` |
| `Discovery` | the table of the 26 entities of `discovery.rs` | `Measures` |
| `Entities` | sources, `collect_payload`, the message; external: Home Assistant's templates | `Telemetry`, `Discovery` |
| `Configuration` | `RawConfig`, its defaults and `validate`; the topics of `MqttConfig` | `Timing` |
| `Fleet` | boards that start and restart with configurations; `build_discovery_message`; external: retained documents | `Configuration`, `Discovery` |
| `Installer` | `install.sh` and `uninstall.sh` on a live system, command by command | |
| `MqttProbe` | `probe_mqtt` in several processes, beside the daemon's session; external: the broker | |
| `Preflight` | `run` of `main.rs`: loading, `run_checks`, `print_once`, `daemon::run` up to the service, on a host that changes | |
| `SupervisedProofs` | theorems about `SupervisedPublishing` | |
| `DaemonProofs` | the two refinements, and the theorems about `SupervisedPublishing` carried over to `Daemon` | `SupervisedProofs`, `CollectionService` |
| `CommandRunnerProofs`, `InstallerProofs`, `MqttProbeProofs`, `PreflightProofs` | theorems about the modules they are named after | |
| `CollectionProofs` | theorems about what a collection says and how long it lasts | `Collector`, `Utilization`, `StateExpiry` |
| `DiscoveryProofs` | theorems about the discovery document and what is shown through it | `Fleet`, `Entities` |
| `MCSupervised`, `MCPreflight`, `MCEntities`, `MCFleet` | instances: symmetry sets, contents of the credential file, readings of the sources, configuration files | |

### Correspondence

`MqttSupervisor.pc` is the await point of `run` (`Loop`, `Backoff`, `Drain`), its
end (`Done`, `Failed`), or `ConnAck`, the point between `borrow_and_update` and
`request_collection` at which there is no await but the worker may deliver. One
return of `event_loop.poll()` is one action and includes everything the loop body
does with the event: `PollOutgoing` and `PollPubAck` contain `handle_event`,
`perform` and the tail of the iteration (`just_became_online`, the second
`publish_current_state`, the status). Events that `handle_event` ignores are left
out. `perform` is `Perform`: on a channel without room `run` returns
`ControlQueueUnavailable` (`pc = "Failed"`).

`Phase` payloads are the record fields `expected` (awaited packet identifier) and
`skip` (`skip_queued_publish`). Rust replaces the payload together with the
phase, which is what `Enter` and `Await` do.

A state's payload is replaced by a stamp: the moment from which the collection
could observe the machine. In `SupervisedPublishing` and `Daemon` the stamp is
the number of connections accepted so far, in `CollectionService` the request
counter. This is all the freshness properties need.

`Transport` numbers connections. `conn` is the client's and `session` the
broker's; they differ while one side has not noticed the other's failure.
Packets in `uplink` reach the broker in order or are lost with the session.
The session is clean, so a poll error drops queued requests and in-flight
publications (rumqttc clears its pending requests when the CONNACK carries no
session). The broker publishes the will when a session ends without DISCONNECT
and when a new CONNECT takes an open session over.

`Daemon.Exit` combines the results as `run_service` does: an error of the worker
counts only if it was joined in time; a stop by signal is a success otherwise.
When the process ends, at `Exit` or in a `Crash`, its memory is gone
(`ForgetProcess`); the broker and the last session stay.

`Preflight` separates `fs::metadata` from the read of a file, since the operator
may act in between, and takes the MQTT probe as one step with a result:
`MqttProbe` shows that it always has one and what it means. `run_diagnostics` may
fail to build its runtime (`BuildDiagnosticRuntime`): it then exits with
`DIAGNOSTIC_ERROR` and no report. A collection is the
set of metrics that failed; that unknown power flags come with an error of
`collect_power` is part of `SnapshotHonest` of `Collector`. `checked` is a history
variable: what the last `check` found, as long as the host has not changed since
that check began.

In `MqttProbe` an identifier is a sequence whose suffix has three elements
("-check", the pid, the number); `unique_probe_client_id` cuts the configured part
and keeps the suffix, which is all that keeps two clients apart. `link` follows the
CONNECT: `"accepted"`, `"refused"` or `"other"` once the broker answered, `"open"` once
the probe has read an acceptance. `ErrorsOf` is rumqttc's part: the connection may
break at every place, with an answer still unread too, and the error is then an
`Io` or an `MqttState`, depending on whether it broke while it was set up or while a
packet was written or read.

`StateExpiry` counts seconds down to what is due: the next tick (`untilTick`,
negative when the runtime is late) and the most the collection under way may still
take (`left`). A collection may end earlier. `SchedulerTick` keeps the ticks on the
multiples of the interval, as `MissedTickBehavior::Skip` does. A collection that
began before the connection is `"overtaken"`: its state does not satisfy
`required` and is discarded. Everything that is not a wait of the code (reading
files, killing a command, a late task) is in the constants `Lateness` and
`Overhead`, which together may take one second.

`Measures` takes text for the number it holds. A `u64` is an integer up to `MaxU64`
and an `f64` a ratio of integers, so that rounding is exact; the error of the
floating-point division itself is left out. `Telemetry` fills the document from a
board, the record of what the sources hold, and `Serialized` rounds each field as
its `serialize_with` does. In `Entities` a template is one of five forms over a
path of the document, and `Render` is what Home Assistant makes of it.

In `Configuration` a text is its tokens, its length and the kinds of other
characters in it, and a topic the sequence of its levels, so that `/` and `_` can
be joined and told apart again. `Fleet.Start` is `daemon::run` up to the bootstrap:
the supervisor publishes under the topic of `MqttConfig`, and the document carries
the topics of `DiscoverySettings`. Documents stay retained when a board stops or
comes back with another id. That two boards have different ids is the operator's
duty and a guard.

## 3. Runs

| Run | Specification | Properties |
|---|---|---|
| `supervised_safety` | `SupervisedPublishing!Spec` | type, `ControlQueueAvailable`, `FreshState`, `BootstrapOrder`, `NoGhostOnline`, `DisconnectConfirmed`, `OfflineIsFinal`, `StatesInOrder`, `NoLostState` |
| `collection_service` | `CollectionService!FairSpec` | `RequestAnswered`, `WorkerEnds`, `ImplementsStateSource` |
| `daemon` | `Daemon!FairSpec` | `ImplementsPublishing`, `ProcessEnds`, `EventuallyOnline`, `EventuallyOffline` |
| `command_runner` | `CommandRunner!FairSpec` | `OutputIsWhole`, `NothingLeft`, `OutcomeHonest`, `RunReturns` |
| `collector` | `Collector!Spec` | `UsageExact`, `SnapshotHonest` |
| `installer` | `Installer!Spec` | `AccountUsable`, `RunningHasFiles`, `InstalledIsComplete`, `RemovedIsClean`, `UserFilesKept` |
| `mqtt_probe` | `MqttProbe!FairSpec` | `OutcomeTrue`, `NoTakeover`, `ProbeReturns` |
| `preflight` | `Preflight!Spec` | `InputsBounded`, `StartAsChecked`, `ReportHonest` |
| `state_expiry` | `StateExpiry!ExpirySpec` | `NeverExpires`, `RecoversSoon` |
| `utilization` | `Utilization!UtilizationSpec` | `UtilizationExact` |
| `entities` | `Entities!EntitiesSpec` | `EntitiesHonest` |
| `fleet` | `Fleet!Spec` | `TopicsAgree`, `EntitiesIdentified` |

The modules that keep a state of their own also say the ranges of their variables
(`TypeOK`, `ExpiryTypeOK`). That is proved for `SupervisedPublishing`, `Collector`,
`CommandRunner`, `Installer` and `MqttProbe`; elsewhere it documents the state. That
delivered states answer ever later requests is part of `ImplementsStateSource`.

All runs pass. What they show together:

* *On the wire.* On each connection the broker gets discovery, then "online",
  then states, each only after the one before was taken; a state was observed
  after the connection was made; identifiers of states increase. During a stop
  nothing but DISCONNECT follows "offline", and DISCONNECT is sent only after the
  broker took "offline". When the broker has no session of this client left, the
  retained availability is never "online".
* *Inside the process.* The control channel never fills, no wake-up for a state
  is lost, and no collection request is lost or answered by a collection that was
  already under way.
* *The whole.* Every behaviour of `Daemon` is one of `SupervisedPublishing`
  (`ImplementsPublishing`), so what is checked and proved there holds of the
  process with its real scheduler and worker.

* *Collecting.* `run` returns in spite of a child that hangs, floods the pipe or
  outlives its deadline, leaves no zombie and no thread, and never returns output
  that was cut. A state names every failed metric exactly once; its CPU usage is
  the growth since the last sample that could be read, so one rollback of a
  counter costs one reading; "ok" and "warning" are never said while something
  could not be read.
* *Installing.* However often the scripts stop half way, at a failed command, a
  signal or a power loss, the next run accepts what it finds and completes; a
  running service keeps its files; the administrator's files survive everything
  but `--purge-config`.
* *Before the start.* A probe returns in spite of a silent broker, says that the
  credentials were accepted or rejected only if the broker did so, wherever the
  connection breaks, and takes over no session, neither the daemon's nor another
  probe's. Limits on the files hold although they are replaced between the look
  and the read. After a `check` that exits with 0, on the same host, only the
  operating system can keep the service from running, and a check that was skipped
  unasked stands after a failure in the same report.
* *In time.* For every configuration `validate` accepts, a connected service
  publishes its next state before Home Assistant expires the last one, although
  both firmware commands may run into their deadline and ticks fall into the
  collection; a new connection has its first state within two collections. With a
  timeout equal to the interval the first would fail: the comparison in `validate`
  is what it rests on.
* *What Home Assistant shows.* Each entity shows the measurement its name says, in
  its unit, true to the last digit displayed, and unknown exactly when there was
  none. Memory, swap and disk never wrap around. For every accepted configuration
  the topics of the document are those of the supervisor, and no document takes
  over an entity of another, whatever the ids.

Four things these models make visible that the properties do not forbid. `run`
joins its reader thread without a limit, so a descendant of the command that
keeps the pipe open delays the return past the deadline. And an installation cut
off while it copies the example configuration leaves a fragment, which the next
run preserves as an existing configuration. Third, one reading can end the
service: a load average, or a firmware temperature, that is finite but within a
factor of 100 of `f64::MAX` passes its parser, `rounded_metric` yields `None` for it,
`serialize_optional_f64` makes that an error of the whole document, and the worker
ends (`CollectPayload` of `Entities`). The comment of `src/src/metrics/mod.rs:3`
promises "a missing metric instead of terminating the service". No kernel reports
such a load, but the range the parsers accept is wider than the one the serializer
can write. In `MCEntities` the load 5000 stands for it, with `MaxFloat = 20000`.
Fourth, a connection that is closed between CONNECT and CONNACK reaches the probe as
`ConnectionError::MqttState`. `classify_connection_error`
(`src/src/diagnostics.rs:566-568`) makes that `Protocol`, and the check reports an
invalid or unsupported MQTT response of a broker that has sent none. `OutcomeTrue`
therefore claims nothing of `Protocol`.

### Bounds

* Two packet identifiers: at most one publication of the protocol awaits its
  acknowledgement, and shutdown adds one more; an acknowledgement can thus be the
  wrong one. Identifiers are interchangeable (symmetry in the safety run).
* `RequestCapacity = 3`: the code has 16; the queue never exceeds 2, so a larger
  channel adds nothing, and the third place lets a wrong protocol show.
* `MaxConnections` 2 or 3: a connection, a reconnect that meets the leftovers of
  the first, and with 3 a second restart. The broker does not lose the last one
  by itself (otherwise the bound would look like a permanent outage).
* `MaxTicks`: the request number up to which ticks are issued; CONNACKs add theirs
  beyond it. It is 3 in `supervised_safety`. It is 1 in `daemon`, whose requests are
  thus the scheduler's first and one per CONNACK: a periodic tick of the composed
  process doubles its states and is left to `supervised_safety`, whose source the
  daemon implements, and to `collection_service` (`MaxRequests`).
* `RetrySteps` 1 or 2 for the seven entries of `RETRY_SECONDS`: the attempt only
  saturates at the end.
* `MaxRequests = 5`: several requests coalesced behind one collection, twice.
* `CommandRunner`: a pipe of two units, a limit of three units of output, at most
  five written, so that output below, at and above the limit occurs and the
  child blocks on a full pipe.
* `Collector`: one busy and one idle counter of 0 to 2 for the eight 64-bit ones,
  so that a counter can advance, stand still and go back and a sum can overflow,
  before and after a failed read; any number of collections. Four power masks: no
  bit, a current, a historical, both.
* `Installer`: two versions, so that an upgrade and a downgrade over any leftovers
  occur; any number of runs.
* `MqttProbe`: two probes and the daemon; a configured identifier of the full
  length (5 for 128), so that the suffix must displace it; the real capacity 4.
* `Preflight`: the limits of the credential file and of a field differ by one as
  they do in the code (4 and 3), with nine contents around them; three metrics
  for eight (the optional one, power, another); `vcgencmd` at the last place or
  nowhere. Any number of commands and of changes.

* `StateExpiry`: intervals on both sides of the 90-second minimum and timeouts at
  their limits, with every pair that `validate` accepts; the proofs cover the rest.
* `Utilization`: three numbers around a width of 0 to 7, with `KIB = 2`, so that
  sums, products and the conversion to bytes overflow; all files, line by line.
* `Entities`: for each source two to four readings (none, an ordinary one, one that
  needs rounding at a half, a negative or contradictory one, an uptime just beyond
  the width, a file system of blocks without bytes) and twelve masks, in every
  combination. `KIB = 8` keeps TLC's integers in range.
* `Fleet`: two boards and two starts, which is a second board or a restart; files
  that differ from a complete one in one field, on either side of each rule, and
  all ids that end in the first words of a key. The longest topic has 65,400 bytes:
  a configuration file has at most 64 KiB, so that the limits of 65,535 bytes in
  `validate` are never reached.

### Fairness

`Fairness` of `Daemon` is what tokio and the kernel owe the process: a woken
task is polled, a timer fires (retry delay, shutdown limit, drain timeout), and
an attempt to connect succeeds if the broker is reachable again and again (strong
fairness of `PollConnAck`, since retries never stop). `ProcessEnds` needs nothing
of the broker or of the worker's progress. `PeerFairness` adds that collections end, the broker takes what it is sent and
notices a closed connection; only `EventuallyOnline` and `EventuallyOffline` have
it as their hypothesis. Signals, crashes, restarts, ticks, connection losses and requests are never
fair.

`CommandRunner` assumes that the runner and its reader thread are scheduled, that
a killed child ends, and that whoever holds the write end of the pipe after the
child's end closes it some day. The last one is an assumption on the command: the
runner has no deadline for joining its reader (see the hazards).

`MqttProbe` assumes only that the timer of `tokio::time::timeout` fires.

## 4. Proofs

Every result below holds for every value of the constants that satisfies the
assumptions at the end of the section.

### The supervisor and the wire (`SupervisedProofs`)

`TypeCorrect`: `Spec => []TypeOK`. One lemma per method of `BootstrapMachine` (it
returns machines), then one per group of actions.

`QueueNeverFull` (`ControlQueueAvailable`) and `StatesAreFresh` (`FreshState`).
Neither is inductive. The strengthening is
`IInv == TypeOK /\ QueueInv /\ SourceInv /\ FreshState`:

* `QueueInv`: the phase determines exactly which requests wait in the channel
  (`QueueMatches`). Nothing waits in an awaiting phase, one request in a queued
  phase, and two only when shutdown came during a queued phase, in which case
  `skip` is set. Hence `perform` finds room in any channel of capacity 2 or more.
* `SourceInv`: every message that would satisfy `required` of the current
  connection (the one being collected and the latest one) was observed since that
  connection. It is established by `RequestFresh`, because no message yet carries
  the new request identifier, and kept by `Observe`, because connections are
  counted monotonically.

`BootstrapInOrder`, `NeverGhostOnline`, `DisconnectAfterOffline`, `OfflineStays`,
`StatesOrdered` and `NoStateLost`, one for each of the other invariants of the
run, share one invariant, `WInv`: `IInv`, the first five themselves (`NoLostState`
follows from `SeenInv`), and four parts that say what the two ends of a connection may conclude about each other.

* `BrokerInv`: a session that ended left nothing behind, and an "offline" that was
  taken is what the broker retains. With `DisconnectConfirmed` this is why a
  session that ends without its will leaves "offline".
* `ConnInv`: whose connection it is. A client that holds a connection is served on
  it or on none, so what the machine concludes is about the session it talks to.
* `LinkInv`, of a connection both ends hold. `PacketsDistinct`: an identifier under
  way, in either direction, is under way once, so an acknowledgement cannot be
  taken for another's. `AcksMean`: the identifier the machine awaits belongs to a
  publication of the kind its phase waits for; this is what `publish_acknowledged`
  relies on when it compares identifiers only. `Announced` and `OfflineLast`: what
  the broker has taken by the time the machine is in a phase. `StatesBelow`: a
  state on the wire is earlier than one that waits in the channel.
* `SeenInv`: a state that was marked seen is too old for the bootstrap, or has been
  offered. Of the two calls of `publish_current_state` in an iteration the second
  is what keeps it: a state seen while discovery was under way is looked at again
  when "online" is acknowledged.

There is one lemma for each group of actions and part. The parts were checked
with TLC on the constants of `supervised_safety` first.

### The whole daemon (`DaemonProofs`)

`Refinement`: `Spec => ImplementsPublishing`. One lemma per task shows its step to be
a step of `SupervisedPublishing` or a stutter under the mapping of `Daemon`. The
invariant supplies what the code relies on across tasks: the worker never took a
request that was not made, and holds a message while it collects (`WorkerInv`);
before the scheduler's first request there is at most one per connection, which
keeps its unbounded first request within the abstract bound (`SchedulerInv`); only
the end of the select asks for a stop (`MainInv`), so a stop is abstractly the
one `RequestShutdown`; and an ended process left nothing (`ExitedInv`), so the next
start is the abstract restart.

`DaemonWireSafe`: the eight invariants of the section above, of `Daemon`.
`SupervisedProofs` is instantiated with the mapping; `ProvedAssumptions` discharges
its assumptions, `SpecProved` its specification, and its theorems are cited.

`SourceImplemented`: `Service!Spec => Service!ImplementsStateSource`, where `Service`
is `CollectionService`: scheduler and worker keep the promise of `StateSource`
whoever else makes requests. The invariant is `WorkerInv` again.

### Commands, scripts and checks

`CommandRunnerProofs`: `OutputNeverCut`, `NoLeftovers` and `ErrorsHonest` rest on
`TypeOK /\ Accounting /\ Progress /\ ResultInv`: as long as nothing was cut, what
was written is kept or in the pipe; the place of the runner says what became of
the child, the reader and the cause. The reader ends only on an empty pipe that
nobody holds, which turns the accounting into equality.

`InstallerProofs`: `AccountNeverRefused`, `RunningKeepsFiles`,
`CompleteWhenInstalled` and `CleanWhenRemoved`, one for each invariant of the run,
for every set of versions. The strengthening says what each command may rely on
(`InstallProgress`, `UninstallProgress`) and that a running script has no outcome
(`Outcomes`). `UserFilesSafe`, the action property `UserFilesKept`, adds
`PurgeProgress`: a removal is never mixed with an installation's artifact, its last
commands are reached with `--purge-config` only, and a copy of the example that was
begun is not yet the administrator's file.

`MqttProbeProofs`: `OutcomesTrue`, for any number of probes. `Knows` ties the place of
each probe to what it may rely on: an empty request channel before the CONNACK, an
acceptance that was read after it, and none that was read before. Hence `ok` means
that the broker let the user in, no error after that counts, and `try_disconnect`
never finds the channel full. `SessionsCoexist`, the action property `NoTakeover`, rests on
the shape of identifiers: however much of the configured identifier
`unique_probe_client_id` cuts off, the suffix is whole and stands at the same place
for all probes (`ProbeIdShape`), so no two clients share one (`IdsDiffer`).

`PreflightProofs`, for all limits and all contents:

* `LimitsKept` (`InputsBounded`), from `Loaded`: the place of the process says what
  it has loaded, and everything loaded has passed a check on what was read, not
  only on what was looked at.
* `ReportsHonest` (`ReportHonest`), from `HonestInv`: the length of the report, its
  names and the reasons of its skipped entries at every place of `run_checks`, and
  that its first entry says whether there is a credential.
* `CheckForetells` (`StartAsChecked`), from `HonestInv` and `CheckedInv`: while the
  host stays as it was at the check, the place of the process says which files are
  good (`HostKnown`), and the outcome of the check does (`Foretold`). Hence loading
  cannot fail where the check passed, nor succeed where it failed.

### What a collection says, and for how long (`CollectionProofs`)

`UsageIsExact` (`UsageExact`), `SnapshotsHonest` (`SnapshotHonest`) and
`CollectionTyped` (`TypeOK`), of `Collector`, for any finite set of counters of any
width. `CollectorInv` has five parts: the types; `Accounts`, the growth of each
counter is its distance from the sample that was kept; `UsageRight`, a usage is that
of the growth which the two samples saw, and an "inconsistent" error has a counter
that went back or a sum beyond the width behind it; `ErrorsInv`, nothing is said of a
pending metric, and of any other there is a value or exactly one error, the CPU that
did not move and the board without a frequency excepted; `StatusInv`. Each of the
eight metrics ends in the same way (`Ends`), so that one lemma covers all but CPU
usage. For that the proof needs what a sum over the counters is: it may be taken in
any order (`SumTake`), splits over busy and idle (`SumSplit`), and is not less than a
term (`TermsBelow`). `Sum` is recursive over an order that `CHOOSE` picks, and
induction over sets is out of the prover's reach, so each of these facts is proved of
a smallest set that fails it; there is one because strict inclusion is well-founded
on the subsets of a finite set (`MinimalSubset`).

`AmountsExact`: `UtilizationSpec => []UtilizationExact`, for every width and every
set of numbers. The invariant adds only that what was read is a number or `Absent`;
the work is in the lemmas on products (`ProductsOrdered`), on a clamped part of a
total (`ClampedAmount`) and on the two sources (`MeminfoSound`, `DiskSound`).

`StatesNeverExpire` (`NeverExpires`) and `ConnectionsRecover` (`RecoversSoon`), of
`StateExpiry`, for every interval, timeout, lateness and overhead with
`Lateness + Overhead <= 1`. Neither is inductive: `age` alone says nothing about how
much more may come. `FreshBound` adds to `age` what is still ahead, the time to the
next tick while the worker waits and the rest of the collection while it collects,
and `RecoveryBound` does so for a connection without a state. The sum stays within
`interval + Lateness` plus the longest collection, which a timeout below the interval
keeps within three intervals or 90 seconds.

### What Home Assistant is told and shows (`DiscoveryProofs`)

`TopicsAlwaysAgree` (`TopicsAgree`) and `EntitiesStayIdentified`
(`EntitiesIdentified`), of `Fleet`, for any number of boards and any configuration
files. `FleetInv`: the services that run have accepted configurations with ids of
their own; the document of each is retained under its topic; and whatever is retained
under a topic is the document of an accepted configuration with that topic. It is
kept because a topic gives away the id (`TopicTellsId`): a start can replace a
document of the same id only. `TopicsAgree` then needs that an accepted configuration
has nothing left to trim (`NothingTrimmed`), so that both halves of the program put
the same levels together, none of them empty or with a wildcard (`TopicsLegal`).
`EntitiesIdentified` needs the table: 26 keys (`KeysCounted`), any two of which
differ in one of their last three words (`KeysApart`), so that of two ids which are
equal both the key and the device are equal (`IdsApart`), and every token of an
entity id is one that Home Assistant admits (`EntityIdAdmitted`).

`EntitiesStayHonest` (`EntitiesHonest`), of `Entities`, for any readings of the
sources. `EntitiesInv` says that the board is of its type and that a delivered
message is the serialized telemetry of that board, which every step keeps; the work
is in what follows from it. An entity is found by its key (`KeysUnique`), and each of
the 26 is followed from its template through the field of the message to the source.
What the roundings on the way may add up to is in `RoundNear` and `RoundedClose`, and
that a share is the same whether counted in bytes, in KiB or in blocks in
`CommonFactor` and `ShareClose`.

The proof of `EntitiesHonest` corrected the property in two places no instance had
reached. An uptime of `u64::MAX` seconds or more is refused by the parser and shown
as unknown, where the property asked for a number. And a file system of blocks with
a fragment size of zero is accepted and shown as 0 %, where the property asked for
the share of its blocks. Both are now instances of the run as well.

### Assumptions, and what is only model-checked

Assumptions, which TLC evaluates on its instances:

* `PacketIds` does not contain 0, `RequestCapacity >= 2`, `MaxConnections`,
  `MaxTicks` natural numbers, `RetrySteps >= 1`; sizes are natural numbers, those of
  pipe, buffer and configuration not zero; versions are positive; identifiers of
  clients have at least one and at most `IdLimit` characters, and `IdLimit` leaves
  room for the suffix of a probe;
* `CountersAssumption`: finitely many counters, a natural number as their limit;
  `WidthAssumption`, `NumbersAssumption`, `FloatAssumption`: a width, a unit that is
  not zero, numbers within the width;
* `ExpiryAssumption`: whole seconds, and `Lateness + Overhead <= 1`;
* `BoardAssumption`: every source holds what its file, command or system call can
  hold. It is satisfied by the set of all of them;
* `TablesAssumption`: ids and topics of a configuration file are texts, and two ids
  of letters and punctuation only are equal when their tokens are (the tokens are how
  a text is modelled). `LowerAssumption`: `to_ascii_lowercase` leaves what is in lower
  case alone, leaves it alone the second time, and makes no "-" of anything else.

Only model-checked: the liveness properties `RequestAnswered`, `WorkerEnds`,
`ProcessEnds`, `EventuallyOnline`, `EventuallyOffline`, `RunReturns` and
`ProbeReturns`, since the prover has no support for fairness. Every invariant, every
action property and both refinements that a run checks are proved.

## 5. Not modelled

* Splitting text into fields, TOML and JSON syntax, and `metadata.rs` with
  `detect_metadata`: text handling without state, whose results are names shown to
  the user. Names, icons and classes of entities.
* The error of floating-point operations other than overflow: a percentage is
  rounded from the exact ratio here and from a 53-bit one in the code.
* The length in bytes of a discovery document. With a base topic of tens of
  thousands of bytes, which `validate` accepts, it exceeds `MAX_PACKET_BYTES` and
  the bootstrap can never be sent (see the hazards).
* `DaemonError::DiscoverySerialization`, between the collector and the service in
  `daemon::run`: the document has text keys and holds texts and whole numbers only,
  which `serde_json` always writes.
* In `MqttProbe`: a configured client identifier that itself ends like that of a
  probe, and a pid that is used again while the broker still holds a session of
  its former owner.
* In `Installer`: staging under `DESTDIR`, owners, modes, directories, and the
  checks of paths and accounts, which can only end a script before it changes
  something. The administrator does not act while a script runs.
* Build, release and validation scripts.
* Durations outside `StateExpiry`. Timeouts are nondeterministic, which covers
  every race between a timer and what it limits, but says nothing about lengths.
* rumqttc's internal buffering of events after an error, the DNS lookups on the
  second blocking thread, keep-alive traffic.
* A worker that cannot be stopped: `drain_collector` gives up on it and the
  process exits with it; the log text "its pending state was discarded" also
  appears when the worker was merely waiting for the supervisor's sender to go.

## 6. Plan

1. Done: `BootstrapMachine`, `Channels`, `Transport`, `MqttSupervisor`,
   `StateSource`, `SupervisedPublishing`, `Collection`, `Daemon`, `CommandRunner`,
   `Collector`, `Installer`, `MqttProbe`, `Preflight`.
2. Done: `Timing` and `StateExpiry`, `Measures` and `Utilization`, `Health`,
   `Telemetry`, `Discovery`, `Entities`, `Configuration`, `Fleet`.
3. Done: the proofs of section 4: the wire, both refinements, the action properties,
   and with them every safety property that a run checks.
4. Left: what needs more than these models hold, the four hazards without a property
   in `PROJECT.json`.
