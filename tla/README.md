# RAMDeck core: a verification project

This directory specifies and checks the concurrent and failure-prone parts of
the RAMDeck core (`daemon/ramdeck/`): the coordinator's node registry, the node
agent that runs on every machine of a cluster, and the processes and files they
manage.  Line references are to `src/daemon/ramdeck/` unless a path is given.

## 1. Inventory

| Component | Source | State it keeps | Operations | Talks to |
|---|---|---|---|---|
| Node registry | `registry.py`, `models.py` | node records, the set of restored nodes awaiting reconfirmation, the state file | `upsert`, `heartbeat`, `update_capability`, `remove`, `mark_degraded`, policy setters, `sweep_stale`, queries, save and load | called by the coordinator's request handlers, its sweeper and its schedulers |
| Node agent main loop | `node_agent.py` 1641-2009 | instance lock, two worker processes, engine supervisor, the result of the last command, backoff | start-up, registration, heartbeats, command execution with pulses, worker supervision, shutdown | coordinator (HTTP), worker processes, engine supervisor |
| Command exchange | `node_agent.py` 1531-1638, 1885-1981 | the result to report, the command in flight | `send_heartbeat`, `heartbeat_or_reregister`, `execute_node_command`, the pulse loop | coordinator (HTTP), command thread |
| Instance lock | `node_agent.py` 1381-1430 | a lock file naming pid and creation time | acquire (create exclusively, inspect, unlink, retry), release | other agent processes through the file system |
| RPC workers | `node_agent.py` 1187-1378, 1433-1441, 1684-1750, 1827-1883 | GPU worker and CPU worker, restart budgets | preflight, exit check, restart, drop | OS processes and ports |
| Engine supervisor | `engine_supervisor.py` | the llama-server process, its model, launch id, last launch diagnostic | `start` with its fallbacks, `stop`, `execute`, `report` | llama-server process and port, command thread and main thread |
| Model download | `node_agent.py` 130-230, 1466-1528 | `.part` file, target file, retry count | download once, retry, size and throughput guards | HTTP source, file system |
| Split diagnostic | `split_lifecycle.py`, `split_controller.py`, `split_diagnostic.py` | owned local and remote processes, event streams, report | start, stop, placement wait, one request, receipts | ssh helper, llama-server |
| Model compatibility | `compatibility.py` | none (pure) | memory estimate, context ceilings, verdict | registry capacities |
| Capacity report | `capacity.py` | none (pure) | fit report, next unlock | registry |
| Discovery | `discovery.py` | mDNS browser and advertisement | advertise, browse | LAN |
| Packaging and UI | `node_agent.py` 230-1186, 2012-2333 | Windows service files, firewall rule, tray UI, configuration | install, configure, display | Windows |

What makes them correct, and what is hard about each:

* **Registry.**  A node is offered for inference only on first-hand, recent
  evidence; the operator's policy is never changed by a report; silent nodes
  leave.  Hard: clock readings taken before the lock, restored nodes with recent
  stamps, saves that fail silently, marks that race sweeps.
* **Command exchange.**  Every executed command is answered once; commands are
  executed at most once; the node stays known while it works.  Hard: lost
  requests and replies, a coordinator that forgets the node, pulses sent while a
  command runs.
* **Instance lock.**  At most one agent per configuration.  Hard: the file is
  created empty and filled later, a stale file is unlinked by name, agents crash.
* **RPC workers.**  A dead worker is replaced or given up within a budget; no
  worker that was not told to end outlives its agent; losing the secondary worker is
  survivable.  Hard: workers of an earlier agent that hold a port or bind it late,
  failing restarts, exits between two checks.
* **Engine supervisor.**  At most one llama-server; an `ok` answers for the
  process it started, or else the port was taken behind the start's back; an error
  carries its own diagnosis; nothing outlives shutdown.  Hard: a multi-stage fallback with failures at each stage, a stop from
  another thread in the middle of a start, a diagnostic shared between launches.
* **Split diagnostic.**  A pass implies both owned processes were cleaned up.
  Hard: buffered reads behind a selector, half lines, receipts consumed by the wrong
  loop.
* **Download.**  A command answered ok has put the whole body in place, one answered
  with an error has kept the old model or put a whole body in its place, and no partial
  file stays.  Hard: retries over the same file name, a second agent on the same
  directory, bodies cut short, a header that is parsed after the rename.
* **Compatibility.**  The context offered fits and is at most one token below the
  largest that does; what is turned away does not fit above the minimum.  Hard: two
  roundings up against one division down, each in doubles.

## 2. Modules

| Module | Models | Extends |
|---|---|---|
| `InferencePool` | abstract: when a node may enter the pool that schedulers use | |
| `Registry` | `NodeRegistry` with its state file, sweeper, operator and restarts | |
| `RegistryClient` | `Registry` composed with a thread that calls `inference_ready_nodes` and an operator who excludes nodes | `Registry` |
| `MCRegistry` | the symmetry set for TLC | `RegistryClient` |
| `RegistryProofs` | theorems about `Registry`, the refinement of `InferencePool` among them, and about `RegistryClient` | `RegistryClient` |
| `InstanceLock` | the lock file, the port check and the worker start of several agents | |
| `InstanceLockProofs` | theorems about `InstanceLock` | `InstanceLock` |
| `CommandService` | abstract: an agent with one command in hand, which it finishes, answers and only then exchanges | |
| `CommandLoop` | registration, heartbeats, commands, pulses and `--once` against a coordinator | |
| `CommandLoopProofs` | theorems about `CommandLoop`, the refinement of `CommandService` among them | `CommandLoop` |
| `RpcWorkers` | the two workers of agents that run one after the other | |
| `RpcWorkersProofs` | theorems about `RpcWorkers` | `RpcWorkers` |
| `EngineSupervisor` | starts, fallbacks and stops of llama-server, with the processes and the port | |
| `EngineSupervisorProofs` | theorems about `EngineSupervisor` | `EngineSupervisor` |
| `DiagnosticRuns` | abstract: runs of the diagnostic, one at a time and on clean hosts; a pass that is reported has shown its measurements, with server and worker gone | |
| `RemoteHelper` | the helper that owns the llama-server on the other host, its pipes, and the reader at the controller's end | |
| `SplitController` | the split diagnostic: both stages, both owners' cleanup, the report one run leaves to the next | `RemoteHelper` |
| `SplitControllerProofs` | theorems about `SplitController`, the refinement of `DiagnosticRuns` among them | `SplitController` |
| `Download` | download commands of agents that share a models directory | |
| `DownloadProofs` | theorems about `Download` | `Download` |
| `Compatibility` | the memory estimate, the context ceiling and the verdict | |
| `CompatibilityProofs` | theorems about `Compatibility` | `Compatibility` |

### Registry

`nodes`, `pending` and `disk` are `_nodes`, `_pending_reconfirmation` and the
state file.  A record keeps what the decisions depend on: the stamp, the state,
the two policy flags and whether the node is an Android.  Capacities, hardware and
names are left out.  Each mutator holds the lock from its first read to its last
write and is one action, with the `_persist_state` that ends it.  `sweep_stale`
reads the clock before the lock and is two actions; so is `inference_ready_nodes`
in `RegistryClient`.  `Restart` is `_load_state`; `Crash` loses the memory.
Persisting renames a temporary file, so that the file holds the old or the new
contents; a failure is swallowed.

Time is a number of ticks.  One tick stands for the 0.001 s `mark_degraded` adds to
the threshold, and the thresholds are constants, so what holds for all of them
holds for 20 s and 60 s.  The clock never steps back, and one sweeper runs at a
time; both are assumptions about the deployment, for the wall clock is used and the
coordinator, whose loop calls `sweep_stale`, is not in the repository.

### Instance lock

One action per system call that another process can observe: create, write,
inspect, unlink, the port check, the worker's bind, the two halves of the release.
An agent is one process, killed at any point or not; a restart is another
element of `Agent`.  Unlinking an open file succeeds, as on POSIX.  A pid is not
given to a new process with the same creation time.  `terminate()` is not awaited: a
worker that was told to end (`ending`) may still bind the port, and hold it while the
lock is released and the next agent comes (`StopWorker`).  A KeyboardInterrupt during
the preflight or in the `finally` clause leaves the worker untold (`Interrupt`).

### Command exchange

A request and its answer are one step with five outcomes: answered, answered
with 404, lost on the way, answer lost, given up on and taken later (`late`).  The
coordinator is external: it answers an unknown node with 404, takes the result in
a heartbeat before it chooses the command of the answer, and hands a command out
once or again until it has the result.  The agent's `pc` follows the code:
`register`, `loop`, `reregister` (inside `heartbeat_or_reregister`), `executing`
(the pulse loop).  The command itself is opaque and ends after any time.  `args` is
the command line: `--once`, and whether a failed registration looks for a coordinator
by discovery, which is assumed to find the same one.  An agent that has ended may be
started again with another command line.

### RPC workers

`process` has the workers of each agent, the present one's and those of earlier ones:
running, told to end, or not there.  `listener` is the agent whose worker has the
port, and `handle` what the variables of `run_agent` hold: nothing, the worker started
last, or the exited one before it while its successor is verified, for the variable
is assigned only afterwards.  `terminate()` tells and does not wait, so that a worker
lives on for a while, and may bind its port, after its agent is gone; one that had not
bound when its agent ended may do so after the next agent's port check (`late`).  The
phases of `run_agent` are kept apart where an exception leads to a different clean-up:
before the payload is built nothing is cleaned up (`PayloadFails`), during set-up
both workers are told (`SetupFails`), later the `finally` clause runs (`Finally`).  A
KeyboardInterrupt between Popen and the assignment, or in the `finally` clause, leaves
a GPU worker that nobody tells (`Interrupt`, `abandoned`).  Workers crash at any time,
and what a kill leaves behind keeps its port until it ends.

### Engine supervisor

Two threads: the command thread runs `execute`, the main thread calls `stop` when the
agent ends, after the command or in the middle of it (a KeyboardInterrupt of the
pulse loop).  `stop` is two steps, forgetting the process and killing it.
`last_launch_diagnostic` is kept as a reason and whether it belongs to the present
command, because the decision to fall back rests on it.  The reason guessed from
the log may be any; the memory check of the fallback may refuse or not; the port may
be taken by any program as soon as it is free, and any program may answer the health
check, as line 511 takes every 200 with the status `ok`.  `late` remembers that the port
was taken after the start had found it free.  Killing works (terminate, then kill),
as `_terminate_process_tree` assumes.

### Split diagnostic

`RemoteHelper` keeps the two ends of an ssh connection.  `helper`, `reader`,
`stopReq` and `requests` are the helper's main thread, its command thread,
`stop_requested` and `request_count`; the thread that forwards the server's log is
the action `ServerLogs`.  `stdin` and `pipe` are the two streams; `buf` holds what
`readline()` took out of the pipe and has not returned.  `Receive`,
`NothingToSelect` and `EndOfStream` are the three ends of `_read_line`.  A line is
what the controller makes of it (a measurement, an answer, a receipt, ...); two
prints of different threads may run into one line, and the last one before the
connection broke may be cut.  `_read_line` has two waits without a deadline.
`readline()` waits for the rest of a line whose newline, printed apart from the text,
has not arrived (`MayBeHalf`), and `stderr.read()` for the end of ssh's stderr: `Block` is
the step into either, `blocked` says that the controller is in it, and `Stuck` that there
is nothing yet to wake it.  A helper on a host without CTRL_BREAK_EVENT ends without
a receipt and leaves its server (`"raised"`).

`SplitController` follows `run()` with `ctl`: the phases of the try, each of which may
raise (`Raise`), then the finally clause (`StopRemote` to `WriteReport`).  `started`,
`receipts` and `failed` are the flags, the cleanup sections and `cleanup_errors`;
`seen` the measurements parsed so far.  A deadline may pass wherever the code looks at
the clock, and nowhere else.  The process may be killed anywhere, and a second interrupt during
cleanup amounts to that.  A run forgets everything but the report (`reports`), which
the sample stage asks for, and what it left running, which the capacity probe (given
to the controller from outside) is assumed to see.  It is also assumed that
the next run starts after the earlier run's helper has ended.

`Runs` maps the controller to `DiagnosticRuns`: the phases, reads and cleanup vanish, what is
left of a run is its beginning, the moment it has shown what its stage asks for, the processes
that come and go, and its end with or without a report.

### Model download

`dir` maps the two names, the model's and its `.part` file's, to the pieces of their
files; `job` is the command each agent is at, from `unlink` over `connect`, `stream`
and `replace` to `parse`.  Names and open handles follow POSIX: unlinking a file or renaming
another over it leaves it to whoever has it open (`Rename`, `Unlinked`), and a write lands
where the handle stands, beyond a hole if somebody emptied the file (`Put`).  Agents
on one directory derive the same name for the partial file, so that each may remove,
empty and rename the other's; the properties about a download's outcome are stated of
those that met no other (`met`), the one about leftovers of all.  A response has a body
of one source, a model or a page, and is framed by a length or ends with the connection:
only a framed body that is cut is noticed, and by the HTTP library, not by the code.
Throughput and stall guards, timeouts, 5xx and a full disk are ways for an attempt to
fail; whether another attempt follows is open, within the budget.  The header is parsed
after the rename, and whatever is there may be refused (`ParseFails`); one that is cut
always is (`HasHeader`: the header is in the first piece of the bodies in `Short`, and in
all of the others).  The unlink may be refused, too (`UnlinkFails`).

### Compatibility

One question per behaviour: a model, what its header says, the context asked for and the
pool.  The verdict is one of three actions, the loop that lowers the context is `Lower`.
The figures are doubles, as in the code: a double is a whole number of grains,
the finest fraction of a byte in play, and `Near` rounds a product, a difference or a
quotient to the nearest of them, ties to even.  1.1 and 1.2 are the doubles nearest to
them (`WeightsNum` / `WeightsDen`, `MarginNum` / `MarginDen`), the first above its decimal and
the second below.  With 2^52 for `Digits` and the code's MiB the definitions compute what
the code does; the runs shrink the three scales.  0 stands for None, as in the code's `or`
chains.

## 3. Runs

All passing runs finish within two to three minutes.

| Run | Shows |
|---|---|
| `Registry_one` | one node, every input, failing saves and loads: `DiskCurrent` (no mutator forgets to save); `PolicyOnlyByOperator`; `NoRevival` (no sweep revives a node that left the pool); `SilentDropped` under a fair sweeper |
| `Client_two` | two nodes and a thread that asks: `UnconfirmedNeverOnline`, `MarkHolds`; the registry implements `InferencePool`; an answer computed with a clock reading as old as the wait for the lock names no node degraded before the call and none that has not reported |
| `InstanceLock_starts` | three agents killed anywhere: the lock excludes unless two acquire at once; an agent that gives up was stopped by a living one, or ran out of passes while another was acquiring; two agents that slipped in together do not stay together |
| `Command_exchange` | every command line, two commands, every fault, one restart of each side: the loop implements `CommandService`; a command runs again only if the agent lost it; no result vanishes unnoticed; what the coordinator keeps handing out is reported; a forgotten node returns; a stop request ends the agent; so does `--once` when discovery is off (`OnceEnds`) |
| `Rpc_workers` | two agents: another agent's worker passes for the GPU worker only if it had not bound its port when that agent ended; a GPU worker that outlives its agent was told to end, but for the ways out that tell nobody; a dead worker is replaced or the agent ends; a stop request ends it |
| `Engine_starts` | every living server is known or about to be killed, a failed start leaves none, a program that answers for the server took the port after the start's check, every command is answered |
| `Split_run` | two runs of the diagnostic, every fault: a pass is true and leaves nothing; what a run leaves it reports; a sample rests on a true placement of the same configuration; the server ends before the worker, or its cleanup is reported as failed; the controller implements `DiagnosticRuns`; every run ends unless a read is stuck for ever; a server whose controller is gone ends |
| `Download_shared` | two agents on one directory, two attempts each, kills: no partial file is forgotten; `ok` means delivered; an error leaves the old model or a whole new body; every download ends |
| `Compatibility_verdicts` | models and pools around every boundary: at most one token more than the offer fits; a rejection leaves at most the minimum itself that would; the loop ends within the loss of the roundings, at a context that fits |
| `Client_exclusion`, `InstanceLock_overlap`, `Split_TimeoutMeansSilence` | expected violations, section 4 |

Bounds and why they suffice:

* `MaxClock` 2 to 4 with thresholds 0 to 1 and 1 to 3 ticks: a node passes through
  fresh, stale and too old, with a tick to spare for a restart or for a reading that
  lags; the differences of instants, not the instants, decide every guard.
* Two nodes in `Client_two`: the registry's nodes do not interact except through
  the sweep and the file, which treat them one by one.  `AndroidKinds`,
  `OffloadChoices`, `SaveOutcomes` and `LoadOutcomes` restrict inputs a run does not
  need; `Registry_one` has all that matter to its properties.
* Three agents in `InstanceLock_starts`: two that meet and one that unlinks or comes
  later.  The proof covers any number.
* Two commands, `MaxForgets` and `MaxCrashes` 1: one command in flight and one
  waiting, with one fault of each side before, between or after.
* `MaxRestarts` 2 and `MaxAgents` 2: a first restart, a last one and none left; an
  agent that leaves workers behind and one that meets them, or whose ports they take
  late.  A third agent meets nothing that a second does not; the proofs cover any number.
* `MaxPeers` 2: the reduced topologies exist from two peers on, and each further peer
  adds one more turn of the same loop.  Three `Server` processes: the one forgotten by
  the main thread, the one the command thread launches meanwhile, and one spare.
* `MaxLines` 2 and one measurement: a line to read and a line held back, with the
  answer and the receipt behind them.  The gate asks for a set of measurements; one
  that is missing and all there are the cases it tells apart.
* Two runs and two configurations: a placement and a sample, with the same configuration
  and with another.
* Two agents, `Size` 2, `Budget` 2 and one body of each kind in `Download_shared`: a body with a first and a
  last piece, one cut between them, a first attempt and a last one, and another agent at
  any of its steps.  The proofs cover any number of each.
* `Compatibility_verdicts`: a MiB of 8 bytes and doubles of 9 digits, in which 1.1 is
  rounded up and 1.2 down as in the code's 53, with sizes, pools, KV costs and contexts
  on, below and above every comparison; the proofs cover all values.
* Deadlock is checked in the runs of the registry and of the download; elsewhere the agents may have
  ended, which is where the system stops.

Fairness:

* Registry: `FairSpec` is weakly fair for time and for the sweeps (the coordinator
  calls `sweep_stale` periodically); nothing else has to happen.
* Instance lock: a process proceeds, a worker binds or exits.  Nobody has to start,
  stop or be killed.
* Command exchange: the loops go on and commands end (weak); of the requests that are
  tried for ever some arrive, for each outcome that stays possible (strong).
  Nothing forces the coordinator to be reachable at any time, and `StopEnds` needs
  no answer at all.  The agent's exchanges are weakly fair because every
  request has a timeout.
* Download: weak fairness of each command's next step, every wait of which has a
  timeout of the HTTP library's.
* RPC workers and engine: weak fairness of the agent's own steps, every wait of
  which has a timeout.  The registration loop is excepted: only a stop request ends it
  for sure.  No worker has to bind, to end when it was told, or to crash.
* Split diagnostic: the controller's steps, but for a read that is stuck; every other
  wait has a timeout, and `RunEnds` is about runs that are not stuck for ever.  The
  other host may hang while a run is on (`RunEnds` does not need it); once the
  controller is gone, the helper's threads go on, and a request it serves ends by the
  timeout of `urlopen`.

## 4. Findings

* **An exclusion can be forgotten.**  A restart after more than 60 s drops the record
  with the operator's policy in it (`registry.py:377`), and the node comes back
  enabled.
* **Two agents at once.**  A lock file that was created and not yet written is taken
  for stale (`node_agent.py:1414`).  `DuplicateResolved`: only one worker gets the port,
  and the other agent stops.
* **A wait times out with its line at hand.**  `_read_line` (`split_lifecycle.py:355`)
  selects on the pipe and reads with a buffered `readline()`.  Lines that come
  in one chunk are taken together, one is returned, and the others wake no selector:
  if the server then falls silent, the placement gate or the wait for the response
  fails.  Cleanup is not affected, because the end of the stream wakes it (`RunEnds`,
  `PassProves`).  The same line has no deadline when half a line has arrived
  (below).

Smaller disagreements, met while modelling and not pursued as runs:

* every orderly stop leaves the CPU worker running (`node_agent.py:2003`), and the
  next agent meets it on its port; a restart of this optional worker that raises then
  ends the agent (`node_agent.py:1873`);
* nobody waits for a worker that was told to end (`node_agent.py:1690`, 1765, 2005); one
  that had not bound its port yet may bind it after the next agent's check
  (`node_agent.py:1676`) and pass for that agent's worker in the preflight
  (`node_agent.py:1438`), the two agents being serial; `ForeignWorkerWasLate` says that this
  is the only way;
* a KeyboardInterrupt between Popen (`node_agent.py:1686`) and the assignment of the handle
  (`node_agent.py:1700`, 1849) leaves a worker that the `finally` clause does not know;
* the retries of an engine start (`engine_supervisor.py:361`) do not look at the port
  again, and whoever answers `/health` with 200 and `ok` passes for the server (line 511);
* `readline()` (`split_lifecycle.py:357`) and `stderr.read()` (line 363) wait without the
  deadline of the wait they are part of: half a line from a connection that stalls keeps
  the diagnostic for ever, its cleanup included;
* the helper's `finally` clause names CTRL_BREAK_EVENT, which exists on Windows only
  (`split_lifecycle.py:217`), and does not expect the AttributeError: elsewhere it leaves
  the server and prints no receipt;
* `--once` executes the command it is handed and exits without reporting the result
  (`node_agent.py:1982`), and exits with 0 after a heartbeat that failed;
* a hub that cannot be reached at the start ends an agent whose discovery finds nothing
  (`node_agent.py:1808`), while one without discovery tries for ever; when discovery
  finds the same hub again, `--once` tries for ever, too;
* `_run_command` (`node_agent.py:1909`) sets `command_done` outside any `finally`: an
  exception that `execute_node_command` lets through would leave the main loop pulsing for
  ever, and the result "exited unexpectedly" (`node_agent.py:1949`) is never used;
* a downloaded file takes the old model's place before its header is parsed
  (`node_agent.py:220`): a page, a header of an unsupported version or one cut short has
  replaced the model when the error is reported, and stays listed; `ErrorLeavesWhole`
  says that nothing else does;
* `bytes_total` is never compared with what arrived (`node_agent.py:212`): a body without
  a length that is cut short is answered `ok`;
* two agents with one models directory may rename each other's partial file
  (`node_agent.py:142`);
* a model whose header does not say what a token costs gets its native context as the
  ceiling (`compatibility.py:275`): when not even its weights fit, it is reported
  as `fits_with_reduced_context` with context 0 and a requirement above the pool;
* rounding may lower the context a few tokens below the minimum the verdict asked
  for (`compatibility.py:223`); `ReducedIsClose` bounds how many;
* the ceiling and the estimate round the same figures differently
  (`compatibility.py:277`), so that the ceiling may lose a token.  With 57671680 bytes of
  weights, a pool of 78 MiB and 4608 bytes a token, 1023 tokens are offered and 1024
  fit; with 9216 bytes a token the verdict is `does_not_fit`, and the minimum of 512
  fits.  `OfferWithinOne` and `RejectionWithinOne` say that it is never more;
* the next unlock is the model with the least memory missing (`capacity.py:65`), however
  many nodes it is short of;
* a pulse is a heartbeat and its answer may carry a command, which is dropped
  (`node_agent.py:1931`; the comment above says that pulses do not fetch commands);
* a pulse answered with 404 only logs, although the pulses are there to keep the node
  reachable (`node_agent.py:1941`), and a pulse sends the time of day as its latency
  (`node_agent.py:1935`);
* `sweep_stale` reads the clock before it waits for the lock (`registry.py:204`) and sets
  a node degraded meanwhile back online, although it is there to downgrade and drop;
  `MarkHolds` and `AnswerExcludesMarked` show it harmless for scheduling, for the
  back-dated stamp keeps the node out of every answer;
* `sweep_stale` does not report a node it stops waiting for when its state was
  unreachable before (`registry.py:208`), and `mark_degraded` brings a dropped node back
  into the active nodes (`registry.py:238`);
* the fallback called `retry_without_rpc_once` (`engine_supervisor.py:258`) first tries
  each reduced topology with peers (line 361), so that up to `n` + 2 launches follow
  one another;
* a start that fails before its process exists reports the diagnostic of an earlier
  launch, and decides about the fallback by it (`engine_supervisor.py:304`);
* an engine start that is interrupted may leave one llama-server running: the main
  thread stops the server it knows, the command thread launches the next
  (`NoLostServer` says that it is one at most);
* a server that ends by itself during the placement wait sends its receipt into that
  wait, which passes it over; the cleanup then fails on a closed pipe, and a process
  that was proved gone is reported as one that was not (`split_controller.py:192`);
* STOP waits behind a request the helper serves, for up to its timeout of 60 s, and
  `stop()` for 15 s: the worker is then stopped under a living server, which is
  reported (`HeadBeforeWorker`);
* an owner interrupted after its process started, and before `run()` noted it, is not
  stopped and not reported (`split_controller.py:147`, 150).  The server goes with the
  connection, unless the helper's first line meets a closed one
  (`split_lifecycle.py:166`); the worker stays until the capacity probe of the next run
  finds it.

## 5. Proofs

TLAPS checks every leaf; the theorems hold for all values of the constants that
satisfy the named assumptions.

* **Registry** (`RegistryProofs`; assumptions `ThresholdsAssumption`:
  `DegradedSec < UnreachableSec`, and `BoundsAssumption`).  The safety properties are
  not inductive.  The invariant `IInv` adds: a coordinator that is down knows nobody
  (`DownEmpty`); a node awaiting reconfirmation has not reported and is not online
  (`PendingOffline`); *a node that is not online is stale by the present clock*
  (`OfflineStale`), which is what makes a sweep with an old reading harmless; a
  restored node that was given up on is too old for every later sweep
  (`GivenUpForGood`, about `sweepNow`); a node degraded on purpose is stale
  (`MarkedStale`); and `DiskCurrent`.  From it follow `TypeOK`, `UnconfirmedNeverOnline`,
  `MarkHolds`, `DiskCurrent` and the refinement: every step of the registry is a step of
  `InferencePool` or stutters.  Its core is that a sweep only shrinks the ready set: a
  node that a sweep puts online was offline, hence stale, hence not ready.
  `PolicyOnlyByOperator` and `NoRevival` follow from the same invariant;
  `AnswerExcludesMarked`, of `RegistryClient`, needs that a node marked before the
  question is stale by the question's own clock reading (`AskedLate`).
* **Instance lock** (`InstanceLockProofs`; assumption: `NoOne` is no agent).
  `SerialStarts` is proved with three more facts that hold without overlap: one
  agent acquires at a time, the agent about to write has the file it created, and
  whoever found the file stale is alone, so that its unlink removes nobody's lock.
  `RefusedForCause` is proved with two more: an agent whose name is in the file is past
  its acquisition (`WriterIsPast`), so that nobody is refused by himself; and without
  overlap an agent in its second pass finds no file (`SecondPass`), so that it does not
  run out of passes.
* **RPC workers** (`RpcWorkersProofs`; `BudgetAssumption`).  `TypeOK`, `ForeignWorkerWasLate`
  and `NoGpuOrphan`.  The invariant adds: only agents that were started have workers
  (`Counted`); until the first one is started the present agent has none (`FreshGpu`); a
  GPU worker that nobody told is held, being verified or given up (`GpuHandled`); and an
  earlier agent's GPU worker that has not bound is `late` (`UnboundIsLate`).
* **Command exchange** (`CommandLoopProofs`; `NothingAssumption`: `Nothing` is no
  command).  `RunOnce` and `ResultsAccounted` need two facts more: what runs, what waits to
  be sent and what a late request carries was started (`Handed`), and no older result
  waits while a command runs (`Unsent`).  Most steps start nothing and lose nothing; one lemma
  (`Quiet`) covers them.
  From the same invariant, every step is one of `CommandService` or a stutter.  The
  command in hand is the one that runs or, when none does, the one whose result is
  unsent; pulses, registrations and both sides' restarts vanish, or show as an answer
  that arrived, is under way or was lost.
* **Engine** (`EngineSupervisorProofs`; assumptions about `NoServer` and about
  `MaxPeers`).  Proved: types, `NoLostServer`, `FailedStartLeavesNothing`,
  `ForeignAnswerWasLate`.  The invariant adds what a living server is tied to: the
  supervisor knows it or a thread holds it to kill (`LiveKnown`, `HeldToKill`); the
  known process runs only between commands and while its health is waited for
  (`ProcessEnded`); nothing runs under an agent that ended after its command
  (`EndedIdle`); once the port was found free, whoever else has it took it since
  (`ForeignIsLate`); and the number of launches follows from where the start is
  (`LaunchesCounted`).
* **Split diagnostic** (`SplitControllerProofs`; `RequiredAssumption`, `LinesAssumption`,
  `MeasurementAssumption`).  Proved: types,
  `PassProves`, `LeftIsReported`, `SampleNeedsProof`, `HeadBeforeWorker`.  The invariant
  says that what waits to be read is true (`Honest`: an answer has its request, a server
  announced as absent has ended), what each phase of a try has started and validated
  (`Phases`), what each step of the cleanup has settled (`Cleanups`), and that the
  reports on disk are of runs that truly passed (`Past`).  With one fact more, that nothing
  of a run is known between two (`Between`), every step is one of `DiagnosticRuns` or a
  stutter: that a report is written with nothing alive is `PassProves`, that a run begins
  with nothing shown needs that there is something to show (`MeasurementAssumption`).
* **Download** (`DownloadProofs`; `BoundAssumption`, `BodyAssumption`).  `NoLeftover`
  is inductive with the types.  `OkMeansDelivered` and `ErrorLeavesWhole` follow from
  `Alone`: a download that met no other is the only one under way, its handle is on the
  file named `.part`, that file holds as many copies of its source's piece as were
  received, and until the rename the model is the one that was there when it began.
* **Compatibility** (`CompatibilityProofs`; `RatiosAssumption`, `SpacingsAssumption`,
  `InputsAssumption`).  `OfferWithinOne`, `RejectionWithinOne`, `ReducedIsClose`, for all
  sizes, ratios, contexts and precisions.  Rounding to the nearest double is monotone, and off
  by half a spacing at most; a spacing is at most half of what a token costs
  (`SpacingsAssumption`, true of models below 2^50 bytes).  The core is what the
  ceiling and the estimate have to do with each other: no context but the next above the
  ceiling can fit, and one `RoundingLoss` below it does.

**How long things take.**  What the liveness properties rest on is proved as well, as a bound
on steps.  Each of these theorems gives a number that the steps of one actor lower, that no step of
anybody else raises, and that is bounded from the start; so that an actor that goes on reaches the
end, whatever the others do.

| Theorem | Whose steps, and the bound | At the core of |
|---|---|---|
| `SilentDroppedInTime` | the sweeper's: a node that keeps silent and is too old is dropped by the third | `SilentDropped` |
| `AcquisitionEnds` | an agent's, acquiring the lock: 6 | |
| `DuplicatesAreBounded` | two agents' that run together: 2 of each worker, then one agent leaves its loop; one of them can always go on | `DuplicateResolved` |
| `EndsAreBounded` | the main loop's after a stop request: 2; with `--once` and no search for a coordinator: 3, pulses apart | `StopEnds`, `OnceEnds` |
| `AgentsAreBounded` | an agent's without a working GPU worker: 10 for each restart it has left, and 12 | `DeadGpuReplaced`, `StopEnds` |
| `CommandsAreBounded` | the command thread's: 9 for each topology it may turn to, and 13 | `CommandEnds` |
| `DownloadsAreBounded` | a download's: `Size` + 5 for each attempt in its budget | `DownloadEnds` |
| `RunsAreBounded` | the controller's in a run: the phases that are left, and the lines that are still to be read or printed (`ToRead`); `MaxLines` + 15 | `RunEnds` |
| `HelpersAreBounded` | the helper's threads' without a controller: 8; one of them can always go on (`HelperCanMove`) | `RemoteEventuallyGone` |

`RunsAreBounded` needs that an answer follows a request (`Honest`), so that the lines of a
run are limited, and that a blocked read which is not stuck has a line to return
(`BlockedReads`); `HelpersAreBounded` that the commands on their way are one request and one
stop at most, in this order (`Commands`), and that the connection goes with the controller
(`Abandoned`).

Only model-checked: the liveness properties themselves.  From a bound to "in the end" it takes
fairness and ENABLED, for which the provers have no rule here.  `EventuallyReported` and
`EventuallyKnown` have no such bound: they need that some of infinitely many requests
arrive.  Every invariant and every action property of the passing runs is proved, and so are
the three refinements.

## 6. Not modelled

* The agent's parts in one specification: a restart of a worker delays heartbeats by
  seconds, and whether the coordinator then drops the node depends on both clocks.  Each
  part is modelled with the main loop's steps that it takes part in.
* `report()` of the engine, which reads three fields without a lock, and the contents of
  its diagnostics; a start that fails before its process exists decides by the diagnostic
  of an earlier launch (`diag`), but no property says that it should not.
* Of the split diagnostic, the command line of the server, the approval token and
  the sums and limits of the placement report (a set of measurements here).
* Reading a GGUF header (whether it is all there is `HasHeader`; whether it is accepted is
  open), and the suggestions a verdict comes with (text).
* `capacity.py`: a pure function of two totals and a catalogue, without state.
* `discovery.py`: a wrapper of an mDNS library.  Packaging, the tray window, device
  detection and configuration: calls into the operating system that share no state with
  the rest.

## 7. What could follow

1. The agent's loop as a whole: `CommandLoop` over `RpcWorkers`, with time.
2. The fit report of `capacity.py` against a direct definition.
