# Verification of kubernetes-traffic-flow-tests

TLA+ models of the traffic flow tests (`tft.py`) and of the tools around them,
TLC configurations that model-check them, and proofs checked by TLAPS. Paths
and line numbers refer to the repository (`src/`).

## The system

`tft.py` runs on one machine and acts on a Kubernetes cluster through `oc`/`kubectl`
commands. For every test of a YAML configuration, every test case, every
connection, every instance and both directions it puts a server pod, a client pod
and monitor pods on the cluster, lets the client send traffic to the server, and
collects the client's result and the monitors' results. Results are judged by a
file of thresholds, written to JSON files, and summed up in an exit code.
Two more programs work on those files: `evaluator.py` judges results again and
`generate_eval_config.py` makes thresholds out of results.

| Component | State it keeps | Operations | What makes it hard |
| --- | --- | --- | --- |
| `TaskOperation` (`task.py` 49-275) | `_state` NEW..STOPPED under a lock, a thread, its `_intermediate_result` | `start`, `access_thread`, `finish` (join, cancel, join again, collect), the thread itself | two threads; two joins with timeouts; callbacks that raise; an exception of the thread ends the whole process by `os._exit` |
| `Task`, `ServerTask`, `ClientTask`, `PluginTask` (`task.py` 278-1100) | two operations (setup, task), the result | `initialize`, `start_setup`, `start_task`, `finish_task`, `finish_setup`, `aggregate_output` | commands that fail or take forever |
| `TestSettings` (`testSettings.py`) | two events, the client-monitor barrier | `wait`, `set`, `initialize_clmo_barrier` | waits without a timeout |
| Test types (`testType*.py`), plugins (`plugin*.py`) | counters, parsed data | the actions of the threads of client, server and monitors | the order of readings and traffic; output that is missing, cut or of another shape |
| `TrafficFlowTests` (`trafficFlowTests.py`) | none of its own | `_run_test_case_instance` (seven loops over all tasks), `_run_test_case`, `test_run`, cleanup | runs over shared names on the cluster, with a crash possible anywhere |
| The cluster (external) | pods, services, policies by name, a label | create, apply, delete by label | survives the program; a pod left over is used again |
| `tft.py`, `print_results.py`, `TftResults` (`tftbase.py`) | result files | write, group by success, count, exit code | partial files, truth of the exit code |
| `evalConfig.py`, `evaluator.py` | the thresholds file | parse, serialize, look up, evaluate | re-evaluation of evaluated results |
| `generate_eval_config.py` | none | collect, drop outliers, mean and deviation, tighten, write | feedback of thresholds into what they are made of |
| `testConfig.py` | the configuration; the pair of KUBECONFIG files and two clients, made when first asked for, under a lock | parse, describe tests, cases, connections; file names; detect, check and hand out clients | names that must differ; three sources for a pair; files that change; several threads |
| Test cases (`tftbase.py` 703-904), templates (`manifests/`) | none | where server and client run, how the client reaches the server; manifests of pods, services, policies | files and pods shared by name, between sides, plugins and directions |
| `scripts/simple-tcp-server-client.py` | sockets, counts, deadlines | echo server and client loops | several processes, buffers, timeouts, ends at any byte |

Interactions: the main thread of `tft.py` drives the tasks one after the other; each
task's `TaskOperation` has a thread of its own; the threads of client and monitors
meet at the barrier; `event_server_alive` and `event_client_finished` tell the main
thread and the monitors how far server and client are. Instances interact only
through what they leave on the cluster; tests through the cluster and the file
names; the programs through the files.

What should be true of it, and is stated below: an operation runs its action once and
hands out one answer, never that of a thread still running; traffic starts when
everybody is ready, the server is stopped last, a result is built from all outputs;
no thread hangs; an instance uses only objects of its own; nothing is left behind that
nobody asked to stay; files are complete or absent; the exit code is true; an evaluation depends only on
what was measured and on the thresholds; generated thresholds can be read and
attained, and never silently forgive; the client's address is that of the one
server that was started for it, in pods made as their tasks rendered them; all threads use one pair of
clients, of one source; no byte of an echoed chunk is lost and nobody waits forever
for somebody who waits; what is called a success of
iperf3, netperf's tx or http was measured; a tool that gives up
has changed nothing. `PROJECT.json` lists the hazards line by line.

## The modules

| Module | Models | Correspondence |
| --- | --- | --- |
| `AsyncWork` | what `TaskOperation` promises (abstract) | work runs at most once in the background; one answer, a value only when the work is over |
| `TaskOperation` | `task.py` 49-275 | `caller` is the place in `start()`/`finish()`; a step is the code between two points where the other thread shows (a lock section, a join, a callback). `Init` ranges over the constructor arguments that `__init__` accepts |
| `TestInstance`, `MCTestInstance` | `_run_test_case_instance` with tasks, events, barrier, test types and plugins | `phase`, `cur` are the main thread's loop and loop variable; `thr[t]` is where task t's thread is; one action per step of server, client and each kind of monitor |
| `TestRun`, `MCTestRun` | `main`, `test_run`, `_run_test_cases`, `_run_test_case`, cleanup, files, exit code, over several invocations | `pc` is the place in `main()`; the loop variables are the code's; `cluster` is the set of labelled objects, each with the instance it was made for and whether a command that should have deleted it has failed (`kept`, history) |
| `TestCases` | the table of test cases (`tftbase.py` 703-904) | one record for each of the 24 cases |
| `TestPods`, `MCTestPods` | what an instance renders and asks of the cluster: `testSettings.py`, the tasks' constructors, `render_file`, `setup_pod`, services, policies, `get_target_ip` in `task.py`, the templates, the container's entry point | `files` and `pods` are the manifests by name; `services` and `policies` what they select, with ports and protocols; `conn.type` the type of test, which decides on the reverse direction and on the protocols that the client sends; `serving` which server processes run and who started them; `target` the pods that the client's address stands for |
| `Kubeconfigs`, `MCKubeconfigs` | `tft.py` 109-147 and `TestConfig` (`testConfig.py` 577-822) | `stage` is the place of the owner (`main()`), `at[p]` that of thread p in `kubeconfig`, `client()` or `mode`; `lock`, `pair`, `client` are the object's attributes |
| `SimpleTcp` | `scripts/simple-tcp-server-client.py` | `cpc[c]`, `spc` are the places in the loops of client and server; `up[c]`, `down[c]` the bytes under way |
| `ClientOutputs` | the second half of the clients' threads: `testTypeIperf.py`, `testTypeNetPerf.py`, `testTypeHttp.py`, `testTypeSimple.py` | from an answer of the command to a `FlowTestOutput`, and the log of a success |
| `MonitorOutputs` | the plugins' threads, as far as they read output | mpstat, the rounds of ipmitool, the representor and its counters, to a verdict |
| `Outputs` | a client's thread, a plugin's and the main thread together | composes the two; the event of the client, the end of the process by an exception, the aggregation |
| `EvalConfig` | `evalConfig.py` | a thresholds file as a function of keys, directions and fields; parsing, serializing, lookup |
| `Evaluator` | `evaluator.py`, verdicts in `tftbase.py`, `print_results.py` | pure operators |
| `GenerateEvalConfig` | `generate_eval_config.py` | pure operators: collect, outliers, threshold, tighten, result |
| `EvalCycle`, `MCEvalCycle` | the three programs working on the same files | steps `TftRun`, `Reevaluate`, `Generate` in any order |
| `EvalFiles`, `MCEvalFiles` | `main()` of the two tools, reading and writing | `pc` is the place in `main()`; `fs` says of each file whether it is there, whole, and what can be read of it |
| `TaskOperation_proofs`, `TestInstance_proofs`, `TestRun_proofs`, `TestPods_proofs`, `EvalCycle_proofs`, `SimpleTcp_proofs`, `Kubeconfigs_proofs`, `Outputs_proofs` | theorems and proofs | see Proofs |

How they compose: `TestInstance!Op(t)` instantiates `TaskOperation` for each task, and
`OperationsAsSpecified` states that every step of an instance is a step of
`TaskOperation` for every task; `TaskOperation!Promise` instantiates `AsyncWork`, and
`KeepsPromise` states that it is implemented. `TestRun` takes an instance as one step
that returns (well or badly) or raises, which is what `TestInstance` shows of it.
`TestPods` extends `TestCases` and looks at the objects of one instance, which `TestRun`
counts over many. `MonitorOutputs` extends `ClientOutputs` for the event that its loop
waits for, `Outputs` composes both: it refines what `TestInstance` takes for a choice
between success and failure. `EvalConfig`, `Evaluator`, `GenerateEvalConfig` and
`EvalCycle` extend one another; `EvalFiles` stands beside them and asks what happens to
the files, with a level in place of the thresholds (its `FilesInit`, `FilesNext` and so on
have names of their own because `EvalCycle_proofs` extends both).

A definition with the comment "variation" is a plausible bug: a faulty form of the
definition after it, used by nothing. Each property that a run checks is known to fail
under one of them (the list is in `PROJECT.json`).

### What is abstracted, and how

- Time: a timeout is a choice that is open while the thread is alive. The second cancel
  join and the two waits without a timeout are as in the code.
- Commands succeed or fail. The server's command may end at any time, or never.
  `cancel` and the execution of commands report failure and do not raise in
  `TestInstance` (the contract of the external `ktoolbox`); in `TaskOperation` the
  cancel action may raise.
- `ActionFaults` says whether a thread's action may raise unforeseen. Such an exception
  ends the process at once, in whatever state it is.
- In `TestInstance` the verdicts of clients and plugins are choices, rx and tx of
  `validate_offload` are one counter, of which only the difference of two readings
  matters, and `measure_power`'s rounds saturate at 1. `ClientOutputs` and
  `MonitorOutputs` have the verdicts, both directions and the sum.
- `ClientOutputs`, `MonitorOutputs`: an output is what the parsers can tell apart in it. A
  field is None when it is missing or no number, `NaN` when it is a float and no valid
  rate; a counter may be `Junk`, on which `int()` raises. That ktoolbox's strict dataclasses raise on a
  wrong type is taken from how the code uses them. `finish()`'s timeouts are left to
  `TestInstance`. `MaxSamples` bounds the readings of power.
- `_state.value` at `task.py:194` mixes tuples and integers in a branch that cannot be
  reached when `start()` is called once; it is not modelled.
- Cluster names in `TestRun`: a pod's name is its type, node, role and, for servers and
  clients, instance. The prefixes for host and secondary network are merged into the
  type; the tools pod's name is shared by the monitors that need it. In `TestPods` a name is
  the full tuple of its parts, as the code composes it; images, labels that nothing selects and the
  resources of SR-IOV pods are left out of manifests.
- A failing delete is logged and ignored by the code; in the model it deletes nothing, and
  the objects that it should have deleted are `kept`. `OwnNamespace` and `CleanAtEnd`
  exempt these objects and no other: a failure must not spare objects of another kind, of
  another command or of another namespace, and the services and policies that an instance
  asked for are its own although the deletion of the old ones failed.
- What the client of an iperf-udp test sends to the server's port is TCP (the control
  connection of iperf3) and UDP, that of all other types TCP. netperf's data connection,
  whose port the code does not choose, is left out, with respect to policies too.
- Files are truncated when opened and filled later. In `EvalFiles` a YAML file that was cut short
  can be read, with less in it, or not; a JSON file cannot. A kill, or a full disk, may
  come at any point; the tools run one after the other. Timestamps of result files differ between
  tests, because a test waits for pods and takes more than a second.
- Rates are whole numbers of some unit. Means and deviations are compared exactly;
  a generated threshold is rounded up to a whole rate, which changes no comparison with
  a whole rate. Rounding of floating point numbers is thereby left out: with three or
  more equal rates the code may compute a deviation slightly above 0 where the model has
  0 - not so for one rate.
- `SimpleTcp`: bytes are counted, not named: TCP keeps their order and the server returns
  what it reads, so that a chunk can come back altered only if somebody on the way alters
  it. Of a clock the script only asks whether a limit has passed. How the kernel answers
  for a process that has left (end of stream, reset, broken pipe) is external.
- `Kubeconfigs`: a file is missing, invalid or valid and known by the directory that its
  name is relative to. `K8sClient()` raises unless its file is valid. `systemCheck` tells
  `main()`, which checks before any task exists, from other users of the class, such as
  its tests, which do not.
- YAML and JSON syntax, messages, logging, command lines.

## Runs

| Run | Question | Instance and why it is enough |
| --- | --- | --- |
| `task_operation` | Does every kind of operation behave, and implement `AsyncWork`? | All 20 combinations of constructor arguments and timeout; the module has no parameter, so this is exhaustive |
| `instance_safety` | Order of setup, traffic and teardown, complete results, offload counting, nobody waiting in vain | Server, client and one monitor of each of the three kinds: each pair of kinds is there. `Volume`=`Threshold`=1: one packet too many before, between or after two readings. `ActionFaults` off: an exit only stops everybody, so it adds no violation of these invariants (the theorems hold for either value). 677 742 states |
| `instance_liveness` | Does every instance end, and every worker thread? Is each of its operations a `TaskOperation`? | Server (cancelled), client and the two monitors that wait for the client, one of them in a loop; `ActionFaults` on, so that a fault can hit in front of every wait. `Volume`=0, since the number of packets changes no wait. 85 330 states |
| `run_safety` | Objects, files, exit code over two invocations | Two tests in one namespace, three test cases, one of them with a reverse direction and a persistent server, tools pods in the second test: names are used again by direction, case, test and invocation; deletions fail, and death comes, at each step. Several connections and instances are left to the proofs, which hold for any configuration. 1 025 803 states |
| `eval_cycle` | Thresholds and results over any number of rounds | Two result files out of four kinds of tests: both rates, tx only, failed flow, failed plugin, eleven rates with one outlier (with fewer than eleven none is further than three deviations from the mean, unless it is all equal); base with both, one and no threshold; any number of rounds, since the state space is finite without a bound on them |
| `simple_tcp` | Do client and server of the echo get on, and end? | Two clients, for the backlog behind a client that is served; either one client has a duration or the server; chunks of up to three bytes over directions of one byte, the largest for which the two cannot block each other (`2 * SockBuf + 1`). 223 179 states |
| `kubeconfigs` | One pair, one client of each side, no failure after the check? | 40 combinations of what the sources give, each subset of six files, two threads and the owner, one change of any file at any point. 1 504 492 states |
| `test_pods` | Does the client's address lead to its server, in pods that are as rendered? | All 24 cases on 384 connections: one node or two, SR-IOV on either side, privileges unset or refused, persistence, second network, all plugins or none, iperf-tcp (with a reverse direction), iperf-udp or http. 278 848 states |
| `outputs` | What is a success worth? | Every type of client beside every plugin, and every shape of output; rates 0 and 5, two powers, counters below, at and above the threshold of 2, four time units of http, four readings. 1 679 192 states |
| `eval_files` | What is there after a failure or a kill? | Two files of thresholds and two logs, each missing, or whole at two levels; thresholds from one log or both, in place or to another file, with every combination of the options; results evaluated in place or not. Any number of invocations. 184 683 states |
| `power_kills`, `documented_end` | Statements of docs that the code does not keep | See Findings |

Bounds: `MaxRuns` (invocations), `MaxLogs` (result files), `MaxSamples` (readings of
power), `MaxChanges` (changes of files), `MaxLevel` (levels of thresholds) are the only
ones; `NTasks`, `Kind`, `Volume`, `Tests`, `Bufsize` etc. are parameters. The modules
that may stop have an explicit final stuttering step (`Over`) for it, so deadlock is
checked everywhere.

Type invariants, and other invariants, that are proved for every value of the constants
and that no run would look at for a reason of its own are left to the proofs: `TypeOK` of
`TaskOperation`, `TestInstance`, `TestRun`, `TestPods`, `SimpleTcp`, `Kubeconfigs` and
`Outputs`; `ResultIsThere`,
`GivenUpIsNotStopped`, `ResultsOnDisk`, `NeverBothBlocked`, `ModeKeepsItsWord`,
`SuccessIsMeasured`, `DatagramsStopped`.

Fairness: `TaskOperation` assumes that the caller's code runs on (its joins are timed, its
callbacks bounded) and that a thread whose action has returned dies; nothing about the
action. `TestInstance` assumes weak fairness of the main thread and of the threads of
client and monitors: their commands carry a duration (`iperf3 -t`, `mpstat`, a single
`ethtool` or `ipmitool` reading), so they end. The server's command is not assumed to
end. `SimpleTcp` assumes that each process takes a step when it can and that time
passes for who has a duration; nobody has to be interrupted or killed, no byte has to be
altered. The other modules assume no fairness: their properties are safety properties.

### Findings

- `power_kills`: `measure_power` divides by the number of readings
  (`pluginMeasurePower.py:101`); a client that ends before the first makes it zero, and
  the exception kills the process without results.
- `documented_end`, in two ways. With `--output-base` all tests write to the same file,
  since the number is that of the configuration (always 0) and not of the test
  (`testConfig.py:507`, 531-533; `tft.py:54-56` says otherwise): `NumberedFiles`. And every
  labelled pod is deleted after each instance, that of a persistent server too
  (`trafficFlowTests.py:40`, 147; `README.md:107` says that it persists after the test):
  `PersistentPodStays`. The run asks for an end that keeps at least one of the two
  statements; its counterexample is an end that keeps neither, so it refutes both.

Noticed while modelling; the models have the code's behaviour and no run states the
contrary:

- `validate_offload` reads its start counters while the client already sends
  (`pluginValidateOffload.py:207`): packets before that reading are in the baseline. What
  holds, `OffloadCountsToTheEnd`, is that all traffic after it is counted. A counter that
  is no number raises `ValueError` where `KeyError` is handled (lines 47, 61), which ends the process.
- In a same-node test case the client's node stands for the server's as a whole, with
  its `sriov`, `persistent` and `privileged_pod` (`testSettings.py:60`; `README.md:108`).
- For POD_TO_POD_MULTI_NETWORK_POLICY the two policies admit the server's port for TCP only
  (`manifests/allow-ingress-mnp.yaml.j2:17`, `allow-egress-mnp.yaml.j2:17`), whatever the type
  of test, while the services offer TCP and UDP. `eval-config.yaml:238-242` expects a rate of
  iperf-udp there all the same, which a cluster that enforces the policies does not let it
  have. `DatagramsStopped` says exactly what passes and is a theorem.
- A rate that is None passes any threshold (`tftbase.py:336-339`). netperf has no rx rate
  (`testTypeNetPerf.py:126-136`), and a plain `threshold:` sets one for rx too
  (`evalConfig.py:138-141`), which it passes unseen.
- With `secondary_network_nad` set, `get_pod_ip()` looks for an address on that network in
  pods whose template attaches none, and raises (`task.py:516`; `README.md:119`).
- A node's `privileged_pod` comes before `TFT_PRIVILEGED_POD` (`task.py:390`; `README.md:141`
  has it the other way round).
- A missing or invalid KUBECONFIG is reported as that of the configuration, or as
  autodetected, also when it is from the command line (`testConfig.py:805`).
- Equal measurements, a single one in particular, are all dropped as outliers: the
  comparison with three deviations is strict and the deviation is 0
  (`generate_eval_config.py:106`). New thresholds are written over the base in place, so
  that a kill leaves neither (line 326).
- `Bitrate`'s check is named `_post_init`, which nothing calls (`tftbase.py:313`); JSON of
  iperf3 that is no object raises in the thread and ends the process instead of
  becoming the prepared failure (`testTypeIperf.py:162`, 174).
- A client of the echo that never connected because nothing answered exits with 0
  (`simple-tcp-server-client.py:64`); a `BrokenPipeError` ends the server where a
  `ConnectionResetError` only ends a connection (line 160).

## Proofs

All theorems hold for every value of the constants under the named assumptions, which
describe legal configurations (`TasksAssumption`, `TrafficAssumption`, `TestsAssumption`,
`RunsAssumption`, `ConnsAssumption`, `NoneAssumption`, `EvalsAssumption`,
`HandwrittenAssumption`, `MeasurementsAssumption`, `QuorumsAssumption`, `JobsAssumption`,
`LevelAssumption`, `SimpleAssumption`, `GivensAssumption`, `KubeconfigsAssumption`,
`ClientOutputsAssumption`, `MonitorOutputsAssumption`). TLC evaluates each of them on the
instances of the runs.

Every invariant and every action property that a run checks is a theorem, and so are the
two refinements.

- `TaskOperation_proofs`: type correctness; `StoppedIsQuiet`, `ResultIsThere`,
  `GivenUpIsNotStopped`; and `KeepsPromise`, the refinement of `AsyncWork`. Inductive
  invariant: `ThreadInv` (a result is there exactly when the thread is stored or dead,
  and what places the caller may be in when there is or is not a thread), `StateInv`
  (`_state` as a function of the caller's place) and `OutputInv`. `StoppedIsQuiet` alone
  is not inductive: that the thread is dead at `stopping` is what `StateInv` and
  `ThreadInv` carry over from the join.
- `TestInstance_proofs`, for any number and kind of monitors: type correctness,
  `TrafficNeedsEverybody`, `ServerOutlivesWorkers`, `ResultIsComplete`. The invariant says
  where every task's operation is in each of the main thread's loops (`PhaseInv`), how
  operation, thread and result go together (`ThreadInv`), that nobody is beyond the
  barrier before all have arrived (`BarrierInv`, from the number of parties being the
  number of workers), that nobody starts before the server is alive (`AliveInv`), and
  what the builder has collected up to the loop variable (`BuilderInv`). On top of it,
  `OffloadCountsToTheEnd` with `OffloadInv`: the event is set exactly when the client
  sends no more, a monitor with a representor is past its wait only then, and what it has
  read by then is what it judges. And `OperationsAsSpecified`, the refinement: lemma by
  lemma, each step of the main thread or of a task's thread maps to one action of
  `TaskOperation` for that task (or to none: the places inside an action are all
  `running`) and to none for the others; `StartingInv` adds that an operation is
  `STARTING` until its callback has returned. Last, `NobodyWaitsInVain`, which is what
  `InstanceEnds` and `NoWorkerStranded` rest on beside fairness: the event, the other event
  and the barrier are waits without a timeout, and for each of them the one that is waited
  for is at work or about to be started. It follows from the invariants above and
  `RaisedInv`: an exception takes the main thread out either before it has started any
  client or monitor or after it has started all of them, so that the barrier of those it
  leaves behind still opens.
- `TestRun_proofs`, for any configuration and number of invocations: type correctness,
  `OwnNamespace`, `CleanAtEnd`, `ResultsOnDisk`, `FilesComplete`, `ExitCodeTruthful`.
  `ClusterInv` says, of objects that are not `kept`, which kinds are already deleted
  while a cleanup is under way (`Deleted`), that in setup and traffic there are only
  objects of the current instance (`Owned`), and which namespaces are empty (`Emptied`);
  and that the services and policies asked for so far are there as its own, whatever failed
  before (`Applied`). `FileInv` says which files are complete, and with what. `LegsDone` says that the legs with a
  result are exactly those before the loop variables, in the order of the loops, and that
  each has one (the cardinality grows by `FS_AddElement`); `TestsDone` says the same of the
  tests that are behind.
- `TestPods_proofs`, for any set of connections - nodes, plugins, ports, secondary
  networks - and all 24 test cases: type correctness, `FindsItsServer`, `OneServerRuns`,
  `OwnManifests`; and `DatagramsStopped`, on what services and policies let through. The invariant: a manifest, and a pod, is as a task of that name renders
  it (`FilesInv`, `PodsInv`), which says something because tasks of one name render the same
  (`OneManifestPerName`, the lemma that the plugins' shared tools pods rest on);
  services select the server's pod (`ServicesInv`) and the policies are there where the
  test case has them (`PoliciesInv`); the server process is run by its
  container or its thread, whichever the kind of server says, from a certain task on
  (`ServingInv`); and the client's address, once there is one, stands for that pod and no
  other (`TargetInv`).
- `EvalCycle_proofs`, for all measurements, files of thresholds, quorums and any number of
  result files. First the files: `GeneratedLoads`, and `ThresholdsStay` by the lemma that
  parsing what was serialized gives it back; `EvaluationForgets` with `LogsInv`, the shape
  of the result files. Then the numbers. Sums are the community modules' folds, a
  recursive function over subsets; that the function exists (`SumExists`) and that sums
  are within count times least and greatest summand (`SumBounds`) is shown by a smallest
  set for which it would not hold, which well-foundedness of inclusion gives, so no
  induction theorem is needed. With them `NewThresholdBounds`: the least rate
  that reaches mean minus deviation exists, is at most the greatest rate and at least four
  fifths of the least one. From that follow `TypeOK` (a new threshold is a rate or none),
  `Attainable`, `TighteningNeverForgives`, and `AFifthAtMost`, which needs
  `EvaluationForgets` too: that a result passed by the base is known only because its
  verdict is that of its last evaluation (`PassedReached`). `VerdictsAgree` is counting
  against grouping, over finite sets. Last `EvalFiles`, for any files and jobs:
  `FilesTypeOK`, whose point is that what is loaded was readable and that the evaluator
  has loaded a log when it writes, and `FailureChangesNothing`, together inductive as
  `FilesInv`.
- `SimpleTcp_proofs`, for any number of clients and all sizes: type correctness,
  `EveryByteAccounted`, `NeverBothBlocked`, `HungUpOnlyAtTheEnd`. The invariant: the
  connections that the server has (`ServerOK`), how far a client's chunk has got at each of
  its places (`ChunkOK`), the balance of bytes (`BytesOK`), and who may have closed a
  connection (`HangUpOK`). That client and server never block each other is arithmetic
  on the balance.
- `Kubeconfigs_proofs`, for any number of threads and changes of the files: type
  correctness, `PairFromOneSource`, `OneClientPerSide`, `ModeKeepsItsWord`,
  `CheckedNeverRaises`. Inductive: `Locking` (who is inside holds the lock), `Staged` and
  `PassedOK` (what the stages of the owner have settled), `PairOK` and `ClientOK` (pair
  and clients, once set, stay and belong together), `CheckOK` (what the check has seen to),
  `CallerOK` (where callers are).
- `Outputs_proofs`, for all rates, durations, thresholds and rounds: type correctness,
  `SuccessCanBeLogged`, `SuccessIsMeasured`, `NoFailureHidden`, `AverageOfReadings`,
  `SomethingCompared`. `ClientOK` ties output and history to the last answer, `MonitorOK`
  gives each plugin its steps, `PowerOK` keeps the sum between the lowest and the highest
  reading times their number. `SuccessIsMeasured` is about both rates of iperf3 and the tx
  rate of netperf, not about netperf's rx.

Model-checked only: liveness, that is `CallerReturns`, `InstanceEnds`, `NoWorkerStranded`,
`TimedRunsEnd`, `ServerEndsAfterItsClients` and `ChunkAnswered`. They rest on fairness and so
on ENABLED, which is out of the prover's reach. What is proved beneath them is that no two
wait for each other: `NobodyWaitsInVain` and, for the echo, `NeverBothBlocked`. The
violated statements (Findings) are not theorems either, of course.

## Not modelled

- `testConfig.py`: parsing and validation of the YAML file and the ranges of numbers in
  it; the descriptors are the loops of `TestRun`.
- Printing and parsing of result files beyond whether they can be read; logging.
- `simple-tcp-server-client.py --exec`, which replaces the script by another one.
- The command lines of the tools, the detection of the SR-IOV resource, `get_podman_ip`'s
  retry loop (it ends in a value or an exception).
- The image's packages; `ktoolbox`, of which only what its callers see is in the models.
- Interpreter shutdown after an exception of the main thread: threads are not daemons, so
  it waits for a server that nobody stopped.

## Order of the work

All of it is done. The most important behaviour came first: `TaskOperation` with
`AsyncWork`; `TestInstance`; `TestRun`; the evaluation cycle; then `SimpleTcp`,
`Kubeconfigs`, `TestCases` and `TestPods`, `ClientOutputs`, `MonitorOutputs` and `Outputs`,
`EvalFiles`; the proofs after the models they are about. What would come next: models of
what is listed above as not modelled.
