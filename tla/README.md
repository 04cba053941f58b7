# wlm-operator: a verification development

TLA+ models of the wlm-operator, which runs Slurm jobs from Kubernetes, with
TLC runs that check them on small instances and TLAPS proofs of what holds for
every instance. Every definition is translated from the source; `PROJECT.json`
maps each of them to its lines, lists the runs, the mutants that show that each
property can fail, the findings, the hazards and the theorems.

## The system

Four programs work together. The *operator* turns job objects into pods. The
*configurator* keeps one *virtual kubelet* (external) per Slurm partition, whose
virtual node attracts those pods by its labels. The virtual kubelet hands a pod
to *red-box*, a gRPC server beside Slurm. *results* moves files before and after
a job. They share no memory: they meet in the Kubernetes API server, in Slurm,
and in red-box's gRPC streams.

| Component | State | Operations | Interacts by | What is hard | Correct when | Module |
|---|---|---|---|---|---|---|
| SlurmJob and WlmJob controllers (`pkg/operator/controller`, `cmd/operator`) | the status of job objects; caches, work queue, back-offs of controller-runtime | `Reconcile`: translate job, look up pod, create pod or write status | watches, API server calls | stale caches, events and calls in any order, crash with calls on the wire, retry for ever | a job is never forgotten, its status follows its pod and never goes back, one pod per job, jobs do not harm one another | `JobReconciler`, `JobLifecycle`, `JobRefinement` |
| red-box `TailFile` (`internal/red-box/api`, `pkg/tail`, `hpcloud/tail`) | buffer between tail and handler, closed flag, watcher and its channel | start, follow, close, cancel | gRPC stream, inotify, a mutex and unbuffered channels | five goroutines and a kernel queue, events dropped or taken by others, ends that race | the client gets the file in order, without gaps, to the end, and EOF exactly when it asked | `TailStream` |
| configurator (`cmd/configurator`) | none but the pass it is in | a pass: list, compare, create, delete | red-box, API server | answers stale against one another, calls that fail in mid-list, other configurators | every partition, and nothing else, has its virtual node | `Configurator` |
| batch resources, limits, affinity (`slurmjob/parse.go`, `affinity.go`, `slurm/parse.go`, `Slurm.Resources`) | what was read of the script so far | directives to resources, resources to affinity, `scontrol` to limits | labels of the virtual node, scheduler | units, missing values, several spellings, strict comparison | a job goes exactly where there is enough for it | `PartitionFit` |
| red-box calls about jobs (`SubmitJob`, `SubmitJobContainer`, `CancelJob`, `JobInfo`, `JobSteps`) | none: Slurm's | one Slurm command each, and the parsing of what it prints | gRPC calls, `sbatch`, `scancel`, `scontrol`, `sacct` | answers that get lost or come late, retries, names and limits that break the parsing | what a client is told of a job is true, and a job runs once unless a submission failed | `JobCalls`; the script of a container in `PartitionFit` |
| transfers (`OpenFile`, `CreateFile`, `Zip`, `Unzip`, `cmd/results`) | files on both sides | zip, stream, unzip, in both directions | gRPC streams, two file systems | broken streams, what failed attempts leave, two transfers to one path, fatal exits | a transfer that reports success delivered the tree | `Transfer` |
| red-box process (`cmd/red-box`) | socket, open calls | start, graceful stop | signals, gRPC, systemd | a signal before the server serves, calls whose clients are gone, a socket that stays | it serves again and again | `RedBoxProcess`, composed in `Transfer` |
| generated clients, informers, listers, deep copies (`pkg/operator/client`, `pkg/operator/apis`) | informers of a factory, which of them run, their caches | ask for an informer, `Start`, `WaitForCacheSync`, lister, typed client, `DeepCopy` | shared memory, the API server's lists and watches | informers asked for late, writes between list and watch, pointers into a cache that all share | who waited finds the cache filled, the cache catches up, nobody but the informer changes it | `SharedCache` |
| `WorkloadInfo`, protobuf messages, OpenAPI schema, fake clients, deployment, examples, other vendored code | - | - | - | no state of their own | - | not modelled |

`PROJECT.json` lists the hazards of this code at their lines and the properties
that cover them; the ones no property covers yet say why.

## Modules and code

### JobReconciler

The two controllers, the API server objects they act on, their caches and their
work queues. One reconcile is four steps - `GetRequest`, `GetJob*`, `GetPod*`,
then `CreatePod`, `UpdateStatus`, `CallRejected` or `CallFails` - because the
cluster may move between any two of them. `Translate` is done in the `GetJob`
step, where the code calls `newPodForSJ`; it depends on the specification of
the job only, which is one of four classes (`Specs`). A user may submit, edit
and delete a job at any time; the controllers never compare an edited job with
the pod that exists. Requests to the API server
are atomic there. A call whose connection broke or whose caller died goes to
`late`, from where it takes effect at any later time or never.

- Watches: each object has a stream of its states (`jobEvents`, `podEvents`),
  delivered in order, to the cache first and then to the queue (`waiting`:
  notified, backing off, or between the informer and the queue). Streams of
  different objects are not ordered. The owner of a pod is found by kind and
  name, as `EnqueueRequestForOwner` does, and both the old and the new owner of
  an updated pod are notified. When a pod is deleted and created again both
  are.
- Queue: `dirty`, `queue` and the key of the worker are the three sets of
  `workqueue.Type`. An error puts the key to `waiting` (rate limiter); how long
  the back-off lasts is not modelled, and cannot be told from slowness.
- Process: `Crash` and a panic lose everything but the API server's objects
  and the calls on the wire; `Restart` lists all objects before the workers
  start, as `Controller.Start` waits for the caches.
- Versions: `ver` is the resource version of a job. An update is accepted only
  with the version that was read, and one that changes nothing makes neither a
  version nor an event.
- Virtual kubelet: `RunPod` moves the phase of a pod forward only. Pods and
  jobs are deleted at once, without a terminating phase.

Left out: labels and the node selector of the pod, events recorded for users,
and the `results` volume.

`JobLifecycle` is what the operator promises of a job, without caches, queues,
calls or crashes: submitted, a pod started once, the pod's phases reported in
order, deleted, collected. `JobRefinement` maps the state of the operator to it.

Things the code does that no run asks about: a job that is submitted again under
its old name, before the pod of its predecessor is collected, adopts that pod
(`slurmjob_controller.go:123` looks it up by name and never compares the owner) and
reports its status as its own, although `slurmjob_types.go:51` calls that "the
observed state of a SlurmJob"; a SlurmJob without resource
directives is refused for ever, because `newPodForSJ` compares the error with a
variable of its own (`slurmjob/pod.go:31`), which `NewPodForSJ` has; a SlurmJob
`x-wlm` and a WlmJob `x` are translated to one pod name, an instance with equal
values of `PodOf`; and a pod that is deleted before its first phase is reported
is created again, since the empty status is the only memory of it
(`GetPodMissing`).

### TailStream

One call of `TailFile` is four goroutines and a watcher: the handler (`select`
among cancellation, request and tick; `Read`; `Send`), the receiver of requests,
`readTail`, and the tail of hpcloud/tail, which opens the file or waits for it
(`Open`, `StillAbsent`, `FoundAfterAll`, `Appears`), reads lines, puts a half line
back at the end of the file, and waits. The watcher wakes a tail that waits
(`TakeEvent`) and drops the event when the tail does not. All streams are of one
file and so share one channel of events: a stream that leaves it closes it for the
others (`LeaveChannel`), whose watchers stop (`StopWatcher`), and a stream that
still waits for the file fails (`Orphaned`, `inotify.go:46-49`). Which of them are
told depends on whether they had fetched the channel, and how often an event is
delivered on how often the tracker watches the file: both are any of the outcomes
the code can produce (`deaf`, `Notify`). `Read` is two steps, since the code
looks at `isClosed` after it gave up the lock. A line is two units, so that a
file may end in half a line and a chunk in the middle of one. `isClosed` is read
without synchronisation: the model has it take effect at once. A build that shows
the new value late only delays EOF, since the value is set after the last write
to the buffer.

A tail fails (`TailFails`) when the file cannot be opened, read or watched, when
`Seek` fails or when `Tell` does (`tail.go:262,302,320`), and `StatFails` when it
cannot be told whether the file is there. Which of these it was makes no difference:
the tail is done, and `failed` remembers it for the properties.

What the code does not do, and the model shows: a write whose event is taken
while the tail is awake is not followed until the next one (`TakeEvent`), so only
`EarlyLinesArrive` holds, which depends on no event, and not the same of every
line; the last line read before a close is lost when it comes between the unlock
and the look at `isClosed`, so `AtMostLastLineLost` cannot be "nothing is lost"; the
first of two streams that stops closes the channel of both, and the other sleeps
for ever or fails; a tail that fails ends the stream with the same EOF
(`LinesClosed`), which is why `EofOnlyAfterClose` and `AtMostLastLineLost` are
stated for tails that did not fail; and a cancelled call leaves its tail, watcher
and `readTail` running (`ContextDone`).

Left out: truncation, renaming and deletion of the file, rate limiting (not
configured), and lines longer than a limit (not configured).

### Configurator

A pass is `FindPartitions`, `FindNodes`, creates one by one, `Created`, deletes
one by one, `Deleted`; each of its calls may fail (`*Fails`), a create or a
delete with or without its effect. The pods, the virtual nodes and the partitions
change in between. A deleted pod keeps its name until it stopped (`PodStops`), and
its node goes later (`NodeGoes`). `NameOf` is `partitionNodeName`, given as a
constant so that an instance can have names that clash. An answer without
partitions is parsed as one partition with an empty name, for which no pod can be
created. Nor can one for a partition whose name Kubernetes refuses, as one with a
`_` (`Refused`): that create fails in every pass and drops the partitions listed
after it (`cmd/configurator/main.go:146-156`), which is why
`EveryPartitionIsRepresented` leaves them out (`IsHeldUp`). A pass keeps the
partitions it was told of in `found` until it ends, for the properties. `PartitionsOf` gives the partitions each cluster may have. The instances
give no two clusters a partition of one name and no two partitions of a cluster
names that differ in case only: the code represents one of the two, and in the
second case the create that fails in every pass drops the partitions after it.

A pass looks at the virtual nodes of all clusters, and those of another cluster
whose partitions are not its own are on its list of nodes to delete. Their pods
have names of another host, so the delete fails with NotFound in every pass and
drops the names after it (`cmd/configurator/main.go:164`): where the node of
another cluster is listed first, a configurator never deletes its own stale pods,
though lines 136-137 say they are. This is why `StalePodsOfFirstGo` is stated for
the cluster that is listed first.

### PartitionFit

The way of a job to its partition, one step per parameter of its `#SBATCH`
lines: `ReadParam` (with the code's rule about which parameter takes the next
token), `RefuseParam`, `Panic`, then red-box's view of the partition
(`ParseResources`, `Resources`), the labels, and the affinity (`Bound`,
`IsMatch`). A line is empty or `#!`, a directive, another comment, or a command. A
token of a directive is `--name=value`, `-Nvalue`, a word `--name`, a word that is a
value, or the `#` of a comment behind the options; a name is an option the operator
reads, another one (`"other"`) or a flag. Values are numbers, "d-h:m:s" fields,
memory with a suffix, nothing (which stands for `UNLIMITED` too, as the parser has
it), other spellings of no limit (`INFINITE`, `-1`), or text; times are seconds. Of
the suffixes the model has `M` and `G`: the parser refuses all of them alike.

The second part of the module is the reference: where Slurm finds directives
(`Heading`, which passes over comments and ends at the first command), what is an
argument and what its value (`GivesOne`), what Slurm takes for a value of each
option (`IsMeant`), what the options ask for (`Asked`; a time of 0, `UNLIMITED` and
`INFINITE` all ask for no limit) and what the partition has (`Has`). It uses nothing
of the parser. `InputsAssumption` says what scripts, partitions and configurations
consist of; a script may have any number of lines and tokens. The limits of a
partition are taken not to be above what its nodes have (`LimitsAreWithin`), and
its nodes to be alike.

The scripts are those of users and those red-box writes for a container
(`ContainerScript`): the options that are not zero, then the commands, each of
which but the last one ends the script when it fails. They go through the same
parser, though the operator never reads them, because `Asked` says what Slurm
makes of them.

The code departs from the reference in six cases. The properties name each of them
and hold in all others:

| Case | Named by | What the code does |
|---|---|---|
| a comment between directives | `IsCutShort` in `IsMisread` | the parser stops at the comment (`slurmjob/parse.go:46-48`), and what is asked for behind it is not read |
| a flag, a value in the word of its name (`-N2`), a comment behind options | `~IsOfPairs` in `IsMisread` | each token is taken for a name, and the next one for its value; the last one indexes out of range (`parse.go:60`) |
| a memory with a suffix, a limit spelt `INFINITE` or `-1` | `HasMarks` | the script is refused |
| a job that asks for no time limit | `AsksForNoTimeLimit` | it is read as no request at all (`slurmjob/parse.go:88-93`), so the job is scheduled on any partition |
| a partition whose time or memory is not limited | `IsTimeUnlimited`, `IsMemUnlimited` | `UNLIMITED` time is -1 nanosecond (`slurm/parse.go:134`) and becomes a label 0, memory a label -1 (`slurm/parse.go:160`): no job that asks for any goes there |
| a partition whose CPUs per node are not limited | `AreCPUsUnlimited` | the CPUs of the partition are taken for those of a node (`slurm/parse.go:148`) |

Two of them contradict the repository itself. `examples/fox.yaml`, which the README
sends its reader to, has a comment behind its options in line 9, and the operator
panics on it: the script is one of the instance, and what happens to an operator
that panics is asked in `JobPoisoned`. And a job with `--time=UNLIMITED`
appears on a partition with a time limit, although `README.md:14-16` says the labels
keep a job on "a suitable partition with enough resources"; a partition without
limits, on the other hand, takes no job that asks for time.

Two premises of the theorems are left, which the instances fulfil
(`InstancesAreOrdinary`): each option is given once (`GivesOptionsOnce`), as one that
is given twice is multiplied or overwritten where Slurm takes the last; and CPUs and
tasks are counted from one (`CountsArePositive`), as a count of none is taken back
by a later option. Left out are `--ntasks`, which the parser skips like any other
parameter and which asks for CPUs of the whole job, not of a node; and durations of
more than 292 years, which wrap around in the code and do not in the model.

### Transfer and RedBoxProcess

`RedBoxProcess` is the life of the process: `Listen` (`net.Listen` before anything
else), `Serve`, `GracefulStop` in a goroutine of its own, which may run before
`Serve` does, `Exit`, and `Die`. `Transfer` extends it with the runs of the results
program that use it. A program does three tasks in turn - zip, stream, unzip -
and its direction decides which of them are calls of red-box (`AtBox`). Archives
are sequences of chunks, written by offset (`WriteAt`), so that two writers of one
path mix theirs and a truncation leaves a hole; a reader finds the entries by the
directory at the end and checks each one. Faults are a program that is killed or
loses its connection (`ProgramFails`, after which red-box goes on with the call), a
write that fails in the program (`WriteFails`) or in red-box, which exits
(`BoxDies`, `api/slurm.go:256-260`), a zip or unzip that fails, a signal, and a
`Close` that fails, as it does where a file system writes back late. Every such
`Close` is deferred and its error lost: that of the archive that was written
(`ZipNotClosed`: it has no directory, or a hole), that of the archive red-box
received (`ReceivedNotClosed`: a hole), and that of each file that is unzipped
(`UnzipNotClosed`, `cmd/results/main.go:275`, `pkg/slurm/slurm.go:478`: the file is
`Cut`).

What the model shows of the code: a file that is cut as it is closed is reported as
delivered, though `cmd/results/main.go:277` says its content is unzipped and copied
(without the second disjunct of `IsDelivered` TLC finds it with one program, one
file and one fault), so `SuccessMeansDelivered` excepts a file that was cut by a
fault the program met itself, and no other: what earlier attempts cut is written
again, and a hole in an archive is found by the checksum of its entry. Two transfers
of one path at a time may end well for one of them although the tree is not there - a `Zip` that fails closes its
archive nevertheless, with the directory of what it had, and the other program
sends that archive, unzips it and logs "Collecting results ended"
(`cmd/results/main.go:165`) - so `SuccessMeansDelivered` and `EofMeansWhole` are
stated for programs that met no other (`crowded`), and for those a call left behind
by a dead program counts. And a red-box that is killed leaves its socket, which
nobody unlinks (`cmd/red-box/main.go:52`): every later start fails with "address
already in use", though `vagrant/install-wlm-operator.sh:18,22-23` restarts it
always. `ServesAgain` makes that exception, and `SocketRemoved` is the
administrator.

Left out: directories and modes of files but for read-only ones, the tree changing
under a zip, names that leave the target directory.

### JobCalls

A client, a virtual kubelet with one job, calls red-box; each call is sent, served
and received, and answers may get lost (`Lose`). The client submits until it knows
an id, then asks and cancels in any order, one call of a kind at a time. What
Slurm's binaries print is modelled word by word (`Scontrol`, `Sacct`), since the
code tells fields by the number of `=` and lines by the number of `|`; states,
dates and limits are the texts Slurm has for them. Slurm is external, and what it
prints is modelled from the output the repository's tests hold: `scontrol` has one
record for all tasks that wait and one for each that started
(`slurm_test.go:80-133`, `RecordOf`), a record that waits may have a start time
(`PrintRecord`), and `sacct` has lines of steps beside those of tasks
(`parse_test.go:146-149`, `PrintStep`), in any order the constant `Listings` admits.
Beside its lines `sacct` may print an error (`parse_test.go:202-207`), or a date or
exit code that is none (`parse.go:233-240`): `Spoilt` is such a text, and makes all
steps of the answer unreadable. The jobs are of four kinds: a
name with a blank; a container whose name has a `=` and whose limit is `UNLIMITED`; a
name with `|` and a limit of the partition; and an array of two. They have one name
and one limit of each form the code treats differently. `failures` counts the
answers that got lost, of whatever call, and those that cannot be read.

What the model shows of the code:

- `client_id` is not used (`api/slurm.go:81`), so every submission whose answer is
  lost is queued again by a retry; so is one for which `sbatch` prints a warning
  beside the id (`slurm.go:143,151`), which fails although the job is queued.
- A job whose limit is printed as `Partition_Limit` makes `JobInfo` fail as long as
  it exists, though `api/slurm.go:115-116` says "Safe to call before job finished".
- A `|` in the name of a job makes its steps unreadable.
- `OUT_OF_MEMORY`, `NODE_FAIL` and `RUNNING` have no status and are `UNKNOWN`, and so
  is a cancelled step, which `sacct` prints as "CANCELLED by uid": a client never
  learns these ends. `EndIsLearned` is stated for the others.
- The check for an empty answer (`api/slurm.go:128`) can never fire, since
  `strings.Split` always returns something.

`Version`, which is not modelled, returns an empty version and no error for output
of another form, since it wraps a nil error (`slurm.go:300`).

### SharedCache

The informer factory with its maps, one informer for each kind, and goroutines
that ask for an informer, start, wait, read through a lister or a typed client,
copy, edit and write back. A job in memory is its version and a cell per part that
is reached by a reference; the cells of a cached job are named by the list and the
version it came with, so that a new event brings new cells, and `edited` is the
set of cells somebody wrote to. `CopiedSlurmJobSpec` and `CopiedWlmJobSpec` are the
parts `DeepCopyInto` allocates. The reflector of client-go is external: a list,
a watch from the version of that list, events, and a break after which it lists
again.

`DeepCopyInto` of `SlurmJobSpec` has no code for `Prepare`
(`zz_generated.deepcopy.go:124-140`), so a copy of a SlurmJob shares its `Prepare`
with the cache, although controller-runtime says of its reader "deep copy to avoid
mutating cache" (`cache_reader.go:72`): `CacheIsServedButPrepare` holds of every
other part, and the exception is real. The operator itself writes only the status
of a job, so nothing of it is harmed today.

Left out: resyncs, indexers and selectors, `DeleteCollection` (deletions in turn),
and the discovery client.

## Runs

Passing runs (`MC*.tla` with the `.cfg` of the same name as the run):

| Run | Question | Shows |
|---|---|---|
| `JobRefinement` | one WlmJob, one crash, one broken call, every interleaving, against the promised life of a job | `QueueIntegrity`, `NeverForgotten`, `StatusBehindPod`, `StatusNeverRegresses`, `ImplementsLifecycle`, `StatusConverges` |
| `JobReconcilerReuse` | a SlurmJob submitted twice under one name, edited, its pod deleted, its script possibly one that makes the operator panic | `NeverForgotten` |
| `JobReconcilerTwoJobs` | a job that is refused for ever beside one that is not, one worker | `EveryTranslatedJobIsReported` |
| `TailStream` | one stream, a file that is awaited, appears and grows, cancel, half lines, tails that fail anywhere | `StreamIsPrefix`, `EofOnlyAfterClose`, `AtMostLastLineLost`, `EarlyLinesArrive` |
| `TailTwoStreams` | two streams that wait for a file and share the channel of events, which the first one to leave closes | `CloseEndsStream` |
| `ConfiguratorClusters` | two clusters, a partition whose name is refused, changes, evictions, a failing call, a crash | `EveryPartitionIsRepresented`, `StalePodsOfFirstGo`, `KubeletsAreLeftAlone` |
| `PartitionFitLimited` | pairs of options in all forms and orders, with flags, comments, suffixes and no limit among them, scripts of containers, limits given and missing | `OnlyOnSuitablePartition`, `NotKeptFromSuitablePartition`, `WellFormedScriptIsRead`, `ContainerScriptDoesAsRequested` |
| `Transfer` | two runs of the results program, in turn or at a time, in either direction, two faults, among them a lost error of each `Close`, a stop and deaths of red-box | `SuccessMeansDelivered`, `UntroubledAttemptSucceeds`, `EofMeansWhole`, `TransferEnds`, `ServesAgain` |
| `JobCalls` | a client with a job of each kind, lists of tasks and steps, overlapping calls, lost and unreadable answers | `AnswersAreRight`, `ReportedEndIsReal`, `DuplicatesOnlyAfterFailures`, `EndIsLearned` |
| `SharedCache` | two goroutines, both kinds of job, writers, a watch that breaks | `WaitedIsFilled`, `CacheIsServedButPrepare`, `CacheCatchesUp`, `UsersGetReady` |

Every component's type invariant is in its first run.

Runs that end in a violation, each of what the repository says of itself (quoted
under "findings"):

| Run | The code |
|---|---|
| `JobPoisoned` | dies of a directive whose last parameter has no value, as of line 9 of `examples/fox.yaml`, at every start again |
| `TailNotToTheEnd` | may stop before the end it was asked to read to (`ReadToTheEnd`) |

### Bounds

- One or two jobs: jobs meet only in the queue of their controller, in a shared
  pod name and in a crash, and two are enough for each of these. One crash and
  one broken call: both put a call on the wire that can meet those of the
  successor, which is what matters of them; the safety properties
  are proved for any number. `MaxLag` limits only how far the
  garbage collector runs ahead of the watch.
- Two submissions of a name, since it is confused with its predecessor only.
- Two lines (four units) and chunks of three units at most: a chunk then ends
  inside a line, the file ends inside a line, and a line is left over after a
  request to close. Five events are more than there are steps of the file, so that
  none is merged for want of room. Two requests show that only the first is
  received. Two streams show everything a shared channel does to another stream; the
  file has one line there, since only the end of a stream is asked about, and a tail
  fails there only because the other stream closed the channel (`MayFail` is FALSE):
  every other failure is in `TailStream`.
- Two partitions in one cluster and one in the other: the shortest lists whose
  first failure drops something, and of which one has only the names of the other
  cluster; and in the other a partition whose name is refused. Changes and failures, which crashes share their bound with, are bounded
  so that convergence can be asked for; what is proved is proved for any number.
- Two runs of the results program over a tree of two files: an attempt meets what
  one other left or does, and the second file is behind the first one's chunk.
  Two faults are one for each, or a stop and a death. A chunk on the wire at a time
  (`MaxWire`) lets a sender be cut off between any two chunks.
- Two submissions that Slurm accepts and one failure: a duplicate needs no more. An
  array of two tasks is the shortest of which one may wait while another runs; its
  lists come in either order, with and without steps.
- Two goroutines, one name of each kind, two writes and one break: the second
  write falls between the list and the watch the first one came with.
- Scripts of two options: parameters meet only in the product of the two options
  for CPUs and in the token one takes from the next. A comment line, a command or
  what is no pair stands before, between or behind the options.

The theorems have no such bounds: where a property is proved, its run shows on a
small instance what holds for any numbers.

`CHECK_DEADLOCK FALSE` stands in runs whose instance really stops: all jobs are
deleted and no name may be submitted again, a file has its last line and its
streams have ended, all partitions are in place and the budget of changes is
used up, the programs have ended, or the goroutines and the writes of the cache are
done.

### Fairness

- `JobReconciler`: goroutines of the operator, watches, back-offs, the restart
  of the container (`deploy/operator.yaml` runs it as a Deployment), the garbage
  collector and the virtual kubelet are weakly fair. Users, resyncs, crashes and
  broken calls are not. Only weak fairness is used: a worker that is enabled
  stays enabled until it moves.
- `TailStream`: goroutines are weakly fair. Taking a request and noticing a
  cancelled context are strongly fair, because Go's `select` picks at random
  among the ready cases, each time anew. There is one weak fairness for "some
  watcher takes the event", none for a particular watcher: which one of several
  receivers of a channel gets a value is not promised. The writer, the client's
  requests and failures are not fair. A client takes what it is sent.
- `Configurator`: passes, virtual kubelets, the end of deleted pods and the
  removal of their nodes are weakly fair; changes and failures are not, and
  are finitely many.
- `Transfer`: systemd, which starts red-box again, its goroutines, the program and
  the calls under way are weakly fair. Nobody has to begin, to fail, to send a
  signal or to remove the socket.
- `JobCalls`: the three steps of asking for a job are weakly fair as one, since the
  virtual kubelet polls. Submission, cancellation and Slurm are not.
- `SharedCache`: a reflector goes on, and a goroutine that asked for an informer
  calls `Start` and `WaitForCacheSync`, as the factory is meant to be used. Writers,
  breaks and the end of the channel are not fair.
- `PartitionFit` is deterministic and needs none.

## Proofs

`JobReconcilerProofs`: `TypeCorrect == Spec => []TypeOK`. `TypeOK` alone is not
inductive: a worker that is not idle must have a job as its key, a queue must
hold jobs of the kind of its controller, and a late call must be a call of a
job. `TypeInv` adds the three (`KeysOK`).

Its second part is `QueueIsSound == Spec => []QueueIntegrity`: the queue of a
controller holds exactly its dirty keys that nobody processes (`Due`), each
once. With `TypeInv` this is inductive. The lemmas `AppendParts` and `TailParts`
say what adding and taking a key do to the set of keys and to their being
distinct; the cases that matter are a key that is added while it is processed
(it becomes dirty and is not queued) and its release (it is queued if it became
dirty meanwhile).

Its third part is `JobsNeverForgotten == Spec => []NeverForgotten`, the
property the operator stands for. `NeverForgotten` says that nothing is left to
do once nothing is outstanding. It is not inductive, since it says nothing of the
moments in between. `AttentionInv` adds

1. `JobsSeen`, `PodsSeen`: a cached state followed by the unseen events are
   states the object went through, and the last is its present state; the events
   of a pod never show "no pod" twice in a row and name owners that are
   translated to this pod, so that each event notifies the right job;
2. `AllAttended`: if nothing has happened to a live job that its controller does
   not know of (`Informed`: not waiting, not dirty, no unseen event of the job or
   its pod), a worker on that job acts on the present state of both, and if there
   is none, the job is `Settled`.

The proof goes action by action: what touches a job leaves an event for it; what
takes the event leaves a key; what takes the key leaves a worker with nothing
read yet; what the worker reads is current as long as no event follows; and a
call that is rejected, that fails or that a crash interrupts leaves a key, a late
call or a restart that lists everything. Assumed are `ConstantsAssumption`
(types of the constants) and, in the property, that jobs have pod names of their
own: without that, one of two jobs is notified of the other's pod.
There is no bound in the theorems: bounds are arbitrary numbers.

`SharedCacheProofs` proves three properties of `SharedCache`, for any goroutines,
names and bounds:

- `TypeCorrect`: `TypeOK`, which says among others that an informer runs at most
  once. It needs `TypeInv`: the parts of the state are typed one by one, an informer
  is idle exactly when it was not started and has listed nothing then, it has listed
  at most once more than its watch broke, it has seen no more changes than there
  are, and what a goroutine holds is a job with a cell for each part of its kind.
- `WaitersFindCachesFilled`: `WaitedIsFilled`, from `WaitInv`: the informer a goroutine
  asked for is in the factory from then on, is started when it waits, and so is
  among those it waits for. That the sets are taken under the lock, in this order,
  is what the argument rests on: another goroutine's `Start` may only make them grow.
- `CachesAreServed`: `CacheIsServedButPrepare`, from `CellInv`: the cells that are
  edited belong to a goroutine or are cells of a `prepare`, and the copy a goroutine
  edits consists of cells of its own but for `prepare`.

`JobRefinementProofs` proves what the operator promises of one life of a job:
`StatusIsBehindPod`, `StatusIsMonotonic`, and `OperatorImplementsLifecycle == OneLife =>
(Spec => Lifecycle!Spec)`, the refinement of `JobLifecycle` but for its fairness.
`RefinementInv` adds to `AttentionInv`

1. `LifeInv`: what a cache, an unseen event, a worker or a late call knows of a job
   is of its only life and not newer than its object;
2. `OrderInv`: along the cache of a pod, its unseen events and the pod itself the
   phases rise; the status of the job is one the cache has passed, and so is a
   phase on its way to the API server, unless it was read of an older version of
   the job and will be refused.

The second half of 2 is the point of the code: a `Status().Update` of a process
that died may arrive after those of its successor, and only the version it carries
keeps the status from going back. `OneLife` (pod names of their own, each job
submitted once, nobody deletes its pod) is what the code needs, not what the prover
does: a job that is submitted again adopts the pod of its predecessor and reports a
phase of it, and a pod that is deleted is created again and starts from the
beginning. The first conjunct excludes the case of a SlurmJob `x-wlm` beside a
WlmJob `x`. Crashes, broken calls, edits, resyncs and lag are not bounded.

`TailStreamProofs` proves `TypeOK` and the three safety properties of a stream.
`TailInv` says of each stream that the client, the chunk of the handler, the
buffer, the line of `readTail` and the line of the tail hold, in this order, runs
of units that follow one another (`InOrder`), so that every step moves units from
the end of one run to the beginning of its neighbour; that a goroutine which is not
handing something on holds nothing (`Staged`); and, for a tail that did not fail,
that a tail which is told to stop was told so by the client's first request while the
handler waits for it (`StoppedByClient`), and that after a read of an empty buffer
one line at most can still come (`LineMissed`). The last one is what makes
`AtMostLastLineLost` inductive: it bounds what may arrive between the unlock and the
look at `isClosed`.

`JobCallsProofs` proves all the safety of `JobCalls`. Its first part reads text: what
`SlurmFields` finds in a record in which a field stands once, what a line of
`sacct` is split into, for each form of a name and a limit (`InfoTold`, `StepsTold`),
and that a text with an error, a date or an exit code that is none yields no steps
(`SpoiltUnread`). Nothing is supposed of the order of records and lines, or of how
many steps there are: `Listings` are any lists that name nothing twice.
`AnswersAreRight` follows for arrays of any size. `CallsInv` adds to the types that
every job in Slurm's queue but one was paid for with a failure, and that an answer
under way names the newest job (`SubmissionsCounted`), and that what was told of a
task, or is on its way, still holds of it (`ToldTheTruth`): an end is final, so a
late answer stays true. `KindsAssumption` admits one name and one limit of each form
the code treats differently; a name is only ever compared or searched for `=`, `|`
and blanks.

`TransferProofs` proves all the safety of `Transfer`. `TransferInv` follows an archive
through a program that met no other: such a program is alone (`Alone`), which is
where `crowded` enters, since a call left behind by a dead program counts as
company; what `Zip` wrote is a beginning of the tree in versions since the program
began, and after it the archive is whole, or it has no directory or a hole and the
program is `troubled` (`Zipped`); what the far side has is what was sent less the
chunks on the wire, and the end of the stream is behind the last one (`InTransit`);
what came is what was sent, or an upload of a troubled program with a hole
(`Received`); and the files before `Unzip`'s place are there, or were cut by a
troubled program (`UnzippedTo`). An archive with a hole has no directory, or an
entry that is not the one of its directory, and so never gets past `Unzip`. A file that stands twice in a tree
is written twice, hence the exception in `UnzippedTo`. The tree, the programs, the
faults and the wire are arbitrary.

`ConfiguratorProofs` proves the safety of `Configurator`. `PassInv` adds to `TypeOK`
that what a pass will delete is not among what it found (`ListsApart`); it rests on
what `Keep`, the filter behind `notIn` and `partitionNames`, returns for a list of any
length: the elements of the set and no others (`KeepElements`, `NotInElements`).

- `TypeCorrect`: the delete list of a pass consists of names of partitions, although
  an empty answer of Slurm puts a name among the found that is none.
- `OthersAreLeftAlone`: `KubeletsAreLeftAlone`, for any clusters, orders of the lists,
  changes, failures and crashes. `DistinctNames` is its premise: two partitions of a
  host whose names differ in the case of letters share a pod, and deleting one
  deletes the other.
- `NamesTellPartitions`, under the same premise: a pod or node that has the name of a
  partition is labelled with it, so that a label read from the nodes of all clusters
  and a name computed from it mean the same.

`PartitionFitProofs` proves all of `PartitionFit`, for scripts of any number of lines
and tokens. The properties compare what a parser accumulates with what a whole
script means, so the invariant ties the parser to its place in the script:

1. `ParserInv`: what is not read yet is the rest of the current line and the lines
   behind it, all lines read are in the heading, and reading ends at its end
   (`PositionOK`);
2. `BoundaryInv`: in a script of pairs (`IsOfPairs`) the parser is never at a value,
   as it is behind a flag, which takes a value that is not its own. `RefusalInv`
   says that it then refuses none that Slurm takes but those with marks;
3. `ResourcesInv`: the resources are those of the options behind the parser
   (`Agrees(resources, GivenSoFar)`): nodes, memory and time are those of the one
   value, CPUs the product of the two counts in whichever order they came;
4. `LabelInv`: the labels are those of the partition, and a job is scheduled if and
   only if it matches them.

From 1 and 2 follow `WellFormedIsRead` (what Slurm understands the parser reads, but
for the cases named) and, with 3 at the end of the script, that each resource that is asked for is
read and each that is read is asked for (`AskedIsRead`, `ReadIsAsked`). The lemmas
`WithinMeansHas` and `BeyondMeansHasNot` relate the label to what the partition has,
and name the missing limits. `ScheduledWhereItFits` and `PendingWhereItDoesNotFit`
combine them. Their premises are about scripts of users (`OptionsAreGivenOnce`,
`PositiveCounts`) and about partitions (`LimitsAreWithin`): the scripts red-box writes
are proved to fulfil theirs (`ContainerIsOrdinary`, `ContainerCountsArePositive`), and
TLC checks that those of the run do.

`ContainerIsRunAsRequested` is about the script red-box writes for a container: what
its heading gives each option (`Gives`, built up option by option), that this is the
request again with the time in seconds (`ContainerAsksFor`), and which of its commands
run when others fail (`ContainerRuns`).

Constants are assumed to be what the modules' `ASSUME`s say, and nothing else is
taken for granted; the premises of a theorem stand in its statement.

Every invariant and every safety property of an action that a run checks is stated by
a theorem. Only model-checked is liveness, which is out of the prover's reach:
`StatusConverges` and the fairness of `ImplementsLifecycle`,
`EveryTranslatedJobIsReported`, `EarlyLinesArrive`, `CloseEndsStream`,
`EveryPartitionIsRepresented`, `StalePodsOfFirstGo`, `TransferEnds`, `ServesAgain`,
`EndIsLearned`, `CacheCatchesUp`, `UsersGetReady`. The induction theorems of the library
cannot be used, since they take an operator; where an induction over data is needed,
for the filter of lists, it is done over a set of numbers with the least number that
is not in it (`SetInduction`).

## Plan

Done: all modules of the table, each with proofs of its safety properties, and the
refinement of the operator but for its fairness.

Left, in this order:

1. A composition of `TailStream` and `RedBoxProcess`: a stream that nobody ends
   keeps a graceful stop waiting.
2. A composition of `Configurator` and `PartitionFit`: a job whose partition goes.
3. Options of a script that count for the whole job (`--ntasks`), or that are given
   twice: what Slurm makes of them, beside what the parser does.

## Not modelled

`WorkloadInfo` and `Version` (one command, no state); the getters and codecs of
protobuf messages, the OpenAPI schema and the fake clients, which are declarations;
manifests, scripts and examples, whose restarts are the crash actions of the
models; and vendored code but for what decides the order of events in client-go,
controller-runtime and hpcloud/tail.
