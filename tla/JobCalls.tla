------------------------------ MODULE JobCalls ------------------------------
(***************************************************************************)
(* The calls of red-box about jobs - SubmitJob, CancelJob, JobInfo and     *)
(* JobSteps - between a client, a virtual kubelet with one job to run, and *)
(* the Slurm binaries they execute.  red-box keeps no state: what it says  *)
(* is what it reads of the text the binaries print.                        *)
(*                                                                         *)
(* The text of scontrol is a sequence of blocks, a block the sequence of   *)
(* its words, a word the sequence of its parts between "=".  The text of   *)
(* sacct is a sequence of lines, a line the sequence of its parts between  *)
(* "|", an exit code the sequence of its parts between ":".                *)
(***************************************************************************)
EXTENDS Integers, Sequences, SequencesExt, FiniteSetsExt

CONSTANTS
    Kinds,         \* the jobs there are to run: one of each form of name and limit
    Listings,      \* the lists of tasks and steps that Slurm may print
    MaxJobs,       \* submissions that Slurm accepts
    MaxFailures    \* answers that get lost, or cannot be read

(* A list names the task i as <<i, "">>, and the step s of it as <<i, s>>.  *)
ASSUME KindsAssumption ==
    /\ \A k \in Kinds : /\ k.tasks \in Nat \ {0} /\ k.container \in BOOLEAN
                        /\ k.name \in {"x", "x y", "x=y", "x|y"}
                        /\ k.limit \in {"1:00", "UNLIMITED", "Partition_Limit"}
                        /\ k.ends \subseteq {"COMPLETED", "FAILED", "TIMEOUT", "OUT_OF_MEMORY"}
    /\ \A list \in Listings :
          /\ list \in Seq(Nat \X STRING) /\ list # <<>>
          /\ \A m, n \in DOMAIN list : list[m] = list[n] => m = n
    /\ MaxJobs \in Nat /\ MaxFailures \in Nat

VARIABLES
    kind,      \* the job that the client has to run
    jobs,      \* the jobs in Slurm, by id: the state of each task, how many tasks
               \* have started, and the records that Slurm has forgotten
    known,     \* the id of the job the client was told, or 0
    call,      \* the call of each operation that is under way
    seen,      \* the statuses that JobInfo last told the client
    failures   \* answers that got lost, or could not be read

vars == <<kind, jobs, known, call, seen, failures>>

----------------------------------------------------------------------------
(* Slurm (external) *)

Ended == kind.ends \cup {"CANCELLED"}
States == Ended \cup {"PENDING", "RUNNING"}

Tasks == 1..kind.tasks

(* A task has a record of its own once it started.  Those that wait share  *)
(* the record of the job, which the last task keeps.                       *)
RecordOf(job, i) == IF i <= job.started THEN i ELSE kind.tasks
Records(job) == 1..job.started \cup {kind.tasks}
Kept(job) == Records(job) \ job.purged
IsGone(job) == Kept(job) = {}

(* A task that waits may have a date at which it is expected to start.     *)
StartTimes == {"Unknown", "2020-01-01"}
StartTime(job, i, planned) == IF i <= job.started THEN "2020-01-01" ELSE planned

(* A name with a blank is two words, one with "=" has three parts.         *)
NameWords == CASE kind.name = "x y" -> <<<<"JobName", "x">>, <<"y">>>>
               [] kind.name = "x=y" -> <<<<"JobName", "x", "y">>>>
               [] OTHER -> <<<<"JobName", kind.name>>>>

PrintRecord(job, i, planned) ==
    <<<<"JobId", i>>>> \o NameWords
    \o <<<<"JobState", job.states[i]>>,
         <<"StartTime", StartTime(job, i, planned)>>,
         <<"TimeLimit", kind.limit>>>>

TaskLines(records) == {<<i, "">> : i \in records}

Scontrol(job) ==
    {[n \in DOMAIN list |-> PrintRecord(job, list[n][1], planned)] :
        list \in {l \in Listings : Range(l) = TaskLines(Kept(job))}, planned \in StartTimes}

(* sacct names who cancelled a job.                                        *)
PrintTask(job, i) ==
    LET end == IF job.states[i] \in Ended THEN "2020-01-02" ELSE "Unknown"
        state == IF job.states[i] = "CANCELLED" THEN "CANCELLED by 0" ELSE job.states[i]
        name == IF kind.name = "x|y" THEN <<"x", "y">> ELSE <<kind.name>>
    IN  <<StartTime(job, i, "Unknown"), end, <<"0", "0">>, state, <<i, "">>>> \o name \o <<"">>

(* A step may end before its task, and does when its task ends.            *)
PrintStep(job, i, step, isOver) ==
    LET hasEnded == isOver \/ job.states[i] \in Ended
    IN  <<"2020-01-01", IF hasEnded THEN "2020-01-02" ELSE "Unknown", <<"0", "0">>,
          IF hasEnded THEN "COMPLETED" ELSE "RUNNING", <<i, step>>, "sleep", "">>

(* The accounting forgets no task, and lists the steps of those that       *)
(* started.                                                                *)
IsOfJob(list, job) ==
    /\ TaskLines(Records(job)) \subseteq Range(list)
    /\ \A e \in Range(list) : e[1] \in 1..job.started \/ e \in TaskLines(Records(job))

PrintLine(job, entry, isOver) ==
    IF entry[2] = "" THEN PrintTask(job, entry[1])
                     ELSE PrintStep(job, entry[1], entry[2], isOver)

Sacct(job) ==
    {[n \in DOMAIN list |-> PrintLine(job, list[n], isOver)] :
        list \in {l \in Listings : IsOfJob(l, job)}, isOver \in BOOLEAN}

(* It may not know a job that has not started.                             *)
Nothing == <<<<"">>>>
Unstarted(job) == {lines \in {Nothing} : Range(job.states) = {"PENDING"}}

(* An error of sacct beside its lines, a date and exit codes that are none.*)
With(lines, n, at, part) == [lines EXCEPT ![n][at] = part]
Spoilt(lines, n) ==
    {<<<<"sacct: error">>>> \o lines}
    \cup {With(lines, n, at, "20 Feb") : at \in {1, 2}}
    \cup {With(lines, n, 3, code) : code \in {<<"2", "5", "0">>, <<"F", "0">>}}

----------------------------------------------------------------------------
(* What red-box reads *)

Error == "error"
Nil == "nil"

(* Dates, and durations in a form of ParseDuration.                        *)
Dates == {"2020-01-01", "2020-01-02"}
Durations == {"1:00"}

ParseTime(text) == CASE text \in {"", "unknown", "Unknown"} -> Nil
                     [] text \in Dates -> text
                     [] OTHER -> Error

ParseDurationStrict(text) ==           \* faulty: UNLIMITED is no duration
    CASE text = "" -> Nil [] text \in Durations -> text [] OTHER -> Error
ParseDuration(text) == CASE text \in {"", "UNLIMITED"} -> Nil
                         [] text \in Durations -> text
                         [] OTHER -> Error

ParseField(tag, text) == CASE tag = "StartTime" -> ParseTime(text)
                           [] tag = "TimeLimit" -> ParseDuration(text)
                           [] OTHER -> text

Tags == {"JobId", "JobName", "JobState", "StartTime", "TimeLimit"}

IsFieldLoose(word) == Len(word) >= 2   \* faulty: what follows a second "=" is cut
IsField(word) == Len(word) = 2

(* The last of several fields of one name counts; one that is missing is   *)
(* left at its zero value.                                                 *)
SlurmFields(block) ==
    [tag \in Tags |->
        LET at == {n \in DOMAIN block : IsField(block[n]) /\ block[n][1] = tag}
        IN  IF at = {} THEN "" ELSE block[Max(at)][2]]

FillFromSlurmFields(fields) == [tag \in Tags |-> ParseField(tag, fields[tag])]

JobInfoFromScontrolResponse(blocks) ==
    [i \in DOMAIN blocks |-> FillFromSlurmFields(SlurmFields(blocks[i]))]

(* Every state of Slurm that has no status of its own is unknown.          *)
JobStatus_value == {"COMPLETED", "CANCELLED", "FAILED", "TIMEOUT", "PENDING", "UNKNOWN"}
StatusFailed(state) ==                 \* faulty: what has no status has failed
    IF state \in JobStatus_value THEN state ELSE "FAILED"
StatusRaw(state) == state              \* faulty: any state is a status
Status(state) == IF state \in JobStatus_value THEN state ELSE "UNKNOWN"

MapSInfoToProtoInfo(infos) ==
    [i \in DOMAIN infos |-> [id |-> infos[i]["JobId"], name |-> infos[i]["JobName"],
                             status |-> Status(infos[i]["JobState"]),
                             start |-> infos[i]["StartTime"],
                             limit |-> infos[i]["TimeLimit"]]]

ExitCode(parts) == IF Len(parts) = 2 /\ parts[1] \in {"0"} THEN parts[1] ELSE Error

IsLineOfSeven(line) == Len(line) = 7   \* faulty: what the parts hold is not looked at
IsLine(line) ==
    /\ Len(line) = 7
    /\ Error \notin {ParseTime(line[1]), ParseTime(line[2]), ExitCode(line[3])}

ParseSacctResponse(lines) ==
    [i \in DOMAIN lines |-> [start |-> ParseTime(lines[i][1]), end |-> ParseTime(lines[i][2]),
                             state |-> lines[i][4], id |-> lines[i][5], name |-> lines[i][6]]]

ToProtoSteps(steps) ==
    [i \in DOMAIN steps |-> [id |-> steps[i].id, name |-> steps[i].name,
                             status |-> Status(steps[i].state),
                             start |-> steps[i].start, end |-> steps[i].end]]

----------------------------------------------------------------------------
(* Calls.  The client makes one of a kind at a time. *)

Operations == {"submit", "info", "steps", "cancel"}
Answer(body) == [ok |-> TRUE, body |-> body]
Failure == [ok |-> FALSE, body |-> <<>>]

Call(at, answer) == [at |-> at, answer |-> answer]
Idle == Call("idle", Failure)

IsAt(op, at) == call[op].at = at
SetCall(op, c) == call' = [call EXCEPT ![op] = c]

Init ==
    /\ kind \in Kinds
    /\ jobs = <<>>
    /\ known = 0
    /\ call = [op \in Operations |-> Idle]
    /\ seen = {}
    /\ failures = 0

(* The client submits until it knows a job, then asks for it.              *)
Send(op) ==
    /\ IsAt(op, "idle")
    /\ (op = "submit") = (known = 0)
    /\ SetCall(op, Call("sent", Failure))
    /\ UNCHANGED <<kind, jobs, known, seen, failures>>

Job == jobs[known]
Serve(op, answer) == IsAt(op, "sent") /\ SetCall(op, Call("served", answer))

NewJob == [states |-> [i \in Tasks |-> "PENDING"], started |-> 0, purged |-> {}]

SBatchTwice ==                         \* faulty: an answer that cannot be read is
    /\ Serve("submit", Answer(<<Len(jobs) + 2>>))   \* ignored, and the job queued again
    /\ Len(jobs) + 1 < MaxJobs
    /\ jobs' = jobs \o <<NewJob, NewJob>>
    /\ UNCHANGED <<kind, known, seen, failures>>

(* Whatever sbatch prints beside the id makes the answer useless, though   *)
(* the job is queued.                                                      *)
SBatch ==
    /\ \/ Serve("submit", Answer(<<Len(jobs) + 1>>))
       \/ failures < MaxFailures /\ Serve("submit", Failure)
    /\ Len(jobs) < MaxJobs
    /\ jobs' = Append(jobs, NewJob)
    /\ UNCHANGED <<kind, known, seen, failures>>

SubmitJob == ~kind.container /\ SBatch
SubmitJobContainer == kind.container /\ SBatch

(* Slurm does not take the job.                                            *)
SubmitRefused ==
    /\ failures < MaxFailures
    /\ Serve("submit", Failure)
    /\ UNCHANGED <<kind, jobs, known, seen, failures>>

SCancel == jobs' = [jobs EXCEPT ![known].states =
                        [i \in Tasks |-> IF @[i] \in Ended THEN @[i] ELSE "CANCELLED"]]

CancelJob ==
    /\ IsAt("cancel", "sent")
    /\ Serve("cancel", IF IsGone(Job) THEN Failure ELSE Answer(<<>>))
    /\ SCancel
    /\ UNCHANGED <<kind, known, seen, failures>>

IsBad(info) == Error \in {info["StartTime"], info["TimeLimit"]}

(* Without an error there is always something: nothing stands for an error.*)
SJobInfo(blocks) ==
    LET infos == JobInfoFromScontrolResponse(blocks)
    IN  IF \E info \in Range(infos) : IsBad(info) THEN <<>> ELSE infos
SJobSteps(lines) ==
    IF \A line \in Range(lines) : IsLine(line) THEN ParseSacctResponse(lines) ELSE <<>>

InfoAnswer(blocks) ==
    LET infos == SJobInfo(blocks)
    IN  IF infos = <<>> THEN Failure ELSE Answer(MapSInfoToProtoInfo(infos))
StepsAnswer(lines) ==
    LET steps == SJobSteps(lines)
    IN  IF steps = <<>> THEN Failure ELSE Answer(ToProtoSteps(steps))

JobInfo ==
    /\ IsAt("info", "sent")
    /\ \/ IsGone(Job) /\ Serve("info", Failure)
       \/ ~IsGone(Job) /\ \E blocks \in Scontrol(Job) : Serve("info", InfoAnswer(blocks))
    /\ UNCHANGED <<kind, jobs, known, seen, failures>>

JobSteps ==
    /\ IsAt("steps", "sent")
    /\ \/ /\ \E lines \in Sacct(Job) \cup Unstarted(Job) : Serve("steps", StepsAnswer(lines))
          /\ UNCHANGED failures
       \/ /\ failures < MaxFailures
          /\ \E text \in Sacct(Job) : \E n \in DOMAIN text : \E lines \in Spoilt(text, n) :
               Serve("steps", StepsAnswer(lines))
          /\ failures' = failures + 1
    /\ UNCHANGED <<kind, jobs, known, seen>>

Statuses(infos) == {[id |-> info.id, status |-> info.status] : info \in Range(infos)}

Receive(op) ==
    /\ IsAt(op, "served")
    /\ SetCall(op, Idle)
    /\ LET answer == call[op].answer
       IN  /\ known' = IF op = "submit" /\ answer.ok THEN answer.body[1] ELSE known
           /\ seen' = IF op = "info" /\ answer.ok THEN Statuses(answer.body) ELSE seen
           /\ failures' = IF op = "submit" /\ ~answer.ok THEN failures + 1 ELSE failures
    /\ UNCHANGED <<kind, jobs>>

(* The connection breaks before the answer is there.                       *)
Lose(op) ==
    /\ IsAt(op, "served")
    /\ failures < MaxFailures
    /\ SetCall(op, Idle)
    /\ failures' = failures + 1
    /\ UNCHANGED <<kind, jobs, known, seen>>

----------------------------------------------------------------------------
(* Steps of Slurm (external) *)

SetState(j, i, state) ==
    /\ jobs' = [jobs EXCEPT ![j].states[i] = state,
                            ![j].started = IF i > @ THEN i ELSE @]
    /\ UNCHANGED <<kind, known, call, seen, failures>>

(* Tasks of an array start in their order, and end in any.                 *)
Start(j, i) == /\ i = jobs[j].started + 1 /\ jobs[j].states[i] = "PENDING"
               /\ SetState(j, i, "RUNNING")
End(j, i) == /\ jobs[j].states[i] = "RUNNING"
             /\ \E state \in kind.ends : SetState(j, i, state)

(* Slurm forgets a task some time after it ended, its accounting does not. *)
Purge(j, i) ==
    /\ i \in Kept(jobs[j]) /\ jobs[j].states[i] \in Ended
    /\ jobs' = [jobs EXCEPT ![j].purged = @ \cup {i}]
    /\ UNCHANGED <<kind, known, call, seen, failures>>

(* Only the job that the client knows moves: nothing is asked of others.   *)
Slurm == \E j \in {known} \ {0} : \E i \in Tasks : Start(j, i) \/ End(j, i) \/ Purge(j, i)

Next ==
    \/ \E op \in Operations : Send(op) \/ Receive(op) \/ Lose(op)
    \/ SubmitJob \/ SubmitJobContainer \/ SubmitRefused
    \/ CancelJob \/ JobInfo \/ JobSteps
    \/ Slurm

(* The client asks for information again and again, and red-box answers:   *)
(* one of the three steps is possible at any time.                         *)
Poll == Send("info") \/ JobInfo \/ Receive("info")
Fairness == WF_vars(Poll)

Spec == Init /\ [][Next]_vars /\ Fairness

----------------------------------------------------------------------------
(* Every variable has its type; a client is told statuses of the protocol. *)
TypeOK ==
    /\ kind \in Kinds
    /\ \A j \in DOMAIN jobs : /\ Range(jobs[j].states) \subseteq States
                             /\ jobs[j].started \in 0..kind.tasks
                             /\ jobs[j].purged \subseteq Records(jobs[j])
    /\ known \in 0..Len(jobs)
    /\ \A op \in Operations : call[op].at \in {"idle", "sent", "served"}
    /\ seen \subseteq [id : Tasks, status : JobStatus_value]
    /\ failures \in 0..(MaxFailures + 1)

(* What a job is, of each of its tasks, in the words of the protocol.      *)
TrueStatus(state) == IF state \in {"RUNNING", "OUT_OF_MEMORY"} THEN "UNKNOWN" ELSE state
HasReadableLimit == kind.limit # "Partition_Limit"
EndStatuses == JobStatus_value \ {"PENDING", "UNKNOWN"}

(* Of every task that Slurm remembers the answer tells once, maybe together*)
(* with others that wait like it.                                          *)
InfoIsRight(answer) ==
    /\ answer.ok <=> (~IsGone(Job) /\ HasReadableLimit)
    /\ answer.ok => \A i \in Tasks :
        LET told == {n \in DOMAIN answer.body : answer.body[n].id = RecordOf(Job, i)}
        IN  IF RecordOf(Job, i) \in Job.purged THEN told = {}
            ELSE \E n \in told :
                   /\ told = {n}
                   /\ answer.body[n].status = TrueStatus(Job.states[i])
                   /\ answer.body[n].start = Nil => i > Job.started
                   /\ answer.body[n].name \in {kind.name, IF kind.name = "x y" THEN "x" ELSE ""}

(* A line that is no step's is a task's, or that of those that wait.       *)
StepsAreRight(answer, isSpoilt) ==
    /\ isSpoilt => ~answer.ok
    /\ ~answer.ok => isSpoilt \/ kind.name = "x|y" \/ Range(Job.states) = {"PENDING"}
    /\ answer.ok => \A i \in Tasks :
        LET told == {n \in DOMAIN answer.body : answer.body[n].id = <<RecordOf(Job, i), "">>}
        IN  \E n \in told :
              /\ told = {n}
              /\ answer.body[n].name = kind.name
              /\ answer.body[n].status = IF Job.states[i] = "CANCELLED" THEN "UNKNOWN"
                                         ELSE TrueStatus(Job.states[i])
              /\ answer.body[n].start = Nil <=> i > Job.started
              /\ (answer.body[n].end # Nil) <=> (Job.states[i] \in Ended)

(* JobInfo and JobSteps tell of every task of a job once, with its own     *)
(* status, times and name, however Slurm lists tasks and steps; JobInfo    *)
(* tells of those that Slurm remembers.  JobInfo fails only of a job that  *)
(* is gone or whose limit is no duration; JobSteps only of one that has not*)
(* started, with "|" in its name, or where the text of sacct is spoilt, and*)
(* then it does fail.  Blanks and "=" in a name harm nothing but the name. *)
AnswersAreRight ==
    [][\A op \in {"info", "steps"} :
        (IsAt(op, "sent") /\ call'[op].at = "served") =>
            IF op = "info" THEN InfoIsRight(call'[op].answer)
                           ELSE StepsAreRight(call'[op].answer, failures' > failures)]_vars

(* A task that JobInfo or JobSteps reports as ended has ended that way,    *)
(* also when the answer comes late or is overtaken by another.             *)
Told(op) == IF call[op].answer.ok THEN Range(call[op].answer.body) ELSE {}
ReportedEndIsReal ==
    \A i \in Tasks : LET id == RecordOf(Job, i) IN
        /\ \A told \in seen \cup Told("info") :
              told.id = id /\ told.status \in EndStatuses => Job.states[i] = told.status
        /\ \A told \in Told("steps") :
              told.id = <<id, "">> /\ told.status \in EndStatuses => Job.states[i] = told.status

(* A job runs twice only if a submission failed for the client.            *)
DuplicatesOnlyAfterFailures == Len(jobs) <= 1 + failures

(* A client that asks again and again learns of each task that ended how it*)
(* did, unless Slurm forgets the task before, or what happened to it has no*)
(* status, or the time limit of the job cannot be read.                    *)
KnownJobs == {jobs[j] : j \in {known} \cap DOMAIN jobs}
HasEnded(job, i) == i \in Tasks /\ TrueStatus(job.states[i]) \in EndStatuses
IsTold(job, i) ==
    /\ i \in Tasks
    /\ \/ RecordOf(job, i) \in job.purged
       \/ [id |-> RecordOf(job, i), status |-> job.states[i]] \in seen
EndIsLearned ==
    \A i \in 1..Max({k.tasks : k \in Kinds}) :
      (HasReadableLimit /\ \E job \in KnownJobs : HasEnded(job, i))
        ~> (\E job \in KnownJobs : IsTold(job, i))
=============================================================================
