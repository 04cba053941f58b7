---------------------------- MODULE PartitionFit ----------------------------
(***************************************************************************)
(* How a batch job meets a partition: the operator reads the resources it  *)
(* asks for from the #SBATCH lines of its script and turns them into node  *)
(* affinity, red-box reads the limits of the partition from Slurm and from *)
(* its configuration, the virtual kubelet labels its node with them, and   *)
(* the Kubernetes scheduler compares the two.                              *)
(*                                                                         *)
(* The script is a sequence of lines, a line its kind and its tokens.  A   *)
(* token is "--name=value", "-Nvalue", a word "--name", a word that is a   *)
(* value, or the "#" of a comment behind the options of a line.            *)
(***************************************************************************)
EXTENDS Integers, Sequences

CONSTANTS
    Scripts,     \* the scripts that are submitted
    Requests,    \* the containers that are, for which red-box writes the script
    Clusters,    \* the partitions there are, as Slurm describes them
    Configs      \* the entries the configuration of red-box may have

VARIABLES
    script,    \* lines that are not read yet
    params,    \* tokens of the current line that are not read yet
    resources, \* what the job asks for, as far as it is read
    labels,    \* what the virtual node says of the partition
    state,     \* where the job is on its way to the partition
    input      \* the script, the partition and the configuration

vars == <<script, params, resources, labels, state, input>>

----------------------------------------------------------------------------
(* Values.  A value is read as "f1", "f1:f2:f3" or "f1-f2:f3:f4"; a mark   *)
(* is the suffix of a memory or a spelling of "infinite" that is no number.*)

Value(dash, fields) == [dash |-> dash, fields |-> fields, mark |-> "none"]
Number(n) == Value(FALSE, <<n>>)
Text == Value(FALSE, <<>>)        \* not a number
Empty == Value(TRUE, <<>>)        \* "" or UNLIMITED

Marked(fields, mark) == [dash |-> FALSE, fields |-> fields, mark |-> mark]
Memory(n, unit) == Marked(<<n>>, unit)
Infinite == Marked(<<>>, "infinite")    \* INFINITE, unlimited or -1

Options == {"nodes", "time", "mem", "cpus", "tasks"}
Commands == {"verify", "pull", "pull -U", "run", "rm"}

(* A value has no name; "other" and "flag" are the parameters that are     *)
(* skipped, the former with a value.                                       *)
TokenNames == Options \cup Commands \cup {"none", "other", "flag"}

(* The fields are those of n, m:s, h:m:s, min-max, d-h, d-h:m and d-h:m:s. *)
Values == {v \in [dash : BOOLEAN, fields : Seq(Nat), mark : {"none", "M", "G", "infinite"}] :
             Len(v.fields) \in (IF v.dash THEN {0, 2, 3, 4} ELSE 0..3)}

(* Lines: empty or "#!", "#SBATCH ...", any other comment, and a command.  *)
Skipped == [kind |-> "skipped", tokens |-> <<>>]
Directive(tokens) == [kind |-> "sbatch", tokens |-> tokens]
Comment == [kind |-> "comment", tokens |-> <<>>]
Command == [kind |-> "command", tokens |-> <<>>]

Token(form, name, value) == [form |-> form, name |-> name, value |-> value]
Assignment(name, value) == Token("assignment", name, value)
Attached(name, value) == Token("attached", name, value)
Word(name) == Token("word", name, Text)
Plain(value) == Token("plain", "none", value)
Hash == Token("hash", "none", Text)

Tokens == {t \in [form : {"assignment", "attached", "word", "plain", "hash"},
                  name : TokenNames, value : Values] :
             t.form \in {"plain", "hash"} => t.name = "none"}
Lines == {line \in [kind : {"skipped", "sbatch", "comment", "command"}, tokens : Seq(Tokens)] :
            line.kind \in {"skipped", "comment"} => line.tokens = <<>>}

Nothing == [nodes |-> 0, time |-> 0, mem |-> 0, cpus |-> 0]
Names == DOMAIN Nothing

Unlimited == -1                   \* "UNLIMITED" in what Slurm prints

Limit == Nat \cup {Unlimited}

ASSUME InputsAssumption ==
    /\ Scripts \subseteq Seq(Lines)
    /\ Requests \subseteq [time : Nat, mem : Nat, nodes : Nat, cpus : Nat,
                           local : BOOLEAN, unsigned : BOOLEAN]
    /\ Clusters \subseteq [maxTime : Limit, maxCPUsPerNode : Limit, maxMemPerNode : Limit,
                           maxNodes : Limit, totalNodes : Nat \ {0}, totalCPUs : Nat]
    /\ Configs \subseteq [auto : SUBSET Names, manual : [Names -> Nat]]

----------------------------------------------------------------------------
(* buildSLURMScript.  A command that ends in "|| exit" ends the script when *)
(* it fails; only the last one, rm, does not.                              *)

Run(command) == [kind |-> "command", tokens |-> <<Word(command)>>]

TimeInMinutes(n) == Number(n)     \* faulty: the wall time is given in seconds
Time(n) == Value(FALSE, <<0, n>>)

(* What is zero is left to Slurm.                                          *)
OptionLine(name, n, value) == IF n = 0 THEN <<>> ELSE <<Directive(<<Assignment(name, value)>>)>>

VerifiedLast(request) ==          \* faulty: verified after it ran
    IF request.unsigned THEN <<Run("run")>> ELSE <<Run("run"), Run("verify")>>
LocalImage(request) ==
    IF request.unsigned THEN <<Run("run")>> ELSE <<Run("verify"), Run("run")>>

RemoteImage(request) ==
    <<Run(IF request.unsigned THEN "pull -U" ELSE "pull"), Run("run"), Run("rm")>>

ContainerScript(request) ==
    <<Skipped>>
    \o OptionLine("time", request.time, Time(request.time))
    \o OptionLine("mem", request.mem, Number(request.mem))
    \o OptionLine("nodes", request.nodes, Number(request.nodes))
    \o OptionLine("cpus", request.cpus, Number(request.cpus))
    \o IF request.local THEN LocalImage(request) ELSE RemoteImage(request)

Init ==
    /\ input \in [script : Scripts \cup {ContainerScript(request) : request \in Requests},
                  cluster : Clusters, config : Configs]
    /\ script = input.script
    /\ params = <<>>
    /\ resources = Nothing
    /\ labels = Nothing
    /\ state = "reading"

----------------------------------------------------------------------------
(* extractBatchResources *)

IsNumber(v) == ~v.dash /\ Len(v.fields) = 1 /\ v.mark = "none"
IsDuration(v) == v.mark = "none" /\ Len(v.fields) \in (IF v.dash THEN 2..4 ELSE 1..3)

Minute == 60
Hour == 60 * Minute
Day == 24 * Hour

Field(v, i) == IF i <= Len(v.fields) THEN v.fields[i] ELSE 0

ParseDuration(v) ==
    IF v.dash THEN Field(v, 1) * Day + Field(v, 2) * Hour
                   + Field(v, 3) * Minute + Field(v, 4)
    ELSE IF Len(v.fields) = 3
         THEN Field(v, 1) * Hour + Field(v, 2) * Minute + Field(v, 3)
         ELSE Field(v, 1) * Minute + Field(v, 2)

(* The smallest number of "min-max". *)
IsNodesPlain(v) == IsNumber(v)    \* faulty: a range is not a number
IsNodes(v) == v.fields # <<>> /\ (IsNumber(v) \/ v.dash)

IsValid(name, v) == CASE name = "time" -> IsDuration(v) \/ v = Empty
                      [] name = "nodes" -> IsNodes(v)
                      [] name \in {"mem", "cpus", "tasks"} -> IsNumber(v)
                      [] OTHER -> TRUE

TimesCPUsOverwritten(res, n) == n \* faulty: the last of the two wins
TimesCPUs(res, n) == (IF res.cpus = 0 THEN 1 ELSE res.cpus) * n

ApplySbatchParam(res, name, v) ==
    CASE name = "time" -> [res EXCEPT !.time = IF v = Empty THEN @ ELSE ParseDuration(v)]
      [] name = "nodes" -> [res EXCEPT !.nodes = v.fields[1]]
      [] name = "mem" -> [res EXCEPT !.mem = v.fields[1]]
      [] name \in {"cpus", "tasks"} -> [res EXCEPT !.cpus = TimesCPUs(res, v.fields[1])]
      [] OTHER -> res

(* Any line but an empty one, "#!" or "#SBATCH".                           *)
EndsHeading(line) == line.kind \in {"comment", "command"}

NextLine ==
    /\ state = "reading"
    /\ params = <<>>
    /\ script # <<>> /\ ~EndsHeading(Head(script))
    /\ params' = Head(script).tokens
    /\ script' = Tail(script)
    /\ UNCHANGED <<resources, labels, state, input>>

(* A parameter without "=" takes the next token for its value, whatever    *)
(* that is; a last one indexes out of range.                               *)
TakesNext == Head(params).form # "assignment"

(* A value in the word of its name makes another name of it: "-N2".        *)
ParamName == IF Head(params).form = "attached" THEN "none" ELSE Head(params).name

ParamValue == IF ~TakesNext THEN Head(params).value
              ELSE IF params[2].form = "plain" THEN params[2].value ELSE Text

ReadParam ==
    /\ state = "reading"
    /\ params # <<>>
    /\ TakesNext => Len(params) > 1
    /\ IsValid(ParamName, ParamValue)
    /\ resources' = ApplySbatchParam(resources, ParamName, ParamValue)
    /\ params' = SubSeq(params, IF TakesNext THEN 3 ELSE 2, Len(params))
    /\ UNCHANGED <<script, labels, state, input>>

RefuseParam ==
    /\ state = "reading"
    /\ params # <<>>
    /\ TakesNext => Len(params) > 1
    /\ ~IsValid(ParamName, ParamValue)
    /\ state' = "refused"
    /\ UNCHANGED <<script, params, resources, labels, input>>

Panic ==
    /\ state = "reading"
    /\ params # <<>>
    /\ TakesNext /\ Len(params) = 1
    /\ state' = "panicked"
    /\ UNCHANGED <<script, params, resources, labels, input>>

ScriptRead ==
    /\ state = "reading"
    /\ params = <<>>
    /\ script # <<>> => EndsHeading(Head(script))
    /\ state' = "read"
    /\ UNCHANGED <<script, params, resources, labels, input>>

----------------------------------------------------------------------------
(* red-box.  A cluster is what scontrol prints of the partition.           *)

OrTotalForgotten(limit, total) == limit        \* faulty: -1 stays
OrTotal(limit, total) == IF limit = Unlimited THEN total ELSE limit

(* An unlimited time is -1 nanosecond, and so no second.                   *)
ParseResources(c) ==
    [time |-> IF c.maxTime = Unlimited THEN 0 ELSE c.maxTime,
     cpus |-> OrTotal(c.maxCPUsPerNode, c.totalCPUs),
     mem |-> c.maxMemPerNode,
     nodes |-> OrTotal(c.maxNodes, c.totalNodes)]

(* A value of the configuration counts unless it is "auto" or missing.     *)
IsConfigured(config, name) == name \notin config.auto /\ config.manual[name] # 0

Resources(c, config) ==
    [name \in Names |-> IF IsConfigured(config, name) THEN config.manual[name]
                        ELSE ParseResources(c)[name]]

LabelNode ==
    /\ state = "read"
    /\ labels' = Resources(input.cluster, input.config)
    /\ state' = "labelled"
    /\ UNCHANGED <<script, params, resources, input>>

----------------------------------------------------------------------------
(* AffinityForResources and the scheduler: "label Gt value" *)

BoundOffByOne(n) == n             \* faulty: Gt is taken for "at least"
Bound(n) == n - 1

IsRequired(name) == resources[name] # 0

IsMatch == \A name \in Names : IsRequired(name) => labels[name] > Bound(resources[name])

Schedule ==
    /\ state = "labelled"
    /\ state' = IF IsMatch THEN "scheduled" ELSE "pending"
    /\ UNCHANGED <<script, params, resources, labels, input>>

Done == /\ state \in {"scheduled", "pending", "refused", "panicked"}
        /\ UNCHANGED vars

Next == \/ NextLine \/ ReadParam \/ RefuseParam \/ Panic \/ ScriptRead
        \/ LabelNode
        \/ Schedule
        \/ Done

Spec == Init /\ [][Next]_vars

----------------------------------------------------------------------------
(* What Slurm would say: the options of a script, each meant to be given   *)
(* at most once, and the limits of the partition.                          *)

(* The lines before the first command; comments are passed over.           *)
Heading(s) == {l \in DOMAIN s : \A j \in 1..l : s[j].kind # "command"}
Directives(s) == {s[l].tokens : l \in Heading(s)}

(* The arguments of a line end where a comment begins.                     *)
IsArgument(d, i) == \A j \in 1..i : d[j].form # "hash"

(* The values given for an option: by "=", by the rest of its word or by   *)
(* the word that follows.                                                  *)
HoldsValue(token) == token.form \in {"assignment", "attached"}
HasValueBehind(d, i) == i < Len(d) /\ d[i + 1].form = "plain"
ValueOf(d, i) == IF HoldsValue(d[i]) THEN d[i].value ELSE d[i + 1].value
GivesOne(d, i, name) ==
    /\ IsArgument(d, i)
    /\ d[i].name = name
    /\ HoldsValue(d[i]) \/ HasValueBehind(d, i)
Given(s, name) ==
    UNION {{ValueOf(d, i) : i \in {k \in DOMAIN d : GivesOne(d, k, name)}} : d \in Directives(s)}

(* The values Slurm takes for an option.                                   *)
IsMeant(name, v) ==
    CASE name = "time" -> (v.fields # <<>> /\ v.mark = "none") \/ v \in {Empty, Infinite}
      [] name = "nodes" -> Len(v.fields) = (IF v.dash THEN 2 ELSE 1) /\ v.mark = "none"
      [] name = "mem" -> Len(v.fields) = 1 /\ ~v.dash /\ v.mark \in {"none", "M", "G"}
      [] OTHER -> Len(v.fields) = 1 /\ ~v.dash /\ v.mark = "none"

(* Every argument that takes a value has one that is meant, and every value*)
(* belongs to one.                                                         *)
TakesValue == Options \cup {"other"}
IsWellFormed(s) ==
    \A d \in Directives(s) : \A i \in {k \in DOMAIN d : IsArgument(d, k)} :
      /\ d[i].form = "word" /\ d[i].name \in TakesValue => HasValueBehind(d, i)
      /\ d[i].form = "plain" => i > 1 /\ d[i - 1].form = "word" /\ d[i - 1].name \in TakesValue
      /\ \A name \in Options : GivesOne(d, i, name) => IsMeant(name, ValueOf(d, i))

(* What the parser takes each line for: "--name=value" and "--name value". *)
IsOfPairs(s) ==
    \A d \in Directives(s) : \A i \in DOMAIN d :
      /\ d[i].form \in {"assignment", "word", "plain"}
      /\ d[i].form = "word" => /\ d[i].name \in TakesValue
                               /\ d[i].name = "other" => HasValueBehind(d, i)
      /\ d[i].form = "plain" => i > 1 /\ d[i - 1].form = "word"

(* A directive behind a comment, which the parser takes for a command.     *)
IsCutShort(s) ==
    \E l \in Heading(s) : s[l].tokens # <<>> /\ \E j \in 1..l : s[j].kind = "comment"

(* A memory with a suffix or a limit that is spelt in another way.         *)
HasMarks(s) == \E name \in Options : \E v \in Given(s, name) : v.mark # "none"

GivesOptionsOnce(s) ==
    \A l, m \in Heading(s) : \A i \in DOMAIN s[l].tokens : \A j \in DOMAIN s[m].tokens :
      s[l].tokens[i].name = s[m].tokens[j].name /\ s[l].tokens[i].name \in Options
      => l = m /\ i = j

AsNumber(v) == v.fields[1]
InMegabytes(v) == IF v.mark = "G" THEN 1024 * v.fields[1] ELSE v.fields[1]

(* The seconds of a time limit: its fields are d-h:m:s or h:m:s, a single  *)
(* field is minutes.                                                       *)
AsSeconds(v) ==
    LET n == Len(v.fields)
        unit == <<Day, Hour, Minute, 1>>
        first == IF v.dash THEN 1 ELSE IF n = 1 THEN 3 ELSE 5 - n
        part == [i \in 1..4 |-> IF i \in first..(first + n - 1)
                                THEN v.fields[i - first + 1] * unit[i] ELSE 0]
    IN part[1] + part[2] + part[3] + part[4]

(* A time limit of zero is none, as UNLIMITED is.                          *)
TimeAsked(v) == IF v \in {Empty, Infinite} \/ AsSeconds(v) = 0 THEN Unlimited ELSE AsSeconds(v)

(* CPUs and tasks are counted from one, as Slurm counts them.              *)
CountsArePositive(s) ==
    \A name \in {"cpus", "tasks"} : \A v \in Given(s, name) : AsNumber(v) # 0

Times(s, t) == {a * b : a \in s, b \in t}
OrOne(s) == IF s = {} THEN {1} ELSE s

Asked(s) ==
    [nodes |-> {AsNumber(v) : v \in Given(s, "nodes")},
     mem |-> {InMegabytes(v) : v \in Given(s, "mem")},
     time |-> {TimeAsked(v) : v \in Given(s, "time")},
     cpus |-> IF Given(s, "cpus") \cup Given(s, "tasks") = {} THEN {}
              ELSE Times(OrOne({AsNumber(v) : v \in Given(s, "cpus")}),
                         OrOne({AsNumber(v) : v \in Given(s, "tasks")}))]

IsWithin(n, limit) == limit = Unlimited \/ (n # Unlimited /\ n <= limit)

(* What the partition has for a job: the configured value, or its limit.   *)
Has(c, config, name, n) ==
    IF IsConfigured(config, name) THEN IsWithin(n, config.manual[name])
    ELSE CASE name = "time" -> IsWithin(n, c.maxTime)
           [] name = "mem" -> IsWithin(n, c.maxMemPerNode)
           [] name = "cpus" -> IsWithin(n, c.maxCPUsPerNode) /\ n <= c.totalCPUs \div c.totalNodes
           [] name = "nodes" -> IsWithin(n, c.maxNodes) /\ n <= c.totalNodes

(* No limit of a partition is above what its nodes have.                   *)
LimitsAreWithin ==
    \A c \in Clusters : /\ c.maxCPUsPerNode <= c.totalCPUs \div c.totalNodes
                        /\ c.maxNodes <= c.totalNodes

(* Zero is all the memory a node has.                                      *)
IsEnough(name) == \A n \in Asked(input.script)[name] :
                    n # 0 => Has(input.cluster, input.config, name, n)
IsSuitable == \A name \in Names : IsEnough(name)

----------------------------------------------------------------------------
(* Properties *)

(* Every variable holds the kind of value the code keeps there. *)
TypeOK ==
    /\ resources \in [Names -> Nat]
    /\ labels \in [nodes : Nat, time : Nat, mem : Nat \cup {Unlimited}, cpus : Nat]
    /\ state \in {"reading", "read", "labelled", "scheduled", "pending",
                  "refused", "panicked"}

(* The parser does not read the script as Slurm does: it stops early, or   *)
(* takes a flag, a value in its word or a comment for a name with a value. *)
IsMisread == IsCutShort(input.script) \/ ~IsOfPairs(input.script)

(* A job that asks for more CPUs than a node has, where they are not       *)
(* limited: those of the whole partition are taken for those of a node.    *)
AreCPUsUnlimited ==
    /\ input.cluster.maxCPUsPerNode = Unlimited /\ ~IsConfigured(input.config, "cpus")
    /\ \E n \in Asked(input.script).cpus : n > input.cluster.totalCPUs \div input.cluster.totalNodes

(* A job that asks for no time limit: that is read as no request at all.   *)
AsksForNoTimeLimit == Unlimited \in Asked(input.script).time

(* A job appears only on a partition that has all its script asks for, but *)
(* for CPUs where those of a node are not limited, and for time if no limit*)
(* is asked for; unless its script is misread.                             *)
OnlyOnSuitablePartition ==
    state = "scheduled" =>
      \/ \A name \in Names : \/ IsEnough(name)
                             \/ name = "cpus" /\ AreCPUsUnlimited
                             \/ name = "time" /\ AsksForNoTimeLimit
      \/ IsMisread

(* A job that asks for time where time is not limited: the limit is read   *)
(* as none at all.                                                         *)
IsTimeUnlimited ==
    /\ input.cluster.maxTime = Unlimited /\ ~IsConfigured(input.config, "time")
    /\ Asked(input.script).time \ {Unlimited} # {}

(* The same for memory, whose label is -1 then.                            *)
IsMemUnlimited ==
    /\ input.cluster.maxMemPerNode = Unlimited /\ ~IsConfigured(input.config, "mem")
    /\ Asked(input.script).mem \ {0} # {}

(* A job that a partition has enough for is not kept from it, but where    *)
(* the time or the memory of the partition is not limited; unless its      *)
(* script is misread.                                                      *)
NotKeptFromSuitablePartition ==
    state = "pending" => ~IsSuitable \/ IsTimeUnlimited \/ IsMemUnlimited \/ IsMisread

(* A script that Slurm understands panics only for what is no pair of name *)
(* and value, and is refused only for that, or for a memory with a suffix  *)
(* or an infinite time in another spelling.                                *)
WellFormedScriptIsRead ==
    IsWellFormed(input.script) =>
      /\ state = "panicked" => ~IsOfPairs(input.script)
      /\ state = "refused" => ~IsOfPairs(input.script) \/ HasMarks(input.script)

(* The commands of a script that are executed when those of a set fail.    *)
Executed(s, failing) ==
    LET isLast(l) == s[l].tokens[1].name \in failing
    IN  {s[l].tokens[1].name : l \in {k \in DOMAIN s : s[k].kind = "command" /\
            \A j \in 1..(k - 1) : s[j].kind = "command" => ~isLast(j)}}

(* The script of a container asks Slurm for what its request says, and an  *)
(* image runs only if it was verified or need not be, whatever command     *)
(* fails; when none does a pulled image is removed.                        *)
ContainerScriptDoesAsRequested ==
    state = "read" => \A request \in Requests : input.script = ContainerScript(request) =>
        /\ \A name \in Names : Asked(input.script)[name] = {request[name]} \ {0}
        /\ \A failing \in SUBSET Commands :
              LET done == Executed(input.script, failing)
              IN  /\ "run" \in done /\ ~request.unsigned =>
                        \E check \in {"verify", "pull"} : check \in done \ failing
                  /\ failing = {} /\ ~request.local => "rm" \in done
=============================================================================
