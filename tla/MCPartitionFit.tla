--------------------------- MODULE MCPartitionFit ---------------------------
(* Instances of PartitionFit for TLC: scripts, partitions, configurations. *)
EXTENDS PartitionFit, FiniteSets

Numbers == {Number(1), Number(2)}

(* An option given in either form, "-n 1" or "--n=1". *)
Ways(name, values) == {<<Assignment(name, v)>> : v \in values}
                      \cup {<<Word(name), Plain(v)>> : v \in values}
                      \cup {<<>>}

Durations == {Number(0), Number(2), Value(FALSE, <<1, 30>>), Value(FALSE, <<0, 1, 30>>),
              Value(TRUE, <<0, 0, 2>>), Empty, Infinite}

NodesRange == Value(TRUE, <<1, 2>>)

Memories == {Number(1), Number(2), Memory(1, "M"), Memory(1, "G")}

(* Options in any order of two groups, on one line, on two, or the second   *)
(* after a comment or after the first command, where it is no directive.    *)
Pairs(A, B) ==
    UNION {{<<Skipped, Directive(x \o y), Command>>,
            <<Directive(x), Skipped, Directive(y)>>,
            <<Directive(x), Comment, Directive(y), Command>>,
            <<Directive(x), Command, Directive(y)>>} : x \in A, y \in B}

OneOfEach ==
    Pairs(Ways("cpus", Numbers), Ways("tasks", Numbers))
    \cup Pairs(Ways("tasks", Numbers), Ways("cpus", Numbers))
    \cup Pairs(Ways("nodes", Numbers \cup {NodesRange}), Ways("time", Durations))
    \cup Pairs(Ways("mem", Memories), Ways("nodes", {Number(2)}))

(* What the parser does not know: a flag, a value in the word of its name, *)
(* a parameter it skips, a comment behind the options.                     *)
Strange == {<<Word("flag")>>, <<Attached("nodes", Number(2))>>,
            <<Word("other"), Plain(Text)>>, <<Hash, Plain(Text)>>,
            <<Hash, Plain(Text), Plain(Text)>>}

(* examples/fox.yaml *)
FoxScript ==
    <<Skipped,
      Directive(<<Word("other"), Plain(Text)>>),
      Directive(<<Word("nodes"), Plain(Number(2)), Hash>> \o [i \in 1..4 |-> Plain(Text)]),
      Directive(<<Assignment("time", Value(FALSE, <<0, 5, 0>>))>>),
      Command>>

SomeScripts ==
    OneOfEach \cup {FoxScript}
    \cup Pairs(Ways("mem", {Text}), {<<>>}) \cup Pairs({<<>>}, Ways("time", {Text}))
    \cup Pairs(Ways("nodes", {Number(1)}), {<<Word("cpus")>>})
    \cup Pairs({<<Word("cpus")>>}, Ways("nodes", {Number(1)}))
    \cup Pairs(Strange, Ways("time", {Number(2)}))
    \cup Pairs(Ways("time", {Number(2)}), Strange)

SomeRequests == [time : {0, 90}, mem : {0, 2}, nodes : {1}, cpus : {0, 2},
                 local : BOOLEAN, unsigned : BOOLEAN]

Limits(times, cpus, mems, nodes) ==
    [maxTime : times, maxCPUsPerNode : cpus, maxMemPerNode : mems,
     maxNodes : nodes, totalNodes : {2}, totalCPUs : {4}]

SomeLimits == Limits({60, 90, 120}, {1, 2}, {1, 2}, {1, 2, Unlimited})
              \cup Limits({Unlimited}, {2}, {2}, {2})
              \cup Limits({90}, {Unlimited}, {2}, {2})
              \cup Limits({90}, {2}, {Unlimited}, {2})

NoConfig == [auto |-> {}, manual |-> Nothing]
SomeConfigs == {NoConfig,
                [auto |-> {}, manual |-> [Nothing EXCEPT !.nodes = 1]],
                [auto |-> {"nodes"}, manual |-> [Nothing EXCEPT !.nodes = 1]]}

(* What the theorems about the scheduling of a job suppose.                *)
ASSUME InstancesAreOrdinary ==
    /\ \A s \in Scripts : GivesOptionsOnce(s) /\ CountsArePositive(s)
    /\ LimitsAreWithin
=============================================================================
